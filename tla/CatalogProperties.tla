-------------------------- MODULE CatalogProperties --------------------------
(* What callers of the recovery catalog rely on. *)
EXTENDS RecoveryCatalog

Steps == {"idle", "empty", "text", "locksync", "opened", "loaded", "publish", "intent", "next",
          "write", "rename", "sync", "unlink", "last"}

(* Every variable keeps its type, and flock has a holder exactly while some
   process is between opening the lock file and returning. *)
TypeOK ==
  /\ seen \in Directory /\ disk \in Directory
  /\ pc \in [Procs -> Steps]
  /\ holder = {p \in Procs : pc[p] \notin {"idle", "empty"}}
  /\ want \in [Procs -> Floors]
  /\ draft \in [Procs -> Record]
  /\ told \subseteq Floors

(* A catalog that can be used - now, or after a power failure at this moment -
   does not fall behind what any caller was told, nor contradict it
   (commitCatalog syncs the rename before it removes the mark). *)
AnswersStand ==
  \A d \in {seen, disk} : Usable(d) =>
    \A record \in d.state, floor \in told : Below(floor, record.current)

(* Answers are given in order: nobody is told a floor below, or in conflict
   with, what somebody was told before (VerifyAndAdvanceCatalog). *)
AnswersInOrder ==
  [][\A new \in told' \ told, old \in told : Below(old, new)]_vars

(* The floor that would survive a power failure. *)
DiskFloor ==
  IF \E record \in disk.state : TRUE THEN (CHOOSE record \in disk.state : TRUE).current ELSE Zero

(* The catalog implements a floor that only rises. *)
Floor == INSTANCE ReceiptFloor WITH floor <- DiskFloor
FloorKept == Floor!Spec
=============================================================================
