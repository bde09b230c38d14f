--------------------------- MODULE RecoveryCatalog ---------------------------
(***************************************************************************)
(* The catalog of recovery receipts (internal/recoverybundle/catalog.go): a *)
(* directory with a lock file and one state file, which remembers the      *)
(* newest backup that was ever accepted.  A caller who was told a floor    *)
(* must never be told a lower or another one for the same sequence number, *)
(* although processes compete for the lock, die between any two system     *)
(* calls, and the power may fail.                                          *)
(*                                                                         *)
(* Two views of the directory: seen is what processes find, disk what a    *)
(* power failure leaves.  An entry that was changed reaches the disk when  *)
(* the directory is synced, or any time before; entries do so one by one,  *)
(* in any order.                                                           *)
(*                                                                         *)
(* A signed receipt is its sequence number and its digest.  Signature,     *)
(* source, recipient and freshness are left to Refuse, which may turn down *)
(* any receipt.  That somebody tampers with the directory is left out.     *)
(*                                                                         *)
(* A definition called a slip is no part of the system: it is a mistake    *)
(* that the definition below it could contain, kept to show that the       *)
(* properties notice it.                                                   *)
(***************************************************************************)
EXTENDS Naturals

CONSTANTS
  Procs,     \* processes that use the catalog
  Digests,   \* digests a payload can have
  MaxSeq     \* bound: sequence numbers

ASSUME CatalogAssumption == MaxSeq \in Nat /\ "" \notin Digests

VARIABLES
  seen, disk,  \* the directory, in memory and after a power failure
  holder,      \* {}, or the process that holds flock on catalog.lock
  pc,          \* where every process is
  want,        \* the receipt it was given
  draft,       \* the record it read or is about to publish
  told         \* history: the floors callers were told

vars == <<seen, disk, holder, pc, want, draft, told>>

(* catalogFloor *)
Receipts == [seq : 1 .. MaxSeq, sum : Digests]
Zero     == [seq |-> 0, sum |-> ""]
Floors   == Receipts \cup {Zero}

(* catalogRecord; signed: last_receipt is there.  Torn is a file that was created and
   not yet written. *)
Record == [bootstrap : Floors, current : Floors, signed : BOOLEAN]
Torn   == [bootstrap |-> Zero, current |-> Zero, signed |-> TRUE]

Directory == [lock : {"absent", "torn", "whole"}, state : SUBSET Record,
              pending : BOOLEAN, next : SUBSET Record]

Empty == [lock |-> "absent", state |-> {}, pending |-> FALSE, next |-> {}]

(* a is no obstacle to b: lower, or the very same. *)
Below(a, b) == a.seq < b.seq \/ a = b

(* Slip: the digest is not compared. *)
AcceptableAnyDigest(r, floor) == r.seq >= floor.seq

(* VerifyReceipt: neither stale nor in conflict. *)
Acceptable(r, floor) == Below(floor, r)

(* lockedCatalog: what a state file must be to be trusted. *)
Valid(record) ==
  /\ record.bootstrap.seq <= record.current.seq
  /\ ~ record.signed => record.current = record.bootstrap
  /\ record.signed => /\ record.current.seq > 0
                      /\ record.current.seq = record.bootstrap.seq
                           => record.current = record.bootstrap

(* Two names, the lock and the state; anything else is for the operator. *)
Usable(d) ==
  /\ d.lock = "whole" /\ ~ d.pending /\ d.next = {}
  /\ \E record \in d.state : d.state = {record} /\ Valid(record)

Goes(p, step) == pc' = [pc EXCEPT ![p] = step]

(* The descriptors are closed, whatever the outcome. *)
Returns(p) ==
  /\ Goes(p, "idle")
  /\ holder' = holder \ {p}

Tells(floor) == told' = told \cup {floor}

(* fsync of the directory *)
Sync == disk' = seen /\ UNCHANGED seen

-----------------------------------------------------------------------------
(* InitializeCatalog *)

FindEmpty(p, floor) ==
  /\ pc[p] = "idle" /\ seen = Empty
  /\ draft' = [draft EXCEPT ![p] = [bootstrap |-> floor, current |-> floor, signed |-> FALSE]]
  /\ Goes(p, "empty")
  /\ UNCHANGED <<seen, disk, holder, want, told>>

(* O_EXCL, then flock.  Nobody opens a lock file without its text. *)
CreateLock(p) ==
  /\ pc[p] = "empty"
  /\ IF seen.lock = "absent"
     THEN /\ seen' = [seen EXCEPT !.lock = "torn"]
          /\ holder' = {p} /\ Goes(p, "text")
     ELSE Returns(p) /\ UNCHANGED seen
  /\ UNCHANGED <<disk, want, draft, told>>

WriteLock(p) ==
  /\ pc[p] = "text"
  /\ seen' = [seen EXCEPT !.lock = "whole"]
  /\ Goes(p, "locksync")
  /\ UNCHANGED <<disk, holder, want, draft, told>>

SyncLock(p) ==
  /\ pc[p] = "locksync" /\ Sync
  /\ Goes(p, "publish")
  /\ UNCHANGED <<holder, want, draft, told>>

-----------------------------------------------------------------------------
(* VerifyAndAdvanceCatalog and CatalogWatermark *)

(* Otherwise the answer is ErrCatalogBusy, or that there is no catalog. *)
Open(p, r) ==
  /\ pc[p] = "idle" /\ seen.lock = "whole" /\ holder = {}
  /\ holder' = {p} /\ want' = [want EXCEPT ![p] = r]
  /\ Goes(p, "opened")
  /\ UNCHANGED <<seen, disk, draft, told>>

Load(p) ==
  /\ pc[p] = "opened"
  /\ IF Usable(seen)
     THEN /\ \E record \in seen.state : draft' = [draft EXCEPT ![p] = record]
          /\ Goes(p, "loaded") /\ UNCHANGED holder
     ELSE Returns(p) /\ UNCHANGED draft
  /\ UNCHANGED <<seen, disk, want, told>>

(* CatalogWatermark answers with what it read. *)
AnswerWatermark(p) ==
  /\ pc[p] = "loaded"
  /\ Tells(draft[p].current)
  /\ Returns(p)
  /\ UNCHANGED <<seen, disk, want, draft>>

(* Not signed by the signer, for another source, too old, below the floor the
   caller brought, or below the floor of the catalog. *)
Refuse(p) ==
  /\ pc[p] = "loaded"
  /\ Returns(p)
  /\ UNCHANGED <<seen, disk, want, draft, told>>

(* The same receipt again: accepted without a write. *)
AcceptAgain(p) ==
  /\ pc[p] = "loaded"
  /\ draft[p].current = want[p] /\ draft[p].signed
  /\ Tells(want[p])
  /\ Returns(p)
  /\ UNCHANGED <<seen, disk, want, draft>>

Advance(p) ==
  /\ pc[p] = "loaded"
  /\ Acceptable(want[p], draft[p].current)
  /\ ~ (draft[p].current = want[p] /\ draft[p].signed)
  /\ draft' = [draft EXCEPT ![p] = [@ EXCEPT !.current = want[p], !.signed = TRUE]]
  /\ Goes(p, "publish")
  /\ UNCHANGED <<seen, disk, holder, want, told>>

-----------------------------------------------------------------------------
(* commitCatalog.  O_EXCL refuses to go on where a file was left. *)

CreatePending(p) ==
  /\ pc[p] = "publish" /\ ~ seen.pending
  /\ seen' = [seen EXCEPT !.pending = TRUE]
  /\ Goes(p, "intent")
  /\ UNCHANGED <<disk, holder, want, draft, told>>

SyncIntent(p) ==
  /\ pc[p] = "intent" /\ Sync
  /\ Goes(p, "next")
  /\ UNCHANGED <<holder, want, draft, told>>

CreateNext(p) ==
  /\ pc[p] = "next" /\ seen.next = {}
  /\ seen' = [seen EXCEPT !.next = {Torn}]
  /\ Goes(p, "write")
  /\ UNCHANGED <<disk, holder, want, draft, told>>

(* write, then fsync of the file *)
WriteNext(p) ==
  /\ pc[p] = "write"
  /\ seen' = [seen EXCEPT !.next = {draft[p]}]
  /\ Goes(p, "rename")
  /\ UNCHANGED <<disk, holder, want, draft, told>>

Rename(p) ==
  /\ pc[p] = "rename"
  /\ seen' = [seen EXCEPT !.state = seen.next, !.next = {}]
  /\ Goes(p, "sync")
  /\ UNCHANGED <<disk, holder, want, draft, told>>

SkipSync(p) ==                                                       \* a slip
  /\ pc[p] = "sync"
  /\ Goes(p, "unlink")
  /\ UNCHANGED <<seen, disk, holder, want, draft, told>>

SyncState(p) ==
  /\ pc[p] = "sync" /\ Sync
  /\ Goes(p, "unlink")
  /\ UNCHANGED <<holder, want, draft, told>>

UnlinkPending(p) ==
  /\ pc[p] = "unlink"
  /\ seen' = [seen EXCEPT !.pending = FALSE]
  /\ Goes(p, "last")
  /\ UNCHANGED <<disk, holder, want, draft, told>>

(* The directory is synced once more, then the caller is answered. *)
SyncUnlink(p) ==
  /\ pc[p] = "last" /\ Sync
  /\ Tells(draft[p].current)
  /\ Returns(p)
  /\ UNCHANGED <<want, draft>>

-----------------------------------------------------------------------------
AbandonAndTidy(p) ==                                                 \* a slip
  /\ pc[p] # "idle"
  /\ Returns(p)
  /\ seen' = IF p \in holder THEN [seen EXCEPT !.pending = FALSE, !.next = {}] ELSE seen
  /\ UNCHANGED <<disk, want, draft, told>>

(* A system call fails, or the process dies: nothing is tidied up. *)
Abandon(p) ==
  /\ pc[p] # "idle"
  /\ Returns(p)
  /\ UNCHANGED <<seen, disk, want, draft, told>>

(* The system writes some changed entries back. *)
Writeback ==
  /\ disk' \in [lock : {seen.lock, disk.lock}, state : {seen.state, disk.state},
                pending : {seen.pending, disk.pending}, next : {seen.next, disk.next}]
  /\ UNCHANGED <<seen, holder, pc, want, draft, told>>

PowerFails ==
  /\ seen' = disk
  /\ holder' = {} /\ pc' = [p \in Procs |-> "idle"]
  /\ UNCHANGED <<disk, want, draft, told>>

Init ==
  /\ seen = Empty /\ disk = Empty
  /\ holder = {}
  /\ pc = [p \in Procs |-> "idle"]
  /\ want = [p \in Procs |-> Zero]
  /\ draft = [p \in Procs |-> Torn]
  /\ told = {}

Initialize(p) ==
  (\E floor \in Floors : FindEmpty(p, floor)) \/ CreateLock(p) \/ WriteLock(p) \/ SyncLock(p)

Verify(p) ==
  \/ \E r \in Receipts : Open(p, r)
  \/ Load(p) \/ AnswerWatermark(p) \/ Refuse(p) \/ AcceptAgain(p) \/ Advance(p)

Commit(p) ==
  \/ CreatePending(p) \/ SyncIntent(p) \/ CreateNext(p) \/ WriteNext(p) \/ Rename(p)
  \/ SyncState(p) \/ UnlinkPending(p) \/ SyncUnlink(p)

Next ==
  \/ \E p \in Procs : Initialize(p) \/ Verify(p) \/ Commit(p) \/ Abandon(p)
  \/ Writeback \/ PowerFails

Spec == Init /\ [][Next]_vars
=============================================================================
