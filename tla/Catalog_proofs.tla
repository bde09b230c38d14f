--------------------------- MODULE Catalog_proofs ---------------------------
(***************************************************************************)
(* Proofs about RecoveryCatalog.  That answers stand is not inductive: it  *)
(* says nothing of a publication under way, nor of one that was abandoned  *)
(* between the rename and the sync, when memory is ahead of the disk.      *)
(***************************************************************************)
EXTENDS CatalogProperties, TLAPS

Busy(p) == pc[p] \notin {"idle", "empty"}

Publishing == {"publish", "intent", "next", "write", "rename", "sync", "unlink", "last"}

Exclusive == \A p, q \in Procs : Busy(p) /\ Busy(q) => p = q

(* Where there is anything to lose, the lock file is there to stay. *)
LockInv ==
  /\ told # {} \/ seen.state # {} => seen.lock = "whole" /\ disk.lock = "whole"
  /\ \A p \in Procs : pc[p] \in Publishing => seen.lock = "whole" /\ disk.lock = "whole"
  /\ \A p \in Procs : Busy(p) => seen.lock # "absent"
  /\ \A p \in Procs : pc[p] \in {"text", "locksync"} => seen.state = {}
  /\ \A p \in Procs : pc[p] = "locksync" => seen.lock = "whole"

(* At most one record, above every answer; the disk is behind memory, and only
   while the mark is there. *)
StateInv ==
  /\ \A d \in {seen, disk} : \A a, b \in d.state : a = b
  /\ \A d \in {seen, disk} : \A record \in d.state, floor \in told : Below(floor, record.current)
  /\ \A a \in disk.state, b \in seen.state : Below(a.current, b.current)
  /\ seen.state = {} => disk.state = {}
  /\ ~ seen.pending => seen.state = disk.state

(* What the process that holds the lock has read, or is going to publish. *)
DraftInv ==
  \A p \in Procs :
    /\ pc[p] \in {"text", "locksync"} => told = {}
    /\ pc[p] = "loaded" => seen.state = {draft[p]} /\ seen.state = disk.state
    /\ pc[p] \in {"publish", "intent", "next", "write", "rename"} =>
         /\ seen.state = disk.state
         /\ \A record \in seen.state : Below(record.current, draft[p].current)
         /\ \A floor \in told : Below(floor, draft[p].current)
    /\ pc[p] \in {"intent", "next", "write", "rename", "sync", "unlink"} => seen.pending
    /\ pc[p] = "rename" => seen.next = {draft[p]}
    /\ pc[p] \in {"sync", "unlink", "last"} => seen.state = {draft[p]}
    /\ pc[p] \in {"unlink", "last"} => seen.state = disk.state

IInv == TypeOK /\ Exclusive /\ LockInv /\ StateInv /\ DraftInv

-----------------------------------------------------------------------------
LEMMA FloorOrder ==
  /\ Zero \in Floors
  /\ \A a \in Floors : a.seq \in Nat /\ (a # Zero => a.seq > 0)
<1>1. Zero.seq = 0 /\ Zero \in Floors
  BY DEF Zero, Floors
<1>2. \A a \in Receipts : a.seq \in Nat /\ a.seq > 0
  <2>1. SUFFICES ASSUME NEW a \in Receipts PROVE a.seq \in Nat /\ a.seq > 0
    OBVIOUS
  <2>2. a.seq \in 1 .. MaxSeq
    BY DEF Receipts
  <2>3. MaxSeq \in Nat
    BY CatalogAssumption DEF CatalogAssumption
  <2>4. QED
    BY <2>2, <2>3
<1>3. QED
  BY <1>1, <1>2 DEF Floors

LEMMA ZeroBelow == \A a \in Floors : Below(Zero, a) /\ Below(a, a)
<1>1. Zero.seq = 0
  BY DEF Zero
<1>2. QED
  BY <1>1, FloorOrder DEF Below

LEMMA BelowTransitive ==
  ASSUME NEW a \in Floors, NEW b \in Floors, NEW c \in Floors, Below(a, b), Below(b, c)
  PROVE  Below(a, c)
<1>1. a.seq \in Nat /\ b.seq \in Nat /\ c.seq \in Nat
  BY FloorOrder
<1>2. QED
  BY <1>1 DEF Below

LEMMA InitInv == Init => IInv
<1> SUFFICES ASSUME Init PROVE IInv
  OBVIOUS
<1> USE DEF Init, Empty
<1>1. TypeOK
  <2>1. Torn \in Record
    BY FloorOrder DEF Torn, Record
  <2>2. QED
    BY <2>1, FloorOrder DEF TypeOK, Directory, Steps
<1>2. Exclusive /\ LockInv /\ StateInv /\ DraftInv
  BY DEF Exclusive, Busy, LockInv, Publishing, StateInv, DraftInv
<1>3. QED
  BY <1>1, <1>2 DEF IInv

-----------------------------------------------------------------------------
(* A step of one process, which holds the lock before or after it or never,
   leaves the other processes where they are. *)
Moves(p, step) ==
  /\ step \in Steps /\ Goes(p, step)
  /\ \/ p \in holder /\ holder' = IF step \in {"idle", "empty"} THEN holder \ {p} ELSE holder
     \/ p \notin holder /\ step \in {"idle", "empty"} /\ holder' = holder
     \/ holder = {} /\ step \notin {"idle", "empty"} /\ holder' = {p}

LEMMA Alone ==
  ASSUME IInv, NEW p \in Procs, NEW step, Moves(p, step)
  PROVE  /\ pc' \in [Procs -> Steps]
         /\ holder' = {q \in Procs : pc'[q] \notin {"idle", "empty"}}
         /\ Exclusive'
         /\ pc'[p] = step
         /\ \A q \in Procs \ {p} : pc'[q] = pc[q]
         /\ p \in holder \/ step \notin {"idle", "empty"} =>
              \A q \in Procs \ {p} : pc[q] \in {"idle", "empty"}
<1>1. pc \in [Procs -> Steps] /\ holder = {q \in Procs : pc[q] \notin {"idle", "empty"}}
  BY DEF IInv, TypeOK
<1>2. \A q, r \in Procs : Busy(q) /\ Busy(r) => q = r
  BY DEF IInv, Exclusive
<1>3. pc' = [pc EXCEPT ![p] = step]
  BY DEF Moves, Goes
<1>4. p \in holder \/ step \notin {"idle", "empty"} =>
        \A q \in Procs \ {p} : pc[q] \in {"idle", "empty"}
  BY <1>1, <1>2 DEF Moves, Busy
<1>5. /\ pc' \in [Procs -> Steps] /\ pc'[p] = step
      /\ \A q \in Procs \ {p} : pc'[q] = pc[q]
  BY <1>1, <1>3 DEF Moves
<1>6. holder' = {q \in Procs : pc'[q] \notin {"idle", "empty"}}
  BY <1>1, <1>5 DEF Moves
<1>7. Exclusive'
  <2>1. SUFFICES ASSUME NEW q \in Procs, NEW r \in Procs, Busy(q)', Busy(r)' PROVE q = r
    BY DEF Exclusive
  <2>2. CASE q = p \/ r = p
    BY <2>1, <2>2, <1>4, <1>5 DEF Busy
  <2>3. CASE q # p /\ r # p
    BY <2>1, <2>3, <1>2, <1>5 DEF Busy
  <2>4. QED
    BY <2>2, <2>3
<1>8. QED
  BY <1>4, <1>5, <1>6, <1>7

(* The descriptors are closed; the directory is as it was. *)
LEMMA ReturnStep ==
  ASSUME IInv, NEW p \in Procs, Returns(p), UNCHANGED <<seen, disk, want, draft, told>>
  PROVE  IInv'
<1>1. Moves(p, "idle")
  BY DEF Returns, Moves, Steps, IInv, TypeOK
<1>2. /\ pc' \in [Procs -> Steps] /\ Exclusive' /\ pc'[p] = "idle"
      /\ holder' = {q \in Procs : pc'[q] \notin {"idle", "empty"}}
      /\ \A q \in Procs \ {p} : pc'[q] = pc[q]
  BY <1>1, Alone
<1>3. TypeOK'
  BY <1>2 DEF IInv, TypeOK
<1>4. LockInv' /\ StateInv'
  BY <1>2 DEF IInv, LockInv, StateInv, Publishing, Busy
<1>5. DraftInv'
  BY <1>2 DEF IInv, DraftInv
<1>6. QED
  BY <1>2, <1>3, <1>4, <1>5 DEF IInv

LEMMA RefuseInv == ASSUME IInv, NEW p \in Procs, Refuse(p) PROVE IInv'
  BY ReturnStep DEF Refuse

LEMMA AbandonInv == ASSUME IInv, NEW p \in Procs, Abandon(p) PROVE IInv'
  BY ReturnStep DEF Abandon

(* The caller is told the floor both views agree on. *)
LEMMA TellStep ==
  ASSUME IInv, NEW p \in Procs, Returns(p), Tells(draft[p].current),
         pc[p] \in {"loaded", "last"}, UNCHANGED <<seen, want, draft>>,
         disk' \in {seen, disk}
  PROVE  IInv'
<1>1. Moves(p, "idle")
  BY DEF Returns, Moves, Steps, IInv, TypeOK
<1>2. /\ pc' \in [Procs -> Steps] /\ Exclusive' /\ pc'[p] = "idle"
      /\ holder' = {q \in Procs : pc'[q] \notin {"idle", "empty"}}
      /\ \A q \in Procs \ {p} : pc'[q] = pc[q]
      /\ \A q \in Procs \ {p} : pc[q] \in {"idle", "empty"}
  BY <1>1, Alone DEF IInv, TypeOK
<1>3. /\ seen.state = {draft[p]} /\ disk.state = seen.state /\ disk'.state = seen.state
      /\ draft[p] \in Record /\ draft[p].current \in Floors
  BY DEF IInv, DraftInv, TypeOK, Record
<1>4. /\ told' = told \cup {draft[p].current} /\ Below(draft[p].current, draft[p].current)
  BY <1>3, ZeroBelow DEF Tells
<1>5. TypeOK'
  BY <1>2, <1>3, <1>4 DEF IInv, TypeOK
<1>6. seen.lock = "whole" /\ disk.lock = "whole" /\ disk'.lock = "whole"
  BY <1>3 DEF IInv, LockInv
<1>7. LockInv'
  BY <1>2, <1>6 DEF LockInv, Publishing
<1>8. StateInv'
  <2>1. \A floor \in told : Below(floor, draft[p].current)
    BY <1>3 DEF IInv, StateInv
  <2>2. QED
    BY <1>3, <1>4, <2>1 DEF StateInv
<1>9. DraftInv'
  BY <1>2 DEF DraftInv
<1>10. QED
  BY <1>2, <1>5, <1>7, <1>8, <1>9 DEF IInv

LEMMA AnswerWatermarkInv == ASSUME IInv, NEW p \in Procs, AnswerWatermark(p) PROVE IInv'
  BY TellStep DEF AnswerWatermark

LEMMA AcceptAgainInv == ASSUME IInv, NEW p \in Procs, AcceptAgain(p) PROVE IInv'
  BY TellStep DEF AcceptAgain

LEMMA SyncUnlinkInv == ASSUME IInv, NEW p \in Procs, SyncUnlink(p) PROVE IInv'
  BY TellStep DEF SyncUnlink, Sync

-----------------------------------------------------------------------------
(* InitializeCatalog *)

LEMMA FindEmptyInv ==
  ASSUME IInv, NEW p \in Procs, NEW floor \in Floors, FindEmpty(p, floor) PROVE IInv'
<1>1. Moves(p, "empty")
  BY DEF FindEmpty, Moves, Steps, IInv, TypeOK
<1>2. /\ pc' \in [Procs -> Steps] /\ Exclusive' /\ pc'[p] = "empty"
      /\ holder' = {q \in Procs : pc'[q] \notin {"idle", "empty"}}
      /\ \A q \in Procs \ {p} : pc'[q] = pc[q]
  BY <1>1, Alone
<1>3. /\ draft' \in [Procs -> Record] /\ \A q \in Procs \ {p} : draft'[q] = draft[q]
      /\ UNCHANGED <<seen, disk, want, told>>
  BY DEF FindEmpty, IInv, TypeOK, Record
<1>4. TypeOK'
  BY <1>2, <1>3 DEF IInv, TypeOK
<1>5. LockInv' /\ StateInv'
  BY <1>2, <1>3 DEF IInv, LockInv, StateInv, Publishing, Busy
<1>6. DraftInv'
  BY <1>2, <1>3 DEF IInv, DraftInv
<1>7. QED
  BY <1>2, <1>4, <1>5, <1>6 DEF IInv

LEMMA CreateLockInv == ASSUME IInv, NEW p \in Procs, CreateLock(p) PROVE IInv'
<1>1. CASE seen.lock # "absent"
  BY <1>1, ReturnStep DEF CreateLock
<1>2. CASE seen.lock = "absent"
  <2>1. /\ seen' = [seen EXCEPT !.lock = "torn"] /\ holder' = {p} /\ Goes(p, "text")
        /\ UNCHANGED <<disk, want, draft, told>>
    BY <1>2 DEF CreateLock
  <2>2. seen.state = {} /\ told = {} /\ disk.state = {}
    BY <1>2 DEF IInv, LockInv, StateInv
  <2>3. \A q \in Procs : pc[q] \in {"idle", "empty"}
    BY <1>2 DEF IInv, LockInv, Busy
  <2>4. holder = {}
    BY <2>3 DEF IInv, TypeOK
  <2>5. Moves(p, "text")
    BY <2>1, <2>4 DEF Moves, Steps
  <2>6. /\ pc' \in [Procs -> Steps] /\ Exclusive' /\ pc'[p] = "text"
        /\ holder' = {q \in Procs : pc'[q] \notin {"idle", "empty"}}
        /\ \A q \in Procs \ {p} : pc'[q] = pc[q]
    BY <2>5, Alone
  <2>7. /\ seen' \in Directory /\ seen'.lock = "torn" /\ seen'.state = {} /\ disk' = disk
        /\ told' = {} /\ seen'.pending = seen.pending
    BY <2>1, <2>2 DEF IInv, TypeOK, Directory
  <2>8. TypeOK'
    BY <2>1, <2>6, <2>7 DEF IInv, TypeOK
  <2>9. LockInv'
    BY <2>3, <2>6, <2>7 DEF LockInv, Publishing, Busy
  <2>10. StateInv'
    BY <2>2, <2>7 DEF StateInv
  <2>11. DraftInv'
    BY <2>3, <2>6, <2>7 DEF DraftInv
  <2>12. QED
    BY <2>6, <2>8, <2>9, <2>10, <2>11 DEF IInv
<1>3. QED
  BY <1>1, <1>2

(* A step of the holder that stays the holder. *)
LEMMA HolderStep ==
  ASSUME IInv, NEW p \in Procs, NEW step \in Steps \ {"idle", "empty"}, Busy(p),
         Goes(p, step), UNCHANGED <<holder, want, draft, told>>,
         seen' \in Directory, disk' \in Directory
  PROVE  /\ TypeOK' /\ Exclusive' /\ pc'[p] = step
         /\ \A q \in Procs \ {p} : pc'[q] \in {"idle", "empty"}
<1>1. p \in holder
  BY DEF IInv, TypeOK, Busy
<1>2. Moves(p, step)
  BY <1>1 DEF Moves
<1>3. /\ pc' \in [Procs -> Steps] /\ Exclusive' /\ pc'[p] = step
      /\ holder' = {q \in Procs : pc'[q] \notin {"idle", "empty"}}
      /\ \A q \in Procs \ {p} : pc'[q] = pc[q] /\ pc[q] \in {"idle", "empty"}
  BY <1>1, <1>2, Alone
<1>4. TypeOK'
  BY <1>3 DEF IInv, TypeOK
<1>5. QED
  BY <1>3, <1>4

(* What is left to show, then. *)
LEMMA HolderInv ==
  ASSUME IInv, NEW p \in Procs, NEW step \in Steps \ {"idle", "empty"}, Busy(p),
         Goes(p, step), UNCHANGED <<holder, want, draft, told>>,
         seen' \in Directory, disk' \in Directory,
         seen'.lock = "whole" \/ seen'.lock = seen.lock,
         disk'.lock \in {seen.lock, disk.lock},
         step \in Publishing \ {"publish"} => pc[p] \in Publishing,
         step = "locksync" => seen'.lock = "whole" /\ seen'.state = {},
         step = "publish" => seen'.lock = "whole" /\ disk'.lock = "whole",
         step # "text",
         seen'.state # {} => pc[p] \in Publishing \/ seen.state # {},
         StateInv',
         pc'[p] = step => DraftInv'
  PROVE  IInv'
<1>1. /\ TypeOK' /\ Exclusive' /\ pc'[p] = step
      /\ \A q \in Procs \ {p} : pc'[q] \in {"idle", "empty"}
  BY HolderStep
<1>2. seen.lock = "whole" /\ disk.lock = "whole" => seen'.lock = "whole" /\ disk'.lock = "whole"
  OBVIOUS
<1>3. pc[p] \in Publishing \/ told # {} \/ seen.state # {} => seen.lock = "whole" /\ disk.lock = "whole"
  BY DEF IInv, LockInv
<1>4. seen.lock # "absent" /\ seen'.lock # "absent"
  BY DEF IInv, LockInv
<1>5. told' # {} \/ seen'.state # {} => seen'.lock = "whole" /\ disk'.lock = "whole"
  BY <1>2, <1>3
<1>6. step \in Publishing => seen'.lock = "whole" /\ disk'.lock = "whole"
  BY <1>2, <1>3
<1>7. LockInv'
  BY <1>1, <1>4, <1>5, <1>6 DEF LockInv, Publishing, Busy
<1>8. QED
  BY <1>1, <1>7 DEF IInv

LEMMA WriteLockInv == ASSUME IInv, NEW p \in Procs, WriteLock(p) PROVE IInv'
<1>1. /\ seen' = [seen EXCEPT !.lock = "whole"] /\ Goes(p, "locksync") /\ Busy(p)
      /\ UNCHANGED <<disk, holder, want, draft, told>>
  BY DEF WriteLock, Busy
<1>2. /\ seen' \in Directory /\ disk' \in Directory /\ seen'.lock = "whole"
      /\ seen'.state = seen.state /\ seen'.pending = seen.pending
  BY <1>1 DEF IInv, TypeOK, Directory
<1>3. seen.state = {} /\ told = {}
  BY DEF IInv, LockInv, DraftInv, WriteLock
<1>4. StateInv'
  BY <1>1, <1>2 DEF IInv, StateInv
<1>5. ASSUME pc'[p] = "locksync" PROVE DraftInv'
  BY <1>1, <1>2, <1>3, <1>5, HolderStep DEF DraftInv, Steps
<1>6. QED
  BY <1>1, <1>2, <1>3, <1>4, <1>5, HolderInv DEF Steps, Publishing

LEMMA SyncLockInv == ASSUME IInv, NEW p \in Procs, SyncLock(p) PROVE IInv'
<1>1. /\ disk' = seen /\ seen' = seen /\ Goes(p, "publish") /\ Busy(p)
      /\ UNCHANGED <<holder, want, draft, told>>
  BY DEF SyncLock, Sync, Busy
<1>2. seen.lock = "whole" /\ seen.state = {} /\ told = {} /\ seen \in Directory
  BY DEF IInv, TypeOK, LockInv, DraftInv, SyncLock
<1>3. StateInv'
  BY <1>1, <1>2 DEF StateInv
<1>4. ASSUME pc'[p] = "publish" PROVE DraftInv'
  BY <1>1, <1>2, <1>4, HolderStep DEF DraftInv, Steps
<1>5. QED
  BY <1>1, <1>2, <1>3, <1>4, HolderInv DEF Steps, Publishing

-----------------------------------------------------------------------------
(* Opening, reading and deciding leave the directory alone. *)

LEMMA ReadStep ==
  ASSUME IInv, NEW p \in Procs, NEW step \in {"opened", "loaded", "publish"}, Moves(p, step),
         UNCHANGED <<seen, disk, told>>, draft' \in [Procs -> Record], want' \in [Procs -> Floors],
         seen.lock = "whole", step = "publish" => disk.lock = "whole",
         pc'[p] = step => DraftInv'
  PROVE  IInv'
<1>1. /\ pc' \in [Procs -> Steps] /\ Exclusive' /\ pc'[p] = step
      /\ holder' = {q \in Procs : pc'[q] \notin {"idle", "empty"}}
      /\ \A q \in Procs \ {p} : pc'[q] = pc[q]
  BY Alone
<1>2. TypeOK'
  BY <1>1 DEF IInv, TypeOK
<1>3. StateInv'
  BY DEF IInv, StateInv
<1>4. LockInv'
  BY <1>1 DEF IInv, LockInv, Publishing, Busy
<1>5. QED
  BY <1>1, <1>2, <1>3, <1>4 DEF IInv

LEMMA OpenInv == ASSUME IInv, NEW p \in Procs, NEW r \in Receipts, Open(p, r) PROVE IInv'
<1>1. /\ Moves(p, "opened") /\ UNCHANGED <<seen, disk, told, draft>> /\ seen.lock = "whole"
      /\ draft' \in [Procs -> Record] /\ want' \in [Procs -> Floors]
  BY DEF Open, Moves, Steps, IInv, TypeOK, Floors
<1>2. /\ pc'[p] = "opened" /\ \A q \in Procs \ {p} : pc'[q] \in {"idle", "empty"}
  BY <1>1, Alone
<1>3. DraftInv'
  BY <1>2 DEF DraftInv
<1>4. QED
  BY <1>1, <1>3, ReadStep

LEMMA LoadInv == ASSUME IInv, NEW p \in Procs, Load(p) PROVE IInv'
<1>1. CASE ~ Usable(seen)
  BY <1>1, ReturnStep DEF Load
<1>2. CASE Usable(seen)
  <2>1. PICK record \in seen.state : draft' = [draft EXCEPT ![p] = record]
    BY <1>2 DEF Load
  <2>2. /\ Goes(p, "loaded") /\ UNCHANGED <<seen, disk, holder, want, told>> /\ p \in holder
        /\ draft \in [Procs -> Record] /\ want \in [Procs -> Floors] /\ record \in Record
        /\ seen.lock = "whole" /\ seen.state = {record} /\ seen.state = disk.state
    BY <1>2 DEF Load, IInv, TypeOK, Directory, Usable, StateInv
  <2>3. Moves(p, "loaded")
    BY <2>2 DEF Moves, Steps
  <2>4. /\ pc'[p] = "loaded" /\ \A q \in Procs \ {p} : pc'[q] \in {"idle", "empty"}
    BY <2>3, Alone
  <2>5. DraftInv'
    BY <2>1, <2>2, <2>4 DEF DraftInv
  <2>6. QED
    BY <2>1, <2>2, <2>3, <2>5, ReadStep
<1>3. QED
  BY <1>1, <1>2

LEMMA AdvanceInv == ASSUME IInv, NEW p \in Procs, Advance(p) PROVE IInv'
<1> DEFINE new == [draft[p] EXCEPT !.current = want[p], !.signed = TRUE]
<1>1. /\ draft' = [draft EXCEPT ![p] = new] /\ Goes(p, "publish") /\ p \in holder
      /\ UNCHANGED <<seen, disk, holder, want, told>> /\ Below(draft[p].current, want[p])
  BY DEF Advance, Acceptable, IInv, TypeOK
<1>2. /\ draft \in [Procs -> Record] /\ want \in [Procs -> Floors]
      /\ draft[p].current \in Floors /\ want[p] \in Floors
      /\ told \subseteq Floors
  BY DEF IInv, TypeOK, Record
<1>3. new \in Record /\ new.current = want[p]
  BY <1>2 DEF Record
<1>4. seen.state = {draft[p]} /\ seen.state = disk.state
  BY DEF Advance, IInv, DraftInv
<1>5. \A floor \in told : Below(floor, draft[p].current)
  BY <1>4 DEF IInv, StateInv
<1>6. \A floor \in told : Below(floor, want[p])
  BY <1>1, <1>2, <1>5, BelowTransitive
<1> HIDE DEF new
<1>7. seen.lock = "whole" /\ disk.lock = "whole"
  BY <1>4 DEF IInv, LockInv
<1>8. Moves(p, "publish")
  BY <1>1 DEF Moves, Steps
<1>9. /\ pc'[p] = "publish" /\ \A q \in Procs \ {p} : pc'[q] \in {"idle", "empty"}
  BY <1>1, <1>8, Alone
<1>10. draft' \in [Procs -> Record] /\ draft'[p] = new
  BY <1>1, <1>2, <1>3
<1>11. DraftInv'
  BY <1>1, <1>3, <1>4, <1>6, <1>9, <1>10 DEF DraftInv
<1>12. QED
  BY <1>1, <1>2, <1>7, <1>8, <1>10, <1>11, ReadStep

-----------------------------------------------------------------------------
(* commitCatalog *)

LEMMA CreatePendingInv == ASSUME IInv, NEW p \in Procs, CreatePending(p) PROVE IInv'
<1>1. /\ seen' = [seen EXCEPT !.pending = TRUE] /\ Goes(p, "intent") /\ Busy(p)
      /\ pc[p] \in Publishing /\ UNCHANGED <<disk, holder, want, draft, told>>
  BY DEF CreatePending, Busy, Publishing
<1>2. /\ seen' \in Directory /\ disk' \in Directory /\ seen'.lock = seen.lock
      /\ seen'.state = seen.state /\ seen'.pending
  BY <1>1 DEF IInv, TypeOK, Directory
<1>3. StateInv'
  BY <1>1, <1>2 DEF IInv, StateInv
<1>4. ASSUME pc'[p] = "intent" PROVE DraftInv'
  BY <1>1, <1>2, <1>4, HolderStep DEF IInv, DraftInv, CreatePending, Steps
<1>5. QED
  BY <1>1, <1>2, <1>3, <1>4, HolderInv DEF Steps, Publishing

LEMMA SyncIntentInv == ASSUME IInv, NEW p \in Procs, SyncIntent(p) PROVE IInv'
<1>1. /\ disk' = seen /\ seen' = seen /\ Goes(p, "next") /\ Busy(p)
      /\ pc[p] \in Publishing /\ UNCHANGED <<holder, want, draft, told>> /\ seen \in Directory
  BY DEF SyncIntent, Sync, Busy, Publishing, IInv, TypeOK
<1>2. seen.state = disk.state
  BY DEF IInv, DraftInv, SyncIntent
<1>3. StateInv'
  BY <1>1, <1>2 DEF IInv, StateInv
<1>4. ASSUME pc'[p] = "next" PROVE DraftInv'
  BY <1>1, <1>2, <1>4, HolderStep DEF IInv, DraftInv, SyncIntent, Steps
<1>5. QED
  BY <1>1, <1>2, <1>3, <1>4, HolderInv DEF Steps, Publishing

LEMMA TornRecord == Torn \in Record
  BY FloorOrder DEF Torn, Record

LEMMA CreateNextInv == ASSUME IInv, NEW p \in Procs, CreateNext(p) PROVE IInv'
<1>1. /\ seen' = [seen EXCEPT !.next = {Torn}] /\ Goes(p, "write") /\ Busy(p)
      /\ pc[p] \in Publishing /\ UNCHANGED <<disk, holder, want, draft, told>>
  BY DEF CreateNext, Busy, Publishing
<1>2. /\ seen' \in Directory /\ disk' \in Directory /\ seen'.lock = seen.lock
      /\ seen'.state = seen.state /\ seen'.pending = seen.pending
  BY <1>1, TornRecord DEF IInv, TypeOK, Directory
<1>3. StateInv'
  BY <1>1, <1>2 DEF IInv, StateInv
<1>4. ASSUME pc'[p] = "write" PROVE DraftInv'
  BY <1>1, <1>2, <1>4, HolderStep DEF IInv, DraftInv, CreateNext, Steps
<1>5. QED
  BY <1>1, <1>2, <1>3, <1>4, HolderInv DEF Steps, Publishing

LEMMA WriteNextInv == ASSUME IInv, NEW p \in Procs, WriteNext(p) PROVE IInv'
<1>1. /\ seen' = [seen EXCEPT !.next = {draft[p]}] /\ Goes(p, "rename") /\ Busy(p)
      /\ pc[p] \in Publishing /\ UNCHANGED <<disk, holder, want, draft, told>>
  BY DEF WriteNext, Busy, Publishing
<1>2. /\ seen' \in Directory /\ disk' \in Directory /\ seen'.lock = seen.lock
      /\ seen'.state = seen.state /\ seen'.pending = seen.pending /\ seen'.next = {draft[p]}
  BY <1>1 DEF IInv, TypeOK, Directory
<1>3. StateInv'
  BY <1>1, <1>2 DEF IInv, StateInv
<1>4. ASSUME pc'[p] = "rename" PROVE DraftInv'
  BY <1>1, <1>2, <1>4, HolderStep DEF IInv, DraftInv, WriteNext, Steps
<1>5. QED
  BY <1>1, <1>2, <1>3, <1>4, HolderInv DEF Steps, Publishing

LEMMA RenameInv == ASSUME IInv, NEW p \in Procs, Rename(p) PROVE IInv'
<1>1. /\ seen' = [seen EXCEPT !.state = seen.next, !.next = {}] /\ Goes(p, "sync") /\ Busy(p)
      /\ pc[p] \in Publishing /\ UNCHANGED <<disk, holder, want, draft, told>>
  BY DEF Rename, Busy, Publishing
<1>2. /\ seen.next = {draft[p]} /\ seen.pending /\ seen.state = disk.state
      /\ \A record \in seen.state : Below(record.current, draft[p].current)
      /\ \A floor \in told : Below(floor, draft[p].current)
  BY DEF IInv, DraftInv, Rename
<1>3. /\ seen' \in Directory /\ disk' \in Directory /\ seen'.lock = seen.lock
      /\ seen'.state = {draft[p]} /\ seen'.pending
  BY <1>1, <1>2 DEF IInv, TypeOK, Directory
<1>4. StateInv'
  BY <1>1, <1>2, <1>3 DEF IInv, StateInv
<1>5. ASSUME pc'[p] = "sync" PROVE DraftInv'
  BY <1>1, <1>3, <1>5, HolderStep DEF DraftInv, Steps
<1>6. QED
  BY <1>1, <1>3, <1>4, <1>5, HolderInv DEF Steps, Publishing

LEMMA SyncStateInv == ASSUME IInv, NEW p \in Procs, SyncState(p) PROVE IInv'
<1>1. /\ disk' = seen /\ seen' = seen /\ Goes(p, "unlink") /\ Busy(p)
      /\ pc[p] \in Publishing /\ UNCHANGED <<holder, want, draft, told>> /\ seen \in Directory
  BY DEF SyncState, Sync, Busy, Publishing, IInv, TypeOK
<1>2. /\ seen.state = {draft[p]} /\ seen.pending
      /\ draft[p].current \in Floors
  BY DEF IInv, DraftInv, SyncState, TypeOK, Record
<1>3. StateInv'
  <2>1. Below(draft[p].current, draft[p].current)
    BY <1>2, ZeroBelow
  <2>2. QED
    BY <1>1, <1>2, <2>1 DEF IInv, StateInv
<1>4. ASSUME pc'[p] = "unlink" PROVE DraftInv'
  BY <1>1, <1>2, <1>4, HolderStep DEF DraftInv, Steps
<1>5. QED
  BY <1>1, <1>2, <1>3, <1>4, HolderInv DEF Steps, Publishing

LEMMA UnlinkPendingInv == ASSUME IInv, NEW p \in Procs, UnlinkPending(p) PROVE IInv'
<1>1. /\ seen' = [seen EXCEPT !.pending = FALSE] /\ Goes(p, "last") /\ Busy(p)
      /\ pc[p] \in Publishing /\ UNCHANGED <<disk, holder, want, draft, told>>
  BY DEF UnlinkPending, Busy, Publishing
<1>2. /\ seen' \in Directory /\ disk' \in Directory /\ seen'.lock = seen.lock
      /\ seen'.state = seen.state
  BY <1>1 DEF IInv, TypeOK, Directory
<1>3. seen.state = {draft[p]} /\ seen.state = disk.state
  BY DEF IInv, DraftInv, UnlinkPending
<1>4. StateInv'
  BY <1>1, <1>2, <1>3 DEF IInv, StateInv
<1>5. ASSUME pc'[p] = "last" PROVE DraftInv'
  BY <1>1, <1>2, <1>3, <1>5, HolderStep DEF DraftInv, Steps
<1>6. QED
  BY <1>1, <1>2, <1>3, <1>4, <1>5, HolderInv DEF Steps, Publishing

-----------------------------------------------------------------------------
(* The system and the power *)

LEMMA WritebackInv == ASSUME IInv, Writeback PROVE IInv'
<1>1. /\ UNCHANGED <<seen, holder, pc, want, draft, told>>
      /\ disk' \in Directory /\ disk'.lock \in {seen.lock, disk.lock}
      /\ disk'.state \in {seen.state, disk.state}
  BY DEF Writeback, IInv, TypeOK, Directory
<1>2. TypeOK' /\ Exclusive'
  BY <1>1 DEF IInv, TypeOK, Exclusive, Busy
<1>3. LockInv'
  BY <1>1 DEF IInv, LockInv, Busy
<1>4. StateInv'
  <2>1. \A record \in seen.state : record.current \in Floors
    BY DEF IInv, TypeOK, Directory, Record
  <2>2. \A a, b \in seen.state : Below(a.current, b.current)
    BY <2>1, ZeroBelow DEF IInv, StateInv
  <2>3. CASE disk'.state = disk.state
    BY <1>1, <2>3 DEF IInv, StateInv
  <2>4. CASE disk'.state = seen.state
    BY <1>1, <2>2, <2>4 DEF IInv, StateInv
  <2>5. QED
    BY <1>1, <2>3, <2>4
<1>5. DraftInv'
  BY <1>1 DEF IInv, DraftInv
<1>6. QED
  BY <1>2, <1>3, <1>4, <1>5 DEF IInv

LEMMA PowerFailsInv == ASSUME IInv, PowerFails PROVE IInv'
<1>1. /\ seen' = disk /\ disk' = disk /\ holder' = {} /\ UNCHANGED <<want, draft, told>>
      /\ pc' = [p \in Procs |-> "idle"]
  BY DEF PowerFails
<1>2. TypeOK' /\ Exclusive' /\ DraftInv'
  BY <1>1 DEF IInv, TypeOK, Steps, Exclusive, Busy, DraftInv
<1>3. LockInv'
  BY <1>1 DEF IInv, LockInv, StateInv, Busy, Publishing
<1>4. StateInv'
  <2>1. \A record \in disk.state : record.current \in Floors
    BY DEF IInv, TypeOK, Directory, Record
  <2>2. \A a, b \in disk.state : Below(a.current, b.current)
    BY <2>1, ZeroBelow DEF IInv, StateInv
  <2>3. QED
    BY <1>1, <2>2 DEF IInv, StateInv
<1>5. QED
  BY <1>2, <1>3, <1>4 DEF IInv

LEMMA NextInv == IInv /\ [Next]_vars => IInv'
<1> SUFFICES ASSUME IInv, [Next]_vars PROVE IInv'
  OBVIOUS
<1>1. ASSUME NEW p \in Procs, Initialize(p) PROVE IInv'
  BY <1>1, FindEmptyInv, CreateLockInv, WriteLockInv, SyncLockInv DEF Initialize
<1>2. ASSUME NEW p \in Procs, Verify(p) PROVE IInv'
  BY <1>2, OpenInv, LoadInv, AnswerWatermarkInv, RefuseInv, AcceptAgainInv, AdvanceInv DEF Verify
<1>3. ASSUME NEW p \in Procs, Commit(p) PROVE IInv'
  BY <1>3, CreatePendingInv, SyncIntentInv, CreateNextInv, WriteNextInv, RenameInv,
     SyncStateInv, UnlinkPendingInv, SyncUnlinkInv DEF Commit
<1>4. CASE UNCHANGED vars
  BY <1>4 DEF vars, IInv, TypeOK, Exclusive, Busy, LockInv, StateInv, DraftInv
<1>5. QED
  BY <1>1, <1>2, <1>3, <1>4, AbandonInv, WritebackInv, PowerFailsInv DEF Next

-----------------------------------------------------------------------------
(* The theorems *)

(* The strengthened invariant holds in every reachable state. *)
THEOREM Inductive == Spec => []IInv
  BY InitInv, NextInv, PTL DEF Spec

(* Every variable keeps its type, and the lock has a holder exactly while a
   process works in the directory. *)
THEOREM TypeCorrect == Spec => []TypeOK
<1>1. IInv => TypeOK
  BY DEF IInv
<1>2. QED
  BY Inductive, <1>1, PTL

(* No usable catalog falls behind what a caller was told, before or after a
   power failure, however many processes were interrupted wherever
   (commitCatalog). *)
THEOREM AnswersAreKept == Spec => []AnswersStand
<1>1. IInv => AnswersStand
  BY DEF IInv, StateInv, AnswersStand
<1>2. QED
  BY Inductive, <1>1, PTL

-----------------------------------------------------------------------------
(* What a step does to the answers and to the disk *)

(* Whoever is answered is told the one record both views agree on. *)
Answered ==
  \E record \in disk.state : told' = told \cup {record.current} /\ disk'.state = disk.state

LEMMA Answering ==
  ASSUME IInv, NEW p \in Procs, pc[p] \in {"loaded", "last"}, Tells(draft[p].current),
         disk' \in {seen, disk}
  PROVE  Answered
<1>1. disk.state = {draft[p]} /\ disk'.state = disk.state
  BY DEF IInv, DraftInv
<1>2. QED
  BY <1>1 DEF Answered, Tells

LEMMA StepEffect ==
  ASSUME IInv, [Next]_vars
  PROVE  Answered \/ (told' = told /\ disk'.state \in {disk.state, seen.state})
<1> DEFINE Silent == told' = told /\ disk'.state \in {disk.state, seen.state}
<1>1. ASSUME NEW p \in Procs, Initialize(p) PROVE Silent
  BY <1>1 DEF Initialize, FindEmpty, CreateLock, WriteLock, SyncLock, Sync
<1>2. ASSUME NEW p \in Procs, Verify(p) PROVE Answered \/ Silent
  <2>1. CASE AnswerWatermark(p) \/ AcceptAgain(p)
    BY <2>1, Answering DEF AnswerWatermark, AcceptAgain
  <2>2. CASE ~ (AnswerWatermark(p) \/ AcceptAgain(p))
    BY <1>2, <2>2 DEF Verify, Open, Load, Refuse, Advance
  <2>3. QED
    BY <2>1, <2>2
<1>3. ASSUME NEW p \in Procs, Commit(p) PROVE Answered \/ Silent
  <2>1. CASE SyncUnlink(p)
    BY <2>1, Answering DEF SyncUnlink, Sync
  <2>2. CASE ~ SyncUnlink(p)
    BY <1>3, <2>2 DEF Commit, CreatePending, SyncIntent, CreateNext, WriteNext, Rename,
       SyncState, UnlinkPending, Sync
  <2>3. QED
    BY <2>1, <2>2
<1>4. ASSUME NEW p \in Procs, Abandon(p) PROVE Silent
  BY <1>4 DEF Abandon
<1>5. CASE Writeback
  BY <1>5 DEF Writeback
<1>6. CASE PowerFails
  BY <1>6 DEF PowerFails
<1>7. CASE UNCHANGED vars
  BY <1>7 DEF vars
<1>8. QED
  BY <1>1, <1>2, <1>3, <1>4, <1>5, <1>6, <1>7 DEF Next

(* Nobody is told a floor below, or in conflict with, what somebody was told
   before (VerifyAndAdvanceCatalog, CatalogWatermark). *)
THEOREM AnswersComeInOrder == Spec => AnswersInOrder
<1>1. IInv /\ [Next]_vars =>
        [\A new \in told' \ told, old \in told : Below(old, new)]_vars
  BY StepEffect DEF Answered, IInv, StateInv
<1>2. QED
  BY Inductive, <1>1, PTL DEF Spec, AnswersInOrder

LEMMA TheOnly ==
  ASSUME NEW S, \A a, b \in S : a = b, NEW record \in S
  PROVE  (\E r \in S : TRUE) /\ (CHOOSE r \in S : TRUE) = record
  OBVIOUS

(* The catalog implements a floor that only rises and that callers are told
   (ReceiptFloor), across crashes and power failures. *)
THEOREM KeepsFloor == Spec => FloorKept
<1>1. Init => Floor!Init
  BY DEF Init, Empty, DiskFloor, Floor!Init
<1>2. IInv /\ IInv' /\ [Next]_vars => [Floor!Next]_<<DiskFloor, told>>
  <2> SUFFICES ASSUME IInv, IInv', [Next]_vars PROVE Floor!Next \/ UNCHANGED <<DiskFloor, told>>
    OBVIOUS
  <2>1. disk'.state = disk.state => DiskFloor' = DiskFloor
    BY DEF DiskFloor
  <2>2. CASE Answered
    <3>1. PICK record \in disk.state : told' = told \cup {record.current}
      BY <2>2 DEF Answered
    <3>2. DiskFloor = record.current
      BY <3>1, TheOnly DEF DiskFloor, IInv, StateInv
    <3>3. QED
      BY <2>1, <2>2, <3>1, <3>2 DEF Answered, Floor!Next, Floor!Tell
  <2>3. CASE told' = told /\ disk'.state \in {disk.state, seen.state}
    <3>1. CASE disk'.state = disk.state
      BY <2>1, <2>3, <3>1
    <3>2. CASE disk'.state = seen.state /\ seen.state # disk.state
      <4>1. PICK new \in disk'.state : TRUE
        BY <3>2 DEF IInv, StateInv
      <4>2. new.current \in Floors /\ DiskFloor' = new.current
        <5>1. \A a, b \in disk'.state : a = b
          BY DEF IInv, StateInv
        <5>2. new.current \in Floors
          BY <4>1, <3>2 DEF IInv, TypeOK, Directory, Record
        <5>3. QED
          BY <4>1, <5>1, <5>2, TheOnly DEF DiskFloor
      <4>3. CASE disk.state = {}
        <5>1. DiskFloor = Zero
          BY <4>3 DEF DiskFloor
        <5>2. QED
          BY <2>3, <4>2, <5>1, ZeroBelow DEF Floor!Next, Floor!Raise, Floor!Below, Below
      <4>4. CASE disk.state # {}
        <5>1. PICK old \in disk.state : TRUE
          BY <4>4
        <5>2. DiskFloor = old.current
          BY <5>1, TheOnly DEF DiskFloor, IInv, StateInv
        <5>3. Below(old.current, new.current)
          BY <3>2, <4>1, <5>1 DEF IInv, StateInv
        <5>4. QED
          BY <2>3, <4>2, <5>2, <5>3 DEF Floor!Next, Floor!Raise, Floor!Below, Below
      <4>5. QED
        BY <4>3, <4>4
    <3>3. QED
      BY <2>3, <3>1, <3>2
  <2>4. QED
    BY <2>2, <2>3, StepEffect
<1>3. QED
  BY Inductive, <1>1, <1>2, PTL DEF Spec, FloorKept, Floor!Spec
=============================================================================
