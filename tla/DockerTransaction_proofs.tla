------------------------- MODULE DockerTransaction_proofs -------------------------
(***************************************************************************)
(* Proofs about the transaction of the Docker engine.  The locks say who   *)
(* may work beside whom; the invariant then says, for memory and disk      *)
(* alike, what every step has left, so that a power failure, which mixes   *)
(* the two, finds nothing the other programs do not expect.                *)
(***************************************************************************)
EXTENDS DockerTransactionProperties, FiniteSetTheorems, TLAPS

Late == {"dpkg", "unpacking", "check", "verified"}
MarkedPhases ==
  {"fence_creating", "fenced", "pre_mutation_clear_intent", "pre_mutation_recovered",
   "mutation_pending", "verified", "unfence_intent"}
ChangedPhases == {"mutation_pending", "verified", "unfence_intent", "completed", "none"}

Places == {"none", "preflight", "active", "retired", "gone"}
JournalRecord == [phase : Phases \cup {"none"}, gen : Nat]
FileType ==
  [place : [Txns -> Places], jr : [Txns -> JournalRecord], art : [Txns -> BOOLEAN],
   marker : Txns \cup {None, Foreign}, alias : Txns \cup {None}]

(* The files and the steps have their types; of the packages only that they *)
(* are a record.                                                            *)
Typed ==
  /\ seen \in FileType /\ disk \in FileType
  /\ DOMAIN pkgs = {"ver", "whole", "other"} /\ pkgs.whole \in BOOLEAN
  /\ pc \in EngineSteps /\ txn \in Txns \cup {None}
  /\ rpc \in {"idle", "called", "locked", "clear", "unlinked"} \cup DOMAIN RecoveryPhase
  /\ rmark \in Txns \cup {None} /\ rrec \in Txns \cup {None}
  /\ wpc \in {"idle", "marker", "records", "evaluate"}
  /\ touched \subseteq Txns

(* Who holds which lock.                                                    *)
LockInv ==
  /\ pc # "idle" => updaterLock = "engine"
  /\ pc \notin {"idle", "clean", "purge", "retire", "stage", "fence"} =>
       fence = "engine" /\ dpkgLock = "engine" /\ txn \in Txns
  /\ pc = "fence" => txn \in Txns
  /\ rpc \notin {"idle", "called"} =>
       /\ updaterLock = "recovery" /\ fence = "recovery"
       /\ rrec \in Txns /\ rmark \in {None, rrec}
  /\ rpc \notin {"idle", "called", "locked"} => dpkgLock = "recovery"
  /\ rpc # "idle" => wpc = "idle"

(* The transaction the engine works on.                                     *)
EngineInv ==
  /\ pc \in {"fence", "publish"} =>
       seen.place[txn] = "preflight" /\ disk.place[txn] = "preflight"
  /\ pc = "published" => seen.place[txn] = "active" /\ disk.place[txn] \in {"preflight", "active"}
  /\ pc \notin {"idle", "clean", "purge", "retire", "stage", "fence", "publish", "published"} =>
       seen.place[txn] = "active" /\ disk.place[txn] = "active"
  /\ pc \in {"publish", "published", "fence_creating"} => seen.jr[txn].phase = "prepared"
  /\ pc = "mutation_pending" => seen.jr[txn].phase = "fenced"
  /\ pc = "unfence_intent" => seen.jr[txn].phase = "verified"
  /\ pc \in {"link", "linked", "fenced"} =>
       seen.jr[txn].phase = "fence_creating" /\ disk.jr[txn].phase = "fence_creating"
  /\ pc = "linked" => seen.marker = txn
  /\ pc \in {"fenced", "mutation_pending"} \cup Late => seen.marker = txn /\ disk.marker = txn
  /\ pc \in Late =>
       seen.jr[txn].phase = "mutation_pending" /\ disk.jr[txn].phase = "mutation_pending"
  /\ pc \in {"unpacking", "check", "verified"} => txn \in touched
  /\ pc \in {"check", "verified"} => pkgs.whole
  /\ pc \in {"clear", "unlinked", "completed"} =>
       seen.jr[txn].phase = "unfence_intent" /\ disk.jr[txn].phase = "unfence_intent"
  /\ pc = "unlinked" => seen.marker = None
  /\ pc = "completed" => seen.marker = None /\ disk.marker = None
  /\ pc \in {"clean", "purge", "retire", "stage"} => txn = None
  /\ pc \notin {"idle", "clean"} => Unresolved(seen) \subseteq {txn}

(* A transaction whose journal says mutation_pending, now or after a power  *)
(* failure, is fenced, and nobody but the engine works on it.               *)
Mutating(t) == "mutation_pending" \in {seen.jr[t].phase, disk.jr[t].phase}

MutationInv ==
  \A t \in Txns : Mutating(t) =>
    /\ seen.marker = t /\ disk.marker = t
    /\ seen.place[t] = "active" /\ disk.place[t] = "active"
    /\ seen.jr[t].phase \in {"mutation_pending", "verified"}
    /\ fence # "worker"
    /\ pc = "idle" \/ (txn = t /\ pc \in Late)
    /\ rpc \in {"idle", "called", "locked"}

(* What dpkg has touched keeps its journal until it is verified.            *)
TouchedInv ==
  /\ \A t \in touched :
       /\ seen.jr[t].phase \in ChangedPhases /\ disk.jr[t].phase \in ChangedPhases
       /\ seen.jr[t].phase = "mutation_pending" => disk.jr[t].phase = "mutation_pending"
       /\ seen.place[t] \in {"active", "retired", "gone"}
       /\ disk.place[t] \in {"active", "retired", "gone"}
  /\ ~pkgs.whole => \E t \in touched : seen.jr[t].phase = "mutation_pending"

(* What a marker of the updater stands for, in either view.                 *)
MarkerInv ==
  \A t \in Txns : t \in {seen.marker, disk.marker} =>
    /\ seen.place[t] = "active" /\ disk.place[t] = "active"
    /\ seen.jr[t].phase \in MarkedPhases /\ disk.jr[t].phase \in MarkedPhases

(* What the recovery works on once it is authorised.                        *)
RecoveryInv ==
  /\ rpc = "abort" => seen.jr[rrec].phase = "prepared"
  /\ rpc = "intend" => seen.jr[rrec].phase \in {"fence_creating", "fenced"}
  /\ rpc \in {"clear", "unlinked", "settle"} => seen.jr[rrec].phase = "pre_mutation_clear_intent"
  /\ rpc = "unlinked" =>
       /\ seen.place[rrec] = "active" /\ disk.place[rrec] = "active"
       /\ disk.jr[rrec].phase \in MarkedPhases

(* What the watchdog has read is still true while no update began or failed.*)
Quiet == unit.active \notin {"active", "failed"} /\ unit.exit # 2

WatchInv ==
  /\ pc # "idle" => unit.active = "active"
  /\ wpc \in {"records", "evaluate"} /\ wmark = None /\ Quiet => seen.marker \notin Txns
  /\ wpc # "idle" => verdict = "none"
  /\ wpc = "evaluate" /\ wrecs = {} /\ Quiet => Unresolved(seen) = {}

IInv ==
  /\ Typed /\ LockInv /\ EngineInv /\ MutationInv /\ TouchedInv
  /\ MarkerInv /\ RecoveryInv /\ WatchInv

(* A step that only touches the marker or its alias.                        *)
OnlyMarkers ==
  /\ seen' \in FileType /\ disk' \in FileType
  /\ seen'.place = seen.place /\ seen'.jr = seen.jr
  /\ disk'.place = disk.place /\ disk'.jr = disk.jr

(* A step that only rewrites the journal of t.                              *)
Rewritten(t) ==
  /\ seen' \in FileType /\ disk' \in FileType
  /\ seen'.place = seen.place /\ disk'.place = disk.place
  /\ seen'.marker = seen.marker /\ disk'.marker = disk.marker
  /\ \A u \in Txns \ {t} : seen'.jr[u] = seen.jr[u] /\ disk'.jr[u] = disk.jr[u]

(* A state of the files that is, place by place, one of the two views.      *)
Survived(f) ==
  /\ f \in FileType /\ f.marker \in {seen.marker, disk.marker}
  /\ \A t \in Txns : /\ f.place[t] \in {seen.place[t], disk.place[t]}
                     /\ f.jr[t] \in {seen.jr[t], disk.jr[t]}

-----------------------------------------------------------------------------
\* What the changes to a view of the files keep.
USE TxnsAssumption, NamesAssumption

LEMMA MarkerTyped ==
  ASSUME NEW f \in FileType, NEW m \in Txns \cup {None, Foreign}
  PROVE  [f EXCEPT !.marker = m] \in FileType
BY DEF FileType

LEMMA AliasTyped ==
  ASSUME NEW f \in FileType, NEW a \in Txns \cup {None}
  PROVE  [f EXCEPT !.alias = a] \in FileType
BY DEF FileType

LEMMA LinkTyped ==
  ASSUME NEW f \in FileType, NEW m \in Txns \cup {None, Foreign}, NEW a \in Txns \cup {None}
  PROVE  [f EXCEPT !.marker = m, !.alias = a] \in FileType
BY DEF FileType

LEMMA PlacesTyped ==
  ASSUME NEW f \in FileType, NEW p \in [Txns -> Places]
  PROVE  [f EXCEPT !.place = p] \in FileType
BY DEF FileType

LEMMA PlaceTyped ==
  ASSUME NEW f \in FileType, NEW t \in Txns, NEW p \in Places
  PROVE  [f EXCEPT !.place[t] = p] \in FileType
BY DEF FileType

LEMMA JournalTyped ==
  ASSUME NEW f \in FileType, NEW t \in Txns, NEW r \in JournalRecord
  PROVE  [f EXCEPT !.jr[t] = r] \in FileType
BY DEF FileType

LEMMA JournalOnly ==
  ASSUME NEW f \in FileType, NEW t \in Txns, NEW r, NEW g, g = [f EXCEPT !.jr[t] = r]
  PROVE  g.place = f.place /\ g.marker = f.marker /\ g.jr = [f.jr EXCEPT ![t] = r]
BY DEF FileType

LEMMA ArtTyped ==
  ASSUME NEW f \in FileType, NEW t \in Txns, NEW b \in BOOLEAN
  PROVE  [f EXCEPT !.art[t] = b] \in FileType
BY DEF FileType

LEMMA ArtsTyped ==
  ASSUME NEW f \in FileType, NEW a \in [Txns -> BOOLEAN] PROVE [f EXCEPT !.art = a] \in FileType
BY DEF FileType

LEMMA JournalsTyped ==
  ASSUME NEW f \in FileType, NEW j \in [Txns -> JournalRecord]
  PROVE  [f EXCEPT !.jr = j] \in FileType
BY DEF FileType

LEMMA SyncTyped ==
  ASSUME NEW f \in FileType, NEW t \in Txns, NEW p \in Places, NEW b \in BOOLEAN, NEW r \in JournalRecord
  PROVE  [f EXCEPT !.place[t] = p, !.art[t] = b, !.jr[t] = r] \in FileType
BY DEF FileType

USE DEF files, engine, rec, watch, locks, host

\* Synchronising one transaction's files makes the disk agree about them.
LEMMA SyncEffect ==
  ASSUME NEW g \in FileType, disk \in FileType, NEW t \in Txns
  PROVE  /\ Synced(g, t) \in FileType /\ Synced(g, t).marker = disk.marker
         /\ Synced(g, t).place[t] = g.place[t] /\ Synced(g, t).jr[t] = g.jr[t]
         /\ \A u \in Txns \ {t} : /\ Synced(g, t).place[u] = disk.place[u]
                                  /\ Synced(g, t).jr[u] = disk.jr[u]
<1>1. g.place[t] \in Places /\ g.art[t] \in BOOLEAN /\ g.jr[t] \in JournalRecord
  BY DEF FileType
<1>2. Synced(g, t) \in FileType
  BY <1>1, SyncTyped DEF Synced
<1>3. /\ Synced(g, t).marker = disk.marker
      /\ Synced(g, t).place = [disk.place EXCEPT ![t] = g.place[t]]
      /\ Synced(g, t).jr = [disk.jr EXCEPT ![t] = g.jr[t]]
  BY DEF Synced
<1> QED BY <1>2, <1>3 DEF FileType

\* A record replaced and synchronised, and the phases of advance in transaction_journal.py.
LEMMA RecordWritten ==
  ASSUME NEW t \in Txns, NEW r \in JournalRecord, seen \in FileType, disk \in FileType,
         seen' = [seen EXCEPT !.jr[t] = r], disk' = [disk EXCEPT !.jr[t] = seen'.jr[t]]
  PROVE  Rewritten(t) /\ seen'.jr[t] = r /\ disk'.jr[t] = r
<1>1. seen' \in FileType
  BY JournalTyped
<1>2. /\ seen'.place = seen.place /\ seen'.marker = seen.marker
      /\ seen'.jr = [seen.jr EXCEPT ![t] = r]
  BY JournalOnly
<1>3. seen'.jr[t] = r
  BY <1>2 DEF FileType
<1>4. disk' = [disk EXCEPT !.jr[t] = r]
  BY <1>3
<1>5. disk' \in FileType
  BY <1>4, JournalTyped
<1>6. /\ disk'.place = disk.place /\ disk'.marker = disk.marker
      /\ disk'.jr = [disk.jr EXCEPT ![t] = r]
  BY <1>4, JournalOnly
<1>7. \A u \in Txns \ {t} : seen'.jr[u] = seen.jr[u]
  BY <1>2 DEF FileType
<1>8. disk'.jr[t] = r /\ \A u \in Txns \ {t} : disk'.jr[u] = disk.jr[u]
  BY <1>6 DEF FileType
<1> QED BY <1>1, <1>2, <1>3, <1>5, <1>6, <1>7, <1>8 DEF Rewritten

LEMMA RewrittenUnresolved ==
  ASSUME NEW t, Rewritten(t)
  PROVE  /\ Unresolved(seen') \subseteq Unresolved(seen) \cup {t}
         /\ seen'.jr[t].phase \in Terminal => t \notin Unresolved(seen')
BY DEF Rewritten, Unresolved, Active

LEMMA AdvanceWrites ==
  ASSUME NEW t \in Txns, NEW next \in Phases, seen \in FileType, disk \in FileType,
         AdvanceDone(t, next)
  PROVE  Rewritten(t) /\ seen'.jr[t].phase = next /\ disk'.jr[t].phase = next
<1> DEFINE r == [phase |-> next, gen |-> seen.jr[t].gen + 1]
<1>1. r \in JournalRecord
  BY DEF FileType, JournalRecord
<1>2. seen' = [seen EXCEPT !.jr[t] = r]
  BY DEF AdvanceDone, Advanced
<1>3. disk' = [disk EXCEPT !.jr[t] = seen'.jr[t]]
  BY DEF AdvanceDone
<1>4. r.phase = next
  OBVIOUS
<1> HIDE DEF r
<1>5. Rewritten(t) /\ seen'.jr[t] = r /\ disk'.jr[t] = r
  BY <1>1, <1>2, <1>3, RecordWritten
<1> QED BY <1>4, <1>5

LEMMA AdvanceFails ==
  ASSUME NEW t \in Txns, NEW next \in Phases, seen \in FileType, disk \in FileType,
         AdvanceUnsure(t, next)
  PROVE  Rewritten(t) /\ disk' = disk /\ seen'.jr[t].phase \in {seen.jr[t].phase, next}
<1> DEFINE r == [phase |-> next, gen |-> seen.jr[t].gen + 1]
<1>1. r \in JournalRecord /\ r.phase = next
  BY DEF FileType, JournalRecord
<1>2. seen' \in {seen, [seen EXCEPT !.jr[t] = r]} /\ disk' = disk
  BY DEF AdvanceUnsure, Advanced
<1> HIDE DEF r
<1>3. CASE seen' = seen
  BY <1>2, <1>3 DEF Rewritten
<1>4. CASE seen' = [seen EXCEPT !.jr[t] = r]
  <2>1. seen' \in FileType
    BY <1>1, <1>4, JournalTyped
  <2>2. /\ seen'.place = seen.place /\ seen'.marker = seen.marker
        /\ seen'.jr = [seen.jr EXCEPT ![t] = r]
    BY <1>4, JournalOnly
  <2> QED BY <1>1, <1>2, <2>1, <2>2 DEF Rewritten
<1> QED BY <1>2, <1>3, <1>4

\* What a power failure leaves is, place by place, one of the two views.
LEMMA SurvivorsAre ==
  ASSUME seen \in FileType, disk \in FileType, NEW f \in Survivors PROVE Survived(f)
<1>1. PICK P \in SUBSET Txns :
        f.place = [t \in Txns |-> IF t \in P THEN seen.place[t] ELSE disk.place[t]]
  BY DEF Survivors
<1>2. PICK J \in SUBSET Txns :
        f.jr = [t \in Txns |-> IF t \in J THEN seen.jr[t] ELSE disk.jr[t]]
  BY DEF Survivors
<1>3. f.place \in [Txns -> Places] /\ f.jr \in [Txns -> JournalRecord]
  BY <1>1, <1>2 DEF FileType
<1>4. /\ f.art = seen.art /\ f.marker \in {seen.marker, disk.marker}
      /\ f.alias \in {seen.alias, disk.alias}
      /\ f = [place |-> f.place, jr |-> f.jr, art |-> f.art, marker |-> f.marker,
              alias |-> f.alias]
  BY DEF Survivors
<1>5. f \in FileType
  BY <1>3, <1>4 DEF FileType
<1> QED BY <1>1, <1>2, <1>4, <1>5 DEF Survived

\* The clean-up of what was staged.
LEMMA CleanedTyped == ASSUME NEW f \in FileType PROVE Cleaned(f) \in FileType
<1>1. [t \in Txns |-> IF t \in Staged THEN "gone" ELSE f.place[t]] \in [Txns -> Places]
  BY DEF FileType, Places
<1>2. [t \in Txns |-> t \notin Staged /\ f.art[t]] \in [Txns -> BOOLEAN]
  BY DEF FileType
<1>3. [t \in Txns |-> IF t \in Staged THEN NoRecord ELSE f.jr[t]] \in [Txns -> JournalRecord]
  BY DEF FileType, JournalRecord, NoRecord
<1> DEFINE p == [t \in Txns |-> IF t \in Staged THEN "gone" ELSE f.place[t]]
           a == [t \in Txns |-> t \notin Staged /\ f.art[t]]
           j == [t \in Txns |-> IF t \in Staged THEN NoRecord ELSE f.jr[t]]
<1>4. Cleaned(f) = [f EXCEPT !.place = p, !.art = a, !.jr = j]
  BY DEF Cleaned
<1> HIDE DEF p, a, j
<1>5. [f EXCEPT !.place = p] \in FileType
  BY <1>1, PlacesTyped DEF p
<1>6. [[f EXCEPT !.place = p] EXCEPT !.art = a] \in FileType
  BY <1>2, <1>5, ArtsTyped DEF a
<1>7. [[[f EXCEPT !.place = p] EXCEPT !.art = a] EXCEPT !.jr = j] \in FileType
  BY <1>3, <1>6, JournalsTyped DEF j
<1> QED BY <1>4, <1>7

-----------------------------------------------------------------------------
\* A program that ends or dies keeps the invariant if the files are as they should be.
LEMMA StopKeeps ==
  ASSUME IInv, Ends(1), UNCHANGED <<files, pkgs, touched, rec, watch>> PROVE IInv'
<1>1. Typed'
  BY DEF IInv, Ends, Typed, EngineSteps
<1>2. LockInv'
  BY DEF IInv, Ends, Release, LockInv
<1>3. EngineInv'
  BY DEF Ends, EngineInv, Late
<1>4. MutationInv'
  BY DEF IInv, Ends, Release, MutationInv, Mutating
<1>5. TouchedInv'
  BY DEF IInv, TouchedInv
<1>6. MarkerInv'
  BY DEF IInv, MarkerInv
<1>7. RecoveryInv'
  BY DEF IInv, RecoveryInv
<1>8. WatchInv'
  BY DEF IInv, Ends, WatchInv, Quiet
<1> QED BY <1>1, <1>2, <1>3, <1>4, <1>5, <1>6, <1>7, <1>8 DEF IInv

LEMMA RecoveryStopKeeps ==
  ASSUME IInv, RecoveryEnds, UNCHANGED <<files, pkgs, touched, engine, watch>> PROVE IInv'
<1>1. Typed'
  BY DEF IInv, RecoveryEnds, Typed
<1>2. LockInv'
  BY DEF IInv, RecoveryEnds, Release, LockInv
<1>3. EngineInv'
  BY DEF IInv, EngineInv
<1>4. MutationInv'
  BY DEF IInv, RecoveryEnds, Release, MutationInv, Mutating
<1>5. TouchedInv'
  BY DEF IInv, TouchedInv
<1>6. MarkerInv'
  BY DEF IInv, MarkerInv
<1>7. RecoveryInv'
  BY DEF RecoveryEnds, RecoveryInv
<1>8. WatchInv'
  BY DEF IInv, WatchInv, Quiet
<1> QED BY <1>1, <1>2, <1>3, <1>4, <1>5, <1>6, <1>7, <1>8 DEF IInv

-----------------------------------------------------------------------------
\* engine.py, step by step.
LEMMA EngineStartKeeps == ASSUME IInv, EngineStart PROVE IInv'
<1> USE DEF IInv, EngineStart, MayStart, NamesSynced
<1>1. Typed'
  <2>1. seen \in FileType /\ disk \in FileType
    BY DEF Typed
  <2>2. seen' = seen
    OBVIOUS
  <2>3. disk' = [disk EXCEPT !.place = seen.place]
    OBVIOUS
  <2>4. seen' \in FileType
    BY <2>1, <2>2 DEF FileType
  <2>5. disk' \in FileType
    BY <2>1, <2>2, <2>3, <2>4 DEF FileType
  <2> QED BY <2>4, <2>5 DEF Typed, EngineSteps
<1>2. LockInv'
  BY DEF LockInv
<1>3. EngineInv'
  BY DEF EngineInv, Late
<1>4. MutationInv'
  BY DEF MutationInv, Mutating
<1>5. TouchedInv'
  BY DEF TouchedInv
<1>6. MarkerInv'
  BY DEF MarkerInv
<1>7. RecoveryInv'
  BY DEF RecoveryInv
<1>8. WatchInv'
  BY DEF WatchInv, Quiet
<1> QED BY <1>1, <1>2, <1>3, <1>4, <1>5, <1>6, <1>7, <1>8

LEMMA EngineRefusedKeeps == ASSUME IInv, EngineRefused PROVE IInv'
<1> USE DEF IInv, EngineRefused, MayStart, Ends, Release
<1>1. Typed'
  BY DEF Typed
<1>2. LockInv'
  BY DEF LockInv
<1>3. EngineInv'
  BY DEF EngineInv, Late
<1>4. MutationInv'
  BY DEF MutationInv, Mutating
<1>5. TouchedInv'
  BY DEF TouchedInv
<1>6. MarkerInv'
  BY DEF MarkerInv
<1>7. RecoveryInv'
  BY DEF RecoveryInv
<1>8. WatchInv'
  BY DEF WatchInv, Quiet
<1> QED BY <1>1, <1>2, <1>3, <1>4, <1>5, <1>6, <1>7, <1>8

LEMMA EngineReviewKeeps == ASSUME IInv, EngineReview PROVE IInv'
<1> USE DEF IInv, EngineReview, Unresolved, Active, Terminal, Goto, Ends, Release
<1>1. Typed'
  BY DEF Typed, EngineSteps
<1>2. LockInv'
  BY DEF LockInv
<1>3. EngineInv'
  BY DEF EngineInv, Late
<1>4. MutationInv'
  BY DEF MutationInv, Mutating
<1>5. TouchedInv'
  BY DEF TouchedInv
<1>6. MarkerInv'
  BY DEF MarkerInv
<1>7. RecoveryInv'
  BY DEF RecoveryInv
<1>8. WatchInv'
  BY DEF WatchInv, Quiet
<1> QED BY <1>1, <1>2, <1>3, <1>4, <1>5, <1>6, <1>7, <1>8

LEMMA EnginePurgeKeeps == ASSUME NEW t \in Txns, IInv, EnginePurge(t) PROVE IInv'
<1>1. CASE ~(Purgeable(t) /\ seen.marker = None)
  BY <1>1, StopKeeps DEF EnginePurge
<1>2. CASE Purgeable(t) /\ seen.marker = None
  <2>1. /\ seen' \in FileType /\ disk' \in FileType
        /\ seen'.marker = seen.marker /\ disk'.marker = disk.marker
        /\ \A u \in Txns \ {t} : seen'.place[u] = seen.place[u] /\ seen'.jr[u] = seen.jr[u]
        /\ \A u \in Txns \ {t} : disk'.place[u] = disk.place[u] /\ disk'.jr[u] = disk.jr[u]
        /\ seen.place[t] = "retired" /\ seen'.place[t] \in {"retired", "gone"}
        /\ disk'.place[t] = seen'.place[t] /\ disk'.jr[t] = seen'.jr[t]
        /\ seen'.jr[t].phase \in {seen.jr[t].phase, "none"} /\ seen'.jr[t].phase \in Terminal \cup {"none"}
        /\ Unresolved(seen') \subseteq Unresolved(seen)
        /\ pc = "purge" /\ UNCHANGED <<pc, txn, unit, locks>>
        /\ UNCHANGED <<pkgs, touched, rec, watch>>
    <3>1. /\ seen' \in FileType /\ disk' \in FileType
          /\ seen'.marker = seen.marker /\ disk'.marker = disk.marker
          /\ \A u \in Txns \ {t} : seen'.place[u] = seen.place[u] /\ seen'.jr[u] = seen.jr[u]
          /\ \A u \in Txns \ {t} : disk'.place[u] = disk.place[u] /\ disk'.jr[u] = disk.jr[u]
          /\ seen.place[t] = "retired" /\ seen'.place[t] \in {"retired", "gone"}
          /\ disk'.place[t] = seen'.place[t] /\ disk'.jr[t] = seen'.jr[t]
          /\ seen'.jr[t].phase \in {seen.jr[t].phase, "none"} /\ seen'.jr[t].phase \in Terminal \cup {"none"}
          /\ Unresolved(seen') \subseteq Unresolved(seen)
      <4>1. seen \in FileType /\ disk \in FileType /\ seen.place[t] = "retired"
        BY DEF IInv, Typed, EnginePurge, Retired
      <4>2. /\ seen' \in {[seen EXCEPT !.art[t] = FALSE], [seen EXCEPT !.jr[t] = NoRecord],
                          [seen EXCEPT !.place[t] = "gone"]}
            /\ disk' = Synced(seen', t)
        BY <1>2 DEF EnginePurge, PurgePiece
      <4>3. NoRecord \in JournalRecord /\ NoRecord.phase = "none"
        BY DEF NoRecord, JournalRecord
      <4>4. seen.jr[t].phase \in Terminal \cup {"none"}
        BY <1>2, <4>3 DEF Purgeable
      <4>5. /\ seen' \in FileType /\ seen'.marker = seen.marker
            /\ \A u \in Txns \ {t} : seen'.place[u] = seen.place[u] /\ seen'.jr[u] = seen.jr[u]
            /\ seen'.place[t] \in {"retired", "gone"} /\ seen'.jr[t] \in {seen.jr[t], NoRecord}
        <5>1. CASE seen' = [seen EXCEPT !.art[t] = FALSE]
          <6>1. seen' \in FileType
            BY <4>1, <5>1, ArtTyped
          <6>2. seen'.place = seen.place /\ seen'.jr = seen.jr /\ seen'.marker = seen.marker
            BY <4>1, <5>1 DEF FileType
          <6> QED BY <4>1, <6>1, <6>2
        <5>2. CASE seen' = [seen EXCEPT !.jr[t] = NoRecord]
          <6>1. seen' \in FileType
            BY <4>1, <4>3, <5>2, JournalTyped
          <6>2. /\ seen'.place = seen.place /\ seen'.marker = seen.marker
                /\ seen'.jr = [seen.jr EXCEPT ![t] = NoRecord]
            BY <4>1, <5>2 DEF FileType
          <6> QED BY <4>1, <6>1, <6>2 DEF FileType
        <5>3. CASE seen' = [seen EXCEPT !.place[t] = "gone"]
          <6>1. seen' \in FileType
            BY <4>1, <5>3, PlaceTyped DEF Places
          <6>2. /\ seen'.jr = seen.jr /\ seen'.marker = seen.marker
                /\ seen'.place = [seen.place EXCEPT ![t] = "gone"]
            BY <4>1, <5>3 DEF FileType
          <6> QED BY <4>1, <6>1, <6>2 DEF FileType
        <5> QED BY <4>2, <5>1, <5>2, <5>3
      <4>6. Unresolved(seen') \subseteq Unresolved(seen)
        BY <4>5 DEF Unresolved, Active
      <4> QED BY <4>1, <4>2, <4>3, <4>4, <4>5, <4>6, SyncEffect
    <3>2. /\ pc = "purge" /\ UNCHANGED <<pc, txn, unit, locks>>
          /\ UNCHANGED <<pkgs, touched, rec, watch>>
      BY <1>2 DEF EnginePurge
    <3> QED BY <3>1, <3>2
  <2>2. Typed'
    BY <2>1 DEF IInv, Typed
  <2>3. LockInv'
    BY <2>1 DEF IInv, LockInv
  <2>4. EngineInv'
    BY <2>1 DEF IInv, EngineInv, Late
  <2>5. MutationInv'
    BY <2>1
      DEF IInv, MutationInv, Typed, LockInv, EngineInv, Mutating, Late, FileType, Places,
          JournalRecord, StepAfter, RecoveryInv, OnlyMarkers, Rewritten, Survived
  <2>6. TouchedInv'
    BY <2>1
      DEF IInv, TouchedInv, Typed, LockInv, EngineInv, MutationInv, ChangedPhases,
          FileType, Places, JournalRecord, Mutating, Late, StepAfter, RecoveryInv,
          OnlyMarkers, Rewritten, Survived
  <2>7. MarkerInv'
    BY <2>1 DEF IInv, MarkerInv
  <2>8. RecoveryInv'
    BY <2>1 DEF IInv, RecoveryInv, LockInv
  <2>9. WatchInv'
    BY <2>1 DEF IInv, WatchInv, Quiet
  <2> QED BY <2>2, <2>3, <2>4, <2>5, <2>6, <2>7, <2>8, <2>9 DEF IInv
<1> QED BY <1>1, <1>2

LEMMA EngineRetireKeeps == ASSUME NEW t \in Txns, IInv, EngineRetire(t) PROVE IInv'
<1>1. CASE seen.marker # None
  BY <1>1, StopKeeps DEF EngineRetire
<1>2. CASE seen.marker = None
  <2>1. /\ seen' \in FileType /\ disk' = disk /\ disk \in FileType
        /\ seen.marker = None /\ seen'.marker = None /\ seen'.jr = seen.jr
        /\ \A u \in Txns \ {t} : seen'.place[u] = seen.place[u]
        /\ seen'.place[t] = "retired" /\ seen.jr[t].phase \in Terminal /\ seen.jr[t] = disk.jr[t]
        /\ disk.marker # t
        /\ pc = "purge" /\ pc' = "retire" /\ UNCHANGED <<txn, unit, locks>>
        /\ UNCHANGED <<pkgs, touched, rec, watch>>
    <3>1. /\ seen' \in FileType /\ disk' = disk /\ disk \in FileType
          /\ seen.marker = None /\ seen'.marker = None /\ seen'.jr = seen.jr
          /\ \A u \in Txns \ {t} : seen'.place[u] = seen.place[u]
          /\ seen'.place[t] = "retired" /\ seen.jr[t].phase \in Terminal /\ seen.jr[t] = disk.jr[t]
          /\ disk.marker # t
      <4>1. seen \in FileType /\ disk \in FileType
        BY DEF IInv, Typed
      <4>2. seen' = [seen EXCEPT !.place[t] = "retired"] /\ disk' = disk
        BY <1>2 DEF EngineRetire
      <4>3. seen' \in FileType
        BY <4>1, <4>2, PlaceTyped DEF Places
      <4>4. /\ seen'.jr = seen.jr /\ seen'.marker = seen.marker
            /\ seen'.place = [seen.place EXCEPT ![t] = "retired"]
        BY <4>1, <4>2 DEF FileType
      <4>5. seen.jr[t].phase \in Terminal /\ seen.jr[t] = disk.jr[t] /\ disk.marker # t
        BY DEF EngineRetire, Retirable
      <4> QED BY <1>2, <4>1, <4>2, <4>3, <4>4, <4>5 DEF FileType
    <3>2. /\ pc = "purge" /\ pc' = "retire" /\ UNCHANGED <<txn, unit, locks>>
          /\ UNCHANGED <<pkgs, touched, rec, watch>>
      BY <1>2 DEF EngineRetire, Goto
    <3> QED BY <3>1, <3>2
  <2>2. Typed'
    BY <2>1 DEF IInv, Typed, EngineSteps
  <2>3. LockInv'
    BY <2>1 DEF IInv, LockInv
  <2>4. EngineInv'
    BY <2>1 DEF IInv, EngineInv, Late, Unresolved, Active
  <2>5. MutationInv'
    BY <2>1 DEF IInv, MutationInv, Mutating
  <2>6. TouchedInv'
    BY <2>1 DEF IInv, TouchedInv, Typed, FileType
  <2>7. MarkerInv'
    BY <2>1 DEF IInv, MarkerInv
  <2>8. RecoveryInv'
    BY <2>1 DEF IInv, RecoveryInv, LockInv
  <2>9. WatchInv'
    BY <2>1 DEF IInv, WatchInv, Quiet
  <2> QED BY <2>2, <2>3, <2>4, <2>5, <2>6, <2>7, <2>8, <2>9 DEF IInv
<1> QED BY <1>1, <1>2

LEMMA EngineRetireSyncKeeps == ASSUME IInv, EngineRetireSync PROVE IInv'
<1> USE DEF IInv, EngineRetireSync, Goto
<1>1. Typed'
  <2>1. seen \in FileType /\ disk \in FileType
    BY DEF Typed
  <2>2. seen' = seen
    OBVIOUS
  <2>3. disk' = [disk EXCEPT !.place = seen.place]
    OBVIOUS
  <2>4. seen' \in FileType
    BY <2>1, <2>2 DEF FileType
  <2>5. disk' \in FileType
    BY <2>1, <2>2, <2>3, <2>4 DEF FileType
  <2> QED BY <2>4, <2>5 DEF Typed, EngineSteps
<1>2. LockInv'
  BY DEF LockInv
<1>3. EngineInv'
  BY DEF EngineInv, Late
<1>4. MutationInv'
  BY DEF MutationInv, Mutating, Late
<1>5. TouchedInv'
  BY DEF TouchedInv
<1>6. MarkerInv'
  BY DEF MarkerInv
<1>7. RecoveryInv'
  BY DEF RecoveryInv
<1>8. WatchInv'
  BY DEF WatchInv, Quiet
<1> QED BY <1>1, <1>2, <1>3, <1>4, <1>5, <1>6, <1>7, <1>8

LEMMA EnginePreflightKeeps == ASSUME IInv, EnginePreflight PROVE IInv'
<1> USE DEF IInv, EnginePreflight, Retired, Cleaned, Staged, NoRecord, Goto, Ends, Release
<1>1. Typed'
  <2>1. seen' \in FileType /\ disk' \in FileType
    BY CleanedTyped DEF Typed
  <2> QED BY <2>1 DEF Typed, EngineSteps
<1>2. LockInv'
  BY DEF LockInv
<1>3. EngineInv'
  BY DEF EngineInv, Late, Unresolved, Active
<1>4. MutationInv'
  BY DEF MutationInv, Mutating, Late
<1>5. TouchedInv'
  BY DEF TouchedInv, Typed, FileType
<1>6. MarkerInv'
  BY DEF MarkerInv
<1>7. RecoveryInv'
  BY DEF RecoveryInv, LockInv
<1>8. WatchInv'
  BY DEF WatchInv, EngineInv, Quiet, Unresolved, Active
<1> QED BY <1>1, <1>2, <1>3, <1>4, <1>5, <1>6, <1>7, <1>8

LEMMA EngineStageKeeps == ASSUME NEW t \in Txns, IInv, EngineStage(t) PROVE IInv'
<1> USE DEF IInv, EngineStage, Unused, Synced
<1>1. Typed'
  <2>1. seen' = [seen EXCEPT !.place[t] = "preflight", !.art[t] = TRUE]
    OBVIOUS
  <2>2. [seen EXCEPT !.place[t] = "preflight"] \in FileType
    BY PlaceTyped DEF Typed, Places
  <2>3. [[seen EXCEPT !.place[t] = "preflight"] EXCEPT !.art[t] = TRUE] \in FileType
    BY <2>2, ArtTyped
  <2>4. seen' \in FileType
    BY <2>1, <2>3
  <2>5. disk' \in FileType
    <3>1. disk' = Synced(seen', t) /\ disk \in FileType
      BY DEF Typed
    <3> HIDE DEF Synced, EngineStage
    <3> QED BY <2>4, <3>1, SyncEffect
  <2> QED BY <2>4, <2>5 DEF Typed, EngineSteps
<1>2. LockInv'
  BY DEF LockInv
<1>3. EngineInv'
  BY DEF EngineInv, Typed, Late, FileType, Unresolved, Active
<1>4. MutationInv'
  BY DEF MutationInv, Mutating, Late
<1>5. TouchedInv'
  BY DEF TouchedInv
<1>6. MarkerInv'
  BY DEF MarkerInv
<1>7. RecoveryInv'
  BY DEF RecoveryInv
<1>8. WatchInv'
  BY DEF WatchInv, Quiet
<1> QED BY <1>1, <1>2, <1>3, <1>4, <1>5, <1>6, <1>7, <1>8

LEMMA EngineDefersKeeps == ASSUME IInv, EngineDefers PROVE IInv'
<1> USE DEF IInv, EngineDefers, Ends, Release
<1>1. Typed'
  BY DEF Typed, EngineSteps
<1>2. LockInv'
  BY DEF LockInv
<1>3. EngineInv'
  BY DEF EngineInv, Late
<1>4. MutationInv'
  BY DEF MutationInv, Mutating
<1>5. TouchedInv'
  BY DEF TouchedInv
<1>6. MarkerInv'
  BY DEF MarkerInv
<1>7. RecoveryInv'
  BY DEF RecoveryInv
<1>8. WatchInv'
  BY DEF WatchInv, Quiet
<1> QED BY <1>1, <1>2, <1>3, <1>4, <1>5, <1>6, <1>7, <1>8

LEMMA EngineFenceKeeps == ASSUME IInv, EngineFence PROVE IInv'
<1>1. CASE ~(fence = None /\ dpkgLock = None /\ seen.marker = None /\ Target = target /\ healthy)
  BY <1>1, StopKeeps DEF EngineFence
<1>2. CASE fence = None /\ dpkgLock = None /\ seen.marker = None /\ Target = target /\ healthy
  <2>1. /\ Rewritten(txn) /\ txn \in Txns /\ seen.marker = None
        /\ seen'.jr[txn].phase = "prepared" /\ disk'.jr[txn].phase = "prepared"
        /\ Unresolved(seen') \subseteq Unresolved(seen) \cup {txn}
        /\ pc = "fence" /\ pc' = "publish" /\ fence = None
        /\ fence' = "engine" /\ dpkgLock' = "engine"
        /\ UNCHANGED <<txn, unit, updaterLock, pkgs, touched, rec, watch>>
    <3>1. /\ Rewritten(txn) /\ txn \in Txns /\ seen.marker = None
          /\ seen'.jr[txn].phase = "prepared" /\ disk'.jr[txn].phase = "prepared"
      <4>1. seen \in FileType /\ disk \in FileType /\ txn \in Txns
        BY <1>2 DEF IInv, Typed, LockInv, EngineFence
      <4>2. [phase |-> "prepared", gen |-> 0] \in JournalRecord
        BY DEF JournalRecord, Phases, NextPhases
      <4>3. /\ seen' = [seen EXCEPT !.jr[txn] = [phase |-> "prepared", gen |-> 0]]
            /\ disk' = [disk EXCEPT !.jr[txn] = seen'.jr[txn]]
        BY <1>2 DEF EngineFence
      <4> QED BY <1>2, <4>1, <4>2, <4>3, RecordWritten
    <3>2. Unresolved(seen') \subseteq Unresolved(seen) \cup {txn}
      BY <3>1, RewrittenUnresolved
    <3>3. /\ pc = "fence" /\ pc' = "publish" /\ fence = None
          /\ fence' = "engine" /\ dpkgLock' = "engine"
          /\ UNCHANGED <<txn, unit, updaterLock, pkgs, touched, rec, watch>>
      BY <1>2 DEF EngineFence
    <3> QED BY <3>1, <3>2, <3>3
  <2>2. Typed'
    BY <2>1 DEF IInv, Typed, EngineSteps, Rewritten
  <2>3. LockInv'
    BY <2>1 DEF IInv, LockInv
  <2>4. EngineInv'
    BY <2>1 DEF IInv, EngineInv, Late, Rewritten
  <2>5. MutationInv'
    BY <2>1 DEF IInv, MutationInv, Mutating, Rewritten
  <2>6. TouchedInv'
    BY <2>1 DEF IInv, TouchedInv, Typed, LockInv, EngineInv, Rewritten
  <2>7. MarkerInv'
    BY <2>1 DEF IInv, MarkerInv, EngineInv, Rewritten
  <2>8. RecoveryInv'
    BY <2>1 DEF IInv, RecoveryInv, LockInv
  <2>9. WatchInv'
    BY <2>1 DEF IInv, WatchInv, Quiet
  <2> QED BY <2>2, <2>3, <2>4, <2>5, <2>6, <2>7, <2>8, <2>9 DEF IInv
<1> QED BY <1>1, <1>2

LEMMA EnginePublishKeeps == ASSUME IInv, EnginePublish PROVE IInv'
<1> USE DEF IInv, EnginePublish, Goto
<1>1. Typed'
  <2>1. seen \in FileType /\ disk \in FileType /\ txn \in Txns
    BY DEF Typed, LockInv
  <2>2. seen' = [seen EXCEPT !.place[txn] = "active"]
    OBVIOUS
  <2>3. disk' = disk
    OBVIOUS
  <2>4. seen' \in FileType
    <3>1. [seen EXCEPT !.place[txn] = "active"] \in FileType
      BY <2>1, PlaceTyped DEF Places
    <3> QED BY <2>2, <3>1
  <2>5. disk' \in FileType
    BY <2>1, <2>2, <2>3, <2>4 DEF FileType
  <2> QED BY <2>4, <2>5 DEF Typed, EngineSteps
<1>2. LockInv'
  BY DEF LockInv
<1>3. EngineInv'
  BY DEF EngineInv, Typed, LockInv, Late, FileType, Unresolved, Active
<1>4. MutationInv'
  BY DEF MutationInv, Mutating, Late
<1>5. TouchedInv'
  BY DEF TouchedInv
<1>6. MarkerInv'
  BY DEF MarkerInv
<1>7. RecoveryInv'
  BY DEF RecoveryInv
<1>8. WatchInv'
  BY DEF WatchInv, Quiet
<1> QED BY <1>1, <1>2, <1>3, <1>4, <1>5, <1>6, <1>7, <1>8

LEMMA EnginePublishSyncKeeps == ASSUME IInv, EnginePublishSync PROVE IInv'
<1> USE DEF IInv, EnginePublishSync, Goto
<1>1. Typed'
  <2>1. seen \in FileType /\ disk \in FileType /\ txn \in Txns
    BY DEF Typed, LockInv
  <2>2. seen' = seen
    OBVIOUS
  <2>3. disk' = [disk EXCEPT !.place[txn] = seen.place[txn]]
    OBVIOUS
  <2>4. seen' \in FileType
    BY <2>1, <2>2 DEF FileType
  <2>5. disk' \in FileType
    <3>1. seen.place[txn] \in Places
      BY <2>1 DEF FileType
    <3>2. [disk EXCEPT !.place[txn] = seen.place[txn]] \in FileType
      BY <2>1, <3>1, PlaceTyped
    <3> QED BY <2>3, <3>2
  <2> QED BY <2>4, <2>5 DEF Typed, EngineSteps, StepAfter
<1>2. LockInv'
  BY DEF LockInv
<1>3. EngineInv'
  BY DEF EngineInv, Typed, LockInv, Late, FileType
<1>4. MutationInv'
  BY DEF MutationInv, Mutating, Late
<1>5. TouchedInv'
  BY DEF TouchedInv
<1>6. MarkerInv'
  BY DEF MarkerInv
<1>7. RecoveryInv'
  BY DEF RecoveryInv
<1>8. WatchInv'
  BY DEF WatchInv, Quiet
<1> QED BY <1>1, <1>2, <1>3, <1>4, <1>5, <1>6, <1>7, <1>8

LEMMA EngineAdvancesKeeps == ASSUME IInv, EngineAdvances PROVE IInv'
<1>1. CASE pc # "completed" /\ AdvanceDone(txn, pc) /\ Goto(StepAfter[pc])
  <2>1. /\ Rewritten(txn) /\ txn \in Txns
        /\ seen'.jr[txn].phase = pc /\ disk'.jr[txn].phase = pc
        /\ pc # "completed" /\ pc \in {"fence_creating", "fenced", "mutation_pending", "verified", "unfence_intent", "completed"}
        /\ Unresolved(seen') \subseteq Unresolved(seen) \cup {txn}
        /\ pc' = StepAfter[pc] /\ UNCHANGED <<txn, unit, locks>>
        /\ UNCHANGED <<pkgs, touched, rec, watch>>
    <3>1. /\ Rewritten(txn) /\ txn \in Txns
          /\ seen'.jr[txn].phase = pc /\ disk'.jr[txn].phase = pc
          /\ pc # "completed" /\ pc \in {"fence_creating", "fenced", "mutation_pending", "verified", "unfence_intent", "completed"}
      <4>1. /\ seen \in FileType /\ disk \in FileType /\ txn \in Txns
            /\ pc \in Phases /\ pc \in {"fence_creating", "fenced", "mutation_pending", "verified", "unfence_intent", "completed"}
        BY <1>1 DEF EngineAdvances, StepAfter, IInv, Typed, LockInv, Phases, NextPhases
      <4> QED BY <1>1, <4>1, AdvanceWrites
    <3>2. Unresolved(seen') \subseteq Unresolved(seen) \cup {txn}
      BY <3>1, RewrittenUnresolved
    <3>3. /\ pc' = StepAfter[pc] /\ UNCHANGED <<txn, unit, locks>>
          /\ UNCHANGED <<pkgs, touched, rec, watch>>
      BY <1>1 DEF EngineAdvances, Goto
    <3> QED BY <3>1, <3>2, <3>3
  <2>2. Typed'
    BY <2>1 DEF IInv, Typed, EngineSteps, StepAfter, Rewritten
  <2>3. LockInv'
    BY <2>1 DEF IInv, LockInv
  <2>4. EngineInv'
    BY <2>1 DEF IInv, EngineInv, Late, StepAfter, Rewritten
  <2>5. MutationInv'
    BY <2>1 DEF IInv, MutationInv, LockInv, EngineInv, Mutating, Late, StepAfter, Rewritten
  <2>6. TouchedInv'
    BY <2>1
      DEF Release, IInv, TouchedInv, Typed, LockInv, EngineInv, MutationInv,
          ChangedPhases, FileType, Places, JournalRecord, Mutating, Late, StepAfter,
          RecoveryInv, OnlyMarkers, Rewritten, Survived
  <2>7. MarkerInv'
    BY <2>1
      DEF Release, IInv, MarkerInv, Typed, LockInv, EngineInv, RecoveryInv, MarkedPhases,
          FileType, Places, JournalRecord, StepAfter, Late, OnlyMarkers, Rewritten,
          Survived
  <2>8. RecoveryInv'
    BY <2>1 DEF IInv, RecoveryInv, LockInv
  <2>9. WatchInv'
    BY <2>1 DEF IInv, WatchInv, Quiet
  <2> QED BY <2>2, <2>3, <2>4, <2>5, <2>6, <2>7, <2>8, <2>9 DEF IInv
<1>2. CASE pc = "completed" /\ AdvanceDone(txn, pc) /\ (Ends(0) \/ Ends(2))
  <2>1. /\ Rewritten(txn) /\ txn \in Txns /\ pc = "completed"
        /\ seen'.jr[txn].phase = "completed" /\ disk'.jr[txn].phase = "completed"
        /\ Unresolved(seen') = {}
        /\ pc' = "idle" /\ txn' = None /\ Release("engine")
        /\ UNCHANGED <<pkgs, touched, rec, watch>>
    <3>1. /\ Rewritten(txn) /\ txn \in Txns /\ pc = "completed"
          /\ seen'.jr[txn].phase = "completed" /\ disk'.jr[txn].phase = "completed"
      <4>1. /\ seen \in FileType /\ disk \in FileType /\ txn \in Txns
            /\ pc \in Phases /\ pc \in {"fence_creating", "fenced", "mutation_pending", "verified", "unfence_intent", "completed"}
        BY <1>2 DEF IInv, Typed, LockInv, Phases, NextPhases
      <4> QED BY <1>2, <4>1, AdvanceWrites
    <3>2. Unresolved(seen') = {}
      BY <1>2, <3>1, RewrittenUnresolved DEF IInv, EngineInv, Terminal
    <3>3. /\ pc' = "idle" /\ txn' = None /\ Release("engine")
          /\ UNCHANGED <<pkgs, touched, rec, watch>>
      BY <1>2 DEF EngineAdvances, Ends
    <3> QED BY <3>1, <3>2, <3>3
  <2>2. Typed'
    BY <2>1 DEF IInv, Typed, EngineSteps, Rewritten
  <2>3. LockInv'
    BY <2>1 DEF IInv, LockInv
  <2>4. EngineInv'
    BY <2>1 DEF EngineInv, Late
  <2>5. MutationInv'
    BY <2>1 DEF IInv, MutationInv, Mutating, Rewritten
  <2>6. TouchedInv'
    BY <2>1
      DEF IInv, TouchedInv, Typed, LockInv, EngineInv, MutationInv, ChangedPhases,
          Rewritten
  <2>7. MarkerInv'
    BY <2>1 DEF IInv, MarkerInv, EngineInv, Rewritten
  <2>8. RecoveryInv'
    BY <2>1 DEF IInv, RecoveryInv, LockInv
  <2>9. WatchInv'
    BY <2>1 DEF IInv, WatchInv, EngineInv, Rewritten
  <2> QED BY <2>2, <2>3, <2>4, <2>5, <2>6, <2>7, <2>8, <2>9 DEF IInv
<1>3. CASE AdvanceUnsure(txn, pc) /\ Ends(1)
  <2>1. /\ Rewritten(txn) /\ txn \in Txns /\ disk' = disk
        /\ seen'.jr[txn].phase \in {seen.jr[txn].phase, pc}
        /\ pc \in {"fence_creating", "fenced", "mutation_pending", "verified", "unfence_intent", "completed"}
        /\ Unresolved(seen') \subseteq Unresolved(seen) \cup {txn}
        /\ pc' = "idle" /\ txn' = None
        /\ unit' = [active |-> "failed", exit |-> 1] /\ Release("engine")
        /\ UNCHANGED <<pkgs, touched, rec, watch>>
    <3>1. /\ Rewritten(txn) /\ txn \in Txns /\ disk' = disk
          /\ seen'.jr[txn].phase \in {seen.jr[txn].phase, pc}
          /\ pc \in {"fence_creating", "fenced", "mutation_pending", "verified", "unfence_intent", "completed"}
      <4>1. /\ seen \in FileType /\ disk \in FileType /\ txn \in Txns
            /\ pc \in Phases /\ pc \in {"fence_creating", "fenced", "mutation_pending", "verified", "unfence_intent", "completed"}
        BY <1>3 DEF EngineAdvances, StepAfter, IInv, Typed, LockInv, Phases, NextPhases
      <4> QED BY <1>3, <4>1, AdvanceFails
    <3>2. Unresolved(seen') \subseteq Unresolved(seen) \cup {txn}
      BY <3>1, RewrittenUnresolved
    <3>3. /\ pc' = "idle" /\ txn' = None
          /\ unit' = [active |-> "failed", exit |-> 1] /\ Release("engine")
          /\ UNCHANGED <<pkgs, touched, rec, watch>>
      BY <1>3 DEF EngineAdvances, Ends
    <3> QED BY <3>1, <3>2, <3>3
  <2>2. Typed'
    BY <2>1 DEF IInv, Typed, EngineSteps, Rewritten
  <2>3. LockInv'
    BY <2>1 DEF IInv, LockInv
  <2>4. EngineInv'
    BY <2>1 DEF EngineInv, Late
  <2>5. MutationInv'
    BY <2>1 DEF Release, IInv, MutationInv, LockInv, EngineInv, Mutating, Rewritten
  <2>6. TouchedInv'
    BY <2>1 DEF IInv, TouchedInv, Typed, EngineInv, ChangedPhases, Rewritten
  <2>7. MarkerInv'
    BY <2>1 DEF IInv, MarkerInv, EngineInv, MarkedPhases, Rewritten
  <2>8. RecoveryInv'
    BY <2>1 DEF IInv, RecoveryInv, LockInv
  <2>9. WatchInv'
    BY <2>1 DEF IInv, WatchInv, Quiet
  <2> QED BY <2>2, <2>3, <2>4, <2>5, <2>6, <2>7, <2>8, <2>9 DEF IInv
<1> QED BY <1>1, <1>2, <1>3 DEF EngineAdvances

LEMMA EngineLinkKeeps == ASSUME IInv, EngineLink PROVE IInv'
<1>1. CASE seen.marker # None
  BY <1>1, StopKeeps DEF EngineLink
<1>2. CASE seen.marker = None
  <2>1. /\ OnlyMarkers
        /\ seen'.marker = txn /\ disk'.marker = disk.marker
        /\ pc = "link" /\ pc' = "linked" /\ UNCHANGED <<txn, unit, locks>>
        /\ UNCHANGED <<pkgs, touched, rec, watch>>
    <3>1. /\ OnlyMarkers
          /\ seen'.marker = txn /\ disk'.marker = disk.marker
      <4>1. seen \in FileType /\ disk \in FileType /\ txn \in Txns
        BY <1>2 DEF EngineLink, IInv, Typed, LockInv
      <4>2. seen' = [seen EXCEPT !.marker = txn, !.alias = txn]
        BY <1>2 DEF EngineLink
      <4>3. disk' = disk
        BY <1>2 DEF EngineLink
      <4>4. seen' \in FileType /\ seen'.place = seen.place /\ seen'.jr = seen.jr
        BY <4>1, <4>2 DEF FileType
      <4>5. disk' \in FileType /\ disk'.place = disk.place /\ disk'.jr = disk.jr
        BY <4>1, <4>3, <4>4 DEF FileType
      <4> QED BY <1>2, <4>1, <4>2, <4>3, <4>4, <4>5 DEF OnlyMarkers
    <3>2. /\ pc = "link" /\ pc' = "linked" /\ UNCHANGED <<txn, unit, locks>>
          /\ UNCHANGED <<pkgs, touched, rec, watch>>
      BY <1>2 DEF EngineLink, Goto
    <3> QED BY <3>1, <3>2
  <2>2. Typed'
    BY <2>1 DEF IInv, Typed, EngineSteps, OnlyMarkers
  <2>3. LockInv'
    BY <2>1 DEF IInv, LockInv
  <2>4. EngineInv'
    BY <2>1 DEF IInv, EngineInv, Late, Unresolved, Active, OnlyMarkers
  <2>5. MutationInv'
    BY <2>1 DEF IInv, MutationInv, Mutating, Late, OnlyMarkers
  <2>6. TouchedInv'
    BY <2>1 DEF IInv, TouchedInv, OnlyMarkers
  <2>7. MarkerInv'
    BY <2>1 DEF IInv, MarkerInv, EngineInv, RecoveryInv, MarkedPhases, OnlyMarkers
  <2>8. RecoveryInv'
    BY <2>1 DEF IInv, RecoveryInv, LockInv
  <2>9. WatchInv'
    BY <2>1 DEF IInv, WatchInv, Quiet
  <2> QED BY <2>2, <2>3, <2>4, <2>5, <2>6, <2>7, <2>8, <2>9 DEF IInv
<1> QED BY <1>1, <1>2

LEMMA EngineLinkSyncKeeps == ASSUME IInv, EngineLinkSync PROVE IInv'
<1>1. /\ OnlyMarkers
      /\ seen'.marker = seen.marker /\ disk'.marker = seen.marker
      /\ pc = "linked" /\ pc' = "fenced" /\ UNCHANGED <<txn, unit, locks>>
      /\ UNCHANGED <<pkgs, touched, rec, watch>>
  <2>1. /\ OnlyMarkers
        /\ seen'.marker = seen.marker /\ disk'.marker = seen.marker
    <3>1. seen \in FileType /\ disk \in FileType /\ txn \in Txns
      BY DEF EngineLinkSync, IInv, Typed, LockInv
    <3>2. seen' = [seen EXCEPT !.alias = None]
      BY DEF EngineLinkSync
    <3>3. disk' = [disk EXCEPT !.marker = seen.marker, !.alias = None]
      BY DEF EngineLinkSync
    <3>4. seen' \in FileType /\ seen'.place = seen.place /\ seen'.jr = seen.jr
      BY <3>1, <3>2 DEF FileType
    <3>5. disk' \in FileType /\ disk'.place = disk.place /\ disk'.jr = disk.jr
      BY <3>1, <3>3, <3>4 DEF FileType
    <3> QED BY <3>1, <3>2, <3>3, <3>4, <3>5 DEF OnlyMarkers
  <2>2. /\ pc = "linked" /\ pc' = "fenced" /\ UNCHANGED <<txn, unit, locks>>
        /\ UNCHANGED <<pkgs, touched, rec, watch>>
    BY DEF EngineLinkSync, Goto
  <2> QED BY <2>1, <2>2
<1>2. Typed'
  BY <1>1 DEF IInv, Typed, EngineSteps, StepAfter, OnlyMarkers
<1>3. LockInv'
  BY <1>1 DEF IInv, LockInv
<1>4. EngineInv'
  BY <1>1 DEF IInv, EngineInv, Late, Unresolved, Active, OnlyMarkers
<1>5. MutationInv'
  BY <1>1 DEF IInv, MutationInv, Mutating, Late, OnlyMarkers
<1>6. TouchedInv'
  BY <1>1 DEF IInv, TouchedInv, OnlyMarkers
<1>7. MarkerInv'
  BY <1>1 DEF IInv, MarkerInv, OnlyMarkers
<1>8. RecoveryInv'
  BY <1>1 DEF IInv, RecoveryInv, LockInv
<1>9. WatchInv'
  BY <1>1 DEF IInv, WatchInv, Quiet
<1> QED BY <1>2, <1>3, <1>4, <1>5, <1>6, <1>7, <1>8, <1>9 DEF IInv

LEMMA EngineLinkFailsKeeps == ASSUME IInv, EngineLinkFails PROVE IInv'
<1>1. /\ OnlyMarkers
      /\ seen'.marker \in {seen.marker, None} /\ disk'.marker \in {disk.marker, None}
      /\ pc = "linked"
      /\ pc' = "idle" /\ txn' = None
      /\ unit' = [active |-> "failed", exit |-> 1] /\ Release("engine")
      /\ UNCHANGED <<pkgs, touched, rec, watch>>
  <2>1. /\ OnlyMarkers
        /\ seen'.marker \in {seen.marker, None} /\ disk'.marker \in {disk.marker, None}
    <3>1. seen \in FileType /\ disk \in FileType /\ txn \in Txns
      BY DEF EngineLinkFails, IInv, Typed, LockInv
    <3>2. seen' \in {[seen EXCEPT !.marker = None, !.alias = None], [seen EXCEPT !.alias = None]}
      BY DEF EngineLinkFails
    <3>3. disk' \in {disk, [disk EXCEPT !.marker = None, !.alias = None]}
      BY DEF EngineLinkFails
    <3>4. seen' \in FileType /\ seen'.place = seen.place /\ seen'.jr = seen.jr
      BY <3>1, <3>2 DEF FileType
    <3>5. disk' \in FileType /\ disk'.place = disk.place /\ disk'.jr = disk.jr
      BY <3>1, <3>3, <3>4 DEF FileType
    <3> QED BY <3>1, <3>2, <3>3, <3>4, <3>5 DEF OnlyMarkers, FileType
  <2>2. /\ pc = "linked"
        /\ pc' = "idle" /\ txn' = None
        /\ unit' = [active |-> "failed", exit |-> 1] /\ Release("engine")
        /\ UNCHANGED <<pkgs, touched, rec, watch>>
    BY DEF EngineLinkFails, Ends
  <2> QED BY <2>1, <2>2
<1>2. Typed'
  BY <1>1 DEF IInv, Typed, EngineSteps, OnlyMarkers
<1>3. LockInv'
  BY <1>1 DEF IInv, LockInv
<1>4. EngineInv'
  BY <1>1 DEF EngineInv, Late
<1>5. MutationInv'
  BY <1>1 DEF IInv, MutationInv, Mutating, Late, OnlyMarkers
<1>6. TouchedInv'
  BY <1>1 DEF IInv, TouchedInv, OnlyMarkers
<1>7. MarkerInv'
  BY <1>1 DEF IInv, MarkerInv, OnlyMarkers
<1>8. RecoveryInv'
  BY <1>1 DEF IInv, RecoveryInv, LockInv
<1>9. WatchInv'
  BY <1>1 DEF IInv, WatchInv, Quiet
<1> QED BY <1>2, <1>3, <1>4, <1>5, <1>6, <1>7, <1>8, <1>9 DEF IInv

LEMMA EngineDpkgStartsKeeps == ASSUME IInv, EngineDpkgStarts PROVE IInv'
<1> USE DEF IInv, EngineDpkgStarts, Goto
<1>1. Typed'
  BY DEF Typed, LockInv, EngineSteps
<1>2. LockInv'
  BY DEF LockInv
<1>3. EngineInv'
  BY DEF EngineInv, Late
<1>4. MutationInv'
  BY DEF MutationInv, Mutating, Late
<1>5. TouchedInv'
  BY DEF TouchedInv, EngineInv, ChangedPhases, Late
<1>6. MarkerInv'
  BY DEF MarkerInv
<1>7. RecoveryInv'
  BY DEF RecoveryInv
<1>8. WatchInv'
  BY DEF WatchInv, Quiet
<1> QED BY <1>1, <1>2, <1>3, <1>4, <1>5, <1>6, <1>7, <1>8

LEMMA EngineDpkgEndsKeeps == ASSUME IInv, EngineDpkgEnds PROVE IInv'
<1> USE DEF IInv, EngineDpkgEnds, Goto
<1>1. Typed'
  BY DEF Typed, EngineSteps
<1>2. LockInv'
  BY DEF LockInv
<1>3. EngineInv'
  BY DEF EngineInv, Late
<1>4. MutationInv'
  BY DEF MutationInv, Mutating, Late
<1>5. TouchedInv'
  BY DEF TouchedInv
<1>6. MarkerInv'
  BY DEF MarkerInv
<1>7. RecoveryInv'
  BY DEF RecoveryInv
<1>8. WatchInv'
  BY DEF WatchInv, Quiet
<1> QED BY <1>1, <1>2, <1>3, <1>4, <1>5, <1>6, <1>7, <1>8

LEMMA EngineChecksKeeps == ASSUME IInv, EngineChecks PROVE IInv'
<1> USE DEF IInv, EngineChecks, Goto, Ends, Release
<1>1. Typed'
  BY DEF Typed, EngineSteps, StepAfter
<1>2. LockInv'
  BY DEF LockInv
<1>3. EngineInv'
  BY DEF EngineInv, Late
<1>4. MutationInv'
  BY DEF MutationInv, Mutating, Late
<1>5. TouchedInv'
  BY DEF TouchedInv
<1>6. MarkerInv'
  BY DEF MarkerInv
<1>7. RecoveryInv'
  BY DEF RecoveryInv
<1>8. WatchInv'
  BY DEF WatchInv, Quiet
<1> QED BY <1>1, <1>2, <1>3, <1>4, <1>5, <1>6, <1>7, <1>8

LEMMA EngineClearKeeps == ASSUME IInv, EngineClear PROVE IInv'
<1>1. CASE seen.marker # txn
  BY <1>1, StopKeeps DEF EngineClear
<1>2. CASE seen.marker = txn
  <2>1. /\ OnlyMarkers
        /\ seen'.marker = None /\ disk'.marker = disk.marker
        /\ pc = "clear" /\ pc' = "unlinked" /\ UNCHANGED <<txn, unit, locks>>
        /\ UNCHANGED <<pkgs, touched, rec, watch>>
    <3>1. /\ OnlyMarkers
          /\ seen'.marker = None /\ disk'.marker = disk.marker
      <4>1. seen \in FileType /\ disk \in FileType /\ txn \in Txns
        BY <1>2 DEF EngineClear, IInv, Typed, LockInv
      <4>2. seen' = [seen EXCEPT !.marker = None]
        BY <1>2 DEF EngineClear
      <4>3. disk' = disk
        BY <1>2 DEF EngineClear
      <4>4. seen' \in FileType /\ seen'.place = seen.place /\ seen'.jr = seen.jr
        BY <4>1, <4>2 DEF FileType
      <4>5. disk' \in FileType /\ disk'.place = disk.place /\ disk'.jr = disk.jr
        BY <4>1, <4>3, <4>4 DEF FileType
      <4> QED BY <1>2, <4>1, <4>2, <4>3, <4>4, <4>5 DEF OnlyMarkers
    <3>2. /\ pc = "clear" /\ pc' = "unlinked" /\ UNCHANGED <<txn, unit, locks>>
          /\ UNCHANGED <<pkgs, touched, rec, watch>>
      BY <1>2 DEF EngineClear, Goto
    <3> QED BY <3>1, <3>2
  <2>2. Typed'
    BY <2>1 DEF IInv, Typed, EngineSteps, OnlyMarkers
  <2>3. LockInv'
    BY <2>1 DEF IInv, LockInv
  <2>4. EngineInv'
    BY <2>1 DEF IInv, EngineInv, Late, Unresolved, Active, OnlyMarkers
  <2>5. MutationInv'
    BY <2>1 DEF IInv, MutationInv, Mutating, Late, OnlyMarkers
  <2>6. TouchedInv'
    BY <2>1 DEF IInv, TouchedInv, OnlyMarkers
  <2>7. MarkerInv'
    BY <2>1 DEF IInv, MarkerInv, OnlyMarkers
  <2>8. RecoveryInv'
    BY <2>1 DEF IInv, RecoveryInv, LockInv
  <2>9. WatchInv'
    BY <2>1 DEF IInv, WatchInv, Quiet
  <2> QED BY <2>2, <2>3, <2>4, <2>5, <2>6, <2>7, <2>8, <2>9 DEF IInv
<1> QED BY <1>1, <1>2

LEMMA EngineClearSyncKeeps == ASSUME IInv, EngineClearSync PROVE IInv'
<1>1. /\ OnlyMarkers
      /\ seen'.marker = seen.marker /\ disk'.marker = seen.marker
      /\ pc = "unlinked" /\ pc' = "completed" /\ UNCHANGED <<txn, unit, locks>>
      /\ UNCHANGED <<pkgs, touched, rec, watch>>
  <2>1. /\ OnlyMarkers
        /\ seen'.marker = seen.marker /\ disk'.marker = seen.marker
    <3>1. seen \in FileType /\ disk \in FileType /\ txn \in Txns
      BY DEF EngineClearSync, IInv, Typed, LockInv
    <3>2. seen' = seen
      BY DEF EngineClearSync
    <3>3. disk' = [disk EXCEPT !.marker = seen.marker]
      BY DEF EngineClearSync
    <3>4. seen' \in FileType /\ seen'.place = seen.place /\ seen'.jr = seen.jr
      BY <3>1, <3>2 DEF FileType
    <3>5. disk' \in FileType /\ disk'.place = disk.place /\ disk'.jr = disk.jr
      BY <3>1, <3>3, <3>4 DEF FileType
    <3> QED BY <3>1, <3>2, <3>3, <3>4, <3>5 DEF OnlyMarkers
  <2>2. /\ pc = "unlinked" /\ pc' = "completed" /\ UNCHANGED <<txn, unit, locks>>
        /\ UNCHANGED <<pkgs, touched, rec, watch>>
    BY DEF EngineClearSync, Goto
  <2> QED BY <2>1, <2>2
<1>2. Typed'
  BY <1>1 DEF IInv, Typed, EngineSteps, StepAfter, OnlyMarkers
<1>3. LockInv'
  BY <1>1 DEF IInv, LockInv
<1>4. EngineInv'
  BY <1>1 DEF IInv, EngineInv, Late, Unresolved, Active, OnlyMarkers
<1>5. MutationInv'
  BY <1>1 DEF IInv, MutationInv, Mutating, Late, OnlyMarkers
<1>6. TouchedInv'
  BY <1>1 DEF IInv, TouchedInv, OnlyMarkers
<1>7. MarkerInv'
  BY <1>1 DEF IInv, MarkerInv, OnlyMarkers
<1>8. RecoveryInv'
  BY <1>1 DEF IInv, RecoveryInv, LockInv
<1>9. WatchInv'
  BY <1>1 DEF IInv, WatchInv, Quiet
<1> QED BY <1>2, <1>3, <1>4, <1>5, <1>6, <1>7, <1>8, <1>9 DEF IInv

LEMMA EngineClearFailsKeeps == ASSUME IInv, EngineClearFails PROVE IInv'
<1>1. /\ OnlyMarkers
      /\ seen'.marker \in {None, txn} /\ disk'.marker \in {disk.marker, None, txn}
      /\ pc = "unlinked"
      /\ pc' = "idle" /\ txn' = None
      /\ unit' = [active |-> "failed", exit |-> 1] /\ Release("engine")
      /\ UNCHANGED <<pkgs, touched, rec, watch>>
  <2>1. /\ OnlyMarkers
        /\ seen'.marker \in {None, txn} /\ disk'.marker \in {disk.marker, None, txn}
    <3>1. seen \in FileType /\ disk \in FileType /\ txn \in Txns /\ seen.marker = None
      BY DEF EngineClearFails, IInv, Typed, LockInv, EngineInv
    <3>2. seen' \in {seen, [seen EXCEPT !.marker = txn]}
      BY DEF EngineClearFails, Remarked
    <3>3. disk' \in {disk, [disk EXCEPT !.marker = seen'.marker]}
      BY DEF EngineClearFails
    <3>4. seen' \in FileType /\ seen'.place = seen.place /\ seen'.jr = seen.jr
      BY <3>1, <3>2 DEF FileType
    <3>5. disk' \in FileType /\ disk'.place = disk.place /\ disk'.jr = disk.jr
      BY <3>1, <3>3, <3>4 DEF FileType
    <3> QED BY <3>1, <3>2, <3>3, <3>4, <3>5 DEF OnlyMarkers, FileType
  <2>2. /\ pc = "unlinked"
        /\ pc' = "idle" /\ txn' = None
        /\ unit' = [active |-> "failed", exit |-> 1] /\ Release("engine")
        /\ UNCHANGED <<pkgs, touched, rec, watch>>
    BY DEF EngineClearFails, Ends
  <2> QED BY <2>1, <2>2
<1>2. Typed'
  BY <1>1 DEF IInv, Typed, EngineSteps, OnlyMarkers
<1>3. LockInv'
  BY <1>1 DEF IInv, LockInv
<1>4. EngineInv'
  BY <1>1 DEF EngineInv, Late
<1>5. MutationInv'
  BY <1>1 DEF IInv, MutationInv, Mutating, Late, OnlyMarkers
<1>6. TouchedInv'
  BY <1>1 DEF IInv, TouchedInv, OnlyMarkers
<1>7. MarkerInv'
  BY <1>1 DEF IInv, MarkerInv, EngineInv, MarkedPhases, OnlyMarkers
<1>8. RecoveryInv'
  BY <1>1 DEF IInv, RecoveryInv, LockInv
<1>9. WatchInv'
  BY <1>1 DEF IInv, WatchInv, Quiet
<1> QED BY <1>2, <1>3, <1>4, <1>5, <1>6, <1>7, <1>8, <1>9 DEF IInv

LEMMA EngineStopsKeeps == ASSUME IInv, EngineStops PROVE IInv'
<1> USE DEF IInv, EngineStops, Ends, Release
<1>1. Typed'
  BY DEF Typed, EngineSteps
<1>2. LockInv'
  BY DEF LockInv
<1>3. EngineInv'
  BY DEF EngineInv, Late
<1>4. MutationInv'
  BY DEF MutationInv, Mutating
<1>5. TouchedInv'
  BY DEF TouchedInv
<1>6. MarkerInv'
  BY DEF MarkerInv
<1>7. RecoveryInv'
  BY DEF RecoveryInv
<1>8. WatchInv'
  BY DEF WatchInv, Quiet
<1> QED BY <1>1, <1>2, <1>3, <1>4, <1>5, <1>6, <1>7, <1>8

-----------------------------------------------------------------------------
\* pre_mutation_recovery.py, step by step.
LEMMA RecoveryStartKeeps == ASSUME IInv, RecoveryStart PROVE IInv'
<1> USE DEF IInv, RecoveryStart, MayRecover, Unresolved, Active, Terminal, RecoveryEnds,
            Release, NamesSynced
<1>1. Typed'
  <2>1. seen \in FileType /\ disk \in FileType
    BY DEF Typed
  <2>2. seen' = seen
    OBVIOUS
  <2>3. disk' \in {disk, [disk EXCEPT !.place = seen.place]}
    OBVIOUS
  <2>4. seen' \in FileType
    BY <2>1, <2>2 DEF FileType
  <2>5. disk' \in FileType
    BY <2>1, <2>2, <2>3, <2>4 DEF FileType
  <2> QED BY <2>4, <2>5 DEF Typed
<1>2. LockInv'
  BY DEF LockInv
<1>3. EngineInv'
  BY DEF EngineInv
<1>4. MutationInv'
  BY DEF MutationInv, Mutating
<1>5. TouchedInv'
  BY DEF TouchedInv
<1>6. MarkerInv'
  BY DEF MarkerInv
<1>7. RecoveryInv'
  BY DEF RecoveryInv
<1>8. WatchInv'
  BY DEF WatchInv, LockInv
<1> QED BY <1>1, <1>2, <1>3, <1>4, <1>5, <1>6, <1>7, <1>8

LEMMA RecoveryAuthorizesKeeps == ASSUME IInv, RecoveryAuthorizes PROVE IInv'
<1> USE DEF IInv, RecoveryAuthorizes, Unresolved, Active, Terminal, Authorized, SafePhases,
            RecoveryEnds, Release
<1>1. Typed'
  BY DEF Typed, RecoveryPhase
<1>2. LockInv'
  BY DEF LockInv
<1>3. EngineInv'
  BY DEF EngineInv
<1>4. MutationInv'
  BY DEF MutationInv, Mutating
<1>5. TouchedInv'
  BY DEF TouchedInv
<1>6. MarkerInv'
  BY DEF MarkerInv
<1>7. RecoveryInv'
  BY DEF RecoveryInv
<1>8. WatchInv'
  BY DEF WatchInv, LockInv
<1> QED BY <1>1, <1>2, <1>3, <1>4, <1>5, <1>6, <1>7, <1>8

LEMMA RecoveryAdvancesKeeps == ASSUME IInv, RecoveryAdvances PROVE IInv'
<1>1. CASE /\ rpc = "intend" /\ AdvanceDone(rrec, "pre_mutation_clear_intent")
              /\ rpc' = "clear" /\ UNCHANGED <<rmark, rrec, locks>>
  <2>1. /\ Rewritten(rrec) /\ rrec \in Txns
        /\ seen'.jr[rrec].phase = "pre_mutation_clear_intent"
        /\ disk'.jr[rrec].phase = "pre_mutation_clear_intent"
        /\ Unresolved(seen') \subseteq Unresolved(seen) \cup {rrec}
        /\ rpc = "intend" /\ rpc' = "clear" /\ UNCHANGED <<rmark, rrec, locks>>
        /\ UNCHANGED <<pkgs, touched, engine, watch>>
    <3>1. /\ Rewritten(rrec) /\ rrec \in Txns
          /\ seen'.jr[rrec].phase = "pre_mutation_clear_intent"
          /\ disk'.jr[rrec].phase = "pre_mutation_clear_intent"
      <4>1. seen \in FileType /\ disk \in FileType /\ rrec \in Txns
        BY <1>1 DEF IInv, Typed, LockInv
      <4>2. {"aborted", "pre_mutation_clear_intent", "pre_mutation_recovered"} \subseteq Phases
        BY DEF Phases, NextPhases
      <4> QED BY <1>1, <4>1, <4>2, AdvanceWrites
    <3>2. Unresolved(seen') \subseteq Unresolved(seen) \cup {rrec}
      BY <3>1, RewrittenUnresolved
    <3>3. /\ rpc = "intend" /\ rpc' = "clear" /\ UNCHANGED <<rmark, rrec, locks>>
          /\ UNCHANGED <<pkgs, touched, engine, watch>>
      BY <1>1 DEF RecoveryAdvances
    <3> QED BY <3>1, <3>2, <3>3
  <2>2. Typed'
    BY <2>1 DEF IInv, Typed, Rewritten
  <2>3. LockInv'
    BY <2>1 DEF IInv, LockInv
  <2>4. EngineInv'
    BY <2>1 DEF IInv, EngineInv, LockInv, Late
  <2>5. MutationInv'
    BY <2>1 DEF IInv, MutationInv, Mutating, Rewritten
  <2>6. TouchedInv'
    BY <2>1 DEF IInv, TouchedInv, Typed, ChangedPhases, RecoveryInv, Rewritten
  <2>7. MarkerInv'
    BY <2>1 DEF IInv, MarkerInv, MarkedPhases, Late, Rewritten
  <2>8. RecoveryInv'
    BY <2>1 DEF RecoveryInv
  <2>9. WatchInv'
    BY <2>1 DEF IInv, WatchInv, LockInv
  <2> QED BY <2>2, <2>3, <2>4, <2>5, <2>6, <2>7, <2>8, <2>9 DEF IInv
<1>2. CASE rpc = "abort" /\ AdvanceDone(rrec, "aborted")
  <2>1. /\ Rewritten(rrec) /\ rrec \in Txns
        /\ seen'.jr[rrec].phase = "aborted" /\ disk'.jr[rrec].phase = "aborted"
        /\ Unresolved(seen') \subseteq Unresolved(seen) \cup {rrec}
        /\ rpc = "abort"
        /\ rpc' = "idle" /\ rmark' = None /\ rrec' = None /\ Release("recovery")
        /\ UNCHANGED <<pkgs, touched, engine, watch>>
    <3>1. /\ Rewritten(rrec) /\ rrec \in Txns
          /\ seen'.jr[rrec].phase = "aborted" /\ disk'.jr[rrec].phase = "aborted"
      <4>1. seen \in FileType /\ disk \in FileType /\ rrec \in Txns
        BY <1>2 DEF IInv, Typed, LockInv
      <4>2. {"aborted", "pre_mutation_clear_intent", "pre_mutation_recovered"} \subseteq Phases
        BY DEF Phases, NextPhases
      <4> QED BY <1>2, <4>1, <4>2, AdvanceWrites
    <3>2. Unresolved(seen') \subseteq Unresolved(seen) \cup {rrec}
      BY <3>1, RewrittenUnresolved
    <3>3. /\ rpc = "abort"
          /\ rpc' = "idle" /\ rmark' = None /\ rrec' = None /\ Release("recovery")
          /\ UNCHANGED <<pkgs, touched, engine, watch>>
      BY <1>2 DEF RecoveryAdvances, RecoveryEnds
    <3> QED BY <3>1, <3>2, <3>3
  <2>2. Typed'
    BY <2>1 DEF IInv, Typed, Rewritten
  <2>3. LockInv'
    BY <2>1 DEF IInv, LockInv
  <2>4. EngineInv'
    BY <2>1 DEF IInv, EngineInv, LockInv, Late
  <2>5. MutationInv'
    BY <2>1 DEF IInv, MutationInv, Mutating, Rewritten
  <2>6. TouchedInv'
    BY <2>1 DEF IInv, TouchedInv, Typed, LockInv, ChangedPhases, RecoveryInv, Rewritten
  <2>7. MarkerInv'
    BY <2>1 DEF IInv, MarkerInv, RecoveryInv, MarkedPhases, Rewritten
  <2>8. RecoveryInv'
    BY <2>1 DEF RecoveryInv
  <2>9. WatchInv'
    BY <2>1 DEF IInv, WatchInv, LockInv
  <2> QED BY <2>2, <2>3, <2>4, <2>5, <2>6, <2>7, <2>8, <2>9 DEF IInv
<1>3. CASE rpc = "settle" /\ AdvanceDone(rrec, "pre_mutation_recovered")
  <2>1. /\ Rewritten(rrec) /\ rrec \in Txns
        /\ seen'.jr[rrec].phase = "pre_mutation_recovered"
        /\ disk'.jr[rrec].phase = "pre_mutation_recovered"
        /\ Unresolved(seen') \subseteq Unresolved(seen) \cup {rrec}
        /\ rpc = "settle"
        /\ rpc' = "idle" /\ rmark' = None /\ rrec' = None /\ Release("recovery")
        /\ UNCHANGED <<pkgs, touched, engine, watch>>
    <3>1. /\ Rewritten(rrec) /\ rrec \in Txns
          /\ seen'.jr[rrec].phase = "pre_mutation_recovered"
          /\ disk'.jr[rrec].phase = "pre_mutation_recovered"
      <4>1. seen \in FileType /\ disk \in FileType /\ rrec \in Txns
        BY <1>3 DEF IInv, Typed, LockInv
      <4>2. {"aborted", "pre_mutation_clear_intent", "pre_mutation_recovered"} \subseteq Phases
        BY DEF Phases, NextPhases
      <4> QED BY <1>3, <4>1, <4>2, AdvanceWrites
    <3>2. Unresolved(seen') \subseteq Unresolved(seen) \cup {rrec}
      BY <3>1, RewrittenUnresolved
    <3>3. /\ rpc = "settle"
          /\ rpc' = "idle" /\ rmark' = None /\ rrec' = None /\ Release("recovery")
          /\ UNCHANGED <<pkgs, touched, engine, watch>>
      BY <1>3 DEF RecoveryAdvances, RecoveryEnds
    <3> QED BY <3>1, <3>2, <3>3
  <2>2. Typed'
    BY <2>1 DEF IInv, Typed, Rewritten
  <2>3. LockInv'
    BY <2>1 DEF IInv, LockInv
  <2>4. EngineInv'
    BY <2>1 DEF IInv, EngineInv, LockInv, Late
  <2>5. MutationInv'
    BY <2>1 DEF IInv, MutationInv, Mutating, Rewritten
  <2>6. TouchedInv'
    BY <2>1
      DEF Release, IInv, TouchedInv, Typed, LockInv, EngineInv, MutationInv,
          ChangedPhases, FileType, Places, JournalRecord, Mutating, Late, StepAfter,
          RecoveryInv, OnlyMarkers, Rewritten, Survived
  <2>7. MarkerInv'
    BY <2>1
      DEF Release, IInv, MarkerInv, Typed, LockInv, EngineInv, RecoveryInv, MarkedPhases,
          FileType, Places, JournalRecord, StepAfter, Late, OnlyMarkers, Rewritten,
          Survived
  <2>8. RecoveryInv'
    BY <2>1 DEF RecoveryInv
  <2>9. WatchInv'
    BY <2>1 DEF IInv, WatchInv, LockInv
  <2> QED BY <2>2, <2>3, <2>4, <2>5, <2>6, <2>7, <2>8, <2>9 DEF IInv
<1>4. CASE rpc \in {"abort", "intend", "settle"} /\ AdvanceUnsure(rrec, RecoveryPhase[rpc]) /\ RecoveryEnds
  <2>1. /\ Rewritten(rrec) /\ rrec \in Txns /\ disk' = disk
        /\ rpc \in {"abort", "intend", "settle"}
        /\ \/ seen'.jr[rrec].phase = seen.jr[rrec].phase
           \/ rpc = "abort" /\ seen'.jr[rrec].phase = "aborted"
           \/ seen'.jr[rrec].phase \in {"pre_mutation_clear_intent", "pre_mutation_recovered"}
        /\ Unresolved(seen') \subseteq Unresolved(seen) \cup {rrec}
        /\ rpc' = "idle" /\ rmark' = None /\ rrec' = None /\ Release("recovery")
        /\ UNCHANGED <<pkgs, touched, engine, watch>>
    <3>1. /\ Rewritten(rrec) /\ rrec \in Txns /\ disk' = disk
          /\ rpc \in {"abort", "intend", "settle"}
          /\ \/ seen'.jr[rrec].phase = seen.jr[rrec].phase
             \/ rpc = "abort" /\ seen'.jr[rrec].phase = "aborted"
             \/ seen'.jr[rrec].phase \in {"pre_mutation_clear_intent", "pre_mutation_recovered"}
      <4>1. seen \in FileType /\ disk \in FileType /\ rrec \in Txns
        BY <1>4 DEF IInv, Typed, LockInv
      <4>2. RecoveryPhase[rpc] \in Phases
        BY <1>4 DEF RecoveryPhase, Phases, NextPhases
      <4>3. Rewritten(rrec) /\ disk' = disk /\ seen'.jr[rrec].phase \in {seen.jr[rrec].phase, RecoveryPhase[rpc]}
        BY <1>4, <4>1, <4>2, AdvanceFails
      <4> QED BY <1>4, <4>1, <4>3 DEF RecoveryPhase
    <3>2. Unresolved(seen') \subseteq Unresolved(seen) \cup {rrec}
      BY <3>1, RewrittenUnresolved
    <3>3. /\ rpc' = "idle" /\ rmark' = None /\ rrec' = None /\ Release("recovery")
          /\ UNCHANGED <<pkgs, touched, engine, watch>>
      BY <1>4 DEF RecoveryAdvances, RecoveryEnds
    <3> QED BY <3>1, <3>2, <3>3
  <2>2. Typed'
    BY <2>1 DEF IInv, Typed, Rewritten
  <2>3. LockInv'
    BY <2>1 DEF IInv, LockInv
  <2>4. EngineInv'
    BY <2>1 DEF IInv, EngineInv, LockInv, Late
  <2>5. MutationInv'
    BY <2>1 DEF IInv, MutationInv, Mutating, Rewritten
  <2>6. TouchedInv'
    BY <2>1 DEF IInv, TouchedInv, Typed, ChangedPhases, RecoveryInv, Rewritten
  <2>7. MarkerInv'
    BY <2>1
      DEF Release, IInv, MarkerInv, Typed, LockInv, EngineInv, RecoveryInv, MarkedPhases,
          FileType, Places, JournalRecord, StepAfter, Late, OnlyMarkers, Rewritten,
          Survived
  <2>8. RecoveryInv'
    BY <2>1 DEF RecoveryInv
  <2>9. WatchInv'
    BY <2>1 DEF IInv, WatchInv, LockInv
  <2> QED BY <2>2, <2>3, <2>4, <2>5, <2>6, <2>7, <2>8, <2>9 DEF IInv
<1> QED BY <1>1, <1>2, <1>3, <1>4 DEF RecoveryAdvances, RecoveryPhase

LEMMA RecoveryClearsKeeps == ASSUME IInv, RecoveryClears PROVE IInv'
<1>1. CASE rmark = None
  <2>1. /\ rpc = "clear" /\ rpc' = "settle" /\ UNCHANGED <<rmark, rrec>>
        /\ UNCHANGED <<seen, disk, pkgs, touched, engine, watch, locks>>
    <3>1. /\ rpc = "clear" /\ rpc' = "settle" /\ UNCHANGED <<rmark, rrec>>
          /\ UNCHANGED <<seen, disk, pkgs, touched, engine, watch, locks>>
      BY <1>1 DEF RecoveryClears
    <3> QED BY <3>1
  <2>2. Typed'
    BY <2>1 DEF IInv, Typed, RecoveryPhase
  <2>3. LockInv'
    BY <2>1 DEF IInv, LockInv
  <2>4. EngineInv'
    BY <2>1 DEF IInv, EngineInv
  <2>5. MutationInv'
    BY <2>1 DEF IInv, MutationInv, Mutating
  <2>6. TouchedInv'
    BY <2>1 DEF IInv, TouchedInv
  <2>7. MarkerInv'
    BY <2>1 DEF IInv, MarkerInv
  <2>8. RecoveryInv'
    BY <2>1 DEF IInv, RecoveryInv
  <2>9. WatchInv'
    BY <2>1 DEF IInv, WatchInv, LockInv
  <2> QED BY <2>2, <2>3, <2>4, <2>5, <2>6, <2>7, <2>8, <2>9 DEF IInv
<1>2. CASE rmark # None /\ seen.marker # rmark
  BY <1>2, RecoveryStopKeeps DEF RecoveryClears
<1>3. CASE rmark # None /\ seen.marker = rmark
  <2>1. /\ OnlyMarkers /\ seen.marker = rrec
        /\ seen'.marker = None /\ disk'.marker \in {disk.marker, rrec}
        /\ rpc = "clear" /\ rpc' = "unlinked" /\ UNCHANGED <<rmark, rrec, locks>>
        /\ UNCHANGED <<pkgs, touched, engine, watch>>
    <3>1. /\ OnlyMarkers /\ seen.marker = rrec
          /\ seen'.marker = None /\ disk'.marker \in {disk.marker, rrec}
      <4>1. seen \in FileType /\ disk \in FileType /\ rmark = rrec /\ rrec \in Txns
        BY <1>3 DEF RecoveryClears, IInv, Typed, LockInv
      <4>2. seen' = [seen EXCEPT !.marker = None, !.alias = None]
        BY <1>3 DEF RecoveryClears
      <4>3. disk' \in {[disk EXCEPT !.alias = None, !.marker = rmark], [disk EXCEPT !.alias = None, !.marker = disk.marker]}
        BY <1>3 DEF RecoveryClears
      <4>4. seen' \in FileType /\ seen'.place = seen.place /\ seen'.jr = seen.jr
        BY <4>1, <4>2 DEF FileType
      <4>5. disk' \in FileType /\ disk'.place = disk.place /\ disk'.jr = disk.jr
        <5>1. PICK m \in {rmark, disk.marker} :
                disk' = [[disk EXCEPT !.alias = None] EXCEPT !.marker = m]
          BY <4>3
        <5>2. m \in Txns \cup {None, Foreign} /\ [disk EXCEPT !.alias = None] \in FileType
          BY <4>1, AliasTyped DEF FileType
        <5>3. disk' \in FileType
          BY <5>1, <5>2, MarkerTyped
        <5> QED BY <4>1, <5>1, <5>3 DEF FileType
      <4> QED BY <1>3, <4>1, <4>2, <4>3, <4>4, <4>5 DEF OnlyMarkers, FileType
    <3>2. /\ rpc = "clear" /\ rpc' = "unlinked" /\ UNCHANGED <<rmark, rrec, locks>>
          /\ UNCHANGED <<pkgs, touched, engine, watch>>
      BY <1>3 DEF RecoveryClears
    <3> QED BY <3>1, <3>2
  <2>2. Typed'
    BY <2>1 DEF IInv, Typed, OnlyMarkers
  <2>3. LockInv'
    BY <2>1 DEF IInv, LockInv
  <2>4. EngineInv'
    BY <2>1 DEF IInv, EngineInv, LockInv, Late
  <2>5. MutationInv'
    BY <2>1 DEF IInv, MutationInv, Mutating, OnlyMarkers
  <2>6. TouchedInv'
    BY <2>1 DEF IInv, TouchedInv, OnlyMarkers
  <2>7. MarkerInv'
    BY <2>1 DEF IInv, MarkerInv, OnlyMarkers
  <2>8. RecoveryInv'
    BY <2>1 DEF IInv, RecoveryInv, LockInv, MarkerInv, OnlyMarkers
  <2>9. WatchInv'
    BY <2>1 DEF IInv, WatchInv, LockInv
  <2> QED BY <2>2, <2>3, <2>4, <2>5, <2>6, <2>7, <2>8, <2>9 DEF IInv
<1> QED BY <1>1, <1>2, <1>3

LEMMA RecoveryClearSyncKeeps == ASSUME IInv, RecoveryClearSync PROVE IInv'
<1>1. /\ OnlyMarkers
      /\ seen'.marker = seen.marker /\ disk'.marker = seen.marker
      /\ rpc = "unlinked" /\ rpc' = "settle" /\ UNCHANGED <<rmark, rrec, locks>>
      /\ UNCHANGED <<pkgs, touched, engine, watch>>
  <2>1. /\ OnlyMarkers
        /\ seen'.marker = seen.marker /\ disk'.marker = seen.marker
    <3>1. seen \in FileType /\ disk \in FileType /\ rrec \in Txns
      BY DEF RecoveryClearSync, IInv, Typed, LockInv
    <3>2. seen' = seen
      BY DEF RecoveryClearSync
    <3>3. disk' = [disk EXCEPT !.marker = seen.marker]
      BY DEF RecoveryClearSync
    <3>4. seen' \in FileType /\ seen'.place = seen.place /\ seen'.jr = seen.jr
      BY <3>1, <3>2 DEF FileType
    <3>5. disk' \in FileType /\ disk'.place = disk.place /\ disk'.jr = disk.jr
      BY <3>1, <3>3, <3>4 DEF FileType
    <3> QED BY <3>1, <3>2, <3>3, <3>4, <3>5 DEF OnlyMarkers
  <2>2. /\ rpc = "unlinked" /\ rpc' = "settle" /\ UNCHANGED <<rmark, rrec, locks>>
        /\ UNCHANGED <<pkgs, touched, engine, watch>>
    BY DEF RecoveryClearSync
  <2> QED BY <2>1, <2>2
<1>2. Typed'
  BY <1>1 DEF IInv, Typed, RecoveryPhase, OnlyMarkers
<1>3. LockInv'
  BY <1>1 DEF IInv, LockInv
<1>4. EngineInv'
  BY <1>1 DEF IInv, EngineInv, LockInv, OnlyMarkers
<1>5. MutationInv'
  BY <1>1 DEF IInv, MutationInv, Mutating, OnlyMarkers
<1>6. TouchedInv'
  BY <1>1 DEF IInv, TouchedInv, OnlyMarkers
<1>7. MarkerInv'
  BY <1>1 DEF IInv, MarkerInv, OnlyMarkers
<1>8. RecoveryInv'
  BY <1>1 DEF IInv, RecoveryInv, OnlyMarkers
<1>9. WatchInv'
  BY <1>1 DEF IInv, WatchInv, LockInv
<1> QED BY <1>2, <1>3, <1>4, <1>5, <1>6, <1>7, <1>8, <1>9 DEF IInv

LEMMA RecoveryClearFailsKeeps == ASSUME IInv, RecoveryClearFails PROVE IInv'
<1>1. /\ OnlyMarkers
      /\ seen'.marker \in {seen.marker, rrec} /\ disk'.marker \in {disk.marker, seen.marker, rrec}
      /\ rpc = "unlinked" /\ rpc' = "idle" /\ rmark' = None /\ rrec' = None /\ Release("recovery")
      /\ UNCHANGED <<pkgs, touched, engine, watch>>
  <2>1. /\ OnlyMarkers
        /\ seen'.marker \in {seen.marker, rrec} /\ disk'.marker \in {disk.marker, seen.marker, rrec}
    <3>1. seen \in FileType /\ disk \in FileType /\ rrec \in Txns
      BY DEF RecoveryClearFails, IInv, Typed, LockInv
    <3>2. seen' \in {seen, [seen EXCEPT !.marker = rrec]}
      BY DEF RecoveryClearFails, Remarked
    <3>3. disk' \in {disk, [disk EXCEPT !.marker = seen'.marker]}
      BY DEF RecoveryClearFails
    <3>4. seen' \in FileType /\ seen'.place = seen.place /\ seen'.jr = seen.jr
      BY <3>1, <3>2 DEF FileType
    <3>5. disk' \in FileType /\ disk'.place = disk.place /\ disk'.jr = disk.jr
      BY <3>1, <3>3, <3>4 DEF FileType
    <3> QED BY <3>1, <3>2, <3>3, <3>4, <3>5 DEF OnlyMarkers, FileType
  <2>2. /\ rpc = "unlinked" /\ rpc' = "idle" /\ rmark' = None /\ rrec' = None /\ Release("recovery")
        /\ UNCHANGED <<pkgs, touched, engine, watch>>
    BY DEF RecoveryClearFails, RecoveryEnds
  <2> QED BY <2>1, <2>2
<1>2. Typed'
  BY <1>1 DEF IInv, Typed, OnlyMarkers
<1>3. LockInv'
  BY <1>1 DEF IInv, LockInv
<1>4. EngineInv'
  BY <1>1 DEF IInv, EngineInv, LockInv, Late
<1>5. MutationInv'
  BY <1>1 DEF IInv, MutationInv, Mutating, OnlyMarkers
<1>6. TouchedInv'
  BY <1>1 DEF IInv, TouchedInv, OnlyMarkers
<1>7. MarkerInv'
  BY <1>1 DEF IInv, MarkerInv, RecoveryInv, MarkedPhases, OnlyMarkers
<1>8. RecoveryInv'
  BY <1>1 DEF RecoveryInv
<1>9. WatchInv'
  BY <1>1 DEF IInv, WatchInv, LockInv
<1> QED BY <1>2, <1>3, <1>4, <1>5, <1>6, <1>7, <1>8, <1>9 DEF IInv

LEMMA RecoveryKilledKeeps == ASSUME IInv, RecoveryKilled PROVE IInv'
<1> USE DEF IInv, RecoveryKilled, RecoveryEnds, Release
<1>1. Typed'
  BY DEF Typed
<1>2. LockInv'
  BY DEF LockInv
<1>3. EngineInv'
  BY DEF EngineInv
<1>4. MutationInv'
  BY DEF MutationInv, Mutating
<1>5. TouchedInv'
  BY DEF TouchedInv
<1>6. MarkerInv'
  BY DEF MarkerInv
<1>7. RecoveryInv'
  BY DEF RecoveryInv
<1>8. WatchInv'
  BY DEF WatchInv, LockInv
<1> QED BY <1>1, <1>2, <1>3, <1>4, <1>5, <1>6, <1>7, <1>8

-----------------------------------------------------------------------------
\* update_watchdog.py, the worker, the packages and the power.
LEMMA WatchUnitKeeps == ASSUME IInv, WatchUnit PROVE IInv'
<1> USE DEF IInv, WatchUnit, Reports
<1>1. Typed'
  BY DEF Typed
<1>2. LockInv'
  BY DEF LockInv
<1>3. EngineInv'
  BY DEF EngineInv
<1>4. MutationInv'
  BY DEF MutationInv, Mutating
<1>5. TouchedInv'
  BY DEF TouchedInv
<1>6. MarkerInv'
  BY DEF MarkerInv
<1>7. RecoveryInv'
  BY DEF RecoveryInv
<1>8. WatchInv'
  BY DEF WatchInv
<1> QED BY <1>1, <1>2, <1>3, <1>4, <1>5, <1>6, <1>7, <1>8

LEMMA WatchMarkerKeeps == ASSUME IInv, WatchMarker PROVE IInv'
<1> USE DEF IInv, WatchMarker, Reports
<1>1. Typed'
  BY DEF Typed
<1>2. LockInv'
  BY DEF LockInv
<1>3. EngineInv'
  BY DEF EngineInv
<1>4. MutationInv'
  BY DEF MutationInv, Mutating
<1>5. TouchedInv'
  BY DEF TouchedInv
<1>6. MarkerInv'
  BY DEF MarkerInv
<1>7. RecoveryInv'
  BY DEF RecoveryInv
<1>8. WatchInv'
  BY DEF WatchInv
<1> QED BY <1>1, <1>2, <1>3, <1>4, <1>5, <1>6, <1>7, <1>8

LEMMA WatchRecordsKeeps == ASSUME IInv, WatchRecords PROVE IInv'
<1> USE DEF IInv, WatchRecords, Unresolved, Active, Terminal
<1>1. Typed'
  BY DEF Typed
<1>2. LockInv'
  BY DEF LockInv
<1>3. EngineInv'
  BY DEF EngineInv
<1>4. MutationInv'
  BY DEF MutationInv, Mutating
<1>5. TouchedInv'
  BY DEF TouchedInv
<1>6. MarkerInv'
  BY DEF MarkerInv
<1>7. RecoveryInv'
  BY DEF RecoveryInv
<1>8. WatchInv'
  BY DEF WatchInv, Quiet
<1> QED BY <1>1, <1>2, <1>3, <1>4, <1>5, <1>6, <1>7, <1>8

LEMMA WatchEvaluatesKeeps == ASSUME IInv, WatchEvaluates PROVE IInv'
<1> USE DEF IInv, WatchEvaluates, Reports, SafePhases
<1>1. Typed'
  BY DEF Typed
<1>2. LockInv'
  BY DEF LockInv
<1>3. EngineInv'
  BY DEF EngineInv
<1>4. MutationInv'
  BY DEF MutationInv, Mutating
<1>5. TouchedInv'
  BY DEF TouchedInv
<1>6. MarkerInv'
  BY DEF MarkerInv
<1>7. RecoveryInv'
  BY DEF RecoveryInv
<1>8. WatchInv'
  BY DEF WatchInv
<1> QED BY <1>1, <1>2, <1>3, <1>4, <1>5, <1>6, <1>7, <1>8

LEMMA WorkerStartsKeeps == ASSUME IInv, WorkerStarts PROVE IInv'
<1> USE DEF IInv, WorkerStarts
<1>1. Typed'
  BY DEF Typed
<1>2. LockInv'
  BY DEF LockInv
<1>3. EngineInv'
  BY DEF EngineInv
<1>4. MutationInv'
  BY DEF MutationInv, Mutating
<1>5. TouchedInv'
  BY DEF TouchedInv
<1>6. MarkerInv'
  BY DEF MarkerInv
<1>7. RecoveryInv'
  BY DEF RecoveryInv
<1>8. WatchInv'
  BY DEF WatchInv, Quiet
<1> QED BY <1>1, <1>2, <1>3, <1>4, <1>5, <1>6, <1>7, <1>8

LEMMA WorkerEndsKeeps == ASSUME IInv, WorkerEnds PROVE IInv'
<1> USE DEF IInv, WorkerEnds
<1>1. Typed'
  BY DEF Typed
<1>2. LockInv'
  BY DEF LockInv
<1>3. EngineInv'
  BY DEF EngineInv
<1>4. MutationInv'
  BY DEF MutationInv, Mutating
<1>5. TouchedInv'
  BY DEF TouchedInv
<1>6. MarkerInv'
  BY DEF MarkerInv
<1>7. RecoveryInv'
  BY DEF RecoveryInv
<1>8. WatchInv'
  BY DEF WatchInv, Quiet
<1> QED BY <1>1, <1>2, <1>3, <1>4, <1>5, <1>6, <1>7, <1>8

LEMMA ForeignMarksKeeps == ASSUME IInv, ForeignMarks PROVE IInv'
<1> USE DEF IInv, ForeignMarks
<1>1. Typed'
  <2>1. seen \in FileType /\ disk \in FileType
    BY DEF Typed
  <2>2. seen' = [seen EXCEPT !.marker = Foreign]
    OBVIOUS
  <2>3. disk' = [disk EXCEPT !.marker = Foreign]
    OBVIOUS
  <2>4. seen' \in FileType
    BY <2>1, <2>2 DEF FileType
  <2>5. disk' \in FileType
    BY <2>1, <2>2, <2>3, <2>4 DEF FileType
  <2> QED BY <2>4, <2>5 DEF Typed
<1>2. LockInv'
  BY DEF LockInv
<1>3. EngineInv'
  BY DEF EngineInv, LockInv, Late, Unresolved, Active
<1>4. MutationInv'
  BY DEF MutationInv, Mutating
<1>5. TouchedInv'
  BY DEF TouchedInv
<1>6. MarkerInv'
  BY DEF MarkerInv
<1>7. RecoveryInv'
  BY DEF RecoveryInv
<1>8. WatchInv'
  BY DEF WatchInv, Quiet, Unresolved, Active
<1> QED BY <1>1, <1>2, <1>3, <1>4, <1>5, <1>6, <1>7, <1>8

LEMMA ForeignUnmarksKeeps == ASSUME IInv, ForeignUnmarks PROVE IInv'
<1> USE DEF IInv, ForeignUnmarks
<1>1. Typed'
  <2>1. seen \in FileType /\ disk \in FileType
    BY DEF Typed
  <2>2. seen' = [seen EXCEPT !.marker = None]
    OBVIOUS
  <2>3. disk' = [disk EXCEPT !.marker = None]
    OBVIOUS
  <2>4. seen' \in FileType
    BY <2>1, <2>2 DEF FileType
  <2>5. disk' \in FileType
    BY <2>1, <2>2, <2>3, <2>4 DEF FileType
  <2> QED BY <2>4, <2>5 DEF Typed
<1>2. LockInv'
  BY DEF LockInv
<1>3. EngineInv'
  BY DEF EngineInv, Typed, Unresolved, Active
<1>4. MutationInv'
  BY DEF MutationInv, Mutating
<1>5. TouchedInv'
  BY DEF TouchedInv
<1>6. MarkerInv'
  BY DEF MarkerInv
<1>7. RecoveryInv'
  BY DEF RecoveryInv
<1>8. WatchInv'
  BY DEF WatchInv, Quiet, Unresolved, Active
<1> QED BY <1>1, <1>2, <1>3, <1>4, <1>5, <1>6, <1>7, <1>8

LEMMA OtherPackagesKeeps == ASSUME IInv, OtherPackages PROVE IInv'
<1> USE DEF IInv, OtherPackages
<1>1. Typed'
  BY DEF Typed
<1>2. LockInv'
  BY DEF LockInv
<1>3. EngineInv'
  BY DEF EngineInv
<1>4. MutationInv'
  BY DEF MutationInv, Mutating
<1>5. TouchedInv'
  BY DEF TouchedInv
<1>6. MarkerInv'
  BY DEF MarkerInv
<1>7. RecoveryInv'
  BY DEF RecoveryInv
<1>8. WatchInv'
  BY DEF WatchInv, Quiet
<1> QED BY <1>1, <1>2, <1>3, <1>4, <1>5, <1>6, <1>7, <1>8

LEMMA OfferKeeps == ASSUME NEW v \in Releases, IInv, Offer(v) PROVE IInv'
<1> USE DEF IInv, Offer
<1>1. Typed'
  BY DEF Typed
<1>2. LockInv'
  BY DEF LockInv
<1>3. EngineInv'
  BY DEF EngineInv
<1>4. MutationInv'
  BY DEF MutationInv, Mutating
<1>5. TouchedInv'
  BY DEF TouchedInv
<1>6. MarkerInv'
  BY DEF MarkerInv
<1>7. RecoveryInv'
  BY DEF RecoveryInv
<1>8. WatchInv'
  BY DEF WatchInv, Quiet
<1> QED BY <1>1, <1>2, <1>3, <1>4, <1>5, <1>6, <1>7, <1>8

LEMMA HealKeeps == ASSUME IInv, Heal PROVE IInv'
<1> USE DEF IInv, Heal
<1>1. Typed'
  BY DEF Typed
<1>2. LockInv'
  BY DEF LockInv
<1>3. EngineInv'
  BY DEF EngineInv
<1>4. MutationInv'
  BY DEF MutationInv, Mutating
<1>5. TouchedInv'
  BY DEF TouchedInv
<1>6. MarkerInv'
  BY DEF MarkerInv
<1>7. RecoveryInv'
  BY DEF RecoveryInv
<1>8. WatchInv'
  BY DEF WatchInv, Quiet
<1> QED BY <1>1, <1>2, <1>3, <1>4, <1>5, <1>6, <1>7, <1>8

LEMMA PowerFailsKeeps == ASSUME IInv, PowerFails PROVE IInv'
<1>1. /\ seen' \in FileType /\ disk' = seen' /\ Survived(seen')
      /\ pc' = "idle" /\ txn' = None /\ unit' = [active |-> "inactive", exit |-> 0]
      /\ rpc' = "idle" /\ rmark' = None /\ rrec' = None
      /\ wpc' = "idle" /\ wmark' = None /\ wrecs' = {} /\ verdict' = "none"
      /\ updaterLock' = None /\ fence' = None /\ dpkgLock' = None
      /\ UNCHANGED <<pkgs, touched>>
  <2>1. /\ seen' \in FileType /\ disk' = seen' /\ Survived(seen')
    <3>1. seen \in FileType /\ disk \in FileType
      BY DEF IInv, Typed
    <3>2. seen' \in Survivors /\ disk' = seen'
      BY DEF PowerFails
    <3> QED BY <3>1, <3>2, SurvivorsAre DEF Survived
  <2>2. /\ pc' = "idle" /\ txn' = None /\ unit' = [active |-> "inactive", exit |-> 0]
        /\ rpc' = "idle" /\ rmark' = None /\ rrec' = None
        /\ wpc' = "idle" /\ wmark' = None /\ wrecs' = {} /\ verdict' = "none"
        /\ updaterLock' = None /\ fence' = None /\ dpkgLock' = None
        /\ UNCHANGED <<pkgs, touched>>
    BY DEF PowerFails
  <2> QED BY <2>1, <2>2
<1>2. Typed'
  BY <1>1 DEF IInv, Typed, EngineSteps
<1>3. LockInv'
  BY <1>1 DEF LockInv
<1>4. EngineInv'
  BY <1>1 DEF EngineInv, Late
<1>5. MutationInv'
  <2>1. ASSUME NEW t \in Txns, Mutating(t)'
        PROVE  /\ seen'.marker = t /\ seen'.place[t] = "active"
               /\ seen'.jr[t].phase \in {"mutation_pending", "verified"}
    <3>1. Mutating(t)
      BY <1>1, <2>1 DEF Mutating, Survived
    <3>2. /\ seen.marker = t /\ disk.marker = t
          /\ seen.place[t] = "active" /\ disk.place[t] = "active"
      BY <3>1 DEF IInv, MutationInv
    <3>3. seen'.jr[t].phase = "mutation_pending"
      BY <1>1, <2>1 DEF Mutating
    <3> QED BY <1>1, <3>2, <3>3 DEF Survived
  <2> QED BY <1>1, <2>1, NamesAssumption DEF MutationInv
<1>6. TouchedInv'
  BY <1>1 DEF IInv, TouchedInv, Typed, Survived
<1>7. MarkerInv'
  BY <1>1 DEF IInv, MarkerInv, Survived
<1>8. RecoveryInv'
  BY <1>1 DEF RecoveryInv
<1>9. WatchInv'
  BY <1>1 DEF WatchInv
<1> QED BY <1>2, <1>3, <1>4, <1>5, <1>6, <1>7, <1>8, <1>9 DEF IInv
-----------------------------------------------------------------------------
\* A host without transactions.
LEMMA InitKeeps == Init => IInv
<1> SUFFICES ASSUME Init PROVE IInv
  OBVIOUS
<1>1. /\ seen.marker = None /\ disk = seen /\ seen.jr = [t \in Txns |-> NoRecord]
      /\ seen.place = [t \in Txns |-> "none"]
  BY DEF Init
<1>2. NoRecord \in JournalRecord /\ NoRecord.phase = "none"
  BY DEF NoRecord, JournalRecord
<1>3. seen \in FileType
  BY <1>2 DEF Init, FileType, Places
<1>4. Typed
  BY <1>1, <1>3 DEF Init, Typed, EngineSteps
<1>5. Unresolved(seen) = {}
  BY <1>1 DEF Unresolved, Active
<1>6. LockInv /\ EngineInv /\ RecoveryInv
  BY <1>5 DEF Init, LockInv, EngineInv, RecoveryInv, Late
<1>7. MutationInv /\ TouchedInv /\ MarkerInv
  BY <1>1, <1>2 DEF Init, MutationInv, Mutating, TouchedInv, MarkerInv
<1>8. WatchInv
  BY <1>1, <1>5 DEF Init, WatchInv
<1> QED BY <1>4, <1>6, <1>7, <1>8 DEF IInv

\* A state that is left alone.
LEMMA StutterKeeps == ASSUME IInv, UNCHANGED vars PROVE IInv'
<1> USE DEF vars, IInv
<1>1. Typed'
  BY DEF Typed
<1>2. LockInv' /\ RecoveryInv'
  BY DEF LockInv, RecoveryInv
<1>3. EngineInv'
  BY DEF EngineInv
<1>4. MutationInv' /\ TouchedInv' /\ MarkerInv'
  BY DEF MutationInv, Mutating, TouchedInv, MarkerInv
<1>5. WatchInv'
  BY DEF WatchInv, Quiet
<1> QED BY <1>1, <1>2, <1>3, <1>4, <1>5

\* One step of anybody.
LEMMA StepKeeps == IInv /\ [Next]_vars => IInv'
<1> SUFFICES ASSUME IInv, [Next]_vars PROVE IInv'
  OBVIOUS
<1>1. CASE Engine
  BY <1>1, EngineStartKeeps, EngineRefusedKeeps, EngineReviewKeeps, EnginePurgeKeeps,
     EngineRetireKeeps, EngineRetireSyncKeeps, EnginePreflightKeeps, EngineStageKeeps,
     EngineDefersKeeps, EngineFenceKeeps, EnginePublishKeeps, EnginePublishSyncKeeps,
     EngineAdvancesKeeps, EngineLinkKeeps, EngineLinkSyncKeeps, EngineLinkFailsKeeps,
     EngineDpkgStartsKeeps, EngineDpkgEndsKeeps, EngineChecksKeeps, EngineClearKeeps,
     EngineClearSyncKeeps, EngineClearFailsKeeps, EngineStopsKeeps
    DEF Engine
<1>2. CASE Recovery
  BY <1>2, RecoveryStartKeeps, RecoveryAuthorizesKeeps, RecoveryAdvancesKeeps,
     RecoveryClearsKeeps, RecoveryClearSyncKeeps, RecoveryClearFailsKeeps,
     RecoveryKilledKeeps
    DEF Recovery
<1>3. CASE Watchdog
  BY <1>3, WatchUnitKeeps, WatchMarkerKeeps, WatchRecordsKeeps, WatchEvaluatesKeeps
    DEF Watchdog
<1>4. CASE Host
  BY <1>4, WorkerStartsKeeps, WorkerEndsKeeps, ForeignMarksKeeps, ForeignUnmarksKeeps,
     OtherPackagesKeeps, OfferKeeps, HealKeeps, PowerFailsKeeps
    DEF Host
<1>5. CASE UNCHANGED vars
  BY <1>5, StutterKeeps
<1> QED BY <1>1, <1>2, <1>3, <1>4, <1>5 DEF Next

(* The inductive invariant: the lock holders, what the engine and the        *)
(* recovery have done at each step, in memory and on disk, and what a marker *)
(* and a journal at mutation_pending imply in both.                          *)
THEOREM Inductive == Spec => []IInv
<1>1. Init => IInv
  BY InitKeeps
<1>2. IInv /\ [Next]_vars => IInv'
  BY StepKeeps
<1> QED BY <1>1, <1>2, PTL DEF Spec

\* Every outcome of a power failure now is such a mixture.
LEMMA OutcomesAre == ASSUME IInv, NEW f \in Outcomes PROVE Survived(f)
<1>1. seen \in FileType /\ disk \in FileType
  BY DEF IInv, Typed
<1>2. CASE f = seen
  BY <1>1, <1>2 DEF Survived
<1>3. CASE f \in Survivors
  BY <1>1, <1>3, SurvivorsAre
<1> QED BY <1>2, <1>3 DEF Outcomes

\* The invariant has what the fence promises.
LEMMA FencedNow == IInv => UnfinishedChangeIsFenced
<1> SUFFICES ASSUME IInv PROVE UnfinishedChangeIsFenced
  OBVIOUS
<1>1. ASSUME NEW t \in touched, seen.jr[t].phase = "mutation_pending"
      PROVE  /\ fence # "worker"
             /\ \A f \in Outcomes : /\ f.marker = t
                                    /\ f.place[t] = "active"
                                    /\ f.jr[t].phase = "mutation_pending"
  <2>1. t \in Txns /\ disk.jr[t].phase = "mutation_pending"
    BY <1>1 DEF IInv, Typed, TouchedInv
  <2>2. /\ fence # "worker" /\ seen.marker = t /\ disk.marker = t
        /\ seen.place[t] = "active" /\ disk.place[t] = "active"
    BY <1>1, <2>1 DEF IInv, MutationInv, Mutating
  <2>3. ASSUME NEW f \in Outcomes
        PROVE  f.marker = t /\ f.place[t] = "active" /\ f.jr[t].phase = "mutation_pending"
    <3>1. Survived(f)
      BY <2>3, OutcomesAre
    <3> QED BY <1>1, <2>1, <2>2, <3>1 DEF Survived
  <2> QED BY <2>2, <2>3
<1>2. ~pkgs.whole => \E t \in touched : seen.jr[t].phase = "mutation_pending"
  BY DEF IInv, TouchedInv
<1> QED BY <1>1, <1>2 DEF UnfinishedChangeIsFenced

(* From dpkg's first write until its result is verified, the transaction is   *)
(* fenced, whatever a power failure leaves (engine.py).                        *)
THEOREM ChangesAreFenced == Spec => []UnfinishedChangeIsFenced
<1>1. Spec => []IInv
  BY Inductive
<1>2. IInv => UnfinishedChangeIsFenced
  BY FencedNow
<1> QED BY <1>1, <1>2, PTL

\* The invariant has what a marker stands for.
LEMMA ExplainedNow == IInv => MarkerHasItsJournal
<1> SUFFICES ASSUME IInv, NEW f \in Outcomes, f.marker \in Txns
             PROVE  \/ f.marker \in Unresolved(f) /\ f.jr[f.marker].phase # "prepared"
                    \/ f.jr[f.marker].phase = "pre_mutation_recovered"
  BY DEF MarkerHasItsJournal
<1> DEFINE t == f.marker
<1>1. Survived(f)
  BY OutcomesAre
<1>2. t \in {seen.marker, disk.marker}
  BY <1>1 DEF Survived
<1>3. /\ seen.place[t] = "active" /\ disk.place[t] = "active"
      /\ seen.jr[t].phase \in MarkedPhases /\ disk.jr[t].phase \in MarkedPhases
  BY <1>2 DEF IInv, MarkerInv
<1>4. f.place[t] = "active" /\ f.jr[t].phase \in MarkedPhases
  BY <1>1, <1>3 DEF Survived
<1> QED BY <1>4 DEF Unresolved, Active, Terminal, MarkedPhases

(* A marker the updater published is explained by its journal, whatever a     *)
(* power failure leaves (update_watchdog.py, evaluate).                       *)
THEOREM MarkersAreExplained == Spec => []MarkerHasItsJournal
<1>1. Spec => []IInv
  BY Inductive
<1>2. IInv => MarkerHasItsJournal
  BY ExplainedNow
<1> QED BY <1>1, <1>2, PTL

\* What the watchdog has read when it says idle.
LEMMA IdleVerdict ==
  Verdict = "idle" =>
    wrecs = {} /\ wmark = None /\ unit.active # "failed" /\ unit.exit # 2
<1> SUFFICES ASSUME Verdict = "idle"
             PROVE  wrecs = {} /\ wmark = None /\ unit.active # "failed" /\ unit.exit # 2
  OBVIOUS
<1> DEFINE many == Cardinality(wrecs) > 1
           stuck == \E t \in wrecs : ~Recoverable(t)
<1>1. Verdict =
        CASE many -> "multiple_unfinished"
          [] wmark # None /\ wrecs # {wmark} -> "marker_without_journal"
          [] stuck -> "manual_recovery"
          [] wrecs # {} -> "recovery_available"
          [] unit.active = "failed" -> "last_update_failed"
          [] unit.exit = 2 -> "deferred_for_review"
          [] OTHER -> "idle"
  BY DEF Verdict
<1> HIDE DEF many, stuck
<1> QED BY <1>1

\* Nobody else writes what the watchdog has read.
LEMMA OnlyTheWatchdog ==
  ASSUME Engine \/ Recovery PROVE UNCHANGED watch
<1>1. CASE Engine
  BY <1>1
    DEF Engine, EngineStart, EngineRefused, EngineReview, EnginePurge, EngineRetire,
        EngineRetireSync, EnginePreflight, EngineStage, EngineDefers, EngineFence,
        EnginePublish, EnginePublishSync, EngineAdvances, EngineLink, EngineLinkSync,
        EngineLinkFails, EngineDpkgStarts, EngineDpkgEnds, EngineChecks, EngineClear,
        EngineClearSync, EngineClearFails, EngineStops
<1>2. CASE Recovery
  BY <1>2
    DEF Recovery, RecoveryStart, RecoveryAuthorizes, RecoveryAdvances, RecoveryClears,
        RecoveryClearSync, RecoveryClearFails, RecoveryKilled
<1> QED BY <1>1, <1>2

(* The watchdog says idle only when nothing is left to do, although it reads  *)
(* the unit, the marker and the journals one after the other (check_once).    *)
THEOREM IdleMeansIdle == Spec => IdleIsTrue
<1> DEFINE A == verdict' = "idle" /\ wpc = "evaluate"
                  => Unresolved(seen) = {} /\ seen.marker \notin Txns
<1>1. IInv /\ [Next]_vars => [A]_vars
  <2> SUFFICES ASSUME IInv, Next, verdict' = "idle", wpc = "evaluate"
               PROVE  Unresolved(seen) = {} /\ seen.marker \notin Txns
    OBVIOUS
  <2>1. verdict = "none"
    BY DEF IInv, WatchInv
  <2>2. WatchEvaluates
    <3>1. CASE Engine \/ Recovery
      BY <2>1, <3>1, OnlyTheWatchdog
    <3>2. CASE Watchdog
      BY <3>2 DEF Watchdog, WatchUnit, WatchMarker, WatchRecords
    <3>3. CASE Host
      BY <2>1, <3>3
        DEF Host, WorkerStarts, WorkerEnds, ForeignMarks, ForeignUnmarks, OtherPackages,
            Heal, Offer, PowerFails
    <3> QED BY <3>1, <3>2, <3>3 DEF Next
  <2>3. unit.active # "active" /\ Verdict = "idle"
    BY <2>2 DEF WatchEvaluates, Reports
  <2>4. wrecs = {} /\ wmark = None /\ Quiet
    BY <2>3, IdleVerdict DEF Quiet
  <2> QED BY <2>4 DEF IInv, WatchInv
<1>2. Spec => []IInv
  BY Inductive
<1>3. Spec => [][Next]_vars
  BY DEF Spec
<1> QED BY <1>1, <1>2, <1>3, PTL DEF IdleIsTrue

-----------------------------------------------------------------------------
(* What a rollback needs: the artifacts of a changed transaction, reachable *)
(* whatever a power failure leaves.                                         *)
Solid(u) ==
  seen.place[u] = "active" /\ disk.place[u] = "active" /\ u \in touched /\ seen.art[u]
NewerSolid(t) == {u \in touched : u > t /\ Solid(u)}

(* A completed update that some outcome finds retired or without artifacts. *)
Lost(t) ==
  /\ "completed" \in {seen.jr[t].phase, disk.jr[t].phase}
  /\ "retired" \in {seen.place[t], disk.place[t]} \/ ~seen.art[t]

(* A staged or published transaction has its artifacts, a verified one was  *)
(* touched by dpkg, and Keep newer ones stand for each completed one lost.  *)
InUse(t) == {"preflight", "active"} \cap {seen.place[t], disk.place[t]} # {}
Verified(t) ==
  {"verified", "unfence_intent", "completed"} \cap {seen.jr[t].phase, disk.jr[t].phase} # {}

RollbackInv ==
  /\ IsFiniteSet(touched)
  /\ pc \in {"clean", "purge"} => disk.place = seen.place
  /\ \A t \in Txns : InUse(t) => seen.art[t]
  /\ \A t \in Txns : Verified(t) => t \in touched
  /\ \A t \in Txns : Lost(t) => Cardinality(NewerSolid(t)) >= Keep

\* What the steps have in common: nothing becomes lost, what is solid stays so.
LEMMA StepSpares ==
  ASSUME RollbackInv, touched \subseteq Txns, touched \subseteq touched', IsFiniteSet(touched'),
         pc' \in {"clean", "purge"} => disk'.place = seen'.place,
         \A t \in Txns : InUse(t)' => seen'.art[t],
         \A t \in Txns : Verified(t)' => t \in touched',
         \A t \in Txns : Lost(t)' => Lost(t),
         \A u \in Txns : Solid(u) => Solid(u)'
  PROVE  RollbackInv'
<1>1. ASSUME NEW t \in Txns, Lost(t)' PROVE Cardinality(NewerSolid(t)') >= Keep
  <2>1. NewerSolid(t) \subseteq NewerSolid(t)' /\ NewerSolid(t)' \subseteq touched'
    BY DEF NewerSolid
  <2>2. IsFiniteSet(NewerSolid(t)')
    BY <2>1, FS_Subset
  <2>3. /\ Cardinality(NewerSolid(t)) <= Cardinality(NewerSolid(t)')
        /\ IsFiniteSet(NewerSolid(t))
    BY <2>1, <2>2, FS_Subset
  <2>4. Cardinality(NewerSolid(t)) \in Nat /\ Cardinality(NewerSolid(t)') \in Nat
    BY <2>2, <2>3, FS_CardinalityType
  <2>5. Cardinality(NewerSolid(t)) >= Keep
    BY <1>1 DEF RollbackInv
  <2> QED BY <2>3, <2>4, <2>5, KeepAssumption
<1> QED BY <1>1 DEF RollbackInv

\* Steps that leave directories, journals and artifacts alone.
SameFiles ==
  /\ seen'.place = seen.place /\ seen'.jr = seen.jr /\ seen'.art = seen.art
  /\ disk'.place = disk.place /\ disk'.jr = disk.jr
  /\ pc' \in {"clean", "purge"} => pc \in {"clean", "purge"}

LEMMA SameFilesSpares ==
  ASSUME RollbackInv, touched \subseteq Txns, SameFiles, UNCHANGED touched PROVE RollbackInv'
<1>1. \A t \in Txns : /\ InUse(t)' <=> InUse(t)
                      /\ Verified(t)' <=> Verified(t)
                      /\ Lost(t)' <=> Lost(t)
                      /\ Solid(t)' <=> Solid(t)
  BY DEF SameFiles, InUse, Verified, Lost, Solid
<1> QED BY <1>1, StepSpares DEF RollbackInv, SameFiles

\* The journal of t says next, now or on both sides; nothing else changes.
LEMMA RewrittenSpares ==
  ASSUME RollbackInv, touched \subseteq Txns, UNCHANGED touched, NEW t \in Txns, Rewritten(t),
         seen'.art = seen.art, pc' \notin {"clean", "purge"},
         Verified(t)' => t \in touched,
         Lost(t)' => Lost(t)
  PROVE  RollbackInv'
<1>1. \A u \in Txns : (InUse(u)' <=> InUse(u)) /\ (Solid(u)' <=> Solid(u))
  BY DEF Rewritten, InUse, Solid
<1>2. \A u \in Txns \ {t} : (Verified(u)' <=> Verified(u)) /\ (Lost(u)' <=> Lost(u))
  BY DEF Rewritten, Verified, Lost
<1> QED BY <1>1, <1>2, StepSpares DEF RollbackInv

\* The names of the journals are synchronised.
LEMMA NamesSpares ==
  ASSUME RollbackInv, touched \subseteq Txns, UNCHANGED <<seen, touched>>,
         disk'.place = seen.place, disk'.jr = disk.jr
  PROVE  RollbackInv'
<1>1. \A t \in Txns : /\ InUse(t)' => InUse(t)
                      /\ Verified(t)' <=> Verified(t)
                      /\ Lost(t)' => Lost(t)
                      /\ Solid(t) => Solid(t)'
  BY DEF InUse, Verified, Lost, Solid
<1> QED BY <1>1, StepSpares DEF RollbackInv

\* An end, a refusal or a death leaves the files alone.
LEMMA IdleSpares ==
  ASSUME RollbackInv, touched \subseteq Txns, UNCHANGED <<files, touched>>,
         pc' \in {"clean", "purge"} => pc \in {"clean", "purge"}
  PROVE  RollbackInv'
<1>1. SameFiles
  BY DEF SameFiles
<1> QED BY <1>1, SameFilesSpares

\* A journal that may be advanced is not the first to be verified or completed.
LEMMA EngineAdvancesSpares == ASSUME IInv, RollbackInv, EngineAdvances PROVE RollbackInv'
<1>1. /\ seen \in FileType /\ disk \in FileType /\ txn \in Txns /\ touched \subseteq Txns
      /\ pc \in DOMAIN StepAfter /\ pc \in Phases
  BY DEF EngineAdvances, StepAfter, IInv, Typed, LockInv, Phases, NextPhases
<1>2. UNCHANGED touched /\ pc' \notin {"clean", "purge"}
  BY DEF EngineAdvances, Goto, Ends, StepAfter
<1>3. seen.place[txn] = "active" /\ disk.place[txn] = "active" /\ seen.art[txn]
  BY <1>1 DEF IInv, EngineInv, RollbackInv, InUse, StepAfter
<1>4. PICK t \in Txns : t = txn
  BY <1>1
<1>5. /\ Rewritten(t) /\ seen'.art = seen.art
      /\ seen'.jr[t].phase \in {seen.jr[t].phase, pc}
      /\ disk'.jr[t].phase \in {disk.jr[t].phase, pc}
  <2>1. CASE AdvanceDone(t, pc)
    <3>1. seen'.art = seen.art
      BY <1>1, <1>4, <2>1 DEF AdvanceDone, Advanced, FileType
    <3> QED BY <1>1, <1>4, <2>1, <3>1, AdvanceWrites
  <2>2. CASE AdvanceUnsure(t, pc)
    <3>1. seen'.art = seen.art
      BY <1>1, <1>4, <2>2 DEF AdvanceUnsure, Advanced, FileType
    <3> QED BY <1>1, <1>4, <2>2, <3>1, AdvanceFails
  <2> QED BY <1>4, <2>1, <2>2 DEF EngineAdvances
<1>6. Verified(t)' => t \in touched
  <2>1. CASE pc \in {"verified", "unfence_intent", "completed"}
    BY <1>1, <1>4, <2>1 DEF IInv, EngineInv, RollbackInv, Verified
  <2>2. CASE pc \in {"fence_creating", "fenced", "mutation_pending"}
    BY <1>1, <1>4, <1>5, <2>2 DEF RollbackInv, Verified
  <2> QED BY <1>1, <1>4, <2>1, <2>2 DEF StepAfter
<1>7. ~Lost(t)'
  BY <1>3, <1>4, <1>5 DEF Rewritten, Lost
<1> QED BY <1>1, <1>2, <1>4, <1>5, <1>6, <1>7, RewrittenSpares

LEMMA RecoveryAdvancesSpares == ASSUME IInv, RollbackInv, RecoveryAdvances PROVE RollbackInv'
<1> DEFINE next == RecoveryPhase[rpc]
<1>1. /\ seen \in FileType /\ disk \in FileType /\ rrec \in Txns /\ touched \subseteq Txns
      /\ rpc \in DOMAIN RecoveryPhase /\ pc = "idle"
  BY DEF RecoveryAdvances, RecoveryPhase, IInv, Typed, LockInv
<1>2. next \in {"aborted", "pre_mutation_clear_intent", "pre_mutation_recovered"} /\ next \in Phases
  BY <1>1 DEF RecoveryPhase, Phases, NextPhases
<1> HIDE DEF next
<1>3. UNCHANGED touched /\ pc' \notin {"clean", "purge"}
  BY <1>1 DEF RecoveryAdvances
<1>4. PICK t \in Txns : t = rrec
  BY <1>1
<1>5. /\ Rewritten(t) /\ seen'.art = seen.art
      /\ seen'.jr[t].phase \in {seen.jr[t].phase, next}
      /\ disk'.jr[t].phase \in {disk.jr[t].phase, next}
  <2>1. CASE AdvanceDone(t, next)
    <3>1. seen'.art = seen.art
      BY <1>1, <1>4, <2>1 DEF AdvanceDone, Advanced, FileType
    <3> QED BY <1>1, <1>2, <1>4, <2>1, <3>1, AdvanceWrites
  <2>2. CASE AdvanceUnsure(t, next)
    <3>1. seen'.art = seen.art
      BY <1>1, <1>4, <2>2 DEF AdvanceUnsure, Advanced, FileType
    <3> QED BY <1>1, <1>2, <1>4, <2>2, <3>1, AdvanceFails
  <2> QED BY <1>4, <2>1, <2>2 DEF RecoveryAdvances, next
<1>6. (Verified(t)' => Verified(t)) /\ (Lost(t)' => Lost(t))
  BY <1>2, <1>5 DEF Verified, Lost, Rewritten
<1>7. Verified(t)' => t \in touched
  BY <1>1, <1>4, <1>6 DEF RollbackInv
<1> QED BY <1>1, <1>3, <1>4, <1>5, <1>6, <1>7, RewrittenSpares

\* Clean-up starts with the names synchronised.
LEMMA SyncsSpares ==
  ASSUME IInv, RollbackInv, EngineStart \/ RecoveryStart \/ EngineRetireSync \/ EnginePublishSync
  PROVE  RollbackInv'
<1>1. seen \in FileType /\ disk \in FileType /\ touched \subseteq Txns
  BY DEF IInv, Typed
<1>2. CASE EngineStart \/ EngineRetireSync
  <2>1. /\ disk' = [disk EXCEPT !.place = seen.place] /\ UNCHANGED <<seen, touched>>
    BY <1>2 DEF EngineStart, EngineRetireSync, NamesSynced
  <2>2. disk'.place = seen.place /\ disk'.jr = disk.jr
    BY <1>1, <2>1 DEF FileType
  <2> QED BY <1>1, <2>1, <2>2, NamesSpares
<1>3. CASE RecoveryStart
  <2>1. UNCHANGED <<seen, touched, pc>>
    BY <1>3 DEF RecoveryStart
  <2>2. CASE disk' = disk
    BY <1>1, <2>1, <2>2, IdleSpares
  <2>3. CASE disk' = [disk EXCEPT !.place = seen.place]
    <3>1. disk'.place = seen.place /\ disk'.jr = disk.jr
      BY <1>1, <2>3 DEF FileType
    <3> QED BY <1>1, <2>1, <3>1, NamesSpares
  <2> QED BY <1>3, <2>2, <2>3 DEF RecoveryStart, NamesSynced
<1>4. CASE EnginePublishSync
  <2>1. /\ disk' = [disk EXCEPT !.place[txn] = seen.place[txn]] /\ UNCHANGED <<seen, touched>>
        /\ pc' \notin {"clean", "purge"} /\ txn \in Txns /\ seen.place[txn] = "active"
    BY <1>4 DEF EnginePublishSync, Goto, IInv, EngineInv, LockInv
  <2>2. disk'.place = [disk.place EXCEPT ![txn] = "active"] /\ disk'.jr = disk.jr
    BY <1>1, <2>1 DEF FileType
  <2>3. \A t \in Txns : disk'.place[t] = IF t = txn THEN "active" ELSE disk.place[t]
    BY <1>1, <2>2 DEF FileType
  <2>4. \A t \in Txns : /\ InUse(t)' => InUse(t)
                        /\ Verified(t)' <=> Verified(t)
                        /\ Lost(t)' => Lost(t)
                        /\ Solid(t) => Solid(t)'
    BY <2>1, <2>2, <2>3 DEF InUse, Verified, Lost, Solid
  <2> QED BY <1>1, <2>1, <2>4, StepSpares DEF RollbackInv
<1> QED BY <1>2, <1>3, <1>4

\* A transaction is published with its artifacts, and touched before anything else.
LEMMA EnginePublishSpares == ASSUME IInv, RollbackInv, EnginePublish PROVE RollbackInv'
<1>1. /\ seen \in FileType /\ touched \subseteq Txns /\ txn \in Txns
      /\ seen.place[txn] = "preflight" /\ disk.place[txn] = "preflight"
      /\ UNCHANGED <<disk, touched>> /\ pc' \notin {"clean", "purge"}
  BY DEF IInv, Typed, LockInv, EngineInv, EnginePublish, Goto
<1>2. /\ seen'.place = [seen.place EXCEPT ![txn] = "active"]
      /\ seen'.jr = seen.jr /\ seen'.art = seen.art
  BY <1>1 DEF EnginePublish, FileType
<1>3. \A t \in Txns : seen'.place[t] = IF t = txn THEN "active" ELSE seen.place[t]
  BY <1>1, <1>2 DEF FileType
<1>4. \A t \in Txns : /\ InUse(t)' <=> InUse(t)
                      /\ Verified(t)' <=> Verified(t)
                      /\ Lost(t)' => Lost(t)
                      /\ Solid(t) => Solid(t)'
  BY <1>1, <1>2, <1>3 DEF InUse, Verified, Lost, Solid
<1> QED BY <1>1, <1>2, <1>4, StepSpares DEF RollbackInv

LEMMA EngineDpkgStartsSpares == ASSUME IInv, RollbackInv, EngineDpkgStarts PROVE RollbackInv'
<1>1. /\ touched \subseteq Txns /\ touched' = touched \cup {txn}
      /\ UNCHANGED files /\ pc' = "unpacking"
  BY DEF IInv, Typed, EngineDpkgStarts, Goto
<1>2. IsFiniteSet(touched')
  BY <1>1, FS_AddElement DEF RollbackInv
<1>3. \A t \in Txns : /\ InUse(t)' <=> InUse(t)
                      /\ Verified(t)' <=> Verified(t)
                      /\ Lost(t)' <=> Lost(t)
                      /\ Solid(t) => Solid(t)'
  BY <1>1 DEF InUse, Verified, Lost, Solid
<1> QED BY <1>1, <1>2, <1>3, StepSpares DEF RollbackInv

\* The journal is written before the directory gets its name.
LEMMA EngineFenceSpares == ASSUME IInv, RollbackInv, EngineFence PROVE RollbackInv'
<1>1. seen \in FileType /\ disk \in FileType /\ touched \subseteq Txns /\ txn \in Txns
  BY DEF IInv, Typed, LockInv, EngineFence
<1>2. CASE UNCHANGED files
  BY <1>1, <1>2, IdleSpares DEF EngineFence, Ends
<1>3. PICK t \in Txns : t = txn
  BY <1>1
<1>4. CASE ~UNCHANGED files
  <2> DEFINE r == [phase |-> "prepared", gen |-> 0]
  <2>1. /\ seen' = [seen EXCEPT !.jr[t] = r] /\ disk' = [disk EXCEPT !.jr[t] = seen'.jr[t]]
        /\ pc' = "publish" /\ UNCHANGED touched
    BY <1>3, <1>4 DEF EngineFence
  <2>2. r \in JournalRecord /\ r.phase = "prepared"
    BY DEF JournalRecord, Phases, NextPhases
  <2> HIDE DEF r
  <2>3. Rewritten(t) /\ seen'.jr[t] = r /\ disk'.jr[t] = r
    BY <1>1, <1>3, <2>1, <2>2, RecordWritten
  <2>4. seen'.art = seen.art
    BY <1>1, <1>3, <2>1 DEF FileType
  <2>5. ~Verified(t)' /\ ~Lost(t)'
    BY <2>2, <2>3 DEF Verified, Lost
  <2> QED BY <1>1, <1>3, <2>1, <2>3, <2>4, <2>5, RewrittenSpares
<1> QED BY <1>2, <1>4

LEMMA EngineStageSpares == ASSUME NEW t \in Txns, IInv, RollbackInv, EngineStage(t) PROVE RollbackInv'
<1>1. /\ seen \in FileType /\ disk \in FileType /\ touched \subseteq Txns
      /\ UNCHANGED touched /\ pc' = "fence" /\ seen.place[t] = "none"
  BY DEF IInv, Typed, EngineStage, Unused
<1>2. /\ seen'.place = [seen.place EXCEPT ![t] = "preflight"]
      /\ seen'.art = [seen.art EXCEPT ![t] = TRUE] /\ seen'.jr = seen.jr
  BY <1>1 DEF EngineStage, FileType
<1>3. seen' \in FileType
  <2>1. [seen EXCEPT !.place[t] = "preflight"] \in FileType
    BY <1>1, PlaceTyped DEF Places
  <2>2. [[seen EXCEPT !.place[t] = "preflight"] EXCEPT !.art[t] = TRUE] \in FileType
    BY <2>1, ArtTyped
  <2>3. seen' = [[seen EXCEPT !.place[t] = "preflight"] EXCEPT !.art[t] = TRUE]
    BY DEF EngineStage
  <2> QED BY <2>2, <2>3
<1>4. /\ disk'.place[t] = "preflight" /\ disk'.jr[t] = seen.jr[t]
      /\ \A u \in Txns \ {t} : disk'.place[u] = disk.place[u] /\ disk'.jr[u] = disk.jr[u]
  <2>1. disk' = Synced(seen', t)
    BY DEF EngineStage
  <2>2. seen'.place[t] = "preflight"
    BY <1>1, <1>2 DEF FileType
  <2>3. /\ Synced(seen', t).place[t] = seen'.place[t] /\ Synced(seen', t).jr[t] = seen'.jr[t]
        /\ \A u \in Txns \ {t} : /\ Synced(seen', t).place[u] = disk.place[u]
                                 /\ Synced(seen', t).jr[u] = disk.jr[u]
    BY <1>1, <1>3, SyncEffect
  <2> QED BY <1>2, <2>1, <2>2, <2>3
<1>5. /\ seen'.place[t] = "preflight" /\ seen'.art[t]
      /\ \A u \in Txns \ {t} : seen'.place[u] = seen.place[u] /\ seen'.art[u] = seen.art[u]
  BY <1>1, <1>2 DEF FileType
<1>6. (Verified(t)' => Verified(t)) /\ ~Lost(t)' /\ ~Solid(t)
  BY <1>1, <1>2, <1>4, <1>5 DEF Verified, Lost, Solid
<1>7. \A u \in Txns \ {t} : /\ InUse(u)' <=> InUse(u)
                            /\ Verified(u)' <=> Verified(u)
                            /\ Lost(u)' <=> Lost(u)
                            /\ Solid(u)' <=> Solid(u)
  BY <1>1, <1>2, <1>4, <1>5 DEF InUse, Verified, Lost, Solid
<1> QED BY <1>1, <1>5, <1>6, <1>7, StepSpares DEF RollbackInv

\* What was staged loses its artifacts together with its place, on both sides.
LEMMA EnginePreflightSpares == ASSUME IInv, RollbackInv, EnginePreflight PROVE RollbackInv'
<1>1. /\ seen \in FileType /\ disk \in FileType /\ touched \subseteq Txns
      /\ UNCHANGED touched /\ pc' \notin {"clean", "purge"}
      /\ seen' = Cleaned(seen) /\ disk' = Cleaned(disk)
  BY DEF IInv, Typed, EnginePreflight, Goto, Ends
<1>2. \A t \in Txns :
        IF t \in Staged
        THEN /\ seen'.place[t] = "gone" /\ disk'.place[t] = "gone"
             /\ seen'.jr[t] = NoRecord /\ disk'.jr[t] = NoRecord
        ELSE /\ seen'.place[t] = seen.place[t] /\ disk'.place[t] = disk.place[t]
             /\ seen'.jr[t] = seen.jr[t] /\ disk'.jr[t] = disk.jr[t]
             /\ seen'.art[t] = seen.art[t]
  BY <1>1 DEF Cleaned, FileType
<1>3. ASSUME NEW t \in Staged
      PROVE  ~InUse(t)' /\ ~Verified(t)' /\ ~Lost(t)' /\ ~Solid(t)
  <2>1. /\ t \in Txns /\ seen.place[t] = "preflight"
        /\ seen'.place[t] = "gone" /\ disk'.place[t] = "gone"
        /\ seen'.jr[t].phase = "none" /\ disk'.jr[t].phase = "none"
    BY <1>2, <1>3 DEF Staged, NoRecord
  <2>2. ~InUse(t)' /\ ~Solid(t)
    BY <2>1 DEF InUse, Solid
  <2>3. ~Verified(t)' /\ ~Lost(t)'
    BY <2>1 DEF Verified, Lost
  <2> QED BY <2>2, <2>3
<1>4. ASSUME NEW t \in Txns \ Staged
      PROVE  /\ InUse(t)' <=> InUse(t)
             /\ Verified(t)' <=> Verified(t)
             /\ Lost(t)' <=> Lost(t)
             /\ Solid(t)' <=> Solid(t)
             /\ seen'.art[t] = seen.art[t]
  BY <1>1, <1>2 DEF InUse, Verified, Lost, Solid
<1>5. \A t \in Txns : /\ InUse(t)' => seen'.art[t]
                      /\ Verified(t)' => t \in touched'
                      /\ Lost(t)' => Lost(t)
                      /\ Solid(t) => Solid(t)'
  BY <1>1, <1>3, <1>4 DEF RollbackInv
<1> QED BY <1>1, <1>5, StepSpares DEF RollbackInv

\* Only what is retired on both sides is taken apart.
LEMMA EnginePurgeSpares == ASSUME NEW t \in Txns, IInv, RollbackInv, EnginePurge(t) PROVE RollbackInv'
<1>1. /\ seen \in FileType /\ disk \in FileType /\ touched \subseteq Txns
      /\ UNCHANGED touched /\ pc = "purge" /\ disk.place = seen.place
      /\ seen.place[t] = "retired"
  BY DEF IInv, Typed, EnginePurge, Retired, RollbackInv
<1>2. CASE UNCHANGED files
  BY <1>1, <1>2, IdleSpares DEF EnginePurge, Ends
<1>3. CASE ~UNCHANGED files
  <2>1. /\ seen' \in {[seen EXCEPT !.art[t] = FALSE], [seen EXCEPT !.jr[t] = NoRecord],
                      [seen EXCEPT !.place[t] = "gone"]}
        /\ pc' = "purge"
    BY <1>1, <1>3 DEF EnginePurge, PurgePiece, Ends
  <2>2. disk' = Synced(seen', t)
    BY <1>3 DEF EnginePurge
  <2>3. /\ seen' \in FileType
        /\ \A u \in Txns \ {t} : /\ seen'.place[u] = seen.place[u] /\ seen'.jr[u] = seen.jr[u]
                                 /\ seen'.art[u] = seen.art[u]
        /\ seen'.place[t] \in {"retired", "gone"} /\ seen'.jr[t] \in {seen.jr[t], NoRecord}
    <3>1. CASE seen' = [seen EXCEPT !.art[t] = FALSE]
      <4>1. seen' \in FileType
        BY <1>1, <3>1, ArtTyped
      <4>2. /\ seen'.place = seen.place /\ seen'.jr = seen.jr
            /\ seen'.art = [seen.art EXCEPT ![t] = FALSE]
        BY <1>1, <3>1 DEF FileType
      <4> QED BY <1>1, <4>1, <4>2 DEF FileType
    <3>2. CASE seen' = [seen EXCEPT !.jr[t] = NoRecord]
      <4>1. seen' \in FileType
        BY <1>1, <3>2, JournalTyped DEF JournalRecord, NoRecord
      <4>2. /\ seen'.place = seen.place /\ seen'.art = seen.art
            /\ seen'.jr = [seen.jr EXCEPT ![t] = NoRecord]
        BY <1>1, <3>2 DEF FileType
      <4> QED BY <1>1, <4>1, <4>2 DEF FileType
    <3>3. CASE seen' = [seen EXCEPT !.place[t] = "gone"]
      <4>1. seen' \in FileType
        BY <1>1, <3>3, PlaceTyped DEF Places
      <4>2. /\ seen'.jr = seen.jr /\ seen'.art = seen.art
            /\ seen'.place = [seen.place EXCEPT ![t] = "gone"]
        BY <1>1, <3>3 DEF FileType
      <4> QED BY <1>1, <4>1, <4>2 DEF FileType
    <3> QED BY <2>1, <3>1, <3>2, <3>3
  <2>4. /\ disk' \in FileType /\ disk'.place[t] = seen'.place[t] /\ disk'.jr[t] = seen'.jr[t]
        /\ \A u \in Txns \ {t} : disk'.place[u] = disk.place[u] /\ disk'.jr[u] = disk.jr[u]
    BY <1>1, <2>2, <2>3, SyncEffect
  <2>5. disk'.place = seen'.place
    <3>1. \A u \in Txns : disk'.place[u] = seen'.place[u]
      BY <1>1, <2>3, <2>4
    <3>2. /\ disk'.place = [u \in Txns |-> disk'.place[u]]
          /\ seen'.place = [u \in Txns |-> seen'.place[u]]
      BY <2>3, <2>4 DEF FileType
    <3> QED BY <3>1, <3>2
  <2>6. ~InUse(t)' /\ (Verified(t)' => Verified(t)) /\ (Lost(t)' => Lost(t)) /\ ~Solid(t)
    BY <1>1, <2>3, <2>4 DEF NoRecord, InUse, Verified, Lost, Solid
  <2>7. \A u \in Txns \ {t} : /\ InUse(u)' <=> InUse(u)
                              /\ Verified(u)' <=> Verified(u)
                              /\ Lost(u)' <=> Lost(u)
                              /\ Solid(u)' <=> Solid(u)
    BY <1>1, <2>3, <2>4 DEF InUse, Verified, Lost, Solid
  <2>8. \A u \in Txns : /\ InUse(u)' => seen'.art[u]
                        /\ Verified(u)' => u \in touched'
                        /\ Lost(u)' => Lost(u)
                        /\ Solid(u) => Solid(u)'
    BY <1>1, <2>3, <2>6, <2>7 DEF RollbackInv
  <2> QED BY <1>1, <2>5, <2>8, StepSpares DEF RollbackInv
<1> QED BY <1>2, <1>3

\* The newest completed ones stay, and stand in for the one that goes.
LEMMA EngineRetireSpares == ASSUME NEW r \in Txns, IInv, RollbackInv, EngineRetire(r) PROVE RollbackInv'
<1>1. /\ seen \in FileType /\ disk \in FileType /\ touched \subseteq Txns
      /\ UNCHANGED <<disk, touched>> /\ pc = "purge" /\ disk.place = seen.place
      /\ seen.jr[r] = disk.jr[r]
  BY DEF IInv, Typed, EngineRetire, RollbackInv
<1>2. CASE seen.marker # None
  BY <1>1, <1>2, IdleSpares DEF EngineRetire, Ends
<1>3. CASE seen.marker = None
  <2>1. seen' = [seen EXCEPT !.place[r] = "retired"] /\ pc' = "retire"
    BY <1>3 DEF EngineRetire, Goto
  <2>2. /\ seen'.jr = seen.jr /\ seen'.art = seen.art
        /\ seen'.place = [seen.place EXCEPT ![r] = "retired"]
    BY <1>1, <2>1 DEF FileType
  <2>3. \A t \in Txns : seen'.place[t] = IF t = r THEN "retired" ELSE seen.place[t]
    BY <1>1, <2>2 DEF FileType
  <2>4. \A t \in Txns : /\ InUse(t)' => InUse(t)
                        /\ Verified(t)' <=> Verified(t)
    BY <1>1, <2>2, <2>3 DEF InUse, Verified
  <2>5. \A t \in Txns \ {r} : (Lost(t)' <=> Lost(t)) /\ (Solid(t)' <=> Solid(t))
    BY <1>1, <2>2, <2>3 DEF Lost, Solid
  <2>6. r \in Active(seen) /\ seen.jr[r].phase \in Terminal /\ r \notin Newest
    BY DEF EngineRetire, Retirable
  <2>7. CASE seen.jr[r].phase # "completed"
    <3>1. ~Lost(r)'
      BY <1>1, <2>2, <2>7 DEF Lost
    <3>2. r \notin touched
      BY <2>6, <2>7 DEF IInv, TouchedInv, Terminal, ChangedPhases
    <3>3. ~Solid(r)
      BY <3>2 DEF Solid
    <3>4. \A t \in Txns : (Lost(t)' => Lost(t)) /\ (Solid(t) => Solid(t)')
      BY <2>5, <3>1, <3>3
    <3> QED BY <1>1, <2>1, <2>2, <2>4, <3>4, StepSpares DEF RollbackInv
  <2>8. CASE seen.jr[r].phase = "completed"
    <3> DEFINE Newer == {u \in Completed : u > r}
    <3>1. Newer \subseteq touched
      BY DEF Completed, Active, RollbackInv, Verified
    <3>2. IsFiniteSet(Newer)
      BY <3>1, FS_Subset DEF RollbackInv
    <3>3. Cardinality(Newer) >= Keep /\ Cardinality(Newer) \in Nat
      <4>1. ~(Cardinality(Newer) < Keep)
        BY <2>6, <2>8 DEF Newest, Completed
      <4>2. Cardinality(Newer) \in Nat
        BY <3>2, FS_CardinalityType
      <4> QED BY <4>1, <4>2, KeepAssumption
    <3>4. \A u \in Newer : Solid(u)' /\ u \in Txns /\ u > r
      <4>1. SUFFICES ASSUME NEW u \in Newer PROVE Solid(u)'
        BY DEF Completed, Active
      <4>2. /\ u \in Txns /\ u > r /\ u \in touched
            /\ seen.place[u] = "active" /\ disk.place[u] = "active"
        BY <1>1, <3>1 DEF Completed, Active
      <4>3. seen.art[u]
        BY <4>2 DEF RollbackInv, InUse
      <4>4. u # r
        <5>1. u \in Nat /\ r \in Nat
          BY <4>2
        <5> QED BY <4>2, <5>1
      <4> QED BY <2>5, <4>2, <4>3, <4>4 DEF Solid
    <3> HIDE DEF Newer
    <3>5. ASSUME NEW t \in Txns, Lost(t)' PROVE Cardinality(NewerSolid(t)') >= Keep
      <4>1. NewerSolid(t)' \subseteq touched'
        BY DEF NewerSolid
      <4>2. IsFiniteSet(NewerSolid(t)')
        BY <1>1, <4>1, FS_Subset DEF RollbackInv
      <4>3. Cardinality(NewerSolid(t)') \in Nat
        BY <4>2, FS_CardinalityType
      <4>4. CASE r < t
        <5>1. Lost(t) /\ t # r
          BY <2>5, <3>5, <4>4
        <5>2. NewerSolid(t) = NewerSolid(t)'
          <6>1. \A u \in touched : u > t => u # r
            BY <1>1, <4>4
          <6> QED BY <1>1, <2>5, <6>1 DEF NewerSolid
        <5> QED BY <5>1, <5>2 DEF RollbackInv
      <4>5. CASE ~(r < t)
        <5>1. Newer \subseteq NewerSolid(t)'
          <6>1. ASSUME NEW u \in Newer PROVE u \in touched' /\ u > t /\ Solid(u)'
            <7>1. u \in Nat /\ r \in Nat /\ t \in Nat /\ u > r
              BY <3>4
            <7> QED BY <1>1, <3>1, <3>4, <4>5, <7>1
          <6> QED BY <6>1 DEF NewerSolid
        <5>2. Cardinality(Newer) <= Cardinality(NewerSolid(t)')
          BY <4>2, <5>1, FS_Subset
        <5> QED BY <3>3, <4>3, <5>2, KeepAssumption
      <4> QED BY <4>4, <4>5
    <3>6. \A t \in Txns : (InUse(t)' => seen'.art[t]) /\ (Verified(t)' => t \in touched')
      BY <1>1, <2>2, <2>4 DEF RollbackInv
    <3> QED BY <1>1, <2>1, <3>5, <3>6 DEF RollbackInv
  <2> QED BY <2>7, <2>8
<1> QED BY <1>2, <1>3

\* A power failure mixes two states that both keep what is solid.
LEMMA PowerFailsSpares == ASSUME IInv, RollbackInv, PowerFails PROVE RollbackInv'
<1>1. /\ seen \in FileType /\ disk \in FileType /\ touched \subseteq Txns
      /\ UNCHANGED touched /\ pc' = "idle"
      /\ seen' \in Survivors /\ disk' = seen'
  BY DEF IInv, Typed, PowerFails
<1>2. seen'.art = seen.art
  BY <1>1 DEF Survivors
<1>3. \A t \in Txns : /\ seen'.place[t] \in {seen.place[t], disk.place[t]}
                      /\ seen'.jr[t] \in {seen.jr[t], disk.jr[t]}
  BY <1>1, SurvivorsAre DEF Survived
<1>4. \A t \in Txns : /\ InUse(t)' => InUse(t)
                      /\ Verified(t)' => Verified(t)
                      /\ Lost(t)' => Lost(t)
                      /\ Solid(t) => Solid(t)'
  BY <1>1, <1>2, <1>3 DEF InUse, Verified, Lost, Solid
<1> QED BY <1>1, <1>2, <1>4, StepSpares DEF RollbackInv

\* The other steps write markers, or no file at all.
LEMMA MarkersSpares ==
  ASSUME IInv, RollbackInv,
         EngineLink \/ EngineLinkSync \/ EngineLinkFails \/ EngineClear \/ EngineClearSync
           \/ EngineClearFails \/ RecoveryClears \/ RecoveryClearSync \/ RecoveryClearFails
           \/ ForeignMarks \/ ForeignUnmarks
  PROVE  RollbackInv'
<1>1. seen \in FileType /\ disk \in FileType /\ touched \subseteq Txns
  BY DEF IInv, Typed
<1>2. CASE EngineLink \/ EngineLinkSync \/ EngineLinkFails
  <2>1. UNCHANGED touched /\ pc' \notin {"clean", "purge"}
    BY <1>2 DEF EngineLink, EngineLinkSync, EngineLinkFails, Goto, Ends
  <2>2. /\ seen'.place = seen.place /\ seen'.jr = seen.jr /\ seen'.art = seen.art
        /\ disk'.place = disk.place /\ disk'.jr = disk.jr
    BY <1>1, <1>2 DEF EngineLink, EngineLinkSync, EngineLinkFails, FileType
  <2> QED BY <1>1, <2>1, <2>2, SameFilesSpares DEF SameFiles
<1>3. CASE EngineClear \/ EngineClearSync \/ EngineClearFails
  <2>1. UNCHANGED touched /\ pc' \notin {"clean", "purge"}
    BY <1>3 DEF EngineClear, EngineClearSync, EngineClearFails, Goto, Ends
  <2>2. /\ seen'.place = seen.place /\ seen'.jr = seen.jr /\ seen'.art = seen.art
        /\ disk'.place = disk.place /\ disk'.jr = disk.jr
    BY <1>1, <1>3 DEF EngineClear, EngineClearSync, EngineClearFails, Remarked, FileType
  <2> QED BY <1>1, <2>1, <2>2, SameFilesSpares DEF SameFiles
<1>4. CASE RecoveryClears \/ RecoveryClearSync \/ RecoveryClearFails
  <2>1. UNCHANGED <<touched, pc>>
    BY <1>4 DEF RecoveryClears, RecoveryClearSync, RecoveryClearFails
  <2>2. /\ seen'.place = seen.place /\ seen'.jr = seen.jr /\ seen'.art = seen.art
        /\ disk'.place = disk.place /\ disk'.jr = disk.jr
    <3>1. CASE RecoveryClears
      <4>1. /\ seen' \in {seen, [seen EXCEPT !.marker = None, !.alias = None]}
            /\ \E m : disk' \in {disk, [disk EXCEPT !.alias = None, !.marker = m]}
        BY <3>1 DEF RecoveryClears
      <4> QED BY <1>1, <4>1 DEF FileType
    <3>2. CASE RecoveryClearSync \/ RecoveryClearFails
      BY <1>1, <3>2 DEF RecoveryClearSync, RecoveryClearFails, Remarked, FileType
    <3> QED BY <1>4, <3>1, <3>2
  <2> QED BY <1>1, <2>1, <2>2, SameFilesSpares DEF SameFiles
<1>5. CASE ForeignMarks \/ ForeignUnmarks
  <2>1. UNCHANGED <<touched, pc>>
    BY <1>5 DEF ForeignMarks, ForeignUnmarks
  <2>2. /\ seen'.place = seen.place /\ seen'.jr = seen.jr /\ seen'.art = seen.art
        /\ disk'.place = disk.place /\ disk'.jr = disk.jr
    BY <1>1, <1>5 DEF ForeignMarks, ForeignUnmarks, FileType
  <2> QED BY <1>1, <2>1, <2>2, SameFilesSpares DEF SameFiles
<1> QED BY <1>2, <1>3, <1>4, <1>5

LEMMA OthersSpares ==
  ASSUME IInv, RollbackInv,
         EngineRefused \/ EngineReview \/ EngineDefers \/ EngineDpkgEnds \/ EngineChecks
           \/ EngineStops \/ RecoveryAuthorizes \/ RecoveryKilled \/ Watchdog
           \/ WorkerStarts \/ WorkerEnds \/ OtherPackages \/ Heal
           \/ (\E v \in Releases : Offer(v)) \/ UNCHANGED vars
  PROVE  RollbackInv'
<1>1. UNCHANGED <<files, touched>> /\ (pc' \in {"clean", "purge"} => pc \in {"clean", "purge"})
  BY DEF EngineRefused, EngineReview, EngineDefers, EngineDpkgEnds, EngineChecks,
         EngineStops, RecoveryAuthorizes, RecoveryKilled, Watchdog, WatchUnit,
         WatchMarker, WatchRecords, WatchEvaluates, WorkerStarts, WorkerEnds,
         OtherPackages, Heal, Offer, Goto, Ends, vars
<1>2. touched \subseteq Txns
  BY DEF IInv, Typed
<1> QED BY <1>1, <1>2, IdleSpares

LEMMA RollbackInductive == Spec => []RollbackInv
<1>1. Init => RollbackInv
  <2> SUFFICES ASSUME Init PROVE RollbackInv
    OBVIOUS
  <2>1. IsFiniteSet(touched) /\ pc = "idle"
    BY FS_EmptySet DEF Init
  <2>2. ASSUME NEW t \in Txns
        PROVE  /\ seen.place[t] = "none" /\ disk.place[t] = "none"
               /\ seen.jr[t].phase = "none" /\ disk.jr[t].phase = "none"
    BY DEF Init, NoRecord
  <2> QED BY <2>1, <2>2 DEF RollbackInv, InUse, Verified, Lost
<1>2. IInv /\ RollbackInv /\ [Next]_vars => RollbackInv'
  <2> SUFFICES ASSUME IInv, RollbackInv, [Next]_vars PROVE RollbackInv'
    OBVIOUS
  <2>1. CASE Engine
    BY <2>1, SyncsSpares, OthersSpares, MarkersSpares, EnginePurgeSpares, EngineRetireSpares,
       EngineStageSpares, EnginePreflightSpares, EngineFenceSpares, EnginePublishSpares,
       EngineAdvancesSpares, EngineDpkgStartsSpares
      DEF Engine
  <2>2. CASE Recovery
    BY <2>2, SyncsSpares, OthersSpares, MarkersSpares, RecoveryAdvancesSpares DEF Recovery
  <2>3. CASE Host
    BY <2>3, OthersSpares, MarkersSpares, PowerFailsSpares DEF Host
  <2>4. CASE Watchdog \/ UNCHANGED vars
    BY <2>4, OthersSpares
  <2> QED BY <2>1, <2>2, <2>3, <2>4 DEF Next
<1>3. Spec => []IInv
  BY Inductive
<1> QED BY <1>1, <1>2, <1>3, PTL DEF Spec

\* Any outcome loses only what either side has lost, and keeps what is solid.
LEMMA KeptNow == IInv /\ RollbackInv => RollbackKept
<1> SUFFICES ASSUME IInv, RollbackInv, NEW f \in Outcomes, NEW t \in Txns,
                    f.jr[t].phase = "completed", f.place[t] = "retired" \/ ~f.art[t]
             PROVE  Cardinality({u \in Active(f) : u > t /\ u \in touched /\ f.art[u]}) >= Keep
  BY DEF RollbackKept
<1> DEFINE Kept == {u \in Active(f) : u > t /\ u \in touched /\ f.art[u]}
<1>1. Survived(f)
  BY OutcomesAre
<1>2. f.art = seen.art
  BY DEF Outcomes, Survivors
<1>3. touched \subseteq Txns /\ IsFiniteSet(touched)
  BY DEF IInv, Typed, RollbackInv
<1>4. Lost(t)
  BY <1>1, <1>2 DEF Survived, Lost
<1>5. NewerSolid(t) \subseteq Kept
  BY <1>1, <1>2, <1>3 DEF NewerSolid, Solid, Active, Survived
<1>6. IsFiniteSet(Kept)
  BY <1>3, FS_Subset
<1>7. IsFiniteSet(NewerSolid(t)) /\ Cardinality(NewerSolid(t)) <= Cardinality(Kept)
  BY <1>5, <1>6, FS_Subset
<1>8. Cardinality(NewerSolid(t)) \in Nat /\ Cardinality(Kept) \in Nat
  BY <1>6, <1>7, FS_CardinalityType
<1>9. Cardinality(NewerSolid(t)) >= Keep
  BY <1>4 DEF RollbackInv
<1> QED BY <1>7, <1>8, <1>9, KeepAssumption

(* The artifacts of a completed update go only while Keep newer ones of       *)
(* changed transactions stay, whatever a power failure takes back             *)
(* (cleanup_terminal_transactions).                                           *)
THEOREM RollbackStaysPossible == Spec => []RollbackKept
<1>1. Spec => []IInv
  BY Inductive
<1>2. Spec => []RollbackInv
  BY RollbackInductive
<1>3. IInv /\ RollbackInv => RollbackKept
  BY KeptNow
<1> QED BY <1>1, <1>2, <1>3, PTL
===================================================================================
