-------------------------- MODULE DockerTransaction --------------------------
(***************************************************************************)
(* The automatic Docker update of security-maintenance/auto-updates/docker:*)
(* the engine (engine.py) with its write-ahead journal                     *)
(* (transaction_journal.py), the reconciliation of a transaction that      *)
(* stopped before dpkg (pre_mutation_recovery.py) and the watchdog that    *)
(* reports on both (update_watchdog.py), on a host whose Guardian workers, *)
(* other maintenance programs and APT frontends go on around them.         *)
(*                                                                         *)
(* Every file is kept twice: seen is what a program reads now, disk is     *)
(* what has been synchronised.  A power failure keeps, file by file,       *)
(* either of the two; a killed program leaves seen as it is.               *)
(*                                                                         *)
(* Metadata checks (owner, mode, link count), JSON and hash validation are *)
(* abstracted: the model has no damaged files.  A step that the host can   *)
(* make fail (I/O error, time-out, failed download or container) has a     *)
(* failing twin; faults bounds how many happen.                            *)
(***************************************************************************)
EXTENDS Naturals, FiniteSets

CONSTANTS
  Txns,         \* transaction names; they carry a time stamp, so they are ordered
  Releases,     \* versions <<line, patch>> the Docker repository may offer
  Installed0,   \* the version installed at first
  Keep,         \* completed transactions whose artifacts stay (3 in the code)
  MaxFaults,    \* bound: failures, kills and power failures
  MaxOther,     \* bound: package operations of other APT frontends
  None,         \* no transaction, no marker, no lock holder
  Foreign       \* the marker of another maintenance program

ASSUME TxnsAssumption == Txns \subseteq Nat
ASSUME KeepAssumption == Keep \in Nat \ {0}
ASSUME NamesAssumption ==
  /\ None \notin Txns /\ Foreign \notin Txns /\ None # Foreign
  /\ None \notin {"engine", "recovery", "worker"}

VARIABLES
  seen, disk,     \* the files: [place, jr, art, marker, alias]
  pkgs,           \* dpkg's database: [ver, whole, other]
  plan,           \* the inventory each transaction recorded before its journal
  offered,        \* versions the repository offers
  healthy,        \* whether Docker and the model containers answer
  pc, txn, target,\* the engine: where it is, its transaction, its target version
  unit,           \* systemd's view of the updater: [active, exit]
  rpc, rmark, rrec, \* the recovery: where it is, the marker and record it read
  wpc, wmark, wrecs, verdict, \* the watchdog
  updaterLock, fence, dpkgLock, \* lock holders
  faults,
  touched        \* history: transactions whose dpkg has started

files == <<seen, disk>>
engine == <<pc, txn, target, unit>>
rec == <<rpc, rmark, rrec>>
watch == <<wpc, wmark, wrecs, verdict>>
locks == <<updaterLock, fence, dpkgLock>>
host == <<pkgs, plan, offered, healthy, touched>>
vars == <<seen, disk, pkgs, plan, offered, healthy, pc, txn, target, unit,
          rpc, rmark, rrec, wpc, wmark, wrecs, verdict,
          updaterLock, fence, dpkgLock, faults, touched>>

-----------------------------------------------------------------------------
\* The journal (transaction_journal.py)

NextPhases ==
  [prepared |-> {"fence_creating", "aborted"},
   fence_creating |-> {"fenced", "pre_mutation_clear_intent", "recovery_required"},
   fenced |-> {"mutation_pending", "pre_mutation_clear_intent", "recovery_required"},
   pre_mutation_clear_intent |-> {"pre_mutation_recovered", "recovery_required"},
   mutation_pending |-> {"verified", "recovery_required"},
   verified |-> {"unfence_intent", "recovery_required"},
   unfence_intent |-> {"completed", "recovery_required"},
   aborted |-> {}, completed |-> {}, pre_mutation_recovered |-> {},
   recovery_required |-> {}]

PhaseGenerations ==
  [prepared |-> {0}, fence_creating |-> {1}, fenced |-> {2}, mutation_pending |-> {3},
   verified |-> {4}, unfence_intent |-> {5}, completed |-> {6}, aborted |-> {1},
   pre_mutation_clear_intent |-> {2, 3}, pre_mutation_recovered |-> {3, 4},
   recovery_required |-> 2..6]

Phases == DOMAIN NextPhases
Terminal == {"completed", "aborted", "pre_mutation_recovered"}
SafePhases == {"prepared", "fence_creating", "fenced", "pre_mutation_clear_intent"}

NoRecord == [phase |-> "none", gen |-> 0]
Records == [phase : Phases, gen : 0..6]

Active(f) == {t \in Txns : f.place[t] = "active"}
Unresolved(f) == {t \in Active(f) : f.jr[t].phase \notin Terminal}

\* acquire_updater_lock synchronises the directory of the journals, which makes
\* their names durable; what is in them is synchronised when it is written.
NamesSynced == [disk EXCEPT !.place = seen.place]
\* One transaction's directory and everything in it is synchronised.
Synced(f, t) ==
  [disk EXCEPT !.place[t] = f.place[t], !.art[t] = f.art[t], !.jr[t] = f.jr[t]]

\* What one advance writes: the record bound to the expected phase and generation.
Advanced(f, t, next) ==
  [f EXCEPT !.jr[t] = [phase |-> next, gen |-> f.jr[t].gen + 1]]

\* advance() and its outcomes.  Done: the replacement is synchronised.
\* Unsure: the write raised DurabilityError, before or after the replacement,
\* and the caller stops (a kill between replace and fsync leaves the same).
AdvanceDone(t, next) ==
  /\ next \in NextPhases[seen.jr[t].phase]
  /\ seen' = Advanced(seen, t, next)
  /\ disk' = [disk EXCEPT !.jr[t] = seen'.jr[t]]

AdvanceUnsure(t, next) ==
  /\ next \in NextPhases[seen.jr[t].phase]
  /\ faults < MaxFaults
  /\ seen' \in {seen, Advanced(seen, t, next)}
  /\ UNCHANGED disk

-----------------------------------------------------------------------------
\* The engine: which update (docker_auto_update.py, candidates)

PatchAllowed(old, new) == new[1] = old[1] /\ new[2] > old[2]

Targets == {v \in offered : PatchAllowed(pkgs.ver, v)}
Target == IF Targets = {} THEN None
          ELSE CHOOSE v \in Targets : \A w \in Targets : w[2] <= v[2]
Skipped == \E v \in offered : v[1] > pkgs.ver[1]

Init ==
  /\ seen = [place |-> [t \in Txns |-> "none"], jr |-> [t \in Txns |-> NoRecord],
             art |-> [t \in Txns |-> FALSE], marker |-> None, alias |-> None]
  /\ disk = seen
  /\ pkgs = [ver |-> Installed0, whole |-> TRUE, other |-> 0]
  /\ plan = [t \in Txns |-> pkgs]
  /\ offered = {Installed0}
  /\ healthy = TRUE
  /\ pc = "idle" /\ txn = None /\ target = None
  /\ unit = [active |-> "inactive", exit |-> 0]
  /\ rpc = "idle" /\ rmark = None /\ rrec = None
  /\ wpc = "idle" /\ wmark = None /\ wrecs = {} /\ verdict = "none"
  /\ updaterLock = None /\ fence = None /\ dpkgLock = None
  /\ faults = 0 /\ touched = {}

-----------------------------------------------------------------------------
\* The engine: start, end and failure (main, apply, assert_noop_safe)

Release(who) ==
  /\ updaterLock' = IF updaterLock = who THEN None ELSE updaterLock
  /\ fence' = IF fence = who THEN None ELSE fence
  /\ dpkgLock' = IF dpkgLock = who THEN None ELSE dpkgLock

Ends(exit) ==
  /\ pc' = "idle" /\ txn' = None /\ target' = None
  /\ unit' = [active |-> IF exit = 1 THEN "failed" ELSE "inactive", exit |-> exit]
  /\ Release("engine")

Goto(step) == pc' = step /\ UNCHANGED <<txn, target, unit, locks>>

Unused == {t \in Txns : /\ seen.place[t] = "none"
                        /\ \A u \in Txns : u < t => seen.place[u] # "none"}

\* The checks made before any lock: no marker, no busy worker, a clean dpkg
\* database and healthy containers.  A run without targets asserts only that
\* there is no marker.
MayStart ==
  /\ seen.marker = None
  /\ updaterLock = None
  /\ Target # None => fence # "worker" /\ pkgs.whole /\ healthy

EngineStart ==
  /\ pc = "idle" /\ MayStart
  /\ pc' = "clean" /\ txn' = None /\ target' = Target
  /\ unit' = [active |-> "active", exit |-> 0]
  /\ updaterLock' = "engine" /\ disk' = NamesSynced
  /\ UNCHANGED <<seen, host, rec, watch, fence, dpkgLock, faults>>

EngineRefused ==
  /\ pc = "idle" /\ ~MayStart
  /\ unit.active # "failed"
  /\ Ends(1)
  /\ UNCHANGED <<files, host, rec, watch, faults>>

-----------------------------------------------------------------------------
\* The engine: clean-up under the updater lock

\* assert_no_unresolved_journals, then the marker test of the clean-up.
EngineReview ==
  /\ pc = "clean"
  /\ IF Unresolved(seen) = {} /\ seen.marker = None THEN Goto("purge") ELSE Ends(1)
  /\ UNCHANGED <<files, host, rec, watch, faults>>

Retired == {t \in Txns : seen.place[t] = "retired"}

\* _purge_retired_transaction, one synchronised deletion at a time: the
\* artifacts, then the journal, then the directory.
PurgePiece(t) ==
  CASE seen.art[t] -> [seen EXCEPT !.art[t] = FALSE]
    [] ~seen.art[t] /\ seen.jr[t] # NoRecord -> [seen EXCEPT !.jr[t] = NoRecord]
    [] OTHER -> [seen EXCEPT !.place[t] = "gone"]

\* What refuses a purge: artifacts whose journal is gone, or an unfinished one.
Purgeable(t) ==
  /\ seen.art[t] => seen.jr[t] # NoRecord
  /\ seen.jr[t] # NoRecord => seen.jr[t].phase \in Terminal

EnginePurge(t) ==
  /\ pc = "purge" /\ t \in Retired
  /\ IF Purgeable(t) /\ seen.marker = None
       THEN seen' = PurgePiece(t) /\ disk' = Synced(seen', t) /\ UNCHANGED <<engine, locks>>
       ELSE Ends(1) /\ UNCHANGED files
  /\ UNCHANGED <<host, rec, watch, faults>>

Completed == {t \in Active(seen) : seen.jr[t].phase = "completed"}
\* Mutant: transactions that changed nothing count among the newest.
NewestOfAll ==
  {t \in Completed : Cardinality({u \in Active(seen) : u > t}) < Keep}

Newest == {t \in Completed : Cardinality({u \in Completed : u > t}) < Keep}
Retirable == {t \in Active(seen) : seen.jr[t].phase \in Terminal} \ Newest

\* cleanup_terminal_transactions takes a transaction out of the journal name
\* space by one rename.  Whether it is older than 30 days is left open, but
\* what is that old, the removal of its marker included, has been written back
\* to the disk long ago.
EngineRetire(t) ==
  /\ pc = "purge" /\ Retired = {}
  /\ t \in Retirable /\ seen.jr[t] = disk.jr[t] /\ disk.marker # t
  /\ IF seen.marker = None
       THEN seen' = [seen EXCEPT !.place[t] = "retired"] /\ Goto("retire")
       ELSE UNCHANGED seen /\ Ends(1)
  /\ UNCHANGED disk
  /\ UNCHANGED <<host, rec, watch, faults>>

\* Both directories are synchronised before anything is deleted.
EngineRetireSync ==
  /\ pc = "retire"
  /\ disk' = [disk EXCEPT !.place = seen.place]
  /\ Goto("purge")
  /\ UNCHANGED <<seen, host, rec, watch, faults>>

\* cleanup_preflight removes abandoned staging; a run without targets ends.
Staged == {t \in Txns : seen.place[t] = "preflight"}
Cleaned(f) ==
  [f EXCEPT !.place = [t \in Txns |-> IF t \in Staged THEN "gone" ELSE @[t]],
            !.art = [t \in Txns |-> t \notin Staged /\ @[t]],
            !.jr = [t \in Txns |-> IF t \in Staged THEN NoRecord ELSE @[t]]]

EnginePreflight ==
  /\ pc = "purge" /\ Retired = {}
  /\ seen' = Cleaned(seen) /\ disk' = Cleaned(disk)
  /\ IF target # None THEN Goto("stage")
     ELSE IF seen.marker = None THEN Ends(IF Skipped THEN 2 ELSE 0) ELSE Ends(1)
  /\ UNCHANGED <<host, rec, watch, faults>>

-----------------------------------------------------------------------------
\* The engine: staging, journal and publication

\* mkdtemp and save_packages: both package sets are downloaded and synchronised.
EngineStage(t) ==
  /\ pc = "stage" /\ t \in Unused
  /\ seen' = [seen EXCEPT !.place[t] = "preflight", !.art[t] = TRUE]
  /\ disk' = Synced(seen', t)
  /\ pc' = "fence" /\ txn' = t
  /\ UNCHANGED <<target, unit, locks, host, rec, watch, faults>>

\* Less than 2 GiB are free, or a download fails.
EngineDefers ==
  /\ pc = "stage" /\ Ends(1)
  /\ UNCHANGED <<files, host, rec, watch, faults>>

\* acquire_fence, acquire_frontend_lock, the second look at candidates and
\* containers, and initialize_journal with the inventory of this moment.
EngineFence ==
  /\ pc = "fence"
  /\ IF fence = None /\ dpkgLock = None /\ seen.marker = None /\ Target = target /\ healthy
       THEN /\ fence' = "engine" /\ dpkgLock' = "engine"
            /\ plan' = [plan EXCEPT ![txn] = pkgs]
            /\ seen' = [seen EXCEPT !.jr[txn] = [phase |-> "prepared", gen |-> 0]]
            /\ disk' = [disk EXCEPT !.jr[txn] = seen'.jr[txn]]
            /\ pc' = "publish"
            /\ UNCHANGED <<txn, target, unit, updaterLock>>
       ELSE Ends(1) /\ UNCHANGED <<files, plan>>
  /\ UNCHANGED <<pkgs, offered, healthy, rec, watch, faults, touched>>

\* The finished directory is renamed into the journal name space ...
EnginePublish ==
  /\ pc = "publish"
  /\ seen' = [seen EXCEPT !.place[txn] = "active"]
  /\ UNCHANGED disk
  /\ Goto("published")
  /\ UNCHANGED <<host, rec, watch, faults>>

\* ... and both directories are synchronised.
EnginePublishSync ==
  /\ pc = "published"
  /\ disk' = [disk EXCEPT !.place[txn] = seen.place[txn]]
  /\ Goto("fence_creating")
  /\ UNCHANGED <<seen, host, rec, watch, faults>>

\* The engine's five advances; pc names the phase to write.
StepAfter ==
  [fence_creating |-> "link", fenced |-> "mutation_pending", mutation_pending |-> "dpkg",
   verified |-> "unfence_intent", unfence_intent |-> "clear", completed |-> "done"]

EngineAdvances ==
  /\ pc \in DOMAIN StepAfter
  /\ \/ AdvanceDone(txn, pc) /\ UNCHANGED faults
        /\ IF pc = "completed" THEN Ends(IF Skipped THEN 2 ELSE 0) ELSE Goto(StepAfter[pc])
     \/ AdvanceUnsure(txn, pc) /\ faults' = faults + 1 /\ Ends(1)
  /\ UNCHANGED <<host, rec, watch>>

-----------------------------------------------------------------------------
\* The engine: the Guardian fence and the package change

\* create_marker links its synchronised private inode to the marker's name;
\* an existing marker makes the link fail and is left alone.
EngineLink ==
  /\ pc = "link"
  /\ IF seen.marker = None
       THEN seen' = [seen EXCEPT !.marker = txn, !.alias = txn] /\ Goto("linked")
       ELSE Ends(1) /\ UNCHANGED seen
  /\ UNCHANGED <<disk, host, rec, watch, faults>>

\* Mutant: the directory is not synchronised after the link.
LinkNeverSynced ==
  /\ pc = "linked"
  /\ seen' = [seen EXCEPT !.alias = None]
  /\ disk' = [disk EXCEPT !.alias = None]
  /\ Goto("fenced")
  /\ UNCHANGED <<host, rec, watch, faults>>

\* The temporary name goes and the directory is synchronised.
EngineLinkSync ==
  /\ pc = "linked"
  /\ seen' = [seen EXCEPT !.alias = None]
  /\ disk' = [disk EXCEPT !.marker = seen.marker, !.alias = None]
  /\ Goto("fenced")
  /\ UNCHANGED <<host, rec, watch, faults>>

\* When that fails, the inode just published is removed again, if it can be.
EngineLinkFails ==
  /\ pc = "linked"
  /\ faults < MaxFaults /\ faults' = faults + 1
  /\ \/ /\ seen' = [seen EXCEPT !.marker = None, !.alias = None]
        /\ disk' \in {disk, [disk EXCEPT !.marker = None, !.alias = None]}
     \/ seen' = [seen EXCEPT !.alias = None] /\ UNCHANGED disk
  /\ Ends(1)
  /\ UNCHANGED <<host, rec, watch>>

\* dpkg starts only with the frontend lock demonstrably held; from its first
\* write the installation is neither the old nor the new one.
EngineDpkgStarts ==
  /\ pc = "dpkg" /\ dpkgLock = "engine"
  /\ pkgs' = [pkgs EXCEPT !.whole = FALSE]
  /\ healthy' = FALSE
  /\ touched' = touched \cup {txn}
  /\ Goto("unpacking")
  /\ UNCHANGED <<files, plan, offered, rec, watch, faults>>

EngineDpkgEnds ==
  /\ pc = "unpacking"
  /\ pkgs' = [pkgs EXCEPT !.whole = TRUE, !.ver = target]
  /\ healthy' \in BOOLEAN
  /\ Goto("check")
  /\ UNCHANGED <<files, plan, offered, rec, watch, faults, touched>>

\* The inventory is the planned one with the targets, and health and audit pass.
InventoryMatches(t) == pkgs = [plan[t] EXCEPT !.ver = target]

EngineChecks ==
  /\ pc = "check"
  /\ IF InventoryMatches(txn) /\ healthy THEN Goto("verified") ELSE Ends(1)
  /\ UNCHANGED <<files, host, rec, watch, faults>>

\* clear_own_marker: the very marker this run created is unlinked ...
EngineClear ==
  /\ pc = "clear"
  /\ IF seen.marker = txn
       THEN seen' = [seen EXCEPT !.marker = None] /\ Goto("unlinked")
       ELSE Ends(1) /\ UNCHANGED seen
  /\ UNCHANGED <<disk, host, rec, watch, faults>>

\* Mutant: the journal completes without waiting for the directory.
ClearNeverSynced ==
  /\ pc = "unlinked"
  /\ Goto("completed")
  /\ UNCHANGED <<files, host, rec, watch, faults>>

\* ... and the directory is synchronised before the journal completes.
EngineClearSync ==
  /\ pc = "unlinked"
  /\ disk' = [disk EXCEPT !.marker = seen.marker]
  /\ Goto("completed")
  /\ UNCHANGED <<seen, host, rec, watch, faults>>

\* A failed synchronisation puts the marker back where it can.
Remarked(t) ==
  IF seen.marker # None THEN {seen} ELSE {seen, [seen EXCEPT !.marker = t]}

EngineClearFails ==
  /\ pc = "unlinked"
  /\ faults < MaxFaults /\ faults' = faults + 1
  /\ seen' \in Remarked(txn)
  /\ disk' \in {disk, [disk EXCEPT !.marker = seen'.marker]}
  /\ Ends(1)
  /\ UNCHANGED <<host, rec, watch>>

\* An exception or a refusal that undoes nothing, a time-out, or a kill, at any
\* step: the operating system drops the locks and everything else stays, the
\* packages half installed where dpkg was at work.
EngineStops ==
  /\ pc # "idle"
  /\ faults < MaxFaults /\ faults' = faults + 1
  /\ Ends(1)
  /\ UNCHANGED <<files, host, rec, watch>>

Engine ==
  \/ EngineStart \/ EngineRefused \/ EngineReview
  \/ \E t \in Txns : EnginePurge(t) \/ EngineRetire(t) \/ EngineStage(t)
  \/ EngineRetireSync \/ EnginePreflight \/ EngineDefers \/ EngineFence \/ EnginePublish
  \/ EnginePublishSync \/ EngineAdvances \/ EngineLink \/ EngineLinkSync
  \/ EngineLinkFails \/ EngineDpkgStarts \/ EngineDpkgEnds \/ EngineChecks
  \/ EngineClear \/ EngineClearSync \/ EngineClearFails \/ EngineStops

-----------------------------------------------------------------------------
\* Reconciliation before the package change (pre_mutation_recovery.py)

RecoveryEnds ==
  rpc' = "idle" /\ rmark' = None /\ rrec' = None /\ Release("recovery")

\* recover_once: updater lock, the marker, the one unfinished record, the
\* stopped updater, and the Guardian fence.
MayRecover(t) ==
  /\ Unresolved(seen) = {t}
  /\ updaterLock = None /\ fence = None
  /\ seen.marker \in {None, t}
  /\ seen.marker # None => seen.jr[t].phase # "prepared"
  /\ unit.active # "active"

RecoveryStart ==
  /\ rpc = "called"
  /\ IF \E t \in Txns : MayRecover(t)
       THEN \E t \in Txns :
              /\ MayRecover(t)
              /\ rpc' = "locked" /\ rmark' = seen.marker /\ rrec' = t
              /\ updaterLock' = "recovery" /\ fence' = "recovery"
              /\ UNCHANGED dpkgLock
       ELSE RecoveryEnds
  /\ disk' = IF updaterLock = None THEN NamesSynced ELSE disk
  /\ UNCHANGED <<seen, host, engine, watch, faults>>

\* authorize: nothing may have reached dpkg, the inventory is still the one
\* the plan recorded, and everything else is stopped, clean and healthy.
Authorized(t) ==
  /\ seen.jr[t].phase \in SafePhases
  /\ pkgs = plan[t] /\ pkgs.whole
  /\ healthy
  /\ unit.active # "active"

\* _recover_under_locks: the dpkg locks, the second look, the authorisation.
RecoveryAuthorizes ==
  /\ rpc = "locked"
  /\ IF dpkgLock = None /\ seen.marker = rmark /\ Unresolved(seen) = {rrec} /\ Authorized(rrec)
       THEN /\ dpkgLock' = "recovery"
            /\ rpc' = IF seen.jr[rrec].phase = "prepared" THEN "abort"
                      ELSE IF seen.jr[rrec].phase = "pre_mutation_clear_intent" THEN "clear"
                      ELSE "intend"
            /\ UNCHANGED <<rmark, rrec, updaterLock, fence>>
       ELSE RecoveryEnds
  /\ UNCHANGED <<files, host, engine, watch, faults>>

RecoveryPhase ==
  [abort |-> "aborted", intend |-> "pre_mutation_clear_intent", settle |-> "pre_mutation_recovered"]

RecoveryAdvances ==
  /\ rpc \in DOMAIN RecoveryPhase
  /\ \/ /\ AdvanceDone(rrec, RecoveryPhase[rpc])
        /\ IF rpc = "intend" THEN rpc' = "clear" /\ UNCHANGED <<rmark, rrec, locks>>
           ELSE RecoveryEnds
        /\ UNCHANGED faults
     \/ AdvanceUnsure(rrec, RecoveryPhase[rpc]) /\ RecoveryEnds /\ faults' = faults + 1
  /\ UNCHANGED <<host, engine, watch>>

\* The interrupted publication's second name goes first, then the marker read
\* at the start, if there was one and it is still the same.
RecoveryClears ==
  /\ rpc = "clear"
  /\ IF rmark = None THEN rpc' = "settle" /\ UNCHANGED <<files, rmark, rrec, locks>>
     ELSE IF seen.marker = rmark
       THEN /\ seen' = [seen EXCEPT !.marker = None, !.alias = None]
            /\ disk' = [disk EXCEPT !.alias = None,
                                     !.marker = IF seen.alias = None THEN @ ELSE rmark]
            /\ rpc' = "unlinked"
            /\ UNCHANGED <<rmark, rrec, locks>>
       ELSE RecoveryEnds /\ UNCHANGED files
  /\ UNCHANGED <<host, engine, watch, faults>>

RecoveryClearSync ==
  /\ rpc = "unlinked"
  /\ disk' = [disk EXCEPT !.marker = seen.marker]
  /\ rpc' = "settle"
  /\ UNCHANGED <<seen, rmark, rrec, locks, host, engine, watch, faults>>

RecoveryClearFails ==
  /\ rpc = "unlinked"
  /\ faults < MaxFaults /\ faults' = faults + 1
  /\ seen' \in Remarked(rrec)
  /\ disk' \in {disk, [disk EXCEPT !.marker = seen'.marker]}
  /\ RecoveryEnds
  /\ UNCHANGED <<host, engine, watch>>

RecoveryKilled ==
  /\ rpc # "idle"
  /\ faults < MaxFaults /\ faults' = faults + 1
  /\ RecoveryEnds
  /\ UNCHANGED <<files, host, engine, watch>>

Recovery ==
  \/ RecoveryStart \/ RecoveryAuthorizes \/ RecoveryAdvances
  \/ RecoveryClears \/ RecoveryClearSync \/ RecoveryClearFails \/ RecoveryKilled

-----------------------------------------------------------------------------
\* The watchdog (update_watchdog.py)

Reports(result) == wpc' = "idle" /\ verdict' = result /\ UNCHANGED <<wmark, wrecs>>

\* check_once reads the unit, the marker, the journals and the unit again.
WatchUnit ==
  /\ wpc = "idle" /\ rpc = "idle"
  /\ IF unit.active = "active" THEN Reports("update_in_progress")
     ELSE wpc' = "marker" /\ verdict' = "none" /\ wmark' = None /\ wrecs' = {}
  /\ UNCHANGED <<files, host, engine, rec, locks, faults>>

WatchMarker ==
  /\ wpc = "marker"
  /\ IF seen.marker = Foreign THEN Reports("unverifiable")
     ELSE wpc' = "records" /\ wmark' = seen.marker /\ UNCHANGED <<wrecs, verdict>>
  /\ UNCHANGED <<files, host, engine, rec, locks, faults>>

WatchRecords ==
  /\ wpc = "records"
  /\ wpc' = "evaluate" /\ wrecs' = Unresolved(seen)
  /\ UNCHANGED <<wmark, verdict, files, host, engine, rec, locks, faults>>

Recoverable(t) ==
  /\ seen.jr[t].phase \in SafePhases
  /\ wmark # None => seen.jr[t].phase # "prepared"

\* evaluate, in the code's order of tests.
Verdict ==
  CASE Cardinality(wrecs) > 1 -> "multiple_unfinished"
    [] wmark # None /\ wrecs # {wmark} -> "marker_without_journal"
    [] \E t \in wrecs : ~Recoverable(t) -> "manual_recovery"
    [] wrecs # {} -> "recovery_available"
    [] unit.active = "failed" -> "last_update_failed"
    [] unit.exit = 2 -> "deferred_for_review"
    [] OTHER -> "idle"

\* Mutant: the second look at the unit is missing.
WatchEvaluatesAtOnce ==
  /\ wpc = "evaluate"
  /\ Reports(Verdict)
  /\ rpc' \in IF Verdict = "recovery_available" THEN {"idle", "called"} ELSE {"idle"}
  /\ UNCHANGED <<rmark, rrec, files, host, engine, locks, faults>>

WatchEvaluates ==
  /\ wpc = "evaluate"
  /\ IF unit.active = "active" THEN Reports("update_in_progress") /\ UNCHANGED rpc
     ELSE /\ Reports(Verdict)
          /\ rpc' \in IF Verdict = "recovery_available" THEN {"idle", "called"} ELSE {"idle"}
  /\ UNCHANGED <<rmark, rrec, files, host, engine, locks, faults>>

Watchdog == WatchUnit \/ WatchMarker \/ WatchRecords \/ WatchEvaluates

-----------------------------------------------------------------------------
\* The host around them

\* A Guardian run or backup holds the fence, shared, and refuses any marker.
WorkerStarts ==
  /\ fence = None /\ seen.marker = None
  /\ fence' = "worker"
  /\ UNCHANGED <<files, host, engine, rec, watch, updaterLock, dpkgLock, faults>>

WorkerEnds ==
  /\ fence = "worker" /\ fence' = None
  /\ UNCHANGED <<files, host, engine, rec, watch, updaterLock, dpkgLock, faults>>

\* Another maintenance program fences Guardian in the same way.
ForeignMarks ==
  /\ fence = None /\ seen.marker = None
  /\ seen' = [seen EXCEPT !.marker = Foreign]
  /\ disk' = [disk EXCEPT !.marker = Foreign]
  /\ UNCHANGED <<host, engine, rec, watch, locks, faults>>

ForeignUnmarks ==
  /\ seen.marker = Foreign
  /\ seen' = [seen EXCEPT !.marker = None]
  /\ disk' = [disk EXCEPT !.marker = None]
  /\ UNCHANGED <<host, engine, rec, watch, locks, faults>>

OtherPackages ==
  /\ dpkgLock = None /\ pkgs.other < MaxOther
  /\ pkgs' = [pkgs EXCEPT !.other = @ + 1]
  /\ UNCHANGED <<files, plan, offered, healthy, engine, rec, watch, locks, faults, touched>>

Offer(v) ==
  /\ v \in Releases \ offered
  /\ offered' = offered \cup {v}
  /\ UNCHANGED <<files, pkgs, plan, healthy, engine, rec, watch, locks, faults, touched>>

\* Containers that were down come back by themselves.
Heal ==
  /\ ~healthy /\ pkgs.whole /\ healthy' = TRUE
  /\ UNCHANGED <<files, pkgs, plan, offered, engine, rec, watch, locks, faults, touched>>

\* Everything stops; of each file either version survives.  systemd starts
\* with an updater that has not failed.
Survivors ==
  [place : {[t \in Txns |-> IF t \in S THEN seen.place[t] ELSE disk.place[t]] : S \in SUBSET Txns},
   jr : {[t \in Txns |-> IF t \in S THEN seen.jr[t] ELSE disk.jr[t]] : S \in SUBSET Txns},
   art : {seen.art}, marker : {seen.marker, disk.marker}, alias : {seen.alias, disk.alias}]

PowerFails ==
  /\ faults < MaxFaults /\ faults' = faults + 1
  /\ seen' \in Survivors /\ disk' = seen'
  /\ pc' = "idle" /\ txn' = None /\ target' = None
  /\ unit' = [active |-> "inactive", exit |-> 0]
  /\ rpc' = "idle" /\ rmark' = None /\ rrec' = None
  /\ wpc' = "idle" /\ wmark' = None /\ wrecs' = {} /\ verdict' = "none"
  /\ updaterLock' = None /\ fence' = None /\ dpkgLock' = None
  /\ UNCHANGED host

Host ==
  \/ WorkerStarts \/ WorkerEnds \/ ForeignMarks \/ ForeignUnmarks
  \/ OtherPackages \/ Heal \/ (\E v \in Releases : Offer(v)) \/ PowerFails

Next == Engine \/ Recovery \/ Watchdog \/ Host

Spec == Init /\ [][Next]_vars
=============================================================================
