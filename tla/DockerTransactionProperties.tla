---------------------- MODULE DockerTransactionProperties ----------------------
(***************************************************************************)
(* What the automatic Docker update promises, whatever the host does to it.*)
(***************************************************************************)
EXTENDS DockerTransaction

EngineSteps ==
  {"idle", "clean", "purge", "retire", "stage", "fence", "publish", "published",
   "link", "linked", "dpkg", "unpacking", "check", "clear", "unlinked"} \cup DOMAIN StepAfter

Inventories == [ver : Releases \cup {Installed0}, whole : BOOLEAN, other : 0..MaxOther]
FileStates ==
  [place : [Txns -> {"none", "preflight", "active", "retired", "gone"}],
   jr : [Txns -> Records \cup {NoRecord}], art : [Txns -> BOOLEAN],
   marker : Txns \cup {None, Foreign}, alias : Txns \cup {None}]

\* Every variable keeps its type (the state that apply, recover_once and
\* check_once read and write).
TypeOK ==
  /\ seen \in FileStates /\ disk \in FileStates
  /\ pkgs \in Inventories /\ plan \in [Txns -> Inventories]
  /\ offered \subseteq Releases \cup {Installed0} /\ healthy \in BOOLEAN
  /\ pc \in EngineSteps /\ txn \in Txns \cup {None}
  /\ target \in Releases \cup {None}
  /\ unit \in [active : {"inactive", "active", "failed"}, exit : {0, 1, 2}]
  /\ rpc \in {"idle", "called", "locked", "clear", "unlinked"} \cup DOMAIN RecoveryPhase
  /\ rmark \in Txns \cup {None} /\ rrec \in Txns \cup {None}
  /\ wpc \in {"idle", "marker", "records", "evaluate"}
  /\ wmark \in Txns \cup {None} /\ wrecs \subseteq Txns
  /\ updaterLock \in {None, "engine", "recovery"}
  /\ fence \in {None, "engine", "recovery", "worker"}
  /\ dpkgLock \in {None, "engine", "recovery"}
  /\ faults \in 0..MaxFaults /\ touched \subseteq Txns

\* The states a restart can find: what is read now, or what a power failure
\* would leave of it.
Outcomes == {seen} \cup Survivors

\* engine.py promises that an interrupted package change stays fenced: from
\* dpkg's first write until its result has been verified, the marker of that
\* transaction and its journal at mutation_pending survive whatever happens,
\* and no Guardian worker or backup runs.  A package database in pieces always
\* has such a transaction to blame.
UnfinishedChangeIsFenced ==
  /\ \A t \in touched : seen.jr[t].phase = "mutation_pending" =>
       /\ fence # "worker"
       /\ \A f \in Outcomes : /\ f.marker = t
                              /\ f.place[t] = "active"
                              /\ f.jr[t].phase = "mutation_pending"
  /\ ~pkgs.whole => \E t \in touched : seen.jr[t].phase = "mutation_pending"

\* A marker the updater published never outlives its transaction: whoever
\* finds it finds an unfinished journal that says what to do with it, so the
\* watchdog never has to report a fence nobody explains.  It need not be the
\* only one: a final record replaced and never synchronised lets the next
\* update start, and a power failure then brings the older journal back.  The
\* exception: a recovery that dies after the unlink and before the directory
\* is synchronised; the next one sees no marker and settles the journal, and a
\* power failure then brings the marker back.
MarkerHasItsJournal ==
  \A f \in Outcomes : f.marker \in Txns =>
    \/ f.marker \in Unresolved(f) /\ f.jr[f.marker].phase # "prepared"
    \/ f.jr[f.marker].phase = "pre_mutation_recovered"

\* However a run or a clean-up was interrupted, the next one can read what it
\* finds: each active directory holds a record that passes _read, and what is
\* retired either still has its terminal journal or nothing else left.
\* Otherwise every later run would refuse, for ever.
StateStaysReadable ==
  \A f \in Outcomes :
    /\ Cardinality(Unresolved(f)) <= 1
    /\ \A t \in Active(f) : f.jr[t] # NoRecord /\ f.jr[t].gen \in PhaseGenerations[f.jr[t].phase]
    /\ \A t \in Txns : f.place[t] = "retired" =>
         IF f.jr[t] = NoRecord THEN ~f.art[t] ELSE f.jr[t].phase \in Terminal

\* Artifacts of a completed update are pruned only while Keep newer installed
\* ones still have theirs, whatever a power failure takes back.
RollbackKept ==
  \A f \in Outcomes : \A t \in Txns :
    f.jr[t].phase = "completed" /\ (f.place[t] = "retired" \/ ~f.art[t]) =>
      Cardinality({u \in Active(f) : u > t /\ u \in touched /\ f.art[u]}) >= Keep

\* The watchdog says idle only when nothing is left to do: no unfinished
\* journal and no marker of the updater, although it reads the unit, the
\* marker and the journals at different times.
IdleIsTrue ==
  [][verdict' = "idle" /\ wpc = "evaluate"
       => Unresolved(seen) = {} /\ seen.marker \notin Txns]_vars
=============================================================================
