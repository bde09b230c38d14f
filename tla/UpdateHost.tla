------------------------------ MODULE UpdateHost ------------------------------
(***************************************************************************)
(* The host that the four scheduled updaters of                            *)
(* security-maintenance/simple-updates share: one global update lock, one  *)
(* migration fence and marker, two Guardian timers, the mailbox worker,    *)
(* the installed packages, the installed release and the container stack.  *)
(*                                                                         *)
(* Every file the updaters write is synchronised before their next step    *)
(* (write_state, atomic, durable_unlink, clear_own_marker), so a file has  *)
(* one value here; what an unfinished synchronisation can leave behind is  *)
(* the subject of DockerTransaction.                                       *)
(*                                                                         *)
(* The two timers go together: a mask of only one of them counts as        *)
(* "enabled", since both are read as a pair and neither test passes.       *)
(***************************************************************************)
EXTENDS Naturals, FiniteSets

CONSTANTS
  MaxVersion,  \* bound: versions of each kind of package or image
  MaxFaults,   \* bound: failures, kills, failed passes and power failures
  MaxManual,   \* bound: passes an operator starts by hand
  MaxForeign,  \* bound: markers of other programs
  None,        \* no updater, no marker, nobody in the fence
  Foreign      \* the marker of another maintenance program

Packages == {"docker", "ubuntu"}
Bundles == {"image", "application"}
Updaters == Packages \cup Bundles

Releases == [image : 0..MaxVersion, application : 0..MaxVersion]

ASSUME UpdateAssumption ==
  /\ {MaxVersion, MaxFaults, MaxManual, MaxForeign} \subseteq Nat
  /\ None \notin Updaters \cup {"worker", "update", "release"}
  /\ Foreign \notin Updaters \cup {"release", None}

VARIABLES
  job,        \* the holder of the global lock: [who, step, again]
  pend,       \* durable journal phase of each updater
  plan,       \* versions the journal of each package updater names
  bundle,     \* releases the journal of each release updater names
  marker,     \* migration-pending: None, its owner, or Foreign
  timers,     \* [file, ticking] of mail-guardian@ and mail-guardian-backup@
  fence,      \* migration.lock: None, "worker" (shared) or "update"
  worker,     \* mail-guardian@pilot.service
  backed,     \* a recovery point exists that covers every pass
  unchanged,  \* no pass since the job read the worker's evidence
  pkgs,       \* dpkg: [ver, whole] per updater
  rebooted,   \* the host has booted since the Ubuntu journal was opened
  stale,      \* a reboot is needed to activate what is installed
  inst,       \* what is installed: [runtime, helper, current]
  stack,      \* the containers: [up, release]
  baseline,   \* the approved source generation of the application
  spent       \* [faults, manual, foreign], against the bounds

vars == <<job, pend, plan, bundle, marker, timers, fence, worker, backed, unchanged,
          pkgs, rebooted, stale, inst, stack, baseline, spent>>
mail == <<worker, backed, unchanged>>
system == <<pkgs, rebooted, stale>>
release == <<inst, stack, baseline>>

NoJob == [who |-> None, step |-> "none", again |-> FALSE]
On == [file |-> "enabled", ticking |-> TRUE]
Off == [file |-> "disabled", ticking |-> FALSE]
NoPlan == [old |-> 0, new |-> 0, rehearsal |-> FALSE]
First == [image |-> 0, application |-> 0]
NoBundle == [old |-> First, new |-> First]
Installed(r) == [runtime |-> r, helper |-> r, current |-> r]
Consistent == inst = Installed(inst.current)

Init ==
  /\ job = NoJob
  /\ pend = [u \in Updaters |-> "none"]
  /\ plan = [u \in Packages |-> NoPlan]
  /\ bundle = [u \in Bundles |-> NoBundle]
  /\ marker = None /\ timers = On /\ fence = None
  /\ worker = "idle" /\ backed = FALSE /\ unchanged = FALSE
  /\ pkgs = [u \in Packages |-> [ver |-> 0, whole |-> TRUE]]
  /\ rebooted = FALSE /\ stale = FALSE
  /\ inst = Installed(First)
  /\ stack = [up |-> TRUE, release |-> First]
  /\ baseline = 0
  /\ spent = [faults |-> 0, manual |-> 0, foreign |-> 0]

-----------------------------------------------------------------------------
\* Steps of the job

At(u, step) == job.who = u /\ job.step = step
Goto(step) == job' = [job EXCEPT !.step = step]

\* The process ends: the operating system drops its locks.
Leaves == job' = NoJob /\ fence' = IF fence = "update" THEN None ELSE fence
Done == Leaves /\ UNCHANGED <<pend, plan, bundle, marker, timers, mail, system, release, spent>>

Others(u) == {v \in Updaters \ {u} : pend[v] # "none"}

-----------------------------------------------------------------------------
\* The worker, its timers and the operator

Refused == fence = "update" \/ marker # None

\* A pass takes the fence shared and refuses a marker; a refused or failed
\* pass leaves the unit failed until its next start or a reset.
PassStarts ==
  /\ worker # "running" /\ ~Refused /\ fence = None
  /\ worker' = "running" /\ fence' = "worker"
  /\ backed' = FALSE /\ unchanged' = FALSE

TimerStarts ==
  /\ timers.ticking /\ PassStarts
  /\ UNCHANGED <<job, pend, plan, bundle, marker, timers, system, release, spent>>

TimerRefused ==
  /\ timers.ticking /\ worker = "idle" /\ Refused
  /\ worker' = "failed"
  /\ UNCHANGED <<job, pend, plan, bundle, marker, timers, fence, backed, unchanged,
                 system, release, spent>>

OperatorStarts ==
  /\ spent.manual < MaxManual /\ spent' = [spent EXCEPT !.manual = @ + 1]
  /\ PassStarts
  /\ UNCHANGED <<job, pend, plan, bundle, marker, timers, system, release>>

PassEnds ==
  /\ worker = "running"
  /\ \/ worker' = "idle" /\ UNCHANGED spent
     \/ /\ spent.faults < MaxFaults /\ spent' = [spent EXCEPT !.faults = @ + 1]
        /\ worker' = "failed"
  /\ fence' = None
  /\ UNCHANGED <<job, pend, plan, bundle, marker, timers, backed, unchanged, system, release>>

\* Another program fences Guardian, with the fence held, and ends that again.
ForeignMarks ==
  /\ spent.foreign < MaxForeign /\ spent' = [spent EXCEPT !.foreign = @ + 1]
  /\ fence = None /\ marker = None
  /\ marker' = Foreign
  /\ UNCHANGED <<job, pend, plan, bundle, timers, fence, mail, system, release>>

ForeignUnmarks ==
  /\ marker = Foreign /\ marker' = None
  /\ UNCHANGED <<job, pend, plan, bundle, timers, fence, mail, system, release, spent>>

\* Power failure or reboot: no process survives, failed units are forgotten,
\* enabled timers start, stopped containers stay down.
Boots ==
  /\ job' = NoJob /\ fence' = None
  /\ worker' = "idle" /\ unchanged' = FALSE
  /\ timers' = [timers EXCEPT !.ticking = (timers.file = "enabled")]
  /\ rebooted' = (pend["ubuntu"] # "none") /\ stale' = FALSE
  /\ UNCHANGED <<pend, plan, bundle, marker, backed, pkgs, release>>

PowerFails ==
  /\ spent.faults < MaxFaults /\ spent' = [spent EXCEPT !.faults = @ + 1]
  /\ Boots

\* The job is killed: by its time-out, or by an exception that nothing handles.
Killed ==
  /\ job.who # None
  /\ spent.faults < MaxFaults /\ spent' = [spent EXCEPT !.faults = @ + 1]
  /\ Leaves
  /\ UNCHANGED <<pend, plan, bundle, marker, timers, mail, system, release>>

Environment ==
  \/ TimerStarts \/ TimerRefused \/ OperatorStarts \/ PassEnds
  \/ ForeignMarks \/ ForeignUnmarks \/ PowerFails \/ Killed
=============================================================================
