---------------------------- MODULE Authorization ----------------------------
(***************************************************************************)
(* Who lets Guardian decide on its own: the configuration file with the    *)
(* mode and the permission to delete for good, the clocks and proofs in    *)
(* the settings table, and the Bayes model whose revisions must never go   *)
(* back.  The owner's commands (cmd/guardian: mode, purge, qualify, setup) *)
(* change the file and the settings in separate writes, a run checks them  *)
(* and may itself withdraw the permission; any of them may die between two *)
(* writes.                                                                 *)
(*                                                                         *)
(* A command reads the configuration before it asks for the instance lock; *)
(* a run reads it again under the lock.  That is why several processes are *)
(* modelled, although one at a time holds the lock.                        *)
(*                                                                         *)
(* The spam and the ham revision of the model are one number here: every   *)
(* check treats them alike.  What a run does with mail is GuardianRun; here*)
(* it learns some corrections and then either decides or is refused.       *)
(*                                                                         *)
(* A definition called a slip is no part of the system: it is a mistake    *)
(* that the definition below it could contain, kept to show that the       *)
(* properties notice it.                                                   *)
(***************************************************************************)
EXTENDS Integers, FiniteSets

CONSTANTS
  Procs,          \* processes that may run a command
  Layouts,        \* folder layouts, as Config.AuthorizationFingerprint tells them apart
  Linux,          \* TRUE: the server build, with model checkpoints and no owner commands
  Commands,       \* the commands the owner uses
  CutShort,       \* TRUE: a command may end between the writes of a return to protect mode
  ProtectDays,    \* Safety.ProtectDays
  PurgeDays,      \* the 30 days of active mode before permanent deletion
  MinLearn,       \* Safety.MinLearnSpam and MinLearnHam
  MaxTime, MaxRevision, MaxFaults, MaxRestores   \* bounds of the model

ASSUME AuthorizationAssumption ==
  /\ Linux \in BOOLEAN /\ CutShort \in BOOLEAN
  /\ Commands \subseteq {"protect", "active", "enable", "disable", "qualify", "setup",
                         "dryrun", "purge"}
  /\ ProtectDays \in Nat \ {0} /\ PurgeDays \in Nat \ {0} /\ MinLearn \in Nat
  /\ MaxTime \in Nat /\ ProtectDays <= MaxTime /\ MaxRevision \in Nat \ {0}
  /\ MaxFaults \in Nat /\ MaxRestores \in Nat

VARIABLES
  now,        \* the day
  file,       \* the configuration file
  db,         \* the settings table
  trained,    \* corrections the journal counts as learned
  good,       \* days on which a correction agreed with an earlier verdict
  mistakes,   \* days on which one contradicted an earlier verdict
  rev,        \* revision of the Bayes model
  saved,      \* revision of the newest backup of the model
  lock,       \* {}, or the process that holds the instance lock
  proc,       \* what every process is doing
  watch,      \* history: the mode the commands found, since when, and for how long the other one lasted
  gone,       \* history: what a restored model has lost that no check has noticed
  rehearsed,  \* history: the layout of the last successful dry run
  faults, restores

world   == <<now, trained, good, mistakes, rev, saved>>
history == <<watch, gone, rehearsed>>
budget  == <<faults, restores>>
vars == <<world, file, db, lock, proc, history, budget>>

None == -1
Day  == 0 .. MaxTime
Date == Day \cup {None}
Modes == {"protect", "active"}

Config == [mode : Modes, purge : BOOLEAN, layout : Layouts, low : BOOLEAN]

(* low: the spam threshold is below 12.  report: filter_qualification_v1. *)
Report   == [layout : Layouts, low : BOOLEAN, at : Day]
NoReport == [at |-> None]

Settings == [protect : Day, active : Date, proof : BOOLEAN, required : BOOLEAN,
             bound : Layouts, report : Report \cup {NoReport},
             high : 0 .. MaxRevision \cup {None}, rollback : BOOLEAN, marker : BOOLEAN]

NoConfig == [mode |-> "none"]

Begun(op, at, c, new) == [op |-> op, at |-> at, cfg |-> c, new |-> new, late |-> FALSE,
                          taught |-> FALSE, erred |-> FALSE, old |-> NoReport]
Idle == Begun("none", "idle", NoConfig, NoConfig)

Fault   == faults < MaxFaults /\ faults' = faults + 1 /\ UNCHANGED restores
Sound   == UNCHANGED budget

At(p, op, s) == proc[p].op = op /\ proc[p].at = s
Goes(p, s) == proc' = [proc EXCEPT ![p] = [@ EXCEPT !.at = s]]
Sets(new) == db' = new

(* The instance lock is free again, and the mode in the file is what the next
   command will find. *)
Ends(p, c) ==
  /\ lock' = {}
  /\ proc' = [proc EXCEPT ![p] = Idle]
  /\ watch' = IF c.mode = watch.mode THEN watch
              ELSE [mode |-> c.mode, since |-> now, before |-> now - watch.since]
  /\ UNCHANGED <<gone, rehearsed>>

-----------------------------------------------------------------------------
(* The gates *)

(* Store.CurrentQualification: a stored report that does not fit the
   configuration, or that a later mistake refutes, is an error. *)
Refuted == \E d \in mistakes : d > db.report.at

ReportHolds(c) ==
  /\ db.report.layout = c.layout /\ db.report.low = c.low
  /\ ~ Refuted

(* Store.ActivationQualityUntil and ActivationQuality.Ready. *)
Sample(from, to) ==
  /\ \E d \in good : from <= d /\ d <= to
  /\ ~ \E d \in mistakes : from <= d /\ d <= to

Evidence(c, until) ==
  \/ db.report # NoReport /\ ReportHolds(c)
  \/ db.report = NoReport /\ ~ c.low /\ Sample(db.protect, until)

(* Engine.requireActivationQuality *)
ActivationQuality(c) ==
  /\ db.protect + ProtectDays <= now
  /\ db.active # None /\ db.protect <= db.active
  /\ Evidence(c, db.active)

(* Store.RequireOperationalAuthorization *)
Rehearsed == db.required => db.proof

NoRecentMistake == ~ \E d \in mistakes : d >= now - PurgeDays

PurgeReadyAnytime == trained >= MinLearn /\ NoRecentMistake              \* a slip

(* What "purge enable" and every purge ask alike. *)
PurgeReady ==
  /\ db.active # None /\ db.active + PurgeDays <= now
  /\ trained >= MinLearn
  /\ NoRecentMistake

(* Engine.requirePurgeQuality *)
PurgeQuality(c) == ActivationQuality(c) /\ PurgeReady

(* Store.RequireConfiguration *)
ConfigurationMatches(c) == db.bound = c.layout /\ Rehearsed

(* Slip: the proof of the dry run survives a change of the folders. *)
BoundToAny(s, c) ==
  IF s.bound = c.layout THEN s
  ELSE [s EXCEPT !.bound = c.layout, !.active = None, !.protect = now]

(* Store.BindConfiguration: another folder layout revokes what was permitted. *)
BoundTo(s, c) ==
  IF s.bound = c.layout THEN s
  ELSE [s EXCEPT !.bound = c.layout, !.proof = FALSE, !.required = TRUE,
                 !.active = None, !.protect = now]

(* Store.RequireFreshDryRun *)
Fresh(s) == [s EXCEPT !.proof = FALSE, !.active = None, !.protect = now]

-----------------------------------------------------------------------------
(* Locking *)

(* A command of the owner reads the file, then asks for the lock. *)
Load(p, op) ==
  /\ ~ Linux /\ op \in Commands \cap {"protect", "active", "enable", "disable", "qualify", "setup"}
  /\ proc[p].at = "idle"
  /\ \E l \in Layouts :
       /\ op # "setup" => l = file.layout
       /\ proc' = [proc EXCEPT ![p] =
            Begun(op, "loaded", file, [file EXCEPT !.layout = l])]
  /\ Sound
  /\ UNCHANGED <<world, file, db, lock, history>>

Lock(p) ==
  /\ proc[p].at = "loaded"
  /\ \/ lock = {} /\ lock' = {p} /\ Goes(p, "locked")
     \/ lock # {} /\ UNCHANGED lock /\ proc' = [proc EXCEPT ![p] = Idle]
  /\ Sound
  /\ UNCHANGED <<world, file, db, history>>

(* A run, a dry run and a manual purge read the file under the lock. *)
Start(p, op) ==
  /\ op \in {"run"} \cup (Commands \cap {"dryrun", "purge"})
  /\ proc[p].at = "idle" /\ lock = {} /\ lock' = {p}
  /\ proc' = [proc EXCEPT ![p] = Begun(op, "bind", file, NoConfig)]
  /\ Sound
  /\ UNCHANGED <<world, file, db, history>>

(* openRuntime and Engine.prepareStore; refused while moves are pending under
   the old layout. *)
Bind(p) ==
  /\ proc[p].at = "bind"
  /\ \/ /\ Sets(BoundTo(db, proc[p].cfg))
        /\ Goes(p, IF proc[p].op = "dryrun" THEN "preview" ELSE "stats")
        /\ UNCHANGED <<lock, history>>
     \/ /\ db.bound # proc[p].cfg.layout
        /\ Ends(p, file) /\ UNCHANGED db
  /\ Sound
  /\ UNCHANGED <<world, file>>

(* A dry run changes nothing but the proof, and that only if it succeeded. *)
Preview(p) ==
  /\ At(p, "dryrun", "preview")
  /\ Sets([db EXCEPT !.proof = TRUE])
  /\ lock' = {} /\ proc' = [proc EXCEPT ![p] = Idle]
  /\ rehearsed' = {proc[p].cfg.layout}
  /\ Sound
  /\ UNCHANGED <<world, file, watch, gone>>

-----------------------------------------------------------------------------
(* ensureBayesContinuity: before a run or a purge, and on the Mac after it. *)

Unsafe(c) == c.mode = "active" \/ c.purge

(* The model is asked before it is trusted; without an answer only protect mode
   goes on. *)
NextStep(p) ==
  IF proc[p].late THEN "backup"
  ELSE IF proc[p].op = "purge" THEN "purge"
  ELSE IF Linux THEN "mark" ELSE "authorize"

StatsFail(p) ==
  /\ proc[p].at = "stats"
  /\ IF Unsafe(proc[p].cfg) /\ ~ proc[p].late
     THEN Ends(p, file)
     ELSE Goes(p, NextStep(p)) /\ UNCHANGED <<lock, history>>
  /\ Fault
  /\ UNCHANGED <<world, file, db>>

RegressedAtFirstSight == db.high = None /\ rev < trained       \* a slip

Regressed ==
  IF db.high = None THEN rev < trained ELSE rev < db.high

Highest(a, b) == IF a > b THEN a ELSE b

(* The highest revision ever seen is recorded before anything else. *)
ReadStats(p) ==
  /\ proc[p].at = "stats"
  /\ Sets([db EXCEPT !.high = Highest(rev, IF @ = None THEN trained ELSE @)])
  /\ Goes(p, IF Regressed THEN "downgrade" ELSE "continuous")
  /\ gone' = IF Regressed THEN "nothing" ELSE gone
  /\ Sound
  /\ UNCHANGED <<world, file, lock, watch, rehearsed>>

Continuous(p) ==
  /\ proc[p].at = "continuous"
  /\ Sets([db EXCEPT !.rollback = FALSE])
  /\ Goes(p, NextStep(p))
  /\ Sound
  /\ UNCHANGED <<world, file, lock, history>>

(* The file first.  The server's file belongs to the administrator: Guardian
   cannot write it there, and the command ends ... *)
Downgrade(p) ==
  /\ proc[p].at = "downgrade"
  /\ IF Linux
     THEN Ends(p, file) /\ UNCHANGED file
     ELSE /\ file' = [proc[p].cfg EXCEPT !.mode = "protect", !.purge = FALSE]
          /\ proc' = [proc EXCEPT ![p] =
               [@ EXCEPT !.cfg = file',
                         !.at = IF Unsafe(proc[p].cfg) \/ ~ db.rollback THEN "restart" ELSE "noted"]]
          /\ UNCHANGED <<lock, history>>
  /\ Sound
  /\ UNCHANGED <<world, db>>

(* ... then the clocks ... *)
RestartObservation(p) ==
  /\ proc[p].at = "restart"
  /\ Sets([db EXCEPT !.protect = now])
  /\ Goes(p, "forget")
  /\ Sound
  /\ UNCHANGED <<world, file, lock, history>>

ForgetActivation(p) ==
  /\ proc[p].at = "forget"
  /\ Sets([db EXCEPT !.active = None])
  /\ Goes(p, "noted")
  /\ Sound
  /\ UNCHANGED <<world, file, lock, history>>

(* ... then the note that it was done.  A manual purge ends here. *)
NoteRollback(p) ==
  /\ proc[p].at = "noted"
  /\ Sets([db EXCEPT !.rollback = TRUE])
  /\ IF proc[p].op = "purge" THEN Ends(p, file)
     ELSE Goes(p, NextStep(p)) /\ UNCHANGED <<lock, history>>
  /\ Sound
  /\ UNCHANGED <<world, file>>

-----------------------------------------------------------------------------
(* prepareLinuxMutation and finishLinuxMutation *)

(* Slip: the marker is not set. *)
RequireNothing(p) ==
  /\ proc[p].at = "mark"
  /\ Goes(p, "checkpoint")
  /\ Sound
  /\ UNCHANGED <<world, file, db, lock, history>>

RequireCheckpoint(p) ==
  /\ proc[p].at = "mark"
  /\ Sets([db EXCEPT !.marker = TRUE])
  /\ Goes(p, "checkpoint")
  /\ Sound
  /\ UNCHANGED <<world, file, lock, history>>

(* linuxModelCheckpoint: compared, then backed up; otherwise the command ends
   and the marker stays. *)
Checkpoint(p) ==
  /\ proc[p].at = "checkpoint"
  /\ IF Regressed
     THEN /\ Ends(p, file) /\ UNCHANGED saved
     ELSE /\ saved' = rev /\ Goes(p, "record")
          /\ UNCHANGED <<lock, watch, gone, rehearsed>>
  /\ Sound
  /\ UNCHANGED <<now, trained, good, mistakes, rev, file, db>>

RecordHighWater(p) ==
  /\ proc[p].at = "record"
  /\ Sets([db EXCEPT !.high = rev])
  /\ Goes(p, IF proc[p].late THEN "release" ELSE "authorize")
  /\ Sound
  /\ UNCHANGED <<world, file, lock, history>>

ReleaseMarker(p) ==
  /\ proc[p].at = "release"
  /\ Sets([db EXCEPT !.marker = FALSE])
  /\ IF proc[p].erred THEN Ends(p, file)
     ELSE Goes(p, "cleanup") /\ UNCHANGED <<lock, history>>
  /\ Sound
  /\ UNCHANGED <<world, file>>

-----------------------------------------------------------------------------
(* Engine.Run *)

(* After the engine, whether it succeeded or not, the model is secured; on the
   Mac not if the run failed before it learned anything. *)
Leaves(p, erred) ==
  IF ~ Linux /\ erred /\ ~ proc[p].taught
  THEN Ends(p, file)
  ELSE /\ proc' = [proc EXCEPT ![p] = [@ EXCEPT !.late = TRUE, !.erred = erred,
                                               !.at = IF Linux THEN "mark" ELSE "stats"]]
       /\ UNCHANGED <<lock, history>>

(* Store.RequireOperationalAuthorization in Engine.Run *)
Authorize(p) ==
  /\ proc[p].at = "authorize"
  /\ IF Rehearsed
     THEN Goes(p, "train") /\ UNCHANGED <<lock, history>>
     ELSE Leaves(p, TRUE)
  /\ Sound
  /\ UNCHANGED <<world, file, db>>

(* A correction is learned, then journalled. *)
Learn(p) ==
  /\ proc[p].at = "train" /\ rev < MaxRevision /\ trained < MaxRevision
  /\ rev' = rev + 1
  /\ Goes(p, "learned")
  /\ Sound
  /\ UNCHANGED <<now, trained, good, mistakes, saved, file, db, lock, history>>

MarkLearned(p, agrees) ==
  /\ proc[p].at = "learned"
  /\ trained' = trained + 1
  /\ IF agrees THEN good' = good \cup {now} /\ UNCHANGED mistakes
               ELSE mistakes' = mistakes \cup {now} /\ UNCHANGED good
  /\ proc' = [proc EXCEPT ![p] = [@ EXCEPT !.at = "train", !.taught = TRUE]]
  /\ Sound
  /\ UNCHANGED <<now, rev, saved, file, db, lock, history>>

(* Automatic decisions: in active mode behind the quality gate. *)
Decide(p) ==
  /\ proc[p].at = "train"
  /\ proc[p].cfg.mode = "active" => ActivationQuality(proc[p].cfg)
  /\ Leaves(p, FALSE)
  /\ Sound
  /\ UNCHANGED <<world, file, db>>

Refuse(p) ==
  /\ proc[p].at = "train"
  /\ proc[p].cfg.mode = "active" /\ ~ ActivationQuality(proc[p].cfg)
  /\ Leaves(p, TRUE)
  /\ Sound
  /\ UNCHANGED <<world, file, db>>

(* A failure of the mail session does not keep the model from being secured. *)
EngineFails(p) ==
  /\ proc[p].at \in {"authorize", "train", "learned"}
  /\ Leaves(p, TRUE)
  /\ Fault
  /\ UNCHANGED <<world, file, db>>

(* The backup on the Mac. *)
BackUp(p) ==
  /\ proc[p].at = "backup"
  /\ saved' = rev
  /\ IF proc[p].erred THEN Ends(p, file)
     ELSE Goes(p, "cleanup") /\ UNCHANGED <<lock, history>>
  /\ Sound
  /\ UNCHANGED <<now, trained, good, mistakes, rev, file, db>>

(* Engine.Purge at the end of a run, if the configuration of the run says so. *)
PurgeAllowed(c) ==
  /\ c.purge /\ c.mode = "active"
  /\ Rehearsed
  /\ PurgeQuality(c)

CleanUp(p) ==
  /\ proc[p].at = "cleanup"
  /\ IF PurgeAllowed(proc[p].cfg)
     THEN Goes(p, "purged") /\ UNCHANGED <<lock, history>>
     ELSE Ends(p, file)
  /\ Sound
  /\ UNCHANGED <<world, file, db>>

PurgeByHand(p) ==
  /\ At(p, "purge", "purge")
  /\ IF PurgeAllowed(proc[p].cfg)
     THEN Goes(p, "purged") /\ UNCHANGED <<lock, history>>
     ELSE Ends(p, file)
  /\ Sound
  /\ UNCHANGED <<world, file, db>>

Purged(p) ==
  /\ proc[p].at = "purged"
  /\ Ends(p, file)
  /\ Sound
  /\ UNCHANGED <<world, file, db>>

-----------------------------------------------------------------------------
(* mode protect: the file, then the two clocks. *)

SaveProtect(p) ==
  /\ At(p, "protect", "locked")
  /\ IF proc[p].cfg.mode = "protect"
     THEN Ends(p, file) /\ UNCHANGED file
     ELSE /\ file' = [proc[p].cfg EXCEPT !.mode = "protect", !.purge = FALSE]
          /\ Goes(p, "saved") /\ UNCHANGED <<lock, history>>
  /\ Sound
  /\ UNCHANGED <<world, db>>

ProtectForgetsActivation(p) ==
  /\ At(p, "protect", "saved")
  /\ Sets([db EXCEPT !.active = None])
  /\ Goes(p, "forgotten")
  /\ Sound
  /\ UNCHANGED <<world, file, lock, history>>

ProtectRestartsObservation(p) ==
  /\ At(p, "protect", "forgotten")
  /\ Sets([db EXCEPT !.protect = now])
  /\ Ends(p, file)
  /\ Sound
  /\ UNCHANGED <<world, file>>

(* Slip: the days of observation are not counted. *)
MayActivateEarly(c) ==
  /\ c.mode = "protect"
  /\ ConfigurationMatches(c)
  /\ Evidence(c, now)

(* mode active: the clock, then the file. *)
MayActivate(c) ==
  /\ c.mode = "protect"
  /\ ConfigurationMatches(c)
  /\ db.protect + ProtectDays <= now
  /\ Evidence(c, now)

StartActiveClock(p) ==
  /\ At(p, "active", "locked")
  /\ IF MayActivate(proc[p].cfg)
     THEN /\ Sets([db EXCEPT !.active = now])
          /\ Goes(p, "clocked") /\ UNCHANGED <<lock, history>>
     ELSE Ends(p, file) /\ UNCHANGED db
  /\ Sound
  /\ UNCHANGED <<world, file>>

SaveActive(p) ==
  /\ At(p, "active", "clocked")
  /\ \/ /\ file' = [proc[p].cfg EXCEPT !.mode = "active", !.purge = FALSE]
        /\ UNCHANGED db /\ Sound
     \/ /\ Sets([db EXCEPT !.active = None])        \* the file could not be written
        /\ UNCHANGED file /\ Fault
  /\ Ends(p, file')
  /\ UNCHANGED world

(* purge enable | disable *)
MayEnable(c) == c.mode = "active" /\ ConfigurationMatches(c) /\ PurgeReady

SetPurge(p) ==
  /\ At(p, "enable", "locked") \/ At(p, "disable", "locked")
  /\ file' = IF proc[p].op = "disable" \/ MayEnable(proc[p].cfg)
             THEN [proc[p].cfg EXCEPT !.purge = proc[p].op = "enable"] ELSE file
  /\ Ends(p, file')
  /\ Sound
  /\ UNCHANGED <<world, db>>

(* installQualification: the report, then the threshold it was measured with. *)
SaveQualification(p) ==
  /\ At(p, "qualify", "locked")
  /\ \/ \E low \in BOOLEAN :
          /\ ConfigurationMatches(proc[p].cfg)
          /\ Sets([db EXCEPT !.report = [layout |-> proc[p].cfg.layout, low |-> low, at |-> now]])
          /\ proc' = [proc EXCEPT ![p] = [@ EXCEPT !.at = "qualified", !.old = db.report,
                                                   !.new = [proc[p].new EXCEPT !.low = low]]]
          /\ UNCHANGED <<lock, history>>
     \/ Ends(p, file) /\ UNCHANGED db               \* the evaluation failed
  /\ Sound
  /\ UNCHANGED <<world, file>>

SaveThreshold(p) ==
  /\ At(p, "qualify", "qualified")
  /\ \/ /\ file' = proc[p].new
        /\ UNCHANGED db /\ Sound
     \/ /\ Sets([db EXCEPT !.report = proc[p].old])
        /\ UNCHANGED file /\ Fault
  /\ Ends(p, file')
  /\ UNCHANGED world

-----------------------------------------------------------------------------
(* setup of the account again: the old binding is confirmed, the new file is
   written, then bound, then a new dry run is required; a failure on the way
   puts the old file back. *)

BindPrevious(p) ==
  /\ At(p, "setup", "locked")
  /\ \/ Sets(BoundTo(db, proc[p].cfg)) /\ Goes(p, "prepared") /\ UNCHANGED <<lock, history>>
     \/ db.bound # proc[p].cfg.layout /\ Ends(p, file) /\ UNCHANGED db
  /\ Sound
  /\ UNCHANGED <<world, file>>

SaveSetup(p) ==
  /\ At(p, "setup", "prepared")
  /\ file' = [proc[p].new EXCEPT !.mode = "protect", !.purge = FALSE]
  /\ Goes(p, "saved")
  /\ Sound
  /\ UNCHANGED <<world, db, lock, history>>

BindSetup(p) ==
  /\ At(p, "setup", "saved")
  /\ \/ Sets(BoundTo(db, file)) /\ Goes(p, "bound")
     \/ db.bound # file.layout /\ UNCHANGED db /\ Goes(p, "undo")
  /\ Sound
  /\ UNCHANGED <<world, file, lock, history>>

RequireFreshDryRun(p) ==
  /\ At(p, "setup", "bound")
  /\ \/ Sets(Fresh(db)) /\ Ends(p, file) /\ Sound
     \/ Goes(p, "undo") /\ UNCHANGED <<db, lock, history>> /\ Fault
  /\ UNCHANGED <<world, file>>

RollBackSetup(p) ==
  /\ At(p, "setup", "undo")
  /\ file' = proc[p].cfg
  /\ Ends(p, file')
  /\ Sound
  /\ UNCHANGED <<world, db>>

-----------------------------------------------------------------------------
(* The file is in protect mode already, the clock of the observation still runs
   from before. *)
ClockBehind(p) == proc[p].at \in {"saved", "forgotten", "bound", "undo", "restart"}

(* The process dies, or a write to the settings fails and the command ends. *)
Dies(p) ==
  /\ proc[p].at \notin {"idle", "loaded"}
  /\ ClockBehind(p) => CutShort
  /\ Ends(p, file)
  /\ Fault
  /\ UNCHANGED <<world, file, db>>

(* The administrator puts a backup of the model back, or starts with an empty
   one, while no command runs. *)
RestoreModel(r) ==
  /\ lock = {} /\ restores < MaxRestores /\ restores' = restores + 1
  /\ r < rev /\ rev' = r
  /\ gone' = IF db.high # None /\ r < db.high THEN "saved"
             ELSE IF gone = "nothing" THEN "unsaved" ELSE gone
  /\ UNCHANGED <<now, trained, good, mistakes, saved, file, db, lock, proc, watch, rehearsed,
                 faults>>

(* A command does not last for days. *)
Tick ==
  /\ now < MaxTime /\ \A p \in Procs : proc[p].at = "idle"
  /\ now' = now + 1
  /\ Sound
  /\ UNCHANGED <<trained, good, mistakes, rev, saved, file, db, lock, proc, history>>

Owner(p) ==
  \/ \E op \in Commands : Load(p, op)
  \/ Lock(p)
  \/ SaveProtect(p) \/ ProtectForgetsActivation(p) \/ ProtectRestartsObservation(p)
  \/ StartActiveClock(p) \/ SaveActive(p) \/ SetPurge(p)
  \/ SaveQualification(p) \/ SaveThreshold(p)
  \/ BindPrevious(p) \/ SaveSetup(p) \/ BindSetup(p) \/ RequireFreshDryRun(p) \/ RollBackSetup(p)

Continuity(p) ==
  \/ StatsFail(p) \/ ReadStats(p) \/ Continuous(p)
  \/ Downgrade(p) \/ RestartObservation(p) \/ ForgetActivation(p) \/ NoteRollback(p)
  \/ RequireCheckpoint(p) \/ Checkpoint(p) \/ RecordHighWater(p) \/ ReleaseMarker(p)

Worker(p) ==
  \/ \E op \in {"run", "dryrun", "purge"} : Start(p, op)
  \/ Bind(p) \/ Preview(p)
  \/ Authorize(p) \/ Learn(p) \/ (\E agrees \in BOOLEAN : MarkLearned(p, agrees))
  \/ Decide(p) \/ Refuse(p) \/ EngineFails(p)
  \/ BackUp(p) \/ CleanUp(p) \/ PurgeByHand(p) \/ Purged(p)

Installed(mode, layout, required) ==
  /\ now = 0 /\ trained = 0 /\ good = {} /\ rev = 0 /\ saved = 0
  /\ file = [mode |-> mode, purge |-> FALSE, layout |-> layout, low |-> FALSE]
  /\ db = [protect |-> 0, active |-> None, proof |-> FALSE, required |-> required,
           bound |-> layout, report |-> NoReport, high |-> None, rollback |-> FALSE,
           marker |-> FALSE]
  /\ watch = [mode |-> mode, since |-> 0, before |-> 0]
  /\ rehearsed = IF required THEN {} ELSE {layout}

(* server adopt-policy: the history moves to the server, the proof does not. *)
Adopted(layout) ==
  /\ now = ProtectDays /\ trained = 1 /\ good = {0} /\ rev = 1 /\ saved = 1
  /\ file = [mode |-> "active", purge |-> FALSE, layout |-> layout, low |-> FALSE]
  /\ db = [protect |-> 0, active |-> ProtectDays, proof |-> FALSE, required |-> TRUE,
           bound |-> layout, report |-> NoReport, high |-> 1, rollback |-> FALSE,
           marker |-> FALSE]
  /\ watch = [mode |-> "active", since |-> ProtectDays, before |-> ProtectDays]
  /\ rehearsed = {}

(* A Mac starts in protect mode; an installation from before the dry run was
   required needs none. *)
Init ==
  /\ \E l \in Layouts :
       IF Linux
       THEN (\E mode \in Modes : Installed(mode, l, TRUE)) \/ Adopted(l)
       ELSE \E required \in BOOLEAN : Installed("protect", l, required)
  /\ mistakes = {}
  /\ lock = {}
  /\ proc = [p \in Procs |-> Idle]
  /\ gone = "nothing"
  /\ faults = 0 /\ restores = 0

Next ==
  \/ Tick
  \/ \E r \in {0, saved} : RestoreModel(r)
  \/ \E p \in Procs : Owner(p) \/ Continuity(p) \/ Worker(p) \/ Dies(p)

Spec == Init /\ [][Next]_vars
=============================================================================
