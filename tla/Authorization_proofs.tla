------------------------- MODULE Authorization_proofs -------------------------
(***************************************************************************)
(* Proofs about the permissions: which runs may decide and delete, what    *)
(* covers the model, and which observation came before.  The commands of   *)
(* the owner read the file before they hold the lock, so the invariant has *)
(* to say what an old copy of the file can still do; what holds only for   *)
(* one command at a time, or only if every command brings its writes to an *)
(* end, is a conjunct with that condition.                                 *)
(***************************************************************************)
EXTENDS AuthorizationProperties, TLAPS

(* The steps of the commands of the owner, and those of a run. *)
OwnerOps == {"protect", "active", "enable", "disable", "qualify", "setup"}
OwnerSteps ==
  {"loaded", "locked", "saved", "forgotten", "clocked", "qualified", "prepared", "bound", "undo"}
RunSteps == Steps \ (OwnerSteps \cup {"idle"})

(* Which command is at which step, and what it has read.                    *)
StepInv ==
  \A p \in Procs :
    /\ proc[p].at # "idle" => proc[p].cfg \in Config
    /\ proc[p].at \in OwnerSteps =>
         /\ ~ Linux /\ proc[p].op \in OwnerOps
         /\ proc[p].new \in Config /\ proc[p].new.mode = proc[p].cfg.mode
    /\ proc[p].at \in RunSteps =>
         proc[p].op \in {"run", "dryrun", "purge"} /\ proc[p].cfg = file

(* One command holds the lock; an active file was active when it was opened.*)
LockInv ==
  /\ \A p, q \in lock : p = q
  /\ file.mode = "active" => watch.mode = "active"
  /\ watch.since <= now
  /\ lock = {} => file.mode = watch.mode
  /\ \A p \in Procs :
       proc[p].at \in {"locked", "bind", "preview", "clocked", "qualified", "prepared"}
         => file.mode = watch.mode

(* The layout a run works on is the one the settings are bound to.          *)
LayoutInv ==
  /\ Rehearsed => db.bound \in rehearsed
  /\ \A p \in Procs :
       /\ proc[p].at \in RunSteps \ {"bind"} => proc[p].cfg.layout = db.bound
       /\ proc[p].at \in {"train", "learned"} => Rehearsed

(* The model and what vouches for it.                                       *)
ModelInv ==
  /\ \A p \in Procs :
       /\ proc[p].at = "record" => rev >= db.high
       /\ proc[p].at = "learned" => trained < MaxRevision
  /\ Linux =>
       /\ gone = "saved" => db.high # None /\ rev < db.high
       /\ rev > saved => db.marker
       /\ \A p \in Procs :
            /\ proc[p].at \in {"authorize", "train", "learned"} => rev >= db.high /\ db.high # None
            /\ proc[p].at \in {"checkpoint", "record", "authorize", "train", "learned"} => db.marker
            /\ proc[p].at \in {"record", "release"} => saved = rev

(* An activation of an earlier day that the gates still accept.             *)
Old == db.active # None /\ db.protect <= db.active /\ db.active < now

OneAtATime == \A p, q \in Procs : p = q

(* The clocks, as far as every command brings its writes to an end.         *)
ClockInv ==
  /\ file.mode = "protect" /\ watch.mode = "active" =>
       db.protect = now \/ \E p \in Procs : ClockBehind(p)
  /\ \A p \in Procs :
       /\ proc[p].at = "clocked" =>
            /\ proc[p].cfg.mode = "protect"
            /\ db.active = now /\ db.protect + ProtectDays <= now
       /\ proc[p].at = "purged" =>
            /\ proc[p].cfg.mode = "active"
            /\ db.active # None /\ db.active + PurgeDays <= now /\ db.protect <= db.active

(* Commands beside each other, none of which is setup.                      *)
StaleInv ==
  \A p \in Procs : proc[p].at \in OwnerSteps =>
    /\ proc[p].cfg.mode = "active" => watch.mode = "active" \/ ~ Old
    /\ proc[p].cfg.mode = "protect" => watch.mode = "protect" \/ ~ Old \/ file.mode = "protect"

(* One command at a time.                                                   *)
AloneInv ==
  \A p \in Procs : proc[p].at \in OwnerSteps => proc[p].cfg.mode = watch.mode

(* Clocks that still count began after the mode did ...                     *)
ActiveSince ==
  watch.mode = "active" /\ db.active # None /\ db.protect <= db.active => watch.since <= db.active

(* ... and an activation followed a whole observation.                       *)
ObservedSince ==
  /\ watch.mode = "protect" => watch.since <= db.protect
  /\ watch.mode = "active" /\ db.active # None => watch.before >= ProtectDays

(* What the history and the clocks have to do with each other, and when.     *)
BesideInv == "setup" \notin Commands /\ ~ CutShort => StaleInv /\ ActiveSince
OneInv == OneAtATime => AloneInv /\ ActiveSince
ObservedInv == OneAtATime /\ ~ CutShort => ObservedSince

(* What every reachable state satisfies.                                    *)
IInv ==
  /\ TypeOK /\ StepInv /\ LockInv /\ LayoutInv /\ ModelInv /\ ClockInv
  /\ BesideInv /\ OneInv /\ ObservedInv
-----------------------------------------------------------------------------
(* One command holds the lock; what its steps make of the commands.         *)

(* p is past its acquireRunLock. *)
Holds(p) == proc[p].at \notin {"idle", "loaded"}

LEMMA IdleType == Idle \in Process /\ Idle.at = "idle"
BY DEF Idle, Begun, Process, Steps

(* The process that holds the lock is the only one at work. *)
LEMMA OneHolder ==
  ASSUME TypeOK, LockInv, NEW p \in Procs, Holds(p)
  PROVE  lock = {p} /\ \A q \in Procs \ {p} : ~ Holds(q)
BY DEF TypeOK, LockInv, Holds

(* What a step of the command p makes of the commands: p goes on to step s
   with the configurations c and n, or it ends. *)
OthersStay(p) ==
  /\ proc' \in [Procs -> Process]
  /\ \A q \in Procs \ {p} : proc'[q] = proc[q] /\ ~ Holds(q)
  /\ lock' = {q \in Procs : proc'[q].at \notin {"idle", "loaded"}}

Continues(p, s, c, n) ==
  /\ OthersStay(p)
  /\ proc'[p].op = proc[p].op /\ proc'[p].at = s /\ proc'[p].cfg = c /\ proc'[p].new = n

Finishes(p) ==
  /\ OthersStay(p) /\ proc'[p] = Idle
  /\ watch' \in [mode : Modes, since : Day, before : Day]

(* The holder goes on, with any new record of the process ... *)
LEMMA StaysType ==
  ASSUME TypeOK, LockInv, NEW p \in Procs, Holds(p), UNCHANGED lock,
         NEW r \in Process, r.at \notin {"idle", "loaded"}, r.op = proc[p].op,
         proc' = [proc EXCEPT ![p] = r]
  PROVE  Continues(p, r.at, r.cfg, r.new)
<1>1. proc' \in [Procs -> Process] /\ proc'[p] = r /\ \A q \in Procs \ {p} : proc'[q] = proc[q]
  BY DEF TypeOK
<1>2. lock = {p} /\ \A q \in Procs \ {p} : ~ Holds(q)
  BY OneHolder
<1> QED BY <1>1, <1>2 DEF Holds, Continues, OthersStay

(* ... with Goes ... *)
LEMMA GoesType ==
  ASSUME TypeOK, LockInv, NEW p \in Procs, Holds(p), UNCHANGED lock,
         NEW s \in Steps \ {"idle", "loaded"}, Goes(p, s)
  PROVE  Continues(p, s, proc[p].cfg, proc[p].new)
<1> DEFINE r == [proc[p] EXCEPT !.at = s]
<1>1. /\ r \in Process /\ r.at = s /\ r.op = proc[p].op
      /\ r.cfg = proc[p].cfg /\ r.new = proc[p].new
  BY DEF TypeOK, Process
<1>2. proc' = [proc EXCEPT ![p] = r]
  BY DEF Goes
<1> QED BY <1>1, <1>2, StaysType

(* ... with another configuration ... *)
LEMMA RewritesType ==
  ASSUME TypeOK, LockInv, NEW p \in Procs, Holds(p), UNCHANGED lock,
         NEW s \in Steps \ {"idle", "loaded"}, NEW c \in Config,
         proc' = [proc EXCEPT ![p] = [@ EXCEPT !.cfg = c, !.at = s]]
  PROVE  Continues(p, s, c, proc[p].new)
<1> DEFINE r == [proc[p] EXCEPT !.cfg = c, !.at = s]
<1>1. r \in Process /\ r.at = s /\ r.op = proc[p].op
  BY DEF TypeOK, Process
<1>2. r.cfg = c /\ r.new = proc[p].new
  BY DEF TypeOK
<1>3. proc' = [proc EXCEPT ![p] = r]
  OBVIOUS
<1> HIDE DEF r
<1> QED BY <1>1, <1>2, <1>3, StaysType

(* ... from the engine to the model ... *)
LEMMA LeavesType ==
  ASSUME TypeOK, LockInv, NEW p \in Procs, Holds(p), UNCHANGED lock,
         NEW s \in Steps \ {"idle", "loaded"}, NEW e \in BOOLEAN,
         proc' = [proc EXCEPT ![p] = [@ EXCEPT !.late = TRUE, !.erred = e, !.at = s]]
  PROVE  Continues(p, s, proc[p].cfg, proc[p].new)
<1> DEFINE r == [proc[p] EXCEPT !.late = TRUE, !.erred = e, !.at = s]
<1>1. r \in Process /\ r.at = s /\ r.op = proc[p].op
  <2>1. proc[p] \in Process
    BY DEF TypeOK
  <2> QED BY <2>1 DEF Process
<1>2. r.cfg = proc[p].cfg /\ r.new = proc[p].new
  BY DEF TypeOK
<1>3. proc' = [proc EXCEPT ![p] = r]
  OBVIOUS
<1> HIDE DEF r
<1> QED BY <1>1, <1>2, <1>3, StaysType

(* ... having journalled a correction ... *)
LEMMA TaughtType ==
  ASSUME TypeOK, LockInv, NEW p \in Procs, Holds(p), UNCHANGED lock,
         NEW s \in Steps \ {"idle", "loaded"},
         proc' = [proc EXCEPT ![p] = [@ EXCEPT !.at = s, !.taught = TRUE]]
  PROVE  Continues(p, s, proc[p].cfg, proc[p].new)
<1> DEFINE r == [proc[p] EXCEPT !.at = s, !.taught = TRUE]
<1>1. r \in Process /\ r.at = s /\ r.op = proc[p].op
  <2>1. proc[p] \in Process
    BY DEF TypeOK
  <2> QED BY <2>1 DEF Process
<1>2. r.cfg = proc[p].cfg /\ r.new = proc[p].new
  BY DEF TypeOK
<1>3. proc' = [proc EXCEPT ![p] = r]
  OBVIOUS
<1> HIDE DEF r
<1> QED BY <1>1, <1>2, <1>3, StaysType

(* ... with a new threshold. *)
LEMMA QualifiedType ==
  ASSUME TypeOK, LockInv, NEW p \in Procs, Holds(p), UNCHANGED lock,
         NEW s \in Steps \ {"idle", "loaded"}, NEW o \in Report \cup {NoReport}, NEW n \in Config,
         proc' = [proc EXCEPT ![p] = [@ EXCEPT !.at = s, !.old = o, !.new = n]]
  PROVE  Continues(p, s, proc[p].cfg, n)
<1> DEFINE r == [proc[p] EXCEPT !.at = s, !.old = o, !.new = n]
<1>1. r \in Process /\ r.at = s /\ r.op = proc[p].op
  <2>1. proc[p] \in Process
    BY DEF TypeOK
  <2> QED BY <2>1 DEF Process
<1>2. r.cfg = proc[p].cfg /\ r.new = n
  BY DEF TypeOK
<1>3. proc' = [proc EXCEPT ![p] = r]
  OBVIOUS
<1> HIDE DEF r
<1> QED BY <1>1, <1>2, <1>3, StaysType

(* The file of a return to protect mode. *)
LEMMA ProtectType ==
  ASSUME NEW c \in Config
  PROVE  LET f == [c EXCEPT !.mode = "protect", !.purge = FALSE]
         IN  f \in Config /\ f.mode = "protect" /\ f.layout = c.layout
BY DEF Config, Modes

(* The command ends. *)
LEMMA EndsType ==
  ASSUME TypeOK, LockInv, NEW p \in Procs, Holds(p), NEW c, c.mode \in Modes, Ends(p, c)
  PROVE  Finishes(p)
<1>1. /\ proc' \in [Procs -> Process] /\ proc'[p] = Idle
      /\ \A q \in Procs \ {p} : proc'[q] = proc[q]
  BY IdleType DEF TypeOK, Ends
<1>2. \A q \in Procs \ {p} : ~ Holds(q)
  BY OneHolder
<1>3. lock' = {q \in Procs : proc'[q].at \notin {"idle", "loaded"}}
  BY <1>1, <1>2, IdleType DEF Ends, Holds
<1>4. now - watch.since \in Day
  BY AuthorizationAssumption DEF TypeOK, LockInv, Day
<1>5. watch' \in [mode : Modes, since : Day, before : Day]
  BY <1>4 DEF TypeOK, Ends
<1> QED BY <1>1, <1>2, <1>3, <1>5 DEF Finishes, OthersStay

(* What a command that ends may still have changed of the settings. *)
Minor ==
  /\ db' \in Settings /\ saved' \in 0 .. MaxRevision
  /\ db'.protect = db.protect /\ db'.active = db.active /\ db'.proof = db.proof
  /\ db'.required = db.required /\ db'.bound = db.bound /\ db'.high = db.high
  /\ Linux /\ rev > saved' => db'.marker

Spent == faults' \in 0 .. MaxFaults /\ restores' \in 0 .. MaxRestores

(* A command that ends without having changed a permission keeps the invariant. *)
LEMMA QuietEnd ==
  ASSUME IInv, NEW p \in Procs, Holds(p), ClockBehind(p) => CutShort, Ends(p, file),
         UNCHANGED <<now, trained, good, mistakes, rev, file>>, Minor, Spent
  PROVE  IInv'
<1>0. Finishes(p)
  BY EndsType DEF IInv, TypeOK, Config
<1> USE IdleType DEF IInv, Holds, Minor, OwnerSteps, RunSteps, Finishes, OthersStay
<1>1. TypeOK'
  BY <1>0 DEF TypeOK, Ends, Spent
<1>2. StepInv'
  BY <1>0 DEF StepInv
<1>3. LockInv'
  BY <1>0 DEF LockInv, Ends, Day
<1>4. LayoutInv'
  BY <1>0 DEF LayoutInv, Rehearsed, Ends
<1>5. ModelInv'
  BY <1>0 DEF ModelInv, Ends
<1>6. ClockInv'
  BY <1>0 DEF ClockInv, Ends
<1>7. BesideInv'
  BY <1>0
    DEF BesideInv, StaleInv, ActiveSince, Old, Ends, ClockInv, ClockBehind, Modes,
        Settings, Day, Date, LockInv
<1>8. OneInv'
  BY <1>0 DEF OneInv, AloneInv, ActiveSince, OneAtATime, Ends, LockInv
<1>9. ObservedInv'
  BY <1>0
    DEF ObservedInv, ObservedSince, OneAtATime, Ends, ClockInv, TypeOK, Modes, Day,
        LockInv
<1> QED BY <1>1, <1>2, <1>3, <1>4, <1>5, <1>6, <1>7, <1>8, <1>9

LEMMA BudgetKept == ASSUME TypeOK, Sound \/ Fault PROVE Spent
BY AuthorizationAssumption DEF TypeOK, Sound, Fault, Spent, budget

(* The same for one that changes nothing in its last step. *)
LEMMA CalmEnd ==
  ASSUME IInv, NEW p \in Procs, Holds(p), ClockBehind(p) => CutShort, Ends(p, file),
         UNCHANGED <<world, file, db>>, Sound \/ Fault
  PROVE  IInv'
<1>1. Spent
  BY BudgetKept DEF IInv
<1>2. Minor
  BY DEF IInv, TypeOK, ModelInv, Minor, world
<1> QED BY <1>1, <1>2, QuietEnd DEF world

LEMMA NextStepType ==
  ASSUME NEW p \in Procs
  PROVE  /\ NextStep(p) \in {"backup", "purge", "mark", "authorize"}
         /\ NextStep(p) \in Steps \ {"idle", "loaded"} /\ NextStep(p) \notin OwnerSteps
         /\ Linux => NextStep(p) # "authorize"
BY DEF NextStep, Steps, OwnerSteps

(* What BoundTo makes of the settings. *)
Rebound(c) ==
  /\ db' \in Settings /\ db'.bound = c.layout
  /\ db'.high = db.high /\ db'.marker = db.marker
  /\ \/ db.bound = c.layout /\ db' = db
     \/ db'.required /\ ~ db'.proof /\ db'.active = None /\ db'.protect = now

LEMMA BoundToType ==
  ASSUME TypeOK, NEW c \in Config, db' = BoundTo(db, c)
  PROVE  Rebound(c)
<1>1. CASE db.bound = c.layout
  BY <1>1 DEF TypeOK, BoundTo, Rebound
<1>2. CASE db.bound # c.layout
  <2>1. db' = [db EXCEPT !.bound = c.layout, !.proof = FALSE, !.required = TRUE,
                         !.active = None, !.protect = now]
    BY <1>2 DEF BoundTo
  <2> QED BY <2>1 DEF TypeOK, Settings, Config, Date, Rebound
<1> QED BY <1>1, <1>2

LEMMA ActiveType ==
  ASSUME NEW c \in Config
  PROVE  LET f == [c EXCEPT !.mode = "active", !.purge = FALSE]
         IN  f \in Config /\ f.mode = "active" /\ f.layout = c.layout
BY DEF Config, Modes

-----------------------------------------------------------------------------
(* Every action keeps the invariant: the days and the administrator.        *)

LEMMA TickKeeps == ASSUME IInv, Tick PROVE IInv'
<1> USE DEF IInv, Tick, Holds, world, history, OwnerSteps, RunSteps
<1>1. /\ now' \in Day /\ now' > now /\ \A q \in Procs : ~ Holds(q)
  BY AuthorizationAssumption DEF TypeOK, Day
<1> USE DEF OthersStay, Continues
<1>2. TypeOK'
  <2>1. db' \in Settings
    BY AuthorizationAssumption DEF TypeOK
  <2>2. Spent
    BY BudgetKept
  <2> QED BY <1>1, <2>1, <2>2 DEF TypeOK, Spent
<1>3. StepInv'
  BY <1>1 DEF StepInv
<1>4. LockInv'
  BY <1>1 DEF TypeOK, Day, LockInv
<1>5. LayoutInv'
  BY <1>1 DEF LayoutInv, Rehearsed
<1>6. ModelInv'
  BY <1>1 DEF ModelInv
<1>7. ClockInv'
  BY <1>1 DEF ClockInv, LockInv, TypeOK
<1>8. BesideInv'
  BY <1>1 DEF BesideInv, StaleInv, ActiveSince
<1>9. OneInv'
  BY <1>1 DEF OneInv, AloneInv, ActiveSince
<1>10. ObservedInv'
  BY <1>1 DEF ObservedInv, ObservedSince
<1> QED BY <1>2, <1>3, <1>4, <1>5, <1>6, <1>7, <1>8, <1>9, <1>10

LEMMA RestoreModelKeeps == ASSUME NEW r \in {0, saved}, IInv, RestoreModel(r) PROVE IInv'
<1> USE DEF IInv, RestoreModel, Holds, world, history, OwnerSteps, RunSteps
<1>1. /\ rev' \in 0 .. MaxRevision /\ rev' < rev /\ rev' <= saved
      /\ \A q \in Procs : ~ Holds(q)
      /\ faults' \in 0 .. MaxFaults /\ restores' \in 0 .. MaxRestores
  BY AuthorizationAssumption DEF TypeOK
<1> USE DEF OthersStay, Continues
<1>2. TypeOK'
  BY <1>1 DEF TypeOK
<1>3. StepInv'
  BY <1>1 DEF StepInv
<1>4. LockInv'
  BY <1>1 DEF LockInv
<1>5. LayoutInv'
  BY <1>1 DEF LayoutInv, Rehearsed
<1>6. ModelInv'
  BY <1>1 DEF TypeOK, Settings, ModelInv
<1>7. ClockInv'
  BY <1>1 DEF ClockInv, ClockBehind
<1>8. BesideInv'
  BY <1>1 DEF BesideInv, StaleInv, ActiveSince, Old
<1>9. OneInv'
  BY <1>1 DEF OneInv, AloneInv, ActiveSince
<1>10. ObservedInv'
  BY <1>1 DEF ObservedInv, ObservedSince
<1> QED BY <1>2, <1>3, <1>4, <1>5, <1>6, <1>7, <1>8, <1>9, <1>10

-----------------------------------------------------------------------------
(* Taking the lock and binding the layout.                                  *)

LEMMA LoadKeeps ==
  ASSUME NEW p \in Procs, NEW op \in Commands, IInv, Load(p, op) PROVE IInv'
<1> USE DEF IInv, Load, Holds, world, history, OwnerSteps, RunSteps
<1>1. /\ proc' \in [Procs -> Process]
      /\ proc'[p].at = "loaded" /\ proc'[p].op = op /\ proc'[p].cfg = file
      /\ proc'[p].new \in Config /\ proc'[p].new.mode = file.mode
      /\ \A q \in Procs \ {p} : proc'[q] = proc[q]
      /\ lock' = {q \in Procs : proc'[q].at \notin {"idle", "loaded"}}
  <2>1. PICK l \in Layouts :
          proc' = [proc EXCEPT ![p] = Begun(op, "loaded", file, [file EXCEPT !.layout = l])]
    OBVIOUS
  <2>2. [file EXCEPT !.layout = l] \in Config /\ [file EXCEPT !.layout = l].mode = file.mode
    BY DEF TypeOK, Config
  <2> DEFINE r == Begun(op, "loaded", file, [file EXCEPT !.layout = l])
  <2>3. r \in Process /\ r.at = "loaded" /\ r.op = op /\ r.cfg = file
        /\ r.new = [file EXCEPT !.layout = l]
    BY <2>2 DEF Begun, Process, Steps, TypeOK
  <2>4. proc' = [proc EXCEPT ![p] = r]
    BY <2>1
  <2> HIDE DEF r
  <2>5. proc' \in [Procs -> Process] /\ proc'[p] = r /\ \A q \in Procs \ {p} : proc'[q] = proc[q]
    BY <2>3, <2>4 DEF TypeOK
  <2>6. lock' = {q \in Procs : proc'[q].at \notin {"idle", "loaded"}}
    BY <2>3, <2>5 DEF TypeOK
  <2> QED BY <2>2, <2>3, <2>5, <2>6
<1> USE DEF OthersStay, Continues
<1>2. TypeOK'
  <2>1. db' \in Settings
    BY AuthorizationAssumption DEF TypeOK
  <2>2. Spent
    BY BudgetKept
  <2> QED BY <1>1, <2>1, <2>2 DEF TypeOK, Spent
<1>3. StepInv'
  BY <1>1 DEF TypeOK, StepInv, OwnerOps
<1>4. LockInv'
  BY <1>1 DEF LockInv
<1>5. LayoutInv'
  BY <1>1 DEF LayoutInv, Rehearsed
<1>6. ModelInv'
  BY <1>1 DEF ModelInv
<1>7. ClockInv'
  BY <1>1 DEF ClockInv, ClockBehind
<1>8. BesideInv'
  BY <1>1 DEF BesideInv, StaleInv, ActiveSince, Old, LockInv
<1>9. OneInv'
  BY <1>1 DEF OneInv, AloneInv, ActiveSince, OneAtATime, LockInv
<1>10. ObservedInv'
  BY <1>1 DEF ObservedInv, ObservedSince
<1> QED BY <1>2, <1>3, <1>4, <1>5, <1>6, <1>7, <1>8, <1>9, <1>10

LEMMA LockKeeps == ASSUME NEW p \in Procs, IInv, Lock(p) PROVE IInv'
<1> USE DEF IInv, Lock, Holds, world, history, OwnerSteps, RunSteps
<1>1. CASE lock = {} /\ lock' = {p} /\ Goes(p, "locked")
  <2>1. /\ proc' \in [Procs -> Process]
        /\ proc'[p].at = "locked" /\ proc'[p].op = proc[p].op /\ proc'[p].cfg = proc[p].cfg
        /\ proc'[p].new = proc[p].new /\ \A q \in Procs : ~ Holds(q)
        /\ \A q \in Procs \ {p} : proc'[q] = proc[q]
        /\ lock' = {q \in Procs : proc'[q].at \notin {"idle", "loaded"}}
    <3> DEFINE r == [proc[p] EXCEPT !.at = "locked"]
    <3>1. r \in Process /\ r.at = "locked" /\ r.op = proc[p].op
          /\ r.cfg = proc[p].cfg /\ r.new = proc[p].new
      BY DEF Process, Steps, TypeOK
    <3>2. proc' = [proc EXCEPT ![p] = r]
      BY <1>1 DEF Goes
    <3> HIDE DEF r
    <3>3. proc' \in [Procs -> Process] /\ proc'[p] = r /\ \A q \in Procs \ {p} : proc'[q] = proc[q]
      BY <3>1, <3>2 DEF TypeOK
    <3>4. \A q \in Procs : ~ Holds(q)
      BY <1>1 DEF TypeOK
    <3>5. lock' = {q \in Procs : proc'[q].at \notin {"idle", "loaded"}}
      BY <1>1, <3>1, <3>3, <3>4
    <3> QED BY <3>1, <3>3, <3>4, <3>5
  <2> USE DEF OthersStay, Continues
  <2>2. TypeOK'
    <3>1. db' \in Settings
      BY <1>1 DEF TypeOK
    <3>2. Spent
      BY BudgetKept
    <3> QED BY <1>1, <2>1, <3>1, <3>2 DEF TypeOK, Spent
  <2>3. StepInv'
    BY <1>1, <2>1 DEF StepInv
  <2>4. LockInv'
    BY <1>1, <2>1 DEF LockInv
  <2>5. LayoutInv'
    BY <1>1, <2>1 DEF LayoutInv, Rehearsed
  <2>6. ModelInv'
    BY <1>1, <2>1 DEF ModelInv
  <2>7. ClockInv'
    BY <1>1, <2>1 DEF ClockInv, ClockBehind
  <2>8. BesideInv'
    BY <1>1, <2>1 DEF BesideInv, StaleInv, ActiveSince, Old
  <2>9. OneInv'
    BY <1>1, <2>1 DEF OneInv, AloneInv, ActiveSince
  <2>10. ObservedInv'
    BY <1>1, <2>1 DEF ObservedInv, ObservedSince
  <2> QED BY <2>2, <2>3, <2>4, <2>5, <2>6, <2>7, <2>8, <2>9, <2>10
<1>2. CASE lock # {} /\ UNCHANGED lock /\ proc' = [proc EXCEPT ![p] = Idle]
  <2>1. /\ proc' \in [Procs -> Process] /\ proc'[p] = Idle
        /\ \A q \in Procs \ {p} : proc'[q] = proc[q]
        /\ lock' = {q \in Procs : proc'[q].at \notin {"idle", "loaded"}}
    <3>1. proc' \in [Procs -> Process] /\ proc'[p] = Idle
          /\ \A q \in Procs \ {p} : proc'[q] = proc[q]
      BY <1>2, IdleType DEF TypeOK
    <3>2. lock' = {q \in Procs : proc'[q].at \notin {"idle", "loaded"}}
      BY <1>2, <3>1, IdleType DEF TypeOK
    <3> QED BY <3>1, <3>2
  <2> USE IdleType
  <2> USE DEF OthersStay, Continues
  <2>2. TypeOK'
    <3>1. db' \in Settings
      BY <1>2 DEF TypeOK
    <3>2. Spent
      BY BudgetKept
    <3> QED BY <1>2, <2>1, <3>1, <3>2 DEF TypeOK, Spent
  <2>3. StepInv'
    BY <1>2, <2>1 DEF StepInv
  <2>4. LockInv'
    BY <1>2, <2>1 DEF LockInv
  <2>5. LayoutInv'
    BY <1>2, <2>1 DEF LayoutInv, Rehearsed
  <2>6. ModelInv'
    BY <1>2, <2>1 DEF ModelInv
  <2>7. ClockInv'
    BY <1>2, <2>1 DEF ClockInv, ClockBehind
  <2>8. BesideInv'
    BY <1>2, <2>1 DEF BesideInv, StaleInv, ActiveSince, Old
  <2>9. OneInv'
    BY <1>2, <2>1 DEF OneInv, AloneInv, ActiveSince
  <2>10. ObservedInv'
    BY <1>2, <2>1 DEF ObservedInv, ObservedSince
  <2> QED BY <2>2, <2>3, <2>4, <2>5, <2>6, <2>7, <2>8, <2>9, <2>10
<1> QED BY <1>1, <1>2

LEMMA StartKeeps ==
  ASSUME NEW p \in Procs, NEW op \in {"run", "dryrun", "purge"}, IInv, Start(p, op) PROVE IInv'
<1> USE DEF IInv, Start, Holds, world, history, OwnerSteps, RunSteps
<1>1. /\ proc' \in [Procs -> Process]
      /\ proc'[p].at = "bind" /\ proc'[p].op = op /\ proc'[p].cfg = file
      /\ \A q \in Procs : ~ Holds(q)
      /\ \A q \in Procs \ {p} : proc'[q] = proc[q]
      /\ lock' = {q \in Procs : proc'[q].at \notin {"idle", "loaded"}}
  <2> DEFINE r == Begun(op, "bind", file, NoConfig)
  <2>1. r \in Process /\ r.at = "bind" /\ r.op = op /\ r.cfg = file
    BY DEF Begun, Process, Steps, TypeOK
  <2>2. proc' = [proc EXCEPT ![p] = r]
    OBVIOUS
  <2> HIDE DEF r
  <2>3. proc' \in [Procs -> Process] /\ proc'[p] = r /\ \A q \in Procs \ {p} : proc'[q] = proc[q]
    BY <2>1, <2>2 DEF TypeOK
  <2>4. \A q \in Procs : ~ Holds(q)
    BY DEF TypeOK
  <2>5. lock' = {q \in Procs : proc'[q].at \notin {"idle", "loaded"}}
    BY <2>1, <2>3, <2>4
  <2> QED BY <2>1, <2>3, <2>4, <2>5
<1> USE DEF OthersStay, Continues
<1>2. TypeOK'
  <2>1. db' \in Settings
    BY AuthorizationAssumption DEF TypeOK
  <2>2. Spent
    BY BudgetKept
  <2> QED BY <1>1, <2>1, <2>2 DEF TypeOK, Spent
<1>3. StepInv'
  BY <1>1 DEF TypeOK, StepInv
<1>4. LockInv'
  BY <1>1 DEF LockInv
<1>5. LayoutInv'
  BY <1>1 DEF LayoutInv, Rehearsed
<1>6. ModelInv'
  BY <1>1 DEF ModelInv
<1>7. ClockInv'
  BY <1>1 DEF ClockInv, ClockBehind
<1>8. BesideInv'
  BY <1>1 DEF BesideInv, StaleInv, ActiveSince, Old
<1>9. OneInv'
  BY <1>1 DEF OneInv, AloneInv, ActiveSince
<1>10. ObservedInv'
  BY <1>1 DEF ObservedInv, ObservedSince
<1> QED BY <1>2, <1>3, <1>4, <1>5, <1>6, <1>7, <1>8, <1>9, <1>10

LEMMA BindKeeps == ASSUME NEW p \in Procs, IInv, Bind(p) PROVE IInv'
<1> USE DEF IInv, Bind, Sets, Holds, world, history, OwnerSteps, RunSteps
<1>1. CASE /\ Sets(BoundTo(db, proc[p].cfg))
           /\ Goes(p, IF proc[p].op = "dryrun" THEN "preview" ELSE "stats")
           /\ UNCHANGED <<lock, history>>
  <2>1. /\ Continues(p, IF proc[p].op = "dryrun" THEN "preview" ELSE "stats",
                     proc[p].cfg, proc[p].new)
        /\ Rebound(proc[p].cfg)
    <3>1. proc[p].cfg \in Config
      BY DEF StepInv
    <3>2. Rebound(proc[p].cfg)
      BY <1>1, <3>1, BoundToType
    <3> QED BY <1>1, <3>2, GoesType DEF Steps
  <2> USE DEF Rebound
  <2> USE DEF OthersStay, Continues
  <2>2. TypeOK'
    <3>1. Spent
      BY BudgetKept
    <3> QED BY <1>1, <2>1, <3>1 DEF TypeOK, Spent
  <2>3. StepInv'
    BY <1>1, <2>1 DEF StepInv, Steps
  <2>4. LockInv'
    BY <1>1, <2>1 DEF LockInv
  <2>5. LayoutInv'
    BY <1>1, <2>1 DEF LayoutInv, Rehearsed
  <2>6. ModelInv'
    BY <1>1, <2>1 DEF ModelInv
  <2>7. ClockInv'
    BY <1>1, <2>1 DEF ClockInv, ClockBehind
  <2>8. BesideInv'
    BY <1>1, <2>1 DEF BesideInv, StaleInv, ActiveSince, Old
  <2>9. OneInv'
    BY <1>1, <2>1 DEF OneInv, AloneInv, ActiveSince
  <2>10. ObservedInv'
    BY <1>1, <2>1 DEF ObservedInv, ObservedSince, LockInv
  <2> QED BY <2>2, <2>3, <2>4, <2>5, <2>6, <2>7, <2>8, <2>9, <2>10
<1>2. CASE db.bound # proc[p].cfg.layout /\ Ends(p, file) /\ UNCHANGED db
  BY <1>2, CalmEnd DEF ClockBehind
<1> QED BY <1>1, <1>2

LEMMA PreviewKeeps == ASSUME NEW p \in Procs, IInv, Preview(p) PROVE IInv'
<1> USE DEF IInv, Preview, At, Sets, Holds, world, history, OwnerSteps, RunSteps
<1>1. /\ OthersStay(p) /\ proc'[p] = Idle
      /\ db' \in Settings /\ db'.protect = db.protect /\ db'.active = db.active
      /\ db'.proof /\ db'.bound = db.bound /\ db'.high = db.high /\ db'.marker = db.marker
  <2>1. db' \in Settings /\ db'.protect = db.protect /\ db'.active = db.active
        /\ db'.proof /\ db'.bound = db.bound /\ db'.high = db.high /\ db'.marker = db.marker
    BY DEF TypeOK, Settings
  <2>2. proc' \in [Procs -> Process] /\ proc'[p] = Idle
        /\ \A q \in Procs \ {p} : proc'[q] = proc[q]
    BY IdleType DEF TypeOK
  <2>3. \A q \in Procs \ {p} : ~ Holds(q)
    BY OneHolder
  <2> QED BY <2>1, <2>2, <2>3, IdleType DEF OthersStay
<1> USE IdleType
<1> USE DEF OthersStay, Continues
<1>2. TypeOK'
  <2>1. Spent
    BY BudgetKept
  <2>2. rehearsed' \subseteq Layouts
    BY DEF StepInv, Config
  <2> QED BY <1>1, <2>1, <2>2 DEF TypeOK, Spent
<1>3. StepInv'
  BY <1>1 DEF StepInv
<1>4. LockInv'
  BY <1>1 DEF LockInv
<1>5. LayoutInv'
  BY <1>1 DEF LayoutInv, Steps
<1>6. ModelInv'
  BY <1>1 DEF ModelInv
<1>7. ClockInv'
  BY <1>1 DEF ClockInv, ClockBehind
<1>8. BesideInv'
  BY <1>1 DEF BesideInv, StaleInv, ActiveSince, Old
<1>9. OneInv'
  BY <1>1 DEF OneInv, AloneInv, ActiveSince
<1>10. ObservedInv'
  BY <1>1 DEF ObservedInv, ObservedSince
<1> QED BY <1>2, <1>3, <1>4, <1>5, <1>6, <1>7, <1>8, <1>9, <1>10

-----------------------------------------------------------------------------
(* The continuity of the model.                                             *)

LEMMA StatsFailKeeps == ASSUME NEW p \in Procs, IInv, StatsFail(p) PROVE IInv'
<1> USE DEF IInv, StatsFail, Holds, world, history, OwnerSteps, RunSteps
<1>1. CASE Unsafe(proc[p].cfg) /\ ~ proc[p].late
  BY <1>1, CalmEnd DEF ClockBehind
<1>2. CASE ~ (Unsafe(proc[p].cfg) /\ ~ proc[p].late)
  <2>1. Continues(p, NextStep(p), proc[p].cfg, proc[p].new)
    BY <1>2, GoesType, NextStepType
  <2> USE DEF OthersStay, Continues
  <2>2. TypeOK'
    <3>1. db' \in Settings
      BY <1>2, NextStepType DEF TypeOK
    <3>2. Spent
      BY BudgetKept
    <3> QED BY <1>2, <2>1, NextStepType, <3>1, <3>2 DEF TypeOK, Spent
  <2>3. StepInv'
    BY <1>2, <2>1, NextStepType DEF StepInv, Steps
  <2>4. LockInv'
    BY <1>2, <2>1, NextStepType DEF LockInv
  <2>5. LayoutInv'
    BY <1>2, <2>1, NextStepType DEF LayoutInv, Rehearsed, Steps
  <2>6. ModelInv'
    BY <1>2, <2>1, NextStepType DEF ModelInv
  <2>7. ClockInv'
    BY <1>2, <2>1, NextStepType DEF ClockInv, ClockBehind
  <2>8. BesideInv'
    BY <1>2, <2>1, NextStepType DEF BesideInv, StaleInv, ActiveSince, Old
  <2>9. OneInv'
    BY <1>2, <2>1, NextStepType DEF OneInv, AloneInv, ActiveSince
  <2>10. ObservedInv'
    BY <1>2, <2>1, NextStepType DEF ObservedInv, ObservedSince
  <2> QED BY <2>2, <2>3, <2>4, <2>5, <2>6, <2>7, <2>8, <2>9, <2>10
<1> QED BY <1>1, <1>2

LEMMA ReadStatsKeeps == ASSUME NEW p \in Procs, IInv, ReadStats(p) PROVE IInv'
<1> USE DEF IInv, ReadStats, Sets, Holds, world, history, OwnerSteps, RunSteps
<1>1. Continues(p, IF Regressed THEN "downgrade" ELSE "continuous", proc[p].cfg, proc[p].new)
  BY GoesType DEF Steps
<1> USE DEF OthersStay, Continues
<1>2. TypeOK'
  <2>1. db' \in Settings
    BY AuthorizationAssumption DEF TypeOK, Settings, Highest
  <2>2. Spent
    BY BudgetKept
  <2> QED BY <1>1, <2>1, <2>2 DEF TypeOK, Spent
<1>3. StepInv'
  BY <1>1 DEF StepInv, Steps
<1>4. LockInv'
  BY <1>1 DEF LockInv
<1>5. LayoutInv'
  BY <1>1 DEF LayoutInv, Rehearsed, Steps
<1>6. ModelInv'
  BY <1>1 DEF ModelInv, Regressed
<1>7. ClockInv'
  BY <1>1 DEF ClockInv, ClockBehind
<1>8. BesideInv'
  BY <1>1 DEF BesideInv, StaleInv, ActiveSince, Old
<1>9. OneInv'
  BY <1>1 DEF OneInv, AloneInv, ActiveSince
<1>10. ObservedInv'
  BY <1>1 DEF ObservedInv, ObservedSince
<1> QED BY <1>2, <1>3, <1>4, <1>5, <1>6, <1>7, <1>8, <1>9, <1>10

LEMMA ContinuousKeeps == ASSUME NEW p \in Procs, IInv, Continuous(p) PROVE IInv'
<1> USE DEF IInv, Continuous, Sets, Holds, world, history, OwnerSteps, RunSteps
<1>1. Continues(p, NextStep(p), proc[p].cfg, proc[p].new)
  BY GoesType, NextStepType
<1> USE DEF OthersStay, Continues
<1>2. TypeOK'
  <2>1. db' \in Settings
    BY NextStepType DEF TypeOK, Settings
  <2>2. Spent
    BY BudgetKept
  <2> QED BY <1>1, NextStepType, <2>1, <2>2 DEF TypeOK, Spent
<1>3. StepInv'
  BY <1>1, NextStepType DEF StepInv, Steps
<1>4. LockInv'
  BY <1>1, NextStepType DEF LockInv
<1>5. LayoutInv'
  BY <1>1, NextStepType DEF LayoutInv, Rehearsed, Steps
<1>6. ModelInv'
  BY <1>1, NextStepType DEF ModelInv
<1>7. ClockInv'
  BY <1>1, NextStepType DEF ClockInv, ClockBehind
<1>8. BesideInv'
  BY <1>1, NextStepType DEF BesideInv, StaleInv, ActiveSince, Old
<1>9. OneInv'
  BY <1>1, NextStepType DEF OneInv, AloneInv, ActiveSince
<1>10. ObservedInv'
  BY <1>1, NextStepType DEF ObservedInv, ObservedSince
<1> QED BY <1>2, <1>3, <1>4, <1>5, <1>6, <1>7, <1>8, <1>9, <1>10

LEMMA DowngradeKeeps == ASSUME NEW p \in Procs, IInv, Downgrade(p) PROVE IInv'
<1> USE DEF IInv, Downgrade, Holds, world, history, OwnerSteps, RunSteps
<1>1. CASE Linux
  BY <1>1, CalmEnd DEF ClockBehind
<1>2. CASE ~ Linux
  <2>1. /\ Continues(p, IF Unsafe(proc[p].cfg) \/ ~ db.rollback THEN "restart" ELSE "noted",
                      file', proc[p].new)
        /\ file' \in Config /\ file'.mode = "protect" /\ file'.layout = proc[p].cfg.layout
        /\ proc[p].at = "downgrade" /\ UNCHANGED <<world, db, lock, history>>
    <3>1. proc[p].cfg \in Config
      BY DEF StepInv
    <3>2. file' \in Config /\ file'.mode = "protect" /\ file'.layout = proc[p].cfg.layout
      BY <1>2, <3>1, ProtectType
    <3>3. CASE Unsafe(proc[p].cfg) \/ ~ db.rollback
      BY <1>2, <3>2, <3>3, RewritesType DEF Steps
    <3>4. CASE ~ (Unsafe(proc[p].cfg) \/ ~ db.rollback)
      BY <1>2, <3>2, <3>4, RewritesType DEF Steps
    <3> QED BY <1>2, <3>2, <3>3, <3>4
  <2> USE DEF OthersStay, Continues
  <2> HIDE DEF Downgrade
  <2>2. TypeOK'
    <3>1. Spent
      BY BudgetKept DEF Downgrade
    <3> QED BY <1>2, <2>1, <3>1 DEF TypeOK, Spent
  <2>3. StepInv'
    BY <1>2, <2>1 DEF StepInv, Steps
  <2>4. LockInv'
    BY <1>2, <2>1 DEF LockInv
  <2>5. LayoutInv'
    BY <1>2, <2>1 DEF LayoutInv, Rehearsed, Steps
  <2>6. ModelInv'
    BY <1>2, <2>1 DEF ModelInv
  <2>7. ClockInv'
    <3>1. CASE Unsafe(proc[p].cfg) \/ ~ db.rollback
      BY <1>2, <2>1, <3>1 DEF ClockInv, ClockBehind
    <3>2. CASE ~ (Unsafe(proc[p].cfg) \/ ~ db.rollback)
      BY <1>2, <2>1, <3>2 DEF ClockInv, ClockBehind, Unsafe, StepInv, Config, Modes, Steps
    <3> QED BY <3>1, <3>2
  <2>8. BesideInv'
    BY <1>2, <2>1 DEF BesideInv, StaleInv, ActiveSince, Old
  <2>9. OneInv'
    BY <1>2, <2>1 DEF OneInv, AloneInv, ActiveSince
  <2>10. ObservedInv'
    BY <1>2, <2>1 DEF ObservedInv, ObservedSince
  <2> QED BY <2>2, <2>3, <2>4, <2>5, <2>6, <2>7, <2>8, <2>9, <2>10
<1> QED BY <1>1, <1>2

LEMMA RestartObservationKeeps ==
  ASSUME NEW p \in Procs, IInv, RestartObservation(p) PROVE IInv'
<1> USE DEF IInv, RestartObservation, Sets, Holds, world, history, OwnerSteps, RunSteps
<1>1. Continues(p, "forget", proc[p].cfg, proc[p].new)
  BY GoesType DEF Steps
<1> USE DEF OthersStay, Continues
<1>2. TypeOK'
  <2>1. db' \in Settings
    BY AuthorizationAssumption DEF TypeOK, Settings
  <2>2. Spent
    BY BudgetKept
  <2> QED BY <1>1, <2>1, <2>2 DEF TypeOK, Spent
<1>3. StepInv'
  BY <1>1 DEF StepInv, Steps
<1>4. LockInv'
  BY <1>1 DEF LockInv
<1>5. LayoutInv'
  BY <1>1 DEF LayoutInv, Rehearsed, Steps
<1>6. ModelInv'
  BY <1>1 DEF ModelInv
<1>7. ClockInv'
  BY <1>1 DEF ClockInv
<1>8. BesideInv'
  BY <1>1 DEF BesideInv, StaleInv, ActiveSince, Old, LockInv, TypeOK, Settings, Day, Date
<1>9. OneInv'
  BY <1>1 DEF OneInv, AloneInv, ActiveSince, LockInv, TypeOK, Settings, Day, Date
<1>10. ObservedInv'
  BY <1>1 DEF ObservedInv, ObservedSince, LockInv
<1> QED BY <1>2, <1>3, <1>4, <1>5, <1>6, <1>7, <1>8, <1>9, <1>10

LEMMA ForgetActivationKeeps ==
  ASSUME NEW p \in Procs, IInv, ForgetActivation(p) PROVE IInv'
<1> USE DEF IInv, ForgetActivation, Sets, Holds, world, history, OwnerSteps, RunSteps
<1>1. Continues(p, "noted", proc[p].cfg, proc[p].new)
  BY GoesType DEF Steps
<1> USE DEF OthersStay, Continues
<1>2. TypeOK'
  <2>1. db' \in Settings
    BY AuthorizationAssumption DEF TypeOK, Settings, Date
  <2>2. Spent
    BY BudgetKept
  <2> QED BY <1>1, <2>1, <2>2 DEF TypeOK, Spent
<1>3. StepInv'
  BY <1>1 DEF StepInv, Steps
<1>4. LockInv'
  BY <1>1 DEF LockInv
<1>5. LayoutInv'
  BY <1>1 DEF LayoutInv, Rehearsed, Steps
<1>6. ModelInv'
  BY <1>1 DEF ModelInv
<1>7. ClockInv'
  BY <1>1 DEF ClockInv, ClockBehind
<1>8. BesideInv'
  BY <1>1 DEF BesideInv, StaleInv, ActiveSince, Old
<1>9. OneInv'
  BY <1>1 DEF OneInv, AloneInv, ActiveSince
<1>10. ObservedInv'
  BY <1>1 DEF ObservedInv, ObservedSince
<1> QED BY <1>2, <1>3, <1>4, <1>5, <1>6, <1>7, <1>8, <1>9, <1>10

LEMMA NoteRollbackKeeps == ASSUME NEW p \in Procs, IInv, NoteRollback(p) PROVE IInv'
<1> USE DEF IInv, NoteRollback, Sets, Holds, world, history, OwnerSteps, RunSteps
<1>1. CASE proc[p].op = "purge"
  <2>1. Minor
    BY <1>1 DEF Minor, TypeOK, Settings, Settings, TypeOK, ModelInv
  <2>2. Spent
    BY BudgetKept
  <2> QED BY <1>1, <2>1, <2>2, QuietEnd DEF ClockBehind
<1>2. CASE proc[p].op # "purge"
  <2>1. Continues(p, NextStep(p), proc[p].cfg, proc[p].new)
    BY <1>2, GoesType, NextStepType
  <2> USE DEF OthersStay, Continues
  <2>2. TypeOK'
    <3>1. db' \in Settings
      BY <1>2, NextStepType DEF TypeOK, Settings
    <3>2. Spent
      BY BudgetKept
    <3> QED BY <1>2, <2>1, NextStepType, <3>1, <3>2 DEF TypeOK, Spent
  <2>3. StepInv'
    BY <1>2, <2>1, NextStepType DEF StepInv, Steps
  <2>4. LockInv'
    BY <1>2, <2>1, NextStepType DEF LockInv
  <2>5. LayoutInv'
    BY <1>2, <2>1, NextStepType DEF LayoutInv, Rehearsed, Steps
  <2>6. ModelInv'
    BY <1>2, <2>1, NextStepType DEF ModelInv
  <2>7. ClockInv'
    BY <1>2, <2>1, NextStepType DEF ClockInv, ClockBehind
  <2>8. BesideInv'
    BY <1>2, <2>1, NextStepType DEF BesideInv, StaleInv, ActiveSince, Old
  <2>9. OneInv'
    BY <1>2, <2>1, NextStepType DEF OneInv, AloneInv, ActiveSince
  <2>10. ObservedInv'
    BY <1>2, <2>1, NextStepType DEF ObservedInv, ObservedSince
  <2> QED BY <2>2, <2>3, <2>4, <2>5, <2>6, <2>7, <2>8, <2>9, <2>10
<1> QED BY <1>1, <1>2

LEMMA RequireCheckpointKeeps ==
  ASSUME NEW p \in Procs, IInv, RequireCheckpoint(p) PROVE IInv'
<1> USE DEF IInv, RequireCheckpoint, Sets, Holds, world, history, OwnerSteps, RunSteps
<1>1. Continues(p, "checkpoint", proc[p].cfg, proc[p].new)
  BY GoesType DEF Steps
<1> USE DEF OthersStay, Continues
<1>2. TypeOK'
  <2>1. db' \in Settings
    BY AuthorizationAssumption DEF TypeOK, Settings
  <2>2. Spent
    BY BudgetKept
  <2> QED BY <1>1, <2>1, <2>2 DEF TypeOK, Spent
<1>3. StepInv'
  BY <1>1 DEF StepInv, Steps
<1>4. LockInv'
  BY <1>1 DEF LockInv
<1>5. LayoutInv'
  BY <1>1 DEF LayoutInv, Rehearsed, Steps
<1>6. ModelInv'
  BY <1>1 DEF ModelInv
<1>7. ClockInv'
  BY <1>1 DEF ClockInv, ClockBehind
<1>8. BesideInv'
  BY <1>1 DEF BesideInv, StaleInv, ActiveSince, Old
<1>9. OneInv'
  BY <1>1 DEF OneInv, AloneInv, ActiveSince
<1>10. ObservedInv'
  BY <1>1 DEF ObservedInv, ObservedSince
<1> QED BY <1>2, <1>3, <1>4, <1>5, <1>6, <1>7, <1>8, <1>9, <1>10

LEMMA CheckpointKeeps == ASSUME NEW p \in Procs, IInv, Checkpoint(p) PROVE IInv'
<1> USE DEF IInv, Checkpoint, Holds, world, history, OwnerSteps, RunSteps
<1>1. CASE Regressed
  BY <1>1, CalmEnd DEF ClockBehind
<1>2. CASE ~ Regressed
  <2>1. Continues(p, "record", proc[p].cfg, proc[p].new)
    BY <1>2, GoesType DEF Steps
  <2> USE DEF OthersStay, Continues
  <2>2. TypeOK'
    <3>1. db' \in Settings
      BY <1>2 DEF TypeOK
    <3>2. Spent
      BY BudgetKept
    <3> QED BY <1>2, <2>1, <3>1, <3>2 DEF TypeOK, Spent
  <2>3. StepInv'
    BY <1>2, <2>1 DEF StepInv, Steps
  <2>4. LockInv'
    BY <1>2, <2>1 DEF LockInv
  <2>5. LayoutInv'
    BY <1>2, <2>1 DEF LayoutInv, Rehearsed, Steps
  <2>6. ModelInv'
    BY <1>2, <2>1 DEF TypeOK, Settings, None, ModelInv, Regressed
  <2>7. ClockInv'
    BY <1>2, <2>1 DEF ClockInv, ClockBehind
  <2>8. BesideInv'
    BY <1>2, <2>1 DEF BesideInv, StaleInv, ActiveSince, Old
  <2>9. OneInv'
    BY <1>2, <2>1 DEF OneInv, AloneInv, ActiveSince
  <2>10. ObservedInv'
    BY <1>2, <2>1 DEF ObservedInv, ObservedSince
  <2> QED BY <2>2, <2>3, <2>4, <2>5, <2>6, <2>7, <2>8, <2>9, <2>10
<1> QED BY <1>1, <1>2

LEMMA RecordHighWaterKeeps == ASSUME NEW p \in Procs, IInv, RecordHighWater(p) PROVE IInv'
<1> USE DEF IInv, RecordHighWater, Sets, Holds, world, history, OwnerSteps, RunSteps
<1>1. Continues(p, IF proc[p].late THEN "release" ELSE "authorize", proc[p].cfg, proc[p].new)
  BY GoesType DEF Steps
<1> USE DEF OthersStay, Continues
<1>2. TypeOK'
  <2>1. db' \in Settings
    BY AuthorizationAssumption DEF TypeOK, Settings
  <2>2. Spent
    BY BudgetKept
  <2> QED BY <1>1, <2>1, <2>2 DEF TypeOK, Spent
<1>3. StepInv'
  BY <1>1 DEF StepInv, Steps
<1>4. LockInv'
  BY <1>1 DEF LockInv
<1>5. LayoutInv'
  BY <1>1 DEF LayoutInv, Rehearsed, Steps
<1>6. ModelInv'
  BY <1>1 DEF TypeOK, Settings, None, ModelInv
<1>7. ClockInv'
  BY <1>1 DEF ClockInv, ClockBehind
<1>8. BesideInv'
  BY <1>1 DEF BesideInv, StaleInv, ActiveSince, Old
<1>9. OneInv'
  BY <1>1 DEF OneInv, AloneInv, ActiveSince
<1>10. ObservedInv'
  BY <1>1 DEF ObservedInv, ObservedSince
<1> QED BY <1>2, <1>3, <1>4, <1>5, <1>6, <1>7, <1>8, <1>9, <1>10

LEMMA ReleaseMarkerKeeps == ASSUME NEW p \in Procs, IInv, ReleaseMarker(p) PROVE IInv'
<1> USE DEF IInv, ReleaseMarker, Sets, Holds, world, history, OwnerSteps, RunSteps
<1>1. CASE proc[p].erred
  <2>1. Minor
    <3>1. Linux => rev = saved
      BY DEF ModelInv
    <3>2. db' \in Settings
      BY DEF TypeOK, Settings
    <3> QED BY <1>1, <3>1, <3>2 DEF Minor, TypeOK
  <2>2. Spent
    BY BudgetKept
  <2> QED BY <1>1, <2>1, <2>2, QuietEnd DEF ClockBehind
<1>2. CASE ~ proc[p].erred
  <2>1. Continues(p, "cleanup", proc[p].cfg, proc[p].new)
    BY <1>2, GoesType DEF Steps
  <2> USE DEF OthersStay, Continues
  <2>2. TypeOK'
    <3>1. db' \in Settings
      BY <1>2 DEF TypeOK, Settings
    <3>2. Spent
      BY BudgetKept
    <3> QED BY <1>2, <2>1, <3>1, <3>2 DEF TypeOK, Spent
  <2>3. StepInv'
    BY <1>2, <2>1 DEF StepInv, Steps
  <2>4. LockInv'
    BY <1>2, <2>1 DEF LockInv
  <2>5. LayoutInv'
    BY <1>2, <2>1 DEF LayoutInv, Rehearsed, Steps
  <2>6. ModelInv'
    BY <1>2, <2>1 DEF TypeOK, ModelInv
  <2>7. ClockInv'
    BY <1>2, <2>1 DEF ClockInv, ClockBehind
  <2>8. BesideInv'
    BY <1>2, <2>1 DEF BesideInv, StaleInv, ActiveSince, Old
  <2>9. OneInv'
    BY <1>2, <2>1 DEF OneInv, AloneInv, ActiveSince
  <2>10. ObservedInv'
    BY <1>2, <2>1 DEF ObservedInv, ObservedSince
  <2> QED BY <2>2, <2>3, <2>4, <2>5, <2>6, <2>7, <2>8, <2>9, <2>10
<1> QED BY <1>1, <1>2

-----------------------------------------------------------------------------
(* The run.                                                                 *)

LEMMA LeavesKeeps ==
  ASSUME NEW p \in Procs, NEW erred \in BOOLEAN,
         proc[p].at \in {"authorize", "train", "learned"},
         UNCHANGED <<world, file, db>>, Sound \/ Fault, IInv, Leaves(p, erred)
  PROVE  IInv'
<1> USE DEF IInv, Leaves, Holds, world, history, OwnerSteps, RunSteps
<1>1. CASE ~ Linux /\ erred /\ ~ proc[p].taught
  BY <1>1, CalmEnd DEF ClockBehind
<1>2. CASE ~ (~ Linux /\ erred /\ ~ proc[p].taught)
  <2>1. Continues(p, IF Linux THEN "mark" ELSE "stats", proc[p].cfg, proc[p].new)
    <3>1. CASE Linux
      BY <1>2, <3>1, LeavesType DEF Steps
    <3>2. CASE ~ Linux
      BY <1>2, <3>2, LeavesType DEF Steps
    <3> QED BY <3>1, <3>2
  <2> USE DEF OthersStay, Continues
  <2>2. TypeOK'
    <3>1. db' \in Settings
      BY <1>2 DEF TypeOK
    <3>2. Spent
      BY BudgetKept
    <3> QED BY <1>2, <2>1, <3>1, <3>2 DEF TypeOK, Spent
  <2>3. StepInv'
    BY <1>2, <2>1 DEF StepInv, Steps
  <2>4. LockInv'
    BY <1>2, <2>1 DEF LockInv
  <2>5. LayoutInv'
    BY <1>2, <2>1 DEF LayoutInv, Rehearsed, Steps
  <2>6. ModelInv'
    BY <1>2, <2>1 DEF ModelInv
  <2>7. ClockInv'
    BY <1>2, <2>1 DEF ClockInv, ClockBehind
  <2>8. BesideInv'
    BY <1>2, <2>1 DEF BesideInv, StaleInv, ActiveSince, Old
  <2>9. OneInv'
    BY <1>2, <2>1 DEF OneInv, AloneInv, ActiveSince
  <2>10. ObservedInv'
    BY <1>2, <2>1 DEF ObservedInv, ObservedSince
  <2> QED BY <2>2, <2>3, <2>4, <2>5, <2>6, <2>7, <2>8, <2>9, <2>10
<1> QED BY <1>1, <1>2

LEMMA AuthorizeKeeps == ASSUME NEW p \in Procs, IInv, Authorize(p) PROVE IInv'
<1> USE DEF IInv, Authorize, Holds, world, history, OwnerSteps, RunSteps
<1>1. CASE Rehearsed
  <2>1. Continues(p, "train", proc[p].cfg, proc[p].new)
    BY <1>1, GoesType DEF Steps
  <2> USE DEF OthersStay, Continues
  <2>2. TypeOK'
    <3>1. db' \in Settings
      BY <1>1 DEF TypeOK
    <3>2. Spent
      BY BudgetKept
    <3> QED BY <1>1, <2>1, <3>1, <3>2 DEF TypeOK, Spent
  <2>3. StepInv'
    BY <1>1, <2>1 DEF StepInv, Steps
  <2>4. LockInv'
    BY <1>1, <2>1 DEF LockInv
  <2>5. LayoutInv'
    <3>1. db.bound \in rehearsed
      BY <1>1 DEF LayoutInv
    <3>2. proc[p].cfg.layout = db.bound
      BY DEF LayoutInv, Steps
    <3>3. db'.bound \in rehearsed' /\ proc'[p].cfg.layout = db'.bound /\ Rehearsed'
      BY <1>1, <2>1, <3>1, <3>2 DEF Rehearsed
    <3> QED BY <2>1, <3>3 DEF LayoutInv
  <2>6. ModelInv'
    BY <1>1, <2>1 DEF ModelInv
  <2>7. ClockInv'
    BY <1>1, <2>1 DEF ClockInv, ClockBehind
  <2>8. BesideInv'
    BY <1>1, <2>1 DEF BesideInv, StaleInv, ActiveSince, Old
  <2>9. OneInv'
    BY <1>1, <2>1 DEF OneInv, AloneInv, ActiveSince
  <2>10. ObservedInv'
    BY <1>1, <2>1 DEF ObservedInv, ObservedSince
  <2> QED BY <2>2, <2>3, <2>4, <2>5, <2>6, <2>7, <2>8, <2>9, <2>10
<1>2. CASE ~ Rehearsed
  BY <1>2, LeavesKeeps
<1> QED BY <1>1, <1>2

LEMMA LearnKeeps == ASSUME NEW p \in Procs, IInv, Learn(p) PROVE IInv'
<1> USE DEF IInv, Learn, Holds, world, history, OwnerSteps, RunSteps
<1>1. Continues(p, "learned", proc[p].cfg, proc[p].new)
  BY GoesType DEF Steps
<1> USE DEF OthersStay, Continues
<1>2. TypeOK'
  <2>1. rev' \in 0 .. MaxRevision
    BY AuthorizationAssumption DEF TypeOK
  <2>2. Spent
    BY BudgetKept
  <2> QED BY <1>1, <2>1, <2>2 DEF TypeOK, Spent
<1>3. StepInv'
  BY <1>1 DEF StepInv, Steps
<1>4. LockInv'
  BY <1>1 DEF LockInv
<1>5. LayoutInv'
  BY <1>1 DEF LayoutInv, Rehearsed, Steps
<1>6. ModelInv'
  BY <1>1 DEF TypeOK, Settings, ModelInv
<1>7. ClockInv'
  BY <1>1 DEF ClockInv, ClockBehind
<1>8. BesideInv'
  BY <1>1 DEF BesideInv, StaleInv, ActiveSince, Old
<1>9. OneInv'
  BY <1>1 DEF OneInv, AloneInv, ActiveSince
<1>10. ObservedInv'
  BY <1>1 DEF ObservedInv, ObservedSince
<1> QED BY <1>2, <1>3, <1>4, <1>5, <1>6, <1>7, <1>8, <1>9, <1>10

LEMMA MarkLearnedKeeps ==
  ASSUME NEW p \in Procs, NEW agrees \in BOOLEAN, IInv, MarkLearned(p, agrees) PROVE IInv'
<1> USE DEF IInv, MarkLearned, Holds, world, history, OwnerSteps, RunSteps
<1>1. Continues(p, "train", proc[p].cfg, proc[p].new)
  BY TaughtType DEF Steps
<1> USE DEF OthersStay, Continues
<1>2. TypeOK'
  <2>1. trained' \in 0 .. MaxRevision
    BY AuthorizationAssumption DEF TypeOK, ModelInv
  <2>2. Spent
    BY BudgetKept
  <2> QED BY <1>1, <2>1, <2>2 DEF TypeOK, Spent
<1>3. StepInv'
  BY <1>1 DEF StepInv, Steps
<1>4. LockInv'
  BY <1>1 DEF LockInv
<1>5. LayoutInv'
  BY <1>1 DEF LayoutInv, Rehearsed, Steps
<1>6. ModelInv'
  BY <1>1 DEF ModelInv
<1>7. ClockInv'
  BY <1>1 DEF ClockInv, ClockBehind
<1>8. BesideInv'
  BY <1>1 DEF BesideInv, StaleInv, ActiveSince, Old
<1>9. OneInv'
  BY <1>1 DEF OneInv, AloneInv, ActiveSince
<1>10. ObservedInv'
  BY <1>1 DEF ObservedInv, ObservedSince
<1> QED BY <1>2, <1>3, <1>4, <1>5, <1>6, <1>7, <1>8, <1>9, <1>10

LEMMA DecideKeeps == ASSUME NEW p \in Procs, IInv, Decide(p) PROVE IInv'
<1> USE DEF IInv, Decide, Holds, world, history, OwnerSteps, RunSteps
<1> QED
  BY LeavesKeeps

LEMMA RefuseKeeps == ASSUME NEW p \in Procs, IInv, Refuse(p) PROVE IInv'
<1> USE DEF IInv, Refuse, Holds, world, history, OwnerSteps, RunSteps
<1> QED
  BY LeavesKeeps

LEMMA EngineFailsKeeps == ASSUME NEW p \in Procs, IInv, EngineFails(p) PROVE IInv'
<1> USE DEF IInv, EngineFails, Holds, world, history, OwnerSteps, RunSteps
<1> QED
  BY LeavesKeeps

LEMMA BackUpKeeps == ASSUME NEW p \in Procs, IInv, BackUp(p) PROVE IInv'
<1> USE DEF IInv, BackUp, Holds, world, history, OwnerSteps, RunSteps
<1>1. CASE proc[p].erred
  <2>1. Minor
    BY <1>1 DEF Minor, TypeOK, TypeOK
  <2>2. Spent
    BY BudgetKept
  <2> QED BY <1>1, <2>1, <2>2, QuietEnd DEF ClockBehind
<1>2. CASE ~ proc[p].erred
  <2>1. Continues(p, "cleanup", proc[p].cfg, proc[p].new)
    BY <1>2, GoesType DEF Steps
  <2> USE DEF OthersStay, Continues
  <2>2. TypeOK'
    <3>1. db' \in Settings
      BY <1>2 DEF TypeOK
    <3>2. Spent
      BY BudgetKept
    <3> QED BY <1>2, <2>1, <3>1, <3>2 DEF TypeOK, Spent
  <2>3. StepInv'
    BY <1>2, <2>1 DEF StepInv, Steps
  <2>4. LockInv'
    BY <1>2, <2>1 DEF LockInv
  <2>5. LayoutInv'
    BY <1>2, <2>1 DEF LayoutInv, Rehearsed, Steps
  <2>6. ModelInv'
    BY <1>2, <2>1 DEF TypeOK, ModelInv
  <2>7. ClockInv'
    BY <1>2, <2>1 DEF ClockInv, ClockBehind
  <2>8. BesideInv'
    BY <1>2, <2>1 DEF BesideInv, StaleInv, ActiveSince, Old
  <2>9. OneInv'
    BY <1>2, <2>1 DEF OneInv, AloneInv, ActiveSince
  <2>10. ObservedInv'
    BY <1>2, <2>1 DEF ObservedInv, ObservedSince
  <2> QED BY <2>2, <2>3, <2>4, <2>5, <2>6, <2>7, <2>8, <2>9, <2>10
<1> QED BY <1>1, <1>2

LEMMA CleanUpKeeps == ASSUME NEW p \in Procs, IInv, CleanUp(p) PROVE IInv'
<1> USE DEF IInv, CleanUp, Holds, world, history, OwnerSteps, RunSteps
<1>1. CASE PurgeAllowed(proc[p].cfg)
  <2>1. Continues(p, "purged", proc[p].cfg, proc[p].new)
    BY <1>1, GoesType DEF Steps
  <2> USE DEF OthersStay, Continues
  <2>2. TypeOK'
    <3>1. db' \in Settings
      BY <1>1 DEF TypeOK
    <3>2. Spent
      BY BudgetKept
    <3> QED BY <1>1, <2>1, <3>1, <3>2 DEF TypeOK, Spent
  <2>3. StepInv'
    BY <1>1, <2>1 DEF StepInv, Steps
  <2>4. LockInv'
    BY <1>1, <2>1 DEF LockInv
  <2>5. LayoutInv'
    BY <1>1, <2>1 DEF LayoutInv, Steps, PurgeAllowed
  <2>6. ModelInv'
    BY <1>1, <2>1 DEF ModelInv
  <2>7. ClockInv'
    BY <1>1, <2>1
      DEF ClockInv, ClockBehind, PurgeAllowed, PurgeQuality, PurgeReady, ActivationQuality
  <2>8. BesideInv'
    BY <1>1, <2>1 DEF BesideInv, StaleInv, ActiveSince, Old
  <2>9. OneInv'
    BY <1>1, <2>1 DEF OneInv, AloneInv, ActiveSince
  <2>10. ObservedInv'
    BY <1>1, <2>1 DEF ObservedInv, ObservedSince
  <2> QED BY <2>2, <2>3, <2>4, <2>5, <2>6, <2>7, <2>8, <2>9, <2>10
<1>2. CASE ~ PurgeAllowed(proc[p].cfg)
  BY <1>2, CalmEnd DEF ClockBehind
<1> QED BY <1>1, <1>2

LEMMA PurgeByHandKeeps == ASSUME NEW p \in Procs, IInv, PurgeByHand(p) PROVE IInv'
<1> USE DEF IInv, PurgeByHand, At, Holds, world, history, OwnerSteps, RunSteps
<1>1. CASE PurgeAllowed(proc[p].cfg)
  <2>1. Continues(p, "purged", proc[p].cfg, proc[p].new)
    BY <1>1, GoesType DEF Steps
  <2> USE DEF OthersStay, Continues
  <2>2. TypeOK'
    <3>1. db' \in Settings
      BY <1>1 DEF TypeOK
    <3>2. Spent
      BY BudgetKept
    <3> QED BY <1>1, <2>1, <3>1, <3>2 DEF TypeOK, Spent
  <2>3. StepInv'
    BY <1>1, <2>1 DEF StepInv, Steps
  <2>4. LockInv'
    BY <1>1, <2>1 DEF LockInv
  <2>5. LayoutInv'
    BY <1>1, <2>1 DEF LayoutInv, Steps, PurgeAllowed
  <2>6. ModelInv'
    BY <1>1, <2>1 DEF ModelInv
  <2>7. ClockInv'
    BY <1>1, <2>1
      DEF ClockInv, ClockBehind, PurgeAllowed, PurgeQuality, PurgeReady, ActivationQuality
  <2>8. BesideInv'
    BY <1>1, <2>1 DEF BesideInv, StaleInv, ActiveSince, Old
  <2>9. OneInv'
    BY <1>1, <2>1 DEF OneInv, AloneInv, ActiveSince
  <2>10. ObservedInv'
    BY <1>1, <2>1 DEF ObservedInv, ObservedSince
  <2> QED BY <2>2, <2>3, <2>4, <2>5, <2>6, <2>7, <2>8, <2>9, <2>10
<1>2. CASE ~ PurgeAllowed(proc[p].cfg)
  BY <1>2, CalmEnd DEF ClockBehind
<1> QED BY <1>1, <1>2

LEMMA PurgedKeeps == ASSUME NEW p \in Procs, IInv, Purged(p) PROVE IInv'
<1> USE DEF IInv, Purged, Holds, world, history, OwnerSteps, RunSteps
<1> QED
  BY CalmEnd DEF ClockBehind

-----------------------------------------------------------------------------
(* The commands of the owner, and a death.                                  *)

LEMMA SaveProtectKeeps == ASSUME NEW p \in Procs, IInv, SaveProtect(p) PROVE IInv'
<1> USE DEF IInv, SaveProtect, At, Holds, world, history, OwnerSteps, RunSteps
<1>1. CASE proc[p].cfg.mode = "protect"
  BY <1>1, CalmEnd DEF ClockBehind
<1>2. CASE proc[p].cfg.mode # "protect"
  <2>1. Continues(p, "saved", proc[p].cfg, proc[p].new)
    BY <1>2, GoesType DEF Steps
  <2> USE DEF OthersStay, Continues
  <2>2. TypeOK'
    <3>1. file' \in Config
      BY <1>2 DEF StepInv, Config, Modes
    <3>2. Spent
      BY BudgetKept
    <3> QED BY <1>2, <2>1, <3>1, <3>2 DEF TypeOK, Spent
  <2>3. StepInv'
    BY <1>2, <2>1 DEF StepInv
  <2>4. LockInv'
    <3>1. file'.mode = "protect"
      BY <1>2 DEF StepInv, Config
    <3> QED BY <1>2, <2>1, <3>1 DEF LockInv
  <2>5. LayoutInv'
    BY <1>2, <2>1 DEF LayoutInv, Rehearsed
  <2>6. ModelInv'
    BY <1>2, <2>1 DEF ModelInv
  <2>7. ClockInv'
    BY <1>2, <2>1 DEF ClockInv, ClockBehind
  <2>8. BesideInv'
    BY <1>2, <2>1 DEF BesideInv, StaleInv, ActiveSince, Old, LockInv
  <2>9. OneInv'
    BY <1>2, <2>1 DEF OneInv, AloneInv, ActiveSince
  <2>10. ObservedInv'
    BY <1>2, <2>1 DEF ObservedInv, ObservedSince
  <2> QED BY <2>2, <2>3, <2>4, <2>5, <2>6, <2>7, <2>8, <2>9, <2>10
<1> QED BY <1>1, <1>2

LEMMA ProtectForgetsActivationKeeps ==
  ASSUME NEW p \in Procs, IInv, ProtectForgetsActivation(p) PROVE IInv'
<1> USE DEF IInv, ProtectForgetsActivation, At, Sets, Holds, world, history, OwnerSteps,
   RunSteps
<1>1. Continues(p, "forgotten", proc[p].cfg, proc[p].new)
  BY GoesType DEF Steps
<1> USE DEF OthersStay, Continues
<1>2. TypeOK'
  <2>1. db' \in Settings
    BY AuthorizationAssumption DEF TypeOK, Settings, Date
  <2>2. Spent
    BY BudgetKept
  <2> QED BY <1>1, <2>1, <2>2 DEF TypeOK, Spent
<1>3. StepInv'
  BY <1>1 DEF StepInv
<1>4. LockInv'
  BY <1>1 DEF LockInv
<1>5. LayoutInv'
  BY <1>1 DEF LayoutInv, Rehearsed
<1>6. ModelInv'
  BY <1>1 DEF ModelInv
<1>7. ClockInv'
  BY <1>1 DEF ClockInv, ClockBehind
<1>8. BesideInv'
  BY <1>1 DEF BesideInv, StaleInv, ActiveSince, Old
<1>9. OneInv'
  BY <1>1 DEF OneInv, AloneInv, ActiveSince
<1>10. ObservedInv'
  BY <1>1 DEF ObservedInv, ObservedSince
<1> QED BY <1>2, <1>3, <1>4, <1>5, <1>6, <1>7, <1>8, <1>9, <1>10

LEMMA ProtectRestartsObservationKeeps ==
  ASSUME NEW p \in Procs, IInv, ProtectRestartsObservation(p) PROVE IInv'
<1> USE DEF IInv, ProtectRestartsObservation, At, Sets, Holds, world, history, OwnerSteps,
   RunSteps
<1>1. Finishes(p)
  BY EndsType DEF TypeOK, Config
<1> USE DEF OthersStay, Finishes
<1>2. TypeOK'
  <2>1. db' \in Settings
    BY IdleType DEF TypeOK, Settings
  <2>2. Spent
    BY BudgetKept
  <2> QED BY <1>1, IdleType, <2>1, <2>2 DEF TypeOK, Spent, Ends
<1>3. StepInv'
  BY <1>1, IdleType DEF StepInv
<1>4. LockInv'
  BY <1>1, IdleType DEF Day, LockInv, Ends
<1>5. LayoutInv'
  BY <1>1, IdleType DEF LayoutInv, Rehearsed, Ends
<1>6. ModelInv'
  BY <1>1, IdleType DEF ModelInv, Ends
<1>7. ClockInv'
  BY <1>1, IdleType DEF ClockInv
<1>8. BesideInv'
  BY <1>1, IdleType
    DEF BesideInv, StaleInv, ActiveSince, Old, LockInv, TypeOK, Settings, Day, Date, Ends
<1>9. OneInv'
  BY <1>1, IdleType
    DEF OneInv, AloneInv, ActiveSince, OneAtATime, LockInv, TypeOK, Settings, Day, Date,
        Ends
<1>10. ObservedInv'
  BY <1>1, IdleType DEF ObservedInv, ObservedSince, LockInv, Day, Ends
<1> QED BY <1>2, <1>3, <1>4, <1>5, <1>6, <1>7, <1>8, <1>9, <1>10

LEMMA StartActiveClockKeeps ==
  ASSUME NEW p \in Procs, IInv, StartActiveClock(p) PROVE IInv'
<1> USE DEF IInv, StartActiveClock, At, Sets, Holds, world, history, OwnerSteps, RunSteps
<1>1. CASE MayActivate(proc[p].cfg)
  <2>1. Continues(p, "clocked", proc[p].cfg, proc[p].new)
    BY <1>1, GoesType DEF Steps
  <2> USE DEF OthersStay, Continues
  <2>2. TypeOK'
    <3>1. db' \in Settings
      BY <1>1 DEF TypeOK, Settings, Date
    <3>2. Spent
      BY BudgetKept
    <3> QED BY <1>1, <2>1, <3>1, <3>2 DEF TypeOK, Spent
  <2>3. StepInv'
    BY <1>1, <2>1 DEF StepInv
  <2>4. LockInv'
    BY <1>1, <2>1 DEF LockInv
  <2>5. LayoutInv'
    BY <1>1, <2>1 DEF TypeOK, Settings, LayoutInv, Rehearsed
  <2>6. ModelInv'
    BY <1>1, <2>1 DEF TypeOK, Settings, ModelInv
  <2>7. ClockInv'
    BY <1>1, <2>1 DEF ClockInv, LockInv, TypeOK, Settings, MayActivate
  <2>8. BesideInv'
    BY <1>1, <2>1 DEF BesideInv, StaleInv, ActiveSince, Old, LockInv, TypeOK, Settings, Day
  <2>9. OneInv'
    BY <1>1, <2>1 DEF OneInv, AloneInv, ActiveSince, MayActivate
  <2>10. ObservedInv'
    BY <1>1, <2>1
      DEF ObservedInv, ObservedSince, OneInv, AloneInv, TypeOK, Settings, MayActivate
  <2> QED BY <2>2, <2>3, <2>4, <2>5, <2>6, <2>7, <2>8, <2>9, <2>10
<1>2. CASE ~ MayActivate(proc[p].cfg)
  BY <1>2, CalmEnd DEF ClockBehind
<1> QED BY <1>1, <1>2

LEMMA SaveActiveKeeps == ASSUME NEW p \in Procs, IInv, SaveActive(p) PROVE IInv'
<1> USE DEF IInv, SaveActive, At, Sets, Holds, world, history, OwnerSteps, RunSteps
<1>1. CASE file' = [proc[p].cfg EXCEPT !.mode = "active", !.purge = FALSE] /\ UNCHANGED db
  <2>1. Finishes(p) /\ file' \in Config /\ file'.mode = "active"
    <3>1. proc[p].cfg \in Config
      BY DEF StepInv
    <3>2. file' \in Config /\ file'.mode = "active"
      BY <1>1, <3>1, ActiveType
    <3>3. Finishes(p)
      BY <3>2, EndsType DEF Modes
    <3> QED BY <3>2, <3>3
  <2> USE IdleType, AuthorizationAssumption DEF Finishes, Ends
  <2> USE DEF OthersStay, Continues
  <2>2. TypeOK'
    <3>1. Spent
      BY BudgetKept
    <3> QED BY <1>1, <2>1, <3>1 DEF TypeOK, Spent
  <2>3. StepInv'
    BY <1>1, <2>1 DEF StepInv
  <2>4. LockInv'
    BY <1>1, <2>1 DEF Day, LockInv
  <2>5. LayoutInv'
    BY <1>1, <2>1 DEF LayoutInv, Rehearsed
  <2>6. ModelInv'
    BY <1>1, <2>1 DEF ModelInv
  <2>7. ClockInv'
    BY <1>1, <2>1 DEF ClockInv
  <2>8. BesideInv'
    BY <1>1, <2>1 DEF BesideInv, StaleInv, ActiveSince, Old, ClockInv, TypeOK, Day
  <2>9. OneInv'
    BY <1>1, <2>1 DEF OneInv, AloneInv, ActiveSince, OneAtATime, ClockInv, Day
  <2>10. ObservedInv'
    BY <1>1, <2>1
      DEF ObservedInv, ObservedSince, OneInv, AloneInv, ClockInv, TypeOK, Settings, Day
  <2> QED BY <2>2, <2>3, <2>4, <2>5, <2>6, <2>7, <2>8, <2>9, <2>10
<1>2. CASE Sets([db EXCEPT !.active = None]) /\ UNCHANGED file
  <2>1. Finishes(p)
    BY <1>2, EndsType DEF TypeOK, Config
  <2> USE DEF OthersStay, Finishes
  <2>2. TypeOK'
    <3>1. db' \in Settings
      BY <1>2, IdleType DEF TypeOK, Settings, Date
    <3>2. Spent
      BY BudgetKept
    <3> QED BY <1>2, <2>1, IdleType, <3>1, <3>2 DEF TypeOK, Spent, Ends
  <2>3. StepInv'
    BY <1>2, <2>1, IdleType DEF StepInv
  <2>4. LockInv'
    BY <1>2, <2>1, IdleType DEF LockInv, Ends
  <2>5. LayoutInv'
    BY <1>2, <2>1, IdleType DEF LayoutInv, Rehearsed, Ends
  <2>6. ModelInv'
    BY <1>2, <2>1, IdleType DEF ModelInv, Ends
  <2>7. ClockInv'
    BY <1>2, <2>1, IdleType DEF ClockInv, Ends
  <2>8. BesideInv'
    BY <1>2, <2>1, IdleType DEF BesideInv, StaleInv, ActiveSince, Old
  <2>9. OneInv'
    BY <1>2, <2>1, IdleType DEF OneInv, AloneInv, ActiveSince, OneAtATime
  <2>10. ObservedInv'
    BY <1>2, <2>1, IdleType DEF ObservedInv, ObservedSince, LockInv, Ends
  <2> QED BY <2>2, <2>3, <2>4, <2>5, <2>6, <2>7, <2>8, <2>9, <2>10
<1> QED BY <1>1, <1>2

LEMMA SetPurgeKeeps == ASSUME NEW p \in Procs, IInv, SetPurge(p) PROVE IInv'
<1> USE DEF IInv, SetPurge, At, Holds, world, history, OwnerSteps, RunSteps
<1>1. Finishes(p)
  BY EndsType DEF TypeOK, Config, StepInv
<1> USE DEF OthersStay, Finishes
<1>2. TypeOK'
  <2>1. file' \in Config
    BY DEF StepInv, Config, TypeOK
  <2>2. Spent
    BY BudgetKept
  <2> QED BY <1>1, <2>1, <2>2 DEF TypeOK, Spent, Ends
<1>3. StepInv'
  BY <1>1, IdleType DEF StepInv
<1>4. LockInv'
  BY <1>1, IdleType DEF Day, LockInv, Ends
<1>5. LayoutInv'
  BY <1>1, IdleType DEF LayoutInv, Rehearsed, Ends
<1>6. ModelInv'
  BY <1>1, IdleType DEF ModelInv, Ends
<1>7. ClockInv'
  BY <1>1, IdleType DEF ClockInv, Ends
<1>8. BesideInv'
  BY <1>1, IdleType
    DEF BesideInv, StaleInv, ActiveSince, Old, LockInv, TypeOK, Settings, Day, Date,
        Modes, Ends
<1>9. OneInv'
  BY <1>1, IdleType DEF OneInv, AloneInv, ActiveSince, LockInv, Ends
<1>10. ObservedInv'
  BY <1>1, IdleType DEF ObservedInv, ObservedSince, OneInv, AloneInv, LockInv, Ends
<1> QED BY <1>2, <1>3, <1>4, <1>5, <1>6, <1>7, <1>8, <1>9, <1>10

LEMMA SaveQualificationKeeps ==
  ASSUME NEW p \in Procs, IInv, SaveQualification(p) PROVE IInv'
<1> USE DEF IInv, SaveQualification, At, Sets, Holds, world, history, OwnerSteps, RunSteps
<1>1. CASE \E low \in BOOLEAN :
            /\ ConfigurationMatches(proc[p].cfg)
            /\ Sets([db EXCEPT !.report = [layout |-> proc[p].cfg.layout, low |-> low, at |-> now]])
            /\ proc' = [proc EXCEPT ![p] = [@ EXCEPT !.at = "qualified", !.old = db.report,
                                                     !.new = [proc[p].new EXCEPT !.low = low]]]
            /\ UNCHANGED <<lock, history>>
  <2>1. /\ Continues(p, "qualified", proc[p].cfg, proc'[p].new)
        /\ proc'[p].new \in Config /\ proc'[p].new.mode = proc[p].cfg.mode
        /\ db' \in Settings /\ db'.protect = db.protect /\ db'.active = db.active
        /\ db'.proof = db.proof /\ db'.required = db.required /\ db'.bound = db.bound
        /\ db'.high = db.high /\ db'.marker = db.marker
        /\ proc[p].at = "locked" /\ UNCHANGED <<world, file, lock, history>>
    <3>1. PICK low \in BOOLEAN :
            /\ db' = [db EXCEPT !.report = [layout |-> proc[p].cfg.layout, low |-> low, at |-> now]]
            /\ proc' = [proc EXCEPT ![p] = [@ EXCEPT !.at = "qualified", !.old = db.report,
                                                     !.new = [proc[p].new EXCEPT !.low = low]]]
            /\ UNCHANGED <<lock, history>>
      BY <1>1
    <3>2. /\ proc[p].cfg \in Config /\ proc[p].new \in Config
          /\ proc[p].new.mode = proc[p].cfg.mode
      BY DEF StepInv
    <3>3. LET n == [proc[p].new EXCEPT !.low = low]
          IN  n \in Config /\ n.mode = proc[p].cfg.mode
      BY <3>2 DEF Config
    <3>4. db.report \in Report \cup {NoReport}
      BY DEF TypeOK, Settings
    <3>5. Continues(p, "qualified", proc[p].cfg, [proc[p].new EXCEPT !.low = low])
      BY <3>1, <3>3, <3>4, QualifiedType DEF Steps
    <3>6. /\ db' \in Settings /\ db'.protect = db.protect /\ db'.active = db.active
          /\ db'.proof = db.proof /\ db'.required = db.required /\ db'.bound = db.bound
          /\ db'.high = db.high /\ db'.marker = db.marker
      BY <3>1, <3>2 DEF TypeOK, Settings, Report, Config
    <3> QED BY <3>1, <3>3, <3>5, <3>6 DEF Continues
  <2> USE DEF OthersStay, Continues
  <2> HIDE DEF SaveQualification
  <2>2. TypeOK'
    <3>1. Spent
      BY BudgetKept DEF SaveQualification
    <3> QED BY <2>1, <3>1 DEF TypeOK, Spent
  <2>3. StepInv'
    BY <1>1, <2>1 DEF StepInv
  <2>4. LockInv'
    BY <1>1, <2>1 DEF LockInv
  <2>5. LayoutInv'
    BY <1>1, <2>1 DEF LayoutInv, Rehearsed
  <2>6. ModelInv'
    BY <1>1, <2>1 DEF ModelInv
  <2>7. ClockInv'
    BY <1>1, <2>1 DEF ClockInv, ClockBehind
  <2>8. BesideInv'
    BY <1>1, <2>1 DEF BesideInv, StaleInv, ActiveSince, Old
  <2>9. OneInv'
    BY <1>1, <2>1 DEF OneInv, AloneInv, ActiveSince
  <2>10. ObservedInv'
    BY <1>1, <2>1 DEF ObservedInv, ObservedSince
  <2> QED BY <2>2, <2>3, <2>4, <2>5, <2>6, <2>7, <2>8, <2>9, <2>10
<1>2. CASE Ends(p, file) /\ UNCHANGED db
  BY <1>2, CalmEnd DEF ClockBehind
<1> QED BY <1>1, <1>2

LEMMA SaveThresholdKeeps == ASSUME NEW p \in Procs, IInv, SaveThreshold(p) PROVE IInv'
<1> USE DEF IInv, SaveThreshold, At, Sets, Holds, world, history, OwnerSteps, RunSteps
<1>1. CASE file' = proc[p].new /\ UNCHANGED db
  <2>1. Finishes(p)
    BY <1>1, EndsType DEF Config, StepInv
  <2> USE DEF OthersStay, Finishes
  <2>2. TypeOK'
    <3>1. file' \in Config
      BY <1>1 DEF StepInv
    <3>2. Spent
      BY BudgetKept
    <3> QED BY <1>1, <2>1, <3>1, <3>2 DEF TypeOK, Spent, Ends
  <2>3. StepInv'
    BY <1>1, <2>1, IdleType DEF StepInv
  <2>4. LockInv'
    BY <1>1, <2>1, IdleType DEF Day, LockInv, Ends
  <2>5. LayoutInv'
    BY <1>1, <2>1, IdleType DEF LayoutInv, Rehearsed, Ends
  <2>6. ModelInv'
    BY <1>1, <2>1, IdleType DEF ModelInv, Ends
  <2>7. ClockInv'
    BY <1>1, <2>1, IdleType DEF ClockInv, Ends
  <2>8. BesideInv'
    BY <1>1, <2>1, IdleType
      DEF BesideInv, StaleInv, ActiveSince, Old, ClockInv, ClockBehind, StepInv, TypeOK,
          Settings, Day, Date, Modes, Ends
  <2>9. OneInv'
    BY <1>1, <2>1, IdleType DEF OneInv, AloneInv, ActiveSince, StepInv, Ends
  <2>10. ObservedInv'
    BY <1>1, <2>1, IdleType DEF ObservedInv, ObservedSince, OneInv, AloneInv, StepInv, Ends
  <2> QED BY <2>2, <2>3, <2>4, <2>5, <2>6, <2>7, <2>8, <2>9, <2>10
<1>2. CASE Sets([db EXCEPT !.report = proc[p].old]) /\ UNCHANGED file
  <2>1. Minor
    BY <1>2 DEF Minor, StepInv, TypeOK, Settings, TypeOK, Process
  <2>2. Spent
    BY BudgetKept
  <2> QED BY <1>2, <2>1, <2>2, QuietEnd DEF ClockBehind
<1> QED BY <1>1, <1>2

LEMMA BindPreviousKeeps == ASSUME NEW p \in Procs, IInv, BindPrevious(p) PROVE IInv'
<1> USE DEF IInv, BindPrevious, At, Sets, Holds, world, history, OwnerSteps, RunSteps
<1>1. CASE Sets(BoundTo(db, proc[p].cfg)) /\ Goes(p, "prepared") /\ UNCHANGED <<lock, history>>
  <2>1. Continues(p, "prepared", proc[p].cfg, proc[p].new) /\ Rebound(proc[p].cfg)
    <3>1. proc[p].cfg \in Config
      BY DEF StepInv
    <3>2. Rebound(proc[p].cfg)
      BY <1>1, <3>1, BoundToType
    <3> QED BY <1>1, <3>2, GoesType DEF Steps
  <2> USE DEF Rebound
  <2> USE DEF OthersStay, Continues
  <2>2. TypeOK'
    <3>1. Spent
      BY BudgetKept
    <3> QED BY <1>1, <2>1, <3>1 DEF TypeOK, Spent
  <2>3. StepInv'
    BY <1>1, <2>1 DEF StepInv
  <2>4. LockInv'
    BY <1>1, <2>1 DEF LockInv
  <2>5. LayoutInv'
    BY <1>1, <2>1 DEF LayoutInv, Rehearsed
  <2>6. ModelInv'
    BY <1>1, <2>1 DEF ModelInv
  <2>7. ClockInv'
    BY <1>1, <2>1 DEF ClockInv, ClockBehind
  <2>8. BesideInv'
    BY <1>1, <2>1 DEF BesideInv, StaleInv, ActiveSince, Old
  <2>9. OneInv'
    BY <1>1, <2>1 DEF OneInv, AloneInv, ActiveSince
  <2>10. ObservedInv'
    BY <1>1, <2>1 DEF ObservedInv, ObservedSince, LockInv
  <2> QED BY <2>2, <2>3, <2>4, <2>5, <2>6, <2>7, <2>8, <2>9, <2>10
<1>2. CASE db.bound # proc[p].cfg.layout /\ Ends(p, file) /\ UNCHANGED db
  BY <1>2, CalmEnd DEF ClockBehind
<1> QED BY <1>1, <1>2

LEMMA SaveSetupKeeps == ASSUME NEW p \in Procs, IInv, SaveSetup(p) PROVE IInv'
<1> USE DEF IInv, SaveSetup, At, Holds, world, history, OwnerSteps, RunSteps
<1>1. Continues(p, "saved", proc[p].cfg, proc[p].new)
  BY GoesType DEF Steps
<1> USE DEF OthersStay, Continues
<1>2. TypeOK'
  <2>1. file' \in Config
    BY DEF StepInv, Config, Modes
  <2>2. Spent
    BY BudgetKept
  <2> QED BY <1>1, <2>1, <2>2 DEF TypeOK, Spent
<1>3. StepInv'
  BY <1>1 DEF StepInv
<1>4. LockInv'
  BY <1>1 DEF LockInv
<1>5. LayoutInv'
  BY <1>1 DEF LayoutInv, Rehearsed
<1>6. ModelInv'
  BY <1>1 DEF ModelInv
<1>7. ClockInv'
  BY <1>1 DEF ClockInv, ClockBehind
<1>8. BesideInv'
  BY <1>1 DEF BesideInv, StaleInv, ActiveSince, Old
<1>9. OneInv'
  BY <1>1 DEF OneInv, AloneInv, ActiveSince
<1>10. ObservedInv'
  BY <1>1 DEF ObservedInv, ObservedSince
<1> QED BY <1>2, <1>3, <1>4, <1>5, <1>6, <1>7, <1>8, <1>9, <1>10

LEMMA BindSetupKeeps == ASSUME NEW p \in Procs, IInv, BindSetup(p) PROVE IInv'
<1> USE DEF IInv, BindSetup, At, Sets, Holds, world, history, OwnerSteps, RunSteps
<1>1. CASE Sets(BoundTo(db, file)) /\ Goes(p, "bound")
  <2>1. Continues(p, "bound", proc[p].cfg, proc[p].new) /\ Rebound(file)
    <3>1. file \in Config
      BY DEF TypeOK
    <3>2. Rebound(file)
      BY <1>1, <3>1, BoundToType
    <3> QED BY <1>1, <3>2, GoesType DEF Steps
  <2> USE DEF Rebound
  <2> USE DEF OthersStay, Continues
  <2>2. TypeOK'
    <3>1. Spent
      BY BudgetKept
    <3> QED BY <1>1, <2>1, <3>1 DEF TypeOK, Spent
  <2>3. StepInv'
    BY <1>1, <2>1 DEF StepInv
  <2>4. LockInv'
    BY <1>1, <2>1 DEF LockInv
  <2>5. LayoutInv'
    BY <1>1, <2>1 DEF LayoutInv, Rehearsed
  <2>6. ModelInv'
    BY <1>1, <2>1 DEF ModelInv
  <2>7. ClockInv'
    BY <1>1, <2>1 DEF ClockInv, ClockBehind
  <2>8. BesideInv'
    BY <1>1, <2>1 DEF BesideInv, StaleInv, ActiveSince, Old
  <2>9. OneInv'
    BY <1>1, <2>1 DEF OneInv, AloneInv, ActiveSince
  <2>10. ObservedInv'
    BY <1>1, <2>1 DEF ObservedInv, ObservedSince, LockInv
  <2> QED BY <2>2, <2>3, <2>4, <2>5, <2>6, <2>7, <2>8, <2>9, <2>10
<1>2. CASE db.bound # file.layout /\ UNCHANGED db /\ Goes(p, "undo")
  <2>1. Continues(p, "undo", proc[p].cfg, proc[p].new)
    BY <1>2, GoesType DEF Steps
  <2> USE DEF OthersStay, Continues
  <2>2. TypeOK'
    <3>1. db' \in Settings
      BY <1>2 DEF TypeOK
    <3>2. Spent
      BY BudgetKept
    <3> QED BY <1>2, <2>1, <3>1, <3>2 DEF TypeOK, Spent
  <2>3. StepInv'
    BY <1>2, <2>1 DEF StepInv
  <2>4. LockInv'
    BY <1>2, <2>1 DEF LockInv
  <2>5. LayoutInv'
    BY <1>2, <2>1 DEF LayoutInv, Rehearsed
  <2>6. ModelInv'
    BY <1>2, <2>1 DEF ModelInv
  <2>7. ClockInv'
    BY <1>2, <2>1 DEF ClockInv, ClockBehind
  <2>8. BesideInv'
    BY <1>2, <2>1 DEF BesideInv, StaleInv, ActiveSince, Old
  <2>9. OneInv'
    BY <1>2, <2>1 DEF OneInv, AloneInv, ActiveSince
  <2>10. ObservedInv'
    BY <1>2, <2>1 DEF ObservedInv, ObservedSince
  <2> QED BY <2>2, <2>3, <2>4, <2>5, <2>6, <2>7, <2>8, <2>9, <2>10
<1> QED BY <1>1, <1>2

LEMMA RequireFreshDryRunKeeps ==
  ASSUME NEW p \in Procs, IInv, RequireFreshDryRun(p) PROVE IInv'
<1> USE DEF IInv, RequireFreshDryRun, At, Sets, Holds, world, history, OwnerSteps, RunSteps
<1>1. CASE Sets(Fresh(db)) /\ Ends(p, file)
  <2>1. Finishes(p)
    BY <1>1, EndsType DEF TypeOK, Config
  <2> USE DEF OthersStay, Finishes
  <2>2. TypeOK'
    <3>1. db' \in Settings
      BY <1>1, IdleType DEF TypeOK, Settings, Date, Fresh
    <3>2. Spent
      BY BudgetKept
    <3> QED BY <1>1, <2>1, IdleType, <3>1, <3>2 DEF TypeOK, Spent, Ends
  <2>3. StepInv'
    BY <1>1, <2>1, IdleType DEF StepInv
  <2>4. LockInv'
    BY <1>1, <2>1, IdleType DEF Day, LockInv, Ends
  <2>5. LayoutInv'
    BY <1>1, <2>1, IdleType DEF LayoutInv, Rehearsed, Fresh, Ends
  <2>6. ModelInv'
    BY <1>1, <2>1, IdleType DEF ModelInv, Fresh, Ends
  <2>7. ClockInv'
    BY <1>1, <2>1, IdleType DEF ClockInv, Fresh
  <2>8. BesideInv'
    BY <1>1, <2>1, IdleType DEF BesideInv, StaleInv, ActiveSince, Old, Fresh
  <2>9. OneInv'
    BY <1>1, <2>1, IdleType DEF OneInv, AloneInv, ActiveSince, OneAtATime, Fresh
  <2>10. ObservedInv'
    BY <1>1, <2>1, IdleType DEF ObservedInv, ObservedSince, LockInv, Day, Fresh, Ends
  <2> QED BY <2>2, <2>3, <2>4, <2>5, <2>6, <2>7, <2>8, <2>9, <2>10
<1>2. CASE Goes(p, "undo") /\ UNCHANGED <<db, lock, history>>
  <2>1. Continues(p, "undo", proc[p].cfg, proc[p].new)
    BY <1>2, GoesType DEF Steps
  <2> USE DEF OthersStay, Continues
  <2>2. TypeOK'
    <3>1. db' \in Settings
      BY <1>2 DEF TypeOK
    <3>2. Spent
      BY BudgetKept
    <3> QED BY <1>2, <2>1, <3>1, <3>2 DEF TypeOK, Spent
  <2>3. StepInv'
    BY <1>2, <2>1 DEF StepInv
  <2>4. LockInv'
    BY <1>2, <2>1 DEF LockInv
  <2>5. LayoutInv'
    BY <1>2, <2>1 DEF LayoutInv, Rehearsed
  <2>6. ModelInv'
    BY <1>2, <2>1 DEF ModelInv
  <2>7. ClockInv'
    BY <1>2, <2>1 DEF ClockInv, ClockBehind
  <2>8. BesideInv'
    BY <1>2, <2>1 DEF BesideInv, StaleInv, ActiveSince, Old
  <2>9. OneInv'
    BY <1>2, <2>1 DEF OneInv, AloneInv, ActiveSince
  <2>10. ObservedInv'
    BY <1>2, <2>1 DEF ObservedInv, ObservedSince
  <2> QED BY <2>2, <2>3, <2>4, <2>5, <2>6, <2>7, <2>8, <2>9, <2>10
<1> QED BY <1>1, <1>2

LEMMA RollBackSetupKeeps == ASSUME NEW p \in Procs, IInv, RollBackSetup(p) PROVE IInv'
<1> USE DEF IInv, RollBackSetup, At, Holds, world, history, OwnerSteps, RunSteps
<1>1. Finishes(p)
  BY EndsType DEF Config, StepInv
<1> USE DEF OthersStay, Finishes
<1>2. TypeOK'
  <2>1. file' \in Config
    BY DEF StepInv
  <2>2. Spent
    BY BudgetKept
  <2> QED BY <1>1, <2>1, <2>2 DEF TypeOK, Spent, Ends
<1>3. StepInv'
  BY <1>1, IdleType DEF StepInv
<1>4. LockInv'
  BY <1>1, IdleType DEF Day, LockInv, Ends
<1>5. LayoutInv'
  BY <1>1, IdleType DEF LayoutInv, Rehearsed, Ends
<1>6. ModelInv'
  BY <1>1, IdleType DEF ModelInv, Ends
<1>7. ClockInv'
  BY <1>1, IdleType DEF ClockInv, Ends
<1>8. BesideInv'
  <2>1. "setup" \in Commands
    BY DEF TypeOK, Process
  <2> QED BY <2>1 DEF BesideInv
<1>9. OneInv'
  BY <1>1, IdleType DEF OneInv, AloneInv, ActiveSince, Ends
<1>10. ObservedInv'
  BY <1>1, IdleType DEF ObservedInv, ObservedSince, OneInv, AloneInv, Ends
<1> QED BY <1>2, <1>3, <1>4, <1>5, <1>6, <1>7, <1>8, <1>9, <1>10

LEMMA DiesKeeps == ASSUME NEW p \in Procs, IInv, Dies(p) PROVE IInv'
<1> USE DEF IInv, Dies, Holds, world, history, OwnerSteps, RunSteps
<1> QED
  BY CalmEnd DEF ClockBehind

-----------------------------------------------------------------------------
(* The initial states and the steps together.                               *)

LEMMA InstalledKeeps ==
  ASSUME NEW mode \in Modes, NEW l \in Layouts, NEW required \in BOOLEAN,
         Installed(mode, l, required),
         lock = {}, mistakes = {}, gone = "nothing", faults = 0, restores = 0,
         proc \in [Procs -> Process], \A p \in Procs : proc[p].at = "idle"
  PROVE  IInv
<1> USE AuthorizationAssumption DEF OwnerSteps, RunSteps
<1>1. /\ db \in Settings /\ file \in Config
      /\ watch \in [mode : Modes, since : Day, before : Day]
  BY DEF Installed, Settings, Config, Day, Date
<1>6. TypeOK
  BY <1>1 DEF Installed, TypeOK
<1>7. StepInv
  BY DEF StepInv
<1>8. LockInv
  BY DEF Installed, LockInv
<1>9. LayoutInv
  BY DEF Installed, LayoutInv, Rehearsed
<1>10. ModelInv
  BY DEF Installed, ModelInv
<1>11. ClockInv
  BY DEF Installed, ClockInv
<1>12. BesideInv
  BY DEF Installed, BesideInv, StaleInv, ActiveSince
<1>13. OneInv
  BY DEF Installed, OneInv, AloneInv, ActiveSince
<1>14. ObservedInv
  BY DEF Installed, ObservedInv, ObservedSince
<1> QED BY <1>6, <1>7, <1>8, <1>9, <1>10, <1>11, <1>12, <1>13, <1>14 DEF IInv

LEMMA AdoptedKeeps ==
  ASSUME NEW l \in Layouts, Adopted(l),
         lock = {}, mistakes = {}, gone = "nothing", faults = 0, restores = 0,
         proc \in [Procs -> Process], \A p \in Procs : proc[p].at = "idle"
  PROVE  IInv
<1> USE AuthorizationAssumption DEF OwnerSteps, RunSteps
<1>1. /\ db \in Settings /\ file \in Config
      /\ watch \in [mode : Modes, since : Day, before : Day]
  BY DEF Adopted, Settings, Config, Modes, Day, Date
<1>6. TypeOK
  BY <1>1 DEF Adopted, TypeOK, Day
<1>7. StepInv
  BY DEF StepInv
<1>8. LockInv
  BY DEF Adopted, LockInv
<1>9. LayoutInv
  BY DEF Adopted, LayoutInv, Rehearsed
<1>10. ModelInv
  BY DEF Adopted, ModelInv
<1>11. ClockInv
  BY DEF Adopted, ClockInv
<1>12. BesideInv
  BY DEF Adopted, BesideInv, StaleInv, ActiveSince
<1>13. OneInv
  BY DEF Adopted, OneInv, AloneInv, ActiveSince
<1>14. ObservedInv
  BY DEF Adopted, ObservedInv, ObservedSince
<1> QED BY <1>6, <1>7, <1>8, <1>9, <1>10, <1>11, <1>12, <1>13, <1>14 DEF IInv

LEMMA InitKeeps == Init => IInv
<1> SUFFICES ASSUME Init PROVE IInv
  OBVIOUS
<1>1. PICK l \in Layouts :
        (\E mode \in Modes, required \in BOOLEAN : Installed(mode, l, required)) \/ Adopted(l)
  BY DEF Init, Modes
<1>2. /\ proc \in [Procs -> Process] /\ \A p \in Procs : proc[p] = Idle
      /\ lock = {} /\ \A p \in Procs : proc[p].at = "idle"
  BY IdleType DEF Init
<1>3. CASE \E mode \in Modes, required \in BOOLEAN : Installed(mode, l, required)
  BY <1>2, <1>3, InstalledKeeps DEF Init
<1>4. CASE Adopted(l)
  BY <1>2, <1>4, AdoptedKeeps DEF Init
<1> QED BY <1>1, <1>3, <1>4

LEMMA StutterKeeps == IInv /\ UNCHANGED vars => IInv'
BY DEF vars, world, history, budget, IInv, TypeOK, StepInv, LockInv, LayoutInv, Rehearsed,
       ModelInv, ClockInv, ClockBehind, BesideInv, StaleInv, ActiveSince, Old, OneInv,
       AloneInv, ObservedInv, ObservedSince

LEMMA OwnerKeeps == ASSUME NEW p \in Procs, IInv, Owner(p) PROVE IInv'
BY LoadKeeps, LockKeeps, SaveProtectKeeps, ProtectForgetsActivationKeeps,
   ProtectRestartsObservationKeeps, StartActiveClockKeeps, SaveActiveKeeps, SetPurgeKeeps,
   SaveQualificationKeeps, SaveThresholdKeeps, BindPreviousKeeps, SaveSetupKeeps,
   BindSetupKeeps, RequireFreshDryRunKeeps, RollBackSetupKeeps
  DEF Owner

LEMMA ContinuityKeeps == ASSUME NEW p \in Procs, IInv, Continuity(p) PROVE IInv'
BY StatsFailKeeps, ReadStatsKeeps, ContinuousKeeps, DowngradeKeeps,
   RestartObservationKeeps, ForgetActivationKeeps, NoteRollbackKeeps,
   RequireCheckpointKeeps, CheckpointKeeps, RecordHighWaterKeeps, ReleaseMarkerKeeps
  DEF Continuity

LEMMA WorkerKeeps == ASSUME NEW p \in Procs, IInv, Worker(p) PROVE IInv'
BY StartKeeps, BindKeeps, PreviewKeeps, AuthorizeKeeps, LearnKeeps, MarkLearnedKeeps,
   DecideKeeps, RefuseKeeps, EngineFailsKeeps, BackUpKeeps, CleanUpKeeps,
   PurgeByHandKeeps, PurgedKeeps
  DEF Worker

LEMMA StepKeeps == IInv /\ [Next]_vars => IInv'
<1> SUFFICES ASSUME IInv, [Next]_vars PROVE IInv'
  OBVIOUS
<1>1. CASE Tick
  BY <1>1, TickKeeps
<1>2. ASSUME NEW r \in {0, saved}, RestoreModel(r) PROVE IInv'
  BY <1>2, RestoreModelKeeps
<1>3. ASSUME NEW p \in Procs, Owner(p) \/ Continuity(p) \/ Worker(p) \/ Dies(p) PROVE IInv'
  BY <1>3, OwnerKeeps, ContinuityKeeps, WorkerKeeps, DiesKeeps
<1>4. CASE UNCHANGED vars
  BY <1>4, StutterKeeps
<1> QED BY <1>1, <1>2, <1>3, <1>4 DEF Next

-----------------------------------------------------------------------------
(* The invariant holds in every reachable state, for any number of commands
   beside each other, any clocks and any crashes. *)
THEOREM Inductive == Spec => []IInv
<1>1. Init => IInv
  BY InitKeeps
<1>2. IInv /\ [Next]_vars => IInv'
  BY StepKeeps
<1> QED BY <1>1, <1>2, PTL DEF Spec

(* Every variable keeps its type; the lock has a holder exactly while a process
   is past its acquireRunLock. *)
THEOREM AuthorizationTypeCorrect == Spec => []TypeOK
<1>1. IInv => TypeOK
  BY DEF IInv
<1> QED BY <1>1, Inductive, PTL

(* No real run works on a folder layout that was not the one of the last
   successful dry run (Store.RequireOperationalAuthorization), whatever commands
   run beside it and wherever one of them dies. *)
THEOREM RunsWereRehearsed == Spec => []LiveRunsWereRehearsed
<1>1. IInv => LiveRunsWereRehearsed
  <2> SUFFICES ASSUME IInv, NEW p \in Procs, proc[p].at \in {"train", "learned"}
               PROVE  proc[p].cfg.layout \in rehearsed
    BY DEF LiveRunsWereRehearsed
  <2>1. proc[p].at \in RunSteps \ {"bind"}
    BY DEF RunSteps, OwnerSteps, Steps
  <2> QED BY <2>1 DEF IInv, LayoutInv
<1> QED BY <1>1, Inductive, PTL

(* On the server no revision of the model is without a backup and without the
   marker while the lock is free, wherever a run died (prepareLinuxMutation). *)
THEOREM MarkerCovers == Spec => []MarkerCoversLearning
<1>1. IInv => MarkerCoversLearning
  BY DEF IInv, ModelInv, MarkerCoversLearning
<1> QED BY <1>1, Inductive, PTL

(* On the server a model that lost what the high water vouches for decides
   nothing (linuxModelCheckpoint). *)
THEOREM LossIsNoticed == ASSUME Linux PROVE Spec => []KnownLossNoticed
<1>1. IInv => KnownLossNoticed
  <2> SUFFICES ASSUME IInv, NEW p \in Procs, proc[p].at = "train", gone = "saved" PROVE FALSE
    BY DEF KnownLossNoticed, Decides
  <2>1. rev >= db.high /\ db.high # None /\ rev < db.high
    BY DEF IInv, ModelInv
  <2>2. rev \in Int /\ db.high \in Int
    BY DEF IInv, TypeOK, Settings, None
  <2> QED BY <2>1, <2>2
<1> QED BY <1>1, Inductive, PTL

(* Permanent deletion follows 30 uninterrupted days of active mode: for one
   command at a time wherever it dies, and for any number of them beside each
   other without setup and as long as none is cut short. *)
THEOREM DeletionFollowsActivePeriod ==
  ASSUME OneAtATime \/ ("setup" \notin Commands /\ ~ CutShort)
  PROVE  Spec => []PurgeNeedsActivePeriod
<1>1. IInv => PurgeNeedsActivePeriod
  <2> SUFFICES ASSUME IInv, NEW p \in Procs, proc[p].at = "purged"
               PROVE  watch.mode = "active" /\ watch.since + PurgeDays <= now
    BY DEF PurgeNeedsActivePeriod
  <2>1. /\ proc[p].cfg.mode = "active" /\ proc[p].cfg = file
        /\ db.active # None /\ db.active + PurgeDays <= now /\ db.protect <= db.active
    BY DEF IInv, ClockInv, StepInv, RunSteps, OwnerSteps, Steps
  <2>2. watch.mode = "active"
    BY <2>1 DEF IInv, LockInv
  <2>3. watch.since <= db.active
    BY <2>1, <2>2 DEF IInv, OneInv, BesideInv, ActiveSince
  <2>4. now \in Nat /\ db.active \in Int /\ watch.since \in Nat /\ PurgeDays \in Nat
    BY AuthorizationAssumption DEF IInv, TypeOK, Settings, Day, Date, None
  <2> QED BY <2>1, <2>2, <2>3, <2>4
<1> QED BY <1>1, Inductive, PTL

(* An automatic move follows an uninterrupted observation of the configured
   length, for one command at a time that brings its writes to an end. *)
THEOREM DecisionsFollowObservation ==
  ASSUME OneAtATime, ~ CutShort PROVE Spec => []ObservationPrecedesActive
<1>1. IInv => ObservationPrecedesActive
  <2> SUFFICES ASSUME IInv, NEW p \in Procs, Decides(p)
               PROVE  watch.mode = "active" /\ watch.before >= ProtectDays
    BY DEF ObservationPrecedesActive
  <2>1. proc[p].cfg.mode = "active" /\ proc[p].cfg = file /\ db.active # None
    BY DEF IInv, StepInv, Decides, ActivationQuality, RunSteps, OwnerSteps, Steps
  <2>2. watch.mode = "active"
    BY <2>1 DEF IInv, LockInv
  <2> QED BY <2>1, <2>2 DEF IInv, ObservedInv, ObservedSince
<1> QED BY <1>1, Inductive, PTL

(* The steps that leave the settings, and those that leave the high water. *)
LEMMA SameSettings ==
  ASSUME NEW p \in Procs, IInv,
         \/ \E op \in Commands : Load(p, op)
         \/ Lock(p) \/ SaveProtect(p) \/ SetPurge(p) \/ SaveSetup(p) \/ RollBackSetup(p)
         \/ StatsFail(p) \/ Downgrade(p) \/ Checkpoint(p) \/ Authorize(p) \/ Learn(p)
         \/ \E op \in {"run", "dryrun", "purge"} : Start(p, op)
         \/ \E agrees \in BOOLEAN : MarkLearned(p, agrees)
         \/ Decide(p) \/ Refuse(p) \/ EngineFails(p) \/ BackUp(p) \/ CleanUp(p)
         \/ PurgeByHand(p) \/ Purged(p) \/ Dies(p)
  PROVE  db' = db
BY DEF Load, Lock, SaveProtect, SetPurge, SaveSetup, RollBackSetup, StatsFail, Downgrade,
       Checkpoint, Authorize, Learn, Start, MarkLearned, Decide, Refuse, EngineFails,
       BackUp, CleanUp, PurgeByHand, Purged, Dies

LEMMA SameHighWater ==
  ASSUME NEW p \in Procs, IInv,
         \/ ProtectForgetsActivation(p) \/ ProtectRestartsObservation(p) \/ StartActiveClock(p)
         \/ SaveActive(p) \/ SaveQualification(p) \/ SaveThreshold(p) \/ RequireFreshDryRun(p)
         \/ Continuous(p) \/ RestartObservation(p) \/ ForgetActivation(p) \/ NoteRollback(p)
         \/ RequireCheckpoint(p) \/ ReleaseMarker(p) \/ Preview(p)
         \/ Bind(p) \/ BindPrevious(p) \/ BindSetup(p)
  PROVE  db'.high = db.high
<1> db \in Settings
  BY DEF IInv, TypeOK
<1> QED
  BY DEF Settings, Sets, ProtectForgetsActivation, ProtectRestartsObservation,
         StartActiveClock, SaveActive, SaveQualification, SaveThreshold,
         RequireFreshDryRun, Fresh, Continuous, RestartObservation, ForgetActivation,
         NoteRollback, RequireCheckpoint, ReleaseMarker, Preview, Bind, BindPrevious,
         BindSetup, BoundTo

(* ReadStats takes the higher revision; a checkpoint has compared before. *)
LEMMA HighWaterRises == IInv /\ [Next]_vars => db'.high >= db.high
<1> SUFFICES ASSUME IInv, [Next]_vars PROVE db'.high >= db.high
  OBVIOUS
<1>0. db.high \in Int
  BY DEF IInv, TypeOK, Settings, None
<1>1. CASE Tick \/ (\E r \in {0, saved} : RestoreModel(r)) \/ UNCHANGED vars
  BY <1>0, <1>1 DEF Tick, RestoreModel, vars
<1>2. ASSUME NEW p \in Procs, ReadStats(p) PROVE db'.high >= db.high
  BY <1>0, <1>2 DEF IInv, TypeOK, None, ReadStats, Sets, Highest
<1>3. ASSUME NEW p \in Procs, RecordHighWater(p) PROVE db'.high >= db.high
  BY <1>0, <1>3 DEF IInv, ModelInv, RecordHighWater, Sets
<1>4. ASSUME NEW p \in Procs, Owner(p) PROVE db'.high >= db.high
  BY <1>0, <1>4, SameSettings, SameHighWater DEF Owner
<1>5. ASSUME NEW p \in Procs, Continuity(p) PROVE db'.high >= db.high
  BY <1>0, <1>2, <1>3, <1>5, SameSettings, SameHighWater DEF Continuity
<1>6. ASSUME NEW p \in Procs, Worker(p) \/ Dies(p) PROVE db'.high >= db.high
  BY <1>0, <1>6, SameSettings, SameHighWater DEF Worker
<1> QED BY <1>1, <1>4, <1>5, <1>6 DEF Next

(* The recorded high water of the model never falls. *)
THEOREM HighWaterNeverFalls == Spec => HighWaterKept
<1>1. IInv /\ [Next]_vars => [db'.high >= db.high]_vars
  BY HighWaterRises
<1> QED BY <1>1, Inductive, PTL DEF Spec, HighWaterKept
=============================================================================
