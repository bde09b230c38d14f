------------------------------ MODULE MacCapture ------------------------------
(***************************************************************************)
(* tools/migration/capture_mac.py: the Mac that owns the mailbox is paused, *)
(* its journal and its spam model are captured into a stage, and it is     *)
(* resumed, unless the capture was the final one (keep_paused).            *)
(*                                                                         *)
(* A LaunchAgent is loaded (launchd starts it) and may be disabled, which  *)
(* alone survives a reboot.  Versions stand for contents: a mailbox pass   *)
(* brings a new version of the model and then of the journal, and the      *)
(* running scanner may write to the model at any time.                     *)
(***************************************************************************)
EXTENDS Naturals

CONSTANTS
  Stages,     \* capture directories, each used for one capture
  UiAgent,    \* whether the GUI has a LaunchAgent on this Mac
  MaxPass,    \* bound: completed mailbox passes
  MaxModel,   \* bound: versions of the model
  MaxFaults,  \* bound: failures, kills and reboots, on both hosts
  Careful     \* no second fault strikes a capture that is undoing itself

ASSUME CaptureAssumption ==
  /\ Stages # {} /\ UiAgent \in BOOLEAN /\ Careful \in BOOLEAN
  /\ MaxPass \in Nat /\ MaxModel \in Nat /\ MaxFaults \in Nat

Labels == {"service", "ui"}
Front(S) == IF "service" \in S THEN "service" ELSE "ui"
Back(S) == IF "ui" \in S THEN "ui" ELSE "service"

On == [loaded |-> TRUE, disabled |-> FALSE]
Absent == [loaded |-> FALSE, disabled |-> FALSE]
Usual == [agent |-> [l \in Labels |-> IF l = "service" \/ UiAgent THEN On ELSE Absent],
          gui |-> UiAgent]

VARIABLES
  agent,    \* launchd: [loaded, disabled] of each label
  gui,      \* the application is open
  scanner,  \* Rspamd runs (Redis always does)
  pass,     \* a Guardian command: [step, by]
  mac,      \* versions on the Mac: [db, model], and how the latest run ended
  stage,    \* the capture directories
  cap,      \* the capture (or resume) process
  spent     \* faults so far, against the bound

host == <<agent, gui, scanner>>
macVars == <<agent, gui, scanner, pass, mac, stage, cap, spent>>

NoPass == [step |-> "none", by |-> "user"]
NoReceipt == [agent |-> [l \in Labels |-> Absent], gui |-> FALSE, kept |-> FALSE]
NoStage == [made |-> FALSE, incomplete |-> FALSE, complete |-> FALSE, paused |-> FALSE,
            db |-> 0, model |-> 0, receipt |-> NoReceipt, resumed |-> FALSE]
NoCapture(s) == [pc |-> "idle", stage |-> s, keep |-> FALSE, original |-> NoReceipt,
                 changed |-> {}, left |-> {}, stopped |-> FALSE, goal |-> "none",
                 bad |-> FALSE, cut |-> FALSE]
Idle == \E s \in Stages : cap = NoCapture(s)

MacInit ==
  /\ agent = Usual.agent /\ gui = Usual.gui /\ scanner = TRUE
  /\ pass = NoPass /\ mac = [db |-> 0, model |-> 0, latest |-> "ok"]
  /\ stage = [s \in Stages |-> NoStage]
  /\ cap = NoCapture(CHOOSE s \in Stages : TRUE) /\ spent = 0

-----------------------------------------------------------------------------
\* What an operator reads in a stage: publish_capture and its undoing.
Usable(s) ==
  stage[s].complete /\ ~stage[s].incomplete /\ stage[s].paused /\ ~stage[s].resumed

\* From the publication of a final capture on nobody uses the Mac by hand:
\* the stage says that this is for the operator to see to.
HandsOff ==
  \/ cap.keep /\ cap.pc \in {"complete", "unmark", "sync"}
  \/ \E s \in Stages : Usable(s)

Locked == {"snapshot", "export", "recheck", "assert", "complete", "unmark", "sync"}
Pausing == {"inspect", "disable", "commands", "bootout", "stack", "stop", "quiet", "lock"}
Held == cap.pc \in Locked /\ cap.goal # "rehearsed"  \* guardian.lock

Fault == spent < MaxFaults /\ spent' = spent + 1

\* guardian_processes: commands and the application.
Process == pass.step # "none" \/ gui

\* assert_quiescent: no process, and Redis has no client but this one.
Quiet == ~Process /\ ~scanner

Goto(pc) == cap' = [cap EXCEPT !.pc = pc]

\* An exception: the lock goes first, then a final capture takes its
\* publication back, then the Mac is resumed.
Failed == [cap EXCEPT !.pc = IF cap.keep THEN "invalidate" ELSE "start",
                      !.left = cap.changed, !.goal = "failed"]
Fail == cap' = Failed
Check(good, pc) == IF good THEN Goto(pc) ELSE Fail

-----------------------------------------------------------------------------
\* Mailbox passes of launchd and of the user.
PassStarts(by) ==
  /\ pass = NoPass /\ mac.db < MaxPass /\ mac.model < MaxModel
  /\ IF by = "agent" THEN agent["service"].loaded ELSE ~HandsOff
  /\ pass' = [step |-> "starting", by |-> by]
  /\ UNCHANGED <<host, mac, stage, cap, spent>>

\* A scheduled command starts the stack before it asks for guardian.lock.
PassBegins ==
  /\ pass.step = "starting"
  /\ scanner' = (scanner \/ pass.by = "agent")
  /\ IF ~Held /\ scanner'
       THEN pass' = [pass EXCEPT !.step = "running"] /\ mac' = [mac EXCEPT !.latest = "open"]
       ELSE pass' = NoPass /\ UNCHANGED mac
  /\ UNCHANGED <<agent, gui, stage, cap, spent>>

PassLearns ==
  /\ pass.step = "running" /\ scanner /\ mac.model < MaxModel
  /\ pass' = [pass EXCEPT !.step = "learned"] /\ mac' = [mac EXCEPT !.model = @ + 1]
  /\ UNCHANGED <<host, stage, cap, spent>>

PassEnds ==
  /\ pass.step \in {"running", "learned"}
  /\ pass' = NoPass
  /\ \/ mac' = [mac EXCEPT !.db = @ + 1, !.latest = "ok"] /\ scanner /\ UNCHANGED spent
     \/ mac' = [mac EXCEPT !.latest = "failed"] /\ Fault
  /\ UNCHANGED <<host, stage, cap>>

ScannerWrites ==
  /\ scanner /\ mac.model < MaxModel
  /\ mac' = [mac EXCEPT !.model = @ + 1]
  /\ UNCHANGED <<host, pass, stage, cap, spent>>

\* The application is opened, the stack started, the service installed anew.
UserActs ==
  /\ ~HandsOff
  /\ \/ ~gui /\ gui' = TRUE /\ UNCHANGED <<agent, scanner>>
     \/ ~scanner /\ scanner' = TRUE /\ UNCHANGED <<agent, gui>>
     \/ agent["service"] # On /\ agent' = [agent EXCEPT !["service"] = On]
        /\ UNCHANGED <<gui, scanner>>
  /\ UNCHANGED <<pass, mac, stage, cap, spent>>

Command == (\E by \in {"agent", "user"} : PassStarts(by)) \/ PassBegins \/ PassLearns
  \/ PassEnds \/ ScannerWrites \/ UserActs

-----------------------------------------------------------------------------
\* capture: a new directory, marked incomplete.
CaptureBegins(s, keep) ==
  /\ Idle /\ ~stage[s].made
  /\ stage' = [stage EXCEPT ![s] = [NoStage EXCEPT !.made = TRUE, !.incomplete = TRUE]]
  /\ cap' = [NoCapture(s) EXCEPT !.pc = "inspect", !.keep = keep]
  /\ UNCHANGED <<host, pass, mac, spent>>

\* Mutant: only a final capture leaves a receipt.
InspectFinalOnly ==
  LET seen == [agent |-> agent, gui |-> gui, kept |-> TRUE] IN
  /\ cap.pc = "inspect"
  /\ IF pass = NoPass /\ scanner
       THEN /\ cap' = [cap EXCEPT !.pc = "disable", !.original = seen]
            /\ stage' = IF cap.keep THEN [stage EXCEPT ![cap.stage].receipt = seen] ELSE stage
       ELSE cap' = [Failed EXCEPT !.original = seen] /\ UNCHANGED stage
  /\ UNCHANGED <<host, pass, mac, spent>>

\* inspect: the receipt is durable before anything is changed.
Inspect ==
  LET seen == [agent |-> agent, gui |-> gui, kept |-> TRUE] IN
  /\ cap.pc = "inspect"
  /\ IF pass = NoPass /\ scanner
       THEN /\ cap' = [cap EXCEPT !.pc = "disable", !.original = seen]
            /\ stage' = [stage EXCEPT ![cap.stage].receipt = seen]
       ELSE cap' = [Failed EXCEPT !.original = seen] /\ UNCHANGED stage
  /\ UNCHANGED <<host, pass, mac, spent>>

\* launchctl disable; a command that timed out may have had its effect, and
\* the label is not yet in the list of changes.
Disable ==
  LET l == Front(Labels \ cap.changed) IN
  /\ cap.pc = "disable"
  /\ agent' = [agent EXCEPT ![l].disabled = TRUE]
  /\ \/ /\ cap' = [cap EXCEPT !.changed = @ \cup {l},
                     !.pc = IF cap.changed = {} THEN "disable" ELSE "commands"]
        /\ UNCHANGED spent
     \/ cap' = [Failed EXCEPT !.cut = TRUE] /\ Fault
  /\ UNCHANGED <<gui, scanner, pass, mac, stage>>

\* No command may run; the application is asked to quit.
CloseGui ==
  /\ cap.pc = "commands"
  /\ IF pass = NoPass
       THEN /\ gui' = FALSE
            /\ cap' = [cap EXCEPT !.pc = "bootout",
                         !.left = {l \in Labels : cap.original.agent[l].loaded}]
       ELSE Fail /\ UNCHANGED gui
  /\ UNCHANGED <<agent, scanner, pass, mac, stage, spent>>

\* launchctl bootout ends what the agent had started.
Bootout ==
  LET l == Front(cap.left) IN
  /\ cap.pc = "bootout" /\ cap.left # {}
  /\ IF agent[l].loaded
       THEN /\ agent' = [agent EXCEPT ![l].loaded = FALSE]
            /\ gui' = (gui /\ l # "ui")
            /\ pass' = IF l = "service" /\ pass.by = "agent" THEN NoPass ELSE pass
            /\ \/ cap' = [cap EXCEPT !.left = @ \ {l}] /\ UNCHANGED spent
               \/ Fail /\ Fault
       ELSE Fail /\ UNCHANGED <<agent, gui, pass, spent>>
  /\ UNCHANGED <<scanner, mac, stage>>

\* Nothing of Guardian is left.
CheckClosed ==
  /\ cap.pc = "bootout" /\ cap.left = {} /\ Check(~Process, "stack")
  /\ UNCHANGED <<host, pass, mac, stage, spent>>

\* Mutant: the scanner is marked as stopped after it has been stopped.
StopMarkedAfter ==
  /\ \/ cap.pc = "stack" /\ Check(scanner, "stop") /\ UNCHANGED <<scanner, spent>>
     \/ /\ cap.pc = "stop" /\ scanner' = FALSE
        /\ \/ cap' = [cap EXCEPT !.pc = "quiet", !.stopped = TRUE] /\ UNCHANGED spent
           \/ Fail /\ Fault
  /\ UNCHANGED <<agent, gui, pass, mac, stage>>

\* The scanner still runs; it is marked before it is stopped, since a command
\* that timed out may have stopped it.
StopScanner ==
  /\ \/ /\ cap.pc = "stack" /\ UNCHANGED <<scanner, spent>>
        /\ IF scanner THEN cap' = [cap EXCEPT !.pc = "stop", !.stopped = TRUE] ELSE Fail
     \/ /\ cap.pc = "stop" /\ scanner' = FALSE
        /\ \/ Goto("quiet") /\ UNCHANGED spent
           \/ Fail /\ Fault
  /\ UNCHANGED <<agent, gui, pass, mac, stage>>

\* assert_quiescent, the run lock (a command that is running holds it), and
\* assert_quiescent again.
TakeLock ==
  /\ \/ cap.pc = "quiet" /\ Check(Quiet, "lock")
     \/ cap.pc = "lock" /\ Check(pass.step \notin {"running", "learned"} /\ Quiet, "snapshot")
  /\ UNCHANGED <<host, pass, mac, stage, spent>>

\* snapshot_database refuses a latest run that is not successful.
SnapshotDatabase ==
  /\ cap.pc = "snapshot"
  /\ Check(mac.latest = "ok", "export")
  /\ stage' = IF mac.latest = "ok" THEN [stage EXCEPT ![cap.stage].db = mac.db] ELSE stage
  /\ UNCHANGED <<host, pass, mac, spent>>

ExportModel ==
  /\ cap.pc = "export" /\ Goto("recheck")
  /\ stage' = [stage EXCEPT ![cap.stage].model = mac.model]
  /\ UNCHANGED <<host, pass, mac, spent>>

\* A rehearsal resumes the Mac here.
Recheck ==
  /\ cap.pc = "recheck"
  /\ cap' = IF ~Quiet THEN Failed
            ELSE IF cap.keep THEN [cap EXCEPT !.pc = "assert"]
            ELSE [cap EXCEPT !.pc = "start", !.left = cap.changed, !.goal = "rehearsed"]
  /\ UNCHANGED <<host, pass, mac, stage, spent>>

AssertPaused ==
  /\ cap.pc = "assert"
  /\ Check(Quiet /\ \A l \in Labels : agent[l].disabled /\ ~agent[l].loaded, "complete")
  /\ UNCHANGED <<host, pass, mac, stage, spent>>

\* publish_capture: the report and COMPLETE, INCOMPLETE goes, the directory.
Publish ==
  /\ \/ /\ cap.pc \in {"complete", "publish"}
        /\ stage' = [stage EXCEPT ![cap.stage].paused = cap.keep, ![cap.stage].complete = TRUE]
        /\ Goto("unmark")
     \/ /\ cap.pc = "unmark"
        /\ stage' = [stage EXCEPT ![cap.stage].incomplete = FALSE] /\ Goto("sync")
     \/ /\ cap.pc = "sync" /\ UNCHANGED stage
        /\ cap' = [cap EXCEPT !.pc = "ended", !.goal = IF cap.keep THEN "paused" ELSE @]
  /\ UNCHANGED <<host, pass, mac, spent>>

\* Mutant: a failed final capture leaves its publication as it is.
InvalidateNothing ==
  /\ cap.pc = "invalidate" /\ Goto("start")
  /\ UNCHANGED <<host, pass, mac, stage, spent>>

\* invalidate_publication: errors are ignored.
Invalidate ==
  /\ cap.pc = "invalidate" /\ Goto("start")
  /\ \/ /\ stage' = [stage EXCEPT ![cap.stage].incomplete = TRUE, ![cap.stage].complete = FALSE]
        /\ UNCHANGED spent
     \/ ~Careful /\ Fault /\ UNCHANGED stage
  /\ UNCHANGED <<host, pass, mac>>

\* Any step before the end of the publication may fail or be interrupted; a
\* rehearsal publishes after the Mac has been resumed.
StepFails ==
  /\ cap.pc \in Pausing \cup Locked \cup {"publish"} /\ Fault
  /\ IF cap.goal = "rehearsed" THEN cap' = [cap EXCEPT !.pc = "ended", !.goal = "failed"] ELSE Fail
  /\ UNCHANGED <<host, pass, mac, stage>>

-----------------------------------------------------------------------------
\* resume: without the scanner no agent is started.
ResumeScanner ==
  /\ cap.pc = "start"
  /\ \/ scanner' = (scanner \/ cap.stopped) /\ Goto("agents") /\ UNCHANGED spent
     \/ /\ cap.stopped /\ Fault /\ UNCHANGED scanner
        /\ cap' = [cap EXCEPT !.pc = "ended", !.bad = TRUE]
  /\ UNCHANGED <<agent, gui, pass, mac, stage>>

\* One label: enable it unless it was disabled before, load it if it was.
ResumeAgent ==
  LET l == Back(cap.left)
      was == cap.original.agent[l]
      enabled == agent[l].disabled /\ was.disabled
  IN
  /\ cap.pc = "agents" /\ cap.left # {}
  /\ \/ /\ agent' = [agent EXCEPT ![l] = [loaded |-> @.loaded \/ was.loaded, disabled |-> enabled]]
        /\ gui' = (gui \/ (l = "ui" /\ agent'[l].loaded /\ ~agent[l].loaded))
        /\ cap' = [cap EXCEPT !.left = @ \ {l}] /\ UNCHANGED spent
     \/ /\ Fault /\ agent' = [agent EXCEPT ![l].disabled = enabled]
        /\ cap' = [cap EXCEPT !.left = @ \ {l}, !.bad = TRUE] /\ UNCHANGED gui
  /\ UNCHANGED <<scanner, pass, mac, stage>>

\* The application is reopened where no agent does it; then the result.
ResumeGui ==
  /\ cap.pc = "agents" /\ cap.left = {}
  /\ gui' = (gui \/ (cap.original.gui /\ ~cap.original.agent["ui"].loaded))
  /\ Goto(IF cap.bad THEN "ended" ELSE IF cap.goal = "rehearsed" THEN "publish"
          ELSE IF cap.goal = "receipt" THEN "record" ELSE "ended")
  /\ UNCHANGED <<agent, scanner, pass, mac, stage, spent>>

\* resume_from_receipt: as if both labels and the scanner had been stopped.
ResumeBegins(s) ==
  /\ Idle /\ stage[s].receipt.kept /\ ~stage[s].resumed
  /\ cap' = [NoCapture(s) EXCEPT !.pc = "start", !.original = stage[s].receipt,
               !.changed = Labels, !.left = Labels, !.stopped = TRUE, !.goal = "receipt"]
  /\ UNCHANGED <<host, pass, mac, stage, spent>>

ResumeRecorded ==
  /\ cap.pc = "record" /\ Goto("ended")
  /\ stage' = [stage EXCEPT ![cap.stage].resumed = TRUE]
  /\ UNCHANGED <<host, pass, mac, spent>>

Reported ==
  /\ cap.pc = "ended" /\ cap' = NoCapture(cap.stage)
  /\ UNCHANGED <<host, pass, mac, stage, spent>>

Capture == Inspect \/ Disable \/ CloseGui \/ Bootout \/ CheckClosed \/ StopScanner \/ TakeLock
  \/ SnapshotDatabase \/ ExportModel \/ Recheck \/ AssertPaused \/ Publish \/ Invalidate
Resume == ResumeScanner \/ ResumeAgent \/ ResumeGui \/ ResumeRecorded \/ Reported

\* The process is killed, or the Mac restarts: launchd loads at login what
\* is not disabled, and a stopped container stays stopped.
Killed ==
  /\ ~Idle /\ Fault /\ cap' = NoCapture(cap.stage)
  /\ UNCHANGED <<host, pass, mac, stage>>

Reboot ==
  /\ Fault /\ cap' = NoCapture(cap.stage) /\ pass' = NoPass
  /\ agent' = [l \in Labels |->
       [agent[l] EXCEPT !.loaded = Usual.agent[l].loaded /\ ~agent[l].disabled]]
  /\ gui' = agent'["ui"].loaded
  /\ UNCHANGED <<scanner, mac, stage>>
=============================================================================
