--------------------------- MODULE Handover_proofs ---------------------------
(***************************************************************************)
(* Proofs about the handover.  A stage is trusted long after the capture    *)
(* that wrote it has ended, by an operator who sees only what is in it; the *)
(* invariants below say what a capture has done at each of its steps, what  *)
(* a stage then stands for, and what the server has taken from it, for any  *)
(* number of stages, passes, failures and reboots.                          *)
(***************************************************************************)
EXTENDS HandoverProperties, TLAPS

Agents == [Labels -> [loaded : BOOLEAN, disabled : BOOLEAN]]
Receipts == [agent : Agents, gui : BOOLEAN, kept : BOOLEAN]
StageRecords == [made : BOOLEAN, incomplete : BOOLEAN, complete : BOOLEAN, paused : BOOLEAN,
                 db : Nat, model : Nat, receipt : Receipts, resumed : BOOLEAN]
Resuming == {"start", "agents", "record"}
Steps == {"idle", "inspect", "disable", "commands", "bootout", "stack", "stop", "quiet", "lock",
          "snapshot", "export", "recheck", "assert", "complete", "publish", "unmark", "sync",
          "invalidate", "start", "agents", "record", "ended"}
Captures == [pc : Steps,
             stage : Stages, keep : BOOLEAN, original : Receipts,
             changed : SUBSET Labels, left : SUBSET Labels, stopped : BOOLEAN,
             goal : {"none", "failed", "rehearsed", "receipt", "paused"},
             bad : BOOLEAN, cut : BOOLEAN]
Volumes == [token : Nat, model : Nat, aof : BOOLEAN]
Reports == [token : Nat, model : Nat, clean : BOOLEAN]
Tasks == [pc : Phases \cup {"none"}, stage : Stages \cup {None}, token : Nat,
          report : Reports \cup {None}]

(* Types of the Mac and of the server. *)
MacType ==
  /\ agent \in Agents /\ gui \in BOOLEAN /\ scanner \in BOOLEAN
  /\ pass \in [step : {"none", "starting", "running", "learned"}, by : {"user", "agent"}]
  /\ mac \in [db : Nat, model : Nat, latest : {"ok", "open", "failed"}]
  /\ stage \in [Stages -> StageRecords] /\ cap \in Captures
  /\ revoked \subseteq Stages

ServerType ==
  /\ marker \in BOOLEAN /\ attached \in BOOLEAN /\ adopted \in BOOLEAN /\ live \in BOOLEAN
  /\ task \in Tasks /\ tokens \in Nat /\ volume \in Volumes \cup {None}
  /\ reports \subseteq Reports /\ data \in [is : {"empty", "away", "full"}, db : Nat]
  /\ files \in Nat /\ published \in Stages \cup {None}

TypeOK == MacType /\ ServerType /\ spent \in Nat

(* Which process is at which step, and what for. *)
CapInv ==
  /\ cap.pc = "idle" => cap = NoCapture(cap.stage)
  /\ cap.pc \in Pausing \cup {"snapshot", "export", "recheck", "assert", "complete"} =>
       cap.goal = "none"
  /\ cap.pc \in {"unmark", "sync"} => cap.goal = IF cap.keep THEN "none" ELSE "rehearsed"
  /\ cap.pc = "publish" => ~ cap.keep /\ cap.goal = "rehearsed"
  /\ cap.pc \in {"assert", "complete", "invalidate"} => cap.keep
  /\ cap.pc = "invalidate" => cap.goal = "failed"
  /\ cap.pc \in {"start", "agents"} => cap.goal \in {"failed", "rehearsed", "receipt"}
  /\ cap.pc = "record" => cap.goal = "receipt"
  /\ cap.pc = "ended" => cap.goal # "none"
  /\ cap.goal = "rehearsed" => ~ cap.keep
  /\ cap.goal = "receipt" => cap.pc \in Resuming \cup {"ended"} /\ cap.stopped /\ cap.changed = Labels
  /\ cap.goal = "paused" => cap.pc = "ended"

(* What a capture has written into its stage; the others are finished, given
   up or untouched.  Only a final capture says that the Mac stays paused. *)
StageInv ==
  /\ cap.pc # "idle" => stage[cap.stage].made
  /\ cap.pc \in Pausing => ~ stage[cap.stage].resumed
  /\ cap.pc = "inspect" => ~ stage[cap.stage].receipt.kept
  /\ cap.pc \in Pausing \cup {"snapshot", "export", "recheck", "assert", "complete", "unmark"} =>
       stage[cap.stage].incomplete
  /\ cap.goal = "rehearsed" /\ cap.pc \in {"start", "agents", "publish"} => stage[cap.stage].incomplete
  /\ cap.pc # "idle" /\ cap.goal # "receipt" /\ stage[cap.stage].paused => cap.keep
  /\ Careful /\ cap.pc \in {"start", "agents"} /\ cap.goal = "failed" => ~ Usable(cap.stage)
  /\ Careful /\ cap.pc = "ended" /\ cap.goal = "failed" => ~ Usable(cap.stage)
  /\ cap.goal = "receipt" => \A s \in Stages : stage[s].made => s \in revoked
  /\ \A s \in Stages : ~ stage[s].made => stage[s] = NoStage
  /\ \A s \in revoked : stage[s].made

(* Under guardian.lock the journal does not change, and the model only while
   the scanner runs; from the last look on the Mac is at rest. *)
Paused ==
  /\ \A l \in Labels : ~ agent[l].loaded /\ agent[l].disabled
  /\ ~ gui /\ ~ scanner /\ pass = NoPass
Same(s) == stage[s].db = mac.db /\ stage[s].model = mac.model

HeldInv ==
  /\ pass.step = "none" => pass = NoPass
  /\ cap.pc \in Locked /\ cap.goal = "none" => pass.step \in {"none", "starting"}
  /\ cap.pc \in {"export", "recheck", "assert"} => stage[cap.stage].db = mac.db
  /\ cap.pc \in {"recheck", "assert"} => scanner \/ stage[cap.stage].model = mac.model
  /\ cap.keep /\ cap.pc \in {"complete", "unmark", "sync"} => Paused /\ Same(cap.stage)

(* A stage that can be trusted is right: the Mac is at rest, with what the stage
   holds, and no process is about to change that. *)
Finished(s) == cap.stage = s /\ cap.pc \in {"idle", "sync", "invalidate", "ended"}
Harmless ==
  /\ cap.changed = {} /\ ~ cap.stopped /\ ~ cap.original.gui
  /\ cap.pc \in {"idle", "inspect", "invalidate", "start", "agents", "ended"}

TrustInv ==
  Careful => \A s \in Stages : Usable(s) /\ s \notin revoked =>
    /\ Paused /\ Same(s)
    /\ cap.goal # "receipt"
    /\ Finished(s) \/ (cap.stage # s /\ Harmless)

(* No agent is loaded that usually is not, and a receipt of the usual state is
   left as long as the Mac is in another one. *)
Loadable(l) == l = "service" \/ UiAgent
Within(a) == \A l \in Labels : a[l].loaded => Loadable(l)
AsUsual1(a, l) == (a[l].loaded <=> Loadable(l)) /\ ~ a[l].disabled
AsUsual(a) == \A l \in Labels : AsUsual1(a, l)
Witness(s) == stage[s].receipt.kept /\ ~ stage[s].resumed /\ AsUsual(stage[s].receipt.agent)

RecoverInv ==
  /\ Within(agent) /\ Within(cap.original.agent) /\ \A s \in Stages : Within(stage[s].receipt.agent)
  /\ ~ AsUsual(agent) \/ cap.pc \in {"disable", "commands", "bootout"} =>
       \E s \in Stages : Witness(s)
  /\ cap.goal = "receipt" /\ cap.pc # "ended" => cap.original = stage[cap.stage].receipt
  /\ cap.goal = "receipt" /\ cap.pc \in {"agents", "record"} /\ AsUsual(cap.original.agent) =>
       \A l \in Labels \ cap.left : cap.bad \/ AsUsual1(agent, l)
  /\ cap.pc = "record" => cap.left = {} /\ ~ cap.bad

(* What a capture has changed at each step, and how far a resume has put it back. *)
Back1(l) ==
  /\ cap.original.agent[l].loaded => agent[l].loaded
  /\ agent[l].disabled => cap.original.agent[l].disabled \/ cap.cut

WorkInv ==
  /\ cap.pc = "inspect" => cap.changed = {}
  /\ cap.pc = "disable" => cap.changed \in {{}, {"service"}}
  /\ cap.pc \in (Pausing \ {"inspect", "disable"}) \cup Locked => cap.changed = Labels
  /\ cap.pc = "disable" \/ cap.changed # {} => scanner \/ cap.stopped
  /\ cap.pc = "stop" => cap.stopped
  /\ cap.goal = "rehearsed" => cap.changed = Labels
  /\ cap.pc = "disable" => \A l \in Labels \ cap.changed : Back1(l)
  /\ cap.pc \in {"start", "invalidate"} =>
       cap.left = cap.changed /\ (cap.changed = {} \/ \A l \in Labels \ cap.left : Back1(l))
  /\ cap.pc = "agents" => cap.left \subseteq cap.changed
  /\ cap.pc = "agents" => cap.changed = {} \/ (scanner /\ \A l \in Labels \ cap.left : cap.bad \/ Back1(l))
  /\ cap.pc = "publish" \/ (cap.goal = "rehearsed" /\ cap.pc \in {"unmark", "sync"}) =>
       scanner /\ \A l \in Labels : Back1(l)
  /\ cap.pc \in {"record", "ended"} /\ cap.goal # "paused" /\ cap.changed # {} /\ ~ cap.bad =>
       scanner /\ \A l \in Labels : Back1(l)

(* A stage that was taken to the server is not written again, except for the
   record of a resume. *)
Sealed(s) == stage[s].made /\ (cap.stage = s => cap.pc = "idle" \/ cap.goal = "receipt")

(* A volume's token says which import wrote it; a report is written when the
   model has been read back. *)
Holds(s) == volume # None /\ volume.aof /\ volume.model = stage[s].model

ImportInv ==
  /\ task.pc = "none" => task = NoTask
  /\ task.pc # "none" => task.stage \in Stages /\ Sealed(task.stage)
  /\ task.pc # "none" => marker /\ ~ live /\ published = None
  /\ volume # None => volume.token <= tokens
  /\ \A r \in reports : r.token <= tokens
  /\ task.pc \in {"load", "convert", "restart", "report"} =>
       task.token = tokens /\ \A r \in reports : r.token # tokens
  /\ task.pc = "load" => volume = None
  /\ task.pc \in {"convert", "restart", "report"} => volume # None /\ volume.token = tokens
  /\ task.pc \in {"restart", "report"} => volume.aof
  /\ task.pc = "report" => volume.model = stage[task.stage].model
  /\ \A r \in reports : volume # None /\ volume.token = r.token =>
       volume.aof /\ volume.model = r.model

(* The journal is published after the model and from the same stage. *)
PublishInv ==
  /\ task.pc \in {"prepare", "retain", "rename", "files", "verify"} => Holds(task.stage)
  /\ task.pc \in {"prepare", "retain", "rename"} => files = 0
  /\ task.pc \in {"files", "verify"} => data = [is |-> "full", db |-> stage[task.stage].db]
  /\ task.pc = "files" => files <= 2
  /\ task.pc = "verify" => files = 3
  /\ published # None =>
       /\ Sealed(published) /\ Holds(published)
       /\ data = [is |-> "full", db |-> stage[published].db] /\ files = 3
  /\ ~ marker => published # None
  /\ live => ~ marker /\ Usable(published) /\ published \notin revoked

MacInv == CapInv /\ StageInv /\ HeldInv /\ TrustInv /\ RecoverInv /\ WorkInv
ServerInv == ImportInv /\ PublishInv
IInv == TypeOK /\ MacInv /\ ServerInv

-----------------------------------------------------------------------------

(* A step of the Mac leaves what was taken to the server. *)
Seals ==
  \A s \in Stages : Sealed(s) =>
    /\ Sealed(s)' /\ stage'[s].db = stage[s].db /\ stage'[s].model = stage[s].model
    /\ s \notin revoked => Usable(s)' = Usable(s)

MacKept == MacType' /\ MacInv' /\ Seals

(* Kinds of step: the process goes on, or fails; which parts of its stage stay. *)
Moves(pc) ==
  /\ cap'.pc = pc /\ cap'.stage = cap.stage /\ cap'.keep = cap.keep
  /\ cap'.original = cap.original /\ cap'.changed = cap.changed /\ cap'.left = cap.left
  /\ cap'.stopped = cap.stopped /\ cap'.goal = cap.goal /\ cap'.bad = cap.bad /\ cap'.cut = cap.cut

Fails ==
  /\ cap'.pc = IF cap.keep THEN "invalidate" ELSE "start"
  /\ cap'.stage = cap.stage /\ cap'.keep = cap.keep
  /\ cap'.changed = cap.changed /\ cap'.left = cap.changed /\ cap'.goal = "failed"
  /\ cap'.stopped = cap.stopped /\ cap'.bad = cap.bad

Others == \A s \in Stages : s # cap.stage => stage'[s] = stage[s]
Marks ==
  /\ stage'[cap.stage].made = stage[cap.stage].made
  /\ stage'[cap.stage].incomplete = stage[cap.stage].incomplete
  /\ stage'[cap.stage].complete = stage[cap.stage].complete
  /\ stage'[cap.stage].paused = stage[cap.stage].paused
  /\ stage'[cap.stage].resumed = stage[cap.stage].resumed
Contents ==
  /\ stage'[cap.stage].db = stage[cap.stage].db
  /\ stage'[cap.stage].model = stage[cap.stage].model

LEMMA Goes ==
  ASSUME MacType, NEW pc \in Steps, Goto(pc) PROVE Moves(pc) /\ cap' \in Captures
BY DEF MacType, Captures, Goto, Moves

LEMMA FailedIs ==
  ASSUME MacType
  PROVE  /\ Failed \in Captures
         /\ Failed.pc = IF cap.keep THEN "invalidate" ELSE "start"
         /\ Failed.stage = cap.stage /\ Failed.keep = cap.keep /\ Failed.original = cap.original
         /\ Failed.changed = cap.changed /\ Failed.left = cap.changed /\ Failed.goal = "failed"
         /\ Failed.stopped = cap.stopped /\ Failed.bad = cap.bad /\ Failed.cut = cap.cut
<1>1. CASE cap.keep
  BY <1>1 DEF MacType, Captures, Failed, Steps
<1>2. CASE ~ cap.keep
  BY <1>2 DEF MacType, Captures, Failed, Steps
<1> QED BY <1>1, <1>2 DEF Captures

LEMMA FailsThen ==
  ASSUME MacType, cap' = Failed
  PROVE  Fails /\ cap'.original = cap.original /\ cap'.cut = cap.cut /\ cap' \in Captures
BY FailedIs DEF Fails


LEMMA PassStartsKeeps ==
  ASSUME IInv, NEW by \in {"agent", "user"}, PassStarts(by), UNCHANGED revoked
  PROVE  MacKept
<1>t. MacType
  BY DEF IInv, TypeOK
<1>u. MacType'
  <2>4. pass' \in [step : {"none", "starting", "running", "learned"}, by : {"user", "agent"}]
    BY DEF PassStarts, host
  <2> QED BY <1>t, <2>4 DEF MacType, host, PassStarts, NoPass
<1>e. /\ UNCHANGED <<stage, cap>>
      /\ UNCHANGED <<agent, gui, scanner, mac>>
      /\ pass = NoPass /\ pass'.step = "starting"
      /\ (by = "agent" /\ agent["service"].loaded) \/ ~ HandsOff
  BY DEF Captures, StageRecords, Receipts, Agents, host, PassStarts
<1>1. CapInv'
  BY <1>e DEF IInv, MacInv, CapInv, HandsOff
<1>2. StageInv'
  BY <1>e DEF IInv, MacInv, StageInv, CapInv, Usable, HandsOff
<1>3. HeldInv'
  BY <1>e DEF IInv, MacInv, HeldInv, CapInv, Paused, Same, HandsOff, Labels
<1>4. TrustInv'
  BY <1>e
    DEF IInv, MacInv, TrustInv, CapInv, StageInv, HeldInv, WorkInv, Paused, Same,
        Finished, Harmless, Usable, HandsOff, Labels
<1>5. RecoverInv'
  BY <1>e
    DEF IInv, MacInv, RecoverInv, CapInv, StageInv, Within, Witness, AsUsual, AsUsual1,
        Loadable, HandsOff
<1>6. WorkInv'
  BY <1>e DEF IInv, MacInv, WorkInv, CapInv, Back1, HandsOff
<1>7. Seals
  BY <1>e DEF IInv, MacInv, Seals, Sealed, StageInv, CapInv, Usable, HandsOff
<1> QED BY <1>u, <1>1, <1>2, <1>3, <1>4, <1>5, <1>6, <1>7 DEF MacKept, MacInv

LEMMA PassBeginsKeeps ==
  ASSUME IInv, PassBegins, UNCHANGED revoked
  PROVE  MacKept
<1>t. MacType
  BY DEF IInv, TypeOK
<1>u. MacType'
  <2>3. scanner' \in BOOLEAN
    BY DEF PassBegins, host
  <2>4. pass' \in [step : {"none", "starting", "running", "learned"}, by : {"user", "agent"}]
    BY <1>t DEF MacType, PassBegins, NoPass, host
  <2>5. mac' \in [db : Nat, model : Nat, latest : {"ok", "open", "failed"}]
    BY <1>t DEF MacType, PassBegins, NoPass, host
  <2> QED BY <1>t, <2>3, <2>4, <2>5 DEF MacType, host, PassBegins, NoPass
<1>e. /\ UNCHANGED <<stage, cap>>
      /\ UNCHANGED <<agent, gui>> /\ pass.step = "starting"
      /\ scanner => scanner'
      /\ scanner' \in BOOLEAN
      /\ \/ ~ Held /\ pass'.step = "running" /\ mac'.db = mac.db /\ mac'.model = mac.model
         \/ pass' = NoPass /\ mac' = mac
  BY <1>t
    DEF MacType, Captures, StageRecords, Receipts, Agents, Moves, Fails, host, PassBegins,
        NoPass
<1>1. CapInv'
  BY <1>e DEF IInv, MacInv, CapInv, Held
<1>2. StageInv'
  BY <1>e DEF IInv, MacInv, StageInv, CapInv, Usable, Held
<1>3. HeldInv'
  BY <1>e DEF IInv, MacInv, HeldInv, CapInv, Paused, Same, Held, NoPass
<1>4. TrustInv'
  BY <1>e
    DEF IInv, MacInv, TrustInv, CapInv, StageInv, HeldInv, WorkInv, Paused, Same,
        Finished, Harmless, Usable, Held, NoPass
<1>5. RecoverInv'
  BY <1>e
    DEF IInv, MacInv, RecoverInv, CapInv, StageInv, Within, Witness, AsUsual, AsUsual1,
        Loadable, Held
<1>6. WorkInv'
  BY <1>e DEF IInv, MacInv, WorkInv, CapInv, Back1, Held
<1>7. Seals
  BY <1>e DEF IInv, MacInv, Seals, Sealed, StageInv, CapInv, Usable, Held
<1> QED BY <1>u, <1>1, <1>2, <1>3, <1>4, <1>5, <1>6, <1>7 DEF MacKept, MacInv

LEMMA PassLearnsKeeps ==
  ASSUME IInv, PassLearns, UNCHANGED revoked
  PROVE  MacKept
<1>t. MacType
  BY DEF IInv, TypeOK
<1>u. MacType'
  <2>4. pass' \in [step : {"none", "starting", "running", "learned"}, by : {"user", "agent"}]
    BY <1>t DEF MacType, PassLearns, host
  <2>5. mac' \in [db : Nat, model : Nat, latest : {"ok", "open", "failed"}]
    BY <1>t DEF MacType, PassLearns, host
  <2> QED BY <1>t, <2>4, <2>5 DEF MacType, host, PassLearns
<1>e. /\ UNCHANGED <<stage, cap>>
      /\ UNCHANGED <<agent, gui, scanner>> /\ pass.step = "running"
      /\ pass'.step = "learned" /\ scanner /\ mac'.db = mac.db
  BY DEF Captures, StageRecords, Receipts, Agents, host, PassLearns
<1>1. CapInv'
  BY <1>e DEF IInv, MacInv, CapInv
<1>2. StageInv'
  BY <1>e DEF IInv, MacInv, StageInv, CapInv, Usable
<1>3. HeldInv'
  BY <1>e DEF IInv, MacInv, HeldInv, CapInv, Paused, Same
<1>4. TrustInv'
  BY <1>e
    DEF IInv, MacInv, TrustInv, CapInv, StageInv, HeldInv, WorkInv, Paused, Same,
        Finished, Harmless, Usable
<1>5. RecoverInv'
  BY <1>e
    DEF IInv, MacInv, RecoverInv, CapInv, StageInv, Within, Witness, AsUsual, AsUsual1,
        Loadable
<1>6. WorkInv'
  BY <1>e DEF IInv, MacInv, WorkInv, CapInv, Back1
<1>7. Seals
  BY <1>e DEF IInv, MacInv, Seals, Sealed, StageInv, CapInv, Usable
<1> QED BY <1>u, <1>1, <1>2, <1>3, <1>4, <1>5, <1>6, <1>7 DEF MacKept, MacInv

LEMMA PassEndsKeeps ==
  ASSUME IInv, PassEnds, UNCHANGED revoked
  PROVE  MacKept
<1>t. MacType
  BY DEF IInv, TypeOK
<1>u. MacType'
  <2>1. pass' \in [step : {"none", "starting", "running", "learned"}, by : {"user", "agent"}]
    BY DEF PassEnds, NoPass
  <2>2. CASE mac' = [mac EXCEPT !.db = @ + 1, !.latest = "ok"]
    <3>1. mac.db + 1 \in Nat
      BY <1>t DEF MacType
    <3>2. mac' \in [db : Nat, model : Nat, latest : {"ok", "open", "failed"}]
      BY <1>t, <2>2, <3>1 DEF MacType
    <3> QED BY <1>t, <2>1, <3>2 DEF MacType, host, PassEnds
  <2>3. CASE mac' = [mac EXCEPT !.latest = "failed"]
    <3>2. mac' \in [db : Nat, model : Nat, latest : {"ok", "open", "failed"}]
      BY <1>t, <2>3 DEF MacType
    <3> QED BY <1>t, <2>1, <3>2 DEF MacType, host, PassEnds
  <2> QED BY <2>2, <2>3 DEF PassEnds
<1>e. /\ UNCHANGED <<stage, cap>>
      /\ UNCHANGED <<agent, gui, scanner>> /\ pass.step \in {"running", "learned"}
      /\ pass' = NoPass /\ mac'.model = mac.model
  BY <1>t
    DEF MacType, Captures, StageRecords, Receipts, Agents, Moves, Fails, host, PassEnds,
        NoPass
<1>1. CapInv'
  BY <1>e DEF IInv, MacInv, CapInv
<1>2. StageInv'
  BY <1>e DEF IInv, MacInv, StageInv, CapInv, Usable
<1>3. HeldInv'
  BY <1>e DEF IInv, MacInv, HeldInv, CapInv, Paused, Same, Pausing, Locked, Resuming, NoPass
<1>4. TrustInv'
  BY <1>e
    DEF IInv, MacInv, TrustInv, CapInv, StageInv, HeldInv, WorkInv, Paused, Same,
        Finished, Harmless, Usable, NoPass
<1>5. RecoverInv'
  BY <1>e
    DEF IInv, MacInv, RecoverInv, CapInv, StageInv, Within, Witness, AsUsual, AsUsual1,
        Loadable
<1>6. WorkInv'
  BY <1>e DEF IInv, MacInv, WorkInv, CapInv, Back1
<1>7. Seals
  BY <1>e DEF IInv, MacInv, Seals, Sealed, StageInv, CapInv, Usable
<1> QED BY <1>u, <1>1, <1>2, <1>3, <1>4, <1>5, <1>6, <1>7 DEF MacKept, MacInv

LEMMA ScannerWritesKeeps ==
  ASSUME IInv, ScannerWrites, UNCHANGED revoked
  PROVE  MacKept
<1>t. MacType
  BY DEF IInv, TypeOK
<1>u. MacType'
  <2>5. mac' \in [db : Nat, model : Nat, latest : {"ok", "open", "failed"}]
    BY <1>t DEF MacType, ScannerWrites, host
  <2> QED BY <1>t, <2>5 DEF MacType, host, ScannerWrites
<1>e. /\ UNCHANGED <<stage, cap>>
      /\ UNCHANGED <<agent, gui, scanner, pass>> /\ scanner
      /\ mac'.db = mac.db
  BY DEF Captures, StageRecords, Receipts, Agents, host, ScannerWrites
<1>1. CapInv'
  BY <1>e DEF IInv, MacInv, CapInv
<1>2. StageInv'
  BY <1>e DEF IInv, MacInv, StageInv, CapInv, Usable
<1>3. HeldInv'
  BY <1>e DEF IInv, MacInv, HeldInv, CapInv, Paused, Same
<1>4. TrustInv'
  BY <1>e
    DEF IInv, MacInv, TrustInv, CapInv, StageInv, HeldInv, WorkInv, Paused, Same,
        Finished, Harmless, Usable
<1>5. RecoverInv'
  BY <1>e
    DEF IInv, MacInv, RecoverInv, CapInv, StageInv, Within, Witness, AsUsual, AsUsual1,
        Loadable
<1>6. WorkInv'
  BY <1>e DEF IInv, MacInv, WorkInv, CapInv, Back1
<1>7. Seals
  BY <1>e DEF IInv, MacInv, Seals, Sealed, StageInv, CapInv, Usable
<1> QED BY <1>u, <1>1, <1>2, <1>3, <1>4, <1>5, <1>6, <1>7 DEF MacKept, MacInv

LEMMA UserActsKeeps ==
  ASSUME IInv, UserActs, UNCHANGED revoked
  PROVE  MacKept
<1>t. MacType
  BY DEF IInv, TypeOK
<1>u. MacType'
  <2>1. agent' \in Agents
    <3>1. On \in [loaded : BOOLEAN, disabled : BOOLEAN]
      BY DEF On
    <3>2. CASE agent' = [agent EXCEPT !["service"] = On]
      BY <1>t, <3>1, <3>2 DEF MacType, Agents
    <3>3. CASE agent' = agent
      BY <1>t, <3>3 DEF MacType
    <3> QED BY <3>2, <3>3 DEF UserActs
  <2>2. gui' \in BOOLEAN /\ scanner' \in BOOLEAN
    BY <1>t DEF MacType, UserActs
  <2> QED BY <1>t, <2>1, <2>2 DEF MacType, UserActs
<1>e. /\ UNCHANGED <<stage, cap>>
      /\ UNCHANGED <<pass, mac>> /\ ~ HandsOff
      /\ scanner => scanner'
      /\ \/ agent' = agent
         \/ agent'["ui"] = agent["ui"] /\ agent'["service"] = On
  <2>1. CASE agent' = [agent EXCEPT !["service"] = On]
    BY <1>t, <2>1 DEF UserActs, MacType, Agents, Labels
  <2>2. CASE agent' = agent
    BY <2>2 DEF UserActs
  <2> QED BY <2>1, <2>2 DEF UserActs
<1>1. CapInv'
  BY <1>e DEF IInv, MacInv, CapInv, HandsOff, On
<1>2. StageInv'
  BY <1>e DEF IInv, MacInv, StageInv, CapInv, Usable, HandsOff, On
<1>3. HeldInv'
  BY <1>e DEF IInv, MacInv, HeldInv, CapInv, Paused, Same, HandsOff, On
<1>4. TrustInv'
  BY <1>e
    DEF IInv, MacInv, TrustInv, CapInv, StageInv, HeldInv, WorkInv, Paused, Same,
        Finished, Harmless, Usable, HandsOff, On
<1>5. RecoverInv'
  BY <1>e
    DEF IInv, MacInv, RecoverInv, CapInv, StageInv, Within, Witness, AsUsual, AsUsual1,
        Loadable, Labels, HandsOff, On
<1>6. WorkInv'
  BY <1>e DEF IInv, MacInv, WorkInv, CapInv, Back1, Labels, HandsOff, On
<1>7. Seals
  BY <1>e DEF IInv, MacInv, Seals, Sealed, StageInv, CapInv, Usable, HandsOff, On
<1> QED BY <1>u, <1>1, <1>2, <1>3, <1>4, <1>5, <1>6, <1>7 DEF MacKept, MacInv

LEMMA CaptureBeginsKeeps ==
  ASSUME IInv, NEW s \in Stages, NEW keep \in BOOLEAN, CaptureBegins(s, keep), UNCHANGED revoked
  PROVE  MacKept
<1>t. MacType
  BY DEF IInv, TypeOK
<1>u. MacType'
  <2>1. NoReceipt \in Receipts
    BY DEF NoReceipt, Receipts, Agents, Absent
  <2>2. [NoStage EXCEPT !.made = TRUE, !.incomplete = TRUE] \in StageRecords
    BY <2>1 DEF NoStage, StageRecords
  <2>3. stage' \in [Stages -> StageRecords]
    BY <1>t, <2>2 DEF MacType, CaptureBegins
  <2>4. [NoCapture(s) EXCEPT !.pc = "inspect", !.keep = keep] \in Captures
    BY <2>1 DEF NoCapture, Captures, Steps
  <2>5. cap' \in Captures
    BY <2>4 DEF CaptureBegins
  <2> QED BY <1>t, <2>3, <2>5 DEF MacType, host, CaptureBegins
<1>e. /\ UNCHANGED <<agent, gui, scanner, pass, mac>>
      /\ cap.pc = "idle" /\ cap.goal = "none" /\ ~ stage[s].made
      /\ cap'.pc = "inspect" /\ cap'.stage = s /\ cap'.keep = keep /\ cap'.original = NoReceipt
      /\ cap'.changed = {} /\ cap'.left = {} /\ ~ cap'.stopped /\ cap'.goal = "none" /\ ~ cap'.bad
      /\ stage'[s].made /\ stage'[s].incomplete /\ ~ stage'[s].complete /\ ~ stage'[s].paused
      /\ stage'[s].receipt = NoReceipt /\ ~ stage'[s].resumed
      /\ \A t \in Stages : t # s => stage'[t] = stage[t]
  BY <1>t DEF MacType, StageRecords, CaptureBegins, Idle, NoCapture, NoStage, host
<1>1. CapInv'
  BY <1>e DEF IInv, MacInv, CapInv, NoReceipt, Absent
<1>2. StageInv'
  BY <1>e, <1>t DEF IInv, MacInv, StageInv, CapInv, Usable, NoReceipt, Absent, MacType
<1>3. HeldInv'
  BY <1>e
    DEF IInv, MacInv, HeldInv, CapInv, Paused, Same, Pausing, Locked, Resuming, NoReceipt,
        Absent
<1>4. TrustInv'
  BY <1>e
    DEF IInv, MacInv, TrustInv, CapInv, StageInv, HeldInv, WorkInv, Paused, Same,
        Finished, Harmless, Usable, NoReceipt, Absent
<1>5. RecoverInv'
  <2>1. \A t \in Stages : Witness(t) => t # s
    BY <1>e DEF IInv, MacInv, StageInv, Witness, NoStage, NoReceipt
  <2>2. \A t \in Stages : Witness(t) => Witness(t)'
    BY <1>e, <2>1 DEF Witness, AsUsual, AsUsual1, Loadable
  <2>3. Within(NoReceipt.agent)
    BY DEF NoReceipt, Absent, Within
  <2> QED BY <1>e, <2>2, <2>3
    DEF IInv, MacInv, RecoverInv, CapInv, StageInv, Within, Witness, AsUsual, AsUsual1,
        Loadable
<1>6. WorkInv'
  BY <1>e
    DEF IInv, MacInv, WorkInv, CapInv, Back1, Labels, Pausing, Locked, Resuming,
        NoReceipt, Absent
<1>7. Seals
  BY <1>e DEF IInv, MacInv, Seals, Sealed, StageInv, CapInv, Usable, NoReceipt, Absent
<1> QED BY <1>u, <1>1, <1>2, <1>3, <1>4, <1>5, <1>6, <1>7 DEF MacKept, MacInv

LEMMA InspectKeeps ==
  ASSUME IInv, Inspect, UNCHANGED revoked
  PROVE  MacKept
<1>t. MacType
  BY DEF IInv, TypeOK
<1>u. MacType'
  <2> DEFINE seen == [agent |-> agent, gui |-> gui, kept |-> TRUE]
  <2>1. seen \in Receipts
    BY <1>t DEF MacType, Receipts
  <2>2. CASE pass = NoPass /\ scanner
    <3> HIDE DEF seen
    <3>1. cap' = [cap EXCEPT !.pc = "disable", !.original = seen]
      BY <2>2 DEF Inspect, seen
    <3>2. cap' \in Captures
      BY <1>t, <2>1, <3>1 DEF MacType, Captures, Steps
    <3>3. stage' = [stage EXCEPT ![cap.stage].receipt = seen]
      BY <2>2 DEF Inspect, seen
    <3>4. stage' \in [Stages -> StageRecords]
      BY <1>t, <2>1, <3>3 DEF MacType, StageRecords, Captures
    <3> QED BY <1>t, <3>2, <3>4 DEF MacType, Inspect, host
  <2>3. CASE ~ (pass = NoPass /\ scanner)
    <3>1. cap' = [Failed EXCEPT !.original = seen] /\ stage' = stage
      BY <2>3 DEF Inspect
    <3> HIDE DEF seen
    <3>2. cap' \in Captures
      BY <1>t, <2>1, <3>1, FailedIs DEF Captures
    <3> QED BY <1>t, <3>1, <3>2 DEF MacType, Inspect, host
  <2> QED BY <2>2, <2>3
<1>e. /\ UNCHANGED <<agent, gui, scanner, pass, mac>> /\ cap.pc = "inspect"
      /\ cap'.original = [agent |-> agent, gui |-> gui, kept |-> TRUE]
      /\ \/ /\ scanner /\ cap'.pc = "disable" /\ cap'.stage = cap.stage /\ cap'.keep = cap.keep
            /\ cap'.changed = cap.changed /\ cap'.left = cap.left /\ cap'.stopped = cap.stopped
            /\ cap'.goal = cap.goal /\ cap'.bad = cap.bad /\ cap'.cut = cap.cut
            /\ Others /\ Marks /\ Contents
            /\ stage'[cap.stage].receipt = [agent |-> agent, gui |-> gui, kept |-> TRUE]
         \/ Fails /\ UNCHANGED stage
  <2> DEFINE seen == [agent |-> agent, gui |-> gui, kept |-> TRUE]
  <2>1. CASE pass = NoPass /\ scanner
    <3>1. cap' = [cap EXCEPT !.pc = "disable", !.original = seen]
      BY <2>1 DEF Inspect
    <3>2. stage' = [stage EXCEPT ![cap.stage].receipt = seen]
      BY <2>1 DEF Inspect
    <3> HIDE DEF seen
    <3>3. Others /\ Marks /\ Contents /\ stage'[cap.stage].receipt = seen
      BY <1>t, <3>2 DEF MacType, Captures, StageRecords, Others, Marks, Contents
    <3> QED BY <2>1, <3>1, <3>3 DEF Inspect, Captures, host, seen
  <2>2. CASE ~ (pass = NoPass /\ scanner)
    BY <1>t, <2>2, FailedIs DEF Inspect, Captures, Fails, host
  <2> QED BY <2>1, <2>2
<1>1. CapInv'
  BY <1>e DEF IInv, MacInv, CapInv, Labels, Fails, Pausing, Locked, Resuming
<1>2. StageInv'
  BY <1>e, <1>t
    DEF IInv, MacInv, StageInv, CapInv, Usable, Fails, Others, Marks, Contents, Pausing,
        Locked, Resuming, MacType
<1>3. HeldInv'
  BY <1>e DEF IInv, MacInv, HeldInv, CapInv, Paused, Same, Fails, Pausing, Locked, Resuming
<1>4. TrustInv'
  BY <1>e
    DEF IInv, MacInv, TrustInv, CapInv, StageInv, HeldInv, WorkInv, Paused, Same,
        Finished, Harmless, Usable, Fails, Others, Marks, Contents
<1>5. RecoverInv'
  <2>1. \A t \in Stages : Witness(t) => t # cap.stage
    BY <1>e DEF IInv, MacInv, StageInv, Witness
  <2>2. \A t \in Stages : Witness(t) => Witness(t)'
    BY <1>e, <2>1 DEF Witness, AsUsual, AsUsual1, Loadable, Others
  <2>3. cap'.pc = "disable" /\ AsUsual(agent) => Witness(cap.stage)'
    BY <1>e
      DEF IInv, MacInv, StageInv, Witness, AsUsual, AsUsual1, Loadable, Marks, Pausing,
          Fails
  <2>4. cap'.stage \in Stages
    BY <1>u DEF MacType, Captures
  <2>5. Within(agent)' /\ Within(cap.original.agent)' /\ \A s \in Stages : Within(stage[s].receipt.agent)'
    BY <1>e DEF IInv, MacInv, RecoverInv, Within, Others, Loadable
  <2>6. (~ AsUsual(agent))' => ~ AsUsual(agent)
    BY <1>e DEF AsUsual, AsUsual1
  <2>7. cap'.goal # "receipt" /\ cap'.pc # "record"
    BY <1>e DEF IInv, MacInv, CapInv, Fails, Pausing
  <2>8. (\E s \in Stages : Witness(s)') \/ (AsUsual(agent) /\ cap'.pc # "disable")
    BY <2>2, <2>3, <2>4 DEF IInv, MacInv, RecoverInv
  <2>9. cap'.pc \in {"disable", "invalidate", "start"}
    BY <1>e DEF Fails
  <2> QED BY <2>5, <2>6, <2>7, <2>8, <2>9 DEF RecoverInv
<1>6. WorkInv'
  BY <1>e DEF IInv, MacInv, WorkInv, CapInv, Back1, Labels, Fails, Pausing, Locked, Resuming
<1>7. Seals
  BY <1>e
    DEF IInv, MacInv, Seals, Sealed, StageInv, CapInv, Usable, Fails, Others, Marks,
        Contents, Pausing, Locked, Resuming
<1> QED BY <1>u, <1>1, <1>2, <1>3, <1>4, <1>5, <1>6, <1>7 DEF MacKept, MacInv

LEMMA DisableKeeps ==
  ASSUME IInv, Disable, UNCHANGED revoked
  PROVE  MacKept
<1>t. MacType
  BY DEF IInv, TypeOK
<1>u. MacType'
  <2> DEFINE l == Front(Labels \ cap.changed)
  <2>1. agent' \in Agents
    BY <1>t DEF MacType, Disable, Agents
  <2>2. cap' \in Captures
    <3>1. l \in Labels
      BY DEF Front, Labels
    <3>2. CASE cap' = [Failed EXCEPT !.cut = TRUE]
      <4>1. Failed \in Captures
        BY <1>t, FailedIs
      <4> QED BY <3>2, <4>1 DEF Captures
    <3>3. CASE cap' = [cap EXCEPT !.changed = @ \cup {l},
                         !.pc = IF cap.changed = {} THEN "disable" ELSE "commands"]
      <4>1. cap.changed \cup {l} \in SUBSET Labels
        BY <1>t, <3>1 DEF MacType, Captures
      <4>2. (IF cap.changed = {} THEN "disable" ELSE "commands") \in Steps
        BY DEF Steps
      <4> HIDE DEF l
      <4> QED BY <1>t, <3>3, <4>1, <4>2 DEF MacType, Captures
    <3> QED BY <3>2, <3>3 DEF Disable
  <2> QED BY <1>t, <2>1, <2>2 DEF MacType, Disable
<1>e. /\ UNCHANGED <<gui, scanner, pass, mac, stage>> /\ cap.pc = "disable"
      /\ cap'.original = cap.original
      /\ \A l \in Labels : agent'[l].loaded = agent[l].loaded
      /\ \/ Fails /\ cap'.cut
         \/ /\ cap'.stage = cap.stage /\ cap'.keep = cap.keep /\ cap'.stopped = cap.stopped
            /\ cap'.goal = cap.goal /\ cap'.bad = cap.bad /\ cap'.cut = cap.cut
            /\ \/ /\ cap.changed = {} /\ cap'.changed = {"service"} /\ cap'.pc = "disable"
                  /\ agent'["ui"] = agent["ui"]
               \/ cap.changed # {} /\ cap'.changed = Labels /\ cap'.pc = "commands"
  <2> DEFINE l == Front(Labels \ cap.changed)
  <2>0. cap.changed \in {{}, {"service"}} /\ cap.pc = "disable"
    BY DEF IInv, MacInv, WorkInv, Disable
  <2>1. l = (IF cap.changed = {} THEN "service" ELSE "ui") /\ cap.changed \cup {l} = (IF cap.changed = {} THEN {"service"} ELSE Labels)
    BY <2>0 DEF Front, Labels
  <2>2. /\ \A k \in Labels : agent'[k].loaded = agent[k].loaded
        /\ l = "service" => agent'["ui"] = agent["ui"]
    BY <2>1 DEF Disable, Agents
  <2>3. CASE cap' = [Failed EXCEPT !.cut = TRUE]
    BY <1>t, <2>0, <2>2, <2>3, FailedIs DEF Disable, Captures, Fails
  <2>4. CASE cap' = [cap EXCEPT !.changed = @ \cup {l},
                       !.pc = IF cap.changed = {} THEN "disable" ELSE "commands"]
    <3> HIDE DEF l
    <3>1. CASE cap.changed = {}
      BY <2>0, <2>1, <2>2, <2>4, <3>1 DEF Disable, Captures
    <3>2. CASE cap.changed # {}
      BY <2>0, <2>1, <2>2, <2>4, <3>2 DEF Disable, Captures
    <3> QED BY <3>1, <3>2
  <2> QED BY <2>3, <2>4 DEF Disable
<1>1. CapInv'
  BY <1>e DEF IInv, MacInv, CapInv, Labels, Fails, Pausing, Locked, Resuming
<1>2. StageInv'
  BY <1>e DEF IInv, MacInv, StageInv, CapInv, Usable, Fails, Pausing, Locked, Resuming
<1>3. HeldInv'
  BY <1>e DEF IInv, MacInv, HeldInv, CapInv, Paused, Same, Fails, Pausing, Locked, Resuming
<1>4. TrustInv'
  BY <1>e
    DEF IInv, MacInv, TrustInv, CapInv, StageInv, HeldInv, WorkInv, Paused, Same,
        Finished, Harmless, Usable
<1>5. RecoverInv'
  BY <1>e
    DEF IInv, MacInv, RecoverInv, CapInv, StageInv, Within, Witness, AsUsual, AsUsual1,
        Loadable, Labels, Fails
<1>6. WorkInv'
  BY <1>e DEF IInv, MacInv, WorkInv, CapInv, Back1, Labels, Fails, Pausing, Locked, Resuming
<1>7. Seals
  BY <1>e
    DEF IInv, MacInv, Seals, Sealed, StageInv, CapInv, Usable, Fails, Pausing, Locked,
        Resuming
<1> QED BY <1>u, <1>1, <1>2, <1>3, <1>4, <1>5, <1>6, <1>7 DEF MacKept, MacInv

LEMMA CloseGuiKeeps ==
  ASSUME IInv, CloseGui, UNCHANGED revoked
  PROVE  MacKept
<1>t. MacType
  BY DEF IInv, TypeOK
<1>u. MacType'
  <2>1. cap' \in Captures
    <3>1. CASE pass = NoPass
      <4> DEFINE L == {l \in Labels : cap.original.agent[l].loaded}
      <4>1. L \in SUBSET Labels
        OBVIOUS
      <4>2. cap' = [cap EXCEPT !.pc = "bootout", !.left = L]
        BY <3>1 DEF CloseGui
      <4> HIDE DEF L
      <4> QED BY <1>t, <4>1, <4>2 DEF MacType, Captures, Steps
    <3>2. CASE pass # NoPass
      BY <1>t, <3>2, FailsThen DEF CloseGui, Fail
    <3> QED BY <3>1, <3>2
  <2> QED BY <1>t, <2>1 DEF MacType, CloseGui
<1>e. /\ UNCHANGED <<agent, scanner, pass, mac, stage>> /\ cap.pc = "commands"
      /\ cap'.original = cap.original
      /\ gui' \in {gui, FALSE}
      /\ \/ Fails /\ gui' = gui
         \/ /\ cap'.pc = "bootout" /\ cap'.stage = cap.stage /\ cap'.keep = cap.keep
            /\ cap'.changed = cap.changed /\ cap'.stopped = cap.stopped
            /\ cap'.goal = cap.goal /\ cap'.bad = cap.bad /\ cap'.cut = cap.cut
  <2>1. CASE pass = NoPass
    BY <1>t, <2>1 DEF MacType, CloseGui, Captures
  <2>2. CASE pass # NoPass
    BY <1>t, <2>2, FailsThen DEF CloseGui, Fail, MacType
  <2> QED BY <2>1, <2>2
<1>1. CapInv'
  BY <1>e DEF IInv, MacInv, CapInv, Labels, Fails, Pausing, Locked, Resuming
<1>2. StageInv'
  BY <1>e DEF IInv, MacInv, StageInv, CapInv, Usable, Fails, Pausing, Locked, Resuming
<1>3. HeldInv'
  BY <1>e DEF IInv, MacInv, HeldInv, CapInv, Paused, Same, Fails, Pausing, Locked, Resuming
<1>4. TrustInv'
  BY <1>e
    DEF IInv, MacInv, TrustInv, CapInv, StageInv, HeldInv, WorkInv, Paused, Same,
        Finished, Harmless, Usable
<1>5. RecoverInv'
  BY <1>e
    DEF IInv, MacInv, RecoverInv, CapInv, StageInv, Within, Witness, AsUsual, AsUsual1,
        Loadable, Labels, Fails
<1>6. WorkInv'
  BY <1>e DEF IInv, MacInv, WorkInv, CapInv, Back1, Labels, Fails, Pausing, Locked, Resuming
<1>7. Seals
  BY <1>e
    DEF IInv, MacInv, Seals, Sealed, StageInv, CapInv, Usable, Fails, Pausing, Locked,
        Resuming
<1> QED BY <1>u, <1>1, <1>2, <1>3, <1>4, <1>5, <1>6, <1>7 DEF MacKept, MacInv

LEMMA BootoutKeeps ==
  ASSUME IInv, Bootout, UNCHANGED revoked
  PROVE  MacKept
<1>t. MacType
  BY DEF IInv, TypeOK
<1>u. MacType'
  <2> DEFINE l == Front(cap.left)
  <2>1. l \in Labels
    BY DEF Front, Labels
  <2>2. agent' \in Agents
    <3>1. CASE agent[l].loaded
      <4>1. agent' = [agent EXCEPT ![l].loaded = FALSE]
        BY <3>1 DEF Bootout
      <4> HIDE DEF l
      <4> QED BY <1>t, <2>1, <4>1 DEF MacType, Agents
    <3>2. CASE ~ agent[l].loaded
      BY <1>t, <3>2 DEF MacType, Bootout
    <3> QED BY <3>1, <3>2
  <2>3. pass' \in [step : {"none", "starting", "running", "learned"}, by : {"user", "agent"}]
    BY <1>t DEF MacType, Bootout, NoPass
  <2>4. cap' \in Captures
    <3>1. CASE Fail
      BY <1>t, <3>1, FailsThen DEF Fail
    <3>2. CASE cap' = [cap EXCEPT !.left = @ \ {l}]
      <4> HIDE DEF l
      <4> QED BY <1>t, <3>2 DEF MacType, Captures
    <3> QED BY <3>1, <3>2 DEF Bootout
  <2>5. gui' \in BOOLEAN
    BY <1>t DEF MacType, Bootout
  <2> QED BY <1>t, <2>2, <2>3, <2>4, <2>5 DEF MacType, Bootout
<1>e. /\ UNCHANGED <<scanner, mac, stage>> /\ cap.pc = "bootout"
      /\ cap'.original = cap.original
      /\ pass' \in {pass, NoPass}
      /\ \A l \in Labels : agent'[l].disabled = agent[l].disabled /\ (agent'[l].loaded => agent[l].loaded)
      /\ Fails \/ /\ cap'.pc = "bootout" /\ cap'.stage = cap.stage /\ cap'.keep = cap.keep
                  /\ cap'.changed = cap.changed /\ cap'.stopped = cap.stopped
                  /\ cap'.goal = cap.goal /\ cap'.bad = cap.bad /\ cap'.cut = cap.cut
  <2> DEFINE l == Front(cap.left)
  <2>1. l \in Labels
    BY DEF Front, Labels
  <2>2. \A k \in Labels : agent'[k].disabled = agent[k].disabled /\ (agent'[k].loaded => agent[k].loaded)
    <3>1. CASE agent[l].loaded
      <4>1. agent' = [agent EXCEPT ![l].loaded = FALSE]
        BY <3>1 DEF Bootout
      <4> HIDE DEF l
      <4> QED BY <2>1, <4>1 DEF Agents
    <3>2. CASE ~ agent[l].loaded
      BY <3>2 DEF Bootout
    <3> QED BY <3>1, <3>2
  <2>3. /\ UNCHANGED <<scanner, mac, stage>> /\ cap.pc = "bootout"
        /\ pass' \in {pass, NoPass}
    BY DEF Bootout
  <2>4. Fail \/ cap' = [cap EXCEPT !.left = @ \ {l}]
    BY DEF Bootout
  <2> HIDE DEF l
  <2>5. Fail => Fails /\ cap'.original = cap.original
    BY <1>t, FailsThen DEF Fail
  <2>6. cap' = [cap EXCEPT !.left = @ \ {l}] =>
          /\ cap'.pc = cap.pc /\ cap'.stage = cap.stage /\ cap'.keep = cap.keep
          /\ cap'.changed = cap.changed /\ cap'.stopped = cap.stopped
          /\ cap'.goal = cap.goal /\ cap'.bad = cap.bad /\ cap'.cut = cap.cut
          /\ cap'.original = cap.original
    BY DEF Captures
  <2>7. \/ Fails /\ cap'.original = cap.original
        \/ /\ cap'.pc = "bootout" /\ cap'.stage = cap.stage /\ cap'.keep = cap.keep
           /\ cap'.changed = cap.changed /\ cap'.stopped = cap.stopped
           /\ cap'.goal = cap.goal /\ cap'.bad = cap.bad /\ cap'.cut = cap.cut
           /\ cap'.original = cap.original
    BY <2>3, <2>4, <2>5, <2>6
  <2> QED BY <2>2, <2>3, <2>7
<1>1. CapInv'
  BY <1>e DEF IInv, MacInv, CapInv, Labels, Fails, Pausing, Locked, Resuming, NoPass
<1>2. StageInv'
  BY <1>e
    DEF IInv, MacInv, StageInv, CapInv, Usable, Fails, Pausing, Locked, Resuming, NoPass
<1>3. HeldInv'
  BY <1>e DEF IInv, MacInv, HeldInv, CapInv, Paused, Same, Fails, NoPass
<1>4. TrustInv'
  BY <1>e
    DEF IInv, MacInv, TrustInv, CapInv, StageInv, HeldInv, WorkInv, Paused, Same,
        Finished, Harmless, Usable
<1>5. RecoverInv'
  BY <1>e
    DEF IInv, MacInv, RecoverInv, CapInv, StageInv, Within, Witness, AsUsual, AsUsual1,
        Loadable, Labels, Fails, NoPass
<1>6. WorkInv'
  BY <1>e
    DEF IInv, MacInv, WorkInv, CapInv, Back1, Labels, Fails, Pausing, Locked, Resuming,
        NoPass
<1>7. Seals
  BY <1>e
    DEF IInv, MacInv, Seals, Sealed, StageInv, CapInv, Usable, Fails, Pausing, Locked,
        Resuming, NoPass
<1> QED BY <1>u, <1>1, <1>2, <1>3, <1>4, <1>5, <1>6, <1>7 DEF MacKept, MacInv

LEMMA CheckClosedKeeps ==
  ASSUME IInv, CheckClosed, UNCHANGED revoked
  PROVE  MacKept
<1>t. MacType
  BY DEF IInv, TypeOK
<1>u. MacType'
  <2>1. cap' \in Captures
    BY <1>t, Goes, FailsThen DEF CheckClosed, Check, Fail, Steps
  <2> QED BY <1>t, <2>1 DEF MacType, host, CheckClosed
<1>e. /\ UNCHANGED <<agent, gui, scanner, pass, mac, stage>> /\ cap'.original = cap.original
      /\ cap.pc = "bootout" /\ (Moves("stack") \/ Fails)
  <2>1. CASE (~ Process)
    BY <1>t, <2>1, Goes DEF CheckClosed, Check, host, Steps, Moves
  <2>2. CASE ~ (~ Process)
    BY <1>t, <2>2, FailsThen DEF CheckClosed, Check, Fail, host
  <2> QED BY <2>1, <2>2
<1>1. CapInv'
  BY <1>e DEF IInv, MacInv, CapInv, Labels, Moves, Fails, Pausing, Locked, Resuming
<1>2. StageInv'
  BY <1>e
    DEF IInv, MacInv, StageInv, CapInv, Usable, Moves, Fails, Pausing, Locked, Resuming
<1>3. HeldInv'
  BY <1>e
    DEF IInv, MacInv, HeldInv, CapInv, Paused, Same, Moves, Fails, Pausing, Locked,
        Resuming
<1>4. TrustInv'
  BY <1>e
    DEF IInv, MacInv, TrustInv, CapInv, StageInv, HeldInv, WorkInv, Paused, Same,
        Finished, Harmless, Usable
<1>5. RecoverInv'
  BY <1>e
    DEF IInv, MacInv, RecoverInv, CapInv, StageInv, Within, Witness, AsUsual, AsUsual1,
        Loadable, Labels, Moves, Fails
<1>6. WorkInv'
  BY <1>e
    DEF IInv, MacInv, WorkInv, CapInv, Back1, Labels, Moves, Fails, Pausing, Locked,
        Resuming
<1>7. Seals
  BY <1>e
    DEF IInv, MacInv, Seals, Sealed, StageInv, CapInv, Usable, Moves, Fails, Pausing,
        Locked, Resuming
<1> QED BY <1>u, <1>1, <1>2, <1>3, <1>4, <1>5, <1>6, <1>7 DEF MacKept, MacInv

LEMMA StopScannerKeeps ==
  ASSUME IInv, StopScanner, UNCHANGED revoked
  PROVE  MacKept
<1>t. MacType
  BY DEF IInv, TypeOK
<1>u. MacType'
  <2>1. cap' \in Captures
    <3>1. CASE Fail
      BY <1>t, <3>1, FailsThen DEF Fail
    <3>2. CASE Goto("quiet")
      BY <1>t, <3>2, Goes DEF Steps
    <3>3. CASE cap' = [cap EXCEPT !.pc = "stop", !.stopped = TRUE]
      BY <1>t, <3>3 DEF MacType, Captures, Steps
    <3> QED BY <3>1, <3>2, <3>3 DEF StopScanner
  <2> QED BY <1>t, <2>1 DEF MacType, StopScanner
<1>e. /\ UNCHANGED <<agent, gui, pass, mac, stage>> /\ cap'.original = cap.original
      /\ \/ /\ cap.pc = "stack" /\ scanner' = scanner
            /\ \/ Fails
               \/ /\ cap'.pc = "stop" /\ cap'.stopped /\ cap'.stage = cap.stage /\ cap'.keep = cap.keep
                  /\ cap'.changed = cap.changed /\ cap'.left = cap.left
                  /\ cap'.goal = cap.goal /\ cap'.bad = cap.bad /\ cap'.cut = cap.cut
         \/ /\ cap.pc = "stop" /\ ~ scanner' /\ (Moves("quiet") \/ Fails)
  <2>1. CASE Fail
    <3>1. Fails /\ cap'.original = cap.original
      BY <1>t, <2>1 DEF MacType, Captures, Fail, Failed, Fails
    <3> QED BY <2>1, <3>1 DEF StopScanner
  <2>2. CASE Goto("quiet") /\ cap.pc = "stop" /\ scanner' = FALSE
    <3>1. Moves("quiet")
      BY <1>t, <2>2 DEF MacType, Captures, Goto, Moves
    <3> QED BY <2>2, <3>1 DEF StopScanner, Moves
  <2>3. CASE cap' = [cap EXCEPT !.pc = "stop", !.stopped = TRUE] /\ cap.pc = "stack" /\ scanner' = scanner
    BY <1>t, <2>3 DEF MacType, Captures, StopScanner
  <2> QED BY <2>1, <2>2, <2>3 DEF StopScanner
<1>1. CapInv'
  BY <1>e DEF IInv, MacInv, CapInv, Labels, Moves, Fails, Pausing, Locked, Resuming
<1>2. StageInv'
  BY <1>e
    DEF IInv, MacInv, StageInv, CapInv, Usable, Moves, Fails, Pausing, Locked, Resuming
<1>3. HeldInv'
  BY <1>e
    DEF IInv, MacInv, HeldInv, CapInv, Paused, Same, Moves, Fails, Pausing, Locked,
        Resuming
<1>4. TrustInv'
  BY <1>e
    DEF IInv, MacInv, TrustInv, CapInv, StageInv, HeldInv, WorkInv, Paused, Same,
        Finished, Harmless, Usable
<1>5. RecoverInv'
  BY <1>e
    DEF IInv, MacInv, RecoverInv, CapInv, StageInv, Within, Witness, AsUsual, AsUsual1,
        Loadable, Labels, Moves, Fails
<1>6. WorkInv'
  BY <1>e
    DEF IInv, MacInv, WorkInv, CapInv, Back1, Labels, Moves, Fails, Pausing, Locked,
        Resuming
<1>7. Seals
  BY <1>e
    DEF IInv, MacInv, Seals, Sealed, StageInv, CapInv, Usable, Moves, Fails, Pausing,
        Locked, Resuming
<1> QED BY <1>u, <1>1, <1>2, <1>3, <1>4, <1>5, <1>6, <1>7 DEF MacKept, MacInv

LEMMA TakeLockKeeps ==
  ASSUME IInv, TakeLock, UNCHANGED revoked
  PROVE  MacKept
<1>t. MacType
  BY DEF IInv, TypeOK
<1>u. MacType'
  <2>1. cap' \in Captures
    BY <1>t, Goes, FailsThen DEF TakeLock, Check, Fail, Steps
  <2> QED BY <1>t, <2>1 DEF MacType, host, TakeLock
<1>e. /\ UNCHANGED <<agent, gui, scanner, pass, mac, stage>> /\ cap'.original = cap.original
      /\ \/ cap.pc = "quiet" /\ (Moves("lock") \/ Fails)
         \/ cap.pc = "lock" /\ (Fails \/ (Quiet /\ Moves("snapshot")))
  <2>1. CASE cap.pc = "quiet" /\ Check(Quiet, "lock")
    <3>1. CASE Quiet
      BY <1>t, <2>1, <3>1, Goes DEF TakeLock, Check, host, Steps, Moves
    <3>2. CASE ~ Quiet
      BY <1>t, <2>1, <3>2, FailsThen DEF TakeLock, Check, Fail, host
    <3> QED BY <3>1, <3>2
  <2>2. CASE cap.pc = "lock" /\ Check(pass.step \notin {"running", "learned"} /\ Quiet, "snapshot")
    <3>1. CASE pass.step \notin {"running", "learned"} /\ Quiet
      BY <1>t, <2>2, <3>1, Goes DEF TakeLock, Check, host, Steps, Moves
    <3>2. CASE ~ (pass.step \notin {"running", "learned"} /\ Quiet)
      BY <1>t, <2>2, <3>2, FailsThen DEF TakeLock, Check, Fail, host
    <3> QED BY <3>1, <3>2
  <2> QED BY <2>1, <2>2 DEF TakeLock
<1>1. CapInv'
  BY <1>e
    DEF IInv, MacInv, CapInv, Labels, Moves, Fails, Pausing, Locked, Resuming, Quiet,
        Process
<1>2. StageInv'
  BY <1>e
    DEF IInv, MacInv, StageInv, CapInv, Usable, Moves, Fails, Pausing, Locked, Resuming,
        Quiet, Process
<1>3. HeldInv'
  BY <1>e
    DEF IInv, MacInv, HeldInv, CapInv, Paused, Same, Moves, Fails, Pausing, Locked,
        Resuming, Quiet, Process
<1>4. TrustInv'
  BY <1>e
    DEF IInv, MacInv, TrustInv, CapInv, StageInv, HeldInv, WorkInv, Paused, Same,
        Finished, Harmless, Usable, Quiet, Process
<1>5. RecoverInv'
  BY <1>e
    DEF IInv, MacInv, RecoverInv, CapInv, StageInv, Within, Witness, AsUsual, AsUsual1,
        Loadable, Labels, Moves, Fails, Quiet, Process
<1>6. WorkInv'
  BY <1>e
    DEF IInv, MacInv, WorkInv, CapInv, Back1, Labels, Moves, Fails, Pausing, Locked,
        Resuming, Quiet, Process
<1>7. Seals
  BY <1>e
    DEF IInv, MacInv, Seals, Sealed, StageInv, CapInv, Usable, Moves, Fails, Pausing,
        Locked, Resuming, Quiet, Process
<1> QED BY <1>u, <1>1, <1>2, <1>3, <1>4, <1>5, <1>6, <1>7 DEF MacKept, MacInv

\* A step that leaves the agents, the receipts and their use alone, on to where nothing is changed.
LEMMA ReceiptsStand ==
  ASSUME RecoverInv, agent' = agent, cap'.original = cap.original,
         \A s \in Stages : /\ stage'[s].receipt = stage[s].receipt
                           /\ stage'[s].resumed = stage[s].resumed,
         cap.pc \notin {"disable", "commands", "bootout"},
         cap'.pc \notin {"disable", "commands", "bootout", "agents", "record"},
         cap'.goal = "receipt" => cap.goal = "receipt" /\ cap.pc # "ended" /\ cap'.stage = cap.stage,
         cap.stage \in Stages
  PROVE  RecoverInv'
<1>1. Within(agent)' /\ Within(cap.original.agent)' /\ \A s \in Stages : Within(stage[s].receipt.agent)'
  BY DEF RecoverInv, Within
<1>2. ASSUME ~ AsUsual(agent)' PROVE \E s \in Stages : Witness(s)'
  <2>1. PICK s \in Stages : Witness(s)
    BY <1>2 DEF RecoverInv, AsUsual, AsUsual1
  <2>2. Witness(s)'
    BY <2>1 DEF Witness, AsUsual, AsUsual1
  <2> QED BY <2>2
<1>3. cap'.goal = "receipt" => cap'.original = stage'[cap'.stage].receipt
  BY DEF RecoverInv
<1> QED BY <1>1, <1>2, <1>3 DEF RecoverInv

LEMMA SnapshotDatabaseKeeps ==
  ASSUME IInv, SnapshotDatabase, UNCHANGED revoked
  PROVE  MacKept
<1>t. MacType
  BY DEF IInv, TypeOK
<1>u. MacType'
  <2>1. cap' \in Captures
    BY <1>t, Goes, FailsThen DEF SnapshotDatabase, Check, Fail, Steps
  <2>2. stage' \in [Stages -> StageRecords]
    <3>1. CASE mac.latest = "ok"
      BY <1>t, <3>1 DEF SnapshotDatabase, MacType, StageRecords, Captures
    <3>2. CASE mac.latest # "ok"
      BY <1>t, <3>2 DEF SnapshotDatabase, MacType
    <3> QED BY <3>1, <3>2
  <2> QED BY <1>t, <2>1, <2>2 DEF MacType, host, SnapshotDatabase
<1>e. /\ UNCHANGED <<agent, gui, scanner, pass, mac>> /\ cap'.original = cap.original
      /\ cap.pc = "snapshot" /\ Others /\ Marks /\ stage'[cap.stage].receipt = stage[cap.stage].receipt
      /\ \/ Moves("export") /\ stage'[cap.stage].db = mac.db
         \/ Fails /\ stage' = stage
  <2>1. CASE mac.latest = "ok"
    BY <1>t, <2>1, Goes
      DEF SnapshotDatabase, MacType, StageRecords, Captures, Check, Steps, host, Moves,
          Others, Marks
  <2>2. CASE mac.latest # "ok"
    BY <1>t, <2>2, FailsThen DEF SnapshotDatabase, MacType, Check, Fail, host, Others, Marks
  <2> QED BY <2>1, <2>2
<1>1. CapInv'
  BY <1>e DEF IInv, MacInv, CapInv, Labels, Moves, Fails, Pausing, Locked, Resuming
<1>2. StageInv'
  BY <1>e, <1>t
    DEF IInv, MacInv, StageInv, CapInv, Usable, Moves, Fails, Others, Marks, Contents,
        Pausing, Locked, Resuming, MacType
<1>3. HeldInv'
  BY <1>e
    DEF IInv, MacInv, HeldInv, CapInv, Paused, Same, Moves, Fails, Pausing, Locked,
        Resuming
<1>4. TrustInv'
  BY <1>e
    DEF IInv, MacInv, TrustInv, CapInv, StageInv, HeldInv, WorkInv, Paused, Same,
        Finished, Harmless, Usable, Moves, Fails, Others, Marks, Contents
<1>5. RecoverInv'
  <2>1. /\ \A s \in Stages : /\ stage'[s].receipt = stage[s].receipt
                            /\ stage'[s].resumed = stage[s].resumed
        /\ cap.stage \in Stages
    BY <1>e, <1>t DEF IInv, MacInv, CapInv, MacType, Captures, Others, Marks
  <2>2. RecoverInv
    BY DEF IInv, MacInv
  <2> QED BY <1>e, <2>1, <2>2, ReceiptsStand DEF Moves, Fails
<1>6. WorkInv'
  BY <1>e
    DEF IInv, MacInv, WorkInv, CapInv, Back1, Labels, Moves, Fails, Pausing, Locked,
        Resuming
<1>7. Seals
  BY <1>e
    DEF IInv, MacInv, Seals, Sealed, StageInv, CapInv, Usable, Moves, Fails, Others,
        Marks, Contents
<1> QED BY <1>u, <1>1, <1>2, <1>3, <1>4, <1>5, <1>6, <1>7 DEF MacKept, MacInv

LEMMA ExportModelKeeps ==
  ASSUME IInv, ExportModel, UNCHANGED revoked
  PROVE  MacKept
<1>t. MacType
  BY DEF IInv, TypeOK
<1>u. MacType'
  <2>1. cap' \in Captures
    BY <1>t, Goes DEF ExportModel, Steps
  <2>2. stage' \in [Stages -> StageRecords]
    BY <1>t DEF ExportModel, MacType, StageRecords, Captures
  <2> QED BY <1>t, <2>1, <2>2 DEF MacType, host, ExportModel
<1>e. /\ UNCHANGED <<agent, gui, scanner, pass, mac>>
      /\ cap.pc = "export" /\ Moves("recheck")
      /\ Others /\ Marks /\ stage'[cap.stage].receipt = stage[cap.stage].receipt
      /\ stage'[cap.stage].db = stage[cap.stage].db /\ stage'[cap.stage].model = mac.model
  BY <1>t
    DEF MacType, Captures, StageRecords, Receipts, Agents, Moves, Fails, Others, Marks,
        Contents, host, ExportModel, Goto
<1>1. CapInv'
  BY <1>e DEF IInv, MacInv, CapInv, Labels, Moves
<1>2. StageInv'
  BY <1>e, <1>t
    DEF IInv, MacInv, StageInv, CapInv, Usable, Moves, Others, Marks, Contents, Pausing,
        Locked, Resuming, MacType
<1>3. HeldInv'
  BY <1>e DEF IInv, MacInv, HeldInv, CapInv, Paused, Same, Moves, Pausing, Locked, Resuming
<1>4. TrustInv'
  BY <1>e
    DEF IInv, MacInv, TrustInv, CapInv, StageInv, HeldInv, WorkInv, Paused, Same,
        Finished, Harmless, Usable, Moves, Others, Marks, Contents
<1>5. RecoverInv'
  <2>1. /\ \A s \in Stages : /\ stage'[s].receipt = stage[s].receipt
                            /\ stage'[s].resumed = stage[s].resumed
        /\ cap.stage \in Stages
    BY <1>e, <1>t DEF IInv, MacInv, CapInv, MacType, Captures, Others, Marks
  <2>2. RecoverInv
    BY DEF IInv, MacInv
  <2> QED BY <1>e, <2>1, <2>2, ReceiptsStand DEF Moves, Fails
<1>6. WorkInv'
  BY <1>e DEF IInv, MacInv, WorkInv, CapInv, Back1, Labels, Moves, Pausing, Locked, Resuming
<1>7. Seals
  BY <1>e
    DEF IInv, MacInv, Seals, Sealed, StageInv, CapInv, Usable, Moves, Others, Marks,
        Contents
<1> QED BY <1>u, <1>1, <1>2, <1>3, <1>4, <1>5, <1>6, <1>7 DEF MacKept, MacInv

LEMMA RecheckKeeps ==
  ASSUME IInv, Recheck, UNCHANGED revoked
  PROVE  MacKept
<1>t. MacType
  BY DEF IInv, TypeOK
<1>u. MacType'
  <2>7. cap' \in Captures
    BY <1>t DEF MacType, Captures, Steps, Recheck, Failed, host
  <2> QED BY <1>t, <2>7 DEF MacType, host, Recheck, Failed
<1>e. /\ UNCHANGED <<agent, gui, scanner, pass, mac, stage>> /\ cap'.original = cap.original
      /\ cap.pc = "recheck"
      /\ \/ Fails
         \/ cap.keep /\ Moves("assert")
         \/ /\ ~ cap.keep /\ cap'.pc = "start" /\ cap'.left = cap.changed /\ cap'.goal = "rehearsed"
            /\ cap'.stage = cap.stage /\ cap'.keep = cap.keep /\ cap'.changed = cap.changed
            /\ cap'.stopped = cap.stopped /\ cap'.bad = cap.bad /\ cap'.cut = cap.cut
  BY DEF Captures, StageRecords, Receipts, Agents, Moves, Fails, host, Recheck, Failed
<1>1. CapInv'
  BY <1>e DEF IInv, MacInv, CapInv, Labels, Moves, Fails, Pausing, Locked, Resuming
<1>2. StageInv'
  BY <1>e
    DEF IInv, MacInv, StageInv, CapInv, Usable, Moves, Fails, Pausing, Locked, Resuming
<1>3. HeldInv'
  BY <1>e
    DEF IInv, MacInv, HeldInv, CapInv, Paused, Same, Moves, Fails, Pausing, Locked,
        Resuming
<1>4. TrustInv'
  BY <1>e
    DEF IInv, MacInv, TrustInv, CapInv, StageInv, HeldInv, WorkInv, Paused, Same,
        Finished, Harmless, Usable
<1>5. RecoverInv'
  BY <1>e
    DEF IInv, MacInv, RecoverInv, CapInv, StageInv, Within, Witness, AsUsual, AsUsual1,
        Loadable, Labels, Moves, Fails
<1>6. WorkInv'
  BY <1>e
    DEF IInv, MacInv, WorkInv, CapInv, Back1, Labels, Moves, Fails, Pausing, Locked,
        Resuming
<1>7. Seals
  BY <1>e DEF IInv, MacInv, Seals, Sealed, StageInv, CapInv, Usable, Moves, Fails
<1> QED BY <1>u, <1>1, <1>2, <1>3, <1>4, <1>5, <1>6, <1>7 DEF MacKept, MacInv

LEMMA AssertPausedKeeps ==
  ASSUME IInv, AssertPaused, UNCHANGED revoked
  PROVE  MacKept
<1>t. MacType
  BY DEF IInv, TypeOK
<1>u. MacType'
  <2>1. cap' \in Captures
    BY <1>t, Goes, FailsThen DEF AssertPaused, Check, Fail, Steps
  <2> QED BY <1>t, <2>1 DEF MacType, host, AssertPaused
<1>e. /\ UNCHANGED <<agent, gui, scanner, pass, mac, stage>> /\ cap'.original = cap.original
      /\ cap.pc = "assert"
      /\ \/ Fails
         \/ /\ Quiet /\ (\A l \in Labels : agent[l].disabled /\ ~ agent[l].loaded)
            /\ Moves("complete")
  <2>1. CASE (Quiet /\ \A l \in Labels : agent[l].disabled /\ ~ agent[l].loaded)
    BY <1>t, <2>1, Goes DEF AssertPaused, Check, host, Steps, Moves
  <2>2. CASE ~ (Quiet /\ \A l \in Labels : agent[l].disabled /\ ~ agent[l].loaded)
    BY <1>t, <2>2, FailsThen DEF AssertPaused, Check, Fail, host
  <2> QED BY <2>1, <2>2
<1>1. CapInv'
  BY <1>e
    DEF IInv, MacInv, CapInv, Labels, Moves, Fails, Pausing, Locked, Resuming, Quiet,
        Process
<1>2. StageInv'
  BY <1>e
    DEF IInv, MacInv, StageInv, CapInv, Usable, Moves, Fails, Pausing, Locked, Resuming,
        Quiet, Process
<1>3. HeldInv'
  BY <1>e DEF IInv, MacInv, HeldInv, CapInv, Paused, Same, Moves, Fails, Quiet, Process
<1>4. TrustInv'
  BY <1>e
    DEF IInv, MacInv, TrustInv, CapInv, StageInv, HeldInv, WorkInv, Paused, Same,
        Finished, Harmless, Usable, Quiet, Process
<1>5. RecoverInv'
  BY <1>e
    DEF IInv, MacInv, RecoverInv, CapInv, StageInv, Within, Witness, AsUsual, AsUsual1,
        Loadable, Labels, Moves, Fails, Quiet, Process
<1>6. WorkInv'
  BY <1>e
    DEF IInv, MacInv, WorkInv, CapInv, Back1, Labels, Moves, Fails, Pausing, Locked,
        Resuming, Quiet, Process
<1>7. Seals
  BY <1>e
    DEF IInv, MacInv, Seals, Sealed, StageInv, CapInv, Usable, Moves, Fails, Quiet,
        Process
<1> QED BY <1>u, <1>1, <1>2, <1>3, <1>4, <1>5, <1>6, <1>7 DEF MacKept, MacInv

LEMMA PublishWrites ==
  ASSUME MacType, stage' = [stage EXCEPT ![cap.stage].paused = cap.keep, ![cap.stage].complete = TRUE]
  PROVE  /\ stage' \in [Stages -> StageRecords]
         /\ Others /\ Contents /\ stage'[cap.stage].receipt = stage[cap.stage].receipt
         /\ stage'[cap.stage].made = stage[cap.stage].made
         /\ stage'[cap.stage].resumed = stage[cap.stage].resumed
         /\ stage'[cap.stage].incomplete = stage[cap.stage].incomplete
         /\ stage'[cap.stage].paused = cap.keep /\ stage'[cap.stage].complete
<1> DEFINE s == cap.stage
           one == [stage EXCEPT ![s].paused = cap.keep]
<1>1. s \in Stages /\ stage[s] \in StageRecords /\ cap.keep \in BOOLEAN
  BY DEF MacType, Captures
<1>2. /\ one \in [Stages -> StageRecords] /\ \A t \in Stages : t # s => one[t] = stage[t]
      /\ one[s] = [stage[s] EXCEPT !.paused = cap.keep]
  BY <1>1 DEF MacType, StageRecords
<1>3. stage' = [one EXCEPT ![s].complete = TRUE]
  OBVIOUS
<1> HIDE DEF one, s
<1> DEFINE new == [one[s] EXCEPT !.complete = TRUE]
<1>4. new \in StageRecords
  BY <1>1, <1>2 DEF StageRecords
<1>7. stage' = [one EXCEPT ![s] = new]
  BY <1>3
<1> HIDE DEF new
<1>8. stage' \in [Stages -> StageRecords]
  BY <1>1, <1>2, <1>4, <1>7
<1> USE DEF new
<1>5. \A t \in Stages : t # s => stage'[t] = one[t]
  BY <1>1, <1>2, <1>3
<1>6. stage'[s] = [one[s] EXCEPT !.complete = TRUE]
  BY <1>1, <1>2, <1>3
<1> QED BY <1>1, <1>2, <1>8, <1>5, <1>6 DEF StageRecords, Others, Contents, s

LEMMA InvalidateWrites ==
  ASSUME MacType, stage' = [stage EXCEPT ![cap.stage].incomplete = TRUE, ![cap.stage].complete = FALSE]
  PROVE  /\ stage' \in [Stages -> StageRecords]
         /\ Others /\ Contents /\ stage'[cap.stage].receipt = stage[cap.stage].receipt
         /\ stage'[cap.stage].made = stage[cap.stage].made
         /\ stage'[cap.stage].resumed = stage[cap.stage].resumed
         /\ stage'[cap.stage].paused = stage[cap.stage].paused
         /\ stage'[cap.stage].incomplete /\ ~ stage'[cap.stage].complete
<1> DEFINE s == cap.stage
           one == [stage EXCEPT ![s].incomplete = TRUE]
<1>1. s \in Stages /\ stage[s] \in StageRecords
  BY DEF MacType, Captures
<1>2. /\ one \in [Stages -> StageRecords] /\ \A t \in Stages : t # s => one[t] = stage[t]
      /\ one[s] = [stage[s] EXCEPT !.incomplete = TRUE]
  BY <1>1 DEF MacType, StageRecords
<1>3. stage' = [one EXCEPT ![s].complete = FALSE]
  OBVIOUS
<1> HIDE DEF one, s
<1> DEFINE new == [one[s] EXCEPT !.complete = FALSE]
<1>4. new \in StageRecords
  BY <1>1, <1>2 DEF StageRecords
<1>7. stage' = [one EXCEPT ![s] = new]
  BY <1>3
<1> HIDE DEF new
<1>8. stage' \in [Stages -> StageRecords]
  BY <1>1, <1>2, <1>4, <1>7
<1> USE DEF new
<1>5. \A t \in Stages : t # s => stage'[t] = one[t]
  BY <1>1, <1>2, <1>3
<1>6. stage'[s] = [one[s] EXCEPT !.complete = FALSE]
  BY <1>1, <1>2, <1>3
<1> QED BY <1>1, <1>2, <1>8, <1>5, <1>6 DEF StageRecords, Others, Contents, s

LEMMA PublishKeeps ==
  ASSUME IInv, Publish, UNCHANGED revoked
  PROVE  MacKept
<1>t. MacType
  BY DEF IInv, TypeOK
<1>u. MacType'
  <2>1. CASE cap.pc \in {"complete", "publish"}
    <3>1. stage' \in [Stages -> StageRecords]
      BY <1>t, <2>1, PublishWrites DEF Publish
    <3>2. cap' \in Captures
      BY <1>t, <2>1, Goes DEF Publish, Steps
    <3> QED BY <1>t, <3>1, <3>2 DEF MacType, Publish, host
  <2>2. CASE cap.pc = "unmark"
    <3>0. stage' = [stage EXCEPT ![cap.stage].incomplete = FALSE]
      BY <2>2 DEF Publish
    <3>a. cap.stage \in Stages /\ stage \in [Stages -> StageRecords]
      BY <1>t DEF MacType, Captures
    <3> DEFINE new == [stage[cap.stage] EXCEPT !.incomplete = FALSE]
    <3>b. new \in StageRecords
      BY <3>a DEF StageRecords
    <3>c. stage' = [stage EXCEPT ![cap.stage] = new]
      BY <3>0
    <3> HIDE DEF new
    <3>1. stage' \in [Stages -> StageRecords]
      BY <3>a, <3>b, <3>c
    <3>2. cap' \in Captures
      BY <1>t, <2>2, Goes DEF Publish, Steps
    <3>3. UNCHANGED <<agent, gui, scanner, pass, mac, revoked>>
      BY DEF Publish, host
    <3> QED BY <1>t, <3>1, <3>2, <3>3 DEF MacType
  <2>3. CASE cap.pc = "sync"
    <3> DEFINE goal == IF cap.keep THEN "paused" ELSE cap.goal
    <3>1. cap' = [cap EXCEPT !.pc = "ended", !.goal = goal] /\ stage' = stage
      BY <2>3 DEF Publish
    <3>2. goal \in {"none", "failed", "rehearsed", "receipt", "paused"}
      BY <1>t DEF MacType, Captures
    <3>3. UNCHANGED <<host, pass, mac, revoked>>
      BY DEF Publish
    <3> HIDE DEF goal
    <3>4. cap' \in Captures
      BY <1>t, <3>1, <3>2 DEF MacType, Captures, Steps
    <3> QED BY <1>t, <3>1, <3>3, <3>4 DEF MacType, host
  <2> QED BY <2>1, <2>2, <2>3 DEF Publish
<1>e. /\ UNCHANGED <<agent, gui, scanner, pass, mac>> /\ cap'.original = cap.original
      /\ Others /\ Contents /\ stage'[cap.stage].receipt = stage[cap.stage].receipt
      /\ stage'[cap.stage].made = stage[cap.stage].made
      /\ stage'[cap.stage].resumed = stage[cap.stage].resumed
      /\ \/ /\ cap.pc \in {"complete", "publish"} /\ Moves("unmark")
            /\ stage'[cap.stage].paused = cap.keep /\ stage'[cap.stage].complete
            /\ stage'[cap.stage].incomplete = stage[cap.stage].incomplete
         \/ /\ cap.pc = "unmark" /\ Moves("sync") /\ ~ stage'[cap.stage].incomplete
            /\ stage'[cap.stage].paused = stage[cap.stage].paused
            /\ stage'[cap.stage].complete = stage[cap.stage].complete
         \/ /\ cap.pc = "sync" /\ stage' = stage /\ cap'.pc = "ended"
            /\ cap'.goal = (IF cap.keep THEN "paused" ELSE cap.goal)
            /\ cap'.stage = cap.stage /\ cap'.keep = cap.keep /\ cap'.changed = cap.changed
            /\ cap'.left = cap.left /\ cap'.stopped = cap.stopped /\ cap'.bad = cap.bad
            /\ cap'.cut = cap.cut
  <2>0. UNCHANGED <<agent, gui, scanner, pass, mac>>
    BY DEF Publish, host
  <2>1. CASE cap.pc \in {"complete", "publish"}
    <3>1. Moves("unmark")
      BY <1>t, <2>1, Goes DEF Publish, Steps
    <3> QED BY <1>t, <2>0, <2>1, <3>1, PublishWrites DEF Publish, Moves
  <2>2. CASE cap.pc = "unmark"
    <3>1. Moves("sync")
      BY <1>t, <2>2, Goes DEF Publish, Steps
    <3> QED BY <1>t, <2>0, <2>2, <3>1
      DEF MacType, Publish, StageRecords, Captures, Others, Contents, Moves
  <2>3. CASE cap.pc = "sync"
    <3>1. cap' = [cap EXCEPT !.pc = "ended", !.goal = IF cap.keep THEN "paused" ELSE @] /\ stage' = stage
      BY <2>3 DEF Publish
    <3> QED BY <2>0, <2>3, <3>1 DEF Captures, Others, Contents
  <2> QED BY <2>1, <2>2, <2>3 DEF Publish
<1>1. CapInv'
  BY <1>e DEF IInv, MacInv, CapInv, Labels, Moves, Pausing, Locked, Resuming
<1>2. StageInv'
  <2>1. \A s \in Stages : stage'[s].made = stage[s].made /\ (s # cap.stage => stage'[s] = stage[s])
    BY <1>e DEF Others
  <2>2. stage[cap.stage].made
    BY <1>e DEF IInv, MacInv, StageInv
  <2>6. cap.stage \in Stages /\ revoked \subseteq Stages /\ cap'.stage = cap.stage /\ cap'.keep = cap.keep
    BY <1>e, <1>t DEF MacType, Captures, Moves
  <2>7. \A s \in Stages : ~ stage'[s].made => stage'[s] = NoStage
    BY <2>1, <2>2 DEF IInv, MacInv, StageInv
  <2>8. \A s \in revoked' : stage'[s].made
    BY <2>1, <2>6 DEF IInv, MacInv, StageInv
  <2>3. CASE cap.pc \in {"complete", "publish"}
    <3>1. cap'.pc = "unmark" /\ cap'.goal = cap.goal /\ cap.goal # "receipt"
          /\ stage'[cap.stage].paused = cap.keep
          /\ stage'[cap.stage].incomplete = stage[cap.stage].incomplete
      BY <1>e, <2>3 DEF Moves, IInv, MacInv, CapInv
    <3>2. stage[cap.stage].incomplete
      BY <2>3 DEF IInv, MacInv, CapInv, StageInv
    <3>3. cap.keep \/ cap'.goal # "none"
      BY <2>3, <3>1 DEF IInv, MacInv, CapInv
    <3> QED BY <2>1, <2>2, <2>6, <2>7, <2>8, <3>1, <3>2, <3>3 DEF StageInv, Pausing
  <2>4. CASE cap.pc = "unmark"
    <3>1. cap'.pc = "sync" /\ cap'.goal = cap.goal /\ cap.goal # "receipt"
          /\ stage'[cap.stage].paused = stage[cap.stage].paused
      BY <1>e, <2>4 DEF Moves, IInv, MacInv, CapInv
    <3>2. stage'[cap.stage].paused => cap.keep
      BY <2>4, <3>1 DEF IInv, MacInv, StageInv
    <3> QED BY <2>1, <2>2, <2>6, <2>7, <2>8, <3>1, <3>2 DEF StageInv, Pausing
  <2>5. CASE cap.pc = "sync"
    <3>1. cap'.pc = "ended" /\ cap'.goal = (IF cap.keep THEN "paused" ELSE cap.goal)
          /\ stage' = stage
      BY <1>e, <2>5
    <3>2. cap.goal = IF cap.keep THEN "none" ELSE "rehearsed"
      BY <2>5 DEF IInv, MacInv, CapInv
    <3>3. stage[cap.stage].paused => cap.keep
      BY <2>5, <3>2 DEF IInv, MacInv, StageInv
    <3> QED BY <2>2, <2>6, <2>7, <2>8, <3>1, <3>2, <3>3 DEF StageInv, Pausing
  <2> QED BY <1>e, <2>3, <2>4, <2>5
<1>3. HeldInv'
  BY <1>e
    DEF IInv, MacInv, HeldInv, CapInv, Paused, Same, Moves, Others, Marks, Contents,
        Pausing, Locked, Resuming
<1>4. TrustInv'
  BY <1>e
    DEF IInv, MacInv, TrustInv, CapInv, StageInv, HeldInv, WorkInv, Paused, Same,
        Finished, Harmless, Usable, Moves, Others, Marks, Contents
<1>5. RecoverInv'
  <2>1. \A s \in Stages : stage'[s].receipt = stage[s].receipt /\ stage'[s].resumed = stage[s].resumed
    BY <1>e DEF Others
  <2>2. \A s \in Stages : Witness(s)' = Witness(s)
    BY <2>1 DEF Witness, AsUsual, AsUsual1, Loadable
  <2>3. Within(agent)' /\ Within(cap.original.agent)' /\ \A s \in Stages : Within(stage[s].receipt.agent)'
    BY <1>e, <2>1 DEF IInv, MacInv, RecoverInv, Within, Loadable
  <2>4. (~ AsUsual(agent))' => ~ AsUsual(agent)
    BY <1>e DEF AsUsual, AsUsual1, Loadable
  <2>5. cap'.goal # "receipt" /\ cap'.pc \in {"unmark", "sync", "ended"}
    BY <1>e DEF IInv, MacInv, CapInv, Moves
  <2> QED BY <2>2, <2>3, <2>4, <2>5 DEF IInv, MacInv, RecoverInv
<1>6. WorkInv'
  <2>3. CASE cap.pc \in {"complete", "publish"}
    BY <1>e, <2>3
      DEF IInv, MacInv, WorkInv, CapInv, Back1, Labels, Moves, Pausing, Locked, Resuming
  <2>4. CASE cap.pc = "unmark"
    BY <1>e, <2>4
      DEF IInv, MacInv, WorkInv, CapInv, Back1, Labels, Moves, Pausing, Locked, Resuming
  <2>5. CASE cap.pc = "sync"
    BY <1>e, <2>5
      DEF IInv, MacInv, WorkInv, CapInv, Back1, Labels, Moves, Pausing, Locked, Resuming
  <2> QED BY <1>e, <2>3, <2>4, <2>5
<1>7. Seals
  BY <1>e
    DEF IInv, MacInv, Seals, Sealed, StageInv, CapInv, Usable, Moves, Others, Marks,
        Contents
<1> QED BY <1>u, <1>1, <1>2, <1>3, <1>4, <1>5, <1>6, <1>7 DEF MacKept, MacInv

LEMMA InvalidateKeeps ==
  ASSUME IInv, Invalidate, UNCHANGED revoked
  PROVE  MacKept
<1>t. MacType
  BY DEF IInv, TypeOK
<1>u. MacType'
  <2>1. cap' \in Captures
    BY <1>t, Goes DEF Invalidate, Steps
  <2>2. stage' \in [Stages -> StageRecords]
    <3>1. CASE stage' = [stage EXCEPT ![cap.stage].incomplete = TRUE, ![cap.stage].complete = FALSE]
      BY <1>t, <3>1, InvalidateWrites
    <3>2. CASE stage' = stage
      BY <1>t, <3>2 DEF MacType
    <3> QED BY <3>1, <3>2 DEF Invalidate
  <2> QED BY <1>t, <2>1, <2>2 DEF MacType, host, Invalidate
<1>e. /\ UNCHANGED <<agent, gui, scanner, pass, mac>> /\ cap.pc = "invalidate" /\ Moves("start")
      /\ Others /\ Contents /\ stage'[cap.stage].receipt = stage[cap.stage].receipt
      /\ stage'[cap.stage].made = stage[cap.stage].made
      /\ stage'[cap.stage].paused = stage[cap.stage].paused
      /\ stage'[cap.stage].resumed = stage[cap.stage].resumed
      /\ \/ stage'[cap.stage].incomplete /\ ~ stage'[cap.stage].complete
         \/ ~ Careful /\ stage' = stage
  <2>1. UNCHANGED <<agent, gui, scanner, pass, mac>> /\ cap.pc = "invalidate" /\ Moves("start")
    BY <1>t, Goes DEF Invalidate, host, Steps
  <2>2. CASE stage' = [stage EXCEPT ![cap.stage].incomplete = TRUE, ![cap.stage].complete = FALSE]
    BY <1>t, <2>1, <2>2, InvalidateWrites
  <2>3. CASE ~ Careful /\ stage' = stage
    BY <2>1, <2>3 DEF Others, Contents
  <2> QED BY <2>2, <2>3 DEF Invalidate
<1>1. CapInv'
  BY <1>e DEF IInv, MacInv, CapInv, Labels, Moves, Pausing, Locked, Resuming
<1>2. StageInv'
  BY <1>e, <1>t
    DEF IInv, MacInv, StageInv, CapInv, Usable, Moves, Others, Marks, Contents, Pausing,
        Locked, Resuming, MacType
<1>3. HeldInv'
  BY <1>e DEF IInv, MacInv, HeldInv, CapInv, Paused, Same, Moves
<1>4. TrustInv'
  BY <1>e
    DEF IInv, MacInv, TrustInv, CapInv, StageInv, HeldInv, WorkInv, Paused, Same,
        Finished, Harmless, Usable, Moves, Others, Marks, Contents
<1>5. RecoverInv'
  BY <1>e, <1>t
    DEF IInv, MacInv, RecoverInv, CapInv, StageInv, Within, Witness, AsUsual, AsUsual1,
        Loadable, Labels, Moves, Others, Marks, Contents, MacType
<1>6. WorkInv'
  BY <1>e DEF IInv, MacInv, WorkInv, CapInv, Back1, Labels, Moves, Pausing, Locked, Resuming
<1>7. Seals
  BY <1>e
    DEF IInv, MacInv, Seals, Sealed, StageInv, CapInv, Usable, Moves, Others, Marks,
        Contents
<1> QED BY <1>u, <1>1, <1>2, <1>3, <1>4, <1>5, <1>6, <1>7 DEF MacKept, MacInv

LEMMA StepFailsKeeps ==
  ASSUME IInv, StepFails, UNCHANGED revoked
  PROVE  MacKept
<1>t. MacType
  BY DEF IInv, TypeOK
<1>u. MacType'
  <2>1. cap' \in Captures
    <3>1. CASE cap.goal = "rehearsed"
      <4>1. cap' = [cap EXCEPT !.pc = "ended", !.goal = "failed"]
        BY <3>1 DEF StepFails
      <4> QED BY <1>t, <4>1 DEF MacType, Captures, Steps
    <3>2. CASE cap.goal # "rehearsed"
      BY <1>t, <3>2, FailsThen DEF StepFails, Fail
    <3> QED BY <3>1, <3>2
  <2> QED BY <1>t, <2>1 DEF MacType, host, StepFails
<1>e. /\ UNCHANGED <<agent, gui, scanner, pass, mac, stage>> /\ cap'.original = cap.original
      /\ cap.pc \in Pausing \cup Locked \cup {"publish"}
      /\ \/ cap.goal # "rehearsed" /\ Fails /\ cap'.cut = cap.cut
         \/ /\ cap.goal = "rehearsed" /\ cap'.pc = "ended" /\ cap'.goal = "failed"
            /\ cap'.stage = cap.stage /\ cap'.keep = cap.keep /\ cap'.changed = cap.changed
            /\ cap'.left = cap.left /\ cap'.stopped = cap.stopped /\ cap'.bad = cap.bad
            /\ cap'.cut = cap.cut
  <2>1. CASE cap.goal = "rehearsed"
    BY <1>t, <2>1 DEF MacType, StepFails, Captures, host
  <2>2. CASE cap.goal # "rehearsed"
    <3>1. Fails /\ cap'.original = cap.original /\ cap'.cut = cap.cut
      BY <1>t, <2>2, FailsThen DEF StepFails, Fail
    <3> QED BY <2>2, <3>1 DEF StepFails, host
  <2> QED BY <2>1, <2>2
<1>1. CapInv'
  BY <1>e DEF IInv, MacInv, CapInv, Labels, Fails, Pausing, Locked, Resuming
<1>2. StageInv'
  BY <1>e DEF IInv, MacInv, StageInv, CapInv, Usable, Fails, Pausing, Locked, Resuming
<1>3. HeldInv'
  BY <1>e DEF IInv, MacInv, HeldInv, CapInv, Paused, Same, Fails
<1>4. TrustInv'
  BY <1>e
    DEF IInv, MacInv, TrustInv, CapInv, StageInv, HeldInv, WorkInv, Paused, Same,
        Finished, Harmless, Usable, Fails, Pausing, Locked, Resuming
<1>5. RecoverInv'
  BY <1>e
    DEF IInv, MacInv, RecoverInv, CapInv, StageInv, Within, Witness, AsUsual, AsUsual1,
        Loadable, Labels, Fails
<1>6. WorkInv'
  <2>1. CASE cap.goal = "rehearsed"
    BY <1>e, <2>1
      DEF IInv, MacInv, WorkInv, CapInv, Back1, Labels, Moves, Pausing, Locked, Resuming
  <2>2. CASE cap.goal # "rehearsed"
    <3>1. Fails /\ cap.pc # "publish"
      BY <1>e, <2>2 DEF IInv, MacInv, CapInv
    <3>2. CASE cap.pc \in {"inspect", "disable"}
      BY <1>e, <3>1, <3>2
        DEF IInv, MacInv, WorkInv, CapInv, Back1, Labels, Moves, Pausing, Locked,
            Resuming, Fails
    <3>3. CASE cap.pc \notin {"inspect", "disable"}
      <4>1. cap.changed = Labels
        BY <1>e, <3>1, <3>3 DEF IInv, MacInv, WorkInv
      <4> QED BY <1>e, <3>1, <4>1
        DEF IInv, MacInv, WorkInv, CapInv, Back1, Labels, Moves, Fails
    <3> QED BY <3>2, <3>3
  <2> QED BY <2>1, <2>2
<1>7. Seals
  BY <1>e
    DEF IInv, MacInv, Seals, Sealed, StageInv, CapInv, Usable, Fails, Pausing, Locked,
        Resuming
<1> QED BY <1>u, <1>1, <1>2, <1>3, <1>4, <1>5, <1>6, <1>7 DEF MacKept, MacInv

LEMMA ResumeScannerKeeps ==
  ASSUME IInv, ResumeScanner, UNCHANGED revoked
  PROVE  MacKept
<1>t. MacType
  BY DEF IInv, TypeOK
<1>u. MacType'
  <2>1. cap' \in Captures
    <3>1. CASE Goto("agents")
      BY <1>t, <3>1, Goes DEF Steps
    <3>2. CASE cap' = [cap EXCEPT !.pc = "ended", !.bad = TRUE]
      BY <1>t, <3>2 DEF MacType, Captures, Steps
    <3> QED BY <3>1, <3>2 DEF ResumeScanner
  <2>2. scanner' \in BOOLEAN
    BY <1>t DEF MacType, ResumeScanner, Captures
  <2> QED BY <1>t, <2>1, <2>2 DEF MacType, host, ResumeScanner
<1>e. /\ UNCHANGED <<agent, gui, pass, mac, stage>> /\ cap.pc = "start"
      /\ \/ scanner' = (scanner \/ cap.stopped) /\ Moves("agents")
         \/ /\ cap.stopped /\ scanner' = scanner /\ cap'.pc = "ended" /\ cap'.bad
            /\ cap'.stage = cap.stage /\ cap'.keep = cap.keep /\ cap'.changed = cap.changed
            /\ cap'.left = cap.left /\ cap'.stopped = cap.stopped /\ cap'.goal = cap.goal
            /\ cap'.original = cap.original
  <2>1. CASE Goto("agents") /\ scanner' = (scanner \/ cap.stopped)
    <3>1. Moves("agents")
      BY <1>t, <2>1 DEF MacType, Captures, Goto, Moves
    <3> QED BY <2>1, <3>1 DEF ResumeScanner, Moves
  <2>2. CASE cap' = [cap EXCEPT !.pc = "ended", !.bad = TRUE] /\ cap.stopped /\ scanner' = scanner
    BY <1>t, <2>2 DEF MacType, Captures, ResumeScanner
  <2> QED BY <2>1, <2>2 DEF ResumeScanner
<1>1. CapInv'
  BY <1>e DEF IInv, MacInv, CapInv, Labels, Moves, Pausing, Locked, Resuming
<1>2. StageInv'
  BY <1>e DEF IInv, MacInv, StageInv, CapInv, Usable, Moves, Pausing, Locked, Resuming
<1>3. HeldInv'
  BY <1>e DEF IInv, MacInv, HeldInv, CapInv, Paused, Same, Moves
<1>4. TrustInv'
  BY <1>e, <1>t
    DEF IInv, MacInv, TrustInv, CapInv, StageInv, HeldInv, WorkInv, Paused, Same,
        Finished, Harmless, Usable, Moves, MacType
<1>5. RecoverInv'
  BY <1>e
    DEF IInv, MacInv, RecoverInv, CapInv, StageInv, Within, Witness, AsUsual, AsUsual1,
        Loadable, Labels, WorkInv, Moves
<1>6. WorkInv'
  BY <1>e DEF IInv, MacInv, WorkInv, CapInv, Back1, Labels, Moves, Pausing, Locked, Resuming
<1>7. Seals
  BY <1>e DEF IInv, MacInv, Seals, Sealed, StageInv, CapInv, Usable, Moves
<1> QED BY <1>u, <1>1, <1>2, <1>3, <1>4, <1>5, <1>6, <1>7 DEF MacKept, MacInv

LEMMA ResumeAgentKeeps ==
  ASSUME IInv, ResumeAgent, UNCHANGED revoked
  PROVE  MacKept
<1>t. MacType
  BY DEF IInv, TypeOK
<1>u. MacType'
  <2> DEFINE l == Back(cap.left)
             now == [loaded |-> agent[l].loaded \/ cap.original.agent[l].loaded,
                     disabled |-> agent[l].disabled /\ cap.original.agent[l].disabled]
  <2>1. l \in Labels
    BY DEF Back, Labels
  <2>2. now \in [loaded : BOOLEAN, disabled : BOOLEAN]
    BY <2>1 DEF Agents, Captures, Receipts
  <2>3. agent' = [agent EXCEPT ![l] = now] \/ agent' = [agent EXCEPT ![l].disabled = now.disabled]
    BY DEF ResumeAgent
  <2>4. agent' \in Agents
    <3> HIDE DEF l, now
    <3> QED BY <1>t, <2>1, <2>2, <2>3 DEF MacType, Agents
  <2>5. gui' \in BOOLEAN
    BY <1>t DEF MacType, ResumeAgent
  <2>6. \/ cap' = [cap EXCEPT !.left = @ \ {l}]
        \/ cap' = [cap EXCEPT !.left = @ \ {l}, !.bad = TRUE]
    BY DEF ResumeAgent
  <2>7. cap' \in Captures
    <3>1. cap.left \ {l} \in SUBSET Labels
      BY <1>t DEF MacType, Captures
    <3> HIDE DEF l
    <3>2. CASE cap' = [cap EXCEPT !.left = @ \ {l}]
      BY <1>t, <3>1, <3>2 DEF MacType, Captures
    <3>3. CASE cap' = [cap EXCEPT !.left = @ \ {l}, !.bad = TRUE]
      BY <1>t, <3>1, <3>3 DEF MacType, Captures
    <3> QED BY <2>6, <3>2, <3>3
  <2> QED BY <1>t, <2>4, <2>5, <2>7 DEF MacType, ResumeAgent
<1>e. /\ UNCHANGED <<scanner, pass, mac, stage>> /\ cap.pc = "agents" /\ cap'.pc = "agents"
      /\ cap'.stage = cap.stage /\ cap'.keep = cap.keep /\ cap'.changed = cap.changed
      /\ cap'.original = cap.original /\ cap'.stopped = cap.stopped /\ cap'.goal = cap.goal
      /\ cap'.cut = cap.cut
      /\ \E l \in cap.left :
           /\ cap'.left = cap.left \ {l}
           /\ \A k \in Labels \ {l} : agent'[k] = agent[k]
           /\ agent'[l].disabled = (agent[l].disabled /\ cap.original.agent[l].disabled)
           /\ \/ agent'[l].loaded = (agent[l].loaded \/ cap.original.agent[l].loaded) /\ cap'.bad = cap.bad
              \/ agent'[l].loaded = agent[l].loaded /\ cap'.bad
  <2> DEFINE l == Back(cap.left)
             now == [loaded |-> agent[l].loaded \/ cap.original.agent[l].loaded,
                     disabled |-> agent[l].disabled /\ cap.original.agent[l].disabled]
  <2>1. l \in cap.left /\ l \in Labels /\ cap.pc = "agents"
    BY <1>t DEF Back, Labels, ResumeAgent, MacType, Captures
  <2>2. UNCHANGED <<scanner, pass, mac, stage>>
    BY DEF ResumeAgent
  <2>3. \/ agent' = [agent EXCEPT ![l] = now] /\ cap' = [cap EXCEPT !.left = @ \ {l}]
        \/ agent' = [agent EXCEPT ![l].disabled = now.disabled]
           /\ cap' = [cap EXCEPT !.left = @ \ {l}, !.bad = TRUE]
    BY DEF ResumeAgent
  <2>4. now.disabled = (agent[l].disabled /\ cap.original.agent[l].disabled)
        /\ now.loaded = (agent[l].loaded \/ cap.original.agent[l].loaded)
    OBVIOUS
  <2> HIDE DEF l, now
  <2>5. \A k \in Labels \ {l} : agent'[k] = agent[k]
    BY <1>t, <2>1, <2>3 DEF MacType, Agents
  <2>6. CASE agent' = [agent EXCEPT ![l] = now] /\ cap' = [cap EXCEPT !.left = @ \ {l}]
    <3>1. agent'[l] = now
      BY <1>t, <2>1, <2>6 DEF MacType, Agents
    <3> QED BY <2>1, <2>2, <2>4, <2>5, <2>6, <3>1 DEF Captures
  <2>7. CASE agent' = [agent EXCEPT ![l].disabled = now.disabled]
             /\ cap' = [cap EXCEPT !.left = @ \ {l}, !.bad = TRUE]
    <3>1. agent'[l].disabled = now.disabled /\ agent'[l].loaded = agent[l].loaded
      BY <1>t, <2>1, <2>7 DEF MacType, Agents
    <3>2. /\ cap'.pc = cap.pc /\ cap'.stage = cap.stage /\ cap'.keep = cap.keep
          /\ cap'.changed = cap.changed /\ cap'.original = cap.original
          /\ cap'.stopped = cap.stopped /\ cap'.goal = cap.goal /\ cap'.cut = cap.cut
          /\ cap'.left = cap.left \ {l} /\ cap'.bad
      BY <2>7 DEF Captures
    <3> QED BY <2>1, <2>2, <2>4, <2>5, <3>1, <3>2
  <2> QED BY <2>3, <2>6, <2>7
<1>1. CapInv'
  BY <1>e DEF IInv, MacInv, CapInv
<1>2. StageInv'
  BY <1>e DEF IInv, MacInv, StageInv, CapInv, Usable
<1>3. HeldInv'
  BY <1>e DEF IInv, MacInv, HeldInv, CapInv, Paused, Same
<1>4. TrustInv'
  BY <1>e
    DEF IInv, MacInv, TrustInv, CapInv, StageInv, HeldInv, WorkInv, Paused, Same,
        Finished, Harmless, Usable
<1>5. RecoverInv'
  <2>1. \A s \in Stages : Witness(s)' = Witness(s)
    BY <1>e DEF Witness, AsUsual, AsUsual1, Loadable
  <2>2. \A l \in Labels : Within(cap.original.agent) /\ agent'[l].loaded => agent[l].loaded \/ Loadable(l)
    BY <1>e DEF Within
  <2>3. Within(agent)' /\ Within(cap.original.agent)' /\ \A s \in Stages : Within(stage[s].receipt.agent)'
    BY <1>e, <2>2 DEF IInv, MacInv, RecoverInv, Within, Loadable
  <2>4. \A l \in Labels : AsUsual1(agent, l) /\ Within(cap.original.agent) => AsUsual1(agent, l)'
    BY <1>e DEF AsUsual1, Within, Loadable, Agents
  <2>5. (~ AsUsual(agent))' => ~ AsUsual(agent)
    BY <2>4 DEF AsUsual, IInv, MacInv, RecoverInv
  <2>6. AsUsual(cap.original.agent)' => \A l \in cap.left \ cap'.left : cap'.bad \/ AsUsual1(agent, l)'
    BY <1>e, <1>t
      DEF AsUsual, AsUsual1, Loadable, IInv, MacInv, RecoverInv, Within, MacType, Captures
  <2>7. cap'.goal = "receipt" /\ AsUsual(cap.original.agent)' =>
          \A l \in Labels \ cap'.left : cap'.bad \/ AsUsual1(agent, l)'
    BY <1>e, <2>4, <2>6 DEF AsUsual, AsUsual1, Loadable, IInv, MacInv, RecoverInv
  <2> QED BY <1>e, <2>1, <2>3, <2>5, <2>7 DEF IInv, MacInv, RecoverInv
<1>6. WorkInv'
  BY <1>e DEF IInv, MacInv, WorkInv, CapInv, Back1
<1>7. Seals
  BY <1>e DEF IInv, MacInv, Seals, Sealed, StageInv, CapInv, Usable
<1> QED BY <1>u, <1>1, <1>2, <1>3, <1>4, <1>5, <1>6, <1>7 DEF MacKept, MacInv

LEMMA ResumeGuiKeeps ==
  ASSUME IInv, ResumeGui, UNCHANGED revoked
  PROVE  MacKept
<1>t. MacType
  BY DEF IInv, TypeOK
<1>u. MacType'
  <2>2. gui' \in BOOLEAN
    BY DEF Agents, ResumeGui, Goto, host
  <2>7. cap' \in Captures
    BY <1>t DEF MacType, Captures, Steps, ResumeGui, Goto, host
  <2> QED BY <1>t, <2>2, <2>7 DEF MacType, host, ResumeGui, Goto
<1>e. /\ UNCHANGED <<agent, scanner, pass, mac, stage>> /\ cap.pc = "agents" /\ cap.left = {}
      /\ gui' = (gui \/ (cap.original.gui /\ ~ cap.original.agent["ui"].loaded))
      /\ Moves(IF cap.bad THEN "ended" ELSE IF cap.goal = "rehearsed" THEN "publish"
                ELSE IF cap.goal = "receipt" THEN "record" ELSE "ended")
  BY DEF Captures, StageRecords, Receipts, Agents, Moves, Fails, host, ResumeGui, Goto
<1>1. CapInv'
  BY <1>e DEF IInv, MacInv, CapInv, Labels, Moves, Pausing, Locked, Resuming
<1>2. StageInv'
  BY <1>e DEF IInv, MacInv, StageInv, CapInv, Usable, Moves, Pausing, Locked, Resuming
<1>3. HeldInv'
  BY <1>e DEF IInv, MacInv, HeldInv, CapInv, Paused, Same, Moves
<1>4. TrustInv'
  BY <1>e
    DEF IInv, MacInv, TrustInv, CapInv, StageInv, WorkInv, Paused, Same, Finished,
        Harmless, Usable, Moves, Labels
<1>5. RecoverInv'
  BY <1>e
    DEF IInv, MacInv, RecoverInv, CapInv, StageInv, Within, Witness, AsUsual, AsUsual1,
        Loadable, Labels, Moves
<1>6. WorkInv'
  <2>1. cap.changed # {} /\ ~ cap.bad => scanner /\ \A l \in Labels : Back1(l)
    BY <1>e DEF IInv, MacInv, WorkInv
  <2>2. cap'.pc = "publish" => cap.changed # {} /\ ~ cap.bad
    BY <1>e DEF IInv, MacInv, WorkInv, Moves, Labels
  <2>3. cap'.pc \in {"ended", "publish", "record"} /\ cap'.original = cap.original
        /\ cap'.changed = cap.changed /\ cap'.bad = cap.bad /\ cap'.goal = cap.goal /\ cap'.stopped = cap.stopped
        /\ cap'.cut = cap.cut
    BY <1>e DEF Moves
  <2>4. \A l \in Labels : Back1(l)' = Back1(l)
    BY <1>e, <2>3 DEF Back1
  <2>5. cap.goal = "rehearsed" => cap.changed = Labels
    BY DEF IInv, MacInv, WorkInv
  <2>6. cap.changed # {} => scanner \/ cap.stopped
    BY DEF IInv, MacInv, WorkInv
  <2> QED BY <1>e, <2>1, <2>2, <2>3, <2>4, <2>5, <2>6 DEF WorkInv, Pausing, Locked
<1>7. Seals
  BY <1>e DEF IInv, MacInv, Seals, Sealed, StageInv, CapInv, Usable, Moves
<1> QED BY <1>u, <1>1, <1>2, <1>3, <1>4, <1>5, <1>6, <1>7 DEF MacKept, MacInv

LEMMA ResumeRecordedKeeps ==
  ASSUME IInv, ResumeRecorded, UNCHANGED revoked
  PROVE  MacKept
<1>t. MacType
  BY DEF IInv, TypeOK
<1>u. MacType'
  <2>1. cap' \in Captures
    BY <1>t, Goes DEF ResumeRecorded, Steps
  <2>2. stage' \in [Stages -> StageRecords]
    <3>a. cap.stage \in Stages /\ stage \in [Stages -> StageRecords]
      BY <1>t DEF MacType, Captures
    <3> DEFINE new == [stage[cap.stage] EXCEPT !.resumed = TRUE]
    <3>b. new \in StageRecords
      BY <3>a DEF StageRecords
    <3>c. stage' = [stage EXCEPT ![cap.stage] = new]
      BY DEF ResumeRecorded
    <3> HIDE DEF new
    <3> QED BY <3>a, <3>b, <3>c
  <2>3. UNCHANGED <<host, pass, mac, revoked>>
    BY DEF ResumeRecorded
  <2>4. UNCHANGED <<agent, gui, scanner, pass, mac, revoked>>
    BY <2>3 DEF host
  <2> QED BY <1>t, <2>1, <2>2, <2>4 DEF MacType
<1>e. /\ UNCHANGED <<agent, gui, scanner, pass, mac>> /\ cap.pc = "record" /\ Moves("ended")
      /\ Others /\ Contents /\ stage'[cap.stage].receipt = stage[cap.stage].receipt
      /\ stage'[cap.stage].made = stage[cap.stage].made
      /\ stage'[cap.stage].resumed
  BY <1>t
    DEF MacType, Captures, StageRecords, Receipts, Agents, Moves, Fails, Others, Marks,
        Contents, host, ResumeRecorded, Goto
<1>1. CapInv'
  BY <1>e DEF IInv, MacInv, CapInv, Labels, Moves, Pausing, Locked, Resuming
<1>2. StageInv'
  BY <1>e, <1>t
    DEF IInv, MacInv, StageInv, CapInv, Usable, Moves, Others, Marks, Contents, Pausing,
        Locked, Resuming, MacType
<1>3. HeldInv'
  BY <1>e DEF IInv, MacInv, HeldInv, CapInv, Paused, Same, Moves
<1>4. TrustInv'
  BY <1>e
    DEF IInv, MacInv, TrustInv, CapInv, StageInv, HeldInv, WorkInv, Paused, Same,
        Finished, Harmless, Usable, Moves, Others, Marks, Contents
<1>5. RecoverInv'
  BY <1>e
    DEF IInv, MacInv, RecoverInv, CapInv, StageInv, Within, Witness, AsUsual, AsUsual1,
        Loadable, Labels, Moves, Others, Marks, Contents
<1>6. WorkInv'
  BY <1>e DEF IInv, MacInv, WorkInv, CapInv, Back1, Labels, Moves
<1>7. Seals
  BY <1>e
    DEF IInv, MacInv, Seals, Sealed, StageInv, CapInv, Usable, Moves, Others, Marks,
        Contents
<1> QED BY <1>u, <1>1, <1>2, <1>3, <1>4, <1>5, <1>6, <1>7 DEF MacKept, MacInv

LEMMA ReportedKeeps ==
  ASSUME IInv, Reported, UNCHANGED revoked
  PROVE  MacKept
<1>t. MacType
  BY DEF IInv, TypeOK
<1>u. MacType'
  <2>1. NoReceipt \in Receipts
    BY DEF NoReceipt, Receipts, Agents, Absent
  <2>2. cap.stage \in Stages
    BY <1>t DEF MacType, Captures
  <2>3. cap' \in Captures
    BY <2>1, <2>2 DEF Reported, NoCapture, Captures, Steps
  <2> QED BY <1>t, <2>3 DEF MacType, host, Reported
<1>e. /\ UNCHANGED <<agent, gui, scanner, pass, mac, stage>> /\ cap.pc = "ended"
      /\ cap' = NoCapture(cap.stage)
  BY DEF Captures, StageRecords, Receipts, Agents, host, Reported, NoCapture, NoReceipt,
         Absent
<1>1. CapInv'
  BY <1>e DEF IInv, MacInv, CapInv, NoCapture, NoReceipt, Absent
<1>2. StageInv'
  BY <1>e
    DEF IInv, MacInv, StageInv, CapInv, Usable, Pausing, Locked, Resuming, NoCapture,
        NoReceipt, Absent
<1>3. HeldInv'
  BY <1>e
    DEF IInv, MacInv, HeldInv, CapInv, Paused, Same, Pausing, Locked, Resuming, NoCapture,
        NoReceipt, Absent
<1>4. TrustInv'
  BY <1>e
    DEF IInv, MacInv, TrustInv, CapInv, StageInv, HeldInv, WorkInv, Paused, Same,
        Finished, Harmless, Usable, NoCapture, NoReceipt, Absent
<1>5. RecoverInv'
  BY <1>e
    DEF IInv, MacInv, RecoverInv, CapInv, StageInv, Within, Witness, AsUsual, AsUsual1,
        Loadable, NoCapture, NoReceipt, Absent
<1>6. WorkInv'
  BY <1>e
    DEF IInv, MacInv, WorkInv, CapInv, Back1, Labels, Pausing, Locked, Resuming,
        NoCapture, NoReceipt, Absent
<1>7. Seals
  BY <1>e
    DEF IInv, MacInv, Seals, Sealed, StageInv, CapInv, Usable, NoCapture, NoReceipt,
        Absent
<1> QED BY <1>u, <1>1, <1>2, <1>3, <1>4, <1>5, <1>6, <1>7 DEF MacKept, MacInv

LEMMA KilledKeeps ==
  ASSUME IInv, Killed, UNCHANGED revoked
  PROVE  MacKept
<1>t. MacType
  BY DEF IInv, TypeOK
<1>u. MacType'
  <2>1. NoReceipt \in Receipts
    BY DEF NoReceipt, Receipts, Agents, Absent
  <2>2. cap.stage \in Stages
    BY <1>t DEF MacType, Captures
  <2>3. cap' \in Captures
    BY <2>1, <2>2 DEF Killed, NoCapture, Captures, Steps
  <2> QED BY <1>t, <2>3 DEF MacType, host, Killed
<1>e. /\ UNCHANGED <<agent, gui, scanner, pass, mac, stage>>
      /\ cap' = NoCapture(cap.stage)
  BY DEF Captures, StageRecords, Receipts, Agents, host, Killed, NoCapture, NoReceipt,
         Absent
<1>1. CapInv'
  BY <1>e DEF IInv, MacInv, CapInv, NoCapture, NoReceipt, Absent
<1>2. StageInv'
  BY <1>e
    DEF IInv, MacInv, StageInv, CapInv, Usable, Pausing, Locked, Resuming, NoCapture,
        NoReceipt, Absent
<1>3. HeldInv'
  BY <1>e
    DEF IInv, MacInv, HeldInv, CapInv, Paused, Same, Pausing, Locked, Resuming, NoCapture,
        NoReceipt, Absent
<1>4. TrustInv'
  BY <1>e
    DEF IInv, MacInv, TrustInv, CapInv, StageInv, HeldInv, WorkInv, Paused, Same,
        Finished, Harmless, Usable, NoCapture, NoReceipt, Absent
<1>5. RecoverInv'
  BY <1>e
    DEF IInv, MacInv, RecoverInv, CapInv, StageInv, Within, Witness, AsUsual, AsUsual1,
        Loadable, NoCapture, NoReceipt, Absent
<1>6. WorkInv'
  BY <1>e
    DEF IInv, MacInv, WorkInv, CapInv, Back1, Labels, Pausing, Locked, Resuming,
        NoCapture, NoReceipt, Absent
<1>7. Seals
  BY <1>e
    DEF IInv, MacInv, Seals, Sealed, StageInv, CapInv, Usable, NoCapture, NoReceipt,
        Absent
<1> QED BY <1>u, <1>1, <1>2, <1>3, <1>4, <1>5, <1>6, <1>7 DEF MacKept, MacInv

LEMMA RebootKeeps ==
  ASSUME IInv, Reboot, UNCHANGED revoked
  PROVE  MacKept
<1>t. MacType
  BY DEF IInv, TypeOK
<1>u. MacType'
  <2>1. NoReceipt \in Receipts
    BY DEF NoReceipt, Receipts, Agents, Absent
  <2>2. cap.stage \in Stages
    BY <1>t DEF MacType, Captures
  <2>3. cap' \in Captures
    BY <2>1, <2>2 DEF Reboot, NoCapture, Captures, Steps
  <2>4. agent' \in Agents
    BY <1>t DEF MacType, Reboot, Agents, Usual, On, Absent
  <2>5. gui' \in BOOLEAN
    BY <2>4 DEF Reboot, Agents, Labels
  <2> QED BY <1>t, <2>3, <2>4, <2>5 DEF MacType, NoPass, Reboot
<1>e. /\ UNCHANGED <<scanner, mac, stage>> /\ pass' = NoPass
      /\ cap' = NoCapture(cap.stage) /\ gui' = agent'["ui"].loaded
      /\ \A l \in Labels : /\ agent'[l].disabled = agent[l].disabled
                           /\ agent'[l].loaded = (Usual.agent[l].loaded /\ ~ agent[l].disabled)
  BY <1>t
    DEF MacType, Captures, StageRecords, Receipts, Agents, Moves, Fails, host, Reboot,
        Labels, NoCapture, NoReceipt, Absent, NoPass, Usual, On
<1>1. CapInv'
  BY <1>e DEF IInv, MacInv, CapInv, NoCapture, NoReceipt, Absent
<1>2. StageInv'
  BY <1>e
    DEF IInv, MacInv, StageInv, CapInv, Usable, Pausing, Locked, Resuming, NoCapture,
        NoReceipt, Absent, NoPass, Labels
<1>3. HeldInv'
  BY <1>e
    DEF IInv, MacInv, HeldInv, CapInv, Paused, Same, NoCapture, NoReceipt, Absent, NoPass,
        Labels
<1>4. TrustInv'
  BY <1>e
    DEF IInv, MacInv, TrustInv, CapInv, StageInv, HeldInv, WorkInv, Paused, Same,
        Finished, Harmless, Usable, NoCapture, NoReceipt, Absent, NoPass, Labels
<1>5. RecoverInv'
  <2>1. \A s \in Stages : Witness(s)' = Witness(s)
    BY <1>e DEF Witness, AsUsual, AsUsual1, Loadable
  <2>2. \A l \in Labels : Usual.agent[l].loaded = Loadable(l)
    BY CaptureAssumption DEF Usual, On, Absent, Loadable
  <2>3. Within(agent)' /\ Within(cap.original.agent)' /\ \A s \in Stages : Within(stage[s].receipt.agent)'
    BY <1>e, <2>2
      DEF IInv, MacInv, RecoverInv, Within, Loadable, NoCapture, NoReceipt, Absent
  <2>4. (~ AsUsual(agent))' => ~ AsUsual(agent)
    BY <1>e, <2>2 DEF AsUsual, AsUsual1, Loadable
  <2>5. cap'.goal = "none" /\ cap'.pc = "idle"
    BY <1>e DEF NoCapture
  <2> QED BY <2>1, <2>3, <2>4, <2>5 DEF IInv, MacInv, RecoverInv
<1>6. WorkInv'
  BY <1>e
    DEF IInv, MacInv, WorkInv, CapInv, Back1, Labels, Pausing, Locked, Resuming,
        NoCapture, NoReceipt, Absent, NoPass
<1>7. Seals
  BY <1>e
    DEF IInv, MacInv, Seals, Sealed, StageInv, CapInv, Usable, NoCapture, NoReceipt,
        Absent
<1> QED BY <1>u, <1>1, <1>2, <1>3, <1>4, <1>5, <1>6, <1>7 DEF MacKept, MacInv

-----------------------------------------------------------------------------
(* What the server holds is tied to a stage that the Mac leaves alone. *)
LEMMA ServerFramed ==
  ASSUME IInv, MacKept, UNCHANGED <<serverVars, revoked>>
  PROVE  ServerType' /\ ServerInv'
<1>1. UNCHANGED <<marker, task, tokens, volume, attached, reports, data, files, published, adopted, live>>
  BY DEF serverVars, target, place
<1>2. ServerType'
  BY <1>1 DEF IInv, TypeOK, ServerType
<1>3. ASSUME NEW s \in Stages, Sealed(s)
      PROVE  Sealed(s)' /\ stage'[s].db = stage[s].db /\ stage'[s].model = stage[s].model
             /\ (Holds(s) => Holds(s)') /\ (s \notin revoked => Usable(s)' = Usable(s))
  BY <1>1, <1>3 DEF MacKept, Seals, Holds
<1>4. task.pc # "none" => task.stage \in Stages /\ Sealed(task.stage)
  BY DEF IInv, ServerInv, ImportInv
<1>5. published # None => published \in Stages /\ Sealed(published)
  BY DEF IInv, TypeOK, ServerType, ServerInv, PublishInv
<1>6. task.pc # "none" =>
        /\ Sealed(task.stage)' /\ stage'[task.stage].db = stage[task.stage].db
        /\ stage'[task.stage].model = stage[task.stage].model
        /\ Holds(task.stage) => Holds(task.stage)'
  BY <1>1, <1>3, <1>4
<1>7. published # None =>
        /\ Sealed(published)' /\ stage'[published].db = stage[published].db
        /\ Holds(published) => Holds(published)'
        /\ published \notin revoked => Usable(published)' = Usable(published)
  BY <1>1, <1>3, <1>5
<1>8. ImportInv'
  BY <1>1, <1>6 DEF IInv, ServerInv, ImportInv
<1>9. PublishInv'
  <2>1. task.pc \in {"prepare", "retain", "rename", "files", "verify"} => task.pc # "none"
    OBVIOUS
  <2>2. live => published # None
    BY DEF IInv, ServerInv, PublishInv
  <2> QED BY <1>1, <1>6, <1>7, <2>1, <2>2 DEF IInv, ServerInv, PublishInv
<1> QED BY <1>2, <1>8, <1>9 DEF ServerInv

LEMMA FaultsCounted ==
  ASSUME spent \in Nat, Fault \/ UNCHANGED spent PROVE spent' \in Nat
BY DEF Fault

LEMMA MacStepKeeps ==
  ASSUME IInv, MacStep, UNCHANGED <<serverVars, revoked>>
  PROVE  IInv'
<1>1. UNCHANGED revoked
  OBVIOUS
<1>2. Command => MacKept
  BY <1>1, PassStartsKeeps, PassBeginsKeeps, PassLearnsKeeps, PassEndsKeeps,
     ScannerWritesKeeps, UserActsKeeps
    DEF Command
<1>3. Capture => MacKept
  BY <1>1, InspectKeeps, DisableKeeps, CloseGuiKeeps, BootoutKeeps, CheckClosedKeeps,
     StopScannerKeeps, TakeLockKeeps, SnapshotDatabaseKeeps, ExportModelKeeps,
     RecheckKeeps, AssertPausedKeeps, PublishKeeps, InvalidateKeeps
    DEF Capture
<1>4. Resume => MacKept
  BY <1>1, ResumeScannerKeeps, ResumeAgentKeeps, ResumeGuiKeeps, ResumeRecordedKeeps,
     ReportedKeeps
    DEF Resume
<1>5. MacKept
  BY <1>1, <1>2, <1>3, <1>4, CaptureBeginsKeeps, StepFailsKeeps, KilledKeeps, RebootKeeps
    DEF MacStep
<1>6. Fault \/ UNCHANGED spent
  <2>1. Command => Fault \/ UNCHANGED spent
    BY DEF Command, PassStarts, PassBegins, PassLearns, PassEnds, ScannerWrites, UserActs
  <2>2. Capture => Fault \/ UNCHANGED spent
    BY DEF Capture, Inspect, Disable, CloseGui, Bootout, CheckClosed, StopScanner,
           TakeLock, SnapshotDatabase, ExportModel, Recheck, AssertPaused, Publish,
           Invalidate
  <2>3. Resume => Fault \/ UNCHANGED spent
    BY DEF Resume, ResumeScanner, ResumeAgent, ResumeGui, ResumeRecorded, Reported
  <2> QED BY <2>1, <2>2, <2>3 DEF MacStep, StepFails, Killed, Reboot, CaptureBegins
<1>7. spent' \in Nat
  BY <1>6, FaultsCounted DEF IInv, TypeOK
<1> QED BY <1>5, <1>7, ServerFramed DEF IInv, TypeOK, MacKept

-----------------------------------------------------------------------------
(* A step of the server does not touch the Mac. *)
LEMMA MacFramed ==
  ASSUME IInv, UNCHANGED <<host, pass, mac, stage, cap, revoked>>
  PROVE  /\ MacType' /\ MacInv'
         /\ \A s \in Stages : Sealed(s)' = Sealed(s) /\ Usable(s)' = Usable(s)
<1>1. UNCHANGED <<agent, gui, scanner, pass, mac, stage, cap, revoked>>
  BY DEF host
<1>2. MacType'
  BY <1>1 DEF IInv, TypeOK, MacType
<1>3. \A s \in Stages : Usable(s)' = Usable(s) /\ Same(s)' = Same(s) /\ Finished(s)' = Finished(s)
                        /\ Witness(s)' = Witness(s) /\ Sealed(s)' = Sealed(s)
  BY <1>1 DEF Usable, Same, Finished, Witness, Sealed, AsUsual, AsUsual1, Loadable
<1>4. CapInv'
  BY <1>1 DEF IInv, MacInv, CapInv, NoCapture
<1>5. StageInv'
  BY <1>1 DEF IInv, MacInv, StageInv, Usable
<1>6. HeldInv'
  BY <1>1 DEF IInv, MacInv, HeldInv, Paused, Same
<1>7. TrustInv'
  BY <1>1 DEF IInv, MacInv, TrustInv, Paused, Harmless, Usable, Same, Finished
<1>8. RecoverInv'
  BY <1>1 DEF IInv, MacInv, RecoverInv, Within, AsUsual, AsUsual1, Witness, Loadable
<1>9. WorkInv'
  BY <1>1 DEF IInv, MacInv, WorkInv, Back1
<1> QED BY <1>2, <1>3, <1>4, <1>5, <1>6, <1>7, <1>8, <1>9 DEF MacInv

(* What a step of the server has to show. *)
OnServer == UNCHANGED <<host, pass, mac, stage, cap, revoked>>
ServerKept == ServerType' /\ ServerInv'

LEMMA SameStages ==
  ASSUME IInv, OnServer
  PROVE  /\ UNCHANGED <<stage, revoked>>
         /\ \A s \in Stages : Sealed(s)' = Sealed(s) /\ Usable(s)' = Usable(s)
BY MacFramed DEF OnServer

LEMMA TrustedIsSealed ==
  ASSUME IInv, NEW s \in Stages, Trusted(s)
  PROVE  Sealed(s)
<1>1. cap.pc = "idle"
  BY DEF Trusted, Idle, NoCapture
<1>2. stage[s].made
  BY DEF Trusted, Usable, IInv, MacInv, StageInv, NoStage
<1> QED BY <1>1, <1>2 DEF Sealed

LEMMA ImportBeginsKeeps ==
  ASSUME IInv, OnServer, NEW s \in Stages, Trusted(s), ImportBegins(s)
  PROVE  ServerKept
<1>t. ServerType
  BY DEF IInv, TypeOK
<1>e. /\ Free /\ marker /\ ~ live /\ volume = None
      /\ task' = [pc |-> "load", stage |-> s, token |-> tokens + 1, report |-> None]
      /\ tokens' = tokens + 1
      /\ UNCHANGED <<marker, volume, attached, reports, data, files, published, adopted, live>>
  BY DEF ImportBegins, Fenced, target, place
<1>1. ServerType'
  BY <1>t, <1>e DEF ServerType, Tasks, Phases
<1>2. Sealed(s)'
  BY SameStages, TrustedIsSealed
<1>3. published = None
  BY <1>e DEF IInv, ServerInv, PublishInv, Holds
<1>4. tokens \in Nat /\ \A r \in reports : r.token \in Nat /\ r.token <= tokens
  BY <1>t DEF ServerType, Reports, IInv, ServerInv, ImportInv
<1>5. \A r \in reports : r.token <= tokens' /\ r.token # tokens'
  BY <1>4, <1>e
<1>6. ImportInv'
  BY <1>e, <1>2, <1>3, <1>5 DEF ImportInv
<1>7. PublishInv'
  BY <1>e, <1>3 DEF IInv, ServerInv, PublishInv
<1> QED BY <1>1, <1>6, <1>7 DEF ServerKept, ServerInv

LEMMA ImportLoadsKeeps ==
  ASSUME IInv, OnServer, ImportLoads
  PROVE  ServerKept
<1>t. ServerType /\ MacType
  BY DEF IInv, TypeOK
<1>e. /\ task.pc = "load" /\ task' = [task EXCEPT !.pc = "convert"]
      /\ volume' = [token |-> task.token, model |-> stage[task.stage].model, aof |-> FALSE]
      /\ attached' = TRUE
      /\ UNCHANGED <<marker, tokens, reports, data, files, published, adopted, live>>
  BY DEF ImportLoads, Step, place
<1>p. /\ task'.pc = "convert" /\ task'.stage = task.stage /\ task'.token = task.token
      /\ task' \in Tasks
  BY <1>t, <1>e DEF ServerType, Tasks, Phases
<1>2. /\ task.stage \in Stages /\ Sealed(task.stage) /\ marker /\ ~ live /\ published = None
      /\ task.token = tokens /\ \A r \in reports : r.token # tokens
  BY <1>e DEF IInv, ServerInv, ImportInv
<1>5. volume' \in Volumes
  <2>1. stage[task.stage].model \in Nat /\ task.token \in Nat
    BY <1>t, <1>2 DEF MacType, StageRecords, ServerType, Tasks
  <2> QED BY <1>e, <2>1 DEF Volumes
<1>1. ServerType'
  BY <1>t, <1>e, <1>p, <1>5 DEF ServerType
<1>3. Sealed(task.stage)'
  BY <1>p, <1>2, SameStages
<1>4. volume' # None /\ volume'.token = tokens
  BY <1>e, <1>5, <1>2, NoneAssumption DEF Volumes
<1>6. ImportInv'
  <2>1. tokens <= tokens
    BY <1>t DEF ServerType
  <2> QED BY <1>e, <1>p, <1>2, <1>3, <1>4, <2>1 DEF IInv, ServerInv, ImportInv
<1>7. PublishInv'
  BY <1>e, <1>p, <1>2 DEF IInv, ServerInv, PublishInv
<1> QED BY <1>1, <1>6, <1>7 DEF ServerKept, ServerInv

LEMMA ImportConvertsKeeps ==
  ASSUME IInv, OnServer, ImportConverts
  PROVE  ServerKept
<1>t. ServerType
  BY DEF IInv, TypeOK
<1>e. /\ task.pc = "convert" /\ task' = [task EXCEPT !.pc = "restart"]
      /\ volume' = [volume EXCEPT !.aof = TRUE]
      /\ UNCHANGED <<marker, tokens, attached, reports, data, files, published, adopted, live>>
  BY DEF ImportConverts, Step, place
<1>p. /\ task'.pc = "restart" /\ task'.stage = task.stage /\ task'.token = task.token
      /\ task' \in Tasks
  BY <1>t, <1>e DEF ServerType, Tasks, Phases
<1>2. /\ task.stage \in Stages /\ Sealed(task.stage) /\ marker /\ ~ live /\ published = None
      /\ task.token = tokens /\ (\A r \in reports : r.token # tokens)
      /\ volume # None /\ volume.token = tokens
  BY <1>e DEF IInv, ServerInv, ImportInv
<1>4. volume' \in Volumes /\ volume'.token = tokens /\ volume'.aof
  BY <1>t, <1>e, <1>2 DEF ServerType, Volumes
<1>1. ServerType'
  BY <1>t, <1>e, <1>p, <1>4 DEF ServerType
<1>3. Sealed(task.stage)'
  BY <1>p, <1>2, SameStages
<1>5. volume' # None
  BY <1>4, NoneAssumption DEF Volumes
<1>6. ImportInv'
  BY <1>e, <1>p, <1>2, <1>3, <1>4, <1>5 DEF IInv, ServerInv, ImportInv
<1>7. PublishInv'
  BY <1>e, <1>p, <1>2 DEF IInv, ServerInv, PublishInv
<1> QED BY <1>1, <1>6, <1>7 DEF ServerKept, ServerInv

LEMMA ImportComparesKeeps ==
  ASSUME IInv, OnServer, ImportCompares
  PROVE  ServerKept
<1>t. ServerType
  BY DEF IInv, TypeOK
<1>e. /\ task.pc = "restart" /\ task' = [task EXCEPT !.pc = "report"]
      /\ Model = stage[task.stage].model
      /\ UNCHANGED <<marker, tokens, volume, attached, reports, data, files, published, adopted, live>>
  BY DEF ImportCompares, Step, place, target
<1>p. /\ task'.pc = "report" /\ task'.stage = task.stage /\ task'.token = task.token
      /\ task' \in Tasks
  BY <1>t, <1>e DEF ServerType, Tasks, Phases
<1>2. /\ task.stage \in Stages /\ Sealed(task.stage) /\ marker /\ ~ live /\ published = None
      /\ task.token = tokens /\ (\A r \in reports : r.token # tokens)
      /\ volume # None /\ volume.token = tokens /\ volume.aof
  BY <1>e DEF IInv, ServerInv, ImportInv
<1>1. ServerType'
  BY <1>t, <1>e, <1>p DEF ServerType
<1>3. Sealed(task.stage)'
  BY <1>p, <1>2, SameStages
<1>5. volume.model = stage[task.stage].model
  BY <1>e, <1>2 DEF Model
<1>6. ImportInv'
  BY <1>e, <1>p, <1>2, <1>3, <1>5, SameStages DEF IInv, ServerInv, ImportInv
<1>7. PublishInv'
  BY <1>e, <1>p, <1>2 DEF IInv, ServerInv, PublishInv
<1> QED BY <1>1, <1>6, <1>7 DEF ServerKept, ServerInv

LEMMA ImportReportsKeeps ==
  ASSUME IInv, OnServer, ImportReports
  PROVE  ServerKept
<1>t. ServerType /\ MacType
  BY DEF IInv, TypeOK
<1>e. PICK clean \in BOOLEAN :
      /\ task.pc = "report" /\ task' = NoTask /\ attached' = ~ clean
      /\ reports' = reports \cup {[token |-> task.token, model |-> stage[task.stage].model,
                                   clean |-> clean]}
      /\ UNCHANGED <<marker, tokens, volume, data, files, published, adopted, live>>
  BY DEF ImportReports, place
<1>2. /\ task.stage \in Stages /\ marker /\ ~ live /\ published = None
      /\ task.token = tokens
      /\ volume # None /\ volume.token = tokens /\ volume.aof
      /\ volume.model = stage[task.stage].model
  BY <1>e DEF IInv, ServerInv, ImportInv
<1>p. task'.pc = "none" /\ task' \in Tasks
  BY <1>e DEF NoTask, Tasks
<1> DEFINE new == [token |-> task.token, model |-> stage[task.stage].model, clean |-> clean]
<1>3. new \in Reports /\ new.token = tokens /\ new.model = volume.model
  BY <1>t, <1>2 DEF MacType, StageRecords, ServerType, Tasks, Reports
<1>4. reports' = reports \cup {new}
  BY <1>e
<1> HIDE DEF new
<1>1. ServerType'
  BY <1>t, <1>e, <1>p, <1>3, <1>4 DEF ServerType
<1>5. \A r \in reports' : r.token <= tokens
  <2>1. tokens <= tokens
    BY <1>t DEF ServerType
  <2> QED BY <1>3, <1>4, <2>1 DEF IInv, ServerInv, ImportInv
<1>7. \A r \in reports' : volume # None /\ volume.token = r.token => volume.aof /\ volume.model = r.model
  BY <1>2, <1>3, <1>4 DEF IInv, ServerInv, ImportInv
<1>6. ImportInv'
  BY <1>e, <1>p, <1>2, <1>5, <1>7 DEF IInv, ServerInv, ImportInv
<1>8. PublishInv'
  BY <1>e, <1>p, <1>2 DEF IInv, ServerInv, PublishInv
<1> QED BY <1>1, <1>6, <1>8 DEF ServerKept, ServerInv

LEMMA VolumeRemovedKeeps ==
  ASSUME IInv, OnServer, VolumeRemoved
  PROVE  ServerKept
<1>e. /\ task = NoTask /\ published = None /\ volume' = None /\ attached' = FALSE
      /\ UNCHANGED <<marker, task, tokens, reports, data, files, published, adopted, live>>
  BY DEF VolumeRemoved, Fenced, Free, place
<1>p. task.pc = "none"
  BY <1>e DEF NoTask
<1>1. ServerType'
  BY <1>e DEF IInv, TypeOK, ServerType
<1>2. ImportInv'
  BY <1>e, <1>p DEF IInv, ServerInv, ImportInv
<1>3. PublishInv'
  BY <1>e, <1>p DEF IInv, ServerInv, PublishInv
<1> QED BY <1>1, <1>2, <1>3 DEF ServerKept, ServerInv

LEMMA PublishBeginsKeeps ==
  ASSUME IInv, OnServer, NEW s \in Stages, NEW r \in reports, Trusted(s), PublishBegins(s, r)
  PROVE  ServerKept
<1>t. ServerType
  BY DEF IInv, TypeOK
<1>e. /\ marker /\ ~ live /\ published = None /\ files = 0
      /\ r.model = stage[s].model /\ volume # None /\ volume.token = r.token
      /\ task' = [pc |-> "prepare", stage |-> s, token |-> 0, report |-> r]
      /\ UNCHANGED <<marker, tokens, volume, attached, reports, data, files, published, adopted, live>>
  BY DEF PublishBegins, Fenced, EmptyTarget, VerifyModel, target, place
<1>1. ServerType'
  BY <1>t, <1>e DEF ServerType, Tasks, Phases
<1>2. Sealed(s)'
  BY SameStages, TrustedIsSealed
<1>3. Holds(s)'
  BY <1>e, SameStages DEF IInv, ServerInv, ImportInv, Holds
<1>6. ImportInv'
  BY <1>e, <1>2 DEF IInv, ServerInv, ImportInv
<1>7. PublishInv'
  BY <1>e, <1>3 DEF IInv, ServerInv, PublishInv
<1> QED BY <1>1, <1>6, <1>7 DEF ServerKept, ServerInv

LEMMA PublicationKeeps ==
  ASSUME IInv, OnServer, Publication
  PROVE  ServerKept
<1>t. ServerType /\ MacType
  BY DEF IInv, TypeOK
<1>e. UNCHANGED <<marker, tokens, volume, attached, reports, adopted, live>>
  BY DEF Publication, Prepare, Retain, Rename, PublishFile, PublishReports, target, place
<1>2. task.pc \in {"prepare", "retain", "rename", "files", "verify"}
  BY DEF Publication, Prepare, Retain, Rename, PublishFile, PublishReports
<1>3. /\ task.stage \in Stages /\ Sealed(task.stage) /\ Holds(task.stage)
      /\ marker /\ ~ live /\ published = None
  BY <1>2 DEF IInv, ServerInv, ImportInv, PublishInv
<1>5. \A s \in Stages : (Holds(s)' <=> Holds(s)) /\ (Sealed(s)' <=> Sealed(s))
  BY <1>e, SameStages DEF Holds
<1>6. ASSUME NEW pc \in {"retain", "rename", "files", "verify"}, Step(pc)
      PROVE  /\ task' \in Tasks /\ task'.pc = pc /\ task'.stage = task.stage
             /\ Sealed(task.stage)' /\ Holds(task.stage)'
  <2>1. task' \in Tasks /\ task'.pc = pc /\ task'.stage = task.stage
    BY <1>t, <1>6 DEF ServerType, Tasks, Phases, Step
  <2> QED BY <1>3, <1>5, <2>1
<1>7. CASE Prepare
  <2>1. task.pc = "prepare" /\ Step("retain") /\ UNCHANGED <<data, files, published>>
    BY <1>7 DEF Prepare, place
  <2>2. ServerType'
    BY <1>t, <1>e, <1>6, <2>1 DEF ServerType
  <2>3. ImportInv'
    BY <1>e, <1>3, <1>6, <2>1 DEF IInv, ServerInv, ImportInv
  <2>4. PublishInv'
    BY <1>e, <1>3, <1>6, <2>1 DEF IInv, ServerInv, PublishInv
  <2> QED BY <2>2, <2>3, <2>4 DEF ServerKept, ServerInv
<1>8. CASE Retain
  <2>1. task.pc = "retain" /\ Step("rename") /\ UNCHANGED <<files, published>>
        /\ data' = [data EXCEPT !.is = "away"]
    BY <1>8 DEF Retain
  <2>2. ServerType'
    BY <1>t, <1>e, <1>6, <2>1 DEF ServerType
  <2>3. ImportInv'
    BY <1>e, <1>3, <1>6, <2>1 DEF IInv, ServerInv, ImportInv
  <2>4. PublishInv'
    BY <1>e, <1>3, <1>6, <2>1 DEF IInv, ServerInv, PublishInv
  <2> QED BY <2>2, <2>3, <2>4 DEF ServerKept, ServerInv
<1>9. CASE Rename
  <2>1. task.pc = "rename" /\ Step("files") /\ UNCHANGED <<files, published>>
        /\ data' = [is |-> "full", db |-> stage[task.stage].db]
    BY <1>9 DEF Rename
  <2>2. stage[task.stage].db \in Nat /\ UNCHANGED stage
    BY <1>t, <1>3, SameStages DEF MacType, StageRecords
  <2>3. ServerType'
    BY <1>t, <1>e, <1>6, <2>1, <2>2 DEF ServerType
  <2>4. ImportInv'
    BY <1>e, <1>3, <1>6, <2>1 DEF IInv, ServerInv, ImportInv
  <2>5. files = 0
    BY <2>1 DEF IInv, ServerInv, PublishInv
  <2>6. PublishInv'
    BY <1>e, <1>3, <1>6, <2>1, <2>2, <2>5 DEF IInv, ServerInv, PublishInv
  <2> QED BY <2>3, <2>4, <2>6 DEF ServerKept, ServerInv
<1>10. CASE PublishFile
  <2>1. task.pc = "files" /\ files' = files + 1 /\ Step(IF files = 2 THEN "verify" ELSE "files")
        /\ UNCHANGED <<data, published>>
    BY <1>10 DEF PublishFile
  <2>2. files \in Nat /\ files <= 2 /\ data = [is |-> "full", db |-> stage[task.stage].db]
    BY <1>t, <2>1 DEF ServerType, IInv, ServerInv, PublishInv
  <2>3. UNCHANGED stage
    BY SameStages
  <2>4. ServerType'
    BY <1>t, <1>e, <1>6, <2>1, <2>2 DEF ServerType
  <2>5. ImportInv'
    BY <1>e, <1>3, <1>6, <2>1 DEF IInv, ServerInv, ImportInv
  <2>6. PublishInv'
    BY <1>e, <1>3, <1>6, <2>1, <2>2, <2>3 DEF IInv, ServerInv, PublishInv
  <2> QED BY <2>4, <2>5, <2>6 DEF ServerKept, ServerInv
<1>11. CASE PublishReports
  <2>1. task.pc = "verify" /\ task' = NoTask /\ published' = task.stage /\ UNCHANGED <<data, files>>
    BY <1>11 DEF PublishReports
  <2>2. task'.pc = "none" /\ task' \in Tasks
    BY <2>1 DEF NoTask, Tasks
  <2>3. files = 3 /\ data = [is |-> "full", db |-> stage[task.stage].db] /\ UNCHANGED stage
    BY <2>1, SameStages DEF IInv, ServerInv, PublishInv
  <2>4. Sealed(published)' /\ Holds(published)' /\ published' \in Stages
    BY <1>3, <1>5, <2>1
  <2>5. ServerType'
    BY <1>t, <1>e, <2>1, <2>2, <2>4 DEF ServerType
  <2>6. ImportInv'
    BY <1>e, <2>1, <2>2 DEF IInv, ServerInv, ImportInv
  <2>7. PublishInv'
    BY <1>e, <1>3, <2>1, <2>2, <2>3, <2>4 DEF IInv, ServerInv, PublishInv
  <2> QED BY <2>5, <2>6, <2>7 DEF ServerKept, ServerInv
<1> QED BY <1>7, <1>8, <1>9, <1>10, <1>11 DEF Publication

LEMMA TaskEndsKeeps ==
  ASSUME IInv, OnServer, TaskEnds
  PROVE  ServerKept
<1>t. ServerType
  BY DEF IInv, TypeOK
<1>e. /\ task # NoTask /\ task' = NoTask /\ attached' \in BOOLEAN
      /\ UNCHANGED <<marker, tokens, volume, reports, data, files, published, adopted, live>>
  BY <1>t DEF TaskEnds, Free, place, ServerType
<1>2. marker /\ ~ live /\ published = None
  BY <1>e DEF IInv, ServerInv, ImportInv
<1>p. task'.pc = "none" /\ task' \in Tasks
  BY <1>e DEF NoTask, Tasks
<1>1. ServerType'
  BY <1>t, <1>e, <1>p DEF ServerType
<1>3. ImportInv'
  BY <1>e, <1>p DEF IInv, ServerInv, ImportInv
<1>4. PublishInv'
  BY <1>e, <1>2, <1>p DEF IInv, ServerInv, PublishInv
<1> QED BY <1>1, <1>3, <1>4 DEF ServerKept, ServerInv

(* Steps that leave the tasks and their results alone. *)
LEMMA StillKeeps ==
  ASSUME IInv, OnServer, Free,
         UNCHANGED <<task, tokens, volume, attached, reports, data, files, published>>,
         marker' \in BOOLEAN, adopted' \in BOOLEAN, live' \in BOOLEAN,
         ~ marker' => published # None,
         live' => ~ marker' /\ Usable(published) /\ published \notin revoked
  PROVE  ServerKept
<1>p. task = NoTask /\ task.pc = "none"
  BY DEF Free, NoTask
<1>1. ServerType'
  BY DEF IInv, TypeOK, ServerType
<1>2. ImportInv'
  BY <1>p DEF IInv, ServerInv, ImportInv
<1>3. published # None => published \in Stages
  BY DEF IInv, TypeOK, ServerType
<1>4. published # None =>
        /\ Sealed(published)' /\ Holds(published)'
        /\ data = [is |-> "full", db |-> stage'[published].db] /\ files = 3
        /\ Usable(published)' = Usable(published)
  BY <1>3, SameStages DEF IInv, ServerInv, PublishInv, Holds
<1>5. PublishInv'
  BY <1>p, <1>4, SameStages DEF PublishInv
<1> QED BY <1>1, <1>2, <1>5 DEF ServerKept, ServerInv

LEMMA ServerStepKeeps ==
  ASSUME IInv, ServerStep, OnServer
  PROVE  IInv'
<1>1. Adopt => ServerKept
  <2> SUFFICES ASSUME Adopt PROVE ServerKept
    OBVIOUS
  <2>1. /\ Free /\ ~ live /\ adopted' = TRUE
        /\ UNCHANGED <<marker, task, tokens, volume, attached, reports, data, files, published, live>>
    BY DEF Adopt, target
  <2>2. marker \in BOOLEAN /\ live \in BOOLEAN /\ (~ marker => published # None)
    BY DEF IInv, TypeOK, ServerType, ServerInv, PublishInv
  <2> QED BY <2>1, <2>2, StillKeeps
<1>2. ServerKept
  BY <1>1, ImportBeginsKeeps, ImportLoadsKeeps, ImportConvertsKeeps, ImportComparesKeeps,
     ImportReportsKeeps, VolumeRemovedKeeps, PublishBeginsKeeps, PublicationKeeps,
     TaskEndsKeeps
    DEF ServerStep, Import
<1>3. Fault \/ UNCHANGED spent
  BY DEF ServerStep, ImportReports, TaskEnds
<1>4. spent' \in Nat
  BY <1>3, FaultsCounted DEF IInv, TypeOK
<1> QED BY <1>2, <1>4, MacFramed DEF OnServer, ServerKept, IInv, TypeOK

-----------------------------------------------------------------------------
(* The operator: one who resumes the Mac gives every stage up. *)
LEMMA MacResumedKeeps ==
  ASSUME IInv, NEW s \in Stages, MacResumed(s)
  PROVE  IInv'
<1>t. MacType /\ ServerType
  BY DEF IInv, TypeOK
<1>e. /\ Free /\ marker /\ ~ live /\ stage[s].receipt.kept
      /\ cap' = [pc |-> "start", stage |-> s, keep |-> FALSE, original |-> stage[s].receipt,
                 changed |-> Labels, left |-> Labels, stopped |-> TRUE, goal |-> "receipt",
                 bad |-> FALSE, cut |-> FALSE]
      /\ revoked' = {t \in Stages : stage[t].made}
      /\ UNCHANGED <<agent, gui, scanner, pass, mac, stage, spent>>
      /\ UNCHANGED <<marker, task, tokens, volume, attached, reports, data, files, published, adopted, live>>
  BY DEF MacResumed, ResumeBegins, NoCapture, host, serverVars, target, place
<1>1. stage[s].made
  BY <1>e DEF IInv, MacInv, StageInv, NoStage, NoReceipt
<1>2. MacType'
  <2>1. stage[s].receipt \in Receipts
    BY <1>t DEF MacType, StageRecords
  <2>2. cap' \in Captures
    BY <1>e, <2>1 DEF Captures, Steps
  <2> QED BY <1>t, <1>e, <2>2 DEF MacType
<1>3. ServerType'
  BY <1>t, <1>e DEF ServerType
<1>4. CapInv'
  BY <1>e DEF CapInv, Pausing, Resuming
<1>5. StageInv'
  BY <1>e, <1>1 DEF IInv, MacInv, StageInv, Pausing
<1>6. HeldInv'
  BY <1>e DEF IInv, MacInv, HeldInv
<1>7. TrustInv'
  <2>1. \A t \in Stages : Usable(t)' => stage[t].made
    BY <1>e DEF IInv, MacInv, StageInv, NoStage, Usable
  <2> QED BY <1>e, <2>1 DEF TrustInv
<1>8. RecoverInv'
  BY <1>e DEF IInv, MacInv, RecoverInv, Within, AsUsual, AsUsual1, Witness, Loadable
<1>9. WorkInv'
  BY <1>e DEF WorkInv
<1>10. \A t \in Stages : Sealed(t) => Sealed(t)'
  BY <1>e DEF Sealed
<1>11. ImportInv'
  BY <1>e DEF IInv, ServerInv, ImportInv, Free, NoTask
<1>12. published # None => Sealed(published)'
  BY <1>e, <1>t, <1>10 DEF IInv, ServerInv, PublishInv, ServerType
<1>13. PublishInv'
  BY <1>e, <1>12 DEF IInv, ServerInv, PublishInv, Holds, Free, NoTask
<1> QED BY <1>e, <1>2, <1>3, <1>4, <1>5, <1>6, <1>7, <1>8, <1>9, <1>11, <1>13
  DEF IInv, TypeOK, MacInv, ServerInv

LEMMA OperatorKeeps ==
  ASSUME IInv, Operator
  PROVE  IInv'
<1>1. ASSUME MarkerRemoved \/ MarkerRestored \/ Activated PROVE IInv'
  <2>1. /\ Free /\ OnServer /\ UNCHANGED spent
        /\ UNCHANGED <<task, tokens, volume, attached, reports, data, files, published, adopted>>
    BY <1>1
      DEF MarkerRemoved, MarkerRestored, Activated, OnServer, macVars, host, target, place
  <2>2. marker \in BOOLEAN /\ live \in BOOLEAN /\ adopted \in BOOLEAN /\ (~ marker => published # None)
    BY DEF IInv, TypeOK, ServerType, ServerInv, PublishInv
  <2>3. ServerKept
    <3>1. CASE MarkerRemoved
      <4>1. ~ live /\ UNCHANGED live
        BY <3>1 DEF MarkerRemoved, IInv, TypeOK, ServerType, ServerInv, PublishInv
      <4>2. marker' = FALSE /\ published # None
        BY <3>1 DEF MarkerRemoved
      <4>3. marker' \in BOOLEAN /\ adopted' \in BOOLEAN /\ live' \in BOOLEAN /\ ~ live'
        BY <2>1, <2>2, <4>1, <4>2
      <4> QED BY <2>1, <4>2, <4>3, StillKeeps
    <3>2. CASE MarkerRestored
      BY <2>1, <2>2, <3>2, StillKeeps DEF MarkerRestored
    <3>3. CASE Activated
      BY <2>1, <2>2, <3>3, StillKeeps DEF Activated, Trusted
    <3> QED BY <1>1, <3>1, <3>2, <3>3
  <2> QED BY <2>1, <2>3, MacFramed DEF OnServer, ServerKept, IInv, TypeOK
<1> QED BY <1>1, MacResumedKeeps DEF Operator

-----------------------------------------------------------------------------
LEMMA InitInv == Init => IInv
<1> SUFFICES ASSUME Init PROVE IInv
  OBVIOUS
<1>1. /\ agent = Usual.agent /\ gui = UiAgent /\ scanner = TRUE /\ pass = NoPass
      /\ mac = [db |-> 0, model |-> 0, latest |-> "ok"]
      /\ stage = [s \in Stages |-> NoStage] /\ spent = 0 /\ revoked = {}
      /\ \E s \in Stages : cap = NoCapture(s)
  BY CaptureAssumption DEF Init, MacInit, Usual
<1>2. PICK s \in Stages : cap = NoCapture(s)
  BY <1>1
<1>3. NoReceipt \in Receipts
  BY DEF NoReceipt, Receipts, Agents, Absent
<1>4. agent \in Agents
  BY <1>1 DEF Usual, Agents, On, Absent
<1>5. NoStage \in StageRecords
  BY <1>3 DEF NoStage, StageRecords
<1>6. cap \in Captures
  BY <1>2, <1>3 DEF NoCapture, Captures, Steps
<1>7. MacType
  BY <1>1, <1>4, <1>5, <1>6, CaptureAssumption DEF MacType, NoPass
<1>8. ServerType
  BY DEF Init, ServerInit, ServerType, NoTask, Tasks
<1>9. AsUsual(agent) /\ Within(agent)
  BY <1>1 DEF AsUsual, AsUsual1, Within, Loadable, Usual, On, Absent
<1>10. Within(NoReceipt.agent)
  BY DEF Within, NoReceipt, Absent
<1>11. cap.pc = "idle" /\ cap.goal = "none" /\ cap = NoCapture(cap.stage) /\ cap.original = NoReceipt
       /\ cap.changed = {}
  BY <1>2 DEF NoCapture
<1>12. \A t \in Stages : ~ stage[t].made /\ ~ Usable(t) /\ stage[t].receipt = NoReceipt /\ stage[t] = NoStage
  BY <1>1 DEF Usable, NoStage
<1>13. CapInv
  BY <1>11 DEF CapInv
<1>14. StageInv
  BY <1>1, <1>11, <1>12 DEF StageInv, Pausing
<1>15. HeldInv
  BY <1>1, <1>11 DEF HeldInv, Locked
<1>16. TrustInv
  BY <1>12 DEF TrustInv
<1>17. RecoverInv
  BY <1>9, <1>10, <1>11, <1>12 DEF RecoverInv
<1>18. WorkInv
  BY <1>11 DEF WorkInv, Pausing, Locked
<1>19. ImportInv /\ PublishInv
  BY DEF Init, ServerInit, ImportInv, PublishInv, NoTask
<1> QED BY <1>1, <1>7, <1>8, <1>13, <1>14, <1>15, <1>16, <1>17, <1>18, <1>19
  DEF IInv, TypeOK, MacInv, ServerInv

LEMMA StutterKeeps == IInv /\ UNCHANGED vars => IInv'
<1> SUFFICES ASSUME IInv, UNCHANGED vars PROVE IInv'
  OBVIOUS
<1>1. UNCHANGED <<host, pass, mac, stage, cap, revoked, spent>>
      /\ UNCHANGED <<marker, task, tokens, volume, attached, reports, data, files, published, adopted, live>>
  BY DEF vars, macVars, host, serverVars, target, place
<1>2. ServerType'
  BY <1>1 DEF IInv, TypeOK, ServerType
<1>3. published # None => published \in Stages
  BY DEF IInv, TypeOK, ServerType
<1>4. task.pc # "none" => task.stage \in Stages
  BY DEF IInv, ServerInv, ImportInv
<1>5. \A s \in Stages : Sealed(s)' = Sealed(s) /\ Usable(s)' = Usable(s)
  BY <1>1, MacFramed
<1>6. ImportInv'
  BY <1>1, <1>4, <1>5 DEF IInv, ServerInv, ImportInv
<1>7. PublishInv'
  BY <1>1, <1>3, <1>5 DEF IInv, ServerInv, PublishInv, Holds
<1> QED BY <1>1, <1>2, <1>6, <1>7, MacFramed DEF IInv, TypeOK, ServerInv

LEMMA StepsKeep == IInv /\ [Next]_vars => IInv'
<1>1. IInv /\ Next => IInv'
  BY MacStepKeeps, ServerStepKeeps, OperatorKeeps DEF Next, OnServer
<1> QED BY <1>1, StutterKeeps

(* At every moment the capture, the stages, the import and the publication     *)
(* are where these invariants say, whatever failed and however often the Mac   *)
(* and the server were restarted (capture_mac.py, import_redis.py,             *)
(* publish_state.py).                                                          *)
THEOREM Inductive == Spec => []IInv
BY InitInv, StepsKeep, PTL DEF Spec

(* Every variable of the Mac and of the server keeps its type. *)
THEOREM HandoverTypeCorrect == Spec => []TypeOK
<1>1. IInv => TypeOK
  BY DEF IInv
<1> QED BY <1>1, Inductive, PTL

LEMMA LiveStageIsRight ==
  ASSUME IInv, Careful, live
  PROVE  published \in Stages /\ Holds(published) /\ Paused /\ Same(published) /\ files = 3
         /\ data = [is |-> "full", db |-> stage[published].db]
<1>1. Usable(published) /\ published \notin revoked /\ published # None
  BY DEF IInv, ServerInv, PublishInv
<1>2. published \in Stages
  BY <1>1 DEF IInv, TypeOK, ServerType
<1> QED BY <1>1, <1>2 DEF IInv, MacInv, TrustInv, ServerInv, PublishInv

(* While the server is live the Mac starts nothing by itself and no pass is at *)
(* work: as long as no second fault strikes a capture that is undoing itself   *)
(* (capture_mac.py, publish_capture and invalidate_publication).               *)
THEOREM OneOwnerKept ==
  ASSUME Careful PROVE Spec => []OneOwner
<1>1. IInv => OneOwner
  BY LiveStageIsRight DEF OneOwner, Paused
<1> QED BY <1>1, Inductive, PTL

(* The live server has the journal and the model the Mac ended with, both of   *)
(* one moment, and Redis finds the model (publish_state.py, verify_model;      *)
(* import_redis.py).                                                           *)
THEOREM ServerContinues ==
  ASSUME Careful PROVE Spec => []ServerContinuesTheMac
<1>1. IInv => ServerContinuesTheMac
  BY LiveStageIsRight DEF ServerContinuesTheMac, Model, Holds, Same
<1> QED BY <1>1, Inductive, PTL

(* A Mac that is at rest and not as its owner left it has a receipt that says  *)
(* how it was (capture_mac.py, inspect and resume_from_receipt).               *)
THEOREM PauseCanBeUndone == Spec => []PauseIsRecoverable
<1>1. ASSUME NEW a \in Agents PROVE AsUsual(a) /\ Within(a) <=> a = Usual.agent
  <2>1. Usual.agent = [l \in Labels |-> IF Loadable(l) THEN On ELSE Absent]
    BY DEF Usual, Loadable
  <2>2. \A l \in Labels : a[l] \in [loaded : BOOLEAN, disabled : BOOLEAN]
    BY DEF Agents
  <2>3. AsUsual(a) => \A l \in Labels : a[l] = IF Loadable(l) THEN On ELSE Absent
    BY <2>2 DEF AsUsual, AsUsual1, On, Absent
  <2>4. AsUsual(a) => a = Usual.agent
    BY <2>1, <2>3 DEF Agents
  <2>5. a = Usual.agent => AsUsual(a) /\ Within(a)
    BY <2>1 DEF AsUsual, AsUsual1, Within, On, Absent
  <2> QED BY <2>4, <2>5
<1>2. IInv => PauseIsRecoverable
  <2> SUFFICES ASSUME IInv, agent # Usual.agent
               PROVE  \E s \in Stages : stage[s].receipt.kept /\ ~stage[s].resumed
                                        /\ stage[s].receipt.agent = Usual.agent
    BY DEF PauseIsRecoverable
  <2>1. agent \in Agents /\ \A s \in Stages : stage[s].receipt.agent \in Agents
    BY DEF IInv, TypeOK, MacType, StageRecords, Receipts
  <2>2. Within(agent) /\ \A s \in Stages : Within(stage[s].receipt.agent)
    BY DEF IInv, MacInv, RecoverInv
  <2>3. PICK s \in Stages : Witness(s)
    BY <1>1, <2>1, <2>2 DEF IInv, MacInv, RecoverInv
  <2> QED BY <1>1, <2>1, <2>2, <2>3 DEF Witness
<1> QED BY <1>2, Inductive, PTL

(* A capture or resume that ends without leaving the Mac paused and without    *)
(* asking for attention has put back what it changed (capture_mac.py,          *)
(* LiveMac.resume).                                                            *)
THEOREM MacComesBack == Spec => []MacIsPutBack
<1>1. IInv => MacIsPutBack
  BY DEF IInv, MacInv, WorkInv, Back1, MacIsPutBack
<1> QED BY <1>1, Inductive, PTL
=============================================================================
