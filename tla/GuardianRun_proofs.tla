------------------------- MODULE GuardianRun_proofs -------------------------
(***************************************************************************)
(* Proofs about GuardianRun.  The properties are not inductive: what a     *)
(* step writes depends on what the steps before it put into job and todo.  *)
(* IInv says, for every value of pc, what the item in hand stands for; the *)
(* theorems follow from it.  On top of it, LabelInv says what the journal  *)
(* remembers of the owner's corrections, whatever fails, and CopyInv how   *)
(* rows, copies and commands correspond as long as bodies can be read and  *)
(* the owner makes no copies.                                              *)
(***************************************************************************)
EXTENDS GuardianProperties, TLAPS

Issued(u) == u \in Uids /\ u < nextUid

(* The server: what was issued has a folder and a content, the rest has none. *)
MailboxInv ==
  /\ \A u \in live : Issued(u)
  /\ \A u \in Uids : u < nextUid => home[u] \in Folders /\ body[u] \in Contents
  /\ \A u \in Uids : u >= nextUid => home[u] = "none" /\ body[u] = Absent

(* The journal: no location is invented; a pending move is one that may be
   made and whose message is in the archive. *)
JournalInv ==
  /\ RowsNameTheirCopy
  /\ \A r \in Pending : /\ row[r].content \in archive
                        /\ Custody!Permitted(row[r].folder, Dest(row[r].action))

CommandInv ==
  \A m \in inflight : /\ Issued(m.uid)
                      /\ body[m.uid] \in archive
                      /\ Custody!Permitted(home[m.uid], m.dest)

(* The work list of a stage, and the stage while a run is on. *)
StageInv ==
  /\ pc # "idle" => stage # "none"
  /\ stage = "reconcile" => \A r \in todo : r \in Pending
  /\ stage \in Folders => \A u \in todo : Issued(u) /\ home[u] = stage

(* A fresh item: a copy of the folder at hand, on a permitted way. *)
FreshInv ==
  job.path \in {"auto", "known", "unlearnable", "learn"} =>
    /\ stage \in Folders
    /\ Issued(job.uid) /\ home[job.uid] = stage
    /\ Custody!Permitted(stage, Dest(job.action))
    /\ job.path # "auto" => stage \in Training /\ job.action \in {Learn(Label), Settled(Label)}
    /\ pc \in {"save", "upsert", "intent", "learn", "learned", "unlearned", "supersede",
               "move", "await", "resolve", "finalize"}
    /\ pc # "save" => Content \in archive
    /\ pc \notin {"save", "upsert"} =>
         /\ job.row \in Used
         /\ row[job.row].folder = stage /\ row[job.row].uid = job.uid
         /\ row[job.row].content = Content
         /\ Dest(row[job.row].action) = Dest(job.action)
    /\ pc \in {"intent", "learn", "learned", "unlearned"} => job.path # "auto"
    /\ pc \in {"learn", "learned"} => job.path = "learn"

(* A move that is made up for. *)
RetryInv ==
  job.path = "retry" =>
    /\ stage = "reconcile"
    /\ pc \in {"scan", "settle", "move", "await", "resolve", "finalize"}
    /\ job.row \in Pending /\ job.row \notin todo
    /\ row[job.row].action = job.action
    /\ \A u \in job.found : /\ Issued(u) /\ home[u] = row[job.row].folder
                            /\ body[u] = row[job.row].content
    /\ job.uid # 0 => /\ Issued(job.uid) /\ home[job.uid] = row[job.row].folder
                      /\ Content = row[job.row].content
    /\ pc \in {"move", "await", "resolve"} => job.uid # 0

(* Between two items there is none; a confirmed move has its new copy. *)
JobInv ==
  /\ pc \in {"idle", "loop"} => job = NoJob
  /\ pc \notin {"idle", "loop"} => job.path # "none"
  /\ pc \in {"scan", "settle"} => job.path = "retry"
  /\ pc = "settle" /\ job.uid = 0 => job.new # 0
  /\ pc \in {"save", "upsert"} => job.new = 0
  /\ pc = "finalize" => job.new # 0
  /\ job.new # 0 => /\ Issued(job.new) /\ home[job.new] = Dest(job.action)
                    /\ body[job.new] = row[job.row].content

IInv ==
  /\ TypeOK /\ MailboxInv /\ JournalInv /\ CommandInv /\ StageInv
  /\ FreshInv /\ RetryInv /\ JobInv

-----------------------------------------------------------------------------
LEMMA Bounds ==
  /\ MaxUid \in Nat /\ MaxRow \in Nat /\ MaxPerFolder \in Nat
  /\ MaxFaults \in Nat /\ MaxExternal \in Nat
  BY RunAssumption DEF RunAssumption

LEMMA ItemType ==
  ASSUME NEW r \in 0 .. MaxRow, NEW u \in 0 .. MaxUid, NEW a \in Actions,
         NEW p \in {"none", "auto", "known", "unlearnable", "learn", "retry"},
         NEW S \in SUBSET Uids
  PROVE  Item(r, u, a, p, S) \in Job
  BY Bounds DEF Item, Job

LEMMA EmptyType == NoRow \in Row /\ NoJob \in Job
<1>1. NoRow \in Row
  BY Bounds DEF Row, NoRow, Folders, Actions, Statuses
<1>2. 0 \in 0 .. MaxRow /\ 0 \in 0 .. MaxUid /\ "none" \in Actions
  BY Bounds DEF Actions
<1>3. QED
  BY <1>1, <1>2, ItemType DEF NoJob

LEMMA InitInv == Init => IInv
<1> SUFFICES ASSUME Init PROVE IInv
  OBVIOUS
<1> USE RunAssumption DEF RunAssumption, Init
<1>1. TypeOK
  <2>1. NoRow \in Row /\ NoJob \in Job
    BY EmptyType
  <2>2. /\ live \subseteq Uids /\ nextUid \in 1 .. MaxUid + 1
        /\ inflight \subseteq [uid : Uids, dest : {"Quarantine", "Inbox", "Review"}]
        /\ nextRow \in 1 .. MaxRow + 1 /\ todo \subseteq Nat
        /\ handled \in 0 .. MaxPerFolder
        /\ faults \in 0 .. MaxFaults /\ external \in 0 .. MaxExternal
    OBVIOUS
  <2>3. /\ home \in [Uids -> Folders \cup {"none"}]
        /\ body \in [Uids -> Contents \cup {Absent}]
        /\ row \in [RowIds -> Row]
        /\ bayes \in [Contents -> Labels \cup {"none"}]
    BY <2>1
  <2>4. QED
    BY <2>1, <2>2, <2>3 DEF TypeOK, MailboxType, RecordType, RunType, BudgetType
<1>2. MailboxInv
  BY DEF MailboxInv, Issued, Uids
<1>3. JournalInv
  BY DEF JournalInv, RowsNameTheirCopy, Pending, Used, RowIds
<1>4. CommandInv /\ StageInv
  BY DEF CommandInv, StageInv, Folders
<1>5. FreshInv /\ RetryInv /\ JobInv
  BY DEF FreshInv, RetryInv, JobInv, NoJob, Item
<1>6. QED
  BY <1>1, <1>2, <1>3, <1>4, <1>5 DEF IInv

LEMMA RowFields ==
  ASSUME TypeOK, NEW r \in RowIds
  PROVE  /\ row[r] \in Row
         /\ row[r].uid \in 0 .. MaxUid
         /\ row[r].folder \in Folders \cup {"none"}
         /\ row[r].content \in Contents \cup {Absent}
         /\ row[r].action \in Actions /\ row[r].status \in Statuses
         /\ row[r].feedback \in Labels \cup {""} /\ row[r].intent \in Labels \cup {""}
<1>1. row[r] \in Row
  BY DEF TypeOK, MailboxType, RecordType, RunType, BudgetType
<1>2. QED
  BY <1>1 DEF Row

LEMMA JobFields ==
  ASSUME TypeOK
  PROVE  /\ job.row \in 0 .. MaxRow /\ job.uid \in 0 .. MaxUid
         /\ job.action \in Actions
         /\ job.path \in {"none", "auto", "known", "unlearnable", "learn", "retry"}
         /\ job.mark \in 0 .. MaxUid + 1 /\ job.found \subseteq Uids
         /\ job.new \in 0 .. MaxUid
  BY DEF TypeOK, MailboxType, RecordType, RunType, BudgetType, Job

-----------------------------------------------------------------------------
(* What issued UIDs stand for never changes. *)
Grown ==
  /\ nextUid \in Nat /\ nextUid' \in Nat /\ nextUid' >= nextUid
  /\ \A u \in Uids : u < nextUid => home'[u] = home[u] /\ body'[u] = body[u]

LEMMA IssueGrows ==
  ASSUME IInv, NEW f \in Folders, NEW c \in Contents, NEW lost, Issue(f, c, lost)
  PROVE  /\ Grown /\ MailboxInv'
         /\ live' \subseteq Uids /\ nextUid' \in 1 .. MaxUid + 1
         /\ home' \in [Uids -> Folders \cup {"none"}]
         /\ body' \in [Uids -> Contents \cup {Absent}]
<1>0. /\ MaxUid \in Nat /\ nextUid \in 1 .. MaxUid + 1 /\ live \subseteq Uids
      /\ home \in [Uids -> Folders \cup {"none"}]
      /\ body \in [Uids -> Contents \cup {Absent}]
      /\ MailboxInv
  BY RunAssumption DEF RunAssumption, IInv, TypeOK, MailboxType, RecordType, RunType, BudgetType
<1>1. nextUid \in Uids /\ nextUid' = nextUid + 1
  BY <1>0 DEF Issue, Uids
<1>2. /\ home' \in [Uids -> Folders \cup {"none"}]
      /\ body' \in [Uids -> Contents \cup {Absent}]
  BY <1>0 DEF Issue
<1>3. live' \subseteq Uids /\ nextUid' \in 1 .. MaxUid + 1
  <2>1. live' \subseteq live \cup {nextUid}
    BY DEF Issue
  <2>2. nextUid' \in 1 .. MaxUid + 1
    BY <1>0, <1>1 DEF Uids
  <2>3. QED
    BY <1>0, <1>1, <2>1, <2>2
<1>4. Grown
  BY <1>0, <1>1 DEF Issue, Grown, Uids
<1>5. \A u \in live' : Issued(u)'
  BY <1>0, <1>1 DEF Issue, MailboxInv, Issued, Uids
<1>6. \A u \in Uids : u < nextUid' => home'[u] \in Folders /\ body'[u] \in Contents
  BY <1>0, <1>1 DEF Issue, MailboxInv, Uids
<1>7. \A u \in Uids : u >= nextUid' => home'[u] = "none" /\ body'[u] = Absent
  BY <1>0, <1>1 DEF Issue, MailboxInv, Uids
<1>8. MailboxInv'
  BY <1>5, <1>6, <1>7 DEF MailboxInv
<1>9. QED
  BY <1>2, <1>3, <1>4, <1>8

LEMMA SameMailbox ==
  ASSUME IInv, UNCHANGED mailbox
  PROVE  Grown /\ MailboxInv'
  BY RunAssumption DEF RunAssumption, IInv, TypeOK, MailboxType, RecordType, RunType, BudgetType, mailbox, Grown, MailboxInv, Issued

LEMMA GrownIssued ==
  ASSUME IInv, Grown, NEW u, Issued(u)
  PROVE  Issued(u)' /\ home'[u] = home[u] /\ body'[u] = body[u]
  BY DEF Issued, Grown, Uids

(* A mailbox that only grew leaves every part of the invariant alone. *)
LEMMA GrownJournal ==
  ASSUME IInv, Grown, UNCHANGED <<row, nextRow>>, archive \subseteq archive'
  PROVE  JournalInv'
<1>1. RowsNameTheirCopy'
  <2> SUFFICES ASSUME NEW r \in Used, row[r].uid # 0
               PROVE  /\ row[r].uid < nextUid'
                      /\ home'[row[r].uid] = row[r].folder
                      /\ \/ body'[row[r].uid] = row[r].content
                         \/ row[r].status = "blocked" /\ row[r].content = Absent
    BY DEF RowsNameTheirCopy, Used
  <2>1. row[r].uid < nextUid
    BY DEF IInv, JournalInv, RowsNameTheirCopy
  <2>a. TypeOK /\ r \in RowIds
    BY DEF IInv, Used
  <2>b. row[r].uid \in 0 .. MaxUid
    BY <2>a, RowFields
  <2>2. Issued(row[r].uid)
    BY <2>1, <2>b, Bounds DEF Issued, Uids
  <2>3. QED
    BY <2>2, GrownIssued DEF IInv, JournalInv, RowsNameTheirCopy, Issued
<1>2. QED
  BY <1>1 DEF IInv, JournalInv, Pending, Used

LEMMA GrownCommand ==
  ASSUME IInv, Grown, inflight' \subseteq inflight, archive \subseteq archive'
  PROVE  CommandInv'
  BY GrownIssued DEF IInv, CommandInv

LEMMA GrownStage ==
  ASSUME IInv, Grown, UNCHANGED <<row, nextRow, stage>>, todo' \subseteq todo,
         pc' # "idle" => pc # "idle"
  PROVE  StageInv'
  BY GrownIssued DEF IInv, StageInv, Pending, Used

LEMMA GrownJob ==
  ASSUME IInv, Grown, UNCHANGED <<row, nextRow, run>>, archive \subseteq archive'
  PROVE  FreshInv' /\ RetryInv' /\ JobInv'
<1> USE DEF run, IInv
<1>1. FreshInv'
  BY GrownIssued DEF FreshInv, Content, Used, Label
<1>2. RetryInv'
  BY GrownIssued DEF RetryInv, Content, Pending, Used
<1>3. JobInv'
  BY GrownIssued DEF JobInv
<1>4. QED
  BY <1>1, <1>2, <1>3

(* No item in hand. *)
LEMMA NoItem ==
  ASSUME job' = NoJob, pc' \in {"idle", "loop"}
  PROVE  FreshInv' /\ RetryInv' /\ JobInv'
  BY DEF NoJob, Item, FreshInv, RetryInv, JobInv

-----------------------------------------------------------------------------
(* Steps that leave all but the control alone. *)
Control == UNCHANGED <<mailbox, inflight, row, nextRow, archive, bayes>>

LEMMA ControlStep ==
  ASSUME IInv, Control
  PROVE  /\ Grown /\ MailboxType' /\ RecordType'
         /\ MailboxInv' /\ JournalInv' /\ CommandInv'
<1> USE DEF Control
<1>1. Grown /\ MailboxInv'
  BY SameMailbox
<1>2. MailboxType' /\ RecordType'
  BY DEF IInv, TypeOK, MailboxType, RecordType, mailbox
<1>3. JournalInv' /\ CommandInv'
  BY <1>1, GrownJournal, GrownCommand
<1>4. QED
  BY <1>1, <1>2, <1>3

LEMMA BudgetStep ==
  ASSUME BudgetType, Sound \/ Fault \/ Outside
  PROVE  BudgetType'
  BY Bounds DEF BudgetType, Sound, Fault, Outside

(* The run stops, or the item in hand is dropped. *)
LEMMA StopStep ==
  ASSUME IInv, Control, Stop, Sound \/ Fault
  PROVE  IInv'
<1>1. RunType'
  BY EmptyType, Bounds DEF Stop, RunType
<1>2. StageInv'
  BY DEF Stop, StageInv, Folders
<1>3. FreshInv' /\ RetryInv' /\ JobInv'
  BY NoItem DEF Stop
<1>4. BudgetType'
  BY BudgetStep DEF IInv, TypeOK
<1>5. QED
  BY ControlStep, <1>1, <1>2, <1>3, <1>4 DEF IInv, TypeOK

LEMMA SkipStep ==
  ASSUME IInv, Control, Sound \/ Fault, pc # "idle",
         pc' = "loop", job' = NoJob, todo' \subseteq todo, UNCHANGED <<stage, auto>>,
         handled' \in 0 .. MaxPerFolder
  PROVE  IInv'
<1>1. RunType'
  BY EmptyType DEF IInv, TypeOK, RunType
<1>2. StageInv'
  BY ControlStep, GrownStage DEF Control
<1>3. FreshInv' /\ RetryInv' /\ JobInv'
  BY NoItem
<1>4. BudgetType'
  BY BudgetStep DEF IInv, TypeOK
<1>5. QED
  BY ControlStep, <1>1, <1>2, <1>3, <1>4 DEF IInv, TypeOK

LEMMA DropStep ==
  ASSUME IInv, Control, Sound \/ Fault, pc # "idle", DropItem
  PROVE  IInv'
  BY SkipStep DEF DropItem, Keep, IInv, TypeOK, RunType

LEMMA RunCutShortInv == ASSUME IInv, RunCutShort PROVE IInv'
  BY StopStep DEF RunCutShort, Control

LEMMA EndRunInv == ASSUME IInv, EndRun PROVE IInv'
  BY StopStep DEF EndRun, Control

LEMMA StartRunInv == ASSUME IInv, StartRun PROVE IInv'
<1>1. Control
  BY DEF StartRun, Control
<1>2. RunType'
  <2>1. todo' \subseteq Nat
    BY Bounds DEF StartRun, Pending, Used, RowIds
  <2>2. handled' \in 0 .. MaxPerFolder
    BY Bounds DEF StartRun
  <2>3. auto' \in BOOLEAN
    <3>1. CASE Active
      BY <3>1 DEF StartRun, QualityGate
    <3>2. CASE ~ Active
      BY <3>2 DEF StartRun, QualityGate
    <3>3. QED
      BY <3>1, <3>2
  <2>4. QED
    BY <2>1, <2>2, <2>3, EmptyType DEF StartRun, RunType
<1>3. StageInv'
  BY DEF StartRun, StageInv, Folders, Pending, Used
<1>4. FreshInv' /\ RetryInv' /\ JobInv'
  BY NoItem DEF StartRun
<1>5. BudgetType'
  BY BudgetStep DEF IInv, TypeOK, StartRun
<1>6. QED
  BY <1>1, ControlStep, <1>2, <1>3, <1>4, <1>5 DEF IInv, TypeOK

(* The owner changes the mode between two runs. *)
LEMMA SwitchModeInv == ASSUME IInv, SwitchMode PROVE IInv'
<1>1. Control /\ UNCHANGED run /\ UNCHANGED <<row, nextRow, archive>>
  BY DEF SwitchMode, Control
<1>2. BudgetType'
  BY Bounds DEF SwitchMode, IInv, TypeOK, BudgetType
<1>3. StageInv' /\ FreshInv' /\ RetryInv' /\ JobInv'
  BY <1>1, ControlStep, GrownStage, GrownJob DEF run
<1>4. RunType'
  BY <1>1 DEF IInv, TypeOK, RunType, run
<1>5. QED
  BY <1>1, ControlStep, <1>2, <1>3, <1>4 DEF IInv, TypeOK

LEMMA EndStageInv == ASSUME IInv, EndStage PROVE IInv'
<1>1. Control
  BY DEF EndStage, Control
<1>2. /\ pc = "loop" /\ pc' = "loop" /\ job = NoJob /\ job' = NoJob
      /\ stage \in {"reconcile", "TrainSpam", "TrainHam", "Spam"}
  BY DEF EndStage, StageOver, IInv, TypeOK, RunType, StageInv, JobInv
<1>3. /\ stage' \in {"TrainSpam", "TrainHam", "Spam", "Inbox"}
      /\ todo' = In(stage')
  BY <1>2 DEF EndStage, StageAfter
<1>4. RunType'
  <2>1. todo' \subseteq Nat
    <3>1. live \subseteq Uids /\ Uids \subseteq Nat
      BY Bounds DEF IInv, TypeOK, MailboxType, Uids
    <3>2. QED
      BY <1>3, <3>1 DEF In
  <2>2. handled' \in 0 .. MaxPerFolder
    BY Bounds DEF EndStage
  <2>3. QED
    BY <1>2, <1>3, <2>1, <2>2, EmptyType DEF EndStage, RunType, IInv, TypeOK
<1>5. StageInv'
  BY <1>1, <1>2, <1>3 DEF IInv, MailboxInv, StageInv, In, Issued, Control, mailbox
<1>6. FreshInv' /\ RetryInv' /\ JobInv'
  BY <1>2, NoItem
<1>7. BudgetType'
  BY BudgetStep DEF IInv, TypeOK, EndStage
<1>8. QED
  BY <1>1, ControlStep, <1>4, <1>5, <1>6, <1>7 DEF IInv, TypeOK

LEMMA ReconcileDeadlineInv == ASSUME IInv, ReconcileDeadline PROVE IInv'
  BY SkipStep DEF ReconcileDeadline, Control, IInv, TypeOK, RunType, JobInv

LEMMA ReconcileSkipsInv ==
  ASSUME IInv, NEW r \in todo, ReconcileSkips(r) PROVE IInv'
  BY SkipStep DEF ReconcileSkips, ReconcileTakes, Control, IInv, TypeOK, RunType, JobInv

LEMMA ScanFailsInv == ASSUME IInv, ScanFails PROVE IInv'
<1>1. CASE \E r \in todo : ReconcileTakes(r) /\ UNCHANGED <<pc, job>>
  BY <1>1, SkipStep DEF ScanFails, ReconcileTakes, Control, IInv, TypeOK, RunType, JobInv
<1>2. CASE pc = "scan" /\ DropItem /\ Control
  BY <1>2, DropStep DEF ScanFails
<1>3. QED
  BY <1>1, <1>2 DEF ScanFails, Control

LEMMA PassesInv == ASSUME IInv, NEW u \in todo, Passes(u) PROVE IInv'
  BY SkipStep DEF Passes, Takes, Control, IInv, TypeOK, RunType, JobInv

LEMMA FetchFailsInv ==
  ASSUME IInv, NEW u \in todo, NEW due \in BOOLEAN, FetchFails(u, due) PROVE IInv'
<1>1. handled' \in 0 .. MaxPerFolder
  BY Bounds DEF FetchFails, Takes, IInv, TypeOK, RunType
<1>2. QED
  BY <1>1, SkipStep DEF FetchFails, Takes, Control, IInv, JobInv

LEMMA StoreFailsInv == ASSUME IInv, StoreFails PROVE IInv'
  BY DropStep DEF StoreFails, Control

-----------------------------------------------------------------------------
(* Picking an item *)

LEMMA ScanSourceInv ==
  ASSUME IInv, NEW r \in todo, ScanSource(r) PROVE IInv'
<1>1. /\ Control /\ stage = "reconcile" /\ UNCHANGED <<stage, handled, auto>>
      /\ todo' = todo \ {r} /\ pc = "loop" /\ pc' = "scan"
  BY DEF ScanSource, ReconcileTakes, Control
<1>2. job' = Item(r, 0, row[r].action, "retry", Matches(row[r].folder, row[r].content))
  BY DEF ScanSource
<1>3. /\ r \in Pending /\ r \in RowIds /\ r \in 0 .. MaxRow
      /\ row[r].action \in Actions
      /\ Matches(row[r].folder, row[r].content) \subseteq Uids
  <2>1. r \in Pending /\ r \in RowIds
    BY <1>1 DEF IInv, StageInv, Pending, Used
  <2>2. row[r].action \in Actions
    BY <2>1, RowFields DEF IInv
  <2>3. r \in 0 .. MaxRow
    BY <2>1, Bounds DEF RowIds
  <2>4. Matches(row[r].folder, row[r].content) \subseteq Uids
    BY DEF IInv, TypeOK, MailboxType, Matches, In
  <2>5. QED
    BY <2>1, <2>2, <2>3, <2>4
<1>4. /\ job'.row = r /\ job'.uid = 0 /\ job'.action = row[r].action
      /\ job'.path = "retry" /\ job'.new = 0
      /\ job'.found = Matches(row[r].folder, row[r].content)
  BY <1>2 DEF Item
<1>5. RunType'
  <2>1. job' \in Job
    BY <1>2, <1>3, ItemType, Bounds
  <2>2. QED
    BY <1>1, <2>1 DEF IInv, TypeOK, RunType
<1>6. StageInv'
  BY <1>1, ControlStep, GrownStage DEF Control
<1>7. FreshInv'
  BY <1>4 DEF FreshInv
<1>8. RetryInv'
  BY <1>1, <1>3, <1>4
  DEF RetryInv, Control, mailbox, Pending, Used, Matches, In, IInv, MailboxInv, Issued
<1>9. JobInv'
  BY <1>1, <1>4 DEF JobInv
<1>10. BudgetType'
  BY BudgetStep DEF IInv, TypeOK, ScanSource
<1>11. QED
  BY <1>1, ControlStep, <1>5, <1>6, <1>7, <1>8, <1>9, <1>10 DEF IInv, TypeOK

(* What TrainingTakes and FolderMoves have in common: a copy of the folder at
   hand is taken on a permitted way. *)
LEMMA TakeStep ==
  ASSUME IInv, Control, NEW u \in todo, Takes(u), u \in live, Sound,
         handled' = handled + 1, stage \in Folders,
         NEW path \in {"auto", "known", "unlearnable", "learn"}, NEW action \in Actions,
         job' = Item(0, u, action, path, {}),
         pc' = "save",
         Custody!Permitted(stage, Dest(action)),
         path # "auto" => stage \in Training /\ action \in {Learn(Label), Settled(Label)}
  PROVE  IInv'
<1>1. /\ pc = "loop" /\ UNCHANGED <<stage, auto>> /\ todo' \subseteq todo
      /\ handled' \in 0 .. MaxPerFolder
  BY Bounds DEF Takes, IInv, TypeOK, RunType
<1>2. /\ job'.row = 0 /\ job'.uid = u /\ job'.action = action
      /\ job'.path = path /\ job'.new = 0
  BY DEF Item
<1>3. Issued(u) /\ home[u] = stage
  BY DEF IInv, StageInv
<1>4. RunType'
  <2>1. u \in 0 .. MaxUid
    BY <1>3, Bounds DEF Issued, Uids
  <2>2. job' \in Job
    BY <2>1, ItemType, Bounds
  <2>3. QED
    BY <1>1, <2>2 DEF IInv, TypeOK, RunType
<1>5. StageInv'
  BY <1>1, ControlStep, GrownStage DEF Control
<1>6. FreshInv'
  BY <1>1, <1>2, <1>3 DEF FreshInv, Control, mailbox, Issued, Label
<1>7. RetryInv' /\ JobInv'
  BY <1>2 DEF RetryInv, JobInv
<1>8. BudgetType'
  BY BudgetStep DEF IInv, TypeOK
<1>9. QED
  BY ControlStep, <1>4, <1>5, <1>6, <1>7, <1>8 DEF IInv, TypeOK

LEMMA TrainingTakesInv ==
  ASSUME IInv, NEW u \in todo, TrainingTakes(u) PROVE IInv'
<1> DEFINE path == IF HasLearnedFeedback(body[u], Label) THEN "known"
                   ELSE IF body[u] \in Malformed THEN "unlearnable" ELSE "learn"
           action == IF path = "learn" THEN Learn(Label) ELSE Settled(Label)
<1>1. /\ stage \in Training /\ Takes(u) /\ u \in live /\ Control /\ Sound
      /\ handled' = handled + 1 /\ pc' = "save"
      /\ job' = Item(0, u, action, path, {})
  BY DEF TrainingTakes, Control
<1>2. path \in {"known", "unlearnable", "learn"}
  OBVIOUS
<1>3. action \in {Learn(Label), Settled(Label)}
  OBVIOUS
<1>4. action \in Actions /\ Custody!Permitted(stage, Dest(action)) /\ stage \in Folders
  BY <1>1, <1>3
  DEF Training, Folders, Label, Learn, Settled, Dest, Actions, Custody!Permitted
<1> HIDE DEF path, action
<1>5. QED
  BY <1>1, <1>2, <1>3, <1>4, TakeStep

LEMMA FolderMovesInv ==
  ASSUME IInv, NEW u \in todo, NEW due \in BOOLEAN, FolderMoves(u, due) PROVE IInv'
<1>1. PICK v \in Verdicts(body[u]) :
        /\ Decision(v) # "keep"
        /\ job' = Item(0, u, Decision(v), "auto", {})
  BY DEF FolderMoves
<1>2. /\ stage \in {"Spam", "Inbox"} /\ Takes(u) /\ u \in live /\ Control /\ Sound
      /\ handled' = handled + 1 /\ pc' = "save"
  BY DEF FolderMoves, FolderTakes, Control
<1>3. Decision(v) \in Actions /\ Custody!Permitted(stage, Dest(Decision(v)))
  BY <1>1, <1>2 DEF Decision, Dest, Actions, Custody!Permitted, Active, IInv, TypeOK, BudgetType
<1>4. stage \in Folders
  BY <1>2 DEF Folders
<1>5. QED
  BY <1>1, <1>2, <1>3, <1>4, TakeStep

-----------------------------------------------------------------------------
(* Writing one row of the journal *)

(* A row may be written if it names a copy of its content, or no location, and
   if a pending move in it is archived and permitted. *)
Sane(new) ==
  /\ new \in Row
  /\ new.uid # 0 =>
       /\ Issued(new.uid) /\ home[new.uid] = new.folder
       /\ \/ body[new.uid] = new.content
          \/ new.status = "blocked" /\ new.content = Absent
  /\ new.status \in {"pending_move", "move_ambiguous"} =>
       /\ new.content \in archive
       /\ Custody!Permitted(new.folder, Dest(new.action))

LEMMA AmendStep ==
  ASSUME IInv, NEW r \in RowIds, NEW new, Sane(new), Amend(r, new),
         nextRow' = nextRow \/ (r = nextRow /\ nextRow' = nextRow + 1),
         r < nextRow',
         UNCHANGED <<mailbox, archive>>, inflight' \subseteq inflight,
         bayes' \in [Contents -> Labels \cup {"none"}],
         stage' = stage, todo' \subseteq todo, stage = "reconcile" => r \notin todo,
         pc # "idle"
  PROVE  /\ Grown /\ MailboxType' /\ RecordType'
         /\ MailboxInv' /\ JournalInv' /\ CommandInv' /\ StageInv'
         /\ row'[r] = new /\ r \in Used'
         /\ \A q \in Used \ {r} : q \in Used' /\ row'[q] = row[q]
<1>1. Grown /\ MailboxInv'
  BY SameMailbox
<1>2. MailboxType'
  BY DEF IInv, TypeOK, MailboxType, mailbox
<1>3. /\ row \in [RowIds -> Row] /\ row' = [row EXCEPT ![r] = new] /\ new \in Row
      /\ nextRow \in 1 .. MaxRow + 1
  BY DEF IInv, TypeOK, RecordType, Amend, Sane
<1>4. /\ row' \in [RowIds -> Row] /\ row'[r] = new
      /\ \A q \in RowIds \ {r} : row'[q] = row[q]
  BY <1>3
<1>5. /\ nextRow' \in 1 .. MaxRow + 1 /\ Used' = Used \cup {r}
  BY <1>3, Bounds DEF Used, RowIds
<1>6. RecordType'
  BY <1>4, <1>5 DEF IInv, TypeOK, RecordType
<1>7. CommandInv'
  BY <1>1, GrownCommand
<1>8. RowsNameTheirCopy'
  <2> SUFFICES ASSUME NEW q \in Used', row'[q].uid # 0
               PROVE  /\ row'[q].uid < nextUid
                      /\ home[row'[q].uid] = row'[q].folder
                      /\ \/ body[row'[q].uid] = row'[q].content
                         \/ row'[q].status = "blocked" /\ row'[q].content = Absent
    BY DEF RowsNameTheirCopy, mailbox
  <2>1. CASE q = r
    BY <2>1, <1>4 DEF Sane, Issued
  <2>2. CASE q # r
    BY <2>2, <1>4, <1>5 DEF Used, IInv, JournalInv, RowsNameTheirCopy
  <2>3. QED
    BY <2>1, <2>2
<1>9. JournalInv'
  <2>1. ASSUME NEW q \in Pending'
        PROVE  /\ row'[q].content \in archive
               /\ Custody!Permitted(row'[q].folder, Dest(row'[q].action))
    <3>1. CASE q = r
      BY <3>1, <1>4 DEF Pending, Sane
    <3>2. CASE q # r
      BY <3>2, <1>4, <1>5 DEF Pending, Used, IInv, JournalInv
    <3>3. QED
      BY <3>1, <3>2
  <2>2. QED
    BY <1>8, <2>1 DEF JournalInv
<1>10. StageInv'
  BY <1>1, <1>4, <1>5, GrownIssued DEF IInv, StageInv, Pending, Used
<1>11. QED
  BY <1>1, <1>2, <1>4, <1>5, <1>6, <1>7, <1>9, <1>10 DEF Used

(* The row of the item in hand. *)
LEMMA ItemRow ==
  ASSUME IInv, pc \notin {"idle", "loop", "save", "upsert"}
  PROVE  /\ job.row \in Used /\ job.row \in RowIds /\ row[job.row] \in Row
         /\ stage = "reconcile" => job.row \notin todo
         /\ row[job.row].uid # 0 =>
              /\ Issued(row[job.row].uid)
              /\ home[row[job.row].uid] = row[job.row].folder
              /\ \/ body[row[job.row].uid] = row[job.row].content
                 \/ row[job.row].status = "blocked" /\ row[job.row].content = Absent
         /\ row[job.row].content \in archive
         /\ Custody!Permitted(row[job.row].folder, Dest(row[job.row].action))
         /\ Dest(row[job.row].action) = Dest(job.action)
<1>1. job.path \in {"auto", "known", "unlearnable", "learn", "retry"}
  BY JobFields DEF IInv, JobInv
<1>2. job.row \in Used /\ (stage = "reconcile" => job.row \notin todo)
  BY <1>1 DEF IInv, FreshInv, RetryInv, Pending, Folders
<1>3. job.row \in RowIds /\ row[job.row] \in Row
  BY <1>2, RowFields DEF Used, IInv
<1>4. row[job.row].uid # 0 =>
        /\ row[job.row].uid < nextUid
        /\ home[row[job.row].uid] = row[job.row].folder
        /\ \/ body[row[job.row].uid] = row[job.row].content
           \/ row[job.row].status = "blocked" /\ row[job.row].content = Absent
  BY <1>2 DEF IInv, JournalInv, RowsNameTheirCopy
<1>5. row[job.row].uid \in 0 .. MaxUid
  BY <1>3, RowFields DEF IInv
<1>6. row[job.row].uid # 0 => Issued(row[job.row].uid)
  BY <1>4, <1>5, Bounds DEF Issued, Uids
<1>7. /\ row[job.row].content \in archive
      /\ Custody!Permitted(row[job.row].folder, Dest(row[job.row].action))
      /\ Dest(row[job.row].action) = Dest(job.action)
  <2>1. CASE job.path = "retry"
    BY <2>1 DEF IInv, RetryInv, JournalInv
  <2>2. CASE job.path # "retry"
    BY <2>2, <1>1 DEF IInv, FreshInv
  <2>3. QED
    BY <2>1, <2>2
<1>8. QED
  BY <1>2, <1>3, <1>4, <1>6, <1>7

(* A row is written and the item dropped. *)
LEMMA AmendDrop ==
  ASSUME IInv, NEW r \in RowIds, NEW new, Sane(new), Amend(r, new),
         nextRow' = nextRow \/ (r = nextRow /\ nextRow' = nextRow + 1),
         r < nextRow',
         UNCHANGED <<mailbox, archive>>, inflight' \subseteq inflight,
         bayes' \in [Contents -> Labels \cup {"none"}],
         UNCHANGED <<stage, auto>>, todo' \subseteq todo, stage = "reconcile" => r \notin todo,
         pc # "idle", pc' = "loop", job' = NoJob, handled' \in 0 .. MaxPerFolder,
         Sound \/ Fault
  PROVE  IInv'
<1>1. RunType'
  BY EmptyType DEF IInv, TypeOK, RunType
<1>2. FreshInv' /\ RetryInv' /\ JobInv'
  BY NoItem
<1>3. BudgetType'
  BY BudgetStep DEF IInv, TypeOK
<1>4. QED
  BY AmendStep, <1>1, <1>2, <1>3 DEF IInv, TypeOK

(* A row of the item in hand whose status alone changes stays sane. *)
LEMMA SaneStatus ==
  ASSUME IInv, pc \notin {"idle", "loop", "save", "upsert"}, NEW s \in Statuses,
         row[job.row].status = "blocked" => row[job.row].content # Absent
  PROVE  Sane([row[job.row] EXCEPT !.status = s])
<1>1. [row[job.row] EXCEPT !.status = s] \in Row
  BY ItemRow DEF Row
<1>2. QED
  BY <1>1, ItemRow DEF Sane, Row

(* Archived contents are messages, never the fallback hash. *)
LEMMA ItemContent ==
  ASSUME IInv, pc \notin {"idle", "loop", "save", "upsert"}
  PROVE  row[job.row].content \in Contents /\ row[job.row].content # Absent
  BY ItemRow, RunAssumption DEF RunAssumption, IInv, TypeOK, RecordType

LEMMA LearnFailsInv == ASSUME IInv, LearnFails PROVE IInv'
<1> DEFINE new == [row[job.row] EXCEPT !.status = "error"]
<1>1. /\ pc = "learn" /\ DropItem /\ Fault /\ Amend(job.row, new)
      /\ UNCHANGED <<mailbox, inflight, nextRow, archive>>
  BY DEF LearnFails
<1>2. job.row \in RowIds /\ job.row < nextRow /\ (stage = "reconcile" => job.row \notin todo)
  BY <1>1, ItemRow DEF Used
<1>3. Sane(new)
  BY <1>1, SaneStatus, ItemContent DEF Statuses
<1>4. bayes' \in [Contents -> Labels \cup {"none"}]
  <2>1. bayes \in [Contents -> Labels \cup {"none"}] /\ Label \in Labels
    BY DEF IInv, TypeOK, RecordType, Label, Labels
  <2>2. bayes' = bayes \/ bayes' = [bayes EXCEPT ![Content] = Label]
    BY DEF LearnFails
  <2>3. QED
    BY <2>1, <2>2
<1>5. handled \in 0 .. MaxPerFolder
  BY DEF IInv, TypeOK, RunType
<1> HIDE DEF new
<1>6. QED
  BY <1>1, <1>2, <1>3, <1>4, <1>5, AmendDrop DEF DropItem, Keep

(* MarkMoveUncertain, after which the item is dropped. *)
LEMMA UncertainStep ==
  ASSUME IInv, pc \in {"await", "resolve"}, MarkMoveUncertain, DropItem, Sound \/ Fault,
         inflight' \subseteq inflight, UNCHANGED <<mailbox, nextRow, archive, bayes>>
  PROVE  IInv'
<1> DEFINE new == [row[job.row] EXCEPT !.status = "pending_move"]
<1>1. Amend(job.row, new)
  BY DEF MarkMoveUncertain
<1>2. job.row \in RowIds /\ job.row < nextRow /\ (stage = "reconcile" => job.row \notin todo)
  BY ItemRow DEF Used
<1>3. Sane(new)
  BY SaneStatus, ItemContent DEF Statuses
<1>4. bayes' \in [Contents -> Labels \cup {"none"}] /\ handled \in 0 .. MaxPerFolder
  BY DEF IInv, TypeOK, RecordType, RunType
<1> HIDE DEF new
<1>5. QED
  BY <1>1, <1>2, <1>3, <1>4, AmendDrop DEF DropItem, Keep

LEMMA ServerRefusesInv == ASSUME IInv, ServerRefuses PROVE IInv'
  BY UncertainStep DEF ServerRefuses

LEMMA ResolveFindsNoneInv == ASSUME IInv, ResolveFindsNone PROVE IInv'
  BY UncertainStep DEF ResolveFindsNone

LEMMA FinalizeMoveInv == ASSUME IInv, FinalizeMove PROVE IInv'
<1> DEFINE new == [row[job.row] EXCEPT !.folder = Dest(job.action), !.uid = job.new,
                                       !.status = Final(job.action)]
<1>1. /\ pc = "finalize" /\ DropItem /\ Sound
      /\ UNCHANGED <<mailbox, inflight, nextRow, archive, bayes>>
  BY DEF FinalizeMove
<1>2. CASE UNCHANGED row
  <2>1. Control
    BY <1>1, <1>2 DEF Control
  <2>2. QED
    BY <2>1, <1>1, DropStep
<1>3. CASE Amend(job.row, new)
  <2>1. job.row \in RowIds /\ job.row < nextRow /\ (stage = "reconcile" => job.row \notin todo)
    BY <1>1, ItemRow DEF Used
  <2>2. /\ Dest(job.action) \in Folders
        /\ Final(job.action) \in {"quarantined", "rescued", "review"}
        /\ job.new \in 0 .. MaxUid
    BY JobFields DEF Dest, Final, Folders, IInv
  <2>3. new \in Row
    BY <1>1, <2>2, ItemRow DEF Row, Statuses
  <2>4. /\ new.uid = job.new /\ new.folder = Dest(job.action)
        /\ new.status = Final(job.action) /\ new.content = row[job.row].content
    BY <1>1, ItemRow DEF Row
  <2>5. Issued(job.new) /\ home[job.new] = Dest(job.action) /\ body[job.new] = row[job.row].content
    BY <1>1 DEF IInv, JobInv
  <2> HIDE DEF new
  <2>6. Sane(new)
    BY <2>2, <2>3, <2>4, <2>5 DEF Sane
  <2>7. bayes' \in [Contents -> Labels \cup {"none"}] /\ handled \in 0 .. MaxPerFolder
    BY <1>1 DEF IInv, TypeOK, RecordType, RunType
  <2>8. QED
    BY <1>1, <1>3, <2>1, <2>6, <2>7, AmendDrop DEF DropItem, Keep
<1>4. QED
  BY <1>2, <1>3 DEF FinalizeMove

-----------------------------------------------------------------------------
(* Steps that go on with a fresh item *)

Fresh == {"auto", "known", "unlearnable", "learn"}

(* The row of a fresh item is written; it still names the item. *)
LEMMA AmendFresh ==
  ASSUME IInv, job.path \in Fresh, pc \notin {"idle", "loop", "save", "upsert"},
         NEW new, Sane(new), Amend(job.row, new),
         new.folder = row[job.row].folder, new.uid = row[job.row].uid,
         new.content = row[job.row].content, Dest(new.action) = Dest(job.action),
         UNCHANGED <<mailbox, inflight, nextRow, archive, bayes, job>>, Keep, Sound,
         pc' \in {"learn", "unlearned", "supersede"},
         pc' # "supersede" => job.path # "auto",
         pc' = "learn" => job.path = "learn"
  PROVE  IInv'
<1>1. job.row \in RowIds /\ job.row < nextRow /\ (stage = "reconcile" => job.row \notin todo)
  BY ItemRow DEF Used
<1>2. /\ bayes' \in [Contents -> Labels \cup {"none"}]
      /\ UNCHANGED <<stage, todo>> /\ nextRow' = nextRow /\ job.row < nextRow'
  BY <1>1 DEF IInv, TypeOK, RecordType, Keep
<1>3. /\ Grown /\ MailboxType' /\ RecordType'
      /\ MailboxInv' /\ JournalInv' /\ CommandInv' /\ StageInv'
      /\ row'[job.row] = new /\ job.row \in Used'
  BY <1>1, <1>2, AmendStep
<1>4. RunType' /\ BudgetType'
  BY BudgetStep DEF IInv, TypeOK, RunType, Keep
<1>5. FreshInv'
  BY <1>3 DEF IInv, FreshInv, Fresh, Keep, mailbox, Content, Label, Issued
<1>6. RetryInv' /\ JobInv'
  BY <1>3 DEF IInv, RetryInv, JobInv, Fresh, mailbox, Issued
<1>7. QED
  BY <1>3, <1>4, <1>5, <1>6 DEF IInv, TypeOK

(* What is known of a fresh item that was saved and journalled. *)
LEMMA FreshItem ==
  ASSUME IInv, pc \in {"intent", "learn", "learned", "unlearned", "supersede"}
  PROVE  /\ job.path \in Fresh /\ job.path \in {"auto", "known", "unlearnable", "learn"}
         /\ stage \in Folders
         /\ row[job.row].uid = job.uid /\ row[job.row].folder = stage
         /\ row[job.row].content = Content
         /\ pc # "supersede" => stage \in Training /\ job.path # "auto"
                                /\ job.action \in {Learn(Label), Settled(Label)}
         /\ pc \in {"learn", "learned"} => job.path = "learn"
<1>1. job.path \in Fresh /\ job.path \in {"auto", "known", "unlearnable", "learn"}
  BY JobFields DEF IInv, JobInv, RetryInv, Fresh
<1>2. QED
  BY <1>1 DEF IInv, FreshInv

LEMMA MarkIntentInv == ASSUME IInv, MarkIntent PROVE IInv'
<1> DEFINE new == [row[job.row] EXCEPT !.intent = Label]
<1>1. /\ pc = "intent" /\ Amend(job.row, new) /\ Keep /\ Sound
      /\ UNCHANGED <<mailbox, inflight, nextRow, archive, bayes, job>>
      /\ pc' = IF job.path = "known" THEN "supersede"
               ELSE IF job.path = "learn" THEN "learn" ELSE "unlearned"
  BY DEF MarkIntent
<1>2. new \in Row
  BY <1>1, ItemRow DEF Row, Label, Labels
<1>3. /\ new.folder = row[job.row].folder /\ new.uid = row[job.row].uid
      /\ new.content = row[job.row].content /\ new.action = row[job.row].action
      /\ new.status = row[job.row].status
  BY <1>1, ItemRow DEF Row
<1> HIDE DEF new
<1>4. Sane(new)
  BY <1>1, <1>2, <1>3, ItemRow DEF Sane
<1>5. /\ job.path \in Fresh /\ job.path # "auto"
      /\ Dest(new.action) = Dest(job.action)
  BY <1>1, <1>3, FreshItem, ItemRow
<1>6. /\ pc' \in {"learn", "unlearned", "supersede"}
      /\ pc' = "learn" => job.path = "learn"
  BY <1>1
<1>7. QED
  BY <1>1, <1>3, <1>4, <1>5, <1>6, AmendFresh

LEMMA MarkLearnedInv == ASSUME IInv, MarkLearned PROVE IInv'
<1> DEFINE new == [row[job.row] EXCEPT !.status = "pending_move", !.feedback = Label,
                                       !.action = Learn(Label)]
<1>1. /\ pc = "learned" /\ pc' = "supersede" /\ Amend(job.row, new) /\ Keep /\ Sound
      /\ UNCHANGED <<mailbox, inflight, nextRow, archive, bayes, job>>
  BY DEF MarkLearned
<1>2. new \in Row
  <2>1. row[job.row] \in Row
    BY <1>1, ItemRow
  <2>2. Label \in {"spam", "ham"} /\ Learn(Label) \in {"learn_spam", "learn_ham"}
    BY DEF Label, Learn
  <2>3. /\ "pending_move" \in Statuses /\ Label \in Labels \cup {""}
        /\ Learn(Label) \in Actions
    BY <2>2 DEF Labels, Actions, Statuses
  <2>4. QED
    BY <2>1, <2>3 DEF Row
<1>3. /\ new.folder = row[job.row].folder /\ new.uid = row[job.row].uid
      /\ new.content = row[job.row].content /\ new.action = Learn(Label)
      /\ new.status = "pending_move"
  BY <1>1, ItemRow DEF Row
<1>4. Dest(Learn(Label)) = Dest(job.action)
  BY <1>1, FreshItem DEF Dest, Learn, Settled, Label
<1> HIDE DEF new
<1>5. Sane(new)
  BY <1>1, <1>2, <1>3, <1>4, ItemRow, ItemContent DEF Sane
<1>6. QED
  BY <1>1, <1>3, <1>4, <1>5, FreshItem, AmendFresh

LEMMA FinishUnlearnedInv == ASSUME IInv, FinishUnlearned PROVE IInv'
<1> DEFINE new == [row[job.row] EXCEPT !.uid = job.uid, !.status = "pending_move"]
<1>1. /\ pc = "unlearned" /\ pc' = "supersede" /\ Amend(job.row, new) /\ Keep /\ Sound
      /\ UNCHANGED <<mailbox, inflight, nextRow, archive, bayes, job>>
  BY DEF FinishUnlearned, UpdateLocation
<1>2. new \in Row
  BY <1>1, ItemRow, JobFields DEF Row, Statuses, IInv
<1>3. /\ new.folder = row[job.row].folder /\ new.uid = job.uid
      /\ new.content = row[job.row].content /\ new.action = row[job.row].action
      /\ new.status = "pending_move"
  BY <1>1, ItemRow DEF Row
<1> HIDE DEF new
<1>4. job.uid = row[job.row].uid /\ job.path \in Fresh /\ job.path # "auto"
  BY <1>1, FreshItem
<1>5. Sane(new)
  BY <1>1, <1>2, <1>3, <1>4, ItemRow, ItemContent DEF Sane
<1>6. QED
  BY <1>1, <1>3, <1>4, <1>5, ItemRow, AmendFresh

LEMMA SupersedeInv == ASSUME IInv, SupersedeOtherCopies PROVE IInv'
<1> DEFINE other(r) == r \in Used \ {job.row} /\ row[r].content = row[job.row].content
<1>1. /\ pc = "supersede" /\ pc' = "move" /\ Keep /\ Sound
      /\ UNCHANGED <<mailbox, inflight, nextRow, archive, bayes, job>>
      /\ row' = [r \in RowIds |-> IF other(r) THEN [row[r] EXCEPT !.status = "superseded"]
                                             ELSE row[r]]
  BY DEF SupersedeOtherCopies
<1>2. /\ Grown /\ MailboxInv' /\ MailboxType'
  BY <1>1, SameMailbox DEF IInv, TypeOK, MailboxType, mailbox
<1>3. ASSUME NEW r \in RowIds
      PROVE  /\ row'[r] \in Row
             /\ row'[r].folder = row[r].folder /\ row'[r].uid = row[r].uid
             /\ row'[r].content = row[r].content /\ row'[r].action = row[r].action
             /\ \/ row'[r] = row[r]
                \/ row'[r].status = "superseded" /\ row[r].content # Absent
  <2>1. row[r] \in Row
    BY RowFields DEF IInv
  <2>2. CASE other(r)
    <3>1. row'[r] = [row[r] EXCEPT !.status = "superseded"]
      BY <1>1, <2>2
    <3>2. row[r].content # Absent
      BY <1>1, <2>2, ItemContent
    <3>3. "superseded" \in Statuses
      BY DEF Statuses
    <3>4. QED
      BY <2>1, <3>1, <3>2, <3>3 DEF Row
  <2>3. CASE ~ other(r)
    BY <1>1, <2>1, <2>3
  <2>4. QED
    BY <2>2, <2>3
<1>4. row'[job.row] = row[job.row] /\ job.row \in RowIds
  BY <1>1, ItemRow
<1> HIDE DEF other
<1>5. RecordType'
  <2>1. row' \in [RowIds -> Row]
    BY <1>1, <1>3
  <2>2. QED
    BY <1>1, <2>1 DEF IInv, TypeOK, RecordType
<1>6. RunType' /\ BudgetType'
  BY <1>1, BudgetStep DEF IInv, TypeOK, RunType, Keep
<1>7. JournalInv'
  <2>1. Used' = Used /\ Used \subseteq RowIds
    BY <1>1 DEF Used
  <2>2. RowsNameTheirCopy'
    <3> SUFFICES ASSUME NEW r \in Used', row'[r].uid # 0
                 PROVE  /\ row'[r].uid < nextUid
                        /\ home[row'[r].uid] = row'[r].folder
                        /\ \/ body[row'[r].uid] = row'[r].content
                           \/ row'[r].status = "blocked" /\ row'[r].content = Absent
      BY <1>1 DEF RowsNameTheirCopy, mailbox
    <3>1. r \in Used /\ r \in RowIds
      BY <2>1
    <3>2. /\ row'[r].folder = row[r].folder /\ row'[r].uid = row[r].uid
          /\ row'[r].content = row[r].content
          /\ row'[r] = row[r] \/ row[r].content # Absent
      BY <3>1, <1>3
    <3>3. /\ row[r].uid < nextUid /\ home[row[r].uid] = row[r].folder
          /\ \/ body[row[r].uid] = row[r].content
             \/ row[r].status = "blocked" /\ row[r].content = Absent
      BY <3>1, <3>2 DEF RowsNameTheirCopy, IInv, JournalInv
    <3>4. QED
      BY <3>2, <3>3
  <2>3. ASSUME NEW r \in Pending'
        PROVE  /\ row'[r].content \in archive
               /\ Custody!Permitted(row'[r].folder, Dest(row'[r].action))
    <3>1. /\ r \in Used /\ r \in RowIds
          /\ row'[r].status \in {"pending_move", "move_ambiguous"}
      BY <2>1 DEF Pending
    <3>2. row'[r] = row[r]
      BY <3>1, <1>3
    <3>3. r \in Pending
      BY <3>1, <3>2 DEF Pending
    <3>4. QED
      BY <3>2, <3>3 DEF IInv, JournalInv
  <2>4. QED
    BY <1>1, <2>2, <2>3 DEF JournalInv
<1>8. CommandInv'
  BY <1>1, <1>2, GrownCommand
<1>9. /\ stage \in Folders /\ job.path \in Fresh
  BY <1>1, FreshItem
<1>10. StageInv'
  BY <1>1, <1>9 DEF IInv, StageInv, Keep, Folders, mailbox, Issued
<1>11. FreshInv'
  BY <1>1, <1>4, <1>9 DEF IInv, FreshInv, Fresh, Keep, mailbox, Content, Label, Issued, Used
<1>12. RetryInv' /\ JobInv'
  BY <1>1, <1>4, <1>9 DEF IInv, RetryInv, JobInv, Fresh, mailbox, Issued
<1>13. QED
  BY <1>2, <1>5, <1>6, <1>7, <1>8, <1>10, <1>11, <1>12 DEF IInv, TypeOK

(* Upsert writes one row, the one of the location or a new one. *)
LEMMA UpsertStep ==
  ASSUME IInv, NEW f \in Folders, NEW u, Issued(u), home[u] = f, RoomFor(f, u),
         NEW content \in Contents \cup {Absent}, NEW action \in Actions,
         NEW status \in Statuses, Upsert(f, u, content, action, status),
         content = body[u] \/ (status = "blocked" /\ content = Absent),
         status \in {"pending_move", "move_ambiguous"} =>
           content \in archive /\ Custody!Permitted(f, Dest(action))
  PROVE  \E new : /\ UpsertId(f, u) \in RowIds
                  /\ Sane(new) /\ Amend(UpsertId(f, u), new)
                  /\ \/ nextRow' = nextRow
                     \/ UpsertId(f, u) = nextRow /\ nextRow' = nextRow + 1
                  /\ UpsertId(f, u) < nextRow'
                  /\ new.folder = f /\ new.uid = u /\ new.content = content
                  /\ new.action = action /\ new.status = status
<1> DEFINE r == UpsertId(f, u)
           new == [content |-> content, folder |-> f, uid |-> u,
                   action |-> action, status |-> status,
                   feedback |-> row[r].feedback, intent |-> row[r].intent]
<1>1. nextRow \in Nat /\ RowsAt(f, u) \subseteq Used
  BY Bounds DEF IInv, TypeOK, RecordType, RowsAt
<1>2. r \in RowIds /\ (r < nextRow \/ r = nextRow)
  <2>1. CASE RowsAt(f, u) # {}
    BY <1>1, <2>1 DEF UpsertId, Used
  <2>2. CASE RowsAt(f, u) = {}
    BY <1>1, <2>2, Bounds DEF UpsertId, RoomFor, RowIds, IInv, TypeOK, RecordType
  <2>3. QED
    BY <2>1, <2>2
<1>3. Amend(r, new) /\ nextRow' = IF r = nextRow THEN nextRow + 1 ELSE nextRow
  BY DEF Upsert
<1>4. u \in 0 .. MaxUid
  BY Bounds DEF Issued, Uids
<1>5. row[r].feedback \in Labels \cup {""} /\ row[r].intent \in Labels \cup {""}
  BY <1>2, RowFields DEF IInv
<1>6. new \in Row
  BY <1>4, <1>5 DEF Row
<1>7. Sane(new)
  BY <1>6 DEF Sane
<1>8. /\ nextRow' = nextRow \/ (r = nextRow /\ nextRow' = nextRow + 1)
      /\ r < nextRow'
  BY <1>1, <1>2, <1>3
<1>9. /\ new.folder = f /\ new.uid = u /\ new.content = content
      /\ new.action = action /\ new.status = status
  OBVIOUS
<1> HIDE DEF new, r
<1>10. r \in RowIds /\ Sane(new) /\ Amend(r, new)
  BY <1>2, <1>3, <1>7
<1>11. QED
  BY <1>8, <1>9, <1>10 DEF r

LEMMA UpsertPendingInv == ASSUME IInv, UpsertPending PROVE IInv'
<1> DEFINE r == UpsertId(stage, job.uid)
           status == IF job.path \in {"auto", "known"} THEN "pending_move" ELSE "pending_learn"
<1>1. /\ pc = "upsert" /\ RoomFor(stage, job.uid) /\ Keep /\ Sound
      /\ Upsert(stage, job.uid, Content, job.action, status)
      /\ job' = [job EXCEPT !.row = r]
      /\ pc' = IF job.path = "auto" THEN "move" ELSE "intent"
      /\ UNCHANGED <<mailbox, inflight, archive, bayes>>
  BY DEF UpsertPending
<1>2. job.path \in Fresh /\ job.path \in {"auto", "known", "unlearnable", "learn"}
  BY <1>1, JobFields DEF IInv, JobInv, RetryInv, Fresh
<1>3. /\ stage \in Folders /\ Issued(job.uid) /\ home[job.uid] = stage
      /\ Custody!Permitted(stage, Dest(job.action)) /\ Content \in archive
  BY <1>1, <1>2 DEF IInv, FreshInv
<1>4. /\ Content \in Contents \cup {Absent} /\ job.action \in Actions
      /\ status \in Statuses /\ Content = body[job.uid]
  BY <1>3, JobFields DEF IInv, TypeOK, RecordType, Content, Statuses
<1> HIDE DEF status
<1>5. PICK new : /\ r \in RowIds
                 /\ Sane(new) /\ Amend(r, new)
                 /\ nextRow' = nextRow \/ (r = nextRow /\ nextRow' = nextRow + 1)
                 /\ r < nextRow'
                 /\ new.folder = stage /\ new.uid = job.uid /\ new.content = Content
                 /\ new.action = job.action
  BY <1>1, <1>3, <1>4, UpsertStep
<1> HIDE DEF r
<1>6. /\ bayes' \in [Contents -> Labels \cup {"none"}] /\ stage # "reconcile"
      /\ UNCHANGED <<stage, todo>>
  BY <1>1, <1>3 DEF IInv, TypeOK, RecordType, Keep, Folders
<1>7. /\ Grown /\ MailboxType' /\ RecordType'
      /\ MailboxInv' /\ JournalInv' /\ CommandInv' /\ StageInv'
      /\ row'[r] = new /\ r \in Used'
  BY <1>1, <1>5, <1>6, AmendStep
<1>8. job' \in Job
  <2>1. job \in Job /\ r \in 0 .. MaxRow
    BY <1>5, Bounds DEF RowIds, IInv, TypeOK, RunType
  <2>2. QED
    BY <1>1, <2>1 DEF Job
<1>9. /\ job'.row = r /\ job'.uid = job.uid /\ job'.action = job.action
      /\ job'.path = job.path /\ job'.new = job.new
  BY <1>1 DEF IInv, TypeOK, RunType, Job
<1>10. RunType' /\ BudgetType'
  BY <1>1, <1>8, BudgetStep DEF IInv, TypeOK, RunType, Keep
<1>11. FreshInv'
  BY <1>1, <1>3, <1>5, <1>7, <1>9 DEF IInv, FreshInv, Keep, mailbox, Content, Label, Issued
<1>12. RetryInv'
  BY <1>2, <1>9 DEF RetryInv, Fresh
<1>13. JobInv'
  BY <1>1, <1>2, <1>7, <1>9 DEF IInv, JobInv, FreshInv, mailbox, Issued
<1>14. QED
  BY <1>7, <1>10, <1>11, <1>12, <1>13 DEF IInv, TypeOK

LEMMA FolderKeepsInv ==
  ASSUME IInv, NEW u \in todo, NEW due \in BOOLEAN, FolderKeeps(u, due) PROVE IInv'
<1>1. PICK v \in Verdicts(body[u]) :
        Upsert(stage, u, body[u], "keep",
               IF v = "error" THEN "error" ELSE IF Active THEN "kept" ELSE "observed")
  BY DEF FolderKeeps
<1> DEFINE status == IF v = "error" THEN "error" ELSE IF Active THEN "kept" ELSE "observed"
           r == UpsertId(stage, u)
<1>2. /\ stage \in {"Spam", "Inbox"} /\ Takes(u) /\ RoomFor(stage, u)
      /\ handled' = handled + 1 /\ Sound /\ UNCHANGED <<mailbox, inflight, archive, bayes, pc, job>>
  BY DEF FolderKeeps, FolderTakes
<1>3. stage \in Folders /\ stage # "reconcile" /\ Issued(u) /\ home[u] = stage
  BY <1>2 DEF Folders, IInv, StageInv
<1>4. /\ body[u] \in Contents \cup {Absent} /\ "keep" \in Actions
      /\ status \in Statuses /\ status \notin {"pending_move", "move_ambiguous"}
  BY <1>3 DEF Issued, IInv, TypeOK, MailboxType, Actions, Statuses
<1>5. Upsert(stage, u, body[u], "keep", status)
  BY <1>1
<1> HIDE DEF status
<1>6. PICK new : /\ r \in RowIds
                 /\ Sane(new) /\ Amend(r, new)
                 /\ nextRow' = nextRow \/ (r = nextRow /\ nextRow' = nextRow + 1)
                 /\ r < nextRow'
  BY <1>2, <1>3, <1>4, <1>5, UpsertStep
<1> HIDE DEF r
<1>7. /\ pc = "loop" /\ pc' = "loop" /\ job' = NoJob /\ todo' \subseteq todo
      /\ UNCHANGED <<stage, auto>> /\ handled' \in 0 .. MaxPerFolder
      /\ bayes' \in [Contents -> Labels \cup {"none"}]
  BY <1>2, Bounds DEF Takes, IInv, TypeOK, RunType, RecordType, JobInv
<1>8. QED
  BY <1>2, <1>3, <1>6, <1>7, AmendDrop

LEMMA TrainingBlockedInv ==
  ASSUME IInv, NEW u \in todo, TrainingBlocked(u) PROVE IInv'
<1> DEFINE r == UpsertId(stage, u)
<1>1. /\ stage \in Training /\ Takes(u) /\ RoomFor(stage, u)
      /\ handled' = handled + 1 /\ Fault /\ UNCHANGED <<mailbox, inflight, archive, bayes, pc, job>>
      /\ Upsert(stage, u, Absent, "keep", "blocked")
  BY DEF TrainingBlocked
<1>2. stage \in Folders /\ stage # "reconcile" /\ Issued(u) /\ home[u] = stage
  BY <1>1 DEF Training, Folders, IInv, StageInv
<1>3. Absent \in Contents \cup {Absent} /\ "keep" \in Actions /\ "blocked" \in Statuses
  BY DEF Actions, Statuses
<1>4. PICK new : /\ r \in RowIds
                 /\ Sane(new) /\ Amend(r, new)
                 /\ nextRow' = nextRow \/ (r = nextRow /\ nextRow' = nextRow + 1)
                 /\ r < nextRow'
  BY <1>1, <1>2, <1>3, UpsertStep
<1> HIDE DEF r
<1>5. /\ pc = "loop" /\ pc' = "loop" /\ job' = NoJob /\ todo' \subseteq todo
      /\ UNCHANGED <<stage, auto>> /\ handled' \in 0 .. MaxPerFolder
      /\ bayes' \in [Contents -> Labels \cup {"none"}]
  BY <1>1, Bounds DEF Takes, IInv, TypeOK, RunType, RecordType, JobInv
<1>6. QED
  BY <1>1, <1>2, <1>4, <1>5, AmendDrop

-----------------------------------------------------------------------------
(* Resumed moves *)

LEMMA ScanDecidesInv == ASSUME IInv, ScanDecides PROVE IInv'
<1>1. /\ pc = "scan" /\ Sound /\ UNCHANGED <<mailbox, inflight, nextRow, archive, bayes>>
  BY DEF ScanDecides
<1>2. job.path = "retry"
  BY <1>1 DEF IInv, JobInv
<1>3. ASSUME NEW u \in Uids, OnlySource(u) \/ OnlyDestination(u), pc' = "settle",
             job' = IF OnlySource(u) THEN [job EXCEPT !.uid = u] ELSE [job EXCEPT !.new = u],
             UNCHANGED row, Keep
      PROVE  IInv'
  <2>1. Control
    BY <1>1, <1>3 DEF Control
  <2>2. u \in 0 .. MaxUid /\ u # 0
    BY Bounds DEF Uids
  <2>3. job \in Job
    BY DEF IInv, TypeOK, RunType
  <2>4. /\ job' \in Job /\ job'.row = job.row /\ job'.action = job.action
        /\ job'.path = "retry" /\ job'.found = job.found
    BY <1>2, <1>3, <2>2, <2>3 DEF Job
  <2>5. RunType' /\ BudgetType'
    BY <1>1, <1>3, <2>4, BudgetStep DEF IInv, TypeOK, RunType, Keep
  <2>6. StageInv'
    BY <1>1, <1>3, <2>1, ControlStep, GrownStage DEF Control, Keep
  <2>7. FreshInv'
    BY <2>4 DEF FreshInv
  <2>8. CASE OnlySource(u)
    <3>1. job'.uid = u /\ job'.new = job.new
      BY <1>3, <2>3, <2>8 DEF Job
    <3>2. /\ Issued(u) /\ home[u] = row[job.row].folder /\ body[u] = row[job.row].content
      BY <1>2, <2>8 DEF OnlySource, IInv, RetryInv
    <3>3. RetryInv'
      BY <1>1, <1>2, <1>3, <2>4, <3>1, <3>2
      DEF IInv, RetryInv, Keep, mailbox, Content, Issued, Pending, Used
    <3>4. JobInv'
      BY <1>1, <1>2, <1>3, <2>2, <2>4, <3>1 DEF IInv, JobInv, mailbox, Issued
    <3>5. QED
      BY <2>1, ControlStep, <2>5, <2>6, <2>7, <3>3, <3>4 DEF IInv, TypeOK
  <2>9. CASE ~ OnlySource(u)
    <3>1. job'.uid = job.uid /\ job'.new = u /\ Scanned = {u}
      BY <1>3, <2>3, <2>9 DEF Job, OnlyDestination
    <3>2. /\ Issued(u) /\ home[u] = Dest(job.action) /\ body[u] = row[job.row].content
      BY <3>1 DEF Scanned, Matches, In, IInv, MailboxInv
    <3>3. RetryInv'
      BY <1>1, <1>2, <1>3, <2>4, <3>1
      DEF IInv, RetryInv, Keep, mailbox, Content, Issued, Pending, Used
    <3>4. JobInv'
      BY <1>1, <1>2, <1>3, <2>2, <2>4, <3>1, <3>2 DEF IInv, JobInv, mailbox, Issued
    <3>5. QED
      BY <2>1, ControlStep, <2>5, <2>6, <2>7, <3>3, <3>4 DEF IInv, TypeOK
  <2>10. QED
    BY <2>8, <2>9
<1>4. ASSUME UpdateLocation(job.row, 0, "move_ambiguous"), DropItem
      PROVE  IInv'
  <2> DEFINE new == [row[job.row] EXCEPT !.uid = 0, !.status = "move_ambiguous"]
  <2>1. job.row \in RowIds /\ job.row < nextRow /\ (stage = "reconcile" => job.row \notin todo)
    BY <1>1, ItemRow DEF Used
  <2>2. new \in Row
    <3>1. row[job.row] \in Row
      BY <1>1, ItemRow
    <3>2. 0 \in 0 .. MaxUid /\ "move_ambiguous" \in Statuses
      BY Bounds DEF Statuses
    <3>3. QED
      BY <3>1, <3>2 DEF Row
  <2>3. /\ new.uid = 0 /\ new.folder = row[job.row].folder
        /\ new.content = row[job.row].content /\ new.action = row[job.row].action
    BY <1>1, ItemRow DEF Row
  <2>4. Amend(job.row, new)
    BY <1>4 DEF UpdateLocation
  <2> HIDE DEF new
  <2>5. Sane(new)
    BY <1>1, <2>2, <2>3, ItemRow DEF Sane
  <2>6. bayes' \in [Contents -> Labels \cup {"none"}] /\ handled \in 0 .. MaxPerFolder
    BY <1>1 DEF IInv, TypeOK, RecordType, RunType
  <2>7. QED
    BY <1>1, <1>4, <2>1, <2>4, <2>5, <2>6, AmendDrop DEF DropItem, Keep
<1>5. QED
  BY <1>3, <1>4 DEF ScanDecides

LEMMA SettleSourceInv == ASSUME IInv, SettleSource PROVE IInv'
<1> DEFINE new == [row[job.row] EXCEPT !.uid = job.uid, !.status = "pending_move"]
<1>1. /\ pc = "settle" /\ job.uid # 0 /\ Sound
      /\ UNCHANGED <<mailbox, inflight, nextRow, archive, bayes>>
  BY DEF SettleSource
<1>2. CASE DropItem /\ UNCHANGED row
  BY <1>1, <1>2, DropStep DEF Control
<1>3. CASE Amend(job.row, new) /\ pc' = "move" /\ UNCHANGED job /\ Keep
  <2>1. job.row \in RowIds /\ job.row < nextRow /\ (stage = "reconcile" => job.row \notin todo)
    BY <1>1, ItemRow DEF Used
  <2>2. job.path = "retry"
    BY <1>1 DEF IInv, JobInv
  <2>3. /\ Issued(job.uid) /\ home[job.uid] = row[job.row].folder
        /\ body[job.uid] = row[job.row].content
    BY <1>1, <2>2 DEF IInv, RetryInv, Content
  <2>4. new \in Row
    <3>1. row[job.row] \in Row
      BY <1>1, ItemRow
    <3>2. job.uid \in 0 .. MaxUid /\ "pending_move" \in Statuses
      BY JobFields DEF IInv, Statuses
    <3>3. QED
      BY <3>1, <3>2 DEF Row
  <2>5. /\ new.uid = job.uid /\ new.folder = row[job.row].folder
        /\ new.content = row[job.row].content /\ new.action = row[job.row].action
        /\ new.status = "pending_move"
    BY <1>1, ItemRow DEF Row
  <2> HIDE DEF new
  <2>6. Sane(new)
    BY <1>1, <2>3, <2>4, <2>5, ItemRow DEF Sane
  <2>7. /\ bayes' \in [Contents -> Labels \cup {"none"}] /\ UNCHANGED <<stage, todo>>
        /\ nextRow' = nextRow /\ job.row < nextRow'
    BY <1>1, <1>3, <2>1 DEF IInv, TypeOK, RecordType, Keep
  <2>8. /\ Grown /\ MailboxType' /\ RecordType'
        /\ MailboxInv' /\ JournalInv' /\ CommandInv' /\ StageInv'
        /\ row'[job.row] = new /\ job.row \in Used'
    BY <1>1, <1>3, <2>1, <2>6, <2>7, AmendStep
  <2>9. RunType' /\ BudgetType'
    BY <1>1, <1>3, BudgetStep DEF IInv, TypeOK, RunType, Keep
  <2>10. FreshInv'
    BY <1>3, <2>2 DEF FreshInv
  <2>11. RetryInv'
    BY <1>1, <1>3, <2>2, <2>3, <2>5, <2>8
    DEF IInv, RetryInv, Keep, mailbox, Content, Issued, Pending
  <2>12. JobInv'
    BY <1>1, <1>3, <2>2, <2>5, <2>8 DEF IInv, JobInv, mailbox, Issued
  <2>13. QED
    BY <2>8, <2>9, <2>10, <2>11, <2>12 DEF IInv, TypeOK
<1>4. QED
  BY <1>2, <1>3 DEF SettleSource, UpdateLocation

(* Steps that only move the control of the item in hand on. *)
LEMMA AdvanceStep ==
  ASSUME IInv, Grown, UNCHANGED <<row, nextRow, job>>, Keep, archive \subseteq archive',
         pc \notin {"idle", "loop"},
         pc' \in {"upsert", "learned", "unlearned", "await", "resolve", "finalize"},
         pc' = "upsert" => pc = "save" /\ Content \in archive',
         pc' \in {"learned", "unlearned"} => pc = "learn",
         pc' \in {"await", "resolve"} => pc \in {"move", "await"},
         pc' = "finalize" => pc = "settle" /\ job.new # 0
  PROVE  StageInv' /\ FreshInv' /\ RetryInv' /\ JobInv'
<1>1. StageInv'
  BY GrownStage DEF Keep
<1>2. FreshInv'
  <2> SUFFICES ASSUME job.path \in {"auto", "known", "unlearnable", "learn"}
               PROVE  FreshInv'
    BY DEF FreshInv
  <2>1. /\ Issued(job.uid) /\ Issued(job.uid)' /\ home'[job.uid] = home[job.uid]
        /\ body'[job.uid] = body[job.uid]
    BY GrownIssued DEF IInv, FreshInv
  <2>2. QED
    BY <2>1 DEF IInv, FreshInv, JobInv, Keep, Content, Used, Label
<1>3. RetryInv'
  <2> SUFFICES ASSUME job.path = "retry"
               PROVE  RetryInv'
    BY DEF RetryInv
  <2>1. \A u \in job.found \cup {job.uid} : Issued(u) =>
          Issued(u)' /\ home'[u] = home[u] /\ body'[u] = body[u]
    BY GrownIssued
  <2>2. QED
    BY <2>1 DEF IInv, RetryInv, Keep, Content, Pending, Used
<1>4. JobInv'
  BY GrownIssued DEF IInv, JobInv
<1>5. QED
  BY <1>1, <1>2, <1>3, <1>4

LEMMA SettleDestinationInv == ASSUME IInv, SettleDestination PROVE IInv'
<1>1. /\ pc = "settle" /\ job.new # 0 /\ Sound /\ Control
  BY DEF SettleDestination, Control
<1>2. CASE DropItem
  BY <1>1, <1>2, DropStep
<1>3. CASE pc' = "finalize" /\ UNCHANGED job /\ Keep
  <2>1. StageInv' /\ FreshInv' /\ RetryInv' /\ JobInv'
    BY <1>1, <1>3, ControlStep, AdvanceStep DEF Control
  <2>2. RunType' /\ BudgetType'
    BY <1>1, <1>3, BudgetStep DEF IInv, TypeOK, RunType, Keep
  <2>3. QED
    BY <1>1, ControlStep, <2>1, <2>2 DEF IInv, TypeOK
<1>4. QED
  BY <1>2, <1>3 DEF SettleDestination

-----------------------------------------------------------------------------
(* The archive, Rspamd and the commands of the server *)

LEMMA SaveArchiveInv == ASSUME IInv, SaveArchive PROVE IInv'
<1>1. /\ pc = "save" /\ pc' = "upsert" /\ Keep /\ Sound
      /\ archive' = archive \cup {Content}
      /\ UNCHANGED <<mailbox, inflight, row, nextRow, bayes, job>>
  BY DEF SaveArchive
<1>2. Issued(job.uid) /\ Content \in Contents
  BY <1>1, JobFields DEF IInv, JobInv, RetryInv, FreshInv, MailboxInv, Issued, Content
<1>3. Grown /\ MailboxInv'
  BY <1>1, SameMailbox
<1>4. StageInv' /\ FreshInv' /\ RetryInv' /\ JobInv'
  BY <1>1, <1>3, AdvanceStep
<1>5. JournalInv' /\ CommandInv'
  BY <1>1, <1>3, GrownJournal, GrownCommand
<1>6. MailboxType' /\ RecordType'
  BY <1>1, <1>2 DEF IInv, TypeOK, MailboxType, RecordType, mailbox
<1>7. RunType' /\ BudgetType'
  BY <1>1, BudgetStep DEF IInv, TypeOK, RunType, Keep
<1>8. QED
  BY <1>3, <1>4, <1>5, <1>6, <1>7 DEF IInv, TypeOK

LEMMA RspamdLearnsInv == ASSUME IInv, RspamdLearns PROVE IInv'
<1>1. /\ pc = "learn" /\ pc' \in {"learned", "unlearned"} /\ Keep /\ Sound
      /\ bayes' = bayes \/ bayes' = [bayes EXCEPT ![Content] = Label]
      /\ UNCHANGED <<mailbox, inflight, row, nextRow, archive, job>>
  BY DEF RspamdLearns
<1>2. bayes' \in [Contents -> Labels \cup {"none"}]
  <2>1. bayes \in [Contents -> Labels \cup {"none"}] /\ Label \in Labels
    BY DEF IInv, TypeOK, RecordType, Label, Labels
  <2>2. QED
    BY <1>1, <2>1
<1>3. Grown /\ MailboxInv'
  BY <1>1, SameMailbox
<1>4. StageInv' /\ FreshInv' /\ RetryInv' /\ JobInv'
  BY <1>1, <1>3, AdvanceStep
<1>5. JournalInv' /\ CommandInv'
  BY <1>1, <1>3, GrownJournal, GrownCommand
<1>6. MailboxType' /\ RecordType'
  BY <1>1, <1>2 DEF IInv, TypeOK, MailboxType, RecordType, mailbox
<1>7. RunType' /\ BudgetType'
  BY <1>1, BudgetStep DEF IInv, TypeOK, RunType, Keep
<1>8. QED
  BY <1>3, <1>4, <1>5, <1>6, <1>7 DEF IInv, TypeOK

LEMMA SendMoveInv == ASSUME IInv, SendMove PROVE IInv'
<1>1. /\ pc = "move" /\ pc' = "await" /\ Keep /\ Sound
      /\ inflight' = inflight \cup {Command} /\ job' = [job EXCEPT !.mark = nextUid]
      /\ UNCHANGED <<mailbox, row, nextRow, archive, bayes>>
  BY DEF SendMove
<1>2. /\ Command.uid = job.uid /\ Command.dest = Dest(job.action)
      /\ Dest(job.action) \in {"Quarantine", "Inbox", "Review"}
  BY DEF Command, Dest
<1>3. /\ Issued(job.uid) /\ Content \in archive
      /\ Custody!Permitted(home[job.uid], Dest(job.action))
  <2>1. CASE job.path = "retry"
    <3>1. /\ Issued(job.uid) /\ home[job.uid] = row[job.row].folder
          /\ Content = row[job.row].content /\ row[job.row].action = job.action
          /\ job.row \in Pending
      BY <1>1, <2>1 DEF IInv, RetryInv
    <3>2. QED
      BY <3>1 DEF IInv, JournalInv
  <2>2. CASE job.path # "retry"
    <3>1. job.path \in {"auto", "known", "unlearnable", "learn"}
      BY <1>1, <2>2, JobFields DEF IInv, JobInv
    <3>2. QED
      BY <1>1, <3>1 DEF IInv, FreshInv
  <2>3. QED
    BY <2>1, <2>2
<1>4. job \in Job /\ nextUid \in 0 .. MaxUid + 1
  BY Bounds DEF IInv, TypeOK, MailboxType, RunType
<1>5. /\ job' \in Job /\ job'.row = job.row /\ job'.uid = job.uid /\ job'.new = job.new
      /\ job'.action = job.action /\ job'.path = job.path /\ job'.found = job.found
  BY <1>1, <1>4 DEF Job
<1>6. Grown /\ MailboxInv'
  BY <1>1, SameMailbox
<1>7. JournalInv'
  BY <1>1, <1>6, GrownJournal
<1>8. CommandInv'
  BY <1>1, <1>2, <1>3 DEF IInv, CommandInv, mailbox, Issued, Content
<1>9. MailboxType' /\ RecordType'
  <2>1. Command \in [uid : Uids, dest : {"Quarantine", "Inbox", "Review"}]
    BY <1>2, <1>3 DEF Command, Issued
  <2>2. QED
    BY <1>1, <2>1 DEF IInv, TypeOK, MailboxType, RecordType, mailbox
<1>10. RunType' /\ BudgetType'
  BY <1>1, <1>5, BudgetStep DEF IInv, TypeOK, RunType, Keep
<1>11. StageInv'
  BY <1>1, <1>6, GrownStage DEF Keep
<1>12. FreshInv'
  BY <1>1, <1>5 DEF IInv, FreshInv, Keep, mailbox, Content, Label, Issued, Used
<1>13. RetryInv'
  BY <1>1, <1>5 DEF IInv, RetryInv, Keep, mailbox, Content, Issued, Pending, Used
<1>14. JobInv'
  BY <1>1, <1>5 DEF IInv, JobInv, mailbox, Issued
<1>15. QED
  BY <1>6, <1>7, <1>8, <1>9, <1>10, <1>11, <1>12, <1>13, <1>14 DEF IInv, TypeOK

(* A command is dropped or turns out to have no effect. *)
LEMMA CommandGone ==
  ASSUME IInv, inflight' \subseteq inflight, Sound, Keep, UNCHANGED job,
         UNCHANGED <<mailbox, row, nextRow, archive, bayes>>,
         pc' = pc \/ (pc = "await" /\ pc' = "resolve")
  PROVE  IInv'
<1>1. Grown /\ MailboxInv'
  BY SameMailbox
<1>2. StageInv' /\ FreshInv' /\ RetryInv' /\ JobInv'
  <2>1. CASE pc' = pc
    <3>1. FreshInv' /\ RetryInv' /\ JobInv'
      BY <1>1, <2>1, GrownJob DEF run, Keep
    <3>2. QED
      BY <1>1, <2>1, <3>1, GrownStage DEF Keep
  <2>2. CASE pc = "await" /\ pc' = "resolve"
    BY <1>1, <2>2, AdvanceStep
  <2>3. QED
    BY <2>1, <2>2
<1>3. JournalInv' /\ CommandInv'
  BY <1>1, GrownJournal, GrownCommand
<1>4. MailboxType' /\ RecordType'
  BY DEF IInv, TypeOK, MailboxType, RecordType, mailbox
<1>5. RunType' /\ BudgetType'
  BY BudgetStep DEF IInv, TypeOK, RunType, Keep
<1>6. QED
  BY <1>1, <1>2, <1>3, <1>4, <1>5 DEF IInv, TypeOK

LEMMA ServerMovesNothingInv ==
  ASSUME IInv, NEW m \in inflight, ServerMovesNothing(m) PROVE IInv'
  BY CommandGone DEF ServerMovesNothing, Awaited

LEMMA ServerDiscardsInv ==
  ASSUME IInv, NEW m \in inflight, ServerDiscards(m) PROVE IInv'
  BY CommandGone DEF ServerDiscards, run, Keep

LEMMA ServerMovesInv ==
  ASSUME IInv, NEW m \in inflight, ServerMoves(m) PROVE IInv'
<1>1. /\ Issue(m.dest, body[m.uid], {m.uid}) /\ inflight' = inflight \ {m} /\ Keep /\ Sound
      /\ UNCHANGED <<row, nextRow, archive, bayes>>
  BY DEF ServerMoves
<1>2. /\ Issued(m.uid) /\ m.dest \in Folders /\ body[m.uid] \in Contents
  <2>1. Issued(m.uid)
    BY DEF IInv, CommandInv
  <2>2. m.dest \in Folders
    BY DEF IInv, TypeOK, RecordType, Folders
  <2>3. QED
    BY <2>1, <2>2 DEF IInv, MailboxInv, Issued
<1>3. /\ Grown /\ MailboxInv' /\ MailboxType'
  BY <1>1, <1>2, IssueGrows DEF MailboxType
<1>4. JournalInv' /\ CommandInv' /\ StageInv'
  <2>1. pc' # "idle" => pc # "idle"
    BY DEF ServerMoves, Awaited
  <2>2. QED
    BY <1>1, <1>3, <2>1, GrownJournal, GrownCommand, GrownStage DEF Keep
<1>5. RecordType' /\ BudgetType'
  BY <1>1, BudgetStep DEF IInv, TypeOK, RecordType
<1>6. CASE UNCHANGED <<pc, job>>
  <2>1. FreshInv' /\ RetryInv' /\ JobInv' /\ RunType'
    BY <1>1, <1>3, <1>6, GrownJob DEF run, Keep, IInv, TypeOK, RunType
  <2>2. QED
    BY <1>3, <1>4, <1>5, <2>1 DEF IInv, TypeOK
<1>7. CASE Awaited(m) /\ pc' = "resolve" /\ UNCHANGED job
  <2>1. FreshInv' /\ RetryInv' /\ JobInv'
    BY <1>1, <1>3, <1>7, AdvanceStep DEF Awaited
  <2>2. RunType'
    BY <1>1, <1>7 DEF Keep, IInv, TypeOK, RunType
  <2>3. QED
    BY <1>3, <1>4, <1>5, <2>1, <2>2 DEF IInv, TypeOK
<1>8. CASE Awaited(m) /\ pc' = "finalize" /\ job' = [job EXCEPT !.new = nextUid]
  <2>1. pc = "await" /\ m.uid = job.uid /\ m.dest = Dest(job.action)
    BY <1>8 DEF Awaited, Command
  <2>2. job \in Job /\ nextUid \in Uids /\ nextUid \in 0 .. MaxUid /\ nextUid # 0
    BY <1>1, Bounds DEF Issue, IInv, TypeOK, MailboxType, RunType, Uids
  <2>3. /\ job' \in Job /\ job'.row = job.row /\ job'.uid = job.uid /\ job'.new = nextUid
        /\ job'.action = job.action /\ job'.path = job.path /\ job'.found = job.found
    BY <1>8, <2>2 DEF Job
  <2>4. /\ home'[nextUid] = Dest(job.action) /\ body'[nextUid] = Content /\ nextUid < nextUid'
    <3>1. home \in [Uids -> Folders \cup {"none"}] /\ body \in [Uids -> Contents \cup {Absent}]
      BY DEF IInv, TypeOK, MailboxType
    <3>2. /\ home' = [home EXCEPT ![nextUid] = m.dest]
          /\ body' = [body EXCEPT ![nextUid] = body[m.uid]] /\ nextUid' = nextUid + 1
      BY <1>1 DEF Issue
    <3>3. home'[nextUid] = m.dest /\ body'[nextUid] = body[m.uid]
      BY <2>2, <3>1, <3>2
    <3>4. nextUid < nextUid'
      BY <2>2, <3>2 DEF Uids
    <3>5. QED
      BY <2>1, <3>3, <3>4 DEF Content
  <2>5. \A u \in job.found \cup {job.uid} : Issued(u) =>
          Issued(u)' /\ home'[u] = home[u] /\ body'[u] = body[u]
    BY <1>3, GrownIssued
  <2>6. RunType'
    BY <1>1, <1>8, <2>3 DEF Keep, IInv, TypeOK, RunType
  <2>7. FreshInv'
    BY <1>1, <1>8, <2>1, <2>3, <2>5 DEF IInv, FreshInv, Keep, Content, Used, Label
  <2>8. RetryInv'
    BY <1>1, <1>8, <2>1, <2>3, <2>5 DEF IInv, RetryInv, Keep, Content, Pending, Used
  <2>9. Content = row[job.row].content /\ job.path # "none"
    <3>1. CASE job.path = "retry"
      BY <2>1, <3>1 DEF IInv, RetryInv
    <3>2. CASE job.path # "retry"
      BY <2>1, <3>2, JobFields DEF IInv, FreshInv, JobInv
    <3>3. QED
      BY <3>1, <3>2
  <2>10. JobInv'
    BY <1>1, <1>8, <2>2, <2>3, <2>4, <2>9 DEF JobInv, Issued
  <2>11. QED
    BY <1>3, <1>4, <1>5, <2>6, <2>7, <2>8, <2>10 DEF IInv, TypeOK
<1>9. QED
  BY <1>6, <1>7, <1>8 DEF ServerMoves

LEMMA ResolveFindsInv ==
  ASSUME IInv, NEW u \in Uids, ResolveFinds(u) PROVE IInv'
<1>1. /\ pc = "resolve" /\ pc' = "finalize" /\ Keep /\ Sound /\ Control
      /\ Candidates = {u} /\ job' = [job EXCEPT !.new = u]
  BY DEF ResolveFinds, Control
<1>2. job \in Job /\ u \in 0 .. MaxUid /\ u # 0
  BY Bounds DEF IInv, TypeOK, RunType, Uids
<1>3. /\ job' \in Job /\ job'.row = job.row /\ job'.uid = job.uid /\ job'.new = u
      /\ job'.action = job.action /\ job'.path = job.path /\ job'.found = job.found
  BY <1>1, <1>2 DEF Job
<1>4. /\ Issued(u) /\ home[u] = Dest(job.action) /\ body[u] = Content
  BY <1>1 DEF Candidates, Matches, In, IInv, MailboxInv
<1>5. Content = row[job.row].content /\ job.path # "none"
  <2>1. CASE job.path = "retry"
    BY <1>1, <2>1 DEF IInv, RetryInv
  <2>2. CASE job.path # "retry"
    BY <1>1, <2>2, JobFields DEF IInv, FreshInv, JobInv
  <2>3. QED
    BY <2>1, <2>2
<1>6. RunType' /\ BudgetType'
  BY <1>1, <1>3, BudgetStep DEF IInv, TypeOK, RunType, Keep
<1>7. StageInv'
  BY <1>1, ControlStep, GrownStage DEF Control, Keep
<1>8. FreshInv'
  BY <1>1, <1>3 DEF IInv, FreshInv, Control, Keep, mailbox, Content, Label, Issued, Used
<1>9. RetryInv'
  BY <1>1, <1>3 DEF IInv, RetryInv, Control, Keep, mailbox, Content, Issued, Pending, Used
<1>10. JobInv'
  BY <1>1, <1>2, <1>3, <1>4, <1>5 DEF JobInv, Control, mailbox, Issued
<1>11. QED
  BY <1>1, ControlStep, <1>6, <1>7, <1>8, <1>9, <1>10 DEF IInv, TypeOK

-----------------------------------------------------------------------------
(* The owner, new mail, and the next-state relation *)

LEMMA IssueOutside ==
  ASSUME IInv, Outside, NEW f \in Folders, NEW c \in Contents, NEW lost, Issue(f, c, lost)
  PROVE  IInv'
<1>1. UNCHANGED <<inflight, row, nextRow, archive, bayes, run>>
  BY DEF Outside
<1>2. Grown /\ MailboxInv' /\ MailboxType'
  BY IssueGrows DEF MailboxType
<1>3. JournalInv' /\ CommandInv'
  BY <1>1, <1>2, GrownJournal, GrownCommand
<1>4. StageInv' /\ FreshInv' /\ RetryInv' /\ JobInv'
  BY <1>1, <1>2, GrownStage, GrownJob DEF run
<1>5. RecordType' /\ RunType' /\ BudgetType'
  BY <1>1, BudgetStep DEF IInv, TypeOK, RecordType, RunType, run
<1>6. QED
  BY <1>2, <1>3, <1>4, <1>5 DEF IInv, TypeOK

LEMMA OwnerDeletesInv ==
  ASSUME IInv, NEW u \in live, OwnerDeletes(u) PROVE IInv'
<1>1. /\ UNCHANGED <<inflight, row, nextRow, archive, bayes, run>>
      /\ live' \subseteq live /\ UNCHANGED <<home, body, nextUid>> /\ Outside
  BY DEF Outside, OwnerDeletes
<1>2. /\ Grown /\ MailboxInv' /\ MailboxType'
  BY <1>1, Bounds DEF IInv, TypeOK, MailboxType, MailboxInv, Grown, Issued
<1>3. JournalInv' /\ CommandInv'
  BY <1>1, <1>2, GrownJournal, GrownCommand
<1>4. StageInv' /\ FreshInv' /\ RetryInv' /\ JobInv'
  BY <1>1, <1>2, GrownStage, GrownJob DEF run
<1>5. RecordType' /\ RunType' /\ BudgetType'
  BY <1>1, BudgetStep DEF IInv, TypeOK, RecordType, RunType, run
<1>6. QED
  BY <1>2, <1>3, <1>4, <1>5 DEF IInv, TypeOK

LEMMA EnvironmentInv == ASSUME IInv, Environment PROVE IInv'
<1>1. ASSUME NEW c \in Contents, NEW f \in {"Inbox", "Spam"}, Deliver(c, f) PROVE IInv'
  BY <1>1, IssueOutside DEF Deliver, Folders
<1>2. ASSUME NEW u \in live, NEW f \in Folders, OwnerMoves(u, f) \/ OwnerCopies(u, f)
      PROVE  IInv'
  <2>1. body[u] \in Contents
    BY DEF IInv, MailboxInv, Issued
  <2>2. QED
    BY <1>2, <2>1, IssueOutside DEF OwnerMoves, OwnerCopies
<1>3. QED
  BY <1>1, <1>2, OwnerDeletesInv DEF Environment

LEMMA NextInv == IInv /\ [Next]_vars => IInv'
<1> SUFFICES ASSUME IInv, [Next]_vars PROVE IInv'
  OBVIOUS
<1>1. CASE Environment
  BY <1>1, EnvironmentInv
<1>2. CASE StartRun \/ EndStage \/ EndRun \/ SwitchMode
  BY <1>2, StartRunInv, EndStageInv, EndRunInv, SwitchModeInv
<1>3. CASE Reconcile
  BY <1>3, ReconcileSkipsInv, ScanSourceInv, ScanDecidesInv, SettleSourceInv,
     SettleDestinationInv DEF Reconcile
<1>4. CASE Pick
  BY <1>4, PassesInv, TrainingTakesInv, FetchFailsInv, FolderMovesInv, FolderKeepsInv DEF Pick
<1>5. CASE Write
  BY <1>5, SaveArchiveInv, UpsertPendingInv, MarkIntentInv, RspamdLearnsInv, MarkLearnedInv,
     FinishUnlearnedInv, SupersedeInv, FinalizeMoveInv DEF Write
<1>6. CASE SendMove
  BY <1>6, SendMoveInv
<1>7. CASE Resolve
  BY <1>7, ResolveFindsNoneInv, ResolveFindsInv DEF Resolve
<1>8. CASE Server
  BY <1>8, ServerMovesInv, ServerMovesNothingInv DEF Server
<1>9. CASE Trouble
  BY <1>9, RunCutShortInv, ReconcileDeadlineInv, ScanFailsInv, LearnFailsInv, StoreFailsInv,
     ServerRefusesInv, TrainingBlockedInv, ServerDiscardsInv DEF Trouble
<1>10. CASE UNCHANGED vars
  <2>1. /\ UNCHANGED mailbox /\ UNCHANGED <<inflight, row, nextRow, archive, bayes, run>>
        /\ UNCHANGED <<faults, external, mode>>
    BY <1>10 DEF vars, mailbox, run
  <2>2. Control /\ Sound
    BY <2>1 DEF Control, Sound
  <2>3. StageInv' /\ FreshInv' /\ RetryInv' /\ JobInv'
    BY <2>1, <2>2, ControlStep, GrownStage, GrownJob DEF run
  <2>4. RunType' /\ BudgetType'
    BY <2>1 DEF IInv, TypeOK, RunType, BudgetType, run
  <2>5. QED
    BY <2>2, ControlStep, <2>3, <2>4 DEF IInv, TypeOK
<1>11. QED
  BY <1>1, <1>2, <1>3, <1>4, <1>5, <1>6, <1>7, <1>8, <1>9, <1>10 DEF Next

-----------------------------------------------------------------------------
(* The theorems *)

(* The strengthened invariant holds in every reachable state of a run. *)
THEOREM Inductive == Spec => []IInv
  BY InitInv, NextInv, PTL DEF Spec

(* Every variable keeps its type, and no folder gets more than
   MaxMessagesPerFolder attempts in a run (the counter of processFolder and
   processTraining). *)
THEOREM TypeCorrect == Spec => []TypeOK
<1>1. IInv => TypeOK
  BY DEF IInv
<1>2. QED
  BY Inductive, <1>1, PTL

(* A journal row that names a location names the copy it was written for,
   whatever happened to the mailbox between the write and the crash, and
   whichever of COPYUID, the UID search and reconciliation settled the move. *)
THEOREM RowsAreTrue == Spec => []RowsNameTheirCopy
<1>1. IInv => RowsNameTheirCopy
  BY DEF IInv, JournalInv
<1>2. QED
  BY Inductive, <1>1, PTL

(* No MOVE is sent and none is left to be resumed for a message without an
   encrypted copy (preparePending precedes every movePending). *)
THEOREM ArchiveFirst == Spec => []ArchivedBeforeMove
<1>1. IInv => ArchivedBeforeMove
  BY DEF IInv, JournalInv, CommandInv, ArchivedBeforeMove
<1>2. QED
  BY Inductive, <1>1, PTL

-----------------------------------------------------------------------------
(* Refinement *)

(* What the custody specification sees. *)
Seen == <<Custody!mail, archive, external>>

(* Every step of a run is one of the custody specification or unseen by it. *)
LEMMA CustodyStep == IInv /\ [Next]_vars => [Custody!Next]_Seen
<1> SUFFICES ASSUME IInv, [Next]_vars PROVE [Custody!Next]_Seen
  OBVIOUS
<1> USE DEF Seen, Custody!mail
<1>1. ASSUME Outside PROVE Custody!Owner
  BY <1>1 DEF Outside, Custody!Owner
<1>2. CASE Environment
  BY <1>1, <1>2 DEF Environment, Deliver, OwnerMoves, OwnerCopies, OwnerDeletes, Custody!Next
<1>3. CASE StartRun \/ EndStage \/ EndRun \/ SwitchMode
  BY <1>3 DEF StartRun, EndStage, EndRun, SwitchMode, Sound, mailbox, Custody!Next, Custody!Owner
<1>4. CASE Reconcile
  BY <1>4 DEF Reconcile, ReconcileSkips, ScanSource, ReconcileTakes, ScanDecides,
     SettleSource, SettleDestination, Sound, mailbox
<1>5. CASE Pick
  BY <1>5 DEF Pick, Passes, TrainingTakes, FetchFails, FolderMoves, FolderKeeps, FolderTakes,
     Sound, Fault, mailbox
<1>6. CASE SaveArchive
  <2>1. /\ archive' = archive \cup {body[job.uid]} /\ UNCHANGED <<mailbox, external>>
        /\ pc = "save"
    BY <1>6 DEF SaveArchive, Sound, Content
  <2>2. Issued(job.uid)
    BY <2>1, JobFields DEF IInv, JobInv, RetryInv, FreshInv
  <2>3. Custody!Save
    BY <2>1, <2>2 DEF Custody!Save, Issued, Uids, mailbox
  <2>4. QED
    BY <2>3 DEF Custody!Next
<1>7. CASE Write /\ ~ SaveArchive
  BY <1>7 DEF Write, UpsertPending, MarkIntent, RspamdLearns, MarkLearned,
     FinishUnlearned, SupersedeOtherCopies, FinalizeMove, Sound, mailbox
<1>8. CASE SendMove \/ Resolve
  BY <1>8 DEF SendMove, Resolve, ResolveFinds, ResolveFindsNone, Sound, Fault, mailbox
<1>9. ASSUME NEW m \in inflight, ServerMoves(m) PROVE Custody!Next
  <2>1. /\ m.uid \in live /\ Issue(m.dest, body[m.uid], {m.uid})
        /\ UNCHANGED <<archive, external>>
    BY <1>9 DEF ServerMoves, Sound
  <2>2. /\ m.uid \in 1 .. MaxUid /\ body[m.uid] \in archive
        /\ Custody!Permitted(home[m.uid], m.dest)
    BY DEF IInv, CommandInv, Issued, Uids
  <2>3. m.dest \in {"Quarantine", "Inbox", "Review"}
    BY DEF IInv, TypeOK, RecordType
  <2>4. Custody!Relocate(m.uid, m.dest)
    BY <2>1, <2>2 DEF Issue, Custody!Relocate
  <2>5. QED
    BY <2>2, <2>3, <2>4 DEF Custody!Next
<1>10. CASE Server
  BY <1>9, <1>10 DEF Server, ServerMovesNothing, Sound, mailbox
<1>11. CASE Trouble
  BY <1>11 DEF Trouble, RunCutShort, ReconcileDeadline, ScanFails, ReconcileTakes, LearnFails,
     StoreFails, ServerRefuses, TrainingBlocked, ServerDiscards, Sound, Fault, mailbox
<1>12. CASE UNCHANGED vars
  BY <1>12 DEF vars
<1>13. QED
  BY <1>2, <1>3, <1>4, <1>5, <1>6, <1>7, <1>8, <1>10, <1>11, <1>12 DEF Next

(* Guardian keeps custody of the mail: it moves messages and neither copies,
   alters nor deletes any, each only to a folder its folder permits and only
   after the encrypted copy was written. *)
THEOREM KeepsCustody == Spec => CustodyKept
<1>1. Init => Custody!Init
  BY RunAssumption DEF RunAssumption, Init, Custody!Init, Uids
<1>2. IInv /\ [Next]_vars => [Custody!Next]_Seen
  BY CustodyStep
<1>3. QED
  BY Inductive, <1>1, <1>2, PTL DEF Spec, CustodyKept, Custody!Spec, Seen

-----------------------------------------------------------------------------
(* No step of anybody takes a UID back or gives it another meaning. *)
LEMMA NextGrows == ASSUME IInv, Next PROVE Grown
<1>1. ASSUME NEW c \in Contents, NEW f \in {"Inbox", "Spam"}, Deliver(c, f) PROVE Grown
  BY <1>1, IssueGrows DEF Deliver, Folders
<1>2. ASSUME NEW u \in live, NEW f \in Folders, OwnerMoves(u, f) \/ OwnerCopies(u, f)
      PROVE  Grown
  <2>1. body[u] \in Contents
    BY DEF IInv, MailboxInv, Issued
  <2>2. QED
    BY <1>2, <2>1, IssueGrows DEF OwnerMoves, OwnerCopies
<1>3. ASSUME NEW u \in live, OwnerDeletes(u) PROVE Grown
  BY <1>3, Bounds DEF OwnerDeletes, IInv, TypeOK, MailboxType, Grown
<1>4. ASSUME NEW m \in inflight, ServerMoves(m) PROVE Grown
  <2>1. m.dest \in Folders /\ body[m.uid] \in Contents
    BY DEF IInv, TypeOK, RecordType, CommandInv, MailboxInv, Issued, Folders
  <2>2. QED
    BY <1>4, <2>1, IssueGrows DEF ServerMoves
<1>5. ASSUME UNCHANGED mailbox PROVE Grown
  BY <1>5, SameMailbox
<1>6. CASE Environment
  BY <1>1, <1>2, <1>3, <1>6 DEF Environment
<1>7. CASE Server
  BY <1>4, <1>5, <1>7 DEF Server, ServerMovesNothing
<1>8. CASE SwitchMode \/ StartRun \/ EndStage \/ EndRun \/ SendMove \/ Resolve
  BY <1>5, <1>8 DEF SwitchMode, StartRun, EndStage, EndRun, SendMove, Resolve, ResolveFindsNone,
     ResolveFinds
<1>9. CASE Reconcile
  BY <1>5, <1>9 DEF Reconcile, ReconcileSkips, ScanSource, ReconcileTakes, ScanDecides,
     SettleSource, SettleDestination
<1>10. CASE Pick
  BY <1>5, <1>10 DEF Pick, Passes, TrainingTakes, FetchFails, FolderMoves, FolderKeeps, FolderTakes
<1>11. CASE Write
  BY <1>5, <1>11 DEF Write, SaveArchive, UpsertPending, MarkIntent, RspamdLearns, MarkLearned,
     FinishUnlearned, SupersedeOtherCopies, FinalizeMove
<1>12. CASE Trouble
  BY <1>5, <1>12 DEF Trouble, RunCutShort, ReconcileDeadline, ScanFails, ReconcileTakes,
     LearnFails, StoreFails, ServerRefuses, TrainingBlocked, ServerDiscards
<1>13. QED
  BY <1>6, <1>7, <1>8, <1>9, <1>10, <1>11, <1>12 DEF Next

-----------------------------------------------------------------------------
(* The corrections of the owner.  A row stays about the message it was written *)
(* for, by its hash or, after a fetch without a body, by its location, and     *)
(* keeps every label it was given.  In a training folder it has no label but   *)
(* that folder's and is settled only for another row that has one.             *)

LabelOf(f) == IF f = "TrainSpam" THEN "spam" ELSE "ham"

(* A row that may be written as far as labels are concerned. *)
Labelled(new) ==
  /\ new.content = Absent => /\ BodyGlitch /\ new.status = "blocked"
                             /\ new.folder \in Training /\ new.uid \in Uids
  /\ new.folder \in Training => {new.feedback, new.intent} \subseteq {"", LabelOf(new.folder)}

(* A row of a training folder that the next run works on. *)
Undone(new) ==
  new.folder \in Training /\ new.uid # 0 =>
    new.status \in {"error", "pending_move", "pending_learn", "observed", "blocked"}

Carries(new, l) == l \in {new.feedback, new.intent}

SettledFor(r, q) == About(row[q], row[r].content) /\ \E l \in Labels : Carries(row[q], l)

LabelInv ==
  /\ \A r \in Used : Labelled(row[r])
  /\ \A r \in Used : Undone(row[r]) \/ \E q \in Used \ {r} : SettledFor(r, q)
  /\ \A r \in RowIds : r >= nextRow => row[r].feedback = "" /\ row[r].intent = ""
  /\ pc \in {"learn", "learned", "unlearned", "supersede"} => row[job.row].intent = Label

(* No row is lost, and no label. *)
LabelsGrow ==
  \A r \in Used : /\ r \in Used'
                  /\ \A c \in Contents : About(row[r], c) => About(row[r], c)'
                  /\ \A l \in Labels : Carries(row[r], l) => Carries(row'[r], l)

(* A row is given a label as learned at one step only. *)
FeedbackGiven ==
  \A r \in Used' : row'[r].feedback # "" =>
    \/ r \in Used /\ row[r].feedback # ""
    \/ pc = "learned" /\ r = job.row

LabelStep == LabelInv' /\ LabelsGrow /\ FeedbackGiven

(* Only a row without a hash, which waits to be fetched again, is about a message
   for its location alone. *)
LEMMA UndoneOrRead ==
  ASSUME IInv, LabelInv, NEW r \in Used, ~ Undone(row[r])
  PROVE  row[r].content \in Contents /\ row[r].content # Absent
<1>1. row[r].content \in Contents \cup {Absent}
  BY RowFields DEF IInv, Used
<1>2. row[r].content # Absent
  BY DEF LabelInv, Labelled, Undone
<1>3. QED
  BY <1>1, <1>2

(* A settled row whose content stays remains settled for the same row. *)
LEMMA SettledStays ==
  ASSUME IInv, LabelInv, LabelsGrow, NEW r \in Used, ~ Undone(row[r]),
         row'[r].content = row[r].content
  PROVE  \E q \in Used' \ {r} : SettledFor(r, q)'
<1>1. PICK q \in Used \ {r} : SettledFor(r, q)
  BY DEF LabelInv
<1>2. PICK c \in Contents : c = row[r].content
  BY UndoneOrRead
<1>3. About(row[q], c) /\ q \in Used' /\ About(row[q], c)'
  BY <1>1, <1>2 DEF SettledFor, LabelsGrow
<1>4. \E l \in Labels : Carries(row'[q], l)
  BY <1>1 DEF SettledFor, LabelsGrow
<1>5. SettledFor(r, q)'
  BY <1>2, <1>3, <1>4 DEF SettledFor, About, Carries
<1>6. QED
  BY <1>1, <1>3, <1>5

(* The journal is left alone. *)
LEMMA LabelsStay ==
  ASSUME IInv, LabelInv, Grown, UNCHANGED <<row, nextRow>>,
         pc' \in {"learn", "learned", "unlearned", "supersede"} =>
           /\ pc \in {"learn", "learned", "unlearned", "supersede"}
           /\ job'.row = job.row /\ stage' = stage
  PROVE  LabelStep
<1>1. Used' = Used
  BY DEF Used
<1>2. LabelsGrow
  <2> SUFFICES ASSUME NEW r \in Used, NEW c \in Contents, About(row[r], c)
               PROVE  About(row[r], c)'
    BY <1>1 DEF LabelsGrow, Carries
  <2>1. CASE row[r].content = c
    BY <2>1 DEF About
  <2>2. CASE row[r].content = Absent /\ row[r].uid \in Uids /\ body[row[r].uid] = c
    <3>1. row[r].uid # 0
      BY <2>2, Bounds DEF Uids
    <3>2. row[r].uid < nextUid
      BY <3>1 DEF IInv, JournalInv, RowsNameTheirCopy
    <3>3. body'[row[r].uid] = body[row[r].uid]
      BY <2>2, <3>2 DEF Grown
    <3>4. QED
      BY <2>2, <3>3 DEF About
  <2>3. QED
    BY <2>1, <2>2 DEF About
<1>3. FeedbackGiven
  BY <1>1 DEF FeedbackGiven
<1>4. \A r \in Used' : Labelled(row'[r])
  BY <1>1 DEF LabelInv
<1>5. ASSUME NEW r \in Used' PROVE Undone(row'[r]) \/ \E q \in Used' \ {r} : SettledFor(r, q)'
  <2>1. CASE Undone(row[r])
    BY <2>1 DEF Undone
  <2>2. CASE ~ Undone(row[r])
    BY <1>1, <1>2, <2>2, SettledStays
  <2>3. QED
    BY <2>1, <2>2
<1>6. \A r \in RowIds : r >= nextRow' => row'[r].feedback = "" /\ row'[r].intent = ""
  BY DEF LabelInv
<1>7. pc' \in {"learn", "learned", "unlearned", "supersede"} => row'[job'.row].intent = Label'
  BY DEF LabelInv, Label
<1>8. LabelInv'
  BY <1>4, <1>5, <1>6, <1>7 DEF LabelInv, Labelled, Undone
<1>9. QED
  BY <1>2, <1>3, <1>8 DEF LabelStep

LEMMA Ordered == \A n, m \in Nat : n < m \/ n >= m
  OBVIOUS

(* One row is written. *)
LEMMA LabelsWrite ==
  ASSUME IInv, LabelInv, UNCHANGED body,
         NEW r \in RowIds, NEW new, Amend(r, new), Labelled(new),
         nextRow' = nextRow \/ (r = nextRow /\ nextRow' = nextRow + 1), r < nextRow',
         r \in Used => /\ \A c \in Contents : About(row[r], c) => About(new, c)
                       /\ \A l \in Labels : Carries(row[r], l) => Carries(new, l),
         Undone(new) \/ (r \in Used /\ ~ Undone(row[r]) /\ new.content = row[r].content),
         pc' \in {"learn", "learned", "unlearned", "supersede"}
           => job'.row = r /\ new.intent = Label',
         new.feedback = row[r].feedback \/ (pc = "learned" /\ r = job.row)
  PROVE  LabelStep
<1>1. row \in [RowIds -> Row] /\ nextRow \in Nat /\ RowIds \subseteq Nat
  BY Bounds DEF IInv, TypeOK, RecordType, RowIds
<1>2. row'[r] = new /\ \A q \in RowIds \ {r} : row'[q] = row[q]
  BY <1>1 DEF Amend
<1>3. Used' = Used \cup {r} /\ Used \subseteq RowIds /\ nextRow' >= nextRow
  <2>1. nextRow' \in Nat /\ nextRow' >= nextRow /\ r \in Nat
    BY <1>1
  <2>2. \A q \in RowIds : q < nextRow' <=> q < nextRow \/ q = r
    BY <1>1, <2>1
  <2>3. QED
    BY <2>1, <2>2 DEF Used
<1>4. LabelsGrow
  <2> SUFFICES ASSUME NEW q \in Used
               PROVE  /\ \A c \in Contents : About(row[q], c) => About(row[q], c)'
                      /\ \A l \in Labels : Carries(row[q], l) => Carries(row'[q], l)
    BY <1>3 DEF LabelsGrow
  <2>1. CASE q = r
    BY <1>2, <2>1 DEF About
  <2>2. CASE q # r
    BY <1>2, <1>3, <2>2 DEF About
  <2>3. QED
    BY <2>1, <2>2
<1>5. LabelInv'
  <2>1. ASSUME NEW q \in Used' PROVE Labelled(row'[q])
    BY <1>2, <1>3 DEF LabelInv
  <2>2. ASSUME NEW q \in RowIds, q >= nextRow'
        PROVE  row'[q].feedback = "" /\ row'[q].intent = ""
    <3>1. q # r /\ q >= nextRow
      BY <1>1, <1>3, <2>2
    <3>2. QED
      BY <1>2, <3>1, <2>2 DEF LabelInv
  <2>3. ASSUME NEW q \in Used'
        PROVE  Undone(row'[q]) \/ \E t \in Used' \ {q} : SettledFor(q, t)'
    <3>1. CASE q = r /\ Undone(new)
      BY <1>2, <3>1
    <3>2. CASE q = r /\ ~ Undone(new)
      BY <1>2, <1>4, <3>2, SettledStays
    <3>3. CASE q # r
      <4>1. q \in Used /\ row'[q] = row[q]
        BY <1>2, <1>3, <3>3
      <4>2. QED
        BY <1>4, <4>1, SettledStays
    <3>4. QED
      BY <3>1, <3>2, <3>3
  <2>4. pc' \in {"learn", "learned", "unlearned", "supersede"} => row'[job'.row].intent = Label'
    BY <1>2
  <2>5. QED
    BY <2>1, <2>2, <2>3, <2>4 DEF LabelInv, Labelled, Undone
<1>6. FeedbackGiven
  <2> SUFFICES ASSUME NEW q \in Used', row'[q].feedback # "",
                      ~ (pc = "learned" /\ q = job.row)
               PROVE  q \in Used /\ row[q].feedback # ""
    BY DEF FeedbackGiven
  <2>1. q \in RowIds /\ row'[q].feedback = row[q].feedback
    BY <1>2, <1>3
  <2>2. q < nextRow \/ q >= nextRow
    BY <1>1, <2>1, Ordered
  <2>3. QED
    BY <2>1, <2>2 DEF LabelInv, Used
<1>7. QED
  BY <1>4, <1>5, <1>6 DEF LabelStep

(* The row of the item in hand is written, its content and its labels kept. *)
LEMMA LabelsItem ==
  ASSUME IInv, LabelInv, UNCHANGED body, pc \notin {"idle", "loop", "save", "upsert"},
         NEW new, Amend(job.row, new), nextRow' = nextRow,
         new.content = row[job.row].content,
         new.folder = row[job.row].folder \/ new.folder \notin Training,
         new.feedback = row[job.row].feedback, new.intent = row[job.row].intent,
         Undone(new),
         pc' \notin {"learn", "learned", "unlearned", "supersede"}
  PROVE  LabelStep
<1>1. job.row \in Used /\ job.row \in RowIds /\ row[job.row].content # Absent
  BY ItemRow, ItemContent
<1>2. Labelled(new)
  BY <1>1 DEF LabelInv, Labelled
<1>3. job.row < nextRow'
  BY <1>1 DEF Used
<1>4. /\ \A c \in Contents : About(row[job.row], c) => About(new, c)
      /\ \A l \in Labels : Carries(row[job.row], l) => Carries(new, l)
  BY <1>1 DEF Carries, About
<1>5. QED
  BY <1>1, <1>2, <1>3, <1>4, LabelsWrite

(* UpsertMessage: an older row of the location keeps its labels, a new row has
   none.  A row without a hash is about the message at its location. *)
LEMMA LabelsUpsert ==
  ASSUME IInv, LabelInv, UNCHANGED body,
         NEW f \in Folders, NEW u, Issued(u), home[u] = f, RoomFor(f, u),
         NEW content, NEW action, NEW status, Upsert(f, u, content, action, status),
         content = body[u] \/ (/\ content = Absent /\ BodyGlitch
                              /\ f \in Training /\ status = "blocked"),
         f \in Training => status \in {"pending_move", "pending_learn", "blocked"},
         pc' \notin {"learn", "learned", "unlearned", "supersede"}
  PROVE  LabelStep
<1> DEFINE r == UpsertId(f, u)
           new == [content |-> content, folder |-> f, uid |-> u,
                   action |-> action, status |-> status,
                   feedback |-> row[r].feedback, intent |-> row[r].intent]
<1>1. nextRow \in 1 .. MaxRow + 1 /\ RowsAt(f, u) \subseteq Used
  BY DEF IInv, TypeOK, RecordType, RowsAt
<1>2. u # 0 /\ u \in Uids /\ body[u] \in Contents /\ body[u] # Absent
  BY Bounds, RunAssumption DEF RunAssumption, Issued, Uids, IInv, MailboxInv
<1>3. Undone(new) /\ (content = Absent => BodyGlitch /\ f \in Training /\ status = "blocked")
  BY <1>2 DEF Undone
<1>4. About(new, body[u])
  BY <1>2 DEF About
<1>5. CASE RowsAt(f, u) # {}
  <2>1. r \in RowsAt(f, u)
    BY <1>5 DEF UpsertId
  <2>2. r \in Used /\ r \in RowIds /\ row[r].folder = f /\ row[r].uid = u
    BY <2>1 DEF RowsAt, Used
  <2>3. Labelled(row[r]) /\ row[r].content \in {body[u], Absent}
    BY <1>2, <2>2 DEF LabelInv, IInv, JournalInv, RowsNameTheirCopy
  <2>4. Labelled(new) /\ \A l \in Labels : Carries(row[r], l) => Carries(new, l)
    BY <1>2, <1>3, <2>2, <2>3 DEF Labelled, Carries
  <2>5. \A c \in Contents : About(row[r], c) => c = body[u]
    BY <2>2, <2>3, RunAssumption DEF RunAssumption, About
  <2>6. r < nextRow /\ r # nextRow
    BY <1>1, <2>2 DEF Used, RowIds
  <2>7. Amend(r, new) /\ nextRow' = nextRow /\ new.feedback = row[r].feedback
    BY <2>6 DEF Upsert
  <2> HIDE DEF r, new
  <2>8. QED
    BY <1>3, <1>4, <2>2, <2>4, <2>5, <2>6, <2>7, LabelsWrite
<1>6. CASE RowsAt(f, u) = {}
  <2>1. r = nextRow /\ nextRow \in RowIds /\ nextRow \notin Used
    BY <1>1, <1>6, Bounds DEF UpsertId, RoomFor, RowIds, Used
  <2>2. row[nextRow].feedback = "" /\ row[nextRow].intent = ""
    <3>1. nextRow >= nextRow
      BY <1>1
    <3>2. QED
      BY <2>1, <3>1 DEF LabelInv
  <2>3. Labelled(new)
    BY <1>2, <1>3, <2>1, <2>2 DEF Labelled
  <2>4. Amend(r, new) /\ nextRow' = nextRow + 1 /\ r < nextRow' /\ new.feedback = row[r].feedback
    BY <1>1, <2>1 DEF Upsert
  <2> HIDE DEF r, new
  <2>5. QED
    BY <1>3, <2>1, <2>3, <2>4, LabelsWrite
<1>7. QED
  BY <1>5, <1>6

(* A label is given in the training folder of that label only. *)
LEMMA LabelsGiven ==
  ASSUME IInv, LabelInv, UNCHANGED body,
         pc \in {"intent", "learned", "unlearned"}, NEW new, Amend(job.row, new),
         nextRow' = nextRow, UNCHANGED <<stage, job>>,
         new.content = row[job.row].content, new.folder = row[job.row].folder,
         new.feedback \in {row[job.row].feedback, Label}, new.intent = Label,
         pc # "learned" => new.feedback = row[job.row].feedback,
         Undone(new) \/ ~ Undone(row[job.row])
  PROVE  LabelStep
<1>1. /\ job.row \in Used /\ job.row \in RowIds /\ row[job.row].content # Absent
      /\ row[job.row].folder = stage /\ stage \in Training
  BY ItemRow, ItemContent, FreshItem
<1>2. Label = LabelOf(stage) /\ Labelled(row[job.row])
  BY <1>1 DEF Label, LabelOf, LabelInv
<1>3. Labelled(new) /\ \A l \in Labels : Carries(row[job.row], l) => Carries(new, l)
  <2>1. Labelled(new)
    BY <1>1, <1>2 DEF Labelled
  <2>2. row[job.row].intent \in {"", Label} /\ row[job.row].feedback \in {"", Label}
    BY <1>1, <1>2 DEF Labelled
  <2>3. QED
    BY <2>1, <2>2 DEF Carries, Labels
<1>4. job.row < nextRow' /\ Label' = Label
  BY <1>1 DEF Used, Label
<1>5. \A c \in Contents : About(row[job.row], c) => About(new, c)
  BY <1>1 DEF About
<1>6. QED
  BY <1>1, <1>3, <1>4, <1>5, LabelsWrite

LEMMA LabelsInit == Init => LabelInv
<1> SUFFICES ASSUME Init PROVE LabelInv
  OBVIOUS
<1>1. nextRow = 1 /\ pc = "idle" /\ \A r \in RowIds : row[r] = NoRow
  BY DEF Init
<1>2. Used = {}
  BY <1>1, Bounds DEF Used, RowIds
<1>3. \A r \in RowIds : row[r].feedback = "" /\ row[r].intent = ""
  <2>1. NoRow.feedback = "" /\ NoRow.intent = ""
    BY DEF NoRow
  <2>2. QED
    BY <1>1, <2>1
<1>4. QED
  BY <1>1, <1>2, <1>3 DEF LabelInv

LEMMA LabelsNext == IInv /\ LabelInv /\ [Next]_vars => LabelStep
<1> SUFFICES ASSUME IInv, LabelInv, [Next]_vars PROVE LabelStep
  OBVIOUS
<1>0. Grown
  BY NextGrows, SameMailbox DEF vars, mailbox
<1>1. ASSUME pc' \in {"idle", "loop"} \/ UNCHANGED <<pc, job, stage>>, UNCHANGED <<row, nextRow>>
      PROVE  LabelStep
  BY <1>0, <1>1, LabelsStay
<1>2. CASE Environment \/ SwitchMode
  BY <1>1, <1>2 DEF Environment, Deliver, OwnerMoves, OwnerCopies, OwnerDeletes, Outside,
     SwitchMode, run
<1>3. CASE StartRun \/ EndStage \/ EndRun
  <2>1. (pc' \in {"idle", "loop"} \/ UNCHANGED <<pc, job, stage>>) /\ UNCHANGED <<row, nextRow>>
    BY <1>3 DEF StartRun, EndStage, StageOver, EndRun, Stop
  <2>2. QED
    BY <1>1, <2>1
<1>4. CASE Reconcile
  <2>1. ASSUME NEW r \in todo, ReconcileSkips(r) \/ ScanSource(r) PROVE LabelStep
    BY <1>0, <2>1, LabelsStay DEF ReconcileSkips, ScanSource, ReconcileTakes
  <2>2. CASE ScanDecides
    <3>1. CASE UNCHANGED row /\ pc' = "settle"
      BY <1>0, <2>2, <3>1, LabelsStay DEF ScanDecides
    <3>2. CASE UpdateLocation(job.row, 0, "move_ambiguous") /\ DropItem
      <4> DEFINE new == [row[job.row] EXCEPT !.uid = 0, !.status = "move_ambiguous"]
      <4>1. /\ pc = "scan" /\ pc' = "loop" /\ nextRow' = nextRow /\ Amend(job.row, new)
            /\ UNCHANGED body
        BY <2>2, <3>2 DEF ScanDecides, DropItem, UpdateLocation, mailbox
      <4>2. /\ new.content = row[job.row].content /\ new.folder = row[job.row].folder
            /\ new.feedback = row[job.row].feedback /\ new.intent = row[job.row].intent
            /\ Undone(new)
        BY <4>1, ItemRow DEF Row, Undone
      <4> HIDE DEF new
      <4>3. QED
        BY <4>1, <4>2, LabelsItem
    <3>3. QED
      BY <2>2, <3>1, <3>2 DEF ScanDecides
  <2>3. CASE SettleSource
    <3> DEFINE new == [row[job.row] EXCEPT !.uid = job.uid, !.status = "pending_move"]
    <3>1. /\ pc = "settle" /\ pc' \in {"loop", "move"} /\ nextRow' = nextRow
          /\ Amend(job.row, new) \/ UNCHANGED row
          /\ UNCHANGED body
      BY <2>3 DEF SettleSource, UpdateLocation, DropItem, mailbox
    <3>2. /\ new.content = row[job.row].content /\ new.folder = row[job.row].folder
          /\ new.feedback = row[job.row].feedback /\ new.intent = row[job.row].intent
          /\ Undone(new)
      BY <3>1, ItemRow DEF Row, Undone
    <3> HIDE DEF new
    <3>3. QED
      BY <1>0, <3>1, <3>2, LabelsItem, LabelsStay
  <2>4. CASE SettleDestination
    BY <1>0, <2>4, LabelsStay DEF SettleDestination, DropItem
  <2>5. QED
    BY <1>4, <2>1, <2>2, <2>3, <2>4 DEF Reconcile
<1>5. CASE Pick
  <2>1. ASSUME NEW u \in todo, Passes(u) \/ TrainingTakes(u) PROVE LabelStep
    BY <1>0, <2>1, <1>1, LabelsStay DEF Passes, TrainingTakes, Takes
  <2>2. ASSUME NEW u \in todo, NEW due \in BOOLEAN, FetchFails(u, due) \/ FolderMoves(u, due)
        PROVE  LabelStep
    BY <1>0, <2>2, <1>1, LabelsStay DEF FetchFails, FolderMoves, FolderTakes, Takes
  <2>3. ASSUME NEW u \in todo, NEW due \in BOOLEAN, FolderKeeps(u, due) PROVE LabelStep
    <3>1. PICK v \in Verdicts(body[u]) :
            Upsert(stage, u, body[u], "keep",
                   IF v = "error" THEN "error" ELSE IF Active THEN "kept" ELSE "observed")
      BY <2>3 DEF FolderKeeps
    <3>2. /\ stage \in Folders /\ stage \notin Training
          /\ RoomFor(stage, u) /\ pc' = "loop"
          /\ Issued(u) /\ home[u] = stage /\ UNCHANGED body
      BY <2>3 DEF FolderKeeps, FolderTakes, Takes, Folders, Training, IInv, StageInv, mailbox
    <3>3. QED
      BY <3>1, <3>2, LabelsUpsert
  <2>4. QED
    BY <1>5, <2>1, <2>2, <2>3 DEF Pick
<1>6. CASE UpsertPending
  <2>1. /\ pc = "upsert" /\ pc' \in {"move", "intent"} /\ RoomFor(stage, job.uid)
        /\ Upsert(stage, job.uid, body[job.uid], job.action,
                  IF job.path \in {"auto", "known"} THEN "pending_move" ELSE "pending_learn")
        /\ UNCHANGED body
    BY <1>6 DEF UpsertPending, Content, mailbox
  <2>2. stage \in Folders /\ Issued(job.uid) /\ home[job.uid] = stage
    BY <2>1, JobFields DEF IInv, JobInv, RetryInv, FreshInv
  <2>3. QED
    BY <2>1, <2>2, LabelsUpsert
<1>7. CASE MarkIntent
  <2> DEFINE new == [row[job.row] EXCEPT !.intent = Label]
  <2>1. pc = "intent" /\ nextRow' = nextRow /\ Amend(job.row, new) /\ UNCHANGED <<stage, job, body>>
    BY <1>7 DEF MarkIntent, Keep, mailbox
  <2>2. /\ new.content = row[job.row].content /\ new.folder = row[job.row].folder
        /\ new.feedback = row[job.row].feedback /\ new.intent = Label
        /\ Undone(new) \/ ~ Undone(row[job.row])
    BY <2>1, ItemRow DEF Row, Undone
  <2> HIDE DEF new
  <2>3. QED
    BY <2>1, <2>2, LabelsGiven
<1>8. CASE MarkLearned
  <2> DEFINE new == [row[job.row] EXCEPT !.status = "pending_move", !.feedback = Label,
                                         !.action = Learn(Label)]
  <2>1. pc = "learned" /\ nextRow' = nextRow /\ Amend(job.row, new) /\ UNCHANGED <<stage, job, body>>
    BY <1>8 DEF MarkLearned, Keep, mailbox
  <2>2. /\ new.content = row[job.row].content /\ new.folder = row[job.row].folder
        /\ new.feedback = Label /\ new.intent = row[job.row].intent /\ Undone(new)
    BY <2>1, ItemRow DEF Row, Undone
  <2>3. row[job.row].intent = Label
    BY <2>1 DEF LabelInv
  <2> HIDE DEF new
  <2>4. QED
    BY <2>1, <2>2, <2>3, LabelsGiven
<1>9. CASE FinishUnlearned
  <2> DEFINE new == [row[job.row] EXCEPT !.uid = job.uid, !.status = "pending_move"]
  <2>1. pc = "unlearned" /\ nextRow' = nextRow /\ Amend(job.row, new) /\ UNCHANGED <<stage, job, body>>
    BY <1>9 DEF FinishUnlearned, UpdateLocation, Keep, mailbox
  <2>2. /\ new.content = row[job.row].content /\ new.folder = row[job.row].folder
        /\ new.feedback = row[job.row].feedback /\ new.intent = row[job.row].intent /\ Undone(new)
    BY <2>1, ItemRow DEF Row, Undone
  <2>3. row[job.row].intent = Label
    BY <2>1 DEF LabelInv
  <2> HIDE DEF new
  <2>4. QED
    BY <2>1, <2>2, <2>3, LabelsGiven
<1>10. CASE SupersedeOtherCopies
  <2>1. /\ pc = "supersede" /\ pc' = "move" /\ nextRow' = nextRow /\ UNCHANGED body
        /\ row' = [r \in RowIds |->
                     IF r \in Used \ {job.row} /\ row[r].content = row[job.row].content
                     THEN [row[r] EXCEPT !.status = "superseded"] ELSE row[r]]
    BY <1>10 DEF SupersedeOtherCopies, mailbox
  <2>2. ASSUME NEW r \in RowIds
        PROVE  /\ row'[r].content = row[r].content /\ row'[r].folder = row[r].folder
               /\ row'[r].feedback = row[r].feedback /\ row'[r].intent = row[r].intent
               /\ row'[r].uid = row[r].uid
    BY <2>1, RowFields DEF IInv, Row
  <2>3. Used' = Used /\ Used \subseteq RowIds
    BY <2>1 DEF Used
  <2>4. LabelsGrow
    BY <2>1, <2>2, <2>3 DEF LabelsGrow, Carries, About
  <2>5. /\ job.row \in Used /\ row[job.row].content # Absent
        /\ row[job.row].intent = Label /\ Label \in Labels
    BY <2>1, ItemRow, ItemContent DEF LabelInv, Label, Labels
  <2>6. ASSUME NEW r \in Used'
        PROVE  Undone(row'[r]) \/ \E q \in Used' \ {r} : SettledFor(r, q)'
    <3>1. CASE r # job.row /\ row[r].content = row[job.row].content
      <4>1. PICK k : k = job.row
        OBVIOUS
      <4>3. k \in Used' \ {r} /\ row'[k].content = row'[r].content
        BY <2>2, <2>3, <2>5, <3>1, <4>1
      <4>4. \E l \in Labels : Carries(row'[k], l)
        BY <2>2, <2>3, <2>5, <4>1 DEF Carries
      <4>5. SettledFor(r, k)'
        BY <4>3, <4>4 DEF SettledFor, About, Carries
      <4>6. QED
        BY <4>3, <4>5
    <3>2. CASE ~ (r # job.row /\ row[r].content = row[job.row].content)
      <4>1. row'[r] = row[r] /\ r \in Used
        BY <2>1, <2>3, <3>2
      <4>2. QED
        BY <2>4, <4>1, SettledStays
    <3>3. QED
      BY <3>1, <3>2
  <2>7. ASSUME NEW r \in Used' PROVE Labelled(row'[r])
    <3>1. row[r].content = Absent => row'[r].status = row[r].status
      BY <2>1, <2>3, <2>5
    <3>2. r \in Used /\ r \in RowIds
      BY <2>3
    <3>3. Labelled(row[r])
      BY <3>2 DEF LabelInv
    <3> QED
      BY <2>2, <3>1, <3>2, <3>3, Zenon DEF Labelled
  <2>8. LabelInv'
    <3>1. \A r \in RowIds : r >= nextRow => row[r].feedback = "" /\ row[r].intent = ""
      BY DEF LabelInv
    <3>2. \A r \in RowIds : r >= nextRow' => row'[r].feedback = "" /\ row'[r].intent = ""
      <4>1. nextRow' = nextRow
        BY <2>1
      <4>2. QED
        BY <2>2, <3>1, <4>1, Zenon
    <3>3. QED
      BY <2>1, <2>6, <2>7, <3>2 DEF LabelInv, Labelled, Undone
  <2>9. FeedbackGiven
    BY <2>2, <2>3 DEF FeedbackGiven
  <2>10. QED
    BY <2>4, <2>8, <2>9 DEF LabelStep
<1>11. CASE FinalizeMove
  <2> DEFINE new == [row[job.row] EXCEPT !.folder = Dest(job.action), !.uid = job.new,
                                         !.status = Final(job.action)]
  <2>1. /\ pc = "finalize" /\ pc' = "loop" /\ nextRow' = nextRow
        /\ Amend(job.row, new) \/ UNCHANGED row
        /\ UNCHANGED body
    BY <1>11 DEF FinalizeMove, DropItem, mailbox
  <2>2. /\ new.content = row[job.row].content /\ new.folder \notin Training
        /\ new.feedback = row[job.row].feedback /\ new.intent = row[job.row].intent
        /\ Undone(new)
    BY <2>1, ItemRow DEF Row, Dest, Training, Undone
  <2> HIDE DEF new
  <2>3. QED
    BY <1>0, <2>1, <2>2, LabelsItem, LabelsStay
<1>12. CASE SaveArchive \/ RspamdLearns
  BY <1>0, <1>12, LabelsStay DEF SaveArchive, RspamdLearns, Keep
<1>13. CASE SendMove \/ \E u \in Uids : ResolveFinds(u)
  BY <1>0, <1>13, LabelsStay DEF SendMove, ResolveFinds
<1>14. ASSUME pc \in {"learn", "await", "resolve"}, pc' = "loop", nextRow' = nextRow, UNCHANGED body,
              NEW s \in {"error", "pending_move"}, Amend(job.row, [row[job.row] EXCEPT !.status = s])
       PROVE  LabelStep
  <2> DEFINE new == [row[job.row] EXCEPT !.status = s]
  <2>1. /\ new.content = row[job.row].content /\ new.folder = row[job.row].folder
        /\ new.feedback = row[job.row].feedback /\ new.intent = row[job.row].intent
        /\ Undone(new)
    BY <1>14, ItemRow DEF Row, Undone
  <2>2. Amend(job.row, new)
    BY <1>14
  <2> HIDE DEF new
  <2>3. QED
    BY <1>14, <2>1, <2>2, LabelsItem
<1>15. CASE ResolveFindsNone \/ ServerRefuses
  BY <1>14, <1>15 DEF ResolveFindsNone, ServerRefuses, MarkMoveUncertain, DropItem, mailbox
<1>16. CASE LearnFails
  BY <1>14, <1>16 DEF LearnFails, DropItem, mailbox
<1>17. CASE Server
  <2>1. ASSUME NEW m \in inflight, ServerMoves(m) \/ ServerMovesNothing(m) PROVE LabelStep
    BY <1>0, <2>1, LabelsStay DEF ServerMoves, ServerMovesNothing, Keep
  <2>2. QED
    BY <1>17, <2>1 DEF Server
<1>18. CASE RunCutShort \/ ReconcileDeadline \/ ScanFails \/ StoreFails
  <2>1. /\ pc' \in {"idle", "loop"} \/ UNCHANGED <<pc, job, stage>>
        /\ UNCHANGED <<row, nextRow>>
    BY <1>18 DEF RunCutShort, Stop, ReconcileDeadline, ScanFails, ReconcileTakes, StoreFails,
       DropItem
  <2>2. QED
    BY <1>1, <2>1
<1>19. CASE \E m \in inflight : ServerDiscards(m)
  BY <1>1, <1>19 DEF ServerDiscards, run
<1>20. CASE UNCHANGED vars
  BY <1>1, <1>20 DEF vars
<1>21. ASSUME NEW u \in todo \cap Uids, TrainingBlocked(u) PROVE LabelStep
  <2>1. /\ BodyGlitch /\ stage \in Training /\ stage \in Folders /\ RoomFor(stage, u)
        /\ Upsert(stage, u, Absent, "keep", "blocked") /\ UNCHANGED body
        /\ pc = "loop" /\ UNCHANGED pc /\ Issued(u) /\ home[u] = stage
    BY <1>21 DEF TrainingBlocked, Takes, Training, Folders, IInv, StageInv, mailbox
  <2>2. QED
    BY <2>1, LabelsUpsert
<1>22. QED
  BY <1>2, <1>3, <1>4, <1>5, <1>6, <1>7, <1>8, <1>9, <1>10, <1>11, <1>12, <1>13, <1>15,
     <1>16, <1>17, <1>18, <1>19, <1>20, <1>21 DEF Next, Write, Resolve, Trouble

(* What the model learned stays what a row asks for. *)
LEMMA LearnedStays ==
  ASSUME LearnsOnlyCorrections, LabelsGrow, Grown, MailboxInv, UNCHANGED bayes
  PROVE  LearnsOnlyCorrections'
<1> SUFFICES ASSUME NEW c \in Contents, bayes[c] \in Labels
             PROVE  /\ \E r \in Used' : About(row[r], c)' /\ Carries(row'[r], bayes[c])
                    /\ \E u \in Uids :
                         /\ body'[u] = c
                         /\ home'[u] = IF bayes[c] = "spam" THEN "TrainSpam" ELSE "TrainHam"
  BY DEF LearnsOnlyCorrections, Carries
<1>1. PICK r \in Used : About(row[r], c) /\ Carries(row[r], bayes[c])
  BY DEF LearnsOnlyCorrections, Carries
<1>2. r \in Used' /\ About(row[r], c)' /\ Carries(row'[r], bayes[c])
  BY <1>1 DEF LabelsGrow
<1>3. PICK u \in Uids : /\ body[u] = c
                        /\ home[u] = IF bayes[c] = "spam" THEN "TrainSpam" ELSE "TrainHam"
  BY DEF LearnsOnlyCorrections
<1>4. u < nextUid
  <2>1. u >= nextUid => c = Absent
    BY <1>3 DEF MailboxInv
  <2>2. u \in Nat /\ nextUid \in Nat
    BY Bounds DEF Uids, Grown
  <2>3. QED
    BY <2>1, <2>2, RunAssumption DEF RunAssumption
<1>5. body'[u] = c /\ home'[u] = home[u]
  BY <1>3, <1>4 DEF Grown
<1>6. QED
  BY <1>2, <1>3, <1>5

(* The model learns the message of the item in hand, whose row asks for it. *)
LEMMA LearnedNow ==
  ASSUME IInv, LabelInv, LearnsOnlyCorrections, LabelsGrow, pc = "learn",
         UNCHANGED mailbox,
         bayes' = [bayes EXCEPT ![Content] = Label]
  PROVE  LearnsOnlyCorrections'
<1> SUFFICES ASSUME NEW c \in Contents, bayes'[c] \in Labels
             PROVE  /\ \E r \in Used' : About(row[r], c)' /\ Carries(row'[r], bayes'[c])
                    /\ \E u \in Uids :
                         /\ body[u] = c
                         /\ home[u] = IF bayes'[c] = "spam" THEN "TrainSpam" ELSE "TrainHam"
  BY DEF LearnsOnlyCorrections, Carries, mailbox
<1>1. bayes \in [Contents -> Labels \cup {"none"}]
  BY DEF IInv, TypeOK, RecordType
<1>2. CASE c = Content
  <2>1. bayes'[c] = Label /\ Label \in Labels
    BY <1>1, <1>2 DEF Label, Labels
  <2>2. /\ job.row \in Used /\ row[job.row].content = Content
        /\ stage \in Training /\ Issued(job.uid) /\ home[job.uid] = stage
        /\ row[job.row].intent = Label
    BY ItemRow, FreshItem DEF LabelInv, IInv, FreshInv
  <2>3. PICK k \in Used : k = job.row
    BY <2>2
  <2>4. k \in Used' /\ About(row[k], c)' /\ Carries(row'[k], bayes'[c])
    <3>1. About(row[k], c) /\ Carries(row[k], Label)
      BY <1>2, <2>2, <2>3 DEF About, Carries
    <3>2. QED
      BY <2>1, <3>1 DEF LabelsGrow
  <2>5. /\ job.uid \in Uids /\ body[job.uid] = c
        /\ home[job.uid] = IF bayes'[c] = "spam" THEN "TrainSpam" ELSE "TrainHam"
    BY <1>2, <2>1, <2>2 DEF Issued, Content, Label, Training
  <2>6. QED
    BY <2>4, <2>5
<1>3. CASE c # Content
  <2>1. bayes'[c] = bayes[c]
    BY <1>1, <1>3
  <2>2. PICK r \in Used : About(row[r], c) /\ Carries(row[r], bayes[c])
    BY <2>1 DEF LearnsOnlyCorrections, Carries
  <2>3. QED
    BY <2>1, <2>2 DEF LearnsOnlyCorrections, LabelsGrow
<1>4. QED
  BY <1>2, <1>3

(* Only an answer of Rspamd, or the lack of one, changes the model. *)
LEMMA BayesSteps ==
  ASSUME Next, ~ RspamdLearns, ~ LearnFails
  PROVE  UNCHANGED bayes
<1>1. CASE Environment \/ SwitchMode \/ StartRun \/ EndStage \/ EndRun
  BY <1>1 DEF Environment, Deliver, OwnerMoves, OwnerCopies, OwnerDeletes, Outside,
     SwitchMode, StartRun, EndStage, EndRun
<1>2. CASE Reconcile
  BY <1>2 DEF Reconcile, ReconcileSkips, ScanSource, ReconcileTakes, ScanDecides,
     SettleSource, SettleDestination
<1>3. CASE Pick
  BY <1>3 DEF Pick, Passes, TrainingTakes, FetchFails, FolderMoves, FolderKeeps, FolderTakes
<1>4. CASE Write
  BY <1>4 DEF Write, SaveArchive, UpsertPending, MarkIntent, MarkLearned,
     FinishUnlearned, SupersedeOtherCopies, FinalizeMove
<1>5. CASE SendMove \/ Resolve \/ Server
  BY <1>5 DEF SendMove, Resolve, ResolveFindsNone, ResolveFinds, Server, ServerMoves,
     ServerMovesNothing
<1>6. CASE Trouble
  BY <1>6 DEF Trouble, RunCutShort, ReconcileDeadline, ScanFails, ReconcileTakes,
     StoreFails, ServerRefuses, TrainingBlocked, ServerDiscards
<1>7. QED
  BY <1>1, <1>2, <1>3, <1>4, <1>5, <1>6 DEF Next

LEMMA LearnedNext ==
  IInv /\ LabelInv /\ LearnsOnlyCorrections /\ [Next]_vars => LearnsOnlyCorrections'
<1> SUFFICES ASSUME IInv, LabelInv, LearnsOnlyCorrections, [Next]_vars
             PROVE  LearnsOnlyCorrections'
  OBVIOUS
<1>1. LabelsGrow
  BY LabelsNext DEF LabelStep
<1>2. CASE UNCHANGED vars
  BY <1>2 DEF vars, LearnsOnlyCorrections, About, Used
<1>3. ASSUME Next PROVE LearnsOnlyCorrections'
  <2>1. Grown /\ MailboxInv
    BY <1>3, NextGrows DEF IInv
  <2>2. CASE UNCHANGED bayes
    BY <1>1, <2>1, <2>2, LearnedStays
  <2>3. CASE RspamdLearns \/ LearnFails
    <3>1. /\ pc = "learn" /\ UNCHANGED mailbox
          /\ bayes' = bayes \/ bayes' = [bayes EXCEPT ![Content] = Label]
      BY <2>3 DEF RspamdLearns, LearnFails
    <3>2. QED
      BY <1>1, <2>2, <3>1, LearnedNow
  <2>4. QED
    BY <1>3, <2>2, <2>3, BayesSteps
<1>4. QED
  BY <1>2, <1>3

(* The owner's word counts: the model has learned a message as spam or ham only
   from a copy the owner put into that training folder, and a row about the
   message still says so, whatever was moved, copied, corrected again, cut short
   or fetched without a body since. *)
THEOREM LearnsWhatItIsTold == Spec => []LearnsOnlyCorrections
<1>1. Init => LabelInv /\ LearnsOnlyCorrections
  BY LabelsInit DEF Init, LearnsOnlyCorrections, Labels
<1>2. /\ IInv /\ LabelInv /\ LearnsOnlyCorrections /\ [Next]_vars
         => LabelInv' /\ LearnsOnlyCorrections'
  BY LabelsNext, LearnedNext DEF LabelStep
<1>3. QED
  BY Inductive, <1>1, <1>2, PTL DEF Spec

(* No step of a run, of the owner or of the server makes the journal forget that
   the owner called a message ham: a fetch without a body, which takes the hash
   the veto is found by, leaves the wish at the location of the copy
   (recordMetadataError, UpsertMessage). *)
THEOREM WishesStay == Spec => HamWishKept
<1>1. Init => LabelInv
  BY LabelsInit
<1>2. IInv /\ LabelInv /\ [Next]_vars
        => LabelInv' /\ \A c \in Contents : HamWish(c) => HamWish(c)'
  <2> SUFFICES ASSUME IInv, LabelInv, [Next]_vars
               PROVE  LabelInv' /\ \A c \in Contents : HamWish(c) => HamWish(c)'
    OBVIOUS
  <2>1. LabelInv' /\ LabelsGrow
    BY LabelsNext DEF LabelStep
  <2>2. ASSUME NEW c \in Contents, HamWish(c) PROVE HamWish(c)'
    <3>1. PICK r \in Used : About(row[r], c) /\ Carries(row[r], "ham")
      BY <2>2 DEF HamWish, Carries
    <3>2. r \in Used' /\ About(row[r], c)' /\ Carries(row'[r], "ham")
      BY <2>1, <3>1 DEF LabelsGrow, Labels
    <3>3. QED
      BY <3>2 DEF HamWish, Carries
  <2>3. QED
    BY <2>1, <2>2
<1>3. QED
  BY Inductive, <1>1, <1>2, PTL DEF Spec, HamWishKept

LEMMA PassedOver ==
  IInv /\ LabelInv => WrittenOffForACorrection
<1> SUFFICES ASSUME IInv, LabelInv, NEW u \in In("TrainSpam") \cup In("TrainHam"),
                    TrainingLocationProcessed(home[u], u)
             PROVE  \E r \in RowsAt(home[u], u) : \E q \in Used \ {r} :
                      About(row[q], body[u]) /\ Opinion(q) # ""
  BY DEF WrittenOffForACorrection
<1>1. u \in live /\ home[u] \in Training
  BY DEF In, Training
<1>2. PICK r \in RowsAt(home[u], u) :
        row[r].status \notin {"error", "pending_move", "pending_learn", "observed", "blocked"}
  BY DEF TrainingLocationProcessed
<1>3. r \in Used /\ row[r].folder \in Training /\ row[r].uid = u /\ u # 0
  BY <1>1, <1>2, Bounds DEF RowsAt, IInv, MailboxInv, Issued, Uids
<1>4. ~ Undone(row[r]) /\ row[r].content = body[u]
  BY <1>2, <1>3 DEF Undone, IInv, JournalInv, RowsNameTheirCopy
<1>5. PICK q \in Used \ {r} : SettledFor(r, q)
  BY <1>3, <1>4 DEF LabelInv
<1>6. Opinion(q) # ""
  BY <1>5 DEF SettledFor, Carries, Opinion, Labels
<1>7. QED
  BY <1>2, <1>4, <1>5, <1>6 DEF SettledFor

(* With any number of copies, lost bodies and runs cut short, a correction that
   lies in a training folder is passed over only for another row about the same
   message that holds an opinion of the owner (SupersedeOtherCopies,
   TrainingLocationProcessed). *)
THEOREM WrittenOffOnlyForCorrections == Spec => []WrittenOffForACorrection
<1>1. Init => LabelInv
  BY LabelsInit
<1>2. IInv /\ LabelInv /\ [Next]_vars => LabelInv'
  BY LabelsNext DEF LabelStep
<1>3. QED
  BY Inductive, PassedOver, <1>1, <1>2, PTL DEF Spec

(* What follows needs bodies that can be read: then every row keeps its hash. *)
LEMMA ContentStays ==
  ASSUME IInv, LabelInv, LabelInv', LabelsGrow, ~ BodyGlitch, NEW r \in Used
  PROVE  row'[r].content = row[r].content /\ row[r].content \in Contents
<1>1. PICK c : c = row[r].content
  OBVIOUS
<1>2. c \in Contents
  BY <1>1, RowFields DEF IInv, LabelInv, Labelled, Used
<1>3. r \in Used' /\ About(row[r], c)'
  BY <1>1, <1>2 DEF LabelsGrow, About
<1>4. row'[r].content # Absent
  BY <1>3 DEF LabelInv, Labelled
<1>5. QED
  BY <1>1, <1>2, <1>3, <1>4 DEF About

(* Whatever is recorded as learned, the model has learned one way or the other. *)
KnownInv ==
  /\ \A r \in Used : row[r].feedback # "" => bayes[row[r].content] \in Labels
  /\ pc = "learned" => bayes[Content] \in Labels

(* Whether the model has learned a message is never taken back. *)
LEMMA LearnedForGood ==
  ASSUME IInv, [Next]_vars
  PROVE  \A c \in Contents : bayes[c] \in Labels => bayes'[c] \in Labels
<1> SUFFICES ASSUME NEW c \in Contents, bayes[c] \in Labels PROVE bayes'[c] \in Labels
  OBVIOUS
<1>1. CASE UNCHANGED bayes
  BY <1>1
<1>2. CASE bayes' = [bayes EXCEPT ![Content] = Label]
  BY <1>2 DEF IInv, TypeOK, RecordType, Label, Labels
<1>3. UNCHANGED bayes \/ bayes' = [bayes EXCEPT ![Content] = Label]
  BY BayesSteps DEF RspamdLearns, LearnFails, vars
<1>4. QED
  BY <1>1, <1>2, <1>3

(* The item in hand has a message, which stays the same while it is in hand. *)
LEMMA ContentInHand ==
  ASSUME IInv, pc = "learned"
  PROVE  Content \in Contents /\ job.row \in Used /\ row[job.row].content = Content
<1>1. Issued(job.uid) /\ job.row \in Used /\ row[job.row].content = Content
  BY FreshItem, ItemRow DEF IInv, FreshInv
<1>2. QED
  BY <1>1 DEF IInv, MailboxInv, Issued, Content

(* Only the answer of Rspamd brings the run to the step after it. *)
LEMMA LearnedSteps ==
  ASSUME IInv, [Next]_vars, pc' = "learned"
  PROVE  \/ RspamdLearns /\ pc = "learn"
         \/ pc = "learned" /\ UNCHANGED job
<1>1. CASE Environment \/ SwitchMode \/ UNCHANGED vars
  BY <1>1 DEF Environment, Deliver, OwnerMoves, OwnerCopies, OwnerDeletes, Outside,
     SwitchMode, run, vars
<1>2. CASE StartRun \/ EndStage \/ EndRun
  BY <1>2 DEF StartRun, EndStage, StageOver, EndRun, Stop
<1>3. CASE Reconcile
  BY <1>3 DEF Reconcile, ReconcileSkips, ScanSource, ReconcileTakes, ScanDecides,
     SettleSource, SettleDestination, DropItem
<1>4. CASE Pick
  BY <1>4 DEF Pick, Passes, TrainingTakes, FetchFails, FolderMoves, FolderKeeps, FolderTakes, Takes
<1>5. CASE Write
  BY <1>5 DEF Write, SaveArchive, UpsertPending, MarkIntent, RspamdLearns, MarkLearned,
     FinishUnlearned, SupersedeOtherCopies, FinalizeMove, DropItem
<1>6. CASE SendMove \/ Resolve \/ Server
  BY <1>6 DEF SendMove, Resolve, ResolveFindsNone, ResolveFinds, MarkMoveUncertain, DropItem,
     Server, ServerMoves, ServerMovesNothing
<1>7. CASE Trouble
  BY <1>7 DEF Trouble, RunCutShort, Stop, ReconcileDeadline, ScanFails, ReconcileTakes,
     LearnFails, StoreFails, ServerRefuses, MarkMoveUncertain, TrainingBlocked, Takes,
     ServerDiscards, run, DropItem
<1>8. QED
  BY <1>1, <1>2, <1>3, <1>4, <1>5, <1>6, <1>7 DEF Next

LEMMA KnownNext ==
  ASSUME IInv, LabelInv, KnownInv, ~ BodyGlitch, [Next]_vars
  PROVE  KnownInv'
<1>1. LabelsGrow /\ FeedbackGiven /\ LabelInv'
  BY LabelsNext DEF LabelStep
<1>2. \A c \in Contents : bayes[c] \in Labels => bayes'[c] \in Labels
  BY LearnedForGood
<1>3. ASSUME NEW r \in Used', row'[r].feedback # "" PROVE bayes'[row'[r].content] \in Labels
  <2>1. CASE r \in Used /\ row[r].feedback # ""
    <3>1. row[r].content \in Contents /\ row'[r].content = row[r].content
      BY <1>1, <2>1, ContentStays
    <3>2. QED
      BY <1>2, <2>1, <3>1 DEF KnownInv
  <2>2. CASE pc = "learned" /\ r = job.row
    <3>1. Content \in Contents /\ r \in Used /\ row[r].content = Content
      BY <2>2, ContentInHand
    <3>2. row'[r].content = row[r].content
      BY <1>1, <3>1, ContentStays
    <3>3. QED
      BY <1>2, <2>2, <3>1, <3>2 DEF KnownInv
  <2>3. QED
    BY <1>1, <1>3, <2>1, <2>2 DEF FeedbackGiven
<1>4. ASSUME pc' = "learned" PROVE bayes'[Content'] \in Labels
  <2>1. CASE RspamdLearns /\ pc = "learn"
    <3>1. bayes' = [bayes EXCEPT ![Content] = Label] /\ Content' = Content
      BY <1>4, <2>1 DEF RspamdLearns, Content, mailbox
    <3>2. Content \in Contents
      BY <2>1, FreshItem DEF IInv, FreshInv, MailboxInv, Issued, Content
    <3>3. QED
      BY <3>1, <3>2 DEF IInv, TypeOK, RecordType, Label, Labels
  <2>2. CASE pc = "learned" /\ UNCHANGED job
    <3>1. Content \in Contents /\ Issued(job.uid)
      BY <2>2, ContentInHand, FreshItem DEF IInv, FreshInv
    <3>2. CASE UNCHANGED vars
      BY <1>2, <2>2, <3>1, <3>2 DEF KnownInv, vars, Content
    <3>3. CASE Next
      <4>1. body'[job.uid] = body[job.uid]
        BY <3>1, <3>3, NextGrows DEF Grown, Issued
      <4>2. QED
        BY <1>2, <2>2, <3>1, <4>1 DEF KnownInv, Content
    <3>4. QED
      BY <3>2, <3>3
  <2>3. QED
    BY <1>4, <2>1, <2>2, LearnedSteps
<1>5. QED
  BY <1>3, <1>4 DEF KnownInv

(* A correction that is skipped as known although the model holds the opposite
   has an older row of the same message that asks for the opposite. *)
LEMMA MisledByOlder ==
  ASSUME IInv, LabelInv, ~ BodyGlitch, LearnsOnlyCorrections, KnownInv
  PROVE  OnlyOlderRowsMislead
<1> SUFFICES ASSUME NEW c \in Contents, NEW l \in Labels, HasLearnedFeedback(c, l), bayes[c] # l
             PROVE  \E q \in Used, r \in Used :
                      /\ q < r /\ row[q].content = c /\ row[r].content = c
                      /\ bayes[c] \in Labels /\ bayes[c] \in {row[q].feedback, row[q].intent}
                      /\ row[r].feedback = l
  BY DEF OnlyOlderRowsMislead
<1>1. PICK r \in Used :
        /\ row[r].content = c /\ row[r].feedback = l /\ row[r].intent \in {"", l}
        /\ \A q \in Used : row[q].content = c /\ row[q].feedback # "" => q <= r
        /\ \A q \in Opinions(c) : q > r => Opinion(q) = l
  BY DEF HasLearnedFeedback, Labels
<1>2. bayes[c] \in Labels
  BY <1>1 DEF KnownInv, Labels
<1>3. PICK q \in Used : row[q].content = c /\ bayes[c] \in {row[q].feedback, row[q].intent}
  BY <1>2 DEF LearnsOnlyCorrections, About, LabelInv, Labelled
<1>4. bayes[c] # ""
  BY <1>2 DEF Labels
<1>5. q # r
  BY <1>1, <1>3, <1>4
<1>6. ~ (q > r)
  <2> SUFFICES ASSUME q > r PROVE FALSE
    OBVIOUS
  <2>1. row[q].feedback = ""
    <3>1. ~ (q <= r)
      BY DEF Used, RowIds
    <3>2. QED
      BY <1>1, <1>3, <3>1
  <2>2. row[q].intent = bayes[c]
    BY <1>3, <1>4, <2>1
  <2>3. q \in Opinions(c) /\ Opinion(q) = bayes[c]
    BY <1>3, <1>4, <2>2 DEF Opinions, Opinion
  <2>4. QED
    BY <1>1, <2>3
<1>7. q < r
  BY <1>5, <1>6 DEF Used, RowIds
<1>8. QED
  BY <1>1, <1>2, <1>3, <1>7

(* Between a request and its confirmation replies may be lost and runs cut
   short; as long as every fetch of a training message yields its body, what
   HasLearnedFeedback takes for known was learned, and the opposite can have been
   learned after it only for a row with a smaller id. *)
THEOREM KnownUnlessOlder == ~ BodyGlitch => (Spec => []OnlyOlderRowsMislead)
<1> SUFFICES ASSUME ~ BodyGlitch PROVE Spec => []OnlyOlderRowsMislead
  OBVIOUS
<1>1. Init => LabelInv /\ KnownInv
  <2>1. Init => Used = {}
    BY Bounds DEF Init, Used, RowIds
  <2>2. QED
    BY <2>1, LabelsInit DEF Init, KnownInv
<1>2. IInv /\ LabelInv /\ KnownInv /\ [Next]_vars => LabelInv' /\ KnownInv'
  BY LabelsNext, KnownNext DEF LabelStep
<1>3. IInv /\ LabelInv /\ LearnsOnlyCorrections /\ KnownInv => OnlyOlderRowsMislead
  BY MisledByOlder
<1>4. QED
  BY Inductive, LearnsWhatItIsTold, <1>1, <1>2, <1>3, PTL DEF Spec

-----------------------------------------------------------------------------
(* The copies of a message.  Without copying and redelivery a message has one  *)
(* live copy at most, so what the engine writes about one copy cannot settle   *)
(* the row of another.                                                         *)

OneCopy == \A u, v \in live : body[u] = body[v] => u = v

(* idx_messages_location_unique *)
OneRow == \A r, q \in Used : row[r].uid = row[q].uid /\ row[r].uid # 0 => r = q

(* A fresh item: no other copy of its message lives and has a row; a row whose
   move is made is pending; a location with a command under way was not taken. *)
FreshAlone ==
  job.path \in Fresh =>
    /\ \A r \in Used : row[r].content = Content /\ row[r].uid \in live => row[r].uid = job.uid
    /\ pc \in {"supersede", "move", "await", "resolve"} \/ (pc = "intent" /\ job.path = "known")
         => row[job.row].status = "pending_move"
    /\ pc \in {"save", "upsert"} /\ job.path = "auto" => \A m \in inflight : m.uid # job.uid

(* A move that is made up for: the copy its row names was seen, if it lives. *)
RetrySeen ==
  job.path = "retry" =>
    /\ \A u, v \in job.found : u = v
    /\ row[job.row].uid \in live => row[job.row].uid \in job.found
    /\ job.uid = 0 => pc = "scan" \/ job.found = {}
    /\ job.uid # 0 => job.found = {job.uid} /\ pc # "scan"
    /\ pc = "scan" \/ (pc = "settle" /\ job.uid # 0) => job.new = 0
    /\ pc \in {"move", "await", "resolve", "finalize"} /\ job.uid # 0 => row[job.row].uid = job.uid

(* Once the server has answered, the copy in hand is gone. *)
GoneInv == pc \in {"resolve", "finalize"} => job.uid \notin live

(* The row that brings a command back. *)
Journals(rec, m) ==
  /\ rec.uid = m.uid /\ rec.folder = home[m.uid] /\ Dest(rec.action) = m.dest
  /\ \/ rec.status \in {"pending_move", "move_ambiguous"}
     \/ rec.folder \in Training /\ rec.status \in {"pending_learn", "error", "blocked"}

Journalled == \A m \in inflight : m.uid \in live => \E r \in Used : Journals(row[r], m)

(* A row of a live training message is open. *)
Open(rec) ==
  rec.folder \in Training /\ rec.uid \in live
    => rec.status \in {"error", "pending_move", "pending_learn", "observed", "blocked"}

RowsOpen == \A r \in Used : Open(row[r])

StoreInv == OneCopy /\ OneRow /\ Journalled /\ RowsOpen

CopyInv == StoreInv /\ FreshAlone /\ RetrySeen /\ GoneInv

LEMMA JournalledIs == Journalled <=> MovesAreJournalled
  BY DEF Journalled, MovesAreJournalled, Journals, Reconsidered, Pending, RowsAt

(* A row that names a location names its copy. *)
LEMMA RowCopy ==
  ASSUME ~ BodyGlitch, IInv, LabelInv, NEW r \in Used, row[r].uid # 0
  PROVE  /\ Issued(row[r].uid) /\ home[row[r].uid] = row[r].folder
         /\ body[row[r].uid] = row[r].content
<1>1. /\ row[r].uid < nextUid /\ home[row[r].uid] = row[r].folder
      /\ \/ body[row[r].uid] = row[r].content
         \/ row[r].status = "blocked" /\ row[r].content = Absent
  BY DEF IInv, JournalInv, RowsNameTheirCopy
<1>2. row[r].content # Absent
  BY DEF LabelInv, Labelled
<1>3. row[r].uid \in 0 .. MaxUid
  BY RowFields DEF IInv, Used
<1>4. Issued(row[r].uid)
  BY <1>1, <1>3, Bounds DEF Issued, Uids
<1>5. QED
  BY <1>1, <1>2, <1>4

LEMMA LiveCopies == IInv => 0 \notin live /\ nextUid \notin live /\ live \subseteq Uids
  BY Bounds DEF IInv, TypeOK, MailboxType, MailboxInv, Issued, Uids

(* The copy in hand was issued, or there is none yet. *)
LEMMA CopyInHand ==
  ASSUME IInv, job.path \in Fresh \cup {"retry"}
  PROVE  job.uid = 0 \/ Issued(job.uid)
  BY DEF IInv, FreshInv, RetryInv, Fresh

-----------------------------------------------------------------------------
(* What a step does to the mailbox: copies appear under fresh UIDs. *)
Fades == Grown /\ \A u \in live' : u \in live \/ u >= nextUid

LEMMA Faded ==
  ASSUME IInv, Fades, NEW u, Issued(u), u \in live' PROVE u \in live
  BY Bounds DEF Fades, Grown, Issued, Uids

LEMMA FadesStore ==
  ASSUME ~ BodyGlitch, IInv, LabelInv, StoreInv, Fades, live' \subseteq Uids, OneCopy',
         UNCHANGED <<row, nextRow>>, inflight' \subseteq inflight
  PROVE  StoreInv'
<1>1. OneRow'
  BY DEF StoreInv, OneRow, Used
<1>2. Journalled'
  <2> SUFFICES ASSUME NEW m \in inflight, m.uid \in live'
               PROVE  \E r \in Used' : Journals(row[r], m)'
    BY DEF Journalled, Journals
  <2>1. Issued(m.uid) /\ m.uid \in live /\ home'[m.uid] = home[m.uid]
    BY Faded, GrownIssued DEF IInv, CommandInv, Fades
  <2>2. PICK r \in Used : Journals(row[r], m)
    BY <2>1 DEF StoreInv, Journalled
  <2>3. QED
    BY <2>1, <2>2 DEF Journals, Used
<1>3. RowsOpen'
  <2> SUFFICES ASSUME NEW r \in Used, row[r].folder \in Training, row[r].uid \in live'
               PROVE  row[r].uid \in live
    BY DEF StoreInv, RowsOpen, Open, Used
  <2>1. row[r].uid # 0
    BY Bounds DEF Uids
  <2>2. QED
    BY <2>1, RowCopy, Faded
<1>4. QED
  BY <1>1, <1>2, <1>3 DEF StoreInv

(* The item in hand is kept, and its program counter moves on, if at all. *)
LEMMA ItemGoesOn ==
  ASSUME ~ BodyGlitch, IInv, LabelInv, CopyInv, Fades, live' \subseteq Uids, UNCHANGED <<row, nextRow>>,
         job'.row = job.row, job'.uid = job.uid, job'.path = job.path, job'.found = job.found,
         pc' \in {"save", "upsert"} => pc \in {"save", "upsert"} /\ inflight' \subseteq inflight,
         pc' \in {"intent", "supersede"} => pc' = pc,
         pc' = "scan" <=> pc = "scan",
         pc' \in {"scan", "settle"} => pc' = pc /\ job'.new = job.new,
         pc' \in {"move", "await", "resolve"} => pc \in {"move", "await", "resolve"},
         pc' = "finalize" /\ job.uid # 0 => pc \in {"await", "resolve", "finalize"},
         pc' \in {"resolve", "finalize"} => pc \in {"resolve", "finalize"} \/ job.uid \notin live'
  PROVE  FreshAlone' /\ RetrySeen' /\ GoneInv'
<1>1. 0 \notin live'
  BY Bounds DEF Uids
<1>2. ASSUME NEW r \in Used, row[r].uid \in live' PROVE row[r].uid \in live
  BY <1>1, <1>2, RowCopy, Faded
<1>3. FreshAlone'
  <2> SUFFICES ASSUME job.path \in Fresh PROVE FreshAlone'
    BY DEF FreshAlone
  <2>1. body'[job.uid] = body[job.uid]
    BY GrownIssued DEF IInv, FreshInv, Fades, Fresh
  <2>2. QED
    BY <1>2, <2>1 DEF CopyInv, FreshAlone, Content, Used
<1>4. RetrySeen'
  BY <1>2 DEF CopyInv, RetrySeen, IInv, RetryInv, Pending
<1>5. GoneInv'
  <2> SUFFICES ASSUME pc' \in {"resolve", "finalize"}, pc \in {"resolve", "finalize"}
               PROVE  job.uid \notin live'
    BY DEF GoneInv
  <2>1. job.path \in Fresh \cup {"retry"}
    BY JobFields DEF IInv, JobInv, Fresh
  <2>2. QED
    BY <1>1, <2>1, CopyInHand, Faded DEF CopyInv, GoneInv
<1>6. QED
  BY <1>3, <1>4, <1>5

(* A fresh copy takes the place of another, or is the first. *)
LEMMA IssueCopies ==
  ASSUME IInv, OneCopy, NEW f \in Folders, NEW c \in Contents, NEW lost, Issue(f, c, lost),
         \A v \in live : body[v] = c => v \in lost
  PROVE  OneCopy' /\ Fades /\ live' \subseteq Uids
<1>1. Grown /\ live' \subseteq Uids
  BY IssueGrows
<1>2. live' = (live \ lost) \cup {nextUid} /\ body' = [body EXCEPT ![nextUid] = c]
  BY DEF Issue
<1>3. nextUid \in Uids /\ nextUid \in Nat
  BY Bounds DEF Issue, IInv, TypeOK, MailboxType, Uids
<1>4. body'[nextUid] = c
  BY <1>2, <1>3 DEF IInv, TypeOK, MailboxType
<1>5. \A v \in live : body'[v] = body[v]
  BY GrownIssued, <1>1 DEF IInv, MailboxInv
<1>6. OneCopy'
  BY <1>2, <1>4, <1>5 DEF OneCopy
<1>7. Fades
  BY <1>1, <1>2, <1>3 DEF Fades
<1>8. QED
  BY <1>1, <1>6, <1>7

(* Nothing happens to the mailbox. *)
LEMMA StillMailbox ==
  ASSUME IInv, StoreInv, UNCHANGED mailbox
  PROVE  Fades /\ live' \subseteq Uids /\ OneCopy'
<1>1. Grown
  BY SameMailbox
<1>2. QED
  BY <1>1, LiveCopies DEF Fades, mailbox, StoreInv, OneCopy

-----------------------------------------------------------------------------
(* Steps that write no row *)

LEMMA NoItemInHand ==
  ASSUME job' = NoJob, pc' \in {"idle", "loop"}
  PROVE  FreshAlone' /\ RetrySeen' /\ GoneInv'
  BY DEF NoJob, Item, FreshAlone, RetrySeen, GoneInv, Fresh

(* The run stops, or goes on with the next item. *)
LEMMA CopiesDrop ==
  ASSUME ~ BodyGlitch, IInv, LabelInv, CopyInv, UNCHANGED <<mailbox, row, nextRow>>,
         inflight' \subseteq inflight, job' = NoJob, pc' \in {"idle", "loop"}
  PROVE  CopyInv'
  BY StillMailbox, FadesStore, NoItemInHand DEF CopyInv

(* Somebody else acts. *)
LEMMA CopiesOutside ==
  ASSUME ~ BodyGlitch, IInv, LabelInv, CopyInv, Fades, live' \subseteq Uids, OneCopy',
         UNCHANGED <<row, nextRow, pc, job>>, inflight' \subseteq inflight
  PROVE  CopyInv'
<1>1. FreshAlone' /\ RetrySeen' /\ GoneInv'
  BY ItemGoesOn DEF CopyInv, GoneInv
<1>2. QED
  BY <1>1, FadesStore DEF CopyInv

LEMMA CopiesEnvironment ==
  ASSUME ~ BodyGlitch, IInv, LabelInv, CopyInv, ~ Duplicates, Environment PROVE CopyInv'
<1>1. ASSUME NEW c \in Contents, NEW f \in {"Inbox", "Spam"}, Deliver(c, f) PROVE CopyInv'
  <2>1. ~ Known(c) /\ Issue(f, c, {}) /\ f \in Folders
        /\ UNCHANGED <<row, nextRow, pc, job, inflight>>
    BY <1>1 DEF Deliver, Outside, run, Folders
  <2>2. \A v \in live : body[v] # c
    BY <2>1, LiveCopies DEF Known
  <2>3. QED
    BY <2>1, <2>2, IssueCopies, CopiesOutside DEF CopyInv, StoreInv
<1>2. ASSUME NEW u \in live, NEW f \in Folders, OwnerMoves(u, f) PROVE CopyInv'
  <2>1. Issue(f, body[u], {u}) /\ UNCHANGED <<row, nextRow, pc, job, inflight>>
    BY <1>2 DEF OwnerMoves, Outside, run
  <2>2. body[u] \in Contents /\ \A v \in live : body[v] = body[u] => v \in {u}
    BY DEF IInv, MailboxInv, Issued, CopyInv, StoreInv, OneCopy
  <2>3. QED
    BY <2>1, <2>2, IssueCopies, CopiesOutside DEF CopyInv, StoreInv
<1>3. ASSUME NEW u \in live, OwnerDeletes(u) PROVE CopyInv'
  <2>1. /\ live' \subseteq live /\ UNCHANGED <<home, body, nextUid>>
        /\ UNCHANGED <<row, nextRow, pc, job, inflight>>
    BY <1>3 DEF OwnerDeletes, Outside, run
  <2>2. Grown
    BY <2>1, Bounds DEF IInv, TypeOK, MailboxType, Grown
  <2>3. Fades /\ live' \subseteq Uids /\ OneCopy'
    BY <2>1, <2>2, LiveCopies DEF Fades, CopyInv, StoreInv, OneCopy
  <2>4. QED
    BY <2>1, <2>3, CopiesOutside
<1>4. QED
  BY <1>1, <1>2, <1>3 DEF Environment, OwnerCopies

-----------------------------------------------------------------------------
(* Steps that write one row *)

LEMMA WriteStore ==
  ASSUME ~ BodyGlitch, IInv, LabelInv, StoreInv, UNCHANGED mailbox, inflight' \subseteq inflight,
         NEW r \in RowIds, NEW new, Amend(r, new),
         nextRow' = nextRow \/ (r = nextRow /\ nextRow' = nextRow + 1), r < nextRow',
         new.uid # 0 => \A q \in Used \ {r} : row[q].uid # new.uid,
         \A m \in inflight : m.uid \in live /\ r \in Used /\ Journals(row[r], m)
                               => Journals(new, m),
         Open(new)
  PROVE  /\ StoreInv' /\ row'[r] = new /\ r \in Used'
         /\ \A q \in Used' : q = r \/ (q \in Used /\ row'[q] = row[q])
<1>1. row \in [RowIds -> Row] /\ nextRow \in Nat /\ RowIds \subseteq Nat
  BY Bounds DEF IInv, TypeOK, RecordType, RowIds
<1>2. row'[r] = new /\ \A q \in RowIds \ {r} : row'[q] = row[q]
  BY <1>1 DEF Amend
<1>3. Used' = Used \cup {r} /\ Used \subseteq RowIds
  <2>1. \A q \in RowIds : q < nextRow' <=> q < nextRow \/ q = r
    BY <1>1
  <2>2. QED
    BY <2>1 DEF Used
<1>4. OneCopy'
  BY StillMailbox
<1>5. OneRow'
  BY <1>2, <1>3 DEF StoreInv, OneRow
<1>6. Journalled'
  <2> SUFFICES ASSUME NEW m \in inflight, m.uid \in live
               PROVE  \E q \in Used' : Journals(row[q], m)'
    BY DEF Journalled, mailbox
  <2>1. PICK q \in Used : Journals(row[q], m)
    BY DEF StoreInv, Journalled
  <2>2. CASE q = r
    BY <1>2, <1>3, <2>1, <2>2 DEF Journals, mailbox
  <2>3. CASE q # r
    BY <1>2, <1>3, <2>1, <2>3 DEF Journals, mailbox
  <2>4. QED
    BY <2>2, <2>3
<1>7. RowsOpen'
  BY <1>2, <1>3 DEF StoreInv, RowsOpen, Open, mailbox
<1>8. QED
  BY <1>2, <1>3, <1>4, <1>5, <1>6, <1>7 DEF StoreInv

(* The location of the row in hand stays its own. *)
LEMMA OwnLocation ==
  ASSUME OneRow, NEW r \in Used, NEW q \in Used \ {r}, row[r].uid # 0
  PROVE  row[q].uid # row[r].uid
  BY DEF OneRow

(* A location that LocationFree found free. *)
LEMMA FreeLocation ==
  ASSUME ~ BodyGlitch, IInv, LabelInv, NEW r, NEW u, Issued(u), LocationFree(r, home[u], u),
         NEW q \in Used \ {r}
  PROVE  row[q].uid # u
<1> SUFFICES ASSUME row[q].uid = u PROVE FALSE
  OBVIOUS
<1>1. u # 0
  BY Bounds DEF Issued, Uids
<1>2. q \in RowsAt(home[u], u)
  BY <1>1, RowCopy DEF RowsAt
<1>3. QED
  BY <1>2 DEF LocationFree

(* The row in hand gets a new status, and the item is dropped. *)
LEMMA CopiesStatus ==
  ASSUME ~ BodyGlitch, IInv, LabelInv, CopyInv, pc \in {"learn", "await", "resolve"},
         NEW s \in {"pending_move", "error"}, s = "error" => row[job.row].folder \in Training,
         Amend(job.row, [row[job.row] EXCEPT !.status = s]),
         UNCHANGED <<mailbox, nextRow>>, inflight' \subseteq inflight,
         job' = NoJob, pc' = "loop"
  PROVE  CopyInv'
<1> DEFINE new == [row[job.row] EXCEPT !.status = s]
<1>1. job.row \in Used /\ job.row \in RowIds /\ job.row < nextRow'
  BY ItemRow DEF Used
<1>2. /\ new.uid = row[job.row].uid /\ new.folder = row[job.row].folder
      /\ new.action = row[job.row].action /\ new.status = s
  BY ItemRow DEF Row
<1>3. Amend(job.row, new)
  OBVIOUS
<1> HIDE DEF new
<1>4. \A m \in inflight : Journals(row[job.row], m) => Journals(new, m)
  BY <1>2 DEF Journals
<1>5. Open(new)
  BY <1>2 DEF Open
<1>6. new.uid # 0 => \A q \in Used \ {job.row} : row[q].uid # new.uid
  BY <1>1, <1>2, OwnLocation DEF CopyInv, StoreInv
<1>7. StoreInv'
  BY <1>1, <1>3, <1>4, <1>5, <1>6, WriteStore DEF CopyInv
<1>8. QED
  BY <1>7, NoItemInHand DEF CopyInv

LEMMA CopiesLearnFails == ASSUME ~ BodyGlitch, IInv, LabelInv, CopyInv, LearnFails PROVE CopyInv'
<1>1. row[job.row].folder \in Training
  BY FreshItem DEF LearnFails
<1>2. QED
  BY <1>1, CopiesStatus DEF LearnFails, DropItem

LEMMA CopiesUncertain ==
  ASSUME ~ BodyGlitch, IInv, LabelInv, CopyInv, ServerRefuses \/ ResolveFindsNone PROVE CopyInv'
  BY CopiesStatus DEF ServerRefuses, ResolveFindsNone, MarkMoveUncertain, DropItem

(* MarkIntent, MarkLearned and finishUnlearnedCorrection: the row keeps its
   place. *)
LEMMA CopiesRewrite ==
  ASSUME ~ BodyGlitch, IInv, LabelInv, CopyInv, pc \in {"intent", "learned", "unlearned"},
         NEW new, Amend(job.row, new), UNCHANGED <<mailbox, inflight, nextRow, job>>,
         new.uid = row[job.row].uid, new.folder = row[job.row].folder,
         new.content = row[job.row].content, Dest(new.action) = Dest(row[job.row].action),
         new.status = "pending_move" \/ (pc = "intent" /\ new.status = row[job.row].status),
         pc' \in {"learn", "unlearned", "supersede"},
         pc' = "supersede" => new.status = "pending_move"
  PROVE  CopyInv'
<1>1. /\ job.row \in Used /\ job.row \in RowIds /\ job.row < nextRow'
      /\ job.path \in Fresh /\ row[job.row].folder \in Training
  BY ItemRow, FreshItem DEF Used
<1>2. \A m \in inflight : Journals(row[job.row], m) => Journals(new, m)
  BY DEF Journals
<1>3. Open(new)
  BY <1>1 DEF Open, CopyInv, StoreInv, RowsOpen
<1>4. new.uid # 0 => \A q \in Used \ {job.row} : row[q].uid # new.uid
  BY <1>1, OwnLocation DEF CopyInv, StoreInv
<1>5. /\ StoreInv' /\ row'[job.row] = new
      /\ \A q \in Used' : q = job.row \/ (q \in Used /\ row'[q] = row[q])
  BY <1>1, <1>2, <1>3, <1>4, WriteStore DEF CopyInv
<1>6. \A q \in Used' : /\ q \in Used /\ row'[q].content = row[q].content
                       /\ row'[q].uid = row[q].uid
  BY <1>1, <1>5
<1>7. FreshAlone'
  BY <1>1, <1>5, <1>6 DEF CopyInv, FreshAlone, Content, mailbox
<1>8. RetrySeen' /\ GoneInv'
  BY <1>1 DEF RetrySeen, GoneInv, Fresh
<1>9. QED
  BY <1>5, <1>7, <1>8 DEF CopyInv

LEMMA CopiesMarkIntent == ASSUME ~ BodyGlitch, IInv, LabelInv, CopyInv, MarkIntent PROVE CopyInv'
<1> DEFINE new == [row[job.row] EXCEPT !.intent = Label]
<1>1. /\ pc = "intent" /\ Amend(job.row, new) /\ UNCHANGED <<mailbox, inflight, nextRow, job>>
      /\ pc' = IF job.path = "known" THEN "supersede"
               ELSE IF job.path = "learn" THEN "learn" ELSE "unlearned"
  BY DEF MarkIntent
<1>2. /\ new.uid = row[job.row].uid /\ new.folder = row[job.row].folder
      /\ new.content = row[job.row].content /\ new.action = row[job.row].action
      /\ new.status = row[job.row].status
  BY <1>1, ItemRow DEF Row
<1> HIDE DEF new
<1>3. pc' = "supersede" => new.status = "pending_move"
  BY <1>1, <1>2, FreshItem DEF CopyInv, FreshAlone
<1>4. QED
  BY <1>1, <1>2, <1>3, CopiesRewrite

LEMMA CopiesMarkLearned == ASSUME ~ BodyGlitch, IInv, LabelInv, CopyInv, MarkLearned PROVE CopyInv'
<1> DEFINE new == [row[job.row] EXCEPT !.status = "pending_move", !.feedback = Label,
                                       !.action = Learn(Label)]
<1>1. /\ pc = "learned" /\ pc' = "supersede" /\ Amend(job.row, new)
      /\ UNCHANGED <<mailbox, inflight, nextRow, job>>
  BY DEF MarkLearned
<1>2. /\ new.uid = row[job.row].uid /\ new.folder = row[job.row].folder
      /\ new.content = row[job.row].content /\ new.action = Learn(Label)
      /\ new.status = "pending_move"
  BY <1>1, ItemRow DEF Row
<1>3. Dest(Learn(Label)) = Dest(row[job.row].action)
  BY <1>1, ItemRow, FreshItem DEF Dest, Learn, Settled, Label
<1> HIDE DEF new
<1>4. QED
  BY <1>1, <1>2, <1>3, CopiesRewrite

LEMMA CopiesFinishUnlearned == ASSUME ~ BodyGlitch, IInv, LabelInv, CopyInv, FinishUnlearned PROVE CopyInv'
<1> DEFINE new == [row[job.row] EXCEPT !.uid = job.uid, !.status = "pending_move"]
<1>1. /\ pc = "unlearned" /\ pc' = "supersede" /\ Amend(job.row, new)
      /\ UNCHANGED <<mailbox, inflight, nextRow, job>>
  BY DEF FinishUnlearned, UpdateLocation
<1>2. /\ new.uid = row[job.row].uid /\ new.folder = row[job.row].folder
      /\ new.content = row[job.row].content /\ new.action = row[job.row].action
      /\ new.status = "pending_move"
  BY <1>1, ItemRow, FreshItem DEF Row
<1> HIDE DEF new
<1>3. QED
  BY <1>1, <1>2, CopiesRewrite

(* SupersedeOtherCopies meets no row of a copy that lives. *)
LEMMA CopiesSupersede == ASSUME ~ BodyGlitch, IInv, LabelInv, CopyInv, SupersedeOtherCopies PROVE CopyInv'
<1> DEFINE other(r) == r \in Used \ {job.row} /\ row[r].content = row[job.row].content
<1>1. /\ pc = "supersede" /\ pc' = "move"
      /\ UNCHANGED <<mailbox, inflight, nextRow, job>>
      /\ row' = [r \in RowIds |-> IF other(r) THEN [row[r] EXCEPT !.status = "superseded"]
                                             ELSE row[r]]
  BY DEF SupersedeOtherCopies
<1>2. /\ job.row \in Used /\ job.path \in Fresh /\ row[job.row].uid = job.uid
      /\ row[job.row].content = Content /\ job.uid # 0
  <2>1. Issued(job.uid)
    BY <1>1, FreshItem DEF IInv, FreshInv
  <2>2. QED
    BY <1>1, <2>1, ItemRow, FreshItem, Bounds DEF Issued, Uids
<1>3. Used' = Used /\ Used \subseteq RowIds
  BY <1>1 DEF Used
<1>4. ASSUME NEW r \in Used
      PROVE  /\ row'[r].folder = row[r].folder /\ row'[r].uid = row[r].uid
             /\ row'[r].content = row[r].content /\ row'[r].action = row[r].action
             /\ row'[r] = row[r] \/ row[r].uid \notin live
  <2>1. row[r] \in Row /\ r \in RowIds
    BY RowFields DEF IInv, Used
  <2>2. CASE other(r)
    <3>1. row'[r] = [row[r] EXCEPT !.status = "superseded"]
      BY <1>1, <2>1, <2>2
    <3>2. row[r].uid \in live => row[r].uid = job.uid
      BY <1>2, <2>2 DEF CopyInv, FreshAlone
    <3>3. row[r].uid # job.uid
      BY <1>2, <2>2 DEF CopyInv, StoreInv, OneRow
    <3>4. QED
      BY <2>1, <3>1, <3>2, <3>3 DEF Row
  <2>3. CASE ~ other(r)
    BY <1>1, <2>1, <2>3
  <2>4. QED
    BY <2>2, <2>3
<1>5. row'[job.row] = row[job.row]
  BY <1>1, <1>2, <1>3
<1> HIDE DEF other
<1>6. OneCopy' /\ OneRow'
  BY <1>1, <1>3, <1>4, StillMailbox DEF CopyInv, StoreInv, OneRow
<1>7. Journalled'
  <2> SUFFICES ASSUME NEW m \in inflight, m.uid \in live
               PROVE  \E q \in Used' : Journals(row[q], m)'
    BY <1>1 DEF Journalled, mailbox
  <2>1. PICK q \in Used : Journals(row[q], m)
    BY DEF CopyInv, StoreInv, Journalled
  <2>2. row'[q] = row[q]
    BY <1>4, <2>1 DEF Journals
  <2>3. QED
    BY <1>1, <1>3, <2>1, <2>2 DEF Journals, mailbox
<1>8. RowsOpen'
  <2> SUFFICES ASSUME NEW r \in Used, row'[r].folder \in Training, row'[r].uid \in live
               PROVE  row'[r].status \in {"error", "pending_move", "pending_learn",
                                          "observed", "blocked"}
    BY <1>1, <1>3 DEF RowsOpen, Open, mailbox
  <2>1. row'[r] = row[r]
    BY <1>4
  <2>2. QED
    BY <2>1 DEF CopyInv, StoreInv, RowsOpen, Open
<1>9. FreshAlone'
  <2>1. ASSUME NEW r \in Used, row[r].content = Content, row[r].uid \in live
        PROVE  row[r].uid = job.uid
    BY <1>2, <2>1 DEF CopyInv, FreshAlone
  <2>2. row'[job.row].status = "pending_move"
    BY <1>1, <1>2, <1>5 DEF CopyInv, FreshAlone
  <2>3. \A r \in Used' : row'[r].content = Content' /\ row'[r].uid \in live'
                          => row'[r].uid = job'.uid
    BY <1>1, <1>3, <1>4, <2>1 DEF Content, mailbox
  <2>4. QED
    BY <1>1, <2>2, <2>3 DEF FreshAlone
<1>10. RetrySeen' /\ GoneInv'
  BY <1>1, <1>2 DEF RetrySeen, GoneInv, Fresh
<1>11. QED
  BY <1>6, <1>7, <1>8, <1>9, <1>10 DEF CopyInv, StoreInv

(* A move is recorded only when the copy it started from is gone. *)
LEMMA CopiesFinalizeMove == ASSUME ~ BodyGlitch, IInv, LabelInv, CopyInv, FinalizeMove PROVE CopyInv'
<1> DEFINE new == [row[job.row] EXCEPT !.folder = Dest(job.action), !.uid = job.new,
                                       !.status = Final(job.action)]
<1>1. pc = "finalize" /\ pc' = "loop" /\ job' = NoJob /\ UNCHANGED <<mailbox, inflight, nextRow>>
  BY DEF FinalizeMove, DropItem
<1>2. CASE UNCHANGED row
  BY <1>1, <1>2, CopiesDrop
<1>3. CASE Amend(job.row, new) /\ LocationFree(job.row, Dest(job.action), job.new)
  <2>1. job.row \in Used /\ job.row \in RowIds /\ job.row < nextRow'
    BY <1>1, ItemRow DEF Used
  <2>2. new.uid = job.new /\ new.folder = Dest(job.action) /\ Dest(job.action) \notin Training
    BY <1>1, ItemRow DEF Row, Dest, Training
  <2>3. Issued(job.new) /\ home[job.new] = Dest(job.action)
    BY <1>1 DEF IInv, JobInv
  <2>4. row[job.row].uid \notin live
    <3>1. CASE job.path \in Fresh
      BY <1>1, <3>1 DEF IInv, FreshInv, CopyInv, GoneInv, Fresh
    <3>2. CASE job.path = "retry"
      BY <1>1, <3>2 DEF CopyInv, RetrySeen, GoneInv
    <3>3. QED
      BY <1>1, <3>1, <3>2, JobFields DEF IInv, JobInv, Fresh
  <2> HIDE DEF new
  <2>5. \A q \in Used \ {job.row} : row[q].uid # new.uid
    BY <1>3, <2>2, <2>3, FreeLocation
  <2>6. StoreInv'
    BY <1>1, <1>3, <2>1, <2>2, <2>4, <2>5, WriteStore DEF CopyInv, Journals, Open
  <2>7. QED
    BY <1>1, <2>6, NoItemInHand DEF CopyInv
<1>4. QED
  BY <1>2, <1>3 DEF FinalizeMove

(* A row is upserted at a location where no command is under way that the new
   row would not bring back. *)
Upserts(u, r, action, status) ==
  /\ Issued(u) /\ home[u] \in Folders /\ RoomFor(home[u], u) /\ r = UpsertId(home[u], u)
  /\ Upsert(home[u], u, body[u], action, status)
  /\ UNCHANGED mailbox /\ inflight' \subseteq inflight
  /\ home[u] \in Training => status \in {"pending_move", "pending_learn"}
  /\ \A m \in inflight : m.uid = u /\ u \in live =>
       /\ Dest(action) = m.dest
       /\ status = "pending_move" \/ (home[u] \in Training /\ status = "pending_learn")

LEMMA CopiesUpsert ==
  ASSUME ~ BodyGlitch, IInv, LabelInv, StoreInv, NEW u, NEW r, NEW action, NEW status,
         Upserts(u, r, action, status)
  PROVE  /\ StoreInv' /\ r \in Used'
         /\ row'[r].status = status
         /\ \A q \in Used' : q = r \/ (q \in Used /\ row'[q] = row[q])
         /\ row'[r].uid = u
<1> DEFINE new == [content |-> body[u], folder |-> home[u], uid |-> u,
                   action |-> action, status |-> status,
                   feedback |-> row[r].feedback, intent |-> row[r].intent]
<1>1. nextRow \in 1 .. MaxRow + 1 /\ RowsAt(home[u], u) \subseteq Used /\ Used \subseteq RowIds
  BY DEF IInv, TypeOK, RecordType, RowsAt, Used
<1>2. r \in RowsAt(home[u], u) \/ (RowsAt(home[u], u) = {} /\ r = nextRow)
  BY DEF UpsertId, Upserts
<1>3. r \in RowIds /\ (r < nextRow \/ r = nextRow)
  <2>1. CASE RowsAt(home[u], u) # {}
    BY <1>1, <1>2, <2>1 DEF Used
  <2>2. CASE RowsAt(home[u], u) = {}
    BY <1>1, <1>2, <2>2, Bounds DEF RoomFor, RowIds, Upserts
  <2>3. QED
    BY <2>1, <2>2
<1>4. Amend(r, new) /\ nextRow' = IF r = nextRow THEN nextRow + 1 ELSE nextRow
  BY DEF Upsert, Upserts
<1>5. /\ nextRow' = nextRow \/ (r = nextRow /\ nextRow' = nextRow + 1)
      /\ r < nextRow'
  BY <1>1, <1>3, <1>4
<1>6. /\ new.uid = u /\ new.folder = home[u] /\ new.action = action /\ new.status = status
      /\ u # 0
  BY Bounds DEF Issued, Uids, Upserts
<1> HIDE DEF new
<1>7. ASSUME NEW q \in Used \ {r} PROVE row[q].uid # u
  <2> SUFFICES ASSUME row[q].uid = u PROVE FALSE
    OBVIOUS
  <2>1. q \in RowsAt(home[u], u)
    BY <1>6, RowCopy DEF RowsAt
  <2>2. r \in Used /\ row[r].uid = u
    BY <1>2, <2>1 DEF RowsAt
  <2>3. QED
    BY <1>6, <2>2 DEF StoreInv, OneRow
<1>8. \A m \in inflight : m.uid \in live /\ r \in Used /\ Journals(row[r], m) => Journals(new, m)
  <2> SUFFICES ASSUME NEW m \in inflight, m.uid \in live, r \in Used, Journals(row[r], m)
               PROVE  Journals(new, m)
    OBVIOUS
  <2>1. r \in RowsAt(home[u], u)
    BY <1>1, <1>2 DEF Used, RowIds
  <2>2. m.uid = u
    BY <2>1 DEF Journals, RowsAt
  <2>3. QED
    BY <1>6, <2>2 DEF Journals, Upserts
<1>9. Open(new)
  BY <1>6 DEF Open, Upserts
<1>10. /\ StoreInv' /\ row'[r] = new /\ r \in Used'
       /\ \A q \in Used' : q = r \/ (q \in Used /\ row'[q] = row[q])
  BY <1>3, <1>4, <1>5, <1>6, <1>7, <1>8, <1>9, WriteStore DEF Upserts
<1>11. QED
  BY <1>6, <1>10

LEMMA CopiesUpsertPending == ASSUME ~ BodyGlitch, IInv, LabelInv, CopyInv, UpsertPending PROVE CopyInv'
<1> DEFINE at == UpsertId(stage, job.uid)
           next == IF job.path \in {"auto", "known"} THEN "pending_move" ELSE "pending_learn"
<1>1. /\ pc = "upsert" /\ RoomFor(stage, job.uid)
      /\ Upsert(stage, job.uid, body[job.uid], job.action, next)
      /\ job' = [job EXCEPT !.row = at]
      /\ pc' = IF job.path = "auto" THEN "move" ELSE "intent"
      /\ UNCHANGED <<mailbox, inflight>>
  BY DEF UpsertPending, Content
<1>2. job.path \in Fresh
  BY <1>1, JobFields DEF IInv, JobInv, RetryInv, Fresh
<1>3. /\ stage \in Folders /\ Issued(job.uid) /\ home[job.uid] = stage
      /\ Custody!Permitted(stage, Dest(job.action))
      /\ job.path # "auto" => stage \in Training
      /\ stage \in Training => Dest(job.action) = IF stage = "TrainSpam" THEN "Quarantine"
                                                                        ELSE "Inbox"
  BY <1>2 DEF IInv, FreshInv, Fresh, Custody!Permitted, Training
<1>4. ASSUME NEW m \in inflight, m.uid = job.uid
      PROVE  stage \in Training /\ Dest(job.action) = m.dest
  <2>1. Custody!Permitted(stage, m.dest)
    BY <1>3, <1>4 DEF IInv, CommandInv
  <2>2. job.path # "auto"
    BY <1>1, <1>2, <1>4 DEF CopyInv, FreshAlone
  <2>3. QED
    BY <1>3, <2>1, <2>2 DEF Custody!Permitted, Training
<1>5. /\ stage \in Training => next \in {"pending_move", "pending_learn"}
      /\ job.path \in {"auto", "known"} => next = "pending_move"
      /\ job.path \in {"auto", "known"} \/ next = "pending_learn"
  OBVIOUS
<1> HIDE DEF next
<1>6. /\ StoreInv' /\ at \in Used' /\ row'[at].status = next /\ row'[at].uid = job.uid
      /\ \A q \in Used' : q = at \/ (q \in Used /\ row'[q] = row[q])
  <2>1. /\ home[job.uid] \in Folders /\ RoomFor(home[job.uid], job.uid)
        /\ Upsert(home[job.uid], job.uid, body[job.uid], job.action, next)
        /\ home[job.uid] \in Training => next \in {"pending_move", "pending_learn"}
        /\ at = UpsertId(home[job.uid], job.uid)
    BY <1>1, <1>3, <1>5
  <2>2. \A m \in inflight : m.uid = job.uid /\ job.uid \in live =>
          /\ Dest(job.action) = m.dest
          /\ next = "pending_move" \/ (home[job.uid] \in Training /\ next = "pending_learn")
    BY <1>3, <1>4, <1>5
  <2>3. StoreInv /\ UNCHANGED mailbox /\ inflight' \subseteq inflight
    BY <1>1 DEF CopyInv
  <2>4. Upserts(job.uid, at, job.action, next)
    BY <1>3, <2>1, <2>2, <2>3 DEF Upserts
  <2> HIDE DEF at
  <2>5. QED
    BY <2>3, <2>4, CopiesUpsert
<1> HIDE DEF at
<1>7. /\ job'.row = at /\ job'.uid = job.uid /\ job'.path = job.path
  BY <1>1 DEF IInv, TypeOK, RunType, Job
<1>8. FreshAlone'
  BY <1>1, <1>2, <1>5, <1>6, <1>7 DEF CopyInv, FreshAlone, Content, mailbox
<1>9. RetrySeen' /\ GoneInv'
  BY <1>1, <1>2, <1>7 DEF RetrySeen, GoneInv, Fresh
<1>10. QED
  BY <1>6, <1>8, <1>9 DEF CopyInv

(* A location whose move is pending is left alone, so no command is under way
   for the copy that is taken. *)
LEMMA NoneUnderWay ==
  ASSUME IInv, CopyInv, NEW u \in live, home[u] \notin Training, ~ LocationPending(home[u], u),
         NEW m \in inflight
  PROVE  m.uid # u
<1> SUFFICES ASSUME m.uid = u PROVE FALSE
  OBVIOUS
<1>1. PICK r \in Used : Journals(row[r], m)
  BY DEF CopyInv, StoreInv, Journalled
<1>2. r \in RowsAt(home[u], u) \cap Pending
  BY <1>1 DEF Journals, RowsAt, Pending
<1>3. QED
  BY <1>2 DEF LocationPending

LEMMA CopiesFolderKeeps ==
  ASSUME ~ BodyGlitch, IInv, LabelInv, CopyInv, NEW u \in todo, NEW due \in BOOLEAN, FolderKeeps(u, due)
  PROVE  CopyInv'
<1>1. PICK v \in Verdicts(body[u]) :
        Upsert(stage, u, body[u], "keep",
               IF v = "error" THEN "error" ELSE IF Active THEN "kept" ELSE "observed")
  BY DEF FolderKeeps
<1>2. /\ stage \in {"Spam", "Inbox"} /\ stage \in Folders /\ stage \notin Training
      /\ Takes(u) /\ RoomFor(stage, u) /\ u \in live
      /\ UNCHANGED <<mailbox, inflight, pc, job>> /\ ~ LocationPending(stage, u)
  BY DEF FolderKeeps, FolderTakes, Folders, Training, Processed
<1>3. Issued(u) /\ home[u] = stage
  BY <1>2 DEF IInv, StageInv
<1>4. \A m \in inflight : m.uid # u
  BY <1>2, <1>3, NoneUnderWay
<1>5. StoreInv'
  <2>1. PICK status : Upserts(u, UpsertId(home[u], u), "keep", status)
    BY <1>1, <1>2, <1>3, <1>4 DEF Upserts
  <2>2. QED
    BY <2>1, CopiesUpsert DEF CopyInv
<1>6. job' = NoJob /\ pc' = "loop"
  BY <1>2 DEF Takes, IInv, JobInv
<1>7. QED
  BY <1>5, <1>6, NoItemInHand DEF CopyInv

-----------------------------------------------------------------------------
(* A move that is made up for *)

LEMMA CopiesScanSource ==
  ASSUME ~ BodyGlitch, IInv, LabelInv, CopyInv, NEW r \in todo, ScanSource(r) PROVE CopyInv'
<1>1. /\ pc' = "scan" /\ UNCHANGED <<mailbox, inflight, row, nextRow>>
      /\ job' = Item(r, 0, row[r].action, "retry", Matches(row[r].folder, row[r].content))
  BY DEF ScanSource, ReconcileTakes
<1>2. /\ job'.row = r /\ job'.uid = 0 /\ job'.path = "retry" /\ job'.new = 0
      /\ job'.found = Matches(row[r].folder, row[r].content)
  BY <1>1 DEF Item
<1>3. r \in Used
  BY DEF ScanSource, ReconcileTakes, IInv, StageInv, Pending
<1>4. \A u, v \in job'.found : u = v
  BY <1>2 DEF Matches, CopyInv, StoreInv, OneCopy, In
<1>5. row[r].uid \in live => row[r].uid \in job'.found
  BY <1>2, <1>3, RowCopy, LiveCopies DEF Matches, In
<1>6. FreshAlone' /\ RetrySeen' /\ GoneInv'
  BY <1>1, <1>2, <1>4, <1>5 DEF FreshAlone, RetrySeen, GoneInv, Fresh, mailbox
<1>7. QED
  BY <1>1, <1>6, StillMailbox, FadesStore DEF CopyInv

(* When a scan is ambiguous, the copy the row names is gone. *)
LEMMA AmbiguousGone ==
  ASSUME ~ BodyGlitch, IInv, LabelInv, CopyInv, pc = "scan",
         ~ \E u \in Uids : OnlySource(u) \/ OnlyDestination(u)
  PROVE  row[job.row].uid \notin live
<1> DEFINE w == row[job.row].uid
<1> SUFFICES ASSUME w \in live PROVE FALSE
  OBVIOUS
<1>1. job.path = "retry" /\ job.row \in Used
  BY ItemRow DEF IInv, JobInv
<1>2. w \in job.found /\ job.found = {w} /\ w \in Uids
  BY <1>1, LiveCopies DEF CopyInv, RetrySeen
<1>3. home[w] = row[job.row].folder /\ body[w] = row[job.row].content
  BY <1>1, <1>2 DEF IInv, RetryInv
<1>4. PICK v \in Scanned : TRUE
  BY <1>2 DEF OnlySource
<1>5. v \in live /\ home[v] = Dest(job.action) /\ body[v] = row[job.row].content
  BY DEF Scanned, Matches, In
<1>6. v = w
  BY <1>3, <1>5 DEF CopyInv, StoreInv, OneCopy
<1>7. Custody!Permitted(home[w], home[w])
  BY <1>3, <1>5, <1>6, ItemRow
<1>8. QED
  BY <1>7 DEF Custody!Permitted

LEMMA CopiesScanDecides == ASSUME ~ BodyGlitch, IInv, LabelInv, CopyInv, ScanDecides PROVE CopyInv'
<1>1. /\ pc = "scan" /\ UNCHANGED <<mailbox, inflight, nextRow>> /\ job.path = "retry"
      /\ job.row \in Used /\ job.row \in RowIds
  BY ItemRow DEF ScanDecides, IInv, JobInv
<1>2. ASSUME NEW u \in Uids, OnlySource(u) \/ OnlyDestination(u), pc' = "settle",
             job' = IF OnlySource(u) THEN [job EXCEPT !.uid = u] ELSE [job EXCEPT !.new = u],
             UNCHANGED row
      PROVE  CopyInv'
  <2>1. job \in Job /\ u # 0
    BY Bounds DEF IInv, TypeOK, RunType, Uids
  <2>2. /\ job'.row = job.row /\ job'.path = "retry" /\ job'.found = job.found
        /\ OnlySource(u) => job'.uid = u /\ job'.new = job.new
        /\ ~ OnlySource(u) => job'.uid = job.uid
    BY <1>1, <1>2, <2>1 DEF Job
  <2>3. RetrySeen'
    BY <1>1, <1>2, <2>1, <2>2
    DEF CopyInv, RetrySeen, OnlySource, OnlyDestination, mailbox
  <2>4. FreshAlone' /\ GoneInv'
    BY <1>2, <2>2 DEF FreshAlone, GoneInv, Fresh
  <2>5. QED
    BY <1>1, <1>2, <2>3, <2>4, StillMailbox, FadesStore DEF CopyInv
<1>3. ASSUME ~ \E u \in Uids : OnlySource(u) \/ OnlyDestination(u),
             UpdateLocation(job.row, 0, "move_ambiguous"), DropItem
      PROVE  CopyInv'
  <2> DEFINE new == [row[job.row] EXCEPT !.uid = 0, !.status = "move_ambiguous"]
  <2>1. row[job.row].uid \notin live
    BY <1>1, <1>3, AmbiguousGone
  <2>2. new.uid = 0 /\ Amend(job.row, new)
    BY <1>1, <1>3, ItemRow DEF Row, UpdateLocation
  <2> HIDE DEF new
  <2>3. Open(new) /\ job.row < nextRow'
    BY <1>1, <2>2, LiveCopies DEF Open, Used
  <2>4. StoreInv'
    BY <1>1, <2>1, <2>2, <2>3, WriteStore DEF CopyInv, Journals
  <2>5. QED
    BY <1>3, <2>4, NoItemInHand DEF CopyInv, DropItem
<1>4. QED
  BY <1>2, <1>3 DEF ScanDecides

LEMMA CopiesSettleSource == ASSUME ~ BodyGlitch, IInv, LabelInv, CopyInv, SettleSource PROVE CopyInv'
<1> DEFINE new == [row[job.row] EXCEPT !.uid = job.uid, !.status = "pending_move"]
<1>1. /\ pc = "settle" /\ job.uid # 0 /\ UNCHANGED <<mailbox, inflight, nextRow>>
      /\ job.path = "retry" /\ job.row \in Used /\ job.row \in RowIds /\ job.row < nextRow'
  BY ItemRow DEF SettleSource, IInv, JobInv, Used
<1>2. CASE DropItem /\ UNCHANGED row
  BY <1>1, <1>2, CopiesDrop DEF DropItem
<1>3. CASE /\ Amend(job.row, new) /\ pc' = "move" /\ UNCHANGED job
           /\ LocationFree(job.row, row[job.row].folder, job.uid)
  <2>1. /\ new.uid = job.uid /\ new.folder = row[job.row].folder
        /\ new.action = row[job.row].action /\ new.status = "pending_move"
    BY <1>1, ItemRow DEF Row
  <2>2. Issued(job.uid) /\ home[job.uid] = row[job.row].folder
    BY <1>1 DEF IInv, RetryInv
  <2> HIDE DEF new
  <2>3. \A q \in Used \ {job.row} : row[q].uid # new.uid
    BY <1>3, <2>1, <2>2, FreeLocation
  <2>4. row[job.row].uid \in live => row[job.row].uid = job.uid
    BY <1>1 DEF CopyInv, RetrySeen
  <2>5. \A m \in inflight : m.uid \in live /\ Journals(row[job.row], m) => Journals(new, m)
    BY <2>1, <2>4 DEF Journals
  <2>6. Open(new)
    BY <2>1 DEF Open
  <2>7. StoreInv' /\ row'[job.row] = new
    BY <1>1, <1>3, <2>3, <2>5, <2>6, WriteStore DEF CopyInv
  <2>8. RetrySeen'
    BY <1>1, <1>3, <2>1, <2>7 DEF CopyInv, RetrySeen, mailbox
  <2>9. FreshAlone' /\ GoneInv'
    BY <1>1, <1>3 DEF FreshAlone, GoneInv, Fresh
  <2>10. QED
    BY <2>7, <2>8, <2>9 DEF CopyInv
<1>4. QED
  BY <1>2, <1>3 DEF SettleSource, UpdateLocation

LEMMA CopiesSettleDestination ==
  ASSUME ~ BodyGlitch, IInv, LabelInv, CopyInv, SettleDestination PROVE CopyInv'
<1>1. pc = "settle" /\ job.new # 0 /\ UNCHANGED <<mailbox, inflight, row, nextRow>>
  BY DEF SettleDestination
<1>2. CASE DropItem
  BY <1>1, <1>2, CopiesDrop DEF DropItem
<1>3. CASE pc' = "finalize" /\ UNCHANGED job
  <2>1. job.uid = 0
    BY <1>1 DEF IInv, JobInv, CopyInv, RetrySeen
  <2>2. Fades /\ live' \subseteq Uids /\ 0 \notin live'
    BY <1>1, StillMailbox, LiveCopies DEF CopyInv, mailbox
  <2>3. FreshAlone' /\ RetrySeen' /\ GoneInv'
    BY <1>1, <1>3, <2>1, <2>2, ItemGoesOn
  <2>4. QED
    BY <1>1, <2>3, StillMailbox, FadesStore DEF CopyInv
<1>4. QED
  BY <1>2, <1>3 DEF SettleDestination

-----------------------------------------------------------------------------
(* Fresh items *)

LEMMA CopiesTake ==
  ASSUME ~ BodyGlitch, IInv, LabelInv, CopyInv, UNCHANGED <<mailbox, inflight, row, nextRow>>,
         NEW u \in live, NEW path \in Fresh, NEW action, job' = Item(0, u, action, path, {}),
         pc' = "save", path = "auto" => \A m \in inflight : m.uid # u
  PROVE  CopyInv'
<1>1. job'.uid = u /\ job'.path = path
  BY DEF Item
<1>2. ASSUME NEW r \in Used, row[r].content = body[u], row[r].uid \in live
      PROVE  row[r].uid = u
  BY <1>2, RowCopy, LiveCopies DEF CopyInv, StoreInv, OneCopy
<1>3. FreshAlone'
  BY <1>1, <1>2 DEF FreshAlone, Content, mailbox, Used
<1>4. RetrySeen' /\ GoneInv'
  BY <1>1 DEF RetrySeen, GoneInv, Fresh
<1>5. QED
  BY <1>3, <1>4, StillMailbox, FadesStore DEF CopyInv

LEMMA CopiesTrainingTakes ==
  ASSUME ~ BodyGlitch, IInv, LabelInv, CopyInv, NEW u \in todo, TrainingTakes(u) PROVE CopyInv'
<1> DEFINE path == IF HasLearnedFeedback(body[u], Label) THEN "known"
                   ELSE IF body[u] \in Malformed THEN "unlearnable" ELSE "learn"
           action == IF path = "learn" THEN Learn(Label) ELSE Settled(Label)
<1>1. /\ u \in live /\ UNCHANGED <<mailbox, inflight, row, nextRow>> /\ pc' = "save"
      /\ job' = Item(0, u, action, path, {})
  BY DEF TrainingTakes
<1>2. path \in Fresh /\ path # "auto"
  BY DEF Fresh
<1> HIDE DEF path, action
<1>3. QED
  BY <1>1, <1>2, CopiesTake

LEMMA CopiesFolderMoves ==
  ASSUME ~ BodyGlitch, IInv, LabelInv, CopyInv, NEW u \in todo, NEW due \in BOOLEAN, FolderMoves(u, due)
  PROVE  CopyInv'
<1>1. PICK v \in Verdicts(body[u]) : job' = Item(0, u, Decision(v), "auto", {})
  BY DEF FolderMoves
<1>2. /\ stage \in Folders /\ stage \notin Training /\ u \in live /\ pc' = "save"
      /\ UNCHANGED <<mailbox, inflight, row, nextRow>> /\ ~ LocationPending(stage, u)
  BY DEF FolderMoves, FolderTakes, Folders, Training, Processed
<1>3. \A m \in inflight : m.uid # u
  BY <1>2, NoneUnderWay DEF IInv, StageInv
<1>4. QED
  BY <1>1, <1>2, <1>3, CopiesTake DEF Fresh

(* The item in hand is archived, learned, or its new copy found. *)
LEMMA CopiesAdvance ==
  ASSUME ~ BodyGlitch, IInv, LabelInv, CopyInv,
         SaveArchive \/ RspamdLearns \/ \E u \in Uids : ResolveFinds(u)
  PROVE  CopyInv'
<1>1. /\ UNCHANGED <<mailbox, inflight, row, nextRow>>
      /\ \/ pc = "save" /\ pc' = "upsert"
         \/ pc = "learn" /\ pc' \in {"learned", "unlearned"}
         \/ pc = "resolve" /\ pc' = "finalize"
  <2>1. ASSUME SaveArchive
        PROVE  UNCHANGED <<mailbox, inflight, row, nextRow>> /\ pc = "save" /\ pc' = "upsert"
    BY <2>1 DEF SaveArchive
  <2>2. CASE RspamdLearns
    BY <2>2 DEF RspamdLearns
  <2>3. ASSUME NEW u \in Uids, ResolveFinds(u)
        PROVE  UNCHANGED <<mailbox, inflight, row, nextRow>> /\ pc = "resolve" /\ pc' = "finalize"
    BY <2>3 DEF ResolveFinds
  <2>4. QED
    BY <2>1, <2>2, <2>3
<1>2. /\ job'.row = job.row /\ job'.uid = job.uid /\ job'.path = job.path
      /\ job'.found = job.found
  BY DEF SaveArchive, RspamdLearns, ResolveFinds, IInv, TypeOK, RunType, Job
<1>3. FreshAlone' /\ RetrySeen' /\ GoneInv'
  BY <1>1, <1>2, ItemGoesOn, StillMailbox DEF CopyInv
<1>4. QED
  BY <1>1, <1>3, StillMailbox, FadesStore DEF CopyInv

(* The command that is sent is one its row would bring back. *)
LEMMA CopiesSendMove == ASSUME ~ BodyGlitch, IInv, LabelInv, CopyInv, SendMove PROVE CopyInv'
<1>1. /\ pc = "move" /\ pc' = "await" /\ UNCHANGED <<mailbox, row, nextRow>>
      /\ inflight' = inflight \cup {Command}
  BY DEF SendMove
<1>2. /\ job'.row = job.row /\ job'.uid = job.uid /\ job'.path = job.path
      /\ job'.found = job.found
  BY DEF SendMove, IInv, TypeOK, RunType, Job
<1>3. FreshAlone' /\ RetrySeen' /\ GoneInv'
  BY <1>1, <1>2, ItemGoesOn, StillMailbox DEF CopyInv
<1>4. /\ job.row \in Used /\ row[job.row].uid = job.uid
      /\ row[job.row].status \in {"pending_move", "move_ambiguous"}
      /\ Dest(row[job.row].action) = Dest(job.action)
  <2>1. job.row \in Used /\ Dest(row[job.row].action) = Dest(job.action)
    BY <1>1, ItemRow
  <2>2. CASE job.path \in Fresh
    <3>1. row[job.row].uid = job.uid
      BY <1>1, <2>2 DEF IInv, FreshInv, Fresh
    <3>2. row[job.row].status = "pending_move"
      BY <1>1, <2>1, <2>2 DEF CopyInv, FreshAlone
    <3>3. QED
      BY <2>1, <3>1, <3>2
  <2>3. CASE job.path = "retry"
    BY <1>1, <2>1, <2>3 DEF CopyInv, RetrySeen, IInv, RetryInv, Pending
  <2>4. QED
    BY <1>1, <2>1, <2>2, <2>3, JobFields DEF IInv, JobInv, Fresh
<1>5. job.uid \in live => Journals(row[job.row], Command)
  <2> SUFFICES ASSUME job.uid \in live PROVE Journals(row[job.row], Command)
    OBVIOUS
  <2>1. home[job.uid] = row[job.row].folder
    BY <1>4, RowCopy, LiveCopies
  <2>2. QED
    BY <1>4, <2>1 DEF Journals, Command
<1>6. OneCopy' /\ OneRow' /\ RowsOpen'
  BY <1>1, StillMailbox DEF CopyInv, StoreInv, OneRow, RowsOpen, Open, Used, mailbox
<1>7. Journalled'
  <2> SUFFICES ASSUME NEW m \in inflight \cup {Command}, m.uid \in live
               PROVE  \E q \in Used : Journals(row[q], m)
    BY <1>1 DEF Journalled, Journals, Used, mailbox
  <2>1. CASE m = Command
    BY <1>4, <1>5, <2>1 DEF Command
  <2>2. CASE m \in inflight
    BY <2>2 DEF CopyInv, StoreInv, Journalled
  <2>3. QED
    BY <2>1, <2>2
<1>8. QED
  BY <1>3, <1>6, <1>7 DEF CopyInv, StoreInv

(* The server carries a command out, finds nothing to move, or drops it. *)
LEMMA CopiesServerMoves ==
  ASSUME ~ BodyGlitch, IInv, LabelInv, CopyInv, NEW m \in inflight, ServerMoves(m) PROVE CopyInv'
<1>1. /\ m.uid \in live /\ Issue(m.dest, body[m.uid], {m.uid}) /\ UNCHANGED <<row, nextRow>>
      /\ inflight' \subseteq inflight
      /\ \/ UNCHANGED <<pc, job>>
         \/ Awaited(m) /\ pc' = "finalize" /\ job' = [job EXCEPT !.new = nextUid]
         \/ Awaited(m) /\ pc' = "resolve" /\ UNCHANGED job
  BY DEF ServerMoves
<1>2. m.dest \in Folders /\ body[m.uid] \in Contents
  BY DEF IInv, TypeOK, RecordType, CommandInv, MailboxInv, Issued, Folders
<1>3. \A v \in live : body[v] = body[m.uid] => v \in {m.uid}
  BY <1>1 DEF CopyInv, StoreInv, OneCopy
<1>4. OneCopy' /\ Fades /\ live' \subseteq Uids
  BY <1>1, <1>2, <1>3, IssueCopies DEF CopyInv, StoreInv
<1>5. StoreInv'
  BY <1>1, <1>4, FadesStore DEF CopyInv
<1>6. CASE UNCHANGED <<pc, job>>
  BY <1>1, <1>4, <1>6, CopiesOutside
<1>7. CASE Awaited(m) /\ pc' \in {"resolve", "finalize"}
  <2>1. pc = "await" /\ job.uid = m.uid
    BY <1>7 DEF Awaited, Command
  <2>2. job.uid \notin live'
    BY <1>1, <2>1, LiveCopies DEF Issue
  <2>3. /\ job'.row = job.row /\ job'.uid = job.uid /\ job'.path = job.path
        /\ job'.found = job.found
    BY <1>1 DEF IInv, TypeOK, RunType, Job
  <2>4. FreshAlone' /\ RetrySeen' /\ GoneInv'
    BY <1>1, <1>4, <1>7, <2>1, <2>2, <2>3, ItemGoesOn
  <2>5. QED
    BY <1>5, <2>4 DEF CopyInv
<1>8. QED
  BY <1>1, <1>6, <1>7

LEMMA CopiesServerMovesNothing ==
  ASSUME ~ BodyGlitch, IInv, LabelInv, CopyInv, NEW m \in inflight, ServerMovesNothing(m) PROVE CopyInv'
<1>1. /\ m.uid \notin live /\ UNCHANGED <<mailbox, row, nextRow, job>>
      /\ inflight' \subseteq inflight /\ pc' = IF Awaited(m) THEN "resolve" ELSE pc
  BY DEF ServerMovesNothing
<1>2. CASE ~ Awaited(m)
  BY <1>1, <1>2, StillMailbox, CopiesOutside DEF CopyInv
<1>3. CASE Awaited(m)
  <2>1. pc = "await" /\ job.uid = m.uid
    BY <1>3 DEF Awaited, Command
  <2>2. FreshAlone' /\ RetrySeen' /\ GoneInv'
    BY <1>1, <1>3, <2>1, StillMailbox, ItemGoesOn DEF CopyInv, mailbox
  <2>3. QED
    BY <1>1, <2>2, StillMailbox, FadesStore DEF CopyInv
<1>4. QED
  BY <1>2, <1>3

-----------------------------------------------------------------------------
(* Every step *)

LEMMA CopiesInit == Init => CopyInv
<1> SUFFICES ASSUME Init PROVE CopyInv
  OBVIOUS
<1>1. live = {} /\ inflight = {} /\ nextRow = 1 /\ pc = "idle" /\ job = NoJob
  BY DEF Init
<1>2. Used = {}
  BY <1>1, Bounds DEF Used, RowIds
<1>3. job.path = "none"
  BY <1>1 DEF NoJob, Item
<1>4. QED
  BY <1>1, <1>2, <1>3 DEF CopyInv, StoreInv, OneCopy, OneRow, Journalled, RowsOpen,
     FreshAlone, RetrySeen, GoneInv, Fresh

(* Steps of the run that give up what they had in hand, if anything. *)
LEMMA CopiesQuiet ==
  ASSUME ~ BodyGlitch, IInv, LabelInv, CopyInv,
         \/ StartRun \/ EndStage \/ EndRun \/ RunCutShort \/ ReconcileDeadline \/ ScanFails
         \/ StoreFails
         \/ \E r \in todo : ReconcileSkips(r)
         \/ \E u \in todo : Passes(u) \/ \E due \in BOOLEAN : FetchFails(u, due)
  PROVE  CopyInv'
<1>1. /\ UNCHANGED <<mailbox, inflight, row, nextRow>>
      /\ \/ pc' \in {"idle", "loop"} /\ job' = NoJob
         \/ pc = "loop" /\ UNCHANGED <<pc, job>>
  BY DEF StartRun, EndStage, StageOver, EndRun, RunCutShort, Stop, ReconcileDeadline, ScanFails,
     ReconcileTakes, StoreFails, DropItem, ReconcileSkips, Passes, FetchFails, Takes
<1>2. job' = NoJob /\ pc' \in {"idle", "loop"}
  BY <1>1 DEF IInv, JobInv
<1>3. QED
  BY <1>1, <1>2, CopiesDrop

LEMMA CopiesNext ==
  IInv /\ LabelInv /\ CopyInv /\ ~ Duplicates /\ ~ BodyGlitch /\ [Next]_vars => CopyInv'
<1> SUFFICES ASSUME IInv, LabelInv, CopyInv, ~ Duplicates, ~ BodyGlitch, [Next]_vars
             PROVE  CopyInv'
  OBVIOUS
<1>1. ASSUME UNCHANGED <<mailbox, row, nextRow, pc, job>>, inflight' \subseteq inflight
      PROVE  CopyInv'
  BY <1>1, StillMailbox, CopiesOutside DEF CopyInv
<1>2. CASE Environment
  BY <1>2, CopiesEnvironment
<1>3. CASE SwitchMode \/ UNCHANGED vars
  BY <1>1, <1>3 DEF SwitchMode, run, vars, mailbox
<1>4. CASE StartRun \/ EndStage \/ EndRun
  BY <1>4, CopiesQuiet
<1>5. CASE Reconcile
  BY <1>5, CopiesQuiet, CopiesScanSource, CopiesScanDecides, CopiesSettleSource,
     CopiesSettleDestination DEF Reconcile
<1>6. CASE Pick
  BY <1>6, CopiesQuiet, CopiesTrainingTakes, CopiesFolderMoves, CopiesFolderKeeps DEF Pick
<1>7. CASE Write
  BY <1>7, CopiesAdvance, CopiesUpsertPending, CopiesMarkIntent, CopiesMarkLearned,
     CopiesFinishUnlearned, CopiesSupersede, CopiesFinalizeMove DEF Write
<1>8. CASE SendMove
  BY <1>8, CopiesSendMove
<1>9. CASE Resolve
  BY <1>9, CopiesAdvance, CopiesUncertain DEF Resolve
<1>10. CASE Server
  BY <1>10, CopiesServerMoves, CopiesServerMovesNothing DEF Server
<1>11. ASSUME NEW m \in inflight, ServerDiscards(m) PROVE CopyInv'
  BY <1>1, <1>11 DEF ServerDiscards, run
<1>12. CASE Trouble
  BY <1>11, <1>12, CopiesQuiet, CopiesLearnFails, CopiesUncertain DEF Trouble, TrainingBlocked
<1>13. QED
  BY <1>2, <1>3, <1>4, <1>5, <1>6, <1>7, <1>8, <1>9, <1>10, <1>12 DEF Next

(* With one copy of every message and bodies that can be read, what was said of
   the copies holds in every reachable state. *)
THEOREM CopiesKept == ~ Duplicates /\ ~ BodyGlitch => (Spec => []CopyInv)
<1> SUFFICES ASSUME ~ Duplicates, ~ BodyGlitch PROVE Spec => []CopyInv
  OBVIOUS
<1>1. Init => LabelInv /\ CopyInv
  BY LabelsInit, CopiesInit
<1>2. IInv /\ LabelInv /\ CopyInv /\ [Next]_vars => LabelInv' /\ CopyInv'
  BY LabelsNext, CopiesNext DEF LabelStep
<1>3. QED
  BY Inductive, <1>1, <1>2, PTL DEF Spec

(* Whichever step a run is cut short at, a MOVE the server may still carry out
   has a row the next run comes back to (movePending, reconcilePending): as long
   as the owner makes no copies and every body can be read. *)
THEOREM MovesAreFoundAgain ==
  ~ Duplicates /\ ~ BodyGlitch => (Spec => []MovesAreJournalled)
<1> SUFFICES ASSUME ~ Duplicates, ~ BodyGlitch PROVE Spec => []MovesAreJournalled
  OBVIOUS
<1>1. CopyInv => MovesAreJournalled
  BY JournalledIs DEF CopyInv, StoreInv
<1>2. QED
  BY CopiesKept, <1>1, PTL
=============================================================================
