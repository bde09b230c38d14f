----------------------------- MODULE GuardianRun -----------------------------
(***************************************************************************)
(* One mail-processing run of Guardian (internal/engine, Engine.Run) and   *)
(* everything it shares: the IMAP mailbox, the SQLite message journal, the *)
(* encrypted archive and the Bayes model.                                  *)
(*                                                                         *)
(* The run lock admits one worker, so the engine is one sequential process *)
(* whose program counter is pc.  Between any two of its steps the mailbox  *)
(* owner may move, copy or delete mail, new mail may arrive, the server    *)
(* may carry out a MOVE whose reply nobody waits for any more, and the run *)
(* may be cut short (process death, lost IMAP session, expired deadline).  *)
(* A cut short run loses everything but the journal, the archive, the      *)
(* model and the mailbox.                                                  *)
(*                                                                         *)
(* Data abstraction.  A raw message is a member of Contents and stands for *)
(* its SHA-256, size and Message-ID.  A pair (UIDVALIDITY, UID) of a       *)
(* folder is one number that is never issued twice, so a folder that is    *)
(* renumbered hands out new numbers to the copies it holds.  Scores,       *)
(* symbols and times are left out: a scan returns any verdict.             *)
(*                                                                         *)
(* A definition called a slip is no part of the system: it is a mistake    *)
(* that the definition below it could contain, kept to show that the       *)
(* properties notice it.                                                   *)
(***************************************************************************)
EXTENDS Naturals, FiniteSets

CONSTANTS
  Contents,      \* raw messages
  Absent,        \* stands for the hash of a message whose body was not read
  Malformed,     \* contents that fail validateRFC822MIME
  Modes,         \* the values Config.Safety.Mode takes over time
  MaxPerFolder,  \* Config.Safety.MaxMessagesPerFolder
  BodyGlitch,    \* TRUE: a training fetch may yield no usable body
  Duplicates,    \* TRUE: the owner may copy mail and mail may be redelivered
  MaxUid,        \* bound: UIDs the server can issue
  MaxRow,        \* bound: rows of the journal
  MaxFaults,     \* bound: failures of the server, Rspamd, SQLite or process
  MaxExternal    \* bound: deliveries and actions of the mailbox owner

ASSUME RunAssumption ==
  /\ Absent \notin Contents
  /\ Malformed \subseteq Contents
  /\ Modes \subseteq {"protect", "active"} /\ Modes # {}
  /\ BodyGlitch \in BOOLEAN /\ Duplicates \in BOOLEAN
  /\ MaxPerFolder \in Nat \ {0}
  /\ MaxUid \in Nat /\ MaxRow \in Nat /\ MaxFaults \in Nat /\ MaxExternal \in Nat

Folders  == {"Inbox", "Spam", "Quarantine", "Review", "TrainSpam", "TrainHam"}
Training == {"TrainSpam", "TrainHam"}
Labels   == {"spam", "ham"}
Uids     == 1 .. MaxUid
RowIds   == 1 .. MaxRow

Actions  == {"none", "keep", "quarantined", "rescued", "review",
             "learn_spam", "learn_ham"}
Statuses == {"none", "kept", "observed", "error", "blocked", "pending_learn",
             "pending_move", "move_ambiguous", "quarantined", "rescued",
             "review", "superseded"}

VARIABLES
  (* the mailbox *)
  live,      \* the UIDs of the copies that exist
  home,      \* the folder a UID was issued in
  body,      \* the content a UID was issued for
  nextUid,   \* the next UID
  inflight,  \* MOVE commands the server may still carry out
  (* what Guardian keeps on disk *)
  row,       \* the messages table
  nextRow,   \* the next row id
  archive,   \* contents with an encrypted copy
  bayes,     \* the class each content was learned as
  mode,      \* Config.Safety.Mode
  (* the run in progress *)
  pc, stage, todo, handled, auto, job,
  (* budgets *)
  faults, external

mailbox == <<live, home, body, nextUid>>
run     == <<pc, stage, todo, handled, auto, job>>
vars    == <<live, home, body, nextUid, inflight, row, nextRow, archive, bayes, mode,
             pc, stage, todo, handled, auto, job, faults, external>>

Row == [content : Contents \cup {Absent}, folder : Folders \cup {"none"},
        uid : 0 .. MaxUid, action : Actions, status : Statuses,
        feedback : Labels \cup {""}, intent : Labels \cup {""}]

NoRow == [content |-> Absent, folder |-> "none", uid |-> 0, action |-> "none",
          status |-> "none", feedback |-> "", intent |-> ""]

(* path: which of the engine's functions drives the item in hand. *)
Job == [row : 0 .. MaxRow, uid : 0 .. MaxUid, action : Actions,
        path : {"none", "auto", "known", "unlearnable", "learn", "retry"},
        mark : 0 .. MaxUid + 1, found : SUBSET Uids, new : 0 .. MaxUid]

Item(r, u, action, path, found) ==
  [row |-> r, uid |-> u, action |-> action, path |-> path,
   mark |-> 0, found |-> found, new |-> 0]

NoJob == Item(0, 0, "none", "none", {})

-----------------------------------------------------------------------------
(* The journal *)

Used == {r \in RowIds : r < nextRow}

(* Slip: whatever was learned goes to the quarantine. *)
DestOfLearned(action) ==
  IF action \in {"quarantined", "learn_spam", "learn_ham"} THEN "Quarantine"
  ELSE IF action = "rescued" THEN "Inbox" ELSE "Review"

(* pendingDestination: where a pending action leads, and its final status. *)
Dest(action) ==
  IF action \in {"quarantined", "learn_spam"} THEN "Quarantine"
  ELSE IF action \in {"rescued", "learn_ham"} THEN "Inbox" ELSE "Review"

Final(action) ==
  IF action \in {"quarantined", "learn_spam"} THEN "quarantined"
  ELSE IF action \in {"rescued", "learn_ham"} THEN "rescued" ELSE "review"

RowsAt(f, u) == {r \in Used : row[r].folder = f /\ row[r].uid = u}

(* idx_messages_location_unique: no other row may hold the location. *)
LocationFree(r, f, u) == RowsAt(f, u) \subseteq {r}

(* UPDATE messages SET ... WHERE id = r *)
Amend(r, new) == row' = [row EXCEPT ![r] = new]

(* UpsertMessage: the row of the location is overwritten, otherwise a row is
   added; feedback and intent survive an update. *)
RoomFor(f, u) == RowsAt(f, u) # {} \/ nextRow <= MaxRow

UpsertId(f, u) ==
  IF RowsAt(f, u) # {} THEN CHOOSE r \in RowsAt(f, u) : TRUE ELSE nextRow

(* Slip: the update clears what the owner asked for. *)
UpsertForgets(f, u, content, action, status) ==
  LET r == UpsertId(f, u) IN
  /\ Amend(r, [content |-> content, folder |-> f, uid |-> u, action |-> action,
                status |-> status, feedback |-> row[r].feedback, intent |-> ""])
  /\ nextRow' = IF r = nextRow THEN nextRow + 1 ELSE nextRow

Upsert(f, u, content, action, status) ==
  LET r == UpsertId(f, u) IN
  /\ Amend(r, [content |-> content, folder |-> f, uid |-> u,
                action |-> action, status |-> status,
                feedback |-> row[r].feedback, intent |-> row[r].intent])
  /\ nextRow' = IF r = nextRow THEN nextRow + 1 ELSE nextRow

(* COALESCE(NULLIF(feedback_intent,''),feedback) *)
Opinion(r) == IF row[r].intent # "" THEN row[r].intent ELSE row[r].feedback

Opinions(c) == {r \in Used : row[r].content = c /\ Opinion(r) # ""}

Newest(S) == CHOOSE r \in S : \A q \in S : q <= r

LatestFeedback(c) ==
  IF Opinions(c) = {} THEN "" ELSE Opinion(Newest(Opinions(c)))

(* Slip: any confirmation counts, however old. *)
EverLearned(c, label) ==
  \E r \in Used : row[r].content = c /\ row[r].feedback = label

HasLearnedFeedback(c, label) ==
  LET confirmed == {r \in Used : row[r].content = c /\ row[r].feedback # ""}
  IN  \E r \in confirmed :
        /\ \A q \in confirmed : q <= r
        /\ row[r].feedback = label
        /\ row[r].intent \in {"", row[r].feedback}
        /\ \A q \in Opinions(c) : q > r => Opinion(q) = row[r].feedback

(* HasHamFeedback: the veto against permanent deletion. *)
HamVeto(c) ==
  \E r \in Used : row[r].content = c /\ "ham" \in {row[r].feedback, row[r].intent}

Pending == {r \in Used : row[r].status \in {"pending_move", "move_ambiguous"}}

Active == mode = "active"

Explicit(r) == row[r].feedback \in Labels \/ row[r].intent \in Labels

LocationPending(f, u) == RowsAt(f, u) \cap Pending # {}

(* LocationProcessedSince.  An automatic keep decision expires after a day or
   once something was learned, which is left open by due. *)
LocationProcessed(f, u, due) ==
  \E r \in RowsAt(f, u) :
    /\ row[r].status \notin {"error", "pending_move", "pending_learn"}
    /\ Active => row[r].status # "observed"
    /\ ~ (due /\ row[r].action = "keep"
              /\ row[r].status \in {"observed", "kept"} /\ ~ Explicit(r))

(* Slip: a failed correction counts as done. *)
TrainingFailureProcessed(f, u) ==
  \E r \in RowsAt(f, u) :
    row[r].status \notin {"pending_move", "pending_learn", "observed", "blocked"}

TrainingLocationProcessed(f, u) ==
  \E r \in RowsAt(f, u) :
    row[r].status \notin {"error", "pending_move", "pending_learn",
                          "observed", "blocked"}

-----------------------------------------------------------------------------
(* The mailbox *)

In(f)         == {u \in live : home[u] = f}
Matches(f, c) == {u \in In(f) : body[u] = c}

(* A copy of content c appears in folder f under a fresh UID; the copies in
   lost disappear. *)
Issue(f, c, lost) ==
  /\ nextUid <= MaxUid
  /\ live' = (live \ lost) \cup {nextUid}
  /\ home' = [home EXCEPT ![nextUid] = f]
  /\ body' = [body EXCEPT ![nextUid] = c]
  /\ nextUid' = nextUid + 1

Outside ==
  /\ external < MaxExternal
  /\ external' = external + 1
  /\ UNCHANGED <<inflight, row, nextRow, archive, bayes, run, faults, mode>>

Known(c) == \E u \in Uids : body[u] = c

Deliver(c, f) ==
  /\ Outside
  /\ Duplicates \/ ~ Known(c)
  /\ Issue(f, c, {})

(* Moving a copy within its folder stands for a renumbered folder. *)
OwnerMoves(u, f) == Outside /\ Issue(f, body[u], {u})

OwnerCopies(u, f) == Outside /\ Duplicates /\ Issue(f, body[u], {})

OwnerDeletes(u) ==
  /\ Outside
  /\ live' = live \ {u}
  /\ UNCHANGED <<home, body, nextUid>>

Environment ==
  \/ \E c \in Contents, f \in {"Inbox", "Spam"} : Deliver(c, f)
  \/ \E u \in live, f \in Folders : OwnerMoves(u, f) \/ OwnerCopies(u, f)
  \/ \E u \in live : OwnerDeletes(u)

-----------------------------------------------------------------------------
(* The engine.  Failures of the outside world are counted: a failing step   *)
(* includes Fault, a step that works includes Sound.                        *)

Sound == UNCHANGED <<faults, external, mode>>

Fault ==
  /\ faults < MaxFaults
  /\ faults' = faults + 1
  /\ UNCHANGED <<external, mode>>

Oldest(S) == CHOOSE x \in S : \A y \in S : x <= y

Keep == UNCHANGED <<stage, todo, handled, auto>>

(* The loop drops the item in hand and goes on with the next one. *)
DropItem == pc' = "loop" /\ job' = NoJob /\ Keep

Stop ==
  /\ pc' = "idle" /\ stage' = "none" /\ todo' = {} /\ handled' = 0
  /\ auto' = TRUE /\ job' = NoJob

(* Process death, lost session or deadline: the run context is cancelled, so
   not even the journal is written afterwards. *)
RunCutShort ==
  /\ pc # "idle"
  /\ Fault
  /\ Stop
  /\ UNCHANGED <<mailbox, inflight, row, nextRow, archive, bayes>>

(* modeCommand, under the run lock.  (That active mode has to be qualified for
   is left out.) *)
SwitchMode ==
  /\ pc = "idle" /\ external < MaxExternal
  /\ mode' \in Modes \ {mode}
  /\ external' = external + 1
  /\ UNCHANGED <<mailbox, inflight, row, nextRow, archive, bayes, run, faults>>

(* requireActivationQuality, asked in active mode only: the answer depends on
   the clock and on what the owner corrected so far. *)
QualityGate == IF Active THEN BOOLEAN ELSE {TRUE}

StartRun ==
  /\ pc = "idle"
  /\ pc' = "loop" /\ stage' = "reconcile" /\ todo' = Pending /\ handled' = 0
  /\ auto' \in QualityGate
  /\ job' = NoJob
  /\ Sound
  /\ UNCHANGED <<mailbox, inflight, row, nextRow, archive, bayes>>

StageAfter ==
  [reconcile |-> "TrainSpam", TrainSpam |-> "TrainHam", TrainHam |-> "Spam",
   Spam |-> "Inbox"]

StageOver ==
  /\ pc = "loop"
  /\ \/ todo = {}
     \/ stage # "reconcile" /\ handled = MaxPerFolder

EndStage ==
  /\ StageOver
  /\ stage # "Inbox"
  /\ stage' = StageAfter[stage]
  /\ todo' = In(StageAfter[stage])
  /\ handled' = 0
  /\ UNCHANGED <<pc, auto, job>>
  /\ Sound
  /\ UNCHANGED <<mailbox, inflight, row, nextRow, archive, bayes>>

(* The run is over, or the quality gate stops it after the training folders. *)
EndRun ==
  /\ StageOver
  /\ stage = "Inbox" \/ (stage = "TrainHam" /\ FALSE \in QualityGate)
  /\ Stop
  /\ Sound
  /\ UNCHANGED <<mailbox, inflight, row, nextRow, archive, bayes>>

(* Reconciliation stops after 60 seconds and goes on in the next run. *)
ReconcileDeadline ==
  /\ pc = "loop" /\ stage = "reconcile" /\ todo # {}
  /\ Fault
  /\ todo' = {}
  /\ UNCHANGED <<pc, stage, handled, auto, job>>
  /\ UNCHANGED <<mailbox, inflight, row, nextRow, archive, bayes>>

-----------------------------------------------------------------------------
(* Reconciliation of unconfirmed moves *)

UpdateLocation(r, u, status) ==
  Amend(r, [row[r] EXCEPT !.uid = u, !.status = status])

ReconcileTakes(r) ==
  /\ pc = "loop" /\ stage = "reconcile" /\ todo # {}
  /\ r = Oldest(todo)
  /\ todo' = todo \ {r}
  /\ UNCHANGED <<stage, handled, auto>>
  /\ UNCHANGED <<mailbox, inflight, row, nextRow, archive, bayes>>

ReconcileSkips(r) ==
  /\ ReconcileTakes(r)
  /\ ~ auto /\ ~ Explicit(r)
  /\ UNCHANGED <<pc, job>>
  /\ Sound

ScanSource(r) ==
  /\ ReconcileTakes(r)
  /\ auto \/ Explicit(r)
  /\ pc' = "scan"
  /\ job' = Item(r, 0, row[r].action, "retry",
                 Matches(row[r].folder, row[r].content))
  /\ Sound

(* A search or a fetch that fails proves nothing: the row is left alone. *)
ScanFails ==
  /\ \/ \E r \in todo : ReconcileTakes(r) /\ UNCHANGED <<pc, job>>
     \/ /\ pc = "scan" /\ DropItem
        /\ UNCHANGED <<mailbox, inflight, row, nextRow, archive, bayes>>
  /\ Fault

Scanned == Matches(Dest(job.action), row[job.row].content)

OnlySource(u)      == job.found = {u} /\ Scanned = {}
OnlyDestination(u) == job.found = {} /\ Scanned = {u}

ScanDecides ==
  /\ pc = "scan"
  /\ \/ \E u \in Uids : /\ OnlySource(u) \/ OnlyDestination(u)
                        /\ pc' = "settle"
                        /\ job' = IF OnlySource(u) THEN [job EXCEPT !.uid = u]
                                                   ELSE [job EXCEPT !.new = u]
                        /\ UNCHANGED row
                        /\ Keep
     \/ /\ ~ \E u \in Uids : OnlySource(u) \/ OnlyDestination(u)
        /\ UpdateLocation(job.row, 0, "move_ambiguous")
        /\ DropItem
  /\ Sound
  /\ UNCHANGED <<mailbox, inflight, nextRow, archive, bayes>>

(* The copy is fetched once more.  The source copy is then moved again; a copy
   that disappeared leaves the row for the next run. *)
SettleSource ==
  /\ pc = "settle" /\ job.uid # 0
  /\ IF job.uid \in live /\ LocationFree(job.row, row[job.row].folder, job.uid)
     THEN /\ UpdateLocation(job.row, job.uid, "pending_move")
          /\ pc' = "move" /\ UNCHANGED job /\ Keep
     ELSE DropItem /\ UNCHANGED row
  /\ Sound
  /\ UNCHANGED <<mailbox, inflight, nextRow, archive, bayes>>

SettleDestination ==
  /\ pc = "settle" /\ job.new # 0
  /\ IF job.new \in live
     THEN pc' = "finalize" /\ UNCHANGED job /\ Keep
     ELSE DropItem
  /\ Sound
  /\ UNCHANGED <<mailbox, inflight, row, nextRow, archive, bayes>>

-----------------------------------------------------------------------------
(* Training folders and ordinary folders *)

Takes(u) ==
  /\ pc = "loop" /\ todo # {} /\ handled < MaxPerFolder
  /\ u = Oldest(todo)
  /\ todo' = todo \ {u}
  /\ UNCHANGED <<stage, auto>>

(* Slip: a location whose move is pending is worked on again. *)
ProcessedUnlessPending(u, due) ==
  IF stage \in Training THEN TrainingLocationProcessed(stage, u)
  ELSE LocationProcessed(stage, u, due)

Processed(u, due) ==
  IF stage \in Training
  THEN TrainingLocationProcessed(stage, u)
  ELSE LocationPending(stage, u) \/ LocationProcessed(stage, u, due)

(* The location needs no work; or (bound) the journal has no row left. *)
Passes(u) ==
  /\ stage # "reconcile" /\ Takes(u)
  /\ Processed(u, FALSE) \/ ~ RoomFor(stage, u)
  /\ Sound
  /\ UNCHANGED <<pc, handled, job>>
  /\ UNCHANGED <<mailbox, inflight, row, nextRow, archive, bayes>>

(* FETCH fails, at the latest because the copy is gone. *)
FetchFails(u, due) ==
  /\ stage # "reconcile" /\ Takes(u)
  /\ ~ Processed(u, due)
  /\ handled' = handled + 1
  /\ IF u \in live THEN Fault ELSE Sound
  /\ UNCHANGED <<pc, job>>
  /\ UNCHANGED <<mailbox, inflight, row, nextRow, archive, bayes>>

(* recordMetadataError: no usable body, so the row gets the fallback hash. *)
TrainingBlocked(u) ==
  /\ BodyGlitch
  /\ stage \in Training /\ Takes(u)
  /\ u \in live /\ ~ Processed(u, FALSE) /\ RoomFor(stage, u)
  /\ handled' = handled + 1
  /\ Upsert(stage, u, Absent, "keep", "blocked")
  /\ Fault
  /\ UNCHANGED <<pc, job>>
  /\ UNCHANGED <<mailbox, inflight, archive, bayes>>

Label  == IF stage = "TrainSpam" THEN "spam" ELSE "ham"
Learn(label)  == IF label = "spam" THEN "learn_spam" ELSE "learn_ham"
Settled(label) == IF label = "spam" THEN "quarantined" ELSE "rescued"

TrainingTakes(u) ==
  /\ stage \in Training /\ Takes(u)
  /\ u \in live /\ ~ Processed(u, FALSE) /\ RoomFor(stage, u)
  /\ handled' = handled + 1
  /\ LET path == IF HasLearnedFeedback(body[u], Label) THEN "known"
                 ELSE IF body[u] \in Malformed THEN "unlearnable" ELSE "learn"
     IN  job' = Item(0, u, IF path = "learn" THEN Learn(Label) ELSE Settled(Label),
                     path, {})
  /\ pc' = "save"
  /\ Sound
  /\ UNCHANGED <<mailbox, inflight, row, nextRow, archive, bayes>>

(* ClassifyDelivery, then applyFeedbackGuard: the newest opinion of the owner
   turns the opposite verdict into uncertain. *)
Verdicts(c) ==
  IF c \in Malformed THEN {"uncertain"}
  ELSE {"uncertain", "error"} \cup
       {v \in Labels : LatestFeedback(c) \in {"", v}}

(* decide *)
Decision(verdict) ==
  IF stage = "Inbox"
  THEN IF Active /\ verdict = "spam" THEN "quarantined" ELSE "keep"
  ELSE IF Active /\ verdict = "spam" THEN "quarantined"
  ELSE IF Active /\ verdict = "ham" THEN "rescued" ELSE "review"

FolderTakes(u, due) ==
  /\ stage \in {"Spam", "Inbox"} /\ Takes(u)
  /\ u \in live /\ RoomFor(stage, u)
  /\ ~ Processed(u, due)
  /\ handled' = handled + 1
  /\ Sound
  /\ UNCHANGED <<mailbox, inflight, archive, bayes>>

FolderMoves(u, due) ==
  /\ FolderTakes(u, due)
  /\ \E v \in Verdicts(body[u]) :
       /\ Decision(v) # "keep"
       /\ job' = Item(0, u, Decision(v), "auto", {})
  /\ pc' = "save"
  /\ UNCHANGED <<row, nextRow>>

(* recordKept *)
FolderKeeps(u, due) ==
  /\ FolderTakes(u, due)
  /\ \E v \in Verdicts(body[u]) :
       /\ Decision(v) = "keep"
       /\ Upsert(stage, u, body[u], "keep",
                 IF v = "error" THEN "error"
                 ELSE IF Active THEN "kept" ELSE "observed")
  /\ UNCHANGED <<pc, job>>

-----------------------------------------------------------------------------
(* preparePending: encrypted copy first, then the row *)

Content == body[job.uid]

SaveArchive ==
  /\ pc = "save"
  /\ archive' = archive \cup {Content}
  /\ pc' = "upsert" /\ UNCHANGED job /\ Keep
  /\ Sound
  /\ UNCHANGED <<mailbox, inflight, row, nextRow, bayes>>

UpsertPending ==
  /\ pc = "upsert"
  /\ RoomFor(stage, job.uid)
  /\ Upsert(stage, job.uid, Content, job.action,
            IF job.path \in {"auto", "known"} THEN "pending_move" ELSE "pending_learn")
  /\ job' = [job EXCEPT !.row = UpsertId(stage, job.uid)]
  /\ pc' = IF job.path = "auto" THEN "move" ELSE "intent"
  /\ Keep
  /\ Sound
  /\ UNCHANGED <<mailbox, inflight, archive, bayes>>

(* Slip: the wish is not journalled before the model learns. *)
MarkIntentLater ==
  /\ pc = "intent"
  /\ pc' = IF job.path = "known" THEN "supersede"
           ELSE IF job.path = "learn" THEN "learn" ELSE "unlearned"
  /\ UNCHANGED job /\ Keep
  /\ Sound
  /\ UNCHANGED <<mailbox, inflight, row, nextRow, archive, bayes>>

(* MarkFeedbackIntent *)
MarkIntent ==
  /\ pc = "intent"
  /\ Amend(job.row, [row[job.row] EXCEPT !.intent = Label])
  /\ pc' = IF job.path = "known" THEN "supersede"
           ELSE IF job.path = "learn" THEN "learn" ELSE "unlearned"
  /\ UNCHANGED job /\ Keep
  /\ Sound
  /\ UNCHANGED <<mailbox, inflight, nextRow, archive, bayes>>

(* Rspamd learns (or knows the message already), or answers 204. *)
RspamdLearns ==
  /\ pc = "learn"
  /\ \/ bayes' = [bayes EXCEPT ![Content] = Label] /\ pc' = "learned"
     \/ UNCHANGED bayes /\ pc' = "unlearned"
  /\ UNCHANGED job /\ Keep
  /\ Sound
  /\ UNCHANGED <<mailbox, inflight, row, nextRow, archive>>

(* An error reply, which does not tell whether the model changed. *)
LearnFails ==
  /\ pc = "learn"
  /\ bayes' \in {bayes, [bayes EXCEPT ![Content] = Label]}
  /\ Amend(job.row, [row[job.row] EXCEPT !.status = "error"])
  /\ DropItem
  /\ Fault
  /\ UNCHANGED <<mailbox, inflight, nextRow, archive>>

MarkLearned ==
  /\ pc = "learned"
  /\ Amend(job.row, [row[job.row] EXCEPT !.status = "pending_move",
                        !.feedback = Label, !.action = Learn(Label)])
  /\ pc' = "supersede" /\ UNCHANGED job /\ Keep
  /\ Sound
  /\ UNCHANGED <<mailbox, inflight, nextRow, archive, bayes>>

(* finishUnlearnedCorrection *)
FinishUnlearned ==
  /\ pc = "unlearned"
  /\ UpdateLocation(job.row, job.uid, "pending_move")
  /\ pc' = "supersede" /\ UNCHANGED job /\ Keep
  /\ Sound
  /\ UNCHANGED <<mailbox, inflight, nextRow, archive, bayes>>

(* Slip: the row of the correction itself is settled with the others. *)
SupersedeEveryCopy ==
  /\ pc = "supersede"
  /\ row' = [r \in RowIds |->
               IF r \in Used /\ row[r].content = row[job.row].content
               THEN [row[r] EXCEPT !.status = "superseded"] ELSE row[r]]
  /\ pc' = "move" /\ UNCHANGED job /\ Keep
  /\ Sound
  /\ UNCHANGED <<mailbox, inflight, nextRow, archive, bayes>>

SupersedeOtherCopies ==
  /\ pc = "supersede"
  /\ row' = [r \in RowIds |->
               IF r \in Used \ {job.row} /\ row[r].content = row[job.row].content
               THEN [row[r] EXCEPT !.status = "superseded"] ELSE row[r]]
  /\ pc' = "move" /\ UNCHANGED job /\ Keep
  /\ Sound
  /\ UNCHANGED <<mailbox, inflight, nextRow, archive, bayes>>

(* A journal or archive write fails and the engine gives the item up. *)
StoreFails ==
  /\ pc \in {"settle", "save", "upsert", "intent", "learned", "unlearned",
             "supersede", "finalize"}
  /\ DropItem
  /\ Fault
  /\ UNCHANGED <<mailbox, inflight, row, nextRow, archive, bayes>>

-----------------------------------------------------------------------------
(* movePending and Client.move *)

Command == [uid |-> job.uid, dest |-> Dest(job.action)]

Awaited(m) == pc = "await" /\ m = Command

(* UIDNEXT of the destination is noted, then UID MOVE is sent. *)
SendMove ==
  /\ pc = "move"
  /\ inflight' = inflight \cup {Command}
  /\ job' = [job EXCEPT !.mark = nextUid]
  /\ pc' = "await" /\ Keep
  /\ Sound
  /\ UNCHANGED <<mailbox, row, nextRow, archive, bayes>>

(* The server carries a MOVE out.  To the engine that waits for it the reply
   may name the new UID (COPYUID) or not. *)
ServerMoves(m) ==
  /\ m.uid \in live
  /\ Issue(m.dest, body[m.uid], {m.uid})
  /\ inflight' = inflight \ {m}
  /\ IF Awaited(m)
     THEN \/ pc' = "finalize" /\ job' = [job EXCEPT !.new = nextUid]
          \/ pc' = "resolve" /\ UNCHANGED job
     ELSE UNCHANGED <<pc, job>>
  /\ Keep
  /\ Sound
  /\ UNCHANGED <<row, nextRow, archive, bayes>>

(* A MOVE of a UID that is gone succeeds without an effect. *)
ServerMovesNothing(m) ==
  /\ m.uid \notin live
  /\ inflight' = inflight \ {m}
  /\ pc' = IF Awaited(m) THEN "resolve" ELSE pc
  /\ UNCHANGED job /\ Keep
  /\ Sound
  /\ UNCHANGED <<mailbox, row, nextRow, archive, bayes>>

(* A command of a session that is gone may also never be carried out. *)
ServerDiscards(m) ==
  /\ ~ Awaited(m)
  /\ inflight' = inflight \ {m}
  /\ UNCHANGED run
  /\ Sound
  /\ UNCHANGED <<mailbox, row, nextRow, archive, bayes>>

MarkMoveUncertain ==
  Amend(job.row, [row[job.row] EXCEPT !.status = "pending_move"])

(* A tagged NO: the message stays where it is.  (Bound: a server without a
   fresh UID refuses.) *)
ServerRefuses ==
  /\ pc = "await"
  /\ inflight' = inflight \ {Command}
  /\ IF nextUid > MaxUid THEN Sound ELSE Fault
  /\ MarkMoveUncertain
  /\ DropItem
  /\ UNCHANGED <<mailbox, nextRow, archive, bayes>>

(* Slip: the one new copy is taken without comparing its content. *)
AnyNewCopy == {u \in In(Dest(job.action)) : u >= job.mark}

(* resolveMovedUID: the destination UIDs issued since the mark are read; only
   one exact match identifies the moved copy. *)
Candidates == {u \in Matches(Dest(job.action), Content) : u >= job.mark}

ResolveFinds(u) ==
  /\ pc = "resolve"
  /\ Candidates = {u}
  /\ job' = [job EXCEPT !.new = u]
  /\ pc' = "finalize" /\ Keep
  /\ Sound
  /\ UNCHANGED <<mailbox, inflight, row, nextRow, archive, bayes>>

ResolveFindsNone ==
  /\ pc = "resolve"
  /\ IF \E u \in Uids : Candidates = {u} THEN Fault ELSE Sound
  /\ MarkMoveUncertain
  /\ DropItem
  /\ UNCHANGED <<mailbox, inflight, nextRow, archive, bayes>>

(* FinalizeMove, which the unique index refuses when another row already
   holds the destination; the row then stays as it is. *)
FinalizeMove ==
  /\ pc = "finalize"
  /\ IF LocationFree(job.row, Dest(job.action), job.new)
     THEN Amend(job.row, [row[job.row] EXCEPT !.folder = Dest(job.action),
                            !.uid = job.new, !.status = Final(job.action)])
     ELSE UNCHANGED row
  /\ DropItem
  /\ Sound
  /\ UNCHANGED <<mailbox, inflight, nextRow, archive, bayes>>

-----------------------------------------------------------------------------
Init ==
  /\ live = {} /\ nextUid = 1
  /\ home = [u \in Uids |-> "none"]
  /\ body = [u \in Uids |-> Absent]
  /\ inflight = {}
  /\ row = [r \in RowIds |-> NoRow] /\ nextRow = 1
  /\ archive = {}
  /\ bayes = [c \in Contents |-> "none"] /\ mode \in Modes
  /\ pc = "idle" /\ stage = "none" /\ todo = {} /\ handled = 0
  /\ auto = TRUE /\ job = NoJob
  /\ faults = 0 /\ external = 0

Reconcile ==
  \/ \E r \in todo \cap RowIds : ReconcileSkips(r) \/ ScanSource(r)
  \/ ScanDecides \/ SettleSource \/ SettleDestination

Pick ==
  \E u \in todo \cap Uids :
    \/ Passes(u) \/ TrainingTakes(u)
    \/ \E due \in BOOLEAN :
         FetchFails(u, due) \/ FolderMoves(u, due) \/ FolderKeeps(u, due)

Write ==
  \/ SaveArchive \/ UpsertPending \/ MarkIntent \/ RspamdLearns \/ MarkLearned
  \/ FinishUnlearned \/ SupersedeOtherCopies \/ FinalizeMove

Resolve == ResolveFindsNone \/ \E u \in Uids : ResolveFinds(u)

Server == \E m \in inflight : ServerMoves(m) \/ ServerMovesNothing(m)

Trouble ==
  \/ RunCutShort \/ ReconcileDeadline \/ ScanFails \/ LearnFails \/ StoreFails
  \/ ServerRefuses
  \/ \E u \in todo \cap Uids : TrainingBlocked(u)
  \/ \E m \in inflight : ServerDiscards(m)

Next ==
  \/ Environment \/ SwitchMode
  \/ StartRun \/ EndStage \/ EndRun
  \/ Reconcile \/ Pick \/ Write \/ SendMove \/ Resolve
  \/ Server
  \/ Trouble

Spec == Init /\ [][Next]_vars

MailboxType ==
  /\ live \subseteq Uids /\ nextUid \in 1 .. MaxUid + 1
  /\ home \in [Uids -> Folders \cup {"none"}]
  /\ body \in [Uids -> Contents \cup {Absent}]

RecordType ==
  /\ inflight \subseteq [uid : Uids, dest : {"Quarantine", "Inbox", "Review"}]
  /\ row \in [RowIds -> Row] /\ nextRow \in 1 .. MaxRow + 1
  /\ archive \subseteq Contents
  /\ bayes \in [Contents -> Labels \cup {"none"}]

RunType ==
  /\ pc \in {"idle", "loop", "scan", "settle", "save", "upsert", "intent", "learn",
             "learned", "unlearned", "supersede", "move", "await", "resolve",
             "finalize"}
  /\ stage \in {"none", "reconcile", "TrainSpam", "TrainHam", "Spam", "Inbox"}
  /\ todo \subseteq Nat
  /\ handled \in 0 .. MaxPerFolder
  /\ auto \in BOOLEAN
  /\ job \in Job

BudgetType ==
  mode \in Modes /\ faults \in 0 .. MaxFaults /\ external \in 0 .. MaxExternal

(* Every variable keeps its type; no folder takes more than its share of a run. *)
TypeOK == MailboxType /\ RecordType /\ RunType /\ BudgetType
=============================================================================
