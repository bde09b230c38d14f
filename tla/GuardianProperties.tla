------------------------- MODULE GuardianProperties -------------------------
(* What a run of Guardian has to keep up, whatever the owner, the server and
   the failures do in between. *)
EXTENDS GuardianRun

-----------------------------------------------------------------------------
(* Safety *)

(* A journal row that names a location names the copy it was written for: the
   UID was issued in that folder, for that content.  Recovery, purge and
   restore act on the location alone (FinalizeMove, UpsertMessage). *)
RowsNameTheirCopy ==
  \A r \in Used : row[r].uid # 0 =>
    /\ row[r].uid < nextUid
    /\ home[row[r].uid] = row[r].folder
    /\ \/ body[row[r].uid] = row[r].content
       \/ row[r].status = "blocked" /\ row[r].content = Absent

(* Nothing is moved, and no move is left to be resumed, unless the encrypted
   copy of the message is on disk (preparePending precedes movePending). *)
ArchivedBeforeMove ==
  /\ \A m \in inflight : body[m.uid] \in archive
  /\ \A r \in Pending : row[r].content \in archive

(* The next run comes back to the row: its move is unconfirmed, or its message
   still awaits the correction in the training folder. *)
Reconsidered(r) ==
  \/ r \in Pending
  \/ row[r].folder \in Training /\ row[r].status \in {"pending_learn", "error", "blocked"}

(* A MOVE the server may still carry out has a row that names the copy, leads
   to the same folder and is not settled yet: whichever step the run is cut
   short at, the move is found again.  (Without duplicates: SupersedeOtherCopies
   settles the rows of every other copy.) *)
MovesAreJournalled ==
  \A m \in inflight : m.uid \in live =>
    \E r \in RowsAt(home[m.uid], m.uid) :
      Reconsidered(r) /\ Dest(row[r].action) = m.dest

(* The row stands for message c: by its hash, or, where a failed fetch has put
   the fallback hash in its place (recordMetadataError), by its location. *)
About(rec, c) ==
  \/ rec.content = c
  \/ rec.content = Absent /\ rec.uid \in Uids /\ body[rec.uid] = c

(* The model learned a message as spam or ham only if the owner put a copy of
   it into that training folder and a row about the message still says so, even
   if a failed fetch has taken its hash since. *)
LearnsOnlyCorrections ==
  \A c \in Contents : bayes[c] \in Labels =>
    /\ \E r \in Used : About(row[r], c) /\ bayes[c] \in {row[r].feedback, row[r].intent}
    /\ \E u \in Uids : /\ body[u] = c
                       /\ home[u] = IF bayes[c] = "spam" THEN "TrainSpam" ELSE "TrainHam"

(* A correction that is skipped as already learned is what the model holds:
   HasLearnedFeedback must not trust a confirmation that a later, unconfirmed
   request may have overturned.  (The code takes the row with the largest id for
   the newest, but a row that is older may be learned again: ReusedRow.cfg.) *)
KnownCorrectionIsLearned ==
  \A c \in Contents, l \in Labels : HasLearnedFeedback(c, l) => bayes[c] = l

(* What of it the code does keep: no confirmation is without a learned model,
   and where a correction is skipped as known and the model holds the opposite,
   the opposite was asked for in an older row of the message, never in the
   confirming row or in a later one, however replies were lost and runs cut
   short. *)
OnlyOlderRowsMislead ==
  \A c \in Contents, l \in Labels : HasLearnedFeedback(c, l) /\ bayes[c] # l =>
    \E q \in Used, r \in Used :
      /\ q < r /\ row[q].content = c /\ row[r].content = c
      /\ bayes[c] \in Labels /\ bayes[c] \in {row[q].feedback, row[q].intent}
      /\ row[r].feedback = l

(* A fresh automatic decision is not carried out against the newest
   correction of the same message (applyFeedbackGuard). *)
FreshMovesHonourCorrections ==
  job.path = "auto" /\ pc # "save" =>
    /\ Dest(job.action) = "Quarantine" => LatestFeedback(body[job.uid]) # "ham"
    /\ Dest(job.action) = "Inbox" => LatestFeedback(body[job.uid]) # "spam"

(* The same for every MOVE the engine waits for, retried ones included. *)
MovesHonourCorrections ==
  pc = "await" =>
    /\ Dest(job.action) = "Quarantine" => LatestFeedback(body[job.uid]) # "ham"
    /\ Dest(job.action) = "Inbox" => LatestFeedback(body[job.uid]) # "spam"

(* In protect mode no message of the Inbox is moved on Guardian's own account,
   not even to make up for a move that active mode began. *)
ProtectModeSparesInbox ==
  pc = "await" /\ mode = "protect" => home[job.uid] # "Inbox"

(* A message that lies in a training folder is never written off: its row is
   not in a state the run passes over (SupersedeOtherCopies settles rows by
   content, TrainingLocationProcessed reads them by location).  Where the owner
   makes copies the code does not keep this: WrittenOff.cfg. *)
CorrectionsNotWrittenOff ==
  \A u \in In("TrainSpam") \cup In("TrainHam") :
    ~ TrainingLocationProcessed(home[u], u)

(* What of it the code keeps, copies or not: a message in a training folder is
   passed over only because a row of another copy of it holds a correction of
   the owner, which counts for the message.  No failure, no fetch without a body
   and no decision of Guardian's own writes a correction off, and the correction
   it was written off for is not forgotten while the message lies there. *)
WrittenOffForACorrection ==
  \A u \in In("TrainSpam") \cup In("TrainHam") :
    TrainingLocationProcessed(home[u], u) =>
      \E r \in RowsAt(home[u], u) : \E q \in Used \ {r} :
        About(row[q], body[u]) /\ Opinion(q) # ""

-----------------------------------------------------------------------------
(* Action properties *)

(* Once the owner called a message ham, no step takes back the veto against its
   permanent deletion (HasHamFeedback finds it by the hash of the row).  A failed
   fetch, which replaces that hash, does take it back: LostVeto.cfg. *)
VetoPermanent == [][\A c \in Contents : HamVeto(c) => HamVeto(c)']_vars

(* What of it the code keeps: no step, that one included, makes the journal
   forget that the owner called the message ham.  The row keeps the wish and,
   without a hash, the location of the copy it is about, so that the next fetch
   with a body restores the veto (UpsertMessage keeps feedback and intent). *)
HamWish(c) ==
  \E r \in Used : About(row[r], c) /\ "ham" \in {row[r].feedback, row[r].intent}

HamWishKept == [][\A c \in Contents : HamWish(c) => HamWish(c)']_vars

-----------------------------------------------------------------------------
(* Guardian implements the custody of the mail. *)
Custody == INSTANCE MailCustody
CustodyKept == Custody!Spec

-----------------------------------------------------------------------------
(* Liveness.  The engine is a loop without waiting; every wait for the server
   is bounded by a time-out, after which the run is cut short; the service
   starts the next run.  Failures and the owner are under no obligation. *)
Steady ==
  \/ StartRun \/ EndStage \/ EndRun
  \/ Reconcile \/ Pick \/ Write \/ SendMove \/ Resolve

Answers == \E m \in inflight : Awaited(m) /\ (ServerMoves(m) \/ ServerMovesNothing(m))

Fairness == WF_vars(Steady) /\ WF_vars(Answers \/ ServerRefuses)

FairSpec == Spec /\ Fairness

(* Every run ends. *)
RunsEnd == pc # "idle" ~> pc = "idle"

(* A message in a training folder does not stay there: Guardian comes back to
   it until it is moved. *)
CorrectionsComplete ==
  \A u \in Uids : (u \in live /\ home[u] \in Training) ~> u \notin live

(* An unconfirmed move whose message lies in the destination folder, once, and
   no longer in the source folder, is not left unconfirmed for ever. *)
Arrived(r) ==
  /\ r \in Pending
  /\ Matches(row[r].folder, row[r].content) = {}
  /\ \E u \in Uids : Matches(Dest(row[r].action), row[r].content) = {u}

ArrivalsAreConfirmed == \A r \in RowIds : []<> ~ Arrived(r)
=============================================================================
