------------------------------ MODULE Retention ------------------------------
(***************************************************************************)
(* What becomes of a message after a run has moved it: Engine.Purge        *)
(* deletes old quarantine for good, Engine.Restore gives a message back    *)
(* from its encrypted copy, and Engine.CleanupExpiredArchives removes      *)
(* copies nobody may ask for any more.  The three share the journal, the   *)
(* archive and the mailbox with the runs, with the owner and with a server *)
(* that may carry out what it was asked for after the caller gave up.      *)
(*                                                                         *)
(* A run is one step here (GuardianRun has its steps): it moves a message  *)
(* and journals it, or it carries out or records a correction.  All        *)
(* commands hold the instance lock (acquireRunLock), so pc is idle between *)
(* them.  The clock counts days.                                           *)
(*                                                                         *)
(* A definition called a slip is no part of the system: it is a mistake    *)
(* that the definition below it could contain, kept to show that the       *)
(* properties notice it.                                                   *)
(***************************************************************************)
EXTENDS Integers, FiniteSets, FiniteSetsExt

CONSTANTS
  Contents,         \* messages, told apart by the hash of their bytes
  QuarantineDays,   \* Safety.QuarantineDays
  ArchiveDays,      \* Safety.ArchiveDays
  MonthDays,        \* an archive path names the month of Archive.Save
  LateReplies,      \* may the server carry out a command after its time-out?
  DiskLoses,        \* may an encrypted copy be lost between two commands?
  Redelivery,       \* may the same message arrive more than once?
  MaxTime, MaxUid, MaxRow, MaxFaults, MaxExternal   \* bounds of the model

ASSUME RetentionAssumption ==
  /\ QuarantineDays \in Nat /\ ArchiveDays \in Nat /\ MonthDays \in Nat \ {0}
  /\ ArchiveDays >= QuarantineDays
  /\ LateReplies \in BOOLEAN /\ DiskLoses \in BOOLEAN /\ Redelivery \in BOOLEAN
  /\ MaxTime \in Nat /\ MaxUid \in Nat /\ MaxRow \in Nat
  /\ MaxFaults \in Nat /\ MaxExternal \in Nat

VARIABLES
  now,         \* the day
  live,        \* UIDs of the copies in the mailbox
  home, body,  \* the folder and the content of every UID issued
  flagged,     \* copies the owner marked important
  doomed,      \* copies that carry \Deleted
  nextUid,
  inflight,    \* UID EXPUNGE and APPEND commands the server has not carried out
  row, nextRow,
  files,       \* encrypted copies on disk
  pc, todo,    \* the command under way and what it has still to look at
  job,         \* the row (purge, restore) and the UID it is working on
  path,        \* the archive file CleanupExpiredArchives is removing
  expunged,    \* history: UID -> archive_until when Guardian's EXPUNGE removed it
  origin,      \* history: UID -> the row it was restored for
  faults, external

clock   == <<now>>
mailbox == <<live, home, body, flagged, doomed, nextUid>>
journal == <<row, nextRow>>
engine  == <<pc, todo, job, path>>
history == <<expunged, origin>>
budget  == <<faults, external>>
vars == <<clock, mailbox, inflight, journal, files, engine, history, budget>>

(* MaxUid bounds the copies the owner, delivery and the runs make; every row may be
   restored once, and once more for every failure. *)
LastUid == MaxUid + MaxRow + MaxFaults
Uids   == 1 .. LastUid
RowIds == 1 .. MaxRow
Folders == {"Quarantine", "Review", "TrainHam", "Elsewhere"}
Month(day) == day \div MonthDays
Paths == Contents \X (0 .. Month(MaxTime))
NoPath == <<>>
Days == 0 .. MaxTime + ArchiveDays

Statuses == {"none", "quarantined", "review", "rescued", "error", "superseded",
             "purged", "pending_restore", "restored"}

(* veto: feedback or feedback_intent is ham; since: quarantined_at; due is
   since + QuarantineDays; until: archive_until. *)
Row == [content : Contents, folder : Folders \cup {""}, uid : 0 .. LastUid,
        status : Statuses, veto : BOOLEAN, since : 0 .. MaxTime,
        until : Days, path : Paths \cup {NoPath}]

Issued == 1 .. nextUid - 1
Used   == 1 .. nextRow - 1
In(folder) == {u \in live : home[u] = folder}
Matches(folder, c) == {u \in In(folder) : body[u] = c}
Archive(c) == <<c, Month(now)>>      \* the path Archive.Save writes c to today

Idle == pc = "idle"
Done == pc' = "idle" /\ todo' = {} /\ job' = [row |-> 0, uid |-> 0] /\ path' = NoPath

Fault   == faults < MaxFaults /\ faults' = faults + 1 /\ UNCHANGED external
Outside == external < MaxExternal /\ external' = external + 1 /\ UNCHANGED faults
Sound   == UNCHANGED budget

(* Store.HasHamFeedback: any row of the content is a veto, whatever became of it. *)
HamVeto(c) == \E r \in Used : row[r].content = c /\ row[r].veto

RowAt(folder, u) == {r \in Used : row[r].folder = folder /\ row[r].uid = u}

Issue(u, folder, c) ==
  /\ nextUid' = u + 1
  /\ home' = [home EXCEPT ![u] = folder]
  /\ body' = [body EXCEPT ![u] = c]

(* Flags go with a copy that is moved to a new UID. *)
Follow(flags, u) == IF u \in flags THEN (flags \ {u}) \cup {nextUid} ELSE flags

-----------------------------------------------------------------------------
(* The owner, other mail programs and time. *)

(* A late command is carried out within the day, and no command of Guardian
   lasts for days. *)
Tick ==
  /\ Idle /\ inflight = {} /\ now < MaxTime
  /\ now' = now + 1
  /\ Sound
  /\ UNCHANGED <<mailbox, inflight, journal, files, engine, history>>

OwnerMoves(u, folder) ==
  /\ u \in live /\ folder # home[u]
  /\ nextUid <= MaxUid /\ Issue(nextUid, folder, body[u])
  /\ live' = (live \ {u}) \cup {nextUid}
  /\ flagged' = Follow(flagged, u) /\ doomed' = Follow(doomed, u)
  /\ Outside
  /\ UNCHANGED <<clock, inflight, journal, files, engine, history>>

OwnerCopiesToTraining(u) ==
  /\ u \in live
  /\ nextUid <= MaxUid /\ Issue(nextUid, "TrainHam", body[u])
  /\ live' = live \cup {nextUid}
  /\ Outside
  /\ UNCHANGED <<clock, flagged, doomed, inflight, journal, files, engine, history>>

OwnerFlags(u) ==
  /\ u \in live /\ flagged' = flagged \cup {u}
  /\ Outside
  /\ UNCHANGED <<clock, live, home, body, doomed, nextUid, inflight, journal, files,
                 engine, history>>

OwnerDeletes(u) ==
  /\ u \in live /\ live' = live \ {u}
  /\ flagged' = flagged \ {u} /\ doomed' = doomed \ {u}
  /\ Outside
  /\ UNCHANGED <<clock, home, body, nextUid, inflight, journal, files,
                 engine, history>>

(* Another mail program closes the folder: whatever carries \Deleted goes. *)
OthersExpunge(u) == u \in doomed /\ OwnerDeletes(u)

Owner ==
  \E u \in Uids :
    \/ \E folder \in Folders : OwnerMoves(u, folder)
    \/ OwnerCopiesToTraining(u) \/ OwnerFlags(u) \/ OwnerDeletes(u) \/ OthersExpunge(u)

(* A file of the archive is lost or damaged while no command runs. *)
ArchiveLost(p) ==
  /\ DiskLoses /\ Idle /\ p \in files
  /\ files' = files \ {p}
  /\ Fault
  /\ UNCHANGED <<clock, mailbox, inflight, journal, engine, history>>

-----------------------------------------------------------------------------
(* Runs, each in one step. *)

NewRow(r, c, folder, u, status, veto, since) ==
  [row EXCEPT ![r] = [content |-> c, folder |-> folder, uid |-> u, status |-> status,
                      veto |-> veto, since |-> since, until |-> now + ArchiveDays,
                      path |-> Archive(c)]]

(* archiveAndMove and FinalizeMove of a message that arrived: the archive is
   written, the message moved, the row confirmed. *)
RunMoves(c, folder) ==
  /\ Idle /\ nextRow <= MaxRow
  /\ Redelivery \/ \A r \in Used : row[r].content # c
  /\ nextUid <= MaxUid /\ Issue(nextUid, folder, c)
  /\ live' = live \cup {nextUid}
  /\ files' = files \cup {Archive(c)}
  /\ nextRow' = nextRow + 1
  /\ \/ /\ folder = "Quarantine"
        /\ row' = NewRow(nextRow, c, folder, nextUid, "quarantined", FALSE, now)
     \/ /\ folder = "Review"
        /\ row' = NewRow(nextRow, c, folder, nextUid, "review", FALSE, 0)
  /\ Outside
  /\ UNCHANGED <<clock, flagged, doomed, inflight, engine, history>>

(* preparePending of a message in the training folder: the row of its location,
   or a new one, records the wish. *)
Settleable(s) == s \notin {"purged", "restored", "pending_restore", "superseded"}

(* archiveLearnAndMove succeeds: learned, the rows of other copies settled, the
   message moved out of the training folder. *)
RunCorrects(u, r) ==
  /\ Idle /\ u \in In("TrainHam")
  /\ IF RowAt("TrainHam", u) = {} THEN r = nextRow /\ r <= MaxRow ELSE r \in RowAt("TrainHam", u)
  /\ nextRow' = IF r = nextRow THEN nextRow + 1 ELSE nextRow
  /\ nextUid <= MaxUid /\ Issue(nextUid, "Elsewhere", body[u])
  /\ live' = (live \ {u}) \cup {nextUid}
  /\ flagged' = Follow(flagged, u) /\ doomed' = Follow(doomed, u)
  /\ files' = files \cup {Archive(body[u])}
  /\ LET moved == NewRow(r, body[u], "Elsewhere", nextUid, "rescued", TRUE, 0)
     IN row' = [q \in RowIds |->
                  IF q # r /\ q \in Used /\ row[q].content = body[u] /\ Settleable(row[q].status)
                  THEN [row[q] EXCEPT !.status = "superseded"]
                  ELSE moved[q]]
  /\ Sound
  /\ UNCHANGED <<clock, inflight, engine, history>>

(* Learning fails: the intent is recorded, the message stays where it is. *)
RunFailsToLearn(u, r) ==
  /\ Idle /\ u \in In("TrainHam")
  /\ IF RowAt("TrainHam", u) = {} THEN r = nextRow /\ r <= MaxRow ELSE r \in RowAt("TrainHam", u)
  /\ nextRow' = IF r = nextRow THEN nextRow + 1 ELSE nextRow
  /\ files' = files \cup {Archive(body[u])}
  /\ row' = NewRow(r, body[u], "TrainHam", u, "error", TRUE, 0)
  /\ Fault
  /\ UNCHANGED <<clock, mailbox, inflight, engine, history>>

Run ==
  \/ \E c \in Contents, folder \in {"Quarantine", "Review"} : RunMoves(c, folder)
  \/ \E u \in Uids, r \in RowIds : RunCorrects(u, r) \/ RunFailsToLearn(u, r)

-----------------------------------------------------------------------------
(* Engine.Purge.  Its gates of mode, age of the mode, training totals and past
   mistakes decide whether it starts at all; PurgeStart is the rest of the way. *)

PurgeCandidates ==
  {r \in Used : row[r].status = "quarantined" /\ row[r].since + QuarantineDays <= now}

(* The folder is asked once, before the first candidate. *)
PurgeStart ==
  /\ Idle
  /\ In("TrainHam") = {}
  /\ PurgeCandidates # {}
  /\ pc' = "purge" /\ todo' = PurgeCandidates
  /\ Sound
  /\ UNCHANGED <<clock, mailbox, inflight, journal, files, job, path, history>>

(* The copy the row names, as a Fetch finds it; flags are looked at with it. *)
Intact(r) ==
  /\ row[r].uid \in live
  /\ home[row[r].uid] = "Quarantine" /\ body[row[r].uid] = row[r].content
  /\ row[r].uid \notin flagged

(* Slip: the owner's corrections are not asked for. *)
VettedUnasked(r) ==
  /\ row[r].path \in files
  /\ row[r].folder = "Quarantine" /\ row[r].uid # 0
  /\ Intact(r)

Vetted(r) ==
  /\ ~ HamVeto(row[r].content)
  /\ row[r].path \in files             \* Archive.Verify
  /\ row[r].folder = "Quarantine" /\ row[r].uid # 0
  /\ Intact(r)

(* Every check passed and the rescan confirmed spam. *)
PurgeVets(r) ==
  /\ pc = "purge" /\ r \in todo /\ Vetted(r)
  /\ pc' = "refetch" /\ todo' = todo \ {r} /\ job' = [row |-> r, uid |-> row[r].uid]
  /\ Sound
  /\ UNCHANGED <<clock, mailbox, inflight, journal, files, path, history>>

(* A check failed, or the rescan did not confirm spam. *)
PurgeSkips(r) ==
  /\ pc = "purge" /\ r \in todo
  /\ todo' = todo \ {r}
  /\ Sound
  /\ UNCHANGED <<clock, mailbox, inflight, journal, files, pc, job, path, history>>

PurgeEnds ==
  /\ pc = "purge" /\ todo = {} /\ Done
  /\ Sound
  /\ UNCHANGED <<clock, mailbox, inflight, journal, files, history>>

(* The second look, after a rescan of tens of seconds. *)
PurgeLooksAgain ==
  /\ pc = "refetch"
  /\ \/ Intact(job.row) /\ pc' = "store"
     \/ ~ Intact(job.row) /\ pc' = "purge"
  /\ Sound
  /\ UNCHANGED <<clock, mailbox, inflight, journal, files, todo, job, path, history>>

(* Client.DeleteUID: \Deleted, then UID EXPUNGE.  STORE of a UID that is gone
   succeeds and does nothing. *)
StoreDeleted ==
  /\ pc = "store" /\ pc' = "expunge"
  /\ doomed' = doomed \cup ({job.uid} \cap In("Quarantine"))
  /\ Sound
  /\ UNCHANGED <<clock, live, home, body, flagged, nextUid, inflight, journal, files,
                 todo, job, path, history>>

Expunge(r) == [op |-> "expunge", row |-> r, uid |-> row[r].uid]
Append(r)  == [op |-> "append", row |-> r, uid |-> 0]

SendExpunge ==
  /\ pc = "expunge" /\ pc' = "await"
  /\ inflight' = inflight \cup {Expunge(job.row)}
  /\ Sound
  /\ UNCHANGED <<clock, mailbox, journal, files, todo, job, path, history>>

Awaits(m) == pc = "await" /\ m.row = job.row

(* UID EXPUNGE removes the message if it is there and carries \Deleted. *)
ServerExpunges(m) ==
  /\ m \in inflight /\ m.op = "expunge"
  /\ inflight' = inflight \ {m}
  /\ \/ /\ m.uid \in doomed \cap In("Quarantine")
        /\ live' = live \ {m.uid}
        /\ flagged' = flagged \ {m.uid} /\ doomed' = doomed \ {m.uid}
        /\ expunged' = [expunged EXCEPT ![m.uid] = row[m.row].until]
     \/ /\ m.uid \notin doomed \cap In("Quarantine")
        /\ UNCHANGED <<live, flagged, doomed, expunged>>
  /\ \/ Awaits(m) /\ pc' = "mark"
     \/ ~ Awaits(m) /\ UNCHANGED pc
  /\ Sound
  /\ UNCHANGED <<clock, home, body, nextUid, journal, files, todo, job, path, origin>>

(* NO: the flag is taken back by a second command, and the next row is next. *)
ServerRefusesExpunge(m) ==
  /\ m \in inflight /\ m.op = "expunge" /\ Awaits(m)
  /\ inflight' = inflight \ {m} /\ pc' = "rollback"
  /\ Fault
  /\ UNCHANGED <<clock, mailbox, journal, files, todo, job, path, history>>

RollBack ==
  /\ pc = "rollback" /\ pc' = "purge"
  /\ doomed' = doomed \ {job.uid}
  /\ Sound
  /\ UNCHANGED <<clock, live, home, body, flagged, nextUid, inflight, journal, files,
                 todo, job, path, history>>

MarkPurged ==
  /\ pc = "mark" /\ pc' = "purge"
  /\ row' = [row EXCEPT ![job.row].status = "purged", ![job.row].folder = ""]
  /\ Sound
  /\ UNCHANGED <<clock, mailbox, inflight, nextRow, files, todo, job, path, history>>

Purge ==
  \/ PurgeStart \/ PurgeEnds \/ PurgeLooksAgain \/ StoreDeleted \/ SendExpunge
  \/ RollBack \/ MarkPurged
  \/ \E r \in RowIds : PurgeVets(r) \/ PurgeSkips(r)

-----------------------------------------------------------------------------
(* Engine.Restore, asked for by the owner or by reconcilePendingRestores. *)

PendingRestores == {r \in Used : row[r].status = "pending_restore"}

Located(r) == row[r].folder # "" /\ row[r].uid # 0
(* Slip: an earlier attempt is not looked for. *)
ReturnedUnseen(r) == IF r \in Used THEN {} ELSE {}

(* The copies an earlier attempt may have left, if there was one. *)
Returned(r) ==
  IF row[r].status = "pending_restore" THEN Matches("Review", row[r].content) ELSE {}

(* Refused without a change: the copy is where the journal says, or cannot be
   confirmed there, or two copies match, or there is no encrypted copy. *)
Refused(r) ==
  \/ row[r].status # "pending_restore" /\ (Located(r) \/ row[r].status = "restored")
  \/ Cardinality(Returned(r)) > 1
  \/ Returned(r) = {} /\ row[r].path \notin files

(* The unique index on locations: no other row names this copy. *)
LocationFree(r, u) == RowAt("Review", u) \subseteq {r}

RestoreStart(r) ==
  /\ Idle /\ r \in Used
  /\ pc' = "restore" /\ job' = [row |-> r, uid |-> 0]
  /\ UNCHANGED <<clock, mailbox, inflight, journal, files, todo, path, history>>

OwnerRestores(r) == RestoreStart(r) /\ r \notin PendingRestores /\ ~ Refused(r) /\ Outside
RunRestores(r) == RestoreStart(r) /\ r \in PendingRestores /\ Sound

RestoreRefused(r) == /\ pc = "restore" /\ r = job.row /\ Refused(r)
                     /\ Done /\ Sound
                     /\ UNCHANGED <<clock, mailbox, inflight, journal, files, history>>

(* Slip: the copy is recognised, but the journal is not told. *)
RestoreReconciledUnsaved(u) ==
  /\ pc = "restore" /\ ~ Refused(job.row) /\ Returned(job.row) = {u}
  /\ Done /\ Sound
  /\ UNCHANGED <<clock, mailbox, inflight, journal, files, history>>

(* One copy lies in the review folder already: it is taken for the restored
   one, unless another row has that location. *)
RestoreReconciled(u) ==
  /\ pc = "restore" /\ ~ Refused(job.row) /\ Returned(job.row) = {u}
  /\ IF LocationFree(job.row, u)
     THEN row' = [row EXCEPT ![job.row] = [@ EXCEPT !.folder = "Review", !.uid = u,
                                                    !.status = "restored"]]
     ELSE row' = row
  /\ Done /\ Sound
  /\ UNCHANGED <<clock, mailbox, inflight, nextRow, files, history>>

(* Nothing is there: the intent is journalled, then the APPEND is sent. *)
MarkRestorePending ==
  /\ pc = "restore" /\ ~ Refused(job.row) /\ Returned(job.row) = {}
  /\ pc' = "append"
  /\ row' = [row EXCEPT ![job.row].status = "pending_restore"]
  /\ Sound
  /\ UNCHANGED <<clock, mailbox, inflight, nextRow, files, todo, job, path, history>>

SendAppend ==
  /\ pc = "append" /\ pc' = "await"
  /\ inflight' = inflight \cup {Append(job.row)}
  /\ Sound
  /\ UNCHANGED <<clock, mailbox, journal, files, todo, job, path, history>>

ServerAppends(m) ==
  /\ m \in inflight /\ m.op = "append"
  /\ inflight' = inflight \ {m}
  /\ nextUid <= LastUid /\ Issue(nextUid, "Review", row[m.row].content)
  /\ live' = live \cup {nextUid}
  /\ origin' = [origin EXCEPT ![nextUid] = m.row]
  /\ \/ Awaits(m) /\ pc' = "finalize" /\ job' = [job EXCEPT !.uid = nextUid]
     \/ ~ Awaits(m) /\ UNCHANGED <<pc, job>>
  /\ Sound
  /\ UNCHANGED <<clock, flagged, doomed, journal, files, todo, path, expunged>>

ServerRefusesAppend(m) ==
  /\ m \in inflight /\ m.op = "append" /\ Awaits(m)
  /\ inflight' = inflight \ {m}
  /\ Done /\ Fault
  /\ UNCHANGED <<clock, mailbox, journal, files, history>>

(* The server accepted, with or without the UID of the copy. *)
FinalizeRestore ==
  /\ pc = "finalize"
  /\ row' = [row EXCEPT ![job.row] = [@ EXCEPT !.folder = "Review", !.uid = job.uid,
                                               !.status = "restored"]]
  /\ Done /\ Sound
  /\ UNCHANGED <<clock, mailbox, inflight, nextRow, files, history>>

AppendUnconfirmed ==
  /\ pc = "finalize" /\ Done /\ Fault
  /\ UNCHANGED <<clock, mailbox, inflight, journal, files, history>>

Restore ==
  \/ MarkRestorePending \/ SendAppend \/ FinalizeRestore \/ AppendUnconfirmed
  \/ \E r \in RowIds : OwnerRestores(r) \/ RunRestores(r) \/ RestoreRefused(r)
  \/ \E u \in Uids : RestoreReconciled(u)

-----------------------------------------------------------------------------
(* Engine.CleanupExpiredArchives. *)

Terminal == {"purged", "rescued", "review", "restored", "superseded"}
NeededUnlessRestored == {"quarantined", "error"}      \* a slip
Needed == {"quarantined", "pending_restore", "error"}

(* Slip: other rows count by their status only. *)
ExpiredByStatus(r) ==
  /\ row[r].path # NoPath /\ row[r].until <= now /\ row[r].status \in Terminal
  /\ \A q \in Used \ {r} : row[q].path = row[r].path => row[q].status \notin Needed

(* Store.ArchiveCleanupCandidates: the paths of finished rows past their date
   that no other row still needs. *)
Expired(r) ==
  /\ row[r].path # NoPath /\ row[r].until <= now /\ row[r].status \in Terminal
  /\ \A q \in Used \ {r} : row[q].path = row[r].path =>
       row[q].until <= now /\ row[q].status \notin Needed

CleanupStart ==
  /\ Idle /\ \E r \in Used : Expired(r)
  /\ pc' = "clean" /\ todo' = {r \in Used : Expired(r)}
  /\ Sound
  /\ UNCHANGED <<clock, mailbox, inflight, journal, files, job, path, history>>

(* Archive.Delete, once for every path; a file that is gone already is no error. *)
DeleteFile(r) ==
  /\ pc = "clean" /\ r \in todo
  /\ pc' = "clear" /\ path' = row[r].path
  /\ todo' = {q \in todo : row[q].path # row[r].path}
  /\ files' = files \ {row[r].path}
  /\ Sound
  /\ UNCHANGED <<clock, mailbox, inflight, journal, job, history>>

(* Slip: only rows of deleted messages are told. *)
ClearArchivePathOfPurged ==
  /\ pc = "clear" /\ pc' = "clean"
  /\ row' = [r \in RowIds |->
               IF r \in Used /\ row[r].path = path /\ row[r].status = "purged"
               THEN [row[r] EXCEPT !.path = NoPath, !.until = 0] ELSE row[r]]
  /\ Sound
  /\ UNCHANGED <<clock, mailbox, inflight, nextRow, files, todo, job, path, history>>

ClearArchivePath ==
  /\ pc = "clear" /\ pc' = "clean"
  /\ row' = [r \in RowIds |->
               IF r \in Used /\ row[r].path = path
               THEN [row[r] EXCEPT !.path = NoPath, !.until = 0] ELSE row[r]]
  /\ Sound
  /\ UNCHANGED <<clock, mailbox, inflight, nextRow, files, todo, job, path, history>>

CleanupEnds ==
  /\ pc = "clean" /\ todo = {} /\ Done /\ Sound
  /\ UNCHANGED <<clock, mailbox, inflight, journal, files, history>>

Cleanup ==
  \/ CleanupStart \/ ClearArchivePath \/ CleanupEnds
  \/ \E r \in RowIds : DeleteFile(r)

-----------------------------------------------------------------------------
(* The process dies, the database fails, or the session is lost with whatever
   was asked of the server still unanswered. *)
CutShort ==
  /\ ~ Idle /\ Done /\ Fault
  /\ \/ UNCHANGED inflight /\ LateReplies
     \/ inflight' = {}
  /\ UNCHANGED <<clock, mailbox, journal, files, history>>

Server ==
  \E m \in inflight :
    \/ ServerExpunges(m) \/ ServerRefusesExpunge(m)
    \/ ServerAppends(m) \/ ServerRefusesAppend(m)

Init ==
  /\ now = 0
  /\ live = {} /\ flagged = {} /\ doomed = {} /\ nextUid = 1
  /\ home = [u \in Uids |-> "Elsewhere"]
  /\ body \in {[u \in Uids |-> c] : c \in Contents}
  /\ inflight = {} /\ files = {}
  /\ nextRow = 1
  /\ row \in {[r \in RowIds |-> [content |-> c, folder |-> "", uid |-> 0, status |-> "none",
                veto |-> FALSE, since |-> 0, until |-> 0, path |-> NoPath]] : c \in Contents}
  /\ pc = "idle" /\ todo = {} /\ job = [row |-> 0, uid |-> 0] /\ path = NoPath
  /\ expunged = [u \in Uids |-> -1] /\ origin = [u \in Uids |-> 0]
  /\ faults = 0 /\ external = 0

Trouble == CutShort \/ \E p \in Paths : ArchiveLost(p)

Next == Tick \/ Owner \/ Run \/ Purge \/ Restore \/ Cleanup \/ Server \/ Trouble

Spec == Init /\ [][Next]_vars
=============================================================================
