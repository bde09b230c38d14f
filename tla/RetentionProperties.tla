------------------------- MODULE RetentionProperties -------------------------
(* What permanent deletion, restoring and the retention of encrypted copies
   have to keep up between them. *)
EXTENDS Retention

-----------------------------------------------------------------------------
(* Safety *)

TypeOK ==
  /\ now \in 0 .. MaxTime
  /\ live \subseteq Issued /\ flagged \subseteq Issued /\ doomed \subseteq Issued
  /\ home \in [Uids -> Folders] /\ body \in [Uids -> Contents]
  /\ nextUid \in 1 .. LastUid + 1 /\ nextRow \in 1 .. MaxRow + 1
  /\ inflight \subseteq [op : {"expunge", "append"}, row : Used, uid : 0 .. LastUid]
  /\ row \in [RowIds -> Row]
  /\ files \subseteq Paths
  /\ pc \in {"idle", "purge", "refetch", "store", "expunge", "await", "rollback", "mark",
             "restore", "append", "finalize", "clean", "clear"}
  /\ todo \subseteq Used
  /\ job \in [row : 0 .. MaxRow, uid : 0 .. LastUid]
  /\ path \in Paths \cup {NoPath}
  /\ expunged \in [Uids -> Days \cup {-1}]
  /\ origin \in [Uids -> 0 .. MaxRow]
  /\ faults \in 0 .. MaxFaults /\ external \in 0 .. MaxExternal

(* A message Guardian deleted for good can still be had: until the date its row
   was given, an encrypted copy of it is on disk.  Cleanup deletes by path, and
   copies of one content share a path (ArchiveCleanupCandidates). *)
DeletedStayRecoverable ==
  \A u \in Uids : now < expunged[u] => \E p \in files : p[1] = body[u]

(* Whatever a row still has to be able to give back - quarantined mail, a
   restore that is under way, a correction not carried out, anything whose
   date has not come - has its encrypted copy (Purge and Restore depend on it). *)
NeededCopiesKept ==
  \A r \in Used :
    row[r].path # NoPath /\ (row[r].status \in {"quarantined", "pending_restore", "error"}
                          \/ now < row[r].until)
      => row[r].path \in files

(* A request to restore a message puts one copy of it into the review folder,
   however often it is cut short and taken up again (Restore). *)
OneCopyPerRestore ==
  \A r \in RowIds : Cardinality({u \in In("Review") : origin[u] = r}) <= 1

(* A row that names a location as its copy's names the copy of its message;
   Purge deletes by this location. *)
RowsNameTheirCopy ==
  \A r \in Used : Located(r) =>
    /\ row[r].uid \in Issued /\ home[row[r].uid] = row[r].folder
    /\ body[row[r].uid] = row[r].content

-----------------------------------------------------------------------------
(* Action properties *)

Deletes(u) == expunged[u] = -1 /\ expunged'[u] # -1

(* No copy is deleted for good without an encrypted one, nor once any row holds
   the owner's ham correction of its content, the correction of another copy
   included (HasHamFeedback): the candidate is looked at again before STORE, and
   other mail programs expunge what a dead purge has marked.  (With a server that
   answers in time; a late EXPUNGE may find that the disk lost the file.) *)
DeletionsArePermitted ==
  [][\A u \in Uids : Deletes(u) =>
       (\E p \in files : p[1] = body[u]) /\ ~ HamVeto(body[u])]_vars

(* No deletion while a copy of the message waits in the ham-training folder. *)
PurgeWaitsForCorrections ==
  [][\A u \in Uids : Deletes(u) => Matches("TrainHam", body[u]) = {}]_vars

(* A message that is in no folder any more and has its encrypted copy is not
   refused to the owner who asks for it. *)
MissingCanBeRestored ==
  \A r \in Used :
    ((\A u \in live : body[u] # row[r].content) /\ row[r].path \in files /\ Idle)
      => ~ Refused(r)

-----------------------------------------------------------------------------
(* Liveness.  The service starts a run, a purge and a clean-up again and again;
   commands do not wait for anything but the server, for a bounded time. *)
Working ==
  \/ PurgeEnds \/ PurgeLooksAgain \/ StoreDeleted \/ SendExpunge \/ RollBack \/ MarkPurged
  \/ MarkRestorePending \/ SendAppend \/ FinalizeRestore
  \/ ClearArchivePath \/ CleanupEnds
  \/ \E r \in RowIds : PurgeSkips(r) \/ RestoreRefused(r) \/ DeleteFile(r)
  \/ \E u \in Uids : RestoreReconciled(u)

Answers == \E m \in inflight : ServerExpunges(m) \/ ServerAppends(m)

Fairness ==
  /\ WF_vars(Working) /\ WF_vars(Answers)
  /\ SF_vars(\E r \in RowIds : RunRestores(r))
  /\ SF_vars(CleanupStart)

FairSpec == Spec /\ Fairness

(* A restore that was cut short is finished by later runs, unless two copies
   in the review folder leave open which one it is or the disk lost the
   encrypted copy. *)
RestoresComplete ==
  \A r \in RowIds :
    (r \in PendingRestores) ~>
      (r \notin PendingRestores \/ Cardinality(Returned(r)) > 1 \/ row[r].path \notin files)

(* A copy nobody may ask for any more does not stay on disk, not even when the
   clean-up is cut short between the file and its rows. *)
ExpiredCopiesGo ==
  \A r \in RowIds : (r \in Used /\ Expired(r)) ~> ~ (r \in Used /\ Expired(r))
=============================================================================
