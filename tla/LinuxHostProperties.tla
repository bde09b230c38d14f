------------------------- MODULE LinuxHostProperties -------------------------
(* The Linux host: the replacement programs and the daily work share files,   *)
(* locks and containers.                                                      *)
EXTENDS ReleaseReplacement, HostMaintenance

Next == ReplacementNext \/ MaintenanceNext

Spec == HostInit /\ [][Next]_vars

(* Programs that were started run on.  The worker's timer fires every fifteen *)
(* minutes and a backup holds the locks for a few of them: a start that finds *)
(* them free again and again is made once.                                    *)
Fairness ==
    /\ SF_vars(WorkerStart)
    /\ WF_vars(OpStart("worker") \/ WorkerRefused \/ WorkerEnds)
    /\ WF_vars(OpPublishes \/ OpBinds \/ OpComposes \/ OpDone)
    /\ WF_vars(BackupChecks \/ BackupPauses \/ BackupCopiesJournal
               \/ BackupCopiesArchive \/ BackupInspects \/ BackupExportsModel
               \/ BackupResumes \/ BackupPublishes)
    /\ WF_vars(InstallFence \/ InstallHelper \/ InstallUnits \/ InstallPointer)
    /\ WF_vars(UpgradeLocks \/ UpgradeMarks)

FairSpec == Spec /\ Fairness

(* The values the state takes.                                                *)
TypeOK ==
    /\ installed \in [Parts -> Releases \cup {None}]
    /\ disk \in [Parts -> Releases \cup {None}]
    /\ fence \in {"absent", "directory", "lock"}
    /\ markers \subseteq {"pilot-update-pending", "migration-pending"}
    /\ credential \in Passwords \cup {None} /\ loaded \in Passwords \cup {None}
    /\ scanner \in {"absent", "stopped", "up"}
    /\ {controller, fingerprint} \subseteq
         [password: Passwords \cup {None}, hash: 0 .. 3]
    /\ faults \in 0 .. MaxFaults

(* A host with no pending marker never has parts of two releases: it has one  *)
(* whole release or, as long as nobody has configured it, some parts of       *)
(* install.py's package and none of another, which a repeated install.py      *)
(* completes.  So it is after kills of the three programs between any two     *)
(* replacements, and after power losses that keep any subset of the entries   *)
(* install.py did not sync, `current` without the helper among them           *)
(* (install.py:58-72, 300-320; pilot_update.py:260-262,                       *)
(* upgrade_empty_pilot.py:4-6).                                               *)
OneRelease ==
    markers = {} =>
        /\ \/ installed = Whole(installed.current)
           \/ credential = None /\ \A p \in Parts : installed[p] \in {None, "package"}
        /\ Fencing(installed.current) => fence = "lock"

(* A release is never replaced under an application: while the upgrade's      *)
(* marker is there, and after the upgrade died as well, no worker runs, no    *)
(* helper operation runs and no backup is captured, even if the host was      *)
(* provisioned meanwhile (MIGRATION_FENCE.md:14-20).                          *)
PendingStopsTheHost ==
    "migration-pending" \in markers =>
        worker = "idle" /\ op.pc = "idle" /\ backup.pc = "idle"

(* Every published generation is the state of one instant: journal, archive   *)
(* and model belong together and no intent is open (backup.py:200-285).       *)
BackupIsCoherent ==
    generation.copy = generation.at /\ ~generation.copy.intent

(* The backup stops the scanner, and a backup may be killed with the scanner  *)
(* stopped; still no run reaches the mailbox without it (BACKUP.md:77-79).    *)
RunsKeepTheirScanner == worker = "mailbox" => scanner # "stopped"

(* A successful `up` leaves a controller file made from the password it read, *)
(* and a scanner that was started with it if the file is new, however earlier *)
(* operations were interrupted (maintenance.py:262-270).                      *)
ControllerMatches ==
    op.pc = "done" =>
        /\ controller.password = op.password
        /\ op.changed => loaded = op.password

(* What a rotation needs of `up`: the running scanner accepts the stored      *)
(* password.  The code does not promise it: an `up` killed after the          *)
(* fingerprint was published leaves a running scanner with the old one, and   *)
(* the next `up` finds nothing to do.                                         *)
ScannerKnowsThePassword == op.pc = "done" => loaded = op.password

(* A scanner the backup stopped does not stay stopped: the backup itself or   *)
(* the next worker's `up` starts it again.                                    *)
ScannerReturns == scanner = "stopped" ~> scanner # "stopped"
==============================================================================
