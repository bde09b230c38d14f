--------------------------- MODULE HostMaintenance ---------------------------
(* The installed host at work: the administrator provisions and rotates the   *)
(* controller password, the worker runs, the helper starts and stops the      *)
(* containers, and the daily backup captures the whole application.           *)
EXTENDS LinuxHost

(* The first credential makes an empty host a configured one; a later one is  *)
(* a rotation.  It goes to a host with a fence, but takes no lock: a          *)
(* replacement may be under way, and its marker does not keep it out.  It is  *)
(* done by hand, and assumed to be done where no part is missing and the      *)
(* kernel has written back what an installer left unsynced.                   *)
Provision(p) ==
    /\ fence = "lock" /\ Fencing(installed.current)
    /\ disk = installed /\ \A part \in Parts : installed[part] # None
    /\ p # credential
    /\ credential' = p
    /\ UNCHANGED <<releaseVars, scanner, controller, fingerprint, loaded, op, runVars, faults>>

(* A configured host, no migration under way and none pending.                *)
Open ==
    /\ credential # None /\ fence = "lock" /\ ~FenceExclusive
    /\ "migration-pending" \notin markers
    /\ Fencing(installed.helper)

(***************************************************************************)
(* The helper: `up` and `down`.  The other operations change nothing.       *)
(***************************************************************************)

\* Mutant: the fingerprint binds the password alone.
ReusableByPassword == fingerprint.password = credential

(* The generated file is used again only if the fingerprint binds both the  *)
(* present password and exactly this file.                                  *)
Reusable == fingerprint = [controller EXCEPT !.password = credential]

(* A salted hash is never the one of a file or fingerprint already there.   *)
NewHash == CHOOSE h \in 1 .. 3 : h \notin {controller.hash, fingerprint.hash}

OpStart(by) ==
    /\ ~HelperHeld
    /\ IF by = "worker" THEN worker = "stack" ELSE Open
    /\ op' = [pc |-> IF Reusable THEN "compose" ELSE "hash", by |-> by,
              password |-> credential, changed |-> ~Reusable]
    /\ UNCHANGED <<releaseVars, credential, scanner, controller, fingerprint, loaded, runVars, faults>>

OpPublishes ==
    /\ op.pc = "hash"
    /\ controller' = [password |-> op.password, hash |-> NewHash]
    /\ op' = [op EXCEPT !.pc = "bind"]
    /\ UNCHANGED <<releaseVars, credential, scanner, fingerprint, loaded, runVars, faults>>

OpBinds ==
    /\ op.pc = "bind"
    /\ fingerprint' = [password |-> op.password, hash |-> controller.hash]
    /\ op' = [op EXCEPT !.pc = "compose"]
    /\ UNCHANGED <<releaseVars, credential, scanner, controller, loaded, runVars, faults>>

\* Mutant: nothing is started when nothing changed.
OpComposesChanges ==
    /\ op.pc = "compose"
    /\ scanner' = IF op.changed THEN "up" ELSE scanner
    /\ loaded' = IF op.changed THEN controller.password ELSE loaded
    /\ op' = [op EXCEPT !.pc = "done"]
    /\ UNCHANGED <<releaseVars, credential, controller, fingerprint, runVars, faults>>

(* A changed file recreates the containers; otherwise a running scanner is  *)
(* left alone.                                                              *)
OpComposes ==
    /\ op.pc = "compose"
    /\ scanner' = "up"
    /\ loaded' = IF op.changed \/ scanner # "up" THEN controller.password ELSE loaded
    /\ op' = [op EXCEPT !.pc = "done"]
    /\ UNCHANGED <<releaseVars, credential, controller, fingerprint, runVars, faults>>

OpDone ==
    /\ op.pc = "done"
    /\ op' = NoOp
    /\ worker' = IF op.by = "worker" THEN "mailbox" ELSE worker
    /\ UNCHANGED <<releaseVars, credential, scanner, controller, fingerprint, loaded,
                   data, backup, generation, faults>>

(* An error or a kill; the worker that asked stops with its helper.         *)
OpFails ==
    /\ op.pc # "idle"
    /\ op' = NoOp
    /\ worker' = IF op.by = "worker" THEN "idle" ELSE worker
    /\ Fault
    /\ UNCHANGED <<releaseVars, credential, scanner, controller, fingerprint, loaded,
                   data, backup, generation>>

OpDown ==
    /\ Open /\ ~HelperHeld
    /\ scanner' = "absent" /\ loaded' = None
    /\ UNCHANGED <<releaseVars, credential, controller, fingerprint, op, runVars, faults>>

(***************************************************************************)
(* The worker: it holds the fence for its whole command, brings the stack   *)
(* up, and changes archive, journal and model.                              *)
(***************************************************************************)

WorkerStart ==
    /\ worker = "idle" /\ Open
    /\ worker' = "stack"
    /\ UNCHANGED <<releaseVars, stackVars, data, backup, generation, faults>>

WorkerRefused ==
    /\ worker = "stack" /\ HelperHeld /\ op.by # "worker"
    /\ worker' = "idle"
    /\ UNCHANGED <<releaseVars, stackVars, data, backup, generation, faults>>

(* An archive file is written before the row that names it; an intent is    *)
(* journalled before the model learns and settled afterwards.               *)
WorkerChanges ==
    /\ worker = "mailbox"
    /\ \/ data.archive < MaxChanges /\ data' = [data EXCEPT !.archive = @ + 1]
       \/ ~data.intent /\ data.journal < MaxChanges
          /\ data' = [data EXCEPT !.journal = @ + 1, !.intent = TRUE]
       \/ data.intent /\ data.model < MaxChanges
          /\ data' = [data EXCEPT !.model = @ + 1]
       \/ data.intent
          /\ data' = [data EXCEPT !.journal = @ + 1, !.intent = FALSE]
    /\ UNCHANGED <<releaseVars, stackVars, worker, backup, generation, faults>>

WorkerEnds ==
    /\ worker = "mailbox"
    /\ worker' = "idle"
    /\ UNCHANGED <<releaseVars, stackVars, data, backup, generation, faults>>

(* A running scanner also learns by itself.                                 *)
ScannerLearns ==
    /\ scanner = "up" /\ data.model < MaxChanges
    /\ data' = [data EXCEPT !.model = @ + 1]
    /\ UNCHANGED <<releaseVars, stackVars, worker, backup, generation, faults>>

(***************************************************************************)
(* backup.py                                                                *)
(***************************************************************************)

At(pc, next) == backup.pc = pc /\ backup' = [backup EXCEPT !.pc = next]

BackupLocks ==
    /\ Open /\ ~FenceShared /\ ~HelperHeld
    /\ backup' = [NoBackup EXCEPT !.pc = "locked"]
    /\ UNCHANGED <<releaseVars, stackVars, data, worker, generation, faults>>

BackupChecks ==
    /\ backup.pc = "locked"
    /\ backup' = IF scanner = "up" THEN [backup EXCEPT !.pc = "checked"] ELSE NoBackup
    /\ UNCHANGED <<releaseVars, stackVars, data, worker, generation, faults>>

\* Mutant: the scanner runs on.
BackupPausesNothing ==
    /\ At("checked", "paused")
    /\ UNCHANGED <<releaseVars, stackVars, data, worker, generation, faults>>

(* Rspamd can write the model by itself: it is stopped for the capture.     *)
BackupPauses ==
    /\ At("checked", "paused")
    /\ scanner' = "stopped" /\ loaded' = None
    /\ UNCHANGED <<releaseVars, credential, controller, fingerprint, op, data, worker, generation, faults>>

BackupCopiesJournal ==
    /\ backup.pc = "paused"
    /\ backup' = [pc |-> "journal", at |-> data,
                  copy |-> [NoCopy EXCEPT !.journal = data.journal, !.intent = data.intent]]
    /\ UNCHANGED <<releaseVars, stackVars, data, worker, generation, faults>>

BackupCopiesArchive ==
    /\ backup.pc = "journal"
    /\ backup' = [backup EXCEPT !.pc = "archive", !.copy.archive = data.archive]
    /\ UNCHANGED <<releaseVars, stackVars, data, worker, generation, faults>>

(* An open intent in the copied journal fails the capture.                  *)
BackupInspects ==
    /\ At("archive", IF backup.copy.intent THEN "failing" ELSE "inspected")
    /\ UNCHANGED <<releaseVars, stackVars, data, worker, generation, faults>>

BackupExportsModel ==
    /\ backup.pc = "inspected"
    /\ backup' = [backup EXCEPT !.pc = "exported", !.copy.model = data.model]
    /\ UNCHANGED <<releaseVars, stackVars, data, worker, generation, faults>>

(* The finally block starts the scanner again, after a failure as well.     *)
BackupResumes ==
    /\ \/ At("exported", "resumed")
       \/ backup.pc = "failing" /\ backup' = NoBackup
    /\ scanner' = "up" /\ loaded' = controller.password
    /\ UNCHANGED <<releaseVars, credential, controller, fingerprint, op, data, worker, generation, faults>>

(* The sealed file counts once its checksum receipt is linked beside it.    *)
BackupPublishes ==
    /\ backup.pc = "resumed"
    /\ generation' = [copy |-> backup.copy, at |-> backup.at]
    /\ backup' = NoBackup
    /\ UNCHANGED <<releaseVars, stackVars, data, worker, faults>>

BackupFails ==
    /\ backup.pc \in {"checked", "paused", "journal", "archive", "inspected"}
    /\ backup' = [backup EXCEPT !.pc = "failing"]
    /\ Fault
    /\ UNCHANGED <<releaseVars, stackVars, data, worker, generation>>

(* Killed, or failing where nothing is left to undo.                        *)
BackupStops ==
    /\ backup.pc # "idle" /\ backup' = NoBackup
    /\ Fault
    /\ UNCHANGED <<releaseVars, stackVars, data, worker, generation>>

(* The kernel writes back what nobody has synced.                           *)
WriteBack ==
    /\ disk # installed
    /\ disk' = installed
    /\ UNCHANGED <<installed, fence, markers, install, pilot, upgrade, stackVars, runVars, faults>>

(* A power loss ends every program and takes back any of the entries whose  *)
(* directory was not synced: parts of a release, or an instance directory   *)
(* that has no fence yet.  Docker starts the containers again that were not *)
(* stopped by hand (`restart: unless-stopped`).                             *)
PowerLoss ==
    /\ \E lost \in SUBSET Parts :
          installed' = [p \in Parts |-> IF p \in lost THEN disk[p] ELSE installed[p]]
    /\ disk' = installed'
    /\ fence' \in IF fence = "directory" /\ installed = Nothing
                   THEN {"absent", "directory"} ELSE {fence}
    /\ install' = "idle" /\ pilot' = "idle" /\ upgrade' = "idle"
    /\ op' = NoOp /\ worker' = "idle" /\ backup' = NoBackup
    /\ loaded' = IF scanner = "up" THEN controller.password ELSE None
    /\ Fault
    /\ UNCHANGED <<markers, credential, scanner, controller, fingerprint, data, generation>>

MaintenanceNext ==
    \/ \E p \in Passwords : Provision(p)
    \/ \E by \in {"worker", "administrator"} : OpStart(by)
    \/ OpPublishes \/ OpBinds \/ OpComposes \/ OpDone \/ OpFails \/ OpDown
    \/ WorkerStart \/ WorkerRefused \/ WorkerChanges \/ WorkerEnds \/ ScannerLearns
    \/ BackupLocks \/ BackupChecks \/ BackupPauses \/ BackupCopiesJournal
    \/ BackupCopiesArchive \/ BackupInspects \/ BackupExportsModel \/ BackupResumes
    \/ BackupPublishes \/ BackupFails \/ BackupStops
    \/ WriteBack \/ PowerLoss
==============================================================================
