------------------------------ MODULE LinuxHost ------------------------------
(* The Linux host Mail Guardian is installed on: the files of the installed  *)
(* release, the stable migration fence with its pending markers, the helper   *)
(* lock, the scanner's containers and the data of the application.  The       *)
(* programs that share them are modelled in ReleaseReplacement (install.py,   *)
(* pilot_update.py, upgrade_empty_pilot.py) and HostMaintenance               *)
(* (maintenance.py, backup.py and the worker that calls them).                *)
EXTENDS Integers, FiniteSets

CONSTANTS Passwords,     \* the controller passwords an administrator provisions
          MaxChanges,    \* bound: how often the mailbox or the model changes
          MaxFaults,     \* bound: failures, kills and power losses together
          None

VARIABLES
    installed,    \* which release the helper, the units and `current` are of
    disk,         \* the same, as far as it is sure to survive a power loss
    fence,        \* "absent", "directory" (no migration.lock yet) or "lock"
    markers,      \* the pending markers that exist
    credential,   \* the provisioned controller password, None on an empty host
    scanner,      \* the project's containers: "absent", "stopped" or "up"
    controller,   \* the generated controller file: its password and its hash
    fingerprint,  \* what the private fingerprint file binds
    loaded,       \* the password the running scanner was started with
    data,         \* versions of journal, archive and model; an open intent
    install, pilot, upgrade,   \* where each replacement program stands
    op,           \* the helper's operation in progress
    worker,       \* the worker's command in progress
    backup,       \* the backup in progress
    generation,   \* the last backup whose checksum receipt was published
    faults

releaseVars == <<installed, disk, fence, markers, install, pilot, upgrade>>
stackVars   == <<credential, scanner, controller, fingerprint, loaded, op>>
runVars     == <<data, worker, backup, generation>>
vars        == <<releaseVars, stackVars, runVars, faults>>

(* 0.6.1 is the first pilot, pilotfix its one-off fix, package what           *)
(* install.py provisions and streamlined what the empty-pilot upgrade puts    *)
(* in its place.  Only the last two honour the fence.                         *)
Releases == {"0.6.1", "pilotfix", "package", "streamlined"}
ASSUME HostAssumption ==
    /\ None \notin Passwords \cup Releases \cup {"worker", "administrator"}
    /\ {MaxChanges, MaxFaults} \subseteq Nat

Fencing(release) == release \in {"package", "streamlined"}

(* The entries a release has outside its own tree: the helper, two systemd    *)
(* units and the pointer, in three directories.                               *)
Parts == {"helper", "service", "timer", "current"}

(* The pilot's fix may change only the helper and the host check.             *)
UnitsOf(release) == IF release = "pilotfix" THEN "0.6.1" ELSE release

Whole(release) ==
    [p \in Parts |-> IF p \in {"service", "timer"} THEN UnitsOf(release) ELSE release]

(* A replacement is a rename.  A power loss may take it back until its        *)
(* directory is synced: pilot_update.py and upgrade_empty_pilot.py do that    *)
(* at once, install.py does not.                                              *)
Renamed(part, release) ==
    installed' = [installed EXCEPT ![part] = release] /\ UNCHANGED disk
Synced(part, release) ==
    /\ installed' = [installed EXCEPT ![part] = release]
    /\ disk' = [disk EXCEPT ![part] = release]

Nothing == Whole(None)
NoFile  == [password |-> None, hash |-> 0]
NoOp    == [pc |-> "idle", by |-> None, password |-> None, changed |-> FALSE]
NoCopy  == [journal |-> 0, archive |-> 0, model |-> 0, intent |-> FALSE]
NoBackup == [pc |-> "idle", copy |-> NoCopy, at |-> NoCopy]

(***************************************************************************)
(* The locks.  All are flock(2) locks taken without waiting: a program that *)
(* cannot have one stops, and the death of a program releases its locks.    *)
(***************************************************************************)

(* /run/mail-guardian-provision.lock: installers and the upgrade.           *)
ProvisionHeld == install # "idle" \/ upgrade # "idle"

(* migration.lock, shared: workers and helpers for their whole command.     *)
FenceShared == worker # "idle" \/ op.pc # "idle"

(* migration.lock, exclusive.                                               *)
FenceExclusive ==
    \/ install \notin {"idle", "checked"}
    \/ upgrade \notin {"idle", "checked"}
    \/ backup.pc # "idle"

(* /run/mail-guardian-maintenance-<instance>.lock.                          *)
HelperHeld ==
    \/ op.pc # "idle"
    \/ pilot \notin {"idle", "ready"}
    \/ upgrade \notin {"idle", "checked"}
    \/ backup.pc # "idle"

(* No worker process, no container of the project.                          *)
Stopped == worker = "idle" /\ scanner = "absent"

(* No configuration, no credential and no application data.                 *)
Empty == credential = None /\ data = NoCopy

HostInit ==
    /\ \/ installed = Nothing /\ fence = "absent"
       \/ installed = Whole("0.6.1") /\ fence = "directory"
    /\ disk = installed /\ markers = {}
    /\ credential = None /\ scanner = "absent" /\ loaded = None
    /\ controller = NoFile /\ fingerprint = NoFile
    /\ data = NoCopy
    /\ install = "idle" /\ pilot = "idle" /\ upgrade = "idle"
    /\ op = NoOp /\ worker = "idle" /\ backup = NoBackup
    /\ generation = [copy |-> NoCopy, at |-> NoCopy] /\ faults = 0

Fault == faults < MaxFaults /\ faults' = faults + 1
==============================================================================
