-------------------------- MODULE ReleaseReplacement --------------------------
(* The three programs that put a release on the host.  Each replaces the      *)
(* helper, the two systemd units and the `current` pointer one after the      *)
(* other.  Every replacement is a rename, so that a kill leaves the old or    *)
(* the new file; only the pilot's two programs sync the directory after it.   *)
EXTENDS LinuxHost

(***************************************************************************)
(* install.py: initial provisioning, repeatable for its own release only.   *)
(***************************************************************************)

(* A first run finds no instance.  A later one needs the instance's fence,  *)
(* exclusively, and refuses a pending migration, another installed release  *)
(* and a running worker.                                                    *)
InstallStart ==
    /\ ~ProvisionHeld /\ install = "idle"
    /\ "migration-pending" \notin markers
    /\ installed.current \in {None, "package"}
    /\ \/ fence = "absent" /\ install' = "checked"
       \/ fence = "lock" /\ ~FenceShared /\ ~FenceExclusive /\ install' = "fenced"
    /\ UNCHANGED <<installed, disk, fence, markers, pilot, upgrade, stackVars, runVars, faults>>

(* The instance directory comes first; the fence is published in it by a    *)
(* hard link to an inode that is already locked exclusively.                *)
InstallFence ==
    /\ \/ install = "checked" /\ fence = "absent"
          /\ fence' = "directory" /\ UNCHANGED install
       \/ install = "checked" /\ fence = "directory"
          /\ fence' = "lock" /\ install' = "fenced"
    /\ UNCHANGED <<installed, disk, markers, pilot, upgrade, stackVars, runVars, faults>>

(* atomic_file syncs what it writes, but never the directory it renames in. *)
InstallHelper ==
    /\ install = "fenced"
    /\ Renamed("helper", "package")
    /\ install' = "helper"
    /\ UNCHANGED <<fence, markers, pilot, upgrade, stackVars, runVars, faults>>

InstallUnits ==
    /\ \/ install = "helper" /\ Renamed("service", "package") /\ install' = "service"
       \/ install = "service" /\ Renamed("timer", "package") /\ install' = "timer"
    /\ UNCHANGED <<fence, markers, pilot, upgrade, stackVars, runVars, faults>>

(* The pointer is the last thing an installation publishes; it may be the    *)
(* first to reach the disk.                                                 *)
InstallPointer ==
    /\ install = "timer"
    /\ Renamed("current", "package")
    /\ install' = "idle"
    /\ UNCHANGED <<fence, markers, pilot, upgrade, stackVars, runVars, faults>>

InstallStops ==
    /\ install # "idle" /\ install' = "idle"
    /\ Fault
    /\ UNCHANGED <<installed, disk, fence, markers, pilot, upgrade, stackVars, runVars>>

(***************************************************************************)
(* pilot_update.py: the one-off fix of the unused 0.6.1 pilot.              *)
(***************************************************************************)

(* guard(): the given release is installed whole on an unused host whose    *)
(* instance directory holds nothing but credentials and deploy.             *)
Guard(release) ==
    /\ installed = Whole(release)
    /\ fence = "directory" /\ "migration-pending" \notin markers
    /\ Empty /\ Stopped

(* The marker of an earlier attempt is looked for before the helper lock.   *)
(* (An attempt on another release changes nothing and is left out.)         *)
PilotReady ==
    /\ pilot = "idle" /\ installed.current = "0.6.1"
    /\ "pilot-update-pending" \notin markers
    /\ pilot' = "ready"
    /\ UNCHANGED <<installed, disk, fence, markers, install, upgrade, stackVars, runVars, faults>>

PilotLocks ==
    /\ pilot = "ready"
    /\ pilot' = IF ~HelperHeld /\ Guard("0.6.1") THEN "locked" ELSE "idle"
    /\ UNCHANGED <<installed, disk, fence, markers, install, upgrade, stackVars, runVars, faults>>

(* The marker precedes the staged release and every replacement.            *)
PilotMarks ==
    /\ pilot = "locked"
    /\ pilot' = "marked"
    /\ markers' = markers \cup {"pilot-update-pending"}
    /\ UNCHANGED <<installed, disk, fence, install, upgrade, stackVars, runVars, faults>>

(* The candidate is staged, and everything is checked again.                *)
PilotStages ==
    /\ pilot = "marked"
    /\ pilot' = IF Guard("0.6.1") THEN "staged" ELSE "idle"
    /\ UNCHANGED <<installed, disk, fence, markers, install, upgrade, stackVars, runVars, faults>>

PilotHelper ==
    /\ pilot = "staged"
    /\ Synced("helper", "pilotfix")
    /\ pilot' = "helper"
    /\ UNCHANGED <<fence, markers, install, upgrade, stackVars, runVars, faults>>

PilotPointer ==
    /\ pilot = "helper"
    /\ Synced("current", "pilotfix")
    /\ pilot' = "switched"
    /\ UNCHANGED <<fence, markers, install, upgrade, stackVars, runVars, faults>>

PilotVerifies ==
    /\ pilot = "switched"
    /\ pilot' = IF Guard("pilotfix") THEN "verified" ELSE "undo_helper"
    /\ UNCHANGED <<installed, disk, fence, markers, install, upgrade, stackVars, runVars, faults>>

PilotFinishes ==
    /\ pilot = "verified"
    /\ markers' = markers \ {"pilot-update-pending"}
    /\ pilot' = "idle"
    /\ UNCHANGED <<installed, disk, fence, install, upgrade, stackVars, runVars, faults>>

(* An error after the first replacement was attempted is undone part by     *)
(* part, each as far as it goes; the marker stays in every case.            *)
PilotFails ==
    /\ pilot \in {"staged", "helper", "switched"}
    /\ pilot' = "undo_helper"
    /\ Fault
    /\ UNCHANGED <<installed, disk, fence, markers, install, upgrade, stackVars, runVars>>

PilotUndoes ==
    /\ \/ pilot = "undo_helper" /\ pilot' = "undo_pointer"
          /\ Synced("helper", "0.6.1")
       \/ pilot = "undo_pointer" /\ pilot' = "idle"
          /\ Synced("current", "0.6.1")
    /\ UNCHANGED <<fence, markers, install, upgrade, stackVars, runVars, faults>>

PilotUndoFails ==
    /\ \/ pilot = "undo_helper" /\ pilot' = "undo_pointer"
       \/ pilot = "undo_pointer" /\ pilot' = "idle"
    /\ Fault
    /\ UNCHANGED <<installed, disk, fence, markers, install, upgrade, stackVars, runVars>>

PilotStops ==
    /\ pilot # "idle" /\ pilot' = "idle"
    /\ Fault
    /\ UNCHANGED <<installed, disk, fence, markers, install, upgrade, stackVars, runVars>>

(***************************************************************************)
(* upgrade_empty_pilot.py: the bootstrap to a release with a fence.         *)
(***************************************************************************)

(* The first checks, under the provisioning lock alone.                     *)
UpgradeStart ==
    /\ ~ProvisionHeld
    /\ installed.current \in Releases \ {"streamlined"}
    /\ installed = Whole(installed.current)
    /\ fence \in {"directory", "lock"} /\ "migration-pending" \notin markers
    /\ Empty /\ Stopped
    /\ upgrade' = "checked"
    /\ UNCHANGED <<installed, disk, fence, markers, install, pilot, stackVars, runVars, faults>>

(* A missing fence is created; then the fence and the helper lock.          *)
UpgradeLocks ==
    /\ upgrade = "checked"
    /\ fence' = "lock"
    /\ upgrade' = IF FenceShared \/ FenceExclusive \/ HelperHeld
                    THEN "idle" ELSE "locked"
    /\ UNCHANGED <<installed, disk, markers, install, pilot, stackVars, runVars, faults>>

(* What the checks saw may have changed until every lock was held; then     *)
(* the marker precedes the first change.                                    *)
UpgradeMarks ==
    /\ upgrade = "locked"
    /\ IF Stopped /\ Empty /\ markers = {}
         THEN upgrade' = "marked" /\ markers' = {"migration-pending"}
         ELSE upgrade' = "idle" /\ UNCHANGED markers
    /\ UNCHANGED <<installed, disk, fence, install, pilot, stackVars, runVars, faults>>

\* Mutant: the helper is put in place without a sync of its directory.
UpgradeHelperRenames ==
    /\ upgrade = "marked"
    /\ Renamed("helper", "streamlined")
    /\ upgrade' = "helper"
    /\ UNCHANGED <<fence, markers, install, pilot, stackVars, runVars, faults>>

UpgradeHelper ==
    /\ upgrade = "marked"
    /\ Synced("helper", "streamlined")
    /\ upgrade' = "helper"
    /\ UNCHANGED <<fence, markers, install, pilot, stackVars, runVars, faults>>

UpgradeUnits ==
    /\ \/ upgrade = "helper" /\ Synced("service", "streamlined") /\ upgrade' = "service"
       \/ upgrade = "service" /\ Synced("timer", "streamlined") /\ upgrade' = "timer"
    /\ UNCHANGED <<fence, markers, install, pilot, stackVars, runVars, faults>>

UpgradePointer ==
    /\ upgrade = "timer"
    /\ Synced("current", "streamlined")
    /\ upgrade' = "switched"
    /\ UNCHANGED <<fence, markers, install, pilot, stackVars, runVars, faults>>

UpgradeVerifies ==
    /\ upgrade = "switched"
    /\ upgrade' = IF Stopped /\ Empty /\ installed = Whole("streamlined")
                    THEN "verified" ELSE "idle"
    /\ UNCHANGED <<installed, disk, fence, markers, install, pilot, stackVars, runVars, faults>>

UpgradeFinishes ==
    /\ upgrade = "verified"
    /\ markers' = markers \ {"migration-pending"}
    /\ upgrade' = "idle"
    /\ UNCHANGED <<installed, disk, fence, install, pilot, stackVars, runVars, faults>>

UpgradeStops ==
    /\ upgrade # "idle" /\ upgrade' = "idle"
    /\ Fault
    /\ UNCHANGED <<installed, disk, fence, markers, install, pilot, stackVars, runVars>>

(* What every marker asks of the administrator: inspect, make the host whole *)
(* for the release `current` names (or for the marker's previous one, where   *)
(* a power loss took the pointer), and only then clear the marker.            *)
Reconcile ==
    /\ markers # {}
    /\ {install, pilot, upgrade, worker, op.pc, backup.pc} = {"idle"}
    /\ installed' = Whole(IF installed.current = None THEN "package" ELSE installed.current)
    /\ disk' = installed'
    /\ markers' = {}
    /\ UNCHANGED <<fence, install, pilot, upgrade, stackVars, runVars, faults>>

ReplacementNext ==
    \/ InstallStart \/ InstallFence \/ InstallHelper \/ InstallUnits
    \/ InstallPointer \/ InstallStops
    \/ PilotReady \/ PilotLocks \/ PilotMarks \/ PilotStages \/ PilotHelper
    \/ PilotPointer \/ PilotVerifies \/ PilotFinishes \/ PilotFails
    \/ PilotUndoes \/ PilotUndoFails \/ PilotStops
    \/ UpgradeStart \/ UpgradeLocks \/ UpgradeMarks \/ UpgradeHelper
    \/ UpgradeUnits \/ UpgradePointer \/ UpgradeVerifies \/ UpgradeFinishes
    \/ UpgradeStops \/ Reconcile
==============================================================================
