---------------------------- MODULE LinuxHost_proofs ----------------------------
(***************************************************************************)
(* Proofs about the Linux host.  The locks say who may be at work beside   *)
(* whom; from that follows what the markers, the installed files, the      *)
(* captured copies and the controller's two files can be at every step.    *)
(***************************************************************************)
EXTENDS LinuxHostProperties, TLAPS

InstallSteps == {"idle", "checked", "fenced", "helper", "service", "timer"}
PilotSteps ==
  {"idle", "ready", "locked", "marked", "staged", "helper", "switched", "verified",
   "undo_helper", "undo_pointer"}
UpgradeSteps ==
  {"idle", "checked", "locked", "marked", "helper", "service", "timer", "switched",
   "verified"}
BackupSteps ==
  {"idle", "locked", "checked", "paused", "journal", "archive", "inspected", "exported",
   "resumed", "failing"}
Copy == [journal : Nat, archive : Nat, model : Nat, intent : BOOLEAN]

(* The steps of the programs and the versions they copy.                    *)
StepType ==
  /\ install \in InstallSteps /\ pilot \in PilotSteps /\ upgrade \in UpgradeSteps
  /\ op \in [pc : {"idle", "hash", "bind", "compose", "done"},
             by : {"worker", "administrator", None}, password : Passwords \cup {None},
             changed : BOOLEAN]
  /\ worker \in {"idle", "stack", "mailbox"}

CopyType ==
  /\ data \in Copy
  /\ backup \in [pc : BackupSteps, copy : Copy, at : Copy]
  /\ generation \in [copy : Copy, at : Copy]

(* Who is not at work beside whom.                                          *)
LockInv ==
  /\ install = "idle" \/ upgrade = "idle"
  /\ upgrade \notin {"idle", "checked"} =>
       /\ worker = "idle" /\ op.pc = "idle" /\ backup.pc = "idle"
       /\ pilot \in {"idle", "ready"} /\ fence = "lock"
  /\ backup.pc # "idle" => worker = "idle" /\ op.pc = "idle"
  /\ op.pc # "idle" /\ op.by = "worker" => worker = "stack"

(* What a marker says, and who has published it.                            *)
MarkerInv ==
  /\ "migration-pending" \in markers => worker = "idle" /\ op.pc = "idle" /\ backup.pc = "idle"
  /\ "migration-pending" \in markers => fence = "lock"
  /\ upgrade \notin {"idle", "checked", "locked"} =>
       markers = {"migration-pending"}
  /\ pilot \notin {"idle", "ready", "locked"} => "pilot-update-pending" \in markers
  /\ "pilot-update-pending" \in markers \/ pilot \notin {"idle", "ready"} =>
       installed.current \in {"0.6.1", "pilotfix"}
  /\ install # "idle" => markers = {} /\ installed.current \in {None, "package"}

(* What is installed where no marker is, and what a power loss can take.    *)
ReleaseInv ==
  /\ installed.current \in {"package", "streamlined"} => fence = "lock"
  /\ markers = {} =>
       \/ installed = Whole(installed.current)
       \/ \A p \in Parts : installed[p] \in {None, "package"}
  /\ install \notin {"idle", "checked"} => fence = "lock"
  /\ pilot = "verified" => installed = Whole("pilotfix")
  /\ upgrade = "verified" => installed = Whole("streamlined")
  /\ \A p \in Parts :
       /\ disk[p] # installed[p] => disk[p] = None /\ installed[p] = "package"
       /\ credential # None => disk[p] = installed[p] /\ installed[p] # None

(* The data stands still while it is captured.                              *)
CaptureInv ==
  /\ backup.pc \in {"paused", "journal", "archive", "inspected"} => scanner = "stopped"
  /\ backup.pc \in {"journal", "archive", "inspected"} =>
       /\ backup.at = data
       /\ backup.copy.journal = data.journal /\ backup.copy.intent = data.intent
  /\ backup.pc \in {"archive", "inspected"} => backup.copy.archive = data.archive
  /\ backup.pc = "inspected" => ~data.intent
  /\ backup.pc \in {"exported", "resumed"} => backup.copy = backup.at /\ ~backup.copy.intent
  /\ generation.copy = generation.at /\ ~generation.copy.intent

(* The fingerprint never names a file that was made from another password.  *)
ControllerInv ==
  /\ fingerprint.hash = controller.hash => fingerprint.password = controller.password
  /\ op.pc \in {"bind", "compose", "done"} => controller.password = op.password
  /\ op.pc = "done" /\ op.changed => loaded = op.password
  /\ op.pc = "done" => scanner = "up"
  /\ worker = "mailbox" => scanner # "stopped"

IInv ==
  /\ TypeOK /\ StepType /\ CopyType
  /\ LockInv /\ MarkerInv /\ ReleaseInv /\ CaptureInv /\ ControllerInv

-----------------------------------------------------------------------------
\* What a program that is not at work has in its variable.
LEMMA AtRest ==
  /\ NoCopy \in Copy /\ ~NoCopy.intent
  /\ NoBackup \in [pc : BackupSteps, copy : Copy, at : Copy] /\ NoBackup.pc = "idle"
  /\ NoOp \in [pc : {"idle", "hash", "bind", "compose", "done"},
               by : {"worker", "administrator", None}, password : Passwords \cup {None},
               changed : BOOLEAN]
  /\ NoOp.pc = "idle" /\ NoOp.by = None
BY DEF NoCopy, NoBackup, NoOp, Copy, BackupSteps

\* A new hash is neither that of the file nor that of the fingerprint.
LEMMA HashIsNew ==
  ASSUME TypeOK
  PROVE  NewHash \in 1..3 \ {controller.hash, fingerprint.hash}
<1>1. controller.hash \in 0..3 /\ fingerprint.hash \in 0..3
  BY DEF TypeOK
<1>2. \E h \in 1..3 : h \notin {controller.hash, fingerprint.hash}
  <2>1. 1 \in 1..3 /\ 2 \in 1..3 /\ 3 \in 1..3
    OBVIOUS
  <2> QED BY <1>1, <2>1
<1> QED BY <1>2 DEF NewHash

\* What a run does to the versions keeps their type.
LEMMA CopyGrows ==
  ASSUME NEW d \in Copy
  PROVE  /\ [d EXCEPT !.archive = @ + 1] \in Copy
         /\ [d EXCEPT !.model = @ + 1] \in Copy
         /\ [d EXCEPT !.journal = @ + 1, !.intent = TRUE] \in Copy
         /\ [d EXCEPT !.journal = @ + 1, !.intent = FALSE] \in Copy
<1>1. [d EXCEPT !.archive = @ + 1] \in Copy
  BY DEF Copy
<1>2. [d EXCEPT !.model = @ + 1] \in Copy
  BY DEF Copy
<1>3. [d EXCEPT !.journal = @ + 1] \in Copy
  BY DEF Copy
<1>4. ASSUME NEW e \in Copy, NEW b \in BOOLEAN PROVE [e EXCEPT !.intent = b] \in Copy
  BY DEF Copy
<1>5. \A b : [d EXCEPT !.journal = @ + 1, !.intent = b] = [[d EXCEPT !.journal = @ + 1] EXCEPT !.intent = b]
  BY DEF Copy
<1> QED BY <1>1, <1>2, <1>3, <1>4, <1>5

-----------------------------------------------------------------------------
\* install.py, pilot_update.py and upgrade_empty_pilot.py, step by step.
USE HostAssumption DEF releaseVars, stackVars, runVars, Renamed, Synced, Parts
LEMMA InstallStartKeeps == ASSUME IInv, InstallStart PROVE IInv'
<1> USE DEF IInv, InstallStart, ProvisionHeld, FenceShared, FenceExclusive
<1>1. TypeOK' BY DEF TypeOK
<1>2. StepType' BY DEF StepType, InstallSteps
<1>3. CopyType' BY DEF CopyType
<1>4. LockInv' BY DEF LockInv
<1>5. MarkerInv' BY DEF MarkerInv, TypeOK, Releases
<1>6. ReleaseInv' BY DEF ReleaseInv
<1>7. CaptureInv' BY DEF CaptureInv
<1>8. ControllerInv' BY DEF ControllerInv
<1> QED BY <1>1, <1>2, <1>3, <1>4, <1>5, <1>6, <1>7, <1>8

LEMMA InstallFenceKeeps == ASSUME IInv, InstallFence PROVE IInv'
<1> USE DEF IInv, InstallFence
<1>1. TypeOK' BY DEF TypeOK
<1>2. StepType' BY DEF StepType, InstallSteps
<1>3. CopyType' BY DEF CopyType
<1>4. LockInv' BY DEF LockInv
<1>5. MarkerInv' BY DEF MarkerInv
<1>6. ReleaseInv' BY DEF ReleaseInv
<1>7. CaptureInv' BY DEF CaptureInv
<1>8. ControllerInv' BY DEF ControllerInv
<1> QED BY <1>1, <1>2, <1>3, <1>4, <1>5, <1>6, <1>7, <1>8

LEMMA InstallHelperKeeps == ASSUME IInv, InstallHelper PROVE IInv'
<1> USE DEF IInv, InstallHelper
<1>1. TypeOK' BY DEF TypeOK, Releases
<1>2. StepType' BY DEF StepType, InstallSteps
<1>3. CopyType' BY DEF CopyType
<1>4. LockInv' BY DEF LockInv
<1>5. MarkerInv' BY DEF MarkerInv
<1>6. ReleaseInv' BY DEF ReleaseInv, MarkerInv, LockInv, TypeOK, Releases, Whole, UnitsOf
<1>7. CaptureInv' BY DEF CaptureInv
<1>8. ControllerInv' BY DEF ControllerInv
<1> QED BY <1>1, <1>2, <1>3, <1>4, <1>5, <1>6, <1>7, <1>8

LEMMA InstallUnitsKeeps == ASSUME IInv, InstallUnits PROVE IInv'
<1> USE DEF IInv, InstallUnits
<1>1. TypeOK' BY DEF TypeOK, Releases
<1>2. StepType' BY DEF StepType, InstallSteps
<1>3. CopyType' BY DEF CopyType
<1>4. LockInv' BY DEF LockInv
<1>5. MarkerInv' BY DEF MarkerInv, LockInv, ReleaseInv, TypeOK, Releases
<1>6. ReleaseInv' BY DEF ReleaseInv, MarkerInv, LockInv, TypeOK, Releases, Whole, UnitsOf
<1>7. CaptureInv' BY DEF CaptureInv
<1>8. ControllerInv' BY DEF ControllerInv
<1> QED BY <1>1, <1>2, <1>3, <1>4, <1>5, <1>6, <1>7, <1>8

LEMMA InstallPointerKeeps == ASSUME IInv, InstallPointer PROVE IInv'
<1> USE DEF IInv, InstallPointer
<1>1. TypeOK' BY DEF TypeOK, Releases
<1>2. StepType' BY DEF StepType, InstallSteps
<1>3. CopyType' BY DEF CopyType
<1>4. LockInv' BY DEF LockInv
<1>5. MarkerInv' BY DEF MarkerInv, LockInv, ReleaseInv, TypeOK, Releases
<1>6. ReleaseInv' BY DEF ReleaseInv, MarkerInv, LockInv, TypeOK, Releases, Whole, UnitsOf
<1>7. CaptureInv' BY DEF CaptureInv
<1>8. ControllerInv' BY DEF ControllerInv
<1> QED BY <1>1, <1>2, <1>3, <1>4, <1>5, <1>6, <1>7, <1>8

LEMMA InstallStopsKeeps == ASSUME IInv, InstallStops PROVE IInv'
<1> USE DEF IInv, InstallStops, Fault
<1>1. TypeOK' BY DEF TypeOK
<1>2. StepType' BY DEF StepType, InstallSteps
<1>3. CopyType' BY DEF CopyType
<1>4. LockInv' BY DEF LockInv
<1>5. MarkerInv' BY DEF MarkerInv
<1>6. ReleaseInv' BY DEF ReleaseInv
<1>7. CaptureInv' BY DEF CaptureInv
<1>8. ControllerInv' BY DEF ControllerInv
<1> QED BY <1>1, <1>2, <1>3, <1>4, <1>5, <1>6, <1>7, <1>8

LEMMA PilotReadyKeeps == ASSUME IInv, PilotReady PROVE IInv'
<1> USE DEF IInv, PilotReady
<1>1. TypeOK' BY DEF TypeOK
<1>2. StepType' BY DEF StepType, PilotSteps
<1>3. CopyType' BY DEF CopyType
<1>4. LockInv' BY DEF LockInv
<1>5. MarkerInv' BY DEF MarkerInv
<1>6. ReleaseInv' BY DEF ReleaseInv
<1>7. CaptureInv' BY DEF CaptureInv
<1>8. ControllerInv' BY DEF ControllerInv
<1> QED BY <1>1, <1>2, <1>3, <1>4, <1>5, <1>6, <1>7, <1>8

LEMMA PilotLocksKeeps == ASSUME IInv, PilotLocks PROVE IInv'
<1> USE DEF IInv, PilotLocks, HelperHeld, Guard, Whole, UnitsOf, Empty, NoCopy, Stopped
<1>1. TypeOK' BY DEF TypeOK
<1>2. StepType' BY DEF StepType, PilotSteps
<1>3. CopyType' BY DEF CopyType
<1>4. LockInv' BY DEF LockInv
<1>5. MarkerInv' BY DEF MarkerInv
<1>6. ReleaseInv' BY DEF ReleaseInv
<1>7. CaptureInv' BY DEF CaptureInv
<1>8. ControllerInv' BY DEF ControllerInv
<1> QED BY <1>1, <1>2, <1>3, <1>4, <1>5, <1>6, <1>7, <1>8

LEMMA PilotMarksKeeps == ASSUME IInv, PilotMarks PROVE IInv'
<1> USE DEF IInv, PilotMarks
<1>1. TypeOK' BY DEF TypeOK
<1>2. StepType' BY DEF StepType, PilotSteps
<1>3. CopyType' BY DEF CopyType
<1>4. LockInv' BY DEF LockInv
<1>5. MarkerInv' BY DEF MarkerInv, LockInv, Releases
<1>6. ReleaseInv' BY DEF ReleaseInv
<1>7. CaptureInv' BY DEF CaptureInv
<1>8. ControllerInv' BY DEF ControllerInv
<1> QED BY <1>1, <1>2, <1>3, <1>4, <1>5, <1>6, <1>7, <1>8

LEMMA PilotStagesKeeps == ASSUME IInv, PilotStages PROVE IInv'
<1> USE DEF IInv, PilotStages, Guard, Whole, UnitsOf, Empty, NoCopy, Stopped
<1>1. TypeOK' BY DEF TypeOK
<1>2. StepType' BY DEF StepType, PilotSteps
<1>3. CopyType' BY DEF CopyType
<1>4. LockInv' BY DEF LockInv
<1>5. MarkerInv' BY DEF MarkerInv
<1>6. ReleaseInv' BY DEF ReleaseInv
<1>7. CaptureInv' BY DEF CaptureInv
<1>8. ControllerInv' BY DEF ControllerInv
<1> QED BY <1>1, <1>2, <1>3, <1>4, <1>5, <1>6, <1>7, <1>8

LEMMA PilotHelperKeeps == ASSUME IInv, PilotHelper PROVE IInv'
<1> USE DEF IInv, PilotHelper
<1>1. TypeOK' BY DEF TypeOK, Releases
<1>2. StepType' BY DEF StepType, PilotSteps
<1>3. CopyType' BY DEF CopyType
<1>4. LockInv' BY DEF LockInv
<1>5. MarkerInv' BY DEF MarkerInv
<1>6. ReleaseInv' BY DEF ReleaseInv, MarkerInv, LockInv, TypeOK, Releases, Whole, UnitsOf
<1>7. CaptureInv' BY DEF CaptureInv
<1>8. ControllerInv' BY DEF ControllerInv
<1> QED BY <1>1, <1>2, <1>3, <1>4, <1>5, <1>6, <1>7, <1>8

LEMMA PilotPointerKeeps == ASSUME IInv, PilotPointer PROVE IInv'
<1> USE DEF IInv, PilotPointer
<1>1. TypeOK' BY DEF TypeOK, Releases
<1>2. StepType' BY DEF StepType, PilotSteps
<1>3. CopyType' BY DEF CopyType
<1>4. LockInv' BY DEF LockInv
<1>5. MarkerInv' BY DEF MarkerInv, Releases
<1>6. ReleaseInv' BY DEF ReleaseInv, MarkerInv, LockInv, TypeOK, Releases, Whole, UnitsOf
<1>7. CaptureInv' BY DEF CaptureInv
<1>8. ControllerInv' BY DEF ControllerInv
<1> QED BY <1>1, <1>2, <1>3, <1>4, <1>5, <1>6, <1>7, <1>8

LEMMA PilotVerifiesKeeps == ASSUME IInv, PilotVerifies PROVE IInv'
<1> USE DEF IInv, PilotVerifies, Guard, Whole, UnitsOf, Empty, NoCopy, Stopped
<1>1. TypeOK' BY DEF TypeOK
<1>2. StepType' BY DEF StepType, PilotSteps
<1>3. CopyType' BY DEF CopyType
<1>4. LockInv' BY DEF LockInv
<1>5. MarkerInv' BY DEF MarkerInv
<1>6. ReleaseInv' BY DEF ReleaseInv
<1>7. CaptureInv' BY DEF CaptureInv
<1>8. ControllerInv' BY DEF ControllerInv
<1> QED BY <1>1, <1>2, <1>3, <1>4, <1>5, <1>6, <1>7, <1>8

LEMMA PilotFinishesKeeps == ASSUME IInv, PilotFinishes PROVE IInv'
<1> USE DEF IInv, PilotFinishes
<1>1. TypeOK' BY DEF TypeOK
<1>2. StepType' BY DEF StepType, PilotSteps
<1>3. CopyType' BY DEF CopyType
<1>4. LockInv' BY DEF LockInv
<1>5. MarkerInv' BY DEF MarkerInv
<1>6. ReleaseInv' BY DEF ReleaseInv, Whole
<1>7. CaptureInv' BY DEF CaptureInv
<1>8. ControllerInv' BY DEF ControllerInv
<1> QED BY <1>1, <1>2, <1>3, <1>4, <1>5, <1>6, <1>7, <1>8

LEMMA PilotFailsKeeps == ASSUME IInv, PilotFails PROVE IInv'
<1> USE DEF IInv, PilotFails, Fault
<1>1. TypeOK' BY DEF TypeOK
<1>2. StepType' BY DEF StepType, PilotSteps
<1>3. CopyType' BY DEF CopyType
<1>4. LockInv' BY DEF LockInv
<1>5. MarkerInv' BY DEF MarkerInv
<1>6. ReleaseInv' BY DEF ReleaseInv
<1>7. CaptureInv' BY DEF CaptureInv
<1>8. ControllerInv' BY DEF ControllerInv
<1> QED BY <1>1, <1>2, <1>3, <1>4, <1>5, <1>6, <1>7, <1>8

LEMMA PilotUndoesKeeps == ASSUME IInv, PilotUndoes PROVE IInv'
<1> USE DEF IInv, PilotUndoes
<1>1. TypeOK' BY DEF TypeOK, Releases
<1>2. StepType' BY DEF StepType, PilotSteps
<1>3. CopyType' BY DEF CopyType
<1>4. LockInv' BY DEF LockInv
<1>5. MarkerInv' BY DEF MarkerInv, TypeOK, Releases
<1>6. ReleaseInv' BY DEF ReleaseInv, MarkerInv, LockInv, TypeOK, Releases, Whole, UnitsOf
<1>7. CaptureInv' BY DEF CaptureInv
<1>8. ControllerInv' BY DEF ControllerInv
<1> QED BY <1>1, <1>2, <1>3, <1>4, <1>5, <1>6, <1>7, <1>8

LEMMA PilotUndoFailsKeeps == ASSUME IInv, PilotUndoFails PROVE IInv'
<1> USE DEF IInv, PilotUndoFails, Fault
<1>1. TypeOK' BY DEF TypeOK
<1>2. StepType' BY DEF StepType, PilotSteps
<1>3. CopyType' BY DEF CopyType
<1>4. LockInv' BY DEF LockInv
<1>5. MarkerInv' BY DEF MarkerInv
<1>6. ReleaseInv' BY DEF ReleaseInv
<1>7. CaptureInv' BY DEF CaptureInv
<1>8. ControllerInv' BY DEF ControllerInv
<1> QED BY <1>1, <1>2, <1>3, <1>4, <1>5, <1>6, <1>7, <1>8

LEMMA PilotStopsKeeps == ASSUME IInv, PilotStops PROVE IInv'
<1> USE DEF IInv, PilotStops, Fault
<1>1. TypeOK' BY DEF TypeOK
<1>2. StepType' BY DEF StepType, PilotSteps
<1>3. CopyType' BY DEF CopyType
<1>4. LockInv' BY DEF LockInv
<1>5. MarkerInv' BY DEF MarkerInv
<1>6. ReleaseInv' BY DEF ReleaseInv
<1>7. CaptureInv' BY DEF CaptureInv
<1>8. ControllerInv' BY DEF ControllerInv
<1> QED BY <1>1, <1>2, <1>3, <1>4, <1>5, <1>6, <1>7, <1>8

LEMMA UpgradeStartKeeps == ASSUME IInv, UpgradeStart PROVE IInv'
<1> USE DEF IInv, UpgradeStart, ProvisionHeld, Releases, Whole, UnitsOf, Empty, NoCopy,
            Stopped
<1>1. TypeOK' BY DEF TypeOK
<1>2. StepType' BY DEF StepType, UpgradeSteps
<1>3. CopyType' BY DEF CopyType
<1>4. LockInv' BY DEF LockInv
<1>5. MarkerInv' BY DEF MarkerInv
<1>6. ReleaseInv' BY DEF ReleaseInv
<1>7. CaptureInv' BY DEF CaptureInv
<1>8. ControllerInv' BY DEF ControllerInv
<1> QED BY <1>1, <1>2, <1>3, <1>4, <1>5, <1>6, <1>7, <1>8

LEMMA UpgradeLocksKeeps == ASSUME IInv, UpgradeLocks PROVE IInv'
<1> USE DEF IInv, UpgradeLocks, FenceShared, FenceExclusive, HelperHeld
<1>1. TypeOK' BY DEF TypeOK
<1>2. StepType' BY DEF StepType, UpgradeSteps
<1>3. CopyType' BY DEF CopyType
<1>4. LockInv' BY DEF LockInv
<1>5. MarkerInv' BY DEF MarkerInv
<1>6. ReleaseInv' BY DEF ReleaseInv
<1>7. CaptureInv' BY DEF CaptureInv
<1>8. ControllerInv' BY DEF ControllerInv
<1> QED BY <1>1, <1>2, <1>3, <1>4, <1>5, <1>6, <1>7, <1>8

LEMMA UpgradeMarksKeeps == ASSUME IInv, UpgradeMarks PROVE IInv'
<1> USE DEF IInv, UpgradeMarks, Stopped, Empty, NoCopy
<1>1. TypeOK' BY DEF TypeOK
<1>2. StepType' BY DEF StepType, UpgradeSteps
<1>3. CopyType' BY DEF CopyType
<1>4. LockInv' BY DEF LockInv
<1>5. MarkerInv' BY DEF MarkerInv, LockInv
<1>6. ReleaseInv' BY DEF ReleaseInv
<1>7. CaptureInv' BY DEF CaptureInv
<1>8. ControllerInv' BY DEF ControllerInv
<1> QED BY <1>1, <1>2, <1>3, <1>4, <1>5, <1>6, <1>7, <1>8

LEMMA UpgradeHelperKeeps == ASSUME IInv, UpgradeHelper PROVE IInv'
<1> USE DEF IInv, UpgradeHelper
<1>1. TypeOK' BY DEF TypeOK, Releases
<1>2. StepType' BY DEF StepType, UpgradeSteps
<1>3. CopyType' BY DEF CopyType
<1>4. LockInv' BY DEF LockInv
<1>5. MarkerInv' BY DEF MarkerInv
<1>6. ReleaseInv' BY DEF ReleaseInv, MarkerInv, LockInv, TypeOK, Releases, Whole, UnitsOf
<1>7. CaptureInv' BY DEF CaptureInv
<1>8. ControllerInv' BY DEF ControllerInv
<1> QED BY <1>1, <1>2, <1>3, <1>4, <1>5, <1>6, <1>7, <1>8

LEMMA UpgradeUnitsKeeps == ASSUME IInv, UpgradeUnits PROVE IInv'
<1> USE DEF IInv, UpgradeUnits
<1>1. TypeOK' BY DEF TypeOK, Releases
<1>2. StepType' BY DEF StepType, UpgradeSteps
<1>3. CopyType' BY DEF CopyType
<1>4. LockInv' BY DEF LockInv
<1>5. MarkerInv' BY DEF MarkerInv, LockInv, ReleaseInv, TypeOK, Releases
<1>6. ReleaseInv' BY DEF ReleaseInv, MarkerInv, LockInv, TypeOK, Releases, Whole, UnitsOf
<1>7. CaptureInv' BY DEF CaptureInv
<1>8. ControllerInv' BY DEF ControllerInv
<1> QED BY <1>1, <1>2, <1>3, <1>4, <1>5, <1>6, <1>7, <1>8

LEMMA UpgradePointerKeeps == ASSUME IInv, UpgradePointer PROVE IInv'
<1> USE DEF IInv, UpgradePointer
<1>1. TypeOK' BY DEF TypeOK, Releases
<1>2. StepType' BY DEF StepType, UpgradeSteps
<1>3. CopyType' BY DEF CopyType
<1>4. LockInv' BY DEF LockInv
<1>5. MarkerInv' BY DEF MarkerInv, LockInv, ReleaseInv, TypeOK, Releases
<1>6. ReleaseInv' BY DEF ReleaseInv, MarkerInv, LockInv, TypeOK, Releases, Whole, UnitsOf
<1>7. CaptureInv' BY DEF CaptureInv
<1>8. ControllerInv' BY DEF ControllerInv
<1> QED BY <1>1, <1>2, <1>3, <1>4, <1>5, <1>6, <1>7, <1>8

LEMMA UpgradeVerifiesKeeps == ASSUME IInv, UpgradeVerifies PROVE IInv'
<1> USE DEF IInv, UpgradeVerifies, Stopped, Empty, NoCopy, Whole, UnitsOf
<1>1. TypeOK' BY DEF TypeOK
<1>2. StepType' BY DEF StepType, UpgradeSteps
<1>3. CopyType' BY DEF CopyType
<1>4. LockInv' BY DEF LockInv
<1>5. MarkerInv' BY DEF MarkerInv
<1>6. ReleaseInv' BY DEF ReleaseInv
<1>7. CaptureInv' BY DEF CaptureInv
<1>8. ControllerInv' BY DEF ControllerInv
<1> QED BY <1>1, <1>2, <1>3, <1>4, <1>5, <1>6, <1>7, <1>8

LEMMA UpgradeFinishesKeeps == ASSUME IInv, UpgradeFinishes PROVE IInv'
<1> USE DEF IInv, UpgradeFinishes
<1>1. TypeOK' BY DEF TypeOK
<1>2. StepType' BY DEF StepType, UpgradeSteps
<1>3. CopyType' BY DEF CopyType
<1>4. LockInv' BY DEF LockInv
<1>5. MarkerInv' BY DEF MarkerInv
<1>6. ReleaseInv' BY DEF ReleaseInv, Whole
<1>7. CaptureInv' BY DEF CaptureInv
<1>8. ControllerInv' BY DEF ControllerInv
<1> QED BY <1>1, <1>2, <1>3, <1>4, <1>5, <1>6, <1>7, <1>8

LEMMA UpgradeStopsKeeps == ASSUME IInv, UpgradeStops PROVE IInv'
<1> USE DEF IInv, UpgradeStops, Fault
<1>1. TypeOK' BY DEF TypeOK
<1>2. StepType' BY DEF StepType, UpgradeSteps
<1>3. CopyType' BY DEF CopyType
<1>4. LockInv' BY DEF LockInv
<1>5. MarkerInv' BY DEF MarkerInv
<1>6. ReleaseInv' BY DEF ReleaseInv
<1>7. CaptureInv' BY DEF CaptureInv
<1>8. ControllerInv' BY DEF ControllerInv
<1> QED BY <1>1, <1>2, <1>3, <1>4, <1>5, <1>6, <1>7, <1>8

LEMMA ReconcileKeeps == ASSUME IInv, Reconcile PROVE IInv'
<1> USE DEF IInv, Reconcile, Whole, UnitsOf
<1>1. TypeOK' BY DEF TypeOK, Releases
<1>2. StepType' BY DEF StepType
<1>3. CopyType' BY DEF CopyType
<1>4. LockInv' BY DEF LockInv
<1>5. MarkerInv' BY DEF MarkerInv
<1>6. ReleaseInv'
  <2>1. PICK r \in Releases :
          /\ r = IF installed.current = None THEN "package" ELSE installed.current
          /\ installed' = Whole(r)
    BY DEF TypeOK, Releases
  <2>2. installed'["current"] = r /\ \A p \in Parts : installed'[p] \in Releases
    BY <2>1 DEF Releases
  <2>3. disk' = installed' /\ None \notin Releases
    OBVIOUS
  <2>4. r \in {"package", "streamlined"} => fence = "lock"
    <3>1. CASE installed.current = None
      <4>1. "migration-pending" \in markers
        <5>1. installed.current \notin {"0.6.1", "pilotfix"}
          BY <3>1 DEF Releases
        <5>2. "pilot-update-pending" \notin markers
          BY <5>1 DEF MarkerInv
        <5>3. markers \subseteq {"pilot-update-pending", "migration-pending"} /\ markers # {}
          BY DEF TypeOK
        <5> HIDE DEF IInv, Reconcile
        <5> QED BY <5>2, <5>3
      <4> QED BY <4>1 DEF MarkerInv
    <3>2. CASE installed.current # None
      BY <2>1, <3>2 DEF ReleaseInv
    <3> QED BY <3>1, <3>2
  <2>5. install' = "idle" /\ pilot' = "idle" /\ upgrade' = "idle"
    OBVIOUS
  <2>6. installed' = Whole(installed'["current"])
    BY <2>1, <2>2
  <2>7. \A p \in Parts : disk'[p] = installed'[p] /\ installed'[p] # None
    BY <2>2, <2>3
  <2>8. install' \in {"idle", "checked"} /\ pilot' # "verified" /\ upgrade' # "verified"
    BY <2>5
  <2>9. fence' = fence
    OBVIOUS
  <2> HIDE DEF Whole, Reconcile, IInv, Parts
  <2> QED BY <2>2, <2>1, <2>4, <2>6, <2>7, <2>8, <2>9 DEF ReleaseInv
<1>7. CaptureInv' BY DEF CaptureInv
<1>8. ControllerInv' BY DEF ControllerInv
<1> QED BY <1>1, <1>2, <1>3, <1>4, <1>5, <1>6, <1>7, <1>8

-----------------------------------------------------------------------------
\* The helper, the worker and the backup, step by step.
LEMMA ProvisionKeeps == ASSUME NEW p \in Passwords, IInv, Provision(p) PROVE IInv'
<1> USE DEF IInv, Provision, Fencing
<1>1. TypeOK' BY DEF TypeOK
<1>2. StepType' BY DEF StepType
<1>3. CopyType' BY DEF CopyType
<1>4. LockInv' BY DEF LockInv
<1>5. MarkerInv' BY DEF MarkerInv
<1>6. ReleaseInv' BY DEF ReleaseInv
<1>7. CaptureInv' BY DEF CaptureInv
<1>8. ControllerInv' BY DEF ControllerInv
<1> QED BY <1>1, <1>2, <1>3, <1>4, <1>5, <1>6, <1>7, <1>8

LEMMA OpStartKeeps == ASSUME NEW by \in {"worker", "administrator"}, IInv, OpStart(by) PROVE IInv'
<1> USE DEF IInv, OpStart, HelperHeld, Open, FenceExclusive, Fencing, Reusable
<1>1. TypeOK' BY DEF TypeOK
<1>2. StepType'
  <2>1. (~Reusable) \in BOOLEAN
    OBVIOUS
  <2> HIDE DEF Reusable
  <2>2. op' \in [pc : {"idle", "hash", "bind", "compose", "done"},
                by : {"worker", "administrator", None}, password : Passwords \cup {None},
                changed : BOOLEAN]
    BY <2>1 DEF TypeOK
  <2> QED BY <2>2 DEF StepType
<1>3. CopyType' BY DEF CopyType
<1>4. LockInv' BY DEF LockInv
<1>5. MarkerInv' BY DEF MarkerInv
<1>6. ReleaseInv' BY DEF ReleaseInv
<1>7. CaptureInv' BY DEF CaptureInv
<1>8. ControllerInv' BY DEF ControllerInv, TypeOK
<1> QED BY <1>1, <1>2, <1>3, <1>4, <1>5, <1>6, <1>7, <1>8

LEMMA OpPublishesKeeps == ASSUME IInv, OpPublishes PROVE IInv'
<1> USE DEF IInv, OpPublishes, NewHash
<1>1. TypeOK'
  <2>1. NewHash \in 0..3
    BY HashIsNew
  <2> HIDE DEF NewHash
  <2>2. controller' \in [password : Passwords \cup {None}, hash : 0..3]
    BY <2>1 DEF StepType
  <2> QED BY <2>2 DEF TypeOK
<1>2. StepType' BY DEF StepType
<1>3. CopyType' BY DEF CopyType
<1>4. LockInv' BY DEF LockInv
<1>5. MarkerInv' BY DEF MarkerInv
<1>6. ReleaseInv' BY DEF ReleaseInv
<1>7. CaptureInv' BY DEF CaptureInv
<1>8. ControllerInv' BY DEF ControllerInv
<1> QED BY <1>1, <1>2, <1>3, <1>4, <1>5, <1>6, <1>7, <1>8

LEMMA OpBindsKeeps == ASSUME IInv, OpBinds PROVE IInv'
<1> USE DEF IInv, OpBinds
<1>1. TypeOK'
  <2>1. controller \in [password : Passwords \cup {None}, hash : 0..3]
    BY DEF TypeOK
  <2>2. fingerprint' \in [password : Passwords \cup {None}, hash : 0..3]
    BY <2>1 DEF StepType
  <2> QED BY <2>2 DEF TypeOK
<1>2. StepType' BY DEF StepType
<1>3. CopyType' BY DEF CopyType
<1>4. LockInv' BY DEF LockInv
<1>5. MarkerInv' BY DEF MarkerInv
<1>6. ReleaseInv' BY DEF ReleaseInv
<1>7. CaptureInv' BY DEF CaptureInv
<1>8. ControllerInv' BY DEF ControllerInv
<1> QED BY <1>1, <1>2, <1>3, <1>4, <1>5, <1>6, <1>7, <1>8

LEMMA OpComposesKeeps == ASSUME IInv, OpComposes PROVE IInv'
<1> USE DEF IInv, OpComposes
<1>1. TypeOK' BY DEF TypeOK
<1>2. StepType' BY DEF StepType
<1>3. CopyType' BY DEF CopyType
<1>4. LockInv' BY DEF LockInv
<1>5. MarkerInv' BY DEF MarkerInv
<1>6. ReleaseInv' BY DEF ReleaseInv
<1>7. CaptureInv' BY DEF CaptureInv, LockInv
<1>8. ControllerInv' BY DEF ControllerInv
<1> QED BY <1>1, <1>2, <1>3, <1>4, <1>5, <1>6, <1>7, <1>8

LEMMA OpDoneKeeps == ASSUME IInv, OpDone PROVE IInv'
<1> USE DEF IInv, OpDone, NoOp
<1>1. TypeOK' BY DEF TypeOK
<1>2. StepType' BY DEF StepType
<1>3. CopyType' BY DEF CopyType
<1>4. LockInv' BY DEF LockInv
<1>5. MarkerInv' BY DEF MarkerInv
<1>6. ReleaseInv' BY DEF ReleaseInv
<1>7. CaptureInv' BY DEF CaptureInv
<1>8. ControllerInv' BY DEF ControllerInv
<1> QED BY <1>1, <1>2, <1>3, <1>4, <1>5, <1>6, <1>7, <1>8

LEMMA OpFailsKeeps == ASSUME IInv, OpFails PROVE IInv'
<1> USE DEF IInv, OpFails, NoOp, Fault
<1>1. TypeOK' BY DEF TypeOK
<1>2. StepType' BY DEF StepType
<1>3. CopyType' BY DEF CopyType
<1>4. LockInv' BY DEF LockInv
<1>5. MarkerInv' BY DEF MarkerInv
<1>6. ReleaseInv' BY DEF ReleaseInv
<1>7. CaptureInv' BY DEF CaptureInv
<1>8. ControllerInv' BY DEF ControllerInv
<1> QED BY <1>1, <1>2, <1>3, <1>4, <1>5, <1>6, <1>7, <1>8

LEMMA OpDownKeeps == ASSUME IInv, OpDown PROVE IInv'
<1> USE DEF IInv, OpDown, Open, FenceExclusive, Fencing, HelperHeld
<1>1. TypeOK' BY DEF TypeOK
<1>2. StepType' BY DEF StepType
<1>3. CopyType' BY DEF CopyType
<1>4. LockInv' BY DEF LockInv
<1>5. MarkerInv' BY DEF MarkerInv
<1>6. ReleaseInv' BY DEF ReleaseInv
<1>7. CaptureInv' BY DEF CaptureInv
<1>8. ControllerInv' BY DEF ControllerInv
<1> QED BY <1>1, <1>2, <1>3, <1>4, <1>5, <1>6, <1>7, <1>8

LEMMA WorkerStartKeeps == ASSUME IInv, WorkerStart PROVE IInv'
<1> USE DEF IInv, WorkerStart, Open, FenceExclusive, Fencing
<1>1. TypeOK' BY DEF TypeOK
<1>2. StepType' BY DEF StepType
<1>3. CopyType' BY DEF CopyType
<1>4. LockInv' BY DEF LockInv
<1>5. MarkerInv' BY DEF MarkerInv
<1>6. ReleaseInv' BY DEF ReleaseInv
<1>7. CaptureInv' BY DEF CaptureInv
<1>8. ControllerInv' BY DEF ControllerInv
<1> QED BY <1>1, <1>2, <1>3, <1>4, <1>5, <1>6, <1>7, <1>8

LEMMA WorkerRefusedKeeps == ASSUME IInv, WorkerRefused PROVE IInv'
<1> USE DEF IInv, WorkerRefused, HelperHeld
<1>1. TypeOK' BY DEF TypeOK
<1>2. StepType' BY DEF StepType
<1>3. CopyType' BY DEF CopyType
<1>4. LockInv' BY DEF LockInv
<1>5. MarkerInv' BY DEF MarkerInv
<1>6. ReleaseInv' BY DEF ReleaseInv
<1>7. CaptureInv' BY DEF CaptureInv
<1>8. ControllerInv' BY DEF ControllerInv
<1> QED BY <1>1, <1>2, <1>3, <1>4, <1>5, <1>6, <1>7, <1>8

LEMMA WorkerChangesKeeps == ASSUME IInv, WorkerChanges PROVE IInv'
<1> USE DEF IInv, WorkerChanges
<1>1. TypeOK' BY DEF TypeOK
<1>2. StepType' BY DEF StepType
<1>3. CopyType'
  <2>1. data \in Copy
    BY DEF CopyType
  <2>2. data' \in Copy
    BY <2>1, CopyGrows
  <2> QED BY <2>2 DEF CopyType
<1>4. LockInv' BY DEF LockInv
<1>5. MarkerInv' BY DEF MarkerInv
<1>6. ReleaseInv' BY DEF ReleaseInv
<1>7. CaptureInv' BY DEF CaptureInv, LockInv
<1>8. ControllerInv' BY DEF ControllerInv
<1> QED BY <1>1, <1>2, <1>3, <1>4, <1>5, <1>6, <1>7, <1>8

LEMMA WorkerEndsKeeps == ASSUME IInv, WorkerEnds PROVE IInv'
<1> USE DEF IInv, WorkerEnds
<1>1. TypeOK' BY DEF TypeOK
<1>2. StepType' BY DEF StepType
<1>3. CopyType' BY DEF CopyType
<1>4. LockInv' BY DEF LockInv
<1>5. MarkerInv' BY DEF MarkerInv
<1>6. ReleaseInv' BY DEF ReleaseInv
<1>7. CaptureInv' BY DEF CaptureInv
<1>8. ControllerInv' BY DEF ControllerInv
<1> QED BY <1>1, <1>2, <1>3, <1>4, <1>5, <1>6, <1>7, <1>8

LEMMA ScannerLearnsKeeps == ASSUME IInv, ScannerLearns PROVE IInv'
<1> USE DEF IInv, ScannerLearns
<1>1. TypeOK' BY DEF TypeOK
<1>2. StepType' BY DEF StepType
<1>3. CopyType' BY DEF CopyType, Copy
<1>4. LockInv' BY DEF LockInv
<1>5. MarkerInv' BY DEF MarkerInv
<1>6. ReleaseInv' BY DEF ReleaseInv
<1>7. CaptureInv' BY DEF CaptureInv
<1>8. ControllerInv' BY DEF ControllerInv
<1> QED BY <1>1, <1>2, <1>3, <1>4, <1>5, <1>6, <1>7, <1>8

LEMMA BackupLocksKeeps == ASSUME IInv, BackupLocks PROVE IInv'
<1> USE DEF IInv, BackupLocks, Open, FenceExclusive, Fencing, FenceShared, HelperHeld,
            NoBackup, NoCopy
<1>1. TypeOK' BY DEF TypeOK
<1>2. StepType' BY DEF StepType
<1>3. CopyType' BY DEF CopyType, Copy, BackupSteps
<1>4. LockInv' BY DEF LockInv
<1>5. MarkerInv' BY DEF MarkerInv
<1>6. ReleaseInv' BY DEF ReleaseInv
<1>7. CaptureInv' BY DEF CaptureInv
<1>8. ControllerInv' BY DEF ControllerInv
<1> QED BY <1>1, <1>2, <1>3, <1>4, <1>5, <1>6, <1>7, <1>8

LEMMA BackupChecksKeeps == ASSUME IInv, BackupChecks PROVE IInv'
<1> USE DEF IInv, BackupChecks, NoBackup, NoCopy
<1>1. TypeOK' BY DEF TypeOK
<1>2. StepType' BY DEF StepType
<1>3. CopyType' BY DEF CopyType, Copy, BackupSteps
<1>4. LockInv' BY DEF LockInv
<1>5. MarkerInv' BY DEF MarkerInv
<1>6. ReleaseInv' BY DEF ReleaseInv
<1>7. CaptureInv' BY DEF CaptureInv
<1>8. ControllerInv' BY DEF ControllerInv
<1> QED BY <1>1, <1>2, <1>3, <1>4, <1>5, <1>6, <1>7, <1>8

LEMMA BackupPausesKeeps == ASSUME IInv, BackupPauses PROVE IInv'
<1> USE DEF IInv, BackupPauses, At
<1>1. TypeOK' BY DEF TypeOK
<1>2. StepType' BY DEF StepType
<1>3. CopyType' BY DEF CopyType, BackupSteps
<1>4. LockInv' BY DEF LockInv
<1>5. MarkerInv' BY DEF MarkerInv
<1>6. ReleaseInv' BY DEF ReleaseInv
<1>7. CaptureInv' BY DEF CaptureInv
<1>8. ControllerInv' BY DEF ControllerInv, LockInv
<1> QED BY <1>1, <1>2, <1>3, <1>4, <1>5, <1>6, <1>7, <1>8

LEMMA BackupCopiesJournalKeeps == ASSUME IInv, BackupCopiesJournal PROVE IInv'
<1> USE DEF IInv, BackupCopiesJournal, NoCopy
<1>1. TypeOK' BY DEF TypeOK
<1>2. StepType' BY DEF StepType
<1>3. CopyType' BY DEF CopyType, Copy, BackupSteps
<1>4. LockInv' BY DEF LockInv
<1>5. MarkerInv' BY DEF MarkerInv
<1>6. ReleaseInv' BY DEF ReleaseInv
<1>7. CaptureInv' BY DEF CaptureInv
<1>8. ControllerInv' BY DEF ControllerInv
<1> QED BY <1>1, <1>2, <1>3, <1>4, <1>5, <1>6, <1>7, <1>8

LEMMA BackupCopiesArchiveKeeps == ASSUME IInv, BackupCopiesArchive PROVE IInv'
<1> USE DEF IInv, BackupCopiesArchive
<1>1. TypeOK' BY DEF TypeOK
<1>2. StepType' BY DEF StepType
<1>3. CopyType' BY DEF CopyType, Copy, BackupSteps
<1>4. LockInv' BY DEF LockInv
<1>5. MarkerInv' BY DEF MarkerInv
<1>6. ReleaseInv' BY DEF ReleaseInv
<1>7. CaptureInv' BY DEF CaptureInv, CopyType, Copy
<1>8. ControllerInv' BY DEF ControllerInv
<1> QED BY <1>1, <1>2, <1>3, <1>4, <1>5, <1>6, <1>7, <1>8

LEMMA BackupInspectsKeeps == ASSUME IInv, BackupInspects PROVE IInv'
<1> USE DEF IInv, BackupInspects, At
<1>1. TypeOK' BY DEF TypeOK
<1>2. StepType' BY DEF StepType
<1>3. CopyType' BY DEF CopyType, BackupSteps
<1>4. LockInv' BY DEF LockInv
<1>5. MarkerInv' BY DEF MarkerInv
<1>6. ReleaseInv' BY DEF ReleaseInv
<1>7. CaptureInv' BY DEF CaptureInv
<1>8. ControllerInv' BY DEF ControllerInv
<1> QED BY <1>1, <1>2, <1>3, <1>4, <1>5, <1>6, <1>7, <1>8

LEMMA BackupExportsModelKeeps == ASSUME IInv, BackupExportsModel PROVE IInv'
<1> USE DEF IInv, BackupExportsModel
<1>1. TypeOK' BY DEF TypeOK
<1>2. StepType' BY DEF StepType
<1>3. CopyType' BY DEF CopyType, Copy, BackupSteps
<1>4. LockInv' BY DEF LockInv
<1>5. MarkerInv' BY DEF MarkerInv
<1>6. ReleaseInv' BY DEF ReleaseInv
<1>7. CaptureInv' BY DEF CaptureInv, CopyType, Copy
<1>8. ControllerInv' BY DEF ControllerInv
<1> QED BY <1>1, <1>2, <1>3, <1>4, <1>5, <1>6, <1>7, <1>8

LEMMA BackupResumesKeeps == ASSUME IInv, BackupResumes PROVE IInv'
<1> USE DEF IInv, BackupResumes, At, NoBackup, NoCopy
<1>1. TypeOK' BY DEF TypeOK
<1>2. StepType' BY DEF StepType
<1>3. CopyType'
  <2>1. CASE At("exported", "resumed")
    BY <2>1 DEF CopyType, BackupSteps
  <2>2. CASE backup' = NoBackup
    BY <2>2, AtRest DEF CopyType
  <2> QED BY <2>1, <2>2
<1>4. LockInv' BY DEF LockInv
<1>5. MarkerInv' BY DEF MarkerInv
<1>6. ReleaseInv' BY DEF ReleaseInv
<1>7. CaptureInv' BY DEF CaptureInv, CopyType
<1>8. ControllerInv' BY DEF ControllerInv
<1> QED BY <1>1, <1>2, <1>3, <1>4, <1>5, <1>6, <1>7, <1>8

LEMMA BackupPublishesKeeps == ASSUME IInv, BackupPublishes PROVE IInv'
<1> USE DEF IInv, BackupPublishes, NoBackup, NoCopy
<1>1. TypeOK' BY DEF TypeOK
<1>2. StepType' BY DEF StepType
<1>3. CopyType' BY DEF CopyType, Copy, BackupSteps
<1>4. LockInv' BY DEF LockInv
<1>5. MarkerInv' BY DEF MarkerInv
<1>6. ReleaseInv' BY DEF ReleaseInv
<1>7. CaptureInv' BY DEF CaptureInv
<1>8. ControllerInv' BY DEF ControllerInv
<1> QED BY <1>1, <1>2, <1>3, <1>4, <1>5, <1>6, <1>7, <1>8

LEMMA BackupFailsKeeps == ASSUME IInv, BackupFails PROVE IInv'
<1> USE DEF IInv, BackupFails, Fault
<1>1. TypeOK' BY DEF TypeOK
<1>2. StepType' BY DEF StepType
<1>3. CopyType' BY DEF CopyType, BackupSteps
<1>4. LockInv' BY DEF LockInv
<1>5. MarkerInv' BY DEF MarkerInv
<1>6. ReleaseInv' BY DEF ReleaseInv
<1>7. CaptureInv' BY DEF CaptureInv
<1>8. ControllerInv' BY DEF ControllerInv
<1> QED BY <1>1, <1>2, <1>3, <1>4, <1>5, <1>6, <1>7, <1>8

LEMMA BackupStopsKeeps == ASSUME IInv, BackupStops PROVE IInv'
<1> USE DEF IInv, BackupStops, NoBackup, NoCopy, Fault
<1>1. TypeOK' BY DEF TypeOK
<1>2. StepType' BY DEF StepType
<1>3. CopyType' BY DEF CopyType, Copy, BackupSteps
<1>4. LockInv' BY DEF LockInv
<1>5. MarkerInv' BY DEF MarkerInv
<1>6. ReleaseInv' BY DEF ReleaseInv
<1>7. CaptureInv' BY DEF CaptureInv
<1>8. ControllerInv' BY DEF ControllerInv
<1> QED BY <1>1, <1>2, <1>3, <1>4, <1>5, <1>6, <1>7, <1>8

LEMMA WriteBackKeeps == ASSUME IInv, WriteBack PROVE IInv'
<1> USE DEF IInv, WriteBack
<1>1. TypeOK' BY DEF TypeOK
<1>2. StepType' BY DEF StepType
<1>3. CopyType' BY DEF CopyType
<1>4. LockInv' BY DEF LockInv
<1>5. MarkerInv' BY DEF MarkerInv
<1>6. ReleaseInv' BY DEF ReleaseInv
<1>7. CaptureInv' BY DEF CaptureInv
<1>8. ControllerInv' BY DEF ControllerInv
<1> QED BY <1>1, <1>2, <1>3, <1>4, <1>5, <1>6, <1>7, <1>8

LEMMA PowerLossKeeps == ASSUME IInv, PowerLoss PROVE IInv'
<1> USE DEF IInv, PowerLoss, NoOp, NoBackup, NoCopy, Fault
<1>1. TypeOK' BY DEF TypeOK
<1>2. StepType' BY DEF StepType, InstallSteps, PilotSteps, UpgradeSteps
<1>3. CopyType' BY DEF CopyType, Copy, BackupSteps
<1>4. LockInv' BY DEF LockInv
<1>5. MarkerInv' BY DEF MarkerInv, LockInv, ReleaseInv, TypeOK, Releases
<1>6. ReleaseInv' BY DEF ReleaseInv, MarkerInv, LockInv, TypeOK, Releases, Whole, UnitsOf
<1>7. CaptureInv' BY DEF CaptureInv
<1>8. ControllerInv' BY DEF ControllerInv
<1> QED BY <1>1, <1>2, <1>3, <1>4, <1>5, <1>6, <1>7, <1>8

-----------------------------------------------------------------------------
\* An empty host, or one with the first pilot.
LEMMA InitInv == HostInit => IInv
<1> SUFFICES ASSUME HostInit PROVE IInv
  OBVIOUS
<1>1. TypeOK
  <2>1. installed \in [Parts -> Releases \cup {None}]
    BY DEF HostInit, Nothing, Whole, UnitsOf, Releases
  <2>2. NoFile \in [password : Passwords \cup {None}, hash : 0..3]
    BY DEF NoFile
  <2>3. faults \in 0..MaxFaults
    BY DEF HostInit
  <2> QED BY <2>1, <2>2, <2>3 DEF TypeOK, HostInit
<1>2. StepType /\ CopyType
  BY AtRest DEF StepType, CopyType, HostInit, InstallSteps, PilotSteps, UpgradeSteps
<1>3. LockInv /\ MarkerInv
  BY AtRest DEF LockInv, MarkerInv, HostInit
<1>4. ReleaseInv
  BY DEF ReleaseInv, HostInit, Nothing, Whole, UnitsOf, Releases
<1>5. CaptureInv /\ ControllerInv
  BY AtRest DEF CaptureInv, ControllerInv, HostInit
<1> QED BY <1>1, <1>2, <1>3, <1>4, <1>5 DEF IInv

\* A state that is left alone.
LEMMA StutterKeeps == ASSUME IInv, UNCHANGED vars PROVE IInv'
<1> USE DEF IInv, vars
<1>1. (TypeOK /\ StepType /\ CopyType)'
  BY DEF TypeOK, StepType, CopyType
<1>2. (LockInv /\ MarkerInv /\ ReleaseInv)'
  BY DEF LockInv, MarkerInv, ReleaseInv
<1>3. (CaptureInv /\ ControllerInv)'
  BY DEF CaptureInv, ControllerInv
<1> QED BY <1>1, <1>2, <1>3

\* One step of anybody.
LEMMA StepKeeps == ASSUME IInv, [Next]_vars PROVE IInv'
<1>1. CASE ReplacementNext
  BY <1>1, InstallStartKeeps, InstallFenceKeeps, InstallHelperKeeps, InstallUnitsKeeps,
     InstallPointerKeeps, InstallStopsKeeps, PilotReadyKeeps, PilotLocksKeeps,
     PilotMarksKeeps, PilotStagesKeeps, PilotHelperKeeps, PilotPointerKeeps,
     PilotVerifiesKeeps, PilotFinishesKeeps, PilotFailsKeeps, PilotUndoesKeeps,
     PilotUndoFailsKeeps, PilotStopsKeeps, UpgradeStartKeeps, UpgradeLocksKeeps,
     UpgradeMarksKeeps, UpgradeHelperKeeps, UpgradeUnitsKeeps, UpgradePointerKeeps,
     UpgradeVerifiesKeeps, UpgradeFinishesKeeps, UpgradeStopsKeeps, ReconcileKeeps
    DEF ReplacementNext
<1>2. CASE MaintenanceNext
  BY <1>2, ProvisionKeeps, OpStartKeeps, OpPublishesKeeps, OpBindsKeeps, OpComposesKeeps,
     OpDoneKeeps, OpFailsKeeps, OpDownKeeps, WorkerStartKeeps, WorkerRefusedKeeps,
     WorkerChangesKeeps, WorkerEndsKeeps, ScannerLearnsKeeps, BackupLocksKeeps,
     BackupChecksKeeps, BackupPausesKeeps, BackupCopiesJournalKeeps,
     BackupCopiesArchiveKeeps, BackupInspectsKeeps, BackupExportsModelKeeps,
     BackupResumesKeeps, BackupPublishesKeeps, BackupFailsKeeps, BackupStopsKeeps,
     WriteBackKeeps, PowerLossKeeps
    DEF MaintenanceNext
<1>3. CASE UNCHANGED vars
  BY <1>3, StutterKeeps
<1> QED BY <1>1, <1>2, <1>3 DEF Next

\* The invariant holds from the first state on.
THEOREM Inductive == Spec => []IInv
<1>1. HostInit => IInv
  BY InitInv
<1>2. IInv /\ [Next]_vars => IInv'
  BY StepKeeps
<1> QED BY <1>1, <1>2, PTL DEF Spec

-----------------------------------------------------------------------------
(* Every variable keeps its type, whichever programs run beside one another *)
(* and wherever they are killed.                                            *)
THEOREM HostTypeCorrect == Spec => []TypeOK
<1>1. IInv => TypeOK
  BY DEF IInv
<1> QED BY <1>1, Inductive, PTL

(* A host without a pending marker never has parts of two releases, whatever *)
(* install.py, pilot_update.py and upgrade_empty_pilot.py were stopped at and *)
(* whichever of install.py's unsynced entries a power loss has taken; once it *)
(* is configured it has one whole release.                                    *)
THEOREM OneReleaseWithoutMarker == Spec => []OneRelease
<1>1. IInv => OneRelease
  <2> SUFFICES ASSUME IInv PROVE OneRelease
    OBVIOUS
  <2> USE DEF IInv, ReleaseInv
  <2>1. Fencing(installed.current) => fence = "lock"
    BY DEF Fencing
  <2>2. ASSUME markers = {}, credential # None PROVE installed = Whole(installed.current)
    <3>1. CASE \A p \in Parts : installed[p] \in {None, "package"}
      BY <2>2, <3>1 DEF TypeOK, Whole, UnitsOf
    <3> QED BY <2>2, <3>1
  <2> QED BY <2>1, <2>2 DEF OneRelease
<1> QED BY <1>1, Inductive, PTL

(* Under the upgrade's marker nothing is at work: no worker, no helper and  *)
(* no backup (upgrade_empty_pilot.py takes every lock before it marks).     *)
THEOREM MarkerStopsTheHost == Spec => []PendingStopsTheHost
<1>1. IInv => PendingStopsTheHost
  BY DEF IInv, MarkerInv, PendingStopsTheHost
<1> QED BY <1>1, Inductive, PTL

(* A published backup is the state of one instant and has no open intent    *)
(* (backup.py stops the scanner and shuts the worker out while it copies).  *)
THEOREM BackupsAreCoherent == Spec => []BackupIsCoherent
<1>1. IInv => BackupIsCoherent
  BY DEF IInv, CaptureInv, BackupIsCoherent
<1> QED BY <1>1, Inductive, PTL

(* A run that reaches the mailbox has not lost its scanner to a backup.     *)
THEOREM RunsHaveTheirScanner == Spec => []RunsKeepTheirScanner
<1>1. IInv => RunsKeepTheirScanner
  BY DEF IInv, ControllerInv, RunsKeepTheirScanner
<1> QED BY <1>1, Inductive, PTL

(* A successful `up` leaves the controller file of the password it read,    *)
(* and a changed file in a newly started scanner (maintenance.py).          *)
THEOREM ControllerFollowsThePassword == Spec => []ControllerMatches
<1>1. IInv => ControllerMatches
  BY DEF IInv, ControllerInv, ControllerMatches
<1> QED BY <1>1, Inductive, PTL
=============================================================================
