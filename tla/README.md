# O2 Mail Guardian: a TLA+ development

O2 Mail Guardian is a worker that looks after one IMAP mailbox.  It learns from
messages the owner puts into two training folders, moves spam out of the Inbox,
rescues wanted mail from the Spam folder, keeps an encrypted copy of what it
moves, and keeps a journal of what it did in SQLite.  It shares the mailbox with
its owner, with delivery and with other mail programs, and talks to a server
whose replies may come late, never, or without the confirmation it asked for.

This directory holds a model of that worker, the configurations that check it
with TLC, and theorems about it whose proofs TLAPS checks.  All paths below are
relative to `src/`.

## 1. Inventory

### 1.1 The mail-processing core (modelled first)

| Component | State | Operations | Correct when |
|---|---|---|---|
| Engine: `internal/engine/engine.go`, `policy.go`, `mime.go` | the stage and the list of UIDs of the run under way; nothing survives it | `Run` = `reconcilePending`, `processTraining` (twice), `processFolder` (twice), with `archiveAndMove`, `movePending`, `finishReconciliation`, `recordMetadataError`; `Purge`, `Restore`, `CleanupExpiredArchives`, `Repair` | the archive precedes every move; only the owner's corrections are learned; corrections outrank verdicts and are completed; a move of unknown outcome is found again |
| Journal: `internal/store/store.go` | tables `messages`, `runs`, `events`, `settings`, `reconcile_progress`; unique index on (account, folder, uidvalidity, uid) | `UpsertMessage`, `MarkFeedbackIntent`, `MarkLearned`, `FinalizeMove`, `UpdateLocation`, `SupersedeOtherCopies`, `MarkRestorePending`, `FinalizeRestore`, `MarkPurged`, `ArchiveCleanupCandidates`, `ClearArchivePath`; readers `LatestFeedback`, `HasLearnedFeedback`, `HasHamFeedback`, `PendingMessages`, `LocationProcessedSince`, `TrainingLocationProcessed`, `PurgeCandidates` | a row that names a location names the message it was written for; a recorded wish of the owner is not lost |
| IMAP client: `internal/imapmail/client.go` | the connection, the selected folder and its UIDVALIDITY | `SearchSince`, `Fetch`, `MoveUID`, `SearchExactSize`, `AppendUnread`, `DeleteUID` | a MOVE is reported confirmed only with the UID of the very copy |
| Archive: `internal/archive/archive.go` | files `YYYY/MM/<hash>.eml.age` | `Save`, `Verify`, `Read`, `Delete` | what was saved can be decrypted to the same bytes |
| Rspamd client: `internal/rspamd/client.go` | none; the Bayes model lives in Redis | `Check`, `ClassifyDelivery`, `ClassifyPermanent`, `Learn`, `Stats` | a verdict without the required symbols decides nothing |

They meet in the engine only: it calls the others one after the other, in one
goroutine, with a deadline per call and one for the run.  What makes it hard is
that none of the calls share a transaction.  Between the journal row, the
archive, the learning and the move the process may die or the session may be
lost; the move itself may be executed after it timed out; the owner moves,
copies and deletes the same messages all the while; and the journal reuses the
row of a location, so its ids are not an order in time.

### 1.2 Keeping and giving back

| Component | State | Operations | Correct when |
|---|---|---|---|
| Purge (`Engine.Purge`, 1160-1294) | rows `quarantined`, the quarantine folder | select candidates by age, ask the ham veto and the ham-training folder, check the archive, reclassify, `DeleteUID`, `MarkPurged` | nothing the owner vouched for is deleted; what is deleted can be restored until its retention ends |
| Restore (`Engine.Restore`, 1342-1452, `reconcilePendingRestores` 491-506) | rows `pending_restore` / `restored` | decrypt, `MarkRestorePending`, `AppendUnread`, `FinalizeRestore` | one request gives one copy back |
| Archive retention (`CleanupExpiredArchives`, 1472-1494) | `archive_path`, `archive_until` | list candidates, delete the file, clear the path | no file is deleted that a live row still needs |

### 1.3 Operating the worker

| Component | State | Operations | Correct when |
|---|---|---|---|
| Commands and runtime (`cmd/guardian/main.go`, `api.go`, `presentation.go`) | the configuration file, `protect_since`, `active_since` and other settings | `run`, `mode`, `purge`, `restore`, `repair`, `export`, `status`, JSON protocol for the app | Inbox is moved from only in active mode, purge only behind all its gates |
| Model continuity (`checkpoint.go`, `ensureBayesContinuity`, `compareBayesHighWater`, `secureRunModel`) | high-water revisions, `model_checkpoint_required`, `bayes_rollback_at` | prepare, run, finish; on the Mac check, run, back up | a model that went back is noticed before the next decision |
| Policy adoption, qualification (`server_policy.go`, `qualify.go`, `internal/qualification/report.go`, `internal/store/{configuration,deployment,qualification}.go`) | digests bound in `settings` | bind, reauthorize, adopt, qualify | a changed configuration or model loses its authorisation |
| Locks (`internal/runlock`, `migration_fence.go`) | `flock` on the instance lock and on `migration.lock` | acquire, close; shared for commands, exclusive for the administrator | two workers never overlap; no command runs during a migration |
| Service and heartbeat (`internal/service`, `service_health.go`) | heartbeat file, launchd/systemd units | install, uninstall, status | - |
| Stack (`internal/stack`) | containers, RDB backups | `BackupRedis`, `ExportRedisFresh`, `CheckPersistence`, maintenance units | the published backup is a complete RDB with the revisions it is named by |
| Secrets, configuration, platform (`internal/secrets`, `keychain`, `config`, `provider`, `platform`, `apperror`) | files, the keychain | load, validate | - |

### 1.4 Moving, recovering and updating an installation

| Component | State | Operations | Correct when |
|---|---|---|---|
| Migration (`internal/migration`, `tools/migration`) | snapshot of the journal, relocated archives, `migration-pending` marker | snapshot, prepare, inspect, relocate, revoke authorisation, publish, import | one host owns the mailbox; the target continues from a consistent snapshot and starts unauthorised; the Mac can be put back |
| Recovery bundle (`internal/recoverybundle`, `cmd/guardian-recovery`) | sealed bundle, receipts; the catalog: a lock file and one state file | seal, open, `VerifyAndAdvanceCatalog` | an older bundle is never accepted after a newer one |
| Redis model comparison (`internal/redismodel`) | none | `Compare`, RESP reader | equal only if every key is equal |
| Docker updates (`ops/.../simple-updates/docker/updater.py`, `auto-updates/docker/*`) | transaction journal, pending record, frontend lock, apt lock, timers, fence marker | plan, apply, watchdog, recover | after a crash at any step the next start either undoes or completes the update; timers and the fence come back |
| Guardian image, Ubuntu and application updates (`simple-updates/*`, `auto-updates/guardian`) | likewise | discover, back up behind the fence, switch, recover | likewise |
| Linux deployment (`deploy/linux`, `tools/migration/upgrade_empty_pilot.py`) | helper, units and `current` pointer; fence and markers; the controller's password, its generated file and fingerprint; backup generations | install, replace a release, `up` and `down`, back up, observe | an unmarked host has no mixture of releases; a backup is the state of one instant; a controller file that is used again carries the password; a stopped scanner comes back |
| Off-host tools (`tools/{backup,remote-control,provisioning}`), `scripts`, macOS app (`macos/Sources`) | downloaded backups | fetch, forward, build; the app drives the JSON protocol | - |

`PROJECT.json` lists every one of these as a component with its status.

How they meet: the worker of 1.1 to 1.3 is one process at a time (instance lock).
Everything in 1.4 meets it, and each other, through four things only: the migration
fence (`migration.lock`, shared by the worker and the helper, exclusive for whoever
changes the installation), the marker `migration-pending` beside it, the systemd
timers and units (launchd on the Mac), and the files and containers they replace.
The hard part there is not concurrency, which locks exclude, but time: every program
may be killed between two system calls, the power may fail before a directory is
synchronised, and a later start of the same or another program has to find out from a
journal what to finish or take back.

## 2. Plan and modules

| | Modules | State |
|---|---|---|
| 1 | **The run**: `GuardianRun`, its promise `MailCustody`, `GuardianProperties`, `GuardianRun_proofs` | checked, proved (3, 11) |
| 2 | **Retention**: `Retention`, `RetentionProperties`, `Retention_proofs` | checked, proved (4, 11) |
| 3 | **Authorisation and model continuity**: `Authorization`, `AuthorizationProperties`, `Authorization_proofs` | checked, proved (5, 11) |
| 4 | **Recovery catalog**: `RecoveryCatalog`, its promise `ReceiptFloor`, `CatalogProperties`, `Catalog_proofs` | checked, proved (6, 11) |
| 5 | **Docker transaction**: `DockerTransaction`, `DockerTransactionProperties`, `DockerTransaction_proofs` | checked, proved (7, 11) |
| 6 | **The four updaters on one host**: `UpdateHost`, extended by `PackageUpdates` and `ReleaseUpdates`, composed in `MaintenanceUpdates`; `MaintenanceProperties`, `Maintenance_proofs` | checked, proved (8, 11) |
| 7 | **Handover from the Mac to the server**: `MacCapture`, `ServerImport`, composed in `Handover`; `HandoverProperties`, `Handover_proofs` | checked, proved (9, 11) |
| 8 | **The Linux host**: `LinuxHost`, extended by `ReleaseReplacement` and `HostMaintenance`, composed in `LinuxHostProperties`; `LinuxHost_proofs` | checked, proved (10, 11) |

The order is that of the damage a mistake would do: mail first, then what lets
Guardian act on mail, then the tools around it.  Left: the pure decisions (`ClassifyDelivery`, MIME acceptance, the
qualification metrics) as operators.

The modules `MC...` give constants to a run where a `.cfg` cannot; 6 to 8 need none,
so their runs name the property module.  An operator whose comment begins with
`Mutant:` or `Slip:` is a plausible mistake in the definition below it; it is used
only to see that the property it belongs to fails with it.

## 3. The run: `GuardianRun`

One process with the program counter `pc`, because `acquireRunLock` admits one
worker and `Engine.Run` has no goroutines of its own.  A step ends where the
code calls something that can fail or that others can observe: a server command,
a journal transaction, an archive write, a call to Rspamd.  Between two steps
the owner, delivery and the server may do anything that is enabled.

| In the model | In the code |
|---|---|
| `live`, `home`, `body`, `nextUid` | the mailbox; (UIDVALIDITY, UID) is one number never issued twice |
| `inflight` | `UID MOVE` commands sent and neither answered nor given up by the server |
| `row`, `nextRow` | table `messages`; `Upsert`, `MarkIntent`, `MarkLearned`, `UpdateLocation`, `SupersedeOtherCopies`, `FinalizeMove` are the functions of the store of the same names |
| `archive`, `bayes`, `mode` | files of the archive by content, what Rspamd learned last of each content, `Safety.Mode` |
| `stage`, `todo`, `handled`, `auto` | which folder is worked through, its UID list, the counter against `MaxMessagesPerFolder`, the answer of `requireActivationQuality` |
| `job`, `pc` | the item in hand and the next call of `archiveLearnAndMove`, `archiveAndMove`, `movePending` or `finishReconciliation` |

Reconciliation is `ReconcileSkips`, `ScanSource`, `ScanDecides`, `SettleSource`,
`SettleDestination` (`reconcilePending` and `finishReconciliation`); the folders
are `Passes`, `FetchFails`, `TrainingBlocked`, `TrainingTakes`, `FolderMoves`,
`FolderKeeps`; the item in hand goes through `SaveArchive`, `UpsertPending`,
`MarkIntent`, `RspamdLearns`/`LearnFails`, `MarkLearned`/`FinishUnlearned`,
`SupersedeOtherCopies`, `SendMove`, a server action, `ResolveFinds`/`ResolveFindsNone`
and `FinalizeMove`.  `RunCutShort` is process death, a lost session and an expired
deadline alike: the context of the run is cancelled and not even the journal is
written afterwards.  A command in flight outlives it.

Choices of data: a raw message is a member of `Contents` and stands for its hash,
size and Message-ID; a scan returns any verdict the owner's opinion allows
(`Verdicts`), so nothing depends on scores.  A UID moved within its folder stands
for a renumbered folder.

Flags that turn a behaviour of the environment on or off, so that a property can be
checked where the code keeps it and its limit shown where it does not (section 12):
`Duplicates` (the owner copies mail, mail is redelivered), `BodyGlitch` (a training
fetch succeeds without a usable body, `recordMetadataError`).

`MailCustody` is the promise seen from outside: a message is moved, never copied,
changed or deleted; never before its encrypted copy exists; never out of a folder
along a way that folder does not permit.  `GuardianRun` implements it with the
identity on the mailbox variables: a step that carries out a MOVE is `Relocate`,
an archive write is `Save`, the owner and delivery are `Owner`, and everything
else is a stutter.

## 4. Retention

`Retention` takes a run as one step (`RunMoves`, `RunCorrects`, `RunFailsToLearn`)
and models `Engine.Purge`, `Engine.Restore` with `reconcilePendingRestores`,
`Client.DeleteUID`, `Client.AppendUnread` and `CleanupExpiredArchives` step by
step.  All of them hold the instance lock, so one program counter is enough.
The clock counts days; a row carries `since` (`quarantined_at`), `until`
(`archive_until`) and `path`; a path is a content and the month it was written in,
as `Archive.Save` names it, so copies of one message share a file or do not,
depending on the day.  `doomed` is the `\Deleted` flag between STORE and EXPUNGE,
which any other mail program may act upon.  `expunged` and `origin` are history:
which copies Guardian deleted and until when they are owed, and which row a
restored copy was made for.

`LateReplies` lets the server carry out EXPUNGE and APPEND after the caller gave
up; `DiskLoses` lets archive files vanish between commands; `Redelivery` lets one
content arrive twice.  The gates in front of `Purge` (mode, age of active mode,
training totals) are those of section 5 and are free here.

## 5. Authorisation

`Authorization` models who lets Guardian decide on its own: the configuration file
(`file`), the settings table (`db`: `protect_since`, `active_since`,
`first_dry_run_completed_at`, the bound layout, the qualification report, the high-water mark of
the model, `bayes_rollback_at`, the checkpoint marker), the Bayes model (`rev`, its
newest backup `saved`) and the instance lock.  A command of the owner reads the
file *before* it asks for the lock (`Load`, then `Lock`), a run reads it under the
lock (`Start`); every write to the file or to a setting is a step of its own, and a
process may die before any of them.

| Actions | Code |
|---|---|
| `Load`, `Lock`, `Start`, `Bind`, `Preview` | `main`, `openRuntime`, `Engine.prepareStore`, the dry run |
| `ReadStats`, `StatsFail`, `Continuous`, `Downgrade`, `RestartObservation`, `ForgetActivation`, `NoteRollback` | `ensureBayesContinuity` |
| `RequireCheckpoint`, `Checkpoint`, `RecordHighWater`, `ReleaseMarker` | `prepareLinuxMutation`, `finishLinuxMutation` |
| `Authorize`, `Learn`, `MarkLearned`, `Decide`, `Refuse`, `EngineFails`, `BackUp`, `CleanUp`, `PurgeByHand`, `Purged` | `Engine.Run` and `Engine.Purge` behind their gates |
| `SaveProtect` ... `SetPurge` | `mode protect`, `mode active`, `purge enable`, `purge disable` |
| `SaveQualification`, `SaveThreshold` | `installQualification` |
| `BindPrevious` ... `RollBackSetup` | `setup` of an existing account |

`watch`, `gone` and `rehearsed` are history: since when commands have found the
mode they find and how long the other lasted, what a restored model has lost, the
layout of the last successful dry run.  The properties compare the gates with
these, never with the clocks in `db` that the gates read.  The two revisions of the
model (spam, ham) are one number, as every check treats them alike.

`CutShort` says whether a command may end between the writes of a return to
protect mode.  It is `FALSE` in the runs; section 12 says what happens otherwise.  A
process may die at every other step.  On Linux the file is the administrator's, so
there are no commands of the owner and `Downgrade` ends the command without a write.

## 6. The recovery catalog

`RecoveryCatalog` models a directory with `catalog.lock`, `catalog.json` and the two
files of a publication under way, as seen by processes (`seen`) and as a power
failure would leave it (`disk`).  A changed entry may reach the disk at any time
(`Writeback`), one by one and in any order; `fsync` of the directory brings all of
them.  The content of a file is on disk when `writeCatalogFD` returns, because it
syncs the file.  `holder` is `flock`, which the kernel releases when the process
ends.  `Abandon` is an error or a death before any system call: `commitCatalog` tidies
nothing up, and `lockedCatalog` then refuses the directory (`Usable`) until an operator
has looked at it.

| Actions | Code |
|---|---|
| `FindEmpty`, `CreateLock`, `WriteLock`, `SyncLock` | `InitializeCatalog` |
| `Open`, `Load` | `lockedCatalog`; `Valid` and `Usable` are its tests |
| `AnswerWatermark` | `CatalogWatermark` |
| `Refuse`, `AcceptAgain`, `Advance` | `VerifyAndAdvanceCatalog` with `VerifyReceipt` (`Acceptable`) |
| `CreatePending` ... `SyncUnlink` | `commitCatalog`, one system call or sync each |

`told` is history: the floors that callers were given.  A receipt is its sequence
number and digest; signature, source, recipient and freshness are left to `Refuse`,
which may turn down anything.  `ReceiptFloor` is the promise: one floor that only
rises, and whoever is answered is told the floor of that moment; the refinement maps
the floor to the record on disk, not to the one in memory.

## 7. The Docker transaction

`DockerTransaction` models the automatic Docker update of
`ops/vps-maintenance/security-maintenance/auto-updates/docker`: the engine with its
write-ahead journal, the reconciliation of a transaction that stopped before dpkg,
and the watchdog that reports on both.  Every file exists twice: `seen` is what a
program reads, `disk` what has been synchronised; a power failure keeps either of the
two, file by file (`Survivors`).  `seen.place[t]` is the directory of transaction `t`
(preflight, active, retired), `jr` its journal record with phase and generation, `art`
its package files; `marker` is `migration-pending`, `alias` the private name it is
linked from.  `pc`, `rpc` and `wpc` are the three programs, `unit` what systemd says of
the updater, `touched` is history: the transactions whose dpkg has started.

| Actions | Code |
|---|---|
| `EngineStart` ... `EnginePreflight` | `main`, `apply`, `assert_noop_safe`, `cleanup_terminal_transactions`, `_purge_retired_transaction`, `cleanup_preflight` |
| `EngineStage`, `EngineFence`, `EnginePublish`, `EnginePublishSync` | `save_packages`, the locks and the second look, `initialize_journal`, the rename into the name space |
| `EngineAdvances`, `RecoveryAdvances` | `advance`: `AdvanceDone` or, with a `DurabilityError`, `AdvanceUnsure` |
| `EngineLink` ... `EngineClearFails` | `create_marker`, dpkg, `clear_own_marker` |
| `RecoveryStart` ... `RecoveryKilled` | `recover_once`, `authorize`, `_recover_under_locks` |
| `WatchUnit` ... `WatchEvaluates` | `check_once`, `evaluate` |

What is synchronised when: `acquire_updater_lock` synchronises the directory of the
journals, so names are durable from then on (`NamesSynced`); the two places that remove
the marker synchronise it before the journal goes on.  Damaged files, owners and modes
are left out: the model has only files these programs wrote.

## 8. The four updaters on one host

`simple-updates` has four daily updaters: Docker packages, Ubuntu packages, Guardian's
container images, and the application.  They share one lock, the migration fence, the
marker, two timers and the worker, and each keeps a journal of its own that its
recovery reads at boot, on failure and every day.  `UpdateHost` is what they share, with
the worker, the operator, foreign markers, kills and power failures;
`PackageUpdates` is the two package updaters (the Ubuntu one borrows the steps of the
other), `ReleaseUpdates` the two that replace a release; `MaintenanceUpdates` composes
them.  Every file they write is synchronised before their next step, so a file has one
value here; section 7 is about unfinished synchronisations.

| State | Code |
|---|---|
| `job` | the holder of `update.lock` and its next step |
| `pend`, `plan`, `bundle` | the phase in the pending journal and the versions it names |
| `marker`, `fence`, `timers`, `worker` | `migration-pending`, `migration.lock`, `mail-guardian@` and `mail-guardian-backup@`, the unit of the worker |
| `pkgs`, `stale`, `rebooted` | dpkg; whether a reboot is needed; whether there was one |
| `inst`, `stack`, `baseline` | Compose file, helper and `current` link; the containers; the approved source |
| `backed`, `unchanged` | history of passes against which backups and the worker's evidence are judged |

`Package...` actions are the functions of `docker/updater.py` and `ubuntu/updater.py`
from `execute` to `recover`; `Release...` those of `guardian_images.py` and
`application/updater.py`.  One action per journal write, system call or wait; a kill may
come before each.  `Plans` and `Built` abstract apt, the builder and the qualification
to the version they yield.

## 9. The handover

`MacCapture` models `capture_mac.py` (inspect, disable, close, boot out, stop, snapshot,
export, publish, the undoing in `finally`, `resume_mac`) with launchd, the scanner and a
pass that is at work; `ServerImport` models `import_redis.py`, `publish_state.py` and
`server adopt-policy`; `Handover` adds the operator, who takes only what the tools'
results let him take: a stage that is complete and says the Mac is paused, a marker
removed after a report of success, a Mac resumed while the server is fenced.  Versions
stand for contents: `mac.db` and `mac.model` grow with every pass, and the scanner may
write to the model at any time it runs.  `Careful` excludes a second fault while a
capture undoes itself after a first one (section 12, on what happens then).

## 10. The Linux host

`LinuxHost` is the installed host: release files (`installed`), fence, markers, the
controller's credential, generated file and fingerprint, the scanner, and the data of
the application.  `ReleaseReplacement` has the three programs that put a release there
(`install.py`, `pilot_update.py`, `upgrade_empty_pilot.py`), each by one rename after the
other.  `disk` is what is sure to survive a power failure: the two pilot programs synchronise
the directory after every rename (`Synced`), `install.py` synchronises none (`Renamed`,
`install.py:58-72`, and the pointer at 320), so that a `PowerLoss` before the kernel's
`WriteBack` takes back any of its helper, two units and `current`, in any order.  A password
is assumed to be provisioned by hand only where no part is missing and the kernel has
written back what an installer left.  Not modelled are the release tree, `sudoers` and
`tmpfiles.d`, which `install.py` does not synchronise either, the fault between the
link of the fence and its sync, and a marker whose unlinking a power failure takes back (it
only asks for an inspection that is not needed).  `HostMaintenance` has the administrator's `Provision`, the helper's `up` and `down`
(`maintenance.py`), the worker and the daily backup (`backup.py`).  All locks are
`flock` taken without waiting, so they are predicates on where the programs stand
(`ProvisionHeld`, `FenceShared`, `FenceExclusive`, `HelperHeld`).  `generation` is history:
the copies in the last published backup beside the data at the instant it claims.

## 11. What is checked and what is proved

### 11.1 Runs

| Run | Question | Bounds |
|---|---|---|
| `many_copies` | Where messages exist in several copies and fetches may come without a body: a row never names the copy of another message (the UID search after a MOVE without COPYUID meets a stranger); only what was asked is learned; a correction is passed over only for another one of the same message; no ham wish is forgotten | 2 contents, one malformed, 5 UIDs, 4 rows, 1 failure, 3 external actions, protect mode |
| `three_moves` | Interrupted moves are found again, a correction skipped as known is misled by older rows only, `MailCustody` is implemented, with mode switches | 1 message, 3 external actions, 1 failure, no copies |
| `progress` | Corrections complete | bodies that may be missing, 1 failure, 2 external actions, 7 UIDs, 5 rows |
| `retention_kept` | An encrypted copy still owed is never deleted | 4 days over months of 2, late server, 3 rows, 2 failures |
| `prompt_server` | One copy per restore; veto and backup before deletion; restores complete; expired files go | 3 days, disk losses, 2 failures, no late commands |
| `authority` | No gate opens early or for an unrehearsed layout | 2 layouts, every command, 2 days, 1 failure, 1 restored model |
| `server` | Marker and known losses on the server | 3 revisions, 2 failures, 1 restored model |
| `catalog` | Answers stand and come in order; the catalog implements `ReceiptFloor` | 2 processes, 2 digests, sequence numbers to 2, any number of crashes and power failures |
| `docker_update` | An unfinished package change stays fenced over any restart; a marker has its journal; rollback packages stay; "idle" is true | 2 transactions, 1 kept (3 in the code), 2 failures, 1 operation of another package tool |
| `maintenance` | One journal; passes see one installation; changes are backed up; timers come back; every update settles | 1 new version of each kind, 2 failures, 1 manual pass, 1 foreign marker |
| `handover` | One owner of the mailbox; the server continues the Mac; the Mac can be put back | 2 stages, 1 pass, 1 change of the model, 1 fault |
| `linux_host` | No mixture of releases; coherent backups; a controller file that is used again carries the password read; a stopped scanner comes back | 2 passwords, 1 change of the data, 2 faults |

The bounds are the smallest at which the hazards of `PROJECT.json` occur: two copies
of one content make all rows-by-content questions possible; one failure makes a crash
and two a crash during the recovery from one; three external actions let the owner
correct, undo the correction and repeat it; `MaxPerFolder = 1` makes the limit bind in
every folder; two transactions with one kept make an older one be retired beside a
newer one.  Days of a period are one or two, because gates only compare.  Every
property has a mutant: a plausible mistake in a mapped definition under which the same
run fails, so the bounds are large enough for the mistake to show.  Deadlock is checked
but where `CHECK_DEADLOCK FALSE` says otherwise: in the runs whose clock and budgets
run out (`authority`, `server`, retention), where every updater is done or waits for an
administrator (`maintenance`), after the server has taken over (`handover`) and on a
host where a replacement stopped for good (`linux_host`).

The other configurations are demonstrations: TLC gives a counterexample for
each (section 12).

### 11.2 Fairness

- `progress`: weak fairness of the engine's own steps taken together (a loop without
  waiting, started again by launchd or systemd) and of the server's answer to the
  command that is waited for, a refusal included, because every wait has a deadline
  (`commandTimeout`).  None for the owner, for failures or for late commands.
- `prompt_server`: the same for the steps of a command, and strong fairness of starting
  a pending restore and the clean-up, which every run does under the lock; weak
  fairness would not do, since other commands hold the lock again and again.
- `maintenance`: weak fairness of a job that is under way, of starting the owner of a
  journal (the daily timer, `OnFailure=` and the unit at boot all start it), of the reboot
  that was asked for and of the end of a pass (its unit has a time-out).  Strong
  fairness where a job looks every two seconds for the end of a pass, or tests the
  fence without waiting: some day no pass is in its way.
- `linux_host`: weak fairness of programs that were started; strong fairness of the
  worker's start, since a timer fires every fifteen minutes and a backup holds the locks
  for a few.

### 11.3 Theorems

In `GuardianRun_proofs`, from `RunAssumption` only (`Absent` is no content,
`Malformed` is a set of contents, `Modes` is not empty, bounds are numbers), for any
number of messages, copies, rows, failures and actions of the owner, with
`Duplicates` and `BodyGlitch` on or off.

- `TypeCorrect`, `RowsAreTrue`, `ArchiveFirst`: the invariants `TypeOK`,
  `RowsNameTheirCopy` and `ArchivedBeforeMove`.
- `KeepsCustody`: `Spec => CustodyKept`, the refinement of `MailCustody`.
- `Inductive`: `Spec => []IInv`, on which the others rest.

None of the three invariants is inductive.  `FinalizeMove` writes a location found steps
earlier, so `RowsNameTheirCopy` needs to know what `job.new` stands for; a MOVE in
flight is executed at any later time, so `ArchivedBeforeMove` needs to know that
its copy was archived when it was sent; a retried move trusts the row.  `IInv` says
these things one by one: `MailboxInv` (what was issued has a folder and a content),
`JournalInv` (a pending row is archived and its way permitted), `CommandInv` (so is
every command in flight), `StageInv` (what the work list holds), `FreshInv` and
`RetryInv` (what the item in hand stands for at every `pc`, on the two ways into
`movePending`), `JobInv`.  The lemmas up to `AmendStep` and `UpsertStep` say what a
kind of step keeps: one that leaves the mailbox alone, one that only issues a UID,
one that amends one row; the lemmas named after actions apply them, and
`NextInv` and `CustodyStep` collect them.

A second invariant, `LabelInv`, stands on top of `IInv` and needs no condition either:

- `LearnsWhatItIsTold`: `LearnsOnlyCorrections`.
- `WrittenOffOnlyForCorrections`: `WrittenOffForACorrection`.
- `WishesStay`: the action property `HamWishKept`.

`CorrectionsNotWrittenOff` and `VetoPermanent`, which one would rather have, do not hold
(section 12): the first because `SupersedeOtherCopies` settles the rows of other copies, the
second because a fetch without a body takes the hash of a row.  The three properties say
what is left of them in those very cases, and `LabelInv` says why: a row stays about the
message it was written for, by its hash or, without one, by its location (`About`); in a
training folder it has no label but that folder's, and it is settled there only beside another
row about the same message that has one (`SettledFor`).  `LabelStep` adds what every step does
to labels: none is lost, and only `MarkLearned` records one as learned.

Two more invariants stand on top of these, each with the condition it needs.  As long as
every fetch of a training message yields its body (`~ BodyGlitch`):

- `KnownUnlessOlder`: `OnlyOlderRowsMislead`.

`KnownInv` ties the record to the model across the step between them.  A row without a
hash is not found by content, so it can say nothing about a confirmation.  With one copy of
every message besides (`~ Duplicates /\ ~ BodyGlitch`):

- `MovesAreFoundAgain`: `MovesAreJournalled`, from `CopiesKept`: `Spec => []CopyInv`.

`CopyInv` says how copies, rows and commands correspond: one live copy of a content, one
row for a copy (`OneCopy`, `OneRow`), a row that would bring every command back
(`Journalled`), no settled row for a message that waits in a training folder (`RowsOpen`),
and what is true of the item in hand (`FreshAlone`: no other row of the message names a
live copy, so `SupersedeOtherCopies` settles only what is gone; `RetrySeen`: a scan that
ended saw the copy its row names, if it lives; `GoneInv`: after the reply the old copy is
gone).  `ThreeMoves` with duplicates shows that one copy of every message is needed.

In `Catalog_proofs`, from `CatalogAssumption` only (`MaxSeq` is a number, the digest
of no payload is empty), for any number of processes, digests and sequence numbers:

- `TypeCorrect`, `AnswersAreKept`, `AnswersComeInOrder`: `TypeOK`, `AnswersStand` and
  the action property `AnswersInOrder`.
- `KeepsFloor`: `Spec => FloorKept`, the refinement of `ReceiptFloor`.

`AnswersStand` speaks of catalogs that can be used, so it survives any interruption
only because of what an interrupted publication leaves behind.  `IInv` says it:
`Exclusive` (one process in the directory), `LockInv` (the lock file is never lost
again, in memory or on disk, once there is a state or an answer), `StateInv` (one
record in each view, the disk behind memory and only while the mark is there, both
above every answer), `DraftInv` (what the holder has read or is about to publish, at
every step).  `HolderInv`, `ReadStep`, `TellStep` and `ReturnStep` are the kinds of
step; `StepEffect` says that whoever is answered is told the record of the disk and
that the disk otherwise keeps its record or takes the one in memory, from which both
the order of answers and the refinement follow.

In `Maintenance_proofs`, from `UpdateAssumption` only (bounds are numbers, the names
differ), for any number of versions, failures, manual passes and foreign markers:

- `MaintenanceTypeCorrect`, `OneJournalAtATime`, `PassesAreSafe`,
  `BuildsFollowTheInstallation`, `SchedulesReturn`: the invariants `TypeOK`,
  `OneJournal`, `PassesSeeOneInstallation`, `BuiltFromInstalled`, `SchedulingReturns`.
- `ChangesFollowBackups`: the action property `ChangesAreBackedUp`.

A pass starts where there is no fence and no marker, and nothing in that guard speaks of
packages or files.  `IInv` carries the reason from the journal to the marker: whose journal may
exist beside which job (`JournalInv`), at which steps a job holds the fence and has its
marker (`HoldInv`), that whatever is broken is behind a marker (`SoundInv`), whose marker
that is and when the timers are back (`TimerInv`), what the baseline is when a release
is built (`BaseInv`), and at which steps and phases the recovery point covers every
pass (`BackedInv`): a pass would break that, so none may start between the capture and
the change.

In `LinuxHost_proofs`, from `HostAssumption` only (names differ, bounds are numbers),
for any number of passwords, changes and faults:

- `HostTypeCorrect`, `OneReleaseWithoutMarker`, `MarkerStopsTheHost`,
  `BackupsAreCoherent`, `RunsHaveTheirScanner`, `ControllerFollowsThePassword`: `TypeOK`,
  `OneRelease`, `PendingStopsTheHost`, `BackupIsCoherent`, `RunsKeepTheirScanner`,
  `ControllerMatches`.

`IInv` adds to them who holds which lock (`LockInv`), what each replacement program has
done at each of its steps and what its marker then says of the files, in memory and on the
disk (`MarkerInv`, `ReleaseInv`: they differ in parts of `install.py`'s package only, and only
while nobody has configured the host), that a backup's copies so far are those of the instant it began
(`CaptureInv`, which is where the locks are needed) and what the fingerprint binds when
an `up` is interrupted between its writes (`ControllerInv`).

In `DockerTransaction_proofs`, from `TxnsAssumption` and `NamesAssumption` only
(`RollbackStaysPossible` from `KeepAssumption` besides), for any number of transactions,
releases and faults:

- `ChangesAreFenced`, `MarkersAreExplained`: the invariants `UnfinishedChangeIsFenced`
  and `MarkerHasItsJournal`.
- `IdleMeansIdle`: the action property `IdleIsTrue`.
- `RollbackStaysPossible`: `RollbackKept`, with the artifacts of any number `Keep` of
  updates kept.

Both invariants quantify over what a power failure would leave, so `IInv` speaks of
`seen` and `disk` alike: `LockInv` (who holds which lock at which step), `EngineInv`
(where the engine's transaction is, in memory and on disk, at each step),
`MutationInv` (a journal at `mutation_pending` in either view is fenced in both, and
only the engine works on it), `TouchedInv` (what dpkg has touched keeps its journal
until it is verified), `MarkerInv` (a marker in either view has a directory and a
marked phase in both), `RecoveryInv` (what an authorised recovery works on) and
`WatchInv` (what the watchdog has read is still true while no update began or failed,
which is why `check_once` may read three things one after the other).  The kinds of
step are those that only touch the marker (`OnlyMarkers`), that only rewrite one
journal (`Rewritten`, with `AdvanceWrites` and `AdvanceFails`), and the ends of a
program (`StopKeeps`, `RecoveryStopKeeps`); `SurvivorsAre` says that a power failure
leaves, place by place, one of the two views.

`RollbackKept` counts what is left in each of those mixtures, all different.  `RollbackInv`
avoids counting in them: a transaction is `Solid` when dpkg touched it, it is active in
both views and has its artifacts, so it is there whatever is taken back; and whatever
either view shows as completed and taken away (`Lost`) has at least `Keep` newer solid
ones.  Solid transactions cease to be so only when `cleanup_terminal_transactions` retires
one, and that one is not among the `Keep` newest completed, whose directories the updater
lock has made durable and whose journals say that dpkg ran: they stand in for it, for
itself and for everything older (`EngineRetireSpares`).  TLC found `RollbackInv` to hold on
the instance of `DockerUpdate` before it was proved.

In `Retention_proofs`, from `RetentionAssumption` only (the periods are numbers, a copy is
kept at least as long as its message stays in quarantine), for any number of messages,
rows, days, failures and actions of the owner:

- `RetentionTypeCorrect`, `LocationsAreRight`: `TypeOK` and `RowsNameTheirCopy`, whatever
  the server and the disk do.
- `CopiesAreKept`, `DeletedMessagesCanBeHad`: `NeededCopiesKept` and
  `DeletedStayRecoverable`, where the disk loses no file (`~ DiskLoses`); late commands
  are allowed.
- `OneCopyComesBack`, `PurgeIsPermitted`: `OneCopyPerRestore` and the action property
  `DeletionsArePermitted`, where the server carries a command out before its deadline or
  never (`~ LateReplies`); the disk may lose files.  Section 12 says what a late command
  does to them.

A command sent by a purge or a restore that has died is carried out at any later time,
and the clean-up works off a list it made at its start.  `IInv` says what is still true
then: `FlightInv` (a command in flight still means what it meant when it was sent),
`CleanInv` (what the clean-up holds has expired, also between a file and its rows),
`JobInv` (the row in hand at every step), `PathInv` and `ReturnInv` (what a path, and a row
that waits for its copy, may be), `OwedInv` (a row answers for each message deleted for
good), `OriginInv` (where a restored copy comes from) and, for a server in time,
`PromptInv` (nothing is in flight but what is waited for).  Almost every step changes one
row and at most settles others; `LocationsHold`, `PathsHold`, `ReturnsHold`, `NeedsHold`,
`OwedHolds`, `OriginsHold` and `FlightsHold` say what such a step keeps, and the lemmas
named after the actions apply them.

In `Authorization_proofs`, from `AuthorizationAssumption` only (the periods are numbers of
days and not zero, the days of the model reach over an observation), for any number of
commands at once, layouts, days, failures and restored models:

- `AuthorizationTypeCorrect`, `RunsWereRehearsed`, `MarkerCovers`: `TypeOK`,
  `LiveRunsWereRehearsed`, `MarkerCoversLearning`.
- `HighWaterNeverFalls`: the action property `HighWaterKept`.
- `LossIsNoticed`: `KnownLossNoticed` on Linux (`Linux`), where a run refuses to decide
  without a checkpoint.
- `DeletionFollowsActivePeriod`: `PurgeNeedsActivePeriod`, for commands one at a time,
  wherever they die; or for any number beside each other, without `setup` and where none
  ends in the middle of a return to protect mode.
- `DecisionsFollowObservation`: `ObservationPrecedesActive`, for commands one at a time that
  bring a return to protect mode to its end.

The conditions of the last two are those of the code: a command saves the file it read
before it held the lock (`cmd/guardian/main.go:1238`), so a stale one can put back active
mode, or an old setup roll back to it, behind the clocks.  `IInv` has `StepInv` (which
command is at which step, and what it has read there), `LockInv` (one holder; the file a
run opened in active mode still says active), `LayoutInv` (a live run's layout is the one
bound and rehearsed), `ModelInv` (revision, high water, marker and what a restored model has
lost), `ClockInv` (the two clocks at every step between the file and the settings) and, each
under its condition, `BesideInv`, `OneInv` and `ObservedInv`, which relate the clocks to the
history of the mode.

In `Handover_proofs`, from `CaptureAssumption` (there is a stage, bounds are numbers) and
`NoneAssumption` (`None` is no stage and no volume), for any number of stages, passes,
versions, failures and reboots:

- `HandoverTypeCorrect`: `TypeOK`.
- `OneOwnerKept`, `ServerContinues`: `OneOwner` and `ServerContinuesTheMac`, where no second
  fault strikes a capture that is undoing itself (`Careful`; section 12 says what happens
  otherwise).
- `PauseCanBeUndone`, `MacComesBack`: `PauseIsRecoverable` and `MacIsPutBack`, with no such
  condition.

The operator trusts a stage long after the capture that wrote it has ended, perhaps by a
kill or a reboot, and sees only what is in it.  `TrustInv` says what such a stage is worth at
every step of every later process: the Mac is at rest, with what the stage holds, and
whatever is running is about to change neither.  It rests on `CapInv` (what each step is
for), `StageInv` (what has been written into the stage so far), `HeldInv` (the journal
stands still under `guardian.lock`, the model once the scanner is off) and `WorkInv` (what
was changed, and how far a resume has put it back).  `RecoverInv` keeps a receipt of the
usual state in some stage as long as the Mac is in another one.  On the server `ImportInv`
ties a volume to an import by its token and `PublishInv` the journal to the volume by the
stage; `Seals` says that the Mac leaves a stage alone that was taken there.

Every invariant and action property of the runs is stated by one of these theorems, for
every value of the constants or under the condition named with it.  Only
liveness (`CorrectionsComplete`, `RestoresComplete`, `ExpiredCopiesGo`, `UpdatesSettle`,
`ScannerReturns`) is model-checked and no more, because proofs under fairness need ENABLED,
which the prover does not reason about.  No module here uses
recursion, so nothing else is out of its reach.

## 12. Known disagreements

Each of these is a behaviour of the code that one of the properties, or a document
of the repository, excludes.  No run shows them; a configuration of the name given here
stands beside the runs where there is one, to be started with the module `MC...` that
belongs to it.

| Configuration | Property violated | What happens |
|---|---|---|
| `StaleRetry` | `MovesHonourCorrections` | `internal/engine/engine.go:462`: a quarantine left unconfirmed is made up for after the owner called the same message ham; `applyFeedbackGuard` is asked for fresh decisions only (`docs/ARCHITECTURE.md:100`) |
| `LostVeto` | `VetoPermanent` | `engine.go:1155`: a fetch without a body rewrites the hash of a row that carries the owner's ham correction; the veto against deletion is gone until the message is fetched with its body.  The wish stays in the row (`HamWishKept`, run `many_copies`) |
| `StuckArrival` | `ArrivalsAreConfirmed` | `internal/store/store.go:256`: once another row holds the destination, the unique index refuses to confirm an arrived move, in every later run; `docs/TROUBLESHOOTING.md:16` expects the next run to reconcile it |
| `WrittenOff` | `CorrectionsNotWrittenOff` | `store.go:741`: with copies of one message in both training folders, one correction settles the row of the other, which is then never carried out; only another correction of the same message can do that (`WrittenOffForACorrection`, run `many_copies`) |
| `ThreeMoves` with `Duplicates = TRUE`, `Modes <- ActiveOnly`, `MaxFaults = 2` | `MovesAreJournalled` | same line: a row whose MOVE is still in flight is settled by a correction of another copy |
| `ReusedRow` | `KnownCorrectionIsLearned` | `store.go:968`: the newest correction is taken to be in the row with the largest id, but a row is reused for a new message at its location; `store.go:978` says that the answer follows the most recent correction |
| `ThreeMoves` with `Modes <- ActiveOnly`, `MaxUid = 5`, `MaxRow = 2`, `MaxFaults = 3`, `MaxExternal = 4` | `KnownCorrectionIsLearned` | the same without copies: spam, then ham, then spam again, with two runs cut short; the first row is learned again while the second stays the newest (some 40 steps, hours of search) |
| `ProtectMoves` | `ProtectModeSparesInbox` | `engine.go:96`: a move decided in active mode is made up for in protect mode; `README.md:39` says protect mode leaves the Inbox alone |
| `RefusedRestore` | `MissingCanBeRestored` | `engine.go:1374`: a message the owner deleted from the quarantine is refused although its encrypted copy exists; `docs/SECURITY-AND-RECOVERY.md:27` sends the owner of a missing message to Recovery |
| `RetentionKept` with that property | `PurgeWaitsForCorrections` | `engine.go:1192`: the ham-training folder is looked at once, before all candidates |
| `PromptServer` with `Redelivery = TRUE` | `RestoresComplete` | `engine.go:1400`: a restored copy that another row already names cannot be recorded; the restore stays pending |
| `PromptServer` with `LateReplies = TRUE` | `OneCopyPerRestore` | `engine.go:1434`: an APPEND carried out after its time-out, beside the repeated one; `DeletionsArePermitted` falls too when a late EXPUNGE meets a file the disk lost |
| `Authority` with `CutShort = TRUE` | `ObservationPrecedesActive` | `cmd/guardian/main.go:1325`: `mode protect` that ends between the file and the clocks leaves the old observation period in force (`docs/USER-GUIDE.md:12`) |
| `Authority` with `Procs <- TwoProcesses`, `Commands <- OwnerCommands` | the same | `main.go:1238`: a command that read the file before a run returned to protect mode saves it with active mode in it (also stated as `OnlyOwnerActivates`) |
| `DockerRefuses` | `DockerUndoesItself` | `simple-updates/docker/updater.py:362`: a recovery before dpkg refuses a failed worker; `simple-updates/docker/README.md:27` names only versions, fence and health |
| `Maintenance` with `RehearsalSpec` as specification | `OneJournal` | `rehearse_current.py:21`: only the marker and the image journal are looked at; `simple-updates/README.md:30` says that every updater defers to another owner's pending transaction |

`LossNoticed` is stated without a configuration: what a restored model lost above the
recorded high water is not noticed by a revision number, nor is it when the statistics
cannot be read in protect mode and the model meanwhile learns up to the old mark.

In the updaters:

- A Docker recovery that dies between the unlink of the marker and the synchronisation
  lets the next one see no marker and settle the journal; a power failure then brings
  back a marker whose journal is final (`auto-updates/docker/engine.py:464`).
  `MarkerHasItsJournal` makes the exception explicit.
- A final record that was replaced and not synchronised is read as final
  (`transaction_journal.py:285`), the next update starts, nothing synchronises the older
  one, and a power failure leaves two unfinished journals, which the watchdog and every
  later run refuse.  `StateStaysReadable` says so and is violated.
- `publishing_marker` of the scheduled Docker updater is in neither set of phases its
  recovery takes up.  An Ubuntu recovery from the two timer phases rewrites the phase
  with unmasked timers (`ubuntu/updater.py:307`); interrupted there, later recoveries ask
  for masks (272) for ever.  The image updater that meets a foreign marker and no
  journal disables the timers, and nobody enables them again.  `Manual` and
  `SchedulingReturns` name these states.

In the handover and on the host:

- A disabling that timed out is not recorded (`capture_mac.py:273`) and not undone; a
  second interrupt in `invalidate_publication` (360) resumes the Mac while `COMPLETE` stays;
  the record of a resume comes after it, and an earlier receipt may resume the Mac while
  a later stage says it is paused (352).  `StagesTellTheTruth`, and `OneOwner` with
  `Careful = FALSE`, are stated for these and are in no run.
- `up` killed between the fingerprint and Compose leaves a scanner with the old
  password, and the next `up` finds nothing to do (`ScannerKnowsThePassword`).  An
  installer killed between the instance directory (`install.py:255`) and the fence is
  refused by later runs (152).
- `install.py` synchronises no directory (58-72, 320) and sets no marker: after a power
  failure an unmarked host may have `current` without the helper or the units, or any other
  part of the package.  `OneRelease` allows that while nobody has configured the host; a
  repeated `install.py` completes it.

## 13. What is not modelled

- Dry runs, statistics, the tables `runs` and `events`, the paging of
  `reconcile_progress` and presentation: they decide nothing.
- The rules that turn scores and symbols into verdicts, and MIME acceptance: a free
  choice in the models.
- Encryption and atomic replacement of single files: a file is there or not.
- A configuration edited by hand, the first set-up of an account, `repair` and
  `preflight`.
- UIDVALIDITY as a number: a renumbered folder is modelled as copies under new UIDs,
  so a command that refers to an old UID finds nothing.
- Tampering with the recovery catalog's directory, sealing and opening of bundles, the
  Redis comparison: one reader each, without a protocol.
- In the updaters: building and qualifying images and applications, the
  application's `--apply-qualified` and `--adopt-qualified`, package selection by apt, and
  damaged journals.
- The migration inside `internal/migration` (snapshot, relocation, inspection) is one
  step of the capture or the publication each.
- Service manager and heartbeat, off-host backup and remote control, build and release
  scripts, advisory checks: calls to the system without a protocol of their own, as
  `PROJECT.json` says for each.  The macOS application is a window over the JSON
  commands.
