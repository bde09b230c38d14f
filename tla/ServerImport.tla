----------------------------- MODULE ServerImport -----------------------------
(***************************************************************************)
(* The empty server takes over what a stage of the Mac holds:              *)
(* tools/migration/import_redis.py brings the model into the volume of the *)
(* stack, tools/migration/publish_state.py the journal, the configuration  *)
(* and the credentials into place, `server adopt-policy` binds the host.   *)
(* All three take the migration fence; the first two demand the marker     *)
(* migration-pending, the last one demands that it is gone.                *)
(*                                                                         *)
(* Every written object is synchronised before the next one, so a power    *)
(* failure ends a task where it stands.                                    *)
(***************************************************************************)
EXTENDS MacCapture

CONSTANT None

ASSUME NoneAssumption ==
  None \notin Stages /\ None \notin [token : Nat, model : Nat, aof : BOOLEAN]

VARIABLES
  marker,     \* migration-pending
  task,       \* the holder of the fence: [pc, stage, token, report]
  tokens,     \* imports so far; each has a token of its own
  volume,     \* the model volume: None, or [token, model, aof]
  attached,   \* a container of an import still uses the volume
  reports,    \* import reports: [token, model, clean]
  data,       \* the worker's directory: [is, db]
  files,      \* config.toml and the two credentials published so far
  published,  \* the stage of a successful publication report, or None
  adopted,    \* adopt-policy has bound the journal to this host
  live        \* the timer of the server is enabled

target == <<volume, attached, reports>>
place == <<data, files, published, adopted>>
serverVars == <<marker, task, tokens, target, place, live>>

Phases == {"load", "convert", "restart", "report", "prepare", "retain", "rename", "files", "verify"}
NoTask == [pc |-> "none", stage |-> None, token |-> 0, report |-> None]
Free == task = NoTask

\* quiescent and require_quiescent: no pass, no timer, no container.
Fenced == Free /\ marker /\ ~live

ServerInit ==
  /\ marker = TRUE /\ task = NoTask /\ tokens = 0
  /\ volume = None /\ attached = FALSE /\ reports = {}
  /\ data = [is |-> "empty", db |-> 0] /\ files = 0 /\ published = None /\ adopted = FALSE /\ live = FALSE

Step(pc) == task' = [task EXCEPT !.pc = pc]

-----------------------------------------------------------------------------
\* import_model: an existing volume is never overwritten.
ImportBegins(s) ==
  /\ Fenced /\ volume = None /\ Usable(s) /\ tokens < 2
  /\ task' = [pc |-> "load", stage |-> s, token |-> tokens + 1, report |-> None]
  /\ tokens' = tokens + 1
  /\ UNCHANGED <<marker, target, place, live>>

\* The dump lies in the volume, where a Redis with its normal configuration
\* would ignore it until there is an append-only file.
ImportLoads ==
  /\ task.pc = "load" /\ Step("convert")
  /\ volume' = [token |-> task.token, model |-> stage[task.stage].model, aof |-> FALSE]
  /\ attached' = TRUE
  /\ UNCHANGED <<marker, tokens, reports, place, live>>

ImportConverts ==
  /\ task.pc = "convert" /\ Step("restart")
  /\ volume' = [volume EXCEPT !.aof = TRUE]
  /\ UNCHANGED <<marker, tokens, attached, reports, place, live>>

\* What a Redis with its normal configuration reads from the volume.
Model == IF volume = None \/ ~volume.aof THEN None ELSE volume.model

\* The third comparison, after a restart with the normal configuration.
ImportCompares ==
  /\ task.pc = "restart" /\ Model = stage[task.stage].model /\ Step("report")
  /\ UNCHANGED <<marker, tokens, target, place, live>>

\* The clean-up, and the report a publication asks for.
ImportReports ==
  /\ task.pc = "report" /\ task' = NoTask
  /\ \E clean \in BOOLEAN :
       /\ IF clean THEN UNCHANGED spent ELSE Fault
       /\ attached' = ~clean
       /\ reports' = reports \cup {[token |-> task.token, model |-> stage[task.stage].model,
                                    clean |-> clean]}
  /\ UNCHANGED <<marker, tokens, volume, place, live>>

\* By hand: the remains of an import are removed, to try another one.
VolumeRemoved ==
  /\ Fenced /\ volume # None /\ published = None
  /\ volume' = None /\ attached' = FALSE
  /\ UNCHANGED <<marker, task, tokens, reports, place, live>>

-----------------------------------------------------------------------------
\* Mutant: the volume's token is not compared with the report's.
VerifyReport(r, s) == r.clean /\ r.model = stage[s].model /\ volume # None /\ ~attached

\* verify_model: the report is complete, names this model, and the volume
\* carries its token and is used by nobody.
VerifyModel(r, s) ==
  /\ r.clean /\ r.model = stage[s].model
  /\ volume # None /\ volume.token = r.token /\ ~attached

\* empty_target: nothing may have been published before.
EmptyTarget == data.is = "empty" /\ files = 0

PublishBegins(s, r) ==
  /\ Fenced /\ Usable(s) /\ published = None
  /\ EmptyTarget /\ VerifyModel(r, s)
  /\ task' = [pc |-> "prepare", stage |-> s, token |-> 0, report |-> r]
  /\ UNCHANGED <<marker, tokens, target, place, live>>

\* publish: the new directory is prepared beside the old one, the old one is
\* set aside, the new one takes its place, then the files one by one.
Prepare ==
  /\ task.pc = "prepare" /\ EmptyTarget /\ Step("retain")
  /\ UNCHANGED <<marker, tokens, target, place, live>>

Retain ==
  /\ task.pc = "retain" /\ data' = [data EXCEPT !.is = "away"] /\ Step("rename")
  /\ UNCHANGED <<marker, tokens, target, files, published, adopted, live>>

Rename ==
  /\ task.pc = "rename" /\ data' = [is |-> "full", db |-> stage[task.stage].db] /\ Step("files")
  /\ UNCHANGED <<marker, tokens, target, files, published, adopted, live>>

PublishFile ==
  /\ task.pc = "files" /\ files' = files + 1
  /\ Step(IF files = 2 THEN "verify" ELSE "files")
  /\ UNCHANGED <<marker, tokens, target, data, published, adopted, live>>

PublishReports ==
  /\ task.pc = "verify" /\ marker /\ task' = NoTask /\ published' = task.stage
  /\ UNCHANGED <<marker, tokens, target, data, files, adopted, live>>

Import == ImportLoads \/ ImportConverts \/ ImportCompares
Publication == Prepare \/ Retain \/ Rename \/ PublishFile \/ PublishReports

\* A task fails, is killed, or the power fails.  An import that fails by
\* itself stops its containers first; nothing else is undone.
TaskEnds ==
  /\ ~Free /\ Fault /\ task' = NoTask
  /\ attached' \in {attached, FALSE}
  /\ UNCHANGED <<marker, tokens, volume, reports, place, live>>

-----------------------------------------------------------------------------
\* adoptLinuxPolicy: under the fence, once, and never beside the marker.
Adopt ==
  /\ Free /\ ~marker /\ ~live /\ ~adopted /\ data.is = "full"
  /\ adopted' = TRUE
  /\ UNCHANGED <<marker, task, tokens, target, data, files, published, live>>
=============================================================================
