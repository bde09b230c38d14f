------------------------ MODULE AuthorizationProperties ------------------------
(* What the gates of Authorization promise. *)
EXTENDS Authorization

Steps == {"idle", "loaded", "locked", "bind", "preview", "stats", "continuous", "downgrade",
          "restart", "forget", "noted", "mark", "checkpoint", "record", "release", "authorize",
          "train", "learned", "backup", "cleanup", "purge", "purged", "saved", "forgotten",
          "clocked", "qualified", "prepared", "bound", "undo"}

Process == [op : Commands \cup {"none", "run"}, at : Steps, cfg : Config \cup {NoConfig},
            new : Config \cup {NoConfig},
            late : BOOLEAN, taught : BOOLEAN, erred : BOOLEAN, old : Report \cup {NoReport}]

(* Every variable keeps its type, and the lock has a holder exactly while some
   process is past its acquireRunLock. *)
TypeOK ==
  /\ now \in Day /\ file \in Config /\ db \in Settings
  /\ trained \in 0 .. MaxRevision /\ good \subseteq Day /\ mistakes \subseteq Day
  /\ rev \in 0 .. MaxRevision /\ saved \in 0 .. MaxRevision
  /\ proc \in [Procs -> Process]
  /\ lock = {p \in Procs : proc[p].at \notin {"idle", "loaded"}}
  /\ watch \in [mode : Modes, since : Day, before : Day]
  /\ gone \in {"nothing", "unsaved", "saved"}
  /\ rehearsed \subseteq Layouts
  /\ faults \in 0 .. MaxFaults /\ restores \in 0 .. MaxRestores

(* p decides about Inbox messages on its own: it passed the gate of Engine.Run
   in active mode. *)
Decides(p) ==
  /\ proc[p].at = "train" /\ proc[p].cfg.mode = "active" /\ ActivationQuality(proc[p].cfg)

(* Automatic moves are preceded by an uninterrupted period of protect mode of
   the configured length, however often the mode, the folders and the file were
   changed (README: "observation period"). *)
ObservationPrecedesActive ==
  \A p \in Procs : Decides(p) =>
    /\ watch.mode = "active"
    /\ watch.before >= ProtectDays

(* Permanent deletion begins only after 30 days of uninterrupted active mode,
   whatever clock the settings hold (Engine.requirePurgeQuality). *)
PurgeNeedsActivePeriod ==
  \A p \in Procs : proc[p].at = "purged" =>
    /\ watch.mode = "active"
    /\ watch.since + PurgeDays <= now

(* No real run works on a folder layout whose rehearsal was not the last
   successful dry run (Store.BindConfiguration, RequireFreshDryRun). *)
LiveRunsWereRehearsed ==
  \A p \in Procs : proc[p].at \in {"train", "learned"} => proc[p].cfg.layout \in rehearsed

(* On the server a revision of the model that no backup holds is covered by the
   marker linux_model_checkpoint_required, whenever the lock is free. *)
MarkerCoversLearning ==
  Linux /\ lock = {} /\ rev > saved => db.marker

(* The recorded high water never falls. *)
HighWaterKept == [][db'.high >= db.high]_vars

(* A model that lost what the high water vouches for decides nothing in active
   mode. *)
KnownLossNoticed ==
  \A p \in Procs : Decides(p) => gone # "saved"

(* The same for any loss of what the model was taught. *)
LossNoticed ==
  \A p \in Procs : Decides(p) => gone = "nothing"

(* Once ensureBayesContinuity has put the file into protect mode, only
   "mode active" makes it active again. *)
OnlyOwnerActivates ==
  [][file.mode = "protect" /\ file'.mode = "active"
       => \E p \in Procs : At(p, "active", "clocked")]_vars
=============================================================================
