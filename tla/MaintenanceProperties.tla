------------------------- MODULE MaintenanceProperties -------------------------
(***************************************************************************)
(* What the updaters promise together: simple-updates/README.md, "Shared   *)
(* safeguards and recovery".                                               *)
(***************************************************************************)
EXTENDS MaintenanceUpdates

PackageSteps ==
  {"stop", "mask", "settle", "capture", "captured", "fence", "publish", "link", "pend", "apt",
   "unpacking", "verify", "activate", "clear", "run", "pass", "passing", "unmask", "restart",
   "settled", "resume", "refence", "intend"}
ReleaseSteps ==
  {"build", "disable", "wait", "lock", "stopping", "capture", "captured", "runtime", "helper",
   "current", "up", "unmark", "pass", "passing", "enable", "unlink", "promote"}

JobType ==
  \/ job = NoJob
  \/ job \in [who : Packages, step : PackageSteps, again : BOOLEAN]
  \/ job \in [who : Bundles, step : ReleaseSteps, again : BOOLEAN]

JournalType ==
  /\ pend \in [Updaters -> PackagePhases \cup BundlePhases \cup {"none"}]
  /\ \A u \in Packages : pend[u] \in PackagePhases \cup {"none"}
  /\ \A u \in Bundles : pend[u] \in BundlePhases \cup {"none"}
  /\ plan \in [Packages -> [old : 0..MaxVersion, new : 0..MaxVersion, rehearsal : BOOLEAN]]
  /\ bundle \in [Bundles -> [old : Releases, new : Releases]]

MailType ==
  /\ marker \in Packages \cup {"release", None, Foreign}
  /\ timers \in [file : {"enabled", "masked", "disabled"}, ticking : BOOLEAN]
  /\ fence \in {None, "worker", "update"} /\ worker \in {"idle", "running", "failed"}
  /\ backed \in BOOLEAN /\ unchanged \in BOOLEAN

SystemType ==
  /\ pkgs \in [Packages -> [ver : 0..MaxVersion, whole : BOOLEAN]]
  /\ rebooted \in BOOLEAN /\ stale \in BOOLEAN
  /\ inst \in [runtime : Releases, helper : Releases, current : Releases]
  /\ stack \in [up : BOOLEAN, release : Releases] /\ baseline \in 0..MaxVersion
  /\ spent \in [faults : 0..MaxFaults, manual : 0..MaxManual, foreign : 0..MaxForeign]

\* Every variable keeps its type.
TypeOK == JobType /\ JournalType /\ MailType /\ SystemType

Pending == {u \in Updaters : pend[u] # "none"}

\* "Defer to another owner's pending transaction": two journals would block
\* each other for ever, since each owner refuses while the other's exists.
OneJournal == Cardinality(Pending) <= 1

\* A mailbox pass never meets a half-made change: whatever was killed or
\* rebooted before it, the packages are whole, the three files and the
\* containers belong to one release, and nobody publishes a marker beside it.
PassesSeeOneInstallation ==
  worker = "running" =>
    /\ marker = None
    /\ \A u \in Packages : pkgs[u].whole
    /\ Consistent /\ stack = [up |-> TRUE, release |-> inst.current]

\* "Before service impact they preserve a coherent current recovery point":
\* packages and releases change only while a backup covers every pass so far.
ChangesAreBackedUp ==
  [][pkgs' # pkgs \/ inst' # inst => backed]_vars

\* "Recovery goes forward": no update and no recovery takes back what
\* another has installed, however they are interrupted.
NothingIsUndone ==
  [][/\ \A u \in Packages : pkgs'[u].ver >= pkgs[u].ver
     /\ inst'.current.image >= inst.current.image
     /\ inst'.current.application >= inst.current.application]_vars

\* The next application release is always built from the source of the one
\* installed, also when the promotion of the baseline was interrupted.
BuiltFromInstalled ==
  pend["application"] # "none" =>
    bundle["application"].new.application = bundle["application"].old.application + 1

\* Nobody forgets the mailbox: without a journal left over, both timers run,
\* unless the image updater ever met another program's marker.
SchedulingReturns ==
  job.who = None /\ Pending = {} => timers = On \/ spent.foreign > 0

\* What a recovery leaves to the administrator: an installation announced and
\* not completed, another program's marker, and three states the guides do not name (see
\* the README): Docker's publication of the marker, Docker's journal before
\* dpkg beside a failed worker, Ubuntu's recovery interrupted without masks.
Manual(u) ==
  \/ marker = Foreign
  \/ u \in Packages /\ pend[u] \in After[u] /\ ~Complete(u)
  \/ u = "docker" /\ pend[u] = "publishing_marker"
  \/ u = "docker" /\ pend[u] \in Before[u] /\ worker = "failed"
  \/ u = "ubuntu" /\ pend[u] \in {"unfence_intent", "guardian_run"} /\ ~Masked

\* "OnFailure, boot recovery and later daily runs handle pending work."
UpdatesSettle ==
  (Pending # {}) ~> (Pending = {} \/ \E u \in Pending : Manual(u))

\* The same for a Docker update that was interrupted before dpkg, with only
\* the conditions docker/README.md names: old versions, fence, health.
DockerUndoesItself ==
  (pend["docker"] \in Before["docker"]) ~>
     (pend["docker"] \notin Before["docker"] \/ marker # None)
=============================================================================
