-------------------------- MODULE Maintenance_proofs --------------------------
(***************************************************************************)
(* Proofs about MaintenanceUpdates.  What the updaters promise holds       *)
(* because whoever breaks something first holds the fence and publishes    *)
(* the marker; the invariants below say at which steps, and what is left   *)
(* of that when the job is killed or the host restarts there.              *)
(***************************************************************************)
EXTENDS MaintenanceProperties, FiniteSetTheorems, TLAPS

(* A job is the owner of the only journal, and from its first step that     *)
(* touches the host until its last it has one.                              *)
JournalInv ==
  /\ \A u, v \in Updaters : pend[u] # "none" /\ pend[v] # "none" => u = v
  /\ job.who # None => \A v \in Updaters : pend[v] # "none" => v = job.who
  /\ job.who \in Packages \/ (job.who \in Bundles /\ job.step \notin {"build", "promote"})
       => pend[job.who] # "none"
  /\ job.step = "promote" /\ ~job.again => pend[job.who] # "none"

(* What a job holds and what it has published, step by step.                *)
HoldInv ==
  /\ job.who \in Packages /\ job.step \in {"publish", "link", "pend", "apt", "unpacking",
        "verify", "activate", "clear", "intend"} => fence = "update"
  /\ job.who \in Packages /\ job.step \in {"pend", "apt", "unpacking", "verify", "activate"}
       => marker = job.who
  /\ job.who \in Bundles /\ job.step \in {"stopping", "capture", "captured", "runtime",
        "helper", "current", "up", "unmark"} => fence = "update" /\ marker = "release"

(* What is broken is behind a marker, and no pass is at work then.          *)
SoundInv ==
  /\ worker = "running" <=> fence = "worker"
  /\ worker = "running" => marker = None
  /\ marker # "release" => Consistent /\ stack = [up |-> TRUE, release |-> inst.runtime]
  /\ \A u \in Packages : marker # u => pkgs[u].whole
  /\ job.who \in Packages /\ job.step \in {"clear", "intend"} => pkgs[job.who].whole
  /\ job.who \in Bundles =>
       /\ job.step \in {"helper", "current"} => inst.runtime = Destination(job.who)
       /\ job.step = "current" => inst.helper = Destination(job.who)
       /\ job.step \in {"up", "unmark"} => inst = Installed(Destination(job.who))
       /\ job.step = "unmark" => stack = [up |-> TRUE, release |-> inst.runtime]

(* The baseline and the release that is built from it.                      *)
BaseInv ==
  /\ job.who = "application" /\ job.step = "build" => baseline = inst.current.application
  /\ BuiltFromInstalled

(* Whose marker it is, and when the timers are back.                        *)
TimerInv ==
  /\ marker = Foreign => spent.foreign > 0
  /\ marker \in Packages => pend[marker] # "none"
  /\ marker = "release" => \E u \in Bundles : pend[u] # "none"
  /\ job.who \in Packages /\ job.step \in {"run", "pass", "passing", "unmask", "restart", "settled"}
       => marker # job.who
  /\ job.who \in Bundles /\ job.step \in {"pass", "passing", "enable", "unlink", "promote"}
       => marker # "release"
  /\ job.who \in Packages /\ job.step = "restart" => timers.file = "enabled"
  /\ job.who \in Packages /\ job.step = "settled" => timers = On
  /\ job.who \in Bundles /\ job.step \in {"unlink", "promote"} => timers = On
  /\ (\A u \in Updaters : pend[u] = "none") => timers = On \/ spent.foreign > 0

(* A recovery point covers every pass whenever something is about to change. *)
BackedInv ==
  /\ job.who \in Packages /\ job.step \in {"captured", "fence"} /\ unchanged => backed
  /\ job.who \in Packages /\ job.step \in {"publish", "link", "pend", "apt", "unpacking"} => backed
  /\ job.who \in Bundles /\ job.step = "captured" => backed
  /\ \A u \in Bundles :
       /\ pend[u] = "prepared" => inst = Installed(bundle[u].old)
       /\ pend[u] = "backup_complete" =>
            \/ inst = Installed(bundle[u].new)
            \/ backed /\ marker = "release"

IInv ==
  TypeOK /\ JournalInv /\ HoldInv /\ SoundInv /\ BaseInv /\ TimerInv /\ BackedInv

-----------------------------------------------------------------------------
\* Replacing a file by what it already is changes nothing.
LEMMA ReplaceSame ==
  ASSUME NEW r, NEW part \in {"runtime", "helper", "current"}
  PROVE  [Installed(r) EXCEPT ![part] = r] = Installed(r)
<1>1. CASE part = "runtime" BY <1>1 DEF Installed
<1>2. CASE part = "helper" BY <1>2 DEF Installed
<1>3. CASE part = "current" BY <1>3 DEF Installed
<1> QED BY <1>1, <1>2, <1>3

\* The third file completes the installation.
LEMMA ReplaceLast ==
  ASSUME NEW i \in [runtime : Releases, helper : Releases, current : Releases], NEW d
  PROVE  i.runtime = d /\ i.helper = d => [i EXCEPT !["current"] = d] = Installed(d)
<1> DEFINE j == [i EXCEPT !["current"] = d]
<1>1. j = [x \in {"runtime", "helper", "current"} |-> IF x = "current" THEN d ELSE i[x]]
  OBVIOUS
<1>2. Installed(d) = [x \in {"runtime", "helper", "current"} |-> d]
  BY DEF Installed
<1> QED BY <1>1, <1>2

\* A plan names versions within the bound.
LEMMA PlansAreTyped ==
  ASSUME NEW u \in Packages, NEW p \in Plans(u), UpdateAssumption, SystemType
  PROVE  p \in [old : 0..MaxVersion, new : 0..MaxVersion, rehearsal : BOOLEAN]
<1>1. /\ pkgs["docker"] \in [ver : 0..MaxVersion, whole : BOOLEAN]
      /\ pkgs["ubuntu"] \in [ver : 0..MaxVersion, whole : BOOLEAN]
  BY DEF SystemType, Packages
<1>2. p.new <= MaxVersion
  BY DEF Plans
<1>3. PICK v \in 0..MaxVersion :
         p \in {[old |-> v, new |-> v + 1, rehearsal |-> FALSE],
                [old |-> v, new |-> v, rehearsal |-> TRUE],
                [old |-> v, new |-> v, rehearsal |-> FALSE]}
  <2>1. CASE u = "docker"
    BY <1>1, <2>1 DEF Plans, DockerPlans
  <2>2. CASE u = "ubuntu"
    BY <1>1, <2>2 DEF Plans, UbuntuPlans
  <2> QED BY <2>1, <2>2 DEF Packages
<1>4. MaxVersion \in Nat
  BY DEF UpdateAssumption
<1>5. CASE p = [old |-> v, new |-> v + 1, rehearsal |-> FALSE]
  <2>1. v + 1 \in 0..MaxVersion
    BY <1>2, <1>4, <1>5
  <2> QED BY <1>5, <2>1
<1>6. CASE \E b \in BOOLEAN : p = [old |-> v, new |-> v, rehearsal |-> b]
  BY <1>6
<1> QED BY <1>3, <1>5, <1>6

-----------------------------------------------------------------------------
\* The package updaters, step by step.
USE UpdateAssumption DEF Packages, Bundles, Updaters, NoJob
LEMMA PackageStartKeeps == ASSUME NEW u \in Packages, IInv, PackageStart(u) PROVE IInv'
<1> USE DEF IInv, TypeOK, PackageStart, Others, On, Plans, DockerPlans, UbuntuPlans, Writes,
            mail, release
<1>1. JobType' BY DEF JobType, PackageSteps
<1>2. JournalType'
  <2>1. PICK p \in Plans(u) : plan' = [plan EXCEPT ![u] = p]
    OBVIOUS
  <2>2. p \in [old : 0..MaxVersion, new : 0..MaxVersion, rehearsal : BOOLEAN]
    BY <2>1, PlansAreTyped
  <2> HIDE DEF Plans, DockerPlans, UbuntuPlans
  <2> QED BY <2>1, <2>2 DEF JournalType, PackagePhases
<1>3. MailType' BY DEF MailType
<1>4. SystemType' BY DEF SystemType
<1>5. JournalInv' BY DEF JournalInv, JournalType
<1>6. HoldInv' BY DEF HoldInv
<1>7. SoundInv'
  BY DEF SoundInv, Consistent
<1>8. BaseInv' BY DEF BaseInv, BuiltFromInstalled
<1>9. TimerInv' BY DEF TimerInv
<1>10. BackedInv'
  BY DEF BackedInv
<1> QED BY <1>1, <1>2, <1>3, <1>4, <1>5, <1>6, <1>7, <1>8, <1>9, <1>10

LEMMA PackageStopKeeps == ASSUME NEW u \in Packages, IInv, PackageStop(u) PROVE IInv'
<1> USE DEF IInv, TypeOK, PackageStop, At, Goto, mail, system, release
<1>1. JobType' BY DEF JobType, PackageSteps
<1>2. JournalType' BY DEF JournalType
<1>3. MailType' BY DEF MailType
<1>4. SystemType' BY DEF SystemType
<1>5. JournalInv' BY DEF JournalInv
<1>6. HoldInv' BY DEF HoldInv
<1>7. SoundInv'
  BY DEF SoundInv, Consistent
<1>8. BaseInv' BY DEF BaseInv, BuiltFromInstalled
<1>9. TimerInv'
  BY DEF TimerInv, JournalInv
<1>10. BackedInv'
  BY DEF BackedInv
<1> QED BY <1>1, <1>2, <1>3, <1>4, <1>5, <1>6, <1>7, <1>8, <1>9, <1>10

LEMMA PackageMaskKeeps == ASSUME NEW u \in Packages, IInv, PackageMask(u) PROVE IInv'
<1> USE DEF IInv, TypeOK, PackageMask, At, Goto, mail, system, release
<1>1. JobType' BY DEF JobType, PackageSteps
<1>2. JournalType' BY DEF JournalType
<1>3. MailType' BY DEF MailType
<1>4. SystemType' BY DEF SystemType
<1>5. JournalInv' BY DEF JournalInv
<1>6. HoldInv' BY DEF HoldInv
<1>7. SoundInv'
  BY DEF SoundInv, Consistent
<1>8. BaseInv' BY DEF BaseInv, BuiltFromInstalled
<1>9. TimerInv'
  BY DEF TimerInv, JournalInv
<1>10. BackedInv'
  BY DEF BackedInv
<1> QED BY <1>1, <1>2, <1>3, <1>4, <1>5, <1>6, <1>7, <1>8, <1>9, <1>10

LEMMA PackageSettleKeeps == ASSUME NEW u \in Packages, IInv, PackageSettle(u) PROVE IInv'
<1> USE DEF IInv, TypeOK, PackageSettle, At, Goto, Leaves, system, release
<1>1. JobType' BY DEF JobType, PackageSteps
<1>2. JournalType' BY DEF JournalType
<1>3. MailType' BY DEF MailType
<1>4. SystemType' BY DEF SystemType
<1>5. JournalInv' BY DEF JournalInv, JobType
<1>6. HoldInv' BY DEF HoldInv, JobType
<1>7. SoundInv'
  BY DEF SoundInv, JobType, Consistent
<1>8. BaseInv' BY DEF BaseInv, BuiltFromInstalled, JobType
<1>9. TimerInv'
  BY DEF TimerInv, JobType
<1>10. BackedInv'
  BY DEF BackedInv, JobType
<1> QED BY <1>1, <1>2, <1>3, <1>4, <1>5, <1>6, <1>7, <1>8, <1>9, <1>10

LEMMA PackageCaptureKeeps == ASSUME NEW u \in Packages, IInv, PackageCapture(u) PROVE IInv'
<1> USE DEF IInv, TypeOK, PackageCapture, At, Goto, Leaves, system, release
<1>1. JobType' BY DEF JobType, PackageSteps
<1>2. JournalType' BY DEF JournalType
<1>3. MailType' BY DEF MailType
<1>4. SystemType' BY DEF SystemType
<1>5. JournalInv' BY DEF JournalInv, JobType
<1>6. HoldInv' BY DEF HoldInv, JobType
<1>7. SoundInv'
  BY DEF SoundInv, JobType, Consistent
<1>8. BaseInv' BY DEF BaseInv, BuiltFromInstalled, JobType
<1>9. TimerInv'
  BY DEF TimerInv, JobType
<1>10. BackedInv'
  BY DEF BackedInv
<1> QED BY <1>1, <1>2, <1>3, <1>4, <1>5, <1>6, <1>7, <1>8, <1>9, <1>10

LEMMA PackageCapturedKeeps == ASSUME NEW u \in Packages, IInv, PackageCaptured(u) PROVE IInv'
<1> USE DEF IInv, TypeOK, PackageCaptured, At, Goto, Writes, mail, system, release
<1>1. JobType' BY DEF JobType, PackageSteps
<1>2. JournalType' BY DEF JournalType, PackagePhases
<1>3. MailType' BY DEF MailType
<1>4. SystemType' BY DEF SystemType
<1>5. JournalInv' BY DEF JournalInv
<1>6. HoldInv' BY DEF HoldInv
<1>7. SoundInv'
  BY DEF SoundInv, Consistent
<1>8. BaseInv' BY DEF BaseInv, BuiltFromInstalled
<1>9. TimerInv'
  BY DEF TimerInv
<1>10. BackedInv'
  BY DEF BackedInv
<1> QED BY <1>1, <1>2, <1>3, <1>4, <1>5, <1>6, <1>7, <1>8, <1>9, <1>10

LEMMA PackageFenceKeeps == ASSUME NEW u \in Packages, IInv, PackageFence(u) PROVE IInv'
<1> USE DEF IInv, TypeOK, PackageFence, At, Untouched, Goto, Leaves, mail, system, release
<1>1. JobType' BY DEF JobType, PackageSteps
<1>2. JournalType' BY DEF JournalType
<1>3. MailType' BY DEF MailType
<1>4. SystemType' BY DEF SystemType
<1>5. JournalInv' BY DEF JournalInv, JobType
<1>6. HoldInv' BY DEF HoldInv, JobType
<1>7. SoundInv'
  BY DEF SoundInv, JobType, Consistent
<1>8. BaseInv' BY DEF BaseInv, BuiltFromInstalled, JobType
<1>9. TimerInv'
  BY DEF TimerInv, JobType
<1>10. BackedInv'
  BY DEF BackedInv
<1> QED BY <1>1, <1>2, <1>3, <1>4, <1>5, <1>6, <1>7, <1>8, <1>9, <1>10

LEMMA PackagePublishKeeps == ASSUME NEW u \in Packages, IInv, PackagePublish(u) PROVE IInv'
<1> USE DEF IInv, TypeOK, PackagePublish, At, Goto, Writes, mail, system, release
<1>1. JobType' BY DEF JobType, PackageSteps
<1>2. JournalType' BY DEF JournalType, PackagePhases
<1>3. MailType' BY DEF MailType
<1>4. SystemType' BY DEF SystemType
<1>5. JournalInv' BY DEF JournalInv
<1>6. HoldInv' BY DEF HoldInv
<1>7. SoundInv'
  BY DEF SoundInv, Consistent
<1>8. BaseInv' BY DEF BaseInv, BuiltFromInstalled
<1>9. TimerInv'
  BY DEF TimerInv
<1>10. BackedInv'
  BY DEF BackedInv
<1> QED BY <1>1, <1>2, <1>3, <1>4, <1>5, <1>6, <1>7, <1>8, <1>9, <1>10

LEMMA PackageLinkKeeps == ASSUME NEW u \in Packages, IInv, PackageLink(u) PROVE IInv'
<1> USE DEF IInv, TypeOK, PackageLink, At, Goto, Leaves, mail, system, release
<1>1. JobType' BY DEF JobType, PackageSteps
<1>2. JournalType' BY DEF JournalType
<1>3. MailType' BY DEF MailType
<1>4. SystemType' BY DEF SystemType
<1>5. JournalInv' BY DEF JournalInv, JobType
<1>6. HoldInv' BY DEF HoldInv, JobType
<1>7. SoundInv'
  BY DEF SoundInv, JobType, HoldInv, Consistent
<1>8. BaseInv' BY DEF BaseInv, BuiltFromInstalled, JobType
<1>9. TimerInv'
  BY DEF TimerInv, JobType, JournalInv
<1>10. BackedInv'
  BY DEF BackedInv
<1> QED BY <1>1, <1>2, <1>3, <1>4, <1>5, <1>6, <1>7, <1>8, <1>9, <1>10

LEMMA PackagePendKeeps == ASSUME NEW u \in Packages, IInv, PackagePend(u) PROVE IInv'
<1> USE DEF IInv, TypeOK, PackagePend, At, Goto, Writes, mail, system, release
<1>1. JobType' BY DEF JobType, PackageSteps
<1>2. JournalType' BY DEF JournalType, PackagePhases
<1>3. MailType' BY DEF MailType
<1>4. SystemType' BY DEF SystemType
<1>5. JournalInv' BY DEF JournalInv
<1>6. HoldInv' BY DEF HoldInv
<1>7. SoundInv'
  BY DEF SoundInv, Consistent
<1>8. BaseInv' BY DEF BaseInv, BuiltFromInstalled
<1>9. TimerInv'
  BY DEF TimerInv
<1>10. BackedInv'
  BY DEF BackedInv
<1> QED BY <1>1, <1>2, <1>3, <1>4, <1>5, <1>6, <1>7, <1>8, <1>9, <1>10

LEMMA PackageAptKeeps == ASSUME NEW u \in Packages, IInv, PackageApt(u) PROVE IInv'
<1> USE DEF IInv, TypeOK, PackageApt, At, Goto, mail, release
<1>1. JobType' BY DEF JobType, PackageSteps
<1>2. JournalType' BY DEF JournalType
<1>3. MailType' BY DEF MailType
<1>4. SystemType'
  <2>1. pkgs[u] \in [ver : 0..MaxVersion, whole : BOOLEAN]
    BY DEF SystemType
  <2>2. [pkgs[u] EXCEPT !.whole = FALSE] \in [ver : 0..MaxVersion, whole : BOOLEAN]
    BY <2>1
  <2>3. pkgs' = [pkgs EXCEPT ![u] = [pkgs[u] EXCEPT !.whole = FALSE]]
    OBVIOUS
  <2> QED BY <2>2, <2>3 DEF SystemType
<1>5. JournalInv' BY DEF JournalInv
<1>6. HoldInv' BY DEF HoldInv
<1>7. SoundInv'
  BY DEF SoundInv, HoldInv, Consistent
<1>8. BaseInv' BY DEF BaseInv, BuiltFromInstalled
<1>9. TimerInv'
  BY DEF TimerInv
<1>10. BackedInv'
  BY DEF BackedInv
<1> QED BY <1>1, <1>2, <1>3, <1>4, <1>5, <1>6, <1>7, <1>8, <1>9, <1>10

LEMMA PackageInstalledKeeps == ASSUME NEW u \in Packages, IInv, PackageInstalled(u) PROVE IInv'
<1> USE DEF IInv, TypeOK, PackageInstalled, At, Goto, mail, release
<1>1. JobType' BY DEF JobType, PackageSteps
<1>2. JournalType' BY DEF JournalType
<1>3. MailType' BY DEF MailType
<1>4. SystemType'
  <2>1. [ver |-> plan[u].new, whole |-> TRUE] \in [ver : 0..MaxVersion, whole : BOOLEAN]
    BY DEF JournalType
  <2>2. stale' \in BOOLEAN
    BY DEF SystemType
  <2> QED BY <2>1, <2>2 DEF SystemType
<1>5. JournalInv' BY DEF JournalInv
<1>6. HoldInv' BY DEF HoldInv
<1>7. SoundInv'
  BY DEF SoundInv, Consistent
<1>8. BaseInv' BY DEF BaseInv, BuiltFromInstalled
<1>9. TimerInv'
  BY DEF TimerInv
<1>10. BackedInv'
  BY DEF BackedInv
<1> QED BY <1>1, <1>2, <1>3, <1>4, <1>5, <1>6, <1>7, <1>8, <1>9, <1>10

LEMMA PackageClearKeeps == ASSUME NEW u \in Packages, IInv, PackageClear(u) PROVE IInv'
<1> USE DEF IInv, TypeOK, PackageClear, At, Goto, mail, system, release
<1>1. JobType' BY DEF JobType, PackageSteps
<1>2. JournalType' BY DEF JournalType
<1>3. MailType' BY DEF MailType
<1>4. SystemType' BY DEF SystemType
<1>5. JournalInv' BY DEF JournalInv
<1>6. HoldInv' BY DEF HoldInv
<1>7. SoundInv'
  BY DEF SoundInv, HoldInv, Consistent
<1>8. BaseInv' BY DEF BaseInv, BuiltFromInstalled
<1>9. TimerInv'
  BY DEF TimerInv
<1>10. BackedInv'
  BY DEF BackedInv
<1> QED BY <1>1, <1>2, <1>3, <1>4, <1>5, <1>6, <1>7, <1>8, <1>9, <1>10

LEMMA PackageRunKeeps == ASSUME NEW u \in Packages, IInv, PackageRun(u) PROVE IInv'
<1> USE DEF IInv, TypeOK, PackageRun, At, Goto, Writes, mail, system, release
<1>1. JobType' BY DEF JobType, PackageSteps
<1>2. JournalType' BY DEF JournalType, PackagePhases
<1>3. MailType' BY DEF MailType
<1>4. SystemType' BY DEF SystemType
<1>5. JournalInv' BY DEF JournalInv
<1>6. HoldInv' BY DEF HoldInv
<1>7. SoundInv'
  BY DEF SoundInv, Consistent
<1>8. BaseInv' BY DEF BaseInv, BuiltFromInstalled
<1>9. TimerInv'
  BY DEF TimerInv
<1>10. BackedInv'
  BY DEF BackedInv
<1> QED BY <1>1, <1>2, <1>3, <1>4, <1>5, <1>6, <1>7, <1>8, <1>9, <1>10

LEMMA PackagePassKeeps == ASSUME NEW u \in Packages, IInv, PackagePass(u) PROVE IInv'
<1> USE DEF IInv, TypeOK, PackagePass, At, Goto, mail, Refused, Leaves, PassStarts, system,
            release
<1>1. JobType' BY DEF JobType, PackageSteps
<1>2. JournalType' BY DEF JournalType
<1>3. MailType' BY DEF MailType
<1>4. SystemType' BY DEF SystemType
<1>5. JournalInv' BY DEF JournalInv, JobType
<1>6. HoldInv' BY DEF HoldInv, JobType
<1>7. SoundInv'
  BY DEF SoundInv, JobType, Consistent
<1>8. BaseInv' BY DEF BaseInv, BuiltFromInstalled, JobType
<1>9. TimerInv'
  BY DEF TimerInv, JobType
<1>10. BackedInv'
  BY DEF BackedInv, JobType
<1> QED BY <1>1, <1>2, <1>3, <1>4, <1>5, <1>6, <1>7, <1>8, <1>9, <1>10

LEMMA PackagePassedKeeps == ASSUME NEW u \in Packages, IInv, PackagePassed(u) PROVE IInv'
<1> USE DEF IInv, TypeOK, PackagePassed, At, Writes, Goto, Leaves, mail, system, release
<1>1. JobType' BY DEF JobType, PackageSteps
<1>2. JournalType' BY DEF JournalType, PackagePhases
<1>3. MailType' BY DEF MailType
<1>4. SystemType' BY DEF SystemType
<1>5. JournalInv' BY DEF JournalInv, JobType, JournalType
<1>6. HoldInv' BY DEF HoldInv, JobType
<1>7. SoundInv'
  BY DEF SoundInv, JobType, Consistent
<1>8. BaseInv' BY DEF BaseInv, BuiltFromInstalled, JobType, JournalType
<1>9. TimerInv'
  BY DEF TimerInv, JobType, JournalType
<1>10. BackedInv'
  BY DEF BackedInv, JobType, JournalType
<1> QED BY <1>1, <1>2, <1>3, <1>4, <1>5, <1>6, <1>7, <1>8, <1>9, <1>10

LEMMA PackageUnmaskKeeps == ASSUME NEW u \in Packages, IInv, PackageUnmask(u) PROVE IInv'
<1> USE DEF IInv, TypeOK, PackageUnmask, At, Goto, Leaves, mail, system, release
<1>1. JobType' BY DEF JobType, PackageSteps
<1>2. JournalType' BY DEF JournalType
<1>3. MailType' BY DEF MailType
<1>4. SystemType' BY DEF SystemType
<1>5. JournalInv' BY DEF JournalInv, JobType
<1>6. HoldInv' BY DEF HoldInv, JobType
<1>7. SoundInv'
  BY DEF SoundInv, JobType, Consistent
<1>8. BaseInv' BY DEF BaseInv, BuiltFromInstalled, JobType
<1>9. TimerInv'
  BY DEF TimerInv, On, JobType, MailType
<1>10. BackedInv'
  BY DEF BackedInv, JobType
<1> QED BY <1>1, <1>2, <1>3, <1>4, <1>5, <1>6, <1>7, <1>8, <1>9, <1>10

LEMMA PackageRestartKeeps == ASSUME NEW u \in Packages, IInv, PackageRestart(u) PROVE IInv'
<1> USE DEF IInv, TypeOK, PackageRestart, At, Goto, mail, system, release
<1>1. JobType' BY DEF JobType, PackageSteps
<1>2. JournalType' BY DEF JournalType
<1>3. MailType' BY DEF MailType
<1>4. SystemType' BY DEF SystemType
<1>5. JournalInv' BY DEF JournalInv
<1>6. HoldInv' BY DEF HoldInv
<1>7. SoundInv'
  BY DEF SoundInv, Consistent
<1>8. BaseInv' BY DEF BaseInv, BuiltFromInstalled
<1>9. TimerInv'
  BY DEF TimerInv, On, JobType, MailType
<1>10. BackedInv'
  BY DEF BackedInv
<1> QED BY <1>1, <1>2, <1>3, <1>4, <1>5, <1>6, <1>7, <1>8, <1>9, <1>10

LEMMA PackageSettledKeeps == ASSUME NEW u \in Packages, IInv, PackageSettled(u) PROVE IInv'
<1> USE DEF IInv, TypeOK, PackageSettled, At, Leaves, Writes, NoPlan, mail, release
<1>1. JobType' BY DEF JobType
<1>2. JournalType' BY DEF JournalType
<1>3. MailType' BY DEF MailType
<1>4. SystemType' BY DEF SystemType
<1>5. JournalInv' BY DEF JournalInv
<1>6. HoldInv' BY DEF HoldInv
<1>7. SoundInv'
  BY DEF SoundInv, Consistent
<1>8. BaseInv' BY DEF BaseInv, BuiltFromInstalled
<1>9. TimerInv'
  BY DEF TimerInv
<1>10. BackedInv'
  BY DEF BackedInv
<1> QED BY <1>1, <1>2, <1>3, <1>4, <1>5, <1>6, <1>7, <1>8, <1>9, <1>10

LEMMA PackageRecoverKeeps == ASSUME NEW u \in Packages, IInv, PackageRecover(u) PROVE IInv'
<1> USE DEF IInv, TypeOK, PackageRecover, Others, Resumable, Before, Untouched, After,
            Masked, Complete, mail, system, release
<1>1. JobType' BY DEF JobType, PackageSteps
<1>2. JournalType' BY DEF JournalType
<1>3. MailType' BY DEF MailType
<1>4. SystemType' BY DEF SystemType
<1>5. JournalInv' BY DEF JournalInv
<1>6. HoldInv' BY DEF HoldInv
<1>7. SoundInv'
  BY DEF SoundInv, Consistent
<1>8. BaseInv' BY DEF BaseInv, BuiltFromInstalled
<1>9. TimerInv'
  BY DEF TimerInv
<1>10. BackedInv'
  BY DEF BackedInv
<1> QED BY <1>1, <1>2, <1>3, <1>4, <1>5, <1>6, <1>7, <1>8, <1>9, <1>10

LEMMA PackageResumeKeeps == ASSUME NEW u \in Packages, IInv, PackageResume(u) PROVE IInv'
<1> USE DEF IInv, TypeOK, PackageResume, At, Before, Leaves, Goto, system, release
<1>1. JobType' BY DEF JobType, PackageSteps
<1>2. JournalType' BY DEF JournalType
<1>3. MailType' BY DEF MailType
<1>4. SystemType' BY DEF SystemType
<1>5. JournalInv' BY DEF JournalInv, JobType
<1>6. HoldInv' BY DEF HoldInv, JobType
<1>7. SoundInv'
  BY DEF SoundInv, JobType, Consistent
<1>8. BaseInv' BY DEF BaseInv, BuiltFromInstalled, JobType
<1>9. TimerInv'
  BY DEF TimerInv, JobType
<1>10. BackedInv'
  BY DEF BackedInv, JobType
<1> QED BY <1>1, <1>2, <1>3, <1>4, <1>5, <1>6, <1>7, <1>8, <1>9, <1>10

LEMMA PackageRefenceKeeps == ASSUME NEW u \in Packages, IInv, PackageRefence(u) PROVE IInv'
<1> USE DEF IInv, TypeOK, PackageRefence, At, Fenced, MarkerFits, Before, Untouched,
            Complete, Leaves, MustReboot, Activating, ActivationClean, RequestReboot,
            Writes, Goto, AfterFence, After, mail, system, release
<1>1. JobType' BY DEF JobType, PackageSteps
<1>2. JournalType' BY DEF JournalType, PackagePhases
<1>3. MailType' BY DEF MailType
<1>4. SystemType' BY DEF SystemType
<1>5. JournalInv' BY DEF JournalInv, JobType, JournalType
<1>6. HoldInv' BY DEF HoldInv, JobType
<1>7. SoundInv'
  BY DEF SoundInv, JobType, Consistent
<1>8. BaseInv' BY DEF BaseInv, BuiltFromInstalled, JobType, JournalType
<1>9. TimerInv'
  BY DEF TimerInv, JobType, JournalType
<1>10. BackedInv'
  BY DEF BackedInv, JobType, JournalType
<1> QED BY <1>1, <1>2, <1>3, <1>4, <1>5, <1>6, <1>7, <1>8, <1>9, <1>10

LEMMA PackageIntendKeeps == ASSUME NEW u \in Packages, IInv, PackageIntend(u) PROVE IInv'
<1> USE DEF IInv, TypeOK, PackageIntend, At, Goto, Writes, Before, mail, system, release
<1>1. JobType' BY DEF JobType, PackageSteps
<1>2. JournalType' BY DEF JournalType, PackagePhases
<1>3. MailType' BY DEF MailType
<1>4. SystemType' BY DEF SystemType
<1>5. JournalInv' BY DEF JournalInv
<1>6. HoldInv' BY DEF HoldInv
<1>7. SoundInv'
  BY DEF SoundInv, Consistent
<1>8. BaseInv' BY DEF BaseInv, BuiltFromInstalled
<1>9. TimerInv'
  BY DEF TimerInv
<1>10. BackedInv'
  BY DEF BackedInv
<1> QED BY <1>1, <1>2, <1>3, <1>4, <1>5, <1>6, <1>7, <1>8, <1>9, <1>10

LEMMA DockerVerifyKeeps == ASSUME IInv, DockerVerify PROVE IInv'
<1> USE DEF IInv, TypeOK, DockerVerify, At, Complete, Writes, Goto, Leaves, mail, system,
            release
<1>1. JobType' BY DEF JobType, PackageSteps
<1>2. JournalType' BY DEF JournalType, PackagePhases
<1>3. MailType' BY DEF MailType
<1>4. SystemType' BY DEF SystemType
<1>5. JournalInv' BY DEF JournalInv, JobType, JournalType
<1>6. HoldInv' BY DEF HoldInv, JobType
<1>7. SoundInv'
  BY DEF SoundInv, JobType, Consistent
<1>8. BaseInv' BY DEF BaseInv, BuiltFromInstalled, JobType, JournalType
<1>9. TimerInv'
  BY DEF TimerInv, JobType, JournalType
<1>10. BackedInv'
  BY DEF BackedInv, JobType, JournalType
<1> QED BY <1>1, <1>2, <1>3, <1>4, <1>5, <1>6, <1>7, <1>8, <1>9, <1>10

LEMMA UbuntuVerifyKeeps == ASSUME IInv, UbuntuVerify PROVE IInv'
<1> USE DEF IInv, TypeOK, UbuntuVerify, At, Complete, Writes, Goto, Leaves, mail, system,
            release
<1>1. JobType' BY DEF JobType, PackageSteps
<1>2. JournalType' BY DEF JournalType, PackagePhases
<1>3. MailType' BY DEF MailType
<1>4. SystemType' BY DEF SystemType
<1>5. JournalInv' BY DEF JournalInv, JobType, JournalType
<1>6. HoldInv' BY DEF HoldInv, JobType
<1>7. SoundInv'
  BY DEF SoundInv, JobType, Consistent
<1>8. BaseInv' BY DEF BaseInv, BuiltFromInstalled, JobType, JournalType
<1>9. TimerInv'
  BY DEF TimerInv, JobType, JournalType
<1>10. BackedInv'
  BY DEF BackedInv, JobType, JournalType
<1> QED BY <1>1, <1>2, <1>3, <1>4, <1>5, <1>6, <1>7, <1>8, <1>9, <1>10

LEMMA UbuntuActivateKeeps == ASSUME IInv, UbuntuActivate PROVE IInv'
<1> USE DEF IInv, TypeOK, UbuntuActivate, At, RequestReboot, Writes, Leaves,
            ActivationClean, mail, system, release
<1>1. JobType'
  <2>1. CASE job' = NoJob
    BY <2>1 DEF JobType
  <2>2. CASE job' = [who |-> "ubuntu", step |-> "resume", again |-> TRUE]
    BY <2>2 DEF JobType, PackageSteps
  <2> QED BY <2>1, <2>2
<1>2. JournalType' BY DEF JournalType, PackagePhases
<1>3. MailType' BY DEF MailType
<1>4. SystemType' BY DEF SystemType
<1>5. JournalInv' BY DEF JournalInv, JournalType
<1>6. HoldInv' BY DEF HoldInv
<1>7. SoundInv'
  BY DEF SoundInv, HoldInv, Consistent
<1>8. BaseInv' BY DEF BaseInv, BuiltFromInstalled, JournalType
<1>9. TimerInv'
  BY DEF TimerInv, JournalType
<1>10. BackedInv'
  BY DEF BackedInv, JournalType
<1> QED BY <1>1, <1>2, <1>3, <1>4, <1>5, <1>6, <1>7, <1>8, <1>9, <1>10

LEMMA RebootsKeeps == ASSUME IInv, Reboots PROVE IInv'
<1> USE DEF IInv, TypeOK, Reboots, Boots, release
<1>1. JobType' BY DEF JobType
<1>2. JournalType' BY DEF JournalType
<1>3. MailType' BY DEF MailType
<1>4. SystemType' BY DEF SystemType
<1>5. JournalInv' BY DEF JournalInv
<1>6. HoldInv' BY DEF HoldInv
<1>7. SoundInv'
  BY DEF SoundInv, Consistent
<1>8. BaseInv' BY DEF BaseInv, BuiltFromInstalled
<1>9. TimerInv'
  BY DEF TimerInv
<1>10. BackedInv'
  BY DEF BackedInv
<1> QED BY <1>1, <1>2, <1>3, <1>4, <1>5, <1>6, <1>7, <1>8, <1>9, <1>10

-----------------------------------------------------------------------------
\* The release updaters, step by step.
LEMMA ReleasePrepareKeeps == ASSUME NEW u \in Bundles, IInv, ReleasePrepare(u) PROVE IInv'
<1> USE DEF IInv, TypeOK, ReleasePrepare, At, Consistent, Installed, Built, NewImages,
            NewApplication, Releases, Records, Goto, Leaves, mail, system, release
<1>1. JobType' BY DEF JobType, ReleaseSteps
<1>2. JournalType'
  <2>1. inst.current \in Releases
    BY DEF SystemType
  <2> QED BY <2>1 DEF JournalType, BundlePhases
<1>3. MailType' BY DEF MailType
<1>4. SystemType' BY DEF SystemType
<1>5. JournalInv' BY DEF JournalInv, JobType, JournalType
<1>6. HoldInv' BY DEF HoldInv, JobType
<1>7. SoundInv'
  BY DEF SoundInv, JobType
<1>8. BaseInv' BY DEF BaseInv, BuiltFromInstalled, JobType, JournalType
<1>9. TimerInv'
  BY DEF TimerInv, JobType, JournalType
<1>10. BackedInv'
  BY DEF BackedInv, JobType, JournalType
<1> QED BY <1>1, <1>2, <1>3, <1>4, <1>5, <1>6, <1>7, <1>8, <1>9, <1>10

LEMMA ReleaseDisableKeeps == ASSUME NEW u \in Bundles, IInv, ReleaseDisable(u) PROVE IInv'
<1> USE DEF IInv, TypeOK, ReleaseDisable, At, Goto, Off, mail, system, release
<1>1. JobType' BY DEF JobType, ReleaseSteps
<1>2. JournalType' BY DEF JournalType
<1>3. MailType' BY DEF MailType
<1>4. SystemType' BY DEF SystemType
<1>5. JournalInv' BY DEF JournalInv
<1>6. HoldInv' BY DEF HoldInv
<1>7. SoundInv'
  BY DEF SoundInv, Consistent
<1>8. BaseInv' BY DEF BaseInv, BuiltFromInstalled
<1>9. TimerInv'
  BY DEF TimerInv, JournalInv
<1>10. BackedInv'
  BY DEF BackedInv
<1> QED BY <1>1, <1>2, <1>3, <1>4, <1>5, <1>6, <1>7, <1>8, <1>9, <1>10

LEMMA ReleaseWaitKeeps == ASSUME NEW u \in Bundles, IInv, ReleaseWait(u) PROVE IInv'
<1> USE DEF IInv, TypeOK, ReleaseWait, At, Goto, mail, system, release
<1>1. JobType' BY DEF JobType, ReleaseSteps
<1>2. JournalType' BY DEF JournalType
<1>3. MailType' BY DEF MailType
<1>4. SystemType' BY DEF SystemType
<1>5. JournalInv' BY DEF JournalInv
<1>6. HoldInv' BY DEF HoldInv
<1>7. SoundInv'
  BY DEF SoundInv, Consistent
<1>8. BaseInv' BY DEF BaseInv, BuiltFromInstalled
<1>9. TimerInv'
  BY DEF TimerInv
<1>10. BackedInv'
  BY DEF BackedInv
<1> QED BY <1>1, <1>2, <1>3, <1>4, <1>5, <1>6, <1>7, <1>8, <1>9, <1>10

LEMMA ReleaseLockKeeps == ASSUME NEW u \in Bundles, IInv, ReleaseLock(u) PROVE IInv'
<1> USE DEF IInv, TypeOK, ReleaseLock, At, Installed, Goto, Leaves, mail, system, release
<1>1. JobType' BY DEF JobType, ReleaseSteps
<1>2. JournalType' BY DEF JournalType
<1>3. MailType' BY DEF MailType
<1>4. SystemType' BY DEF SystemType
<1>5. JournalInv' BY DEF JournalInv, JobType
<1>6. HoldInv' BY DEF HoldInv, JobType
<1>7. SoundInv'
  BY DEF SoundInv, JobType, Consistent
<1>8. BaseInv' BY DEF BaseInv, BuiltFromInstalled, JobType
<1>9. TimerInv'
  BY DEF TimerInv, JobType, JournalInv
<1>10. BackedInv'
  BY DEF BackedInv, JobType
<1> QED BY <1>1, <1>2, <1>3, <1>4, <1>5, <1>6, <1>7, <1>8, <1>9, <1>10

LEMMA ReleaseStopKeeps == ASSUME NEW u \in Bundles, IInv, ReleaseStop(u) PROVE IInv'
<1> USE DEF IInv, TypeOK, ReleaseStop, At, Goto, Leaves, mail, system
<1>1. JobType' BY DEF JobType, ReleaseSteps
<1>2. JournalType' BY DEF JournalType
<1>3. MailType' BY DEF MailType
<1>4. SystemType'
  <2>1. [stack EXCEPT !.up = FALSE] \in [up : BOOLEAN, release : Releases]
    BY DEF SystemType
  <2>2. stack' \in {stack, [stack EXCEPT !.up = FALSE]}
    OBVIOUS
  <2> QED BY <2>1, <2>2 DEF SystemType
<1>5. JournalInv' BY DEF JournalInv, JobType
<1>6. HoldInv' BY DEF HoldInv, JobType
<1>7. SoundInv'
  BY DEF SoundInv, JobType, HoldInv
<1>8. BaseInv' BY DEF BaseInv, BuiltFromInstalled, JobType
<1>9. TimerInv'
  BY DEF TimerInv, JobType
<1>10. BackedInv'
  BY DEF BackedInv, JobType
<1> QED BY <1>1, <1>2, <1>3, <1>4, <1>5, <1>6, <1>7, <1>8, <1>9, <1>10

LEMMA ReleaseCaptureKeeps == ASSUME NEW u \in Bundles, IInv, ReleaseCapture(u) PROVE IInv'
<1> USE DEF IInv, TypeOK, ReleaseCapture, At, Goto, system, release
<1>1. JobType' BY DEF JobType, ReleaseSteps
<1>2. JournalType' BY DEF JournalType
<1>3. MailType' BY DEF MailType
<1>4. SystemType' BY DEF SystemType
<1>5. JournalInv' BY DEF JournalInv
<1>6. HoldInv' BY DEF HoldInv
<1>7. SoundInv'
  BY DEF SoundInv, HoldInv
<1>8. BaseInv' BY DEF BaseInv, BuiltFromInstalled
<1>9. TimerInv'
  BY DEF TimerInv
<1>10. BackedInv'
  BY DEF BackedInv
<1> QED BY <1>1, <1>2, <1>3, <1>4, <1>5, <1>6, <1>7, <1>8, <1>9, <1>10

LEMMA ReleaseCapturedKeeps == ASSUME NEW u \in Bundles, IInv, ReleaseCaptured(u) PROVE IInv'
<1> USE DEF IInv, TypeOK, ReleaseCaptured, At, Goto, Records, mail, system, release
<1>1. JobType' BY DEF JobType, ReleaseSteps
<1>2. JournalType' BY DEF JournalType, BundlePhases
<1>3. MailType' BY DEF MailType
<1>4. SystemType' BY DEF SystemType
<1>5. JournalInv' BY DEF JournalInv
<1>6. HoldInv' BY DEF HoldInv
<1>7. SoundInv'
  BY DEF SoundInv, HoldInv
<1>8. BaseInv'
  BY DEF BaseInv, BuiltFromInstalled, JournalInv
<1>9. TimerInv'
  BY DEF TimerInv
<1>10. BackedInv'
  BY DEF BackedInv, HoldInv
<1> QED BY <1>1, <1>2, <1>3, <1>4, <1>5, <1>6, <1>7, <1>8, <1>9, <1>10

LEMMA ReleaseReplaceKeeps == ASSUME NEW u \in Bundles, IInv, ReleaseReplace(u) PROVE IInv'
<1> USE DEF IInv, TypeOK, At, Goto, AfterPart, mail, system
<1>1. PICK part \in {"runtime", "helper", "current"} :
        /\ job.who = u /\ job.step = part
        /\ job' = [job EXCEPT !.step = AfterPart[part]]
        /\ inst' = [inst EXCEPT ![part] = Destination(u)]
        /\ UNCHANGED <<pend, plan, bundle, marker, timers, fence, mail, system, stack,
                       baseline, spent>>
  BY DEF ReleaseReplace
<1>2. /\ inst \in [runtime : Releases, helper : Releases, current : Releases]
      /\ Destination(u) \in Releases
  BY DEF SystemType, JournalType, Destination
<1>3. inst' \in [runtime : Releases, helper : Releases, current : Releases]
  <2>1. CASE part = "runtime"
    BY <1>1, <1>2, <2>1
  <2>2. CASE part = "helper"
    BY <1>1, <1>2, <2>2
  <2>3. CASE part = "current"
    BY <1>1, <1>2, <2>3
  <2> QED BY <2>1, <2>2, <2>3
<1>4. JobType' /\ HoldInv' /\ JournalInv' /\ BaseInv' /\ TimerInv'
  <2>1. CASE part = "runtime"
    BY <1>1, <2>1
      DEF JobType, ReleaseSteps, HoldInv, JournalInv, BaseInv, BuiltFromInstalled,
          TimerInv
  <2>2. CASE part = "helper"
    BY <1>1, <2>2
      DEF JobType, ReleaseSteps, HoldInv, JournalInv, BaseInv, BuiltFromInstalled,
          TimerInv
  <2>3. CASE part = "current"
    BY <1>1, <2>3
      DEF JobType, ReleaseSteps, HoldInv, JournalInv, BaseInv, BuiltFromInstalled,
          TimerInv
  <2> QED BY <2>1, <2>2, <2>3
<1>5. JournalType' /\ MailType' /\ SystemType'
  BY <1>1, <1>3 DEF JournalType, MailType, SystemType
<1>6. SoundInv'
  <2>1. CASE part = "runtime"
    BY <1>1, <1>2, <2>1 DEF SoundInv, HoldInv, Destination
  <2>2. CASE part = "helper"
    BY <1>1, <1>2, <2>2 DEF SoundInv, HoldInv, Destination
  <2>3. CASE part = "current"
    <3>1. inst.runtime = Destination(u) /\ inst.helper = Destination(u)
      BY <1>1, <2>3 DEF SoundInv
    <3>2. inst' = [inst EXCEPT !["current"] = Destination(u)]
      BY <1>1, <2>3
    <3>3. inst' = Installed(Destination(u))
      BY <1>2, <3>1, <3>2, ReplaceLast
    <3>4. Destination(u)' = Destination(u)
      BY <1>1 DEF Destination
    <3>5. job.who' = u /\ job'.step = "up" /\ marker' = "release"
      BY <1>1, <2>3 DEF HoldInv
    <3> QED BY <1>1, <3>3, <3>4, <3>5 DEF SoundInv
  <2> QED BY <2>1, <2>2, <2>3
<1>7. BackedInv'
  <2> USE DEF BackedInv, JobType, JournalType, HoldInv, JournalInv
  <2>1. CASE pend[u] = "prepared"
    <3>1. inst = Installed(Destination(u))
      BY <2>1 DEF Destination
    <3>2. inst' = inst
      BY <1>1, <3>1, ReplaceSame
    <3> QED BY <1>1, <2>1, <3>2
  <2>2. CASE pend[u] = "backup_complete"
    <3>1. inst = Installed(bundle[u].new) => inst' = inst
      BY <1>1, <2>2, ReplaceSame DEF Destination
    <3>2. job'.who = u /\ job'.step \in {"helper", "current", "up"} /\ marker' = "release"
      BY <1>1 DEF ReleaseSteps
    <3>3. \A v \in Bundles : pend[v] # "none" => v = u
      BY <1>1
    <3> QED BY <1>1, <2>2, <3>1, <3>2, <3>3
  <2> QED BY <1>1, <2>1, <2>2 DEF BundlePhases
<1> QED BY <1>3, <1>4, <1>5, <1>6, <1>7

LEMMA ReleaseUpKeeps == ASSUME NEW u \in Bundles, IInv, ReleaseUp(u) PROVE IInv'
<1> USE DEF IInv, TypeOK, ReleaseUp, At, Goto, release, mail, system
<1>1. JobType' BY DEF JobType, ReleaseSteps
<1>2. JournalType' BY DEF JournalType
<1>3. MailType' BY DEF MailType
<1>4. SystemType' BY DEF SystemType
<1>5. JournalInv' BY DEF JournalInv
<1>6. HoldInv' BY DEF HoldInv
<1>7. SoundInv'
  BY DEF SoundInv, HoldInv, Destination
<1>8. BaseInv' BY DEF BaseInv, BuiltFromInstalled
<1>9. TimerInv'
  BY DEF TimerInv
<1>10. BackedInv'
  BY DEF BackedInv
<1> QED BY <1>1, <1>2, <1>3, <1>4, <1>5, <1>6, <1>7, <1>8, <1>9, <1>10

LEMMA ReleaseUnmarkKeeps == ASSUME NEW u \in Bundles, IInv, ReleaseUnmark(u) PROVE IInv'
<1> USE DEF IInv, TypeOK, ReleaseUnmark, At, Goto, mail, system, release
<1>1. JobType' BY DEF JobType, ReleaseSteps
<1>2. JournalType' BY DEF JournalType
<1>3. MailType' BY DEF MailType
<1>4. SystemType' BY DEF SystemType
<1>5. JournalInv' BY DEF JournalInv
<1>6. HoldInv' BY DEF HoldInv
<1>7. SoundInv'
  BY DEF SoundInv, HoldInv, Consistent, Installed
<1>8. BaseInv' BY DEF BaseInv, BuiltFromInstalled
<1>9. TimerInv'
  BY DEF TimerInv
<1>10. BackedInv'
  <2>1. inst = Installed(Destination(u))
    BY DEF SoundInv
  <2>2. pend[u] = "backup_complete" => inst = Installed(bundle[u].new)
    BY <2>1 DEF Destination
  <2> QED BY <2>2 DEF BackedInv, JournalInv
<1> QED BY <1>1, <1>2, <1>3, <1>4, <1>5, <1>6, <1>7, <1>8, <1>9, <1>10

LEMMA ReleasePassKeeps == ASSUME NEW u \in Bundles, IInv, ReleasePass(u) PROVE IInv'
<1> USE DEF IInv, TypeOK, ReleasePass, At, Goto, mail, Refused, Leaves, PassStarts, system,
            release
<1>1. JobType' BY DEF JobType, ReleaseSteps
<1>2. JournalType' BY DEF JournalType
<1>3. MailType' BY DEF MailType
<1>4. SystemType' BY DEF SystemType
<1>5. JournalInv' BY DEF JournalInv, JobType
<1>6. HoldInv' BY DEF HoldInv, JobType
<1>7. SoundInv'
  BY DEF SoundInv, JobType, Consistent
<1>8. BaseInv' BY DEF BaseInv, BuiltFromInstalled, JobType
<1>9. TimerInv'
  BY DEF TimerInv, JobType
<1>10. BackedInv'
  BY DEF BackedInv, JobType
<1> QED BY <1>1, <1>2, <1>3, <1>4, <1>5, <1>6, <1>7, <1>8, <1>9, <1>10

LEMMA ReleasePassedKeeps == ASSUME NEW u \in Bundles, IInv, ReleasePassed(u) PROVE IInv'
<1> USE DEF IInv, TypeOK, ReleasePassed, At, Goto, Leaves, mail, system, release
<1>1. JobType' BY DEF JobType, ReleaseSteps
<1>2. JournalType' BY DEF JournalType
<1>3. MailType' BY DEF MailType
<1>4. SystemType' BY DEF SystemType
<1>5. JournalInv' BY DEF JournalInv, JobType
<1>6. HoldInv' BY DEF HoldInv, JobType
<1>7. SoundInv'
  BY DEF SoundInv, JobType, Consistent
<1>8. BaseInv' BY DEF BaseInv, BuiltFromInstalled, JobType
<1>9. TimerInv'
  BY DEF TimerInv, JobType
<1>10. BackedInv'
  BY DEF BackedInv, JobType
<1> QED BY <1>1, <1>2, <1>3, <1>4, <1>5, <1>6, <1>7, <1>8, <1>9, <1>10

LEMMA ReleaseEnableKeeps == ASSUME NEW u \in Bundles, IInv, ReleaseEnable(u) PROVE IInv'
<1> USE DEF IInv, TypeOK, ReleaseEnable, At, Leaves, On, Goto, mail, system, release
<1>1. JobType' BY DEF JobType, ReleaseSteps
<1>2. JournalType' BY DEF JournalType
<1>3. MailType'
  <2>1. On \in [file : {"enabled", "masked", "disabled"}, ticking : BOOLEAN]
    OBVIOUS
  <2>2. timers' \in {timers, On}
    <3>1. CASE timers.file = "masked" BY <3>1
    <3>2. CASE timers.file # "masked" BY <3>2
    <3> QED BY <3>1, <3>2
  <2> HIDE DEF On
  <2> QED BY <2>1, <2>2 DEF MailType
<1>4. SystemType' BY DEF SystemType
<1>5. JournalInv' BY DEF JournalInv, JobType
<1>6. HoldInv' BY DEF HoldInv, JobType
<1>7. SoundInv'
  BY DEF SoundInv, JobType, Consistent
<1>8. BaseInv' BY DEF BaseInv, BuiltFromInstalled, JobType
<1>9. TimerInv' BY DEF TimerInv, JobType
<1>10. BackedInv'
  BY DEF BackedInv, JobType
<1> QED BY <1>1, <1>2, <1>3, <1>4, <1>5, <1>6, <1>7, <1>8, <1>9, <1>10

LEMMA ReleaseUnlinkKeeps == ASSUME NEW u \in Bundles, IInv, ReleaseUnlink(u) PROVE IInv'
<1> USE DEF IInv, TypeOK, ReleaseUnlink, At, Records, NoBundle, First, Goto, Leaves, mail,
            system, release
<1>1. JobType' BY DEF JobType, ReleaseSteps
<1>2. JournalType' BY DEF JournalType, Releases
<1>3. MailType' BY DEF MailType
<1>4. SystemType' BY DEF SystemType
<1>5. JournalInv' BY DEF JournalInv, JobType
<1>6. HoldInv' BY DEF HoldInv, JobType
<1>7. SoundInv'
  BY DEF SoundInv, JobType, Consistent
<1>8. BaseInv' BY DEF BaseInv, BuiltFromInstalled, JobType, JournalType
<1>9. TimerInv'
  BY DEF TimerInv, JobType
<1>10. BackedInv'
  BY DEF BackedInv, JobType, JournalType
<1> QED BY <1>1, <1>2, <1>3, <1>4, <1>5, <1>6, <1>7, <1>8, <1>9, <1>10

LEMMA ReleaseRecoverKeeps == ASSUME NEW u \in Bundles, IInv, ReleaseRecover(u) PROVE IInv'
<1> USE DEF IInv, TypeOK, ReleaseRecover, Others, mail, system, release
<1>1. JobType' BY DEF JobType, ReleaseSteps
<1>2. JournalType' BY DEF JournalType
<1>3. MailType' BY DEF MailType
<1>4. SystemType' BY DEF SystemType
<1>5. JournalInv' BY DEF JournalInv
<1>6. HoldInv' BY DEF HoldInv
<1>7. SoundInv'
  BY DEF SoundInv, Consistent
<1>8. BaseInv' BY DEF BaseInv, BuiltFromInstalled
<1>9. TimerInv'
  BY DEF TimerInv
<1>10. BackedInv'
  BY DEF BackedInv
<1> QED BY <1>1, <1>2, <1>3, <1>4, <1>5, <1>6, <1>7, <1>8, <1>9, <1>10

LEMMA ReleaseRelockKeeps == ASSUME NEW u \in Bundles, IInv, ReleaseRelock(u) PROVE IInv'
<1> USE DEF IInv, TypeOK, ReleaseRelock, At, Installed, Goto, Leaves, mail, system, release
<1>1. JobType' BY DEF JobType, ReleaseSteps
<1>2. JournalType' BY DEF JournalType
<1>3. MailType' BY DEF MailType
<1>4. SystemType' BY DEF SystemType
<1>5. JournalInv' BY DEF JournalInv, JobType
<1>6. HoldInv' BY DEF HoldInv, JobType
<1>7. SoundInv'
  BY DEF SoundInv, JobType, Consistent
<1>8. BaseInv' BY DEF BaseInv, BuiltFromInstalled, JobType
<1>9. TimerInv'
  BY DEF TimerInv, JobType, JournalInv
<1>10. BackedInv'
  BY DEF BackedInv, JobType
<1> QED BY <1>1, <1>2, <1>3, <1>4, <1>5, <1>6, <1>7, <1>8, <1>9, <1>10

LEMMA ApplicationStartKeeps == ASSUME IInv, ApplicationStart PROVE IInv'
<1> USE DEF IInv, TypeOK, ApplicationStart, MayBuild, Others, mail, system
<1>1. JobType' BY DEF JobType, ReleaseSteps
<1>2. JournalType' BY DEF JournalType
<1>3. MailType' BY DEF MailType
<1>4. SystemType' BY DEF SystemType, Releases
<1>5. JournalInv' BY DEF JournalInv
<1>6. HoldInv' BY DEF HoldInv
<1>7. SoundInv'
  BY DEF SoundInv, Consistent
<1>8. BaseInv' BY DEF BaseInv, BuiltFromInstalled
<1>9. TimerInv'
  BY DEF TimerInv
<1>10. BackedInv'
  BY DEF BackedInv
<1> QED BY <1>1, <1>2, <1>3, <1>4, <1>5, <1>6, <1>7, <1>8, <1>9, <1>10

LEMMA ApplicationPromoteKeeps == ASSUME IInv, ApplicationPromote PROVE IInv'
<1> USE DEF IInv, TypeOK, ApplicationPromote, At, Leaves, Goto, mail, system
<1>1. JobType' BY DEF JobType, ReleaseSteps
<1>2. JournalType' BY DEF JournalType
<1>3. MailType' BY DEF MailType
<1>4. SystemType' BY DEF SystemType, Releases
<1>5. JournalInv' BY DEF JournalInv, JobType
<1>6. HoldInv' BY DEF HoldInv, JobType
<1>7. SoundInv'
  BY DEF SoundInv, JobType, Consistent
<1>8. BaseInv' BY DEF BaseInv, BuiltFromInstalled
<1>9. TimerInv'
  BY DEF TimerInv, JobType
<1>10. BackedInv'
  BY DEF BackedInv, JobType
<1> QED BY <1>1, <1>2, <1>3, <1>4, <1>5, <1>6, <1>7, <1>8, <1>9, <1>10

LEMMA ImageStartKeeps == ASSUME IInv, ImageStart PROVE IInv'
<1> USE DEF IInv, TypeOK, ImageStart, MayBuild, Others, mail, system, release
<1>1. JobType' BY DEF JobType, ReleaseSteps
<1>2. JournalType' BY DEF JournalType
<1>3. MailType' BY DEF MailType
<1>4. SystemType' BY DEF SystemType
<1>5. JournalInv' BY DEF JournalInv
<1>6. HoldInv' BY DEF HoldInv
<1>7. SoundInv'
  BY DEF SoundInv, Consistent
<1>8. BaseInv' BY DEF BaseInv, BuiltFromInstalled
<1>9. TimerInv'
  BY DEF TimerInv
<1>10. BackedInv'
  BY DEF BackedInv
<1> QED BY <1>1, <1>2, <1>3, <1>4, <1>5, <1>6, <1>7, <1>8, <1>9, <1>10

LEMMA ImageOrphanKeeps == ASSUME IInv, ImageOrphan PROVE IInv'
<1> USE DEF IInv, TypeOK, ImageOrphan, Off, mail, system, release
<1>1. JobType' BY DEF JobType
<1>2. JournalType' BY DEF JournalType
<1>3. MailType' BY DEF MailType
<1>4. SystemType' BY DEF SystemType
<1>5. JournalInv' BY DEF JournalInv
<1>6. HoldInv' BY DEF HoldInv
<1>7. SoundInv'
  BY DEF SoundInv, Consistent
<1>8. BaseInv' BY DEF BaseInv, BuiltFromInstalled
<1>9. TimerInv'
  BY DEF TimerInv, MailType
<1>10. BackedInv'
  BY DEF BackedInv
<1> QED BY <1>1, <1>2, <1>3, <1>4, <1>5, <1>6, <1>7, <1>8, <1>9, <1>10

LEMMA ReleaseFailsKeeps == ASSUME IInv, ReleaseFails PROVE IInv'
<1> USE DEF IInv, TypeOK, ReleaseFails, Off, Leaves, mail, system, release
<1>1. JobType' BY DEF JobType
<1>2. JournalType' BY DEF JournalType
<1>3. MailType' BY DEF MailType
<1>4. SystemType' BY DEF SystemType
<1>5. JournalInv' BY DEF JournalInv
<1>6. HoldInv' BY DEF HoldInv
<1>7. SoundInv'
  BY DEF SoundInv, Consistent
<1>8. BaseInv' BY DEF BaseInv, BuiltFromInstalled
<1>9. TimerInv'
  BY DEF TimerInv, JournalInv
<1>10. BackedInv'
  BY DEF BackedInv
<1> QED BY <1>1, <1>2, <1>3, <1>4, <1>5, <1>6, <1>7, <1>8, <1>9, <1>10

-----------------------------------------------------------------------------
\* The worker, the operator, other programs and the power supply.
LEMMA TimerStartsKeeps == ASSUME IInv, TimerStarts PROVE IInv'
<1> USE DEF IInv, TypeOK, TimerStarts, PassStarts, Refused, system, release
<1>1. JobType' BY DEF JobType
<1>2. JournalType' BY DEF JournalType
<1>3. MailType' BY DEF MailType
<1>4. SystemType' BY DEF SystemType
<1>5. JournalInv' BY DEF JournalInv
<1>6. HoldInv' BY DEF HoldInv
<1>7. SoundInv'
  BY DEF SoundInv, HoldInv, Consistent
<1>8. BaseInv' BY DEF BaseInv, BuiltFromInstalled
<1>9. TimerInv'
  BY DEF TimerInv
<1>10. BackedInv'
  BY DEF BackedInv, HoldInv
<1> QED BY <1>1, <1>2, <1>3, <1>4, <1>5, <1>6, <1>7, <1>8, <1>9, <1>10

LEMMA TimerRefusedKeeps == ASSUME IInv, TimerRefused PROVE IInv'
<1> USE DEF IInv, TypeOK, TimerRefused, Refused, system, release
<1>1. JobType' BY DEF JobType
<1>2. JournalType' BY DEF JournalType
<1>3. MailType' BY DEF MailType
<1>4. SystemType' BY DEF SystemType
<1>5. JournalInv' BY DEF JournalInv
<1>6. HoldInv' BY DEF HoldInv
<1>7. SoundInv'
  BY DEF SoundInv, Consistent, Destination
<1>8. BaseInv' BY DEF BaseInv, BuiltFromInstalled
<1>9. TimerInv'
  BY DEF TimerInv
<1>10. BackedInv'
  BY DEF BackedInv
<1> QED BY <1>1, <1>2, <1>3, <1>4, <1>5, <1>6, <1>7, <1>8, <1>9, <1>10

LEMMA OperatorStartsKeeps == ASSUME IInv, OperatorStarts PROVE IInv'
<1> USE DEF IInv, TypeOK, OperatorStarts, PassStarts, Refused, system, release
<1>1. JobType' BY DEF JobType
<1>2. JournalType' BY DEF JournalType
<1>3. MailType' BY DEF MailType
<1>4. SystemType' BY DEF SystemType
<1>5. JournalInv' BY DEF JournalInv
<1>6. HoldInv' BY DEF HoldInv
<1>7. SoundInv'
  BY DEF SoundInv, HoldInv, Consistent
<1>8. BaseInv' BY DEF BaseInv, BuiltFromInstalled
<1>9. TimerInv'
  BY DEF TimerInv
<1>10. BackedInv'
  BY DEF BackedInv, HoldInv
<1> QED BY <1>1, <1>2, <1>3, <1>4, <1>5, <1>6, <1>7, <1>8, <1>9, <1>10

LEMMA PassEndsKeeps == ASSUME IInv, PassEnds PROVE IInv'
<1> USE DEF IInv, TypeOK, PassEnds, system, release
<1>1. JobType' BY DEF JobType
<1>2. JournalType' BY DEF JournalType
<1>3. MailType' BY DEF MailType
<1>4. SystemType' BY DEF SystemType
<1>5. JournalInv' BY DEF JournalInv
<1>6. HoldInv'
  BY DEF HoldInv, SoundInv
<1>7. SoundInv'
  BY DEF SoundInv, HoldInv, Consistent
<1>8. BaseInv' BY DEF BaseInv, BuiltFromInstalled
<1>9. TimerInv'
  BY DEF TimerInv, SystemType
<1>10. BackedInv'
  BY DEF BackedInv
<1> QED BY <1>1, <1>2, <1>3, <1>4, <1>5, <1>6, <1>7, <1>8, <1>9, <1>10

LEMMA ForeignMarksKeeps == ASSUME IInv, ForeignMarks PROVE IInv'
<1> USE DEF IInv, TypeOK, ForeignMarks, mail, system, release
<1>1. JobType' BY DEF JobType
<1>2. JournalType' BY DEF JournalType
<1>3. MailType' BY DEF MailType
<1>4. SystemType' BY DEF SystemType
<1>5. JournalInv' BY DEF JournalInv
<1>6. HoldInv' BY DEF HoldInv
<1>7. SoundInv'
  BY DEF SoundInv, HoldInv, Consistent
<1>8. BaseInv' BY DEF BaseInv, BuiltFromInstalled
<1>9. TimerInv'
  BY DEF TimerInv, SystemType
<1>10. BackedInv'
  BY DEF BackedInv
<1> QED BY <1>1, <1>2, <1>3, <1>4, <1>5, <1>6, <1>7, <1>8, <1>9, <1>10

LEMMA ForeignUnmarksKeeps == ASSUME IInv, ForeignUnmarks PROVE IInv'
<1> USE DEF IInv, TypeOK, ForeignUnmarks, mail, system, release
<1>1. JobType' BY DEF JobType
<1>2. JournalType' BY DEF JournalType
<1>3. MailType' BY DEF MailType
<1>4. SystemType' BY DEF SystemType
<1>5. JournalInv' BY DEF JournalInv
<1>6. HoldInv' BY DEF HoldInv
<1>7. SoundInv'
  BY DEF SoundInv, HoldInv, Consistent
<1>8. BaseInv' BY DEF BaseInv, BuiltFromInstalled
<1>9. TimerInv'
  BY DEF TimerInv
<1>10. BackedInv'
  BY DEF BackedInv
<1> QED BY <1>1, <1>2, <1>3, <1>4, <1>5, <1>6, <1>7, <1>8, <1>9, <1>10

LEMMA PowerFailsKeeps == ASSUME IInv, PowerFails PROVE IInv'
<1> USE DEF IInv, TypeOK, PowerFails, Boots, release
<1>1. JobType' BY DEF JobType
<1>2. JournalType' BY DEF JournalType
<1>3. MailType' BY DEF MailType
<1>4. SystemType'
  <2>1. rebooted' \in BOOLEAN /\ stale' \in BOOLEAN
    OBVIOUS
  <2> QED BY <2>1 DEF SystemType
<1>5. JournalInv' BY DEF JournalInv
<1>6. HoldInv' BY DEF HoldInv
<1>7. SoundInv'
  BY DEF SoundInv, Consistent
<1>8. BaseInv' BY DEF BaseInv, BuiltFromInstalled
<1>9. TimerInv'
  <2>1. timers = On => timers' = On
    <3>1. SUFFICES ASSUME timers = On PROVE timers' = On
      OBVIOUS
    <3>2. timers.file = "enabled"
      BY <3>1 DEF On
    <3>3. timers' = [timers EXCEPT !.ticking = TRUE]
      BY <3>2
    <3> QED BY <3>1, <3>3 DEF On
  <2>2. spent.foreign > 0 => spent'.foreign > 0
    BY DEF SystemType
  <2> QED BY <2>1, <2>2 DEF TimerInv
<1>10. BackedInv'
  BY DEF BackedInv
<1> QED BY <1>1, <1>2, <1>3, <1>4, <1>5, <1>6, <1>7, <1>8, <1>9, <1>10

LEMMA KilledKeeps == ASSUME IInv, Killed PROVE IInv'
<1> USE DEF IInv, TypeOK, Killed, Leaves, mail, system, release
<1>1. JobType' BY DEF JobType
<1>2. JournalType' BY DEF JournalType
<1>3. MailType' BY DEF MailType
<1>4. SystemType' BY DEF SystemType
<1>5. JournalInv' BY DEF JournalInv
<1>6. HoldInv' BY DEF HoldInv
<1>7. SoundInv'
  BY DEF SoundInv, Consistent
<1>8. BaseInv' BY DEF BaseInv, BuiltFromInstalled
<1>9. TimerInv'
  BY DEF TimerInv
<1>10. BackedInv'
  BY DEF BackedInv
<1> QED BY <1>1, <1>2, <1>3, <1>4, <1>5, <1>6, <1>7, <1>8, <1>9, <1>10

-----------------------------------------------------------------------------
\* The host as it is delivered.
LEMMA InitInv == Init => IInv
<1> SUFFICES ASSUME Init PROVE IInv
  OBVIOUS
<1> USE DEF Init, IInv, TypeOK, First, Installed, On
<1>1. First \in Releases
  BY DEF Releases
<1> USE DEF NoPlan, NoBundle
<1>2. JobType
  BY DEF JobType
<1>3. JournalType
  BY <1>1 DEF JournalType
<1>4. MailType
  BY DEF MailType
<1>5. SystemType
  <2>1. pkgs \in [Packages -> [ver : 0..MaxVersion, whole : BOOLEAN]] /\ baseline \in 0..MaxVersion
    BY MaxVersion \in Nat
  <2>2. spent \in [faults : 0..MaxFaults, manual : 0..MaxManual, foreign : 0..MaxForeign]
    BY {MaxFaults, MaxManual, MaxForeign} \subseteq Nat
  <2> QED BY <1>1, <2>1, <2>2 DEF SystemType
<1>6. JournalInv /\ HoldInv /\ SoundInv
  BY DEF JournalInv, HoldInv, SoundInv, Consistent
<1>7. BaseInv /\ TimerInv /\ BackedInv
  BY DEF BaseInv, BuiltFromInstalled, TimerInv, BackedInv
<1> QED BY <1>2, <1>3, <1>4, <1>5, <1>6, <1>7

\* A state that is left alone.
LEMMA StutterKeeps == ASSUME IInv, UNCHANGED vars PROVE IInv'
<1> USE DEF vars, mail, system, release
<1>1. (JobType /\ JournalType /\ MailType /\ SystemType)'
  BY DEF IInv, TypeOK, JobType, JournalType, MailType, SystemType
<1>2. (JournalInv /\ HoldInv /\ TimerInv)'
  BY DEF IInv, JournalInv, HoldInv, TimerInv
<1>3. (SoundInv /\ BaseInv /\ BackedInv)'
  BY DEF IInv, SoundInv, BaseInv, BackedInv, Consistent, Destination, BuiltFromInstalled
<1> QED BY <1>1, <1>2, <1>3 DEF IInv, TypeOK

\* One step of anybody.
LEMMA StepKeeps == ASSUME IInv, [Next]_vars PROVE IInv'
<1>1. ASSUME NEW u \in Packages, PackageStep(u) PROVE IInv'
  BY <1>1, PackageStartKeeps, PackageStopKeeps, PackageMaskKeeps, PackageSettleKeeps,
     PackageCaptureKeeps, PackageCapturedKeeps, PackageFenceKeeps, PackagePublishKeeps,
     PackageLinkKeeps, PackagePendKeeps, PackageAptKeeps, PackageInstalledKeeps,
     PackageClearKeeps, PackageRunKeeps, PackagePassKeeps, PackagePassedKeeps,
     PackageUnmaskKeeps, PackageRestartKeeps, PackageSettledKeeps, PackageRecoverKeeps,
     PackageResumeKeeps, PackageRefenceKeeps, PackageIntendKeeps
    DEF PackageStep
<1>2. ASSUME NEW u \in Bundles, ReleaseStep(u) PROVE IInv'
  BY <1>2, ReleasePrepareKeeps, ReleaseDisableKeeps, ReleaseWaitKeeps, ReleaseLockKeeps,
     ReleaseStopKeeps, ReleaseCaptureKeeps, ReleaseCapturedKeeps, ReleaseReplaceKeeps,
     ReleaseUpKeeps, ReleaseUnmarkKeeps, ReleasePassKeeps, ReleasePassedKeeps,
     ReleaseEnableKeeps, ReleaseUnlinkKeeps, ReleaseRecoverKeeps, ReleaseRelockKeeps
    DEF ReleaseStep
<1>3. CASE PackageUpdate \/ Reboots
  BY <1>1, <1>3, DockerVerifyKeeps, UbuntuVerifyKeeps, UbuntuActivateKeeps, RebootsKeeps
    DEF PackageUpdate
<1>4. CASE ReleaseUpdate \/ ReleaseFails
  BY <1>2, <1>4, ApplicationStartKeeps, ApplicationPromoteKeeps, ImageStartKeeps,
     ImageOrphanKeeps, ReleaseFailsKeeps
    DEF ReleaseUpdate
<1>5. CASE Environment
  BY <1>5, TimerStartsKeeps, TimerRefusedKeeps, OperatorStartsKeeps, PassEndsKeeps,
     ForeignMarksKeeps, ForeignUnmarksKeeps, PowerFailsKeeps, KilledKeeps
    DEF Environment
<1>6. CASE UNCHANGED vars
  BY <1>6, StutterKeeps
<1> QED BY <1>3, <1>4, <1>5, <1>6 DEF Next

\* The invariant holds from the first state on.
THEOREM Inductive == Spec => []IInv
<1>1. Init => IInv
  BY InitInv
<1>2. IInv /\ [Next]_vars => IInv'
  BY StepKeeps
<1> QED BY <1>1, <1>2, PTL DEF Spec

-----------------------------------------------------------------------------
(* Every variable keeps its type, whatever is interrupted and recovered by  *)
(* whom (the journals that docker/updater.py, ubuntu/updater.py,            *)
(* guardian_images.py and application/updater.py write and read).           *)
THEOREM MaintenanceTypeCorrect == Spec => []TypeOK
<1>1. IInv => TypeOK
  BY DEF IInv
<1> QED BY <1>1, Inductive, PTL

(* There is never a second journal: every updater looks for the others'     *)
(* before it opens its own, under the lock they share.                      *)
THEOREM OneJournalAtATime == Spec => []OneJournal
<1>1. ASSUME IInv PROVE OneJournal
  <2>1. CASE Pending = {}
    <3>1. Cardinality(Pending) = 0
      BY <2>1, FS_EmptySet
    <3> QED BY <3>1 DEF OneJournal
  <2>2. CASE Pending # {}
    <3>1. PICK u \in Pending : TRUE
      BY <2>2
    <3>2. Pending = {u}
      BY <1>1, <3>1 DEF Pending, IInv, JournalInv
    <3>3. Cardinality(Pending) = 1
      BY <3>2, FS_Singleton
    <3> QED BY <3>3 DEF OneJournal
  <2> QED BY <2>1, <2>2
<1> QED BY <1>1, Inductive, PTL

(* A mailbox pass meets whole packages and one release, however the job     *)
(* before it ended: what is broken is behind a marker until it is repaired. *)
THEOREM PassesAreSafe == Spec => []PassesSeeOneInstallation
<1>1. ASSUME IInv, worker = "running" PROVE PassesSeeOneInstallation
  <2>1. marker = None
    BY <1>1 DEF IInv, SoundInv
  <2>2. \A u \in Packages : pkgs[u].whole
    BY <1>1, <2>1 DEF IInv, SoundInv
  <2>3. Consistent /\ stack = [up |-> TRUE, release |-> inst.runtime]
    BY <1>1, <2>1 DEF IInv, SoundInv
  <2>4. inst.runtime = inst.current
    BY <2>3 DEF Consistent, Installed
  <2> QED BY <2>1, <2>2, <2>3, <2>4 DEF PassesSeeOneInstallation
<1>2. IInv => PassesSeeOneInstallation
  BY <1>1 DEF PassesSeeOneInstallation
<1> QED BY <1>2, Inductive, PTL

(* The application is always built from the source that is installed: an    *)
(* interrupted promotion of the baseline is made up for before the next     *)
(* build (application/updater.py, reconcile_baseline).                      *)
THEOREM BuildsFollowTheInstallation == Spec => []BuiltFromInstalled
<1>1. IInv => BuiltFromInstalled
  BY DEF IInv, BaseInv
<1> QED BY <1>1, Inductive, PTL

(* Without a journal left over, both timers run: nobody ends a job with the *)
(* mailbox forgotten, unless another program's marker was met.              *)
THEOREM SchedulesReturn == Spec => []SchedulingReturns
<1>1. IInv => SchedulingReturns
  BY DEF IInv, TimerInv, SchedulingReturns, Pending
<1> QED BY <1>1, Inductive, PTL

(* Packages and releases change only behind a recovery point that covers    *)
(* every mailbox pass so far, in an update as in every recovery.            *)
THEOREM ChangesFollowBackups == Spec => ChangesAreBackedUp
<1> DEFINE Safe == pkgs' # pkgs \/ inst' # inst => backed
<1>1. ASSUME IInv, NEW u \in Packages, PackageStep(u) PROVE Safe
  <2>1. CASE PackageApt(u) \/ PackageInstalled(u)
    BY <1>1, <2>1 DEF IInv, BackedInv, PackageApt, PackageInstalled, At
  <2>2. CASE ~(PackageApt(u) \/ PackageInstalled(u))
    <3>1. UNCHANGED <<pkgs, inst>>
      BY <1>1, <2>2
        DEF PackageStep, system, release, PackageStart, PackageStop, PackageMask,
            PackageSettle, PackageCapture, PackageCaptured, PackageFence, PackagePublish,
            PackageLink, PackagePend, PackageClear, PackageRun, PackagePass,
            PackagePassed, PackageUnmask, PackageRestart, PackageSettled, PackageRecover,
            PackageResume, PackageRefence, PackageIntend
    <3> QED BY <3>1
  <2> QED BY <2>1, <2>2
<1>2. ASSUME IInv, NEW u \in Bundles, ReleaseReplace(u) PROVE Safe
  <2>1. PICK part \in {"runtime", "helper", "current"} :
          /\ job.who = u /\ job.step = part /\ pkgs' = pkgs
          /\ inst' = [inst EXCEPT ![part] = Destination(u)]
    BY <1>2 DEF ReleaseReplace, AfterPart, At, system
  <2>2. pend[u] \in BundlePhases
    BY <1>2, <2>1 DEF IInv, TypeOK, JournalType, JournalInv
  <2>3. CASE pend[u] = "prepared"
    <3>1. inst = Installed(Destination(u))
      BY <1>2, <2>3 DEF IInv, BackedInv, Destination
    <3>2. inst' = inst
      BY <2>1, <3>1, ReplaceSame
    <3> QED BY <2>1, <3>2
  <2>4. CASE pend[u] = "backup_complete"
    <3>1. inst = Installed(Destination(u)) \/ backed
      BY <1>2, <2>4 DEF IInv, BackedInv, Destination
    <3>2. inst = Installed(Destination(u)) => inst' = inst
      BY <2>1, ReplaceSame
    <3> QED BY <2>1, <3>1, <3>2
  <2> QED BY <2>2, <2>3, <2>4 DEF BundlePhases
<1>3. ASSUME IInv, NEW u \in Bundles, ReleaseStep(u), ~ReleaseReplace(u) PROVE Safe
  <2>1. UNCHANGED <<pkgs, inst>>
    BY <1>3
      DEF ReleaseStep, system, release, ReleasePrepare, ReleaseDisable, ReleaseWait,
          ReleaseLock, ReleaseStop, ReleaseCapture, ReleaseCaptured, ReleaseUp,
          ReleaseUnmark, ReleasePass, ReleasePassed, ReleaseEnable, ReleaseUnlink,
          ReleaseRecover, ReleaseRelock
  <2> QED BY <2>1
<1>4. ASSUME DockerVerify \/ UbuntuVerify \/ UbuntuActivate \/ Reboots PROVE Safe
  BY <1>4 DEF DockerVerify, UbuntuVerify, UbuntuActivate, Reboots, Boots, system, release
<1>5. ASSUME ApplicationStart \/ ApplicationPromote \/ ImageStart \/ ImageOrphan \/ ReleaseFails PROVE Safe
  BY <1>5
    DEF ApplicationStart, ApplicationPromote, ImageStart, ImageOrphan, ReleaseFails,
        system, release
<1>6. ASSUME Environment PROVE Safe
  BY <1>6
    DEF Environment, TimerStarts, TimerRefused, OperatorStarts, PassEnds, ForeignMarks,
        ForeignUnmarks, PowerFails, Boots, Killed, system, release
<1>7. ASSUME IInv, Next PROVE Safe
  <2> HIDE DEF Safe
  <2> QED BY <1>1, <1>2, <1>3, <1>4, <1>5, <1>6, <1>7 DEF Next, PackageUpdate, ReleaseUpdate
<1>8. IInv /\ [Next]_vars => [Safe]_vars
  BY <1>7
<1> QED BY <1>8, Inductive, PTL DEF Spec, ChangesAreBackedUp
=============================================================================
