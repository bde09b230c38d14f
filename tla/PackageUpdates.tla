---------------------------- MODULE PackageUpdates ----------------------------
(***************************************************************************)
(* The Docker and the Ubuntu package updater (docker/updater.py and        *)
(* ubuntu/updater.py of simple-updates).  The Ubuntu updater borrows most  *)
(* steps from the Docker one; where they differ, a conjunct names the      *)
(* updater.                                                                *)
(***************************************************************************)
EXTENDS UpdateHost

\* Journal phases, and the journals that automatic recovery takes up.
PackagePhases ==
  {"masking_timers", "backup", "publishing_marker", "mutation_pending", "activation_pending",
   "reboot_requested", "unfence_intent", "guardian_run", "restoring_timers"}
Before ==
  [docker |-> {"masking_timers", "backup"},
   ubuntu |-> {"masking_timers", "backup", "publishing_marker"}]
After ==
  [docker |-> {"mutation_pending", "unfence_intent", "guardian_run", "restoring_timers"},
   ubuntu |-> {"mutation_pending", "activation_pending", "reboot_requested", "unfence_intent",
               "guardian_run", "restoring_timers"}]

Writes(u, phase) == pend' = [pend EXCEPT ![u] = phase]

\* The installed packages are the old ones, or exactly the planned ones.
Untouched(u) == pkgs[u] = [ver |-> plan[u].old, whole |-> TRUE]
Complete(u) == pkgs[u] = [ver |-> plan[u].new, whole |-> TRUE]

-----------------------------------------------------------------------------
\* An update (execute)

\* candidates and apt_plan: Docker needs a newer package; Ubuntu has work
\* without one if an activation waits or the operator asks for a rehearsal.
DockerPlans ==
  {[old |-> v, new |-> v + 1, rehearsal |-> FALSE] : v \in {pkgs["docker"].ver}}
UbuntuPlans ==
  LET v == pkgs["ubuntu"].ver IN
  {[old |-> v, new |-> v + 1, rehearsal |-> FALSE], [old |-> v, new |-> v, rehearsal |-> TRUE]}
    \cup (IF stale THEN {[old |-> v, new |-> v, rehearsal |-> FALSE]} ELSE {})
Plans(u) ==
  {p \in (IF u = "docker" THEN DockerPlans ELSE UbuntuPlans) : p.new <= MaxVersion}  \* bound

\* Nothing asks for a reboot: needrestart finds no stale service or kernel.
ActivationClean == ~stale

\* No other journal, no marker, work to do, enabled running timers and
\* healthy containers.
\* The journal is durable before the timers are touched.
PackageStart(u) ==
  /\ job.who = None /\ Others(u) = {} /\ pend[u] = "none" /\ marker = None
  /\ timers = On /\ stack.up /\ pkgs[u].whole
  /\ \E p \in Plans(u) : plan' = [plan EXCEPT ![u] = p]
  /\ Writes(u, "masking_timers")
  /\ rebooted' = FALSE
  /\ job' = [who |-> u, step |-> "stop", again |-> FALSE]
  /\ UNCHANGED <<bundle, marker, timers, fence, mail, pkgs, stale, release, spent>>

PackageStop(u) ==
  /\ At(u, "stop") /\ Goto("mask")
  /\ timers' = [timers EXCEPT !.ticking = FALSE]
  /\ UNCHANGED <<pend, plan, bundle, marker, fence, mail, system, release, spent>>

PackageMask(u) ==
  /\ At(u, "mask") /\ Goto("settle")
  /\ timers' = [timers EXCEPT !.file = "masked"]
  /\ UNCHANGED <<pend, plan, bundle, marker, fence, mail, system, release, spent>>

\* wait_inactive: a failed worker ends the job.
PackageSettle(u) ==
  /\ At(u, "settle")
  /\ \/ worker = "idle" /\ Goto("capture") /\ unchanged' = TRUE /\ UNCHANGED fence
     \/ worker = "failed" /\ Leaves /\ UNCHANGED unchanged
  /\ UNCHANGED <<pend, plan, bundle, marker, timers, worker, backed, system, release, spent>>

\* fresh_backup runs the backup unit, which needs the fence and no marker.
PackageCapture(u) ==
  /\ At(u, "capture")
  /\ IF fence = None /\ marker = None
       THEN backed' = TRUE /\ Goto("captured") /\ UNCHANGED fence
       ELSE Leaves /\ UNCHANGED backed
  /\ UNCHANGED <<pend, plan, bundle, marker, timers, worker, unchanged, system, release, spent>>

PackageCaptured(u) ==
  /\ At(u, "captured") /\ Goto("fence")
  /\ Writes(u, "backup")
  /\ UNCHANGED <<plan, bundle, marker, timers, fence, mail, system, release, spent>>

\* Mutant: the worker's evidence is not compared behind the fence.
PackageFenceOnly(u) ==
  /\ At(u, "fence")
  /\ IF fence = None /\ worker = "idle" /\ Untouched(u)
       THEN fence' = "update" /\ Goto("publish")
       ELSE Leaves
  /\ UNCHANGED <<pend, plan, bundle, marker, timers, mail, system, release, spent>>

\* acquire_fence does not wait; behind it nothing may have changed.
PackageFence(u) ==
  /\ At(u, "fence")
  /\ IF fence = None /\ worker = "idle" /\ unchanged /\ Untouched(u)
       THEN fence' = "update" /\ Goto("publish")
       ELSE Leaves
  /\ UNCHANGED <<pend, plan, bundle, marker, timers, mail, system, release, spent>>

PackagePublish(u) ==
  /\ At(u, "publish") /\ Goto("link")
  /\ Writes(u, "publishing_marker")
  /\ UNCHANGED <<plan, bundle, marker, timers, fence, mail, system, release, spent>>

PackageLink(u) ==
  /\ At(u, "link")
  /\ IF marker = None THEN marker' = u /\ Goto("pend") /\ UNCHANGED fence
                      ELSE Leaves /\ UNCHANGED marker
  /\ UNCHANGED <<pend, plan, bundle, timers, mail, system, release, spent>>

PackagePend(u) ==
  /\ At(u, "pend") /\ Goto(IF plan[u].new = plan[u].old THEN "verify" ELSE "apt")
  /\ Writes(u, "mutation_pending")
  /\ UNCHANGED <<plan, bundle, marker, timers, fence, mail, system, release, spent>>

\* APT changes the packages; what it leaves when it is killed is not whole.
PackageApt(u) ==
  /\ At(u, "apt") /\ Goto("unpacking")
  /\ pkgs' = [pkgs EXCEPT ![u].whole = FALSE]
  /\ UNCHANGED <<pend, plan, bundle, marker, timers, fence, mail, rebooted, stale, release, spent>>

PackageInstalled(u) ==
  /\ At(u, "unpacking") /\ Goto("verify")
  /\ pkgs' = [pkgs EXCEPT ![u] = [ver |-> plan[u].new, whole |-> TRUE]]
  /\ stale' \in IF u = "ubuntu" THEN BOOLEAN ELSE {stale}
  /\ UNCHANGED <<pend, plan, bundle, marker, timers, fence, mail, rebooted, release, spent>>

\* Docker: inventory and health, and the intent to open the fence.
DockerVerify ==
  /\ At("docker", "verify")
  /\ IF Complete("docker") /\ stack.up
       THEN Writes("docker", "unfence_intent") /\ Goto("clear") /\ UNCHANGED fence
       ELSE Leaves /\ UNCHANGED pend
  /\ UNCHANGED <<plan, bundle, marker, timers, mail, system, release, spent>>

\* Ubuntu: inventory, then activation without a reboot or with one.
UbuntuVerify ==
  /\ At("ubuntu", "verify")
  /\ IF Complete("ubuntu") THEN Writes("ubuntu", "activation_pending") /\ Goto("activate") /\ UNCHANGED fence
                           ELSE Leaves /\ UNCHANGED pend
  /\ UNCHANGED <<plan, bundle, marker, timers, mail, system, release, spent>>

RequestReboot == Writes("ubuntu", "reboot_requested") /\ Leaves

\* needrestart may fail; a clean activation goes on with recover_locked.
UbuntuActivate ==
  /\ At("ubuntu", "activate")
  /\ \/ RequestReboot
     \/ /\ ActivationClean /\ ~plan["ubuntu"].rehearsal
        /\ job' = [who |-> "ubuntu", step |-> "resume", again |-> TRUE]
        /\ fence' = None /\ UNCHANGED pend
  /\ UNCHANGED <<plan, bundle, marker, timers, mail, system, release, spent>>

\* The reboot that was asked for comes.
Reboots ==
  /\ pend["ubuntu"] = "reboot_requested" /\ ~rebooted
  /\ Boots /\ UNCHANGED spent

-----------------------------------------------------------------------------
\* The end of an update and of a recovery

\* clear_own_marker.  An update releases the fence, then records the run; a
\* recovery records it first.
PackageClear(u) ==
  /\ At(u, "clear") /\ Goto("run")
  /\ marker' = IF marker = u THEN None ELSE marker
  /\ fence' = IF job.again THEN fence ELSE None
  /\ UNCHANGED <<pend, plan, bundle, timers, mail, system, release, spent>>

PackageRun(u) ==
  /\ At(u, "run") /\ Goto("pass")
  /\ Writes(u, "guardian_run")
  /\ fence' = IF fence = "update" THEN None ELSE fence
  /\ UNCHANGED <<plan, bundle, marker, timers, mail, system, release, spent>>

\* run_worker: start (or join) a pass and verify that it succeeded.
PackagePass(u) ==
  /\ At(u, "pass")
  /\ IF worker = "running" THEN Goto("passing") /\ UNCHANGED <<fence, mail>>
     ELSE IF Refused THEN Leaves /\ worker' = "failed" /\ UNCHANGED <<backed, unchanged>>
     ELSE PassStarts /\ Goto("passing")
  /\ UNCHANGED <<pend, plan, bundle, marker, timers, system, release, spent>>

PackagePassed(u) ==
  /\ At(u, "passing") /\ worker # "running"
  /\ IF worker = "idle" THEN Writes(u, "restoring_timers") /\ Goto("unmask") /\ UNCHANGED fence
                        ELSE Leaves /\ UNCHANGED pend
  /\ UNCHANGED <<plan, bundle, marker, timers, mail, system, release, spent>>

\* Mutant: the unmasked timers are not started.
PackageUnmaskOnly(u) ==
  /\ At(u, "unmask") /\ Goto("settled")
  /\ timers' = [timers EXCEPT !.file = "enabled"]
  /\ fence' = IF fence = "update" THEN None ELSE fence
  /\ UNCHANGED <<pend, plan, bundle, marker, mail, system, release, spent>>

\* restore_timers, and the same two steps after an interruption before dpkg,
\* where the fence is held over the first.
PackageUnmask(u) ==
  /\ At(u, "unmask")
  /\ IF timers.file \in {"enabled", "masked"}
       THEN /\ timers' = [timers EXCEPT !.file = "enabled"]
            /\ Goto("restart") /\ fence' = IF fence = "update" THEN None ELSE fence
       ELSE Leaves /\ UNCHANGED timers
  /\ UNCHANGED <<pend, plan, bundle, marker, mail, system, release, spent>>

PackageRestart(u) ==
  /\ At(u, "restart") /\ Goto("settled")
  /\ timers' = [timers EXCEPT !.ticking = TRUE]
  /\ UNCHANGED <<pend, plan, bundle, marker, fence, mail, system, release, spent>>

PackageSettled(u) ==
  /\ At(u, "settled") /\ Leaves
  /\ Writes(u, "none") /\ plan' = [plan EXCEPT ![u] = NoPlan]
  /\ rebooted' = FALSE
  /\ UNCHANGED <<bundle, marker, timers, mail, pkgs, stale, release, spent>>

-----------------------------------------------------------------------------
\* Recovery (recover_pre_mutation_locked, recover_forward_locked, recover_locked)

Masked == timers.file = "masked"

\* What a recovery demands before it waits for the worker.
Resumable(u) ==
  IF u = "docker"
    THEN \/ pend[u] \in Before[u] /\ marker = None /\ Untouched(u)
         \/ pend[u] \in After[u] /\ (Masked \/ pend[u] = "restoring_timers")
    ELSE /\ pend[u] \in Before[u] => Untouched(u)
         /\ pend[u] \in After[u] => Complete(u)
         /\ Masked \/ pend[u] \in {"masking_timers", "restoring_timers"}

PackageRecover(u) ==
  /\ job.who = None /\ Others(u) = {} /\ pend[u] # "none"
  /\ Resumable(u)
  /\ job' = [who |-> u, step |-> "resume", again |-> TRUE]
  /\ UNCHANGED <<pend, plan, bundle, marker, timers, fence, mail, system, release, spent>>

\* Mutant: a failed worker ends every recovery.
PackageResumeOnce(u) ==
  /\ At(u, "resume") /\ worker # "running"
  /\ IF worker = "failed" THEN Leaves ELSE Goto("refence") /\ UNCHANGED fence
  /\ UNCHANGED <<pend, plan, bundle, marker, timers, mail, system, release, spent>>

\* The worker is waited for.  A failed one is reset, except by Docker's
\* recovery before dpkg, which gives up.
PackageResume(u) ==
  /\ At(u, "resume") /\ worker # "running"
  /\ IF worker = "failed" /\ u = "docker" /\ pend[u] \in Before[u]
       THEN Leaves /\ UNCHANGED worker
       ELSE Goto("refence") /\ worker' = "idle" /\ UNCHANGED fence
  /\ UNCHANGED <<pend, plan, bundle, marker, timers, backed, unchanged, system, release, spent>>

\* The marker that must be there, or must not.
MarkerFits(u) ==
  /\ marker \in {None, u}
  /\ marker = None => pend[u] \notin {"mutation_pending", "activation_pending", "reboot_requested"}
  /\ marker = u => /\ u = "docker" => pend[u] \notin Before[u] \cup {"guardian_run", "restoring_timers"}

\* Mutant: the inventory is not compared again.
FencedUnchecked(u) ==
  /\ fence = None /\ worker = "idle" /\ MarkerFits(u) /\ stack.up

Fenced(u) ==
  /\ fence = None /\ worker = "idle" /\ MarkerFits(u) /\ stack.up
  /\ IF pend[u] \in Before[u] THEN Untouched(u) ELSE Complete(u)

\* Ubuntu: the reboot was asked for, or is still needed.
Activating == pend["ubuntu"] \in {"mutation_pending", "activation_pending", "reboot_requested"}
MustReboot ==
  /\ Activating /\ ~rebooted
  /\ pend["ubuntu"] = "reboot_requested" \/ plan["ubuntu"].rehearsal \/ ~ActivationClean

\* Docker only restores the timers when dpkg has not started or the pass has
\* been verified; everything else opens the fence and runs a pass (again).
AfterFence(u) ==
  CASE u = "docker" /\ pend[u] \in Before[u] \cup {"restoring_timers"} -> "unmask"
    [] u = "docker" /\ pend[u] \in After[u] \ {"restoring_timers"} /\ marker = None -> "run"
    [] OTHER -> "intend"

PackageRefence(u) ==
  /\ At(u, "refence")
  /\ IF ~Fenced(u) THEN Leaves /\ UNCHANGED pend
     ELSE IF u = "ubuntu" /\ MustReboot THEN RequestReboot
     ELSE /\ fence' = IF u = "docker" /\ pend[u] = "restoring_timers" THEN None ELSE "update"
          /\ UNCHANGED pend
          /\ Goto(AfterFence(u))
  /\ UNCHANGED <<plan, bundle, marker, timers, mail, system, release, spent>>

\* unfence_intent is written, and with it that nothing was installed.
PackageIntend(u) ==
  /\ At(u, "intend") /\ Goto("clear")
  /\ Writes(u, "unfence_intent")
  /\ plan' = IF pend[u] \in Before[u] THEN [plan EXCEPT ![u].new = plan[u].old] ELSE plan
  /\ UNCHANGED <<bundle, marker, timers, fence, mail, system, release, spent>>

PackageStep(u) ==
  \/ PackageStart(u) \/ PackageStop(u) \/ PackageMask(u) \/ PackageSettle(u)
  \/ PackageCapture(u) \/ PackageCaptured(u) \/ PackageFence(u) \/ PackagePublish(u)
  \/ PackageLink(u) \/ PackagePend(u) \/ PackageApt(u) \/ PackageInstalled(u)
  \/ PackageClear(u) \/ PackageRun(u) \/ PackagePass(u) \/ PackagePassed(u)
  \/ PackageUnmask(u) \/ PackageRestart(u) \/ PackageSettled(u)
  \/ PackageRecover(u) \/ PackageResume(u) \/ PackageRefence(u) \/ PackageIntend(u)

PackageUpdate == (\E u \in Packages : PackageStep(u)) \/ DockerVerify \/ UbuntuVerify \/ UbuntuActivate
=============================================================================
