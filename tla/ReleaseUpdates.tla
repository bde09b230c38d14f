---------------------------- MODULE ReleaseUpdates ----------------------------
(***************************************************************************)
(* The updater of Guardian's container images (guardian_images.py) and the *)
(* one of its application (application/updater.py), which borrows the      *)
(* installation, the recovery and the journal format of the first.         *)
(*                                                                         *)
(* Building, qualifying and hashing a release is abstracted to the release *)
(* it yields; a release is the pair of an image version and an application *)
(* version.  Three files say what is installed: the Compose file, the      *)
(* maintenance helper and the link to the current release.                 *)
(***************************************************************************)
EXTENDS UpdateHost

BundlePhases == {"prepared", "backup_complete"}

Records(u, phase) == pend' = [pend EXCEPT ![u] = phase]

-----------------------------------------------------------------------------
\* An update (execute, make_release, activate)

\* Mutant: only the updater's own journal is looked for.
MayBuildBeside(u) ==
  /\ job.who = None /\ pend[u] = "none" /\ marker = None

MayBuild(u) ==
  /\ job.who = None /\ Others(u) = {} /\ pend[u] = "none" /\ marker = None

\* Mutant: an interrupted promotion is not made up for.
ApplicationStartStale ==
  /\ MayBuild("application")
  /\ job' = [who |-> "application", step |-> "build", again |-> FALSE]
  /\ UNCHANGED <<pend, plan, bundle, marker, timers, fence, mail, system, release, spent>>

\* The application updater first finishes an interrupted promotion.
ApplicationStart ==
  /\ MayBuild("application")
  /\ baseline' = inst.current.application
  /\ job' = [who |-> "application", step |-> "build", again |-> FALSE]
  /\ UNCHANGED <<pend, plan, bundle, marker, timers, fence, mail, system, inst, stack, spent>>

ImageStart ==
  /\ MayBuild("image")
  /\ job' = [who |-> "image", step |-> "build", again |-> FALSE]
  /\ UNCHANGED <<pend, plan, bundle, marker, timers, fence, mail, system, release, spent>>

\* make_release: the new release replaces the updater's own part of the
\* installed one; the application is built from the approved baseline.
NewImages == [inst.current EXCEPT !.image = @ + 1]
NewApplication == [inst.current EXCEPT !.application = baseline + 1]
Built(u) == IF u = "image" THEN NewImages ELSE NewApplication

\* The journal is durable before the timers are touched.
ReleasePrepare(u) ==
  /\ At(u, "build")
  /\ IF Consistent /\ Built(u) \in Releases
       THEN /\ bundle' = [bundle EXCEPT ![u] = [old |-> inst.current, new |-> Built(u)]]
            /\ Records(u, "prepared") /\ Goto("disable") /\ UNCHANGED fence
       ELSE Leaves /\ UNCHANGED <<pend, bundle>>
  /\ UNCHANGED <<plan, marker, timers, mail, system, release, spent>>

\* rehearse_current.py installs the current release again, as image updater.
Rehearse ==
  /\ job.who = None /\ marker = None /\ pend["image"] = "none" /\ Consistent
  /\ bundle' = [bundle EXCEPT !["image"] = [old |-> inst.current, new |-> inst.current]]
  /\ Records("image", "prepared")
  /\ job' = [who |-> "image", step |-> "disable", again |-> FALSE]
  /\ UNCHANGED <<plan, marker, timers, fence, mail, system, release, spent>>

-----------------------------------------------------------------------------
\* The installation (locked_update) and its recovery (recover_pending)

\* Disabling leaves a mask in place.
ReleaseDisable(u) ==
  /\ At(u, "disable") /\ Goto("wait")
  /\ timers' = IF timers.file = "masked" THEN [timers EXCEPT !.ticking = FALSE] ELSE Off
  /\ UNCHANGED <<pend, plan, bundle, marker, fence, mail, system, release, spent>>

\* A failed worker counts as finished here.
ReleaseWait(u) ==
  /\ At(u, "wait") /\ worker # "running" /\ Goto("lock")
  /\ UNCHANGED <<pend, plan, bundle, marker, timers, fence, mail, system, release, spent>>

\* flock waits for the fence; then nothing may have changed.
ReleaseLock(u) ==
  /\ At(u, "lock") /\ ~job.again
  /\ fence = None
  /\ IF inst = Installed(bundle[u].old) /\ marker = None
       THEN fence' = "update" /\ marker' = "release" /\ Goto("stopping")
       ELSE Leaves /\ UNCHANGED marker
  /\ UNCHANGED <<pend, plan, bundle, timers, mail, system, release, spent>>

\* deep-check, then the scanner and the resolver stop.
ReleaseStop(u) ==
  /\ At(u, "stopping")
  /\ IF stack.up \/ job.again
       THEN stack' = [stack EXCEPT !.up = FALSE] /\ Goto(IF job.again THEN "runtime" ELSE "capture")
            /\ UNCHANGED fence
       ELSE Leaves /\ UNCHANGED stack
  /\ UNCHANGED <<pend, plan, bundle, marker, timers, mail, system, inst, baseline, spent>>

\* save_backup: database, archive, model and volumes under the same fence.
ReleaseCapture(u) ==
  /\ At(u, "capture") /\ Goto("captured")
  /\ backed' = TRUE
  /\ UNCHANGED <<pend, plan, bundle, marker, timers, fence, worker, unchanged, system, release, spent>>

ReleaseCaptured(u) ==
  /\ At(u, "captured") /\ Goto("runtime")
  /\ Records(u, "backup_complete")
  /\ UNCHANGED <<plan, bundle, marker, timers, fence, mail, system, release, spent>>

\* replace_current: the Compose file, the helper, the link.
Destination(u) == IF pend[u] = "prepared" THEN bundle[u].old ELSE bundle[u].new
AfterPart == [runtime |-> "helper", helper |-> "current", current |-> "up"]

ReleaseReplace(u) ==
  \E part \in DOMAIN AfterPart :
    /\ At(u, part) /\ Goto(AfterPart[part])
    /\ inst' = [inst EXCEPT ![part] = Destination(u)]
    /\ UNCHANGED <<pend, plan, bundle, marker, timers, fence, mail, system, stack, baseline, spent>>

\* up and deep-check, with the helper just installed.
ReleaseUp(u) ==
  /\ At(u, "up") /\ Goto("unmark")
  /\ stack' = [up |-> TRUE, release |-> inst.runtime]
  /\ UNCHANGED <<pend, plan, bundle, marker, timers, fence, mail, system, inst, baseline, spent>>

\* durable_unlink of the marker; then the locks are given back.
ReleaseUnmark(u) ==
  /\ At(u, "unmark") /\ Goto("pass")
  /\ marker' = None /\ fence' = None
  /\ UNCHANGED <<pend, plan, bundle, timers, mail, system, release, spent>>

\* SSH is checked and one pass has to succeed.
ReleasePass(u) ==
  /\ At(u, "pass")
  /\ IF worker = "running" THEN Goto("passing") /\ UNCHANGED <<fence, mail>>
     ELSE IF Refused THEN Leaves /\ worker' = "failed" /\ UNCHANGED <<backed, unchanged>>
     ELSE PassStarts /\ Goto("passing")
  /\ UNCHANGED <<pend, plan, bundle, marker, timers, system, release, spent>>

ReleasePassed(u) ==
  /\ At(u, "passing") /\ worker # "running"
  /\ IF worker = "idle" THEN Goto("enable") /\ UNCHANGED fence ELSE Leaves
  /\ UNCHANGED <<pend, plan, bundle, marker, timers, mail, system, release, spent>>

\* A masked timer cannot be enabled.
ReleaseEnable(u) ==
  /\ At(u, "enable")
  /\ IF timers.file = "masked" THEN Leaves /\ UNCHANGED timers
     ELSE /\ timers' = On /\ UNCHANGED fence
          /\ Goto(IF u = "application" /\ ~job.again THEN "promote" ELSE "unlink")
  /\ UNCHANGED <<pend, plan, bundle, marker, mail, system, release, spent>>

ReleaseUnlink(u) ==
  /\ At(u, "unlink")
  /\ Records(u, "none") /\ bundle' = [bundle EXCEPT ![u] = NoBundle]
  /\ IF u = "application" /\ job.again THEN Goto("promote") /\ UNCHANGED fence ELSE Leaves
  /\ UNCHANGED <<plan, marker, timers, mail, system, release, spent>>

\* promote_from_current: the installed source becomes the approved baseline;
\* in an update before the journal goes, in a recovery after.
ApplicationPromote ==
  /\ At("application", "promote")
  /\ baseline' = inst.current.application
  /\ IF job.again THEN Leaves ELSE Goto("unlink") /\ UNCHANGED fence
  /\ UNCHANGED <<pend, plan, bundle, marker, timers, mail, system, inst, stack, spent>>

\* An exception inside an update leaves the timers disabled.
ReleaseFails ==
  /\ job.who \in Bundles /\ ~job.again /\ job.step # "build"
  /\ spent.faults < MaxFaults /\ spent' = [spent EXCEPT !.faults = @ + 1]
  /\ timers' = IF timers.file = "masked" THEN [timers EXCEPT !.ticking = FALSE] ELSE Off
  /\ Leaves
  /\ UNCHANGED <<pend, plan, bundle, marker, mail, system, release>>

-----------------------------------------------------------------------------
\* Recovery

ReleaseRecover(u) ==
  /\ job.who = None /\ Others(u) = {} /\ pend[u] # "none"
  /\ job' = [who |-> u, step |-> "disable", again |-> TRUE]
  /\ UNCHANGED <<pend, plan, bundle, marker, timers, fence, mail, system, release, spent>>

\* The marker of either release updater is taken over, a missing one is
\* published again; before the backup nothing may have been replaced.
ReleaseRelock(u) ==
  /\ At(u, "lock") /\ job.again
  /\ fence = None
  /\ IF marker \in {None, "release"} /\ (pend[u] = "prepared" => inst = Installed(bundle[u].old))
       THEN fence' = "update" /\ marker' = "release" /\ Goto("stopping")
       ELSE Leaves /\ UNCHANGED marker
  /\ UNCHANGED <<pend, plan, bundle, timers, mail, system, release, spent>>

\* A marker without any journal: the image updater stops the timers, waits and
\* leaves the rest to an inspection.
ImageOrphan ==
  /\ job.who = None /\ \A u \in Updaters : pend[u] = "none"
  /\ marker # None
  /\ timers' = IF timers.file = "masked" THEN [timers EXCEPT !.ticking = FALSE] ELSE Off
  /\ UNCHANGED <<job, pend, plan, bundle, marker, fence, mail, system, release, spent>>

ReleaseStep(u) ==
  \/ ReleasePrepare(u) \/ ReleaseDisable(u) \/ ReleaseWait(u) \/ ReleaseLock(u)
  \/ ReleaseStop(u) \/ ReleaseCapture(u) \/ ReleaseCaptured(u) \/ ReleaseReplace(u)
  \/ ReleaseUp(u) \/ ReleaseUnmark(u) \/ ReleasePass(u) \/ ReleasePassed(u)
  \/ ReleaseEnable(u) \/ ReleaseUnlink(u) \/ ReleaseRecover(u) \/ ReleaseRelock(u)

ReleaseUpdate ==
  \/ \E u \in Bundles : ReleaseStep(u)
  \/ ApplicationStart \/ ApplicationPromote \/ ImageStart \/ ImageOrphan
=============================================================================
