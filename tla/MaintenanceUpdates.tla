-------------------------- MODULE MaintenanceUpdates --------------------------
(***************************************************************************)
(* The four updaters on one host.                                          *)
(***************************************************************************)
EXTENDS PackageUpdates, ReleaseUpdates

Next == PackageUpdate \/ Reboots \/ ReleaseUpdate \/ ReleaseFails \/ Environment

Spec == Init /\ [][Next]_vars

\* The same host, where the operator also rehearses an installation.
RehearsalSpec == Init /\ [][Next \/ Rehearse]_vars

\* A job goes on by itself.  The daily timers, OnFailure= and the recovery
\* units at boot start the owner of a journal again and again, a requested
\* reboot comes and a pass ends (its unit has a time-out).  A job that
\* looks for the end of a pass every two seconds sees one, and where it tests
\* the fence without waiting, some day no pass is in its way.
Working == job.who # None /\ (PackageUpdate \/ ReleaseUpdate)
Recovering == (\E u \in Packages : PackageRecover(u)) \/ (\E u \in Bundles : ReleaseRecover(u))
Waiting == \E u \in Packages : PackageResume(u) \/ PackagePassed(u)
Refencing == \E u \in Packages : PackageRefence(u) /\ Fenced(u)

Fairness ==
  /\ WF_vars(Working) /\ WF_vars(Recovering) /\ WF_vars(Reboots) /\ WF_vars(PassEnds)
  /\ SF_vars(Waiting) /\ SF_vars(Refencing)
FairSpec == Spec /\ Fairness
=============================================================================
