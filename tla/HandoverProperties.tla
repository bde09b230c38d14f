-------------------------- MODULE HandoverProperties --------------------------
(***************************************************************************)
(* What the tools of a migration promise.                                  *)
(***************************************************************************)
EXTENDS Handover

\* One owner of the mailbox: while the server is live, the Mac starts nothing
\* by itself, not even after a reboot, and no earlier pass is still at work.
OneOwner ==
  live => /\ \A l \in Labels : ~agent[l].loaded /\ agent[l].disabled
          /\ pass = NoPass

\* The server continues the Mac: it starts from the journal and the model
\* the Mac ended with, both of one moment, every file in place, and Redis
\* finds the model when it starts with its normal configuration.
ServerContinuesTheMac ==
  live => data = [is |-> "full", db |-> mac.db] /\ Model = mac.model /\ files = 3

\* "This immutable receipt is durably published before any local change": as
\* long as nothing is at work, a Mac that is not as its owner left it can be
\* resumed from a receipt that says how it was.
PauseIsRecoverable ==
  Idle /\ agent # Usual.agent =>
    \E s \in Stages : stage[s].receipt.kept /\ ~stage[s].resumed
                      /\ stage[s].receipt.agent = Usual.agent

\* A capture that ends without leaving the Mac paused, and does not ask for
\* attention, has put back what it changed: every agent it unloaded, and the
\* scanner also if its stop timed out after it took effect (capture_mac.py:293).
\* One exception: a `launchctl disable` that timed out after it took effect
\* (cap.cut) is not in the list of changes, so that agent stays disabled.
MacIsPutBack ==
  cap.pc = "ended" /\ cap.goal # "paused" /\ cap.changed # {} /\ ~cap.bad =>
    /\ \A l \in Labels : cap.original.agent[l].loaded => agent[l].loaded
    /\ scanner
    /\ \A l \in Labels : agent[l].disabled => cap.original.agent[l].disabled \/ cap.cut

\* A stage that says the Mac is paused (COMPLETE, no INCOMPLETE, not resumed)
\* is right, also after a failure or a restart.
StagesTellTheTruth ==
  \A s \in Stages : Usable(s) /\ Idle => \A l \in Labels : ~agent[l].loaded
=============================================================================
