------------------------------- MODULE Handover -------------------------------
(***************************************************************************)
(* The migration of one mailbox: the capture on the Mac, the imports on    *)
(* the server, and the operator who carries a stage from one to the other. *)
(*                                                                         *)
(* The operator goes by what the tools leave behind: a stage is taken when *)
(* it is complete and says that the Mac stays paused; the marker is        *)
(* removed after a report of success; the Mac is resumed from a receipt    *)
(* only while the server is fenced, and every stage is given up then.  One *)
(* operator starts one tool at a time.                                     *)
(***************************************************************************)
EXTENDS ServerImport

VARIABLE revoked  \* stages given up when the Mac was resumed

vars == <<macVars, serverVars, revoked>>

Init == MacInit /\ ServerInit /\ revoked = {}

Trusted(s) == Usable(s) /\ s \notin revoked /\ Idle

\* "Remove the marker only after reconciliation has verified a complete
\* consistent state."
MarkerRemoved ==
  /\ Free /\ marker /\ published # None /\ Trusted(published)
  /\ marker' = FALSE
  /\ UNCHANGED <<macVars, task, tokens, target, place, live, revoked>>

MarkerRestored ==
  /\ Free /\ ~marker /\ ~live /\ marker' = TRUE
  /\ UNCHANGED <<macVars, task, tokens, target, place, live, revoked>>

Activated ==
  /\ Free /\ ~marker /\ ~live /\ adopted /\ Trusted(published)
  /\ live' = TRUE
  /\ UNCHANGED <<macVars, marker, task, tokens, target, place, revoked>>

MacResumed(s) ==
  /\ Free /\ marker /\ ~live /\ ResumeBegins(s)
  /\ revoked' = {t \in Stages : stage[t].made}
  /\ UNCHANGED serverVars

Operator ==
  MarkerRemoved \/ MarkerRestored \/ Activated \/ \E s \in Stages : MacResumed(s)

MacStep ==
  \/ Command \/ Capture \/ Resume \/ StepFails \/ Killed \/ Reboot
  \/ \E s \in Stages, keep \in BOOLEAN : Free /\ CaptureBegins(s, keep)

ServerStep ==
  \/ Import /\ UNCHANGED spent
  \/ Publication /\ UNCHANGED spent
  \/ Adopt /\ UNCHANGED spent
  \/ VolumeRemoved /\ UNCHANGED spent
  \/ ImportReports \/ TaskEnds
  \/ \E s \in Stages : Trusted(s) /\ ImportBegins(s) /\ UNCHANGED spent
  \/ \E s \in Stages, r \in reports : Trusted(s) /\ PublishBegins(s, r) /\ UNCHANGED spent

Next ==
  \/ MacStep /\ UNCHANGED <<serverVars, revoked>>
  \/ ServerStep /\ UNCHANGED <<host, pass, mac, stage, cap, revoked>>
  \/ Operator

Spec == Init /\ [][Next]_vars
=============================================================================
