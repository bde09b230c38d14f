----------------------------- MODULE MCRetention -----------------------------
(* Small instances of Retention for TLC. *)
EXTENDS RetentionProperties

CONSTANTS m1, m2

OneMessage  == {m1}
TwoMessages == {m1, m2}
=============================================================================
