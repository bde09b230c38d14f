--------------------------- MODULE MCGuardianRun ---------------------------
(* Instances of GuardianRun for TLC: messages are model values. *)
EXTENDS GuardianProperties

CONSTANTS m1, m2, hash0

OneMessage  == {m1}
TwoMessages == {m1, m2}
NoMessage   == {}
SecondBad   == {m2}

ActiveOnly  == {"active"}
ProtectOnly == {"protect"}
AnyMode     == {"protect", "active"}
=============================================================================
