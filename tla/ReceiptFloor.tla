---------------------------- MODULE ReceiptFloor ----------------------------
(***************************************************************************)
(* What the catalog of recovery receipts promises, with nothing said about *)
(* files: there is one floor, it only rises, and whoever is answered is    *)
(* told the floor of that moment.                                          *)
(***************************************************************************)
EXTENDS Naturals

CONSTANTS Floors, Zero

VARIABLES floor, told

Below(a, b) == a.seq < b.seq \/ a = b

Init == floor = Zero /\ told = {}

(* The floor an operator starts with may be any. *)
Raise ==
  /\ floor' \in Floors
  /\ Below(floor, floor')
  /\ UNCHANGED told

Tell ==
  /\ told' = told \cup {floor}
  /\ UNCHANGED floor

Next == Raise \/ Tell

Spec == Init /\ [][Next]_<<floor, told>>
=============================================================================
