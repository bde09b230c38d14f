------------------------------ MODULE MCCatalog ------------------------------
(* Small instances of RecoveryCatalog for TLC. *)
EXTENDS CatalogProperties, TLC

CONSTANTS p1, p2, d1, d2

TwoProcesses == {p1, p2}
TwoDigests   == {d1, d2}

Symmetry == Permutations({p1, p2}) \cup Permutations({d1, d2})
=============================================================================
