--------------------------- MODULE MCAuthorization ---------------------------
(* Small instances of Authorization for TLC. *)
EXTENDS AuthorizationProperties, TLC

CONSTANTS p1, p2, l1, l2

OneProcess   == {p1}
TwoProcesses == {p1, p2}
OneLayout    == {l1}
TwoLayouts   == {l1, l2}

OwnerCommands == {"protect", "active", "enable", "disable"}
AllCommands   == {"protect", "active", "enable", "disable", "qualify", "setup", "dryrun", "purge"}
NoCommands    == {"dryrun"}

Symmetry == Permutations({p1, p2}) \cup Permutations({l1, l2})
=============================================================================
