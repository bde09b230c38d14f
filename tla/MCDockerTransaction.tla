-------------------------- MODULE MCDockerTransaction --------------------------
(***************************************************************************)
(* A host on which two Docker updates can be staged: one patch release is  *)
(* offered, then a second, and a release of another line that needs review.*)
(***************************************************************************)
EXTENDS DockerTransactionProperties

ThisVersion == <<28, 0>>
NewVersions == {<<28, 1>>, <<28, 2>>, <<29, 0>>}
=============================================================================
