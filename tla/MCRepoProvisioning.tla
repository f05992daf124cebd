------------------------- MODULE MCRepoProvisioning -------------------------
(* RepoProvisioning for TLC.                                               *)
EXTENDS RepoProvisioning, TLC

Symmetry == Permutations(Requests) \cup Permutations(RepoIDs)

=============================================================================
