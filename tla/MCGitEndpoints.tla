---------------------------- MODULE MCGitEndpoints ---------------------------
(* GitEndpoints for TLC: an id of commit c1 alone and one that every       *)
(* commit matches; different commits have no merge base.                   *)
EXTENDS GitEndpoints

CONSTANTS c1, long

MCMatches   == [a \in Abbrevs |-> IF a = long THEN {c1} ELSE Commits]
MCUnrelated == {p \in Commits \X Commits : p[1] # p[2]}
=============================================================================
