---------------------------- MODULE MCMemoryStore ---------------------------
(* MemoryStore for TLC, in three scopes: creates that race with each other *)
(* and with a mint; tokens that are used, revoked, archived and expire;    *)
(* mints that race with each other and with a create.                      *)
EXTENDS MemoryStore

CONSTANTS p1, m1, i1, n1, h1

VARIABLE scope

Scopes ==
  {[calls |-> Creators \cup {m1}, names |-> Names, hashes |-> {h1},
    tokens |-> {}, time |-> 0],
   [calls |-> {p1, m1}, names |-> {n1}, hashes |-> {h1},
    tokens |-> Tokens, time |-> MaxTime],
   [calls |-> {p1} \cup Minters, names |-> {n1}, hashes |-> Hashes,
    tokens |-> {}, time |-> 1]}

MCInit == Init /\ scope \in Scopes

Inputs   == {a \in Input : a.name \in scope.names}
Requests == {a \in Request : a.key[1] = i1 /\ a.hash \in scope.hashes}

\* Next for the calls and the tokens of the scope.
MCNext ==
  /\ \/ \E c \in Creators \cap scope.calls : Start(c, "lock", Inputs) \/ CreateStep(c)
     \/ \E c \in Minters \cap scope.calls : Start(c, "do", Requests) \/ MintStep(c)
     \/ \E t \in scope.tokens : AuthorizeGitAccess(t) \/ RevokeRepoToken(t)
     \/ /\ scope.tokens # {}
        /\ \E i \in RepoIDs : ArchiveRepo(i) \/ \E t \in Unkeyed : CreateUnkeyed(t, i)
     \/ \E c \in scope.calls : Cancel(c)
     \/ clock < scope.time /\ Tick
     \/ Crash
  /\ UNCHANGED scope

MCSpec == MCInit /\ [][MCNext]_<<vars, scope>> /\ Fairness
=============================================================================
