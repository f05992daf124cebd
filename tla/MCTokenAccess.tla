---------------------------- MODULE MCTokenAccess ---------------------------
(* TokenAccess for TLC.  In the first scope one access with any arguments  *)
(* meets tokens of any repository and scope; in the second, two uses of    *)
(* one token overlap.                                                      *)
EXTENDS TokenAccess, TLC

CONSTANTS c1, i1

VARIABLE scope

MCScopes ==
  {[accesses |-> {c1}, all |-> TRUE], [accesses |-> Accesses, all |-> FALSE]}

MCInit == Init /\ scope \in MCScopes

\* Next for the accesses of the scope, with any arguments or only with those of a
\* token for reading i1.
MCNext ==
  /\ \/ \E c \in scope.accesses :
          /\ Authorize(c)
          /\ pc[c] = "idle" =>
               scope.all \/ (want'[c].repo = i1 /\ want'[c].token \in Tokens /\ want'[c].op = "read")
     \/ \E a \in AdminCalls : Admin(a) /\ (scope.all \/ target'[a].repo = i1)
     \/ /\ CreateRepoToken
        /\ scope.all \/ \A t \in Tokens \ Minted : tok'[t] # None =>
             tok'[t].repo = i1 /\ tok'[t].scope = "read"
     \/ Tick
  /\ UNCHANGED scope

MCSpec == MCInit /\ [][MCNext]_<<vars, scope>>

Symmetry == Permutations(AdminCalls)
=============================================================================
