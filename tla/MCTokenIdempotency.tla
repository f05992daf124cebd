------------------------- MODULE MCTokenIdempotency -------------------------
(* TokenIdempotency for TLC.  All keys collide on one advisory lock, which *)
(* hashtext allows and which is the hard case for progress.  In the first  *)
(* scope two requests meet every fault; in the second a third one finds    *)
(* the pool empty while one of the others waits for the lock of the other. *)
EXTENDS TokenIdempotency

CONSTANTS r3, k1, h1

MCLockOf == [k \in Keys |-> 0]

VARIABLE scope

Scopes ==
  {[requests |-> Requests \ {r3}, keys |-> Keys, hashes |-> Hashes,
    faults |-> TRUE, time |-> MaxTime],
   [requests |-> Requests, keys |-> {k1}, hashes |-> {h1},
    faults |-> FALSE, time |-> 0]}

MCInit == Init /\ scope \in Scopes

\* Next for the requests of the scope, with every fault or only with clients
\* that go away and crashes.  A request mints once at most, and no two mint the
\* same: the token that r mints may as well be called r.
MCNext ==
  /\ \/ \E r \in scope.requests :
          \/ Start(r) /\ req'[r].key \in scope.keys /\ req'[r].hash \in scope.hashes
          \/ Handler(r) /\ (pc[r] = "create" => token'[r] \in {None, r})
          \/ Postgres(r) \/ Cancel(r)
          \/ scope.faults /\ Fault(r)
     \/ clock < scope.time /\ Tick
     \/ Crash
     \/ Quiescent
  /\ UNCHANGED scope

MCSpec == MCInit /\ [][MCNext]_<<vars, scope>> /\ Fairness
=============================================================================
