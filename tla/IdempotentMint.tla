--------------------------- MODULE IdempotentMint ---------------------------
(***************************************************************************)
(* What POST /v1/repos/{id}/tokens with an Idempotency-Key promises, with  *)
(* no handlers, transactions, locks or connections: a token comes into     *)
(* existence in one step together with the record that replays it, a key   *)
(* whose record has not expired mints nothing, and an answer is 201 with a *)
(* token that exists and was minted for the same key and the same request, *)
(* 409 when the key's record belongs to another request, or an error.      *)
(***************************************************************************)
EXTENDS Naturals

CONSTANTS
  Requests,  \* requests that carry an Idempotency-Key
  Keys,      \* (scope, key) pairs
  Hashes,    \* request hashes
  Tokens,    \* repository tokens
  TTL,       \* the life time of an idempotency record
  Durable,   \* TRUE unless tokens and records die with the process
  None       \* no value

VARIABLES
  clock,   \* the current time
  rec,     \* the idempotency record of each key
  tok,     \* the repository tokens that exist: whose they are and since when
  req,     \* key and hash of each request
  answer,  \* what the request was answered
  given    \* the token in a 201 answer

vars == <<clock, rec, tok, req, answer, given>>

Request == [key : Keys, hash : Hashes]
Record  == [hash : Hashes, token : Tokens, expires : Nat]
Minted  == [key : Keys, hash : Hashes, at : Nat]

Init ==
  /\ clock = 0
  /\ rec = [k \in Keys |-> None]
  /\ tok = [t \in Tokens |-> None]
  /\ req = [r \in Requests |-> None]
  /\ answer = [r \in Requests |-> None]
  /\ given = [r \in Requests |-> None]

Tick ==
  /\ clock' = clock + 1
  /\ UNCHANGED <<rec, tok, req, answer, given>>

Ask(r) ==
  /\ req[r] = None
  /\ \E q \in Request : req' = [req EXCEPT ![r] = q]
  /\ UNCHANGED <<clock, rec, tok, answer, given>>

\* A record that has expired may be dropped.
Expire(k) ==
  /\ rec[k] # None
  /\ rec[k].expires <= clock
  /\ rec' = [rec EXCEPT ![k] = None]
  /\ UNCHANGED <<clock, tok, req, answer, given>>

\* A token and its record appear together, dated `at', and only if every
\* earlier token of the key is a record life time older.
Mint(r) ==
  /\ req[r] # None
  /\ \E t \in Tokens, at \in 0..clock :
       /\ tok[t] = None
       /\ \A u \in Tokens : (tok[u] # None /\ tok[u].key = req[r].key)
            => tok[u].at + TTL <= at
       /\ tok' = [tok EXCEPT ![t] =
                    [key |-> req[r].key, hash |-> req[r].hash, at |-> at]]
       /\ rec' = [rec EXCEPT ![req[r].key] =
                    [hash |-> req[r].hash, token |-> t, expires |-> at + TTL]]
  /\ UNCHANGED <<clock, req, answer, given>>

Created(r) ==
  /\ req[r] # None /\ answer[r] = None
  /\ \E t \in Tokens :
       /\ tok[t] # None
       /\ tok[t].key = req[r].key
       /\ tok[t].hash = req[r].hash
       /\ given' = [given EXCEPT ![r] = t]
  /\ answer' = [answer EXCEPT ![r] = "created"]
  /\ UNCHANGED <<clock, rec, tok, req>>

Conflict(r) ==
  /\ req[r] # None /\ answer[r] = None
  /\ rec[req[r].key] # None
  /\ rec[req[r].key].hash # req[r].hash
  /\ answer' = [answer EXCEPT ![r] = "conflict"]
  /\ UNCHANGED <<clock, rec, tok, req, given>>

Fail(r) ==
  /\ req[r] # None /\ answer[r] = None
  /\ \E e \in {"notFound", "error"} : answer' = [answer EXCEPT ![r] = e]
  /\ UNCHANGED <<clock, rec, tok, req, given>>

\* The process restarts.  If it kept them in its memory, the tokens it minted
\* are gone, and their records with them.
Restart ==
  /\ ~Durable
  /\ rec' = [k \in Keys |-> None]
  /\ tok' = [t \in Tokens |-> None]
  /\ UNCHANGED <<clock, req, answer, given>>

Next ==
  \/ Tick \/ Restart
  \/ \E k \in Keys : Expire(k)
  \/ \E r \in Requests :
       Ask(r) \/ Mint(r) \/ Created(r) \/ Conflict(r) \/ Fail(r)

Spec == Init /\ [][Next]_vars

-----------------------------------------------------------------------------
(***************************************************************************)
(* Properties.                                                             *)
(***************************************************************************)

\* Two tokens minted under one key are at least one record life time apart:
\* within it, every retry of a keyed request gets the token the first one
\* minted.
OneMintPerWindow ==
  \A s, t \in Tokens :
    (s # t /\ tok[s] # None /\ tok[t] # None /\ tok[s].key = tok[t].key)
      => tok[s].at + TTL <= tok[t].at \/ tok[t].at + TTL <= tok[s].at

\* A token minted under a key can be had again by a retry as long as its
\* record lives: the record of the key is that token's, with its hash.
MintedTokenIsReplayable ==
  \A t \in Tokens :
    (tok[t] # None /\ clock < tok[t].at + TTL)
      => rec[tok[t].key] =
           [hash |-> tok[t].hash, token |-> t, expires |-> tok[t].at + TTL]
=============================================================================
