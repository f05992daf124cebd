-------------------------- MODULE TokenIdempotency --------------------------
(***************************************************************************)
(* Minting repository tokens under an Idempotency-Key in the Postgres      *)
(* deployment: createRepoTokenHandler, postgresIdempotencyStore.Do and the *)
(* CreateRepoToken it calls inside its transaction.                        *)
(*                                                                         *)
(* Do begins a transaction (a connection of the pool), takes a             *)
(* transaction-scoped advisory lock on the key, reads the clock, looks for *)
(* the key's record, and either replays it, reports a conflict, or mints a *)
(* token and inserts its record, all in that transaction.  The module      *)
(* interleaves the statements of many such calls with cancellations,       *)
(* database failures, lost COMMIT acknowledgements and crashes; a client   *)
(* that retries is another request with the same key and hash.             *)
(***************************************************************************)
EXTENDS Naturals, FiniteSets

CONSTANTS
  Requests,     \* requests that carry an Idempotency-Key, each made once
  Keys,         \* (scope, key) pairs; the scope names the repo
  UnknownRepo,  \* the keys whose scope is a repo that does not exist
  LockOf,       \* the advisory lock of a key: hashtext of scope and key
  Hashes,       \* request hashes
  Tokens,       \* secrets generateRepoToken can return
  TTL,          \* the life time of an idempotency record (24 hours)
  MaxTime,      \* bound: the clock stops here
  PoolSize,     \* connections of the pgx pool
  None,         \* no value
  Faults        \* the faults this instance admits

FaultKinds == {"cancel",    \* the client goes away: r.Context() is done
               "db",        \* a failure in Postgres drops the transaction
               "lostAck",   \* the connection breaks while COMMIT is outstanding
               "crash"}     \* the process dies; Postgres survives

Request == [key : Keys, hash : Hashes]
Record  == [hash : Hashes, token : Tokens, expires : Nat]
Minted  == [key : Keys, hash : Hashes, at : Nat]

\* 201, 409, 404 and 500.
Answers == {"created", "conflict", "notFound", "error"}

ASSUME ConstantsAssumption ==
  /\ UnknownRepo \subseteq Keys
  /\ TTL \in Nat \ {0} /\ MaxTime \in Nat /\ PoolSize \in Nat \ {0}
  /\ None \notin Request /\ None \notin Record /\ None \notin Minted
  /\ None \notin Tokens /\ None \notin Answers
  /\ Faults \subseteq FaultKinds

VARIABLES
  clock,   \* the current time
  pc,      \* where the handler of each request is
  ctx,     \* TRUE while the request's context is live
  req,     \* key and hash of each request
  now,     \* the time Do read after it got the lock
  deleted, \* the expired record its transaction deletes, if any
  token,   \* the token the request minted or found in the record
  answer,  \* the outcome Do returns, once it is decided
  tx,      \* the request's transaction, as Postgres sees it
  rec,     \* committed rows of idempotency_records, by key
  tok      \* committed keyed rows of repo_tokens, by token

vars == <<clock, pc, ctx, req, now, deleted, token, answer, tx, rec, tok>>

Connected == {"lock", "select", "replay", "create", "record", "commit",
              "waiting", "rollback"}
InFlight  == {"begin"} \cup Connected
Final     == {"done", "dead"}

\* Transactions that hold the advisory lock; a COMMIT still has it.
Locked   == {"locked", "committing"}
TxStates == {"none", "begun", "committed", "ended"} \cup Locked

\* Type correctness of the requests' state and of the two tables.
TypeOK ==
  /\ clock \in Nat
  /\ pc \in [Requests -> {"idle"} \cup InFlight \cup Final]
  /\ ctx \in [Requests -> BOOLEAN]
  /\ req \in [Requests -> Request \cup {None}]
  /\ now \in [Requests -> Nat]
  /\ deleted \in [Requests -> Record \cup {None}]
  /\ token \in [Requests -> Tokens \cup {None}]
  /\ answer \in [Requests -> Answers \cup {None}]
  /\ tx \in [Requests -> TxStates]
  /\ rec \in [Keys -> Record \cup {None}]
  /\ tok \in [Tokens -> Minted \cup {None}]

Init ==
  /\ clock = 0
  /\ pc = [r \in Requests |-> "idle"]
  /\ ctx = [r \in Requests |-> TRUE]
  /\ req = [r \in Requests |-> None]
  /\ now = [r \in Requests |-> 0]
  /\ deleted = [r \in Requests |-> None]
  /\ token = [r \in Requests |-> None]
  /\ answer = [r \in Requests |-> None]
  /\ tx = [r \in Requests |-> "none"]
  /\ rec = [k \in Keys |-> None]
  /\ tok = [t \in Tokens |-> None]

Goto(r, from, to) ==
  /\ pc[r] = from
  /\ pc' = [pc EXCEPT ![r] = to]

\* A statement of r's transaction succeeds at `from' and Do goes on at `to'.
Statement(r, from, to) ==
  /\ ctx[r]
  /\ tx[r] = "locked"
  /\ Goto(r, from, to)

\* Do decides to return a and runs the deferred rollback.
Return(r, from, a) ==
  /\ Goto(r, from, "rollback")
  /\ answer' = [answer EXCEPT ![r] = a]

Key(r) == req[r].key

-----------------------------------------------------------------------------
(***************************************************************************)
(* The handler and Do.  A successful step needs a live context.            *)
(***************************************************************************)

\* The request was decoded and validated; its key is not empty.
Start(r) ==
  /\ Goto(r, "idle", "begin")
  /\ \E q \in Request : req' = [req EXCEPT ![r] = q]
  /\ UNCHANGED <<clock, ctx, now, deleted, token, answer, tx, rec, tok>>

\* db.Begin waits for a free connection of the pool.
Begin(r) ==
  /\ ctx[r]
  /\ Goto(r, "begin", "lock")
  /\ Cardinality({q \in Requests : pc[q] \in Connected}) < PoolSize
  /\ tx' = [tx EXCEPT ![r] = "begun"]
  /\ UNCHANGED <<clock, ctx, req, now, deleted, token, answer, rec, tok>>

\* Mutant of AcquireLock: no advisory lock.
AcquireNothing(r) ==
  /\ ctx[r]
  /\ tx[r] = "begun"
  /\ Goto(r, "lock", "select")
  /\ tx' = [tx EXCEPT ![r] = "locked"]
  /\ UNCHANGED <<clock, ctx, req, now, deleted, token, answer, rec, tok>>

\* pg_advisory_xact_lock waits for the transaction that has the lock.
AcquireLock(r) ==
  /\ ctx[r]
  /\ tx[r] = "begun"
  /\ Goto(r, "lock", "select")
  /\ \A q \in Requests \ {r} :
       tx[q] \in Locked => LockOf[Key(q)] # LockOf[Key(r)]
  /\ tx' = [tx EXCEPT ![r] = "locked"]
  /\ UNCHANGED <<clock, ctx, req, now, deleted, token, answer, rec, tok>>

\* Mutant of Live: off by one at the end of the record's life.
LiveTooShort(k, n) == rec[k] # None /\ n + 1 < rec[k].expires

\* The record selectIdempotencyRecord finds is live at time n.
Live(k, n) == rec[k] # None /\ n < rec[k].expires

\* Mutant of SelectReplay: the request hash is not compared.
ReplayAnyHash(r) ==
  /\ Statement(r, "select", "replay")
  /\ Live(Key(r), clock)
  /\ now' = [now EXCEPT ![r] = clock]
  /\ token' = [token EXCEPT ![r] = rec[Key(r)].token]
  /\ UNCHANGED <<clock, ctx, req, deleted, answer, tx, rec, tok>>

\* store.now() and selectIdempotencyRecord: a live record of this request.
\* The lock keeps the record as it is between the two, so they are one step.
SelectReplay(r) ==
  /\ Statement(r, "select", "replay")
  /\ Live(Key(r), clock)
  /\ rec[Key(r)].hash = req[r].hash
  /\ now' = [now EXCEPT ![r] = clock]
  /\ token' = [token EXCEPT ![r] = rec[Key(r)].token]
  /\ UNCHANGED <<clock, ctx, req, deleted, answer, tx, rec, tok>>

\* Mutant of SelectConflict: a live record is a conflict, whatever its hash.
ConflictAnyHash(r) ==
  /\ ctx[r]
  /\ tx[r] = "locked"
  /\ Return(r, "select", "conflict")
  /\ Live(Key(r), clock)
  /\ now' = [now EXCEPT ![r] = clock]
  /\ UNCHANGED <<clock, ctx, req, deleted, token, tx, rec, tok>>

\* A live record of another request: errIdempotencyConflict.
SelectConflict(r) ==
  /\ ctx[r]
  /\ tx[r] = "locked"
  /\ Return(r, "select", "conflict")
  /\ Live(Key(r), clock)
  /\ rec[Key(r)].hash # req[r].hash
  /\ now' = [now EXCEPT ![r] = clock]
  /\ UNCHANGED <<clock, ctx, req, deleted, token, tx, rec, tok>>

\* Mutant of SelectMiss: create is not called.
MissSkipsCreate(r) ==
  /\ Statement(r, "select", "record")
  /\ ~Live(Key(r), clock)
  /\ now' = [now EXCEPT ![r] = clock]
  /\ deleted' = [deleted EXCEPT ![r] = rec[Key(r)]]
  /\ UNCHANGED <<clock, ctx, req, token, answer, tx, rec, tok>>

\* No record, or an expired one, which the transaction deletes.
SelectMiss(r) ==
  /\ Statement(r, "select", "create")
  /\ ~Live(Key(r), clock)
  /\ now' = [now EXCEPT ![r] = clock]
  /\ deleted' = [deleted EXCEPT ![r] = rec[Key(r)]]
  /\ UNCHANGED <<clock, ctx, req, token, answer, tx, rec, tok>>

\* COMMIT of the read-only transaction, then 201 with the recorded response.
ReplayCommit(r) ==
  /\ Statement(r, "replay", "done")
  /\ answer' = [answer EXCEPT ![r] = "created"]
  /\ tx' = [tx EXCEPT ![r] = "ended"]
  /\ UNCHANGED <<clock, ctx, req, now, deleted, token, rec, tok>>

\* A secret nobody has generated before (256 random bits).
Fresh(t) == \A q \in Requests : token[q] # t

\* Mutant of CreateToken: the INSERT runs on the pool, outside the
\* transaction of Do, and is durable at once.
CreateTokenOnPool(r) ==
  /\ Statement(r, "create", "record")
  /\ Key(r) \notin UnknownRepo
  /\ \E t \in Tokens :
       /\ Fresh(t)
       /\ token' = [token EXCEPT ![r] = t]
       /\ tok' = [tok EXCEPT ![t] =
                    [key |-> Key(r), hash |-> req[r].hash, at |-> now[r]]]
  /\ UNCHANGED <<clock, ctx, req, now, deleted, answer, tx, rec>>

\* Mutant of CreateToken: the INSERT needs another connection of the pool.
CreateTokenWaits(r) ==
  /\ Statement(r, "create", "record")
  /\ Key(r) \notin UnknownRepo
  /\ Cardinality({q \in Requests : pc[q] \in Connected}) < PoolSize
  /\ \E t \in Tokens : Fresh(t) /\ token' = [token EXCEPT ![r] = t]
  /\ UNCHANGED <<clock, ctx, req, now, deleted, answer, tx, rec, tok>>

\* create, with the transaction in its context: CreateRepoToken finds the
\* repo and inserts the token.
CreateToken(r) ==
  /\ Statement(r, "create", "record")
  /\ Key(r) \notin UnknownRepo
  /\ \E t \in Tokens : Fresh(t) /\ token' = [token EXCEPT ![r] = t]
  /\ UNCHANGED <<clock, ctx, req, now, deleted, answer, tx, rec, tok>>

\* create returns errRepoNotFound.
CreateNotFound(r) ==
  /\ ctx[r]
  /\ tx[r] = "locked"
  /\ Return(r, "create", "notFound")
  /\ Key(r) \in UnknownRepo
  /\ UNCHANGED <<clock, ctx, req, now, deleted, token, tx, rec, tok>>

\* The primary key (scope, key) is taken: by a committed record other than the
\* one this transaction deleted, or by the uncommitted record of a transaction
\* that may have inserted one, whether or not anybody waits for it still.
PrimaryKeyTaken(r) ==
  \/ rec[Key(r)] \notin {None, deleted[r]}
  \/ \E q \in Requests \ {r} :
       /\ tx[q] \in Locked
       /\ pc[q] \notin {"select", "replay", "create", "record"}
       /\ Key(q) = Key(r)

\* INSERT INTO idempotency_records; a unique violation is an error.
InsertRecord(r) ==
  /\ ctx[r]
  /\ tx[r] = "locked"
  /\ IF PrimaryKeyTaken(r) THEN Return(r, "record", "error")
                           ELSE Goto(r, "record", "commit") /\ UNCHANGED answer
  /\ UNCHANGED <<clock, ctx, req, now, deleted, token, tx, rec, tok>>

\* tx.Commit puts COMMIT on the wire and waits.
SendCommit(r) ==
  /\ Statement(r, "commit", "waiting")
  /\ tx' = [tx EXCEPT ![r] = "committing"]
  /\ UNCHANGED <<clock, ctx, req, now, deleted, token, answer, rec, tok>>

\* COMMIT was acknowledged: 201 with the minted token.
CommitAcked(r) ==
  /\ ctx[r]
  /\ tx[r] = "committed"
  /\ Goto(r, "waiting", "done")
  /\ answer' = [answer EXCEPT ![r] = "created"]
  /\ UNCHANGED <<clock, ctx, req, now, deleted, token, tx, rec, tok>>

\* A statement, Begin and COMMIT included, returns an error: the context is
\* done or the transaction is gone.
StatementFails(r) ==
  /\ ~ctx[r] \/ tx[r] = "ended"
  /\ \E from \in InFlight \ {"rollback"} : Return(r, from, "error")
  /\ UNCHANGED <<clock, ctx, req, now, deleted, token, tx, rec, tok>>

\* Mutant of RollbackTx: no deferred rollback.
NoRollback(r) ==
  /\ Goto(r, "rollback", "done")
  /\ UNCHANGED <<clock, ctx, req, now, deleted, token, answer, tx, rec, tok>>

\* The deferred rollbackTx returns the connection; ROLLBACK reaches Postgres
\* only while the context is live, otherwise pgx closes the connection.
RollbackTx(r) ==
  /\ Goto(r, "rollback", "done")
  /\ tx' = [tx EXCEPT ![r] =
              IF @ \in {"begun", "locked"} /\ ctx[r] THEN "ended" ELSE @]
  /\ UNCHANGED <<clock, ctx, req, now, deleted, token, answer, rec, tok>>

-----------------------------------------------------------------------------
(***************************************************************************)
(* Postgres.                                                               *)
(***************************************************************************)

\* COMMIT takes effect: the token, the new record and the deletion of the
\* expired one at once, whether or not the client still waits.
ServerCommit(r) ==
  /\ tx[r] = "committing"
  /\ tx' = [tx EXCEPT ![r] = "committed"]
  /\ tok' = [tok EXCEPT ![token[r]] =
               [key |-> Key(r), hash |-> req[r].hash, at |-> now[r]]]
  /\ rec' = [rec EXCEPT ![Key(r)] =
               [hash |-> req[r].hash, token |-> token[r],
                expires |-> now[r] + TTL]]
  /\ UNCHANGED <<clock, pc, ctx, req, now, deleted, token, answer>>

\* The backend notices that its client is gone and aborts.
ServerAbort(r) ==
  /\ \/ tx[r] \in {"begun", "locked"} /\ pc[r] = "dead"
     \/ tx[r] \in {"begun", "locked"} /\ pc[r] = "done" /\ ~ctx[r]
     \/ tx[r] = "committing" /\ pc[r] \in {"rollback", "done", "dead"}
  /\ tx' = [tx EXCEPT ![r] = "ended"]
  /\ UNCHANGED <<clock, pc, ctx, req, now, deleted, token, answer, rec, tok>>

(***************************************************************************)
(* Time and faults.                                                        *)
(***************************************************************************)

Tick ==
  /\ clock < MaxTime
  /\ clock' = clock + 1
  /\ UNCHANGED <<pc, ctx, req, now, deleted, token, answer, tx, rec, tok>>

Cancel(r) ==
  /\ "cancel" \in Faults
  /\ pc[r] \in InFlight
  /\ ctx[r]
  /\ ctx' = [ctx EXCEPT ![r] = FALSE]
  /\ UNCHANGED <<clock, pc, req, now, deleted, token, answer, tx, rec, tok>>

\* No connection can be had from Postgres.
BeginFails(r) ==
  /\ "db" \in Faults
  /\ Return(r, "begin", "error")
  /\ UNCHANGED <<clock, ctx, req, now, deleted, token, tx, rec, tok>>

\* A server-side failure drops an unfinished transaction.
DatabaseDropsTx(r) ==
  /\ "db" \in Faults
  /\ tx[r] \in {"begun"} \cup Locked
  /\ tx' = [tx EXCEPT ![r] = "ended"]
  /\ UNCHANGED <<clock, pc, ctx, req, now, deleted, token, answer, rec, tok>>

\* The connection breaks while tx.Commit waits: the error says nothing about
\* what Postgres did or will do with the COMMIT.
CommitAckLost(r) ==
  /\ "lostAck" \in Faults
  /\ Return(r, "waiting", "error")
  /\ UNCHANGED <<clock, ctx, req, now, deleted, token, tx, rec, tok>>

\* The process dies; the restarted one knows nothing of these requests.
Crash ==
  /\ "crash" \in Faults
  /\ \E r \in Requests : pc[r] \in InFlight
  /\ pc' = [r \in Requests |-> IF pc[r] \in InFlight THEN "dead" ELSE pc[r]]
  /\ UNCHANGED <<clock, ctx, req, now, deleted, token, answer, tx, rec, tok>>

\* Every request has been answered and Postgres holds nothing open.
Quiescent ==
  /\ \A r \in Requests :
       pc[r] \in Final /\ tx[r] \notin {"begun"} \cup Locked
  /\ UNCHANGED vars

Handler(r) ==
  \/ Begin(r) \/ AcquireLock(r)
  \/ SelectReplay(r) \/ SelectConflict(r) \/ SelectMiss(r) \/ ReplayCommit(r)
  \/ CreateToken(r) \/ CreateNotFound(r) \/ InsertRecord(r)
  \/ SendCommit(r) \/ CommitAcked(r)
  \/ StatementFails(r) \/ RollbackTx(r)

Postgres(r) == ServerCommit(r) \/ ServerAbort(r)

Fault(r) ==
  Cancel(r) \/ BeginFails(r) \/ DatabaseDropsTx(r) \/ CommitAckLost(r)

Next ==
  \/ \E r \in Requests : Start(r) \/ Handler(r) \/ Postgres(r) \/ Fault(r)
  \/ Tick
  \/ Crash
  \/ Quiescent

Spec == Init /\ [][Next]_vars

\* The Go scheduler runs every handler that can run, the pool hands a free
\* connection to a waiter, and Postgres grants a free lock, finishes every
\* COMMIT and reaps every abandoned connection.
Fairness ==
  \A r \in Requests : WF_vars(Handler(r)) /\ WF_vars(Postgres(r))

FairSpec == Spec /\ Fairness

-----------------------------------------------------------------------------
(***************************************************************************)
(* Properties.                                                             *)
(***************************************************************************)

\* The promise of the endpoint, see IdempotentMint.  The answer a client sees
\* is what the code decided to return; a 201 carries the request's token.
Given == [r \in Requests |-> IF answer[r] = "created" THEN token[r] ELSE None]

Promise == INSTANCE IdempotentMint WITH Durable <- TRUE, given <- Given

\* Do, statement by statement and under every fault, does only what the
\* atomic service of IdempotentMint does: tokens and records become durable
\* together, at most once per key and window, and answers agree with them.
ImplementsPromise == Promise!Spec

\* Two tokens minted under one key are at least the record TTL apart: a
\* retry after an error, a lost acknowledgement or a crash never mints twice.
OneMintPerWindow == Promise!OneMintPerWindow

\* As long as the record of a committed token lives, it is in the table and
\* carries that token: a retry that follows a lost answer gets the same one.
MintedTokenIsReplayable == Promise!MintedTokenIsReplayable

\* Every 201 carries a token that is durable and was minted for the same key
\* and the same request body, replayed answers included.
AnsweredTokenIsDurable ==
  \A r \in Requests : answer[r] = "created" =>
    /\ token[r] \in Tokens
    /\ tok[token[r]] # None
    /\ tok[token[r]].key = req[r].key
    /\ tok[token[r]].hash = req[r].hash

\* The INSERT of a record never meets a primary key that is taken: whatever
\* happened between Do's SELECT and its INSERT, in this transaction or in
\* others that were cancelled, dropped or crashed, requests that race for one
\* key wait for each other's lock and none is answered 500 for losing.
PrimaryKeyIsFree ==
  \A r \in Requests : pc[r] = "record" /\ tx[r] = "locked" => ~PrimaryKeyTaken(r)

\* Every request is answered or dies with the process.  A request that waits for
\* the advisory lock keeps its connection, and others wait for that one: the
\* holder of the lock must need no connection but its own.
EveryRequestEnds ==
  \A r \in Requests : (pc[r] = "begin") ~> (pc[r] \in Final)
=============================================================================
