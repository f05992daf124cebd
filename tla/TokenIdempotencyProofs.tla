----------------------- MODULE TokenIdempotencyProofs -----------------------
(***************************************************************************)
(* Proofs about TokenIdempotency, for any number of requests, keys and     *)
(* tokens, any pool size, any collisions of advisory locks and any set of  *)
(* faults.                                                                 *)
(***************************************************************************)
EXTENDS TokenIdempotency, TLAPS

-----------------------------------------------------------------------------
(***************************************************************************)
(* The inductive invariant.                                                *)
(***************************************************************************)

\* Where Do is tells how far its transaction can be, what it has in hand, and
\* whether its outcome is decided.
PcTx ==
  \A r \in Requests :
    /\ pc[r] # "idle" => req[r] \in Request
    /\ pc[r] = "idle" => req[r] = None
    /\ pc[r] \in {"idle", "begin"} => tx[r] = "none"
    /\ pc[r] = "lock" => tx[r] \in {"begun", "ended"}
    /\ pc[r] \in {"select", "replay", "create", "record", "commit"}
         => tx[r] \in {"locked", "ended"}
    /\ pc[r] = "waiting" => tx[r] \in {"committing", "committed", "ended"}
    /\ pc[r] \in ({"idle"} \cup InFlight) \ {"rollback"} => answer[r] = None
    /\ pc[r] = "rollback" => answer[r] \in {"conflict", "notFound", "error"}
    /\ now[r] <= clock

\* A request that generated a token and may still commit it, or has.
Mints(r) ==
  \/ pc[r] \in {"record", "commit", "waiting"}
  \/ tx[r] \in {"committing", "committed"}

\* Generated tokens are their requests' own and become rows by COMMIT only.
OwnTokens ==
  /\ \A r \in Requests : Mints(r) => token[r] \in Tokens
  /\ \A r, q \in Requests : (Mints(r) /\ Mints(q) /\ token[r] = token[q]) => r = q
  /\ \A t \in Tokens : tok[t] # None =>
       \E r \in Requests : tx[r] = "committed" /\ token[r] = t

\* The advisory lock: transactions that hold one have different keys.
LocksExclude ==
  \A r, q \in Requests :
    (tx[r] \in Locked /\ tx[q] \in Locked /\ Key(r) = Key(q)) => r = q

\* t was minted for the key and the body of r.
MintedFor(t, r) ==
  /\ t \in Tokens
  /\ tok[t] # None
  /\ tok[t].key = req[r].key
  /\ tok[t].hash = req[r].hash

\* A record is the one of the newest token of its key, and every token's key
\* has a record.
RecordsMatchTokens ==
  /\ \A t \in Tokens : tok[t] # None =>
       /\ tok[t].at <= clock
       /\ rec[tok[t].key] # None
       /\ tok[t].at + TTL <= rec[tok[t].key].expires
  /\ \A k \in Keys : rec[k] # None =>
       /\ tok[rec[k].token] # None
       /\ tok[rec[k].token].key = k
       /\ tok[rec[k].token].hash = rec[k].hash
       /\ tok[rec[k].token].at + TTL = rec[k].expires

\* Do has decided to mint, and its transaction may still commit.
Missed(r) ==
  \/ tx[r] = "locked" /\ pc[r] \in {"create", "record", "commit"}
  \/ tx[r] = "committing"

\* What Do decided at its SELECT stays true: the lock keeps the record of a
\* key it mints for away, and a token it replays is never changed.
DecisionsHold ==
  \A r \in Requests :
    /\ Missed(r) => rec[Key(r)] = None \/ rec[Key(r)].expires <= now[r]
    /\ Missed(r) => rec[Key(r)] = deleted[r]
    /\ pc[r] = "replay" => MintedFor(token[r], r)
    /\ answer[r] = "created" => MintedFor(token[r], r)
    /\ tx[r] = "committed" => MintedFor(token[r], r)

Inv ==
  /\ TypeOK /\ PcTx /\ OwnTokens /\ LocksExclude /\ RecordsMatchTokens
  /\ DecisionsHold

-----------------------------------------------------------------------------
\* No request has arrived and the tables are empty.
LEMMA InitInv == Init => Inv
BY ConstantsAssumption
   DEF Init, Inv, TypeOK, PcTx, OwnTokens, Mints, LocksExclude, Locked,
       RecordsMatchTokens, DecisionsHold, Missed, InFlight, Connected,
       TxStates, Final, Answers

\* Every step keeps the variables in their types.
LEMMA StepType == TypeOK /\ PcTx /\ OwnTokens /\ [Next]_vars => TypeOK'
<1> SUFFICES ASSUME TypeOK, PcTx, OwnTokens, [Next]_vars
             PROVE  TypeOK'
  OBVIOUS
<1> USE ConstantsAssumption
        DEF TypeOK, InFlight, Connected, Final, Answers, TxStates, Locked, Goto,
            Statement, Return
<1>1. ASSUME NEW r \in Requests, Start(r) PROVE TypeOK'
  BY <1>1 DEF Start
<1>2. ASSUME NEW r \in Requests, Handler(r) PROVE TypeOK'
  <2>1. CASE Begin(r) \/ AcquireLock(r)
    BY <2>1 DEF Begin, AcquireLock
  <2>2. CASE SelectReplay(r)
    <3>1. Key(r) \in Keys /\ rec[Key(r)] \in Record
      BY <2>2 DEF SelectReplay, Live, PcTx, Key, Request
    <3>2. QED
      BY <2>2, <3>1 DEF SelectReplay, Record
  <2>3. CASE SelectConflict(r) \/ SelectMiss(r)
    <3>1. rec[Key(r)] \in Record \cup {None}
      BY <2>3 DEF SelectConflict, SelectMiss, PcTx, Key, Request
    <3>2. QED
      BY <2>3, <3>1 DEF SelectConflict, SelectMiss
  <2>4. CASE ReplayCommit(r) \/ CreateToken(r) \/ CreateNotFound(r)
    BY <2>4 DEF ReplayCommit, CreateToken, CreateNotFound
  <2>5. CASE InsertRecord(r) \/ SendCommit(r) \/ CommitAcked(r)
    BY <2>5 DEF InsertRecord, SendCommit, CommitAcked
  <2>6. CASE StatementFails(r) \/ RollbackTx(r)
    BY <2>6 DEF StatementFails, RollbackTx
  <2>7. QED
    BY <1>2, <2>1, <2>2, <2>3, <2>4, <2>5, <2>6 DEF Handler
<1>3. ASSUME NEW r \in Requests, ServerCommit(r) PROVE TypeOK'
  <2>1. req[r] \in Request /\ token[r] \in Tokens
    BY <1>3 DEF ServerCommit, PcTx, OwnTokens, Mints
  <2>2. [key |-> Key(r), hash |-> req[r].hash, at |-> now[r]] \in Minted
    BY <2>1 DEF Key, Request, Minted
  <2>3. [hash |-> req[r].hash, token |-> token[r], expires |-> now[r] + TTL]
          \in Record
    BY <2>1 DEF Request, Record
  <2>4. QED
    BY <1>3, <2>2, <2>3 DEF ServerCommit
<1>4. ASSUME NEW r \in Requests, ServerAbort(r) PROVE TypeOK'
  BY <1>4 DEF ServerAbort
<1>5. ASSUME NEW r \in Requests, Fault(r) PROVE TypeOK'
  BY <1>5 DEF Fault, Cancel, BeginFails, DatabaseDropsTx, CommitAckLost
<1>6. CASE Tick \/ Crash
  BY <1>6 DEF Tick, Crash
<1>7. CASE Quiescent \/ UNCHANGED vars
  BY <1>7 DEF Quiescent, vars
<1>8. QED
  BY <1>1, <1>2, <1>3, <1>4, <1>5, <1>6, <1>7 DEF Next, Postgres

\* Every step keeps Do, its transaction and its outcome in step.
LEMMA StepPcTx == TypeOK /\ PcTx /\ [Next]_vars => PcTx'
<1> SUFFICES ASSUME TypeOK, PcTx, [Next]_vars
             PROVE  PcTx'
  OBVIOUS
<1> USE ConstantsAssumption
        DEF TypeOK, PcTx, InFlight, Connected, Final, Answers, TxStates, Locked,
            Goto, Statement, Return
<1>1. ASSUME NEW r \in Requests, Start(r) PROVE PcTx'
  BY <1>1 DEF Start
<1>2. ASSUME NEW r \in Requests, Handler(r) PROVE PcTx'
  <2>1. CASE Begin(r)
    BY <2>1 DEF Begin
  <2>2. CASE AcquireLock(r)
    BY <2>2 DEF AcquireLock
  <2>3. CASE SelectReplay(r) \/ SelectMiss(r)
    BY <2>3 DEF SelectReplay, SelectMiss
  <2>4. CASE SelectConflict(r)
    BY <2>4 DEF SelectConflict
  <2>5. CASE ReplayCommit(r) \/ CreateToken(r)
    BY <2>5 DEF ReplayCommit, CreateToken
  <2>6. CASE CreateNotFound(r)
    BY <2>6 DEF CreateNotFound
  <2>7. CASE InsertRecord(r)
    BY <2>7 DEF InsertRecord
  <2>8. CASE SendCommit(r) \/ CommitAcked(r)
    BY <2>8 DEF SendCommit, CommitAcked
  <2>9. CASE StatementFails(r)
    BY <2>9 DEF StatementFails
  <2>10. CASE RollbackTx(r)
    BY <2>10 DEF RollbackTx
  <2>11. QED
    BY <1>2, <2>1, <2>2, <2>3, <2>4, <2>5, <2>6, <2>7, <2>8, <2>9, <2>10 DEF Handler
<1>3. ASSUME NEW r \in Requests, Postgres(r) PROVE PcTx'
  BY <1>3 DEF Postgres, ServerCommit, ServerAbort
<1>4. ASSUME NEW r \in Requests, Fault(r) PROVE PcTx'
  BY <1>4 DEF Fault, Cancel, BeginFails, DatabaseDropsTx, CommitAckLost
<1>5. CASE Tick \/ Crash
  BY <1>5 DEF Tick, Crash
<1>6. CASE Quiescent \/ UNCHANGED vars
  BY <1>6 DEF Quiescent, vars
<1>7. QED
  BY <1>1, <1>2, <1>3, <1>4, <1>5, <1>6 DEF Next

(***************************************************************************)
(* What the steps leave alone.                                             *)
(***************************************************************************)

\* The effect of any step on request q: its key and body are fixed, a token
\* it minted stays its own, and locks, decisions and answers come from the
\* steps that make them.
Frame(q) ==
  /\ pc[q] # "idle" => req'[q] = req[q] /\ pc'[q] # "idle"
  /\ Mints(q) => token'[q] = token[q]
  /\ Mints(q)' => Mints(q) \/ CreateToken(q)
  /\ tx[q] = "committed" => tx'[q] = "committed"
  /\ tx'[q] \in Locked => tx[q] \in Locked \/ AcquireLock(q)
  /\ Missed(q)' => \/ Missed(q) /\ now'[q] = now[q] /\ deleted'[q] = deleted[q]
                   \/ SelectMiss(q)
  /\ pc'[q] = "replay" => \/ pc[q] = "replay" /\ token'[q] = token[q]
                         \/ SelectReplay(q)
  /\ answer'[q] = "created" => \/ answer[q] = "created" /\ token'[q] = token[q]
                              \/ ReplayCommit(q) \/ CommitAcked(q)

\* Every step keeps to the frame of every request.
LEMMA StepFrame ==
  TypeOK /\ PcTx /\ [Next]_vars => \A q \in Requests : Frame(q)
<1> SUFFICES ASSUME TypeOK, PcTx, [Next]_vars, NEW q \in Requests
             PROVE  Frame(q)
  OBVIOUS
<1> USE ConstantsAssumption
        DEF TypeOK, PcTx, InFlight, Connected, Final, TxStates, Locked, Goto,
            Statement, Return, Mints, Missed, Frame
<1>1. ASSUME NEW r \in Requests, Start(r) PROVE Frame(q)
  BY <1>1 DEF Start
<1>2. ASSUME NEW r \in Requests, Handler(r) PROVE Frame(q)
  <2>1. CASE Begin(r) \/ AcquireLock(r)
    BY <2>1 DEF Begin, AcquireLock
  <2>2. CASE SelectReplay(r)
    BY <2>2 DEF SelectReplay, Answers
  <2>3. CASE SelectConflict(r)
    BY <2>3 DEF SelectConflict
  <2>4. CASE SelectMiss(r)
    BY <2>4 DEF SelectMiss
  <2>5. CASE ReplayCommit(r)
    BY <2>5 DEF ReplayCommit
  <2>6. CASE CreateToken(r)
    BY <2>6 DEF CreateToken, Answers
  <2>7. CASE CreateNotFound(r) \/ InsertRecord(r)
    BY <2>7 DEF CreateNotFound, InsertRecord
  <2>8. CASE SendCommit(r)
    BY <2>8 DEF SendCommit
  <2>9. CASE CommitAcked(r)
    BY <2>9 DEF CommitAcked
  <2>10. CASE StatementFails(r) \/ RollbackTx(r)
    BY <2>10 DEF StatementFails, RollbackTx
  <2>11. QED
    BY <1>2, <2>1, <2>2, <2>3, <2>4, <2>5, <2>6, <2>7, <2>8, <2>9, <2>10 DEF Handler
<1>3. ASSUME NEW r \in Requests, ServerCommit(r) PROVE Frame(q)
  BY <1>3 DEF ServerCommit
<1>4. ASSUME NEW r \in Requests, ServerAbort(r) PROVE Frame(q)
  BY <1>4 DEF ServerAbort
<1>5. ASSUME NEW r \in Requests, Fault(r) PROVE Frame(q)
  BY <1>5 DEF Fault, Cancel, BeginFails, DatabaseDropsTx, CommitAckLost
<1>6. CASE Tick \/ Crash
  BY <1>6 DEF Tick, Crash
<1>7. CASE Quiescent \/ UNCHANGED vars
  BY <1>7 DEF Quiescent, vars
<1>8. QED
  BY <1>1, <1>2, <1>3, <1>4, <1>5, <1>6, <1>7 DEF Next, Postgres

\* The tables change by a COMMIT that takes effect, and by nothing else.
LEMMA StepTables ==
  TypeOK /\ PcTx /\ [Next]_vars =>
    \/ \E r \in Requests : ServerCommit(r)
    \/ /\ rec' = rec /\ tok' = tok
       /\ \A q \in Requests : tx'[q] = "committed" => tx[q] = "committed"
<1> DEFINE Goal ==
      \/ \E r \in Requests : ServerCommit(r)
      \/ /\ rec' = rec /\ tok' = tok
         /\ \A q \in Requests : tx'[q] = "committed" => tx[q] = "committed"
<1> SUFFICES ASSUME TypeOK, PcTx, [Next]_vars
             PROVE  Goal
  OBVIOUS
<1> USE DEF TypeOK, Goto, Statement, Return, TxStates, Locked
<1>1. ASSUME NEW r \in Requests, Start(r) PROVE Goal
  BY <1>1 DEF Start
<1>2. ASSUME NEW r \in Requests, Handler(r) PROVE Goal
  <2>1. CASE Begin(r) \/ AcquireLock(r)
    BY <2>1 DEF Begin, AcquireLock
  <2>2. CASE SelectReplay(r)
    BY <2>2 DEF SelectReplay
  <2>3. CASE SelectConflict(r)
    BY <2>3 DEF SelectConflict
  <2>4. CASE SelectMiss(r)
    BY <2>4 DEF SelectMiss
  <2>5. CASE ReplayCommit(r)
    BY <2>5 DEF ReplayCommit
  <2>6. CASE CreateToken(r)
    BY <2>6 DEF CreateToken
  <2>7. CASE CreateNotFound(r) \/ InsertRecord(r)
    BY <2>7 DEF CreateNotFound, InsertRecord
  <2>8. CASE SendCommit(r)
    BY <2>8 DEF SendCommit
  <2>9. CASE CommitAcked(r)
    BY <2>9 DEF CommitAcked
  <2>10. CASE StatementFails(r) \/ RollbackTx(r)
    BY <2>10 DEF StatementFails, RollbackTx
  <2>11. QED
    BY <1>2, <2>1, <2>2, <2>3, <2>4, <2>5, <2>6, <2>7, <2>8, <2>9, <2>10 DEF Handler
<1>3. ASSUME NEW r \in Requests, ServerCommit(r) PROVE Goal
  BY <1>3 DEF ServerCommit
<1>4. ASSUME NEW r \in Requests, ServerAbort(r) PROVE Goal
  BY <1>4 DEF ServerAbort
<1>5. ASSUME NEW r \in Requests, Fault(r) PROVE Goal
  BY <1>5 DEF Fault, Cancel, BeginFails, DatabaseDropsTx, CommitAckLost
<1>6. CASE Tick \/ Crash
  BY <1>6 DEF Tick, Crash
<1>7. CASE Quiescent \/ UNCHANGED vars
  BY <1>7 DEF Quiescent, vars
<1>8. QED
  BY <1>1, <1>2, <1>3, <1>4, <1>5, <1>6, <1>7 DEF Next, Postgres

\* The clock does not go back.
LEMMA StepClock == TypeOK /\ [Next]_vars => /\ clock \in Nat /\ clock' \in Nat
                                            /\ clock <= clock'
<1> SUFFICES ASSUME TypeOK, [Next]_vars
             PROVE  clock \in Nat /\ clock' \in Nat /\ clock <= clock'
  OBVIOUS
<1> USE DEF TypeOK
<1>1. ASSUME NEW r \in Requests, Handler(r) PROVE clock' = clock
  BY <1>1 DEF Handler, Begin, AcquireLock, SelectReplay, SelectConflict,
              SelectMiss, ReplayCommit, CreateToken, CreateNotFound,
              InsertRecord, SendCommit, CommitAcked, StatementFails, RollbackTx
<1>2. ASSUME NEW r \in Requests, Start(r) \/ Postgres(r) \/ Fault(r)
      PROVE  clock' = clock
  BY <1>2 DEF Start, Postgres, ServerCommit, ServerAbort, Fault, Cancel,
              BeginFails, DatabaseDropsTx, CommitAckLost
<1>3. CASE Crash \/ Quiescent \/ UNCHANGED vars
  BY <1>3 DEF Crash, Quiescent, vars
<1>4. CASE Tick
  BY <1>4 DEF Tick
<1>5. QED
  BY <1>1, <1>2, <1>3, <1>4 DEF Next

(***************************************************************************)
(* The parts of the invariant.                                             *)
(***************************************************************************)

\* Every step leaves generated tokens their requests' own: a token is new
\* when CreateRepoToken generates it.
LEMMA StepOwnTokens ==
  TypeOK /\ PcTx /\ OwnTokens /\ [Next]_vars => OwnTokens'
<1> SUFFICES ASSUME TypeOK, PcTx, OwnTokens, [Next]_vars
             PROVE  OwnTokens'
  OBVIOUS
<1>1. \A q \in Requests : Frame(q)
  BY StepFrame
<1>2. \A r \in Requests : CreateToken(r) =>
        /\ token'[r] \in Tokens /\ \A q \in Requests : token[q] # token'[r]
        /\ \A q \in Requests \ {r} : ~CreateToken(q) /\ token'[q] = token[q]
  BY DEF CreateToken, Fresh, Statement, Goto, TypeOK
<1>3. \A r \in Requests : Mints(r)' => token'[r] \in Tokens
  BY <1>1, <1>2 DEF Frame, OwnTokens
<1>4. ASSUME NEW r \in Requests, NEW q \in Requests, Mints(r)', Mints(q)',
             token'[r] = token'[q]
      PROVE  r = q
  BY <1>1, <1>2, <1>4 DEF Frame, OwnTokens
<1>5. ASSUME NEW t \in Tokens, tok'[t] # None
      PROVE  \E r \in Requests : tx'[r] = "committed" /\ token'[r] = t
  <2>1. CASE tok[t] # None
    <3>1. PICK r \in Requests : tx[r] = "committed" /\ token[r] = t
      BY <2>1 DEF OwnTokens
    <3>2. QED
      BY <1>1, <3>1 DEF Frame, Mints
  <2>2. CASE tok[t] = None
    <3>1. PICK r \in Requests : ServerCommit(r)
      BY <1>5, <2>2, StepTables
    <3>2. QED
      BY <1>5, <2>2, <3>1 DEF ServerCommit, TypeOK, OwnTokens, Mints
  <2>3. QED
    BY <2>1, <2>2
<1>6. QED
  BY <1>3, <1>4, <1>5 DEF OwnTokens

\* Every step keeps transactions with one key from holding its lock together.
LEMMA StepLocks ==
  TypeOK /\ PcTx /\ LocksExclude /\ [Next]_vars => LocksExclude'
<1> SUFFICES ASSUME TypeOK, PcTx, LocksExclude, [Next]_vars,
                    NEW r \in Requests, NEW q \in Requests,
                    tx'[r] \in Locked, tx'[q] \in Locked, Key(r)' = Key(q)'
             PROVE  r = q
  BY DEF LocksExclude
<1>1. Frame(r) /\ Frame(q)
  BY StepFrame
<1>2. \A s \in Requests : tx[s] \in Locked \/ AcquireLock(s) => pc[s] # "idle"
  BY DEF PcTx, Locked, AcquireLock, Goto
<1>3. Key(r) = Key(q)
  BY <1>1, <1>2 DEF Frame, Key
<1>4. \A s, u \in Requests : AcquireLock(s) /\ AcquireLock(u) => s = u
  BY DEF AcquireLock, Goto, TypeOK
<1>5. \A s, u \in Requests :
        (AcquireLock(s) /\ tx[u] \in Locked /\ s # u) => Key(s) # Key(u)
  BY DEF AcquireLock
<1>6. QED
  BY <1>1, <1>3, <1>4, <1>5 DEF Frame, LocksExclude

\* A COMMIT takes effect for a token that is no row yet, dated no earlier
\* than the expiry of the key's record, and no later than now.
LEMMA CommitIsNew ==
  ASSUME Inv, NEW r \in Requests, ServerCommit(r)
  PROVE  /\ token[r] \in Tokens /\ tok[token[r]] = None
         /\ req[r] \in Request /\ Key(r) \in Keys
         /\ now[r] \in Nat /\ now[r] <= clock
         /\ rec[Key(r)] = None \/ rec[Key(r)].expires <= now[r]
<1>1. tx[r] = "committing" /\ Mints(r) /\ Missed(r) /\ pc[r] # "idle"
  BY DEF ServerCommit, Mints, Missed, Inv, PcTx
<1>2. token[r] \in Tokens /\ tok[token[r]] = None
  BY <1>1 DEF Inv, OwnTokens, Mints
<1>3. req[r] \in Request /\ Key(r) \in Keys
  BY <1>1 DEF Inv, PcTx, Key, Request
<1>4. QED
  BY <1>1, <1>2, <1>3 DEF Inv, PcTx, TypeOK, DecisionsHold

\* Every step keeps each key's record the one of its newest token.
LEMMA StepRecords == Inv /\ [Next]_vars => RecordsMatchTokens'
<1> SUFFICES ASSUME Inv, [Next]_vars
             PROVE  RecordsMatchTokens'
  OBVIOUS
<1>1. clock \in Nat /\ clock' \in Nat /\ clock <= clock'
  BY StepClock DEF Inv
<1>2. ASSUME NEW r \in Requests, ServerCommit(r) PROVE RecordsMatchTokens'
  <2>1. /\ token[r] \in Tokens /\ tok[token[r]] = None
        /\ req[r] \in Request /\ Key(r) \in Keys
        /\ now[r] \in Nat /\ now[r] <= clock
        /\ rec[Key(r)] = None \/ rec[Key(r)].expires <= now[r]
    BY <1>2, CommitIsNew
  <2> DEFINE m == [key |-> Key(r), hash |-> req[r].hash, at |-> now[r]]
             e == [hash |-> req[r].hash, token |-> token[r],
                   expires |-> now[r] + TTL]
  <2>2. m \in Minted /\ e \in Record /\ m # None /\ e # None
    BY <2>1, ConstantsAssumption DEF Request, Minted, Record
  <2>3. /\ tok' = [tok EXCEPT ![token[r]] = m]
        /\ rec' = [rec EXCEPT ![Key(r)] = e]
        /\ clock' = clock
    BY <1>2 DEF ServerCommit
  <2>4. tok'[token[r]] = m /\ rec'[Key(r)] = e
    BY <2>1, <2>3 DEF Inv, TypeOK
  <2>5. /\ \A t \in Tokens \ {token[r]} : tok'[t] = tok[t]
        /\ \A k \in Keys \ {Key(r)} : rec'[k] = rec[k]
    BY <2>3 DEF Inv, TypeOK
  <2>6. ASSUME NEW t \in Tokens, tok'[t] # None
        PROVE  /\ tok'[t].at <= clock'
               /\ rec'[tok'[t].key] # None
               /\ tok'[t].at + TTL <= rec'[tok'[t].key].expires
    <3>1. CASE t = token[r]
      BY <2>1, <2>2, <2>3, <2>4, <3>1, ConstantsAssumption
    <3>2. CASE t # token[r]
      <4>1. tok'[t] = tok[t] /\ tok[t] # None /\ tok[t] \in Minted
        BY <2>5, <2>6, <3>2 DEF Inv, TypeOK
      <4>2. /\ tok[t].key \in Keys /\ tok[t].at \in Nat /\ tok[t].at <= clock
            /\ rec[tok[t].key] # None
            /\ tok[t].at + TTL <= rec[tok[t].key].expires
            /\ rec[tok[t].key].expires \in Nat
        BY <4>1 DEF Inv, RecordsMatchTokens, TypeOK, Minted, Record
      <4>3. CASE tok[t].key = Key(r)
        BY <2>1, <2>2, <2>3, <2>4, <4>1, <4>2, <4>3, ConstantsAssumption
      <4>4. CASE tok[t].key # Key(r)
        BY <2>3, <2>5, <4>1, <4>2, <4>4
      <4>5. QED
        BY <4>3, <4>4
    <3>3. QED
      BY <3>1, <3>2
  <2>7. ASSUME NEW k \in Keys, rec'[k] # None
        PROVE  /\ tok'[rec'[k].token] # None
               /\ tok'[rec'[k].token].key = k
               /\ tok'[rec'[k].token].hash = rec'[k].hash
               /\ tok'[rec'[k].token].at + TTL = rec'[k].expires
    <3>1. CASE k = Key(r)
      BY <2>2, <2>4, <3>1
    <3>2. CASE k # Key(r)
      <4>1. rec'[k] = rec[k] /\ rec[k] \in Record
        BY <2>5, <2>7, <3>2 DEF Inv, TypeOK
      <4>2. rec[k].token \in Tokens /\ tok[rec[k].token] # None
        BY <2>7, <4>1 DEF Inv, RecordsMatchTokens, Record
      <4>3. tok'[rec[k].token] = tok[rec[k].token]
        BY <2>1, <2>5, <4>2
      <4>4. QED
        BY <2>7, <4>1, <4>3 DEF Inv, RecordsMatchTokens
    <3>3. QED
      BY <3>1, <3>2
  <2>8. QED
    BY <2>6, <2>7 DEF RecordsMatchTokens
<1>3. CASE rec' = rec /\ tok' = tok
  <2>1. \A t \in Tokens : tok[t] # None => tok[t].at \in Nat
    BY DEF Inv, TypeOK, Minted
  <2>2. QED
    BY <1>1, <1>3, <2>1 DEF Inv, RecordsMatchTokens
<1>4. QED
  BY <1>2, <1>3, StepTables DEF Inv

\* A token a request holds keeps the key and the body it was minted for.
LEMMA MintedForIsKept ==
  ASSUME Inv, [Next]_vars, NEW q \in Requests, NEW t, MintedFor(t, q),
         pc[q] # "idle"
  PROVE  tok'[t] = tok[t] /\ req'[q] = req[q]
<1>1. Frame(q)
  BY StepFrame DEF Inv
<1>2. ASSUME NEW r \in Requests, ServerCommit(r) PROVE tok'[t] = tok[t]
  <2>1. token[r] \in Tokens /\ tok[token[r]] = None
    BY <1>2, CommitIsNew
  <2>2. QED
    BY <1>2, <2>1 DEF ServerCommit, MintedFor, Inv, TypeOK
<1>3. QED
  BY <1>1, <1>2, StepTables DEF Frame, Inv

\* Every step leaves what Do decided true.
LEMMA StepDecisions == Inv /\ [Next]_vars => DecisionsHold'
<1> SUFFICES ASSUME Inv, [Next]_vars, NEW q \in Requests
             PROVE  /\ Missed(q)' => \/ rec'[Key(q)'] = None
                                     \/ rec'[Key(q)'].expires <= now'[q]
                    /\ Missed(q)' => rec'[Key(q)'] = deleted'[q]
                    /\ pc'[q] = "replay" => MintedFor(token[q], q)'
                    /\ answer'[q] = "created" => MintedFor(token[q], q)'
                    /\ tx'[q] = "committed" => MintedFor(token[q], q)'
  BY DEF DecisionsHold
<1>1. Frame(q)
  BY StepFrame DEF Inv
<1>2. ASSUME Missed(q)'
      PROVE  /\ rec'[Key(q)'] = None \/ rec'[Key(q)'].expires <= now'[q]
             /\ rec'[Key(q)'] = deleted'[q]
  <2>1. pc[q] # "idle" /\ tx[q] \in Locked /\ Key(q) \in Keys
    BY <1>1, <1>2 DEF Frame, Missed, Locked, SelectMiss, Statement, Goto, Inv,
                      PcTx, Key, Request
  <2>2. Key(q)' = Key(q)
    BY <1>1, <2>1 DEF Frame, Key
  <2>3. /\ rec[Key(q)] = None \/ rec[Key(q)].expires <= now'[q]
        /\ rec[Key(q)] = deleted'[q]
    <3>1. CASE Missed(q) /\ now'[q] = now[q] /\ deleted'[q] = deleted[q]
      BY <3>1 DEF Inv, DecisionsHold
    <3>2. CASE SelectMiss(q)
      <4>1. now'[q] = clock /\ ~Live(Key(q), clock) /\ deleted'[q] = rec[Key(q)]
        BY <3>2 DEF SelectMiss, Inv, TypeOK
      <4>2. rec[Key(q)] = None \/ rec[Key(q)].expires \in Nat
        BY <2>1 DEF Inv, TypeOK, Record
      <4>3. QED
        BY <4>1, <4>2 DEF Live, Inv, TypeOK
    <3>3. QED
      BY <1>1, <1>2, <3>1, <3>2 DEF Frame
  <2>4. rec'[Key(q)] = rec[Key(q)]
    <3>1. ASSUME NEW r \in Requests, ServerCommit(r)
          PROVE  rec'[Key(q)] = rec[Key(q)]
      <4>1. r # q
        BY <1>2, <3>1 DEF ServerCommit, Missed, Inv, TypeOK
      <4>2. Key(r) # Key(q)
        BY <2>1, <3>1, <4>1 DEF ServerCommit, Locked, Inv, LocksExclude
      <4>3. QED
        BY <2>1, <3>1, <4>2 DEF ServerCommit, Inv, TypeOK
    <3>2. QED
      BY <3>1, StepTables DEF Inv
  <2>5. QED
    BY <2>2, <2>3, <2>4
<1>3. ASSUME MintedFor(token[q], q), token'[q] = token[q], pc[q] # "idle"
      PROVE  MintedFor(token[q], q)'
  BY <1>3, MintedForIsKept DEF MintedFor
<1>4. ASSUME pc'[q] = "replay" PROVE MintedFor(token[q], q)'
  <2>1. CASE pc[q] = "replay" /\ token'[q] = token[q]
    BY <1>3, <2>1 DEF Inv, DecisionsHold
  <2>2. CASE SelectReplay(q)
    <3>1. /\ pc[q] = "select" /\ rec[Key(q)] # None
          /\ rec[Key(q)].hash = req[q].hash
          /\ token'[q] = rec[Key(q)].token /\ tok' = tok /\ req' = req
      BY <2>2 DEF SelectReplay, Statement, Goto, Live, Inv, TypeOK
    <3>2. Key(q) \in Keys /\ rec[Key(q)] \in Record
      BY <3>1 DEF Inv, PcTx, TypeOK, Key, Request
    <3>3. rec[Key(q)].token \in Tokens
      BY <3>2 DEF Record
    <3>4. QED
      BY <3>1, <3>2, <3>3 DEF Inv, RecordsMatchTokens, MintedFor, Key
  <2>3. QED
    BY <1>1, <1>4, <2>1, <2>2 DEF Frame
<1>5. ASSUME answer'[q] = "created" PROVE MintedFor(token[q], q)'
  <2>1. CASE answer[q] = "created" /\ token'[q] = token[q]
    <3>1. pc[q] # "idle"
      BY <2>1, ConstantsAssumption DEF Inv, PcTx, Answers
    <3>2. QED
      BY <1>3, <2>1, <3>1 DEF Inv, DecisionsHold
  <2>2. CASE ReplayCommit(q)
    BY <1>3, <2>2 DEF ReplayCommit, Statement, Goto, Inv, DecisionsHold
  <2>3. CASE CommitAcked(q)
    BY <1>3, <2>3 DEF CommitAcked, Goto, Inv, DecisionsHold
  <2>4. QED
    BY <1>1, <1>5, <2>1, <2>2, <2>3 DEF Frame
<1>6. ASSUME tx'[q] = "committed" PROVE MintedFor(token[q], q)'
  <2>1. CASE tx[q] = "committed"
    <3>1. pc[q] # "idle" /\ token'[q] = token[q]
      BY <1>1, <2>1 DEF Inv, PcTx, Frame, Mints
    <3>2. QED
      BY <1>3, <2>1, <3>1 DEF Inv, DecisionsHold
  <2>2. CASE tx[q] # "committed"
    <3>1. ServerCommit(q)
      <4>1. PICK r \in Requests : ServerCommit(r)
        BY <1>6, <2>2, StepTables DEF Inv
      <4>2. QED
        BY <1>6, <2>2, <4>1 DEF ServerCommit, Inv, TypeOK
    <3>2. token[q] \in Tokens /\ req[q] \in Request
      BY <3>1, CommitIsNew
    <3>3. [key |-> Key(q), hash |-> req[q].hash, at |-> now[q]] # None
      BY <3>2, ConstantsAssumption DEF Inv, TypeOK, Minted, Request, Key
    <3>4. QED
      BY <3>1, <3>2, <3>3 DEF ServerCommit, MintedFor, Inv, TypeOK, Key
  <2>3. QED
    BY <2>1, <2>2
<1>7. QED
  BY <1>2, <1>4, <1>5, <1>6

\* The invariant is inductive.
LEMMA StepInv == Inv /\ [Next]_vars => Inv'
BY StepType, StepPcTx, StepOwnTokens, StepLocks, StepRecords, StepDecisions DEF Inv

\* The invariant holds of every reachable state.
LEMMA InvHolds == Spec => []Inv
BY InitInv, StepInv, PTL DEF Spec

-----------------------------------------------------------------------------
(***************************************************************************)
(* The theorems.                                                           *)
(***************************************************************************)

\* Requests, transactions and tables keep their types in every behaviour of
\* Do, for any number of requests and every set of faults.
THEOREM TypeCorrect == Spec => []TypeOK
BY InvHolds, PTL DEF Inv

\* Every 201 of the token endpoint, replayed or not, carries a token that is
\* durable and was minted for the key and the body of that request.
THEOREM AnswersAreDurable == Spec => []AnsweredTokenIsDurable
<1>1. Inv => AnsweredTokenIsDurable
  BY DEF Inv, DecisionsHold, MintedFor, AnsweredTokenIsDurable
<1>2. QED
  BY <1>1, InvHolds, PTL

\* Do never runs into the primary key of idempotency_records, for any number
\* of requests and every set of faults: its lock keeps other transactions of
\* the key out, abandoned ones too, and leaves the record it deleted the only one.
THEOREM InsertsMeetNoRecord == Spec => []PrimaryKeyIsFree
<1>1. ASSUME Inv, NEW r \in Requests, pc[r] = "record", tx[r] = "locked"
      PROVE  ~PrimaryKeyTaken(r)
  <2>1. rec[Key(r)] = deleted[r]
    BY <1>1 DEF Inv, DecisionsHold, Missed
  <2>2. ASSUME NEW q \in Requests \ {r}, tx[q] \in Locked, Key(q) = Key(r)
        PROVE  FALSE
    BY <1>1, <2>2 DEF Inv, LocksExclude, Locked
  <2>3. QED
    BY <2>1, <2>2 DEF PrimaryKeyTaken
<1>2. Inv => PrimaryKeyIsFree
  BY <1>1 DEF PrimaryKeyIsFree
<1>3. QED
  BY <1>2, InvHolds, PTL

\* Tokens minted under one key are at least a record life time apart, under
\* every interleaving, lost acknowledgement and crash: the lock makes Do's
\* SELECT still true when its COMMIT takes effect.
THEOREM MintsAreApart == Spec => []OneMintPerWindow
<1>1. Init => OneMintPerWindow
  BY DEF Init, OneMintPerWindow, Promise!OneMintPerWindow
<1>2. Inv /\ OneMintPerWindow /\ [Next]_vars => OneMintPerWindow'
  <2> SUFFICES ASSUME Inv, OneMintPerWindow, [Next]_vars
               PROVE  OneMintPerWindow'
    OBVIOUS
  <2>1. ASSUME NEW r \in Requests, ServerCommit(r) PROVE OneMintPerWindow'
    <3>1. /\ token[r] \in Tokens /\ Key(r) \in Keys /\ now[r] \in Nat
          /\ rec[Key(r)] = None \/ rec[Key(r)].expires <= now[r]
      BY <2>1, CommitIsNew
    <3>2. \A t \in Tokens : (tok[t] # None /\ tok[t].key = Key(r)) =>
            tok[t].at + TTL <= now[r]
      <4> SUFFICES ASSUME NEW t \in Tokens, tok[t] # None, tok[t].key = Key(r)
                   PROVE  tok[t].at + TTL <= now[r]
        OBVIOUS
      <4>1. rec[Key(r)] # None /\ tok[t].at + TTL <= rec[Key(r)].expires
        BY DEF Inv, RecordsMatchTokens
      <4>2. tok[t].at \in Nat /\ rec[Key(r)].expires \in Nat
        BY <3>1, <4>1 DEF Inv, TypeOK, Minted, Record
      <4>3. QED
        BY <3>1, <4>1, <4>2, ConstantsAssumption
    <3>3. /\ tok'[token[r]].key = Key(r) /\ tok'[token[r]].at = now[r]
          /\ \A t \in Tokens \ {token[r]} : tok'[t] = tok[t]
      BY <2>1, <3>1 DEF ServerCommit, Inv, TypeOK
    <3>4. QED
      BY <3>1, <3>2, <3>3 DEF OneMintPerWindow, Promise!OneMintPerWindow
  <2>2. CASE tok' = tok
    BY <2>2 DEF OneMintPerWindow, Promise!OneMintPerWindow
  <2>3. QED
    BY <2>1, <2>2, StepTables DEF Inv
<1>3. QED
  BY <1>1, <1>2, InvHolds, PTL DEF Spec

\* While the record of a committed token lives, the table has it with that
\* token and body: whoever retries within the window can have the token.
THEOREM MintsAreReplayable == Spec => []MintedTokenIsReplayable
<1>1. Inv /\ OneMintPerWindow => MintedTokenIsReplayable
  <2> SUFFICES ASSUME Inv, OneMintPerWindow,
                      NEW t \in Tokens, tok[t] # None, clock < tok[t].at + TTL
               PROVE  rec[tok[t].key] =
                        [hash |-> tok[t].hash, token |-> t,
                         expires |-> tok[t].at + TTL]
    BY DEF MintedTokenIsReplayable, Promise!MintedTokenIsReplayable
  <2> DEFINE e == rec[tok[t].key]
             u == e.token
  <2>1. tok[t].key \in Keys /\ tok[t].at \in Nat /\ clock \in Nat
    BY DEF Inv, TypeOK, Minted
  <2>2. e \in Record /\ tok[t].at + TTL <= e.expires
    BY <2>1 DEF Inv, TypeOK, RecordsMatchTokens
  <2>3. /\ u \in Tokens /\ tok[u] # None /\ tok[u].key = tok[t].key
        /\ tok[u].hash = e.hash /\ tok[u].at + TTL = e.expires
        /\ tok[u].at <= clock
    <3>1. u \in Tokens /\ e # None
      BY <2>2, ConstantsAssumption DEF Record
    <3>2. QED
      BY <2>1, <3>1 DEF Inv, RecordsMatchTokens
  <2>4. tok[u].at \in Nat
    BY <2>3 DEF Inv, TypeOK, Minted
  <2>5. u = t
    <3>1. u # t => \/ tok[u].at + TTL <= tok[t].at
                  \/ tok[t].at + TTL <= tok[u].at
      BY <2>3 DEF OneMintPerWindow, Promise!OneMintPerWindow
    <3>2. QED
      BY <2>1, <2>2, <2>3, <2>4, <3>1, ConstantsAssumption
  <2>6. QED
    BY <2>2, <2>3, <2>5 DEF Record
<1>2. QED
  BY <1>1, InvHolds, MintsAreApart, PTL

-----------------------------------------------------------------------------
(***************************************************************************)
(* Refinement: the steps of Do are steps of the promise.                   *)
(***************************************************************************)

\* An action of the promise, or a step it does not see.
PromiseStep == Promise!Next \/ UNCHANGED Promise!vars

\* A request whose answer is undecided, or was no 201, gives no token; so a
\* step changes what is given only by answering 201.
LEMMA StepGiven ==
  ASSUME Inv, [Next]_vars
  PROVE  /\ answer' = answer => Given' = Given
         /\ \A r \in Requests, a \in Answers \ {"created"} :
              (answer[r] = None /\ answer' = [answer EXCEPT ![r] = a])
                => Given' = Given
         /\ \A r \in Requests :
              (/\ answer[r] = None /\ token' = token
               /\ answer' = [answer EXCEPT ![r] = "created"])
                => Given' = [Given EXCEPT ![r] = token[r]]
<1>1. \A q \in Requests : (answer'[q] = "created" /\ answer[q] = "created")
                             => token'[q] = token[q]
  <2> SUFFICES ASSUME NEW q \in Requests, answer'[q] = "created",
                      answer[q] = "created"
               PROVE  token'[q] = token[q]
    OBVIOUS
  <2>1. pc[q] \notin {"replay", "waiting"}
    BY ConstantsAssumption DEF Inv, PcTx, InFlight, Connected, Answers
  <2>2. Frame(q)
    BY StepFrame DEF Inv
  <2>3. QED
    BY <2>1, <2>2 DEF Frame, ReplayCommit, CommitAcked, Statement, Goto
<1>2. ASSUME answer' = answer PROVE Given' = Given
  BY <1>1, <1>2 DEF Given
<1>3. ASSUME NEW r \in Requests, NEW a \in Answers \ {"created"},
             answer[r] = None, answer' = [answer EXCEPT ![r] = a]
      PROVE  Given' = Given
  <2>1. \A q \in Requests : (answer'[q] = "created") <=> (answer[q] = "created")
    BY <1>3, ConstantsAssumption DEF Inv, TypeOK, Answers
  <2>2. QED
    BY <1>1, <2>1 DEF Given
<1>4. ASSUME NEW r \in Requests, answer[r] = None, token' = token,
             answer' = [answer EXCEPT ![r] = "created"]
      PROVE  Given' = [Given EXCEPT ![r] = token[r]]
  BY <1>4 DEF Given, Inv, TypeOK
<1>5. QED
  BY <1>2, <1>3, <1>4

\* A COMMIT that takes effect is the promise's Mint.
LEMMA CommitMints ==
  ASSUME Inv, [Next]_vars, NEW r \in Requests, ServerCommit(r)
  PROVE  Promise!Mint(r)
<1>1. /\ token[r] \in Tokens /\ tok[token[r]] = None
      /\ req[r] \in Request /\ Key(r) \in Keys
      /\ now[r] \in Nat /\ now[r] <= clock
      /\ rec[Key(r)] = None \/ rec[Key(r)].expires <= now[r]
  BY CommitIsNew
<1>2. now[r] \in 0..clock /\ req[r] # None
  BY <1>1, ConstantsAssumption DEF Inv, TypeOK
<1>3. ASSUME NEW u \in Tokens, tok[u] # None, tok[u].key = req[r].key
      PROVE  tok[u].at + TTL <= now[r]
  <2>1. rec[Key(r)] # None /\ tok[u].at + TTL <= rec[Key(r)].expires
    BY <1>3 DEF Inv, RecordsMatchTokens, Key
  <2>2. tok[u].at \in Nat /\ rec[Key(r)].expires \in Nat
    BY <1>1, <1>3, <2>1 DEF Inv, TypeOK, Minted, Record
  <2>3. QED
    BY <1>1, <2>1, <2>2, ConstantsAssumption
<1>4. Given' = Given
  BY StepGiven DEF ServerCommit
<1>5. QED
  BY <1>1, <1>2, <1>3, <1>4 DEF Promise!Mint, ServerCommit, Key

\* Every step of the handlers is a step of the promise.
LEMMA HandlerStep ==
  ASSUME Inv, [Next]_vars, NEW r \in Requests, Handler(r)
  PROVE  PromiseStep
<1> USE DEF Goto, Statement, Return
<1>1. pc[r] # "idle" /\ req[r] # None
  <2>1. pc[r] # "idle"
    BY DEF Handler, Begin, AcquireLock, SelectReplay, SelectConflict,
           SelectMiss, ReplayCommit, CreateToken, CreateNotFound, InsertRecord,
           SendCommit, CommitAcked, StatementFails, RollbackTx, InFlight,
           Connected
  <2>2. QED
    BY <2>1, ConstantsAssumption DEF Inv, PcTx
<1>2. pc[r] \in InFlight \ {"rollback"} => answer[r] = None
  BY DEF Inv, PcTx
<1>3. ASSUME UNCHANGED <<clock, rec, tok, req, answer>> PROVE PromiseStep
  BY <1>3, StepGiven DEF PromiseStep, Promise!vars
<1>4. ASSUME pc[r] \in InFlight \ {"rollback"},
             NEW a \in {"notFound", "error"},
             answer' = [answer EXCEPT ![r] = a],
             UNCHANGED <<clock, rec, tok, req>>
      PROVE  PromiseStep
  <2>1. Given' = Given
    BY <1>2, <1>4, StepGiven DEF Answers
  <2>2. Promise!Fail(r)
    BY <1>1, <1>2, <1>4, <2>1 DEF Promise!Fail
  <2>3. QED
    BY <2>2 DEF PromiseStep, Promise!Next
<1>5. ASSUME MintedFor(token[r], r), pc[r] \in InFlight \ {"rollback"},
             answer' = [answer EXCEPT ![r] = "created"],
             UNCHANGED <<clock, rec, tok, req, token>>
      PROVE  PromiseStep
  <2>1. Given' = [Given EXCEPT ![r] = token[r]]
    BY <1>2, <1>5, StepGiven
  <2>2. Promise!Created(r)
    BY <1>1, <1>2, <1>5, <2>1 DEF Promise!Created, MintedFor
  <2>3. QED
    BY <2>2 DEF PromiseStep, Promise!Next
<1>6. CASE Begin(r) \/ AcquireLock(r) \/ SendCommit(r) \/ RollbackTx(r)
  BY <1>3, <1>6 DEF Begin, AcquireLock, SendCommit, RollbackTx
<1>7. CASE SelectReplay(r) \/ SelectMiss(r) \/ CreateToken(r)
  BY <1>3, <1>7 DEF SelectReplay, SelectMiss, CreateToken
<1>8. CASE SelectConflict(r)
  <2>1. /\ answer' = [answer EXCEPT ![r] = "conflict"] /\ answer[r] = None
        /\ UNCHANGED <<clock, rec, tok, req>>
        /\ rec[req[r].key] # None /\ rec[req[r].key].hash # req[r].hash
    BY <1>2, <1>8 DEF SelectConflict, Live, Key, InFlight, Connected
  <2>2. Given' = Given
    BY <2>1, StepGiven DEF Answers
  <2>3. Promise!Conflict(r)
    BY <1>1, <2>1, <2>2 DEF Promise!Conflict
  <2>4. QED
    BY <2>3 DEF PromiseStep, Promise!Next
<1>9. CASE ReplayCommit(r)
  BY <1>5, <1>9 DEF ReplayCommit, InFlight, Connected, Inv, DecisionsHold
<1>10. CASE CommitAcked(r)
  BY <1>5, <1>10 DEF CommitAcked, InFlight, Connected, Inv, DecisionsHold
<1>11. CASE CreateNotFound(r)
  BY <1>4, <1>11 DEF CreateNotFound, InFlight, Connected
<1>12. CASE InsertRecord(r)
  BY <1>3, <1>4, <1>12 DEF InsertRecord, InFlight, Connected
<1>13. CASE StatementFails(r)
  BY <1>4, <1>13 DEF StatementFails
<1>14. QED
  BY <1>6, <1>7, <1>8, <1>9, <1>10, <1>11, <1>12, <1>13 DEF Handler

\* Do implements the atomic service of IdempotentMint: whatever the
\* interleaving and the faults, its steps are steps of the promise.
THEOREM DoImplementsPromise == Spec => ImplementsPromise
<1>1. Init => Promise!Init
  BY ConstantsAssumption DEF Init, Promise!Init, Given, Answers
<1>2. ASSUME Inv, [Next]_vars PROVE [Promise!Next]_(Promise!vars)
  <2> USE <1>2 DEF PromiseStep
  <2>1. ASSUME UNCHANGED <<clock, rec, tok, req, answer>> PROVE PromiseStep
    BY <2>1, StepGiven DEF Promise!vars
  <2>2. ASSUME NEW r \in Requests, Start(r) PROVE PromiseStep
    <3>1. req[r] = None
      BY <2>2 DEF Start, Goto, Inv, PcTx
    <3>2. Given' = Given
      BY <2>2, StepGiven DEF Start
    <3>3. Promise!Ask(r)
      BY <2>2, <3>1, <3>2 DEF Promise!Ask, Start, Request, Promise!Request
    <3>4. QED
      BY <3>3 DEF Promise!Next
  <2>3. ASSUME NEW r \in Requests, Handler(r) PROVE PromiseStep
    BY <2>3, HandlerStep
  <2>4. ASSUME NEW r \in Requests, Postgres(r) PROVE PromiseStep
    <3>1. CASE ServerCommit(r)
      BY <3>1, CommitMints DEF Promise!Next
    <3>2. CASE ServerAbort(r)
      BY <2>1, <3>2 DEF ServerAbort
    <3>3. QED
      BY <2>4, <3>1, <3>2 DEF Postgres
  <2>5. ASSUME NEW r \in Requests, Fault(r) PROVE PromiseStep
    <3>1. CASE Cancel(r) \/ DatabaseDropsTx(r)
      BY <2>1, <3>1 DEF Cancel, DatabaseDropsTx
    <3>2. CASE BeginFails(r) \/ CommitAckLost(r)
      <4>1. /\ pc[r] \in {"begin", "waiting"}
            /\ answer' = [answer EXCEPT ![r] = "error"]
            /\ UNCHANGED <<clock, rec, tok, req>>
        BY <3>2 DEF BeginFails, CommitAckLost, Return, Goto
      <4>2. req[r] # None /\ answer[r] = None
        BY <4>1, ConstantsAssumption DEF Inv, PcTx, InFlight, Connected
      <4>3. Given' = Given
        BY <4>1, <4>2, StepGiven DEF Answers
      <4>4. Promise!Fail(r)
        BY <4>1, <4>2, <4>3 DEF Promise!Fail
      <4>5. QED
        BY <4>4 DEF Promise!Next
    <3>3. QED
      BY <2>5, <3>1, <3>2 DEF Fault
  <2>6. CASE Tick
    <3>1. Given' = Given
      BY <2>6, StepGiven DEF Tick
    <3>2. QED
      BY <2>6, <3>1 DEF Tick, Promise!Tick, Promise!Next
  <2>7. CASE Crash \/ Quiescent \/ UNCHANGED vars
    BY <2>1, <2>7 DEF Crash, Quiescent, vars
  <2>8. QED
    BY <2>2, <2>3, <2>4, <2>5, <2>6, <2>7 DEF Next
<1>3. QED
  BY <1>1, <1>2, InvHolds, PTL DEF Spec, ImplementsPromise, Promise!Spec

=============================================================================
