----------------------- MODULE RepoProvisioningProofs -----------------------
(***************************************************************************)
(* Proofs about RepoProvisioning, for any number of requests, names,       *)
(* branches and ids and any set of faults.                                 *)
(***************************************************************************)
EXTENDS RepoProvisioning, TLAPS

-----------------------------------------------------------------------------
(***************************************************************************)
(* The inductive invariant.                                                *)
(***************************************************************************)

\* Where a handler is tells how far its transaction can be, and what it has
\* been given.
PcTx ==
  \A r \in Requests :
    /\ pc[r] # "idle" => input[r] \in Input
    /\ pc[r] \in {"idle", "select", "readCommit", "insert"} => tx[r] = "none"
    /\ pc[r] \in {"mkdir", "init", "symref", "commit"}
         => tx[r] \in {"open", "aborted"}
    /\ pc[r] = "waiting" => tx[r] \in {"committing", "committed", "aborted"}
    /\ pc[r] = "created" => tx[r] \in {"none", "committed"}
    /\ pc[r] = "undo" => tx[r] # "none"

\* A request that generated an id and may still use it.
Owner(r) == tx[r] # "none" \/ pc[r] = "insert"

\* Generated ids are their requests' own.
OwnIDs ==
  /\ \A r \in Requests : Owner(r) => repoID[r] \in RepoIDs
  /\ \A r, q \in Requests :
       (Owner(r) /\ Owner(q) /\ repoID[r] = repoID[q]) => r = q

\* Table repos holds exactly what committed transactions inserted.
RowsAreCommitted ==
  /\ \A r \in Requests : tx[r] = "committed" => row[repoID[r]] = input[r]
  /\ \A i \in RepoIDs : row[i] # None =>
       \E r \in Requests : tx[r] = "committed" /\ repoID[r] = i

\* The unique index: an unfinished transaction is alone with its name, among
\* unfinished transactions and among committed rows.
Unfinished(r) == tx[r] \in {"open", "committing"}

NamesAreExclusive ==
  /\ \A r, q \in Requests :
       (Unfinished(r) /\ Unfinished(q) /\ input[r].name = input[q].name) => r = q
  /\ \A r \in Requests, i \in RepoIDs :
       (Unfinished(r) /\ row[i] # None) => row[i].name # input[r].name

\* What a 201 will carry is a committed row with the requested name.
AnswersAreRows ==
  \A r \in Requests : pc[r] \in {"readCommit", "created"} =>
    /\ repoID[r] \in RepoIDs
    /\ row[repoID[r]] # None
    /\ row[repoID[r]].name = input[r].name

Inv ==
  /\ TypeOK /\ PcTx /\ OwnIDs /\ RowsAreCommitted /\ NamesAreExclusive
  /\ OneRepoPerName /\ AnswersAreRows

-----------------------------------------------------------------------------
\* No request has arrived and the table is empty.
LEMMA InitInv == Init => Inv
BY ConstantsAssumption
   DEF Init, Inv, TypeOK, PcTx, OwnIDs, Owner, RowsAreCommitted,
       NamesAreExclusive, Unfinished, OneRepoPerName, AnswersAreRows,
       PCs, TxStates

\* Every step keeps the variables in their types.
LEMMA StepType == TypeOK /\ PcTx /\ OwnIDs /\ [Next]_vars => TypeOK'
<1> SUFFICES ASSUME TypeOK, PcTx, OwnIDs, [Next]_vars
             PROVE  TypeOK'
  OBVIOUS
<1> USE ConstantsAssumption DEF TypeOK, PCs, InFlight, Final, TxStates, Goto
<1>1. ASSUME NEW r \in Requests, StartCreate(r) PROVE TypeOK'
  BY <1>1 DEF StartCreate
<1>2. ASSUME NEW r \in Requests, Handler(r) PROVE TypeOK'
  <2>1. CASE SelectFound(r) \/ SelectMissing(r)
    BY <2>1 DEF SelectFound, SelectMissing
  <2>2. CASE ReadCommit(r) \/ StatementCancelled(r) \/ GitFails(r)
             \/ CommitAcked(r) \/ CommitFails(r) \/ InsertConflict(r)
    BY <2>2 DEF ReadCommit, StatementCancelled, GitFails, CommitAcked,
                CommitFails, InsertConflict
  <2>3. CASE InsertRow(r) \/ SendCommit(r) \/ RollbackTx(r)
    BY <2>3 DEF InsertRow, SendCommit, RollbackTx
  <2>4. CASE GitInitBegins(r) \/ GitInit(r) \/ DeleteBareRepo(r)
    BY <2>4 DEF GitInitBegins, GitInit, DeleteBareRepo
  <2>5. CASE GitSymref(r)
    <3>1. input[r] \in Input
      BY <2>5 DEF GitSymref, PcTx
    <3>2. QED
      BY <2>5, <3>1 DEF GitSymref, Input
  <2>6. QED
    BY <1>2, <2>1, <2>2, <2>3, <2>4, <2>5 DEF Handler
<1>3. ASSUME NEW r \in Requests, Postgres(r) PROVE TypeOK'
  BY <1>3 DEF Postgres, ServerCommit, ServerAbort
<1>4. ASSUME NEW r \in Requests, Fault(r) PROVE TypeOK'
  BY <1>4 DEF Fault, Cancel, StatementFails, DatabaseDropsTx, CommitAckLost
<1>5. CASE Crash
  BY <1>5 DEF Crash
<1>6. CASE Quiescent \/ UNCHANGED vars
  BY <1>6 DEF Quiescent, vars
<1>7. QED
  BY <1>1, <1>2, <1>3, <1>4, <1>5, <1>6 DEF Next

(***************************************************************************)
(* Control and ids.                                                        *)
(***************************************************************************)

\* Every step keeps handler and transaction in step.
LEMMA StepPcTx == TypeOK /\ PcTx /\ [Next]_vars => PcTx'
<1> SUFFICES ASSUME TypeOK, PcTx, [Next]_vars
             PROVE  PcTx'
  OBVIOUS
<1> USE ConstantsAssumption DEF TypeOK, PcTx, PCs, InFlight, Final, TxStates, Goto
<1>1. ASSUME NEW r \in Requests, StartCreate(r) PROVE PcTx'
  BY <1>1 DEF StartCreate
<1>2. ASSUME NEW r \in Requests, Handler(r) PROVE PcTx'
  <2>1. CASE SelectFound(r) \/ SelectMissing(r) \/ ReadCommit(r)
    BY <2>1 DEF SelectFound, SelectMissing, ReadCommit
  <2>2. CASE InsertRow(r) \/ InsertConflict(r) \/ StatementCancelled(r)
    BY <2>2 DEF InsertRow, InsertConflict, StatementCancelled
  <2>3. CASE GitInitBegins(r) \/ GitInit(r) \/ GitSymref(r) \/ GitFails(r)
    BY <2>3 DEF GitInitBegins, GitInit, GitSymref, GitFails
  <2>4. CASE SendCommit(r) \/ CommitAcked(r) \/ CommitFails(r)
    BY <2>4 DEF SendCommit, CommitAcked, CommitFails
  <2>5. CASE DeleteBareRepo(r) \/ RollbackTx(r)
    BY <2>5 DEF DeleteBareRepo, RollbackTx
  <2>6. QED
    BY <1>2, <2>1, <2>2, <2>3, <2>4, <2>5 DEF Handler
<1>3. ASSUME NEW r \in Requests, Postgres(r) PROVE PcTx'
  BY <1>3 DEF Postgres, ServerCommit, ServerAbort
<1>4. ASSUME NEW r \in Requests, Fault(r) PROVE PcTx'
  BY <1>4 DEF Fault, Cancel, StatementFails, DatabaseDropsTx, CommitAckLost
<1>5. CASE Crash
  BY <1>5 DEF Crash
<1>6. CASE Quiescent \/ UNCHANGED vars
  BY <1>6 DEF Quiescent, vars
<1>7. QED
  BY <1>1, <1>2, <1>3, <1>4, <1>5, <1>6 DEF Next

\* What the steps leave alone.  A request that owns an id keeps it; its input
\* is fixed once it has started; a transaction that has ended stays as it is;
\* no step takes ownership but SelectMissing.
LEMMA StepFrame ==
  TypeOK /\ PcTx /\ [Next]_vars =>
    \A r \in Requests :
      /\ Owner(r) => repoID'[r] = repoID[r]
      /\ pc[r] # "idle" => input'[r] = input[r] /\ pc'[r] # "idle"
      /\ tx[r] = "committed" => tx'[r] = "committed"
      /\ Owner(r)' => Owner(r) \/ SelectMissing(r)
<1> SUFFICES ASSUME TypeOK, PcTx, [Next]_vars, NEW q \in Requests
             PROVE  /\ Owner(q) => repoID'[q] = repoID[q]
                    /\ pc[q] # "idle" => input'[q] = input[q] /\ pc'[q] # "idle"
                    /\ tx[q] = "committed" => tx'[q] = "committed"
                    /\ Owner(q)' => Owner(q) \/ SelectMissing(q)
  OBVIOUS
<1> DEFINE Goal == /\ Owner(q) => repoID'[q] = repoID[q]
                   /\ pc[q] # "idle" => input'[q] = input[q] /\ pc'[q] # "idle"
                   /\ tx[q] = "committed" => tx'[q] = "committed"
                   /\ Owner(q)' => Owner(q) \/ SelectMissing(q)
<1> USE DEF TypeOK, PcTx, PCs, InFlight, Final, TxStates, Goto, Owner
<1>1. ASSUME NEW r \in Requests, StartCreate(r) PROVE Goal
  BY <1>1 DEF StartCreate
<1>2. ASSUME NEW r \in Requests, Handler(r) PROVE Goal
  <2>1. CASE SelectFound(r) \/ ReadCommit(r)
    BY <2>1 DEF SelectFound, ReadCommit
  <2>2. CASE SelectMissing(r)
    BY <2>2 DEF SelectMissing
  <2>3. CASE InsertRow(r) \/ InsertConflict(r) \/ StatementCancelled(r)
    BY <2>3 DEF InsertRow, InsertConflict, StatementCancelled
  <2>4. CASE GitInitBegins(r) \/ GitInit(r) \/ GitSymref(r) \/ GitFails(r)
    BY <2>4 DEF GitInitBegins, GitInit, GitSymref, GitFails
  <2>5. CASE SendCommit(r) \/ CommitAcked(r) \/ CommitFails(r)
    BY <2>5 DEF SendCommit, CommitAcked, CommitFails
  <2>6. CASE DeleteBareRepo(r) \/ RollbackTx(r)
    BY <2>6 DEF DeleteBareRepo, RollbackTx
  <2>7. QED
    BY <1>2, <2>1, <2>2, <2>3, <2>4, <2>5, <2>6 DEF Handler
<1>3. ASSUME NEW r \in Requests, Postgres(r) PROVE Goal
  BY <1>3 DEF Postgres, ServerCommit, ServerAbort
<1>4. ASSUME NEW r \in Requests, Fault(r) PROVE Goal
  BY <1>4 DEF Fault, Cancel, StatementFails, DatabaseDropsTx, CommitAckLost
<1>5. CASE Crash
  BY <1>5 DEF Crash
<1>6. CASE Quiescent \/ UNCHANGED vars
  BY <1>6 DEF Quiescent, vars
<1>7. QED
  BY <1>1, <1>2, <1>3, <1>4, <1>5, <1>6 DEF Next

\* Only a request at its SELECT changes the id it holds.
LEMMA StepRepoID ==
  TypeOK /\ [Next]_vars =>
    \A r \in Requests : pc[r] # "select" => repoID'[r] = repoID[r]
<1> SUFFICES ASSUME TypeOK, [Next]_vars, NEW q \in Requests, pc[q] # "select"
             PROVE  repoID'[q] = repoID[q]
  OBVIOUS
<1>1. ASSUME NEW r \in Requests, SelectFound(r) \/ SelectMissing(r)
      PROVE  repoID'[q] = repoID[q]
  BY <1>1 DEF SelectFound, SelectMissing, Goto, TypeOK
<1>2. CASE UNCHANGED repoID
  BY <1>2
<1>3. UNCHANGED repoID \/ \E r \in Requests : SelectFound(r) \/ SelectMissing(r)
  BY DEF Next, vars, Handler, Postgres, Fault, StartCreate, ReadCommit, InsertRow,
         InsertConflict, StatementCancelled, GitInitBegins, GitInit, GitSymref,
         GitFails, SendCommit, CommitAcked, CommitFails, DeleteBareRepo,
         RollbackTx, ServerCommit, ServerAbort, Cancel, StatementFails,
         DatabaseDropsTx, CommitAckLost, Crash, Quiescent
<1>4. QED
  BY <1>1, <1>2, <1>3

\* Ids stay their requests' own: newUUID returns one that nobody has.
LEMMA StepOwnIDs == TypeOK /\ PcTx /\ OwnIDs /\ [Next]_vars => OwnIDs'
<1> SUFFICES ASSUME TypeOK, PcTx, OwnIDs, [Next]_vars
             PROVE  OwnIDs'
  OBVIOUS
<1>1. ASSUME NEW r \in Requests, SelectMissing(r) PROVE OwnIDs'
  <2>1. PICK i \in RepoIDs : /\ \A q \in Requests : repoID[q] # i
                             /\ repoID' = [repoID EXCEPT ![r] = i]
    BY <1>1 DEF SelectMissing
  <2>2. \A q \in Requests : q # r => (Owner(q)' <=> Owner(q)) /\ repoID'[q] = repoID[q]
    BY <1>1, <2>1 DEF SelectMissing, Goto, Owner, TypeOK
  <2>3. repoID'[r] = i
    BY <2>1 DEF TypeOK
  <2>4. QED
    BY <2>1, <2>2, <2>3 DEF OwnIDs
<1>2. CASE \A r \in Requests : ~SelectMissing(r)
  <2>1. \A r \in Requests : Owner(r)' => Owner(r) /\ repoID'[r] = repoID[r]
    BY <1>2, StepFrame
  <2>2. QED
    BY <2>1 DEF OwnIDs
<1>3. QED
  BY <1>1, <1>2

(***************************************************************************)
(* Rows and names.                                                         *)
(***************************************************************************)

\* Which steps write table repos, take an index entry or decide on a 201.
LEMMA StepSources ==
  TypeOK /\ PcTx /\ [Next]_vars =>
    /\ \/ \E r \in Requests : ServerCommit(r)
       \/ /\ row' = row
          /\ \A q \in Requests : tx'[q] = "committed" => tx[q] = "committed"
    /\ \A q \in Requests : Unfinished(q)' => Unfinished(q) \/ InsertRow(q)
    /\ \A q \in Requests : pc'[q] \in {"readCommit", "created"} =>
         pc[q] \in {"readCommit", "created"} \/ SelectFound(q) \/ CommitAcked(q)
<1> DEFINE Goal ==
      /\ \/ \E r \in Requests : ServerCommit(r)
         \/ /\ row' = row
            /\ \A q \in Requests : tx'[q] = "committed" => tx[q] = "committed"
      /\ \A q \in Requests : Unfinished(q)' => Unfinished(q) \/ InsertRow(q)
      /\ \A q \in Requests : pc'[q] \in {"readCommit", "created"} =>
           pc[q] \in {"readCommit", "created"} \/ SelectFound(q) \/ CommitAcked(q)
<1> SUFFICES ASSUME TypeOK, PcTx, [Next]_vars
             PROVE  Goal
  OBVIOUS
<1> USE DEF TypeOK, PcTx, PCs, InFlight, Final, TxStates, Goto, Unfinished
<1>1. ASSUME NEW r \in Requests, StartCreate(r) PROVE Goal
  BY <1>1 DEF StartCreate
<1>2. ASSUME NEW r \in Requests, Handler(r) PROVE Goal
  <2>1. CASE SelectFound(r)
    BY <2>1 DEF SelectFound
  <2>2. CASE ReadCommit(r) \/ SelectMissing(r)
    BY <2>2 DEF ReadCommit, SelectMissing
  <2>3. CASE InsertRow(r)
    BY <2>3 DEF InsertRow
  <2>4. CASE InsertConflict(r) \/ StatementCancelled(r)
    BY <2>4 DEF InsertConflict, StatementCancelled
  <2>5. CASE GitInitBegins(r) \/ GitInit(r) \/ GitSymref(r) \/ GitFails(r)
    BY <2>5 DEF GitInitBegins, GitInit, GitSymref, GitFails
  <2>6. CASE CommitAcked(r)
    BY <2>6 DEF CommitAcked
  <2>7. CASE SendCommit(r) \/ CommitFails(r)
    BY <2>7 DEF SendCommit, CommitFails
  <2>8. CASE DeleteBareRepo(r) \/ RollbackTx(r)
    BY <2>8 DEF DeleteBareRepo, RollbackTx
  <2>9. QED
    BY <1>2, <2>1, <2>2, <2>3, <2>4, <2>5, <2>6, <2>7, <2>8 DEF Handler
<1>3. ASSUME NEW r \in Requests, ServerCommit(r) PROVE Goal
  BY <1>3 DEF ServerCommit
<1>4. ASSUME NEW r \in Requests, ServerAbort(r) PROVE Goal
  BY <1>4 DEF ServerAbort
<1>5. ASSUME NEW r \in Requests, Fault(r) PROVE Goal
  BY <1>5 DEF Fault, Cancel, StatementFails, DatabaseDropsTx, CommitAckLost
<1>6. CASE Crash
  BY <1>6 DEF Crash
<1>7. CASE Quiescent \/ UNCHANGED vars
  BY <1>7 DEF Quiescent, vars
<1>8. QED
  BY <1>1, <1>2, <1>3, <1>4, <1>5, <1>6, <1>7 DEF Next, Postgres

\* A committed row is never written again.
LEMMA RowsAreKept ==
  Inv /\ [Next]_vars => \A i \in RepoIDs : row[i] # None => row'[i] = row[i]
<1> SUFFICES ASSUME Inv, [Next]_vars, NEW i \in RepoIDs, row[i] # None
             PROVE  row'[i] = row[i]
  OBVIOUS
<1> USE DEF Inv
<1>1. PICK q \in Requests : tx[q] = "committed" /\ repoID[q] = i
  BY DEF RowsAreCommitted
<1>2. ASSUME NEW r \in Requests, ServerCommit(r) PROVE row'[i] = row[i]
  <2>1. repoID[r] # i
    BY <1>1, <1>2 DEF ServerCommit, OwnIDs, Owner
  <2>2. QED
    BY <1>2, <2>1 DEF ServerCommit, TypeOK
<1>3. QED
  BY <1>2, StepSources

\* A row appears when the transaction that inserted it commits.
LEMMA StepRowsAreCommitted == Inv /\ [Next]_vars => RowsAreCommitted'
<1> SUFFICES ASSUME Inv, [Next]_vars
             PROVE  RowsAreCommitted'
  OBVIOUS
<1> USE DEF Inv
<1>0. \A r \in Requests : tx[r] # "none" =>
        repoID'[r] = repoID[r] /\ input'[r] = input[r] /\ repoID[r] \in RepoIDs
  BY StepFrame DEF Owner, PcTx, OwnIDs
<1>1. ASSUME NEW r \in Requests, ServerCommit(r) PROVE RowsAreCommitted'
  <2>1. \A q \in Requests : tx'[q] = "committed" => q = r \/ tx[q] = "committed"
    BY <1>1 DEF ServerCommit, TypeOK
  <2>2. tx'[r] = "committed" /\ row'[repoID[r]] = input[r]
    BY <1>0, <1>1 DEF ServerCommit, TypeOK
  <2>3. \A q \in Requests : tx[q] = "committed" => row'[repoID[q]] = input[q]
    <3> SUFFICES ASSUME NEW q \in Requests, tx[q] = "committed"
                 PROVE  row'[repoID[q]] = input[q]
      OBVIOUS
    <3>1. repoID[q] # repoID[r]
      BY <1>1 DEF ServerCommit, OwnIDs, Owner
    <3>2. QED
      BY <1>0, <1>1, <3>1 DEF ServerCommit, TypeOK, RowsAreCommitted
  <2>4. \A i \in RepoIDs : row'[i] # None => i = repoID[r] \/ row[i] # None
    BY <1>1 DEF ServerCommit, TypeOK
  <2>5. \A q \in Requests : tx[q] = "committed" => tx'[q] = "committed"
    BY StepFrame
  <2>6. tx[r] # "none"
    BY <1>1 DEF ServerCommit
  <2>7. \A q \in Requests : tx'[q] = "committed" => row'[repoID'[q]] = input'[q]
    BY <1>0, <2>1, <2>2, <2>3, <2>6
  <2>8. \A i \in RepoIDs : row'[i] # None =>
          \E q \in Requests : tx'[q] = "committed" /\ repoID'[q] = i
    BY <1>0, <2>2, <2>4, <2>5, <2>6 DEF RowsAreCommitted
  <2>9. QED
    BY <2>7, <2>8 DEF RowsAreCommitted
<1>2. CASE /\ row' = row
           /\ \A q \in Requests : tx'[q] = "committed" => tx[q] = "committed"
  <2>1. \A q \in Requests : tx[q] = "committed" => tx'[q] = "committed"
    BY StepFrame
  <2>2. QED
    BY <1>0, <1>2, <2>1 DEF RowsAreCommitted
<1>3. QED
  BY <1>1, <1>2, StepSources

\* The unique index keeps a name with one unfinished or committed
\* transaction.
LEMMA StepNames ==
  Inv /\ [Next]_vars => NamesAreExclusive' /\ OneRepoPerName'
<1> SUFFICES ASSUME Inv, [Next]_vars
             PROVE  NamesAreExclusive' /\ OneRepoPerName'
  OBVIOUS
<1> USE DEF Inv
<1>0. \A r \in Requests : pc[r] # "idle" => input'[r] = input[r]
  BY StepFrame
<1>1. \A r \in Requests : Unfinished(r) => pc[r] # "idle"
  BY DEF Unfinished, PcTx, TypeOK, TxStates
<1>2. ASSUME NEW r \in Requests, InsertRow(r)
      PROVE  NamesAreExclusive' /\ OneRepoPerName'
  <2>1. row' = row /\ input' = input
    BY <1>2 DEF InsertRow
  <2>2. \A q \in Requests : Unfinished(q)' => q = r \/ Unfinished(q)
    BY <1>2 DEF InsertRow, Unfinished, TypeOK
  <2>3. \A q \in Requests : q # r /\ Unfinished(q) => input[q].name # input[r].name
    BY <1>2 DEF InsertRow, Holds, Unfinished
  <2>4. \A i \in RepoIDs : row[i] # None => row[i].name # input[r].name
    BY <1>2 DEF InsertRow, NameTaken
  <2>5. QED
    BY <2>1, <2>2, <2>3, <2>4 DEF NamesAreExclusive, OneRepoPerName, Unfinished
<1>3. ASSUME NEW r \in Requests, ServerCommit(r)
      PROVE  NamesAreExclusive' /\ OneRepoPerName'
  <2>1. \A q \in Requests : Unfinished(q)' => q # r /\ Unfinished(q)
    BY <1>3 DEF ServerCommit, Unfinished, TypeOK
  <2>2. repoID[r] \in RepoIDs /\ Unfinished(r) /\ input' = input
    BY <1>3 DEF ServerCommit, OwnIDs, Owner, Unfinished
  <2>3. row' = [row EXCEPT ![repoID[r]] = input[r]]
    BY <1>3 DEF ServerCommit
  <2>4. \A i \in RepoIDs :
          (row'[i] = input[r] /\ i = repoID[r]) \/ row'[i] = row[i]
    BY <2>2, <2>3 DEF TypeOK
  <2>5. NamesAreExclusive'
    BY <2>1, <2>2, <2>4 DEF NamesAreExclusive
  <2>6. OneRepoPerName'
    BY <2>2, <2>4 DEF NamesAreExclusive, OneRepoPerName
  <2>7. QED
    BY <2>5, <2>6
<1>4. CASE /\ row' = row
           /\ \A q \in Requests : Unfinished(q)' => Unfinished(q)
  BY <1>0, <1>1, <1>4 DEF NamesAreExclusive, OneRepoPerName
<1>5. QED
  BY <1>2, <1>3, <1>4, StepSources

\* A request that answers 201 names a row of the table.
LEMMA StepAnswers == Inv /\ [Next]_vars => AnswersAreRows'
<1> SUFFICES ASSUME Inv, [Next]_vars, NEW r \in Requests,
                    pc'[r] \in {"readCommit", "created"}
             PROVE  /\ repoID'[r] \in RepoIDs
                    /\ row'[repoID'[r]] # None
                    /\ row'[repoID'[r]].name = input'[r].name
  BY DEF AnswersAreRows
<1> USE DEF Inv
<1>1. CASE pc[r] \in {"readCommit", "created"}
  <2>1. repoID[r] \in RepoIDs /\ row[repoID[r]] # None
          /\ row[repoID[r]].name = input[r].name
    BY <1>1 DEF AnswersAreRows
  <2>2. input'[r] = input[r]
    BY <1>1, StepFrame
  <2>3. repoID'[r] = repoID[r]
    BY <1>1, StepRepoID
  <2>4. QED
    BY <2>1, <2>2, <2>3, RowsAreKept
<1>2. CASE SelectFound(r)
  BY <1>2 DEF SelectFound, Goto, TypeOK
<1>3. CASE CommitAcked(r)
  <2>1. tx[r] = "committed" /\ pc[r] = "waiting" /\ UNCHANGED <<repoID, row, input>>
    BY <1>3 DEF CommitAcked, Goto
  <2>2. row[repoID[r]] = input[r] /\ repoID[r] \in RepoIDs /\ input[r] \in Input
    BY <2>1 DEF RowsAreCommitted, OwnIDs, Owner, PcTx
  <2>3. QED
    BY <2>1, <2>2, ConstantsAssumption
<1>4. QED
  BY <1>1, <1>2, <1>3, StepSources

\* Inv is inductive.
LEMMA StepInv == Inv /\ [Next]_vars => Inv'
BY StepType, StepPcTx, StepOwnIDs, StepRowsAreCommitted, StepNames, StepAnswers
   DEF Inv

\* Inv is an invariant.
LEMMA InvHolds == Spec => []Inv
<1>1. Init => Inv
  BY InitInv
<1>2. Inv /\ [Next]_vars => Inv'
  BY StepInv
<1>3. QED
  BY <1>1, <1>2, PTL DEF Spec

(***************************************************************************)
(* The directories.                                                        *)
(***************************************************************************)

\* Only the owner of an id touches its directory: while it initialises it, or
\* when it undoes that with a live context.
LEMMA StepHead ==
  Inv /\ [Next]_vars =>
    \A i \in RepoIDs : head'[i] # head[i] =>
      \E r \in Requests :
        /\ Owner(r) /\ repoID[r] = i
        /\ \/ pc[r] \in {"mkdir", "init", "symref"}
           \/ pc[r] = "undo" /\ ctx[r] /\ DeleteBareRepo(r)
<1> SUFFICES ASSUME Inv, [Next]_vars, NEW i \in RepoIDs, head'[i] # head[i]
             PROVE  \E r \in Requests :
                      /\ Owner(r) /\ repoID[r] = i
                      /\ \/ pc[r] \in {"mkdir", "init", "symref"}
                         \/ pc[r] = "undo" /\ ctx[r] /\ DeleteBareRepo(r)
  OBVIOUS
<1>1. head' # head
  OBVIOUS
<1>2. PICK r \in Requests :
        GitInitBegins(r) \/ GitInit(r) \/ GitSymref(r) \/ DeleteBareRepo(r)
  BY <1>1 DEF Next, vars, Handler, Postgres, Fault, StartCreate, SelectFound,
       ReadCommit, SelectMissing, InsertRow, InsertConflict, StatementCancelled,
       GitFails, SendCommit, CommitAcked, CommitFails, RollbackTx, ServerCommit,
       ServerAbort, Cancel, StatementFails, DatabaseDropsTx, CommitAckLost,
       Crash, Quiescent
<1>3. \/ pc[r] \in {"mkdir", "init", "symref"}
      \/ pc[r] = "undo" /\ ctx[r] /\ DeleteBareRepo(r)
  BY <1>1, <1>2 DEF GitInitBegins, GitInit, GitSymref, DeleteBareRepo, Goto
<1>4. Owner(r)
  BY <1>3 DEF Inv, PcTx, Owner
<1>5. repoID[r] = i
  BY <1>2 DEF GitInitBegins, GitInit, GitSymref, DeleteBareRepo, Inv, TypeOK
<1>6. QED
  BY <1>3, <1>4, <1>5

\* The directory of a request that is about to commit, waits for its COMMIT,
\* or was told of it, is complete.
CommitsAreBacked ==
  \A r \in Requests :
    (\/ pc[r] \in {"commit", "waiting"}
     \/ pc[r] = "created" /\ tx[r] = "committed")
      => head[repoID[r]] = input[r].branch

\* COMMIT is sent after git init and git symbolic-ref have succeeded.
LEMMA StepCommitsAreBacked ==
  Inv /\ CommitsAreBacked /\ [Next]_vars => CommitsAreBacked'
<1> DEFINE C(r) == \/ pc[r] \in {"commit", "waiting"}
                   \/ pc[r] = "created" /\ tx[r] = "committed"
<1> SUFFICES ASSUME Inv, CommitsAreBacked, [Next]_vars, NEW r \in Requests, C(r)'
             PROVE  head'[repoID'[r]] = input'[r].branch
  BY DEF CommitsAreBacked
<1> USE DEF Inv
<1>1. C(r) \/ GitSymref(r)
  <2> USE DEF TypeOK, PcTx, PCs, InFlight, Final, TxStates, Goto
  <2>1. ASSUME NEW q \in Requests, StartCreate(q) PROVE C(r)
    BY <2>1 DEF StartCreate
  <2>2. ASSUME NEW q \in Requests, Handler(q) PROVE C(r) \/ GitSymref(r)
    <3>1. CASE SelectFound(q) \/ ReadCommit(q) \/ SelectMissing(q)
      BY <3>1 DEF SelectFound, ReadCommit, SelectMissing
    <3>2. CASE InsertRow(q) \/ InsertConflict(q) \/ StatementCancelled(q)
      BY <3>2 DEF InsertRow, InsertConflict, StatementCancelled
    <3>3. CASE GitInitBegins(q) \/ GitInit(q) \/ GitFails(q)
      BY <3>3 DEF GitInitBegins, GitInit, GitFails
    <3>4. CASE GitSymref(q)
      BY <3>4 DEF GitSymref
    <3>5. CASE SendCommit(q) \/ CommitAcked(q) \/ CommitFails(q)
      BY <3>5 DEF SendCommit, CommitAcked, CommitFails
    <3>6. CASE DeleteBareRepo(q) \/ RollbackTx(q)
      BY <3>6 DEF DeleteBareRepo, RollbackTx
    <3>7. QED
      BY <2>2, <3>1, <3>2, <3>3, <3>4, <3>5, <3>6 DEF Handler
  <2>3. ASSUME NEW q \in Requests, Postgres(q) PROVE C(r)
    BY <2>3 DEF Postgres, ServerCommit, ServerAbort
  <2>4. ASSUME NEW q \in Requests, Fault(q) PROVE C(r)
    BY <2>4 DEF Fault, Cancel, StatementFails, DatabaseDropsTx, CommitAckLost
  <2>5. CASE Crash
    BY <2>5 DEF Crash
  <2>6. CASE Quiescent \/ UNCHANGED vars
    BY <2>6 DEF Quiescent, vars
  <2>7. QED
    BY <2>1, <2>2, <2>3, <2>4, <2>5, <2>6 DEF Next
<1>2. CASE C(r)
  <2>1. Owner(r) /\ pc[r] \notin {"idle", "mkdir", "init", "symref", "undo"}
    BY <1>2 DEF PcTx, Owner
  <2>2. repoID'[r] = repoID[r] /\ input'[r] = input[r] /\ repoID[r] \in RepoIDs
    BY <2>1, StepFrame DEF OwnIDs
  <2>3. head'[repoID[r]] = head[repoID[r]]
    BY <2>1, <2>2, StepHead DEF OwnIDs
  <2>4. QED
    BY <1>2, <2>2, <2>3 DEF CommitsAreBacked
<1>3. CASE GitSymref(r)
  <2>1. Owner(r)
    BY <1>3 DEF GitSymref, Goto, PcTx, Owner
  <2>2. QED
    BY <1>3, <2>1 DEF GitSymref, OwnIDs, TypeOK
<1>4. QED
  BY <1>1, <1>2, <1>3

\* Without lost acknowledgements, a transaction that is committing or has
\* committed has its complete directory, and its request does not undo it.
CommittedIsBacked ==
  \A r \in Requests : tx[r] \in {"committing", "committed"} =>
    /\ head[repoID[r]] = input[r].branch
    /\ pc[r] = "undo" => ~ctx[r]

\* Without a lost acknowledgement the storage of a committed row is never
\* deleted: only a request whose transaction is gone calls DeleteBareRepo.
LEMMA StepCommittedIsBacked ==
  ASSUME "lostAck" \notin Faults
  PROVE  Inv /\ CommitsAreBacked /\ CommittedIsBacked /\ [Next]_vars
           => CommittedIsBacked'
<1> DEFINE D(r) == tx[r] \in {"committing", "committed"}
<1> SUFFICES ASSUME Inv, CommitsAreBacked, CommittedIsBacked, [Next]_vars,
                    NEW r \in Requests, D(r)'
             PROVE  /\ head'[repoID'[r]] = input'[r].branch
                    /\ pc'[r] = "undo" => ~ctx'[r]
  BY DEF CommittedIsBacked
<1> USE DEF Inv
<1>1. /\ D(r) \/ SendCommit(r)
      /\ (D(r) /\ pc'[r] = "undo") => ~ctx'[r]
  <2> USE DEF TypeOK, PcTx, PCs, InFlight, Final, TxStates, Goto, CommittedIsBacked
  <2> DEFINE Goal == /\ D(r) \/ SendCommit(r)
                     /\ (D(r) /\ pc'[r] = "undo") => ~ctx'[r]
  <2>1. ASSUME NEW q \in Requests, StartCreate(q) PROVE Goal
    BY <2>1 DEF StartCreate
  <2>2. ASSUME NEW q \in Requests, Handler(q) PROVE Goal
    <3>1. CASE SelectFound(q) \/ ReadCommit(q) \/ SelectMissing(q)
      BY <3>1 DEF SelectFound, ReadCommit, SelectMissing
    <3>2. CASE InsertRow(q) \/ InsertConflict(q) \/ StatementCancelled(q)
      BY <3>2 DEF InsertRow, InsertConflict, StatementCancelled
    <3>3. CASE GitInitBegins(q) \/ GitInit(q) \/ GitSymref(q) \/ GitFails(q)
      BY <3>3 DEF GitInitBegins, GitInit, GitSymref, GitFails
    <3>4. CASE SendCommit(q)
      BY <3>4 DEF SendCommit
    <3>5. CASE CommitAcked(q) \/ CommitFails(q)
      BY <3>5 DEF CommitAcked, CommitFails
    <3>6. CASE DeleteBareRepo(q) \/ RollbackTx(q)
      BY <3>6 DEF DeleteBareRepo, RollbackTx
    <3>7. QED
      BY <2>2, <3>1, <3>2, <3>3, <3>4, <3>5, <3>6 DEF Handler
  <2>3. ASSUME NEW q \in Requests, Postgres(q) PROVE Goal
    BY <2>3 DEF Postgres, ServerCommit, ServerAbort
  <2>4. ASSUME NEW q \in Requests, Fault(q) PROVE Goal
    BY <2>4 DEF Fault, Cancel, StatementFails, DatabaseDropsTx, CommitAckLost
  <2>5. CASE Crash
    BY <2>5 DEF Crash
  <2>6. CASE Quiescent \/ UNCHANGED vars
    BY <2>6 DEF Quiescent, vars
  <2>7. QED
    BY <2>1, <2>2, <2>3, <2>4, <2>5, <2>6 DEF Next
<1>2. CASE D(r)
  <2>1. Owner(r) /\ pc[r] \notin {"idle", "mkdir", "init", "symref"}
          /\ ~(pc[r] = "undo" /\ ctx[r])
    BY <1>2 DEF PcTx, Owner, CommittedIsBacked
  <2>2. repoID'[r] = repoID[r] /\ input'[r] = input[r] /\ repoID[r] \in RepoIDs
    BY <2>1, StepFrame DEF OwnIDs
  <2>3. head'[repoID[r]] = head[repoID[r]]
    BY <2>1, <2>2, StepHead DEF OwnIDs
  <2>4. QED
    BY <1>1, <1>2, <2>2, <2>3 DEF CommittedIsBacked
<1>3. CASE SendCommit(r)
  BY <1>3 DEF SendCommit, Goto, CommitsAreBacked, TypeOK
<1>4. QED
  BY <1>1, <1>2, <1>3

\* Without lost acknowledgements and with a RemoveAll that works, a request that
\* failed after its INSERT, with its context still live, has deleted its
\* directory, and its transaction cannot commit any more.
UndoneWhenFailed ==
  \A r \in Requests :
    (pc[r] \in {"rollback", "failed"} /\ tx[r] # "none" /\ ctx[r]) =>
      /\ head[repoID[r]] = NoDir
      /\ tx[r] \in {"open", "aborted"}
      /\ pc[r] = "failed" => tx[r] = "aborted"

\* A request reaches the deferred rollback after its INSERT only through
\* DeleteBareRepo, and nobody else has its directory.
LEMMA StepUndoneWhenFailed ==
  ASSUME "lostAck" \notin Faults, "rm" \notin Faults
  PROVE  Inv /\ CommittedIsBacked /\ UndoneWhenFailed /\ [Next]_vars => UndoneWhenFailed'
<1> DEFINE F(r) == pc[r] \in {"rollback", "failed"} /\ tx[r] # "none" /\ ctx[r]
           E(r) == tx[r] \in {"open", "aborted"} /\ (pc[r] = "failed" => tx[r] = "aborted")
<1> SUFFICES ASSUME Inv, CommittedIsBacked, UndoneWhenFailed, [Next]_vars,
                    NEW r \in Requests, F(r)'
             PROVE  head'[repoID'[r]] = NoDir /\ E(r)'
  BY DEF UndoneWhenFailed
<1> USE DEF Inv
<1>1. (F(r) \/ DeleteBareRepo(r)) /\ (F(r) => E(r)')
  <2>0. F(r) => E(r)
    BY DEF UndoneWhenFailed
  <2> USE <2>0 DEF TypeOK, PcTx, PCs, InFlight, Final, TxStates, Goto
  <2> DEFINE Goal == (F(r) \/ DeleteBareRepo(r)) /\ (F(r) => E(r)')
  <2>1. ASSUME NEW q \in Requests, StartCreate(q) PROVE Goal
    BY <2>1 DEF StartCreate
  <2>2. ASSUME NEW q \in Requests, Handler(q) PROVE Goal
    <3>1. CASE SelectFound(q) \/ ReadCommit(q) \/ SelectMissing(q)
      BY <3>1 DEF SelectFound, ReadCommit, SelectMissing
    <3>2. CASE InsertRow(q) \/ InsertConflict(q) \/ StatementCancelled(q)
      BY <3>2 DEF InsertRow, InsertConflict, StatementCancelled
    <3>3. CASE GitInitBegins(q) \/ GitInit(q) \/ GitSymref(q) \/ GitFails(q)
      BY <3>3 DEF GitInitBegins, GitInit, GitSymref, GitFails
    <3>4. CASE SendCommit(q) \/ CommitAcked(q) \/ CommitFails(q)
      BY <3>4 DEF SendCommit, CommitAcked, CommitFails
    <3>5. CASE DeleteBareRepo(q)
      BY <3>5 DEF DeleteBareRepo
    <3>6. CASE RollbackTx(q)
      BY <3>6 DEF RollbackTx
    <3>7. QED
      BY <2>2, <3>1, <3>2, <3>3, <3>4, <3>5, <3>6 DEF Handler
  <2>3. ASSUME NEW q \in Requests, Postgres(q) PROVE Goal
    BY <2>3 DEF Postgres, ServerCommit, ServerAbort
  <2>4. ASSUME NEW q \in Requests, Fault(q) PROVE Goal
    BY <2>4 DEF Fault, Cancel, StatementFails, DatabaseDropsTx, CommitAckLost
  <2>5. CASE Crash
    BY <2>5 DEF Crash
  <2>6. CASE Quiescent \/ UNCHANGED vars
    BY <2>6 DEF Quiescent, vars
  <2>7. QED
    BY <2>1, <2>2, <2>3, <2>4, <2>5, <2>6 DEF Next
<1>2. CASE F(r)
  <2>1. Owner(r) /\ pc[r] \notin {"mkdir", "init", "symref", "undo"}
    BY <1>2 DEF Owner
  <2>2. repoID'[r] = repoID[r] /\ repoID[r] \in RepoIDs
    BY <2>1, StepFrame DEF OwnIDs
  <2>3. head'[repoID[r]] = head[repoID[r]]
    BY <2>1, <2>2, StepHead DEF OwnIDs
  <2>4. QED
    BY <1>1, <1>2, <2>2, <2>3 DEF UndoneWhenFailed
<1>3. CASE DeleteBareRepo(r)
  <2>1. /\ pc[r] = "undo" /\ pc'[r] = "rollback" /\ UNCHANGED <<ctx, tx, repoID>>
    BY <1>3 DEF DeleteBareRepo, Goto, TypeOK
  <2>2. ctx[r] /\ tx[r] # "none"
    BY <2>1
  <2>3. repoID[r] \in RepoIDs
    BY <2>2 DEF OwnIDs, Owner
  <2>4. head'[repoID[r]] = NoDir
    BY <1>3, <2>2, <2>3 DEF DeleteBareRepo, TypeOK
  <2>5. tx[r] \in {"open", "aborted"}
    BY <2>1, <2>2 DEF CommittedIsBacked, TypeOK, TxStates
  <2>6. QED
    BY <2>1, <2>4, <2>5
<1>4. QED
  BY <1>1, <1>2, <1>3

-----------------------------------------------------------------------------
(***************************************************************************)
(* Theorems.                                                               *)
(***************************************************************************)

\* The variables of CreateRepo keep their types.
THEOREM TypeCorrect == Spec => []TypeOK
<1>1. Inv => TypeOK
  BY DEF Inv
<1>2. QED
  BY <1>1, InvHolds, PTL

\* For any number of concurrent CreateRepo calls and under every fault, table
\* repos never holds two rows with one (namespace, name).
THEOREM NamesStayUnique == Spec => []OneRepoPerName
<1>1. Inv => OneRepoPerName
  BY DEF Inv
<1>2. QED
  BY <1>1, InvHolds, PTL

\* Under every fault, all 201 answers for a name carry the id of the one
\* durable repository with that name.
THEOREM AnswersAgree == Spec => []AcknowledgedReposAgree
<1>1. Inv => AcknowledgedReposAgree
  BY DEF Inv, AnswersAreRows, OneRepoPerName, AcknowledgedReposAgree
<1>2. QED
  BY <1>1, InvHolds, PTL

\* Under every fault, the request that created a repository and was told so
\* has a complete bare repository on disk.
THEOREM CreatorIsBacked == Spec => []CreatorAnswerIsBacked
<1>1. Init => CommitsAreBacked
  BY DEF Init, CommitsAreBacked
<1>2. Inv /\ CommitsAreBacked /\ [Next]_vars => CommitsAreBacked'
  BY StepCommitsAreBacked
<1>3. CommitsAreBacked => CreatorAnswerIsBacked
  BY DEF CommitsAreBacked, CreatorAnswerIsBacked
<1>4. QED
  BY <1>1, <1>2, <1>3, InvHolds, PTL DEF Spec

\* Without lost acknowledgements these three are inductive together.
LEMMA BackedHolds ==
  ASSUME "lostAck" \notin Faults
  PROVE  Spec => [](Inv /\ CommitsAreBacked /\ CommittedIsBacked)
<1> DEFINE I == Inv /\ CommitsAreBacked /\ CommittedIsBacked
<1>1. Init => I
  BY InitInv DEF Init, CommitsAreBacked, CommittedIsBacked
<1>2. I /\ [Next]_vars => I'
  BY StepInv, StepCommitsAreBacked, StepCommittedIsBacked
<1>3. QED
  BY <1>1, <1>2, PTL DEF Spec

\* As long as no COMMIT acknowledgement is lost, every row of table repos has
\* its complete bare repository on disk.
THEOREM StorageIsBehindEveryRow ==
  ASSUME "lostAck" \notin Faults
  PROVE  Spec => []StorageBehindEveryRow
<1>1. Inv /\ CommittedIsBacked => StorageBehindEveryRow
  BY DEF Inv, RowsAreCommitted, CommittedIsBacked, StorageBehindEveryRow
<1>2. QED
  BY <1>1, BackedHolds, PTL

\* As long as no COMMIT acknowledgement is lost, nothing any request does ever
\* touches the row or the directory of a repository some client was told about.
THEOREM AcknowledgedReposAreKept ==
  ASSUME "lostAck" \notin Faults
  PROVE  Spec => AcknowledgedRepoIsKept
<1> DEFINE I == Inv /\ CommitsAreBacked /\ CommittedIsBacked
           Kept == \A r \in Requests : pc[r] = "created" =>
                     /\ row'[repoID[r]] = row[repoID[r]]
                     /\ head'[repoID[r]] = head[repoID[r]]
<1>1. I /\ [Next]_vars => Kept
  <2> SUFFICES ASSUME I, [Next]_vars, NEW r \in Requests, pc[r] = "created"
               PROVE  /\ row'[repoID[r]] = row[repoID[r]]
                      /\ head'[repoID[r]] = head[repoID[r]]
    OBVIOUS
  <2>1. repoID[r] \in RepoIDs /\ row[repoID[r]] # None
    BY DEF Inv, AnswersAreRows
  <2>2. PICK q \in Requests : tx[q] = "committed" /\ repoID[q] = repoID[r]
    BY <2>1 DEF Inv, RowsAreCommitted
  <2>3. Owner(q) /\ pc[q] \notin {"mkdir", "init", "symref"}
          /\ ~(pc[q] = "undo" /\ ctx[q])
    BY <2>2 DEF Inv, PcTx, Owner, CommittedIsBacked
  <2>4. head'[repoID[r]] = head[repoID[r]]
    BY <2>1, <2>2, <2>3, StepHead DEF Inv, OwnIDs
  <2>5. QED
    BY <2>1, <2>4, RowsAreKept
<1>2. I /\ [Next]_vars => [Kept]_vars
  BY <1>1
<1>3. AcknowledgedRepoIsKept <=> [][Kept]_vars
  BY DEF AcknowledgedRepoIsKept
<1>4. QED
  BY <1>2, <1>3, BackedHolds, PTL DEF Spec

\* As long as no COMMIT acknowledgement is lost and RemoveAll works, a CreateRepo
\* that returned an error after its INSERT to a client that is still connected
\* has left neither a row nor a directory, whatever else fails.
THEOREM FailuresLeaveNothing ==
  ASSUME "lostAck" \notin Faults, "rm" \notin Faults
  PROVE  Spec => []FailedCreateLeavesNothing
<1>1. Init => UndoneWhenFailed
  BY DEF Init, UndoneWhenFailed
<1>2. Inv /\ CommittedIsBacked /\ UndoneWhenFailed /\ [Next]_vars => UndoneWhenFailed'
  BY StepUndoneWhenFailed
<1>3. Inv /\ UndoneWhenFailed => FailedCreateLeavesNothing
  <2> SUFFICES ASSUME Inv, UndoneWhenFailed, NEW r \in Requests, pc[r] = "failed", tx[r] # "none", ctx[r]
               PROVE  row[repoID[r]] = None /\ head[repoID[r]] = NoDir
    BY DEF FailedCreateLeavesNothing
  <2>1. head[repoID[r]] = NoDir /\ tx[r] = "aborted" /\ Owner(r) /\ repoID[r] \in RepoIDs
    BY DEF UndoneWhenFailed, Inv, OwnIDs, Owner
  <2>2. ASSUME row[repoID[r]] # None PROVE FALSE
    <3>1. PICK q \in Requests : tx[q] = "committed" /\ repoID[q] = repoID[r]
      BY <2>1, <2>2 DEF Inv, RowsAreCommitted
    <3>2. q = r
      BY <2>1, <3>1 DEF Inv, OwnIDs, Owner
    <3>3. QED
      BY <2>1, <3>1, <3>2
  <2>3. QED
    BY <2>1, <2>2
<1>4. QED
  BY <1>1, <1>2, <1>3, BackedHolds, PTL DEF Spec
=============================================================================
