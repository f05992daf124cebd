-------------------------- MODULE RepoProvisioning --------------------------
(***************************************************************************)
(* Creating repositories in the Postgres deployment: the handler           *)
(* POST /v1/repos, postgresRepoStore.CreateRepo and filesystemGitStorage.  *)
(*                                                                         *)
(* One request runs SELECT by name, newUUID, INSERT, git init, git         *)
(* symbolic-ref and COMMIT, so a repository exists in two stores that      *)
(* share no transaction: a row in Postgres and a directory on disk.  The   *)
(* module interleaves any number of such requests, statement by statement, *)
(* with the faults the code has paths for: a cancelled request context,    *)
(* failing git commands, failing statements, a lost COMMIT                 *)
(* acknowledgement, and a crash of the process.                            *)
(*                                                                         *)
(* The client side of a request is pc/ctx/input/repoID; the Postgres side  *)
(* is tx (the state of the request's transaction) and row (committed       *)
(* rows).  The two differ after a lost acknowledgement, which is where     *)
(* the interesting cases are.                                              *)
(***************************************************************************)
EXTENDS Naturals

CONSTANTS
  Requests,       \* POST /v1/repos calls, each made once
  Names,          \* "namespace/name" keys
  Branches,       \* default branch names, GitInitBranch among them
  RepoIDs,        \* UUIDs newUUID can return
  GitInitBranch,  \* the HEAD that git init --bare writes before symbolic-ref
  NoDir,          \* no directory repos/<id>.git
  Partial,        \* a directory that git init or RemoveAll left half done
  None,           \* no value
  Faults          \* the faults this instance admits

FaultKinds == {"cancel",    \* the client goes away: r.Context() is done
               "git",       \* mkdir or a git command fails
               "rm",        \* RemoveAll fails half way
               "db",        \* a statement fails and Postgres drops the transaction
               "lostAck",   \* the connection breaks while COMMIT is outstanding
               "crash"}     \* the process dies; Postgres and the disk survive

Input == [name : Names, branch : Branches]

ASSUME ConstantsAssumption ==
  /\ GitInitBranch \in Branches
  /\ NoDir \notin Branches /\ Partial \notin Branches /\ NoDir # Partial
  /\ None \notin RepoIDs /\ None \notin Input
  /\ Faults \subseteq FaultKinds

VARIABLES
  pc,      \* where the handler of each request is
  ctx,     \* TRUE while the request's context is live
  input,   \* the validated createRepoInput of each request
  repoID,  \* the id the request generated or found
  tx,      \* the request's transaction, as Postgres sees it
  row,     \* committed rows of table repos, by id
  head     \* repos/<id>.git on disk: NoDir, Partial, or what HEAD points to

vars == <<pc, ctx, input, repoID, tx, row, head>>

InFlight == {"select", "readCommit", "insert", "mkdir", "init", "symref",
             "commit", "waiting", "undo", "rollback"}
Final    == {"created", "failed", "dead"}
PCs      == {"idle"} \cup InFlight \cup Final
TxStates == {"none", "open", "committing", "committed", "aborted"}

\* Type correctness of the state of the requests, of table repos and of the
\* storage root.
TypeOK ==
  /\ pc \in [Requests -> PCs]
  /\ ctx \in [Requests -> BOOLEAN]
  /\ input \in [Requests -> Input \cup {None}]
  /\ repoID \in [Requests -> RepoIDs \cup {None}]
  /\ tx \in [Requests -> TxStates]
  /\ row \in [RepoIDs -> Input \cup {None}]
  /\ head \in [RepoIDs -> Branches \cup {NoDir, Partial}]

Init ==
  /\ pc = [r \in Requests |-> "idle"]
  /\ ctx = [r \in Requests |-> TRUE]
  /\ input = [r \in Requests |-> None]
  /\ repoID = [r \in Requests |-> None]
  /\ tx = [r \in Requests |-> "none"]
  /\ row = [i \in RepoIDs |-> None]
  /\ head = [i \in RepoIDs |-> NoDir]

Goto(r, from, to) ==
  /\ pc[r] = from
  /\ pc' = [pc EXCEPT ![r] = to]

\* The unique index repos_namespace_name_key has an entry for n made by r's
\* unfinished transaction: an INSERT of n by another transaction waits.
Holds(r, n) == tx[r] \in {"open", "committing"} /\ input[r].name = n

\* A committed row has the name n.
NameTaken(n) == \E i \in RepoIDs : row[i] # None /\ row[i].name = n

-----------------------------------------------------------------------------
(***************************************************************************)
(* The handler.  A successful step needs a live context: a statement or a  *)
(* git command that finishes just before the context is cancelled is the   *)
(* step followed by Cancel.                                                *)
(***************************************************************************)

\* Mutant of StartCreate: no default branch when the body names none.
StartCreateNoDefault(r) ==
  /\ Goto(r, "idle", "select")
  /\ \E n \in Names, b \in Branches \cup {None} :
       input' = [input EXCEPT ![r] = [name |-> n, branch |-> b]]
  /\ UNCHANGED <<ctx, repoID, tx, row, head>>

\* The request body was decoded and validated; an empty defaultBranch has
\* become "main", one of Branches.
StartCreate(r) ==
  /\ Goto(r, "idle", "select")
  /\ \E i \in Input : input' = [input EXCEPT ![r] = i]
  /\ UNCHANGED <<ctx, repoID, tx, row, head>>

\* selectRepoByName found the row: CreateRepo will return it.
SelectFound(r) ==
  /\ ctx[r]
  /\ Goto(r, "select", "readCommit")
  /\ \E i \in RepoIDs :
       /\ row[i] # None
       /\ row[i].name = input[r].name
       /\ repoID' = [repoID EXCEPT ![r] = i]
  /\ UNCHANGED <<ctx, input, tx, row, head>>

\* COMMIT of the read-only transaction, then 201 with the existing repo.
ReadCommit(r) ==
  /\ ctx[r]
  /\ Goto(r, "readCommit", "created")
  /\ UNCHANGED <<ctx, input, repoID, tx, row, head>>

\* No row yet: newUUID picks an id nobody has used (122 random bits).
SelectMissing(r) ==
  /\ ctx[r]
  /\ Goto(r, "select", "insert")
  /\ ~NameTaken(input[r].name)
  /\ \E i \in RepoIDs :
       /\ \A q \in Requests : repoID[q] # i
       /\ repoID' = [repoID EXCEPT ![r] = i]
  /\ UNCHANGED <<ctx, input, tx, row, head>>

\* Mutant of InsertRow: no unique index on (namespace, name).
InsertRowNoIndex(r) ==
  /\ ctx[r]
  /\ Goto(r, "insert", "mkdir")
  /\ tx' = [tx EXCEPT ![r] = "open"]
  /\ UNCHANGED <<ctx, input, repoID, row, head>>

\* insertRepo.  The unique index makes it wait for every unfinished
\* transaction that inserted the same name.
InsertRow(r) ==
  /\ ctx[r]
  /\ Goto(r, "insert", "mkdir")
  /\ \A q \in Requests \ {r} : ~Holds(q, input[r].name)
  /\ ~NameTaken(input[r].name)
  /\ tx' = [tx EXCEPT ![r] = "open"]
  /\ UNCHANGED <<ctx, input, repoID, row, head>>

\* The other transaction committed: unique violation, CreateRepo returns it.
InsertConflict(r) ==
  /\ ctx[r]
  /\ Goto(r, "insert", "rollback")
  /\ \A q \in Requests \ {r} : ~Holds(q, input[r].name)
  /\ NameTaken(input[r].name)
  /\ UNCHANGED <<ctx, input, repoID, tx, row, head>>

\* The context is done at a statement before the first git command.
StatementCancelled(r) ==
  /\ ~ctx[r]
  /\ \E from \in {"select", "readCommit", "insert"} : Goto(r, from, "rollback")
  /\ UNCHANGED <<ctx, input, repoID, tx, row, head>>

\* InitBareRepo: MkdirAll succeeds and git init --bare starts to fill the
\* directory.
GitInitBegins(r) ==
  /\ ctx[r]
  /\ Goto(r, "mkdir", "init")
  /\ head' = [head EXCEPT ![repoID[r]] = Partial]
  /\ UNCHANGED <<ctx, input, repoID, tx, row>>

\* InitBareRepo: git init --bare has finished.
GitInit(r) ==
  /\ ctx[r]
  /\ Goto(r, "init", "symref")
  /\ head' = [head EXCEPT ![repoID[r]] = GitInitBranch]
  /\ UNCHANGED <<ctx, input, repoID, tx, row>>

\* InitBareRepo: git symbolic-ref HEAD refs/heads/<defaultBranch>.
GitSymref(r) ==
  /\ ctx[r]
  /\ Goto(r, "symref", "commit")
  /\ head' = [head EXCEPT ![repoID[r]] = input[r].branch]
  /\ UNCHANGED <<ctx, input, repoID, tx, row>>

\* Mutant of GitFails: the error of InitBareRepo is returned without
\* DeleteBareRepo.
GitFailsNoUndo(r) ==
  /\ ~ctx[r] \/ "git" \in Faults
  /\ \E from \in {"mkdir", "init", "symref"} : Goto(r, from, "rollback")
  /\ UNCHANGED <<ctx, input, repoID, tx, row, head>>

\* Mutant of GitFails: the error of git symbolic-ref is dropped.
GitErrorDropped(r) ==
  /\ ~ctx[r] \/ "git" \in Faults
  /\ \/ Goto(r, "mkdir", "undo")
     \/ Goto(r, "init", "undo")
     \/ Goto(r, "symref", "commit")
  /\ UNCHANGED <<ctx, input, repoID, tx, row, head>>

\* InitBareRepo fails: MkdirAll or a git command failed, or the context
\* killed the command.
GitFails(r) ==
  /\ ~ctx[r] \/ "git" \in Faults
  /\ \E from \in {"mkdir", "init", "symref"} : Goto(r, from, "undo")
  /\ UNCHANGED <<ctx, input, repoID, tx, row, head>>

\* tx.Commit puts COMMIT on the wire and waits.
SendCommit(r) ==
  /\ ctx[r]
  /\ tx[r] = "open"
  /\ Goto(r, "commit", "waiting")
  /\ tx' = [tx EXCEPT ![r] = "committing"]
  /\ UNCHANGED <<ctx, input, repoID, row, head>>

\* COMMIT was acknowledged: 201 with the new repo.
CommitAcked(r) ==
  /\ ctx[r]
  /\ tx[r] = "committed"
  /\ Goto(r, "waiting", "created")
  /\ UNCHANGED <<ctx, input, repoID, tx, row, head>>

\* Mutant of CommitFails: the error of tx.Commit is dropped and 201 is sent.
CommitErrorDropped(r) ==
  /\ ~ctx[r] \/ tx[r] = "aborted"
  /\ \E from \in {"commit", "waiting"} : Goto(r, from, "created")
  /\ UNCHANGED <<ctx, input, repoID, tx, row, head>>

\* tx.Commit returns an error: the transaction is gone, or the context is
\* done, before or after COMMIT was sent.
CommitFails(r) ==
  /\ ~ctx[r] \/ tx[r] = "aborted"
  /\ \E from \in {"commit", "waiting"} : Goto(r, from, "undo")
  /\ UNCHANGED <<ctx, input, repoID, tx, row, head>>

\* Mutant of DeleteBareRepo: no ctx.Err() test before RemoveAll.
DeleteBareRepoAlways(r) ==
  /\ Goto(r, "undo", "rollback")
  /\ head' = [head EXCEPT ![repoID[r]] = NoDir]
  /\ UNCHANGED <<ctx, input, repoID, tx, row>>

\* DeleteBareRepo after a failed InitBareRepo or Commit.  It returns at once
\* when the context is done; its own error is ignored.
DeleteBareRepo(r) ==
  /\ Goto(r, "undo", "rollback")
  /\ \/ ~ctx[r] /\ UNCHANGED head
     \/ ctx[r] /\ head' = [head EXCEPT ![repoID[r]] = NoDir]
     \/ /\ ctx[r] /\ "rm" \in Faults
        /\ head[repoID[r]] # NoDir
        /\ head' = [head EXCEPT ![repoID[r]] = Partial]
  /\ UNCHANGED <<ctx, input, repoID, tx, row>>

\* Mutant of RollbackTx: no deferred rollback.
NoRollback(r) ==
  /\ Goto(r, "rollback", "failed")
  /\ UNCHANGED <<ctx, input, repoID, tx, row, head>>

\* Mutant of RollbackTx: a failed create takes the name's row with it.
RollbackDeletesName(r) ==
  /\ Goto(r, "rollback", "failed")
  /\ tx' = [tx EXCEPT ![r] = IF @ = "open" /\ ctx[r] THEN "aborted" ELSE @]
  /\ row' = [i \in RepoIDs |->
               IF row[i] # None /\ row[i].name = input[r].name THEN None ELSE row[i]]
  /\ UNCHANGED <<ctx, input, repoID, head>>

\* The deferred rollbackTx, then 500.  ROLLBACK reaches Postgres only while
\* the context is live; otherwise pgx closes the connection.
RollbackTx(r) ==
  /\ Goto(r, "rollback", "failed")
  /\ tx' = [tx EXCEPT ![r] = IF @ = "open" /\ ctx[r] THEN "aborted" ELSE @]
  /\ UNCHANGED <<ctx, input, repoID, row, head>>

-----------------------------------------------------------------------------
(***************************************************************************)
(* Postgres.                                                               *)
(***************************************************************************)

\* COMMIT takes effect, whether or not the client still waits for it.
ServerCommit(r) ==
  /\ tx[r] = "committing"
  /\ tx' = [tx EXCEPT ![r] = "committed"]
  /\ row' = [row EXCEPT ![repoID[r]] = input[r]]
  /\ UNCHANGED <<pc, ctx, input, repoID, head>>

\* The backend notices that its client is gone and aborts.
ServerAbort(r) ==
  /\ \/ tx[r] = "open" /\ pc[r] = "dead"
     \/ tx[r] = "open" /\ pc[r] = "failed" /\ ~ctx[r]
     \/ tx[r] = "committing" /\ pc[r] \in {"undo", "rollback", "failed", "dead"}
  /\ tx' = [tx EXCEPT ![r] = "aborted"]
  /\ UNCHANGED <<pc, ctx, input, repoID, row, head>>

(***************************************************************************)
(* Faults.                                                                 *)
(***************************************************************************)

Cancel(r) ==
  /\ "cancel" \in Faults
  /\ pc[r] \in InFlight
  /\ ctx[r]
  /\ ctx' = [ctx EXCEPT ![r] = FALSE]
  /\ UNCHANGED <<pc, input, repoID, tx, row, head>>

\* A statement before the first git command fails in Postgres.
StatementFails(r) ==
  /\ "db" \in Faults
  /\ \E from \in {"select", "readCommit", "insert"} : Goto(r, from, "rollback")
  /\ UNCHANGED <<ctx, input, repoID, tx, row, head>>

\* A server-side failure drops an unfinished transaction.
DatabaseDropsTx(r) ==
  /\ "db" \in Faults
  /\ tx[r] \in {"open", "committing"}
  /\ tx' = [tx EXCEPT ![r] = "aborted"]
  /\ UNCHANGED <<pc, ctx, input, repoID, row, head>>

\* The connection breaks while tx.Commit waits: it returns an error that says
\* nothing about what Postgres did or will do with the COMMIT.
CommitAckLost(r) ==
  /\ "lostAck" \in Faults
  /\ Goto(r, "waiting", "undo")
  /\ UNCHANGED <<ctx, input, repoID, tx, row, head>>

\* The process dies; the restarted one knows nothing of these requests.
Crash ==
  /\ "crash" \in Faults
  /\ \E r \in Requests : pc[r] \in InFlight
  /\ pc' = [r \in Requests |-> IF pc[r] \in InFlight THEN "dead" ELSE pc[r]]
  /\ UNCHANGED <<ctx, input, repoID, tx, row, head>>

\* Every request has been answered and Postgres holds nothing open.
Quiescent ==
  /\ \A r \in Requests : pc[r] \in Final /\ tx[r] \notin {"open", "committing"}
  /\ UNCHANGED vars

Handler(r) ==
  \/ SelectFound(r) \/ ReadCommit(r) \/ SelectMissing(r)
  \/ InsertRow(r) \/ InsertConflict(r) \/ StatementCancelled(r)
  \/ GitInitBegins(r) \/ GitInit(r) \/ GitSymref(r) \/ GitFails(r)
  \/ SendCommit(r) \/ CommitAcked(r) \/ CommitFails(r)
  \/ DeleteBareRepo(r) \/ RollbackTx(r)

Postgres(r) == ServerCommit(r) \/ ServerAbort(r)

Fault(r) ==
  Cancel(r) \/ StatementFails(r) \/ DatabaseDropsTx(r) \/ CommitAckLost(r)

Next ==
  \/ \E r \in Requests :
       StartCreate(r) \/ Handler(r) \/ Postgres(r) \/ Fault(r)
  \/ Crash
  \/ Quiescent

Spec == Init /\ [][Next]_vars

\* The Go scheduler runs every handler that can run, and Postgres finishes
\* every COMMIT and reaps every abandoned connection.  No fault is obliged to
\* happen.
Fairness ==
  \A r \in Requests : WF_vars(Handler(r)) /\ WF_vars(Postgres(r))

FairSpec == Spec /\ Fairness

-----------------------------------------------------------------------------
(***************************************************************************)
(* Properties.                                                             *)
(***************************************************************************)

\* Table repos never holds two repositories with one (namespace, name),
\* however the SELECTs and INSERTs of concurrent CreateRepo calls interleave.
OneRepoPerName ==
  \A i, j \in RepoIDs :
    (row[i] # None /\ row[j] # None /\ row[i].name = row[j].name) => i = j

\* Every 201 names a durable repository with the requested name, and all 201
\* answers for one name carry the same repo id, whatever faults happen.
AcknowledgedReposAgree ==
  \A r \in Requests : pc[r] = "created" =>
    /\ repoID[r] \in RepoIDs
    /\ row[repoID[r]] # None
    /\ row[repoID[r]].name = input[r].name
    /\ \A q \in Requests :
         (pc[q] = "created" /\ input[q].name = input[r].name)
           => repoID[q] = repoID[r]

\* Every committed row has its bare repository on disk with HEAD at the row's
\* default branch: no failure path of CreateRepo removes or leaves unfinished
\* the storage of a row that committed.  Not so once a COMMIT acknowledgement
\* is lost.
StorageBehindEveryRow ==
  \A i \in RepoIDs : row[i] # None => head[i] = row[i].branch

\* The request that created a repository and was told so has its storage on
\* disk, even when other requests lose their COMMIT acknowledgements.
CreatorAnswerIsBacked ==
  \A r \in Requests :
    (pc[r] = "created" /\ tx[r] = "committed")
      => head[repoID[r]] = input[r].branch

\* A CreateRepo that returned an error after its INSERT, with its client
\* still connected, left neither a row nor a directory behind.
FailedCreateLeavesNothing ==
  \A r \in Requests :
    (pc[r] = "failed" /\ tx[r] # "none" /\ ctx[r])
      => row[repoID[r]] = None /\ head[repoID[r]] = NoDir

\* Nothing another request does, its failure paths included, touches the row
\* or the storage of a repository some client was told about.
AcknowledgedRepoIsKept ==
  [][\A r \in Requests : pc[r] = "created" =>
       /\ row'[repoID[r]] = row[repoID[r]]
       /\ head'[repoID[r]] = head[repoID[r]]]_vars

\* Every CreateRepo call ends, the ones that wait in INSERT for another
\* transaction's index entry included.
EveryCreateEnds ==
  \A r \in Requests : (pc[r] = "select") ~> (pc[r] \in Final)

\* What the tests assert of every 201: the returned repository has a bare
\* repository on disk with HEAD at its default branch.
CreatedRepoHasStorage ==
  \A r \in Requests :
    pc[r] = "created" => head[repoID[r]] = row[repoID[r]].branch

\* What the tests assert of a repeated create: without faults, creating a
\* name again answers with the existing repository, never with an error.
CreateIsIdempotent ==
  \A r \in Requests : pc[r] # "failed"
=============================================================================
