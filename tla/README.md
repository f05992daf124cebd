# A TLA+ model of gitrdone

gitrdone is a Go service that hosts bare git repositories. A control plane
(`/v1`, one bearer token) creates and archives repositories and mints, lists
and revokes repository tokens; a data plane (`/git/repos/{id}.git`) serves git
smart HTTP, Git LFS, diffs and raw files to holders of such tokens. Metadata is
kept in Postgres, or in memory when no database is configured; repositories and
LFS objects are directories and files under one storage root. One process
serves a storage root and its supervisor restarts it when it dies.

This directory holds models of the parts of it where several actors meet,
TLC configurations that check them on small instances, and TLAPS proofs of the
most important properties for every instance.

## The system and its hard parts

| Component | State | Operations | Interacts with | What is hard | What makes it correct |
| --- | --- | --- | --- | --- | --- |
| Repository provisioning (`postgres.go`, `repos.go`, `git_storage.go`) | table `repos` with a unique index, `repos/<id>.git` | `CreateRepo` | Postgres, git children, the file system | row and directory have no common transaction; racing creates; cancelled contexts; a COMMIT whose outcome is unknown; crashes | one row per name; 201 answers agree; a row has its storage; failures leave nothing |
| Token idempotency (`postgres.go`, `idempotency.go`, `tokens.go`) | tables `repo_tokens`, `idempotency_records`, advisory locks, the connection pool | `Do` around `CreateRepoToken` | Postgres, the clock | racing and retried requests; ambiguous COMMIT; expiry; the pool | one token per key and window; replays; everyone is answered |
| Token access (`postgres.go`, `git.go`, `tokens.go`, `repos.go`) | tables `repos`, `repo_tokens` | `AuthorizeGitAccess`, `CreateRepoToken`, `RevokeRepoToken`, `ArchiveRepo` | every data-plane handler, the clock | four statements with no transaction around them | grants and denials agree with the tables; revocations are final |
| Memory store (`repository.go`, `idempotency.go`) | five maps behind two mutexes | the same operations | git children | a mutex held while git runs, nested mutexes, restarts | the maps agree; storage behind every repository; no deadlock; same promise as Postgres |
| Git LFS (`git_lfs.go`, `git_lfs_storage.go`) | one file per (repo, oid), temporary files | batch, upload (`Put`), download (`Open`) | the file system, token access | no locks; cut-off streams; sizes up to an int64 | object files are whole and stay; downloads are exact; limits hold |
| Git child processes (`git_exec_backend.go`, `git_diff.go`, `git_raw.go`) | a child, its three pipes, the repository it reads | smart HTTP, diff, raw | git, token access, pushes and gc | pipe readers against `Wait`, output limits, objects that come and go between two commands | answers are whole and about what was asked; errors have causes; nothing is left running; requests end |
| Process lifecycle (`cmd/gitrdone/main.go`) | listener, channel, pool, exit code | start, graceful shutdown | every handler, Postgres | signal against listener failure, shutdown timeout against running handlers, the pool closed under them | code 0 means nothing was cut off; the process ends |
| Access log (`access_log.go`) | a recorder per request, lines of output | wrap, recover, log | every handler, the server | panics, implicit statuses, headers any client can send | one line per request, with the status sent; forwarded headers count from a trusted proxy and from nobody else |
| Validation, routing, control authentication, JSON, agent docs | none | | | sequential code | not modelled |

`PROJECT.json` lists the components, the hazards with the lines where they
bite, and which definition models which lines.

## Modules

Every module abstracts data and keeps control: names, tokens and contents are
model values, statements and file operations are actions, and the answer of a
handler is one of a few codes. A successful statement needs a live request
context; a statement that finishes just before a cancellation is the statement
followed by `Cancel`. Definitions whose comment says *mutant* are not part of
`Next`: each changes one action or operator in the way a mistake in the code
would, and shows that the property it belongs to would notice.

**RepoProvisioning** - `postgresRepoStore.CreateRepo` under `createRepoHandler`.
`row` is table `repos`, `head` the directory of each id (absent, unfinished, or
what its HEAD points to), `tx` the state of each transaction in Postgres, `pc`
where the handler is. `SelectFound`/`SelectMissing`, `InsertRow`,
`InsertConflict` (the unique index), `GitInitBegins`/`GitInit`/`GitSymref`,
`SendCommit`, `CommitAcked`/`CommitFails`, `DeleteBareRepo` and `RollbackTx` are
the statements of the function in order; `ServerCommit` and `ServerAbort` are
Postgres. An INSERT of a name another unfinished transaction has inserted
waits. Faults: cancelled request, failing git, failing `RemoveAll`, failing
database, lost acknowledgement of COMMIT, crash. `newUUID` never repeats.

**IdempotentMint** - what an `Idempotency-Key` promises, as an atomic service:
token and record appear together, at most once per key and record life time; a
201 carries a token of the same key and body; a conflict needs a record of
another body. A service that is not `Durable` may `Restart` and forget both.

**TokenIdempotency** - `postgresIdempotencyStore.Do` statement by statement:
`Begin` (a pool connection), `AcquireLock` (`pg_advisory_xact_lock`; several keys
may share a lock, since it is taken on hashes), `SelectReplay`/`SelectConflict`/
`SelectMiss`, `CreateToken`/`CreateNotFound`, `InsertRecord`, `SendCommit`,
`RollbackTx`. `deleted` is the expired record that a transaction has deleted:
`PrimaryKeyTaken` looks at every other committed record, expired or not, and at
what unfinished transactions have inserted, those nobody waits for included. It
instantiates IdempotentMint, which is durable here, as `Promise`.

**TokenAccess** - the four steps of `AuthorizeGitAccess` (SELECT repo, SELECT
token, read the clock and decide, UPDATE `last_used_at`) interleaved with the
control plane. `allowed` remembers whether the request was permitted when it
arrived. The clock does not go back.

**MemoryStore** - the deployment without a database. Only what keeps a mutex over
several steps is split: `CreateRepo` around its git commands, and `Do` around
`CreateRepoToken`. A crash loses the maps and keeps the disk. Minting is
compared with IdempotentMint through `minted`, the history of keyed mints; the
service is not durable here, and a crash is its `Restart`.

**LFSStore** - `serveLFSUpload`, `serveLFSDownload`, `serveLFSBatch` and
`filesystemLFSObjectStore`. A file is a prefix of a body, copied byte by byte;
a body stands for its own SHA-256, and a proper prefix hashes to no oid in use.
`MaxInt` is the largest int64 and `Wrap` its overflow. `Stuck` are the uploads
whose temporary file cannot be removed. Whether a token grants the access is
TokenAccess's business: here a request is granted or `Denied`.

**GitSpecs** - `parseGitDiffSpec`, `parseGitRawSpec` and `isGitObjectID` as
operators on sequences of four kinds of characters (a hexadecimal digit, a dot,
a slash, anything else), with the forms the API documents as the reference
definition (`DiffForms`, `RawForm`).

**GitProcess** - one request, its git child and the pipes. A pipe holds `PipeCap`
chunks; the child has a plan (how much it writes where, whether it reads the
request body, how it exits) and waits when a pipe is full. `Wait` waits for the
child and closes the read ends, as `os/exec` does. `proc` is the process the
handler started, `worker` whether it or a descendant has the pipes open. A diff
or a raw file is made by one process; `git http-backend` runs git-http-backend
and that upload-pack or receive-pack (`Forks`), so SIGKILL, which reaches the
first process alone, leaves writers behind: a reader sees the end of a pipe when
the last of them is gone (`EOF`), and one that writes after `Wait` gets SIGPIPE
(`ChildBreaks`). Child and `os/exec` are external, modelled from how the
handlers use them.

**GitReads** - `gitDiffHandler`, `ServeGitDiff`, `runGitDiff`, `gitRawHandler`
and `ServeGitRawFile`: `Parse`, `ReadGranted`/`ReadDenied`, one `Resolve` per object
id, the type test of raw files, then the command with its readers:
`ReadStderr` is the goroutine, `ReadDiff` the limited read, `KillIfTooLarge`,
`WaitDiff`, `AnswerDiff`; `CopyRaw` and `AnswerRaw` are the limited buffers of
`cmd.Run`. `Push` and `Prune` change the repository between any two of them.

**GitHTTPBackend** - `gitSmartHTTPHandler` and `ServeHTTPGit`: `StartHTTP`, the goroutine on stderr with its
64 KiB limit (`HTTPStderr`), `Headers`/`BadHeaders`/`NoHeaders`, `CopyBody`,
`WaitHTTP` and `Finish` with the error path. `tail` says that error text was
written behind a body.

**GitEndpoints** - composes the three: a request of either kind, its child, and a
client that may leave at any time.

**AccessLog** - `accessLog` with its recorder: `WriteHeader` records the first
status, `Leave` is the return or panic of the handler, `Finish` the deferred
function. `requestRemoteIP`, `firstForwardedAddr` and `requestScheme` are
operators on the headers of the request, a trusted proxy being a member of
`Trusted`. Parts of a header are addresses, `Blank` or `Junk`; the scheme of the
request line is whatever the client wrote there, `"other"` standing for anything
but http and https.

**ServerLifecycle** - extends AccessLog with `main` and `runServer`: start and
its failures, the goroutine in `ListenAndServe`, the `select`, `Shutdown` and
its timer, `closeResources`, the exit code. Handlers take pool connections
(`Acquire`, `Release`), and `pgxpool.Close` waits for them.

`MC*` modules add symmetry and constants for TLC. MCTokenIdempotency,
MCTokenAccess, MCMemoryStore and MCLFSStore also choose a `scope` in the initial
state: which of the requests take part and which arguments and faults they may
have. A run covers all its scopes; each is an instance in which another case is
worth its states. `*Proofs` modules hold the theorems.

## Runs

| Run | Instance | Checks |
| --- | --- | --- |
| `provisioning_storage` | 3 creates of one name, two branches; every fault but a lost acknowledgement and a failing `RemoveAll` | `TypeOK`, `OneRepoPerName`, `StorageBehindEveryRow`, `FailedCreateLeavesNothing`, `AcknowledgedRepoIsKept` |
| `provisioning_all_faults` | 2 creates of two names, every fault, with fairness | `AcknowledgedReposAgree`, `CreatorAnswerIsBacked`, `EveryCreateEnds` |
| `provisioning_lost_ack` | 2 creates, only a lost acknowledgement | violates `CreatedRepoHasStorage` |
| `provisioning_race` | 2 creates, no fault | violates `CreateIsIdempotent` |
| `idempotency` | 2 connections, record life 1, with fairness; 2 requests, 2 keys on one lock, one of an unknown repository, 2 bodies, time to 1, every fault; or 3 requests on one key, so that one waits for the lock and one for a connection, with cancellations and crashes | `TypeOK`, `OneMintPerWindow`, `MintedTokenIsReplayable`, `AnsweredTokenIsDurable`, `PrimaryKeyIsFree`, `ImplementsPromise`, `EveryRequestEnds` |
| `access_grants` | 2 admin calls, 1 token of life 1 or 2, time to 2, failing database; 1 access with any arguments, 2 repositories (one without storage); or 2 overlapping uses of the token | `TypeOK`, `DecisionIsPermitted`, `LastUseIsWithinLife`, `RevocationIsFinal` |
| `memory_store` | every fault, with fairness; 2 creates of two names and a mint; or a create, a keyed and an unkeyed mint, uses, revocations and archivings, token life 2, time to 2; or a create and 2 keyed mints of 2 bodies across the expiry of the record | `TypeOK`, `MapsAndDiskAgree`, `NoUseAfterRevocation`, `ImplementsPromise`, `EveryCallEnds` |
| `lfs_requests` | objects of size 1 and 2, limit 1, default limit and largest integer 2, every fault, one upload that is `Stuck`; 2 uploads and a download in one repository; or an upload and a batch of up to 2 objects over two; or 2 uploads and a batch of one object | `TypeOK`, `StoredObjectIsWhole`, `DownloadIsExact`, `GoodUploadIsNotRefused`, `PresentIsStored`, `AnsweredUploadIsSettled`, `ObjectsAreKept` |
| `lfs_overflow` | 1 upload, limit equal to the largest integer | violates `GoodUploadIsNotRefused` |
| `git_requests` | 1 request with a URL of up to 6 characters (ids of 1 or 2), or git over HTTP; 2 commits, an abbreviation of one and one that is ambiguous; pipes, output limit and stderr limit of 1 chunk, children that write up to 4 and 3; clients that leave, commands that fail, pushes and pruning, with fairness | `TypeOK`, `ServedIsWhole`, `RefusalsHaveACause`, `NothingIsLeftBehind`, `ParseIsExact`, `RequestsEnd` |
| `diff_no_merge_base` | 1 request, 2 commits without a merge base, no fault | violates `NoMergeBaseIsConflict` |
| `server_shutdown` | 2 requests of 5 kinds of headers, with Postgres or without, every failure of the start, with fairness | `GracefulExitIsComplete`, `LogIsTrue`, `ProcessEnds` |

Why these bounds are enough to be interesting: two requests are the smallest
number that race, and a third lets one arrive after the first two have failed
or crashed. Two names (keys, bodies, repositories) tell "the same" from "another
one"; one token life inside the clock bound lets an expiry fall between any two
steps, and in `memory_store` two ticks of life put uses before and after a
revocation; three requests on two connections are the fewest of which one waits
for a connection behind one that waits for a lock; a file of size 2 can be cut in the middle. A child that writes
more than a full pipe, a read limit and one chunk together meets every way in
which writer and reader can block each other; 6 characters hold two ids with
either separator, and a separator with a dot too many. An id of one character
stands for the shortest accepted and one of two for the longest. Runs that need three actors
use one name and symmetry. What the bounds leave open of the safety properties is
closed by the proofs.

The four violations are findings:

- `provisioning_lost_ack`: `CreateRepo` treats every error of COMMIT as a
  rollback and deletes the directory (postgres.go:132). If only the
  acknowledgement was lost, the row is durable; the next create of the name
  answers 201 with a repository without storage, and every git request to it is
  answered 500.
- `provisioning_race`: the loser of two overlapping creates of a new name gets a
  unique violation (postgres.go:124) and answers 500, where a create that comes
  a moment later returns the existing repository.
- `lfs_overflow`: `maxSize + 1` (git_lfs_storage.go:86) is negative when
  `GITRDONE_MAX_LFS_OBJECT_BYTES` is the largest int64; `Put` then reads nothing
  and refuses every upload that is not empty. Theorem `LimitIsHonoured` shows
  that this is the only value with that effect.
- `diff_no_merge_base`: `cmd.Wait` (git_diff.go:302) closes the stderr pipe without
  waiting for the goroutine that reads it (288-291). If it wins, git's "no merge
  base" is lost and the request is answered 500, where
  git_diff_contract_test.go:99-107 expects 409. `RefusalsHaveACause` shows that
  this is the only 500 of its kind.

One more difference between the documentation and the code is plain in the
source and has no run: src/README.md:47 says that `GET /` and `GET /healthz` are not
logged, and `skipAccessLog` (access_log.go:137-139) looks at the path alone, so that
a request of any other method to these paths, a POST that is answered 405 for
instance, is not logged either. The model follows the code.

Also visible in the models, and no violation of anything the repository promises
in so many words:

- A create that dies or is cancelled can leave a directory no row names, and a
  crash leaves the temporary file of an upload; nothing collects them.
- `last_used_at` can go back when two uses of a token overlap.
- Of the stderr of http-backend 64 KiB are read, and nothing of its output once
  its headers are refused. One that writes more than that and a pipe holds blocks,
  and the request with it. In the second case (`OutputIsFull`) this ends when the
  client leaves: the child is killed and `Wait` closes the pipe. In the first
  (`StderrIsFull`) it need not: the handler still reads stdout, the processes
  below the one that was killed keep it open, and no `WaitDelay` is set. `RequestsEnd`
  says that these are the only ways; without its exception for `StderrIsFull` TLC
  finds the behaviour.
- What http-backend runs can outlive a request whose client has left, and finish
  a push for nobody.
- Behind a proxy that appends to `X-Forwarded-For` the first part is what the client
  wrote, and it is what is logged. The scheme of a request line is logged as it is.
- A child that fails after its headers were sent leaves an answer that looks
  complete: the status has been written, and nothing cuts the connection.
- Every error of the type test of a raw file, a command that cannot be started
  included, is answered 404 (`TypeFails`).
- A listener that fails ends the process without `Shutdown`: handlers are refused
  connections, cut off and not logged. `closeResources` waits for connections in
  use with no deadline of its own. `log.Fatal` skips the flush of Sentry.

### Fairness

`FairSpec` assumes weak fairness of every handler's own steps (the Go scheduler
runs what can run, git commands and statements end) and of Postgres finishing
a COMMIT it has received and aborting the transaction of a closed connection.
No fault is obliged to happen, and the clock need not tick. Waiting for a lock,
a pool connection or an index entry needs no more than weak fairness here,
since each request is made once and nobody comes back to overtake. Go's
`sync.Mutex` is starvation free.

In GitEndpoints the handlers with their goroutines and the child are fair, and
`net/http` notices a client that has gone; the client need neither send its body
nor leave. In ServerLifecycle the server's goroutines and the timer of
`Shutdown` are fair, and a request gives its connection back, since no handler
waits for its client while it holds one; a request need not end and a signal
need not come.

## Proofs

Checked by TLAPS for every value of the constants, under the assumptions stated
in the modules (`ConstantsAssumption` and the like: kinds of requests and values
are apart, times and sizes are numbers); TLC evaluates them in every run.

**RepoProvisioningProofs.** `Inv` adds to the types: which transaction states go
with which handler position (`PcTx`), that a repo id belongs to the one request
that generated it (`OwnIDs`), that a row is there exactly when its transaction
committed (`RowsAreCommitted`), that at most one unfinished or committed
transaction holds a name (`NamesAreExclusive`), and that a 201 names a row
(`AnswersAreRows`). Without `NamesAreExclusive` uniqueness is not inductive: two
unfinished INSERTs would both commit. From it: `TypeCorrect`,
`NamesStayUnique`, `AnswersAgree`; with "the directory of a request that commits
is complete", `CreatorIsBacked`; and, when no acknowledgement is lost,
`StorageIsBehindEveryRow` and `AcknowledgedReposAreKept`, because then only a
request whose transaction is gone deletes its directory. When `RemoveAll` works
besides, `FailuresLeaveNothing`: a request that failed after its INSERT with a
live context came through `DeleteBareRepo`, owns its directory alone, and has a
transaction that can no longer commit (`UndoneWhenFailed`). Both assumptions are
needed: the run `provisioning_lost_ack` shows what happens without the first.

**TokenIdempotencyProofs.** The invariant says that the advisory lock excludes
(`LocksExclude`), that table records and committed tokens match
(`RecordsMatchTokens`), and that what a request read under the lock is still so
while it holds it (`DecisionsHold`); the last one is what makes a decision taken
at SELECT valid at COMMIT. Theorems: `TypeCorrect`, `AnswersAreDurable`,
`MintsAreApart`, `MintsAreReplayable`, `InsertsMeetNoRecord` (the record insert
never meets a record of its key: the lock and the deletion of expired records,
which the invariant follows through `deleted`, keep the primary key free, and no mint fails at its last statement), and `DoImplementsPromise`: every step of
`Do` is a step of IdempotentMint or a stutter.

**LFSStoreProofs.** The invariant follows `Put` (`PutFits`: what is known of the
temporary file at each step, up to "it hashes to its oid" before the rename),
downloads (the open file is the object asked for) and batches (a prefix of the
objects has been looked at). Frame lemmas say that a handler touches only its
own request, so that each conjunct has one interesting case. Theorems:
`TypeCorrect`, `ObjectsAreWhole`, `ObjectsStay`, `DownloadsAreExact`,
`PresentStaysStored`, `AnsweredUploadsAreSettled`, and `LimitIsHonoured` under
`MaxSize < MaxInt`.

**ServerLifecycleProofs.** `MainFits` ties the channel, the listener and the error
to the position of the main goroutine; `Drained` says of each request that,
as long as there is no error, `Shutdown` has returned, and the request is over,
before the pool is closed; `LogFits` that the recorder holds what `net/http` was
given until the handler returns, and that a line is written by the deferred
function alone. The types alone do not give `GracefulExitIsComplete`: it depends
on the order Shutdown, channel, pool, exit. Theorems: `TypeCorrect`,
`GracefulExits`, `LinesAreTrue`; the last rests on lemmas about
`firstForwardedAddr`, for headers of any length: what it takes is the first part
that is not blank (`FirstIsFirst`), there is one such part at most
(`FirstIsUnique`), and so it takes the forwarded address if there is one
(`ForwardedIsTaken`).

**TokenAccessProofs.** `DecisionIsPermitted` is about two moments, the arrival of a
request and its decision, with reads in between that other calls may outdate.
`Knows` is the bridge. Of what an access has read, it says that the row was once
so (`Older`: since then only its use and its revocation can have changed); of
what it has not read yet, that the rest of the test still decides whether the
request was permitted on arrival. This is kept because a request that is not
permitted stays so: no token is given back its life, no repository is unarchived
and no clock goes back (`NotPermittedLasts`, from `StepLasting`). `Dated` and
`Used` add the dates of rows and grants. Theorems: `TypeCorrect`,
`DecisionsArePermitted`, `LastUsesAreWithinLife`, `RevocationsAreFinal`.

**MemoryStoreProofs.** `StoreInv` says who holds which mutex at which step
(`CallsFit`), that the id and the name of a create that holds the mutex are not in
the maps yet (`Unpublished`, without which the two maps need not agree after the
create returns), and that the dates of tokens and repositories are in order
(`Dated`, `ArchivedBefore`). It holds under every fault, crashes included, and
gives `TypeCorrect`, `MapsAgree` and `UsesPrecedeRevocation`. For the refinement,
`RecordsMatch` ties records to keyed mints, and `FindingsHold` says that what `Do`
found under its mutex stays so until it stores its record. `DoImplementsPromise`
then maps each step to one of IdempotentMint or to a stutter, and a crash, which
loses records and tokens together, to `Restart` (`CrashStep`).

**GitEndpointsProofs.** The core of the invariant is `Flow`: what the child has
still to write, what is in the pipe and what the handler has taken add up to the
child's output, as long as the client is there. Around it, `Untouched` (before
`cmd.Start` nothing has happened), `Places` (which endpoint can be at which step),
`ChildEnds` (how the child ended, why it was killed, and that only http-backend
leaves processes behind), `Stopped` (a handler
stops reading with the limit reached or at the end of the output) and `Resolving`
(the ids of a request are resolved in order). `ServedIsWhole` does not follow from
`Flow` alone: the handler's decision to stop and its answer are steps apart, with
the child's exit and the client's departure in between. Theorems: `TypeCorrect`,
`AnswersAreWhole`, `RefusalsAreJustified`, `NothingOutlivesARequest`, for pipes,
limits and outputs of any size; and `ParserIsExact`, from the next module.

**GitSpecsProofs.** `DiffParserIsExact` and `RawParserIsExact`: the parsers agree with
the documented forms on texts of any length. The first rests on `Cut` (what
`strings.Cut` returns), `CutIsExact` (cutting at the first separator yields two ids
exactly when the text is two ids with the separator between, since no separator
starts with a hexadecimal digit) and `TwoIsNotThree`. The second rests on
`SegmentOccurs`: a text without slashes is a segment of a path if and only if it
occurs between two slashes of the path with a slash on either side. No induction
over texts is needed, since `Occurs` is defined by positions.

With these, every invariant and every action property that a passing run checks
is a theorem as well, and so are both refinements of IdempotentMint. Only
model-checked are the liveness properties (`EveryCreateEnds`, `EveryRequestEnds`,
`EveryCallEnds`, `RequestsEnd`, `ProcessEnds`): TLAPS has no support for ENABLED,
which weak fairness is about. So are the four violations, which are behaviours
that TLC exhibits.

## Not modelled

- Agent documentation, routing, JSON, control authentication and the read-only
  queries of the control plane: stateless, and nothing of them interleaves.
- Validation of names, branches, scopes and identifiers: pure functions that the
  unit tests enumerate.
- How settings are parsed, what Sentry is sent, the byte counts, durations and
  encoding of a log line, the environment of http-backend: data no property here
  tells apart. That a setting is refused is a step of ServerLifecycle.
- The content of git repositories: a push makes a commit appear, gc removes it.
- Power loss (the models' disk keeps what was written, while the code does not
  sync), clocks that go back, collisions of random identifiers, several
  processes on one storage root.

## Plan

Done: provisioning, idempotency, access, the memory store, LFS, the git
children, the access log and the process, with the runs above, and proofs of
their safety properties in eight modules.

Left, in this order:

1. The safety half of the liveness arguments, which TLAPS can do: that a waiting
   INSERT, lock or mutex always has a holder that does not wait for the waiter.
2. Composition of TokenAccess with transfers: how long a granted transfer
   outlives a revocation.
3. `validateDefaultBranch` and `isCanonicalUUID` as operators checked against
   reference definitions, as GitSpecs does for URLs.
