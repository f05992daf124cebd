---------------------------- MODULE MemoryStore -----------------------------
(***************************************************************************)
(* The deployment without a database: memoryRepoStore, whose maps are      *)
(* guarded by one mutex, and memoryIdempotencyStore, whose records are     *)
(* guarded by another.                                                     *)
(*                                                                         *)
(* CreateRepo keeps the store's mutex while it runs git, and Do keeps the  *)
(* idempotency mutex while it calls CreateRepoToken, which needs the       *)
(* store's.  Every other operation locks, works and unlocks, and is one    *)
(* step; an answer that changes nothing is no step.  A crash loses the     *)
(* maps and keeps the disk.                                                *)
(***************************************************************************)
EXTENDS Naturals

CONSTANTS
  Creators,       \* POST /v1/repos calls, each made once
  Minters,        \* POST /v1/repos/{id}/tokens calls with an Idempotency-Key
  Names,          \* "namespace/name" keys
  Branches,       \* default branch names, GitInitBranch among them
  RepoIDs,        \* UUIDs newUUID can return
  Keys,           \* idempotency keys; the scope adds the repo id
  Hashes,         \* request hashes
  Tokens,         \* secrets generateRepoToken can return
  Unkeyed,        \* those it returns to requests without an Idempotency-Key
  TokenTTL,       \* life time of a token
  TTL,            \* life time of an idempotency record
  MaxTime,        \* bound: the clock stops here
  GitInitBranch,  \* the HEAD that git init --bare writes before symbolic-ref
  NoDir, Partial, \* no directory, an unfinished one
  None,           \* no value
  Faults          \* the faults this instance admits

Calls == Creators \cup Minters

Input     == [name : Names, branch : Branches]
LookupKey == RepoIDs \X Keys  \* idempotencyLookupKey: the scope is the repo
Request   == [key : LookupKey, hash : Hashes]
Repo      == [name : Names, branch : Branches, archived : Nat \cup {None}]
TokenRow  == [repo : RepoIDs, created : Nat, expires : Nat,
              revoked : Nat \cup {None}, lastUsed : Nat \cup {None}]
Record    == [hash : Hashes, token : Tokens, expires : Nat]
Minted    == [key : LookupKey, hash : Hashes, at : Nat]

ASSUME ConstantsAssumption ==
  /\ Creators \cap Minters = {}
  /\ GitInitBranch \in Branches
  /\ NoDir \notin Branches /\ Partial \notin Branches /\ NoDir # Partial
  /\ Unkeyed \subseteq Tokens
  /\ TokenTTL \in Nat \ {0} /\ TTL \in Nat \ {0} /\ MaxTime \in Nat
  /\ None \notin Calls \cup RepoIDs \cup Tokens \cup Nat
  /\ None \notin Input \cup Request \cup Repo \cup TokenRow \cup Record \cup Minted
  /\ Faults \subseteq {"cancel", "git", "rm", "crash"}

VARIABLES
  clock,   \* the current time
  mu,      \* the call that holds the store's mutex across steps, or None
  idemMu,  \* the call that holds the idempotency mutex, or None
  pc,      \* where each call is
  ctx,     \* TRUE while the call's context is live
  arg,     \* a creator's createRepoInput, a minter's idempotencyInput
  got,     \* a creator's repo id, a minter's token
  now,     \* the time a minter's Do read
  repos, byName, tok,  \* the maps of memoryRepoStore; tok is by secret
  rec,     \* the records of memoryIdempotencyStore
  minted,  \* history: the keyed request that minted a token, and when
  head     \* repos/<id>.git on disk: NoDir, Partial, or what HEAD points to

locks  == <<mu, idemMu>>
input  == <<ctx, arg>>
maps   == <<repos, byName, tok, rec, minted>>
vars   == <<clock, locks, pc, input, got, now, maps, head>>

InFlight == {"lock", "mkdir", "init", "symref", "undo", "do", "create", "record",
             "respond"}
Final    == {"done", "conflict", "notFound", "failed", "dead"}

\* Type correctness of the mutexes, the calls, the maps and the disk.
TypeOK ==
  /\ clock \in Nat
  /\ mu \in Creators \cup {None} /\ idemMu \in Minters \cup {None}
  /\ pc \in [Calls -> {"idle"} \cup InFlight \cup Final]
  /\ ctx \in [Calls -> BOOLEAN]
  /\ arg \in [Calls -> Input \cup Request \cup {None}]
  /\ got \in [Calls -> RepoIDs \cup Tokens \cup {None}]
  /\ now \in [Minters -> Nat]
  /\ repos \in [RepoIDs -> Repo \cup {None}]
  /\ byName \in [Names -> RepoIDs \cup {None}]
  /\ tok \in [Tokens -> TokenRow \cup {None}]
  /\ rec \in [LookupKey -> Record \cup {None}]
  /\ minted \in [Tokens -> Minted \cup {None}]
  /\ head \in [RepoIDs -> Branches \cup {NoDir, Partial}]

Init ==
  /\ clock = 0
  /\ mu = None /\ idemMu = None
  /\ pc = [c \in Calls |-> "idle"]
  /\ ctx = [c \in Calls |-> TRUE]
  /\ arg = [c \in Calls |-> None]
  /\ got = [c \in Calls |-> None]
  /\ now = [c \in Minters |-> 0]
  /\ repos = [i \in RepoIDs |-> None]
  /\ byName = [n \in Names |-> None]
  /\ tok = [t \in Tokens |-> None]
  /\ rec = [k \in LookupKey |-> None]
  /\ minted = [t \in Tokens |-> None]
  /\ head = [i \in RepoIDs |-> NoDir]

Goto(c, from, to) ==
  /\ pc[c] = from
  /\ pc' = [pc EXCEPT ![c] = to]

\* A handler has decoded and validated its request.
Start(c, to, args) ==
  /\ Goto(c, "idle", to)
  /\ \E a \in args : arg' = [arg EXCEPT ![c] = a]
  /\ UNCHANGED <<clock, locks, ctx, got, now, maps, head>>

\* c generates a UUID or a secret that no call has seen.
Generate(c, S) ==
  \E x \in S : /\ \A q \in Calls : got[q] # x
               /\ got' = [got EXCEPT ![c] = x]

-----------------------------------------------------------------------------
(***************************************************************************)
(* CreateRepo.                                                             *)
(***************************************************************************)

\* The name is known: its repo is returned.
CreateFound(c) ==
  /\ mu = None
  /\ Goto(c, "lock", "done")
  /\ byName[arg[c].name] # None
  /\ got' = [got EXCEPT ![c] = byName[arg[c].name]]
  /\ UNCHANGED <<clock, locks, input, now, maps, head>>

\* The name is new: the mutex stays locked.
CreateMissing(c) ==
  /\ mu = None
  /\ Goto(c, "lock", "mkdir")
  /\ byName[arg[c].name] = None
  /\ mu' = c
  /\ Generate(c, RepoIDs)
  /\ UNCHANGED <<clock, idemMu, input, now, maps, head>>

\* A git step of InitBareRepo leaves the directory at h.
GitStep(c, from, to, h) ==
  /\ ctx[c]
  /\ Goto(c, from, to)
  /\ head' = [head EXCEPT ![got[c]] = h]
  /\ UNCHANGED <<clock, idemMu, input, got, now, tok, rec, minted>>

\* MkdirAll succeeds and git init --bare starts to fill the directory.
GitInitBegins(c) ==
  GitStep(c, "mkdir", "init", Partial) /\ UNCHANGED <<mu, repos, byName>>

\* git init --bare has finished.
GitInit(c) ==
  GitStep(c, "init", "symref", GitInitBranch) /\ UNCHANGED <<mu, repos, byName>>

\* Both maps are filled and the mutex is unlocked: 201.
Publish(c) ==
  /\ repos' = [repos EXCEPT ![got[c]] =
                 [name |-> arg[c].name, branch |-> arg[c].branch,
                  archived |-> None]]
  /\ byName' = [byName EXCEPT ![arg[c].name] = got[c]]
  /\ mu' = None

\* Mutant of GitSymref: the repo is not entered into byName.
GitSymrefNoName(c) ==
  /\ GitStep(c, "symref", "done", arg[c].branch)
  /\ repos' = [repos EXCEPT ![got[c]] =
                 [name |-> arg[c].name, branch |-> arg[c].branch,
                  archived |-> None]]
  /\ mu' = None
  /\ UNCHANGED byName

\* git symbolic-ref HEAD refs/heads/<defaultBranch> succeeds.
GitSymref(c) ==
  GitStep(c, "symref", "done", arg[c].branch) /\ Publish(c)

\* Mutant of GitFails: the error of git symbolic-ref is dropped.
GitErrorDropped(c) ==
  /\ ~ctx[c] \/ "git" \in Faults
  /\ Goto(c, "symref", "done")
  /\ Publish(c)
  /\ UNCHANGED <<clock, idemMu, input, got, now, tok, rec, minted, head>>

\* MkdirAll or a git command fails, or the context kills the command.
GitFails(c) ==
  /\ ~ctx[c] \/ "git" \in Faults
  /\ \E from \in {"mkdir", "init", "symref"} : Goto(c, from, "undo")
  /\ UNCHANGED <<clock, locks, input, got, now, maps, head>>

\* Mutant of DeleteBareRepo: the error path does not unlock.
DeleteKeepsMutex(c) ==
  /\ Goto(c, "undo", "failed")
  /\ head' = [head EXCEPT ![got[c]] = NoDir]
  /\ UNCHANGED <<clock, locks, input, got, now, maps>>

\* DeleteBareRepo, which does nothing once the context is done; unlock, 500.
DeleteBareRepo(c) ==
  /\ Goto(c, "undo", "failed")
  /\ \/ ~ctx[c] /\ UNCHANGED head
     \/ ctx[c] /\ head' = [head EXCEPT ![got[c]] = NoDir]
     \/ /\ ctx[c] /\ "rm" \in Faults
        /\ head[got[c]] # NoDir
        /\ head' = [head EXCEPT ![got[c]] = Partial]
  /\ mu' = None
  /\ UNCHANGED <<clock, idemMu, input, got, now, maps>>

-----------------------------------------------------------------------------
(***************************************************************************)
(* memoryIdempotencyStore.Do around CreateRepoToken.                       *)
(***************************************************************************)

Key(c)  == arg[c].key
Live(k) == rec[k] # None /\ clock < rec[k].expires

\* ctx.Err() before the mutex; afterwards nobody looks at the context.
DoCancelled(c) ==
  /\ ~ctx[c]
  /\ Goto(c, "do", "failed")
  /\ UNCHANGED <<clock, locks, input, got, now, maps, head>>

\* A live record of this request: 201 with the recorded response.
DoReplay(c) ==
  /\ idemMu = None
  /\ Goto(c, "do", "done")
  /\ Live(Key(c))
  /\ rec[Key(c)].hash = arg[c].hash
  /\ got' = [got EXCEPT ![c] = rec[Key(c)].token]
  /\ UNCHANGED <<clock, locks, input, now, maps, head>>

\* A live record of another request: 409.
DoConflict(c) ==
  /\ idemMu = None
  /\ Goto(c, "do", "conflict")
  /\ Live(Key(c))
  /\ rec[Key(c)].hash # arg[c].hash
  /\ UNCHANGED <<clock, locks, input, got, now, maps, head>>

\* Mutant of DoMiss: the mutex is not kept across create.
DoMissUnlocks(c) ==
  /\ idemMu = None
  /\ Goto(c, "do", "create")
  /\ ~Live(Key(c))
  /\ now' = [now EXCEPT ![c] = clock]
  /\ rec' = [rec EXCEPT ![Key(c)] = None]
  /\ UNCHANGED <<clock, locks, input, got, repos, byName, tok, minted, head>>

\* Mutant of DoMiss: create is not called.
DoMissSkipsCreate(c) ==
  /\ idemMu = None
  /\ Goto(c, "do", "record")
  /\ ~Live(Key(c))
  /\ idemMu' = c
  /\ now' = [now EXCEPT ![c] = clock]
  /\ rec' = [rec EXCEPT ![Key(c)] = None]
  /\ UNCHANGED <<clock, mu, input, got, repos, byName, tok, minted, head>>

\* No record, or an expired one, which is deleted; the mutex stays locked.
DoMiss(c) ==
  /\ idemMu = None
  /\ Goto(c, "do", "create")
  /\ ~Live(Key(c))
  /\ idemMu' = c
  /\ now' = [now EXCEPT ![c] = clock]
  /\ rec' = [rec EXCEPT ![Key(c)] = None]
  /\ UNCHANGED <<clock, mu, input, got, repos, byName, tok, minted, head>>

NewToken(i) ==
  [repo |-> i, created |-> clock, expires |-> clock + TokenTTL,
   revoked |-> None, lastUsed |-> None]

\* CreateRepoToken, under the store's mutex.
CreateRepoToken(c) ==
  /\ mu = None
  /\ Goto(c, "create", "record")
  /\ repos[Key(c)[1]] # None
  /\ Generate(c, Tokens \ Unkeyed)
  /\ tok' = [tok EXCEPT ![got'[c]] = NewToken(Key(c)[1])]
  /\ UNCHANGED <<clock, locks, input, now, repos, byName, rec, minted, head>>

\* CreateRepoToken returns errRepoNotFound: Do unlocks, 404.
CreateNotFound(c) ==
  /\ mu = None
  /\ Goto(c, "create", "notFound")
  /\ repos[Key(c)[1]] = None
  /\ idemMu' = None
  /\ UNCHANGED <<clock, mu, input, got, now, maps, head>>

\* The record is stored and Do unlocks.
RecordResponse(c) ==
  /\ Goto(c, "record", "respond")
  /\ rec' = [rec EXCEPT ![Key(c)] =
               [hash |-> arg[c].hash, token |-> got[c], expires |-> now[c] + TTL]]
  /\ minted' = [minted EXCEPT ![got[c]] =
                  [key |-> Key(c), hash |-> arg[c].hash, at |-> now[c]]]
  /\ idemMu' = None
  /\ UNCHANGED <<clock, mu, input, got, now, repos, byName, tok, head>>

\* writeJSON with the response of create: 201.
Respond(c) ==
  /\ Goto(c, "respond", "done")
  /\ UNCHANGED <<clock, locks, input, got, now, maps, head>>

-----------------------------------------------------------------------------
(***************************************************************************)
(* Operations that lock, work and unlock.                                  *)
(***************************************************************************)

\* An operation changes only token t, and only while the mutex is free.
UpdateToken(t, row) ==
  /\ mu = None
  /\ tok' = [tok EXCEPT ![t] = row]
  /\ UNCHANGED <<clock, locks, pc, input, got, now, repos, byName, rec, minted,
                 head>>

\* CreateRepoToken of a request without an Idempotency-Key.
CreateUnkeyed(t, i) ==
  /\ repos[i] # None
  /\ tok[t] = None
  /\ UpdateToken(t, NewToken(i))

\* Mutant of AuthorizeGitAccess: revocation is not looked at.
AuthorizeThoughRevoked(t) ==
  /\ tok[t] # None
  /\ repos[tok[t].repo].archived = None
  /\ clock < tok[t].expires
  /\ head[tok[t].repo] # NoDir
  /\ UpdateToken(t, [tok[t] EXCEPT !.lastUsed = clock])

\* AuthorizeGitAccess grants t an operation on its repo and dates the use.
AuthorizeGitAccess(t) ==
  /\ tok[t] # None
  /\ repos[tok[t].repo].archived = None
  /\ tok[t].revoked = None
  /\ clock < tok[t].expires
  /\ head[tok[t].repo] # NoDir
  /\ UpdateToken(t, [tok[t] EXCEPT !.lastUsed = clock])

\* RevokeRepoToken of a token not revoked before.
RevokeRepoToken(t) ==
  /\ tok[t] # None
  /\ tok[t].revoked = None
  /\ UpdateToken(t, [tok[t] EXCEPT !.revoked = clock])

\* ArchiveRepo of a repo not archived before.
ArchiveRepo(i) ==
  /\ mu = None
  /\ repos[i] # None
  /\ repos[i].archived = None
  /\ repos' = [repos EXCEPT ![i].archived = clock]
  /\ UNCHANGED <<clock, locks, pc, input, got, now, byName, tok, rec, minted, head>>

-----------------------------------------------------------------------------
Tick ==
  /\ clock < MaxTime
  /\ clock' = clock + 1
  /\ UNCHANGED <<locks, pc, input, got, now, maps, head>>

Cancel(c) ==
  /\ "cancel" \in Faults
  /\ pc[c] \in InFlight
  /\ ctx[c]
  /\ ctx' = [ctx EXCEPT ![c] = FALSE]
  /\ UNCHANGED <<clock, locks, pc, arg, got, now, maps, head>>

\* The process dies: maps and mutexes are gone, the directories stay.
Crash ==
  /\ "crash" \in Faults
  /\ \E c \in Calls : pc[c] \in InFlight
  /\ pc' = [c \in Calls |-> IF pc[c] \in InFlight THEN "dead" ELSE pc[c]]
  /\ mu' = None /\ idemMu' = None
  /\ repos' = [i \in RepoIDs |-> None]
  /\ byName' = [n \in Names |-> None]
  /\ tok' = [t \in Tokens |-> None]
  /\ rec' = [k \in LookupKey |-> None]
  /\ minted' = [t \in Tokens |-> None]
  /\ UNCHANGED <<clock, input, got, now, head>>

\* Every call has ended.
Quiescent ==
  /\ \A c \in Calls : pc[c] \in Final
  /\ UNCHANGED vars

CreateStep(c) ==
  \/ CreateFound(c) \/ CreateMissing(c)
  \/ GitInitBegins(c) \/ GitInit(c) \/ GitSymref(c)
  \/ GitFails(c) \/ DeleteBareRepo(c)

MintStep(c) ==
  \/ DoCancelled(c) \/ DoReplay(c) \/ DoConflict(c) \/ DoMiss(c)
  \/ CreateRepoToken(c) \/ CreateNotFound(c) \/ RecordResponse(c) \/ Respond(c)

Next ==
  \/ \E c \in Creators : Start(c, "lock", Input) \/ CreateStep(c)
  \/ \E c \in Minters : Start(c, "do", Request) \/ MintStep(c)
  \/ \E t \in Tokens : AuthorizeGitAccess(t) \/ RevokeRepoToken(t)
  \/ \E i \in RepoIDs : ArchiveRepo(i) \/ \E t \in Unkeyed : CreateUnkeyed(t, i)
  \/ \E c \in Calls : Cancel(c)
  \/ Tick \/ Crash \/ Quiescent

Spec == Init /\ [][Next]_vars

\* Go's mutexes are starvation free, its scheduler runs every goroutine and
\* git commands end.
Fairness ==
  /\ \A c \in Creators : WF_vars(CreateStep(c))
  /\ \A c \in Minters : WF_vars(MintStep(c))

FairSpec == Spec /\ Fairness

-----------------------------------------------------------------------------
(***************************************************************************)
(* Properties.                                                             *)
(***************************************************************************)

\* The two maps of CreateRepo name the same repositories, and each of them has
\* its bare repository on disk with HEAD at its default branch, whatever was
\* cancelled, failed or crashed between generating the id and filling the maps.
MapsAndDiskAgree ==
  /\ \A n \in Names, i \in RepoIDs :
       byName[n] = i <=> (repos[i] # None /\ repos[i].name = n)
  /\ \A i \in RepoIDs : repos[i] # None => head[i] = repos[i].branch

\* No use of a token is dated after its revocation or after its repository
\* was archived, and every use lies within its life: under the mutex a use
\* and the times it is compared with cannot interleave.
NoUseAfterRevocation ==
  \A t \in Tokens : (tok[t] # None /\ tok[t].lastUsed # None) =>
    /\ tok[t].created <= tok[t].lastUsed /\ tok[t].lastUsed < tok[t].expires
    /\ tok[t].revoked # None => tok[t].lastUsed <= tok[t].revoked
    /\ repos[tok[t].repo].archived # None
         => tok[t].lastUsed <= repos[tok[t].repo].archived

\* The memory store keeps the same promise as the Postgres one, see
\* IdempotentMint, but for what it forgets when it restarts.
AnswerOf(p) ==
  CASE p = "done"     -> "created"
    [] p = "conflict" -> "conflict"
    [] p = "notFound" -> "notFound"
    [] p = "failed"   -> "error"
    [] OTHER          -> None

Asked    == [c \in Minters |-> arg[c]]
Answered == [c \in Minters |-> AnswerOf(pc[c])]
Given    == [c \in Minters |-> IF pc[c] = "done" THEN got[c] ELSE None]

Promise == INSTANCE IdempotentMint WITH
  Requests <- Minters, Keys <- LookupKey, Durable <- FALSE, tok <- minted,
  req <- Asked, answer <- Answered, given <- Given

\* Do under its mutex does only what the atomic service of IdempotentMint
\* does: one token per key and window, no replay to another request.  A crash
\* at any point forgets a token together with its record, never one alone.
ImplementsPromise == Promise!Spec

\* Every call ends: the mutex CreateRepo keeps while git runs and the mutex
\* Do keeps while it waits for that one are always released, error paths
\* included.
EveryCallEnds ==
  \A c \in Calls : (pc[c] \in {"lock", "do"}) ~> (pc[c] \in Final)
=============================================================================
