-------------------------- MODULE MemoryStoreProofs --------------------------
(***************************************************************************)
(* Proofs about MemoryStore, for any number of calls, names, repositories, *)
(* keys and tokens, any life times and any set of faults.                  *)
(***************************************************************************)
EXTENDS MemoryStore, TLAPS

-----------------------------------------------------------------------------
(***************************************************************************)
(* The inductive invariant.                                                *)
(***************************************************************************)

\* CreateRepo has generated an id and not yet unlocked; Do has not unlocked.
Building == {"mkdir", "init", "symref", "undo"}
Holding  == {"create", "record"}

\* A create has its input and, from the moment it keeps the mutex, an id.
CreatorFits(c) ==
  /\ pc[c] \in {"idle", "lock", "done", "failed", "dead"} \cup Building
  /\ pc[c] # "idle" => arg[c] \in Input
  /\ pc[c] \in {"idle", "lock"} => got[c] = None
  /\ pc[c] \in Building => got[c] \in RepoIDs
  /\ pc[c] \in Building <=> mu = c

\* A keyed mint has its request, and a token from create on.
MinterFits(m) ==
  /\ pc[m] \in {"idle", "do", "respond"} \cup Holding \cup Final
  /\ pc[m] = "idle" => arg[m] = None
  /\ pc[m] # "idle" => arg[m] \in Request
  /\ pc[m] \in {"idle", "do", "create"} => got[m] = None
  /\ pc[m] \in {"record", "respond"} => got[m] \in Tokens
  /\ pc[m] \in Holding <=> idemMu = m
  /\ now[m] <= clock

CallsFit ==
  /\ \A c \in Creators : CreatorFits(c)
  /\ \A m \in Minters : MinterFits(m)

\* The id and the name of a create that has the mutex are nobody's yet, and
\* every repository has the id of some create.
Unpublished ==
  /\ \A c \in Creators : pc[c] \in Building =>
       repos[got[c]] = None /\ byName[arg[c].name] = None
  /\ \A i \in RepoIDs : repos[i] # None => \E c \in Creators : got[c] = i

\* d, if it is a time, lies between from and to.
Between(from, d, to) == d # None => from <= d /\ d <= to

\* Tokens belong to repositories, and their dates are in order.
Dated(t) ==
  tok[t] # None =>
    /\ repos[tok[t].repo] # None
    /\ Between(tok[t].created, tok[t].lastUsed, clock)
    /\ tok[t].created <= clock /\ Between(0, tok[t].revoked, clock)
    /\ tok[t].lastUsed # None => tok[t].lastUsed < tok[t].expires
    /\ tok[t].revoked # None => Between(0, tok[t].lastUsed, tok[t].revoked)
    /\ repos[tok[t].repo].archived # None =>
         Between(0, tok[t].lastUsed, repos[tok[t].repo].archived)

\* No repository was archived in the future.
ArchivedBefore(i) == repos[i] # None => Between(0, repos[i].archived, clock)

StoreInv ==
  /\ TypeOK /\ CallsFit /\ Unpublished /\ MapsAndDiskAgree
  /\ \A i \in RepoIDs : ArchivedBefore(i)
  /\ \A t \in Tokens : Dated(t)

-----------------------------------------------------------------------------
\* Records and mints, for the promise.

\* Token t was minted for the key and the body of m.
MintedFor(t, m) ==
  t \in Tokens /\ minted[t] # None /\ minted[t].key = arg[m].key /\ minted[t].hash = arg[m].hash

\* A record is that of a mint.  A mint has a record as long as it can be
\* replayed, and the token of a keyed request.
RecordsMatch ==
  /\ \A k \in LookupKey : rec[k] # None =>
       LET t == rec[k].token IN
       /\ minted[t] # None /\ minted[t].key = k /\ minted[t].hash = rec[k].hash
  /\ \A t \in Tokens : minted[t] # None =>
       /\ \E m \in Minters : got[m] = t
       /\ \/ minted[t].at + TTL <= clock
          \/ /\ rec[minted[t].key] # None
             /\ minted[t].at + TTL <= rec[minted[t].key].expires

\* While Do keeps its mutex, what it found stays so: no record, and every mint
\* of the key a record life time before.
FindingsHold(m) ==
  /\ pc[m] \in Holding =>
       \A t \in Tokens : minted[t] # None /\ minted[t].key = arg[m].key
         => minted[t].at + TTL <= now[m]
  /\ pc[m] = "record" => minted[got[m]] = None
  /\ pc[m] = "respond" => MintedFor(got[m], m)

PromiseInv == RecordsMatch /\ \A m \in Minters : FindingsHold(m)

Inv == StoreInv /\ PromiseInv

-----------------------------------------------------------------------------
\* Nothing has happened and the maps are empty.
LEMMA InitInv == Init => Inv
<1> SUFFICES ASSUME Init PROVE Inv
  OBVIOUS
<1> USE ConstantsAssumption DEF Init, Calls
<1>1. TypeOK
  BY DEF TypeOK, InFlight, Final
<1>2. CallsFit
  BY DEF CallsFit, CreatorFits, MinterFits, Building, Holding, Final
<1>3. Unpublished /\ MapsAndDiskAgree
  BY DEF Unpublished, MapsAndDiskAgree, Building
<1>4. (\A i \in RepoIDs : ArchivedBefore(i)) /\ (\A t \in Tokens : Dated(t))
  BY DEF ArchivedBefore, Dated
<1>5. RecordsMatch
  BY DEF RecordsMatch
<1>6. \A m \in Minters : FindingsHold(m)
  BY DEF FindingsHold, Holding
<1>7. QED
  BY <1>1, <1>2, <1>3, <1>4, <1>5, <1>6 DEF Inv, StoreInv, PromiseInv

-----------------------------------------------------------------------------
(***************************************************************************)
(* Rows that change in one field.                                          *)
(***************************************************************************)

UsedAt(x, n) ==
  [repo |-> x.repo, created |-> x.created, expires |-> x.expires,
   revoked |-> x.revoked, lastUsed |-> n]
RevokedAt(x, n) ==
  [repo |-> x.repo, created |-> x.created, expires |-> x.expires,
   revoked |-> n, lastUsed |-> x.lastUsed]
ArchivedAt(x, n) == [name |-> x.name, branch |-> x.branch, archived |-> n]

\* AuthorizeGitAccess replaces the row of its token.
LEMMA AuthorizeEffect ==
  ASSUME TypeOK, NEW t \in Tokens, AuthorizeGitAccess(t)
  PROVE  /\ tok[t] \in TokenRow /\ UsedAt(tok[t], clock) \in TokenRow
         /\ UpdateToken(t, UsedAt(tok[t], clock))
<1>1. tok[t] # None
  BY Zenon DEF AuthorizeGitAccess
<1>2. tok[t] \in TokenRow /\ clock \in Nat
  BY <1>1 DEF TypeOK
<1>3. ASSUME NEW x \in TokenRow
      PROVE  [x EXCEPT !.lastUsed = clock] = UsedAt(x, clock)
  BY DEF TokenRow, UsedAt
<1>4. UsedAt(tok[t], clock) \in TokenRow
  BY <1>2 DEF UsedAt, TokenRow
<1>5. [tok[t] EXCEPT !.lastUsed = clock] = UsedAt(tok[t], clock)
  BY <1>2, <1>3
<1>6. QED
  BY <1>2, <1>4, <1>5, Zenon DEF AuthorizeGitAccess

\* So does RevokeRepoToken.
LEMMA RevokeEffect ==
  ASSUME TypeOK, NEW t \in Tokens, RevokeRepoToken(t)
  PROVE  /\ tok[t] \in TokenRow /\ RevokedAt(tok[t], clock) \in TokenRow
         /\ UpdateToken(t, RevokedAt(tok[t], clock))
<1>1. tok[t] # None
  BY Zenon DEF RevokeRepoToken
<1>2. tok[t] \in TokenRow /\ clock \in Nat
  BY <1>1 DEF TypeOK
<1>3. ASSUME NEW x \in TokenRow
      PROVE  [x EXCEPT !.revoked = clock] = RevokedAt(x, clock)
  BY DEF TokenRow, RevokedAt
<1>4. RevokedAt(tok[t], clock) \in TokenRow
  BY <1>2 DEF RevokedAt, TokenRow
<1>5. [tok[t] EXCEPT !.revoked = clock] = RevokedAt(tok[t], clock)
  BY <1>2, <1>3
<1>6. QED
  BY <1>2, <1>4, <1>5, Zenon DEF RevokeRepoToken

\* ArchiveRepo replaces the entry of its repository.
LEMMA ArchiveEffect ==
  ASSUME TypeOK, NEW i \in RepoIDs, ArchiveRepo(i)
  PROVE  /\ mu = None /\ repos[i] \in Repo /\ repos[i].archived = None
         /\ ArchivedAt(repos[i], clock) \in Repo
         /\ repos' = [repos EXCEPT ![i] = ArchivedAt(repos[i], clock)]
         /\ UNCHANGED <<clock, locks, pc, input, got, now, byName, tok, rec, minted, head>>
<1>1. /\ mu = None /\ repos[i] # None /\ repos[i].archived = None
      /\ repos' = [repos EXCEPT ![i].archived = clock]
      /\ UNCHANGED <<clock, locks, pc, input, got, now, byName, tok, rec, minted, head>>
  BY Zenon DEF ArchiveRepo
<1>2. repos[i] \in Repo /\ clock \in Nat
  BY <1>1, Zenon DEF TypeOK
<1>3. ASSUME NEW x \in Repo
      PROVE  [x EXCEPT !.archived = clock] = ArchivedAt(x, clock)
  BY DEF Repo, ArchivedAt
<1>4. ArchivedAt(repos[i], clock) \in Repo
  BY <1>2 DEF ArchivedAt, Repo
<1>5. [repos[i] EXCEPT !.archived = clock] = ArchivedAt(repos[i], clock)
  BY <1>2, <1>3
<1>6. QED
  BY <1>1, <1>2, <1>4, <1>5, Zenon

\* A new token is a row.
LEMMA NewTokenType ==
  ASSUME TypeOK, NEW i \in RepoIDs PROVE NewToken(i) \in TokenRow
BY ConstantsAssumption DEF NewToken, TokenRow, TypeOK

-----------------------------------------------------------------------------
(***************************************************************************)
(* Types.                                                                  *)
(***************************************************************************)

\* Every step keeps the variables in their types.
LEMMA StepType == TypeOK /\ CallsFit /\ [Next]_vars => TypeOK'
<1> SUFFICES ASSUME TypeOK, CallsFit, [Next]_vars
             PROVE  TypeOK'
  OBVIOUS
<1> USE ConstantsAssumption DEF InFlight, Final, locks, input, maps, Calls
<1>1. ASSUME NEW c \in Creators, Start(c, "lock", Input) PROVE TypeOK'
  BY <1>1 DEF Start, Goto, TypeOK
<1>2. ASSUME NEW c \in Creators, CreateStep(c) PROVE TypeOK'
  <2>1. CASE CreateFound(c)
    <3>1. pc[c] = "lock" /\ arg[c].name \in Names
      BY <2>1 DEF CreateFound, Goto, CallsFit, CreatorFits, Input
    <3>2. QED
      BY <2>1, <3>1 DEF CreateFound, Goto, TypeOK
  <2>2. CASE CreateMissing(c)
    BY <2>2 DEF CreateMissing, Generate, Goto, TypeOK
  <2>3. CASE GitInitBegins(c) \/ GitInit(c)
    BY <2>3 DEF GitInitBegins, GitInit, GitStep, Goto, TypeOK
  <2>4. CASE GitSymref(c)
    <3>1. arg[c] \in Input /\ got[c] \in RepoIDs
      BY <2>4 DEF GitSymref, GitStep, Goto, CallsFit, CreatorFits, Building
    <3>2. [name |-> arg[c].name, branch |-> arg[c].branch, archived |-> None] \in Repo
      BY <3>1 DEF Input, Repo
    <3>3. arg[c].name \in Names /\ arg[c].branch \in Branches
      BY <3>1 DEF Input
    <3>4. QED
      BY <2>4, <3>1, <3>2, <3>3 DEF GitSymref, GitStep, Publish, Goto, TypeOK
  <2>5. CASE GitFails(c)
    BY <2>5 DEF GitFails, Goto, TypeOK
  <2>6. CASE DeleteBareRepo(c)
    BY <2>6 DEF DeleteBareRepo, Goto, TypeOK
  <2>7. QED
    BY <1>2, <2>1, <2>2, <2>3, <2>4, <2>5, <2>6 DEF CreateStep
<1>3. ASSUME NEW m \in Minters, Start(m, "do", Request) PROVE TypeOK'
  BY <1>3 DEF Start, Goto, TypeOK
<1>4. ASSUME NEW m \in Minters, MintStep(m) PROVE TypeOK'
  <2>0. pc[m] # "idle" /\ arg[m] \in Request /\ Key(m) \in LookupKey /\ arg[m].hash \in Hashes
    <3>1. pc[m] # "idle"
      BY <1>4 DEF MintStep, DoCancelled, DoReplay, DoConflict, DoMiss, CreateRepoToken,
                  CreateNotFound, RecordResponse, Respond, Goto
    <3>2. QED
      BY <3>1 DEF CallsFit, MinterFits, Request, Key
  <2>1. CASE DoCancelled(m) \/ DoConflict(m) \/ Respond(m)
    BY <2>1 DEF DoCancelled, DoConflict, Respond, Goto, TypeOK
  <2>2. CASE DoReplay(m)
    <3>1. rec[Key(m)].token \in Tokens
      BY <2>0, <2>2 DEF DoReplay, Live, TypeOK, Record
    <3>2. QED
      BY <2>2, <3>1 DEF DoReplay, Goto, TypeOK
  <2>3. CASE DoMiss(m)
    BY <2>0, <2>3 DEF DoMiss, Goto, TypeOK
  <2>4. CASE CreateRepoToken(m)
    <3>1. PICK x \in Tokens : got' = [got EXCEPT ![m] = x]
      BY <2>4 DEF CreateRepoToken, Generate
    <3>2. got'[m] = x /\ Key(m)[1] \in RepoIDs
      BY <2>0, <3>1 DEF TypeOK, LookupKey
    <3>3. NewToken(Key(m)[1]) \in TokenRow
      BY <3>2, NewTokenType
    <3>4. tok' = [tok EXCEPT ![x] = NewToken(Key(m)[1])]
      BY <2>4, <3>2 DEF CreateRepoToken
    <3>5. QED
      BY <2>4, <3>1, <3>3, <3>4 DEF CreateRepoToken, Goto, TypeOK
  <2>5. CASE CreateNotFound(m)
    BY <2>5 DEF CreateNotFound, Goto, TypeOK
  <2>6. CASE RecordResponse(m)
    <3>1. got[m] \in Tokens /\ now[m] \in Nat
      BY <2>6 DEF RecordResponse, Goto, CallsFit, MinterFits, TypeOK
    <3>2. /\ [hash |-> arg[m].hash, token |-> got[m], expires |-> now[m] + TTL] \in Record
          /\ [key |-> Key(m), hash |-> arg[m].hash, at |-> now[m]] \in Minted
      BY <2>0, <3>1 DEF Record, Minted
    <3>3. QED
      BY <2>0, <2>6, <3>1, <3>2 DEF RecordResponse, Goto, TypeOK
  <2>7. QED
    BY <1>4, <2>1, <2>2, <2>3, <2>4, <2>5, <2>6 DEF MintStep
<1>5. ASSUME NEW t \in Tokens, NEW row \in TokenRow, UpdateToken(t, row) PROVE TypeOK'
  BY <1>5 DEF UpdateToken, TypeOK
<1>6. ASSUME NEW t \in Tokens, AuthorizeGitAccess(t) \/ RevokeRepoToken(t) PROVE TypeOK'
  BY <1>5, <1>6, AuthorizeEffect, RevokeEffect
<1>7. ASSUME NEW i \in RepoIDs, ArchiveRepo(i) PROVE TypeOK'
  BY <1>7, ArchiveEffect DEF TypeOK
<1>8. ASSUME NEW i \in RepoIDs, NEW t \in Unkeyed, CreateUnkeyed(t, i) PROVE TypeOK'
  BY <1>5, <1>8, NewTokenType DEF CreateUnkeyed
<1>9. ASSUME NEW c \in Calls, Cancel(c) PROVE TypeOK'
  BY <1>9 DEF Cancel, TypeOK
<1>10. CASE Tick
  BY <1>10 DEF Tick, TypeOK
<1>11. CASE Crash
  BY <1>11 DEF Crash, TypeOK
<1>12. CASE Quiescent \/ UNCHANGED vars
  BY <1>12 DEF Quiescent, vars, TypeOK
<1>13. QED
  BY <1>1, <1>2, <1>3, <1>4, <1>6, <1>7, <1>8, <1>9, <1>10, <1>11, <1>12 DEF Next

-----------------------------------------------------------------------------
(***************************************************************************)
(* Calls and mutexes.                                                      *)
(***************************************************************************)

\* A call whose own state a step leaves alone, with the mutexes it may have.
Untouched(c) ==
  /\ pc'[c] = pc[c] /\ arg'[c] = arg[c] /\ got'[c] = got[c]
  /\ c \in Creators => (mu' = c <=> mu = c)
  /\ c \in Minters => (idemMu' = c <=> idemMu = c) /\ now'[c] = now[c]

\* A step of one call touches no other: a mutex passes only from a call to
\* nobody and back.
LEMMA CallFrame ==
  ASSUME TypeOK, CallsFit, NEW c \in Calls, NEW d \in Calls, d # c,
         \/ c \in Creators /\ (Start(c, "lock", Input) \/ CreateStep(c))
         \/ c \in Minters /\ (Start(c, "do", Request) \/ MintStep(c))
  PROVE  Untouched(d)
<1> USE ConstantsAssumption DEF Calls, TypeOK, Untouched, locks, input, Goto, Generate
<1>1. CASE c \in Creators /\ CreateStep(c)
  <2>0. pc[c] \in Building => mu = c
    BY <1>1 DEF CallsFit, CreatorFits
  <2>1. CASE CreateFound(c) \/ CreateMissing(c)
    BY <1>1, <2>1 DEF CreateFound, CreateMissing
  <2>2. CASE GitInitBegins(c) \/ GitInit(c) \/ GitFails(c)
    BY <1>1, <2>2 DEF GitInitBegins, GitInit, GitStep, GitFails
  <2>3. CASE GitSymref(c)
    BY <1>1, <2>0, <2>3 DEF GitSymref, GitStep, Publish, Building
  <2>4. CASE DeleteBareRepo(c)
    BY <1>1, <2>0, <2>4 DEF DeleteBareRepo, Building
  <2>5. QED
    BY <1>1, <2>1, <2>2, <2>3, <2>4 DEF CreateStep
<1>2. CASE c \in Minters /\ MintStep(c)
  <2>0. pc[c] \in Holding => idemMu = c
    BY <1>2 DEF CallsFit, MinterFits
  <2>1. CASE DoCancelled(c) \/ DoReplay(c) \/ DoConflict(c) \/ Respond(c)
    BY <1>2, <2>1 DEF DoCancelled, DoReplay, DoConflict, Respond
  <2>2. CASE DoMiss(c)
    BY <1>2, <2>2 DEF DoMiss
  <2>3. CASE CreateRepoToken(c)
    BY <1>2, <2>3 DEF CreateRepoToken
  <2>4. CASE CreateNotFound(c) \/ RecordResponse(c)
    BY <1>2, <2>0, <2>4 DEF CreateNotFound, RecordResponse, Holding
  <2>5. QED
    BY <1>2, <2>1, <2>2, <2>3, <2>4 DEF MintStep
<1>3. CASE Start(c, "lock", Input) \/ Start(c, "do", Request)
  BY <1>3 DEF Start
<1>4. QED
  BY <1>1, <1>2, <1>3

\* The steps that belong to no call, but for a crash.
Background ==
  \/ \E t \in Tokens : AuthorizeGitAccess(t) \/ RevokeRepoToken(t)
  \/ \E i \in RepoIDs : ArchiveRepo(i) \/ \E t \in Unkeyed : CreateUnkeyed(t, i)
  \/ \E c \in Calls : Cancel(c)
  \/ Tick \/ Quiescent \/ UNCHANGED vars

\* Such a step touches no call, no name, no record and no directory.
LEMMA BackgroundFrame ==
  ASSUME TypeOK, Background
  PROVE  /\ \A d \in Calls : Untouched(d)
         /\ UNCHANGED <<locks, pc, arg, got, now, byName, rec, minted, head>>
<1> USE DEF Calls, TypeOK, Untouched, locks, input, maps
<1> SUFFICES UNCHANGED <<locks, pc, arg, got, now, byName, rec, minted, head>>
  OBVIOUS
<1>1. ASSUME NEW t \in Tokens, AuthorizeGitAccess(t) \/ RevokeRepoToken(t)
      PROVE  UNCHANGED <<locks, pc, arg, got, now, byName, rec, minted, head>>
  BY <1>1, AuthorizeEffect, RevokeEffect DEF UpdateToken
<1>2. ASSUME NEW i \in RepoIDs, ArchiveRepo(i)
      PROVE  UNCHANGED <<locks, pc, arg, got, now, byName, rec, minted, head>>
  BY <1>2, ArchiveEffect
<1>3. ASSUME NEW i \in RepoIDs, NEW t \in Unkeyed, CreateUnkeyed(t, i)
      PROVE  UNCHANGED <<locks, pc, arg, got, now, byName, rec, minted, head>>
  BY <1>3 DEF CreateUnkeyed, UpdateToken
<1>4. ASSUME NEW c \in Calls, Cancel(c)
      PROVE  UNCHANGED <<locks, pc, arg, got, now, byName, rec, minted, head>>
  BY <1>4 DEF Cancel
<1>5. CASE Tick \/ Quiescent \/ UNCHANGED vars
  BY <1>5 DEF Tick, Quiescent, vars
<1>6. QED
  BY <1>1, <1>2, <1>3, <1>4, <1>5 DEF Background

\* Time does not go back.
LEMMA ClockMoves == TypeOK /\ [Next]_vars => clock \in Nat /\ clock' \in Nat /\ clock <= clock'
<1> SUFFICES ASSUME TypeOK, [Next]_vars
             PROVE  clock \in Nat /\ clock' \in Nat /\ clock <= clock'
  OBVIOUS
<1>1. clock \in Nat
  BY DEF TypeOK
<1>2. CASE Tick
  BY <1>1, <1>2 DEF Tick
<1>3. ASSUME NEW t \in Tokens, AuthorizeGitAccess(t) \/ RevokeRepoToken(t)
      PROVE  UNCHANGED clock
  BY <1>3, AuthorizeEffect, RevokeEffect DEF UpdateToken
<1>4. ASSUME NEW i \in RepoIDs, ArchiveRepo(i) PROVE UNCHANGED clock
  BY <1>4, ArchiveEffect
<1>5. ASSUME NEW i \in RepoIDs, NEW t \in Unkeyed, CreateUnkeyed(t, i) PROVE UNCHANGED clock
  BY <1>5 DEF CreateUnkeyed, UpdateToken
<1>6. ASSUME NEW c \in Creators, Start(c, "lock", Input) \/ CreateStep(c) PROVE UNCHANGED clock
  BY <1>6 DEF Start, CreateStep, CreateFound, CreateMissing, GitInitBegins, GitInit, GitStep,
              GitSymref, GitFails, DeleteBareRepo
<1>7. ASSUME NEW c \in Minters, Start(c, "do", Request) \/ MintStep(c) PROVE UNCHANGED clock
  BY <1>7 DEF Start, MintStep, DoCancelled, DoReplay, DoConflict, DoMiss, CreateRepoToken,
              CreateNotFound, RecordResponse, Respond
<1>8. CASE (\E c \in Calls : Cancel(c)) \/ Crash \/ Quiescent \/ UNCHANGED vars
  BY <1>1, <1>8 DEF Cancel, Crash, Quiescent, vars
<1>9. QED
  BY <1>1, <1>2, <1>3, <1>4, <1>5, <1>6, <1>7, <1>8 DEF Next

\* Every step keeps calls and mutexes in step.
LEMMA StepCallsFit == TypeOK /\ CallsFit /\ [Next]_vars => CallsFit'
<1> SUFFICES ASSUME TypeOK, CallsFit, [Next]_vars
             PROVE  CallsFit'
  OBVIOUS
<1> USE ConstantsAssumption DEF Calls, TypeOK, locks, input, Goto, Generate
<1>0. clock \in Nat /\ clock' \in Nat /\ clock <= clock'
  BY ClockMoves
<1>1. ASSUME NEW d \in Calls, Untouched(d)
      PROVE  /\ d \in Creators => CreatorFits(d)'
             /\ d \in Minters => MinterFits(d)'
  BY <1>0, <1>1 DEF Untouched, CallsFit, CreatorFits, MinterFits
<1>2. ASSUME NEW c \in Creators, Start(c, "lock", Input) \/ CreateStep(c)
      PROVE  CallsFit'
  <2>1. \A d \in Calls : d # c => Untouched(d)
    BY <1>2, CallFrame
  <2>2. CreatorFits(c)
    BY DEF CallsFit
  <2>3. CreatorFits(c)'
    <3>1. CASE Start(c, "lock", Input)
      BY <2>2, <3>1 DEF Start, CreatorFits, Building
    <3>2. CASE CreateFound(c) \/ CreateMissing(c)
      BY <2>2, <3>2 DEF CreateFound, CreateMissing, CreatorFits, Building
    <3>3. CASE GitInitBegins(c) \/ GitInit(c) \/ GitFails(c)
      BY <2>2, <3>3 DEF GitInitBegins, GitInit, GitStep, GitFails, CreatorFits, Building
    <3>4. CASE GitSymref(c) \/ DeleteBareRepo(c)
      BY <2>2, <3>4 DEF GitSymref, GitStep, Publish, DeleteBareRepo, CreatorFits, Building
    <3>5. QED
      BY <1>2, <3>1, <3>2, <3>3, <3>4 DEF CreateStep
  <2>4. QED
    BY <1>1, <2>1, <2>3 DEF CallsFit
<1>3. ASSUME NEW m \in Minters, Start(m, "do", Request) \/ MintStep(m)
      PROVE  CallsFit'
  <2>1. \A d \in Calls : d # m => Untouched(d)
    BY <1>3, CallFrame
  <2>2. MinterFits(m)
    BY DEF CallsFit
  <2>3. MinterFits(m)'
    <3>1. CASE Start(m, "do", Request)
      BY <1>0, <2>2, <3>1 DEF Start, MinterFits, Holding, Final
    <3>2. CASE DoCancelled(m) \/ DoReplay(m) \/ DoConflict(m)
      BY <1>0, <2>2, <3>2 DEF DoCancelled, DoReplay, DoConflict, MinterFits, Holding, Final
    <3>3. CASE DoMiss(m)
      BY <1>0, <2>2, <3>3 DEF DoMiss, MinterFits, Holding, Final
    <3>4. CASE CreateRepoToken(m) \/ CreateNotFound(m)
      BY <1>0, <2>2, <3>4 DEF CreateRepoToken, CreateNotFound, MinterFits, Holding, Final
    <3>5. CASE RecordResponse(m) \/ Respond(m)
      BY <1>0, <2>2, <3>5 DEF RecordResponse, Respond, MinterFits, Holding, Final
    <3>6. QED
      BY <1>3, <3>1, <3>2, <3>3, <3>4, <3>5 DEF MintStep
  <2>4. QED
    BY <1>1, <2>1, <2>3 DEF CallsFit
<1>4. CASE Background
  BY <1>1, <1>4, BackgroundFrame DEF CallsFit
<1>5. CASE Crash
  BY <1>0, <1>5 DEF Crash, CallsFit, CreatorFits, MinterFits, Building, Holding, InFlight, Final
<1>6. QED
  BY <1>2, <1>3, <1>4, <1>5 DEF Next, Background

-----------------------------------------------------------------------------
(***************************************************************************)
(* The maps of CreateRepo and the disk.                                    *)
(***************************************************************************)

\* The maps and the directories as far as agreement is concerned: an entry may
\* become archived.
SameMaps ==
  /\ UNCHANGED <<byName, head>>
  /\ \A i \in RepoIDs : repos'[i] = repos[i] \/ (repos[i] # None /\ repos'[i] # None
       /\ repos'[i].name = repos[i].name /\ repos'[i].branch = repos[i].branch)

\* Only the create that keeps the mutex changes maps and directories.
LEMMA MapsFrame ==
  ASSUME TypeOK,
         \/ Background
         \/ \E c \in Creators : \/ Start(c, "lock", Input)
                                \/ CreateFound(c) \/ CreateMissing(c) \/ GitFails(c)
         \/ \E m \in Minters : Start(m, "do", Request) \/ MintStep(m)
  PROVE  SameMaps
<1> USE DEF maps
<1>0. ASSUME UNCHANGED <<repos, byName, head>> PROVE SameMaps
  BY <1>0 DEF SameMaps
<1>1. ASSUME NEW c \in Creators, \/ Start(c, "lock", Input)
                                 \/ CreateFound(c) \/ CreateMissing(c) \/ GitFails(c)
      PROVE  SameMaps
  BY <1>0, <1>1 DEF Start, CreateFound, CreateMissing, GitFails
<1>2. ASSUME NEW m \in Minters, Start(m, "do", Request) \/ MintStep(m)
      PROVE  SameMaps
  BY <1>0, <1>2 DEF Start, MintStep, DoCancelled, DoReplay, DoConflict, DoMiss,
                    CreateRepoToken, CreateNotFound, RecordResponse, Respond
<1>3. ASSUME NEW t \in Tokens, AuthorizeGitAccess(t) \/ RevokeRepoToken(t)
      PROVE  SameMaps
  BY <1>0, <1>3, AuthorizeEffect, RevokeEffect DEF UpdateToken
<1>4. ASSUME NEW i \in RepoIDs, ArchiveRepo(i) PROVE SameMaps
  <2>1. ArchivedAt(repos[i], clock) # None /\ repos[i] # None
    BY <1>4, ArchiveEffect, ConstantsAssumption
  <2>2. /\ repos'[i] = ArchivedAt(repos[i], clock) /\ UNCHANGED <<byName, head>>
        /\ \A j \in RepoIDs : j # i => repos'[j] = repos[j]
    BY <1>4, ArchiveEffect DEF TypeOK
  <2>3. repos'[i].name = repos[i].name /\ repos'[i].branch = repos[i].branch
    BY <2>2 DEF ArchivedAt
  <2>4. QED
    BY <2>1, <2>2, <2>3 DEF SameMaps
<1>5. ASSUME NEW i \in RepoIDs, NEW t \in Unkeyed, CreateUnkeyed(t, i) PROVE SameMaps
  BY <1>0, <1>5 DEF CreateUnkeyed, UpdateToken
<1>6. CASE (\E c \in Calls : Cancel(c)) \/ Tick \/ Quiescent \/ UNCHANGED vars
  BY <1>0, <1>6 DEF Cancel, Tick, Quiescent, vars
<1>7. QED
  BY <1>1, <1>2, <1>3, <1>4, <1>5, <1>6 DEF Background

\* Every step keeps the id and the name of a create that builds free, and keeps
\* the maps and the directories in agreement.
LEMMA StepMaps ==
  TypeOK /\ CallsFit /\ Unpublished /\ MapsAndDiskAgree /\ [Next]_vars
    => Unpublished' /\ MapsAndDiskAgree'
<1> SUFFICES ASSUME TypeOK, CallsFit, Unpublished, MapsAndDiskAgree, [Next]_vars
             PROVE  Unpublished' /\ MapsAndDiskAgree'
  OBVIOUS
<1> USE ConstantsAssumption
<1>a. ASSUME SameMaps PROVE MapsAndDiskAgree'
  BY <1>a DEF SameMaps, MapsAndDiskAgree
<1>b. ASSUME SameMaps,
             \A c \in Creators : pc'[c] \in Building =>
                 pc[c] \in Building /\ got'[c] = got[c] /\ arg'[c] = arg[c],
             \A c \in Creators : got[c] # None => got'[c] = got[c]
      PROVE  Unpublished' /\ MapsAndDiskAgree'
  <2>1. \A i \in RepoIDs : repos'[i] # None <=> repos[i] # None
    BY <1>b DEF SameMaps
  <2>2. \A c \in Creators : pc[c] \in Building => got[c] \in RepoIDs
    BY DEF CallsFit, CreatorFits
  <2>3. \A c \in Creators : pc'[c] \in Building =>
          repos'[got'[c]] = None /\ byName'[arg'[c].name] = None
    BY <1>b, <2>1, <2>2 DEF Unpublished, SameMaps
  <2>4. \A i \in RepoIDs : repos'[i] # None => \E c \in Creators : got'[c] = i
    BY <1>b, <2>1 DEF Unpublished
  <2>5. QED
    BY <1>a, <1>b, <2>3, <2>4 DEF Unpublished
<1>1. ASSUME NEW c \in Creators, Start(c, "lock", Input) \/ CreateFound(c) \/ GitFails(c)
      PROVE  Unpublished' /\ MapsAndDiskAgree'
  <2>1. SameMaps
    BY <1>1, MapsFrame
  <2>2. \A d \in Creators : pc'[d] \in Building =>
          pc[d] \in Building /\ got'[d] = got[d] /\ arg'[d] = arg[d]
    BY <1>1 DEF Start, CreateFound, GitFails, Goto, Building, TypeOK, Calls, input
  <2>3. \A d \in Creators : got[d] # None => got'[d] = got[d]
    BY <1>1 DEF Start, CreateFound, GitFails, Goto, TypeOK, Calls, CallsFit, CreatorFits, Building
  <2>4. QED
    BY <1>b, <2>1, <2>2, <2>3
<1>2. ASSUME NEW c \in Creators, CreateMissing(c) PROVE Unpublished' /\ MapsAndDiskAgree'
  <2>1. SameMaps /\ UNCHANGED <<repos, byName, arg>>
    BY <1>2, MapsFrame DEF CreateMissing, maps, input
  <2>2. PICK x \in RepoIDs : (\A q \in Calls : got[q] # x) /\ got' = [got EXCEPT ![c] = x]
    BY <1>2 DEF CreateMissing, Generate
  <2>3. repos[x] = None /\ got[c] = None /\ got'[c] = x
    BY <1>2, <2>2 DEF Unpublished, Calls, CreateMissing, Goto, CallsFit, CreatorFits, TypeOK
  <2>4. byName[arg[c].name] = None
    BY <1>2 DEF CreateMissing
  <2>5. \A d \in Creators : d # c => got'[d] = got[d] /\ pc'[d] = pc[d]
    BY <1>2, <2>2 DEF CreateMissing, Goto, TypeOK, Calls
  <2>6. Unpublished'
    BY <2>1, <2>3, <2>4, <2>5 DEF Unpublished
  <2>7. QED
    BY <1>a, <2>1, <2>6
<1>3. ASSUME NEW c \in Creators, mu = c, pc[c] \in Building,
             UNCHANGED <<arg, got, repos, byName>>,
             \A d \in Creators : pc'[d] \in Building => pc[d] \in Building,
             \A i \in RepoIDs : i # got[c] => head'[i] = head[i]
      PROVE  Unpublished' /\ MapsAndDiskAgree'
  <2>1. repos[got[c]] = None
    BY <1>3 DEF Unpublished
  <2>2. QED
    BY <1>3, <2>1 DEF Unpublished, MapsAndDiskAgree
<1>4. ASSUME NEW c \in Creators, GitInitBegins(c) \/ GitInit(c) \/ DeleteBareRepo(c)
      PROVE  Unpublished' /\ MapsAndDiskAgree'
  <2>1. pc[c] \in Building /\ mu = c
    BY <1>4 DEF GitInitBegins, GitInit, GitStep, DeleteBareRepo, Goto, Building,
                CallsFit, CreatorFits
  <2>2. /\ UNCHANGED <<arg, got, repos, byName>>
        /\ \A d \in Creators : pc'[d] \in Building => pc[d] \in Building
    BY <1>4, <2>1 DEF GitInitBegins, GitInit, GitStep, DeleteBareRepo, Goto, maps, input,
                      TypeOK, Calls
  <2>3. \A i \in RepoIDs : i # got[c] => head'[i] = head[i]
    BY <1>4 DEF GitInitBegins, GitInit, GitStep, DeleteBareRepo, TypeOK
  <2>4. QED
    BY <1>3, <2>1, <2>2, <2>3
<1>5. ASSUME NEW c \in Creators, GitSymref(c) PROVE Unpublished' /\ MapsAndDiskAgree'
  <2> DEFINE i == got[c]
             n == arg[c].name
             row == [name |-> n, branch |-> arg[c].branch, archived |-> None]
  <2>1. pc[c] = "symref" /\ mu = c /\ arg[c] \in Input /\ i \in RepoIDs
    BY <1>5 DEF GitSymref, GitStep, Goto, Building, CallsFit, CreatorFits
  <2>2. n \in Names /\ row \in Repo
    BY <2>1 DEF Input, Repo
  <2>3. row # None
    BY <2>2
  <2>4. repos[i] = None /\ byName[n] = None
    BY <2>1 DEF Unpublished, Building
  <2>5. /\ repos' = [repos EXCEPT ![i] = row] /\ byName' = [byName EXCEPT ![n] = i]
        /\ head' = [head EXCEPT ![i] = arg[c].branch]
        /\ UNCHANGED <<arg, got>> /\ pc' = [pc EXCEPT ![c] = "done"]
    BY <1>5 DEF GitSymref, GitStep, Publish, Goto, input
  <2>6. \A d \in Creators : pc'[d] \notin Building
    BY <2>1, <2>5 DEF CallsFit, CreatorFits, TypeOK, Calls, Building
  <2>7. \A j \in RepoIDs : repos'[j] # None => \E d \in Creators : got'[d] = j
    BY <2>1, <2>5 DEF Unpublished, TypeOK
  <2>8. \A m \in Names, j \in RepoIDs :
          byName'[m] = j <=> (repos'[j] # None /\ repos'[j].name = m)
    <3> SUFFICES ASSUME NEW m \in Names, NEW j \in RepoIDs
                 PROVE  byName'[m] = j <=> (repos'[j] # None /\ repos'[j].name = m)
      OBVIOUS
    <3>0. repos'[i] = row /\ row.name = n /\ byName'[n] = i
      BY <2>1, <2>2, <2>5 DEF TypeOK
    <3>1. CASE j = i /\ m = n
      BY <2>3, <3>0, <3>1
    <3>2. CASE j = i /\ m # n
      <4>1. byName[m] # i
        BY <2>1, <2>4 DEF MapsAndDiskAgree
      <4>2. QED
        BY <2>5, <3>0, <3>2, <4>1 DEF TypeOK
    <3>3. CASE j # i /\ m = n
      <4>1. repos'[j] = repos[j]
        BY <2>5, <3>3 DEF TypeOK
      <4>2. byName[n] # j
        BY <2>4
      <4>3. ~(repos[j] # None /\ repos[j].name = n)
        BY <2>2, <4>2 DEF MapsAndDiskAgree
      <4>4. QED
        BY <3>0, <3>3, <4>1, <4>3
    <3>4. CASE j # i /\ m # n
      BY <2>5, <3>4 DEF MapsAndDiskAgree, TypeOK
    <3>5. QED
      BY <3>1, <3>2, <3>3, <3>4
  <2>9. \A j \in RepoIDs : repos'[j] # None => head'[j] = repos'[j].branch
    BY <2>1, <2>5 DEF MapsAndDiskAgree, TypeOK
  <2>10. QED
    BY <2>6, <2>7, <2>8, <2>9 DEF Unpublished, MapsAndDiskAgree
<1>6. ASSUME NEW m \in Minters, Start(m, "do", Request) \/ MintStep(m)
      PROVE  Unpublished' /\ MapsAndDiskAgree'
  <2>1. SameMaps
    BY <1>6, MapsFrame
  <2>2. \A d \in Creators : Untouched(d)
    BY <1>6, CallFrame DEF Calls
  <2>3. QED
    BY <1>b, <2>1, <2>2 DEF Untouched
<1>7. CASE Background
  BY <1>b, <1>7, MapsFrame, BackgroundFrame DEF Untouched
<1>8. CASE Crash
  BY <1>8 DEF Crash, Unpublished, MapsAndDiskAgree, Building, InFlight, Calls
<1>9. QED
  BY <1>1, <1>2, <1>4, <1>5, <1>6, <1>7, <1>8 DEF Next, Background, CreateStep

-----------------------------------------------------------------------------
(***************************************************************************)
(* The dates of a token.                                                   *)
(***************************************************************************)

\* The dates of tokens are numbers.
LEMMA DateTypes ==
  ASSUME TypeOK, NEW t \in Tokens, tok[t] # None, repos[tok[t].repo] # None
  PROVE  /\ tok[t] \in TokenRow /\ tok[t].repo \in RepoIDs
         /\ tok[t].created \in Nat /\ tok[t].expires \in Nat
         /\ tok[t].revoked \in Nat \cup {None} /\ tok[t].lastUsed \in Nat \cup {None}
         /\ repos[tok[t].repo].archived \in Nat \cup {None}
<1>1. tok[t] \in TokenRow
  BY DEF TypeOK
<1>2. tok[t].repo \in RepoIDs
  BY <1>1 DEF TokenRow
<1>3. repos[tok[t].repo] \in Repo
  BY <1>2 DEF TypeOK
<1>4. QED
  BY <1>1, <1>2, <1>3 DEF TokenRow, Repo

\* A step that changes neither the tokens nor a date of a repository keeps the
\* dates in order, also when the clock ticks.
LEMMA DatesKeep ==
  ASSUME TypeOK, NEW t \in Tokens, Dated(t),
         tok'[t] = tok[t], clock \in Nat, clock' \in Nat, clock <= clock',
         \A i \in RepoIDs : repos[i] # None =>
            repos'[i] # None /\ repos'[i].archived = repos[i].archived
  PROVE  Dated(t)'
<1>1. CASE tok[t] = None
  BY <1>1 DEF Dated
<1>2. CASE tok[t] # None
  <2>1. repos[tok[t].repo] # None
    BY <1>2 DEF Dated
  <2>2. /\ tok[t].repo \in RepoIDs
        /\ tok[t].created \in Nat /\ tok[t].expires \in Nat
        /\ tok[t].revoked \in Nat \cup {None} /\ tok[t].lastUsed \in Nat \cup {None}
        /\ repos[tok[t].repo].archived \in Nat \cup {None}
    BY <1>2, <2>1, DateTypes
  <2>3. repos'[tok[t].repo] # None /\ repos'[tok[t].repo].archived = repos[tok[t].repo].archived
    BY <2>1, <2>2
  <2>4. QED
    BY <1>2, <2>2, <2>3 DEF Dated, Between
<1>3. QED
  BY <1>1, <1>2

\* Every step keeps the dates of repositories and tokens in order.
LEMMA StepDated ==
  StoreInv /\ [Next]_vars => /\ \A i \in RepoIDs : ArchivedBefore(i)'
                             /\ \A t \in Tokens : Dated(t)'
<1> SUFFICES ASSUME StoreInv, [Next]_vars
             PROVE  /\ \A i \in RepoIDs : ArchivedBefore(i)'
                    /\ \A t \in Tokens : Dated(t)'
  OBVIOUS
<1> USE ConstantsAssumption
<1> DEFINE Ordered == /\ \A i \in RepoIDs : ArchivedBefore(i)'
                      /\ \A t \in Tokens : Dated(t)'
<1>0. /\ TypeOK /\ CallsFit /\ Unpublished
      /\ \A i \in RepoIDs : ArchivedBefore(i)
      /\ \A t \in Tokens : Dated(t)
      /\ clock \in Nat /\ clock' \in Nat /\ clock <= clock'
  BY ClockMoves DEF StoreInv
<1>1. ASSUME UNCHANGED repos PROVE \A i \in RepoIDs : ArchivedBefore(i)'
  <2>1. \A i \in RepoIDs : repos[i] # None => repos[i].archived \in Nat \cup {None}
    BY <1>0 DEF TypeOK, Repo
  <2>2. QED
    BY <1>0, <1>1, <2>1 DEF ArchivedBefore, Between
<1>2. ASSUME UNCHANGED <<tok, repos>> PROVE Ordered
  BY <1>0, <1>1, <1>2, DatesKeep
<1>3. ASSUME NEW t \in Tokens, NEW row, tok' = [tok EXCEPT ![t] = row],
             UNCHANGED <<clock, repos>>, Dated(t)'
      PROVE  Ordered
  <2>1. \A u \in Tokens : u # t => tok'[u] = tok[u]
    BY <1>0, <1>3 DEF TypeOK
  <2>2. \A u \in Tokens : u # t => Dated(u)'
    BY <1>0, <1>3, <2>1, DatesKeep
  <2>3. QED
    BY <1>1, <1>3, <2>2
<1>4. ASSUME NEW t \in Tokens, NEW i \in RepoIDs, repos[i] # None,
             tok' = [tok EXCEPT ![t] = NewToken(i)], UNCHANGED <<clock, repos>>
      PROVE  Ordered
  <2>1. tok'[t] = NewToken(i)
    BY <1>0, <1>4 DEF TypeOK
  <2>2. Dated(t)'
    BY <1>0, <1>4, <2>1 DEF Dated, NewToken, Between
  <2>3. QED
    BY <1>3, <1>4, <2>2
<1>5. ASSUME NEW c \in Creators, Start(c, "lock", Input) \/ CreateStep(c) PROVE Ordered
  <2>1. CASE GitSymref(c)
    <3> DEFINE row == [name |-> arg[c].name, branch |-> arg[c].branch, archived |-> None]
    <3>1. got[c] \in RepoIDs /\ repos[got[c]] = None /\ arg[c] \in Input
      BY <1>0, <2>1 DEF GitSymref, GitStep, Goto, Building, CallsFit, CreatorFits, Unpublished
    <3>2. repos' = [repos EXCEPT ![got[c]] = row] /\ UNCHANGED <<clock, tok>>
      BY <2>1 DEF GitSymref, GitStep, Publish
    <3>3. \A i \in RepoIDs : repos[i] # None => repos'[i] = repos[i]
      BY <1>0, <3>1, <3>2 DEF TypeOK
    <3>4. \A t \in Tokens : Dated(t)'
      BY <1>0, <3>2, <3>3, DatesKeep
    <3>5. \A i \in RepoIDs : ArchivedBefore(i)'
      BY <1>0, <3>1, <3>2, <3>3 DEF ArchivedBefore, Between, TypeOK
    <3>6. QED
      BY <3>4, <3>5
  <2>2. CASE ~GitSymref(c)
    BY <1>2, <1>5, <2>2 DEF Start, CreateStep, CreateFound, CreateMissing, GitInitBegins, GitInit,
                            GitStep, GitFails, DeleteBareRepo, maps
  <2>3. QED
    BY <2>1, <2>2
<1>6. ASSUME NEW m \in Minters, Start(m, "do", Request) \/ MintStep(m) PROVE Ordered
  <2>1. CASE CreateRepoToken(m)
    <3>1. PICK x \in Tokens : got' = [got EXCEPT ![m] = x]
      BY <2>1 DEF CreateRepoToken, Generate
    <3>2. arg[m] \in Request /\ got'[m] = x
      BY <1>0, <2>1, <3>1 DEF CreateRepoToken, Goto, CallsFit, MinterFits, TypeOK, Calls
    <3>3. Key(m)[1] \in RepoIDs
      BY <3>2 DEF Key, Request, LookupKey
    <3>4. /\ tok' = [tok EXCEPT ![x] = NewToken(Key(m)[1])]
          /\ repos[Key(m)[1]] # None /\ UNCHANGED <<clock, repos>>
      BY <2>1, <3>2 DEF CreateRepoToken
    <3>5. QED
      BY <1>4, <3>3, <3>4
  <2>2. CASE ~CreateRepoToken(m)
    BY <1>2, <1>6, <2>2 DEF Start, MintStep, DoCancelled, DoReplay, DoConflict, DoMiss,
                            CreateNotFound, RecordResponse, Respond, maps
  <2>3. QED
    BY <2>1, <2>2
<1>7. ASSUME NEW t \in Tokens, AuthorizeGitAccess(t) PROVE Ordered
  <2> DEFINE x == tok[t]
  <2>1. /\ x \in TokenRow /\ tok' = [tok EXCEPT ![t] = UsedAt(x, clock)]
        /\ UNCHANGED <<clock, repos>>
    BY <1>0, <1>7, AuthorizeEffect DEF UpdateToken
  <2>2. x # None /\ repos[x.repo].archived = None /\ x.revoked = None /\ clock < x.expires
    BY <1>7, Zenon DEF AuthorizeGitAccess
  <2>3. repos[x.repo] # None /\ x.created <= clock
    BY <1>0, <2>2 DEF Dated
  <2>4. tok'[t] = UsedAt(x, clock)
    BY <1>0, <2>1 DEF TypeOK
  <2>5. Dated(t)'
    BY <1>0, <2>1, <2>2, <2>3, <2>4 DEF Dated, UsedAt, Between, TokenRow
  <2>6. QED
    BY <1>3, <2>1, <2>5
<1>8. ASSUME NEW t \in Tokens, RevokeRepoToken(t) PROVE Ordered
  <2> DEFINE x == tok[t]
  <2>1. /\ x \in TokenRow /\ tok' = [tok EXCEPT ![t] = RevokedAt(x, clock)]
        /\ UNCHANGED <<clock, repos>>
    BY <1>0, <1>8, RevokeEffect DEF UpdateToken
  <2>2. x # None
    BY <2>1
  <2>3. tok'[t] = RevokedAt(x, clock)
    BY <1>0, <2>1 DEF TypeOK
  <2>4. Dated(t)'
    <3>1. x.created \in Nat /\ x.lastUsed \in Nat \cup {None}
      BY <2>1 DEF TokenRow
    <3>2. QED
      BY <1>0, <2>1, <2>2, <2>3, <3>1 DEF Dated, RevokedAt, Between
  <2>5. QED
    BY <1>3, <2>1, <2>4
<1>9. ASSUME NEW i \in RepoIDs, ArchiveRepo(i) PROVE Ordered
  <2>1. /\ repos[i] \in Repo /\ ArchivedAt(repos[i], clock) \in Repo
        /\ repos[i].archived = None /\ UNCHANGED <<clock, tok>>
        /\ repos'[i] = ArchivedAt(repos[i], clock)
        /\ \A j \in RepoIDs : j # i => repos'[j] = repos[j]
    BY <1>0, <1>9, ArchiveEffect DEF TypeOK
  <2>2. repos'[i] # None /\ repos'[i].archived = clock
    BY <2>1 DEF ArchivedAt
  <2>3. \A j \in RepoIDs : ArchivedBefore(j)'
    BY <1>0, <2>1, <2>2 DEF ArchivedBefore, Between
  <2>4. ASSUME NEW t \in Tokens PROVE Dated(t)'
    <3>1. CASE tok[t] = None
      BY <2>1, <3>1 DEF Dated
    <3>2. CASE tok[t] # None
      <4>1. /\ repos[tok[t].repo] # None /\ tok[t].repo \in RepoIDs
            /\ tok[t].lastUsed \in Nat \cup {None} /\ tok[t].created \in Nat
        BY <1>0, <3>2, DateTypes DEF Dated
      <4>2. CASE tok[t].repo = i
        BY <1>0, <2>1, <2>2, <3>2, <4>1, <4>2 DEF Dated, Between
      <4>3. CASE tok[t].repo # i
        BY <1>0, <2>1, <3>2, <4>1, <4>3 DEF Dated, Between
      <4>4. QED
        BY <4>2, <4>3
    <3>3. QED
      BY <3>1, <3>2
  <2>5. QED
    BY <2>3, <2>4
<1>10. ASSUME NEW i \in RepoIDs, NEW t \in Unkeyed, CreateUnkeyed(t, i) PROVE Ordered
  BY <1>4, <1>10 DEF CreateUnkeyed, UpdateToken
<1>11. CASE (\E c \in Calls : Cancel(c)) \/ Tick \/ Quiescent \/ UNCHANGED vars
  BY <1>2, <1>11 DEF Cancel, Tick, Quiescent, vars, maps
<1>12. CASE Crash
  BY <1>12 DEF Crash, ArchivedBefore, Dated
<1>13. QED
  BY <1>5, <1>6, <1>7, <1>8, <1>9, <1>10, <1>11, <1>12 DEF Next

\* StoreInv is inductive.
LEMMA StepStoreInv == StoreInv /\ [Next]_vars => StoreInv'
BY StepType, StepCallsFit, StepMaps, StepDated DEF StoreInv

-----------------------------------------------------------------------------
(***************************************************************************)
(* Records and mints.                                                      *)
(***************************************************************************)

\* Types of what the promise is about.
LEMMA MintTypes ==
  ASSUME TypeOK
  PROVE  /\ \A k \in LookupKey : rec[k] # None =>
              rec[k].token \in Tokens /\ rec[k].hash \in Hashes /\ rec[k].expires \in Nat
         /\ \A t \in Tokens : minted[t] # None =>
              minted[t].key \in LookupKey /\ minted[t].hash \in Hashes /\ minted[t].at \in Nat
<1>1. \A k \in LookupKey : rec[k] # None => rec[k] \in Record
  BY DEF TypeOK
<1>2. \A t \in Tokens : minted[t] # None => minted[t] \in Minted
  BY DEF TypeOK
<1>3. QED
  BY <1>1, <1>2 DEF Record, Minted

\* A step that leaves the records, the mints and the keyed requests alone keeps
\* what is known of them.
LEMMA PromiseKeeps ==
  ASSUME TypeOK, PromiseInv, UNCHANGED <<rec, minted>>,
         clock \in Nat, clock' \in Nat, clock <= clock',
         \A m \in Minters : got[m] # None => got'[m] = got[m],
         \A m \in Minters : FindingsHold(m)'
  PROVE  PromiseInv'
<1>0. \A t \in Tokens : minted[t] # None => minted[t].key \in LookupKey /\ minted[t].at \in Nat
  BY MintTypes
<1>1. \A t \in Tokens : minted'[t] # None => \E m \in Minters : got'[m] = t
  BY ConstantsAssumption DEF PromiseInv, RecordsMatch
<1>2. \A t \in Tokens : minted[t] # None =>
        \/ minted[t].at + TTL <= clock'
        \/ /\ rec[minted[t].key] # None
           /\ minted[t].at + TTL <= rec[minted[t].key].expires
  BY <1>0, ConstantsAssumption DEF PromiseInv, RecordsMatch
<1>3. \A k \in LookupKey : rec[k] # None =>
         /\ minted[rec[k].token] # None /\ minted[rec[k].token].key = k
         /\ minted[rec[k].token].hash = rec[k].hash
  BY DEF PromiseInv, RecordsMatch
<1>4. RecordsMatch'
  BY <1>1, <1>2, <1>3 DEF RecordsMatch
<1>5. QED
  BY <1>4 DEF PromiseInv

\* Every step of Do, of the rest of the store and of the process keeps records
\* and mints in agreement, and what Do found under its mutex true.
LEMMA StepPromiseInv == StoreInv /\ PromiseInv /\ [Next]_vars => PromiseInv'
<1> SUFFICES ASSUME StoreInv, PromiseInv, [Next]_vars
             PROVE  PromiseInv'
  OBVIOUS
<1> USE ConstantsAssumption
<1>0. /\ TypeOK /\ CallsFit /\ clock \in Nat /\ clock' \in Nat /\ clock <= clock'
      /\ \A m \in Minters : FindingsHold(m)
  BY ClockMoves DEF StoreInv, PromiseInv
<1>a. ASSUME UNCHANGED <<rec, minted>>, \A m \in Minters : Untouched(m) PROVE PromiseInv'
  <2>1. \A m \in Minters : FindingsHold(m)'
    BY <1>0, <1>a DEF Untouched, FindingsHold, MintedFor
  <2>2. QED
    BY <1>0, <1>a, <2>1, PromiseKeeps DEF Untouched
<1>1. ASSUME NEW c \in Creators, Start(c, "lock", Input) \/ CreateStep(c) PROVE PromiseInv'
  <2>1. \A m \in Minters : Untouched(m)
    BY <1>0, <1>1, CallFrame DEF Calls
  <2>2. UNCHANGED <<rec, minted>>
    BY <1>1 DEF Start, CreateStep, CreateFound, CreateMissing, GitInitBegins, GitInit, GitStep,
                GitSymref, GitFails, DeleteBareRepo, maps
  <2>3. QED
    BY <1>a, <2>1, <2>2
<1>2. CASE Background
  BY <1>0, <1>2, <1>a, BackgroundFrame DEF Calls
<1>3. CASE Crash
  BY <1>3 DEF Crash, PromiseInv, RecordsMatch, FindingsHold, Holding, InFlight, Calls, TypeOK
<1>4. ASSUME NEW m \in Minters, Start(m, "do", Request) \/ MintStep(m) PROVE PromiseInv'
  <2>0. /\ \A q \in Minters : q # m => Untouched(q)
        /\ MinterFits(m) /\ FindingsHold(m)
    BY <1>0, <1>4, CallFrame DEF Calls, CallsFit
  <2>a. ASSUME UNCHANGED <<rec, minted>>, FindingsHold(m)', got[m] # None => got'[m] = got[m]
        PROVE  PromiseInv'
    <3>1. \A q \in Minters : q # m => FindingsHold(q)' /\ got'[q] = got[q]
      BY <1>0, <2>0, <2>a DEF Untouched, FindingsHold, MintedFor
    <3>2. QED
      BY <1>0, <2>a, <3>1, PromiseKeeps
  <2>1. CASE Start(m, "do", Request)
    BY <1>0, <2>a, <2>1 DEF Start, Goto, FindingsHold, Holding, TypeOK, Calls, maps
  <2>2. CASE DoCancelled(m) \/ DoConflict(m)
    BY <1>0, <2>a, <2>2 DEF DoCancelled, DoConflict, Goto, FindingsHold, Holding, TypeOK, Calls,
                            maps
  <2>3. CASE DoReplay(m)
    BY <1>0, <2>0, <2>a, <2>3 DEF DoReplay, Goto, FindingsHold, Holding, TypeOK, Calls, maps,
                                  MinterFits
  <2>4. CASE Respond(m) \/ CreateNotFound(m)
    BY <1>0, <2>a, <2>4 DEF Respond, CreateNotFound, Goto, FindingsHold, Holding, TypeOK, Calls,
                            maps
  <2>5. CASE CreateRepoToken(m)
    <3>1. /\ pc[m] = "create" /\ pc'[m] = "record" /\ now'[m] = now[m] /\ arg'[m] = arg[m]
          /\ UNCHANGED <<rec, minted>>
      BY <1>0, <2>5 DEF CreateRepoToken, Goto, TypeOK, Calls, input
    <3>2. PICK x \in Tokens : (\A q \in Calls : got[q] # x) /\ got' = [got EXCEPT ![m] = x]
      BY <2>5 DEF CreateRepoToken, Generate
    <3>3. got'[m] = x /\ got[m] = None /\ minted[x] = None
      BY <1>0, <2>0, <3>1, <3>2 DEF MinterFits, TypeOK, Calls, PromiseInv, RecordsMatch
    <3>4. FindingsHold(m)'
      BY <2>0, <3>1, <3>3 DEF FindingsHold, Holding
    <3>5. QED
      BY <2>a, <3>1, <3>3, <3>4
  <2>6. CASE DoMiss(m)
    <3> DEFINE k == arg[m].key
    <3>1. /\ pc[m] = "do" /\ pc'[m] = "create" /\ now'[m] = clock /\ arg' = arg /\ got' = got
          /\ UNCHANGED <<clock, minted>>
      BY <1>0, <2>6 DEF DoMiss, Goto, TypeOK, Calls, input
    <3>2. k \in LookupKey
      BY <2>0, <3>1 DEF MinterFits, Request
    <3>3. rec' = [rec EXCEPT ![k] = None] /\ ~Live(k)
      BY <2>6 DEF DoMiss, Key
    <3>4. rec[k] # None => rec[k].expires \in Nat /\ rec[k].expires <= clock
      BY <1>0, <3>2, <3>3, MintTypes DEF Live
    <3>5. \A t \in Tokens : minted[t] # None => minted[t].key \in LookupKey /\ minted[t].at \in Nat
      BY <1>0, MintTypes
    <3>6. \A t \in Tokens : minted[t] # None /\ minted[t].key = k => minted[t].at + TTL <= clock
      BY <1>0, <3>4, <3>5 DEF PromiseInv, RecordsMatch
    <3>7. RecordsMatch'
      <4>1. \A j \in LookupKey : rec'[j] # None => j # k /\ rec'[j] = rec[j]
        BY <1>0, <3>3 DEF TypeOK
      <4>2. \A t \in Tokens : minted[t] # None =>
              \/ minted[t].at + TTL <= clock
              \/ /\ rec'[minted[t].key] # None
                 /\ minted[t].at + TTL <= rec'[minted[t].key].expires
        BY <1>0, <3>3, <3>5, <3>6 DEF PromiseInv, RecordsMatch, TypeOK
      <4>3. QED
        BY <3>1, <4>1, <4>2 DEF PromiseInv, RecordsMatch
    <3>8. FindingsHold(m)'
      BY <3>1, <3>6 DEF FindingsHold
    <3>9. \A q \in Minters : q # m => FindingsHold(q)'
      BY <1>0, <2>0, <3>1 DEF Untouched, FindingsHold, MintedFor
    <3>10. QED
      BY <3>7, <3>8, <3>9 DEF PromiseInv
  <2>7. CASE RecordResponse(m)
    <3> DEFINE k == arg[m].key
               x == got[m]
               row == [hash |-> arg[m].hash, token |-> x, expires |-> now[m] + TTL]
               mint == [key |-> k, hash |-> arg[m].hash, at |-> now[m]]
    <3>1. /\ pc[m] = "record" /\ pc'[m] = "respond" /\ arg' = arg /\ got' = got
          /\ UNCHANGED clock
      BY <1>0, <2>7 DEF RecordResponse, Goto, TypeOK, Calls, input
    <3>2. /\ k \in LookupKey /\ x \in Tokens /\ arg[m].hash \in Hashes /\ minted[x] = None
          /\ now[m] \in Nat /\ now[m] <= clock /\ idemMu = m
      BY <1>0, <2>0, <3>1 DEF MinterFits, Request, FindingsHold, TypeOK, Holding
    <3>3. rec' = [rec EXCEPT ![k] = row] /\ minted' = [minted EXCEPT ![x] = mint]
      BY <2>7 DEF RecordResponse, Key
    <3>4. row \in Record /\ mint \in Minted
      BY <3>2 DEF Record, Minted
    <3>5. row # None /\ mint # None
      BY <3>4
    <3>6. /\ rec'[k] = row /\ \A j \in LookupKey : j # k => rec'[j] = rec[j]
          /\ minted'[x] = mint /\ \A t \in Tokens : t # x => minted'[t] = minted[t]
      BY <1>0, <3>2, <3>3 DEF TypeOK
    <3>7. \A j \in LookupKey : rec[j] # None => rec[j].token # x /\ rec[j].token \in Tokens
      BY <1>0, <3>2, MintTypes DEF PromiseInv, RecordsMatch
    <3>8. ASSUME NEW j \in LookupKey, rec'[j] # None
          PROVE  /\ minted'[rec'[j].token] # None /\ minted'[rec'[j].token].key = j
                 /\ minted'[rec'[j].token].hash = rec'[j].hash
      <4>1. CASE j = k
        BY <3>5, <3>6, <4>1
      <4>2. CASE j # k
        <5>1. rec'[j] = rec[j] /\ minted'[rec[j].token] = minted[rec[j].token]
          BY <3>6, <3>7, <3>8, <4>2
        <5>2. QED
          BY <3>8, <5>1 DEF PromiseInv, RecordsMatch
      <4>3. QED
        BY <4>1, <4>2
    <3>9. ASSUME NEW t \in Tokens, minted'[t] # None
          PROVE  /\ \E q \in Minters : got'[q] = t
                 /\ \/ minted'[t].at + TTL <= clock'
                    \/ /\ rec'[minted'[t].key] # None
                       /\ minted'[t].at + TTL <= rec'[minted'[t].key].expires
      <4>1. CASE t = x
        BY <3>1, <3>2, <3>5, <3>6, <4>1
      <4>2. CASE t # x
        <5>1. /\ minted'[t] = minted[t] /\ minted[t] # None
              /\ minted[t].key \in LookupKey /\ minted[t].at \in Nat
          BY <1>0, <3>6, <3>9, <4>2, MintTypes
        <5>2. CASE minted[t].key = k
          <6>1. minted[t].at + TTL <= now[m]
            BY <2>0, <3>1, <5>1, <5>2 DEF FindingsHold, Holding
          <6>2. QED
            BY <1>0, <3>1, <3>2, <5>1, <6>1 DEF PromiseInv, RecordsMatch
        <5>3. CASE minted[t].key # k
          BY <3>1, <3>6, <5>1, <5>3 DEF PromiseInv, RecordsMatch
        <5>4. QED
          BY <5>2, <5>3
      <4>3. QED
        BY <4>1, <4>2
    <3>10. FindingsHold(m)'
      BY <3>1, <3>2, <3>5, <3>6 DEF FindingsHold, MintedFor, Holding
    <3>11. ASSUME NEW q \in Minters, q # m PROVE FindingsHold(q)'
      <4>1. pc'[q] = pc[q] /\ pc[q] \notin Holding
        BY <1>0, <2>0, <3>2, <3>11 DEF Untouched, CallsFit, MinterFits
      <4>2. pc[q] = "respond" => MintedFor(got[q], q) /\ got[q] # x
        BY <1>0, <3>2 DEF FindingsHold, MintedFor
      <4>3. QED
        BY <3>1, <3>6, <4>1, <4>2 DEF FindingsHold, MintedFor, Holding
    <3>12. QED
      BY <3>8, <3>9, <3>10, <3>11 DEF PromiseInv, RecordsMatch
  <2>8. QED
    BY <1>4, <2>1, <2>2, <2>3, <2>4, <2>5, <2>6, <2>7 DEF MintStep
<1>5. QED
  BY <1>1, <1>2, <1>3, <1>4 DEF Next, Background

\* Inv is inductive.
LEMMA InvHolds == Spec => []Inv
<1>1. Inv /\ [Next]_vars => Inv'
  BY StepStoreInv, StepPromiseInv DEF Inv
<1>2. QED
  BY <1>1, InitInv, PTL DEF Spec

-----------------------------------------------------------------------------
(***************************************************************************)
(* What the runs check, for every instance.                                *)
(***************************************************************************)

\* The mutexes, the calls, the maps and the disk keep their types.
THEOREM TypeCorrect == Spec => []TypeOK
BY InvHolds, PTL DEF Inv, StoreInv

\* The two maps of CreateRepo always name the same repositories, and each has
\* its HEAD on disk, whatever is cancelled, fails or crashes.
THEOREM MapsAgree == Spec => []MapsAndDiskAgree
BY InvHolds, PTL DEF Inv, StoreInv

\* No use of a token that AuthorizeGitAccess dated lies after the revocation of
\* the token, after the archiving of its repository or outside its life.
THEOREM UsesPrecedeRevocation == Spec => []NoUseAfterRevocation
<1>1. ASSUME Inv PROVE NoUseAfterRevocation
  BY <1>1 DEF Inv, StoreInv, Dated, Between, NoUseAfterRevocation
<1>2. QED
  BY <1>1, InvHolds, PTL

-----------------------------------------------------------------------------
(***************************************************************************)
(* Refinement: the steps of Do are steps of the promise.                   *)
(***************************************************************************)

\* An action of the promise, or a step it does not see.
PromiseStep == Promise!Next \/ UNCHANGED Promise!vars

\* What the promise sees of a step of the keyed request m: its own request,
\* answer and token.
LEMMA RequestView ==
  ASSUME NEW m \in Minters, \A q \in Minters : q # m => Untouched(q)
  PROVE  /\ Asked' = [Asked EXCEPT ![m] = arg'[m]]
         /\ Answered' = [Answered EXCEPT ![m] = AnswerOf(pc'[m])]
         /\ Given' = [Given EXCEPT ![m] = IF pc'[m] = "done" THEN got'[m] ELSE None]
BY DEF Asked, Answered, Given, Untouched

\* The promise sees nothing of a step that leaves the keyed requests alone.
LEMMA NoRequestView ==
  ASSUME \A q \in Minters : Untouched(q)
  PROVE  UNCHANGED <<Asked, Answered, Given>>
BY DEF Asked, Answered, Given, Untouched

\* Every step of a keyed request is a step of the promise: it mints where Do
\* stores the record.
LEMMA RequestStep ==
  ASSUME Inv, NEW m \in Minters, Start(m, "do", Request) \/ MintStep(m)
  PROVE  PromiseStep
<1> USE ConstantsAssumption
<1>0. /\ TypeOK /\ CallsFit /\ MinterFits(m) /\ FindingsHold(m) /\ RecordsMatch
      /\ \A q \in Minters : q # m => Untouched(q)
  BY CallFrame DEF Inv, StoreInv, PromiseInv, CallsFit, Calls
<1>1. /\ Asked' = [Asked EXCEPT ![m] = arg'[m]]
      /\ Answered' = [Answered EXCEPT ![m] = AnswerOf(pc'[m])]
      /\ Given' = [Given EXCEPT ![m] = IF pc'[m] = "done" THEN got'[m] ELSE None]
  BY <1>0, RequestView
<1>2. /\ Asked[m] = arg[m] /\ Answered[m] = AnswerOf(pc[m])
      /\ Given[m] = IF pc[m] = "done" THEN got[m] ELSE None
  BY DEF Asked, Answered, Given
<1>3. /\ Asked = [Asked EXCEPT ![m] = Asked[m]]
      /\ Answered = [Answered EXCEPT ![m] = Answered[m]]
      /\ Given = [Given EXCEPT ![m] = Given[m]]
  <2>1. Asked = [Asked EXCEPT ![m] = Asked[m]]
    BY DEF Asked
  <2>2. Answered = [Answered EXCEPT ![m] = Answered[m]]
    BY DEF Answered
  <2>3. Given = [Given EXCEPT ![m] = Given[m]]
    BY DEF Given
  <2>4. QED
    BY <2>1, <2>2, <2>3
<1>4. pc[m] # "idle" => arg[m] \in Request /\ Asked[m] # None /\ Key(m) \in LookupKey
  BY <1>0, <1>2 DEF MinterFits, Request, Key
\* The request stays, it had no answer and the answer is a.
<1> DEFINE Answer(a) ==
      /\ UNCHANGED <<clock, rec, minted, Asked>>
      /\ Asked[m] # None /\ Answered[m] = None
      /\ Answered' = [Answered EXCEPT ![m] = a]
<1>5. CASE Start(m, "do", Request)
  <2>1. PICK q \in Request : arg' = [arg EXCEPT ![m] = q]
    BY <1>5 DEF Start
  <2>2. /\ pc[m] = "idle" /\ pc'[m] = "do" /\ arg'[m] = q
        /\ UNCHANGED <<clock, rec, minted>>
    BY <1>0, <1>5, <2>1 DEF Start, Goto, TypeOK, Calls, maps
  <2>3. Asked[m] = None /\ UNCHANGED <<Answered, Given>>
    BY <1>0, <1>1, <1>2, <1>3, <2>2 DEF MinterFits, AnswerOf
  <2>4. Promise!Ask(m)
    BY <1>1, <2>2, <2>3 DEF Promise!Ask, Promise!Request, Request
  <2>5. QED
    BY <2>4 DEF PromiseStep, Promise!Next
<1>6. CASE DoCancelled(m) \/ CreateNotFound(m)
  <2>1. /\ pc[m] \in {"do", "create"} /\ pc'[m] \in {"failed", "notFound"} /\ arg'[m] = arg[m]
        /\ UNCHANGED <<clock, rec, minted>>
    BY <1>0, <1>6 DEF DoCancelled, CreateNotFound, Goto, TypeOK, Calls, maps, input
  <2>2. /\ AnswerOf(pc[m]) = None
        /\ AnswerOf(pc'[m]) \in {"notFound", "error"}
    BY <2>1 DEF AnswerOf
  <2>3. Answer(AnswerOf(pc'[m])) /\ UNCHANGED Given
    BY <1>1, <1>2, <1>3, <1>4, <2>1, <2>2
  <2>4. Promise!Fail(m)
    BY <2>2, <2>3 DEF Promise!Fail
  <2>5. QED
    BY <2>4 DEF PromiseStep, Promise!Next
<1>7. CASE DoReplay(m) \/ Respond(m)
  <2>1. /\ pc[m] \in {"do", "respond"} /\ pc'[m] = "done" /\ arg'[m] = arg[m]
        /\ UNCHANGED <<clock, rec, minted>>
    BY <1>0, <1>7 DEF DoReplay, Respond, Goto, TypeOK, Calls, maps, input
  <2>2. /\ AnswerOf(pc[m]) = None /\ AnswerOf(pc'[m]) = "created"
    BY <2>1 DEF AnswerOf
  <2>3. Answer("created") /\ Given' = [Given EXCEPT ![m] = got'[m]]
    BY <1>1, <1>2, <1>3, <1>4, <2>1, <2>2
  <2>4. MintedFor(got'[m], m)
    <3>1. CASE DoReplay(m)
      <4>1. /\ rec[Key(m)] # None /\ rec[Key(m)].hash = arg[m].hash
            /\ got'[m] = rec[Key(m)].token
        BY <1>0, <3>1 DEF DoReplay, Live, TypeOK, Calls
      <4>2. Key(m) \in LookupKey
        BY <1>4, <2>1
      <4>3. got'[m] \in Tokens
        BY <1>0, <4>1, <4>2, MintTypes
      <4>4. QED
        BY <1>0, <4>1, <4>2, <4>3 DEF RecordsMatch, MintedFor, Key
    <3>2. CASE Respond(m)
      BY <1>0, <3>2 DEF Respond, Goto, FindingsHold
    <3>3. QED
      BY <1>7, <3>1, <3>2
  <2>5. Promise!Created(m)
    BY <1>2, <2>3, <2>4 DEF Promise!Created, MintedFor
  <2>6. QED
    BY <2>5 DEF PromiseStep, Promise!Next
<1>8. CASE DoConflict(m)
  <2>1. /\ pc[m] = "do" /\ pc'[m] = "conflict" /\ arg'[m] = arg[m]
        /\ UNCHANGED <<clock, rec, minted>>
        /\ rec[Key(m)] # None /\ rec[Key(m)].hash # arg[m].hash
    BY <1>0, <1>8 DEF DoConflict, Live, Goto, TypeOK, Calls, maps, input
  <2>2. AnswerOf(pc[m]) = None /\ AnswerOf(pc'[m]) = "conflict"
    BY <2>1 DEF AnswerOf
  <2>3. Answer("conflict") /\ UNCHANGED Given
    BY <1>1, <1>2, <1>3, <1>4, <2>1, <2>2
  <2>4. Promise!Conflict(m)
    BY <1>2, <2>1, <2>3 DEF Promise!Conflict, Key
  <2>5. QED
    BY <2>4 DEF PromiseStep, Promise!Next
<1>9. CASE DoMiss(m)
  <2>1. /\ pc[m] = "do" /\ pc'[m] = "create" /\ arg'[m] = arg[m] /\ ~Live(Key(m))
        /\ rec' = [rec EXCEPT ![Key(m)] = None] /\ UNCHANGED <<clock, minted>>
    BY <1>0, <1>9 DEF DoMiss, Goto, TypeOK, Calls, input
  <2>2. UNCHANGED <<Asked, Answered, Given>>
    BY <1>1, <1>2, <1>3, <2>1 DEF AnswerOf
  <2>3. Key(m) \in LookupKey
    BY <1>4, <2>1
  <2>4. CASE rec[Key(m)] = None
    <3>1. UNCHANGED rec
      BY <1>0, <2>1, <2>3, <2>4 DEF TypeOK
    <3>2. QED
      BY <2>1, <2>2, <3>1 DEF PromiseStep, Promise!vars
  <2>5. CASE rec[Key(m)] # None
    <3>1. rec[Key(m)].expires <= clock
      BY <1>0, <2>1, <2>3, <2>5, MintTypes DEF Live, TypeOK
    <3>2. Promise!Expire(Key(m))
      BY <2>1, <2>2, <2>5, <3>1 DEF Promise!Expire
    <3>3. QED
      BY <2>3, <3>2 DEF PromiseStep, Promise!Next
  <2>6. QED
    BY <2>4, <2>5
<1>10. CASE CreateRepoToken(m)
  <2>1. /\ pc[m] = "create" /\ pc'[m] = "record" /\ arg'[m] = arg[m]
        /\ UNCHANGED <<clock, rec, minted>>
    BY <1>0, <1>10 DEF CreateRepoToken, Goto, TypeOK, Calls, input
  <2>2. UNCHANGED <<Asked, Answered, Given>>
    BY <1>1, <1>2, <1>3, <2>1 DEF AnswerOf
  <2>3. QED
    BY <2>1, <2>2 DEF PromiseStep, Promise!vars
<1>11. CASE RecordResponse(m)
  <2>1. /\ pc[m] = "record" /\ pc'[m] = "respond" /\ arg'[m] = arg[m]
        /\ UNCHANGED clock
    BY <1>0, <1>11 DEF RecordResponse, Goto, TypeOK, Calls, input
  <2>2. UNCHANGED <<Asked, Answered, Given>>
    BY <1>1, <1>2, <1>3, <2>1 DEF AnswerOf
  <2>3. /\ got[m] \in Tokens /\ now[m] \in 0..clock /\ minted[got[m]] = None
        /\ \A u \in Tokens : (minted[u] # None /\ minted[u].key = arg[m].key)
              => minted[u].at + TTL <= now[m]
    BY <1>0, <2>1 DEF MinterFits, FindingsHold, Holding, TypeOK
  <2>4. /\ rec' = [rec EXCEPT ![arg[m].key] =
             [hash |-> arg[m].hash, token |-> got[m], expires |-> now[m] + TTL]]
        /\ minted' = [minted EXCEPT ![got[m]] =
             [key |-> arg[m].key, hash |-> arg[m].hash, at |-> now[m]]]
    BY <1>11 DEF RecordResponse, Key
  <2>5. Promise!Mint(m)
    BY <1>2, <1>4, <2>1, <2>2, <2>3, <2>4 DEF Promise!Mint
  <2>6. QED
    BY <2>5 DEF PromiseStep, Promise!Next
<1>12. QED
  BY <1>5, <1>6, <1>7, <1>8, <1>9, <1>10, <1>11 DEF MintStep

\* A crash is the restart of the promise: the tokens and their records are gone,
\* and no answer that was given is taken back.
LEMMA CrashStep ==
  ASSUME TypeOK, Crash
  PROVE  Promise!Restart
<1>1. \A c \in Calls : AnswerOf(pc'[c]) = AnswerOf(pc[c]) /\ (pc'[c] = "done" <=> pc[c] = "done")
  BY DEF Crash, AnswerOf, InFlight
<1>2. Minters \subseteq Calls
  BY DEF Calls
<1>3. Answered' = Answered
  BY <1>1, <1>2 DEF Answered
<1>4. UNCHANGED <<Asked, Given>>
  BY <1>1, <1>2 DEF Asked, Given, Crash, input
<1>5. QED
  BY <1>3, <1>4 DEF Crash, Promise!Restart

\* Do under its mutex implements the atomic service of IdempotentMint, crashes
\* included: every step is one of the promise, or unseen by it.
THEOREM DoImplementsPromise == Spec => ImplementsPromise
<1>1. Init => Promise!Init
  BY DEF Init, Promise!Init, Asked, Answered, Given, AnswerOf, Calls
<1>2. ASSUME Inv, [Next]_vars PROVE [Promise!Next]_(Promise!vars)
  <2>0. TypeOK /\ CallsFit
    BY <1>2 DEF Inv, StoreInv
  <2>1. ASSUME NEW c \in Creators, Start(c, "lock", Input) \/ CreateStep(c) PROVE PromiseStep
    <3>1. \A q \in Minters : Untouched(q)
      BY <2>0, <2>1, CallFrame, ConstantsAssumption DEF Calls
    <3>2. UNCHANGED <<clock, rec, minted>>
      BY <2>1 DEF Start, CreateStep, CreateFound, CreateMissing, GitInitBegins, GitInit, GitStep,
                  GitSymref, GitFails, DeleteBareRepo, maps
    <3>3. QED
      BY <3>1, <3>2, NoRequestView DEF PromiseStep, Promise!vars
  <2>2. ASSUME NEW m \in Minters, Start(m, "do", Request) \/ MintStep(m) PROVE PromiseStep
    BY <1>2, <2>2, RequestStep
  <2>3. CASE Background
    <3>1. UNCHANGED <<rec, minted, Asked, Answered, Given>>
      BY <2>0, <2>3, BackgroundFrame, NoRequestView DEF Calls
    <3>2. CASE Tick
      BY <3>1, <3>2 DEF Tick, Promise!Tick, Promise!Next, PromiseStep
    <3>3. CASE UNCHANGED clock
      BY <3>1, <3>3 DEF Promise!vars, PromiseStep
    <3>4. clock' = clock \/ Tick
      <4>1. ASSUME NEW t \in Tokens, AuthorizeGitAccess(t) \/ RevokeRepoToken(t)
            PROVE  clock' = clock
        BY <2>0, <4>1, AuthorizeEffect, RevokeEffect DEF UpdateToken
      <4>2. ASSUME NEW i \in RepoIDs, ArchiveRepo(i) PROVE clock' = clock
        BY <2>0, <4>2, ArchiveEffect
      <4>3. ASSUME NEW i \in RepoIDs, NEW t \in Unkeyed, CreateUnkeyed(t, i)
            PROVE  clock' = clock
        BY <4>3 DEF CreateUnkeyed, UpdateToken
      <4>4. CASE (\E c \in Calls : Cancel(c)) \/ Quiescent \/ UNCHANGED vars
        BY <4>4 DEF Cancel, Quiescent, vars
      <4>5. QED
        BY <2>3, <4>1, <4>2, <4>3, <4>4 DEF Background
    <3>5. QED
      BY <3>2, <3>3, <3>4
  <2>4. CASE Crash
    BY <2>0, <2>4, CrashStep DEF Promise!Next, PromiseStep
  <2>5. QED
    BY <1>2, <2>1, <2>2, <2>3, <2>4 DEF Next, Background, PromiseStep
<1>3. QED
  BY <1>1, <1>2, InvHolds, PTL DEF Spec, ImplementsPromise, Promise!Spec

=============================================================================
