-------------------------- MODULE TokenAccessProofs --------------------------
(***************************************************************************)
(* Proofs about TokenAccess, for any number of accesses, admin calls,      *)
(* repositories and tokens, any life times and any bound on the clock.     *)
(***************************************************************************)
EXTENDS TokenAccess, TLAPS

-----------------------------------------------------------------------------
(***************************************************************************)
(* The inductive invariant.                                                *)
(***************************************************************************)

\* A client holds a token that was minted, or none that ever will be.
Held(t) == t \in Minted \cup {Forged, None}

\* Calls have arguments once they have arrived, and name minted tokens.
Arguments ==
  /\ \A c \in Accesses : pc[c] # "idle" => want[c] \in Wanted /\ Held(want[c].token)
  /\ \A a \in AdminCalls : apc[a] # "idle" =>
       target[a] \in Target /\ target[a].token \in Minted \cup {None}

\* Row x is what row y was some time before: only the use and the revocation
\* may be newer.
Older(x, y) ==
  /\ x # None /\ y # None
  /\ x.repo = y.repo /\ x.scope = y.scope
  /\ x.created = y.created /\ x.expires = y.expires
  /\ x.revoked # None => y.revoked = x.revoked

\* The part of Permitted that the token row decides, at this moment.
RowPermits(x, w) ==
  /\ x.repo = w.repo
  /\ x.revoked = None
  /\ clock < x.expires
  /\ ScopeAllows(x.scope, w.op)

\* What AuthorizeGitAccess has read is still true of the past, and what it has
\* not read yet still tells whether the request was permitted on arrival.
Knows(c) ==
  LET w == want[c] IN
  /\ pc[c] \in {"token", "check", "touch"} => w.repo \in Repos /\ w.token # None
  /\ pc[c] = "repo" => allowed[c] \/ ~Permitted(w)
  /\ pc[c] = "token" =>
       allowed[c] \/ w.token \notin Minted \/ ~RowPermits(tok[w.token], w)
  /\ pc[c] \in {"check", "touch", "granted"} =>
       w.token \in Minted /\ Older(seen[c], tok[w.token])
  /\ pc[c] = "check" => allowed[c] \/ ~RowPermits(seen[c], w)
  /\ pc[c] = "touch" => seen[c].created <= now[c] /\ now[c] < seen[c].expires
  /\ pc[c] \in {"touch", "granted"} => allowed[c]
  /\ pc[c] \in {"unauthorized", "forbidden"} => ~Permitted(w)

\* Rows are dated: made in the past, used within their lives.
Dated(t) ==
  tok[t] # None =>
    /\ tok[t].created <= clock
    /\ tok[t].lastUsed # None =>
         tok[t].created <= tok[t].lastUsed /\ tok[t].lastUsed < tok[t].expires

\* A grant has left its date in the row.
Used(c) == pc[c] = "granted" => tok[want[c].token].lastUsed # None

Inv ==
  /\ TypeOK /\ Arguments
  /\ \A c \in Accesses : Knows(c) /\ Used(c)
  /\ \A t \in Tokens : Dated(t)

-----------------------------------------------------------------------------
(***************************************************************************)
(* What a step leaves alone.                                               *)
(***************************************************************************)

\* No request has arrived and the tables are empty.
LEMMA InitInv == Init => Inv
BY ConstantsAssumption
   DEF Init, Inv, TypeOK, Arguments, Knows, Used, Dated, Time, PCs, AdminPCs, Final

\* A row after a use, and after a revocation.
UsedAt(x, n) ==
  [repo |-> x.repo, scope |-> x.scope, created |-> x.created,
   expires |-> x.expires, revoked |-> x.revoked, lastUsed |-> n]
RevokedAt(x, n) ==
  [repo |-> x.repo, scope |-> x.scope, created |-> x.created,
   expires |-> x.expires, revoked |-> Coalesce(x.revoked, n), lastUsed |-> x.lastUsed]

\* Both are rows, and say of the token what the row said before.
LEMMA RowsAge ==
  ASSUME NEW x \in TokenRow, NEW n \in Time
  PROVE  /\ UsedAt(x, n) \in TokenRow /\ Older(x, UsedAt(x, n))
         /\ RevokedAt(x, n) \in TokenRow /\ Older(x, RevokedAt(x, n))
<1>1. UsedAt(x, n) \in TokenRow /\ RevokedAt(x, n) \in TokenRow
  BY DEF UsedAt, RevokedAt, Coalesce, TokenRow
<1>2. x # None /\ UsedAt(x, n) # None /\ RevokedAt(x, n) # None
  BY <1>1, ConstantsAssumption
<1>3. QED
  BY <1>1, <1>2 DEF UsedAt, RevokedAt, Coalesce, Older

\* The UPDATE of last_used_at replaces one row.
LEMMA UseUpdatesRow ==
  ASSUME NEW t \in Tokens, tok \in [Tokens -> TokenRow \cup {None}],
         tok[t] # None, NEW n
  PROVE  /\ tok[t] \in TokenRow
         /\ [tok EXCEPT ![t].lastUsed = n] = [tok EXCEPT ![t] = UsedAt(tok[t], n)]
<1>1. tok[t] \in TokenRow
  OBVIOUS
<1>2. ASSUME NEW x \in TokenRow
      PROVE  [x EXCEPT !.lastUsed = n] = UsedAt(x, n)
  BY DEF TokenRow, UsedAt
<1>3. [tok[t] EXCEPT !.lastUsed = n] = UsedAt(tok[t], n)
  BY <1>1, <1>2
<1>4. QED
  BY <1>1, <1>3, Zenon

\* So does the UPDATE of revoked_at.
LEMMA RevokeUpdatesRow ==
  ASSUME NEW t \in Tokens, tok \in [Tokens -> TokenRow \cup {None}],
         tok[t] # None, NEW n
  PROVE  /\ tok[t] \in TokenRow
         /\ [tok EXCEPT ![t].revoked = Coalesce(@, n)]
              = [tok EXCEPT ![t] = RevokedAt(tok[t], n)]
<1>1. tok[t] \in TokenRow
  OBVIOUS
<1>2. ASSUME NEW x \in TokenRow, NEW v
      PROVE  [x EXCEPT !.revoked = v] =
               [repo |-> x.repo, scope |-> x.scope, created |-> x.created,
                expires |-> x.expires, revoked |-> v, lastUsed |-> x.lastUsed]
  BY DEF TokenRow
<1>3. [tok[t] EXCEPT !.revoked = Coalesce(tok[t].revoked, n)] = RevokedAt(tok[t], n)
  BY <1>1, <1>2 DEF RevokedAt
<1>4. QED
  BY <1>1, <1>3, Zenon

\* What a step does to the token rows: nothing, a use, a revocation or a mint.
Uses(c) ==
  /\ pc[c] = "touch" /\ pc' \in {[pc EXCEPT ![c] = "granted"], [pc EXCEPT ![c] = "error"]}
  /\ want[c].token \in Minted
  /\ tok' = [tok EXCEPT ![want[c].token] = UsedAt(tok[want[c].token], now[c])]
  /\ UNCHANGED <<clock, archived, want, seen, now, allowed, admin>>
Revokes(a) ==
  /\ target[a].token \in Minted
  /\ tok' = [tok EXCEPT ![target[a].token] = RevokedAt(tok[target[a].token], stamp[a])]
  /\ UNCHANGED <<clock, archived, access, target, stamp>>
  /\ apc' = [apc EXCEPT ![a] = "done"] /\ apc[a] = "update"

\* Touch is a use, and ends in the grant.
LEMMA TouchUses ==
  ASSUME TypeOK, Arguments, NEW c \in Accesses, Knows(c), Touch(c)
  PROVE  Uses(c) /\ pc' = [pc EXCEPT ![c] = "granted"]
<1>1. want[c].token \in Minted /\ want[c].token \in Tokens /\ tok[want[c].token] # None
  BY DEF Touch, Goto, Knows, Minted
<1>2. [tok EXCEPT ![want[c].token].lastUsed = now[c]]
        = [tok EXCEPT ![want[c].token] = UsedAt(tok[want[c].token], now[c])]
  BY <1>1, UseUpdatesRow DEF TypeOK
<1>3. tok' = [tok EXCEPT ![want[c].token] = UsedAt(tok[want[c].token], now[c])]
  BY <1>2, Zenon DEF Touch
<1>4. pc[c] = "touch" /\ pc' = [pc EXCEPT ![c] = "granted"]
  BY Zenon DEF Touch, Goto
<1>5. UNCHANGED <<clock, archived, want, seen, now, allowed, admin>>
  BY Zenon DEF Touch
<1>6. QED
  BY <1>1, <1>3, <1>4, <1>5, Zenon DEF Uses

\* A statement that fails does nothing, or is a use that is answered 500.
LEMMA AccessFailsUses ==
  ASSUME TypeOK, Arguments, NEW c \in Accesses, Knows(c), AccessFails(c)
  PROVE  \/ Uses(c) /\ pc' = [pc EXCEPT ![c] = "error"]
         \/ /\ pc[c] \in {"repo", "token", "touch"} /\ pc' = [pc EXCEPT ![c] = "error"]
            /\ UNCHANGED <<clock, archived, tok, want, seen, now, allowed, admin>>
<1>1. UNCHANGED <<clock, archived, want, seen, now, allowed, admin>>
  BY Zenon DEF AccessFails
<1>2. CASE /\ \E from \in {"repo", "token", "touch"} : Goto(c, from, "error")
           /\ UNCHANGED tok
  BY <1>1, <1>2, Zenon DEF Goto
<1>3. CASE /\ Goto(c, "touch", "error")
           /\ tok' = [tok EXCEPT ![want[c].token].lastUsed = now[c]]
  <2>1. pc[c] = "touch" /\ pc' = [pc EXCEPT ![c] = "error"]
    BY <1>3, Zenon DEF Goto
  <2>2. want[c].token \in Minted /\ want[c].token \in Tokens /\ tok[want[c].token] # None
    BY <2>1 DEF Knows, Minted
  <2>3. [tok EXCEPT ![want[c].token].lastUsed = now[c]]
          = [tok EXCEPT ![want[c].token] = UsedAt(tok[want[c].token], now[c])]
    BY <2>2, UseUpdatesRow DEF TypeOK
  <2>4. tok' = [tok EXCEPT ![want[c].token] = UsedAt(tok[want[c].token], now[c])]
    BY <1>3, <2>3, Zenon
  <2>5. QED
    BY <1>1, <2>1, <2>2, <2>4, Zenon DEF Uses
<1>4. QED
  BY <1>2, <1>3, Zenon DEF AccessFails

\* Revoke revokes a minted token of the repository it names, or does nothing.
LEMMA RevokeRevokes ==
  ASSUME TypeOK, Arguments, NEW a \in AdminCalls, Revoke(a)
  PROVE  \/ Revokes(a)
         \/ /\ apc[a] = "update" /\ apc' = [apc EXCEPT ![a] = "notFound"]
            /\ UNCHANGED <<clock, archived, tok, access, target, stamp>>
<1> DEFINE g == target[a]
<1>1. UNCHANGED <<clock, archived, access, target, stamp>> /\ apc[a] = "update"
  BY Zenon DEF Revoke
<1>2. CASE tok[g.token].repo = g.repo
  <2>1. g.token # None
    BY Zenon DEF Revoke
  <2>2. g.token \in Minted /\ g.token \in Tokens /\ tok[g.token] # None
    BY <1>1, <2>1 DEF Arguments, Minted
  <2>3. [tok EXCEPT ![g.token].revoked = Coalesce(@, stamp[a])]
          = [tok EXCEPT ![g.token] = RevokedAt(tok[g.token], stamp[a])]
    BY <2>2, RevokeUpdatesRow DEF TypeOK
  <2>4. /\ tok' = [tok EXCEPT ![g.token].revoked = Coalesce(@, stamp[a])]
        /\ apc' = [apc EXCEPT ![a] = "done"]
    BY <1>2, Zenon DEF Revoke
  <2>5. QED
    BY <1>1, <2>2, <2>3, <2>4, Zenon DEF Revokes
<1>3. CASE tok[g.token].repo # g.repo
  BY <1>1, <1>3, Zenon DEF Revoke
<1>4. QED
  BY <1>2, <1>3

-----------------------------------------------------------------------------
(***************************************************************************)
(* Types and arguments.                                                    *)
(***************************************************************************)

\* Every step keeps the variables in their types.
LEMMA StepType ==
  TypeOK /\ Arguments /\ (\A c \in Accesses : Knows(c)) /\ [Next]_vars => TypeOK'
<1> SUFFICES ASSUME TypeOK, Arguments, \A c \in Accesses : Knows(c), [Next]_vars
             PROVE  TypeOK'
  OBVIOUS
<1> USE ConstantsAssumption DEF PCs, AdminPCs, Final
<1>0. ASSUME NEW c \in Accesses, Uses(c) PROVE TypeOK'
  <2>1. UsedAt(tok[want[c].token], now[c]) \in TokenRow
    BY <1>0, RowsAge DEF Uses, TypeOK, Minted
  <2>2. QED
    BY <1>0, <2>1 DEF Uses, TypeOK, admin
<1>1. ASSUME NEW c \in Accesses, Authorize(c) PROVE TypeOK'
  <2>1. CASE Arrive(c)
    BY <2>1 DEF TypeOK, Arrive, Goto, Permitted, admin
  <2>2. CASE ReadRepo(c)
    BY <2>2 DEF TypeOK, ReadRepo, Goto, admin
  <2>3. CASE ReadToken(c)
    BY <2>3 DEF TypeOK, ReadToken, Goto, Minted, admin
  <2>4. CASE Check(c)
    BY <2>4 DEF TypeOK, Check, Goto, admin
  <2>5. CASE Touch(c)
    BY <1>0, <2>5, TouchUses
  <2>6. CASE AccessFails(c)
    <3>1. CASE Uses(c)
      BY <1>0, <3>1
    <3>2. CASE /\ pc' = [pc EXCEPT ![c] = "error"]
               /\ UNCHANGED <<clock, archived, tok, want, seen, now, allowed, admin>>
      BY <3>2 DEF TypeOK, admin
    <3>3. QED
      BY <2>6, <3>1, <3>2, AccessFailsUses
  <2>7. QED
    BY <1>1, <2>1, <2>2, <2>3, <2>4, <2>5, <2>6 DEF Authorize
<1>2. ASSUME NEW a \in AdminCalls, Admin(a) PROVE TypeOK'
  <2>1. CASE AdminArrive(a)
    BY <2>1 DEF TypeOK, AdminArrive, access
  <2>2. CASE AdminNow(a)
    BY <2>2 DEF TypeOK, AdminNow, access
  <2>3. CASE Revokes(a)
    <3>1. RevokedAt(tok[target[a].token], stamp[a]) \in TokenRow
      BY <2>3, RowsAge DEF Revokes, TypeOK, Minted
    <3>2. QED
      BY <2>3, <3>1 DEF Revokes, TypeOK, access
  <2>4. CASE Revoke(a) /\ ~Revokes(a)
    BY <2>4, RevokeRevokes DEF TypeOK, access
  <2>5. CASE Archive(a)
    BY <2>5 DEF TypeOK, Archive, Coalesce, access
  <2>6. CASE AdminFails(a)
    BY <2>6 DEF TypeOK, AdminFails, access
  <2>7. QED
    BY <1>2, <2>1, <2>2, <2>3, <2>4, <2>5, <2>6 DEF Admin
<1>3. CASE CreateRepoToken
  <2>1. PICK t \in Tokens \ Minted, i \in Repos, s \in Scopes, ttl \in TTLs, n \in 0..clock :
          tok' = [tok EXCEPT ![t] =
                    [repo |-> i, scope |-> s, created |-> n,
                     expires |-> n + ttl, revoked |-> None, lastUsed |-> None]]
    BY <1>3 DEF CreateRepoToken
  <2>2. n \in Time /\ n + ttl \in Nat
    BY DEF TypeOK, Time
  <2>3. [repo |-> i, scope |-> s, created |-> n,
         expires |-> n + ttl, revoked |-> None, lastUsed |-> None] \in TokenRow
    BY <2>2 DEF TokenRow
  <2>4. QED
    BY <1>3, <2>1, <2>3 DEF CreateRepoToken, TypeOK, access, admin
<1>4. CASE Tick
  BY <1>4 DEF TypeOK, Tick, Time, access, admin
<1>5. CASE UNCHANGED vars
  BY <1>5 DEF TypeOK, vars, access, admin
<1>6. QED
  BY <1>1, <1>2, <1>3, <1>4, <1>5 DEF Next

\* What every step leaves of the tables: time does not go back, archivings and
\* revocations stay, and a row keeps what the token was minted with.
Lasting ==
  /\ clock <= clock'
  /\ \A i \in Repos : archived[i] # None => archived'[i] = archived[i]
  /\ \A t \in Minted : Older(tok[t], tok'[t])

\* Every step keeps what lasts.
LEMMA StepLasting ==
  TypeOK /\ Arguments /\ (\A c \in Accesses : Knows(c)) /\ [Next]_vars => Lasting
<1> SUFFICES ASSUME TypeOK, Arguments, \A c \in Accesses : Knows(c), [Next]_vars
             PROVE  Lasting
  OBVIOUS
<1> USE ConstantsAssumption
<1>a. clock \in Nat /\ \A t \in Minted : Older(tok[t], tok[t])
  BY DEF TypeOK, Time, Minted, Older
<1>b. ASSUME UNCHANGED <<clock, archived, tok>> PROVE Lasting
  BY <1>a, <1>b DEF Lasting
<1>0. ASSUME NEW c \in Accesses, Uses(c) PROVE Lasting
  <2>1. \A t \in Minted : Older(tok[t], tok'[t])
    BY <1>0, <1>a, RowsAge DEF Uses, TypeOK, Minted
  <2>2. QED
    BY <1>0, <1>a, <2>1 DEF Uses, Lasting
<1>1. ASSUME NEW c \in Accesses, Authorize(c) PROVE Lasting
  <2>1. CASE Arrive(c) \/ ReadRepo(c) \/ ReadToken(c) \/ Check(c)
    BY <2>1, <1>b DEF Arrive, ReadRepo, ReadToken, Check
  <2>2. CASE Touch(c) \/ AccessFails(c)
    BY <2>2, <1>0, <1>b, TouchUses, AccessFailsUses
  <2>3. QED
    BY <1>1, <2>1, <2>2 DEF Authorize
<1>2. ASSUME NEW a \in AdminCalls, Admin(a) PROVE Lasting
  <2>1. CASE AdminArrive(a) \/ AdminNow(a) \/ AdminFails(a)
    BY <2>1, <1>b DEF AdminArrive, AdminNow, AdminFails
  <2>2. CASE Revokes(a)
    <3>1. \A t \in Minted : Older(tok[t], tok'[t])
      BY <2>2, <1>a, RowsAge DEF Revokes, TypeOK, Minted
    <3>2. QED
      BY <2>2, <1>a, <3>1 DEF Revokes, Lasting
  <2>3. CASE Revoke(a) /\ ~Revokes(a)
    BY <2>3, <1>b, RevokeRevokes
  <2>4. CASE Archive(a)
    BY <2>4, <1>a DEF Archive, Coalesce, Lasting, TypeOK
  <2>5. QED
    BY <1>2, <2>1, <2>2, <2>3, <2>4 DEF Admin
<1>3. CASE CreateRepoToken
  BY <1>3, <1>a DEF CreateRepoToken, Lasting, TypeOK
<1>4. CASE Tick
  BY <1>4, <1>a DEF Tick, Lasting
<1>5. CASE UNCHANGED vars
  BY <1>5, <1>b DEF vars
<1>6. QED
  BY <1>1, <1>2, <1>3, <1>4, <1>5 DEF Next

\* Every step keeps the arguments of the calls: a token that was minted when a
\* call came stays minted.
LEMMA StepArguments ==
  TypeOK /\ Arguments /\ (\A c \in Accesses : Knows(c)) /\ [Next]_vars => Arguments'
<1> SUFFICES ASSUME TypeOK, Arguments, \A c \in Accesses : Knows(c), [Next]_vars
             PROVE  Arguments'
  OBVIOUS
<1>1. Minted \subseteq Minted'
  BY StepLasting DEF Lasting, Older, Minted
<1>2. ASSUME UNCHANGED <<want, target>>,
             \A c \in Accesses : pc[c] = "idle" => pc'[c] = "idle",
             \A a \in AdminCalls : apc[a] = "idle" => apc'[a] = "idle"
      PROVE  Arguments'
  BY <1>1, <1>2 DEF Arguments, Held
<1>3. ASSUME NEW c \in Accesses, Authorize(c) PROVE Arguments'
  <2>1. CASE Arrive(c)
    BY <2>1, <1>1 DEF Arrive, Goto, Arguments, Held, TypeOK, admin
  <2>2. CASE ReadRepo(c) \/ ReadToken(c) \/ Check(c)
    BY <2>2, <1>2 DEF ReadRepo, ReadToken, Check, Goto, TypeOK, admin
  <2>3. CASE Touch(c) \/ AccessFails(c)
    BY <2>3, <1>2, TouchUses, AccessFailsUses DEF Uses, TypeOK, admin
  <2>4. QED
    BY <1>3, <2>1, <2>2, <2>3 DEF Authorize
<1>4. ASSUME NEW a \in AdminCalls, Admin(a) PROVE Arguments'
  <2>1. CASE AdminArrive(a)
    BY <2>1, <1>1 DEF AdminArrive, Arguments, Held, TypeOK, access
  <2>2. CASE AdminNow(a) \/ AdminFails(a) \/ Archive(a)
    BY <2>2, <1>2 DEF AdminNow, AdminFails, Archive, TypeOK, access
  <2>3. CASE Revoke(a)
    BY <2>3, <1>2, RevokeRevokes DEF Revokes, TypeOK, access
  <2>4. QED
    BY <1>4, <2>1, <2>2, <2>3 DEF Admin
<1>5. CASE CreateRepoToken \/ Tick \/ UNCHANGED vars
  BY <1>5, <1>2 DEF CreateRepoToken, Tick, vars, access, admin
<1>6. QED
  BY <1>3, <1>4, <1>5 DEF Next

-----------------------------------------------------------------------------
(***************************************************************************)
(* AuthorizeGitAccess.                                                     *)
(***************************************************************************)

\* What is not permitted will not be: for a token that is minted already, or
\* never will be, nothing is given back.
LEMMA NotPermittedLasts ==
  ASSUME TypeOK, TypeOK', Lasting, NEW w \in Wanted, Held(w.token)
  PROVE  /\ ~Permitted(w) => ~Permitted(w)'
         /\ w.token \notin Minted => w.token \notin Minted'
         /\ \A x : x # None /\ x.expires \in Nat /\ ~RowPermits(x, w)
              => ~RowPermits(x, w)'
         /\ w.token \in Minted /\ ~RowPermits(tok[w.token], w)
              => ~RowPermits(tok[w.token], w)'
<1> USE ConstantsAssumption
<1>1. clock \in Nat /\ clock' \in Nat /\ clock <= clock'
  BY DEF TypeOK, Time, Lasting
<1>2. w.token \notin Minted => w.token \notin Minted'
  BY DEF Held, Minted
<1>3. \A x : x # None /\ x.expires \in Nat /\ ~RowPermits(x, w) => ~RowPermits(x, w)'
  BY <1>1 DEF RowPermits
<1>4. ASSUME w.token \in Minted, ~RowPermits(tok[w.token], w)
      PROVE  ~RowPermits(tok[w.token], w)'
  <2> DEFINE x == tok[w.token]
             y == tok'[w.token]
  <2>1. Older(x, y) /\ x.expires \in Nat /\ w.token \in Tokens
    BY <1>4 DEF Lasting, TypeOK, TokenRow, Minted
  <2>2. QED
    BY <1>1, <1>4, <2>1 DEF Older, RowPermits
<1>5. ASSUME ~Permitted(w) PROVE ~Permitted(w)'
  <2>1. CASE w.token \notin Minted
    BY <2>1, <1>2 DEF Permitted
  <2>2. CASE w.repo \notin Repos \/ archived[w.repo] # None
    BY <2>2 DEF Permitted, Lasting
  <2>3. CASE w.token \in Minted /\ ~RowPermits(tok[w.token], w)
    BY <2>3, <1>4 DEF Permitted, RowPermits
  <2>4. QED
    BY <1>5, <2>1, <2>2, <2>3 DEF Permitted, RowPermits
<1>6. QED
  BY <1>2, <1>3, <1>4, <1>5

\* A request that does not move keeps what it knows.
LEMMA KnowsLasts ==
  ASSUME TypeOK, TypeOK', Arguments, Lasting, NEW c \in Accesses, Knows(c),
         pc'[c] = pc[c], want'[c] = want[c], seen'[c] = seen[c],
         now'[c] = now[c], allowed'[c] = allowed[c]
  PROVE  Knows(c)'
<1>1. CASE pc[c] = "idle"
  BY <1>1 DEF Knows
<1>2. CASE pc[c] # "idle"
  <2> DEFINE w == want[c]
  <2>1. w \in Wanted /\ Held(w.token)
    BY <1>2 DEF Arguments
  <2>2. /\ ~Permitted(w) => ~Permitted(w)'
        /\ w.token \notin Minted => w.token \notin Minted'
        /\ w.token \in Minted /\ ~RowPermits(tok[w.token], w)
             => ~RowPermits(tok[w.token], w)'
        /\ \A x : x # None /\ x.expires \in Nat /\ ~RowPermits(x, w)
              => ~RowPermits(x, w)'
    BY <2>1, NotPermittedLasts
  <2>3. ASSUME pc[c] \in {"check", "touch", "granted"}
        PROVE  /\ w.token \in Minted'
               /\ Older(seen[c], tok'[w.token])
               /\ seen[c] # None /\ seen[c].expires \in Nat
    BY <2>3, ConstantsAssumption DEF Knows, Lasting, Older, Minted, TypeOK, TokenRow
  <2>4. QED
    BY <2>2, <2>3 DEF Knows, Permitted, RowPermits
<1>3. QED
  BY <1>1, <1>2

\* The steps of AuthorizeGitAccess learn what the next ones rely on.
LEMMA StepKnows == Inv /\ [Next]_vars => \A c \in Accesses : Knows(c)'
<1> SUFFICES ASSUME Inv, [Next]_vars, NEW c \in Accesses
             PROVE  Knows(c)'
  OBVIOUS
<1> USE ConstantsAssumption
<1>1. TypeOK /\ TypeOK' /\ Arguments /\ Arguments' /\ Lasting /\ Knows(c)
  BY StepType, StepArguments, StepLasting DEF Inv
<1>2. ASSUME pc'[c] = pc[c], want'[c] = want[c], seen'[c] = seen[c],
             now'[c] = now[c], allowed'[c] = allowed[c]
      PROVE  Knows(c)'
  BY <1>1, <1>2, KnowsLasts
<1>3. ASSUME NEW d \in Accesses, Authorize(d), d # c PROVE Knows(c)'
  <2>1. CASE Arrive(d) \/ ReadRepo(d) \/ ReadToken(d) \/ Check(d)
    BY <1>1, <1>2, <1>3, <2>1 DEF Arrive, ReadRepo, ReadToken, Check, Goto, TypeOK
  <2>2. CASE Touch(d) \/ AccessFails(d)
    BY <1>1, <1>2, <1>3, <2>2, TouchUses, AccessFailsUses DEF Inv, Uses, TypeOK
  <2>3. QED
    BY <1>3, <2>1, <2>2 DEF Authorize
<1>4. ASSUME Authorize(c) PROVE Knows(c)'
  <2> DEFINE w == want[c]
  <2>1. CASE Arrive(c)
    <3>1. PICK v \in Wanted : /\ want' = [want EXCEPT ![c] = v]
                              /\ allowed' = [allowed EXCEPT ![c] = Permitted(v)]
      BY <2>1 DEF Arrive
    <3>2. /\ want'[c] = v /\ allowed'[c] = Permitted(v) /\ pc'[c] = "repo"
          /\ UNCHANGED <<clock, archived, tok>>
      BY <1>1, <2>1, <3>1 DEF Arrive, Goto, TypeOK
    <3>3. Permitted(want[c])' = Permitted(v)
      BY <3>2 DEF Permitted, Minted
    <3>4. QED
      BY <3>2, <3>3 DEF Knows
  <2>2. CASE ReadRepo(c)
    <3>1. /\ UNCHANGED <<clock, archived, tok, want, seen, now, allowed>>
          /\ pc[c] = "repo" /\ w \in Wanted
          /\ allowed[c] \/ ~Permitted(w)
      BY <1>1, <2>2 DEF ReadRepo, Knows, Arguments
    <3>2. CASE w.repo \in Repos /\ archived[w.repo] = None /\ w.token # None
      <4>1. pc'[c] = "token"
        BY <1>1, <2>2, <3>2 DEF ReadRepo, Goto, TypeOK
      <4>2. QED
        BY <3>1, <3>2, <4>1 DEF Knows, Permitted, RowPermits, Minted
    <3>3. CASE ~(w.repo \in Repos /\ archived[w.repo] = None /\ w.token # None)
      <4>1. pc'[c] = "unauthorized"
        BY <1>1, <2>2, <3>3 DEF ReadRepo, Goto, TypeOK
      <4>2. ~Permitted(w)
        BY <3>3 DEF Permitted, Minted
      <4>3. QED
        BY <3>1, <4>1, <4>2 DEF Knows, Permitted, Minted
    <3>4. QED
      BY <3>2, <3>3
  <2>3. CASE ReadToken(c)
    <3>1. /\ UNCHANGED <<clock, archived, tok, want, now, allowed>>
          /\ pc[c] = "token" /\ w \in Wanted /\ w.repo \in Repos /\ w.token # None
          /\ allowed[c] \/ w.token \notin Minted \/ ~RowPermits(tok[w.token], w)
      BY <1>1, <2>3 DEF ReadToken, Knows, Arguments
    <3>2. CASE w.token \in Minted
      <4>1. pc'[c] = "check" /\ seen'[c] = tok[w.token]
        BY <1>1, <2>3, <3>2 DEF ReadToken, Goto, TypeOK
      <4>2. QED
        BY <3>1, <3>2, <4>1 DEF Knows, RowPermits, Minted, Older
    <3>3. CASE w.token \notin Minted
      <4>1. pc'[c] = "unauthorized"
        BY <1>1, <2>3, <3>3 DEF ReadToken, Goto, TypeOK
      <4>2. QED
        BY <3>1, <3>3, <4>1 DEF Knows, Permitted, Minted
    <3>4. QED
      BY <3>2, <3>3
  <2>4. CASE Check(c)
    <3> DEFINE x == seen[c]
               y == tok[w.token]
    <3>1. /\ UNCHANGED <<clock, archived, tok, want, seen, allowed>>
          /\ now'[c] = clock
          /\ pc[c] = "check" /\ w \in Wanted /\ w.repo \in Repos /\ w.token # None
          /\ allowed[c] \/ ~RowPermits(x, w)
          /\ w.token \in Minted /\ w.token \in Tokens /\ Older(x, y)
      BY <1>1, <2>4 DEF Check, Knows, Arguments, TypeOK, Minted
    <3>2. y.created <= clock
      BY <3>1 DEF Inv, Dated, Minted
    <3>3. CASE RowPermits(x, w)
      <4>1. pc'[c] \in {"touch", "error"}
        BY <1>1, <2>4, <3>1, <3>3 DEF Check, Goto, TypeOK, Valid, RowPermits
      <4>2. x.created <= clock /\ clock < x.expires
        BY <3>1, <3>2, <3>3 DEF Older, RowPermits
      <4>3. QED
        BY <3>1, <3>3, <4>1, <4>2 DEF Knows, Minted
    <3>4. CASE ~RowPermits(x, w)
      <4>1. pc'[c] \in {"unauthorized", "forbidden"}
        BY <1>1, <2>4, <3>1, <3>4 DEF Check, Goto, TypeOK, Valid, RowPermits
      <4>2. ~Permitted(w)
        BY <3>1, <3>4 DEF Permitted, RowPermits, Older
      <4>3. QED
        BY <3>1, <4>1, <4>2 DEF Knows, Permitted, Minted
    <3>5. QED
      BY <3>3, <3>4
  <2>5. CASE Touch(c)
    <3>1. Uses(c) /\ pc'[c] = "granted"
      BY <1>1, <2>5, TouchUses DEF TypeOK
    <3>2. Older(seen[c], tok[w.token]) /\ Older(tok[w.token], tok'[w.token]) /\ allowed[c]
      BY <1>1, <3>1 DEF Uses, Knows, Lasting
    <3>3. QED
      BY <1>1, <3>1, <3>2 DEF Uses, Knows, Older, Minted
  <2>6. CASE AccessFails(c)
    <3>1. pc'[c] = "error"
      BY <1>1, <2>6, AccessFailsUses DEF TypeOK
    <3>2. QED
      BY <3>1 DEF Knows
  <2>7. QED
    BY <1>4, <2>1, <2>2, <2>3, <2>4, <2>5, <2>6 DEF Authorize
<1>5. ASSUME NEW a \in AdminCalls, Admin(a) PROVE Knows(c)'
  <2>1. CASE AdminArrive(a) \/ AdminNow(a) \/ AdminFails(a) \/ Archive(a)
    BY <1>2, <2>1 DEF AdminArrive, AdminNow, AdminFails, Archive, access
  <2>2. CASE Revoke(a)
    BY <1>1, <1>2, <2>2, RevokeRevokes DEF Revokes, access
  <2>3. QED
    BY <1>5, <2>1, <2>2 DEF Admin
<1>6. CASE CreateRepoToken \/ Tick \/ UNCHANGED vars
  BY <1>2, <1>6 DEF CreateRepoToken, Tick, vars, access
<1>7. QED
  BY <1>3, <1>4, <1>5, <1>6 DEF Next

\* Uses are dated within the life of the token: the clock was read between the
\* row and the UPDATE, and compared with the end of that life.
LEMMA StepDated ==
  Inv /\ [Next]_vars => /\ \A t \in Tokens : Dated(t)'
                        /\ \A c \in Accesses : Used(c)'
<1> SUFFICES ASSUME Inv, [Next]_vars
             PROVE  /\ \A t \in Tokens : Dated(t)'
                    /\ \A c \in Accesses : Used(c)'
  OBVIOUS
<1> USE ConstantsAssumption
<1>1. TypeOK /\ TypeOK' /\ Arguments /\ Lasting /\ \A c \in Accesses : Knows(c)
  BY StepType, StepLasting DEF Inv
<1>2. /\ clock \in Nat /\ clock' \in Nat /\ clock <= clock'
      /\ \A t \in Tokens : tok[t] # None => tok[t] \in TokenRow /\ tok[t].created \in Nat
  BY <1>1 DEF TypeOK, Time, Lasting, TokenRow
<1>3. ASSUME UNCHANGED tok, \A c \in Accesses : pc'[c] = "granted" =>
                               pc[c] = "granted" /\ want'[c] = want[c]
      PROVE  /\ \A t \in Tokens : Dated(t)'
             /\ \A c \in Accesses : Used(c)'
  BY <1>2, <1>3 DEF Inv, Dated, Used
<1>4. ASSUME NEW c \in Accesses, Uses(c)
      PROVE  /\ \A t \in Tokens : Dated(t)'
             /\ \A d \in Accesses : Used(d)'
  <2> DEFINE u == want[c].token
  <2>1. /\ u \in Tokens /\ tok[u] # None /\ tok'[u] = UsedAt(tok[u], now[c])
        /\ \A t \in Tokens \ {u} : tok'[t] = tok[t]
        /\ UNCHANGED <<clock, want, now>>
    BY <1>1, <1>4 DEF Uses, Minted, TypeOK
  <2>2. /\ tok[u].created <= now[c] /\ now[c] < tok[u].expires /\ now[c] # None
        /\ tok[u].created <= clock
    BY <1>1, <1>4, <2>1 DEF Uses, Knows, Older, TypeOK, Time, Inv, Dated
  <2>3. Dated(u)'
    BY <2>1, <2>2 DEF Dated, UsedAt
  <2>4. \A t \in Tokens : Dated(t)'
    BY <2>1, <2>3 DEF Inv, Dated
  <2>5. ASSUME NEW d \in Accesses PROVE Used(d)'
    <3>1. CASE want[d].token = u
      BY <2>1, <2>2, <3>1 DEF Used, UsedAt
    <3>2. CASE want[d].token # u
      <4>1. pc'[d] = "granted" => d = c \/ pc[d] = "granted"
        BY <1>1, <1>4 DEF Uses, TypeOK
      <4>2. pc[d] = "granted" => want[d].token \in Tokens
        BY <1>1 DEF Knows, Minted
      <4>3. QED
        BY <2>1, <3>2, <4>1, <4>2 DEF Inv, Used
    <3>3. QED
      BY <3>1, <3>2
  <2>6. QED
    BY <2>4, <2>5
<1>5. ASSUME NEW c \in Accesses, Authorize(c)
      PROVE  /\ \A t \in Tokens : Dated(t)'
             /\ \A d \in Accesses : Used(d)'
  <2>1. CASE Arrive(c) \/ ReadRepo(c) \/ ReadToken(c) \/ Check(c)
    BY <1>1, <1>3, <2>1 DEF Arrive, ReadRepo, ReadToken, Check, Goto, TypeOK
  <2>2. CASE Touch(c) \/ AccessFails(c)
    BY <1>1, <1>3, <1>4, <2>2, TouchUses, AccessFailsUses DEF TypeOK
  <2>3. QED
    BY <1>5, <2>1, <2>2 DEF Authorize
<1>6. ASSUME NEW a \in AdminCalls, Admin(a)
      PROVE  /\ \A t \in Tokens : Dated(t)'
             /\ \A d \in Accesses : Used(d)'
  <2>1. CASE AdminArrive(a) \/ AdminNow(a) \/ AdminFails(a) \/ Archive(a)
    BY <1>3, <2>1 DEF AdminArrive, AdminNow, AdminFails, Archive, access
  <2>2. CASE Revokes(a)
    <3> DEFINE u == target[a].token
    <3>1. /\ u \in Tokens /\ tok[u] # None /\ tok'[u] = RevokedAt(tok[u], stamp[a])
          /\ \A t \in Tokens \ {u} : tok'[t] = tok[t]
          /\ UNCHANGED <<clock, want, pc, target>>
      BY <1>1, <2>2 DEF Revokes, Minted, TypeOK, access
    <3>2. Dated(u)'
      BY <3>1 DEF Inv, Dated, RevokedAt
    <3>3. \A d \in Accesses : pc[d] = "granted" => want[d].token \in Tokens
      BY <1>1 DEF Knows, Minted
    <3>4. \A d \in Accesses : Used(d)'
      BY <3>1, <3>3 DEF Inv, Used, RevokedAt
    <3>5. QED
      BY <3>1, <3>2, <3>4 DEF Inv, Dated
  <2>3. CASE Revoke(a) /\ ~Revokes(a)
    BY <1>1, <1>3, <2>3, RevokeRevokes DEF access
  <2>4. QED
    BY <1>6, <2>1, <2>2, <2>3 DEF Admin
<1>7. CASE CreateRepoToken
  <2>1. PICK t \in Tokens \ Minted, i \in Repos, s \in Scopes, ttl \in TTLs, n \in 0..clock :
          tok' = [tok EXCEPT ![t] =
                    [repo |-> i, scope |-> s, created |-> n,
                     expires |-> n + ttl, revoked |-> None, lastUsed |-> None]]
    BY <1>7 DEF CreateRepoToken
  <2>2. UNCHANGED <<clock, pc, want>>
    BY <1>7 DEF CreateRepoToken, access
  <2>3. tok'[t].created <= clock /\ tok'[t].lastUsed = None
    BY <1>1, <1>2, <2>1 DEF TypeOK
  <2>4. \A u \in Tokens : Dated(u)'
    BY <1>1, <2>1, <2>2, <2>3 DEF Inv, Dated, TypeOK
  <2>5. \A c \in Accesses : pc[c] = "granted" => want[c].token \in Minted
    BY <1>1 DEF Knows
  <2>6. \A c \in Accesses : Used(c)'
    BY <1>1, <2>1, <2>2, <2>5 DEF Inv, Used, TypeOK, Minted
  <2>7. QED
    BY <2>4, <2>6
<1>8. CASE Tick \/ UNCHANGED vars
  BY <1>3, <1>8 DEF Tick, vars, access
<1>9. QED
  BY <1>5, <1>6, <1>7, <1>8 DEF Next

\* Inv is inductive.
LEMMA StepInv == Inv /\ [Next]_vars => Inv'
BY StepType, StepArguments, StepKnows, StepDated DEF Inv

-----------------------------------------------------------------------------
(***************************************************************************)
(* The theorems.                                                           *)
(***************************************************************************)

\* AuthorizeGitAccess, the control plane and the tables keep their types.
THEOREM TypeCorrect == Spec => []TypeOK
<1>1. Inv => TypeOK
  BY DEF Inv
<1>2. QED
  BY <1>1, InitInv, StepInv, PTL DEF Spec

\* A grant was permitted when the request came, and a refusal is right at the
\* moment it is given, although AuthorizeGitAccess reads repository, token and
\* clock in three steps that any revocation or archiving may fall between.
THEOREM DecisionsArePermitted == Spec => []DecisionIsPermitted
<1>1. Inv => DecisionIsPermitted
  BY DEF Inv, Knows, DecisionIsPermitted
<1>2. QED
  BY <1>1, InitInv, StepInv, PTL DEF Spec

\* last_used_at lies within the life of its token, and every grant left one.
THEOREM LastUsesAreWithinLife == Spec => []LastUseIsWithinLife
<1>1. Inv => LastUseIsWithinLife
  BY DEF Inv, Dated, Used, LastUseIsWithinLife, Minted
<1>2. QED
  BY <1>1, InitInv, StepInv, PTL DEF Spec

\* revoked_at and archived_at keep their first value, whatever races.
THEOREM RevocationsAreFinal == Spec => RevocationIsFinal
<1> DEFINE Kept ==
      /\ \A t \in Tokens : (tok[t] # None /\ tok[t].revoked # None)
           => tok'[t] # None /\ tok'[t].revoked = tok[t].revoked
      /\ \A i \in Repos : archived[i] # None => archived'[i] = archived[i]
<1>1. Inv /\ [Next]_vars => [Kept]_vars
  BY StepLasting DEF Inv, Lasting, Older, Minted
<1>2. QED
  BY <1>1, InitInv, StepInv, PTL DEF Spec, RevocationIsFinal
=============================================================================
