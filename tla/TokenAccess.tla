---------------------------- MODULE TokenAccess -----------------------------
(***************************************************************************)
(* Using, revoking and expiring repository tokens in the Postgres          *)
(* deployment: AuthorizeGitAccess, which stands before every git, LFS,     *)
(* diff and raw request, against concurrent CreateRepoToken,               *)
(* RevokeRepoToken and ArchiveRepo calls.                                  *)
(*                                                                         *)
(* AuthorizeGitAccess is four steps with nothing that ties them together:  *)
(* SELECT the repo, SELECT the token, read the clock and decide on what    *)
(* was read, UPDATE last_used_at.  A revocation, an archiving, another use *)
(* of the token or the token's expiry may fall between any two.            *)
(***************************************************************************)
EXTENDS Naturals

CONSTANTS
  Accesses,   \* requests that need a grant, each made once
  AdminCalls, \* revoke and archive requests, each made once
  Repos,      \* repositories that exist
  NoStorage,  \* those of them whose directory is missing on disk
  Unknown,    \* an id that is no repository's
  Tokens,     \* secrets generateRepoToken can return
  Forged,     \* a secret that was never minted
  TTLs,       \* the ttlSeconds a token may be minted with
  MaxTime,    \* bound: the clock stops here
  None,       \* no value; also the empty token of a request without one
  Faults      \* {"db"}: a statement may fail, its effect lost or kept

Scopes == {"read", "write", "readwrite"}
Ops    == {"read", "write"}
Time   == 0..MaxTime

\* A row of repo_tokens; token_hash identifies the token.
TokenRow ==
  [repo : Repos, scope : Scopes, created : Time, expires : Nat,
   revoked : Time \cup {None}, lastUsed : Time \cup {None}]

\* The arguments of AuthorizeGitAccess.
Wanted ==
  [repo : Repos \cup {Unknown}, token : Tokens \cup {Forged, None}, op : Ops]

\* The arguments of RevokeRepoToken and, with token None, of ArchiveRepo.
Target == [repo : Repos \cup {Unknown}, token : Tokens \cup {None}]

ASSUME ConstantsAssumption ==
  /\ NoStorage \subseteq Repos /\ Unknown \notin Repos
  /\ Forged \notin Tokens
  /\ TTLs \subseteq Nat \ {0} /\ MaxTime \in Nat
  /\ None \notin Tokens \cup {Forged} \cup Nat
  /\ None \notin TokenRow \cup Wanted \cup Target
  /\ Faults \subseteq {"db"}

VARIABLES
  clock,     \* the current time
  archived,  \* repos.archived_at
  tok,       \* the rows of repo_tokens, by token
  pc,        \* where each access is
  want,      \* its arguments
  seen,      \* the token row it read
  now,       \* the time it read
  allowed,   \* history: it was permitted at the moment it arrived
  apc,       \* where each admin call is
  target,    \* its arguments
  stamp      \* the time it read

access == <<pc, want, seen, now, allowed>>
admin  == <<apc, target, stamp>>
vars   == <<clock, archived, tok, access, admin>>

Final    == {"granted", "unauthorized", "forbidden", "error"}
PCs      == {"idle", "repo", "token", "check", "touch"} \cup Final
AdminPCs == {"idle", "now", "update", "done", "notFound", "error"}

\* Type correctness of the tables, of the accesses and of the admin calls.
TypeOK ==
  /\ clock \in Time
  /\ archived \in [Repos -> Time \cup {None}]
  /\ tok \in [Tokens -> TokenRow \cup {None}]
  /\ pc \in [Accesses -> PCs]
  /\ want \in [Accesses -> Wanted \cup {None}]
  /\ seen \in [Accesses -> TokenRow \cup {None}]
  /\ now \in [Accesses -> Time]
  /\ allowed \in [Accesses -> BOOLEAN]
  /\ apc \in [AdminCalls -> AdminPCs]
  /\ target \in [AdminCalls -> Target \cup {None}]
  /\ stamp \in [AdminCalls -> Time]

Init ==
  /\ clock = 0
  /\ archived = [i \in Repos |-> None]
  /\ tok = [t \in Tokens |-> None]
  /\ pc = [c \in Accesses |-> "idle"]
  /\ want = [c \in Accesses |-> None]
  /\ seen = [c \in Accesses |-> None]
  /\ now = [c \in Accesses |-> 0]
  /\ allowed = [c \in Accesses |-> FALSE]
  /\ apc = [a \in AdminCalls |-> "idle"]
  /\ target = [a \in AdminCalls |-> None]
  /\ stamp = [a \in AdminCalls |-> 0]

Minted == {t \in Tokens : tok[t] # None}

\* scopeAllowsGitOperation.
ScopeAllows(scope, op) == scope = op \/ scope = "readwrite"

\* What the tables and the clock say of w at this moment.
Permitted(w) ==
  /\ w.repo \in Repos /\ archived[w.repo] = None
  /\ w.token \in Minted
  /\ tok[w.token].repo = w.repo
  /\ tok[w.token].revoked = None
  /\ clock < tok[w.token].expires
  /\ ScopeAllows(tok[w.token].scope, w.op)

Goto(c, from, to) ==
  /\ pc[c] = from
  /\ pc' = [pc EXCEPT ![c] = to]

-----------------------------------------------------------------------------
(***************************************************************************)
(* AuthorizeGitAccess.                                                     *)
(***************************************************************************)

\* The handler has parsed repo id, operation and token.  A client can only
\* hold a token that was minted before.
Arrive(c) ==
  /\ Goto(c, "idle", "repo")
  /\ \E w \in Wanted :
       /\ w.token \in Minted \cup {Forged, None}
       /\ want' = [want EXCEPT ![c] = w]
       /\ allowed' = [allowed EXCEPT ![c] = Permitted(w)]
  /\ UNCHANGED <<clock, archived, tok, seen, now, admin>>

\* The first SELECT and the tests on its row and on the empty token.
ReadRepo(c) ==
  /\ pc[c] = "repo"
  /\ LET w == want[c]
         ok == w.repo \in Repos /\ archived[w.repo] = None /\ w.token # None
     IN \/ ok /\ Goto(c, "repo", "token")
        \/ ~ok /\ Goto(c, "repo", "unauthorized")
  /\ UNCHANGED <<clock, archived, tok, want, seen, now, allowed, admin>>

\* The second SELECT, by token hash.
ReadToken(c) ==
  /\ pc[c] = "token"
  /\ \/ /\ want[c].token \in Minted
        /\ Goto(c, "token", "check")
        /\ seen' = [seen EXCEPT ![c] = tok[want[c].token]]
     \/ /\ want[c].token \notin Minted
        /\ Goto(c, "token", "unauthorized")
        /\ UNCHANGED seen
  /\ UNCHANGED <<clock, archived, tok, want, now, allowed, admin>>

\* Mutant of Valid: revocation is not looked at.
ValidThoughRevoked(c, n) ==
  /\ seen[c].repo = want[c].repo
  /\ n < seen[c].expires

\* Mutant of Valid: off by one at the end of the token's life.
ValidTooShort(c, n) ==
  /\ seen[c].repo = want[c].repo
  /\ seen[c].revoked = None
  /\ n + 1 < seen[c].expires

\* The token row read before is this repo's, not revoked and not expired.
Valid(c, n) ==
  /\ seen[c].repo = want[c].repo
  /\ seen[c].revoked = None
  /\ n < seen[c].expires

\* store.now(), then the tests on the row read before and on the storage.
Check(c) ==
  /\ pc[c] = "check"
  /\ now' = [now EXCEPT ![c] = clock]
  /\ LET valid == Valid(c, clock)
         allows == ScopeAllows(seen[c].scope, want[c].op)
     IN \/ ~valid /\ Goto(c, "check", "unauthorized")
        \/ valid /\ ~allows /\ Goto(c, "check", "forbidden")
        \/ /\ valid /\ allows /\ want[c].repo \in NoStorage
           /\ Goto(c, "check", "error")
        \/ /\ valid /\ allows /\ want[c].repo \notin NoStorage
           /\ Goto(c, "check", "touch")
  /\ UNCHANGED <<clock, archived, tok, want, seen, allowed, admin>>

\* Mutant of Touch: last_used_at is the time of the UPDATE.
TouchWithDatabaseTime(c) ==
  /\ Goto(c, "touch", "granted")
  /\ tok' = [tok EXCEPT ![want[c].token].lastUsed = clock]
  /\ UNCHANGED <<clock, archived, want, seen, now, allowed, admin>>

\* UPDATE repo_tokens SET last_used_at, then the grant.
Touch(c) ==
  /\ Goto(c, "touch", "granted")
  /\ tok' = [tok EXCEPT ![want[c].token].lastUsed = now[c]]
  /\ UNCHANGED <<clock, archived, want, seen, now, allowed, admin>>

\* A statement fails; a failed UPDATE may have taken effect.
AccessFails(c) ==
  /\ "db" \in Faults
  /\ \/ /\ \E from \in {"repo", "token", "touch"} : Goto(c, from, "error")
        /\ UNCHANGED tok
     \/ /\ Goto(c, "touch", "error")
        /\ tok' = [tok EXCEPT ![want[c].token].lastUsed = now[c]]
  /\ UNCHANGED <<clock, archived, want, seen, now, allowed, admin>>

-----------------------------------------------------------------------------
(***************************************************************************)
(* The control plane.                                                      *)
(***************************************************************************)

\* Mutant of CreateRepoToken: the scope of the request is not validated.
CreateWithAnyScope ==
  /\ \E t \in Tokens \ Minted, i \in Repos, s \in Scopes \cup {"admin"},
        ttl \in TTLs, n \in 0..clock :
       tok' = [tok EXCEPT ![t] =
                 [repo |-> i, scope |-> s, created |-> n,
                  expires |-> n + ttl, revoked |-> None, lastUsed |-> None]]
  /\ UNCHANGED <<clock, archived, access, admin>>

\* CreateRepoToken for a repo that exists, archived or not, keyed or not.  The
\* row appears some time after store.now() was read: at the INSERT, or at the
\* COMMIT of Do.
CreateRepoToken ==
  /\ \E t \in Tokens \ Minted, i \in Repos, s \in Scopes, ttl \in TTLs,
        n \in 0..clock :
       tok' = [tok EXCEPT ![t] =
                 [repo |-> i, scope |-> s, created |-> n,
                  expires |-> n + ttl, revoked |-> None, lastUsed |-> None]]
  /\ UNCHANGED <<clock, archived, access, admin>>

\* A revoke or archive request arrives.  RevokeRepoToken looks for the repo
\* with a SELECT of its own first; ArchiveRepo leaves that to its UPDATE.
AdminArrive(a) ==
  /\ apc[a] = "idle"
  /\ \E g \in Target :
       /\ g.token \in Minted \cup {None}
       /\ target' = [target EXCEPT ![a] = g]
       /\ apc' = [apc EXCEPT ![a] =
                    IF g.token # None /\ g.repo \notin Repos THEN "notFound"
                                                             ELSE "now"]
  /\ UNCHANGED <<clock, archived, tok, access, stamp>>

\* store.now() is evaluated before the UPDATE is sent.
AdminNow(a) ==
  /\ apc[a] = "now"
  /\ apc' = [apc EXCEPT ![a] = "update"]
  /\ stamp' = [stamp EXCEPT ![a] = clock]
  /\ UNCHANGED <<clock, archived, tok, access, target>>

\* Mutant of Coalesce: the UPDATE always writes the new time.
Overwrite(old, new) == new

\* COALESCE(old, new).
Coalesce(old, new) == IF old = None THEN new ELSE old

\* UPDATE repo_tokens SET revoked_at ... WHERE id AND repo_id.
Revoke(a) ==
  LET g == target[a] IN
  /\ apc[a] = "update"
  /\ g.token # None
  /\ IF tok[g.token].repo = g.repo
       THEN /\ tok' = [tok EXCEPT ![g.token].revoked = Coalesce(@, stamp[a])]
            /\ apc' = [apc EXCEPT ![a] = "done"]
       ELSE /\ apc' = [apc EXCEPT ![a] = "notFound"]
            /\ UNCHANGED tok
  /\ UNCHANGED <<clock, archived, access, target, stamp>>

\* UPDATE repos SET archived_at ... WHERE id.
Archive(a) ==
  LET g == target[a] IN
  /\ apc[a] = "update"
  /\ g.token = None
  /\ IF g.repo \in Repos
       THEN /\ archived' = [archived EXCEPT ![g.repo] = Coalesce(@, stamp[a])]
            /\ apc' = [apc EXCEPT ![a] = "done"]
       ELSE /\ apc' = [apc EXCEPT ![a] = "notFound"]
            /\ UNCHANGED archived
  /\ UNCHANGED <<clock, tok, access, target, stamp>>

\* A statement of the call fails before it took effect.  One that fails
\* after it did is Revoke or Archive with another answer.
AdminFails(a) ==
  /\ "db" \in Faults
  /\ apc[a] \in {"now", "update"}
  /\ apc' = [apc EXCEPT ![a] = "error"]
  /\ UNCHANGED <<clock, archived, tok, access, target, stamp>>

Tick ==
  /\ clock < MaxTime
  /\ clock' = clock + 1
  /\ UNCHANGED <<archived, tok, access, admin>>

Authorize(c) ==
  \/ Arrive(c) \/ ReadRepo(c) \/ ReadToken(c) \/ Check(c) \/ Touch(c)
  \/ AccessFails(c)

Admin(a) ==
  AdminArrive(a) \/ AdminNow(a) \/ Revoke(a) \/ Archive(a) \/ AdminFails(a)

Next ==
  \/ \E c \in Accesses : Authorize(c)
  \/ \E a \in AdminCalls : Admin(a)
  \/ CreateRepoToken
  \/ Tick

Spec == Init /\ [][Next]_vars

-----------------------------------------------------------------------------
(***************************************************************************)
(* Properties.                                                             *)
(***************************************************************************)

\* A request is granted only if, at the moment it arrived, its repository
\* was open and its token was this repository's, unrevoked, unexpired and of
\* a scope that allows the operation.  So a revocation or an archiving that
\* was answered stops every later request, although AuthorizeGitAccess reads
\* repo, token and clock at three different times.  And a request answered 401
\* or 403 is not permitted at that moment either: no interleaving makes a good
\* token look bad.
DecisionIsPermitted ==
  \A c \in Accesses :
    /\ pc[c] = "granted" => allowed[c]
    /\ pc[c] \in {"unauthorized", "forbidden"} => ~Permitted(want[c])

\* The recorded last use of a token lies within the token's life, and every
\* grant left one.
LastUseIsWithinLife ==
  /\ \A t \in Minted : tok[t].lastUsed # None =>
       tok[t].created <= tok[t].lastUsed /\ tok[t].lastUsed < tok[t].expires
  /\ \A c \in Accesses : pc[c] = "granted" => tok[want[c].token].lastUsed # None

\* Once set, revoked_at and archived_at keep their first value, however many
\* revoke and archive calls race.
RevocationIsFinal ==
  [][/\ \A t \in Tokens : (tok[t] # None /\ tok[t].revoked # None)
          => tok'[t] # None /\ tok'[t].revoked = tok[t].revoked
     /\ \A i \in Repos : archived[i] # None => archived'[i] = archived[i]]_vars
=============================================================================
