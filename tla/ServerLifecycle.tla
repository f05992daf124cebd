--------------------------- MODULE ServerLifecycle ---------------------------
(***************************************************************************)
(* The process: main and runServer, from the configuration to the exit     *)
(* code, with the requests of AccessLog running beside them.  The main     *)
(* goroutine, the one that listens and one per request interleave; the     *)
(* timer of the shutdown may fire at any time.  http.Server and pgxpool    *)
(* are external.                                                           *)
(***************************************************************************)
EXTENDS AccessLog, Integers

VARIABLES
  phase,     \* where the main goroutine is
  signalled, \* SIGINT or SIGTERM has come
  listener,  \* the goroutine in ListenAndServe
  serverErr, \* the channel it answers on
  shutting,  \* Shutdown has been called
  failed,    \* the error to be returned is not nil
  db,        \* the stores are in Postgres
  pool,      \* the pool gives out connections
  holds,     \* the requests that have one
  refused,   \* the requests that were refused one
  code       \* the exit code, -1 while it runs

mainvars == <<phase, signalled, listener, serverErr, shutting, failed, db, code>>
poolvars == <<pool, holds, refused>>
vars     == <<logvars, mainvars, poolvars>>

MainTypeOK ==
  /\ phase \in {"config", "sentry", "open", "select", "shutdown", "join", "close", "closing", "exited"}
  /\ signalled \in BOOLEAN
  /\ listener \in {"none", "started", "listening", "closed", "returned"}
  /\ serverErr \in {"empty", "nil", "error"}
  /\ shutting \in BOOLEAN /\ failed \in BOOLEAN
  /\ db \in BOOLEAN /\ pool \in BOOLEAN
  /\ holds \subseteq Requests /\ refused \subseteq Requests
  /\ code \in {-1, 0, 1}

TypeOK == LogTypeOK /\ MainTypeOK

Init ==
  /\ LogInit
  /\ phase = "config" /\ signalled = FALSE
  /\ listener = "none" /\ serverErr = "empty"
  /\ shutting = FALSE /\ failed = FALSE
  /\ db \in BOOLEAN /\ pool = FALSE
  /\ holds = {} /\ refused = {}
  /\ code = -1

Alive   == phase # "exited"
Busy(r) == conn[r] \in {"handler", "deferred"}

-----------------------------------------------------------------------------
(***************************************************************************)
(* Start and signals.                                                      *)
(***************************************************************************)

Signal ==
  /\ Alive
  /\ ~signalled /\ signalled' = TRUE
  /\ UNCHANGED <<logvars, poolvars, phase, listener, serverErr, shutting, failed, db, code>>

\* os.Exit, or the return of main: what still runs is cut off.
ExitWith(c) ==
  /\ phase' = "exited" /\ code' = c
  /\ conn' = [r \in Requests |-> IF Busy(r) \/ conn[r] = "new" THEN "cut" ELSE conn[r]]
  /\ UNCHANGED <<head, status, sent, panicked, logged>>

\* log.Fatal before the server runs.
Fatal(at) ==
  /\ phase = at
  /\ ExitWith(1)
  /\ UNCHANGED <<poolvars, signalled, listener, serverErr, shutting, failed, db>>

\* configFromEnv refuses a setting.
ConfigFails == Fatal("config")

ConfigRead ==
  /\ phase = "config" /\ phase' = "sentry"
  /\ UNCHANGED <<logvars, poolvars, signalled, listener, serverErr, shutting, failed, db, code>>

SentryFails == Fatal("sentry")

SentryStarts ==
  /\ phase = "sentry" /\ phase' = "open"
  /\ UNCHANGED <<logvars, poolvars, signalled, listener, serverErr, shutting, failed, db, code>>

\* The storage root has no absolute path, or NewPostgresServer cannot connect or
\* migrate, or a signal has ended the context it is given; the pool is closed.
OpenFails == Fatal("open")

\* newHTTPServer succeeds, with a pool or without, and runServer starts the
\* goroutine that listens.
StartServer ==
  /\ phase = "open" /\ phase' = "select"
  /\ db => ~signalled
  /\ listener' = "started"
  /\ pool' = db
  /\ UNCHANGED <<logvars, signalled, serverErr, shutting, failed, db, holds, refused, code>>

-----------------------------------------------------------------------------
(***************************************************************************)
(* ListenAndServe.                                                         *)
(***************************************************************************)

Listen ==
  /\ Alive
  /\ listener = "started" /\ ~shutting
  /\ listener' = "listening"
  /\ UNCHANGED <<logvars, poolvars, phase, signalled, serverErr, shutting, failed, db, code>>

Accept(r) ==
  /\ Alive
  /\ listener = "listening"
  /\ conn[r] = "none"
  /\ conn' = [conn EXCEPT ![r] = "new"]
  /\ UNCHANGED <<head, status, sent, panicked, logged, mainvars, poolvars>>

\* Mutant of Reported: no error of ListenAndServe is reported.
ReportedNever(e) == "nil"

\* What is sent on serverErr: ErrServerClosed is no error.
Reported(e) == IF e = "ErrServerClosed" THEN "nil" ELSE "error"

ListenReturns(e) ==
  /\ Alive
  /\ listener' = "returned" /\ serverErr' = Reported(e)
  /\ UNCHANGED <<logvars, poolvars, phase, signalled, shutting, failed, db, code>>

\* The address is taken, or Accept fails for good.
ListenFails == listener \in {"started", "listening"} /\ ListenReturns("failure")

\* Shutdown closed the listener, or was called before there was one.
ListenCloses ==
  /\ listener = "closed" \/ (listener = "started" /\ shutting)
  /\ ListenReturns("ErrServerClosed")

-----------------------------------------------------------------------------
(***************************************************************************)
(* runServer: the select, Shutdown and its timer, closeResources.          *)
(***************************************************************************)

\* Mutant of SelectServerErr: only a signal ends the select.
SelectServerErrNever == FALSE /\ UNCHANGED vars

\* The listener has failed: nobody waits for the handlers.
SelectServerErr ==
  /\ phase = "select" /\ phase' = "close"
  /\ serverErr # "empty" /\ serverErr' = "empty"
  /\ failed' = (serverErr = "error")
  /\ UNCHANGED <<logvars, poolvars, signalled, listener, shutting, db, code>>

\* Mutant of SelectDone: Shutdown is called but not waited for.
SelectDoneNoWait ==
  /\ phase = "select" /\ phase' = "join"
  /\ signalled
  /\ shutting' = TRUE
  /\ listener' = IF listener = "listening" THEN "closed" ELSE listener
  /\ UNCHANGED <<logvars, poolvars, signalled, serverErr, failed, db, code>>

\* Shutdown is called: it closes the listener first.
SelectDone ==
  /\ phase = "select" /\ phase' = "shutdown"
  /\ signalled
  /\ shutting' = TRUE
  /\ listener' = IF listener = "listening" THEN "closed" ELSE listener
  /\ UNCHANGED <<logvars, poolvars, signalled, serverErr, failed, db, code>>

\* A connection that has sent nothing for 5 seconds counts as idle.
DropNew(r) ==
  /\ phase = "shutdown"
  /\ conn[r] = "new"
  /\ conn' = [conn EXCEPT ![r] = "dropped"]
  /\ UNCHANGED <<head, status, sent, panicked, logged, mainvars, poolvars>>

\* Shutdown returns nil: its listener is done and no connection is in use.
ShutdownReturns ==
  /\ phase = "shutdown" /\ phase' = "join"
  /\ listener # "closed"
  /\ \A r \in Requests : ~Busy(r) /\ conn[r] # "new"
  /\ UNCHANGED <<logvars, poolvars, signalled, listener, serverErr, shutting, failed, db, code>>

\* Mutant of ShutdownTimesOut: Shutdown is given no deadline.
ShutdownTimesOutNever == FALSE /\ UNCHANGED vars

\* Its context is done first.
ShutdownTimesOut ==
  /\ phase = "shutdown" /\ phase' = "join"
  /\ listener # "closed"
  /\ failed' = TRUE
  /\ UNCHANGED <<logvars, poolvars, signalled, listener, serverErr, shutting, db, code>>

JoinServerErr ==
  /\ phase = "join" /\ phase' = "close"
  /\ serverErr # "empty" /\ serverErr' = "empty"
  /\ failed' = (failed \/ serverErr = "error")
  /\ UNCHANGED <<logvars, poolvars, signalled, listener, shutting, db, code>>

\* pgxpool.Close refuses connections from now on, and waits for those in use.
CloseResources ==
  /\ phase = "close" /\ phase' = "closing"
  /\ pool' = FALSE
  /\ UNCHANGED <<logvars, signalled, listener, serverErr, shutting, failed, db, code, holds, refused>>

\* log.Fatal if there was an error, else main returns.
Exit ==
  /\ phase = "closing" /\ holds = {}
  /\ ExitWith(IF failed THEN 1 ELSE 0)
  /\ UNCHANGED <<poolvars, signalled, listener, serverErr, shutting, failed, db>>

-----------------------------------------------------------------------------
(***************************************************************************)
(* The requests.                                                           *)
(***************************************************************************)

ServeRequest(r) == Alive /\ Serve(r) /\ UNCHANGED <<mainvars, poolvars>>

Respond(r, s) == Alive /\ WriteHeader(r, s) /\ UNCHANGED <<mainvars, poolvars>>

\* Every route but / and /healthz uses the stores.
UsesPool(r) ==
  Alive /\ db /\ conn[r] = "handler" /\ ~head[r].probe /\ r \notin holds

Acquire(r) ==
  /\ UsesPool(r)
  /\ pool /\ holds' = holds \cup {r}
  /\ UNCHANGED <<logvars, mainvars, pool, refused>>

\* The pool is closed: the handler answers 500.
AcquireFails(r) ==
  /\ UsesPool(r)
  /\ ~pool /\ refused' = refused \cup {r}
  /\ WriteHeader(r, 500)
  /\ UNCHANGED <<mainvars, pool, holds>>

Release(r) ==
  /\ Alive
  /\ r \in holds /\ holds' = holds \ {r}
  /\ UNCHANGED <<logvars, mainvars, pool, refused>>

\* A transaction that is open is rolled back on the way out.
Return(r, p) ==
  /\ Alive
  /\ Leave(r, p)
  /\ holds' = holds \ {r}
  /\ UNCHANGED <<mainvars, pool, refused>>

FinishRequest(r) == Alive /\ Finish(r) /\ UNCHANGED <<mainvars, poolvars>>

-----------------------------------------------------------------------------
Main ==
  \/ ConfigFails \/ ConfigRead \/ SentryFails \/ SentryStarts
  \/ OpenFails \/ StartServer
  \/ SelectServerErr \/ SelectDone \/ ShutdownReturns \/ JoinServerErr
  \/ CloseResources \/ Exit

Listener == Listen \/ ListenFails \/ ListenCloses

Request(r) ==
  \/ ServeRequest(r) \/ Respond(r, 200) \/ Respond(r, 500)
  \/ Acquire(r) \/ AcquireFails(r) \/ Release(r)
  \/ Return(r, FALSE) \/ Return(r, TRUE) \/ FinishRequest(r)

Next ==
  \/ Signal \/ Main \/ Listener \/ ShutdownTimesOut
  \/ \E r \in Requests : Accept(r) \/ DropNew(r) \/ Request(r)

Spec == Init /\ [][Next]_vars

\* The goroutines of the server run, its timer fires, and a request gives its
\* connection back: none waits for a client while it has one.  A request need
\* never end, and a signal need not come.
Fairness ==
  /\ WF_vars(Main) /\ WF_vars(ListenCloses) /\ WF_vars(ShutdownTimesOut)
  /\ \A r \in Requests : WF_vars(Release(r))

FairSpec == Spec /\ Fairness

-----------------------------------------------------------------------------
(***************************************************************************)
(* Properties.                                                             *)
(***************************************************************************)

\* Exit code 0 means that the process was told to stop, that no request was cut
\* off or refused a connection by a pool closed under it, and that every one
\* that was served has its line.
GracefulExitIsComplete ==
  code = 0 =>
    /\ signalled /\ refused = {}
    /\ \A r \in Requests :
         /\ conn[r] \in {"none", "dropped", "finished"}
         /\ conn[r] = "finished" /\ ~skipAccessLog(r) => Len(logged[r]) = 1

\* The first part of X-Forwarded-For that is not blank.
FirstPart(parts, ip) ==
  \E i \in 1..Len(parts) : parts[i] = ip /\ ip # Blank /\ \A j \in 1..(i - 1) : parts[j] = Blank

\* The address a proxy forwards, if there is one.
Forwarded(h) == {ip \in Addrs : FirstPart(h.forwarded, ip)}

\* One line at most is written about a request, only when it is over.  Its
\* status is the one the client was sent, and 500 for a handler that panicked
\* before it sent one.  The headers count if and only if the peer is a trusted
\* proxy: then the address is the first one in X-Forwarded-For, or that of
\* X-Real-IP if the first part there is no address, never a part behind it; from
\* any other peer it is the peer's.  The scheme is the one a trusted proxy
\* forwards, or else the one in the request line, which is the client's word.
LogIsTrue ==
  \A r \in Requests : \A i \in 1..Len(logged[r]) :
    LET h       == head[r]
        line    == logged[r][i]
        trusted == h.peer \in Trusted
    IN /\ i = 1 /\ ~skipAccessLog(r) /\ conn[r] = "finished"
       /\ line.status = IF panicked[r] /\ sent[r] = 0 THEN 500 ELSE sent[r]
       /\ line.ip \in IF ~trusted THEN {h.peer}
                     ELSE IF Forwarded(h) # {} THEN Forwarded(h)
                     ELSE IF h.real \in Addrs THEN {h.real} ELSE {h.peer}
       /\ line.scheme = IF trusted /\ h.proto # "other" THEN h.proto
                       ELSE IF h.scheme = "none" THEN "http" ELSE h.scheme

\* The process ends once it is told to, whatever its clients do, and does not go
\* on without a listener.
ProcessEnds == signalled \/ listener = "returned" ~> phase = "exited"
=============================================================================
