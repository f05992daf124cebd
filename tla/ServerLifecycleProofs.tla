------------------------ MODULE ServerLifecycleProofs ------------------------
(***************************************************************************)
(* Proofs about ServerLifecycle, for any number of requests, any headers   *)
(* and any trusted proxies.                                                *)
(***************************************************************************)
EXTENDS ServerLifecycle, WellFoundedInduction, TLAPS

-----------------------------------------------------------------------------
(***************************************************************************)
(* The inductive invariant.                                                *)
(***************************************************************************)

Starting == phase \in {"config", "sentry", "open"}
Stopping == phase \in {"join", "close", "closing"}

\* What the main goroutine knows where it is.  Without an error so far the
\* process only stops after Shutdown was called, and only then is the answer of
\* the listener nil.
MainFits ==
  /\ Starting => listener = "none" /\ serverErr = "empty" /\ ~failed /\ ~shutting
  /\ phase = "select" => ~failed /\ ~shutting
  /\ phase = "shutdown" => shutting
  /\ Stopping /\ ~failed => shutting
  /\ shutting => signalled /\ listener # "listening"
  /\ serverErr = "nil" \/ listener = "closed" => shutting
  /\ phase \in {"select", "shutdown", "join", "close"} => pool = db
  /\ phase # "exited" => code = -1
  /\ code = 0 => ~failed /\ signalled

\* No request is in use before there is a listener nor, without an error, once
\* Shutdown has returned.
Drained(r) ==
  /\ Starting => conn[r] = "none"
  /\ Stopping /\ ~failed => ~Busy(r) /\ conn[r] # "new"
  /\ conn[r] = "cut" => code = 1
  /\ code = 0 => conn[r] \in {"none", "dropped", "finished"}
  /\ r \in refused => failed

\* The line in hand would be true.
LineFits(r) ==
  /\ logged[r][1].status = IF panicked[r] /\ sent[r] = 0 THEN 500 ELSE sent[r]
  /\ logged[r][1].ip = requestRemoteIP(head[r])
  /\ logged[r][1].scheme = requestScheme(head[r])

\* The recorder has what net/http was given until the handler has returned, and
\* the line is written when the request is finished.
LogFits(r) ==
  /\ conn[r] \in {"none", "new", "handler", "deferred"} => status[r] = sent[r]
  /\ conn[r] # "finished" \/ skipAccessLog(r) => logged[r] = <<>>
  /\ conn[r] = "finished" /\ ~skipAccessLog(r) => Len(logged[r]) = 1 /\ LineFits(r)

Inv ==
  /\ TypeOK
  /\ MainFits
  /\ \A r \in Requests : Drained(r)
  /\ \A r \in Requests : LogFits(r)

-----------------------------------------------------------------------------
(***************************************************************************)
(* The client address.                                                     *)
(***************************************************************************)

\* A set of numbers that is not empty has a least one.
LEMMA LeastExists ==
  ASSUME NEW S \in SUBSET Nat, S # {}
  PROVE  \E i \in S : \A j \in S : i <= j
<1> DEFINE R == OpToRel(<, Nat)
<1>1. PICK i \in S : \A j \in S : <<j, i>> \notin R
  <2> HIDE DEF R
  <2>1. IsWellFoundedOn(R, Nat)
    BY NatLessThanWellFounded DEF R
  <2>2. QED
    BY <2>1, WFMin
<1>2. \A j \in S : ~(j < i)
  BY <1>1 DEF OpToRel
<1>3. QED
  BY <1>2

\* A part of X-Forwarded-For that is taken is the first one that is not blank,
\* and if none is taken that one is no address.
LEMMA FirstIsFirst ==
  ASSUME NEW parts \in Seq(Values)
  PROVE  LET v == firstForwardedAddr(parts) IN
         /\ v \in Values
         /\ v # Blank => isAddr(v) /\ FirstPart(parts, v)
         /\ v = Blank => \/ FirstPart(parts, Junk)
                      \/ \A j \in 1..Len(parts) : parts[j] = Blank
<1> DEFINE full == {i \in 1..Len(parts) : parts[i] # Blank}
           m == CHOOSE i \in full : \A j \in full : i <= j
<1>0. firstForwardedAddr(parts) = IF full # {} /\ isAddr(parts[m]) THEN parts[m] ELSE Blank
  BY DEF firstForwardedAddr
<1>1. CASE full = {}
  <2>1. firstForwardedAddr(parts) = Blank
    BY <1>0, <1>1
  <2>2. \A j \in 1..Len(parts) : parts[j] = Blank
    BY <1>1
  <2>3. QED
    BY <2>1, <2>2 DEF Values
<1>2. CASE full # {}
  <2>1. \E i \in full : \A j \in full : i <= j
    <3>1. full \in SUBSET Nat
      OBVIOUS
    <3>2. QED
      BY <1>2, <3>1, LeastExists
  <2>2. m \in full /\ \A j \in full : m <= j
    BY <2>1
  <2>3. FirstPart(parts, parts[m])
    <3>1. m \in 1..Len(parts) /\ parts[m] # Blank
      BY <2>2
    <3>2. \A j \in 1..(m - 1) : j \in 1..Len(parts) /\ ~(m <= j)
      BY <3>1
    <3>3. \A j \in 1..(m - 1) : parts[j] = Blank
      BY <2>2, <3>2
    <3> HIDE DEF m
    <3>4. QED
      BY <3>1, <3>3 DEF FirstPart
  <2>4. parts[m] \in Values /\ parts[m] # Blank
    BY <2>2
  <2> HIDE DEF m, full
  <2>5. CASE isAddr(parts[m])
    BY <1>0, <1>2, <2>3, <2>4, <2>5
  <2>6. CASE ~isAddr(parts[m])
    <3>1. parts[m] = Junk
      BY <2>4, <2>6 DEF isAddr
    <3>2. firstForwardedAddr(parts) = Blank
      BY <1>0, <2>6
    <3>3. FirstPart(parts, Junk)
      BY <2>3, <3>1
    <3>4. QED
      BY <3>2, <3>3 DEF Values
  <2>7. QED
    BY <2>5, <2>6
<1>3. QED
  BY <1>1, <1>2

\* There is one first part at most.
LEMMA FirstIsUnique ==
  ASSUME NEW parts \in Seq(Values), NEW v, NEW w, FirstPart(parts, v), FirstPart(parts, w)
  PROVE  v = w
<1>1. PICK i \in 1..Len(parts) :
        parts[i] = v /\ v # Blank /\ \A k \in 1..(i - 1) : parts[k] = Blank
  BY DEF FirstPart
<1>2. PICK j \in 1..Len(parts) :
        parts[j] = w /\ w # Blank /\ \A k \in 1..(j - 1) : parts[k] = Blank
  BY DEF FirstPart
<1>3. ~(i < j)
  BY <1>1, <1>2
<1>4. ~(j < i)
  BY <1>1, <1>2
<1>5. QED
  BY <1>1, <1>2, <1>3, <1>4

\* What firstForwardedAddr takes is the address that is forwarded.
LEMMA ForwardedIsTaken ==
  ASSUME NEW h \in HeadType
  PROVE  LET v == firstForwardedAddr(h.forwarded) IN
         Forwarded(h) = IF v = Blank THEN {} ELSE {v}
<1> DEFINE f == firstForwardedAddr(h.forwarded)
<1>1. h.forwarded \in Seq(Values)
  BY DEF HeadType
<1>2. /\ f \in Values
      /\ f # Blank => isAddr(f) /\ FirstPart(h.forwarded, f)
      /\ f = Blank => \/ FirstPart(h.forwarded, Junk)
                    \/ \A j \in 1..Len(h.forwarded) : h.forwarded[j] = Blank
  BY <1>1, FirstIsFirst
<1> HIDE DEF f
<1>3. CASE f # Blank
  <2>1. f \in Addrs
    BY <1>2, <1>3 DEF isAddr, Values
  <2>2. \A v \in Addrs : FirstPart(h.forwarded, v) <=> v = f
    BY <1>1, <1>2, <1>3, FirstIsUnique
  <2>3. Forwarded(h) = {f}
    BY <2>1, <2>2 DEF Forwarded
  <2>4. QED
    BY <1>3, <2>3 DEF f
<1>4. CASE f = Blank
  <2>1. \A v \in Addrs : ~FirstPart(h.forwarded, v)
    <3>1. CASE FirstPart(h.forwarded, Junk)
      BY <1>1, <3>1, FirstIsUnique, AccessLogAssumption
    <3>2. CASE \A j \in 1..Len(h.forwarded) : h.forwarded[j] = Blank
      BY <3>2 DEF FirstPart
    <3>3. QED
      BY <1>2, <1>4, <3>1, <3>2
  <2>2. Forwarded(h) = {}
    BY <2>1 DEF Forwarded
  <2>3. QED
    BY <1>4, <2>2 DEF f
<1>5. QED
  BY <1>3, <1>4

\* The address and the scheme that are logged: a trusted proxy's headers if there
\* are any, and from any other peer none.
LEMMA OriginIsTrusted ==
  ASSUME NEW h \in HeadType
  PROVE  LET ip == requestRemoteIP(h)  sch == requestScheme(h)  trusted == h.peer \in Trusted IN
         /\ ip \in Addrs /\ sch \in Schemes \cup {"other"}
         /\ ip \in IF ~trusted THEN {h.peer}
                  ELSE IF Forwarded(h) # {} THEN Forwarded(h)
                  ELSE IF h.real \in Addrs THEN {h.real} ELSE {h.peer}
         /\ sch = IF trusted /\ h.proto # "other" THEN h.proto
                  ELSE IF h.scheme = "none" THEN "http" ELSE h.scheme
<1>1. /\ h.peer \in Addrs /\ h.forwarded \in Seq(Values) /\ h.real \in Values
      /\ h.proto \in Schemes \cup {"other"} /\ h.scheme \in Schemes \cup {"other", "none"}
  BY DEF HeadType
<1>2. /\ requestScheme(h) \in Schemes \cup {"other"}
      /\ requestScheme(h) = IF h.peer \in Trusted /\ h.proto # "other" THEN h.proto
                            ELSE IF h.scheme = "none" THEN "http" ELSE h.scheme
  BY <1>1 DEF requestScheme, isTrustedProxy, Schemes
<1> DEFINE f == firstForwardedAddr(h.forwarded)
<1>3. f \in Values /\ f # Junk
  BY <1>1, FirstIsFirst, AccessLogAssumption DEF isAddr
<1>4. Forwarded(h) = IF f = Blank THEN {} ELSE {f}
  BY ForwardedIsTaken
<1>5. isAddr(h.real) <=> h.real \in Addrs
  BY <1>1, AccessLogAssumption DEF isAddr, Values
<1>6. requestRemoteIP(h) =
        IF h.peer \in Trusted
        THEN IF f # Blank THEN f ELSE IF h.real \in Addrs THEN h.real ELSE h.peer
        ELSE h.peer
  BY <1>5 DEF requestRemoteIP, isTrustedProxy
<1> HIDE DEF f
<1>7. QED
  BY <1>1, <1>2, <1>3, <1>4, <1>6 DEF Values

-----------------------------------------------------------------------------
(***************************************************************************)
(* Init and Next, conjunct by conjunct.                                    *)
(***************************************************************************)

\* A request's step is one of these.
LEMMA RequestSteps ==
  ASSUME NEW r \in Requests, Request(r)
  PROVE  \/ ServeRequest(r)
         \/ \E s \in {200, 500} : Respond(r, s)
         \/ Acquire(r) \/ AcquireFails(r) \/ Release(r)
         \/ \E p \in BOOLEAN : Return(r, p)
         \/ FinishRequest(r)
BY DEF Request

\* The requests leave the main goroutine alone, which leaves the lines alone.
LEMMA RequestKeepsMain ==
  ASSUME NEW r \in Requests, Request(r) \/ Accept(r) \/ DropNew(r)
  PROVE  /\ UNCHANGED mainvars /\ pool' = pool
BY DEF Request, ServeRequest, Respond, Acquire, AcquireFails, Release, Return,
       FinishRequest, Accept, DropNew, poolvars

LEMMA MainKeepsLog ==
  ASSUME Signal \/ Main \/ Listener \/ ShutdownTimesOut
  PROVE  UNCHANGED <<head, status, sent, panicked, logged, refused>>
BY DEF Signal, Main, Listener, ShutdownTimesOut, ConfigFails, ConfigRead, SentryFails,
       SentryStarts, OpenFails, StartServer, SelectServerErr, SelectDone, ShutdownReturns,
       JoinServerErr, CloseResources, Exit, Listen, ListenFails, ListenCloses,
       ListenReturns, Fatal, ExitWith, logvars, poolvars

\* It ends requests only by ending the process.
LEMMA MainKeepsConn ==
  ASSUME Signal \/ Main \/ Listener \/ ShutdownTimesOut
  PROVE  \/ UNCHANGED conn
         \/ conn' = [r \in Requests |-> IF Busy(r) \/ conn[r] = "new" THEN "cut" ELSE conn[r]]
BY DEF Signal, Main, Listener, ShutdownTimesOut, ConfigFails, ConfigRead, SentryFails,
       SentryStarts, OpenFails, StartServer, SelectServerErr, SelectDone, ShutdownReturns,
       JoinServerErr, CloseResources, Exit, Listen, ListenFails, ListenCloses,
       ListenReturns, Fatal, ExitWith, logvars, poolvars

LEMMA InitInv == Init => Inv
<1> SUFFICES ASSUME Init PROVE Inv
  OBVIOUS
<1>1. LogTypeOK
  BY DEF Init, LogInit, LogTypeOK, Stages
<1>2. MainTypeOK
  BY DEF Init, MainTypeOK
<1>2a. MainFits
  BY DEF Init, MainFits, Starting, Stopping
<1>3. \A r \in Requests : Drained(r)
  BY DEF Init, LogInit, Drained, Starting, Stopping, Busy
<1>4. \A r \in Requests : LogFits(r)
  BY DEF Init, LogInit, LogFits
<1>5. QED
  BY <1>1, <1>2, <1>2a, <1>3, <1>4 DEF Inv, TypeOK

LEMMA MainTypeStep == Inv /\ [Next]_vars => MainTypeOK'
<1> SUFFICES ASSUME Inv, [Next]_vars PROVE MainTypeOK'
  OBVIOUS
<1>0. MainTypeOK
  BY DEF Inv, TypeOK
<1> USE <1>0 DEF MainTypeOK
<1>1. CASE Signal
  BY <1>1 DEF Signal, poolvars
<1>2. CASE ConfigRead
  BY <1>2 DEF ConfigRead, poolvars
<1>3. CASE SentryStarts
  BY <1>3 DEF SentryStarts, poolvars
<1>4. CASE StartServer
  BY <1>4 DEF StartServer, poolvars
<1>5. CASE SelectServerErr
  BY <1>5 DEF SelectServerErr, poolvars
<1>6. CASE SelectDone
  BY <1>6 DEF SelectDone, poolvars
<1>7. CASE ShutdownReturns
  BY <1>7 DEF ShutdownReturns, poolvars
<1>8. CASE ShutdownTimesOut
  BY <1>8 DEF ShutdownTimesOut, poolvars
<1>9. CASE JoinServerErr
  BY <1>9 DEF JoinServerErr, poolvars
<1>10. CASE CloseResources
  BY <1>10 DEF CloseResources, poolvars
<1>11. CASE Listen
  BY <1>11 DEF Listen, poolvars
<1>12. CASE ListenFails
  BY <1>12 DEF ListenFails, ListenReturns, Reported, poolvars
<1>13. CASE ListenCloses
  BY <1>13 DEF ListenCloses, ListenReturns, Reported, poolvars
<1>14. CASE ConfigFails
  BY <1>14 DEF ConfigFails, Fatal, ExitWith, poolvars
<1>15. CASE SentryFails
  BY <1>15 DEF SentryFails, Fatal, ExitWith, poolvars
<1>16. CASE OpenFails
  BY <1>16 DEF OpenFails, Fatal, ExitWith, poolvars
<1>17. CASE Exit
  BY <1>17 DEF Exit, ExitWith, poolvars
<1>18. ASSUME NEW r \in Requests, Accept(r) \/ DropNew(r) \/ Request(r)
      PROVE  MainTypeOK'
  <2>1. UNCHANGED mainvars /\ pool' = pool
    BY <1>18, RequestKeepsMain
  <2>2. holds' \subseteq Requests /\ refused' \subseteq Requests
    BY <1>18 DEF Request, ServeRequest, Respond, Acquire, AcquireFails, Release, Return,
         FinishRequest, Accept, DropNew, poolvars
  <2>3. QED
    BY <2>1, <2>2 DEF mainvars
<1>19. CASE UNCHANGED vars
  BY <1>19 DEF vars, mainvars, poolvars
<1>20. QED
  BY <1>1, <1>2, <1>3, <1>4, <1>5, <1>6, <1>7, <1>8, <1>9, <1>10, <1>11,
     <1>12, <1>13, <1>14, <1>15, <1>16, <1>17, <1>18, <1>19
     DEF Next, Main, Listener

LEMMA LogTypeStep == Inv /\ [Next]_vars => LogTypeOK'
<1> SUFFICES ASSUME Inv, [Next]_vars PROVE LogTypeOK'
  OBVIOUS
<1>0. LogTypeOK
  BY DEF Inv, TypeOK
<1> DEFINE Line == [status : {200, 500}, ip : Addrs, scheme : Schemes \cup {"other"}]
<1>1. logged \in [Requests -> Seq(Line)]
  BY <1>0 DEF LogTypeOK
<1>2. SUFFICES /\ conn' \in [Requests -> Stages]
               /\ head' \in [Requests -> Heads]
               /\ status' \in [Requests -> {0, 200, 500}]
               /\ sent' \in [Requests -> {0, 200, 500}]
               /\ panicked' \in [Requests -> BOOLEAN]
               /\ logged' \in [Requests -> Seq(Line)]
  BY DEF LogTypeOK
<1> HIDE DEF Line
<1>3. CASE Signal \/ Main \/ Listener \/ ShutdownTimesOut
  <2>1. conn' \in [Requests -> Stages]
    BY <1>0, <1>3, MainKeepsConn DEF LogTypeOK, Stages
  <2>2. QED
    BY <1>0, <1>1, <1>3, <2>1, MainKeepsLog DEF LogTypeOK
<1>4. ASSUME NEW r \in Requests, Accept(r) \/ DropNew(r) \/ Request(r)
      PROVE  <1>2!1
  <2>1. CASE Accept(r) \/ DropNew(r) \/ ServeRequest(r)
    <3>1. /\ \E c \in Stages : conn' = [conn EXCEPT ![r] = c]
          /\ UNCHANGED <<head, status, sent, panicked, logged>>
      BY <2>1 DEF Stages, Accept, DropNew, ServeRequest, Serve
    <3>2. QED
      BY <1>0, <1>1, <3>1 DEF LogTypeOK
  <2>2. ASSUME NEW s \in {200, 500}, WriteHeader(r, s)
        PROVE  <1>2!1
    BY <1>0, <1>1, <2>2 DEF LogTypeOK, WriteHeader, Recorded
  <2>3. CASE Acquire(r) \/ Release(r)
    BY <1>0, <1>1, <2>3 DEF LogTypeOK, Acquire, Release, logvars
  <2>4. ASSUME NEW p \in BOOLEAN, Return(r, p)
        PROVE  <1>2!1
    BY <1>0, <1>1, <2>4 DEF LogTypeOK, Stages, Return, Leave
  <2>5. CASE FinishRequest(r)
    <3>1. head[r] \in HeadType
      BY <1>0, AccessLogAssumption DEF LogTypeOK
    <3>2. requestRemoteIP(head[r]) \in Addrs /\ requestScheme(head[r]) \in Schemes \cup {"other"}
      BY <3>1, OriginIsTrusted
    <3>3. FinalStatus(r) \in {200, 500}
      BY <1>0 DEF LogTypeOK, FinalStatus
    <3> DEFINE line == [status |-> FinalStatus(r), ip |-> requestRemoteIP(head[r]),
                        scheme |-> requestScheme(head[r])]
    <3>4. line \in Line
      BY <3>2, <3>3 DEF Line
    <3>5. logged' = logged \/ logged' = [logged EXCEPT ![r] = Append(@, line)]
      BY <2>5 DEF FinishRequest, Finish
    <3>6. logged' \in [Requests -> Seq(Line)]
      <4> HIDE DEF line
      <4>1. Append(logged[r], line) \in Seq(Line)
        BY <1>1, <3>4
      <4>2. QED
        BY <1>1, <3>5, <4>1
    <3>7. /\ conn' \in [Requests -> Stages]
          /\ sent' \in [Requests -> {0, 200, 500}]
          /\ UNCHANGED <<head, status, panicked>>
      BY <1>0, <2>5 DEF LogTypeOK, Stages, FinishRequest, Finish
    <3>8. QED
      BY <1>0, <3>6, <3>7 DEF LogTypeOK
  <2>6. QED
    BY <1>4, <2>1, <2>2, <2>3, <2>4, <2>5, RequestSteps DEF Respond, AcquireFails
<1>5. CASE UNCHANGED vars
  BY <1>0, <1>1, <1>5 DEF LogTypeOK, vars, logvars
<1>6. QED
  BY <1>3, <1>4, <1>5 DEF Next

LEMMA MainStep == Inv /\ [Next]_vars => MainFits'
<1> SUFFICES ASSUME Inv, [Next]_vars PROVE MainFits'
  OBVIOUS
<1>0. MainTypeOK /\ MainFits
  BY DEF Inv, TypeOK
<1> USE <1>0 DEF MainFits, Starting, Stopping, MainTypeOK
<1>1. CASE Signal
  BY <1>1 DEF Signal, poolvars
<1>2. CASE ConfigRead
  BY <1>2 DEF ConfigRead, poolvars
<1>3. CASE SentryStarts
  BY <1>3 DEF SentryStarts, poolvars
<1>4. CASE StartServer
  BY <1>4 DEF StartServer, poolvars
<1>5. CASE SelectServerErr
  <2>1. serverErr = "error"
    BY <1>5 DEF SelectServerErr
  <2>2. failed'
    BY <1>5, <2>1 DEF SelectServerErr
  <2>3. QED
    BY <1>5, <2>2 DEF SelectServerErr, poolvars
<1>6. CASE SelectDone
  BY <1>6 DEF SelectDone, poolvars
<1>7. CASE ShutdownReturns
  BY <1>7 DEF ShutdownReturns, poolvars
<1>8. CASE ShutdownTimesOut
  BY <1>8 DEF ShutdownTimesOut, poolvars
<1>9. CASE JoinServerErr
  BY <1>9 DEF JoinServerErr, poolvars
<1>10. CASE CloseResources
  BY <1>10 DEF CloseResources, poolvars
<1>11. CASE Listen
  BY <1>11 DEF Listen, poolvars
<1>12. CASE ListenFails
  BY <1>12 DEF ListenFails, ListenReturns, Reported, poolvars
<1>13. CASE ListenCloses
  BY <1>13 DEF ListenCloses, ListenReturns, Reported, poolvars
<1>14. CASE ConfigFails
  BY <1>14 DEF ConfigFails, Fatal, ExitWith, poolvars
<1>15. CASE SentryFails
  BY <1>15 DEF SentryFails, Fatal, ExitWith, poolvars
<1>16. CASE OpenFails
  BY <1>16 DEF OpenFails, Fatal, ExitWith, poolvars
<1>17. CASE Exit
  BY <1>17 DEF Exit, ExitWith, poolvars
<1>18. ASSUME NEW r \in Requests, Accept(r) \/ DropNew(r) \/ Request(r)
      PROVE  MainFits'
  BY <1>18, RequestKeepsMain DEF mainvars
<1>19. CASE UNCHANGED vars
  BY <1>19 DEF vars, mainvars, poolvars
<1>20. QED
  BY <1>1, <1>2, <1>3, <1>4, <1>5, <1>6, <1>7, <1>8, <1>9, <1>10, <1>11,
     <1>12, <1>13, <1>14, <1>15, <1>16, <1>17, <1>18, <1>19
     DEF Next, Main, Listener

\* A request that is refused a connection meets a pool that is closed, and
\* without an error there is none while a request is in its handler.
LEMMA RefusedIfFailed ==
  ASSUME Inv, NEW r \in Requests, AcquireFails(r)
  PROVE  failed
<1>1. /\ phase # "exited" /\ db /\ ~pool
      /\ conn[r] = "handler"
  BY DEF AcquireFails, UsesPool, Alive
<1>2. MainTypeOK /\ MainFits /\ Drained(r)
  BY DEF Inv, TypeOK
<1>3. phase = "closing"
  BY <1>1, <1>2 DEF MainTypeOK, MainFits, Drained, Starting
<1>4. QED
  BY <1>1, <1>2, <1>3 DEF Drained, Stopping, Busy

LEMMA DrainStep == Inv /\ [Next]_vars => \A r \in Requests : Drained(r)'
<1> SUFFICES ASSUME Inv, [Next]_vars, NEW q \in Requests PROVE Drained(q)'
  OBVIOUS
<1>0. MainTypeOK /\ MainFits /\ Drained(q) /\ conn \in [Requests -> Stages]
  BY DEF Inv, TypeOK, LogTypeOK
<1> USE <1>0 DEF MainTypeOK, Starting, Stopping, Drained, Busy
<1>1. CASE Signal \/ ConfigRead \/ SentryStarts \/ StartServer
  BY <1>1 DEF Signal, ConfigRead, SentryStarts, StartServer, logvars, poolvars
<1>2. CASE SelectServerErr
  <2>1. serverErr = "error"
    BY <1>2 DEF SelectServerErr, MainFits
  <2>2. failed' /\ phase' = "close" /\ code' = code /\ conn' = conn
    BY <1>2, <2>1 DEF SelectServerErr, logvars
  <2>3. code = -1
    BY <1>2 DEF SelectServerErr, MainFits
  <2>4. QED
    BY <2>2, <2>3
<1>3. CASE SelectDone
  BY <1>3 DEF SelectDone, logvars, poolvars
<1>4. CASE ShutdownReturns
  BY <1>4 DEF ShutdownReturns, logvars, poolvars
<1>5. CASE ShutdownTimesOut
  BY <1>5 DEF ShutdownTimesOut, MainFits, logvars, poolvars
<1>6. CASE JoinServerErr
  BY <1>6 DEF JoinServerErr, logvars, poolvars
<1>7. CASE CloseResources
  BY <1>7 DEF CloseResources, logvars, poolvars
<1>8. CASE Listen \/ ListenFails \/ ListenCloses
  BY <1>8 DEF Listen, ListenFails, ListenCloses, ListenReturns, logvars, poolvars
<1>9. CASE ConfigFails \/ SentryFails \/ OpenFails
  BY <1>9 DEF ConfigFails, SentryFails, OpenFails, Fatal, ExitWith, poolvars
<1>10. CASE Exit
  <2>1. /\ phase = "closing" /\ phase' = "exited" /\ UNCHANGED <<failed, refused>>
        /\ code' = IF failed THEN 1 ELSE 0
        /\ conn'[q] = IF Busy(q) \/ conn[q] = "new" THEN "cut" ELSE conn[q]
    BY <1>10 DEF Exit, ExitWith, poolvars
  <2>2. ~failed => conn[q] \in {"none", "dropped", "finished", "cut"}
    BY <2>1 DEF Stages
  <2>3. conn[q] # "cut"
    BY <2>1 DEF MainFits
  <2>4. QED
    BY <2>1, <2>2, <2>3
<1>11. ASSUME NEW r \in Requests, Accept(r) \/ DropNew(r) \/ Request(r)
       PROVE  Drained(q)'
  <2>0. Drained(r) /\ UNCHANGED <<phase, failed, code, db>>
    BY <1>11, RequestKeepsMain DEF Inv, mainvars
  <2>1. CASE Accept(r)
    BY <2>0, <2>1 DEF Accept, Alive, MainFits, poolvars
  <2>2. CASE DropNew(r)
    BY <2>0, <2>2 DEF DropNew, MainFits, poolvars
  <2>3. CASE ServeRequest(r)
    BY <2>0, <2>3 DEF MainFits, ServeRequest, Alive, Serve, poolvars
  <2>4. ASSUME NEW s \in {200, 500}, Respond(r, s)
        PROVE  Drained(q)'
    BY <2>0, <2>4 DEF Respond, WriteHeader, poolvars
  <2>5. CASE Acquire(r) \/ Release(r)
    BY <2>0, <2>5 DEF Acquire, Release, logvars
  <2>6. CASE AcquireFails(r)
    <3>1. failed
      BY <2>6, RefusedIfFailed
    <3>2. QED
      BY <2>0, <2>6, <3>1 DEF AcquireFails, WriteHeader
  <2>7. ASSUME NEW p \in BOOLEAN, Return(r, p)
        PROVE  Drained(q)'
    BY <2>0, <2>7 DEF MainFits, Return, Alive, Leave
  <2>8. CASE FinishRequest(r)
    BY <2>0, <2>8 DEF MainFits, FinishRequest, Alive, Finish, poolvars
  <2>9. QED
    BY <1>11, <2>1, <2>2, <2>3, <2>4, <2>5, <2>6, <2>7, <2>8, RequestSteps
<1>12. CASE UNCHANGED vars
  BY <1>12 DEF vars, logvars, mainvars, poolvars
<1>13. QED
  BY <1>1, <1>2, <1>3, <1>4, <1>5, <1>6, <1>7, <1>8, <1>9, <1>10, <1>11, <1>12
     DEF Next, Main, Listener

\* The steps of other requests leave a request and its line alone.
LEMMA OthersKeepLog ==
  ASSUME Inv, NEW r \in Requests, Accept(r) \/ DropNew(r) \/ Request(r),
         NEW q \in Requests, q # r, LogFits(q)
  PROVE  LogFits(q)'
<1>1. /\ conn'[q] = conn[q] /\ head' = head /\ status'[q] = status[q] /\ sent'[q] = sent[q]
      /\ panicked'[q] = panicked[q] /\ logged'[q] = logged[q]
  BY DEF Inv, TypeOK, LogTypeOK, Accept, DropNew, Request, ServeRequest, Serve, Respond,
       WriteHeader, Acquire, AcquireFails, Release, Return, Leave, FinishRequest, Finish,
       logvars
<1>2. /\ requestRemoteIP(head[q])' = requestRemoteIP(head[q])
      /\ requestScheme(head[q])' = requestScheme(head[q])
      /\ skipAccessLog(q)' = skipAccessLog(q)
  BY <1>1 DEF skipAccessLog
<1>3. QED
  BY <1>1, <1>2 DEF LogFits, LineFits

LEMMA LogStep == Inv /\ [Next]_vars => \A r \in Requests : LogFits(r)'
<1> SUFFICES ASSUME Inv, [Next]_vars, NEW q \in Requests PROVE LogFits(q)'
  OBVIOUS
<1>0. LogTypeOK /\ LogFits(q)
  BY DEF Inv, TypeOK
<1>1. CASE Signal \/ Main \/ Listener \/ ShutdownTimesOut
  <2>1. UNCHANGED <<head, status, sent, panicked, logged>>
    BY <1>1, MainKeepsLog
  <2>2. conn'[q] = conn[q] \/ (conn'[q] = "cut" /\ conn[q] # "finished")
    <3>1. CASE UNCHANGED conn
      BY <3>1
    <3>2. CASE conn' = [r \in Requests |->
                          IF Busy(r) \/ conn[r] = "new" THEN "cut" ELSE conn[r]]
      BY <3>2 DEF Busy
    <3>3. QED
      BY <1>1, <3>1, <3>2, MainKeepsConn
  <2>3. QED
    BY <1>0, <2>1, <2>2 DEF LogFits, LineFits, skipAccessLog
<1>2. ASSUME NEW r \in Requests, Accept(r) \/ DropNew(r) \/ Request(r), q # r
      PROVE  LogFits(q)'
  BY <1>0, <1>2, OthersKeepLog
<1>3. CASE Accept(q) \/ DropNew(q) \/ ServeRequest(q)
  BY <1>0, <1>3 DEF LogTypeOK, LogFits, skipAccessLog, Accept, DropNew, ServeRequest, Serve
<1>4. ASSUME NEW s \in {200, 500}, WriteHeader(q, s)
      PROVE  LogFits(q)'
  BY <1>0, <1>4 DEF LogTypeOK, LogFits, skipAccessLog, WriteHeader, Recorded
<1>5. CASE Acquire(q) \/ Release(q)
  BY <1>0, <1>5 DEF LogFits, LineFits, skipAccessLog, Acquire, Release, logvars
<1>6. ASSUME NEW p \in BOOLEAN, Return(q, p)
      PROVE  LogFits(q)'
  BY <1>0, <1>6 DEF LogTypeOK, LogFits, skipAccessLog, Return, Leave
<1>7. CASE FinishRequest(q)
  <2> DEFINE line == [status |-> FinalStatus(q), ip |-> requestRemoteIP(head[q]),
                      scheme |-> requestScheme(head[q])]
  <2>1. /\ conn[q] = "deferred" /\ conn'[q] = "finished"
        /\ UNCHANGED <<head, status, panicked>>
        /\ sent'[q] = IF sent[q] = 0 /\ ~panicked[q] THEN 200 ELSE sent[q]
        /\ skipAccessLog(q)' = skipAccessLog(q)
    BY <1>0, <1>7 DEF LogTypeOK, FinishRequest, Finish, skipAccessLog
  <2>2. status[q] = sent[q] /\ logged[q] = <<>>
    BY <1>0, <2>1 DEF LogFits
  <2>3. CASE skipAccessLog(q)
    <3>1. logged' = logged
      BY <1>7, <2>3 DEF FinishRequest, Finish
    <3>2. QED
      BY <2>1, <2>2, <2>3, <3>1 DEF LogFits
  <2>4. CASE ~skipAccessLog(q)
    <3>1. logged' = [logged EXCEPT ![q] = Append(@, line)]
      BY <1>7, <2>4 DEF FinishRequest, Finish
    <3>2. logged'[q] = Append(<<>>, line)
      BY <1>0, <2>2, <3>1 DEF LogTypeOK
    <3>3. Len(logged'[q]) = 1 /\ logged'[q][1] = line
      <4> HIDE DEF line
      <4>1. QED
        BY <3>2
    <3>4. FinalStatus(q) = IF panicked'[q] /\ sent'[q] = 0 THEN 500 ELSE sent'[q]
      BY <1>0, <2>1, <2>2 DEF LogTypeOK, FinalStatus
    <3>5. LineFits(q)'
      BY <2>1, <3>3, <3>4 DEF LineFits
    <3>6. QED
      BY <2>1, <2>4, <3>3, <3>5 DEF LogFits
  <2>5. QED
    BY <2>3, <2>4
<1>8. CASE UNCHANGED vars
  BY <1>0, <1>8 DEF LogFits, LineFits, skipAccessLog, vars, logvars
<1>9. QED
  BY <1>1, <1>2, <1>3, <1>4, <1>5, <1>6, <1>7, <1>8, RequestSteps
     DEF Next, Respond, AcquireFails

LEMMA InvHolds == Spec => []Inv
<1>1. Inv /\ [Next]_vars => Inv'
  BY MainTypeStep, LogTypeStep, MainStep, DrainStep, LogStep DEF Inv, TypeOK
<1>2. QED
  BY <1>1, InitInv, PTL DEF Spec

-----------------------------------------------------------------------------
(***************************************************************************)
(* The theorems.                                                           *)
(***************************************************************************)

\* The states of main, of the pool and of every request keep their types; every
\* line has a status and an address.
THEOREM TypeCorrect == Spec => []TypeOK
<1>1. Inv => TypeOK
  BY DEF Inv
<1>2. QED
  BY <1>1, InvHolds, PTL

\* When main returns and exits with 0, Shutdown has waited for every request,
\* the pool was closed behind all of them, and every line is written.
THEOREM GracefulExits == Spec => []GracefulExitIsComplete
<1>1. Inv => GracefulExitIsComplete
  <2> SUFFICES ASSUME Inv, code = 0 PROVE /\ signalled /\ refused = {}
                                          /\ \A r \in Requests :
                                               /\ conn[r] \in {"none", "dropped", "finished"}
                                               /\ conn[r] = "finished" /\ ~skipAccessLog(r)
                                                    => Len(logged[r]) = 1
    BY DEF GracefulExitIsComplete
  <2>1. signalled /\ ~failed
    BY DEF Inv, MainFits
  <2>2. refused = {}
    BY <2>1 DEF Inv, TypeOK, MainTypeOK, Drained
  <2>3. ASSUME NEW r \in Requests
        PROVE  /\ conn[r] \in {"none", "dropped", "finished"}
               /\ conn[r] = "finished" /\ ~skipAccessLog(r) => Len(logged[r]) = 1
    BY DEF Inv, Drained, LogFits
  <2>4. QED
    BY <2>1, <2>2, <2>3
<1>2. QED
  BY <1>1, InvHolds, PTL

\* Whatever a handler does, the line of accessLogHandler tells the status that
\* was sent, the address a trusted proxy forwards and the peer's otherwise, and a
\* scheme that only a trusted proxy's header can change from what the request
\* line says.
THEOREM LinesAreTrue == Spec => []LogIsTrue
<1>1. Inv => LogIsTrue
  <2> SUFFICES ASSUME Inv, NEW r \in Requests, NEW i \in 1..Len(logged[r])
               PROVE  LET h       == head[r]
                          line    == logged[r][i]
                          trusted == h.peer \in Trusted
                      IN /\ i = 1 /\ ~skipAccessLog(r) /\ conn[r] = "finished"
                         /\ line.status = IF panicked[r] /\ sent[r] = 0 THEN 500 ELSE sent[r]
                         /\ line.ip \in IF ~trusted THEN {h.peer}
                                       ELSE IF Forwarded(h) # {} THEN Forwarded(h)
                                       ELSE IF h.real \in Addrs THEN {h.real} ELSE {h.peer}
                         /\ line.scheme = IF trusted /\ h.proto # "other" THEN h.proto
                                         ELSE IF h.scheme = "none" THEN "http" ELSE h.scheme
    BY DEF LogIsTrue
  <2>1. LogFits(r) /\ head[r] \in HeadType
    BY AccessLogAssumption DEF Inv, TypeOK, LogTypeOK
  <2>2. logged[r] # <<>>
    OBVIOUS
  <2>3. conn[r] = "finished" /\ ~skipAccessLog(r) /\ Len(logged[r]) = 1 /\ LineFits(r)
    BY <2>1, <2>2 DEF LogFits
  <2>4. i = 1
    BY <2>3
  <2>5. QED
    BY <2>1, <2>3, <2>4, OriginIsTrusted DEF LineFits
<1>2. QED
  BY <1>1, InvHolds, PTL
=============================================================================
