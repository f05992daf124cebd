------------------------------ MODULE AccessLog ------------------------------
(***************************************************************************)
(* Requests inside the access log: accessLogHandler.ServeHTTP around any   *)
(* handler, the recorder that handler writes to, and the deferred function *)
(* that writes one line.  net/http is external.                            *)
(***************************************************************************)
EXTENDS Naturals, Sequences

CONSTANTS
  Requests,  \* requests, each on a connection of its own
  Addrs,     \* network addresses
  Trusted,   \* the ones in the trusted proxy prefixes
  Blank,     \* a header, or a part of one, that is empty
  Junk,      \* one that does not parse as an address
  Heads      \* what requests are for and say about where they come from

\* Whether the path is / or /healthz (of any method), the peer address, the parts of
\* X-Forwarded-For, X-Real-IP, the first value of X-Forwarded-Proto, and the
\* scheme the client wrote in the request line, if any.
Values   == Addrs \cup {Blank, Junk}
Schemes  == {"http", "https"}
HeadType ==
  [probe : BOOLEAN, peer : Addrs, forwarded : Seq(Values), real : Values,
   proto : Schemes \cup {"other"}, scheme : Schemes \cup {"other", "none"}]

ASSUME AccessLogAssumption ==
  /\ Blank \notin Addrs /\ Junk \notin Addrs /\ Blank # Junk
  /\ Trusted \subseteq Addrs
  /\ Heads \subseteq HeadType

VARIABLES
  conn,     \* where each request is
  head,     \* its headers
  status,   \* the status its recorder holds, 0 if none
  sent,     \* the status net/http was given first, 0 if none
  panicked, \* its handler panicked
  logged    \* the lines about it

logvars == <<conn, head, status, sent, panicked, logged>>

Stages == {"none",     \* not connected
           "new",      \* accepted, nothing read yet
           "handler",  \* in its handler
           "deferred", \* in the deferred function
           "finished", \* over
           "dropped",  \* closed before a request came
           "cut"}      \* the process ended under it

LogTypeOK ==
  /\ conn \in [Requests -> Stages]
  /\ head \in [Requests -> Heads]
  /\ status \in [Requests -> {0, 200, 500}] /\ sent \in [Requests -> {0, 200, 500}]
  /\ panicked \in [Requests -> BOOLEAN]
  /\ logged \in [Requests ->
       Seq([status : {200, 500}, ip : Addrs, scheme : Schemes \cup {"other"}])]

LogInit ==
  /\ conn = [r \in Requests |-> "none"]
  /\ head \in [Requests -> Heads]
  /\ status = [r \in Requests |-> 0] /\ sent = [r \in Requests |-> 0]
  /\ panicked = [r \in Requests |-> FALSE]
  /\ logged = [r \in Requests |-> <<>>]

-----------------------------------------------------------------------------
(***************************************************************************)
(* The client address and the scheme.                                      *)
(***************************************************************************)

isAddr(v) == v \notin {Blank, Junk}

\* Mutant of firstForwardedAddr: parts that do not parse are skipped too.
firstForwardedAddrAny(parts) ==
  LET addrs == {i \in 1..Len(parts) : isAddr(parts[i])}
      none  == addrs = {}
  IN IF none THEN Blank ELSE parts[CHOOSE i \in addrs : \A j \in addrs : i <= j]

\* The first part that is not blank, if it is an address.
firstForwardedAddr(parts) ==
  LET full == {i \in 1..Len(parts) : parts[i] # Blank}
      part == parts[CHOOSE i \in full : \A j \in full : i <= j]
  IN IF full # {} /\ isAddr(part) THEN part ELSE Blank

isTrustedProxy(peer) == peer \in Trusted

\* Mutant of requestRemoteIP: what a proxy forwards is not looked at.
requestRemoteIPPeer(h) == h.peer

requestRemoteIP(h) ==
  LET forwarded == firstForwardedAddr(h.forwarded) IN
  IF isTrustedProxy(h.peer)
  THEN IF forwarded # Blank THEN forwarded
       ELSE IF isAddr(h.real) THEN h.real ELSE h.peer
  ELSE h.peer

\* Mutant of requestScheme: any peer is believed.
requestSchemeAny(h) ==
  IF h.proto \in Schemes THEN h.proto ELSE "http"

\* The scheme of the request line is taken as it is, whoever wrote it; the server
\* itself listens without TLS.
requestScheme(h) ==
  IF isTrustedProxy(h.peer) /\ h.proto \in Schemes THEN h.proto
  ELSE IF h.scheme # "none" THEN h.scheme ELSE "http"

-----------------------------------------------------------------------------
(***************************************************************************)
(* One request.                                                            *)
(***************************************************************************)

\* net/http has read a request and calls the handler.
Serve(r) ==
  /\ conn[r] = "new"
  /\ conn' = [conn EXCEPT ![r] = "handler"]
  /\ UNCHANGED <<head, status, sent, panicked, logged>>

\* Mutant of Recorded: the recorder takes every status.
RecordedAny(r, s) == s

\* accessLogResponseWriter.WriteHeader takes the first status only; Write and
\* Flush write a 200 first.
Recorded(r, s) == IF status[r] = 0 THEN s ELSE status[r]

\* The handler writes a status or, with 200, a body.  net/http ignores a
\* second status.
WriteHeader(r, s) ==
  /\ conn[r] = "handler"
  /\ status' = [status EXCEPT ![r] = Recorded(r, s)]
  /\ sent' = [sent EXCEPT ![r] = IF @ = 0 THEN s ELSE @]
  /\ UNCHANGED <<conn, head, panicked, logged>>

\* The handler returns, or panics.
Leave(r, p) ==
  /\ conn[r] = "handler"
  /\ conn' = [conn EXCEPT ![r] = "deferred"]
  /\ panicked' = [panicked EXCEPT ![r] = p]
  /\ UNCHANGED <<head, status, sent, logged>>

\* Mutant of FinalStatus: the status of the recorder, whatever it is.
FinalStatusRaw(r) == status[r]

FinalStatus(r) ==
  IF status[r] # 0 THEN status[r] ELSE IF panicked[r] THEN 500 ELSE 200

skipAccessLog(r) == head[r].probe

\* The deferred function logs and panics again.  A handler that wrote nothing
\* and returned is answered 200 by net/http, one that panicked is not answered.
Finish(r) ==
  /\ conn[r] = "deferred"
  /\ conn' = [conn EXCEPT ![r] = "finished"]
  /\ logged' = IF skipAccessLog(r) THEN logged
               ELSE [logged EXCEPT ![r] =
                       Append(@, [status |-> FinalStatus(r), ip |-> requestRemoteIP(head[r]),
                                  scheme |-> requestScheme(head[r])])]
  /\ sent' = [sent EXCEPT ![r] = IF @ = 0 /\ ~panicked[r] THEN 200 ELSE @]
  /\ UNCHANGED <<head, status, panicked>>
=============================================================================
