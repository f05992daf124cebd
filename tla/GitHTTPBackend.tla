---------------------------- MODULE GitHTTPBackend ---------------------------
(***************************************************************************)
(* git over HTTP: gitSmartHTTPHandler with ServeHTTPGit, which copies the  *)
(* request body to git http-backend and its answer to the client.          *)
(*                                                                         *)
(* The first chunk of the child's stdout is its response headers.          *)
(***************************************************************************)
EXTENDS GitProcess

VARIABLES
  git,   \* the request is one for git over HTTP
  werr,  \* copyGitBackendResponse returned an error
  tail   \* the text of an error was written behind a response

hvars == <<git, werr, tail>>

HTTPTypeOK == git \in BOOLEAN /\ werr \in BOOLEAN /\ tail \in BOOLEAN

HTTPInit == git \in BOOLEAN /\ werr = FALSE /\ tail = FALSE

-----------------------------------------------------------------------------
(***************************************************************************)
(* Before the child starts.                                                *)
(***************************************************************************)

\* gitOperationFromRequest refuses what is not a route of the protocol; a GET
\* has no body.
Arrive ==
  /\ git
  /\ \/ Answer("idle", "badRequest") /\ UNCHANGED stdin
     \/ Goto("idle", "access") /\ stdin' \in {"none", "sending"} /\ UNCHANGED status
  /\ UNCHANGED <<ctx, proc, worker, plan, left, pipe, readers, hvars>>

HTTPGranted ==
  /\ git
  /\ Goto("access", "start")
  /\ UNCHANGED <<ctx, status, child, readers, hvars>>

HTTPDenied ==
  /\ git
  /\ Answer("access", "denied")
  /\ UNCHANGED <<ctx, child, readers, hvars>>

\* A child with a body to read may want it before it writes.
HTTPPlan(p) ==
  /\ p.note \in {"good", "bad"}
  /\ p.wants => stdin = "sending"
  /\ p.exit = "failed" => "git" \in Faults

StartHTTP ==
  /\ ctx
  /\ Goto("start", "head")
  /\ \E p \in Plans : HTTPPlan(p) /\ Start(p)
  /\ UNCHANGED <<status, hvars>>

StartHTTPFails ==
  /\ ~ctx \/ "exec" \in Faults
  /\ Answer("start", "error")
  /\ UNCHANGED <<ctx, child, readers, git, werr, tail>>

-----------------------------------------------------------------------------
(***************************************************************************)
(* copyGitBackendResponse.                                                 *)
(***************************************************************************)

\* Good headers are sent on at once, with the status in them.
Headers ==
  /\ pc = "head" /\ Take /\ got' = 1
  /\ plan.note = "good"
  /\ pc' = "body" /\ status' = "ok"
  /\ UNCHANGED <<ctx, proc, worker, plan, left, stdin, kill, closed, errpc, errGot, hvars>>

\* A line without a colon, or a Status that is no status.
BadHeaders ==
  /\ Goto("head", "wait") /\ Take /\ got' = 1
  /\ plan.note = "bad"
  /\ werr' = TRUE
  /\ UNCHANGED <<ctx, status, proc, worker, plan, left, stdin, kill, closed, errpc, errGot, git,
                 tail>>

NoHeaders ==
  /\ Goto("head", "wait") /\ EOF("out")
  /\ werr' = TRUE
  /\ UNCHANGED <<ctx, status, child, readers, git, tail>>

CopyBody ==
  /\ pc = "body" /\ Take /\ got' = got + 1
  /\ UNCHANGED <<request, proc, worker, plan, left, stdin, kill, closed, errpc, errGot, hvars>>

\* The chunk cannot be written, since the client is gone.
BodyFails ==
  /\ ~ctx
  /\ Goto("body", "wait") /\ Take
  /\ werr' = TRUE
  /\ UNCHANGED <<ctx, status, proc, worker, plan, left, stdin, readers, git, tail>>

\* Mutant of BodyEnds: Wait is called while there is output to read.
BodyEndsEarly ==
  /\ git /\ Goto("body", "wait") /\ Ended
  /\ UNCHANGED <<ctx, status, child, readers, hvars>>

BodyEnds ==
  /\ git /\ Goto("body", "wait") /\ EOF("out")
  /\ UNCHANGED <<ctx, status, child, readers, hvars>>

-----------------------------------------------------------------------------
(***************************************************************************)
(* The stderr goroutine reads ErrLimit chunks and no more.                 *)
(***************************************************************************)

\* Mutant of HTTPStderr: stderr is read once the output has been copied.
HTTPStderrLate ==
  /\ git /\ errGot < ErrLimit
  /\ pc \notin {"head", "body"}
  /\ TakeErr
  /\ errGot' = errGot + 1
  /\ UNCHANGED <<errpc, hvars>>

HTTPStderr ==
  /\ git /\ errGot < ErrLimit
  /\ TakeErr
  /\ errGot' = errGot + 1
  /\ UNCHANGED <<errpc, hvars>>

HTTPStderrEnds ==
  /\ git
  /\ \/ ErrReaderEnds
     \/ /\ errpc = "reading" /\ errGot = ErrLimit
        /\ errpc' = "done"
        /\ UNCHANGED <<request, child, kill, closed, got, errGot>>
  /\ UNCHANGED hvars

-----------------------------------------------------------------------------
(***************************************************************************)
(* The end: cmd.Wait, and an error that the handler reports.               *)
(***************************************************************************)

\* Mutant of WaitHTTP: the child is left to itself.
WaitHTTPNot ==
  /\ git /\ Goto("wait", "join") /\ closed' = TRUE
  /\ UNCHANGED <<ctx, status, child, kill, got, errpc, errGot, hvars>>

WaitHTTP == git /\ Wait /\ UNCHANGED hvars

\* Mutant of HTTPFailed: the exit status counts after the headers too.
HTTPFailedByExit == werr \/ proc # "ok"

\* ServeHTTPGit returns an error.  The exit status counts only if no headers
\* were sent, and then there is an error already.
HTTPFailed == werr \/ (proc # "ok" /\ status = "none")

\* http.Error sets the status if the headers have not been sent, and writes
\* its text in any case.
Finish ==
  /\ git /\ errpc = "done"
  /\ Goto("join", "done")
  /\ status' = IF HTTPFailed /\ status = "none" THEN "error" ELSE status
  /\ tail' = (HTTPFailed /\ status # "none")
  /\ UNCHANGED <<ctx, child, readers, git, werr>>

Backend ==
  \/ Arrive \/ HTTPGranted \/ HTTPDenied \/ StartHTTP \/ StartHTTPFails
  \/ Headers \/ BadHeaders \/ NoHeaders \/ CopyBody \/ BodyFails \/ BodyEnds
  \/ HTTPStderr \/ HTTPStderrEnds \/ WaitHTTP \/ Finish
=============================================================================
