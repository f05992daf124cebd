------------------------------ MODULE GitProcess -----------------------------
(***************************************************************************)
(* One request, the git child process that serves it, and the pipes        *)
(* between the two.  The child and os/exec are external: they are modelled *)
(* from how ServeHTTPGit, runGitDiff and ServeGitRawFile use them.         *)
(*                                                                         *)
(* A pipe holds PipeCap chunks, and a child that writes to a full pipe     *)
(* waits.  The child has a plan: how much it writes to stdout and stderr   *)
(* and how it exits, unless it is killed first.  `git http-backend' is a   *)
(* process that runs another: what kills the child leaves that one, with   *)
(* the pipes.  GitReads and GitHTTPBackend hold the handlers.              *)
(***************************************************************************)
EXTENDS Naturals

CONSTANTS
  PipeCap,  \* chunks a pipe holds
  Cap,      \* chunks of output a diff or raw answer may have
  ErrLimit, \* chunks of stderr that are kept (diff, raw) or read (http-backend)
  MaxOut,   \* bound: chunks a child writes to stdout
  MaxErr,   \* bound: chunks a child writes to stderr
  Faults    \* the faults this instance admits

FaultKinds == {"cancel", \* the client goes away
               "exec",   \* a command cannot be started
               "git",    \* a command fails for reasons of its own
               "prune"}  \* git gc removes a commit

ASSUME ProcessAssumption ==
  /\ PipeCap \in Nat \ {0} /\ Cap \in Nat /\ ErrLimit \in Nat \ {0}
  /\ MaxOut \in Nat /\ MaxErr \in Nat
  /\ Faults \subseteq FaultKinds

Statuses == {"none", "ok", "badRequest", "denied", "notFound", "notFile",
             "conflict", "tooLarge", "error"}

\* What a child is going to do.  It may want the request body first.  The note
\* is what its stderr says (diff) or whether its response headers are good
\* (http-backend).
Plans ==
  [out : 0..MaxOut, err : 0..MaxErr, exit : {"ok", "failed"}, wants : BOOLEAN,
   note : {"noBase", "other", "good", "bad"}]

\* The work is done by descendants of the child: http-backend's.
Forks(p) == p.note \in {"good", "bad"}

Idle == [out |-> 0, err |-> 0, exit |-> "ok", wants |-> FALSE, note |-> "other"]

VARIABLES
  pc,      \* where the handler is
  ctx,     \* the request context is not done
  status,  \* what was answered
  proc,    \* the child: none, running, or how it ended
  worker,  \* it or a descendant runs and has the pipes open
  plan,    \* what it was going to do
  left,    \* chunks it has not written yet, by pipe
  pipe,    \* chunks in each pipe
  stdin,   \* the request body on its way to the child
  kill,    \* the handler has killed the child
  closed,  \* cmd.Wait has closed the read ends of the pipes
  got,     \* chunks of stdout the handler has
  errpc,   \* where the goroutine that reads stderr is
  errGot   \* chunks of stderr it has

request == <<pc, ctx, status>>
child   == <<proc, worker, plan, left, pipe, stdin>>
readers == <<kill, closed, got, errpc, errGot>>
pvars   == <<request, child, readers>>

Ends    == {"ok", "failed", "killed"}
Streams == {"out", "err"}
Empty   == [s \in Streams |-> 0]

ProcessTypeOK ==
  /\ ctx \in BOOLEAN /\ status \in Statuses
  /\ proc \in {"none", "running"} \cup Ends
  /\ worker \in BOOLEAN /\ plan \in Plans
  /\ left \in [Streams -> Nat]
  /\ pipe \in [Streams -> 0..PipeCap]
  /\ stdin \in {"none", "sending", "sent", "read", "broken"}
  /\ kill \in BOOLEAN /\ closed \in BOOLEAN
  /\ got \in 0..MaxOut /\ errGot \in 0..ErrLimit
  /\ errpc \in {"none", "reading", "done"}

ProcessInit ==
  /\ pc = "idle" /\ ctx = TRUE /\ status = "none"
  /\ proc = "none" /\ worker = FALSE /\ plan = Idle
  /\ left = Empty /\ pipe = Empty
  /\ stdin = "none"
  /\ kill = FALSE /\ closed = FALSE /\ got = 0
  /\ errpc = "none" /\ errGot = 0

Goto(from, to) == pc = from /\ pc' = to

\* The handler returns with s as its answer.
Answer(from, s) == Goto(from, "done") /\ status' = s

Ended == proc \in Ends

-----------------------------------------------------------------------------
(***************************************************************************)
(* The child.                                                              *)
(***************************************************************************)

\* cmd.Start succeeds and the goroutines that read start with it.
Start(p) ==
  /\ proc' = "running" /\ worker' = TRUE /\ plan' = p
  /\ left' = [s \in Streams |-> IF s = "out" THEN p.out ELSE p.err]
  /\ errpc' = "reading"
  /\ UNCHANGED <<ctx, pipe, stdin, kill, closed, got, errGot>>

\* A child that wants the request body waits for it.
Fed == plan.wants => stdin \notin {"sending", "sent"}

ChildReads ==
  /\ worker
  /\ stdin = "sent" /\ stdin' = "read"
  /\ UNCHANGED <<request, proc, worker, plan, left, pipe, readers>>

ChildWrites(s) ==
  /\ worker /\ Fed /\ ~closed
  /\ left[s] > 0 /\ pipe[s] < PipeCap
  /\ left' = [left EXCEPT ![s] = @ - 1]
  /\ pipe' = [pipe EXCEPT ![s] = @ + 1]
  /\ UNCHANGED <<request, proc, worker, plan, stdin, readers>>

\* It exits, and a child that waits for it does.
ChildExits ==
  /\ worker /\ Fed
  /\ left = Empty
  /\ worker' = FALSE
  /\ proc' = IF proc = "running" THEN plan.exit ELSE proc
  /\ UNCHANGED <<request, plan, left, pipe, stdin, readers>>

\* A process that writes to a pipe nobody can read gets SIGPIPE.
ChildBreaks ==
  /\ worker /\ Fed /\ closed
  /\ left # Empty
  /\ worker' = FALSE
  /\ UNCHANGED <<request, proc, plan, left, pipe, stdin, readers>>

\* Mutant of ChildDies: the child is started with exec.Command.
ChildDiesByKill ==
  /\ proc = "running"
  /\ kill
  /\ proc' = "killed"
  /\ worker' = (worker /\ Forks(plan))
  /\ UNCHANGED <<request, plan, left, pipe, stdin, readers>>

\* exec.CommandContext kills the child when its context is done, and the
\* handler may kill it too.  SIGKILL goes to the child alone.
ChildDies ==
  /\ proc = "running"
  /\ ~ctx \/ kill
  /\ proc' = "killed"
  /\ worker' = (worker /\ Forks(plan))
  /\ UNCHANGED <<request, plan, left, pipe, stdin, readers>>

Child == ChildReads \/ ChildWrites("out") \/ ChildWrites("err") \/ ChildExits
           \/ ChildBreaks \/ ChildDies

\* The client sends its body, and os/exec copies it to the pipe, or finds that
\* nobody has it open.
ClientSends ==
  /\ stdin = "sending" /\ ctx
  /\ proc # "none"
  /\ stdin' = IF worker THEN "sent" ELSE "broken"
  /\ UNCHANGED <<request, proc, worker, plan, left, pipe, readers>>

\* The client is gone: reading its body fails and ends the copying.
BodyBreaks ==
  /\ stdin = "sending" /\ ~ctx
  /\ stdin' = "broken"
  /\ UNCHANGED <<request, proc, worker, plan, left, pipe, readers>>

\* The client goes away.
Cancel ==
  /\ "cancel" \in Faults
  /\ pc \notin {"idle", "done"}
  /\ ctx /\ ctx' = FALSE
  /\ UNCHANGED <<pc, status, child, readers>>

-----------------------------------------------------------------------------
(***************************************************************************)
(* The readers and cmd.Wait.                                               *)
(***************************************************************************)

\* One chunk of stdout reaches the handler.
Take == pipe["out"] > 0 /\ pipe' = [pipe EXCEPT !["out"] = @ - 1]

\* Reading a pipe of a child returns EOF once it is empty and no process has it
\* open for writing.
EOF(s) == pipe[s] = 0 /\ ~worker

\* The goroutine that reads stderr takes one more chunk.
TakeErr ==
  /\ errpc = "reading" /\ ~closed
  /\ pipe["err"] > 0
  /\ pipe' = [pipe EXCEPT !["err"] = @ - 1]
  /\ UNCHANGED <<request, proc, worker, plan, left, stdin, kill, closed, got>>

\* It ends at EOF, or when the pipe is closed under it.
ErrReaderEnds ==
  /\ errpc = "reading"
  /\ closed \/ EOF("err")
  /\ errpc' = "done"
  /\ UNCHANGED <<request, child, kill, closed, got, errGot>>

\* cmd.Wait with pipes of the handler's own: the child has ended and its
\* stdin has been dealt with; the pipes are closed, read or not, and whoever
\* still writes to them.  No WaitDelay is set.
Wait ==
  /\ Goto("wait", "join")
  /\ Ended /\ stdin # "sending"
  /\ closed' = TRUE
  /\ UNCHANGED <<ctx, status, child, kill, got, errpc, errGot>>
=============================================================================
