----------------------------- MODULE GitEndpoints ----------------------------
(***************************************************************************)
(* The endpoints that run git: one request of any of them, its child and   *)
(* the client, which may leave at any time.                                *)
(***************************************************************************)
EXTENDS GitReads, GitHTTPBackend

vars == <<pvars, rvars, hvars>>

TypeOK ==
  /\ ProcessTypeOK /\ ReadsTypeOK /\ HTTPTypeOK
  /\ pc \in {"idle", "access", "resolve", "type", "run", "read", "copy",
             "start", "head", "body", "wait", "join", "done"}

Init == ProcessInit /\ ReadsInit /\ HTTPInit /\ (git <=> url = NoURL)

Client == ClientSends \/ Cancel

Next ==
  \/ Reads /\ UNCHANGED hvars
  \/ Pushes /\ UNCHANGED hvars
  \/ Backend /\ UNCHANGED rvars
  \/ (Child \/ Client \/ BodyBreaks) /\ UNCHANGED <<rvars, hvars>>

Spec == Init /\ [][Next]_vars

\* The handlers and their goroutines are scheduled, git goes on while it can,
\* and the server finds out that a client is gone.  No client is fair: it need
\* neither send its body nor leave.
Fairness ==
  /\ WF_vars(Reads /\ UNCHANGED hvars)
  /\ WF_vars(Backend /\ UNCHANGED rvars)
  /\ WF_vars(Child /\ UNCHANGED <<rvars, hvars>>)
  /\ WF_vars(BodyBreaks /\ UNCHANGED <<rvars, hvars>>)

FairSpec == Spec /\ Fairness

-----------------------------------------------------------------------------
(***************************************************************************)
(* Properties.                                                             *)
(***************************************************************************)

Started == proc # "none"
Read    == target \in Targets

\* parseGitDiffSpec and parseGitRawSpec accept exactly the URLs of the three
\* documented forms, and take each of them for what it is: two dots are never
\* taken for three, whatever is around them.
ParseIsExact ==
  [][url # NoURL /\ url' = NoURL =>
       LET forms == CASE url.kind = "show"    -> DiffForms(url.spec) \cap {"show"}
                      [] url.kind = "compare" -> DiffForms(url.spec) \cap Compares
                      [] url.kind = "raw"     -> IF RawForm(url.spec) THEN {"raw"} ELSE {}
       IN IF forms = {} THEN target' = "bad" ELSE forms = {target'}]_vars

\* A client that is still there and got a 200 has everything the child wrote
\* and nothing else: no error text is written behind it, where it would be
\* taken for the end of a pack.  A diff or a raw file is, besides, the output of
\* a command that succeeded, within the limit, about the commits that the ids of
\* the request were resolved to, whatever was pushed or pruned since.
ServedIsWhole ==
  pc = "done" /\ status = "ok" /\ ctx =>
    /\ got = plan.out /\ ~tail
    /\ Read => proc = "ok" /\ got <= Cap /\ asked = named

\* A three-dot diff of commits without a merge base is answered 409 to a client
\* that waits: runGitDiff finds out from what git says on stderr, which nothing
\* makes it read before cmd.Wait closes the pipe.
NoMergeBaseIsConflict ==
  pc = "done" /\ Read /\ ctx /\ plan.note = "noBase" => status = "conflict"

\* A diff or raw request whose client waits is refused for what is the case.
\* It is answered 413 if and only if the output is too large, and what a command
\* that succeeded wrote is served otherwise.  It is answered 500 only if a
\* command failed or a commit was pruned, never because of a push between the
\* commands, or where NoMergeBaseIsConflict fails: what git said is lost.
RefusalsHaveACause ==
  pc = "done" /\ Read /\ ctx =>
    /\ status = "tooLarge" => plan.out > Cap
    /\ proc = "ok" => status = IF plan.out > Cap THEN "tooLarge" ELSE "ok"
    /\ status = "error" => hurt \/ (plan.note = "noBase" /\ errGot = 0)

\* No request is over while the process it started or the goroutine on its
\* stderr runs, and nothing that git does for a diff or a raw file goes on
\* afterwards.  What http-backend runs may outlive the request, if the client
\* left: then it has nobody to answer.
NothingIsLeftBehind ==
  pc = "done" =>
    /\ proc # "running" /\ errpc # "reading"
    /\ worker => git /\ ~ctx

\* http-backend waits for a reader of its stderr, and the goroutine has read all
\* that it will, the limit.
StderrIsFull ==
  git /\ worker /\ errpc = "done" /\ pipe["err"] = PipeCap /\ left["err"] > 0

\* It waits for a reader of its output, and the handler waits for its exit: it
\* has refused the headers.
OutputIsFull ==
  git /\ worker /\ pc = "wait" /\ pipe["out"] = PipeCap /\ left["out"] > 0

\* Every diff and raw request is answered, however much its command writes to
\* either pipe: no reader waits for the child while the child waits for a
\* reader.  A request for git over HTTP ends once its body has been sent, unless
\* http-backend waits for ever for a reader that has stopped.  And every request
\* ends once its client is gone, with one exception: killing the child does not
\* end http-backend, and if that waits for a reader of its stderr, the handler
\* waits for the rest of its output as long.
RequestsEnd ==
  /\ pc = "access" /\ Read ~> pc = "done"
  /\ git /\ Started /\ stdin # "sending" ~>
       pc = "done" \/ [](StderrIsFull \/ OutputIsFull)
  /\ ~ctx ~> pc = "done" \/ [](StderrIsFull /\ pc \in {"head", "body"})
=============================================================================
