------------------------------- MODULE GitReads ------------------------------
(***************************************************************************)
(* The show, compare and raw endpoints: gitDiffHandler and gitRawHandler   *)
(* with ServeGitDiff, runGitDiff and ServeGitRawFile, while pushes and git *)
(* gc change the repository between the commands of one request.           *)
(*                                                                         *)
(* A commit is abstract, and an object id that a request writes is one of  *)
(* Abbrevs, which git takes for any commit it Matches.                     *)
(***************************************************************************)
EXTENDS GitProcess, GitSpecs, FiniteSets

CONSTANTS
  Commits,   \* commits that are or may be in the repository
  Abbrevs,   \* object ids as requests write them
  Matches,   \* the commits an abbreviation is a prefix of
  Unrelated  \* the pairs of commits without a merge base

ASSUME ReadsAssumption ==
  /\ Matches \in [Abbrevs -> SUBSET Commits]
  /\ Unrelated \subseteq Commits \X Commits

VARIABLES
  url,    \* the path value, until it is parsed
  target, \* the command to run
  revs,   \* the object ids of the request
  named,  \* the commits they were resolved to, so far
  asked,  \* the commits the command was given
  repo,   \* the commits in the repository
  over,   \* the content buffer of a raw file was full when more came
  hurt    \* history: a command failed on its own, or a commit was pruned

rvars == <<url, target, revs, named, asked, repo, over, hurt>>

NoURL == [kind |-> "none"]
Compares  == {"dots2", "dots3"}
DiffKinds == Compares \cup {"show"}
Targets   == DiffKinds \cup {"raw"}

URLs ==
  [kind : {"show", "compare"}, spec : DiffSpecs] \cup [kind : {"raw"}, spec : RawSpecs]

ReadsTypeOK ==
  /\ url \in URLs \cup {NoURL}
  /\ target \in Targets \cup {"none", "bad"}
  /\ revs \in Seq(Abbrevs) /\ named \in Seq(Commits) /\ asked \in Seq(Commits)
  /\ Len(named) <= Len(revs)
  /\ repo \subseteq Commits
  /\ over \in BOOLEAN /\ hurt \in BOOLEAN

ReadsInit ==
  /\ url \in URLs \cup {NoURL}
  /\ target = "none" /\ revs = <<>> /\ named = <<>> /\ asked = <<>>
  /\ repo = {}
  /\ over = FALSE /\ hurt = FALSE

-----------------------------------------------------------------------------
(***************************************************************************)
(* The URL and the authorization.                                          *)
(***************************************************************************)

Parsed(u) ==
  IF u.kind = "raw" THEN parseGitRawSpec(u.spec) ELSE parseGitDiffSpec(u.kind, u.spec)

Parse ==
  /\ pc = "idle" /\ url # NoURL
  /\ target' = Parsed(url) /\ url' = NoURL
  /\ \/ target' = "bad" /\ Answer("idle", "badRequest") /\ UNCHANGED revs
     \/ /\ target' # "bad" /\ Goto("idle", "access")
        /\ revs' \in [1..(IF target' \in Compares THEN 2 ELSE 1) -> Abbrevs]
        /\ UNCHANGED status
  /\ UNCHANGED <<ctx, child, readers, named, asked, repo, over, hurt>>

\* AuthorizeGitAccess, the subject of TokenAccess.
ReadGranted ==
  /\ target \in Targets
  /\ Goto("access", "resolve")
  /\ UNCHANGED <<ctx, status, child, readers, rvars>>

ReadDenied ==
  /\ target \in Targets
  /\ Answer("access", "denied")
  /\ UNCHANGED <<ctx, child, readers, rvars>>

-----------------------------------------------------------------------------
(***************************************************************************)
(* resolveGitCommit, for each object id in turn.                           *)
(***************************************************************************)

Rev == revs[Len(named) + 1]
Candidates(a) == Matches[a] \cap repo

Resolve ==
  /\ pc = "resolve" /\ ctx
  /\ \E c \in Commits :
       Candidates(Rev) = {c} /\ named' = Append(named, c)
  /\ pc' = IF Len(named') < Len(revs) THEN "resolve"
           ELSE IF target = "raw" THEN "type" ELSE "run"
  /\ UNCHANGED <<ctx, status, child, readers, url, target, revs, asked, repo, over, hurt>>

\* No commit, or several: isMissingGitRevisionError.
ResolveMissing ==
  /\ Answer("resolve", "notFound")
  /\ ctx /\ Cardinality(Candidates(Rev)) # 1
  /\ UNCHANGED <<ctx, child, readers, rvars>>

\* A command that fails: killed with the request, not started, or broken.
CommandFails ==
  /\ ~ctx \/ Faults \cap {"exec", "git"} # {}
  /\ hurt' = TRUE
  /\ UNCHANGED <<ctx, child, readers, url, target, revs, named, asked, repo, over>>

ResolveFails == Answer("resolve", "error") /\ CommandFails

-----------------------------------------------------------------------------
(***************************************************************************)
(* gitObjectType, for raw.  What a tree has at a path is not modelled: any *)
(* path may be a file, something else, or missing.                         *)
(***************************************************************************)

Present == \A i \in 1..Len(named) : named[i] \in repo

TypeIsBlob ==
  /\ ctx /\ Present
  /\ Goto("type", "run")
  /\ UNCHANGED <<ctx, status, child, readers, rvars>>

TypeIsOther ==
  /\ ctx /\ Present
  /\ Answer("type", "notFile")
  /\ UNCHANGED <<ctx, child, readers, rvars>>

\* The path or, by now, the commit is missing.
TypeMissing ==
  /\ ctx
  /\ Answer("type", "notFound")
  /\ UNCHANGED <<ctx, child, readers, rvars>>

\* Every error of gitObjectType is answered as a missing path.
TypeFails == Answer("type", "notFound") /\ CommandFails

-----------------------------------------------------------------------------
(***************************************************************************)
(* The command: git show, git diff or git cat-file.                        *)
(***************************************************************************)

\* Mutant of Arguments: the ids of the request, which git resolves again.
ArgumentsUnresolved(c) ==
  \A i \in 1..Len(revs) :
    IF Candidates(revs[i]) = {} THEN c[i] \notin repo ELSE c[i] \in Candidates(revs[i])

\* The commits that the arguments of the command name: the resolved ones.
Arguments(c) == c = named

\* What git does when it is asked about commits c: it fails if one is gone,
\* and git diff A...B fails, and says so, if there is no merge base.
ReadPlan(c, p) ==
  LET gone   == \E i \in 1..Len(c) : c[i] \notin repo
      noBase == ~gone /\ target = "dots3" /\ <<c[1], c[2]>> \in Unrelated
  IN /\ ~p.wants
     /\ p.note = IF noBase THEN "noBase" ELSE "other"
     /\ gone \/ noBase => p.exit = "failed" /\ p.out = 0
     /\ noBase => p.err = 1
     /\ p.exit = "failed" => gone \/ noBase \/ "git" \in Faults

StartRead ==
  /\ ctx
  /\ Goto("run", IF target = "raw" THEN "copy" ELSE "read")
  /\ asked' \in [1..Len(revs) -> Commits] /\ Arguments(asked')
  /\ \E p \in Plans :
       /\ ReadPlan(asked', p) /\ Start(p)
       /\ hurt' = (hurt \/ (p.exit = "failed" /\ p.note = "other"))
  /\ UNCHANGED <<status, url, target, revs, named, repo, over>>

StartReadFails ==
  /\ ~ctx \/ "exec" \in Faults
  /\ Answer("run", "error")
  /\ hurt' = TRUE
  /\ UNCHANGED <<ctx, child, readers, url, target, revs, named, asked, repo, over>>

\* Mutant of Capped: the buffer has no limit.
CappedNot(n, limit) == n + 1

\* cappedBuffer.Write: what it holds after one more chunk.
Capped(n, limit) == IF n < limit THEN n + 1 ELSE n

\* The stderr of diff and raw goes to a cappedBuffer.
ReadStderr ==
  /\ target \in Targets
  /\ TakeErr
  /\ errGot' = Capped(errGot, ErrLimit)
  /\ UNCHANGED <<errpc, rvars>>

ReadStderrEnds ==
  /\ target \in Targets
  /\ ErrReaderEnds
  /\ UNCHANGED rvars

-----------------------------------------------------------------------------
(***************************************************************************)
(* runGitDiff: ReadAll of a LimitReader, cmd.Wait, the stderr goroutine.   *)
(***************************************************************************)

\* Mutant of DiffLimit: the reader stops at the cap.
DiffLimitCap == Cap

DiffLimit == Cap + 1

ReadDiff ==
  /\ pc = "read"
  /\ got < DiffLimit /\ Take
  /\ got' = got + 1
  /\ UNCHANGED <<request, proc, worker, plan, left, stdin, kill, closed, errpc, errGot, rvars>>

\* Mutant of KillIfTooLarge: Wait is left to end the child.
KillNever == kill' = kill

KillIfTooLarge == kill' = (got > Cap)

DiffRead ==
  /\ Goto("read", "wait")
  /\ got = DiffLimit \/ EOF("out")
  /\ KillIfTooLarge
  /\ UNCHANGED <<ctx, status, child, closed, got, errpc, errGot, rvars>>

WaitDiff == target \in DiffKinds /\ Wait /\ UNCHANGED rvars

\* Mutant of SaysNoBase: the text is not looked for.
SaysNoBaseNot == FALSE

\* isNoMergeBaseGitDiffError needs the text of stderr.
SaysNoBase == plan.note = "noBase" /\ errGot > 0

DiffAnswer ==
  CASE got > Cap                               -> "tooLarge"
    [] got <= Cap /\ ~ctx                      -> "error"
    [] got <= Cap /\ ctx /\ proc = "ok"        -> "ok"
    [] got <= Cap /\ ctx /\ proc # "ok"        ->
         IF SaysNoBase THEN "conflict" ELSE "error"

AnswerDiff ==
  /\ target \in DiffKinds
  /\ errpc = "done"
  /\ Answer("join", DiffAnswer)
  /\ UNCHANGED <<ctx, child, readers, rvars>>

-----------------------------------------------------------------------------
(***************************************************************************)
(* ServeGitRawFile: cmd.Run copies stdout into a cappedBuffer to its end.  *)
(***************************************************************************)

CopyRaw ==
  /\ pc = "copy" /\ Take
  /\ got' = Capped(got, Cap)
  /\ over' = (over \/ got >= Cap)
  /\ UNCHANGED <<request, proc, worker, plan, left, stdin, kill, closed, errpc, errGot,
                 url, target, revs, named, asked, repo, hurt>>

\* cmd.Run returns: the child has ended and both copies are at EOF.
RunEnded == Ended /\ EOF("out") /\ errpc = "done"

\* Mutant of RawAnswer: a full buffer is not refused.
RawAnswerTruncated == "ok"

RawAnswer == IF over THEN "tooLarge" ELSE "ok"

AnswerRaw ==
  /\ RunEnded /\ proc = "ok"
  /\ Answer("copy", RawAnswer)
  /\ UNCHANGED <<ctx, child, readers, rvars>>

\* An exit status, or a context that was done before Run returned.
RawFails ==
  /\ RunEnded /\ (proc # "ok" \/ ~ctx)
  /\ Answer("copy", "error")
  /\ UNCHANGED <<ctx, child, readers, rvars>>

-----------------------------------------------------------------------------
(***************************************************************************)
(* The repository changes under the request.                               *)
(***************************************************************************)

Running == target \in Targets /\ pc \in {"access", "resolve", "type", "run"}

Push(c) ==
  /\ Running /\ repo' = repo \cup {c} /\ c \notin repo
  /\ UNCHANGED <<pvars, url, target, revs, named, asked, over, hurt>>

Prune(c) ==
  /\ "prune" \in Faults
  /\ Running /\ repo' = repo \ {c} /\ c \in repo
  /\ hurt' = TRUE
  /\ UNCHANGED <<pvars, url, target, revs, named, asked, over>>

Pushes == \E c \in Commits : Push(c) \/ Prune(c)

Reads ==
  \/ Parse \/ ReadGranted \/ ReadDenied
  \/ Resolve \/ ResolveMissing \/ ResolveFails
  \/ TypeIsBlob \/ TypeIsOther \/ TypeMissing \/ TypeFails
  \/ StartRead \/ StartReadFails
  \/ ReadStderr \/ ReadStderrEnds
  \/ ReadDiff \/ DiffRead \/ WaitDiff \/ AnswerDiff
  \/ CopyRaw \/ AnswerRaw \/ RawFails
=============================================================================
