-------------------------- MODULE GitEndpointsProofs -------------------------
(***************************************************************************)
(* Proofs about GitEndpoints, for any pipe capacity, limits, outputs,      *)
(* commits and set of faults.                                              *)
(***************************************************************************)
EXTENDS GitEndpoints, GitSpecsProofs, TLAPS

-----------------------------------------------------------------------------
(***************************************************************************)
(* The inductive invariant.                                                *)
(***************************************************************************)

Early == {"idle", "access", "resolve", "type", "run", "start"}

\* Until cmd.Start nothing has been written, read or answered.
Untouched ==
  pc \in Early =>
    /\ proc = "none" /\ ~worker /\ plan = Idle /\ left = Empty /\ pipe = Empty
    /\ errpc = "none" /\ errGot = 0 /\ got = 0
    /\ ~over /\ ~kill /\ ~closed /\ ~werr /\ status = "none"

\* Which endpoint is where.
Places ==
  /\ pc \notin Early \cup {"done"} => proc # "none" /\ errpc # "none"
  /\ pc \in {"resolve", "type", "run", "read", "copy"} => Read
  /\ pc \in {"start", "head", "body"} => git
  /\ pc \notin {"idle", "done"} => git \/ Read
  /\ git => target = "none" /\ url = NoURL
  /\ pc = "read" => target # "raw"
  /\ pc = "copy" => target = "raw"
  /\ pc \in {"wait", "join"} => target # "raw"
  /\ pc \in {"head", "read", "copy"} => status = "none"
  /\ pc = "body" => status = "ok"
  /\ pc = "head" => got = 0
  /\ pc = "join" => Ended
  /\ over => target = "raw"

\* The ids of a request are resolved one after the other.
Resolving ==
  /\ pc = "access" /\ Read => named = <<>> /\ Len(revs) > 0
  /\ pc = "idle" => named = <<>> /\ revs = <<>>
  /\ pc = "resolve" => Len(named) < Len(revs)

\* No chunk of stdout is lost while the client is there, except in a raw
\* answer that is refused for it.
Flow ==
  /\ left["out"] + pipe["out"] + got <= plan.out
  /\ ctx /\ ~over => left["out"] + pipe["out"] + got = plan.out
  /\ over => plan.out > Cap
  /\ target = "raw" => got <= Cap

\* How the child ended, and what it was started with.  Only http-backend leaves
\* a process behind, and only if the child was killed because the client left.
ChildEnds ==
  /\ proc = "running" => worker /\ ~closed
  /\ worker => proc = "running" \/ (proc = "killed" /\ git /\ ~ctx)
  /\ Forks(plan) => git
  /\ proc \in {"ok", "failed"} => proc = plan.exit /\ left = Empty
  /\ proc = "killed" => ~ctx \/ kill
  /\ kill => got > Cap /\ Read /\ target # "raw"
  /\ Read /\ proc # "none" =>
       /\ asked = named
       /\ plan.note = "noBase" => target = "dots3"
       /\ plan.exit = "failed" => hurt \/ plan.note = "noBase"

\* What the handler knows when it stops to read: it has the limit, or all.
Stopped ==
  /\ pc \in {"wait", "join"} /\ Read => got > Cap \/ EOF("out")
  /\ pc \in {"wait", "join"} /\ git /\ status # "none" /\ ctx => EOF("out") /\ ~werr
  /\ pc \in {"head", "body"} => ~werr
  /\ pc \in {"wait", "join"} => status = "none" \/ (git /\ status = "ok")
  /\ tail => pc = "done" /\ git

\* What the properties and their support say of the request and its child.
Core ==
  /\ ProcessTypeOK /\ HTTPTypeOK /\ over \in BOOLEAN /\ hurt \in BOOLEAN
  /\ Untouched /\ Places /\ Flow /\ ChildEnds /\ Stopped
  /\ ServedIsWhole /\ RefusalsHaveACause /\ NothingIsLeftBehind

Inv == TypeOK /\ Resolving /\ Core

-----------------------------------------------------------------------------
\* The fields of a plan.
LEMMA PlanTypes ==
  ASSUME NEW p \in Plans
  PROVE  /\ p.out \in Nat /\ p.out <= MaxOut /\ p.err \in Nat
         /\ p.exit \in {"ok", "failed"} /\ p.wants \in BOOLEAN
         /\ p.note \in {"noBase", "other", "good", "bad"}
BY ProcessAssumption DEF Plans

\* What Inv says, taken apart.
LEMMA CoreFacts ==
  ASSUME Inv
  PROVE  /\ ProcessTypeOK /\ HTTPTypeOK /\ over \in BOOLEAN /\ hurt \in BOOLEAN
         /\ Untouched /\ Places /\ Flow /\ ChildEnds /\ Stopped
         /\ ServedIsWhole /\ RefusalsHaveACause /\ NothingIsLeftBehind
         /\ plan.out \in Nat /\ plan.out <= MaxOut
         /\ plan.exit \in {"ok", "failed"} /\ plan.note \in {"noBase", "other", "good", "bad"}
         /\ target \in Targets \cup {"none", "bad"} /\ (git => ~Read)
         /\ Read /\ target # "raw" <=> target \in DiffKinds
<1>1. Core
  BY DEF Inv
<1>2. plan \in Plans
  BY <1>1 DEF Core, ProcessTypeOK
<1>3. git => ~Read
  BY <1>1 DEF Core, Places, Read, Targets, DiffKinds, Compares
<1>4. Read /\ target # "raw" <=> target \in DiffKinds
  BY DEF Read, Targets, DiffKinds, Compares
<1>5. target \in Targets \cup {"none", "bad"}
  BY DEF Inv, TypeOK, ReadsTypeOK
<1>6. QED
  BY <1>1, <1>2, <1>3, <1>4, <1>5, PlanTypes DEF Core

\* A request has arrived, and nothing has happened.
LEMMA InitInv == Init => Inv
<1> SUFFICES ASSUME Init PROVE Inv
  OBVIOUS
<1> USE ProcessAssumption DEF Init, ProcessInit, ReadsInit, HTTPInit
<1>1. Idle \in Plans /\ Idle.out = 0
  BY DEF Idle, Plans
<1>2. /\ Empty \in [Streams -> 0..PipeCap] /\ Empty \in [Streams -> Nat]
      /\ Empty["out"] = 0
  BY DEF Empty, Streams
<1>3. ProcessTypeOK
  <2>1. plan \in Plans /\ left \in [Streams -> Nat] /\ pipe \in [Streams -> 0..PipeCap]
    BY <1>1, <1>2
  <2>2. got \in 0..MaxOut /\ errGot \in 0..ErrLimit
    OBVIOUS
  <2>3. QED
    BY <2>1, <2>2 DEF ProcessTypeOK, Statuses
<1>4. ReadsTypeOK /\ HTTPTypeOK
  <2>1. revs \in Seq(Abbrevs) /\ named \in Seq(Commits) /\ asked \in Seq(Commits)
    OBVIOUS
  <2>2. Len(named) <= Len(revs)
    OBVIOUS
  <2>3. QED
    BY <2>1, <2>2 DEF ReadsTypeOK, HTTPTypeOK
<1>5. Untouched /\ Places /\ Resolving
  BY DEF Untouched, Places, Resolving, Early, Read, Targets, DiffKinds, Compares
<1>6. Flow /\ ChildEnds /\ Stopped
  BY <1>1, <1>2 DEF Flow, ChildEnds, Forks, Idle, Stopped, Read, Targets, DiffKinds, Compares
<1>7. ServedIsWhole /\ RefusalsHaveACause /\ NothingIsLeftBehind
  BY DEF ServedIsWhole, RefusalsHaveACause, NothingIsLeftBehind
<1>8. QED
  BY <1>3, <1>4, <1>5, <1>6, <1>7 DEF Inv, Core, TypeOK, ReadsTypeOK

-----------------------------------------------------------------------------
(***************************************************************************)
(* Steps before the child starts.                                          *)
(***************************************************************************)

\* Parsing, authorization, resolving and looking at the type of a path touch no
\* pipe, and answer only what no child has to support.
LEMMA EarlyCore ==
  ASSUME Inv,
         \/ /\ UNCHANGED hvars
            /\ \/ Parse \/ ReadGranted \/ ReadDenied
               \/ Resolve \/ ResolveMissing \/ ResolveFails
               \/ TypeIsBlob \/ TypeIsOther \/ TypeMissing \/ TypeFails
               \/ StartReadFails \/ Pushes
         \/ /\ UNCHANGED rvars
            /\ Arrive \/ HTTPGranted \/ HTTPDenied \/ StartHTTPFails
  PROVE  Core'
<1> USE DEF pvars, request, child, readers, hvars, rvars, Goto, Answer, Early, Read
<1> DEFINE Kept ==
      /\ pc \in Early /\ pc' \in Early \cup {"done"} /\ pc' # "idle"
      /\ UNCHANGED <<ctx, proc, worker, plan, left, pipe, readers, over, git, werr, tail>>
      /\ pc' # "done" => status' = "none"
      /\ pc' = "done" => status' \in Statuses \ {"ok", "tooLarge"}
      /\ pc' = "done" /\ status' = "error" /\ Read => hurt'
      /\ hurt' \in BOOLEAN /\ stdin' \in {"none", "sending", "sent", "read", "broken"}
      /\ target' \in Targets \cup {"none", "bad"}
      /\ git => target' = "none" /\ url' = NoURL
      /\ pc' \in {"resolve", "type", "run"} => target' \in Targets
      /\ pc' = "start" => git
      /\ pc' # "done" => git \/ target' \in Targets
      /\ pc' = "done" => target' = target \/ status' = "badRequest"
<1>0. Core /\ TypeOK
  BY DEF Inv
<1>1. ASSUME Kept PROVE Core'
  <2> USE <1>0, <1>1, ProcessAssumption DEF Core
  <2>1. proc = "none" /\ ~worker /\ plan = Idle /\ errpc = "none" /\ ~over /\ ~kill /\ got = 0
    BY DEF Untouched
  <2>2. (ProcessTypeOK /\ HTTPTypeOK /\ Untouched)'
    BY DEF ProcessTypeOK, HTTPTypeOK, Untouched, Statuses
  <2>3. Places'
    BY <2>1 DEF Places, Ended, Ends
  <2>4. (Flow /\ ChildEnds /\ Stopped)'
    BY <2>1 DEF Flow, ChildEnds, Forks, Idle, Stopped, TypeOK, ProcessTypeOK, ReadsTypeOK, EOF,
         Ended, Ends
  <2>5. (ServedIsWhole /\ RefusalsHaveACause /\ NothingIsLeftBehind)'
    BY <2>1 DEF ServedIsWhole, RefusalsHaveACause, NothingIsLeftBehind, Idle, TypeOK, ReadsTypeOK
  <2>6. QED
    BY <2>2, <2>3, <2>4, <2>5
<1>a. /\ pc \in Early => status = "none"
      /\ Places /\ hurt \in BOOLEAN /\ stdin \in {"none", "sending", "sent", "read", "broken"}
      /\ target \in Targets \cup {"none", "bad"} /\ (git => ~Read)
  BY CoreFacts DEF Untouched, ProcessTypeOK
<1> USE DEF Places, Statuses
<1>2. CASE Parse /\ UNCHANGED hvars
  <2>1. Parsed(url) \in Targets \cup {"bad"}
    BY DEF Parsed, parseGitDiffSpec, parseGitRawSpec, Targets, DiffKinds, Compares
  <2>2. QED
    BY <1>1, <1>a, <1>2, <2>1 DEF Parse, Targets, DiffKinds, Compares
<1>3. CASE (ReadGranted \/ ReadDenied) /\ UNCHANGED hvars
  BY <1>1, <1>a, <1>3 DEF ReadGranted, ReadDenied
<1>4. CASE (Resolve \/ ResolveMissing) /\ UNCHANGED hvars
  BY <1>1, <1>a, <1>4 DEF Resolve, ResolveMissing
<1>5. CASE (TypeIsBlob \/ TypeIsOther \/ TypeMissing) /\ UNCHANGED hvars
  BY <1>1, <1>a, <1>5 DEF TypeIsBlob, TypeIsOther, TypeMissing
<1>6. CASE (ResolveFails \/ TypeFails \/ StartReadFails) /\ UNCHANGED hvars
  BY <1>1, <1>a, <1>6 DEF ResolveFails, TypeFails, CommandFails, StartReadFails
<1>7. CASE Pushes /\ UNCHANGED hvars
  BY <1>1, <1>a, <1>7 DEF Pushes, Push, Prune, Running
<1>8. CASE Arrive /\ UNCHANGED rvars
  BY <1>1, <1>a, <1>8 DEF Arrive
<1>9. CASE (HTTPGranted \/ HTTPDenied \/ StartHTTPFails) /\ UNCHANGED rvars
  BY <1>1, <1>a, <1>9 DEF HTTPGranted, HTTPDenied, StartHTTPFails
<1>10. QED
  BY <1>2, <1>3, <1>4, <1>5, <1>6, <1>7, <1>8, <1>9

-----------------------------------------------------------------------------
(***************************************************************************)
(* The child and the client.                                               *)
(***************************************************************************)

\* A child that starts has all of its plan before it, and fails without a
\* reason of the request's only if something is hurt.
LEMMA StartCore ==
  ASSUME Inv, (StartRead /\ UNCHANGED hvars) \/ (StartHTTP /\ UNCHANGED rvars)
  PROVE  Core'
<1> USE ProcessAssumption DEF request, child, readers, hvars, rvars, Goto, Early, Read
<1>0. Core /\ TypeOK
  BY DEF Inv
<1>1. PICK p \in Plans :
        /\ Start(p)
        /\ Read /\ StartRead =>
             /\ asked' = named /\ hurt' = (hurt \/ (p.exit = "failed" /\ p.note = "other"))
             /\ p.note \in {"noBase", "other"} /\ (p.note = "noBase" => target = "dots3")
  BY DEF StartRead, StartHTTP, Arguments, ReadPlan, HTTPPlan
<1>2. /\ pc \in {"run", "start"} /\ pc' \in {"head", "copy", "read"}
      /\ pc = "run" <=> StartRead
      /\ pc = "run" => pc' = (IF target = "raw" THEN "copy" ELSE "read") /\ hurt' \in BOOLEAN
      /\ pc = "start" => pc' = "head" /\ UNCHANGED <<asked, hurt>>
      /\ UNCHANGED <<ctx, status, url, target, revs, named, over, git, werr, tail>>
  BY <1>0, <1>1 DEF StartRead, StartHTTP, Start, TypeOK, ReadsTypeOK
<1>3. /\ proc = "none" /\ pipe = Empty /\ errGot = 0 /\ got = 0 /\ ~over /\ ~kill /\ ~closed
      /\ status = "none" /\ ~werr
  BY <1>0, <1>2 DEF Core, Untouched
<1>4. /\ p.out \in Nat /\ p.out <= MaxOut /\ p.err \in Nat
      /\ p.exit \in {"ok", "failed"} /\ p.note \in {"noBase", "other", "good", "bad"}
  BY PlanTypes
<1>5. /\ proc' = "running" /\ worker' = TRUE /\ plan' = p /\ errpc' = "reading"
      /\ left' = [s \in Streams |-> IF s = "out" THEN p.out ELSE p.err]
      /\ UNCHANGED <<pipe, stdin, kill, closed, got, errGot>>
  BY <1>1 DEF Start
<1> USE <1>0, <1>2, <1>3, <1>4, <1>5 DEF Core
<1>6. (ProcessTypeOK /\ HTTPTypeOK /\ Untouched)'
  BY DEF TypeOK, ProcessTypeOK, HTTPTypeOK, Untouched, Streams
<1>7. Places'
  BY DEF Places, Ended, Ends, Targets, DiffKinds, Compares
<1>8. Flow'
  BY DEF Flow, Streams, Empty
<1>9. (ChildEnds /\ Stopped)'
  <2>1. git => target \notin Targets
    BY DEF Places, Targets, DiffKinds, Compares
  <2>2. target \in Targets => StartRead
    BY <2>1 DEF Places
  <2>3. ChildEnds'
    <3>1. Forks(p) => git
      BY <1>1, <2>2 DEF Forks, Places
    <3>2. QED
      BY <1>1, <2>2, <3>1 DEF ChildEnds, Forks
  <2>4. Stopped'
    BY DEF Stopped
  <2>5. QED
    BY <2>3, <2>4
<1>10. (ServedIsWhole /\ RefusalsHaveACause /\ NothingIsLeftBehind)'
  BY DEF ServedIsWhole, RefusalsHaveACause, NothingIsLeftBehind
<1>11. QED
  BY <1>6, <1>7, <1>8, <1>9, <1>10 DEF TypeOK, ReadsTypeOK

\* A chunk that goes from the child into the pipe is still on its way.
LEMMA FlowMoves ==
  ASSUME Flow, UNCHANGED <<ctx, over, plan, got, target>>,
         left["out"] \in Nat, pipe["out"] \in Nat, got \in Nat,
         left'["out"] = left["out"] - 1, pipe'["out"] = pipe["out"] + 1
  PROVE  Flow'
<1>1. left'["out"] + pipe'["out"] + got' = left["out"] + pipe["out"] + got
  OBVIOUS
<1>2. QED
  BY <1>1 DEF Flow

\* The child moves what it writes into a pipe and ends as planned, or killed.
LEMMA ChildCore ==
  ASSUME Inv, Child \/ Client \/ BodyBreaks, UNCHANGED <<rvars, hvars>>
  PROVE  Core'
<1> USE ProcessAssumption, CoreFacts DEF request, child, readers, hvars, rvars, Early, Read
<1>1. CASE ChildReads \/ ClientSends \/ BodyBreaks
  <2>a. /\ stdin' \in {"none", "sending", "sent", "read", "broken"}
        /\ UNCHANGED <<request, proc, worker, plan, left, pipe, readers>>
    BY <1>1 DEF ChildReads, ClientSends, BodyBreaks
  <2>0. HTTPTypeOK' /\ over' \in BOOLEAN /\ hurt' \in BOOLEAN
    BY <2>a DEF HTTPTypeOK
  <2>1. ProcessTypeOK'
    BY <2>a DEF ProcessTypeOK
  <2>2. (Untouched /\ Places)'
    BY <2>a DEF Untouched, Places, Ended, Ends, NothingIsLeftBehind
  <2>3. Flow'
    BY <2>a DEF Flow, Places, ProcessTypeOK, Streams
  <2>4. (ChildEnds /\ Stopped)'
    BY <2>a DEF ChildEnds, Forks, Stopped, Places, EOF, Ended, Ends, ProcessTypeOK, Streams
  <2>5. (ServedIsWhole /\ RefusalsHaveACause /\ NothingIsLeftBehind)'
    BY <2>a DEF ServedIsWhole, RefusalsHaveACause, NothingIsLeftBehind, Places
  <2>6. QED
    BY <2>0, <2>1, <2>2, <2>3, <2>4, <2>5 DEF Core
<1>2. ASSUME NEW s \in Streams, ChildWrites(s) PROVE Core'
  <2>a. /\ worker /\ proc \in {"running", "killed"} /\ (pc = "done" => ~ctx /\ git)
        /\ left \in [Streams -> Nat] /\ left[s] > 0
        /\ left' = [left EXCEPT ![s] = left[s] - 1]
        /\ pipe' = [pipe EXCEPT ![s] = pipe[s] + 1] /\ pipe[s] < PipeCap
        /\ UNCHANGED <<request, proc, worker, plan, stdin, readers>>
    BY <1>2 DEF ChildWrites, ProcessTypeOK, ChildEnds, NothingIsLeftBehind
  <2>0. HTTPTypeOK' /\ over' \in BOOLEAN /\ hurt' \in BOOLEAN
    BY <2>a DEF HTTPTypeOK
  <2>1. ProcessTypeOK'
    BY <2>a DEF ProcessTypeOK
  <2>2. (Untouched /\ Places)'
    BY <2>a DEF Untouched, Places, Ended, Ends, NothingIsLeftBehind
  <2>3. Flow'
    <3>1. CASE s = "out"
      BY <2>a, <3>1, FlowMoves DEF ProcessTypeOK, Streams
    <3>2. CASE s # "out"
      BY <2>a, <3>2 DEF Flow, ProcessTypeOK, Streams
    <3>3. QED
      BY <3>1, <3>2
  <2>4. (ChildEnds /\ Stopped)'
    BY <2>a DEF ChildEnds, Forks, Stopped, Places, EOF, Ended, Ends, ProcessTypeOK, Streams
  <2>5. (ServedIsWhole /\ RefusalsHaveACause /\ NothingIsLeftBehind)'
    BY <2>a DEF ServedIsWhole, RefusalsHaveACause, NothingIsLeftBehind, Places
  <2>6. QED
    BY <2>0, <2>1, <2>2, <2>3, <2>4, <2>5 DEF Core
<1>3. CASE ChildExits \/ ChildBreaks \/ ChildDies
  <2>a. /\ worker' \in BOOLEAN /\ (worker' => proc' = "killed" /\ git /\ ~ctx)
        /\ \/ proc = "running" /\ proc' = plan.exit /\ left = Empty
           \/ proc = "running" /\ proc' = "killed" /\ (~ctx \/ kill)
           \/ proc' = proc /\ proc # "running"
        /\ UNCHANGED <<request, plan, left, pipe, stdin, readers>>
    <3>1. CASE ChildExits
      BY <3>1 DEF ChildExits
    <3>2. CASE ChildBreaks
      <4>1. proc # "running"
        BY <3>2 DEF ChildBreaks, ChildEnds
      <4>2. QED
        BY <3>2, <4>1 DEF ChildBreaks
    <3>3. CASE ChildDies
      <4>1. worker' \in BOOLEAN /\ (worker' => git)
        BY <3>3, Zenon DEF ChildDies, ChildEnds
      <4>2. worker' => ~ctx
        BY <3>3, <4>1, Zenon DEF ChildDies, ChildEnds
      <4>3. QED
        BY <3>3, <4>1, <4>2 DEF ChildDies
    <3>4. QED
      BY <1>3, <3>1, <3>2, <3>3
  <2>0. HTTPTypeOK' /\ over' \in BOOLEAN /\ hurt' \in BOOLEAN
    BY <2>a DEF HTTPTypeOK
  <2>1. ProcessTypeOK'
    BY <2>a DEF ProcessTypeOK, Ends
  <2>2. (Untouched /\ Places)'
    BY <2>a DEF Untouched, Places, ChildEnds, Ended, Ends, NothingIsLeftBehind
  <2>3. Flow'
    BY <2>a DEF Flow
  <2>4. (ChildEnds /\ Stopped)'
    BY <2>a DEF ChildEnds, Forks, Stopped, Places, EOF
  <2>5. (ServedIsWhole /\ RefusalsHaveACause /\ NothingIsLeftBehind)'
    BY <2>a DEF ServedIsWhole, RefusalsHaveACause, NothingIsLeftBehind, Places
  <2>6. QED
    BY <2>0, <2>1, <2>2, <2>3, <2>4, <2>5 DEF Core
<1>4. CASE Cancel
  <2>0. HTTPTypeOK' /\ over' \in BOOLEAN /\ hurt' \in BOOLEAN
    BY <1>4 DEF Cancel, HTTPTypeOK
  <2>1. ProcessTypeOK'
    BY <1>4 DEF Cancel, ProcessTypeOK
  <2>2. (Untouched /\ Places)'
    BY <1>4 DEF Cancel, Untouched, Places, Ended, Ends, NothingIsLeftBehind
  <2>3. Flow'
    BY <1>4 DEF Cancel, Flow, Places, ProcessTypeOK, Streams
  <2>4. (ChildEnds /\ Stopped)'
    BY <1>4 DEF Cancel, ChildEnds, Forks, Stopped, Places, EOF, Ended, Ends, ProcessTypeOK, Streams
  <2>5. (ServedIsWhole /\ RefusalsHaveACause /\ NothingIsLeftBehind)'
    BY <1>4 DEF Cancel, ServedIsWhole, RefusalsHaveACause, NothingIsLeftBehind, Places
  <2>6. QED
    BY <2>0, <2>1, <2>2, <2>3, <2>4, <2>5 DEF Core
<1>5. QED
  BY <1>1, <1>2, <1>3, <1>4 DEF Child, Client, Streams

\* The goroutine on stderr takes chunks that nothing here counts, and ends.
LEMMA StderrCore ==
  ASSUME Inv,
         \/ (ReadStderr \/ ReadStderrEnds) /\ UNCHANGED hvars
         \/ (HTTPStderr \/ HTTPStderrEnds) /\ UNCHANGED rvars
  PROVE  Core'
<1> USE ProcessAssumption, CoreFacts DEF request, child, readers, hvars, rvars, Early, Read
<1>1. CASE (ReadStderr /\ UNCHANGED hvars) \/ (HTTPStderr /\ UNCHANGED rvars)
  <2>a. /\ pc # "done" /\ errpc # "none" /\ pipe["err"] > 0 /\ errGot' \in 0..ErrLimit
        /\ pipe' = [pipe EXCEPT !["err"] = pipe["err"] - 1]
        /\ UNCHANGED <<request, proc, worker, plan, left, stdin, kill, closed, got, errpc,
                       rvars, hvars>>
    BY <1>1 DEF ReadStderr, HTTPStderr, TakeErr, Capped, ProcessTypeOK, NothingIsLeftBehind
  <2>0. HTTPTypeOK' /\ over' \in BOOLEAN /\ hurt' \in BOOLEAN
    BY <2>a DEF HTTPTypeOK
  <2>1. ProcessTypeOK'
    BY <2>a DEF ProcessTypeOK, Streams
  <2>2. (Untouched /\ Places)'
    BY <2>a DEF Untouched, Places, Ended, Ends, NothingIsLeftBehind
  <2>3. Flow'
    BY <2>a DEF Flow, Places, ProcessTypeOK, Streams
  <2>4. (ChildEnds /\ Stopped)'
    BY <2>a DEF ChildEnds, Forks, Stopped, Places, EOF, Ended, Ends, ProcessTypeOK, Streams
  <2>5. (ServedIsWhole /\ RefusalsHaveACause /\ NothingIsLeftBehind)'
    BY <2>a DEF ServedIsWhole, RefusalsHaveACause, NothingIsLeftBehind, Places
  <2>6. QED
    BY <2>0, <2>1, <2>2, <2>3, <2>4, <2>5 DEF Core
<1>2. CASE (ReadStderrEnds /\ UNCHANGED hvars) \/ (HTTPStderrEnds /\ UNCHANGED rvars)
  <2>a. /\ pc # "done" /\ errpc = "reading" /\ errpc' = "done"
        /\ UNCHANGED <<request, child, kill, closed, got, errGot, rvars, hvars>>
    BY <1>2 DEF ReadStderrEnds, HTTPStderrEnds, ErrReaderEnds, NothingIsLeftBehind
  <2>0. HTTPTypeOK' /\ over' \in BOOLEAN /\ hurt' \in BOOLEAN
    BY <2>a DEF HTTPTypeOK
  <2>1. ProcessTypeOK'
    BY <2>a DEF ProcessTypeOK
  <2>2. (Untouched /\ Places)'
    BY <2>a DEF Untouched, Places, Ended, Ends, NothingIsLeftBehind
  <2>3. Flow'
    BY <2>a DEF Flow, Places, ProcessTypeOK, Streams
  <2>4. (ChildEnds /\ Stopped)'
    BY <2>a DEF ChildEnds, Forks, Stopped, Places, EOF, Ended, Ends, ProcessTypeOK, Streams
  <2>5. (ServedIsWhole /\ RefusalsHaveACause /\ NothingIsLeftBehind)'
    BY <2>a DEF ServedIsWhole, RefusalsHaveACause, NothingIsLeftBehind, Places
  <2>6. QED
    BY <2>0, <2>1, <2>2, <2>3, <2>4, <2>5 DEF Core
<1>3. QED
  BY <1>1, <1>2

-----------------------------------------------------------------------------
(***************************************************************************)
(* Reading stdout, and the answers.                                        *)
(***************************************************************************)

\* Every chunk that leaves the pipe reaches the handler, a full buffer or a
\* client that is gone; a handler stops at the limit, at the end of the output
\* or with an error.
LEMMA StdoutCore ==
  ASSUME Inv,
         \/ (ReadDiff \/ DiffRead \/ WaitDiff \/ CopyRaw) /\ UNCHANGED hvars
         \/ /\ UNCHANGED rvars
            /\ Headers \/ BadHeaders \/ NoHeaders \/ CopyBody \/ BodyFails \/ BodyEnds \/ WaitHTTP
  PROVE  Core'
<1> USE ProcessAssumption, CoreFacts DEF request, child, readers, hvars, rvars, Goto, Early, Read
<1>0. ASSUME Take
      PROVE  /\ pipe' \in [Streams -> 0..PipeCap] /\ pipe["out"] \in Nat /\ left["out"] \in Nat
             /\ pipe["out"] > 0 /\ pipe'["out"] = pipe["out"] - 1 /\ got \in Nat
  BY <1>0 DEF Take, ProcessTypeOK, Streams
<1>1. CASE \/ (ReadDiff /\ UNCHANGED hvars)
           \/ ((Headers \/ BadHeaders \/ CopyBody) /\ UNCHANGED rvars)
  <2>a. /\ Take /\ got' = got + 1
        /\ UNCHANGED <<ctx, proc, worker, plan, left, stdin, kill, closed, errpc, errGot,
                       rvars, git, tail>>
    BY <1>1 DEF ReadDiff, Headers, BadHeaders, CopyBody, Places
  <2>b. \/ pc = "read" /\ UNCHANGED <<pc, status, werr>>
        \/ pc = "head" /\ pc' = "body" /\ status' = "ok" /\ UNCHANGED werr
        \/ pc = "head" /\ pc' = "wait" /\ werr' = TRUE /\ UNCHANGED status
        \/ pc = "body" /\ UNCHANGED <<pc, status, werr>>
    BY <1>1 DEF ReadDiff, Headers, BadHeaders, CopyBody
  <2>0. HTTPTypeOK' /\ over' \in BOOLEAN /\ hurt' \in BOOLEAN
    BY <2>a, <2>b DEF HTTPTypeOK
  <2>1. ProcessTypeOK'
    <3>1. got' \in 0..MaxOut
      BY <1>0, <2>a DEF Flow
    <3>2. QED
      BY <1>0, <2>a, <2>b, <3>1 DEF ProcessTypeOK, Statuses
  <2>2. (Untouched /\ Places)'
    BY <1>0, <2>a, <2>b DEF Untouched, Places, Ended, Ends, NothingIsLeftBehind
  <2>3. Flow'
    BY <1>0, <2>a, <2>b DEF Flow, Places, ProcessTypeOK, Streams
  <2>4. (ChildEnds /\ Stopped)'
    BY <1>0, <2>a, <2>b DEF ChildEnds, Forks, Stopped, Places, EOF, Ended, Ends, ProcessTypeOK,
         Streams
  <2>5. (ServedIsWhole /\ RefusalsHaveACause /\ NothingIsLeftBehind)'
    BY <1>0, <2>a, <2>b DEF ServedIsWhole, RefusalsHaveACause, NothingIsLeftBehind, Places
  <2>6. QED
    BY <2>0, <2>1, <2>2, <2>3, <2>4, <2>5 DEF Core
<1>2. CASE CopyRaw /\ UNCHANGED hvars
  <2>a. /\ pc = "copy" /\ target = "raw" /\ Take /\ got' = Capped(got, Cap)
        /\ over' = (over \/ got >= Cap) /\ got <= Cap
        /\ UNCHANGED <<request, proc, worker, plan, left, stdin, kill, closed, errpc, errGot,
                       hvars>>
        /\ UNCHANGED <<url, target, revs, named, asked, repo, hurt>>
    BY <1>2 DEF CopyRaw, Places, Flow
  <2>b. \/ got < Cap /\ got' = got + 1 /\ over' = over
        \/ got = Cap /\ got' = got /\ over' = TRUE
    <3>1. got \in Nat
      BY <1>0, <2>a
    <3>2. CASE got < Cap
      BY <2>a, <3>1, <3>2 DEF Capped
    <3>3. CASE got = Cap
      <4>1. got' = got /\ got >= Cap
        BY <2>a, <3>1, <3>3 DEF Capped
      <4>2. over' = TRUE
        BY ONLY <2>a, <4>1, Zenon
      <4>3. QED
        BY <3>3, <4>1, <4>2
    <3>4. got < Cap \/ got = Cap
      BY <2>a, <3>1
    <3>5. QED
      BY <3>2, <3>3, <3>4
  <2>0. HTTPTypeOK' /\ over' \in BOOLEAN /\ hurt' \in BOOLEAN
    BY <1>0, <2>a, <2>b DEF HTTPTypeOK
  <2>1. ProcessTypeOK'
    <3>1. got' \in 0..MaxOut
      BY <1>0, <2>a, <2>b DEF Flow, ProcessTypeOK
    <3>2. QED
      BY <1>0, <2>a, <3>1 DEF ProcessTypeOK
  <2>2. (Untouched /\ Places)'
    BY <1>0, <2>a, <2>b DEF Untouched, Places, Ended, Ends, NothingIsLeftBehind
  <2>3. Flow'
    BY <1>0, <2>a, <2>b DEF Flow, Places, ProcessTypeOK, Streams
  <2>4. (ChildEnds /\ Stopped)'
    BY <1>0, <2>a, <2>b DEF ChildEnds, Forks, Stopped, Places, EOF, Ended, Ends, ProcessTypeOK,
         Streams
  <2>5. (ServedIsWhole /\ RefusalsHaveACause /\ NothingIsLeftBehind)'
    BY <1>0, <2>a, <2>b DEF ServedIsWhole, RefusalsHaveACause, NothingIsLeftBehind, Places
  <2>6. QED
    BY <2>0, <2>1, <2>2, <2>3, <2>4, <2>5 DEF Core
<1>3. CASE BodyFails /\ UNCHANGED rvars
  <2>0. HTTPTypeOK' /\ over' \in BOOLEAN /\ hurt' \in BOOLEAN
    BY <1>0, <1>3 DEF BodyFails, HTTPTypeOK
  <2>1. ProcessTypeOK'
    BY <1>0, <1>3 DEF BodyFails, ProcessTypeOK
  <2>2. (Untouched /\ Places)'
    BY <1>0, <1>3 DEF BodyFails, Untouched, Places, Ended, Ends, NothingIsLeftBehind
  <2>3. Flow'
    BY <1>0, <1>3 DEF BodyFails, Flow, Places, ProcessTypeOK, Streams
  <2>4. (ChildEnds /\ Stopped)'
    BY <1>0, <1>3 DEF BodyFails, ChildEnds, Forks, Stopped, Places, EOF, Ended, Ends, ProcessTypeOK,
         Streams
  <2>5. (ServedIsWhole /\ RefusalsHaveACause /\ NothingIsLeftBehind)'
    BY <1>0, <1>3 DEF BodyFails, ServedIsWhole, RefusalsHaveACause, NothingIsLeftBehind, Places
  <2>6. QED
    BY <2>0, <2>1, <2>2, <2>3, <2>4, <2>5 DEF Core
<1>4. CASE DiffRead /\ UNCHANGED hvars
  <2>0. HTTPTypeOK' /\ over' \in BOOLEAN /\ hurt' \in BOOLEAN
    BY <1>4 DEF DiffRead, KillIfTooLarge, DiffLimit, HTTPTypeOK
  <2>1. ProcessTypeOK'
    BY <1>4 DEF DiffRead, KillIfTooLarge, DiffLimit, ProcessTypeOK
  <2>2. (Untouched /\ Places)'
    BY <1>4 DEF DiffRead, KillIfTooLarge, DiffLimit, Untouched, Places, Ended, Ends,
         NothingIsLeftBehind
  <2>3. Flow'
    BY <1>4 DEF DiffRead, KillIfTooLarge, DiffLimit, Flow, Places, ProcessTypeOK, Streams
  <2>4. (ChildEnds /\ Stopped)'
    BY <1>4 DEF DiffRead, KillIfTooLarge, DiffLimit, ChildEnds, Forks, Stopped, Places, EOF, Ended,
         Ends, ProcessTypeOK, Streams
  <2>5. (ServedIsWhole /\ RefusalsHaveACause /\ NothingIsLeftBehind)'
    BY <1>4 DEF DiffRead, KillIfTooLarge, DiffLimit, ServedIsWhole, RefusalsHaveACause,
         NothingIsLeftBehind, Places
  <2>6. QED
    BY <2>0, <2>1, <2>2, <2>3, <2>4, <2>5 DEF Core
<1>5. CASE (NoHeaders \/ BodyEnds) /\ UNCHANGED rvars
  <2>0. HTTPTypeOK' /\ over' \in BOOLEAN /\ hurt' \in BOOLEAN
    BY <1>5 DEF NoHeaders, BodyEnds, HTTPTypeOK
  <2>1. ProcessTypeOK'
    BY <1>5 DEF NoHeaders, BodyEnds, ProcessTypeOK
  <2>2. (Untouched /\ Places)'
    BY <1>5 DEF NoHeaders, BodyEnds, Untouched, Places, Ended, Ends, NothingIsLeftBehind
  <2>3. Flow'
    BY <1>5 DEF NoHeaders, BodyEnds, Flow, Places, ProcessTypeOK, Streams
  <2>4. (ChildEnds /\ Stopped)'
    BY <1>5 DEF NoHeaders, BodyEnds, ChildEnds, Forks, Stopped, Places, EOF, Ended, Ends,
         ProcessTypeOK, Streams
  <2>5. (ServedIsWhole /\ RefusalsHaveACause /\ NothingIsLeftBehind)'
    BY <1>5 DEF NoHeaders, BodyEnds, ServedIsWhole, RefusalsHaveACause, NothingIsLeftBehind,
         Places
  <2>6. QED
    BY <2>0, <2>1, <2>2, <2>3, <2>4, <2>5 DEF Core
<1>6. CASE (WaitDiff /\ UNCHANGED hvars) \/ (WaitHTTP /\ UNCHANGED rvars)
  <2>0. HTTPTypeOK' /\ over' \in BOOLEAN /\ hurt' \in BOOLEAN
    BY <1>6 DEF WaitDiff, WaitHTTP, Wait, HTTPTypeOK
  <2>1. ProcessTypeOK'
    BY <1>6 DEF WaitDiff, WaitHTTP, Wait, ProcessTypeOK
  <2>2. (Untouched /\ Places)'
    BY <1>6 DEF WaitDiff, WaitHTTP, Wait, Untouched, Places, Ended, Ends, NothingIsLeftBehind
  <2>3. Flow'
    BY <1>6 DEF WaitDiff, WaitHTTP, Wait, Flow, Places, ProcessTypeOK, Streams
  <2>4. (ChildEnds /\ Stopped)'
    BY <1>6 DEF WaitDiff, WaitHTTP, Wait, ChildEnds, Forks, Stopped, Places, EOF, Ended, Ends,
         ProcessTypeOK, Streams
  <2>5. (ServedIsWhole /\ RefusalsHaveACause /\ NothingIsLeftBehind)'
    BY <1>6 DEF WaitDiff, WaitHTTP, Wait, ServedIsWhole, RefusalsHaveACause, NothingIsLeftBehind,
         Places
  <2>6. QED
    BY <2>0, <2>1, <2>2, <2>3, <2>4, <2>5 DEF Core
<1>7. QED
  BY <1>1, <1>2, <1>3, <1>4, <1>5, <1>6

\* The answers are right about what the child did.
LEMMA AnswerCore ==
  ASSUME Inv,
         \/ (AnswerDiff \/ AnswerRaw \/ RawFails) /\ UNCHANGED hvars
         \/ Finish /\ UNCHANGED rvars
  PROVE  Core'
<1> USE ProcessAssumption, CoreFacts DEF request, child, readers, hvars, rvars, Goto, Answer, Early,
                                         Read
\* The child has ended, and nothing but the answer changes.
<1> DEFINE Over ==
      /\ pc \in {"join", "copy"} /\ pc' = "done" /\ status' \in Statuses
      /\ errpc = "done" /\ Ended /\ tail' \in BOOLEAN
      /\ UNCHANGED <<ctx, child, readers, rvars, git, werr>>
<1>0. ASSUME Over, (ServedIsWhole /\ RefusalsHaveACause)', tail' => git
      PROVE  Core'
  <2>0. HTTPTypeOK' /\ over' \in BOOLEAN /\ hurt' \in BOOLEAN
    BY <1>0 DEF HTTPTypeOK
  <2>1. ProcessTypeOK'
    BY <1>0 DEF ProcessTypeOK
  <2>2. (Untouched /\ Places)'
    BY <1>0 DEF Untouched, Places
  <2>3. (Flow /\ ChildEnds /\ Stopped /\ NothingIsLeftBehind)'
    BY <1>0 DEF Flow, ChildEnds, Stopped, NothingIsLeftBehind, Ended, Ends
  <2>4. QED
    BY <1>0, <2>0, <2>1, <2>2, <2>3 DEF Core
\* All that a child wrote that ended on its own and was read to the end.
<1>a. ctx /\ ~over /\ EOF("out") /\ Ended /\ proc # "killed" => got = plan.out
  <2>1. ASSUME EOF("out"), Ended, proc # "killed" PROVE left["out"] = 0 /\ pipe["out"] = 0
    BY <2>1 DEF ChildEnds, EOF, Ended, Ends, Empty, Streams
  <2>2. QED
    BY <2>1 DEF Flow, ProcessTypeOK
\* A child that failed.
<1>b. ctx /\ Ended /\ proc # "ok" /\ Read /\ ~kill => hurt \/ plan.note = "noBase"
  BY DEF ChildEnds, Ended, Ends
<1>1. CASE AnswerDiff /\ UNCHANGED hvars
  <2>1. /\ pc = "join" /\ Read /\ target # "raw" /\ errpc = "done" /\ status' = DiffAnswer
        /\ pc' = "done" /\ UNCHANGED <<ctx, child, readers, rvars, hvars>>
    BY <1>1 DEF AnswerDiff
  <2>2. Ended /\ ~tail /\ asked = named /\ ~over /\ (got > Cap \/ EOF("out")) /\ proc # "none"
    BY <2>1 DEF Places, Stopped, ChildEnds, Ended, Ends
  <2>3. got \in Nat
    BY DEF ProcessTypeOK
  <2>4. status' \in Statuses /\ (ServedIsWhole /\ RefusalsHaveACause)'
    <3>1. CASE got > Cap
      <4>1. status' = "tooLarge" /\ plan.out > Cap
        BY <2>1, <2>3, <3>1 DEF DiffAnswer, Flow, ProcessTypeOK, Streams
      <4>2. QED
        BY <2>1, <2>2, <4>1 DEF ServedIsWhole, RefusalsHaveACause, Statuses
    <3>2. CASE got <= Cap /\ ~ctx
      BY <2>1, <2>3, <3>2 DEF DiffAnswer, ServedIsWhole, RefusalsHaveACause, Statuses
    <3>3. CASE got <= Cap /\ ctx /\ proc = "ok"
      <4>1. got = plan.out /\ status' = "ok"
        BY <1>a, <2>1, <2>2, <2>3, <3>3 DEF DiffAnswer
      <4>2. QED
        BY <2>1, <2>2, <3>3, <4>1 DEF ServedIsWhole, RefusalsHaveACause, Statuses
    <3>4. CASE got <= Cap /\ ctx /\ proc # "ok"
      <4>1. ~kill
        BY <2>3, <3>4 DEF ChildEnds
      <4>2. hurt \/ plan.note = "noBase"
        BY <1>b, <2>1, <2>2, <3>4, <4>1
      <4>3. status' = IF SaysNoBase THEN "conflict" ELSE "error"
        BY <2>1, <2>3, <3>4 DEF DiffAnswer
      <4>4. status' = "error" => hurt \/ (plan.note = "noBase" /\ errGot = 0)
        BY <4>2, <4>3 DEF SaysNoBase, ProcessTypeOK
      <4>5. QED
        BY <2>1, <3>4, <4>3, <4>4 DEF ServedIsWhole, RefusalsHaveACause, Statuses
    <3>5. QED
      BY <2>3, <3>1, <3>2, <3>3, <3>4
  <2>5. QED
    BY <1>0, <2>1, <2>2, <2>4 DEF HTTPTypeOK
<1>2. CASE AnswerRaw /\ UNCHANGED hvars
  <2>1. /\ pc = "copy" /\ errpc = "done" /\ proc = "ok" /\ EOF("out") /\ pc' = "done"
        /\ status' = (IF over THEN "tooLarge" ELSE "ok")
        /\ UNCHANGED <<ctx, child, readers, rvars, hvars>>
    BY <1>2 DEF AnswerRaw, RawAnswer, RunEnded
  <2>2. Read /\ target = "raw" /\ ~tail /\ asked = named /\ got <= Cap /\ got \in Nat
    BY <2>1 DEF Places, Stopped, ChildEnds, Flow, ProcessTypeOK
  <2>3. over => plan.out > Cap
    BY DEF Flow
  <2>4. ~over /\ ctx => got = plan.out
    BY <1>a, <2>1 DEF Ended, Ends
  <2>5. status' \in Statuses /\ (ServedIsWhole /\ RefusalsHaveACause)'
    BY <2>1, <2>2, <2>3, <2>4 DEF ServedIsWhole, RefusalsHaveACause, Statuses
  <2>6. QED
    BY <1>0, <2>1, <2>2, <2>5 DEF HTTPTypeOK, Ended, Ends
<1>3. CASE RawFails /\ UNCHANGED hvars
  <2>1. /\ pc = "copy" /\ errpc = "done" /\ Ended /\ (proc # "ok" \/ ~ctx) /\ pc' = "done"
        /\ status' = "error" /\ UNCHANGED <<ctx, child, readers, rvars, hvars>>
    BY <1>3 DEF RawFails, RunEnded, EOF
  <2>2. Read /\ target = "raw" /\ ~kill /\ ~tail /\ proc # "none"
    BY <2>1 DEF Places, Stopped, ChildEnds, Ended, Ends
  <2>3. ctx => hurt
    BY <1>b, <2>1, <2>2 DEF ChildEnds
  <2>4. status' \in Statuses /\ (ServedIsWhole /\ RefusalsHaveACause)'
    BY <2>1, <2>3 DEF ServedIsWhole, RefusalsHaveACause, Statuses
  <2>5. QED
    BY <1>0, <2>1, <2>2, <2>4 DEF HTTPTypeOK
<1>4. CASE Finish /\ UNCHANGED rvars
  <2>1. /\ git /\ pc = "join" /\ errpc = "done" /\ pc' = "done"
        /\ status' = (IF HTTPFailed /\ status = "none" THEN "error" ELSE status)
        /\ tail' = (HTTPFailed /\ status # "none")
        /\ UNCHANGED <<ctx, child, readers, rvars, git, werr>>
    BY <1>4 DEF Finish
  <2>2. Ended /\ ~Read /\ ~over /\ ~kill /\ status \in {"none", "ok"}
    BY <2>1 DEF Places, Stopped, ChildEnds
  <2>3. status' = "ok" /\ ctx => got = plan.out /\ ~tail'
    <3>1. ASSUME status' = "ok", ctx PROVE EOF("out") /\ ~werr /\ status = "ok"
      BY <2>1, <2>2, <3>1 DEF Stopped
    <3>2. proc = "killed" => ~ctx
      BY <2>2 DEF ChildEnds
    <3>3. QED
      BY <1>a, <2>1, <2>2, <3>1, <3>2 DEF HTTPFailed
  <2>4. status' \in Statuses /\ tail' \in BOOLEAN /\ (ServedIsWhole /\ RefusalsHaveACause)'
    BY <2>1, <2>2, <2>3 DEF ServedIsWhole, RefusalsHaveACause, Statuses
  <2>5. QED
    BY <1>0, <2>1, <2>2, <2>4
<1>5. QED
  BY <1>1, <1>2, <1>3, <1>4

-----------------------------------------------------------------------------
\* No step but those of Parse and Resolve touches the ids of a request, and
\* Resolve names one commit for one id.
LEMMA StepIDs == Inv /\ [Next]_vars => ReadsTypeOK' /\ Resolving'
<1> SUFFICES ASSUME Inv, [Next]_vars PROVE ReadsTypeOK' /\ Resolving'
  OBVIOUS
<1> USE DEF request, child, readers, pvars, hvars, rvars, Goto, Answer, Inv, TypeOK, ReadsTypeOK,
            Resolving, Read
<1>1. CASE Parse
  <2>1. Parsed(url) \in Targets \cup {"bad"}
    BY DEF Parsed, parseGitDiffSpec, parseGitRawSpec, Targets, DiffKinds, Compares
  <2>2. revs' \in Seq(Abbrevs) /\ (target' # "bad" => Len(revs') > 0)
    <3>1. \A n \in Nat : [1..n -> Abbrevs] \subseteq Seq(Abbrevs)
      OBVIOUS
    <3>2. CASE target' = "bad"
      BY <1>1, <3>2 DEF Parse
    <3>3. CASE target' # "bad"
      <4>1. revs' \in [1..1 -> Abbrevs] \/ revs' \in [1..2 -> Abbrevs]
        BY <1>1, <3>3 DEF Parse
      <4>2. 1 \in Nat /\ 2 \in Nat
        OBVIOUS
      <4>3. revs' \in Seq(Abbrevs)
        BY <3>1, <4>1, <4>2
      <4>4. Len(revs') > 0
        BY <4>1, <4>3
      <4>5. QED
        BY <4>3, <4>4, Zenon
    <3>4. QED
      BY <3>2, <3>3
  <2>3. QED
    BY <1>1, <2>1, <2>2 DEF Parse
<1>2. CASE Resolve
  BY <1>2 DEF Resolve
<1>3. CASE StartRead
  BY <1>3 DEF StartRead, Arguments, Start
<1>4. CASE ReadGranted
  BY <1>4 DEF ReadGranted
<1>5. CASE CopyRaw
  BY <1>5 DEF CopyRaw, Core
<1>6. CASE Pushes
  BY <1>6 DEF Pushes, Push, Prune
<1>7. CASE ResolveFails \/ TypeFails \/ StartReadFails
  BY <1>7 DEF ResolveFails, TypeFails, StartReadFails, CommandFails
<1>8. ASSUME UNCHANGED rvars, pc' = pc \/ pc' \notin {"idle", "access", "resolve"}
      PROVE  ReadsTypeOK' /\ Resolving'
  BY <1>8
<1>9. CASE Backend /\ UNCHANGED rvars
  <2>1. CASE Arrive
    BY <1>9, <2>1 DEF Arrive, Core, Places, Targets, DiffKinds, Compares
  <2>2. CASE ~Arrive
    BY <1>8, <1>9, <2>2 DEF Backend, HTTPGranted, HTTPDenied, StartHTTP, StartHTTPFails, Headers,
         BadHeaders, NoHeaders, CopyBody, BodyFails, BodyEnds, HTTPStderr, HTTPStderrEnds, TakeErr,
         ErrReaderEnds, WaitHTTP, Wait, Finish
  <2>3. QED
    BY <2>1, <2>2
<1>10. CASE (Child \/ Client \/ BodyBreaks) /\ UNCHANGED <<rvars, hvars>>
  BY <1>8, <1>10 DEF Child, Client, BodyBreaks, ChildReads, ChildWrites, ChildExits, ChildBreaks,
       ChildDies, ClientSends, Cancel
<1>11. CASE \/ ReadDenied \/ ResolveMissing \/ TypeIsBlob \/ TypeIsOther \/ TypeMissing
            \/ ReadStderr \/ ReadStderrEnds \/ ReadDiff \/ DiffRead \/ WaitDiff \/ AnswerDiff
            \/ AnswerRaw \/ RawFails
  BY <1>8, <1>11 DEF ReadDenied, ResolveMissing, TypeIsBlob, TypeIsOther, TypeMissing, ReadStderr,
       TakeErr, ReadStderrEnds, ErrReaderEnds, ReadDiff, DiffRead, WaitDiff, Wait, AnswerDiff,
       AnswerRaw, RawFails
<1>12. CASE UNCHANGED vars
  BY <1>8, <1>12 DEF vars
<1>13. QED
  BY <1>1, <1>2, <1>3, <1>4, <1>5, <1>6, <1>7, <1>9, <1>10, <1>11, <1>12 DEF Next, Reads

\* A handler goes from place to place.
LEMMA StepPc == Inv /\ [Next]_vars =>
  pc' \in {"idle", "access", "resolve", "type", "run", "read", "copy",
           "start", "head", "body", "wait", "join", "done"}
<1> SUFFICES ASSUME Inv, [Next]_vars
             PROVE  pc' \in {"idle", "access", "resolve", "type", "run", "read", "copy",
                             "start", "head", "body", "wait", "join", "done"}
  OBVIOUS
<1> USE DEF Inv, TypeOK, request, pvars, Goto, Answer
<1>1. CASE Reads
  BY <1>1 DEF Reads, Parse, ReadGranted, ReadDenied, Resolve, ResolveMissing, ResolveFails,
       TypeIsBlob, TypeIsOther, TypeMissing, TypeFails, StartRead, StartReadFails, ReadStderr,
       TakeErr, ReadStderrEnds, ErrReaderEnds, ReadDiff, DiffRead, WaitDiff, Wait, AnswerDiff,
       CopyRaw, AnswerRaw, RawFails
<1>2. CASE Pushes
  BY <1>2 DEF Pushes, Push, Prune
<1>3. CASE Backend
  BY <1>3 DEF Backend, Arrive, HTTPGranted, HTTPDenied, StartHTTP, StartHTTPFails, Headers,
       BadHeaders, NoHeaders, CopyBody, BodyFails, BodyEnds, HTTPStderr, HTTPStderrEnds, TakeErr,
       ErrReaderEnds, WaitHTTP, Wait, Finish
<1>4. CASE Child \/ Client \/ BodyBreaks
  BY <1>4 DEF Child, Client, BodyBreaks, ChildReads, ChildWrites, ChildExits, ChildBreaks,
       ChildDies, ClientSends, Cancel
<1>5. CASE UNCHANGED vars
  BY <1>5 DEF vars
<1>6. QED
  BY <1>1, <1>2, <1>3, <1>4, <1>5 DEF Next

\* A step that changes nothing keeps everything.
LEMMA StutterCore == Inv /\ UNCHANGED vars => Core'
BY DEF Inv, Core, vars, pvars, rvars, hvars, request, child, readers, ProcessTypeOK, HTTPTypeOK,
       Untouched, Places, Flow, ChildEnds, Stopped, ServedIsWhole, RefusalsHaveACause,
       NothingIsLeftBehind, Ended, EOF, Read

\* Inv is inductive.
LEMMA InvHolds == Spec => []Inv
<1>1. ASSUME Inv, [Next]_vars PROVE Inv'
  <2>1. Core'
    <3>1. CASE Reads /\ UNCHANGED hvars
      BY <1>1, <3>1, EarlyCore, StartCore, StderrCore, StdoutCore, AnswerCore DEF Reads
    <3>2. CASE Pushes /\ UNCHANGED hvars
      BY <1>1, <3>2, EarlyCore
    <3>3. CASE Backend /\ UNCHANGED rvars
      BY <1>1, <3>3, EarlyCore, StartCore, StderrCore, StdoutCore, AnswerCore DEF Backend
    <3>4. CASE (Child \/ Client \/ BodyBreaks) /\ UNCHANGED <<rvars, hvars>>
      BY <1>1, <3>4, ChildCore
    <3>5. QED
      BY <1>1, <3>1, <3>2, <3>3, <3>4, StutterCore DEF Next
  <2>2. ReadsTypeOK' /\ Resolving'
    BY <1>1, StepIDs
  <2>3. TypeOK'
    BY <1>1, <2>1, <2>2, StepPc DEF TypeOK, Core
  <2>4. QED
    BY <2>1, <2>2, <2>3 DEF Inv
<1>2. QED
  BY <1>1, InitInv, PTL DEF Spec

-----------------------------------------------------------------------------
(***************************************************************************)
(* What the run checks, for every instance.                                *)
(***************************************************************************)

\* The request, the child, its pipes and its readers keep their types; the
\* counts of chunks stay within what pipes, limits and outputs allow.
THEOREM TypeCorrect == Spec => []TypeOK
BY InvHolds, PTL DEF Inv

\* A 200 that ServeHTTPGit, ServeGitDiff or ServeGitRawFile sends to a client
\* that is still there is all of the child's output and nothing else.
THEOREM AnswersAreWhole == Spec => []ServedIsWhole
BY InvHolds, PTL DEF Inv, Core

\* ServeGitDiff and ServeGitRawFile refuse a request only for what is the case.
THEOREM RefusalsAreJustified == Spec => []RefusalsHaveACause
BY InvHolds, PTL DEF Inv, Core

\* No handler returns before the process it started has ended and its stderr
\* goroutine too; of http-backend's own processes some may go on if the client
\* left, of a diff's or a raw file's none.
THEOREM NothingOutlivesARequest == Spec => []NothingIsLeftBehind
BY InvHolds, PTL DEF Inv, Core

-----------------------------------------------------------------------------
\* Of the steps of a request only that of parsing takes its URL.
LEMMA OnlyParseTakesURL ==
  ASSUME [Next]_vars, url # NoURL, url' = NoURL
  PROVE  target' = Parsed(url)
<1> USE DEF rvars
<1>1. CASE Reads
  BY <1>1 DEF Reads, Parse, ReadGranted, ReadDenied, Resolve, ResolveMissing, ResolveFails,
       TypeIsBlob, TypeIsOther, TypeMissing, TypeFails, StartRead, StartReadFails, ReadStderr,
       ReadStderrEnds, ReadDiff, DiffRead, WaitDiff, AnswerDiff, CopyRaw, AnswerRaw, RawFails,
       CommandFails
<1>2. CASE Pushes
  BY <1>2 DEF Pushes, Push, Prune
<1>3. CASE UNCHANGED rvars
  BY <1>3
<1>4. QED
  BY <1>1, <1>2, <1>3 DEF Next, vars

\* A text is a sequence of characters.
LEMMA TextsAreSeqs == Texts \subseteq Seq(Chars)
<1>1. ASSUME NEW t \in Texts PROVE t \in Seq(Chars)
  <2>1. PICK n \in 0..MaxText : t \in [1..n -> Chars]
    BY DEF Texts
  <2>2. n \in Nat
    BY SpecsAssumption
  <2>3. QED
    BY <2>1, <2>2, SeqDef
<1>2. QED
  BY <1>1

\* parseGitDiffSpec and parseGitRawSpec take a URL for exactly the documented
\* form that it has, and refuse it if it has none.
THEOREM ParserIsExact == Spec => ParseIsExact
<1>1. ASSUME Inv, [Next]_vars, url # NoURL, url' = NoURL
      PROVE  LET forms == CASE url.kind = "show"    -> DiffForms(url.spec) \cap {"show"}
                            [] url.kind = "compare" -> DiffForms(url.spec) \cap Compares
                            [] url.kind = "raw"     -> IF RawForm(url.spec) THEN {"raw"} ELSE {}
             IN IF forms = {} THEN target' = "bad" ELSE forms = {target'}
  <2>1. target' = Parsed(url)
    BY <1>1, OnlyParseTakesURL
  <2>2. url \in URLs
    BY <1>1 DEF Inv, TypeOK, ReadsTypeOK
  <2>3. CASE url \in [kind : {"raw"}, spec : RawSpecs]
    <3>1. url.kind = "raw" /\ url.spec \in RawSpecs
      BY <2>3
    <3>2. url.spec \in [text : Seq(Chars), diff : {FALSE}]
      BY <3>1, TextsAreSeqs DEF RawSpecs
    <3>3. target' = IF RawForm(url.spec) THEN "raw" ELSE "bad"
      BY <2>1, <3>1, <3>2, RawParserIsExact DEF Parsed
    <3>4. QED
      BY <3>1, <3>3
  <2>4. CASE url \in [kind : {"show", "compare"}, spec : DiffSpecs]
    <3>1. url.kind \in {"show", "compare"} /\ url.spec \in DiffSpecs
      BY <2>4
    <3>2. url.spec \in [text : Seq(Chars), diff : BOOLEAN]
      BY <3>1, TextsAreSeqs DEF DiffSpecs
    <3> DEFINE forms == DiffForms(url.spec) \cap
                          (IF url.kind = "show" THEN {"show"} ELSE {"dots2", "dots3"})
    <3>3. IF forms = {} THEN parseGitDiffSpec(url.kind, url.spec) = "bad"
                        ELSE forms = {parseGitDiffSpec(url.kind, url.spec)}
      BY <3>1, <3>2, DiffParserIsExact
    <3>4. target' = parseGitDiffSpec(url.kind, url.spec)
      BY <2>1, <3>1 DEF Parsed
    <3>5. IF forms = {} THEN target' = "bad" ELSE forms = {target'}
      BY <3>3, <3>4
    <3>6. QED
      BY <3>1, <3>5 DEF Compares
  <2>5. QED
    BY <2>2, <2>3, <2>4 DEF URLs
<1>2. Inv /\ [Next]_vars =>
        [url # NoURL /\ url' = NoURL =>
           LET forms == CASE url.kind = "show"    -> DiffForms(url.spec) \cap {"show"}
                          [] url.kind = "compare" -> DiffForms(url.spec) \cap Compares
                          [] url.kind = "raw"     -> IF RawForm(url.spec) THEN {"raw"} ELSE {}
           IN IF forms = {} THEN target' = "bad" ELSE forms = {target'}]_vars
  BY <1>1
<1>3. QED
  BY <1>2, InvHolds, PTL DEF Spec, ParseIsExact
=============================================================================
