--------------------------- MODULE LFSStoreProofs ---------------------------
(***************************************************************************)
(* Proofs about the LFS transfers, for every set of requests, repositories *)
(* and objects, every size limit and every combination of faults.          *)
(***************************************************************************)
EXTENDS LFSStore, TLAPS

\* A request that has arrived carries the arguments of its kind.
ArgsFit ==
  /\ \A u \in Uploads : pc[u] # "idle" => arg[u] \in Upload
  /\ \A d \in Downloads : pc[d] # "idle" => arg[d] \in Wanted
  /\ \A b \in Batches : pc[b] # "idle" => arg[b] \in Batch

\* A request that has not arrived has done nothing.
IdleIsFresh ==
  /\ \A r \in Requests : pc[r] = "idle" => arg[r] = None /\ code[r] = None
  /\ \A b \in Batches : pc[b] = "idle" => said[b] = <<>>

\* What Put knows at each of its steps about the upload u.
PutFits(u) ==
  /\ pc[u] \in {"put", "copy", "verify", "rename", "remove"} =>
       arg[u].oid \in Bodies /\ arg[u].len \in 0..MaxSize
  /\ pc[u] \in {"copy", "verify", "rename"} =>
       /\ temp[u] \in File
       /\ temp[u].body = arg[u].body
       /\ temp[u].len <= arg[u].len
  /\ pc[u] = "rename" => HashOf(temp[u]) = arg[u].oid
  /\ pc[u] \in {"idle", "access", "put"} => temp[u] = None
  /\ pc[u] = "done" /\ u \notin Stuck => temp[u] = None

UploadFits == \A u \in Uploads : PutFits(u)

\* An upload is answered 200 by its own rename.
OkIsStored ==
  \A u \in Uploads : code[u] = "ok" =>
    /\ pc[u] = "done"
    /\ arg[u].oid \in Bodies
    /\ obj[Path(u)] # None

\* The open file of a download is the object it asked for.
DownloadFits ==
  \A d \in Downloads :
    /\ pc[d] \in {"open", "send"} => arg[d].oid \in Bodies
    /\ pc[d] = "send" =>
         /\ file[d] # None
         /\ file[d].body = arg[d].oid
         /\ file[d].len = SizeOf[arg[d].oid]
    /\ code[d] = "ok" => pc[d] = "done"

\* A batch has looked at a prefix of its objects, all of them valid.
BatchFits ==
  \A b \in Batches : pc[b] # "idle" =>
    /\ Len(said[b]) <= Len(arg[b].objects)
    /\ \A i \in 1..Len(said[b]) : arg[b].objects[i].oid \in Bodies

\* The inductive invariant.
Inv ==
  /\ TypeOK /\ ArgsFit /\ IdleIsFresh
  /\ UploadFits /\ OkIsStored
  /\ StoredObjectIsWhole
  /\ DownloadFits /\ DownloadIsExact
  /\ BatchFits /\ PresentIsStored

-----------------------------------------------------------------------------
(***************************************************************************)
(* Frames: what the handler of one kind of request leaves alone.           *)
(***************************************************************************)

\* Everything request r does to pc, arg, code and gone is its own.
OnlyOf(r) ==
  \A q \in Requests \ {r} :
    pc'[q] = pc[q] /\ arg'[q] = arg[q] /\ code'[q] = code[q]

\* A request's arrival changes its own pc and arg only.
LEMMA ArriveFrame ==
  ASSUME TypeOK, NEW r \in Requests, NEW S, Arrive(r, S)
  PROVE  OnlyOf(r) /\ UNCHANGED <<obj, temp, gone, code, file, sent, said>>
BY DEF TypeOK, Arrive, Goto, OnlyOf

\* serveLFSUpload touches no request but its own and no download or batch.
LEMMA UploadFrame ==
  ASSUME TypeOK, NEW u \in Uploads, UploadStep(u)
  PROVE  /\ OnlyOf(u)
         /\ UNCHANGED <<gone, arg, file, sent, said>>
         /\ \A v \in Uploads \ {u} : temp'[v] = temp[v]
<1> u \in Requests
  BY DEF Requests
<1> QED
  BY DEF TypeOK, OnlyOf, UploadStep, Denied, UploadRefused, UploadAdmitted, CreateTemp,
     CreateTempFails, CopyByte, CopyEnds, CopyFails, VerifyPasses, VerifyFails,
     Rename, RenameFails, RemoveTemp, Answer, Decide, Goto

\* serveLFSDownload touches no request but its own and no file on disk.
LEMMA DownloadFrame ==
  ASSUME TypeOK, NEW d \in Downloads, DownloadStep(d)
  PROVE  /\ OnlyOf(d)
         /\ UNCHANGED <<obj, temp, gone, arg, said>>
         /\ \A e \in Downloads \ {d} : file'[e] = file[e] /\ sent'[e] = sent[e]
<1> d \in Requests
  BY DEF Requests
<1> QED
  BY DEF TypeOK, OnlyOf, DownloadStep, Denied, DownloadRefused, DownloadAdmitted,
     OpenFound, OpenMissing, OpenFails, SendByte, SendEnds, SendFails,
     Answer, Decide, Goto

\* serveLFSBatch touches no request but its own and no file on disk.
LEMMA BatchFrame ==
  ASSUME TypeOK, NEW b \in Batches, BatchStep(b)
  PROVE  /\ OnlyOf(b)
         /\ UNCHANGED <<obj, temp, gone, arg, file, sent>>
         /\ \A c \in Batches \ {b} : said'[c] = said[c]
<1> b \in Requests
  BY DEF Requests
<1> QED
  BY DEF TypeOK, OnlyOf, BatchStep, Denied, BatchAdmitted, BatchObject, BatchRefused,
     BatchFails, BatchEnds, Answer, Decide, Goto

\* A cancellation changes no request, a crash only ends those in flight.
LEMMA OtherFrame ==
  ASSUME TypeOK, \/ \E r \in Requests : Cancel(r)
                 \/ Crash
                 \/ Quiescent
                 \/ UNCHANGED vars
  PROVE  /\ UNCHANGED <<obj, temp, arg, code, file, sent, said>>
         /\ \A q \in Requests :
              pc'[q] = pc[q] \/ (pc[q] \in InFlight /\ pc'[q] = "dead")
BY DEF TypeOK, Cancel, Crash, Quiescent, vars

-----------------------------------------------------------------------------
(***************************************************************************)
(* The initial states and the cases of a step.                             *)
(***************************************************************************)

\* No request has arrived and no file exists.
LEMMA InitInv == Init => Inv
<1> SUFFICES ASSUME Init PROVE Inv
  OBVIOUS
<1> /\ Uploads \subseteq Requests
    /\ Downloads \subseteq Requests
    /\ Batches \subseteq Requests
  BY DEF Requests
<1>1. TypeOK
  BY ConstantsAssumption DEF Init, TypeOK
<1>2. ArgsFit /\ IdleIsFresh /\ UploadFits /\ OkIsStored
  BY NoneAssumption
     DEF Init, ArgsFit, IdleIsFresh, UploadFits, PutFits,
         OkIsStored, Codes
<1>3. StoredObjectIsWhole
  BY DEF Init, StoredObjectIsWhole
<1>4. DownloadFits /\ DownloadIsExact
  BY NoneAssumption DEF Init, DownloadFits, DownloadIsExact, Codes
<1>5. BatchFits /\ PresentIsStored
  BY DEF Init, BatchFits, PresentIsStored
<1> QED
  BY <1>1, <1>2, <1>3, <1>4, <1>5 DEF Inv

\* The kinds of requests are apart.
LEMMA Kinds ==
  /\ Uploads \subseteq Requests /\ Downloads \subseteq Requests
  /\ Batches \subseteq Requests
  /\ \A u \in Uploads : u \notin Downloads /\ u \notin Batches
  /\ \A d \in Downloads : d \notin Uploads /\ d \notin Batches
  /\ \A b \in Batches : b \notin Uploads /\ b \notin Downloads
BY ConstantsAssumption DEF Requests

\* A step is one of these.
LEMMA Cases ==
  [Next]_vars <=>
    \/ \E u \in Uploads : Arrive(u, Upload)
    \/ \E u \in Uploads : UploadStep(u)
    \/ \E d \in Downloads : Arrive(d, Wanted)
    \/ \E d \in Downloads : DownloadStep(d)
    \/ \E b \in Batches : Arrive(b, Batch)
    \/ \E b \in Batches : BatchStep(b)
    \/ \/ \E r \in Requests : Cancel(r)
       \/ Crash
       \/ Quiescent
       \/ UNCHANGED vars
BY Zenon DEF Next

-----------------------------------------------------------------------------
(***************************************************************************)
(* Type correctness.                                                       *)
(***************************************************************************)

\* Every step of an upload keeps the types: what is renamed is a file, and no
\* file outgrows the body it is copied from.
LEMMA UploadTypes ==
  ASSUME Inv, NEW u \in Uploads, UploadStep(u)
  PROVE  TypeOK'
<1> USE Kinds DEF Answer, Decide, Goto
<1>0. TypeOK /\ pc[u] # "idle" /\ arg[u] \in Upload
  BY DEF Inv, ArgsFit, UploadStep, Denied, UploadRefused, UploadAdmitted, CreateTemp,
     CreateTempFails, CopyByte, CopyEnds, CopyFails, VerifyPasses, VerifyFails,
     Rename, RenameFails, RemoveTemp
<1>1. CASE Denied(u)
  BY <1>0, <1>1 DEF TypeOK, Denied, Final, Codes
<1>2. CASE UploadRefused(u)
  BY <1>0, <1>2 DEF TypeOK, UploadRefused, Refusal, Final, Codes, Refusals
<1>3. CASE UploadAdmitted(u)
  BY <1>0, <1>3 DEF TypeOK, UploadAdmitted, InFlight
<1>4. CASE CreateTemp(u)
  <2>1. [body |-> arg[u].body, len |-> 0] \in File
    BY <1>0, ConstantsAssumption DEF Upload, File
  <2> QED
    BY <1>0, <1>4, <2>1 DEF TypeOK, CreateTemp, InFlight
<1>5. CASE CreateTempFails(u)
  BY <1>0, <1>5 DEF TypeOK, CreateTempFails, Final, Codes
<1>6. CASE CopyByte(u)
  <2>1. temp[u] \in File /\ temp[u].body = arg[u].body
    BY <1>6 DEF Inv, UploadFits, PutFits, CopyByte
  <2>2. SizeOf[arg[u].body] \in 0..MaxInt
    BY <1>0, ConstantsAssumption DEF Upload
  <2>3. [body |-> temp[u].body, len |-> temp[u].len + 1] \in File
    BY <1>6, <2>1, <2>2, ConstantsAssumption DEF CopyByte, File
  <2> QED
    BY <1>0, <1>6, <2>3 DEF TypeOK, CopyByte, InFlight
<1>7. CASE CopyEnds(u)
  BY <1>0, <1>7 DEF TypeOK, CopyEnds, InFlight
<1>8. CASE CopyFails(u)
  BY <1>0, <1>8 DEF TypeOK, CopyFails, InFlight, Codes
<1>9. CASE VerifyPasses(u)
  BY <1>0, <1>9 DEF TypeOK, VerifyPasses, InFlight
<1>10. CASE VerifyFails(u)
  BY <1>0, <1>10 DEF TypeOK, VerifyFails, Verdict, InFlight, Codes, Refusals
<1>11. CASE Rename(u)
  <2>1. temp[u] \in File
    BY <1>11 DEF Inv, UploadFits, PutFits, Rename
  <2> QED
    BY <1>0, <1>11, <2>1 DEF TypeOK, Rename, Final, Codes
<1>12. CASE RenameFails(u)
  BY <1>0, <1>12 DEF TypeOK, RenameFails, InFlight, Codes
<1>13. CASE RemoveTemp(u)
  BY <1>0, <1>13 DEF TypeOK, RemoveTemp, Final
<1> QED
  BY <1>1, <1>2, <1>3, <1>4, <1>5, <1>6, <1>7, <1>8, <1>9, <1>10, <1>11, <1>12,
     <1>13 DEF UploadStep

\* Every step of a download keeps the types: no more is sent than a file holds.
LEMMA DownloadTypes ==
  ASSUME Inv, NEW d \in Downloads, DownloadStep(d)
  PROVE  TypeOK'
<1> USE Kinds DEF Answer, Decide, Goto
<1>0. TypeOK
  BY DEF Inv
<1>1. CASE Denied(d)
  BY <1>0, <1>1 DEF TypeOK, Denied, Final, Codes
<1>2. CASE DownloadRefused(d)
  BY <1>0, <1>2 DEF TypeOK, DownloadRefused, Final, Codes, Refusals
<1>3. CASE DownloadAdmitted(d)
  BY <1>0, <1>3 DEF TypeOK, DownloadAdmitted, InFlight
<1>4. CASE OpenFound(d)
  <2>1. Path(d) \in Paths
    BY <1>4 DEF Inv, ArgsFit, DownloadFits, OpenFound, Wanted, Path, Paths
  <2> QED
    BY <1>0, <1>4, <2>1 DEF TypeOK, OpenFound, InFlight
<1>5. CASE OpenMissing(d)
  BY <1>0, <1>5 DEF TypeOK, OpenMissing, Final, Codes
<1>6. CASE OpenFails(d)
  BY <1>0, <1>6 DEF TypeOK, OpenFails, Final, Codes
<1>7. CASE SendByte(d)
  <2>1. file[d] \in File
    BY <1>7 DEF Inv, TypeOK, DownloadFits, SendByte
  <2>2. sent[d] + 1 \in 0..MaxInt
    BY <1>0, <1>7, <2>1, ConstantsAssumption DEF TypeOK, SendByte, File
  <2> QED
    BY <1>0, <1>7, <2>2 DEF TypeOK, SendByte, InFlight
<1>8. CASE SendEnds(d)
  BY <1>0, <1>8 DEF TypeOK, SendEnds, Final, Codes
<1>9. CASE SendFails(d)
  BY <1>0, <1>9 DEF TypeOK, SendFails, Final, Codes
<1> QED
  BY <1>1, <1>2, <1>3, <1>4, <1>5, <1>6, <1>7, <1>8, <1>9 DEF DownloadStep

\* Every step of a batch keeps the types.
LEMMA BatchTypes ==
  ASSUME TypeOK, NEW b \in Batches, BatchStep(b)
  PROVE  TypeOK'
<1> USE Kinds DEF Answer, Decide, Goto
<1>1. CASE Denied(b)
  BY <1>1 DEF TypeOK, Denied, Final, Codes
<1>2. CASE BatchAdmitted(b)
  BY <1>2 DEF TypeOK, BatchAdmitted, InFlight
<1>3. CASE BatchObject(b)
  <2>1. PICK f \in Findings : said' = [said EXCEPT ![b] = Append(said[b], f)]
    BY <1>3 DEF BatchObject, Findings
  <2>2. Append(said[b], f) \in Seq(Findings)
    BY DEF TypeOK
  <2> QED
    BY <1>3, <2>1, <2>2 DEF TypeOK, BatchObject, InFlight
<1>4. CASE BatchRefused(b)
  BY <1>4 DEF TypeOK, BatchRefused, Final, Codes, Refusals
<1>5. CASE BatchFails(b)
  BY <1>5 DEF TypeOK, BatchFails, Final, Codes
<1>6. CASE BatchEnds(b)
  BY <1>6 DEF TypeOK, BatchEnds, Final, Codes
<1> QED
  BY <1>1, <1>2, <1>3, <1>4, <1>5, <1>6 DEF BatchStep

\* Every step keeps the types.
LEMMA StepTypes ==
  ASSUME Inv, [Next]_vars
  PROVE  TypeOK'
<1>0. TypeOK
  BY DEF Inv
<1>1. ASSUME NEW r \in Requests, NEW S, Arrive(r, S),
             S \subseteq Upload \cup Wanted \cup Batch
      PROVE  TypeOK'
  BY <1>0, <1>1 DEF TypeOK, Arrive, Goto, InFlight
<1>2. CASE \E r \in Requests : Cancel(r)
  BY <1>0, <1>2 DEF TypeOK, Cancel
<1>3. CASE Crash
  BY <1>0, <1>3 DEF TypeOK, Crash, Final
<1>4. CASE Quiescent \/ UNCHANGED vars
  BY <1>0, <1>4 DEF TypeOK, Quiescent, vars
<1> QED
  BY <1>0, <1>1, <1>2, <1>3, <1>4, Kinds, Cases, UploadTypes, DownloadTypes, BatchTypes

-----------------------------------------------------------------------------
(***************************************************************************)
(* Each conjunct of the invariant is preserved.                            *)
(***************************************************************************)

\* No step takes a request back to where it has not arrived.
LEMMA NoReturn ==
  ASSUME TypeOK, [Next]_vars, NEW r \in Requests, pc'[r] = "idle"
  PROVE  pc[r] = "idle" /\ arg'[r] = arg[r] /\ code'[r] = code[r]
<1> USE Kinds
<1>1. ASSUME NEW q \in Requests, NEW S, Arrive(q, S)
      PROVE  r # q
  BY <1>1 DEF TypeOK, Arrive, Goto
<1>2. ASSUME NEW u \in Uploads, UploadStep(u)
      PROVE  r # u
  BY <1>2 DEF TypeOK, UploadStep, Denied, UploadRefused, UploadAdmitted, CreateTemp,
     CreateTempFails, CopyByte, CopyEnds, CopyFails, VerifyPasses, VerifyFails,
     Rename, RenameFails, RemoveTemp, Answer, Decide, Goto
<1>3. ASSUME NEW d \in Downloads, DownloadStep(d)
      PROVE  r # d
  BY <1>3 DEF TypeOK, DownloadStep, Denied, DownloadRefused, DownloadAdmitted,
     OpenFound, OpenMissing, OpenFails, SendByte, SendEnds, SendFails,
     Answer, Decide, Goto
<1>4. ASSUME NEW b \in Batches, BatchStep(b)
      PROVE  r # b
  BY <1>4 DEF TypeOK, BatchStep, Denied, BatchAdmitted, BatchObject, BatchRefused,
     BatchFails, BatchEnds, Answer, Decide, Goto
<1> QED
  BY <1>1, <1>2, <1>3, <1>4, Cases, ArriveFrame, UploadFrame, DownloadFrame,
     BatchFrame, OtherFrame DEF OnlyOf

\* Arguments change at the arrival only.
LEMMA ArgsStay ==
  ASSUME TypeOK, [Next]_vars, NEW r \in Requests, pc[r] # "idle"
  PROVE  arg'[r] = arg[r]
<1> USE Kinds
<1>1. ASSUME NEW q \in Requests, NEW S, Arrive(q, S)
      PROVE  r # q
  BY <1>1 DEF Arrive, Goto
<1> QED
  BY <1>1, Cases, ArriveFrame, UploadFrame, DownloadFrame, BatchFrame, OtherFrame
  DEF OnlyOf

\* Arguments keep the shape they arrived with.
LEMMA StepArgs ==
  ASSUME Inv, [Next]_vars
  PROVE  ArgsFit'
<1> USE Kinds
<1>0. TypeOK /\ ArgsFit
  BY DEF Inv
<1>1. ASSUME NEW r \in Requests, NEW S, Arrive(r, S)
      PROVE  arg'[r] \in S
  BY <1>0, <1>1 DEF TypeOK, Arrive
<1>2. \A r \in Requests : pc[r] = "idle" /\ pc'[r] # "idle" =>
        \/ r \in Uploads /\ Arrive(r, Upload)
        \/ r \in Downloads /\ Arrive(r, Wanted)
        \/ r \in Batches /\ Arrive(r, Batch)
  <2> SUFFICES ASSUME NEW r \in Requests, pc[r] = "idle", pc'[r] # "idle"
               PROVE  \/ r \in Uploads /\ Arrive(r, Upload)
                      \/ r \in Downloads /\ Arrive(r, Wanted)
                      \/ r \in Batches /\ Arrive(r, Batch)
    OBVIOUS
  <2>1. \A u \in Uploads : UploadStep(u) => pc[u] # "idle"
    BY DEF UploadStep, Denied, UploadRefused, UploadAdmitted, CreateTemp,
       CreateTempFails, CopyByte, CopyEnds, CopyFails, VerifyPasses, VerifyFails,
       Rename, RenameFails, RemoveTemp, Answer, Decide, Goto
  <2>2. \A d \in Downloads : DownloadStep(d) => pc[d] # "idle"
    BY DEF DownloadStep, Denied, DownloadRefused, DownloadAdmitted,
       OpenFound, OpenMissing, OpenFails, SendByte, SendEnds, SendFails,
       Answer, Decide, Goto
  <2>3. \A b \in Batches : BatchStep(b) => pc[b] # "idle"
    BY DEF BatchStep, Denied, BatchAdmitted, BatchObject, BatchRefused,
       BatchFails, BatchEnds, Answer, Decide, Goto
  <2>4. "idle" \notin InFlight
    BY DEF InFlight
  <2> QED
    BY <1>0, <2>1, <2>2, <2>3, <2>4, Cases, ArriveFrame, UploadFrame, DownloadFrame,
       BatchFrame, OtherFrame DEF OnlyOf
<1>3. ASSUME NEW r \in Requests, pc'[r] # "idle"
      PROVE  /\ r \in Uploads => arg'[r] \in Upload
             /\ r \in Downloads => arg'[r] \in Wanted
             /\ r \in Batches => arg'[r] \in Batch
  <2>1. CASE pc[r] = "idle"
    BY <1>1, <1>2, <1>3, <2>1
  <2>2. CASE pc[r] # "idle"
    BY <1>0, <2>2, ArgsStay DEF ArgsFit
  <2> QED
    BY <2>1, <2>2
<1> QED
  BY <1>3 DEF ArgsFit

\* A request does nothing before it arrives.
LEMMA StepIdle ==
  ASSUME Inv, [Next]_vars
  PROVE  IdleIsFresh'
<1> USE Kinds
<1>0. TypeOK /\ IdleIsFresh
  BY DEF Inv
<1>1. ASSUME NEW b \in Batches, pc'[b] = "idle"
      PROVE  said'[b] = said[b]
  <2>1. \A c \in Batches : BatchStep(c) => pc[c] # "idle"
    BY DEF BatchStep, Denied, BatchAdmitted, BatchObject, BatchRefused,
       BatchFails, BatchEnds, Answer, Decide, Goto
  <2>2. pc[b] = "idle"
    BY <1>0, <1>1, NoReturn
  <2> QED
    BY <1>0, <2>1, <2>2, Cases, ArriveFrame, UploadFrame, DownloadFrame,
       BatchFrame, OtherFrame
<1> QED
  BY <1>0, <1>1, NoReturn DEF IdleIsFresh

\* The size limit is a positive int64.
LEMMA LimitIsNat == MaxSize \in 1..MaxInt
BY ConstantsAssumption DEF MaxSize

\* An upload that is not the one that moves keeps its facts, or is dead.
LEMMA OtherUpload ==
  ASSUME NEW v \in Uploads, PutFits(v), arg'[v] = arg[v], temp'[v] = temp[v],
         pc'[v] = pc[v] \/ pc'[v] = "dead"
  PROVE  PutFits(v)'
BY DEF PutFits, HashOf

\* Put establishes its facts step by step.
LEMMA OwnUpload ==
  ASSUME TypeOK, NEW u \in Uploads, PutFits(u), arg[u] \in Upload, UploadStep(u)
  PROVE  PutFits(u)'
<1> USE Kinds DEF Answer, Decide, Goto
<1>1. CASE Denied(u) \/ UploadRefused(u)
  BY <1>1 DEF TypeOK, PutFits, Denied, UploadRefused
<1>2. CASE UploadAdmitted(u)
  <2>1. arg[u].oid # Invalid /\ ~(arg[u].len < 0) /\ ~(arg[u].len > MaxSize)
    BY <1>2, NoneAssumption DEF UploadAdmitted, Refusal, Codes, Refusals
  <2>2. arg[u].oid \in Bodies /\ arg[u].len \in 0..MaxSize
    BY <2>1, LimitIsNat, ConstantsAssumption DEF Upload
  <2> QED
    BY <1>2, <2>2 DEF TypeOK, PutFits, UploadAdmitted
<1>3. CASE CreateTemp(u)
  <2>1. [body |-> arg[u].body, len |-> 0] \in File
    BY ConstantsAssumption DEF Upload, File
  <2>2. arg[u].oid \in Bodies /\ arg[u].len \in 0..MaxSize
    BY <1>3 DEF PutFits, CreateTemp
  <2> QED
    BY <1>3, <2>1, <2>2, LimitIsNat DEF TypeOK, PutFits, CreateTemp
<1>4. CASE CreateTempFails(u)
  BY <1>4 DEF TypeOK, PutFits, CreateTempFails
<1>5. CASE CopyByte(u)
  <2>1. /\ temp[u] \in File /\ temp[u].body = arg[u].body
        /\ arg[u].oid \in Bodies /\ arg[u].len \in 0..MaxSize
    BY <1>5 DEF PutFits, CopyByte
  <2>2. SizeOf[arg[u].body] \in 0..MaxInt
    BY ConstantsAssumption DEF Upload
  <2>3. [body |-> temp[u].body, len |-> temp[u].len + 1] \in File
    BY <1>5, <2>1, <2>2, ConstantsAssumption DEF CopyByte, File
  <2>4. temp[u].len + 1 <= arg[u].len
    BY <1>5, <2>1, LimitIsNat, ConstantsAssumption DEF CopyByte, File
  <2> QED
    BY <1>5, <2>1, <2>3, <2>4 DEF TypeOK, PutFits, CopyByte
<1>6. CASE CopyEnds(u) \/ CopyFails(u)
  BY <1>6 DEF TypeOK, PutFits, CopyEnds, CopyFails
<1>7. CASE VerifyPasses(u)
  <2>1. HashOf(temp[u]) = arg[u].oid
    BY <1>7, NoneAssumption DEF VerifyPasses, Verdict, Codes, Refusals
  <2> QED
    BY <1>7, <2>1 DEF TypeOK, PutFits, VerifyPasses, HashOf
<1>8. CASE VerifyFails(u) \/ RenameFails(u)
  BY <1>8 DEF TypeOK, PutFits, VerifyFails, RenameFails
<1>9. CASE Rename(u)
  BY <1>9 DEF TypeOK, PutFits, Rename
<1>10. CASE RemoveTemp(u)
  BY <1>10 DEF TypeOK, PutFits, RemoveTemp
<1> QED
  BY <1>1, <1>2, <1>3, <1>4, <1>5, <1>6, <1>7, <1>8, <1>9, <1>10 DEF UploadStep

\* An upload's step is one of an upload that has arrived.
LEMMA UploadHasArrived ==
  ASSUME NEW u \in Uploads, UploadStep(u)
  PROVE  pc[u] # "idle"
BY DEF UploadStep, Denied, UploadRefused, UploadAdmitted, CreateTemp,
   CreateTempFails, CopyByte, CopyEnds, CopyFails, VerifyPasses, VerifyFails,
   Rename, RenameFails, RemoveTemp, Answer, Decide, Goto

\* The facts of Put hold at every step of every upload.
LEMMA StepUploads ==
  ASSUME Inv, [Next]_vars
  PROVE  UploadFits'
<1> USE Kinds
<1>0. TypeOK /\ UploadFits
  BY DEF Inv
<1> SUFFICES ASSUME NEW v \in Uploads PROVE PutFits(v)'
  BY DEF UploadFits
<1>1. ASSUME NEW r \in Requests, NEW S, Arrive(r, S)
      PROVE  PutFits(v)'
  <2>1. CASE r = v
    BY <1>0, <1>1, <2>1 DEF TypeOK, UploadFits, PutFits, Arrive, Goto
  <2>2. CASE r # v
    BY <1>0, <1>1, <2>2, ArriveFrame, OtherUpload DEF UploadFits, OnlyOf
  <2> QED
    BY <2>1, <2>2
<1>2. ASSUME NEW u \in Uploads, UploadStep(u)
      PROVE  PutFits(v)'
  <2>1. CASE u = v
    BY <1>0, <1>2, <2>1, OwnUpload, UploadHasArrived DEF Inv, ArgsFit, UploadFits
  <2>2. CASE u # v
    BY <1>0, <1>2, <2>2, UploadFrame, OtherUpload DEF UploadFits, OnlyOf
  <2> QED
    BY <2>1, <2>2
<1>3. ASSUME NEW d \in Downloads, DownloadStep(d)
      PROVE  PutFits(v)'
  BY <1>0, <1>3, DownloadFrame, OtherUpload DEF UploadFits, OnlyOf
<1>4. ASSUME NEW b \in Batches, BatchStep(b)
      PROVE  PutFits(v)'
  BY <1>0, <1>4, BatchFrame, OtherUpload DEF UploadFits, OnlyOf
<1>5. CASE \/ \E r \in Requests : Cancel(r)
           \/ Crash
           \/ Quiescent
           \/ UNCHANGED vars
  BY <1>0, <1>5, OtherFrame, OtherUpload DEF UploadFits
<1> QED
  BY <1>1, <1>2, <1>3, <1>4, <1>5, Cases

\* The object files change by a rename only.
LEMMA ObjectsChangeByRename ==
  ASSUME TypeOK, [Next]_vars
  PROVE  UNCHANGED obj \/ \E u \in Uploads : Rename(u)
<1> USE Kinds
<1>1. ASSUME NEW u \in Uploads, UploadStep(u)
      PROVE  UNCHANGED obj \/ Rename(u)
  BY <1>1 DEF UploadStep, Denied, UploadRefused, UploadAdmitted, CreateTemp,
     CreateTempFails, CopyByte, CopyEnds, CopyFails, VerifyPasses, VerifyFails,
     RenameFails, RemoveTemp
<1> QED
  BY <1>1, Cases, ArriveFrame, DownloadFrame, BatchFrame, OtherFrame

\* A rename puts the whole content of an oid in the place of that oid.
LEMMA RenameStoresWhole ==
  ASSUME Inv, NEW u \in Uploads, Rename(u)
  PROVE  /\ Path(u) \in Paths
         /\ temp[u] \in File
         /\ temp[u].body = Path(u)[2]
         /\ temp[u].len = SizeOf[Path(u)[2]]
         /\ obj' = [obj EXCEPT ![Path(u)] = temp[u]]
<1> USE Kinds
<1>1. PutFits(u) /\ pc[u] = "rename" /\ arg[u] \in Upload
  BY DEF Inv, UploadFits, ArgsFit, Rename, Answer, Decide, Goto
<1>2. arg[u].oid \in Bodies /\ temp[u] \in File /\ HashOf(temp[u]) = arg[u].oid
  BY <1>1 DEF PutFits
<1>3. temp[u].body = arg[u].oid /\ temp[u].len = SizeOf[arg[u].oid]
  BY <1>2, NoneAssumption DEF HashOf
<1>4. Path(u) \in Paths /\ Path(u)[2] = arg[u].oid
  BY <1>1, <1>2 DEF Path, Paths, Upload
<1> QED
  BY <1>2, <1>3, <1>4 DEF Rename

\* A step leaves every object file there is as it is.
LEMMA StepKeeps ==
  ASSUME Inv, [Next]_vars
  PROVE  \A p \in Paths : obj[p] # None => obj'[p] = obj[p]
<1>0. TypeOK /\ StoredObjectIsWhole
  BY DEF Inv
<1>1. CASE UNCHANGED obj
  BY <1>1
<1>2. ASSUME NEW u \in Uploads, Rename(u), NEW p \in Paths, obj[p] # None
      PROVE  obj'[p] = obj[p]
  <2>1. CASE p # Path(u)
    BY <1>0, <1>2, <2>1, RenameStoresWhole DEF TypeOK
  <2>2. CASE p = Path(u)
    <3>1. obj[p] \in File /\ obj[p].body = p[2] /\ obj[p].len = SizeOf[p[2]]
      BY <1>0, <1>2 DEF TypeOK, StoredObjectIsWhole
    <3>2. obj[p] = temp[u]
      BY <1>2, <2>2, <3>1, RenameStoresWhole DEF File
    <3> QED
      BY <1>0, <1>2, <2>2, <3>2, RenameStoresWhole DEF TypeOK
  <2> QED
    BY <2>1, <2>2
<1> QED
  BY <1>0, <1>1, <1>2, ObjectsChangeByRename

\* Object files stay whole.
LEMMA StepWhole ==
  ASSUME Inv, [Next]_vars
  PROVE  StoredObjectIsWhole'
<1>0. TypeOK /\ StoredObjectIsWhole
  BY DEF Inv
<1>1. CASE UNCHANGED obj
  BY <1>0, <1>1 DEF StoredObjectIsWhole
<1>2. ASSUME NEW u \in Uploads, Rename(u)
      PROVE  StoredObjectIsWhole'
  BY <1>0, <1>2, RenameStoresWhole DEF TypeOK, StoredObjectIsWhole
<1> QED
  BY <1>0, <1>1, <1>2, ObjectsChangeByRename

\* A 200 is given by a rename, and nobody removes what was renamed.
LEMMA StepOk ==
  ASSUME Inv, [Next]_vars
  PROVE  OkIsStored'
<1> USE Kinds
<1>0. TypeOK /\ OkIsStored /\ IdleIsFresh
  BY DEF Inv
<1> SUFFICES ASSUME NEW v \in Uploads, code'[v] = "ok"
             PROVE  /\ pc'[v] = "done" /\ arg'[v].oid \in Bodies
                    /\ obj'[Path(v)'] # None
  BY DEF OkIsStored
<1>1. ASSUME code[v] = "ok", pc'[v] = "done"
      PROVE  arg'[v].oid \in Bodies /\ obj'[Path(v)'] # None
  <2>1. pc[v] = "done" /\ arg[v].oid \in Bodies /\ obj[Path(v)] # None
    BY <1>0, <1>1 DEF OkIsStored
  <2>2. arg'[v] = arg[v] /\ arg[v] \in Upload
    BY <1>0, <2>1, ArgsStay DEF Inv, ArgsFit
  <2>3. Path(v) \in Paths /\ Path(v)' = Path(v)
    BY <2>1, <2>2 DEF Path, Paths, Upload
  <2> QED
    BY <2>1, <2>2, <2>3, StepKeeps
<1>2. ASSUME code[v] = "ok" PROVE pc[v] = "done"
  BY <1>0, <1>2 DEF OkIsStored
<1>3. ASSUME NEW r \in Requests, NEW S, Arrive(r, S)
      PROVE  code[v] = "ok" /\ pc'[v] = "done"
  <2>1. code[v] = "ok" /\ pc[v] = "done"
    BY <1>0, <1>2, <1>3, ArriveFrame
  <2> QED
    BY <1>0, <1>3, <2>1 DEF TypeOK, Arrive, Goto
<1>4. ASSUME NEW u \in Uploads, UploadStep(u), ~Rename(u) \/ u # v
      PROVE  code[v] = "ok" /\ pc'[v] = "done"
  <2>1. CASE u # v
    BY <1>0, <1>2, <1>4, <2>1, UploadFrame DEF OnlyOf
  <2>2. CASE u = v /\ ~Rename(u)
    <3>1. pc[u] # "done"
      BY <1>4 DEF UploadStep, Denied, UploadRefused, UploadAdmitted, CreateTemp,
         CreateTempFails, CopyByte, CopyEnds, CopyFails, VerifyPasses, VerifyFails,
         Rename, RenameFails, RemoveTemp, Answer, Decide, Goto
    <3>2. code[u] # "ok"
      BY <1>2, <2>2, <3>1
    <3>3. code'[u] # "ok"
      BY <1>0, <1>4, <2>2, <3>2
      DEF TypeOK, UploadStep, Denied, UploadRefused, UploadAdmitted, CreateTemp,
          CreateTempFails, CopyByte, CopyEnds, CopyFails, VerifyPasses, VerifyFails,
          RenameFails, RemoveTemp, Answer, Decide, Goto, Refusal, Verdict
    <3> QED
      BY <2>2, <3>3
  <2> QED
    BY <1>4, <2>1, <2>2
<1>5. ASSUME Rename(v)
      PROVE  pc'[v] = "done" /\ arg'[v].oid \in Bodies /\ obj'[Path(v)'] # None
  <2>1. pc'[v] = "done" /\ arg' = arg
    BY <1>0, <1>5 DEF TypeOK, Rename, Answer, Decide, Goto
  <2>2. Path(v)' = Path(v) /\ Path(v)[2] = arg[v].oid
    BY <2>1 DEF Path
  <2>3. arg[v].oid \in Bodies
    BY <1>5, <2>2, RenameStoresWhole DEF Paths
  <2>4. obj'[Path(v)] = temp[v] /\ temp[v] # None
    BY <1>0, <1>5, RenameStoresWhole, NoneAssumption DEF TypeOK
  <2> QED
    BY <2>1, <2>2, <2>3, <2>4
<1>6. ASSUME NEW d \in Downloads, DownloadStep(d)
      PROVE  code[v] = "ok" /\ pc'[v] = "done"
  BY <1>0, <1>2, <1>6, DownloadFrame DEF OnlyOf
<1>7. ASSUME NEW b \in Batches, BatchStep(b)
      PROVE  code[v] = "ok" /\ pc'[v] = "done"
  BY <1>0, <1>2, <1>7, BatchFrame DEF OnlyOf
<1>8. CASE \/ \E r \in Requests : Cancel(r)
           \/ Crash
           \/ Quiescent
           \/ UNCHANGED vars
  <2>1. "done" \notin InFlight
    BY DEF InFlight
  <2> QED
    BY <1>0, <1>1, <1>2, <1>8, <2>1, OtherFrame
<1> QED
  BY <1>1, <1>3, <1>4, <1>5, <1>6, <1>7, <1>8, Cases

\* What is known about the download d.
GetFits(d) ==
  /\ pc[d] \in {"open", "send"} => arg[d].oid \in Bodies
  /\ pc[d] = "send" =>
       /\ file[d] # None
       /\ file[d].body = arg[d].oid
       /\ file[d].len = SizeOf[arg[d].oid]
  /\ code[d] = "ok" => pc[d] = "done"
  /\ code[d] = "ok" =>
       /\ file[d].body = arg[d].oid
       /\ sent[d] = SizeOf[arg[d].oid]

\* A download that does not move keeps its facts, or is dead.
LEMMA OtherDownload ==
  ASSUME NEW e \in Downloads, GetFits(e), arg'[e] = arg[e], code'[e] = code[e],
         file'[e] = file[e], sent'[e] = sent[e],
         pc'[e] = pc[e] \/ (pc[e] \in InFlight /\ pc'[e] = "dead")
  PROVE  GetFits(e)'
BY DEF GetFits, InFlight

\* A download opens the object it was asked for and sends it to the end.
LEMMA OwnDownload ==
  ASSUME Inv, NEW d \in Downloads, GetFits(d), DownloadStep(d)
  PROVE  GetFits(d)'
<1> USE Kinds DEF Answer, Decide, Goto
<1>0. TypeOK
  BY DEF Inv
<1>1. CASE Denied(d) \/ DownloadRefused(d) \/ OpenMissing(d) \/ OpenFails(d) \/ SendFails(d)
  BY <1>0, <1>1
  DEF TypeOK, GetFits, Denied, DownloadRefused, OpenMissing, OpenFails, SendFails
<1>2. CASE DownloadAdmitted(d)
  <2>1. arg[d].oid \in Bodies
    BY <1>2 DEF Inv, ArgsFit, DownloadAdmitted, Wanted
  <2> QED
    BY <1>0, <1>2, <2>1 DEF TypeOK, GetFits, DownloadAdmitted
<1>3. CASE OpenFound(d)
  <2>1. arg[d].oid \in Bodies
    BY <1>3 DEF GetFits, OpenFound
  <2>2. Path(d) \in Paths /\ Path(d)[2] = arg[d].oid
    BY <1>3, <2>1 DEF Inv, ArgsFit, OpenFound, Wanted, Path, Paths
  <2>3. obj[Path(d)].body = arg[d].oid /\ obj[Path(d)].len = SizeOf[arg[d].oid]
    BY <1>3, <2>2 DEF Inv, StoredObjectIsWhole, OpenFound
  <2> QED
    BY <1>0, <1>3, <2>1, <2>3 DEF TypeOK, GetFits, OpenFound
<1>4. CASE SendByte(d)
  BY <1>0, <1>4 DEF TypeOK, GetFits, SendByte
<1>5. CASE SendEnds(d)
  BY <1>0, <1>5 DEF TypeOK, GetFits, SendEnds
<1> QED
  BY <1>1, <1>2, <1>3, <1>4, <1>5 DEF DownloadStep

\* The facts about downloads hold at every step of every download.
LEMMA StepDownloads ==
  ASSUME Inv, [Next]_vars
  PROVE  DownloadFits' /\ DownloadIsExact'
<1> USE Kinds
<1>0. TypeOK /\ \A d \in Downloads : GetFits(d)
  BY DEF Inv, DownloadFits, DownloadIsExact, GetFits
<1> SUFFICES ASSUME NEW e \in Downloads PROVE GetFits(e)'
  BY DEF DownloadFits, DownloadIsExact, GetFits
<1>1. ASSUME NEW r \in Requests, NEW S, Arrive(r, S)
      PROVE  GetFits(e)'
  <2>1. CASE r = e
    <3>1. code[e] # "ok"
      BY <1>1, <2>1, NoneAssumption DEF Inv, IdleIsFresh, Arrive, Goto, Codes
    <3> QED
      BY <1>0, <1>1, <2>1, <3>1 DEF TypeOK, GetFits, Arrive, Goto
  <2>2. CASE r # e
    BY <1>0, <1>1, <2>2, ArriveFrame, OtherDownload DEF OnlyOf
  <2> QED
    BY <2>1, <2>2
<1>2. ASSUME NEW u \in Uploads, UploadStep(u)
      PROVE  GetFits(e)'
  BY <1>0, <1>2, UploadFrame, OtherDownload DEF OnlyOf
<1>3. ASSUME NEW d \in Downloads, DownloadStep(d)
      PROVE  GetFits(e)'
  <2>1. CASE d = e
    BY <1>0, <1>3, <2>1, OwnDownload
  <2>2. CASE d # e
    BY <1>0, <1>3, <2>2, DownloadFrame, OtherDownload DEF OnlyOf
  <2> QED
    BY <2>1, <2>2
<1>4. ASSUME NEW b \in Batches, BatchStep(b)
      PROVE  GetFits(e)'
  BY <1>0, <1>4, BatchFrame, OtherDownload DEF OnlyOf
<1>5. CASE \/ \E r \in Requests : Cancel(r)
           \/ Crash
           \/ Quiescent
           \/ UNCHANGED vars
  BY <1>0, <1>5, OtherFrame, OtherDownload
<1> QED
  BY <1>1, <1>2, <1>3, <1>4, <1>5, Cases

\* What is known about the i-th object of the batch b once it was looked at.
FindingFits(b, i) ==
  LET o == arg[b].objects[i] IN
  /\ o.oid \in Bodies
  /\ said[b][i] = "present" =>
       obj[<<arg[b].repo, o.oid>>] # None /\ o.size = SizeOf[o.oid]

\* What is known about the batch b.
BatchFitsAt(b) ==
  /\ pc[b] # "idle" => Len(said[b]) <= Len(arg[b].objects)
  /\ \A i \in 1..Len(said[b]) : FindingFits(b, i)

\* These are the two conjuncts of the invariant about batches.
LEMMA BatchParts ==
  TypeOK /\ ArgsFit /\ IdleIsFresh =>
    (BatchFits /\ PresentIsStored <=> \A b \in Batches : BatchFitsAt(b))
<1> SUFFICES ASSUME TypeOK, ArgsFit, IdleIsFresh
             PROVE  BatchFits /\ PresentIsStored <=> \A b \in Batches : BatchFitsAt(b)
  OBVIOUS
<1>1. ASSUME NEW b \in Batches, pc[b] = "idle"
      PROVE  Len(said[b]) = 0 /\ 1..Len(said[b]) = {}
  <2>1. Len(said[b]) = 0
    BY <1>1 DEF IdleIsFresh
  <2> QED
    BY <2>1
<1> QED
  BY <1>1 DEF BatchFits, PresentIsStored, BatchFitsAt, FindingFits

\* What a batch found stays true, whatever uploads do.
LEMMA FindingStays ==
  ASSUME Inv, [Next]_vars, NEW b \in Batches, pc[b] # "idle",
         NEW i, FindingFits(b, i), said'[b][i] = said[b][i]
  PROVE  FindingFits(b, i)'
<1> USE Kinds
<1>1. arg'[b] = arg[b] /\ arg[b] \in Batch
  BY ArgsStay DEF Inv, ArgsFit
<1>2. <<arg[b].repo, arg[b].objects[i].oid>> \in Paths
  BY <1>1 DEF FindingFits, Batch, Paths
<1> QED
  BY <1>1, <1>2, StepKeeps DEF FindingFits

\* A batch that does not move keeps its facts.
LEMMA OtherBatch ==
  ASSUME Inv, [Next]_vars, NEW c \in Batches, BatchFitsAt(c), pc[c] # "idle",
         said'[c] = said[c]
  PROVE  BatchFitsAt(c)'
<1> USE Kinds
<1>1. arg'[c] = arg[c]
  BY ArgsStay DEF Inv
<1>2. \A i \in 1..Len(said'[c]) : FindingFits(c, i)'
  BY FindingStays DEF BatchFitsAt
<1> QED
  BY <1>1, <1>2 DEF BatchFitsAt

\* One turn of the loop over the objects.
LEMMA OwnBatch ==
  ASSUME Inv, [Next]_vars, NEW b \in Batches, BatchFitsAt(b), BatchObject(b)
  PROVE  BatchFitsAt(b)'
<1> USE Kinds
<1> DEFINE o(i) == arg[b].objects[i]
<1>0. TypeOK /\ pc[b] = "exists" /\ arg[b] \in Batch /\ arg' = arg /\ obj' = obj
  BY DEF Inv, ArgsFit, BatchObject, Goto
<1>1. PICK k \in 0..BatchBound : arg[b].objects \in [1..k -> Object]
  BY <1>0 DEF Batch
<1>2. said[b] \in Seq(Findings) /\ Len(said[b]) \in Nat
  BY <1>0 DEF TypeOK
<1>3. Len(arg[b].objects) = k
  BY <1>1, ConstantsAssumption
<1>n. PICK n : n = Len(said[b]) + 1
  OBVIOUS
<1>4. n \in 1..k /\ o(n) \in Object /\ o(n).oid # Invalid
  <2>1. n \in 1..k /\ o(n) = Current(b)
    BY <1>2, <1>3, <1>n, ConstantsAssumption DEF BatchObject, Current
  <2> QED
    BY <1>1, <2>1 DEF BatchObject
<1>5. o(n).oid \in Bodies
  BY <1>4 DEF Object
<1>6. PICK f \in Findings :
        /\ said'[b] = Append(said[b], f)
        /\ f = "present" => Exists(arg[b].repo, o(n))
  BY <1>0, <1>n DEF TypeOK, BatchObject, Current, Findings
<1>7. Len(said'[b]) = n /\ said'[b][n] = f
  BY <1>2, <1>6, <1>n
<1>8. \A i \in 1..Len(said[b]) : said'[b][i] = said[b][i]
  BY <1>2, <1>6
<1>9. FindingFits(b, n)'
  <2>1. <<arg[b].repo, o(n).oid>> \in Paths /\ <<arg[b].repo, o(n).oid>>[2] = o(n).oid
    BY <1>0, <1>5 DEF Batch, Paths
  <2>2. Exists(arg[b].repo, o(n)) =>
          obj[<<arg[b].repo, o(n).oid>>] # None /\ o(n).size = SizeOf[o(n).oid]
    BY <2>1 DEF Inv, StoredObjectIsWhole, Exists
  <2> QED
    BY <1>0, <1>5, <1>6, <1>7, <2>2 DEF FindingFits
<1>10. \A i \in 1..Len(said[b]) : FindingFits(b, i)'
  BY <1>0, <1>8, FindingStays DEF BatchFitsAt
<1>11. \A i \in 1..Len(said'[b]) : FindingFits(b, i)'
  <2> SUFFICES ASSUME NEW i \in 1..Len(said'[b]) PROVE FindingFits(b, i)'
    OBVIOUS
  <2>1. i \in 1..Len(said[b]) \/ i = n
    BY <1>2, <1>7, <1>n
  <2>2. CASE i = n
    BY <1>9, <2>2
  <2> QED
    BY <1>10, <2>1, <2>2
<1>12. Len(said'[b]) <= Len(arg'[b].objects)
  BY <1>0, <1>3, <1>4, <1>7
<1> QED
  BY <1>11, <1>12 DEF BatchFitsAt

\* The facts about batches hold at every step of every batch.
LEMMA StepBatches ==
  ASSUME Inv, [Next]_vars, TypeOK', ArgsFit', IdleIsFresh'
  PROVE  BatchFits' /\ PresentIsStored'
<1> USE Kinds
<1>0. TypeOK /\ \A b \in Batches : BatchFitsAt(b)
  BY BatchParts DEF Inv
<1>1. (\A b \in Batches : BatchFitsAt(b))' => BatchFits' /\ PresentIsStored'
  BY BatchParts, PTL
<1> SUFFICES ASSUME NEW c \in Batches PROVE BatchFitsAt(c)'
  BY <1>1
<1>2. CASE pc[c] = "idle"
  <2>1. said'[c] = <<>>
    <3>1. \A b \in Batches : BatchStep(b) => pc[b] # "idle"
      BY DEF BatchStep, Denied, BatchAdmitted, BatchObject, BatchRefused,
         BatchFails, BatchEnds, Answer, Decide, Goto
    <3>2. said[c] = <<>>
      BY <1>2 DEF Inv, IdleIsFresh
    <3> QED
      BY <1>0, <1>2, <3>1, <3>2, Cases, ArriveFrame, UploadFrame, DownloadFrame,
         BatchFrame, OtherFrame
  <2>2. Len(said'[c]) = 0 /\ 1..Len(said'[c]) = {}
    BY <2>1
  <2>3. pc'[c] # "idle" => Len(arg'[c].objects) \in Nat
    <3> SUFFICES ASSUME pc'[c] # "idle" PROVE Len(arg'[c].objects) \in Nat
      OBVIOUS
    <3>1. arg'[c] \in Batch
      BY DEF ArgsFit
    <3>2. PICK k \in 0..BatchBound : arg'[c].objects \in [1..k -> Object]
      BY <3>1 DEF Batch
    <3> QED
      BY <3>2, ConstantsAssumption
  <2> QED
    BY <2>2, <2>3 DEF BatchFitsAt
<1>3. CASE pc[c] # "idle"
  <2>1. ASSUME NEW b \in Batches, BatchStep(b)
        PROVE  said'[c] = said[c] \/ BatchObject(c)
    <3>1. CASE b # c
      BY <1>0, <2>1, <3>1, BatchFrame
    <3>2. CASE b = c
      BY <2>1, <3>2 DEF BatchStep, Denied, BatchAdmitted, BatchRefused, BatchFails,
         BatchEnds
    <3> QED
      BY <3>1, <3>2
  <2>2. said'[c] = said[c] \/ BatchObject(c)
    BY <1>0, <2>1, Cases, ArriveFrame, UploadFrame, DownloadFrame, OtherFrame
  <2> QED
    BY <1>0, <1>3, <2>2, OtherBatch, OwnBatch
<1> QED
  BY <1>2, <1>3

\* Inv is an invariant.
LEMMA InvHolds == Spec => []Inv
<1>1. Inv /\ [Next]_vars => Inv'
  <2> SUFFICES ASSUME Inv, [Next]_vars PROVE Inv'
    OBVIOUS
  <2>1. TypeOK' /\ ArgsFit' /\ IdleIsFresh'
    BY StepTypes, StepArgs, StepIdle
  <2>2. UploadFits' /\ OkIsStored' /\ StoredObjectIsWhole'
    BY StepUploads, StepOk, StepWhole
  <2>3. DownloadFits' /\ DownloadIsExact' /\ BatchFits' /\ PresentIsStored'
    BY <2>1, StepDownloads, StepBatches
  <2> QED
    BY <2>1, <2>2, <2>3 DEF Inv
<1> QED
  BY InitInv, <1>1, PTL DEF Spec

-----------------------------------------------------------------------------
(***************************************************************************)
(* The theorems.                                                           *)
(***************************************************************************)

\* Files, handlers, arguments and answers keep their types in every behaviour
\* of the LFS endpoints; no temporary file outgrows its body and no download
\* sends more than an int64 counts.
THEOREM TypeCorrect == Spec => []TypeOK
<1>1. Inv => TypeOK
  BY DEF Inv
<1> QED
  BY InvHolds, <1>1, PTL

\* Put's write to a temporary file, check and rename: an object file is the
\* whole content of its oid at every moment, for any number of racing uploads
\* and under every fault.
THEOREM ObjectsAreWhole == Spec => []StoredObjectIsWhole
<1>1. Inv => StoredObjectIsWhole
  BY DEF Inv
<1> QED
  BY InvHolds, <1>1, PTL

\* Put replaces an object only by a file that passed its checks, so by the same
\* content: once stored, an object never changes or goes away, whatever uploads
\* race for its oid and however they end.
THEOREM ObjectsStay == Spec => ObjectsAreKept
<1>1. Inv /\ [Next]_vars => [\A p \in Paths : obj[p] # None => obj'[p] = obj[p]]_vars
  BY StepKeeps
<1> QED
  BY InvHolds, <1>1, PTL DEF Spec, ObjectsAreKept

\* serveLFSDownload: a download that ran to its end sent the content of the
\* oid it was asked for, all of it and nothing else.
THEOREM DownloadsAreExact == Spec => []DownloadIsExact
<1>1. Inv => DownloadIsExact
  BY DEF Inv
<1> QED
  BY InvHolds, <1>1, PTL

\* serveLFSBatch and Exists: the object a batch called present is stored, with
\* the size the client asked about, from then on.
THEOREM PresentStaysStored == Spec => []PresentIsStored
<1>1. Inv => PresentIsStored
  BY DEF Inv
<1> QED
  BY InvHolds, <1>1, PTL

\* serveLFSUpload: an upload answered 200 is stored, and every answered upload
\* has removed its temporary file unless os.Remove failed.
THEOREM AnsweredUploadsAreSettled == Spec => []AnsweredUploadIsSettled
<1>1. Inv => AnsweredUploadIsSettled
  BY DEF Inv, OkIsStored, UploadFits, PutFits, AnsweredUploadIsSettled
<1> QED
  BY InvHolds, <1>1, PTL

-----------------------------------------------------------------------------
(***************************************************************************)
(* The size limit, when maxSize + 1 does not overflow.                     *)
(***************************************************************************)

\* The upload u sends a whole object under its own oid, within the limit.
Good(u) ==
  /\ arg[u] # None /\ arg[u].oid = arg[u].body
  /\ arg[u].len = SizeOf[arg[u].body] /\ arg[u].len <= MaxSize

\* Such an upload is not refused, and Put has read all of it when it looks at
\* what it wrote.
GoodFits(u) ==
  Good(u) => /\ code[u] \notin Refusals
             /\ pc[u] = "verify" => temp[u].len = arg[u].len

\* An upload that does not move keeps this.
LEMMA OtherGood ==
  ASSUME NEW v \in Uploads, GoodFits(v), arg'[v] = arg[v], code'[v] = code[v],
         temp'[v] = temp[v], pc'[v] = pc[v] \/ pc'[v] = "dead"
  PROVE  GoodFits(v)'
BY DEF GoodFits, Good

\* The tests before Put, the copy up to the limit and the checks after it let
\* a good upload pass.
LEMMA OwnGood ==
  ASSUME MaxSize < MaxInt, Inv, NEW u \in Uploads, GoodFits(u), UploadStep(u)
  PROVE  GoodFits(u)'
<1> USE Kinds DEF Answer, Decide, Goto
<1>0. TypeOK /\ PutFits(u) /\ arg[u] \in Upload
  BY UploadHasArrived DEF Inv, UploadFits, ArgsFit
<1>1. arg' = arg
  BY <1>0, UploadFrame
<1> SUFFICES ASSUME Good(u)
             PROVE  /\ code'[u] \notin Refusals
                    /\ pc'[u] = "verify" => temp'[u].len = arg[u].len
  BY <1>1 DEF GoodFits, Good
<1>2. code[u] \notin Refusals
  BY DEF GoodFits
<1>3. SizeOf[arg[u].body] \in 0..MaxInt /\ arg[u].oid \in Bodies
  BY <1>0, ConstantsAssumption DEF Good, Upload
<1>4. Refusal(arg[u]) = None
  BY <1>3, LimitIsNat, ConstantsAssumption DEF Refusal, Good
<1>5. ReadLimit = MaxSize + 1
  BY LimitIsNat, ConstantsAssumption DEF ReadLimit, Wrap
<1>6. CASE Denied(u) \/ CreateTempFails(u) \/ CopyFails(u) \/ RenameFails(u)
  BY <1>0, <1>6
  DEF TypeOK, Denied, CreateTempFails, CopyFails, RenameFails, Refusals
<1>7. CASE UploadRefused(u)
  BY <1>4, <1>7 DEF UploadRefused
<1>8. CASE UploadAdmitted(u) \/ CreateTemp(u) \/ CopyByte(u)
  BY <1>0, <1>2, <1>8 DEF TypeOK, UploadAdmitted, CreateTemp, CopyByte
<1>9. CASE CopyEnds(u)
  <2>1. /\ temp[u].len \in Nat /\ arg[u].len \in Nat
        /\ temp[u].len <= arg[u].len /\ arg[u].len <= MaxSize
    BY <1>0, <1>3, <1>9, LimitIsNat, ConstantsAssumption DEF PutFits, CopyEnds, File, Good
  <2>2. temp[u].len = arg[u].len
    BY <1>5, <1>9, <2>1, LimitIsNat, ConstantsAssumption DEF CopyEnds
  <2> QED
    BY <1>0, <1>2, <1>9, <2>2 DEF TypeOK, CopyEnds
<1>10. CASE VerifyPasses(u)
  BY <1>0, <1>2, <1>10 DEF TypeOK, VerifyPasses
<1>11. CASE VerifyFails(u)
  <2>1. /\ temp[u] \in File /\ temp[u].body = arg[u].body
        /\ temp[u].len = arg[u].len
    BY <1>0, <1>11 DEF VerifyFails, PutFits, GoodFits
  <2>2. Verdict(u) = None
    BY <1>3, <2>1, LimitIsNat, ConstantsAssumption DEF Verdict, HashOf, Good
  <2> QED
    BY <1>11, <2>2 DEF VerifyFails
<1>12. CASE Rename(u)
  BY <1>0, <1>12 DEF TypeOK, Rename, Refusals
<1>13. CASE RemoveTemp(u)
  BY <1>0, <1>2, <1>13 DEF TypeOK, RemoveTemp
<1> QED
  BY <1>6, <1>7, <1>8, <1>9, <1>10, <1>11, <1>12, <1>13 DEF UploadStep

\* GITRDONE_MAX_LFS_OBJECT_BYTES: with a limit below the largest int64, an
\* upload of a whole object within the limit is never refused as too large or
\* as not matching.  At the largest int64 itself it is: maxSize + 1 overflows.
THEOREM LimitIsHonoured ==
  ASSUME MaxSize < MaxInt
  PROVE  Spec => []GoodUploadIsNotRefused
<1> USE Kinds
<1> DEFINE AllGood == \A u \in Uploads : GoodFits(u)
<1>1. Init => AllGood
  BY DEF Init, GoodFits, Good
<1>2. Inv /\ AllGood /\ [Next]_vars => AllGood'
  <2> SUFFICES ASSUME Inv, AllGood, [Next]_vars, NEW v \in Uploads
               PROVE  GoodFits(v)'
    OBVIOUS
  <2>0. TypeOK
    BY DEF Inv
  <2>1. ASSUME NEW r \in Requests, NEW S, Arrive(r, S)
        PROVE  GoodFits(v)'
    <3>1. CASE r = v
      <4>1. code'[v] = None /\ pc'[v] # "verify"
        BY <2>0, <2>1, <3>1 DEF Inv, TypeOK, IdleIsFresh, Arrive, Goto
      <4> QED
        BY <4>1, NoneAssumption DEF GoodFits, Codes
    <3>2. CASE r # v
      BY <2>0, <2>1, <3>2, ArriveFrame, OtherGood DEF OnlyOf
    <3> QED
      BY <3>1, <3>2
  <2>2. ASSUME NEW u \in Uploads, UploadStep(u)
        PROVE  GoodFits(v)'
    <3>1. CASE u = v
      BY <2>2, <3>1, OwnGood
    <3>2. CASE u # v
      BY <2>0, <2>2, <3>2, UploadFrame, OtherGood DEF OnlyOf
    <3> QED
      BY <3>1, <3>2
  <2>3. ASSUME NEW d \in Downloads, DownloadStep(d)
        PROVE  GoodFits(v)'
    BY <2>0, <2>3, DownloadFrame, OtherGood DEF OnlyOf
  <2>4. ASSUME NEW b \in Batches, BatchStep(b)
        PROVE  GoodFits(v)'
    BY <2>0, <2>4, BatchFrame, OtherGood DEF OnlyOf
  <2>5. CASE \/ \E r \in Requests : Cancel(r)
             \/ Crash
             \/ Quiescent
             \/ UNCHANGED vars
    BY <2>0, <2>5, OtherFrame, OtherGood
  <2> QED
    BY <2>1, <2>2, <2>3, <2>4, <2>5, Cases
<1>3. AllGood => GoodUploadIsNotRefused
  BY DEF GoodFits, Good, GoodUploadIsNotRefused
<1> QED
  BY InvHolds, <1>1, <1>2, <1>3, PTL DEF Spec

=============================================================================
