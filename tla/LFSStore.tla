------------------------------ MODULE LFSStore ------------------------------
(***************************************************************************)
(* Git LFS transfers: the batch, upload and download endpoints and         *)
(* filesystemLFSObjectStore, which keeps one file per (repo, oid).         *)
(*                                                                         *)
(* Put streams the request body into a temporary file, checks size and     *)
(* SHA-256 of what it wrote and renames the file into place.  No lock is   *)
(* involved: uploads of one object, downloads and the Exists tests of      *)
(* batches interleave at the file system.  The module interleaves them     *)
(* byte by byte with clients that go away, failing file operations and     *)
(* crashes of the process.  Whether a token grants the access is           *)
(* TokenAccess's business; here a request is granted or not.               *)
(***************************************************************************)
EXTENDS Integers, Sequences

CONSTANTS
  Uploads,     \* PUT requests, each made once
  Downloads,   \* GET requests, each made once
  Batches,     \* batch requests, each made once
  Repos,       \* repositories
  Bodies,      \* object contents; a content stands for its own SHA-256 too
  SizeOf,      \* the size of each of them
  Invalid,     \* an oid parseLFSOID rejects
  Configured,  \* GITRDONE_MAX_LFS_OBJECT_BYTES, not positive when unset
  Default,     \* DefaultMaxLFSObjectBytes
  MaxInt,      \* the largest int64
  BatchBound,  \* bound: objects of a batch
  None,        \* no value
  Stuck,       \* the uploads for which os.Remove may fail
  Faults       \* the faults this instance admits

FaultKinds == {"cancel",   \* the client goes away
               "disk",     \* a file operation fails
               "crash"}    \* the process dies; the disk survives

ASSUME ConstantsAssumption ==
  /\ Uploads \cap Downloads = {} /\ Batches \cap (Uploads \cup Downloads) = {}
  /\ SizeOf \in [Bodies -> 0..MaxInt]
  /\ Invalid \notin Bodies
  /\ MaxInt \in Nat /\ Configured \in Int /\ Default \in Nat \ {0}
  /\ Configured <= MaxInt /\ Default <= MaxInt
  /\ BatchBound \in Nat
  /\ Stuck \subseteq Uploads
  /\ Faults \subseteq FaultKinds

\* A file: the first len bytes of a body.
File == [body : Bodies, len : 0..MaxInt]

\* SHA-256 of a file's bytes; what part of a body hashes to is no oid in use.
HashOf(f) == IF f.len = SizeOf[f.body] THEN f.body ELSE None

\* objectPath.
Paths == Repos \X Bodies

\* normalizeMaxLFSObjectBytes.
MaxSize == IF Configured <= 0 THEN Default ELSE Configured

\* int64 addition wraps around.
Wrap(n) == IF n > MaxInt THEN n - 2 * (MaxInt + 1) ELSE n

\* Mutant of ReadLimit: the reader stops one byte early.
ReadLimitShort == MaxSize - 1

\* The N of Put's LimitedReader; it reads nothing when N is not positive.
ReadLimit == Wrap(MaxSize + 1)

\* A PUT: the oid of its path, its Content-Length (-1: none) and the body its
\* client sends.  The empty content is a body of its own.
Upload ==
  {a \in [repo : Repos, oid : Bodies \cup {Invalid}, len : -1..MaxInt,
          body : Bodies] : a.len = 0 => SizeOf[a.body] = 0}

\* A GET.
Wanted == [repo : Repos, oid : Bodies \cup {Invalid}]

\* An object of a batch.  A malformed oid or a negative size makes it invalid.
Object == [oid : Bodies, size : 0..MaxInt] \cup {[oid |-> Invalid, size |-> 0]}

\* A batch that decodes and names an operation.
Batch == [repo : Repos, op : {"upload", "download"},
          objects : UNION {[1..n -> Object] : n \in 0..BatchBound}]

VARIABLES
  obj,    \* the object files, by path
  temp,   \* the temporary file of each upload
  pc,     \* where the handler of each request is
  gone,   \* TRUE once the client of the request went away
  arg,    \* the arguments of each request
  code,   \* the answer of each request, once it is decided
  file,   \* the file a download has open
  sent,   \* the number of its bytes that were sent
  said    \* what a batch found out about its objects so far

vars == <<obj, temp, pc, gone, arg, code, file, sent, said>>

Requests == Uploads \cup Downloads \cup Batches
InFlight == {"access", "put", "copy", "verify", "rename", "remove", "open",
             "send", "exists"}
Final    == {"done", "dead"}
Refusals == {"badRequest", "lengthRequired", "tooLarge", "invalid"}
Codes    == {"ok", "denied", "notFound", "error"} \cup Refusals
Findings == {"present", "absent", "tooLarge"}

ASSUME NoneAssumption == None \notin Bodies \cup File \cup Codes

\* Type correctness of the files and of the requests' state.
TypeOK ==
  /\ obj \in [Paths -> File \cup {None}]
  /\ temp \in [Uploads -> File \cup {None}]
  /\ pc \in [Requests -> {"idle"} \cup InFlight \cup Final]
  /\ gone \in [Requests -> BOOLEAN]
  /\ arg \in [Requests -> Upload \cup Wanted \cup Batch \cup {None}]
  /\ code \in [Requests -> Codes \cup {None}]
  /\ file \in [Downloads -> File \cup {None}]
  /\ sent \in [Downloads -> 0..MaxInt]
  /\ said \in [Batches -> Seq(Findings)]

Init ==
  /\ obj = [p \in Paths |-> None]
  /\ temp = [u \in Uploads |-> None]
  /\ pc = [r \in Requests |-> "idle"]
  /\ gone = [r \in Requests |-> FALSE]
  /\ arg = [r \in Requests |-> None]
  /\ code = [r \in Requests |-> None]
  /\ file = [d \in Downloads |-> None]
  /\ sent = [d \in Downloads |-> 0]
  /\ said = [b \in Batches |-> <<>>]

Goto(r, from, to) ==
  /\ pc[r] = from
  /\ pc' = [pc EXCEPT ![r] = to]

\* The answer c is decided and the handler goes on at `to'.
Decide(r, from, to, c) ==
  /\ Goto(r, from, to)
  /\ code' = [code EXCEPT ![r] = c]

Answer(r, from, c) == Decide(r, from, "done", c)

\* The request arrives; its access is looked at first.
Arrive(r, args) ==
  /\ Goto(r, "idle", "access")
  /\ \E a \in args : arg' = [arg EXCEPT ![r] = a]
  /\ UNCHANGED <<obj, temp, gone, code, file, sent, said>>

\* authorizeLFSAccess refuses: 401, 403 or 500.
Denied(r) ==
  /\ Answer(r, "access", "denied")
  /\ UNCHANGED <<obj, temp, gone, arg, file, sent, said>>

\* A file operation fails, or a handler notices that the client is gone.
Fails(r) == gone[r] \/ "disk" \in Faults

-----------------------------------------------------------------------------
(***************************************************************************)
(* Upload: serveLFSUpload and Put.                                         *)
(***************************************************************************)

\* The tests before Put, in their order.
Refusal(a) ==
  IF a.oid = Invalid THEN "badRequest"
  ELSE IF a.len < 0 THEN "lengthRequired"
  ELSE IF a.len > MaxSize THEN "tooLarge"
  ELSE None

UploadRefused(u) ==
  /\ Answer(u, "access", Refusal(arg[u]))
  /\ Refusal(arg[u]) # None
  /\ UNCHANGED <<obj, temp, gone, arg, file, sent, said>>

UploadAdmitted(u) ==
  /\ Goto(u, "access", "put")
  /\ Refusal(arg[u]) = None
  /\ UNCHANGED <<obj, temp, gone, arg, code, file, sent, said>>

Path(u) == <<arg[u].repo, arg[u].oid>>

\* ctx.Err(), MkdirAll and CreateTemp.
CreateTemp(u) ==
  /\ Goto(u, "put", "copy")
  /\ ~gone[u]
  /\ temp' = [temp EXCEPT ![u] = [body |-> arg[u].body, len |-> 0]]
  /\ UNCHANGED <<obj, gone, arg, code, file, sent, said>>

CreateTempFails(u) ==
  /\ Answer(u, "put", "error")
  /\ Fails(u)
  /\ UNCHANGED <<obj, temp, gone, arg, file, sent, said>>

\* Mutant of CopyByte: no end of the body or of the limit is noticed.
CopyByteEndless(u) ==
  /\ Goto(u, "copy", "copy")
  /\ temp' = [temp EXCEPT ![u] = [body |-> @.body, len |-> @.len + 1]]
  /\ UNCHANGED <<obj, gone, arg, code, file, sent, said>>

\* io.Copy passes one more byte of the request body on.  The server hands out
\* no more than Content-Length bytes of it.
CopyByte(u) ==
  /\ Goto(u, "copy", "copy")
  /\ temp[u].len < arg[u].len
  /\ temp[u].len < ReadLimit
  /\ temp[u].len < SizeOf[arg[u].body]
  /\ temp' = [temp EXCEPT ![u] = [body |-> @.body, len |-> @.len + 1]]
  /\ UNCHANGED <<obj, gone, arg, code, file, sent, said>>

\* io.Copy sees the end of the body or of the LimitedReader.
CopyEnds(u) ==
  /\ Goto(u, "copy", "verify")
  /\ temp[u].len = arg[u].len \/ temp[u].len >= ReadLimit
  /\ UNCHANGED <<obj, temp, gone, arg, code, file, sent, said>>

\* A write or Close fails; or a read does, while bytes are missing, since the
\* client left or sent less than it announced.
CopyFails(u) ==
  /\ Decide(u, "copy", "remove", "error")
  /\ \/ "disk" \in Faults
     \/ temp[u].len < arg[u].len /\ (gone[u] \/ SizeOf[arg[u].body] < arg[u].len)
  /\ UNCHANGED <<obj, temp, gone, arg, file, sent, said>>

\* Mutant of Verdict: the hash is not compared.
VerdictNoHash(u) ==
  IF temp[u].len > MaxSize THEN "tooLarge"
  ELSE IF temp[u].len # arg[u].len THEN "invalid"
  ELSE None

\* What Put thinks of the bytes it wrote.
Verdict(u) ==
  IF temp[u].len > MaxSize THEN "tooLarge"
  ELSE IF temp[u].len # arg[u].len \/ HashOf(temp[u]) # arg[u].oid
         THEN "invalid"
  ELSE None

VerifyPasses(u) ==
  /\ Goto(u, "verify", "rename")
  /\ Verdict(u) = None
  /\ UNCHANGED <<obj, temp, gone, arg, code, file, sent, said>>

VerifyFails(u) ==
  /\ Decide(u, "verify", "remove", Verdict(u))
  /\ Verdict(u) # None
  /\ UNCHANGED <<obj, temp, gone, arg, file, sent, said>>

\* os.Rename, then 200.
Rename(u) ==
  /\ Answer(u, "rename", "ok")
  /\ obj' = [obj EXCEPT ![Path(u)] = temp[u]]
  /\ temp' = [temp EXCEPT ![u] = None]
  /\ UNCHANGED <<gone, arg, file, sent, said>>

RenameFails(u) ==
  /\ Decide(u, "rename", "remove", "error")
  /\ "disk" \in Faults
  /\ UNCHANGED <<obj, temp, gone, arg, file, sent, said>>

\* Mutant of RemoveTemp: the object file is removed too.
RemoveObject(u) ==
  /\ Goto(u, "remove", "done")
  /\ temp' = [temp EXCEPT ![u] = None]
  /\ obj' = [obj EXCEPT ![Path(u)] = None]
  /\ UNCHANGED <<gone, arg, code, file, sent, said>>

\* Mutant of RemoveTemp: no deferred os.Remove.
KeepTemp(u) ==
  /\ Goto(u, "remove", "done")
  /\ UNCHANGED <<obj, temp, gone, arg, code, file, sent, said>>

\* The deferred os.Remove, whose error is ignored.
RemoveTemp(u) ==
  /\ Goto(u, "remove", "done")
  /\ \/ temp' = [temp EXCEPT ![u] = None]
     \/ u \in Stuck /\ UNCHANGED temp
  /\ UNCHANGED <<obj, gone, arg, code, file, sent, said>>

UploadStep(u) ==
  \/ Denied(u) \/ UploadRefused(u) \/ UploadAdmitted(u)
  \/ CreateTemp(u) \/ CreateTempFails(u)
  \/ CopyByte(u) \/ CopyEnds(u) \/ CopyFails(u)
  \/ VerifyPasses(u) \/ VerifyFails(u)
  \/ Rename(u) \/ RenameFails(u) \/ RemoveTemp(u)

-----------------------------------------------------------------------------
(***************************************************************************)
(* Download: serveLFSDownload and Open.                                    *)
(***************************************************************************)

DownloadRefused(d) ==
  /\ Answer(d, "access", "badRequest")
  /\ arg[d].oid = Invalid
  /\ UNCHANGED <<obj, temp, gone, arg, file, sent, said>>

DownloadAdmitted(d) ==
  /\ Goto(d, "access", "open")
  /\ arg[d].oid # Invalid
  /\ UNCHANGED <<obj, temp, gone, arg, code, file, sent, said>>

\* os.Open and Stat: the open file is this one whatever is renamed over it.
OpenFound(d) ==
  /\ Goto(d, "open", "send")
  /\ ~gone[d]
  /\ obj[Path(d)] # None
  /\ file' = [file EXCEPT ![d] = obj[Path(d)]]
  /\ UNCHANGED <<obj, temp, gone, arg, code, sent, said>>

OpenMissing(d) ==
  /\ Answer(d, "open", "notFound")
  /\ ~gone[d]
  /\ obj[Path(d)] = None
  /\ UNCHANGED <<obj, temp, gone, arg, file, sent, said>>

OpenFails(d) ==
  /\ Answer(d, "open", "error")
  /\ Fails(d)
  /\ UNCHANGED <<obj, temp, gone, arg, file, sent, said>>

\* io.Copy to the client.
SendByte(d) ==
  /\ Goto(d, "send", "send")
  /\ ~gone[d]
  /\ sent[d] < file[d].len
  /\ sent' = [sent EXCEPT ![d] = @ + 1]
  /\ UNCHANGED <<obj, temp, gone, arg, code, file, said>>

\* Mutant of SendEnds: the copy is not finished.
SendEndsEarly(d) ==
  /\ Answer(d, "send", "ok")
  /\ UNCHANGED <<obj, temp, gone, arg, file, sent, said>>

\* All bytes that Content-Length announced went out.
SendEnds(d) ==
  /\ Answer(d, "send", "ok")
  /\ sent[d] = file[d].len
  /\ UNCHANGED <<obj, temp, gone, arg, file, sent, said>>

\* io.Copy fails after 200 was sent: the client sees a short body.
SendFails(d) ==
  /\ Answer(d, "send", "error")
  /\ Fails(d)
  /\ UNCHANGED <<obj, temp, gone, arg, file, sent, said>>

DownloadStep(d) ==
  \/ Denied(d) \/ DownloadRefused(d) \/ DownloadAdmitted(d)
  \/ OpenFound(d) \/ OpenMissing(d) \/ OpenFails(d)
  \/ SendByte(d) \/ SendEnds(d) \/ SendFails(d)

-----------------------------------------------------------------------------
(***************************************************************************)
(* Batch: serveLFSBatch and Exists.                                        *)
(***************************************************************************)

BatchAdmitted(b) ==
  /\ Goto(b, "access", "exists")
  /\ UNCHANGED <<obj, temp, gone, arg, code, file, sent, said>>

\* The object the loop is at.
Current(b) == arg[b].objects[Len(said[b]) + 1]

\* An upload over the limit, which is told so and not looked up.
TooLarge(b) == arg[b].op = "upload" /\ Current(b).size > MaxSize

\* Mutant of Exists: the size of the file is not compared.
ExistsAnySize(repo, o) == obj[<<repo, o.oid>>] # None

Exists(repo, o) ==
  LET f == obj[<<repo, o.oid>>] IN f # None /\ f.len = o.size

\* One turn of the loop.  Only Exists looks at the context.
BatchObject(b) ==
  /\ Goto(b, "exists", "exists")
  /\ Len(said[b]) < Len(arg[b].objects)
  /\ Current(b).oid # Invalid
  /\ ~gone[b] \/ TooLarge(b)
  /\ said' = [said EXCEPT ![b] = Append(@,
               IF TooLarge(b) THEN "tooLarge"
               ELSE IF Exists(arg[b].repo, Current(b)) THEN "present" ELSE "absent")]
  /\ UNCHANGED <<obj, temp, gone, arg, code, file, sent>>

\* An invalid object: 400 for the whole batch, whatever was found before it.
BatchRefused(b) ==
  /\ Answer(b, "exists", "badRequest")
  /\ Len(said[b]) < Len(arg[b].objects)
  /\ Current(b).oid = Invalid
  /\ UNCHANGED <<obj, temp, gone, arg, file, sent, said>>

\* Exists returns an error: 500 for the whole batch.
BatchFails(b) ==
  /\ Answer(b, "exists", "error")
  /\ Fails(b)
  /\ Len(said[b]) < Len(arg[b].objects)
  /\ Current(b).oid # Invalid /\ ~TooLarge(b)
  /\ UNCHANGED <<obj, temp, gone, arg, file, sent, said>>

\* 200: a present object has a download action and no upload action, an
\* absent one an upload action or error 404.
BatchEnds(b) ==
  /\ Answer(b, "exists", "ok")
  /\ Len(said[b]) = Len(arg[b].objects)
  /\ UNCHANGED <<obj, temp, gone, arg, file, sent, said>>

BatchStep(b) ==
  \/ Denied(b) \/ BatchAdmitted(b) \/ BatchObject(b)
  \/ BatchRefused(b) \/ BatchFails(b) \/ BatchEnds(b)

-----------------------------------------------------------------------------
Cancel(r) ==
  /\ "cancel" \in Faults
  /\ pc[r] \in InFlight
  /\ ~gone[r]
  /\ gone' = [gone EXCEPT ![r] = TRUE]
  /\ UNCHANGED <<obj, temp, pc, arg, code, file, sent, said>>

\* The process dies; files stay, temporary ones too.
Crash ==
  /\ "crash" \in Faults
  /\ \E r \in Requests : pc[r] \in InFlight
  /\ pc' = [r \in Requests |-> IF pc[r] \in InFlight THEN "dead" ELSE pc[r]]
  /\ UNCHANGED <<obj, temp, gone, arg, code, file, sent, said>>

\* No request is being served.
Quiescent ==
  /\ \A r \in Requests : pc[r] \notin InFlight
  /\ UNCHANGED vars

Next ==
  \/ \E u \in Uploads : Arrive(u, Upload) \/ UploadStep(u)
  \/ \E d \in Downloads : Arrive(d, Wanted) \/ DownloadStep(d)
  \/ \E b \in Batches : Arrive(b, Batch) \/ BatchStep(b)
  \/ \E r \in Requests : Cancel(r)
  \/ Crash
  \/ Quiescent

Spec == Init /\ [][Next]_vars

-----------------------------------------------------------------------------
(***************************************************************************)
(* Properties.                                                             *)
(***************************************************************************)

\* An object file is at every moment the complete content of its oid, while
\* any number of uploads of it run, fail or die half way.
StoredObjectIsWhole ==
  \A p \in Paths : obj[p] # None =>
    obj[p].body = p[2] /\ obj[p].len = SizeOf[p[2]]

\* An object that was stored stays: no later upload of the same oid, however
\* it ends, removes or changes it.
ObjectsAreKept ==
  [][\A p \in Paths : obj[p] # None => obj'[p] = obj[p]]_vars

\* A download that ran to its end sent exactly the content of the oid it
\* asked for, also when uploads of that object raced with it.
DownloadIsExact ==
  \A d \in Downloads : code[d] = "ok" =>
    /\ file[d].body = arg[d].oid
    /\ sent[d] = SizeOf[arg[d].oid]

\* What a batch calls present is stored with the size the client asked about,
\* from then on: a client that skips the upload, or downloads later, is safe.
PresentIsStored ==
  \A b \in Batches : \A i \in 1..Len(said[b]) : said[b][i] = "present" =>
    LET o == arg[b].objects[i] IN
    /\ obj[<<arg[b].repo, o.oid>>] # None
    /\ o.size = SizeOf[o.oid]

\* An upload that was answered 200 is stored, and one that was answered with
\* an error has left no temporary file, unless os.Remove failed.
AnsweredUploadIsSettled ==
  \A u \in Uploads : pc[u] = "done" =>
    /\ code[u] = "ok" => obj[Path(u)] # None
    /\ u \notin Stuck => temp[u] = None

\* GITRDONE_MAX_LFS_OBJECT_BYTES is the maximum accepted upload size: an
\* upload of a whole object under its own oid that is no larger is never
\* refused as too large or as not matching.
GoodUploadIsNotRefused ==
  \A u \in Uploads :
    (arg[u] # None /\ arg[u].oid = arg[u].body
       /\ arg[u].len = SizeOf[arg[u].body] /\ arg[u].len <= MaxSize)
      => code[u] \notin Refusals
=============================================================================
