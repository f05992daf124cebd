----------------------------- MODULE MCLFSStore -----------------------------
(* LFSStore for TLC: a small object and a larger one, in three scopes.     *)
(* Uploads and downloads run at once; an upload and any batch; uploads and *)
(* a batch that all name the small object, which may be stored again after *)
(* the batch saw it.  The repositories are alike: uploads and downloads    *)
(* name one of them and batches any.                                       *)
EXTENDS LFSStore

CONSTANTS small, large, u1, i1

MCSizeOf == [b \in Bodies |-> IF b = small THEN 1 ELSE IF b = large THEN 2 ELSE 0]

VARIABLE scope

Scopes == {[requests |-> Uploads \cup Downloads, onlySmall |-> FALSE],
           [requests |-> {u1} \cup Batches, onlySmall |-> FALSE],
           [requests |-> Uploads \cup Batches, onlySmall |-> TRUE]}

MCInit == Init /\ scope \in Scopes

UploadsOf == {a \in Upload : a.repo = i1 /\ (scope.onlySmall => a.oid = small)}
BatchesOf ==
  {a \in Batch : scope.onlySmall => a.objects = <<[oid |-> small, size |-> 1]>>}

\* Next for the requests of the scope; the others do not arrive.
MCNext ==
  /\ \/ \E u \in Uploads \cap scope.requests : Arrive(u, UploadsOf) \/ UploadStep(u)
     \/ \E d \in Downloads \cap scope.requests :
          Arrive(d, {a \in Wanted : a.repo = i1}) \/ DownloadStep(d)
     \/ \E b \in Batches \cap scope.requests : Arrive(b, BatchesOf) \/ BatchStep(b)
     \/ \E r \in scope.requests : Cancel(r)
     \/ Crash
     \/ Quiescent
  /\ UNCHANGED scope

MCSpec == MCInit /\ [][MCNext]_<<vars, scope>>
=============================================================================
