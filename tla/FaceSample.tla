----------------------------- MODULE FaceSample -----------------------------
(***************************************************************************)
(* Face samples across PostgreSQL, MinIO and Qdrant.  Enrollments,         *)
(* recognitions and video finalizations match a face and persist a sample  *)
(* of it; identities are renamed and deleted; the storage reconciliation   *)
(* repairs what does not fit together.                                     *)
(*                                                                         *)
(* Each call of a store is a step, and may fail with or without an effect. *)
(* A request has one face in its image.  A request that persists a sample  *)
(* has a fresh sample id, here its own name, as has the identity that it   *)
(* creates when it matches nobody.  Those of a video job are derived from  *)
(* the job, so a retry of the job meets what its last attempt left.        *)
(***************************************************************************)
EXTENDS Naturals

CONSTANTS
    Requests,   \* enrollments, recognitions and video jobs
    KindsOf,    \* what each of them may be
    None        \* no face, or no sample

Kinds == {"enroll", "recognize", "video"}

ASSUME KindsAssumption == KindsOf \in [Requests -> SUBSET Kinds]
ASSUME NoneAssumption == None \notin Requests

VARIABLES
    identity,   \* the face_identity rows
    sample,     \* the face_sample rows
    objects,    \* the samples whose aligned image is in MinIO
    vector,     \* the points of Qdrant
    process,    \* the process_record rows
    request,    \* the requests in progress
    deletion,   \* the deletion of an identity in progress
    pass        \* the storage reconciliation in progress

rows == <<identity, sample, process>>
stores == <<objects, vector>>
vars == <<rows, stores, request, deletion, pass>>

Faces == Requests

\* "anonymous" and "known" are active.
IdentityStatus == {"absent", "anonymous", "known", "deleted"}
Active(f) == identity[f] \in {"anonymous", "known"}

\* create, with or without a name, and soft_delete of an identity.
NewIdentity(named) == IF named THEN "known" ELSE "anonymous"
SoftDelete(f) == identity' = [identity EXCEPT ![f] = "deleted"]

\* update_known, of an active identity only.
UpdateKnown(f) == identity' = [identity EXCEPT ![f] = IF Active(f) THEN "known" ELSE @]

\* active: is_active; described: update_blob_ready has set the columns of the object.
\* A sample in state "active" has is_active, by which deletions and passes find it.
SampleRow ==
    {row \in [state: {"none", "pending", "blob_ready", "active", "inactive", "failed"},
              active: BOOLEAN, described: BOOLEAN, face: Faces \cup {None}] :
        row.state = "active" => row.active /\ row.described}

\* The writes of FaceSampleRepository.
CreatePending(f) == [state |-> "pending", active |-> TRUE, described |-> FALSE, face |-> f]
UpdateBlobReady(row) == [row EXCEPT !.state = "blob_ready", !.described = TRUE]
ActivatedRow(row) == [row EXCEPT !.state = "active", !.active = TRUE]
InactiveRow(row) == [row EXCEPT !.state = "inactive", !.active = FALSE]
FailedRow(row) == [row EXCEPT !.state = "failed", !.active = FALSE]
DeactivateByFace(f) ==
    sample' = [s \in Requests |->
        IF sample[s].face = f /\ sample[s].active THEN InactiveRow(sample[s]) ELSE sample[s]]

\* What MinIO and Qdrant say of a sample.
StatAlignedSample(s) == s \in objects
HasActivePoint(s) == vector[s] = "active"

\* complete and fail of ProcessRecordRepository.
CompleteProcess(r) == process' = [process EXCEPT ![r] = "completed"]
FailProcess(r) == process' = [process EXCEPT ![r] = "failed"]

\* face: the selected identity; sample: the sample to report; gone: the faces
\* that had been deleted when the request came.
RequestState ==
    [kind: Kinds \cup {"none"},
     at: {"idle", "infer", "match", "promote", "ensure", "upload", "blob", "upsert",
          "activate", "finish", "record", "fail", "over"},
     face: Faces \cup {None}, sample: Requests \cup {None}, gone: SUBSET Faces]

Deletion == [at: {"idle", "vectors"}, todo: SUBSET Requests]
Pass == [at: {"idle", "check", "row", "vector"}, todo: SUBSET Requests, now: Requests \cup {None}]

TypeOK ==
    /\ identity \in [Faces -> IdentityStatus]
    /\ sample \in [Requests -> SampleRow]
    /\ objects \subseteq Requests
    /\ vector \in [Requests -> {"none", "active", "inactive"}]
    /\ process \in [Requests -> {"none", "started", "completed", "failed"}]
    /\ request \in [Requests -> RequestState]
    /\ deletion \in Deletion
    /\ pass \in Pass

IdleRequest == [kind |-> "none", at |-> "idle", face |-> None, sample |-> None, gone |-> {}]
IdleDeletion == [at |-> "idle", todo |-> {}]
IdlePass == [at |-> "idle", todo |-> {}, now |-> None]

Init ==
    /\ identity = [f \in Faces |-> "absent"]
    /\ sample = [r \in Requests |-> [state |-> "none", active |-> FALSE, described |-> FALSE,
                                     face |-> None]]
    /\ objects = {}
    /\ vector = [r \in Requests |-> "none"]
    /\ process = [r \in Requests |-> "none"]
    /\ request = [r \in Requests |-> IdleRequest]
    /\ deletion = IdleDeletion
    /\ pass = IdlePass

Goes(r, at) == request' = [request EXCEPT ![r].at = at]

\* A request that has failed forgets what it had selected.
Drops(r, at) == request' = [request EXCEPT ![r] = [IdleRequest EXCEPT !.kind = request[r].kind, !.at = at]]

-----------------------------------------------------------------------------
(* enroll, recognize and finalize up to the selected identity.             *)

\* The process record of the request is committed first.
Start(r, kind) ==
    /\ request[r].at = "idle"
    /\ process' = [process EXCEPT ![r] = "started"]
    /\ request' = [request EXCEPT ![r] = [IdleRequest EXCEPT
                     !.kind = kind, !.at = "infer", !.gone = IF kind = "video" THEN {} ELSE {f \in Faces : identity[f] = "deleted"}]]
    /\ UNCHANGED <<identity, sample, stores, deletion, pass>>

\* The search of FaceMatcher: some sample with an active vector, or none.
Search(r) ==
    /\ request[r].at = "infer"
    /\ \E c \in {s \in Requests : HasActivePoint(s)} \cup {None} :
          request' = [request EXCEPT ![r].at = "match", ![r].sample = c]
    /\ UNCHANGED <<rows, stores, deletion, pass>>

\* What follows a matched face: an enrollment adds a sample to it, a recognition
\* or a finalization reports it.
AfterMatch(r, f) ==
    request' = [request EXCEPT ![r].face = f,
                               ![r].at = IF request[r].kind = "enroll" THEN "promote" ELSE "finish",
                               ![r].sample = IF request[r].kind = "enroll" THEN r ELSE @]

\* Nobody matches: a new identity, with a sample of its own.
NoMatch(r) ==
    request' = [request EXCEPT ![r].face = r, ![r].sample = r,
                               ![r].at = IF request[r].kind = "enroll" THEN "promote" ELSE "ensure"]

MatchUnfiltered(r) ==
    /\ request[r].at = "match"
    /\ LET c == request[r].sample
       IN IF c # None THEN AfterMatch(r, sample[c].face) ELSE NoMatch(r)
    /\ UNCHANGED <<rows, stores, deletion, pass>>

\* candidates_batch reads the identity that the vector names, if it is active.
Match(r) ==
    /\ request[r].at = "match"
    /\ LET c == request[r].sample
       IN IF c # None /\ Active(sample[c].face) THEN AfterMatch(r, sample[c].face) ELSE NoMatch(r)
    /\ UNCHANGED <<rows, stores, deletion, pass>>

\* enroll with a face id: the identity has to be there, and active.
Given(r, f) ==
    /\ request[r].kind = "enroll" /\ request[r].at = "infer"
    /\ IF Active(f)
       THEN request' = [request EXCEPT ![r].at = "promote", ![r].face = f, ![r].sample = r]
       ELSE Drops(r, "fail")
    /\ UNCHANGED <<rows, stores, deletion, pass>>

\* enroll: update_known of the selected identity, if it exists and is active.
Promote(r) ==
    /\ request[r].at = "promote"
    /\ UpdateKnown(request[r].face)
    /\ Goes(r, "ensure")
    /\ UNCHANGED <<sample, process, stores, deletion, pass>>

-----------------------------------------------------------------------------
(* FaceSamplePersistenceService.persist.                                   *)

\* _ensure_identity_and_sample: an identity or a sample that exists is taken as it
\* is; an active sample is done.
Ensure(r) ==
    LET f == request[r].face
    IN /\ request[r].at = "ensure"
       /\ identity' = [identity EXCEPT ![f] =
             IF @ = "absent" THEN NewIdentity(request[r].kind = "enroll") ELSE @]
       /\ sample' = [sample EXCEPT ![r] = IF @.state = "none" THEN CreatePending(f) ELSE @]
       /\ Goes(r, IF sample[r].state = "active" THEN "finish" ELSE "upload")
       /\ UNCHANGED <<process, stores, deletion, pass>>

UploadUnchecked(r) ==
    /\ request[r].at = "upload"
    /\ \E ok \in BOOLEAN : objects' = IF ok THEN objects \cup {r} ELSE objects
    /\ Goes(r, "blob")
    /\ UNCHANGED <<rows, vector, deletion, pass>>

\* The object is put and asked for; a failure may come after it was stored.
Upload(r) ==
    /\ request[r].at = "upload"
    /\ \/ objects' = objects \cup {r} /\ Goes(r, "blob")
       \/ objects' \in {objects, objects \cup {r}} /\ Drops(r, "record")
    /\ UNCHANGED <<rows, vector, deletion, pass>>

\* update_blob_ready leaves is_active as it is.
BlobReady(r) ==
    /\ request[r].at = "blob"
    /\ sample' = [sample EXCEPT ![r] = UpdateBlobReady(@)]
    /\ Goes(r, "upsert")
    /\ UNCHANGED <<identity, process, stores, deletion, pass>>

Upsert(r) ==
    /\ request[r].at = "upsert"
    /\ \/ vector' = [vector EXCEPT ![r] = "active"] /\ Goes(r, "activate")
       \/ vector' \in {vector, [vector EXCEPT ![r] = "active"]} /\ Drops(r, "record")
    /\ UNCHANGED <<rows, objects, deletion, pass>>

SetActive(r) ==
    /\ request[r].at = "activate"
    /\ sample' = [sample EXCEPT ![r] = ActivatedRow(@)]
    /\ Goes(r, "finish")
    /\ UNCHANGED <<identity, process, stores, deletion, pass>>

\* _record_failure: one transaction, whose failure is swallowed.
RecordFailure(r) ==
    /\ request[r].at = "record"
    /\ \/ sample' = [sample EXCEPT ![r] = FailedRow(@)] /\ FailProcess(r)
       \/ UNCHANGED <<sample, process>>
    /\ Drops(r, "fail")
    /\ UNCHANGED <<identity, stores, deletion, pass>>

-----------------------------------------------------------------------------
(* The end of a request.                                                   *)

FinishEarly(r) ==
    /\ request[r].at \in {"blob", "finish"}
    /\ CompleteProcess(r)
    /\ Goes(r, "over")
    /\ UNCHANGED <<identity, sample, stores, deletion, pass>>

\* The result and the completed process are one commit.
Finish(r) ==
    /\ request[r].at = "finish"
    /\ CompleteProcess(r)
    /\ Goes(r, "over")
    /\ UNCHANGED <<identity, sample, stores, deletion, pass>>

\* A step raises: the worker, the matcher or a transaction of the request.
Raises(r) ==
    /\ request[r].at \in {"infer", "match", "promote", "ensure", "blob", "activate", "finish"}
    /\ Drops(r, "fail")
    /\ UNCHANGED <<rows, stores, deletion, pass>>

\* _fail, whose failure is swallowed.  What becomes of a video job is the subject
\* of VideoJob.
Fail(r) ==
    /\ request[r].at = "fail"
    /\ \/ request[r].kind # "video" /\ FailProcess(r)
       \/ process' = process
    /\ Drops(r, "over")
    /\ UNCHANGED <<identity, sample, stores, deletion, pass>>

\* The process that serves the request dies.
Crash(r) ==
    /\ request[r].at \notin {"idle", "over"}
    /\ Drops(r, "over")
    /\ UNCHANGED <<rows, stores, deletion, pass>>

\* The next attempt at a video job, with the same ids.
Retry(r) ==
    /\ request[r].kind = "video" /\ request[r].at = "over" /\ process[r] # "completed"
    /\ Goes(r, "infer")
    /\ UNCHANGED <<rows, stores, deletion, pass>>

-----------------------------------------------------------------------------
(* IdentityService.                                                        *)

\* update.
Rename(f) ==
    /\ Active(f)
    /\ UpdateKnown(f)
    /\ UNCHANGED <<sample, process, stores, request, deletion, pass>>

\* delete: the rows in one transaction (deactivate_by_face goes by is_active), ...
Delete(f) ==
    /\ deletion.at = "idle"
    /\ Active(f)
    /\ SoftDelete(f)
    /\ DeactivateByFace(f)
    /\ deletion' = [at |-> "vectors",
                    todo |-> {s \in Requests : sample[s].face = f /\ sample[s].active}]
    /\ UNCHANGED <<process, stores, request, pass>>

\* ... then the vectors one by one, ...
Deactivate(s) ==
    /\ s \in deletion.todo
    /\ vector' = [vector EXCEPT ![s] = IF @ = "active" THEN "inactive" ELSE @]
    /\ deletion' = [deletion EXCEPT !.todo = @ \ {s}]
    /\ UNCHANGED <<rows, objects, request, pass>>

\* ... until all are done, one of them raises or the process dies.
DeletionEnds ==
    /\ deletion.at = "vectors"
    /\ deletion' = IdleDeletion
    /\ UNCHANGED <<rows, stores, request, pass>>

-----------------------------------------------------------------------------
(* StorageReconciliationService.reconcile with dry_run off.                *)

List ==
    /\ pass.at = "idle"
    /\ pass' = [at |-> "check", now |-> None,
                todo |-> {s \in Requests : sample[s].active /\ sample[s].state = "active"}]
    /\ UNCHANGED <<rows, stores, request, deletion>>

\* A sample with a missing object or without an active vector is repaired, and so
\* is one whose stores cannot be asked.
Check(s, outage) ==
    /\ pass.at = "check" /\ s \in pass.todo
    /\ pass' = IF outage \/ ~StatAlignedSample(s) \/ ~HasActivePoint(s)
               THEN [at |-> "row", now |-> s, todo |-> pass.todo \ {s}]
               ELSE [pass EXCEPT !.todo = @ \ {s}]
    /\ UNCHANGED <<rows, stores, request, deletion>>

\* _repair: both failures are swallowed.
RepairRow ==
    /\ pass.at = "row"
    /\ \/ sample' = [sample EXCEPT ![pass.now] = InactiveRow(@)]
       \/ sample' = sample
    /\ pass' = [pass EXCEPT !.at = "vector"]
    /\ UNCHANGED <<identity, process, stores, request, deletion>>

RepairVector ==
    /\ pass.at = "vector"
    /\ vector' \in {vector, [vector EXCEPT ![pass.now] = "none"]}
    /\ pass' = [pass EXCEPT !.at = "check", !.now = None]
    /\ UNCHANGED <<rows, objects, request, deletion>>

PassEnds ==
    /\ pass.at = "check" /\ pass.todo = {}
    /\ pass' = IdlePass
    /\ UNCHANGED <<rows, stores, request, deletion>>

-----------------------------------------------------------------------------
Persist(r) == Ensure(r) \/ Upload(r) \/ BlobReady(r) \/ Upsert(r) \/ SetActive(r) \/ RecordFailure(r)

Next ==
    \/ \E r \in Requests : \/ \E kind \in KindsOf[r] : Start(r, kind)
                           \/ Search(r) \/ Match(r) \/ Promote(r)
                           \/ \E f \in Faces : Given(r, f)
                           \/ Persist(r)
                           \/ Finish(r) \/ Raises(r) \/ Fail(r) \/ Crash(r) \/ Retry(r)
    \/ \E f \in Faces : Rename(f) \/ Delete(f)
    \/ \E s \in Requests : Deactivate(s)
    \/ DeletionEnds
    \/ List \/ RepairRow \/ RepairVector \/ PassEnds
    \/ \E s \in Requests, outage \in BOOLEAN : Check(s, outage)

Spec == Init /\ [][Next]_vars

-----------------------------------------------------------------------------
(* Properties.                                                             *)

\* Whatever failed, crashed, was retried, deleted or repaired: a point of Qdrant has
\* a row that describes its object, and MinIO has the object (the order of persist).
VectorBacked ==
    \A s \in Requests : vector[s] # "none" => s \in objects /\ sample[s].described

\* The evidence of a completed request is stored: the object of the sample that it
\* reports, and for a sample of its own a row that was made active (persist before
\* the commit of the result).
ReportedIsStored ==
    \A r \in Requests : process[r] = "completed" =>
        /\ request[r].sample \in objects
        /\ (request[r].sample = r /\ request[r].kind # "video")
              => sample[r].state \in {"active", "inactive"}

\* A face that was deleted when an enrollment or a recognition came is not what it
\* reports, though its vectors may still be active (get_active_by_id in the matcher).
DeletedNotReported ==
    \A r \in Requests : process[r] = "completed" /\ request[r].kind # "video"
        => request[r].face \notin request[r].gone

=============================================================================
