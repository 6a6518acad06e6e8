-------------------------- MODULE FaceSampleProofs --------------------------
(***************************************************************************)
(* Proofs about FaceSample: points have their objects, completed requests  *)
(* their evidence, and image requests never report a face that had been    *)
(* deleted when they came.                                                 *)
(*                                                                         *)
(* None of the three is inductive.  RowOK says what the columns of a       *)
(* sample promise of each other, of MinIO and of Qdrant; PlaceOK what the  *)
(* place of a request in persist promises; FreshOK that an image request,  *)
(* which is never retried, finds no sample under its id; ReportOK that a   *)
(* completed request is over; GoneOK that a deletion is final, so that     *)
(* what was deleted when a request came still is when it selects its face. *)
(***************************************************************************)
EXTENDS FaceSample, TLAPS

RowOK(s) ==
    /\ sample[s].state = "none" => ~sample[s].described /\ ~sample[s].active
    /\ sample[s].state # "none" => sample[s].face \in Faces
    /\ sample[s].state = "active" => s \in objects
    /\ vector[s] # "none" => s \in objects /\ sample[s].described

\* What the steps of a request that lie behind it have left.
PlaceOK(r) ==
    /\ request[r].at = "match" /\ request[r].sample # None
          => request[r].sample \in objects /\ sample[request[r].sample].state # "none"
    /\ request[r].at \in {"promote", "ensure", "upload", "blob", "upsert", "activate"}
          => request[r].sample = r /\ request[r].face \in Faces
    /\ request[r].at \in {"blob", "upsert", "activate"} => r \in objects
    /\ request[r].at \in {"upload", "blob", "upsert", "activate", "record"} => sample[r].state # "none"
    /\ request[r].at \in {"upsert", "activate"} => sample[r].described
    /\ request[r].at = "finish" => request[r].sample \in objects

\* The sample of an image request comes from the request alone.
FreshOK(r) ==
    /\ request[r].at = "idle" => request[r].kind = "none"
    /\ request[r].kind # "video" =>
          /\ request[r].at \in {"idle", "infer", "match", "promote", "ensure"}
                => sample[r].state = "none" /\ vector[r] = "none"
          /\ request[r].at = "match" => request[r].sample # r
          /\ request[r].at = "finish" /\ request[r].sample = r
                => sample[r].state \in {"active", "inactive"}

\* A request that has completed is over, and its evidence is stored.
ReportOK(r) ==
    process[r] = "completed" =>
        /\ request[r].at = "over"
        /\ request[r].sample \in objects
        /\ request[r].sample = r /\ request[r].kind # "video" => sample[r].state \in {"active", "inactive"}

EvidenceOK(r) == RowOK(r) /\ PlaceOK(r) /\ FreshOK(r) /\ ReportOK(r)

\* The reconciliation works on samples that exist.
PassOK == \A s \in pass.todo \cup {pass.now} : s # None => sample[s].state # "none"

\* The identity of a request's own name comes from the request alone, and a face that
\* was deleted stays deleted and unselected.
GoneOK(r) ==
    /\ request[r].at = "idle" => identity[r] = "absent"
    /\ request[r].face \notin {None, r} => identity[request[r].face] # "absent"
    /\ \A f \in request[r].gone : identity[f] = "deleted"
    /\ request[r].kind # "video" => request[r].face \notin request[r].gone
    /\ r \notin request[r].gone

EvidenceInv == PassOK /\ \A r \in Requests : EvidenceOK(r)
GoneInv == \A r \in Requests : GoneOK(r)

IInv == TypeOK /\ EvidenceInv /\ GoneInv

-----------------------------------------------------------------------------
(* What the writes do to a row and to a request.                           *)

Places == {"idle", "infer", "match", "promote", "ensure", "upload", "blob", "upsert",
           "activate", "finish", "record", "fail", "over"}

\* The columns of a row, and what the writes of FaceSampleRepository do to them.
LEMMA RowWrites ==
    ASSUME NEW row \in SampleRow
    PROVE  /\ row.state \in {"none", "pending", "blob_ready", "active", "inactive", "failed"}
           /\ row.active \in BOOLEAN /\ row.described \in BOOLEAN /\ row.face \in Faces \cup {None}
           /\ row.state = "active" => row.active /\ row.described
           /\ UpdateBlobReady(row) \in SampleRow /\ UpdateBlobReady(row).state = "blob_ready"
           /\ UpdateBlobReady(row).described /\ UpdateBlobReady(row).face = row.face
           /\ row.described => ActivatedRow(row) \in SampleRow
           /\ ActivatedRow(row).state = "active" /\ ActivatedRow(row).face = row.face
           /\ ActivatedRow(row).described = row.described
           /\ InactiveRow(row) \in SampleRow /\ InactiveRow(row).state = "inactive"
           /\ InactiveRow(row).described = row.described /\ InactiveRow(row).face = row.face
           /\ FailedRow(row) \in SampleRow /\ FailedRow(row).state = "failed"
           /\ FailedRow(row).described = row.described /\ FailedRow(row).face = row.face
BY DEF SampleRow, UpdateBlobReady, ActivatedRow, InactiveRow, FailedRow

\* create_pending.
LEMMA PendingRow ==
    ASSUME NEW f \in Faces
    PROVE  /\ CreatePending(f) \in SampleRow /\ CreatePending(f).state = "pending"
           /\ ~CreatePending(f).described /\ CreatePending(f).face = f
BY DEF SampleRow, CreatePending

\* The fields of a request.
LEMMA RequestFields ==
    ASSUME TypeOK, NEW r \in Requests
    PROVE  /\ request[r] \in RequestState
           /\ request[r].kind \in Kinds \cup {"none"} /\ request[r].at \in Places
           /\ request[r].face \in Faces \cup {None} /\ request[r].sample \in Requests \cup {None}
           /\ request[r].gone \in SUBSET Faces
<1>1. request[r] \in RequestState
  BY DEF TypeOK
<1> QED
  BY <1>1 DEF RequestState, Places

\* A step of one request changes that request alone.
LEMMA OneRequest ==
    ASSUME TypeOK, NEW r \in Requests, NEW rec \in RequestState, request' = [request EXCEPT ![r] = rec]
    PROVE  /\ request' \in [Requests -> RequestState]
           /\ request'[r] = rec
           /\ \A q \in Requests \ {r} : request'[q] = request[q]
BY DEF TypeOK

\* A request that goes on keeps what it has selected.
LEMMA GoesOn ==
    ASSUME TypeOK, NEW r \in Requests, NEW at \in Places, Goes(r, at)
    PROVE  /\ request' \in [Requests -> RequestState]
           /\ \A q \in Requests \ {r} : request'[q] = request[q]
           /\ request'[r].at = at /\ request'[r].kind = request[r].kind
           /\ request'[r].face = request[r].face /\ request'[r].sample = request[r].sample
           /\ request'[r].gone = request[r].gone
<1> DEFINE rec == [request[r] EXCEPT !.at = at]
<1>1. request[r] \in RequestState
  BY RequestFields
<1>2. /\ rec \in RequestState /\ rec.at = at /\ rec.kind = request[r].kind
      /\ rec.face = request[r].face /\ rec.sample = request[r].sample /\ rec.gone = request[r].gone
  BY <1>1 DEF RequestState, Places
<1>3. request' = [request EXCEPT ![r] = rec]
  BY DEF Goes
<1> HIDE DEF rec
<1> QED
  BY <1>2, <1>3, OneRequest

\* A request that drops out keeps only its kind.
LEMMA DropsOut ==
    ASSUME TypeOK, NEW r \in Requests, NEW at \in Places, Drops(r, at)
    PROVE  /\ request' \in [Requests -> RequestState]
           /\ \A q \in Requests \ {r} : request'[q] = request[q]
           /\ request'[r].at = at /\ request'[r].kind = request[r].kind
           /\ request'[r].face = None /\ request'[r].sample = None /\ request'[r].gone = {}
<1> DEFINE rec == [IdleRequest EXCEPT !.kind = request[r].kind, !.at = at]
<1>1. request[r].kind \in Kinds \cup {"none"}
  BY RequestFields
<1>2. /\ rec \in RequestState /\ rec.at = at /\ rec.kind = request[r].kind
      /\ rec.face = None /\ rec.sample = None /\ rec.gone = {}
  BY <1>1 DEF RequestState, Places, IdleRequest
<1>3. request' = [request EXCEPT ![r] = rec]
  BY DEF Drops
<1> HIDE DEF rec
<1> QED
  BY <1>2, <1>3, OneRequest

\* A request that selects a face and a sample.
LEMMA Selects ==
    ASSUME TypeOK, NEW r \in Requests, NEW at \in Places, NEW f \in Faces \cup {None}, NEW s \in Requests \cup {None},
           request' = [request EXCEPT ![r] = [request[r] EXCEPT !.at = at, !.face = f, !.sample = s]]
    PROVE  /\ request' \in [Requests -> RequestState]
           /\ \A q \in Requests \ {r} : request'[q] = request[q]
           /\ request'[r].at = at /\ request'[r].kind = request[r].kind
           /\ request'[r].face = f /\ request'[r].sample = s /\ request'[r].gone = request[r].gone
<1> DEFINE rec == [request[r] EXCEPT !.at = at, !.face = f, !.sample = s]
<1>1. request[r] \in RequestState
  BY RequestFields
<1>2. /\ rec \in RequestState /\ rec.at = at /\ rec.kind = request[r].kind
      /\ rec.face = f /\ rec.sample = s /\ rec.gone = request[r].gone
  BY <1>1, ZenonT(30) DEF RequestState, Places
<1> HIDE DEF rec
<1>3. request' = [request EXCEPT ![r] = rec]
  BY DEF rec
<1> QED
  BY <1>2, <1>3, OneRequest

-----------------------------------------------------------------------------
(* What a step may do to the requests that do not take it.                 *)

\* Objects stay, and a sample that was created stays created.
Grows ==
    /\ objects \subseteq objects'
    /\ \A s \in Requests : sample[s].state # "none" => sample'[s].state # "none"

\* Others touch the sample and the vector of a request only to deactivate them.
Aside(q) ==
    /\ request'[q] = request[q] /\ process'[q] = process[q]
    /\ \/ sample'[q] = sample[q]
       \/ sample[q].state # "none" /\ sample'[q] = InactiveRow(sample[q])
    /\ \/ vector'[q] \in {vector[q], "none"}
       \/ vector[q] = "active" /\ vector'[q] = "inactive"

\* Identities are created once, and deleted for good.
Settles ==
    \A f \in Faces : /\ identity[f] # "absent" => identity'[f] # "absent"
                     /\ identity[f] = "deleted" => identity'[f] = "deleted"

\* A request that stands aside keeps its evidence.
LEMMA AsideKept ==
    ASSUME TypeOK, NEW q \in Requests, EvidenceOK(q), Grows, Aside(q)
    PROVE  EvidenceOK(q)'
<1>1. sample[q] \in SampleRow /\ request[q].sample \in Requests \cup {None}
  BY RequestFields DEF TypeOK
<1>2. /\ sample'[q].described = sample[q].described /\ sample'[q].face = sample[q].face
      /\ sample'[q] # sample[q] => sample[q].state # "none" /\ sample'[q].state = "inactive"
  <2>1. \/ sample'[q] = sample[q]
        \/ sample[q].state # "none" /\ sample'[q] = InactiveRow(sample[q])
    BY DEF Aside
  <2>2. /\ InactiveRow(sample[q]).described = sample[q].described
        /\ InactiveRow(sample[q]).face = sample[q].face /\ InactiveRow(sample[q]).state = "inactive"
    BY <1>1, RowWrites, Zenon
  <2> QED
    BY <2>1, <2>2, Zenon
<1>3. RowOK(q)'
  BY <1>1, <1>2 DEF EvidenceOK, RowOK, Aside, Grows
<1>4. PlaceOK(q)'
  BY <1>1, <1>2 DEF EvidenceOK, PlaceOK, Aside, Grows
<1>5. FreshOK(q)'
  BY <1>1, <1>2 DEF EvidenceOK, FreshOK, Aside, Grows
<1>6. ReportOK(q)'
  BY <1>1, <1>2 DEF EvidenceOK, ReportOK, Aside, Grows
<1> QED
  BY <1>3, <1>4, <1>5, <1>6 DEF EvidenceOK

\* ... and its standing with the deleted faces, if its own face was not created.
LEMMA GoneKept ==
    ASSUME TypeOK, NEW q \in Requests, GoneOK(q), Settles, request'[q] = request[q],
           request[q].at = "idle" => identity'[q] = identity[q]
    PROVE  GoneOK(q)'
BY RequestFields DEF GoneOK, Settles, Faces

\* A step of one request, from what it does to that request.
LEMMA OwnStep ==
    ASSUME IInv, NEW r \in Requests, TypeOK', pass' = pass, Grows, \A q \in Requests \ {r} : Aside(q),
           EvidenceOK(r)', Settles,
           \A q \in Requests \ {r} : request[q].at = "idle" => identity'[q] = identity[q],
           GoneOK(r)'
    PROVE  IInv'
<1>1. PassOK'
  BY DEF IInv, EvidenceInv, PassOK, Grows, TypeOK, Pass
<1>2. \A q \in Requests : EvidenceOK(q)'
  BY AsideKept DEF IInv, EvidenceInv
<1>3. \A q \in Requests : GoneOK(q)'
  BY GoneKept DEF IInv, GoneInv, Aside
<1> QED
  BY <1>1, <1>2, <1>3 DEF IInv, EvidenceInv, GoneInv

\* A step of one request that writes nothing.
LEMMA QuietStep ==
    ASSUME IInv, NEW r \in Requests, UNCHANGED <<rows, stores, deletion, pass>>,
           request' \in [Requests -> RequestState],
           \A q \in Requests \ {r} : request'[q] = request[q],
           PlaceOK(r)', FreshOK(r)', ReportOK(r)', GoneOK(r)'
    PROVE  IInv'
<1> USE DEF rows, stores
<1>1. TypeOK'
  BY DEF IInv, TypeOK
<1>2. Grows /\ Settles /\ \A q \in Requests \ {r} : Aside(q)
  BY DEF Grows, Settles, Aside
<1>3. RowOK(r)'
  BY DEF IInv, EvidenceInv, EvidenceOK, RowOK
<1> QED
  BY <1>1, <1>2, <1>3, OwnStep DEF EvidenceOK

\* A request that gives up.
LEMMA DropStep ==
    ASSUME IInv, NEW r \in Requests, NEW at \in {"fail", "over"},
           Drops(r, at), process[r] # "completed", UNCHANGED <<rows, stores, deletion, pass>>
    PROVE  IInv'
<1>1. at \in Places /\ TypeOK
  BY DEF Places, IInv
<1>2. /\ request' \in [Requests -> RequestState]
      /\ \A q \in Requests \ {r} : request'[q] = request[q]
      /\ request'[r].at = at /\ request'[r].face = None /\ request'[r].gone = {}
  BY <1>1, DropsOut
<1>3. PlaceOK(r)' /\ FreshOK(r)' /\ ReportOK(r)' /\ GoneOK(r)'
  BY <1>2 DEF PlaceOK, FreshOK, ReportOK, GoneOK, rows
<1> QED
  BY <1>2, <1>3, QuietStep

-----------------------------------------------------------------------------
(* The steps of a request.                                                 *)

\* Start.
LEMMA StartStep ==
    ASSUME IInv, NEW r \in Requests, NEW kind \in KindsOf[r], Start(r, kind)
    PROVE  IInv'
<1> DEFINE gone == IF kind = "video" THEN {} ELSE {f \in Faces : identity[f] = "deleted"}
           rec == [IdleRequest EXCEPT !.kind = kind, !.at = "infer", !.gone = gone]
<1>1. TypeOK /\ kind \in Kinds /\ gone \in SUBSET Faces
  BY KindsAssumption DEF IInv
<1>2. /\ rec \in RequestState /\ rec.at = "infer" /\ rec.kind = kind
      /\ rec.face = None /\ rec.sample = None /\ rec.gone = gone
  BY <1>1 DEF RequestState, IdleRequest
<1>3. request' = [request EXCEPT ![r] = rec]
  BY DEF Start
<1>4. r \notin gone /\ None \notin gone /\ \A f \in gone : identity[f] = "deleted"
  <2>1. identity[r] = "absent"
    BY DEF Start, IInv, GoneInv, GoneOK
  <2> QED
    BY <2>1, NoneAssumption DEF Faces
<1> HIDE DEF rec, gone
<1>5. /\ request' \in [Requests -> RequestState] /\ request'[r] = rec
      /\ \A q \in Requests \ {r} : request'[q] = request[q]
  BY <1>1, <1>2, <1>3, OneRequest
<1>6. TypeOK'
  BY <1>1, <1>5 DEF Start, TypeOK, stores
<1>7. Grows /\ Settles /\ \A q \in Requests \ {r} : Aside(q)
  BY <1>1, <1>5 DEF Start, Grows, Settles, Aside, TypeOK, stores
<1>8. EvidenceOK(r)'
  <2>1. EvidenceOK(r) /\ request[r].at = "idle" /\ process'[r] = "started"
    BY DEF IInv, EvidenceInv, Start, TypeOK
  <2>2. request[r].kind # "video"
    BY <2>1 DEF EvidenceOK, FreshOK
  <2> QED
    BY <1>2, <1>5, <2>1, <2>2 DEF EvidenceOK, RowOK, PlaceOK, FreshOK, ReportOK, Start, stores
<1>9. GoneOK(r)'
  BY <1>2, <1>4, <1>5 DEF GoneOK, Start
<1> QED
  BY <1>6, <1>7, <1>8, <1>9, OwnStep DEF Start

\* Search: the vector that it finds has its object and its row, and is not of the
\* request itself, which has none yet.
LEMMA SearchStep == ASSUME IInv, NEW r \in Requests, Search(r) PROVE IInv'
<1>1. PICK c \in {s \in Requests : HasActivePoint(s)} \cup {None} :
         request' = [request EXCEPT ![r].at = "match", ![r].sample = c]
  BY DEF Search
<1> DEFINE rec == [request[r] EXCEPT !.at = "match", !.sample = c]
<1>2. TypeOK /\ c \in Requests \cup {None} /\ request[r] \in RequestState
  BY RequestFields DEF IInv
<1>3. /\ rec \in RequestState /\ rec.at = "match" /\ rec.kind = request[r].kind
      /\ rec.face = request[r].face /\ rec.sample = c /\ rec.gone = request[r].gone
  BY <1>2 DEF RequestState
<1> HIDE DEF rec
<1>4. /\ request' \in [Requests -> RequestState]
      /\ \A q \in Requests \ {r} : request'[q] = request[q]
      /\ request'[r].at = "match" /\ request'[r].kind = request[r].kind
      /\ request'[r].face = request[r].face /\ request'[r].sample = c /\ request'[r].gone = request[r].gone
  <2>1. request' = [request EXCEPT ![r] = rec]
    BY <1>1 DEF rec
  <2> QED
    BY <1>2, <1>3, <2>1, OneRequest
<1>5. EvidenceOK(r) /\ GoneOK(r) /\ request[r].at = "infer"
  BY DEF IInv, EvidenceInv, GoneInv, Search
<1>6. c # None => c \in objects /\ sample[c].state # "none" /\ vector[c] = "active"
  <2>1. \A s \in Requests : RowOK(s)
    BY DEF IInv, EvidenceInv, EvidenceOK
  <2> QED
    BY <2>1 DEF RowOK, HasActivePoint
<1>7. PlaceOK(r)' /\ FreshOK(r)' /\ ReportOK(r)'
  BY <1>4, <1>5, <1>6, NoneAssumption
  DEF EvidenceOK, PlaceOK, FreshOK, ReportOK, Search, rows, stores
<1>8. GoneOK(r)'
  BY <1>4, <1>5 DEF GoneOK, Search, rows
<1> QED
  BY <1>4, <1>7, <1>8, QuietStep DEF Search

\* Match: the face of the vector is selected only while it is active.
LEMMA MatchStep == ASSUME IInv, NEW r \in Requests, Match(r) PROVE IInv'
<1> DEFINE c == request[r].sample
           matched == c # None /\ Active(sample[c].face)
           enrolls == request[r].kind = "enroll"
           f == IF matched THEN sample[c].face ELSE r
           s == IF matched /\ ~enrolls THEN c ELSE r
           at == IF enrolls THEN "promote" ELSE IF matched THEN "finish" ELSE "ensure"
<1>1. TypeOK /\ EvidenceOK(r) /\ GoneOK(r) /\ request[r].at = "match" /\ c \in Requests \cup {None}
      /\ request[r].gone \in SUBSET Faces
  BY RequestFields DEF IInv, EvidenceInv, GoneInv, Match
<1>2. c # None => c \in objects /\ sample[c].face \in Faces
  <2>1. c # None => RowOK(c) /\ sample[c].state # "none" /\ c \in objects
    BY <1>1 DEF IInv, EvidenceInv, EvidenceOK, PlaceOK
  <2> QED
    BY <2>1 DEF RowOK
<1>3. f \in Faces /\ s \in Requests /\ at \in Places /\ (matched => Active(f) /\ c \in objects)
  BY <1>1, <1>2 DEF Faces, Places
<1>4. request' = [request EXCEPT ![r] = [request[r] EXCEPT !.at = at, !.face = f, !.sample = s]]
  <2>1. request[r] \in RequestState
    BY <1>1, RequestFields
  <2>2. CASE matched
    <3>1. AfterMatch(r, f)
      BY <2>2 DEF Match
    <3>2. [request[r] EXCEPT !.face = f, !.at = at, !.sample = s]
             = [request[r] EXCEPT !.at = at, !.face = f, !.sample = s]
      BY <2>1 DEF RequestState
    <3> QED
      BY <2>2, <3>1, <3>2 DEF AfterMatch
  <2>3. CASE ~matched
    <3>1. NoMatch(r)
      BY <2>3 DEF Match
    <3>2. [request[r] EXCEPT !.face = f, !.sample = s, !.at = at]
             = [request[r] EXCEPT !.at = at, !.face = f, !.sample = s]
      BY <2>1 DEF RequestState
    <3> QED
      BY <2>3, <3>1, <3>2 DEF NoMatch
  <2> QED
    BY <2>2, <2>3
<1> HIDE DEF f, s, at
<1>5. /\ request' \in [Requests -> RequestState]
      /\ \A q \in Requests \ {r} : request'[q] = request[q]
      /\ request'[r].at = at /\ request'[r].kind = request[r].kind
      /\ request'[r].face = f /\ request'[r].sample = s /\ request'[r].gone = request[r].gone
  BY <1>1, <1>3, <1>4, Selects
<1> USE DEF f, s, at
<1>6. PlaceOK(r)' /\ FreshOK(r)' /\ ReportOK(r)'
  BY <1>1, <1>3, <1>5 DEF EvidenceOK, PlaceOK, FreshOK, ReportOK, Match, rows, stores
<1>7. GoneOK(r)'
  BY <1>1, <1>3, <1>5 DEF GoneOK, Match, rows, Active
<1> QED
  BY <1>5, <1>6, <1>7, QuietStep DEF Match

\* enroll with a face id selects a face that is active.
LEMMA GivenStep == ASSUME IInv, NEW r \in Requests, NEW f \in Faces, Given(r, f) PROVE IInv'
<1>1. TypeOK /\ EvidenceOK(r) /\ GoneOK(r) /\ request[r].at = "infer" /\ request[r] \in RequestState
      /\ process[r] # "completed"
  BY RequestFields DEF IInv, EvidenceInv, GoneInv, Given, EvidenceOK, ReportOK
<1>2. CASE ~Active(f)
  BY <1>1, <1>2, DropStep DEF Given
<1>3. CASE Active(f)
  <2>1. request' = [request EXCEPT ![r] = [request[r] EXCEPT !.at = "promote", !.face = f, !.sample = r]]
    BY <1>3 DEF Given
  <2>2. "promote" \in Places
    BY DEF Places
  <2>3. /\ request' \in [Requests -> RequestState]
        /\ \A q \in Requests \ {r} : request'[q] = request[q]
        /\ request'[r].at = "promote" /\ request'[r].kind = request[r].kind
        /\ request'[r].face = f /\ request'[r].sample = r /\ request'[r].gone = request[r].gone
    BY <1>1, <2>1, <2>2, Selects
  <2>4. PlaceOK(r)' /\ FreshOK(r)' /\ ReportOK(r)'
    BY <1>1, <2>3 DEF EvidenceOK, PlaceOK, FreshOK, ReportOK, Given, rows, stores
  <2>5. GoneOK(r)'
    BY <1>1, <1>3, <2>3 DEF GoneOK, Given, rows, Active
  <2> QED
    BY <2>3, <2>4, <2>5, QuietStep DEF Given
<1> QED
  BY <1>2, <1>3

\* A retry is of a video job that has not completed.
LEMMA RetryStep == ASSUME IInv, NEW r \in Requests, Retry(r) PROVE IInv'
<1>1. TypeOK /\ EvidenceOK(r) /\ GoneOK(r) /\ "infer" \in Places
  BY DEF IInv, EvidenceInv, GoneInv, Places
<1>2. /\ request' \in [Requests -> RequestState]
      /\ \A q \in Requests \ {r} : request'[q] = request[q]
      /\ request'[r].at = "infer" /\ request'[r].kind = request[r].kind
      /\ request'[r].face = request[r].face /\ request'[r].sample = request[r].sample
      /\ request'[r].gone = request[r].gone
  BY <1>1, GoesOn DEF Retry
<1>3. PlaceOK(r)' /\ FreshOK(r)' /\ ReportOK(r)' /\ GoneOK(r)'
  BY <1>1, <1>2 DEF EvidenceOK, PlaceOK, FreshOK, ReportOK, GoneOK, Retry, rows, stores
<1> QED
  BY <1>2, <1>3, QuietStep DEF Retry

\* Raises and Crash.
LEMMA GivesUpStep == ASSUME IInv, NEW r \in Requests, Raises(r) \/ Crash(r) PROVE IInv'
<1>1. process[r] # "completed"
  BY DEF IInv, EvidenceInv, EvidenceOK, ReportOK, Raises, Crash
<1> QED
  BY <1>1, DropStep DEF Raises, Crash

\* Identities are written one at a time: an absent one is created, an active one known.
LEMMA PromoteStep == ASSUME IInv, NEW r \in Requests, Promote(r) PROVE IInv'
<1> DEFINE f == request[r].face
<1>1. TypeOK /\ EvidenceOK(r) /\ GoneOK(r) /\ request[r].at = "promote" /\ "ensure" \in Places
  BY DEF IInv, EvidenceInv, GoneInv, Places, Promote
<1>2. f \in Faces
  BY <1>1 DEF EvidenceOK, PlaceOK
<1>3. /\ request' \in [Requests -> RequestState]
      /\ \A q \in Requests \ {r} : request'[q] = request[q]
      /\ request'[r].at = "ensure" /\ request'[r].kind = request[r].kind
      /\ request'[r].face = f /\ request'[r].sample = request[r].sample
      /\ request'[r].gone = request[r].gone
  BY <1>1, GoesOn DEF Promote
<1>4. /\ identity' \in [Faces -> IdentityStatus] /\ Settles
      /\ \A g \in Faces : identity[g] = "absent" => identity'[g] = "absent"
  <2> HIDE DEF f
  <2>1. identity \in [Faces -> IdentityStatus]
    BY <1>1 DEF TypeOK
  <2>2. identity' = [identity EXCEPT ![f] = IF Active(f) THEN "known" ELSE @]
    BY DEF Promote, UpdateKnown, f
  <2> QED
    BY <1>2, <2>1, <2>2 DEF Settles, Active, IdentityStatus
<1>5. TypeOK'
  BY <1>1, <1>3, <1>4 DEF TypeOK, Promote, stores
<1>6. Grows /\ \A q \in Requests \ {r} : Aside(q)
  BY <1>3 DEF Grows, Aside, Promote, stores
<1>7. EvidenceOK(r)'
  BY <1>1, <1>3 DEF EvidenceOK, RowOK, PlaceOK, FreshOK, ReportOK, Promote, stores
<1>8. \A q \in Requests \ {r} : request[q].at = "idle" => identity'[q] = identity[q]
  BY <1>4 DEF IInv, GoneInv, GoneOK, Faces
<1>9. GoneOK(r)'
  BY <1>1, <1>2, <1>3, <1>4, RequestFields DEF GoneOK, Settles, Faces
<1> QED
  BY <1>4, <1>5, <1>6, <1>7, <1>8, <1>9, OwnStep DEF Promote

\* _ensure_identity_and_sample: the sample of an image request is new, so it is never
\* found active, and the identity that is created is the request's own.
LEMMA EnsureStep == ASSUME IInv, NEW r \in Requests, Ensure(r) PROVE IInv'
<1> DEFINE f == request[r].face
           to == IF sample[r].state = "active" THEN "finish" ELSE "upload"
<1>1. TypeOK /\ EvidenceOK(r) /\ GoneOK(r) /\ request[r].at = "ensure" /\ to \in Places
  BY DEF IInv, EvidenceInv, GoneInv, Places, Ensure
<1>2. f \in Faces /\ request[r].sample = r /\ sample[r] \in SampleRow
  BY <1>1 DEF EvidenceOK, PlaceOK, TypeOK
<1>3. /\ request' \in [Requests -> RequestState]
      /\ \A q \in Requests \ {r} : request'[q] = request[q]
      /\ request'[r].at = to /\ request'[r].kind = request[r].kind
      /\ request'[r].face = f /\ request'[r].sample = request[r].sample
      /\ request'[r].gone = request[r].gone
  <2>1. Goes(r, to)
    BY DEF Ensure
  <2> QED
    BY <1>1, <2>1, GoesOn
<1>4. /\ identity' \in [Faces -> IdentityStatus] /\ Settles
      /\ \A g \in Faces \ {f} : identity'[g] = identity[g]
      /\ identity[f] # "absent" => identity'[f] = identity[f]
  <2> HIDE DEF f
  <2>1. identity \in [Faces -> IdentityStatus]
    BY <1>1 DEF TypeOK
  <2>2. PICK new \in {"known", "anonymous"} :
           identity' = [identity EXCEPT ![f] = IF identity[f] = "absent" THEN new ELSE @]
    BY DEF Ensure, NewIdentity, f
  <2> QED
    BY <1>2, <2>1, <2>2 DEF Settles, IdentityStatus
<1>5. /\ sample' \in [Requests -> SampleRow]
      /\ \A q \in Requests \ {r} : sample'[q] = sample[q]
      /\ sample[r].state # "none" => sample'[r] = sample[r]
      /\ sample[r].state = "none" => sample'[r] = CreatePending(f)
  <2> HIDE DEF f
  <2>1. sample \in [Requests -> SampleRow] /\ CreatePending(f) \in SampleRow
    BY <1>1, <1>2, PendingRow DEF TypeOK
  <2>2. sample' = [sample EXCEPT ![r] = IF sample[r].state = "none" THEN CreatePending(f) ELSE sample[r]]
    BY DEF Ensure, f
  <2> QED
    BY <2>1, <2>2
<1>6. /\ sample'[r].state # "none" /\ sample'[r].face \in Faces
      /\ sample[r].state # "none" => sample'[r] = sample[r]
      /\ sample[r].state = "none" => sample'[r].state = "pending"
  BY <1>1, <1>2, <1>5, PendingRow DEF EvidenceOK, RowOK
<1>7. TypeOK'
  BY <1>1, <1>3, <1>4, <1>5 DEF TypeOK, Ensure, stores
<1>8. Grows /\ \A q \in Requests \ {r} : Aside(q)
  BY <1>3, <1>5, <1>6 DEF Grows, Aside, Ensure, stores
<1>9. RowOK(r)'
  BY <1>1, <1>6 DEF EvidenceOK, RowOK, Ensure, stores
<1>10. PlaceOK(r)'
  BY <1>1, <1>2, <1>3, <1>6 DEF EvidenceOK, RowOK, PlaceOK, Ensure, stores
<1>11. FreshOK(r)' /\ ReportOK(r)'
  BY <1>1, <1>2, <1>3, <1>6 DEF EvidenceOK, FreshOK, ReportOK, Ensure, stores
<1>12. \A q \in Requests \ {r} : request[q].at = "idle" => identity'[q] = identity[q]
  BY <1>1, <1>2, <1>4, NoneAssumption DEF IInv, GoneInv, GoneOK, Faces
<1>13. GoneOK(r)'
  BY <1>1, <1>2, <1>3, <1>4, RequestFields DEF GoneOK, Settles, Faces
<1> QED
  BY <1>4, <1>7, <1>8, <1>9, <1>10, <1>11, <1>12, <1>13, OwnStep DEF Ensure, EvidenceOK

\* Steps that leave the identities alone, from what they do to the request's own rows.
LEMMA StoreStep ==
    ASSUME IInv, NEW r \in Requests, UNCHANGED <<identity, deletion, pass>>,
           TypeOK', Grows, \A q \in Requests \ {r} : Aside(q), EvidenceOK(r)',
           request[r].at # "idle", request'[r].at # "idle", request'[r].kind = request[r].kind,
           \/ request'[r].face = request[r].face /\ request'[r].gone = request[r].gone
           \/ request'[r].face = None /\ request'[r].gone = {}
    PROVE  IInv'
<1>1. Settles /\ GoneOK(r)'
  BY DEF Settles, GoneOK, IInv, GoneInv
<1> QED
  BY <1>1, OwnStep

\* The object is stored before the request goes on.
LEMMA UploadStep == ASSUME IInv, NEW r \in Requests, Upload(r) PROVE IInv'
<1>1. TypeOK /\ EvidenceOK(r) /\ request[r].at = "upload"
  BY DEF IInv, EvidenceInv, Upload
<1>2. PICK at \in {"blob", "record"} : \/ at = "blob" /\ Goes(r, at) /\ r \in objects'
                                       \/ at = "record" /\ Drops(r, at)
  BY DEF Upload
<1>3. /\ request' \in [Requests -> RequestState]
      /\ \A q \in Requests \ {r} : request'[q] = request[q]
      /\ request'[r].at = at /\ request'[r].kind = request[r].kind
      /\ \/ request'[r].sample = request[r].sample
            /\ request'[r].face = request[r].face /\ request'[r].gone = request[r].gone
         \/ at = "record" /\ request'[r].face = None /\ request'[r].gone = {}
  <2>1. at \in Places
    BY DEF Places
  <2>2. CASE at = "blob"
    BY <1>1, <1>2, <2>1, <2>2, GoesOn
  <2>3. CASE at = "record"
    BY <1>1, <1>2, <2>1, <2>3, DropsOut
  <2> QED
    BY <2>2, <2>3
<1>4. objects \subseteq objects' /\ objects' \subseteq Requests
  BY <1>1 DEF Upload, TypeOK
<1>5. TypeOK'
  BY <1>1, <1>3, <1>4 DEF TypeOK, Upload, rows
<1>6. Grows /\ \A q \in Requests \ {r} : Aside(q)
  BY <1>3, <1>4 DEF Grows, Aside, Upload, rows
<1>7. RowOK(r)' /\ PlaceOK(r)' /\ FreshOK(r)' /\ ReportOK(r)'
  BY <1>1, <1>2, <1>3, <1>4 DEF EvidenceOK, RowOK, PlaceOK, FreshOK, ReportOK, Upload, rows
<1> QED
  BY <1>1, <1>2, <1>3, <1>5, <1>6, <1>7, StoreStep DEF EvidenceOK, Upload, rows

\* update_blob_ready and activate write the row of the request.
LEMMA RowStep == ASSUME IInv, NEW r \in Requests, BlobReady(r) \/ SetActive(r) PROVE IInv'
<1> DEFINE to == IF request[r].at = "blob" THEN "upsert" ELSE "finish"
           row == IF request[r].at = "blob" THEN UpdateBlobReady(sample[r]) ELSE ActivatedRow(sample[r])
<1>1. /\ TypeOK /\ EvidenceOK(r) /\ request[r].at \in {"blob", "activate"} /\ to \in Places
      /\ sample[r] \in SampleRow
  BY DEF IInv, EvidenceInv, BlobReady, SetActive, Places, TypeOK
<1>2. request[r].at = "activate" => sample[r].described
  BY <1>1 DEF EvidenceOK, PlaceOK
<1>3. row \in SampleRow /\ row.described /\ row.face = sample[r].face
      /\ (IF request[r].at = "blob" THEN row.state = "blob_ready" ELSE row.state = "active")
  BY <1>1, <1>2, RowWrites
<1>4. sample' = [sample EXCEPT ![r] = row] /\ Goes(r, to)
      /\ UNCHANGED <<identity, process, stores, deletion, pass>>
  BY DEF BlobReady, SetActive
<1>5. /\ request' \in [Requests -> RequestState]
      /\ \A q \in Requests \ {r} : request'[q] = request[q]
      /\ request'[r].at = to /\ request'[r].kind = request[r].kind
      /\ request'[r].sample = request[r].sample
      /\ request'[r].face = request[r].face /\ request'[r].gone = request[r].gone
  BY <1>1, <1>4, GoesOn
<1> HIDE DEF row
<1>6. sample' \in [Requests -> SampleRow] /\ sample'[r] = row
      /\ \A q \in Requests \ {r} : sample'[q] = sample[q]
  BY <1>1, <1>3, <1>4 DEF TypeOK
<1>7. TypeOK'
  BY <1>1, <1>4, <1>5, <1>6 DEF TypeOK, stores
<1>8. Grows /\ \A q \in Requests \ {r} : Aside(q)
  BY <1>3, <1>4, <1>5, <1>6 DEF Grows, Aside, stores
<1>9. RowOK(r)'
  <2>1. sample[r].state # "none" /\ r \in objects
    BY <1>1 DEF EvidenceOK, PlaceOK
  <2> QED
    BY <1>1, <1>3, <1>4, <1>6, <2>1 DEF EvidenceOK, RowOK, stores
<1>10. PlaceOK(r)'
  BY <1>1, <1>3, <1>4, <1>5, <1>6 DEF EvidenceOK, PlaceOK, stores
<1>11. FreshOK(r)' /\ ReportOK(r)'
  BY <1>1, <1>3, <1>4, <1>5, <1>6 DEF EvidenceOK, FreshOK, ReportOK, stores
<1> QED
  BY <1>1, <1>4, <1>5, <1>7, <1>8, <1>9, <1>10, <1>11, StoreStep DEF EvidenceOK

\* The point is written when the object and the columns that describe it are there.
LEMMA UpsertStep == ASSUME IInv, NEW r \in Requests, Upsert(r) PROVE IInv'
<1>1. TypeOK /\ EvidenceOK(r) /\ request[r].at = "upsert"
  BY DEF IInv, EvidenceInv, Upsert
<1>2. PICK at \in {"activate", "record"} : \/ at = "activate" /\ Goes(r, at)
                                           \/ at = "record" /\ Drops(r, at)
  BY DEF Upsert
<1>3. /\ request' \in [Requests -> RequestState]
      /\ \A q \in Requests \ {r} : request'[q] = request[q]
      /\ request'[r].at = at /\ request'[r].kind = request[r].kind
      /\ \/ request'[r].sample = request[r].sample
            /\ request'[r].face = request[r].face /\ request'[r].gone = request[r].gone
         \/ at = "record" /\ request'[r].face = None /\ request'[r].gone = {}
  <2>1. at \in Places
    BY DEF Places
  <2>2. CASE at = "activate"
    BY <1>1, <1>2, <2>1, <2>2, GoesOn
  <2>3. CASE at = "record"
    BY <1>1, <1>2, <2>1, <2>3, DropsOut
  <2> QED
    BY <2>2, <2>3
<1>4. vector' \in [Requests -> {"none", "active", "inactive"}]
      /\ \A q \in Requests \ {r} : vector'[q] = vector[q]
  BY <1>1 DEF Upsert, TypeOK
<1>5. TypeOK'
  BY <1>1, <1>3, <1>4 DEF TypeOK, Upsert, rows
<1>6. Grows /\ \A q \in Requests \ {r} : Aside(q)
  BY <1>3, <1>4 DEF Grows, Aside, Upsert, rows
<1>7. RowOK(r)' /\ PlaceOK(r)' /\ FreshOK(r)' /\ ReportOK(r)'
  BY <1>1, <1>2, <1>3, <1>4 DEF EvidenceOK, RowOK, PlaceOK, FreshOK, ReportOK, Upsert, rows
<1> QED
  BY <1>1, <1>2, <1>3, <1>5, <1>6, <1>7, StoreStep DEF EvidenceOK, Upsert, rows

\* _record_failure.
LEMMA RecordFailureStep == ASSUME IInv, NEW r \in Requests, RecordFailure(r) PROVE IInv'
<1>1. /\ TypeOK /\ EvidenceOK(r) /\ request[r].at = "record" /\ "fail" \in Places
      /\ sample[r] \in SampleRow /\ process[r] # "completed"
  BY DEF IInv, EvidenceInv, EvidenceOK, ReportOK, RecordFailure, Places, TypeOK
<1>2. CASE UNCHANGED <<sample, process>>
  BY <1>1, <1>2, DropStep DEF RecordFailure, rows
<1>3. CASE sample' = [sample EXCEPT ![r] = FailedRow(sample[r])] /\ FailProcess(r)
  <2> DEFINE row == FailedRow(sample[r])
  <2>1. /\ request' \in [Requests -> RequestState]
        /\ \A q \in Requests \ {r} : request'[q] = request[q]
        /\ request'[r].at = "fail" /\ request'[r].kind = request[r].kind
        /\ request'[r].face = None /\ request'[r].gone = {}
    BY <1>1, DropsOut DEF RecordFailure
  <2>2. row \in SampleRow /\ row.state = "failed" /\ row.face = sample[r].face
    BY <1>1, RowWrites
  <2>3. row.described = sample[r].described
    BY <1>1, RowWrites, Zenon
  <2>4. sample' = [sample EXCEPT ![r] = row]
    BY <1>3
  <2> HIDE DEF row
  <2>5. sample' \in [Requests -> SampleRow] /\ sample'[r] = row
        /\ \A q \in Requests \ {r} : sample'[q] = sample[q]
    BY <1>1, <2>2, <2>4 DEF TypeOK
  <2>6. process' \in [Requests -> {"none", "started", "completed", "failed"}]
        /\ process'[r] = "failed" /\ \A q \in Requests \ {r} : process'[q] = process[q]
    BY <1>1, <1>3 DEF FailProcess, TypeOK
  <2>7. TypeOK'
    BY <1>1, <2>1, <2>5, <2>6 DEF TypeOK, RecordFailure, stores
  <2>8. Grows /\ \A q \in Requests \ {r} : Aside(q)
    BY <2>1, <2>2, <2>5, <2>6 DEF Grows, Aside, RecordFailure, stores
  <2>9. RowOK(r)'
    <3>1. vector[r] # "none" => r \in objects /\ sample[r].described
      BY <1>1 DEF EvidenceOK, RowOK
    <3>2. sample[r].face \in Faces
      BY <1>1 DEF EvidenceOK, RowOK, PlaceOK
    <3>3. vector' = vector /\ objects' = objects
      BY DEF RecordFailure, stores
    <3>4. vector'[r] # "none" => r \in objects' /\ sample'[r].described
      BY <2>3, <2>5, <3>1, <3>3, Zenon
    <3> QED
      BY <2>2, <2>5, <3>2, <3>4 DEF RowOK
  <2>10. PlaceOK(r)' /\ FreshOK(r)' /\ ReportOK(r)'
    BY <2>1, <2>6 DEF PlaceOK, FreshOK, ReportOK
  <2> QED
    BY <1>1, <2>1, <2>7, <2>8, <2>9, <2>10, StoreStep DEF EvidenceOK, RecordFailure
<1> QED
  BY <1>2, <1>3 DEF RecordFailure

\* Finish and Fail write the process record.
LEMMA EndStep == ASSUME IInv, NEW r \in Requests, Finish(r) \/ Fail(r) PROVE IInv'
<1>1. TypeOK /\ EvidenceOK(r) /\ request[r].at \in {"finish", "fail"} /\ "over" \in Places
  BY DEF IInv, EvidenceInv, Finish, Fail, Places
<1>2. /\ UNCHANGED <<identity, sample, stores, deletion, pass>>
      /\ process' \in [Requests -> {"none", "started", "completed", "failed"}]
      /\ \A q \in Requests \ {r} : process'[q] = process[q]
      /\ request[r].at = "fail" => process'[r] \in {process[r], "failed"}
  BY <1>1 DEF Finish, Fail, CompleteProcess, FailProcess, TypeOK
<1>3. /\ request' \in [Requests -> RequestState]
      /\ \A q \in Requests \ {r} : request'[q] = request[q]
      /\ request'[r].at = "over" /\ request'[r].kind = request[r].kind
      /\ \/ request'[r].sample = request[r].sample
            /\ request'[r].face = request[r].face /\ request'[r].gone = request[r].gone
         \/ request[r].at = "fail" /\ request'[r].face = None /\ request'[r].gone = {}
  <2>1. CASE Finish(r)
    BY <1>1, <2>1, GoesOn DEF Finish
  <2>2. CASE Fail(r)
    BY <1>1, <2>2, DropsOut DEF Fail
  <2> QED
    BY <2>1, <2>2
<1>4. TypeOK'
  BY <1>1, <1>2, <1>3 DEF TypeOK, stores
<1>5. Grows /\ \A q \in Requests \ {r} : Aside(q)
  BY <1>2, <1>3 DEF Grows, Aside, stores
<1>6. RowOK(r)' /\ PlaceOK(r)' /\ FreshOK(r)'
  BY <1>1, <1>2, <1>3 DEF EvidenceOK, RowOK, PlaceOK, FreshOK, stores
<1>7. ReportOK(r)'
  <2>1. request[r].at = "fail" => process'[r] # "completed"
    BY <1>1, <1>2 DEF EvidenceOK, ReportOK
  <2> QED
    BY <1>1, <1>2, <1>3, <2>1 DEF EvidenceOK, ReportOK, PlaceOK, FreshOK, stores
<1> QED
  BY <1>1, <1>2, <1>3, <1>4, <1>5, <1>6, <1>7, StoreStep DEF EvidenceOK

-----------------------------------------------------------------------------
(* The steps of IdentityService and of the storage reconciliation.         *)

\* They leave the requests alone.
LEMMA OthersStep ==
    ASSUME IInv, TypeOK', PassOK', Grows, Settles, \A q \in Requests : Aside(q),
           \A q \in Requests : identity[q] = "absent" => identity'[q] = "absent"
    PROVE  IInv'
<1>1. \A q \in Requests : EvidenceOK(q)'
  BY AsideKept DEF IInv, EvidenceInv
<1>2. \A q \in Requests : request[q].at = "idle" => identity'[q] = identity[q]
  BY DEF IInv, GoneInv, GoneOK
<1>3. \A q \in Requests : GoneOK(q)'
  BY <1>2, GoneKept DEF IInv, GoneInv, Aside
<1> QED
  BY <1>1, <1>3 DEF IInv, EvidenceInv, GoneInv

\* update.
LEMMA RenameStep == ASSUME IInv, NEW f \in Faces, Rename(f) PROVE IInv'
<1>1. identity' \in [Faces -> IdentityStatus] /\ Settles
      /\ \A q \in Requests : identity[q] = "absent" => identity'[q] = "absent"
  BY DEF IInv, TypeOK, Rename, UpdateKnown, Active, Settles, IdentityStatus, Faces
<1>2. TypeOK' /\ PassOK' /\ Grows /\ \A q \in Requests : Aside(q)
  BY <1>1 DEF IInv, TypeOK, EvidenceInv, PassOK, Rename, stores, Grows, Aside
<1> QED
  BY <1>1, <1>2, OthersStep

\* delete: a row that deactivate_by_face finds is one that was created.
LEMMA DeleteStep == ASSUME IInv, NEW f \in Faces, Delete(f) PROVE IInv'
<1>1. identity' \in [Faces -> IdentityStatus] /\ Settles
      /\ \A q \in Requests : identity[q] = "absent" => identity'[q] = "absent"
  BY DEF IInv, TypeOK, Delete, SoftDelete, Active, Settles, IdentityStatus, Faces
<1>2. \A q \in Requests : /\ sample[q] \in SampleRow
                          /\ InactiveRow(sample[q]) \in SampleRow /\ InactiveRow(sample[q]).state = "inactive"
  BY RowWrites DEF IInv, TypeOK
<1>3. \A q \in Requests : sample[q].active => sample[q].state # "none"
  BY DEF IInv, EvidenceInv, EvidenceOK, RowOK
<1>4. sample' = [q \in Requests |->
         IF sample[q].face = f /\ sample[q].active THEN InactiveRow(sample[q]) ELSE sample[q]]
  BY DEF Delete, DeactivateByFace
<1>5. \A q \in Requests : \/ sample'[q] = sample[q]
                          \/ sample[q].state # "none" /\ sample'[q] = InactiveRow(sample[q])
  BY <1>3, <1>4
<1>6. sample' \in [Requests -> SampleRow]
  BY <1>2, <1>4
<1>7. Grows /\ \A q \in Requests : Aside(q)
  BY <1>2, <1>5 DEF Grows, Aside, Delete, stores
<1>8. TypeOK'
  BY <1>1, <1>6 DEF IInv, TypeOK, Deletion, Delete, stores
<1>9. PassOK'
  BY <1>7 DEF IInv, TypeOK, Pass, EvidenceInv, PassOK, Grows, Delete
<1> QED
  BY <1>1, <1>7, <1>8, <1>9, OthersStep

\* Steps that leave identities, rows, objects and requests alone.
LEMMA VectorStep ==
    ASSUME IInv, UNCHANGED <<rows, objects, request>>, deletion' \in Deletion, pass' \in Pass,
           vector' \in [Requests -> {"none", "active", "inactive"}],
           \A q \in Requests : \/ vector'[q] \in {vector[q], "none"}
                               \/ vector[q] = "active" /\ vector'[q] = "inactive",
           \A s \in pass'.todo \cup {pass'.now} : s # None => sample[s].state # "none"
    PROVE  IInv'
<1>1. TypeOK' /\ PassOK' /\ Grows /\ Settles /\ \A q \in Requests : Aside(q)
  BY DEF IInv, TypeOK, PassOK, Grows, Settles, Aside, rows
<1> QED
  BY <1>1, OthersStep DEF rows

\* The vectors of a deleted identity.
LEMMA DeletionStep ==
    ASSUME IInv, (\E s \in Requests : Deactivate(s)) \/ DeletionEnds
    PROVE  IInv'
<1>1. TypeOK /\ PassOK
  BY DEF IInv, EvidenceInv
<1>2. ASSUME NEW s \in Requests, Deactivate(s) PROVE IInv'
  <2>1. deletion' \in Deletion
    BY <1>1, <1>2 DEF Deactivate, TypeOK, Deletion
  <2>2. /\ vector' \in [Requests -> {"none", "active", "inactive"}]
        /\ \A q \in Requests : \/ vector'[q] = vector[q]
                               \/ vector[q] = "active" /\ vector'[q] = "inactive"
    BY <1>1, <1>2 DEF Deactivate, TypeOK
  <2> QED
    BY <1>1, <1>2, <2>1, <2>2, VectorStep DEF Deactivate, TypeOK, PassOK
<1>3. CASE DeletionEnds
  <2>1. IdleDeletion \in Deletion
    BY DEF IdleDeletion, Deletion
  <2> QED
    BY <1>1, <1>3, <2>1, VectorStep DEF DeletionEnds, TypeOK, PassOK, stores
<1> QED
  BY <1>2, <1>3

\* The reconciliation lists samples that are active, so they were created.
LEMMA PassStep ==
    ASSUME IInv, \/ List \/ RepairRow \/ RepairVector \/ PassEnds
                 \/ \E s \in Requests, outage \in BOOLEAN : Check(s, outage)
    PROVE  IInv'
<1>1. TypeOK /\ PassOK
  BY DEF IInv, EvidenceInv
<1>2. pass \in Pass /\ pass.todo \subseteq Requests /\ pass.now \in Requests \cup {None}
  BY <1>1 DEF TypeOK, Pass
<1>3. CASE List
  <2>1. pass' \in Pass /\ pass'.now = None
        /\ \A s \in pass'.todo : sample[s].state # "none"
    BY <1>3 DEF List, Pass
  <2> QED
    BY <1>1, <1>3, <2>1, VectorStep DEF List, TypeOK, stores
<1>4. ASSUME NEW s \in Requests, NEW outage \in BOOLEAN, Check(s, outage) PROVE IInv'
  <2>1. pass' \in Pass /\ pass'.todo \subseteq pass.todo /\ pass'.now \in {s, pass.now} /\ s \in pass.todo
    BY <1>2, <1>4 DEF Check, Pass
  <2>2. \A q \in pass'.todo \cup {pass'.now} : q # None => sample[q].state # "none"
    BY <1>1, <2>1 DEF PassOK
  <2> QED
    BY <1>1, <1>4, <2>1, <2>2, VectorStep DEF Check, TypeOK, stores
<1>5. CASE RepairVector
  <2>1. pass' \in Pass /\ pass'.todo = pass.todo /\ pass'.now = None
    BY <1>2, <1>5 DEF RepairVector, Pass
  <2>2. /\ vector' \in [Requests -> {"none", "active", "inactive"}]
        /\ \A q \in Requests : vector'[q] \in {vector[q], "none"}
    BY <1>1, <1>5 DEF RepairVector, TypeOK
  <2>3. \A q \in pass'.todo \cup {pass'.now} : q # None => sample[q].state # "none"
    BY <1>1, <2>1 DEF PassOK
  <2> QED
    BY <1>1, <1>5, <2>1, <2>2, <2>3, VectorStep DEF RepairVector, TypeOK
<1>6. CASE PassEnds
  <2>1. pass' \in Pass /\ pass'.todo = {} /\ pass'.now = None
    BY <1>6 DEF PassEnds, IdlePass, Pass
  <2> QED
    BY <1>1, <1>6, <2>1, VectorStep DEF PassEnds, TypeOK, stores
<1>7. CASE RepairRow
  <2>1. pass' \in Pass /\ pass'.todo = pass.todo /\ pass'.now = pass.now
    BY <1>2, <1>7 DEF RepairRow, Pass
  <2>2. \A q \in Requests : /\ sample[q] \in SampleRow
                            /\ InactiveRow(sample[q]) \in SampleRow /\ InactiveRow(sample[q]).state = "inactive"
    BY <1>1, RowWrites DEF TypeOK
  <2>3. pass.now \in Requests => sample[pass.now].state # "none"
    BY <1>1, NoneAssumption DEF PassOK
  <2>4. sample' \in [Requests -> SampleRow]
        /\ \A q \in Requests : \/ sample'[q] = sample[q]
                               \/ sample[q].state # "none" /\ sample'[q] = InactiveRow(sample[q])
    BY <1>1, <1>7, <2>2, <2>3 DEF RepairRow, TypeOK
  <2>5. TypeOK' /\ Settles /\ Grows /\ \A q \in Requests : Aside(q)
    BY <1>1, <1>7, <2>1, <2>2, <2>4 DEF RepairRow, TypeOK, Settles, Grows, Aside, stores
  <2>6. PassOK'
    BY <1>1, <1>2, <2>1, <2>5 DEF PassOK, Grows
  <2> QED
    BY <1>7, <2>5, <2>6, OthersStep DEF RepairRow
<1> QED
  BY <1>3, <1>4, <1>5, <1>6, <1>7

-----------------------------------------------------------------------------
(* The invariant, and the theorems.                                        *)

\* The stores start empty.
LEMMA InitIInv == Init => IInv
<1> SUFFICES ASSUME Init PROVE IInv
  OBVIOUS
<1>1. IdleRequest \in RequestState /\ IdleDeletion \in Deletion /\ IdlePass \in Pass
  BY DEF IdleRequest, RequestState, IdleDeletion, Deletion, IdlePass, Pass
<1>2. [state |-> "none", active |-> FALSE, described |-> FALSE, face |-> None] \in SampleRow
  BY DEF SampleRow
<1>3. TypeOK
  BY <1>1, <1>2 DEF TypeOK, Init, IdentityStatus
<1>4. PassOK
  BY DEF PassOK, Init, IdlePass
<1>5. ASSUME NEW r \in Requests PROVE EvidenceOK(r) /\ GoneOK(r)
  <2>1. request[r] = IdleRequest
    BY DEF Init
  <2>2. /\ request[r].at = "idle" /\ request[r].kind = "none" /\ request[r].face = None
        /\ request[r].gone = {}
    BY <2>1 DEF IdleRequest
  <2>3. /\ sample[r].state = "none" /\ ~sample[r].active /\ ~sample[r].described
        /\ vector[r] = "none" /\ process[r] = "none" /\ identity[r] = "absent"
    BY DEF Init, Faces
  <2> QED
    BY <2>2, <2>3 DEF EvidenceOK, RowOK, PlaceOK, FreshOK, ReportOK, GoneOK
<1> QED
  BY <1>3, <1>4, <1>5 DEF IInv, EvidenceInv, GoneInv

\* Every step keeps the invariant.
LEMMA NextIInv == IInv /\ [Next]_vars => IInv'
<1> SUFFICES ASSUME IInv, [Next]_vars PROVE IInv'
  OBVIOUS
<1>1. CASE UNCHANGED vars
  BY <1>1 DEF vars, rows, stores, IInv, TypeOK, EvidenceInv, GoneInv, PassOK, EvidenceOK, RowOK, PlaceOK,
              FreshOK, ReportOK, GoneOK
<1>2. ASSUME NEW r \in Requests,
             \/ \E kind \in KindsOf[r] : Start(r, kind)
             \/ Search(r) \/ Match(r) \/ Promote(r)
             \/ \E f \in Faces : Given(r, f)
             \/ Persist(r)
             \/ Finish(r) \/ Raises(r) \/ Fail(r) \/ Crash(r) \/ Retry(r)
      PROVE IInv'
  BY <1>2, StartStep, SearchStep, MatchStep, PromoteStep, GivenStep, EnsureStep, UploadStep, RowStep,
     UpsertStep, RecordFailureStep, EndStep, GivesUpStep, RetryStep DEF Persist
<1>3. ASSUME NEW f \in Faces, Rename(f) \/ Delete(f) PROVE IInv'
  BY <1>3, RenameStep, DeleteStep
<1> QED
  BY <1>1, <1>2, <1>3, DeletionStep, PassStep DEF Next

\* The inductive invariant holds in every reachable state.
THEOREM Invariance == Spec => []IInv
BY InitIInv, NextIInv, PTL DEF Spec

\* The rows, the stores and the requests keep their types: a sample in state "active"
\* has is_active set and its object described (the columns of face_sample).
THEOREM TypeCorrect == Spec => []TypeOK
<1>1. IInv => TypeOK
  BY DEF IInv
<1> QED
  BY <1>1, Invariance, PTL

\* However calls fail, processes die, jobs are retried, identities are deleted and
\* passes repair: a point of Qdrant has a row that describes its object, and MinIO
\* has that object (the order of the writes of persist).
THEOREM Backing == Spec => []VectorBacked
<1>1. IInv => VectorBacked
  BY DEF IInv, EvidenceInv, EvidenceOK, RowOK, VectorBacked
<1> QED
  BY <1>1, Invariance, PTL

\* A process that is recorded as completed has its evidence: the object of the sample
\* it reports, and the row of its own sample made active (persist before the commit).
THEOREM Evidence == Spec => []ReportedIsStored
<1>1. IInv => ReportedIsStored
  BY DEF IInv, EvidenceInv, EvidenceOK, ReportOK, ReportedIsStored
<1> QED
  BY <1>1, Invariance, PTL

\* An enrollment or a recognition never reports a face that was deleted when it came,
\* though vectors of that face may still be active (get_active_by_id in the matcher).
THEOREM DeletionIsFinal == Spec => []DeletedNotReported
<1>1. IInv => DeletedNotReported
  BY DEF IInv, GoneInv, GoneOK, DeletedNotReported
<1> QED
  BY <1>1, Invariance, PTL
=============================================================================
