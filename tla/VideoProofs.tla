---------------------------- MODULE VideoProofs ----------------------------
(***************************************************************************)
(* Proofs about VideoUpload and VideoAnalysis.                             *)
(*                                                                         *)
(* The upload: a job within its retention period has its source, and an    *)
(* upload leaves nothing behind that it could remove.                      *)
(* Neither is inductive.  StageOK says what the place of submit promises   *)
(* (the object is there before the row, the row before the answer);        *)
(* RowKept that a row which is committed or may still be has its object;   *)
(* DeleteOK that the finally clause deletes only without a row, or in      *)
(* doubt; TidyOK which faults explain what is left; and ClaimOK and        *)
(* ReaderOK that passes touch expired sources only and readers jobs only.  *)
(*                                                                         *)
(* The analysis: a result is whole, its persons and its faces are apart.   *)
(* EndOK ties the native process to the end of its stream; EventsOK and    *)
(* SentOK say that an event is what the accumulator holds and that no      *)
(* track of a whole result is lost between the accumulator, the tracks to  *)
(* be written, the pipe and the runner; FinalOK that only a completed      *)
(* event and exit code 0 lead to the finalization; PersonsOK that a track  *)
(* waits once or belongs to one person; VotesOK that no vote is for a face *)
(* of the same attempt; FacesOK that a face is won by a vote or is new.    *)
(***************************************************************************)
EXTENDS VideoUpload, VideoAnalysis, FiniteSetTheorems, WellFoundedInduction, TLAPS

-----------------------------------------------------------------------------
(* The upload.                                                             *)

Doubt(u) == "doubt" \in fault[u]

\* Up to the commit there is no row and no answer.
StageOK(u) ==
    /\ pc[u] \in {"idle", "stream", "probe", "put", "store"} => row[u] = "none"
    /\ pc[u] \in {"idle", "stream", "probe", "put", "store", "fail"} => told[u] = "none"
    /\ pc[u] = "store" => object[u]
    /\ Expired(u) => row[u] = "job"

RowKept(u) == row[u] # "none" /\ ~Expired(u) /\ ~Doubt(u) => object[u]

DeleteOK(u) == pc[u] = "delete" => row[u] = "none" \/ Doubt(u)

\* What is known of the file, of the thread and of the answer.
TidyOK(u) ==
    /\ pc[u] \in {"probe", "put", "store"} => known[u]
    /\ pc[u] = "fail" => known[u] \/ ~file[u]
    /\ pc[u] = "unlink" => known[u] \/ ~file[u] \/ "file" \in fault[u]
    /\ pc[u] \in {"check", "delete", "done"} => ~file[u] \/ "file" \in fault[u]
    /\ putting[u] => pc[u] = "put" \/ "object" \in fault[u]
    /\ (putting[u] \/ object[u]) => keyed[u]
    /\ told[u] = "ok" => row[u] = "job"
    /\ row[u] # "none" /\ told[u] = "none" => pc[u] \in {"fail", "dead"}
    /\ row[u] # "none" /\ (told[u] = "error" \/ pc[u] = "fail") => "answer" \in fault[u]
    /\ pc[u] = "done" /\ object[u] => row[u] = "job" \/ {"object", "answer"} \cap fault[u] # {}

UploadOK(u) == StageOK(u) /\ RowKept(u) /\ DeleteOK(u) /\ TidyOK(u)

\* A pass holds rows whose period is over.
ClaimOK == \A k \in Cleaners : \A u \in claimed[k] : Expired(u)

\* A reader has seen its job, and misses its source for a reason.
ReaderOK ==
    \A r \in Readers :
        /\ reader[r] # Idle => reader[r].upload \in Uploads /\ row[reader[r].upload] = "job"
        /\ reader[r].outcome = "missing" => Expired(reader[r].upload) \/ Doubt(reader[r].upload)

SourceInv == ClaimOK /\ ReaderOK /\ \A u \in Uploads : UploadOK(u)

IInv == TypeOK /\ SourceInv

-----------------------------------------------------------------------------
(* What resolve_sampling returns.                                          *)

\* Rounding yields an integer.
LEMMA RoundTyped == ASSUME NEW a \in Nat, NEW b \in Nat \ {0} PROVE Round(a, b) \in Int
<1>1. a \div b \in Int /\ a % b \in Int
  OBVIOUS
<1> QED
  BY <1>1 DEF Round

\* The larger of 1 and n.
LEMMA MaxWithOne == ASSUME NEW n \in Int PROVE Max({1, n}) \in Nat /\ Max({1, n}) >= 1
<1>1. \E x \in {1, n} : \A y \in {1, n} : x >= y
  <2>1. CASE n >= 1
    BY <2>1
  <2>2. CASE ~(n >= 1)
    BY <2>2
  <2> QED
    BY <2>1, <2>2
<1>2. Max({1, n}) \in {1, n} /\ \A y \in {1, n} : Max({1, n}) >= y
  BY <1>1 DEF Max
<1> QED
  BY <1>2

\* A sampling that is not refused uses every n-th frame for some positive n: the
\* native pipeline never gets an interval of zero.
LEMMA SamplingTyped ==
    ASSUME NEW i \in Inputs, ~Refused(i)
    PROVE  ResolveSampling(i) \in [requested : Nat, everyN : Nat] /\ ResolveSampling(i).everyN >= 1
<1>1. i.n \in Int /\ i.fps \in Int /\ RequestedFps(i) \in Int /\ SourceFps \in Nat \ {0}
  BY VideoUploadAssumption DEF RequestedFps
<1>2. SelectedMode(i) \in {"every_frame", "every_n_frames", "frames_per_second"}
  BY DEF Refused
<1>3. CASE SelectedMode(i) = "every_frame"
  BY <1>1, <1>3 DEF ResolveSampling, EveryFrame
<1>4. CASE SelectedMode(i) = "every_n_frames"
  <2>1. i.n > 0
    BY <1>1, <1>4 DEF Refused
  <2>2. ResolveSampling(i) = [requested |-> 0, everyN |-> i.n]
    BY <1>4 DEF ResolveSampling
  <2> QED
    BY <1>1, <2>1, <2>2
<1>5. CASE SelectedMode(i) = "frames_per_second"
  <2> DEFINE n == Max({1, Round(SourceFps, RequestedFps(i))})
  <2>1. RequestedFps(i) \in Nat \ {0}
    BY <1>1, <1>5 DEF Refused
  <2>2. n \in Nat /\ n >= 1
    BY <1>1, <2>1, RoundTyped, MaxWithOne
  <2>3. ResolveSampling(i) = [requested |-> RequestedFps(i), everyN |-> n]
    BY <1>5 DEF ResolveSampling
  <2> HIDE DEF n
  <2> QED
    BY <2>1, <2>2, <2>3
<1> QED
  BY <1>2, <1>3, <1>4, <1>5

-----------------------------------------------------------------------------
(* What a step may do to the uploads that do not take it.                  *)

Same(v) ==
    /\ pc'[v] = pc[v] /\ row'[v] = row[v] /\ told'[v] = told[v] /\ fault'[v] = fault[v]
    /\ object'[v] = object[v] /\ file'[v] = file[v] /\ known'[v] = known[v]
    /\ keyed'[v] = keyed[v] /\ putting'[v] = putting[v]

\* An upload that a step leaves alone.
LEMMA SameKept ==
    ASSUME NEW v \in Uploads, UploadOK(v), Same(v), Expired(v)' = Expired(v)
    PROVE  UploadOK(v)'
<1>1. Doubt(v)' = Doubt(v)
  BY DEF Doubt, Same
<1>2. StageOK(v)' /\ RowKept(v)'
  BY <1>1, Zenon DEF UploadOK, StageOK, RowKept, Same
<1>3. DeleteOK(v)'
  BY <1>1, Zenon DEF UploadOK, DeleteOK, Same
<1>4. TidyOK(v)'
  BY Zenon DEF UploadOK, TidyOK, Same
<1> QED
  BY <1>2, <1>3, <1>4 DEF UploadOK

\* A step of submit, from what it does to its own upload.
LEMMA OwnStep ==
    ASSUME IInv, NEW u \in Uploads, TypeOK', UNCHANGED <<due, claimed, reader>>,
           \A v \in Uploads \ {u} : Same(v), UploadOK(u)',
           row[u] = "job" => row'[u] = "job", Doubt(u) => Doubt(u)'
    PROVE  IInv'
<1>1. \A v \in Uploads : Expired(v)' = Expired(v)
  BY DEF Expired
<1>2. \A v \in Uploads : UploadOK(v)'
  BY <1>1, SameKept DEF IInv, SourceInv
<1>3. ClaimOK'
  BY <1>1 DEF IInv, SourceInv, ClaimOK, TypeOK, Expired
<1>4. \A v \in Uploads : (row[v] = "job" => row'[v] = "job") /\ (Doubt(v) => Doubt(v)')
  BY DEF Same, Doubt
<1>5. ReaderOK'
  <2>1. ASSUME NEW r \in Readers, reader[r] # Idle
        PROVE  /\ reader[r].upload \in Uploads /\ row'[reader[r].upload] = "job"
               /\ reader[r].outcome = "missing" => reader[r].upload \in ToSet(due') \/ "doubt" \in fault'[reader[r].upload]
    <3>1. PICK v \in Uploads : v = reader[r].upload /\ row[v] = "job"
      BY <2>1 DEF IInv, SourceInv, ReaderOK
    <3>2. reader[r].outcome = "missing" => Expired(v) \/ Doubt(v)
      BY <3>1 DEF IInv, SourceInv, ReaderOK
    <3> QED
      BY <1>4, <3>1, <3>2 DEF Expired, Doubt
  <2>2. Idle.outcome # "missing"
    BY DEF Idle
  <2> QED
    BY <2>1, <2>2 DEF ReaderOK, Expired, Doubt
<1> QED
  BY <1>2, <1>3, <1>5 DEF IInv, SourceInv

-----------------------------------------------------------------------------
(* The steps of submit.                                                    *)

\* The places of submit, and those of its variables that a step may write, are typed.
Pcs == {"idle", "stream", "probe", "put", "store", "fail", "unlink", "check", "delete", "done", "dead"}
Faults == {"file", "object", "answer", "doubt"}

\* A write of one upload's place of a variable.
LEMMA Write ==
    ASSUME NEW S, NEW f \in [Uploads -> S], NEW u \in Uploads, NEW x \in S
    PROVE  [f EXCEPT ![u] = x] \in [Uploads -> S]
OBVIOUS

\* Steps before the object is stored have no row to lose.
LEMMA SubmitOK == ASSUME IInv, NEW u \in Uploads, Submit(u) PROVE IInv'
<1>1. TypeOK /\ UploadOK(u) /\ pc[u] = "idle"
  BY DEF IInv, SourceInv, Submit, At
<1>2. /\ \A v \in Uploads \ {u} : Same(v)
      /\ pc'[u] = "stream" /\ UNCHANGED <<known, keyed, sampling, putting, object, row, told, fault, due,
                                          marked, claimed, held, removed, reader>>
  BY <1>1 DEF Submit, Go, TypeOK, Same, passes
<1>3. /\ pc' \in [Uploads -> Pcs] /\ process' \in [Uploads -> {"none", "started", "failed"}]
      /\ file' \in [Uploads -> BOOLEAN]
  BY <1>1 DEF Submit, Go, TypeOK, Pcs
<1>4. TypeOK'
  BY <1>1, <1>2, <1>3 DEF TypeOK, Pcs
<1>5. UploadOK(u)'
  BY <1>1, <1>2 DEF UploadOK, StageOK, RowKept, DeleteOK, TidyOK, Doubt, Expired
<1> QED
  BY <1>2, <1>4, <1>5, OwnStep DEF Doubt

\* _stream_upload.
LEMMA StreamOK == ASSUME IInv, NEW u \in Uploads, Stream(u) PROVE IInv'
<1>1. TypeOK /\ UploadOK(u) /\ pc[u] = "stream"
  BY DEF IInv, SourceInv, Stream, At
<1>2. /\ \A v \in Uploads \ {u} : Same(v)
      /\ UNCHANGED <<process, keyed, sampling, putting, object, row, told, fault, due,
                     marked, claimed, held, removed, reader>>
      /\ \/ pc'[u] = "probe" /\ known'[u] = TRUE
         \/ pc'[u] = "fail" /\ file'[u] = FALSE
  BY <1>1 DEF Stream, Go, TypeOK, Same, passes
<1>3. /\ pc' \in [Uploads -> Pcs] /\ known' \in [Uploads -> BOOLEAN]
      /\ file' \in [Uploads -> BOOLEAN]
  <2>1. pc' \in [Uploads -> Pcs]
    <3>1. CASE pc' = [pc EXCEPT ![u] = "probe"]
      BY <1>1, <3>1 DEF TypeOK, Pcs
    <3>2. CASE pc' = [pc EXCEPT ![u] = "fail"]
      BY <1>1, <3>2 DEF TypeOK, Pcs
    <3> QED
      BY <3>1, <3>2, Zenon DEF Stream, Go
  <2>2. known' = known \/ known' = [known EXCEPT ![u] = TRUE]
    BY DEF Stream
  <2>3. file' = file \/ file' = [file EXCEPT ![u] = FALSE]
    BY DEF Stream
  <2>4. known \in [Uploads -> BOOLEAN] /\ file \in [Uploads -> BOOLEAN] /\ TRUE \in BOOLEAN /\ FALSE \in BOOLEAN
    BY <1>1 DEF TypeOK
  <2>5. known' \in [Uploads -> BOOLEAN]
    BY <2>2, <2>4, Write, Zenon
  <2>6. file' \in [Uploads -> BOOLEAN]
    BY <2>3, <2>4, Write, Zenon
  <2> QED
    BY <2>1, <2>5, <2>6
<1>4. TypeOK'
  BY <1>1, <1>2, <1>3 DEF TypeOK, Pcs
<1>5. UploadOK(u)'
  BY <1>1, <1>2 DEF UploadOK, StageOK, RowKept, DeleteOK, TidyOK, Doubt, Expired
<1> QED
  BY <1>2, <1>4, <1>5, OwnStep DEF Doubt

\* The probe, the sampling and the start of the thread.
LEMMA ProbeOK == ASSUME IInv, NEW u \in Uploads, Probe(u) PROVE IInv'
<1>1. TypeOK /\ UploadOK(u) /\ pc[u] = "probe"
  BY DEF IInv, SourceInv, Probe, At
<1>2. UNCHANGED <<process, file, known, object, row, told, fault, due, marked, claimed, held, removed, reader>>
  BY DEF Probe, passes
<1>3. CASE Go(u, "fail") /\ UNCHANGED <<sampling, keyed, putting>>
  <2>1. pc' \in [Uploads -> Pcs] /\ pc'[u] = "fail" /\ \A v \in Uploads \ {u} : Same(v)
    BY <1>1, <1>2, <1>3 DEF Go, TypeOK, Same, Pcs
  <2>2. TypeOK'
    BY <1>1, <1>2, <1>3, <2>1 DEF TypeOK, Pcs
  <2>3. UploadOK(u)'
    BY <1>1, <1>2, <1>3, <2>1 DEF UploadOK, StageOK, RowKept, DeleteOK, TidyOK, Doubt, Expired
  <2> QED
    BY <1>2, <2>1, <2>2, <2>3, OwnStep DEF Doubt
<1>4. ASSUME NEW i \in Inputs, ~Refused(i),
             sampling' = [sampling EXCEPT ![u] = ResolveSampling(i)],
             keyed' = [keyed EXCEPT ![u] = TRUE], putting' = [putting EXCEPT ![u] = TRUE], Go(u, "put")
      PROVE  IInv'
  <2>1. pc' \in [Uploads -> Pcs] /\ pc'[u] = "put" /\ \A v \in Uploads \ {u} : Same(v)
    BY <1>1, <1>2, <1>4 DEF Go, TypeOK, Same, Pcs
  <2>2. keyed' \in [Uploads -> BOOLEAN] /\ putting' \in [Uploads -> BOOLEAN] /\ keyed'[u] = TRUE
    BY <1>1, <1>4 DEF TypeOK
  <2>3. /\ sampling' \in [Uploads -> [requested : Nat, everyN : Nat]]
        /\ \A v \in Uploads : keyed'[v] => sampling'[v].everyN >= 1
    <3>1. ResolveSampling(i) \in [requested : Nat, everyN : Nat] /\ ResolveSampling(i).everyN >= 1
      BY <1>4, SamplingTyped
    <3>2. sampling'[u] = ResolveSampling(i) /\ \A v \in Uploads \ {u} : sampling'[v] = sampling[v]
      BY <1>1, <1>4 DEF TypeOK
    <3>3. sampling' \in [Uploads -> [requested : Nat, everyN : Nat]]
      BY <1>1, <1>4, <3>1 DEF TypeOK
    <3>4. \A v \in Uploads \ {u} : keyed'[v] = keyed[v]
      BY <2>1 DEF Same
    <3> QED
      BY <1>1, <3>1, <3>2, <3>3, <3>4 DEF TypeOK
  <2>4. TypeOK'
    BY <1>1, <1>2, <2>1, <2>2, <2>3 DEF TypeOK, Pcs
  <2>5. UploadOK(u)'
    BY <1>1, <1>2, <2>1, <2>2 DEF UploadOK, StageOK, RowKept, DeleteOK, TidyOK, Doubt, Expired
  <2> QED
    BY <1>2, <2>1, <2>4, <2>5, OwnStep DEF Doubt
<1> QED
  BY <1>3, <1>4 DEF Probe, Accepted

\* The end of the thread, and the return of upload_video.
LEMMA PutOK == ASSUME IInv, NEW u \in Uploads, PutEnds(u) \/ PutReturns(u) PROVE IInv'
<1>1. TypeOK /\ UploadOK(u)
  BY DEF IInv, SourceInv
<1>2. /\ UNCHANGED <<process, file, known, keyed, sampling, row, told, fault, due, marked,
                     claimed, held, removed, reader>>
      /\ \A v \in Uploads \ {u} : Same(v)
  BY <1>1 DEF PutEnds, PutReturns, Go, TypeOK, Same, passes
<1>3. /\ pc' \in [Uploads -> Pcs] /\ putting' \in [Uploads -> BOOLEAN] /\ object' \in [Uploads -> BOOLEAN]
  <2>1. pc' \in [Uploads -> Pcs]
    BY <1>1 DEF PutEnds, PutReturns, Go, TypeOK, Pcs
  <2>2. putting' = putting \/ putting' = [putting EXCEPT ![u] = FALSE]
    BY DEF PutEnds, PutReturns
  <2>3. object' = object \/ object' = [object EXCEPT ![u] = TRUE]
    BY DEF PutEnds, PutReturns
  <2>4. putting \in [Uploads -> BOOLEAN] /\ object \in [Uploads -> BOOLEAN] /\ TRUE \in BOOLEAN /\ FALSE \in BOOLEAN
    BY <1>1 DEF TypeOK
  <2>5. putting' \in [Uploads -> BOOLEAN]
    BY <2>2, <2>4, Write, Zenon
  <2>6. object' \in [Uploads -> BOOLEAN]
    BY <2>3, <2>4, Write, Zenon
  <2> QED
    BY <2>1, <2>5, <2>6
<1>4. TypeOK'
  BY <1>1, <1>2, <1>3 DEF TypeOK, Pcs
<1>5. CASE PutEnds(u)
  <2>1. putting[u] /\ putting'[u] = FALSE /\ pc'[u] = pc[u] /\ (object'[u] = object[u] \/ object'[u] = TRUE)
    BY <1>1, <1>5 DEF PutEnds, TypeOK
  <2>2. UploadOK(u)'
    BY <1>1, <1>2, <2>1 DEF UploadOK, StageOK, RowKept, DeleteOK, TidyOK, Doubt, Expired
  <2> QED
    BY <1>2, <1>4, <2>2, OwnStep DEF Doubt
<1>6. CASE PutReturns(u)
  <2>1. /\ pc[u] = "put" /\ putting[u] = FALSE /\ object' = object /\ putting' = putting
        /\ (pc'[u] = "store" /\ object[u]) \/ pc'[u] = "fail"
    BY <1>1, <1>6 DEF PutReturns, At, Go, TypeOK
  <2>2. UploadOK(u)'
    BY <1>1, <1>2, <2>1 DEF UploadOK, StageOK, RowKept, DeleteOK, TidyOK, Doubt, Expired
  <2> QED
    BY <1>2, <1>4, <2>2, OwnStep DEF Doubt
<1> QED
  BY <1>5, <1>6

\* Rows and faults stay typed whatever becomes of the commit.
RowStates == {"none", "settling", "job"}
Answers == {"none", "ok", "error"}

\* The commit of the job.
LEMMA StoreOK == ASSUME IInv, NEW u \in Uploads, Store(u) PROVE IInv'
<1>1. TypeOK /\ UploadOK(u) /\ pc[u] = "store"
  BY DEF IInv, SourceInv, Store, At
<1>2. UNCHANGED <<process, file, known, keyed, sampling, putting, object, due, marked, claimed, held, removed, reader>>
  BY DEF Store, passes
<1>3. row[u] = "none" /\ told[u] = "none" /\ object[u] /\ known[u]
  BY <1>1 DEF UploadOK, StageOK, TidyOK
<1>4. CASE row' = [row EXCEPT ![u] = "job"] /\ told' = [told EXCEPT ![u] = "ok"] /\ Go(u, "unlink") /\ UNCHANGED fault
  <2>1. /\ pc' \in [Uploads -> Pcs] /\ row' \in [Uploads -> RowStates] /\ told' \in [Uploads -> Answers]
        /\ pc'[u] = "unlink" /\ row'[u] = "job" /\ told'[u] = "ok" /\ \A v \in Uploads \ {u} : Same(v)
    BY <1>1, <1>2, <1>4 DEF Go, TypeOK, Same, Pcs, RowStates, Answers
  <2>2. TypeOK'
    BY <1>1, <1>2, <1>4, <2>1 DEF TypeOK, Pcs, RowStates, Answers
  <2>3. UploadOK(u)'
    BY <1>1, <1>2, <1>3, <1>4, <2>1 DEF UploadOK, StageOK, RowKept, DeleteOK, TidyOK, Doubt, Expired
  <2> QED
    BY <1>2, <1>3, <1>4, <2>1, <2>2, <2>3, OwnStep DEF Doubt
<1>5. ASSUME NEW r \in RowStates, row' = [row EXCEPT ![u] = r],
             fault' = [fault EXCEPT ![u] = IF r = "none" THEN @ ELSE @ \cup {"answer"}],
             Go(u, "fail"), UNCHANGED told
      PROVE  IInv'
  <2>1. /\ pc' \in [Uploads -> Pcs] /\ row' \in [Uploads -> RowStates]
        /\ pc'[u] = "fail" /\ row'[u] = r /\ fault[u] \subseteq fault'[u] /\ (r # "none" => "answer" \in fault'[u])
        /\ \A v \in Uploads \ {u} : Same(v)
    BY <1>1, <1>2, <1>5 DEF Go, TypeOK, Same, Pcs, RowStates
  <2>2. fault' \in [Uploads -> SUBSET Faults]
    BY <1>1, <1>5 DEF TypeOK, Faults
  <2>3. TypeOK'
    BY <1>1, <1>2, <1>5, <2>1, <2>2 DEF TypeOK, Pcs, RowStates, Faults
  <2>4. UploadOK(u)'
    BY <1>1, <1>2, <1>3, <1>5, <2>1 DEF UploadOK, StageOK, RowKept, DeleteOK, TidyOK, Doubt, Expired
  <2> QED
    BY <1>2, <1>3, <2>1, <2>3, <2>4, OwnStep DEF Doubt
<1> QED
  BY <1>4, <1>5 DEF Store, RowStates

\* The database settles the commit that was not acknowledged.
LEMMA SettleOK == ASSUME IInv, NEW u \in Uploads, Settle(u) PROVE IInv'
<1>1. TypeOK /\ UploadOK(u) /\ row[u] = "settling"
  BY DEF IInv, SourceInv, Settle
<1>2. UNCHANGED <<pc, process, file, known, keyed, sampling, putting, told, fault, object, due, marked,
                  claimed, held, removed, reader>>
  BY DEF Settle, passes, upload
<1>3. /\ row' \in [Uploads -> RowStates] /\ row'[u] \in {"none", "job"}
      /\ \A v \in Uploads \ {u} : Same(v)
  <2>1. PICK r \in {"none", "job"} : row' = [row EXCEPT ![u] = r]
    BY DEF Settle
  <2>2. row' \in [Uploads -> RowStates] /\ row'[u] = r /\ \A v \in Uploads \ {u} : row'[v] = row[v]
    BY <1>1, <2>1 DEF TypeOK, RowStates
  <2> QED
    BY <1>2, <2>2 DEF Same
<1>4. TypeOK'
  BY <1>1, <1>2, <1>3 DEF TypeOK, RowStates
<1>5. UploadOK(u)'
  <2>1. StageOK(u)' /\ RowKept(u)' /\ DeleteOK(u)'
    BY <1>1, <1>2, <1>3 DEF UploadOK, StageOK, RowKept, DeleteOK, Doubt, Expired
  <2>2. TidyOK(u)'
    BY <1>1, <1>2, <1>3 DEF UploadOK, TidyOK
  <2> QED
    BY <2>1, <2>2 DEF UploadOK
<1> QED
  BY <1>1, <1>2, <1>3, <1>4, <1>5, OwnStep DEF Doubt

\* The handlers.
LEMMA FailOK == ASSUME IInv, NEW u \in Uploads, Fail(u) PROVE IInv'
<1>1. TypeOK /\ UploadOK(u) /\ pc[u] = "fail"
  BY DEF IInv, SourceInv, Fail, At
<1>2. UNCHANGED <<file, known, keyed, sampling, putting, object, row, fault, due, marked, claimed, held, removed, reader>>
  BY DEF Fail, passes
<1>3. /\ pc' \in [Uploads -> Pcs] /\ told' \in [Uploads -> Answers]
      /\ pc'[u] = "unlink" /\ told'[u] = "error" /\ \A v \in Uploads \ {u} : Same(v)
  BY <1>1, <1>2 DEF Fail, Go, TypeOK, Same, Pcs, Answers
<1>4. process' \in [Uploads -> {"none", "started", "failed"}]
  BY <1>1 DEF Fail, TypeOK
<1>5. TypeOK'
  BY <1>1, <1>2, <1>3, <1>4 DEF TypeOK, Pcs, Answers
<1>6. UploadOK(u)'
  BY <1>1, <1>2, <1>3 DEF UploadOK, StageOK, RowKept, DeleteOK, TidyOK, Doubt, Expired
<1> QED
  BY <1>2, <1>3, <1>5, <1>6, OwnStep DEF Doubt

\* A cancellation at an await.
LEMMA CancelOK == ASSUME IInv, NEW u \in Uploads, Cancel(u) PROVE IInv'
<1>1. TypeOK /\ UploadOK(u) /\ pc[u] \in {"stream", "probe", "put", "store", "fail"}
  BY DEF IInv, SourceInv, Cancel
<1>2. UNCHANGED <<process, file, known, keyed, sampling, putting, object, due, marked, claimed, held, removed, reader>>
  BY DEF Cancel, passes
<1>3. /\ pc' \in [Uploads -> Pcs] /\ told' \in [Uploads -> Answers] /\ pc'[u] = "unlink" /\ told'[u] = "error"
      /\ \A v \in Uploads \ {u} : pc'[v] = pc[v] /\ told'[v] = told[v]
  BY <1>1 DEF Cancel, Go, TypeOK, Pcs, Answers
<1>4. /\ row' \in [Uploads -> RowStates] /\ (pc[u] # "store" => row'[u] = row[u])
      /\ \A v \in Uploads \ {u} : row'[v] = row[v]
  <2>1. row' = row \/ \E r \in RowStates : row' = [row EXCEPT ![u] = r]
    BY DEF Cancel, RowStates
  <2>2. pc[u] # "store" => row' = row
    BY DEF Cancel, At
  <2>3. row \in [Uploads -> RowStates]
    BY <1>1 DEF TypeOK, RowStates
  <2>4. row' \in [Uploads -> RowStates]
    BY <2>1, <2>3, Write, Zenon
  <2>5. \A v \in Uploads \ {u} : row'[v] = row[v]
    BY <2>1, <2>3
  <2> QED
    BY <2>2, <2>4, <2>5
<1>5. /\ fault' \in [Uploads -> SUBSET Faults] /\ fault[u] \subseteq fault'[u]
      /\ \A v \in Uploads \ {u} : fault'[v] = fault[v]
      /\ pc[u] = "stream" => "file" \in fault'[u]
      /\ putting[u] => "object" \in fault'[u]
      /\ row'[u] # "none" => "answer" \in fault'[u]
      /\ Doubt(u)' = Doubt(u)
  <2> DEFINE more == {f \in {"file", "object", "answer"} :
                              \/ f = "file" /\ At(u, "stream")
                              \/ f = "object" /\ putting[u]
                              \/ f = "answer" /\ row'[u] # "none"}
  <2>1. fault' = [fault EXCEPT ![u] = @ \cup more]
    BY DEF Cancel
  <2>2. /\ more \subseteq {"file", "object", "answer"} /\ (pc[u] = "stream" => "file" \in more)
        /\ (putting[u] => "object" \in more) /\ (row'[u] # "none" => "answer" \in more)
    BY DEF At
  <2> HIDE DEF more
  <2>3. /\ fault'[u] = fault[u] \cup more /\ \A v \in Uploads \ {u} : fault'[v] = fault[v]
        /\ fault' \in [Uploads -> SUBSET Faults]
    BY <1>1, <2>1, <2>2 DEF TypeOK, Faults
  <2>4. "doubt" \notin more
    BY <2>2
  <2>5. Doubt(u)' = Doubt(u)
    BY <2>3, <2>4 DEF Doubt
  <2> QED
    BY <2>2, <2>3, <2>5
<1>6. TypeOK'
  BY <1>1, <1>2, <1>3, <1>4, <1>5 DEF TypeOK, Pcs, RowStates, Answers, Faults
<1>7. \A v \in Uploads \ {u} : Same(v)
  BY <1>2, <1>3, <1>4, <1>5 DEF Same
<1>8. row[u] = "job" => row'[u] = "job"
  BY <1>1, <1>4 DEF UploadOK, StageOK
<1>9. UploadOK(u)'
  BY <1>1, <1>2, <1>3, <1>4, <1>5 DEF UploadOK, StageOK, RowKept, DeleteOK, TidyOK, Expired
<1> QED
  BY <1>2, <1>5, <1>6, <1>7, <1>8, <1>9, OwnStep DEF Doubt

\* The finally clause, first part: the temporary file.
LEMMA UnlinkOK == ASSUME IInv, NEW u \in Uploads, Unlink(u) PROVE IInv'
<1>1. TypeOK /\ UploadOK(u) /\ pc[u] = "unlink"
  BY DEF IInv, SourceInv, Unlink, At
<1>2. UNCHANGED <<process, known, keyed, sampling, putting, object, row, told, fault, due, marked,
                  claimed, held, removed, reader>>
  BY DEF Unlink, passes
<1>3. PICK p \in {"check", "done"} : pc' = [pc EXCEPT ![u] = p] /\ (p = "done" => ~keyed[u])
  BY DEF Unlink, Go
<1>4. pc' \in [Uploads -> Pcs] /\ pc'[u] = p /\ \A v \in Uploads \ {u} : pc'[v] = pc[v]
  BY <1>1, <1>3 DEF TypeOK, Pcs
<1>5. /\ file' \in [Uploads -> BOOLEAN] /\ (file'[u] => file[u] /\ ~known[u])
      /\ \A v \in Uploads \ {u} : file'[v] = file[v]
  <2>1. file' = [file EXCEPT ![u] = file[u] /\ ~known[u]]
    BY DEF Unlink
  <2>2. file \in [Uploads -> BOOLEAN] /\ (file[u] /\ ~known[u]) \in BOOLEAN
    BY <1>1 DEF TypeOK
  <2>3. file' \in [Uploads -> BOOLEAN]
    BY <2>1, <2>2, Write, Zenon
  <2>4. file'[u] = (file[u] /\ ~known[u]) /\ \A v \in Uploads \ {u} : file'[v] = file[v]
    BY <2>1, <2>2, Zenon
  <2> QED
    BY <2>3, <2>4
<1>6. TypeOK'
  BY <1>1, <1>2, <1>4, <1>5 DEF TypeOK, Pcs
<1>7. \A v \in Uploads \ {u} : Same(v)
  BY <1>2, <1>4, <1>5, Zenon DEF Same
<1>8. UploadOK(u)'
  <2>1. StageOK(u)' /\ RowKept(u)' /\ DeleteOK(u)'
    BY <1>1, <1>2, <1>4 DEF UploadOK, StageOK, RowKept, DeleteOK, Doubt, Expired
  <2>2. TidyOK(u)'
    BY <1>1, <1>2, <1>3, <1>4, <1>5 DEF UploadOK, TidyOK
  <2> QED
    BY <2>1, <2>2 DEF UploadOK
<1> QED
  BY <1>2, <1>6, <1>7, <1>8, OwnStep DEF Doubt

\* The finally clause, second part: the database is asked.  A row that is not
\* settled yet is a doubt, and only then may the object go while a row comes.
LEMMA CheckOK == ASSUME IInv, NEW u \in Uploads, Check(u) PROVE IInv'
<1>1. TypeOK /\ UploadOK(u) /\ pc[u] = "check"
  BY DEF IInv, SourceInv, Check, At
<1>2. UNCHANGED <<process, file, known, keyed, sampling, putting, object, row, due, marked, claimed, held, removed, reader>>
  BY DEF Check, passes
<1>3. CASE /\ Go(u, IF row[u] = "job" THEN "done" ELSE "delete")
           /\ fault' = [fault EXCEPT ![u] = IF row[u] = "settling" THEN @ \cup {"doubt"} ELSE @]
           /\ UNCHANGED told
  <2>1. PICK p \in {"delete", "done"} :
            pc' = [pc EXCEPT ![u] = p] /\ (p = "done" => row[u] = "job") /\ (p = "delete" => row[u] # "job")
    BY <1>3 DEF Go
  <2>2. pc' \in [Uploads -> Pcs] /\ pc'[u] = p /\ \A v \in Uploads \ {u} : pc'[v] = pc[v]
    BY <1>1, <2>1 DEF TypeOK, Pcs
  <2>3. /\ fault' \in [Uploads -> SUBSET Faults] /\ fault[u] \subseteq fault'[u]
        /\ row[u] = "settling" => "doubt" \in fault'[u]
        /\ \A v \in Uploads \ {u} : fault'[v] = fault[v]
    BY <1>1, <1>3 DEF TypeOK, Faults
  <2>4. TypeOK'
    BY <1>1, <1>2, <1>3, <2>2, <2>3 DEF TypeOK, Pcs, Faults
  <2>5. \A v \in Uploads \ {u} : Same(v)
    BY <1>2, <1>3, <2>2, <2>3 DEF Same
  <2>6. row[u] \in RowStates
    BY <1>1 DEF TypeOK, RowStates
  <2>7. StageOK(u)' /\ RowKept(u)' /\ DeleteOK(u)'
    BY <1>1, <1>2, <1>3, <2>1, <2>2, <2>3, <2>6 DEF UploadOK, StageOK, RowKept, DeleteOK, Doubt, Expired, RowStates
  <2>8. TidyOK(u)'
    BY <1>1, <1>2, <1>3, <2>1, <2>2, <2>3 DEF UploadOK, TidyOK
  <2> QED
    BY <1>2, <2>3, <2>4, <2>5, <2>7, <2>8, OwnStep DEF Doubt, UploadOK
<1>4. CASE /\ fault' = [fault EXCEPT ![u] = @ \cup {"object", "answer"}]
           /\ told' = [told EXCEPT ![u] = "error"]
           /\ Go(u, "done")
  <2>1. /\ pc' \in [Uploads -> Pcs] /\ pc'[u] = "done" /\ told' \in [Uploads -> Answers] /\ told'[u] = "error"
        /\ fault'[u] = fault[u] \cup {"object", "answer"} /\ \A v \in Uploads \ {u} : Same(v)
    BY <1>1, <1>2, <1>4 DEF Go, TypeOK, Same, Pcs, Answers
  <2>2. fault' \in [Uploads -> SUBSET Faults]
    BY <1>1, <1>4 DEF TypeOK, Faults
  <2>3. TypeOK'
    BY <1>1, <1>2, <2>1, <2>2 DEF TypeOK, Pcs, Answers, Faults
  <2>4. StageOK(u)' /\ RowKept(u)' /\ DeleteOK(u)'
    BY <1>1, <1>2, <2>1 DEF UploadOK, StageOK, RowKept, DeleteOK, Doubt, Expired
  <2>5. TidyOK(u)'
    BY <1>1, <1>2, <2>1 DEF UploadOK, TidyOK
  <2> QED
    BY <1>2, <2>1, <2>3, <2>4, <2>5, OwnStep DEF Doubt, UploadOK
<1> QED
  BY <1>3, <1>4 DEF Check

\* delete_video, of an object without a row or in doubt.
LEMMA DeleteStepOK == ASSUME IInv, NEW u \in Uploads, Delete(u) PROVE IInv'
<1>1. TypeOK /\ UploadOK(u) /\ pc[u] = "delete"
  BY DEF IInv, SourceInv, Delete, At
<1>2. UNCHANGED <<process, file, known, keyed, sampling, putting, row, told, due, marked, claimed, held, removed, reader>>
  BY DEF Delete, passes
<1>3. pc' \in [Uploads -> Pcs] /\ pc'[u] = "done" /\ \A v \in Uploads \ {u} : pc'[v] = pc[v]
  BY <1>1 DEF Delete, Go, TypeOK, Pcs
<1>4. CASE object' = [object EXCEPT ![u] = FALSE] /\ UNCHANGED fault
  <2>1. object' \in [Uploads -> BOOLEAN] /\ object'[u] = FALSE /\ \A v \in Uploads \ {u} : Same(v)
    BY <1>1, <1>2, <1>3, <1>4 DEF TypeOK, Same
  <2>2. TypeOK'
    BY <1>1, <1>2, <1>3, <1>4, <2>1 DEF TypeOK, Pcs
  <2>3. StageOK(u)' /\ RowKept(u)' /\ DeleteOK(u)'
    BY <1>1, <1>2, <1>3, <1>4, <2>1 DEF UploadOK, StageOK, RowKept, DeleteOK, Doubt, Expired
  <2>4. TidyOK(u)'
    BY <1>1, <1>2, <1>3, <1>4, <2>1 DEF UploadOK, TidyOK
  <2> QED
    BY <1>2, <1>4, <2>1, <2>2, <2>3, <2>4, OwnStep DEF Doubt, UploadOK
<1>5. CASE fault' = [fault EXCEPT ![u] = @ \cup {"object"}] /\ UNCHANGED object
  <2>1. fault'[u] = fault[u] \cup {"object"} /\ \A v \in Uploads \ {u} : Same(v)
    BY <1>1, <1>2, <1>3, <1>5 DEF TypeOK, Same
  <2>2. fault' \in [Uploads -> SUBSET Faults]
    BY <1>1, <1>5 DEF TypeOK, Faults
  <2>3. TypeOK'
    BY <1>1, <1>2, <1>3, <1>5, <2>2 DEF TypeOK, Pcs, Faults
  <2>4. StageOK(u)' /\ RowKept(u)' /\ DeleteOK(u)'
    BY <1>1, <1>2, <1>3, <1>5, <2>1 DEF UploadOK, StageOK, RowKept, DeleteOK, Doubt, Expired
  <2>5. TidyOK(u)'
    BY <1>1, <1>2, <1>3, <1>5, <2>1 DEF UploadOK, TidyOK
  <2> QED
    BY <1>2, <2>1, <2>3, <2>4, <2>5, OwnStep DEF Doubt, UploadOK
<1> QED
  BY <1>4, <1>5 DEF Delete

\* The API process dies; a commit that has left it may stand.
LEMMA DieOK == ASSUME IInv, NEW u \in Uploads, Die(u) PROVE IInv'
<1>1. TypeOK /\ UploadOK(u)
  BY DEF IInv, SourceInv
<1>2. UNCHANGED <<process, file, known, keyed, sampling, object, told, fault, due, marked, claimed, held, removed, reader>>
  BY DEF Die, passes
<1>3. /\ pc' \in [Uploads -> Pcs] /\ pc'[u] = "dead" /\ putting' \in [Uploads -> BOOLEAN] /\ putting'[u] = FALSE
      /\ \A v \in Uploads \ {u} : pc'[v] = pc[v] /\ putting'[v] = putting[v]
  BY <1>1 DEF Die, Go, TypeOK, Pcs
<1>4. row' = row \/ (pc[u] = "store" /\ row' = [row EXCEPT ![u] = "job"])
  BY DEF Die, At
<1>5. /\ row' \in [Uploads -> RowStates] /\ (row'[u] = row[u] \/ (pc[u] = "store" /\ row'[u] = "job"))
      /\ \A v \in Uploads \ {u} : row'[v] = row[v]
  <2>1. CASE row' = row
    BY <1>1, <2>1 DEF TypeOK, RowStates
  <2>2. CASE pc[u] = "store" /\ row' = [row EXCEPT ![u] = "job"]
    BY <1>1, <2>2 DEF TypeOK, RowStates
  <2> QED
    BY <1>4, <2>1, <2>2
<1>6. TypeOK'
  BY <1>1, <1>2, <1>3, <1>5 DEF TypeOK, Pcs, RowStates
<1>7. \A v \in Uploads \ {u} : Same(v)
  BY <1>2, <1>3, <1>5, Zenon DEF Same
<1>8. StageOK(u)' /\ RowKept(u)' /\ DeleteOK(u)'
  BY <1>1, <1>2, <1>3, <1>5 DEF UploadOK, StageOK, RowKept, DeleteOK, Doubt, Expired
<1>9. TidyOK(u)'
  BY <1>1, <1>2, <1>3, <1>5 DEF UploadOK, StageOK, TidyOK
<1> QED
  BY <1>2, <1>5, <1>6, <1>7, <1>8, <1>9, OwnStep DEF Doubt, UploadOK

-----------------------------------------------------------------------------
(* The retention period, the passes and the readers.                       *)

\* A step beside submit: periods end for jobs only, and only an object whose
\* period is over is removed.
LEMMA BesideStep ==
    ASSUME IInv, TypeOK', ClaimOK', UNCHANGED <<upload, row, reader>>,
           \A v \in Uploads : /\ Expired(v) => Expired(v)'
                              /\ Expired(v)' => row[v] = "job"
                              /\ object'[v] = object[v] \/ (Expired(v) /\ object'[v] = FALSE)
    PROVE  IInv'
<1>1. UNCHANGED <<pc, process, file, known, keyed, sampling, putting, told, fault>>
  BY DEF upload
<1>2. ASSUME NEW v \in Uploads PROVE UploadOK(v)'
  <2>1. UploadOK(v) /\ Doubt(v)' = Doubt(v)
    BY <1>1 DEF IInv, SourceInv, Doubt
  <2>2. StageOK(v)' /\ RowKept(v)' /\ DeleteOK(v)'
    BY <1>1, <2>1 DEF UploadOK, StageOK, RowKept, DeleteOK
  <2>3. TidyOK(v)'
    BY <1>1, <2>1 DEF UploadOK, StageOK, TidyOK
  <2> QED
    BY <2>2, <2>3 DEF UploadOK
<1>3. ReaderOK'
  <2>1. ASSUME NEW r \in Readers, reader[r] # Idle
        PROVE  /\ reader[r].upload \in Uploads /\ row'[reader[r].upload] = "job"
               /\ reader[r].outcome = "missing" => reader[r].upload \in ToSet(due') \/ "doubt" \in fault'[reader[r].upload]
    <3>1. PICK v \in Uploads : v = reader[r].upload /\ row[v] = "job"
      BY <2>1 DEF IInv, SourceInv, ReaderOK
    <3>2. reader[r].outcome = "missing" => Expired(v) \/ Doubt(v)
      BY <3>1 DEF IInv, SourceInv, ReaderOK
    <3> QED
      BY <1>1, <3>1, <3>2 DEF Expired, Doubt
  <2>2. Idle.outcome # "missing"
    BY DEF Idle
  <2> QED
    BY <2>1, <2>2 DEF ReaderOK, Expired, Doubt
<1> QED
  BY <1>2, <1>3 DEF IInv, SourceInv

\* The clock passes the end of a job's period.
LEMMA ExpireOK == ASSUME IInv, NEW u \in Uploads, Expire(u) PROVE IInv'
<1>1. TypeOK /\ ClaimOK /\ row[u] = "job" /\ ~Expired(u) /\ due' = Append(due, u)
  BY DEF IInv, SourceInv, Expire
<1>2. UNCHANGED <<pc, process, file, known, keyed, sampling, putting, told, fault, object, row, marked,
                  claimed, held, removed, reader>>
  BY DEF Expire, upload, passes
<1>3. due \in Seq(Uploads) /\ IsInjective(due)
  BY <1>1 DEF TypeOK
<1>4. /\ due' \in Seq(Uploads) /\ DOMAIN due' = 1..(Len(due) + 1) /\ DOMAIN due = 1..Len(due) /\ Len(due) \in Nat
      /\ due'[Len(due) + 1] = u /\ \A i \in 1..Len(due) : due'[i] = due[i]
  BY <1>1, <1>3
<1>5. \A i \in DOMAIN due : due[i] # u
  BY <1>1 DEF Expired, ToSet
<1>6. IsInjective(due')
  <2>1. ASSUME NEW i \in DOMAIN due', NEW j \in DOMAIN due', due'[i] = due'[j] PROVE i = j
    <3>1. CASE i \in 1..Len(due) /\ j \in 1..Len(due)
      BY <1>3, <1>4, <2>1, <3>1 DEF IsInjective
    <3>2. CASE i = Len(due) + 1 \/ j = Len(due) + 1
      BY <1>4, <1>5, <2>1, <3>2
    <3> QED
      BY <1>4, <3>1, <3>2
  <2> QED
    BY <2>1 DEF IsInjective
<1>7. TypeOK'
  BY <1>1, <1>2, <1>4, <1>6 DEF TypeOK
<1>8. \A v \in Uploads : Expired(v)' <=> Expired(v) \/ v = u
  <2>1. ASSUME NEW v \in Uploads PROVE (\E i \in DOMAIN due' : due'[i] = v) <=> (\E i \in DOMAIN due : due[i] = v) \/ v = u
    <3>1. ASSUME NEW i \in DOMAIN due', due'[i] = v PROVE (\E j \in DOMAIN due : due[j] = v) \/ v = u
      BY <1>4, <3>1
    <3>2. ASSUME NEW i \in DOMAIN due, due[i] = v PROVE \E j \in DOMAIN due' : due'[j] = v
      BY <1>4, <3>2
    <3>3. v = u => \E j \in DOMAIN due' : due'[j] = v
      BY <1>4
    <3> QED
      BY <3>1, <3>2, <3>3
  <2> QED
    BY <2>1 DEF Expired, ToSet
<1>9. ClaimOK'
  <2>1. ASSUME NEW k \in Cleaners, NEW v \in claimed[k] PROVE Expired(v)'
    BY <1>1, <1>8 DEF ClaimOK, TypeOK
  <2> QED
    BY <1>2, <2>1 DEF ClaimOK
<1>10. \A v \in Uploads : Expired(v) => row[v] = "job"
  BY DEF IInv, SourceInv, UploadOK, StageOK
<1> QED
  BY <1>1, <1>2, <1>7, <1>8, <1>9, <1>10, BesideStep DEF upload

\* A pass takes rows whose period is over, and no object goes.
LEMMA ClaimStepOK == ASSUME IInv, NEW k \in Cleaners, Claim(k) PROVE IInv'
<1> DEFINE open == {u \in Uploads : Expired(u) /\ ~marked[u] /\ ~Locked(u)}
<1>1. TypeOK /\ ClaimOK
  BY DEF IInv, SourceInv
<1>2. UNCHANGED <<pc, process, file, known, keyed, sampling, putting, told, fault, object, row, due, marked,
                  removed, reader>>
  BY DEF Claim, upload
<1>3. claimed' = [claimed EXCEPT ![k] = Oldest(open)] /\ held' = [held EXCEPT ![k] = Oldest(open)]
  BY DEF Claim
<1>4. Oldest(open) \subseteq Uploads /\ \A u \in Oldest(open) : Expired(u)
  BY DEF Oldest
<1> HIDE DEF open
<1>5. claimed' \in [Cleaners -> SUBSET Uploads] /\ held' \in [Cleaners -> SUBSET Uploads]
  BY <1>1, <1>3, <1>4 DEF TypeOK
<1>6. TypeOK'
  BY <1>1, <1>2, <1>5 DEF TypeOK
<1>7. ClaimOK'
  <2>1. ASSUME NEW l \in Cleaners, NEW u \in claimed'[l] PROVE Expired(u)
    <3>1. CASE l = k
      BY <1>1, <1>3, <1>4, <2>1, <3>1 DEF TypeOK
    <3>2. CASE l # k
      BY <1>1, <1>3, <2>1, <3>2 DEF TypeOK, ClaimOK
    <3> QED
      BY <3>1, <3>2
  <2> QED
    BY <1>2, <2>1 DEF ClaimOK, Expired
<1>8. \A v \in Uploads : Expired(v) => row[v] = "job"
  BY DEF IInv, SourceInv, UploadOK, StageOK
<1> QED
  BY <1>2, <1>6, <1>7, <1>8, BesideStep DEF upload, Expired

\* A pass treats its oldest row, removing the object or not; or it ends.
LEMMA PassOK ==
    ASSUME IInv, NEW k \in Cleaners, RemoveSource(k) \/ RemoveFails(k) \/ Mark(k) \/ Abandon(k)
    PROVE  IInv'
<1>1. TypeOK /\ ClaimOK
  BY DEF IInv, SourceInv
<1>2. UNCHANGED <<pc, process, file, known, keyed, sampling, putting, told, fault, row, due, reader>>
  BY DEF RemoveSource, RemoveFails, Mark, Abandon, upload
<1>3. \A v \in Uploads : Expired(v) => row[v] = "job"
  BY DEF IInv, SourceInv, UploadOK, StageOK
<1>4. /\ marked' \in [Uploads -> BOOLEAN] /\ held' \in [Cleaners -> SUBSET Uploads]
      /\ removed' \in [Cleaners -> SUBSET Uploads]
  <2>1. CASE RemoveSource(k) \/ RemoveFails(k)
    BY <1>1, <2>1 DEF RemoveSource, RemoveFails, TypeOK
  <2>2. CASE Mark(k)
    BY <1>1, <2>2 DEF Mark, TypeOK
  <2>3. CASE Abandon(k)
    BY <1>1, <2>3 DEF Abandon, TypeOK
  <2> QED
    BY <2>1, <2>2, <2>3
<1>5. /\ claimed' \in [Cleaners -> SUBSET Uploads] /\ \A l \in Cleaners : claimed'[l] \subseteq claimed[l]
  <2>1. PICK rest \in SUBSET claimed[k] : claimed' = [claimed EXCEPT ![k] = rest] \/ claimed' = claimed
    <3>1. CASE RemoveSource(k) \/ RemoveFails(k)
      <4>1. PICK u \in Uploads : claimed' = [claimed EXCEPT ![k] = claimed[k] \ {u}]
        BY <3>1 DEF RemoveSource, RemoveFails
      <4> QED
        BY <4>1
    <3>2. CASE Mark(k)
      BY <3>2 DEF Mark
    <3>3. CASE Abandon(k)
      <4>1. claimed' = [claimed EXCEPT ![k] = {}]
        BY <3>3 DEF Abandon
      <4> QED
        BY <4>1
    <3> QED
      BY <3>1, <3>2, <3>3
  <2>2. claimed \in [Cleaners -> SUBSET Uploads]
    BY <1>1 DEF TypeOK
  <2>3. CASE claimed' = claimed
    BY <2>2, <2>3
  <2>4. CASE claimed' = [claimed EXCEPT ![k] = rest]
    <3>1. rest \in SUBSET Uploads
      BY <2>1, <2>2
    <3> QED
      BY <2>1, <2>2, <2>4, <3>1
  <2> QED
    BY <2>1, <2>3, <2>4
<1>6. /\ object' \in [Uploads -> BOOLEAN]
      /\ \A v \in Uploads : object'[v] = object[v] \/ (Expired(v) /\ object'[v] = FALSE)
  <2>1. CASE object' = object
    BY <1>1, <2>1 DEF TypeOK
  <2>2. ASSUME NEW u \in Uploads, u \in claimed[k], object' = [object EXCEPT ![u] = FALSE]
        PROVE  /\ object' \in [Uploads -> BOOLEAN]
               /\ \A v \in Uploads : object'[v] = object[v] \/ (Expired(v) /\ object'[v] = FALSE)
    BY <1>1, <2>2 DEF TypeOK, ClaimOK
  <2> QED
    BY <2>1, <2>2 DEF RemoveSource, RemoveFails, Mark, Abandon, IsFirst
<1>7. TypeOK'
  BY <1>1, <1>2, <1>4, <1>5, <1>6 DEF TypeOK
<1>8. ClaimOK'
  BY <1>1, <1>2, <1>5 DEF ClaimOK, Expired
<1> QED
  BY <1>2, <1>3, <1>6, <1>7, <1>8, BesideStep DEF upload, Expired

Seen == [upload : Uploads \cup {"none"}, outcome : {"none", "expired", "served", "missing"}]

\* A step of a reader, from what it knows afterwards.
LEMMA ReaderStep ==
    ASSUME IInv, NEW r \in Readers, NEW s \in Seen, reader' = [reader EXCEPT ![r] = s],
           UNCHANGED <<upload, object, row, due, marked, passes>>,
           s # Idle => s.upload \in Uploads /\ row[s.upload] = "job",
           s.outcome = "missing" => Expired(s.upload) \/ Doubt(s.upload)
    PROVE  IInv'
<1>1. TypeOK /\ ReaderOK /\ ClaimOK
  BY DEF IInv, SourceInv
<1>2. UNCHANGED <<pc, process, file, known, keyed, sampling, putting, told, fault, object, row, due, marked,
                  claimed, held, removed>>
  BY DEF upload, passes
<1>3. reader' \in [Readers -> Seen] /\ reader'[r] = s /\ \A q \in Readers \ {r} : reader'[q] = reader[q]
  BY <1>1 DEF TypeOK, Seen
<1>4. TypeOK'
  BY <1>1, <1>2, <1>3 DEF TypeOK, Seen
<1>5. ReaderOK'
  BY <1>1, <1>2, <1>3 DEF ReaderOK, Expired, Doubt
<1>6. ClaimOK'
  BY <1>1, <1>2 DEF ClaimOK, Expired
<1>7. \A v \in Uploads : UploadOK(v)'
  <2>1. ASSUME NEW v \in Uploads PROVE UploadOK(v)'
    <3>1. UploadOK(v) /\ Same(v) /\ Expired(v)' = Expired(v)
      BY <1>2 DEF IInv, SourceInv, Same, Expired
    <3> QED
      BY <3>1, SameKept
  <2> QED
    BY <2>1
<1> QED
  BY <1>4, <1>5, <1>6, <1>7 DEF IInv, SourceInv

\* A reader that finds no object has an excuse: the source of a job which is
\* neither over its period nor in doubt is there (RowKept).
LEMMA ReadOK ==
    ASSUME IInv, NEW r \in Readers,
           (\E u \in Uploads : LookUp(r, u) \/ Download(r, u)) \/ ReadRange(r) \/ ReaderEnds(r)
    PROVE  IInv'
<1>1. TypeOK /\ ReaderOK /\ \A u \in Uploads : UploadOK(u)
  BY DEF IInv, SourceInv
<1>2. UNCHANGED <<upload, object, row, due, marked, passes>>
  BY DEF LookUp, Download, ReadRange, ReaderEnds
<1>3. ASSUME NEW u \in Uploads, LookUp(r, u) PROVE IInv'
  <2>1. PICK o \in {"none", "expired"} : reader' = [reader EXCEPT ![r] = [upload |-> u, outcome |-> o]]
    BY <1>3 DEF LookUp
  <2>2. [upload |-> u, outcome |-> o] \in Seen /\ row[u] = "job"
    BY <1>3 DEF LookUp, Seen
  <2> QED
    BY <1>2, <2>1, <2>2, ReaderStep
<1>4. ASSUME NEW u \in Uploads, Download(r, u) PROVE IInv'
  <2>1. PICK o \in {"served", "missing"} :
            reader' = [reader EXCEPT ![r] = [upload |-> u, outcome |-> o]] /\ (o = "missing" => ~object[u])
    BY <1>4 DEF Download
  <2>2. [upload |-> u, outcome |-> o] \in Seen /\ row[u] = "job"
    BY <1>4 DEF Download, Seen
  <2>3. o = "missing" => Expired(u) \/ Doubt(u)
    BY <1>1, <2>1, <2>2 DEF UploadOK, RowKept
  <2> QED
    BY <1>2, <2>1, <2>2, <2>3, ReaderStep
<1>5. CASE ReadRange(r)
  <2>1. reader[r] # Idle
    BY <1>5 DEF ReadRange, Idle
  <2>2. PICK u \in Uploads : u = reader[r].upload /\ row[u] = "job"
    BY <1>1, <2>1 DEF ReaderOK
  <2>3. reader[r] \in Seen
    BY <1>1 DEF TypeOK, Seen
  <2>4. PICK o \in {"served", "missing"} : o = IF object[u] THEN "served" ELSE "missing"
    OBVIOUS
  <2>5. reader' = [reader EXCEPT ![r] = [reader[r] EXCEPT !.outcome = o]]
    BY <1>5, <2>2, <2>4 DEF ReadRange
  <2>6. [reader[r] EXCEPT !.outcome = o] = [upload |-> u, outcome |-> o]
    BY <2>2, <2>3 DEF Seen
  <2>7. o = "missing" => Expired(u) \/ Doubt(u)
    BY <1>1, <2>2, <2>4 DEF UploadOK, RowKept
  <2>8. [upload |-> u, outcome |-> o] \in Seen
    BY DEF Seen
  <2> QED
    BY <1>2, <2>2, <2>5, <2>6, <2>7, <2>8, ReaderStep
<1>6. CASE ReaderEnds(r)
  <2>1. reader' = [reader EXCEPT ![r] = Idle] /\ Idle \in Seen /\ Idle.outcome # "missing"
    BY <1>6 DEF ReaderEnds, Idle, Seen
  <2> QED
    BY <1>2, <2>1, ReaderStep
<1> QED
  BY <1>3, <1>4, <1>5, <1>6

-----------------------------------------------------------------------------
(* The theorems about the upload.                                          *)

\* Before anything runs there are only sources that were stored earlier.
LEMMA InitIInv == Init => IInv
<1> SUFFICES ASSUME Init PROVE IInv
  OBVIOUS
<1>1. /\ NoSampling \in [requested : Nat, everyN : Nat] /\ EveryFrame \in [requested : Nat, everyN : Nat]
      /\ EveryFrame.everyN = 1
  BY VideoUploadAssumption DEF NoSampling, EveryFrame
<1>2. sampling \in [Uploads -> [requested : Nat, everyN : Nat]] /\ \A u \in Uploads : keyed[u] => sampling[u].everyN >= 1
  <2>1. sampling = [u \in Uploads |-> IF u \in Stored THEN EveryFrame ELSE NoSampling]
    BY DEF Init
  <2>2. \A u \in Uploads : keyed[u] => u \in Stored
    BY DEF Init
  <2>3. \A u \in Uploads : sampling[u] = IF u \in Stored THEN EveryFrame ELSE NoSampling
    BY <2>1
  <2>4. \A u \in Uploads : keyed[u] => sampling[u] = EveryFrame
    BY <2>2, <2>3
  <2>5. sampling \in [Uploads -> [requested : Nat, everyN : Nat]]
    BY <1>1, <2>1
  <2> QED
    BY <1>1, <2>4, <2>5
<1>3. due \in Seq(Uploads) /\ IsInjective(due) /\ DOMAIN due = {}
  BY DEF Init, IsInjective
<1>4. /\ pc \in [Uploads -> Pcs] /\ process \in [Uploads -> {"none", "started", "failed"}]
      /\ row \in [Uploads -> RowStates] /\ told \in [Uploads -> Answers] /\ fault \in [Uploads -> SUBSET Faults]
  BY DEF Init, Pcs, RowStates, Answers, Faults
<1>5. /\ file \in [Uploads -> BOOLEAN] /\ known \in [Uploads -> BOOLEAN] /\ keyed \in [Uploads -> BOOLEAN]
      /\ putting \in [Uploads -> BOOLEAN] /\ object \in [Uploads -> BOOLEAN] /\ marked \in [Uploads -> BOOLEAN]
  BY DEF Init
<1>6. /\ claimed \in [Cleaners -> SUBSET Uploads] /\ held \in [Cleaners -> SUBSET Uploads]
      /\ removed \in [Cleaners -> SUBSET Uploads] /\ reader \in [Readers -> Seen]
  BY DEF Init, Idle, Seen
<1>7. TypeOK
  BY <1>2, <1>3, <1>4, <1>5, <1>6 DEF TypeOK, Pcs, RowStates, Answers, Faults, Seen
<1>8. \A u \in Uploads : ~Expired(u)
  BY <1>3 DEF Expired, ToSet
<1>9. ASSUME NEW u \in Uploads PROVE UploadOK(u)
  <2>1. CASE u \in Stored
    <3>1. /\ pc[u] = "done" /\ row[u] = "job" /\ told[u] = "ok" /\ object[u] = TRUE /\ file[u] = FALSE
          /\ known[u] = TRUE /\ keyed[u] = TRUE /\ putting[u] = FALSE
      BY <2>1 DEF Init
    <3> QED
      BY <1>8, <3>1 DEF UploadOK, StageOK, RowKept, DeleteOK, TidyOK
  <2>2. CASE u \notin Stored
    <3>1. /\ pc[u] = "idle" /\ row[u] = "none" /\ told[u] = "none" /\ ~object[u] /\ ~file[u] /\ ~putting[u]
      BY <2>2 DEF Init
    <3>2. StageOK(u) /\ RowKept(u) /\ DeleteOK(u)
      BY <1>8, <3>1 DEF StageOK, RowKept, DeleteOK
    <3>3. TidyOK(u)
      BY <3>1 DEF TidyOK
    <3> QED
      BY <3>2, <3>3 DEF UploadOK
  <2> QED
    BY <2>1, <2>2
<1>10. ClaimOK /\ ReaderOK
  BY DEF Init, ClaimOK, ReaderOK, Idle
<1> QED
  BY <1>7, <1>9, <1>10 DEF IInv, SourceInv

\* Every step keeps the invariant.
LEMMA NextIInv == IInv /\ [Next]_vars => IInv'
<1> SUFFICES ASSUME IInv, [Next]_vars PROVE IInv'
  OBVIOUS
<1>1. ASSUME NEW u \in Uploads,
             SubmitStep(u) \/ PutEnds(u) \/ Settle(u) \/ Cancel(u) \/ Die(u) \/ Expire(u)
      PROVE  IInv'
  BY <1>1, SubmitOK, StreamOK, ProbeOK, PutOK, StoreOK, SettleOK, FailOK, CancelOK, UnlinkOK, CheckOK,
     DeleteStepOK, DieOK, ExpireOK, Zenon DEF SubmitStep
<1>2. ASSUME NEW k \in Cleaners, Claim(k) \/ RemoveSource(k) \/ RemoveFails(k) \/ Mark(k) \/ Abandon(k)
      PROVE  IInv'
  BY <1>2, ClaimStepOK, PassOK
<1>3. ASSUME NEW r \in Readers,
             (\E u \in Uploads : LookUp(r, u) \/ Download(r, u)) \/ ReadRange(r) \/ ReaderEnds(r)
      PROVE  IInv'
  BY <1>3, ReadOK
<1>4. CASE UNCHANGED vars
  <2>1. UNCHANGED <<pc, process, file, known, keyed, sampling, putting, object, row, told,
                    fault, due, marked, claimed, held, removed, reader>>
    BY <1>4 DEF vars
  <2>2. TypeOK'
    BY <2>1 DEF IInv, TypeOK
  <2>3. ClaimOK'
    BY <2>1 DEF IInv, SourceInv, ClaimOK, Expired
  <2>4. \A v \in Uploads : Expired(v) => row[v] = "job"
    BY DEF IInv, SourceInv, UploadOK, StageOK
  <2> QED
    BY <2>1, <2>2, <2>3, <2>4, BesideStep DEF upload, Expired
<1> QED
  BY <1>1, <1>2, <1>3, <1>4 DEF Next

\* The inductive invariant, for every number of uploads, workers and readers and
\* every bound of a pass.
THEOREM Invariance == Spec => []IInv
BY InitIInv, NextIInv, PTL DEF Spec

\* The variables keep their types; among them every sampling that an upload
\* settled on takes at least every first frame.
THEOREM TypeCorrect == Spec => []TypeOK
<1>1. IInv => TypeOK
  BY DEF IInv
<1> QED
  BY <1>1, Invariance, PTL

\* A job within its retention period has its source, and no reader misses one
\* without reason: the finally clause of submit, the passes of all workers and
\* the readers may interleave in any way.
THEOREM Backed == Spec => []SourceBacked
<1>1. IInv => SourceBacked
  <2> SUFFICES ASSUME IInv PROVE SourceBacked
    OBVIOUS
  <2>1. \A u \in Uploads : row[u] = "job" /\ ~Expired(u) /\ "doubt" \notin fault[u] => object[u]
    BY DEF IInv, SourceInv, UploadOK, RowKept, Doubt
  <2>2. \A r \in Readers : reader[r].outcome = "missing" =>
            Expired(reader[r].upload) \/ "doubt" \in fault[reader[r].upload]
    BY DEF IInv, SourceInv, ReaderOK, Doubt
  <2> QED
    BY <2>1, <2>2 DEF SourceBacked
<1> QED
  BY <1>1, Invariance, PTL

\* An upload that has ended leaves no file, no object without its job and no job
\* behind an error, but for the faults that submit records.
THEOREM NothingLeft == Spec => []LeavesNothing
<1>1. IInv => LeavesNothing
  <2> SUFFICES ASSUME IInv, NEW u \in Uploads
               PROVE  /\ told[u] = "ok" => row[u] = "job"
                      /\ told[u] = "error" /\ row[u] = "job" => "answer" \in fault[u]
                      /\ At(u, "done") =>
                            /\ file[u] => "file" \in fault[u]
                            /\ object[u] => row[u] = "job" \/ {"object", "answer"} \cap fault[u] # {}
    BY DEF LeavesNothing
  <2>1. TidyOK(u)
    BY DEF IInv, SourceInv, UploadOK
  <2> QED
    BY <2>1 DEF TidyOK, At
<1> QED
  BY <1>1, Invariance, PTL

-----------------------------------------------------------------------------
(* The analysis.                                                           *)

\* The native process got to the end of the stream and has a result, which it may be
\* about to write or has written.
Whole == main \in {"emit", "return"} \/ (main = "exited" /\ code = 0)

EndOK ==
    /\ sawEos => stream = "eos"
    /\ Whole => sawEos /\ ~errored
    /\ main # "exited" => code = 0

\* Events are those of the accumulator as it is, and nothing comes after the completed
\* event.
EventsOK ==
    /\ main \in {"start", "loop", "quit"} =>
          pipe = << >> /\ left = << >> /\ got = NoTracks /\ completed = -1
    /\ \A t \in Trackers : got[t] \in {{}, acc[t]}
    /\ \A i \in DOMAIN pipe : pipe[i].type = "track" => pipe[i] = TrackEvent(pipe[i].id)
    /\ \A i \in DOMAIN pipe : pipe[i].type = "completed" =>
          /\ pipe[i].frames = frame /\ i = Len(pipe)
          /\ left = << >> /\ main \in {"return", "exited"}
    /\ completed # -1 =>
          /\ completed = frame /\ pipe = << >>
          /\ left = << >> /\ main \in {"return", "exited"}

\* A track of a whole result is still to be written, on its way, or read.
Sent(t) == t \in ToSet(left) \/ got[t] = acc[t] \/ \E i \in DOMAIN pipe : pipe[i] = TrackEvent(t)
SentOK == Whole /\ job # "failed" => \A t \in Trackers : acc[t] # {} => Sent(t)

FinalOK == job \in {"finalize", "done"} => main = "exited" /\ code = 0 /\ completed # -1

\* The tracks of a person have frames, no longer wait, are apart and alike.
PersonOK(person, of, waiting) ==
    /\ \A i \in DOMAIN person.sources :
          /\ of[person.sources[i]] # {} /\ of[person.sources[i]] \subseteq person.frames
          /\ person.sources[i] \notin waiting
    /\ \A i, j \in DOMAIN person.sources : i # j =>
          /\ ~Overlaps(of[person.sources[i]], of[person.sources[j]])
          /\ Cosine[person.sources[i]][person.sources[j]] >= Reconciliation

\* Each track that was read waits once or belongs to one person.
PersonsOK ==
    job \in {"finalize", "done"} =>
        /\ \A i \in DOMAIN raws : got[raws[i]] # {}
        /\ \A i, j \in DOMAIN raws : i # j => raws[i] # raws[j]
        /\ \A k \in DOMAIN persons : PersonOK(persons[k], got, ToSet(raws))
        /\ \A k, l \in DOMAIN persons :
              k # l => ToSet(persons[k].sources) \cap ToSet(persons[l].sources) = {}
        /\ \A t \in Trackers : got[t] # {} =>
              t \in ToSet(raws) \/ \E k \in DOMAIN persons : t \in ToSet(persons[k].sources)

\* Votes follow the persons and faces the votes, so that a vote knows the faces of
\* earlier attempts only.
VotesOK ==
    job \in {"native", "finalize", "done"} =>
        /\ job = "native" => raws = << >> /\ persons = << >> /\ decisions = << >> /\ faces = << >>
        /\ raws # << >> => decisions = << >> /\ faces = << >>
        /\ faces # << >> => Len(decisions) = Len(persons)
        /\ Len(decisions) <= Len(persons) /\ Len(faces) <= Len(persons)
        /\ faces = << >> => made = older
        /\ \A k \in DOMAIN decisions : decisions[k] \in Known \cup Anonymous \cup older \cup {Nobody}

FacesOK ==
    job \in {"native", "finalize", "done"} =>
        /\ \A k \in DOMAIN faces :
              faces[k] = OwnFace(k) \/ (faces[k] = decisions[k] /\ decisions[k] # Nobody)
        /\ \A j, k \in DOMAIN faces :
              j # k /\ faces[j] = faces[k] /\ faces[j] \notin older =>
                  ~Overlaps(persons[j].frames, persons[k].frames)

AInv ==
    /\ AnalysisTypeOK /\ EndOK /\ EventsOK /\ SentOK /\ FinalOK
    /\ PersonsOK /\ VotesOK /\ FacesOK

-----------------------------------------------------------------------------
(* First and last frames, and the order of the tracks.                     *)

Clip == SUBSET (0..Frames - 1)

\* The frames of a track are numbers below the number of frames.
LEMMA ClipNumbers ==
    ASSUME NEW S \in Clip
    PROVE  Frames \in Nat /\ S \in SUBSET Nat /\ \A n \in S : n \in Nat /\ n < Frames
<1>1. Frames \in Nat
  BY VideoAnalysisAssumption
<1> QED
  BY <1>1 DEF Clip

\* A set of numbers that is not empty has a first one.
LEMMA FirstOf ==
    ASSUME NEW S \in SUBSET Nat, S # {}
    PROVE  Min(S) \in S /\ \A n \in S : Min(S) <= n
<1>1. PICK m \in S : \A n \in S : ~(<<n, m>> \in OpToRel(<, Nat))
  BY NatLessThanWellFounded, WFMin
<1>2. \A n \in S : m <= n
  <2>1. ASSUME NEW n \in S PROVE m <= n
    <3>1. <<n, m>> \in Nat \X Nat /\ <<n, m>>[1] = n /\ <<n, m>>[2] = m
      OBVIOUS
    <3>2. ~(n < m)
      BY <1>1, <3>1 DEF OpToRel
    <3> QED
      BY <3>2
  <2> QED
    BY <2>1
<1> QED
  BY <1>2 DEF Min

\* A bounded set of numbers that is not empty has a last one.
LEMMA LastOf ==
    ASSUME NEW S \in Clip, S # {}
    PROVE  Max(S) \in S /\ \A n \in S : n <= Max(S)
<1>1. Frames \in Nat /\ \A n \in S : n \in Nat /\ n < Frames
  BY ClipNumbers
<1> DEFINE rest == {Frames - n : n \in S}
<1>2. rest \in SUBSET Nat /\ rest # {}
  <2>1. \A n \in S : Frames - n \in Nat
    BY <1>1
  <2> QED
    BY <2>1
<1>3. Min(rest) \in rest /\ \A n \in rest : Min(rest) <= n
  BY <1>2, FirstOf
<1>4. PICK m \in S : Min(rest) = Frames - m
  BY <1>3
<1>5. \A n \in S : n <= m
  <2>1. ASSUME NEW n \in S PROVE n <= m
    <3>1. Frames - m <= Frames - n
      BY <1>3, <1>4
    <3> QED
      BY <1>1, <3>1
  <2> QED
    BY <2>1
<1> QED
  BY <1>5 DEF Max

\* What overlaps a part overlaps the whole, and overlapping is mutual.
LEMMA OverlapsPart ==
    ASSUME NEW part \in Clip, NEW whole \in Clip, NEW other \in Clip,
           part # {}, other # {}, part \subseteq whole, ~Overlaps(whole, other)
    PROVE  ~Overlaps(part, other) /\ ~Overlaps(other, part)
<1>1. /\ Min(part) \in part /\ Min(whole) \in whole /\ Min(other) \in other
      /\ \A n \in whole : Min(whole) <= n
  <2>1. part \in SUBSET Nat /\ whole \in SUBSET Nat /\ other \in SUBSET Nat /\ whole # {}
    BY ClipNumbers
  <2> QED
    BY <2>1, FirstOf
<1>2. /\ Max(part) \in part /\ Max(whole) \in whole /\ Max(other) \in other
      /\ \A n \in whole : n <= Max(whole)
  <2>1. whole # {}
    OBVIOUS
  <2> QED
    BY <2>1, LastOf
<1>3. /\ Min(part) \in Nat /\ Min(whole) \in Nat /\ Min(other) \in Nat
      /\ Max(part) \in Nat /\ Max(whole) \in Nat /\ Max(other) \in Nat
  BY <1>1, <1>2, ClipNumbers
<1>4. Min(whole) <= Min(part) /\ Max(part) <= Max(whole)
  BY <1>1, <1>2
<1> QED
  BY <1>3, <1>4 DEF Overlaps

\* A track is not earlier than itself.
LEMMA EarlierStrict ==
    ASSUME NEW of \in [Trackers -> Clip], NEW t \in Trackers, of[t] # {}
    PROVE  ~Earlier(of, t, t)
<1>1. Min(of[t]) \in Nat /\ t \in Nat
  <2>1. of[t] \in SUBSET Nat
    BY ClipNumbers
  <2> QED
    BY <2>1, FirstOf, VideoAnalysisAssumption
<1> QED
  BY <1>1 DEF Earlier

\* The order of the tracks names each track that has frames once.
LEMMA OrderedTracks ==
    ASSUME NEW of \in [Trackers -> Clip], NEW order \in Ordered(of)
    PROVE  /\ order \in Seq(Trackers)
           /\ ToSet(order) = {t \in Trackers : of[t] # {}}
           /\ \A i, j \in DOMAIN order : i # j => order[i] # order[j]
<1> DEFINE tracks == {t \in Trackers : of[t] # {}}
           n == Cardinality(tracks)
<1>1. IsFiniteSet(tracks) /\ n \in Nat
  <2>1. IsFiniteSet(Trackers) /\ tracks \in SUBSET Trackers
    BY VideoAnalysisAssumption
  <2> QED
    BY <2>1, FS_Subset, FS_CardinalityType
<1>2. order \in [1..n -> tracks] /\ \A i, j \in 1..n : i < j => Earlier(of, order[i], order[j])
  BY DEF Ordered
<1>3. \A t \in tracks : ~Earlier(of, t, t)
  BY EarlierStrict
<1> HIDE DEF tracks
<1>4. \A i, j \in 1..n : i # j => order[i] # order[j]
  <2>1. ASSUME NEW i \in 1..n, NEW j \in 1..n, i < j PROVE order[i] # order[j]
    BY <1>2, <1>3, <2>1
  <2>2. \A i, j \in 1..n : i # j => i < j \/ j < i
    BY <1>1
  <2> QED
    BY <2>1, <2>2
<1>5. order \in Injection(1..n, tracks)
  BY <1>2, <1>4 DEF Injection, IsInjective
<1>6. Cardinality(1..n) = n
  BY <1>1, FS_Interval
<1>7. order \in Surjection(1..n, tracks)
  BY <1>1, <1>5, <1>6, FS_Injection
<1>8. ToSet(order) = tracks
  BY <1>2, <1>7 DEF Surjection, ToSet
<1>9. order \in Seq(Trackers) /\ DOMAIN order = 1..n
  <2>1. tracks \subseteq Trackers
    BY DEF tracks
  <2>2. order \in [1..n -> Trackers]
    BY <1>2, <2>1
  <2> QED
    BY <1>1, <2>2
<1> QED
  BY <1>4, <1>8, <1>9 DEF tracks

-----------------------------------------------------------------------------
(* The steps of the native process.                                        *)

\* While it runs, nothing is finalized.
LEMMA ResultKept ==
    ASSUME AInv, job = "native", UNCHANGED <<source, attempt, job, reading, finalization>>
    PROVE  FinalOK' /\ PersonsOK' /\ VotesOK' /\ FacesOK'
<1>1. UNCHANGED <<job, raws, persons, decisions, faces, made, older>>
  BY DEF finalization
<1>2. FinalOK' /\ PersonsOK'
  BY <1>1 DEF FinalOK, PersonsOK
<1>3. VotesOK'
  BY <1>1 DEF AInv, VotesOK
<1>4. faces = << >>
  BY DEF AInv, VotesOK
<1>5. FacesOK'
  BY <1>1, <1>4 DEF FacesOK
<1> QED
  BY <1>2, <1>3, <1>5

\* A step of which the events and the accumulator know nothing.
LEMMA QuietOK ==
    ASSUME AInv, job = "native",
           UNCHANGED <<source, attempt, job, frame, acc, left, pipe, reading, finalization>>,
           main' \in {"start", "loop", "quit", "emit", "return", "exited"},
           stream' \in {"flowing", "eos", "error"}, code' \in {0, 1, 3, 9},
           sawEos' \in BOOLEAN, errored' \in BOOLEAN, cancel' \in BOOLEAN,
           EndOK', Whole' => Whole,
           main' \in {"start", "loop", "quit"} => main \in {"start", "loop", "quit"},
           main \in {"return", "exited"} => main' \in {"return", "exited"}
    PROVE  AInv'
<1>1. UNCHANGED <<got, completed>> /\ UNCHANGED <<raws, persons, decisions, faces, made, older>>
  BY DEF reading, finalization
<1>2. AnalysisTypeOK'
  BY <1>1 DEF AInv, AnalysisTypeOK
<1>3. EventsOK'
  <2>1. EventsOK
    BY DEF AInv
  <2> QED
    BY <1>1, <2>1 DEF EventsOK, TrackEvent
<1>4. SentOK'
  <2>1. ASSUME Whole', NEW t \in Trackers, acc'[t] # {} PROVE Sent(t)'
    <3>1. Sent(t)
      BY <2>1 DEF AInv, SentOK
    <3> QED
      BY <1>1, <3>1 DEF Sent, TrackEvent
  <2> QED
    BY <2>1 DEF SentOK
<1> QED
  BY <1>2, <1>3, <1>4, ResultKept DEF AInv

\* The stream ends, a pad fails, a signal comes, the loop is left, the process dies:
\* only main() and its flags are concerned.
LEMMA FlagsOK ==
    ASSUME AInv, job = "native",
           StreamEnds \/ OnDecodePad \/ Signal \/ OnBus \/ OnCancelWatch \/ Return \/ Killed
    PROVE  AInv'
<1>1. /\ UNCHANGED <<source, attempt, job, frame, acc, left, pipe, reading, finalization>>
  BY DEF StreamEnds, OnDecodePad, Signal, OnBus, OnCancelWatch, Return, Killed, Exit
<1>2. AnalysisTypeOK /\ EndOK
  BY DEF AInv
<1>3. /\ main' \in {"start", "loop", "quit", "emit", "return", "exited"}
      /\ stream' \in {"flowing", "eos", "error"} /\ code' \in {0, 1, 3, 9}
      /\ sawEos' \in BOOLEAN /\ errored' \in BOOLEAN /\ cancel' \in BOOLEAN
  BY <1>2 DEF StreamEnds, OnDecodePad, Signal, OnBus, OnCancelWatch, Return, Killed, Exit,
              Streaming, AnalysisTypeOK
<1>4. Whole' => Whole
  BY <1>2 DEF StreamEnds, OnDecodePad, Signal, OnBus, OnCancelWatch, Return, Killed, Exit,
              Streaming, Whole
<1>5. EndOK'
  BY <1>2 DEF StreamEnds, OnDecodePad, Signal, OnBus, OnCancelWatch, Return, Killed, Exit,
              Streaming, Whole, EndOK, AnalysisTypeOK
<1>6. /\ main' \in {"start", "loop", "quit"} => main \in {"start", "loop", "quit"}
      /\ main \in {"return", "exited"} => main' \in {"return", "exited"}
  BY DEF StreamEnds, OnDecodePad, Signal, OnBus, OnCancelWatch, Return, Killed, Exit, Streaming
<1> QED
  BY <1>1, <1>3, <1>4, <1>5, <1>6, QuietOK

\* Detections are added before there is an event.
LEMMA ResultBufferOK == ASSUME AInv, job = "native", OnResultBuffer PROVE AInv'
<1>1. AnalysisTypeOK /\ EndOK /\ EventsOK
  BY DEF AInv
<1>2. /\ UNCHANGED <<source, attempt, job, main, stream, sawEos, errored, cancel, left, code, pipe>>
      /\ UNCHANGED <<reading, finalization>>
      /\ main \in {"start", "loop", "quit"} /\ frame < Frames /\ frame' = frame + 1
  BY DEF OnResultBuffer, Streaming
<1>3. UNCHANGED <<got, completed>> /\ UNCHANGED <<raws, persons, decisions, faces, made, older>>
  BY <1>2 DEF reading, finalization
<1>4. Frames \in Nat /\ frame \in 0..Frames
  BY <1>1, VideoAnalysisAssumption DEF AnalysisTypeOK
<1>5. frame' \in 0..Frames
  BY <1>2, <1>4
<1>6. acc' \in [Trackers -> Clip]
  <2>1. PICK objects : acc' = [t \in Trackers |-> acc[t] \cup {f \in {frame} : t \in objects}]
    BY DEF OnResultBuffer, Accumulate
  <2>2. frame \in 0..Frames - 1
    BY <1>2, <1>4
  <2>3. \A t \in Trackers : acc[t] \cup {f \in {frame} : t \in objects} \in Clip
    BY <1>1, <2>2 DEF AnalysisTypeOK, Clip
  <2> QED
    BY <2>1, <2>3
<1>7. AnalysisTypeOK'
  BY <1>1, <1>2, <1>3, <1>5, <1>6 DEF AnalysisTypeOK, Clip
<1>8. EndOK' /\ SentOK'
  <2>1. ~Whole /\ ~Whole'
    BY <1>2 DEF Whole
  <2> QED
    BY <1>1, <1>2, <2>1 DEF EndOK, SentOK
<1>9. EventsOK'
  <2>1. pipe' = << >> /\ left' = << >> /\ got' = NoTracks /\ completed' = -1
    BY <1>1, <1>2, <1>3 DEF EventsOK
  <2>2. \A t \in Trackers : got'[t] = {}
    BY <2>1 DEF NoTracks
  <2> QED
    BY <2>1, <2>2 DEF EventsOK
<1> QED
  BY <1>2, <1>7, <1>8, <1>9, ResultKept DEF AInv

\* The failed event is the last one.
LEMMA ThrowOK ==
    ASSUME AInv, job = "native", Throw, main # "exited", main # "return",
           UNCHANGED <<source, attempt, job, stream, frame, acc, sawEos, errored, cancel, left>>,
           UNCHANGED <<reading, finalization>>
    PROVE  AInv'
<1>1. AnalysisTypeOK /\ EndOK /\ EventsOK
  BY DEF AInv
<1>2. pipe' = Append(pipe, [type |-> "failed"]) /\ main' = "exited" /\ code' = 1
  BY DEF Throw, Exit
<1>3. UNCHANGED <<got, completed>> /\ UNCHANGED <<raws, persons, decisions, faces, made, older>>
  BY DEF reading, finalization
<1>4. pipe \in Seq(Event) /\ pipe' \in Seq(Event)
  BY <1>1, <1>2 DEF AnalysisTypeOK, Event
<1>5. AnalysisTypeOK'
  BY <1>1, <1>2, <1>3, <1>4 DEF AnalysisTypeOK
<1>6. EndOK' /\ SentOK'
  BY <1>1, <1>2 DEF EndOK, Whole, SentOK
<1>7. completed = -1 /\ \A i \in DOMAIN pipe : pipe[i].type # "completed"
  BY <1>1 DEF EventsOK
<1>8. \A i \in DOMAIN pipe' : pipe'[i] = [type |-> "failed"] \/ (i \in DOMAIN pipe /\ pipe'[i] = pipe[i])
  BY <1>2, <1>4
<1>9. EventsOK'
  <2>1. \A i \in DOMAIN pipe' : pipe'[i].type # "completed"
    BY <1>7, <1>8
  <2>2. ASSUME NEW i \in DOMAIN pipe'
        PROVE  (pipe[i].type = "track" => pipe[i] = TrackEvent(pipe[i].id))'
    <3>1. CASE pipe'[i] = [type |-> "failed"]
      BY <3>1
    <3>2. CASE i \in DOMAIN pipe /\ pipe'[i] = pipe[i]
      BY <1>1, <3>2 DEF EventsOK, TrackEvent
    <3> QED
      BY <1>8, <3>1, <3>2
  <2>3. /\ main' \notin {"start", "loop", "quit"} /\ completed' = -1
        /\ \A t \in Trackers : got'[t] \in {{}, acc'[t]}
    BY <1>1, <1>2, <1>3, <1>7 DEF EventsOK
  <2> QED
    BY <2>1, <2>2, <2>3 DEF EventsOK
<1> QED
  BY <1>5, <1>6, <1>9, ResultKept DEF AInv

LEMMA PlayOK == ASSUME AInv, job = "native", Play PROVE AInv'
<1>1. /\ UNCHANGED <<source, attempt, job, stream, frame, acc, sawEos, errored, cancel, left>>
      /\ UNCHANGED <<reading, finalization>> /\ main = "start"
  BY DEF Play
<1>2. CASE main' = "loop" /\ UNCHANGED <<pipe, code>>
  <2>1. AnalysisTypeOK /\ EndOK
    BY DEF AInv
  <2>2. EndOK' /\ ~Whole'
    BY <1>1, <1>2, <2>1 DEF EndOK, Whole
  <2> QED
    BY <1>1, <1>2, <2>1, <2>2, QuietOK DEF AnalysisTypeOK
<1>3. CASE Throw
  BY <1>1, <1>3, ThrowOK
<1> QED
  BY <1>2, <1>3 DEF Play

\* A result is written only of a stream that has ended without an error, and it names
\* each track of the accumulator.
LEMMA AfterLoopOK == ASSUME AInv, job = "native", AfterLoop PROVE AInv'
<1>1. AnalysisTypeOK /\ EndOK /\ EventsOK
  BY DEF AInv
<1>2. /\ UNCHANGED <<source, attempt, job, stream, frame, sawEos, errored, cancel>>
      /\ UNCHANGED <<reading, finalization>> /\ main = "quit"
  BY DEF AfterLoop
<1>3. CASE cancel /\ Exit(3) /\ UNCHANGED <<acc, left, pipe>>
  <2>1. EndOK' /\ ~Whole' /\ main' = "exited" /\ code' = 3
    BY <1>1, <1>2, <1>3 DEF EndOK, Whole, Exit
  <2> QED
    BY <1>1, <1>2, <1>3, <2>1, QuietOK DEF AnalysisTypeOK
<1>4. CASE Throw /\ UNCHANGED <<acc, left>>
  BY <1>2, <1>4, ThrowOK
<1>5. CASE ~errored /\ sawEos /\ Finish /\ main' = "emit" /\ UNCHANGED <<pipe, code>>
  <2>1. UNCHANGED <<got, completed>> /\ UNCHANGED <<raws, persons, decisions, faces, made, older>>
    BY <1>2 DEF reading, finalization
  <2>2. PICK void \in SUBSET Trackers :
           /\ acc' = [t \in Trackers |-> IF t \in void THEN {} ELSE acc[t]]
           /\ left' \in Ordered(acc')
    BY <1>5 DEF Finish
  <2>3. acc' \in [Trackers -> Clip]
    BY <1>1, <2>2 DEF AnalysisTypeOK, Clip
  <2>4. left' \in Seq(Trackers) /\ ToSet(left') = {t \in Trackers : acc'[t] # {}}
    <3>1. PICK of \in [Trackers -> Clip] : of = acc'
      BY <2>3
    <3>2. PICK order \in Ordered(of) : order = left'
      BY <2>2, <3>1
    <3> QED
      BY <3>1, <3>2, OrderedTracks
  <2>5. AnalysisTypeOK'
    BY <1>1, <1>2, <1>5, <2>1, <2>3, <2>4 DEF AnalysisTypeOK, Clip
  <2>6. EndOK'
    BY <1>1, <1>2, <1>5 DEF EndOK
  <2>7. pipe' = << >> /\ got' = NoTracks /\ completed' = -1
    BY <1>1, <1>2, <1>5, <2>1 DEF EventsOK
  <2>8. EventsOK'
    <3>1. \A t \in Trackers : got'[t] = {}
      BY <2>7 DEF NoTracks
    <3> QED
      BY <1>5, <2>7, <3>1 DEF EventsOK
  <2>9. SentOK'
    BY <2>4 DEF SentOK, Sent
  <2> QED
    BY <1>2, <2>5, <2>6, <2>8, <2>9, ResultKept DEF AInv
<1> QED
  BY <1>3, <1>4, <1>5 DEF AfterLoop

\* A track goes from the list to the pipe.
LEMMA EmitTrackOK == ASSUME AInv, job = "native", EmitTrack PROVE AInv'
<1>1. AnalysisTypeOK /\ EndOK /\ EventsOK /\ SentOK
  BY DEF AInv
<1>2. /\ UNCHANGED <<source, attempt, job, stream, frame, acc, sawEos, errored, cancel>>
      /\ UNCHANGED <<reading, finalization>> /\ main = "emit" /\ left # << >>
  BY DEF EmitTrack
<1>3. CASE Throw /\ UNCHANGED left
  BY <1>2, <1>3, ThrowOK
<1>4. CASE /\ pipe' = Append(pipe, TrackEvent(Head(left))) /\ left' = Tail(left)
           /\ UNCHANGED <<main, code>>
  <2>1. UNCHANGED <<got, completed>> /\ UNCHANGED <<raws, persons, decisions, faces, made, older>>
    BY <1>2 DEF reading, finalization
  <2>2. PICK t \in Trackers : t = Head(left)
    BY <1>1, <1>2 DEF AnalysisTypeOK
  <2>3. PICK event \in Event : event = TrackEvent(t)
    <3>1. acc[t] \in SUBSET Nat
      <4>1. acc[t] \in Clip
        BY <1>1 DEF AnalysisTypeOK, Clip
      <4> QED
        BY <4>1, ClipNumbers
    <3> QED
      BY <3>1 DEF TrackEvent, Event
  <2>4. event.type = "track" /\ event.id = t
    BY <2>3 DEF TrackEvent
  <2>5. pipe \in Seq(Event) /\ pipe' = Append(pipe, event)
    BY <1>1, <1>4, <2>2, <2>3 DEF AnalysisTypeOK
  <2>6. /\ pipe' \in Seq(Event) /\ Len(pipe') = Len(pipe) + 1 /\ pipe'[Len(pipe')] = event
        /\ \A i \in DOMAIN pipe : i \in DOMAIN pipe' /\ pipe'[i] = pipe[i]
        /\ Len(pipe') \in DOMAIN pipe'
        /\ \A i \in DOMAIN pipe' : i \in DOMAIN pipe \/ i = Len(pipe')
    BY <2>5
  <2>7. left \in Seq(Trackers) /\ left' \in Seq(Trackers) /\ ToSet(left) \subseteq ToSet(left') \cup {t}
    <3>1. left \in Seq(Trackers) /\ left' = Tail(left) /\ t = Head(left) /\ left # << >>
      BY <1>1, <1>2, <1>4, <2>2 DEF AnalysisTypeOK
    <3>2. ASSUME NEW i \in DOMAIN left PROVE left[i] \in ToSet(left') \cup {t}
      <4>1. CASE i = 1
        BY <3>1, <4>1
      <4>2. CASE i # 1
        <5>1. i - 1 \in DOMAIN left' /\ left'[i - 1] = left[i]
          BY <3>1, <4>2
        <5> QED
          BY <5>1 DEF ToSet
      <4> QED
        BY <4>1, <4>2
    <3> QED
      BY <3>1, <3>2 DEF ToSet
  <2>8. AnalysisTypeOK'
    BY <1>1, <1>2, <1>4, <2>1, <2>6, <2>7 DEF AnalysisTypeOK
  <2>9. EndOK'
    BY <1>1, <1>2, <1>4 DEF EndOK, Whole
  <2>10. completed = -1 /\ \A i \in DOMAIN pipe : pipe[i].type # "completed"
    BY <1>1, <1>2 DEF EventsOK
  <2>11. EventsOK'
    <3>1. \A i \in DOMAIN pipe' : pipe'[i].type # "completed"
      BY <2>4, <2>6, <2>10
    <3>2. ASSUME NEW i \in DOMAIN pipe'
          PROVE  (pipe[i].type = "track" => pipe[i] = TrackEvent(pipe[i].id))'
      <4>1. CASE i \in DOMAIN pipe
        BY <1>1, <1>2, <2>6, <4>1 DEF EventsOK, TrackEvent
      <4>2. CASE pipe'[i] = event
        BY <1>2, <2>3, <2>4, <4>2 DEF TrackEvent
      <4> QED
        BY <2>6, <4>1, <4>2
    <3>3. /\ main' \notin {"start", "loop", "quit"} /\ completed' = -1
          /\ \A u \in Trackers : got'[u] \in {{}, acc'[u]}
      BY <1>1, <1>2, <1>4, <2>1, <2>10 DEF EventsOK
    <3> QED
      BY <3>1, <3>2, <3>3 DEF EventsOK
  <2>12. SentOK'
    <3>1. ASSUME NEW u \in Trackers, acc'[u] # {} PROVE Sent(u)'
      <4>1. Sent(u)
        BY <1>1, <1>2, <3>1 DEF SentOK, Whole
      <4>2. CASE u \in ToSet(left) /\ u # t
        BY <2>7, <4>2 DEF Sent
      <4>3. CASE u = t
        <5>1. pipe'[Len(pipe')] = TrackEvent(u)'
          BY <1>2, <2>3, <2>6, <4>3 DEF TrackEvent
        <5> QED
          BY <2>6, <5>1 DEF Sent
      <4>4. CASE got[u] = acc[u]
        BY <1>2, <2>1, <4>4 DEF Sent
      <4>5. CASE \E i \in DOMAIN pipe : pipe[i] = TrackEvent(u)
        BY <1>2, <2>6, <4>5 DEF Sent, TrackEvent
      <4> QED
        BY <4>1, <4>2, <4>3, <4>4, <4>5 DEF Sent
    <3> QED
      BY <3>1 DEF SentOK
  <2> QED
    BY <1>2, <2>8, <2>9, <2>11, <2>12, ResultKept DEF AInv
<1> QED
  BY <1>3, <1>4 DEF EmitTrack

\* Once the list is empty the completed event closes the result.
LEMMA EmitCompletedOK == ASSUME AInv, job = "native", EmitCompleted PROVE AInv'
<1>1. AnalysisTypeOK /\ EndOK /\ EventsOK /\ SentOK
  BY DEF AInv
<1>2. /\ UNCHANGED <<source, attempt, job, stream, frame, acc, sawEos, errored, cancel, left, code>>
      /\ UNCHANGED <<reading, finalization>> /\ main = "emit" /\ left = << >> /\ main' = "return"
  BY DEF EmitCompleted
<1>3. UNCHANGED <<got, completed>> /\ UNCHANGED <<raws, persons, decisions, faces, made, older>>
  BY <1>2 DEF reading, finalization
<1>4. PICK event \in Event : event = [type |-> "completed", frames |-> frame]
  <2>1. frame \in Nat
    BY <1>1, VideoAnalysisAssumption DEF AnalysisTypeOK
  <2> QED
    BY <2>1 DEF Event
<1>5. event.type = "completed" /\ event.frames = frame
  BY <1>4
<1>6. pipe \in Seq(Event) /\ pipe' = Append(pipe, event)
  BY <1>1, <1>4 DEF EmitCompleted, AnalysisTypeOK
<1>7. /\ pipe' \in Seq(Event) /\ Len(pipe') = Len(pipe) + 1 /\ pipe'[Len(pipe')] = event
      /\ \A i \in DOMAIN pipe : i \in DOMAIN pipe' /\ pipe'[i] = pipe[i]
      /\ Len(pipe') \in DOMAIN pipe'
      /\ \A i \in DOMAIN pipe' : i \in DOMAIN pipe \/ i = Len(pipe')
  BY <1>6
<1>8. AnalysisTypeOK'
  BY <1>1, <1>2, <1>3, <1>7 DEF AnalysisTypeOK
<1>9. EndOK' /\ (Whole' => Whole)
  BY <1>1, <1>2 DEF EndOK, Whole
<1>10. completed = -1 /\ \A i \in DOMAIN pipe : pipe[i].type # "completed"
  BY <1>1, <1>2 DEF EventsOK
<1>11. EventsOK'
  <2>1. \A i \in DOMAIN pipe' : pipe'[i].type = "completed" => i = Len(pipe') /\ pipe'[i].frames = frame
    BY <1>5, <1>7, <1>10
  <2>2. ASSUME NEW i \in DOMAIN pipe'
        PROVE  (pipe[i].type = "track" => pipe[i] = TrackEvent(pipe[i].id))'
    <3>1. CASE i \in DOMAIN pipe
      BY <1>1, <1>2, <1>7, <3>1 DEF EventsOK, TrackEvent
    <3>2. CASE pipe'[i] = event
      BY <1>5, <3>2
    <3> QED
      BY <1>7, <3>1, <3>2
  <2>3. \A t \in Trackers : got'[t] \in {{}, acc'[t]}
    BY <1>1, <1>2, <1>3 DEF EventsOK
  <2> QED
    BY <1>2, <1>3, <1>10, <2>1, <2>2, <2>3 DEF EventsOK
<1>12. SentOK'
  <2>1. ASSUME NEW t \in Trackers, acc'[t] # {}, Whole' PROVE Sent(t)'
    <3>1. Sent(t)
      BY <1>1, <1>2, <1>9, <2>1 DEF SentOK
    <3> QED
      BY <1>2, <1>3, <1>7, <3>1 DEF Sent, TrackEvent
  <2> QED
    BY <2>1 DEF SentOK
<1> QED
  BY <1>2, <1>8, <1>9, <1>11, <1>12, ResultKept DEF AInv

LEMMA NativeStepOK == ASSUME AInv, job = "native", NativeStep PROVE AInv'
  BY FlagsOK, ResultBufferOK, PlayOK, AfterLoopOK, EmitTrackOK, EmitCompletedOK DEF NativeStep

-----------------------------------------------------------------------------
(* The runner.                                                             *)

\* An event leaves the pipe, and the runner knows what it said.
LEMMA ReadEventOK == ASSUME AInv, ReadEvent PROVE AInv'
<1>1. AnalysisTypeOK /\ EndOK /\ EventsOK /\ SentOK /\ FinalOK /\ job = "native" /\ pipe # << >>
  BY DEF AInv, ReadEvent
<1>2. /\ UNCHANGED <<source, attempt, main, stream, frame, acc, sawEos, errored, cancel, left, code>>
      /\ UNCHANGED <<raws, persons, decisions, faces, made, older>> /\ pipe' = Tail(pipe)
  BY DEF ReadEvent, native, finalization
<1>3. PICK event \in Event : event = Head(pipe) /\ event = pipe[1] /\ 1 \in DOMAIN pipe
  BY <1>1 DEF AnalysisTypeOK
<1>4. \/ /\ event.type = "track" /\ got' = [got EXCEPT ![event.id] = event.frames]
         /\ UNCHANGED <<job, completed>>
      \/ event.type = "completed" /\ completed' = event.frames /\ UNCHANGED <<job, got>>
      \/ job' = "failed" /\ UNCHANGED <<got, completed>>
  BY <1>3 DEF ReadEvent, reading
<1>5. /\ pipe' \in Seq(Event) /\ Len(pipe') = Len(pipe) - 1 /\ Len(pipe) \in Nat
      /\ \A i \in DOMAIN pipe' : i + 1 \in DOMAIN pipe /\ pipe'[i] = pipe[i + 1]
      /\ \A i \in DOMAIN pipe : i = 1 \/ (i - 1 \in DOMAIN pipe' /\ pipe'[i - 1] = pipe[i])
      /\ \A i \in DOMAIN pipe : i \in Nat /\ i >= 1
      /\ \A i \in DOMAIN pipe' : i \in Nat /\ i >= 1
  BY <1>1, <1>2 DEF AnalysisTypeOK
<1>6. main \notin {"start", "loop", "quit"} /\ completed = -1
  BY <1>1 DEF EventsOK
<1>7. event.type = "track" => event.id \in Trackers /\ event = TrackEvent(event.id)
  <2>1. event.type = "track" => event.id \in Trackers
    BY DEF Event
  <2> QED
    BY <1>1, <1>3, <2>1 DEF EventsOK
<1>8. event.type = "track" => event.frames = acc[event.id]
  BY <1>7 DEF TrackEvent
<1>9. event.type = "completed" =>
         event.frames = frame /\ pipe' = << >> /\ left = << >> /\ main \in {"return", "exited"}
  <2>1. event.type = "completed" =>
           event.frames = frame /\ 1 = Len(pipe) /\ left = << >> /\ main \in {"return", "exited"}
    BY <1>1, <1>3 DEF EventsOK
  <2>2. Len(pipe) = 1 => pipe' = << >>
    BY <1>5
  <2> QED
    BY <2>1, <2>2
<1>10. \A t \in Trackers : got'[t] \in {{}, acc[t]} /\ (got[t] = acc[t] => got'[t] = acc[t])
  <2>1. \A t \in Trackers : got[t] \in {{}, acc[t]}
    BY <1>1 DEF EventsOK
  <2>2. got \in [Trackers -> Clip]
    BY <1>1 DEF AnalysisTypeOK, Clip
  <2>3. CASE event.type = "track" /\ got' = [got EXCEPT ![event.id] = event.frames]
    <3>1. got'[event.id] = acc[event.id]
      BY <1>7, <1>8, <2>2, <2>3
    <3>2. \A t \in Trackers : t # event.id => got'[t] = got[t]
      BY <2>2, <2>3
    <3> QED
      BY <2>1, <3>1, <3>2
  <2>4. CASE got' = got
    BY <2>1, <2>4
  <2> QED
    BY <1>4, <2>3, <2>4
<1>11. got' \in [Trackers -> Clip] /\ completed' \in -1..Frames /\ job' \in {"native", "failed"}
  <2>1. /\ acc \in [Trackers -> Clip] /\ got \in [Trackers -> Clip]
        /\ completed \in -1..Frames /\ frame \in 0..Frames /\ Frames \in Nat
    BY <1>1, VideoAnalysisAssumption DEF AnalysisTypeOK, Clip
  <2>2. CASE event.type = "track" /\ got' = [got EXCEPT ![event.id] = event.frames]
                                  /\ UNCHANGED <<job, completed>>
    BY <1>1, <1>7, <1>8, <2>1, <2>2
  <2>3. CASE event.type = "completed" /\ completed' = event.frames /\ UNCHANGED <<job, got>>
    BY <1>1, <1>9, <2>1, <2>3
  <2>4. CASE job' = "failed" /\ UNCHANGED <<got, completed>>
    BY <2>1, <2>4
  <2> QED
    BY <1>4, <2>2, <2>3, <2>4
<1>12. AnalysisTypeOK'
  BY <1>1, <1>2, <1>5, <1>11 DEF AnalysisTypeOK, Clip
<1>13. EndOK' /\ (Whole' <=> Whole)
  BY <1>1, <1>2 DEF EndOK, Whole
<1>14. EventsOK'
  <2>1. ASSUME NEW i \in DOMAIN pipe'
        PROVE  (pipe[i].type = "track" => pipe[i] = TrackEvent(pipe[i].id))'
    BY <1>1, <1>2, <1>5 DEF EventsOK, TrackEvent
  <2>2. ASSUME NEW i \in DOMAIN pipe', pipe'[i].type = "completed"
        PROVE  pipe'[i].frames = frame' /\ i = Len(pipe') /\ left' = << >> /\ main' \in {"return", "exited"}
    <3>1. i + 1 \in DOMAIN pipe /\ pipe[i + 1].type = "completed" /\ pipe'[i] = pipe[i + 1]
      BY <1>5, <2>2
    <3>2. pipe[i + 1].frames = frame /\ i + 1 = Len(pipe) /\ left = << >> /\ main \in {"return", "exited"}
      BY <1>1, <3>1 DEF EventsOK
    <3> QED
      BY <1>2, <1>5, <3>1, <3>2
  <2>3. completed' # -1 => /\ completed' = frame' /\ pipe' = << >>
                           /\ left' = << >> /\ main' \in {"return", "exited"}
    BY <1>2, <1>4, <1>6, <1>9
  <2>4. \A t \in Trackers : got'[t] \in {{}, acc'[t]}
    BY <1>2, <1>10
  <2> QED
    BY <1>2, <1>6, <2>1, <2>2, <2>3, <2>4 DEF EventsOK
<1>15. SentOK'
  <2>1. ASSUME NEW t \in Trackers, acc'[t] # {}, Whole', job' # "failed" PROVE Sent(t)'
    <3>1. Sent(t)
      BY <1>1, <1>2, <1>13, <2>1 DEF SentOK
    <3>2. CASE t \in ToSet(left) \/ got[t] = acc[t]
      BY <1>2, <1>10, <3>2 DEF Sent
    <3>3. ASSUME NEW i \in DOMAIN pipe, pipe[i] = TrackEvent(t) PROVE Sent(t)'
      <4>1. CASE i = 1
        <5>1. event.type = "track" /\ event.id = t
          BY <1>3, <3>3, <4>1 DEF TrackEvent
        <5>2. CASE got' = [got EXCEPT ![event.id] = event.frames]
          <6>1. got'[t] = acc[t]
            BY <1>1, <1>8, <5>1, <5>2 DEF AnalysisTypeOK
          <6> QED
            BY <1>2, <6>1 DEF Sent
        <5>3. CASE job' = "failed"
          BY <2>1, <5>3
        <5> QED
          BY <1>4, <5>1, <5>2, <5>3
      <4>2. CASE i # 1
        <5>1. i - 1 \in DOMAIN pipe' /\ pipe'[i - 1] = TrackEvent(t)'
          BY <1>2, <1>5, <3>3, <4>2 DEF TrackEvent
        <5> QED
          BY <5>1 DEF Sent
      <4> QED
        BY <4>1, <4>2
    <3> QED
      BY <3>1, <3>2, <3>3 DEF Sent
  <2> QED
    BY <2>1 DEF SentOK
<1>16. FinalOK' /\ PersonsOK'
  BY <1>11 DEF FinalOK, PersonsOK
<1>17. VotesOK'
  BY <1>1, <1>2, <1>11 DEF AInv, VotesOK
<1>18. FacesOK'
  <2>1. faces' = << >>
    BY <1>1, <1>2 DEF AInv, VotesOK
  <2> QED
    BY <2>1 DEF FacesOK
<1> QED
  BY <1>12, <1>13, <1>14, <1>15, <1>16, <1>17, <1>18 DEF AInv

\* The end of the pipe: only a process that wrote all of its result returned zero, and
\* its tracks are put in order.
LEMMA ReadEndsOK == ASSUME AInv, ReadEnds PROVE AInv'
<1>1. /\ AnalysisTypeOK /\ EndOK /\ EventsOK /\ SentOK /\ FinalOK /\ VotesOK /\ job = "native"
      /\ main = "exited" /\ pipe = << >>
  BY DEF AInv, ReadEnds
<1>2. /\ UNCHANGED <<source, attempt, main, stream, frame, acc, sawEos, errored, cancel, left, code>>
      /\ UNCHANGED <<pipe, got, completed, persons, decisions, faces, made, older>>
  BY DEF ReadEnds, native, reading
<1>3. \/ job' \in {"cancelled", "failed"} /\ raws' = raws
      \/ code = 0 /\ completed # -1 /\ job' = "finalize" /\ raws' \in Ordered(got)
  BY DEF ReadEnds
<1>4. got \in [Trackers -> Clip]
  BY <1>1 DEF AnalysisTypeOK, Clip
<1>5. /\ raws' \in Seq(Trackers)
      /\ job' = "finalize" => /\ ToSet(raws') = {t \in Trackers : got[t] # {}}
                              /\ \A i, j \in DOMAIN raws' : i # j => raws'[i] # raws'[j]
  <2>1. CASE raws' = raws /\ job' # "finalize"
    BY <1>1, <2>1 DEF AnalysisTypeOK
  <2>2. CASE raws' \in Ordered(got)
    <3>1. PICK order \in Ordered(got) : order = raws'
      BY <2>2
    <3> QED
      BY <1>4, <3>1, OrderedTracks
  <2> QED
    BY <1>3, <2>1, <2>2
<1>6. AnalysisTypeOK'
  BY <1>1, <1>2, <1>3, <1>5 DEF AnalysisTypeOK
<1>7. EndOK' /\ EventsOK'
  BY <1>1, <1>2 DEF EndOK, Whole, EventsOK, TrackEvent
<1>8. SentOK'
  BY <1>1, <1>2 DEF SentOK, Sent, Whole, TrackEvent
<1>9. FinalOK'
  BY <1>1, <1>2, <1>3 DEF FinalOK
<1>10. /\ persons = << >> /\ decisions = << >> /\ faces = << >> /\ made = older
       /\ job' \in {"cancelled", "failed", "finalize"}
  BY <1>1, <1>3 DEF VotesOK
<1>11. PersonsOK'
  <2>1. DOMAIN persons' = {}
    BY <1>2, <1>10
  <2>2. ASSUME job' = "finalize" PROVE \A i \in DOMAIN raws' : got'[raws'[i]] # {}
    <3>1. \A i \in DOMAIN raws' : raws'[i] \in ToSet(raws')
      BY DEF ToSet
    <3> QED
      BY <1>2, <1>5, <2>2, <3>1
  <2> QED
    BY <1>2, <1>5, <1>10, <2>1, <2>2 DEF PersonsOK
<1>12. VotesOK' /\ FacesOK'
  BY <1>2, <1>10 DEF VotesOK, FacesOK
<1> QED
  BY <1>6, <1>7, <1>8, <1>9, <1>11, <1>12 DEF AInv

\* The job is over or failed, whatever the process was doing.
LEMMA TerminateOK == ASSUME AInv, Terminate PROVE AInv'
<1>1. AnalysisTypeOK /\ EndOK /\ EventsOK /\ SentOK /\ job = "native"
  BY DEF AInv, Terminate
<1>2. /\ UNCHANGED <<source, attempt, stream, frame, acc, sawEos, errored, left, pipe>>
      /\ UNCHANGED <<got, completed, raws, persons, decisions, faces, made, older>>
      /\ cancel' = TRUE /\ job' \in {"cancelled", "failed"} /\ main' = "exited"
      /\ (main = "exited" /\ code' = code) \/ (main # "exited" /\ code' \in {3, 9})
  BY DEF Terminate, reading, finalization, Exit
<1>3. AnalysisTypeOK'
  BY <1>1, <1>2 DEF AnalysisTypeOK
<1>4. EndOK' /\ (Whole' => Whole)
  BY <1>1, <1>2 DEF EndOK, Whole
<1>5. EventsOK'
  BY <1>1, <1>2 DEF EventsOK, TrackEvent
<1>6. SentOK'
  <2>1. ASSUME NEW t \in Trackers, acc'[t] # {}, Whole' PROVE Sent(t)'
    <3>1. Sent(t)
      BY <1>1, <1>2, <1>4, <2>1 DEF SentOK
    <3> QED
      BY <1>2, <3>1 DEF Sent, TrackEvent
  <2> QED
    BY <2>1 DEF SentOK
<1>7. FinalOK' /\ PersonsOK' /\ VotesOK' /\ FacesOK'
  BY <1>2 DEF FinalOK, PersonsOK, VotesOK, FacesOK
<1> QED
  BY <1>3, <1>4, <1>5, <1>6, <1>7 DEF AInv

\* Each attempt begins as the first one did, with the faces that are there.
LEMMA RetryOK == ASSUME AInv, Retry PROVE AInv'
<1>1. AnalysisTypeOK
  BY DEF AInv
<1>2. /\ job' = "native" /\ main' = "start" /\ stream' = "flowing" /\ frame' = 0 /\ acc' = NoTracks
      /\ sawEos' = FALSE /\ errored' = FALSE /\ cancel' = FALSE
      /\ left' = << >> /\ pipe' = << >> /\ code' = 0 /\ got' = NoTracks /\ completed' = -1
      /\ raws' = << >> /\ persons' = << >> /\ decisions' = << >> /\ faces' = << >>
      /\ older' = made /\ made' = made /\ source' = source
  BY DEF Retry
<1>3. attempt' \in 1..Attempts
  <2>1. Attempts \in Nat /\ attempt \in 1..Attempts /\ attempt < Attempts /\ attempt' = attempt + 1
    BY <1>1, VideoAnalysisAssumption DEF Retry, AnalysisTypeOK
  <2> QED
    BY <2>1
<1>4. AnalysisTypeOK'
  <2>1. NoTracks \in [Trackers -> SUBSET (0..Frames - 1)] /\ 0 \in 0..Frames /\ -1 \in -1..Frames
    BY VideoAnalysisAssumption DEF NoTracks
  <2>2. /\ source' \in Sources /\ made' \in SUBSET Face /\ older' \subseteq made'
    BY <1>1, <1>2 DEF AnalysisTypeOK
  <2>3. /\ left' \in Seq(Trackers) /\ pipe' \in Seq(Event) /\ raws' \in Seq(Trackers)
        /\ persons' \in Seq([sources : Seq(Trackers), frames : SUBSET (0..Frames - 1)])
        /\ decisions' \in Seq(Known \cup Anonymous \cup Face \cup {Nobody})
        /\ faces' \in Seq(Known \cup Anonymous \cup Face)
    BY <1>2
  <2> QED
    BY <1>2, <1>3, <2>1, <2>2, <2>3 DEF AnalysisTypeOK
<1>5. EndOK' /\ SentOK' /\ FinalOK' /\ PersonsOK'
  BY <1>2 DEF EndOK, Whole, SentOK, FinalOK, PersonsOK
<1>6. EventsOK'
  BY <1>2 DEF EventsOK, NoTracks
<1>7. VotesOK' /\ FacesOK'
  BY <1>2 DEF VotesOK, FacesOK
<1> QED
  BY <1>4, <1>5, <1>6, <1>7 DEF AInv

-----------------------------------------------------------------------------
(* Persons, votes and faces.                                               *)

\* The finalization leaves the process, its events and the tracks alone.
LEMMA ReadKept ==
    ASSUME AInv, job = "finalize", job' \in {"finalize", "done", "failed"},
           UNCHANGED <<source, attempt, native, pipe, reading>>
    PROVE  EndOK' /\ EventsOK' /\ SentOK' /\ FinalOK'
<1>1. UNCHANGED <<main, stream, frame, acc, sawEos, errored, cancel, left, code, pipe, got, completed>>
  BY DEF native, reading
<1>2. EndOK /\ EventsOK /\ SentOK /\ FinalOK
  BY DEF AInv
<1>3. EndOK' /\ FinalOK'
  BY <1>1, <1>2 DEF EndOK, Whole, FinalOK
<1>4. EventsOK'
  BY <1>1, <1>2 DEF EventsOK, TrackEvent
<1>5. SentOK'
  BY <1>1, <1>2 DEF SentOK, Sent, Whole, TrackEvent
<1> QED
  BY <1>3, <1>4, <1>5

Person == [sources : Seq(Trackers), frames : Clip]

\* The person that a track with the given frames is added to.
With(person, t, frames) ==
    [sources |-> Append(person.sources, t), frames |-> person.frames \cup frames]

LEMMA JoinedSources ==
    ASSUME NEW person \in Person, NEW t \in Trackers, NEW frames
    PROVE  ToSet(With(person, t, frames).sources) = ToSet(person.sources) \cup {t}
<1> DEFINE old == person.sources
           new == Append(person.sources, t)
<1>1. old \in Seq(Trackers)
  BY DEF Person
<1>2. /\ \A i \in DOMAIN new : (i \in DOMAIN old /\ new[i] = old[i]) \/ (i = Len(new) /\ new[i] = t)
      /\ \A i \in DOMAIN old : i \in DOMAIN new /\ new[i] = old[i]
      /\ Len(new) \in DOMAIN new /\ new[Len(new)] = t
  BY <1>1
<1>3. ToSet(new) = ToSet(old) \cup {t}
  BY <1>2 DEF ToSet
<1> QED
  BY <1>3 DEF With

\* A track joins a person of whom no track is seen at the same time and whose tracks it
\* is like.
LEMMA JoinedPerson ==
    ASSUME NEW of \in [Trackers -> Clip], NEW waiting, NEW rest \in SUBSET waiting,
           NEW person \in Person, PersonOK(person, of, waiting),
           NEW t \in Trackers, of[t] # {}, t \notin rest,
           ~Overlaps(person.frames, of[t]),
           \A s \in ToSet(person.sources) : Cosine[s][t] >= Reconciliation
    PROVE  With(person, t, of[t]) \in Person /\ PersonOK(With(person, t, of[t]), of, rest)
<1> DEFINE old == person.sources
           new == Append(person.sources, t)
<1>1. PICK p : p = With(person, t, of[t])
  OBVIOUS
<1>2. old \in Seq(Trackers) /\ person.frames \in Clip
  BY DEF Person
<1>3. /\ new \in Seq(Trackers) /\ Len(old) \in Nat /\ Len(new) = Len(old) + 1
      /\ \A i \in DOMAIN new : (i \in DOMAIN old /\ new[i] = old[i]) \/ (i = Len(new) /\ new[i] = t)
      /\ \A i \in DOMAIN old : i \in DOMAIN new /\ new[i] = old[i]
      /\ Len(new) \in DOMAIN new /\ new[Len(new)] = t
      /\ \A i \in DOMAIN old : old[i] \in Trackers
  BY <1>2
<1>4. p.sources = new /\ p.frames = person.frames \cup of[t]
  BY <1>1 DEF With
<1>5. p \in Person
  <2>1. person.frames \cup of[t] \in Clip
    BY <1>2 DEF Clip
  <2> QED
    BY <1>1, <1>3, <2>1 DEF With, Person
<1>7. \A i \in DOMAIN old : of[old[i]] # {} /\ of[old[i]] \subseteq person.frames /\ old[i] \notin waiting
  BY DEF PersonOK
<1>8. \A i \in DOMAIN old : /\ ~Overlaps(of[old[i]], of[t]) /\ ~Overlaps(of[t], of[old[i]])
                            /\ Cosine[old[i]][t] >= Reconciliation /\ Cosine[t][old[i]] >= Reconciliation
  <2>1. ASSUME NEW i \in DOMAIN old
        PROVE  ~Overlaps(of[old[i]], of[t]) /\ ~Overlaps(of[t], of[old[i]])
    <3>1. of[old[i]] \in Clip /\ of[t] \in Clip
      BY <1>3
    <3> QED
      BY <1>2, <1>7, <3>1, OverlapsPart
  <2>2. ASSUME NEW i \in DOMAIN old PROVE Cosine[old[i]][t] >= Reconciliation
    BY DEF ToSet
  <2>3. \A i \in DOMAIN old : Cosine[old[i]][t] = Cosine[t][old[i]]
    BY <1>3, VideoAnalysisAssumption
  <2> QED
    BY <2>1, <2>2, <2>3
<1>9. \A i \in DOMAIN new :
         of[new[i]] # {} /\ of[new[i]] \subseteq person.frames \cup of[t] /\ new[i] \notin rest
  BY <1>3, <1>7
<1>10. \A i, j \in DOMAIN old : i # j =>
          ~Overlaps(of[old[i]], of[old[j]]) /\ Cosine[old[i]][old[j]] >= Reconciliation
  BY DEF PersonOK
<1> HIDE DEF old, new
<1>11. ASSUME NEW i \in DOMAIN new, NEW j \in DOMAIN new, i # j
       PROVE  ~Overlaps(of[new[i]], of[new[j]]) /\ Cosine[new[i]][new[j]] >= Reconciliation
  <2>1. CASE i \in DOMAIN old /\ j \in DOMAIN old
    BY <1>3, <1>10, <1>11, <2>1
  <2>2. CASE i \in DOMAIN old /\ new[j] = t
    BY <1>3, <1>8, <2>2
  <2>3. CASE new[i] = t /\ j \in DOMAIN old
    BY <1>3, <1>8, <2>3
  <2> QED
    BY <1>3, <1>11, <2>1, <2>2, <2>3
<1>12. PersonOK(p, of, rest)
  BY <1>4, <1>9, <1>11 DEF PersonOK
<1> QED
  BY <1>1, <1>5, <1>12

\* A person that no step touches keeps its properties when fewer tracks wait.
LEMMA PersonKept ==
    ASSUME NEW person, NEW of, NEW waiting, NEW rest \in SUBSET waiting, PersonOK(person, of, waiting)
    PROVE  PersonOK(person, of, rest)
  BY DEF PersonOK

\* The first of the waiting tracks, and those that still wait.
LEMMA NextTrack ==
    ASSUME AInv, Reconcile
    PROVE  /\ Head(raws) \in Trackers /\ got[Head(raws)] # {} /\ raws' \in Seq(Trackers)
           /\ Head(raws) \in ToSet(raws) /\ Head(raws) \notin ToSet(raws')
           /\ ToSet(raws) = ToSet(raws') \cup {Head(raws)}
           /\ \A i \in DOMAIN raws' : got[raws'[i]] # {}
           /\ \A i, j \in DOMAIN raws' : i # j => raws'[i] # raws'[j]
<1>1. /\ raws \in Seq(Trackers) /\ raws # << >> /\ raws' = Tail(raws) /\ job = "finalize"
  BY DEF AInv, AnalysisTypeOK, Reconcile
<1>2. /\ \A i \in DOMAIN raws : got[raws[i]] # {}
      /\ \A i, j \in DOMAIN raws : i # j => raws[i] # raws[j]
  BY <1>1 DEF AInv, PersonsOK
<1>3. /\ raws' \in Seq(Trackers) /\ Head(raws) = raws[1] /\ 1 \in DOMAIN raws /\ raws[1] \in Trackers
      /\ \A i \in DOMAIN raws' : i + 1 \in DOMAIN raws /\ i + 1 # 1 /\ raws'[i] = raws[i + 1]
      /\ \A i \in DOMAIN raws : i = 1 \/ (i - 1 \in DOMAIN raws' /\ raws'[i - 1] = raws[i])
      /\ \A i, j \in DOMAIN raws' : i # j => i + 1 # j + 1
  BY <1>1
<1>4. ToSet(raws) = ToSet(raws') \cup {Head(raws)}
  BY <1>3 DEF ToSet
<1>5. Head(raws) \notin ToSet(raws')
  BY <1>2, <1>3 DEF ToSet
<1>6. \A t \in ToSet(raws) : got[t] # {}
  BY <1>2 DEF ToSet
<1>7. \A i \in DOMAIN raws' : raws'[i] \in ToSet(raws)
  BY <1>4 DEF ToSet
<1>8. \A i, j \in DOMAIN raws' : i # j => raws'[i] # raws'[j]
  BY <1>2, <1>3
<1> QED
  BY <1>2, <1>3, <1>4, <1>5, <1>6, <1>7, <1>8

\* Track t, the first one, was placed with the k-th person: that one is new or has t in
\* addition, and the others are as they were.
Placed(t, k) ==
    /\ t = Head(raws) /\ persons' \in Seq(Person) /\ Len(persons') >= Len(persons)
    /\ PersonOK(persons'[k], got, ToSet(raws')) /\ t \in ToSet(persons'[k].sources)
    /\ \/ k \in DOMAIN persons /\ ToSet(persons'[k].sources) = ToSet(persons[k].sources) \cup {t}
       \/ k \notin DOMAIN persons /\ ToSet(persons'[k].sources) = {t}
    /\ \A l \in DOMAIN persons' : l # k => l \in DOMAIN persons /\ persons'[l] = persons[l]
    /\ DOMAIN persons \subseteq DOMAIN persons'

LEMMA PlacedTrack ==
    ASSUME AInv, Reconcile
    PROVE  \E t \in Trackers, k \in DOMAIN persons' : Placed(t, k)
<1>1. job = "finalize" /\ got \in [Trackers -> Clip] /\ persons \in Seq(Person)
  BY DEF AInv, AnalysisTypeOK, Clip, Person, Reconcile
<1>2. PICK t \in Trackers : t = Head(raws)
  BY NextTrack
<1>3. /\ got[t] # {} /\ t \notin ToSet(raws') /\ ToSet(raws') \in SUBSET ToSet(raws)
  BY <1>2, NextTrack
<1>4. CASE persons' = Append(persons, [sources |-> <<t>>, frames |-> got[t]])
  <2> DEFINE person == [sources |-> <<t>>, frames |-> got[t]]
  <2>1. /\ person \in Person /\ person.sources = <<t>> /\ person.frames = got[t]
        /\ ToSet(person.sources) = {t}
    BY <1>1 DEF Person, ToSet
  <2> HIDE DEF person
  <2>2. PersonOK(person, got, ToSet(raws'))
    BY <1>3, <2>1 DEF PersonOK
  <2>3. persons' = Append(persons, person)
    BY <1>4 DEF person
  <2>4. PICK k : k = Len(persons')
    OBVIOUS
  <2>5. /\ persons' \in Seq(Person) /\ Len(persons') >= Len(persons)
        /\ k \in DOMAIN persons' /\ persons'[k] = person /\ k \notin DOMAIN persons
        /\ \A l \in DOMAIN persons' : l # k => l \in DOMAIN persons /\ persons'[l] = persons[l]
        /\ DOMAIN persons \subseteq DOMAIN persons'
    BY <1>1, <2>1, <2>3, <2>4
  <2> QED
    BY <1>2, <2>1, <2>2, <2>5 DEF Placed
<1>5. ASSUME NEW k \in DOMAIN persons, Candidate(persons[k], t),
             persons' = [persons EXCEPT ![k] = [sources |-> Append(persons[k].sources, t),
                                                frames |-> persons[k].frames \cup got[t]]]
      PROVE  k \in DOMAIN persons' /\ Placed(t, k)
  <2>1. PICK person \in Person : person = persons[k]
    BY <1>1
  <2>2. PersonOK(person, got, ToSet(raws))
    BY <1>1, <2>1 DEF AInv, PersonsOK
  <2>3. ~Overlaps(person.frames, got[t]) /\ \A s \in ToSet(person.sources) : Cosine[s][t] >= Reconciliation
    BY <1>5, <2>1 DEF Candidate
  <2>4. PICK waiting, rest : waiting = ToSet(raws) /\ rest = ToSet(raws')
    OBVIOUS
  <2>5. PICK of \in [Trackers -> Clip] : of = got
    BY <1>1
  <2>6. PICK new : new = With(person, t, of[t])
    OBVIOUS
  <2>7. /\ rest \in SUBSET waiting /\ PersonOK(person, of, waiting) /\ of[t] # {} /\ t \notin rest
        /\ ~Overlaps(person.frames, of[t])
        /\ \A s \in ToSet(person.sources) : Cosine[s][t] >= Reconciliation
    BY <1>3, <2>2, <2>3, <2>4, <2>5
  <2>8. With(person, t, of[t]) \in Person
    BY <2>7, JoinedPerson
  <2>9. PersonOK(With(person, t, of[t]), of, rest)
    BY <2>7, JoinedPerson
  <2>10. ToSet(With(person, t, of[t]).sources) = ToSet(person.sources) \cup {t}
    BY JoinedSources
  <2>11. /\ new \in Person /\ PersonOK(new, got, ToSet(raws'))
        /\ ToSet(new.sources) = ToSet(person.sources) \cup {t}
    BY <2>4, <2>5, <2>6, <2>8, <2>9, <2>10
  <2>12. persons' = [persons EXCEPT ![k] = new]
    BY <1>5, <2>1, <2>5, <2>6 DEF With
  <2>13. /\ persons' \in Seq(Person) /\ Len(persons') = Len(persons) /\ DOMAIN persons' = DOMAIN persons
        /\ persons'[k] = new /\ \A l \in DOMAIN persons' : l # k => persons'[l] = persons[l]
        /\ Len(persons) \in Nat
    BY <1>1, <2>11, <2>12
  <2>14. ToSet(persons'[k].sources) = ToSet(persons[k].sources) \cup {t} /\ t \in ToSet(persons'[k].sources)
    BY <2>1, <2>11, <2>13
  <2> QED
    BY <1>2, <2>11, <2>13, <2>14 DEF Placed
<1>6. \/ persons' = Append(persons, [sources |-> <<t>>, frames |-> got[t]])
      \/ \E k \in DOMAIN persons :
            /\ Candidate(persons[k], t)
            /\ persons' = [persons EXCEPT ![k] = [sources |-> Append(persons[k].sources, t),
                                                  frames |-> persons[k].frames \cup got[t]]]
  <2>1. \/ persons' = Append(persons, [sources |-> <<Head(raws)>>, frames |-> got[Head(raws)]])
        \/ \E k \in DOMAIN persons :
              /\ Candidate(persons[k], Head(raws))
              /\ persons' = [persons EXCEPT ![k] = [sources |-> Append(persons[k].sources, Head(raws)),
                                                    frames |-> persons[k].frames \cup got[Head(raws)]]]
    BY DEF Reconcile
  <2> QED
    BY <1>2, <2>1, Zenon
<1> QED
  BY <1>4, <1>5, <1>6

\* A track begins a person or joins one; in either case it belongs to this one alone.
LEMMA ReconcileOK == ASSUME AInv, Reconcile PROVE AInv'
<1>1. AnalysisTypeOK /\ PersonsOK /\ VotesOK /\ job = "finalize" /\ raws # << >>
  BY DEF AInv, Reconcile
<1>2. /\ UNCHANGED <<source, attempt, job, native, pipe, reading, decisions, faces, made, older>>
  BY DEF Reconcile
<1>3. got' = got
  BY <1>2 DEF reading
<1>4. PICK t \in Trackers, k \in DOMAIN persons' :
    /\ t = Head(raws) /\ persons' \in Seq(Person) /\ Len(persons') >= Len(persons)
    /\ PersonOK(persons'[k], got, ToSet(raws')) /\ t \in ToSet(persons'[k].sources)
    /\ \/ k \in DOMAIN persons /\ ToSet(persons'[k].sources) = ToSet(persons[k].sources) \cup {t}
       \/ k \notin DOMAIN persons /\ ToSet(persons'[k].sources) = {t}
    /\ \A l \in DOMAIN persons' : l # k => l \in DOMAIN persons /\ persons'[l] = persons[l]
    /\ DOMAIN persons \subseteq DOMAIN persons'
  BY PlacedTrack DEF Placed
<1>5. /\ raws' \in Seq(Trackers) /\ ToSet(raws') \in SUBSET ToSet(raws)
      /\ t \in ToSet(raws) /\ ToSet(raws) = ToSet(raws') \cup {t}
      /\ \A i \in DOMAIN raws' : got[raws'[i]] # {}
      /\ \A i, j \in DOMAIN raws' : i # j => raws'[i] # raws'[j]
  BY <1>4, NextTrack
<1>6. decisions = << >> /\ faces = << >> /\ made = older
  BY <1>1 DEF VotesOK
<1>7. /\ \A l \in DOMAIN persons : PersonOK(persons[l], got, ToSet(raws))
      /\ \A l, m \in DOMAIN persons :
             l # m => ToSet(persons[l].sources) \cap ToSet(persons[m].sources) = {}
      /\ \A u \in Trackers : got[u] # {} =>
             u \in ToSet(raws) \/ \E l \in DOMAIN persons : u \in ToSet(persons[l].sources)
  BY <1>1 DEF PersonsOK
<1>8. \A l \in DOMAIN persons : t \notin ToSet(persons[l].sources)
  BY <1>5, <1>7 DEF PersonOK, ToSet
<1>9. \A l \in DOMAIN persons' : PersonOK(persons'[l], got, ToSet(raws'))
  <2>1. ASSUME NEW l \in DOMAIN persons', l # k PROVE PersonOK(persons'[l], got, ToSet(raws'))
    <3>1. l \in DOMAIN persons /\ persons'[l] = persons[l]
      BY <1>4, <2>1
    <3>2. PersonOK(persons[l], got, ToSet(raws))
      BY <1>7, <3>1
    <3>3. PersonOK(persons[l], got, ToSet(raws'))
      BY <1>5, <3>2, PersonKept
    <3> QED
      BY <3>1, <3>3
  <2> QED
    BY <1>4, <2>1
<1>10. ASSUME NEW l \in DOMAIN persons', NEW m \in DOMAIN persons', l # m
       PROVE  ToSet(persons'[l].sources) \cap ToSet(persons'[m].sources) = {}
  <2>1. CASE l # k /\ m # k
    <3>1. /\ l \in DOMAIN persons /\ persons'[l] = persons[l]
          /\ m \in DOMAIN persons /\ persons'[m] = persons[m]
      BY <1>4, <2>1
    <3>2. ToSet(persons[l].sources) \cap ToSet(persons[m].sources) = {}
      BY <1>7, <1>10, <3>1
    <3> QED
      BY <3>1, <3>2
  <2>2. ASSUME NEW n \in DOMAIN persons', n # k
        PROVE  ToSet(persons'[n].sources) \cap ToSet(persons'[k].sources) = {}
    <3>1. n \in DOMAIN persons /\ persons'[n] = persons[n] /\ t \notin ToSet(persons[n].sources)
      BY <1>4, <1>8, <2>2
    <3>2. CASE k \in DOMAIN persons
      BY <1>4, <1>7, <2>2, <3>1, <3>2
    <3>3. CASE k \notin DOMAIN persons
      BY <1>4, <3>1, <3>3
    <3> QED
      BY <3>2, <3>3
  <2> QED
    BY <1>10, <2>1, <2>2
<1>11. ASSUME NEW u \in Trackers, got[u] # {}
       PROVE  u \in ToSet(raws') \/ \E l \in DOMAIN persons' : u \in ToSet(persons'[l].sources)
  <2>1. CASE u = t
    BY <1>4, <2>1
  <2>2. ASSUME NEW l \in DOMAIN persons, u \in ToSet(persons[l].sources)
        PROVE  u \in ToSet(persons'[l].sources) /\ l \in DOMAIN persons'
    BY <1>4, <2>2
  <2> QED
    BY <1>5, <1>7, <1>11, <2>1, <2>2
<1>12. PersonsOK'
  BY <1>3, <1>5, <1>9, <1>10, <1>11 DEF PersonsOK
<1>13. AnalysisTypeOK'
  BY <1>1, <1>2, <1>4, <1>5 DEF AnalysisTypeOK, native, reading, Person, Clip
<1>14. VotesOK' /\ FacesOK'
  <2>1. Len(persons') \in Nat /\ DOMAIN decisions' = {} /\ DOMAIN faces' = {}
    BY <1>2, <1>4, <1>6
  <2> QED
    BY <1>1, <1>2, <1>6, <2>1 DEF VotesOK, FacesOK
<1> QED
  BY <1>1, <1>2, <1>12, <1>13, <1>14, ReadKept DEF AInv

\* A sequence after one element was added to it.
LEMMA Appended ==
    ASSUME NEW S, NEW seq \in Seq(S), NEW x \in S
    PROVE  /\ Append(seq, x) \in Seq(S) /\ Len(Append(seq, x)) = Len(seq) + 1
           /\ DOMAIN Append(seq, x) = DOMAIN seq \cup {Len(seq) + 1}
           /\ Append(seq, x)[Len(seq) + 1] = x
           /\ \A k \in DOMAIN seq : Append(seq, x)[k] = seq[k]
<1>1. /\ Append(seq, x) \in Seq(S) /\ Len(Append(seq, x)) = Len(seq) + 1
      /\ Append(seq, x)[Len(seq) + 1] = x /\ \A k \in DOMAIN seq : Append(seq, x)[k] = seq[k]
  OBVIOUS
<1>2. DOMAIN Append(seq, x) = 1..Len(Append(seq, x)) /\ DOMAIN seq = 1..Len(seq) /\ Len(seq) \in Nat
  OBVIOUS
<1> QED
  BY <1>1, <1>2

\* A vote is for one of the identities it is given or for nobody.
LEMMA Resolved ==
    ASSUME NEW sources, NEW gallery
    PROVE  Resolve(sources, gallery) \subseteq gallery \cup {Nobody}
<1>1. \A supported : Winners(supported, sources) \subseteq supported
  BY DEF Winners
<1> DEFINE supported == {i \in gallery : Votes(i, sources) # {}}
<1>2. Winners(supported, sources) \subseteq gallery
  BY <1>1
<1>3. supported \subseteq gallery
  OBVIOUS
<1> QED
  BY <1>2, <1>3 DEF Resolve

\* The faces of this attempt are made when all votes are cast, so that no vote is for
\* one of them.
LEMMA VoteOK == ASSUME AInv, Vote PROVE AInv'
<1>1. AnalysisTypeOK /\ PersonsOK /\ VotesOK /\ job = "finalize" /\ raws = << >>
  BY DEF AInv, Vote
<1>2. UNCHANGED <<source, attempt, job, native, pipe, reading, raws, persons, faces, made, older>>
  BY DEF Vote
<1>3. decisions \in Seq(Known \cup Anonymous \cup Face \cup {Nobody}) /\ persons \in Seq(Person)
  BY <1>1 DEF AnalysisTypeOK, Person, Clip
<1>4. Len(decisions) < Len(persons) /\ Len(decisions) \in Nat /\ Len(persons) \in Nat
  BY <1>3 DEF Vote
<1>5. faces = << >> /\ made = older /\ older \subseteq Face
  BY <1>1, <1>4 DEF VotesOK, AnalysisTypeOK
<1>6. PICK decision \in Known \cup Anonymous \cup older \cup {Nobody} :
         decisions' = Append(decisions, decision)
  <2>1. PICK gallery \in SUBSET (Known \cup Anonymous) :
           \E decision \in Resolve(persons[Len(decisions) + 1].sources, gallery \cup made) :
              decisions' = Append(decisions, decision)
    BY DEF Vote
  <2>2. PICK decision \in Resolve(persons[Len(decisions) + 1].sources, gallery \cup made) :
           decisions' = Append(decisions, decision)
    BY <2>1
  <2>3. decision \in gallery \cup made \cup {Nobody}
    BY <2>2, Resolved
  <2> QED
    BY <1>5, <2>2, <2>3
<1>7. /\ decisions' \in Seq(Known \cup Anonymous \cup Face \cup {Nobody})
      /\ Len(decisions') = Len(decisions) + 1
      /\ \A k \in DOMAIN decisions' : decisions'[k] = decision \/ (k \in DOMAIN decisions /\ decisions'[k] = decisions[k])
  <2>1. decision \in Known \cup Anonymous \cup Face \cup {Nobody}
    BY <1>5, <1>6
  <2> QED
    BY <1>3, <1>6, <2>1, Appended
<1>8. AnalysisTypeOK'
  BY <1>1, <1>2, <1>7 DEF AnalysisTypeOK, native, reading
<1>9. PersonsOK'
  <2>1. UNCHANGED <<job, raws, persons, got>> /\ PersonsOK
    BY <1>1, <1>2 DEF reading
  <2> QED
    BY <2>1, ZenonT(30) DEF PersonsOK
<1>10. VotesOK'
  <2>1. \A k \in DOMAIN decisions' : decisions'[k] \in Known \cup Anonymous \cup older \cup {Nobody}
    BY <1>1, <1>6, <1>7 DEF VotesOK
  <2>2. Len(decisions') <= Len(persons)
    BY <1>4, <1>7
  <2> QED
    BY <1>1, <1>2, <1>5, <2>1, <2>2 DEF VotesOK
<1>11. FacesOK'
  BY <1>2, <1>5 DEF FacesOK
<1> QED
  BY <1>1, <1>2, <1>8, <1>9, <1>10, <1>11, ReadKept DEF AInv

\* The face that won is free; a new one is no other person's, whose face is known, is
\* from an earlier attempt or has another number.
LEMMA AssignOK == ASSUME AInv, Assign PROVE AInv'
<1>1. AnalysisTypeOK /\ PersonsOK /\ VotesOK /\ FacesOK /\ job = "finalize" /\ raws = << >>
  BY DEF AInv, Assign
<1>2. UNCHANGED <<source, attempt, job, native, pipe, reading, raws, persons, decisions, older>>
  BY DEF Assign
<1>3. /\ decisions \in Seq(Known \cup Anonymous \cup Face \cup {Nobody}) /\ persons \in Seq(Person)
      /\ faces \in Seq(Known \cup Anonymous \cup Face) /\ made \in SUBSET Face /\ older \subseteq made
  BY <1>1 DEF AnalysisTypeOK, Person, Clip
<1>4. PICK n : n = Len(faces) + 1
  OBVIOUS
<1>5. /\ n \in DOMAIN persons /\ n \in DOMAIN decisions /\ n \in Nat /\ n \notin DOMAIN faces
      /\ Len(decisions) = Len(persons) /\ n <= Len(persons)
  BY <1>3, <1>4 DEF Assign
<1>6. PICK own : own = OwnFace(n)
  OBVIOUS
<1>7. own = <<n, persons[n].sources>> /\ own \in Face
  <2>1. PICK sources : sources = persons[n].sources
    OBVIOUS
  <2>2. persons[n] \in Person
    BY <1>3, <1>5
  <2>3. sources \in Seq(Trackers)
    BY <2>1, <2>2 DEF Person
  <2>4. own = <<n, sources>>
    BY <1>6, <2>1 DEF OwnFace
  <2>5. own \in Face
    BY <1>5, <2>3, <2>4 DEF Face
  <2> QED
    BY <2>1, <2>4, <2>5
<1>8. PICK face : /\ faces' = Append(faces, face) 
                  /\ \/ face = own /\ made' = made \cup {own}
                     \/ /\ face = decisions[n] /\ decisions[n] # Nobody /\ ~Blocked(decisions[n], n)
                        /\ made' = made
  BY <1>4, <1>6 DEF Assign
<1>9. face \in Known \cup Anonymous \cup Face
  <2>1. decisions[n] \in Known \cup Anonymous \cup Face \cup {Nobody}
    BY <1>3, <1>5
  <2> QED
    BY <1>7, <1>8, <2>1
<1>10. /\ faces' \in Seq(Known \cup Anonymous \cup Face) /\ Len(faces') = n /\ DOMAIN faces' = DOMAIN faces \cup {n}
       /\ faces'[n] = face /\ \A k \in DOMAIN faces : faces'[k] = faces[k]
  <2>1. faces' = Append(faces, face) /\ faces \in Seq(Known \cup Anonymous \cup Face)
    BY <1>3, <1>8
  <2> QED
    BY <1>4, <1>9, <2>1, Appended
<1>11. AnalysisTypeOK'
  BY <1>1, <1>2, <1>3, <1>7, <1>8, <1>10 DEF AnalysisTypeOK, native, reading
<1>12. PersonsOK'
  <2>1. UNCHANGED <<job, raws, persons, got>> /\ PersonsOK
    BY <1>1, <1>2 DEF reading
  <2> QED
    BY <2>1, ZenonT(30) DEF PersonsOK
<1>13. VotesOK'
  <2>1. faces' # << >>
    BY <1>5, <1>10
  <2> QED
    BY <1>1, <1>2, <1>5, <1>10, <2>1 DEF VotesOK
<1>14. \A k \in DOMAIN faces' :
          faces'[k] = OwnFace(k)' \/ (faces'[k] = decisions'[k] /\ decisions'[k] # Nobody)
  <2>1. \A k \in DOMAIN faces : faces[k] = <<k, persons[k].sources>> \/ (faces[k] = decisions[k] /\ decisions[k] # Nobody)
    BY <1>1 DEF FacesOK, OwnFace
  <2>2. \A k \in DOMAIN faces' : faces'[k] = <<k, persons[k].sources>> \/ (faces'[k] = decisions[k] /\ decisions[k] # Nobody)
    BY <1>7, <1>8, <1>10, <2>1
  <2> QED
    BY <1>2, <2>2 DEF OwnFace
<1>15. ASSUME NEW j \in DOMAIN faces, faces[j] = face, face \notin older
       PROVE  ~Overlaps(persons[j].frames, persons[n].frames)
  <2>1. CASE face = decisions[n] /\ ~Blocked(decisions[n], n)
    BY <1>15, <2>1 DEF Blocked
  <2>2. CASE face = own
    <3>1. faces[j] # OwnFace(j)
      BY <1>5, <1>7, <1>15, <2>2 DEF OwnFace
    <3>2. face = decisions[j] /\ decisions[j] # Nobody
      BY <1>1, <1>15, <3>1 DEF FacesOK
    <3>3. j \in DOMAIN decisions
      BY <1>3, <1>4, <1>5
    <3>4. face \in Known \cup Anonymous
      BY <1>1, <1>15, <3>2, <3>3 DEF VotesOK
    <3>5. face \in Nat \X Seq(Trackers)
      BY <1>7, <2>2 DEF Face
    <3> QED
      BY <3>4, <3>5, VideoAnalysisAssumption
  <2> QED
    BY <1>8, <2>1, <2>2
<1>16. ASSUME NEW j \in DOMAIN faces', NEW k \in DOMAIN faces',
              j # k, faces'[j] = faces'[k], faces'[j] \notin older
       PROVE  ~Overlaps(persons[j].frames, persons[k].frames)
  <2>1. CASE j \in DOMAIN faces /\ k \in DOMAIN faces
    BY <1>1, <1>10, <1>16, <2>1 DEF FacesOK
  <2>2. CASE j \in DOMAIN faces /\ k = n
    BY <1>10, <1>15, <1>16, <2>2
  <2>3. CASE j = n /\ k \in DOMAIN faces
    <3>1. ~Overlaps(persons[k].frames, persons[n].frames)
      BY <1>10, <1>15, <1>16, <2>3
    <3> QED
      BY <2>3, <3>1 DEF Overlaps
  <2> QED
    BY <1>10, <1>16, <2>1, <2>2, <2>3
<1>17. FacesOK'
  BY <1>2, <1>14, <1>16 DEF FacesOK
<1> QED
  BY <1>1, <1>2, <1>11, <1>12, <1>13, <1>17, ReadKept DEF AInv

\* The end of the finalization, with a result or without.
LEMMA FinalizedOK == ASSUME AInv, FinalizeFails \/ Complete PROVE AInv'
<1>1. /\ job = "finalize" /\ job' \in {"failed", "done"}
      /\ UNCHANGED <<source, attempt, native, pipe, reading, finalization>>
  BY DEF FinalizeFails, Complete
<1>2. UNCHANGED <<raws, persons, decisions, faces, made, older, got, completed>>
  BY <1>1 DEF finalization, reading
<1>3. AnalysisTypeOK /\ PersonsOK /\ VotesOK /\ FacesOK
  BY DEF AInv
<1>4. AnalysisTypeOK'
  BY <1>1, <1>2, <1>3 DEF AnalysisTypeOK, native
<1>5. PersonsOK'
  BY <1>1, <1>2, <1>3 DEF PersonsOK
<1>6. VotesOK'
  BY <1>1, <1>2, <1>3 DEF VotesOK
<1>7. FacesOK'
  BY <1>1, <1>2, <1>3 DEF FacesOK, OwnFace
<1> QED
  BY <1>1, <1>4, <1>5, <1>6, <1>7, ReadKept DEF AInv

-----------------------------------------------------------------------------
(* The theorems about the analysis.                                        *)

\* The first attempt begins with nothing read and nothing made.
LEMMA AnalysisBegins == AnalysisInit => AInv
<1> SUFFICES ASSUME AnalysisInit PROVE AInv
  OBVIOUS
<1>1. NoTracks \in [Trackers -> SUBSET (0..Frames - 1)] /\ \A t \in Trackers : NoTracks[t] = {}
  BY DEF NoTracks
<1>2. Frames \in Nat /\ Attempts \in Nat /\ 0 < Attempts
  BY VideoAnalysisAssumption
<1>3. AnalysisTypeOK
  <2>1. attempt \in 1..Attempts /\ frame \in 0..Frames /\ completed \in -1..Frames
    BY <1>2 DEF AnalysisInit
  <2>2. /\ left \in Seq(Trackers) /\ raws \in Seq(Trackers) /\ pipe \in Seq(Event)
        /\ persons \in Seq([sources : Seq(Trackers), frames : SUBSET (0..Frames - 1)])
        /\ decisions \in Seq(Known \cup Anonymous \cup Face \cup {Nobody})
        /\ faces \in Seq(Known \cup Anonymous \cup Face)
    BY DEF AnalysisInit
  <2> QED
    BY <1>1, <2>1, <2>2 DEF AnalysisInit, AnalysisTypeOK
<1>4. EndOK /\ SentOK /\ FinalOK /\ PersonsOK
  BY DEF AnalysisInit, EndOK, SentOK, Whole, FinalOK, PersonsOK
<1>5. EventsOK
  BY <1>1 DEF AnalysisInit, EventsOK
<1>6. VotesOK /\ FacesOK
  BY DEF AnalysisInit, VotesOK, FacesOK
<1> QED
  BY <1>3, <1>4, <1>5, <1>6 DEF AInv

LEMMA AnalysisStepOK == AInv /\ [AnalysisNext]_analysisVars => AInv'
<1> SUFFICES ASSUME AInv, [AnalysisNext]_analysisVars PROVE AInv'
  OBVIOUS
<1>1. CASE AnalysisNext
  BY <1>1, NativeStepOK, ReadEventOK, ReadEndsOK, TerminateOK, RetryOK, ReconcileOK, VoteOK,
     AssignOK, FinalizedOK DEF AnalysisNext
<1>2. CASE UNCHANGED analysisVars
  <2>1. /\ UNCHANGED <<source, attempt, job, main, stream, frame, acc, sawEos, errored, cancel, left, code>>
        /\ UNCHANGED <<pipe, got, completed, raws, persons, decisions, faces, made, older>>
    BY <1>2 DEF analysisVars, native, reading, finalization
  <2>2. /\ AnalysisTypeOK /\ EndOK /\ EventsOK /\ SentOK /\ FinalOK
        /\ PersonsOK /\ VotesOK /\ FacesOK
    BY DEF AInv
  <2>3. AnalysisTypeOK' /\ EndOK' /\ FinalOK'
    BY <2>1, <2>2 DEF AnalysisTypeOK, EndOK, FinalOK, Whole
  <2>4. EventsOK'
    BY <2>1, <2>2 DEF EventsOK, TrackEvent
  <2>5. SentOK'
    BY <2>1, <2>2 DEF SentOK, Sent, Whole, TrackEvent
  <2>6. PersonsOK'
    BY <2>1, <2>2 DEF PersonsOK
  <2>7. VotesOK' /\ FacesOK'
    BY <2>1, <2>2 DEF VotesOK, FacesOK, OwnFace
  <2> QED
    BY <2>3, <2>4, <2>5, <2>6, <2>7 DEF AInv
<1> QED
  BY <1>1, <1>2

\* What relates the accumulator, the events under way and the result holds in every
\* attempt, for every source, every likeness and every score.
THEOREM AnalysisInvariance == AnalysisSpec => []AInv
BY AnalysisBegins, AnalysisStepOK, PTL DEF AnalysisSpec

\* The variables keep their types: the number of frames stays within the source, exit
\* codes are those of main() and a kill, and faces are identities or the job's own.
THEOREM AnalysisTypeCorrect == AnalysisSpec => []AnalysisTypeOK
<1>1. AInv => AnalysisTypeOK
  BY DEF AInv
<1> QED
  BY <1>1, AnalysisInvariance, PTL

\* The runner finalizes what the whole source gave or nothing: whatever signal, crash or
\* error comes while events are written and read, a completed event and exit code 0
\* together mean that every track of the accumulator was read as it is.
THEOREM WholeResult == AnalysisSpec => []ResultIsWhole
<1>1. AInv => ResultIsWhole
  <2> SUFFICES ASSUME AInv, job \in {"finalize", "done"}
               PROVE  stream = "eos" /\ ~errored /\ got = acc /\ completed = frame
    BY DEF ResultIsWhole
  <2>1. AnalysisTypeOK /\ EndOK /\ EventsOK /\ SentOK /\ FinalOK
    BY DEF AInv
  <2>2. main = "exited" /\ code = 0 /\ completed # -1
    BY <2>1 DEF FinalOK
  <2>3. stream = "eos" /\ ~errored
    BY <2>1, <2>2 DEF EndOK, Whole
  <2>4. completed = frame /\ pipe = << >> /\ left = << >>
    BY <2>1, <2>2 DEF EventsOK
  <2>5. ASSUME NEW t \in Trackers PROVE got[t] = acc[t]
    <3>1. got[t] \in {{}, acc[t]}
      BY <2>1 DEF EventsOK
    <3>2. acc[t] # {} => Sent(t)
      BY <2>1, <2>2 DEF SentOK, Whole
    <3>3. ~(t \in ToSet(left)) /\ ~\E i \in DOMAIN pipe : pipe[i] = TrackEvent(t)
      BY <2>4 DEF ToSet
    <3> QED
      BY <3>1, <3>2, <3>3 DEF Sent
  <2>6. got \in [Trackers -> SUBSET (0..Frames - 1)] /\ acc \in [Trackers -> SUBSET (0..Frames - 1)]
    BY <2>1 DEF AnalysisTypeOK
  <2>7. got = acc
    BY <2>5, <2>6
  <2> QED
    BY <2>3, <2>4, <2>7
<1> QED
  BY <1>1, AnalysisInvariance, PTL

\* Reconciliation puts every track that was read into one person and one only, and only
\* beside tracks that it is like and that are seen at other times.
THEOREM PersonsAreApart == AnalysisSpec => []PersonsApart
<1>1. AInv => PersonsApart
  <2> SUFFICES ASSUME AInv, job \in {"finalize", "done"} PROVE PersonsApart
    BY DEF PersonsApart
  <2>1. \A k \in DOMAIN persons : PersonOK(persons[k], got, ToSet(raws))
    BY DEF AInv, PersonsOK
  <2>2. \A k, l \in DOMAIN persons :
           k # l => ToSet(persons[k].sources) \cap ToSet(persons[l].sources) = {}
    BY DEF AInv, PersonsOK
  <2>3. ASSUME NEW t \in Trackers, got[t] # {}, t \notin ToSet(raws)
        PROVE  \E k \in DOMAIN persons :
                  /\ t \in ToSet(persons[k].sources)
                  /\ got[t] \subseteq persons[k].frames
                  /\ \A l \in DOMAIN persons \ {k} : t \notin ToSet(persons[l].sources)
    <3>1. PICK k \in DOMAIN persons : t \in ToSet(persons[k].sources)
      BY <2>3 DEF AInv, PersonsOK
    <3>2. got[t] \subseteq persons[k].frames
      BY <2>1, <3>1 DEF PersonOK, ToSet
    <3>3. \A l \in DOMAIN persons \ {k} : t \notin ToSet(persons[l].sources)
      BY <2>2, <3>1
    <3> QED
      BY <3>1, <3>2, <3>3
  <2>4. \A k \in DOMAIN persons : \A i, j \in DOMAIN persons[k].sources : i # j =>
           /\ ~Overlaps(got[persons[k].sources[i]], got[persons[k].sources[j]])
           /\ Cosine[persons[k].sources[i]][persons[k].sources[j]] >= Reconciliation
    BY <2>1 DEF PersonOK
  <2> QED
    BY <2>3, <2>4 DEF PersonsApart
<1> QED
  BY <1>1, AnalysisInvariance, PTL

\* No result shows a face in two places at once, but for a face that an earlier attempt
\* has made: the names of new faces and of identities do not meet.
THEOREM FacesAreApart == AnalysisSpec => []FacesApart
<1>1. AInv => FacesApart
  BY DEF AInv, FacesOK, FacesApart
<1> QED
  BY <1>1, AnalysisInvariance, PTL
=============================================================================
