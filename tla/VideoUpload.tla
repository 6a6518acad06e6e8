---------------------------- MODULE VideoUpload ----------------------------
(* The source of a video job: its upload (app/services/                     *)
(* video_upload_service.py), its readers and its removal when the retention *)
(* period is over (app/services/video_job_service.py, run by every video    *)
(* worker after each job).  Upload u stands for one call of submit and for  *)
(* the process, the temporary file, the object and the job row it makes.    *)
EXTENDS Integers, Sequences, FiniteSets, SequencesExt, FiniteSetsExt

CONSTANTS
    Uploads,        \* calls of submit
    Stored,         \* those that have ended well before
    Cleaners,       \* video workers, each running cleanup_expired_sources
    Readers,        \* requests for a source and workers that download one
    Limit,          \* sources that one pass claims
    SourceFps,      \* frame rate that the probe reports
    DefaultMode,    \* video_default_sampling_mode
    DefaultFps,     \* video_default_frames_per_second
    Inputs          \* sampling parameters: [mode, n, fps]

ASSUME VideoUploadAssumption ==
    /\ Stored \subseteq Uploads
    /\ Limit \in Nat \ {0}
    /\ SourceFps \in Nat \ {0}
    /\ DefaultFps \in Int
    /\ \A i \in Inputs : i.n \in Int /\ i.fps \in Int

VARIABLES
    pc,         \* pc[u]: where submit is
    process,    \* process[u]: the process record
    file,       \* file[u]: the temporary file is on disk
    known,      \* known[u]: temp_path is set
    keyed,      \* keyed[u]: object_key is set
    sampling,   \* sampling[u]: what resolve_sampling returned
    putting,    \* putting[u]: a thread is still uploading
    object,     \* object[u]: the object store holds the source
    row,        \* row[u]: the job row, or its commit that is not settled
    told,       \* told[u]: the answer of submit
    fault,      \* fault[u]: what went wrong that submit cannot repair
    due,        \* jobs whose retention period is over, by source_retention_until
    marked,     \* marked[u]: source_deleted_at is set
    claimed,    \* claimed[k]: rows that the pass of cleaner k still has to treat, by age
    held,       \* held[k]: rows under FOR UPDATE of that pass
    removed,    \* removed[k]: rows whose source the pass has removed
    reader      \* reader[r]: a reader after it has looked at the row

upload == <<pc, process, file, known, keyed, sampling, putting, told, fault>>
passes == <<claimed, held, removed>>
vars == <<pc, process, file, known, keyed, sampling, putting, object, row, told,
          fault, due, marked, claimed, held, removed, reader>>

NoSampling == [requested |-> 0, everyN |-> 0]
EveryFrame == [requested |-> SourceFps, everyN |-> 1]

Expired(u) == u \in ToSet(due)

Idle == [upload |-> "none", outcome |-> "none"]

TypeOK ==
    /\ pc \in [Uploads -> {"idle", "stream", "probe", "put", "store", "fail",
                           "unlink", "check", "delete", "done", "dead"}]
    /\ process \in [Uploads -> {"none", "started", "failed"}]
    /\ file \in [Uploads -> BOOLEAN]
    /\ known \in [Uploads -> BOOLEAN]
    /\ keyed \in [Uploads -> BOOLEAN]
    /\ sampling \in [Uploads -> [requested : Nat, everyN : Nat]]
    /\ \A u \in Uploads : keyed[u] => sampling[u].everyN >= 1
    /\ putting \in [Uploads -> BOOLEAN]
    /\ object \in [Uploads -> BOOLEAN]
    /\ row \in [Uploads -> {"none", "settling", "job"}]
    /\ told \in [Uploads -> {"none", "ok", "error"}]
    /\ fault \in [Uploads -> SUBSET {"file", "object", "answer", "doubt"}]
    /\ due \in Seq(Uploads) /\ IsInjective(due)
    /\ marked \in [Uploads -> BOOLEAN]
    /\ claimed \in [Cleaners -> SUBSET Uploads]
    /\ held \in [Cleaners -> SUBSET Uploads]
    /\ removed \in [Cleaners -> SUBSET Uploads]
    /\ reader \in [Readers -> [upload : Uploads \cup {"none"},
                               outcome : {"none", "expired", "served", "missing"}]]

Init ==
    /\ pc = [u \in Uploads |-> IF u \in Stored THEN "done" ELSE "idle"]
    /\ process = [u \in Uploads |-> IF u \in Stored THEN "started" ELSE "none"]
    /\ file = [u \in Uploads |-> FALSE]
    /\ known = [u \in Uploads |-> u \in Stored]
    /\ keyed = [u \in Uploads |-> u \in Stored]
    /\ sampling = [u \in Uploads |-> IF u \in Stored THEN EveryFrame ELSE NoSampling]
    /\ putting = [u \in Uploads |-> FALSE]
    /\ object = [u \in Uploads |-> u \in Stored]
    /\ row = [u \in Uploads |-> IF u \in Stored THEN "job" ELSE "none"]
    /\ told = [u \in Uploads |-> IF u \in Stored THEN "ok" ELSE "none"]
    /\ fault = [u \in Uploads |-> {}]
    /\ due = << >>
    /\ marked = [u \in Uploads |-> FALSE]
    /\ claimed = [k \in Cleaners |-> {}]
    /\ held = [k \in Cleaners |-> {}]
    /\ removed = [k \in Cleaners |-> {}]
    /\ reader = [r \in Readers |-> Idle]

At(u, here) == pc[u] = here

Go(u, there) == pc' = [pc EXCEPT ![u] = there]

----------------------------------------------------------------------------
(* Sampling *)

\* Python's round of a / b, for b > 0: halves go to the even neighbour.
Round(a, b) ==
    LET q == a \div b
        twice == 2 * (a % b)
    IN IF twice < b \/ (twice = b /\ q % 2 = 0) THEN q ELSE q + 1

\* A parameter that the request leaves out.
Absent == -1

SelectedMode(i) == IF i.mode = "none" THEN DefaultMode ELSE i.mode

RequestedFps(i) == IF i.fps = Absent THEN DefaultFps ELSE i.fps

\* resolve_sampling: which parameters each mode takes, and every how many
\* frames one is used.  The requested rate is 0 where it follows from n.
Refused(i) ==
    CASE SelectedMode(i) = "every_frame" -> i.n # Absent \/ i.fps # Absent
      [] SelectedMode(i) = "every_n_frames" -> i.n <= 0 \/ i.fps # Absent
      [] SelectedMode(i) = "frames_per_second" ->
            i.n # Absent \/ RequestedFps(i) <= 0 \/ RequestedFps(i) > SourceFps
      [] OTHER -> TRUE

ResolveSampling(i) ==
    CASE SelectedMode(i) = "every_frame" -> EveryFrame
      [] SelectedMode(i) = "every_n_frames" -> [requested |-> 0, everyN |-> i.n]
      [] SelectedMode(i) = "frames_per_second" ->
            [requested |-> RequestedFps(i), everyN |-> Max({1, Round(SourceFps, RequestedFps(i))})]

----------------------------------------------------------------------------
(* submit *)

\* The process record is committed, then _stream_upload makes its file.
Submit(u) ==
    /\ At(u, "idle")
    /\ process' = [process EXCEPT ![u] = "started"]
    /\ file' = [file EXCEPT ![u] = TRUE]
    /\ Go(u, "stream")
    /\ UNCHANGED <<known, keyed, sampling, putting, object, row, told, fault, due,
                   marked, passes, reader>>

\* The file is complete and temp_path set; or an error (too large, empty, I/O)
\* removes the file before it goes on to the handler.
Stream(u) ==
    /\ At(u, "stream")
    /\ \/ /\ known' = [known EXCEPT ![u] = TRUE]
          /\ Go(u, "probe")
          /\ UNCHANGED file
       \/ /\ file' = [file EXCEPT ![u] = FALSE]
          /\ Go(u, "fail")
          /\ UNCHANGED known
    /\ UNCHANGED <<process, keyed, sampling, putting, object, row, told, fault, due,
                   marked, passes, reader>>

\* parse_probe_payload: metadata that lacks something, that is of a container
\* or codec which is not taken, that is of too long a video, or good.
Metadata == {"incomplete", "unsupported", "long", "good"}

\* probe_video: ffprobe may also hang or fail.
ProbeVideo == {"timeout", "failed"} \cup Metadata

ValidateMetadata(m) == m \notin {"unsupported", "long"}

Accepted(m, i) ==
    m \notin {"timeout", "failed", "incomplete"} /\ ValidateMetadata(m) /\ ~Refused(i)

\* probe_video, _validate_metadata and resolve_sampling; then the key is known
\* and the thread of upload_video starts.
Probe(u) ==
    /\ At(u, "probe")
    /\ \E m \in ProbeVideo, i \in Inputs :
          \/ /\ Accepted(m, i)
             /\ sampling' = [sampling EXCEPT ![u] = ResolveSampling(i)]
             /\ keyed' = [keyed EXCEPT ![u] = TRUE]
             /\ putting' = [putting EXCEPT ![u] = TRUE]
             /\ Go(u, "put")
          \/ /\ ~Accepted(m, i)
             /\ Go(u, "fail")
             /\ UNCHANGED <<sampling, keyed, putting>>
    /\ UNCHANGED <<process, file, known, object, row, told, fault, due, marked,
                   passes, reader>>

\* The thread ends, having stored the object or not: submit may be past it.
PutEnds(u) ==
    /\ putting[u]
    /\ putting' = [putting EXCEPT ![u] = FALSE]
    /\ object' \in {object, [object EXCEPT ![u] = TRUE]}
    /\ UNCHANGED <<pc, process, file, known, keyed, sampling, row, told, fault, due,
                   marked, passes, reader>>

\* upload_video returns: the object is there and its stat agrees, or an error.
PutReturns(u) ==
    /\ At(u, "put")
    /\ ~putting[u]
    /\ \/ object[u] /\ Go(u, "store")
       \/ Go(u, "fail")
    /\ UNCHANGED <<process, file, known, keyed, sampling, putting, object, row, told,
                   fault, due, marked, passes, reader>>

\* The commit of the job, the details and the event is acknowledged; or it
\* raises, with the row left out, in, or still to be settled by the database.
Store(u) ==
    /\ At(u, "store")
    /\ \/ /\ row' = [row EXCEPT ![u] = "job"]
          /\ told' = [told EXCEPT ![u] = "ok"]
          /\ Go(u, "unlink")
          /\ UNCHANGED fault
       \/ \E r \in {"none", "job", "settling"} :
             /\ row' = [row EXCEPT ![u] = r]
             /\ fault' = [fault EXCEPT ![u] = IF r = "none" THEN @ ELSE @ \cup {"answer"}]
             /\ Go(u, "fail")
             /\ UNCHANGED told
    /\ UNCHANGED <<process, file, known, keyed, sampling, putting, object, due, marked,
                   passes, reader>>

Settle(u) ==
    /\ row[u] = "settling"
    /\ row' \in {[row EXCEPT ![u] = "none"], [row EXCEPT ![u] = "job"]}
    /\ UNCHANGED <<upload, object, due, marked, passes, reader>>

\* The handlers: _fail_process, whose own failure is logged and swallowed, and
\* the error that goes to the client.
Fail(u) ==
    /\ At(u, "fail")
    /\ process' \in {process, [process EXCEPT ![u] = "failed"]}
    /\ told' = [told EXCEPT ![u] = "error"]
    /\ Go(u, "unlink")
    /\ UNCHANGED <<file, known, keyed, sampling, putting, object, row, fault, due,
                   marked, passes, reader>>

\* The task is cancelled at an await: CancelledError is no Exception, so neither
\* the handlers nor _stream_upload's own clean-up run, only the finally clause.
\* A thread that uploads goes on; a commit may have left the process.
Cancel(u) ==
    /\ pc[u] \in {"stream", "probe", "put", "store", "fail"}
    /\ row' \in IF At(u, "store")
                THEN {[row EXCEPT ![u] = r] : r \in {"none", "settling", "job"}}
                ELSE {row}
    /\ fault' = [fault EXCEPT ![u] =
                    @ \cup {f \in {"file", "object", "answer"} :
                              \/ f = "file" /\ At(u, "stream")
                              \/ f = "object" /\ putting[u]
                              \/ f = "answer" /\ row'[u] # "none"}]
    /\ told' = [told EXCEPT ![u] = "error"]
    /\ Go(u, "unlink")
    /\ UNCHANGED <<process, file, known, keyed, sampling, putting, object, due, marked,
                   passes, reader>>

UnlinkOnly(u) ==
    /\ At(u, "unlink")
    /\ file' = [file EXCEPT ![u] = @ /\ ~known[u]]
    /\ Go(u, "done")
    /\ UNCHANGED <<process, known, keyed, sampling, putting, object, row, told, fault,
                   due, marked, passes, reader>>

\* The finally clause: the temporary file, then the object if there is a key.
Unlink(u) ==
    /\ At(u, "unlink")
    /\ file' = [file EXCEPT ![u] = @ /\ ~known[u]]
    /\ Go(u, IF keyed[u] THEN "check" ELSE "done")
    /\ UNCHANGED <<process, known, keyed, sampling, putting, object, row, told, fault,
                   due, marked, passes, reader>>

CheckOutcome(u) ==
    /\ At(u, "check")
    /\ \/ /\ Go(u, IF told[u] = "ok" THEN "done" ELSE "delete")
          /\ fault' = [fault EXCEPT ![u] = IF row[u] = "settling" THEN @ \cup {"doubt"} ELSE @]
          /\ UNCHANGED told
       \/ /\ fault' = [fault EXCEPT ![u] = @ \cup {"object", "answer"}]
          /\ told' = [told EXCEPT ![u] = "error"]
          /\ Go(u, "done")
    /\ UNCHANGED <<process, file, known, keyed, sampling, putting, object, row, due,
                   marked, passes, reader>>

\* _job_exists_for_object reads the committed rows.  When the read itself
\* fails or is cancelled, the object is left alone and the error takes the
\* place of the answer.
Check(u) ==
    /\ At(u, "check")
    /\ \/ /\ Go(u, IF row[u] = "job" THEN "done" ELSE "delete")
          /\ fault' = [fault EXCEPT ![u] = IF row[u] = "settling" THEN @ \cup {"doubt"} ELSE @]
          /\ UNCHANGED told
       \/ /\ fault' = [fault EXCEPT ![u] = @ \cup {"object", "answer"}]
          /\ told' = [told EXCEPT ![u] = "error"]
          /\ Go(u, "done")
    /\ UNCHANGED <<process, file, known, keyed, sampling, putting, object, row, due,
                   marked, passes, reader>>

\* delete_video; a failure is logged.
Delete(u) ==
    /\ At(u, "delete")
    /\ \/ /\ object' = [object EXCEPT ![u] = FALSE]
          /\ UNCHANGED fault
       \/ /\ fault' = [fault EXCEPT ![u] = @ \cup {"object"}]
          /\ UNCHANGED object
    /\ Go(u, "done")
    /\ UNCHANGED <<process, file, known, keyed, sampling, putting, row, told, due,
                   marked, passes, reader>>

\* The API process dies, its threads with it.
Die(u) ==
    /\ pc[u] \notin {"idle", "done", "dead"}
    /\ Go(u, "dead")
    /\ putting' = [putting EXCEPT ![u] = FALSE]
    /\ row' \in IF At(u, "store") THEN {row, [row EXCEPT ![u] = "job"]} ELSE {row}
    /\ UNCHANGED <<process, file, known, keyed, sampling, object, told, fault, due,
                   marked, passes, reader>>

----------------------------------------------------------------------------
(* Retention *)

\* The clock passes the source_retention_until of a job.
Expire(u) ==
    /\ row[u] = "job"
    /\ ~Expired(u)
    /\ due' = Append(due, u)
    /\ UNCHANGED <<upload, object, row, marked, passes, reader>>

Locked(u) == \E k \in Cleaners : u \in held[k]

\* The order of source_retention_until.
Older(u, v) == \E i, j \in DOMAIN due : i < j /\ due[i] = u /\ due[j] = v

\* The first Limit of a set of rows, and the row that a pass treats next.
Oldest(rows) == {u \in rows : Cardinality({v \in rows : Older(v, u)}) < Limit}
IsFirst(u, rows) == u \in rows /\ \A v \in rows : ~Older(v, u)

ClaimStored(k) ==
    LET open == {u \in Uploads : Expired(u) /\ ~marked[u] /\ object[u] /\ ~Locked(u)} IN
    /\ held[k] = {}
    /\ open # {}
    /\ claimed' = [claimed EXCEPT ![k] = Oldest(open)]
    /\ held' = [held EXCEPT ![k] = Oldest(open)]
    /\ UNCHANGED <<upload, object, row, due, marked, removed, reader>>

\* claim_expired_sources: the oldest rows first, whatever the job's status,
\* those of another pass skipped.
Claim(k) ==
    LET open == {u \in Uploads : Expired(u) /\ ~marked[u] /\ ~Locked(u)} IN
    /\ held[k] = {}
    /\ open # {}
    /\ claimed' = [claimed EXCEPT ![k] = Oldest(open)]
    /\ held' = [held EXCEPT ![k] = Oldest(open)]
    /\ UNCHANGED <<upload, object, row, due, marked, removed, reader>>

\* One source of the pass is removed.
RemoveSource(k) ==
    /\ \E u \in Uploads :
          /\ IsFirst(u, claimed[k])
          /\ object' = [object EXCEPT ![u] = FALSE]
          /\ removed' = [removed EXCEPT ![k] = @ \cup {u}]
          /\ claimed' = [claimed EXCEPT ![k] = @ \ {u}]
    /\ UNCHANGED <<upload, row, due, marked, held, reader>>

\* The store refuses: the row is passed over and keeps its mark unset.  Its
\* lock is held until the commit.
RemoveFails(k) ==
    /\ \E u \in Uploads :
          /\ IsFirst(u, claimed[k])
          /\ claimed' = [claimed EXCEPT ![k] = @ \ {u}]
    /\ UNCHANGED <<upload, object, row, due, marked, held, removed, reader>>

\* The commit of the pass.
Mark(k) ==
    /\ claimed[k] = {} /\ held[k] # {}
    /\ marked' = [u \in Uploads |-> marked[u] \/ u \in removed[k]]
    /\ held' = [held EXCEPT ![k] = {}]
    /\ removed' = [removed EXCEPT ![k] = {}]
    /\ UNCHANGED <<upload, object, row, due, claimed, reader>>

\* The pass ends without its commit: it failed or the worker died.
Abandon(k) ==
    /\ held[k] # {}
    /\ claimed' = [claimed EXCEPT ![k] = {}]
    /\ held' = [held EXCEPT ![k] = {}]
    /\ removed' = [removed EXCEPT ![k] = {}]
    /\ UNCHANGED <<upload, object, row, due, marked, reader>>

----------------------------------------------------------------------------
(* Readers *)

\* source: the row is read and the retention period looked at.
LookUp(r, u) ==
    /\ reader[r] = Idle
    /\ row[u] = "job"
    /\ reader' = [reader EXCEPT ![r] =
                     [upload |-> u, outcome |-> IF marked[u] \/ Expired(u)
                                                THEN "expired" ELSE "none"]]
    /\ UNCHANGED <<upload, object, row, due, marked, passes>>

\* download_video of a worker that has claimed the job: no such look.
Download(r, u) ==
    /\ reader[r] = Idle
    /\ row[u] = "job"
    /\ reader' = [reader EXCEPT ![r] =
                     [upload |-> u, outcome |-> IF object[u] THEN "served" ELSE "missing"]]
    /\ UNCHANGED <<upload, object, row, due, marked, passes>>

\* read_video_range, after the look and possibly after a removal.
ReadRange(r) ==
    /\ reader[r].upload # "none" /\ reader[r].outcome = "none"
    /\ reader' = [reader EXCEPT ![r].outcome =
                     IF object[reader[r].upload] THEN "served" ELSE "missing"]
    /\ UNCHANGED <<upload, object, row, due, marked, passes>>

ReaderEnds(r) ==
    /\ reader[r].outcome # "none"
    /\ reader' = [reader EXCEPT ![r] = Idle]
    /\ UNCHANGED <<upload, object, row, due, marked, passes>>

----------------------------------------------------------------------------

SubmitStep(u) ==
    \/ Submit(u) \/ Stream(u) \/ Probe(u) \/ PutReturns(u) \/ Store(u)
    \/ Fail(u) \/ Unlink(u) \/ Check(u) \/ Delete(u)

Next ==
    \/ \E u \in Uploads :
          \/ SubmitStep(u) \/ PutEnds(u) \/ Settle(u) \/ Cancel(u) \/ Die(u)
          \/ Expire(u)
    \/ \E k \in Cleaners :
          Claim(k) \/ RemoveSource(k) \/ RemoveFails(k) \/ Mark(k) \/ Abandon(k)
    \/ \E r \in Readers :
          \/ \E u \in Uploads : LookUp(r, u) \/ Download(r, u)
          \/ ReadRange(r) \/ ReaderEnds(r)

Spec == Init /\ [][Next]_vars

\* The workers keep making passes (run_iteration), a store that is asked again
\* and again answers some day, and passes are not given up for ever.
FairSpec ==
    /\ Spec
    /\ \A k \in Cleaners :
          /\ WF_vars(Claim(k)) /\ SF_vars(RemoveSource(k)) /\ WF_vars(Mark(k))
          /\ <>[][~Abandon(k)]_vars

----------------------------------------------------------------------------
(* Properties *)

\* A job within its retention period has its source, although the object is
\* stored before the row and removed by an upload that failed: the finally
\* clause asks the database, not its own outcome.  Nobody who reads the source
\* misses it, a reader that looked before and reads after a pass included.  The
\* one exception is a commit that was still to be settled when the clause asked.
SourceBacked ==
    /\ \A u \in Uploads :
          row[u] = "job" /\ ~Expired(u) /\ "doubt" \notin fault[u] => object[u]
    /\ \A r \in Readers :
          LET u == reader[r].upload IN
          reader[r].outcome = "missing" => Expired(u) \/ "doubt" \in fault[u]

\* An upload that has ended leaves no temporary file, no object without its job,
\* and no job behind an error, unless it was cancelled while it streamed or
\* stored, the clean-up itself failed, or the commit was not acknowledged.
LeavesNothing ==
    \A u \in Uploads :
        /\ told[u] = "ok" => row[u] = "job"
        /\ told[u] = "error" /\ row[u] = "job" => "answer" \in fault[u]
        /\ At(u, "done") =>
              /\ file[u] => "file" \in fault[u]
              /\ object[u] => row[u] = "job" \/ {"object", "answer"} \cap fault[u] # {}

\* A source whose period is over is removed and marked some day, although a
\* pass may fail after it has removed the object.
EventuallyMarked == \A u \in Uploads : Expired(u) ~> marked[u]
=============================================================================
