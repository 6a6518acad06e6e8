# Mvision: a TLA+ verification project

Mvision is a face recognition platform: an HTTP API (FastAPI) that enrolls and
recognizes faces in images, submits videos and controls live cameras; Python
workers that supervise native C++ (DeepStream/TensorRT) pipelines; and three
stores, PostgreSQL (identities, samples, processes, jobs, runs), MinIO (images,
videos, crops) and Qdrant (embeddings).  This directory models the parts of it
whose correctness depends on the order of events, checks them with TLC on small
instances, and proves the central properties with TLAPS for every value of the
constants.

## 1. The system

| Part | State it keeps | Operations | What is hard |
|---|---|---|---|
| Video job queue (`video_job_repository.py`, `video_processor.py`, `video_job_service.py`) | `video_job` row: status, cancellation flag, worker/token/lease, attempts, `available_at`; `process_record`; `video_track` rows | submit, claim, settle exhausted, renew, progress, finalize, fail, retry, mark cancelled, cancel | leases that lapse during a run, reads without locks followed by writes, crashes, retries, cancel races |
| Video upload and retention (`video_upload_service.py`, `video_job_service.py`, `probe.py`) | temporary file, MinIO object, process, job row | submit, clean up, expire and read a source | partial failure between two stores, cancelled requests, passes that overlap |
| Video analysis (`video_pipeline.cpp`, `video_worker_main.cpp`, `infrastructure/video/`, `video_tracking_service.py`, `video_identity_voting_service.py`, `video_result_service.py`) | tracks collected by the native process, events read, persons, faces | decode and track, emit, read, reconcile fragments, vote, block overlaps | a run that is cut off at any point, likeness that is not transitive, retries that meet their own faces |
| Live cameras and runs (`live_camera_service.py`, `live_camera_repository.py`, `live_run_repository.py`, `live_supervisor.py`) | `live_camera` desired state, `live_camera_run` generations with worker/token/lease | register, start, stop, delete; claim, renew, state updates, metrics, finish | fencing of an old worker, restart after lease loss, stop racing a claim |
| Live sessions (`live_session_*.py`, `mediamtx_*`) | session, generation and attempt rows, MediaMTX paths | create, stop, reconfigure, reconcile, sweep, claim, finish | locks taken in two orders, reads that a lock does not refresh, a sweep by an old list |
| Native live lifecycle (`live_pipeline.cpp`) | lifecycle state, rebuild attempts, timers; stop, failure and rebuild flags; the main loop; the graph | start, frame, poll, rebuild result, stop, close; bus error, pad failure, rebuild, teardown | four kinds of threads interleave; signals that come too early are lost |
| Live identity and events (`live_identity_service.py`, `live_event_service.py`, `native_runner.py`, `live_worker_queue.cpp`, `live_track_state.cpp`, `live_osd_state.cpp`) | per track identity, epoch, revision; the queues between the processes; events and snapshots; the label | evidence, vote, event, assignment, reset, label | one decision in three places, queues that replace and drop, stores that fail |
| Live protocol (`infrastructure/live/protocol.py`, `live_protocol.cpp`, the read loops of `native_runner.py` and `live_worker_main.cpp`) | the frames in two pipes, what each side has read | encode, decode, refuse | one protocol written twice; a refusal must end the run |
| Face samples, identities, enrollment, recognition, reconciliation (`face_sample_persistence_service.py`, `identity_service.py`, `enrollment_service.py`, `recognition_service.py`, `storage_reconciliation_service.py`) | identity, sample and process rows, MinIO objects, Qdrant points | match, persist, fail, retry, rename, delete, deactivate, repair | one decision in three stores without a common transaction |
| Image workers (`infrastructure/gpu/`, `worker_main.cpp`, `image_source_pool.cpp`) | round-robin index, connections, frame counts since the process started | request, push, wait, respond, time out, restart | counts that one lost frame shifts for good, late results, waits without a timeout |
| Schema and migrations (`alembic/`, `models.py`) | tables, rows, the revision | upgrade, downgrade | a command that is refused or dies half way, rows that are written meanwhile |
| HTTP layer, settings, observability, connectors, URI cipher, frontend | none of their own that another part depends on | request handling, formatting, metrics, cryptography | not modelled (section 8) |

How they interact: the API commits rows and never talks to a video or live worker;
workers poll PostgreSQL, claim a row under `FOR UPDATE SKIP LOCKED`, renew a lease
from a task of their own, and fence every write by the token of their claim.  A
live worker owns one native child, to which it writes commands and from which it
reads framed events; a video worker starts one native process per job and reads its
events to the end; the API talks to the image workers over sockets.  MinIO, Qdrant
and MediaMTX are changed without a common transaction with PostgreSQL.

What makes each part correct:

* video jobs: only the newest claim publishes results; a cancellation that was
  accepted is never followed by a completion; job, process and tracks agree; every
  job reaches an outcome;
* video sources: a job within its retention period has its source, an upload that
  failed leaves nothing, an expired source goes;
* video results: never a part of a video; persons, intervals and faces that fit
  the detections;
* live runs: one owner per camera, generations that only grow, a deleted camera
  that is never served again; what is wanted gets served, what is not is told to stop;
* live sessions: one generation is to run, rows that agree, no path in use swept;
* the native pipeline: one outcome, terminal states that are final, a stop that
  ends, a rebuild that happens;
* live identity: a name on the screen is one the service decided and recorded, and
  never changes into another at once;
* the live protocol: two sides of one build understand each other, and a start that
  is refused ends the run;
* face samples: a point that can be searched has its object and its row, a report
  has its evidence, and what was deleted is not reported;
* image workers: each client gets its own answers, and the worker comes back
  wherever it waits with a timeout;
* migrations: the tables are those of the revision, at the head those of the
  program.

## 2. The modules

| Module | What it is |
|---|---|
| `VideoJob`, `MCVideoJob`, `VideoJobProofs` | the video job queue, its workers and the cancel request |
| `VideoUpload`, `MCVideoUpload`, `VideoProofs` | upload, readers and retention of a video source |
| `VideoAnalysis`, `MCVideoAnalysis`, `VideoProofs` | what one job's source becomes: native process, reader, tracking, vote, faces |
| `RunLedger` | abstract: the generations of runs of a camera, or the attempts at a generation, as a ledger |
| `LiveRun`, `LiveRunProofs` | cameras, runs, supervisor, native worker as a process; implements `RunLedger` |
| `LiveSession`, `MCLiveSession`, `LiveSessionProofs` | sessions, generations, attempts, MediaMTX; implements `RunLedger` per generation |
| `PipelineOutcome` | abstract: what a native pipeline promises the process around it |
| `LivePipeline`, `MCLivePipeline`, `LivePipelineProofs` | the threads inside the native worker; implements `PipelineOutcome` |
| `LiveIdentity`, `MCLiveIdentity`, `LiveIdentityProofs` | evidence, decisions, events, assignments and labels of one run |
| `LiveProtocol`, `MCLiveProtocol`, `WorkerProofs` | the frames of a live run, both decoders and both read loops |
| `FaceSample`, `MCFaceSample`, `FaceSampleProofs` | samples and identities across the three stores |
| `ImageWorker`, `MCImageWorker`, `WorkerProofs` | the image path to the GPU |
| `Schema`, `Migration` | the tables, and the revisions that make them |

How they fit together.  `LiveRun` treats the native worker as a process that
serves, fails, stops or dies; `PipelineOutcome` is what it relies on there (a
pipeline that has failed never reports that it stopped, and stops only when asked),
and `LivePipeline` is shown to provide it.  `LiveSession` has the same native
process and leaves the way of a stop command to `LiveRun`.  `LiveIdentity` is the
inside of one run that `LiveRun` keeps up, and takes the frames between its
processes as messages; `LiveProtocol` shows that they are understood.
`VideoAnalysis` is the inside of the run and of the finalization that `VideoJob`
fences, and `FaceSample` what that finalization does to the stores; `VideoUpload`
makes the row that `VideoJob` submits.  `Schema` is what all of them write to.

Two proof modules are about two components each: `VideoProofs` about the source of a
video and what becomes of it, `WorkerProofs` about the two protocols with native
workers.  `VideoAnalysis` and `LiveProtocol` therefore name their specifications
`AnalysisSpec` and `ProtocolSpec`, and the formulas these are made of likewise; in
the other modules it is `Spec`.

Definitions keep the names of the source where there is one; `PROJECT.json`
gives for each definition the lines it stands for.  A definition whose name is
that of another one with a suffix, directly in front of it (`HeldThoughExpired`,
`UploadUnchecked`), is a deliberately wrong variant: it documents which mistake in
the code the property listed with it would uncover, and is not used by the
specification.

### 2.1 VideoJob

*State.* `job` holds the columns of `video_job` that decide anything: status, the
cancellation flag, the token (the number of the attempt that wrote it: a claim
increments `attempt_count`, and nothing decrements it), the lease as none, live or
expired, the attempts, and whether the retry's backoff has elapsed.  `process` is
`process_record.status`; `tracks` names the attempt whose `video_track` rows are
stored.  `worker` is the place in `process_one_job`, `renewal` the place in its
`_renew_lease` task, `client` a cancel request.

*Actions.* `Submit`; `Poll` (settle exhausted jobs, then claim); the run with its
progress reports; the finalization as `lock_owned`, persist and commit or abort;
the settlement of a cancellation or a failure; `Crash`; `LeaseLapse`,
`BackoffElapse`; the two halves of a cancel request.  The database runs at READ
COMMITTED, so a repository method that reads with `session.get` and writes on
flush is two steps, and the flush writes only what differs from what was read.
`SELECT ... FOR UPDATE` keeps its row until the commit.

*Bounds.* None but the constants: attempts are bounded by `max_attempts` itself.

### 2.2 LiveRun

*State.* `camera` (life and desired state), `generation` (the newest run of each
camera) and `run` (state and lease of each generation), `worker` (the place in
`process_one_camera`, the monitor task, the command queue), `native` (the child
process as the supervisor sees it), `shutdown` (SIGTERM received), `client` (an
API request between its read and its write).

*Actions.* Register, start, stop and delete, each a read and a flush under the
partial unique index that allows one running camera; claim (which fails an
abandoned run and inserts the next generation); launch; the monitor's rounds; the
persistence of events; the end of the runner in its ways; finish; the finally
block; SIGTERM, exit, restart, crash; and the child taking a stop, ending, failing or
dying.  A child whose pipeline has failed may take a stop as well (`"ending"`), but
then reports no stopped event.

*Bounds.* `MaxGenerations` bounds the runs of a camera that are followed.  Two
generations are enough for a takeover, three for a takeover of a takeover.

### 2.3 LivePipeline

*State.* `life` holds the fields of `LiveLifecycle`; `due` stands for the clock
(the timeout that `poll` looks at has passed); then the atomics `stop_requested`,
`failed` and `rebuild_requested`, the `is_running` flag of the `GMainLoop`, the
graph, a place for each of the main thread, the worker, the watchdog and the
thread inside `on_result_buffer`, and the events that were emitted.

*Actions.* One per stretch of code that no other thread can disturb.  Three facts
about the libraries carry the model: `g_main_loop_run` sets `is_running`, so a
quit before it is forgotten; a notification reaches only a thread that already
sleeps, and `stop` notifies without `control_mutex`; setting a graph to
`GST_STATE_NULL` waits for the buffers inside its probes.  `WorkerWaits` and
`WorkerSleeps` are the predicate and the sleep of `control_changed.wait`; between
the two the worker holds the mutex.

*Left out.* The evidence and labels of a frame and the assignments (`LiveIdentity`
has them), the length of the backoff, the operation events.  `start` is the initial state.

*Bounds.* None: `rebuild_attempts_` is counted up to the budget it is compared
with, which loses nothing since it is only ever tested against it (a wrap after
2^32 rebuilds is left out).

### 2.4 LiveSession

*State.* The rows of sessions, generations and attempts (`run`), the place of each
worker in `process_one_session` with the transaction it has open (`tx`), the native
child, requests between their read, their lock and their write, the reconciler's
pass, the paths that MediaMTX has, and the names that one sweep has seen stale.

*Actions.* `Create`, `ReconfigureRead`/`Lock`/`Write`, `StopLock`/`Write`; a
reconciliation as its list, one `Provision` per generation, and a `Sweep` that
deletes a path seen stale twice, with the two ways in which it fails; claim, launch,
a state update or a finish as the fenced `Begin` and the `Commit` of both rows, with
the rollbacks; the monitor; crashes of the API and of a worker.  A lock that is
waited for is a guard; a deadlock that PostgreSQL breaks is `TxFails`.

*Bounds.* `MaxGenerations`, `MaxAttempts`, `MaxRequests`.

### 2.5 LiveIdentity

*State.* Per track: the native frame count and evidence revision, the service's
identity and epoch, the native assignment state, the label.  Then the evidence
queue, the supervisor's work queue, the decision being recorded, the events and
snapshots stored, the cooldown, the command queue and the child's stdin.

*Actions.* `Frame` (count, evidence, label), `Deliver`, `Resolve` (a rejection, a
recognition or a confirmation, chosen for the voter), `Upload`, `Commit` and
`CommitFails` (with or without the row in), `CooldownLapses`, `Write`, `Apply`.

*Bounds.* `MaxEvidence` per track and `MaxPipe`; the capacities are parameters of
the program, set so low that every queue is full at times.

### 2.6 FaceSample

*State.* The rows of identities, samples and processes, the objects, the points, and
the places of requests, of a deletion and of a reconciling pass.

*Actions.* One per call of a store: search, match, promote; the steps of `persist`
(ensure, upload, blob ready, upsert, set active, record failure); finish, raise,
fail; crash and, for a video job, retry; rename, delete, deactivate one by one; list,
check, repair the row, repair the vector.  Each call may fail, before or after it
took effect.  The order of PostgreSQL's and the other stores' writes is the code's.

*Bounds.* The requests; a request is used once, a video job retries without a bound.

### 2.7 VideoUpload

*State.* The place of `submit`, what it knows (`temp_path`, `object_key`), the file,
the object, the thread that may still be uploading, the row or its undecided commit,
the answer, and `fault`, which records what went wrong that no handler sees; for
each retention pass the rows it has still to treat (`claimed`), the rows it keeps
locked until it commits (`held`) and the sources it has removed; the readers.

*Actions.* `Stream`, `Probe`, `PutEnds`, `PutReturns`, `Store`, `Settle` (the
undecided commit), `Fail`, `Cancel` (a `CancelledError` at any await), `Unlink`,
`Check`, `Delete`, `Die`; `Claim`, `RemoveSource`, `RemoveFails`, `Mark`, `Abandon`;
`LookUp`, `Download`, `ReadRange`.  `ResolveSampling` is the whole of
`resolve_sampling`, with Python's rounding of halves to even.

### 2.8 VideoAnalysis

*State.* The native process: stream, frames, rows of embeddings, accumulated tracks,
main loop, flags, exit code; the events on the pipe; what the runner has read; the
tracks that wait for `reconcile`, the persons, their votes and faces; the faces that
earlier attempts left.

*Actions.* The three probes of a frame, the end of the stream or an error, a missing
pad, signals, the bus and the cancel watch, the tests after the loop, the events one
by one, death at any point; reading, the end of the reader, termination and retry;
`Reconcile` per track, `Vote`, `Assign` per person, failure and completion.

*Data.* Embeddings are a table of likeness in hundredths, scores and weights small
numbers.  Which of several candidate persons has the nearest mean, the ten
candidates that a search is limited to, landmarks and boxes are left out or a choice.
The sort of the tracks and the winner of a vote are defined by what they satisfy, as
the members of a set (`Ordered`, `Resolve`); the order is total, so there is just one.

### 2.9 ImageWorker

*State.* The pool's turn, the clients and what each has sent, each worker's backlog,
place and batch, the next token, `total` (`completed_total`) and the frames of the
pipeline: in flight, counted, results held; slots that have stopped; how many frames
were lost or cut.  A result is a token with the image whose faces it holds, and a
response an id with such an image, so that an answer under a wrong id can be told.

*Actions.* `Request` connects, `Send` sends the size of the batch and then one image
after the other, and may stop anywhere, `GiveUp` closes; `Accept`, `ReadSize`, `Push`,
`ReadFails`, `TakeResults`, `WaitTimeout`, `Respond`; `OnBuffer` for any set of frames
that may leave together, `DecodeFails`; `Crash`, `Restart`.  The worker reads only what
was sent: it waits in `"size"` or `"read"` for a client that is silent.  A push into a
slot that has stopped succeeds as long as the slot has room, and then waits.

*Bounds.* `Room`, the images that the chain of a slot holds; the code counts bytes.

### 2.10 LiveProtocol

*State.* The settings, the two read loops with their decode contexts, the two pipes,
the revisions issued, and whether a frame of another build was delivered.

*Actions.* `Start`, `Assign`, `Stop`; `WorkerRead` (the first frame, later ones, a
refusal), `Emit`, `RunnerRead`, `RunnerEnd`; `Deviate` puts a frame of another build
into a pipe.  What a decoder takes is the set of records it accepts, so an unknown
or missing field needs no rule of its own.

*Numbers.* A double is told apart by whether it is between 0 and 1, whether single
precision holds it exactly and whether it is beyond the range of single precision; a
vector likewise, by its norm, and by whether rounding moves the norm across a limit.
`Single` is the `static_cast<float>` of `optional_float`, `float_array` and
`decode_observation`, which comes after the check for a finite double, so a large one
becomes infinite; `NativeMessage` applies it where the code does, and the thresholds
of a start stay doubles.

*Bounds.* `MaxMessages`; integers are scaled down with their widths (a 16-bit port is
at most 3, and so on), so that both sides of every limit are tried.

### 2.11 Schema and Migration

*State.* What is committed (revision, tables, rows), the transaction of the command
in progress with the statements that are left, and which way a command was refused.

*Actions.* `Begin` of an upgrade or a downgrade to any revision, `Execute` one
statement (which PostgreSQL may refuse because of the rows), `Commit`, `Crash`, and
`Write`, a row that another process inserts into a table that is not locked.  The
statements are those of the seven revisions; `Models` is `models.py`.

*Left out.* Names of constraints, plain indexes, server defaults, checks over
numbers or several columns, two commands at a time.  *Bounds.* `MaxRows`,
`MaxCommands`.

## 3. The runs

| Run | Instance | Shows |
|---|---|---|
| `video_job` | 1 job, 2 workers, 2 cancels, 2 attempts | the fence of the finalization holds (`FinalizeFenced`), job, process and tracks agree about an outcome (`OutcomeConsistent`), no completion after an accepted cancel (`CancelledNeverCompletes`), tracks only from the newest attempt (`NewestAttemptPublishes`), every job that nobody cancels is settled (`EventuallySettled`) |
| `live_run` | 1 camera, 1 worker that crashes and restarts, 2 requests, 3 generations | `OneOwner`, the refinement of `RunLedger` (`LedgerKept`), `DeletedStaysDown` with a start racing a delete, `UnwantedIsTold`, and `WantedIsServed` over two restarts |
| `live_pipeline` | budget 2 | one outcome (`OutcomeKept`, a refinement), `StoppedIsClosed`; `StopJoined`, `RebuildDone`: what is signalled outside the two windows is done |
| `live_session_requests` | 1 session, 2 generations, 3 requests, 2 at a time, 1 worker | `OneRunning`, `PathKept`, and `ReplacedIsTold`: a generation is replaced or stopped while its worker holds its lease, loses it or has still to launch the child |
| `live_session_attempts` | 1 session, 2 workers, 2 attempts, 3 requests | `AttemptsKept` (a refinement of `RunLedger`) and `StatesAgree` across takeovers |
| `live_identity` | 2 tracks, 2 faces, queues of 1 | `EpochAgrees`, `ShownIsRecorded`, `NamesNeverSwap` |
| `face_sample` | a video job with retries, an image request | `VectorBacked`, `ReportedIsStored`, `DeletedNotReported` |
| `video_upload` | an upload beside a stored one, 2 passes, 1 reader | `SourceBacked`, `LeavesNothing`, `EventuallyMarked` |
| `image_worker` | 1 worker, 2 slots with room for 1 image, 4 clients with batches of 0 to 2, two of them without a timeout, one image undecodable, one malformed | `OwnAnswer`, `WaitIsExact`, `ServerReturns` |
| `video_analysis` | 12 clips of 3 tracks over 5 frames, 2 attempts | `ResultIsWhole`, `PersonsApart`, `IntervalsExact`, `FacesApart` |
| `live_protocol` | every setting at its edges, every frame with one field wrong, 2 messages a side | `Understood`, `SameVerdict`, `StartSettles` |
| `migration` | 4 commands, 2 rows | `SchemaKept`, `UpgradesAccepted` |

Why the bounds are enough.  The fences compare a row with one token, so the
interesting cases need one row, an old owner and a new one.  `live_run` has one
worker, which suffices for the liveness properties and their restarts; that an old
worker beside a new one does no harm is proved for any number of workers
(section 5), and model-checked with two in `live_session_attempts`, where the code
is the same shape.  Races of requests need two requests on one row, and a third for
what comes after.  The pipeline is not bounded at all; a budget of two has a first,
a last and an exhausted attempt.  Four pieces of evidence are what one track needs
for a first identity, a rejection and a second identity; a second track is there
to push the first out of the queues.  A video job and an image request are the
smallest pair in which a retry meets a sample that somebody else has matched.  Three
tracks are the fewest for which likeness fails to be transitive.  Four batches are
one that loses a frame, one that is cut, one of a size that is refused and one of two
good images, in any order; with room for one image a late frame already fills its slot.
A replacement needs two generations, and a sweep three passes, since a path goes when it
was seen stale twice; both work on one generation at a time, so that one session will do.  Four commands are up,
down, up and one more.

`CHECK_DEADLOCK FALSE` is set where the system may come to rest: a closed pipeline,
sessions after the last request, an upload that has ended, a finished job, a run that
is over, migrations after the last command.

### 3.1 What the models show beside the properties

The properties state their exceptions, and these are behaviours of the code that a
reader should know of.

*Video jobs.*  A job that is cancelling when its worker dies matches neither
`claim_next` nor `settle_exhausted`, so it stays cancelling (`EventuallySettled` is
about jobs that nobody cancels).  A cancel request that read the row before an
outcome was committed writes over it; the write of `mark_cancelled` can cancel the
process of a job that has failed since (the exception of `OutcomeConsistent`); and a
release for a retry that lands after the last claim leaves a job that is neither
claimable nor exhausted (`Wedged`, the exception of `EventuallySettled`).

*Live runs.*  A pipeline that has failed for good leaves its process reading
commands: the run stays open, its lease renewed (`WantedIsServed` counts a failed
child as serving).  A SIGTERM during the claim is forgotten (`Sigterm`).  The run of
a dead worker is closed by a claim alone, so it stays open when its camera is
stopped: `UnwantedIsTold` is about the child, not about the row.  It says that the child
is told, not that it ends: nothing times a child that has been sent a stop, its
pipeline can lose the stop (below), and its lease is renewed all the while, so that a
start that follows is not served either (an exception of `WantedIsServed`).

*Live pipeline.*  A frame that passed the check of `stop_requested`, or a rebuild
that ends after a stop, meets a stopping lifecycle: FAILED instead of STOPPED.  A
frame that returns after a rebuild was decided makes the rebuild's result an invalid
transition, which fails the recovered pipeline.  A stop or a rebuild that is
signalled in front of `g_main_loop_run`, or a notification in front of the worker's
sleep, is lost (`StopJoined`, `QuitLost`).

*Live sessions.*  A reconfiguration that read the session before a stop starts a
generation of the stopped session: the row lock does not refresh what was read.
Reconciliations start from requests alone, so a source that comes online later waits
for the next request.  No loop of a worker calls `process_one_session`.  A child that
does not obey its stop is not timed here either (`ReplacedIsTold`).

*Live identity.*  The reset of a new epoch and the known identity that follows it are
one key of the command queue, so the second replaces the first; the native state
takes a higher epoch only from unknown and rejects it, and the label keeps the old
name until the next reset.  No native code sends `track_expired` or `output_ready`.

*Face samples.*  A retried video job may report a face that was deleted since its
first attempt (`DeletedNotReported` leaves video jobs out); a deletion during
`persist` leaves an active sample of a deleted identity.  A repairing pass during an
outage takes healthy samples down.  An upsert that raises after it took effect
leaves a vector that still matches, which `VectorBacked` allows since its object is
there.

*Video upload.*  None of the handlers catches `CancelledError`: the process record
stays started, the file of a running stream stays, and the uploading thread may
store the object after the clean-up.  `_job_exists_for_object` may ask before a
commit that was lost on the way is settled.

*Image workers.*  A frame that the decoder drops leaves `frame_count` behind
`completed_total` for the life of the process: each later batch waits for its
timeout of 120 seconds and is dropped, though its own frames are there (the
exceptions of `WaitIsExact`).  Neither `recv` nor `send` of the worker has a timeout:
a client of the pool closes after its own, but one without any, such as
`benchmark_lfw_3gpu.py`, holds the worker for as long as it is silent.  A slot that has
stopped goes on taking images until it is full, and the push that finds it full never
returns (the two exceptions of `ServerReturns`).

*Live protocol.*  Python bounds neither ports nor 32-bit fields, takes UUIDs in upper
case (and lowers them) where the native side compares exactly, and takes bytes for
lists of numbers; the native side truncates `gpu_id`, takes text that is not UTF-8,
rounds scores, boxes and embeddings to single precision after it has checked them, so
that a double like 1e300 becomes infinite, and computes the norm of an embedding from
the rounded elements, so that at the very edge of the limits the two sides may differ
(what `Plain` leaves out).  A start that the worker
refuses is reported under a header of no session, which the supervisor's context
refuses, so `LIVE_PROTOCOL_ERROR` never reaches it: the run fails all the same.  A
stop before the start exits with 0 and without a stopped event.

*Migrations.*  A downgrade is refused while rows exist that the older tables cannot
hold: video or cancelled processes, several epochs of one track, tracker ids from
2^63.

## 4. Fairness

* `VideoJob`: the poll loop runs for ever and every await of `process_one_job`
  returns (the native run has a deadline), so each worker's step is weakly fair; a
  backoff elapses, and a lease that nobody renews lapses.  A submission, a
  cancel, a crash, or the lapse of a lease that is being renewed is never forced.
* `LiveRun`: the same, per action, for the supervisor's steps, the monitor's
  rounds and the runner's end once its child has ended.  No request, signal, failure
  or crash is forced, and neither is the delivery of a stop nor the child's obedience
  to it: no timeout in the supervisor, the runner or the native worker stands behind
  them.
* `LiveSession`: the same, except that claims are not fair, since no loop makes
  them; requests that have begun go on, and so does a reconciling pass.
* `LivePipeline`: every thread goes on.  The two steps of the watchdog that need
  `control_mutex` are strongly fair, since a worker that wakes spuriously may take
  the mutex again and again, but does not keep it.  A timeout passes while no
  frame comes.  Frames, failures, stop requests and spurious wake-ups are not
  forced.
* `VideoUpload`: every iteration of a video worker makes a pass, so claims and marks
  are weakly fair; a store that is asked again and again answers some day (strong
  fairness of the removal); a worker is not restarted in the middle of a pass for
  ever (finitely many `Abandon`).  Nothing is assumed of uploads and readers.
* `ImageWorker`: the worker's thread goes on when what it waits for is there: a
  connection, something sent, the end of a stream, room in a slot, the frames or the
  timeout of `wait_for_frames`.  A response is written for sure only when the client is
  gone.  A client of the pool gives up some day, since each of its calls has a timeout;
  of the others, of what any client sends or reads, and of the pipeline nothing is
  assumed.  The container is restarted unless stopped.
* `LiveProtocol`: the two read loops read.
* `LiveIdentity`, `FaceSample`, `VideoAnalysis` and `Migration` state safety alone.

## 5. What is proved

For every value of the constants, under the named assumptions of the modules.  They
say that limits, budgets, slots and capacities are positive (a `LiveCommandQueue`
refuses a capacity of zero, `worker_main.cpp` a number of slots of zero), that bounds
and inputs are numbers, that the values which stand for "none" are no camera, session,
face, track or request, and that the states a child reports are open ones.
`VideoAnalysis` assumes besides that there are finitely many trackers, that likeness
is symmetric (a cosine is) and that an identity of the gallery is not one that a job
makes of a person (those are new UUIDs).  `LiveProtocol` assumes that the widths of
the integers are naturals, each below the next, that the settings have the types of
`config.py`, and of the literals that stand for a text that they are strings, which
the prover does not know.

* `VideoJobProofs`: `TypeCorrect`, `Fencing`, `Outcomes`, `Publication`,
  `Cancellations`.  `IInv` adds to the types and the two invariants what each
  status says about a row (`RowsOK`: the token is none or that of the newest
  attempt, and only a row that is processing, cancelling or cancelled has one; a
  cancelling row has the cancellation flag and a completed one has not) and what
  each place of a worker says about what it read (`WorkerTokens`).  Without the
  first a late writer could hold the token of a row that was released; without the
  second the write half of a settlement could carry any status.
* `LiveRunProofs`: `TypeCorrect`, `Ownership`, `Refinement`, `Deletion`.  `IInv`
  adds `OpenIsLeased` (an open run carries a lease, live or expired, so a
  generation without one is closed) and `ChildHasRun` (a child exists only under a
  worker that has claimed).  `Refinement` needs both: an event of a child reopens
  nothing only because the fence finds no lease on a closed run.
* `LivePipelineProofs`: `TypeCorrect`, `CleanStop`, `Budgeted`, `Terminal`,
  `Refinement`.  `IInv` has four parts besides the types.  `FlowInv` ties the
  buffers inside probes to the places of the worker: this is why the worker's
  check of `failed` cannot be overtaken before the StoppedEvent.  `FailureInv`
  relates the two failure flags to the count of events.  `StoppedInv` says that
  only a finished worker has stopped the lifecycle, so no rebuild result can fail
  it afterwards.  `AttemptsInv` extends `BudgetKept` to the head of the loop, where
  a failed rebuild arrives.

* `LiveSessionProofs`: `TypeCorrect`, `Exclusion`, `Agreement`,
  `PathsOfRunningKept`, `Refinement`.  `IInv` has two halves.  `ApiInv` is about
  requests and MediaMTX: exactly the numbers up to the current one are generations
  (`SessionsOK`), a request that waits for its lock has read one of them
  (`ClientsOK`), and a path that a pass in progress has not listed is that of a
  stopped generation (`MediaOK`), which is why a sweep by an old list does no harm.
  `RowInv` is about workers: only the newest attempt is open (`RowsOK`), an attempt
  belongs to one worker (`Alone`), and while a transaction is open its attempt stays
  the newest and open, and nobody but a request that stops the generation writes the
  generation's state (`HeldOK`).  Without the last, the commit of two rows
  could close an attempt whose generation another worker had taken over.
* `LiveIdentityProofs`: `TypeCorrect`, `EpochAgreement`, `ShownAreRecorded`,
  `NamesGoThroughNone`.  `EpochAgrees` speaks of the two ends of a chain of queues;
  `IInv` says the same of everything on the way: an assignment in the command queue
  or the pipe, and the decision that waits to be recorded, is of an epoch the service
  has reached, and of its identity there (`CarriedOK`, `TaskOK`, `NativeOK`).  Each of
  them has its event (`Recorded`), an epoch has one known event at most (`RowsOK`), so
  the clean-up after a failed commit deletes no event that another face needs; and the
  cooldown lets a name through only on the strength of an earlier event (`CooldownOK`).
  `QueueOK` keeps the two views of the native queue together.
* `FaceSampleProofs`: `TypeCorrect`, `Backing`, `Evidence`, `DeletionIsFinal`.  `IInv`
  says what the columns of a row promise of MinIO and Qdrant (`RowOK`), what each place
  in `persist` says about the steps behind it (`PlaceOK`), that an image request, which
  is never retried, finds no sample under its id (`FreshOK`), that a completed request
  is over (`ReportOK`), that a reconciling pass works on rows that exist (`PassOK`), and
  that a deletion is final (`GoneOK`), so that what was deleted when a request came
  still is when it selects its face.
* `VideoProofs` about `VideoUpload`: `TypeCorrect`, `Backed`, `NothingLeft`.  `IInv`
  says what the place of `submit` promises (`StageOK`), that a row which is committed
  or may still be has its object (`RowKept`), that the finally clause deletes only
  where there is no row, or in doubt (`DeleteOK`), which fault explains each thing that
  is left (`TidyOK`), that passes hold expired rows (`ClaimOK`) and that a reader has
  seen its job (`ReaderOK`).  A lemma about `ResolveSampling` shows that an accepted
  sampling never asks for every zeroth frame.
* `VideoProofs` about `VideoAnalysis`: `AnalysisTypeCorrect`, `WholeResult`,
  `PersonsAreApart`, `FacesAreApart`.  `AInv` follows a result through the processes.
  A native process that has a result saw the end of its stream and no error (`EndOK`);
  each event is that of the accumulator as it is, and nothing comes after the completed
  event (`EventsOK`); each track of a result is still to be written, in the pipe or read
  (`SentOK`), and a job is finalized after an exit with 0 and a completed event
  (`FinalOK`): so what was read is the whole clip, although pipe, process and reader
  may each end at any point.  `PersonsOK` says after every turn of `reconcile` that a
  track waits or belongs to one person, whose tracks are apart and alike pair by pair,
  which no comparison with a mean or with the newest track would give; `VotesOK` that a
  vote knows the faces of earlier attempts only, and `FacesOK` that persons with a face
  of this attempt in common are apart.
* `WorkerProofs` about `ImageWorker`: `TypeCorrect`, `Answered`, `Waited`.  `IInv` says
  that a batch has consecutive tokens (`BatchOK`), that the frames that came out, are in
  flight or were lost are as many as those added to `completed_total`, cut off or still
  being read (`CountOK`), that unless a frame was lost the batch's frames are in
  flight or among the results (`FlightOK`), and that what is in flight, held or found
  under a token of the batch is that very image (`ImagesOK`), which a token that is
  given twice would break.  The lemmas show that sorting by token is
  well defined for any finite set of tokens (`KthExists`, by the injection of tokens
  into ranks) and restores the order of a complete batch (`AllInOrder`).
* `WorkerProofs` about `LiveProtocol`: `ProtocolInvariance`, `ProtocolTypeCorrect`,
  `EachUnderstandsTheOther`, `DecodersAgree`.  The last is no matter of steps: the lemmas
  `SameFrames` and `SameMessage` compare the two decoders, type by type, on every plain
  frame, the second up to the rounding to single precision (`SameUpToRounding`).  `Understood` needs what is on the pipes.  `PInv` says, as long as the settings
  fit and no frame of another build was delivered, that the start is the first command
  and the only one, and the worker knows its header once it has read it (`CommandsOK`);
  that the assignments of a track on the pipe have revisions above the one the worker
  has, each above those before it, up to the newest (`RevisionsOK`); and that the events
  on the other pipe are ones the supervisor decodes, of this run, numbered one after the
  other up to the newest (`EventsOK`).  Without the last two a refusal in the decode
  context could not be excluded.  That each command and event of this build is decoded
  is a lemma for each (`StartDecodes` to `EvidenceReads`), for every width.

`Invariance` and `TypeCorrect` of each module (`AnalysisInvariance`, `ProtocolInvariance`
and so on), `Budgeted` and `Terminal` state facts that the other theorems rest on or that
hold for every budget; no run checks them separately.

Each proof has a lemma per action or group of actions, a step lemma, and a last
step by temporal logic.  Every inductive invariant was an invariant of a TLC run
before it was proved.

Only model-checked: the liveness properties `EventuallySettled`, `UnwantedIsTold`,
`WantedIsServed`, `StopJoined`, `RebuildDone`, `ReplacedIsTold`, `ServerReturns`,
`EventuallyMarked` and `StartSettles` (the prover does neither fairness nor
`ENABLED`); `IntervalsExact` of `VideoAnalysis`, which is about what a fold over the
frames computes, and the properties of `Migration`, whose tables are what `SchemaAt`
computes from a list of statements (induction over data is out of the prover's reach).

## 6. Where a property says least

* `OutcomeKept` allows a FAILED after a stop, as the code does.
* `WaitIsExact` says nothing after a frame was lost and a batch cut off.
* `ShownIsRecorded` is about some event of the face, not about one per epoch: the
  cooldown suppresses the others.
* `UnwantedIsTold` and `ReplacedIsTold` end where the stop is sent.
* `ServerReturns` excepts the worker that waits for a client without a timeout or for
  room in a slot.
* `SameVerdict` is about frames within the widths that both languages have, in UTF-8,
  within the range of single precision and not at the edge of the norm (`Plain`), and
  takes a number and its rounding for the same.
* `LeavesNothing` excepts what a cancellation of a running stream or put, or at the
  commit, leaves; `FacesApart` the faces of earlier attempts; `StopJoined` a stop in
  one of the two windows.
* `SchemaKept` compares what `Schema` keeps of a table.
* Two cameras are in no run: the conflict at the partial unique index
  (`SingleRunningConflict`) is in the model and in the theorems only.

## 7. Plan

The modules of the plan are written, and every safety property that a run checks has
its theorem, except the three about what a fold computes (section 5).  What could
follow:

1. Action properties from the inductive invariants that are proved: which steps may
   change a committed row, an open attempt or an event, where a run would check them
   as well.
2. `LiveProtocol` beyond `Plain`: which of the frames that one side alone accepts the
   other side can send.
3. Parts of section 8 whose order of events matters: the notifier's queues, and two
   alembic commands at once.

## 8. What is not modelled

Decoding, inference, the tracker itself and the CUDA kernels (floating point and
device code); the evidence bank, which ranks observations by floating-point quality;
the bytes of MessagePack and of the video and image frames; the HTTP layer, the
settings, the metrics and the traces; connectors (one row each, without
interaction) and the cipher of the camera URIs; the notifier's queues; the frontend
and the scripts.  Two alembic commands at once are not modelled either, nor stream
time across runs, on which the cooldown of an event depends.

Hazards without a property.  `apply_assignment` waits without a timeout for a
callback of the main context.  `rebuild_attempt - 1` wraps when a frame has reset
it, which makes the backoff its longest.  The frames-per-second sampling of a session
is accepted and then rejected by every start.  A full control queue of the native
worker drops an event without counting it.  Two requests with the same new person
create an identity each.  `on_sgie_output` divides by the norm of an embedding.
