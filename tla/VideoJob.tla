------------------------------ MODULE VideoJob ------------------------------
(***************************************************************************)
(* The durable video job queue: the video_job row, the process_record row  *)
(* and the video_track rows of each job in PostgreSQL, the worker loop of  *)
(* VideoJobProcessor with its lease renewal task, and the API's cancel.    *)
(*                                                                         *)
(* The database runs at READ COMMITTED.  A repository method that reads    *)
(* with session.get and writes with session.flush is therefore two steps   *)
(* here: a read that takes no lock, and an UPDATE of the changed columns   *)
(* by primary key, which waits for the row lock of a finalization and is   *)
(* then applied to whatever the row holds.  SELECT ... FOR UPDATE and the  *)
(* commit of a transaction are one step each.                              *)
(*                                                                         *)
(* Time is not a number: a lease is live until it lapses, and a retry is   *)
(* not ready until its backoff has elapsed; both may happen at any moment. *)
(*                                                                         *)
(* A claim writes a fresh worker_id/lease_token pair and increments        *)
(* attempt_count, which nothing ever decrements, so the pair is            *)
(* represented by the number of the attempt that wrote it.                 *)
(***************************************************************************)
EXTENDS Naturals, FiniteSets

CONSTANTS
    Jobs,          \* job ids, ordered by created_at
    Workers,       \* video worker processes
    Clients,       \* API requests that cancel jobs
    MaxAttempts,   \* video_job.max_attempts
    MaxConcurrent  \* settings.video_max_concurrent_jobs

ASSUME JobsAssumption == Jobs \subseteq Nat \ {0}
ASSUME LimitsAssumption == MaxAttempts \in Nat \ {0} /\ MaxConcurrent \in Nat \ {0}

VARIABLES
    job,      \* the video_job rows
    process,  \* process_record.status of the job's process
    tracks,   \* the attempt whose video_track rows are stored, or NoToken
    worker,   \* the state of process_one_job in each worker
    renewal,  \* the state of its _renew_lease task
    client    \* the state of each cancel request

vars == <<job, process, tracks, worker, renewal, client>>

NoToken == 0
NoJob == 0

Terminal == {"completed", "failed", "cancelled"}
Status == {"absent", "pending", "processing", "cancelling"} \cup Terminal
Leased == {"processing", "cancelling"}

JobRow == [status: Status, cancel: BOOLEAN, token: Nat,
           lease: {"none", "live", "expired"}, attempts: Nat, ready: BOOLEAN]

\* Where process_one_job stands: "run" downloads the source and runs the
\* native pipeline; "finalize" reconciles and votes before lock_owned; "persist"
\* and "abort" hold the row lock of the finalization's transaction; the four
\* "...Read"/"...Write" places are the two halves of mark_cancelled and of
\* fail/release_for_retry; "done" is the finally block.
Place == {"idle", "run", "finalize", "persist", "abort", "cancelRead",
          "cancelWrite", "failRead", "failWrite", "done"}

WorkerState == [at: Place, job: Jobs \cup {NoJob}, token: Nat,
                lost: BOOLEAN, seen: Status]
ClientState == [at: {"idle", "write"}, job: Jobs \cup {NoJob}, seen: Status]

TypeOK ==
    /\ job \in [Jobs -> JobRow]
    /\ process \in [Jobs -> {"none", "started"} \cup Terminal]
    /\ tracks \in [Jobs -> Nat]
    /\ worker \in [Workers -> WorkerState]
    /\ \A w \in Workers : worker[w].at # "idle" => worker[w].job \in Jobs
    /\ renewal \in [Workers -> {"asleep", "write", "over"}]
    /\ client \in [Clients -> ClientState]
    /\ \A c \in Clients : client[c].at = "write" => client[c].job \in Jobs

NoRow == [status |-> "absent", cancel |-> FALSE, token |-> NoToken,
          lease |-> "none", attempts |-> 0, ready |-> FALSE]
IdleWorker == [at |-> "idle", job |-> NoJob, token |-> NoToken,
               lost |-> FALSE, seen |-> "absent"]
IdleClient == [at |-> "idle", job |-> NoJob, seen |-> "absent"]

Init ==
    /\ job = [j \in Jobs |-> NoRow]
    /\ process = [j \in Jobs |-> "none"]
    /\ tracks = [j \in Jobs |-> NoToken]
    /\ worker = [w \in Workers |-> IdleWorker]
    /\ renewal = [w \in Workers |-> "asleep"]
    /\ client = [c \in Clients |-> IdleClient]

-----------------------------------------------------------------------------
(* What the repository's statements test and write.                        *)

RowOf(w) == job[worker[w].job]

RowNeverLocked(j) == FALSE

\* The transaction of a finalization keeps the row it selected FOR UPDATE.
RowLocked(j) == \E w \in Workers : worker[w].at \in {"persist", "abort"} /\ worker[w].job = j

ClearLease(row) == [row EXCEPT !.token = NoToken, !.lease = "none"]

\* An ORM flush leaves out a column whose value is the one that was read.
Flushed(read, written, current) == IF written = read THEN current ELSE written

OwnsActiveLease(w) ==
    /\ RowOf(w).status \in Leased
    /\ RowOf(w).token = worker[w].token
    /\ RowOf(w).lease = "live"

OwnedWithoutCancelTest(w) == OwnsActiveLease(w)
OwnedWithoutTokenTest(w) ==
    /\ RowOf(w).status \in Leased
    /\ RowOf(w).lease = "live"
    /\ ~RowOf(w).cancel

\* lock_owned: the lease must be active and no cancellation requested.
LockOwned(w) == OwnsActiveLease(w) /\ ~RowOf(w).cancel

\* What fail, release_for_retry and mark_cancelled test.
HoldsToken(w) == RowOf(w).token = worker[w].token

\* settle_exhausted selects FOR UPDATE SKIP LOCKED.
Exhausted(j) ==
    /\ job[j].status \in Leased
    /\ job[j].lease = "expired"
    /\ job[j].attempts >= MaxAttempts
    /\ ~RowLocked(j)

SettledStatus(j) == IF job[j].status = "cancelling" THEN "cancelled" ELSE "failed"

Active == {j \in Jobs : job[j].status \in Leased /\ job[j].lease = "live"}

CandidatesPendingOnly ==
    {j \in Jobs : /\ job[j].attempts < MaxAttempts
                  /\ job[j].status = "pending"
                  /\ job[j].ready
                  /\ ~RowLocked(j)}

\* claim_next selects FOR UPDATE SKIP LOCKED.
Candidates ==
    {j \in Jobs : /\ job[j].attempts < MaxAttempts
                  /\ \/ job[j].status = "pending" /\ job[j].ready
                     \/ job[j].status = "processing" /\ job[j].lease = "expired"
                  /\ ~RowLocked(j)}

\* The job claim_next takes: the oldest candidate, if the limit admits one.
Claimable ==
    {j \in Candidates : /\ Cardinality(Active) < MaxConcurrent
                        /\ \A i \in Candidates : j <= i}

\* The rows that the repository's methods leave.
Ended(row, read, status) == [ClearLease(row) EXCEPT !.status = Flushed(read, status, row.status)]
Released(row, read) == [Ended(row, read, "pending") EXCEPT !.ready = FALSE]
Claimed(row) ==
    [row EXCEPT !.status = "processing", !.token = row.attempts + 1,
                !.lease = "live", !.attempts = row.attempts + 1]

-----------------------------------------------------------------------------
(* The job queue and time.                                                 *)

\* VideoUploadService.submit creates the process, then the job.
Submit(j) ==
    /\ job[j].status = "absent"
    /\ \A i \in Jobs : i < j => job[i].status # "absent"
    /\ job' = [job EXCEPT ![j].status = "pending", ![j].ready = TRUE]
    /\ process' = [process EXCEPT ![j] = "started"]
    /\ UNCHANGED <<tracks, worker, renewal, client>>

\* lease_expires_at passes.
LeaseLapse(j) ==
    /\ job[j].lease = "live"
    /\ job' = [job EXCEPT ![j].lease = "expired"]
    /\ UNCHANGED <<process, tracks, worker, renewal, client>>

\* available_at passes.
BackoffElapse(j) ==
    /\ job[j].status = "pending"
    /\ ~job[j].ready
    /\ job' = [job EXCEPT ![j].ready = TRUE]
    /\ UNCHANGED <<process, tracks, worker, renewal, client>>

Settled == [j \in Jobs |-> IF Exhausted(j)
                           THEN Ended(job[j], job[j].status, SettledStatus(j))
                           ELSE job[j]]

SettledProcessUnchanged == process
SettledProcess == [j \in Jobs |-> IF Exhausted(j) THEN SettledStatus(j) ELSE process[j]]

\* The first transaction of process_one_job: settle_exhausted with the processes
\* of the settled jobs, then claim_next under the advisory lock, then commit.
Poll(w) ==
    /\ worker[w].at = "idle"
    /\ process' = SettledProcess
    /\ \/ \E j \in Claimable :
            /\ job' = [Settled EXCEPT ![j] = Claimed(job[j])]
            /\ worker' = [worker EXCEPT ![w] = [IdleWorker EXCEPT
                             !.at = "run", !.job = j, !.token = job[j].attempts + 1]]
       \/ /\ Claimable = {}
          /\ job' = Settled
          /\ UNCHANGED worker
    /\ UNCHANGED <<tracks, renewal, client>>

-----------------------------------------------------------------------------
(* The lease renewal task of a claimed job.                                *)

\* renew_lease reads the row; a lease it no longer owns ends the task.
RenewRead(w) ==
    /\ worker[w].at # "idle"
    /\ renewal[w] = "asleep"
    /\ \/ /\ OwnsActiveLease(w)
          /\ renewal' = [renewal EXCEPT ![w] = "write"]
          /\ UNCHANGED worker
       \/ /\ ~OwnsActiveLease(w)
          /\ renewal' = [renewal EXCEPT ![w] = "over"]
          /\ worker' = [worker EXCEPT ![w].lost = TRUE]
    /\ UNCHANGED <<job, process, tracks, client>>

\* The flush writes lease_expires_at alone.
RenewWrite(w) ==
    /\ worker[w].at # "idle"
    /\ renewal[w] = "write"
    /\ ~RowLocked(worker[w].job)
    /\ job' = [job EXCEPT ![worker[w].job].lease = "live"]
    /\ renewal' = [renewal EXCEPT ![w] = "asleep"]
    /\ UNCHANGED <<process, tracks, worker, client>>

-----------------------------------------------------------------------------
(* process_one_job after the claim.                                        *)

Go(w, at) == worker' = [worker EXCEPT ![w].at = at]

\* Every outcome of a step returns without a write when the lease is lost.
GoUnlessLost(w, at) == Go(w, IF worker[w].lost THEN "done" ELSE at)

\* update_progress or the cancellation check finds the lease gone.  The check
\* does not look at the row's status, update_progress does.
LeaseLost(w) ==
    /\ worker[w].at = "run"
    /\ ~OwnsActiveLease(w)
    /\ worker' = [worker EXCEPT ![w].lost = TRUE, ![w].at = "done"]
    /\ UNCHANGED <<job, process, tracks, renewal, client>>

\* The cancellation check of the runner sees the request, or the native worker
\* exits with code 3 because it was terminated.
NativeCancelled(w) ==
    /\ worker[w].at = "run"
    /\ GoUnlessLost(w, "cancelRead")
    /\ UNCHANGED <<job, process, tracks, renewal, client>>

\* The download, the native run or the voting fails, or the run times out.
NativeFailed(w) ==
    /\ worker[w].at \in {"run", "finalize"}
    /\ GoUnlessLost(w, "failRead")
    /\ UNCHANGED <<job, process, tracks, renewal, client>>

NativeCompleted(w) ==
    /\ worker[w].at = "run"
    /\ GoUnlessLost(w, "finalize")
    /\ UNCHANGED <<job, process, tracks, renewal, client>>

\* The finalization locks the row it still owns, or gives up.
FinalizeLock(w) ==
    /\ worker[w].at = "finalize"
    /\ ~RowLocked(worker[w].job)
    /\ Go(w, IF LockOwned(w) THEN "persist" ELSE "done")
    /\ UNCHANGED <<job, process, tracks, renewal, client>>

\* Persisting a face sample fails; its own transaction fails the process.
SampleFailed(w) ==
    /\ worker[w].at = "persist"
    /\ process' = [process EXCEPT ![worker[w].job] = "failed"]
    /\ Go(w, "abort")
    /\ UNCHANGED <<job, tracks, renewal, client>>

\* The exception rolls the finalization back.
FinalizeAbort(w) ==
    /\ worker[w].at \in {"persist", "abort"}
    /\ GoUnlessLost(w, "failRead")
    /\ UNCHANGED <<job, process, tracks, renewal, client>>

\* replace_for_job, complete and the process's complete commit together.  The
\* token that complete tests is the one lock_owned matched, on the same object.
FinalizeCommit(w) ==
    LET j == worker[w].job IN
    /\ worker[w].at = "persist"
    /\ job' = [job EXCEPT ![j] = Ended(job[j], job[j].status, "completed")]
    /\ process' = [process EXCEPT ![j] = "completed"]
    /\ tracks' = [tracks EXCEPT ![j] = worker[w].token]
    /\ Go(w, "done")
    /\ UNCHANGED <<renewal, client>>

\* The first half of mark_cancelled, fail and release_for_retry.
ReadHeld(w, from, to) ==
    /\ worker[w].at = from
    /\ worker' = [worker EXCEPT ![w].at = IF HoldsToken(w) THEN to ELSE "done",
                                ![w].seen = RowOf(w).status]
    /\ UNCHANGED <<job, process, tracks, renewal, client>>

MarkCancelledRead(w) == ReadHeld(w, "cancelRead", "cancelWrite")
HandleFailureRead(w) == ReadHeld(w, "failRead", "failWrite")

MarkCancelledWrite(w) ==
    LET j == worker[w].job IN
    /\ worker[w].at = "cancelWrite"
    /\ ~RowLocked(j)
    /\ job' = [job EXCEPT ![j] = Ended(job[j], worker[w].seen, "cancelled")]
    /\ process' = [process EXCEPT ![j] = "cancelled"]
    /\ Go(w, "done")
    /\ UNCHANGED <<tracks, renewal, client>>

\* The last attempt fails the job and its process; an earlier one returns the
\* job to the queue, its cancellation request kept.
HandleFailureWrite(w) ==
    LET j == worker[w].job IN
    /\ worker[w].at = "failWrite"
    /\ ~RowLocked(j)
    /\ \/ /\ worker[w].token >= MaxAttempts
          /\ job' = [job EXCEPT ![j] = Ended(job[j], worker[w].seen, "failed")]
          /\ process' = [process EXCEPT ![j] = "failed"]
       \/ /\ worker[w].token < MaxAttempts
          /\ job' = [job EXCEPT ![j] = Released(job[j], worker[w].seen)]
          /\ UNCHANGED process
    /\ Go(w, "done")
    /\ UNCHANGED <<tracks, renewal, client>>

\* The finally block cancels the renewal task and waits for it.
Finish(w) ==
    /\ worker[w].at = "done"
    /\ worker' = [worker EXCEPT ![w] = IdleWorker]
    /\ renewal' = [renewal EXCEPT ![w] = "asleep"]
    /\ UNCHANGED <<job, process, tracks, client>>

\* The worker dies, or an exception leaves process_one_job: open transactions
\* roll back and the container restarts the loop.
Crash(w) ==
    /\ worker[w].at # "idle"
    /\ worker' = [worker EXCEPT ![w] = IdleWorker]
    /\ renewal' = [renewal EXCEPT ![w] = "asleep"]
    /\ UNCHANGED <<job, process, tracks, client>>

-----------------------------------------------------------------------------
(* VideoJobService.cancel.                                                 *)

\* get_by_id and request_cancel share one session, so the row is read once.
CancelRead(c, j) ==
    /\ client[c].at = "idle"
    /\ job[j].status \in {"pending", "processing"}
    /\ client' = [client EXCEPT ![c] = [at |-> "write", job |-> j, seen |-> job[j].status]]
    /\ UNCHANGED <<job, process, tracks, worker, renewal>>

CancelWrite(c) ==
    LET j == client[c].job IN
    /\ client[c].at = "write"
    /\ ~RowLocked(j)
    /\ \/ /\ client[c].seen = "pending"
          /\ job' = [job EXCEPT ![j].status = "cancelled", ![j].cancel = TRUE]
          /\ tracks' = [tracks EXCEPT ![j] = NoToken]
          /\ process' = [process EXCEPT ![j] = "cancelled"]
       \/ /\ client[c].seen = "processing"
          /\ job' = [job EXCEPT ![j].status = "cancelling", ![j].cancel = TRUE]
          /\ UNCHANGED <<tracks, process>>
    /\ client' = [client EXCEPT ![c] = IdleClient]
    /\ UNCHANGED <<worker, renewal>>

-----------------------------------------------------------------------------
Queue == \E j \in Jobs : Submit(j) \/ LeaseLapse(j) \/ BackoffElapse(j)

Renewal(w) == RenewRead(w) \/ RenewWrite(w)

Finalization(w) ==
    FinalizeLock(w) \/ SampleFailed(w) \/ FinalizeAbort(w) \/ FinalizeCommit(w)

Settlement(w) ==
    \/ MarkCancelledRead(w) \/ MarkCancelledWrite(w)
    \/ HandleFailureRead(w) \/ HandleFailureWrite(w)

Run(w) == LeaseLost(w) \/ NativeCancelled(w) \/ NativeFailed(w) \/ NativeCompleted(w)

Cancellation == \E c \in Clients : CancelWrite(c) \/ \E j \in Jobs : CancelRead(c, j)

Next ==
    \/ Queue
    \/ Cancellation
    \/ \E w \in Workers :
          \/ Poll(w) \/ Renewal(w) \/ Run(w) \/ Finalization(w)
          \/ Settlement(w) \/ Finish(w) \/ Crash(w)

Spec == Init /\ [][Next]_vars

\* A lease whose attempt no worker is working on any more, so nobody renews it.
Orphaned(j) ==
    ~\E w \in Workers : /\ worker[w].at # "idle"
                        /\ worker[w].job = j
                        /\ worker[w].token = job[j].token

\* The loop polls for ever, every await of process_one_job returns (the native
\* run has a deadline), and time passes.  Nothing forces a crash, a lapse of a
\* lease that is being renewed, a submission or a cancel request.
Fairness ==
    /\ \A w \in Workers :
          WF_vars(Poll(w)) /\ WF_vars(Run(w) \/ Finalization(w) \/ Settlement(w) \/ Finish(w))
    /\ \A j \in Jobs :
          WF_vars(LeaseLapse(j) /\ Orphaned(j)) /\ WF_vars(BackoffElapse(j))

FairSpec == Spec /\ Fairness

-----------------------------------------------------------------------------
(* Properties.                                                             *)

\* While a finalization persists its results, the row is the one its lock_owned
\* matched: still processing, still carrying its token, and not cancelled,
\* although leases lapse, other workers poll and clients cancel meanwhile.  No
\* other finalization works on the job.
FinalizeFenced ==
    \A w \in Workers : worker[w].at \in {"persist", "abort"} =>
        /\ HoldsToken(w)
        /\ RowOf(w).status = "processing"
        /\ ~RowOf(w).cancel
        /\ \A v \in Workers :
              worker[v].at \in {"persist", "abort"} /\ worker[v].job = worker[w].job => v = w

\* The three records of a job agree once it has an outcome: the process has the
\* same terminal status, and a completed job has its track rows.  One exception
\* is known: mark_cancelled, having read a row that a racing cancel had already
\* made cancelled, flushes no status, so its write can cancel the process of a
\* job that has failed since.
OutcomeConsistent ==
    \A j \in Jobs :
        /\ job[j].status \in Terminal =>
              \/ process[j] = job[j].status
              \/ job[j].status = "failed" /\ job[j].cancel /\ process[j] = "cancelled"
        /\ job[j].status = "completed" => tracks[j] # NoToken

\* A cancellation request that has been committed is never followed by a
\* completion, whatever attempt was running, retried or finalizing then.
CancelledNeverCompletes ==
    [][\A j \in Jobs : job[j].cancel =>
          /\ job'[j].cancel
          /\ job'[j].status = "completed" => job[j].status = "completed"]_vars

\* Only the newest attempt publishes tracks: a worker that lost its lease to a
\* later claim never replaces the later attempt's results with its own.
NewestAttemptPublishes ==
    [][\A j \in Jobs : tracks'[j] \notin {tracks[j], NoToken} =>
          tracks'[j] = job[j].attempts]_vars

\* A stale release_for_retry that lands after the last claim leaves a job that
\* is neither claimable nor exhausted.
Wedged(j) == job[j].status = "pending" /\ job[j].attempts >= MaxAttempts

\* Whatever crashes and lapses happen, a submitted job gets an outcome, unless
\* its cancellation was requested or a stale retry wedged it.
EventuallySettled ==
    \A j \in Jobs : job[j].status # "absent" ~>
        job[j].status \in Terminal \/ job[j].cancel \/ Wedged(j)
=============================================================================
