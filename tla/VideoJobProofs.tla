--------------------------- MODULE VideoJobProofs ---------------------------
(***************************************************************************)
(* Theorems about the video job queue, for every set of jobs, workers and  *)
(* clients and every value of the limits.                                  *)
(***************************************************************************)
EXTENDS VideoJob, TLAPS

\* What every row satisfies, beyond its type.  Only request_cancel makes a job
\* cancelling, and it raises the flag with it.  A row that carries a token is
\* leased, or was cancelled under its holder by a request that had read it
\* pending.  The token is the newest attempt's.  A completed job was not
\* cancelled.
RowOK(row) ==
    /\ row.status = "cancelling" => row.cancel
    /\ row.status = "completed" => ~row.cancel
    /\ row.status = "cancelled" /\ row.token # NoToken => row.cancel
    /\ row.token # NoToken => row.status \in {"processing", "cancelling", "cancelled"}
    /\ row.token \in {NoToken, row.attempts}

RowsOK == \A j \in Jobs : RowOK(job[j])

\* A worker with a job has a real token, and has read a row that carried it
\* when it is about to write.
WorkerTokens ==
    \A w \in Workers : worker[w].at # "idle" =>
        /\ worker[w].token # NoToken
        /\ worker[w].at \in {"cancelWrite", "failWrite"} =>
              /\ worker[w].seen \in {"processing", "cancelling", "cancelled"}
              /\ worker[w].seen = "cancelled" => RowOf(w).cancel

IInv ==
    /\ TypeOK
    /\ RowsOK
    /\ WorkerTokens
    /\ FinalizeFenced
    /\ OutcomeConsistent

-----------------------------------------------------------------------------
LEMMA InitTypeOK == Init => TypeOK
  BY DEF Init, TypeOK, JobRow, NoRow, WorkerState, IdleWorker, ClientState, IdleClient,
         Status, Terminal, Place, NoToken, NoJob

LEMMA StatusValues ==
  /\ "absent" \in Status /\ "pending" \in Status /\ "processing" \in Status
  /\ "cancelling" \in Status /\ "completed" \in Status /\ "failed" \in Status
  /\ "cancelled" \in Status
  /\ "completed" \in Terminal /\ "failed" \in Terminal /\ "cancelled" \in Terminal
  BY DEF Status, Terminal

\* What a finished attempt leaves: a row without a lease, its status written
\* unless the column was read with that value.
LEMMA EndedRow ==
  ASSUME NEW row \in JobRow, NEW read \in Status, NEW status \in Status
  PROVE  /\ Ended(row, read, status) \in JobRow
         /\ Ended(row, read, status).status = Flushed(read, status, row.status)
         /\ Ended(row, read, status).cancel = row.cancel
         /\ Ended(row, read, status).attempts = row.attempts
         /\ Ended(row, read, status).token = NoToken
  BY DEF Ended, ClearLease, Flushed, JobRow, NoToken

LEMMA ReleasedRow ==
  ASSUME NEW row \in JobRow, NEW read \in Status
  PROVE  /\ Released(row, read) \in JobRow
         /\ Released(row, read).status = Flushed(read, "pending", row.status)
         /\ Released(row, read).cancel = row.cancel
         /\ Released(row, read).attempts = row.attempts
         /\ Released(row, read).token = NoToken
<1> DEFINE ended == Ended(row, read, "pending")
<1>1. /\ ended \in JobRow
      /\ ended.status = Flushed(read, "pending", row.status)
      /\ ended.cancel = row.cancel
      /\ ended.attempts = row.attempts
      /\ ended.token = NoToken
  BY EndedRow, StatusValues
<1>2. Released(row, read) = [ended EXCEPT !.ready = FALSE]
  BY DEF Released
<1> HIDE DEF ended
<1> QED BY <1>1, <1>2 DEF JobRow

LEMMA ClaimedType == ASSUME NEW row \in JobRow PROVE Claimed(row) \in JobRow
<1>1. row.attempts + 1 \in Nat
  BY DEF JobRow
<1> QED BY <1>1, StatusValues DEF Claimed, JobRow

LEMMA IdleTypes ==
  /\ IdleWorker \in WorkerState /\ IdleWorker.at = "idle"
  /\ IdleClient \in ClientState /\ IdleClient.at = "idle"
  BY StatusValues DEF IdleWorker, WorkerState, IdleClient, ClientState, Place, NoToken, NoJob

LEMMA TypeStep == TypeOK /\ [Next]_vars => TypeOK'
<1> SUFFICES ASSUME TypeOK, [Next]_vars PROVE TypeOK'
  OBVIOUS
<1> USE DEF TypeOK
<1>1. ASSUME NEW j \in Jobs, Submit(j) PROVE TypeOK'
  <2>1. job' \in [Jobs -> JobRow]
    <3> DEFINE row == [job[j] EXCEPT !.status = "pending", !.ready = TRUE]
    <3>1. job[j] \in JobRow
      OBVIOUS
    <3>2. row \in JobRow
      BY <3>1, StatusValues DEF JobRow
    <3>3. job' = [job EXCEPT ![j] = row]
      BY <1>1 DEF Submit
    <3> QED BY <3>2, <3>3
  <2>2. process' \in [Jobs -> {"none", "started"} \cup Terminal]
    BY <1>1 DEF Submit
  <2> QED BY <1>1, <2>1, <2>2 DEF Submit
<1>2. ASSUME NEW j \in Jobs, LeaseLapse(j) PROVE TypeOK'
  BY <1>2 DEF LeaseLapse, JobRow
<1>3. ASSUME NEW j \in Jobs, BackoffElapse(j) PROVE TypeOK'
  <2> DEFINE row == [job[j] EXCEPT !.ready = TRUE]
  <2>1. job[j] \in JobRow
    OBVIOUS
  <2>2. row \in JobRow
    BY <2>1 DEF JobRow
  <2>3. job' = [job EXCEPT ![j] = row]
    BY <1>3 DEF BackoffElapse
  <2>4. job' \in [Jobs -> JobRow]
    BY <2>2, <2>3
  <2> QED BY <1>3, <2>4 DEF BackoffElapse
<1>4. ASSUME NEW w \in Workers, Poll(w) PROVE TypeOK'
  <2>1. Settled \in [Jobs -> JobRow]
    <3>1. \A j \in Jobs : job[j].status \in Status /\ SettledStatus(j) \in Status
      BY StatusValues DEF SettledStatus, JobRow
    <3> QED BY <3>1, EndedRow DEF Settled
  <2>2. process' \in [Jobs -> {"none", "started"} \cup Terminal]
    BY <1>4 DEF Poll, SettledProcess, SettledStatus, Terminal
  <2>3. CASE Claimable = {} /\ job' = Settled /\ UNCHANGED worker
    BY <1>4, <2>1, <2>2, <2>3 DEF Poll
  <2>4. ASSUME NEW j \in Claimable,
               job' = [Settled EXCEPT ![j] = Claimed(job[j])],
               worker' = [worker EXCEPT ![w] = [IdleWorker EXCEPT
                             !.at = "run", !.job = j, !.token = job[j].attempts + 1]]
        PROVE  TypeOK'
    <3>1. j \in Jobs
      BY DEF Claimable, Candidates
    <3>2. Claimed(job[j]) \in JobRow
      BY <3>1, ClaimedType
    <3>3. job' \in [Jobs -> JobRow]
      BY <2>1, <2>4, <3>1, <3>2
    <3>4. [IdleWorker EXCEPT !.at = "run", !.job = j, !.token = job[j].attempts + 1] \in WorkerState
      <4>1. job[j].attempts + 1 \in Nat
        BY <3>1 DEF JobRow
      <4> QED BY <3>1, <4>1, IdleTypes DEF WorkerState, Place
    <3>5. worker' \in [Workers -> WorkerState] /\ worker'[w].job \in Jobs
      BY <2>4, <3>1, <3>4 DEF IdleWorker
    <3> QED BY <1>4, <2>2, <2>4, <3>3, <3>5 DEF Poll
  <2> QED BY <1>4, <2>3, <2>4 DEF Poll
<1>5. ASSUME NEW w \in Workers, Renewal(w) PROVE TypeOK'
  <2>1. CASE RenewRead(w)
    <3>1. worker' \in [Workers -> WorkerState]
      <4>1. [worker[w] EXCEPT !.lost = TRUE] \in WorkerState
        BY DEF WorkerState
      <4>2. worker' = worker \/ worker' = [worker EXCEPT ![w] = [worker[w] EXCEPT !.lost = TRUE]]
        BY <2>1 DEF RenewRead
      <4> QED BY <4>1, <4>2
    <3>2. \A v \in Workers : worker'[v].at = worker[v].at /\ worker'[v].job = worker[v].job
      BY <2>1 DEF RenewRead, WorkerState
    <3> QED BY <2>1, <3>1, <3>2 DEF RenewRead
  <2>2. CASE RenewWrite(w)
    <3>1. job[worker[w].job] \in JobRow
      BY <2>2 DEF RenewWrite
    <3>2. job' \in [Jobs -> JobRow]
      BY <2>2, <3>1 DEF RenewWrite, JobRow
    <3> QED BY <2>2, <3>2 DEF RenewWrite
  <2> QED BY <1>5, <2>1, <2>2 DEF Renewal
<1>6. ASSUME NEW w \in Workers, Run(w) PROVE TypeOK'
  <2>1. CASE LeaseLost(w)
    BY <2>1 DEF LeaseLost, WorkerState, Place
  <2>2. CASE NativeCancelled(w)
    BY <2>2 DEF NativeCancelled, GoUnlessLost, Go, WorkerState, Place
  <2>3. CASE NativeFailed(w)
    BY <2>3 DEF NativeFailed, GoUnlessLost, Go, WorkerState, Place
  <2>4. CASE NativeCompleted(w)
    BY <2>4 DEF NativeCompleted, GoUnlessLost, Go, WorkerState, Place
  <2> QED BY <1>6, <2>1, <2>2, <2>3, <2>4 DEF Run
<1>7. ASSUME NEW w \in Workers, Finalization(w) PROVE TypeOK'
  <2>1. CASE FinalizeLock(w)
    BY <2>1 DEF FinalizeLock, Go, WorkerState, Place
  <2>2. CASE SampleFailed(w)
    BY <2>2 DEF SampleFailed, Go, WorkerState, Place, Terminal
  <2>3. CASE FinalizeAbort(w)
    BY <2>3 DEF FinalizeAbort, GoUnlessLost, Go, WorkerState, Place
  <2>4. CASE FinalizeCommit(w)
    <3>1. worker[w].job \in Jobs /\ worker[w].token \in Nat
      BY <2>4 DEF FinalizeCommit, WorkerState
    <3>2. job' \in [Jobs -> JobRow]
      <4>1. job[worker[w].job].status \in Status
        BY <3>1 DEF JobRow
      <4> QED BY <2>4, <3>1, <4>1, EndedRow, StatusValues DEF FinalizeCommit
    <3>3. worker' \in [Workers -> WorkerState] /\ worker'[w].job \in Jobs
      BY <2>4, <3>1 DEF FinalizeCommit, Go, WorkerState, Place
    <3> QED BY <2>4, <3>1, <3>2, <3>3 DEF FinalizeCommit, Go, Terminal
  <2> QED BY <1>7, <2>1, <2>2, <2>3, <2>4 DEF Finalization
<1>8. ASSUME NEW w \in Workers, Settlement(w) PROVE TypeOK'
  <2>1. ASSUME NEW from, NEW to \in Place, worker[w].at # "idle", ReadHeld(w, from, to) PROVE TypeOK'
    <3>1. RowOf(w).status \in Status
      BY <2>1 DEF RowOf, JobRow
    <3>2. worker' \in [Workers -> WorkerState]
      <4> DEFINE at == IF HoldsToken(w) THEN to ELSE "done"
      <4>1. at \in Place
        BY <2>1 DEF Place
      <4>2. worker' = [worker EXCEPT ![w] = [worker[w] EXCEPT !.at = at, !.seen = RowOf(w).status]]
        BY <2>1 DEF ReadHeld
      <4> HIDE DEF at
      <4>3. [worker[w] EXCEPT !.at = at, !.seen = RowOf(w).status] \in WorkerState
        BY <3>1, <4>1 DEF WorkerState
      <4> QED BY <4>2, <4>3
    <3>3. \A v \in Workers : v # w => worker'[v] = worker[v]
      BY <2>1 DEF ReadHeld
    <3>4. worker'[w].job = worker[w].job
      BY <2>1 DEF ReadHeld, WorkerState
    <3> QED BY <2>1, <3>2, <3>3, <3>4 DEF ReadHeld
  <2>2. CASE MarkCancelledRead(w)
    BY <2>1, <2>2 DEF MarkCancelledRead, ReadHeld, Place
  <2>3. CASE HandleFailureRead(w)
    BY <2>1, <2>3 DEF HandleFailureRead, ReadHeld, Place
  <2>4. CASE MarkCancelledWrite(w)
    <3>1. worker[w].job \in Jobs
      BY <2>4 DEF MarkCancelledWrite
    <3>2. job' \in [Jobs -> JobRow]
      BY <2>4, <3>1, EndedRow, StatusValues DEF MarkCancelledWrite, WorkerState
    <3> QED BY <2>4, <3>1, <3>2 DEF MarkCancelledWrite, Go, Terminal, WorkerState, Place
  <2>5. CASE HandleFailureWrite(w)
    <3>1. worker[w].job \in Jobs
      BY <2>5 DEF HandleFailureWrite
    <3>2. job' \in [Jobs -> JobRow]
      <4>1. /\ Ended(job[worker[w].job], worker[w].seen, "failed") \in JobRow
            /\ Released(job[worker[w].job], worker[w].seen) \in JobRow
        BY <3>1, EndedRow, ReleasedRow, StatusValues DEF WorkerState
      <4> QED BY <2>5, <3>1, <4>1 DEF HandleFailureWrite
    <3>3. process' \in [Jobs -> {"none", "started"} \cup Terminal]
      BY <2>5, <3>1, StatusValues DEF HandleFailureWrite
    <3>4. worker' \in [Workers -> WorkerState] /\ worker'[w].job = worker[w].job
      BY <2>5 DEF HandleFailureWrite, Go, WorkerState, Place
    <3> QED BY <2>5, <3>1, <3>2, <3>3, <3>4 DEF HandleFailureWrite, Go
  <2> QED BY <1>8, <2>2, <2>3, <2>4, <2>5 DEF Settlement
<1>9. ASSUME NEW w \in Workers, Finish(w) \/ Crash(w) PROVE TypeOK'
  BY <1>9, IdleTypes DEF Finish, Crash
<1>10. ASSUME NEW c \in Clients, NEW j \in Jobs, CancelRead(c, j) PROVE TypeOK'
  BY <1>10 DEF CancelRead, ClientState, Status
<1>11. ASSUME NEW c \in Clients, CancelWrite(c) PROVE TypeOK'
  <2>1. client[c].job \in Jobs
    BY <1>11 DEF CancelWrite
  <2>2. job' \in [Jobs -> JobRow]
    <3>1. job[client[c].job] \in JobRow
      BY <2>1
    <3> QED BY <1>11, <2>1, <3>1, StatusValues, SMTT(30) DEF CancelWrite, JobRow
  <2> QED BY <1>11, <2>1, <2>2 DEF CancelWrite, IdleClient, ClientState, Status, Terminal, NoJob, NoToken
<1>12. CASE UNCHANGED vars
  BY <1>12 DEF vars
<1> QED
  BY <1>1, <1>2, <1>3, <1>4, <1>5, <1>6, <1>7, <1>8, <1>9, <1>10, <1>11, <1>12
     DEF Next, Queue, Cancellation

\* Every reachable state of the queue is well typed.
THEOREM TypeCorrect == Spec => []TypeOK
  BY InitTypeOK, TypeStep, PTL DEF Spec

-----------------------------------------------------------------------------
(* The inductive invariant.                                                *)

LEMMA InitIInv == Init => IInv
<1> SUFFICES ASSUME Init PROVE IInv
  OBVIOUS
<1>1. TypeOK
  BY InitTypeOK
<1>2. RowsOK /\ OutcomeConsistent
  BY DEF Init, RowsOK, RowOK, OutcomeConsistent, NoRow, Terminal, NoToken
<1>3. WorkerTokens /\ FinalizeFenced
  BY DEF Init, WorkerTokens, FinalizeFenced, IdleWorker
<1> QED BY <1>1, <1>2, <1>3 DEF IInv

\* A step keeps the fence when it leaves the locked rows alone and no worker
\* takes a row lock.
LEMMA FenceKept ==
  ASSUME TypeOK, FinalizeFenced,
         \A j \in Jobs : RowLocked(j) =>
             /\ job'[j].status = job[j].status
             /\ job'[j].token = job[j].token
             /\ job'[j].cancel = job[j].cancel,
         \A v \in Workers : worker'[v].at \in {"persist", "abort"} =>
             /\ worker[v].at \in {"persist", "abort"}
             /\ worker'[v].job = worker[v].job
             /\ worker'[v].token = worker[v].token
  PROVE  FinalizeFenced'
<1> SUFFICES ASSUME NEW w \in Workers, worker'[w].at \in {"persist", "abort"}
             PROVE  /\ job'[worker'[w].job].token = worker'[w].token
                    /\ job'[worker'[w].job].status = "processing"
                    /\ ~job'[worker'[w].job].cancel
                    /\ \A v \in Workers : worker'[v].at \in {"persist", "abort"}
                          /\ worker'[v].job = worker'[w].job => v = w
  BY DEF FinalizeFenced, HoldsToken, RowOf
<1>1. worker[w].job \in Jobs /\ RowLocked(worker[w].job)
  BY DEF TypeOK, RowLocked
<1> QED BY <1>1 DEF FinalizeFenced, HoldsToken, RowOf

\* The rows that the repository writes are fine when the rows they replace are.
LEMMA ReleasedRowOK ==
  ASSUME NEW row \in JobRow, RowOK(row), NEW read \in Status
  PROVE  RowOK(Released(row, read))
  BY ReleasedRow DEF RowOK, Flushed

\* What the three writes of an ending attempt leave, given what they had read.
LEMMA AttemptRows ==
  ASSUME NEW row \in JobRow, RowOK(row), NEW read \in {"processing", "cancelling", "cancelled"}
  PROVE  /\ RowOK(Ended(row, read, "cancelled"))
         /\ Ended(row, read, "cancelled").status = Flushed(read, "cancelled", row.status)
         /\ Ended(row, read, "cancelled").cancel = row.cancel
         /\ RowOK(Ended(row, read, "failed"))
         /\ Ended(row, read, "failed").status = "failed"
         /\ Ended(row, read, "failed").cancel = row.cancel
         /\ RowOK(Released(row, read))
         /\ Released(row, read).status = "pending"
         /\ Released(row, read).cancel = row.cancel
<1>1. read \in Status /\ "cancelled" \in Status /\ "failed" \in Status
  BY StatusValues
<1>2. /\ Ended(row, read, "cancelled").status = Flushed(read, "cancelled", row.status)
      /\ Ended(row, read, "cancelled").cancel = row.cancel
      /\ Ended(row, read, "cancelled").token = NoToken
  BY <1>1, EndedRow
<1>3. /\ Ended(row, read, "failed").status = Flushed(read, "failed", row.status)
      /\ Ended(row, read, "failed").cancel = row.cancel
      /\ Ended(row, read, "failed").token = NoToken
  BY <1>1, EndedRow
<1>4. /\ Released(row, read).status = Flushed(read, "pending", row.status)
      /\ Released(row, read).cancel = row.cancel
  BY <1>1, ReleasedRow
<1>5. RowOK(Ended(row, read, "cancelled"))
  BY <1>2 DEF RowOK, Flushed
<1>6. RowOK(Ended(row, read, "failed"))
  BY <1>3 DEF RowOK, Flushed
<1>7. RowOK(Released(row, read))
  BY <1>1, ReleasedRowOK
<1> QED BY <1>2, <1>3, <1>4, <1>5, <1>6, <1>7 DEF Flushed

\* What a commit or a settlement leaves of a leased row that it has locked.
LEMMA LockedRows ==
  ASSUME NEW row \in JobRow, RowOK(row), row.status \in Leased,
         NEW status \in {"completed", "failed", "cancelled"}, status = "completed" => ~row.cancel
  PROVE  /\ RowOK(Ended(row, row.status, status))
         /\ Ended(row, row.status, status).status = status
         /\ Ended(row, row.status, status).cancel = row.cancel
<1>1. row.status \in Status /\ status \in Status
  BY StatusValues DEF JobRow
<1>2. /\ Ended(row, row.status, status).status = Flushed(row.status, status, row.status)
      /\ Ended(row, row.status, status).cancel = row.cancel
      /\ Ended(row, row.status, status).token = NoToken
  BY <1>1, EndedRow
<1>3. RowOK(Ended(row, row.status, status))
  BY <1>2 DEF RowOK, Flushed, Leased
<1> QED BY <1>2, <1>3 DEF Flushed, Leased

LEMMA ClaimedRow ==
  ASSUME NEW row \in JobRow, RowOK(row)
  PROVE  /\ RowOK(Claimed(row))
         /\ Claimed(row).status = "processing"
         /\ Claimed(row).cancel = row.cancel
<1>1. RowOK(Claimed(row))
  BY DEF RowOK, Claimed, JobRow
<1>2. Claimed(row).status = "processing" /\ Claimed(row).cancel = row.cancel
  BY DEF Claimed, JobRow
<1> QED BY <1>1, <1>2

\* Steps that only move a worker, its renewal or a client.
LEMMA QuietStep ==
  ASSUME IInv, TypeOK', UNCHANGED <<job, process, tracks>>, WorkerTokens',
         \A v \in Workers : worker'[v].at \in {"persist", "abort"} =>
             /\ worker[v].at \in {"persist", "abort"}
             /\ worker'[v].job = worker[v].job
             /\ worker'[v].token = worker[v].token
  PROVE  IInv'
<1>1. FinalizeFenced'
  BY FenceKept DEF IInv
<1>2. RowsOK' /\ OutcomeConsistent'
  BY DEF IInv, RowsOK, RowOK, OutcomeConsistent
<1> QED BY <1>1, <1>2 DEF IInv

\* Steps of a worker's control: every one of them returns to "idle" or stays
\* with the job and the token it has, and none takes a row lock.
LEMMA ControlStep ==
  ASSUME IInv, TypeOK', NEW w \in Workers,
         RenewRead(w) \/ Run(w) \/ FinalizeAbort(w) \/ Finish(w) \/ Crash(w)
  PROVE  IInv'
<1> USE DEF IInv, TypeOK, WorkerState, WorkerTokens
<1>1. UNCHANGED <<job, process, tracks>>
  BY DEF RenewRead, Run, LeaseLost, NativeCancelled, NativeFailed, NativeCompleted,
         FinalizeAbort, Finish, Crash
<1>2. \A v \in Workers : v # w => worker'[v] = worker[v]
  BY DEF RenewRead, Run, LeaseLost, NativeCancelled, NativeFailed, NativeCompleted,
         FinalizeAbort, Finish, Crash, GoUnlessLost, Go
<1>3. \/ worker'[w].at = "idle"
      \/ /\ worker'[w].job = worker[w].job
         /\ worker'[w].token = worker[w].token
         /\ worker'[w].seen = worker[w].seen
         /\ worker[w].at # "idle"
         /\ \/ worker'[w].at = worker[w].at
            \/ worker'[w].at \in {"done", "cancelRead", "failRead", "finalize"}
  <2>1. CASE RenewRead(w)
    BY <2>1 DEF RenewRead
  <2>2. CASE LeaseLost(w)
    BY <2>2 DEF LeaseLost
  <2>3. CASE NativeCancelled(w)
    BY <2>3 DEF NativeCancelled, GoUnlessLost, Go
  <2>4. CASE NativeFailed(w)
    BY <2>4 DEF NativeFailed, GoUnlessLost, Go
  <2>5. CASE NativeCompleted(w)
    BY <2>5 DEF NativeCompleted, GoUnlessLost, Go
  <2>6. CASE FinalizeAbort(w)
    BY <2>6 DEF FinalizeAbort, GoUnlessLost, Go
  <2>7. CASE Finish(w) \/ Crash(w)
    BY <2>7, IdleTypes DEF Finish, Crash
  <2> QED BY <2>1, <2>2, <2>3, <2>4, <2>5, <2>6, <2>7 DEF Run
<1>4. WorkerTokens'
  BY <1>1, <1>2, <1>3 DEF RowOf
<1> QED BY <1>1, <1>2, <1>3, <1>4, QuietStep

\* A worker that writes its outcome has read a row that carries its token.
LEMMA ReadStep ==
  ASSUME IInv, TypeOK', NEW w \in Workers, MarkCancelledRead(w) \/ HandleFailureRead(w)
  PROVE  IInv'
<1> USE DEF IInv, TypeOK, WorkerState, WorkerTokens
<1>1. UNCHANGED <<job, process, tracks>>
  BY DEF MarkCancelledRead, HandleFailureRead, ReadHeld
<1>2. \A v \in Workers : v # w => worker'[v] = worker[v]
  BY DEF MarkCancelledRead, HandleFailureRead, ReadHeld
<1>3. /\ worker[w].at # "idle"
      /\ worker'[w].job = worker[w].job
      /\ worker'[w].token = worker[w].token
      /\ worker'[w].seen = RowOf(w).status
      /\ worker'[w].at \in {"done", "cancelWrite", "failWrite"}
      /\ worker'[w].at # "done" => HoldsToken(w)
  BY DEF MarkCancelledRead, HandleFailureRead, ReadHeld
<1>4. HoldsToken(w) => /\ RowOf(w).status \in {"processing", "cancelling", "cancelled"}
                       /\ RowOf(w).status = "cancelled" => RowOf(w).cancel
  <2>1. RowOK(job[worker[w].job]) /\ worker[w].token # NoToken
    BY <1>3 DEF RowsOK
  <2> QED BY <2>1 DEF RowOK, HoldsToken, RowOf
<1>5. WorkerTokens'
  BY <1>1, <1>2, <1>3, <1>4 DEF RowOf
<1> QED BY <1>1, <1>2, <1>3, <1>5, QuietStep

\* lock_owned takes the row lock of a row that it owns.
LEMMA LockStep ==
  ASSUME IInv, TypeOK', NEW w \in Workers, FinalizeLock(w)
  PROVE  IInv'
<1> USE DEF IInv, TypeOK, WorkerState, WorkerTokens
<1>1. /\ UNCHANGED <<job, process, tracks>>
      /\ \A v \in Workers : v # w => worker'[v] = worker[v]
      /\ worker[w].at # "idle" /\ worker[w].job \in Jobs
      /\ worker'[w].job = worker[w].job
      /\ worker'[w].token = worker[w].token
      /\ worker'[w].at \in {"persist", "done"}
      /\ worker'[w].at = "persist" => LockOwned(w)
      /\ ~RowLocked(worker[w].job)
  BY DEF FinalizeLock, Go
<1>2. WorkerTokens'
  BY <1>1 DEF RowOf
<1>3. RowsOK' /\ OutcomeConsistent'
  BY <1>1 DEF RowsOK, RowOK, OutcomeConsistent
<1>4. CASE worker'[w].at = "done"
  BY <1>1, <1>2, <1>4, QuietStep
<1>5. CASE worker'[w].at = "persist"
  <2>1. /\ RowOf(w).token = worker[w].token
        /\ RowOf(w).status = "processing"
        /\ ~RowOf(w).cancel
    BY <1>1, <1>5 DEF LockOwned, OwnsActiveLease, Leased, RowsOK, RowOK, RowOf
  <2>2. \A v \in Workers : worker[v].at \in {"persist", "abort"} => worker[v].job # worker[w].job
    BY <1>1 DEF RowLocked
  <2>3. FinalizeFenced'
    <3> SUFFICES ASSUME NEW u \in Workers, worker'[u].at \in {"persist", "abort"}
                 PROVE  /\ job'[worker'[u].job].token = worker'[u].token
                        /\ job'[worker'[u].job].status = "processing"
                        /\ ~job'[worker'[u].job].cancel
                        /\ \A v \in Workers : worker'[v].at \in {"persist", "abort"}
                              /\ worker'[v].job = worker'[u].job => v = u
      BY DEF FinalizeFenced, HoldsToken, RowOf
    <3>1. CASE u = w
      BY <1>1, <2>1, <2>2, <3>1 DEF RowOf
    <3>2. CASE u # w
      BY <1>1, <2>1, <2>2, <3>2 DEF FinalizeFenced, HoldsToken, RowOf
    <3> QED BY <3>1, <3>2
  <2> QED BY <1>2, <1>3, <2>3
<1> QED BY <1>1, <1>4, <1>5

\* A worker ends its attempt by a write to a row that no finalization has locked.
LEMMA WriteStep ==
  ASSUME IInv, TypeOK', NEW w \in Workers, MarkCancelledWrite(w) \/ HandleFailureWrite(w)
  PROVE  IInv'
<1> USE DEF IInv, TypeOK, WorkerState, WorkerTokens
<1> DEFINE j == worker[w].job
<1>1. /\ j \in Jobs /\ job[j] \in JobRow /\ RowOK(job[j])
      /\ ~RowLocked(j)
      /\ worker[w].seen \in {"processing", "cancelling", "cancelled"}
      /\ worker[w].seen \in Status
      /\ worker[w].seen = "cancelled" => job[j].cancel
      /\ tracks' = tracks
  BY DEF MarkCancelledWrite, HandleFailureWrite, RowsOK, RowOf
<1>2. /\ \A v \in Workers : v # w => worker'[v] = worker[v]
      /\ worker'[w].at = "done" /\ worker'[w].token = worker[w].token /\ worker[w].at # "idle"
  BY DEF MarkCancelledWrite, HandleFailureWrite, Go
<1>4. /\ \A i \in Jobs : i # j => job'[i] = job[i] /\ process'[i] = process[i]
      /\ \/ job'[j] = Ended(job[j], worker[w].seen, "cancelled") /\ process'[j] = "cancelled"
         \/ job'[j] = Ended(job[j], worker[w].seen, "failed") /\ process'[j] = "failed"
         \/ job'[j] = Released(job[j], worker[w].seen) /\ process'[j] = process[j]
  BY <1>1 DEF MarkCancelledWrite, HandleFailureWrite
<1> HIDE DEF j
<1> DEFINE cancelled == Ended(job[j], worker[w].seen, "cancelled")
           failed == Ended(job[j], worker[w].seen, "failed")
           released == Released(job[j], worker[w].seen)
<1>8. /\ cancelled.status = Flushed(worker[w].seen, "cancelled", job[j].status)
      /\ failed.status = "failed" /\ released.status = "pending"
      /\ cancelled.cancel = job[j].cancel /\ failed.cancel = job[j].cancel
      /\ released.cancel = job[j].cancel
      /\ RowOK(cancelled) /\ RowOK(failed) /\ RowOK(released)
  BY <1>1, AttemptRows
<1> HIDE DEF cancelled, failed, released
<1>3. WorkerTokens'
  <2>1. \A i \in Jobs : job'[i].cancel = job[i].cancel
    BY <1>1, <1>4, <1>8 DEF cancelled, failed, released
  <2> QED BY <1>2, <2>1 DEF RowOf
<1>5. RowsOK'
  BY <1>4, <1>8 DEF RowsOK, cancelled, failed, released
<1>6. FinalizeFenced'
  BY <1>1, <1>2, <1>4, FenceKept
<1>7. OutcomeConsistent'
  <2> SUFFICES ASSUME NEW i \in Jobs
               PROVE /\ job'[i].status \in Terminal =>
                          \/ process'[i] = job'[i].status
                          \/ job'[i].status = "failed" /\ job'[i].cancel /\ process'[i] = "cancelled"
                     /\ job'[i].status = "completed" => tracks'[i] # NoToken
    BY DEF OutcomeConsistent
  <2>1. CASE i # j
    BY <1>1, <1>4, <2>1 DEF OutcomeConsistent
  <2>2. CASE i = j /\ job'[j] = cancelled /\ process'[j] = "cancelled"
    BY <1>1, <1>8, <2>2 DEF Flushed, OutcomeConsistent, RowOK, Terminal
  <2>3. CASE i = j /\ job'[j] = failed /\ process'[j] = "failed"
    BY <1>8, <2>3
  <2>4. CASE i = j /\ job'[j] = released /\ process'[j] = process[j]
    BY <1>8, <2>4 DEF Terminal
  <2> QED BY <1>4, <2>1, <2>2, <2>3, <2>4 DEF cancelled, failed, released
<1> QED BY <1>3, <1>5, <1>6, <1>7

\* The results of a finalization are committed on the row it has locked.
LEMMA CommitStep ==
  ASSUME IInv, TypeOK', NEW w \in Workers, FinalizeCommit(w)
  PROVE  IInv'
<1> USE DEF IInv, TypeOK, WorkerState, WorkerTokens
<1> DEFINE j == worker[w].job
           row == Ended(job[j], job[j].status, "completed")
<1>1. /\ j \in Jobs /\ job[j] \in JobRow /\ RowOK(job[j])
      /\ job[j].status = "processing" /\ ~job[j].cancel
      /\ \A v \in Workers : v # w /\ worker[v].at \in {"persist", "abort"} => worker[v].job # j
  BY DEF FinalizeCommit, RowsOK, FinalizeFenced, RowOf
<1>2. /\ \A v \in Workers : v # w => worker'[v] = worker[v]
      /\ worker'[w].at = "done" /\ worker'[w].token = worker[w].token /\ worker[w].at # "idle"
  BY DEF FinalizeCommit, Go
<1>3. /\ \A i \in Jobs : i # j => /\ job'[i] = job[i] /\ process'[i] = process[i]
                                  /\ tracks'[i] = tracks[i]
      /\ job'[j] = row /\ process'[j] = "completed" /\ tracks'[j] = worker[w].token
      /\ worker[w].token # NoToken
  BY <1>1 DEF FinalizeCommit
<1>4. RowOK(row) /\ row.cancel = job[j].cancel /\ row.status = "completed"
  BY <1>1, LockedRows DEF Leased
<1> HIDE DEF j, row
<1>5. WorkerTokens'
  BY <1>1, <1>2, <1>3, <1>4, SMTT(30) DEF RowOf
<1>6. RowsOK'
  BY <1>3, <1>4 DEF RowsOK
<1>7. OutcomeConsistent'
  BY <1>3, <1>4 DEF OutcomeConsistent
<1>8. FinalizeFenced'
  <2> SUFFICES ASSUME NEW u \in Workers, worker'[u].at \in {"persist", "abort"}
               PROVE  /\ job'[worker'[u].job].token = worker'[u].token
                      /\ job'[worker'[u].job].status = "processing"
                      /\ ~job'[worker'[u].job].cancel
                      /\ \A v \in Workers : worker'[v].at \in {"persist", "abort"}
                            /\ worker'[v].job = worker'[u].job => v = u
    BY DEF FinalizeFenced, HoldsToken, RowOf
  <2>1. u # w /\ worker'[u] = worker[u] /\ worker[u].job \in Jobs /\ worker[u].job # j
    BY <1>1, <1>2
  <2>2. job'[worker[u].job] = job[worker[u].job]
    BY <1>3, <2>1
  <2>3. /\ job[worker[u].job].token = worker[u].token
        /\ job[worker[u].job].status = "processing"
        /\ ~job[worker[u].job].cancel
    BY <2>1 DEF FinalizeFenced, HoldsToken, RowOf
  <2> QED BY <1>2, <2>1, <2>2, <2>3 DEF FinalizeFenced
<1> QED BY <1>5, <1>6, <1>7, <1>8

\* A sample that cannot be persisted fails the process of a job that is still
\* processing, because the row is locked.
LEMMA SampleStep ==
  ASSUME IInv, TypeOK', NEW w \in Workers, SampleFailed(w)
  PROVE  IInv'
<1> USE DEF IInv, TypeOK, WorkerState, WorkerTokens
<1>1. /\ UNCHANGED <<job, tracks>>
      /\ worker[w].job \in Jobs /\ job[worker[w].job].status = "processing"
      /\ \A i \in Jobs : i # worker[w].job => process'[i] = process[i]
  BY DEF SampleFailed, FinalizeFenced, RowOf
<1>2. /\ \A v \in Workers : v # w => worker'[v] = worker[v]
      /\ worker'[w].at = "abort" /\ worker[w].at = "persist"
      /\ worker'[w].token = worker[w].token /\ worker'[w].job = worker[w].job
  BY DEF SampleFailed, Go
<1>3. WorkerTokens' /\ RowsOK'
  BY <1>1, <1>2 DEF RowsOK, RowOK, RowOf
<1>4. OutcomeConsistent'
  BY <1>1 DEF OutcomeConsistent, Terminal
<1>5. FinalizeFenced'
  BY <1>1, <1>2, FenceKept
<1> QED BY <1>3, <1>4, <1>5

\* Time, renewals and submissions touch a row's lease, its readiness, or a row
\* that is not there yet.
LEMMA RowStep ==
  ASSUME IInv, TypeOK', NEW j \in Jobs,
         \/ Submit(j) \/ LeaseLapse(j) \/ BackoffElapse(j)
         \/ \E w \in Workers : worker[w].job = j /\ RenewWrite(w)
  PROVE  IInv'
<1> USE DEF IInv, TypeOK, WorkerTokens
<1>1. /\ UNCHANGED <<tracks, worker>>
      /\ \A i \in Jobs : i # j => job'[i] = job[i] /\ process'[i] = process[i]
      /\ job'[j].token = job[j].token /\ job'[j].cancel = job[j].cancel
      /\ job'[j].attempts = job[j].attempts
      /\ \/ job'[j].status = job[j].status /\ process' = process
         \/ job[j].status = "absent" /\ job'[j].status = "pending"
  <2>1. job[j] \in JobRow
    OBVIOUS
  <2>2. CASE Submit(j)
    BY <2>1, <2>2 DEF Submit, JobRow
  <2>3. CASE LeaseLapse(j)
    BY <2>1, <2>3 DEF LeaseLapse, JobRow
  <2>4. CASE BackoffElapse(j)
    BY <2>1, <2>4 DEF BackoffElapse, JobRow
  <2>5. ASSUME NEW w \in Workers, worker[w].job = j, RenewWrite(w)
        PROVE  /\ UNCHANGED <<tracks, worker, process>>
               /\ \A i \in Jobs : i # j => job'[i] = job[i]
               /\ job'[j].token = job[j].token /\ job'[j].cancel = job[j].cancel
               /\ job'[j].attempts = job[j].attempts /\ job'[j].status = job[j].status
    BY <2>1, <2>5 DEF RenewWrite, JobRow
  <2> QED BY <2>2, <2>3, <2>4, <2>5
<1>2. RowsOK' /\ WorkerTokens'
  BY <1>1 DEF RowsOK, RowOK, RowOf
<1>3. OutcomeConsistent'
  BY <1>1 DEF OutcomeConsistent, Terminal
<1>4. FinalizeFenced'
  <2>1. RowLocked(j) => job[j].status = "processing"
    BY DEF FinalizeFenced, RowLocked, RowOf
  <2> QED BY <1>1, <2>1, FenceKept
<1> QED BY <1>2, <1>3, <1>4

\* A cancel request writes to an unlocked row and raises the flag.
LEMMA CancelStep ==
  ASSUME IInv, TypeOK', NEW c \in Clients, CancelWrite(c)
  PROVE  IInv'
<1> USE DEF IInv, TypeOK, WorkerTokens
<1> DEFINE j == client[c].job
<1>1. /\ j \in Jobs /\ ~RowLocked(j) /\ worker' = worker
      /\ \A i \in Jobs : i # j => job'[i] = job[i] /\ process'[i] = process[i] /\ tracks'[i] = tracks[i]
      /\ job'[j].token = job[j].token /\ job'[j].attempts = job[j].attempts
      /\ job'[j].cancel = TRUE
      /\ \/ job'[j].status = "cancelled" /\ process'[j] = "cancelled"
         \/ job'[j].status = "cancelling"
  BY DEF CancelWrite, JobRow
<1> HIDE DEF j
<1>2. RowsOK' /\ WorkerTokens'
  BY <1>1 DEF RowsOK, RowOK, RowOf
<1>3. OutcomeConsistent'
  BY <1>1 DEF OutcomeConsistent, Terminal
<1>4. FinalizeFenced'
  BY <1>1, FenceKept
<1> QED BY <1>2, <1>3, <1>4

\* A poll settles and claims only rows that no finalization has locked.
LEMMA PollStep ==
  ASSUME IInv, TypeOK', NEW w \in Workers, Poll(w)
  PROVE  IInv'
<1> USE DEF IInv, TypeOK, WorkerTokens
<1>1. ASSUME NEW i \in Jobs, Exhausted(i)
      PROVE  /\ ~RowLocked(i)
             /\ RowOK(Settled[i]) /\ Settled[i].cancel = job[i].cancel
             /\ Settled[i].status = SettledStatus(i)
             /\ SettledStatus(i) \in {"cancelled", "failed"}
  <2> DEFINE row == Ended(job[i], job[i].status, SettledStatus(i))
  <2>1. /\ SettledStatus(i) \in {"cancelled", "failed"} /\ job[i].status \in Leased
        /\ job[i].status \in Status /\ job[i] \in JobRow /\ ~RowLocked(i) /\ RowOK(job[i])
    BY <1>1 DEF Exhausted, SettledStatus, JobRow, RowsOK
  <2>2. RowOK(row) /\ row.cancel = job[i].cancel /\ row.status = SettledStatus(i)
    BY <2>1, LockedRows
  <2>4. Settled[i] = row
    BY <1>1 DEF Settled
  <2> QED BY <2>1, <2>2, <2>4
<1>2. ASSUME NEW i \in Jobs, ~Exhausted(i) PROVE Settled[i] = job[i]
  BY <1>2 DEF Settled
<1>3. /\ process' = SettledProcess /\ tracks' = tracks
      /\ worker[w].at = "idle"
  BY DEF Poll
<1>4. \E S \in SUBSET Jobs :
        /\ \A i \in S : ~RowLocked(i) /\ ~Exhausted(i) /\ job'[i] = Claimed(job[i])
        /\ \A i \in Jobs \ S : job'[i] = Settled[i]
  <2>1. CASE job' = Settled
    <3> WITNESS {} \in SUBSET Jobs
    <3> QED BY <2>1
  <2>2. ASSUME NEW k \in Claimable, job' = [Settled EXCEPT ![k] = Claimed(job[k])]
        PROVE  \E S \in SUBSET Jobs :
                  /\ \A i \in S : ~RowLocked(i) /\ ~Exhausted(i) /\ job'[i] = Claimed(job[i])
                  /\ \A i \in Jobs \ S : job'[i] = Settled[i]
    <3>1. k \in Jobs /\ ~RowLocked(k) /\ job[k].attempts < MaxAttempts /\ job[k].attempts \in Nat
      BY <2>2 DEF Claimable, Candidates, JobRow
    <3>2. ~Exhausted(k)
      BY <3>1, LimitsAssumption DEF Exhausted
    <3>3. /\ job'[k] = Claimed(job[k])
          /\ \A i \in Jobs \ {k} : job'[i] = Settled[i]
      BY <2>2, <3>1 DEF Settled
    <3>4. {k} \in SUBSET Jobs
      BY <3>1
    <3> WITNESS {k} \in SUBSET Jobs
    <3> QED BY <3>1, <3>2, <3>3
  <2> QED BY <2>1, <2>2 DEF Poll
<1>5. PICK S \in SUBSET Jobs :
        /\ \A i \in S : ~RowLocked(i) /\ ~Exhausted(i) /\ job'[i] = Claimed(job[i])
        /\ \A i \in Jobs \ S : job'[i] = Settled[i]
  BY <1>4
<1>6. ASSUME NEW i \in S
      PROVE  /\ RowOK(job'[i]) /\ job'[i].cancel = job[i].cancel
             /\ job'[i].status = "processing"
  <2>1. job[i] \in JobRow /\ RowOK(job[i])
    BY DEF RowsOK
  <2> QED BY <1>5, <2>1, ClaimedRow
<1>7. RowsOK'
  BY <1>1, <1>2, <1>5, <1>6 DEF RowsOK
<1>8. \A i \in Jobs : job'[i].cancel = job[i].cancel
  BY <1>1, <1>2, <1>5, <1>6
<1>9. OutcomeConsistent'
  <2> SUFFICES ASSUME NEW i \in Jobs
               PROVE /\ job'[i].status \in Terminal =>
                          \/ process'[i] = job'[i].status
                          \/ job'[i].status = "failed" /\ job'[i].cancel /\ process'[i] = "cancelled"
                     /\ job'[i].status = "completed" => tracks'[i] # NoToken
    BY DEF OutcomeConsistent
  <2>1. CASE i \in S
    BY <1>6, <2>1 DEF Terminal
  <2>2. CASE i \notin S /\ Exhausted(i)
    BY <1>1, <1>3, <1>5, <2>2 DEF SettledProcess
  <2>3. CASE i \notin S /\ ~Exhausted(i)
    BY <1>2, <1>3, <1>5, <2>3 DEF SettledProcess, OutcomeConsistent
  <2> QED BY <2>1, <2>2, <2>3
<1>10. /\ \A v \in Workers : v # w => worker'[v] = worker[v]
       /\ \/ worker'[w] = worker[w]
          \/ worker'[w].at = "run" /\ worker'[w].token # NoToken
  <2>1. ASSUME NEW k \in Claimable,
               worker' = [worker EXCEPT ![w] = [IdleWorker EXCEPT
                             !.at = "run", !.job = k, !.token = job[k].attempts + 1]]
        PROVE  worker'[w].at = "run" /\ worker'[w].token # NoToken
    <3>1. job[k].attempts \in Nat
      BY DEF Claimable, Candidates, JobRow
    <3> QED BY <2>1, <3>1 DEF IdleWorker, NoToken
  <2> QED BY <2>1 DEF Poll
<1>11. WorkerTokens'
  BY <1>3, <1>8, <1>10 DEF RowOf
<1>12. FinalizeFenced'
  <2>1. \A i \in Jobs : RowLocked(i) => job'[i] = job[i]
    BY <1>1, <1>2, <1>5
  <2> QED BY <1>10, <2>1, FenceKept
<1> QED BY <1>7, <1>9, <1>11, <1>12

LEMMA IInvStep == IInv /\ [Next]_vars => IInv'
<1> SUFFICES ASSUME IInv, [Next]_vars PROVE IInv'
  OBVIOUS
<1>1. TypeOK'
  BY TypeStep DEF IInv
<1>2. CASE Queue
  BY <1>1, <1>2, RowStep DEF Queue
<1>3. CASE Cancellation
  <2>1. ASSUME NEW c \in Clients, NEW j \in Jobs, CancelRead(c, j) PROVE IInv'
    BY <1>1, <2>1, QuietStep DEF CancelRead, IInv, WorkerTokens, RowOf
  <2> QED BY <1>1, <1>3, <2>1, CancelStep DEF Cancellation
<1>4. ASSUME NEW w \in Workers,
             \/ Poll(w) \/ Renewal(w) \/ Run(w) \/ Finalization(w)
             \/ Settlement(w) \/ Finish(w) \/ Crash(w)
      PROVE  IInv'
  <2>1. CASE RenewWrite(w)
    <3>1. worker[w].job \in Jobs
      BY <2>1 DEF RenewWrite, IInv, TypeOK
    <3> QED BY <1>1, <2>1, <3>1, RowStep
  <2> QED BY <1>1, <1>4, <2>1, PollStep, ControlStep, ReadStep, LockStep, WriteStep, CommitStep, SampleStep
          DEF Renewal, Finalization, Settlement
<1>5. CASE UNCHANGED vars
  BY <1>1, <1>5, QuietStep DEF vars, IInv, WorkerTokens, RowOf
<1> QED BY <1>2, <1>3, <1>4, <1>5 DEF Next

\* The inductive invariant holds in every reachable state.
THEOREM Invariance == Spec => []IInv
  BY InitIInv, IInvStep, PTL DEF Spec

-----------------------------------------------------------------------------
(* The properties.                                                         *)

\* A finalization that persists results owns an uncancelled row alone.
THEOREM Fencing == Spec => []FinalizeFenced
<1>1. IInv => FinalizeFenced
  BY DEF IInv
<1> QED BY <1>1, Invariance, PTL

\* Job, process and tracks agree about every outcome.
THEOREM Outcomes == Spec => []OutcomeConsistent
<1>1. IInv => OutcomeConsistent
  BY DEF IInv
<1> QED BY <1>1, Invariance, PTL

\* What one step may do to a row's cancellation flag and to the tracks.
LEMMA CommitEffect ==
  ASSUME IInv, NEW w \in Workers, FinalizeCommit(w), NEW j \in Jobs
  PROVE  /\ job[j].cancel => job'[j] = job[j]
         /\ tracks'[j] \in {tracks[j], job[j].attempts}
<1> USE DEF IInv, TypeOK, WorkerState
<1>1. /\ worker[w].job \in Jobs /\ ~job[worker[w].job].cancel
      /\ job[worker[w].job].token = worker[w].token /\ worker[w].token # NoToken
  BY DEF FinalizeCommit, FinalizeFenced, HoldsToken, RowOf, WorkerTokens
<1>2. worker[w].token = job[worker[w].job].attempts
  BY <1>1 DEF RowsOK, RowOK
<1>3. CASE j = worker[w].job
  BY <1>1, <1>2, <1>3 DEF FinalizeCommit
<1>4. CASE j # worker[w].job
  BY <1>1, <1>4 DEF FinalizeCommit
<1> QED BY <1>3, <1>4

LEMMA TracksStep ==
  ASSUME IInv, Next, NEW j \in Jobs
  PROVE  tracks'[j] \in {tracks[j], job[j].attempts, NoToken}
<1> USE DEF IInv, TypeOK
<1>1. CASE Queue
  BY <1>1 DEF Queue, Submit, LeaseLapse, BackoffElapse
<1>2. CASE Cancellation
  BY <1>2 DEF Cancellation, CancelRead, CancelWrite
<1>3. ASSUME NEW w \in Workers,
             \/ Poll(w) \/ Renewal(w) \/ Run(w) \/ Finalization(w)
             \/ Settlement(w) \/ Finish(w) \/ Crash(w)
      PROVE  tracks'[j] \in {tracks[j], job[j].attempts, NoToken}
  <2>1. CASE FinalizeCommit(w)
    BY <2>1, CommitEffect
  <2>2. CASE ~FinalizeCommit(w)
    <3>1. tracks' = tracks
      BY <1>3, <2>2 DEF Poll, Renewal, RenewRead, RenewWrite, Run, LeaseLost, NativeCancelled,
         NativeFailed, NativeCompleted, Finalization, FinalizeLock, SampleFailed, FinalizeAbort,
         Settlement, MarkCancelledRead, MarkCancelledWrite, HandleFailureRead,
         HandleFailureWrite, ReadHeld, Finish, Crash
    <3> QED BY <3>1
  <2> QED BY <2>1, <2>2
<1> QED BY <1>1, <1>2, <1>3 DEF Next

\* An attempt that a later claim has superseded never publishes its tracks.
THEOREM Publication == Spec => NewestAttemptPublishes
<1>1. IInv /\ [Next]_vars =>
        [\A j \in Jobs : tracks'[j] \notin {tracks[j], NoToken} => tracks'[j] = job[j].attempts]_vars
  BY TracksStep
<1> QED BY <1>1, Invariance, PTL DEF Spec, NewestAttemptPublishes

\* A poll keeps the cancellation flag and completes nothing.
LEMMA PollFlag ==
  ASSUME IInv, NEW w \in Workers, Poll(w), NEW j \in Jobs
  PROVE  /\ job'[j].cancel = job[j].cancel
         /\ job'[j].status # "completed" \/ job'[j].status = job[j].status
<1>1. job[j] \in JobRow /\ RowOK(job[j])
  BY DEF IInv, TypeOK, RowsOK
<1>2. CASE Exhausted(j) /\ job'[j] = Settled[j]
  <2>1. SettledStatus(j) \in {"failed", "cancelled"} /\ job[j].status \in Leased
    BY <1>2 DEF SettledStatus, Exhausted
  <2>2. Settled[j] = Ended(job[j], job[j].status, SettledStatus(j))
    BY <1>2 DEF Settled
  <2> QED BY <1>1, <1>2, <2>1, <2>2, LockedRows
<1>3. CASE ~Exhausted(j) /\ job'[j] = Settled[j]
  BY <1>3 DEF Settled
<1>4. CASE job'[j] = Claimed(job[j])
  BY <1>1, <1>4, ClaimedRow
<1>5. job'[j] \in {Settled[j], Claimed(job[j])}
  <2>1. CASE job' = Settled
    BY <2>1
  <2>2. ASSUME NEW k \in Claimable, job' = [Settled EXCEPT ![k] = Claimed(job[k])]
        PROVE  job'[j] \in {Settled[j], Claimed(job[j])}
    BY <2>2 DEF Settled
  <2> QED BY <2>1, <2>2 DEF Poll
<1> QED BY <1>2, <1>3, <1>4, <1>5

\* Neither does the write that ends an attempt.
LEMMA WriteFlag ==
  ASSUME IInv, NEW w \in Workers, MarkCancelledWrite(w) \/ HandleFailureWrite(w), NEW j \in Jobs
  PROVE  /\ job'[j].cancel = job[j].cancel
         /\ job'[j].status # "completed" \/ job'[j].status = job[j].status
<1> DEFINE k == worker[w].job
<1>1. /\ k \in Jobs /\ job[k] \in JobRow /\ RowOK(job[k])
      /\ worker[w].seen \in {"processing", "cancelling", "cancelled"}
  BY DEF IInv, TypeOK, RowsOK, WorkerTokens, MarkCancelledWrite, HandleFailureWrite
<1>2. /\ j # k => job'[j] = job[j]
      /\ \/ job'[k] = Ended(job[k], worker[w].seen, "cancelled")
         \/ job'[k] = Ended(job[k], worker[w].seen, "failed")
         \/ job'[k] = Released(job[k], worker[w].seen)
  BY <1>1 DEF IInv, TypeOK, MarkCancelledWrite, HandleFailureWrite
<1> HIDE DEF k
<1> QED BY <1>1, <1>2, AttemptRows DEF Flushed

LEMMA FlagStep ==
  ASSUME IInv, Next, NEW j \in Jobs, job[j].cancel
  PROVE  job'[j].cancel /\ (job'[j].status = "completed" => job[j].status = "completed")
<1>0. job[j] \in JobRow /\ job \in [Jobs -> JobRow]
  BY DEF IInv, TypeOK
<1>1. CASE Queue
  BY <1>0, <1>1 DEF Queue, Submit, LeaseLapse, BackoffElapse, JobRow
<1>2. CASE Cancellation
  BY <1>0, <1>2 DEF Cancellation, CancelRead, CancelWrite, JobRow
<1>3. ASSUME NEW w \in Workers,
             \/ Poll(w) \/ Renewal(w) \/ Run(w) \/ Finalization(w)
             \/ Settlement(w) \/ Finish(w) \/ Crash(w)
      PROVE  job'[j].cancel /\ (job'[j].status = "completed" => job[j].status = "completed")
  <2>1. CASE Poll(w)
    BY <2>1, PollFlag
  <2>2. CASE FinalizeCommit(w)
    BY <2>2, CommitEffect
  <2>3. CASE MarkCancelledWrite(w) \/ HandleFailureWrite(w)
    BY <2>3, WriteFlag
  <2>4. CASE RenewWrite(w)
    BY <1>0, <2>4 DEF RenewWrite, JobRow
  <2>5. CASE job' = job
    BY <2>5
  <2> QED BY <1>3, <2>1, <2>2, <2>3, <2>4, <2>5
       DEF Renewal, RenewRead, Run, LeaseLost, NativeCancelled, NativeFailed, NativeCompleted,
           Finalization, FinalizeLock, SampleFailed, FinalizeAbort, Settlement,
           MarkCancelledRead, HandleFailureRead, ReadHeld, Finish, Crash
<1> QED BY <1>1, <1>2, <1>3 DEF Next

\* A committed cancellation request is kept, and the job never completes.
THEOREM Cancellations == Spec => CancelledNeverCompletes
<1>1. IInv /\ [Next]_vars =>
        [\A j \in Jobs : job[j].cancel =>
            /\ job'[j].cancel
            /\ job'[j].status = "completed" => job[j].status = "completed"]_vars
  BY FlagStep
<1> QED BY <1>1, Invariance, PTL DEF Spec, CancelledNeverCompletes
=============================================================================
