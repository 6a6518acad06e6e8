------------------------------ MODULE LiveRun ------------------------------
(***************************************************************************)
(* Live cameras: the desired state that the API writes, the generations of *)
(* runs with their leases, the supervisor that claims a camera and runs a  *)
(* native worker for it, and the native worker as a process.               *)
(*                                                                         *)
(* Every write to a run is one UPDATE fenced by run, worker, token and     *)
(* unexpired lease.  Each generation is claimed once, by the insert that   *)
(* creates it, so only its claimer knows its run, worker and token: the    *)
(* fence is whether the row still carries its lease.  The clock of a fence *)
(* is read before its UPDATE, but nothing but a claim acts on a lapse, and *)
(* a claim clears the token, so the two may be one step.                   *)
(*                                                                         *)
(* The API reads a camera and flushes what it changed by primary key, as   *)
(* two steps.  A claim locks the camera and its newest run, one step.      *)
(***************************************************************************)
EXTENDS Naturals

CONSTANTS
    Cameras,         \* camera ids
    Workers,         \* live worker processes
    Clients,         \* API requests
    NoCamera,        \* the camera of a worker that has none
    Reported,        \* the runtime states that native workers report
    MaxGenerations   \* bound: how many runs of a camera are followed

ASSUME BoundAssumption == MaxGenerations \in Nat \ {0}
ASSUME NoCameraAssumption == NoCamera \notin Cameras
ASSUME ReportedAssumption == Reported \subseteq {"STARTING", "ACTIVE", "RECONNECTING", "STOPPING"}

VARIABLES
    camera,      \* the live_camera rows
    generation,  \* the newest generation in live_camera_run, per camera
    run,         \* the live_camera_run rows, per camera and generation
    worker,      \* process_one_camera and its tasks, in each worker
    native,      \* the native worker that the runner task waits for
    shutdown,    \* whether the worker has received SIGTERM
    client       \* start, stop and delete requests in progress

vars == <<camera, generation, run, worker, native, shutdown, client>>

Generations == 1 .. MaxGenerations

Open == {"STARTING", "ACTIVE", "RECONNECTING", "STOPPING"}
Terminal == {"STOPPED", "FAILED"}

CameraRow == [life: {"absent", "active", "deleted"}, desired: {"stopped", "running"}]
RunRow == [state: {"NONE"} \cup Open \cup Terminal, lease: {"none", "live", "expired"}]

\* Where process_one_camera stands: "claimed" has committed the claim, "running"
\* waits for the runner and the monitor, "joining" waits for the identity queue,
\* "stop" and "fail" are the two kinds of _finish, "cleanup" is the finally block.
Place == {"idle", "claimed", "running", "joining", "stop", "fail", "cleanup", "exited"}

\* commands: the LiveCommandQueue is set as _active_commands; stopQueued: it holds
\* a StopCommand.  The failed_event that the reader remembers is left out: it is
\* looked at only after a stopped event, which a failed pipeline never sends.
WorkerState ==
    [at: Place, cam: Cameras \cup {NoCamera}, gen: Nat, commands: BOOLEAN,
     monitor: BOOLEAN, stopSent: BOOLEAN, stopQueued: BOOLEAN]

\* "none": no runner task; "failed": its pipeline has failed, but the process
\* still reads commands; "stopping" and "ending": a live and a failed one that has
\* taken the stop command; "stopped": exited with 0 after a stopped event; "dead":
\* exited in any other way.
NativeState == {"none", "live", "failed", "stopping", "ending", "stopped", "dead"}

ClientState == [op: {"none", "start", "stop", "delete"}, cam: Cameras \cup {NoCamera},
                seen: {"stopped", "running"}]

TypeOK ==
    /\ camera \in [Cameras -> CameraRow]
    /\ generation \in [Cameras -> 0 .. MaxGenerations]
    /\ run \in [Cameras -> [Generations -> RunRow]]
    /\ worker \in [Workers -> WorkerState]
    /\ \A w \in Workers : worker[w].at \notin {"idle", "exited"} =>
          worker[w].cam \in Cameras /\ worker[w].gen \in 1 .. generation[worker[w].cam]
    /\ native \in [Workers -> NativeState]
    /\ shutdown \in [Workers -> BOOLEAN]
    /\ client \in [Clients -> ClientState]
    /\ \A k \in Clients : client[k].op # "none" => client[k].cam \in Cameras

NoRun == [state |-> "NONE", lease |-> "none"]
IdleWorker == [at |-> "idle", cam |-> NoCamera, gen |-> 0, commands |-> FALSE,
               monitor |-> FALSE, stopSent |-> FALSE, stopQueued |-> FALSE]
IdleClient == [op |-> "none", cam |-> NoCamera, seen |-> "stopped"]

Init ==
    /\ camera = [c \in Cameras |-> [life |-> "absent", desired |-> "stopped"]]
    /\ generation = [c \in Cameras |-> 0]
    /\ run = [c \in Cameras |-> [g \in Generations |-> NoRun]]
    /\ worker = [w \in Workers |-> IdleWorker]
    /\ native = [w \in Workers |-> "none"]
    /\ shutdown = [w \in Workers |-> FALSE]
    /\ client = [k \in Clients |-> IdleClient]

-----------------------------------------------------------------------------
(* LiveCameraService.                                                      *)

Register(c) ==
    /\ camera[c].life = "absent"
    /\ camera' = [camera EXCEPT ![c] = [life |-> "active", desired |-> "stopped"]]
    /\ UNCHANGED <<generation, run, worker, native, shutdown, client>>

\* The request reads the camera, which must be active.
RequestRead(k, c, op) ==
    /\ client[k].op = "none"
    /\ camera[c].life = "active"
    /\ client' = [client EXCEPT ![k] = [op |-> op, cam |-> c, seen |-> camera[c].desired]]
    /\ UNCHANGED <<camera, generation, run, worker, native, shutdown>>

\* The flush leaves out desired_state when it is the one that was read.
Flushed(k, desired) ==
    IF client[k].seen = desired THEN camera[client[k].cam].desired ELSE desired

\* uq_live_single_running: one camera that is not deleted may be running.
SingleRunningConflict(c) ==
    /\ camera[c].life = "active"
    /\ \E d \in Cameras \ {c} : camera[d].life = "active" /\ camera[d].desired = "running"

\* start: the index rejects a second running camera.
StartWrite(k) ==
    LET c == client[k].cam IN
    /\ client[k].op = "start"
    /\ \/ /\ Flushed(k, "running") = "running"
          /\ SingleRunningConflict(c)
          /\ UNCHANGED camera
       \/ /\ ~(Flushed(k, "running") = "running" /\ SingleRunningConflict(c))
          /\ camera' = [camera EXCEPT ![c].desired = Flushed(k, "running")]
    /\ client' = [client EXCEPT ![k] = IdleClient]
    /\ UNCHANGED <<generation, run, worker, native, shutdown>>

StopWrite(k) ==
    /\ client[k].op = "stop"
    /\ camera' = [camera EXCEPT ![client[k].cam].desired = Flushed(k, "stopped")]
    /\ client' = [client EXCEPT ![k] = IdleClient]
    /\ UNCHANGED <<generation, run, worker, native, shutdown>>

DeleteWrite(k) ==
    /\ client[k].op = "delete"
    /\ camera' = [camera EXCEPT ![client[k].cam] =
                    [life |-> "deleted", desired |-> Flushed(k, "stopped")]]
    /\ client' = [client EXCEPT ![k] = IdleClient]
    /\ UNCHANGED <<generation, run, worker, native, shutdown>>

-----------------------------------------------------------------------------
(* LiveRunRepository.                                                      *)

WantedThoughDeleted(c) == camera[c].desired = "running"

\* The cameras that claim looks for, and that the monitor goes on serving.
Wanted(c) == camera[c].life = "active" /\ camera[c].desired = "running"

RunOf(w) == run[worker[w].cam][worker[w].gen]

\* The WHERE clause of _fenced_update.
Fenced(w) == RunOf(w).lease = "live"

HeldThoughExpired(c) == generation[c] > 0 /\ run[c][generation[c]].state \in Open

\* The newest run of a camera keeps others from claiming the camera.
Held(c) ==
    /\ generation[c] > 0
    /\ run[c][generation[c]].state \in Open
    /\ run[c][generation[c]].lease = "live"

AbandonedKept(r) == r
\* claim fails a run that is still open although its lease has expired.
Abandoned(r) == IF r.state \in Open THEN [state |-> "FAILED", lease |-> "none"] ELSE r

\* claim appends the next generation.
WithNextRun(c) ==
    [g \in Generations |->
        IF g = generation[c] + 1 THEN [state |-> "STARTING", lease |-> "live"]
        ELSE IF g = generation[c] THEN Abandoned(run[c][g])
        ELSE run[c][g]]

Updated(w, row) == run' = [run EXCEPT ![worker[w].cam][worker[w].gen] = row]

FinishedRowLeased(r, state) == [r EXCEPT !.state = state]

\* What finish writes.
FinishedRow(r, state) == [state |-> state, lease |-> "none"]

LeaseLapse(c, g) ==
    /\ run[c][g].lease = "live"
    /\ run' = [run EXCEPT ![c][g].lease = "expired"]
    /\ UNCHANGED <<camera, generation, worker, native, shutdown, client>>

-----------------------------------------------------------------------------
(* LiveSupervisor.process_one_camera.                                      *)

\* At most one camera is wanted, so the order of the candidates is left out.
Claim(w) ==
    /\ worker[w].at = "idle"
    /\ ~shutdown[w]
    /\ \E c \in Cameras :
          /\ Wanted(c)
          /\ ~Held(c)
          /\ generation[c] < MaxGenerations
          /\ generation' = [generation EXCEPT ![c] = generation[c] + 1]
          /\ run' = [run EXCEPT ![c] = WithNextRun(c)]
          /\ worker' = [worker EXCEPT ![w] = [IdleWorker EXCEPT
                           !.at = "claimed", !.cam = c, !.gen = generation[c] + 1]]
    /\ UNCHANGED <<camera, native, shutdown, client>>

\* The URI is decrypted, the command queue becomes active, and the runner and
\* monitor tasks start; or the URI is unusable, and the run fails.
Launch(w) ==
    /\ worker[w].at = "claimed"
    /\ \/ /\ worker' = [worker EXCEPT ![w].at = "running", ![w].commands = TRUE,
                                      ![w].monitor = TRUE]
          /\ native' = [native EXCEPT ![w] = "live"]
       \/ /\ worker' = [worker EXCEPT ![w].at = "fail"]
          /\ UNCHANGED native
    /\ UNCHANGED <<camera, generation, run, shutdown, client>>

\* The runner task is over: run's finally block has terminated the process.
RunnerOver(w, at) ==
    /\ native' = [native EXCEPT ![w] = "none"]
    /\ worker' = [worker EXCEPT ![w].at = IF worker[w].at = "running" THEN at ELSE worker[w].at]

\* _persist_state or _persist_metrics on an event of the native worker.  STOPPED
\* and FAILED are not persisted.  A rejected update ends the runner: run wraps
\* the lost lease in a NativeLiveRunnerError, which process_one_camera takes for
\* a failure of the run.
Persist(w, state) ==
    /\ native[w] # "none"
    /\ \/ /\ Fenced(w)
          /\ Updated(w, [RunOf(w) EXCEPT !.state = state])
          /\ UNCHANGED <<worker, native>>
       \/ /\ ~Fenced(w)
          /\ RunnerOver(w, "fail")
          /\ UNCHANGED run
    /\ UNCHANGED <<camera, generation, shutdown, client>>

\* run returns the stopped event, or raises.
RunnerEnds(w) ==
    /\ \/ native[w] = "stopped" /\ RunnerOver(w, "joining")
       \/ native[w] = "dead" /\ RunnerOver(w, "fail")
    /\ UNCHANGED <<camera, generation, run, shutdown, client>>

\* The reader meets a malformed frame, or the process cannot be started.
RunnerRaises(w) ==
    /\ native[w] # "none"
    /\ RunnerOver(w, "fail")
    /\ UNCHANGED <<camera, generation, run, shutdown, client>>

\* The identity queue is empty; the monitor is cancelled.
Joined(w) ==
    /\ worker[w].at = "joining"
    /\ worker' = [worker EXCEPT ![w].at = "stop", ![w].monitor = FALSE]
    /\ UNCHANGED <<camera, generation, run, native, shutdown, client>>

MonitorWithoutStop(w) ==
    /\ worker[w].monitor
    /\ ~Fenced(w)
    /\ worker' = [worker EXCEPT ![w].monitor = FALSE,
                     ![w].at = IF worker[w].at = "running" THEN "cleanup" ELSE worker[w].at]
    /\ native' = [native EXCEPT ![w] = IF worker[w].at = "running" THEN "none" ELSE native[w]]
    /\ UNCHANGED <<camera, generation, run, shutdown, client>>

\* One round of _monitor, which keeps the lease live.  A lost lease, seen while
\* process_one_camera waits, cancels the runner and abandons the run.
Monitor(w) ==
    /\ worker[w].monitor
    /\ \/ /\ Fenced(w)
          /\ ~worker[w].stopSent
          /\ ~Wanted(worker[w].cam)
          /\ worker' = [worker EXCEPT ![w].stopSent = TRUE, ![w].stopQueued = TRUE]
          /\ UNCHANGED native
       \/ /\ ~Fenced(w)
          /\ worker' = [worker EXCEPT ![w].monitor = FALSE,
                           ![w].at = IF worker[w].at = "running" THEN "cleanup" ELSE worker[w].at]
          /\ native' = [native EXCEPT ![w] = IF worker[w].at = "running" THEN "none" ELSE native[w]]
    /\ UNCHANGED <<camera, generation, run, shutdown, client>>

\* Any other exception of the monitor fails the run, the runner still at work.
MonitorRaises(w) ==
    /\ worker[w].monitor
    /\ worker' = [worker EXCEPT ![w].monitor = FALSE,
                     ![w].at = IF worker[w].at = "running" THEN "fail" ELSE worker[w].at]
    /\ UNCHANGED <<camera, generation, run, native, shutdown, client>>

\* _finish does not look at what finish returns.
Finish(w) ==
    /\ worker[w].at \in {"stop", "fail"}
    /\ \/ /\ Fenced(w)
          /\ Updated(w, FinishedRow(RunOf(w), IF worker[w].at = "stop" THEN "STOPPED" ELSE "FAILED"))
       \/ ~Fenced(w) /\ UNCHANGED run
    /\ worker' = [worker EXCEPT ![w].at = "cleanup"]
    /\ UNCHANGED <<camera, generation, native, shutdown, client>>

\* finish raises in the try block, whose handler fails the run.
FinishRaises(w) ==
    /\ worker[w].at = "stop"
    /\ worker' = [worker EXCEPT ![w].at = "fail"]
    /\ UNCHANGED <<camera, generation, run, native, shutdown, client>>

\* The finally block cancels what is left of the tasks, the child with them.
CleanUp(w) ==
    /\ worker[w].at = "cleanup"
    /\ worker' = [worker EXCEPT ![w] = IdleWorker]
    /\ native' = [native EXCEPT ![w] = "none"]
    /\ UNCHANGED <<camera, generation, run, shutdown, client>>

-----------------------------------------------------------------------------
(* live_worker_main.                                                       *)

\* request_shutdown: request_stop has no effect without an active queue.
Sigterm(w) ==
    /\ ~shutdown[w]
    /\ shutdown' = [shutdown EXCEPT ![w] = TRUE]
    /\ worker' = [worker EXCEPT ![w].stopQueued = worker[w].stopQueued \/ worker[w].commands]
    /\ UNCHANGED <<camera, generation, run, native, client>>

Exit(w) ==
    /\ worker[w].at = "idle"
    /\ shutdown[w]
    /\ worker' = [worker EXCEPT ![w].at = "exited"]
    /\ UNCHANGED <<camera, generation, run, native, shutdown, client>>

\* An operator starts the container again.
Restart(w) ==
    /\ worker[w].at = "exited"
    /\ worker' = [worker EXCEPT ![w] = IdleWorker]
    /\ shutdown' = [shutdown EXCEPT ![w] = FALSE]
    /\ UNCHANGED <<camera, generation, run, native, client>>

\* The supervisor dies and its container with it; it is restarted unless it was
\* told to stop.
Crash(w) ==
    /\ worker[w].at \notin {"idle", "exited"}
    /\ worker' = [worker EXCEPT ![w] = [IdleWorker EXCEPT !.at = IF shutdown[w] THEN "exited" ELSE "idle"]]
    /\ native' = [native EXCEPT ![w] = "none"]
    /\ UNCHANGED <<camera, generation, run, shutdown, client>>

-----------------------------------------------------------------------------
(* The native worker as a process: main of live_worker_main.cpp.           *)

\* The writer task sends the stop command, and the child takes it.  From here on
\* its main waits in close for the pipeline's threads, without a timeout; a
\* pipeline that has failed before never reports that it stopped.
DeliverStop(w) ==
    /\ worker[w].stopQueued
    /\ native[w] \in {"live", "failed"}
    /\ worker' = [worker EXCEPT ![w].stopQueued = FALSE]
    /\ native' = [native EXCEPT ![w] = IF native[w] = "live" THEN "stopping" ELSE "ending"]
    /\ UNCHANGED <<camera, generation, run, shutdown, client>>

NativeStops(w) ==
    /\ native[w] = "stopping"
    /\ native' = [native EXCEPT ![w] = "stopped"]
    /\ UNCHANGED <<camera, generation, run, worker, shutdown, client>>

\* The pipeline fails: a FailedEvent is sent, and main goes on reading commands.
NativeFails(w) ==
    /\ native[w] = "live"
    /\ native' = [native EXCEPT ![w] = "failed"]
    /\ UNCHANGED <<camera, generation, run, worker, shutdown, client>>

NativeDies(w) ==
    /\ native[w] \in {"live", "failed", "stopping", "ending"}
    /\ native' = [native EXCEPT ![w] = "dead"]
    /\ UNCHANGED <<camera, generation, run, worker, shutdown, client>>

-----------------------------------------------------------------------------
Api ==
    \/ \E c \in Cameras : Register(c)
    \/ \E k \in Clients : StartWrite(k) \/ StopWrite(k) \/ DeleteWrite(k)
    \/ \E k \in Clients, c \in Cameras, op \in {"start", "stop", "delete"} : RequestRead(k, c, op)

Time == \E c \in Cameras, g \in Generations : LeaseLapse(c, g)

Supervisor(w) ==
    \/ Claim(w) \/ Launch(w) \/ Joined(w) \/ Finish(w) \/ FinishRaises(w) \/ CleanUp(w)

Tasks(w) ==
    \/ Monitor(w) \/ MonitorRaises(w) \/ RunnerEnds(w) \/ RunnerRaises(w)
    \/ \E s \in Reported : Persist(w, s)

Native(w) == DeliverStop(w) \/ NativeStops(w) \/ NativeFails(w) \/ NativeDies(w)

Next ==
    \/ Api
    \/ Time
    \/ \E w \in Workers :
          \/ Supervisor(w) \/ Tasks(w) \/ Native(w)
          \/ Sigterm(w) \/ Exit(w) \/ Restart(w) \/ Crash(w)

Spec == Init /\ [][Next]_vars

\* A lease that no monitor renews.
Unattended(c, g) ==
    ~\E w \in Workers : worker[w].cam = c /\ worker[w].gen = g /\ worker[w].monitor

\* Awaited calls return, the monitor's rounds go on, an exited child is noticed,
\* and time passes.  Nothing forces a request, a signal, a failure or a crash, and
\* nothing forces the child: it need not read its commands, for apply_assignment
\* waits without a timeout, and it need not end after a stop, for close does too.
Fairness ==
    /\ \A w \in Workers :
          /\ WF_vars(Claim(w)) /\ WF_vars(Launch(w)) /\ WF_vars(Joined(w))
          /\ WF_vars(Finish(w)) /\ WF_vars(CleanUp(w)) /\ WF_vars(Exit(w))
          /\ WF_vars(Monitor(w)) /\ WF_vars(RunnerEnds(w))
    /\ \A c \in Cameras, g \in Generations : WF_vars(LeaseLapse(c, g) /\ Unattended(c, g))

FairSpec == Spec /\ Fairness

-----------------------------------------------------------------------------
(* Properties.                                                             *)

\* A lease is only ever on the newest run of a camera: neither a claim that
\* takes over, nor a late event or a late finish of the worker it took over from
\* leaves two runs of one camera with an owner.
OneOwner ==
    \A c \in Cameras, g \in Generations :
        run[c][g].lease # "none" => g = generation[c] /\ run[c][g].state \in Open

\* The runs of a camera are a ledger of generations: a claim closes what was
\* open and opens the next generation, nothing else opens a run, and a run that
\* has ended stays as it ended, although its worker may still be sending events.
Ledger == INSTANCE RunLedger WITH
    newest <- generation,
    open <- [c \in Cameras |-> {g \in Generations : run[c][g].state \in Open}]

LedgerKept == Ledger!Spec

\* A deleted camera stays deleted and gets no further run, although a start that
\* read it before may still write its desired state.
DeletedStaysDown ==
    [][\A c \in Cameras : camera[c].life = "deleted" =>
          camera'[c].life = "deleted" /\ generation'[c] = generation[c]]_vars

Serving(c, states) == \E w \in Workers : worker[w].cam = c /\ native[w] \in states

\* A child at work for a camera that has neither taken a stop nor will find one in
\* the queue that its writer task empties.
Untold(c) ==
    \E w \in Workers : worker[w].cam = c /\ native[w] \in {"live", "failed"} /\ ~worker[w].stopQueued

\* Once a camera is stopped or deleted for good, no child is left at work
\* for it that has not been told to stop, whether the supervisor holds the lease,
\* has lost it, is failing the run or had still to launch the child.  That a
\* child which was told ends is not promised, as nobody times it.
UnwantedIsTold ==
    \A c \in Cameras : <>[]~Wanted(c) => <>[]~Untold(c)

\* A camera that is to run gets a native worker, whatever crashed before.  The
\* exceptions: a pipeline that has failed without its process ending, a child that
\* has taken a stop and does not end (its lease is renewed all the while), a worker
\* told to shut down, and the bound on generations.
WantedIsServed ==
    \A c \in Cameras :
        Wanted(c) ~> \/ ~Wanted(c) \/ Serving(c, {"live", "failed"})
                     \/ \E w \in Workers : native[w] \in {"stopping", "ending"} \/ shutdown[w]
                     \/ generation[c] = MaxGenerations
=============================================================================
