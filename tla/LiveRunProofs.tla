--------------------------- MODULE LiveRunProofs ---------------------------
(***************************************************************************)
(* Proofs about LiveRun: an owned run is the newest of its camera, the     *)
(* runs implement RunLedger, and a deleted camera stays down.              *)
(*                                                                         *)
(* OneOwner is not inductive: that a claim leaves one owner needs that an  *)
(* open run always carries a lease, so that the claim meets no open run    *)
(* but the newest, and that a late event changes a run only while it is    *)
(* open needs the converse.  OpenIsLeased adds that half.  ChildHasRun     *)
(* says that events come from workers that have claimed.                   *)
(***************************************************************************)
EXTENDS LiveRun, TLAPS

OpenIsLeased ==
    \A c \in Cameras, g \in Generations : run[c][g].state \in Open => run[c][g].lease # "none"

\* Only a supervisor that has claimed has a child.
ChildHasRun == \A w \in Workers : native[w] # "none" => worker[w].at \notin {"idle", "exited"}

\* What a step must keep of the database and the types.
RowInv == TypeOK /\ OneOwner /\ OpenIsLeased

IInv == RowInv /\ ChildHasRun

\* Which states are open, and which are terminal.
LEMMA StateValues ==
    /\ "STARTING" \in Open /\ "STOPPED" \notin Open /\ "FAILED" \notin Open /\ "NONE" \notin Open
    /\ Reported \subseteq Open
    /\ \A s \in Open \cup {"NONE", "STOPPED", "FAILED"} : s \in {"NONE"} \cup Open \cup Terminal
BY ReportedAssumption DEF Open, Terminal

\* The initial state, in which no camera has a run.
LEMMA InitRowInv == Init => RowInv
<1> SUFFICES ASSUME Init PROVE RowInv
  OBVIOUS
<1>1. IdleWorker \in WorkerState
  BY DEF IdleWorker, WorkerState, Place
<1>2. IdleClient \in ClientState
  BY DEF IdleClient, ClientState
<1>3. NoRun \in RunRow /\ NoRun.lease = "none" /\ NoRun.state \notin Open
  BY StateValues DEF NoRun, RunRow
<1>4. [life |-> "absent", desired |-> "stopped"] \in CameraRow
  BY DEF CameraRow
<1>5. TypeOK
  <2>1. camera \in [Cameras -> CameraRow]
    BY <1>4 DEF Init
  <2>2. generation \in [Cameras -> 0 .. MaxGenerations]
    BY BoundAssumption DEF Init
  <2>3. run \in [Cameras -> [Generations -> RunRow]]
    BY <1>3 DEF Init
  <2>4. worker \in [Workers -> WorkerState]
    BY <1>1 DEF Init
  <2>5. \A w \in Workers : worker[w].at = "idle"
    BY DEF Init, IdleWorker
  <2>6. native \in [Workers -> NativeState] /\ shutdown \in [Workers -> BOOLEAN]
    BY DEF Init, NativeState
  <2>7. client \in [Clients -> ClientState]
    BY <1>2 DEF Init
  <2>8. \A k \in Clients : client[k].op = "none"
    BY DEF Init, IdleClient
  <2> QED
    BY <2>1, <2>2, <2>3, <2>4, <2>5, <2>6, <2>7, <2>8 DEF TypeOK
<1>6. \A c \in Cameras, g \in Generations : run[c][g] = NoRun
  BY DEF Init
<1> QED
  BY <1>3, <1>5, <1>6 DEF RowInv, OneOwner, OpenIsLeased

\* A step that leaves the runs alone keeps what is said of them.
LEMMA RunsKept == ASSUME RowInv, UNCHANGED <<run, generation>> PROVE OneOwner' /\ OpenIsLeased'
BY DEF RowInv, OneOwner, OpenIsLeased

\* The requests of the API change cameras and clients alone.
LEMMA ApiStep == RowInv /\ Api => RowInv'
<1> SUFFICES ASSUME RowInv, Api PROVE TypeOK'
  <2>1. Api => UNCHANGED <<run, generation>>
    BY DEF Api, Register, RequestRead, StartWrite, StopWrite, DeleteWrite
  <2> QED
    BY <2>1, RunsKept DEF RowInv
<1> USE DEF RowInv
<1>1. IdleClient \in ClientState /\ IdleClient.op = "none"
  BY DEF IdleClient, ClientState
<1>2. \A k \in Clients, d \in {"stopped", "running"} : client[k].cam \in Cameras =>
         Flushed(k, d) \in {"stopped", "running"}
  BY DEF Flushed, TypeOK, CameraRow
<1>3. \A c \in Cameras, d \in {"stopped", "running"} :
         [camera EXCEPT ![c].desired = d] \in [Cameras -> CameraRow]
  BY DEF TypeOK, CameraRow
<1>4. \A c \in Cameras, l \in {"active", "deleted"}, d \in {"stopped", "running"} :
         [camera EXCEPT ![c] = [life |-> l, desired |-> d]] \in [Cameras -> CameraRow]
  BY DEF TypeOK, CameraRow
<1>5. \A k \in Clients : [client EXCEPT ![k] = IdleClient] \in [Clients -> ClientState]
  BY <1>1 DEF TypeOK
<1>6. ASSUME NEW c \in Cameras, Register(c) PROVE TypeOK'
  <2>1. camera' \in [Cameras -> CameraRow]
    BY <1>4, <1>6 DEF Register
  <2> QED
    BY <1>6, <2>1 DEF Register, TypeOK
<1>7. ASSUME NEW k \in Clients, NEW c \in Cameras, NEW op \in {"start", "stop", "delete"},
             RequestRead(k, c, op)
      PROVE TypeOK'
  <2>1. [op |-> op, cam |-> c, seen |-> camera[c].desired] \in ClientState
    BY DEF ClientState, TypeOK, CameraRow
  <2>2. client' \in [Clients -> ClientState]
    BY <1>7, <2>1 DEF RequestRead, TypeOK
  <2>3. \A j \in Clients : client'[j].op # "none" => client'[j].cam \in Cameras
    BY <1>7 DEF RequestRead, TypeOK
  <2> QED
    BY <1>7, <2>2, <2>3 DEF RequestRead, TypeOK
<1>8. ASSUME NEW k \in Clients, client[k].cam \in Cameras,
             camera' \in [Cameras -> CameraRow],
             client' = [client EXCEPT ![k] = IdleClient],
             UNCHANGED <<generation, run, worker, native, shutdown>>
      PROVE TypeOK'
  <2>1. client' \in [Clients -> ClientState]
    BY <1>5, <1>8
  <2>2. \A j \in Clients : client'[j].op # "none" => client'[j].cam \in Cameras
    BY <1>1, <1>8 DEF TypeOK
  <2> QED
    BY <1>8, <2>1, <2>2 DEF TypeOK
<1>9. ASSUME NEW k \in Clients, StartWrite(k) \/ StopWrite(k) \/ DeleteWrite(k) PROVE TypeOK'
  <2>1. client[k].cam \in Cameras
    BY <1>9 DEF StartWrite, StopWrite, DeleteWrite, TypeOK
  <2>2. camera' \in [Cameras -> CameraRow]
    <3>1. CASE StartWrite(k)
      <4>1. Flushed(k, "running") \in {"stopped", "running"}
        BY <1>2, <2>1
      <4>2. \/ UNCHANGED camera
            \/ camera' = [camera EXCEPT ![client[k].cam].desired = Flushed(k, "running")]
        BY <3>1 DEF StartWrite
      <4>3. [camera EXCEPT ![client[k].cam].desired = Flushed(k, "running")] \in [Cameras -> CameraRow]
        BY <1>3, <2>1, <4>1
      <4> QED
        BY <4>2, <4>3 DEF TypeOK
    <3>2. CASE StopWrite(k)
      BY <1>2, <1>3, <2>1, <3>2 DEF StopWrite
    <3>3. CASE DeleteWrite(k)
      BY <1>2, <1>4, <2>1, <3>3 DEF DeleteWrite
    <3> QED
      BY <1>9, <3>1, <3>2, <3>3
  <2>3. client' = [client EXCEPT ![k] = IdleClient]
        /\ UNCHANGED <<generation, run, worker, native, shutdown>>
    BY <1>9 DEF StartWrite, StopWrite, DeleteWrite
  <2> QED
    BY <1>8, <2>1, <2>2, <2>3
<1> QED
  BY <1>6, <1>7, <1>9 DEF Api

\* The worker that a step of process_one_camera leaves: well typed, and still on
\* the run it worked on, unless it is through with it.
Onward(w) ==
    /\ worker' = [worker EXCEPT ![w] = worker'[w]]
    /\ worker'[w] \in WorkerState
    /\ worker'[w].at \notin {"idle", "exited"} =>
          /\ worker[w].at \notin {"idle", "exited"}
          /\ worker'[w].cam = worker[w].cam /\ worker'[w].gen = worker[w].gen

\* Such a step keeps the types of all workers.
LEMMA WorkerTypes ==
    ASSUME RowInv, NEW w \in Workers, Onward(w), UNCHANGED generation
    PROVE  /\ worker' \in [Workers -> WorkerState]
           /\ \A v \in Workers : worker'[v].at \notin {"idle", "exited"} =>
                 worker'[v].cam \in Cameras /\ worker'[v].gen \in 1 .. generation'[worker'[v].cam]
<1>1. worker \in [Workers -> WorkerState]
  BY DEF RowInv, TypeOK
<1>2. worker' \in [Workers -> WorkerState]
  BY <1>1 DEF Onward
<1>3. ASSUME NEW v \in Workers, worker'[v].at \notin {"idle", "exited"}
      PROVE worker'[v].cam \in Cameras /\ worker'[v].gen \in 1 .. generation'[worker'[v].cam]
  <2>1. v # w => worker'[v] = worker[v]
    BY <1>1 DEF Onward
  <2>2. /\ worker[v].at \notin {"idle", "exited"}
        /\ worker'[v].cam = worker[v].cam /\ worker'[v].gen = worker[v].gen
    BY <1>3, <2>1 DEF Onward
  <2> QED
    BY <2>2 DEF RowInv, TypeOK
<1> QED
  BY <1>2, <1>3

\* If it leaves the database alone, it keeps the invariant.
LEMMA WorkerStep ==
    ASSUME RowInv, NEW w \in Workers, Onward(w),
           native' \in [Workers -> NativeState],
           shutdown' \in [Workers -> BOOLEAN],
           UNCHANGED <<camera, generation, run, client>>
    PROVE  RowInv'
<1>1. TypeOK'
  BY WorkerTypes DEF RowInv, TypeOK
<1> QED
  BY <1>1, RunsKept DEF RowInv

\* The steps of a worker and of its child that leave the database alone.
QuietSteps(w) ==
    \/ Launch(w) \/ Joined(w) \/ FinishRaises(w) \/ CleanUp(w)
    \/ Monitor(w) \/ MonitorRaises(w) \/ RunnerEnds(w) \/ RunnerRaises(w)
    \/ DeliverStop(w) \/ NativeStops(w) \/ NativeFails(w) \/ NativeDies(w)
    \/ Sigterm(w) \/ Exit(w) \/ Restart(w) \/ Crash(w)

\* None of them leaves the types or turns to another run.
LEMMA QuietStep == \A w \in Workers : RowInv /\ QuietSteps(w) => RowInv'
<1> SUFFICES ASSUME NEW w \in Workers, RowInv, QuietSteps(w) PROVE RowInv'
  OBVIOUS
<1>1. worker[w] \in WorkerState /\ worker \in [Workers -> WorkerState]
  BY DEF RowInv, TypeOK
<1>2. native \in [Workers -> NativeState] /\ shutdown \in [Workers -> BOOLEAN]
  BY DEF RowInv, TypeOK
<1>3. UNCHANGED <<camera, generation, run, client>>
  BY DEF QuietSteps, Launch, Joined, FinishRaises, CleanUp, Monitor, MonitorRaises, RunnerEnds,
         RunnerRaises, DeliverStop, NativeStops, NativeFails, NativeDies, Sigterm, Exit, Restart, Crash
<1>4. native' \in [Workers -> NativeState]
  BY <1>2 DEF QuietSteps, Launch, Joined, FinishRaises, CleanUp, Monitor, MonitorRaises, RunnerEnds,
         RunnerRaises, RunnerOver, DeliverStop, NativeStops, NativeFails, NativeDies, Sigterm, Exit,
         Restart, Crash, NativeState
<1>5. shutdown' \in [Workers -> BOOLEAN]
  BY <1>2 DEF QuietSteps, Launch, Joined, FinishRaises, CleanUp, Monitor, MonitorRaises, RunnerEnds,
         RunnerRaises, DeliverStop, NativeStops, NativeFails, NativeDies, Sigterm, Exit, Restart, Crash
<1>6. IdleWorker \in WorkerState /\ IdleWorker.at = "idle"
  BY DEF IdleWorker, WorkerState, Place
<1>7. \A a \in {"idle", "exited"} :
         [IdleWorker EXCEPT !.at = a] \in WorkerState /\ [IdleWorker EXCEPT !.at = a].at = a
  BY DEF IdleWorker, WorkerState, Place
<1>8. \A r : /\ r \in WorkerState /\ worker' = [worker EXCEPT ![w] = r]
             /\ r.at \notin {"idle", "exited"} => worker[w].at \notin {"idle", "exited"}
             /\ r.cam = worker[w].cam /\ r.gen = worker[w].gen
             => Onward(w)
  BY <1>1 DEF Onward
<1>9. ASSUME NEW a \in Place, NEW m \in BOOLEAN
      PROVE  LET r == [worker[w] EXCEPT !.at = a, !.monitor = m] IN
             r \in WorkerState /\ r.at = a /\ r.cam = worker[w].cam /\ r.gen = worker[w].gen
  BY <1>1 DEF WorkerState
<1>10. ASSUME NEW s \in BOOLEAN, NEW q \in BOOLEAN
       PROVE  LET r == [worker[w] EXCEPT !.stopSent = s, !.stopQueued = q] IN
              r \in WorkerState /\ r.at = worker[w].at /\ r.cam = worker[w].cam /\ r.gen = worker[w].gen
  BY <1>1 DEF WorkerState
<1>11. Launch(w) \/ FinishRaises(w) \/ Exit(w) => Onward(w)
  BY <1>1 DEF Launch, FinishRaises, Exit, Onward, WorkerState, Place
<1>12. RunnerEnds(w) \/ RunnerRaises(w) => Onward(w)
  BY <1>1 DEF RunnerEnds, RunnerRaises, RunnerOver, Onward, WorkerState, Place
<1>13. Joined(w) => Onward(w)
  <2> DEFINE r == [worker[w] EXCEPT !.at = "stop", !.monitor = FALSE]
  <2>1. r \in WorkerState /\ r.at = "stop" /\ r.cam = worker[w].cam /\ r.gen = worker[w].gen
    BY <1>9 DEF Place
  <2>2. Joined(w) => worker' = [worker EXCEPT ![w] = r] /\ worker[w].at = "joining"
    BY <1>1 DEF Joined
  <2> HIDE DEF r
  <2> QED
    BY <1>8, <2>1, <2>2
<1>14. ASSUME NEW b \in {"cleanup", "fail"},
              worker' = [worker EXCEPT ![w].monitor = FALSE,
                            ![w].at = IF worker[w].at = "running" THEN b ELSE worker[w].at]
       PROVE  Onward(w)
  <2> DEFINE a == IF worker[w].at = "running" THEN b ELSE worker[w].at
             r == [worker[w] EXCEPT !.at = a, !.monitor = FALSE]
  <2>1. a \in Place /\ (a \notin {"idle", "exited"} => worker[w].at \notin {"idle", "exited"})
    BY <1>1 DEF WorkerState, Place
  <2>2. worker' = [worker EXCEPT ![w] = r]
    BY <1>1, <1>14 DEF WorkerState
  <2> HIDE DEF a
  <2>3. r \in WorkerState /\ r.at = a /\ r.cam = worker[w].cam /\ r.gen = worker[w].gen
    BY <1>9, <2>1
  <2> HIDE DEF r
  <2> QED
    BY <1>8, <2>1, <2>2, <2>3
<1>15. MonitorRaises(w) => Onward(w)
  BY <1>14 DEF MonitorRaises
<1>16. Monitor(w) => Onward(w)
  <2> DEFINE r == [worker[w] EXCEPT !.stopSent = TRUE, !.stopQueued = TRUE]
  <2>1. r \in WorkerState /\ r.at = worker[w].at /\ r.cam = worker[w].cam /\ r.gen = worker[w].gen
    BY <1>10
  <2>2. ASSUME worker' = [worker EXCEPT ![w].stopSent = TRUE, ![w].stopQueued = TRUE] PROVE Onward(w)
    <3>1. worker' = [worker EXCEPT ![w] = r]
      BY <1>1, <2>2
    <3> HIDE DEF r
    <3> QED
      BY <1>8, <2>1, <3>1
  <2> QED
    BY <1>14, <2>2 DEF Monitor
<1>17. ASSUME NEW q \in BOOLEAN, worker' = [worker EXCEPT ![w].stopQueued = q] PROVE Onward(w)
  <2> DEFINE r == [worker[w] EXCEPT !.stopQueued = q]
  <2>1. r \in WorkerState /\ r.at = worker[w].at /\ r.cam = worker[w].cam /\ r.gen = worker[w].gen
    BY <1>1 DEF WorkerState
  <2>2. worker' = [worker EXCEPT ![w] = r]
    BY <1>1, <1>17
  <2> HIDE DEF r
  <2> QED
    BY <1>8, <2>1, <2>2
<1>18. DeliverStop(w) \/ Sigterm(w) => Onward(w)
  <2>1. (worker[w].stopQueued \/ worker[w].commands) \in BOOLEAN
    OBVIOUS
  <2>2. DeliverStop(w) => Onward(w)
    BY <1>17 DEF DeliverStop
  <2>3. Sigterm(w) => Onward(w)
    BY <1>17, <2>1 DEF Sigterm
  <2> QED
    BY <2>2, <2>3
<1>19. \/ CleanUp(w) \/ Restart(w) \/ Crash(w) \/ NativeStops(w) \/ NativeFails(w) \/ NativeDies(w)
       => Onward(w)
  BY <1>1, <1>6, <1>7 DEF CleanUp, Restart, Crash, NativeStops, NativeFails, NativeDies, Onward
<1>20. Onward(w)
  BY <1>11, <1>12, <1>13, <1>15, <1>16, <1>18, <1>19 DEF QuietSteps
<1> QED
  BY <1>3, <1>4, <1>5, <1>20, WorkerStep

\* A write to one row keeps what is said of all rows, if it holds of that row.
LEMMA RowWritten ==
    ASSUME RowInv, UNCHANGED generation, NEW c \in Cameras, NEW g \in Generations, NEW row \in RunRow,
           run' = [run EXCEPT ![c][g] = row],
           row.lease # "none" => g = generation[c],
           row.lease # "none" <=> row.state \in Open
    PROVE  run' \in [Cameras -> [Generations -> RunRow]] /\ OneOwner' /\ OpenIsLeased'
<1>1. run \in [Cameras -> [Generations -> RunRow]]
  BY DEF RowInv, TypeOK
<1>2. run' \in [Cameras -> [Generations -> RunRow]]
  BY <1>1
<1>3. ASSUME NEW d \in Cameras, NEW h \in Generations
      PROVE  IF d = c /\ h = g THEN run'[d][h] = row ELSE run'[d][h] = run[d][h]
  BY <1>1
<1> QED
  BY <1>2, <1>3 DEF RowInv, OneOwner, OpenIsLeased

\* The row of a worker that has claimed.
LEMMA OwnRow ==
    ASSUME RowInv, NEW w \in Workers, worker[w].at \notin {"idle", "exited"}
    PROVE  /\ worker[w].cam \in Cameras /\ worker[w].gen \in Generations
           /\ RunOf(w) \in RunRow
           /\ Fenced(w) => worker[w].gen = generation[worker[w].cam] /\ RunOf(w).state \in Open
<1>1. worker[w].cam \in Cameras /\ worker[w].gen \in 1 .. generation[worker[w].cam]
  BY DEF RowInv, TypeOK
<1>2. generation[worker[w].cam] \in 0 .. MaxGenerations
  BY <1>1 DEF RowInv, TypeOK
<1>3. worker[w].gen \in Generations
  BY <1>1, <1>2, BoundAssumption DEF Generations
<1>4. RunOf(w) \in RunRow
  BY <1>1, <1>3 DEF RowInv, TypeOK, RunOf
<1>5. Fenced(w) => worker[w].gen = generation[worker[w].cam] /\ RunOf(w).state \in Open
  BY <1>1, <1>3 DEF RowInv, OneOwner, Fenced, RunOf
<1> QED
  BY <1>1, <1>3, <1>4, <1>5

\* A lapse leaves the lease, expired, on the row.
LEMMA LapseStep == \A c \in Cameras, g \in Generations : RowInv /\ LeaseLapse(c, g) => RowInv'
<1> SUFFICES ASSUME NEW c \in Cameras, NEW g \in Generations, RowInv, LeaseLapse(c, g) PROVE RowInv'
  OBVIOUS
<1> DEFINE row == [run[c][g] EXCEPT !.lease = "expired"]
<1>1. run[c][g] \in RunRow /\ run[c][g].lease = "live" /\ run \in [Cameras -> [Generations -> RunRow]]
  BY DEF RowInv, TypeOK, LeaseLapse
<1>2. row \in RunRow /\ row.lease = "expired" /\ row.state = run[c][g].state
  BY <1>1 DEF RunRow
<1>3. run' = [run EXCEPT ![c][g] = row]
  BY <1>1 DEF LeaseLapse
<1>4. g = generation[c] /\ run[c][g].state \in Open
  BY <1>1 DEF RowInv, OneOwner
<1>5. UNCHANGED <<camera, generation, worker, native, shutdown, client>>
  BY DEF LeaseLapse
<1> HIDE DEF row
<1>6. run' \in [Cameras -> [Generations -> RunRow]] /\ OneOwner' /\ OpenIsLeased'
  BY <1>2, <1>3, <1>4, <1>5, RowWritten
<1> QED
  BY <1>5, <1>6 DEF RowInv, TypeOK

\* An event of the native worker: persisted under a live lease, or the end of its
\* runner.
LEMMA PersistStep ==
    \A w \in Workers, s \in Reported :
        RowInv /\ worker[w].at \notin {"idle", "exited"} /\ Persist(w, s) => RowInv'
<1> SUFFICES ASSUME NEW w \in Workers, NEW s \in Reported, RowInv, Persist(w, s),
                    worker[w].at \notin {"idle", "exited"}
             PROVE RowInv'
  OBVIOUS
<1>1. CASE Fenced(w) /\ UNCHANGED <<worker, native>>
  <2> DEFINE row == [RunOf(w) EXCEPT !.state = s]
  <2>1. s \in Open /\ s \in {"NONE"} \cup Open \cup Terminal
    BY StateValues
  <2>2. row \in RunRow /\ row.lease = "live" /\ row.state = s
    BY <1>1, <2>1, OwnRow DEF RunRow, Fenced
  <2>3. run' = [run EXCEPT ![worker[w].cam][worker[w].gen] = row]
    BY <1>1 DEF Persist, Updated
  <2>4. UNCHANGED <<camera, generation, shutdown, client>>
    BY DEF Persist
  <2> HIDE DEF row
  <2>5. run' \in [Cameras -> [Generations -> RunRow]] /\ OneOwner' /\ OpenIsLeased'
    BY <1>1, <2>1, <2>2, <2>3, <2>4, OwnRow, RowWritten
  <2> QED
    BY <1>1, <2>4, <2>5 DEF RowInv, TypeOK
<1>2. CASE ~Fenced(w)
  <2>1. RunnerOver(w, "fail") /\ UNCHANGED <<run, camera, generation, shutdown, client>>
    BY <1>2 DEF Persist
  <2>2. worker \in [Workers -> WorkerState] /\ native \in [Workers -> NativeState]
    BY DEF RowInv, TypeOK
  <2>3. Onward(w)
    BY <2>1, <2>2 DEF RunnerOver, Onward, WorkerState, Place
  <2>4. native' \in [Workers -> NativeState]
    BY <2>1, <2>2 DEF RunnerOver, NativeState
  <2>5. shutdown' \in [Workers -> BOOLEAN]
    BY <2>1 DEF RowInv, TypeOK
  <2> QED
    BY <2>1, <2>3, <2>4, <2>5, WorkerStep
<1> QED
  BY <1>1, <1>2 DEF Persist

\* finish closes the row and takes its lease away, or leaves it alone.
LEMMA FinishStep == \A w \in Workers : RowInv /\ Finish(w) => RowInv'
<1> SUFFICES ASSUME NEW w \in Workers, RowInv, Finish(w) PROVE RowInv'
  OBVIOUS
<1>1. worker \in [Workers -> WorkerState]
  BY DEF RowInv, TypeOK
<1>2. worker[w].at \notin {"idle", "exited"}
  BY DEF Finish
<1>3. Onward(w)
  BY <1>1 DEF Finish, Onward, WorkerState, Place
<1>4. UNCHANGED <<camera, generation, native, shutdown, client>>
  BY DEF Finish
<1>5. run' \in [Cameras -> [Generations -> RunRow]] /\ OneOwner' /\ OpenIsLeased'
  <2>1. CASE UNCHANGED run
    BY <1>4, <2>1, RunsKept DEF RowInv, TypeOK
  <2>2. CASE Fenced(w)
    <3>1. PICK s \in {"STOPPED", "FAILED"} : Updated(w, FinishedRow(RunOf(w), s))
      BY <2>2 DEF Finish
    <3> DEFINE row == FinishedRow(RunOf(w), s)
    <3>2. row \in RunRow /\ row.lease = "none" /\ row.state \notin Open
      BY StateValues DEF FinishedRow, RunRow
    <3>3. run' = [run EXCEPT ![worker[w].cam][worker[w].gen] = row]
      BY <3>1 DEF Updated
    <3> HIDE DEF row
    <3> QED
      BY <1>2, <1>4, <3>2, <3>3, OwnRow, RowWritten
  <2> QED
    BY <2>1, <2>2 DEF Finish
<1>6. TypeOK'
  BY <1>3, <1>4, <1>5, WorkerTypes DEF RowInv, TypeOK
<1> QED
  BY <1>5, <1>6 DEF RowInv

\* What a claim leaves of the camera's runs.
LEMMA NextRun ==
    ASSUME RowInv, NEW c \in Cameras, ~Held(c), generation[c] < MaxGenerations
    PROVE  /\ WithNextRun(c) \in [Generations -> RunRow]
           /\ \A g \in Generations : WithNextRun(c)[g].lease # "none" \/ WithNextRun(c)[g].state \in Open =>
                 g = generation[c] + 1
           /\ WithNextRun(c)[generation[c] + 1] = [state |-> "STARTING", lease |-> "live"]
           /\ generation[c] + 1 \in Generations
<1> DEFINE n == generation[c]
           new == [state |-> "STARTING", lease |-> "live"]
<1>1. n \in Nat /\ n + 1 \in Generations
  BY BoundAssumption DEF RowInv, TypeOK, Generations
<1>2. new \in RunRow
  BY StateValues DEF RunRow
<1>3. ASSUME NEW r \in RunRow PROVE Abandoned(r) \in RunRow /\ Abandoned(r).state \notin Open
  BY StateValues DEF Abandoned, RunRow
<1>4. ASSUME NEW r \in RunRow, r.lease # "none" => r.state \in Open PROVE Abandoned(r).lease = "none"
  BY <1>4 DEF Abandoned, RunRow
<1>5. ASSUME NEW g \in Generations
      PROVE  /\ run[c][g] \in RunRow
             /\ run[c][g].lease # "none" => g = n /\ run[c][g].state \in Open
             /\ run[c][g].state \in Open => run[c][g].lease # "none"
  BY DEF RowInv, TypeOK, OneOwner, OpenIsLeased
<1>6. ASSUME NEW g \in Generations
      PROVE  WithNextRun(c)[g] = IF g = n + 1 THEN new ELSE IF g = n THEN Abandoned(run[c][g]) ELSE run[c][g]
  BY DEF WithNextRun
<1> HIDE DEF n, new
<1>7. ASSUME NEW g \in Generations
      PROVE  /\ WithNextRun(c)[g] \in RunRow
             /\ g # n + 1 => WithNextRun(c)[g].lease = "none" /\ WithNextRun(c)[g].state \notin Open
  <2>1. CASE g = n + 1
    BY <1>2, <1>6, <2>1
  <2>2. CASE g # n + 1 /\ g = n
    BY <1>3, <1>4, <1>5, <1>6, <2>2
  <2>3. CASE g # n + 1 /\ g # n
    BY <1>5, <1>6, <2>3
  <2> QED
    BY <2>1, <2>2, <2>3
<1>8. WithNextRun(c) \in [Generations -> RunRow]
  <2>1. WithNextRun(c) = [g \in Generations |-> WithNextRun(c)[g]]
    BY DEF WithNextRun
  <2> QED
    BY <1>7, <2>1
<1>9. WithNextRun(c)[n + 1] = new
  BY <1>1, <1>6
<1> QED
  BY <1>1, <1>7, <1>8, <1>9 DEF n, new

\* The worker that a claim leaves.
LEMMA ClaimedWorker ==
    ASSUME NEW c \in Cameras, NEW n \in Nat
    PROVE  LET r == [IdleWorker EXCEPT !.at = "claimed", !.cam = c, !.gen = n] IN
           r \in WorkerState /\ r.cam = c /\ r.gen = n
<1>1. IdleWorker \in WorkerState
  BY DEF IdleWorker, WorkerState, Place
<1> QED
  BY <1>1 DEF WorkerState, Place

\* A claim: the newest run becomes the only one with a lease.
LEMMA ClaimStep == \A w \in Workers : RowInv /\ Claim(w) => RowInv'
<1> SUFFICES ASSUME NEW w \in Workers, RowInv, Claim(w) PROVE RowInv'
  OBVIOUS
<1>1. PICK c \in Cameras :
         /\ ~Held(c)
         /\ generation[c] < MaxGenerations
         /\ generation' = [generation EXCEPT ![c] = generation[c] + 1]
         /\ run' = [run EXCEPT ![c] = WithNextRun(c)]
         /\ worker' = [worker EXCEPT ![w] = [IdleWorker EXCEPT
                          !.at = "claimed", !.cam = c, !.gen = generation[c] + 1]]
  BY Zenon DEF Claim
<1>2. /\ run \in [Cameras -> [Generations -> RunRow]]
      /\ generation \in [Cameras -> 0 .. MaxGenerations]
      /\ worker \in [Workers -> WorkerState]
  BY DEF RowInv, TypeOK
<1>3. generation' \in [Cameras -> 0 .. MaxGenerations]
  <2>1. generation[c] + 1 \in 0 .. MaxGenerations
    BY <1>1, <1>2, BoundAssumption
  <2> QED
    BY <1>1, <1>2, <2>1
<1>4. ASSUME NEW d \in Cameras
      PROVE  /\ generation'[d] = IF d = c THEN generation[c] + 1 ELSE generation[d]
             /\ run'[d] = IF d = c THEN WithNextRun(c) ELSE run[d]
  BY <1>1, <1>2
<1>5. run' \in [Cameras -> [Generations -> RunRow]]
  BY <1>1, <1>2, NextRun
<1>6. OneOwner' /\ OpenIsLeased'
  <2>1. ASSUME NEW d \in Cameras, NEW g \in Generations
        PROVE  /\ run'[d][g].lease # "none" => g = generation'[d] /\ run'[d][g].state \in Open
               /\ run'[d][g].state \in Open => run'[d][g].lease # "none"
    <3>1. CASE d # c
      BY <1>4, <3>1 DEF RowInv, OneOwner, OpenIsLeased
    <3>2. CASE d = c /\ g = generation[c] + 1
      BY <1>1, <1>4, <3>2, NextRun, StateValues
    <3>3. CASE d = c /\ g # generation[c] + 1
      BY <1>1, <1>4, <3>3, NextRun
    <3> QED
      BY <3>1, <3>2, <3>3
  <2> QED
    BY <2>1 DEF OneOwner, OpenIsLeased
<1>7. worker' \in [Workers -> WorkerState]
      /\ \A v \in Workers : worker'[v].at \notin {"idle", "exited"} =>
            worker'[v].cam \in Cameras /\ worker'[v].gen \in 1 .. generation'[worker'[v].cam]
  <2> DEFINE r == [IdleWorker EXCEPT !.at = "claimed", !.cam = c, !.gen = generation[c] + 1]
  <2>1. generation[c] \in Nat /\ generation[c] + 1 \in Nat
    BY <1>2
  <2>2. r \in WorkerState /\ r.cam = c /\ r.gen = generation[c] + 1
    BY <2>1, ClaimedWorker DEF r
  <2>3. worker' = [worker EXCEPT ![w] = r]
    BY <1>1, Zenon
  <2> HIDE DEF r
  <2>4. ASSUME NEW v \in Workers, worker'[v].at \notin {"idle", "exited"}
        PROVE  worker'[v].cam \in Cameras /\ worker'[v].gen \in 1 .. generation'[worker'[v].cam]
    <3>1. CASE v = w
      BY <1>2, <1>4, <2>1, <2>2, <2>3, <3>1
    <3>2. CASE v # w
      <4>1. worker'[v] = worker[v]
        BY <1>2, <2>3, <3>2
      <4>2. worker[v].cam \in Cameras /\ worker[v].gen \in 1 .. generation[worker[v].cam]
        BY <2>4, <4>1 DEF RowInv, TypeOK
      <4>3. generation[worker[v].cam] \in Nat /\ generation'[worker[v].cam] \in Nat
            /\ generation'[worker[v].cam] >= generation[worker[v].cam]
        BY <1>2, <1>3, <1>4, <4>2, SMTT(30)
      <4> QED
        BY <4>1, <4>2, <4>3
    <3> QED
      BY <3>1, <3>2
  <2>5. worker' \in [Workers -> WorkerState]
    BY <1>2, <2>2, <2>3
  <2> QED
    BY <2>4, <2>5
<1>8. UNCHANGED <<camera, native, shutdown, client>>
  BY DEF Claim
<1> QED
  BY <1>3, <1>5, <1>6, <1>7, <1>8 DEF RowInv, TypeOK

\* A child is started after a claim, and is gone before its supervisor is idle.
LEMMA ChildStep == IInv /\ [Next]_vars => ChildHasRun'
<1> SUFFICES ASSUME IInv, [Next]_vars PROVE ChildHasRun'
  OBVIOUS
<1>1. /\ worker \in [Workers -> WorkerState] /\ native \in [Workers -> NativeState]
      /\ \A v \in Workers : native[v] # "none" => worker[v].at \notin {"idle", "exited"}
  BY DEF IInv, RowInv, TypeOK, ChildHasRun
<1>2. CASE UNCHANGED <<worker, native>>
  BY <1>1, <1>2 DEF ChildHasRun
<1>3. ASSUME NEW w \in Workers,
             \A v \in Workers \ {w} : worker'[v] = worker[v] /\ native'[v] = native[v],
             native'[w] # "none" => worker'[w].at \notin {"idle", "exited"}
      PROVE  ChildHasRun'
  BY <1>1, <1>3 DEF ChildHasRun
<1>4. ASSUME NEW w \in Workers, Claim(w) \/ Launch(w) \/ Joined(w) \/ Finish(w) \/ FinishRaises(w) \/ CleanUp(w)
      PROVE  ChildHasRun'
  <2>1. \A v \in Workers \ {w} : worker'[v] = worker[v] /\ native'[v] = native[v]
    BY <1>1, <1>4 DEF Claim, Launch, Joined, Finish, FinishRaises, CleanUp, IdleWorker
  <2>2. native'[w] # "none" => worker'[w].at \notin {"idle", "exited"}
    <3>1. Claim(w) => native'[w] = "none"
      BY <1>1 DEF Claim
    <3>2. CleanUp(w) => native'[w] = "none"
      BY <1>1 DEF CleanUp
    <3>3. Launch(w) \/ Finish(w) \/ FinishRaises(w) => worker'[w].at \notin {"idle", "exited"}
      BY <1>1 DEF Launch, Finish, FinishRaises, WorkerState
    <3>4. Joined(w) => worker'[w].at \notin {"idle", "exited"}
      BY <1>1 DEF Joined, WorkerState
    <3> QED
      BY <1>4, <3>1, <3>2, <3>3, <3>4
  <2> QED
    BY <1>3, <2>1, <2>2
<1>5. ASSUME NEW w \in Workers, Tasks(w) PROVE ChildHasRun'
  <2>1. \A v \in Workers \ {w} : worker'[v] = worker[v] /\ native'[v] = native[v]
    BY <1>1, <1>5 DEF Tasks, Monitor, MonitorRaises, RunnerEnds, RunnerRaises, Persist, RunnerOver
  <2>2. native'[w] # "none" => worker'[w].at \notin {"idle", "exited"}
    <3>1. worker[w].at \notin {"idle", "exited"} => worker'[w].at \notin {"idle", "exited"}
      <4>1. Monitor(w) \/ MonitorRaises(w) => worker'[w].at \in {worker[w].at, "cleanup", "fail"}
        BY <1>1 DEF Monitor, MonitorRaises, WorkerState
      <4>2. \A a \in {"fail", "joining"} : RunnerOver(w, a) => worker'[w].at \in {worker[w].at, a}
        BY <1>1 DEF RunnerOver, WorkerState
      <4>3. RunnerEnds(w) \/ RunnerRaises(w) \/ (\E s \in Reported : Persist(w, s)) =>
               worker' = worker \/ RunnerOver(w, "fail") \/ RunnerOver(w, "joining")
        BY DEF RunnerEnds, RunnerRaises, Persist
      <4> QED
        BY <1>5, <4>1, <4>2, <4>3 DEF Tasks
    <3>2. native'[w] # "none" => native[w] # "none"
      BY <1>1, <1>5 DEF Tasks, Monitor, MonitorRaises, RunnerEnds, RunnerRaises, Persist, RunnerOver
    <3> QED
      BY <1>1, <3>1, <3>2
  <2> QED
    BY <1>3, <2>1, <2>2
<1>6. ASSUME NEW w \in Workers, Native(w) \/ Sigterm(w) \/ Exit(w) \/ Restart(w) \/ Crash(w)
      PROVE  ChildHasRun'
  <2>1. \A v \in Workers \ {w} : worker'[v] = worker[v] /\ native'[v] = native[v]
    BY <1>1, <1>6 DEF Native, DeliverStop, NativeStops, NativeFails, NativeDies, Sigterm, Exit, Restart, Crash
  <2>2. native'[w] # "none" => worker'[w].at \notin {"idle", "exited"}
    BY <1>1, <1>6 DEF Native, DeliverStop, NativeStops, NativeFails, NativeDies, Sigterm, Exit, Restart, Crash,
                      IdleWorker, WorkerState
  <2> QED
    BY <1>3, <2>1, <2>2
<1>7. Api \/ Time => UNCHANGED <<worker, native>>
  BY DEF Api, Register, RequestRead, StartWrite, StopWrite, DeleteWrite, Time, LeaseLapse
<1> QED
  BY <1>2, <1>4, <1>5, <1>6, <1>7 DEF Next, Supervisor, vars

\* The invariant is inductive.
LEMMA Inductive == IInv /\ [Next]_vars => IInv'
<1> SUFFICES ASSUME IInv, [Next]_vars PROVE RowInv'
  BY ChildStep DEF IInv
<1>1. CASE UNCHANGED vars
  BY <1>1 DEF vars, IInv, RowInv, TypeOK, OneOwner, OpenIsLeased
<1>2. CASE Api
  BY <1>2, ApiStep DEF IInv
<1>3. CASE Time
  BY <1>3, LapseStep DEF IInv, Time
<1>4. ASSUME NEW w \in Workers, NEW s \in Reported, Persist(w, s) PROVE RowInv'
  <2>1. worker[w].at \notin {"idle", "exited"}
    BY <1>4 DEF Persist, IInv, ChildHasRun
  <2> QED
    BY <1>4, <2>1, PersistStep DEF IInv
<1>5. ASSUME NEW w \in Workers, Claim(w) \/ Finish(w) \/ QuietSteps(w) PROVE RowInv'
  BY <1>5, ClaimStep, FinishStep, QuietStep DEF IInv
<1> QED
  BY <1>1, <1>2, <1>3, <1>4, <1>5 DEF Next, Supervisor, Tasks, Native, QuietSteps

\* IInv holds in every reachable state.
LEMMA Invariance == Spec => []IInv
<1>1. Init => IInv
  BY InitRowInv DEF IInv, ChildHasRun, Init
<1> QED
  BY <1>1, Inductive, PTL DEF Spec

\* Every variable of LiveRun keeps its type, and a worker that has claimed is on a
\* run that exists.
THEOREM TypeCorrect == Spec => []TypeOK
<1>1. IInv => TypeOK
  BY DEF IInv, RowInv
<1> QED
  BY <1>1, Invariance, PTL

\* Whatever events and finishes arrive late, only the newest run of a camera ever
\* has an owner.
THEOREM Ownership == Spec => []OneOwner
<1>1. IInv => OneOwner
  BY DEF IInv, RowInv
<1> QED
  BY <1>1, Invariance, PTL

\* The open runs of a camera, as the ledger sees them.
OpenRuns(c) == {g \in Generations : run[c][g].state \in Open}

\* No run but the newest is open.
LEMMA OnlyNewestOpen ==
    ASSUME IInv, NEW c \in Cameras
    PROVE  \A g \in OpenRuns(c) : g = generation[c]
BY DEF IInv, RowInv, OneOwner, OpenIsLeased, OpenRuns

\* Every step of LiveRun opens the next run, closes the open run, or leaves the
\* ledger alone.
LEMMA LedgerStep == IInv /\ [Next]_vars => [Ledger!Next]_<<generation, [c \in Cameras |-> OpenRuns(c)]>>
<1> SUFFICES ASSUME IInv, [Next]_vars
             PROVE  \/ Ledger!Next
                    \/ UNCHANGED generation /\ \A c \in Cameras : OpenRuns(c)' = OpenRuns(c)
  OBVIOUS
<1>1. run \in [Cameras -> [Generations -> RunRow]] /\ generation \in [Cameras -> 0 .. MaxGenerations]
  BY DEF IInv, RowInv, TypeOK
<1>2. CASE UNCHANGED <<run, generation>>
  BY <1>2 DEF OpenRuns
<1>3. ASSUME NEW d \in Cameras, NEW h \in Generations, NEW row,
             run' = [run EXCEPT ![d][h] = row], UNCHANGED generation,
             row.state \in Open <=> run[d][h].state \in Open
      PROVE  UNCHANGED generation /\ \A c \in Cameras : OpenRuns(c)' = OpenRuns(c)
  <2>1. ASSUME NEW c \in Cameras, NEW g \in Generations
        PROVE  run'[c][g].state \in Open <=> run[c][g].state \in Open
    BY <1>1, <1>3
  <2> QED
    BY <1>3, <2>1 DEF OpenRuns
<1>4. CASE Time
  <2>1. PICK c \in Cameras, g \in Generations : LeaseLapse(c, g)
    BY <1>4 DEF Time
  <2> DEFINE row == [run[c][g] EXCEPT !.lease = "expired"]
  <2>2. row.state = run[c][g].state
    BY <1>1 DEF RunRow
  <2>3. run' = [run EXCEPT ![c][g] = row] /\ UNCHANGED generation
    BY <1>1, <2>1 DEF LeaseLapse
  <2> HIDE DEF row
  <2> QED
    BY <1>3, <2>2, <2>3
<1>5. ASSUME NEW w \in Workers, NEW s \in Reported, Persist(w, s)
      PROVE  UNCHANGED generation /\ \A c \in Cameras : OpenRuns(c)' = OpenRuns(c)
  <2>1. CASE Fenced(w) /\ Updated(w, [RunOf(w) EXCEPT !.state = s])
    <3> DEFINE row == [RunOf(w) EXCEPT !.state = s]
    <3>1. worker[w].at \notin {"idle", "exited"}
      BY <1>5 DEF Persist, IInv, ChildHasRun
    <3>2. /\ worker[w].cam \in Cameras /\ worker[w].gen \in Generations
          /\ RunOf(w) \in RunRow /\ RunOf(w).state \in Open
      BY <2>1, <3>1, OwnRow DEF IInv
    <3>3. row.state \in Open
      BY <3>2, StateValues DEF RunRow
    <3>4. run' = [run EXCEPT ![worker[w].cam][worker[w].gen] = row] /\ UNCHANGED generation
      BY <1>5, <2>1 DEF Persist, Updated
    <3> HIDE DEF row
    <3> QED
      BY <1>3, <3>2, <3>3, <3>4 DEF RunOf
  <2>2. CASE ~Fenced(w)
    BY <1>2, <1>5, <2>2 DEF Persist, OpenRuns
  <2> QED
    BY <1>5, <2>1, <2>2 DEF Persist
<1>6. ASSUME NEW w \in Workers, Finish(w), ~UNCHANGED run PROVE Ledger!Next
  <2> DEFINE row == FinishedRow(RunOf(w), IF worker[w].at = "stop" THEN "STOPPED" ELSE "FAILED")
  <2>1. worker[w].at \notin {"idle", "exited"} /\ Fenced(w) /\ UNCHANGED generation
    BY <1>6 DEF Finish
  <2>2. PICK c \in Cameras : /\ c = worker[w].cam /\ worker[w].gen = generation[c]
                             /\ generation[c] \in Generations /\ RunOf(w).state \in Open
    BY <2>1, OwnRow DEF IInv
  <2>3. run' = [run EXCEPT ![c][generation[c]] = row]
    BY <1>6, <2>2 DEF Finish, Updated
  <2>4. row.state \notin Open
    BY StateValues DEF FinishedRow
  <2>5. generation[c] \in OpenRuns(c)
    BY <2>2 DEF OpenRuns, RunOf
  <2> HIDE DEF row
  <2>6. OpenRuns(c)' = {}
    <3>1. run'[c][generation[c]] = row
      BY <1>1, <2>2, <2>3
    <3>2. \A g \in Generations : g # generation[c] => run'[c][g] = run[c][g]
      BY <1>1, <2>2, <2>3
    <3>3. \A g \in Generations : g # generation[c] => run[c][g].state \notin Open
      BY <2>2, OnlyNewestOpen DEF OpenRuns
    <3> QED
      BY <2>4, <3>1, <3>2, <3>3 DEF OpenRuns
  <2>7. \A d \in Cameras : d # c => OpenRuns(d)' = OpenRuns(d)
    <3>1. \A d \in Cameras : d # c => run'[d] = run[d]
      BY <1>1, <2>3
    <3> QED
      BY <3>1 DEF OpenRuns
  <2>8. [d \in Cameras |-> OpenRuns(d)'] = [[d \in Cameras |-> OpenRuns(d)] EXCEPT ![c] = {}]
    BY <2>2, <2>6, <2>7
  <2>9. [d \in Cameras |-> OpenRuns(d)][c] # {}
    BY <2>2, <2>5
  <2>10. Ledger!CloseRun(c)
    BY <2>1, <2>8, <2>9 DEF Ledger!CloseRun, OpenRuns
  <2> QED
    BY <2>2, <2>10 DEF Ledger!Next
<1>7. ASSUME NEW w \in Workers, Claim(w) PROVE Ledger!Next
  <2>1. PICK c \in Cameras :
           /\ ~Held(c) /\ generation[c] < MaxGenerations
           /\ generation' = [generation EXCEPT ![c] = generation[c] + 1]
           /\ run' = [run EXCEPT ![c] = WithNextRun(c)]
    BY <1>7, Zenon DEF Claim
  <2>2. OpenRuns(c)' = {generation[c] + 1}
    <3>1. run'[c] = WithNextRun(c)
      BY <1>1, <2>1
    <3>2. /\ \A g \in Generations : run'[c][g].state \in Open => g = generation[c] + 1
          /\ run'[c][generation[c] + 1].state = "STARTING" /\ generation[c] + 1 \in Generations
      BY <2>1, <3>1, NextRun DEF IInv
    <3> QED
      BY <3>2, StateValues DEF OpenRuns
  <2>3. \A d \in Cameras : d # c => OpenRuns(d)' = OpenRuns(d)
    <3>1. \A d \in Cameras : d # c => run'[d] = run[d]
      BY <1>1, <2>1
    <3> QED
      BY <3>1 DEF OpenRuns
  <2>4. [d \in Cameras |-> OpenRuns(d)'] = [[d \in Cameras |-> OpenRuns(d)] EXCEPT ![c] = {generation[c] + 1}]
    BY <2>2, <2>3
  <2>5. Ledger!OpenRun(c)
    BY <2>1, <2>4 DEF Ledger!OpenRun, OpenRuns
  <2> QED
    BY <2>5 DEF Ledger!Next
<1>8. ASSUME NEW w \in Workers, QuietSteps(w) PROVE UNCHANGED <<run, generation>>
  BY <1>8 DEF QuietSteps, Launch, Joined, FinishRaises, CleanUp, Monitor, MonitorRaises, RunnerEnds,
         RunnerRaises, DeliverStop, NativeStops, NativeFails, NativeDies, Sigterm, Exit, Restart, Crash
<1>9. Api => UNCHANGED <<run, generation>>
  BY DEF Api, Register, RequestRead, StartWrite, StopWrite, DeleteWrite
<1>10. \A w \in Workers : Finish(w) => UNCHANGED generation
  BY DEF Finish
<1>11. CASE \E w \in Workers : Finish(w)
  BY <1>2, <1>6, <1>10, <1>11
<1>12. CASE UNCHANGED vars
  BY <1>2, <1>12 DEF vars
<1> QED
  BY <1>2, <1>4, <1>5, <1>7, <1>8, <1>9, <1>11, <1>12 DEF Next, Supervisor, Tasks, Native, QuietSteps

\* The runs of a camera implement the ledger of generations, for any number of
\* cameras, workers, requests and runs.
THEOREM Refinement == Spec => LedgerKept
<1>1. Init => Ledger!Init
  <2>1. Init => \A c \in Cameras, g \in Generations : run[c][g] = NoRun
    BY DEF Init
  <2>2. NoRun.state \notin Open
    BY StateValues DEF NoRun
  <2>3. Init => \A c \in Cameras : OpenRuns(c) = {}
    BY <2>1, <2>2 DEF OpenRuns
  <2> QED
    BY <2>3 DEF Init, Ledger!Init, OpenRuns
<1>2. IInv /\ [Next]_vars =>
        [Ledger!Next]_<<generation, [c \in Cameras |-> {g \in Generations : run[c][g].state \in Open}]>>
  BY LedgerStep DEF OpenRuns
<1> QED
  BY <1>1, <1>2, Invariance, PTL DEF Spec, LedgerKept, Ledger!Spec

\* A claim never serves a deleted camera, and no request that read the camera
\* before brings it back.
THEOREM Deletion == Spec => DeletedStaysDown
<1> DEFINE Down == \A c \in Cameras : camera[c].life = "deleted" =>
                      camera'[c].life = "deleted" /\ generation'[c] = generation[c]
<1>1. ASSUME IInv, [Next]_vars PROVE Down
  <2>1. camera \in [Cameras -> CameraRow] /\ generation \in [Cameras -> 0 .. MaxGenerations]
    BY <1>1 DEF IInv, RowInv, TypeOK
  <2>2. CASE UNCHANGED <<camera, generation>>
    BY <2>2
  <2>3. ASSUME NEW w \in Workers, Claim(w) PROVE Down
    BY <2>1, <2>3 DEF Claim, Wanted
  <2>4. CASE Api
    <3>1. ASSUME NEW c \in Cameras, Register(c) PROVE Down
      BY <2>1, <3>1 DEF Register
    <3>2. ASSUME NEW k \in Clients, StartWrite(k) \/ StopWrite(k) \/ DeleteWrite(k) PROVE Down
      <4>1. client[k].cam \in Cameras
        BY <1>1, <3>2 DEF StartWrite, StopWrite, DeleteWrite, IInv, RowInv, TypeOK
      <4>2. StartWrite(k) => Down
        BY <2>1, <4>1 DEF StartWrite, CameraRow
      <4>3. StopWrite(k) => Down
        BY <2>1, <4>1 DEF StopWrite, CameraRow
      <4>4. DeleteWrite(k) => Down
        BY <2>1, <4>1 DEF DeleteWrite, CameraRow
      <4> QED
        BY <3>2, <4>2, <4>3, <4>4
    <3>3. ASSUME NEW k \in Clients, NEW c \in Cameras, NEW op \in {"start", "stop", "delete"},
                 RequestRead(k, c, op)
          PROVE  UNCHANGED <<camera, generation>>
      BY <3>3 DEF RequestRead
    <3> QED
      BY <2>2, <2>4, <3>1, <3>2, <3>3 DEF Api
  <2>5. Time => UNCHANGED <<camera, generation>>
    BY DEF Time, LeaseLapse
  <2>6. ASSUME NEW w \in Workers, QuietSteps(w) \/ Finish(w) \/ \E s \in Reported : Persist(w, s)
        PROVE  UNCHANGED <<camera, generation>>
    BY <2>6 DEF QuietSteps, Launch, Joined, FinishRaises, CleanUp, Monitor, MonitorRaises, RunnerEnds,
         RunnerRaises, DeliverStop, NativeStops, NativeFails, NativeDies, Sigterm, Exit, Restart, Crash,
         Finish, Persist
  <2>7. CASE UNCHANGED vars
    BY <2>2, <2>7 DEF vars
  <2> QED
    BY <1>1, <2>2, <2>3, <2>4, <2>5, <2>6, <2>7 DEF Next, Supervisor, Tasks, Native, QuietSteps
<1>2. IInv /\ [Next]_vars => [Down]_vars
  BY <1>1
<1> QED
  BY <1>2, Invariance, PTL DEF Spec, DeletedStaysDown
=============================================================================
