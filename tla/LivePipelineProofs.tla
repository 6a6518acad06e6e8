------------------------- MODULE LivePipelineProofs -------------------------
(***************************************************************************)
(* Proofs about LivePipeline, for every rebuild budget: the lifecycle's    *)
(* calls as facts about its fields, the inductive invariant, one lemma per *)
(* thread and per call of the lifecycle, and the theorems.                 *)
(***************************************************************************)
EXTENDS LivePipeline, TLAPS

\* fail sets the flag, and the state with it unless the flag was set.
LEMMA FailFacts ==
    ASSUME NEW l \in Lifecycle
    PROVE  /\ Fail(l) \in Lifecycle
           /\ Fail(l).emitted
           /\ l.emitted => Fail(l) = l
           /\ ~l.emitted => Fail(l).state = "Failed"
           /\ Fail(l).attempts = l.attempts
           /\ Fail(l).awaiting = l.awaiting
BY DEF Fail, Lifecycle, State

\* on_frame leaves a terminal lifecycle alone, and fails only with the flag.
LEMMA OnFrameFacts ==
    ASSUME NEW l \in Lifecycle
    PROVE  /\ OnFrame(l) \in Lifecycle
           /\ l.emitted => OnFrame(l).emitted
           /\ OnFrame(l).state # "Stopped" \/ l.state = "Stopped"
           /\ l.state \in {"Stopped", "Failed"} => OnFrame(l) = l
           /\ l.state # "Failed" /\ OnFrame(l).state = "Failed" => ~l.emitted /\ OnFrame(l).emitted
BY FailFacts DEF OnFrame, Lifecycle, State

\* poll never ends the lifecycle, and uses up an attempt only to await a rebuild.
LEMMA PolledFacts ==
    ASSUME NEW l \in Lifecycle
    PROVE  /\ Polled(l) \in Lifecycle
           /\ Polled(l).emitted = l.emitted
           /\ Polled(l).state = l.state \/ Polled(l).state = "Reconnecting"
           /\ l.state \in {"Stopped", "Failed"} => Polled(l) = l
           /\ (Polled(l).awaiting = l.awaiting /\ Polled(l).attempts = l.attempts) \/ Polled(l).awaiting
<1>1. PICK n \in 0 .. Budget : n = (IF l.attempts < Budget THEN l.attempts + 1 ELSE Budget)
  <2>1. l.attempts \in 0 .. Budget
    BY Zenon DEF Lifecycle
  <2>2. QED
    BY <2>1, BudgetAssumption
<1>2. Polled(l) = IF l.state \in {"Starting", "Active"} THEN [l EXCEPT !.state = "Reconnecting"]
                  ELSE IF l.state = "Reconnecting" /\ ~l.awaiting
                       THEN [l EXCEPT !.awaiting = TRUE, !.attempts = n]
                       ELSE l
  BY <1>1, Zenon DEF Polled, Overdue, Unrecovered
<1>3. CASE l.state \in {"Starting", "Active"}
  BY <1>2, <1>3, Zenon DEF Lifecycle, State
<1>4. CASE l.state \notin {"Starting", "Active"} /\ l.state = "Reconnecting" /\ ~l.awaiting
  BY <1>2, <1>4, Zenon DEF Lifecycle, State
<1>5. CASE l.state \notin {"Starting", "Active"} /\ ~(l.state = "Reconnecting" /\ ~l.awaiting)
  BY <1>2, <1>5, Zenon
<1>6. QED
  BY <1>3, <1>4, <1>5

\* A failed rebuild that leaves the lifecycle alive leaves it an attempt.
LEMMA RebuildFacts ==
    ASSUME NEW l \in Lifecycle, NEW success \in BOOLEAN
    PROVE  /\ RebuildResult(l, success) \in Lifecycle
           /\ l.emitted => RebuildResult(l, success).emitted
           /\ RebuildResult(l, success).state \in {l.state, "Failed"}
           /\ l.state # "Failed" /\ RebuildResult(l, success).state = "Failed" =>
                 ~l.emitted /\ RebuildResult(l, success).emitted
           /\ ~success /\ ~RebuildResult(l, success).emitted => RebuildResult(l, success).attempts < Budget
<1> DEFINE cleared == [l EXCEPT !.awaiting = FALSE]
<1>1. /\ cleared \in Lifecycle
      /\ cleared.emitted = l.emitted /\ cleared.state = l.state /\ cleared.attempts = l.attempts
  BY Zenon DEF Lifecycle, State
<1>2. \/ RebuildResult(l, success) = Fail(l)
      \/ RebuildResult(l, success) = cleared /\ (success \/ l.attempts < Budget)
      \/ RebuildResult(l, success) = Fail(cleared)
  BY Zenon DEF RebuildResult
<1> HIDE DEF cleared
<1>4. /\ Fail(l) \in Lifecycle /\ Fail(l).emitted
      /\ l.emitted => Fail(l) = l
      /\ ~l.emitted => Fail(l).state = "Failed"
  BY FailFacts
<1>5. /\ Fail(cleared) \in Lifecycle /\ Fail(cleared).emitted
      /\ cleared.emitted => Fail(cleared) = cleared
      /\ ~cleared.emitted => Fail(cleared).state = "Failed"
  BY <1>1, FailFacts
<1>6. CASE RebuildResult(l, success) = Fail(l)
  BY <1>4, <1>6, Zenon
<1>7. CASE RebuildResult(l, success) = cleared /\ (success \/ l.attempts < Budget)
  BY <1>1, <1>7, Zenon
<1>8. CASE RebuildResult(l, success) = Fail(cleared)
  BY <1>1, <1>5, <1>8, Zenon
<1>9. QED
  BY <1>2, <1>6, <1>7, <1>8

\* stop leaves a terminal lifecycle alone.
LEMMA StopFacts ==
    ASSUME NEW l \in Lifecycle
    PROVE  /\ Stop(l) \in Lifecycle
           /\ Stop(l).emitted = l.emitted /\ Stop(l).attempts = l.attempts /\ Stop(l).awaiting = l.awaiting
           /\ Stop(l).state \in {l.state, "Stopping"}
           /\ l.state \in {"Stopped", "Failed"} => Stop(l) = l
BY DEF Stop, Lifecycle, State

\* close ends a lifecycle that has not failed as stopped.
LEMMA CloseFacts ==
    ASSUME NEW l \in Lifecycle
    PROVE  /\ Close(l) \in Lifecycle
           /\ Close(l).emitted = l.emitted
           /\ Close(l).state \in {"Stopped", "Failed"}
           /\ Close(l).state = "Failed" <=> l.state = "Failed"
           /\ l.state \in {"Stopped", "Failed"} => Close(l) = l
BY DEF Close, Lifecycle, State

-----------------------------------------------------------------------------
(* The inductive invariant.                                                *)

\* The worker, the graph and the threads in it: buffers are inside a probe only
\* while the worker plays the graph or waits for it to come to rest, and a worker
\* on its way out has a reason to be.
FlowInv ==
    /\ graph = "playing" => worker \in {"recheck", "enter", "loop"}
    /\ frame # "idle" => worker \in {"recheck", "enter", "loop", "wait"} /\ graph # "none"
    /\ worker \in {"report", "done"} => graph = "none"
    /\ worker \in {"teardown", "report", "done"} => Ending

\* The flag, the lifecycle's own flag and the count of failures.
FailureInv ==
    /\ failures > 0 => failed
    /\ failures = 2 => life.emitted /\ frame # "failing"
    /\ frame = "failing" => life.emitted
    /\ life.emitted => failed \/ frame = "failing"
    /\ life.state = "Failed" => life.emitted

\* Only a worker that is done has stopped the lifecycle or said so.
StoppedInv ==
    /\ life.state = "Stopped" => worker = "done"
    /\ stopped => worker = "done" /\ failures = 0 /\ stopRequested /\ life.state = "Stopped"

AttemptsInv ==
    graph = "none" /\ worker \in {"check", "wait", "dozing", "asleep"} /\ ~Ending =>
        life.attempts < Budget \/ life.awaiting

IInv == TypeOK /\ FlowInv /\ FailureInv /\ StoppedInv /\ AttemptsInv

\* Init establishes the invariant.
LEMMA InitInv == Init => IInv
<1> SUFFICES ASSUME Init PROVE IInv
  OBVIOUS
<1>1. life \in Lifecycle /\ life.attempts = 0 /\ ~life.emitted /\ life.state = "Starting"
  BY BudgetAssumption DEF Init, Lifecycle, State
<1>2. TypeOK
  <2>1. failures \in 0 .. 2
    BY DEF Init
  <2>2. QED
    BY <1>1, <2>1, Zenon DEF Init, TypeOK
<1>3. FlowInv /\ FailureInv /\ StoppedInv
  BY <1>1 DEF Init, FlowInv, FailureInv, StoppedInv
<1>4. AttemptsInv
  BY <1>1, BudgetAssumption DEF AttemptsInv
<1>5. QED
  BY <1>2, <1>3, <1>4 DEF IInv

\* The thread that stops the pipeline.
LEMMA MainInv == IInv /\ (StopRequest \/ StopChecksFailed \/ StopSignals \/ Join) => IInv'
<1> SUFFICES ASSUME IInv, StopRequest \/ StopChecksFailed \/ StopSignals \/ Join PROVE IInv'
  OBVIOUS
<1>1. CASE StopRequest
  BY <1>1 DEF StopRequest, IInv, TypeOK, FlowInv, FailureInv, StoppedInv, AttemptsInv,
     Ending, clock, control, events
<1>2. CASE StopChecksFailed
  BY <1>2 DEF StopChecksFailed, IInv, TypeOK, FlowInv, FailureInv, StoppedInv,
     AttemptsInv, Ending, clock, control, events
<1>3. CASE StopSignals
  <2>1. TypeOK'
    BY <1>3, ZenonT(30) DEF IInv, TypeOK, StopSignals, clock, control, events, Woken
  <2>2. FlowInv'
    BY <1>3 DEF StopSignals, IInv, TypeOK, FlowInv, FailureInv, StoppedInv, AttemptsInv,
       Ending, clock, control, events, Woken
  <2>3. FailureInv'
    BY <1>3 DEF StopSignals, IInv, TypeOK, FlowInv, FailureInv, StoppedInv, AttemptsInv,
       Ending, clock, control, events, Woken
  <2>4. StoppedInv'
    BY <1>3 DEF StopSignals, IInv, TypeOK, FlowInv, FailureInv, StoppedInv, AttemptsInv,
       Ending, clock, control, events, Woken
  <2>5. AttemptsInv'
    BY <1>3 DEF StopSignals, IInv, TypeOK, FlowInv, FailureInv, StoppedInv, AttemptsInv,
       Ending, clock, control, events, Woken
  <2>6. QED
    BY <2>1, <2>2, <2>3, <2>4, <2>5 DEF IInv
<1>4. CASE Join
  BY <1>4 DEF Join, IInv, TypeOK, FlowInv, FailureInv, StoppedInv, AttemptsInv, Ending,
     clock, control, events
<1>5. QED
  BY <1>1, <1>2, <1>3, <1>4

\* The steps of the worker that do not touch the lifecycle.
LEMMA WorkerInv == IInv /\ (
        \/ WorkerChecks \/ WorkerPlays \/ WorkerRechecks \/ WorkerEnters \/ WorkerLeaves
        \/ WorkerWaits \/ WorkerSleeps \/ SpuriousWakeup \/ WorkerClosesGraph
        \/ WorkerBacksOff \/ WorkerTearsDown) => IInv'
<1> SUFFICES ASSUME IInv, 
        \/ WorkerChecks \/ WorkerPlays \/ WorkerRechecks \/ WorkerEnters \/ WorkerLeaves
        \/ WorkerWaits \/ WorkerSleeps \/ SpuriousWakeup \/ WorkerClosesGraph
        \/ WorkerBacksOff \/ WorkerTearsDown PROVE IInv'
  OBVIOUS
<1>1. CASE WorkerChecks
  BY <1>1 DEF WorkerChecks, IInv, TypeOK, FlowInv, FailureInv, StoppedInv, AttemptsInv,
     Ending, clock, control, events
<1>2. CASE WorkerPlays
  <2>1. TypeOK'
    <3>1. failures' \in 0 .. 2
      BY <1>2 DEF IInv, TypeOK, FailureInv, WorkerPlays, EmitFailure
    <3>2. failed' \in BOOLEAN
      BY <1>2, Zenon DEF IInv, TypeOK, WorkerPlays, EmitFailure
    <3>3. graph' \in {graph, "playing"}
      BY <1>2, Zenon DEF WorkerPlays
    <3>4. worker' \in {"recheck", "teardown"}
      BY <1>2, Zenon DEF WorkerPlays
    <3>5. UNCHANGED <<life, due, stopRequested, rebuildRequested, running, main, watchdog, frame, stopped>>
      BY <1>2, Zenon DEF WorkerPlays, clock, control, events, EmitFailure
    <3>6. QED
      BY <3>1, <3>2, <3>3, <3>4, <3>5 DEF IInv, TypeOK
  <2>2. FlowInv'
    BY <1>2 DEF WorkerPlays, IInv, TypeOK, FlowInv, FailureInv, StoppedInv, AttemptsInv,
       Ending, clock, control, events, EmitFailure
  <2>3. FailureInv'
    BY <1>2 DEF WorkerPlays, IInv, TypeOK, FlowInv, FailureInv, StoppedInv, AttemptsInv,
       Ending, clock, control, events, EmitFailure
  <2>4. StoppedInv'
    BY <1>2 DEF WorkerPlays, IInv, TypeOK, FlowInv, FailureInv, StoppedInv, AttemptsInv,
       Ending, clock, control, events, EmitFailure
  <2>5. AttemptsInv'
    BY <1>2 DEF WorkerPlays, IInv, TypeOK, FlowInv, FailureInv, StoppedInv, AttemptsInv,
       Ending, clock, control, events, EmitFailure
  <2>6. QED
    BY <2>1, <2>2, <2>3, <2>4, <2>5 DEF IInv
<1>3. CASE WorkerRechecks
  BY <1>3 DEF WorkerRechecks, IInv, TypeOK, FlowInv, FailureInv, StoppedInv, AttemptsInv,
     Ending, clock, control, events
<1>4. CASE WorkerEnters
  BY <1>4 DEF WorkerEnters, IInv, TypeOK, FlowInv, FailureInv, StoppedInv, AttemptsInv,
     Ending, clock, control, events
<1>5. CASE WorkerLeaves
  BY <1>5 DEF WorkerLeaves, IInv, TypeOK, FlowInv, FailureInv, StoppedInv, AttemptsInv,
     Ending, clock, control, events
<1>6. CASE WorkerWaits
  <2>1. TypeOK'
    <3>1. rebuildRequested' \in BOOLEAN
      BY <1>6, Zenon DEF IInv, TypeOK, WorkerWaits
    <3>2. worker' \in {"teardown", "close", "dozing"}
      BY <1>6, Zenon DEF WorkerWaits
    <3>3. UNCHANGED <<life, due, stopRequested, failed, running, graph, main, watchdog, frame, stopped, failures>>
      BY <1>6, Zenon DEF WorkerWaits, clock, control, events
    <3>4. QED
      BY <3>1, <3>2, <3>3 DEF IInv, TypeOK
  <2>2. FlowInv'
    BY <1>6 DEF WorkerWaits, IInv, TypeOK, FlowInv, FailureInv, StoppedInv, AttemptsInv,
       Ending, clock, control, events
  <2>3. FailureInv'
    BY <1>6 DEF WorkerWaits, IInv, TypeOK, FlowInv, FailureInv, StoppedInv, AttemptsInv,
       Ending, clock, control, events
  <2>4. StoppedInv'
    BY <1>6 DEF WorkerWaits, IInv, TypeOK, FlowInv, FailureInv, StoppedInv, AttemptsInv,
       Ending, clock, control, events
  <2>5. AttemptsInv'
    BY <1>6 DEF WorkerWaits, IInv, TypeOK, FlowInv, FailureInv, StoppedInv, AttemptsInv,
       Ending, clock, control, events
  <2>6. QED
    BY <2>1, <2>2, <2>3, <2>4, <2>5 DEF IInv
<1>7. CASE WorkerSleeps
  BY <1>7 DEF WorkerSleeps, IInv, TypeOK, FlowInv, FailureInv, StoppedInv, AttemptsInv,
     Ending, clock, control, events
<1>8. CASE SpuriousWakeup
  BY <1>8 DEF SpuriousWakeup, IInv, TypeOK, FlowInv, FailureInv, StoppedInv, AttemptsInv,
     Ending, clock, control, events
<1>9. CASE WorkerClosesGraph
  BY <1>9 DEF WorkerClosesGraph, IInv, TypeOK, FlowInv, FailureInv, StoppedInv,
     AttemptsInv, Ending, clock, control, events
<1>10. CASE WorkerBacksOff
  BY <1>10 DEF WorkerBacksOff, IInv, TypeOK, FlowInv, FailureInv, StoppedInv, AttemptsInv,
     Ending, clock, control, events
<1>11. CASE WorkerTearsDown
  BY <1>11 DEF WorkerTearsDown, IInv, TypeOK, FlowInv, FailureInv, StoppedInv,
     AttemptsInv, Ending, clock, control, events
<1>12. QED
  BY <1>1, <1>2, <1>3, <1>4, <1>5, <1>6, <1>7, <1>8, <1>9, <1>10, <1>11

\* The threads of the graph, and time.
LEMMA GraphInv == IInv /\ (BusFails \/ PadFails \/ FrameArrives \/ FrameFails \/ TimeoutPasses) => IInv'
<1> SUFFICES ASSUME IInv, BusFails \/ PadFails \/ FrameArrives \/ FrameFails \/ TimeoutPasses PROVE IInv'
  OBVIOUS
<1>1. CASE BusFails
  <2>1. TypeOK'
    <3>1. failures' \in 0 .. 2
      BY <1>1 DEF IInv, TypeOK, FailureInv, BusFails, EmitFailure
    <3>2. failed' \in BOOLEAN
      BY <1>1, Zenon DEF BusFails, EmitFailure
    <3>3. running' \in BOOLEAN
      BY <1>1, Zenon DEF BusFails
    <3>4. UNCHANGED <<life, due, stopRequested, rebuildRequested, graph, main, worker, watchdog, frame, stopped>>
      BY <1>1, Zenon DEF BusFails, clock, control, events, EmitFailure
    <3>5. QED
      BY <3>1, <3>2, <3>3, <3>4 DEF IInv, TypeOK
  <2>2. FlowInv'
    BY <1>1 DEF BusFails, IInv, TypeOK, FlowInv, FailureInv, StoppedInv, AttemptsInv,
       Ending, clock, control, events, EmitFailure
  <2>3. FailureInv'
    BY <1>1 DEF BusFails, IInv, TypeOK, FlowInv, FailureInv, StoppedInv, AttemptsInv,
       Ending, clock, control, events, EmitFailure
  <2>4. StoppedInv'
    BY <1>1 DEF BusFails, IInv, TypeOK, FlowInv, FailureInv, StoppedInv, AttemptsInv,
       Ending, clock, control, events, EmitFailure
  <2>5. AttemptsInv'
    BY <1>1 DEF BusFails, IInv, TypeOK, FlowInv, FailureInv, StoppedInv, AttemptsInv,
       Ending, clock, control, events, EmitFailure
  <2>6. QED
    BY <2>1, <2>2, <2>3, <2>4, <2>5 DEF IInv
<1>2. CASE PadFails
  <2>1. TypeOK'
    <3>1. failures' \in 0 .. 2
      BY <1>2 DEF IInv, TypeOK, FailureInv, PadFails, EmitFailure
    <3>2. failed' \in BOOLEAN
      BY <1>2, Zenon DEF PadFails, EmitFailure
    <3>3. running' \in BOOLEAN
      BY <1>2, Zenon DEF PadFails
    <3>4. UNCHANGED <<life, due, stopRequested, rebuildRequested, graph, main, worker, watchdog, frame, stopped>>
      BY <1>2, Zenon DEF PadFails, clock, control, events, EmitFailure
    <3>5. QED
      BY <3>1, <3>2, <3>3, <3>4 DEF IInv, TypeOK
  <2>2. FlowInv'
    BY <1>2 DEF PadFails, IInv, TypeOK, FlowInv, FailureInv, StoppedInv, AttemptsInv,
       Ending, clock, control, events, EmitFailure
  <2>3. FailureInv'
    BY <1>2 DEF PadFails, IInv, TypeOK, FlowInv, FailureInv, StoppedInv, AttemptsInv,
       Ending, clock, control, events, EmitFailure
  <2>4. StoppedInv'
    BY <1>2 DEF PadFails, IInv, TypeOK, FlowInv, FailureInv, StoppedInv, AttemptsInv,
       Ending, clock, control, events, EmitFailure
  <2>5. AttemptsInv'
    BY <1>2 DEF PadFails, IInv, TypeOK, FlowInv, FailureInv, StoppedInv, AttemptsInv,
       Ending, clock, control, events, EmitFailure
  <2>6. QED
    BY <2>1, <2>2, <2>3, <2>4, <2>5 DEF IInv
<1>3. CASE FrameArrives
  BY <1>3 DEF FrameArrives, IInv, TypeOK, FlowInv, FailureInv, StoppedInv, AttemptsInv,
     Ending, clock, control, events
<1>4. CASE FrameFails
  <2>1. TypeOK'
    <3>1. failures' \in 0 .. 2
      BY <1>4 DEF IInv, TypeOK, FailureInv, FrameFails, Woken
    <3>2. QED
      BY <1>4, <3>1, ZenonT(30) DEF IInv, TypeOK, FrameFails, clock, control, events, Woken
  <2>2. FlowInv'
    BY <1>4 DEF FrameFails, IInv, TypeOK, FlowInv, FailureInv, StoppedInv, AttemptsInv,
       Ending, clock, control, events, Woken
  <2>3. FailureInv'
    BY <1>4 DEF FrameFails, IInv, TypeOK, FlowInv, FailureInv, StoppedInv, AttemptsInv,
       Ending, clock, control, events, Woken
  <2>4. StoppedInv'
    BY <1>4 DEF FrameFails, IInv, TypeOK, FlowInv, FailureInv, StoppedInv, AttemptsInv,
       Ending, clock, control, events, Woken
  <2>5. AttemptsInv'
    BY <1>4 DEF FrameFails, IInv, TypeOK, FlowInv, FailureInv, StoppedInv, AttemptsInv,
       Ending, clock, control, events, Woken
  <2>6. QED
    BY <2>1, <2>2, <2>3, <2>4, <2>5 DEF IInv
<1>5. CASE TimeoutPasses
  BY <1>5 DEF TimeoutPasses, IInv, TypeOK, FlowInv, FailureInv, StoppedInv, AttemptsInv,
     Ending, clock, control, events
<1>6. QED
  BY <1>1, <1>2, <1>3, <1>4, <1>5

\* The watchdog, but for its poll.
LEMMA WatchdogInv == IInv /\ (WatchdogChecks \/ WatchdogRequests \/ WatchdogQuitsLoop) => IInv'
<1> SUFFICES ASSUME IInv, WatchdogChecks \/ WatchdogRequests \/ WatchdogQuitsLoop PROVE IInv'
  OBVIOUS
<1>1. CASE WatchdogChecks
  BY <1>1 DEF WatchdogChecks, IInv, TypeOK, FlowInv, FailureInv, StoppedInv, AttemptsInv,
     Ending, clock, control, events
<1>2. CASE WatchdogRequests
  BY <1>2 DEF WatchdogRequests, IInv, TypeOK, FlowInv, FailureInv, StoppedInv,
     AttemptsInv, Ending, clock, control, events, Woken
<1>3. CASE WatchdogQuitsLoop
  <2>1. TypeOK'
    <3>1. running' \in BOOLEAN
      BY <1>3, Zenon DEF WatchdogQuitsLoop
    <3>2. watchdog' = "idle"
      BY <1>3 DEF WatchdogQuitsLoop
    <3>3. UNCHANGED <<life, due, stopRequested, failed, rebuildRequested, graph, main, worker, frame, stopped, failures>>
      BY <1>3, Zenon DEF WatchdogQuitsLoop, clock, control, events
    <3>4. QED
      BY <3>1, <3>2, <3>3 DEF IInv, TypeOK
  <2>2. FlowInv'
    BY <1>3 DEF WatchdogQuitsLoop, IInv, TypeOK, FlowInv, FailureInv, StoppedInv,
       AttemptsInv, Ending, clock, control, events
  <2>3. FailureInv'
    BY <1>3 DEF WatchdogQuitsLoop, IInv, TypeOK, FlowInv, FailureInv, StoppedInv,
       AttemptsInv, Ending, clock, control, events
  <2>4. StoppedInv'
    BY <1>3 DEF WatchdogQuitsLoop, IInv, TypeOK, FlowInv, FailureInv, StoppedInv,
       AttemptsInv, Ending, clock, control, events
  <2>5. AttemptsInv'
    BY <1>3 DEF WatchdogQuitsLoop, IInv, TypeOK, FlowInv, FailureInv, StoppedInv,
       AttemptsInv, Ending, clock, control, events
  <2>6. QED
    BY <2>1, <2>2, <2>3, <2>4, <2>5 DEF IInv
<1>4. QED
  BY <1>1, <1>2, <1>3

\* stop on the lifecycle.
LEMMA StopLifecycleInv == IInv /\ StopLifecycle => IInv'
<1> SUFFICES ASSUME IInv, StopLifecycle PROVE IInv'
  OBVIOUS
<1>1. /\ life \in Lifecycle /\ life' \in Lifecycle
      /\ life'.emitted = life.emitted
      /\ life'.attempts = life.attempts /\ life'.awaiting = life.awaiting
      /\ life'.state \in {life.state, "Stopping"}
  BY StopFacts, Zenon DEF StopLifecycle, IInv, TypeOK
<1>2. main' = "signal" /\ UNCHANGED <<due, control, graph, worker, watchdog, frame, events>>
  BY DEF StopLifecycle
<1>3. life.state = "Stopped" => life'.state = "Stopped"
  BY <1>1, StopFacts, Zenon DEF StopLifecycle
<1>4. main = "stopping"
  BY DEF StopLifecycle
<1>5. TypeOK'
  BY <1>1, <1>2 DEF IInv, TypeOK, control, events
<1>6. FlowInv' /\ FailureInv' /\ AttemptsInv'
  BY <1>1, <1>2 DEF IInv, FlowInv, FailureInv, AttemptsInv, Ending, control, events
<1>7. StoppedInv'
  BY <1>1, <1>2, <1>3 DEF IInv, StoppedInv, control, events
<1>8. QED
  BY <1>5, <1>6, <1>7 DEF IInv

\* on_graph_rebuild_result: no buffer is inside a probe then, so a lifecycle that
\* has failed has set failed.
LEMMA WorkerRebuildsInv ==
    ASSUME IInv, NEW success \in BOOLEAN, WorkerRebuilds(success)
    PROVE  IInv'
<1>1. /\ life \in Lifecycle /\ life' \in Lifecycle
      /\ life.emitted => life'.emitted
      /\ life'.state \in {life.state, "Failed"}
      /\ life.state # "Failed" /\ life'.state = "Failed" => ~life.emitted /\ life'.emitted
      /\ ~success /\ ~life'.emitted => life'.attempts < Budget
  BY RebuildFacts, Zenon DEF WorkerRebuilds, IInv, TypeOK
<1>2. /\ worker = "build" /\ worker' = "check"
      /\ graph' = IF success THEN "built" ELSE "none"
      /\ UNCHANGED <<stopRequested, rebuildRequested, running, main, watchdog, frame, stopped>>
  BY DEF WorkerRebuilds
<1>3. /\ failed' = (failed \/ (life'.emitted /\ ~life.emitted))
      /\ failures' = IF life'.emitted /\ ~life.emitted THEN failures + 1 ELSE failures
      /\ due' = IF life'.emitted THEN due ELSE FALSE
  BY Zenon DEF WorkerRebuilds
<1>4. frame = "idle"
  BY <1>2 DEF IInv, TypeOK, FlowInv
<1>5. TypeOK'
  <2>1. failures' \in 0 .. 2
    BY <1>1, <1>3 DEF IInv, TypeOK, FailureInv
  <2>2. failed' \in BOOLEAN
    BY <1>3, Zenon DEF IInv, TypeOK
  <2>3. due' \in BOOLEAN
    BY <1>3, Zenon DEF IInv, TypeOK
  <2>4. graph' \in {"built", "none"}
    BY <1>2, Zenon
  <2>5. UNCHANGED <<stopRequested, rebuildRequested, running, main, watchdog, frame, stopped>>
    BY <1>2
  <2>6. QED
    BY <1>1, <1>2, <2>1, <2>2, <2>3, <2>4, <2>5 DEF IInv, TypeOK
<1>6. FlowInv'
  BY <1>2, <1>4 DEF IInv, TypeOK, FlowInv
<1>7. FailureInv'
  BY <1>1, <1>2, <1>3, <1>4 DEF IInv, TypeOK, FailureInv
<1>8. StoppedInv'
  BY <1>1, <1>2 DEF IInv, TypeOK, StoppedInv
<1>9. AttemptsInv'
  <2>1. life.emitted => failed
    BY <1>4 DEF IInv, FailureInv
  <2>2. ~failed' => ~life'.emitted
    BY <1>3, <2>1, Zenon
  <2>3. QED
    BY <1>1, <1>2, <2>2, Zenon DEF AttemptsInv, Ending
<1>10. QED
  BY <1>5, <1>6, <1>7, <1>8, <1>9 DEF IInv

\* The last step of the worker.
LEMMA WorkerReportsInv == IInv /\ WorkerReports => IInv'
<1> SUFFICES ASSUME IInv, WorkerReports PROVE IInv'
  OBVIOUS
<1>1. /\ worker = "report" /\ worker' = "done"
      /\ UNCHANGED <<due, control, graph, main, watchdog, frame, failures>>
  BY DEF WorkerReports
<1>2. graph = "none" /\ frame = "idle"
  BY <1>1 DEF IInv, TypeOK, FlowInv
<1>3. CASE failed /\ UNCHANGED <<life, stopped>>
  BY <1>1, <1>2, <1>3 DEF IInv, TypeOK, FlowInv, FailureInv, StoppedInv, AttemptsInv,
     Ending, control
<1>4. CASE ~failed /\ life' = Close(life) /\ stopped' = TRUE
  <2>1. stopRequested /\ failures = 0 /\ life.state # "Failed" /\ ~life.emitted
    BY <1>1, <1>2, <1>4 DEF IInv, TypeOK, FlowInv, FailureInv, Ending
  <2>2. life \in Lifecycle
    BY DEF IInv, TypeOK
  <2>3. life' \in Lifecycle /\ life'.state = "Stopped" /\ life'.emitted = life.emitted
    BY <1>4, <2>1, <2>2, CloseFacts, Zenon
  <2>4. TypeOK'
    <3>1. stopped' \in BOOLEAN
      BY <1>4, Zenon
    <3>2. UNCHANGED <<due, stopRequested, failed, rebuildRequested, running, graph, main, watchdog,
                      frame, failures>>
      BY <1>1 DEF control
    <3>3. QED
      BY <1>1, <2>3, <3>1, <3>2 DEF IInv, TypeOK
  <2>5. FlowInv' /\ FailureInv' /\ AttemptsInv'
    BY <1>1, <1>2, <1>4, <2>1, <2>3 DEF IInv, FlowInv, FailureInv, AttemptsInv, Ending,
       control
  <2>6. StoppedInv'
    BY <1>1, <2>1, <2>3 DEF StoppedInv, control
  <2>7. QED
    BY <2>4, <2>5, <2>6 DEF IInv
<1>5. QED
  BY <1>3, <1>4 DEF WorkerReports

\* on_frame: a worker that could have stopped the lifecycle or reported has no
\* buffer in its graph.
LEMMA FrameCountsInv == IInv /\ FrameCounts => IInv'
<1> SUFFICES ASSUME IInv, FrameCounts PROVE IInv'
  OBVIOUS
<1>1. /\ life \in Lifecycle /\ life' \in Lifecycle
      /\ life.emitted => life'.emitted
      /\ life'.state # "Stopped" \/ life.state = "Stopped"
      /\ life.state = "Failed" => life' = life
      /\ life.state # "Failed" /\ life'.state = "Failed" => ~life.emitted /\ life'.emitted
  BY OnFrameFacts, Zenon DEF FrameCounts, IInv, TypeOK
<1>2. /\ frame = "inside"
      /\ frame' = IF life'.emitted /\ ~life.emitted THEN "failing" ELSE "idle"
      /\ due' = IF life'.state = "Active" THEN FALSE ELSE due
      /\ UNCHANGED <<control, graph, main, worker, watchdog, events>>
  BY DEF FrameCounts
<1>3. worker \in {"recheck", "enter", "loop", "wait"} /\ graph # "none"
  BY <1>2 DEF IInv, FlowInv
<1>4. TypeOK'
  <2>1. due' \in BOOLEAN
    BY <1>2, Zenon DEF IInv, TypeOK
  <2>2. frame' \in {"failing", "idle"}
    BY <1>2, Zenon
  <2>3. UNCHANGED <<stopRequested, failed, rebuildRequested, running, graph, main, worker, watchdog,
                    stopped, failures>>
    BY <1>2 DEF control, events
  <2>4. QED
    BY <1>1, <2>1, <2>2, <2>3 DEF IInv, TypeOK
<1>5. FlowInv' /\ AttemptsInv' /\ StoppedInv'
  BY <1>1, <1>2, <1>3 DEF IInv, FlowInv, AttemptsInv, StoppedInv, Ending, control, events
<1>6. FailureInv'
  <2>1. UNCHANGED <<failed, failures>>
    BY <1>2 DEF control, events
  <2>2. frame' \in {"failing", "idle"} /\ (frame' = "failing" <=> life'.emitted /\ ~life.emitted)
    BY <1>2, Zenon
  <2>3. QED
    BY <1>1, <1>2, <2>1, <2>2 DEF IInv, TypeOK, FailureInv
<1>7. QED
  BY <1>4, <1>5, <1>6 DEF IInv

\* poll.
LEMMA WatchdogPollsInv == IInv /\ WatchdogPolls => IInv'
<1> SUFFICES ASSUME IInv, WatchdogPolls PROVE IInv'
  OBVIOUS
<1>1. /\ life \in Lifecycle /\ life' \in Lifecycle
      /\ life'.emitted = life.emitted
      /\ life'.state = life.state \/ life'.state = "Reconnecting"
      /\ life.state = "Stopped" => life' = life
      /\ (life'.awaiting = life.awaiting /\ life'.attempts = life.attempts) \/ life'.awaiting
  BY PolledFacts, Zenon DEF WatchdogPolls, IInv, TypeOK
<1>2. /\ due' = FALSE
      /\ UNCHANGED <<control, graph, main, worker, frame, events>>
  BY DEF WatchdogPolls
<1>3. TypeOK'
  <2>1. due' \in BOOLEAN
    BY <1>2, Zenon
  <2>2. watchdog' \in {"request", "idle"}
    BY Zenon DEF WatchdogPolls
  <2>3. UNCHANGED <<stopRequested, failed, rebuildRequested, running, graph, main, worker, frame,
                    stopped, failures>>
    BY <1>2 DEF control, events
  <2>4. QED
    BY <1>1, <2>1, <2>2, <2>3 DEF IInv, TypeOK
<1>4. FlowInv' /\ FailureInv' /\ StoppedInv'
  BY <1>1, <1>2 DEF IInv, FlowInv, FailureInv, StoppedInv, Ending, control, events
<1>5. AttemptsInv'
  BY <1>1, <1>2 DEF IInv, AttemptsInv, Ending, control, events
<1>6. QED
  BY <1>3, <1>4, <1>5 DEF IInv

\* Every step keeps the invariant.
LEMMA StepInv == IInv /\ [Next]_vars => IInv'
<1> SUFFICES ASSUME IInv, [Next]_vars PROVE IInv'
  OBVIOUS
<1>1. CASE Main
  BY <1>1, MainInv, StopLifecycleInv DEF Main
<1>2. CASE Run
  BY <1>2, WorkerInv, WorkerRebuildsInv, WorkerReportsInv DEF Run
<1>3. CASE SpuriousWakeup
  BY <1>3, WorkerInv
<1>4. CASE Streaming
  BY <1>4, GraphInv, FrameCountsInv DEF Streaming
<1>5. CASE RunWatchdog
  BY <1>5, WatchdogInv, WatchdogPollsInv DEF RunWatchdog
<1>6. CASE TimeoutPasses
  BY <1>6, GraphInv
<1>7. CASE UNCHANGED vars
  BY <1>7 DEF IInv, TypeOK, FlowInv, FailureInv, StoppedInv, AttemptsInv, Ending, vars,
     clock, control, events
<1>8. QED
  BY <1>1, <1>2, <1>3, <1>4, <1>5, <1>6, <1>7 DEF Next

-----------------------------------------------------------------------------
(* Theorems.                                                               *)

\* The invariant holds throughout.
LEMMA Invariance == Spec => []IInv
  BY InitInv, StepInv, PTL DEF Spec

\* Every variable of the pipeline keeps its type, for every rebuild budget; in
\* particular no run emits a third FailedEvent.
THEOREM TypeCorrect == Spec => []TypeOK
<1>1. IInv => TypeOK
  BY DEF IInv
<1>2. QED
  BY <1>1, Invariance, PTL

\* A StoppedEvent is sent only when the lifecycle has stopped, the graph is gone
\* and no frame is inside a probe, however frames, failures and the stop interleave.
THEOREM CleanStop == Spec => []StoppedIsClosed
<1>1. IInv => StoppedIsClosed
  BY DEF IInv, TypeOK, FlowInv, StoppedInv, StoppedIsClosed
<1>2. QED
  BY <1>1, Invariance, PTL

\* A worker never waits for a rebuild that nobody may ask for.
THEOREM Budgeted == Spec => []BudgetKept
<1>1. IInv => BudgetKept
  BY DEF IInv, AttemptsInv, BudgetKept
<1>2. QED
  BY <1>1, Invariance, PTL

\* The lifecycle's terminal states are final: only the worker that has not reported
\* calls on_graph_rebuild_result, the one call that would fail a stopped lifecycle.
THEOREM Terminal == Spec => TerminalKept
<1>1. IInv /\ [Next]_vars => [life.state \in {"Stopped", "Failed"} => life'.state = life.state]_vars
  <2> SUFFICES ASSUME IInv, Next, life.state \in {"Stopped", "Failed"}
               PROVE  life'.state = life.state
    OBVIOUS
  <2>1. life \in Lifecycle
    BY DEF IInv, TypeOK
  <2>2. CASE UNCHANGED life
    BY <2>2
  <2>3. CASE StopLifecycle
    BY <2>1, <2>3, StopFacts, Zenon DEF StopLifecycle
  <2>4. ASSUME NEW success \in BOOLEAN, WorkerRebuilds(success)
        PROVE  life'.state = life.state
    <3>1. life.state = "Failed"
      BY <2>4 DEF WorkerRebuilds, IInv, StoppedInv
    <3>2. life'.state \in {life.state, "Failed"}
      BY <2>1, <2>4, RebuildFacts, Zenon DEF WorkerRebuilds
    <3>3. QED
      BY <3>1, <3>2
  <2>5. CASE WorkerReports
    BY <2>1, <2>5, CloseFacts, Zenon DEF WorkerReports
  <2>6. CASE FrameCounts
    BY <2>1, <2>6, OnFrameFacts, Zenon DEF FrameCounts
  <2>7. CASE WatchdogPolls
    BY <2>1, <2>7, PolledFacts, Zenon DEF WatchdogPolls
  <2>8. Main => StopLifecycle \/ UNCHANGED life
    BY DEF Main, StopRequest, StopChecksFailed, StopSignals, Join, clock
  <2>9. Run => WorkerReports \/ (\E success \in BOOLEAN : WorkerRebuilds(success)) \/ UNCHANGED life
    BY DEF Run, WorkerChecks, WorkerPlays, WorkerRechecks, WorkerEnters, WorkerLeaves,
       WorkerWaits, WorkerSleeps, WorkerClosesGraph, WorkerBacksOff, WorkerTearsDown,
       clock
  <2>10. Streaming => FrameCounts \/ UNCHANGED life
    BY DEF Streaming, BusFails, PadFails, FrameArrives, FrameFails, clock
  <2>11. RunWatchdog => WatchdogPolls \/ UNCHANGED life
    BY DEF RunWatchdog, WatchdogChecks, WatchdogRequests, WatchdogQuitsLoop, clock
  <2>12. SpuriousWakeup \/ TimeoutPasses => UNCHANGED life
    BY DEF SpuriousWakeup, TimeoutPasses, clock
  <2>13. QED
    BY <2>2, <2>3, <2>4, <2>5, <2>6, <2>7, <2>8, <2>9, <2>10, <2>11, <2>12 DEF Next
<1>2. QED
  BY <1>1, Invariance, PTL DEF Spec, TerminalKept

\* The pipeline implements PipelineOutcome: one outcome, a clean stop only on
\* request, and neither taken back.
THEOREM Refinement == Spec => OutcomeKept
<1>1. Init => Outcome!Init
  BY DEF Init, Outcome!Init
<1>2. IInv /\ [Next]_vars => [Outcome!Next]_Outcome!vars
  <2> SUFFICES ASSUME IInv, [Next]_vars PROVE [Outcome!Next]_Outcome!vars
    OBVIOUS
  <2>1. failures \in 0 .. 2
    BY DEF IInv, TypeOK
  <2>2. CASE UNCHANGED <<stopRequested, stopped, failures>>
    BY <2>2 DEF Outcome!vars
  <2>3. CASE StopRequest
    BY <2>3 DEF StopRequest, Outcome!Next, Outcome!Ask, events
  <2>4. ASSUME failures' = failures + 1, ~stopped, UNCHANGED <<stopRequested, stopped>>
        PROVE  [Outcome!Next]_Outcome!vars
    BY <2>1, <2>4 DEF Outcome!Next, Outcome!Fail, Outcome!vars
  <2>5. ASSUME EmitFailure, ~stopped, UNCHANGED <<stopRequested, stopped>>
        PROVE  [Outcome!Next]_Outcome!vars
    BY <2>2, <2>4, <2>5 DEF EmitFailure
  <2>6. CASE WorkerReports
    <3>1. CASE failed /\ UNCHANGED <<life, stopped>>
      BY <2>2, <2>6, <3>1 DEF WorkerReports, control
    <3>2. CASE ~failed /\ stopped' = TRUE
      <4>1. worker = "report" /\ UNCHANGED <<stopRequested, failures>>
        BY <2>6 DEF WorkerReports, control
      <4>2. stopRequested /\ failures = 0 /\ ~stopped
        BY <2>1, <3>2, <4>1 DEF IInv, FlowInv, FailureInv, StoppedInv, Ending
      <4>3. QED
        BY <3>2, <4>1, <4>2 DEF Outcome!Next, Outcome!Stop
    <3>3. QED
      BY <2>6, <3>1, <3>2 DEF WorkerReports
  <2>7. worker # "done" => ~stopped
    BY DEF IInv, StoppedInv
  <2>8. CASE FrameFails
    <3>1. worker # "done"
      BY <2>8 DEF FrameFails, IInv, FlowInv
    <3>2. QED
      BY <2>4, <2>7, <2>8, <3>1 DEF FrameFails
  <2>9. CASE BusFails \/ PadFails
    <3>1. worker # "done"
      BY <2>9 DEF BusFails, PadFails, IInv, FlowInv
    <3>2. QED
      BY <2>5, <2>7, <2>9, <3>1 DEF BusFails, PadFails
  <2>10. CASE WorkerPlays
    BY <2>2, <2>5, <2>7, <2>10 DEF WorkerPlays
  <2>11. ASSUME NEW success \in BOOLEAN, WorkerRebuilds(success)
         PROVE  [Outcome!Next]_Outcome!vars
    <3>1. /\ worker = "build" /\ UNCHANGED <<stopRequested, stopped>>
          /\ failures' = failures \/ failures' = failures + 1
      BY <2>11 DEF WorkerRebuilds
    <3>2. QED
      BY <2>2, <2>4, <2>7, <3>1
  <2>12. Main => StopRequest \/ UNCHANGED <<stopRequested, stopped, failures>>
    BY DEF Main, StopChecksFailed, StopLifecycle, StopSignals, Join, control, events
  <2>13. Run => \/ WorkerReports \/ WorkerPlays
                \/ \E success \in BOOLEAN : WorkerRebuilds(success)
                \/ UNCHANGED <<stopRequested, stopped, failures>>
    BY DEF Run, WorkerChecks, WorkerRechecks, WorkerEnters, WorkerLeaves, WorkerWaits,
       WorkerSleeps, WorkerClosesGraph, WorkerBacksOff, WorkerTearsDown, control, events
  <2>14. Streaming => \/ FrameFails \/ BusFails \/ PadFails
                      \/ UNCHANGED <<stopRequested, stopped, failures>>
    BY DEF Streaming, FrameArrives, FrameCounts, control, events
  <2>15. RunWatchdog \/ SpuriousWakeup \/ TimeoutPasses \/ UNCHANGED vars
            => UNCHANGED <<stopRequested, stopped, failures>>
    BY DEF RunWatchdog, WatchdogChecks, WatchdogPolls, WatchdogRequests,
       WatchdogQuitsLoop, SpuriousWakeup, TimeoutPasses, vars, control, events
  <2>16. QED
    BY <2>2, <2>3, <2>6, <2>8, <2>9, <2>10, <2>11, <2>12, <2>13, <2>14, <2>15 DEF Next
<1>3. QED
  BY <1>1, <1>2, Invariance, PTL DEF Spec, OutcomeKept, Outcome!Spec
=============================================================================
