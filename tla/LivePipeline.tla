--------------------------- MODULE LivePipeline ---------------------------
(***************************************************************************)
(* The native live pipeline: the LiveLifecycle state machine and the       *)
(* threads around it, the one that starts and stops the pipeline (main),   *)
(* the worker thread that runs and rebuilds the GStreamer graph, the       *)
(* watchdog, and the streaming threads of the graph.                       *)
(*                                                                         *)
(* A step reaches up to the next read or write that another thread can     *)
(* disturb.  Lifecycle calls are atomic, by its mutex.  The frame contents *)
(* and the tracks, the assignments, the backoff's length and the operation *)
(* events are left out.                                                    *)
(***************************************************************************)
EXTENDS Naturals

CONSTANT Budget  \* options.graph_rebuild_attempts

ASSUME BudgetAssumption == Budget \in Nat \ {0}

VARIABLES
    life,      \* the fields of LiveLifecycle
    due,       \* the timeout that poll looks at has passed
    stopRequested, failed, rebuildRequested,
    running,   \* is_running of the GMainLoop
    graph,     \* "none", "built" (GST_STATE_NULL) or "playing"
    main, worker, watchdog,
    frame,     \* the thread that runs on_result_buffer
    stopped,   \* whether a StoppedEvent was emitted
    failures   \* how many FailedEvents were emitted

clock == <<life, due>>
control == <<stopRequested, failed, rebuildRequested, running>>
events == <<stopped, failures>>
vars == <<clock, control, graph, main, worker, watchdog, frame, events>>

State == {"Starting", "Active", "Reconnecting", "Stopping", "Stopped", "Failed"}

\* awaiting: awaiting_rebuild_result_; attempts: rebuild_attempts_, counted up to
\* the budget it is compared with; emitted: failure_emitted_.
Lifecycle == [state: State, awaiting: BOOLEAN, attempts: 0 .. Budget, emitted: BOOLEAN]

TypeOK ==
    /\ life \in Lifecycle
    /\ due \in BOOLEAN
    /\ stopRequested \in BOOLEAN /\ failed \in BOOLEAN
    /\ rebuildRequested \in BOOLEAN /\ running \in BOOLEAN
    /\ graph \in {"none", "built", "playing"}
    /\ main \in {"serving", "asked", "stopping", "signal", "joining", "closed"}
    /\ worker \in {"check", "play", "recheck", "enter", "loop", "wait", "dozing", "asleep",
                   "close", "backoff", "build", "teardown", "report", "done"}
    /\ watchdog \in {"idle", "poll", "request", "quit", "done"}
    /\ frame \in {"idle", "inside", "failing"}
    /\ stopped \in BOOLEAN
    /\ failures \in 0 .. 2

\* start has built the graph, started the lifecycle and created the threads.  When
\* it throws instead, there is no pipeline.
Init ==
    /\ life = [state |-> "Starting", awaiting |-> FALSE, attempts |-> 0, emitted |-> FALSE]
    /\ due = FALSE
    /\ stopRequested = FALSE /\ failed = FALSE
    /\ rebuildRequested = FALSE /\ running = FALSE
    /\ graph = "built"
    /\ main = "serving" /\ worker = "check" /\ watchdog = "idle"
    /\ frame = "idle"
    /\ stopped = FALSE /\ failures = 0

-----------------------------------------------------------------------------
(* LiveLifecycle: what each call makes of the fields.                      *)

Fail(l) == IF l.emitted THEN l ELSE [l EXCEPT !.emitted = TRUE, !.state = "Failed"]

\* A frame that finds the lifecycle stopping is an invalid transition.
OnFrame(l) ==
    CASE l.state \in {"Starting", "Reconnecting"} ->
            [l EXCEPT !.awaiting = FALSE, !.state = "Active"]
      [] l.state = "Stopping" -> Fail(l)
      [] OTHER -> l

Overdue(l) == l.state \in {"Starting", "Active"}
Unrecovered(l) == l.state = "Reconnecting" /\ ~l.awaiting

\* poll, once the timeout has passed.
Polled(l) ==
    IF Overdue(l) THEN [l EXCEPT !.state = "Reconnecting"]
    ELSE IF Unrecovered(l)
         THEN [l EXCEPT !.awaiting = TRUE,
                        !.attempts = IF l.attempts < Budget THEN l.attempts + 1 ELSE Budget]
         ELSE l

RebuildResult(l, success) ==
    IF l.state # "Reconnecting" \/ ~l.awaiting THEN Fail(l)
    ELSE IF success \/ l.attempts < Budget THEN [l EXCEPT !.awaiting = FALSE]
    ELSE Fail([l EXCEPT !.awaiting = FALSE])

Stop(l) == IF l.state \in {"Stopped", "Failed"} THEN l ELSE [l EXCEPT !.state = "Stopping"]

Close(l) == IF l.state \in {"Stopped", "Failed"} THEN l ELSE [l EXCEPT !.state = "Stopped"]

\* Time passes until the timeout of the current state is over.
TimeoutPasses ==
    /\ Overdue(life) \/ Unrecovered(life)
    /\ ~due
    /\ due' = TRUE
    /\ UNCHANGED <<life, control, graph, main, worker, watchdog, frame, events>>

\* A failure sink runs under the lifecycle's mutex, after the state has changed.
Unlocked == frame # "failing"

-----------------------------------------------------------------------------
(* Failures and wake-ups.                                                  *)

Ending == stopRequested \/ failed

EmitFailure ==
    /\ failed' = TRUE
    /\ failures' = IF failed THEN failures ELSE failures + 1

\* notify_all on control_changed: only a thread that already sleeps hears it.
Woken(at) == IF at = "asleep" THEN "wait" ELSE at

-----------------------------------------------------------------------------
(* The thread that calls stop and close.                                   *)

StopRequest ==
    /\ main = "serving"
    /\ stopRequested' = TRUE
    /\ main' = "asked"
    /\ UNCHANGED <<clock, failed, rebuildRequested, running, graph, worker, watchdog, frame, events>>

StopChecksFailed ==
    /\ main = "asked"
    /\ main' = IF failed THEN "signal" ELSE "stopping"
    /\ UNCHANGED <<clock, control, graph, worker, watchdog, frame, events>>

StopLifecycle ==
    /\ main = "stopping"
    /\ Unlocked
    /\ life' = Stop(life)
    /\ main' = "signal"
    /\ UNCHANGED <<due, control, graph, worker, watchdog, frame, events>>

StopNotifiesOnly ==
    /\ main = "signal"
    /\ worker' = Woken(worker)
    /\ main' = "joining"
    /\ UNCHANGED <<clock, control, graph, watchdog, frame, events>>

\* stop wakes the worker without holding control_mutex, and quits the loop.
StopSignals ==
    /\ main = "signal"
    /\ worker' = Woken(worker)
    /\ running' = FALSE
    /\ main' = "joining"
    /\ UNCHANGED <<clock, stopRequested, failed, rebuildRequested, graph, watchdog, frame, events>>

Join ==
    /\ main = "joining"
    /\ worker = "done" /\ watchdog = "done"
    /\ graph' = "none"
    /\ main' = "closed"
    /\ UNCHANGED <<clock, control, worker, watchdog, frame, events>>

-----------------------------------------------------------------------------
(* run: the worker thread.                                                 *)

\* The head of the loop.  Without a graph it goes on to wait for a rebuild.
WorkerChecks ==
    /\ worker = "check"
    /\ worker' = IF Ending THEN "teardown" ELSE IF graph = "none" THEN "wait" ELSE "play"
    /\ UNCHANGED <<clock, control, graph, main, watchdog, frame, events>>

WorkerPlays ==
    /\ worker = "play"
    /\ \/ /\ graph' = "playing"
          /\ worker' = "recheck"
          /\ UNCHANGED <<failed, failures>>
       \/ /\ EmitFailure
          /\ worker' = "teardown"
          /\ UNCHANGED graph
    /\ UNCHANGED <<clock, stopRequested, rebuildRequested, running, main, watchdog, frame, stopped>>

WorkerRechecks ==
    /\ worker = "recheck"
    /\ \/ ~Ending /\ worker' = "enter" /\ UNCHANGED graph
       \/ Ending /\ worker' = "wait" /\ graph' = "built"
    /\ UNCHANGED <<clock, control, main, watchdog, frame, events>>

\* g_main_loop_run sets is_running: a quit before it is forgotten.
WorkerEnters ==
    /\ worker = "enter"
    /\ running' = TRUE
    /\ worker' = "loop"
    /\ UNCHANGED <<clock, stopRequested, failed, rebuildRequested, graph, main, watchdog, frame, events>>

\* g_main_loop_run returns, and the graph is set to GST_STATE_NULL: no further
\* buffer enters a probe.
WorkerLeaves ==
    /\ worker = "loop"
    /\ ~running
    /\ graph' = "built"
    /\ worker' = "wait"
    /\ UNCHANGED <<clock, control, main, watchdog, frame, events>>

\* The predicate of the wait, under control_mutex, once the streaming threads
\* have come to rest.
WorkerWaits ==
    /\ worker = "wait"
    /\ frame = "idle"
    /\ \/ /\ Ending
          /\ worker' = "teardown"
          /\ UNCHANGED rebuildRequested
       \/ /\ ~Ending /\ rebuildRequested
          /\ rebuildRequested' = FALSE
          /\ worker' = "close"
       \/ /\ ~Ending /\ ~rebuildRequested
          /\ worker' = "dozing"
          /\ UNCHANGED rebuildRequested
    /\ UNCHANGED <<clock, stopRequested, failed, running, graph, main, watchdog, frame, events>>

\* The wait itself: the worker sleeps and gives up control_mutex.
WorkerSleeps ==
    /\ worker = "dozing"
    /\ worker' = "asleep"
    /\ UNCHANGED <<clock, control, graph, main, watchdog, frame, events>>

\* A condition variable may also wake a thread for no reason.
SpuriousWakeup ==
    /\ worker = "asleep"
    /\ worker' = "wait"
    /\ UNCHANGED <<clock, control, graph, main, watchdog, frame, events>>

WorkerClosesGraph ==
    /\ worker = "close"
    /\ graph' = "none"
    /\ worker' = "backoff"
    /\ UNCHANGED <<clock, control, main, watchdog, frame, events>>

\* A stop ends the backoff, a failure does not.
WorkerBacksOff ==
    /\ worker = "backoff"
    /\ worker' = IF stopRequested THEN "teardown" ELSE "build"
    /\ UNCHANGED <<clock, control, graph, main, watchdog, frame, events>>

\* build, which succeeds or throws, and on_graph_rebuild_result.  A lifecycle
\* that fails over it emits its failure.
WorkerRebuilds(success) ==
    /\ worker = "build"
    /\ graph' = IF success THEN "built" ELSE "none"
    /\ life' = RebuildResult(life, success)
    /\ due' = IF life'.emitted THEN due ELSE FALSE
    /\ failed' = (failed \/ (life'.emitted /\ ~life.emitted))
    /\ failures' = IF life'.emitted /\ ~life.emitted THEN failures + 1 ELSE failures
    /\ worker' = "check"
    /\ UNCHANGED <<stopRequested, rebuildRequested, running, main, watchdog, frame, stopped>>

WorkerKeepsGraph ==
    /\ worker = "teardown"
    /\ worker' = "report"
    /\ UNCHANGED <<clock, control, graph, main, watchdog, frame, events>>

WorkerTearsDown ==
    /\ worker = "teardown"
    /\ frame = "idle"
    /\ graph' = "none"
    /\ worker' = "report"
    /\ UNCHANGED <<clock, control, main, watchdog, frame, events>>

WorkerReportsAlways ==
    /\ worker = "report"
    /\ life' = Close(life) /\ stopped' = TRUE
    /\ worker' = "done"
    /\ UNCHANGED <<due, control, graph, main, watchdog, frame, failures>>

WorkerReports ==
    /\ worker = "report"
    /\ \/ failed /\ UNCHANGED <<life, stopped>>
       \/ ~failed /\ life' = Close(life) /\ stopped' = TRUE
    /\ worker' = "done"
    /\ UNCHANGED <<due, control, graph, main, watchdog, frame, failures>>

-----------------------------------------------------------------------------
(* The graph: its bus, its source and its frames.                          *)

\* on_bus: an error or the end of the stream, dispatched by the running loop.
BusFails ==
    /\ worker = "loop" /\ running
    /\ EmitFailure
    /\ running' = FALSE
    /\ UNCHANGED <<clock, stopRequested, rebuildRequested, graph, main, worker, watchdog, frame, stopped>>

\* on_source_pad cannot link the source, in a thread of the graph.
PadFails ==
    /\ graph = "playing"
    /\ EmitFailure
    /\ running' = FALSE
    /\ UNCHANGED <<clock, stopRequested, rebuildRequested, graph, main, worker, watchdog, frame, stopped>>

\* on_result_buffer: the check at its start, the lifecycle's on_frame, and the
\* failure sink if that was an invalid transition.
FrameArrives ==
    /\ frame = "idle"
    /\ graph = "playing"
    /\ ~stopRequested
    /\ frame' = "inside"
    /\ UNCHANGED <<clock, control, graph, main, worker, watchdog, events>>

FrameCounts ==
    /\ frame = "inside"
    /\ life' = OnFrame(life)
    /\ due' = IF life'.state = "Active" THEN FALSE ELSE due
    /\ frame' = IF life'.emitted /\ ~life.emitted THEN "failing" ELSE "idle"
    /\ UNCHANGED <<control, graph, main, worker, watchdog, events>>

FrameFails ==
    /\ frame = "failing"
    /\ failed' = TRUE
    /\ failures' = failures + 1
    /\ worker' = Woken(worker)
    /\ running' = FALSE
    /\ frame' = "idle"
    /\ UNCHANGED <<clock, stopRequested, rebuildRequested, graph, main, watchdog, stopped>>

-----------------------------------------------------------------------------
(* run_watchdog.  It needs control_mutex, which a dozing worker holds.     *)

\* The predicate of its wait, every 100 ms.
WatchdogChecks ==
    /\ watchdog = "idle"
    /\ worker # "dozing"
    /\ watchdog' = IF Ending THEN "done" ELSE "poll"
    /\ UNCHANGED <<clock, control, graph, main, worker, frame, events>>

WatchdogPolls ==
    /\ watchdog = "poll"
    /\ Unlocked
    /\ life' = IF due THEN Polled(life) ELSE life
    /\ due' = FALSE
    /\ watchdog' = IF life'.awaiting /\ ~life.awaiting THEN "request" ELSE "idle"
    /\ UNCHANGED <<control, graph, main, worker, frame, events>>

WatchdogSetsOnly ==
    /\ watchdog = "request"
    /\ worker # "dozing"
    /\ rebuildRequested' = TRUE
    /\ watchdog' = "quit"
    /\ UNCHANGED <<clock, stopRequested, failed, running, graph, main, worker, frame, events>>

WatchdogRequests ==
    /\ watchdog = "request"
    /\ worker # "dozing"
    /\ rebuildRequested' = TRUE
    /\ worker' = Woken(worker)
    /\ watchdog' = "quit"
    /\ UNCHANGED <<clock, stopRequested, failed, running, graph, main, frame, events>>

WatchdogQuitsLoop ==
    /\ watchdog = "quit"
    /\ running' = FALSE
    /\ watchdog' = "idle"
    /\ UNCHANGED <<clock, stopRequested, failed, rebuildRequested, graph, main, worker, frame, events>>

-----------------------------------------------------------------------------
Main == StopRequest \/ StopChecksFailed \/ StopLifecycle \/ StopSignals \/ Join

Run ==
    \/ WorkerChecks \/ WorkerPlays \/ WorkerRechecks \/ WorkerEnters \/ WorkerLeaves
    \/ WorkerWaits \/ WorkerSleeps \/ WorkerClosesGraph \/ WorkerBacksOff
    \/ (\E success \in BOOLEAN : WorkerRebuilds(success))
    \/ WorkerTearsDown \/ WorkerReports

Streaming == BusFails \/ PadFails \/ FrameArrives \/ FrameCounts \/ FrameFails

RunWatchdog == WatchdogChecks \/ WatchdogPolls \/ WatchdogRequests \/ WatchdogQuitsLoop

Next == Main \/ Run \/ SpuriousWakeup \/ Streaming \/ RunWatchdog \/ TimeoutPasses

Spec == Init /\ [][Next]_vars

\* Every thread goes on, a thread that wants control_mutex gets it in the end, and
\* a timeout passes while no frame comes.  Nothing forces a stop
\* request, a frame, a failure or a spurious wake-up.
Fairness ==
    /\ WF_vars(StopChecksFailed) /\ WF_vars(StopLifecycle) /\ WF_vars(StopSignals) /\ WF_vars(Join)
    /\ WF_vars(Run)
    /\ WF_vars(FrameCounts) /\ WF_vars(FrameFails)
    /\ SF_vars(WatchdogChecks) /\ WF_vars(WatchdogPolls)
    /\ SF_vars(WatchdogRequests) /\ WF_vars(WatchdogQuitsLoop)
    /\ WF_vars(TimeoutPasses /\ life.state # "Active")

FairSpec == Spec /\ Fairness

-----------------------------------------------------------------------------
(* Properties.                                                             *)

\* The pipeline reports one outcome, a clean stop only if it was asked to stop:
\* the check of failed in front of the StoppedEvent cannot be overtaken by a
\* failure, because the graph's threads are at rest by then.
Outcome == INSTANCE PipelineOutcome WITH
    asked <- stopRequested,
    outcome <- IF stopped THEN "stopped" ELSE IF failures > 0 THEN "failed" ELSE "none"

OutcomeKept == Outcome!Spec

\* A StoppedEvent is the truth: the lifecycle is Stopped, there is no graph, and
\* no frame is still inside a probe.
StoppedIsClosed ==
    stopped => life.state = "Stopped" /\ graph = "none" /\ frame = "idle"

\* A lifecycle that has failed or stopped stays so, although frames, the watchdog,
\* a rebuild and a stop may still reach it.
TerminalKept ==
    [][life.state \in {"Stopped", "Failed"} => life'.state = life.state]_vars

\* A worker that waits for a rebuild without a graph has an attempt left, or the
\* last one has just been asked for: when the last one fails, so does the pipeline,
\* which would otherwise wait for ever.
BudgetKept ==
    worker \in {"wait", "dozing", "asleep"} /\ graph = "none" /\ ~Ending =>
        life.attempts < Budget \/ life.awaiting

\* A stop that signals while the worker is in its loop, asleep, closing or
\* rebuilding ends it and is joined.  Its signal is lost at two places only: when
\* the worker is about to run its loop, or about to sleep.
StopJoined == main = "signal" /\ worker \notin {"enter", "dozing"} ~> main = "closed"

\* The watchdog's quit came before the worker ran its loop.
QuitLost == rebuildRequested /\ worker = "loop" /\ running

\* A rebuild that the lifecycle asks for is carried out, or the pipeline ends, but
\* for a quit that was lost.
RebuildDone == life.awaiting ~> ~life.awaiting \/ Ending \/ QuitLost
=============================================================================
