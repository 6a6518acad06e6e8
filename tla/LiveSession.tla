---------------------------- MODULE LiveSession ----------------------------
(***************************************************************************)
(* Live sessions: the generations of a session's specification that the    *)
(* API creates and stops, the MediaMTX paths that its reconciler provides  *)
(* for them, and the attempts at a generation that process_one_session     *)
(* makes.                                                                  *)
(*                                                                         *)
(* The database runs at READ COMMITTED.  A request that takes the row lock *)
(* of a session and then reads a generation without a lock is two steps,   *)
(* and its flush leaves out a column that it has not changed.  A statement *)
(* that waits for a row lock is an action that is not enabled.  The API is *)
(* one process, in which one reconciliation runs at a time.                *)
(***************************************************************************)
EXTENDS Naturals

CONSTANTS
    Sessions,        \* session ids
    Clients,         \* API requests
    Workers,         \* live worker processes
    Reported,        \* the runtime states that native workers report
    NoSession,       \* the session of a request or a worker that has none
    MaxGenerations,  \* bound: how many generations of a session are followed
    MaxAttempts,     \* bound: how many attempts at a generation are followed
    MaxRequests      \* bound: how many requests arrive

ASSUME BoundsAssumption ==
    MaxGenerations \in Nat \ {0} /\ MaxAttempts \in Nat \ {0} /\ MaxRequests \in Nat
ASSUME NoSessionAssumption == NoSession \notin Sessions
ASSUME ReportedAssumption == Reported \subseteq {"STARTING", "ACTIVE", "RECONNECTING", "STOPPING"}

VARIABLES
    session,  \* the live_session rows
    gen,      \* the live_session_generation rows
    attempt,  \* the newest runtime_attempt of each generation
    run,      \* the live_session_run rows, per generation and attempt
    worker,   \* process_one_session and its tasks, in each worker
    native,   \* the native worker that the runner task waits for
    client,   \* reconfigure and stop requests in progress
    requests, \* how many requests have arrived
    path,     \* the generations whose ingress path MediaMTX has configured
    rec,      \* the reconciliation in progress
    stale     \* _stale_since of the reconciler

database == <<session, gen, attempt, run>>
process == <<worker, native>>
media == <<path, rec, stale>>
api == <<client, requests>>
vars == <<database, process, api, media>>

Numbers == 1 .. MaxGenerations
Attempts == 1 .. MaxAttempts
Gens == Sessions \X Numbers
NoGen == <<NoSession, 0>>

Open == {"STARTING", "ACTIVE", "RECONNECTING", "STOPPING"}
Terminal == {"STOPPED", "FAILED"}

SessionRow == [desired: {"absent", "running", "stopped"}, current: 0 .. MaxGenerations]

\* ready: media_state is "ready"; the other media states are alike to a claim.
GenRow == [desired: {"absent", "running", "stopped"}, state: {"ACCEPTED"} \cup Open \cup Terminal,
           ready: BOOLEAN]

RunRow == [state: {"NONE"} \cup Open \cup Terminal, lease: {"none", "live", "expired"}]

\* tx: the transaction of update_run_state or finish_run in progress, which holds
\* the row lock of the run; to is the state it writes, seen the state of the
\* generation as it was read.
NoTx == [to |-> "none", seen |-> "none"]
Tx == [to: Open \cup Terminal, seen: {"ACCEPTED"} \cup Open \cup Terminal] \cup {NoTx}

WorkerState ==
    [at: {"idle", "claimed", "running", "stop", "fail", "cleanup"}, gen: Gens \cup {NoGen},
     attempt: 0 .. MaxAttempts, monitor: BOOLEAN, stopSent: BOOLEAN, tx: Tx]

\* "stopped": exited with 0 after a stopped event; "dead": exited otherwise.  How
\* a stop command travels and what it meets is the subject of LiveRun.
NativeState == {"none", "live", "stopped", "dead"}

\* number, seen: the current generation and its runtime state as they were read.
ClientState ==
    [at: {"idle", "reconfigure", "replacing", "stopping", "reconcile"},
     session: Sessions \cup {NoSession}, number: 0 .. MaxGenerations,
     seen: {"none", "ACCEPTED"} \cup Open \cup Terminal]

\* todo: the listed generations that are still to be provisioned; the rows of the
\* others are written and locked, those in ready as "ready".
RecState == [at: {"idle", "pass"}, listed: SUBSET Gens, todo: SUBSET Gens, ready: SUBSET Gens]

TypeOK ==
    /\ session \in [Sessions -> SessionRow]
    /\ gen \in [Gens -> GenRow]
    /\ attempt \in [Gens -> 0 .. MaxAttempts]
    /\ run \in [Gens -> [Attempts -> RunRow]]
    /\ worker \in [Workers -> WorkerState]
    /\ native \in [Workers -> NativeState]
    /\ client \in [Clients -> ClientState]
    /\ requests \in 0 .. MaxRequests
    /\ path \subseteq Gens
    /\ rec \in RecState
    /\ stale \subseteq Gens

IdleWorker == [at |-> "idle", gen |-> NoGen, attempt |-> 0, monitor |-> FALSE,
               stopSent |-> FALSE, tx |-> NoTx]
IdleClient == [at |-> "idle", session |-> NoSession, number |-> 0, seen |-> "none"]
IdleRec == [at |-> "idle", listed |-> {}, todo |-> {}, ready |-> {}]

Init ==
    /\ session = [s \in Sessions |-> [desired |-> "absent", current |-> 0]]
    /\ gen = [g \in Gens |-> [desired |-> "absent", state |-> "ACCEPTED", ready |-> FALSE]]
    /\ attempt = [g \in Gens |-> 0]
    /\ run = [g \in Gens |-> [a \in Attempts |-> [state |-> "NONE", lease |-> "none"]]]
    /\ worker = [w \in Workers |-> IdleWorker]
    /\ native = [w \in Workers |-> "none"]
    /\ client = [k \in Clients |-> IdleClient]
    /\ requests = 0
    /\ path = {}
    /\ rec = IdleRec
    /\ stale = {}

-----------------------------------------------------------------------------
(* LiveSessionService.                                                     *)

\* What create_session and create_generation insert.
NewSession == [desired |-> "running", current |-> 1]
NewGen == [desired |-> "running", state |-> "ACCEPTED", ready |-> FALSE]

SessionLocked(s) ==
    \E k \in Clients : client[k].session = s /\ client[k].at \in {"replacing", "stopping"}

GenLocked(g) == g \in rec.listed \ rec.todo

\* A request whose rows are committed waits for its reconciliation.
Committed(k) == client' = [client EXCEPT ![k] = [IdleClient EXCEPT !.at = "reconcile"]]

Arrives == requests < MaxRequests /\ requests' = requests + 1

\* create: the rows are new to everybody, so it is one step.
Create(k, s) ==
    /\ client[k].at = "idle"
    /\ Arrives
    /\ session[s].desired = "absent"
    /\ session' = [session EXCEPT ![s] = NewSession]
    /\ gen' = [gen EXCEPT ![<<s, 1>>] = NewGen]
    /\ Committed(k)
    /\ UNCHANGED <<attempt, run, process, media>>

\* reconfigure reads the session without a lock; only a running one is accepted.
ReconfigureRead(k, s) ==
    /\ client[k].at = "idle"
    /\ Arrives
    /\ session[s].desired = "running"
    /\ session[s].current < MaxGenerations
    /\ client' = [client EXCEPT ![k] = [at |-> "reconfigure", session |-> s,
                     number |-> session[s].current, seen |-> "none"]]
    /\ UNCHANGED <<database, process, media>>

\* create_generation locks the session and reads the newest generation.  The lock
\* does not refresh the session that was loaded before.
ReconfigureLock(k) ==
    LET s == client[k].session IN
    /\ client[k].at = "reconfigure"
    /\ ~SessionLocked(s)
    /\ client' = [client EXCEPT ![k].at = "replacing",
                     ![k].seen = gen[<<s, session[s].current>>].state]
    /\ UNCHANGED <<requests, database, process, media>>

\* What a flush leaves in a column that was read as seen and set to new.
Flushed(seen, new, stored) == IF new = seen THEN stored ELSE new

Stopping(row, seen) ==
    [row EXCEPT !.desired = "stopped",
                !.state = IF seen \in Terminal THEN @ ELSE Flushed(seen, "STOPPING", @)]

ReconfigureKeepsOld(k) ==
    LET s == client[k].session
        n == client[k].number
    IN  /\ client[k].at = "replacing"
        /\ ~GenLocked(<<s, session[s].current>>)
        /\ session[s].current = n
        /\ session' = [session EXCEPT ![s].current = n + 1]
        /\ gen' = [gen EXCEPT ![<<s, n + 1>>] = NewGen]
        /\ Committed(k)
        /\ UNCHANGED <<requests, attempt, run, process, media>>

\* The old generation is stopped and the next one inserted; the unique number of
\* a generation makes a request that read an older session fail and roll back.
ReconfigureWrite(k) ==
    LET s == client[k].session
        n == client[k].number
    IN  /\ client[k].at = "replacing"
        /\ ~GenLocked(<<s, session[s].current>>)
        /\ \/ /\ session[s].current = n
              /\ session' = [session EXCEPT ![s].current = n + 1]
              /\ gen' = [gen EXCEPT ![<<s, n>>] = Stopping(@, client[k].seen),
                                    ![<<s, n + 1>>] = NewGen]
              /\ Committed(k)
           \/ /\ session[s].current # n
              /\ client' = [client EXCEPT ![k] = IdleClient]
              /\ UNCHANGED <<session, gen>>
        /\ UNCHANGED <<requests, attempt, run, process, media>>

\* set_desired_state locks the session, as it is now, and reads its generation.
StopLock(k, s) ==
    /\ client[k].at = "idle"
    /\ Arrives
    /\ session[s].desired # "absent"
    /\ ~SessionLocked(s)
    /\ client' = [client EXCEPT ![k] = [at |-> "stopping", session |-> s,
                     number |-> session[s].current, seen |-> gen[<<s, session[s].current>>].state]]
    /\ UNCHANGED <<database, process, media>>

StopWrite(k) ==
    LET s == client[k].session
        g == <<s, client[k].number>>
    IN  /\ client[k].at = "stopping"
        /\ ~GenLocked(g)
        /\ session' = [session EXCEPT ![s].desired = "stopped"]
        /\ gen' = [gen EXCEPT ![g] = Stopping(@, client[k].seen)]
        /\ Committed(k)
        /\ UNCHANGED <<requests, attempt, run, process, media>>

\* The API process dies; its transactions roll back and its memory is lost.
CrashApi ==
    /\ client' = [k \in Clients |-> IdleClient]
    /\ rec' = IdleRec
    /\ stale' = {}
    /\ client # client' \/ rec # rec' \/ stale # stale'
    /\ UNCHANGED <<requests, database, process, path>>

-----------------------------------------------------------------------------
(* MediaMtxReconciliationService.                                          *)

\* list_reconcilable.
Reconcilable == {g \in Gens : gen[g].desired = "running"}

ReconcileStart(k) ==
    /\ client[k].at = "reconcile"
    /\ rec.at = "idle"
    /\ rec' = [at |-> "pass", listed |-> Reconcilable, todo |-> Reconcilable, ready |-> {}]
    /\ client' = [client EXCEPT ![k] = IdleClient]
    /\ UNCHANGED <<requests, database, process, path, stale>>

\* One generation of the loop.  The path is configured, and online or not; or
\* the source is unusable, or MediaMTX fails before or after it added the path.
Provision(g) ==
    /\ g \in rec.todo
    /\ \/ path' = path \cup {g} /\ rec' = [rec EXCEPT !.todo = @ \ {g}, !.ready = @ \cup {g}]
       \/ path' \in {path, path \cup {g}} /\ rec' = [rec EXCEPT !.todo = @ \ {g}]
    /\ UNCHANGED <<database, process, api, stale>>

\* The commit at the end of a pass.
MediaCommitted ==
    gen' = [g \in Gens |->
              IF g \in rec.listed THEN [gen[g] EXCEPT !.ready = g \in rec.ready] ELSE gen[g]]

SweepUnready ==
    /\ rec.at = "pass" /\ rec.todo = {}
    /\ \E expired \in SUBSET (stale \cap (path \ rec.ready)) :
          /\ path' = path \ expired
          /\ stale' = (path \ rec.ready) \ expired
    /\ MediaCommitted
    /\ rec' = IdleRec
    /\ UNCHANGED <<session, attempt, run, process, api>>

\* Paths of no listed generation are remembered in stale.  One that was there
\* already is deleted when its grace is over, which time decides.
Sweep ==
    /\ rec.at = "pass" /\ rec.todo = {}
    /\ \E expired \in SUBSET (stale \cap (path \ rec.listed)) :
          /\ path' = path \ expired
          /\ stale' = (path \ rec.listed) \ expired
    /\ MediaCommitted
    /\ rec' = IdleRec
    /\ UNCHANGED <<session, attempt, run, process, api>>

\* A delete fails: the pass is rolled back; the names visited before it, and the
\* one whose delete may have been done although it failed, stay as they are.
SweepFails ==
    /\ rec.at = "pass" /\ rec.todo = {}
    /\ \E visited \in SUBSET (path \ rec.listed) :
       \E expired \in SUBSET (stale \cap visited) :
       \E bad \in (stale \cap (path \ rec.listed)) \ expired :
          /\ path' \in {path \ expired, path \ (expired \cup {bad})}
          /\ stale' = (stale \cup visited) \ expired
    /\ rec' = IdleRec
    /\ UNCHANGED <<database, process, api>>

\* list_config_paths fails: the pass is committed, and nothing is swept.
ListFails ==
    /\ rec.at = "pass" /\ rec.todo = {}
    /\ MediaCommitted
    /\ rec' = IdleRec
    /\ UNCHANGED <<session, attempt, run, process, api, path, stale>>

-----------------------------------------------------------------------------
(* LiveSessionRepository, as process_one_session uses it.                  *)

RunOf(w) == run[worker[w].gen][worker[w].attempt]

\* The WHERE clause of renew_run, update_run_state and finish_run.
Fenced(w) == RunOf(w).lease = "live"

Held(g) ==
    /\ attempt[g] > 0
    /\ run[g][attempt[g]].state \in Open
    /\ run[g][attempt[g]].lease = "live"

RunLocked(g) == \E w \in Workers : worker[w].gen = g /\ worker[w].attempt = attempt[g] /\ worker[w].tx # NoTx

AbandonedKept(r) == r
\* claim_generation fails an attempt that is still open although its lease expired.
Abandoned(r) == IF r.state \in Open THEN [state |-> "FAILED", lease |-> "none"] ELSE r

\* claim_generation: generations whose row is locked are skipped, the newest run
\* is locked.
Claim(w) ==
    /\ worker[w].at = "idle"
    /\ \E g \in Gens :
          /\ gen[g].desired = "running" /\ gen[g].ready /\ ~GenLocked(g)
          /\ ~RunLocked(g) /\ ~Held(g)
          /\ attempt[g] < MaxAttempts
          /\ attempt' = [attempt EXCEPT ![g] = @ + 1]
          /\ run' = [run EXCEPT ![g] = [a \in Attempts |->
                        IF a = attempt[g] + 1 THEN [state |-> "STARTING", lease |-> "live"]
                        ELSE IF a = attempt[g] THEN Abandoned(run[g][a]) ELSE run[g][a]]]
          /\ gen' = [gen EXCEPT ![g].state = "STARTING"]
          /\ worker' = [worker EXCEPT ![w] =
                           [IdleWorker EXCEPT !.at = "claimed", !.gen = g, !.attempt = attempt[g] + 1]]
    /\ UNCHANGED <<session, native, api, media>>

LeaseLapse(g, a) ==
    /\ run[g][a].lease = "live"
    /\ run' = [run EXCEPT ![g][a].lease = "expired"]
    /\ UNCHANGED <<session, gen, attempt, process, api, media>>

-----------------------------------------------------------------------------
(* LiveSupervisor.process_one_session.                                     *)

\* The runner and the monitor start; or _session_start_command rejects the
\* resolved specification, of whose sampling modes it knows one.
Launch(w) ==
    /\ worker[w].at = "claimed"
    /\ \/ /\ worker' = [worker EXCEPT ![w].at = "running", ![w].monitor = TRUE]
          /\ native' = [native EXCEPT ![w] = "live"]
       \/ /\ worker' = [worker EXCEPT ![w].at = "fail"]
          /\ UNCHANGED native
    /\ UNCHANGED <<database, api, media>>

\* The runner task is over, and with it the child.
RunnerOver(w, at) ==
    /\ native' = [native EXCEPT ![w] = "none"]
    /\ worker' = [worker EXCEPT ![w].at = IF @ = "running" THEN at ELSE @, ![w].tx = NoTx,
                                ![w].monitor = @ /\ at = "fail"]

\* The fenced UPDATE of the run, and the read of its generation.  The commit is
\* a step of its own; until then the row of the run is locked.
Begin(w, to) ==
    /\ worker[w].tx = NoTx
    /\ Fenced(w)
    /\ worker' = [worker EXCEPT ![w].tx = [to |-> to, seen |-> gen[worker[w].gen].state]]
    /\ UNCHANGED <<database, native, api, media>>

\* What update_run_state and finish_run write to the run.
RunWritten(row, to) == IF to \in Terminal THEN [state |-> to, lease |-> "none"] ELSE [row EXCEPT !.state = to]

CommitRunOnly(w) ==
    LET g == worker[w].gen
        tx == worker[w].tx
    IN  /\ tx # NoTx
        /\ ~GenLocked(g)
        /\ run' = [run EXCEPT ![g][worker[w].attempt] = RunWritten(@, tx.to)]
        /\ worker' = [worker EXCEPT ![w].tx = NoTx,
                                    ![w].at = IF tx.to \in Terminal THEN "cleanup" ELSE @]
        /\ UNCHANGED <<session, gen, attempt, native, api, media>>

\* The generation is flushed with the state of the run.
Commit(w) ==
    LET g == worker[w].gen
        tx == worker[w].tx
    IN  /\ tx # NoTx
        /\ ~GenLocked(g)
        /\ run' = [run EXCEPT ![g][worker[w].attempt] = RunWritten(@, tx.to)]
        /\ gen' = [gen EXCEPT ![g].state = Flushed(tx.seen, tx.to, @)]
        /\ worker' = [worker EXCEPT ![w].tx = NoTx,
                                    ![w].at = IF tx.to \in Terminal THEN "cleanup" ELSE @]
        /\ UNCHANGED <<session, attempt, native, api, media>>

\* _persist_session_state on a state event; a lost lease ends the runner, which
\* wraps the error, so the run counts as failed.
PersistBegin(w, state) == native[w] # "none" /\ Begin(w, state)

PersistUnfenced(w) ==
    /\ native[w] # "none" /\ worker[w].tx = NoTx /\ ~Fenced(w)
    /\ RunnerOver(w, "fail")
    /\ UNCHANGED <<database, api, media>>

\* The database rejects the transaction: among others when a claim, which locks
\* the generation first, waits for the run.
TxFails(w) ==
    /\ worker[w].tx # NoTx
    /\ \/ worker[w].tx.to \in Open /\ RunnerOver(w, "fail")
       \/ /\ worker[w].tx.to \in Terminal
          /\ worker' = [worker EXCEPT ![w].tx = NoTx,
                                      ![w].at = IF @ = "stop" THEN "fail" ELSE "cleanup"]
          /\ UNCHANGED native
    /\ UNCHANGED <<database, api, media>>

RunnerEnds(w) ==
    /\ worker[w].tx.to \notin Open
    /\ \/ native[w] = "stopped" /\ RunnerOver(w, "stop")
       \/ native[w] = "dead" /\ RunnerOver(w, "fail")
    /\ UNCHANGED <<database, api, media>>

\* A malformed frame, or one of another run, attempt or session.
RunnerRaises(w) ==
    /\ native[w] # "none" /\ worker[w].tx.to \notin Open
    /\ RunnerOver(w, "fail")
    /\ UNCHANGED <<database, api, media>>

MonitorDeaf(w) ==
    /\ worker[w].monitor /\ worker[w].tx = NoTx /\ ~Fenced(w)
    /\ worker' = [worker EXCEPT ![w].monitor = FALSE, ![w].at = IF @ = "running" THEN "cleanup" ELSE @]
    /\ native' = [native EXCEPT ![w] = IF worker[w].at = "running" THEN "none" ELSE @]
    /\ UNCHANGED <<database, api, media>>

\* One round of _monitor_session, which keeps the lease live.
Monitor(w) ==
    /\ worker[w].monitor
    /\ \/ /\ Fenced(w)
          /\ ~worker[w].stopSent /\ gen[worker[w].gen].desired # "running"
          /\ worker' = [worker EXCEPT ![w].stopSent = TRUE]
          /\ UNCHANGED native
       \/ /\ worker[w].tx = NoTx /\ ~Fenced(w)
          /\ worker' = [worker EXCEPT ![w].monitor = FALSE, ![w].at = IF @ = "running" THEN "cleanup" ELSE @]
          /\ native' = [native EXCEPT ![w] = IF worker[w].at = "running" THEN "none" ELSE @]
    /\ UNCHANGED <<database, api, media>>

\* Any other error of the monitor fails the run, the runner still at work.
MonitorRaises(w) ==
    /\ worker[w].monitor
    /\ worker' = [worker EXCEPT ![w].monitor = FALSE, ![w].at = IF @ = "running" THEN "fail" ELSE @]
    /\ UNCHANGED <<database, native, api, media>>

FinishBegin(w) ==
    /\ worker[w].at \in {"stop", "fail"}
    /\ Begin(w, IF worker[w].at = "stop" THEN "STOPPED" ELSE "FAILED")

FinishUnfenced(w) ==
    /\ worker[w].at \in {"stop", "fail"} /\ worker[w].tx = NoTx /\ ~Fenced(w)
    /\ worker' = [worker EXCEPT ![w].at = "cleanup"]
    /\ UNCHANGED <<database, native, api, media>>

\* The finally block cancels the tasks; a transaction of the runner rolls back.
CleanUp(w) ==
    /\ worker[w].at = "cleanup"
    /\ worker' = [worker EXCEPT ![w] = IdleWorker]
    /\ native' = [native EXCEPT ![w] = "none"]
    /\ UNCHANGED <<database, api, media>>

Crash(w) ==
    /\ worker[w].at # "idle"
    /\ worker' = [worker EXCEPT ![w] = IdleWorker]
    /\ native' = [native EXCEPT ![w] = "none"]
    /\ UNCHANGED <<database, api, media>>

\* The child has obeyed the stop command and reported that it stopped; or it exits
\* without such a report, as it does after a stop when its pipeline had failed.
\* Nothing makes it do either.
NativeExits(w, how) ==
    /\ native[w] = "live"
    /\ how = "stopped" => worker[w].stopSent
    /\ native' = [native EXCEPT ![w] = how]
    /\ UNCHANGED <<database, worker, api, media>>

-----------------------------------------------------------------------------
Api ==
    \/ \E k \in Clients, s \in Sessions : Create(k, s) \/ ReconfigureRead(k, s) \/ StopLock(k, s)
    \/ \E k \in Clients : ReconfigureLock(k) \/ ReconfigureWrite(k) \/ StopWrite(k)
    \/ CrashApi

Reconciler ==
    \/ \E k \in Clients : ReconcileStart(k)
    \/ \E g \in Gens : Provision(g)
    \/ Sweep \/ SweepFails \/ ListFails

Supervisor(w) ==
    \/ Claim(w) \/ Launch(w) \/ Commit(w) \/ TxFails(w) \/ CleanUp(w) \/ Crash(w)
    \/ \E state \in Reported : PersistBegin(w, state)
    \/ PersistUnfenced(w) \/ FinishBegin(w) \/ FinishUnfenced(w)
    \/ Monitor(w) \/ MonitorRaises(w) \/ RunnerEnds(w) \/ RunnerRaises(w)

Next ==
    \/ Api
    \/ Reconciler
    \/ \E w \in Workers : Supervisor(w) \/ \E how \in {"stopped", "dead"} : NativeExits(w, how)
    \/ \E g \in Gens, a \in Attempts : LeaseLapse(g, a)

Spec == Init /\ [][Next]_vars

Unattended(g, a) ==
    ~\E w \in Workers : worker[w].gen = g /\ worker[w].attempt = a /\ worker[w].monitor

\* Awaited calls return, the monitor's rounds go on, and time passes.  No worker's
\* loop calls process_one_session, so claims are not fair; nothing forces a
\* request, a failure or a crash, and nothing makes the child obey a stop.
Fairness ==
    /\ \A w \in Workers :
          /\ WF_vars(Launch(w)) /\ WF_vars(Commit(w)) /\ WF_vars(CleanUp(w))
          /\ WF_vars(FinishBegin(w)) /\ WF_vars(FinishUnfenced(w))
          /\ WF_vars(Monitor(w)) /\ WF_vars(RunnerEnds(w))
    /\ \A k \in Clients : WF_vars(ReconfigureLock(k) \/ ReconfigureWrite(k) \/ StopWrite(k))
    /\ \A k \in Clients : WF_vars(ReconcileStart(k))
    /\ \A g \in Gens : WF_vars(Provision(g))
    /\ WF_vars(Sweep \/ SweepFails \/ ListFails)
    /\ \A g \in Gens, a \in Attempts : WF_vars(LeaseLapse(g, a) /\ Unattended(g, a))

FairSpec == Spec /\ Fairness

-----------------------------------------------------------------------------
(* Properties.                                                             *)

\* One generation of a session is to run at a time, and it is the current one,
\* whatever reconfigurations and stops race.
OneRunning ==
    \A g \in Reconcilable : g[2] = session[g[1]].current

\* The attempts at a generation are a ledger: a claim closes the attempt it takes
\* over from, and a closed attempt is never opened again by a late event.
Ledger == INSTANCE RunLedger WITH
    Cameras <- Gens,
    newest <- attempt,
    open <- [g \in Gens |-> {a \in Attempts : run[g][a].state \in Open}]

AttemptsKept == Ledger!Spec

\* A generation that calls itself starting, active or reconnecting has an open
\* attempt, and one that calls itself over has none, although the two rows are
\* written by different transactions and without a common lock.
StatesAgree ==
    \A g \in Gens :
        LET open == attempt[g] > 0 /\ run[g][attempt[g]].state \in Open IN
        /\ gen[g].state \in {"STARTING", "ACTIVE", "RECONNECTING"} => open
        /\ gen[g].state \in Terminal => ~open

\* A sweep never deletes the path of a generation that is to run, although it
\* works from a list that was read before its calls to MediaMTX.
PathKept == [][\A g \in path \ path' : gen[g].desired = "stopped"]_vars

\* A child at work for a generation, to which no stop was sent.
Untold(g) == \E w \in Workers : worker[w].gen = g /\ native[w] = "live" /\ ~worker[w].stopSent

\* A generation that is stopped or replaced is left without a child that has not
\* been sent the stop, and this stays so, whichever worker holds its lease, has
\* lost it, is failing the attempt or had still to launch the child.
ReplacedIsTold == \A g \in Gens : gen[g].desired = "stopped" ~> []~Untold(g)
=============================================================================
