------------------------- MODULE LiveSessionProofs -------------------------
(***************************************************************************)
(* Proofs about LiveSession: one generation of a session is to run at a    *)
(* time, the rows of generations and attempts agree, the attempts          *)
(* implement RunLedger, and no sweep deletes the path of a generation that *)
(* is to run.                                                              *)
(*                                                                         *)
(* None of these is inductive.  SessionsOK adds that exactly the numbers   *)
(* up to the current one exist, and ClientsOK that a request knows one of  *)
(* them; MediaOK that a pass has listed whatever of the paths it finds may *)
(* still run.  RowsOK says that only the newest attempt is open, and live  *)
(* only while it is; HeldOK that a transaction in progress keeps its       *)
(* attempt the newest and open, and that meanwhile nobody but a request    *)
(* that stops the generation writes its state; and Alone that an attempt   *)
(* belongs to one worker.                                                  *)
(***************************************************************************)
EXTENDS LiveSession, TLAPS

Busy(w) == worker[w].at # "idle"

\* The generations of a session are numbered up to its current one.
SessionsOK ==
    /\ \A s \in Sessions : session[s].desired = "absent" <=> session[s].current = 0
    /\ \A g \in Gens : gen[g].desired = "absent" <=> g[2] > session[g[1]].current

\* A request that is under way has read a generation that exists, and one that
\* replaces it has room for the next.
ClientsOK ==
    \A k \in Clients :
        /\ client[k].at \in {"reconfigure", "replacing", "stopping"} =>
              client[k].session \in Sessions /\ client[k].number \in 1 .. session[client[k].session].current
        /\ client[k].at \in {"reconfigure", "replacing"} => client[k].number < MaxGenerations

MediaOK ==
    /\ \A g \in path \cup rec.listed : gen[g].desired # "absent"
    /\ rec.todo \subseteq rec.listed
    /\ rec.at = "pass" => \A g \in path \ rec.listed : gen[g].desired = "stopped"

ApiInv == SessionsOK /\ OneRunning /\ ClientsOK /\ MediaOK

RowsOK ==
    \A g \in Gens, a \in Attempts :
        /\ run[g][a].state \in Open => a = attempt[g]
        /\ run[g][a].lease = "live" => run[g][a].state \in Open

\* Where a worker is, and what it knows of its attempt.
PlaceOK(w) ==
    /\ ~Busy(w) => worker[w] = IdleWorker /\ native[w] = "none"
    /\ Busy(w) => /\ worker[w].gen \in Gens /\ gen[worker[w].gen].desired # "absent"
                  /\ worker[w].attempt \in 1 .. attempt[worker[w].gen]

\* A transaction in progress.
HeldOK(w) ==
    worker[w].tx # NoTx =>
        /\ worker[w].attempt = attempt[worker[w].gen]
        /\ RunOf(w).state \in Open
        /\ worker[w].tx.seen \notin Terminal
        /\ gen[worker[w].gen].state \in {worker[w].tx.seen, "STOPPING"}

\* The attempts are numbered under the lock of their generation.
Alone ==
    \A v, w \in Workers :
        v # w /\ Busy(v) /\ Busy(w) /\ worker[v].gen = worker[w].gen => worker[v].attempt # worker[w].attempt

RowInv == RowsOK /\ StatesAgree /\ Alone /\ \A w \in Workers : PlaceOK(w) /\ HeldOK(w)

IInv == TypeOK /\ ApiInv /\ RowInv

-----------------------------------------------------------------------------
(* Sessions, requests and the reconciler.                                  *)

\* Generations are pairs of a session and a number.
LEMMA Pairs ==
    /\ \A s \in Sessions, n \in Numbers : <<s, n>> \in Gens /\ <<s, n>>[1] = s /\ <<s, n>>[2] = n
    /\ \A g \in Gens : g[1] \in Sessions /\ g[2] \in Numbers /\ g = <<g[1], g[2]>>
    /\ \A n \in Numbers : n \in Nat /\ n >= 1 /\ n <= MaxGenerations
BY BoundsAssumption DEF Gens, Numbers

\* The current number of a session is a number or 0.
LEMMA CurrentTyped == ASSUME TypeOK, NEW s \in Sessions PROVE session[s].current \in 0 .. MaxGenerations
BY DEF TypeOK, SessionRow

\* Steps that touch neither a session nor what a generation is to do.
LEMMA ApiKept ==
    ASSUME TypeOK, ApiInv, UNCHANGED <<session, client, path, rec>>,
           \A g \in Gens : gen'[g].desired = gen[g].desired
    PROVE  ApiInv'
<1>1. SessionsOK'
  BY DEF ApiInv, SessionsOK
<1>2. OneRunning'
  BY DEF ApiInv, OneRunning, Reconcilable
<1>3. ClientsOK'
  BY DEF ApiInv, ClientsOK
<1>4. path \subseteq Gens /\ rec.listed \subseteq Gens
  BY DEF TypeOK, RecState
<1>5. MediaOK'
  BY <1>4 DEF ApiInv, MediaOK
<1> QED
  BY <1>1, <1>2, <1>3, <1>5 DEF ApiInv

\* Requests that write nothing, from what they then know.
LEMMA ClientKept ==
    ASSUME ApiInv, UNCHANGED <<session, gen, path, rec>>, ClientsOK' PROVE ApiInv'
BY DEF ApiInv, SessionsOK, OneRunning, Reconcilable, MediaOK

\* A request that writes: the numbers of its session grow at most, what is
\* stopped stays stopped, and only the current generation is to run.
LEMMA Written ==
    ASSUME TypeOK, TypeOK', ApiInv, NEW s \in Sessions, UNCHANGED <<path, rec>>,
           \A t \in Sessions \ {s} : session'[t] = session[t],
           session'[s].desired # "absent" /\ session'[s].current >= 1,
           session'[s].current >= session[s].current,
           \A g \in Gens : g[1] # s => gen'[g].desired = gen[g].desired,
           \A g \in Gens : g[1] = s =>
               /\ gen'[g].desired = "absent" <=> g[2] > session'[s].current
               /\ gen'[g].desired = "running" => g[2] = session'[s].current
               /\ gen[g].desired = "stopped" => gen'[g].desired = "stopped",
           \A k \in Clients : client'[k] = client[k] \/ client'[k].at \in {"idle", "reconcile"}
    PROVE  ApiInv'
<1>1. session[s].current \in Nat /\ session'[s].current \in Nat
  BY DEF TypeOK, SessionRow
<1>2. \A g \in Gens : g[2] \in Nat
  BY Pairs
<1>3. SessionsOK'
  <2>1. ASSUME NEW t \in Sessions PROVE session'[t].desired = "absent" <=> session'[t].current = 0
    BY <1>1 DEF ApiInv, SessionsOK
  <2>2. ASSUME NEW g \in Gens PROVE gen'[g].desired = "absent" <=> g[2] > session'[g[1]].current
    <3>1. CASE g[1] = s
      BY <3>1
    <3>2. CASE g[1] # s
      <4>1. session'[g[1]] = session[g[1]]
        BY <3>2, Pairs
      <4> QED
        BY <3>2, <4>1 DEF ApiInv, SessionsOK
    <3> QED
      BY <3>1, <3>2
  <2> QED
    BY <2>1, <2>2 DEF SessionsOK
<1>4. OneRunning'
  <2>1. ASSUME NEW g \in Gens, gen'[g].desired = "running" PROVE g[2] = session'[g[1]].current
    <3>1. CASE g[1] = s
      BY <2>1, <3>1
    <3>2. CASE g[1] # s
      <4>1. session'[g[1]] = session[g[1]]
        BY <3>2, Pairs
      <4> QED
        BY <2>1, <3>2, <4>1 DEF ApiInv, OneRunning, Reconcilable
    <3> QED
      BY <3>1, <3>2
  <2> QED
    BY <2>1 DEF OneRunning, Reconcilable
<1>5. ClientsOK'
  <2>1. ASSUME NEW k \in Clients, client'[k].at \in {"reconfigure", "replacing", "stopping"}
        PROVE  /\ client'[k].session \in Sessions
               /\ client'[k].number \in 1 .. session'[client'[k].session].current
               /\ client'[k].at \in {"reconfigure", "replacing"} => client'[k].number < MaxGenerations
    <3>1. client'[k] = client[k]
      BY <2>1
    <3>2. PICK t \in Sessions : t = client[k].session
      BY <2>1, <3>1 DEF ApiInv, ClientsOK
    <3>3. client[k].number \in 1 .. session[t].current
      BY <2>1, <3>1, <3>2 DEF ApiInv, ClientsOK
    <3>4. session[t].current \in Nat /\ session'[t].current \in Nat /\ session'[t].current >= session[t].current
      BY DEF TypeOK, SessionRow
    <3>5. client[k].number \in 1 .. session'[t].current
      BY <3>3, <3>4
    <3>6. client[k].at \in {"reconfigure", "replacing"} => client[k].number < MaxGenerations
      BY DEF ApiInv, ClientsOK
    <3> QED
      BY <3>1, <3>2, <3>5, <3>6
  <2> QED
    BY <2>1 DEF ClientsOK
<1>6. \A g \in Gens : gen[g].desired # "absent" => gen'[g].desired # "absent"
  BY <1>1, <1>2 DEF ApiInv, SessionsOK
<1>7. \A g \in Gens : gen[g].desired = "stopped" => gen'[g].desired = "stopped"
  OBVIOUS
<1>8. path \subseteq Gens /\ rec.listed \subseteq Gens
  BY DEF TypeOK, RecState
<1>9. MediaOK'
  BY <1>6, <1>7, <1>8 DEF ApiInv, MediaOK
<1> QED
  BY <1>3, <1>4, <1>5, <1>9 DEF ApiInv

\* Steps beside the workers: the state of a generation that exists becomes at
\* most "STOPPING", and one that is new has no attempt.
LEMMA RowKept ==
    ASSUME TypeOK, RowInv, UNCHANGED <<attempt, run, worker, native>>,
           \A g \in Gens :
               /\ gen[g].desired # "absent" => gen'[g].desired # "absent" /\ gen'[g].state \in {gen[g].state, "STOPPING"}
               /\ gen[g].desired = "absent" => gen'[g].state \in {gen[g].state, "ACCEPTED"}
    PROVE  RowInv'
<1>1. RowsOK' /\ Alone'
  BY DEF RowInv, RowsOK, Alone, Busy
<1>2. StatesAgree'
  <2>1. ASSUME NEW g \in Gens
        PROVE  LET live == attempt[g] > 0 /\ run[g][attempt[g]].state \in Open IN
               /\ gen'[g].state \in {"STARTING", "ACTIVE", "RECONNECTING"} => live
               /\ gen'[g].state \in Terminal => ~live
    BY DEF RowInv, StatesAgree, Terminal
  <2> QED
    BY <2>1 DEF StatesAgree
<1>3. ASSUME NEW w \in Workers PROVE PlaceOK(w)' /\ HeldOK(w)'
  <2>1. PlaceOK(w)'
    BY DEF RowInv, PlaceOK, Busy
  <2>2. HeldOK(w)'
    <3>1. CASE worker[w].tx = NoTx
      BY <3>1 DEF HeldOK
    <3>2. CASE worker[w].tx # NoTx
      <4>1. Busy(w)
        BY <3>2 DEF RowInv, PlaceOK, IdleWorker
      <4>2. PICK g \in Gens : g = worker[w].gen /\ gen[g].desired # "absent"
        BY <4>1 DEF RowInv, PlaceOK
      <4>3. HeldOK(w) /\ UNCHANGED <<attempt, run, worker>>
        BY DEF RowInv
      <4>4. gen'[g].state \in {worker[w].tx.seen, "STOPPING"}
        BY <3>2, <4>2, <4>3 DEF HeldOK
      <4> QED
        BY <3>2, <4>2, <4>3, <4>4 DEF HeldOK, RunOf
    <3> QED
      BY <3>1, <3>2
  <2> QED
    BY <2>1, <2>2
<1> QED
  BY <1>1, <1>2, <1>3 DEF RowInv

\* Clients that a request leaves idle or waiting for a reconciliation.
LEMMA ClientValues ==
    /\ IdleClient \in ClientState /\ IdleClient.at = "idle"
    /\ [IdleClient EXCEPT !.at = "reconcile"] \in ClientState
    /\ [IdleClient EXCEPT !.at = "reconcile"].at = "reconcile"
BY BoundsAssumption DEF IdleClient, ClientState

\* Such a client.
LEMMA CommittedTyped ==
    ASSUME TypeOK, NEW k \in Clients, Committed(k)
    PROVE  /\ client' \in [Clients -> ClientState]
           /\ \A j \in Clients : client'[j] = client[j] \/ client'[j].at \in {"idle", "reconcile"}
<1> DEFINE new == [IdleClient EXCEPT !.at = "reconcile"]
<1>1. new \in ClientState /\ new.at = "reconcile"
  BY ClientValues
<1>2. client' = [client EXCEPT ![k] = new]
  BY DEF Committed
<1> HIDE DEF new
<1> QED
  BY <1>1, <1>2 DEF TypeOK

\* Steps that leave the rows of the database and the workers alone.
LEMMA QuietRows ==
    ASSUME TypeOK, RowInv, UNCHANGED <<gen, attempt, run, worker, native>> PROVE RowInv'
BY RowKept

\* create.
LEMMA CreateOK == ASSUME IInv, NEW k \in Clients, NEW s \in Sessions, Create(k, s) PROVE IInv'
<1>1. TypeOK /\ ApiInv /\ RowInv
  BY DEF IInv
<1>2. UNCHANGED <<attempt, run, worker, native, path, rec, stale>>
  BY DEF Create, process, media
<1>3. session' = [session EXCEPT ![s] = NewSession] /\ gen' = [gen EXCEPT ![<<s, 1>>] = NewGen]
  BY DEF Create
<1>4. 1 \in Numbers /\ <<s, 1>> \in Gens
  BY BoundsAssumption, Pairs DEF Numbers
<1>5. NewSession \in SessionRow /\ NewSession.desired = "running" /\ NewSession.current = 1
  BY BoundsAssumption DEF NewSession, SessionRow
<1>6. NewGen \in GenRow /\ NewGen.desired = "running" /\ NewGen.state = "ACCEPTED"
  BY DEF NewGen, GenRow
<1>7. session[s].current = 0 /\ \A g \in Gens : g[1] = s => gen[g].desired = "absent"
  <2>1. session[s].current = 0
    BY <1>1 DEF Create, ApiInv, SessionsOK
  <2>2. \A g \in Gens : g[2] > 0
    BY Pairs
  <2> QED
    BY <1>1, <2>1, <2>2 DEF ApiInv, SessionsOK
<1>8. /\ session' \in [Sessions -> SessionRow] /\ session'[s] = NewSession
      /\ \A t \in Sessions \ {s} : session'[t] = session[t]
  BY <1>1, <1>3, <1>5 DEF TypeOK
<1>9. /\ gen' \in [Gens -> GenRow] /\ gen'[<<s, 1>>] = NewGen
      /\ \A g \in Gens \ {<<s, 1>>} : gen'[g] = gen[g]
  BY <1>1, <1>3, <1>4, <1>6 DEF TypeOK
<1>10. requests' \in 0 .. MaxRequests
  BY <1>1, BoundsAssumption DEF Create, Arrives, TypeOK
<1>11. /\ client' \in [Clients -> ClientState]
       /\ \A j \in Clients : client'[j] = client[j] \/ client'[j].at \in {"idle", "reconcile"}
  BY <1>1, CommittedTyped DEF Create
<1>12. TypeOK'
  BY <1>1, <1>2, <1>8, <1>9, <1>10, <1>11 DEF TypeOK
<1>13. \A g \in Gens : g[1] # s => gen'[g].desired = gen[g].desired
  BY <1>9
<1>14. ASSUME NEW g \in Gens, g[1] = s
       PROVE  /\ gen'[g].desired = "absent" <=> g[2] > 1
              /\ gen'[g].desired = "running" => g[2] = 1
              /\ gen[g].desired # "stopped"
  <2>1. g[2] \in Nat /\ g[2] >= 1 /\ (g[2] = 1 <=> g = <<s, 1>>)
    BY <1>14, Pairs
  <2>2. CASE g = <<s, 1>>
    BY <1>6, <1>7, <1>9, <1>14, <2>1, <2>2
  <2>3. CASE g # <<s, 1>>
    BY <1>7, <1>9, <1>14, <2>1, <2>3
  <2> QED
    BY <2>2, <2>3
<1>15. ApiInv'
  BY <1>1, <1>2, <1>5, <1>7, <1>8, <1>11, <1>12, <1>13, <1>14, Written
<1>16. RowInv'
  BY <1>1, <1>2, <1>6, <1>7, <1>9, Pairs, RowKept
<1> QED
  BY <1>12, <1>15, <1>16 DEF IInv

\* Requests that take the lock of a session or read it.
LEMMA ReadsOK ==
    ASSUME IInv, NEW k \in Clients, NEW s \in Sessions,
           ReconfigureRead(k, s) \/ StopLock(k, s) \/ ReconfigureLock(k)
    PROVE  IInv'
<1>1. TypeOK /\ ApiInv /\ RowInv
  BY DEF IInv
<1>2. UNCHANGED <<session, gen, attempt, run, worker, native, path, rec, stale>>
  BY DEF ReconfigureRead, StopLock, ReconfigureLock, database, process, media
<1>3. requests' \in 0 .. MaxRequests
  BY <1>1, BoundsAssumption DEF ReconfigureRead, StopLock, ReconfigureLock, Arrives, TypeOK
<1>4. ASSUME NEW c \in ClientState, client' = [client EXCEPT ![k] = c],
             c.session \in Sessions, c.number \in 1 .. session[c.session].current,
             c.at \in {"reconfigure", "replacing"} => c.number < MaxGenerations
      PROVE  IInv'
  <2>1. /\ client' \in [Clients -> ClientState] /\ client'[k] = c
        /\ \A j \in Clients \ {k} : client'[j] = client[j]
    BY <1>1, <1>4 DEF TypeOK
  <2>2. TypeOK'
    BY <1>1, <1>2, <1>3, <2>1 DEF TypeOK
  <2>3. ClientsOK'
    BY <1>1, <1>2, <1>4, <2>1 DEF ApiInv, ClientsOK
  <2> QED
    BY <1>1, <1>2, <2>2, <2>3, ClientKept, QuietRows DEF IInv
<1>5. CASE ReconfigureRead(k, s)
  <2> DEFINE c == [at |-> "reconfigure", session |-> s, number |-> session[s].current, seen |-> "none"]
  <2>1. session[s].desired = "running" /\ session[s].current < MaxGenerations /\ client' = [client EXCEPT ![k] = c]
    BY <1>5 DEF ReconfigureRead
  <2>2. session[s].current \in 0 .. MaxGenerations /\ session[s].current # 0
    BY <1>1, <2>1, CurrentTyped DEF ApiInv, SessionsOK
  <2>3. c \in ClientState /\ c.session = s /\ c.number = session[s].current
    BY <2>2 DEF ClientState
  <2>4. c.number \in 1 .. session[s].current
    BY <2>2, <2>3, BoundsAssumption
  <2> HIDE DEF c
  <2> QED
    BY <1>4, <2>1, <2>3, <2>4
<1>6. CASE StopLock(k, s)
  <2> DEFINE c == [at |-> "stopping", session |-> s, number |-> session[s].current,
                   seen |-> gen[<<s, session[s].current>>].state]
  <2>1. session[s].desired # "absent" /\ client' = [client EXCEPT ![k] = c]
    BY <1>6 DEF StopLock
  <2>2. session[s].current \in 0 .. MaxGenerations /\ session[s].current # 0
    BY <1>1, <2>1, CurrentTyped DEF ApiInv, SessionsOK
  <2>3. session[s].current \in Numbers /\ <<s, session[s].current>> \in Gens
    BY <2>2, BoundsAssumption, Pairs DEF Numbers
  <2>4. gen[<<s, session[s].current>>].state \in {"ACCEPTED"} \cup Open \cup Terminal
    BY <1>1, <2>3 DEF TypeOK, GenRow
  <2>5. c \in ClientState /\ c.session = s /\ c.number = session[s].current /\ c.at = "stopping"
    BY <2>2, <2>4 DEF ClientState
  <2>6. c.number \in 1 .. session[s].current
    BY <2>2, <2>5, BoundsAssumption
  <2> HIDE DEF c
  <2> QED
    BY <1>4, <2>1, <2>5, <2>6
<1>7. CASE ReconfigureLock(k)
  <2>1. client[k].at = "reconfigure" /\ client[k] \in ClientState
    BY <1>1, <1>7 DEF ReconfigureLock, TypeOK
  <2>2. PICK t \in Sessions : t = client[k].session /\ client[k].number \in 1 .. session[t].current
    BY <1>1, <2>1 DEF ApiInv, ClientsOK
  <2>3. client[k].number < MaxGenerations
    BY <1>1, <2>1 DEF ApiInv, ClientsOK
  <2>4. session[t].current \in 0 .. MaxGenerations
    BY <1>1, CurrentTyped
  <2>5. session[t].current \in Numbers /\ <<t, session[t].current>> \in Gens
    BY <2>2, <2>4, BoundsAssumption, Pairs DEF Numbers
  <2>6. PICK x \in {"ACCEPTED"} \cup Open \cup Terminal : x = gen[<<t, session[t].current>>].state
    BY <1>1, <2>5 DEF TypeOK, GenRow
  <2> DEFINE c == [client[k] EXCEPT !.at = "replacing", !.seen = x]
  <2>7. client' = [client EXCEPT ![k].at = "replacing", ![k].seen = x]
    BY <1>7, <2>2, <2>6 DEF ReconfigureLock
  <2>8. client' = [client EXCEPT ![k] = c]
    BY <1>1, <2>7 DEF TypeOK
  <2>9. c \in ClientState /\ c.session = client[k].session /\ c.number = client[k].number
    BY <2>1 DEF ClientState
  <2> HIDE DEF c
  <2> QED
    BY <1>4, <2>2, <2>3, <2>8, <2>9
<1> QED
  BY <1>5, <1>6, <1>7

\* What a request that stops a generation leaves of its row.
LEMMA StoppingTyped ==
    ASSUME NEW row \in GenRow, NEW seen
    PROVE  /\ Stopping(row, seen) \in GenRow /\ Stopping(row, seen).desired = "stopped"
           /\ Stopping(row, seen).state \in {row.state, "STOPPING"}
<1> DEFINE x == IF seen \in Terminal THEN row.state ELSE Flushed(seen, "STOPPING", row.state)
<1>1. x \in {row.state, "STOPPING"} /\ x \in {"ACCEPTED"} \cup Open \cup Terminal
  BY DEF Flushed, GenRow, Open
<1>2. Stopping(row, seen) = [row EXCEPT !.desired = "stopped", !.state = x]
  BY DEF Stopping
<1> HIDE DEF x
<1> QED
  BY <1>1, <1>2 DEF GenRow

\* The second half of reconfigure.
LEMMA ReconfigureOK == ASSUME IInv, NEW k \in Clients, ReconfigureWrite(k) PROVE IInv'
<1>1. TypeOK /\ ApiInv /\ RowInv /\ client[k].at = "replacing"
  BY DEF IInv, ReconfigureWrite
<1>2. UNCHANGED <<requests, attempt, run, worker, native, path, rec, stale>>
  BY DEF ReconfigureWrite, process, media
<1>3. PICK s \in Sessions : s = client[k].session
  BY <1>1 DEF ApiInv, ClientsOK
<1>4. PICK n \in Numbers : n = client[k].number /\ n < MaxGenerations
  <2>1. client[k].number \in 1 .. session[s].current /\ client[k].number < MaxGenerations
    BY <1>1, <1>3 DEF ApiInv, ClientsOK
  <2>2. session[s].current \in 0 .. MaxGenerations
    BY <1>1, CurrentTyped
  <2> QED
    BY <2>1, <2>2, BoundsAssumption DEF Numbers
<1>5. n \in Nat /\ n >= 1 /\ n + 1 \in Numbers
  BY <1>4, BoundsAssumption DEF Numbers
<1>6. CASE /\ session[s].current # n /\ client' = [client EXCEPT ![k] = IdleClient] /\ UNCHANGED <<session, gen>>
  <2>1. /\ client' \in [Clients -> ClientState] /\ client'[k] = IdleClient
        /\ \A j \in Clients \ {k} : client'[j] = client[j]
    BY <1>1, <1>6, ClientValues DEF TypeOK
  <2>2. TypeOK'
    BY <1>1, <1>2, <1>6, <2>1 DEF TypeOK
  <2>3. ClientsOK'
    BY <1>1, <1>6, <2>1, ClientValues DEF ApiInv, ClientsOK
  <2> QED
    BY <1>1, <1>2, <1>6, <2>2, <2>3, ClientKept, QuietRows DEF IInv
<1>7. CASE /\ session[s].current = n /\ session' = [session EXCEPT ![s].current = n + 1]
           /\ gen' = [gen EXCEPT ![<<s, n>>] = Stopping(@, client[k].seen), ![<<s, n + 1>>] = NewGen]
           /\ Committed(k)
  <2> DEFINE new == [session[s] EXCEPT !.current = n + 1]
             old == Stopping(gen[<<s, n>>], client[k].seen)
  <2>1. <<s, n>> \in Gens /\ <<s, n + 1>> \in Gens /\ <<s, n>> # <<s, n + 1>>
    BY <1>5, Pairs
  <2>2. new \in SessionRow /\ new.current = n + 1 /\ new.desired = session[s].desired
    BY <1>1, <1>4, <1>5, BoundsAssumption DEF TypeOK, SessionRow, Numbers
  <2>3. session' = [session EXCEPT ![s] = new]
    BY <1>1, <1>7 DEF TypeOK
  <2>4. gen[<<s, n>>] \in GenRow
    BY <1>1, <2>1 DEF TypeOK
  <2>5. old \in GenRow /\ old.desired = "stopped" /\ old.state \in {gen[<<s, n>>].state, "STOPPING"}
    <3>1. PICK row \in GenRow : row = gen[<<s, n>>]
      BY <2>4
    <3>2. PICK seen : seen = client[k].seen
      OBVIOUS
    <3> QED
      BY <3>1, <3>2, StoppingTyped
  <2>6. gen' = [gen EXCEPT ![<<s, n>>] = old, ![<<s, n + 1>>] = NewGen]
    BY <1>7
  <2> HIDE DEF new, old
  <2>7. NewGen \in GenRow /\ NewGen.desired = "running" /\ NewGen.state = "ACCEPTED"
    BY DEF NewGen, GenRow
  <2>8. /\ gen' \in [Gens -> GenRow] /\ gen'[<<s, n>>] = old /\ gen'[<<s, n + 1>>] = NewGen
        /\ \A g \in Gens \ {<<s, n>>, <<s, n + 1>>} : gen'[g] = gen[g]
    BY <1>1, <2>1, <2>5, <2>6, <2>7 DEF TypeOK
  <2>9. /\ session' \in [Sessions -> SessionRow] /\ session'[s] = new
        /\ \A t \in Sessions \ {s} : session'[t] = session[t]
    BY <1>1, <2>2, <2>3 DEF TypeOK
  <2>10. /\ client' \in [Clients -> ClientState]
         /\ \A j \in Clients : client'[j] = client[j] \/ client'[j].at \in {"idle", "reconcile"}
    BY <1>1, <1>7, CommittedTyped
  <2>11. TypeOK'
    BY <1>1, <1>2, <2>8, <2>9, <2>10 DEF TypeOK
  <2>12. session[s].desired # "absent" /\ gen[<<s, n>>].desired # "absent" /\ gen[<<s, n + 1>>].desired = "absent"
    BY <1>1, <1>5, <1>7, <2>1, Pairs DEF ApiInv, SessionsOK
  <2>13. ASSUME NEW g \in Gens, g[1] = s
         PROVE  /\ gen'[g].desired = "absent" <=> g[2] > n + 1
                /\ gen'[g].desired = "running" => g[2] = n + 1
                /\ gen[g].desired = "stopped" => gen'[g].desired = "stopped"
    <3>1. g[2] \in Nat /\ (g[2] = n <=> g = <<s, n>>) /\ (g[2] = n + 1 <=> g = <<s, n + 1>>)
      BY <1>5, <2>13, Pairs
    <3>2. CASE g = <<s, n>>
      BY <1>5, <2>5, <2>8, <3>1, <3>2
    <3>3. CASE g = <<s, n + 1>>
      BY <1>5, <2>7, <2>8, <2>12, <3>1, <3>3
    <3>4. CASE g # <<s, n>> /\ g # <<s, n + 1>>
      <4>1. (gen[g].desired = "absent" <=> g[2] > n) /\ (gen[g].desired = "running" => g[2] = n)
        BY <1>1, <1>7, <2>13 DEF ApiInv, SessionsOK, OneRunning, Reconcilable
      <4> QED
        BY <1>5, <2>8, <3>1, <3>4, <4>1
    <3> QED
      BY <3>2, <3>3, <3>4
  <2>14. \A g \in Gens : g[1] # s => gen'[g].desired = gen[g].desired
    BY <1>5, <2>8, Pairs
  <2>15. ApiInv'
    <3>1. session'[s].current = n + 1 /\ session'[s].desired # "absent" /\ session'[s].current >= 1
          /\ session'[s].current >= session[s].current
      BY <1>5, <1>7, <2>2, <2>9, <2>12
    <3> QED
      BY <1>1, <1>2, <2>9, <2>10, <2>11, <2>13, <2>14, <3>1, Written
  <2>16. RowInv'
    <3>1. ASSUME NEW g \in Gens
          PROVE  /\ gen[g].desired # "absent" =>
                        gen'[g].desired # "absent" /\ gen'[g].state \in {gen[g].state, "STOPPING"}
                 /\ gen[g].desired = "absent" => gen'[g].state \in {gen[g].state, "ACCEPTED"}
      BY <2>5, <2>7, <2>8, <2>12
    <3> QED
      BY <1>1, <1>2, <3>1, RowKept
  <2> QED
    BY <2>11, <2>15, <2>16 DEF IInv
<1> QED
  BY <1>3, <1>4, <1>6, <1>7 DEF ReconfigureWrite

\* The second half of stop.
LEMMA StopOK == ASSUME IInv, NEW k \in Clients, StopWrite(k) PROVE IInv'
<1>1. TypeOK /\ ApiInv /\ RowInv /\ client[k].at = "stopping"
  BY DEF IInv, StopWrite
<1>2. UNCHANGED <<requests, attempt, run, worker, native, path, rec, stale>>
  BY DEF StopWrite, process, media
<1>3. PICK s \in Sessions : s = client[k].session
  BY <1>1 DEF ApiInv, ClientsOK
<1>4. session[s].current \in 0 .. MaxGenerations
  BY <1>1, CurrentTyped
<1>5. PICK n \in Numbers : n = client[k].number /\ n <= session[s].current
  <2>1. client[k].number \in 1 .. session[s].current
    BY <1>1, <1>3 DEF ApiInv, ClientsOK
  <2> QED
    BY <1>4, <2>1, BoundsAssumption DEF Numbers
<1> DEFINE g == <<s, n>>
           new == [session[s] EXCEPT !.desired = "stopped"]
           old == Stopping(gen[g], client[k].seen)
<1>6. g \in Gens /\ g[1] = s /\ g[2] = n /\ n \in Nat /\ n >= 1
  BY Pairs
<1>7. new \in SessionRow /\ new.current = session[s].current /\ new.desired = "stopped"
  BY <1>1 DEF TypeOK, SessionRow
<1>8. session' = [session EXCEPT ![s] = new] /\ gen' = [gen EXCEPT ![g] = old] /\ Committed(k)
  BY <1>1, <1>3, <1>5 DEF StopWrite, TypeOK
<1>9. old \in GenRow /\ old.desired = "stopped" /\ old.state \in {gen[g].state, "STOPPING"}
  <2>1. PICK row \in GenRow : row = gen[g]
    BY <1>1, <1>6 DEF TypeOK
  <2>2. PICK seen : seen = client[k].seen
    OBVIOUS
  <2> QED
    BY <2>1, <2>2, StoppingTyped
<1> HIDE DEF g, new, old
<1>10. gen' \in [Gens -> GenRow] /\ gen'[g] = old /\ \A h \in Gens \ {g} : gen'[h] = gen[h]
  BY <1>1, <1>6, <1>8, <1>9 DEF TypeOK
<1>11. /\ session' \in [Sessions -> SessionRow] /\ session'[s] = new
       /\ \A t \in Sessions \ {s} : session'[t] = session[t]
  BY <1>1, <1>7, <1>8 DEF TypeOK
<1>12. /\ client' \in [Clients -> ClientState]
       /\ \A j \in Clients : client'[j] = client[j] \/ client'[j].at \in {"idle", "reconcile"}
  BY <1>1, <1>8, CommittedTyped
<1>13. TypeOK'
  BY <1>1, <1>2, <1>10, <1>11, <1>12 DEF TypeOK
<1>14. gen[g].desired # "absent"
  BY <1>1, <1>4, <1>5, <1>6, BoundsAssumption DEF ApiInv, SessionsOK
<1>15. \A h \in Gens : h[1] # s => gen'[h].desired = gen[h].desired
  BY <1>6, <1>10
<1>16. ASSUME NEW h \in Gens, h[1] = s
       PROVE  /\ gen'[h].desired = "absent" <=> h[2] > session[s].current
              /\ gen'[h].desired = "running" => h[2] = session[s].current
              /\ gen[h].desired = "stopped" => gen'[h].desired = "stopped"
  <2>1. (gen[h].desired = "absent" <=> h[2] > session[s].current) /\ (gen[h].desired = "running" => h[2] = session[s].current)
    BY <1>1, <1>16 DEF ApiInv, SessionsOK, OneRunning, Reconcilable
  <2>2. CASE h = g
    BY <1>9, <1>10, <1>14, <2>1, <2>2
  <2>3. CASE h # g
    BY <1>10, <2>1, <2>3
  <2> QED
    BY <2>2, <2>3
<1>17. ApiInv'
  <2>1. /\ session'[s].current = session[s].current /\ session'[s].desired # "absent"
        /\ session'[s].current >= 1 /\ session'[s].current >= session[s].current
    BY <1>4, <1>5, <1>6, <1>7, <1>11, BoundsAssumption
  <2> QED
    BY <1>1, <1>2, <1>11, <1>12, <1>13, <1>15, <1>16, <2>1, Written
<1>18. RowInv'
  <2>1. ASSUME NEW h \in Gens
        PROVE  /\ gen[h].desired # "absent" => gen'[h].desired # "absent" /\ gen'[h].state \in {gen[h].state, "STOPPING"}
               /\ gen[h].desired = "absent" => gen'[h].state \in {gen[h].state, "ACCEPTED"}
    BY <1>9, <1>10, <1>14
  <2> QED
    BY <1>1, <1>2, <2>1, RowKept
<1> QED
  BY <1>13, <1>17, <1>18 DEF IInv

\* The API process dies.
LEMMA CrashApiOK == ASSUME IInv, CrashApi PROVE IInv'
<1>1. TypeOK /\ ApiInv /\ RowInv
  BY DEF IInv
<1>2. /\ UNCHANGED <<requests, session, gen, attempt, run, worker, native, path>>
      /\ client' = [k \in Clients |-> IdleClient] /\ rec' = IdleRec /\ stale' = {}
  BY DEF CrashApi, database, process
<1>3. IdleRec \in RecState /\ IdleRec.listed = {} /\ IdleRec.todo = {} /\ IdleRec.at = "idle"
  BY DEF IdleRec, RecState
<1>4. client' \in [Clients -> ClientState] /\ \A k \in Clients : client'[k].at = "idle"
  BY <1>2, ClientValues
<1>5. TypeOK'
  BY <1>1, <1>2, <1>3, <1>4 DEF TypeOK
<1>6. SessionsOK' /\ OneRunning' /\ ClientsOK'
  BY <1>1, <1>2, <1>4 DEF ApiInv, SessionsOK, OneRunning, Reconcilable, ClientsOK
<1>7. MediaOK'
  BY <1>1, <1>2, <1>3 DEF ApiInv, MediaOK
<1> QED
  BY <1>1, <1>2, <1>5, <1>6, <1>7, QuietRows DEF IInv, ApiInv

\* A pass lists what is to run: a path it has not listed belongs to a generation
\* that was stopped.
LEMMA ReconcileStartOK == ASSUME IInv, NEW k \in Clients, ReconcileStart(k) PROVE IInv'
<1>1. TypeOK /\ ApiInv /\ RowInv
  BY DEF IInv
<1>2. /\ UNCHANGED <<requests, session, gen, attempt, run, worker, native, path, stale>>
      /\ client' = [client EXCEPT ![k] = IdleClient]
      /\ rec' = [at |-> "pass", listed |-> Reconcilable, todo |-> Reconcilable, ready |-> {}]
  BY DEF ReconcileStart, database, process
<1>3. Reconcilable \subseteq Gens
  BY DEF Reconcilable
<1>4. rec' \in RecState /\ rec'.listed = Reconcilable /\ rec'.todo = Reconcilable
  BY <1>2, <1>3 DEF RecState
<1>5. /\ client' \in [Clients -> ClientState] /\ client'[k] = IdleClient
      /\ \A j \in Clients \ {k} : client'[j] = client[j]
  BY <1>1, <1>2, ClientValues DEF TypeOK
<1>6. TypeOK'
  BY <1>1, <1>2, <1>4, <1>5 DEF TypeOK
<1>7. SessionsOK' /\ OneRunning'
  BY <1>1, <1>2 DEF ApiInv, SessionsOK, OneRunning, Reconcilable
<1>8. ClientsOK'
  BY <1>1, <1>2, <1>5, ClientValues DEF ApiInv, ClientsOK
<1>9. MediaOK'
  <2>1. \A g \in path : g \in Gens /\ gen[g].desired # "absent" /\ gen[g].desired \in {"absent", "running", "stopped"}
    BY <1>1 DEF ApiInv, MediaOK, TypeOK, GenRow
  <2>2. \A g \in Reconcilable : gen[g].desired = "running"
    BY DEF Reconcilable
  <2>3. \A g \in path \ Reconcilable : gen[g].desired = "stopped"
    BY <2>1 DEF Reconcilable
  <2> QED
    BY <1>2, <1>4, <2>1, <2>2, <2>3 DEF MediaOK
<1> QED
  BY <1>1, <1>2, <1>6, <1>7, <1>8, <1>9, QuietRows DEF IInv, ApiInv

\* A path is configured, or not, for a generation of the list.
LEMMA ProvisionOK == ASSUME IInv, NEW g \in Gens, Provision(g) PROVE IInv'
<1>1. TypeOK /\ ApiInv /\ RowInv /\ g \in rec.todo /\ rec \in RecState
  BY DEF IInv, Provision, TypeOK
<1>2. UNCHANGED <<session, gen, attempt, run, worker, native, client, requests, stale>>
  BY DEF Provision, database, process, api
<1>3. path' \in {path, path \cup {g}}
  BY DEF Provision
<1>4. /\ rec' \in RecState /\ rec'.listed = rec.listed /\ rec'.at = rec.at /\ rec'.todo = rec.todo \ {g}
  <2>1. CASE rec' = [rec EXCEPT !.todo = @ \ {g}, !.ready = @ \cup {g}]
    BY <1>1, <2>1 DEF RecState
  <2>2. CASE rec' = [rec EXCEPT !.todo = @ \ {g}]
    BY <1>1, <2>2 DEF RecState
  <2> QED
    BY <2>1, <2>2 DEF Provision
<1>5. TypeOK'
  BY <1>1, <1>2, <1>3, <1>4 DEF TypeOK
<1>6. SessionsOK' /\ OneRunning' /\ ClientsOK'
  BY <1>1, <1>2 DEF ApiInv, SessionsOK, OneRunning, Reconcilable, ClientsOK
<1>7. MediaOK'
  BY <1>1, <1>2, <1>3, <1>4 DEF ApiInv, MediaOK
<1> QED
  BY <1>1, <1>2, <1>5, <1>6, <1>7, QuietRows DEF IInv, ApiInv

\* What the end of a pass writes: media_state, and no more.
LEMMA MediaOnly ==
    ASSUME TypeOK, MediaCommitted
    PROVE  /\ gen' \in [Gens -> GenRow]
           /\ \A g \in Gens : gen'[g].desired = gen[g].desired /\ gen'[g].state = gen[g].state
<1>1. ASSUME NEW g \in Gens
      PROVE  gen'[g] \in GenRow /\ gen'[g].desired = gen[g].desired /\ gen'[g].state = gen[g].state
  <2>1. gen[g] \in GenRow
    BY DEF TypeOK
  <2> DEFINE row == [gen[g] EXCEPT !.ready = g \in rec.ready]
  <2>2. row \in GenRow /\ row.desired = gen[g].desired /\ row.state = gen[g].state
    <3>1. ASSUME NEW b \in BOOLEAN
          PROVE  LET x == [gen[g] EXCEPT !.ready = b] IN
                 x \in GenRow /\ x.desired = gen[g].desired /\ x.state = gen[g].state
      BY <2>1 DEF GenRow
    <3>2. (g \in rec.ready) \in BOOLEAN
      OBVIOUS
    <3> QED
      BY <3>1, <3>2, Zenon
  <2>3. gen'[g] = IF g \in rec.listed THEN row ELSE gen[g]
    BY DEF MediaCommitted
  <2> HIDE DEF row
  <2> QED
    BY <2>1, <2>2, <2>3
<1>2. gen' = [g \in Gens |-> gen'[g]]
  BY DEF MediaCommitted
<1> QED
  BY <1>1, <1>2

\* The end of a pass, in whichever way, leaves fewer paths.
LEMMA SweepOK == ASSUME IInv, Sweep \/ SweepFails \/ ListFails PROVE IInv'
<1>1. TypeOK /\ ApiInv /\ RowInv
  BY DEF IInv
<1>2. UNCHANGED <<session, attempt, run, worker, native, client, requests>> /\ rec' = IdleRec
  BY DEF Sweep, SweepFails, ListFails, database, process, api
<1>3. /\ gen' \in [Gens -> GenRow]
      /\ \A g \in Gens : gen'[g].desired = gen[g].desired /\ gen'[g].state = gen[g].state
  <2>1. CASE UNCHANGED gen
    BY <1>1, <2>1 DEF TypeOK
  <2>2. CASE MediaCommitted
    BY <1>1, <2>2, MediaOnly
  <2> QED
    BY <2>1, <2>2 DEF Sweep, SweepFails, ListFails, database
<1>4. path' \subseteq path /\ stale' \subseteq stale \cup path
  <2>1. CASE Sweep
    BY <2>1 DEF Sweep
  <2>2. CASE SweepFails
    BY <2>2 DEF SweepFails
  <2>3. CASE ListFails
    BY <2>3 DEF ListFails
  <2> QED
    BY <2>1, <2>2, <2>3
<1>5. IdleRec \in RecState /\ IdleRec.listed = {} /\ IdleRec.todo = {} /\ IdleRec.at = "idle"
  BY DEF IdleRec, RecState
<1>6. TypeOK'
  BY <1>1, <1>2, <1>3, <1>4, <1>5 DEF TypeOK
<1>7. SessionsOK' /\ OneRunning' /\ ClientsOK'
  BY <1>1, <1>2, <1>3 DEF ApiInv, SessionsOK, OneRunning, Reconcilable, ClientsOK
<1>8. path \subseteq Gens
  BY <1>1 DEF TypeOK
<1>9. MediaOK'
  BY <1>1, <1>2, <1>3, <1>4, <1>5, <1>8 DEF ApiInv, MediaOK
<1>10. RowInv'
  BY <1>1, <1>2, <1>3, RowKept
<1> QED
  BY <1>6, <1>7, <1>9, <1>10 DEF IInv, ApiInv

\* The step of PathKept: a path that goes was not listed, so its generation is stopped.
LEMMA SweptIsStopped ==
    ASSUME IInv, Sweep \/ SweepFails PROVE \A g \in path \ path' : gen[g].desired = "stopped"
<1>1. rec.at = "pass" /\ path \ path' \subseteq path \ rec.listed
  <2>1. CASE Sweep
    BY <2>1 DEF Sweep
  <2>2. CASE SweepFails
    BY <2>2 DEF SweepFails
  <2> QED
    BY <2>1, <2>2
<1> QED
  BY <1>1 DEF IInv, ApiInv, MediaOK

-----------------------------------------------------------------------------
(* The workers.                                                            *)

\* The records that a worker can be left with.
LEMMA WorkerValues ==
    /\ IdleWorker \in WorkerState /\ IdleWorker.at = "idle" /\ IdleWorker.tx = NoTx
    /\ NoTx \in Tx
    /\ \A to \in Open \cup Terminal, seen \in {"ACCEPTED"} \cup Open \cup Terminal :
          LET tx == [to |-> to, seen |-> seen] IN tx \in Tx /\ tx # NoTx /\ tx.seen = seen /\ tx.to = to
<1>1. IdleWorker \in WorkerState /\ IdleWorker.at = "idle" /\ IdleWorker.tx = NoTx
  BY BoundsAssumption DEF IdleWorker, WorkerState, Tx
<1>2. NoTx \in Tx
  BY DEF Tx
<1>3. ASSUME NEW to \in Open \cup Terminal, NEW seen \in {"ACCEPTED"} \cup Open \cup Terminal
      PROVE  [to |-> to, seen |-> seen] \in Tx /\ [to |-> to, seen |-> seen] # NoTx
  <2>1. to # "none"
    BY DEF Open, Terminal
  <2>2. NoTx.to = "none"
    BY DEF NoTx
  <2> QED
    BY <2>1, <2>2 DEF Tx
<1> QED
  BY <1>1, <1>2, <1>3

\* A step of a worker that does not write the database: it drops its transaction
\* or keeps it, and stays with its attempt or becomes idle.
Onward(w, r) ==
    /\ worker' = [worker EXCEPT ![w] = r]
    /\ r \in WorkerState
    /\ r = IdleWorker \/ (/\ r.at # "idle" /\ Busy(w)
                          /\ r.gen = worker[w].gen /\ r.attempt = worker[w].attempt
                          /\ r.tx = NoTx \/ r.tx = worker[w].tx)

\* Such a step keeps the invariant.
LEMMA OnwardOK ==
    ASSUME IInv, NEW w \in Workers, NEW r, Onward(w, r),
           native' \in [Workers -> NativeState],
           \A v \in Workers \ {w} : native'[v] = native[v],
           r = IdleWorker => native'[w] = "none",
           UNCHANGED <<database, api, media>>
    PROVE  IInv'
<1>1. TypeOK /\ ApiInv /\ RowInv
  BY DEF IInv
<1>2. UNCHANGED <<session, gen, attempt, run, client, requests, path, rec, stale>>
  BY DEF database, api, media
<1>3. worker' \in [Workers -> WorkerState] /\ worker'[w] = r /\ \A v \in Workers \ {w} : worker'[v] = worker[v]
  BY <1>1 DEF TypeOK, Onward
<1>4. TypeOK'
  BY <1>1, <1>2, <1>3 DEF TypeOK
<1>5. ApiInv'
  BY <1>1, <1>2, ApiKept
<1>6. RowsOK' /\ StatesAgree'
  BY <1>1, <1>2 DEF RowInv, RowsOK, StatesAgree
<1>7. \A v \in Workers : worker'[v].at # "idle" =>
          Busy(v) /\ worker'[v].gen = worker[v].gen /\ worker'[v].attempt = worker[v].attempt
  BY <1>3, WorkerValues DEF Onward, Busy
<1>8. Alone'
  BY <1>1, <1>7 DEF RowInv, Alone, Busy
<1>9. ASSUME NEW v \in Workers \ {w} PROVE PlaceOK(v)' /\ HeldOK(v)'
  BY <1>1, <1>2, <1>3 DEF RowInv, PlaceOK, HeldOK, Busy, RunOf
<1>10. PlaceOK(w)' /\ HeldOK(w)'
  <2>1. CASE r = IdleWorker
    BY <1>3, <2>1, WorkerValues DEF PlaceOK, HeldOK, Busy
  <2>2. CASE r # IdleWorker
    <3>1. /\ r.at # "idle" /\ Busy(w) /\ r.gen = worker[w].gen /\ r.attempt = worker[w].attempt
          /\ r.tx = NoTx \/ r.tx = worker[w].tx
      BY <2>2 DEF Onward
    <3>2. PlaceOK(w)'
      BY <1>1, <1>2, <1>3, <3>1 DEF RowInv, PlaceOK, Busy
    <3>3. HeldOK(w)'
      BY <1>1, <1>2, <1>3, <3>1 DEF RowInv, HeldOK, RunOf
    <3> QED
      BY <3>2, <3>3
  <2> QED
    BY <2>1, <2>2
<1> QED
  BY <1>4, <1>5, <1>6, <1>8, <1>9, <1>10 DEF IInv, RowInv

\* What becomes of the child.
LEMMA NativeWrite ==
    ASSUME TypeOK, NEW w \in Workers, NEW n \in NativeState, native' = [native EXCEPT ![w] = n] \/ native' = native
    PROVE  native' \in [Workers -> NativeState] /\ \A v \in Workers \ {w} : native'[v] = native[v]
BY DEF TypeOK

\* The ends of a worker.
LEMMA EndsOK == ASSUME IInv, NEW w \in Workers, CleanUp(w) \/ Crash(w) PROVE IInv'
<1>1. TypeOK /\ "none" \in NativeState
  BY DEF IInv, NativeState
<1>2. /\ worker' = [worker EXCEPT ![w] = IdleWorker] /\ native' = [native EXCEPT ![w] = "none"]
      /\ UNCHANGED <<database, api, media>>
  BY DEF CleanUp, Crash
<1>3. native' \in [Workers -> NativeState] /\ (\A v \in Workers \ {w} : native'[v] = native[v]) /\ native'[w] = "none"
  BY <1>1, <1>2 DEF TypeOK
<1>4. Onward(w, IdleWorker)
  BY <1>2, WorkerValues DEF Onward
<1> QED
  BY <1>2, <1>3, <1>4, OnwardOK

Places == {"idle", "claimed", "running", "stop", "fail", "cleanup"}

\* A worker with a child, a monitor or a transaction is busy.
LEMMA BusyWhen ==
    ASSUME IInv, NEW w \in Workers, native[w] # "none" \/ worker[w].monitor \/ worker[w].tx # NoTx
    PROVE  Busy(w)
BY DEF IInv, RowInv, PlaceOK, IdleWorker

\* A busy worker that changes its place, its flags and its transaction is still
\* with its attempt.
LEMMA Moved ==
    ASSUME TypeOK, NEW w \in Workers, Busy(w), NEW a \in Places \ {"idle"}, NEW m \in BOOLEAN,
           NEW r, r = [worker[w] EXCEPT !.at = a, !.monitor = m] \/ r = [worker[w] EXCEPT !.at = a, !.tx = NoTx, !.monitor = m],
           worker' = [worker EXCEPT ![w] = r]
    PROVE  Onward(w, r) /\ r # IdleWorker
<1>1. worker[w] \in WorkerState
  BY DEF TypeOK
<1>2. r \in WorkerState /\ r.at = a /\ r.gen = worker[w].gen /\ r.attempt = worker[w].attempt
      /\ (r.tx = NoTx \/ r.tx = worker[w].tx)
  <2>1. CASE r = [worker[w] EXCEPT !.at = a, !.monitor = m]
    BY <1>1, <2>1 DEF WorkerState, Places
  <2>2. CASE r = [worker[w] EXCEPT !.at = a, !.tx = NoTx, !.monitor = m]
    BY <1>1, <2>2, WorkerValues DEF WorkerState, Places
  <2> QED
    BY <2>1, <2>2
<1> QED
  BY <1>2, WorkerValues DEF Onward

\* The same for its place alone, for its place and its transaction, and for the stop.
LEMMA MovedPlace ==
    ASSUME TypeOK, NEW w \in Workers, Busy(w), NEW a \in Places \ {"idle"}, NEW r,
           \/ r = [worker[w] EXCEPT !.at = a]
           \/ r = [worker[w] EXCEPT !.tx = NoTx, !.at = a]
           \/ r = [worker[w] EXCEPT !.stopSent = TRUE],
           worker' = [worker EXCEPT ![w] = r]
    PROVE  Onward(w, r) /\ r # IdleWorker
<1>1. worker[w] \in WorkerState
  BY DEF TypeOK
<1>2. r \in WorkerState /\ r.at # "idle" /\ r.gen = worker[w].gen /\ r.attempt = worker[w].attempt
      /\ (r.tx = NoTx \/ r.tx = worker[w].tx)
  <2>1. CASE r = [worker[w] EXCEPT !.at = a]
    BY <1>1, <2>1 DEF WorkerState, Places
  <2>2. CASE r = [worker[w] EXCEPT !.tx = NoTx, !.at = a]
    BY <1>1, <2>2, WorkerValues DEF WorkerState, Places
  <2>3. CASE r = [worker[w] EXCEPT !.stopSent = TRUE]
    BY <1>1, <2>3 DEF WorkerState, Busy
  <2> QED
    BY <2>1, <2>2, <2>3
<1> QED
  BY <1>2, WorkerValues DEF Onward

\* The start of the tasks.
LEMMA LaunchOK == ASSUME IInv, NEW w \in Workers, Launch(w) PROVE IInv'
<1>1. TypeOK /\ Busy(w) /\ worker[w] \in WorkerState /\ UNCHANGED <<database, api, media>>
  BY DEF IInv, Launch, Busy, TypeOK
<1>2. CASE /\ worker' = [worker EXCEPT ![w].at = "running", ![w].monitor = TRUE]
           /\ native' = [native EXCEPT ![w] = "live"]
  <2> DEFINE r == [worker[w] EXCEPT !.at = "running", !.monitor = TRUE]
  <2>1. worker' = [worker EXCEPT ![w] = r]
    BY <1>1, <1>2 DEF TypeOK
  <2>2. Onward(w, r) /\ r # IdleWorker
    BY <1>1, <2>1, Moved DEF Places
  <2>3. native' \in [Workers -> NativeState] /\ \A v \in Workers \ {w} : native'[v] = native[v]
    BY <1>1, <1>2, NativeWrite DEF NativeState
  <2> HIDE DEF r
  <2>4. PICK x : x = r
    OBVIOUS
  <2> QED
    BY <1>1, <2>2, <2>3, <2>4, OnwardOK
<1>3. CASE worker' = [worker EXCEPT ![w].at = "fail"] /\ UNCHANGED native
  <2> DEFINE r == [worker[w] EXCEPT !.at = "fail"]
  <2>1. worker' = [worker EXCEPT ![w] = r]
    BY <1>1, <1>3 DEF TypeOK
  <2>2. Onward(w, r) /\ r # IdleWorker
    BY <1>1, <2>1, MovedPlace DEF Places
  <2>3. native' \in [Workers -> NativeState] /\ \A v \in Workers \ {w} : native'[v] = native[v]
    BY <1>1, <1>3 DEF TypeOK
  <2> HIDE DEF r
  <2>4. PICK x : x = r
    OBVIOUS
  <2> QED
    BY <1>1, <2>2, <2>3, <2>4, OnwardOK
<1> QED
  BY <1>2, <1>3 DEF Launch

\* The runner is over.
LEMMA RunnerOverOK ==
    ASSUME IInv, NEW w \in Workers, Busy(w), NEW at \in {"stop", "fail"}, RunnerOver(w, at),
           UNCHANGED <<database, api, media>>
    PROVE  IInv'
<1>1. TypeOK /\ worker[w] \in WorkerState
  BY DEF IInv, TypeOK
<1>2. PICK a \in Places \ {"idle"} : a = IF worker[w].at = "running" THEN at ELSE worker[w].at
  BY <1>1 DEF Busy, WorkerState, Places
<1>3. (worker[w].monitor /\ at = "fail") \in BOOLEAN
  OBVIOUS
<1>4. worker' = [worker EXCEPT ![w].at = a, ![w].tx = NoTx, ![w].monitor = worker[w].monitor /\ at = "fail"]
  BY <1>2 DEF RunnerOver
<1>5. PICK m \in BOOLEAN : worker' = [worker EXCEPT ![w].at = a, ![w].tx = NoTx, ![w].monitor = m]
  BY <1>3, <1>4, Zenon
<1> DEFINE r == [worker[w] EXCEPT !.at = a, !.tx = NoTx, !.monitor = m]
<1>6. worker' = [worker EXCEPT ![w] = r]
  BY <1>1, <1>5 DEF TypeOK
<1>7. Onward(w, r) /\ r # IdleWorker
  BY <1>1, <1>6, Moved
<1>8. native' \in [Workers -> NativeState] /\ \A v \in Workers \ {w} : native'[v] = native[v]
  BY <1>1, NativeWrite DEF RunnerOver, NativeState
<1> HIDE DEF r
<1>9. PICK x : x = r
  OBVIOUS
<1> QED
  BY <1>7, <1>8, <1>9, OnwardOK

\* The ends of the runner.
LEMMA RunnerOK ==
    ASSUME IInv, NEW w \in Workers, PersistUnfenced(w) \/ RunnerEnds(w) \/ RunnerRaises(w) PROVE IInv'
<1>1. native[w] # "none"
  BY DEF PersistUnfenced, RunnerEnds, RunnerRaises
<1>2. PICK at \in {"stop", "fail"} : RunnerOver(w, at) /\ UNCHANGED <<database, api, media>>
  BY DEF PersistUnfenced, RunnerEnds, RunnerRaises
<1> QED
  BY <1>1, <1>2, BusyWhen, RunnerOverOK

\* A transaction that the database rejects.
LEMMA TxFailsOK == ASSUME IInv, NEW w \in Workers, TxFails(w) PROVE IInv'
<1>1. TypeOK /\ worker[w] \in WorkerState /\ UNCHANGED <<database, api, media>> /\ Busy(w)
  BY BusyWhen DEF IInv, TypeOK, TxFails
<1>2. CASE RunnerOver(w, "fail")
  BY <1>1, <1>2, RunnerOverOK
<1>3. CASE /\ worker' = [worker EXCEPT ![w].tx = NoTx, ![w].at = IF @ = "stop" THEN "fail" ELSE "cleanup"]
           /\ UNCHANGED native
  <2>1. PICK a \in Places \ {"idle"} : a = IF worker[w].at = "stop" THEN "fail" ELSE "cleanup"
    BY DEF Places
  <2> DEFINE r == [worker[w] EXCEPT !.tx = NoTx, !.at = a]
  <2>2. worker' = [worker EXCEPT ![w] = r]
    BY <1>1, <1>3, <2>1 DEF TypeOK
  <2>3. Onward(w, r) /\ r # IdleWorker
    BY <1>1, <2>2, MovedPlace
  <2>4. native' \in [Workers -> NativeState] /\ \A v \in Workers \ {w} : native'[v] = native[v]
    BY <1>1, <1>3 DEF TypeOK
  <2> HIDE DEF r
  <2>5. PICK x : x = r
    OBVIOUS
  <2> QED
    BY <1>1, <2>3, <2>4, <2>5, OnwardOK
<1> QED
  BY <1>2, <1>3 DEF TxFails

\* The rounds of the monitor.
LEMMA MonitorOK == ASSUME IInv, NEW w \in Workers, Monitor(w) \/ MonitorRaises(w) PROVE IInv'
<1>1. TypeOK /\ worker[w] \in WorkerState /\ UNCHANGED <<database, api, media>> /\ Busy(w)
  BY BusyWhen DEF IInv, TypeOK, Monitor, MonitorRaises
<1>2. CASE worker' = [worker EXCEPT ![w].stopSent = TRUE] /\ UNCHANGED native
  <2> DEFINE r == [worker[w] EXCEPT !.stopSent = TRUE]
  <2>1. worker' = [worker EXCEPT ![w] = r]
    BY <1>1, <1>2 DEF TypeOK
  <2>2. Onward(w, r) /\ r # IdleWorker
    <3>1. PICK a : a \in Places \ {"idle"}
      BY DEF Places
    <3> QED
      BY <1>1, <2>1, <3>1, MovedPlace
  <2>3. native' \in [Workers -> NativeState] /\ \A v \in Workers \ {w} : native'[v] = native[v]
    BY <1>1, <1>2 DEF TypeOK
  <2> HIDE DEF r
  <2>4. PICK x : x = r
    OBVIOUS
  <2> QED
    BY <1>1, <2>2, <2>3, <2>4, OnwardOK
<1>3. ASSUME NEW b \in {"cleanup", "fail"},
             worker' = [worker EXCEPT ![w].monitor = FALSE, ![w].at = IF @ = "running" THEN b ELSE @],
             native' = [native EXCEPT ![w] = "none"] \/ native' = native
      PROVE  IInv'
  <2>1. PICK a \in Places \ {"idle"} : a = IF worker[w].at = "running" THEN b ELSE worker[w].at
    BY <1>1 DEF Busy, WorkerState, Places
  <2> DEFINE r == [worker[w] EXCEPT !.at = a, !.monitor = FALSE]
  <2>2. worker' = [worker EXCEPT ![w] = r]
    <3>1. worker' = [worker EXCEPT ![w].monitor = FALSE, ![w].at = a]
      BY <1>1, <1>3, <2>1 DEF TypeOK
    <3> QED
      BY <1>1, <3>1 DEF TypeOK, WorkerState
  <2>3. Onward(w, r) /\ r # IdleWorker
    BY <1>1, <2>2, Moved
  <2>4. native' \in [Workers -> NativeState] /\ \A v \in Workers \ {w} : native'[v] = native[v]
    BY <1>1, <1>3, NativeWrite DEF NativeState
  <2> HIDE DEF r
  <2>5. PICK x : x = r
    OBVIOUS
  <2> QED
    BY <1>1, <2>3, <2>4, <2>5, OnwardOK
<1>4. native' = [native EXCEPT ![w] = IF worker[w].at = "running" THEN "none" ELSE @]
        => native' = [native EXCEPT ![w] = "none"] \/ native' = native
  BY <1>1 DEF TypeOK
<1> QED
  BY <1>2, <1>3, <1>4 DEF Monitor, MonitorRaises

\* A finish that finds its lease gone.
LEMMA FinishUnfencedOK == ASSUME IInv, NEW w \in Workers, FinishUnfenced(w) PROVE IInv'
<1>1. /\ TypeOK /\ worker[w] \in WorkerState /\ UNCHANGED <<database, native, api, media>> /\ Busy(w)
      /\ worker' = [worker EXCEPT ![w].at = "cleanup"]
  BY DEF IInv, TypeOK, FinishUnfenced, Busy
<1> DEFINE r == [worker[w] EXCEPT !.at = "cleanup"]
<1>2. worker' = [worker EXCEPT ![w] = r]
  BY <1>1 DEF TypeOK
<1>3. Onward(w, r) /\ r # IdleWorker
  BY <1>1, <1>2, MovedPlace DEF Places
<1>4. native' \in [Workers -> NativeState] /\ \A v \in Workers \ {w} : native'[v] = native[v]
  BY <1>1 DEF TypeOK
<1> HIDE DEF r
<1>5. PICK x : x = r
  OBVIOUS
<1> QED
  BY <1>1, <1>3, <1>4, <1>5, OnwardOK

\* The child exits.
LEMMA NativeExitsOK ==
    ASSUME IInv, NEW w \in Workers, NEW how \in {"stopped", "dead"}, NativeExits(w, how) PROVE IInv'
<1>1. TypeOK /\ worker[w] \in WorkerState /\ worker \in [Workers -> WorkerState] /\ Busy(w)
  BY BusyWhen DEF IInv, TypeOK, NativeExits
<1>2. UNCHANGED <<database, worker, api, media>> /\ native' = [native EXCEPT ![w] = how]
  BY DEF NativeExits
<1>3. native' \in [Workers -> NativeState] /\ \A v \in Workers \ {w} : native'[v] = native[v]
  BY <1>1, <1>2, NativeWrite DEF NativeState
<1>4. Onward(w, worker[w]) /\ worker[w] # IdleWorker
  BY <1>1, <1>2, WorkerValues DEF Onward, Busy
<1>5. PICK x : x = worker[w]
  OBVIOUS
<1> QED
  BY <1>2, <1>3, <1>4, <1>5, OnwardOK

\* The attempt of a busy worker.
LEMMA OwnRow ==
    ASSUME IInv, NEW w \in Workers, Busy(w)
    PROVE  /\ worker[w].gen \in Gens /\ worker[w].attempt \in Attempts
           /\ RunOf(w) \in RunRow /\ gen[worker[w].gen] \in GenRow
           /\ Fenced(w) => RunOf(w).state \in Open /\ worker[w].attempt = attempt[worker[w].gen]
<1>1. worker[w].gen \in Gens /\ worker[w].attempt \in 1 .. attempt[worker[w].gen]
  BY DEF IInv, RowInv, PlaceOK
<1>2. attempt[worker[w].gen] \in 0 .. MaxAttempts
  BY <1>1 DEF IInv, TypeOK
<1>3. worker[w].attempt \in Attempts
  BY <1>1, <1>2, BoundsAssumption DEF Attempts
<1>4. RunOf(w) \in RunRow /\ gen[worker[w].gen] \in GenRow
  BY <1>1, <1>3 DEF IInv, TypeOK, RunOf
<1>5. Fenced(w) => RunOf(w).state \in Open /\ worker[w].attempt = attempt[worker[w].gen]
  BY <1>1, <1>3 DEF IInv, RowInv, RowsOK, Fenced, RunOf
<1> QED
  BY <1>1, <1>3, <1>4, <1>5

\* A generation whose newest attempt is open does not call itself over.
LEMMA OpenNotOver ==
    ASSUME IInv, NEW g \in Gens, attempt[g] > 0, run[g][attempt[g]].state \in Open
    PROVE  gen[g].state \notin Terminal
BY DEF IInv, RowInv, StatesAgree

\* A transaction begins on an attempt whose lease is live.
LEMMA BeginOK ==
    ASSUME IInv, NEW w \in Workers, Busy(w), NEW to \in Open \cup Terminal, Begin(w, to) PROVE IInv'
<1>1. TypeOK /\ ApiInv /\ RowInv /\ worker[w] \in WorkerState
  BY DEF IInv, TypeOK
<1>2. UNCHANGED <<session, gen, attempt, run, native, client, requests, path, rec, stale>>
  BY DEF Begin, database, api, media
<1>3. PICK g \in Gens : g = worker[w].gen
  BY OwnRow
<1>4. PICK seen \in {"ACCEPTED"} \cup Open \cup Terminal : seen = gen[g].state
  BY <1>1 DEF TypeOK, GenRow
<1>5. worker[w].attempt = attempt[g] /\ worker[w].attempt \in Attempts /\ run[g][attempt[g]].state \in Open
  BY <1>3, OwnRow DEF Begin, RunOf
<1>6. seen \notin Terminal
  BY <1>3, <1>4, <1>5, OpenNotOver DEF Attempts
<1> DEFINE tx == [to |-> to, seen |-> seen]
           r == [worker[w] EXCEPT !.tx = tx]
<1>7. tx \in Tx /\ tx # NoTx /\ tx.seen = seen
  BY WorkerValues
<1>8. worker' = [worker EXCEPT ![w].tx = tx]
  BY <1>3, <1>4 DEF Begin
<1> HIDE DEF tx
<1>9. worker' = [worker EXCEPT ![w] = r]
  BY <1>1, <1>8 DEF TypeOK
<1>10. /\ r \in WorkerState /\ r.at = worker[w].at /\ r.gen = worker[w].gen /\ r.attempt = worker[w].attempt
       /\ r.tx = tx
  BY <1>1, <1>7 DEF WorkerState
<1> HIDE DEF r
<1>11. worker' \in [Workers -> WorkerState] /\ worker'[w] = r /\ \A v \in Workers \ {w} : worker'[v] = worker[v]
  BY <1>1, <1>9, <1>10 DEF TypeOK
<1>12. TypeOK'
  BY <1>1, <1>2, <1>11 DEF TypeOK
<1>13. ApiInv'
  BY <1>1, <1>2, ApiKept
<1>14. RowsOK' /\ StatesAgree'
  BY <1>1, <1>2 DEF RowInv, RowsOK, StatesAgree
<1>15. Alone'
  BY <1>1, <1>10, <1>11 DEF RowInv, Alone, Busy
<1>16. ASSUME NEW v \in Workers \ {w} PROVE PlaceOK(v)' /\ HeldOK(v)'
  BY <1>1, <1>2, <1>11 DEF RowInv, PlaceOK, HeldOK, Busy, RunOf
<1>17. PlaceOK(w)'
  BY <1>1, <1>2, <1>10, <1>11 DEF RowInv, PlaceOK, Busy
<1>18. HeldOK(w)'
  BY <1>2, <1>3, <1>4, <1>5, <1>6, <1>7, <1>10, <1>11 DEF HeldOK, RunOf
<1> QED
  BY <1>12, <1>13, <1>14, <1>15, <1>16, <1>17, <1>18 DEF IInv, RowInv

\* State events and the finish.
LEMMA BeginsOK ==
    ASSUME IInv, NEW w \in Workers, FinishBegin(w) \/ \E state \in Reported : PersistBegin(w, state) PROVE IInv'
<1>1. CASE FinishBegin(w)
  <2>1. Busy(w)
    BY <1>1 DEF FinishBegin, Busy
  <2>2. PICK to \in Open \cup Terminal : Begin(w, to)
    BY <1>1 DEF FinishBegin, Terminal
  <2> QED
    BY <2>1, <2>2, BeginOK
<1>2. CASE \E state \in Reported : PersistBegin(w, state)
  <2>1. PICK to \in Open \cup Terminal : Begin(w, to) /\ native[w] # "none"
    BY <1>2, ReportedAssumption DEF PersistBegin, Open
  <2> QED
    BY <2>1, BusyWhen, BeginOK
<1> QED
  BY <1>1, <1>2

\* One row of the attempts is written.
LEMMA RowWritten ==
    ASSUME TypeOK, RowsOK, UNCHANGED attempt, NEW g \in Gens, NEW a \in Attempts, NEW row \in RunRow,
           run' = [run EXCEPT ![g][a] = row],
           row.state \in Open => a = attempt[g],
           row.lease = "live" => row.state \in Open
    PROVE  /\ run' \in [Gens -> [Attempts -> RunRow]] /\ RowsOK' /\ run'[g][a] = row
           /\ \A h \in Gens : h # g => run'[h] = run[h]
           /\ \A b \in Attempts : b # a => run'[g][b] = run[g][b]
<1>1. run \in [Gens -> [Attempts -> RunRow]]
  BY DEF TypeOK
<1>2. run' \in [Gens -> [Attempts -> RunRow]]
  BY <1>1
<1>3. ASSUME NEW h \in Gens, NEW b \in Attempts
      PROVE  IF h = g /\ b = a THEN run'[h][b] = row ELSE run'[h][b] = run[h][b]
  BY <1>1
<1>4. \A h \in Gens : h # g => run'[h] = run[h]
  BY <1>1
<1> QED
  BY <1>2, <1>3, <1>4 DEF RowsOK

\* What update_run_state and finish_run leave of a row.
LEMMA RunWrittenTyped ==
    ASSUME NEW row \in RunRow, NEW to \in Open \cup Terminal
    PROVE  /\ RunWritten(row, to) \in RunRow /\ RunWritten(row, to).state = to
           /\ to \in Terminal => RunWritten(row, to).lease = "none"
<1>1. CASE to \in Terminal
  BY <1>1 DEF RunWritten, RunRow
<1>2. CASE to \notin Terminal
  BY <1>2 DEF RunWritten, RunRow
<1> QED
  BY <1>1, <1>2

\* The rows of a transaction in progress, and what its commit writes.
LEMMA CommitFacts ==
    ASSUME IInv, NEW w \in Workers, Commit(w)
    PROVE  \E g \in Gens, a \in Attempts, to \in Open \cup Terminal, row \in RunRow,
              x \in {"ACCEPTED"} \cup Open \cup Terminal :
              /\ g = worker[w].gen /\ a = worker[w].attempt /\ a = attempt[g] /\ to = worker[w].tx.to
              /\ run[g][a].state \in Open
              /\ row.state = to /\ (to \in Terminal => row.lease = "none")
              /\ run' = [run EXCEPT ![g][a] = row]
              /\ gen' = [gen EXCEPT ![g].state = x]
              /\ x = to \/ (x = gen[g].state /\ gen[g].state \in {to, "STOPPING"} /\ to \notin Terminal)
<1>1. TypeOK /\ worker[w] \in WorkerState /\ worker[w].tx # NoTx /\ Busy(w) /\ HeldOK(w)
  BY BusyWhen DEF IInv, TypeOK, Commit, RowInv
<1>2. PICK g \in Gens, a \in Attempts : /\ g = worker[w].gen /\ a = worker[w].attempt
                                        /\ run[g][a] \in RunRow /\ gen[g] \in GenRow
  BY <1>1, OwnRow DEF RunOf
<1>3. PICK to \in Open \cup Terminal : to = worker[w].tx.to
  BY <1>1 DEF WorkerState, Tx
<1>4. a = attempt[g] /\ run[g][a].state \in Open
  BY <1>1, <1>2 DEF HeldOK, RunOf
<1>5. PICK row \in RunRow : row = RunWritten(run[g][a], to)
  BY <1>2, RunWrittenTyped
<1>6. row.state = to /\ (to \in Terminal => row.lease = "none")
  <2>1. PICK old \in RunRow : old = run[g][a]
    BY <1>2
  <2> QED
    BY <1>5, <2>1, RunWrittenTyped
<1>7. run' = [run EXCEPT ![g][a] = row]
  BY <1>1, <1>2, <1>3, <1>5 DEF Commit, TypeOK
<1>8. PICK x \in {"ACCEPTED"} \cup Open \cup Terminal : x = Flushed(worker[w].tx.seen, to, gen[g].state)
  BY <1>2 DEF Flushed, GenRow
<1>9. x = to \/ (x = gen[g].state /\ gen[g].state \in {to, "STOPPING"} /\ to \notin Terminal)
  BY <1>1, <1>2, <1>8 DEF Flushed, HeldOK
<1>10. gen' = [gen EXCEPT ![g].state = x]
  BY <1>1, <1>2, <1>3, <1>8 DEF Commit, TypeOK
<1> QED
  BY <1>2, <1>3, <1>4, <1>6, <1>7, <1>9, <1>10

\* A write to the state of a generation.
LEMMA StateWritten ==
    ASSUME TypeOK, NEW g \in Gens, NEW x \in {"ACCEPTED"} \cup Open \cup Terminal, gen' = [gen EXCEPT ![g].state = x]
    PROVE  /\ gen' \in [Gens -> GenRow] /\ gen'[g].state = x /\ \A h \in Gens \ {g} : gen'[h] = gen[h]
           /\ \A h \in Gens : gen'[h].desired = gen[h].desired
<1> DEFINE row == [gen[g] EXCEPT !.state = x]
<1>1. gen[g] \in GenRow
  BY DEF TypeOK
<1>2. row \in GenRow /\ row.state = x /\ row.desired = gen[g].desired
  BY <1>1 DEF GenRow
<1>3. gen' = [gen EXCEPT ![g] = row]
  BY DEF TypeOK
<1> HIDE DEF row
<1> QED
  BY <1>2, <1>3 DEF TypeOK

\* The commit of a state event or of a finish.  Its attempt is still the newest
\* and the generation was at most stopped since it was read, so that the two rows
\* agree again.
LEMMA CommitOK == ASSUME IInv, NEW w \in Workers, Commit(w) PROVE IInv'
<1>1. TypeOK /\ ApiInv /\ RowInv /\ worker[w] \in WorkerState /\ worker[w].tx # NoTx /\ Busy(w)
  BY BusyWhen DEF IInv, TypeOK, Commit
<1>2. UNCHANGED <<session, attempt, native, client, requests, path, rec, stale>>
  BY DEF Commit, api, media
<1>3. PICK g \in Gens, a \in Attempts, to \in Open \cup Terminal, row \in RunRow,
           x \in {"ACCEPTED"} \cup Open \cup Terminal :
              /\ g = worker[w].gen /\ a = worker[w].attempt /\ a = attempt[g] /\ to = worker[w].tx.to
              /\ run[g][a].state \in Open
              /\ row.state = to /\ (to \in Terminal => row.lease = "none")
              /\ run' = [run EXCEPT ![g][a] = row]
              /\ gen' = [gen EXCEPT ![g].state = x]
              /\ x = to \/ (x = gen[g].state /\ gen[g].state \in {to, "STOPPING"} /\ to \notin Terminal)
  BY CommitFacts
<1>4. /\ gen' \in [Gens -> GenRow] /\ gen'[g].state = x /\ \A h \in Gens \ {g} : gen'[h] = gen[h]
      /\ \A h \in Gens : gen'[h].desired = gen[h].desired
  BY <1>1, <1>3, StateWritten, ZenonT(30)
<1>5. /\ to \in Open \/ to \in Terminal
      /\ a = attempt[g] /\ row.state = to /\ (to \in Terminal => row.lease = "none")
      /\ x = to \/ (x = gen[g].state /\ gen[g].state \in {to, "STOPPING"} /\ to \notin Terminal)
  BY <1>3
<1>6. /\ run' \in [Gens -> [Attempts -> RunRow]] /\ RowsOK' /\ run'[g][a] = row
      /\ \A h \in Gens : h # g => run'[h] = run[h]
      /\ \A b \in Attempts : b # a => run'[g][b] = run[g][b]
  <2>1. RowsOK /\ UNCHANGED attempt
    BY <1>1, <1>2 DEF RowInv
  <2>2. row.state \in Open => a = attempt[g]
    BY <1>5
  <2>3. row.lease = "live" => row.state \in Open
    BY <1>5
  <2>4. run' = [run EXCEPT ![g][a] = row]
    BY <1>3
  <2> QED
    BY <1>1, <2>1, <2>2, <2>3, <2>4, RowWritten, ZenonT(30)
<1>7. PICK p \in Places \ {"idle"} : p = IF to \in Terminal THEN "cleanup" ELSE worker[w].at
  BY <1>1 DEF Busy, WorkerState, Places
<1> DEFINE r == [worker[w] EXCEPT !.tx = NoTx, !.at = p]
<1>8. worker' = [worker EXCEPT ![w] = r]
  <2>1. worker' = [worker EXCEPT ![w].tx = NoTx, ![w].at = p]
    BY <1>1, <1>3, <1>7 DEF Commit, TypeOK
  <2> QED
    BY <1>1, <2>1 DEF TypeOK
<1>9. /\ r \in WorkerState /\ r.at # "idle" /\ r.gen = worker[w].gen /\ r.attempt = worker[w].attempt
      /\ r.tx = NoTx
  BY <1>1, WorkerValues DEF WorkerState, Places
<1> HIDE DEF r
<1>10. worker' \in [Workers -> WorkerState] /\ worker'[w] = r /\ \A v \in Workers \ {w} : worker'[v] = worker[v]
  BY <1>1, <1>8, <1>9 DEF TypeOK
<1>11. TypeOK'
  BY <1>1, <1>2, <1>4, <1>6, <1>10 DEF TypeOK
<1>12. ApiInv'
  BY <1>1, <1>2, <1>4, ApiKept
<1>13. StatesAgree'
  <2>1. ASSUME NEW h \in Gens
        PROVE  LET live == attempt[h] > 0 /\ run'[h][attempt[h]].state \in Open IN
               /\ gen'[h].state \in {"STARTING", "ACTIVE", "RECONNECTING"} => live
               /\ gen'[h].state \in Terminal => ~live
    <3>1. CASE h # g
      BY <1>1, <1>4, <1>6, <3>1 DEF RowInv, StatesAgree
    <3>2. CASE h = g
      <4>1. attempt[g] > 0 /\ run'[g][attempt[g]].state = to
        <5>1. run'[g][attempt[g]] = row /\ row.state = to
          BY <1>5, <1>6, Zenon
        <5>2. a > 0
          BY DEF Attempts
        <5> QED
          BY <1>5, <5>1, <5>2
      <4>2. \A t \in Open : t \notin Terminal
        BY DEF Open, Terminal
      <4>3. {"STARTING", "ACTIVE", "RECONNECTING"} \subseteq Open /\ "STOPPING" \in Open
        BY DEF Open
      <4>4. gen'[g].state = x
        BY <1>4
      <4> QED
        BY <1>5, <3>2, <4>1, <4>2, <4>3, <4>4
    <3> QED
      BY <3>1, <3>2
  <2> QED
    BY <1>2, <2>1 DEF StatesAgree
<1>14. Alone'
  BY <1>1, <1>9, <1>10 DEF RowInv, Alone, Busy
<1>15. ASSUME NEW v \in Workers \ {w} PROVE PlaceOK(v)' /\ HeldOK(v)'
  <2>1. PlaceOK(v)'
    BY <1>1, <1>2, <1>4, <1>10 DEF RowInv, PlaceOK, Busy
  <2>2. HeldOK(v)'
    <3>1. CASE worker[v].tx = NoTx
      BY <1>10, <3>1 DEF HeldOK
    <3>2. CASE worker[v].tx # NoTx
      <4>1. Busy(v) /\ HeldOK(v)
        BY <1>1, <3>2, BusyWhen DEF RowInv
      <4>2. PICK h \in Gens : h = worker[v].gen
        BY <4>1, OwnRow
      <4>3. h # g
        BY <1>1, <1>3, <3>2, <4>1, <4>2 DEF RowInv, Alone, HeldOK
      <4> QED
        BY <1>2, <1>4, <1>6, <1>10, <3>2, <4>1, <4>2, <4>3 DEF HeldOK, RunOf
    <3> QED
      BY <3>1, <3>2
  <2> QED
    BY <2>1, <2>2
<1>16. PlaceOK(w)' /\ HeldOK(w)'
  BY <1>1, <1>2, <1>4, <1>9, <1>10 DEF RowInv, PlaceOK, HeldOK, Busy
<1> QED
  BY <1>6, <1>11, <1>12, <1>13, <1>14, <1>15, <1>16 DEF IInv, RowInv

\* What claim_generation writes to the attempts of a generation.
Claimed(g) ==
    [a \in Attempts |->
        IF a = attempt[g] + 1 THEN [state |-> "STARTING", lease |-> "live"]
        ELSE IF a = attempt[g] THEN Abandoned(run[g][a]) ELSE run[g][a]]

\* After a claim the new attempt is open and no other is.
LEMMA NextAttempt ==
    ASSUME TypeOK, RowsOK, NEW g \in Gens, attempt[g] < MaxAttempts
    PROVE  /\ attempt[g] \in Nat /\ attempt[g] + 1 \in Attempts
           /\ Claimed(g) \in [Attempts -> RunRow]
           /\ Claimed(g)[attempt[g] + 1].state = "STARTING"
           /\ \A a \in Attempts : Claimed(g)[a].state \in Open => a = attempt[g] + 1
           /\ \A a \in Attempts : Claimed(g)[a].lease = "live" => Claimed(g)[a].state \in Open
<1>1. attempt[g] \in Nat /\ attempt[g] + 1 \in Attempts
  BY BoundsAssumption DEF TypeOK, Attempts
<1>2. ASSUME NEW a \in Attempts
      PROVE  /\ Claimed(g)[a] \in RunRow
             /\ a = attempt[g] + 1 => Claimed(g)[a].state = "STARTING"
             /\ Claimed(g)[a].state \in Open => a = attempt[g] + 1
             /\ Claimed(g)[a].lease = "live" => Claimed(g)[a].state \in Open
  <2>1. run[g][a] \in RunRow /\ (run[g][a].state \in Open => a = attempt[g])
        /\ (run[g][a].lease = "live" => run[g][a].state \in Open)
    BY DEF TypeOK, RowsOK
  <2>2. CASE a = attempt[g] + 1
    BY <2>2 DEF Claimed, RunRow, Open
  <2>3. CASE a = attempt[g]
    <3>1. Claimed(g)[a] = Abandoned(run[g][a])
      BY <1>1, <2>3 DEF Claimed
    <3> QED
      BY <1>1, <2>1, <2>3, <3>1 DEF Abandoned, RunRow, Open, Terminal
  <2>4. CASE a # attempt[g] + 1 /\ a # attempt[g]
    BY <2>1, <2>4 DEF Claimed
  <2> QED
    BY <2>2, <2>3, <2>4
<1>3. Claimed(g) = [a \in Attempts |-> Claimed(g)[a]]
  BY DEF Claimed
<1> QED
  BY <1>1, <1>2, <1>3

\* claim_generation: no transaction holds the newest attempt, so none is cut off.
LEMMA ClaimOK == ASSUME IInv, NEW w \in Workers, Claim(w) PROVE IInv'
<1>1. TypeOK /\ ApiInv /\ RowInv /\ worker[w].at = "idle"
  BY DEF IInv, Claim
<1>2. UNCHANGED <<session, native, client, requests, path, rec, stale>>
  BY DEF Claim, api, media
<1> DEFINE r(g) == [IdleWorker EXCEPT !.at = "claimed", !.gen = g, !.attempt = attempt[g] + 1]
<1>3. PICK g \in Gens :
         /\ gen[g].desired = "running" /\ ~RunLocked(g) /\ attempt[g] < MaxAttempts
         /\ attempt' = [attempt EXCEPT ![g] = @ + 1]
         /\ run' = [run EXCEPT ![g] = Claimed(g)]
         /\ gen' = [gen EXCEPT ![g].state = "STARTING"]
         /\ worker' = [worker EXCEPT ![w] = r(g)]
  BY DEF Claim, Claimed
<1>4. /\ attempt[g] \in Nat /\ attempt[g] + 1 \in Attempts
      /\ Claimed(g) \in [Attempts -> RunRow]
      /\ Claimed(g)[attempt[g] + 1].state = "STARTING"
      /\ \A a \in Attempts : Claimed(g)[a].state \in Open => a = attempt[g] + 1
      /\ \A a \in Attempts : Claimed(g)[a].lease = "live" => Claimed(g)[a].state \in Open
  BY <1>1, <1>3, NextAttempt DEF RowInv
<1>5. /\ gen' \in [Gens -> GenRow] /\ gen'[g].state = "STARTING" /\ \A h \in Gens \ {g} : gen'[h] = gen[h]
      /\ \A h \in Gens : gen'[h].desired = gen[h].desired
  <2>1. PICK x \in {"ACCEPTED"} \cup Open \cup Terminal : x = "STARTING"
    BY DEF Open
  <2> QED
    BY <1>1, <1>3, <2>1, StateWritten
<1>6. /\ r(g) \in WorkerState /\ r(g).at = "claimed" /\ r(g).gen = g /\ r(g).attempt = attempt[g] + 1
      /\ r(g).tx = NoTx
  <2>1. /\ g \in Gens \cup {NoGen} /\ attempt[g] + 1 \in 0 .. MaxAttempts /\ NoTx \in Tx
        /\ "claimed" \in Places
    BY <1>4, BoundsAssumption, WorkerValues DEF Attempts, Places
  <2>2. PICK n \in 0 .. MaxAttempts : n = attempt[g] + 1
    BY <2>1
  <2>3. PICK idle \in WorkerState : idle = IdleWorker /\ idle.tx = NoTx
    BY WorkerValues
  <2>4. LET x == [idle EXCEPT !.at = "claimed", !.gen = g, !.attempt = n] IN
        x \in WorkerState /\ x.at = "claimed" /\ x.gen = g /\ x.attempt = n /\ x.tx = idle.tx
    BY <2>1 DEF WorkerState, Places
  <2>5. r(g) = [idle EXCEPT !.at = "claimed", !.gen = g, !.attempt = n]
    BY <2>2, <2>3
  <2> QED
    BY <2>2, <2>3, <2>4, <2>5, Zenon
<1> HIDE DEF r
<1>7. worker' \in [Workers -> WorkerState] /\ worker'[w] = r(g) /\ \A v \in Workers \ {w} : worker'[v] = worker[v]
  BY <1>1, <1>3, <1>6 DEF TypeOK
<1>8. /\ attempt' \in [Gens -> 0 .. MaxAttempts] /\ attempt'[g] = attempt[g] + 1
      /\ \A h \in Gens \ {g} : attempt'[h] = attempt[h]
  BY <1>1, <1>3, <1>4, BoundsAssumption DEF TypeOK, Attempts
<1>9. run' \in [Gens -> [Attempts -> RunRow]] /\ run'[g] = Claimed(g) /\ \A h \in Gens \ {g} : run'[h] = run[h]
  BY <1>1, <1>3, <1>4 DEF TypeOK
<1>10. TypeOK'
  BY <1>1, <1>2, <1>5, <1>7, <1>8, <1>9 DEF TypeOK
<1>11. ApiInv'
  BY <1>1, <1>2, <1>5, ApiKept
<1>12. RowsOK'
  <2>1. ASSUME NEW h \in Gens, NEW a \in Attempts
        PROVE  (run'[h][a].state \in Open => a = attempt'[h]) /\ (run'[h][a].lease = "live" => run'[h][a].state \in Open)
    <3>1. CASE h = g
      BY <1>4, <1>8, <1>9, <3>1
    <3>2. CASE h # g
      BY <1>1, <1>8, <1>9, <3>2 DEF RowInv, RowsOK
    <3> QED
      BY <3>1, <3>2
  <2> QED
    BY <2>1 DEF RowsOK
<1>13. StatesAgree'
  <2>1. ASSUME NEW h \in Gens
        PROVE  LET live == attempt'[h] > 0 /\ run'[h][attempt'[h]].state \in Open IN
               /\ gen'[h].state \in {"STARTING", "ACTIVE", "RECONNECTING"} => live
               /\ gen'[h].state \in Terminal => ~live
    <3>1. CASE h # g
      BY <1>1, <1>5, <1>8, <1>9, <3>1 DEF RowInv, StatesAgree
    <3>2. CASE h = g
      BY <1>4, <1>5, <1>8, <1>9, <3>2 DEF Open, Terminal
    <3> QED
      BY <3>1, <3>2
  <2> QED
    BY <2>1 DEF StatesAgree
<1>14. ASSUME NEW v \in Workers \ {w}, Busy(v)
       PROVE  /\ worker[v].gen \in Gens /\ gen[worker[v].gen].desired # "absent"
              /\ worker[v].attempt \in 1 .. attempt[worker[v].gen]
              /\ worker[v].gen = g => worker[v].attempt # attempt[g] + 1
  BY <1>1, <1>4, <1>14 DEF RowInv, PlaceOK
<1>15. Alone'
  <2>1. ASSUME NEW u \in Workers, NEW v \in Workers, u # v, Busy(u)', Busy(v)', worker'[u].gen = worker'[v].gen
        PROVE  worker'[u].attempt # worker'[v].attempt
    <3>1. CASE u = w
      BY <1>6, <1>7, <1>14, <2>1, <3>1 DEF Busy
    <3>2. CASE v = w
      BY <1>6, <1>7, <1>14, <2>1, <3>2 DEF Busy
    <3>3. CASE u # w /\ v # w
      BY <1>1, <1>7, <2>1, <3>3 DEF RowInv, Alone, Busy
    <3> QED
      BY <3>1, <3>2, <3>3
  <2> QED
    BY <2>1 DEF Alone
<1>16. ASSUME NEW v \in Workers \ {w} PROVE PlaceOK(v)' /\ HeldOK(v)'
  <2>1. CASE ~Busy(v)
    <3>1. worker'[v] = IdleWorker /\ native'[v] = "none"
      BY <1>1, <1>2, <1>7, <2>1 DEF RowInv, PlaceOK
    <3> QED
      BY <3>1, WorkerValues DEF PlaceOK, HeldOK, Busy
  <2>2. CASE Busy(v)
    <3>1. PICK h \in Gens : h = worker[v].gen
      BY <1>14, <2>2
    <3>2. attempt[h] \in Nat /\ attempt'[h] \in Nat /\ attempt'[h] >= attempt[h]
      BY <1>1, <1>4, <1>8 DEF TypeOK
    <3>3. worker[v].attempt \in 1 .. attempt'[h] /\ gen'[h].desired # "absent"
      BY <1>5, <1>14, <2>2, <3>1, <3>2
    <3>4. PlaceOK(v)'
      BY <1>7, <2>2, <3>1, <3>3 DEF PlaceOK, Busy
    <3>5. worker[v].tx # NoTx => h # g
      BY <1>1, <1>3, <3>1 DEF RunLocked, RowInv, HeldOK
    <3>6. HeldOK(v)'
      BY <1>1, <1>5, <1>7, <1>8, <1>9, <3>1, <3>5 DEF RowInv, HeldOK, RunOf
    <3> QED
      BY <3>4, <3>6
  <2> QED
    BY <2>1, <2>2
<1>17. PlaceOK(w)' /\ HeldOK(w)'
  <2>1. attempt[g] + 1 \in 1 .. attempt'[g] /\ gen'[g].desired # "absent"
    BY <1>3, <1>4, <1>5, <1>8
  <2> QED
    BY <1>6, <1>7, <2>1 DEF PlaceOK, HeldOK, Busy
<1> QED
  BY <1>10, <1>11, <1>12, <1>13, <1>15, <1>16, <1>17 DEF IInv, RowInv

\* What a lease that lapses changes of a row.
LEMMA LapsedRow ==
    ASSUME TypeOK, NEW g \in Gens, NEW a \in Attempts, LeaseLapse(g, a)
    PROVE  \E row \in RunRow : /\ row.state = run[g][a].state /\ row.lease = "expired"
                               /\ run' = [run EXCEPT ![g][a] = row]
<1> DEFINE row == [run[g][a] EXCEPT !.lease = "expired"]
<1>1. run[g][a] \in RunRow
  BY DEF TypeOK
<1>2. row \in RunRow /\ row.state = run[g][a].state /\ row.lease = "expired"
  BY <1>1 DEF RunRow
<1>3. run' = [run EXCEPT ![g][a] = row]
  BY DEF LeaseLapse, TypeOK
<1> HIDE DEF row
<1> QED
  BY <1>2, <1>3

\* A lease lapses.
LEMMA LapseOK == ASSUME IInv, NEW g \in Gens, NEW a \in Attempts, LeaseLapse(g, a) PROVE IInv'
<1>1. TypeOK /\ ApiInv /\ RowInv
  BY DEF IInv
<1>2. UNCHANGED <<session, gen, attempt, worker, native, client, requests, path, rec, stale>>
  BY DEF LeaseLapse, process, api, media
<1>3. PICK row \in RunRow : /\ row.state = run[g][a].state /\ row.lease = "expired"
                            /\ run' = [run EXCEPT ![g][a] = row]
  BY <1>1, LapsedRow
<1>4. /\ run' \in [Gens -> [Attempts -> RunRow]] /\ RowsOK' /\ run'[g][a] = row
      /\ \A h \in Gens : h # g => run'[h] = run[h]
      /\ \A b \in Attempts : b # a => run'[g][b] = run[g][b]
  <2>1. (row.state \in Open => a = attempt[g]) /\ (row.lease = "live" => row.state \in Open)
    BY <1>1, <1>3 DEF RowInv, RowsOK
  <2> QED
    BY <1>1, <1>2, <1>3, <2>1, RowWritten DEF RowInv
<1>5. TypeOK'
  BY <1>1, <1>2, <1>4 DEF TypeOK
<1>6. ApiInv'
  BY <1>1, <1>2, ApiKept
<1>7. \A h \in Gens, b \in Attempts : run'[h][b].state = run[h][b].state
  BY <1>3, <1>4
<1>8. \A h \in Gens : attempt[h] \in 0 .. MaxAttempts /\ (attempt[h] > 0 => attempt[h] \in Attempts)
  BY <1>1, BoundsAssumption DEF TypeOK, Attempts
<1>9. StatesAgree'
  BY <1>1, <1>2, <1>7, <1>8 DEF RowInv, StatesAgree
<1>10. Alone'
  BY <1>1, <1>2 DEF RowInv, Alone, Busy
<1>11. ASSUME NEW w \in Workers PROVE PlaceOK(w)' /\ HeldOK(w)'
  <2>1. PlaceOK(w)'
    BY <1>1, <1>2 DEF RowInv, PlaceOK, Busy
  <2>2. HeldOK(w)'
    <3>1. CASE worker[w].tx = NoTx
      BY <1>2, <3>1 DEF HeldOK
    <3>2. CASE worker[w].tx # NoTx
      <4>1. worker[w].gen \in Gens /\ worker[w].attempt \in Attempts /\ HeldOK(w)
        BY <1>1, <3>2, BusyWhen, OwnRow DEF RowInv
      <4> QED
        BY <1>2, <1>7, <3>2, <4>1 DEF HeldOK, RunOf
    <3> QED
      BY <3>1, <3>2
  <2> QED
    BY <2>1, <2>2
<1> QED
  BY <1>4, <1>5, <1>6, <1>9, <1>10, <1>11 DEF IInv, RowInv

-----------------------------------------------------------------------------
(* The theorems.                                                           *)

\* Nothing exists before the first request.
LEMMA InitIInv == Init => IInv
<1> SUFFICES ASSUME Init PROVE IInv
  OBVIOUS
<1> DEFINE noSession == [desired |-> "absent", current |-> 0]
           noGen == [desired |-> "absent", state |-> "ACCEPTED", ready |-> FALSE]
           noRun == [state |-> "NONE", lease |-> "none"]
<1>1. noSession \in SessionRow /\ noSession.desired = "absent" /\ noSession.current = 0
  BY BoundsAssumption DEF SessionRow
<1>2. noGen \in GenRow /\ noGen.desired = "absent" /\ noGen.state = "ACCEPTED"
  BY DEF GenRow
<1>3. noRun \in RunRow /\ noRun.state \notin Open /\ noRun.lease = "none"
  BY DEF RunRow, Open
<1>4. IdleRec \in RecState /\ IdleRec.listed = {} /\ IdleRec.todo = {} /\ IdleRec.at = "idle"
  BY DEF IdleRec, RecState
<1>5. /\ session = [s \in Sessions |-> noSession] /\ gen = [g \in Gens |-> noGen]
      /\ attempt = [g \in Gens |-> 0] /\ run = [g \in Gens |-> [a \in Attempts |-> noRun]]
      /\ worker = [w \in Workers |-> IdleWorker] /\ native = [w \in Workers |-> "none"]
      /\ client = [k \in Clients |-> IdleClient] /\ requests = 0 /\ path = {} /\ rec = IdleRec /\ stale = {}
  BY DEF Init
<1> HIDE DEF noSession, noGen, noRun
<1>6. TypeOK
  <2>1. session \in [Sessions -> SessionRow] /\ gen \in [Gens -> GenRow]
    BY <1>1, <1>2, <1>5
  <2>2. attempt \in [Gens -> 0 .. MaxAttempts] /\ requests \in 0 .. MaxRequests
    BY <1>5, BoundsAssumption
  <2>3. run \in [Gens -> [Attempts -> RunRow]]
    BY <1>3, <1>5
  <2>4. worker \in [Workers -> WorkerState] /\ client \in [Clients -> ClientState]
    BY <1>5, WorkerValues, ClientValues
  <2>5. native \in [Workers -> NativeState]
    BY <1>5 DEF NativeState
  <2> QED
    BY <1>4, <1>5, <2>1, <2>2, <2>3, <2>4, <2>5 DEF TypeOK
<1>7. SessionsOK /\ OneRunning
  BY <1>1, <1>2, <1>5, Pairs DEF SessionsOK, OneRunning, Reconcilable
<1>8. ClientsOK /\ MediaOK
  BY <1>4, <1>5, ClientValues DEF ClientsOK, MediaOK
<1>9. RowsOK /\ StatesAgree
  BY <1>2, <1>3, <1>5 DEF RowsOK, StatesAgree, Terminal
<1>10. Alone /\ \A w \in Workers : PlaceOK(w) /\ HeldOK(w)
  BY <1>5, WorkerValues DEF Alone, PlaceOK, HeldOK, Busy
<1> QED
  BY <1>6, <1>7, <1>8, <1>9, <1>10 DEF IInv, ApiInv, RowInv

\* Every step keeps the invariant.
LEMMA NextIInv == IInv /\ [Next]_vars => IInv'
<1> SUFFICES ASSUME IInv, [Next]_vars PROVE IInv'
  OBVIOUS
<1>1. CASE Api
  <2>1. ASSUME NEW k \in Clients, ReconfigureLock(k) PROVE IInv'
    <3>1. PICK s \in Sessions : TRUE
      BY <2>1 DEF ReconfigureLock, IInv, ApiInv, ClientsOK
    <3> QED
      BY <2>1, <3>1, ReadsOK
  <2> QED
    BY <1>1, <2>1, CreateOK, ReadsOK, ReconfigureOK, StopOK, CrashApiOK DEF Api
<1>2. CASE Reconciler
  BY <1>2, ReconcileStartOK, ProvisionOK, SweepOK DEF Reconciler
<1>3. ASSUME NEW w \in Workers, Supervisor(w) PROVE IInv'
  BY <1>3, ClaimOK, LaunchOK, CommitOK, TxFailsOK, EndsOK, BeginsOK, RunnerOK, FinishUnfencedOK, MonitorOK
     DEF Supervisor
<1>4. ASSUME NEW w \in Workers, NEW how \in {"stopped", "dead"}, NativeExits(w, how) PROVE IInv'
  BY <1>4, NativeExitsOK
<1>5. ASSUME NEW g \in Gens, NEW a \in Attempts, LeaseLapse(g, a) PROVE IInv'
  BY <1>5, LapseOK
<1>6. CASE UNCHANGED vars
  <2>1. UNCHANGED <<session, gen, attempt, run, worker, native, client, requests, path, rec, stale>>
    BY <1>6 DEF vars, database, process, api, media
  <2>2. TypeOK'
    BY <2>1 DEF IInv, TypeOK
  <2>3. ApiInv'
    BY <2>1, ApiKept DEF IInv
  <2>4. RowInv'
    BY <2>1, QuietRows DEF IInv
  <2> QED
    BY <2>2, <2>3, <2>4 DEF IInv
<1> QED
  BY <1>1, <1>2, <1>3, <1>4, <1>5, <1>6 DEF Next

\* The inductive invariant, for every number of sessions, requests and workers
\* and every bound on generations and attempts.
THEOREM Invariance == Spec => []IInv
BY InitIInv, NextIInv, PTL DEF Spec

\* The variables keep their types.
THEOREM TypeCorrect == Spec => []TypeOK
<1>1. IInv => TypeOK
  BY DEF IInv
<1> QED
  BY <1>1, Invariance, PTL

\* Whatever reconfigurations and stops race, at most one generation of a session
\* is to run, and it is the current one.
THEOREM Exclusion == Spec => []OneRunning
<1>1. IInv => OneRunning
  BY DEF IInv, ApiInv
<1> QED
  BY <1>1, Invariance, PTL

\* The runtime state of a generation and that of its newest attempt agree, although
\* API requests and workers write them in transactions of their own.
THEOREM Agreement == Spec => []StatesAgree
<1>1. IInv => StatesAgree
  BY DEF IInv, RowInv
<1> QED
  BY <1>1, Invariance, PTL

\* No sweep of the reconciler deletes the path of a generation that is to run.
THEOREM PathsOfRunningKept == Spec => PathKept
<1> DEFINE Kept == \A g \in path \ path' : gen[g].desired = "stopped"
<1>1. ASSUME IInv, [Next]_vars PROVE Kept
  <2>1. CASE path \subseteq path'
    BY <2>1
  <2>2. CASE Sweep \/ SweepFails
    BY <1>1, <2>2, SweptIsStopped
  <2>3. Api => UNCHANGED path
    BY DEF Api, Create, ReconfigureRead, StopLock, ReconfigureLock, ReconfigureWrite, StopWrite, CrashApi, media
  <2>4. ASSUME NEW k \in Clients, ReconcileStart(k) PROVE UNCHANGED path
    BY <2>4 DEF ReconcileStart
  <2>5. ASSUME NEW g \in Gens, Provision(g) PROVE path \subseteq path'
    BY <2>5 DEF Provision
  <2>6. ListFails => UNCHANGED path
    BY DEF ListFails
  <2>7. ASSUME NEW w \in Workers, Supervisor(w) PROVE UNCHANGED path
    BY <2>7 DEF Supervisor, Claim, Launch, Commit, TxFails, CleanUp, Crash, PersistBegin, Begin, PersistUnfenced,
                FinishBegin, FinishUnfenced, Monitor, MonitorRaises, RunnerEnds, RunnerRaises, media
  <2>8. ASSUME NEW w \in Workers, NEW how, NativeExits(w, how) PROVE UNCHANGED path
    BY <2>8 DEF NativeExits, media
  <2>9. ASSUME NEW g, NEW a, LeaseLapse(g, a) PROVE UNCHANGED path
    BY <2>9 DEF LeaseLapse, media
  <2>10. UNCHANGED vars => UNCHANGED path
    BY DEF vars, media
  <2>11. CASE Next
    <3>1. CASE Reconciler
      BY <2>1, <2>2, <2>4, <2>5, <2>6, <3>1 DEF Reconciler
    <3> QED
      BY <2>1, <2>3, <2>7, <2>8, <2>9, <2>11, <3>1 DEF Next
  <2> QED
    BY <1>1, <2>1, <2>10, <2>11
<1>2. IInv /\ [Next]_vars => [Kept]_vars
  BY <1>1
<1> QED
  BY <1>2, Invariance, PTL DEF Spec, PathKept

\* The open attempts of a generation, as the ledger sees them.
OpenAttempts(g) == {a \in Attempts : run[g][a].state \in Open}

\* Every step opens the next attempt, closes the open one, or leaves the ledger
\* alone.
LEMMA LedgerStep == IInv /\ [Next]_vars => [Ledger!Next]_<<attempt, [g \in Gens |-> OpenAttempts(g)]>>
<1> SUFFICES ASSUME IInv, [Next]_vars
             PROVE  \/ Ledger!Next
                    \/ UNCHANGED attempt /\ \A g \in Gens : OpenAttempts(g)' = OpenAttempts(g)
  OBVIOUS
<1>1. TypeOK /\ RowsOK /\ run \in [Gens -> [Attempts -> RunRow]]
  BY DEF IInv, RowInv, TypeOK
<1>2. CASE UNCHANGED <<run, attempt>>
  BY <1>2 DEF OpenAttempts
<1>3. ASSUME NEW g \in Gens, NEW a \in Attempts, NEW row \in RunRow, UNCHANGED attempt,
             run' = [run EXCEPT ![g][a] = row]
      PROVE  /\ run'[g][a] = row /\ \A h \in Gens : h # g => OpenAttempts(h)' = OpenAttempts(h)
             /\ \A b \in Attempts : b # a => run'[g][b] = run[g][b]
  BY <1>1, <1>3 DEF OpenAttempts
<1>4. ASSUME NEW g \in Gens, NEW a \in Attempts, NEW row \in RunRow, UNCHANGED attempt,
             run' = [run EXCEPT ![g][a] = row], row.state \in Open <=> run[g][a].state \in Open
      PROVE  \A h \in Gens : OpenAttempts(h)' = OpenAttempts(h)
  <2>1. OpenAttempts(g)' = OpenAttempts(g)
    <3>1. run'[g][a] = row /\ \A b \in Attempts : b # a => run'[g][b] = run[g][b]
      BY <1>1, <1>4
    <3> QED
      BY <1>4, <3>1 DEF OpenAttempts
  <2> QED
    BY <1>3, <1>4, <2>1
<1>5. ASSUME NEW g \in Gens, NEW a \in Attempts, LeaseLapse(g, a)
      PROVE  UNCHANGED attempt /\ \A h \in Gens : OpenAttempts(h)' = OpenAttempts(h)
  <2>1. UNCHANGED attempt
    BY <1>5 DEF LeaseLapse
  <2>2. PICK row \in RunRow : row.state = run[g][a].state /\ run' = [run EXCEPT ![g][a] = row]
    BY <1>1, <1>5, LapsedRow
  <2> QED
    BY <1>4, <2>1, <2>2
<1>6. ASSUME NEW w \in Workers, Commit(w)
      PROVE  \/ Ledger!Next
             \/ UNCHANGED attempt /\ \A g \in Gens : OpenAttempts(g)' = OpenAttempts(g)
  <2>1. UNCHANGED attempt
    BY <1>6 DEF Commit
  <2>2. PICK g \in Gens, a \in Attempts, to \in Open \cup Terminal, row \in RunRow :
              /\ a = attempt[g] /\ run[g][a].state \in Open
              /\ row.state = to /\ run' = [run EXCEPT ![g][a] = row]
    BY <1>6, CommitFacts
  <2>3. CASE to \in Open
    BY <1>4, <2>1, <2>2, <2>3
  <2>4. CASE to \notin Open
    <3>1. /\ run'[g][a] = row /\ \A h \in Gens : h # g => OpenAttempts(h)' = OpenAttempts(h)
          /\ \A b \in Attempts : b # a => run'[g][b] = run[g][b]
      BY <1>3, <2>1, <2>2
    <3>2. OpenAttempts(g)' = {}
      BY <1>1, <2>2, <2>4, <3>1 DEF RowsOK, OpenAttempts
    <3>3. a \in OpenAttempts(g)
      BY <2>2 DEF OpenAttempts
    <3>4. [h \in Gens |-> OpenAttempts(h)'] = [[h \in Gens |-> OpenAttempts(h)] EXCEPT ![g] = {}]
      BY <3>1, <3>2
    <3>5. [h \in Gens |-> OpenAttempts(h)][g] # {}
      BY <3>3
    <3>6. Ledger!CloseRun(g)
      BY <2>1, <3>4, <3>5 DEF Ledger!CloseRun, OpenAttempts
    <3> QED
      BY <3>6 DEF Ledger!Next
  <2> QED
    BY <2>3, <2>4
<1>7. ASSUME NEW w \in Workers, Claim(w) PROVE Ledger!Next
  <2>1. PICK g \in Gens :
           /\ attempt[g] < MaxAttempts /\ attempt' = [attempt EXCEPT ![g] = attempt[g] + 1]
           /\ run' = [run EXCEPT ![g] = Claimed(g)]
    BY <1>7 DEF Claim, Claimed
  <2>2. OpenAttempts(g)' = {attempt[g] + 1}
    <3>1. run'[g] = Claimed(g)
      BY <1>1, <2>1
    <3>2. /\ attempt[g] + 1 \in Attempts /\ Claimed(g)[attempt[g] + 1].state \in Open
          /\ \A a \in Attempts : Claimed(g)[a].state \in Open => a = attempt[g] + 1
      BY <1>1, <2>1, NextAttempt DEF Open
    <3> QED
      BY <3>1, <3>2 DEF OpenAttempts
  <2>3. \A h \in Gens : h # g => OpenAttempts(h)' = OpenAttempts(h)
    <3>1. \A h \in Gens : h # g => run'[h] = run[h]
      BY <1>1, <2>1
    <3> QED
      BY <3>1 DEF OpenAttempts
  <2>4. [h \in Gens |-> OpenAttempts(h)'] = [[h \in Gens |-> OpenAttempts(h)] EXCEPT ![g] = {attempt[g] + 1}]
    BY <2>2, <2>3
  <2>5. Ledger!OpenRun(g)
    BY <2>1, <2>4 DEF Ledger!OpenRun, OpenAttempts
  <2> QED
    BY <2>5 DEF Ledger!Next
<1>8. Api \/ Reconciler => UNCHANGED <<run, attempt>>
  BY DEF Api, Create, ReconfigureRead, StopLock, ReconfigureLock, ReconfigureWrite, StopWrite, CrashApi,
         Reconciler, ReconcileStart, Provision, Sweep, SweepFails, ListFails, database
<1>9. ASSUME NEW w \in Workers, Supervisor(w), ~Claim(w), ~Commit(w) PROVE UNCHANGED <<run, attempt>>
  BY <1>9 DEF Supervisor, Launch, TxFails, CleanUp, Crash, PersistBegin, Begin, PersistUnfenced,
              FinishBegin, FinishUnfenced, Monitor, MonitorRaises, RunnerEnds, RunnerRaises, database
<1>10. ASSUME NEW w \in Workers, NEW how, NativeExits(w, how) PROVE UNCHANGED <<run, attempt>>
  BY <1>10 DEF NativeExits, database
<1>11. UNCHANGED vars => UNCHANGED <<run, attempt>>
  BY DEF vars, database
<1>12. CASE \E w \in Workers : Supervisor(w)
  BY <1>2, <1>6, <1>7, <1>9, <1>12
<1> QED
  BY <1>2, <1>5, <1>8, <1>10, <1>11, <1>12 DEF Next

\* The attempts at a generation implement the ledger that the runs of a camera
\* implement: the lease and the fence carry over to sessions.
THEOREM Refinement == Spec => AttemptsKept
<1>1. Init => Ledger!Init
  <2>1. Init => \A g \in Gens, a \in Attempts : run[g][a].state = "NONE"
    BY DEF Init
  <2>2. Init => \A g \in Gens : OpenAttempts(g) = {}
    BY <2>1 DEF OpenAttempts, Open
  <2> QED
    BY <2>2 DEF Init, Ledger!Init, OpenAttempts
<1>2. IInv /\ [Next]_vars => [Ledger!Next]_<<attempt, [g \in Gens |-> {a \in Attempts : run[g][a].state \in Open}]>>
  BY LedgerStep DEF OpenAttempts
<1> QED
  BY <1>1, <1>2, Invariance, PTL DEF Spec, AttemptsKept, Ledger!Spec
=============================================================================
