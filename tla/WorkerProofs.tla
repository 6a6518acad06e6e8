---------------------------- MODULE WorkerProofs ----------------------------
(***************************************************************************)
(* Proofs about the two protocols between Python and the native workers,   *)
(* ImageWorker and LiveProtocol.                                           *)
(*                                                                         *)
(* ImageWorker: a satisfied client has the results of its own images in    *)
(* its order, and waiting for a count of frames is waiting for the batch,  *)
(* but for what was lost or cut off.  Neither is inductive.  BatchOK says  *)
(* that the images of a batch have consecutive tokens, so that sorting by  *)
(* token restores their order and as many results as images are all of     *)
(* them; CountOK is the balance of the frames pushed with the two counts   *)
(* that are compared; FlightOK that while no frame is lost those of the    *)
(* batch are in the pipeline or among the results, and that a new token is *)
(* on no frame in the pipeline; ImagesOK that what the pipeline holds or   *)
(* has found under a token of the batch is that image of the batch.        *)
(*                                                                         *)
(* LiveProtocol: the decoders of both languages agree, up to single        *)
(* precision, and the sides of one build refuse nothing of each other.     *)
(* The second needs PInv, which says what is on the pipes: the start       *)
(* comes first and only once, the revisions of a track rise from the one   *)
(* the worker has to the newest, and the events are numbered one after the *)
(* other.                                                                  *)
(***************************************************************************)
EXTENDS ImageWorker, LiveProtocol, FiniteSetTheorems, TLAPS

\* The n images that worker w has read got consecutive tokens, the last ones it
\* gave out, in the order of the batch.
Numbered(w, n) ==
    /\ DOMAIN serving[w].ids = next[w] - n .. next[w] - 1
    /\ \A t \in DOMAIN serving[w].ids :
          serving[w].ids[t] = <<serving[w].client, t - (next[w] - n) + 1>>

\* Of the n tokens from the first on, the ones in found answer images of client c.
FromFirst(found, c, first, n) ==
    \A t \in DOMAIN found :
        /\ t \in first .. first + n - 1
        /\ found[t] = <<<<c, t - first + 1>>, <<c, t - first + 1>>>>

\* The answers to the n images of client c, in order.
InOrder(c, n) == [i \in 1 .. n |-> <<<<c, i>>, <<c, i>>>>]

\* The results that were taken are those of images of the batch.
Taken(w) ==
    \A t \in DOMAIN serving[w].found :
        t \in DOMAIN serving[w].ids /\ serving[w].found[t] = serving[w].ids[t]

BatchOK(w) ==
    /\ server[w] = "size" => DOMAIN serving[w].ids = {}
    /\ server[w] = "read" =>
          /\ Batch[serving[w].client] \in 1 .. Slots
          /\ \E n \in 0 .. Slots - 1 : n < Batch[serving[w].client] /\ Numbered(w, n)
    /\ server[w] \in {"wait", "write"} => Numbered(w, Batch[serving[w].client])
    /\ server[w] = "write" => Taken(w)

\* Frames pushed and not added to completed_total yet.
Uncounted(w) == IF server[w] = "read" THEN ReadSoFar(w) ELSE 0

\* A frame pushed has come out, is in the pipeline or is lost; it was added to
\* completed_total, or its batch was cut off, or is still being read.
CountOK(w) ==
    /\ IsFiniteSet(DOMAIN flight[w])
    /\ frames[w] + Cardinality(DOMAIN flight[w]) + lost[w] = total[w] + cut[w] + Uncounted(w)

\* The frames of the batch are not lost unless some frame is, and its results
\* are kept until they are taken.
FlightOK(w) ==
    /\ DOMAIN flight[w] \subseteq 1 .. next[w] - 1
    /\ server[w] \in {"read", "wait"} /\ lost[w] = 0
          => DOMAIN serving[w].ids \subseteq DOMAIN results[w] \cup DOMAIN flight[w]

\* The images by the tokens of the batch, in the pipeline and among the results,
\* are those of the batch, whatever else is there.
OwnImages(ids, images) == \A t \in DOMAIN ids \cap DOMAIN images : images[t] = ids[t]

ImagesOK(w) ==
    /\ DOMAIN results[w] \subseteq 1 .. next[w] - 1
    /\ server[w] \in {"read", "wait"} =>
          OwnImages(serving[w].ids, flight[w]) /\ OwnImages(serving[w].ids, results[w])

WorkerOK(w) == BatchOK(w) /\ CountOK(w) /\ FlightOK(w) /\ ImagesOK(w)

IInv == TypeOK /\ OwnAnswer /\ \A w \in Workers : WorkerOK(w)

-----------------------------------------------------------------------------
(* The operators *)

\* As many tokens as there are numbers from a to b.
LEMMA IntervalSize ==
    ASSUME NEW a \in Int, NEW b \in Int, a <= b + 1
    PROVE  IsFiniteSet(a .. b) /\ Cardinality(a .. b) = b + 1 - a
BY FS_Interval

\* What leaves the pipeline and what stays make up what was there (Leave).
LEMMA SplitSize ==
    ASSUME NEW S, IsFiniteSet(S), NEW out \in SUBSET S
    PROVE  /\ IsFiniteSet(S \ out) /\ IsFiniteSet(out)
           /\ Cardinality(S) \in Nat /\ Cardinality(out) \in Nat /\ Cardinality(S \ out) \in Nat
           /\ Cardinality(S \ out) + Cardinality(out) = Cardinality(S)
<1>1. IsFiniteSet(out) /\ IsFiniteSet(S \ out) /\ S \cap out = out
  BY FS_Subset, FS_Difference
<1>2. /\ Cardinality(S) \in Nat /\ Cardinality(out) \in Nat /\ Cardinality(S \ out) \in Nat
      /\ Cardinality(S \ out) = Cardinality(S) - Cardinality(S \cap out)
  BY <1>1, FS_CardinalityType, FS_Difference
<1> QED
  BY <1>1, <1>2

\* The k-th of finitely many tokens exists: the tokens before each of two
\* tokens differ in number, so all numbers below that of the tokens occur.
LEMMA KthExists ==
    ASSUME NEW S \in SUBSET Int, IsFiniteSet(S), NEW k \in 1 .. Cardinality(S)
    PROVE  Kth(S, k) \in S
<1> DEFINE before(t) == {u \in S : u < t}
           n == Cardinality(S)
           rank == [t \in S |-> Cardinality(before(t))]
<1>1. n \in Nat
  BY FS_CardinalityType
<1>2. ASSUME NEW t \in S
      PROVE  IsFiniteSet(before(t)) /\ Cardinality(before(t)) \in 0 .. n - 1
  <2>1. before(t) \in SUBSET S /\ before(t) # S
    OBVIOUS
  <2>2. /\ IsFiniteSet(before(t)) /\ Cardinality(before(t)) <= n /\ n # Cardinality(before(t))
    BY <2>1, FS_Subset
  <2>3. Cardinality(before(t)) \in Nat
    BY <2>2, FS_CardinalityType
  <2> HIDE DEF before, n
  <2> QED
    BY <1>1, <2>2, <2>3
<1>3. ASSUME NEW t \in S, NEW u \in S, t < u
      PROVE  Cardinality(before(t)) # Cardinality(before(u))
  <2>1. before(t) \in SUBSET before(u) /\ before(t) # before(u)
    <3>1. t \in before(u) /\ t \notin before(t)
      BY <1>3
    <3>2. ASSUME NEW x \in S, x < t PROVE x < u
      <4>1. x \in Int /\ t \in Int /\ u \in Int
        OBVIOUS
      <4> QED
        BY <1>3, <3>2, <4>1
    <3> QED
      BY <3>1, <3>2
  <2>2. IsFiniteSet(before(u))
    BY <1>2
  <2> HIDE DEF before
  <2> QED
    BY <2>1, <2>2, FS_Subset
<1>4. ASSUME NEW t \in S, NEW u \in S, Cardinality(before(t)) = Cardinality(before(u)) PROVE t = u
  <2>1. t < u \/ u < t \/ t = u
    OBVIOUS
  <2> HIDE DEF before
  <2> QED
    BY <1>3, <1>4, <2>1
<1>5. rank \in Injection(S, 0 .. n - 1)
  <2> HIDE DEF before, n
  <2>1. rank \in [S -> 0 .. n - 1]
    BY <1>2
  <2>2. \A t, u \in S : rank[t] = rank[u] => t = u
    BY <1>4
  <2> HIDE DEF rank
  <2> QED
    BY <2>1, <2>2 DEF Injection, IsInjective
<1>6. IsFiniteSet(0 .. n - 1) /\ Cardinality(0 .. n - 1) = n
  <2> HIDE DEF n
  <2>1. PICK b \in Int : b = n - 1 /\ 0 <= b + 1 /\ b + 1 - 0 = n
    BY <1>1
  <2>2. IsFiniteSet(0 .. b) /\ Cardinality(0 .. b) = b + 1 - 0
    BY <2>1, IntervalSize
  <2> QED
    BY <2>1, <2>2
<1>7. rank \in Surjection(S, 0 .. n - 1)
  <2> HIDE DEF rank
  <2> QED
    BY <1>5, <1>6, FS_Injection
<1>8. PICK t \in S : rank[t] = k - 1
  <2>1. k - 1 \in 0 .. n - 1
    BY <1>1
  <2> HIDE DEF rank, n
  <2> QED
    BY <1>7, <2>1 DEF Surjection
<1>9. Cardinality({u \in S : u < t}) = k - 1
  BY <1>8
<1> QED
  BY <1>9 DEF Kth

\* Of n consecutive tokens, the k-th comes after k - 1 others, and no other does.
LEMMA Rank ==
    ASSUME NEW a \in Int, NEW n \in Nat, NEW t \in a .. a + n - 1
    PROVE  Cardinality({u \in a .. a + n - 1 : u < t}) = t - a
<1>1. PICK b \in Int : b = t - 1 /\ a <= b + 1
  OBVIOUS
<1>2. {u \in a .. a + n - 1 : u < t} = a .. b
  BY <1>1
<1>3. Cardinality(a .. b) = b + 1 - a
  BY <1>1, IntervalSize
<1>4. b + 1 - a = t - a
  BY <1>1
<1> QED
  BY <1>2, <1>3, <1>4

\* Images with consecutive tokens are sorted into the order of their tokens.
LEMMA SortedInOrder ==
    ASSUME NEW ids, NEW a \in Int, NEW n \in Nat, DOMAIN ids = a .. a + n - 1
    PROVE  Sorted(ids) = [k \in 1 .. n |-> ids[a + k - 1]]
<1>1. Cardinality(DOMAIN ids) = n
  BY IntervalSize
<1>2. ASSUME NEW k \in 1 .. n PROVE Kth(DOMAIN ids, k) = a + k - 1
  <2>1. PICK e \in DOMAIN ids : e = a + k - 1
    OBVIOUS
  <2>2. \A t \in DOMAIN ids : Cardinality({u \in DOMAIN ids : u < t}) = t - a
    BY Rank
  <2>3. \A t \in DOMAIN ids : Cardinality({u \in DOMAIN ids : u < t}) = k - 1 <=> t = e
    BY <2>1, <2>2
  <2> QED
    BY <2>1, <2>3 DEF Kth
<1> QED
  BY <1>1, <1>2 DEF Sorted

\* Sorting keeps what is sorted, one for each token.
LEMMA SortedType ==
    ASSUME NEW f, NEW S, DOMAIN f \in SUBSET Int, IsFiniteSet(DOMAIN f),
           \A t \in DOMAIN f : f[t] \in S
    PROVE  Sorted(f) \in Seq(S) /\ Len(Sorted(f)) = Cardinality(DOMAIN f)
<1>1. PICK n \in Nat : n = Cardinality(DOMAIN f)
  BY FS_CardinalityType
<1>2. \A k \in 1 .. n : f[Kth(DOMAIN f, k)] \in S
  BY <1>1, KthExists
<1>3. Sorted(f) \in [1 .. n -> S]
  BY <1>1, <1>2 DEF Sorted
<1> QED
  BY <1>1, <1>3

\* One more image has a token.
LEMMA NumberingGrows ==
    ASSUME NEW f \in Numbering, NEW token \in Token, NEW image \in Images
    PROVE  [t \in DOMAIN f \cup {token} |-> IF t = token THEN image ELSE f[t]] \in Numbering
<1> DEFINE g == [t \in DOMAIN f \cup {token} |-> IF t = token THEN image ELSE f[t]]
<1>1. DOMAIN g \in SUBSET Token /\ g \in [DOMAIN g -> Images]
  BY DEF Numbering
<1> HIDE DEF g
<1>2. g \in Numbering
  BY <1>1 DEF Numbering
<1> QED
  BY <1>2 DEF g

\* Some of the images keep their tokens.
LEMMA NumberingShrinks ==
    ASSUME NEW f \in Numbering, NEW kept \in SUBSET DOMAIN f
    PROVE  [t \in kept |-> f[t]] \in Numbering
<1>1. kept \in SUBSET Token /\ [t \in kept |-> f[t]] \in [kept -> Images]
  BY DEF Numbering
<1> QED
  BY <1>1 DEF Numbering

\* Images that had no token get one.
LEMMA NumberingJoins ==
    ASSUME NEW f \in Numbering, NEW g \in Numbering, NEW out \in SUBSET DOMAIN g
    PROVE  [t \in DOMAIN f \cup out |-> IF t \in out THEN g[t] ELSE f[t]] \in Numbering
<1> DEFINE h == [t \in DOMAIN f \cup out |-> IF t \in out THEN g[t] ELSE f[t]]
<1>1. /\ DOMAIN f \in SUBSET Token /\ DOMAIN g \in SUBSET Token
      /\ \A t \in DOMAIN f : f[t] \in Images
      /\ \A t \in DOMAIN g : g[t] \in Images
  BY DEF Numbering
<1>2. DOMAIN h \in SUBSET Token /\ h \in [DOMAIN h -> Images]
  BY <1>1
<1> HIDE DEF h
<1>3. h \in Numbering
  BY <1>2 DEF Numbering
<1> QED
  BY <1>3 DEF h

\* No image has a token.
LEMMA NumberingEmpty == << >> \in Numbering /\ DOMAIN << >> = {}
<1>1. << >> \in [{} -> Images] /\ {} \in SUBSET Token
  OBVIOUS
<1> QED
  BY <1>1 DEF Numbering

-----------------------------------------------------------------------------
(* Steps that leave workers or answers alone *)

\* A step leaves worker v alone.
Untouched(v) ==
    /\ server'[v] = server[v] /\ serving'[v] = serving[v] /\ next'[v] = next[v]
    /\ total'[v] = total[v] /\ frames'[v] = frames[v] /\ results'[v] = results[v]
    /\ flight'[v] = flight[v] /\ lost'[v] = lost[v] /\ cut'[v] = cut[v]

\* What holds of a worker holds of it after a step of another one.
LEMMA OtherWorker == ASSUME NEW v \in Workers, WorkerOK(v), Untouched(v) PROVE WorkerOK(v)'
<1>1. BatchOK(v)'
  BY DEF WorkerOK, Untouched, BatchOK, Numbered, Taken
<1>2. CountOK(v)'
  BY DEF WorkerOK, Untouched, CountOK, Uncounted, ReadSoFar
<1>3. FlightOK(v)'
  BY DEF WorkerOK, Untouched, FlightOK
<1>4. ImagesOK(v)'
  BY DEF WorkerOK, Untouched, ImagesOK, OwnImages
<1> QED
  BY <1>1, <1>2, <1>3, <1>4 DEF WorkerOK

\* Only the worker that takes a step is to be looked at.
LEMMA OneWorker ==
    ASSUME IInv, NEW w \in Workers, TypeOK', OwnAnswer', WorkerOK(w)',
           \A v \in Workers : v # w => Untouched(v)
    PROVE  IInv'
<1>1. ASSUME NEW v \in Workers PROVE WorkerOK(v)'
  BY OtherWorker DEF IInv
<1> QED
  BY <1>1 DEF IInv

\* Answers stay right while nobody else becomes satisfied.
LEMMA AnswersKept ==
    ASSUME OwnAnswer, answers' = answers, \A c \in Clients : client'[c] = "ok" => client[c] = "ok"
    PROVE  OwnAnswer'
BY DEF OwnAnswer

\* Initially nothing was read, pushed or answered.
LEMMA InitIInv == Init => IInv
<1> SUFFICES ASSUME Init PROVE IInv
  OBVIOUS
<1>1. 0 \in Workers
  BY ImageWorkerAssumption DEF Workers
<1>2. TypeOK
  BY <1>1, NumberingEmpty DEF Init, TypeOK, NoBatch, Token, Busy, Serving
<1>3. OwnAnswer
  BY DEF Init, OwnAnswer
<1>4. ASSUME NEW w \in Workers PROVE WorkerOK(w)
  <2>1. DOMAIN flight[w] = {} /\ IsFiniteSet(DOMAIN flight[w]) /\ Cardinality(DOMAIN flight[w]) = 0
    BY FS_EmptySet, NumberingEmpty DEF Init
  <2>2. BatchOK(w) /\ CountOK(w) /\ FlightOK(w)
    BY <2>1 DEF Init, BatchOK, CountOK, Uncounted, FlightOK
  <2>3. ImagesOK(w)
    BY NumberingEmpty DEF Init, ImagesOK
  <2> QED
    BY <2>2, <2>3 DEF WorkerOK
<1> QED
  BY <1>2, <1>3, <1>4 DEF IInv

\* A client connects, sends, or gives up.
LEMMA ClientStepIInv == ASSUME IInv, NEW c \in Clients, ClientStep(c) PROVE IInv'
<1>1. /\ UNCHANGED <<server, serving, next, total, pipeline, cut>> /\ answers' = answers
  BY DEF ClientStep, Request, Send, GiveUp
<1>2. \A v \in Workers : Untouched(v)
  BY <1>1 DEF Untouched, pipeline
<1>3. OwnAnswer'
  <2>1. \A d \in Clients : client'[d] = "ok" => client[d] = "ok"
    BY DEF ClientStep, Request, Send, GiveUp, IInv, TypeOK
  <2> QED
    BY <1>1, <2>1, AnswersKept DEF IInv
<1>4. /\ turn' \in Workers /\ path' \in [Clients -> Workers]
      /\ sent' \in [Clients -> Nat] /\ backlog' \in [Workers -> Seq(Clients)]
  <2>1. CASE Request(c)
    <3>1. turn \in Workers /\ (turn + 1) % NumWorkers \in Workers
      <4>1. turn \in Nat /\ NumWorkers \in Nat /\ NumWorkers > 0 /\ turn \in Workers
        BY ImageWorkerAssumption DEF IInv, TypeOK, Workers
      <4>2. (turn + 1) % NumWorkers \in 0 .. NumWorkers - 1
        BY <4>1
      <4> QED
        BY <4>1, <4>2 DEF Workers
    <3>2. PICK queue \in Seq(Clients) : queue = Append(backlog[turn], c)
      <4>1. backlog[turn] \in Seq(Clients)
        BY <3>1 DEF IInv, TypeOK
      <4>2. Append(backlog[turn], c) \in Seq(Clients)
        BY <4>1
      <4> QED
        BY <4>2
    <3>3. backlog' = backlog \/ backlog' = [backlog EXCEPT ![turn] = queue]
      BY <2>1, <3>2 DEF Request
    <3>4. backlog' \in [Workers -> Seq(Clients)]
      BY <3>1, <3>2, <3>3 DEF IInv, TypeOK
    <3> QED
      BY <2>1, <3>1, <3>4 DEF Request, NextPath, IInv, TypeOK
  <2>2. CASE GiveUp(c)
    BY <2>2 DEF GiveUp, IInv, TypeOK
  <2>3. CASE Send(c)
    <3>1. sent \in [Clients -> Nat] /\ sent[c] + 1 \in Nat
      BY DEF IInv, TypeOK
    <3>2. sent' \in [Clients -> Nat]
      BY <2>3, <3>1 DEF Send
    <3> QED
      BY <2>3, <3>2 DEF Send, IInv, TypeOK
  <2> QED
    BY <2>1, <2>2, <2>3 DEF ClientStep
<1>5. client' \in [Clients -> {"idle", "waiting", "ok", "error"}]
  <2>1. \/ client' = [client EXCEPT ![c] = "waiting"] \/ client' = [client EXCEPT ![c] = "error"]
        \/ client' = client
    BY DEF ClientStep, Request, Send, GiveUp
  <2> QED
    BY <2>1 DEF IInv, TypeOK
<1>6. TypeOK'
  BY <1>1, <1>4, <1>5 DEF IInv, TypeOK, pipeline
<1> QED
  BY <1>2, <1>3, <1>6, OtherWorker DEF IInv

-----------------------------------------------------------------------------
(* The steps of main() *)

\* What a worker has read of a batch.
LEMMA ReadCount ==
    ASSUME TypeOK, NEW w \in Workers, WorkerOK(w), server[w] = "read"
    PROVE  \E n \in 0 .. Slots - 1 : /\ ReadSoFar(w) = n /\ Numbered(w, n)
                                     /\ n < Batch[serving[w].client]
<1>1. PICK n \in 0 .. Slots - 1 : n < Batch[serving[w].client] /\ Numbered(w, n)
  BY DEF WorkerOK, BatchOK
<1>2. next[w] \in Nat /\ n \in Nat
  BY ImageWorkerAssumption DEF TypeOK, Token
<1>3. PICK a \in Int, b \in Int : a = next[w] - n /\ b = next[w] - 1 /\ a <= b + 1 /\ b + 1 - a = n
  <2>1. PICK m \in Nat : m = next[w]
    BY <1>2
  <2>2. /\ m - n \in Int /\ m - 1 \in Int /\ m - n <= (m - 1) + 1 /\ (m - 1) + 1 - (m - n) = n
    BY <1>2
  <2> QED
    BY <2>1, <2>2
<1>4. Cardinality(a .. b) = b + 1 - a
  BY <1>3, IntervalSize
<1>5. DOMAIN serving[w].ids = a .. b
  BY <1>1, <1>3 DEF Numbered
<1>6. ReadSoFar(w) = n
  BY <1>3, <1>4, <1>5 DEF ReadSoFar
<1> QED
  BY <1>1, <1>6

\* The frames that completed_total does not count yet are a number.
LEMMA UncountedType ==
    ASSUME TypeOK, NEW w \in Workers, WorkerOK(w) PROVE Uncounted(w) \in Nat
<1>1. CASE server[w] = "read"
  <2>1. PICK n \in 0 .. Slots - 1 : ReadSoFar(w) = n
    BY <1>1, ReadCount
  <2>2. n \in Nat
    BY ImageWorkerAssumption
  <2> QED
    BY <1>1, <2>1, <2>2 DEF Uncounted
<1> QED
  BY <1>1 DEF Uncounted

\* The connection of a batch that is served is closed: the worker is back at
\* accept, and nothing of the batch is kept.  What its frames count for was
\* settled before, or is now (extra, the frames of a batch that was cut off).
LEMMA ClosedOK ==
    ASSUME TypeOK, NEW w \in Workers, WorkerOK(w), Close(w),
           next'[w] = next[w], cut'[w] = cut[w] + Uncounted(w), results'[w] = results[w],
           total'[w] = total[w], frames'[w] = frames[w], flight'[w] = flight[w], lost'[w] = lost[w]
    PROVE  WorkerOK(w)'
<1>1. server'[w] = "accept" /\ next[w] \in Nat /\ cut[w] \in Nat
  BY DEF Close, TypeOK, Token
<1>2. BatchOK(w)'
  BY <1>1 DEF BatchOK
<1>3. FlightOK(w)'
  BY <1>1 DEF WorkerOK, FlightOK
<1>4. ImagesOK(w)'
  BY <1>1 DEF WorkerOK, ImagesOK
<1>5. CountOK(w)'
  <2>1. Uncounted(w)' = 0
    BY <1>1 DEF Uncounted
  <2>2. Uncounted(w) \in Nat
    BY UncountedType
  <2>3. total[w] \in Nat
    BY DEF TypeOK
  <2> QED
    BY <1>1, <2>1, <2>2, <2>3 DEF WorkerOK, CountOK
<1> QED
  BY <1>2, <1>3, <1>4, <1>5 DEF WorkerOK

\* The state of main() keeps its type when worker w goes on to q with batch b.
LEMMA MoveType ==
    ASSUME TypeOK, NEW w \in Workers, NEW q \in {"down", "accept"} \cup Busy,
           NEW b \in Serving,
           IF q \in Busy THEN b.client \in Clients ELSE b = NoBatch,
           server' = [server EXCEPT ![w] = q], serving' = [serving EXCEPT ![w] = b]
    PROVE  /\ server' \in [Workers -> {"down", "accept"} \cup Busy]
           /\ serving' \in [Workers -> Serving]
           /\ server'[w] = q /\ serving'[w] = b
           /\ \A v \in Workers : v # w => server'[v] = server[v] /\ serving'[v] = serving[v]
           /\ \A v \in Workers : IF server'[v] \in Busy
                                 THEN serving'[v].client \in Clients ELSE serving'[v] = NoBatch
<1>1. /\ server \in [Workers -> {"down", "accept"} \cup Busy]
      /\ serving \in [Workers -> Serving]
      /\ \A v \in Workers : IF server[v] \in Busy
                            THEN serving[v].client \in Clients ELSE serving[v] = NoBatch
  BY DEF TypeOK
<1>2. /\ server'[w] = q /\ serving'[w] = b
      /\ \A v \in Workers : v # w => server'[v] = server[v] /\ serving'[v] = serving[v]
  BY <1>1
<1>3. /\ server' \in [Workers -> {"down", "accept"} \cup Busy]
      /\ serving' \in [Workers -> Serving]
  BY <1>1
<1>4. ASSUME NEW v \in Workers
      PROVE  IF server'[v] \in Busy
             THEN serving'[v].client \in Clients ELSE serving'[v] = NoBatch
  BY <1>1, <1>2
<1> QED
  BY <1>2, <1>3, <1>4

\* Closing keeps the types of main()'s state.
LEMMA CloseType ==
    ASSUME TypeOK, NEW w \in Workers, Close(w)
    PROVE  /\ server' \in [Workers -> {"down", "accept"} \cup Busy]
           /\ serving' \in [Workers -> Serving]
           /\ \A v \in Workers : v # w => server'[v] = server[v] /\ serving'[v] = serving[v]
           /\ \A v \in Workers : IF server'[v] \in Busy
                                 THEN serving'[v].client \in Clients ELSE serving'[v] = NoBatch
<1>1. NoBatch \in Serving /\ "accept" \notin Busy
  BY NumberingEmpty DEF NoBatch, Serving, Busy
<1> QED
  BY <1>1, MoveType DEF Close

\* A client that waits in vain is no longer waiting.
LEMMA RefuseClient ==
    ASSUME TypeOK, NEW c \in Clients,
           client' = [client EXCEPT ![c] = IF @ = "waiting" THEN "error" ELSE @]
    PROVE  /\ client' \in [Clients -> {"idle", "waiting", "ok", "error"}]
           /\ \A d \in Clients : client'[d] = "ok" => client[d] = "ok"
<1>1. client \in [Clients -> {"idle", "waiting", "ok", "error"}]
  BY DEF TypeOK
<1>2. client' = client \/ client' = [client EXCEPT ![c] = "error"]
  BY <1>1
<1> QED
  BY <1>1, <1>2

\* A batch is given up, while it is read or after the timeout.
LEMMA RefusedIInv ==
    ASSUME IInv, NEW w \in Workers, server[w] \in Busy, Refuse(w),
           cut' = [cut EXCEPT ![w] = cut[w] + Uncounted(w)],
           UNCHANGED <<turn, path, sent, backlog, next, total, pipeline>>
    PROVE  IInv'
<1>1. /\ TypeOK /\ OwnAnswer /\ WorkerOK(w) /\ serving[w].client \in Clients
      /\ next \in [Workers -> Token] /\ cut \in [Workers -> Nat]
  BY DEF IInv, TypeOK
<1>2. Uncounted(w) \in Nat
  BY <1>1, UncountedType
<1>3. /\ next' = next /\ cut' \in [Workers -> Nat]
      /\ cut'[w] = cut[w] + Uncounted(w)
      /\ \A v \in Workers : v # w => cut'[v] = cut[v]
  <2>1. cut[w] + Uncounted(w) \in Nat
    BY <1>1, <1>2
  <2> QED
    BY <1>1, <2>1
<1>4. Close(w) /\ answers' = answers
  BY DEF Refuse
<1>5. /\ client' \in [Clients -> {"idle", "waiting", "ok", "error"}]
      /\ \A d \in Clients : client'[d] = "ok" => client[d] = "ok"
  BY <1>1, RefuseClient DEF Refuse
<1>6. /\ UNCHANGED <<turn, path, sent, backlog, answers, total>>
      /\ UNCHANGED <<frames, results, flight, broken, lost>>
  BY <1>4 DEF pipeline
<1>7. TypeOK'
  <2>1. /\ server' \in [Workers -> {"down", "accept"} \cup Busy]
        /\ serving' \in [Workers -> Serving]
        /\ \A v \in Workers : IF server'[v] \in Busy
                              THEN serving'[v].client \in Clients ELSE serving'[v] = NoBatch
    BY <1>1, <1>4, CloseType
  <2>2. /\ turn' \in Workers /\ path' \in [Clients -> Workers] /\ sent' \in [Clients -> Nat]
        /\ answers' \in [Clients -> Seq(Response)] /\ backlog' \in [Workers -> Seq(Clients)]
        /\ total' \in [Workers -> Nat] /\ frames' \in [Workers -> Nat]
        /\ results' \in [Workers -> Numbering] /\ flight' \in [Workers -> Numbering]
        /\ broken' \in [Workers -> SUBSET SourceSlots] /\ lost' \in [Workers -> Nat]
        /\ next' \in [Workers -> Token]
    BY <1>1, <1>3, <1>6 DEF TypeOK
  <2> QED
    BY <1>3, <1>5, <2>1, <2>2 DEF TypeOK
<1>8. OwnAnswer'
  BY <1>1, <1>4, <1>5, AnswersKept
<1>9. WorkerOK(w)'
  BY <1>1, <1>3, <1>4, <1>6, ClosedOK
<1>10. \A v \in Workers : v # w => Untouched(v)
  BY <1>1, <1>3, <1>4, <1>6, CloseType DEF Untouched
<1> QED
  BY <1>7, <1>8, <1>9, <1>10, OneWorker

\* The batch cannot be read to its end.
LEMMA ReadFailsIInv == ASSUME IInv, NEW w \in Workers, ReadFails(w) PROVE IInv'
<1>1. /\ server[w] \in {"size", "read"} /\ server[w] \in Busy
      /\ cut' = [cut EXCEPT ![w] = cut[w] + ReadSoFar(w)]
      /\ Refuse(w) /\ UNCHANGED <<turn, path, sent, backlog, next, total, pipeline>>
  BY DEF ReadFails, Busy
<1>2. ReadSoFar(w) = Uncounted(w)
  <2>1. CASE server[w] = "size"
    BY <2>1, FS_EmptySet DEF IInv, WorkerOK, BatchOK, ReadSoFar, Uncounted
  <2>2. CASE server[w] = "read"
    BY <2>2 DEF Uncounted
  <2> QED
    BY <1>1, <2>1, <2>2
<1>3. cut' = [cut EXCEPT ![w] = cut[w] + Uncounted(w)]
  BY <1>1, <1>2
<1> QED
  BY <1>1, <1>3, RefusedIInv

\* The frames do not come in time.
LEMMA WaitTimeoutIInv == ASSUME IInv, NEW w \in Workers, WaitTimeout(w) PROVE IInv'
<1>1. cut \in [Workers -> Nat] /\ server[w] = "wait" /\ server[w] \in Busy
  BY DEF IInv, TypeOK, WaitTimeout, Busy
<1>2. cut' = [cut EXCEPT ![w] = cut[w] + Uncounted(w)]
  BY <1>1 DEF WaitTimeout, Uncounted
<1>3. Refuse(w) /\ UNCHANGED <<turn, path, sent, backlog, next, total, pipeline>>
  BY DEF WaitTimeout
<1> QED
  BY <1>1, <1>2, <1>3, RefusedIInv

\* A connection is taken from the backlog.
LEMMA AcceptIInv == ASSUME IInv, NEW w \in Workers, Accept(w) PROVE IInv'
<1>1. /\ TypeOK /\ OwnAnswer /\ WorkerOK(w) /\ server[w] = "accept"
      /\ backlog \in [Workers -> Seq(Clients)] /\ backlog[w] # << >>
  BY DEF IInv, Accept, TypeOK
<1>2. PICK c \in Clients, queue \in Seq(Clients) : c = Head(backlog[w]) /\ queue = Tail(backlog[w])
  <2>1. backlog[w] \in Seq(Clients)
    BY <1>1
  <2>2. Head(backlog[w]) \in Clients /\ Tail(backlog[w]) \in Seq(Clients)
    BY <1>1, <2>1
  <2> QED
    BY <2>2
<1>3. PICK b \in Serving : b.client = c /\ DOMAIN b.ids = {} /\ b = [NoBatch EXCEPT !.client = c]
  <2> DEFINE b == [client |-> c, ids |-> << >>, found |-> << >>]
  <2>1. b \in Serving /\ b.client = c /\ DOMAIN b.ids = {}
    BY NumberingEmpty DEF Serving
  <2>2. b = [NoBatch EXCEPT !.client = c]
    BY DEF NoBatch
  <2> HIDE DEF b
  <2> QED
    BY <2>1, <2>2
<1>4. /\ UNCHANGED <<turn, client, path, sent, answers, next, total, cut>>
      /\ UNCHANGED <<frames, results, flight, broken, lost>>
      /\ backlog' = [backlog EXCEPT ![w] = queue]
      /\ server' = [server EXCEPT ![w] = "size"] /\ serving' = [serving EXCEPT ![w] = b]
  BY <1>2, <1>3 DEF Accept, pipeline
<1>5. /\ server' \in [Workers -> {"down", "accept"} \cup Busy]
      /\ serving' \in [Workers -> Serving]
      /\ server'[w] = "size" /\ serving'[w] = b
      /\ \A v \in Workers : v # w => server'[v] = server[v] /\ serving'[v] = serving[v]
      /\ \A v \in Workers : IF server'[v] \in Busy
                            THEN serving'[v].client \in Clients ELSE serving'[v] = NoBatch
  <2>1. "size" \in Busy
    BY DEF Busy
  <2> QED
    BY <1>1, <1>3, <1>4, <2>1, MoveType
<1>6. TypeOK'
  <2>1. backlog' \in [Workers -> Seq(Clients)]
    BY <1>1, <1>2, <1>4
  <2>2. /\ turn' \in Workers /\ path' \in [Clients -> Workers] /\ sent' \in [Clients -> Nat]
        /\ client' \in [Clients -> {"idle", "waiting", "ok", "error"}]
        /\ answers' \in [Clients -> Seq(Response)] /\ next' \in [Workers -> Token]
        /\ total' \in [Workers -> Nat] /\ frames' \in [Workers -> Nat]
        /\ results' \in [Workers -> Numbering] /\ flight' \in [Workers -> Numbering]
        /\ broken' \in [Workers -> SUBSET SourceSlots] /\ lost' \in [Workers -> Nat]
        /\ cut' \in [Workers -> Nat]
    BY <1>1, <1>4 DEF TypeOK
  <2> QED
    BY <1>5, <2>1, <2>2 DEF TypeOK
<1>7. OwnAnswer'
  BY <1>1, <1>4, AnswersKept
<1>8. BatchOK(w)' /\ FlightOK(w)' /\ ImagesOK(w)'
  BY <1>1, <1>3, <1>4, <1>5 DEF WorkerOK, BatchOK, FlightOK, ImagesOK
<1>9. CountOK(w)'
  <2>1. Uncounted(w)' = Uncounted(w)
    BY <1>1, <1>5 DEF Uncounted
  <2> QED
    BY <1>1, <1>4, <2>1 DEF WorkerOK, CountOK
<1>10. \A v \in Workers : v # w => Untouched(v)
  BY <1>4, <1>5 DEF Untouched
<1> QED
  BY <1>6, <1>7, <1>8, <1>9, <1>10, OneWorker DEF WorkerOK

\* The size of the batch is one that the worker takes.
LEMMA ReadSizeIInv == ASSUME IInv, NEW w \in Workers, ReadSize(w) PROVE IInv'
<1>1. /\ TypeOK /\ OwnAnswer /\ WorkerOK(w) /\ server[w] = "size"
      /\ DOMAIN serving[w].ids = {} /\ Batch[serving[w].client] \in 1 .. Slots
      /\ serving \in [Workers -> Serving] /\ next[w] \in Nat
  BY DEF IInv, ReadSize, TypeOK, Token, WorkerOK, BatchOK
<1>2. PICK b \in Serving : b = serving[w]
  BY <1>1
<1>3. /\ UNCHANGED <<turn, client, path, sent, answers, backlog, next, total, cut>>
      /\ UNCHANGED <<frames, results, flight, broken, lost>>
      /\ server' = [server EXCEPT ![w] = "read"] /\ serving' = [serving EXCEPT ![w] = b]
  <2>1. serving = [serving EXCEPT ![w] = b]
    BY <1>1, <1>2
  <2> QED
    BY <2>1 DEF ReadSize, pool, pipeline
<1>4. /\ server' \in [Workers -> {"down", "accept"} \cup Busy]
      /\ serving' \in [Workers -> Serving]
      /\ server'[w] = "read" /\ serving'[w] = b
      /\ \A v \in Workers : v # w => server'[v] = server[v] /\ serving'[v] = serving[v]
      /\ \A v \in Workers : IF server'[v] \in Busy
                            THEN serving'[v].client \in Clients ELSE serving'[v] = NoBatch
  <2>1. "read" \in Busy /\ b.client \in Clients
    BY <1>1, <1>2 DEF Busy, TypeOK
  <2> QED
    BY <1>1, <1>3, <2>1, MoveType
<1>5. TypeOK'
  <2>1. /\ turn' \in Workers /\ path' \in [Clients -> Workers] /\ sent' \in [Clients -> Nat]
        /\ client' \in [Clients -> {"idle", "waiting", "ok", "error"}]
        /\ answers' \in [Clients -> Seq(Response)] /\ backlog' \in [Workers -> Seq(Clients)]
        /\ next' \in [Workers -> Token]
        /\ total' \in [Workers -> Nat] /\ frames' \in [Workers -> Nat]
        /\ results' \in [Workers -> Numbering] /\ flight' \in [Workers -> Numbering]
        /\ broken' \in [Workers -> SUBSET SourceSlots] /\ lost' \in [Workers -> Nat]
        /\ cut' \in [Workers -> Nat]
    BY <1>1, <1>3 DEF TypeOK
  <2> QED
    BY <1>4, <2>1 DEF TypeOK
<1>6. OwnAnswer'
  BY <1>1, <1>3, AnswersKept
<1>7. BatchOK(w)'
  <2>1. Numbered(w, 0)'
    <3>1. next[w] - 0 .. next[w] - 1 = {}
      BY <1>1
    <3>2. DOMAIN serving'[w].ids = {} /\ next' = next
      BY <1>1, <1>2, <1>3, <1>4
    <3> QED
      BY <3>1, <3>2 DEF Numbered
  <2>2. 0 \in 0 .. Slots - 1 /\ 0 < Batch[b.client] /\ Batch[b.client] \in 1 .. Slots
    BY <1>1, <1>2, ImageWorkerAssumption
  <2> QED
    BY <1>4, <2>1, <2>2 DEF BatchOK
<1>8. CountOK(w)'
  <2>1. Uncounted(w)' = Uncounted(w)
    BY <1>1, <1>2, <1>4, FS_EmptySet DEF Uncounted, ReadSoFar
  <2> QED
    BY <1>1, <1>3, <2>1 DEF WorkerOK, CountOK
<1>9. FlightOK(w)' /\ ImagesOK(w)'
  BY <1>1, <1>2, <1>3, <1>4 DEF WorkerOK, FlightOK, ImagesOK, OwnImages
<1>10. \A v \in Workers : v # w => Untouched(v)
  BY <1>3, <1>4 DEF Untouched
<1> QED
  BY <1>5, <1>6, <1>7, <1>8, <1>9, <1>10, OneWorker DEF WorkerOK

\* The next image of the batch goes into the pipeline.
LEMMA PushIInv == ASSUME IInv, NEW w \in Workers, Push(w) PROVE IInv'
<1>1. /\ TypeOK /\ OwnAnswer /\ WorkerOK(w) /\ server[w] = "read"
      /\ serving \in [Workers -> Serving]
      /\ flight \in [Workers -> Numbering] /\ next \in [Workers -> Token] /\ total \in [Workers -> Nat]
      /\ serving[w].client \in Clients
  BY DEF IInv, Push, TypeOK
<1>2. PICK n \in 0 .. Slots - 1 : /\ ReadSoFar(w) = n /\ Numbered(w, n)
                                  /\ n < Batch[serving[w].client]
  BY <1>1, ReadCount
<1>3. PICK c \in Clients, size \in Nat, token \in Token, i \in 1 .. Slots, image \in Images :
         /\ c = serving[w].client /\ size = Batch[c] /\ token = next[w] /\ i = n + 1 /\ image = <<c, i>>
         /\ size <= Slots
  <2>1. n + 1 \in 1 .. Slots
    BY ImageWorkerAssumption
  <2>2. <<serving[w].client, n + 1>> \in Images /\ next[w] \in Token
    BY <1>1, <2>1 DEF Images
  <2>3. Batch[serving[w].client] \in Nat /\ Batch[serving[w].client] <= Slots
    BY <1>1, ImageWorkerAssumption DEF WorkerOK, BatchOK
  <2> QED
    BY <1>1, <2>1, <2>2, <2>3
<1>4. PICK ids \in Numbering :
         ids = [t \in DOMAIN serving[w].ids \cup {token} |-> IF t = token THEN image ELSE serving[w].ids[t]]
  <2>1. serving[w].ids \in Numbering
    BY <1>1 DEF Serving
  <2> QED
    BY <2>1, NumberingGrows
<1>5. PICK inside \in Numbering :
         inside = [t \in DOMAIN flight[w] \cup {token} |-> IF t = token THEN image ELSE flight[w][t]]
  <2>1. flight[w] \in Numbering
    BY <1>1
  <2> QED
    BY <2>1, NumberingGrows
<1>6. /\ DOMAIN ids = DOMAIN serving[w].ids \cup {token} /\ ids[token] = image
      /\ \A t \in DOMAIN serving[w].ids : t # token => ids[t] = serving[w].ids[t]
      /\ DOMAIN inside = DOMAIN flight[w] \cup {token} /\ inside[token] = image
      /\ \A t \in DOMAIN flight[w] : t # token => inside[t] = flight[w][t]
  BY <1>4, <1>5
<1>7. /\ next' = [next EXCEPT ![w] = token + 1]
      /\ serving' = [serving EXCEPT ![w].ids = ids]
      /\ flight' = [flight EXCEPT ![w] = inside]
      /\ IF i = size
         THEN total' = [total EXCEPT ![w] = total[w] + i] /\ server' = [server EXCEPT ![w] = "wait"]
         ELSE UNCHANGED <<total, server>>
      /\ UNCHANGED <<turn, client, path, sent, answers, backlog, frames, results, broken, lost, cut>>
  BY <1>2, <1>3, <1>4, <1>5 DEF Push, PushJpeg, pool
<1>8. PICK b \in Serving :
         b.client = c /\ b.ids = ids /\ serving' = [serving EXCEPT ![w] = b]
  <2> DEFINE b == [serving[w] EXCEPT !.ids = ids]
  <2>1. b \in Serving /\ b.client = c /\ b.ids = ids
    BY <1>1, <1>3 DEF Serving
  <2>2. serving' = [serving EXCEPT ![w] = b]
    BY <1>1, <1>7
  <2> HIDE DEF b
  <2> QED
    BY <2>1, <2>2
<1>9. PICK q \in {"read", "wait"} : /\ q = IF i = size THEN "wait" ELSE "read"
                                    /\ server' = [server EXCEPT ![w] = q]
  <2>1. CASE i = size
    BY <1>7, <2>1
  <2>2. CASE i # size
    <3>1. server = [server EXCEPT ![w] = "read"]
      BY <1>1 DEF TypeOK
    <3> QED
      BY <1>7, <2>2, <3>1
  <2> QED
    BY <2>1, <2>2
<1>10. /\ server' \in [Workers -> {"down", "accept"} \cup Busy]
       /\ serving' \in [Workers -> Serving]
       /\ server'[w] = q /\ serving'[w] = b
       /\ \A v \in Workers : v # w => server'[v] = server[v] /\ serving'[v] = serving[v]
       /\ \A v \in Workers : IF server'[v] \in Busy
                             THEN serving'[v].client \in Clients ELSE serving'[v] = NoBatch
  <2>1. q \in Busy /\ q \in {"down", "accept"} \cup Busy
    BY DEF Busy
  <2> QED
    BY <1>1, <1>8, <1>9, <2>1, MoveType
<1>11. PICK counted \in Nat : /\ counted = (IF i = size THEN total[w] + i ELSE total[w])
                              /\ total' = [total EXCEPT ![w] = counted]
  <2>1. total[w] \in Nat /\ total[w] + i \in Nat
    BY <1>1
  <2>2. total = [total EXCEPT ![w] = total[w]]
    BY <1>1
  <2> QED
    BY <1>7, <2>1, <2>2
<1>12. /\ next' \in [Workers -> Token] /\ flight' \in [Workers -> Numbering] /\ total' \in [Workers -> Nat]
       /\ next'[w] = token + 1 /\ flight'[w] = inside /\ total'[w] = counted
       /\ \A v \in Workers : v # w => /\ next'[v] = next[v] /\ flight'[v] = flight[v] /\ total'[v] = total[v]
  <2>1. token + 1 \in Token
    BY DEF Token
  <2> QED
    BY <1>1, <1>7, <1>11, <2>1
<1>13. TypeOK'
  <2>1. /\ turn' \in Workers /\ path' \in [Clients -> Workers] /\ sent' \in [Clients -> Nat]
        /\ client' \in [Clients -> {"idle", "waiting", "ok", "error"}]
        /\ answers' \in [Clients -> Seq(Response)] /\ backlog' \in [Workers -> Seq(Clients)]
        /\ frames' \in [Workers -> Nat] /\ results' \in [Workers -> Numbering]
        /\ broken' \in [Workers -> SUBSET SourceSlots] /\ lost' \in [Workers -> Nat]
        /\ cut' \in [Workers -> Nat]
    BY <1>1, <1>7 DEF TypeOK
  <2> QED
    BY <1>10, <1>12, <2>1 DEF TypeOK
<1>14. OwnAnswer'
  BY <1>1, <1>7, AnswersKept
<1>15. BatchOK(w)'
  <2>1. Numbered(w, i)'
    <3>1. token \in Nat /\ n \in Nat /\ i = n + 1
      BY <1>3, ImageWorkerAssumption DEF Token
    <3>2. /\ DOMAIN serving[w].ids = token - n .. token - 1
          /\ \A t \in DOMAIN serving[w].ids : serving[w].ids[t] = <<c, t - (token - n) + 1>>
      BY <1>2, <1>3 DEF Numbered
    <3>3. /\ DOMAIN ids = (token + 1) - i .. (token + 1) - 1
          /\ token - ((token + 1) - i) + 1 = i /\ (token + 1) - i = token - n
      <4>1. /\ token - ((token + 1) - i) + 1 = i /\ (token + 1) - i = token - n
            /\ (token + 1) - 1 = token
        BY <3>1
      <4>2. (token - n .. token - 1) \cup {token} = token - n .. token
        BY <3>1
      <4> QED
        BY <1>6, <3>2, <4>1, <4>2
    <3>4. ASSUME NEW t \in DOMAIN ids PROVE ids[t] = <<c, t - ((token + 1) - i) + 1>>
      <4>1. CASE t = token
        BY <1>3, <1>6, <3>3, <4>1
      <4>2. CASE t # token
        BY <1>6, <3>2, <3>3, <4>2
      <4> QED
        BY <4>1, <4>2
    <3> QED
      BY <1>8, <1>10, <1>12, <3>3, <3>4 DEF Numbered
  <2>2. CASE i = size
    BY <1>3, <1>8, <1>9, <1>10, <2>1, <2>2 DEF BatchOK
  <2>3. CASE i # size
    <3>1. i < size /\ i \in 0 .. Slots - 1 /\ size \in 1 .. Slots
      BY <1>2, <1>3, <2>3, ImageWorkerAssumption
    <3> QED
      BY <1>3, <1>8, <1>9, <1>10, <2>1, <2>3, <3>1 DEF BatchOK
  <2> QED
    BY <2>2, <2>3
<1>16. /\ token \notin DOMAIN flight[w] /\ token \notin DOMAIN serving[w].ids
       /\ token \notin DOMAIN results[w]
  <2>1. DOMAIN flight[w] \subseteq 1 .. token - 1 /\ DOMAIN results[w] \subseteq 1 .. token - 1
    BY <1>1, <1>3 DEF WorkerOK, FlightOK, ImagesOK
  <2>2. DOMAIN serving[w].ids = token - n .. token - 1
    BY <1>2, <1>3 DEF Numbered
  <2> QED
    BY <2>1, <2>2 DEF Token
<1>17. CountOK(w)'
  <2>1. /\ IsFiniteSet(DOMAIN flight[w]) /\ Cardinality(DOMAIN flight[w]) \in Nat
        /\ frames[w] + Cardinality(DOMAIN flight[w]) + lost[w] = total[w] + cut[w] + n
    BY <1>1, <1>2, FS_CardinalityType DEF WorkerOK, CountOK, Uncounted
  <2>2. /\ IsFiniteSet(DOMAIN inside)
        /\ Cardinality(DOMAIN inside) = Cardinality(DOMAIN flight[w]) + 1
    BY <1>6, <1>16, <2>1, FS_AddElement
  <2>3. Uncounted(w)' = IF i = size THEN 0 ELSE i
    <3>1. n \in Nat /\ IsFiniteSet(DOMAIN serving[w].ids)
      <4>1. PICK a \in Int, e \in Int : a = token - n /\ e = token - 1
        BY <1>3 DEF Token
      <4>2. DOMAIN serving[w].ids = a .. e
        BY <1>2, <1>3, <4>1 DEF Numbered
      <4>3. n \in Nat
        BY ImageWorkerAssumption
      <4> QED
        BY <4>2, <4>3, FS_Interval
    <3>2. Cardinality(DOMAIN ids) = i
      BY <1>2, <1>3, <1>6, <1>16, <3>1, FS_AddElement DEF ReadSoFar
    <3> QED
      BY <1>8, <1>9, <1>10, <3>2 DEF Uncounted, ReadSoFar
  <2>4. frames[w] \in Nat /\ lost[w] \in Nat /\ cut[w] \in Nat /\ total[w] \in Nat
    BY <1>1 DEF TypeOK
  <2>5. frames'[w] = frames[w] /\ lost'[w] = lost[w] /\ cut'[w] = cut[w]
    BY <1>7
  <2>6. frames[w] + (Cardinality(DOMAIN flight[w]) + 1) + lost[w]
           = counted + cut[w] + (IF i = size THEN 0 ELSE i)
    BY <1>3, <1>11, <2>1, <2>4
  <2> QED
    BY <1>12, <2>2, <2>3, <2>5, <2>6 DEF CountOK
<1>18. FlightOK(w)'
  <2>1. DOMAIN inside \subseteq 1 .. (token + 1) - 1
    BY <1>1, <1>3, <1>6 DEF WorkerOK, FlightOK, Token
  <2>2. lost[w] = 0 => DOMAIN ids \subseteq DOMAIN results[w] \cup DOMAIN inside
    BY <1>1, <1>6 DEF WorkerOK, FlightOK
  <2> QED
    BY <1>7, <1>8, <1>10, <1>12, <2>1, <2>2 DEF FlightOK
<1>19. ImagesOK(w)'
  <2>1. DOMAIN results[w] \subseteq 1 .. (token + 1) - 1
    BY <1>1, <1>3 DEF WorkerOK, ImagesOK, Token
  <2>2. OwnImages(serving[w].ids, flight[w]) /\ OwnImages(serving[w].ids, results[w])
    BY <1>1 DEF WorkerOK, ImagesOK
  <2>3. OwnImages(ids, inside)
    <3>1. ASSUME NEW t \in DOMAIN ids \cap DOMAIN inside PROVE inside[t] = ids[t]
      <4>1. CASE t = token
        BY <1>6, <4>1
      <4>2. CASE t # token
        BY <1>6, <2>2, <4>2 DEF OwnImages
      <4> QED
        BY <4>1, <4>2
    <3> QED
      BY <3>1 DEF OwnImages
  <2>4. OwnImages(ids, results[w])
    BY <1>6, <1>16, <2>2 DEF OwnImages
  <2> QED
    BY <1>7, <1>8, <1>10, <1>12, <2>1, <2>3, <2>4 DEF ImagesOK
<1>20. \A v \in Workers : v # w => Untouched(v)
  BY <1>7, <1>10, <1>12 DEF Untouched
<1> QED
  BY <1>13, <1>14, <1>15, <1>17, <1>18, <1>19, <1>20, OneWorker DEF WorkerOK

\* The frames are there and their results are taken.
LEMMA TakeResultsIInv == ASSUME IInv, NEW w \in Workers, TakeResults(w) PROVE IInv'
<1>1. /\ TypeOK /\ OwnAnswer /\ WorkerOK(w) /\ server[w] = "wait"
      /\ serving \in [Workers -> Serving]
      /\ serving[w].client \in Clients /\ results \in [Workers -> Numbering]
  BY DEF IInv, TakeResults, TypeOK, Busy
<1>2. PICK found \in Numbering :
         found = [t \in DOMAIN results[w] \cap DOMAIN serving[w].ids |-> results[w][t]]
  <2>1. results[w] \in Numbering
    BY <1>1
  <2> QED
    BY <2>1, NumberingShrinks
<1>3. PICK b \in Serving :
         /\ b.client = serving[w].client /\ b.ids = serving[w].ids /\ b.found = found
         /\ b = [serving[w] EXCEPT !.found = found]
  <2> DEFINE b == [serving[w] EXCEPT !.found = found]
  <2>1. b \in Serving /\ b.client = serving[w].client /\ b.ids = serving[w].ids /\ b.found = found
    BY <1>1 DEF Serving
  <2> HIDE DEF b
  <2> QED
    BY <2>1 DEF b
<1>4. /\ server' = [server EXCEPT ![w] = "write"] /\ serving' = [serving EXCEPT ![w] = b]
      /\ results' = [results EXCEPT ![w] = << >>]
      /\ UNCHANGED <<turn, client, path, sent, answers, backlog, next, total, frames, flight, broken, lost, cut>>
  <2>1. serving' = [serving EXCEPT ![w].found = found]
    BY <1>2 DEF TakeResults
  <2>2. serving' = [serving EXCEPT ![w] = b]
    BY <1>1, <1>3, <2>1
  <2> QED
    BY <2>2 DEF TakeResults, pool
<1>5. "write" \in Busy
  BY DEF Busy
<1>6. /\ server' \in [Workers -> {"down", "accept"} \cup Busy]
      /\ serving' \in [Workers -> Serving]
      /\ server'[w] = "write" /\ serving'[w] = b
      /\ \A v \in Workers : v # w => server'[v] = server[v] /\ serving'[v] = serving[v]
      /\ \A v \in Workers : IF server'[v] \in Busy
                            THEN serving'[v].client \in Clients ELSE serving'[v] = NoBatch
  BY <1>1, <1>3, <1>4, <1>5, MoveType
<1>7. /\ results' \in [Workers -> Numbering] /\ \A v \in Workers : v # w => results'[v] = results[v]
      /\ DOMAIN results'[w] = {}
  BY <1>1, <1>4, NumberingEmpty
<1>8. TypeOK'
  <2>1. /\ turn' \in Workers /\ path' \in [Clients -> Workers] /\ sent' \in [Clients -> Nat]
        /\ client' \in [Clients -> {"idle", "waiting", "ok", "error"}]
        /\ answers' \in [Clients -> Seq(Response)] /\ backlog' \in [Workers -> Seq(Clients)]
        /\ next' \in [Workers -> Token] /\ total' \in [Workers -> Nat]
        /\ frames' \in [Workers -> Nat] /\ flight' \in [Workers -> Numbering]
        /\ broken' \in [Workers -> SUBSET SourceSlots] /\ lost' \in [Workers -> Nat]
        /\ cut' \in [Workers -> Nat]
    BY <1>1, <1>4 DEF TypeOK
  <2> QED
    BY <1>6, <1>7, <2>1 DEF TypeOK
<1>9. OwnAnswer'
  BY <1>1, <1>4, AnswersKept
<1>10. BatchOK(w)'
  <2>1. Numbered(w, Batch[serving[w].client])'
    <3>1. Numbered(w, Batch[serving[w].client])
      BY <1>1 DEF WorkerOK, BatchOK
    <3> QED
      BY <1>3, <1>4, <1>6, <3>1 DEF Numbered
  <2>2. Taken(w)'
    <3>1. OwnImages(serving[w].ids, results[w])
      BY <1>1 DEF WorkerOK, ImagesOK
    <3>2. \A t \in DOMAIN found : t \in DOMAIN b.ids /\ found[t] = b.ids[t]
      BY <1>2, <1>3, <3>1 DEF OwnImages
    <3> QED
      BY <1>3, <1>6, <3>2 DEF Taken
  <2> QED
    BY <1>6, <2>1, <2>2 DEF BatchOK
<1>11. CountOK(w)'
  BY <1>1, <1>4, <1>6 DEF WorkerOK, CountOK, Uncounted
<1>12. FlightOK(w)' /\ ImagesOK(w)'
  BY <1>1, <1>4, <1>6, <1>7 DEF WorkerOK, FlightOK, ImagesOK
<1>13. \A v \in Workers : v # w => Untouched(v)
  BY <1>4, <1>6, <1>7 DEF Untouched
<1> QED
  BY <1>8, <1>9, <1>10, <1>11, <1>12, <1>13, OneWorker DEF WorkerOK

\* When as many answers are taken as a batch has images, they are all of its
\* images, in order.
LEMMA AllInOrder ==
    ASSUME NEW ids, NEW c, NEW first \in Int, NEW n \in Nat, FromFirst(ids, c, first, n)
    PROVE  /\ IsFiniteSet(DOMAIN ids)
           /\ Cardinality(DOMAIN ids) = n => Sorted(ids) = InOrder(c, n)
<1>1. PICK b \in Int : first <= b + 1 /\ b + 1 - first = n /\ b = first + n - 1
  OBVIOUS
<1>2. IsFiniteSet(first .. b) /\ Cardinality(first .. b) = n
  BY <1>1, IntervalSize
<1>3. DOMAIN ids \in SUBSET (first .. b)
  BY <1>1 DEF FromFirst
<1>4. IsFiniteSet(DOMAIN ids)
  BY <1>2, <1>3, FS_Subset
<1>5. ASSUME Cardinality(DOMAIN ids) = n PROVE Sorted(ids) = InOrder(c, n)
  <2>1. DOMAIN ids = first .. first + n - 1
    BY <1>1, <1>2, <1>3, <1>5, FS_Subset
  <2>2. Sorted(ids) = [k \in 1 .. n |-> ids[first + k - 1]]
    BY <2>1, SortedInOrder
  <2>3. ASSUME NEW k \in 1 .. n PROVE ids[first + k - 1] = <<<<c, k>>, <<c, k>>>>
    <3>1. PICK t \in DOMAIN ids : t = first + k - 1 /\ t - first + 1 = k
      BY <2>1
    <3> QED
      BY <3>1 DEF FromFirst
  <2> QED
    BY <2>2, <2>3 DEF InOrder
<1> QED
  BY <1>4, <1>5

\* What a worker has taken for its client is finite, and in order if complete.
LEMMA SentInOrder ==
    ASSUME TypeOK, NEW w \in Workers, serving[w].client \in Clients, Taken(w),
           Numbered(w, Batch[serving[w].client])
    PROVE  LET found == Responses(serving[w])
               size == Batch[serving[w].client]
           IN /\ DOMAIN found \in SUBSET Int /\ IsFiniteSet(DOMAIN found)
              /\ \A t \in DOMAIN found : found[t] \in Response
              /\ Cardinality(DOMAIN found) = size => Sorted(found) = InOrder(serving[w].client, size)
<1>1. PICK c \in Clients, n \in Nat, m \in Nat :
         c = serving[w].client /\ n = Batch[c] /\ m = next[w]
  BY ImageWorkerAssumption DEF TypeOK, Token
<1>2. PICK first \in Int : first = m - n /\ first + n - 1 = m - 1
  OBVIOUS
<1>3. PICK ids \in Numbering, taken \in Numbering : ids = serving[w].ids /\ taken = serving[w].found
  BY DEF TypeOK, Serving
<1>4. PICK found : found = Responses(serving[w])
  OBVIOUS
<1>5. DOMAIN found = DOMAIN taken /\ \A t \in DOMAIN taken : found[t] = <<ids[t], taken[t]>>
  BY <1>3, <1>4 DEF Responses
<1>6. /\ DOMAIN ids = first .. first + n - 1
      /\ \A t \in DOMAIN ids : ids[t] = <<c, t - first + 1>>
      /\ \A t \in DOMAIN taken : t \in DOMAIN ids /\ taken[t] = ids[t]
  BY <1>1, <1>2, <1>3 DEF Numbered, Taken
<1>7. FromFirst(found, c, first, n)
  BY <1>5, <1>6 DEF FromFirst
<1>8. DOMAIN found \in SUBSET Int
  BY <1>5, <1>6
<1>9. \A t \in DOMAIN found : found[t] \in Response
  <2>1. /\ \A t \in DOMAIN ids : ids[t] \in Images
        /\ \A t \in DOMAIN taken : taken[t] \in Images
    BY DEF Numbering
  <2>2. ASSUME NEW t \in DOMAIN found PROVE found[t] \in Response
    <3>1. PICK image \in Images, faces \in Images : image = ids[t] /\ faces = taken[t]
      BY <1>5, <1>6, <2>1
    <3>2. found[t] = <<image, faces>>
      BY <1>5, <3>1
    <3> QED
      BY <3>2 DEF Response
  <2> QED
    BY <2>2
<1>10. /\ IsFiniteSet(DOMAIN found)
       /\ Cardinality(DOMAIN found) = n => Sorted(found) = InOrder(c, n)
  BY <1>7, AllInOrder
<1> QED
  BY <1>1, <1>4, <1>8, <1>9, <1>10

\* The answers are written, and the connection is closed.
LEMMA RespondIInv == ASSUME IInv, NEW w \in Workers, Respond(w) PROVE IInv'
<1>1. /\ TypeOK /\ OwnAnswer /\ WorkerOK(w) /\ server[w] = "write"
      /\ client \in [Clients -> {"idle", "waiting", "ok", "error"}]
      /\ answers \in [Clients -> Seq(Response)]
  BY DEF IInv, Respond, TypeOK
<1>2. PICK c \in Clients : c = serving[w].client
  BY <1>1 DEF TypeOK, Busy
<1>3. PICK found : /\ found = Responses(serving[w])
                   /\ DOMAIN found \in SUBSET Int /\ IsFiniteSet(DOMAIN found)
                   /\ \A t \in DOMAIN found : found[t] \in Response
                   /\ Cardinality(DOMAIN found) = Batch[c] => Sorted(found) = InOrder(c, Batch[c])
  <2>1. Taken(w) /\ Numbered(w, Batch[serving[w].client]) /\ serving[w].client \in Clients
    BY <1>1, <1>2 DEF WorkerOK, BatchOK
  <2> QED
    BY <1>1, <1>2, <2>1, SentInOrder
<1>4. PICK responses \in Seq(Response) :
         responses = Sorted(found) /\ Len(responses) = Cardinality(DOMAIN found)
  BY <1>3, SortedType
<1>5. /\ UNCHANGED <<turn, path, sent, backlog, next, total, cut>>
      /\ UNCHANGED <<frames, results, flight, broken, lost>> /\ Close(w)
      /\ IF Connected(c)
         THEN /\ answers' = [answers EXCEPT ![c] = responses]
              /\ client' = [client EXCEPT ![c] = IF Satisfied(c, responses) THEN "ok" ELSE "error"]
         ELSE UNCHANGED <<answers, client>>
  <2>1. responses = Sorted(Responses(serving[w]))
    BY <1>3, <1>4
  <2> QED
    BY <1>2, <2>1 DEF Respond, pipeline
<1>6. /\ client' \in [Clients -> {"idle", "waiting", "ok", "error"}]
      /\ answers' \in [Clients -> Seq(Response)] /\ OwnAnswer'
  <2>1. CASE Connected(c)
    <3>1. /\ client' \in [Clients -> {"idle", "waiting", "ok", "error"}]
          /\ answers' \in [Clients -> Seq(Response)] /\ answers'[c] = responses
          /\ client'[c] = "ok" => Satisfied(c, responses)
          /\ \A d \in Clients : d # c => answers'[d] = answers[d] /\ client'[d] = client[d]
      BY <1>1, <1>5, <2>1
    <3>2. client'[c] = "ok" => answers'[c] = [i \in 1 .. Batch[c] |-> <<<<c, i>>, <<c, i>>>>]
      BY <1>3, <1>4, <3>1 DEF Satisfied, InOrder
    <3> QED
      BY <1>1, <3>1, <3>2 DEF OwnAnswer
  <2>2. CASE ~Connected(c)
    BY <1>1, <1>5, <2>2, AnswersKept
  <2> QED
    BY <2>1, <2>2
<1>7. TypeOK'
  <2>1. /\ server' \in [Workers -> {"down", "accept"} \cup Busy]
        /\ serving' \in [Workers -> Serving]
        /\ \A v \in Workers : IF server'[v] \in Busy
                              THEN serving'[v].client \in Clients ELSE serving'[v] = NoBatch
    BY <1>1, <1>5, CloseType
  <2>2. /\ turn' \in Workers /\ path' \in [Clients -> Workers]
        /\ sent' \in [Clients -> Nat] /\ backlog' \in [Workers -> Seq(Clients)]
        /\ next' \in [Workers -> Token] /\ total' \in [Workers -> Nat] /\ frames' \in [Workers -> Nat]
        /\ results' \in [Workers -> Numbering] /\ flight' \in [Workers -> Numbering]
        /\ broken' \in [Workers -> SUBSET SourceSlots] /\ lost' \in [Workers -> Nat]
        /\ cut' \in [Workers -> Nat]
    BY <1>1, <1>5 DEF TypeOK
  <2> QED
    BY <1>6, <2>1, <2>2 DEF TypeOK
<1>8. WorkerOK(w)'
  <2>1. cut[w] + Uncounted(w) = cut[w]
    <3>1. cut[w] \in Nat
      BY <1>1 DEF TypeOK
    <3>2. Uncounted(w) = 0
      BY <1>1 DEF Uncounted
    <3> QED
      BY <3>1, <3>2
  <2> QED
    BY <1>1, <1>5, <2>1, ClosedOK
<1>9. \A v \in Workers : v # w => Untouched(v)
  BY <1>1, <1>5, CloseType DEF Untouched
<1> QED
  BY <1>6, <1>7, <1>8, <1>9, OneWorker

-----------------------------------------------------------------------------
(* The pipeline's threads and the process *)

\* Frames leave the pipeline.
LEMMA LeaveOK ==
    ASSUME TypeOK, NEW w \in Workers, WorkerOK(w), NEW out \in SUBSET DOMAIN flight[w], Leave(w, out)
    PROVE  /\ flight' \in [Workers -> Numbering] /\ \A v \in Workers : v # w => flight'[v] = flight[v]
           /\ DOMAIN flight'[w] = DOMAIN flight[w] \ out /\ IsFiniteSet(DOMAIN flight'[w])
           /\ \A t \in DOMAIN flight'[w] : flight'[w][t] = flight[w][t]
           /\ IsFiniteSet(out) /\ Cardinality(out) \in Nat /\ Cardinality(DOMAIN flight'[w]) \in Nat
           /\ Cardinality(DOMAIN flight'[w]) + Cardinality(out) = Cardinality(DOMAIN flight[w])
<1>1. flight \in [Workers -> Numbering] /\ flight[w] \in Numbering
  BY DEF TypeOK
<1>2. PICK rest \in Numbering : rest = [t \in DOMAIN flight[w] \ out |-> flight[w][t]]
  BY <1>1, NumberingShrinks
<1>3. DOMAIN rest = DOMAIN flight[w] \ out /\ flight' = [flight EXCEPT ![w] = rest]
  BY <1>2 DEF Leave
<1>4. /\ flight' \in [Workers -> Numbering] /\ \A v \in Workers : v # w => flight'[v] = flight[v]
      /\ flight'[w] = rest /\ DOMAIN flight'[w] = DOMAIN flight[w] \ out
  BY <1>1, <1>3
<1>5. IsFiniteSet(DOMAIN flight[w])
  BY DEF WorkerOK, CountOK
<1>6. \A t \in DOMAIN flight'[w] : flight'[w][t] = flight[w][t]
  BY <1>2, <1>4
<1> QED
  BY <1>4, <1>5, <1>6, SplitSize

\* The state of main() is left alone.
LEMMA ServerUnchanged ==
    ASSUME IInv, NEW w \in Workers, UNCHANGED <<server, serving, next, total, cut>>,
           frames' \in [Workers -> Nat], results' \in [Workers -> Numbering],
           flight' \in [Workers -> Numbering], broken' \in [Workers -> SUBSET SourceSlots],
           lost' \in [Workers -> Nat], UNCHANGED pool,
           \A v \in Workers : v # w => /\ frames'[v] = frames[v] /\ results'[v] = results[v]
                                       /\ flight'[v] = flight[v] /\ lost'[v] = lost[v],
           CountOK(w)', FlightOK(w)', ImagesOK(w)'
    PROVE  IInv'
<1>1. TypeOK /\ OwnAnswer /\ WorkerOK(w) /\ UNCHANGED <<turn, client, path, sent, answers, backlog>>
  BY DEF IInv, pool
<1>2. TypeOK'
  BY <1>1 DEF TypeOK
<1>3. OwnAnswer'
  BY <1>1, AnswersKept
<1>4. BatchOK(w)'
  BY <1>1 DEF WorkerOK, BatchOK, Numbered, Taken
<1>5. \A v \in Workers : v # w => Untouched(v)
  BY DEF Untouched
<1> QED
  BY <1>2, <1>3, <1>4, <1>5, OneWorker DEF WorkerOK

\* Frames come out.
LEMMA OnBufferIInv == ASSUME IInv, NEW w \in Workers, OnBuffer(w) PROVE IInv'
<1>1. /\ TypeOK /\ WorkerOK(w) /\ frames \in [Workers -> Nat] /\ results \in [Workers -> Numbering]
      /\ flight[w] \in Numbering /\ results[w] \in Numbering
  BY DEF IInv, TypeOK
<1>2. PICK out \in SUBSET DOMAIN flight[w] :
         /\ frames' = [frames EXCEPT ![w] = frames[w] + Cardinality(out)]
         /\ results' = [results EXCEPT ![w] = [t \in DOMAIN results[w] \cup out |->
                                                 IF t \in out THEN flight[w][t] ELSE results[w][t]]]
         /\ Leave(w, out)
         /\ UNCHANGED <<pool, server, serving, next, total, broken, lost, cut>>
  BY DEF OnBuffer
<1>3. /\ flight' \in [Workers -> Numbering] /\ \A v \in Workers : v # w => flight'[v] = flight[v]
      /\ DOMAIN flight'[w] = DOMAIN flight[w] \ out /\ IsFiniteSet(DOMAIN flight'[w])
      /\ \A t \in DOMAIN flight'[w] : flight'[w][t] = flight[w][t]
      /\ Cardinality(out) \in Nat /\ Cardinality(DOMAIN flight'[w]) \in Nat
      /\ Cardinality(DOMAIN flight'[w]) + Cardinality(out) = Cardinality(DOMAIN flight[w])
  BY <1>1, <1>2, LeaveOK
<1>4. PICK found \in Numbering :
         found = [t \in DOMAIN results[w] \cup out |->
                     IF t \in out THEN flight[w][t] ELSE results[w][t]]
  BY <1>1, NumberingJoins
<1>5. /\ frames' \in [Workers -> Nat] /\ results' \in [Workers -> Numbering]
      /\ frames'[w] = frames[w] + Cardinality(out) /\ results'[w] = found
      /\ \A v \in Workers : v # w => frames'[v] = frames[v] /\ results'[v] = results[v]
  <2>1. frames[w] + Cardinality(out) \in Nat /\ results' = [results EXCEPT ![w] = found]
    BY <1>1, <1>2, <1>3, <1>4
  <2> QED
    BY <1>1, <1>2, <2>1
<1>6. DOMAIN found = DOMAIN results[w] \cup out
  BY <1>4
<1>7. broken' \in [Workers -> SUBSET SourceSlots] /\ lost' \in [Workers -> Nat]
  BY <1>1, <1>2 DEF TypeOK
<1>8. CountOK(w)'
  <2>1. Uncounted(w)' = Uncounted(w)
    BY <1>2 DEF Uncounted, ReadSoFar
  <2>2. frames[w] \in Nat /\ lost[w] \in Nat
    BY <1>1 DEF TypeOK
  <2>3. (frames[w] + Cardinality(out)) + Cardinality(DOMAIN flight'[w]) + lost[w]
           = frames[w] + Cardinality(DOMAIN flight[w]) + lost[w]
    BY <1>3, <2>2
  <2> QED
    BY <1>1, <1>2, <1>3, <1>5, <2>1, <2>3 DEF WorkerOK, CountOK
<1>9. FlightOK(w)'
  BY <1>1, <1>2, <1>3, <1>5, <1>6 DEF WorkerOK, FlightOK
<1>10. ImagesOK(w)'
  <2>1. DOMAIN found \subseteq 1 .. next[w] - 1
    BY <1>1, <1>6 DEF WorkerOK, FlightOK, ImagesOK
  <2>2. ASSUME server[w] \in {"read", "wait"}
        PROVE  OwnImages(serving[w].ids, flight'[w]) /\ OwnImages(serving[w].ids, found)
    <3>1. OwnImages(serving[w].ids, flight[w]) /\ OwnImages(serving[w].ids, results[w])
      BY <1>1, <2>2 DEF WorkerOK, ImagesOK
    <3>2. OwnImages(serving[w].ids, flight'[w])
      BY <1>3, <3>1 DEF OwnImages
    <3>3. OwnImages(serving[w].ids, found)
      BY <1>4, <3>1 DEF OwnImages
    <3> QED
      BY <3>2, <3>3
  <2> QED
    BY <1>2, <1>5, <2>1, <2>2 DEF ImagesOK
<1> QED
  BY <1>2, <1>3, <1>5, <1>7, <1>8, <1>9, <1>10, ServerUnchanged

\* A frame is dropped, and perhaps its slot stops.
LEMMA DecodeFailsIInv == ASSUME IInv, NEW w \in Workers, DecodeFails(w) PROVE IInv'
<1>1. /\ TypeOK /\ WorkerOK(w) /\ lost \in [Workers -> Nat] /\ flight[w] \in Numbering
      /\ broken \in [Workers -> SUBSET SourceSlots] /\ frames \in [Workers -> Nat]
  BY DEF IInv, TypeOK
<1>2. \A t \in DOMAIN flight[w] : flight[w][t] \in Images
  BY <1>1 DEF Numbering
<1>3. PICK t \in DOMAIN flight[w], stops \in BOOLEAN :
         /\ Leave(w, {t})
         /\ lost' = [lost EXCEPT ![w] = lost[w] + 1]
         /\ broken' = IF stops THEN [broken EXCEPT ![w] = @ \cup {Slot(w, t)}] ELSE broken
         /\ UNCHANGED <<pool, server, serving, next, total, frames, results, cut>>
  BY DEF DecodeFails
<1>4. PICK out \in SUBSET DOMAIN flight[w] : out = {t} /\ Leave(w, out)
  BY <1>3
<1>5. Cardinality(out) = 1
  BY <1>4, FS_Singleton
<1>6. /\ flight' \in [Workers -> Numbering] /\ \A v \in Workers : v # w => flight'[v] = flight[v]
      /\ DOMAIN flight'[w] = DOMAIN flight[w] \ out /\ IsFiniteSet(DOMAIN flight'[w])
      /\ \A u \in DOMAIN flight'[w] : flight'[w][u] = flight[w][u]
      /\ Cardinality(DOMAIN flight'[w]) \in Nat
      /\ Cardinality(DOMAIN flight'[w]) + Cardinality(out) = Cardinality(DOMAIN flight[w])
  BY <1>1, <1>4, LeaveOK
<1>7. /\ lost' \in [Workers -> Nat] /\ lost'[w] = lost[w] + 1 /\ lost'[w] > 0
      /\ \A v \in Workers : v # w => lost'[v] = lost[v]
  <2>1. lost[w] + 1 \in Nat /\ lost[w] + 1 > 0
    BY <1>1
  <2> QED
    BY <1>1, <1>3, <2>1
<1>8. broken' \in [Workers -> SUBSET SourceSlots]
  <2>1. Slot(w, t) \in SourceSlots
    <3>1. flight[w][t] \in Clients \X (1 .. Slots)
      BY <1>2 DEF Images
    <3>2. PICK c \in Clients, i \in 1 .. Slots : flight[w][t] = <<c, i>>
      BY <3>1
    <3>3. i - 1 \in 0 .. Slots - 1
      BY ImageWorkerAssumption
    <3> QED
      BY <3>2, <3>3 DEF Slot, SourceSlots
  <2>2. PICK closed \in SUBSET SourceSlots : closed = broken[w] \cup {Slot(w, t)}
    BY <1>1, <2>1
  <2>3. broken' = broken \/ broken' = [broken EXCEPT ![w] = closed]
    BY <1>3, <2>2
  <2> QED
    BY <1>1, <2>2, <2>3
<1>9. /\ UNCHANGED <<server, serving, next, total, cut>> /\ UNCHANGED pool
       /\ frames' = frames /\ results' = results
       /\ frames' \in [Workers -> Nat] /\ results' \in [Workers -> Numbering]
  BY <1>1, <1>3 DEF TypeOK
<1>10. CountOK(w)'
  <2>1. Uncounted(w)' = Uncounted(w)
    BY <1>9 DEF Uncounted, ReadSoFar
  <2>2. frames[w] \in Nat /\ lost[w] \in Nat
    BY <1>1
  <2>3. frames[w] + Cardinality(DOMAIN flight'[w]) + (lost[w] + 1)
           = frames[w] + Cardinality(DOMAIN flight[w]) + lost[w]
    BY <1>5, <1>6, <2>2
  <2> QED
    BY <1>1, <1>6, <1>7, <1>9, <2>1, <2>3 DEF WorkerOK, CountOK
<1>11. FlightOK(w)'
  BY <1>1, <1>6, <1>7, <1>9 DEF WorkerOK, FlightOK
<1>12. ImagesOK(w)'
  BY <1>1, <1>6, <1>9 DEF WorkerOK, ImagesOK, OwnImages
<1> QED
  BY <1>6, <1>7, <1>8, <1>9, <1>10, <1>11, <1>12, ServerUnchanged

\* The process dies: everything it counted is gone with what it counted.
LEMMA CrashIInv == ASSUME IInv, NEW w \in Workers, Crash(w) PROVE IInv'
<1>1. TypeOK /\ OwnAnswer
  BY DEF IInv
<1>2. NoBatch \in Serving /\ "down" \notin Busy
  BY NumberingEmpty DEF NoBatch, Serving, Busy
<1>3. /\ server' = [server EXCEPT ![w] = "down"] /\ serving' = [serving EXCEPT ![w] = NoBatch]
  BY DEF Crash
<1>4. /\ server' \in [Workers -> {"down", "accept"} \cup Busy]
      /\ serving' \in [Workers -> Serving]
      /\ server'[w] = "down"
      /\ \A v \in Workers : v # w => server'[v] = server[v] /\ serving'[v] = serving[v]
      /\ \A v \in Workers : IF server'[v] \in Busy
                            THEN serving'[v].client \in Clients ELSE serving'[v] = NoBatch
  BY <1>1, <1>2, <1>3, MoveType
<1>5. /\ client' \in [Clients -> {"idle", "waiting", "ok", "error"}]
      /\ \A d \in Clients : client'[d] = "ok" => client[d] = "ok"
  <2>1. client \in [Clients -> {"idle", "waiting", "ok", "error"}]
    BY <1>1 DEF TypeOK
  <2>2. \A d \in Clients : client'[d] \in {client[d], "error"}
    BY DEF Crash
  <2>3. client' = [d \in Clients |-> client'[d]]
    BY DEF Crash
  <2> QED
    BY <2>1, <2>2, <2>3
<1>6. backlog' \in [Workers -> Seq(Clients)]
  <2>1. backlog \in [Workers -> Seq(Clients)] /\ << >> \in Seq(Clients)
    BY <1>1 DEF TypeOK
  <2> QED
    BY <2>1 DEF Crash
<1>7. /\ next' \in [Workers -> Token] /\ \A v \in Workers : v # w => next'[v] = next[v]
  BY <1>1 DEF Crash, TypeOK, Token
<1>8. /\ total' \in [Workers -> Nat] /\ total'[w] = 0 /\ \A v \in Workers : v # w => total'[v] = total[v]
      /\ frames' \in [Workers -> Nat] /\ frames'[w] = 0 /\ \A v \in Workers : v # w => frames'[v] = frames[v]
  BY <1>1 DEF Crash, TypeOK
<1>9. /\ lost' \in [Workers -> Nat] /\ lost'[w] = 0 /\ \A v \in Workers : v # w => lost'[v] = lost[v]
      /\ cut' \in [Workers -> Nat] /\ cut'[w] = 0 /\ \A v \in Workers : v # w => cut'[v] = cut[v]
  BY <1>1 DEF Crash, TypeOK
<1>10. /\ results' \in [Workers -> Numbering] /\ DOMAIN results'[w] = {}
       /\ \A v \in Workers : v # w => results'[v] = results[v]
       /\ broken' \in [Workers -> SUBSET SourceSlots]
  BY <1>1, NumberingEmpty DEF Crash, TypeOK
<1>11. /\ flight' \in [Workers -> Numbering] /\ DOMAIN flight'[w] = {}
       /\ \A v \in Workers : v # w => flight'[v] = flight[v]
  BY <1>1, NumberingEmpty DEF Crash, TypeOK
<1>12. TypeOK'
  <2>1. /\ turn' \in Workers /\ path' \in [Clients -> Workers]
        /\ sent' \in [Clients -> Nat] /\ answers' \in [Clients -> Seq(Response)]
    BY <1>1 DEF Crash, TypeOK
  <2> QED
    BY <1>4, <1>5, <1>6, <1>7, <1>8, <1>9, <1>10, <1>11, <2>1 DEF TypeOK
<1>13. OwnAnswer'
  <2>1. answers' = answers
    BY DEF Crash
  <2> QED
    BY <1>1, <1>5, <2>1, AnswersKept
<1>14. WorkerOK(w)'
  <2>1. BatchOK(w)'
    BY <1>4 DEF BatchOK
  <2>2. CountOK(w)'
    BY <1>4, <1>8, <1>9, <1>11, FS_EmptySet DEF CountOK, Uncounted
  <2>3. FlightOK(w)'
    BY <1>4, <1>11 DEF FlightOK
  <2>4. ImagesOK(w)'
    BY <1>4, <1>10 DEF ImagesOK
  <2> QED
    BY <2>1, <2>2, <2>3, <2>4 DEF WorkerOK
<1>15. \A v \in Workers : v # w => Untouched(v)
  BY <1>4, <1>7, <1>8, <1>9, <1>10, <1>11 DEF Untouched
<1> QED
  BY <1>12, <1>13, <1>14, <1>15, OneWorker

\* The process is started again.
LEMMA RestartIInv == ASSUME IInv, NEW w \in Workers, Restart(w) PROVE IInv'
<1>1. /\ TypeOK /\ OwnAnswer /\ WorkerOK(w) /\ server[w] = "down"
      /\ server \in [Workers -> {"down", "accept"} \cup Busy]
  BY DEF IInv, Restart, TypeOK
<1>2. /\ UNCHANGED <<turn, client, path, sent, answers, backlog, serving, next, total, cut>>
      /\ UNCHANGED <<frames, results, flight, broken, lost>>
      /\ server' = [server EXCEPT ![w] = "accept"]
  BY DEF Restart, pool, pipeline
<1>3. /\ server' \in [Workers -> {"down", "accept"} \cup Busy]
      /\ server'[w] = "accept" /\ \A v \in Workers : v # w => server'[v] = server[v]
  BY <1>1, <1>2
<1>4. \A v \in Workers : IF server'[v] \in Busy
                         THEN serving'[v].client \in Clients ELSE serving'[v] = NoBatch
  BY <1>1, <1>2, <1>3 DEF TypeOK, Busy
<1>5. TypeOK'
  BY <1>1, <1>2, <1>3, <1>4 DEF TypeOK
<1>6. OwnAnswer'
  BY <1>1, <1>2, AnswersKept
<1>7. WorkerOK(w)'
  BY <1>1, <1>2, <1>3 DEF WorkerOK, BatchOK, CountOK, Uncounted, FlightOK, ImagesOK
<1>8. \A v \in Workers : v # w => Untouched(v)
  BY <1>2, <1>3 DEF Untouched
<1> QED
  BY <1>5, <1>6, <1>7, <1>8, OneWorker

-----------------------------------------------------------------------------
(* The theorems *)

\* Every step of a client, of a worker or of its pipeline keeps the invariant.
LEMMA NextIInv == IInv /\ [Next]_vars => IInv'
<1> SUFFICES ASSUME IInv, [Next]_vars PROVE IInv'
  OBVIOUS
<1>1. CASE \E c \in Clients : ClientStep(c)
  BY <1>1, ClientStepIInv
<1>2. ASSUME NEW w \in Workers, Serve(w) PROVE IInv'
  BY <1>2, AcceptIInv, ReadSizeIInv, PushIInv, ReadFailsIInv, TakeResultsIInv, WaitTimeoutIInv, RespondIInv DEF Serve
<1>3. ASSUME NEW w \in Workers, OnBuffer(w) \/ DecodeFails(w) \/ Crash(w) \/ Restart(w) PROVE IInv'
  BY <1>3, OnBufferIInv, DecodeFailsIInv, CrashIInv, RestartIInv
<1>4. CASE UNCHANGED vars
  <2>1. UNCHANGED <<turn, client, path, sent, answers, backlog, server, serving, next, total,
                    frames, results, flight, broken, lost, cut>>
    BY <1>4 DEF vars
  <2>2. TypeOK'
    BY <2>1 DEF IInv, TypeOK
  <2>3. OwnAnswer'
    BY <2>1, AnswersKept DEF IInv
  <2>4. \A v \in Workers : Untouched(v)
    BY <2>1 DEF Untouched
  <2> QED
    BY <2>2, <2>3, <2>4, OtherWorker DEF IInv
<1> QED
  BY <1>1, <1>2, <1>3, <1>4 DEF Next

\* The inductive invariant of the image workers: the tokens of the batch that
\* main() serves, and the balance between the frames it pushed and the counts
\* it compares, hold in every reachable state.
THEOREM Invariance == Spec => []IInv
<1> QED
  BY InitIInv, NextIInv, PTL DEF Spec

\* Every variable keeps its type: answers are images, slots are slots.
THEOREM TypeCorrect == Spec => []TypeOK
<1>1. IInv => TypeOK
  BY DEF IInv
<1> QED
  BY <1>1, Invariance, PTL

\* A client that main() satisfies got the results of its own images, each once
\* and in its order, for any number of workers, slots and clients, whatever was
\* late, lost, cut off or restarted before.
THEOREM Answered == Spec => []OwnAnswer
<1>1. IInv => OwnAnswer
  BY DEF IInv
<1> QED
  BY <1>1, Invariance, PTL

\* wait_for_frames on completed_total ends when the batch is there and not
\* before, unless an earlier batch was cut off or a frame was lost.
THEOREM Waited == Spec => []WaitIsExact
<1>1. IInv => WaitIsExact
  <2> SUFFICES ASSUME IInv, NEW w \in Workers, server[w] = "wait"
               PROVE  /\ cut[w] = 0 /\ FramesReady(w) => DOMAIN serving[w].ids \subseteq DOMAIN results[w]
                      /\ lost[w] = 0 /\ DOMAIN flight[w] = {} => FramesReady(w)
    BY DEF WaitIsExact
  <2>1. /\ frames[w] \in Nat /\ lost[w] \in Nat /\ cut[w] \in Nat /\ total[w] \in Nat
    BY DEF IInv, TypeOK
  <2>2. /\ IsFiniteSet(DOMAIN flight[w]) /\ Uncounted(w) = 0
        /\ frames[w] + Cardinality(DOMAIN flight[w]) + lost[w] = total[w] + cut[w] + Uncounted(w)
    BY DEF IInv, WorkerOK, CountOK, Uncounted
  <2>3. PICK inside \in Nat : /\ inside = Cardinality(DOMAIN flight[w])
                              /\ inside = 0 <=> DOMAIN flight[w] = {}
    BY <2>2, FS_CardinalityType, FS_EmptySet
  <2>4. frames[w] + inside + lost[w] = total[w] + cut[w]
    BY <2>1, <2>2, <2>3
  <2>5. ASSUME cut[w] = 0, FramesReady(w) PROVE DOMAIN serving[w].ids \subseteq DOMAIN results[w]
    <3>1. inside = 0 /\ lost[w] = 0
      BY <2>1, <2>4, <2>5 DEF FramesReady
    <3>2. DOMAIN serving[w].ids \subseteq DOMAIN results[w] \cup DOMAIN flight[w]
      BY <3>1 DEF IInv, WorkerOK, FlightOK
    <3> QED
      BY <2>3, <3>1, <3>2
  <2>6. ASSUME lost[w] = 0, DOMAIN flight[w] = {} PROVE FramesReady(w)
    BY <2>1, <2>3, <2>4, <2>6 DEF FramesReady
  <2> QED
    BY <2>5, <2>6
<1> QED
  BY <1>1, Invariance, PTL

-----------------------------------------------------------------------------
(* LiveProtocol: what is under way between the supervisor and the worker.  *)

\* The commands that the supervisor writes, and what its decoder takes for an event.
Commands ==
    {StartCommand(settings), StopCommand}
        \cup {Assignment(t, r, known) : t \in Tracks, r \in Nat \ {0}, known \in BOOLEAN}

Events == [bytes : {"whole"}, header : PyHeader, body : UNION {PyBody[m] : m \in MessageTypes}]

\* A frame that assigns something to track t, and its revision.
Assigns(command, t, r) ==
    /\ TypeOf(command) = "identity_assignment"
    /\ command.body.tracker_id = N(t) /\ command.body.assignment_revision = N(r)

\* The commands that the worker still reads: the start is the first one and the only one,
\* and the worker knows its header when it has read it.
CommandsOK ==
    /\ stdin \in Seq(Commands)
    /\ worker.at = "serving" => worker.start = Header("start", "id1", 1)
    /\ worker.at = "waiting" => stdin # << >>
    /\ worker.at \in {"waiting", "serving"} =>
          \A i \in DOMAIN stdin :
             stdin[i] = StartCommand(settings) <=> (worker.at = "waiting" /\ i = 1)

\* The assignments of a track that are under way are newer than the one the worker has,
\* and each than those before it.
RevisionsOK ==
    /\ \A t \in Tracks : worker.revision[t] <= issued[t]
    /\ \A i \in DOMAIN stdin : \A t \in Tracks, r \in Nat :
          Assigns(stdin[i], t, r) => worker.revision[t] < r /\ r <= issued[t]
    /\ \A i, j \in DOMAIN stdin : \A t \in Tracks, r, q \in Nat :
          i < j /\ Assigns(stdin[i], t, r) /\ Assigns(stdin[j], t, q) => r < q

\* The supervisor reads the event, which has the given number.
Reads(event, number) ==
    PyDecodes(event) /\ InRun(PyMessage(event)) /\ event.header.sequence = N(number)

\* The events that were not read yet are numbered one after the other, up to the newest.
EventsOK ==
    /\ stdout \in Seq(Events)
    /\ \A i \in DOMAIN stdout : Reads(stdout[i], 99 + worker.emitted - Len(stdout) + i)
    /\ runner.sequence < 100 + worker.emitted - Len(stdout)

Agreed ==
    /\ ~worker.refused /\ ~runner.refused
    /\ CommandsOK /\ RevisionsOK /\ EventsOK

PInv == ProtocolTypeOK /\ (~odd /\ Fits(settings) => Agreed)

-----------------------------------------------------------------------------
(* What the two decoders make of the commands and events of this build.    *)

\* A number below the width is kept when it is cut to the width.
LEMMA Uncut == ASSUME NEW m \in Nat, NEW x \in Nat, x < m PROVE x % m = x
  OBVIOUS

\* The widths are naturals, each below the next.
LEMMA Widths ==
    /\ {Max16, Max24, Max31, Max32, Max63} \subseteq Nat
    /\ 2 < Max16 /\ Max16 < Max24 /\ Max24 < Max31 /\ Max31 < Max32 /\ Max32 < Max63
  BY WidthAssumption

\* The literals of a text.
LEMMA Texts ==
    \A s \in {"uri", "path", "name", "reason", "requested", "text", "v", "CODE"} : Str(s) \in Text
<1>1. \A s \in {"uri", "path", "name", "reason", "requested", "text", "v", "CODE"} : s \in STRING
  BY LiteralAssumption
<1> QED
  BY <1>1 DEF Str, Text

\* A header of this build is read by both decoders.
LEMMA BuiltHeader ==
    ASSUME NEW type \in MessageTypes, NEW n \in Nat
    PROVE  Header(type, "id1", n) \in PyHeader /\ Header(type, "id1", n) \in NativeHeader
<1>1. Header(type, "id1", n) \in PyHeader
  BY DEF Header, PyHeader, N, Str, Nil, Version, OneOf, Uuid, Ids, AnyInt, Traceparent, Tracestate
<1>2. Header(type, "id1", n) \in NativeHeader
  BY DEF Header, NativeHeader, N, Str, Nil, Version, OneOf, Uuid, Ids, Unsigned, Traceparent, Tracestate
<1> QED
  BY <1>1, <1>2

\* The settings that fit are within what each field of a start takes.
LEMMA FittingFields ==
    ASSUME NEW s \in SettingsRange, Fits(s)
    PROVE  /\ N(s.gpu) \in Unsigned(0) /\ s.gpu \in Nat /\ s.gpu < Max32 + 1 /\ s.gpu <= Max31
           /\ N(s.udp_port) \in Within(1, Max16) /\ N(s.rtsp_port) \in Within(1, Max16)
           /\ N(s.profile) \in Within(1, Max32) /\ s.confidence \in InUnit /\ s.threshold \in InUnit
           /\ N(s.gap) \in Unsigned(1) /\ N(s.timeout) \in Unsigned(1)
           /\ N(s.latency) \in Within(0, Max32) /\ N(s.interval) \in Within(0, Max32)
           /\ N(s.attempts) \in Within(-1, Max31)
<1>1. s.gap \in Int /\ s.timeout \in Int
  BY SettingsAssumption DEF Settings
<1>2. /\ s.gpu \in 0 .. Max31 /\ s.udp_port \in 1 .. Max16 /\ s.rtsp_port \in 1 .. Max16
      /\ s.profile \in 1 .. Max32 /\ s.confidence \in InUnit /\ s.threshold \in InUnit
      /\ s.gap >= 1 /\ s.timeout >= 1 /\ s.latency \in 0 .. Max32 /\ s.interval \in 0 .. Max32
      /\ s.attempts \in -1 .. Max31
  BY DEF Fits
<1>3. s.gpu \in Nat /\ s.gpu < Max32 + 1 /\ s.gpu <= Max31 /\ s.gpu >= 0
  BY <1>2, Widths
<1>4. s.gap \in Nat /\ s.timeout \in Nat
  BY <1>1, <1>2
<1> QED
  BY <1>2, <1>3, <1>4 DEF N, Unsigned, Within

\* The worker takes a start with such settings, and the GPU it was given.
LEMMA StartDecodes ==
    ASSUME NEW s \in SettingsRange, Fits(s)
    PROVE  /\ NativeDecodes(StartCommand(s)) /\ TypeOf(StartCommand(s)) = "start"
           /\ StartCommand(s).header = Header("start", "id1", 1) /\ StartCommand(s).bytes = "whole"
           /\ NativeMessage(StartCommand(s)).body.gpu_id = N(s.gpu)
<1> DEFINE body == StartCommand(s).body
<1>1. StartCommand(s).bytes = "whole" /\ StartCommand(s).header = Header("start", "id1", 1)
  BY DEF StartCommand, Frame
<1>2. TypeOf(StartCommand(s)) = "start"
  BY <1>1 DEF TypeOf, Header, Str
<1>3. Header("start", "id1", 1) \in NativeHeader
  BY BuiltHeader DEF MessageTypes
<1>4. /\ Str("uri") \in Text /\ Str("path") \in Text
      /\ Str("recognize") \in OneOf({"detect", "detectTrack", "recognize"})
      /\ N(1) \in Within(1, Max32) /\ Unit \in InUnit
      /\ <<"bool", FALSE>> \in Flag /\ <<"bool", TRUE>> \in Flag
  <2>1. Str("uri") \in Text /\ Str("path") \in Text
    BY Texts
  <2>2. Str("recognize") \in OneOf({"detect", "detectTrack", "recognize"}) /\ Unit \in InUnit
    BY DEF Str, OneOf, InUnit
  <2>3. N(1) \in Within(1, Max32)
    BY Widths DEF N, Within
  <2>4. <<"bool", FALSE>> \in Flag /\ <<"bool", TRUE>> \in Flag
    BY DEF Flag
  <2> QED
    BY <2>1, <2>2, <2>3, <2>4
<1>5. body \in NativeStart
  BY <1>4, FittingFields DEF StartCommand, Frame, NativeStart
<1>6. NativeBody["start"] = NativeStart
  BY DEF NativeBody
<1>7. NativeDecodes(StartCommand(s))
  BY <1>1, <1>2, <1>3, <1>5, <1>6 DEF NativeDecodes
<1>8. body.gpu_id = N(s.gpu) /\ s.gpu % (Max32 + 1) = s.gpu
  <2>1. Max32 + 1 \in Nat /\ s.gpu \in Nat /\ s.gpu < Max32 + 1
    BY FittingFields, Widths
  <2>2. s.gpu % (Max32 + 1) = s.gpu
    BY <2>1, Uncut
  <2> QED
    BY <2>2 DEF StartCommand, Frame
<1>9. NativeMessage(StartCommand(s)).body.gpu_id = N(s.gpu)
  <2> HIDE DEF body
  <2>1. NativeMessage(StartCommand(s)).body = [body EXCEPT !.gpu_id = N(body.gpu_id[2] % (Max32 + 1))]
    BY <1>2 DEF NativeMessage, body
  <2>2. body.gpu_id[2] = s.gpu /\ "gpu_id" \in DOMAIN body
    BY <1>5, <1>8 DEF N, NativeStart
  <2> QED
    BY <1>8, <2>1, <2>2
<1> QED
  BY <1>1, <1>2, <1>7, <1>9

\* The stop is taken as it was made.
LEMMA StopDecodes ==
    /\ NativeDecodes(StopCommand) /\ TypeOf(StopCommand) = "stop" /\ StopCommand.bytes = "whole"
    /\ StopCommand.header = Header("stop", "id1", 2)
<1>1. StopCommand.bytes = "whole" /\ StopCommand.header = Header("stop", "id1", 2)
  BY DEF StopCommand, Frame
<1>2. TypeOf(StopCommand) = "stop"
  BY <1>1 DEF TypeOf, Header, Str
<1>3. Header("stop", "id1", 2) \in NativeHeader
  BY BuiltHeader DEF MessageTypes
<1>4. Str("reason") \in Text /\ N(2) \in Unsigned(1)
  BY Texts DEF N, Unsigned
<1>5. StopCommand.body \in [reason: Text, shutdown_deadline_ns: Unsigned(1)]
  BY <1>4 DEF StopCommand, Frame
<1>6. NativeBody["stop"] = [reason: Text, shutdown_deadline_ns: Unsigned(1)]
  BY DEF NativeBody
<1> QED
  BY <1>1, <1>2, <1>3, <1>5, <1>6 DEF NativeDecodes

\* An assignment, of a known identity or none, is taken as it was made.
LEMMA AssignmentDecodes ==
    ASSUME NEW t \in Tracks, NEW r \in Nat \ {0}, NEW known \in BOOLEAN
    PROVE  LET command == Assignment(t, r, known)
           IN /\ NativeDecodes(command) /\ TypeOf(command) = "identity_assignment"
              /\ command.bytes = "whole" /\ command.header = Header("identity_assignment", "id1", r)
              /\ command.body.tracker_id = N(t) /\ command.body.assignment_revision = N(r)
<1> DEFINE command == Assignment(t, r, known)
<1>1. command.bytes = "whole" /\ command.header = Header("identity_assignment", "id1", r)
  BY DEF Assignment, Frame
<1>2. TypeOf(command) = "identity_assignment"
  BY <1>1 DEF TypeOf, Header, Str
<1>3. Header("identity_assignment", "id1", r) \in NativeHeader
  BY BuiltHeader DEF MessageTypes
<1>4. command.body.tracker_id = N(t) /\ command.body.assignment_revision = N(r)
  BY DEF Assignment, Frame
<1>5. /\ N(t) \in Unsigned(0) /\ N(r) \in Unsigned(1) /\ N(1) \in Unsigned(1) /\ N(1) \in Unsigned(0)
      /\ Str("name") \in Text /\ Str("id2") \in Uuid /\ Fine \in Finite /\ Reference \in NativeEmbedding
      /\ Str("known") \in OneOf({"known"}) /\ Str("unknown") \in OneOf({"unknown"})
  BY Texts, TracksAssumption DEF N, Unsigned, Str, Uuid, OneOf, Ids, Fine, Finite, Float,
     Reference, NativeEmbedding
<1>6. command.body \in NativeAssignment
  <2>1. CASE known
    <3>1. command.body \in NativeAssignmentOf("known", Text, Uuid, Finite, NativeEmbedding)
      BY <1>5, <2>1 DEF Assignment, Frame, NativeAssignmentOf
    <3> QED
      BY <3>1 DEF NativeAssignment
  <2>2. CASE ~known
    <3>1. command.body \in NativeAssignmentOf("unknown", {Nil}, {Nil}, {Nil}, {Nil})
      BY <1>5, <2>2 DEF Assignment, Frame, NativeAssignmentOf
    <3> QED
      BY <3>1 DEF NativeAssignment
  <2> QED
    BY <2>1, <2>2
<1>7. NativeBody["identity_assignment"] = NativeAssignment
  BY DEF NativeBody
<1> QED
  BY <1>1, <1>2, <1>3, <1>4, <1>6, <1>7 DEF NativeDecodes

\* Identifiers in lower case are kept.
LEMMA LoweredHeader ==
    ASSUME NEW h \in PyHeader, Lower(h.session_id) = h.session_id,
           Lower(h.camera_id) = h.camera_id, Lower(h.run_id) = h.run_id
    PROVE  [h EXCEPT !.session_id = Lower(@), !.camera_id = Lower(@), !.run_id = Lower(@)] = h
  BY DEF PyHeader

\* An event whose body is of its type is read, with the header of this run.
LEMMA EventReads ==
    ASSUME NEW type \in MessageTypes, NEW n \in Nat, NEW body \in PyBody[type]
    PROVE  LET event == Frame(Header(type, "id1", n), body) IN event \in Events /\ Reads(event, n)
<1> DEFINE header == Header(type, "id1", n)
           event == Frame(header, body)
<1>1. header \in PyHeader /\ header.message_type = Str(type) /\ header.sequence = N(n)
  BY BuiltHeader DEF Header
<1>2. /\ header.session_id = Str("id1") /\ header.camera_id = Str("id1") /\ header.run_id = Str("id1")
      /\ header.generation = N(1) /\ header.runtime_attempt = N(1)
  BY DEF Header
<1> HIDE DEF header
<1>3. event.bytes = "whole" /\ event.header = header /\ event.body = body
  BY DEF Frame
<1>4. TypeOf(event) = type
  BY <1>1, <1>3 DEF TypeOf, Str
<1>5. PyDecodes(event)
  BY <1>1, <1>3, <1>4 DEF PyDecodes
<1>6. event \in Events
  <2>1. body \in UNION {PyBody[m] : m \in MessageTypes}
    OBVIOUS
  <2> QED
    BY <1>1, <2>1 DEF Events, Frame
<1>7. Lower(Str("id1")) = Str("id1")
  BY DEF Lower, Str
<1>8. InRun(PyMessage(event))
  <2>1. PyMessage(event).header = [header EXCEPT !.session_id = Lower(@), !.camera_id = Lower(@), !.run_id = Lower(@)]
    BY <1>3 DEF PyMessage
  <2>2. PyMessage(event).header = header
    BY <1>1, <1>2, <1>7, <2>1, LoweredHeader
  <2> QED
    BY <1>2, <2>2 DEF InRun
<1> QED
  BY <1>1, <1>3, <1>5, <1>6, <1>8 DEF Reads, header

\* The supervisor takes the hello of a worker that has started.
LEMMA HelloReads == "hello" \in MessageTypes /\ Hello \in PyBody["hello"]
<1>1. PyBody["hello"] = [build_id: Text, gstreamer_version: Text, deepstream_version: Text]
  BY DEF PyBody
<1> QED
  BY <1>1, Texts DEF Hello, MessageTypes

\* It takes each state of the pipeline.
LEMMA StateReads ==
    ASSUME NEW s \in RuntimeStates PROVE "state" \in MessageTypes /\ State(s) \in PyBody["state"]
<1>1. PyBody["state"] = [state: OneOf(RuntimeStates), reason: OptionalText]
  BY DEF PyBody
<1>2. Str(s) \in OneOf(RuntimeStates) /\ Nil \in OptionalText
  BY DEF Str, OneOf, OptionalText
<1> QED
  BY <1>1, <1>2 DEF State, MessageTypes

\* It takes a failure.
LEMMA FailedReads == "failed" \in MessageTypes /\ Failed \in PyBody["failed"]
<1>1. PyBody["failed"] = [error_code: Text, message: Text]
  BY DEF PyBody
<1> QED
  BY <1>1, Texts DEF Failed, MessageTypes

\* It takes the end of a worker that was stopped.
LEMMA StoppedReads == "stopped" \in MessageTypes /\ Stopped \in PyBody["stopped"]
<1>1. PyBody["stopped"] =
         [decoded_frames: AnyInt(0), emitted_evidence: AnyInt(0), dropped_events: AnyInt(0),
          clean_shutdown: Flag, reason: Text]
  BY DEF PyBody
<1>2. N(0) \in AnyInt(0) /\ N(1) \in AnyInt(0)
  BY DEF N, AnyInt
<1>3. <<"bool", TRUE>> \in Flag
  BY DEF Flag
<1> QED
  BY <1>1, <1>2, <1>3, Texts DEF Stopped, MessageTypes

\* The counters and gauges are some of the names.
LEMMA MetricsReads == "metrics" \in MessageTypes /\ Metrics \in PyBody["metrics"]
<1>1. PyBody["metrics"] = [counters: MapsTo(Names, AnyInt(0)), gauges: MapsTo(Names, Finite)]
  BY DEF PyBody
<1>2. N(1) \in AnyInt(0)
  BY DEF N, AnyInt
<1>3. [k \in Names |-> IF k = "decoded_frames" THEN N(1) ELSE Missing] \in [Names -> AnyInt(0) \cup {Missing}]
  BY <1>2
<1>4. [k \in Names |-> Missing] \in [Names -> Finite \cup {Missing}]
  OBVIOUS
<1>5. Metrics.counters \in MapsTo(Names, AnyInt(0)) /\ Metrics.gauges \in MapsTo(Names, Finite)
  BY <1>3, <1>4 DEF Metrics, Map, MapsTo
<1> QED
  BY <1>1, <1>5 DEF Metrics, MessageTypes

\* It takes a rebuild, that succeeded or not.
LEMMA OperationReads ==
    ASSUME NEW ok \in BOOLEAN
    PROVE  "native_operation" \in MessageTypes /\ Operation(ok) \in PyBody["native_operation"]
<1> DEFINE attributes == [k \in AttributeKeys |-> CASE k = "attempt" -> N(1)
                                                   [] k = "reason" -> Str("enum")
                                                   [] OTHER -> Missing]
           values == OneOf({"enum"}) \cup Finite \cup {Missing}
<1>1. N(1) \in values /\ Str("enum") \in values /\ Missing \in values
  BY DEF OneOf, Finite, N, Str
<1>2. attributes \in [AttributeKeys -> values]
  <2> HIDE DEF values
  <2> QED
    BY <1>1
<1>3. Map(attributes) \in MapsTo(AttributeKeys, OneOf({"enum"}) \cup Finite)
  <2> HIDE DEF attributes
  <2> QED
    BY <1>2 DEF Map, MapsTo
<1>4. /\ Operation(ok).attributes = Map(attributes) /\ Operation(ok).operation = Str("graph_rebuild")
      /\ Operation(ok).started_monotonic_ns = N(1) /\ Operation(ok).ended_monotonic_ns = N(2)
      /\ Operation(ok) = [operation |-> Str("graph_rebuild"), started_monotonic_ns |-> N(1),
                          ended_monotonic_ns |-> N(2), status |-> Str(IF ok THEN "ok" ELSE "error"),
                          error_code |-> IF ok THEN Nil ELSE Str("CODE"), attributes |-> Map(attributes)]
  BY DEF Operation
<1> HIDE DEF attributes, values
<1>5. /\ Str("graph_rebuild") \in OneOf(Operations) /\ N(1) \in AnyInt(0) /\ N(2) \in AnyInt(0)
      /\ Str("ok") \in OneOf({"ok"}) /\ Str("error") \in OneOf({"error"})
      /\ Nil \in {Nil} /\ Str("CODE") \in OneOf({"CODE"})
  BY DEF Str, OneOf, Operations, N, AnyInt
<1>6. Operation(ok) \in PyOperationOf("ok", {Nil}) \cup PyOperationOf("error", OneOf({"CODE"}))
  <2>1. CASE ok
    BY <1>3, <1>4, <1>5, <2>1 DEF PyOperationOf
  <2>2. CASE ~ok
    BY <1>3, <1>4, <1>5, <2>2 DEF PyOperationOf
  <2> QED
    BY <2>1, <2>2
<1>7. Operation(ok).started_monotonic_ns[2] <= Operation(ok).ended_monotonic_ns[2]
  BY <1>4 DEF N
<1>8. PyBody["native_operation"] = PyOperation
  BY DEF PyBody
<1> QED
  BY <1>6, <1>7, <1>8 DEF PyOperation, MessageTypes

\* Evidence has an observation, and an image that is not too large.
LEMMA EvidenceReads ==
    ASSUME NEW t \in Tracks, NEW jpeg \in {0, MaxJpeg}
    PROVE  "track_evidence" \in MessageTypes /\ Evidence(t, jpeg) \in PyBody["track_evidence"]
<1>1. /\ N(1) \in AnyInt(0) /\ N(1) \in AnyInt(1) /\ N(0) \in AnyInt(0) /\ N(t) \in AnyInt(0)
      /\ <<"vec", 4, "other">> \in Floats(4) /\ <<"vec", 10, "other">> \in Floats(10)
      /\ <<"vec", 5, "other">> \in Floats(5) /\ Unit \in Finite /\ Vec(512) \in Embedding
  BY TracksAssumption DEF N, AnyInt, Floats, FloatArray, Unit, Finite, Float, Vec, Embedding
<1>2. Observation \in PyObservation
  BY <1>1 DEF Observation, PyObservation, Map
<1>3. Obs(<<Observation>>) \in PyObservations
  <2>1. <<Observation>> \in Seq(PyObservation) /\ Len(<<Observation>>) = 1
    BY <1>2
  <2>2. <<Observation>> \in {s \in Seq(PyObservation) : Len(s) <= MaxObservations}
    BY <2>1, BoundAssumption
  <2> QED
    BY <2>2 DEF Obs, PyObservations
<1>4. <<"bin", jpeg>> \in {"bin"} \X (0 .. MaxJpeg)
  BY BoundAssumption
<1>5. Evidence(t, jpeg) \in PyEvidence
  BY <1>1, <1>3, <1>4 DEF Evidence, PyEvidence
<1>6. PyBody["track_evidence"] = PyEvidence
  BY DEF PyBody
<1> QED
  BY <1>5, <1>6 DEF MessageTypes

-----------------------------------------------------------------------------
(* The two decoders beside each other.                                     *)

\* Without a bound the integers of the two languages are alike.
LEMMA SameIntegers == AnyInt(0) = Unsigned(0) /\ AnyInt(1) = Unsigned(1)
  BY DEF AnyInt, Unsigned

\* Every header is a header for both.
LEMMA SameHeaders == PyHeader = NativeHeader
  BY SameIntegers DEF PyHeader, NativeHeader

\* An integer within the smallest width is within all of them.
LEMMA NarrowIntegers ==
    ASSUME NEW v, Alike(v)
    PROVE  /\ v \in AnyInt(1) => v \in Within(1, Max16) /\ v \in Within(1, Max32) /\ v \in Unsigned(1)
           /\ v \in AnyInt(0) => v \in Within(0, Max32) /\ v \in Unsigned(0)
           /\ v \in AnyInt(-1) => v \in Within(-1, Max31)
  BY Widths DEF Alike, AnyInt, Within, Unsigned

\* What the native decoder takes of an integer with a width, Python takes too.
LEMMA WideIntegers ==
    /\ Within(1, Max16) \subseteq AnyInt(1) /\ Within(1, Max32) \subseteq AnyInt(1)
    /\ Within(0, Max32) \subseteq AnyInt(0) /\ Within(-1, Max31) \subseteq AnyInt(-1)
  BY DEF Within, AnyInt

\* A start.
LEMMA SameStart ==
    ASSUME NEW body, \A f \in DOMAIN body : Alike(body[f])
    PROVE  body \in PyStart <=> body \in NativeStart
<1>1. ASSUME body \in PyStart PROVE body \in NativeStart
  <2>1. /\ body.output_udp_port \in Within(1, Max16) /\ body.output_rtsp_port \in Within(1, Max16)
        /\ body.profile_version \in Within(1, Max32) /\ body.sample_every_n \in Within(1, Max32)
        /\ body.latency_ms \in Within(0, Max32) /\ body.reconnect_interval_seconds \in Within(0, Max32)
        /\ body.reconnect_attempts \in Within(-1, Max31)
    <3>1. /\ Alike(body.output_udp_port) /\ Alike(body.output_rtsp_port)
          /\ Alike(body.profile_version) /\ Alike(body.sample_every_n)
          /\ Alike(body.latency_ms) /\ Alike(body.reconnect_interval_seconds)
          /\ Alike(body.reconnect_attempts)
      BY <1>1 DEF PyStart
    <3>2. /\ body.output_udp_port \in AnyInt(1) /\ body.output_rtsp_port \in AnyInt(1)
          /\ body.profile_version \in AnyInt(1) /\ body.sample_every_n \in AnyInt(1)
          /\ body.latency_ms \in AnyInt(0) /\ body.reconnect_interval_seconds \in AnyInt(0)
          /\ body.reconnect_attempts \in AnyInt(-1)
      BY <1>1 DEF PyStart
    <3> QED
      BY <3>1, <3>2, NarrowIntegers
  <2> QED
    BY <1>1, <2>1, SameIntegers DEF PyStart, NativeStart
<1>2. ASSUME body \in NativeStart PROVE body \in PyStart
  BY <1>2, SameIntegers, WideIntegers DEF PyStart, NativeStart
<1> QED
  BY <1>1, <1>2

\* Rounding does not move the norm of a vector across its bounds.
LEMMA SameEmbedding == ASSUME NEW v, Alike(v) PROVE v \in Embedding <=> v \in NativeEmbedding
  BY DEF Alike, Embedding, NativeEmbedding

\* Both take the same assignments.
LEMMA SameAssignment ==
    ASSUME NEW body, \A f \in DOMAIN body : Alike(body[f])
    PROVE  body \in PyAssignment <=> body \in NativeAssignment
<1>1. \A state, name, face, number, reference :
         PyAssignmentOf(state, name, face, number, reference) =
            NativeAssignmentOf(state, name, face, number, reference)
  BY SameIntegers DEF PyAssignmentOf, NativeAssignmentOf
<1>2. body \in NativeAssignmentOf("known", Text, Uuid, Finite, Embedding)
         <=> body \in NativeAssignmentOf("known", Text, Uuid, Finite, NativeEmbedding)
  <2>1. ASSUME body \in NativeAssignmentOf("known", Text, Uuid, Finite, Embedding)
        PROVE  body \in NativeAssignmentOf("known", Text, Uuid, Finite, NativeEmbedding)
    <3>1. body.reference_embedding \in Embedding /\ Alike(body.reference_embedding)
      BY <2>1 DEF NativeAssignmentOf
    <3>2. body.reference_embedding \in NativeEmbedding
      BY <3>1, SameEmbedding
    <3> QED
      BY <2>1, <3>2 DEF NativeAssignmentOf
  <2>2. ASSUME body \in NativeAssignmentOf("known", Text, Uuid, Finite, NativeEmbedding)
        PROVE  body \in NativeAssignmentOf("known", Text, Uuid, Finite, Embedding)
    <3>1. body.reference_embedding \in NativeEmbedding /\ Alike(body.reference_embedding)
      BY <2>2 DEF NativeAssignmentOf
    <3>2. body.reference_embedding \in Embedding
      BY <3>1, SameEmbedding
    <3> QED
      BY <2>2, <3>2 DEF NativeAssignmentOf
  <2> QED
    BY <2>1, <2>2
<1> QED
  BY <1>1, <1>2 DEF PyAssignment, NativeAssignment

\* An observation of which no array is given as bytes.
LEMMA SameObservation ==
    ASSUME NEW v, \A g \in DOMAIN v[2] : Alike(v[2][g]) /\ v[2][g][1] # "bin"
    PROVE  v \in PyObservation <=> v \in NativeObservation
<1>1. \A n : FloatArray(n) \subseteq Floats(n) /\ \A w \in Floats(n) : w[1] # "bin" => w \in FloatArray(n)
  BY DEF Floats
<1>2. ASSUME v \in PyObservation PROVE v \in NativeObservation
  <2>1. v[2].bbox \in FloatArray(4) /\ v[2].landmarks \in FloatArray(10) /\ v[2].landmark_confidences \in FloatArray(5)
    BY <1>1, <1>2 DEF PyObservation
  <2>2. v[2].embedding \in Embedding /\ Alike(v[2].embedding)
    BY <1>2 DEF PyObservation
  <2>3. v[2].embedding \in NativeEmbedding
    BY <2>2, SameEmbedding
  <2> QED
    BY <1>2, <2>1, <2>3, SameIntegers DEF PyObservation, NativeObservation
<1>3. ASSUME v \in NativeObservation PROVE v \in PyObservation
  <2>1. v[2].embedding \in NativeEmbedding /\ Alike(v[2].embedding)
    BY <1>3 DEF NativeObservation
  <2>2. v[2].embedding \in Embedding
    BY <2>1, SameEmbedding
  <2> QED
    BY <1>1, <1>3, <2>2, SameIntegers DEF PyObservation, NativeObservation
<1> QED
  BY <1>2, <1>3

\* Evidence, when no list has bytes for an element.
LEMMA SameEvidence ==
    ASSUME NEW body,
           \A f \in DOMAIN body : body[f][1] = "list" =>
              \A i \in DOMAIN body[f][2] : \A g \in DOMAIN body[f][2][i][2] :
                 Alike(body[f][2][i][2][g]) /\ body[f][2][i][2][g][1] # "bin"
    PROVE  body \in PyEvidence <=> body \in NativeEvidence
<1> DEFINE List(S) == {"list"} \X {s \in Seq(S) : Len(s) <= MaxObservations}
<1>1. ASSUME body \in PyEvidence PROVE body \in NativeEvidence
  <2>1. body.observations \in List(PyObservation)
    BY <1>1 DEF PyEvidence, PyObservations
  <2>2. PICK s \in Seq(PyObservation) : body.observations = <<"list", s>> /\ Len(s) <= MaxObservations
    BY <2>1
  <2>3. \A i \in DOMAIN s : \A g \in DOMAIN s[i][2] : Alike(s[i][2][g]) /\ s[i][2][g][1] # "bin"
    <3>1. "observations" \in DOMAIN body /\ body["observations"] = body.observations
      BY <1>1 DEF PyEvidence
    <3>2. body.observations[1] = "list" /\ body.observations[2] = s
      BY <2>2
    <3> QED
      BY <3>1, <3>2
  <2>4. \A i \in DOMAIN s : s[i] \in NativeObservation
    BY <2>2, <2>3, SameObservation
  <2>5. s \in Seq(NativeObservation)
    BY <2>2, <2>4
  <2>6. body.observations \in List(NativeObservation)
    BY <2>2, <2>5
  <2> QED
    BY <1>1, <2>6, SameIntegers DEF PyEvidence, NativeEvidence
<1>2. ASSUME body \in NativeEvidence PROVE body \in PyEvidence
  <2>1. body.observations \in List(NativeObservation)
    BY <1>2 DEF NativeEvidence
  <2>2. PICK s \in Seq(NativeObservation) : body.observations = <<"list", s>> /\ Len(s) <= MaxObservations
    BY <2>1
  <2>3. \A i \in DOMAIN s : \A g \in DOMAIN s[i][2] : Alike(s[i][2][g]) /\ s[i][2][g][1] # "bin"
    <3>1. "observations" \in DOMAIN body /\ body["observations"] = body.observations
      BY <1>2 DEF NativeEvidence
    <3>2. body.observations[1] = "list" /\ body.observations[2] = s
      BY <2>2
    <3> QED
      BY <3>1, <3>2
  <2>4. \A i \in DOMAIN s : s[i] \in PyObservation
    BY <2>2, <2>3, SameObservation
  <2>5. s \in Seq(PyObservation)
    BY <2>2, <2>4
  <2>6. body.observations \in PyObservations
    BY <2>2, <2>5 DEF PyObservations
  <2> QED
    BY <1>2, <2>6, SameIntegers DEF PyEvidence, NativeEvidence
<1> QED
  BY <1>1, <1>2

\* The attributes of an operation.
LEMMA SameOperation ==
    ASSUME NEW body,
           \A f \in DOMAIN body : body[f][1] = "map" => \A k \in DOMAIN body[f][2] : Alike(body[f][2][k])
    PROVE  body \in PyOperation <=> body \in NativeOperation
<1> DEFINE native == OneOf({"enum"}) \cup Float \cup ({"int"} \X {n \in Int : n <= Max63})
           py == OneOf({"enum"}) \cup Finite
<1>1. native \subseteq py
  BY DEF Finite
<1>2. \A v \in py : Alike(v) => v \in native
  <2>1. ASSUME NEW n \in Int, Alike(<<"int", n>>) PROVE n <= Max63
    BY <2>1, Widths DEF Alike
  <2> QED
    BY <2>1 DEF Finite
<1>3. ASSUME NEW values, NEW more, values \subseteq more
      PROVE  MapsTo(AttributeKeys, values) \subseteq MapsTo(AttributeKeys, more)
  BY <1>3 DEF MapsTo
<1> DEFINE Of(status, code, values) ==
              [operation: OneOf(Operations), started_monotonic_ns: Unsigned(0),
               ended_monotonic_ns: Unsigned(0), status: OneOf({status}), error_code: code,
               attributes: MapsTo(AttributeKeys, values)]
<1>4. \A status, code : PyOperationOf(status, code) = Of(status, code, py)
  BY SameIntegers DEF PyOperationOf
<1>5. \A status, code : NativeOperationOf(status, code) = Of(status, code, native)
  BY DEF NativeOperationOf
<1>6. MapsTo(AttributeKeys, native) \subseteq MapsTo(AttributeKeys, py)
  BY <1>1, <1>3
<1>7. ASSUME NEW status, NEW code, body \in Of(status, code, py) PROVE body \in Of(status, code, native)
  <2> HIDE DEF py, native
  <2>1. body.attributes \in MapsTo(AttributeKeys, py) /\ "attributes" \in DOMAIN body
    BY <1>7
  <2>2. PICK map \in [AttributeKeys -> py \cup {Missing}] : body.attributes = <<"map", map>>
    BY <2>1 DEF MapsTo
  <2>3. body.attributes[1] = "map" /\ body.attributes[2] = map
    BY <2>2
  <2>4. \A k \in AttributeKeys : Alike(map[k])
    BY <2>1, <2>2, <2>3
  <2>5. map \in [AttributeKeys -> native \cup {Missing}]
    BY <1>2, <2>2, <2>4
  <2>6. body.attributes \in MapsTo(AttributeKeys, native)
    BY <2>2, <2>5 DEF MapsTo
  <2> QED
    BY <1>7, <2>6
<1>8. ASSUME NEW status, NEW code, body \in Of(status, code, native) PROVE body \in Of(status, code, py)
  <2> HIDE DEF py, native
  <2> QED
    BY <1>6, <1>8
<1> HIDE DEF Of, py, native
<1>9. \A status, code : body \in PyOperationOf(status, code) <=> body \in NativeOperationOf(status, code)
  BY <1>4, <1>5, <1>7, <1>8
<1> QED
  BY <1>9 DEF PyOperation, NativeOperation

\* A body of each type, without what the languages read differently.
LEMMA SameBody ==
    ASSUME NEW frame, Plain(frame), NEW type \in MessageTypes
    PROVE  frame.body \in PyBody[type] <=> frame.body \in NativeBody[type]
<1> DEFINE body == frame.body
<1>1. \A f \in DOMAIN body :
         /\ Alike(body[f])
         /\ body[f][1] = "list" =>
               \A i \in DOMAIN body[f][2] : \A g \in DOMAIN body[f][2][i][2] :
                  Alike(body[f][2][i][2][g]) /\ body[f][2][i][2][g][1] # "bin"
         /\ body[f][1] = "map" => \A k \in DOMAIN body[f][2] : Alike(body[f][2][k])
  BY DEF Plain
<1> HIDE DEF body
<1>2. CASE type = "start"
  <2>1. PyBody[type] = PyStart /\ NativeBody[type] = NativeStart
    BY <1>2 DEF PyBody, NativeBody
  <2>2. body \in PyStart <=> body \in NativeStart
    BY <1>1, SameStart
  <2> QED
    BY <2>1, <2>2 DEF body
<1>3. CASE type = "track_evidence"
  <2>1. PyBody[type] = PyEvidence /\ NativeBody[type] = NativeEvidence
    BY <1>3 DEF PyBody, NativeBody
  <2>2. body \in PyEvidence <=> body \in NativeEvidence
    BY <1>1, SameEvidence
  <2> QED
    BY <2>1, <2>2 DEF body
<1>4. CASE type = "native_operation"
  <2>1. PyBody[type] = PyOperation /\ NativeBody[type] = NativeOperation
    BY <1>4 DEF PyBody, NativeBody
  <2>2. body \in PyOperation <=> body \in NativeOperation
    BY <1>1, SameOperation
  <2> QED
    BY <2>1, <2>2 DEF body
<1>5. \A m \in {"hello", "state", "output_ready", "failed"} : PyBody[m] = NativeBody[m]
  <2>1. PyBody["hello"] = NativeBody["hello"]
    BY DEF PyBody, NativeBody
  <2>2. PyBody["state"] = NativeBody["state"]
    BY DEF PyBody, NativeBody
  <2>3. PyBody["output_ready"] = NativeBody["output_ready"]
    BY DEF PyBody, NativeBody
  <2>4. PyBody["failed"] = NativeBody["failed"]
    BY DEF PyBody, NativeBody
  <2> QED
    BY <2>1, <2>2, <2>3, <2>4
<1>6. \A m \in {"stop", "track_expired", "metrics", "stopped"} : PyBody[m] = NativeBody[m]
  <2>1. PyBody["stop"] = NativeBody["stop"]
    BY SameIntegers DEF PyBody, NativeBody
  <2>2. PyBody["track_expired"] = NativeBody["track_expired"]
    BY SameIntegers DEF PyBody, NativeBody, PyExpired
  <2>3. PyBody["metrics"] = NativeBody["metrics"]
    BY SameIntegers DEF PyBody, NativeBody
  <2>4. PyBody["stopped"] = NativeBody["stopped"]
    BY SameIntegers DEF PyBody, NativeBody
  <2> QED
    BY <2>1, <2>2, <2>3, <2>4
<1>7. CASE type = "identity_assignment"
  <2>1. PyBody[type] = PyAssignment /\ NativeBody[type] = NativeAssignment
    BY <1>7 DEF PyBody, NativeBody
  <2>2. body \in PyAssignment <=> body \in NativeAssignment
    BY <1>1, SameAssignment
  <2> QED
    BY <2>1, <2>2 DEF body
<1> QED
  BY <1>2, <1>3, <1>4, <1>5, <1>6, <1>7 DEF MessageTypes

\* What is narrowed to single precision is rounded, or kept.
LEMMA SingleRounds == ASSUME NEW v, Alike(v) PROVE Rounds(v, Single(v))
<1>1. CASE v[1] \in {"float", "vec"}
  BY <1>1 DEF Alike, Rounds
<1>2. CASE v[1] = "int"
  <2>1. v[2] \in -Max24 .. Max24
    BY <1>2, Widths DEF Alike
  <2>2. Single(v) = v
    BY <1>2, <2>1 DEF Single
  <2> QED
    BY <2>2 DEF Rounds
<1>3. CASE v[1] \notin {"float", "vec", "int"}
  <2>1. Single(v) = v
    BY <1>3 DEF Single
  <2> QED
    BY <2>1 DEF Rounds
<1> QED
  BY <1>1, <1>2, <1>3

\* What Python reads from a plain frame is the frame.
LEMMA PyReads ==
    ASSUME NEW frame, Plain(frame), PyDecodes(frame)
    PROVE  PyMessage(frame).header = frame.header /\ PyMessage(frame).body = frame.body
<1>1. frame.header \in PyHeader /\ frame.body \in PyBody[TypeOf(frame)]
  BY DEF PyDecodes
<1>2. \A v : v # Str("ID1") => Lower(v) = v
  BY DEF Lower
<1>3. [frame.header EXCEPT !.session_id = Lower(@), !.camera_id = Lower(@), !.run_id = Lower(@)] = frame.header
  <2>1. /\ frame.header.session_id # Str("ID1") /\ frame.header.camera_id # Str("ID1")
        /\ frame.header.run_id # Str("ID1")
    BY <1>1 DEF Plain, PyHeader, Alike
  <2> QED
    BY <1>1, <1>2, <2>1, LoweredHeader
<1>4. CASE TypeOf(frame) = "identity_assignment"
  <2>1. frame.body \in PyAssignment
    BY <1>1, <1>4 DEF PyBody
  <2>2. PICK state, name, face, number, reference :
           frame.body \in PyAssignmentOf(state, name, face, number, reference)
    BY <2>1 DEF PyAssignment
  <2>3. Lower(frame.body.face_id) = frame.body.face_id
    BY <1>2, <2>2 DEF Plain, PyAssignmentOf, Alike
  <2>4. [frame.body EXCEPT !.face_id = Lower(@)] = frame.body
    BY <2>2, <2>3 DEF PyAssignmentOf
  <2> QED
    BY <1>3, <1>4, <2>4 DEF PyMessage
<1>5. CASE TypeOf(frame) # "identity_assignment"
  BY <1>3, <1>5 DEF PyMessage
<1> QED
  BY <1>4, <1>5

\* The GPU of a plain frame is kept.
LEMMA StartKept ==
    ASSUME NEW frame, Plain(frame), PyDecodes(frame), TypeOf(frame) = "start"
    PROVE  NativeMessage(frame).body = frame.body
<1>1. frame.body \in PyStart
  BY DEF PyDecodes, PyBody
<1>2. PICK gpu \in Nat : frame.body.gpu_id = N(gpu) /\ gpu < Max32 + 1
  <2>1. frame.body.gpu_id \in AnyInt(0) /\ Alike(frame.body.gpu_id)
    BY <1>1 DEF PyStart, Plain
  <2> QED
    BY <2>1, Widths DEF AnyInt, Alike, N
<1>3. gpu % (Max32 + 1) = gpu
  <2>1. Max32 + 1 \in Nat
    BY Widths
  <2> QED
    BY <1>2, <2>1, Uncut
<1>4. N(frame.body.gpu_id[2] % (Max32 + 1)) = frame.body.gpu_id
  BY <1>2, <1>3 DEF N
<1>5. PICK value : value = N(frame.body.gpu_id[2] % (Max32 + 1))
  OBVIOUS
<1>6. [frame.body EXCEPT !.gpu_id = value] = frame.body
  BY <1>1, <1>4, <1>5 DEF PyStart
<1> QED
  BY <1>5, <1>6 DEF NativeMessage

\* Both read the same message from a plain frame, up to single precision.
LEMMA SameMessage ==
    ASSUME NEW frame, Plain(frame), PyDecodes(frame)
    PROVE  SameUpToRounding(PyMessage(frame), NativeMessage(frame))
<1>1. /\ PyMessage(frame).header = frame.header /\ PyMessage(frame).body = frame.body
      /\ NativeMessage(frame).header = frame.header
  BY PyReads DEF NativeMessage
<1>2. PICK p, n : p = frame.body /\ n = NativeMessage(frame).body
  OBVIOUS
<1>3. \A f \in DOMAIN p :
         /\ Alike(p[f])
         /\ p[f][1] = "list" =>
               \A i \in DOMAIN p[f][2] : \A g \in DOMAIN p[f][2][i][2] : Alike(p[f][2][i][2][g])
  BY <1>2 DEF Plain
<1>4. CASE TypeOf(frame) \notin {"identity_assignment", "track_evidence"}
  <2>1. n = p
    BY <1>2, <1>4, StartKept DEF NativeMessage
  <2> QED
    BY <1>1, <1>2, <2>1 DEF SameUpToRounding, Rounds
<1>5. CASE TypeOf(frame) = "identity_assignment"
  <2>1. n = [p EXCEPT !.match_score = Single(@), !.recognition_threshold = Single(@),
                      !.reference_embedding = Single(@)]
    BY <1>2, <1>5 DEF NativeMessage
  <2>2. DOMAIN n = DOMAIN p /\ \A f \in DOMAIN p : n[f] = p[f] \/ n[f] = Single(p[f])
    BY <2>1
  <2>3. \A f \in DOMAIN p : Rounds(p[f], n[f])
    BY <1>3, <2>2, SingleRounds DEF Rounds
  <2> QED
    BY <1>1, <1>2, <2>2, <2>3 DEF SameUpToRounding
<1>6. CASE TypeOf(frame) = "track_evidence"
  <2>1. PICK list, read : /\ list = p.observations[2]
                          /\ read = [i \in DOMAIN list |-> SingleObservation(list[i])]
    OBVIOUS
  <2>2. n = [p EXCEPT !.observations = Obs(read)]
    BY <1>2, <1>6, <2>1 DEF NativeMessage
  <2>3. p \in PyEvidence
    BY <1>2, <1>6 DEF PyDecodes, PyBody
  <2>4. "observations" \in DOMAIN p /\ p["observations"] = p.observations /\ p.observations[1] = "list"
    BY <2>3 DEF PyEvidence, PyObservations
  <2>5. /\ DOMAIN n = DOMAIN p /\ n["observations"] = Obs(read)
        /\ \A f \in DOMAIN p : f # "observations" => n[f] = p[f]
    BY <2>2, <2>4
  <2>6. /\ n["observations"][1] = "list" /\ n["observations"][2] = read
        /\ DOMAIN read = DOMAIN list
    BY <2>1, <2>5 DEF Obs
  <2>7. ASSUME NEW i \in DOMAIN list
        PROVE  /\ DOMAIN read[i][2] = DOMAIN list[i][2]
               /\ \A g \in DOMAIN list[i][2] : Rounds(list[i][2][g], read[i][2][g])
    <3>1. PICK o, q : /\ o = list[i][2] /\ q = read[i][2]
                      /\ q = [g \in DOMAIN o |-> IF g \in SingleFields THEN Single(o[g]) ELSE o[g]]
      BY <2>1 DEF SingleObservation, Map
    <3>2. \A g \in DOMAIN o : Alike(o[g])
      BY <1>3, <2>1, <2>4, <3>1
    <3>3. ASSUME NEW g \in DOMAIN o PROVE Rounds(o[g], q[g])
      <4>1. q[g] = o[g] \/ q[g] = Single(o[g])
        BY <3>1
      <4> QED
        BY <3>2, <4>1, SingleRounds DEF Rounds
    <3>4. DOMAIN q = DOMAIN o
      BY <3>1
    <3> QED
      BY <3>1, <3>3, <3>4
  <2>8. ASSUME NEW f \in DOMAIN p
        PROVE  \/ Rounds(p[f], n[f])
               \/ /\ p[f][1] = "list" /\ n[f][1] = "list" /\ DOMAIN n[f][2] = DOMAIN p[f][2]
                  /\ \A i \in DOMAIN p[f][2] :
                        /\ DOMAIN n[f][2][i][2] = DOMAIN p[f][2][i][2]
                        /\ \A g \in DOMAIN p[f][2][i][2] : Rounds(p[f][2][i][2][g], n[f][2][i][2][g])
    <3>1. CASE f = "observations"
      BY <2>1, <2>4, <2>6, <2>7, <3>1
    <3>2. CASE f # "observations"
      BY <2>5, <3>2 DEF Rounds
    <3> QED
      BY <3>1, <3>2
  <2> QED
    BY <1>1, <1>2, <2>5, <2>8 DEF SameUpToRounding
<1> QED
  BY <1>4, <1>5, <1>6

\* Both take the same frames.
LEMMA SameFrames ==
    ASSUME NEW frame, Plain(frame)
    PROVE  PyDecodes(frame) <=> NativeDecodes(frame)
<1>1. frame.header \in PyHeader => TypeOf(frame) \in MessageTypes
  <2> SUFFICES ASSUME frame.header \in PyHeader PROVE TypeOf(frame) \in MessageTypes
    OBVIOUS
  <2>1. frame.header.message_type \in OneOf(MessageTypes)
    BY DEF PyHeader
  <2> QED
    BY <2>1 DEF OneOf, TypeOf
<1> QED
  BY <1>1, SameHeaders, SameBody DEF PyDecodes, NativeDecodes, Plain

\* The two decoders agree on what is on the pipes, as they do on every plain frame.
LEMMA VerdictsAgree == SameVerdict
<1> SUFFICES ASSUME NEW frame, Plain(frame)
             PROVE  /\ PyDecodes(frame) <=> NativeDecodes(frame)
                    /\ PyDecodes(frame) => SameUpToRounding(PyMessage(frame), NativeMessage(frame))
  BY DEF SameVerdict
<1> QED
  BY SameFrames, SameMessage

-----------------------------------------------------------------------------
(* Types.                                                                  *)

RunnerStates ==
    [at: {"new", "running", "ended", "failed"}, refused: BOOLEAN,
     sequence: Int, seen: SUBSET Tracks, stopped: BOOLEAN]

WorkerStates ==
    [at: {"absent", "waiting", "serving", "exited"}, code: {0, 1},
     start: NativeHeader, revision: [Tracks -> Nat], emitted: Nat, refused: BOOLEAN]

\* The types of the variables.
LEMMA ProtocolTypes ==
    ASSUME ProtocolTypeOK
    PROVE  /\ settings \in SettingsRange /\ runner \in RunnerStates /\ issued \in [Tracks -> Nat]
           /\ worker \in WorkerStates /\ odd \in BOOLEAN
  BY DEF ProtocolTypeOK, RunnerStates, WorkerStates

\* An event leaves the worker well typed.
LEMMA PushedType ==
    ASSUME NEW w \in WorkerStates, NEW type, NEW body, PushEvent(w, type, body)
    PROVE  worker' \in WorkerStates
<1>1. PICK n \in Nat : n = w.emitted + 1
  BY DEF WorkerStates
<1>2. worker' = [w EXCEPT !.emitted = n]
  BY <1>1 DEF PushEvent
<1> QED
  BY <1>2 DEF WorkerStates

\* So does giving up.
LEMMA AbortedType == ASSUME NEW w \in WorkerStates, Abort(w) PROVE worker' \in WorkerStates
<1>1. PICK n \in Nat : n = w.emitted + 1
  BY DEF WorkerStates
<1>2. worker' = [w EXCEPT !.at = "exited", !.code = 1, !.refused = TRUE, !.emitted = n]
  BY <1>1 DEF Abort
<1> QED
  BY <1>2 DEF WorkerStates

\* The header of what the worker takes, and the revision of an assignment.
LEMMA TakenType ==
    ASSUME NEW frame, NativeDecodes(frame)
    PROVE  /\ frame.header \in NativeHeader
           /\ TypeOf(frame) = "identity_assignment" => frame.body.assignment_revision[2] \in Nat
<1>1. frame.header \in NativeHeader /\ frame.body \in NativeBody[TypeOf(frame)]
  BY DEF NativeDecodes
<1>2. ASSUME TypeOf(frame) = "identity_assignment" PROVE frame.body.assignment_revision[2] \in Nat
  <2>1. frame.body \in NativeAssignment
    BY <1>1, <1>2 DEF NativeBody
  <2>2. frame.body.assignment_revision \in Unsigned(1)
    BY <2>1 DEF NativeAssignment, NativeAssignmentOf
  <2> QED
    BY <2>2 DEF Unsigned
<1> QED
  BY <1>1, <1>2

\* So does a turn of its loop.
LEMMA WorkerReadType ==
    ASSUME worker \in WorkerStates, WorkerRead PROVE worker' \in WorkerStates
<1> DEFINE frame == Head(stdin)
<1> HIDE DEF frame
<1>1. Abort(worker) \/ ReadFirst(frame) \/ ReadNext(frame)
  BY DEF WorkerRead, frame
<1>2. CASE Abort(worker)
  BY <1>2, AbortedType
<1>3. CASE ReadFirst(frame)
  <2>1. CASE /\ PushEvent([worker EXCEPT !.at = "serving", !.start = frame.header], "hello", Hello)
             /\ NativeDecodes(frame)
    <3>1. [worker EXCEPT !.at = "serving", !.start = frame.header] \in WorkerStates
      BY <2>1, TakenType DEF WorkerStates
    <3> QED
      BY <2>1, <3>1, PushedType
  <2>2. CASE PushEvent(worker, "metrics", Metrics)
    BY <2>2, PushedType
  <2>3. CASE worker' = [worker EXCEPT !.at = "exited"]
    BY <2>3 DEF WorkerStates
  <2>4. CASE Abort(worker)
    BY <2>4, AbortedType
  <2> QED
    BY <1>3, <2>1, <2>2, <2>3, <2>4 DEF ReadFirst, RefuseStart
<1>4. CASE ReadNext(frame)
  <2>1. CASE PushEvent([worker EXCEPT !.at = "exited"], "stopped", Stopped)
    <3>1. [worker EXCEPT !.at = "exited"] \in WorkerStates
      BY DEF WorkerStates
    <3> QED
      BY <2>1, <3>1, PushedType
  <2>2. CASE Apply(frame) /\ NativeDecodes(frame) /\ TypeOf(frame) = "identity_assignment"
    <3> DEFINE t == frame.body.tracker_id[2]
               revision == frame.body.assignment_revision[2]
               w == IF t \in Tracks THEN [worker EXCEPT !.revision[t] = revision] ELSE worker
    <3>1. revision \in Nat
      BY <2>2, TakenType
    <3> HIDE DEF revision, t
    <3>2. w \in WorkerStates
      BY <3>1 DEF WorkerStates
    <3>3. worker' = w \/ PushEvent(w, "metrics", Metrics)
      BY <2>2 DEF Apply, t, revision
    <3> HIDE DEF w
    <3> QED
      BY <3>2, <3>3, PushedType
  <2>3. CASE PushEvent([worker EXCEPT !.refused = TRUE], "metrics", Metrics)
    <3>1. [worker EXCEPT !.refused = TRUE] \in WorkerStates
      BY DEF WorkerStates
    <3> QED
      BY <2>3, <3>1, PushedType
  <2> QED
    BY <1>4, <2>1, <2>2, <2>3 DEF ReadNext
<1> QED
  BY <1>1, <1>2, <1>3, <1>4

\* The end of a run leaves both well typed.
LEMMA RunFailsType ==
    ASSUME runner \in RunnerStates, worker \in WorkerStates, NEW refused \in BOOLEAN, RunFails(refused)
    PROVE  runner' \in RunnerStates /\ worker' \in WorkerStates
  BY DEF RunFails, RunnerStates, WorkerStates

\* So does an event that is read.
LEMMA RunnerReadType ==
    ASSUME runner \in RunnerStates, worker \in WorkerStates, RunnerRead
    PROVE  runner' \in RunnerStates /\ worker' \in WorkerStates
<1> DEFINE frame == Head(stdout)
<1> HIDE DEF frame
<1>1. CASE RunFails(TRUE)
  BY <1>1, RunFailsType
<1>2. CASE /\ PyDecodes(frame) /\ UNCHANGED worker
           /\ runner' = [runner EXCEPT
                  !.sequence = frame.header.sequence[2],
                  !.seen = IF TypeOf(frame) = "track_evidence"
                           THEN @ \cup ({frame.body.tracker_id[2]} \cap Tracks) ELSE @,
                  !.stopped = @ \/ TypeOf(frame) = "stopped"]
  <2>1. frame.header.sequence \in AnyInt(0)
    BY <1>2 DEF PyDecodes, PyHeader
  <2>2. frame.header.sequence[2] \in Int
    BY <2>1 DEF AnyInt
  <2>3. /\ runner.stopped \in BOOLEAN /\ runner.seen \in SUBSET Tracks
        /\ \A sequence \in Int, seen \in SUBSET Tracks, last \in BOOLEAN :
              [runner EXCEPT !.sequence = sequence, !.seen = seen, !.stopped = last] \in RunnerStates
    BY DEF RunnerStates
  <2>4. runner' \in RunnerStates
    <3> DEFINE sequence == frame.header.sequence[2]
               seen == IF TypeOf(frame) = "track_evidence"
                       THEN runner.seen \cup ({frame.body.tracker_id[2]} \cap Tracks) ELSE runner.seen
               last == runner.stopped \/ TypeOf(frame) = "stopped"
    <3>1. sequence \in Int /\ seen \in SUBSET Tracks /\ last \in BOOLEAN
      BY <2>2, <2>3
    <3>2. runner' = [runner EXCEPT !.sequence = sequence, !.seen = seen, !.stopped = last]
      BY <1>2
    <3> HIDE DEF sequence, seen, last
    <3> QED
      BY <2>3, <3>1, <3>2
  <2> QED
    BY <1>2, <2>4
<1> QED
  BY <1>1, <1>2 DEF RunnerRead, frame

\* The start is well typed.
LEMMA ProtocolTypeInit == ProtocolInit => ProtocolTypeOK
<1> SUFFICES ASSUME ProtocolInit PROVE ProtocolTypeOK
  OBVIOUS
<1>1. Header("start", "fallback", 0) \in NativeHeader
  BY DEF Header, NativeHeader, N, Str, Nil, Version, OneOf, Uuid, Ids, Unsigned,
         Traceparent, Tracestate, MessageTypes
<1>2. worker \in WorkerStates
  <2>1. PICK header \in NativeHeader : header = Header("start", "fallback", 0)
    BY <1>1
  <2>2. worker = [at |-> "absent", code |-> 0, start |-> header,
                  revision |-> [t \in Tracks |-> 0], emitted |-> 0, refused |-> FALSE]
    BY <2>1 DEF ProtocolInit
  <2> QED
    BY <2>2 DEF WorkerStates
<1>3. runner \in RunnerStates
  BY DEF ProtocolInit, RunnerStates
<1>4. settings \in SettingsRange /\ issued \in [Tracks -> Nat] /\ odd \in BOOLEAN
  BY DEF ProtocolInit
<1> QED
  BY <1>2, <1>3, <1>4 DEF ProtocolTypeOK, WorkerStates, RunnerStates

\* Every step keeps the types.
LEMMA ProtocolTypeStep ==
    ASSUME ProtocolTypeOK, [ProtocolNext]_protocolVars PROVE ProtocolTypeOK'
<1> USE ProtocolTypes
<1>0. SUFFICES /\ settings' \in SettingsRange /\ runner' \in RunnerStates /\ issued' \in [Tracks -> Nat]
               /\ worker' \in WorkerStates /\ odd' \in BOOLEAN
  BY DEF ProtocolTypeOK, RunnerStates, WorkerStates
<1>1. CASE Start
  BY <1>1 DEF Start, RunnerStates, WorkerStates
<1>2. CASE Stop
  BY <1>2 DEF Stop
<1>3. CASE WorkerRead
  BY <1>3, WorkerReadType DEF WorkerRead
<1>4. CASE Emit
  BY <1>4, PushedType DEF Emit
<1>5. CASE RunnerRead
  BY <1>5, RunnerReadType DEF RunnerRead
<1>6. CASE RunnerEnd
  <2>1. CASE RunFails(FALSE)
    BY <1>6, <2>1, RunFailsType DEF RunnerEnd
  <2>2. CASE runner' = [runner EXCEPT !.at = "ended"] /\ UNCHANGED worker
    BY <1>6, <2>2 DEF RunnerEnd, RunnerStates
  <2> QED
    BY <1>6, <2>1, <2>2 DEF RunnerEnd
<1>7. ASSUME NEW t \in Tracks, NEW known \in BOOLEAN, Assign(t, known)
      PROVE  /\ settings' \in SettingsRange /\ runner' \in RunnerStates /\ issued' \in [Tracks -> Nat]
             /\ worker' \in WorkerStates /\ odd' \in BOOLEAN
  BY <1>7 DEF Assign
<1>8. ASSUME NEW frame \in OddFrames, Deviate(frame)
      PROVE  /\ settings' \in SettingsRange /\ runner' \in RunnerStates /\ issued' \in [Tracks -> Nat]
             /\ worker' \in WorkerStates /\ odd' \in BOOLEAN
  BY <1>8 DEF Deviate
<1>9. CASE UNCHANGED protocolVars
  BY <1>9 DEF protocolVars
<1> QED
  BY <1>1, <1>2, <1>3, <1>4, <1>5, <1>6, <1>7, <1>8, <1>9 DEF ProtocolNext

-----------------------------------------------------------------------------
(* What is under way between the supervisor and the worker.                *)

\* What the supervisor writes is a start, a stop or an assignment, of this run.
LEMMA CommandFacts ==
    ASSUME settings \in SettingsRange, Fits(settings), NEW command \in Commands
    PROVE  /\ NativeDecodes(command) /\ command.bytes = "whole"
           /\ \A f \in {"session_id", "camera_id", "run_id", "generation", "runtime_attempt"} :
                 command.header[f] = Header("start", "id1", 1)[f]
           /\ TypeOf(command) \in {"start", "stop", "identity_assignment"}
           /\ TypeOf(command) = "start" <=> command = StartCommand(settings)
           /\ TypeOf(command) = "identity_assignment" =>
                 \E t \in Tracks, r \in Nat \ {0} : Assigns(command, t, r)
<1>1. \A type, n : \A f \in {"session_id", "camera_id", "run_id", "generation", "runtime_attempt"} :
         Header(type, "id1", n)[f] = Header("start", "id1", 1)[f]
  BY DEF Header
<1>2. CASE command = StartCommand(settings)
  <2>1. /\ NativeDecodes(StartCommand(settings)) /\ TypeOf(StartCommand(settings)) = "start"
        /\ StartCommand(settings).header = Header("start", "id1", 1)
        /\ StartCommand(settings).bytes = "whole"
    BY StartDecodes
  <2> QED
    BY <1>1, <1>2, <2>1
<1>3. CASE command = StopCommand
  <2>1. TypeOf(StartCommand(settings)) = "start"
    BY StartDecodes
  <2> QED
    BY <1>1, <1>3, <2>1, StopDecodes
<1>4. CASE \E t \in Tracks, r \in Nat \ {0}, known \in BOOLEAN : command = Assignment(t, r, known)
  <2>1. PICK t \in Tracks, r \in Nat \ {0}, known \in BOOLEAN : command = Assignment(t, r, known)
    BY <1>4
  <2>2. /\ NativeDecodes(command) /\ TypeOf(command) = "identity_assignment"
        /\ command.bytes = "whole" /\ command.header = Header("identity_assignment", "id1", r)
        /\ command.body.tracker_id = N(t) /\ command.body.assignment_revision = N(r)
    BY <2>1, AssignmentDecodes
  <2>3. Assigns(command, t, r)
    BY <2>2 DEF Assigns
  <2>4. TypeOf(StartCommand(settings)) = "start"
    BY StartDecodes
  <2> QED
    BY <1>1, <2>2, <2>3, <2>4
<1> QED
  BY <1>2, <1>3, <1>4 DEF Commands

\* The commands depend on the settings only.
LEMMA SameCommands == ASSUME UNCHANGED settings PROVE Commands' = Commands
  BY DEF Commands

\* At first nothing is under way.
LEMMA AgreedInit == ProtocolInit => Agreed
<1> SUFFICES ASSUME ProtocolInit PROVE Agreed
  OBVIOUS
<1>1. /\ worker.refused = FALSE /\ worker.at = "absent" /\ worker.emitted = 0
      /\ worker.revision = [t \in Tracks |-> 0] /\ issued = [t \in Tracks |-> 0]
  BY DEF ProtocolInit
<1>2. runner.refused = FALSE /\ runner.sequence = -1
  BY DEF ProtocolInit
<1>3. stdin = << >> /\ stdout = << >>
  BY DEF ProtocolInit
<1>4. CommandsOK
  BY <1>1, <1>3 DEF CommandsOK
<1>5. RevisionsOK
  BY <1>1, <1>3 DEF RevisionsOK
<1>6. EventsOK
  BY <1>1, <1>2, <1>3 DEF EventsOK
<1> QED
  BY <1>1, <1>2, <1>4, <1>5, <1>6 DEF Agreed

\* A command that assigns nothing is written after the others.
LEMMA StopAgreed ==
    ASSUME settings \in SettingsRange, Fits(settings), Agreed, Stop PROVE Agreed'
<1>1. stdin \in Seq(Commands) /\ stdin' = Append(stdin, StopCommand)
  BY DEF Agreed, CommandsOK, Stop
<1>2. StopCommand \in Commands /\ TypeOf(StopCommand) = "stop" /\ TypeOf(StartCommand(settings)) = "start"
  BY StopDecodes, StartDecodes DEF Commands
<1>3. /\ stdin' \in Seq(Commands) /\ DOMAIN stdin' = 1 .. Len(stdin) + 1
      /\ DOMAIN stdin = 1 .. Len(stdin) /\ Len(stdin) \in Nat
      /\ stdin'[Len(stdin) + 1] = StopCommand
      /\ \A i \in 1 .. Len(stdin) : stdin'[i] = stdin[i]
  BY <1>1, <1>2
<1>4. UNCHANGED <<settings, worker, issued, runner, stdout>>
  BY DEF Stop
<1>5. CommandsOK'
  <2>1. ASSUME worker.at = "waiting" PROVE stdin' # << >> /\ Len(stdin) + 1 # 1
    BY <1>3, <2>1 DEF Agreed, CommandsOK
  <2>2. ASSUME worker.at \in {"waiting", "serving"}, NEW i \in 1 .. Len(stdin) + 1
        PROVE  stdin'[i] = StartCommand(settings) <=> (worker.at = "waiting" /\ i = 1)
    <3>1. CASE i = Len(stdin) + 1
      BY <1>2, <1>3, <2>1, <3>1
    <3>2. CASE i # Len(stdin) + 1
      <4>1. i \in 1 .. Len(stdin)
        BY <1>3, <3>2
      <4> QED
        BY <1>3, <2>2, <4>1 DEF Agreed, CommandsOK
    <3> QED
      BY <3>1, <3>2
  <2> QED
    BY <1>3, <1>4, <2>1, <2>2, SameCommands DEF Agreed, CommandsOK
<1>6. RevisionsOK'
  <2>1. \A t, r : ~Assigns(StopCommand, t, r)
    BY <1>2 DEF Assigns
  <2>2. \A i \in 1 .. Len(stdin) + 1 : \A t, r : Assigns(stdin'[i], t, r) => i \in 1 .. Len(stdin) /\ stdin'[i] = stdin[i]
    BY <1>3, <2>1
  <2>3. /\ \A t \in Tracks : worker.revision[t] <= issued[t]
        /\ \A i \in 1 .. Len(stdin) : \A t \in Tracks, r \in Nat :
              Assigns(stdin[i], t, r) => worker.revision[t] < r /\ r <= issued[t]
        /\ \A i, j \in 1 .. Len(stdin) : \A t \in Tracks, r, q \in Nat :
              i < j /\ Assigns(stdin[i], t, r) /\ Assigns(stdin[j], t, q) => r < q
    BY <1>3 DEF Agreed, RevisionsOK
  <2>4. /\ \A t \in Tracks : worker.revision[t] <= issued[t]
        /\ \A i \in 1 .. Len(stdin) + 1 : \A t \in Tracks, r \in Nat :
              Assigns(stdin'[i], t, r) => worker.revision[t] < r /\ r <= issued[t]
        /\ \A i, j \in 1 .. Len(stdin) + 1 : \A t \in Tracks, r, q \in Nat :
              i < j /\ Assigns(stdin'[i], t, r) /\ Assigns(stdin'[j], t, q) => r < q
    BY <2>2, <2>3
  <2> QED
    BY <1>3, <1>4, <2>4 DEF RevisionsOK, Assigns, TypeOf
<1>7. EventsOK'
  BY <1>4 DEF Agreed, EventsOK
<1> QED
  BY <1>4, <1>5, <1>6, <1>7 DEF Agreed

\* An assignment is the newest of its track.
LEMMA AssignAgreed ==
    ASSUME settings \in SettingsRange, Fits(settings), Agreed, ProtocolTypeOK,
           NEW t \in Tracks, NEW known \in BOOLEAN, Assign(t, known)
    PROVE  Agreed'
<1> DEFINE command == Assignment(t, issued[t] + 1, known)
<1>0. issued[t] + 1 \in Nat \ {0} /\ issued \in [Tracks -> Nat] /\ worker.revision \in [Tracks -> Nat]
  BY ProtocolTypes DEF WorkerStates
<1>1. stdin \in Seq(Commands) /\ stdin' = Append(stdin, command)
  BY DEF Agreed, CommandsOK, Assign
<1>2. /\ command \in Commands /\ TypeOf(command) = "identity_assignment"
      /\ command.body.tracker_id = N(t) /\ command.body.assignment_revision = N(issued[t] + 1)
      /\ TypeOf(StartCommand(settings)) = "start"
  <2>1. PICK r \in Nat \ {0} : r = issued[t] + 1
    BY <1>0
  <2>2. Assignment(t, r, known) \in Commands
    BY DEF Commands
  <2>3. /\ TypeOf(Assignment(t, r, known)) = "identity_assignment"
        /\ Assignment(t, r, known).body.tracker_id = N(t)
        /\ Assignment(t, r, known).body.assignment_revision = N(r)
    BY AssignmentDecodes
  <2> QED
    BY <2>1, <2>2, <2>3, StartDecodes
<1> HIDE DEF command
<1>3. /\ stdin' \in Seq(Commands) /\ DOMAIN stdin' = 1 .. Len(stdin) + 1
      /\ DOMAIN stdin = 1 .. Len(stdin) /\ Len(stdin) \in Nat
      /\ stdin'[Len(stdin) + 1] = command
      /\ \A i \in 1 .. Len(stdin) : stdin'[i] = stdin[i]
  BY <1>1, <1>2
<1>4. UNCHANGED <<settings, worker, runner, stdout>> /\ issued' = [issued EXCEPT ![t] = issued[t] + 1]
  BY DEF Assign
<1>5. CommandsOK'
  <2>1. ASSUME worker.at = "waiting" PROVE stdin' # << >> /\ Len(stdin) + 1 # 1
    BY <1>3, <2>1 DEF Agreed, CommandsOK
  <2>2. ASSUME worker.at \in {"waiting", "serving"}, NEW i \in 1 .. Len(stdin) + 1
        PROVE  stdin'[i] = StartCommand(settings) <=> (worker.at = "waiting" /\ i = 1)
    <3>1. CASE i = Len(stdin) + 1
      BY <1>2, <1>3, <2>1, <3>1
    <3>2. CASE i # Len(stdin) + 1
      <4>1. i \in 1 .. Len(stdin)
        BY <1>3, <3>2
      <4> QED
        BY <1>3, <2>2, <4>1 DEF Agreed, CommandsOK
    <3> QED
      BY <3>1, <3>2
  <2> QED
    BY <1>3, <1>4, <2>1, <2>2, SameCommands DEF Agreed, CommandsOK
<1>6. RevisionsOK'
  <2>1. ASSUME NEW u \in Tracks, NEW r \in Nat, Assigns(command, u, r) PROVE u = t /\ r = issued[t] + 1
    BY <1>2, <2>1 DEF Assigns, N
  <2>2. \A u \in Tracks : issued[u] <= issued'[u] /\ issued[u] \in Nat /\ worker.revision[u] \in Nat /\ issued'[t] = issued[t] + 1
    BY <1>0, <1>4
  <2>3. /\ \A u \in Tracks : worker.revision[u] <= issued[u]
        /\ \A i \in 1 .. Len(stdin) : \A u \in Tracks, r \in Nat :
              Assigns(stdin[i], u, r) => worker.revision[u] < r /\ r <= issued[u]
        /\ \A i, j \in 1 .. Len(stdin) : \A u \in Tracks, r, q \in Nat :
              i < j /\ Assigns(stdin[i], u, r) /\ Assigns(stdin[j], u, q) => r < q
    BY <1>3 DEF Agreed, RevisionsOK
  <2>4. \A u \in Tracks : worker.revision[u] <= issued'[u]
    BY <2>2, <2>3, <1>0, <1>4
  <2>5. ASSUME NEW i \in 1 .. Len(stdin) + 1, NEW u \in Tracks, NEW r \in Nat, Assigns(stdin'[i], u, r)
        PROVE  worker.revision[u] < r /\ r <= issued'[u]
    <3>1. CASE i = Len(stdin) + 1
      BY <1>0, <1>3, <2>1, <2>2, <2>3, <2>5, <3>1
    <3>2. CASE i \in 1 .. Len(stdin)
      <4>1. worker.revision[u] < r /\ r <= issued[u]
        BY <1>3, <2>3, <2>5, <3>2
      <4>2. issued[u] <= issued'[u] /\ issued[u] \in Nat /\ issued'[u] \in Nat
        BY <1>0, <1>4
      <4> QED
        BY <4>1, <4>2
    <3> QED
      BY <1>3, <3>1, <3>2
  <2>6. ASSUME NEW i \in 1 .. Len(stdin) + 1, NEW j \in 1 .. Len(stdin) + 1, i < j,
               NEW u \in Tracks, NEW r \in Nat, NEW q \in Nat,
               Assigns(stdin'[i], u, r), Assigns(stdin'[j], u, q)
        PROVE  r < q
    <3>0. i \in 1 .. Len(stdin) /\ stdin'[i] = stdin[i]
      BY <1>3, <2>6
    <3>1. CASE j = Len(stdin) + 1
      <4>1. u = t /\ q = issued[t] + 1
        BY <1>3, <2>1, <2>6, <3>1
      <4>2. r <= issued[t] /\ issued[t] \in Nat
        BY <1>0, <2>3, <2>6, <3>0, <4>1
      <4> QED
        BY <4>1, <4>2
    <3>2. CASE j \in 1 .. Len(stdin)
      BY <1>3, <2>3, <2>6, <3>0, <3>2
    <3> QED
      BY <1>3, <3>1, <3>2
  <2> QED
    BY <1>3, <1>4, <2>4, <2>5, <2>6 DEF RevisionsOK, Assigns, TypeOf
<1>7. EventsOK'
  BY <1>4 DEF Agreed, EventsOK
<1> QED
  BY <1>4, <1>5, <1>6, <1>7 DEF Agreed

\* The start is the first command.
LEMMA StartAgreed ==
    ASSUME settings \in SettingsRange, Fits(settings), Agreed, ProtocolTypeOK, Start PROVE Agreed'
<1>1. settings.gpu <= Max31
  BY FittingFields
<1>2. worker \in WorkerStates /\ runner \in RunnerStates
  BY ProtocolTypes
<1>3. /\ worker' = [worker EXCEPT !.at = "waiting"] /\ stdin' = <<StartCommand(settings)>>
      /\ runner' = [runner EXCEPT !.at = "running"] /\ UNCHANGED <<settings, issued, stdout>>
  BY <1>1 DEF Start
<1>4. /\ worker'.at = "waiting" /\ worker'.refused = worker.refused
      /\ worker'.revision = worker.revision /\ worker'.emitted = worker.emitted
  BY <1>2, <1>3 DEF WorkerStates
<1>5. runner'.refused = runner.refused /\ runner'.sequence = runner.sequence
  BY <1>2, <1>3 DEF RunnerStates
<1>6. StartCommand(settings) \in Commands /\ TypeOf(StartCommand(settings)) = "start"
  BY StartDecodes DEF Commands
<1>7. /\ stdin' \in Seq(Commands) /\ DOMAIN stdin' = {1} /\ stdin'[1] = StartCommand(settings)
      /\ stdin' # << >>
  BY <1>3, <1>6
<1>8. CommandsOK'
  BY <1>3, <1>4, <1>7, SameCommands DEF CommandsOK
<1>9. RevisionsOK'
  <2>1. \A i \in DOMAIN stdin' : \A t, r : ~Assigns(stdin'[i], t, r)
    BY <1>6, <1>7 DEF Assigns
  <2>2. \A t \in Tracks : worker'.revision[t] <= issued'[t]
    BY <1>3, <1>4 DEF Agreed, RevisionsOK
  <2> QED
    BY <2>1, <2>2 DEF RevisionsOK, Assigns, TypeOf
<1>10. EventsOK'
  BY <1>3, <1>4, <1>5 DEF Agreed, EventsOK
<1> QED
  BY <1>4, <1>5, <1>8, <1>9, <1>10 DEF Agreed

-----------------------------------------------------------------------------
(* The events that are under way.                                          *)

\* Headers with the same fields are the same.
LEMMA HeaderFields ==
    ASSUME NEW h \in PyHeader, NEW k \in PyHeader,
           \A f \in {"protocol_version", "message_type", "session_id", "camera_id", "run_id", "generation",
                     "runtime_attempt", "sequence", "traceparent", "tracestate"} : h[f] = k[f]
    PROVE  h = k
  BY DEF PyHeader

\* The header of an event is that of the start, with the type and the number of the event.
LEMMA HeaderOfEvent ==
    ASSUME NEW type \in MessageTypes, NEW n \in Nat
    PROVE  [Header("start", "id1", 1) EXCEPT !.message_type = Str(type), !.sequence = N(n)] =
              Header(type, "id1", n)
<1>1. PICK h \in PyHeader : h = Header("start", "id1", 1)
  BY BuiltHeader DEF MessageTypes
<1>2. PICK k \in PyHeader : k = Header(type, "id1", n)
  BY BuiltHeader
<1>3. PICK e : e = [h EXCEPT !.message_type = Str(type), !.sequence = N(n)]
  OBVIOUS
<1>4. Str(type) \in OneOf(MessageTypes) /\ N(n) \in AnyInt(0)
  BY DEF Str, OneOf, N, AnyInt
<1>5. e \in PyHeader
  BY <1>3, <1>4 DEF PyHeader
<1>6. /\ e.message_type = Str(type) /\ e.sequence = N(n)
      /\ \A f \in {"protocol_version", "session_id", "camera_id", "run_id", "generation",
                   "runtime_attempt", "traceparent", "tracestate"} : h[f] = e[f]
  BY <1>3 DEF PyHeader
<1>7. /\ k.message_type = Str(type) /\ k.sequence = N(n)
      /\ \A f \in {"protocol_version", "session_id", "camera_id", "run_id", "generation",
                   "runtime_attempt", "traceparent", "tracestate"} : h[f] = k[f]
  BY <1>1, <1>2 DEF Header
<1>8. e = k
  BY <1>5, <1>6, <1>7, HeaderFields
<1> QED
  BY <1>1, <1>2, <1>3, <1>8

\* An event that the worker numbers is read after those before it.
LEMMA PushedEvents ==
    ASSUME EventsOK, ProtocolTypeOK, NEW w \in WorkerStates, w.emitted = worker.emitted,
           w.start = Header("start", "id1", 1), NEW type \in MessageTypes, NEW body \in PyBody[type],
           PushEvent(w, type, body), UNCHANGED runner
    PROVE  /\ EventsOK'
           /\ worker'.at = w.at /\ worker'.start = w.start /\ worker'.revision = w.revision
           /\ worker'.refused = w.refused
<1>1. PICK emitted \in Nat : emitted = worker.emitted
  BY ProtocolTypes DEF WorkerStates
<1>2. /\ worker' = [w EXCEPT !.emitted = emitted + 1]
      /\ stdout' = Append(stdout, Frame(EventHeader(w, type), body))
  BY <1>1 DEF PushEvent
<1>3. /\ worker'.at = w.at /\ worker'.start = w.start /\ worker'.revision = w.revision
      /\ worker'.refused = w.refused /\ worker'.emitted = emitted + 1
  BY <1>2 DEF WorkerStates
<1>4. EventHeader(w, type) = Header(type, "id1", 100 + emitted)
  <2>1. PICK n \in Nat : n = 100 + emitted
    OBVIOUS
  <2>2. EventHeader(w, type) =
           [Header("start", "id1", 1) EXCEPT !.message_type = Str(type), !.sequence = N(n)]
    BY <1>1, <2>1 DEF EventHeader
  <2>3. [Header("start", "id1", 1) EXCEPT !.message_type = Str(type), !.sequence = N(n)] = Header(type, "id1", n)
    BY HeaderOfEvent
  <2> QED
    BY <2>1, <2>2, <2>3
<1>5. PICK event : event = Frame(EventHeader(w, type), body)
  OBVIOUS
<1>6. event \in Events /\ Reads(event, 100 + emitted)
  <2>1. PICK n \in Nat : n = 100 + emitted
    OBVIOUS
  <2>2. Frame(Header(type, "id1", n), body) \in Events /\ Reads(Frame(Header(type, "id1", n), body), n)
    BY EventReads
  <2> QED
    BY <1>4, <1>5, <2>1, <2>2
<1>7. stdout \in Seq(Events) /\ stdout' = Append(stdout, event)
  BY <1>2, <1>5 DEF EventsOK
<1>8. /\ stdout' \in Seq(Events) /\ Len(stdout') = Len(stdout) + 1 /\ Len(stdout) \in Nat
      /\ DOMAIN stdout' = 1 .. Len(stdout) + 1 /\ DOMAIN stdout = 1 .. Len(stdout)
      /\ stdout'[Len(stdout) + 1] = event
      /\ \A i \in 1 .. Len(stdout) : stdout'[i] = stdout[i]
  BY <1>6, <1>7
<1>9. ASSUME NEW i \in 1 .. Len(stdout) + 1
      PROVE  Reads(stdout'[i], 99 + (emitted + 1) - (Len(stdout) + 1) + i)
  <2>1. CASE i = Len(stdout) + 1
    <3>1. 99 + (emitted + 1) - (Len(stdout) + 1) + i = 100 + emitted
      BY <1>8, <2>1
    <3> QED
      BY <1>6, <1>8, <2>1, <3>1
  <2>2. CASE i \in 1 .. Len(stdout)
    <3>1. 99 + (emitted + 1) - (Len(stdout) + 1) + i = 99 + emitted - Len(stdout) + i
      BY <1>8
    <3>2. Reads(stdout[i], 99 + emitted - Len(stdout) + i)
      BY <1>1, <1>8, <2>2 DEF EventsOK
    <3> QED
      BY <1>8, <2>2, <3>1, <3>2
  <2> QED
    BY <1>8, <2>1, <2>2
<1>10. runner.sequence < 100 + (emitted + 1) - (Len(stdout) + 1)
  <2>1. runner.sequence < 100 + emitted - Len(stdout)
    BY <1>1 DEF EventsOK
  <2>2. 100 + (emitted + 1) - (Len(stdout) + 1) = 100 + emitted - Len(stdout)
    BY <1>8
  <2> QED
    BY <2>1, <2>2
<1>11. EventsOK'
  <2>1. \A i \in DOMAIN stdout' : Reads(stdout'[i], 99 + worker'.emitted - Len(stdout') + i)
    BY <1>3, <1>8, <1>9
  <2>2. runner'.sequence < 100 + worker'.emitted - Len(stdout')
    BY <1>3, <1>8, <1>10
  <2> QED
    BY <1>8, <2>1, <2>2 DEF EventsOK, Reads
<1> QED
  BY <1>3, <1>11

\* The callbacks of a worker that serves.
LEMMA EmitAgreed ==
    ASSUME Agreed, ProtocolTypeOK, Emit PROVE Agreed'
<1>1. PICK type \in MessageTypes : \E body \in PyBody[type] : PushEvent(worker, type, body)
  <2>1. CASE \E s \in RuntimeStates : PushEvent(worker, "state", State(s))
    BY <2>1, StateReads
  <2>2. CASE \E t \in Tracks, jpeg \in {0, MaxJpeg} : PushEvent(worker, "track_evidence", Evidence(t, jpeg))
    BY <2>2, EvidenceReads
  <2>3. CASE PushEvent(worker, "metrics", Metrics)
    BY <2>3, MetricsReads
  <2>4. CASE \E ok \in BOOLEAN : PushEvent(worker, "native_operation", Operation(ok))
    BY <2>4, OperationReads
  <2>5. CASE PushEvent(worker, "failed", Failed)
    BY <2>5, FailedReads
  <2> QED
    BY <2>1, <2>2, <2>3, <2>4, <2>5 DEF Emit
<1>2. PICK body \in PyBody[type] : PushEvent(worker, type, body)
  BY <1>1
<1>3. worker.at = "serving" /\ UNCHANGED <<settings, runner, issued, stdin>>
  BY DEF Emit
<1>4. worker \in WorkerStates /\ worker.start = Header("start", "id1", 1)
  BY <1>3, ProtocolTypes DEF Agreed, CommandsOK
<1>5. /\ EventsOK'
      /\ worker'.at = worker.at /\ worker'.start = worker.start /\ worker'.revision = worker.revision
      /\ worker'.refused = worker.refused
  BY <1>2, <1>3, <1>4, PushedEvents DEF Agreed
<1>6. CommandsOK'
  BY <1>3, <1>5, SameCommands DEF Agreed, CommandsOK
<1>7. RevisionsOK'
  BY <1>3, <1>5 DEF Agreed, RevisionsOK
<1> QED
  BY <1>3, <1>5, <1>6, <1>7 DEF Agreed

\* What is left of the commands when the worker has read one.
LEMMA RestOfCommands ==
    ASSUME Agreed, ProtocolTypeOK, stdin # << >>, stdin' = Tail(stdin), UNCHANGED <<settings, issued>>,
           worker'.at \in {"serving", "exited"},
           worker'.at = "serving" => worker'.start = Header("start", "id1", 1) /\ worker.at \in {"waiting", "serving"},
           \/ worker'.revision = worker.revision
           \/ \E t \in Tracks, r \in Nat :
                 Assigns(Head(stdin), t, r) /\ worker'.revision = [worker.revision EXCEPT ![t] = r]
    PROVE  CommandsOK' /\ RevisionsOK'
<1>1. stdin \in Seq(Commands)
  BY DEF Agreed, CommandsOK
<1>2. /\ stdin' \in Seq(Commands) /\ Len(stdin) \in Nat \ {0} /\ DOMAIN stdin = 1 .. Len(stdin)
      /\ DOMAIN stdin' = 1 .. Len(stdin) - 1 /\ Head(stdin) = stdin[1]
      /\ \A i \in 1 .. Len(stdin) - 1 : stdin'[i] = stdin[i + 1] /\ i + 1 \in 1 .. Len(stdin) /\ i + 1 # 1
  BY <1>1
<1>3. CommandsOK'
  <2>1. ASSUME worker'.at = "serving", NEW i \in 1 .. Len(stdin) - 1
        PROVE  stdin'[i] # StartCommand(settings)
    BY <1>2, <2>1 DEF Agreed, CommandsOK
  <2> QED
    BY <1>2, <2>1, SameCommands DEF CommandsOK
<1>4. /\ \A t \in Tracks : worker.revision[t] <= issued[t]
      /\ \A i \in 1 .. Len(stdin) : \A t \in Tracks, r \in Nat :
            Assigns(stdin[i], t, r) => worker.revision[t] < r /\ r <= issued[t]
      /\ \A i, j \in 1 .. Len(stdin) : \A t \in Tracks, r, q \in Nat :
            i < j /\ Assigns(stdin[i], t, r) /\ Assigns(stdin[j], t, q) => r < q
  BY <1>2 DEF Agreed, RevisionsOK
<1>5. /\ \A t \in Tracks : worker'.revision[t] <= issued[t]
      /\ \A i \in 2 .. Len(stdin) : \A t \in Tracks, r \in Nat :
            Assigns(stdin[i], t, r) => worker'.revision[t] < r
  <2>1. CASE worker'.revision = worker.revision
    BY <1>4, <2>1
  <2>2. CASE \E t \in Tracks, r \in Nat :
                Assigns(Head(stdin), t, r) /\ worker'.revision = [worker.revision EXCEPT ![t] = r]
    <3>1. PICK t \in Tracks, r \in Nat :
             Assigns(stdin[1], t, r) /\ worker'.revision = [worker.revision EXCEPT ![t] = r]
      BY <1>2, <2>2
    <3>2. worker.revision \in [Tracks -> Nat]
      BY ProtocolTypes DEF WorkerStates
    <3>3. r <= issued[t] /\ 1 \in 1 .. Len(stdin)
      BY <1>2, <1>4, <3>1
    <3>4. \A i \in 2 .. Len(stdin) : \A q \in Nat : Assigns(stdin[i], t, q) => r < q
      BY <1>2, <1>4, <3>1, <3>3
    <3>5. \A u \in Tracks : worker'.revision[u] = IF u = t THEN r ELSE worker.revision[u]
      BY <3>1, <3>2
    <3>6. \A i \in 2 .. Len(stdin) : i \in 1 .. Len(stdin)
      BY <1>2
    <3> QED
      BY <1>4, <3>3, <3>4, <3>5, <3>6
  <2> QED
    BY <2>1, <2>2
<1>6. RevisionsOK'
  <2>1. \A i \in 1 .. Len(stdin) - 1 : \A t \in Tracks, r \in Nat :
           Assigns(stdin'[i], t, r) => worker'.revision[t] < r /\ r <= issued[t]
    <3>1. \A i \in 1 .. Len(stdin) - 1 : stdin'[i] = stdin[i + 1] /\ i + 1 \in 1 .. Len(stdin) /\ i + 1 \in 2 .. Len(stdin)
      BY <1>2
    <3> QED
      BY <1>4, <1>5, <3>1
  <2>2. ASSUME NEW i \in 1 .. Len(stdin) - 1, NEW j \in 1 .. Len(stdin) - 1, i < j,
               NEW t \in Tracks, NEW r \in Nat, NEW q \in Nat,
               Assigns(stdin'[i], t, r), Assigns(stdin'[j], t, q)
        PROVE  r < q
    <3>1. PICK k \in 1 .. Len(stdin), l \in 1 .. Len(stdin) : k = i + 1 /\ l = j + 1
      BY <1>2
    <3>2. k < l /\ Assigns(stdin[k], t, r) /\ Assigns(stdin[l], t, q)
      BY <1>2, <2>2, <3>1
    <3> QED
      BY <1>4, <3>2
  <2>3. UNCHANGED issued
    OBVIOUS
  <2>4. /\ \A t \in Tracks : worker'.revision[t] <= issued'[t]
        /\ \A i \in DOMAIN stdin' : \A t \in Tracks, r \in Nat :
              Assigns(stdin'[i], t, r) => worker'.revision[t] < r /\ r <= issued'[t]
        /\ \A i, j \in DOMAIN stdin' : \A t \in Tracks, r, q \in Nat :
              i < j /\ Assigns(stdin'[i], t, r) /\ Assigns(stdin'[j], t, q) => r < q
    BY <1>2, <1>5, <2>1, <2>2, <2>3
  <2> QED
    BY <2>4 DEF RevisionsOK, Assigns, TypeOf
<1> QED
  BY <1>3, <1>6

\* The worker takes the oldest command.
LEMMA WorkerReadAgreed ==
    ASSUME settings \in SettingsRange, Fits(settings), Agreed, ProtocolTypeOK, WorkerRead PROVE Agreed'
<1>1. PICK frame : frame = Head(stdin)
  OBVIOUS
<1>2. /\ stdin # << >> /\ stdin' = Tail(stdin) /\ UNCHANGED <<settings, runner, issued>>
      /\ worker.at \in {"waiting", "serving"}
  BY DEF WorkerRead
<1>3. frame \in Commands /\ frame = stdin[1] /\ 1 \in DOMAIN stdin
  BY <1>1, <1>2 DEF Agreed, CommandsOK
<1>4. /\ NativeDecodes(frame) /\ frame.bytes = "whole"
      /\ \A f \in {"session_id", "camera_id", "run_id", "generation", "runtime_attempt"} :
            frame.header[f] = Header("start", "id1", 1)[f]
      /\ TypeOf(frame) \in {"start", "stop", "identity_assignment"}
      /\ TypeOf(frame) = "start" <=> frame = StartCommand(settings)
      /\ TypeOf(frame) = "identity_assignment" =>
            \E t \in Tracks, r \in Nat \ {0} : Assigns(frame, t, r)
  BY <1>3, CommandFacts
<1>5. worker \in WorkerStates /\ ~worker.refused /\ ~runner.refused /\ EventsOK
  BY ProtocolTypes DEF Agreed
<1>6. CASE worker.at = "waiting"
  <2>1. frame = StartCommand(settings)
    BY <1>3, <1>6 DEF Agreed, CommandsOK
  <2>2. /\ TypeOf(frame) = "start" /\ frame.header = Header("start", "id1", 1)
        /\ NativeMessage(frame).body.gpu_id = N(settings.gpu)
    BY <2>1, StartDecodes
  <2>3. PICK w : w = [worker EXCEPT !.at = "serving", !.start = frame.header]
    OBVIOUS
  <2>4. PushEvent(w, "hello", Hello)
    BY <1>1, <1>4, <1>6, <2>2, <2>3 DEF WorkerRead, ReadFirst
  <2>5. frame.header \in NativeHeader
    BY <1>4, TakenType
  <2>6. /\ w \in WorkerStates /\ w.at = "serving" /\ w.start = Header("start", "id1", 1)
        /\ w.emitted = worker.emitted /\ w.revision = worker.revision /\ w.refused = worker.refused
    BY <1>5, <2>2, <2>3, <2>5 DEF WorkerStates
  <2>7. /\ EventsOK'
        /\ worker'.at = w.at /\ worker'.start = w.start /\ worker'.revision = w.revision
        /\ worker'.refused = w.refused
    BY <1>2, <1>5, <2>4, <2>6, HelloReads, PushedEvents
  <2>8. CommandsOK' /\ RevisionsOK'
    BY <1>2, <1>6, <2>6, <2>7, RestOfCommands
  <2> QED
    BY <1>2, <1>5, <2>6, <2>7, <2>8 DEF Agreed
<1>7. CASE worker.at = "serving"
  <2>1. worker.start = Header("start", "id1", 1) /\ TypeOf(frame) # "start"
    BY <1>3, <1>4, <1>7 DEF Agreed, CommandsOK
  <2>2. InContext(frame)
    <3>1. ASSUME TypeOf(frame) = "identity_assignment"
          PROVE  frame.body.assignment_revision[2] > worker.revision[frame.body.tracker_id[2]]
      <4>1. PICK t \in Tracks, r \in Nat \ {0} : Assigns(frame, t, r)
        BY <1>4, <3>1
      <4>2. worker.revision[t] < r /\ worker.revision[t] \in Nat
        BY <1>3, <1>5, <4>1 DEF Agreed, RevisionsOK, WorkerStates
      <4>3. frame.body.assignment_revision[2] = r /\ frame.body.tracker_id[2] = t
        BY <4>1 DEF Assigns, N
      <4> QED
        BY <4>2, <4>3
    <3> QED
      BY <1>4, <2>1, <3>1 DEF InContext
  <2>3. ReadNext(frame)
    BY <1>1, <1>4, <1>7 DEF WorkerRead
  <2>4. CASE TypeOf(frame) = "stop"
    <3>1. PICK w : w = [worker EXCEPT !.at = "exited"]
      OBVIOUS
    <3>2. PushEvent(w, "stopped", Stopped)
      BY <1>4, <2>2, <2>3, <2>4, <3>1 DEF ReadNext
    <3>3. /\ w \in WorkerStates /\ w.at = "exited" /\ w.start = worker.start
          /\ w.emitted = worker.emitted /\ w.revision = worker.revision /\ w.refused = worker.refused
      BY <1>5, <3>1 DEF WorkerStates
    <3>4. /\ EventsOK'
          /\ worker'.at = w.at /\ worker'.start = w.start /\ worker'.revision = w.revision
          /\ worker'.refused = w.refused
      BY <1>2, <1>5, <2>1, <3>2, <3>3, StoppedReads, PushedEvents
    <3>5. CommandsOK' /\ RevisionsOK'
      BY <1>2, <3>3, <3>4, RestOfCommands
    <3> QED
      BY <1>2, <1>5, <3>3, <3>4, <3>5 DEF Agreed
  <2>5. CASE TypeOf(frame) = "identity_assignment"
    <3>1. PICK t \in Tracks, r \in Nat \ {0} : Assigns(frame, t, r)
      BY <1>4, <2>5
    <3>2. frame.body.assignment_revision[2] = r /\ frame.body.tracker_id[2] = t
      BY <3>1 DEF Assigns, N
    <3>3. PICK w : w = [worker EXCEPT !.revision[t] = r]
      OBVIOUS
    <3>4. (worker' = w /\ UNCHANGED stdout) \/ PushEvent(w, "metrics", Metrics)
      BY <1>4, <2>2, <2>3, <2>5, <3>2, <3>3 DEF ReadNext, Apply
    <3>5. /\ w \in WorkerStates /\ w.at = worker.at /\ w.start = worker.start
          /\ w.emitted = worker.emitted /\ w.refused = worker.refused
          /\ w.revision = [worker.revision EXCEPT ![t] = r]
      BY <1>5, <3>3 DEF WorkerStates
    <3>6. /\ EventsOK'
          /\ worker'.at = w.at /\ worker'.start = w.start /\ worker'.revision = w.revision
          /\ worker'.refused = w.refused
      <4>1. CASE worker' = w /\ UNCHANGED stdout
        BY <1>2, <1>5, <3>5, <4>1 DEF EventsOK
      <4>2. CASE PushEvent(w, "metrics", Metrics)
        BY <1>2, <1>5, <2>1, <3>5, <4>2, MetricsReads, PushedEvents
      <4> QED
        BY <3>4, <4>1, <4>2
    <3>7. Assigns(Head(stdin), t, r)
      BY <1>1, <3>1
    <3>8. CommandsOK' /\ RevisionsOK'
      BY <1>2, <1>7, <2>1, <3>5, <3>6, <3>7, RestOfCommands
    <3> QED
      BY <1>2, <1>5, <3>5, <3>6, <3>8 DEF Agreed
  <2> QED
    BY <1>4, <2>1, <2>4, <2>5
<1> QED
  BY <1>2, <1>6, <1>7

\* The supervisor reads the oldest event, which is newer than those it has read.
LEMMA RunnerReadAgreed ==
    ASSUME Agreed, ProtocolTypeOK, RunnerRead PROVE Agreed'
<1>1. PICK frame : frame = Head(stdout)
  OBVIOUS
<1>2. PICK emitted \in Nat : emitted = worker.emitted
  BY ProtocolTypes DEF WorkerStates
<1>3. stdout \in Seq(Events) /\ stdout # << >> /\ stdout' = Tail(stdout)
  BY DEF Agreed, EventsOK, RunnerRead
<1>4. /\ stdout' \in Seq(Events) /\ Len(stdout) \in Nat \ {0} /\ Len(stdout') = Len(stdout) - 1
      /\ DOMAIN stdout' = 1 .. Len(stdout) - 1 /\ DOMAIN stdout = 1 .. Len(stdout)
      /\ frame = stdout[1] /\ 1 \in 1 .. Len(stdout)
      /\ \A i \in 1 .. Len(stdout) - 1 : stdout'[i] = stdout[i + 1] /\ i + 1 \in 1 .. Len(stdout)
  BY <1>1, <1>3
<1>5. /\ \A i \in 1 .. Len(stdout) : Reads(stdout[i], 99 + emitted - Len(stdout) + i)
      /\ runner.sequence < 100 + emitted - Len(stdout)
  BY <1>2, <1>4 DEF Agreed, EventsOK
<1>6. PICK number \in Int : number = 99 + emitted - Len(stdout) + 1
  <2>1. PICK length \in Nat : length = Len(stdout)
    BY <1>4
  <2>2. 99 + emitted - length + 1 \in Int
    OBVIOUS
  <2> QED
    BY <2>1, <2>2
<1>7. Reads(frame, number) /\ runner.sequence < number
  BY <1>4, <1>5, <1>6
<1>8. /\ PyDecodes(frame) /\ InRun(PyMessage(frame)) /\ frame.header.sequence[2] = number
      /\ frame.header.sequence[2] > runner.sequence
  <2>1. runner.sequence \in Int
    BY ProtocolTypes DEF RunnerStates
  <2>2. PyDecodes(frame) /\ InRun(PyMessage(frame)) /\ frame.header.sequence[2] = number
    BY <1>7 DEF Reads, N
  <2> QED
    BY <1>6, <1>7, <2>1, <2>2
<1>9. /\ runner' = [runner EXCEPT
             !.sequence = frame.header.sequence[2],
             !.seen = IF TypeOf(frame) = "track_evidence"
                      THEN @ \cup ({frame.body.tracker_id[2]} \cap Tracks) ELSE @,
             !.stopped = @ \/ TypeOf(frame) = "stopped"]
      /\ UNCHANGED worker
  BY <1>1, <1>8 DEF RunnerRead
<1>10. runner'.sequence = number /\ runner'.refused = runner.refused
  BY <1>8, <1>9, ProtocolTypes DEF RunnerStates
<1>11. UNCHANGED <<settings, issued, stdin>>
  BY DEF RunnerRead
<1>12. EventsOK'
  <2>1. ASSUME NEW i \in 1 .. Len(stdout) - 1
        PROVE  Reads(stdout'[i], 99 + emitted - Len(stdout') + i)
    <3>1. PICK j \in 1 .. Len(stdout) : j = i + 1
      BY <1>4
    <3>2. 99 + emitted - Len(stdout') + i = 99 + emitted - Len(stdout) + j
      BY <1>4, <3>1
    <3> QED
      BY <1>4, <1>5, <3>1, <3>2
  <2>2. number < 100 + emitted - Len(stdout')
    BY <1>4, <1>6
  <2>3. /\ \A i \in DOMAIN stdout' : Reads(stdout'[i], 99 + worker'.emitted - Len(stdout') + i)
        /\ runner'.sequence < 100 + worker'.emitted - Len(stdout')
    BY <1>2, <1>4, <1>9, <1>10, <2>1, <2>2
  <2> QED
    BY <1>4, <2>3 DEF EventsOK, Reads
<1>13. CommandsOK' /\ RevisionsOK'
  BY <1>9, <1>11, SameCommands DEF Agreed, CommandsOK, RevisionsOK
<1> QED
  BY <1>9, <1>10, <1>12, <1>13 DEF Agreed

\* The end of the output refuses nothing.
LEMMA RunnerEndAgreed ==
    ASSUME Agreed, ProtocolTypeOK, RunnerEnd PROVE Agreed'
<1>1. /\ worker.at = "exited" /\ UNCHANGED <<settings, issued, stdin, stdout>>
      /\ worker \in WorkerStates /\ runner \in RunnerStates
  BY ProtocolTypes DEF RunnerEnd
<1>2. worker' = worker
  BY <1>1 DEF RunnerEnd, RunFails, WorkerStates
<1>3. runner'.sequence = runner.sequence /\ (runner'.refused = runner.refused \/ ~runner'.refused)
  BY <1>1 DEF RunnerEnd, RunFails, RunnerStates
<1>4. CommandsOK' /\ RevisionsOK'
  BY <1>1, <1>2, SameCommands DEF Agreed, CommandsOK, RevisionsOK
<1>5. EventsOK'
  BY <1>1, <1>2, <1>3 DEF Agreed, EventsOK
<1> QED
  BY <1>2, <1>3, <1>4, <1>5 DEF Agreed

\* Every step keeps PInv.
LEMMA ProtocolStep ==
    ASSUME PInv, [ProtocolNext]_protocolVars PROVE PInv'
<1>1. ProtocolTypeOK /\ ProtocolTypeOK'
  BY ProtocolTypeStep DEF PInv
<1>2. SUFFICES ASSUME ~odd', Fits(settings)' PROVE Agreed'
  BY <1>1 DEF PInv
<1>3. UNCHANGED settings
  BY DEF ProtocolNext, Start, Stop, Assign, WorkerRead, Emit, RunnerRead, RunnerEnd,
         Deviate, protocolVars
<1>4. ~odd
  BY <1>2 DEF ProtocolNext, Start, Stop, Assign, WorkerRead, Emit, RunnerRead, RunnerEnd,
         Deviate, protocolVars
<1>5. settings \in SettingsRange /\ Fits(settings)
  BY <1>1, <1>2, <1>3 DEF ProtocolTypeOK, Fits
<1>6. Agreed
  BY <1>4, <1>5 DEF PInv
<1>7. CASE Start
  BY <1>1, <1>5, <1>6, <1>7, StartAgreed
<1>8. CASE Stop
  BY <1>5, <1>6, <1>8, StopAgreed
<1>9. CASE WorkerRead
  BY <1>1, <1>5, <1>6, <1>9, WorkerReadAgreed
<1>10. CASE Emit
  BY <1>1, <1>6, <1>10, EmitAgreed
<1>11. CASE RunnerRead
  BY <1>1, <1>6, <1>11, RunnerReadAgreed
<1>12. CASE RunnerEnd
  BY <1>1, <1>6, <1>12, RunnerEndAgreed
<1>13. CASE \E t \in Tracks, known \in BOOLEAN : Assign(t, known)
  BY <1>1, <1>5, <1>6, <1>13, AssignAgreed
<1>14. CASE \E frame \in OddFrames : Deviate(frame)
  BY <1>2, <1>14 DEF Deviate
<1>15. CASE UNCHANGED protocolVars
  BY <1>6, <1>15, SameCommands DEF protocolVars, Agreed, CommandsOK, RevisionsOK, EventsOK
<1> QED
  BY <1>7, <1>8, <1>9, <1>10, <1>11, <1>12, <1>13, <1>14, <1>15 DEF ProtocolNext

\* PInv is an invariant: as long as no frame of another build was delivered and the
\* settings fit, what is under way on both pipes is what the other side takes.
THEOREM ProtocolInvariance == ProtocolSpec => []PInv
<1>1. ProtocolInit => PInv
  BY ProtocolTypeInit, AgreedInit DEF PInv
<1>2. PInv /\ [ProtocolNext]_protocolVars => PInv'
  BY ProtocolStep
<1> QED
  BY <1>1, <1>2, PTL DEF ProtocolSpec

\* The variables of the runner and of the worker keep their types, whatever a peer of
\* another build puts on the pipes.
THEOREM ProtocolTypeCorrect == ProtocolSpec => []ProtocolTypeOK
<1>1. PInv => ProtocolTypeOK
  BY DEF PInv
<1> QED
  BY <1>1, ProtocolInvariance, PTL

\* With settings that fit, the worker refuses no command of _write_commands and the
\* supervisor no event of live_worker_main, in any order of commands and events.
THEOREM EachUnderstandsTheOther == ProtocolSpec => []Understood
<1>1. PInv => Understood
  BY DEF PInv, Agreed, Understood
<1> QED
  BY <1>1, ProtocolInvariance, PTL

\* decode_message and decode_live_message accept the same of the plain frames on the
\* pipes and read the same message from them, up to single precision.
THEOREM DecodersAgree == ProtocolSpec => []SameVerdict
  BY VerdictsAgree, PTL
=============================================================================
