---------------------------- MODULE ImageWorker ----------------------------
(* The image path to the GPU: the worker pool of the API process            *)
(* (app/infrastructure/gpu/worker_pool.py), the native worker that serves   *)
(* one connection at a time (pipeline/src/worker_main.cpp) and its          *)
(* persistent JPEG pipeline (pipeline/src/image_source_pool.cpp).           *)
(*                                                                          *)
(* A connection carries a batch: one image from the pool, several from the  *)
(* bulk scripts.  The worker numbers every image with a token, pushes it    *)
(* into a source slot and waits until as many frames have come out of the   *)
(* pipeline, since the process started, as it has counted in.  Faces and    *)
(* embeddings are left out: a result is its token and the image its faces   *)
(* are those of.                                                            *)
(*                                                                          *)
(* A client sends the size of its batch and then its images, one after the  *)
(* other, or stops sending.  Neither recv and send of the worker nor a push *)
(* into a full source slot has a timeout.                                   *)
EXTENDS Integers, FiniteSets, Sequences, SequencesExt

CONSTANTS
    NumWorkers,     \* length of the pool's list of socket paths
    Slots,          \* source slots of a worker, argv[2]
    Clients,        \* connections, each used for one batch
    Batch,          \* Batch[c]: the images that client c sends
    Untimed,        \* clients without a timeout, as the bulk scripts are
    Undecodable,    \* images that nvjpegdec cannot decode
    Malformed,      \* images whose request decode_request refuses
    Room            \* bound: images that a slot's chain holds, by bytes in the code

\* The pool's tuple of socket paths, one per worker.
Workers == 0 .. NumWorkers - 1

\* The chains from an appsrc to the muxer that build() makes, one per slot.
SourceSlots == 0 .. Slots - 1

\* The images a worker can be sent: those of a batch that has a slot for each.
Images == Clients \X (1 .. Slots)

ASSUME ImageWorkerAssumption ==
    /\ NumWorkers \in Nat \ {0}
    /\ Slots \in Nat \ {0}
    /\ IsFiniteSet(Clients)
    /\ Batch \in [Clients -> Nat]
    /\ Untimed \subseteq Clients
    /\ Undecodable \subseteq Images
    /\ Malformed \subseteq Images
    /\ Room \in Nat \ {0}

VARIABLES
    turn,       \* the pool's counter, modulo the number of paths
    client,     \* client[c]: state of the connection on the client's side
    path,       \* path[c]: the worker that client c was sent to
    sent,       \* sent[c]: what client c has sent: the size first, then images
    answers,    \* answers[c]: the responses client c was given, in order
    backlog,    \* backlog[w]: connections that worker w has not accepted
    server,     \* server[w]: where main() of worker w is
    serving,    \* serving[w]: its batch: client, request_ids, the results taken
    next,       \* next_token
    total,      \* completed_total
    frames,     \* frame_count of the pipeline
    results,    \* results of the pipeline not taken yet, by their tokens
    flight,     \* the frames inside the pipeline, by their tokens
    broken,     \* broken[w]: source slots that have stopped
    lost,       \* lost[w]: number of frames that never came out
    cut         \* cut[w]: frames pushed by batches that failed while read

pool == <<turn, client, path, sent, answers, backlog>>
pipeline == <<frames, results, flight, broken, lost>>
vars == <<turn, client, path, sent, answers, backlog, server, serving, next, total,
          frames, results, flight, broken, lost, cut>>

\* A client that still holds its socket open.
Connected(c) == client[c] = "waiting"

NoBatch == [client |-> "none", ids |-> << >>, found |-> << >>]

Token == Nat \ {0}

\* Images by their tokens.
Numbering == UNION {[tokens -> Images] : tokens \in SUBSET Token}

\* What a client is sent: the id of an image, and the faces of an image.
Response == Images \X Images

\* Where main() is while it serves a client; "size" waits for the batch's size.
Busy == {"size", "read", "wait", "write"}

Serving == [client : Clients \cup {"none"}, ids : Numbering, found : Numbering]

TypeOK ==
    /\ turn \in Workers
    /\ client \in [Clients -> {"idle", "waiting", "ok", "error"}]
    /\ path \in [Clients -> Workers]
    /\ sent \in [Clients -> Nat]
    /\ answers \in [Clients -> Seq(Response)]
    /\ backlog \in [Workers -> Seq(Clients)]
    /\ server \in [Workers -> {"down", "accept"} \cup Busy]
    /\ \A w \in Workers :
          IF server[w] \in Busy
          THEN serving[w].client \in Clients ELSE serving[w] = NoBatch
    /\ serving \in [Workers -> Serving]
    /\ next \in [Workers -> Token]
    /\ total \in [Workers -> Nat]
    /\ frames \in [Workers -> Nat]
    /\ results \in [Workers -> Numbering]
    /\ flight \in [Workers -> Numbering]
    /\ broken \in [Workers -> SUBSET SourceSlots]
    /\ lost \in [Workers -> Nat]
    /\ cut \in [Workers -> Nat]

Init ==
    /\ turn = 0
    /\ client = [c \in Clients |-> "idle"]
    /\ path = [c \in Clients |-> 0]
    /\ sent = [c \in Clients |-> 0]
    /\ answers = [c \in Clients |-> << >>]
    /\ backlog = [w \in Workers |-> << >>]
    /\ server = [w \in Workers |-> "accept"]
    /\ serving = [w \in Workers |-> NoBatch]
    /\ next = [w \in Workers |-> 1]
    /\ total = [w \in Workers |-> 0]
    /\ frames = [w \in Workers |-> 0]
    /\ results = [w \in Workers |-> << >>]
    /\ flight = [w \in Workers |-> << >>]
    /\ broken = [w \in Workers |-> {}]
    /\ lost = [w \in Workers |-> 0]
    /\ cut = [w \in Workers |-> 0]

----------------------------------------------------------------------------
(* The pool *)

\* The paths are used in turn.
NextPath(c) ==
    /\ turn' = (turn + 1) % NumWorkers
    /\ path' = [path EXCEPT ![c] = turn]

\* A worker that is down refuses the connection, one that is up queues it.
Request(c) ==
    /\ client[c] = "idle"
    /\ NextPath(c)
    /\ IF server[turn] = "down"
       THEN /\ client' = [client EXCEPT ![c] = "error"]
            /\ UNCHANGED backlog
       ELSE /\ client' = [client EXCEPT ![c] = "waiting"]
            /\ backlog' = [backlog EXCEPT ![turn] = Append(@, c)]
    /\ UNCHANGED <<sent, answers, server, serving, next, total, pipeline, cut>>

\* The size of the batch is sent, then one image after the other.
Send(c) ==
    /\ Connected(c)
    /\ sent[c] < 1 + Batch[c]
    /\ sent' = [sent EXCEPT ![c] = @ + 1]
    /\ UNCHANGED <<turn, client, path, answers, backlog, server, serving, next, total,
                   pipeline, cut>>

\* The socket's timeout, in any call of _process_sync, or the end of a script:
\* the client closes.  The worker can still read what was sent before.
GiveUp(c) ==
    /\ Connected(c)
    /\ client' = [client EXCEPT ![c] = "error"]
    /\ UNCHANGED <<turn, path, sent, answers, backlog, server, serving, next, total,
                   pipeline, cut>>

----------------------------------------------------------------------------
(* main() of the worker *)

\* close(client) at the end of the loop: a client that was not given all it
\* asked for reads the end of the stream.
Close(w) ==
    /\ server' = [server EXCEPT ![w] = "accept"]
    /\ serving' = [serving EXCEPT ![w] = NoBatch]

Refuse(w) ==
    /\ Close(w)
    /\ client' = [client EXCEPT ![serving[w].client] =
                     IF @ = "waiting" THEN "error" ELSE @]
    /\ UNCHANGED answers

Accept(w) ==
    /\ server[w] = "accept"
    /\ backlog[w] # << >>
    /\ server' = [server EXCEPT ![w] = "size"]
    /\ serving' = [serving EXCEPT ![w] = [NoBatch EXCEPT !.client = Head(backlog[w])]]
    /\ backlog' = [backlog EXCEPT ![w] = Tail(@)]
    /\ UNCHANGED <<turn, client, path, sent, answers, next, total, pipeline, cut>>

ReadSizeRenumbers(w) ==
    LET c == serving[w].client IN
    /\ server[w] = "size"
    /\ sent[c] > 0
    /\ Batch[c] \in 1 .. Slots
    /\ server' = [server EXCEPT ![w] = "read"]
    /\ next' = [next EXCEPT ![w] = 1]
    /\ UNCHANGED <<pool, serving, total, pipeline, cut>>

\* The size of the batch is read: there is to be a slot for each image.
ReadSize(w) ==
    LET c == serving[w].client IN
    /\ server[w] = "size"
    /\ sent[c] > 0
    /\ Batch[c] \in 1 .. Slots
    /\ server' = [server EXCEPT ![w] = "read"]
    /\ UNCHANGED <<pool, serving, next, total, pipeline, cut>>

\* The images of the batch that the worker has read.
ReadSoFar(w) == Cardinality(DOMAIN serving[w].ids)

\* decode_request: version, fields and the marker that starts a JPEG.
DecodeRequest(image) == image \notin Malformed

\* The i-th image of a batch goes to the i-th source slot, since begin_batch
\* went back to the first.
Slot(w, t) == flight[w][t][2] - 1

\* The appsrc of a slot takes no more: a push into it waits.
Full(w, slot) == Cardinality({t \in DOMAIN flight[w] : Slot(w, t) = slot}) >= Room

\* push_jpeg.  A slot that has stopped takes images as long as there is room, and
\* does not tell.
PushJpeg(w, token, image) ==
    /\ ~Full(w, image[2] - 1)
    /\ flight' = [flight EXCEPT ![w] = [t \in DOMAIN @ \cup {token} |->
                                           IF t = token THEN image ELSE @[t]]]

PushCountsOne(w) ==
    LET i == ReadSoFar(w) + 1
        image == <<serving[w].client, i>>
        token == next[w]
    IN /\ server[w] = "read"
       /\ sent[serving[w].client] > i
       /\ DecodeRequest(image)
       /\ next' = [next EXCEPT ![w] = token + 1]
       /\ serving' = [serving EXCEPT ![w].ids = [t \in DOMAIN @ \cup {token} |->
                                                    IF t = token THEN image ELSE @[t]]]
       /\ PushJpeg(w, token, image)
       /\ IF i = Batch[serving[w].client]
          THEN /\ total' = [total EXCEPT ![w] = @ + 1]
               /\ server' = [server EXCEPT ![w] = "wait"]
          ELSE UNCHANGED <<total, server>>
       /\ UNCHANGED <<pool, frames, results, broken, lost, cut>>

\* The next image of the batch is read, decoded and pushed.  The last one adds
\* the batch to completed_total.
Push(w) ==
    LET i == ReadSoFar(w) + 1
        image == <<serving[w].client, i>>
        token == next[w]
    IN /\ server[w] = "read"
       /\ sent[serving[w].client] > i
       /\ DecodeRequest(image)
       /\ next' = [next EXCEPT ![w] = token + 1]
       /\ serving' = [serving EXCEPT ![w].ids = [t \in DOMAIN @ \cup {token} |->
                                                    IF t = token THEN image ELSE @[t]]]
       /\ PushJpeg(w, token, image)
       /\ IF i = Batch[serving[w].client]
          THEN /\ total' = [total EXCEPT ![w] = @ + i]
               /\ server' = [server EXCEPT ![w] = "wait"]
          ELSE UNCHANGED <<total, server>>
       /\ UNCHANGED <<pool, frames, results, broken, lost, cut>>

\* An exception before the batch is read: its size is none that the worker takes,
\* an image is malformed, or the client is gone and what it sent is used up.
\* What was pushed stays in the pipeline and was not added to completed_total.
ReadFails(w) ==
    LET c == serving[w].client
        i == ReadSoFar(w) + 1
    IN /\ \/ server[w] = "size" /\ sent[c] > 0 /\ Batch[c] \notin 1 .. Slots
          \/ server[w] = "size" /\ sent[c] = 0 /\ ~Connected(c)
          \/ server[w] = "read" /\ sent[c] > i /\ ~DecodeRequest(<<c, i>>)
          \/ server[w] = "read" /\ sent[c] <= i /\ ~Connected(c)
       /\ cut' = [cut EXCEPT ![w] = @ + ReadSoFar(w)]
       /\ Refuse(w)
       /\ UNCHANGED <<turn, path, sent, backlog, next, total, pipeline>>

\* wait_for_frames returns true and take_results empties the results.
FramesReady(w) == frames[w] >= total[w]

TakeResults(w) ==
    /\ server[w] = "wait"
    /\ FramesReady(w)
    /\ server' = [server EXCEPT ![w] = "write"]
    /\ serving' = [serving EXCEPT ![w].found =
                      [t \in DOMAIN results[w] \cap DOMAIN serving[w].ids |-> results[w][t]]]
    /\ results' = [results EXCEPT ![w] = << >>]
    /\ UNCHANGED <<pool, next, total, frames, flight, broken, lost, cut>>

WaitForever(w) ==
    /\ server[w] = "wait"
    /\ FramesReady(w)
    /\ Refuse(w)
    /\ UNCHANGED <<turn, path, sent, backlog, next, total, pipeline, cut>>

\* wait_for_frames gives up after 120 seconds.
WaitTimeout(w) ==
    /\ server[w] = "wait"
    /\ ~FramesReady(w)
    /\ Refuse(w)
    /\ UNCHANGED <<turn, path, sent, backlog, next, total, pipeline, cut>>

\* The k-th token comes after k - 1 others.
Kth(tokens, k) == CHOOSE t \in tokens : Cardinality({u \in tokens : u < t}) = k - 1

\* By their tokens.
Sorted(f) == [k \in 1 .. Cardinality(DOMAIN f) |-> f[Kth(DOMAIN f, k)]]

\* A result is sent under the id that request_ids has for its token; results of
\* other batches are skipped.
Responses(batch) == [t \in DOMAIN batch.found |-> <<batch.ids[t], batch.found[t]>>]

\* The client reads one response for each image and knows them by their ids.
Satisfied(c, responses) ==
    /\ Len(responses) = Batch[c]
    /\ \A k \in 1 .. Batch[c] : \E i \in 1 .. Batch[c] : responses[k][1] = <<c, i>>

\* The responses are written in the order of their tokens.  A client that is gone
\* makes a write fail; one that is there takes them, and is satisfied when each of
\* its images has been answered.
Respond(w) ==
    LET c == serving[w].client
        responses == Sorted(Responses(serving[w]))
    IN /\ server[w] = "write"
       /\ IF Connected(c)
          THEN /\ answers' = [answers EXCEPT ![c] = responses]
               /\ client' = [client EXCEPT ![c] = IF Satisfied(c, responses) THEN "ok" ELSE "error"]
          ELSE UNCHANGED <<answers, client>>
       /\ Close(w)
       /\ UNCHANGED <<turn, path, sent, backlog, next, total, pipeline, cut>>

----------------------------------------------------------------------------
(* The pipeline's threads *)

\* The frames of one source slot keep their order.
Behind(w, t) == {u \in DOMAIN flight[w] : Slot(w, u) = Slot(w, t) /\ u >= t}

Leave(w, out) == flight' = [flight EXCEPT ![w] = [t \in DOMAIN @ \ out |-> @[t]]]

\* on_buffer: a batch of the muxer reaches the sink; its frames are counted and
\* their results appended under frame_mutex, and the waiting thread is woken.
OnBuffer(w) ==
    \E out \in SUBSET {t \in DOMAIN flight[w] :
                         flight[w][t] \notin Undecodable /\ Slot(w, t) \notin broken[w]} \ {{}} :
        /\ \A t \in DOMAIN flight[w] \ out : Behind(w, t) \cap out = {}
        /\ frames' = [frames EXCEPT ![w] = @ + Cardinality(out)]
        /\ results' = [results EXCEPT ![w] = [t \in DOMAIN @ \cup out |->
                                                IF t \in out THEN flight[w][t] ELSE @[t]]]
        /\ Leave(w, out)
        /\ UNCHANGED <<pool, server, serving, next, total, broken, lost, cut>>

\* nvjpegdec meets an image that it cannot decode: either this frame is dropped,
\* or its error stops the slot as well, which then keeps what is behind the frame
\* and what is pushed.  Nobody watches the pipeline's bus.
DecodeFails(w) ==
    \E t \in {u \in DOMAIN flight[w] : flight[w][u] \in Undecodable},
       stops \in BOOLEAN :
        /\ Slot(w, t) \notin broken[w]
        /\ \A u \in DOMAIN flight[w] : t \in Behind(w, u) => u = t
        /\ Leave(w, {t})
        /\ lost' = [lost EXCEPT ![w] = @ + 1]
        /\ broken' = IF stops THEN [broken EXCEPT ![w] = @ \cup {Slot(w, t)}] ELSE broken
        /\ UNCHANGED <<pool, server, serving, next, total, frames, results, cut>>

----------------------------------------------------------------------------
(* The worker's process *)

\* The process dies: its connections are reset and its counters are gone.
Crash(w) ==
    LET reset == ToSet(backlog[w]) \cup {serving[w].client} IN
    /\ server[w] # "down"
    /\ server' = [server EXCEPT ![w] = "down"]
    /\ serving' = [serving EXCEPT ![w] = NoBatch]
    /\ client' = [c \in Clients |->
                     IF c \in reset /\ Connected(c) THEN "error" ELSE client[c]]
    /\ backlog' = [backlog EXCEPT ![w] = << >>]
    /\ next' = [next EXCEPT ![w] = 1]
    /\ total' = [total EXCEPT ![w] = 0]
    /\ frames' = [frames EXCEPT ![w] = 0]
    /\ results' = [results EXCEPT ![w] = << >>]
    /\ flight' = [flight EXCEPT ![w] = << >>]
    /\ broken' = [broken EXCEPT ![w] = {}]
    /\ lost' = [lost EXCEPT ![w] = 0]
    /\ cut' = [cut EXCEPT ![w] = 0]
    /\ UNCHANGED <<turn, path, sent, answers>>

\* The container is restarted: the pipeline is started, then the socket bound.
Restart(w) ==
    /\ server[w] = "down"
    /\ server' = [server EXCEPT ![w] = "accept"]
    /\ UNCHANGED <<pool, serving, next, total, pipeline, cut>>

ClientStep(c) == Request(c) \/ Send(c) \/ GiveUp(c)

\* The steps of main().
Serve(w) ==
    \/ Accept(w) \/ ReadSize(w) \/ Push(w) \/ ReadFails(w)
    \/ TakeResults(w) \/ WaitTimeout(w) \/ Respond(w)

Next ==
    \/ \E c \in Clients : ClientStep(c)
    \/ \E w \in Workers :
          Serve(w) \/ OnBuffer(w) \/ DecodeFails(w) \/ Crash(w) \/ Restart(w)

Spec == Init /\ [][Next]_vars

\* The worker's thread goes on when what it waits for is there or its only
\* timeout, that of wait_for_frames, has passed; a response is written for sure
\* only to a client that is gone.  A client of the pool has a timeout on each
\* call.  The container is restarted unless stopped.  Nothing is assumed of other
\* clients, of what a client sends or reads, of the pipeline and of crashes.
FairSpec ==
    /\ Spec
    /\ \A w \in Workers :
          /\ WF_vars(Accept(w) \/ ReadSize(w) \/ Push(w) \/ ReadFails(w))
          /\ WF_vars(TakeResults(w) \/ WaitTimeout(w))
          /\ WF_vars(Respond(w) /\ ~Connected(serving[w].client))
          /\ WF_vars(Restart(w))
    /\ \A c \in Clients \ Untimed : WF_vars(GiveUp(c))

----------------------------------------------------------------------------
(* Properties *)

\* A client is satisfied only by the faces of its own images, each under its own
\* id, once and in the order it sent them, whatever late results of earlier
\* batches the pipeline still held (tokens are never reused while the process
\* lives, and results are looked up in request_ids).
OwnAnswer ==
    \A c \in Clients :
        client[c] = "ok" => answers[c] = [i \in 1 .. Batch[c] |-> <<<<c, i>>, <<c, i>>>>]

\* Counting frames since the process started is as good as waiting for the
\* frames of this batch: unless an earlier batch was cut off while it was read,
\* the wait does not end before all of them are there, and unless a frame was
\* lost or is still in the pipeline, it does not go on after that
\* (completed_total against frame_count).
WaitIsExact ==
    \A w \in Workers :
        server[w] = "wait" =>
            LET own == DOMAIN serving[w].ids IN
            /\ cut[w] = 0 /\ FramesReady(w) => own \subseteq DOMAIN results[w]
            /\ lost[w] = 0 /\ DOMAIN flight[w] = {} => FramesReady(w)

\* The worker waits for a client that has no timeout either: to send, or to read.
AtUntimedClient(w) ==
    LET c == serving[w].client IN
    /\ server[w] \in Busy
    /\ c \in Untimed /\ Connected(c)
    /\ \/ server[w] = "size" /\ sent[c] = 0
       \/ server[w] = "read" /\ sent[c] <= ReadSoFar(w) + 1
       \/ server[w] = "write"

\* The worker waits for room in a source slot.
AtFullSlot(w) == server[w] = "read" /\ Full(w, ReadSoFar(w))

\* The worker comes back to accept the next connection although clients of the
\* pool fall silent, images are lost and its counts are off for good; only a
\* client without a timeout and a slot without room hold it, at the places where
\* main() waits without one.
ServerReturns ==
    \A w \in Workers :
        server[w] # "accept" ~> \/ server[w] = "accept"
                               \/ AtUntimedClient(w) \/ AtFullSlot(w)

=============================================================================
