---------------------------- MODULE LiveProtocol ----------------------------
(***************************************************************************)
(* The frames that the supervisor and the native worker of a live run      *)
(* exchange: what each side builds, and what each side's decoder, in       *)
(* Python and in C++, accepts and reads from it.                           *)
(*                                                                         *)
(* A MessagePack value is a pair of its type and of what the decoders tell *)
(* apart; integers are scaled down with the widths that bound them, and of *)
(* a number with a fraction only its range and whether single precision    *)
(* holds it are kept.  What a decoder accepts is a set of records: a       *)
(* missing or an unknown field is then no member.  Which code an error has *)
(* is left out, as every caller treats all of them alike.                  *)
(***************************************************************************)
EXTENDS Integers, Sequences

CONSTANTS
    Tracks,           \* tracker ids
    Max16, Max24, Max31, Max32, Max63,  \* the widths of integers, scaled
    MaxObservations,  \* MAX_OBSERVATIONS (10)
    MaxJpeg,          \* MAX_ALIGNED_JPEG_BYTES
    SettingsRange,    \* the settings that start commands are built from
    OddFrames,        \* frames of a peer of another build
    MaxMessages       \* bound: messages that each side sends

ASSUME WidthAssumption ==
    /\ {Max16, Max24, Max31, Max32, Max63} \subseteq Nat
    /\ 2 < Max16 /\ Max16 < Max24 /\ Max24 < Max31 /\ Max31 < Max32 /\ Max32 < Max63
ASSUME TracksAssumption == Tracks \subseteq Nat
ASSUME BoundAssumption ==
    MaxObservations \in Nat \ {0} /\ MaxJpeg \in Nat /\ MaxMessages \in Nat

VARIABLES
    settings,  \* the settings of the supervisor
    runner,    \* NativeLiveRunner.run and its DecodeContext
    issued,    \* the newest assignment revision of each track
    worker,    \* main of the native worker and its DecodeContext
    stdin,     \* the frames on their way to the worker
    stdout,    \* the frames on their way to the runner
    odd        \* whether a frame of another build was delivered

protocolVars == <<settings, runner, issued, worker, stdin, stdout, odd>>

-----------------------------------------------------------------------------
(* MessagePack values.                                                     *)

Nil == <<"nil", "">>
N(n) == <<"int", n>>
Str(s) == <<"str", s>>
Unit == <<"float", "unit">>
Fine == <<"float", "fine">>
Vec(n) == <<"vec", n, "unit">>
Obs(s) == <<"list", s>>
Map(f) == <<"map", f>>
Missing == <<"missing", "">>

\* The literals that stand for a text are strings.
ASSUME LiteralAssumption ==
    {"uri", "path", "name", "reason", "requested", "text", "v", "CODE"} \subseteq STRING

-----------------------------------------------------------------------------
(* protocol.py: what decode_message accepts.                               *)

AnyInt(minimum) == {"int"} \X {n \in Int : n >= minimum}

\* A double that is finite: from 0 to 1 and exact in single precision ("unit") or not
\* ("fine"), another one that is exact ("other") or not ("rough"), or one beyond the
\* range of single precision.
Float == {"float"} \X {"unit", "fine", "other", "rough", "huge"}
Finite == Float \cup ({"int"} \X Int)
Text == {"str"} \X STRING
OptionalText == Text \cup {Nil}
OneOf(names) == {"str"} \X names
InUnit == {Unit, Fine, N(0), N(1)}
Flag == {"bool"} \X BOOLEAN

\* UUID: in either case; "id1" and "ID1" are the same one.
Ids == {"id1", "id2", "ID1", "fallback"}
Uuid == OneOf(Ids)

\* A vector of finite doubles: its norm is within the bounds for one and its elements
\* are exact in single precision ("unit") or not ("fine"), or it is not within them
\* ("other", "rough"); in between, it "leaves" or "enters" the bounds when the elements
\* are rounded.  An element of a "huge" one is beyond single precision.
FloatArray(n) ==
    {"vec"} \X {n} \X {"unit", "fine", "other", "rough", "leaves", "enters", "huge"}
Floats(n) == FloatArray(n) \cup {<<"bin", n>>}
Embedding == {"vec"} \X {512} \X {"unit", "fine", "leaves"}

Version == 2
MessageTypes ==
    {"start", "identity_assignment", "stop", "hello", "state", "output_ready", "track_evidence",
     "track_expired", "metrics", "failed", "stopped", "native_operation"}

\* "trace" and "state" stand for a well-formed traceparent and tracestate.
Traceparent == OneOf({"trace"})
Tracestate == OneOf({"state"}) \cup {Nil}

PyHeader ==
    [protocol_version: {N(Version)}, message_type: OneOf(MessageTypes), session_id: Uuid,
     camera_id: Uuid, run_id: Uuid, generation: AnyInt(1), runtime_attempt: AnyInt(1),
     sequence: AnyInt(0), traceparent: Traceparent, tracestate: Tracestate]

PyStart ==
    [uri: Text, gpu_id: AnyInt(0), pgie_config_path: Text, preprocess_config_path: Text,
     sgie_config_path: Text, tracker_config_path: Text, output_mount_path: Text,
     output_udp_port: AnyInt(1), output_rtsp_port: AnyInt(1), profile_version: AnyInt(1),
     analytics_mode: OneOf({"detect", "detectTrack", "recognize"}), sample_every_n: AnyInt(1),
     detector_threshold: InUnit, recognition_threshold: InUnit, top2_margin: InUnit,
     track_gap_ns: AnyInt(1), latency_ms: AnyInt(0), reconnect_interval_seconds: AnyInt(0),
     reconnect_attempts: AnyInt(-1), frame_timeout_ns: AnyInt(1), recording_enabled: Flag,
     annotated_enabled: Flag]

PyAssignmentOf(state, name, face, number, reference) ==
    [tracker_id: AnyInt(0), assignment_revision: AnyInt(1), identity_epoch: AnyInt(1),
     identity_state: OneOf({state}), display_name: name, face_id: face, match_score: number,
     recognition_threshold: number, reference_embedding: reference, decision_sequence: AnyInt(0)]

PyAssignmentLax ==
    PyAssignmentOf("known", OptionalText, Uuid, Finite, Embedding)
        \cup PyAssignmentOf("unknown", {Nil}, {Nil}, {Nil}, {Nil})

\* A known identity has all of its parts, an unknown one has none.
PyAssignment ==
    PyAssignmentOf("known", Text, Uuid, Finite, Embedding)
        \cup PyAssignmentOf("unknown", {Nil}, {Nil}, {Nil}, {Nil})

PyObservation ==
    {"map"} \X [timestamp_ns: AnyInt(0), bbox: Floats(4), detector_confidence: Finite,
                landmarks: Floats(10), landmark_confidences: Floats(5), quality_score: Finite,
                reject_mask: AnyInt(0), embedding: Embedding]

PyObservations == {"list"} \X {s \in Seq(PyObservation) : Len(s) <= MaxObservations}

PyEvidence ==
    [tracker_id: AnyInt(0), evidence_revision: AnyInt(1), first_seen_ns: AnyInt(0),
     last_seen_ns: AnyInt(0), observations: PyObservations,
     representative_aligned_jpeg: {"bin"} \X (0 .. MaxJpeg)]

PyExpired ==
    [tracker_id: AnyInt(0), evidence_revision: AnyInt(1), first_seen_ns: AnyInt(0),
     last_seen_ns: AnyInt(0), reason: Text]

\* A map with some of the given keys.
MapsTo(keys, values) == {"map"} \X [keys -> values \cup {Missing}]

Names == {"attempt", "reason", "decoded_frames"}
AttributeKeys == {"attempt", "reason", "state", "outcome", "batch_size", "object_count"}
Operations ==
    {"source_connect", "first_frame", "reconnect", "graph_rebuild", "inference_window",
     "output_start", "output_stop", "teardown"}

\* "enum" and "CODE" stand for the strings that match the two patterns.
PyOperationOf(status, code) ==
    [operation: OneOf(Operations), started_monotonic_ns: AnyInt(0), ended_monotonic_ns: AnyInt(0),
     status: OneOf({status}), error_code: code,
     attributes: MapsTo(AttributeKeys, OneOf({"enum"}) \cup Finite)]

PyOperation ==
    {o \in PyOperationOf("ok", {Nil}) \cup PyOperationOf("error", OneOf({"CODE"})) :
        o.started_monotonic_ns[2] <= o.ended_monotonic_ns[2]}

RuntimeStates == {"STARTING", "ACTIVE", "RECONNECTING", "STOPPING", "STOPPED", "FAILED"}

PyBody ==
    [start |-> PyStart,
     identity_assignment |-> PyAssignment,
     stop |-> [reason: Text, shutdown_deadline_ns: AnyInt(1)],
     hello |-> [build_id: Text, gstreamer_version: Text, deepstream_version: Text],
     state |-> [state: OneOf(RuntimeStates), reason: OptionalText],
     output_ready |-> [mount_path: Text, codec: Text, caps: Text],
     track_evidence |-> PyEvidence,
     track_expired |-> PyExpired,
     metrics |-> [counters: MapsTo(Names, AnyInt(0)), gauges: MapsTo(Names, Finite)],
     failed |-> [error_code: Text, message: Text],
     stopped |-> [decoded_frames: AnyInt(0), emitted_evidence: AnyInt(0), dropped_events: AnyInt(0),
                  clean_shutdown: Flag, reason: Text],
     native_operation |-> PyOperation]

TypeOf(frame) == frame.header.message_type[2]

\* decode_message.  bytes: whether the frame is "whole" or no MessagePack map, has a
\* text that is not UTF-8 ("raw"), or is "cut" or too "large".
PyDecodes(frame) ==
    /\ frame.bytes = "whole"
    /\ frame.header \in PyHeader
    /\ frame.body \in PyBody[TypeOf(frame)]

Lower(id) == IF id = Str("ID1") THEN Str("id1") ELSE id

\* The message that _header and _decode_payload return.
PyMessage(frame) ==
    [header |-> [frame.header EXCEPT !.session_id = Lower(@), !.camera_id = Lower(@),
                                     !.run_id = Lower(@)],
     body |-> IF TypeOf(frame) = "identity_assignment"
              THEN [frame.body EXCEPT !.face_id = Lower(@)] ELSE frame.body]

-----------------------------------------------------------------------------
(* live_protocol.cpp: what decode_live_message accepts.                    *)

Unsigned(minimum) == {"int"} \X {n \in Nat : n >= minimum}
Within(low, high) == {"int"} \X (low .. high)

\* The norm is computed from the rounded elements.
NativeEmbedding == {"vec"} \X {512} \X {"unit", "fine", "enters"}

NativeHeader ==
    [protocol_version: {N(Version)}, message_type: OneOf(MessageTypes), session_id: Uuid,
     camera_id: Uuid, run_id: Uuid, generation: Unsigned(1), runtime_attempt: Unsigned(1),
     sequence: Unsigned(0), traceparent: Traceparent, tracestate: Tracestate]

NativeStart ==
    [uri: Text, gpu_id: Unsigned(0), pgie_config_path: Text, preprocess_config_path: Text,
     sgie_config_path: Text, tracker_config_path: Text, output_mount_path: Text,
     output_udp_port: Within(1, Max16), output_rtsp_port: Within(1, Max16),
     profile_version: Within(1, Max32), analytics_mode: OneOf({"detect", "detectTrack", "recognize"}),
     sample_every_n: Within(1, Max32), detector_threshold: InUnit, recognition_threshold: InUnit,
     top2_margin: InUnit, track_gap_ns: Unsigned(1), latency_ms: Within(0, Max32),
     reconnect_interval_seconds: Within(0, Max32), reconnect_attempts: Within(-1, Max31),
     frame_timeout_ns: Unsigned(1), recording_enabled: Flag, annotated_enabled: Flag]

NativeAssignmentOf(state, name, face, number, reference) ==
    [tracker_id: Unsigned(0), assignment_revision: Unsigned(1), identity_epoch: Unsigned(1),
     identity_state: OneOf({state}), display_name: name, face_id: face, match_score: number,
     recognition_threshold: number, reference_embedding: reference, decision_sequence: Unsigned(0)]

NativeAssignment ==
    NativeAssignmentOf("known", Text, Uuid, Finite, NativeEmbedding)
        \cup NativeAssignmentOf("unknown", {Nil}, {Nil}, {Nil}, {Nil})

NativeObservation ==
    {"map"} \X [timestamp_ns: Unsigned(0), bbox: FloatArray(4), detector_confidence: Finite,
                landmarks: FloatArray(10), landmark_confidences: FloatArray(5),
                quality_score: Finite, reject_mask: Unsigned(0), embedding: NativeEmbedding]

NativeEvidence ==
    [tracker_id: Unsigned(0), evidence_revision: Unsigned(1), first_seen_ns: Unsigned(0),
     last_seen_ns: Unsigned(0),
     observations: {"list"} \X {s \in Seq(NativeObservation) : Len(s) <= MaxObservations},
     representative_aligned_jpeg: {"bin"} \X (0 .. MaxJpeg)]

NativeOperationOf(status, code) ==
    [operation: OneOf(Operations), started_monotonic_ns: Unsigned(0), ended_monotonic_ns: Unsigned(0),
     status: OneOf({status}), error_code: code,
     attributes: MapsTo(AttributeKeys, OneOf({"enum"}) \cup Float
                                       \cup ({"int"} \X {n \in Int : n <= Max63}))]

NativeOperation ==
    {o \in NativeOperationOf("ok", {Nil}) \cup NativeOperationOf("error", OneOf({"CODE"})) :
        o.started_monotonic_ns[2] <= o.ended_monotonic_ns[2]}

NativeBody ==
    [start |-> NativeStart,
     identity_assignment |-> NativeAssignment,
     stop |-> [reason: Text, shutdown_deadline_ns: Unsigned(1)],
     hello |-> [build_id: Text, gstreamer_version: Text, deepstream_version: Text],
     state |-> [state: OneOf(RuntimeStates), reason: OptionalText],
     output_ready |-> [mount_path: Text, codec: Text, caps: Text],
     track_evidence |-> NativeEvidence,
     track_expired |-> [tracker_id: Unsigned(0), evidence_revision: Unsigned(1),
                        first_seen_ns: Unsigned(0), last_seen_ns: Unsigned(0), reason: Text],
     metrics |-> [counters: MapsTo(Names, Unsigned(0)), gauges: MapsTo(Names, Finite)],
     failed |-> [error_code: Text, message: Text],
     stopped |-> [decoded_frames: Unsigned(0), emitted_evidence: Unsigned(0),
                  dropped_events: Unsigned(0), clean_shutdown: Flag, reason: Text],
     native_operation |-> NativeOperation]

\* decode_live_message.  Texts are taken as they are.
NativeDecodes(frame) ==
    /\ frame.bytes \in {"whole", "raw"}
    /\ frame.header \in NativeHeader
    /\ frame.body \in NativeBody[TypeOf(frame)]

\* static_cast<float> of a finite double, or of each element of an array.
Narrowed(kind) ==
    CASE kind \in {"fine", "enters"} -> "unit"
      [] kind \in {"rough", "leaves"} -> "other"
      [] kind = "huge" -> "infinite"
      [] OTHER -> kind
Single(v) ==
    CASE v[1] = "float" -> <<"float", Narrowed(v[2])>>
      [] v[1] = "vec" -> <<"vec", v[2], Narrowed(v[3])>>
      [] v[1] = "int" /\ v[2] \notin -Max24 .. Max24 -> <<"float", "other">>
      [] OTHER -> v

\* decode_observation.
SingleFields ==
    {"bbox", "detector_confidence", "landmarks", "landmark_confidences", "quality_score", "embedding"}
SingleObservation(o) ==
    Map([g \in DOMAIN o[2] |-> IF g \in SingleFields THEN Single(o[2][g]) ELSE o[2][g]])

\* The message that decode_payload returns: the GPU is cut to 32 bits, the numbers of
\* assignments and observations are rounded to single precision.
NativeMessage(frame) ==
    [header |-> frame.header,
     body |->
        CASE TypeOf(frame) = "start" -> [frame.body EXCEPT !.gpu_id = N(@[2] % (Max32 + 1))]
          [] TypeOf(frame) = "identity_assignment" ->
                [frame.body EXCEPT !.match_score = Single(@), !.recognition_threshold = Single(@),
                                   !.reference_embedding = Single(@)]
          [] TypeOf(frame) = "track_evidence" ->
                [frame.body EXCEPT !.observations =
                    Obs([i \in DOMAIN @[2] |-> SingleObservation(@[2][i])])]
          [] OTHER -> frame.body]

-----------------------------------------------------------------------------
(* What the two sides build.                                               *)

\* The settings that a start command takes over, as config.py types them and
\* as it bounds the profile version.
Settings ==
    [gpu: Int, udp_port: Int, rtsp_port: Int, profile: Nat \ {0}, gap: Int,
     latency: Int, interval: Int, attempts: Int, timeout: Int,
     confidence: Finite, threshold: Finite]

ASSUME SettingsAssumption == SettingsRange \subseteq Settings

Header(type, ids, sequence) ==
    [protocol_version |-> N(Version), message_type |-> Str(type), session_id |-> Str(ids),
     camera_id |-> Str(ids), run_id |-> Str(ids), generation |-> N(1), runtime_attempt |-> N(1),
     sequence |-> N(sequence), traceparent |-> Str("trace"), tracestate |-> Nil]

Frame(header, body) == [bytes |-> "whole", header |-> header, body |-> body]

\* _start_command.  The run of the camera is "id1".
StartCommand(s) ==
    Frame(Header("start", "id1", 1),
          [uri |-> Str("uri"), gpu_id |-> N(s.gpu), pgie_config_path |-> Str("path"),
           preprocess_config_path |-> Str("path"), sgie_config_path |-> Str("path"),
           tracker_config_path |-> Str("path"), output_mount_path |-> Str("path"),
           output_udp_port |-> N(s.udp_port), output_rtsp_port |-> N(s.rtsp_port),
           profile_version |-> N(s.profile), analytics_mode |-> Str("recognize"),
           sample_every_n |-> N(1), detector_threshold |-> s.confidence,
           recognition_threshold |-> s.threshold, top2_margin |-> Unit,
           track_gap_ns |-> N(s.gap), latency_ms |-> N(s.latency),
           reconnect_interval_seconds |-> N(s.interval), reconnect_attempts |-> N(s.attempts),
           frame_timeout_ns |-> N(s.timeout), recording_enabled |-> <<"bool", FALSE>>,
           annotated_enabled |-> <<"bool", TRUE>>])

\* _reference: a point of the vector store with 512 finite elements, normalised with
\* doubles, or the face is not assigned.
Reference == <<"vec", 512, "fine">>

AssignmentNamed(t, revision, known) ==
    Frame(Header("identity_assignment", "id1", revision),
          [tracker_id |-> N(t), assignment_revision |-> N(revision), identity_epoch |-> N(1),
           identity_state |-> Str(IF known THEN "known" ELSE "unknown"),
           display_name |-> Str("name"), face_id |-> IF known THEN Str("id2") ELSE Nil,
           match_score |-> IF known THEN Fine ELSE Nil,
           recognition_threshold |-> IF known THEN Fine ELSE Nil,
           reference_embedding |-> IF known THEN Reference ELSE Nil, decision_sequence |-> N(1)])

\* _assignment.  The identity, its score and its reference belong to a known one.
Assignment(t, revision, known) ==
    Frame(Header("identity_assignment", "id1", revision),
          [tracker_id |-> N(t), assignment_revision |-> N(revision), identity_epoch |-> N(1),
           identity_state |-> Str(IF known THEN "known" ELSE "unknown"),
           display_name |-> IF known THEN Str("name") ELSE Nil,
           face_id |-> IF known THEN Str("id2") ELSE Nil,
           match_score |-> IF known THEN Fine ELSE Nil,
           recognition_threshold |-> IF known THEN Fine ELSE Nil,
           reference_embedding |-> IF known THEN Reference ELSE Nil, decision_sequence |-> N(1)])

\* _stop_command of an active run.
StopCommand ==
    Frame(Header("stop", "id1", 2), [reason |-> Str("reason"), shutdown_deadline_ns |-> N(2)])

Observation ==
    Map([timestamp_ns |-> N(1), bbox |-> <<"vec", 4, "other">>, detector_confidence |-> Unit,
         landmarks |-> <<"vec", 10, "other">>, landmark_confidences |-> <<"vec", 5, "other">>,
         quality_score |-> Unit, reject_mask |-> N(0), embedding |-> Vec(512)])

\* The events of live_worker_main and of the callbacks it gives the pipeline, for
\* a track t: evidence has at most five observations, and a failed rebuild is the
\* one operation with an error.
Hello == [build_id |-> Str("v"), gstreamer_version |-> Str("v"), deepstream_version |-> Str("v")]
State(s) == [state |-> Str(s), reason |-> Nil]
Evidence(t, jpeg) ==
    [tracker_id |-> N(t), evidence_revision |-> N(1), first_seen_ns |-> N(1), last_seen_ns |-> N(1),
     observations |-> Obs(<<Observation>>), representative_aligned_jpeg |-> <<"bin", jpeg>>]
Metrics ==
    [counters |-> Map([k \in Names |-> IF k = "decoded_frames" THEN N(1) ELSE Missing]),
     gauges |-> Map([k \in Names |-> Missing])]
Operation(ok) ==
    [operation |-> Str("graph_rebuild"), started_monotonic_ns |-> N(1),
     ended_monotonic_ns |-> N(2), status |-> Str(IF ok THEN "ok" ELSE "error"),
     error_code |-> IF ok THEN Nil ELSE Str("CODE"),
     attributes |-> Map([k \in AttributeKeys |-> CASE k = "attempt" -> N(1)
                                                 [] k = "reason" -> Str("enum")
                                                 [] OTHER -> Missing])]
Failed == [error_code |-> Str("CODE"), message |-> Str("text")]
Stopped == [decoded_frames |-> N(1), emitted_evidence |-> N(0), dropped_events |-> N(0),
            clean_shutdown |-> <<"bool", TRUE>>, reason |-> Str("requested")]

-----------------------------------------------------------------------------
(* The runner and the worker.                                              *)

ProtocolTypeOK ==
    /\ settings \in SettingsRange
    /\ runner \in [at: {"new", "running", "ended", "failed"}, refused: BOOLEAN,
                   sequence: Int, seen: SUBSET Tracks, stopped: BOOLEAN]
    /\ issued \in [Tracks -> Nat]
    /\ worker \in [at: {"absent", "waiting", "serving", "exited"}, code: {0, 1},
                   start: NativeHeader, revision: [Tracks -> Nat], emitted: Nat,
                   refused: BOOLEAN]
    /\ odd \in BOOLEAN

ProtocolInit ==
    /\ settings \in SettingsRange
    /\ runner = [at |-> "new", refused |-> FALSE, sequence |-> -1, seen |-> {}, stopped |-> FALSE]
    /\ issued = [t \in Tracks |-> 0]
    /\ worker = [at |-> "absent", code |-> 0, start |-> Header("start", "fallback", 0),
                 revision |-> [t \in Tracks |-> 0], emitted |-> 0, refused |-> FALSE]
    /\ stdin = <<>> /\ stdout = <<>>
    /\ odd = FALSE

\* run: the process gets the GPU as its argument, where std::stoi takes 32 bits.
Start ==
    /\ runner.at = "new"
    /\ runner' = [runner EXCEPT !.at = "running"]
    /\ worker' = IF settings.gpu <= Max31
                 THEN [worker EXCEPT !.at = "waiting"]
                 ELSE [worker EXCEPT !.at = "exited", !.code = 1]
    /\ stdin' = <<StartCommand(settings)>>
    /\ UNCHANGED <<settings, issued, stdout, odd>>

\* _write_commands, for the assignment that follows an evidence of the track.
Assign(t, known) ==
    /\ runner.at = "running" /\ t \in runner.seen
    /\ issued[t] < MaxMessages
    /\ issued' = [issued EXCEPT ![t] = @ + 1]
    /\ stdin' = Append(stdin, Assignment(t, issued[t] + 1, known))
    /\ UNCHANGED <<settings, runner, worker, stdout, odd>>

\* _write_commands, for the one stop of the run.
Stop ==
    /\ runner.at = "running"
    /\ \A i \in DOMAIN stdin : stdin[i] # StopCommand
    /\ worker.at # "exited"
    /\ stdin' = Append(stdin, StopCommand)
    /\ UNCHANGED <<settings, runner, issued, worker, stdout, odd>>

\* event_header, with the number that the writer thread gives it.
EventHeader(w, type) ==
    [w.start EXCEPT !.message_type = Str(type), !.sequence = N(100 + w.emitted)]

PushEvent(w, type, body) ==
    /\ worker' = [w EXCEPT !.emitted = @ + 1]
    /\ stdout' = Append(stdout, Frame(EventHeader(w, type), body))

\* The start was refused, or the pipe is broken: the header of the event is made up.
Abort(w) ==
    /\ worker' = [w EXCEPT !.at = "exited", !.code = 1, !.refused = TRUE, !.emitted = @ + 1]
    /\ stdout' = Append(stdout,
                        Frame(Header("failed", "fallback", 100 + w.emitted), Failed))

KeepWaiting(w) == worker' = [w EXCEPT !.refused = TRUE] /\ UNCHANGED stdout

\* The catch of a LiveProtocolError before the start.
RefuseStart(w) == Abort(w)

\* A command before the start.  The GPU is the argument of the process.
ReadFirst(frame) ==
    IF NativeDecodes(frame)
    THEN CASE TypeOf(frame) = "start" /\ NativeMessage(frame).body.gpu_id = N(settings.gpu) ->
                  PushEvent([worker EXCEPT !.at = "serving", !.start = frame.header], "hello", Hello)
           [] TypeOf(frame) = "identity_assignment" -> PushEvent(worker, "metrics", Metrics)
           [] TypeOf(frame) = "stop" ->
                  worker' = [worker EXCEPT !.at = "exited"] /\ UNCHANGED stdout
           [] OTHER -> RefuseStart(worker)
    ELSE RefuseStart(worker)

\* DecodeContext of the worker: the header agrees with the start, as it was written,
\* and the revision of an assignment is new.
InContext(frame) ==
    /\ \A f \in {"session_id", "camera_id", "run_id", "generation", "runtime_attempt"} :
        frame.header[f] = worker.start[f]
    /\ TypeOf(frame) = "identity_assignment" =>
        (frame.body.tracker_id[2] \in Tracks =>
            frame.body.assignment_revision[2] > worker.revision[frame.body.tracker_id[2]])

\* An assignment that the pipeline cannot apply is counted.
Apply(frame) ==
    LET t == frame.body.tracker_id[2]
        w == IF t \in Tracks
             THEN [worker EXCEPT !.revision[t] = frame.body.assignment_revision[2]] ELSE worker
    IN \/ worker' = w /\ UNCHANGED stdout
       \/ PushEvent(w, "metrics", Metrics)

\* A command after the start; what is no command is counted and dropped.
ReadNext(frame) ==
    IF NativeDecodes(frame) /\ InContext(frame) /\ TypeOf(frame) \in {"identity_assignment", "stop"}
    THEN CASE TypeOf(frame) = "stop" ->
                  PushEvent([worker EXCEPT !.at = "exited"], "stopped", Stopped)
           [] OTHER -> Apply(frame)
    ELSE PushEvent([worker EXCEPT !.refused = TRUE], "metrics", Metrics)

\* One turn of the loop of main.
WorkerRead ==
    /\ worker.at \in {"waiting", "serving"} /\ stdin # <<>>
    /\ stdin' = Tail(stdin)
    /\ LET frame == Head(stdin)
       IN CASE frame.bytes \in {"cut", "large"} -> Abort(worker)
            [] worker.at = "waiting" -> ReadFirst(frame)
            [] OTHER -> ReadNext(frame)
    /\ UNCHANGED <<settings, runner, issued, odd>>

\* The callbacks of the pipeline.
Emit ==
    /\ worker.at = "serving" /\ worker.emitted < MaxMessages
    /\ \/ \E s \in RuntimeStates : PushEvent(worker, "state", State(s))
       \/ \E t \in Tracks, jpeg \in {0, MaxJpeg} : PushEvent(worker, "track_evidence", Evidence(t, jpeg))
       \/ PushEvent(worker, "metrics", Metrics)
       \/ \E ok \in BOOLEAN : PushEvent(worker, "native_operation", Operation(ok))
       \/ PushEvent(worker, "failed", Failed)
    /\ UNCHANGED <<settings, runner, issued, stdin, odd>>

\* DecodeContext of the runner.  It is given no assignments, so no revision is compared.
InRun(message) ==
    \A f \in {"session_id", "camera_id", "run_id"} :
        message.header[f] = Str("id1") /\ message.header.generation = N(1)
                                       /\ message.header.runtime_attempt = N(1)

\* run, when its reader has failed or the worker has: _terminate leaves no process.
RunFails(refused) ==
    /\ runner' = [runner EXCEPT !.at = "failed", !.refused = refused]
    /\ worker' = [worker EXCEPT !.at = "exited"]

\* One turn of the loop of _read_events.
RunnerRead ==
    /\ runner.at = "running" /\ stdout # <<>>
    /\ stdout' = Tail(stdout)
    /\ LET frame == Head(stdout)
           message == PyMessage(frame)
       IN IF /\ PyDecodes(frame) /\ InRun(message)
             /\ frame.header.sequence[2] > runner.sequence
          THEN /\ runner' = [runner EXCEPT
                     !.sequence = frame.header.sequence[2],
                     !.seen = IF TypeOf(frame) = "track_evidence"
                              THEN @ \cup ({frame.body.tracker_id[2]} \cap Tracks) ELSE @,
                     !.stopped = @ \/ TypeOf(frame) = "stopped"]
               /\ UNCHANGED worker
          ELSE RunFails(TRUE)
    /\ UNCHANGED <<settings, issued, stdin, odd>>

\* The end of the output: run returns the stopped event of a process that exited with 0.
RunnerEnd ==
    /\ runner.at = "running" /\ worker.at = "exited" /\ stdout = <<>>
    /\ IF worker.code = 0 /\ runner.stopped
       THEN runner' = [runner EXCEPT !.at = "ended"] /\ UNCHANGED worker
       ELSE RunFails(FALSE)
    /\ UNCHANGED <<settings, issued, stdin, stdout, odd>>

\* The peer is of another build: the message is of the same type and made in another
\* way, or of a type that this build does not send.
Sent == {Str(m) : m \in MessageTypes \ {"output_ready", "track_expired"}}
Deviates(pipe, frame) ==
    /\ pipe # <<>>
    /\ \/ frame.header.message_type = Head(pipe).header.message_type
       \/ frame.header.message_type \notin Sent

Deviate(frame) ==
    /\ runner.at = "running" /\ ~odd
    /\ odd' = TRUE
    /\ \/ Deviates(stdin, frame) /\ stdin' = [stdin EXCEPT ![1] = frame] /\ UNCHANGED stdout
       \/ Deviates(stdout, frame) /\ stdout' = [stdout EXCEPT ![1] = frame] /\ UNCHANGED stdin
    /\ UNCHANGED <<settings, runner, issued, worker>>

ProtocolNext ==
    \/ Start \/ Stop \/ WorkerRead \/ Emit \/ RunnerRead \/ RunnerEnd
    \/ \E t \in Tracks, known \in BOOLEAN : Assign(t, known)
    \/ \E frame \in OddFrames : Deviate(frame)

ProtocolSpec == ProtocolInit /\ [][ProtocolNext]_protocolVars

\* Each loop reads what is in its pipe.
FairProtocol ==
    /\ ProtocolSpec
    /\ WF_protocolVars(WorkerRead) /\ WF_protocolVars(RunnerRead) /\ WF_protocolVars(RunnerEnd)

-----------------------------------------------------------------------------
(* Properties.                                                             *)

\* What live_protocol.cpp takes of the settings; config.py bounds only the profile version.
Fits(s) ==
    /\ s.gpu \in 0 .. Max31
    /\ {s.udp_port, s.rtsp_port} \subseteq 1 .. Max16
    /\ s.profile \in 1 .. Max32
    /\ {s.confidence, s.threshold} \subseteq InUnit
    /\ s.gap >= 1 /\ s.timeout >= 1
    /\ {s.latency, s.interval} \subseteq 0 .. Max32
    /\ s.attempts \in -1 .. Max31

\* Two sides of one build understand each other: with settings that fit, the worker
\* refuses no command of the supervisor, in whatever order commands, evidence and the
\* stop cross on the pipes, and the supervisor refuses no event of the worker.
Understood == ~odd /\ Fits(settings) => ~worker.refused /\ ~runner.refused

\* The values that both languages read: not the integers that Python does not bound,
\* numbers beyond single precision, vectors whose norm is at the very edge of the
\* bounds, and identifiers in upper case.
Huge(v) == (v[1] = "float" /\ v[2] = "huge") \/ (v[1] = "vec" /\ v[3] = "huge")
Alike(v) ==
    /\ v[1] = "int" => v[2] \in -Max16 .. Max16
    /\ ~Huge(v)
    /\ v[1] = "vec" => v[3] \notin {"leaves", "enters"}
    /\ v # Str("ID1")

\* The frames of such values, without bytes in the place of a list of numbers and
\* without a text that is not UTF-8.
Plain(frame) ==
    /\ frame.bytes # "raw"
    /\ \A f \in DOMAIN frame.header : Alike(frame.header[f])
    /\ \A f \in DOMAIN frame.body :
        /\ Alike(frame.body[f])
        /\ frame.body[f][1] = "list" =>
            \A i \in DOMAIN frame.body[f][2] :
                LET o == frame.body[f][2][i][2]
                IN \A g \in DOMAIN o : Alike(o[g]) /\ o[g][1] # "bin"
        /\ frame.body[f][1] = "map" =>
            \A k \in DOMAIN frame.body[f][2] : Alike(frame.body[f][2][k])

\* Where Python reads p, C++ reads n: the same, or p in single precision.
Rounds(p, n) ==
    n = p \/ (p[1] \in {"float", "vec"} /\ ~Huge(p) /\ n = Single(p))

\* The two messages are the same up to single precision.
SameUpToRounding(p, n) ==
    /\ n.header = p.header
    /\ DOMAIN n.body = DOMAIN p.body
    /\ \A f \in DOMAIN p.body :
        LET list == p.body[f][2] IN
        \/ Rounds(p.body[f], n.body[f])
        \/ /\ p.body[f][1] = "list" /\ n.body[f][1] = "list"
           /\ DOMAIN n.body[f][2] = DOMAIN list
           /\ \A i \in DOMAIN list :
                LET o == list[i][2]
                    read == n.body[f][2][i][2]
                IN DOMAIN read = DOMAIN o /\ \A g \in DOMAIN o : Rounds(o[g], read[g])

\* The decoders of protocol.py and of live_protocol.cpp accept the same frames and read
\* the same message from them, up to single precision: of each type, with a field
\* missing, unknown, of another type or at the edge of its range.
SameVerdict ==
    \A i \in DOMAIN stdin \cup DOMAIN stdout :
        \A frame \in {q[i] : q \in {r \in {stdin, stdout} : i \in DOMAIN r}} :
            Plain(frame) =>
                /\ PyDecodes(frame) <=> NativeDecodes(frame)
                /\ PyDecodes(frame) => SameUpToRounding(PyMessage(frame), NativeMessage(frame))

\* A start that the worker cannot take does not leave supervisor and worker waiting for
\* each other: run raises, and the supervisor fails the camera's run.
StartSettles ==
    runner.at = "running" /\ ~Fits(settings) ~> (runner.at = "failed" \/ odd)

=============================================================================
