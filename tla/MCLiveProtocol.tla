--------------------------- MODULE MCLiveProtocol ---------------------------
(* LiveProtocol on a small instance: integers of at most 8, one track.     *)
EXTENDS LiveProtocol

Default ==
    [gpu |-> 0, udp_port |-> 1, rtsp_port |-> 1, profile |-> 1, confidence |-> Fine,
     threshold |-> Unit, gap |-> 1, latency |-> 0, interval |-> 0, attempts |-> -1, timeout |-> 1]

Other == <<"float", "other">>

\* The settings of which at most one differs from the default one.
MCSettings ==
    {Default} \cup
    {[Default EXCEPT ![f] = n] : f \in {"gpu", "udp_port", "rtsp_port", "gap", "latency",
                                        "interval", "attempts", "timeout"},
                                 n \in {-2, 0, Max32 + 1}} \cup
    {[Default EXCEPT ![f] = v] : f \in {"confidence", "threshold"}, v \in {Other, N(2)}} \cup
    {[Default EXCEPT !.profile = Max32 + 1]} \cup
    {[Default EXCEPT ![f] = Max16 + 1] : f \in {"udp_port", "rtsp_port"}}

Good ==
    {StartCommand(Default), Assignment(1, 1, TRUE), Assignment(1, 1, FALSE), StopCommand}
    \cup {Frame(Header(m[1], "id1", 100), m[2]) : m \in
            {<<"hello", Hello>>, <<"state", State("ACTIVE")>>, <<"track_evidence", Evidence(1, 0)>>,
             <<"metrics", Metrics>>, <<"native_operation", Operation(TRUE)>>,
             <<"native_operation", Operation(FALSE)>>, <<"failed", Failed>>, <<"stopped", Stopped>>,
             <<"output_ready", [mount_path |-> Str("v"), codec |-> Str("v"), caps |-> Str("v")]>>,
             <<"track_expired", [tracker_id |-> N(1), evidence_revision |-> N(1),
                                 first_seen_ns |-> N(1), last_seen_ns |-> N(1),
                                 reason |-> Str("v")]>>}}

\* What a field is changed to.
Values ==
    {N(n) : n \in {-1, 0, 2, Max63 + 1}} \cup
    {Nil, Str("id1"), Str("ID1"), <<"float", "rough">>, Vec(512), <<"bool", TRUE>>,
     <<"bin", MaxJpeg + 1>>, Obs(<<>>), Obs([i \in 1 .. MaxObservations + 1 |-> Observation]),
     Map([k \in AttributeKeys |-> Missing])}

\* What a field with numbers is changed to as well.
Numbers ==
    ({"float"} \X {"fine", "huge"}) \cup {<<"bin", 4>>} \cup ({"vec"} \X {4} \X {"rough", "huge"}) \cup
    ({"vec"} \X {512} \X {"fine", "rough", "leaves", "enters", "huge"})

Without(f, r) == [k \in DOMAIN r \ {f} |-> r[k]]
With(f, r) == [k \in DOMAIN r \cup {f} |-> IF k = f THEN Nil ELSE r[k]]

\* Every good frame, with at most one field of it changed, left out or added.
MCOddFrames ==
    Good \cup
    {[g EXCEPT !.bytes = b] : g \in {StopCommand}, b \in {"garbage", "raw", "cut", "large"}} \cup
    UNION {{[g EXCEPT !.body[f] = v] : f \in DOMAIN g.body, v \in Values} : g \in Good} \cup
    UNION {{[g EXCEPT !.header[f] = v] : f \in DOMAIN g.header, v \in Values} : g \in {StopCommand}} \cup
    UNION {{[g EXCEPT !.body = Without(f, @)] : f \in DOMAIN g.body} : g \in Good} \cup
    {[g EXCEPT !.body = With("more", @)] : g \in Good} \cup
    UNION {{[g EXCEPT !.body[f] = v] :
                f \in {"match_score", "reference_embedding"}, v \in Numbers} :
           g \in {h \in Good : TypeOf(h) = "identity_assignment"}} \cup
    UNION {{[g EXCEPT !.body.observations = Obs(<<[Observation EXCEPT ![2][f] = v]>>)] :
                f \in DOMAIN Observation[2], v \in Values \cup Numbers} :
           g \in {h \in Good : TypeOf(h) = "track_evidence"}}

=============================================================================
