--------------------------- MODULE VideoAnalysis ---------------------------
(* What a video worker makes of one job's source: the native process that    *)
(* decodes and tracks (pipeline/src/video_pipeline.cpp, video_worker_main.cpp), *)
(* the runner that reads its events (app/infrastructure/video), the fragments *)
(* put together to persons (app/services/video_tracking_service.py), the vote *)
(* on their identities (video_identity_voting_service.py) and the faces that  *)
(* the result gives them (video_result_service.py).  Time is counted in       *)
(* frames, scores and thresholds in hundredths.                               *)
EXTENDS Integers, Sequences, FiniteSets, SequencesExt, FiniteSetsExt

CONSTANTS
    Trackers,       \* the numbers that the tracker gives
    Frames,         \* frames of the source
    Sources,        \* sources: the tracks that the tracker finds in each frame
    EveryN,         \* sample_every_n
    MaxEvent,       \* detections of a track that fit into one event
    Attempts,       \* runs that the job may have
    MaxGap,         \* appearance_max_gap_seconds
    Cosine,         \* Cosine[s][t]: likeness of the embeddings of two tracks
    Reconciliation, \* reconciliation_threshold
    Known,          \* enrolled identities
    Anonymous,      \* identities without a name
    Score,          \* Score[i][t]: best score of track t among i's samples
    Weight,         \* Weight[n]: 1 + log1p(n), in tenths
    Recognition,    \* recognition_threshold
    Unnamed,        \* anonymous_threshold
    Floor,          \* video_track_vote_candidate_floor
    MinCount,       \* video_track_vote_min_count
    MinRatio,       \* video_track_vote_min_support_ratio
    MinMargin,      \* video_track_vote_min_margin
    Nobody          \* the vote's answer when nobody wins

ASSUME VideoAnalysisAssumption ==
    /\ Trackers \subseteq Nat /\ IsFiniteSet(Trackers)
    /\ Sources \subseteq [0..Frames - 1 -> SUBSET Trackers]
    /\ {Frames, EveryN, MaxEvent, Attempts, MaxGap} \subseteq Nat \ {0}
    /\ \A s, t \in Trackers : Cosine[s][t] = Cosine[t][s]
    /\ MinCount >= 2 /\ MinRatio > 50
    /\ (Known \cup Anonymous) \cap (Nat \X Seq(Trackers)) = {}

VARIABLES
    source,     \* the source of the job, the same for each attempt
    attempt,    \* runs of the job so far
    job,        \* "native", "finalize", "done", "cancelled" or "failed"
    main,       \* where main() of the native process is
    stream,     \* the streaming threads: "flowing", "eos" or "error"
    frame,      \* frames that came through the graph
    acc,        \* acc[t]: frames of the detections in the accumulator
    sawEos,     \* saw_eos
    errored,    \* error_message is set
    cancel,     \* cancellation_requested, set by a signal
    left,       \* tracks that are still to be written
    pipe,       \* events written and not read yet
    code,       \* exit code, 0 while it runs
    got,        \* got[t]: frames of the track event of t that was read
    completed,  \* processed_frames of the completed event, -1 if none was read
    raws,       \* tracks that are still to be reconciled
    persons,    \* the persons so far: tracks and frames of their detections
    decisions,  \* decisions[k]: the vote on the k-th person
    faces,      \* faces[k]: the face given to the k-th person
    made,       \* faces that the job's attempts have persisted
    older       \* those of the attempts before this one

native == <<main, stream, frame, acc, sawEos, errored, cancel, left, code>>
reading == <<got, completed>>
finalization == <<raws, persons, decisions, faces, made, older>>
analysisVars == <<source, attempt, job, native, pipe, reading, finalization>>

Face == Nat \X Seq(Trackers)
Event == [type : {"track"}, id : Trackers, frames : SUBSET Nat]
         \cup [type : {"completed"}, frames : Nat] \cup [type : {"failed"}]

AnalysisTypeOK ==
    /\ source \in Sources
    /\ attempt \in 1..Attempts
    /\ job \in {"native", "finalize", "done", "cancelled", "failed"}
    /\ main \in {"start", "loop", "quit", "emit", "return", "exited"}
    /\ stream \in {"flowing", "eos", "error"}
    /\ frame \in 0..Frames
    /\ acc \in [Trackers -> SUBSET (0..Frames - 1)]
    /\ {sawEos, errored, cancel} \subseteq BOOLEAN
    /\ left \in Seq(Trackers)
    /\ pipe \in Seq(Event)
    /\ code \in {0, 1, 3, 9}
    /\ got \in [Trackers -> SUBSET (0..Frames - 1)]
    /\ completed \in -1..Frames
    /\ raws \in Seq(Trackers)
    /\ persons \in Seq([sources : Seq(Trackers), frames : SUBSET (0..Frames - 1)])
    /\ decisions \in Seq(Known \cup Anonymous \cup Face \cup {Nobody})
    /\ faces \in Seq(Known \cup Anonymous \cup Face)
    /\ made \in SUBSET Face /\ older \subseteq made

NoTracks == [t \in Trackers |-> {}]

AnalysisInit ==
    /\ source \in Sources
    /\ attempt = 1 /\ job = "native"
    /\ main = "start" /\ stream = "flowing" /\ frame = 0 /\ acc = NoTracks
    /\ sawEos = FALSE /\ errored = FALSE /\ cancel = FALSE
    /\ left = << >> /\ pipe = << >> /\ code = 0
    /\ got = NoTracks /\ completed = -1
    /\ raws = << >> /\ persons = << >> /\ decisions = << >> /\ faces = << >>
    /\ made = {} /\ older = {}

----------------------------------------------------------------------------
(* The native process *)

Streaming == main \in {"start", "loop", "quit"} /\ stream = "flowing"

\* on_tracker_buffer: the objects of a frame that is not sampled are removed.
OnTrackerBuffer(f) == IF f % EveryN = 0 THEN source[f] ELSE {}

\* map_embedding_rows: one row that cannot be used loses the whole buffer.
MapEmbeddingRows(objects, valid) == IF valid = objects THEN objects ELSE {}

\* on_sgie_output: the objects of the frame that get an embedding.
OnSgieOutput(objects) == {MapEmbeddingRows(objects, valid) : valid \in {objects, {}}}

\* add: one more detection of each of the tracks.
Accumulate(tracks) ==
    acc' = [t \in Trackers |-> acc[t] \cup {f \in {frame} : t \in tracks}]

\* on_result_buffer: objects without an embedding are passed over.
OnResultBuffer ==
    /\ Streaming
    /\ frame < Frames
    /\ \E embedded \in OnSgieOutput(OnTrackerBuffer(frame)) : Accumulate(embedded)
    /\ frame' = frame + 1
    /\ UNCHANGED <<source, attempt, job, main, stream, sawEos, errored, cancel, left, code,
                   pipe, reading, finalization>>

\* The source is at its end, or it is damaged and ends early, or an element
\* posts an error.
StreamEnds ==
    /\ Streaming
    /\ stream' \in {"eos", "error"}
    /\ UNCHANGED <<source, attempt, job, main, frame, acc, sawEos, errored, cancel, left, code,
                   pipe, reading, finalization>>

\* on_decode_pad: a decoder without NVMM, or a pad that cannot be linked.  The
\* quit is lost when main() is not in the loop yet; the error that the source
\* posts for its unlinked pad comes later.
OnDecodePad ==
    /\ main \in {"start", "loop"} /\ Streaming /\ frame = 0
    /\ errored' = TRUE
    /\ stream' = "error"
    /\ main' = IF main = "loop" THEN "quit" ELSE main
    /\ UNCHANGED <<source, attempt, job, frame, acc, sawEos, cancel, left, code, pipe, reading,
                   finalization>>

Signal ==
    /\ main # "exited" /\ ~cancel
    /\ cancel' = TRUE
    /\ UNCHANGED <<source, attempt, job, main, stream, frame, acc, sawEos, errored, left, code,
                   pipe, reading, finalization>>

Exit(status) == main' = "exited" /\ code' = status

\* An exception in main(): the failed event, then exit code 1.
Throw == pipe' = Append(pipe, [type |-> "failed"]) /\ Exit(1)

Play ==
    /\ main = "start"
    /\ \/ main' = "loop" /\ UNCHANGED <<pipe, code>>
       \/ Throw
    /\ UNCHANGED <<source, attempt, job, stream, frame, acc, sawEos, errored, cancel, left,
                   reading, finalization>>

OnBus ==
    /\ main = "loop" /\ stream # "flowing"
    /\ sawEos' = (sawEos \/ stream = "eos")
    /\ errored' = (errored \/ stream = "error")
    /\ main' = "quit"
    /\ UNCHANGED <<source, attempt, job, stream, frame, acc, cancel, left, code, pipe, reading,
                   finalization>>

OnCancelWatch ==
    /\ main = "loop" /\ cancel
    /\ main' = "quit"
    /\ UNCHANGED <<source, attempt, job, stream, frame, acc, sawEos, errored, cancel, left, code,
                   pipe, reading, finalization>>

\* By first frame, then by number: finish, and reconcile again.
Earlier(of, s, t) ==
    \/ Min(of[s]) < Min(of[t])
    \/ Min(of[s]) = Min(of[t]) /\ s < t

\* The order of the tracks that have frames, as the only member of a set.
Ordered(of) ==
    LET tracks == {t \in Trackers : of[t] # {}}
    IN {order \in [1..Cardinality(tracks) -> tracks] :
            \A i, j \in DOMAIN order : i < j => Earlier(of, order[i], order[j])}

\* finish: a track whose embeddings cancel out is left out.
Finish ==
    \E void \in {{}} \cup {{t} : t \in {u \in Trackers : Cardinality(acc[u]) > 1}} :
        /\ acc' = [t \in Trackers |-> IF t \in void THEN {} ELSE acc[t]]
        /\ left' \in Ordered(acc')

AfterLoopAnyway ==
    /\ main = "quit"
    /\ \/ cancel /\ Exit(3) /\ UNCHANGED <<acc, left, pipe>>
       \/ ~cancel /\ Finish /\ main' = "emit" /\ UNCHANGED <<pipe, code>>
    /\ UNCHANGED <<source, attempt, job, stream, frame, sawEos, errored, cancel, reading,
                   finalization>>

\* run after the loop, with the graph stopped and its threads joined.
AfterLoop ==
    /\ main = "quit"
    /\ \/ cancel /\ Exit(3) /\ UNCHANGED <<acc, left, pipe>>
       \/ ~cancel /\ (errored \/ ~sawEos) /\ Throw /\ UNCHANGED <<acc, left>>
       \/ ~cancel /\ ~errored /\ sawEos /\ Finish /\ main' = "emit" /\ UNCHANGED <<pipe, code>>
    /\ UNCHANGED <<source, attempt, job, stream, frame, sawEos, errored, cancel, reading,
                   finalization>>

\* frame_payload and decode_video_event refuse an event that is too large.
FrameTooLarge(event) == event.type = "track" /\ Cardinality(event.frames) > MaxEvent

TrackEvent(t) == [type |-> "track", id |-> t, frames |-> acc[t]]

EmitTrack ==
    /\ main = "emit" /\ left # << >>
    /\ \/ /\ FrameTooLarge(TrackEvent(Head(left)))
          /\ Throw
          /\ UNCHANGED left
       \/ /\ ~FrameTooLarge(TrackEvent(Head(left)))
          /\ pipe' = Append(pipe, TrackEvent(Head(left)))
          /\ left' = Tail(left)
          /\ UNCHANGED <<main, code>>
    /\ UNCHANGED <<source, attempt, job, stream, frame, acc, sawEos, errored, cancel, reading,
                   finalization>>

EmitCompleted ==
    /\ main = "emit" /\ left = << >>
    /\ pipe' = Append(pipe, [type |-> "completed", frames |-> frame])
    /\ main' = "return"
    /\ UNCHANGED <<source, attempt, job, stream, frame, acc, sawEos, errored, cancel, left, code,
                   reading, finalization>>

\* main() asks for the signal once more.
Return ==
    /\ main = "return"
    /\ Exit(IF cancel THEN 3 ELSE 0)
    /\ UNCHANGED <<source, attempt, job, stream, frame, acc, sawEos, errored, cancel, left, pipe,
                   reading, finalization>>

Killed ==
    /\ main # "exited"
    /\ Exit(9)
    /\ UNCHANGED <<source, attempt, job, stream, frame, acc, sawEos, errored, cancel, left, pipe,
                   reading, finalization>>

----------------------------------------------------------------------------
(* The runner *)

\* _read_events and on_event: tracks are collected, a failed event or one that
\* cannot be decoded raises.
ReadEvent ==
    /\ job = "native" /\ pipe # << >>
    /\ LET event == Head(pipe) IN
          \/ /\ event.type = "track" /\ ~FrameTooLarge(event)
             /\ got' = [got EXCEPT ![event.id] = event.frames]
             /\ UNCHANGED <<job, completed>>
          \/ /\ event.type = "completed"
             /\ completed' = event.frames
             /\ UNCHANGED <<job, got>>
          \/ /\ event.type = "failed" \/ FrameTooLarge(event)
             /\ job' = "failed"
             /\ UNCHANGED reading
    /\ pipe' = Tail(pipe)
    /\ UNCHANGED <<source, attempt, native, finalization>>

\* The pipe is at its end: the exit code, then whether there was a completed
\* event.
ReadEnds ==
    /\ job = "native" /\ main = "exited" /\ pipe = << >>
    /\ \/ code = 3 /\ job' = "cancelled" /\ UNCHANGED raws
       \/ code # 3 /\ (code # 0 \/ completed = -1) /\ job' = "failed" /\ UNCHANGED raws
       \/ code = 0 /\ completed # -1 /\ job' = "finalize" /\ raws' \in Ordered(got)
    /\ UNCHANGED <<source, attempt, native, pipe, reading, persons, decisions, faces, made, older>>

\* A cancellation, the deadline, or on_event raising on a lost lease: the
\* process is terminated, by a signal and five seconds later by a kill.
Terminate ==
    /\ job = "native"
    /\ job' \in {"cancelled", "failed"}
    /\ cancel' = TRUE
    /\ IF main = "exited" THEN UNCHANGED <<main, code>> ELSE \E c \in {3, 9} : Exit(c)
    /\ UNCHANGED <<source, attempt, stream, frame, acc, sawEos, errored, left, pipe, reading,
                   finalization>>

\* The next attempt of the job, with a new process.
Retry ==
    /\ job = "failed" /\ attempt < Attempts
    /\ attempt' = attempt + 1
    /\ job' = "native"
    /\ main' = "start" /\ stream' = "flowing" /\ frame' = 0 /\ acc' = NoTracks
    /\ sawEos' = FALSE /\ errored' = FALSE /\ cancel' = FALSE
    /\ left' = << >> /\ pipe' = << >> /\ code' = 0
    /\ got' = NoTracks /\ completed' = -1
    /\ raws' = << >> /\ persons' = << >> /\ decisions' = << >> /\ faces' = << >>
    /\ older' = made
    /\ UNCHANGED <<source, made>>

----------------------------------------------------------------------------
(* Persons *)

\* _overlaps: the spans from first to last, whatever lies between.
Overlaps(one, other) == Min(one) <= Max(other) /\ Min(other) <= Max(one)

CandidateOfAny(person, t) ==
    /\ ~Overlaps(person.frames, got[t])
    /\ \E s \in ToSet(person.sources) : Cosine[s][t] >= Reconciliation

\* A person that a track may join: never seen at the same time, and like each
\* of its tracks.
Candidate(person, t) ==
    /\ ~Overlaps(person.frames, got[t])
    /\ \A s \in ToSet(person.sources) : Cosine[s][t] >= Reconciliation

\* reconcile, one track: it joins the candidate whose mean embedding is the
\* nearest, here any of them, or is a new person.
Reconcile ==
    /\ job = "finalize" /\ raws # << >>
    /\ LET t == Head(raws)
           candidates == {k \in DOMAIN persons : Candidate(persons[k], t)}
       IN \/ /\ candidates = {}
             /\ persons' = Append(persons, [sources |-> <<t>>, frames |-> got[t]])
          \/ \E k \in candidates :
                persons' = [persons EXCEPT ![k] = [sources |-> Append(@.sources, t),
                                                   frames |-> @.frames \cup got[t]]]
    /\ raws' = Tail(raws)
    /\ UNCHANGED <<source, attempt, job, native, pipe, reading, decisions, faces, made, older>>

AppearancesKeepStart(frames) ==
    LET step(so, f) ==
            IF f - so.end > MaxGap
            THEN [done |-> Append(so.done, <<so.start, so.end>>), start |-> so.start, end |-> f]
            ELSE [so EXCEPT !.end = f]
        start == Min(frames)
        all == FoldLeft(step, [done |-> << >>, start |-> start, end |-> start],
                        SetToSortSeq(frames \ {start}, <))
    IN Append(all.done, <<all.start, all.end>>)

\* _finalize: the intervals in which a person is seen.
Appearances(frames) ==
    LET step(so, f) ==
            IF f - so.end > MaxGap
            THEN [done |-> Append(so.done, <<so.start, so.end>>), start |-> f, end |-> f]
            ELSE [so EXCEPT !.end = f]
        start == Min(frames)
        all == FoldLeft(step, [done |-> << >>, start |-> start, end |-> start],
                        SetToSortSeq(frames \ {start}, <))
    IN Append(all.done, <<all.start, all.end>>)

----------------------------------------------------------------------------
(* The vote *)

Threshold(i) == IF i \in Known THEN Recognition ELSE Unnamed

\* candidates_batch: what the gallery says of track t.  The vector of a face
\* that the job itself has made is the mean of its tracks.
ScoreOf(i, t) ==
    IF i \in Known \cup Anonymous THEN Score[i][t]
    ELSE Max({Cosine[s][t] : s \in ToSet(i[2])})

\* The source templates that vote for i.
Votes(i, sources) ==
    {k \in DOMAIN sources :
        ScoreOf(i, sources[k]) >= Min({Threshold(i), Floor})}

TemplateWeight(t) == Weight[Cardinality(got[t])]

SupportWeight(i, sources) ==
    MapThenSumSet(LAMBDA k : TemplateWeight(sources[k]), Votes(i, sources))

WeightedScore(i, sources) ==
    MapThenSumSet(LAMBDA k : ScoreOf(i, sources[k]) * TemplateWeight(sources[k]),
                  Votes(i, sources))

\* mean_score of i minus mean_score of j, times both weights.
Lead(i, j, sources) ==
    WeightedScore(i, sources) * SupportWeight(j, sources)
    - WeightedScore(j, sources) * SupportWeight(i, sources)

\* Support is kept in the order of insertion: by template, and for one template
\* by score.
InsertedBefore(i, j, sources) ==
    LET k == Min(Votes(i, sources))
        l == Min(Votes(j, sources))
    IN k < l \/ (k = l /\ ScoreOf(i, sources[k]) > ScoreOf(j, sources[l]))

\* ranked[0]: by mean score, then by weight, then the one inserted first; among those
\* inserted by the same hit of a template, the one that its list names first.
Winners(supported, sources) ==
    LET leads(i, j) == \/ Lead(i, j, sources) > 0
                       \/ /\ Lead(i, j, sources) = 0
                          /\ SupportWeight(i, sources) >= SupportWeight(j, sources)
        leaders == {i \in supported : \A j \in supported : leads(i, j)}
    IN {i \in leaders : \A j \in leaders \ {i} : ~InsertedBefore(j, i, sources)}

Strong(i, sources) ==
    \E k \in Votes(i, sources) : ScoreOf(i, sources[k]) >= Threshold(i)

Consensus(i, sources) ==
    /\ Cardinality(Votes(i, sources)) >= MinCount
    /\ 100 * SupportWeight(i, sources)
          >= MinRatio * MapThenSumSet(LAMBDA k : TemplateWeight(sources[k]), DOMAIN sources)

\* The winner is far enough ahead of the next one, or of zero.
Clear(i, supported, sources) ==
    IF supported = {i} THEN WeightedScore(i, sources) >= MinMargin * SupportWeight(i, sources)
    ELSE \A j \in supported \ {i} :
            Lead(i, j, sources) >= MinMargin * SupportWeight(i, sources) * SupportWeight(j, sources)

\* resolve: nobody, or a winner that is strong or has a consensus and is clear of
\* the others.
Resolve(sources, gallery) ==
    LET supported == {i \in gallery : Votes(i, sources) # {}}
        wins(i) == /\ Strong(i, sources) \/ Consensus(i, sources)
                   /\ Clear(i, supported, sources)
    IN IF supported = {} THEN {Nobody}
       ELSE {IF wins(i) THEN i ELSE Nobody : i \in Winners(supported, sources)}

\* The persons are voted on one by one, each against the identities that are
\* active then.
Vote ==
    /\ job = "finalize" /\ raws = << >>
    /\ Len(decisions) < Len(persons)
    /\ \E gallery \in SUBSET (Known \cup Anonymous) :
          \E decision \in Resolve(persons[Len(decisions) + 1].sources, gallery \cup made) :
             decisions' = Append(decisions, decision)
    /\ UNCHANGED <<source, attempt, job, native, pipe, reading, raws, persons, faces, made, older>>

----------------------------------------------------------------------------
(* The result *)

BlockedNever(face, k) == FALSE

\* _blocked: the face was given to a person who is seen at the same time.
Blocked(face, k) ==
    \E j \in DOMAIN faces :
        faces[j] = face /\ Overlaps(persons[j].frames, persons[k].frames)

\* _deterministic_id: the same in every attempt that finds the same tracks.
OwnFace(k) == <<k, persons[k].sources>>

\* The loop of finalize, one person: the face that won the vote, or a new one
\* that is persisted in a transaction of its own.
Assign ==
    /\ job = "finalize" /\ raws = << >> /\ Len(decisions) = Len(persons)
    /\ Len(faces) < Len(persons)
    /\ LET k == Len(faces) + 1
           won == decisions[k] # Nobody /\ ~Blocked(decisions[k], k)
       IN /\ faces' = Append(faces, IF won THEN decisions[k] ELSE OwnFace(k))
          /\ made' = IF won THEN made ELSE made \cup {OwnFace(k)}
    /\ UNCHANGED <<source, attempt, job, native, pipe, reading, raws, persons, decisions, older>>

\* The stores fail, or the lease is lost: the result is rolled back, the faces
\* that were persisted stay.
FinalizeFails ==
    /\ job = "finalize"
    /\ job' = "failed"
    /\ UNCHANGED <<source, attempt, native, pipe, reading, finalization>>

\* replace_for_job, complete and the commit.
Complete ==
    /\ job = "finalize" /\ raws = << >> /\ Len(faces) = Len(persons)
    /\ job' = "done"
    /\ UNCHANGED <<source, attempt, native, pipe, reading, finalization>>

----------------------------------------------------------------------------

NativeStep ==
    \/ OnResultBuffer \/ StreamEnds \/ OnDecodePad \/ Signal \/ Play \/ OnBus \/ OnCancelWatch
    \/ AfterLoop \/ EmitTrack \/ EmitCompleted \/ Return \/ Killed

AnalysisNext ==
    \/ job = "native" /\ NativeStep
    \/ ReadEvent \/ ReadEnds \/ Terminate \/ Retry
    \/ Reconcile \/ Vote \/ Assign \/ FinalizeFails \/ Complete

AnalysisSpec == AnalysisInit /\ [][AnalysisNext]_analysisVars

----------------------------------------------------------------------------
(* Properties *)

\* What is finalized is what the whole source gave: the native process got to
\* the end of the stream without an error, and every track that it had
\* collected and its count of frames were read, although a signal, a crash or
\* an error may cut it off at any point and events are read while it runs.
ResultIsWhole ==
    job \in {"finalize", "done"} =>
        /\ stream = "eos" /\ ~errored
        /\ got = acc
        /\ completed = frame

\* The tracks of one person are never seen at the same time and are all alike,
\* and each track that was read belongs to one person (reconcile).
PersonsApart ==
    job \in {"finalize", "done"} =>
        /\ \A k \in DOMAIN persons :
              LET sources == persons[k].sources IN
              \A i, j \in DOMAIN sources : i # j =>
                  /\ ~Overlaps(got[sources[i]], got[sources[j]])
                  /\ Cosine[sources[i]][sources[j]] >= Reconciliation
        /\ \A t \in Trackers : got[t] # {} /\ t \notin ToSet(raws) =>
              \E k \in DOMAIN persons :
                  /\ t \in ToSet(persons[k].sources)
                  /\ got[t] \subseteq persons[k].frames
                  /\ \A l \in DOMAIN persons \ {k} : t \notin ToSet(persons[l].sources)

\* The appearances of a person hold each of the detections, begin and end with
\* one, have no gap inside that is too long and one that is between any two.
IntervalsExact ==
    job = "done" =>
    \A k \in DOMAIN persons :
        LET frames == persons[k].frames
            spans == Appearances(frames)
            in(f, n) == spans[n][1] <= f /\ f <= spans[n][2]
        IN /\ \A f \in frames : \E n \in DOMAIN spans : in(f, n)
           /\ \A n \in DOMAIN spans :
                 /\ {spans[n][1], spans[n][2]} \subseteq frames
                 /\ n > 1 => spans[n][1] - spans[n - 1][2] > MaxGap
                 /\ \A f \in frames : in(f, n) /\ f < spans[n][2] =>
                       \E g \in frames : in(g, n) /\ f < g /\ g - f <= MaxGap

\* A result shows no face in two places at once.  Only a face that an earlier
\* attempt has made can be won by another person and then be made again.
FacesApart ==
    job = "done" =>
        \A j, k \in DOMAIN faces :
            j # k /\ faces[j] = faces[k] /\ faces[j] \notin older =>
                ~Overlaps(persons[j].frames, persons[k].frames)
=============================================================================
