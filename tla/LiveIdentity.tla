---------------------------- MODULE LiveIdentity ----------------------------
(***************************************************************************)
(* The identities of tracks in one live run.  The native worker sends      *)
(* evidence on each track; the identity task of the supervisor turns it    *)
(* into decisions, records an event for each change and queues an          *)
(* assignment; the runner writes the queued assignments to the native      *)
(* worker, which applies them to the labels it draws.                      *)
(*                                                                         *)
(* The supervisor is one event loop: a step ends where the code awaits.    *)
(* What the voter answers, and whether a frame looks like the assigned     *)
(* reference, is a choice.                                                 *)
(***************************************************************************)
EXTENDS Naturals, Sequences

CONSTANTS
    Tracks,            \* native tracker ids
    Faces,             \* the identities of the gallery
    NoFace,            \* no identity
    NoTrack,           \* the track of an idle identity task
    Streak,            \* windows or frames in a row that change an identity (3)
    Window,            \* eligible frames from one evidence to the next (5)
    EvidenceCapacity,  \* of the native event queue (256)
    WorkCapacity,      \* live_identity_work_queue_capacity
    CommandCapacity,   \* of the command queue
    MaxEvidence,       \* bound: how much evidence of each track is followed
    MaxPipe            \* bound: assignments in the child's stdin

ASSUME StreakAssumption == Streak \in Nat \ {0} /\ Window \in Nat \ {0}
ASSUME MaxEvidenceAssumption == MaxEvidence \in [Tracks -> Nat]
\* A LiveCommandQueue refuses a smaller capacity; the other two are 64 and 256.
ASSUME CapacityAssumption ==
    CommandCapacity \in Nat \ {0} /\ WorkCapacity \in Nat \ {0} /\ EvidenceCapacity \in Nat \ {0}
ASSUME NoFaceAssumption == NoFace \notin Faces
ASSUME NoTrackAssumption == NoTrack \notin Tracks

VARIABLES
    track,      \* TrackRuntime: frames since the last evidence, its revision
    out,        \* the evidence in the native event queue
    work,       \* identity_queue of the supervisor
    identity,   \* _TrackIdentity of LiveIdentityService
    task,       \* the decision that accept_decision records
    issued,     \* _revisions of LiveEventService
    cooldown,   \* the faces whose _known_cooldown is running
    events,     \* the live_detection_event rows
    snapshots,  \* the ids of the events with a snapshot in MinIO
    commands,   \* the assignments in the LiveCommandQueue
    stdin,      \* the assignments written to the child
    native,     \* IdentityAssignmentState of each track
    osd         \* the rest of the LiveOsdState entry of each track

worker == <<track, out, native, osd>>
service == <<identity, issued, cooldown>>
stores == <<events, snapshots>>
vars == <<worker, service, stores, work, task, commands, stdin>>

Types == {"known", "unknown"}
AnyFace == Faces \cup {NoFace}

TrackRuntime == [frames: 0 .. Window - 1, revision: Nat]

\* order: evidence_order_; revision: of the evidence that waits, 0 if none does.
EvidenceQueue == [order: Seq(Tracks), revision: [Tracks -> Nat]]

Evidence == [track: Tracks, revision: Nat \ {0}]

TrackIdentity ==
    [epoch: Nat \ {0}, known: AnyFace, candidate: AnyFace, wins: Nat, rejected: Nat]

\* face: NoFace if the decision is "unknown"; reset: reset_required;
\* uploaded: the snapshot is in MinIO.
TaskState ==
    [at: {"idle", "upload", "commit"}, track: Tracks \cup {NoTrack}, face: AnyFace,
     epoch: Nat, reset: BOOLEAN, uploaded: BOOLEAN]

EventId == [track: Tracks, type: Types, epoch: Nat \ {0}]
EventRow == [id: EventId, face: AnyFace, ready: BOOLEAN]

\* face: NoFace if identity_state is "unknown".
IdentityAssignment == [track: Tracks, revision: Nat \ {0}, epoch: Nat \ {0}, face: AnyFace]

IdentityState ==
    [state: {"Pending", "Known", "Unknown"}, face: AnyFace, revision: Nat, epoch: Nat \ {0}]

OsdEntry == [reference: BOOLEAN, high: 0 .. Streak, low: 0 .. Streak, visible: BOOLEAN]

TypeOK ==
    /\ track \in [Tracks -> TrackRuntime]
    /\ out \in EvidenceQueue
    /\ work \in Seq(Evidence) /\ Len(work) <= WorkCapacity
    /\ identity \in [Tracks -> TrackIdentity]
    /\ task \in TaskState
    /\ issued \in [Tracks -> Nat]
    /\ cooldown \subseteq Faces
    /\ events \subseteq EventRow
    /\ snapshots \subseteq EventId
    /\ commands \in Seq(IdentityAssignment) /\ Len(commands) <= CommandCapacity
    /\ stdin \in Seq(IdentityAssignment)
    /\ native \in [Tracks -> IdentityState]
    /\ osd \in [Tracks -> OsdEntry]

IdleTask == [at |-> "idle", track |-> NoTrack, face |-> NoFace, epoch |-> 0,
             reset |-> FALSE, uploaded |-> FALSE]

Init ==
    /\ track = [t \in Tracks |-> [frames |-> 0, revision |-> 0]]
    /\ out = [order |-> <<>>, revision |-> [t \in Tracks |-> 0]]
    /\ work = <<>>
    /\ identity = [t \in Tracks |-> [epoch |-> 1, known |-> NoFace, candidate |-> NoFace,
                                     wins |-> 0, rejected |-> 0]]
    /\ task = IdleTask
    /\ issued = [t \in Tracks |-> 0]
    /\ cooldown = {}
    /\ events = {}
    /\ snapshots = {}
    /\ commands = <<>>
    /\ stdin = <<>>
    /\ native = [t \in Tracks |-> [state |-> "Pending", face |-> NoFace,
                                   revision |-> 0, epoch |-> 1]]
    /\ osd = [t \in Tracks |-> [reference |-> FALSE, high |-> 0, low |-> 0, visible |-> FALSE]]

-----------------------------------------------------------------------------
(* The native worker: frames and evidence.                                 *)

\* LiveOsdState::observe: alike says whether the frame's score reaches the threshold.
Observe(o, alike) ==
    IF ~o.reference THEN o
    ELSE LET high == IF alike THEN (IF o.high = Streak THEN Streak ELSE o.high + 1) ELSE 0
             low == IF alike THEN 0 ELSE (IF o.low = Streak THEN Streak ELSE o.low + 1)
         IN [o EXCEPT !.high = high, !.low = low,
                      !.visible = high = Streak \/ (o.visible /\ low < Streak)]

\* LiveWorkerEventQueue::push: one event per track, its newest; a new track is
\* refused at the capacity.
Pushed(t, r) ==
    IF out.revision[t] # 0 THEN [out EXCEPT !.revision[t] = r]
    ELSE IF Len(out.order) < EvidenceCapacity
         THEN [order |-> Append(out.order, t), revision |-> [out.revision EXCEPT ![t] = r]]
         ELSE out

\* emit_evidence: evidence is due with every Window-th eligible frame.
Emit(t) ==
    LET revision == track[t].revision + 1
    IN IF track[t].frames + 1 = Window /\ revision <= MaxEvidence[t]
       THEN /\ track' = [track EXCEPT ![t] = [frames |-> 0, revision |-> revision]]
            /\ out' = Pushed(t, revision)
       ELSE /\ track' = [track EXCEPT ![t].frames = (@ + 1) % Window]
            /\ out' = out

\* on_result_buffer: an eligible object of track t in a frame.
Frame(t, alike) ==
    /\ osd' = [osd EXCEPT ![t] = Observe(@, alike)]
    /\ Emit(t)
    /\ UNCHANGED <<native, service, stores, work, task, commands, stdin>>

\* on_event of the supervisor: evidence is dropped when the work queue is full.
Received(e) == IF Len(work) < WorkCapacity THEN Append(work, e) ELSE work

\* LiveWorkerEventQueue::pop takes the track that has waited longest.
Popped == [order |-> Tail(out.order), revision |-> [out.revision EXCEPT ![Head(out.order)] = 0]]

\* The writer thread writes the evidence that it pops, and the reader of the runner
\* hands it to the supervisor.
Deliver ==
    /\ out.order # <<>>
    /\ out' = Popped
    /\ work' = Received([track |-> Head(out.order), revision |-> out.revision[Head(out.order)]])
    /\ UNCHANGED <<track, native, osd, service, stores, task, commands, stdin>>

-----------------------------------------------------------------------------
(* _process_identity_events of the supervisor.                             *)

\* _assignment: the next revision of its track.
Assignment(t, revision, epoch, face) ==
    [track |-> t, revision |-> revision, epoch |-> epoch, face |-> face]

\* LiveCommandQueue.put_nowait: an assignment replaces an older one of its track,
\* where that one stands; otherwise the oldest gives way at the capacity.
Put(queue, a) ==
    IF \E i \in DOMAIN queue : queue[i].track = a.track
    THEN [i \in DOMAIN queue |->
            IF queue[i].track = a.track /\ a.revision > queue[i].revision THEN a ELSE queue[i]]
    ELSE Append(IF Len(queue) >= CommandCapacity THEN Tail(queue) ELSE queue, a)

\* What accept_decision returns, and the loop that queues it, without an await:
\* a replaced identity is reset before the new one is assigned.
Issue(t, epoch, face, reset) ==
    LET r == issued[t] + 1
        first == Put(commands, Assignment(t, r, epoch, IF reset THEN NoFace ELSE face))
    IN IF reset /\ face # NoFace
       THEN /\ commands' = Put(first, Assignment(t, r + 1, epoch, face))
            /\ issued' = [issued EXCEPT ![t] = r + 1]
       ELSE /\ commands' = first
            /\ issued' = [issued EXCEPT ![t] = r]

\* The event that a decision is waiting to record.
Record(t, epoch, face, reset) ==
    task' = [IdleTask EXCEPT !.at = "upload", !.track = t, !.face = face, !.epoch = epoch,
                             !.reset = reset]

RejectedSameEpoch(t) ==
    LET s == identity[t]
        gone == s.known # NoFace /\ s.rejected + 1 >= Streak
    IN IF gone
       THEN /\ identity' = [identity EXCEPT ![t] =
                  [epoch |-> s.epoch, known |-> NoFace, candidate |-> NoFace,
                   wins |-> 0, rejected |-> 0]]
            /\ Record(t, s.epoch, NoFace, TRUE)
       ELSE /\ identity' = [identity EXCEPT ![t].candidate = NoFace, ![t].wins = 0,
                                            ![t].rejected = IF @ < Streak THEN @ + 1 ELSE @]
            /\ task' = task

\* _resolve when the voter finds nobody: the identity is dropped after Streak windows.
Rejected(t) ==
    LET s == identity[t]
        gone == s.known # NoFace /\ s.rejected + 1 >= Streak
    IN IF gone
       THEN /\ identity' = [identity EXCEPT ![t] =
                  [epoch |-> s.epoch + 1, known |-> NoFace, candidate |-> NoFace,
                   wins |-> 0, rejected |-> 0]]
            /\ Record(t, s.epoch + 1, NoFace, TRUE)
       ELSE /\ identity' = [identity EXCEPT ![t].candidate = NoFace, ![t].wins = 0,
                                            ![t].rejected = IF @ < Streak THEN @ + 1 ELSE @]
            /\ task' = task

\* The consecutive wins of face f over the identity of a track.
Wins(s, f) == IF s.candidate = f THEN s.wins + 1 ELSE 1

\* The voter finds f, which is no change: f is known, or has not won often enough,
\* or its reference cannot be read (found is FALSE).
Confirmed(t, f, found) ==
    LET s == identity[t]
    IN /\ \/ s.known = f
          \/ s.known # NoFace /\ Wins(s, f) < Streak
          \/ ~found
       /\ identity' = [identity EXCEPT ![t] =
             [@ EXCEPT !.rejected = 0,
                       !.candidate = IF s.known \in {f, NoFace} THEN NoFace ELSE f,
                       !.wins = IF s.known \in {f, NoFace} THEN 0
                                ELSE IF Wins(s, f) > Streak THEN Streak ELSE Wins(s, f)]]
       /\ UNCHANGED <<task, issued, commands>>

\* The voter finds f, and f becomes the identity of the track.  accept_decision
\* records it unless f was recorded a moment ago.
Recognised(t, f) ==
    LET s == identity[t]
        replacing == s.known # NoFace
        epoch == IF replacing THEN s.epoch + 1 ELSE s.epoch
    IN /\ s.known # f
       /\ replacing => Wins(s, f) >= Streak
       /\ identity' = [identity EXCEPT ![t] =
             [epoch |-> epoch, known |-> f, candidate |-> NoFace, wins |-> 0, rejected |-> 0]]
       /\ IF f \in cooldown
          THEN Issue(t, epoch, f, replacing) /\ task' = task
          ELSE Record(t, epoch, f, replacing) /\ UNCHANGED <<issued, commands>>

\* resolve of the evidence of a track: the voter finds nobody or somebody among the
\* observations, or raises.
Resolved(t) ==
    \/ Rejected(t) /\ UNCHANGED <<issued, commands>>
    \/ \E f \in Faces : Recognised(t, f)
    \/ \E f \in Faces, found \in BOOLEAN : Confirmed(t, f, found)
    \/ UNCHANGED <<identity, task, issued, commands>>

\* The task takes the next evidence and resolves it.
Resolve ==
    /\ task.at = "idle"
    /\ work # <<>>
    /\ work' = Tail(work)
    /\ Resolved(Head(work).track)
    /\ UNCHANGED <<worker, stores, cooldown, stdin>>

TypeOf(face) == IF face = NoFace THEN "unknown" ELSE "known"
TaskEvent == [track |-> task.track, type |-> TypeOf(task.face), epoch |-> task.epoch]

\* The snapshots in MinIO after an upload, which is refused or fails unless ok, ...
UploadLiveSnapshot(ok) == IF ok THEN snapshots \cup {TaskEvent} ELSE snapshots

\* ... and after a deletion.
DeleteLiveSnapshot(ok) == IF ok THEN snapshots \ {TaskEvent} ELSE snapshots

\* _persist: the upload of the snapshot, which may fail.
Upload ==
    /\ task.at = "upload"
    /\ \E ok \in BOOLEAN :
          /\ task' = [task EXCEPT !.at = "commit", !.uploaded = ok]
          /\ snapshots' = UploadLiveSnapshot(ok)
    /\ UNCHANGED <<worker, service, events, work, commands, stdin>>

\* create_once: the row, unless there is one of this track, type and epoch.
Inserted ==
    IF \E row \in events : row.id = TaskEvent THEN events
    ELSE events \cup {[id |-> TaskEvent, face |-> task.face, ready |-> task.uploaded]}

\* _persist and accept_decision after an acknowledged commit.
Commit ==
    /\ task.at = "commit"
    /\ events' = Inserted
    /\ cooldown' = cooldown \cup (IF task.face = NoFace THEN {} ELSE {task.face})
    /\ Issue(task.track, task.epoch, task.face, task.reset)
    /\ task' = IdleTask
    /\ UNCHANGED <<worker, identity, snapshots, work, stdin>>

CommitFailsCooling ==
    /\ task.at = "commit"
    /\ \E written, deleted \in BOOLEAN :
          /\ events' = IF written THEN Inserted ELSE events
          /\ snapshots' = DeleteLiveSnapshot(task.uploaded /\ deleted)
    /\ cooldown' = cooldown \cup (IF task.face = NoFace THEN {} ELSE {task.face})
    /\ task' = IdleTask
    /\ UNCHANGED <<worker, identity, issued, work, commands, stdin>>

\* The commit raises, though the row may be in: the snapshot is deleted if that
\* succeeds, and the decision is given up.
CommitFails ==
    /\ task.at = "commit"
    /\ \E written, deleted \in BOOLEAN :
          /\ events' = IF written THEN Inserted ELSE events
          /\ snapshots' = DeleteLiveSnapshot(task.uploaded /\ deleted)
    /\ task' = IdleTask
    /\ UNCHANGED <<worker, service, work, commands, stdin>>

\* The evidence of a face comes long after its last event.
CooldownLapses(f) ==
    /\ f \in cooldown
    /\ cooldown' = cooldown \ {f}
    /\ UNCHANGED <<worker, identity, issued, stores, work, task, commands, stdin>>

-----------------------------------------------------------------------------
(* The assignments on their way to the labels.                             *)

\* _write_commands.
Write ==
    /\ commands # <<>>
    /\ Len(stdin) < MaxPipe
    /\ stdin' = Append(stdin, Head(commands))
    /\ commands' = Tail(commands)
    /\ UNCHANGED <<worker, service, stores, work, task>>

AcceptsAnyEpoch(s, a) ==
    /\ a.revision > s.revision
    /\ a.epoch >= s.epoch
    /\ (a.epoch = s.epoch /\ s.state = "Known") => a.face = s.face

\* IdentityAssignmentState::apply: whether it accepts a, and the state after it.
Accepts(s, a) ==
    /\ a.revision > s.revision
    /\ a.epoch >= s.epoch
    /\ a.epoch > s.epoch => a.face = NoFace
    /\ (a.epoch = s.epoch /\ s.state = "Known") => a.face = s.face

\* The identity and the label after an accepted assignment (LiveOsdState::apply).
Applied(a) == [state |-> IF a.face = NoFace THEN "Unknown" ELSE "Known",
               face |-> a.face, revision |-> a.revision, epoch |-> a.epoch]
Labelled(a) == [reference |-> a.face # NoFace, high |-> 0, low |-> 0, visible |-> a.face # NoFace]

\* The main thread reads an assignment and applies it on the main context to the
\* track and to the label, under one lock.  A rejected one is only counted.
Apply ==
    /\ stdin # <<>>
    /\ stdin' = Tail(stdin)
    /\ LET a == Head(stdin)
       IN IF Accepts(native[a.track], a)
          THEN /\ native' = [native EXCEPT ![a.track] = Applied(a)]
               /\ osd' = [osd EXCEPT ![a.track] = Labelled(a)]
          ELSE UNCHANGED <<native, osd>>
    /\ UNCHANGED <<track, out, service, stores, work, task, commands>>

Next ==
    \/ \E t \in Tracks, alike \in BOOLEAN : Frame(t, alike)
    \/ Deliver
    \/ Resolve \/ Upload \/ Commit \/ CommitFails
    \/ \E f \in Faces : CooldownLapses(f)
    \/ Write \/ Apply

Spec == Init /\ [][Next]_vars

-----------------------------------------------------------------------------
(* Properties.                                                             *)

\* The name that the label of track t shows.
Shown(t) == IF native[t].state = "Known" /\ osd[t].visible THEN native[t].face ELSE NoFace

\* In an epoch that the worker and the service share, the worker knows a track as
\* nobody but the service's identity, however late, replaced or lost the
\* assignments (IdentityAssignmentState::apply, LiveCommandQueue.put_nowait).
EpochAgrees ==
    \A t \in Tracks :
        /\ native[t].epoch <= identity[t].epoch
        /\ (native[t].epoch = identity[t].epoch /\ native[t].state = "Known")
              => native[t].face = identity[t].known

\* A name on the screen has a known event whose snapshot, if the row promises one,
\* is there: a failed or unacknowledged commit, its clean-up and the cooldown
\* never leave a face shown and unrecorded (accept_decision, _persist).
ShownIsRecorded ==
    \A t \in Tracks : Shown(t) # NoFace =>
        \E row \in events : /\ row.id.type = "known" /\ row.face = Shown(t)
                            /\ row.ready => row.id \in snapshots

\* The label of a track never goes from one name to another at once: between the
\* two it shows none, however the assignments were replaced on their way
\* (the reset of accept_decision, IdentityAssignmentState::apply).
NamesNeverSwap ==
    [][\A t \in Tracks : Shown(t) # NoFace => Shown(t)' \in {Shown(t), NoFace}]_vars
=============================================================================
