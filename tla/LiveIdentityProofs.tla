------------------------- MODULE LiveIdentityProofs -------------------------
(***************************************************************************)
(* Proofs about LiveIdentity: the worker never knows a track as anybody    *)
(* but the service does in the same epoch, a shown name has its event, and *)
(* no label goes from one name to another at once.                         *)
(*                                                                         *)
(* EpochAgrees speaks of the two ends.  What makes it inductive is said of *)
(* everything in between: an assignment in the command queue or in the     *)
(* pipe is of its track's identity in its epoch (Current), and so is the   *)
(* decision that waits to be recorded (TaskOK).  For ShownIsRecorded each  *)
(* of these, and the cooldown, carries its event along (Recorded), and an  *)
(* epoch has at most one known event, that of its identity (RowsOK), so    *)
(* that neither create_once nor the clean-up of a failed commit touches    *)
(* the event of another face.                                              *)
(***************************************************************************)
EXTENDS LiveIdentity, SequenceTheorems, TLAPS

\* The native event queue holds each track once, and its event with it.
QueueOK ==
    /\ \A t \in Tracks : out.revision[t] # 0 => \E i \in DOMAIN out.order : out.order[i] = t
    /\ \A i \in DOMAIN out.order : out.revision[out.order[i]] # 0
    /\ \A i, j \in DOMAIN out.order : out.order[i] = out.order[j] => i = j

\* A face in an epoch of a track is that of the service, if the service is still there.
Current(t, epoch, face) ==
    /\ epoch <= identity[t].epoch
    /\ epoch = identity[t].epoch /\ face # NoFace => face = identity[t].known

\* A known event of a face, with the snapshot it promises.
Witness(row, face) ==
    row.id.type = "known" /\ row.face = face /\ (row.ready => row.id \in snapshots)
Recorded(face) == \E row \in events : Witness(row, face)

\* An assignment on its way.
AssignmentOK(a) ==
    /\ Current(a.track, a.epoch, a.face)
    /\ a.face # NoFace => Recorded(a.face)

CarriedOK ==
    /\ \A i \in DOMAIN commands : AssignmentOK(commands[i])
    /\ \A i \in DOMAIN stdin : AssignmentOK(stdin[i])

NativeOK ==
    \A t \in Tracks :
        /\ native[t].epoch <= identity[t].epoch
        /\ native[t].state = "Known" =>
              /\ native[t].face \in Faces
              /\ Current(t, native[t].epoch, native[t].face)
              /\ Recorded(native[t].face)

\* The decision that accept_decision records is the identity of its track, and new.
TaskOK ==
    task.at # "idle" =>
        /\ task.track \in Tracks
        /\ task.epoch = identity[task.track].epoch
        /\ task.face = identity[task.track].known
        /\ task.face # NoFace => \A row \in events : row.id # TaskEvent
        /\ task.at = "commit" /\ task.uploaded => TaskEvent \in snapshots

RowsOK ==
    \A row \in events : row.id.type = "known" =>
        /\ row.face # NoFace
        /\ Current(row.id.track, row.id.epoch, row.face)

CooldownOK == \A f \in cooldown : Recorded(f)

FlowInv == CarriedOK /\ NativeOK /\ TaskOK /\ RowsOK /\ CooldownOK

IInv == TypeOK /\ QueueOK /\ FlowInv

-----------------------------------------------------------------------------
(* The operators of the model.                                             *)

\* The head and the tail of a sequence that is not empty.
LEMMA HeadTail ==
    ASSUME NEW S, NEW q \in Seq(S), q # <<>>
    PROVE  /\ Head(q) \in S /\ Tail(q) \in Seq(S) /\ Len(Tail(q)) = Len(q) - 1 /\ Len(q) \in Nat \ {0}
           /\ 1 \in DOMAIN q /\ Head(q) = q[1]
           /\ \A i \in DOMAIN Tail(q) : i + 1 \in DOMAIN q /\ Tail(q)[i] = q[i + 1]
           /\ \A j \in DOMAIN q \ {1} : j - 1 \in DOMAIN Tail(q) /\ Tail(q)[j - 1] = q[j]
BY HeadTailProperties

\* Appending.
LEMMA Appended ==
    ASSUME NEW S, NEW q \in Seq(S), NEW e \in S
    PROVE  /\ Append(q, e) \in Seq(S) /\ Len(Append(q, e)) = Len(q) + 1 /\ Len(q) \in Nat
           /\ DOMAIN Append(q, e) = DOMAIN q \cup {Len(q) + 1} /\ Len(q) + 1 \notin DOMAIN q
           /\ \A i \in DOMAIN q : Append(q, e)[i] = q[i]
           /\ Append(q, e)[Len(q) + 1] = e
BY AppendProperties

\* LiveCommandQueue.put_nowait: what the queue holds afterwards was there or is new.
LEMMA PutHolds ==
    ASSUME NEW q \in Seq(IdentityAssignment), Len(q) <= CommandCapacity, NEW a \in IdentityAssignment
    PROVE  /\ Put(q, a) \in Seq(IdentityAssignment) /\ Len(Put(q, a)) <= CommandCapacity
           /\ \A i \in DOMAIN Put(q, a) : Put(q, a)[i] = a \/ \E j \in DOMAIN q : Put(q, a)[i] = q[j]
<1>1. Len(q) \in Nat /\ DOMAIN q = 1 .. Len(q) /\ \A i \in DOMAIN q : q[i] \in IdentityAssignment
  BY LenProperties, ElementOfSeq
<1>2. CASE \E i \in DOMAIN q : q[i].track = a.track
  <2> DEFINE p == [i \in 1 .. Len(q) |->
                     IF q[i].track = a.track /\ a.revision > q[i].revision THEN a ELSE q[i]]
  <2>1. Put(q, a) = p
    BY <1>1, <1>2 DEF Put
  <2>2. \A i \in 1 .. Len(q) : p[i] \in IdentityAssignment /\ (p[i] = a \/ p[i] = q[i])
    BY <1>1
  <2>3. p \in Seq(IdentityAssignment) /\ Len(p) = Len(q) /\ DOMAIN p = 1 .. Len(q)
    <3>1. p \in [1 .. Len(q) -> IdentityAssignment]
      BY <2>2
    <3> HIDE DEF p
    <3>2. p \in Seq(IdentityAssignment) /\ DOMAIN p = 1 .. Len(q)
      BY <1>1, <3>1, SeqDef
    <3> QED
      BY <1>1, <3>2, LenProperties
  <2> HIDE DEF p
  <2> QED
    BY <1>1, <2>1, <2>2, <2>3
<1>3. CASE ~\E i \in DOMAIN q : q[i].track = a.track
  <2> DEFINE p == IF Len(q) >= CommandCapacity THEN Tail(q) ELSE q
  <2>1. Put(q, a) = Append(p, a)
    BY <1>3 DEF Put
  <2>2. /\ p \in Seq(IdentityAssignment) /\ Len(p) + 1 <= CommandCapacity
        /\ \A i \in DOMAIN p : \E j \in DOMAIN q : p[i] = q[j]
    <3>1. CASE Len(q) >= CommandCapacity
      <4>1. q # <<>>
        BY <1>1, <3>1, CapacityAssumption
      <4> QED
        BY <1>1, <3>1, <4>1, HeadTail, CapacityAssumption
    <3>2. CASE ~(Len(q) >= CommandCapacity)
      BY <1>1, <3>2, CapacityAssumption
    <3> QED
      BY <3>1, <3>2
  <2> HIDE DEF p
  <2>3. /\ Append(p, a) \in Seq(IdentityAssignment) /\ Len(Append(p, a)) <= CommandCapacity
        /\ \A i \in DOMAIN Append(p, a) : Append(p, a)[i] = a \/ \E j \in DOMAIN p : Append(p, a)[i] = p[j]
    BY <2>2, Appended
  <2> QED
    BY <2>1, <2>2, <2>3
<1> QED
  BY <1>2, <1>3

\* The queue after the one or two assignments of a decision.
LEMMA IssueHolds ==
    ASSUME TypeOK, NEW t \in Tracks, NEW epoch \in Nat \ {0}, NEW face \in AnyFace, NEW reset \in BOOLEAN,
           Issue(t, epoch, face, reset)
    PROVE  /\ commands' \in Seq(IdentityAssignment) /\ Len(commands') <= CommandCapacity
           /\ issued' \in [Tracks -> Nat]
           /\ \A i \in DOMAIN commands' :
                 \/ \E j \in DOMAIN commands : commands'[i] = commands[j]
                 \/ /\ commands'[i].track = t /\ commands'[i].epoch = epoch
                    /\ commands'[i].face \in {NoFace, face}
<1> DEFINE r == issued[t] + 1
           a == Assignment(t, r, epoch, IF reset THEN NoFace ELSE face)
           b == Assignment(t, r + 1, epoch, face)
           first == Put(commands, a)
<1>1. issued \in [Tracks -> Nat] /\ r \in Nat \ {0} /\ r + 1 \in Nat \ {0}
  BY DEF TypeOK
<1>2. /\ a \in IdentityAssignment /\ a.track = t /\ a.epoch = epoch /\ a.face \in {NoFace, face}
      /\ b \in IdentityAssignment /\ b.track = t /\ b.epoch = epoch /\ b.face = face
  BY <1>1 DEF IdentityAssignment, Assignment, AnyFace
<1>3. \/ commands' = first \/ commands' = Put(first, b)
  BY DEF Issue
<1>4. issued' = [issued EXCEPT ![t] = r] \/ issued' = [issued EXCEPT ![t] = r + 1]
  BY DEF Issue
<1> HIDE DEF a, b, r
<1>5. issued' \in [Tracks -> Nat]
  BY <1>1, <1>4
<1>6. /\ first \in Seq(IdentityAssignment) /\ Len(first) <= CommandCapacity
      /\ \A i \in DOMAIN first : first[i] = a \/ \E j \in DOMAIN commands : first[i] = commands[j]
  BY <1>2, PutHolds DEF TypeOK
<1> HIDE DEF first
<1>7. /\ Put(first, b) \in Seq(IdentityAssignment) /\ Len(Put(first, b)) <= CommandCapacity
      /\ \A i \in DOMAIN Put(first, b) : Put(first, b)[i] = b \/ \E j \in DOMAIN first : Put(first, b)[i] = first[j]
  BY <1>2, <1>6, PutHolds
<1>8. CASE commands' = first
  BY <1>2, <1>5, <1>6, <1>8
<1>9. CASE commands' = Put(first, b)
  <2> DEFINE second == Put(first, b)
  <2>1. /\ second \in Seq(IdentityAssignment) /\ Len(second) <= CommandCapacity
        /\ \A i \in DOMAIN second : second[i] = b \/ \E j \in DOMAIN first : second[i] = first[j]
    BY <1>7
  <2> HIDE DEF second
  <2>2. ASSUME NEW i \in DOMAIN second
        PROVE  \/ \E j \in DOMAIN commands : second[i] = commands[j]
               \/ /\ second[i].track = t /\ second[i].epoch = epoch
                  /\ second[i].face \in {NoFace, face}
    <3>1. CASE second[i] = b
      BY <1>2, <3>1
    <3>2. CASE \E j \in DOMAIN first : second[i] = first[j]
      BY <1>2, <1>6, <3>2
    <3> QED
      BY <2>1, <3>1, <3>2
  <2>3. commands' = second
    BY <1>9 DEF second
  <2> QED
    BY <1>5, <2>1, <2>2, <2>3
<1> QED
  BY <1>3, <1>8, <1>9

\* LiveOsdState::observe keeps the streaks within Streak.
LEMMA ObserveTyped ==
    ASSUME NEW o \in OsdEntry, NEW alike \in BOOLEAN
    PROVE  Observe(o, alike) \in OsdEntry
<1> DEFINE high == IF alike THEN (IF o.high = Streak THEN Streak ELSE o.high + 1) ELSE 0
           low == IF alike THEN 0 ELSE (IF o.low = Streak THEN Streak ELSE o.low + 1)
           visible == high = Streak \/ (o.visible /\ low < Streak)
<1>1. o.high \in 0 .. Streak /\ o.low \in 0 .. Streak /\ Streak \in Nat
  BY StreakAssumption DEF OsdEntry
<1>2. high \in 0 .. Streak /\ low \in 0 .. Streak /\ visible \in BOOLEAN
  BY <1>1
<1>3. Observe(o, alike) = IF ~o.reference THEN o ELSE [o EXCEPT !.high = high, !.low = low, !.visible = visible]
  BY DEF Observe
<1> HIDE DEF high, low, visible
<1>4. [o EXCEPT !.high = high, !.low = low, !.visible = visible] \in OsdEntry
  BY <1>2 DEF OsdEntry
<1> QED
  BY <1>3, <1>4

\* LiveWorkerEventQueue::push keeps one event for each track that waits.
LEMMA PushOK ==
    ASSUME TypeOK, QueueOK, NEW t \in Tracks, NEW r \in Nat \ {0}, out' = Pushed(t, r)
    PROVE  out' \in EvidenceQueue /\ QueueOK'
<1>1. out \in EvidenceQueue /\ out.order \in Seq(Tracks) /\ out.revision \in [Tracks -> Nat]
  BY DEF TypeOK, EvidenceQueue
<1>2. \A i \in DOMAIN out.order : out.order[i] \in Tracks
  BY <1>1, ElementOfSeq, LenProperties
<1> DEFINE rev == [out.revision EXCEPT ![t] = r]
<1>3. rev \in [Tracks -> Nat] /\ rev[t] = r /\ \A u \in Tracks \ {t} : rev[u] = out.revision[u]
  BY <1>1
<1>4. CASE out.revision[t] # 0
  <2>1. out' = [order |-> out.order, revision |-> rev]
    BY <1>1, <1>4 DEF Pushed, EvidenceQueue
  <2> HIDE DEF rev
  <2>2. out' \in EvidenceQueue /\ out'.order = out.order /\ out'.revision = rev
    BY <1>1, <1>3, <2>1 DEF EvidenceQueue
  <2> QED
    BY <1>2, <1>3, <1>4, <2>2 DEF QueueOK
<1>5. CASE out.revision[t] = 0 /\ Len(out.order) < EvidenceCapacity
  <2> DEFINE ord == Append(out.order, t)
  <2>1. /\ ord \in Seq(Tracks) /\ DOMAIN ord = DOMAIN out.order \cup {Len(out.order) + 1}
        /\ Len(out.order) + 1 \notin DOMAIN out.order
        /\ \A i \in DOMAIN out.order : ord[i] = out.order[i]
        /\ ord[Len(out.order) + 1] = t
    BY <1>1, Appended
  <2>2. out' = [order |-> ord, revision |-> rev]
    BY <1>5 DEF Pushed
  <2> HIDE DEF rev, ord
  <2>3. out' \in EvidenceQueue /\ out'.order = ord /\ out'.revision = rev
    BY <1>3, <2>1, <2>2 DEF EvidenceQueue
  <2>4. \A i \in DOMAIN out.order : out.order[i] # t
    BY <1>5 DEF QueueOK
  <2>5. \A u \in Tracks : rev[u] # 0 => \E i \in DOMAIN ord : ord[i] = u
    BY <1>3, <2>1 DEF QueueOK
  <2>6. \A i \in DOMAIN ord : rev[ord[i]] # 0
    BY <1>2, <1>3, <2>1, <2>4 DEF QueueOK
  <2>7. \A i, j \in DOMAIN ord : ord[i] = ord[j] => i = j
    BY <2>1, <2>4 DEF QueueOK
  <2> QED
    BY <2>3, <2>5, <2>6, <2>7 DEF QueueOK
<1>6. CASE out.revision[t] = 0 /\ ~(Len(out.order) < EvidenceCapacity)
  BY <1>1, <1>6 DEF Pushed, QueueOK
<1> QED
  BY <1>4, <1>5, <1>6

\* LiveWorkerEventQueue::pop: the track it takes has an event.
LEMMA PopOK ==
    ASSUME TypeOK, QueueOK, out.order # <<>>, out' = Popped
    PROVE  /\ out' \in EvidenceQueue /\ QueueOK'
           /\ Head(out.order) \in Tracks /\ out.revision[Head(out.order)] \in Nat \ {0}
<1> DEFINE ord == Tail(out.order)
           t == Head(out.order)
           rev == [out.revision EXCEPT ![t] = 0]
<1>1. out.order \in Seq(Tracks) /\ out.revision \in [Tracks -> Nat]
  BY DEF TypeOK, EvidenceQueue
<1>2. /\ t \in Tracks /\ ord \in Seq(Tracks) /\ 1 \in DOMAIN out.order /\ t = out.order[1]
      /\ \A i \in DOMAIN ord : i + 1 \in DOMAIN out.order /\ ord[i] = out.order[i + 1]
      /\ \A j \in DOMAIN out.order \ {1} : j - 1 \in DOMAIN ord /\ ord[j - 1] = out.order[j]
  BY <1>1, HeadTail
<1>3. \A i \in DOMAIN ord : i \in Nat \ {0} /\ ord[i] \in Tracks
  BY <1>2, LenProperties, ElementOfSeq
<1>4. rev \in [Tracks -> Nat] /\ rev[t] = 0 /\ \A u \in Tracks \ {t} : rev[u] = out.revision[u]
  BY <1>1, <1>2
<1>5. out' = [order |-> ord, revision |-> rev]
  BY DEF Popped
<1>6. out.revision[t] \in Nat \ {0}
  BY <1>1, <1>2 DEF QueueOK
<1> HIDE DEF ord, rev, t
<1>7. out' \in EvidenceQueue /\ out'.order = ord /\ out'.revision = rev
  BY <1>2, <1>4, <1>5 DEF EvidenceQueue
<1>8. \A u \in Tracks : rev[u] # 0 => \E i \in DOMAIN ord : ord[i] = u
  BY <1>2, <1>4 DEF QueueOK
<1>9. \A i \in DOMAIN ord : ord[i] # t
  BY <1>2, <1>3 DEF QueueOK
<1>10. ASSUME NEW i \in DOMAIN ord PROVE rev[ord[i]] # 0
  <2>1. ord[i] \in Tracks \ {t} /\ i + 1 \in DOMAIN out.order /\ ord[i] = out.order[i + 1]
    BY <1>2, <1>3, <1>9
  <2>2. out.revision[out.order[i + 1]] # 0
    BY <2>1 DEF QueueOK
  <2>3. rev[ord[i]] = out.revision[ord[i]]
    BY <1>4, <2>1
  <2> QED
    BY <2>1, <2>2, <2>3
<1>11. \A i, j \in DOMAIN ord : ord[i] = ord[j] => i = j
  BY <1>2, <1>3 DEF QueueOK
<1> QED
  BY <1>2, <1>6, <1>7, <1>8, <1>10, <1>11 DEF QueueOK, t

-----------------------------------------------------------------------------
(* What is on its way stays true of the service.                           *)

\* An identity changes within its epoch only from nobody to somebody.
Follows ==
    \A u \in Tracks :
        /\ identity[u].epoch <= identity'[u].epoch
        /\ identity'[u].epoch = identity[u].epoch
              => identity'[u].known = identity[u].known \/ identity[u].known = NoFace

\* Events stay, and known ones keep their snapshots.
Keeps ==
    /\ events \subseteq events'
    /\ \A row \in events : row.id.type = "known" /\ row.id \in snapshots => row.id \in snapshots'

\* A face that was of its epoch still is.
LEMMA CurrentKept ==
    ASSUME TypeOK, TypeOK', Follows, NEW t \in Tracks, NEW epoch \in Nat, NEW face, Current(t, epoch, face)
    PROVE  Current(t, epoch, face)'
<1>1. identity[t].epoch \in Nat /\ identity'[t].epoch \in Nat
  BY DEF TypeOK, TrackIdentity
<1> QED
  BY <1>1 DEF Current, Follows

\* A face that was recorded still is.
LEMMA RecordedKept == ASSUME Keeps, NEW face, Recorded(face) PROVE Recorded(face)'
BY DEF Keeps, Recorded, Witness

\* An assignment on its way stays right.
LEMMA AssignmentKept ==
    ASSUME TypeOK, TypeOK', Follows, Keeps, NEW a \in IdentityAssignment, AssignmentOK(a)
    PROVE  AssignmentOK(a)'
<1>1. a.track \in Tracks /\ a.epoch \in Nat
  BY DEF IdentityAssignment
<1> QED
  BY <1>1, CurrentKept, RecordedKept DEF AssignmentOK

\* What is said of the child, of the pipe, of the events and of the cooldown.
LEMMA FlowKept ==
    ASSUME TypeOK, TypeOK', FlowInv, Follows, Keeps
    PROVE  /\ (\A i \in DOMAIN commands' : \E j \in DOMAIN commands : commands'[i] = commands[j])
                 => \A i \in DOMAIN commands' : AssignmentOK(commands[i])'
           /\ stdin' = stdin => \A i \in DOMAIN stdin' : AssignmentOK(stdin[i])'
           /\ native' = native => NativeOK'
           /\ events' = events => RowsOK'
           /\ cooldown' \subseteq cooldown => CooldownOK'
<1>1. /\ \A i \in DOMAIN commands : commands[i] \in IdentityAssignment
      /\ \A i \in DOMAIN stdin : stdin[i] \in IdentityAssignment
  BY ElementOfSeq, LenProperties DEF TypeOK
<1>2. ASSUME \A i \in DOMAIN commands' : \E j \in DOMAIN commands : commands'[i] = commands[j],
             NEW i \in DOMAIN commands'
      PROVE  AssignmentOK(commands[i])'
  <2>1. PICK j \in DOMAIN commands : commands'[i] = commands[j]
    BY <1>2
  <2>2. PICK a \in IdentityAssignment : a = commands[j]
    BY <1>1
  <2>3. AssignmentOK(a)'
    BY <2>2, AssignmentKept DEF FlowInv, CarriedOK
  <2> QED
    BY <2>1, <2>2, <2>3 DEF AssignmentOK, Current, Recorded, Witness
<1>3. ASSUME stdin' = stdin, NEW i \in DOMAIN stdin' PROVE AssignmentOK(stdin[i])'
  <2>1. PICK a \in IdentityAssignment : a = stdin[i]
    BY <1>1, <1>3
  <2>2. AssignmentOK(a)'
    BY <1>3, <2>1, AssignmentKept DEF FlowInv, CarriedOK
  <2> QED
    BY <1>3, <2>1, <2>2 DEF AssignmentOK, Current, Recorded, Witness
<1>4. ASSUME native' = native PROVE NativeOK'
  <2> SUFFICES ASSUME NEW t \in Tracks
               PROVE  /\ native[t].epoch <= identity'[t].epoch
                      /\ native[t].state = "Known" =>
                            /\ native[t].face \in Faces
                            /\ Current(t, native[t].epoch, native[t].face)'
                            /\ Recorded(native[t].face)'
    BY <1>4 DEF NativeOK, Current, Recorded, Witness
  <2>1. native[t].epoch \in Nat /\ identity[t].epoch \in Nat /\ identity'[t].epoch \in Nat
    BY DEF TypeOK, IdentityState, TrackIdentity
  <2>2. native[t].epoch <= identity'[t].epoch
    BY <2>1 DEF FlowInv, NativeOK, Follows
  <2>3. PICK epoch \in Nat, face \in {native[t].face} : epoch = native[t].epoch
    BY <2>1
  <2>4. native[t].state = "Known" => /\ face \in Faces /\ Current(t, epoch, face)' /\ Recorded(face)'
    BY <2>3, CurrentKept, RecordedKept DEF FlowInv, NativeOK
  <2> QED
    BY <1>4, <2>2, <2>3, <2>4 DEF Current, Recorded, Witness
<1>5. ASSUME events' = events PROVE RowsOK'
  <2> SUFFICES ASSUME NEW row \in events, row.id.type = "known"
               PROVE  row.face # NoFace /\ Current(row.id.track, row.id.epoch, row.face)'
    BY <1>5 DEF RowsOK
  <2>1. row.id.track \in Tracks /\ row.id.epoch \in Nat
    BY DEF TypeOK, EventRow, EventId
  <2> QED
    BY <2>1, CurrentKept DEF FlowInv, RowsOK
<1>6. ASSUME cooldown' \subseteq cooldown PROVE CooldownOK'
  BY <1>6, RecordedKept DEF FlowInv, CooldownOK
<1> QED
  BY <1>2, <1>3, <1>4, <1>5, <1>6

-----------------------------------------------------------------------------
(* The steps.                                                              *)

\* A frame, and evidence on its way to the identity task, change no identity.
LEMMA EvidenceStep ==
    ASSUME IInv, (\E t \in Tracks, alike \in BOOLEAN : Frame(t, alike)) \/ Deliver
    PROVE  IInv'
<1>1. TypeOK /\ QueueOK /\ FlowInv
  BY DEF IInv
<1>2. UNCHANGED <<identity, task, cooldown, events, snapshots, commands, stdin, native, issued>>
  BY DEF Frame, Deliver, service, stores
<1>3. FlowInv'
  BY <1>1, <1>2 DEF FlowInv, CarriedOK, AssignmentOK, Current, Recorded, Witness, NativeOK, TaskOK, TaskEvent,
                    RowsOK, CooldownOK
<1>4. ASSUME NEW t \in Tracks, NEW alike \in BOOLEAN, Frame(t, alike) PROVE TypeOK' /\ QueueOK'
  <2>1. osd' \in [Tracks -> OsdEntry]
    <3>1. osd \in [Tracks -> OsdEntry] /\ Observe(osd[t], alike) \in OsdEntry
      BY <1>1, ObserveTyped DEF TypeOK
    <3> QED
      BY <1>4, <3>1 DEF Frame
  <2>2. track' \in [Tracks -> TrackRuntime] /\ out' \in EvidenceQueue /\ QueueOK'
    <3> DEFINE revision == track[t].revision + 1
    <3>1. /\ track \in [Tracks -> TrackRuntime] /\ track[t].frames \in 0 .. Window - 1
          /\ track[t].revision \in Nat /\ revision \in Nat \ {0} /\ Window \in Nat \ {0}
      BY <1>1, StreakAssumption DEF TypeOK, TrackRuntime
    <3>2. CASE track[t].frames + 1 = Window /\ revision <= MaxEvidence[t]
      <4>1. track' = [track EXCEPT ![t] = [frames |-> 0, revision |-> revision]] /\ out' = Pushed(t, revision)
        BY <1>4, <3>2 DEF Frame, Emit
      <4> HIDE DEF revision
      <4>2. [frames |-> 0, revision |-> revision] \in TrackRuntime
        BY <3>1 DEF TrackRuntime
      <4>3. track' \in [Tracks -> TrackRuntime]
        BY <3>1, <4>1, <4>2
      <4> QED
        BY <1>1, <3>1, <4>1, <4>3, PushOK
    <3>3. CASE ~(track[t].frames + 1 = Window /\ revision <= MaxEvidence[t])
      <4> DEFINE frames == (track[t].frames + 1) % Window
      <4>1. track' = [track EXCEPT ![t].frames = frames] /\ out' = out
        BY <1>4, <3>3 DEF Frame, Emit
      <4>2. frames \in 0 .. Window - 1
        BY <3>1
      <4> HIDE DEF frames
      <4>3. track' \in [Tracks -> TrackRuntime]
        BY <3>1, <4>1, <4>2 DEF TrackRuntime
      <4> QED
        BY <1>1, <4>1, <4>3 DEF TypeOK, QueueOK
    <3> QED
      BY <3>2, <3>3
  <2> QED
    BY <1>1, <1>2, <1>4, <2>1, <2>2 DEF TypeOK, Frame
<1>5. CASE Deliver
  <2> DEFINE e == [track |-> Head(out.order), revision |-> out.revision[Head(out.order)]]
  <2>1. out' \in EvidenceQueue /\ QueueOK' /\ e \in Evidence
    BY <1>1, <1>5, PopOK DEF Deliver, Evidence
  <2>2. work' = IF Len(work) < WorkCapacity THEN Append(work, e) ELSE work
    BY <1>5 DEF Deliver, Received
  <2> HIDE DEF e
  <2>3. work' \in Seq(Evidence) /\ Len(work') <= WorkCapacity
    BY <1>1, <2>1, <2>2, Appended, CapacityAssumption DEF TypeOK
  <2> QED
    <3>1. UNCHANGED <<track, native, osd>>
      BY <1>5 DEF Deliver
    <3> QED
      BY <1>1, <1>2, <1>3, <2>1, <2>3, <3>1 DEF IInv, TypeOK
<1> QED
  BY <1>3, <1>4, <1>5 DEF IInv

\* What a decision that waits to be recorded says.
LEMMA RecordTyped ==
    ASSUME NEW t \in Tracks, NEW epoch \in Nat, NEW face \in AnyFace, NEW reset \in BOOLEAN,
           Record(t, epoch, face, reset)
    PROVE  /\ task' \in TaskState /\ task'.at = "upload" /\ task'.track = t /\ task'.face = face
           /\ task'.epoch = epoch
BY DEF Record, TaskState, IdleTask

\* What _resolve does to an identity, and what it leaves to record or to assign.
Decides(t) ==
    /\ identity' \in [Tracks -> TrackIdentity]
    /\ \A u \in Tracks \ {t} : identity'[u] = identity[u]
    /\ \/ /\ UNCHANGED <<task, issued, commands>>
          /\ identity'[t].epoch = identity[t].epoch /\ identity'[t].known = identity[t].known
       \/ /\ identity'[t].known # identity[t].known
          /\ identity'[t].epoch = IF identity[t].known = NoFace THEN identity[t].epoch ELSE identity[t].epoch + 1
          /\ \/ /\ UNCHANGED <<issued, commands>>
                /\ \E reset \in BOOLEAN : Record(t, identity'[t].epoch, identity'[t].known, reset)
             \/ /\ identity'[t].known \in cooldown /\ task' = task
                /\ \E reset \in BOOLEAN : Issue(t, identity'[t].epoch, identity'[t].known, reset)

\* A window that rejects, confirms or replaces the identity of a track.
LEMMA ResolvedDecides == ASSUME TypeOK, NEW t \in Tracks, Resolved(t) PROVE Decides(t)
<1> DEFINE s == identity[t]
<1>1. /\ identity \in [Tracks -> TrackIdentity] /\ s \in TrackIdentity
      /\ s.epoch \in Nat \ {0} /\ s.epoch + 1 \in Nat \ {0} /\ s.known \in AnyFace
      /\ s.wins \in Nat /\ s.rejected \in Nat /\ NoFace \in AnyFace
  BY DEF TypeOK, TrackIdentity, AnyFace
<1>2. \A e \in Nat \ {0}, k \in AnyFace :
         /\ [epoch |-> e, known |-> k, candidate |-> NoFace, wins |-> 0, rejected |-> 0] \in TrackIdentity
         /\ [epoch |-> e, known |-> k, candidate |-> NoFace, wins |-> 0, rejected |-> 0].epoch = e
         /\ [epoch |-> e, known |-> k, candidate |-> NoFace, wins |-> 0, rejected |-> 0].known = k
  BY <1>1 DEF TrackIdentity
<1>3. CASE Rejected(t) /\ UNCHANGED <<issued, commands>>
  <2>1. CASE s.known # NoFace /\ s.rejected + 1 >= Streak
    <3> DEFINE new == [epoch |-> s.epoch + 1, known |-> NoFace, candidate |-> NoFace, wins |-> 0, rejected |-> 0]
    <3>1. identity' = [identity EXCEPT ![t] = new] /\ Record(t, s.epoch + 1, NoFace, TRUE)
      BY <1>3, <2>1 DEF Rejected
    <3>2. new \in TrackIdentity /\ new.epoch = s.epoch + 1 /\ new.known = NoFace
      BY <1>1, <1>2
    <3> HIDE DEF new
    <3>3. identity' \in [Tracks -> TrackIdentity] /\ identity'[t] = new
          /\ \A u \in Tracks \ {t} : identity'[u] = identity[u]
      BY <1>1, <3>1, <3>2
    <3> QED
      BY <1>3, <2>1, <3>1, <3>2, <3>3 DEF Decides
  <2>2. CASE ~(s.known # NoFace /\ s.rejected + 1 >= Streak)
    <3> DEFINE rejected == IF s.rejected < Streak THEN s.rejected + 1 ELSE s.rejected
               new == [s EXCEPT !.candidate = NoFace, !.wins = 0, !.rejected = rejected]
    <3>1. identity' = [identity EXCEPT ![t] = new] /\ task' = task
      BY <1>3, <2>2 DEF Rejected
    <3>2. rejected \in Nat
      BY <1>1
    <3> HIDE DEF rejected
    <3>3. new \in TrackIdentity /\ new.epoch = s.epoch /\ new.known = s.known
      BY <1>1, <3>2 DEF TrackIdentity
    <3> HIDE DEF new
    <3>4. identity' \in [Tracks -> TrackIdentity] /\ identity'[t] = new
          /\ \A u \in Tracks \ {t} : identity'[u] = identity[u]
      BY <1>1, <3>1, <3>3
    <3> QED
      BY <1>3, <3>1, <3>3, <3>4 DEF Decides
  <2> QED
    BY <2>1, <2>2
<1>4. ASSUME NEW f \in Faces, Recognised(t, f) PROVE Decides(t)
  <2> DEFINE epoch == IF s.known # NoFace THEN s.epoch + 1 ELSE s.epoch
             reset == s.known # NoFace
             new == [epoch |-> epoch, known |-> f, candidate |-> NoFace, wins |-> 0, rejected |-> 0]
  <2>1. epoch \in Nat \ {0} /\ f \in AnyFace /\ reset \in BOOLEAN /\ s.known # f
    BY <1>1, <1>4 DEF AnyFace, Recognised
  <2>2. /\ identity' = [identity EXCEPT ![t] = new]
        /\ \/ f \in cooldown /\ Issue(t, epoch, f, reset) /\ task' = task
           \/ Record(t, epoch, f, reset) /\ UNCHANGED <<issued, commands>>
    BY <1>4 DEF Recognised
  <2>3. epoch = IF s.known = NoFace THEN s.epoch ELSE s.epoch + 1
    OBVIOUS
  <2> HIDE DEF epoch, reset
  <2>4. new \in TrackIdentity /\ new.epoch = epoch /\ new.known = f
    BY <1>2, <2>1
  <2> HIDE DEF new
  <2>5. identity' \in [Tracks -> TrackIdentity] /\ identity'[t] = new
        /\ \A u \in Tracks \ {t} : identity'[u] = identity[u]
    BY <1>1, <2>2, <2>4
  <2> QED
    BY <2>1, <2>2, <2>3, <2>4, <2>5 DEF Decides
<1>5. ASSUME NEW f \in Faces, NEW found \in BOOLEAN, Confirmed(t, f, found) PROVE Decides(t)
  <2> DEFINE candidate == IF s.known \in {f, NoFace} THEN NoFace ELSE f
             wins == IF s.known \in {f, NoFace} THEN 0 ELSE IF Wins(s, f) > Streak THEN Streak ELSE Wins(s, f)
             new == [s EXCEPT !.rejected = 0, !.candidate = candidate, !.wins = wins]
  <2>1. candidate \in AnyFace /\ wins \in Nat
    BY <1>1, StreakAssumption DEF AnyFace, Wins
  <2>2. identity' = [identity EXCEPT ![t] = new] /\ UNCHANGED <<task, issued, commands>>
    BY <1>5 DEF Confirmed
  <2> HIDE DEF candidate, wins
  <2>3. new \in TrackIdentity /\ new.epoch = s.epoch /\ new.known = s.known
    BY <1>1, <2>1 DEF TrackIdentity
  <2> HIDE DEF new
  <2>4. identity' \in [Tracks -> TrackIdentity] /\ identity'[t] = new
        /\ \A u \in Tracks \ {t} : identity'[u] = identity[u]
    BY <1>1, <2>2, <2>3
  <2> QED
    BY <2>2, <2>3, <2>4 DEF Decides
<1>6. CASE UNCHANGED <<identity, task, issued, commands>>
  BY <1>1, <1>6 DEF Decides
<1> QED
  BY <1>3, <1>4, <1>5, <1>6 DEF Resolved

\* resolve: the decision is of a new epoch, or of one that had nobody, so no known event
\* stands in its way.
LEMMA ResolveStep == ASSUME IInv, Resolve PROVE IInv'
<1> DEFINE t == Head(work).track
<1>1. TypeOK /\ QueueOK /\ FlowInv /\ task.at = "idle"
  BY DEF IInv, Resolve
<1>2. /\ t \in Tracks /\ work' \in Seq(Evidence) /\ Len(work') <= WorkCapacity
  <2>1. work # <<>> /\ work \in Seq(Evidence) /\ work' = Tail(work) /\ Len(work) <= WorkCapacity
    BY <1>1 DEF Resolve, TypeOK
  <2>2. Head(work) \in Evidence
    BY <2>1, HeadTail
  <2>3. t \in Tracks
    BY <2>2 DEF Evidence
  <2> QED
    BY <2>1, <2>3, HeadTail, CapacityAssumption
<1>3. PICK u \in Tracks : u = t
  BY <1>2
<1>4. Decides(u) /\ UNCHANGED <<worker, stores, cooldown, stdin>>
  BY <1>1, <1>3, ResolvedDecides DEF Resolve
<1>5. PICK epoch \in Nat \ {0}, face \in AnyFace : epoch = identity'[u].epoch /\ face = identity'[u].known
  BY <1>4 DEF Decides, TrackIdentity
<1>6. identity[u].epoch \in Nat \ {0} /\ identity[u].known \in AnyFace
  BY <1>1 DEF TypeOK, TrackIdentity
<1>7. Follows
  <2>1. \A w \in Tracks : identity[w].epoch \in Nat
    BY <1>1 DEF TypeOK, TrackIdentity
  <2>2. /\ \A w \in Tracks \ {u} : identity'[w] = identity[w]
        /\ \/ identity'[u].epoch = identity[u].epoch /\ identity'[u].known = identity[u].known
           \/ identity'[u].epoch = IF identity[u].known = NoFace THEN identity[u].epoch ELSE identity[u].epoch + 1
    BY <1>4 DEF Decides
  <2> QED
    BY <2>1, <2>2 DEF Follows
<1>8. Keeps
  BY <1>4 DEF Keeps, stores
<1>9. \/ task' = task
      \/ /\ task' \in TaskState /\ task'.at = "upload" /\ task'.track = u /\ task'.face = face
         /\ task'.epoch = epoch /\ face # identity[u].known
         /\ epoch = IF identity[u].known = NoFace THEN identity[u].epoch ELSE identity[u].epoch + 1
  BY <1>4, <1>5, RecordTyped DEF Decides
<1>10. /\ commands' \in Seq(IdentityAssignment) /\ Len(commands') <= CommandCapacity
       /\ issued' \in [Tracks -> Nat]
       /\ \/ \A i \in DOMAIN commands' : \E j \in DOMAIN commands : commands'[i] = commands[j]
          \/ /\ face \in cooldown
             /\ \A i \in DOMAIN commands' :
                   \/ \E j \in DOMAIN commands : commands'[i] = commands[j]
                   \/ /\ commands'[i].track = u /\ commands'[i].epoch = epoch
                      /\ commands'[i].face \in {NoFace, face}
  <2>1. CASE UNCHANGED <<issued, commands>>
    BY <1>1, <2>1 DEF TypeOK
  <2>2. CASE ~UNCHANGED <<issued, commands>>
    <3>1. PICK reset \in BOOLEAN : Issue(u, epoch, face, reset) /\ face \in cooldown
      BY <1>4, <1>5, <2>2 DEF Decides
    <3> QED
      BY <1>1, <3>1, IssueHolds
  <2> QED
    BY <2>1, <2>2
<1>11. TypeOK'
  <2>1. task' \in TaskState /\ identity' \in [Tracks -> TrackIdentity]
    BY <1>1, <1>4, <1>9 DEF TypeOK, Decides
  <2>2. UNCHANGED <<track, out, native, osd, events, snapshots, cooldown, stdin>>
    BY <1>4 DEF worker, stores
  <2> QED
    BY <1>1, <1>2, <1>10, <2>1, <2>2 DEF TypeOK
<1>12. QueueOK'
  BY <1>1, <1>4 DEF QueueOK, worker
<1>13. NativeOK' /\ RowsOK' /\ CooldownOK' /\ \A i \in DOMAIN stdin' : AssignmentOK(stdin[i])'
  BY <1>1, <1>4, <1>7, <1>8, <1>11, FlowKept DEF worker, stores
<1>14. CarriedOK'
  <2>1. CASE \A i \in DOMAIN commands' : \E j \in DOMAIN commands : commands'[i] = commands[j]
    BY <1>1, <1>7, <1>8, <1>11, <1>13, <2>1, FlowKept DEF CarriedOK
  <2>2. CASE ~(\A i \in DOMAIN commands' : \E j \in DOMAIN commands : commands'[i] = commands[j])
    <3>1. Recorded(face)'
      BY <1>1, <1>8, <1>10, <2>2, RecordedKept DEF FlowInv, CooldownOK
    <3>2. ASSUME NEW i \in DOMAIN commands' PROVE AssignmentOK(commands[i])'
      <4>1. CASE \E j \in DOMAIN commands : commands'[i] = commands[j]
        <5>1. PICK j \in DOMAIN commands : commands'[i] = commands[j]
          BY <4>1
        <5>2. PICK a \in IdentityAssignment : a = commands[j]
          BY <1>1, ElementOfSeq, LenProperties DEF TypeOK
        <5>3. AssignmentOK(a)'
          BY <1>1, <1>7, <1>8, <1>11, <5>2, AssignmentKept DEF FlowInv, CarriedOK
        <5> QED
          BY <5>1, <5>2, <5>3 DEF AssignmentOK, Current, Recorded, Witness
      <4>2. CASE /\ commands'[i].track = u /\ commands'[i].epoch = epoch
                 /\ commands'[i].face \in {NoFace, face}
        BY <1>5, <3>1, <4>2 DEF AssignmentOK, Current, Recorded, Witness
      <4> QED
        BY <1>10, <2>2, <4>1, <4>2
    <3> QED
      BY <1>13, <3>2 DEF CarriedOK
  <2> QED
    BY <2>1, <2>2
<1>15. TaskOK'
  <2>1. CASE task' = task
    BY <1>1, <2>1 DEF TaskOK
  <2>2. CASE task' # task
    <3>1. /\ task'.at = "upload" /\ task'.track = u /\ task'.face = face /\ task'.epoch = epoch
          /\ epoch = IF identity[u].known = NoFace THEN identity[u].epoch ELSE identity[u].epoch + 1
      BY <1>9, <2>2
    <3>2. ASSUME face # NoFace, NEW row \in events, row.id = TaskEvent' PROVE FALSE
      <4>1. row.id.type = "known" /\ row.id.track = u /\ row.id.epoch = epoch
        BY <3>1, <3>2 DEF TaskEvent, TypeOf
      <4>2. row.face # NoFace /\ Current(u, epoch, row.face)
        BY <1>1, <4>1 DEF FlowInv, RowsOK
      <4> QED
        BY <1>6, <3>1, <4>2 DEF Current
    <3> QED
      BY <1>4, <1>5, <3>1, <3>2 DEF TaskOK, stores
  <2> QED
    BY <2>1, <2>2
<1> QED
  BY <1>11, <1>12, <1>13, <1>14, <1>15 DEF IInv, FlowInv

\* The snapshot of the decision goes to MinIO.
LEMMA UploadStep == ASSUME IInv, Upload PROVE IInv'
<1>1. TypeOK /\ QueueOK /\ FlowInv /\ task.at = "upload" /\ task \in TaskState
  BY DEF IInv, Upload, TypeOK
<1>2. PICK ok \in BOOLEAN : /\ task' = [task EXCEPT !.at = "commit", !.uploaded = ok]
                            /\ snapshots' = IF ok THEN snapshots \cup {TaskEvent} ELSE snapshots
  BY DEF Upload, UploadLiveSnapshot
<1>3. /\ task' \in TaskState /\ task'.at = "commit" /\ task'.track = task.track
      /\ task'.face = task.face /\ task'.epoch = task.epoch
  BY <1>1, <1>2 DEF TaskState
<1>4. task'.uploaded = ok
  BY <1>1, <1>2, Zenon DEF TaskState
<1>5. TaskEvent' = TaskEvent
  BY <1>3 DEF TaskEvent
<1>6. UNCHANGED <<track, out, native, osd, identity, issued, cooldown, events, work, commands, stdin>>
  BY DEF Upload, worker, service
<1>7. TaskEvent \in EventId
  <2>1. task.track \in Tracks /\ task.epoch \in Nat \ {0}
    BY <1>1 DEF FlowInv, TaskOK, TypeOK, TrackIdentity
  <2> QED
    BY <2>1 DEF TaskEvent, EventId, TypeOf, Types
<1>8. snapshots \subseteq snapshots' /\ snapshots' \subseteq EventId /\ (ok => TaskEvent \in snapshots')
  BY <1>1, <1>2, <1>7 DEF TypeOK
<1>9. TypeOK' /\ QueueOK'
  BY <1>1, <1>3, <1>6, <1>8 DEF TypeOK, QueueOK
<1>10. Follows /\ Keeps
  BY <1>1, <1>6, <1>8 DEF Follows, Keeps, TypeOK, TrackIdentity
<1>11. NativeOK' /\ RowsOK' /\ CooldownOK' /\ CarriedOK'
  BY <1>1, <1>6, <1>9, <1>10, FlowKept DEF CarriedOK
<1>12. TaskOK'
  <2>1. task'.uploaded => TaskEvent \in snapshots'
    BY <1>4, <1>8, Zenon
  <2> QED
    BY <1>1, <1>3, <1>5, <1>6, <2>1 DEF FlowInv, TaskOK
<1> QED
  BY <1>9, <1>11, <1>12 DEF IInv, FlowInv

\* create_once: the row of a decision that is known is new, and the others stay.
LEMMA InsertedHolds ==
    ASSUME TypeOK, FlowInv, task.at = "commit", events' = Inserted, identity' = identity
    PROVE  /\ events \subseteq events' /\ events' \subseteq EventRow /\ RowsOK'
           /\ task.track \in Tracks /\ task.epoch \in Nat \ {0} /\ task.face \in AnyFace
           /\ task.face # NoFace =>
                 [id |-> TaskEvent, face |-> task.face, ready |-> task.uploaded] \in events'
<1> DEFINE row == [id |-> TaskEvent, face |-> task.face, ready |-> task.uploaded]
<1>1. /\ task.track \in Tracks /\ task.epoch \in Nat \ {0} /\ task.face \in AnyFace
      /\ task.uploaded \in BOOLEAN
      /\ task.epoch = identity[task.track].epoch /\ task.face = identity[task.track].known
  BY DEF FlowInv, TaskOK, TypeOK, TrackIdentity, TaskState
<1>2. /\ TaskEvent \in EventId /\ TaskEvent.track = task.track /\ TaskEvent.epoch = task.epoch
      /\ TaskEvent.type = TypeOf(task.face)
  BY <1>1 DEF TaskEvent, EventId, TypeOf, Types
<1>3. row \in EventRow /\ row.id = TaskEvent /\ row.face = task.face
  BY <1>1, <1>2 DEF EventRow
<1>4. events' = IF \E r \in events : r.id = TaskEvent THEN events ELSE events \cup {row}
  BY DEF Inserted
<1> HIDE DEF row
<1>5. events \subseteq events' /\ events' \subseteq EventRow /\ events' \subseteq events \cup {row}
  BY <1>3, <1>4 DEF TypeOK
<1>6. row.id.type = "known" => row.face # NoFace /\ Current(row.id.track, row.id.epoch, row.face)
  BY <1>1, <1>2, <1>3 DEF Current, TypeOf
<1>7. RowsOK'
  BY <1>5, <1>6 DEF FlowInv, RowsOK, Current
<1>8. task.face # NoFace => row \in events'
  BY <1>4 DEF FlowInv, TaskOK
<1> QED
  BY <1>1, <1>5, <1>7, <1>8 DEF row

\* IdleTask waits for nothing.
LEMMA IdleTyped == IdleTask \in TaskState /\ IdleTask.at = "idle"
BY DEF IdleTask, TaskState, AnyFace

\* An acknowledged commit: the face is recorded before it is assigned or cools down.
LEMMA CommitStep == ASSUME IInv, Commit PROVE IInv'
<1>1. TypeOK /\ QueueOK /\ FlowInv /\ task.at = "commit" /\ events' = Inserted
  BY DEF IInv, Commit
<1>2. UNCHANGED <<track, out, native, osd, identity, snapshots, work, stdin>> /\ task' = IdleTask
  BY DEF Commit, worker
<1>3. PICK t \in Tracks, epoch \in Nat \ {0}, face \in AnyFace, reset \in BOOLEAN :
         t = task.track /\ epoch = task.epoch /\ face = task.face /\ Issue(t, epoch, face, reset)
  BY <1>1, <1>2, InsertedHolds DEF Commit, TypeOK, TaskState
<1>4. /\ events \subseteq events' /\ events' \subseteq EventRow /\ RowsOK'
  BY <1>1, <1>2, InsertedHolds
<1>5. /\ commands' \in Seq(IdentityAssignment) /\ Len(commands') <= CommandCapacity
      /\ issued' \in [Tracks -> Nat]
      /\ \A i \in DOMAIN commands' :
            \/ \E j \in DOMAIN commands : commands'[i] = commands[j]
            \/ /\ commands'[i].track = t /\ commands'[i].epoch = epoch
               /\ commands'[i].face \in {NoFace, face}
  BY <1>1, <1>3, IssueHolds
<1>6. cooldown' \subseteq Faces /\ \A f \in cooldown' : f \in cooldown \/ (f = face /\ face # NoFace)
  BY <1>1, <1>3 DEF Commit, TypeOK, AnyFace
<1>7. TypeOK' /\ QueueOK'
  BY <1>1, <1>2, <1>4, <1>5, <1>6, IdleTyped DEF TypeOK, QueueOK
<1>8. Follows /\ Keeps
  BY <1>1, <1>2, <1>4 DEF Follows, Keeps, TypeOK, TrackIdentity
<1>9. face # NoFace => Recorded(face)'
  <2>1. face # NoFace => [id |-> TaskEvent, face |-> face, ready |-> task.uploaded] \in events'
    BY <1>1, <1>2, <1>3, InsertedHolds
  <2>2. face # NoFace => TaskEvent.type = "known"
    BY <1>3 DEF TaskEvent, TypeOf
  <2>3. task.uploaded => TaskEvent \in snapshots'
    BY <1>1, <1>2 DEF FlowInv, TaskOK
  <2> DEFINE row == [id |-> TaskEvent, face |-> face, ready |-> task.uploaded]
  <2>4. row.id = TaskEvent /\ row.face = face
    OBVIOUS
  <2>5. row.ready = task.uploaded
    BY Zenon
  <2> HIDE DEF row
  <2>6. face # NoFace => row.id.type = "known" /\ row.face = face
    BY <2>2, <2>4
  <2>7. row.ready => row.id \in snapshots'
    BY <2>3, <2>4, <2>5, Zenon
  <2>8. face # NoFace => row \in events'
    BY <2>1 DEF row
  <2> QED
    BY <2>6, <2>7, <2>8 DEF Recorded, Witness
<1>10. NativeOK' /\ \A i \in DOMAIN stdin' : AssignmentOK(stdin[i])'
  BY <1>1, <1>2, <1>7, <1>8, FlowKept
<1>11. ASSUME NEW i \in DOMAIN commands' PROVE AssignmentOK(commands[i])'
  <2>1. CASE \E j \in DOMAIN commands : commands'[i] = commands[j]
    <3>1. PICK j \in DOMAIN commands : commands'[i] = commands[j]
      BY <2>1
    <3>2. PICK a \in IdentityAssignment : a = commands[j]
      BY <1>1, ElementOfSeq, LenProperties DEF TypeOK
    <3>3. AssignmentOK(a)'
      BY <1>1, <1>7, <1>8, <3>2, AssignmentKept DEF FlowInv, CarriedOK
    <3> QED
      BY <3>1, <3>2, <3>3 DEF AssignmentOK, Current, Recorded, Witness
  <2>2. CASE /\ commands'[i].track = t /\ commands'[i].epoch = epoch
             /\ commands'[i].face \in {NoFace, face}
    <3>1. epoch = identity'[t].epoch /\ face = identity'[t].known
      BY <1>1, <1>2, <1>3 DEF FlowInv, TaskOK
    <3> QED
      BY <1>9, <2>2, <3>1 DEF AssignmentOK, Current, Recorded, Witness
  <2> QED
    BY <1>5, <2>1, <2>2
<1>12. CarriedOK'
  BY <1>10, <1>11 DEF CarriedOK
<1>13. CooldownOK'
  BY <1>1, <1>6, <1>8, <1>9, RecordedKept DEF FlowInv, CooldownOK
<1>14. TaskOK'
  BY <1>2, IdleTyped DEF TaskOK
<1> QED
  BY <1>4, <1>7, <1>10, <1>12, <1>13, <1>14 DEF IInv, FlowInv

\* A commit that raises: the snapshot that is deleted belongs to no earlier event.
LEMMA CommitFailsStep == ASSUME IInv, CommitFails PROVE IInv'
<1>1. TypeOK /\ QueueOK /\ FlowInv /\ task.at = "commit"
  BY DEF IInv, CommitFails
<1>2. /\ UNCHANGED <<track, out, native, osd, identity, issued, cooldown, work, commands, stdin>>
      /\ task' = IdleTask
  BY DEF CommitFails, worker, service
<1>3. events' \in {events, Inserted} /\ snapshots' \in {snapshots, snapshots \ {TaskEvent}}
  BY DEF CommitFails, DeleteLiveSnapshot
<1>4. /\ events \subseteq events' /\ events' \subseteq EventRow
      /\ events' # events => RowsOK'
  BY <1>1, <1>2, <1>3, InsertedHolds DEF TypeOK
<1>5. TypeOK' /\ QueueOK'
  BY <1>1, <1>2, <1>3, <1>4, IdleTyped DEF TypeOK, QueueOK
<1>6. Keeps
  <2>1. ASSUME NEW row \in events, row.id.type = "known" PROVE row.id # TaskEvent
    <3>1. task.face = NoFace => TaskEvent.type = "unknown"
      BY DEF TaskEvent, TypeOf
    <3> QED
      BY <1>1, <2>1, <3>1 DEF FlowInv, TaskOK
  <2> QED
    BY <1>3, <1>4, <2>1 DEF Keeps
<1>7. Follows
  BY <1>1, <1>2 DEF Follows, TypeOK, TrackIdentity
<1>8. NativeOK' /\ CooldownOK' /\ CarriedOK' /\ (events' = events => RowsOK')
  BY <1>1, <1>2, <1>5, <1>6, <1>7, FlowKept DEF CarriedOK
<1>9. TaskOK'
  BY <1>2, IdleTyped DEF TaskOK
<1> QED
  BY <1>4, <1>5, <1>8, <1>9 DEF IInv, FlowInv

\* The end of a cooldown.
LEMMA CooldownStep == ASSUME IInv, NEW f \in Faces, CooldownLapses(f) PROVE IInv'
<1>1. TypeOK /\ QueueOK /\ FlowInv
  BY DEF IInv
<1>2. /\ UNCHANGED <<track, out, native, osd, identity, issued, events, snapshots, work, task, commands, stdin>>
      /\ cooldown' \subseteq cooldown
  BY DEF CooldownLapses, worker, stores
<1>3. TypeOK' /\ QueueOK'
  BY <1>1, <1>2 DEF TypeOK, QueueOK
<1>4. Follows /\ Keeps
  BY <1>1, <1>2 DEF Follows, Keeps, TypeOK, TrackIdentity
<1>5. NativeOK' /\ CooldownOK' /\ CarriedOK' /\ RowsOK'
  BY <1>1, <1>2, <1>3, <1>4, FlowKept DEF CarriedOK
<1>6. TaskOK'
  BY <1>1, <1>2 DEF FlowInv, TaskOK, TaskEvent
<1> QED
  BY <1>3, <1>5, <1>6 DEF IInv, FlowInv

\* An assignment moves from the queue to the pipe.
LEMMA WriteStep == ASSUME IInv, Write PROVE IInv'
<1>1. TypeOK /\ QueueOK /\ FlowInv /\ commands # <<>>
      /\ commands \in Seq(IdentityAssignment) /\ stdin \in Seq(IdentityAssignment)
      /\ commands' = Tail(commands) /\ stdin' = Append(stdin, Head(commands))
  BY DEF IInv, Write, TypeOK
<1>2. UNCHANGED <<track, out, native, osd, identity, issued, cooldown, events, snapshots, work, task>>
  BY DEF Write, worker, service, stores
<1>3. /\ commands' \in Seq(IdentityAssignment) /\ Len(commands') <= CommandCapacity
      /\ Head(commands) \in IdentityAssignment
      /\ 1 \in DOMAIN commands /\ Head(commands) = commands[1]
      /\ \A i \in DOMAIN commands' : \E j \in DOMAIN commands : commands'[i] = commands[j]
  BY <1>1, HeadTail, CapacityAssumption DEF TypeOK
<1>4. /\ stdin' \in Seq(IdentityAssignment)
      /\ \A i \in DOMAIN stdin' : stdin'[i] = Head(commands) \/ \E j \in DOMAIN stdin : stdin'[i] = stdin[j]
  BY <1>1, <1>3, Appended
<1>5. TypeOK' /\ QueueOK'
  BY <1>1, <1>2, <1>3, <1>4 DEF TypeOK, QueueOK
<1>6. Follows /\ Keeps
  BY <1>1, <1>2 DEF Follows, Keeps, TypeOK, TrackIdentity
<1>7. NativeOK' /\ CooldownOK' /\ RowsOK' /\ \A i \in DOMAIN commands' : AssignmentOK(commands[i])'
  BY <1>1, <1>2, <1>3, <1>5, <1>6, FlowKept
<1>8. ASSUME NEW i \in DOMAIN stdin' PROVE AssignmentOK(stdin[i])'
  BY <1>1, <1>2, <1>3, <1>4 DEF FlowInv, CarriedOK, AssignmentOK, Current, Recorded, Witness
<1>9. TaskOK'
  BY <1>1, <1>2 DEF FlowInv, TaskOK, TaskEvent
<1> QED
  BY <1>5, <1>7, <1>8, <1>9 DEF IInv, FlowInv, CarriedOK

\* The child applies an assignment, or rejects it.
LEMMA ApplyStep == ASSUME IInv, Apply PROVE IInv'
<1> DEFINE a == Head(stdin)
<1>1. TypeOK /\ QueueOK /\ FlowInv /\ stdin # <<>> /\ stdin \in Seq(IdentityAssignment) /\ stdin' = Tail(stdin)
  BY DEF IInv, Apply, TypeOK
<1>2. UNCHANGED <<track, out, identity, issued, cooldown, events, snapshots, work, task, commands>>
  BY DEF Apply, service, stores
<1>3. /\ stdin' \in Seq(IdentityAssignment) /\ a \in IdentityAssignment /\ AssignmentOK(a)
      /\ \A i \in DOMAIN stdin' : \E j \in DOMAIN stdin : stdin'[i] = stdin[j]
  BY <1>1, HeadTail DEF FlowInv, CarriedOK
<1>4. \/ UNCHANGED <<native, osd>>
      \/ /\ native' = [native EXCEPT ![a.track] = Applied(a)]
         /\ osd' = [osd EXCEPT ![a.track] = Labelled(a)]
  BY DEF Apply
<1> HIDE DEF a
<1>5. /\ a.track \in Tracks /\ a.face \in AnyFace /\ a.epoch \in Nat \ {0} /\ a.revision \in Nat
      /\ Labelled(a) \in OsdEntry /\ Applied(a) \in IdentityState
      /\ Applied(a).face = a.face /\ Applied(a).epoch = a.epoch
      /\ Applied(a).state = "Known" => a.face # NoFace
  BY <1>3, StreakAssumption DEF IdentityAssignment, Labelled, OsdEntry, Applied, IdentityState
<1>6. /\ native' \in [Tracks -> IdentityState] /\ osd' \in [Tracks -> OsdEntry]
      /\ \A t \in Tracks : native'[t] = native[t] \/ (t = a.track /\ native'[t] = Applied(a))
  BY <1>1, <1>4, <1>5 DEF TypeOK
<1>7. TypeOK' /\ QueueOK'
  BY <1>1, <1>2, <1>3, <1>6 DEF TypeOK, QueueOK
<1>8. Follows /\ Keeps
  BY <1>1, <1>2 DEF Follows, Keeps, TypeOK, TrackIdentity
<1>9. CooldownOK' /\ RowsOK' /\ \A i \in DOMAIN commands' : AssignmentOK(commands[i])'
  BY <1>1, <1>2, <1>7, <1>8, FlowKept
<1>10. ASSUME NEW i \in DOMAIN stdin' PROVE AssignmentOK(stdin[i])'
  BY <1>1, <1>2, <1>3 DEF FlowInv, CarriedOK, AssignmentOK, Current, Recorded, Witness
<1>11. NativeOK'
  <2>1. \A t \in Tracks :
          /\ native'[t].epoch <= identity[t].epoch
          /\ native'[t].state = "Known" =>
                /\ native'[t].face \in Faces
                /\ Current(t, native'[t].epoch, native'[t].face)
                /\ Recorded(native'[t].face)
    BY <1>1, <1>3, <1>5, <1>6 DEF FlowInv, NativeOK, AssignmentOK, Current, AnyFace
  <2> QED
    BY <1>2, <2>1 DEF NativeOK, Current, Recorded, Witness
<1>12. TaskOK'
  BY <1>1, <1>2 DEF FlowInv, TaskOK, TaskEvent
<1> QED
  BY <1>7, <1>9, <1>10, <1>11, <1>12 DEF IInv, FlowInv, CarriedOK

-----------------------------------------------------------------------------
(* The invariant, and the theorems.                                        *)

\* A run starts with empty queues.
LEMMA InitIInv == Init => IInv
<1> SUFFICES ASSUME Init PROVE IInv
  OBVIOUS
<1>1. TypeOK
  <2>1. track \in [Tracks -> TrackRuntime]
    BY StreakAssumption DEF Init, TrackRuntime
  <2>2. out \in EvidenceQueue
    BY EmptySeq DEF Init, EvidenceQueue
  <2>3. identity \in [Tracks -> TrackIdentity] /\ native \in [Tracks -> IdentityState]
    BY DEF Init, TrackIdentity, IdentityState, AnyFace
  <2>4. osd \in [Tracks -> OsdEntry]
    BY StreakAssumption DEF Init, OsdEntry
  <2>5. /\ work \in Seq(Evidence) /\ Len(work) <= WorkCapacity
        /\ commands \in Seq(IdentityAssignment) /\ Len(commands) <= CommandCapacity
        /\ stdin \in Seq(IdentityAssignment)
    BY EmptySeq, CapacityAssumption DEF Init
  <2> QED
    BY <2>1, <2>2, <2>3, <2>4, <2>5, IdleTyped DEF Init, TypeOK
<1>2. QueueOK
  BY DEF Init, QueueOK
<1>3. FlowInv
  <2>1. CarriedOK
    BY DEF Init, CarriedOK
  <2>2. NativeOK
    <3>1. \A t \in Tracks : native[t].state = "Pending" /\ native[t].epoch = 1 /\ identity[t].epoch = 1
      BY DEF Init
    <3>2. ASSUME NEW t \in Tracks PROVE native[t].epoch <= identity[t].epoch
      <4>1. native[t].epoch = 1 /\ identity[t].epoch = 1
        BY <3>1
      <4>2. 1 <= 1
        OBVIOUS
      <4> QED
        BY <4>1, <4>2, Zenon
    <3> QED
      BY <3>1, <3>2, Zenon DEF NativeOK
  <2>3. TaskOK
    BY IdleTyped DEF Init, TaskOK
  <2>4. RowsOK /\ CooldownOK
    BY DEF Init, RowsOK, CooldownOK
  <2> QED
    BY <2>1, <2>2, <2>3, <2>4 DEF FlowInv
<1> QED
  BY <1>1, <1>2, <1>3 DEF IInv

\* Every step keeps the invariant.
LEMMA NextIInv == IInv /\ [Next]_vars => IInv'
<1> SUFFICES ASSUME IInv, [Next]_vars PROVE IInv'
  OBVIOUS
<1>1. CASE UNCHANGED vars
  BY <1>1 DEF vars, worker, service, stores, IInv, TypeOK, QueueOK, FlowInv, CarriedOK, AssignmentOK, Current,
              Recorded, Witness, NativeOK, TaskOK, TaskEvent, RowsOK, CooldownOK
<1>2. CASE Next
  BY <1>2, EvidenceStep, ResolveStep, UploadStep, CommitStep, CommitFailsStep, CooldownStep, WriteStep, ApplyStep
  DEF Next
<1> QED
  BY <1>1, <1>2

\* The inductive invariant holds in every reachable state.
THEOREM Invariance == Spec => []IInv
BY InitIInv, NextIInv, PTL DEF Spec

\* The queues of the worker and of the supervisor keep their types and capacities: in
\* particular the event queue never pops a track without an event.
THEOREM TypeCorrect == Spec => []TypeOK
<1>1. IInv => TypeOK
  BY DEF IInv
<1> QED
  BY <1>1, Invariance, PTL

\* However assignments are delayed, replaced in the queue or pushed out of it: the
\* worker is never ahead of the service's epoch, and knows a track in that epoch only
\* as the service does (IdentityAssignmentState::apply, LiveCommandQueue.put_nowait).
THEOREM EpochAgreement == Spec => []EpochAgrees
<1>1. IInv => EpochAgrees
  BY NoFaceAssumption DEF IInv, FlowInv, NativeOK, Current, EpochAgrees
<1> QED
  BY <1>1, Invariance, PTL

\* A name on the screen has a known event, with the snapshot that its row promises,
\* through failed uploads, unacknowledged commits and cooldowns (accept_decision).
THEOREM ShownAreRecorded == Spec => []ShownIsRecorded
<1>1. ASSUME IInv PROVE ShownIsRecorded
  <2> SUFFICES ASSUME NEW t \in Tracks, Shown(t) # NoFace
               PROVE  \E row \in events : /\ row.id.type = "known" /\ row.face = Shown(t)
                                          /\ row.ready => row.id \in snapshots
    BY DEF ShownIsRecorded
  <2>1. native[t].state = "Known" /\ Shown(t) = native[t].face
    BY DEF Shown
  <2>2. Recorded(native[t].face)
    BY <1>1, <2>1 DEF IInv, FlowInv, NativeOK
  <2> QED
    BY <2>1, <2>2 DEF Recorded, Witness
<1> QED
  BY <1>1, Invariance, PTL

\* The label of a track never goes from one name to another in one step, whatever
\* happened to the reset on its way: an assignment of a later epoch with a name is
\* refused, and one of the same epoch has the same name.
THEOREM NamesGoThroughNone == Spec => NamesNeverSwap
<1>1. ASSUME IInv, [Next]_vars, NEW t \in Tracks, Shown(t) # NoFace
      PROVE  Shown(t)' \in {Shown(t), NoFace}
  <2>1. native[t].state = "Known" /\ Shown(t) = native[t].face
    BY <1>1 DEF Shown
  <2>2. CASE native' = native
    BY <2>1, <2>2 DEF Shown
  <2>3. CASE native' # native
    <3> DEFINE a == Head(stdin)
    <3>1. Apply
      BY <1>1, <2>3 DEF Next, vars, worker, Frame, Deliver, Resolve, Upload, Commit, CommitFails, CooldownLapses, Write
    <3>2. Accepts(native[a.track], a) /\ native' = [native EXCEPT ![a.track] = Applied(a)]
      BY <2>3, <3>1 DEF Apply
    <3>3. a \in IdentityAssignment /\ native \in [Tracks -> IdentityState]
      BY <1>1, <3>1, HeadTail DEF IInv, TypeOK, Apply
    <3> HIDE DEF a
    <3>4. a.track \in Tracks /\ a.epoch \in Nat /\ native[t].epoch \in Nat
      BY <3>3 DEF IdentityAssignment, IdentityState
    <3>5. CASE t # a.track
      BY <2>1, <3>2, <3>3, <3>5 DEF Shown
    <3>6. CASE t = a.track
      <4>1. native'[t] = Applied(a)
        BY <3>2, <3>3, <3>6
      <4>2. a.face \in {native[t].face, NoFace}
        BY <2>1, <3>2, <3>4, <3>6 DEF Accepts
      <4>3. native'[t].face = a.face
        BY <4>1 DEF Applied
      <4> QED
        BY <2>1, <4>2, <4>3 DEF Shown
    <3> QED
      BY <3>5, <3>6
  <2> QED
    BY <2>2, <2>3
<1>2. IInv /\ [Next]_vars => [\A t \in Tracks : Shown(t) # NoFace => Shown(t)' \in {Shown(t), NoFace}]_vars
  BY <1>1
<1> QED
  BY <1>2, Invariance, PTL DEF Spec, NamesNeverSwap
=============================================================================
