------------------------------ MODULE Migration ------------------------------
(***************************************************************************)
(* The Alembic revisions of the PostgreSQL database.  A container of the   *)
(* API runs "alembic upgrade head" when it starts, while the workers and   *)
(* other containers go on writing rows; an operator may downgrade.  A      *)
(* command is one transaction (env.py), whatever number of revisions it    *)
(* runs: PostgreSQL locks each table that it alters up to its end, and     *)
(* undoes all of it when one statement fails or the process dies.          *)
(***************************************************************************)
EXTENDS Naturals, Sequences, Schema

CONSTANTS
    MaxRows,     \* bound: rows that are written
    MaxCommands  \* bound: commands that are run

VARIABLES
    db,       \* what is committed: the revision, the tables and the rows
    work,     \* the transaction of the command in progress
    refused,  \* which way a command failed because of the rows
    commands  \* how many commands were started

vars == <<db, work, refused, commands>>

-----------------------------------------------------------------------------
(* Rows.  Only the columns whose values a migration depends on are kept.   *)

Nil == "nil"

Watched ==
    [process_record |-> [process_type |-> {"recognize", "video_recognize"},
                         status |-> {"completed", "cancelled"}, details |-> {"given"}],
     live_camera_run |-> [traceparent |-> {"given"}],
     live_detection_event |-> [run_id |-> {"run"}, native_track_id |-> {"low", "high"},
                               identity_epoch |-> {"1", "2"}, event_type |-> {"known"}]]

Columns(table) == table.needed \cup table.optional

\* The rows that may be written to a table.
RowsOf(schema, t) ==
    LET columns == DOMAIN Watched[t] \cap Columns(schema[t])
    IN {[table |-> t, value |-> v] :
            v \in {f \in [columns -> UNION {Watched[t][c] : c \in columns}] :
                      \A c \in columns : f[c] \in Watched[t][c]}}

\* NOT NULL and CHECK.
Fits(table, row) ==
    /\ \A c \in DOMAIN row.value \cap table.needed : row.value[c] # Nil
    /\ \A k \in table.check : k[1] \in DOMAIN row.value => row.value[k[1]] \in k[2]

Same(key, row, other) ==
    key \subseteq DOMAIN row.value /\ \A c \in key : row.value[c] = other.value[c]

\* Rows are numbered, as two of them may be alike.
Valid(schema, rows) ==
    \A i \in DOMAIN rows :
        LET table == schema[rows[i].table]
        IN /\ Fits(table, rows[i])
           /\ \A j \in DOMAIN rows \ {i} : rows[j].table = rows[i].table =>
                 \A key \in table.unique : ~Same(key, rows[i], rows[j])

-----------------------------------------------------------------------------
(* Statements (alembic.op).  Each maps the tables and the rows.            *)

Create(t, table) == [op |-> "create", table |-> t, new |-> table]
Drop(t) == [op |-> "drop", table |-> t]
AddColumn(t, c, nullable, value) ==
    [op |-> "add", table |-> t, column |-> c, nullable |-> nullable, value |-> value]
DropColumn(t, c) == [op |-> "remove", table |-> t, column |-> c]
NotNull(t, c) == [op |-> "require", table |-> t, column |-> c]
Fill(t, c, value) == [op |-> "fill", table |-> t, column |-> c, value |-> value]
Check(t, c, values) == [op |-> "check", table |-> t, column |-> c, values |-> values]
DropCheck(t, c) == [op |-> "uncheck", table |-> t, column |-> c]
Unique(t, key) == [op |-> "unique", table |-> t, key |-> key]
DropUnique(t, key) == [op |-> "ununique", table |-> t, key |-> key]

Without(f, t) == [x \in DOMAIN f \ {t} |-> f[x]]
With(f, t, v) == [x \in DOMAIN f \cup {t} |-> IF x = t THEN v ELSE f[x]]

\* A type is changed by a Check of the values it can hold.
Altered(o, table) ==
    CASE o.op = "add" /\ o.nullable -> [table EXCEPT !.optional = @ \cup {o.column}]
      [] o.op = "add" -> [table EXCEPT !.needed = @ \cup {o.column}]
      [] o.op = "remove" -> [table EXCEPT !.needed = @ \ {o.column}, !.optional = @ \ {o.column}]
      [] o.op = "require" -> [table EXCEPT !.needed = @ \cup {o.column}, !.optional = @ \ {o.column}]
      [] o.op = "check" -> [table EXCEPT !.check = {k \in @ : k[1] # o.column} \cup {<<o.column, o.values>>}]
      [] o.op = "uncheck" -> [table EXCEPT !.check = {k \in @ : k[1] # o.column}]
      [] o.op = "unique" -> [table EXCEPT !.unique = @ \cup {o.key}]
      [] o.op = "ununique" -> [table EXCEPT !.unique = @ \ {o.key}]
      [] OTHER -> table

TablesAfter(o, schema) ==
    CASE o.op = "create" -> With(schema, o.table, o.new)
      [] o.op = "drop" -> Without(schema, o.table)
      [] OTHER -> [schema EXCEPT ![o.table] = Altered(o, @)]

\* A column that is not watched has no value in the row.
ValueAfter(o, value) ==
    CASE o.op = "add" /\ o.column \in DOMAIN Watched[o.table] -> With(value, o.column, o.value)
      [] o.op = "remove" -> Without(value, o.column)
      [] o.op = "fill" -> [value EXCEPT ![o.column] = IF @ = Nil THEN o.value ELSE @]
      [] OTHER -> value

RowsAfter(o, rows) ==
    LET kept == {i \in DOMAIN rows : o.op = "drop" => rows[i].table # o.table}
    IN [i \in kept |-> IF rows[i].table = o.table
                       THEN [rows[i] EXCEPT !.value = ValueAfter(o, @)] ELSE rows[i]]

\* The tables that a statement locks against writes: a foreign key that comes or goes
\* locks the table it refers to.
Locks(o, schema) ==
    {o.table} \cup
    (IF o.op \in {"create", "drop"}
     THEN {r[2] : r \in (IF o.op = "create" THEN o.new ELSE schema[o.table]).references} ELSE {})

-----------------------------------------------------------------------------
(* The revisions.                                                          *)

UpgradePhase1 ==
    <<Create("face_identity", NewFaceIdentity), Create("process_record", NewProcessRecord),
      Create("face_sample", NewFaceSample), Create("process_event", NewProcessEvent),
      Create("recognition_result", NewRecognitionResult)>>

DowngradePhase1 ==
    <<Drop("recognition_result"), Drop("process_event"), Drop("face_sample"),
      Drop("process_record"), Drop("face_identity")>>

UpgradeVideo ==
    <<AddColumn("process_record", "details", FALSE, "given"),
      DropCheck("process_record", "process_type"), DropCheck("process_record", "status"),
      Check("process_record", "process_type",
            {"recognize", "enroll", "update", "delete", "video_recognize"}),
      Check("process_record", "status", {"started", "completed", "failed", "cancelled"}),
      Create("video_job", NewVideoJob), Create("video_track", NewVideoTrack)>>

DowngradeVideoWide ==
    <<Drop("video_track"), Drop("video_job"), DropCheck("process_record", "process_type"),
      Check("process_record", "process_type", {"recognize", "enroll", "update", "delete"}),
      DropColumn("process_record", "details")>>

DowngradeVideo ==
    <<Drop("video_track"), Drop("video_job"),
      DropCheck("process_record", "process_type"), DropCheck("process_record", "status"),
      Check("process_record", "process_type", {"recognize", "enroll", "update", "delete"}),
      Check("process_record", "status", {"started", "completed", "failed"}),
      DropColumn("process_record", "details")>>

UpgradeLive ==
    <<Create("live_camera", NewLiveCamera), Create("live_camera_run", NewLiveCameraRun),
      Create("live_detection_event", NewLiveDetectionEvent)>>

DowngradeLive ==
    <<Drop("live_detection_event"), Drop("live_camera_run"), Drop("live_camera")>>

EventKey == {"run_id", "native_track_id", "event_type"}

UpgradeEpoch ==
    <<AddColumn("live_detection_event", "identity_epoch", FALSE, "1"),
      DropUnique("live_detection_event", EventKey),
      Unique("live_detection_event", EventKey \cup {"identity_epoch"})>>

DowngradeEpoch ==
    <<DropUnique("live_detection_event", EventKey \cup {"identity_epoch"}),
      Unique("live_detection_event", EventKey),
      DropColumn("live_detection_event", "identity_epoch")>>

\* The check of uint64 allows every tracker id.
UpgradeUint64 == <<Check("live_detection_event", "native_track_id", {"low", "high"})>>

DowngradeUint64 == <<Check("live_detection_event", "native_track_id", {"low"})>>

UpgradeTraceUnfilled ==
    <<AddColumn("live_camera", "desired_traceparent", TRUE, Nil),
      AddColumn("live_camera", "desired_tracestate", TRUE, Nil),
      AddColumn("live_camera_run", "traceparent", TRUE, Nil),
      AddColumn("live_camera_run", "tracestate", TRUE, Nil),
      NotNull("live_camera_run", "traceparent")>>

UpgradeTrace ==
    <<AddColumn("live_camera", "desired_traceparent", TRUE, Nil),
      AddColumn("live_camera", "desired_tracestate", TRUE, Nil),
      AddColumn("live_camera_run", "traceparent", TRUE, Nil),
      AddColumn("live_camera_run", "tracestate", TRUE, Nil),
      Fill("live_camera_run", "traceparent", "given"),
      NotNull("live_camera_run", "traceparent")>>

DowngradeTrace ==
    <<DropColumn("live_camera_run", "tracestate"), DropColumn("live_camera_run", "traceparent"),
      DropColumn("live_camera", "desired_tracestate"),
      DropColumn("live_camera", "desired_traceparent")>>

UpgradeSession ==
    <<Create("live_session", NewLiveSession), Create("live_connector", NewLiveConnector),
      Create("live_session_generation", NewLiveSessionGeneration),
      Create("live_session_run", NewLiveSessionRun)>>

DowngradeSession ==
    <<Drop("live_session_run"), Drop("live_session_generation"), Drop("live_connector"),
      Drop("live_session")>>

\* down_revision of each file.
Upgrades ==
    <<UpgradePhase1, UpgradeVideo, UpgradeLive, UpgradeEpoch, UpgradeUint64, UpgradeTrace,
      UpgradeSession>>
Downgrades ==
    <<DowngradePhase1, DowngradeVideo, DowngradeLive, DowngradeEpoch, DowngradeUint64,
      DowngradeTrace, DowngradeSession>>

HeadRevision == Len(Upgrades)

-----------------------------------------------------------------------------
(* The commands.                                                           *)

Idle == [to |-> "none"]

TypeOK ==
    /\ db.rev \in 0 .. HeadRevision
    /\ DOMAIN db.rows \subseteq 1 .. MaxRows
    /\ refused \in {"none", "up", "down"}
    /\ commands \in 0 .. MaxCommands

Init ==
    /\ db = [rev |-> 0, schema |-> << >>, rows |-> << >>]
    /\ work = Idle
    /\ refused = "none"
    /\ commands = 0

\* do_run_migrations: the transaction begins.
Begin(to) ==
    /\ work = Idle /\ commands < MaxCommands
    /\ to # db.rev
    /\ commands' = commands + 1
    /\ work' = [to |-> to, rev |-> db.rev, done |-> 0, schema |-> db.schema, rows |-> db.rows,
                locked |-> {}]
    /\ UNCHANGED <<db, refused>>

Up == work.to > work.rev
Statements == IF Up THEN Upgrades[work.rev + 1] ELSE Downgrades[work.rev]

\* The next statement.  One that the rows do not allow ends the command, and with it
\* everything that the command has done.
Execute ==
    /\ work # Idle /\ work.to # work.rev
    /\ LET o == Statements[work.done + 1]
           schema == TablesAfter(o, work.schema)
           rows == RowsAfter(o, work.rows)
           last == work.done + 1 = Len(Statements)
       IN IF Valid(schema, rows)
          THEN /\ work' = [work EXCEPT
                     !.schema = schema, !.rows = rows,
                     !.locked = @ \cup Locks(o, work.schema),
                     !.done = IF last THEN 0 ELSE @ + 1,
                     !.rev = IF ~last THEN @ ELSE IF Up THEN @ + 1 ELSE @ - 1]
               /\ UNCHANGED refused
          ELSE /\ work' = Idle
               /\ refused' = IF Up THEN "up" ELSE "down"
    /\ UNCHANGED <<db, commands>>

Commit ==
    /\ work # Idle /\ work.to = work.rev
    /\ db' = [rev |-> work.rev, schema |-> work.schema, rows |-> work.rows]
    /\ work' = Idle
    /\ UNCHANGED <<refused, commands>>

\* The process dies, or loses its connection.
Crash ==
    /\ work # Idle
    /\ work' = Idle
    /\ UNCHANGED <<db, refused, commands>>

\* Another process writes a row, and commits it.
Write(t) ==
    /\ t \in DOMAIN db.schema
    /\ work # Idle => t \notin work.locked
    /\ \E i \in 1 .. MaxRows \ DOMAIN db.rows, row \in RowsOf(db.schema, t) :
          LET rows == With(db.rows, i, row)
          IN /\ Valid(db.schema, rows)
             /\ db' = [db EXCEPT !.rows = rows]
             /\ work' = IF work = Idle THEN Idle ELSE [work EXCEPT !.rows = With(@, i, row)]
    /\ UNCHANGED <<refused, commands>>

Next ==
    \/ \E to \in 0 .. HeadRevision : (to > db.rev => to = HeadRevision) /\ Begin(to)
    \/ Execute \/ Commit \/ Crash
    \/ \E t \in DOMAIN Watched : Write(t)

Spec == Init /\ [][Next]_vars

-----------------------------------------------------------------------------
(* Properties.                                                             *)

\* The tables that the upgrades up to a revision give.
SchemaAt[rev \in 0 .. HeadRevision] ==
    IF rev = 0 THEN << >>
    ELSE LET ops == Upgrades[rev]
             after[n \in 0 .. Len(ops)] ==
                IF n = 0 THEN SchemaAt[rev - 1] ELSE TablesAfter(ops[n], after[n - 1])
         IN after[Len(ops)]

\* The tables are those of the revision that alembic_version names, however upgrades,
\* downgrades, refusals and crashes came one after the other, the rows satisfy them, and
\* at the head they are the ones that models.py works with.
SchemaKept ==
    /\ db.schema = SchemaAt[db.rev]
    /\ Valid(db.schema, db.rows)
    /\ db.rev = HeadRevision => db.schema = Models

\* An upgrade never fails because of rows that are there, nor of rows that other
\* processes write while it runs: a container that upgrades when it starts does start.
UpgradesAccepted == refused # "up"

=============================================================================
