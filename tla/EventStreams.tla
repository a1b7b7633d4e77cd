---------------------------- MODULE EventStreams ----------------------------
(***************************************************************************)
(* The two server-sent event streams of the API: the domain events, which  *)
(* every process appends in the transaction of the change they report, and *)
(* the telemetry of a run, which a worker that runs its container writes   *)
(* row by row.  A stream polls its table for the rows behind a cursor, one *)
(* page at a time, and sends them; the cursor is the id of the last row    *)
(* sent, and a client that lost its connection may resume from it.         *)
(*                                                                         *)
(* A row gets its id (a UUIDv7, sorted by the millisecond) and then its    *)
(* time when it is created, and is seen when its transaction commits.      *)
(* Rows are numbered by their time.  Payloads and the charter and cycle    *)
(* filters are left out: a stream without the rows it filters out is the   *)
(* same stream.                                                            *)
(***************************************************************************)
EXTENDS Integers, Sequences, FiniteSets, SequencesExt, FiniteSetsExt

CONSTANTS
    Tables,      \* the tables streamed: "events", "telemetry"
    Writers,     \* processes that emit domain events, or execute the run: two,
                 \* if its job was reclaimed or claimed twice
    PageSize,    \* the limit of a poll
    MaxRows,     \* bound: rows written, and ids: so many rows in any order
    MaxConnects  \* bound: connections made

ASSUME StreamsAssumption ==
    /\ Tables \subseteq {"events", "telemetry"} /\ Writers # {}
    /\ PageSize \in Nat \ {0} /\ MaxRows \in Nat /\ MaxConnects \in Nat

VARIABLES
    table,      \* the table of this behaviour (constant)
    rows,       \* its rows in order of time: id, writer, whether they are seen
    run,        \* RunRecord.status: has the run reached a terminal status
    stream,     \* the generator: where it stands, cursor, page, RunRecord it holds
    received,   \* the rows the client has, since it last started without a cursor
    overtaken,  \* history: rows not yet seen when one with a greater id was polled
    connects    \* connections made

vars == <<table, rows, run, stream, received, overtaken, connects>>

RowIds == 1..Len(rows)
Off    == [at |-> "off", cursor |-> 0, page |-> {}, known |-> "unread"]

Init ==
    /\ table \in Tables
    /\ rows = <<>>
    /\ run = "running"
    /\ stream = Off
    /\ received = <<>>
    /\ overtaken = {}
    /\ connects = 0

-----------------------------------------------------------------------------
(* Writers. *)

\* An id stands for its place among all ids.  uuid7() grows within a process;
\* in the same millisecond it is random between processes, and a process that
\* stops between uuid7() and utcnow() has an id older than its time.  So a new
\* id may fall below those of any number of earlier rows of other processes.
NewIds(w) ==
    {id \in 1..MaxRows : \A r \in RowIds :
        rows[r].id # id /\ (rows[r].writer = w => rows[r].id < id)}

\* emit_event leaves the row to the transaction of its caller; the telemetry
\* callback commits its row at once.
Emit(w) ==
    /\ Len(rows) < MaxRows
    /\ \E id \in NewIds(w) :
          rows' = Append(rows, [id |-> id, writer |-> w,
                                state |-> IF table = "events" THEN "open" ELSE "seen"])
    /\ UNCHANGED <<table, run, stream, received, overtaken, connects>>

Open(w) == {r \in RowIds : rows[r].writer = w /\ rows[r].state = "open"}

EndTransaction(w, state) ==
    /\ Open(w) # {}
    /\ rows' = [r \in RowIds |-> IF r \in Open(w) THEN [rows[r] EXCEPT !.state = state]
                                                  ELSE rows[r]]
    /\ UNCHANGED <<table, run, stream, received, overtaken, connects>>

CommitTransaction(w)   == EndTransaction(w, "seen")
RollbackTransaction(w) == EndTransaction(w, "undone")

\* The run completes, fails, or is cancelled, which may be while the worker
\* still writes its telemetry.
RunEnds ==
    /\ table = "telemetry" /\ run = "running"
    /\ run' = "terminal"
    /\ UNCHANGED <<table, rows, stream, received, overtaken, connects>>

-----------------------------------------------------------------------------
(* The stream. *)

Received == Range(received)
LastSent == IF received = <<>> THEN 0 ELSE rows[Last(received)].id

\* A client connects without a cursor, and gets everything again, or resumes
\* from the last id it received.
Connect(cursor) ==
    /\ stream.at \in {"off", "done"}
    /\ connects < MaxConnects
    /\ connects' = connects + 1
    /\ stream' = [Off EXCEPT !.at = "poll", !.cursor = cursor]
    /\ received' = IF cursor = 0 THEN <<>> ELSE received
    /\ overtaken' = IF cursor = 0 THEN {} ELSE overtaken
    /\ UNCHANGED <<table, rows, run>>

\* The connection is lost, and what was not sent with it.
Disconnect ==
    /\ stream.at \in {"poll", "send"}
    /\ stream' = Off
    /\ UNCHANGED <<table, rows, run, received, overtaken, connects>>

\* Mutant: the row of the cursor is selected again.
FromCursor(cursor) == {r \in RowIds : rows[r].state = "seen" /\ rows[r].id >= cursor}

\* WHERE id > cursor
After(cursor) == {r \in RowIds : rows[r].state = "seen" /\ rows[r].id > cursor}

\* Mutant: the newest rows first.
NewestPage(cursor) ==
    {r \in After(cursor) : Cardinality({s \in After(cursor) : s > r}) < PageSize}

\* ORDER BY created_at LIMIT 100: the first rows by time, which is the order in
\* which Send takes them.
NextPage(cursor) ==
    {r \in After(cursor) : Cardinality({s \in After(cursor) : s < r}) < PageSize}

\* Mutant: no limit.
PollAll ==
    /\ stream.at = "poll"
    /\ stream' = [stream EXCEPT !.at = "send", !.page = After(stream.cursor)]
    /\ UNCHANGED <<table, rows, run, received, overtaken, connects>>

Poll ==
    LET page == NextPage(stream.cursor) IN
    /\ stream.at = "poll"
    /\ stream' = [stream EXCEPT !.at = "send", !.page = page]
    /\ overtaken' = overtaken \cup {r \in RowIds : rows[r].state = "open" /\
                                       \E s \in page : rows[s].id > rows[r].id}
    /\ UNCHANGED <<table, rows, run, received, connects>>

\* One frame is sent and the cursor follows it.
Send ==
    LET r == Min(stream.page) IN
    /\ stream.at = "send" /\ stream.page # {}
    /\ stream' = [stream EXCEPT !.page = @ \ {r}, !.cursor = rows[r].id]
    /\ received' = Append(received, r)
    /\ UNCHANGED <<table, rows, run, overtaken, connects>>

\* db.get queries the run's row once and from then on returns the object the
\* session holds, which nothing expires.
Known == IF stream.known = "unread" THEN run ELSE stream.known

\* Mutant: the status is read again after each page.
EndOfTelemetryPageReread ==
    /\ table = "telemetry" /\ stream.at = "send" /\ stream.page = {}
    /\ stream' = [stream EXCEPT !.at = IF run = "terminal" THEN "done" ELSE "poll",
                                !.known = Known]
    /\ UNCHANGED <<table, rows, run, received, overtaken, connects>>

\* After a page the telemetry stream looks at the run.  If it is in a terminal
\* status the stream says done and returns, and the client closes; otherwise
\* it sleeps and polls again.
EndOfTelemetryPage ==
    /\ table = "telemetry" /\ stream.at = "send" /\ stream.page = {}
    /\ stream' = [stream EXCEPT !.at = IF Known = "terminal" THEN "done" ELSE "poll",
                                !.known = Known]
    /\ UNCHANGED <<table, rows, run, received, overtaken, connects>>

\* The event stream sleeps and polls again, for ever.
EndOfEventPage ==
    /\ table = "events" /\ stream.at = "send" /\ stream.page = {}
    /\ stream' = [stream EXCEPT !.at = "poll"]
    /\ UNCHANGED <<table, rows, run, received, overtaken, connects>>

-----------------------------------------------------------------------------

StreamStep == Poll \/ Send \/ EndOfTelemetryPage \/ EndOfEventPage

Next ==
    \/ \E w \in Writers : Emit(w) \/ CommitTransaction(w) \/ RollbackTransaction(w)
    \/ RunEnds
    \/ \E cursor \in {0, LastSent} : Connect(cursor)
    \/ Disconnect
    \/ StreamStep

Spec == Init /\ [][Next]_vars

\* A stream that is connected keeps polling and sending.
FairSpec == Spec /\ WF_vars(StreamStep)

-----------------------------------------------------------------------------
(* Properties. *)

RowType    == [id : 1..MaxRows, writer : Writers, state : {"open", "seen", "undone"}]
StreamType == [at : {"off", "poll", "send", "done"}, cursor : 0..MaxRows,
               page : SUBSET RowIds, known : {"unread", "running", "terminal"}]

\* Every variable has its type; a page is within its limit.
TypeOK ==
    /\ table \in Tables /\ run \in {"running", "terminal"}
    /\ rows \in Seq(RowType)
    /\ stream \in StreamType
    /\ Cardinality(stream.page) <= PageSize
    /\ received \in Seq(RowIds) /\ overtaken \subseteq RowIds
    /\ connects \in 0..MaxConnects

\* The client has an earlier row with a greater id.
Disordered(r) == \E q \in Received : q < r /\ rows[r].id < rows[q].id

\* The client has a later row with a smaller id.
Overtook(r) == \E q \in Received : r < q /\ rows[q].id < rows[r].id

\* A stream, resumed however often, skips a committed row only if it committed
\* after a row with a greater id had been polled, or if its id is smaller than
\* that of an earlier row the client was sent: a full page and a lost
\* connection skip nothing.
SkippedOnlyIfOvertaken ==
    \A r \in RowIds : /\ rows[r].state = "seen" /\ r \notin Received
                      /\ received # <<>> /\ rows[r].id < LastSent
        => r \in overtaken \/ Disordered(r)

\* No row is sent twice along a chain of resumed connections, except the ones
\* a row with a smaller id but a later time moved the cursor behind.
SentTwiceOnlyIfDisordered ==
    \A i, k \in DOMAIN received : i < k /\ received[i] = received[k]
        => Overtook(received[k])

\* Every row that is committed is sent, as long as the client stays connected,
\* unless it was skipped for one of the two reasons, or the run had already
\* ended when the stream first looked at it.
EveryRowArrives ==
    \A r \in 1..MaxRows :
        (r \in RowIds /\ rows[r].state = "seen") ~>
            \/ r \in Received \/ r \in overtaken \/ (r \in RowIds /\ Disordered(r))
            \/ stream.at = "off" \/ stream.known = "terminal"

\* "Closes when the run reaches a terminal status."
ClosesWhenTerminal ==
    (stream.at = "poll" /\ run = "terminal") ~> (stream.at \in {"done", "off"})
=============================================================================
