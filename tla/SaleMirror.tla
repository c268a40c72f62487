------------------------------ MODULE SaleMirror ------------------------------
(***************************************************************************)
(* What becomes of the rows of sale_history (SaleIngest).  The history     *)
(* task of the analyzer hears of them on the history bus; it keeps the     *)
(* newest of them in memory and sends each to the Writer, which inserts it *)
(* into the sales table of ClickHouse (RowSink: SaleWriter implements it). *)
(* The backfill, a program of its own, copies the rows of Postgres to the  *)
(* same table, month by month.                                             *)
(*                                                                         *)
(* The process with the tasks, the bus, the analyzer and the Writer may    *)
(* end at any time and start again.  The analyzer then takes its sales     *)
(* from a snapshot it has written to analyzer-data, and asks Postgres for  *)
(* them only when it finds none that it can read.  The world's rows of one *)
(* item and quality are modelled.                                          *)
(***************************************************************************)
EXTENDS SaleIngest

CONSTANTS
    Capacity,      (* events the history bus holds for the analyzer (40)     *)
    HistorySize,   (* SALE_HISTORY_SIZE                                      *)
    MonthOf,       (* the month of a second                                  *)
    Months         (* bound: months that pass, 1 .. Months                   *)

ASSUME MirrorAssumption ==
    /\ Capacity \in Nat \ {0} /\ HistorySize \in Nat \ {0}
    /\ Months \in Nat \ {0}
    /\ \A n \in Sales : MonthOf[DateOf[n]] \in 1 .. Months
    /\ \A m, n \in Sales : m < n => MonthOf[DateOf[m]] <= MonthOf[DateOf[n]]

VARIABLES
    phase,         (* of the analyzer: off (not subscribed), query, load, live *)
    bus,           (* events the bus holds for it: sequences of rows         *)
    hand,          (* rows of the event in hand, still to be looked at       *)
    recent,        (* the rows of SaleHistory, newest first                  *)
    coming,        (* rows the query it loads has still to deliver           *)
    saved,         (* snapshots: their rows, and as history what they miss   *)
    pending, written, lost,  (* rows the Writer has taken, see RowSink       *)
    month,         (* the current month                                      *)
    job,           (* the backfill: idle, check, insert or mark              *)
    chunk,         (* the month it is at                                     *)
    until,         (* the month it ends with                                 *)
    read,          (* rows it has read from Postgres for the month           *)
    copied,        (* rows it has inserted                                   *)
    done,          (* months in _backfill_state                              *)
    (* History, read by properties only.                                     *)
    missed,        (* rows that did not get to the analyzer and will not     *)
    replayed,      (* a row was loaded and then announced as well            *)
    late           (* rows stored when the month's chunk had been read       *)

liveVars == <<phase, bus, hand, recent, coming>>
sinkVars == <<pending, written, lost>>
jobVars  == <<job, chunk, until, read, copied, done>>
vars     == <<ingestVars, liveVars, saved, sinkVars, month, jobVars, missed, replayed,
              late>>

Sink == INSTANCE RowSink WITH Rows <- 1 .. MaxRows

Init ==
    /\ IngestInit
    /\ phase = "off" /\ bus = <<>> /\ hand = <<>> /\ recent = <<>> /\ coming = {}
    /\ saved = {}
    /\ Sink!Init
    /\ month = 1
    /\ job = "idle" /\ chunk = 1 /\ until = 1 /\ read = {} /\ copied = {} /\ done = {}
    /\ missed = {} /\ replayed = FALSE /\ late = {}

-----------------------------------------------------------------------------
(* Time, and the tasks of SaleIngest.                                       *)

DateOfRow(r)  == DateOf[stored[r]]
MonthOfRow(r) == MonthOf[DateOfRow(r)]

(* Months whose chunk has been read from Postgres.                          *)
Read == done \cup (IF job \in {"insert", "mark"} THEN {chunk} ELSE {})

MonthTurns ==
    /\ month < Months
    /\ month' = month + 1
    /\ UNCHANGED <<ingestVars, liveVars, saved, sinkVars, jobVars, missed,
                   replayed, late>>

Ingest ==
    /\ IngestStep
    /\ happened' # happened => MonthOf[DateOf[happened']] = month
    /\ late' = late \cup {r \in DOMAIN stored' \ RowIds : MonthOf[DateOf[stored'[r]]] \in Read}
    /\ UNCHANGED <<liveVars, saved, sinkVars, month, jobVars, missed, replayed>>

(* A full bus drops its oldest event; before it has subscribed the analyzer *)
(* gets nothing.                                                            *)
Announce(t) ==
    /\ pc[t] = "tell"
    /\ IF phase = "off"
       THEN UNCHANGED <<bus, missed>>
       ELSE IF Len(bus) = Capacity
       THEN /\ missed' = missed \cup ToSet(Head(bus))
            /\ bus' = Append(Tail(bus), inserted[t])
       ELSE /\ bus' = Append(bus, inserted[t])
            /\ UNCHANGED missed
    /\ End(t)
    /\ UNCHANGED <<phase, hand, recent, coming, saved, sinkVars, month, jobVars,
                   replayed, late>>

-----------------------------------------------------------------------------
(* The analyzer's history.                                                  *)

Subscribe ==
    /\ phase = "off"
    /\ phase' = "query"
    /\ UNCHANGED <<ingestVars, bus, hand, recent, coming, saved, sinkVars, month,
                   jobVars, missed, replayed, late>>

(* A slip: the last row is not taken out for one that comes before it.      *)
KeptAll(rows, r) ==
    InsertAt(rows, Cardinality({i \in DOMAIN rows : DateOfRow(rows[i]) >= DateOfRow(r)}) + 1, r)

(* A slip: the new row is taken for the newest.                             *)
KeptFirst(rows, r) ==
    IF Len(rows) < HistorySize THEN <<r>> \o rows
    ELSE IF DateOfRow(Last(rows)) < DateOfRow(r) THEN <<r>> \o Front(rows)
    ELSE rows

(* add_sale: when there is no room left, the last row makes room for a row  *)
(* strictly newer; the sort is stable and the new row was put last.         *)
Kept(rows, r) ==
    LET full  == Len(rows) = HistorySize
        older == {i \in DOMAIN rows : DateOfRow(rows[i]) >= DateOfRow(r)}
        at    == Cardinality(older) + 1
    IN  IF ~full THEN InsertAt(rows, at, r)
        ELSE IF DateOfRow(Last(rows)) < DateOfRow(r) THEN InsertAt(Front(rows), at, r)
        ELSE rows

(* last_n_sales: for each row the rows newer than it are fewer than the     *)
(* size asked for, so of one second there can be more rows than that.       *)
Ranked ==
    {r \in RowIds :
        Cardinality({q \in RowIds : DateOfRow(q) > DateOfRow(r)}) < HistorySize}

(* The query sees the rows that are in the table when it starts.  What is   *)
(* announced from here on is heard; a row that is announced but was loaded  *)
(* already is heard of a second time.                                       *)
Query ==
    /\ phase = "query"
    /\ phase' = "load"
    /\ coming' = Ranked
    /\ missed' = {}
    /\ replayed' = (bus # <<>> \/ \E t \in Tasks : inserted[t] # <<>>)
    /\ UNCHANGED <<ingestVars, bus, hand, recent, saved, sinkVars, month, jobVars,
                   late>>

(* The rows come in any order.                                              *)
LoadRow(r) ==
    /\ phase = "load" /\ r \in coming
    /\ recent' = Kept(recent, r)
    /\ coming' = coming \ {r}
    /\ UNCHANGED <<ingestVars, phase, bus, hand, saved, sinkVars, month, jobVars,
                   missed, replayed, late>>

(* Rows the analyzer has not looked at and is going to.                     *)
ToBeHeard ==
    ToSet(hand) \cup UNION {ToSet(rows) : rows \in ToSet(bus) \cup Range(inserted)}

(* Rows it has taken notice of.                                             *)
Told == RowIds \ (missed \cup ToBeHeard)

(* The stream ends, after the last row or early with an error: then rows    *)
(* that had to be loaded are missed.                                        *)
LoadEnds ==
    /\ phase = "load"
    /\ phase' = "live"
    /\ missed' = IF coming = {} THEN missed ELSE RowIds \ (ToSet(recent) \cup ToBeHeard)
    /\ coming' = {}
    /\ UNCHANGED <<ingestVars, bus, hand, recent, saved, sinkVars, month, jobVars,
                   replayed, late>>

Hear ==
    /\ phase = "live" /\ hand = <<>> /\ bus # <<>>
    /\ hand' = Head(bus) /\ bus' = Tail(bus)
    /\ UNCHANGED <<ingestVars, phase, recent, coming, saved, sinkVars, month,
                   jobVars, missed, replayed, late>>

(* A slip: a row that is refused is kept, to be sent again.                 *)
LookAtRetry ==
    /\ hand # <<>>
    /\ recent' = Kept(recent, Head(hand))
    /\ \/ Sink!Take(Head(hand)) /\ hand' = Tail(hand)
       \/ Sink!Refuse(Head(hand)) /\ hand' = hand
    /\ UNCHANGED <<ingestVars, phase, bus, coming, saved, month, jobVars, missed,
                   replayed, late>>

(* One sale of the event: add_sale, and then ch_writer.send.                *)
LookAt ==
    /\ hand # <<>>
    /\ hand' = Tail(hand)
    /\ recent' = Kept(recent, Head(hand))
    /\ Sink!Take(Head(hand)) \/ Sink!Refuse(Head(hand))
    /\ UNCHANGED <<ingestVars, phase, bus, coming, saved, month, jobVars, missed,
                   replayed, late>>

WriterDecides ==
    /\ \E batch \in SUBSET pending : \E good \in SUBSET batch :
          batch # {} /\ Sink!Decide(batch, good)
    /\ UNCHANGED <<ingestVars, liveVars, saved, month, jobVars, missed, replayed,
                   late>>

(* serialize_state, every quarter of an hour and when the process is told   *)
(* to end.  Some of the older files are left; a file that cannot be written *)
(* or read is one that is not there.                                        *)
Save ==
    /\ phase = "live"
    /\ \E kept \in SUBSET saved :
          saved' = kept \cup {[recent |-> recent, told |-> Told, replayed |-> replayed]}
    /\ UNCHANGED <<ingestVars, liveVars, sinkVars, month, jobVars, missed,
                   replayed, late>>

(* try_restore_from_snapshot, where it finds a file: the database is not    *)
(* asked then, and what was stored since the snapshot is not made up for.   *)
Restore ==
    /\ phase = "query"
    /\ phase' = "live"
    /\ \E s \in saved :
          /\ recent' = s.recent /\ replayed' = s.replayed
          /\ missed' = RowIds \ (s.told \cup ToBeHeard)
    /\ UNCHANGED <<ingestVars, bus, hand, coming, saved, sinkVars, month, jobVars,
                   late>>

(* The process ends, and with it all that is in its memory.                 *)
EndProcess ==
    /\ IngestEnds
    /\ phase' = "off" /\ bus' = <<>> /\ hand' = <<>> /\ recent' = <<>> /\ coming' = {}
    /\ \E good \in SUBSET pending : Sink!Decide(pending, good)
    /\ missed' = {} /\ replayed' = FALSE
    /\ UNCHANGED <<saved, month, jobVars, late>>

-----------------------------------------------------------------------------
(* The backfill, for one world.                                             *)

JobStarts ==
    /\ job = "idle"
    /\ job' = "check" /\ chunk' = 1 /\ until' = month
    /\ UNCHANGED <<ingestVars, liveVars, saved, sinkVars, month, read, copied,
                   done, missed, replayed, late>>

NextChunk == IF chunk < until
             THEN job' = "check" /\ chunk' = chunk + 1
             ELSE job' = "idle" /\ chunk' = 1

ChunkSkipped ==
    /\ job = "check" /\ chunk \in done
    /\ NextChunk
    /\ UNCHANGED <<ingestVars, liveVars, saved, sinkVars, month, until, read,
                   copied, done, missed, replayed, late>>

(* A slip: the month is marked before its rows have been inserted.          *)
ChunkReadAndMarked ==
    /\ job = "check" /\ chunk \notin done
    /\ job' = "insert"
    /\ read' = {r \in RowIds : MonthOfRow(r) = chunk}
    /\ done' = done \cup {chunk}
    /\ UNCHANGED <<ingestVars, liveVars, saved, sinkVars, month, chunk, until,
                   copied, missed, replayed, late>>

(* The SELECT sees the rows that are in the table when it starts.           *)
ChunkRead ==
    /\ job = "check" /\ chunk \notin done
    /\ job' = "insert"
    /\ read' = {r \in RowIds : MonthOfRow(r) = chunk}
    /\ late' = late \ {r \in RowIds : MonthOfRow(r) = chunk}
    /\ UNCHANGED <<ingestVars, liveVars, saved, sinkVars, month, chunk, until,
                   copied, done, missed, replayed>>

ChunkInserted ==
    /\ job = "insert"
    /\ job' = "mark"
    /\ copied' = copied \cup read
    /\ read' = {}
    /\ UNCHANGED <<ingestVars, liveVars, saved, sinkVars, month, chunk, until,
                   done, missed, replayed, late>>

ChunkMarked ==
    /\ job = "mark"
    /\ done' = done \cup {chunk}
    /\ NextChunk
    /\ UNCHANGED <<ingestVars, liveVars, saved, sinkVars, month, until, read,
                   copied, missed, replayed, late>>

(* An error, or the end of the program, anywhere: rows that were on their   *)
(* way to ClickHouse may have been inserted.                                *)
JobFails ==
    /\ job # "idle"
    /\ job' = "idle" /\ chunk' = 1
    /\ \E good \in SUBSET read : copied' = copied \cup good
    /\ read' = {}
    /\ UNCHANGED <<ingestVars, liveVars, saved, sinkVars, month, until, done,
                   missed, replayed, late>>

Next ==
    \/ MonthTurns \/ Ingest
    \/ \E t \in Tasks : Announce(t)
    \/ Subscribe \/ Query \/ (\E r \in coming : LoadRow(r)) \/ LoadEnds
    \/ Hear \/ LookAt
    \/ WriterDecides
    \/ Save \/ Restore
    \/ EndProcess
    \/ JobStarts \/ ChunkSkipped \/ ChunkRead \/ ChunkInserted \/ ChunkMarked \/ JobFails

Spec == Init /\ [][Next]_vars

-----------------------------------------------------------------------------

(* Types: bus and history stay inside their sizes, and nothing downstream   *)
(* of sale_history (analyzer, Writer, ClickHouse, backfill) holds a row     *)
(* that is not there.                                                       *)
MirrorTypeOK ==
    /\ IngestTypeOK
    /\ phase \in {"off", "query", "load", "live"}
    /\ bus \in Seq(Seq(RowIds)) /\ Len(bus) <= Capacity
    /\ hand \in Seq(RowIds)
    /\ recent \in Seq(RowIds) /\ Len(recent) <= HistorySize
    /\ \A s \in saved : s.recent \in Seq(RowIds) /\ Len(s.recent) <= HistorySize
    /\ coming \cup pending \cup written \cup lost \subseteq RowIds
    /\ month \in 1 .. Months
    /\ job \in {"idle", "check", "insert", "mark"}
    /\ chunk \in 1 .. until /\ until \in 1 .. month
    /\ read \cup copied \subseteq RowIds /\ done \subseteq 1 .. month

Settled ==
    /\ phase = "live" /\ bus = <<>> /\ hand = <<>>
    /\ \A t \in Tasks : inserted[t] = <<>>

(* The sales the analyzer resells by are the newest of those it has been    *)
(* told of, whatever order rows were stored, loaded and announced in, once  *)
(* everything has been heard, unless a row was both loaded and heard of.    *)
(* It is not told of the rows of dropped events, of those a load that broke *)
(* off had not delivered, and of those that came between the snapshot it    *)
(* has restored and its new subscription; nothing brings these up later.    *)
RecentIsNewest ==
    Settled /\ ~replayed =>
        /\ ToSet(recent) \subseteq RowIds \ missed /\ IsInjective(recent)
        /\ Len(recent) = Min({HistorySize, Cardinality(RowIds \ missed)})
        /\ \A r \in RowIds \ (missed \cup ToSet(recent)) : \A i \in DOMAIN recent :
              DateOfRow(recent[i]) >= DateOfRow(r)
        /\ \A i, j \in DOMAIN recent :
              i < j => DateOfRow(recent[i]) >= DateOfRow(recent[j])

(* The analyzer sends the Writer no row it has sent before, also when the   *)
(* rows it loads are announced once more or the process has been restarted: *)
(* that a row can be sent once only (LookAt) does not hold the analyzer up. *)
NoRowSentTwice == hand # <<>> => Sink!New(Head(hand))

(* A month marked as done in _backfill_state has been copied whole, however *)
(* often the backfill failed on it, except for rows stored after it was     *)
(* read; those no later run of the backfill will copy.                      *)
DoneMonthIsWhole ==
    \A r \in RowIds : MonthOfRow(r) \in done => r \in copied \cup late

(* The key of a row in the sales table, where the backfill has the row's id *)
(* and the analyzer's message the id 0 that update_sales gave it.           *)
Keys == {<<DateOfRow(r), 0>> : r \in written} \cup {<<DateOfRow(r), r>> : r \in copied}

(* "Carries the Postgres sale_history.id so each PG row maps to a distinct  *)
(* CH row", and "dual-writes overlapping the backfill window are safe too". *)
OneRowPerSale == Cardinality(Keys) = Cardinality(written \cup copied)

=============================================================================
