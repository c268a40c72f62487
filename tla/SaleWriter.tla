------------------------------ MODULE SaleWriter ------------------------------
(***************************************************************************)
(* The task behind ultros_clickhouse::writer::Writer.  It moves rows from  *)
(* an unbounded channel to a buffer and inserts the buffer into the sales  *)
(* table of ClickHouse when it is full or a tick finds it non-empty.  When *)
(* its token is cancelled it drains the channel and flushes a last time.   *)
(* The process cancels the token right before main returns, which drops    *)
(* the runtime and whatever its tasks were doing (EndProcess).             *)
(*                                                                         *)
(* A flush asks for an insert, drains the buffer into it, and ends it:     *)
(* when the first step fails the buffer is as before, when a later one     *)
(* fails the buffer is empty and ClickHouse may hold some of the rows.     *)
(***************************************************************************)
EXTENDS Integers, Sequences, SequencesExt

CONSTANTS
    Rows,          (* rows that may be sent, each of them once               *)
    BatchSize      (* rows that make the buffer full                         *)

ASSUME WriterAssumption == BatchSize \in Nat \ {0}

VARIABLES
    state,         (* select, flush, last (the last flush), gone, or killed  *)
                   (* when the process ended before the task did             *)
    channel,       (* rows sent and not received yet                         *)
    buf,           (* rows received and not inserted yet                     *)
    cancelled,     (* the token is cancelled                                 *)
    dropped,       (* every handle of the Writer is dropped                  *)
    written,       (* rows in the sales table                                *)
    lost,          (* rows that will not get there any more                  *)
    (* History, read by properties only.                                     *)
    collected,     (* rows held when the task was first told to end          *)
    faulty         (* some flush failed                                      *)

writerVars == <<state, channel, buf, cancelled, dropped, written, lost, collected, faulty>>

Held == ToSet(channel) \cup ToSet(buf)

(* Writer::spawn, or Writer::disabled, whose receiver is dropped at once.   *)
Init ==
    /\ state \in {"select", "gone"}
    /\ channel = <<>> /\ buf = <<>>
    /\ cancelled = FALSE /\ dropped = FALSE
    /\ written = {} /\ lost = {}
    /\ collected = {} /\ faulty = FALSE

-----------------------------------------------------------------------------
(* What others do to the task.                                              *)

(* send never blocks and never fails: without a receiver the row is dropped.*)
Send(r) ==
    /\ ~dropped /\ state # "killed"
    /\ r \notin Held \cup written \cup lost
    /\ IF state = "gone"
       THEN lost' = lost \cup {r} /\ UNCHANGED channel
       ELSE channel' = Append(channel, r) /\ UNCHANGED lost
    /\ UNCHANGED <<state, buf, cancelled, dropped, written, collected, faulty>>

Cancel ==
    /\ ~cancelled /\ state # "killed"
    /\ cancelled' = TRUE
    /\ collected' = IF cancelled \/ dropped THEN collected ELSE Held
    /\ UNCHANGED <<state, channel, buf, dropped, written, lost, faulty>>

DropHandles ==
    /\ ~dropped /\ state # "killed"
    /\ dropped' = TRUE
    /\ collected' = IF cancelled \/ dropped THEN collected ELSE Held
    /\ UNCHANGED <<state, channel, buf, cancelled, written, lost, faulty>>

(* The process is gone before its task: it was stopped from outside, or     *)
(* main cancelled the token and returned, which waits for no task.          *)
EndProcess ==
    /\ state \notin {"gone", "killed"}
    /\ state' = "killed"
    /\ \E good \in (IF state \in {"flush", "last"} THEN SUBSET ToSet(buf) ELSE {{}}) :
          /\ written' = written \cup good
          /\ lost' = lost \cup (Held \ good)
    /\ channel' = <<>> /\ buf' = <<>>
    /\ UNCHANGED <<cancelled, dropped, collected, faulty>>

-----------------------------------------------------------------------------
(* The arms of the select.                                                  *)

(* A slip, the one the comment in the code warns of: without the drain the  *)
(* rows in the channel go down with the receiver.                           *)
UndrainedTurn ==
    /\ state = "select" /\ cancelled
    /\ state' = "last"
    /\ UNCHANGED <<channel, buf, cancelled, dropped, written, lost, collected, faulty>>

(* The token is looked at first.                                            *)
TurnToLastFlush ==
    /\ state = "select" /\ cancelled
    /\ buf' = buf \o channel
    /\ channel' = <<>>
    /\ state' = "last"
    /\ UNCHANGED <<cancelled, dropped, written, lost, collected, faulty>>

(* A slip: the flush comes a row late.                                      *)
ReceiveLate ==
    /\ state = "select" /\ ~cancelled /\ channel # <<>>
    /\ buf' = Append(buf, Head(channel))
    /\ channel' = Tail(channel)
    /\ state' = IF Len(buf') > BatchSize THEN "flush" ELSE "select"
    /\ UNCHANGED <<cancelled, dropped, written, lost, collected, faulty>>

Receive ==
    /\ state = "select" /\ ~cancelled /\ channel # <<>>
    /\ buf' = Append(buf, Head(channel))
    /\ channel' = Tail(channel)
    /\ state' = IF Len(buf') >= BatchSize THEN "flush" ELSE "select"
    /\ UNCHANGED <<cancelled, dropped, written, lost, collected, faulty>>

(* recv yields None: all handles are dropped and the channel is empty.      *)
Close ==
    /\ state = "select" /\ ~cancelled /\ dropped /\ channel = <<>>
    /\ state' = "last"
    /\ UNCHANGED <<channel, buf, cancelled, dropped, written, lost, collected, faulty>>

(* The select is biased: a tick counts when there is nothing to receive.    *)
Tick ==
    /\ state = "select" /\ ~cancelled /\ ~dropped /\ channel = <<>>
    /\ buf # <<>>
    /\ state' = "flush"
    /\ UNCHANGED <<channel, buf, cancelled, dropped, written, lost, collected, faulty>>

-----------------------------------------------------------------------------
(* The outcomes of a flush.  After the last one, or when there is nothing   *)
(* to flush, the task ends and takes channel and buffer along.              *)

(* A slip: the loop is not left after the last flush.                       *)
Unbroken(good) ==
    /\ written' = written \cup good
    /\ lost' = lost \cup (ToSet(buf) \ good)
    /\ buf' = <<>>
    /\ state' = "select"
    /\ UNCHANGED channel

(* A slip: the rows that were refused stay in the buffer.                   *)
KeptBatch(good) ==
    /\ written' = written \cup good
    /\ IF state = "last"
       THEN /\ state' = "gone"
            /\ lost' = lost \cup (ToSet(buf) \ good) \cup ToSet(channel)
            /\ channel' = <<>> /\ buf' = <<>>
       ELSE /\ state' = "select"
            /\ UNCHANGED <<channel, buf, lost>>

(* The buffer is drained; of its rows those of good get into the table.     *)
Batch(good) ==
    LET refused == ToSet(buf) \ good
    IN  /\ written' = written \cup good
        /\ buf' = <<>>
        /\ IF state = "last"
           THEN /\ state' = "gone"
                /\ lost' = lost \cup refused \cup ToSet(channel)
                /\ channel' = <<>>
           ELSE /\ state' = "select"
                /\ lost' = lost \cup refused
                /\ UNCHANGED channel

FlushDone ==
    /\ state \in {"flush", "last"}
    /\ Batch(ToSet(buf))
    /\ UNCHANGED <<cancelled, dropped, collected, faulty>>

(* write or end fails: the answer may have been lost after the insert.      *)
FlushFails ==
    /\ state \in {"flush", "last"} /\ buf # <<>>
    /\ \E good \in SUBSET ToSet(buf) : Batch(good)
    /\ faulty' = TRUE
    /\ UNCHANGED <<cancelled, dropped, collected>>

(* insert fails: the rows are still in the buffer, for the next flush.      *)
InsertFails ==
    /\ state \in {"flush", "last"} /\ buf # <<>>
    /\ IF state = "last"
       THEN Batch({})
       ELSE state' = "select" /\ UNCHANGED <<channel, buf, written, lost>>
    /\ faulty' = TRUE
    /\ UNCHANGED <<cancelled, dropped, collected>>

Task == TurnToLastFlush \/ Receive \/ Close \/ Tick \/ FlushDone \/ FlushFails \/ InsertFails

Next ==
    \/ \E r \in Rows : Send(r)
    \/ Cancel
    \/ DropHandles
    \/ EndProcess
    \/ Task

(* The task is scheduled, and ClickHouse answers, with an error if need be:  *)
(* the client sets no timeouts, so that much is assumed of the outside.     *)
Spec == Init /\ [][Next]_writerVars /\ WF_writerVars(Task)

-----------------------------------------------------------------------------

(* Types, and the size of the buffer.                                       *)
TypeOK ==
    /\ state \in {"select", "flush", "last", "gone", "killed"}
    /\ channel \in Seq(Rows) /\ buf \in Seq(Rows)
    /\ cancelled \in BOOLEAN /\ dropped \in BOOLEAN
    /\ written \subseteq Rows /\ lost \subseteq Rows /\ collected \subseteq Rows
    /\ faulty \in BOOLEAN
    (* As long as no flush failed the buffer never outgrows a batch, except *)
    (* when the channel is drained into it.                                 *)
    /\ ~faulty /\ state # "last" => Len(buf) <= BatchSize

(* The promise of RowSink, with the channel and the buffer as what is       *)
(* pending: in particular a row that may have been inserted by a flush that *)
(* failed is not inserted again, and none is both written and given up.     *)
Sink == INSTANCE RowSink WITH pending <- Held

SinkSpec == Sink!Spec

(* "On cancellation, drains any remaining buffered rows so we don't lose    *)
(* what we've collected": once the task has ended, the rows it held when    *)
(* it was told to end are in the table, unless a flush failed.              *)
DrainLosesNothing == state = "gone" /\ ~faulty => collected \subseteq written

(* "The task exits when token is cancelled (after a final flush) or when    *)
(* every Writer clone has been dropped", whatever the flushes come to.      *)
TaskEnds == cancelled \/ dropped ~> state \in {"gone", "killed"}

=============================================================================
