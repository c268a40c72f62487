-------------------------------- MODULE RowSink --------------------------------
(***************************************************************************)
(* What the Writer of ultros-clickhouse promises to those who send it sale *)
(* rows, without its channel, its buffer and its batches: a row it has     *)
(* taken is decided upon once, and is then either in the table or given    *)
(* up.  "We never want a ClickHouse hiccup to back-pressure the event      *)
(* bus": a row can be sent at any time.                                    *)
(***************************************************************************)
CONSTANT Rows

VARIABLES
    pending,    (* rows taken and not decided upon                           *)
    written,    (* rows in the table                                         *)
    lost        (* rows given up                                             *)

vars == <<pending, written, lost>>

Init == pending = {} /\ written = {} /\ lost = {}

New(r) == r \notin pending \cup written \cup lost

Take(r) ==
    /\ New(r)
    /\ pending' = pending \cup {r}
    /\ UNCHANGED <<written, lost>>

Refuse(r) ==
    /\ New(r)
    /\ lost' = lost \cup {r}
    /\ UNCHANGED <<pending, written>>

(* Some of the pending rows are decided upon: those of good get written.    *)
Decide(batch, good) ==
    /\ good \subseteq batch /\ batch \subseteq pending
    /\ pending' = pending \ batch
    /\ written' = written \cup good
    /\ lost' = lost \cup (batch \ good)

Next ==
    \/ \E r \in Rows : Take(r) \/ Refuse(r)
    \/ \E batch \in SUBSET pending : \E good \in SUBSET batch : Decide(batch, good)

Spec == Init /\ [][Next]_vars

=============================================================================
