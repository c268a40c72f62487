----------------------------- MODULE ListingStore -----------------------------
(***************************************************************************)
(* The rows active_listing holds for one item on one world, and the tasks  *)
(* that change them.  run_socket_listener spawns a task for every message  *)
(* it receives and UpdateService sweeps items next to it, so several tasks *)
(* may work on the same rows; none of them runs in a transaction.  A task  *)
(*   - reads the rows and computes what has to be inserted and deleted,    *)
(*   - runs the inserts and the delete, in any order,                      *)
(*   - stamps the item as updated, and                                     *)
(*   - announces what it did on the listings bus.                          *)
(* Any of its statements may fail (Faults).                                *)
(*                                                                         *)
(* A listing is abstracted to its key, the fields listings are compared    *)
(* by.  A row is never updated in place, so the key of a row is a function *)
(* of its id, KeyOf; the serial column is free to yield any id of the key  *)
(* to be inserted that nobody refers to any more.                          *)
(***************************************************************************)
EXTENDS Integers, Sequences, FiniteSets

CONSTANTS
    Tasks,             (* handlers that can be in flight at once             *)
    Keys,              (* distinguishable listings                           *)
    Ids,               (* row ids                                            *)
    KeyOf,             (* the key of the row with an id                      *)
    Boards,            (* full boards a message or a sweep may bring         *)
    Listed,            (* lists of a listings/remove message                 *)
    Faults,            (* statements that may fail, a subset of Statements   *)
    Diff(_, _),        (* what update_listings computes, see ListingOrders   *)
    Removals(_, _)     (* the sets of rows remove_listings may match         *)

Statements == {"read", "insert", "delete", "stamp"}

Copies(key, S) == Cardinality({r \in S : KeyOf[r] = key})

Occurrences(key, seq) == Cardinality({n \in DOMAIN seq : seq[n] = key})

(* Ids are those of a serial column, so finitely many.  Applied to the rows *)
(* it was computed from, a diff gives the board: MergeDiff shows that the   *)
(* loop of update_listings computes such a one (PatchesToIncoming).         *)
ASSUME StoreAssumption ==
    /\ IsFiniteSet(Ids)
    /\ Boards \subseteq Seq(Keys)
    /\ Listed \subseteq Seq(Keys)
    /\ Faults \subseteq Statements
    /\ KeyOf \in [Ids -> Keys]
    /\ \A b \in Boards, S \in SUBSET Ids :
          /\ Diff(b, S).added \in Seq(Keys)
          /\ Diff(b, S).removed \subseteq S
          /\ \A k \in Keys :
                Copies(k, S \ Diff(b, S).removed) + Occurrences(k, Diff(b, S).added)
                    = Occurrences(k, b)
    /\ \A l \in Listed, S \in SUBSET Ids : Removals(l, S) \subseteq SUBSET S

VARIABLES
    rows,           (* ids in active_listing                                 *)
    view,           (* ids a consumer holds that replays the bus in order    *)
    pc,             (* per task: idle, read, write, tell or tellLast         *)
    kind,           (* per task: socket, sweep or remove                     *)
    board,          (* per task: the listings it was given                   *)
    added,          (* per task: listings to insert                          *)
    toInsert,       (* per task: positions of added not inserted yet         *)
    inserted,       (* per task: ids of the rows it inserted                 *)
    toDelete,       (* per task: ids of rows it still has to delete          *)
    removed,        (* per task: ids it will report as removed               *)
    (* History, read by properties only.                                     *)
    misreported,    (* live rows of which a failed statement let a task say
                       nothing, or say that they are gone                    *)
    undisturbed,    (* per task: no other task wrote since it read           *)
    faulty,         (* per task: one of its statements failed                *)
    overlapped,     (* two tasks were in flight together                     *)
    faulted         (* some statement failed                                 *)

taskVars == <<pc, kind, board, added, toInsert, inserted, toDelete, removed>>
history  == <<misreported, undisturbed, faulty, overlapped, faulted>>
vars     == <<rows, view, taskVars, history>>

Kinds == {"socket", "sweep", "remove"}

-----------------------------------------------------------------------------

Init ==
    /\ rows = {} /\ view = {}
    /\ pc = [t \in Tasks |-> "idle"]
    /\ kind = [t \in Tasks |-> "socket"]
    /\ board = [t \in Tasks |-> <<>>]
    /\ added = [t \in Tasks |-> <<>>]
    /\ toInsert = [t \in Tasks |-> {}]
    /\ inserted = [t \in Tasks |-> {}]
    /\ toDelete = [t \in Tasks |-> {}]
    /\ removed = [t \in Tasks |-> {}]
    /\ misreported = {}
    /\ undisturbed = [t \in Tasks |-> FALSE]
    /\ faulty = [t \in Tasks |-> FALSE]
    /\ overlapped = FALSE
    /\ faulted = FALSE

(* Nobody refers to such an id, so the serial column may as well yield it.  *)
Fresh(id) ==
    /\ id \notin rows \cup view
    /\ \A t \in Tasks : id \notin inserted[t] \cup toDelete[t] \cup removed[t]

(* Bound of the model, not of the code: a board is received only while     *)
(* there are ids left for all inserts of the boards in flight.              *)
RoomFor(b) ==
    \A k \in Keys :
        Cardinality({id \in Ids : KeyOf[id] = k /\ Fresh(id)}) >=
            Occurrences(k, b)
                + Cardinality(UNION {{<<t, n>> : n \in {m \in DOMAIN board[t] : board[t][m] = k}} :
                                        t \in {u \in Tasks : pc[u] # "idle" /\ kind[u] # "remove"}})

(* The task ends; what it knew is dropped with it.                          *)
End(t) ==
    /\ pc' = [pc EXCEPT ![t] = "idle"]
    /\ board' = [board EXCEPT ![t] = <<>>]
    /\ added' = [added EXCEPT ![t] = <<>>]
    /\ toInsert' = [toInsert EXCEPT ![t] = {}]
    /\ inserted' = [inserted EXCEPT ![t] = {}]
    /\ toDelete' = [toDelete EXCEPT ![t] = {}]
    /\ removed' = [removed EXCEPT ![t] = {}]
    /\ kind' = [kind EXCEPT ![t] = "socket"]
    /\ undisturbed' = [undisturbed EXCEPT ![t] = FALSE]
    /\ faulty' = [faulty EXCEPT ![t] = FALSE]

Disturb(t) == undisturbed' = [u \in Tasks |-> undisturbed[u] /\ u = t]

Fault(t) ==
    /\ faulty' = [faulty EXCEPT ![t] = TRUE]
    /\ faulted' = TRUE

(* The task fails: run_socket_listener and check_items log and go on.       *)
Abandon(t) == End(t) /\ faulted' = TRUE

-----------------------------------------------------------------------------

(* A task starts with a board (socket message, sweep) or with a list of     *)
(* listings that went away.                                                 *)
Receive(t, k, b) ==
    /\ pc[t] = "idle"
    /\ IF k = "remove" THEN b \in Listed ELSE b \in Boards /\ RoomFor(b)
    /\ pc' = [pc EXCEPT ![t] = "read"]
    /\ kind' = [kind EXCEPT ![t] = k]
    /\ board' = [board EXCEPT ![t] = b]
    /\ overlapped' = (overlapped \/ \E u \in Tasks \ {t} : pc[u] # "idle")
    /\ UNCHANGED <<rows, view, added, toInsert, inserted, toDelete, removed,
                   misreported, undisturbed, faulty, faulted>>

(* update_listings has resolved the retainers and reads the existing rows.  *)
ReadBoard(t) ==
    /\ pc[t] = "read" /\ kind[t] # "remove"
    /\ LET d == Diff(board[t], rows)
       IN  /\ added' = [added EXCEPT ![t] = d.added]
           /\ toInsert' = [toInsert EXCEPT ![t] = DOMAIN d.added]
           /\ toDelete' = [toDelete EXCEPT ![t] = d.removed]
           /\ removed' = [removed EXCEPT ![t] = d.removed]
    /\ undisturbed' = [undisturbed EXCEPT ![t] = TRUE]
    /\ pc' = [pc EXCEPT ![t] = "write"]
    /\ UNCHANGED <<rows, view, kind, board, inserted, misreported,
                   faulty, overlapped, faulted>>

(* remove_listings reads the existing rows and keeps those that match.      *)
ReadListed(t) ==
    /\ pc[t] = "read" /\ kind[t] = "remove"
    /\ \E S \in Removals(board[t], rows) :
          toDelete' = [toDelete EXCEPT ![t] = S]
    /\ undisturbed' = [undisturbed EXCEPT ![t] = TRUE]
    /\ pc' = [pc EXCEPT ![t] = "write"]
    /\ UNCHANGED <<rows, view, kind, board, added, toInsert, inserted, removed,
                   misreported, faulty, overlapped, faulted>>

ReadFails(t) ==
    /\ "read" \in Faults
    /\ pc[t] = "read"
    /\ Abandon(t)
    /\ UNCHANGED <<rows, view, misreported, overlapped>>

-----------------------------------------------------------------------------
(* The writes of update_listings: one insert per new listing and one delete *)
(* for all rows that are gone, joined, so in any order.                     *)

(* A slip: the row is written but not collected into the result.            *)
InsertUncollected(t, n, id) ==
    /\ pc[t] = "write" /\ n \in toInsert[t]
    /\ Fresh(id) /\ KeyOf[id] = added[t][n]
    /\ rows' = rows \cup {id}
    /\ toInsert' = [toInsert EXCEPT ![t] = @ \ {n}]
    /\ Disturb(t)
    /\ UNCHANGED <<view, pc, kind, board, added, inserted, toDelete, removed,
                   misreported, faulty, overlapped, faulted>>

Insert(t, n, id) ==
    /\ pc[t] = "write" /\ n \in toInsert[t]
    /\ Fresh(id) /\ KeyOf[id] = added[t][n]
    /\ rows' = rows \cup {id}
    /\ toInsert' = [toInsert EXCEPT ![t] = @ \ {n}]
    /\ inserted' = [inserted EXCEPT ![t] = @ \cup {id}]
    /\ Disturb(t)
    /\ UNCHANGED <<view, pc, kind, board, added, toDelete, removed,
                   misreported, faulty, overlapped, faulted>>

(* A failed insert is dropped from the result by .ok().                     *)
InsertFails(t, n) ==
    /\ "insert" \in Faults
    /\ pc[t] = "write" /\ n \in toInsert[t]
    /\ toInsert' = [toInsert EXCEPT ![t] = @ \ {n}]
    /\ Fault(t)
    /\ UNCHANGED <<rows, view, pc, kind, board, added, inserted, toDelete,
                   removed, misreported, undisturbed, overlapped>>

(* A slip: the statement deletes a single row.                              *)
DeleteOneOnly(t) ==
    /\ pc[t] = "write" /\ kind[t] # "remove" /\ toDelete[t] # {}
    /\ rows' = rows \ {CHOOSE id \in toDelete[t] : TRUE}
    /\ misreported' = misreported \cap rows'
    /\ toDelete' = [toDelete EXCEPT ![t] = {}]
    /\ Disturb(t)
    /\ UNCHANGED <<view, pc, kind, board, added, toInsert, inserted, removed,
                   faulty, overlapped, faulted>>

DeleteMany(t) ==
    /\ pc[t] = "write" /\ kind[t] # "remove" /\ toDelete[t] # {}
    /\ rows' = rows \ toDelete[t]
    /\ misreported' = misreported \ toDelete[t]
    /\ toDelete' = [toDelete EXCEPT ![t] = {}]
    /\ Disturb(t)
    /\ UNCHANGED <<view, pc, kind, board, added, toInsert, inserted, removed,
                   faulty, overlapped, faulted>>

(* Its error is bound to _removed_result and forgotten: the rows stay and   *)
(* will be announced as removed all the same.                               *)
DeleteManyFails(t) ==
    /\ "delete" \in Faults
    /\ pc[t] = "write" /\ kind[t] # "remove" /\ toDelete[t] # {}
    /\ misreported' = misreported \cup (toDelete[t] \cap rows)
    /\ toDelete' = [toDelete EXCEPT ![t] = {}]
    /\ Fault(t)
    /\ UNCHANGED <<rows, view, pc, kind, board, added, toInsert, inserted,
                   removed, undisturbed, overlapped>>

(* set_last_updated, then the task has its result.  The socket task tells   *)
(* removals first, the sweep tells additions first.                         *)
Stamp(t) ==
    /\ pc[t] = "write" /\ kind[t] # "remove"
    /\ toInsert[t] = {} /\ toDelete[t] = {}
    /\ pc' = [pc EXCEPT ![t] = "tell"]
    /\ UNCHANGED <<rows, view, kind, board, added, toInsert, inserted, toDelete,
                   removed, history>>

(* Its error makes update_listings fail after its writes took effect: they  *)
(* are announced to nobody.                                                 *)
StampFails(t) ==
    /\ "stamp" \in Faults
    /\ pc[t] = "write" /\ kind[t] # "remove"
    /\ toInsert[t] = {} /\ toDelete[t] = {}
    /\ misreported' = misreported \cup (inserted[t] \cap rows)
    /\ Abandon(t)
    /\ UNCHANGED <<rows, view, overlapped>>

-----------------------------------------------------------------------------
(* The writes of remove_listings: try_join_all over one delete per row.     *)

DeleteRow(t, id) ==
    /\ pc[t] = "write" /\ kind[t] = "remove" /\ id \in toDelete[t]
    /\ rows' = rows \ {id}
    /\ misreported' = misreported \ {id}
    /\ toDelete' = [toDelete EXCEPT ![t] = @ \ {id}]
    /\ removed' = [removed EXCEPT ![t] = @ \cup {id}]
    /\ Disturb(t)
    /\ UNCHANGED <<view, pc, kind, board, added, toInsert, inserted,
                   faulty, overlapped, faulted>>

(* The first error abandons the rest, and what was deleted is not told.     *)
DeleteRowFails(t) ==
    /\ "delete" \in Faults
    /\ pc[t] = "write" /\ kind[t] = "remove" /\ toDelete[t] # {}
    /\ Abandon(t)
    /\ UNCHANGED <<rows, view, misreported, overlapped>>

(* The retainers of the deleted rows are looked up for the event.           *)
FinishRemoval(t) ==
    /\ pc[t] = "write" /\ kind[t] = "remove" /\ toDelete[t] = {}
    /\ pc' = [pc EXCEPT ![t] = "tellLast"]
    /\ UNCHANGED <<rows, view, kind, board, added, toInsert, inserted, toDelete,
                   removed, history>>

FinishRemovalFails(t) ==
    /\ "read" \in Faults
    /\ pc[t] = "write" /\ kind[t] = "remove" /\ toDelete[t] = {}
    /\ Abandon(t)
    /\ UNCHANGED <<rows, view, misreported, overlapped>>

-----------------------------------------------------------------------------

(* The event the task sends next is its Add; a socket task and a sweep send *)
(* their two events in opposite orders, a removal sends only one.           *)
TellsAdd(t) == <<kind[t], pc[t]>> \in {<<"sweep", "tell">>, <<"socket", "tellLast">>}

(* A slip: the removals are announced from the rows still to be deleted.    *)
ReplayStale(t) ==
    view' = IF TellsAdd(t) THEN view \cup inserted[t] ELSE view \ toDelete[t]

(* The bus is in order, so a consumer that keeps up applies the event at    *)
(* this point of its replay.                                                *)
Replay(t) ==
    view' = IF TellsAdd(t) THEN view \cup inserted[t] ELSE view \ removed[t]

(* A slip: the task stays in flight after its last event.                   *)
TellOn(t) ==
    /\ pc[t] = "tell"
    /\ Replay(t)
    /\ pc' = [pc EXCEPT ![t] = "told"]
    /\ UNCHANGED <<rows, kind, board, added, toInsert, inserted, toDelete, removed, history>>

(* One send on the bus.                                                     *)
Tell(t) ==
    /\ pc[t] = "tell"
    /\ Replay(t)
    /\ pc' = [pc EXCEPT ![t] = "tellLast"]
    /\ UNCHANGED <<rows, kind, board, added, toInsert, inserted, toDelete, removed, history>>

TellLast(t) ==
    /\ pc[t] = "tellLast"
    /\ Replay(t)
    /\ End(t)
    /\ UNCHANGED <<rows, misreported, overlapped, faulted>>

Next ==
    \E t \in Tasks :
        \/ \E k \in Kinds, b \in Boards \cup Listed : Receive(t, k, b)
        \/ ReadBoard(t)
        \/ ReadListed(t)
        \/ ReadFails(t)
        \/ \E n \in toInsert[t], id \in Ids : Insert(t, n, id)
        \/ \E n \in toInsert[t] : InsertFails(t, n)
        \/ DeleteMany(t)
        \/ DeleteManyFails(t)
        \/ Stamp(t)
        \/ StampFails(t)
        \/ \E id \in toDelete[t] : DeleteRow(t, id)
        \/ DeleteRowFails(t)
        \/ FinishRemoval(t)
        \/ FinishRemovalFails(t)
        \/ Tell(t)
        \/ TellLast(t)

Spec == Init /\ [][Next]_vars

-----------------------------------------------------------------------------

(* Types: a task that is about to read holds what its kind of report gave   *)
(* it, and later ids of rows and positions of its list of additions.        *)
TypeOK ==
    /\ rows \subseteq Ids /\ view \subseteq Ids /\ misreported \subseteq Ids
    /\ pc \in [Tasks -> {"idle", "read", "write", "tell", "tellLast"}]
    /\ kind \in [Tasks -> Kinds]
    /\ board \in [Tasks -> Boards \cup Listed \cup {<<>>}]
    /\ \A t \in Tasks : pc[t] = "read" /\ kind[t] = "remove" => board[t] \in Listed
    /\ \A t \in Tasks : pc[t] = "read" /\ kind[t] # "remove" => board[t] \in Boards
    /\ added \in [Tasks -> Seq(Keys)]
    /\ toInsert \in [Tasks -> SUBSET Nat]
    /\ \A t \in Tasks : toInsert[t] \subseteq DOMAIN added[t]
    /\ inserted \in [Tasks -> SUBSET Ids]
    /\ toDelete \in [Tasks -> SUBSET Ids]
    /\ removed \in [Tasks -> SUBSET Ids]
    /\ undisturbed \in [Tasks -> BOOLEAN] /\ faulty \in [Tasks -> BOOLEAN]
    /\ overlapped \in BOOLEAN /\ faulted \in BOOLEAN

Quiet == \A t \in Tasks : pc[t] = "idle"

(* The task has inserted the row and its Add event is still to come.        *)
Owes(t, id) ==
    /\ id \in inserted[t]
    /\ \/ pc[t] \in {"write", "tell"}
       \/ pc[t] = "tellLast" /\ TellsAdd(t)

(* However the tasks interleave, a consumer of the bus is never left        *)
(* without a row that is in the database: it was told of it, or the task    *)
(* that inserted it still owes the event, or a statement failed.  (It may   *)
(* keep rows that are gone: one task can announce the removal of a row      *)
(* before the task that inserted it announces the row.)                     *)
NoLiveRowUnknown ==
    \A id \in rows :
        id \in view \/ id \in misreported \/ \E t \in Tasks : Owes(t, id)

(* The contract of update_listings, "assuming a pure view of the listing    *)
(* board": an update during which no other task wrote, and none of whose    *)
(* statements failed, leaves exactly the board it was given, whatever       *)
(* duplicates and leftovers earlier overlaps and failures had left.         *)
LoneUpdateInstallsBoard ==
    \A t \in Tasks :
        pc[t] = "tell" /\ undisturbed[t] /\ ~faulty[t] =>
            \A k \in Keys : Copies(k, rows) = Occurrences(k, board[t])

(* As long as tasks do not overlap and nothing fails, a consumer of the bus *)
(* holds exactly the rows of the database whenever no task is in flight.    *)
SerialReplayIsExact ==
    Quiet /\ ~overlapped /\ ~faulted => view = rows

=============================================================================
