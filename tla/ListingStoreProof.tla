--------------------------- MODULE ListingStoreProof ---------------------------
(* Proofs about ListingStore for any number of tasks, rows and boards, and  *)
(* any set of statements that may fail.                                     *)
EXTENDS ListingStore, FiniteSetTheorems, TLAPS

(* The steps of a task, grouped by what they do to its variables.           *)
Step(t) ==
    \/ \E k \in Kinds, b \in Boards \cup Listed : Receive(t, k, b)
    \/ ReadBoard(t)
    \/ ReadListed(t)
    \/ ReadFails(t)
    \/ \E n \in toInsert[t], id \in Ids : Insert(t, n, id)
    \/ \E n \in toInsert[t] : InsertFails(t, n)
    \/ DeleteMany(t)
    \/ DeleteManyFails(t)
    \/ Stamp(t)
    \/ StampFails(t)
    \/ \E id \in toDelete[t] : DeleteRow(t, id)
    \/ DeleteRowFails(t)
    \/ FinishRemoval(t)
    \/ FinishRemovalFails(t)
    \/ Tell(t)
    \/ TellLast(t)

(* The next-state relation is a step of one task.                           *)
LEMMA NextIsStep == Next <=> \E t \in Tasks : Step(t)
BY DEF Next, Step

(* What an ending task leaves behind has the right type.                    *)
LEMMA EndKeepsTypes ==
    ASSUME TypeOK, NEW t \in Tasks, End(t)
    PROVE  /\ pc' \in [Tasks -> {"idle", "read", "write", "tell", "tellLast"}]
           /\ kind' \in [Tasks -> Kinds]
           /\ board' \in [Tasks -> Boards \cup Listed \cup {<<>>}]
           /\ \A u \in Tasks :
                 pc'[u] = "read" /\ kind'[u] = "remove" => board'[u] \in Listed
           /\ \A u \in Tasks :
                 pc'[u] = "read" /\ kind'[u] # "remove" => board'[u] \in Boards
           /\ added' \in [Tasks -> Seq(Keys)]
           /\ toInsert' \in [Tasks -> SUBSET Nat]
           /\ \A u \in Tasks : toInsert'[u] \subseteq DOMAIN added'[u]
           /\ inserted' \in [Tasks -> SUBSET Ids]
           /\ toDelete' \in [Tasks -> SUBSET Ids]
           /\ removed' \in [Tasks -> SUBSET Ids]
           /\ undisturbed' \in [Tasks -> BOOLEAN]
           /\ faulty' \in [Tasks -> BOOLEAN]
BY DEF TypeOK, End, Kinds

(* Before any task has started the types are right.                         *)
LEMMA InitTyped == Init => TypeOK
<1> SUFFICES ASSUME Init PROVE TypeOK
  OBVIOUS
<1>1. /\ pc \in [Tasks -> {"idle", "read", "write", "tell", "tellLast"}]
      /\ kind \in [Tasks -> Kinds]
      /\ board \in [Tasks -> Boards \cup Listed \cup {<<>>}]
      /\ \A t \in Tasks : pc[t] = "idle"
  BY DEF Init, Kinds
<1>2. /\ added \in [Tasks -> Seq(Keys)]
      /\ toInsert \in [Tasks -> SUBSET Nat]
      /\ \A t \in Tasks : toInsert[t] \subseteq DOMAIN added[t]
  BY DEF Init
<1>3. /\ inserted \in [Tasks -> SUBSET Ids]
      /\ toDelete \in [Tasks -> SUBSET Ids]
      /\ removed \in [Tasks -> SUBSET Ids]
  BY DEF Init
<1>4. /\ undisturbed \in [Tasks -> BOOLEAN] /\ faulty \in [Tasks -> BOOLEAN]
      /\ overlapped \in BOOLEAN /\ faulted \in BOOLEAN
      /\ rows \subseteq Ids /\ view \subseteq Ids /\ misreported \subseteq Ids
  BY DEF Init
<1> QED
  BY <1>1, <1>2, <1>3, <1>4, Zenon DEF TypeOK

(* Every step of a task keeps the types right.                              *)
LEMMA StepTyped == TypeOK /\ [Next]_vars => TypeOK'
<1> SUFFICES ASSUME TypeOK, [Next]_vars PROVE TypeOK'
  OBVIOUS
<1>1. ASSUME NEW t \in Tasks, Step(t) PROVE TypeOK'
  <2> USE <1>1
  <2>1. ASSUME NEW k \in Kinds, NEW b \in Boards \cup Listed, Receive(t, k, b)
        PROVE  TypeOK'
    BY <2>1 DEF TypeOK, Receive
  <2>2. CASE ReadBoard(t)
    <3>0. board[t] \in Boards /\ rows \in SUBSET Ids
      BY <2>2 DEF TypeOK, ReadBoard
    <3>1. /\ Diff(board[t], rows).added \in Seq(Keys)
          /\ Diff(board[t], rows).removed \subseteq rows
      BY <3>0, StoreAssumption
    <3>2. /\ added' \in [Tasks -> Seq(Keys)]
          /\ toInsert' \in [Tasks -> SUBSET Nat]
          /\ \A u \in Tasks : toInsert'[u] \subseteq DOMAIN added'[u]
      BY <2>2, <3>1 DEF TypeOK, ReadBoard
    <3>3. /\ toDelete' \in [Tasks -> SUBSET Ids]
          /\ removed' \in [Tasks -> SUBSET Ids]
          /\ undisturbed' \in [Tasks -> BOOLEAN]
      BY <2>2, <3>1 DEF TypeOK, ReadBoard
    <3>4. /\ pc' \in [Tasks -> {"idle", "read", "write", "tell", "tellLast"}]
          /\ \A u \in Tasks : pc'[u] = "read" /\ kind'[u] = "remove" => board'[u] \in Listed
          /\ \A u \in Tasks : pc'[u] = "read" /\ kind'[u] # "remove" => board'[u] \in Boards
      BY <2>2 DEF TypeOK, ReadBoard
    <3>5. UNCHANGED <<rows, view, kind, board, inserted, misreported,
                      faulty, overlapped, faulted>>
      BY <2>2 DEF ReadBoard
    <3> QED
      BY <3>2, <3>3, <3>4, <3>5 DEF TypeOK
  <2>3. CASE ReadListed(t)
    <3>a. board[t] \in Listed /\ rows \in SUBSET Ids
      BY <2>3 DEF TypeOK, ReadListed
    <3>b. \A S \in Removals(board[t], rows) : S \subseteq rows
      BY <3>a, StoreAssumption
    <3>c. PICK S \in Removals(board[t], rows) : toDelete' = [toDelete EXCEPT ![t] = S]
      BY <2>3 DEF ReadListed
    <3>d. S \in SUBSET Ids
      BY <3>a, <3>b
    <3>1. /\ toDelete' \in [Tasks -> SUBSET Ids]
          /\ undisturbed' \in [Tasks -> BOOLEAN]
      BY <2>3, <3>c, <3>d DEF TypeOK, ReadListed
    <3>2. /\ pc' \in [Tasks -> {"idle", "read", "write", "tell", "tellLast"}]
          /\ \A u \in Tasks : pc'[u] = "read" /\ kind'[u] = "remove" => board'[u] \in Listed
          /\ \A u \in Tasks : pc'[u] = "read" /\ kind'[u] # "remove" => board'[u] \in Boards
      BY <2>3 DEF TypeOK, ReadListed
    <3>3. UNCHANGED <<rows, view, kind, board, added, toInsert, inserted, removed,
                      misreported, faulty, overlapped, faulted>>
      BY <2>3 DEF ReadListed
    <3> QED
      BY <3>1, <3>2, <3>3 DEF TypeOK
  <2>4. CASE ReadFails(t)
    BY <2>4, EndKeepsTypes DEF TypeOK, ReadFails, Abandon
  <2>5. ASSUME NEW n \in toInsert[t], NEW id \in Ids, Insert(t, n, id) PROVE TypeOK'
    BY <2>5 DEF TypeOK, Insert, Disturb
  <2>6. ASSUME NEW n \in toInsert[t], InsertFails(t, n) PROVE TypeOK'
    BY <2>6 DEF TypeOK, InsertFails, Fault
  <2>7. CASE DeleteMany(t)
    BY <2>7 DEF TypeOK, DeleteMany, Disturb
  <2>8. CASE DeleteManyFails(t)
    BY <2>8 DEF TypeOK, DeleteManyFails, Fault
  <2>9. CASE Stamp(t)
    BY <2>9 DEF TypeOK, Stamp, history
  <2>10. CASE StampFails(t)
    BY <2>10, EndKeepsTypes DEF TypeOK, StampFails, Abandon
  <2>11. ASSUME NEW id \in toDelete[t], DeleteRow(t, id) PROVE TypeOK'
    BY <2>11 DEF TypeOK, DeleteRow, Disturb
  <2>12. CASE DeleteRowFails(t)
    BY <2>12, EndKeepsTypes DEF TypeOK, DeleteRowFails, Abandon
  <2>13. CASE FinishRemoval(t)
    BY <2>13 DEF TypeOK, FinishRemoval, history
  <2>14. CASE FinishRemovalFails(t)
    BY <2>14, EndKeepsTypes DEF TypeOK, FinishRemovalFails, Abandon
  <2>15. CASE Tell(t)
    BY <2>15 DEF TypeOK, Tell, Replay, history
  <2>16. CASE TellLast(t)
    <3>1. view' \subseteq Ids
      BY <2>16 DEF TypeOK, TellLast, Replay
    <3> QED
      BY <2>16, <3>1, EndKeepsTypes DEF TypeOK, TellLast
  <2> QED
    BY <2>1, <2>2, <2>3, <2>4, <2>5, <2>6, <2>7, <2>8, <2>9, <2>10, <2>11, <2>12,
       <2>13, <2>14, <2>15, <2>16 DEF Step
<1>2. CASE UNCHANGED vars
  BY <1>2 DEF TypeOK, vars, taskVars, history
<1> QED
  BY <1>1, <1>2, NextIsStep

(* Type correctness: every task keeps ids, listings and positions where the *)
(* code keeps them, whatever tasks overlap and whatever statements fail.    *)
THEOREM StoreTypeCorrect == Spec => []TypeOK
  BY InitTyped, StepTyped, PTL DEF Spec

-----------------------------------------------------------------------------

(* NoLiveRowUnknown is not inductive: Tell could take a live row out of the *)
(* view if a row that is reported as removed could still be there, and an   *)
(* ending task could forget rows it inserted.                               *)

(* A task that has not read yet holds nothing of an earlier life.           *)
StartsEmpty ==
    \A t \in Tasks : pc[t] \in {"idle", "read"} =>
        inserted[t] = {} /\ toInsert[t] = {} /\ toDelete[t] = {} /\ removed[t] = {}

(* A removal inserts nothing, and tells one event only.                     *)
RemovalOnlyRemoves ==
    \A t \in Tasks : kind[t] = "remove" =>
        inserted[t] = {} /\ toInsert[t] = {} /\ pc[t] # "tell"

(* What a task tells was written before.                                    *)
ToldIsWritten ==
    \A t \in Tasks : pc[t] \in {"tell", "tellLast"} => toDelete[t] = {}

(* A row about to be reported as removed is gone, or still to be deleted,   *)
(* or stayed because its delete failed.                                     *)
ReportedIsGone ==
    \A t \in Tasks : \A id \in removed[t] :
        id \in toDelete[t] \/ id \notin rows \/ id \in misreported

IInv ==
    /\ TypeOK
    /\ StartsEmpty
    /\ RemovalOnlyRemoves
    /\ ToldIsWritten
    /\ ReportedIsGone
    /\ NoLiveRowUnknown

(* The strengthened invariant holds before any task has started.            *)
LEMMA InitStrong == Init => IInv
<1> SUFFICES ASSUME Init PROVE IInv
  OBVIOUS
<1>1. StartsEmpty
  BY DEF Init, StartsEmpty
<1>2. RemovalOnlyRemoves
  BY DEF Init, RemovalOnlyRemoves
<1>3. ToldIsWritten
  BY DEF Init, ToldIsWritten
<1>4. ReportedIsGone
  BY DEF Init, ReportedIsGone
<1>5. NoLiveRowUnknown
  BY DEF Init, NoLiveRowUnknown
<1> QED
  BY <1>1, <1>2, <1>3, <1>4, <1>5, InitTyped DEF IInv

(* Every step of a task keeps the strengthened invariant: the ids it        *)
(* inserts are fresh, and what it deletes is what it tells of.              *)
LEMMA StepStrong == IInv /\ [Next]_vars => IInv'
<1> SUFFICES ASSUME IInv, [Next]_vars PROVE IInv'
  OBVIOUS
<1> USE DEF IInv
<1>0. TypeOK'
  BY StepTyped
<1>1. ASSUME NEW t \in Tasks, Step(t) PROVE IInv'
  <2> USE <1>1
  <2>1. ASSUME NEW k \in Kinds, NEW b \in Boards \cup Listed, Receive(t, k, b)
        PROVE  IInv'
    <3>1. StartsEmpty'
      BY <2>1 DEF TypeOK, Receive, StartsEmpty
    <3>2. RemovalOnlyRemoves'
      BY <2>1 DEF TypeOK, Receive, StartsEmpty, RemovalOnlyRemoves
    <3>3. ToldIsWritten'
      BY <2>1 DEF TypeOK, Receive, ToldIsWritten
    <3>4. ReportedIsGone'
      BY <2>1 DEF TypeOK, Receive, StartsEmpty, RemovalOnlyRemoves, ToldIsWritten,
         ReportedIsGone
    <3>5. NoLiveRowUnknown'
      BY <2>1 DEF TypeOK, Receive, StartsEmpty, RemovalOnlyRemoves, ToldIsWritten,
         ReportedIsGone, NoLiveRowUnknown, Owes, TellsAdd
    <3> QED
      BY <1>0, <3>1, <3>2, <3>3, <3>4, <3>5
  <2>2. CASE ReadBoard(t)
    <3>1. StartsEmpty'
      BY <2>2 DEF TypeOK, ReadBoard, StartsEmpty
    <3>2. RemovalOnlyRemoves'
      BY <2>2 DEF TypeOK, ReadBoard, RemovalOnlyRemoves
    <3>3. ToldIsWritten'
      BY <2>2 DEF TypeOK, ReadBoard, ToldIsWritten
    <3>4. ReportedIsGone'
      BY <2>2 DEF TypeOK, ReadBoard, StartsEmpty, RemovalOnlyRemoves, ToldIsWritten,
         ReportedIsGone
    <3>5. NoLiveRowUnknown'
      BY <2>2 DEF TypeOK, ReadBoard, StartsEmpty, RemovalOnlyRemoves, ToldIsWritten,
         ReportedIsGone, NoLiveRowUnknown, Owes, TellsAdd
    <3> QED
      BY <1>0, <3>1, <3>2, <3>3, <3>4, <3>5
  <2>3. CASE ReadListed(t)
    <3>1. StartsEmpty'
      BY <2>3 DEF TypeOK, ReadListed, StartsEmpty
    <3>2. RemovalOnlyRemoves'
      BY <2>3 DEF TypeOK, ReadListed, RemovalOnlyRemoves
    <3>3. ToldIsWritten'
      BY <2>3 DEF TypeOK, ReadListed, ToldIsWritten
    <3>4. ReportedIsGone'
      BY <2>3 DEF TypeOK, ReadListed, StartsEmpty, RemovalOnlyRemoves,
         ToldIsWritten, ReportedIsGone
    <3>5. NoLiveRowUnknown'
      BY <2>3 DEF TypeOK, ReadListed, StartsEmpty, RemovalOnlyRemoves,
         ToldIsWritten, ReportedIsGone, NoLiveRowUnknown, Owes, TellsAdd
    <3> QED
      BY <1>0, <3>1, <3>2, <3>3, <3>4, <3>5
  <2>4. CASE ReadFails(t)
    <3>1. StartsEmpty'
      BY <2>4 DEF TypeOK, ReadFails, Abandon, End, StartsEmpty
    <3>2. RemovalOnlyRemoves'
      BY <2>4 DEF TypeOK, ReadFails, Abandon, End, RemovalOnlyRemoves
    <3>3. ToldIsWritten'
      BY <2>4 DEF TypeOK, ReadFails, Abandon, End, ToldIsWritten
    <3>4. ReportedIsGone'
      BY <2>4 DEF TypeOK, ReadFails, Abandon, End, StartsEmpty, RemovalOnlyRemoves,
         ToldIsWritten, ReportedIsGone
    <3>5. NoLiveRowUnknown'
      BY <2>4 DEF TypeOK, ReadFails, Abandon, End, StartsEmpty, RemovalOnlyRemoves,
         ToldIsWritten, ReportedIsGone, NoLiveRowUnknown, Owes, TellsAdd
    <3> QED
      BY <1>0, <3>1, <3>2, <3>3, <3>4, <3>5
  <2>5. ASSUME NEW n \in toInsert[t], NEW id \in Ids, Insert(t, n, id)
        PROVE  IInv'
    <3>1. StartsEmpty'
      BY <2>5 DEF TypeOK, Insert, Fresh, StartsEmpty
    <3>2. RemovalOnlyRemoves'
      BY <2>5 DEF TypeOK, Insert, Fresh, RemovalOnlyRemoves
    <3>3. ToldIsWritten'
      BY <2>5 DEF TypeOK, Insert, Fresh, ToldIsWritten
    <3>4. ReportedIsGone'
      BY <2>5 DEF TypeOK, Insert, Fresh, StartsEmpty, RemovalOnlyRemoves,
         ToldIsWritten, ReportedIsGone
    <3>5. NoLiveRowUnknown'
      BY <2>5 DEF TypeOK, Insert, Fresh, StartsEmpty, RemovalOnlyRemoves,
         ToldIsWritten, ReportedIsGone, NoLiveRowUnknown, Owes, TellsAdd
    <3> QED
      BY <1>0, <3>1, <3>2, <3>3, <3>4, <3>5
  <2>6. ASSUME NEW n \in toInsert[t], InsertFails(t, n)
        PROVE  IInv'
    <3>1. StartsEmpty'
      BY <2>6 DEF TypeOK, InsertFails, StartsEmpty
    <3>2. RemovalOnlyRemoves'
      BY <2>6 DEF TypeOK, InsertFails, RemovalOnlyRemoves
    <3>3. ToldIsWritten'
      BY <2>6 DEF TypeOK, InsertFails, ToldIsWritten
    <3>4. ReportedIsGone'
      BY <2>6 DEF TypeOK, InsertFails, StartsEmpty, RemovalOnlyRemoves,
         ToldIsWritten, ReportedIsGone
    <3>5. NoLiveRowUnknown'
      BY <2>6 DEF TypeOK, InsertFails, StartsEmpty, RemovalOnlyRemoves,
         ToldIsWritten, ReportedIsGone, NoLiveRowUnknown, Owes, TellsAdd
    <3> QED
      BY <1>0, <3>1, <3>2, <3>3, <3>4, <3>5
  <2>7. CASE DeleteMany(t)
    <3>1. StartsEmpty'
      BY <2>7 DEF TypeOK, DeleteMany, StartsEmpty
    <3>2. RemovalOnlyRemoves'
      BY <2>7 DEF TypeOK, DeleteMany, RemovalOnlyRemoves
    <3>3. ToldIsWritten'
      BY <2>7 DEF TypeOK, DeleteMany, ToldIsWritten
    <3>4. ReportedIsGone'
      BY <2>7 DEF TypeOK, DeleteMany, StartsEmpty, RemovalOnlyRemoves,
         ToldIsWritten, ReportedIsGone
    <3>5. NoLiveRowUnknown'
      BY <2>7 DEF TypeOK, DeleteMany, StartsEmpty, RemovalOnlyRemoves,
         ToldIsWritten, ReportedIsGone, NoLiveRowUnknown, Owes, TellsAdd
    <3> QED
      BY <1>0, <3>1, <3>2, <3>3, <3>4, <3>5
  <2>8. CASE DeleteManyFails(t)
    <3>1. StartsEmpty'
      BY <2>8 DEF TypeOK, DeleteManyFails, StartsEmpty
    <3>2. RemovalOnlyRemoves'
      BY <2>8 DEF TypeOK, DeleteManyFails, RemovalOnlyRemoves
    <3>3. ToldIsWritten'
      BY <2>8 DEF TypeOK, DeleteManyFails, ToldIsWritten
    <3>4. ReportedIsGone'
      BY <2>8 DEF TypeOK, DeleteManyFails, StartsEmpty, RemovalOnlyRemoves,
         ToldIsWritten, ReportedIsGone
    <3>5. NoLiveRowUnknown'
      BY <2>8 DEF TypeOK, DeleteManyFails, StartsEmpty, RemovalOnlyRemoves,
         ToldIsWritten, ReportedIsGone, NoLiveRowUnknown, Owes, TellsAdd
    <3> QED
      BY <1>0, <3>1, <3>2, <3>3, <3>4, <3>5
  <2>9. CASE Stamp(t)
    <3>1. StartsEmpty'
      BY <2>9 DEF TypeOK, Stamp, history, StartsEmpty
    <3>2. RemovalOnlyRemoves'
      BY <2>9 DEF TypeOK, Stamp, history, RemovalOnlyRemoves
    <3>3. ToldIsWritten'
      BY <2>9 DEF TypeOK, Stamp, history, ToldIsWritten
    <3>4. ReportedIsGone'
      BY <2>9 DEF TypeOK, Stamp, history, StartsEmpty, RemovalOnlyRemoves,
         ToldIsWritten, ReportedIsGone
    <3>5. NoLiveRowUnknown'
      BY <2>9 DEF TypeOK, Stamp, history, StartsEmpty, RemovalOnlyRemoves,
         ToldIsWritten, ReportedIsGone, NoLiveRowUnknown, Owes, TellsAdd
    <3> QED
      BY <1>0, <3>1, <3>2, <3>3, <3>4, <3>5
  <2>10. CASE StampFails(t)
    <3>1. StartsEmpty'
      BY <2>10 DEF TypeOK, StampFails, Abandon, End, StartsEmpty
    <3>2. RemovalOnlyRemoves'
      BY <2>10 DEF TypeOK, StampFails, Abandon, End, RemovalOnlyRemoves
    <3>3. ToldIsWritten'
      BY <2>10 DEF TypeOK, StampFails, Abandon, End, ToldIsWritten
    <3>4. ReportedIsGone'
      BY <2>10 DEF TypeOK, StampFails, Abandon, End, StartsEmpty,
         RemovalOnlyRemoves, ToldIsWritten, ReportedIsGone
    <3>5. NoLiveRowUnknown'
      BY <2>10 DEF TypeOK, StampFails, Abandon, End, StartsEmpty,
         RemovalOnlyRemoves, ToldIsWritten, ReportedIsGone, NoLiveRowUnknown, Owes,
         TellsAdd
    <3> QED
      BY <1>0, <3>1, <3>2, <3>3, <3>4, <3>5
  <2>11. ASSUME NEW id \in toDelete[t], DeleteRow(t, id)
        PROVE  IInv'
    <3>1. StartsEmpty'
      BY <2>11 DEF TypeOK, DeleteRow, StartsEmpty
    <3>2. RemovalOnlyRemoves'
      BY <2>11 DEF TypeOK, DeleteRow, RemovalOnlyRemoves
    <3>3. ToldIsWritten'
      BY <2>11 DEF TypeOK, DeleteRow, ToldIsWritten
    <3>4. ReportedIsGone'
      BY <2>11 DEF TypeOK, DeleteRow, StartsEmpty, RemovalOnlyRemoves,
         ToldIsWritten, ReportedIsGone
    <3>5. NoLiveRowUnknown'
      BY <2>11 DEF TypeOK, DeleteRow, StartsEmpty, RemovalOnlyRemoves,
         ToldIsWritten, ReportedIsGone, NoLiveRowUnknown, Owes, TellsAdd
    <3> QED
      BY <1>0, <3>1, <3>2, <3>3, <3>4, <3>5
  <2>12. CASE DeleteRowFails(t)
    <3>1. StartsEmpty'
      BY <2>12 DEF TypeOK, DeleteRowFails, Abandon, End, StartsEmpty
    <3>2. RemovalOnlyRemoves'
      BY <2>12 DEF TypeOK, DeleteRowFails, Abandon, End, RemovalOnlyRemoves
    <3>3. ToldIsWritten'
      BY <2>12 DEF TypeOK, DeleteRowFails, Abandon, End, ToldIsWritten
    <3>4. ReportedIsGone'
      BY <2>12 DEF TypeOK, DeleteRowFails, Abandon, End, StartsEmpty,
         RemovalOnlyRemoves, ToldIsWritten, ReportedIsGone
    <3>5. NoLiveRowUnknown'
      BY <2>12 DEF TypeOK, DeleteRowFails, Abandon, End, StartsEmpty,
         RemovalOnlyRemoves, ToldIsWritten, ReportedIsGone, NoLiveRowUnknown, Owes,
         TellsAdd
    <3> QED
      BY <1>0, <3>1, <3>2, <3>3, <3>4, <3>5
  <2>13. CASE FinishRemoval(t)
    <3>1. StartsEmpty'
      BY <2>13 DEF TypeOK, FinishRemoval, history, StartsEmpty
    <3>2. RemovalOnlyRemoves'
      BY <2>13 DEF TypeOK, FinishRemoval, history, RemovalOnlyRemoves
    <3>3. ToldIsWritten'
      BY <2>13 DEF TypeOK, FinishRemoval, history, ToldIsWritten
    <3>4. ReportedIsGone'
      BY <2>13 DEF TypeOK, FinishRemoval, history, StartsEmpty, RemovalOnlyRemoves,
         ToldIsWritten, ReportedIsGone
    <3>5. NoLiveRowUnknown'
      BY <2>13 DEF TypeOK, FinishRemoval, history, StartsEmpty, RemovalOnlyRemoves,
         ToldIsWritten, ReportedIsGone, NoLiveRowUnknown, Owes, TellsAdd
    <3> QED
      BY <1>0, <3>1, <3>2, <3>3, <3>4, <3>5
  <2>14. CASE FinishRemovalFails(t)
    <3>1. StartsEmpty'
      BY <2>14 DEF TypeOK, FinishRemovalFails, Abandon, End, StartsEmpty
    <3>2. RemovalOnlyRemoves'
      BY <2>14 DEF TypeOK, FinishRemovalFails, Abandon, End, RemovalOnlyRemoves
    <3>3. ToldIsWritten'
      BY <2>14 DEF TypeOK, FinishRemovalFails, Abandon, End, ToldIsWritten
    <3>4. ReportedIsGone'
      BY <2>14 DEF TypeOK, FinishRemovalFails, Abandon, End, StartsEmpty,
         RemovalOnlyRemoves, ToldIsWritten, ReportedIsGone
    <3>5. NoLiveRowUnknown'
      BY <2>14 DEF TypeOK, FinishRemovalFails, Abandon, End, StartsEmpty,
         RemovalOnlyRemoves, ToldIsWritten, ReportedIsGone, NoLiveRowUnknown, Owes,
         TellsAdd
    <3> QED
      BY <1>0, <3>1, <3>2, <3>3, <3>4, <3>5
  <2>15. CASE Tell(t)
    <3>1. StartsEmpty'
      BY <2>15 DEF TypeOK, Tell, Replay, TellsAdd, history, StartsEmpty
    <3>2. RemovalOnlyRemoves'
      BY <2>15 DEF TypeOK, Tell, Replay, TellsAdd, history, RemovalOnlyRemoves
    <3>3. ToldIsWritten'
      BY <2>15 DEF TypeOK, Tell, Replay, TellsAdd, history, ToldIsWritten
    <3>4. ReportedIsGone'
      BY <2>15 DEF TypeOK, Tell, Replay, TellsAdd, history, StartsEmpty,
         RemovalOnlyRemoves, ToldIsWritten, ReportedIsGone
    <3>5. NoLiveRowUnknown'
      <4> SUFFICES ASSUME NEW r \in rows
                   PROVE  \/ r \in view' \/ r \in misreported
                          \/ \E u \in Tasks : Owes(u, r)'
        BY <2>15 DEF Tell, history, NoLiveRowUnknown
      <4>1. CASE TellsAdd(t)
        BY <2>15, <4>1 DEF TypeOK, Tell, Replay, TellsAdd, Owes, history,
           NoLiveRowUnknown
      <4>2. CASE ~TellsAdd(t)
        <5>1. r \in removed[t] => r \in misreported
          BY <2>15 DEF Tell, ToldIsWritten, ReportedIsGone
        <5>2. CASE \E u \in Tasks : Owes(u, r)
          BY <2>15, <4>2, <5>2 DEF TypeOK, Kinds, Tell, TellsAdd, Owes, history,
             RemovalOnlyRemoves
        <5> QED
          BY <2>15, <4>2, <5>1, <5>2 DEF Tell, Replay, NoLiveRowUnknown
      <4> QED
        BY <4>1, <4>2
    <3> QED
      BY <1>0, <3>1, <3>2, <3>3, <3>4, <3>5
  <2>16. CASE TellLast(t)
    <3>1. StartsEmpty'
      BY <2>16 DEF TypeOK, TellLast, Replay, TellsAdd, End, StartsEmpty
    <3>2. RemovalOnlyRemoves'
      BY <2>16 DEF TypeOK, TellLast, Replay, TellsAdd, End, RemovalOnlyRemoves
    <3>3. ToldIsWritten'
      BY <2>16 DEF TypeOK, TellLast, Replay, TellsAdd, End, ToldIsWritten
    <3>4. ReportedIsGone'
      BY <2>16 DEF TypeOK, TellLast, Replay, TellsAdd, End, StartsEmpty,
         RemovalOnlyRemoves, ToldIsWritten, ReportedIsGone
    <3>5. NoLiveRowUnknown'
      BY <2>16 DEF TypeOK, TellLast, Replay, TellsAdd, End, StartsEmpty,
         RemovalOnlyRemoves, ToldIsWritten, ReportedIsGone, NoLiveRowUnknown, Owes
    <3> QED
      BY <1>0, <3>1, <3>2, <3>3, <3>4, <3>5
  <2> QED
    BY <2>1, <2>2, <2>3, <2>4, <2>5, <2>6, <2>7, <2>8, <2>9, <2>10, <2>11, <2>12,
       <2>13, <2>14, <2>15, <2>16 DEF Step
<1>2. CASE UNCHANGED vars
  BY <1>0, <1>2 DEF StartsEmpty, RemovalOnlyRemoves, ToldIsWritten, ReportedIsGone,
     NoLiveRowUnknown, Owes, TellsAdd, vars, taskVars, history
<1> QED
  BY <1>1, <1>2, NextIsStep

(* However tasks interleave and whichever of their statements fail, a live  *)
(* row is known to a consumer that keeps up, or is about to be told, or a   *)
(* failed statement kept it from being told.                                *)
THEOREM LiveRowsAreTold == Spec => []NoLiveRowUnknown
<1>1. IInv => NoLiveRowUnknown
  BY DEF IInv
<1> QED
  BY <1>1, InitStrong, StepStrong, PTL DEF Spec

-----------------------------------------------------------------------------
(* Replaying the bus: while tasks come one after the other and nothing      *)
(* fails, a consumer that replays it holds the rows of the database.        *)

(* Until tasks overlap, one at most is in flight.                           *)
Alone ==
    ~overlapped =>
        \A t, u \in Tasks : pc[t] # "idle" /\ pc[u] # "idle" => t = u

(* An update tells of all it deletes, and does not delete what it inserts.  *)
DeletesAreTold ==
    \A t \in Tasks : kind[t] # "remove" => toDelete[t] \subseteq removed[t]

InsertsStay == \A t \in Tasks : inserted[t] \cap removed[t] = {}

(* How far a consumer is behind a task: by all it wrote so far until its    *)
(* first event, by the event still to come after that.                      *)
Behind(t) ==
    /\ pc[t] \in {"idle", "read"} => rows = view
    /\ pc[t] \in {"write", "tell"} =>
          rows = (view \cup inserted[t]) \ (removed[t] \ toDelete[t])
    /\ pc[t] = "tellLast" /\ TellsAdd(t) => rows = view \cup inserted[t]
    /\ pc[t] = "tellLast" /\ ~TellsAdd(t) => rows = view \ removed[t]

ViewFollows ==
    ~overlapped /\ ~faulted =>
        /\ Quiet => rows = view
        /\ \A t \in Tasks : pc[t] # "idle" => Behind(t)

RInv == IInv /\ Alone /\ DeletesAreTold /\ InsertsStay /\ ViewFollows

-----------------------------------------------------------------------------

(* As long as tasks have not overlapped, the others are idle while one      *)
(* takes a step.                                                            *)
LEMMA OthersIdle ==
    ASSUME TypeOK, Alone, NEW t \in Tasks, Step(t), ~overlapped'
    PROVE  ~overlapped /\ \A u \in Tasks \ {t} : pc[u] = "idle" /\ pc'[u] = "idle"
<1>1. Step(t)
  OBVIOUS
<1> DEFINE Goal == ~overlapped /\ \A u \in Tasks \ {t} : pc[u] = "idle" /\ pc'[u] = "idle"
<1>2. Goal
  <2>1. ASSUME NEW k \in Kinds, NEW b \in Boards \cup Listed, Receive(t, k, b)
        PROVE  Goal
    BY <2>1 DEF TypeOK, Alone, history, Receive
  <2>2. CASE ReadBoard(t)
    BY <2>2 DEF TypeOK, Alone, history, ReadBoard
  <2>3. CASE ReadListed(t)
    BY <2>3 DEF TypeOK, Alone, history, ReadListed
  <2>4. CASE ReadFails(t)
    BY <2>4 DEF TypeOK, Alone, history, ReadFails, Abandon, End
  <2>5. ASSUME NEW n \in toInsert[t], NEW id \in Ids, Insert(t, n, id)
        PROVE  Goal
    BY <2>5 DEF TypeOK, Alone, history, Insert
  <2>6. ASSUME NEW n \in toInsert[t], InsertFails(t, n)
        PROVE  Goal
    BY <2>6 DEF TypeOK, Alone, history, InsertFails
  <2>7. CASE DeleteMany(t)
    BY <2>7 DEF TypeOK, Alone, history, DeleteMany
  <2>8. CASE DeleteManyFails(t)
    BY <2>8 DEF TypeOK, Alone, history, DeleteManyFails
  <2>9. CASE Stamp(t)
    BY <2>9 DEF TypeOK, Alone, history, Stamp
  <2>10. CASE StampFails(t)
    BY <2>10 DEF TypeOK, Alone, history, StampFails, Abandon, End
  <2>11. ASSUME NEW id \in toDelete[t], DeleteRow(t, id)
        PROVE  Goal
    BY <2>11 DEF TypeOK, Alone, history, DeleteRow
  <2>12. CASE DeleteRowFails(t)
    BY <2>12 DEF TypeOK, Alone, history, DeleteRowFails, Abandon, End
  <2>13. CASE FinishRemoval(t)
    BY <2>13 DEF TypeOK, Alone, history, FinishRemoval
  <2>14. CASE FinishRemovalFails(t)
    BY <2>14 DEF TypeOK, Alone, history, FinishRemovalFails, Abandon, End
  <2>15. CASE Tell(t)
    BY <2>15 DEF TypeOK, Alone, history, Tell
  <2>16. CASE TellLast(t)
    BY <2>16 DEF TypeOK, Alone, history, TellLast, End
  <2> QED
    BY <1>1, <2>1, <2>2, <2>3, <2>4, <2>5, <2>6, <2>7, <2>8,
       <2>9, <2>10, <2>11, <2>12, <2>13, <2>14, <2>15, <2>16 DEF Step
<1> QED
  BY <1>2

(* Then that task alone decides whether the consumer follows.               *)
LEMMA FollowsOne ==
    ASSUME TypeOK, Alone, NEW t \in Tasks, Step(t),
           ~overlapped' /\ ~faulted' => Behind(t)'
    PROVE  Alone' /\ ViewFollows'
<1>1. ~overlapped' => \A u \in Tasks \ {t} : pc'[u] = "idle"
  BY OthersIdle
<1>2. Alone'
  BY <1>1 DEF Alone
<1>3. ViewFollows'
  <2> SUFFICES ASSUME ~overlapped', ~faulted'
               PROVE  /\ Quiet' => rows' = view'
                      /\ \A u \in Tasks : pc'[u] # "idle" => Behind(u)'
    BY DEF ViewFollows
  <2>1. \A u \in Tasks : pc'[u] # "idle" => u = t
    BY <1>1
  <2>2. Quiet' => rows' = view'
    BY DEF Quiet, Behind
  <2>3. \A u \in Tasks : pc'[u] # "idle" => Behind(u)'
    BY <2>1
  <2> QED
    BY <2>2, <2>3
<1> QED
  BY <1>2, <1>3

(* And before its step the consumer was where the task had left it.         *)
LEMMA FollowedOne ==
    ASSUME TypeOK, Alone, ViewFollows, NEW t \in Tasks, Step(t), ~overlapped', ~faulted
    PROVE  Behind(t)
<1>1. ~overlapped /\ \A u \in Tasks \ {t} : pc[u] = "idle"
  BY OthersIdle
<1>2. CASE pc[t] = "idle"
  <2>1. Quiet
    BY <1>1, <1>2 DEF Quiet
  <2> QED
    BY <1>1, <1>2, <2>1 DEF ViewFollows, Behind
<1>3. CASE pc[t] # "idle"
  BY <1>1, <1>3 DEF ViewFollows
<1> QED
  BY <1>2, <1>3

-----------------------------------------------------------------------------

(* A task's statements keep what it deletes among what it will report, and  *)
(* what it inserts apart from it.                                           *)
LEMMA SetsKept ==
    ASSUME IInv, DeletesAreTold, InsertsStay, NEW t \in Tasks, Step(t)
    PROVE  DeletesAreTold' /\ InsertsStay'
<1>1. Step(t)
  OBVIOUS
<1> USE DEF IInv
<1> DEFINE Goal == DeletesAreTold' /\ InsertsStay'
<1>2. Goal
  <2>1. ASSUME NEW k \in Kinds, NEW b \in Boards \cup Listed, Receive(t, k, b)
        PROVE  Goal
    BY <2>1 DEF TypeOK, StartsEmpty, RemovalOnlyRemoves,
       DeletesAreTold, InsertsStay, Receive
  <2>2. CASE ReadBoard(t)
    BY <2>2 DEF TypeOK, StartsEmpty, RemovalOnlyRemoves,
       DeletesAreTold, InsertsStay, ReadBoard
  <2>3. CASE ReadListed(t)
    BY <2>3 DEF TypeOK, StartsEmpty, RemovalOnlyRemoves,
       DeletesAreTold, InsertsStay, ReadListed
  <2>4. CASE ReadFails(t)
    BY <2>4 DEF TypeOK, StartsEmpty, RemovalOnlyRemoves,
       DeletesAreTold, InsertsStay, ReadFails, Abandon, End
  <2>5. ASSUME NEW n \in toInsert[t], NEW id \in Ids, Insert(t, n, id)
        PROVE  Goal
    BY <2>5 DEF TypeOK, StartsEmpty, RemovalOnlyRemoves,
       DeletesAreTold, InsertsStay, Insert, Fresh
  <2>6. ASSUME NEW n \in toInsert[t], InsertFails(t, n)
        PROVE  Goal
    BY <2>6 DEF TypeOK, StartsEmpty, RemovalOnlyRemoves,
       DeletesAreTold, InsertsStay, InsertFails, Fault
  <2>7. CASE DeleteMany(t)
    BY <2>7 DEF TypeOK, StartsEmpty, RemovalOnlyRemoves,
       DeletesAreTold, InsertsStay, DeleteMany
  <2>8. CASE DeleteManyFails(t)
    BY <2>8 DEF TypeOK, StartsEmpty, RemovalOnlyRemoves,
       DeletesAreTold, InsertsStay, DeleteManyFails, Fault
  <2>9. CASE Stamp(t)
    BY <2>9 DEF TypeOK, StartsEmpty, RemovalOnlyRemoves,
       DeletesAreTold, InsertsStay, Stamp, history
  <2>10. CASE StampFails(t)
    BY <2>10 DEF TypeOK, StartsEmpty, RemovalOnlyRemoves,
       DeletesAreTold, InsertsStay, StampFails, Abandon, End
  <2>11. ASSUME NEW id \in toDelete[t], DeleteRow(t, id)
        PROVE  Goal
    BY <2>11 DEF TypeOK, StartsEmpty, RemovalOnlyRemoves,
       DeletesAreTold, InsertsStay, DeleteRow
  <2>12. CASE DeleteRowFails(t)
    BY <2>12 DEF TypeOK, StartsEmpty, RemovalOnlyRemoves,
       DeletesAreTold, InsertsStay, DeleteRowFails, Abandon, End
  <2>13. CASE FinishRemoval(t)
    BY <2>13 DEF TypeOK, StartsEmpty, RemovalOnlyRemoves,
       DeletesAreTold, InsertsStay, FinishRemoval, history
  <2>14. CASE FinishRemovalFails(t)
    BY <2>14 DEF TypeOK, StartsEmpty, RemovalOnlyRemoves,
       DeletesAreTold, InsertsStay, FinishRemovalFails, Abandon, End
  <2>15. CASE Tell(t)
    BY <2>15 DEF TypeOK, StartsEmpty, RemovalOnlyRemoves,
       DeletesAreTold, InsertsStay, Tell, Replay, TellsAdd, history
  <2>16. CASE TellLast(t)
    BY <2>16 DEF TypeOK, StartsEmpty, RemovalOnlyRemoves,
       DeletesAreTold, InsertsStay, TellLast, Replay, TellsAdd, End
  <2> QED
    BY <1>1, <2>1, <2>2, <2>3, <2>4, <2>5, <2>6, <2>7, <2>8,
       <2>9, <2>10, <2>11, <2>12, <2>13, <2>14, <2>15, <2>16 DEF Step
<1> QED
  BY <1>2

(* A step that does not fail leaves the consumer where the task says: its   *)
(* writes widen the difference and its events close it.                     *)
LEMMA BehindKept ==
    ASSUME IInv, DeletesAreTold, InsertsStay, NEW t \in Tasks, Step(t),
           ~faulted', faulted \/ Behind(t)
    PROVE  Behind(t)'
<1>1. Step(t)
  OBVIOUS
<1> USE DEF IInv
<1> DEFINE Goal == Behind(t)'
<1>2. Goal
  <2>1. ASSUME NEW k \in Kinds, NEW b \in Boards \cup Listed, Receive(t, k, b)
        PROVE  Goal
    BY <2>1 DEF TypeOK, Kinds, StartsEmpty, RemovalOnlyRemoves,
       ToldIsWritten, DeletesAreTold, InsertsStay, Behind, TellsAdd, Receive
  <2>2. CASE ReadBoard(t)
    BY <2>2 DEF TypeOK, Kinds, StartsEmpty, RemovalOnlyRemoves,
       ToldIsWritten, DeletesAreTold, InsertsStay, Behind, TellsAdd, ReadBoard
  <2>3. CASE ReadListed(t)
    BY <2>3 DEF TypeOK, Kinds, StartsEmpty, RemovalOnlyRemoves,
       ToldIsWritten, DeletesAreTold, InsertsStay, Behind, TellsAdd, ReadListed
  <2>4. CASE ReadFails(t)
    BY <2>4 DEF TypeOK, Kinds, StartsEmpty, RemovalOnlyRemoves,
       ToldIsWritten, DeletesAreTold, InsertsStay, Behind, TellsAdd, ReadFails, Abandon, End
  <2>5. ASSUME NEW n \in toInsert[t], NEW id \in Ids, Insert(t, n, id)
        PROVE  Goal
    BY <2>5 DEF TypeOK, Kinds, StartsEmpty, RemovalOnlyRemoves,
       ToldIsWritten, DeletesAreTold, InsertsStay, Behind, TellsAdd, Insert, Fresh
  <2>6. ASSUME NEW n \in toInsert[t], InsertFails(t, n)
        PROVE  Goal
    BY <2>6 DEF TypeOK, Kinds, StartsEmpty, RemovalOnlyRemoves,
       ToldIsWritten, DeletesAreTold, InsertsStay, Behind, TellsAdd, InsertFails, Fault
  <2>7. CASE DeleteMany(t)
    BY <2>7 DEF TypeOK, Kinds, StartsEmpty, RemovalOnlyRemoves,
       ToldIsWritten, DeletesAreTold, InsertsStay, Behind, TellsAdd, DeleteMany
  <2>8. CASE DeleteManyFails(t)
    BY <2>8 DEF TypeOK, Kinds, StartsEmpty, RemovalOnlyRemoves,
       ToldIsWritten, DeletesAreTold, InsertsStay, Behind, TellsAdd, DeleteManyFails, Fault
  <2>9. CASE Stamp(t)
    BY <2>9 DEF TypeOK, Kinds, StartsEmpty, RemovalOnlyRemoves,
       ToldIsWritten, DeletesAreTold, InsertsStay, Behind, TellsAdd, Stamp, history
  <2>10. CASE StampFails(t)
    BY <2>10 DEF TypeOK, Kinds, StartsEmpty, RemovalOnlyRemoves,
       ToldIsWritten, DeletesAreTold, InsertsStay, Behind, TellsAdd, StampFails, Abandon, End
  <2>11. ASSUME NEW id \in toDelete[t], DeleteRow(t, id)
        PROVE  Goal
    BY <2>11 DEF TypeOK, Kinds, StartsEmpty, RemovalOnlyRemoves,
       ToldIsWritten, DeletesAreTold, InsertsStay, Behind, TellsAdd, DeleteRow
  <2>12. CASE DeleteRowFails(t)
    BY <2>12 DEF TypeOK, Kinds, StartsEmpty, RemovalOnlyRemoves,
       ToldIsWritten, DeletesAreTold, InsertsStay, Behind, TellsAdd, DeleteRowFails, Abandon, End
  <2>13. CASE FinishRemoval(t)
    BY <2>13 DEF TypeOK, Kinds, StartsEmpty, RemovalOnlyRemoves,
       ToldIsWritten, DeletesAreTold, InsertsStay, Behind, TellsAdd, FinishRemoval, history
  <2>14. CASE FinishRemovalFails(t)
    BY <2>14 DEF TypeOK, Kinds, StartsEmpty, RemovalOnlyRemoves,
       ToldIsWritten, DeletesAreTold, InsertsStay, Behind, TellsAdd,
       FinishRemovalFails, Abandon, End
  <2>15. CASE Tell(t)
    BY <2>15 DEF TypeOK, Kinds, StartsEmpty, RemovalOnlyRemoves,
       ToldIsWritten, DeletesAreTold, InsertsStay, Behind, TellsAdd, Tell, Replay, history
  <2>16. CASE TellLast(t)
    BY <2>16 DEF TypeOK, Kinds, StartsEmpty, RemovalOnlyRemoves,
       ToldIsWritten, DeletesAreTold, InsertsStay, Behind, TellsAdd, TellLast, Replay, End
  <2> QED
    BY <1>1, <2>1, <2>2, <2>3, <2>4, <2>5, <2>6, <2>7, <2>8,
       <2>9, <2>10, <2>11, <2>12, <2>13, <2>14, <2>15, <2>16 DEF Step
<1> QED
  BY <1>2

(* The consumer starts with an empty table.                                 *)
LEMMA InitReplay == Init => RInv
<1> SUFFICES ASSUME Init PROVE RInv
  OBVIOUS
<1>1. IInv
  BY InitStrong
<1>2. Alone /\ DeletesAreTold /\ InsertsStay
  BY DEF Init, Alone, DeletesAreTold, InsertsStay
<1>3. ViewFollows
  BY DEF Init, ViewFollows
<1> QED
  BY <1>1, <1>2, <1>3 DEF RInv

(* Every step of a task keeps the consumer as far behind as its writes.     *)
LEMMA StepReplay == RInv /\ [Next]_vars => RInv'
<1> SUFFICES ASSUME RInv, [Next]_vars PROVE RInv'
  OBVIOUS
<1>1. IInv'
  BY StepStrong DEF RInv
<1>2. ASSUME NEW t \in Tasks, Step(t) PROVE RInv'
  <2>1. DeletesAreTold' /\ InsertsStay'
    BY <1>2, SetsKept DEF RInv
  <2>2. ASSUME ~overlapped', ~faulted' PROVE Behind(t)'
    <3>1. faulted \/ Behind(t)
      BY <1>2, <2>2, FollowedOne DEF RInv, IInv
    <3> QED
      BY <1>2, <2>2, <3>1, BehindKept DEF RInv
  <2>3. Alone' /\ ViewFollows'
    BY <1>2, <2>2, FollowsOne DEF RInv, IInv
  <2> QED
    BY <1>1, <2>1, <2>3 DEF RInv
<1>3. CASE UNCHANGED vars
  <2>1. Alone' /\ DeletesAreTold' /\ InsertsStay'
    BY <1>3 DEF RInv, Alone, DeletesAreTold, InsertsStay, vars, taskVars, history
  <2>2. ViewFollows'
    BY <1>3 DEF RInv, ViewFollows, Behind, Quiet, TellsAdd, vars, taskVars, history
  <2> QED
    BY <1>1, <2>1, <2>2 DEF RInv
<1> QED
  BY <1>2, <1>3, NextIsStep

(* As long as tasks come one after the other and none of their statements   *)
(* fails, whoever applies the events of the bus in order holds exactly the  *)
(* rows of the table whenever no task is in flight: the events say all that *)
(* the writes did, in both orders the tasks send them in.                   *)
THEOREM ReplayIsExact == Spec => []SerialReplayIsExact
<1>1. RInv => SerialReplayIsExact
  BY DEF RInv, ViewFollows, SerialReplayIsExact
<1> QED
  BY <1>1, InitReplay, StepReplay, PTL DEF Spec

-----------------------------------------------------------------------------
(* The board an update leaves behind.                                       *)

(* Rows R, less the rows D and with the listings of a at the positions I,   *)
(* are the board b.                                                         *)
Patched(R, D, I, a, b) ==
    \A k \in Keys :
        Copies(k, R \ D) + Cardinality({n \in I : a[n] = k}) = Occurrences(k, b)

(* While nobody else writes and nothing fails, what an update has still to  *)
(* write makes the board it was given of the rows there are.                *)
Installing(t) ==
    kind[t] # "remove" /\ undisturbed[t] /\ ~faulty[t] /\ pc[t] \in {"write", "tell"} =>
        /\ Patched(rows, toDelete[t], toInsert[t], added[t], board[t])
        /\ pc[t] = "tell" => toDelete[t] = {} /\ toInsert[t] = {}

BInv ==
    /\ IInv
    /\ \A t \in Tasks : Installing(t)

(* Any set of rows is finite, and so is the number of its copies of a key.  *)
LEMMA CopiesCounted ==
    ASSUME NEW S, S \subseteq Ids, NEW k
    PROVE  IsFiniteSet({r \in S : KeyOf[r] = k}) /\ Copies(k, S) \in Nat
<1>1. {r \in S : KeyOf[r] = k} \subseteq Ids
  OBVIOUS
<1>2. IsFiniteSet({r \in S : KeyOf[r] = k})
  BY <1>1, StoreAssumption, FS_Subset
<1> QED
  BY <1>2, FS_CardinalityType DEF Copies

(* So are the positions of a list that hold a key.                          *)
LEMMA PlacesCounted ==
    ASSUME NEW a \in Seq(Keys), NEW I, I \subseteq DOMAIN a, NEW k
    PROVE  /\ IsFiniteSet({n \in I : a[n] = k})
           /\ Cardinality({n \in I : a[n] = k}) \in Nat
<1>1. DOMAIN a = 1 .. Len(a) /\ Len(a) \in Nat
  OBVIOUS
<1>2. IsFiniteSet(DOMAIN a)
  BY <1>1, FS_Interval
<1>3. {n \in I : a[n] = k} \subseteq DOMAIN a
  OBVIOUS
<1>4. IsFiniteSet({n \in I : a[n] = k})
  BY <1>2, <1>3, FS_Subset
<1> QED
  BY <1>4, FS_CardinalityType

(* A row inserted for one of the listings still to be inserted takes its    *)
(* place.                                                                   *)
LEMMA PatchedByInsert ==
    ASSUME NEW R, R \subseteq Ids, NEW D, NEW a \in Seq(Keys), NEW b,
           NEW I, I \subseteq DOMAIN a, NEW n \in I, NEW id \in Ids,
           id \notin R, id \notin D, KeyOf[id] = a[n], Patched(R, D, I, a, b)
    PROVE  Patched(R \cup {id}, D, I \ {n}, a, b)
<1> SUFFICES ASSUME NEW k \in Keys
             PROVE  Copies(k, (R \cup {id}) \ D)
                      + Cardinality({m \in I \ {n} : a[m] = k}) = Occurrences(k, b)
  BY DEF Patched
<1> DEFINE Held == {r \in R \ D : KeyOf[r] = k}
           Due  == {m \in I : a[m] = k}
<1>1. Cardinality(Held) + Cardinality(Due) = Occurrences(k, b)
  BY DEF Patched, Copies
<1>2. IsFiniteSet(Held) /\ Cardinality(Held) \in Nat
  BY CopiesCounted DEF Copies
<1>3. IsFiniteSet(Due) /\ Cardinality(Due) \in Nat
  BY PlacesCounted
<1>4. CASE KeyOf[id] = k
  <2>1. {r \in (R \cup {id}) \ D : KeyOf[r] = k} = Held \cup {id}
    BY <1>4
  <2>2. {m \in I \ {n} : a[m] = k} = Due \ {n}
    BY <1>4
  <2>3. id \notin Held /\ n \in Due
    BY <1>4
  <2> HIDE DEF Held, Due
  <2>4. Cardinality(Held \cup {id}) = Cardinality(Held) + 1
    BY <1>2, <2>3, FS_AddElement
  <2>5. Cardinality(Due \ {n}) = Cardinality(Due) - 1
    BY <1>3, <2>3, FS_RemoveElement
  <2>6. Cardinality(Held \cup {id}) + Cardinality(Due \ {n}) = Occurrences(k, b)
    BY <1>1, <1>2, <1>3, <2>4, <2>5
  <2> QED
    BY <2>1, <2>2, <2>6 DEF Copies
<1>5. CASE KeyOf[id] # k
  <2>1. {r \in (R \cup {id}) \ D : KeyOf[r] = k} = Held
    BY <1>5
  <2>2. {m \in I \ {n} : a[m] = k} = Due
    BY <1>5
  <2> HIDE DEF Held, Due
  <2> QED
    BY <1>1, <2>1, <2>2 DEF Copies
<1> QED
  BY <1>4, <1>5

(* What a step of a task leaves to another one: all that task knows, or     *)
(* rows it has to count as disturbed.                                       *)
Undisturbing(u) ==
    \/ ~undisturbed'[u]
    \/ /\ rows' = rows
       /\ pc'[u] = pc[u] /\ kind'[u] = kind[u] /\ board'[u] = board[u]
       /\ added'[u] = added[u] /\ toInsert'[u] = toInsert[u] /\ toDelete'[u] = toDelete[u]
       /\ undisturbed'[u] = undisturbed[u] /\ faulty'[u] = faulty[u]

(* No step writes without disturbing the others.                            *)
LEMMA OthersUndisturbed ==
    ASSUME TypeOK, NEW t \in Tasks, Step(t), NEW u \in Tasks \ {t}
    PROVE  Undisturbing(u)
<1>1. Step(t)
  OBVIOUS
<1>2. ASSUME NEW k \in Kinds, NEW b \in Boards \cup Listed, Receive(t, k, b) PROVE Undisturbing(u)
  BY <1>2 DEF TypeOK, Undisturbing, Receive
<1>3. CASE ReadBoard(t)
  BY <1>3 DEF TypeOK, Undisturbing, ReadBoard
<1>4. CASE ReadListed(t)
  BY <1>4 DEF TypeOK, Undisturbing, ReadListed
<1>5. CASE ReadFails(t)
  BY <1>5 DEF TypeOK, Undisturbing, ReadFails, Abandon, End
<1>6. ASSUME NEW n \in toInsert[t], NEW id \in Ids, Insert(t, n, id) PROVE Undisturbing(u)
  BY <1>6 DEF TypeOK, Undisturbing, Insert, Disturb
<1>7. ASSUME NEW n \in toInsert[t], InsertFails(t, n) PROVE Undisturbing(u)
  BY <1>7 DEF TypeOK, Undisturbing, InsertFails, Fault
<1>8. CASE DeleteMany(t)
  BY <1>8 DEF TypeOK, Undisturbing, DeleteMany, Disturb
<1>9. CASE DeleteManyFails(t)
  BY <1>9 DEF TypeOK, Undisturbing, DeleteManyFails, Fault
<1>10. CASE Stamp(t)
  BY <1>10 DEF TypeOK, Undisturbing, Stamp, history
<1>11. CASE StampFails(t)
  BY <1>11 DEF TypeOK, Undisturbing, StampFails, Abandon, End, history
<1>12. ASSUME NEW id \in toDelete[t], DeleteRow(t, id) PROVE Undisturbing(u)
  BY <1>12 DEF TypeOK, Undisturbing, DeleteRow, Disturb
<1>13. CASE DeleteRowFails(t)
  BY <1>13 DEF TypeOK, Undisturbing, DeleteRowFails, Abandon, End
<1>14. CASE FinishRemoval(t)
  BY <1>14 DEF TypeOK, Undisturbing, FinishRemoval, history
<1>15. CASE FinishRemovalFails(t)
  BY <1>15 DEF TypeOK, Undisturbing, FinishRemovalFails, Abandon, End
<1>16. CASE Tell(t)
  BY <1>16 DEF TypeOK, Undisturbing, Tell, history
<1>17. CASE TellLast(t)
  BY <1>17 DEF TypeOK, Undisturbing, TellLast, End
<1> QED
  BY <1>1, <1>2, <1>3, <1>4, <1>5, <1>6, <1>7, <1>8, <1>9, <1>10, <1>11, <1>12, <1>13,
     <1>14, <1>15, <1>16, <1>17 DEF Step

(* A task's own statements bring its board about: an insert and the delete  *)
(* take off what is still to be written, and a failure is noted.            *)
LEMMA OwnStepInstalls ==
    ASSUME IInv, NEW t \in Tasks, Step(t), Installing(t)
    PROVE  Installing(t)'
<1> TypeOK
  BY DEF IInv
<1>1. Step(t)
  OBVIOUS
<1>2. ASSUME NEW k \in Kinds, NEW b \in Boards \cup Listed, Receive(t, k, b) PROVE Installing(t)'
  BY <1>2 DEF TypeOK, Installing, Receive
<1>3. CASE ReadBoard(t)
  <2> DEFINE d == Diff(board[t], rows)
  <2>1. board[t] \in Boards /\ rows \in SUBSET Ids
    BY <1>3 DEF TypeOK, ReadBoard
  <2>2. Patched(rows, d.removed, DOMAIN d.added, d.added, board[t])
    <3> SUFFICES ASSUME NEW k \in Keys
                 PROVE  Copies(k, rows \ d.removed)
                          + Cardinality({n \in DOMAIN d.added : d.added[n] = k})
                        = Occurrences(k, board[t])
      BY DEF Patched
    <3>1. Copies(k, rows \ d.removed) + Occurrences(k, d.added) = Occurrences(k, board[t])
      BY <2>1, StoreAssumption
    <3> QED
      BY <3>1 DEF Occurrences
  <2>3. /\ rows' = rows /\ board'[t] = board[t] /\ pc'[t] = "write"
        /\ toDelete'[t] = d.removed /\ toInsert'[t] = DOMAIN d.added /\ added'[t] = d.added
    BY <1>3 DEF TypeOK, ReadBoard
  <2> HIDE DEF d
  <2> QED
    BY <2>2, <2>3 DEF Installing
<1>4. CASE ReadListed(t)
  BY <1>4 DEF TypeOK, Installing, ReadListed
<1>5. CASE ReadFails(t)
  BY <1>5 DEF TypeOK, Installing, ReadFails, Abandon, End
<1>6. ASSUME NEW n \in toInsert[t], NEW id \in Ids, Insert(t, n, id) PROVE Installing(t)'
  <2>1. /\ added[t] \in Seq(Keys) /\ toInsert[t] \subseteq DOMAIN added[t]
        /\ rows \subseteq Ids
    BY DEF TypeOK
  <2>2. id \notin rows /\ id \notin toDelete[t] /\ KeyOf[id] = added[t][n]
    BY <1>6 DEF Insert, Fresh
  <2>3. Patched(rows, toDelete[t], toInsert[t], added[t], board[t])
           => Patched(rows \cup {id}, toDelete[t], toInsert[t] \ {n}, added[t], board[t])
    BY <2>1, <2>2, PatchedByInsert
  <2>4. /\ rows' = rows \cup {id} /\ toInsert'[t] = toInsert[t] \ {n}
        /\ toDelete' = toDelete /\ added' = added /\ board' = board /\ kind' = kind
        /\ pc[t] = "write" /\ pc' = pc /\ faulty' = faulty
        /\ undisturbed'[t] => undisturbed[t]
    BY <1>6 DEF TypeOK, Insert, Disturb
  <2> QED
    BY <2>3, <2>4 DEF Installing
<1>7. ASSUME NEW n \in toInsert[t], InsertFails(t, n) PROVE Installing(t)'
  BY <1>7 DEF TypeOK, Installing, InsertFails, Fault
<1>8. CASE DeleteMany(t)
  <2>1. /\ rows' = rows \ toDelete[t] /\ toDelete'[t] = {}
        /\ toInsert' = toInsert /\ added' = added /\ board' = board /\ kind' = kind
        /\ pc[t] = "write" /\ pc' = pc /\ faulty' = faulty
        /\ undisturbed'[t] => undisturbed[t]
    BY <1>8 DEF TypeOK, DeleteMany, Disturb
  <2>2. rows' \ toDelete'[t] = rows \ toDelete[t]
    BY <2>1
  <2>3. Patched(rows, toDelete[t], toInsert[t], added[t], board[t])
           => Patched(rows', toDelete'[t], toInsert'[t], added'[t], board'[t])
    BY <2>1, <2>2 DEF Patched
  <2> QED
    BY <2>1, <2>3 DEF Installing
<1>9. CASE DeleteManyFails(t)
  BY <1>9 DEF TypeOK, Installing, DeleteManyFails, Fault
<1>10. CASE Stamp(t)
  BY <1>10 DEF TypeOK, Installing, Stamp, history
<1>11. CASE StampFails(t)
  BY <1>11 DEF TypeOK, Installing, StampFails, Abandon, End, history
<1>12. ASSUME NEW id \in toDelete[t], DeleteRow(t, id) PROVE Installing(t)'
  BY <1>12 DEF TypeOK, Installing, DeleteRow, Disturb
<1>13. CASE DeleteRowFails(t)
  BY <1>13 DEF TypeOK, Installing, DeleteRowFails, Abandon, End
<1>14. CASE FinishRemoval(t)
  BY <1>14 DEF TypeOK, Installing, FinishRemoval, history
<1>15. CASE FinishRemovalFails(t)
  BY <1>15 DEF TypeOK, Installing, FinishRemovalFails, Abandon, End
<1>16. CASE Tell(t)
  BY <1>16 DEF TypeOK, Installing, Tell, history
<1>17. CASE TellLast(t)
  BY <1>17 DEF TypeOK, Installing, TellLast, End
<1> QED
  BY <1>1, <1>2, <1>3, <1>4, <1>5, <1>6, <1>7, <1>8, <1>9, <1>10, <1>11, <1>12, <1>13,
     <1>14, <1>15, <1>16, <1>17 DEF Step

(* The strengthened invariant holds before any task has started.            *)
LEMMA InitInstalling == Init => BInv
<1>1. Init => \A t \in Tasks : Installing(t)
  BY DEF Init, Installing
<1> QED
  BY <1>1, InitStrong DEF BInv

(* Every step keeps it, for the task that takes it and for the others.      *)
LEMMA StepInstalling == BInv /\ [Next]_vars => BInv'
<1> SUFFICES ASSUME BInv, [Next]_vars PROVE BInv'
  OBVIOUS
<1>1. IInv' /\ IInv /\ TypeOK
  BY StepStrong DEF BInv, IInv
<1>2. ASSUME NEW t \in Tasks, Step(t), NEW u \in Tasks PROVE Installing(u)'
  <2>1. CASE u = t
    BY <1>1, <1>2, <2>1, OwnStepInstalls DEF BInv
  <2>2. CASE u # t
    <3>1. Undisturbing(u) /\ Installing(u)
      BY <1>1, <1>2, <2>2, OthersUndisturbed DEF BInv
    <3> QED
      BY <3>1 DEF Undisturbing, Installing
  <2> QED
    BY <2>1, <2>2
<1>3. ASSUME UNCHANGED vars, NEW u \in Tasks PROVE Installing(u)'
  <2>1. Installing(u)
    BY DEF BInv
  <2> QED
    BY <1>3, <2>1 DEF Installing, vars, taskVars, history
<1> QED
  BY <1>1, <1>2, <1>3, NextIsStep DEF BInv

(* The contract of update_listings: an update during which no other task    *)
(* wrote and none of whose statements failed leaves each listing as often   *)
(* as its board has it, whatever duplicates and leftovers it found.         *)
THEOREM LoneUpdateInstalls == Spec => []LoneUpdateInstallsBoard
<1>1. BInv => LoneUpdateInstallsBoard
  <2> SUFFICES ASSUME BInv, NEW t \in Tasks, NEW k \in Keys,
                      pc[t] = "tell", undisturbed[t], ~faulty[t]
               PROVE  Copies(k, rows) = Occurrences(k, board[t])
    BY DEF LoneUpdateInstallsBoard
  <2>1. kind[t] # "remove" /\ rows \subseteq Ids
    BY DEF BInv, IInv, RemovalOnlyRemoves, TypeOK
  <2>2. /\ Patched(rows, toDelete[t], toInsert[t], added[t], board[t])
        /\ toDelete[t] = {} /\ toInsert[t] = {}
    BY <2>1 DEF BInv, Installing
  <2>3. Copies(k, rows \ toDelete[t]) + Cardinality({n \in toInsert[t] : added[t][n] = k})
           = Occurrences(k, board[t])
    BY <2>2 DEF Patched
  <2>4. {n \in toInsert[t] : added[t][n] = k} = {} /\ rows \ toDelete[t] = rows
    BY <2>2
  <2>5. Copies(k, rows) + 0 = Occurrences(k, board[t])
    BY <2>3, <2>4, FS_EmptySet
  <2>6. Copies(k, rows) \in Nat
    BY <2>1, CopiesCounted
  <2> QED
    BY <2>5, <2>6
<1> QED
  BY <1>1, InitInstalling, StepInstalling, PTL DEF Spec

=============================================================================
