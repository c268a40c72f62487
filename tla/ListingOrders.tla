---------------------------- MODULE ListingOrders ----------------------------
(***************************************************************************)
(* The orders ultros-db/src/listings.rs puts listings in.  A listing is    *)
(* abstracted to the fields the orders look at; quality is 0 (normal) or   *)
(* 1 (high), and the names of retainers are numbers.                       *)
(***************************************************************************)
EXTENDS MergeResult, FiniteSets, SequencesExt

(* a comes before b in dictionary order.                                    *)
LexBefore(a, b) ==
    \E n \in 1 .. Len(a) : a[n] < b[n] /\ \A m \in 1 .. n - 1 : a[m] = b[m]

(* What update_listings sorts both of its lists by.                         *)
SortedBefore(a, b) ==
    LexBefore(<<a.hq, a.quantity, a.price, a.retainer>>,
              <<b.hq, b.quantity, b.price, b.retainer>>)

(* What update_listings compares the heads of the two lists by.             *)
UpdateRank(a) == <<a.price, a.quantity, a.retainer, a.hq>>

UpdateBefore(a, b) == LexBefore(UpdateRank(a), UpdateRank(b))

(* What remove_listings compares by.  The world, compared first, is that of *)
(* the query and so the same on both sides.                                 *)
RemovalRank(a) == <<a.retainer, a.price, a.quantity, a.hq>>

RemovalBefore(a, b) == LexBefore(RemovalRank(a), RemovalRank(b))

(* sort_by with SortedBefore: a stable sort, equal elements are equal keys. *)
BoardSorted(board) == SortSeq(board, SortedBefore)

-----------------------------------------------------------------------------

(* The rows of the database in the order update_listings puts them in.      *)
RowsSorted(rows, keyOf) ==
    SetToSortSeq(rows, LAMBDA r, s : SortedBefore(keyOf[r], keyOf[s]))

(* The diff of update_listings: the listings of the board that are new and  *)
(* the rows that are gone.                                                  *)
BoardDiff(board, rows, keyOf) ==
    LET left  == BoardSorted(board)
        right == RowsSorted(rows, keyOf)
        merge == Merge(left, [n \in DOMAIN right |-> keyOf[right[n]]], UpdateBefore)
        news  == SetToSortSeq(merge.added, <)
    IN  [added   |-> [n \in DOMAIN news |-> left[news[n]]],
         removed |-> {right[q] : q \in merge.removed}]

(* The rows remove_listings deletes when the database returns the rows of   *)
(* the item in the order rowSeq: those the iterator yields as Same.         *)
RemovalMatch(rowSeq, listed, keyOf) ==
    LET merge == Merge([n \in DOMAIN rowSeq |-> keyOf[rowSeq[n]]], listed, RemovalBefore)
    IN  {rowSeq[p] : p \in DOMAIN rowSeq \ merge.added}

(* The query has no ORDER BY: any order may come back.                      *)
RemovalOutcomes(listed, rows, keyOf) ==
    {RemovalMatch(rowSeq, listed, keyOf) : rowSeq \in SetToSeqs(rows)}

=============================================================================
