----------------------------- MODULE MCMergeDiff -----------------------------
(* The merge on the orders its callers use.                                 *)
EXTENDS MergeDiff, ListingOrders

(* Four listings that differ in quality and price: SortedBefore             *)
(* and UpdateBefore put them in different orders.                           *)
Listings ==
    {[price |-> p, quantity |-> n, retainer |-> 1, hq |-> q] :
        p \in 1 .. 2, n \in 1 .. 1, q \in 0 .. 1}

MaxLength == 3

Lists(S) == BoundedSeq(S, MaxLength)

(* update_listings sorts both lists by SortedBefore and merges them by      *)
(* UpdateBefore.                                                            *)
SortedBy(less(_, _)) ==
    {s \in Lists(Listings) : \A p, q \in DOMAIN s : p < q => ~less(s[q], s[p])}

UpdateInputs == SortedBy(SortedBefore) \X SortedBy(SortedBefore)

(* Next to them the lists the merge is made for, sorted by what it compares *)
(* by, as get_missing_updates hands them over.                              *)
MergeInputs == UpdateInputs \cup SortedBy(UpdateBefore) \X SortedBy(UpdateBefore)

=============================================================================
