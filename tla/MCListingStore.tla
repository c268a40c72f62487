---------------------------- MODULE MCListingStore ----------------------------
(* Small instances of ListingStore with the diffs of ListingOrders.         *)
EXTENDS ListingStore, ListingOrders

(* Two listings update_listings sorts one way and compares the other way:   *)
(* by quality the first is smaller, by price the second.                    *)
Dear  == [price |-> 2, quantity |-> 1, retainer |-> 1, hq |-> 0]
Cheap == [price |-> 1, quantity |-> 1, retainer |-> 1, hq |-> 1]

MCKeys   == {Dear, Cheap}

(* Three ids for the cheap listing: two tasks may both insert it, and a     *)
(* later board finds an id left to repair that.                             *)
MCKeyOf  == <<Dear, Cheap, Cheap, Cheap>>
MCIds    == DOMAIN MCKeyOf
MCBoards == {<<Cheap>>, <<Dear>>, <<Cheap, Dear>>}
MCListed == {<<Dear>>}

MCDiff(b, S)     == BoardDiff(b, S, MCKeyOf)
MCRemovals(l, S) == RemovalOutcomes(l, S, MCKeyOf)

Symmetry == Permutations(Tasks)

=============================================================================
