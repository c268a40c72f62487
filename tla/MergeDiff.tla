------------------------------ MODULE MergeDiff ------------------------------
(***************************************************************************)
(* The two-cursor merge with which Ultros compares a list that arrived     *)
(* from Universalis with a list it has stored.  The program has it twice:  *)
(* as the loop of UltrosDb::update_listings and as the iterator            *)
(* PartialDiffIterator, which remove_listings and the item update service  *)
(* use.  Both hold one element of each list, compare them, and advance the *)
(* cursor of the smaller one or, when neither is smaller, both cursors.    *)
(*                                                                         *)
(* A list element is abstracted to the part of it the comparison looks at, *)
(* a member of Keys.  Nothing here says that the lists are sorted by the   *)
(* comparison: the callers do not all guarantee it (see ListingOrders).    *)
(***************************************************************************)
EXTENDS MergeResult, FiniteSets

CONSTANTS
    Keys,            (* what the comparison sees of a listing                *)
    Before(_, _),    (* Ordering::Less of the comparison                     *)
    Inputs           (* the pairs <<incoming, stored>> the merge is run on   *)

(* The comparison is a strict total order on what it looks at, and an       *)
(* incoming list is compared with a list of the same kind of elements.      *)
ASSUME MergeAssumption ==
    /\ \A a, b \in Keys : Before(a, b) \in BOOLEAN
    /\ \A a \in Keys : ~Before(a, a)
    /\ \A a, b, c \in Keys : Before(a, b) /\ Before(b, c) => Before(a, c)
    /\ \A a, b \in Keys : a = b \/ Before(a, b) \/ Before(b, a)
    /\ \A input \in Inputs : input \in Seq(Keys) \X Seq(Keys)

VARIABLES
    incoming, stored,  (* the two lists                                      *)
    i, j,              (* positions of the held elements                     *)
    added,             (* positions of incoming found to be new              *)
    removed,           (* positions of stored found to be gone               *)
    matched            (* pairs of positions found to be the same            *)

vars == <<incoming, stored, i, j, added, removed, matched>>

-----------------------------------------------------------------------------

Init ==
    /\ \E input \in Inputs : incoming = input[1] /\ stored = input[2]
    /\ i = 1 /\ j = 1
    /\ added = {} /\ removed = {} /\ matched = {}

HasIncoming == i <= Len(incoming)
HasStored   == j <= Len(stored)

TakeIncoming ==
    /\ added' = added \cup {i}
    /\ i' = i + 1
    /\ UNCHANGED <<incoming, stored, j, removed, matched>>

TakeStored ==
    /\ removed' = removed \cup {j}
    /\ j' = j + 1
    /\ UNCHANGED <<incoming, stored, i, added, matched>>

TakeBoth ==
    /\ matched' = matched \cup {<<i, j>>}
    /\ i' = i + 1
    /\ j' = j + 1
    /\ UNCHANGED <<incoming, stored, added, removed>>

(* A plausible slip: on Equal only the stored cursor moves on.              *)
MatchKeepsIncoming ==
    /\ HasIncoming /\ HasStored
    /\ ~Before(incoming[i], stored[j]) /\ ~Before(stored[j], incoming[i])
    /\ matched' = matched \cup {<<i, j>>}
    /\ j' = j + 1
    /\ UNCHANGED <<incoming, stored, i, added, removed>>

(* A plausible slip: Less and Greater the wrong way round.                  *)
SmallerSwapped ==
    /\ HasIncoming /\ HasStored
    /\ Before(stored[j], incoming[i])
    /\ TakeIncoming

(* Only one list has an element left.                                       *)
OnlyIncoming == HasIncoming /\ ~HasStored /\ TakeIncoming
OnlyStored   == ~HasIncoming /\ HasStored /\ TakeStored

(* Both do: Ordering::Less, Equal and Greater of incoming against stored.   *)
IncomingSmaller ==
    /\ HasIncoming /\ HasStored
    /\ Before(incoming[i], stored[j])
    /\ TakeIncoming

Same ==
    /\ HasIncoming /\ HasStored
    /\ ~Before(incoming[i], stored[j]) /\ ~Before(stored[j], incoming[i])
    /\ TakeBoth

StoredSmaller ==
    /\ HasIncoming /\ HasStored
    /\ Before(stored[j], incoming[i])
    /\ TakeStored

Next ==
    \/ OnlyIncoming
    \/ OnlyStored
    \/ IncomingSmaller
    \/ Same
    \/ StoredSmaller

Spec == Init /\ [][Next]_vars

-----------------------------------------------------------------------------

Done == ~HasIncoming /\ ~HasStored

(* Types: the two cursors stay inside the lists or one past the end, and    *)
(* the results hold positions that have been passed.                        *)
TypeOK ==
    /\ incoming \in Seq(Keys) /\ stored \in Seq(Keys)
    /\ i \in 1 .. Len(incoming) + 1
    /\ j \in 1 .. Len(stored) + 1
    /\ added \subseteq 1 .. i - 1
    /\ removed \subseteq 1 .. j - 1
    /\ matched \subseteq (1 .. i - 1) \X (1 .. j - 1)

(* Every element already passed is accounted for exactly once, and only     *)
(* equal elements are matched, whatever order the lists came in.            *)
Accounted ==
    /\ \A p \in 1 .. i - 1 : p \in added \/ \E q \in 1 .. j - 1 : <<p, q>> \in matched
    /\ \A q \in 1 .. j - 1 : q \in removed \/ \E p \in 1 .. i - 1 : <<p, q>> \in matched
    /\ \A m \in matched : m[1] \notin added /\ m[2] \notin removed
    /\ \A m, n \in matched : m[1] = n[1] <=> m[2] = n[2]
    /\ \A m \in matched : incoming[m[1]] = stored[m[2]]

(* So when the merge is done, stored, less removed, plus added, holds every *)
(* element as often as incoming does.  This is why update_listings leaves   *)
(* the right board behind even though it compares its lists by another      *)
(* order than it sorted them by.                                            *)
PatchesToIncoming ==
    Done =>
        \A k \in Keys :
            Cardinality({q \in DOMAIN stored \ removed : stored[q] = k})
              + Cardinality({p \in added : incoming[p] = k})
            = Cardinality({p \in DOMAIN incoming : incoming[p] = k})

(* The machine computes what the function of MergeResult says it does, so   *)
(* ListingStore, which computes its diffs with the function, uses the merge *)
(* of the code.                                                             *)
AgreesWithFunction ==
    Done => LET merge == Merge(incoming, stored, Before)
            IN  added = merge.added /\ removed = merge.removed

Sorted(s) == \A p, q \in DOMAIN s : p < q => ~Before(s[q], s[p])

(* The contract of PartialDiffIterator ("Assuming two sorted sets"): over   *)
(* lists sorted by the comparison, an element is never reported as missing  *)
(* from one side when the other side holds an unmatched one equal to it.    *)
NoChurn ==
    Sorted(incoming) /\ Sorted(stored) =>
        \A p \in added, q \in removed : incoming[p] # stored[q]

(* The same without the precondition: what a caller that hands over its     *)
(* lists in some other order gets.                                          *)
NoChurnInAnyOrder == \A p \in added, q \in removed : incoming[p] # stored[q]

=============================================================================
