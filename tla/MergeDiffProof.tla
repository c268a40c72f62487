---------------------------- MODULE MergeDiffProof ----------------------------
(* Proofs about the merge of MergeDiff, for lists of any length.            *)
EXTENDS MergeDiff, FiniteSetTheorems, WellFoundedInduction, TLAPS

(* The cursors stay inside the lists and the result holds passed positions. *)
THEOREM TypeCorrect == Spec => []TypeOK
<1>1. Init => TypeOK
  BY MergeAssumption DEF Init, TypeOK
<1>2. TypeOK /\ [Next]_vars => TypeOK'
  <2> SUFFICES ASSUME TypeOK, [Next]_vars PROVE TypeOK'
    OBVIOUS
  <2>1. CASE HasIncoming /\ TakeIncoming
    BY <2>1 DEF TypeOK, HasIncoming, TakeIncoming
  <2>2. CASE HasStored /\ TakeStored
    BY <2>2 DEF TypeOK, HasStored, TakeStored
  <2>3. CASE HasIncoming /\ HasStored /\ TakeBoth
    BY <2>3 DEF TypeOK, HasIncoming, HasStored, TakeBoth
  <2>4. CASE UNCHANGED vars
    BY <2>4 DEF TypeOK, vars
  <2> QED
    BY <2>1, <2>2, <2>3, <2>4
    DEF Next, OnlyIncoming, OnlyStored, IncomingSmaller, Same, StoredSmaller
<1> QED
  BY <1>1, <1>2, PTL DEF Spec

-----------------------------------------------------------------------------

(* Whatever order the lists come in, each passed element is in exactly one  *)
(* of the three results and matched elements are equal: applying the        *)
(* removals and additions of update_listings to what is stored gives the    *)
(* incoming board.                                                          *)
THEOREM MergeAccounted == Spec => []Accounted
<1>1. Init => Accounted
  BY MergeAssumption DEF Init, Accounted
<1>2. TypeOK /\ Accounted /\ [Next]_vars => Accounted'
  <2> SUFFICES ASSUME TypeOK, Accounted, [Next]_vars PROVE Accounted'
    OBVIOUS
  <2>1. CASE HasIncoming /\ TakeIncoming
    BY <2>1 DEF TypeOK, Accounted, HasIncoming, TakeIncoming
  <2>2. CASE HasStored /\ TakeStored
    BY <2>2 DEF TypeOK, Accounted, HasStored, TakeStored
  <2>3. CASE Same
    <3> USE <2>3
    <3>1. incoming[i] \in Keys /\ stored[j] \in Keys
      BY DEF TypeOK, Same, HasIncoming, HasStored
    <3>2. incoming[i] = stored[j]
      BY <3>1, MergeAssumption DEF Same
    <3> QED
      BY <3>2 DEF TypeOK, Accounted, Same, TakeBoth, HasIncoming, HasStored
  <2>4. CASE UNCHANGED vars
    BY <2>4 DEF Accounted, vars
  <2> QED
    BY <2>1, <2>2, <2>3, <2>4
    DEF Next, OnlyIncoming, OnlyStored, IncomingSmaller, Same, StoredSmaller
<1> QED
  BY <1>1, <1>2, TypeCorrect, PTL DEF Spec

-----------------------------------------------------------------------------

(* The positions of a list are finitely many, and so is any set of them.    *)
LEMMA PositionsFinite ==
    ASSUME NEW s \in Seq(Keys), NEW S, S \subseteq DOMAIN s
    PROVE  IsFiniteSet(S)
<1>1. DOMAIN s = 1 .. Len(s) /\ Len(s) \in Nat
  OBVIOUS
<1>2. IsFiniteSet(DOMAIN s)
  BY <1>1, FS_Interval
<1> QED
  BY <1>2, FS_Subset

(* The matches pair the stored copies of a key that stay with the incoming  *)
(* copies that are not new.                                                 *)
LEMMA KeptArePaired ==
    ASSUME TypeOK, Accounted, Done, NEW k \in Keys
    PROVE  ExistsBijection({q \in DOMAIN stored \ removed : stored[q] = k},
                           {p \in DOMAIN incoming : incoming[p] = k} \ added)
<1> DEFINE Kept  == {q \in DOMAIN stored \ removed : stored[q] = k}
           Known == {p \in DOMAIN incoming : incoming[p] = k} \ added
           pair  == [q \in Kept |-> CHOOSE p \in Known : <<p, q>> \in matched]
<1>1. /\ DOMAIN incoming = 1 .. i - 1
      /\ DOMAIN stored = 1 .. j - 1
  BY DEF TypeOK, Done, HasIncoming, HasStored
<1>2. ASSUME NEW q \in Kept PROVE \E p \in Known : <<p, q>> \in matched
  <2>1. q \in 1 .. j - 1 /\ q \notin removed /\ stored[q] = k
    BY <1>1
  <2>2. PICK p \in 1 .. i - 1 : <<p, q>> \in matched
    BY <2>1 DEF Accounted
  <2>3. p \notin added /\ incoming[p] = stored[q]
    BY <2>2 DEF Accounted
  <2> QED
    BY <1>1, <2>1, <2>2, <2>3
<1>3. ASSUME NEW p \in Known PROVE \E q \in Kept : <<p, q>> \in matched
  <2>1. p \in 1 .. i - 1 /\ p \notin added /\ incoming[p] = k
    BY <1>1
  <2>2. PICK q \in 1 .. j - 1 : <<p, q>> \in matched
    BY <2>1 DEF Accounted
  <2>3. q \notin removed /\ incoming[p] = stored[q]
    BY <2>2 DEF Accounted
  <2> QED
    BY <1>1, <2>1, <2>2, <2>3
<1>4. \A p1, p2, q1, q2 : <<p1, q1>> \in matched /\ <<p2, q2>> \in matched
                             => (p1 = p2 <=> q1 = q2)
  BY DEF Accounted
<1>5. \A q \in Kept : pair[q] \in Known /\ <<pair[q], q>> \in matched
  BY <1>2
<1>6. \A p \in Known : \E q \in Kept : pair[q] = p
  BY <1>3, <1>4, <1>5
<1>7. ASSUME NEW q1 \in Kept, NEW q2 \in Kept, pair[q1] = pair[q2] PROVE q1 = q2
  <2>1. <<pair[q1], q1>> \in matched /\ <<pair[q1], q2>> \in matched
    BY <1>5, <1>7
  <2> QED
    BY <1>4, <2>1
<1>8. pair \in [Kept -> Known]
  BY <1>5
<1> HIDE DEF Kept, Known, pair
<1>9. pair \in Bijection(Kept, Known)
  BY <1>6, <1>7, <1>8 DEF Bijection, Injection, IsInjective, Surjection
<1>10. ExistsBijection(Kept, Known)
  BY <1>9 DEF ExistsBijection
<1> QED
  BY <1>10 DEF Kept, Known

(* Taking out of stored what the merge reports as gone and adding what it   *)
(* reports as new leaves every element as often as the incoming list has    *)
(* it, whether or not the lists are sorted by what the merge compares.      *)
THEOREM PatchIsExact == Spec => []PatchesToIncoming
<1>1. TypeOK /\ Accounted => PatchesToIncoming
  <2> SUFFICES ASSUME TypeOK, Accounted, Done, NEW k \in Keys
               PROVE  Cardinality({q \in DOMAIN stored \ removed : stored[q] = k})
                        + Cardinality({p \in added : incoming[p] = k})
                      = Cardinality({p \in DOMAIN incoming : incoming[p] = k})
    BY DEF PatchesToIncoming
  <2> DEFINE Kept == {q \in DOMAIN stored \ removed : stored[q] = k}
             News == {p \in added : incoming[p] = k}
             All  == {p \in DOMAIN incoming : incoming[p] = k}
  <2>1. ExistsBijection(Kept, All \ added)
    BY KeptArePaired
  <2>2. All \cap added = News
    <3>1. added \subseteq DOMAIN incoming
      BY DEF TypeOK
    <3> QED
      BY <3>1
  <2>3. IsFiniteSet(Kept) /\ IsFiniteSet(All)
    <3>1. incoming \in Seq(Keys) /\ stored \in Seq(Keys)
      BY DEF TypeOK
    <3>2. Kept \subseteq DOMAIN stored /\ All \subseteq DOMAIN incoming
      OBVIOUS
    <3> HIDE DEF Kept, All
    <3> QED
      BY <3>1, <3>2, PositionsFinite
  <2> HIDE DEF Kept, News, All
  <2>4. Cardinality(All \ added) = Cardinality(All) - Cardinality(News)
    BY <2>2, <2>3, FS_Difference
  <2>5. Cardinality(All \ added) = Cardinality(Kept)
    BY <2>1, <2>3, FS_Bijection
  <2>6. IsFiniteSet(News)
    BY <2>2, <2>3, FS_Intersection
  <2>7. /\ Cardinality(All) \in Nat /\ Cardinality(News) \in Nat
        /\ Cardinality(Kept) \in Nat
    BY <2>3, <2>6, FS_CardinalityType
  <2>8. Cardinality(Kept) + Cardinality(News) = Cardinality(All)
    BY <2>4, <2>5, <2>7
  <2> QED
    BY <2>8 DEF Kept, News, All
<1> QED
  BY <1>1, TypeCorrect, MergeAccounted, PTL

-----------------------------------------------------------------------------

(* What makes the merge exact on sorted lists: an element reported on one   *)
(* side is smaller than everything the other side still holds.              *)
FrontierOrdered ==
    Sorted(incoming) /\ Sorted(stored) =>
        /\ \A p \in added : \A q \in j .. Len(stored) : Before(incoming[p], stored[q])
        /\ \A q \in removed : \A p \in i .. Len(incoming) : Before(stored[q], incoming[p])
        /\ \A p \in added, q \in removed : incoming[p] # stored[q]

(* The order facts the next proof needs, instantiated once.                 *)
LEMMA SmallerThanHead ==
    ASSUME NEW s \in Seq(Keys), Sorted(s), NEW k \in Keys, NEW n \in DOMAIN s,
           Before(k, s[n])
    PROVE  \A m \in n .. Len(s) : Before(k, s[m])
<1> SUFFICES ASSUME NEW m \in n .. Len(s) PROVE Before(k, s[m])
  OBVIOUS
<1>1. m \in DOMAIN s /\ n \in DOMAIN s /\ s[m] \in Keys /\ s[n] \in Keys
  OBVIOUS
<1>2. CASE m = n
  BY <1>2
<1>3. CASE n < m
  <2>1. ~Before(s[m], s[n])
    BY <1>1, <1>3 DEF Sorted
  <2>2. s[n] = s[m] \/ Before(s[n], s[m])
    BY <2>1, <1>1, MergeAssumption
  <2> QED
    BY <2>2, <1>1, MergeAssumption
<1> QED
  BY <1>1, <1>2, <1>3

(* While both lists are sorted, what was passed as gone comes before all    *)
(* that is still to come, and nothing passed as gone equals anything passed *)
(* as new: the strengthening of NoChurn that a step of the merge keeps.     *)
THEOREM FrontierCorrect == Spec => []FrontierOrdered
<1>1. Init => FrontierOrdered
  BY DEF Init, FrontierOrdered
<1>2. TypeOK /\ FrontierOrdered /\ [Next]_vars => FrontierOrdered'
  <2> SUFFICES ASSUME TypeOK, FrontierOrdered, [Next]_vars,
                      Sorted(incoming)', Sorted(stored)'
               PROVE  FrontierOrdered'
    BY DEF FrontierOrdered
  <2>0. incoming' = incoming /\ stored' = stored
    BY DEF Next, vars, OnlyIncoming, OnlyStored, IncomingSmaller, Same, StoredSmaller,
           TakeIncoming, TakeStored, TakeBoth
  <2>1. Sorted(incoming) /\ Sorted(stored)
    BY <2>0 DEF Sorted
  <2>2. /\ \A p \in DOMAIN incoming : incoming[p] \in Keys
        /\ \A q \in DOMAIN stored : stored[q] \in Keys
    BY DEF TypeOK
  <2>3. CASE OnlyIncoming
    <3>1. \A q \in removed : incoming[i] # stored[q]
      BY <2>1, <2>2, <2>3, MergeAssumption
      DEF FrontierOrdered, TypeOK, OnlyIncoming, HasIncoming
    <3> QED
      BY <2>0, <2>1, <2>3, <3>1
      DEF FrontierOrdered, TypeOK, OnlyIncoming, HasIncoming, HasStored, TakeIncoming
  <2>4. CASE OnlyStored
    <3>1. \A p \in added : incoming[p] # stored[j]
      BY <2>1, <2>2, <2>4, MergeAssumption
      DEF FrontierOrdered, TypeOK, OnlyStored, HasStored
    <3> QED
      BY <2>0, <2>1, <2>4, <3>1
      DEF FrontierOrdered, TypeOK, OnlyStored, HasIncoming, HasStored, TakeStored
  <2>5. CASE IncomingSmaller
    <3>1. \A q \in j .. Len(stored) : Before(incoming[i], stored[q])
      BY <2>1, <2>5, SmallerThanHead DEF TypeOK, IncomingSmaller, HasIncoming, HasStored
    <3>2. \A q \in removed : incoming[i] # stored[q]
      BY <2>1, <2>2, <2>5, MergeAssumption
      DEF FrontierOrdered, TypeOK, IncomingSmaller, HasIncoming
    <3> QED
      BY <2>0, <2>1, <2>5, <3>1, <3>2
      DEF FrontierOrdered, TypeOK, IncomingSmaller, HasIncoming, TakeIncoming
  <2>6. CASE StoredSmaller
    <3>1. \A p \in i .. Len(incoming) : Before(stored[j], incoming[p])
      BY <2>1, <2>6, SmallerThanHead DEF TypeOK, StoredSmaller, HasIncoming, HasStored
    <3>2. \A p \in added : incoming[p] # stored[j]
      BY <2>1, <2>2, <2>6, MergeAssumption
      DEF FrontierOrdered, TypeOK, StoredSmaller, HasStored
    <3> QED
      BY <2>0, <2>1, <2>6, <3>1, <3>2
      DEF FrontierOrdered, TypeOK, StoredSmaller, HasStored, TakeStored
  <2>7. CASE Same
    BY <2>0, <2>1, <2>7 DEF FrontierOrdered, TypeOK, Same, TakeBoth
  <2>8. CASE UNCHANGED vars
    BY <2>0, <2>1, <2>8 DEF FrontierOrdered, vars
  <2> QED
    BY <2>3, <2>4, <2>5, <2>6, <2>7, <2>8 DEF Next
<1> QED
  BY <1>1, <1>2, TypeCorrect, PTL DEF Spec

(* Over lists sorted by the comparison the merge reports no element as      *)
(* both gone and new: the contract get_missing_updates relies on.           *)
THEOREM SortedMergeIsExact == Spec => []NoChurn
<1>1. FrontierOrdered => NoChurn
  BY DEF FrontierOrdered, NoChurn
<1> QED
  BY <1>1, FrontierCorrect, PTL

-----------------------------------------------------------------------------
(* The merge as a function.  That there is a function from cursors to what  *)
(* is found from them on has to be shown first; it is found backwards, by   *)
(* the number of elements the cursors leave.                                *)

Left(c, L, R) == (Len(L) + 1 - c[1]) + (Len(R) + 1 - c[2])

Solves(f, n, L, R) ==
    \A c \in Cursors(L, R) : Left(c, L, R) <= n => f[c] = Onward(f, c, L, R, Before)

(* Cursors leave a natural number of elements, fewer when they move on.     *)
LEMMA CursorsLeave ==
    ASSUME NEW L \in Seq(Keys), NEW R \in Seq(Keys), NEW c \in Cursors(L, R)
    PROVE  /\ c = <<c[1], c[2]>> /\ Left(c, L, R) \in Nat
           /\ c[1] \in 1 .. Len(L) + 1 /\ c[2] \in 1 .. Len(R) + 1
           /\ c[1] <= Len(L) => /\ <<c[1] + 1, c[2]>> \in Cursors(L, R)
                                /\ Left(<<c[1] + 1, c[2]>>, L, R) < Left(c, L, R)
           /\ c[2] <= Len(R) => /\ <<c[1], c[2] + 1>> \in Cursors(L, R)
                                /\ Left(<<c[1], c[2] + 1>>, L, R) < Left(c, L, R)
           /\ c[1] <= Len(L) /\ c[2] <= Len(R) =>
                 /\ <<c[1] + 1, c[2] + 1>> \in Cursors(L, R)
                 /\ Left(<<c[1] + 1, c[2] + 1>>, L, R) < Left(c, L, R)
<1>1. Len(L) \in Nat /\ Len(R) \in Nat
  OBVIOUS
<1>2. PICK p \in 1 .. Len(L) + 1, q \in 1 .. Len(R) + 1 : c = <<p, q>>
  BY DEF Cursors
<1> QED
  BY <1>1, <1>2 DEF Cursors, Left

(* What is found from cursors on depends on what is found further on only.  *)
LEMMA OnwardLooksAhead ==
    ASSUME NEW L \in Seq(Keys), NEW R \in Seq(Keys), NEW c \in Cursors(L, R),
           NEW f, NEW g,
           \A d \in Cursors(L, R) : Left(d, L, R) < Left(c, L, R) => f[d] = g[d]
    PROVE  Onward(f, c, L, R, Before) = Onward(g, c, L, R, Before)
<1>1. Len(L) \in Nat /\ Len(R) \in Nat
  OBVIOUS
<1>2. c[1] \in 1 .. Len(L) + 1 /\ c[2] \in 1 .. Len(R) + 1
  BY CursorsLeave
<1>3. c[1] <= Len(L) => f[<<c[1] + 1, c[2]>>] = g[<<c[1] + 1, c[2]>>]
  BY CursorsLeave
<1>4. c[2] <= Len(R) => f[<<c[1], c[2] + 1>>] = g[<<c[1], c[2] + 1>>]
  BY CursorsLeave
<1>5. c[1] <= Len(L) /\ c[2] <= Len(R)
         => f[<<c[1] + 1, c[2] + 1>>] = g[<<c[1] + 1, c[2] + 1>>]
  BY CursorsLeave
<1> QED
  BY <1>1, <1>2, <1>3, <1>4, <1>5 DEF Onward

(* One more element can be left: its cursors look at those already solved.  *)
LEMMA SolvesOneMore ==
    ASSUME NEW L \in Seq(Keys), NEW R \in Seq(Keys), NEW n \in Nat,
           NEW f, \A c \in Cursors(L, R) : Left(c, L, R) < n =>
                       f[c] = Onward(f, c, L, R, Before)
    PROVE  \E g : Solves(g, n, L, R)
<1> DEFINE g == [c \in Cursors(L, R) |->
                    IF Left(c, L, R) < n THEN f[c] ELSE Onward(f, c, L, R, Before)]
<1>1. \A c \in Cursors(L, R) : Left(c, L, R) < n => g[c] = f[c]
  OBVIOUS
<1>2. ASSUME NEW c \in Cursors(L, R) PROVE g[c] = Onward(f, c, L, R, Before)
  OBVIOUS
<1> HIDE DEF g
<1>3. ASSUME NEW c \in Cursors(L, R), Left(c, L, R) <= n
      PROVE  Onward(f, c, L, R, Before) = Onward(g, c, L, R, Before)
  <2>1. \A d \in Cursors(L, R) : Left(d, L, R) < Left(c, L, R) => f[d] = g[d]
    <3> SUFFICES ASSUME NEW d \in Cursors(L, R), Left(d, L, R) < Left(c, L, R)
                 PROVE  f[d] = g[d]
      OBVIOUS
    <3>1. Left(d, L, R) \in Nat /\ Left(c, L, R) \in Nat
      BY CursorsLeave
    <3>2. Left(d, L, R) < n
      BY <1>3, <3>1
    <3> QED
      BY <1>1, <3>2
  <2> QED
    BY <2>1, OnwardLooksAhead
<1>4. Solves(g, n, L, R)
  BY <1>2, <1>3 DEF Solves
<1> QED
  BY <1>4

(* So the function can be found as far back as one likes.                   *)
LEMMA Solvable ==
    ASSUME NEW L \in Seq(Keys), NEW R \in Seq(Keys)
    PROVE  \A n \in Nat : \E f : Solves(f, n, L, R)
<1> DEFINE Unsolved == {n \in Nat : ~ \E f : Solves(f, n, L, R)}
<1> SUFFICES ASSUME Unsolved # {} PROVE FALSE
  OBVIOUS
<1>1. PICK n \in Unsolved : \A m \in Unsolved : ~ (<<m, n>> \in OpToRel(<, Nat))
  <2>1. Unsolved \subseteq Nat /\ Unsolved # {}
    OBVIOUS
  <2> HIDE DEF Unsolved
  <2> QED
    BY <2>1, NatLessThanWellFounded, WFMin
<1>2. n \in Nat /\ ~ \E f : Solves(f, n, L, R)
  OBVIOUS
<1>3. \A c \in Cursors(L, R) : Left(c, L, R) \in Nat
  BY CursorsLeave
<1>4. \E f : \A c \in Cursors(L, R) : Left(c, L, R) < n =>
                  f[c] = Onward(f, c, L, R, Before)
  <2>1. CASE n = 0
    BY <1>3, <2>1
  <2>2. CASE n # 0
    <3>1. n - 1 \in Nat /\ n - 1 < n
      BY <1>2, <2>2
    <3>2. n - 1 \notin Unsolved
      BY <1>1, <1>2, <3>1 DEF OpToRel
    <3>3. PICK f : Solves(f, n - 1, L, R)
      BY <3>1, <3>2
    <3>4. \A c \in Cursors(L, R) : Left(c, L, R) < n => Left(c, L, R) <= n - 1
      BY <1>2, <1>3
    <3> QED
      BY <3>3, <3>4 DEF Solves
  <2> QED
    BY <2>1, <2>2
<1> QED
  BY <1>2, <1>4, SolvesOneMore

(* The function of MergeResult.                                             *)
Found(L, R) == CHOOSE f : f = [c \in Cursors(L, R) |-> Onward(f, c, L, R, Before)]

(* It is what its equation says.                                            *)
LEMMA FoundSolves ==
    ASSUME NEW L \in Seq(Keys), NEW R \in Seq(Keys)
    PROVE  \A c \in Cursors(L, R) : Found(L, R)[c] = Onward(Found(L, R), c, L, R, Before)
<1>1. Len(L) \in Nat /\ Len(R) \in Nat
  OBVIOUS
<1>2. PICK f : Solves(f, Len(L) + Len(R), L, R)
  BY <1>1, Solvable
<1>3. \A c \in Cursors(L, R) : Left(c, L, R) <= Len(L) + Len(R)
  <2> SUFFICES ASSUME NEW c \in Cursors(L, R) PROVE Left(c, L, R) <= Len(L) + Len(R)
    OBVIOUS
  <2>1. c[1] \in 1 .. Len(L) + 1 /\ c[2] \in 1 .. Len(R) + 1
    BY CursorsLeave
  <2> QED
    BY <1>1, <2>1 DEF Left
<1> DEFINE g == [c \in Cursors(L, R) |-> f[c]]
<1>4. ASSUME NEW c \in Cursors(L, R) PROVE g[c] = Onward(g, c, L, R, Before)
  <2>1. f[c] = Onward(f, c, L, R, Before)
    BY <1>2, <1>3 DEF Solves
  <2>2. \A d \in Cursors(L, R) : f[d] = g[d]
    OBVIOUS
  <2> HIDE DEF g
  <2>3. Onward(f, c, L, R, Before) = Onward(g, c, L, R, Before)
    BY <2>2, OnwardLooksAhead
  <2> QED
    BY <2>1, <2>2, <2>3
<1>5. g = [c \in DOMAIN g |-> g[c]] /\ DOMAIN g = Cursors(L, R)
  OBVIOUS
<1> HIDE DEF g
<1>6. g = [c \in Cursors(L, R) |-> Onward(g, c, L, R, Before)]
  BY <1>4, <1>5
<1>7. Found(L, R) = [c \in Cursors(L, R) |-> Onward(Found(L, R), c, L, R, Before)]
  BY <1>6 DEF Found
<1> QED
  BY <1>7

(* And Merge is its value at the start.                                     *)
LEMMA MergeIsFound ==
    ASSUME NEW L, NEW R
    PROVE  Merge(L, R, Before) = Found(L, R)[<<1, 1>>]
BY DEF Merge, Found

(* What the machine has found, with what the function finds from its        *)
(* cursors on, is what the function finds in all.                           *)
FoundSoFar ==
    LET whole == Found(incoming, stored)[<<1, 1>>]
        rest  == Found(incoming, stored)[<<i, j>>]
    IN  whole.added = added \cup rest.added /\ whole.removed = removed \cup rest.removed

(* The machine comes to the result of the function, for any lists: what     *)
(* ListingStore takes for the diff of update_listings is what its loop      *)
(* computes.                                                                *)
THEOREM ComputesTheFunction == Spec => []AgreesWithFunction
<1>1. Init => FoundSoFar
  BY DEF Init, FoundSoFar
<1>2. TypeOK /\ FoundSoFar /\ [Next]_vars => FoundSoFar'
  <2> SUFFICES ASSUME TypeOK, FoundSoFar, [Next]_vars PROVE FoundSoFar'
    OBVIOUS
  <2>1. incoming' = incoming /\ stored' = stored
    BY DEF Next, vars, OnlyIncoming, OnlyStored, IncomingSmaller, Same, StoredSmaller,
           TakeIncoming, TakeStored, TakeBoth
  <2>2. PICK f : f = Found(incoming, stored)
    OBVIOUS
  <2>3. /\ f[<<1, 1>>].added = added \cup f[<<i, j>>].added
        /\ f[<<1, 1>>].removed = removed \cup f[<<i, j>>].removed
    BY <2>2 DEF FoundSoFar
  <2>4. f[<<i, j>>] = Onward(f, <<i, j>>, incoming, stored, Before)
    BY <2>2, FoundSolves DEF TypeOK, Cursors
  <2>5. /\ f[<<1, 1>>].added = added' \cup f[<<i', j'>>].added
        /\ f[<<1, 1>>].removed = removed' \cup f[<<i', j'>>].removed
    <3>0. /\ i \in Nat /\ j \in Nat /\ Len(incoming) \in Nat /\ Len(stored) \in Nat
      BY DEF TypeOK
    <3>1. CASE OnlyIncoming
      <4>1. f[<<i, j>>] = WithAdded(i, f[<<i + 1, j>>])
        BY <2>4, <3>0, <3>1 DEF OnlyIncoming, HasIncoming, HasStored, Onward
      <4> QED
        BY <2>3, <3>1, <4>1 DEF OnlyIncoming, TakeIncoming, WithAdded
    <3>2. CASE OnlyStored
      <4>1. f[<<i, j>>] = WithRemoved(j, f[<<i, j + 1>>])
        BY <2>4, <3>0, <3>2 DEF OnlyStored, HasIncoming, HasStored, Onward
      <4> QED
        BY <2>3, <3>2, <4>1 DEF OnlyStored, TakeStored, WithRemoved
    <3>3. CASE IncomingSmaller
      <4>1. f[<<i, j>>] = WithAdded(i, f[<<i + 1, j>>])
        BY <2>4, <3>0, <3>3 DEF IncomingSmaller, HasIncoming, HasStored, Onward
      <4> QED
        BY <2>3, <3>3, <4>1 DEF IncomingSmaller, TakeIncoming, WithAdded
    <3>4. CASE StoredSmaller
      <4>1. incoming[i] \in Keys /\ stored[j] \in Keys
        BY <3>4 DEF TypeOK, StoredSmaller, HasIncoming, HasStored
      <4>2. ~Before(incoming[i], stored[j])
        BY <3>4, <4>1, MergeAssumption DEF StoredSmaller
      <4>3. f[<<i, j>>] = WithRemoved(j, f[<<i, j + 1>>])
        BY <2>4, <3>0, <3>4, <4>2 DEF StoredSmaller, HasIncoming, HasStored, Onward
      <4> QED
        BY <2>3, <3>4, <4>3 DEF StoredSmaller, TakeStored, WithRemoved
    <3>5. CASE Same
      <4>1. f[<<i, j>>] = f[<<i + 1, j + 1>>]
        BY <2>4, <3>0, <3>5 DEF Same, HasIncoming, HasStored, Onward
      <4> QED
        BY <2>3, <3>5, <4>1 DEF Same, TakeBoth
    <3>6. CASE UNCHANGED vars
      BY <2>3, <3>6 DEF vars
    <3> QED
      BY <3>1, <3>2, <3>3, <3>4, <3>5, <3>6 DEF Next
  <2> QED
    BY <2>1, <2>2, <2>5 DEF FoundSoFar
<1>3. TypeOK /\ FoundSoFar => AgreesWithFunction
  <2> SUFFICES ASSUME TypeOK, FoundSoFar, Done
               PROVE  /\ added = Merge(incoming, stored, Before).added
                      /\ removed = Merge(incoming, stored, Before).removed
    BY DEF AgreesWithFunction
  <2>1. PICK f : f = Found(incoming, stored)
    OBVIOUS
  <2>2. f[<<i, j>>] = Onward(f, <<i, j>>, incoming, stored, Before)
    BY <2>1, FoundSolves DEF TypeOK, Cursors
  <2>3. f[<<i, j>>] = [added |-> {}, removed |-> {}]
    BY <2>2 DEF Onward, TypeOK, Done, HasIncoming, HasStored
  <2>4. f[<<1, 1>>].added = added /\ f[<<1, 1>>].removed = removed
    BY <2>1, <2>3 DEF FoundSoFar
  <2> QED
    BY <2>1, <2>4, MergeIsFound
<1> QED
  BY <1>1, <1>2, <1>3, TypeCorrect, PTL DEF Spec

=============================================================================
