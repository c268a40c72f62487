--------------------------- MODULE SaleMirrorProof ---------------------------
(* Proofs about SaleIngest and SaleMirror for any number of tasks, sales    *)
(* and months, whatever the seconds, quantities and buyers of the sales.    *)
EXTENDS SaleMirror, FiniteSetTheorems, WellFoundedInduction, TLAPS

(* The parts of the types the proofs need.                                  *)
Typed ==
    /\ stored \in Seq(Sales)
    /\ pc \in [Tasks -> {"idle", "read", "write", "tell"}]
    /\ report \in [Tasks -> SUBSET Sales]
    /\ fresh \in [Tasks -> SUBSET Sales]
    /\ newest \in 0 .. MaxSales

(* Every sale of a report a task has dropped, or inserted, has a row.       *)
Stands(n) == \E a \in RowIds : View(stored[a]) = View(n)

Accounted ==
    \A t \in Tasks :
        /\ pc[t] = "write" => fresh[t] \subseteq report[t]
        /\ pc[t] = "write" => \A n \in report[t] \ fresh[t] : Stands(n)
        /\ pc[t] = "tell" => \A n \in report[t] : Stands(n)

(* While reports have been orderly: one task at most is busy; nothing is    *)
(* stored or reported beyond the newest sale; a report that is still to be  *)
(* compared has every sale up to the newest that is as late as one of its;  *)
(* and what a task is about to insert is not stored.                        *)
Alone == \A t, u \in Tasks : pc[t] # "idle" /\ pc[u] # "idle" => t = u

UpTo(t) ==
    /\ report[t] \subseteq 1 .. newest
    /\ \A s \in report[t] : \A m \in 1 .. newest :
          DateOf[m] >= DateOf[s] => m \in report[t]

Orderly ==
    ~disordered =>
        /\ \A a, b \in RowIds : stored[a] = stored[b] => a = b
        /\ \A a \in RowIds : stored[a] <= newest
        /\ Alone
        /\ \A t \in Tasks : pc[t] \in {"read", "write"} => report[t] \subseteq 1 .. newest
        /\ \A t \in Tasks : pc[t] = "read" => UpTo(t)
        /\ \A t \in Tasks : pc[t] = "write" => \A a \in RowIds : stored[a] \notin fresh[t]

(* How far the backfill is with a month, rows that came late left out.      *)
Whole(m, rows) == \A r \in RowIds : MonthOfRow(r) = m => r \in rows \cup late

Chunked ==
    /\ \A m \in done : Whole(m, copied)
    /\ job = "insert" => Whole(chunk, read)
    /\ job = "mark" => Whole(chunk, copied)

IInv == Typed /\ Accounted /\ Orderly /\ Chunked

-----------------------------------------------------------------------------

(* Max is the greatest element, if there is one.                            *)
LEMMA MaxFact ==
    ASSUME NEW S \in SUBSET Int, NEW x \in S, \A y \in S : y <= x
    PROVE  Max(S) = x
<1>1. x \in S /\ \A y \in S : x >= y
  OBVIOUS
<1>2. ASSUME NEW z \in S, \A y \in S : z >= y
      PROVE  z = x
  BY <1>2
<1>3. Max(S) \in S /\ \A y \in S : Max(S) >= y
  BY <1>1 DEF Max
<1>4. QED
  BY <1>2, <1>3

(* The newest sale of a report is its last, and of what has been reported   *)
(* the last or the one before.                                              *)
LEMMA ReportFact ==
    ASSUME NEW first \in Sales, NEW last \in 0 .. MaxSales, NEW new \in 0 .. MaxSales
    PROVE  /\ first .. last \in SUBSET Sales
           /\ first <= last => Max(first .. last) = last
           /\ Max((first .. last) \cup {new}) =
                 IF first <= last /\ new < last THEN last ELSE new
<1>1. MaxSales \in Nat /\ first \in 1 .. MaxSales
  BY IngestAssumption DEF Sales
<1>2. ASSUME first <= last
      PROVE  Max(first .. last) = last
  <2> DEFINE S == first .. last
  <2>1. S \in SUBSET Int /\ last \in S /\ \A y \in S : y <= last
    BY <1>1, <1>2
  <2> HIDE DEF S
  <2>2. Max(S) = last
    BY <2>1, MaxFact
  <2>3. QED
    BY <2>2 DEF S
<1>3. CASE first <= last /\ new < last
  <2> DEFINE S == (first .. last) \cup {new}
  <2>1. S \in SUBSET Int /\ last \in S /\ \A y \in S : y <= last
    BY <1>1, <1>3
  <2> HIDE DEF S
  <2>2. Max(S) = last
    BY <2>1, MaxFact
  <2>3. QED
    BY <2>2, <1>2, <1>3, <1>1 DEF S, Sales
<1>4. CASE ~(first <= last /\ new < last)
  <2> DEFINE S == (first .. last) \cup {new}
  <2>1. S \in SUBSET Int /\ new \in S /\ \A y \in S : y <= new
    BY <1>1, <1>4
  <2> HIDE DEF S
  <2>2. Max(S) = new
    BY <2>1, MaxFact
  <2>3. QED
    BY <2>2, <1>2, <1>4, <1>1 DEF S, Sales
<1>5. QED
  BY <1>3, <1>4

(* insert_many appends each of the task's fresh sales once.                 *)
LEMMA InsertFact ==
    ASSUME Typed, NEW t \in Tasks, Insert(t)
    PROVE  /\ stored' \in Seq(Sales)
           /\ Cardinality(fresh[t]) \in Nat
           /\ Len(stored') = Len(stored) + Cardinality(fresh[t])
           /\ RowIds \subseteq DOMAIN stored'
           /\ \A a \in RowIds : stored'[a] = stored[a]
           /\ \A a \in DOMAIN stored' \ RowIds : stored'[a] \in fresh[t]
           /\ \A a, b \in DOMAIN stored' \ RowIds : stored'[a] = stored'[b] => a = b
           /\ \A n \in fresh[t] : \E a \in DOMAIN stored' : stored'[a] = n
<1>1. PICK rows \in SetToSeqs(fresh[t]) : stored' = stored \o rows
  BY DEF Insert
<1>2. fresh[t] \in SUBSET Sales /\ IsFiniteSet(fresh[t]) /\ Cardinality(fresh[t]) \in Nat
  <2>1. IsFiniteSet(Sales)
    BY IngestAssumption, FS_Interval DEF Sales
  <2>2. QED
    BY <2>1, FS_Subset, FS_CardinalityType DEF Typed
<1> DEFINE size == Cardinality(fresh[t])
<1>3. rows \in [1 .. size -> fresh[t]] /\ \A i, j \in 1 .. size : i # j => rows[i] # rows[j]
  BY <1>1 DEF SetToSeqs
<1>4. \A n \in fresh[t] : \E i \in 1 .. size : rows[i] = n
  <2>1. rows \in Injection(1 .. size, fresh[t])
    BY <1>3 DEF Injection, IsInjective
  <2>2. Cardinality(1 .. size) = Cardinality(fresh[t])
    BY <1>2, FS_Interval
  <2>3. rows \in Surjection(1 .. size, fresh[t])
    BY <2>1, <2>2, <1>2, FS_Injection
  <2>4. QED
    BY <2>3 DEF Surjection
<1> HIDE DEF size
<1>5. size \in Nat
  BY <1>2 DEF size
<1>6. rows \in Seq(Sales) /\ Len(rows) = size /\ stored \in Seq(Sales)
  BY <1>2, <1>3, <1>5 DEF Typed
<1>7. /\ stored' \in Seq(Sales) /\ Len(stored') = Len(stored) + size
      /\ DOMAIN stored' = 1 .. Len(stored) + size /\ RowIds = 1 .. Len(stored)
      /\ Len(stored) \in Nat
  <2>1. Len(stored) \in Nat /\ RowIds = 1 .. Len(stored)
    BY <1>6 DEF RowIds
  <2>2. \A p, q \in Seq(Sales) : p \o q \in Seq(Sales) /\ Len(p \o q) = Len(p) + Len(q)
    OBVIOUS
  <2>3. stored' \in Seq(Sales) /\ Len(stored') = Len(stored) + size
    BY <1>1, <1>6, <2>2
  <2>4. QED
    BY <2>1, <2>3
<1>8. /\ \A a \in RowIds : stored'[a] = stored[a]
      /\ \A a \in DOMAIN stored' \ RowIds :
            a - Len(stored) \in 1 .. size /\ stored'[a] = rows[a - Len(stored)]
  BY <1>1, <1>5, <1>6, <1>7
<1>9. \A i \in 1 .. size :
         Len(stored) + i \in DOMAIN stored' /\ stored'[Len(stored) + i] = rows[i]
  BY <1>1, <1>5, <1>6, <1>7
<1>10. \A a, b \in DOMAIN stored' \ RowIds : stored'[a] = stored'[b] => a = b
  <2> TAKE a, b \in DOMAIN stored' \ RowIds
  <2>1. a \in Int /\ b \in Int
    BY <1>7, <1>5
  <2>2. stored'[a] = stored'[b] => a - Len(stored) = b - Len(stored)
    BY <1>3, <1>8
  <2>3. QED
    BY <2>1, <2>2, <1>7
<1>11. RowIds \subseteq DOMAIN stored'
  BY <1>5, <1>7
<1>12. \A a \in DOMAIN stored' \ RowIds : stored'[a] \in fresh[t]
  BY <1>3, <1>8
<1>13. \A n \in fresh[t] : \E a \in DOMAIN stored' : stored'[a] = n
  BY <1>4, <1>9
<1>14. Cardinality(fresh[t]) \in Nat /\ Len(stored') = Len(stored) + Cardinality(fresh[t])
  BY <1>2, <1>7 DEF size
<1>15. QED
  BY <1>7, <1>8, <1>10, <1>11, <1>12, <1>13, <1>14

(* Rows are only added.                                                     *)
LEMMA StoredGrows ==
    ASSUME Typed, Next
    PROVE  /\ stored' \in Seq(Sales)
           /\ RowIds \subseteq RowIds'
           /\ \A a \in RowIds : stored'[a] = stored[a]
<1>1. CASE \E t \in Tasks : Insert(t)
  BY <1>1, InsertFact DEF RowIds
<1>2. CASE UNCHANGED stored
  BY <1>2 DEF Typed, RowIds
<1>3. QED
  BY <1>1, <1>2 DEF Next, MonthTurns, Ingest, IngestStep, SaleHappens, Report,
     ReadRecorded, IngestFails, End, Announce, Subscribe, Query, LoadRow, LoadEnds, Save,
     Restore,
     Hear, LookAt,
     WriterDecides, EndProcess, IngestEnds, JobStarts, ChunkSkipped, ChunkRead,
     ChunkInserted, ChunkMarked, JobFails, ingestVars

-----------------------------------------------------------------------------

(* A sale of the report that is stored is among the rows read: were it not, *)
(* those and its own row would be more sales, all as late as it is, than    *)
(* the report has.                                                          *)
LEMMA LooksFarEnough ==
    ASSUME Typed, Orderly, ~disordered, NEW t \in Tasks, pc[t] = "read",
           NEW rows \in NewestRows(Cardinality(report[t])),
           NEW a \in RowIds, stored[a] \in report[t]
    PROVE  a \in rows
<1> SUFFICES ASSUME a \notin rows
             PROVE  FALSE
  OBVIOUS
<1> DEFINE given == report[t]
           with  == rows \cup {a}
<1>1. /\ rows \in SUBSET RowIds
      /\ Cardinality(rows) = IF Cardinality(given) < Len(stored)
                             THEN Cardinality(given) ELSE Len(stored)
      /\ \A b \in rows : DateOf[stored[b]] >= DateOf[stored[a]]
  BY DEF NewestRows, kSubset
<1>2. /\ IsFiniteSet(RowIds) /\ Cardinality(RowIds) = Len(stored) /\ Len(stored) \in Nat
      /\ IsFiniteSet(rows) /\ Cardinality(rows) \in Nat
  <2>1. RowIds = 1 .. Len(stored) /\ Len(stored) \in Nat
    BY DEF Typed, RowIds
  <2>2. IsFiniteSet(RowIds) /\ Cardinality(RowIds) = Len(stored)
    <3>1. \A n \in Nat : IsFiniteSet(1 .. n) /\ Cardinality(1 .. n) = n
      BY FS_Interval
    <3>2. QED
      BY <2>1, <3>1
  <2>3. IsFiniteSet(rows)
    BY <1>1, <2>2, FS_Subset
  <2>4. QED
    BY <2>1, <2>2, <2>3, FS_CardinalityType
<1>3. IsFiniteSet(given) /\ Cardinality(given) \in Nat
  <2>1. IsFiniteSet(Sales) /\ given \in SUBSET Sales
    BY IngestAssumption, FS_Interval DEF Sales, Typed
  <2>2. QED
    BY <2>1, FS_Subset, FS_CardinalityType
<1>4. with \in SUBSET RowIds /\ Cardinality(with) = Cardinality(rows) + 1 /\ IsFiniteSet(with)
  BY <1>1, <1>2, FS_AddElement
<1>5. Cardinality(with) <= Cardinality(RowIds)
  BY <1>2, <1>4, FS_Subset
<1>6. \A b \in with : stored[b] \in given
  <2> SUFFICES ASSUME NEW b \in rows
               PROVE  stored[b] \in given
    OBVIOUS
  <2>1. stored[b] \in Sales /\ stored[b] <= newest
    BY <1>1 DEF Orderly, Typed, RowIds
  <2>2. stored[b] \in 1 .. newest
    BY <2>1, IngestAssumption DEF Typed, Sales
  <2>3. UpTo(t)
    BY DEF Orderly
  <2>4. QED
    BY <1>1, <2>2, <2>3 DEF UpTo
<1>7. Cardinality(with) <= Cardinality(given)
  <2> DEFINE f == [b \in with |-> stored[b]]
  <2>1. f \in [with -> given]
    BY <1>6
  <2>2. \A b, c \in with : f[b] = f[c] => b = c
    BY <1>4 DEF Orderly
  <2>3. f \in Injection(with, given)
    BY <2>1, <2>2 DEF Injection, IsInjective
  <2> HIDE DEF f
  <2>4. QED
    BY <2>3, <1>3, FS_Injection
<1>8. QED
  BY <1>1, <1>2, <1>3, <1>4, <1>5, <1>7

-----------------------------------------------------------------------------

(* What a step does to the tasks; the steps of the mirror that are not in   *)
(* this list leave them alone.                                              *)
TaskStep ==
    \/ SaleHappens
    \/ \E t \in Tasks : \/ \E sales \in Reports : Report(t, sales)
                        \/ ReadRecorded(t)
                        \/ Insert(t)
                        \/ End(t)
    \/ IngestEnds

LEMMA StepFact ==
    ASSUME Next
    PROVE  TaskStep \/ UNCHANGED ingestVars
BY DEF Next, MonthTurns, Ingest, IngestStep, IngestFails, Announce, Subscribe, Query,
       LoadRow, LoadEnds, Hear, LookAt, WriterDecides, Save, Restore, EndProcess, JobStarts,
       ChunkSkipped, ChunkRead, ChunkInserted, ChunkMarked, JobFails, TaskStep

LEMMA TypedStep ==
    ASSUME Typed, TaskStep
    PROVE  Typed'
<1>1. CASE SaleHappens
  BY <1>1 DEF Typed, SaleHappens, taskVars
<1>2. ASSUME NEW t \in Tasks, NEW sales \in Reports, Report(t, sales)
      PROVE  Typed'
  <2>1. PICK first \in Sales, last \in 0 .. MaxSales : sales = first .. last
    BY DEF Reports
  <2>2. sales \in SUBSET Sales /\ Max(sales \cup {newest}) \in {last, newest}
    BY <2>1, ReportFact DEF Typed
  <2>3. newest' \in 0 .. MaxSales
    BY <1>2, <2>1, <2>2 DEF Typed, Report
  <2>4. QED
    BY <1>2, <2>2, <2>3 DEF Typed, Report
<1>3. ASSUME NEW t \in Tasks, ReadRecorded(t)
      PROVE  Typed'
  <2>1. PICK rows \in NewestRows(Cardinality(report[t])) :
          LET left == {n \in report[t] : ~Recorded(n, rows)}
          IN  /\ fresh' = [fresh EXCEPT ![t] = left]
              /\ pc' = [pc EXCEPT ![t] = IF left = {} THEN "tell" ELSE "write"]
    BY <1>3 DEF ReadRecorded
  <2>2. QED
    BY <1>3, <2>1 DEF Typed, ReadRecorded
<1>4. ASSUME NEW t \in Tasks, Insert(t)
      PROVE  Typed'
  <2>1. stored' \in Seq(Sales)
    BY <1>4, InsertFact
  <2>2. QED
    BY <1>4, <2>1 DEF Typed, Insert
<1>5. ASSUME NEW t \in Tasks, End(t)
      PROVE  Typed'
  BY <1>5 DEF Typed, End
<1>6. CASE IngestEnds
  BY <1>6 DEF Typed, IngestEnds
<1>7. QED
  BY <1>1, <1>2, <1>3, <1>4, <1>5, <1>6 DEF TaskStep

(* What stands is never taken away.                                         *)
LEMMA StandsStep ==
    ASSUME Typed, TaskStep, NEW n \in Sales, Stands(n)
    PROVE  Stands(n)'
<1>1. PICK a \in RowIds : View(stored[a]) = View(n)
  BY DEF Stands
<1>2. a \in RowIds' /\ stored'[a] = stored[a]
  <2>1. CASE \E t \in Tasks : Insert(t)
    BY <2>1, InsertFact DEF RowIds
  <2>2. CASE UNCHANGED stored
    BY <2>2 DEF RowIds
  <2>3. QED
    BY <2>1, <2>2 DEF TaskStep, SaleHappens, Report, ReadRecorded, End, IngestEnds
<1>3. QED
  BY <1>1, <1>2 DEF Stands, View

LEMMA AccountedStep ==
    ASSUME Typed, Accounted, TaskStep
    PROVE  Accounted'
<1>1. \A n \in Sales : Stands(n) => Stands(n)'
  BY StandsStep
<1>2. ASSUME NEW u \in Tasks, pc'[u] = pc[u] \/ pc'[u] = "idle",
             report'[u] = report[u], fresh'[u] = fresh[u]
      PROVE  /\ pc'[u] = "write" => fresh'[u] \subseteq report'[u]
             /\ pc'[u] = "write" => \A n \in report'[u] \ fresh'[u] : Stands(n)'
             /\ pc'[u] = "tell" => \A n \in report'[u] : Stands(n)'
  BY <1>1, <1>2 DEF Accounted, Typed
<1>3. CASE SaleHappens
  BY <1>2, <1>3 DEF Accounted, SaleHappens, taskVars
<1>4. ASSUME NEW t \in Tasks, NEW sales \in Reports, Report(t, sales)
      PROVE  Accounted'
  <2>1. pc'[t] = "read" /\ \A u \in Tasks \ {t} :
            pc'[u] = pc[u] /\ report'[u] = report[u] /\ fresh'[u] = fresh[u]
    BY <1>4 DEF Report, Typed
  <2>2. QED
    BY <1>2, <2>1 DEF Accounted
<1>5. ASSUME NEW t \in Tasks, ReadRecorded(t)
      PROVE  Accounted'
  <2>1. PICK rows \in NewestRows(Cardinality(report[t])) :
          LET left == {n \in report[t] : ~Recorded(n, rows)}
          IN  /\ fresh' = [fresh EXCEPT ![t] = left]
              /\ pc' = [pc EXCEPT ![t] = IF left = {} THEN "tell" ELSE "write"]
    BY <1>5 DEF ReadRecorded
  <2>2. /\ fresh'[t] = {n \in report[t] : ~Recorded(n, rows)}
        /\ pc'[t] = IF fresh'[t] = {} THEN "tell" ELSE "write"
        /\ report' = report /\ stored' = stored
        /\ \A u \in Tasks \ {t} : pc'[u] = pc[u] /\ fresh'[u] = fresh[u]
    BY <1>5, <2>1 DEF ReadRecorded, Typed
  <2>3. \A n \in report[t] \ fresh'[t] : Stands(n)'
    <3>1. rows \in SUBSET RowIds
      BY DEF NewestRows, kSubset
    <3>2. \A n \in report[t] \ fresh'[t] : Stands(n)
      BY <2>2, <3>1 DEF Recorded, Stands
    <3>3. QED
      BY <1>1, <3>2 DEF Typed
  <2>4. QED
    BY <1>2, <2>2, <2>3 DEF Accounted
<1>6. ASSUME NEW t \in Tasks, Insert(t)
      PROVE  Accounted'
  <2>1. /\ pc[t] = "write" /\ pc'[t] = "tell" /\ report' = report /\ fresh' = fresh
        /\ \A u \in Tasks \ {t} : pc'[u] = pc[u]
    BY <1>6 DEF Insert, Typed
  <2>2. \A n \in fresh[t] : Stands(n)'
    BY <1>6, InsertFact DEF Stands, RowIds
  <2>3. \A n \in report[t] \ fresh[t] : Stands(n)'
    BY <1>1, <2>1 DEF Accounted, Typed
  <2>4. QED
    BY <1>2, <2>1, <2>2, <2>3 DEF Accounted
<1>7. ASSUME NEW t \in Tasks, End(t)
      PROVE  Accounted'
  <2>1. pc'[t] = "idle" /\ \A u \in Tasks \ {t} :
            pc'[u] = pc[u] /\ report'[u] = report[u] /\ fresh'[u] = fresh[u]
    BY <1>7 DEF End, Typed
  <2>2. QED
    BY <1>2, <2>1 DEF Accounted
<1>8. CASE IngestEnds
  BY <1>8 DEF Accounted, IngestEnds
<1>9. QED
  BY <1>3, <1>4, <1>5, <1>6, <1>7, <1>8 DEF TaskStep

(* The report of a task that is alone leaves no sale out up to its newest.  *)
LEMMA OrderlyReport ==
    ASSUME Typed, Orderly, NEW t \in Tasks, NEW sales \in Reports, Report(t, sales)
    PROVE  Orderly'
<1> SUFFICES ASSUME ~disordered'
             PROVE  Orderly'
  BY DEF Orderly
<1>1. /\ ~disordered /\ ~Late(sales) /\ ~PartsSecond(sales)
      /\ \A u \in Tasks \ {t} : pc[u] = "idle"
      /\ stored' = stored /\ newest' = Max(sales \cup {newest})
  BY DEF Report
<1>2. /\ pc'[t] = "read" /\ report'[t] = sales
      /\ \A u \in Tasks \ {t} : pc'[u] = "idle"
  BY <1>1 DEF Report, Typed
<1>3. PICK first \in Sales, last \in 0 .. MaxSales : sales = first .. last
  BY DEF Reports
<1>4. /\ MaxSales \in Nat /\ first \in 1 .. MaxSales /\ newest \in 0 .. MaxSales
      /\ DateOf \in [Sales -> Nat]
      /\ \A m, n \in Sales : m < n => DateOf[m] <= DateOf[n]
  BY IngestAssumption DEF Sales, Typed
<1>5. newest' = IF first <= last /\ newest < last THEN last ELSE newest
  BY <1>1, <1>3, <1>4, ReportFact
<1>6. first <= last => newest <= last /\ newest' = last
  <2> SUFFICES ASSUME first <= last
               PROVE  newest <= last /\ newest' = last
    OBVIOUS
  <2>1. Max(sales) = last /\ sales # {}
    BY <1>3, <1>4, ReportFact
  <2>2. ~(last < newest)
    BY <1>1, <2>1 DEF Late
  <2>3. QED
    BY <1>4, <1>5, <2>2
<1>7. newest <= newest' /\ newest' \in 0 .. MaxSales
  BY <1>4, <1>5
<1>8. sales \subseteq 1 .. newest'
  BY <1>3, <1>4, <1>6, <1>7
<1>9. ASSUME NEW s \in sales, NEW m \in 1 .. newest', DateOf[m] >= DateOf[s]
      PROVE  m \in sales
  <2>1. first <= s /\ s <= last /\ s \in Sales /\ m \in Sales
    BY <1>3, <1>4, <1>7 DEF Sales
  <2>2. m <= last
    BY <1>4, <1>6, <1>7, <2>1
  <2>3. CASE first <= m
    BY <1>3, <2>2, <2>3, <1>7
  <2>4. CASE m < first
    <3>1. m < s /\ m \notin sales
      BY <1>3, <1>4, <1>7, <2>1, <2>4
    <3>2. DateOf[m] = DateOf[s]
      BY <1>4, <1>9, <2>1, <3>1
    <3>3. QED
      BY <1>1, <2>1, <3>1, <3>2 DEF PartsSecond
  <2>5. QED
    BY <2>3, <2>4, <1>4, <1>7
<1>10. \A a \in RowIds : stored[a] <= newest'
  <2>1. \A a \in RowIds : stored[a] <= newest /\ stored[a] \in Int
    BY <1>1, <1>4 DEF Orderly, Typed, RowIds, Sales
  <2>2. QED
    BY <2>1, <1>4, <1>7
<1>11. UpTo(t)'
  BY <1>2, <1>8, <1>9 DEF UpTo
<1>12. QED
  BY <1>1, <1>2, <1>8, <1>10, <1>11 DEF Orderly, Alone, RowIds

(* What is left of the report is not stored.                                *)
LEMMA OrderlyRead ==
    ASSUME Typed, Orderly, NEW t \in Tasks, ReadRecorded(t)
    PROVE  Orderly'
<1> SUFFICES ASSUME ~disordered'
             PROVE  Orderly'
  BY DEF Orderly
<1>1. PICK rows \in NewestRows(Cardinality(report[t])) :
          LET left == {n \in report[t] : ~Recorded(n, rows)}
          IN  /\ fresh' = [fresh EXCEPT ![t] = left]
              /\ pc' = [pc EXCEPT ![t] = IF left = {} THEN "tell" ELSE "write"]
  BY DEF ReadRecorded
<1>2. /\ pc[t] = "read" /\ pc'[t] \in {"write", "tell"}
      /\ fresh'[t] = {n \in report[t] : ~Recorded(n, rows)}
      /\ \A u \in Tasks \ {t} : pc'[u] = pc[u]
      /\ ~disordered /\ report' = report /\ stored' = stored /\ newest' = newest
  BY <1>1 DEF ReadRecorded, Typed
<1>3. \A u \in Tasks \ {t} : pc'[u] = "idle"
  BY <1>2 DEF Orderly, Alone
<1>4. \A a \in RowIds : stored[a] \notin fresh'[t]
  <2> SUFFICES ASSUME NEW a \in RowIds, stored[a] \in report[t]
               PROVE  Recorded(stored[a], rows)
    BY <1>2
  <2>1. a \in rows
    BY <1>2, LooksFarEnough
  <2>2. QED
    BY <2>1 DEF Recorded
<1>5. report[t] \subseteq 1 .. newest
  BY <1>2 DEF Orderly
<1>6. QED
  BY <1>2, <1>3, <1>4, <1>5 DEF Orderly, Alone, RowIds

LEMMA OrderlyInsert ==
    ASSUME Typed, Accounted, Orderly, NEW t \in Tasks, Insert(t)
    PROVE  Orderly'
<1> SUFFICES ASSUME ~disordered'
             PROVE  Orderly'
  BY DEF Orderly
<1>1. /\ pc[t] = "write" /\ pc'[t] = "tell" /\ \A u \in Tasks \ {t} : pc'[u] = pc[u]
      /\ ~disordered /\ report' = report /\ newest' = newest
  BY DEF Insert, Typed
<1>2. \A u \in Tasks \ {t} : pc'[u] = "idle"
  BY <1>1 DEF Orderly, Alone
<1>3. /\ RowIds \subseteq RowIds'
      /\ \A a \in RowIds : stored'[a] = stored[a]
      /\ \A a \in RowIds' \ RowIds : stored'[a] \in fresh[t]
      /\ \A a, b \in RowIds' \ RowIds : stored'[a] = stored'[b] => a = b
  BY InsertFact DEF RowIds
<1>4. \A a, b \in RowIds' : stored'[a] = stored'[b] => a = b
  BY <1>1, <1>3 DEF Orderly
<1>5. \A a \in RowIds' : stored'[a] <= newest
  <2>1. \A n \in fresh[t] : n <= newest
    BY <1>1 DEF Orderly, Accounted, Typed
  <2>2. QED
    BY <1>1, <1>3, <2>1 DEF Orderly
<1>6. QED
  BY <1>1, <1>2, <1>4, <1>5 DEF Orderly, Alone

LEMMA OrderlyStep ==
    ASSUME Typed, Accounted, Orderly, TaskStep
    PROVE  Orderly'
<1>1. ASSUME NEW t \in Tasks, End(t)
      PROVE  Orderly'
  <2>1. pc'[t] = "idle" /\ \A u \in Tasks \ {t} :
            pc'[u] = pc[u] /\ report'[u] = report[u] /\ fresh'[u] = fresh[u]
    BY <1>1 DEF End, Typed
  <2>2. QED
    BY <1>1, <2>1 DEF Orderly, Alone, UpTo, End, RowIds
<1>2. CASE IngestEnds
  BY <1>2 DEF IngestEnds, Orderly, Alone, RowIds
<1>3. CASE SaleHappens
  BY <1>3 DEF SaleHappens, taskVars, Orderly, Alone, UpTo, RowIds
<1>4. QED
  BY <1>1, <1>2, <1>3, OrderlyReport, OrderlyRead, OrderlyInsert DEF TaskStep

-----------------------------------------------------------------------------

(* Rows keep their months, and a row of a month whose chunk has been read   *)
(* is late.                                                                 *)
LEMMA LateFact ==
    ASSUME Typed, Next
    PROVE  /\ \A r \in RowIds : r \in RowIds' /\ MonthOfRow(r)' = MonthOfRow(r)
           /\ \A r \in RowIds' \ RowIds : MonthOfRow(r)' \in Read => r \in late'
<1>1. \A r \in RowIds : r \in RowIds' /\ MonthOfRow(r)' = MonthOfRow(r)
  BY StoredGrows DEF MonthOfRow, DateOfRow
<1>2. CASE Ingest
  BY <1>1, <1>2 DEF Ingest, MonthOfRow, DateOfRow, RowIds
<1>3. CASE UNCHANGED stored
  BY <1>1, <1>3 DEF RowIds
<1>4. QED
  BY <1>2, <1>3, <1>1 DEF Next, MonthTurns, Announce, End, Subscribe, Query,
     LoadRow, LoadEnds, Hear, LookAt, Save, Restore,
     WriterDecides, EndProcess, IngestEnds, JobStarts, ChunkSkipped, ChunkRead,
     ChunkInserted, ChunkMarked, JobFails, ingestVars

(* What is whole stays so, as long as no row is late no more.               *)
LEMMA WholeStep ==
    ASSUME Typed, Next, late \subseteq late', NEW m \in Read, NEW rows, NEW more,
           Whole(m, rows), rows \subseteq more
    PROVE  \A r \in RowIds' : MonthOfRow(r)' = m => r \in more \cup late'
BY LateFact DEF Whole

LEMMA ChunkedStep ==
    ASSUME Typed, Chunked, Next
    PROVE  Chunked'
<1>1. CASE UNCHANGED jobVars /\ late \subseteq late'
  <2>1. \A m \in done : Whole(m, copied)'
    <3> TAKE m \in done
    <3>1. m \in Read /\ Whole(m, copied) /\ copied' = copied
      BY <1>1 DEF Read, Chunked, jobVars
    <3>2. QED
      BY <1>1, <3>1, WholeStep DEF Whole
  <2>2. CASE job = "insert"
    <3>1. chunk \in Read /\ Whole(chunk, read) /\ read' = read /\ chunk' = chunk
      BY <1>1, <2>2 DEF Read, Chunked, jobVars
    <3>2. Whole(chunk, read)'
      BY <1>1, <3>1, WholeStep DEF Whole
    <3>3. QED
      BY <1>1, <2>1, <2>2, <3>2 DEF Chunked, jobVars
  <2>3. CASE job = "mark"
    <3>1. chunk \in Read /\ Whole(chunk, copied) /\ copied' = copied /\ chunk' = chunk
      BY <1>1, <2>3 DEF Read, Chunked, jobVars
    <3>2. Whole(chunk, copied)'
      BY <1>1, <3>1, WholeStep DEF Whole
    <3>3. QED
      BY <1>1, <2>1, <2>3, <3>2 DEF Chunked, jobVars
  <2>4. QED
    BY <1>1, <2>1, <2>2, <2>3 DEF Chunked, jobVars
<1>2. CASE ChunkRead
  <2>1. /\ stored' = stored /\ copied' = copied /\ done' = done /\ chunk' = chunk
        /\ job' = "insert" /\ chunk \notin done
        /\ read' = {r \in RowIds : MonthOfRow(r) = chunk}
        /\ late' = late \ {r \in RowIds : MonthOfRow(r) = chunk}
    BY <1>2 DEF ChunkRead, ingestVars
  <2>2. RowIds' = RowIds /\ \A r \in RowIds : MonthOfRow(r)' = MonthOfRow(r)
    BY <2>1 DEF RowIds, MonthOfRow, DateOfRow
  <2>3. \A m \in done : \A r \in RowIds' : MonthOfRow(r)' = m => r \in copied \cup late'
    <3> TAKE m \in done
    <3> TAKE r \in RowIds'
    <3> HAVE MonthOfRow(r)' = m
    <3>1. r \in copied \cup late /\ MonthOfRow(r) # chunk
      BY <2>1, <2>2 DEF Chunked, Whole
    <3>2. QED
      BY <2>1, <3>1
  <2>4. \A r \in RowIds' : MonthOfRow(r)' = chunk => r \in read' \cup late'
    BY <2>1, <2>2
  <2>5. QED
    BY <2>1, <2>3, <2>4 DEF Chunked, Whole
<1>3. CASE JobStarts \/ ChunkSkipped \/ ChunkInserted \/ ChunkMarked \/ JobFails
  <2>1. stored' = stored /\ late' = late
    BY <1>3 DEF JobStarts, ChunkSkipped, ChunkInserted, ChunkMarked, JobFails, ingestVars
  <2>2. RowIds' = RowIds /\ \A r \in RowIds : MonthOfRow(r)' = MonthOfRow(r)
    BY <2>1 DEF RowIds, MonthOfRow, DateOfRow
  <2>3. \A m, rows : Whole(m, rows) =>
            \A more : rows \subseteq more =>
                \A r \in RowIds' : MonthOfRow(r)' = m => r \in more \cup late'
    BY <2>1, <2>2 DEF Whole
  <2>4. CASE JobStarts
    BY <2>4, <2>3 DEF JobStarts, Chunked, Whole
  <2>5. CASE ChunkSkipped
    BY <2>5, <2>3 DEF ChunkSkipped, NextChunk, Chunked, Whole
  <2>6. CASE ChunkInserted
    <3>1. /\ job = "insert" /\ job' = "mark" /\ chunk' = chunk /\ done' = done
          /\ copied \subseteq copied' /\ read \subseteq copied'
      BY <2>6 DEF ChunkInserted
    <3>2. QED
      BY <3>1, <2>3 DEF Chunked, Whole
  <2>7. CASE ChunkMarked
    <3>1. /\ job = "mark" /\ job' \notin {"insert", "mark"} /\ done' = done \cup {chunk}
          /\ copied' = copied
      BY <2>7 DEF ChunkMarked, NextChunk
    <3>2. QED
      BY <3>1, <2>3 DEF Chunked, Whole
  <2>8. CASE JobFails
    <3>1. job' = "idle" /\ done' = done /\ copied \subseteq copied'
      BY <2>8 DEF JobFails
    <3>2. QED
      BY <3>1, <2>3 DEF Chunked, Whole
  <2>9. QED
    BY <1>3, <2>4, <2>5, <2>6, <2>7, <2>8
<1>4. QED
  BY <1>1, <1>2, <1>3 DEF Next, MonthTurns, Ingest, Announce, Subscribe, Query,
     LoadRow, LoadEnds, Hear, LookAt, WriterDecides, Save, Restore, EndProcess

-----------------------------------------------------------------------------

(* The invariant, and what the runs look at.                                *)
LEMMA Invariant == Spec => []IInv
<1>1. Init => IInv
  <2> SUFFICES ASSUME Init
               PROVE  IInv
    OBVIOUS
  <2>1. stored = <<>> /\ RowIds = {}
    BY DEF Init, IngestInit, RowIds
  <2>2. Typed
    BY <2>1, IngestAssumption DEF Init, IngestInit, Typed
  <2>3. Accounted /\ Orderly
    BY <2>1 DEF Init, IngestInit, Accounted, Orderly, Alone
  <2>4. Chunked
    BY <2>1 DEF Init, Chunked, Whole
  <2>5. QED
    BY <2>2, <2>3, <2>4 DEF IInv
<1>2. IInv /\ [Next]_vars => IInv'
  <2>1. ASSUME IInv, Next
        PROVE  IInv'
    <3>1. Typed' /\ Accounted' /\ Orderly'
      <4>1. CASE TaskStep
        BY <2>1, <4>1, TypedStep, AccountedStep, OrderlyStep DEF IInv
      <4>2. CASE UNCHANGED ingestVars
        <5>1. UNCHANGED <<stored, pc, report, fresh, newest, disordered>>
          BY <4>2 DEF ingestVars, taskVars
        <5>2. QED
          BY <2>1, <5>1 DEF IInv, Typed, Accounted, Stands, Orderly, Alone, UpTo, RowIds, View
      <4>3. QED
        BY <2>1, <4>1, <4>2, StepFact
    <3>2. Chunked'
      BY <2>1, ChunkedStep DEF IInv
    <3>3. QED
      BY <3>1, <3>2 DEF IInv
  <2>2. ASSUME IInv, UNCHANGED vars
        PROVE  IInv'
    <3>1. UNCHANGED <<stored, pc, report, fresh, newest, disordered>>
      BY <2>2 DEF vars, ingestVars, taskVars
    <3>2. UNCHANGED <<job, chunk, read, copied, done, late>>
      BY <2>2 DEF vars, jobVars
    <3>3. Typed' /\ Accounted' /\ Orderly'
      BY <2>2, <3>1 DEF IInv, Typed, Accounted, Stands, Orderly, Alone, UpTo, RowIds, View
    <3>4. Chunked'
      BY <2>2, <3>1, <3>2 DEF IInv, Chunked, Whole, RowIds, MonthOfRow, DateOfRow
    <3>5. QED
      BY <3>3, <3>4 DEF IInv
  <2>3. QED
    BY <2>1, <2>2
<1>3. QED
  BY <1>1, <1>2, PTL DEF Spec

(* update_sales stores no sale twice while reports come one at a time, in   *)
(* order, and do not part sales of a second: the rows it looks at reach     *)
(* back to every sale of the report that is stored.                         *)
THEOREM StoresOnce == Spec => []OrderlyReportsStoreOnce
<1>1. IInv => OrderlyReportsStoreOnce
  BY DEF IInv, Orderly, OrderlyReportsStoreOnce
<1>2. QED
  BY <1>1, Invariant, PTL

(* When update_sales has its result every sale of the report is in          *)
(* sale_history, whatever other reports have inserted meanwhile.            *)
THEOREM StoresReported == Spec => []ReportedIsStored
<1>1. IInv => ReportedIsStored
  BY DEF IInv, Accounted, Stands, ReportedIsStored
<1>2. QED
  BY <1>1, Invariant, PTL

(* A month in _backfill_state has been copied whole, but for rows stored    *)
(* after it was read.                                                       *)
THEOREM MarksWholeMonths == Spec => []DoneMonthIsWhole
<1>1. IInv => DoneMonthIsWhole
  BY DEF IInv, Chunked, Whole, DoneMonthIsWhole
<1>2. QED
  BY <1>1, Invariant, PTL

-----------------------------------------------------------------------------
(* The history of the analyzer.  First, facts about sequences and numbers.  *)

(* Of finitely many things one has the greatest number.                     *)
LEMMA Greatest ==
    ASSUME NEW S, IsFiniteSet(S), S # {}, NEW f \in [S -> Nat]
    PROVE  \E x \in S : \A y \in S : f[y] <= f[x]
<1> DEFINE Above(x) == {y \in S : f[y] > f[x]}
           T == {Above(x) : x \in S}
<1>1. \A x \in S : Above(x) \in SUBSET S
  OBVIOUS
<1>2. \A x \in S : Above(x) \in FiniteSubsetsOf(S)
  BY <1>1, FS_Subset, Zenon DEF FiniteSubsetsOf
<1>3. T \subseteq FiniteSubsetsOf(S) /\ T # {}
  <2>1. T \subseteq FiniteSubsetsOf(S)
    BY <1>2, Zenon
  <2>2. PICK x \in S : TRUE
    OBVIOUS
  <2>3. Above(x) \in T
    BY <2>2
  <2>4. QED
    BY <2>1, <2>3, Zenon
<1>4. IsWellFoundedOn(StrictSubsetOrdering(S), FiniteSubsetsOf(S))
  BY FS_StrictSubsetOrderingWellFounded
<1>5. PICK U \in T : \A V \in T : ~ (<<V, U>> \in StrictSubsetOrdering(S))
  <2> DEFINE R == StrictSubsetOrdering(S)
             F == FiniteSubsetsOf(S)
  <2> SUFFICES \E U \in T : \A V \in T : ~ (<<V, U>> \in R)
    OBVIOUS
  <2>1. IsWellFoundedOn(R, F) /\ T \subseteq F /\ T # {}
    BY <1>3, <1>4
  <2> HIDE DEF T, R, F
  <2>2. QED
    BY <2>1, WFMin, Zenon
<1>6. PICK x \in S : U = Above(x)
  BY <1>5
<1>7. ASSUME NEW y \in S, ~ (f[y] <= f[x])
      PROVE  FALSE
  <2>1. f[x] \in Nat /\ f[y] \in Nat /\ \A z \in S : f[z] \in Nat
    OBVIOUS
  <2>2. Above(y) \subseteq Above(x) /\ y \in Above(x) /\ y \notin Above(y)
    BY <1>7, <2>1
  <2>3. <<Above(y), Above(x)>> \in StrictSubsetOrdering(S)
    BY <2>2 DEF StrictSubsetOrdering
  <2>4. QED
    BY <1>5, <1>6, <2>3
<1>8. QED
  BY <1>7

(* A set of positions that has with each the ones before it is a prefix.    *)
LEMMA PrefixFact ==
    ASSUME NEW n \in Nat, NEW S \in SUBSET (1 .. n), \A i \in S : \A j \in 1 .. i : j \in S
    PROVE  Cardinality(S) \in 0 .. n /\ S = 1 .. Cardinality(S)
<1>1. IsFiniteSet(S)
  <2>1. IsFiniteSet(1 .. n)
    BY FS_Interval
  <2>2. QED
    BY <2>1, FS_Subset
<1>2. CASE S = {}
  BY <1>2, FS_EmptySet
<1>3. CASE S # {}
  <2> DEFINE f == [x \in S |-> x]
  <2>1. f \in [S -> Nat]
    OBVIOUS
  <2>2. PICK m \in S : \A y \in S : f[y] <= f[m]
    <3> HIDE DEF f
    <3> QED
      BY <1>1, <1>3, <2>1, Greatest
  <2>3. m \in 1 .. n /\ \A y \in S : y \in Nat \ {0} /\ y <= m
    BY <2>2
  <2>4. S = 1 .. m
    <3>1. \A j \in 1 .. m : j \in S
      BY <2>2
    <3>2. \A y \in S : y \in 1 .. m
      BY <2>3
    <3>3. QED
      BY <3>1, <3>2
  <2>5. Cardinality(1 .. m) = m
    BY <2>3, FS_Interval
  <2>6. QED
    BY <2>3, <2>4, <2>5
<1>4. QED
  BY <1>2, <1>3

(* One sequence after the other.                                            *)
LEMMA ConcatFact ==
    ASSUME NEW S, NEW p \in Seq(S), NEW q \in Seq(S), NEW c, c = p \o q
    PROVE  /\ c \in Seq(S) /\ Len(c) = Len(p) + Len(q)
           /\ \A j \in 1 .. Len(p) : c[j] = p[j]
           /\ \A j \in 1 .. Len(q) : c[Len(p) + j] = q[j]
OBVIOUS

(* A piece of a sequence.                                                   *)
LEMMA PieceFact ==
    ASSUME NEW S, NEW s \in Seq(S), NEW a \in 1 .. Len(s) + 1, NEW b \in a - 1 .. Len(s),
           NEW p, p = SubSeq(s, a, b)
    PROVE  /\ p \in Seq(S) /\ Len(p) = b - a + 1
           /\ \A j \in 1 .. b - a + 1 : p[j] = s[a + j - 1]
<1>1. \A j \in a .. b : s[j] \in S
  OBVIOUS
<1>2. p = [j \in 1 .. b - a + 1 |-> s[a + j - 1]]
  OBVIOUS
<1>3. QED
  BY <1>1, <1>2

(* What is put into a sequence comes before what was there.                 *)
InsertedAt(s, i, e, r) ==
    /\ Len(r) = Len(s) + 1
    /\ \A j \in 1 .. i - 1 : r[j] = s[j]
    /\ r[i] = e
    /\ \A j \in i + 1 .. Len(s) + 1 : r[j] = s[j - 1]

(* That is what InsertAt returns.                                           *)
LEMMA InsertAtFact ==
    ASSUME NEW S, NEW s \in Seq(S), NEW i \in 1 .. Len(s) + 1, NEW e \in S,
           NEW r, r = InsertAt(s, i, e)
    PROVE  r \in Seq(S) /\ InsertedAt(s, i, e, r)
<1>1. Len(s) \in Nat /\ i \in Int
  OBVIOUS
<1>2. PICK p : p = SubSeq(s, 1, i - 1)
  OBVIOUS
<1>3. PICK q : q = SubSeq(s, i, Len(s))
  OBVIOUS
<1>4. /\ p \in Seq(S) /\ Len(p) = i - 1
      /\ \A j \in 1 .. i - 1 : p[j] = s[j]
  BY <1>1, <1>2, PieceFact
<1>5. /\ q \in Seq(S) /\ Len(q) = Len(s) - i + 1
      /\ \A j \in 1 .. Len(s) - i + 1 : q[j] = s[i + j - 1]
  BY <1>1, <1>3, PieceFact
<1>6. PICK c : c = p \o <<e>>
  OBVIOUS
<1>7. /\ c \in Seq(S) /\ Len(c) = i /\ c[i] = e
      /\ \A j \in 1 .. i - 1 : c[j] = s[j]
  BY <1>1, <1>4, <1>6
<1>8. r = c \o q
  BY <1>2, <1>3, <1>6 DEF InsertAt
<1>9. /\ r \in Seq(S) /\ Len(r) = Len(s) + 1
      /\ \A j \in 1 .. i : r[j] = c[j]
      /\ \A j \in 1 .. Len(s) - i + 1 : r[i + j] = q[j]
  BY <1>1, <1>5, <1>7, <1>8, ConcatFact
<1>10. ASSUME NEW j \in i + 1 .. Len(s) + 1
       PROVE  r[j] = s[j - 1]
  <2>1. j - i \in 1 .. Len(s) - i + 1 /\ i + (j - i) = j /\ i + (j - i) - 1 = j - 1
    BY <1>1
  <2>2. QED
    BY <1>5, <1>9, <2>1
<1>11. QED
  BY <1>1, <1>7, <1>9, <1>10 DEF InsertedAt

-----------------------------------------------------------------------------
(* add_sale.                                                                *)

Held(s, r) == \E i \in DOMAIN s : s[i] = r

Once(s) == \A i, j \in DOMAIN s : s[i] = s[j] => i = j

(* These are the newest rows of some, in order: as many as there is room    *)
(* for, and none of the others is newer.                                    *)
NewestOf(rows, D) ==
    /\ \A i, j \in DOMAIN rows : i < j => DateOfRow(rows[i]) >= DateOfRow(rows[j])
    /\ Once(rows)
    /\ \A i \in DOMAIN rows : rows[i] \in D
    /\ Len(rows) < HistorySize => \A r \in D : Held(rows, r)
    /\ \A r \in D : Held(rows, r) \/ \A i \in DOMAIN rows : DateOfRow(rows[i]) >= DateOfRow(r)

(* Rows have dates.                                                         *)
LEMMA DateFact ==
    ASSUME Typed
    PROVE  \A r \in RowIds : DateOfRow(r) \in Nat
BY IngestAssumption DEF Typed, RowIds, DateOfRow

(* What add_sale does with a row: it goes where it belongs, and when the    *)
(* history is full the last row goes, or the new one.                       *)
PutAt(rows, kept, r, k, n) ==
    /\ k \in 0 .. n /\ n <= Len(rows) /\ n < HistorySize
    /\ n = Len(rows) \/ (n = HistorySize - 1 /\ Len(rows) = HistorySize
                           /\ DateOfRow(rows[HistorySize]) < DateOfRow(r))
    /\ Len(kept) = n + 1
    /\ \A j \in 1 .. k : kept[j] = rows[j]
    /\ kept[k + 1] = r
    /\ \A j \in k + 2 .. n + 1 : kept[j] = rows[j - 1]

Older(rows, r) == {i \in DOMAIN rows : DateOfRow(rows[i]) >= DateOfRow(r)}

(* These are all the cases there are.                                       *)
LEMMA KeptFact ==
    ASSUME Typed, NEW rows \in Seq(RowIds), Len(rows) <= HistorySize, NEW r \in RowIds,
           NEW kept, kept = Kept(rows, r)
    PROVE  /\ kept \in Seq(RowIds)
           /\ \/ /\ kept = rows /\ Len(rows) = HistorySize
                 /\ DateOfRow(rows[HistorySize]) >= DateOfRow(r)
              \/ \E n \in Nat : PutAt(rows, kept, r, Cardinality(Older(rows, r)), n)
<1>1. HistorySize \in Nat \ {0} /\ Len(rows) \in Nat /\ DOMAIN rows = 1 .. Len(rows)
  BY MirrorAssumption
<1>2. \A i \in 1 .. Len(rows) : rows[i] \in RowIds /\ DateOfRow(rows[i]) \in Nat
  BY <1>1, DateFact
<1>3. DateOfRow(r) \in Nat
  BY DateFact
<1>4. PICK S : S = Older(rows, r)
  OBVIOUS
<1>5. /\ S \in SUBSET (1 .. Len(rows)) /\ IsFiniteSet(S) /\ Cardinality(S) \in Nat
      /\ Cardinality(S) <= Len(rows)
      /\ Cardinality(S) = Len(rows) => S = 1 .. Len(rows)
  <2>1. IsFiniteSet(1 .. Len(rows)) /\ Cardinality(1 .. Len(rows)) = Len(rows)
    <3>1. \A n \in Nat : IsFiniteSet(1 .. n) /\ Cardinality(1 .. n) = n
      BY FS_Interval
    <3>2. QED
      BY <1>1, <3>1
  <2>2. S \in SUBSET (1 .. Len(rows))
    BY <1>1, <1>4 DEF Older
  <2>3. QED
    BY <2>1, <2>2, FS_Subset, FS_CardinalityType
<1>6. PICK k \in Nat : k = Cardinality(S)
  BY <1>5
<1>a. k \in 0 .. Len(rows)
  <2>1. Cardinality(S) \in Nat /\ Cardinality(S) <= Len(rows)
    BY <1>5
  <2>2. QED
    BY <1>1, <1>6, <2>1
<1>b. PICK at \in Nat : at = k + 1
  BY <1>6
<1>7. kept = IF Len(rows) # HistorySize THEN InsertAt(rows, at, r)
             ELSE IF DateOfRow(Last(rows)) < DateOfRow(r) THEN InsertAt(Front(rows), at, r)
             ELSE rows
  BY <1>4, <1>6, <1>b DEF Kept, Older
<1>8. CASE Len(rows) # HistorySize
  <2>1. at \in 1 .. Len(rows) + 1 /\ Len(rows) < HistorySize
    <3>1. at \in 1 .. Len(rows) + 1
      BY <1>1, <1>a, <1>b
    <3>2. Len(rows) < HistorySize
      <4>1. Len(rows) \in Int /\ HistorySize \in Int /\ Len(rows) <= HistorySize
        BY <1>1
      <4>2. QED
        BY <4>1, <1>8
    <3>3. QED
      BY <3>1, <3>2
  <2>2. kept = InsertAt(rows, at, r)
    BY <1>7, <1>8
  <2>3. /\ kept \in Seq(RowIds) /\ Len(kept) = Len(rows) + 1
        /\ \A j \in 1 .. at - 1 : kept[j] = rows[j]
        /\ kept[at] = r
        /\ \A j \in at + 1 .. Len(rows) + 1 : kept[j] = rows[j - 1]
    <3>1. kept \in Seq(RowIds) /\ InsertedAt(rows, at, r, kept)
      BY <2>1, <2>2, InsertAtFact
    <3>2. QED
      BY <3>1 DEF InsertedAt
  <2>4. PutAt(rows, kept, r, k, Len(rows))
    BY <1>1, <1>a, <1>b, <2>1, <2>3 DEF PutAt
  <2>5. QED
    BY <1>1, <1>4, <1>6, <2>3, <2>4
<1>9. CASE Len(rows) = HistorySize /\ ~ (DateOfRow(rows[HistorySize]) < DateOfRow(r))
  BY <1>1, <1>2, <1>3, <1>7, <1>9 DEF Last
<1>10. CASE Len(rows) = HistorySize /\ DateOfRow(rows[HistorySize]) < DateOfRow(r)
  <2>1. PICK front : front = Front(rows)
    OBVIOUS
  <2>2. /\ front \in Seq(RowIds) /\ Len(front) = HistorySize - 1
        /\ \A j \in 1 .. HistorySize - 1 : front[j] = rows[j]
    BY <1>1, <1>10, <2>1, PieceFact DEF Front
  <2>3. k <= HistorySize - 1
    <3>1. HistorySize \notin S
      BY <1>1, <1>2, <1>3, <1>4, <1>10 DEF Older
    <3>2. QED
      BY <1>1, <1>5, <1>6, <1>10, <3>1
  <2>4. kept = InsertAt(front, at, r)
    BY <1>7, <1>10, <2>1 DEF Last
  <2>5. at \in 1 .. Len(front) + 1
    BY <1>1, <1>b, <2>2, <2>3
  <2>6. /\ kept \in Seq(RowIds) /\ Len(kept) = Len(front) + 1
        /\ \A j \in 1 .. at - 1 : kept[j] = front[j]
        /\ kept[at] = r
        /\ \A j \in at + 1 .. Len(front) + 1 : kept[j] = front[j - 1]
    <3>1. kept \in Seq(RowIds) /\ InsertedAt(front, at, r, kept)
      BY <2>2, <2>4, <2>5, InsertAtFact
    <3>2. QED
      BY <3>1 DEF InsertedAt
  <2>7. PICK n \in Nat : n = HistorySize - 1
    BY <1>1
  <2>8. PutAt(rows, kept, r, k, n)
    <3>1. k \in 0 .. n /\ n <= Len(rows) /\ n < HistorySize /\ Len(kept) = n + 1
      BY <1>1, <1>10, <2>2, <2>3, <2>6, <2>7
    <3>2. \A j \in 1 .. k : kept[j] = rows[j]
      BY <1>1, <1>b, <2>2, <2>3, <2>6
    <3>3. \A j \in k + 2 .. n + 1 : kept[j] = rows[j - 1]
      <4>1. ASSUME NEW j \in k + 2 .. n + 1
            PROVE  kept[j] = rows[j - 1]
        <5>1. j \in at + 1 .. Len(front) + 1 /\ j - 1 \in 1 .. HistorySize - 1
          BY <1>1, <1>b, <2>2, <2>7
        <5>2. QED
          BY <2>2, <2>6, <5>1
      <4>2. QED
        BY <4>1
    <3>4. kept[k + 1] = r
      BY <1>b, <2>6
    <3>5. QED
      BY <1>10, <2>7, <3>1, <3>2, <3>3, <3>4 DEF PutAt
  <2>9. QED
    BY <1>4, <1>6, <2>6, <2>8
<1>11. QED
  BY <1>1, <1>2, <1>3, <1>8, <1>9, <1>10

(* The history stays inside its size.                                       *)
LEMMA KeptTyped ==
    ASSUME Typed, NEW rows \in Seq(RowIds), Len(rows) <= HistorySize, NEW r \in RowIds,
           NEW kept, kept = Kept(rows, r)
    PROVE  kept \in Seq(RowIds) /\ Len(kept) <= HistorySize
<1>1. kept \in Seq(RowIds)
  BY KeptFact
<1>2. kept = rows \/ \E n \in Nat : PutAt(rows, kept, r, Cardinality(Older(rows, r)), n)
  BY KeptFact
<1>3. ASSUME NEW n \in Nat, PutAt(rows, kept, r, Cardinality(Older(rows, r)), n)
      PROVE  Len(kept) <= HistorySize
  <2>1. Len(kept) = n + 1 /\ n < HistorySize
    BY <1>3 DEF PutAt
  <2>2. QED
    BY <2>1, MirrorAssumption
<1>4. QED
  BY <1>1, <1>2, <1>3

(* In a history in order the rows at least as new as another come first.    *)
LEMMA OlderFact ==
    ASSUME Typed, NEW rows \in Seq(RowIds), NEW r \in RowIds,
           \A i, j \in DOMAIN rows : i < j => DateOfRow(rows[i]) >= DateOfRow(rows[j]),
           NEW k, k = Cardinality(Older(rows, r))
    PROVE  /\ k \in Nat /\ k <= Len(rows)
           /\ \A i \in DOMAIN rows : DateOfRow(rows[i]) >= DateOfRow(r) <=> i <= k
<1>1. Len(rows) \in Nat /\ DOMAIN rows = 1 .. Len(rows)
  OBVIOUS
<1>2. \A i \in 1 .. Len(rows) : DateOfRow(rows[i]) \in Nat
  BY <1>1, DateFact
<1>3. DateOfRow(r) \in Nat
  BY DateFact
<1>4. PICK S : S = Older(rows, r)
  OBVIOUS
<1>5. S \in SUBSET (1 .. Len(rows))
  BY <1>1, <1>4 DEF Older
<1>6. ASSUME NEW i \in S, NEW j \in 1 .. i
      PROVE  j \in S
  <2>1. i \in 1 .. Len(rows) /\ j \in 1 .. Len(rows) /\ DateOfRow(rows[i]) >= DateOfRow(r)
    BY <1>1, <1>4, <1>5, <1>6 DEF Older
  <2>2. i = j \/ DateOfRow(rows[j]) >= DateOfRow(rows[i])
    BY <1>1, <1>6, <2>1
  <2>3. DateOfRow(rows[j]) >= DateOfRow(r)
    BY <1>2, <1>3, <2>1, <2>2
  <2>4. QED
    BY <1>1, <1>4, <2>1, <2>3 DEF Older
<1>7. Cardinality(S) \in 0 .. Len(rows) /\ S = 1 .. Cardinality(S)
  BY <1>1, <1>5, <1>6, PrefixFact
<1>8. k \in 0 .. Len(rows) /\ S = 1 .. k
  BY <1>4, <1>7
<1>9. \A i \in DOMAIN rows : DateOfRow(rows[i]) >= DateOfRow(r) <=> i \in S
  BY <1>4 DEF Older
<1>10. QED
  BY <1>1, <1>8, <1>9

(* add_sale keeps the newest.                                               *)
LEMMA NewestStep ==
    ASSUME Typed, NEW rows \in Seq(RowIds), Len(rows) <= HistorySize,
           NEW D \in SUBSET RowIds, NewestOf(rows, D), NEW r \in RowIds \ D,
           NEW kept, kept = Kept(rows, r)
    PROVE  NewestOf(kept, D \cup {r})
<1>1. HistorySize \in Nat \ {0} /\ Len(rows) \in Nat /\ DOMAIN rows = 1 .. Len(rows)
  BY MirrorAssumption
<1>2. \A i \in 1 .. Len(rows) : rows[i] \in D /\ DateOfRow(rows[i]) \in Nat
  BY <1>1, DateFact DEF NewestOf
<1>3. DateOfRow(r) \in Nat /\ \A x \in D : DateOfRow(x) \in Nat
  BY DateFact
<1>4. \A i, j \in 1 .. Len(rows) : i < j => DateOfRow(rows[i]) >= DateOfRow(rows[j])
  BY <1>1 DEF NewestOf
<1>5. kept \in Seq(RowIds)
  BY KeptFact
<1>6. CASE kept = rows /\ Len(rows) = HistorySize
             /\ DateOfRow(rows[HistorySize]) >= DateOfRow(r)
  <2>1. \A i \in 1 .. Len(rows) : DateOfRow(rows[i]) >= DateOfRow(r)
    <3> TAKE i \in 1 .. Len(rows)
    <3>1. HistorySize \in 1 .. Len(rows) /\ (i = HistorySize \/ i < HistorySize)
      BY <1>1, <1>6
    <3>2. i = HistorySize \/ DateOfRow(rows[i]) >= DateOfRow(rows[HistorySize])
      BY <1>4, <3>1
    <3>3. QED
      BY <1>2, <1>3, <1>6, <3>1, <3>2
  <2>2. QED
    BY <1>1, <1>6, <2>1 DEF NewestOf
<1>7. ASSUME NEW n \in Nat, PutAt(rows, kept, r, Cardinality(Older(rows, r)), n)
      PROVE  NewestOf(kept, D \cup {r})
  <2>1. PICK k : k = Cardinality(Older(rows, r))
    OBVIOUS
  <2>2. /\ k \in Nat /\ k <= Len(rows)
        /\ \A i \in DOMAIN rows : DateOfRow(rows[i]) >= DateOfRow(r) <=> i <= k
    BY <1>1, <1>4, <2>1, OlderFact
  <2>3. PutAt(rows, kept, r, k, n)
    BY <1>7, <2>1
  <2>4. k <= n /\ n <= Len(rows) /\ n < HistorySize
    BY <2>2, <2>3 DEF PutAt
  <2>5. /\ Len(kept) = n + 1 /\ DOMAIN kept = 1 .. n + 1
        /\ \A j \in 1 .. k : kept[j] = rows[j]
        /\ kept[k + 1] = r
        /\ \A j \in k + 2 .. n + 1 : kept[j] = rows[j - 1]
    BY <1>5, <2>3 DEF PutAt
  <2>6. ASSUME NEW i \in 1 .. n + 1, NEW j \in 1 .. n + 1, i < j
        PROVE  DateOfRow(kept[i]) >= DateOfRow(kept[j])
    <3>1. CASE j <= k
      BY <1>4, <2>2, <2>5, <2>6, <3>1, <1>1
    <3>2. CASE i <= k /\ j = k + 1
      BY <1>1, <2>2, <2>5, <2>6, <3>2
    <3>3. CASE i <= k /\ j >= k + 2
      <4>1. j - 1 \in 1 .. Len(rows) /\ i \in 1 .. Len(rows) /\ i < j - 1
        BY <1>1, <2>2, <2>4, <3>3
      <4>2. kept[i] = rows[i] /\ kept[j] = rows[j - 1]
        BY <2>2, <2>5, <2>6, <3>3
      <4>3. QED
        BY <1>4, <4>1, <4>2
    <3>4. CASE i = k + 1
      <4>1. j - 1 \in 1 .. Len(rows) /\ ~ (j - 1 <= k)
        BY <1>1, <2>2, <2>4, <2>6, <3>4
      <4>2. kept[i] = r /\ kept[j] = rows[j - 1]
        BY <2>2, <2>5, <2>6, <3>4
      <4>3. ~ (DateOfRow(rows[j - 1]) >= DateOfRow(r))
        BY <1>1, <2>2, <4>1
      <4>4. QED
        BY <1>2, <1>3, <4>1, <4>2, <4>3
    <3>5. CASE i >= k + 2
      <4>1. j - 1 \in 1 .. Len(rows) /\ i - 1 \in 1 .. Len(rows) /\ i - 1 < j - 1
        BY <1>1, <2>2, <2>4, <2>6, <3>5
      <4>2. kept[i] = rows[i - 1] /\ kept[j] = rows[j - 1]
        BY <2>2, <2>5, <2>6, <3>5
      <4>3. QED
        BY <1>4, <4>1, <4>2
    <3>6. QED
      BY <2>2, <2>6, <3>1, <3>2, <3>3, <3>4, <3>5
  <2>7. \A j \in 1 .. n + 1 : kept[j] \in D \cup {r}
    <3> TAKE j \in 1 .. n + 1
    <3>1. CASE j <= k
      BY <1>1, <1>2, <2>2, <2>5, <3>1
    <3>2. CASE j = k + 1
      BY <2>5, <3>2
    <3>3. CASE j >= k + 2
      <4>1. kept[j] = rows[j - 1] /\ j - 1 \in 1 .. Len(rows)
        BY <1>1, <2>2, <2>4, <2>5, <3>3
      <4>2. QED
        BY <1>2, <4>1
    <3>4. QED
      BY <2>2, <3>1, <3>2, <3>3
  <2>8. Once(kept)
    <3> SUFFICES ASSUME NEW i \in 1 .. n + 1, NEW j \in 1 .. n + 1, kept[i] = kept[j]
                 PROVE  i = j
      BY <2>5 DEF Once
    <3> DEFINE at(x) == IF x <= k THEN x ELSE x - 1
    <3>1. ASSUME NEW x \in 1 .. n + 1, x # k + 1
          PROVE  at(x) \in 1 .. Len(rows) /\ kept[x] = rows[at(x)] /\ kept[x] # r
      <4>1. at(x) \in 1 .. Len(rows)
        BY <1>1, <2>2, <2>4, <3>1
      <4>2. kept[x] = rows[at(x)]
        BY <2>2, <2>5, <3>1
      <4>3. QED
        BY <1>2, <4>1, <4>2
    <3>2. CASE i = k + 1 \/ j = k + 1
      BY <2>5, <3>1, <3>2
    <3>3. CASE i # k + 1 /\ j # k + 1
      <4>1. at(i) = at(j)
        <5>1. rows[at(i)] = rows[at(j)] /\ at(i) \in DOMAIN rows /\ at(j) \in DOMAIN rows
          BY <1>1, <3>1, <3>3
        <5> HIDE DEF at
        <5>2. QED
          BY <5>1 DEF NewestOf, Once
      <4>2. QED
        BY <2>2, <3>3, <4>1
    <3>4. QED
      BY <3>2, <3>3
  <2>9. \A i \in 1 .. n : Held(kept, rows[i])
    <3> TAKE i \in 1 .. n
    <3>1. CASE i <= k
      <4>1. i \in DOMAIN kept /\ kept[i] = rows[i]
        BY <2>2, <2>4, <2>5, <3>1
      <4>2. QED
        BY <4>1 DEF Held
    <3>2. CASE i > k
      <4>1. i + 1 \in DOMAIN kept /\ i + 1 \in k + 2 .. n + 1 /\ (i + 1) - 1 = i
        BY <2>2, <2>4, <2>5, <3>2
      <4>2. kept[i + 1] = rows[i]
        BY <2>5, <4>1
      <4>3. QED
        BY <4>1, <4>2 DEF Held
    <3>3. QED
      BY <2>2, <3>1, <3>2
  <2>10. Held(kept, r)
    BY <2>2, <2>4, <2>5 DEF Held
  <2>11. CASE n = Len(rows)
    <3>1. \A x \in D : Held(rows, x)
      BY <2>4, <2>11 DEF NewestOf
    <3>2. \A x \in D : Held(kept, x)
      BY <1>1, <2>9, <2>11, <3>1 DEF Held
    <3>3. QED
      BY <2>5, <2>6, <2>7, <2>8, <2>10, <3>2 DEF NewestOf
  <2>12. CASE n # Len(rows)
    <3>1. n = HistorySize - 1 /\ Len(rows) = HistorySize /\ Len(kept) = HistorySize
          /\ DateOfRow(rows[HistorySize]) < DateOfRow(r)
      <4>1. /\ n = HistorySize - 1 /\ Len(rows) = HistorySize
            /\ DateOfRow(rows[HistorySize]) < DateOfRow(r)
        BY <2>3, <2>12, Zenon DEF PutAt
      <4>2. Len(kept) = HistorySize
        BY <1>1, <2>5, <4>1
      <4>3. QED
        BY <4>1, <4>2
    <3>2. \A x \in RowIds : DateOfRow(x) \in Nat
      BY DateFact
    <3>3. HistorySize \in 1 .. Len(rows) /\ rows[HistorySize] \in D
      BY <1>1, <1>2, <3>1
    <3>4. \A i \in 1 .. n + 1 : DateOfRow(kept[i]) >= DateOfRow(rows[HistorySize])
      <4> TAKE i \in 1 .. n + 1
      <4>1. CASE i <= k
        <5>1. i \in 1 .. Len(rows) /\ i < HistorySize /\ kept[i] = rows[i]
          BY <1>1, <2>2, <2>4, <2>5, <3>1, <4>1
        <5>2. QED
          BY <1>4, <3>3, <5>1
      <4>2. CASE i = k + 1
        BY <1>2, <1>3, <2>5, <3>1, <3>3, <4>2
      <4>3. CASE i >= k + 2
        <5>1. i - 1 \in 1 .. Len(rows) /\ i - 1 < HistorySize /\ kept[i] = rows[i - 1]
          BY <1>1, <2>2, <2>4, <2>5, <3>1, <4>3
        <5>2. QED
          BY <1>4, <3>3, <5>1
      <4>4. QED
        BY <2>2, <4>1, <4>2, <4>3
    <3>5. ASSUME NEW x \in D, ~ Held(kept, x)
          PROVE  \A i \in 1 .. n + 1 : DateOfRow(kept[i]) >= DateOfRow(x)
      <4>1. DateOfRow(rows[HistorySize]) >= DateOfRow(x)
        <5>1. CASE Held(rows, x)
          <6>1. PICK i \in 1 .. Len(rows) : rows[i] = x
            BY <1>1, <5>1 DEF Held
          <6>2. i = HistorySize
            BY <1>1, <2>9, <3>1, <3>5, <6>1
          <6>3. QED
            BY <1>3, <6>1, <6>2
        <5>2. CASE ~ Held(rows, x)
          BY <1>1, <3>3, <5>2 DEF NewestOf
        <5>3. QED
          BY <5>1, <5>2
      <4>2. \A i \in 1 .. n + 1 : DateOfRow(kept[i]) \in Nat
        BY <1>3, <2>7
      <4>3. QED
        BY <1>2, <1>3, <3>3, <3>4, <4>1, <4>2
    <3>6. QED
      BY <2>5, <2>6, <2>7, <2>8, <2>10, <3>1, <3>5, <1>1 DEF NewestOf
  <2>13. QED
    BY <2>11, <2>12
<1>8. QED
  BY <1>6, <1>7, KeptFact

-----------------------------------------------------------------------------
(* last_n_sales.                                                            *)

(* The rows of a set that fewer than HistorySize of its rows are newer      *)
(* than: what the query returns when the set is the table.                  *)
Newer(B, r) == {q \in B : DateOfRow(q) > DateOfRow(r)}

RankedOf(B) == {r \in B : Cardinality(Newer(B, r)) < HistorySize}

(* Rows are finitely many.                                                  *)
LEMMA RowsFinite ==
    ASSUME Typed, NEW B \in SUBSET RowIds
    PROVE  IsFiniteSet(B) /\ Cardinality(B) \in Nat
<1>1. RowIds = 1 .. Len(stored) /\ Len(stored) \in Nat
  BY DEF Typed, RowIds
<1>2. \A n \in Nat : IsFiniteSet(1 .. n)
  BY FS_Interval
<1>3. QED
  BY <1>1, <1>2, FS_Subset, FS_CardinalityType

(* Rows of a history are as many as the history is long.                    *)
LEMMA HeldFact ==
    ASSUME Typed, NEW rows \in Seq(RowIds), NEW B \in SUBSET RowIds,
           \A r \in B : Held(rows, r)
    PROVE  Cardinality(B) <= Len(rows)
<1>1. Len(rows) \in Nat /\ DOMAIN rows = 1 .. Len(rows)
  OBVIOUS
<1>2. IsFiniteSet(1 .. Len(rows)) /\ Cardinality(1 .. Len(rows)) = Len(rows)
  <2>1. \A n \in Nat : IsFiniteSet(1 .. n) /\ Cardinality(1 .. n) = n
    BY FS_Interval
  <2>2. QED
    BY <1>1, <2>1
<1> DEFINE f == [r \in B |-> CHOOSE i \in 1 .. Len(rows) : rows[i] = r]
<1>3. \A r \in B : f[r] \in 1 .. Len(rows) /\ rows[f[r]] = r
  BY <1>1 DEF Held
<1>4. f \in [B -> 1 .. Len(rows)]
  BY <1>3
<1>5. \A q, r \in B : f[q] = f[r] => q = r
  <2> HIDE DEF f
  <2>1. QED
    BY <1>3
<1> HIDE DEF f
<1>6. f \in Injection(B, 1 .. Len(rows))
  BY <1>4, <1>5 DEF Injection, IsInjective
<1>7. QED
  BY <1>2, <1>6, FS_Injection

(* A row that too many are newer than is not needed: the newest of what the *)
(* query returns are the newest of the table.                               *)
LEMMA RankedSuffices ==
    ASSUME Typed, NEW rows \in Seq(RowIds), Len(rows) <= HistorySize,
           NEW B \in SUBSET RowIds, NewestOf(rows, RankedOf(B))
    PROVE  NewestOf(rows, B)
<1>1. HistorySize \in Nat \ {0} /\ Len(rows) \in Nat /\ DOMAIN rows = 1 .. Len(rows)
  BY MirrorAssumption
<1>2. RankedOf(B) \in SUBSET RowIds /\ RankedOf(B) \subseteq B
  BY DEF RankedOf
<1>3. \A r \in RowIds : DateOfRow(r) \in Nat
  BY DateFact
<1>4. \A r \in B : Newer(B, r) \in SUBSET RowIds
  BY DEF Newer
<1>5. \A r \in B : IsFiniteSet(Newer(B, r)) /\ Cardinality(Newer(B, r)) \in Nat
  BY <1>4, RowsFinite
<1>6. ASSUME NEW r \in B \ RankedOf(B), NEW q \in RankedOf(B)
      PROVE  DateOfRow(q) >= DateOfRow(r)
  <2> SUFFICES ASSUME DateOfRow(q) < DateOfRow(r)
               PROVE  FALSE
    BY <1>2, <1>3
  <2>1. Newer(B, r) \in SUBSET Newer(B, q)
    BY <1>2, <1>3 DEF Newer
  <2>2. Cardinality(Newer(B, r)) <= Cardinality(Newer(B, q))
    BY <1>2, <1>5, <2>1, FS_Subset
  <2>3. Cardinality(Newer(B, q)) < HistorySize /\ ~ (Cardinality(Newer(B, r)) < HistorySize)
    BY DEF RankedOf
  <2>4. QED
    BY <1>1, <1>2, <1>5, <2>2, <2>3
<1>7. ASSUME Len(rows) < HistorySize, NEW r \in B \ RankedOf(B)
      PROVE  FALSE
  <2> DEFINE S == B \ RankedOf(B)
             f == [x \in S |-> DateOfRow(x)]
  <2>1. IsFiniteSet(S) /\ S # {}
    BY <1>7, RowsFinite
  <2>2. f \in [S -> Nat]
    BY <1>3
  <2>3. PICK m \in S : \A y \in S : f[y] <= f[m]
    <3> HIDE DEF S, f
    <3>1. QED
      BY <2>1, <2>2, Greatest
  <2>4. Newer(B, m) \subseteq RankedOf(B)
    <3>1. ASSUME NEW q \in Newer(B, m), q \in S
          PROVE  FALSE
      <4>1. DateOfRow(q) <= DateOfRow(m) /\ DateOfRow(q) > DateOfRow(m)
        BY <2>3, <3>1 DEF Newer
      <4>2. QED
        BY <1>3, <3>1, <4>1
    <3>2. QED
      BY <3>1 DEF Newer
  <2>5. \A x \in Newer(B, m) : Held(rows, x)
    BY <1>7, <2>4 DEF NewestOf
  <2>6. Cardinality(Newer(B, m)) <= Len(rows)
    BY <1>4, <2>5, HeldFact
  <2>7. ~ (Cardinality(Newer(B, m)) < HistorySize)
    BY DEF RankedOf
  <2>8. QED
    BY <1>1, <1>5, <1>7, <2>6, <2>7
<1>8. \A r \in B : Held(rows, r) \/ \A i \in DOMAIN rows : DateOfRow(rows[i]) >= DateOfRow(r)
  BY <1>6 DEF NewestOf
<1>9. Len(rows) < HistorySize => \A r \in B : Held(rows, r)
  BY <1>7 DEF NewestOf
<1>10. QED
  BY <1>2, <1>8, <1>9 DEF NewestOf

(* The newest of some rows are as many as there is room for.                *)
LEMMA NewestFact ==
    ASSUME Typed, NEW rows \in Seq(RowIds), Len(rows) <= HistorySize,
           NEW D \in SUBSET RowIds, NewestOf(rows, D)
    PROVE  /\ ToSet(rows) \subseteq D /\ IsInjective(rows)
           /\ Len(rows) = Min({HistorySize, Cardinality(D)})
           /\ \A r \in D \ ToSet(rows) : \A i \in DOMAIN rows :
                 DateOfRow(rows[i]) >= DateOfRow(r)
           /\ \A i, j \in DOMAIN rows :
                 i < j => DateOfRow(rows[i]) >= DateOfRow(rows[j])
<1>1. /\ HistorySize \in Nat \ {0} /\ Len(rows) \in Nat /\ DOMAIN rows = 1 .. Len(rows)
      /\ IsFiniteSet(D) /\ Cardinality(D) \in Nat
  BY MirrorAssumption, RowsFinite
<1>2. \A r : r \in ToSet(rows) <=> Held(rows, r)
  BY DEF ToSet, Held
<1>3. \A r \in D \ ToSet(rows) : \A i \in DOMAIN rows :
         DateOfRow(rows[i]) >= DateOfRow(r)
  BY <1>2 DEF NewestOf
<1>4. ToSet(rows) \subseteq D
  BY DEF NewestOf, ToSet
<1>5. IsInjective(rows)
  BY Zenon DEF NewestOf, Once, IsInjective
<1>6. Len(rows) <= Cardinality(D)
  <2>1. rows \in Injection(1 .. Len(rows), D)
    <3>1. rows \in [1 .. Len(rows) -> D]
      BY <1>1 DEF NewestOf
    <3>2. QED
      BY <1>5, <3>1, Zenon DEF Injection
  <2>2. \A n \in Nat : IsFiniteSet(1 .. n) /\ Cardinality(1 .. n) = n
    BY FS_Interval
  <2>3. Cardinality(1 .. Len(rows)) <= Cardinality(D)
    BY <1>1, <2>1, <2>2, FS_Injection
  <2>4. QED
    BY <1>1, <2>2, <2>3
<1>7. Len(rows) < HistorySize => Cardinality(D) <= Len(rows)
  <2> HAVE Len(rows) < HistorySize
  <2>1. \A r \in D : Held(rows, r)
    BY DEF NewestOf
  <2>2. QED
    BY <2>1, HeldFact
<1>8. Len(rows) = Min({HistorySize, Cardinality(D)})
  <2>1. PICK x \in Nat, h \in Nat, n \in Nat :
           x = Len(rows) /\ h = HistorySize /\ n = Cardinality(D)
    BY <1>1
  <2>2. x <= h /\ x <= n /\ (x < h => n <= x)
    BY <1>6, <1>7, <2>1
  <2>3. x \in {h, n} /\ \A y \in {h, n} : x <= y
    BY <2>2
  <2>4. ASSUME NEW z \in {h, n}, \A y \in {h, n} : z <= y
        PROVE  z = x
    BY <2>3, <2>4
  <2>5. x = Min({h, n})
    BY <2>3, <2>4 DEF Min
  <2>6. QED
    BY <2>1, <2>5
<1>9. \A i, j \in DOMAIN rows : i < j => DateOfRow(rows[i]) >= DateOfRow(rows[j])
  BY DEF NewestOf
<1>10. QED
  BY <1>3, <1>4, <1>5, <1>8, <1>9

(* A history has the newest of what it has, whatever else there is.         *)
LEMMA NewestOfItself ==
    ASSUME Typed, NEW rows \in Seq(RowIds), NEW D \in SUBSET RowIds, NewestOf(rows, D)
    PROVE  ToSet(rows) \in SUBSET RowIds /\ NewestOf(rows, ToSet(rows))
BY DEF NewestOf, ToSet, Held

-----------------------------------------------------------------------------
(* What the tasks have announced, and the analyzer has not looked at yet.   *)

(* The types of what the analyzer holds.                                    *)
Hearing ==
    /\ inserted \in [Tasks -> Seq(RowIds)]
    /\ phase \in {"off", "query", "load", "live"}
    /\ bus \in Seq(Seq(RowIds)) /\ Len(bus) <= Capacity
    /\ hand \in Seq(RowIds)
    /\ recent \in Seq(RowIds) /\ Len(recent) <= HistorySize
    /\ coming \in SUBSET RowIds

(* What is empty at each stage.                                             *)
Stages ==
    /\ \A t \in Tasks : pc[t] # "tell" => inserted[t] = <<>>
    /\ phase = "off" => bus = <<>>
    /\ phase \in {"off", "query"} => recent = <<>>
    /\ phase # "load" => coming = {}
    /\ phase # "live" => hand = <<>>

Apart(s, z) == \A i \in DOMAIN s, j \in DOMAIN z : s[i] # z[j]

(* No row is announced twice.                                               *)
AnnouncedOnce ==
    /\ Once(hand)
    /\ \A k \in DOMAIN bus : Once(bus[k]) /\ Apart(hand, bus[k])
    /\ \A t \in Tasks : Once(inserted[t]) /\ Apart(hand, inserted[t])
    /\ \A k \in DOMAIN bus : \A t \in Tasks : Apart(bus[k], inserted[t])
    /\ \A k, m \in DOMAIN bus : k # m => Apart(bus[k], bus[m])
    /\ \A t, u \in Tasks : t # u => Apart(inserted[t], inserted[u])

(* Rows that are stored and still to be looked at, and the others.          *)
Due(r) ==
    \/ Held(hand, r)
    \/ \E k \in DOMAIN bus : Held(bus[k], r)
    \/ \E t \in Tasks : Held(inserted[t], r)

Heard == {r \in RowIds : ~ Due(r)}

(* Rows the history has been told of: those that are neither due nor        *)
(* missed.                                                                  *)
Known == Heard \ missed

(* The history has the newest of them; while they are loaded, of those that *)
(* have come.                                                               *)
NewestTold ==
    ~replayed =>
        /\ phase = "load" => /\ coming \subseteq RankedOf(Known)
                             /\ NewestOf(recent, RankedOf(Known) \ coming)
        /\ phase = "live" => NewestOf(recent, Known)

(* What is missed is not due.                                               *)
Missing == missed \subseteq Heard

(* A snapshot has the newest of the rows it was told of, and none of these  *)
(* is due when it is restored.                                              *)
Snapshots ==
    \A s \in saved :
        /\ s.recent \in Seq(RowIds) /\ Len(s.recent) <= HistorySize
        /\ s.told \in SUBSET RowIds
        /\ ~s.replayed => NewestOf(s.recent, s.told)
        /\ phase \in {"off", "query"} => s.told \subseteq Heard

(* Sequences of some things are sequences of more.                          *)
LEMMA SeqGrows ==
    ASSUME NEW S, NEW T, S \subseteq T
    PROVE  Seq(S) \subseteq Seq(T) /\ Seq(Seq(S)) \subseteq Seq(Seq(T))
<1>1. \A A, B : A \subseteq B => Seq(A) \subseteq Seq(B)
  OBVIOUS
<1>2. QED
  BY <1>1

(* The rows a task inserts are the new ones of the table.                   *)
LEMMA InsertedFact ==
    ASSUME Typed, Hearing, NEW t \in Tasks, Insert(t)
    PROVE  /\ RowIds \subseteq RowIds'
           /\ \A a \in RowIds : stored'[a] = stored[a]
           /\ inserted' \in [Tasks -> Seq(RowIds')]
           /\ \A u \in Tasks \ {t} : inserted'[u] = inserted[u]
           /\ Once(inserted'[t])
           /\ \A r : Held(inserted'[t], r) <=> r \in RowIds' \ RowIds
<1>1. /\ stored \in Seq(Sales) /\ stored' \in Seq(Sales)
      /\ Cardinality(fresh[t]) \in Nat
      /\ Len(stored') = Len(stored) + Cardinality(fresh[t])
      /\ RowIds \subseteq RowIds'
      /\ \A a \in RowIds : stored'[a] = stored[a]
  BY InsertFact DEF Typed, RowIds
<1>2. PICK n \in Nat, size \in Nat : n = Len(stored) /\ size = Cardinality(fresh[t])
  BY <1>1
<1>3. RowIds = 1 .. n /\ RowIds' = 1 .. n + size
  BY <1>1, <1>2 DEF RowIds
<1>4. PICK new : new = [i \in 1 .. size |-> n + i]
  OBVIOUS
<1>5. /\ new \in Seq(RowIds') /\ DOMAIN new = 1 .. size
      /\ \A i \in 1 .. size : new[i] = n + i
  BY <1>3, <1>4
<1>6. inserted' = [inserted EXCEPT ![t] = new]
  BY <1>2, <1>4 DEF Insert
<1>7. /\ inserted'[t] = new
      /\ \A u \in Tasks \ {t} : inserted'[u] = inserted[u]
      /\ inserted' \in [Tasks -> Seq(RowIds')]
  BY <1>1, <1>5, <1>6, SeqGrows DEF Hearing
<1>8. Once(new)
  BY <1>5 DEF Once
<1>9. ASSUME NEW r
      PROVE  Held(new, r) <=> r \in RowIds' \ RowIds
  <2>1. Held(new, r) => r \in RowIds' \ RowIds
    BY <1>3, <1>5 DEF Held
  <2>2. ASSUME r \in RowIds' \ RowIds
        PROVE  Held(new, r)
    <3>1. r \in Int /\ r - n \in 1 .. size /\ n + (r - n) = r
      BY <1>3, <2>2
    <3>2. QED
      BY <1>5, <3>1 DEF Held
  <2>3. QED
    BY <2>1, <2>2
<1>10. QED
  BY <1>1, <1>7, <1>8, <1>9

(* A step of Next as the analyzer sees it: in most steps nothing happens.   *)
StayPut == UNCHANGED <<stored, inserted, liveVars, missed, replayed>>

Visible ==
    \/ StayPut
    \/ \E t \in Tasks : Insert(t) /\ UNCHANGED <<liveVars, missed, replayed>>
    \/ \E t \in Tasks : Announce(t)
    \/ Subscribe \/ Query \/ (\E r \in coming : LoadRow(r)) \/ LoadEnds
    \/ Hear \/ LookAt \/ Restore \/ EndProcess

LEMMA VisibleFact ==
    ASSUME Hearing, Stages, Next
    PROVE  Visible
<1>1. CASE Ingest
  <2>1. UNCHANGED <<liveVars, missed, replayed>>
    BY <1>1 DEF Ingest
  <2>2. CASE \E t \in Tasks : Insert(t)
    BY <2>1, <2>2 DEF Visible
  <2>3. ASSUME NEW t \in Tasks, IngestFails(t)
        PROVE  StayPut
    <3>1. inserted[t] = <<>> /\ inserted' = [inserted EXCEPT ![t] = <<>>] /\ stored' = stored
      BY <2>3 DEF IngestFails, End, Stages
    <3>2. inserted' = inserted
      BY <3>1 DEF Hearing
    <3>3. QED
      BY <2>1, <3>1, <3>2 DEF StayPut
  <2>4. CASE SaleHappens
    BY <2>1, <2>4 DEF SaleHappens, taskVars, StayPut, Visible
  <2>5. CASE \E t \in Tasks : ReadRecorded(t) \/ \E sales \in Reports : Report(t, sales)
    BY <2>1, <2>5 DEF ReadRecorded, Report, StayPut, Visible
  <2>6. QED
    BY <1>1, <2>2, <2>3, <2>4, <2>5 DEF Ingest, IngestStep, Visible
<1>2. CASE MonthTurns \/ WriterDecides \/ Save
  BY <1>2 DEF MonthTurns, WriterDecides, Save, StayPut, ingestVars, taskVars, Visible
<1>3. CASE JobStarts \/ ChunkSkipped \/ ChunkRead \/ ChunkInserted \/ ChunkMarked \/ JobFails
  BY <1>3 DEF JobStarts, ChunkSkipped, ChunkRead, ChunkInserted, ChunkMarked, JobFails,
     StayPut, ingestVars, taskVars, Visible
<1>4. QED
  BY <1>1, <1>2, <1>3 DEF Next, Visible

(* An event is put after others, of which the first d are gone.             *)
Shifted(b, c, d, e) ==
    /\ Len(c) >= 1 /\ Len(c) + d = Len(b) + 1
    /\ c[Len(c)] = e
    /\ \A k \in 1 .. Len(c) - 1 : k + d \in DOMAIN b /\ c[k] = b[k + d]

(* An event that is put last, and what is left after the first.             *)
LEMMA AppendFact ==
    ASSUME NEW E, NEW b \in Seq(E), NEW e \in E, NEW c, c = Append(b, e)
    PROVE  /\ c \in Seq(E) /\ Len(c) = Len(b) + 1 /\ c[Len(b) + 1] = e
           /\ \A k \in 1 .. Len(b) : c[k] = b[k]
OBVIOUS

LEMMA TailFact ==
    ASSUME NEW E, NEW b \in Seq(E), b # <<>>, NEW c, c = Tail(b)
    PROVE  /\ c \in Seq(E) /\ Len(c) + 1 = Len(b)
           /\ \A k \in 1 .. Len(c) : k + 1 \in DOMAIN b /\ c[k] = b[k + 1]
OBVIOUS

(* A bus with room for cap events before and after an event is sent.        *)
LEMMA ShiftFact ==
    ASSUME NEW E, NEW b \in Seq(E), NEW e \in E, NEW c, NEW cap \in Nat \ {0}, Len(b) <= cap
    PROVE  /\ c = Append(b, e) /\ Len(b) # cap =>
                  c \in Seq(E) /\ Len(c) <= cap /\ Shifted(b, c, 0, e)
           /\ c = Append(Tail(b), e) /\ Len(b) = cap =>
                  c \in Seq(E) /\ Len(c) <= cap /\ Shifted(b, c, 1, e)
<1>1. PICK n \in Nat : n = Len(b)
  OBVIOUS
<1>2. ASSUME c = Append(b, e), Len(b) # cap
      PROVE  c \in Seq(E) /\ Len(c) <= cap /\ Shifted(b, c, 0, e)
  <2>1. /\ c \in Seq(E) /\ Len(c) = n + 1 /\ c[n + 1] = e
        /\ \A k \in 1 .. n : c[k] = b[k]
    BY <1>1, <1>2, AppendFact
  <2>2. DOMAIN b = 1 .. n /\ \A k \in 1 .. n : k + 0 = k
    BY <1>1
  <2>3. Shifted(b, c, 0, e)
    BY <1>1, <2>1, <2>2 DEF Shifted
  <2>4. QED
    BY <1>1, <1>2, <2>1, <2>3
<1>3. ASSUME c = Append(Tail(b), e), Len(b) = cap
      PROVE  c \in Seq(E) /\ Len(c) <= cap /\ Shifted(b, c, 1, e)
  <2>1. b # <<>>
    BY <1>3
  <2>2. PICK rest : rest = Tail(b)
    OBVIOUS
  <2>3. /\ rest \in Seq(E) /\ Len(rest) + 1 = Len(b)
        /\ \A k \in 1 .. Len(rest) : k + 1 \in DOMAIN b /\ rest[k] = b[k + 1]
    BY <2>1, <2>2, TailFact
  <2>4. PICK m \in Nat : m = Len(rest)
    BY <2>3
  <2>5. /\ c \in Seq(E) /\ Len(c) = m + 1 /\ c[m + 1] = e
        /\ \A k \in 1 .. m : c[k] = rest[k]
    BY <1>3, <2>2, <2>3, <2>4, AppendFact
  <2>6. n = m + 1
    BY <1>1, <2>3, <2>4
  <2>7. Shifted(b, c, 1, e)
    BY <1>1, <2>3, <2>4, <2>5, <2>6 DEF Shifted
  <2>8. QED
    BY <1>1, <1>3, <2>5, <2>6, <2>7
<1>4. QED
  BY <1>2, <1>3

(* What the bus holds after an event was sent: without room the oldest      *)
(* event is gone.                                                           *)
LEMMA SentFact ==
    ASSUME Hearing, NEW t \in Tasks, Announce(t), phase # "off"
    PROVE  /\ bus' \in Seq(Seq(RowIds)) /\ Len(bus') <= Capacity
           /\ \/ Shifted(bus, bus', 0, inserted[t]) /\ missed' = missed
              \/ /\ Shifted(bus, bus', 1, inserted[t])
                 /\ bus # <<>> /\ missed' = missed \cup ToSet(Head(bus))
<1>1. PICK b, c, e, E : b = bus /\ c = bus' /\ e = inserted[t] /\ E = Seq(RowIds)
  OBVIOUS
<1>2. Capacity \in Nat \ {0} /\ b \in Seq(E) /\ e \in E /\ Len(b) <= Capacity
  BY <1>1, MirrorAssumption DEF Hearing
<1>3. \/ c = Append(b, e) /\ Len(b) # Capacity /\ missed' = missed
      \/ /\ c = Append(Tail(b), e) /\ Len(b) = Capacity
         /\ missed' = missed \cup ToSet(Head(bus))
  BY <1>1 DEF Announce
<1>4. Len(b) = Capacity => b # <<>>
  BY <1>2
<1>5. /\ c \in Seq(E) /\ Len(c) <= Capacity
      /\ \/ Shifted(b, c, 0, e) /\ missed' = missed
         \/ /\ Shifted(b, c, 1, e)
            /\ b # <<>> /\ missed' = missed \cup ToSet(Head(bus))
  BY <1>2, <1>3, <1>4, ShiftFact
<1>6. QED
  BY <1>1, <1>5

(* The types are kept.                                                      *)
LEMMA HearingStep ==
    ASSUME Typed, Hearing, Stages, Snapshots, Next
    PROVE  Hearing'
<1>1. /\ RowIds \subseteq RowIds' /\ Seq(RowIds) \subseteq Seq(RowIds')
      /\ Seq(Seq(RowIds)) \subseteq Seq(Seq(RowIds'))
  BY StoredGrows, SeqGrows
<1>2. CASE UNCHANGED <<inserted, liveVars>>
  BY <1>1, <1>2 DEF Hearing, liveVars
<1>3. ASSUME NEW t \in Tasks, Insert(t), UNCHANGED liveVars
      PROVE  Hearing'
  BY <1>1, <1>3, InsertedFact DEF Hearing, liveVars
<1>4. ASSUME NEW t \in Tasks, Announce(t)
      PROVE  Hearing'
  <2>1. /\ phase' = phase /\ hand' = hand /\ recent' = recent /\ coming' = coming
        /\ inserted' = [inserted EXCEPT ![t] = <<>>] /\ stored' = stored
    BY <1>4 DEF Announce, End
  <2>2. RowIds' = RowIds
    BY <2>1 DEF RowIds
  <2>3. inserted' \in [Tasks -> Seq(RowIds)]
    BY <2>1 DEF Hearing
  <2>4. bus' \in Seq(Seq(RowIds)) /\ Len(bus') <= Capacity
    <3>1. CASE phase = "off"
      BY <1>4, <3>1 DEF Announce, Hearing
    <3>2. CASE phase # "off"
      BY <1>4, <3>2, SentFact
    <3>3. QED
      BY <3>1, <3>2
  <2>5. QED
    BY <2>1, <2>2, <2>3, <2>4 DEF Hearing
<1>5. CASE Subscribe
  BY <1>1, <1>5 DEF Subscribe, Hearing, ingestVars, taskVars
<1>6. CASE Query
  <2>1. Ranked \in SUBSET RowIds
    BY DEF Ranked
  <2>2. QED
    BY <1>1, <1>6, <2>1 DEF Query, Hearing, ingestVars, taskVars
<1>7. ASSUME NEW r \in coming, LoadRow(r)
      PROVE  Hearing'
  <2>1. recent' \in Seq(RowIds) /\ Len(recent') <= HistorySize
    BY <1>7, KeptTyped DEF LoadRow, Hearing
  <2>2. QED
    BY <1>1, <1>7, <2>1 DEF LoadRow, Hearing, ingestVars, taskVars
<1>8. CASE LoadEnds
  BY <1>1, <1>8 DEF LoadEnds, Hearing, ingestVars, taskVars
<1>9. CASE Hear
  <2>1. hand' \in Seq(RowIds) /\ bus' \in Seq(Seq(RowIds)) /\ Len(bus') <= Capacity
    <3>1. bus # <<>> /\ bus \in Seq(Seq(RowIds)) /\ hand' = Head(bus) /\ bus' = Tail(bus)
          /\ Len(bus) <= Capacity
      BY <1>9 DEF Hear, Hearing
    <3>2. Capacity \in Nat
      BY MirrorAssumption
    <3>3. QED
      BY <3>1, <3>2
  <2>2. QED
    BY <1>1, <1>9, <2>1 DEF Hear, Hearing, ingestVars, taskVars
<1>10. CASE LookAt
  <2>1. hand # <<>> /\ hand \in Seq(RowIds)
    BY <1>10 DEF LookAt, Hearing
  <2>2. Head(hand) \in RowIds /\ Tail(hand) \in Seq(RowIds)
    BY <2>1
  <2>3. recent' \in Seq(RowIds) /\ Len(recent') <= HistorySize
    BY <1>10, <2>2, KeptTyped DEF LookAt, Hearing
  <2>4. QED
    BY <1>1, <1>10, <2>2, <2>3 DEF LookAt, Hearing, ingestVars, taskVars
<1>11. CASE EndProcess
  <2>1. Capacity \in Nat /\ HistorySize \in Nat
    BY MirrorAssumption
  <2>2. QED
    BY <1>11, <2>1 DEF EndProcess, IngestEnds, Hearing
<1>12. CASE Restore
  BY <1>1, <1>12 DEF Restore, Snapshots, Hearing, ingestVars, taskVars
<1>13. QED
  BY <1>2, <1>3, <1>4, <1>5, <1>6, <1>7, <1>8, <1>9, <1>10, <1>11, <1>12, VisibleFact
  DEF Visible, StayPut

(* What is empty at a stage stays so until the next.                        *)
LEMMA StagesStep ==
    ASSUME Typed, Hearing, Stages, Next
    PROVE  Stages'
<1>1. \A t \in Tasks : pc'[t] # "tell" => inserted'[t] = <<>>
  <2>1. CASE TaskStep
    <3>1. ASSUME NEW t \in Tasks, End(t)
          PROVE  \A u \in Tasks : pc'[u] # "tell" => inserted'[u] = <<>>
      BY <3>1 DEF End, Stages, Hearing, Typed
    <3>2. ASSUME NEW t \in Tasks, Insert(t)
          PROVE  \A u \in Tasks : pc'[u] # "tell" => inserted'[u] = <<>>
      BY <3>2, InsertedFact DEF Insert, Stages, Typed
    <3>3. ASSUME NEW t \in Tasks, ReadRecorded(t)
          PROVE  \A u \in Tasks : pc'[u] # "tell" => inserted'[u] = <<>>
      BY <3>3 DEF ReadRecorded, Stages, Typed
    <3>4. ASSUME NEW t \in Tasks, NEW sales \in Reports, Report(t, sales)
          PROVE  \A u \in Tasks : pc'[u] # "tell" => inserted'[u] = <<>>
      BY <3>4 DEF Report, Stages, Typed
    <3>5. CASE SaleHappens \/ IngestEnds
      BY <3>5 DEF SaleHappens, taskVars, IngestEnds, Stages
    <3>6. QED
      BY <2>1, <3>1, <3>2, <3>3, <3>4, <3>5 DEF TaskStep
  <2>2. CASE UNCHANGED ingestVars
    BY <2>2 DEF ingestVars, taskVars, Stages
  <2>3. QED
    BY <2>1, <2>2, StepFact
<1>2. CASE UNCHANGED liveVars
  BY <1>1, <1>2 DEF liveVars, Stages
<1>3. ASSUME NEW t \in Tasks, Announce(t)
      PROVE  Stages'
  BY <1>1, <1>3 DEF Announce, Stages
<1>4. CASE Subscribe \/ Query \/ LoadEnds \/ Hear \/ Restore \/ EndProcess
  BY <1>1, <1>4 DEF Subscribe, Query, LoadEnds, Hear, Restore, EndProcess, Stages
<1>5. CASE (\E r \in coming : LoadRow(r)) \/ LookAt
  BY <1>1, <1>5 DEF LoadRow, LookAt, Stages
<1>6. QED
  BY <1>2, <1>3, <1>4, <1>5, VisibleFact DEF Visible, StayPut

(* A row stays in one event only.                                           *)
LEMMA AnnouncedOnceStep ==
    ASSUME Typed, Hearing, Stages, AnnouncedOnce, Next
    PROVE  AnnouncedOnce'
<1>1. CASE UNCHANGED <<inserted, bus, hand>>
  BY <1>1 DEF AnnouncedOnce, Once, Apart
<1>2. ASSUME NEW t \in Tasks, Insert(t), UNCHANGED liveVars
      PROVE  AnnouncedOnce'
  <2>1. /\ RowIds \subseteq RowIds' /\ inserted' \in [Tasks -> Seq(RowIds')]
        /\ \A u \in Tasks \ {t} : inserted'[u] = inserted[u]
        /\ Once(inserted'[t])
        /\ \A r : Held(inserted'[t], r) <=> r \in RowIds' \ RowIds
    BY <1>2, InsertedFact
  <2>2. bus' = bus /\ hand' = hand
    BY <1>2 DEF liveVars
  <2>3. \A s \in Seq(RowIds) : Apart(s, inserted'[t]) /\ Apart(inserted'[t], s)
    <3> SUFFICES ASSUME NEW s \in Seq(RowIds), NEW i \in DOMAIN s, NEW j \in DOMAIN inserted'[t]
                 PROVE  s[i] # inserted'[t][j]
      BY DEF Apart
    <3>1. s[i] \in RowIds
      OBVIOUS
    <3>2. inserted'[t][j] \notin RowIds
      BY <2>1 DEF Held
    <3>3. QED
      BY <3>1, <3>2
  <2>4. hand \in Seq(RowIds) /\ \A u \in Tasks : inserted[u] \in Seq(RowIds)
    BY DEF Hearing
  <2>5. \A k \in DOMAIN bus : bus[k] \in Seq(RowIds)
    BY DEF Hearing
  <2>6. \A u \in Tasks : Once(inserted'[u]) /\ Apart(hand, inserted'[u])
    BY <2>1, <2>3, <2>4 DEF AnnouncedOnce
  <2>7. \A k \in DOMAIN bus : \A u \in Tasks : Apart(bus[k], inserted'[u])
    BY <2>1, <2>3, <2>5 DEF AnnouncedOnce
  <2>8. ASSUME NEW u \in Tasks, NEW v \in Tasks, u # v
        PROVE  Apart(inserted'[u], inserted'[v])
    <3>1. CASE u = t
      BY <2>1, <2>3, <2>4, <2>8, <3>1
    <3>2. CASE v = t
      BY <2>1, <2>3, <2>4, <2>8, <3>2
    <3>3. CASE u # t /\ v # t
      BY <2>1, <2>8, <3>3 DEF AnnouncedOnce
    <3>4. QED
      BY <3>1, <3>2, <3>3
  <2>9. /\ Once(hand)
        /\ \A k \in DOMAIN bus : Once(bus[k]) /\ Apart(hand, bus[k])
        /\ \A k, m \in DOMAIN bus : k # m => Apart(bus[k], bus[m])
    BY DEF AnnouncedOnce
  <2>10. QED
    BY <2>2, <2>6, <2>7, <2>8, <2>9 DEF AnnouncedOnce, Once, Apart
<1>3. ASSUME NEW t \in Tasks, Announce(t)
      PROVE  AnnouncedOnce'
  <2>1. /\ hand' = hand /\ inserted'[t] = <<>>
        /\ \A u \in Tasks \ {t} : inserted'[u] = inserted[u]
    BY <1>3 DEF Announce, End, Hearing
  <2>2. /\ Once(inserted'[t])
        /\ \A s : Apart(s, inserted'[t]) /\ Apart(inserted'[t], s)
    BY <2>1 DEF Once, Apart
  <2>3. \A u \in Tasks : Once(inserted'[u]) /\ Apart(hand, inserted'[u])
    BY <2>1, <2>2 DEF AnnouncedOnce
  <2>4. \A u, v \in Tasks : u # v => Apart(inserted'[u], inserted'[v])
    BY <2>1, <2>2 DEF AnnouncedOnce
  <2>5. CASE bus' = bus
    BY <2>1, <2>2, <2>3, <2>4, <2>5 DEF AnnouncedOnce, Once
  <2>6. ASSUME NEW d \in {0, 1}, Shifted(bus, bus', d, inserted[t]), bus' \in Seq(Seq(RowIds))
        PROVE  AnnouncedOnce'
    <3>. PICK n \in Nat \ {0} : n = Len(bus') /\ DOMAIN bus' = 1 .. n
      BY <2>6 DEF Shifted
    <3>. PICK c : c = bus'
      OBVIOUS
    <3>1. c = bus' /\ n = Len(c) /\ DOMAIN c = 1 .. n
      OBVIOUS
    <3>2. /\ c[n] = inserted[t]
          /\ \A k \in 1 .. n - 1 : k + d \in DOMAIN bus /\ c[k] = bus[k + d]
      BY <2>6, <3>1 DEF Shifted
    <3>3. ASSUME NEW k \in 1 .. n
          PROVE  /\ Once(c[k]) /\ Apart(hand, c[k])
                 /\ \A u \in Tasks \ {t} : Apart(c[k], inserted[u])
      <4>1. CASE k = n
        BY <3>2, <4>1 DEF AnnouncedOnce
      <4>2. CASE k # n
        BY <3>2, <4>2 DEF AnnouncedOnce
      <4>3. QED
        BY <4>1, <4>2
    <3>4. ASSUME NEW k \in 1 .. n, NEW m \in 1 .. n, k # m
          PROVE  Apart(c[k], c[m])
      <4>1. CASE m = n
        BY <3>2, <3>4, <4>1 DEF AnnouncedOnce
      <4>2. CASE k = n
        <5>1. Apart(c[m], c[k])
          BY <3>2, <3>4, <4>2 DEF AnnouncedOnce
        <5>2. QED
          BY <5>1 DEF Apart
      <4>3. CASE k # n /\ m # n
        <5>1. k \in 1 .. n - 1 /\ m \in 1 .. n - 1 /\ k + d # m + d
          BY <3>4, <4>3
        <5>2. QED
          BY <3>2, <5>1 DEF AnnouncedOnce
      <4>4. QED
        BY <4>1, <4>2, <4>3
    <3>5. Once(hand)
      BY DEF AnnouncedOnce
    <3>6. \A k \in 1 .. n : \A u \in Tasks : Apart(c[k], inserted'[u])
      BY <2>1, <2>2, <3>3
    <3>7. QED
      BY <2>1, <2>3, <2>4, <3>1, <3>3, <3>4, <3>5, <3>6, Zenon DEF AnnouncedOnce
  <2>7. CASE phase # "off"
    BY <1>3, <2>6, <2>7, SentFact
  <2>8. CASE phase = "off"
    <3>1. bus' = bus
      BY <1>3, <2>8 DEF Announce
    <3>2. QED
      BY <2>5, <3>1
  <2>9. QED
    BY <2>7, <2>8
<1>4. CASE Hear
  <2>1. PICK b, c, E : b = bus /\ c = bus' /\ E = Seq(RowIds)
    OBVIOUS
  <2>2. /\ b \in Seq(E) /\ b # <<>> /\ hand' = Head(b) /\ c = Tail(b)
        /\ inserted' = inserted
    BY <1>4, <2>1 DEF Hear, Hearing, ingestVars, taskVars
  <2>3. /\ c \in Seq(E) /\ Len(c) + 1 = Len(b)
        /\ \A k \in 1 .. Len(c) : k + 1 \in DOMAIN b /\ c[k] = b[k + 1]
    BY <2>2, TailFact
  <2>4. PICK n \in Nat : n = Len(c) /\ DOMAIN c = 1 .. n
    BY <2>3
  <2>5. 1 \in DOMAIN b /\ hand' = b[1]
    BY <2>2
  <2>6. \A k \in 1 .. n : k + 1 # 1
    OBVIOUS
  <2>7. \A k \in 1 .. n : Once(c[k]) /\ Apart(hand', c[k])
    BY <2>1, <2>3, <2>4, <2>5, <2>6 DEF AnnouncedOnce
  <2>8. ASSUME NEW k \in 1 .. n, NEW m \in 1 .. n, k # m
        PROVE  Apart(c[k], c[m])
    <3>1. PICK x, y : x = k + 1 /\ y = m + 1
      OBVIOUS
    <3>2. x # y /\ x \in DOMAIN b /\ y \in DOMAIN b /\ c[k] = b[x] /\ c[m] = b[y]
      BY <2>3, <2>4, <2>8, <3>1
    <3>3. QED
      BY <2>1, <3>2 DEF AnnouncedOnce
  <2>9. \A k \in 1 .. n : \A u \in Tasks : Apart(c[k], inserted'[u])
    BY <2>1, <2>2, <2>3, <2>4 DEF AnnouncedOnce
  <2>10. Once(hand') /\ \A u \in Tasks : Once(inserted'[u]) /\ Apart(hand', inserted'[u])
    BY <2>1, <2>2, <2>5 DEF AnnouncedOnce
  <2>11. \A u, v \in Tasks : u # v => Apart(inserted'[u], inserted'[v])
    BY <2>2 DEF AnnouncedOnce
  <2>12. QED
    BY <2>1, <2>4, <2>7, <2>8, <2>9, <2>10, <2>11, Zenon DEF AnnouncedOnce
<1>5. CASE LookAt
  <2>1. /\ bus' = bus /\ inserted' = inserted /\ hand' = Tail(hand) /\ hand # <<>>
        /\ hand \in Seq(RowIds)
    BY <1>5 DEF LookAt, Hearing, ingestVars, taskVars
  <2>2. PICK rest : rest = hand'
    OBVIOUS
  <2>3. /\ rest \in Seq(RowIds)
        /\ \A k \in 1 .. Len(rest) : k + 1 \in DOMAIN hand /\ rest[k] = hand[k + 1]
    BY <2>1, <2>2, TailFact
  <2>4. DOMAIN rest = 1 .. Len(rest) /\ Len(rest) \in Nat
    BY <2>3
  <2>5. Once(rest)
    BY <2>3, <2>4 DEF AnnouncedOnce, Once
  <2>6. \A s : Apart(hand, s) => Apart(rest, s)
    BY <2>3, <2>4 DEF Apart
  <2>7. QED
    BY <2>1, <2>2, <2>5, <2>6 DEF AnnouncedOnce
<1>6. CASE EndProcess
  <2>1. hand' = <<>> /\ bus' = <<>> /\ \A t \in Tasks : inserted'[t] = <<>>
    BY <1>6 DEF EndProcess, IngestEnds
  <2>2. QED
    BY <2>1 DEF AnnouncedOnce, Once, Apart
<1>7. CASE Subscribe \/ Query \/ (\E r \in coming : LoadRow(r)) \/ LoadEnds \/ Restore
  BY <1>1, <1>7 DEF Subscribe, Query, LoadRow, LoadEnds, Restore, ingestVars, taskVars
<1>8. QED
  BY <1>1, <1>2, <1>3, <1>4, <1>5, <1>6, <1>7, VisibleFact
  DEF Visible, StayPut, liveVars

-----------------------------------------------------------------------------
(* What the analyzer has is the newest of what it has heard.                *)

(* Rows keep their dates, so what is the newest of some rows remains it.    *)
LEMMA NewestLater ==
    ASSUME NEW rows \in Seq(RowIds), NEW D \in SUBSET RowIds, NewestOf(rows, D),
           \A a \in RowIds : stored'[a] = stored[a], recent' = rows
    PROVE  /\ Known' = D => NewestOf(recent, Known)'
           /\ (RankedOf(Known) \ coming)' = D => NewestOf(recent, RankedOf(Known) \ coming)'
<1>1. \A r \in RowIds : DateOfRow(r)' = DateOfRow(r)
  BY DEF DateOfRow
<1>2. \A i \in DOMAIN rows : rows[i] \in RowIds /\ DateOfRow(rows[i])' = DateOfRow(rows[i])
  BY <1>1
<1>3. \A r \in D : DateOfRow(r)' = DateOfRow(r)
  BY <1>1
<1>4. /\ \A i, j \in DOMAIN rows : i < j => DateOfRow(rows[i])' >= DateOfRow(rows[j])'
      /\ \A r \in D : Held(rows, r) \/ \A i \in DOMAIN rows :
                                          DateOfRow(rows[i])' >= DateOfRow(r)'
  BY <1>2, <1>3 DEF NewestOf
<1>5. /\ Once(rows) /\ \A i \in DOMAIN rows : rows[i] \in D
      /\ Len(rows) < HistorySize => \A r \in D : Held(rows, r)
  BY DEF NewestOf
<1>6. QED
  BY <1>4, <1>5 DEF NewestOf, Once, Held

(* What the query returns depends on the dates only.                        *)
LEMMA RankedLater ==
    ASSUME NEW D \in SUBSET RowIds, Known' = D, \A a \in RowIds : stored'[a] = stored[a]
    PROVE  RankedOf(Known)' = RankedOf(D)
<1>1. \A r \in D : DateOfRow(r)' = DateOfRow(r)
  BY DEF DateOfRow
<1>2. \A r \in D : Newer(Known, r)' = Newer(D, r)
  BY <1>1 DEF Newer
<1>3. QED
  BY <1>2 DEF RankedOf

(* As long as the same rows are due, and the history stays as it is.        *)
LEMMA NewestToldLater ==
    ASSUME Hearing, NewestTold, ~replayed,
           \A a \in RowIds : stored'[a] = stored[a], Known' = Known,
           UNCHANGED <<phase, recent, coming>>
    PROVE  NewestTold'
<1>1. PICK D : D = Known
  OBVIOUS
<1>2. D \in SUBSET RowIds /\ RankedOf(D) \in SUBSET RowIds
  BY <1>1 DEF Known, Heard, RankedOf
<1>3. RankedOf(Known)' = RankedOf(D)
  BY <1>1, <1>2, RankedLater
<1>4. CASE phase = "load"
  <2>1. coming \subseteq RankedOf(D) /\ NewestOf(recent, RankedOf(D) \ coming)
    BY <1>1, <1>4 DEF NewestTold
  <2>2. (RankedOf(Known) \ coming)' = RankedOf(D) \ coming
    BY <1>3
  <2>3. PICK rows, E : rows = recent /\ E = RankedOf(D) \ coming
    OBVIOUS
  <2>4. NewestOf(recent, RankedOf(Known) \ coming)'
    <3>1. rows \in Seq(RowIds) /\ E \in SUBSET RowIds /\ NewestOf(rows, E) /\ recent' = rows
      BY <1>2, <2>1, <2>3 DEF Hearing
    <3>2. QED
      BY <2>2, <2>3, <3>1, NewestLater
  <2>5. QED
    BY <1>3, <1>4, <2>1, <2>4 DEF NewestTold
<1>5. CASE phase = "live"
  <2>1. PICK rows : rows = recent
    OBVIOUS
  <2>2. rows \in Seq(RowIds) /\ NewestOf(rows, D) /\ recent' = rows /\ Known' = D
    BY <1>1, <1>5, <2>1 DEF NewestTold, Hearing
  <2>3. NewestOf(recent, Known)'
    BY <1>2, <2>2, NewestLater
  <2>4. QED
    BY <1>5, <2>3 DEF NewestTold
<1>6. QED
  BY <1>4, <1>5 DEF NewestTold

(* What a snapshot has depends on the dates only.                           *)
LEMMA NewestStays ==
    ASSUME NEW rows \in Seq(RowIds), NEW D \in SUBSET RowIds, NewestOf(rows, D),
           \A a \in RowIds : stored'[a] = stored[a]
    PROVE  NewestOf(rows, D)'
<1>1. \A r \in RowIds : DateOfRow(r)' = DateOfRow(r)
  BY DEF DateOfRow
<1>2. /\ \A i \in DOMAIN rows : DateOfRow(rows[i])' = DateOfRow(rows[i])
      /\ \A r \in D : DateOfRow(r)' = DateOfRow(r)
  BY <1>1
<1>3. /\ \A i, j \in DOMAIN rows : i < j => DateOfRow(rows[i])' >= DateOfRow(rows[j])'
      /\ \A r \in D : Held(rows, r) \/ \A i \in DOMAIN rows :
                                          DateOfRow(rows[i])' >= DateOfRow(r)'
  BY <1>2 DEF NewestOf
<1>4. /\ Once(rows) /\ \A i \in DOMAIN rows : rows[i] \in D
      /\ Len(rows) < HistorySize => \A r \in D : Held(rows, r)
  BY DEF NewestOf
<1>5. QED
  BY <1>3, <1>4 DEF NewestOf, Once, Held

(* What the model says of rows that are due, and of those told of.          *)
LEMMA ToldFact ==
    ASSUME Hearing
    PROVE  (\A r : r \in ToBeHeard <=> Due(r)) /\ Told = Known
<1>1. \A s, r : r \in ToSet(s) <=> Held(s, r)
  BY DEF ToSet, Held
<1>2. ToSet(bus) = {bus[k] : k \in DOMAIN bus}
  BY DEF ToSet
<1>3. Range(inserted) = {inserted[t] : t \in Tasks}
  BY DEF Range, Hearing
<1>4. \A r : r \in ToBeHeard <=> Due(r)
  BY <1>1, <1>2, <1>3 DEF ToBeHeard, Due
<1>5. QED
  BY <1>4 DEF Told, Known, Heard

(* An event that is sent holds what its task had inserted: the same rows    *)
(* are due, or fewer when some were dropped.                                *)
LEMMA AnnounceDue ==
    ASSUME Hearing, AnnouncedOnce, NEW t \in Tasks, Announce(t)
    PROVE  /\ Heard \subseteq Heard'
           /\ phase # "off" => Known' = Known
           /\ missed \subseteq Heard => missed' \subseteq Heard'
<1>1. /\ hand' = hand /\ stored' = stored /\ inserted'[t] = <<>>
      /\ \A u \in Tasks \ {t} : inserted'[u] = inserted[u]
  BY DEF Announce, End, Hearing
<1>2. RowIds' = RowIds /\ \A r : ~ Held(inserted'[t], r)
  BY <1>1 DEF RowIds, Held
<1>3. CASE phase = "off"
  <2>1. bus' = bus /\ missed' = missed
    BY <1>3 DEF Announce
  <2>2. \A r : Due(r)' => Due(r)
    BY <1>1, <1>2, <2>1 DEF Due, Held
  <2>3. QED
    BY <1>2, <1>3, <2>1, <2>2 DEF Heard
<1>4. CASE phase # "off"
  <2>1. \E d \in {0, 1} : \E gone \in SUBSET ToSet(Head(bus)) :
           /\ Shifted(bus, bus', d, inserted[t]) /\ missed' = missed \cup gone
           /\ d = 0 => gone = {}
           /\ d = 1 => bus # <<>> /\ gone = ToSet(Head(bus))
    <3>1. CASE Shifted(bus, bus', 0, inserted[t]) /\ missed' = missed
      <4>1. {} \in SUBSET ToSet(Head(bus)) /\ missed' = missed \cup {}
        BY <3>1
      <4>2. QED
        BY <3>1, <4>1
    <3>2. CASE /\ Shifted(bus, bus', 1, inserted[t])
               /\ bus # <<>> /\ missed' = missed \cup ToSet(Head(bus))
      <4>1. ToSet(Head(bus)) \in SUBSET ToSet(Head(bus))
        OBVIOUS
      <4>2. QED
        BY <3>2, <4>1
    <3>3. QED
      BY <1>4, <3>1, <3>2, SentFact
  <2>. PICK d \in {0, 1}, gone \in SUBSET ToSet(Head(bus)) :
           /\ Shifted(bus, bus', d, inserted[t]) /\ missed' = missed \cup gone
           /\ d = 0 => gone = {}
           /\ d = 1 => bus # <<>> /\ gone = ToSet(Head(bus))
    BY <2>1
  <2>. PICK n \in Nat \ {0} : n = Len(bus') /\ DOMAIN bus' = 1 .. n
    BY <1>4, SentFact DEF Shifted
  <2>. PICK c : c = bus'
    OBVIOUS
  <2>2. c = bus' /\ n = Len(c) /\ DOMAIN c = 1 .. n
    OBVIOUS
  <2>. PICK m \in Nat : m = Len(bus) /\ DOMAIN bus = 1 .. m
    BY DEF Hearing
  <2>. PICK b : b = bus
    OBVIOUS
  <2>3. b = bus /\ m = Len(b) /\ DOMAIN b = 1 .. m
    OBVIOUS
  <2>4. /\ c[n] = inserted[t] /\ n + d = m + 1
        /\ \A k \in 1 .. n - 1 : k + d \in 1 .. m /\ c[k] = b[k + d]
    BY <2>2, <2>3 DEF Shifted
  <2>5. ASSUME NEW r, NEW k \in 1 .. n, Held(c[k], r)
        PROVE  (\E l \in 1 .. m : Held(b[l], r)) \/ Held(inserted[t], r)
    <3>1. CASE k = n
      BY <2>4, <2>5, <3>1
    <3>2. CASE k # n
      BY <2>4, <2>5, <3>2
    <3>3. QED
      BY <3>1, <3>2
  <2>6. ASSUME NEW r, Due(r)'
        PROVE  Due(r)
    <3>1. (\E k \in 1 .. m : Held(b[k], r)) => Due(r)
      BY <2>3 DEF Due
    <3>2. Held(inserted[t], r) => Due(r)
      BY DEF Due
    <3>3. (\E k \in DOMAIN bus : Held(bus[k], r))' <=> \E k \in 1 .. n : Held(c[k], r)
      BY <2>2 DEF Held
    <3>4. (\E k \in DOMAIN bus : Held(bus[k], r))' => Due(r)
      BY <2>5, <3>1, <3>2, <3>3
    <3>5. Held(hand, r)' => Due(r)
      BY <1>1 DEF Due, Held
    <3>6. (\E u \in Tasks : Held(inserted[u], r))' => Due(r)
      BY <1>1, <1>2 DEF Due, Held
    <3>7. QED
      BY <2>6, <3>4, <3>5, <3>6 DEF Due
  <2>7. ASSUME NEW r, r \notin gone, NEW l \in 1 .. m, Held(b[l], r)
        PROVE  \E k \in 1 .. n : Held(c[k], r)
    <3>1. ASSUME d = 1, l = 1
          PROVE  FALSE
      <4>1. Head(bus) = b[1] /\ gone = ToSet(b[1])
        BY <2>3, <3>1
      <4>2. QED
        BY <2>7, <3>1, <4>1 DEF ToSet, Held
    <3>2. l - d \in 1 .. n - 1 /\ (l - d) + d = l /\ l - d \in 1 .. n
      BY <2>4, <3>1
    <3>3. QED
      BY <2>4, <2>7, <3>2
  <2>8. ASSUME NEW r, r \notin gone, Due(r)
        PROVE  Due(r)'
    <3>1. (\E k \in 1 .. n : Held(c[k], r)) => Due(r)'
      BY <2>2 DEF Due, Held
    <3>2. Held(inserted[t], r) => Due(r)'
      BY <2>4, <3>1
    <3>3. (\E l \in DOMAIN bus : Held(bus[l], r)) => Due(r)'
      BY <2>3, <2>7, <2>8, <3>1
    <3>4. Held(hand, r) => Due(r)'
      BY <1>1 DEF Due, Held
    <3>5. ASSUME NEW u \in Tasks \ {t}, Held(inserted[u], r)
          PROVE  Due(r)'
      BY <1>1, <3>5 DEF Due, Held
    <3>6. QED
      BY <2>8, <3>2, <3>3, <3>4, <3>5 DEF Due
  <2>9. ASSUME NEW r \in gone
        PROVE  r \in RowIds /\ Due(r) /\ ~ Due(r)'
    <3>1. d = 1 /\ b # <<>> /\ gone = ToSet(b[1]) /\ 1 \in DOMAIN b
      <4>1. d = 1 /\ bus # <<>> /\ gone = ToSet(Head(bus))
        BY <2>9
      <4>2. QED
        BY <2>3, <4>1 DEF Hearing
    <3>2. PICK i \in DOMAIN b[1] : b[1][i] = r
      BY <2>9, <3>1 DEF ToSet
    <3>3. r \in RowIds
      BY <2>3, <3>1, <3>2 DEF Hearing
    <3>4. Due(r)
      BY <2>3, <3>1, <3>2 DEF Due, Held
    <3>5. \A s : Apart(s, b[1]) \/ Apart(b[1], s) => ~ Held(s, r)
      BY <3>2 DEF Apart, Held
    <3>6. ~ Held(hand, r) /\ \A u \in Tasks : ~ Held(inserted[u], r)
      BY <2>3, <3>1, <3>5 DEF AnnouncedOnce
    <3>7. ASSUME NEW k \in 1 .. n
          PROVE  ~ Held(c[k], r)
      <4>1. CASE k = n
        BY <2>4, <3>6, <4>1
      <4>2. CASE k # n
        <5>1. k + d \in DOMAIN b /\ k + d # 1 /\ c[k] = b[k + d]
          BY <2>3, <2>4, <3>1, <4>2
        <5>2. PICK l \in DOMAIN b : l = k + d /\ l # 1 /\ c[k] = b[l]
          BY <5>1
        <5>3. Apart(b[1], b[l])
          BY <2>3, <3>1, <5>2 DEF AnnouncedOnce
        <5>4. QED
          BY <3>5, <5>2, <5>3
      <4>3. QED
        BY <4>1, <4>2
    <3>8. ~ Due(r)'
      <4>1. (\E k \in DOMAIN bus : Held(bus[k], r))' <=> \E k \in 1 .. n : Held(c[k], r)
        BY <2>2 DEF Held
      <4>2. ~ Held(hand, r)' /\ \A u \in Tasks : ~ Held(inserted[u], r)'
        BY <1>1, <1>2, <3>6 DEF Held
      <4>3. QED
        BY <3>7, <4>1, <4>2 DEF Due
    <3>9. QED
      BY <3>3, <3>4, <3>8
  <2>10. Heard \subseteq Heard' /\ gone \subseteq Heard'
    BY <1>2, <2>6, <2>9 DEF Heard
  <2>11. Known' = Known
    <3>1. missed' = missed \cup gone
      OBVIOUS
    <3>2. QED
      BY <1>2, <2>6, <2>8, <2>9, <3>1 DEF Known, Heard
  <2>12. QED
    BY <2>10, <2>11
<1>5. QED
  BY <1>3, <1>4

(* Rows a task inserts are due at once.                                     *)
LEMMA InsertDue ==
    ASSUME Typed, Hearing, Stages, NEW t \in Tasks, Insert(t), UNCHANGED liveVars
    PROVE  Heard' = Heard
<1>1. /\ RowIds \subseteq RowIds'
      /\ \A u \in Tasks \ {t} : inserted'[u] = inserted[u]
      /\ \A r : Held(inserted'[t], r) <=> r \in RowIds' \ RowIds
  BY InsertedFact
<1>2. \A r : ~ Held(inserted[t], r)
  <2>1. inserted[t] = <<>>
    BY DEF Insert, Stages
  <2>2. QED
    BY <2>1 DEF Held
<1>3. hand' = hand /\ bus' = bus
  BY DEF liveVars
<1>4. \A r : Due(r)' <=> Due(r) \/ r \in RowIds' \ RowIds
  <2> TAKE r
  <2>1. (\E u \in Tasks : Held(inserted'[u], r))
           <=> (\E u \in Tasks : Held(inserted[u], r)) \/ r \in RowIds' \ RowIds
    BY <1>1, <1>2
  <2>2. QED
    BY <1>3, <2>1 DEF Due, Held
<1>5. \A r \in RowIds' \ RowIds : Due(r)'
  BY <1>4
<1>6. QED
  BY <1>1, <1>4 DEF Heard

(* An event that is taken from the bus is due as it was.                    *)
LEMMA HearDue ==
    ASSUME Hearing, Hear
    PROVE  Heard' = Heard
<1>1. PICK b, c, E : b = bus /\ c = bus' /\ E = Seq(RowIds)
  OBVIOUS
<1>2. /\ b \in Seq(E) /\ b # <<>> /\ hand' = Head(b) /\ c = Tail(b) /\ hand = <<>>
      /\ inserted' = inserted /\ stored' = stored
  BY <1>1 DEF Hear, Hearing, ingestVars, taskVars
<1>3. /\ c \in Seq(E) /\ Len(c) + 1 = Len(b)
      /\ \A k \in 1 .. Len(c) : k + 1 \in DOMAIN b /\ c[k] = b[k + 1]
  BY <1>2, TailFact
<1>4. PICK n \in Nat : n = Len(c) /\ DOMAIN c = 1 .. n /\ DOMAIN b = 1 .. n + 1
  <2>1. /\ Len(c) \in Nat /\ DOMAIN c = 1 .. Len(c)
        /\ Len(b) \in Nat /\ DOMAIN b = 1 .. Len(b)
    BY <1>2, <1>3
  <2>2. Len(b) = Len(c) + 1
    BY <1>3, <2>1
  <2>3. QED
    BY <2>1, <2>2
<1>5. hand' = b[1] /\ \A r : ~ Held(hand, r)
  BY <1>2 DEF Held
<1>6. ASSUME NEW r
      PROVE  (\E k \in 1 .. n + 1 : Held(b[k], r))
                <=> Held(b[1], r) \/ \E k \in 1 .. n : Held(c[k], r)
  <2>1. ASSUME NEW k \in 1 .. n + 1, Held(b[k], r), k # 1
        PROVE  \E l \in 1 .. n : Held(c[l], r)
    <3>1. k - 1 \in 1 .. n /\ (k - 1) + 1 = k
      BY <2>1
    <3>2. QED
      BY <1>3, <1>4, <2>1, <3>1
  <2>2. ASSUME NEW k \in 1 .. n, Held(c[k], r)
        PROVE  \E l \in 1 .. n + 1 : Held(b[l], r)
    BY <1>3, <1>4, <2>2
  <2>3. QED
    BY <2>1, <2>2
<1>7. ASSUME NEW r
      PROVE  Due(r)' <=> Due(r)
  <2>1. Held(hand, r)' <=> Held(b[1], r)
    BY <1>5 DEF Held
  <2>2. (\E k \in DOMAIN bus : Held(bus[k], r))' <=> \E k \in 1 .. n : Held(c[k], r)
    BY <1>1, <1>4 DEF Held
  <2>3. (\E t \in Tasks : Held(inserted[t], r))' <=> \E t \in Tasks : Held(inserted[t], r)
    BY <1>2 DEF Held
  <2>4. Due(r)' <=> \/ Held(b[1], r)
                    \/ \E k \in 1 .. n : Held(c[k], r)
                    \/ \E t \in Tasks : Held(inserted[t], r)
    BY <2>1, <2>2, <2>3 DEF Due
  <2>5. (\E k \in DOMAIN bus : Held(bus[k], r)) <=> \E k \in 1 .. n + 1 : Held(b[k], r)
    BY <1>1, <1>4
  <2>6. QED
    BY <1>5, <1>6, <2>4, <2>5 DEF Due
<1>8. RowIds' = RowIds
  BY <1>2 DEF RowIds
<1>9. QED
  BY <1>7, <1>8 DEF Heard

(* A row the analyzer looks at is due no more, for it is in no other event. *)
LEMMA LookAtDue ==
    ASSUME Hearing, AnnouncedOnce, LookAt, NEW r, r = Head(hand)
    PROVE  r \in RowIds /\ r \notin Heard /\ Heard' = Heard \cup {r}
<1>1. /\ bus' = bus /\ inserted' = inserted /\ stored' = stored
      /\ hand' = Tail(hand) /\ hand # <<>> /\ hand \in Seq(RowIds)
  BY DEF LookAt, Hearing, ingestVars, taskVars
<1>1a. PICK n \in Nat \ {0} : n = Len(hand) /\ DOMAIN hand = 1 .. n
  BY <1>1
<1>1b. PICK z : z = hand
  OBVIOUS
<1>2. z = hand /\ n = Len(z) /\ DOMAIN z = 1 .. n
  BY <1>1a, <1>1b
<1>3. r = z[1] /\ 1 \in DOMAIN z /\ r \in RowIds
  BY <1>1, <1>2
<1>4. PICK rest : rest = hand'
  OBVIOUS
<1>5. /\ DOMAIN rest = 1 .. n - 1
      /\ \A k \in 1 .. n - 1 : rest[k] = z[k + 1]
  <2>1. /\ rest \in Seq(RowIds) /\ Len(rest) + 1 = Len(hand)
        /\ \A k \in 1 .. Len(rest) : k + 1 \in DOMAIN hand /\ rest[k] = hand[k + 1]
    BY <1>1, <1>4, TailFact
  <2>2. QED
    BY <1>2, <2>1
<1>6. ~ Held(rest, r)
  <2> SUFFICES ASSUME NEW k \in 1 .. n - 1, z[k + 1] = z[1]
               PROVE  FALSE
    BY <1>3, <1>5 DEF Held
  <2>1. k + 1 \in DOMAIN z /\ k + 1 # 1
    BY <1>2
  <2>2. QED
    BY <1>2, <1>3, <2>1 DEF AnnouncedOnce, Once
<1>7. \A s : Apart(z, s) => ~ Held(s, r)
  BY <1>3 DEF Apart, Held
<1>8. /\ \A k \in DOMAIN bus : ~ Held(bus[k], r)
      /\ \A t \in Tasks : ~ Held(inserted[t], r)
  BY <1>2, <1>7 DEF AnnouncedOnce
<1>9. ASSUME NEW q
      PROVE  Held(z, q) <=> q = r \/ Held(rest, q)
  <2>1. ASSUME NEW i \in 1 .. n, z[i] = q, q # r
        PROVE  Held(rest, q)
    <3>1. i - 1 \in 1 .. n - 1 /\ (i - 1) + 1 = i
      BY <1>3, <2>1
    <3>2. QED
      BY <1>5, <2>1, <3>1 DEF Held
  <2>2. ASSUME NEW k \in 1 .. n - 1, rest[k] = q
        PROVE  Held(z, q)
    <3>1. k + 1 \in DOMAIN z
      BY <1>2
    <3>2. QED
      BY <1>5, <2>2, <3>1 DEF Held
  <2>3. QED
    BY <1>2, <1>3, <1>5, <2>1, <2>2 DEF Held
<1>10. Due(r) /\ ~ Due(r)'
  BY <1>1, <1>2, <1>4, <1>6, <1>8, <1>9 DEF Due, Held
<1>11. \A q : Due(q) <=> q = r \/ Due(q)'
  <2> SUFFICES ASSUME NEW q
               PROVE  Due(q) <=> q = r \/ Due(q)'
    OBVIOUS
  <2>1. (\E i \in DOMAIN hand : hand[i] = q)
           <=> q = r \/ (\E i \in DOMAIN hand : hand[i] = q)'
    BY <1>2, <1>4, <1>9 DEF Held
  <2>2. QED
    BY <1>1, <1>10, <2>1 DEF Due, Held
<1>12. RowIds' = RowIds
  BY <1>1 DEF RowIds
<1>13. QED
  BY <1>3, <1>10, <1>11, <1>12 DEF Heard

(* Every step keeps the history the newest of what has been heard.          *)
LEMMA NewestToldStep ==
    ASSUME Typed, Hearing, Stages, AnnouncedOnce, NewestTold, Missing, Snapshots, Next
    PROVE  NewestTold'
<1> SUFFICES ASSUME ~replayed'
             PROVE  NewestTold'
  BY DEF NewestTold
<1>1. CASE StayPut
  <2>1. Known' = Known
    BY <1>1 DEF StayPut, liveVars, Known, Heard, Due, Held, RowIds
  <2>2. QED
    BY <1>1, <2>1, NewestToldLater DEF StayPut, liveVars
<1>2. ASSUME NEW t \in Tasks, Insert(t), UNCHANGED <<liveVars, missed, replayed>>
      PROVE  NewestTold'
  <2>1. Known' = Known
    BY <1>2, InsertDue DEF Known
  <2>2. \A a \in RowIds : stored'[a] = stored[a]
    BY <1>2, InsertedFact
  <2>3. QED
    BY <1>2, <2>1, <2>2, NewestToldLater DEF liveVars
<1>3. ASSUME NEW t \in Tasks, Announce(t)
      PROVE  NewestTold'
  <2>1. /\ stored' = stored /\ replayed' = replayed
        /\ phase' = phase /\ recent' = recent /\ coming' = coming
    BY <1>3 DEF Announce, End
  <2>2. CASE phase = "off"
    BY <2>1, <2>2 DEF NewestTold
  <2>3. CASE phase # "off"
    <3>1. Known' = Known
      BY <1>3, <2>3, AnnounceDue
    <3>2. QED
      BY <2>1, <3>1, NewestToldLater
  <2>4. QED
    BY <2>2, <2>3
<1>4. CASE Subscribe \/ EndProcess
  BY <1>4 DEF Subscribe, EndProcess, NewestTold
<1>5. CASE Query
  <2>1. /\ phase' = "load" /\ coming' = Ranked /\ recent' = recent /\ recent = <<>>
        /\ stored' = stored /\ inserted' = inserted /\ bus' = bus /\ hand' = hand
        /\ missed' = {} /\ bus = <<>> /\ hand = <<>> /\ \A t \in Tasks : inserted[t] = <<>>
    BY <1>5 DEF Query, Stages, ingestVars, taskVars
  <2>2. Known' = RowIds
    <3>1. Heard = RowIds
      BY <2>1 DEF Heard, Due, Held
    <3>2. Heard' = Heard
      BY <2>1 DEF Heard, Due, Held, RowIds
    <3>3. QED
      BY <2>1, <3>1, <3>2 DEF Known
  <2>3. coming' = RankedOf(RowIds)
    BY <2>1 DEF Ranked, RankedOf, Newer
  <2>4. RankedOf(Known)' = RankedOf(RowIds)
    BY <2>1, <2>2, RankedLater
  <2>5. (RankedOf(Known) \ coming)' = {} /\ coming' \subseteq RankedOf(Known)'
    BY <2>3, <2>4
  <2>6. NewestOf(recent, RankedOf(Known) \ coming)'
    <3>1. PICK rows, E : rows = <<>> /\ E = {}
      OBVIOUS
    <3>2. rows \in Seq(RowIds) /\ E \in SUBSET RowIds /\ NewestOf(rows, E)
      BY <3>1 DEF NewestOf, Once
    <3>3. recent' = rows /\ (RankedOf(Known) \ coming)' = E
      BY <2>1, <2>5, <3>1
    <3>4. QED
      BY <2>1, <3>2, <3>3, NewestLater
  <2>7. QED
    BY <2>1, <2>5, <2>6 DEF NewestTold
<1>6. ASSUME NEW r \in coming, LoadRow(r)
      PROVE  NewestTold'
  <2>1. /\ phase = "load" /\ phase' = "load"
        /\ recent' = Kept(recent, r) /\ coming' = coming \ {r}
        /\ stored' = stored /\ inserted' = inserted /\ bus' = bus /\ hand' = hand
        /\ missed' = missed /\ ~replayed
    BY <1>6 DEF LoadRow, ingestVars, taskVars
  <2>2. PICK rows, B, D : rows = recent /\ B = Known /\ D = RankedOf(Known) \ coming
    OBVIOUS
  <2>3. /\ B \in SUBSET RowIds /\ D \in SUBSET RowIds /\ r \in RowIds \ D
        /\ coming \subseteq RankedOf(B)
        /\ NewestOf(rows, D) /\ rows \in Seq(RowIds) /\ Len(rows) <= HistorySize
    BY <1>6, <2>1, <2>2 DEF NewestTold, Hearing, Known, Heard, RankedOf
  <2>4. PICK kept : kept = Kept(rows, r)
    OBVIOUS
  <2>5. PICK E : E = D \cup {r}
    OBVIOUS
  <2>6. NewestOf(kept, E) /\ kept \in Seq(RowIds) /\ E \in SUBSET RowIds
    BY <2>3, <2>4, <2>5, NewestStep, KeptTyped
  <2>7. Known' = B
    BY <2>1, <2>2 DEF Known, Heard, Due, Held, RowIds
  <2>8. RankedOf(Known)' = RankedOf(B)
    BY <2>1, <2>3, <2>7, RankedLater
  <2>9. (RankedOf(Known) \ coming)' = E /\ coming' \subseteq RankedOf(Known)'
    BY <1>6, <2>1, <2>2, <2>3, <2>5, <2>8
  <2>10. NewestOf(recent, RankedOf(Known) \ coming)'
    <3>1. recent' = kept
      BY <2>1, <2>2, <2>4
    <3>2. QED
      BY <2>1, <2>6, <2>9, <3>1, NewestLater
  <2>11. QED
    BY <2>1, <2>9, <2>10 DEF NewestTold
<1>7. CASE LoadEnds
  <2>1. /\ phase = "load" /\ phase' = "live" /\ ~replayed
        /\ missed' = IF coming = {} THEN missed ELSE RowIds \ (ToSet(recent) \cup ToBeHeard)
        /\ recent' = recent /\ stored' = stored /\ inserted' = inserted
        /\ bus' = bus /\ hand' = hand
    BY <1>7 DEF LoadEnds, ingestVars, taskVars
  <2>2. PICK rows, B, D : rows = recent /\ B = Known /\ D = RankedOf(Known) \ coming
    OBVIOUS
  <2>3. /\ B \in SUBSET RowIds /\ rows \in Seq(RowIds) /\ Len(rows) <= HistorySize
        /\ D \in SUBSET RowIds /\ D \subseteq Known /\ NewestOf(rows, D)
    BY <2>1, <2>2 DEF NewestTold, Hearing, Known, Heard, RankedOf
  <2>4. Heard' = Heard
    BY <2>1 DEF Heard, Due, Held, RowIds
  <2>5. CASE coming = {}
    <3>1. D = RankedOf(B) /\ Known' = B
      BY <2>1, <2>2, <2>4, <2>5 DEF Known
    <3>2. NewestOf(rows, B)
      BY <2>3, <3>1, RankedSuffices
    <3>3. NewestOf(recent, Known)'
      BY <2>1, <2>2, <2>3, <3>1, <3>2, NewestLater
    <3>4. QED
      BY <2>1, <3>3 DEF NewestTold
  <2>6. CASE coming # {}
    <3>1. PICK E : E = ToSet(rows)
      OBVIOUS
    <3>2. E \in SUBSET RowIds /\ NewestOf(rows, E)
      BY <2>3, <3>1, NewestOfItself
    <3>3. E \subseteq D
      BY <3>1, <2>3 DEF NewestOf, ToSet
    <3>4. Known' = E
      <4>1. missed' = RowIds \ (E \cup ToBeHeard)
        BY <2>1, <2>2, <2>6, <3>1
      <4>2. \A r \in RowIds : r \in ToBeHeard <=> r \notin Heard
        BY ToldFact DEF Heard
      <4>3. E \subseteq Heard
        BY <2>3, <3>3 DEF Known
      <4>4. Heard \subseteq RowIds
        BY DEF Heard
      <4>5. QED
        BY <2>4, <4>1, <4>2, <4>3, <4>4 DEF Known
    <3>5. NewestOf(recent, Known)'
      BY <2>1, <2>2, <2>3, <3>2, <3>4, NewestLater
    <3>6. QED
      BY <2>1, <3>5 DEF NewestTold
  <2>7. QED
    BY <2>5, <2>6
<1>8. CASE Hear
  <2>1. Known' = Known
    BY <1>8, HearDue DEF Hear, Known
  <2>2. QED
    BY <1>8, <2>1, NewestToldLater DEF Hear, ingestVars
<1>9. CASE LookAt
  <2>1. /\ phase = "live" /\ phase' = "live" /\ missed' = missed /\ ~replayed
        /\ recent' = Kept(recent, Head(hand)) /\ stored' = stored
    BY <1>9 DEF LookAt, Stages, ingestVars
  <2>2. PICK rows, D, r : rows = recent /\ D = Known /\ r = Head(hand)
    OBVIOUS
  <2>3. r \in RowIds /\ r \notin D /\ Known' = D \cup {r}
    <3>1. r \in RowIds /\ r \notin Heard /\ Heard' = Heard \cup {r}
      BY <1>9, <2>2, LookAtDue
    <3>2. QED
      BY <2>1, <2>2, <3>1 DEF Known, Missing
  <2>4. /\ D \in SUBSET RowIds /\ rows \in Seq(RowIds) /\ Len(rows) <= HistorySize
        /\ NewestOf(rows, D)
    BY <2>1, <2>2 DEF NewestTold, Hearing, Known, Heard
  <2>5. PICK kept, E : kept = Kept(rows, r) /\ E = D \cup {r}
    OBVIOUS
  <2>6. NewestOf(kept, E) /\ kept \in Seq(RowIds) /\ E \in SUBSET RowIds
    BY <2>3, <2>4, <2>5, NewestStep, KeptTyped
  <2>7. recent' = kept /\ Known' = E
    BY <2>1, <2>2, <2>3, <2>5
  <2>8. NewestOf(recent, Known)'
    BY <2>1, <2>6, <2>7, NewestLater
  <2>9. QED
    BY <2>1, <2>8 DEF NewestTold
<1>10. CASE Restore
  <2>1. PICK s \in saved : /\ recent' = s.recent /\ replayed' = s.replayed
                           /\ missed' = RowIds \ (s.told \cup ToBeHeard)
    BY <1>10 DEF Restore
  <2>2. /\ phase = "query" /\ phase' = "live" /\ stored' = stored
        /\ inserted' = inserted /\ bus' = bus /\ hand' = hand
    BY <1>10 DEF Restore, ingestVars, taskVars
  <2>3. PICK rows, D : rows = s.recent /\ D = s.told
    OBVIOUS
  <2>4. rows \in Seq(RowIds) /\ D \in SUBSET RowIds /\ NewestOf(rows, D) /\ D \subseteq Heard
    BY <2>1, <2>2, <2>3 DEF Snapshots
  <2>5. Heard' = Heard /\ Heard \subseteq RowIds
    BY <2>2 DEF Heard, Due, Held, RowIds
  <2>6. \A r \in RowIds : r \in ToBeHeard <=> r \notin Heard
    BY ToldFact DEF Heard
  <2>7. Known' = D
    BY <2>1, <2>3, <2>4, <2>5, <2>6 DEF Known
  <2>8. NewestOf(recent, Known)'
    BY <2>1, <2>2, <2>3, <2>4, <2>7, NewestLater
  <2>9. QED
    BY <2>2, <2>8 DEF NewestTold
<1>11. QED
  BY <1>1, <1>2, <1>3, <1>4, <1>5, <1>6, <1>7, <1>8, <1>9, <1>10, VisibleFact DEF Visible

-----------------------------------------------------------------------------
(* The rest of the types.                                                   *)

(* Reports are of sales that have happened.                                 *)
Reported ==
    /\ happened \in 0 .. MaxSales
    /\ newest \in 0 .. happened /\ disordered \in BOOLEAN
    /\ \A t \in Tasks : fresh[t] \subseteq report[t]
    /\ \A t \in Tasks : pc[t] \in {"idle", "read"} => fresh[t] = {}

(* The Writer has rows the analyzer has looked at, no row twice.            *)
Sunk == pending \cup written \cup lost \subseteq Heard

(* The backfill copies rows of months that have come.                       *)
Monthly ==
    /\ month \in 1 .. Months
    /\ job \in {"idle", "check", "insert", "mark"}
    /\ chunk \in 1 .. until /\ until \in 1 .. month
    /\ read \cup copied \subseteq RowIds /\ done \subseteq 1 .. month

(* A task drops sales of its report and adds none.                          *)
LEMMA ReportedStep ==
    ASSUME Typed, Reported, TaskStep
    PROVE  Reported'
<1>1. MaxSales \in Nat
  BY IngestAssumption
<1>2. CASE SaleHappens
  BY <1>1, <1>2 DEF SaleHappens, taskVars, Reported
<1>3. ASSUME NEW t \in Tasks, NEW sales \in Reports, Report(t, sales)
      PROVE  Reported'
  <2>1. PICK first \in Sales, last \in 0 .. MaxSales : sales = first .. last
    BY DEF Reports
  <2>2. /\ happened' = happened /\ newest' = Max(sales \cup {newest})
        /\ sales \subseteq 1 .. happened /\ fresh' = fresh /\ pc[t] = "idle"
        /\ report'[t] = sales /\ \A u \in Tasks \ {t} : report'[u] = report[u]
        /\ \A u \in Tasks \ {t} : pc'[u] = pc[u]
    BY <1>3 DEF Report, Typed
  <2>3. newest' \in 0 .. happened
    <3>1. newest \in 0 .. MaxSales /\ newest \in 0 .. happened /\ happened \in 0 .. MaxSales
      BY DEF Typed, Reported
    <3>2. newest' = IF first <= last /\ newest < last THEN last ELSE newest
      BY <2>1, <2>2, <3>1, ReportFact
    <3>3. first <= last => last \in 1 .. happened
      <4>1. first \in Int /\ last \in Int
        BY <1>1 DEF Sales
      <4>2. first <= last => last \in first .. last
        BY <4>1
      <4>3. QED
        BY <2>1, <2>2, <4>2
    <3>4. QED
      BY <3>1, <3>2, <3>3
  <2>4. disordered' \in BOOLEAN
    BY <1>3, Zenon DEF Report
  <2>5. QED
    BY <2>2, <2>3, <2>4 DEF Reported
<1>4. ASSUME NEW t \in Tasks, ReadRecorded(t)
      PROVE  Reported'
  <2>1. PICK rows \in NewestRows(Cardinality(report[t])) :
          LET left == {n \in report[t] : ~Recorded(n, rows)}
          IN  /\ fresh' = [fresh EXCEPT ![t] = left]
              /\ pc' = [pc EXCEPT ![t] = IF left = {} THEN "tell" ELSE "write"]
    BY <1>4 DEF ReadRecorded
  <2>2. /\ fresh'[t] \subseteq report[t] /\ pc'[t] \in {"tell", "write"}
        /\ \A u \in Tasks \ {t} : pc'[u] = pc[u] /\ fresh'[u] = fresh[u]
        /\ UNCHANGED <<happened, newest, disordered, report>>
    BY <1>4, <2>1 DEF ReadRecorded, Typed
  <2>3. QED
    BY <2>2 DEF Reported
<1>5. ASSUME NEW t \in Tasks, Insert(t)
      PROVE  Reported'
  BY <1>5 DEF Insert, Reported, Typed
<1>6. ASSUME NEW t \in Tasks, End(t)
      PROVE  Reported'
  BY <1>6 DEF End, Reported, Typed
<1>7. CASE IngestEnds
  BY <1>7 DEF IngestEnds, Reported
<1>8. QED
  BY <1>2, <1>3, <1>4, <1>5, <1>6, <1>7 DEF TaskStep

(* A row is due no more once it has been looked at, or dropped.             *)
LEMMA HeardGrows ==
    ASSUME Typed, Hearing, Stages, AnnouncedOnce, Next
    PROVE  Heard \subseteq Heard'
<1>1. CASE UNCHANGED <<stored, inserted, bus, hand>>
  BY <1>1 DEF Heard, Due, Held, RowIds
<1>2. ASSUME NEW t \in Tasks, Insert(t), UNCHANGED liveVars
      PROVE  Heard \subseteq Heard'
  BY <1>2, InsertDue
<1>3. CASE EndProcess
  BY <1>3 DEF EndProcess, IngestEnds, Heard, Due, Held, RowIds
<1>4. CASE (\E t \in Tasks : Announce(t)) \/ Hear \/ LookAt
  BY <1>4, AnnounceDue, HearDue, LookAtDue
<1>5. CASE Subscribe \/ Query \/ (\E r \in coming : LoadRow(r)) \/ LoadEnds \/ Restore
  BY <1>1, <1>5 DEF Subscribe, Query, LoadRow, LoadEnds, Restore, ingestVars, taskVars
<1>6. QED
  BY <1>1, <1>2, <1>3, <1>4, <1>5, VisibleFact DEF Visible, StayPut, liveVars

(* What is missed stays missed, and is not due.                             *)
LEMMA MissingStep ==
    ASSUME Typed, Hearing, Stages, AnnouncedOnce, Missing, Next
    PROVE  Missing'
<1>1. Heard \subseteq Heard'
  BY HeardGrows
<1>2. CASE UNCHANGED missed
  BY <1>1, <1>2 DEF Missing
<1>3. CASE \E t \in Tasks : Announce(t)
  BY <1>3, AnnounceDue DEF Missing
<1>4. CASE Query \/ EndProcess
  BY <1>4 DEF Query, EndProcess, Missing
<1>5. CASE LoadEnds \/ Restore
  <2>1. missed' \subseteq missed \cup (RowIds \ ToBeHeard)
    BY <1>5 DEF LoadEnds, Restore
  <2>2. RowIds \ ToBeHeard \subseteq Heard
    BY ToldFact DEF Heard
  <2>3. QED
    BY <1>1, <2>1, <2>2 DEF Missing
<1>6. CASE StayPut \/ Subscribe \/ (\E r \in coming : LoadRow(r)) \/ Hear \/ LookAt
  BY <1>2, <1>6 DEF StayPut, Subscribe, LoadRow, Hear, LookAt
<1>7. QED
  BY <1>2, <1>3, <1>4, <1>5, <1>6, VisibleFact DEF Visible

(* A snapshot keeps what it has; when the process ends nothing is due.      *)
LEMMA SnapshotsStep ==
    ASSUME Typed, Hearing, Stages, AnnouncedOnce, NewestTold, Snapshots, Next
    PROVE  Snapshots'
<1>1. /\ RowIds \subseteq RowIds' /\ Seq(RowIds) \subseteq Seq(RowIds')
      /\ \A a \in RowIds : stored'[a] = stored[a]
  BY StoredGrows, SeqGrows
<1>2. ASSUME NEW s \in saved
      PROVE  /\ s.recent \in Seq(RowIds') /\ Len(s.recent) <= HistorySize
             /\ s.told \in SUBSET RowIds'
             /\ ~s.replayed => NewestOf(s.recent, s.told)'
  <2>1. /\ s.recent \in Seq(RowIds) /\ Len(s.recent) <= HistorySize
        /\ s.told \in SUBSET RowIds /\ (~s.replayed => NewestOf(s.recent, s.told))
    BY DEF Snapshots
  <2>2. ~s.replayed => NewestOf(s.recent, s.told)'
    BY <1>1, <2>1, NewestStays
  <2>3. QED
    BY <1>1, <2>1, <2>2
<1>3. CASE saved' = saved /\ (phase' \in {"off", "query"} => phase \in {"off", "query"})
  <2>1. Heard \subseteq Heard'
    BY HeardGrows
  <2>2. \A s \in saved' : phase' \in {"off", "query"} => s.told \subseteq Heard'
    BY <1>3, <2>1 DEF Snapshots
  <2>3. QED
    BY <1>2, <1>3, <2>2 DEF Snapshots
<1>4. CASE EndProcess
  <2>1. saved' = saved /\ Heard' = RowIds'
    BY <1>4 DEF EndProcess, IngestEnds, Heard, Due, Held
  <2>2. QED
    BY <1>2, <2>1 DEF Snapshots
<1>5. CASE Save
  <2>1. PICK new : new = [recent |-> recent, told |-> Told, replayed |-> replayed]
    OBVIOUS
  <2>2. saved' \subseteq saved \cup {new}
    BY <1>5, <2>1 DEF Save
  <2>3. phase = "live" /\ phase' = "live"
    BY <1>5 DEF Save, liveVars
  <2>4. /\ new.recent \in Seq(RowIds) /\ Len(new.recent) <= HistorySize
        /\ new.told \in SUBSET RowIds
        /\ ~new.replayed => NewestOf(new.recent, new.told)
    <3>1. new.recent = recent /\ new.told = Known /\ new.replayed = replayed
      BY <2>1, ToldFact
    <3>2. Known \in SUBSET RowIds
      BY DEF Known, Heard
    <3>3. QED
      BY <2>3, <3>1, <3>2 DEF Hearing, NewestTold
  <2>5. ~new.replayed => NewestOf(new.recent, new.told)'
    BY <1>1, <2>4, NewestStays
  <2>6. QED
    BY <1>1, <1>2, <2>2, <2>3, <2>4, <2>5 DEF Snapshots
<1>6. QED
  BY <1>3, <1>4, <1>5 DEF Next, MonthTurns, Ingest, Announce, Subscribe, Query, LoadRow,
     LoadEnds, Hear, LookAt, WriterDecides, Restore, liveVars, JobStarts, ChunkSkipped,
     ChunkRead, ChunkInserted, ChunkMarked, JobFails

(* The Writer gets a row when it stops being due.                           *)
LEMMA SunkStep ==
    ASSUME Typed, Hearing, Stages, AnnouncedOnce, Sunk, Next
    PROVE  Sunk'
<1>1. Heard \subseteq Heard'
  BY HeardGrows
<1>2. CASE UNCHANGED sinkVars
  BY <1>1, <1>2 DEF Sunk, sinkVars
<1>3. CASE LookAt
  <2>1. PICK r : r = Head(hand)
    OBVIOUS
  <2>2. Heard' = Heard \cup {r}
    BY <1>3, <2>1, LookAtDue
  <2>3. pending' \cup written' \cup lost' \subseteq pending \cup written \cup lost \cup {r}
    BY <1>3, <2>1 DEF LookAt, Sink!Take, Sink!Refuse
  <2>4. QED
    BY <2>2, <2>3 DEF Sunk
<1>4. ASSUME NEW batch \in SUBSET pending, NEW good \in SUBSET batch, Sink!Decide(batch, good)
      PROVE  Sunk'
  BY <1>1, <1>4 DEF Sink!Decide, Sunk
<1>5. CASE WriterDecides \/ EndProcess
  BY <1>4, <1>5 DEF WriterDecides, EndProcess
<1>6. QED
  BY <1>2, <1>3, <1>5 DEF Next, MonthTurns, Ingest, Announce, Subscribe, Query, LoadRow,
     Save, Restore,
     LoadEnds, Hear, JobStarts, ChunkSkipped, ChunkRead, ChunkInserted, ChunkMarked, JobFails

(* The backfill stays inside the months, and the rows of sale_history.      *)
LEMMA MonthlyStep ==
    ASSUME Typed, Monthly, Next
    PROVE  Monthly'
<1>1. Months \in Nat \ {0} /\ RowIds \subseteq RowIds'
  BY MirrorAssumption, StoredGrows
<1>2. CASE UNCHANGED <<month, jobVars>>
  BY <1>1, <1>2 DEF Monthly, jobVars
<1>3. CASE MonthTurns
  BY <1>1, <1>3 DEF MonthTurns, jobVars, Monthly
<1>4. ASSUME NextChunk, job # "idle", UNCHANGED <<month, until, read, copied>>,
             done' \subseteq 1 .. month
      PROVE  Monthly'
  <2>1. chunk' \in 1 .. until /\ job' \in {"idle", "check"}
    BY <1>4 DEF NextChunk, Monthly
  <2>2. QED
    BY <1>1, <1>4, <2>1 DEF Monthly
<1>5. CASE JobStarts
  BY <1>1, <1>5 DEF JobStarts, Monthly
<1>6. CASE ChunkSkipped
  BY <1>4, <1>6 DEF ChunkSkipped, Monthly
<1>7. CASE ChunkRead \/ ChunkInserted
  BY <1>1, <1>7 DEF ChunkRead, ChunkInserted, Monthly
<1>8. CASE ChunkMarked
  <2>1. done' \subseteq 1 .. month
    BY <1>8 DEF ChunkMarked, Monthly
  <2>2. QED
    BY <1>4, <1>8, <2>1 DEF ChunkMarked
<1>9. CASE JobFails
  <2>1. /\ job' = "idle" /\ chunk' = 1 /\ read' = {} /\ copied' \subseteq copied \cup read
        /\ month' = month /\ until' = until /\ done' = done
    BY <1>9 DEF JobFails
  <2>2. QED
    BY <1>1, <2>1 DEF Monthly
<1>10. QED
  BY <1>2, <1>3, <1>5, <1>6, <1>7, <1>8, <1>9
  DEF Next, Ingest, Announce, Subscribe, Query, LoadRow, LoadEnds, Hear, LookAt,
      WriterDecides, Save, Restore, EndProcess

-----------------------------------------------------------------------------

(* The invariant of the mirror: together the parts are inductive.           *)
MInv ==
    /\ Typed /\ Hearing /\ Stages /\ AnnouncedOnce /\ Missing /\ NewestTold /\ Snapshots
    /\ Reported /\ Sunk /\ Monthly

(* Each part is kept with the help of the ones before it.                   *)
LEMMA MirrorInvariant == Spec => []MInv
<1>1. Init => MInv
  <2> SUFFICES ASSUME Init
               PROVE  MInv
    OBVIOUS
  <2>1. stored = <<>> /\ RowIds = {}
    BY DEF Init, IngestInit, RowIds
  <2>2. Typed /\ Reported
    <3>1. MaxSales \in Nat /\ stored \in Seq(Sales)
      BY <2>1, IngestAssumption
    <3>2. Typed
      BY <3>1 DEF Init, IngestInit, Typed
    <3>3. Reported
      <4>1. disordered \in BOOLEAN
        BY Zenon DEF Init, IngestInit
      <4>2. happened = 0 /\ newest = 0 /\ \A t \in Tasks : fresh[t] = {}
        BY DEF Init, IngestInit
      <4>3. QED
        BY <3>1, <4>1, <4>2 DEF Reported
    <3>4. QED
      BY <3>2, <3>3
  <2>3. inserted = [t \in Tasks |-> <<>>] /\ bus = <<>> /\ hand = <<>> /\ recent = <<>>
        /\ coming = {} /\ phase = "off" /\ pending \cup written \cup lost = {}
    BY DEF Init, IngestInit, Sink!Init
  <2>4. Capacity \in Nat /\ HistorySize \in Nat /\ Months \in Nat \ {0}
    BY MirrorAssumption
  <2>5. Hearing /\ Stages
    BY <2>3, <2>4 DEF Hearing, Stages
  <2>6. AnnouncedOnce
    BY <2>3 DEF AnnouncedOnce, Once, Apart
  <2>7. NewestTold /\ Sunk
    BY <2>3 DEF NewestTold, Sunk
  <2>8. Monthly
    BY <2>4 DEF Init, Monthly
  <2>9. Missing /\ Snapshots
    BY DEF Init, Missing, Snapshots
  <2>10. QED
    BY <2>2, <2>5, <2>6, <2>7, <2>8, <2>9 DEF MInv
<1>2. ASSUME MInv, Next
      PROVE  MInv'
  <2>1. /\ Typed /\ Hearing /\ Stages /\ AnnouncedOnce /\ Missing /\ NewestTold /\ Snapshots
        /\ Reported /\ Sunk /\ Monthly
    BY <1>2 DEF MInv
  <2>2. Typed' /\ Reported'
    <3>1. CASE TaskStep
      BY <2>1, <3>1, TypedStep, ReportedStep
    <3>2. CASE UNCHANGED ingestVars
      BY <2>1, <3>2 DEF ingestVars, taskVars, Typed, Reported
    <3>3. QED
      BY <1>2, <3>1, <3>2, StepFact
  <2>3. Hearing' /\ Stages' /\ AnnouncedOnce' /\ Missing' /\ NewestTold' /\ Snapshots'
    BY <1>2, <2>1, HearingStep, StagesStep, AnnouncedOnceStep, MissingStep, NewestToldStep,
       SnapshotsStep
  <2>4. Sunk' /\ Monthly'
    BY <1>2, <2>1, SunkStep, MonthlyStep
  <2>5. QED
    BY <2>2, <2>3, <2>4 DEF MInv
<1>3. ASSUME MInv, UNCHANGED vars
      PROVE  MInv'
  <2>1. UNCHANGED <<stored, pc, report, fresh, inserted, newest, happened, disordered>>
    BY <1>3 DEF vars, ingestVars, taskVars
  <2>2. UNCHANGED <<phase, bus, hand, recent, coming, saved, missed, replayed>>
    BY <1>3 DEF vars, liveVars
  <2>3. UNCHANGED <<pending, written, lost, month, job, chunk, until, read, copied, done>>
    BY <1>3 DEF vars, sinkVars, jobVars
  <2>4. Typed' /\ Hearing' /\ Stages' /\ AnnouncedOnce' /\ Reported' /\ Monthly'
    BY <1>3, <2>1, <2>2, <2>3
    DEF MInv, Typed, Hearing, Stages, AnnouncedOnce, Once, Apart, Reported, Monthly, RowIds
  <2>5. Heard' = Heard
    BY <2>1, <2>2 DEF Heard, Due, Held, RowIds
  <2>6. Sunk'
    BY <1>3, <2>3, <2>5 DEF MInv, Sunk
  <2>7. NewestTold' /\ Missing'
    BY <1>3, <2>1, <2>2, <2>5, NewestToldLater DEF MInv, NewestTold, Missing, Known
  <2>8. Snapshots'
    <3>1. RowIds' = RowIds /\ \A a \in RowIds : stored'[a] = stored[a]
      BY <2>1 DEF RowIds
    <3>2. ASSUME NEW s \in saved
          PROVE  ~s.replayed => NewestOf(s.recent, s.told)'
      BY <1>3, <3>1, NewestStays DEF MInv, Snapshots
    <3>3. QED
      BY <1>3, <2>2, <2>5, <3>1, <3>2 DEF MInv, Snapshots
  <2>9. QED
    BY <2>4, <2>6, <2>7, <2>8 DEF MInv
<1>4. QED
  BY <1>1, <1>2, <1>3, PTL DEF Spec

(* Nothing downstream of sale_history holds a row that is not there, and    *)
(* the bus and the analyzer's history stay inside their sizes: whatever the *)
(* reports, the losses of the bus and the crashes.                          *)
THEOREM MirrorTypeCorrect == Spec => []MirrorTypeOK
<1>1. ASSUME MInv
      PROVE  MirrorTypeOK
  <2>1. Typed /\ Hearing /\ Reported /\ Sunk /\ Monthly /\ Snapshots
    BY <1>1 DEF MInv
  <2>2. IngestTypeOK
    BY <2>1 DEF Typed, Hearing, Reported, IngestTypeOK
  <2>3. coming \cup pending \cup written \cup lost \subseteq RowIds
    BY <2>1 DEF Hearing, Sunk, Heard
  <2>4. QED
    BY <2>1, <2>2, <2>3 DEF Hearing, Monthly, Snapshots, MirrorTypeOK
<1>2. QED
  BY <1>1, MirrorInvariant, PTL

(* Once the analyzer has heard everything its sales are the newest of those *)
(* it was told of, in order and as many as there is room for: each step of  *)
(* add_sale keeps the newest of the rows that have been looked at, the      *)
(* query leaves out no row they need, a snapshot that is restored has none  *)
(* that is announced again, and no row is looked at twice.                  *)
THEOREM RecentNewest == Spec => []RecentIsNewest
<1>1. ASSUME MInv
      PROVE  RecentIsNewest
  <2> SUFFICES ASSUME Settled, ~replayed
               PROVE  RecentIsNewest
    BY DEF RecentIsNewest
  <2>1. Typed /\ Hearing /\ NewestTold
    BY <1>1 DEF MInv
  <2>2. phase = "live" /\ bus = <<>> /\ hand = <<>> /\ \A t \in Tasks : inserted[t] = <<>>
    BY DEF Settled
  <2>3. PICK D : D = RowIds \ missed
    OBVIOUS
  <2>4. D = Known
    BY <2>2, <2>3 DEF Known, Heard, Due, Held
  <2>5. /\ NewestOf(recent, D) /\ D \in SUBSET RowIds
        /\ recent \in Seq(RowIds) /\ Len(recent) <= HistorySize
    BY <2>1, <2>2, <2>3, <2>4 DEF NewestTold, Hearing
  <2>6. /\ ToSet(recent) \subseteq D /\ IsInjective(recent)
        /\ Len(recent) = Min({HistorySize, Cardinality(D)})
        /\ \A r \in D \ ToSet(recent) : \A i \in DOMAIN recent :
              DateOfRow(recent[i]) >= DateOfRow(r)
        /\ \A i, j \in DOMAIN recent :
              i < j => DateOfRow(recent[i]) >= DateOfRow(recent[j])
    BY <2>1, <2>5, NewestFact
  <2>7. RowIds \ (missed \cup ToSet(recent)) = D \ ToSet(recent)
    BY <2>3
  <2>8. QED
    BY <2>3, <2>6, <2>7 DEF RecentIsNewest
<1>2. QED
  BY <1>1, MirrorInvariant, PTL

(* The Writer is sent no row twice: a row it has been sent is in no event,  *)
(* and the rows that are loaded are not sent.                               *)
THEOREM SentOnce == Spec => []NoRowSentTwice
<1>1. ASSUME MInv, hand # <<>>
      PROVE  Sink!New(Head(hand))
  <2>1. Hearing /\ Sunk
    BY <1>1 DEF MInv
  <2>2. 1 \in DOMAIN hand /\ Head(hand) = hand[1]
    BY <1>1, <2>1 DEF Hearing
  <2>3. Head(hand) \notin Heard
    BY <2>2 DEF Heard, Due, Held
  <2>4. QED
    BY <2>1, <2>3 DEF Sunk, Sink!New
<1>2. MInv => NoRowSentTwice
  BY <1>1 DEF NoRowSentTwice
<1>3. QED
  BY <1>2, MirrorInvariant, PTL

=============================================================================
