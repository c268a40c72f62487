------------------------------ MODULE SaleIngest ------------------------------
(***************************************************************************)
(* How sales get into sale_history.  Universalis reports the sales of an   *)
(* item on a world in messages of the socket and in sweeps; each report is *)
(* handled by a task of its own, in UltrosDb::update_sales:                *)
(*   - it reads as many of the newest recorded sales as it was given,      *)
(*   - drops the sales that are among them,                                *)
(*   - inserts the others with one statement, and                          *)
(*   - announces what it inserted on the history bus (SaleMirror).         *)
(* Nothing makes a sale unique in the table, and tasks do not wait for     *)
(* each other.                                                             *)
(*                                                                         *)
(* The sales of one item, of one quality, on one world are modelled.       *)
(* They are numbered as they happen, and rows as they are inserted: the    *)
(* n-th row stored has id n.                                               *)
(***************************************************************************)
EXTENDS Integers, Sequences, FiniteSets, FiniteSetsExt, SequencesExt

CONSTANTS
    Tasks,         (* reports that can be in flight at once                  *)
    MaxSales,      (* bound: sales that happen                               *)
    DateOf,        (* the second a sale happened in                          *)
    DetailOf,      (* its quantity and buyer                                 *)
    MaxRows        (* bound: rows that are stored                            *)

Sales == 1 .. MaxSales

ASSUME IngestAssumption ==
    /\ MaxSales \in Nat /\ MaxRows \in Nat
    /\ DateOf \in [Sales -> Nat]
    /\ \A m, n \in Sales : m < n => DateOf[m] <= DateOf[n]
    /\ DOMAIN DetailOf = Sales

VARIABLES
    happened,      (* sales that have happened                               *)
    stored,        (* sale_history: the sale of each row                     *)
    pc,            (* per task: idle, read, write or tell                    *)
    report,        (* per task: the sales it was given                       *)
    fresh,         (* per task: those it has not found recorded              *)
    inserted,      (* per task: the rows it has inserted, in order           *)
    (* History, read by properties only.                                     *)
    newest,        (* the newest sale reported so far                        *)
    disordered     (* a report came late, or while another was in flight     *)

taskVars   == <<pc, report, fresh, inserted>>
ingestVars == <<happened, stored, taskVars, newest, disordered>>

RowIds == DOMAIN stored

(* What update_sales compares of a sale and a recorded one.                 *)
View(n) == <<DateOf[n], DetailOf[n]>>

IngestInit ==
    /\ happened = 0 /\ stored = <<>>
    /\ pc = [t \in Tasks |-> "idle"]
    /\ report = [t \in Tasks |-> {}]
    /\ fresh = [t \in Tasks |-> {}]
    /\ inserted = [t \in Tasks |-> <<>>]
    /\ newest = 0 /\ disordered = FALSE

-----------------------------------------------------------------------------

SaleHappens ==
    /\ happened < MaxSales
    /\ happened' = happened + 1
    /\ UNCHANGED <<stored, taskVars, newest, disordered>>

(* Bound of the model: a report is taken while there is room for its rows.  *)
RoomFor(sales) ==
    Len(stored) + Cardinality(sales)
        + MapThenSumSet(LAMBDA t : Cardinality(report[t]),
                        {t \in Tasks : pc[t] \in {"read", "write"}}) <= MaxRows

(* Runs of consecutive sales; the empty one is a sweep without any.         *)
Reports == {first .. last : first \in Sales, last \in 0 .. MaxSales}

Late(sales) == sales # {} /\ Max(sales) < newest

PartsSecond(sales) ==
    \E n \in sales, m \in Sales \ sales : m < n /\ DateOf[m] = DateOf[n]

Report(t, sales) ==
    /\ pc[t] = "idle"
    /\ sales \subseteq 1 .. happened /\ RoomFor(sales)
    /\ pc' = [pc EXCEPT ![t] = "read"]
    /\ report' = [report EXCEPT ![t] = sales]
    /\ newest' = Max(sales \cup {newest})
    /\ disordered' = (\/ disordered
                      \/ Late(sales) \/ PartsSecond(sales)
                      \/ \E u \in Tasks \ {t} : pc[u] # "idle")
    /\ UNCHANGED <<happened, stored, fresh, inserted>>

(* ORDER BY sold_date DESC LIMIT n: of rows of one second any may come.     *)
NewestRows(n) ==
    LET size == IF n < Len(stored) THEN n ELSE Len(stored)
    IN  {S \in kSubset(size, RowIds) :
            \A a \in S, b \in RowIds \ S : DateOf[stored[a]] >= DateOf[stored[b]]}

(* A slip: the dates are left out of the comparison.                        *)
RecordedAnyDate(n, rows) == \E r \in rows : DetailOf[stored[r]] = DetailOf[n]

Recorded(n, rows) == \E r \in rows : View(stored[r]) = View(n)

(* A slip: one row too few is read.                                         *)
ReadOneLess(t) ==
    /\ pc[t] = "read" /\ report[t] # {}
    /\ \E rows \in NewestRows(Cardinality(report[t]) - 1) :
          LET left == {n \in report[t] : ~Recorded(n, rows)}
          IN  /\ fresh' = [fresh EXCEPT ![t] = left]
              /\ pc' = [pc EXCEPT ![t] = IF left = {} THEN "tell" ELSE "write"]
    /\ UNCHANGED <<happened, stored, report, inserted, newest, disordered>>

(* With nothing left to insert update_sales returns an empty list.          *)
ReadRecorded(t) ==
    /\ pc[t] = "read"
    /\ \E rows \in NewestRows(Cardinality(report[t])) :
          LET left == {n \in report[t] : ~Recorded(n, rows)}
          IN  /\ fresh' = [fresh EXCEPT ![t] = left]
              /\ pc' = [pc EXCEPT ![t] = IF left = {} THEN "tell" ELSE "write"]
    /\ UNCHANGED <<happened, stored, report, inserted, newest, disordered>>

(* insert_many: all of them or none, in the order of the report, which may  *)
(* be any.                                                                  *)
Insert(t) ==
    /\ pc[t] = "write"
    /\ \E rows \in SetToSeqs(fresh[t]) : stored' = stored \o rows
    /\ inserted' = [inserted EXCEPT ![t] =
                       [n \in 1 .. Cardinality(fresh[t]) |-> Len(stored) + n]]
    /\ pc' = [pc EXCEPT ![t] = "tell"]
    /\ UNCHANGED <<happened, report, fresh, newest, disordered>>

End(t) ==
    /\ pc' = [pc EXCEPT ![t] = "idle"]
    /\ report' = [report EXCEPT ![t] = {}]
    /\ fresh' = [fresh EXCEPT ![t] = {}]
    /\ inserted' = [inserted EXCEPT ![t] = <<>>]
    /\ UNCHANGED <<happened, stored, newest, disordered>>

(* A statement before the insert, or the insert, fails: nothing is stored,  *)
(* nothing is announced, and the report is forgotten.                       *)
IngestFails(t) == pc[t] \in {"read", "write"} /\ End(t)

IngestEnds ==
    /\ pc' = [t \in Tasks |-> "idle"]
    /\ report' = [t \in Tasks |-> {}]
    /\ fresh' = [t \in Tasks |-> {}]
    /\ inserted' = [t \in Tasks |-> <<>>]
    /\ UNCHANGED <<happened, stored, newest, disordered>>

(* What the tasks do by themselves.                                         *)
IngestStep ==
    \/ SaleHappens
    \/ \E t \in Tasks, sales \in Reports : Report(t, sales)
    \/ \E t \in Tasks : ReadRecorded(t) \/ Insert(t) \/ IngestFails(t)

-----------------------------------------------------------------------------

(* Types: a task drops sales of its report and adds none.                   *)
IngestTypeOK ==
    /\ happened \in 0 .. MaxSales
    /\ stored \in Seq(Sales)
    /\ pc \in [Tasks -> {"idle", "read", "write", "tell"}]
    /\ report \in [Tasks -> SUBSET Sales]
    /\ \A t \in Tasks : fresh[t] \subseteq report[t] /\ inserted[t] \in Seq(RowIds)
    /\ newest \in 0 .. happened /\ disordered \in BOOLEAN

(* "check for any sales that have already been posted": it does, although   *)
(* it looks at no more recorded sales than it was given, as long as reports *)
(* are handled one at a time, none is older than an earlier one, and none   *)
(* parts sales of the same second.                                          *)
OrderlyReportsStoreOnce ==
    ~disordered => \A a, b \in RowIds : stored[a] = stored[b] => a = b

(* The check drops no sale that is not recorded: when a task has its result *)
(* every sale of its report is in the table, whatever others have inserted. *)
ReportedIsStored ==
    \A t \in Tasks : pc[t] = "tell" =>
        \A n \in report[t] : \E a \in RowIds : View(stored[a]) = View(n)

=============================================================================
