----------------------------- MODULE MCSaleMirror -----------------------------
(* The last two sales happen in one second; the first is a month earlier.     *)
EXTENDS SaleMirror

MCDateOf   == <<1, 2, 2>>
MCDetailOf == <<"two to Ann", "one to Bob", "two to Ann">>
MCMonthOf  == <<1, 2>>

(* The analyzer, the Writer and the backfill write what none of the others    *)
(* and nothing in SaleIngest reads, and the properties of sales are of one of *)
(* them: explored are behaviours with the analyzer, until the Writer decides  *)
(* on a row or RecentIsNewest has nothing left to say before the process      *)
(* ends, with one report at a time while there is a snapshot, of which there  *)
(* is one at a time, and behaviours with the backfill, with one report at a   *)
(* time.                                                                      *)
NoBackfill == job = "idle" /\ done = {} /\ copied = {}

Busy == {t \in Tasks : pc[t] # "idle"}

Separately ==
    /\ written = {} /\ lost = {}
    /\ phase \in {"load", "live"} => ~replayed
    /\ Cardinality(saved) <= 1
    /\ saved # {} => NoBackfill /\ Cardinality(Busy) < 2
    /\ NoBackfill \/ (phase = "off" /\ Cardinality(Busy) < 2)

TaskSymmetry == Permutations(Tasks)

=============================================================================
