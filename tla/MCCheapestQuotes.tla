--------------------------- MODULE MCCheapestQuotes ---------------------------
(* Small instances of CheapestQuotes.                                       *)
EXTENDS CheapestQuotes, TLC

CONSTANTS w1, w2, d1

OneDc    == w1 :> d1
SharedDc == w1 :> d1 @@ w2 :> d1

Offer(w, q, p) == [world |-> w, hq |-> q, price |-> p]

(* Two pairs of listings: a tie between two worlds, and a cheap and a dear  *)
(* one on one world.                                                        *)
Tie       == {Offer(w1, FALSE, 1), Offer(w2, FALSE, 1)}
TwoPrices == {Offer(w1, FALSE, 1), Offer(w1, FALSE, 2)}

Pairs       == {Tie, TwoPrices}
AllListings == UNION Pairs

(* With snapshots: one listing that comes and goes.                         *)
OneListing == {Offer(w1, FALSE, 1)}

(* Both qualities on one world, so that one Add event may bring both.       *)
BothQualities == {Offer(w1, FALSE, 1), Offer(w1, TRUE, 2)}

(* Bound of the runs: nothing is said about an analyzer for which the bus   *)
(* dropped an event, so nothing is explored beyond that.                    *)
KeepsUp == ~lost

(* What is being written, told and handled.                                 *)
Handled(t) ==
    task[t].toInsert \cup task[t].toDelete \cup task[t].inserted \cup task[t].removed

Talked == live \cup UNION {Handled(t) : t \in Tasks}
               \cup UNION {queue[n].listings : n \in DOMAIN queue}
               \cup {work[n].listing : n \in DOMAIN work}

Busy == {t \in Tasks : task[t].pc # "idle"}

(* Bound of the run: tasks start once the analyzer has subscribed (rows are  *)
(* there when it loads after a restart) and events and tasks with nothing   *)
(* to tell are left aside.  A second task works beside the first when the   *)
(* analyzer is live and no snapshot is about: with one row each, on a cheap *)
(* and a dear one, on one row as long as the analyzer is handling an event. *)
Overlaps ==
    /\ phase = "off" => Busy = {}
    /\ \A t \in Busy : Handled(t) # {}
    /\ \A n \in DOMAIN queue : queue[n].listings # {}
    /\ Cardinality(Busy) > 1 =>
          /\ phase = "live" /\ snapshot = {} /\ copied = <<>>
          /\ \A t \in Busy : Cardinality(Handled(t)) = 1
          /\ Talked \subseteq IF work = <<>> THEN TwoPrices ELSE OneListing

(* Bound of the run: rows, tasks and events are about one of the pairs; one *)
(* listing and its world as long as there is a snapshot or a first copy is  *)
(* being made (the other world's quotes, which stay empty, are copied       *)
(* first), or as long as a change of it is unsaid, never both.              *)
OneSubject ==
    /\ KeepsUp
    /\ Overlaps
    /\ LET about == Talked \cup unsaid
       IN  /\ \E pair \in Pairs : about \subseteq pair
           /\ unsaid # {} \/ copied # <<>> \/ snapshot # {} => about \subseteq OneListing
    /\ unsaid # {} => copied = <<>> /\ snapshot = {}
    /\ copied # <<>> => w2 \in DOMAIN copied /\ snapshot = {}

TaskSymmetry == Permutations(Tasks)

=============================================================================
