------------------------- MODULE CheapestQuotesProof -------------------------
(* Proofs about CheapestQuotes for any worlds and datacenters, any finite   *)
(* set of listings and any size of the bus, with and without snapshots.     *)
EXTENDS CheapestQuotes, FiniteSetTheorems, WellFoundedInduction, TLAPS

Quotations == {Quote(l) : l \in Listings}
OrdersLeft == Orders \cup {<<"Add">>, <<>>}

Task == [pc : {"idle", "write", "tell"}, order : OrdersLeft,
         toInsert : SUBSET Listings, toDelete : SUBSET Listings,
         inserted : SUBSET Listings, removed : SUBSET Listings]

Call  == [op : {"add", "remove"}, sel : Selectors, listing : Listings]
Query == [left : SUBSET Worlds, found : SUBSET Listings]

Quoted == [Qualities -> SUBSET Quotations]
Board  == [Selectors -> Quoted]

(* TypeOK in the form the provers need, with the types it leaves open.      *)
Typed ==
    /\ live \in SUBSET Listings /\ unsaid \in SUBSET Listings
    /\ task \in [Tasks -> Task]
    /\ queue \in Seq(Events) /\ Len(queue) <= Capacity
    /\ phase \in {"off", "boot", "load", "live"}
    /\ quotes \in Board
    /\ work \in Seq(Call)
    /\ asking \in SUBSET Query
    /\ \E S \in SUBSET Selectors : copied \in [S -> Quoted]
    /\ snapshot \in SUBSET Board
    /\ untouched \in [Selectors -> SUBSET Qualities]
    /\ unasked \in [Selectors -> SUBSET Qualities]
    /\ lost \in BOOLEAN /\ failed \in BOOLEAN

(* What there is one of at most.                                            *)
Single(S) == \A x, y \in S : x = y

Singles ==
    /\ \A s \in Selectors, q \in Qualities : Single(quotes[s][q])
    /\ \A s \in DOMAIN copied, q \in Qualities : Single(copied[s][q])
    /\ \A saved \in snapshot, s \in Selectors, q \in Qualities : Single(saved[s][q])
    /\ Single(asking) /\ Single(snapshot)

(* What a task has yet to send, and a listing it will tell to be gone, or   *)
(* to be there.                                                             *)
Sends(k, type) == \E n \in DOMAIN k.order : k.order[n] = type
Takes(k, l)    == Sends(k, "Remove") /\ l \in k.removed
Brings(k, l)   == Sends(k, "Add") /\ l \in k.inserted

(* A task has written what it tells, an update tells the rows it deletes to *)
(* be gone, and all its rows are of one world.                              *)
Right(k) ==
    /\ k.pc = "idle" => k = Idle
    /\ k.pc = "write" => k.order \in Orders
    /\ k.pc = "tell" =>
          /\ k.order \in {<<"Add">>, <<"Remove">>}
          /\ k.toInsert = {} /\ k.toDelete = {}
    /\ k.order # <<"Remove">> => k.toDelete \subseteq k.removed
    /\ k.order = <<"Remove">> => k.toInsert = {} /\ k.inserted = {}
    /\ \A l, m \in k.toInsert \cup k.toDelete \cup k.inserted \cup k.removed : l.world = m.world

(* What the worker does in which phase.                                     *)
Phases ==
    /\ phase = "off" => queue = <<>>
    /\ phase \in {"off", "boot"} => work = <<>> /\ quotes = NoQuotes
    /\ phase = "load" => \A n \in DOMAIN work : work[n].op = "add"
    /\ asking # {} => work # <<>> /\ Head(work).op = "remove"

(* Calls are made for selectors of the listing, and an event is about one   *)
(* world.  What waits for an answer has no quote.                           *)
Filed ==
    /\ \A n \in DOMAIN work : work[n].listing.world \in WorldsIn(work[n].sel)
    /\ \A n \in DOMAIN queue : \A l, m \in queue[n].listings : l.world = m.world
    /\ \A a \in asking :
          /\ quotes[Head(work).sel][Head(work).listing.hq] = {}
          /\ a.left \subseteq WorldsIn(Head(work).sel)
          /\ \A l \in a.found :
                l.world \in WorldsIn(Head(work).sel) /\ l.hq = Head(work).listing.hq

(* The event that says that the listing is no longer a row comes after the  *)
(* first k events of the bus.                                               *)
Gone(l, k) ==
    \/ \E m \in DOMAIN queue : m > k /\ queue[m].type = "Remove" /\ l \in queue[m].listings
    \/ \E t \in Tasks : Takes(task[t], l)

Stands(l, k) == l \in live \cup unsaid \/ Gone(l, k)

Standing ==
    ~lost =>
        /\ \A n \in DOMAIN queue : queue[n].type = "Add" =>
              \A l \in queue[n].listings : Stands(l, n)
        /\ \A n \in DOMAIN work : work[n].op = "add" => Stands(work[n].listing, 0)
        /\ \A a \in asking : \A l \in a.found : Stands(l, 0)

(* A quote is that of a listing that stands or is about to be taken away.   *)
Removing(l, s) ==
    \E n \in DOMAIN work : work[n].op = "remove" /\ work[n].sel = s /\ work[n].listing = l

Explains(l, s, q, c) ==
    /\ l.hq = q /\ l.world \in WorldsIn(s) /\ Quote(l) = c
    /\ Stands(l, 0) \/ Removing(l, s)

BackedOrDoomed ==
    ~lost => \A s \in Selectors, q \in Qualities : \A c \in quotes[s][q] :
                (\E l \in Listings : Explains(l, s, q, c)) \/ q \in untouched[s]

Sound == Typed /\ Singles /\ (\A t \in Tasks : Right(task[t])) /\ Phases /\ Filed

IInv == Sound /\ Standing /\ BackedOrDoomed

(* An Add event is on its way for the listing.                              *)
Coming(l) ==
    \/ \E n \in DOMAIN queue : queue[n].type = "Add" /\ l \in queue[n].listings
    \/ \E t \in Tasks : Brings(task[t], l)

(* A call that offers as low a price is still to be made.                   *)
Offered(l, s) ==
    \E n \in DOMAIN work : work[n].op = "add" /\ work[n].sel = s
                              /\ work[n].listing.hq = l.hq /\ work[n].listing.price <= l.price

(* The analyzer is asking for the quote.                                    *)
Waiting(l, s) == asking # {} /\ Head(work).sel = s /\ Head(work).listing.hq = l.hq

CoveredAt(l, s) ==
    \/ \E c \in quotes[s][l.hq] : c.price <= l.price
    \/ Offered(l, s) \/ Coming(l) \/ Waiting(l, s)
    \/ l.hq \in unasked[s]

(* The answers so far account for the rows of their worlds.                 *)
AnsweredAt(a, l) ==
    l.hq = Head(work).listing.hq /\ l.world \in WorldsIn(Head(work).sel) \ a.left =>
        (\E f \in a.found : f.price <= l.price) \/ Coming(l)

Covered ==
    phase \in {"load", "live"} /\ ~lost /\ ~failed =>
        /\ \A l \in live \ unsaid, s \in Selectors : l.world \in WorldsIn(s) => CoveredAt(l, s)
        /\ \A a \in asking, l \in live \ unsaid : AnsweredAt(a, l)

(* Listings of one world are of one quality.                                *)
OneQuality == \A l, m \in Listings : l.world = m.world => l.hq = m.hq

-----------------------------------------------------------------------------
(* Sequences, selectors and cheapest listings.                              *)

(* What is left of a sequence without its head.                             *)
LEMMA TailFact ==
    ASSUME NEW S, NEW s \in Seq(S), s # <<>>
    PROVE  /\ Tail(s) \in Seq(S) /\ Head(s) \in S
           /\ 1 \in DOMAIN s /\ Head(s) = s[1]
           /\ Len(Tail(s)) = Len(s) - 1 /\ Len(s) \in Nat \ {0}
           /\ \A n \in DOMAIN Tail(s) : n + 1 \in DOMAIN s /\ Tail(s)[n] = s[n + 1]
           /\ \A n \in DOMAIN s : n # 1 => n - 1 \in DOMAIN Tail(s) /\ Tail(s)[n - 1] = s[n]
OBVIOUS

(* A sequence with one more element.                                        *)
LEMMA AppendFact ==
    ASSUME NEW S, NEW s \in Seq(S), NEW e \in S
    PROVE  /\ Append(s, e) \in Seq(S)
           /\ Len(Append(s, e)) = Len(s) + 1 /\ Len(s) \in Nat
           /\ Len(s) + 1 \in DOMAIN Append(s, e) /\ Append(s, e)[Len(s) + 1] = e
           /\ \A n \in DOMAIN s : n \in DOMAIN Append(s, e) /\ Append(s, e)[n] = s[n]
           /\ \A n \in DOMAIN Append(s, e) : n \in DOMAIN s \/ n = Len(s) + 1
OBVIOUS

(* Two sequences in a row.                                                  *)
Joined(u, s, t) ==
    /\ \A n \in DOMAIN s : n \in DOMAIN u /\ u[n] = s[n]
    /\ \A n \in DOMAIN t : \E m \in DOMAIN u : u[m] = t[n]
    /\ \A n \in DOMAIN u : \/ n \in DOMAIN s /\ u[n] = s[n]
                           \/ \E m \in DOMAIN t : u[n] = t[m]

(* The elements of both, and no other.                                      *)
LEMMA ConcatFact ==
    ASSUME NEW S, NEW s \in Seq(S), NEW t \in Seq(S), NEW u, u = s \o t
    PROVE  u \in Seq(S) /\ Joined(u, s, t)
<1>1. /\ Len(s) \in Nat /\ Len(t) \in Nat /\ DOMAIN s = 1 .. Len(s) /\ DOMAIN t = 1 .. Len(t)
      /\ u \in Seq(S) /\ DOMAIN u = 1 .. Len(s) + Len(t)
  OBVIOUS
<1>2. \A n \in DOMAIN s : u[n] = s[n]
  OBVIOUS
<1>3. \A n \in DOMAIN t : u[Len(s) + n] = t[n]
  OBVIOUS
<1>4. ASSUME NEW n \in DOMAIN u, n \notin DOMAIN s
      PROVE  n - Len(s) \in DOMAIN t /\ u[n] = t[n - Len(s)]
  BY <1>1, <1>4
<1>5. \A n \in DOMAIN s : n \in DOMAIN u
  BY <1>1
<1>6. \A n \in DOMAIN t : Len(s) + n \in DOMAIN u
  BY <1>1
<1>7. \A n \in DOMAIN t : \E m \in DOMAIN u : u[m] = t[n]
  BY <1>3, <1>6
<1>8. \A n \in DOMAIN u : \/ n \in DOMAIN s /\ u[n] = s[n]
                          \/ \E m \in DOMAIN t : u[n] = t[m]
  BY <1>2, <1>4
<1>9. QED
  BY <1>1, <1>2, <1>5, <1>7, <1>8 DEF Joined

(* All members of a finite set, one after the other.                        *)
LEMMA OrderedFact ==
    ASSUME NEW T, NEW S \in SUBSET T, IsFiniteSet(S), NEW s \in SetToSeqs(S)
    PROVE  /\ s \in Seq(T)
           /\ \A n \in DOMAIN s : s[n] \in S
           /\ \A x \in S : \E n \in DOMAIN s : s[n] = x
<1> DEFINE size == Cardinality(S)
<1>1. size \in Nat
  BY FS_CardinalityType
<1>2. s \in [1 .. size -> S] /\ \A i, j \in 1 .. size : i # j => s[i] # s[j]
  BY DEF SetToSeqs
<1>3. s \in Injection(1 .. size, S)
  BY <1>2 DEF Injection, IsInjective
<1>4. Cardinality(1 .. size) = size
  BY <1>1, FS_Interval
<1>5. s \in Surjection(1 .. size, S)
  BY <1>3, <1>4, FS_Injection
<1> HIDE DEF size
<1>6. QED
  BY <1>1, <1>2, <1>5 DEF Surjection

(* A listing is filed under its region, its datacenter and its world.       *)
LEMMA FiledFact ==
    ASSUME NEW l \in Listings
    PROVE  /\ Region \in Selectors /\ DcOf[l.world] \in Selectors /\ l.world \in Selectors
           /\ l.world \in WorldsIn(Region) /\ l.world \in WorldsIn(DcOf[l.world])
           /\ l.world \in WorldsIn(l.world)
           /\ \A s \in Selectors : l.world \in WorldsIn(s) =>
                 s \in {Region, DcOf[l.world], l.world}
BY QuotesAssumption DEF Selectors, WorldsIn, Dcs

(* Numbering the cells of a grid row by row.                                *)
Numbered(width, size) ==
    \A k \in 1 .. size, i \in 1 .. width :
       \E n \in 1 .. width * size :
          ((n - 1) \div width) + 1 = k /\ ((n - 1) % width) + 1 = i

(* A number stands for one cell, and every cell has its number.             *)
LEMMA GridFact ==
    ASSUME NEW width \in {1, 2, 3}, NEW size \in Nat
    PROVE  /\ \A n \in 1 .. width * size :
                 /\ ((n - 1) \div width) + 1 \in 1 .. size
                 /\ ((n - 1) % width) + 1 \in 1 .. width
           /\ Numbered(width, size)
<1>1. ASSUME NEW k \in 1 .. size, NEW i \in 1 .. width
      PROVE  \E n \in 1 .. width * size :
                ((n - 1) \div width) + 1 = k /\ ((n - 1) % width) + 1 = i
  <2>1. CASE width = 1
    BY <2>1
  <2>2. CASE width = 2
    <3>1. CASE i = 1
      <4>1. 2 * (k - 1) + 1 \in 1 .. 2 * size
        OBVIOUS
      <4>2. (((2 * (k - 1) + 1) - 1) \div 2) + 1 = k
        OBVIOUS
      <4>3. (((2 * (k - 1) + 1) - 1) % 2) + 1 = 1
        OBVIOUS
      <4>4. QED
        BY <2>2, <3>1, <4>1, <4>2, <4>3
    <3>2. CASE i = 2
      <4>1. 2 * (k - 1) + 2 \in 1 .. 2 * size
        OBVIOUS
      <4>2. (((2 * (k - 1) + 2) - 1) \div 2) + 1 = k
        OBVIOUS
      <4>3. (((2 * (k - 1) + 2) - 1) % 2) + 1 = 2
        OBVIOUS
      <4>4. QED
        BY <2>2, <3>2, <4>1, <4>2, <4>3
    <3>3. QED
      BY <2>2, <3>1, <3>2
  <2>3. CASE width = 3
    <3>1. CASE i = 1
      <4>1. 3 * (k - 1) + 1 \in 1 .. 3 * size
        OBVIOUS
      <4>2. (((3 * (k - 1) + 1) - 1) \div 3) + 1 = k
        OBVIOUS
      <4>3. (((3 * (k - 1) + 1) - 1) % 3) + 1 = 1
        OBVIOUS
      <4>4. QED
        BY <2>3, <3>1, <4>1, <4>2, <4>3
    <3>2. CASE i = 2
      <4>1. 3 * (k - 1) + 2 \in 1 .. 3 * size
        OBVIOUS
      <4>2. (((3 * (k - 1) + 2) - 1) \div 3) + 1 = k
        OBVIOUS
      <4>3. (((3 * (k - 1) + 2) - 1) % 3) + 1 = 2
        OBVIOUS
      <4>4. QED
        BY <2>3, <3>2, <4>1, <4>2, <4>3
    <3>3. CASE i = 3
      <4>1. 3 * (k - 1) + 3 \in 1 .. 3 * size
        OBVIOUS
      <4>2. (((3 * (k - 1) + 3) - 1) \div 3) + 1 = k
        OBVIOUS
      <4>3. (((3 * (k - 1) + 3) - 1) % 3) + 1 = 3
        OBVIOUS
      <4>4. QED
        BY <2>3, <3>3, <4>1, <4>2, <4>3
    <3>4. QED
      BY <2>3, <3>1, <3>2, <3>3
  <2>4. QED
    BY <2>1, <2>2, <2>3
<1>2. ASSUME NEW n \in 1 .. width * size
      PROVE  /\ ((n - 1) \div width) + 1 \in 1 .. size
             /\ ((n - 1) % width) + 1 \in 1 .. width
  <2>1. CASE width = 1
    BY <2>1
  <2>2. CASE width = 2
    BY <2>2
  <2>3. CASE width = 3
    BY <2>3
  <2>4. QED
    BY <2>1, <2>2, <2>3
<1>3. Numbered(width, size)
  BY <1>1 DEF Numbered
<1>4. QED
  BY <1>2, <1>3

(* The calls made for listings at some levels.                              *)
CallsFor(calls, op, ls) ==
    \A n \in DOMAIN calls :
       /\ calls[n].op = op /\ \E k \in DOMAIN ls : calls[n].listing = ls[k]
       /\ calls[n].listing.world \in WorldsIn(calls[n].sel)

AllCalled(calls, op, ls, levels) ==
    \A k \in DOMAIN ls, i \in DOMAIN levels : \E n \in DOMAIN calls :
       /\ calls[n].op = op /\ calls[n].listing = ls[k]
       /\ calls[n].sel = Narrowing(ls[k])[levels[i]]

(* A call is made for every listing at every level, and no other.           *)
LEMMA CallsFact ==
    ASSUME NEW op \in {"add", "remove"}, NEW ls \in Seq(Listings),
           NEW levels \in Seq({1, 2, 3}), Len(levels) \in {1, 2, 3},
           NEW calls, calls = Calls(op, ls, levels)
    PROVE  calls \in Seq(Call) /\ CallsFor(calls, op, ls) /\ AllCalled(calls, op, ls, levels)
<1> DEFINE width == Len(levels)
           at(n) == ((n - 1) \div width) + 1
           level(n) == ((n - 1) % width) + 1
           size == Len(ls)
           The(k, i) == [op |-> op, sel |-> Narrowing(ls[k])[levels[i]], listing |-> ls[k]]
<1>1. /\ size \in Nat /\ DOMAIN ls = 1 .. size
      /\ width \in {1, 2, 3} /\ DOMAIN levels = 1 .. width
  OBVIOUS
<1>2. calls = [n \in 1 .. width * size |-> The(at(n), level(n))]
  BY DEF Calls
<1>3. \A n \in 1 .. width * size : at(n) \in DOMAIN ls /\ level(n) \in DOMAIN levels
  BY <1>1, GridFact
<1>4. \A k \in DOMAIN ls, i \in DOMAIN levels :
         \E n \in 1 .. width * size : at(n) = k /\ level(n) = i
  <2>1. Numbered(width, size)
    <3> HIDE DEF size, width
    <3>1. QED
      BY <1>1, GridFact
  <2>2. QED
    BY <1>1, <2>1 DEF Numbered
<1>5. width * size \in Nat
  BY <1>1
<1>6. ASSUME NEW k \in DOMAIN ls, NEW i \in DOMAIN levels
      PROVE  The(k, i) \in Call /\ ls[k].world \in WorldsIn(The(k, i).sel)
  <2>1. ls[k] \in Listings /\ levels[i] \in {1, 2, 3}
    OBVIOUS
  <2>2. Narrowing(ls[k])[levels[i]] \in {Region, DcOf[ls[k].world], ls[k].world}
    <3>1. /\ Narrowing(ls[k])[1] = Region /\ Narrowing(ls[k])[2] = DcOf[ls[k].world]
          /\ Narrowing(ls[k])[3] = ls[k].world
      BY DEF Narrowing
    <3>2. QED
      BY <2>1, <3>1
  <2>3. /\ Narrowing(ls[k])[levels[i]] \in Selectors
        /\ ls[k].world \in WorldsIn(Narrowing(ls[k])[levels[i]])
    BY <2>1, <2>2, FiledFact
  <2>4. QED
    BY <2>1, <2>3 DEF Call
<1> HIDE DEF at, level, width, size
<1>7. \A n \in 1 .. width * size : calls[n] = The(at(n), level(n))
  BY <1>2
<1>8. DOMAIN calls = 1 .. width * size
  BY <1>2
<1>9. ASSUME NEW n \in 1 .. width * size
      PROVE  /\ calls[n] \in Call /\ calls[n].op = op /\ calls[n].listing = ls[at(n)]
             /\ calls[n].listing.world \in WorldsIn(calls[n].sel)
  <2>1. calls[n] = The(at(n), level(n)) /\ at(n) \in DOMAIN ls /\ level(n) \in DOMAIN levels
    BY <1>3, <1>7
  <2>2. The(at(n), level(n)) \in Call
        /\ ls[at(n)].world \in WorldsIn(The(at(n), level(n)).sel)
    BY <1>6, <2>1
  <2>3. QED
    BY <2>1, <2>2
<1>10. calls \in Seq(Call)
  <2>1. calls \in [1 .. width * size -> Call]
    BY <1>2, <1>8, <1>9
  <2>2. QED
    BY <1>5, <2>1
<1>11. ASSUME NEW k \in DOMAIN ls, NEW i \in DOMAIN levels
       PROVE  \E n \in DOMAIN calls :
                 /\ calls[n].op = op /\ calls[n].listing = ls[k]
                 /\ calls[n].sel = Narrowing(ls[k])[levels[i]]
  <2>1. PICK n \in 1 .. width * size : at(n) = k /\ level(n) = i
    BY <1>4
  <2>2. calls[n] = The(k, i) /\ n \in DOMAIN calls
    BY <1>7, <1>8, <2>1
  <2>3. QED
    BY <2>2
<1>12. ASSUME NEW n \in DOMAIN calls
       PROVE  /\ calls[n].op = op /\ \E k \in DOMAIN ls : calls[n].listing = ls[k]
              /\ calls[n].listing.world \in WorldsIn(calls[n].sel)
  BY <1>3, <1>8, <1>9
<1>13. QED
  BY <1>10, <1>11, <1>12 DEF CallsFor, AllCalled

(* Every listing is offered to every selector it is filed under.            *)
LEMMA AddCallsFact ==
    ASSUME NEW ls \in Seq(Listings), NEW calls, calls = AddCalls(ls)
    PROVE  /\ calls \in Seq(Call)
           /\ \A n \in DOMAIN calls :
                 /\ calls[n].op = "add" /\ \E k \in DOMAIN ls : calls[n].listing = ls[k]
                 /\ calls[n].listing.world \in WorldsIn(calls[n].sel)
           /\ \A k \in DOMAIN ls, s \in Selectors : ls[k].world \in WorldsIn(s) =>
                 \E n \in DOMAIN calls :
                    /\ calls[n].op = "add" /\ calls[n].sel = s /\ calls[n].listing = ls[k]
<1>1. PICK levels : levels = <<1, 2, 3>>
  OBVIOUS
<1>2. /\ levels \in Seq({1, 2, 3}) /\ Len(levels) \in {1, 2, 3}
      /\ DOMAIN levels = {1, 2, 3} /\ \A i \in {1, 2, 3} : levels[i] = i
  BY <1>1
<1>3. calls = Calls("add", ls, levels)
  BY <1>1 DEF AddCalls
<1>4. /\ calls \in Seq(Call)
      /\ \A n \in DOMAIN calls :
            /\ calls[n].op = "add" /\ \E k \in DOMAIN ls : calls[n].listing = ls[k]
            /\ calls[n].listing.world \in WorldsIn(calls[n].sel)
      /\ \A k \in DOMAIN ls, i \in DOMAIN levels : \E n \in DOMAIN calls :
            /\ calls[n].op = "add" /\ calls[n].listing = ls[k]
            /\ calls[n].sel = Narrowing(ls[k])[levels[i]]
  <2>1. calls \in Seq(Call) /\ CallsFor(calls, "add", ls) /\ AllCalled(calls, "add", ls, levels)
    BY <1>2, <1>3, CallsFact
  <2>2. QED
    BY <2>1 DEF CallsFor, AllCalled
<1>5. ASSUME NEW k \in DOMAIN ls, NEW s \in Selectors, ls[k].world \in WorldsIn(s)
      PROVE  \E n \in DOMAIN calls :
                calls[n].op = "add" /\ calls[n].sel = s /\ calls[n].listing = ls[k]
  <2>1. s \in {Region, DcOf[ls[k].world], ls[k].world}
    BY <1>5, FiledFact
  <2>2. /\ Narrowing(ls[k])[1] = Region /\ Narrowing(ls[k])[2] = DcOf[ls[k].world]
        /\ Narrowing(ls[k])[3] = ls[k].world
    BY DEF Narrowing
  <2>3. PICK i \in DOMAIN levels : Narrowing(ls[k])[levels[i]] = s
    BY <1>2, <2>1, <2>2
  <2>4. QED
    BY <1>4, <2>3
<1>6. QED
  BY <1>4, <1>5

(* Every listing is taken away from every selector it is filed under.       *)
LEMMA RemoveCallsFact ==
    ASSUME NEW ls \in Seq(Listings), NEW calls, calls = RemoveCalls(ls)
    PROVE  /\ calls \in Seq(Call)
           /\ \A n \in DOMAIN calls :
                 /\ calls[n].op = "remove"
                 /\ calls[n].listing.world \in WorldsIn(calls[n].sel)
           /\ \A k \in DOMAIN ls, s \in Selectors : ls[k].world \in WorldsIn(s) =>
                 \E n \in DOMAIN calls :
                    /\ calls[n].op = "remove" /\ calls[n].sel = s /\ calls[n].listing = ls[k]
<1>1. PICK one, two : one = <<1>> /\ two = <<2, 3>>
  OBVIOUS
<1>2. /\ one \in Seq({1, 2, 3}) /\ Len(one) \in {1, 2, 3}
      /\ DOMAIN one = {1} /\ one[1] = 1
  BY <1>1
<1>3. /\ two \in Seq({1, 2, 3}) /\ Len(two) \in {1, 2, 3}
      /\ DOMAIN two = {1, 2} /\ two[1] = 2 /\ two[2] = 3
  BY <1>1
<1>4. PICK first, second :
         first = Calls("remove", ls, one) /\ second = Calls("remove", ls, two)
  OBVIOUS
<1>5. calls = first \o second
  BY <1>1, <1>4 DEF RemoveCalls
<1>6. /\ first \in Seq(Call)
      /\ \A n \in DOMAIN first :
            first[n].op = "remove" /\ first[n].listing.world \in WorldsIn(first[n].sel)
      /\ \A k \in DOMAIN ls, i \in DOMAIN one : \E n \in DOMAIN first :
            /\ first[n].op = "remove" /\ first[n].listing = ls[k]
            /\ first[n].sel = Narrowing(ls[k])[one[i]]
  <2>1. first \in Seq(Call) /\ CallsFor(first, "remove", ls) /\ AllCalled(first, "remove", ls, one)
    BY <1>2, <1>4, CallsFact
  <2>2. QED
    BY <2>1 DEF CallsFor, AllCalled
<1>7. /\ second \in Seq(Call)
      /\ \A n \in DOMAIN second :
            second[n].op = "remove" /\ second[n].listing.world \in WorldsIn(second[n].sel)
      /\ \A k \in DOMAIN ls, i \in DOMAIN two : \E n \in DOMAIN second :
            /\ second[n].op = "remove" /\ second[n].listing = ls[k]
            /\ second[n].sel = Narrowing(ls[k])[two[i]]
  <2>1. second \in Seq(Call) /\ CallsFor(second, "remove", ls) /\ AllCalled(second, "remove", ls, two)
    BY <1>3, <1>4, CallsFact
  <2>2. QED
    BY <2>1 DEF CallsFor, AllCalled
<1>8. first \in Seq(Call) /\ second \in Seq(Call)
  BY <1>6, <1>7
<1>9. /\ calls \in Seq(Call)
      /\ \A n \in DOMAIN first : n \in DOMAIN calls /\ calls[n] = first[n]
      /\ \A n \in DOMAIN second : \E m \in DOMAIN calls : calls[m] = second[n]
      /\ \A n \in DOMAIN calls : \/ n \in DOMAIN first /\ calls[n] = first[n]
                                 \/ \E m \in DOMAIN second : calls[n] = second[m]
  <2>1. calls \in Seq(Call) /\ Joined(calls, first, second)
    BY <1>5, <1>8, ConcatFact
  <2>2. QED
    BY <2>1 DEF Joined
<1>10. ASSUME NEW n \in DOMAIN calls
       PROVE  calls[n].op = "remove" /\ calls[n].listing.world \in WorldsIn(calls[n].sel)
  <2>1. CASE n \in DOMAIN first /\ calls[n] = first[n]
    BY <1>6, <2>1
  <2>2. ASSUME NEW m \in DOMAIN second, calls[n] = second[m]
        PROVE  calls[n].op = "remove" /\ calls[n].listing.world \in WorldsIn(calls[n].sel)
    BY <1>7, <2>2
  <2>3. QED
    BY <1>9, <2>1, <2>2
<1>11. ASSUME NEW k \in DOMAIN ls, NEW s \in Selectors, ls[k].world \in WorldsIn(s)
       PROVE  \E n \in DOMAIN calls :
                 calls[n].op = "remove" /\ calls[n].sel = s /\ calls[n].listing = ls[k]
  <2>1. s \in {Region, DcOf[ls[k].world], ls[k].world}
    BY <1>11, FiledFact
  <2>2. /\ Narrowing(ls[k])[1] = Region /\ Narrowing(ls[k])[2] = DcOf[ls[k].world]
        /\ Narrowing(ls[k])[3] = ls[k].world
    BY DEF Narrowing
  <2>3. CASE s = Region
    BY <1>2, <1>6, <1>9, <2>2, <2>3
  <2>4. ASSUME NEW i \in DOMAIN two, Narrowing(ls[k])[two[i]] = s
        PROVE  \E n \in DOMAIN calls :
                  calls[n].op = "remove" /\ calls[n].sel = s /\ calls[n].listing = ls[k]
    <3>1. PICK m \in DOMAIN second : second[m].op = "remove" /\ second[m].sel = s
                                       /\ second[m].listing = ls[k]
      BY <1>7, <2>4
    <3>2. PICK n \in DOMAIN calls : calls[n] = second[m]
      BY <1>9
    <3>3. QED
      BY <3>1, <3>2
  <2>5. CASE s = DcOf[ls[k].world]
    BY <1>3, <2>2, <2>4, <2>5
  <2>6. CASE s = ls[k].world
    BY <1>3, <2>2, <2>4, <2>6
  <2>7. QED
    BY <2>1, <2>3, <2>5, <2>6
<1>12. QED
  BY <1>9, <1>10, <1>11

(* A finite set of listings has a cheapest below each of its members.       *)
LEMMA CheapestFact ==
    ASSUME NEW S \in SUBSET Listings
    PROVE  /\ Cheapest(S) \subseteq S
           /\ \A c \in Cheapest(S), l \in S : c.price <= l.price
           /\ \A l \in S : \E c \in Cheapest(S) : c.price <= l.price
<1>1. Cheapest(S) \subseteq S /\ \A c \in Cheapest(S), l \in S : c.price <= l.price
  BY DEF Cheapest
<1>2. ASSUME NEW l \in S
      PROVE  Cheapest(S) # {}
  <2> DEFINE Below(x) == {y \in S : y.price < x.price}
             T == {Below(x) : x \in S}
             R == StrictSubsetOrdering(S)
             F == FiniteSubsetsOf(S)
  <2>1. IsFiniteSet(S) /\ \A x \in S : x.price \in Int
    BY FS_Subset, QuotesAssumption
  <2>2. \A x \in S : Below(x) \in SUBSET S
    OBVIOUS
  <2>3. \A x \in S : Below(x) \in FiniteSubsetsOf(S)
    BY <2>1, <2>2, FS_Subset, Zenon DEF FiniteSubsetsOf
  <2>4. T \subseteq F /\ T # {}
    BY <2>3, Zenon
  <2>5. IsWellFoundedOn(R, F)
    BY FS_StrictSubsetOrderingWellFounded
  <2>6. PICK U \in T : \A V \in T : ~ (<<V, U>> \in R)
    <3> HIDE DEF T, R, F
    <3>1. QED
      BY <2>4, <2>5, WFMin, Zenon
  <2>7. PICK x \in S : U = Below(x)
    BY <2>6
  <2>8. ASSUME NEW y \in S, ~ (x.price <= y.price)
        PROVE  FALSE
    <3>1. Below(y) \subseteq Below(x) /\ y \in Below(x) /\ y \notin Below(y)
      BY <2>1, <2>8
    <3>2. <<Below(y), Below(x)>> \in R
      BY <3>1 DEF StrictSubsetOrdering
    <3>3. QED
      BY <2>6, <2>7, <3>2
  <2>9. QED
    BY <2>8 DEF Cheapest
<1>3. QED
  BY <1>1, <1>2

-----------------------------------------------------------------------------
(* Facts about single steps.                                                *)

(* Replacing one task.                                                      *)
LEMMA TaskFact ==
    ASSUME NEW t \in Tasks, NEW k \in Task, task \in [Tasks -> Task],
           task' = [task EXCEPT ![t] = k]
    PROVE  /\ task' \in [Tasks -> Task] /\ task'[t] = k
           /\ \A v \in Tasks : v # t => task'[v] = task[v]
BY DEF Task

(* Idle is a task.                                                          *)
LEMMA IdleFact ==
    /\ Idle \in Task /\ Idle.pc = "idle" /\ Idle.order = <<>>
    /\ Idle.toInsert = {} /\ Idle.toDelete = {} /\ Idle.inserted = {} /\ Idle.removed = {}
BY DEF Idle, Task, OrdersLeft

(* Tell sends the first event of the task's order and leaves the other.     *)
Told(t, e, k) ==
    /\ e \in Events /\ k \in Task
    /\ e.type = "Add" => e.listings = task[t].inserted
    /\ e.type = "Remove" => e.listings = task[t].removed
    /\ k.pc = "idle" => k = Idle
    /\ k.pc = "tell" => k.order \in {<<"Add">>, <<"Remove">>}
    /\ k.pc # "write" /\ k.toInsert = {} /\ k.toDelete = {}
    /\ k.inserted \subseteq task[t].inserted /\ k.removed \subseteq task[t].removed
    /\ k.order = <<"Remove">> => k.inserted = {}
    /\ Sends(task[t], "Add") /\ e.type = "Remove" =>
          k.order = <<"Add">> /\ k.inserted = task[t].inserted
    /\ Sends(task[t], "Remove") /\ e.type = "Add" =>
          k.order = <<"Remove">> /\ k.removed = task[t].removed

(* The event and the task that Tell leaves behind, order by order.          *)
LEMMA TellFact ==
    ASSUME NEW t \in Tasks, task \in [Tasks -> Task], Right(task[t]), Tell(t)
    PROVE  \E e \in Events, k \in Task :
              Told(t, e, k) /\ Event(t) = e /\ task' = [task EXCEPT ![t] = k]
<1>a. PICK e : e = Event(t)
  OBVIOUS
<1>b. PICK i, r : /\ i = IF e.type = "Add" THEN {} ELSE task[t].inserted
                  /\ r = IF e.type = "Remove" THEN {} ELSE task[t].removed
  OBVIOUS
<1>c. PICK k : k = IF Len(task[t].order) = 1 THEN Idle
                   ELSE [pc |-> "tell", order |-> Tail(task[t].order), toInsert |-> {}, toDelete |-> {},
                         inserted |-> i, removed |-> r]
  OBVIOUS
<1>1. task' = [task EXCEPT ![t] = k]
  BY <1>a, <1>b, <1>c DEF Tell, Left, Event
<1>2. task[t] \in Task /\ task[t].pc \in {"write", "tell"}
      /\ task[t].toInsert = {} /\ task[t].toDelete = {}
  BY DEF Tell
<1>3. task[t].order \in Orders \cup {<<"Add">>}
  BY <1>2 DEF Right, Orders
<1>4. e = [type |-> Head(task[t].order),
           listings |-> IF Head(task[t].order) = "Add" THEN task[t].inserted ELSE task[t].removed]
  BY <1>a DEF Event
<1>5. CASE task[t].order = <<"Remove", "Add">>
  <2>1. Head(task[t].order) = "Remove" /\ Len(task[t].order) = 2 /\ Tail(task[t].order) = <<"Add">>
    BY <1>5
  <2>2. e = [type |-> "Remove", listings |-> task[t].removed]
    BY <1>4, <2>1
  <2>3. k = [pc |-> "tell", order |-> <<"Add">>, toInsert |-> {}, toDelete |-> {},
            inserted |-> i, removed |-> r]
    <3>1. Len(task[t].order) # 1
      BY <2>1
    <3>2. QED
      BY <1>c, <2>1, <3>1, Zenon
  <2>0. i = task[t].inserted /\ r = {}
    BY <1>b, <2>2
  <2>4. k \in Task /\ k.pc = "tell" /\ k.order = <<"Add">> /\ k.toInsert = {} /\ k.toDelete = {}
        /\ k.inserted = task[t].inserted /\ k.removed = {}
    BY <1>2, <2>0, <2>3 DEF Task, OrdersLeft
  <2>5. e \in Events
    BY <1>2, <2>2 DEF Events, Task
  <2>6. Told(t, e, k)
    <3>1. k.inserted = task[t].inserted /\ k.removed \subseteq task[t].removed
          /\ k.inserted \subseteq task[t].inserted /\ k.order # <<"Remove">>
      BY <2>4
    <3>2. QED
      BY <2>2, <2>4, <2>5, <3>1 DEF Told
  <2>7. QED
    BY <1>a, <1>1, <2>4, <2>5, <2>6
<1>6. CASE task[t].order = <<"Add", "Remove">>
  <2>1. Head(task[t].order) = "Add" /\ Len(task[t].order) = 2 /\ Tail(task[t].order) = <<"Remove">>
    BY <1>6
  <2>2. e = [type |-> "Add", listings |-> task[t].inserted]
    BY <1>4, <2>1
  <2>3. k = [pc |-> "tell", order |-> <<"Remove">>, toInsert |-> {}, toDelete |-> {},
            inserted |-> i, removed |-> r]
    <3>1. Len(task[t].order) # 1
      BY <2>1
    <3>2. QED
      BY <1>c, <2>1, <3>1, Zenon
  <2>0. i = {} /\ r = task[t].removed
    BY <1>b, <2>2
  <2>4. k \in Task /\ k.pc = "tell" /\ k.order = <<"Remove">> /\ k.toInsert = {} /\ k.toDelete = {}
        /\ k.inserted = {} /\ k.removed = task[t].removed
    BY <1>2, <2>0, <2>3 DEF Task, OrdersLeft, Orders
  <2>5. e \in Events
    BY <1>2, <2>2 DEF Events, Task
  <2>6. Told(t, e, k)
    <3>1. k.removed = task[t].removed /\ k.removed \subseteq task[t].removed
          /\ k.inserted \subseteq task[t].inserted
      BY <2>4
    <3>2. QED
      BY <2>2, <2>4, <2>5, <3>1 DEF Told
  <2>7. QED
    BY <1>a, <1>1, <2>4, <2>5, <2>6
<1>7. CASE task[t].order \in {<<"Add">>, <<"Remove">>}
  <2>1. /\ Head(task[t].order) \in {"Add", "Remove"} /\ Len(task[t].order) = 1
        /\ task[t].order = <<Head(task[t].order)>>
    BY <1>7
  <2>2. k = Idle
    BY <1>c, <2>1
  <2>3. e.type = Head(task[t].order) /\ e \in Events
        /\ (e.type = "Add" => e.listings = task[t].inserted)
        /\ (e.type = "Remove" => e.listings = task[t].removed)
    BY <1>2, <1>4, <2>1 DEF Events, Task
  <2>4. \A type : Sends(task[t], type) => type = e.type
    BY <1>2, <2>1, <2>3 DEF Sends
  <2>5. k \in Task /\ k.pc = "idle" /\ k.toInsert = {} /\ k.toDelete = {} /\ k.order = <<>>
        /\ k.inserted = {} /\ k.removed = {}
    BY <2>2, IdleFact
  <2>6. Told(t, e, k)
    BY <2>2, <2>3, <2>4, <2>5 DEF Told
  <2>7. QED
    BY <1>a, <1>1, <2>3, <2>5, <2>6
<1>8. QED
  BY <1>3, <1>5, <1>6, <1>7 DEF Orders

(* What becomes of the queue.                                               *)
LEMMA BroadcastFact ==
    ASSUME NEW e \in Events, queue \in Seq(Events), Len(queue) <= Capacity,
           lost \in BOOLEAN, Broadcast(e)
    PROVE  /\ queue' \in Seq(Events) /\ Len(queue') <= Capacity
           /\ lost' \in BOOLEAN
           /\ phase = "off" => queue' = queue /\ lost' = lost
           /\ phase # "off" /\ ~lost' => ~lost /\ queue' = Append(queue, e)
<1>1. Capacity \in Nat \ {0} /\ Len(queue) \in Nat
  BY QuotesAssumption
<1>2. CASE phase = "off"
  BY <1>2 DEF Broadcast
<1>3. CASE phase # "off" /\ Len(queue) = Capacity
  <2>1. queue' = Append(Tail(queue), e) /\ lost' = TRUE
    BY <1>3 DEF Broadcast
  <2>2. queue # <<>>
    BY <1>1, <1>3
  <2>3. Tail(queue) \in Seq(Events) /\ Len(Tail(queue)) = Len(queue) - 1
    BY <2>2, TailFact
  <2>4. queue' \in Seq(Events) /\ Len(queue') = Len(queue)
    BY <1>1, <2>1, <2>3
  <2>5. QED
    BY <1>3, <2>1, <2>4
<1>4. CASE phase # "off" /\ Len(queue) # Capacity
  <2>1. queue' = Append(queue, e)
    BY <1>4 DEF Broadcast
  <2>2. lost' = lost
    BY <1>4 DEF Broadcast
  <2>3. queue' \in Seq(Events) /\ Len(queue') = Len(queue) + 1
    BY <2>1
  <2>4. QED
    BY <1>1, <1>4, <2>1, <2>2, <2>3
<1>5. QED
  BY <1>2, <1>3, <1>4

(* One quote is set to r.                                                   *)
Sets(s, q, r) ==
    /\ quotes'[s][q] = r
    /\ \A t \in Selectors, p \in Qualities :
          <<t, p>> # <<s, q>> => quotes'[t][p] = quotes[t][p]

(* One mark changes.                                                        *)
Marks(marks, after, s, q) ==
    \A t \in Selectors, p \in Qualities :
       <<t, p>> # <<s, q>> => (p \in after[t] <=> p \in marks[t])

(* Replacing one quote.                                                     *)
LEMMA QuoteFact ==
    ASSUME NEW s \in Selectors, NEW q \in Qualities, NEW r \in SUBSET Quotations,
           quotes \in Board, quotes' = [quotes EXCEPT ![s][q] = r]
    PROVE  quotes' \in Board /\ Sets(s, q, r)
BY DEF Board, Quoted, Sets

(* Taking one quality away from a selector's set.                           *)
LEMMA MarkFact ==
    ASSUME NEW s \in Selectors, NEW q \in Qualities, NEW marks, NEW after,
           marks \in [Selectors -> SUBSET Qualities],
           after = [marks EXCEPT ![s] = marks[s] \ {q}]
    PROVE  /\ after \in [Selectors -> SUBSET Qualities]
           /\ Marks(marks, after, s, q) /\ q \notin after[s]
BY DEF Marks

(* The call the analyzer is working on.                                     *)
LEMMA WorkFact ==
    ASSUME work \in Seq(Call), work # <<>>
    PROVE  /\ Head(work) \in Call /\ Head(work).sel \in Selectors
           /\ Head(work).op \in {"add", "remove"}
           /\ Head(work).listing \in Listings /\ Head(work).listing.hq \in Qualities
           /\ Tail(work) \in Seq(Call) /\ 1 \in DOMAIN work /\ Head(work) = work[1]
<1>1. Head(work) \in Call /\ Tail(work) \in Seq(Call) /\ 1 \in DOMAIN work /\ Head(work) = work[1]
  BY TailFact
<1>2. QED
  BY <1>1 DEF Call, Qualities

(* A quote after an offer.                                                  *)
LEMMA LoweredFact ==
    ASSUME NEW quote \in SUBSET Quotations, NEW l \in Listings
    PROVE  /\ Lowered(quote, l) \in SUBSET Quotations
           /\ Single(quote) => Single(Lowered(quote, l))
           /\ \E c \in Lowered(quote, l) : c.price <= l.price
           /\ \A c \in quote : \E d \in Lowered(quote, l) : d.price <= c.price
           /\ Lowered(quote, l) = {Quote(l)} \/ Lowered(quote, l) = quote
<1>1. /\ Quote(l) \in Quotations /\ Quote(l).price = l.price
      /\ l.price \in Int /\ \A c \in Quotations : c.price \in Int
  BY QuotesAssumption DEF Quotations, Quote
<1>2. CASE \A c \in quote : l.price <= c.price
  <2>1. Lowered(quote, l) = {Quote(l)}
    BY <1>2 DEF Lowered
  <2>2. QED
    BY <1>1, <1>2, <2>1 DEF Single
<1>3. CASE ~ \A c \in quote : l.price <= c.price
  <2>1. Lowered(quote, l) = quote
    BY <1>3 DEF Lowered
  <2>2. \E c \in quote : c.price <= l.price
    BY <1>1, <1>3
  <2>3. \A c \in quote : c.price <= c.price
    BY <1>1
  <2>4. QED
    BY <2>1, <2>2, <2>3
<1>4. QED
  BY <1>2, <1>3

(* The rows of a load are rows of the database.                             *)
LEMMA SummariesFact == Summaries \subseteq live
BY DEF Summaries, Cheapest

(* The cheapest row of every world and quality is a row of the query.        *)
LEMMA SummaryOf ==
    ASSUME NEW w \in Worlds, NEW q \in Qualities,
           NEW c \in Cheapest({l \in live : l.world = w /\ l.hq = q})
    PROVE  c \in Summaries
BY DEF Summaries

(* Sets of listings are finite, and their orders are sequences.             *)
LEMMA RowsFact ==
    ASSUME NEW S \in SUBSET Listings, NEW ls \in SetToSeqs(S)
    PROVE  /\ ls \in Seq(Listings)
           /\ \A n \in DOMAIN ls : ls[n] \in S
           /\ \A l \in S : \E n \in DOMAIN ls : ls[n] = l
<1>1. IsFiniteSet(S)
  BY FS_Subset, QuotesAssumption
<1>2. QED
  BY <1>1, OrderedFact

-----------------------------------------------------------------------------
(* The steps of a task.                                                     *)

(* Steps that send nothing.                                                 *)
Writes(t) ==
    \/ \E w \in Worlds, order \in Orders :
          \E gone \in SUBSET (live \cap RowsOf(w)), new \in SUBSET (RowsOf(w) \ live) :
             Start(t, w, order, gone, new)
    \/ \E l \in task[t].toInsert : InsertRow(t, l) \/ InsertFails(t, l)
    \/ DeleteMany(t) \/ DeleteManyFails(t)
    \/ \E l \in task[t].toDelete : DeleteRow(t, l)
    \/ TaskFails(t)

(* What they leave alone.                                                   *)
Others == <<queue, phase, quotes, work, asking, copied, snapshot,
            lost, failed, untouched, unasked>>

(* Written by task t, which is k now: a listing that was a row, that was    *)
(* unsaid or that t will tell to be gone is one of these still; and a row   *)
(* that is not unsaid was one, or t will tell of it.                        *)
Written(t, k) ==
    /\ k \in Task /\ Right(k)
    /\ live' \in SUBSET Listings /\ unsaid' \in SUBSET Listings
    /\ UNCHANGED Others
    /\ \A l \in Listings : l \in live \cup unsaid \/ Takes(task[t], l) =>
                             l \in live' \cup unsaid' \/ Takes(k, l)
    /\ \A l \in live' \ unsaid' :
          /\ Brings(task[t], l) => Brings(k, l)
          /\ l \in live \ unsaid \/ Brings(k, l)

(* An update in progress tells of both its inserts and its deletes.         *)
LEMMA OrderFact ==
    ASSUME NEW k \in Task, Right(k), k.pc = "write"
    PROVE  /\ k.order # <<"Remove">> => Sends(k, "Add") /\ Sends(k, "Remove")
           /\ k.order = <<"Remove">> => Sends(k, "Remove") /\ ~Sends(k, "Add")
BY DEF Right, Orders, Sends

(* What a statement makes of its task, one field and then another.          *)
LEMMA DroppedFact ==
    ASSUME NEW j \in Task, NEW a
    PROVE  [j EXCEPT !.toInsert = a]
               = [pc |-> j.pc, order |-> j.order, toInsert |-> a, toDelete |-> j.toDelete,
                  inserted |-> j.inserted, removed |-> j.removed]
BY DEF Task

(* A row inserted.                                                          *)
LEMMA InsertedFact ==
    ASSUME NEW j \in Task, NEW a, NEW b
    PROVE  [j EXCEPT !.toInsert = a, !.inserted = b]
               = [pc |-> j.pc, order |-> j.order, toInsert |-> a, toDelete |-> j.toDelete,
                  inserted |-> b, removed |-> j.removed]
<1>1. PICK i : i = [j EXCEPT !.toInsert = a]
  OBVIOUS
<1>2. i = [pc |-> j.pc, order |-> j.order, toInsert |-> a, toDelete |-> j.toDelete,
           inserted |-> j.inserted, removed |-> j.removed]
  BY <1>1, DroppedFact
<1>3. [i EXCEPT !.inserted = b]
          = [pc |-> j.pc, order |-> j.order, toInsert |-> a, toDelete |-> j.toDelete,
             inserted |-> b, removed |-> j.removed]
  BY <1>2
<1>4. [j EXCEPT !.toInsert = a, !.inserted = b] = [i EXCEPT !.inserted = b]
  BY <1>1
<1>5. QED
  BY <1>3, <1>4

(* A row deleted.                                                           *)
LEMMA RemovedFact ==
    ASSUME NEW j \in Task, NEW a, NEW b
    PROVE  [j EXCEPT !.toDelete = a, !.removed = b]
               = [pc |-> j.pc, order |-> j.order, toInsert |-> j.toInsert, toDelete |-> a,
                  inserted |-> j.inserted, removed |-> b]
<1>1. PICK i : i = [j EXCEPT !.toDelete = a]
  OBVIOUS
<1>2. i = [pc |-> j.pc, order |-> j.order, toInsert |-> j.toInsert, toDelete |-> a,
           inserted |-> j.inserted, removed |-> j.removed]
  BY <1>1 DEF Task
<1>3. [i EXCEPT !.removed = b]
          = [pc |-> j.pc, order |-> j.order, toInsert |-> j.toInsert, toDelete |-> a,
             inserted |-> j.inserted, removed |-> b]
  BY <1>2
<1>4. [j EXCEPT !.toDelete = a, !.removed = b] = [i EXCEPT !.removed = b]
  BY <1>1
<1>5. QED
  BY <1>3, <1>4

(* Start, statement and failure: each writes.                               *)
LEMMA WriteFact ==
    ASSUME Typed, NEW t \in Tasks, Right(task[t]), Writes(t)
    PROVE  \E k \in Task : task' = [task EXCEPT ![t] = k] /\ Written(t, k)
<1> USE DEF history
<1>1. PICK j : j = task[t]
  OBVIOUS
<1>2. /\ j \in Task /\ Right(j) /\ task \in [Tasks -> Task]
      /\ live \in SUBSET Listings /\ unsaid \in SUBSET Listings
      /\ j.toInsert \in SUBSET Listings /\ j.toDelete \in SUBSET Listings
      /\ j.inserted \in SUBSET Listings /\ j.removed \in SUBSET Listings
      /\ j.order \in OrdersLeft
  BY <1>1 DEF Typed, Task
<1>3. ASSUME NEW k \in Task, task' = [task EXCEPT ![t] = k], Written(t, k)
      PROVE  \E m \in Task : task' = [task EXCEPT ![t] = m] /\ Written(t, m)
  BY <1>3
<1>4. ASSUME NEW w \in Worlds, NEW order \in Orders,
             NEW gone \in SUBSET (live \cap RowsOf(w)), NEW new \in SUBSET (RowsOf(w) \ live),
             Start(t, w, order, gone, new)
      PROVE  \E k \in Task : task' = [task EXCEPT ![t] = k] /\ Written(t, k)
  <2>1. PICK r : r = IF order = <<"Remove">> THEN {} ELSE gone
    OBVIOUS
  <2>2. PICK k : k = [pc |-> "write", order |-> order, toInsert |-> new, toDelete |-> gone,
                      inserted |-> {}, removed |-> r]
    OBVIOUS
  <2>3. task' = [task EXCEPT ![t] = k]
    BY <1>4, <2>1, <2>2 DEF Start
  <2>4. k \in Task
    BY <1>2, <2>1, <2>2 DEF Task, OrdersLeft, RowsOf
  <2>5. /\ k.pc = "write" /\ k.order = order /\ k.toInsert = new /\ k.toDelete = gone
        /\ k.inserted = {} /\ k.removed = r
    BY <2>2
  <2>6. Right(k)
    <3>1. \A l \in gone \cup new \cup r : l.world = w
      BY <2>1 DEF RowsOf
    <3>2. order = <<"Remove">> => new = {}
      BY <1>4 DEF Start
    <3>3. QED
      BY <2>1, <2>5, <3>1, <3>2 DEF Right
  <2>7. j = Idle
    BY <1>1, <1>2, <1>4 DEF Start, Right
  <2>8. ~Sends(j, "Add") /\ ~Sends(j, "Remove")
    BY <2>7, IdleFact DEF Sends
  <2>9. live' = live /\ unsaid' = unsaid /\ UNCHANGED Others
    BY <1>4 DEF Start, Others
  <2>10. Written(t, k)
    BY <1>1, <1>2, <2>4, <2>6, <2>8, <2>9 DEF Written, Takes, Brings
  <2>11. QED
    BY <2>3, <2>4, <2>10
<1>5. ASSUME NEW l \in task[t].toInsert, InsertRow(t, l)
      PROVE  \E k \in Task : task' = [task EXCEPT ![t] = k] /\ Written(t, k)
  <2>1. PICK k : k = [pc |-> j.pc, order |-> j.order, toInsert |-> j.toInsert \ {l},
                      toDelete |-> j.toDelete, inserted |-> j.inserted \cup {l},
                      removed |-> j.removed]
    OBVIOUS
  <2>2. task' = [task EXCEPT ![t] = k]
    <3>1. [j EXCEPT !.toInsert = j.toInsert \ {l}, !.inserted = j.inserted \cup {l}] = k
      BY <1>2, <2>1, InsertedFact
    <3>2. task' = [task EXCEPT ![t] = [j EXCEPT !.toInsert = j.toInsert \ {l},
                                                !.inserted = j.inserted \cup {l}]]
      BY <1>1, <1>2, <1>5 DEF InsertRow
    <3>3. QED
      BY <3>1, <3>2
  <2>3. /\ k.pc = j.pc /\ k.order = j.order /\ k.toInsert = j.toInsert \ {l}
        /\ k.toDelete = j.toDelete /\ k.inserted = j.inserted \cup {l} /\ k.removed = j.removed
    BY <2>1
  <2>4. /\ live' = live \cup {l} /\ unsaid' = unsaid \ {l} /\ UNCHANGED Others
        /\ l \in j.toInsert /\ j.pc = "write" /\ l \in Listings
    BY <1>1, <1>2, <1>5 DEF InsertRow, Others
  <2>5. k \in Task
    BY <1>2, <2>1, <2>4 DEF Task
  <2>6. j.order # <<"Remove">>
    BY <1>2, <2>4 DEF Right
  <2>7. Right(k)
    BY <1>2, <2>3, <2>4, <2>6 DEF Right
  <2>8. Sends(k, "Add") /\ \A type : Sends(k, type) <=> Sends(j, type)
    BY <1>2, <2>3, <2>4, <2>6, OrderFact DEF Sends
  <2>9. Written(t, k)
    BY <1>1, <1>2, <2>3, <2>4, <2>5, <2>7, <2>8 DEF Written, Takes, Brings
  <2>10. QED
    BY <2>2, <2>5, <2>9
<1>6. ASSUME NEW l \in task[t].toInsert, InsertFails(t, l)
      PROVE  \E k \in Task : task' = [task EXCEPT ![t] = k] /\ Written(t, k)
  <2>1. PICK k : k = [pc |-> j.pc, order |-> j.order, toInsert |-> j.toInsert \ {l},
                      toDelete |-> j.toDelete, inserted |-> j.inserted, removed |-> j.removed]
    OBVIOUS
  <2>2. task' = [task EXCEPT ![t] = k]
    <3>1. [j EXCEPT !.toInsert = j.toInsert \ {l}] = k
      BY <1>2, <2>1, DroppedFact
    <3>2. task' = [task EXCEPT ![t] = [j EXCEPT !.toInsert = j.toInsert \ {l}]]
      BY <1>1, <1>2, <1>6 DEF InsertFails
    <3>3. QED
      BY <3>1, <3>2
  <2>3. /\ k.pc = j.pc /\ k.order = j.order /\ k.toInsert = j.toInsert \ {l}
        /\ k.toDelete = j.toDelete /\ k.inserted = j.inserted /\ k.removed = j.removed
    BY <2>1
  <2>4. /\ live' = live /\ unsaid' = unsaid /\ UNCHANGED Others
        /\ l \in j.toInsert /\ j.pc = "write"
    BY <1>1, <1>6 DEF InsertFails, Others
  <2>5. k \in Task
    BY <1>2, <2>1 DEF Task
  <2>6. Right(k)
    BY <1>2, <2>3, <2>4 DEF Right
  <2>7. \A type : Sends(k, type) <=> Sends(j, type)
    BY <2>3 DEF Sends
  <2>8. Written(t, k)
    BY <1>1, <1>2, <2>3, <2>4, <2>5, <2>6, <2>7 DEF Written, Takes, Brings
  <2>9. QED
    BY <2>2, <2>5, <2>8
<1>7. ASSUME DeleteMany(t) \/ DeleteManyFails(t)
      PROVE  \E k \in Task : task' = [task EXCEPT ![t] = k] /\ Written(t, k)
  <2>1. PICK k : k = [pc |-> j.pc, order |-> j.order, toInsert |-> j.toInsert,
                      toDelete |-> {}, inserted |-> j.inserted, removed |-> j.removed]
    OBVIOUS
  <2>2. task' = [task EXCEPT ![t] = k]
    BY <1>1, <1>2, <1>7, <2>1 DEF DeleteMany, DeleteManyFails, Task
  <2>3. /\ k.pc = j.pc /\ k.order = j.order /\ k.toInsert = j.toInsert
        /\ k.toDelete = {} /\ k.inserted = j.inserted /\ k.removed = j.removed
    BY <2>1
  <2>4. /\ \/ live' = live \ j.toDelete /\ unsaid' = unsaid \ j.toDelete
           \/ live' = live /\ unsaid' = unsaid
        /\ UNCHANGED Others /\ j.order # <<"Remove">> /\ j.pc = "write"
    BY <1>1, <1>7 DEF DeleteMany, DeleteManyFails, Others
  <2>5. k \in Task
    BY <1>2, <2>1 DEF Task
  <2>6. Right(k) /\ j.toDelete \subseteq j.removed
    BY <1>2, <2>3, <2>4 DEF Right
  <2>7. Sends(k, "Remove") /\ \A type : Sends(k, type) <=> Sends(j, type)
    BY <1>2, <2>3, <2>4, OrderFact DEF Sends
  <2>8. Written(t, k)
    BY <1>1, <1>2, <2>3, <2>4, <2>5, <2>6, <2>7 DEF Written, Takes, Brings
  <2>9. QED
    BY <2>2, <2>5, <2>8
<1>8. ASSUME NEW l \in task[t].toDelete, DeleteRow(t, l)
      PROVE  \E k \in Task : task' = [task EXCEPT ![t] = k] /\ Written(t, k)
  <2>1. PICK k : k = [pc |-> j.pc, order |-> j.order, toInsert |-> j.toInsert,
                      toDelete |-> j.toDelete \ {l}, inserted |-> j.inserted,
                      removed |-> j.removed \cup {l}]
    OBVIOUS
  <2>2. task' = [task EXCEPT ![t] = k]
    <3>1. [j EXCEPT !.toDelete = j.toDelete \ {l}, !.removed = j.removed \cup {l}] = k
      BY <1>2, <2>1, RemovedFact
    <3>2. task' = [task EXCEPT ![t] = [j EXCEPT !.toDelete = j.toDelete \ {l},
                                                !.removed = j.removed \cup {l}]]
      BY <1>1, <1>2, <1>8 DEF DeleteRow
    <3>3. QED
      BY <3>1, <3>2
  <2>3. /\ k.pc = j.pc /\ k.order = j.order /\ k.toInsert = j.toInsert
        /\ k.toDelete = j.toDelete \ {l} /\ k.inserted = j.inserted
        /\ k.removed = j.removed \cup {l}
    BY <2>1
  <2>4. /\ live' = live \ {l} /\ unsaid' = unsaid \ {l} /\ UNCHANGED Others
        /\ j.order = <<"Remove">> /\ j.pc = "write" /\ l \in j.toDelete /\ l \in Listings
    BY <1>1, <1>2, <1>8 DEF DeleteRow, Others
  <2>5. k \in Task
    BY <1>2, <2>1, <2>4 DEF Task
  <2>6. Right(k)
    BY <1>2, <2>3, <2>4 DEF Right
  <2>7. Sends(k, "Remove") /\ \A type : Sends(k, type) <=> Sends(j, type)
    BY <1>2, <2>3, <2>4, OrderFact DEF Sends
  <2>8. Written(t, k)
    BY <1>1, <1>2, <2>3, <2>4, <2>5, <2>6, <2>7 DEF Written, Takes, Brings
  <2>9. QED
    BY <2>2, <2>5, <2>8
<1>9. ASSUME TaskFails(t)
      PROVE  \E k \in Task : task' = [task EXCEPT ![t] = k] /\ Written(t, k)
  <2>1. task' = [task EXCEPT ![t] = Idle] /\ Idle \in Task
    BY <1>9, IdleFact DEF TaskFails
  <2>2. /\ unsaid' = unsaid \cup (j.inserted \cap live) \cup (j.removed \ live)
        /\ live' = live /\ UNCHANGED Others
    BY <1>1, <1>9 DEF TaskFails, Others
  <2>3. Right(Idle)
    BY IdleFact DEF Right
  <2>4. Written(t, Idle)
    BY <1>1, <1>2, <2>1, <2>2, <2>3 DEF Written, Takes, Brings
  <2>5. QED
    BY <2>1, <2>4
<1>10. QED
  BY <1>4, <1>5, <1>6, <1>7, <1>8, <1>9 DEF Writes

-----------------------------------------------------------------------------
(* The types.                                                               *)

(* At the start.                                                            *)
LEMMA TypedInit == Init => Typed
<1> SUFFICES ASSUME Init PROVE Typed
  OBVIOUS
<1>1. task \in [Tasks -> Task]
  BY IdleFact DEF Init
<1>2. NoQuotes \in Board /\ NoQualities \in [Selectors -> SUBSET Qualities]
  BY DEF NoQuotes, NoQualities, Board, Quoted
<1>3. queue \in Seq(Events) /\ Len(queue) <= Capacity /\ work \in Seq(Call)
  BY QuotesAssumption DEF Init
<1>4. copied \in [{} -> Quoted]
  BY DEF Init
<1>5. QED
  BY <1>1, <1>2, <1>3, <1>4 DEF Init, Typed

(* Every step keeps them.                                                   *)
LEMMA TypedStep ==
    ASSUME Typed, \A t \in Tasks : Right(task[t]), Phases, [Next]_vars
    PROVE  Typed'
<1> USE DEF history
<1>1. ASSUME NEW t \in Tasks, Writes(t)
      PROVE  Typed'
  <2>1. PICK k \in Task : task' = [task EXCEPT ![t] = k] /\ Written(t, k)
    BY <1>1, WriteFact
  <2>2. task' \in [Tasks -> Task]
    BY <2>1, TaskFact DEF Typed
  <2>3. QED
    BY <2>1, <2>2 DEF Typed, Written, Others
<1>2. ASSUME NEW t \in Tasks, Tell(t)
      PROVE  Typed'
  <2>1. PICK e \in Events, k \in Task : Event(t) = e /\ task' = [task EXCEPT ![t] = k]
    BY <1>2, TellFact DEF Typed
  <2>2. task' \in [Tasks -> Task]
    BY <2>1, TaskFact DEF Typed
  <2>3. Broadcast(e)
    BY <1>2, <2>1 DEF Tell
  <2>4. queue' \in Seq(Events) /\ Len(queue') <= Capacity /\ lost' \in BOOLEAN
    BY <2>3, BroadcastFact DEF Typed
  <2>5. unsaid' \in SUBSET Listings
    BY <1>2, <2>1 DEF Tell, Typed, Events
  <2>6. QED
    BY <1>2, <2>2, <2>4, <2>5 DEF Tell, Typed
<1>5. CASE Subscribe
  BY <1>5 DEF Subscribe, Typed
<1>6. CASE Load
  <2>1. PICK rows \in SetToSeqs(Summaries) : work' = AddCalls(rows)
    BY <1>6 DEF Load
  <2>2. rows \in Seq(Listings)
    BY SummariesFact, RowsFact DEF Typed
  <2>3. work' \in Seq(Call)
    BY <2>1, <2>2, AddCallsFact
  <2>4. QED
    BY <1>6, <2>3 DEF Load, Typed
<1>7. CASE LoadStops
  <2>1. work' \in Seq(Call)
    BY <1>7 DEF LoadStops
  <2>2. QED
    BY <1>7, <2>1 DEF LoadStops, Typed
<1>8. CASE Prime
  BY <1>8 DEF Prime, Typed
<1>9. CASE Restore
  <2>1. quotes' \in Board
    BY <1>9 DEF Restore, Typed
  <2>2. untouched' \in [Selectors -> SUBSET Qualities]
        /\ unasked' \in [Selectors -> SUBSET Qualities]
    BY <1>9 DEF Restore
  <2>3. QED
    BY <1>9, <2>1, <2>2 DEF Restore, Typed
<1>10. CASE Receive
  <2>1. Head(queue) \in Events /\ queue' \in Seq(Events) /\ Len(queue') <= Capacity
    <3>1. queue # <<>> /\ queue' = Tail(queue) /\ queue \in Seq(Events)
      BY <1>10 DEF Receive, Typed
    <3>2. Head(queue) \in Events /\ queue' \in Seq(Events) /\ Len(queue') = Len(queue) - 1
          /\ Len(queue) \in Nat
      BY <3>1, TailFact
    <3>3. Len(queue) <= Capacity /\ Capacity \in Nat
      BY QuotesAssumption DEF Typed
    <3>4. QED
      BY <3>2, <3>3
  <2>2. Head(queue).listings \in SUBSET Listings
    BY <2>1 DEF Events
  <2>3. work' \in Seq(Call)
    <3>1. CASE Head(queue).type = "Add" /\ Head(queue).listings = {}
      BY <1>10, <3>1 DEF Receive
    <3>2. CASE Head(queue).type = "Add" /\ Head(queue).listings # {}
      <4>1. PICK l \in Cheapest(Head(queue).listings) : work' = AddCalls(<<l>>)
        BY <1>10, <3>2 DEF Receive
      <4>2. l \in Listings
        BY <2>2 DEF Cheapest
      <4>3. <<l>> \in Seq(Listings)
        BY <4>2
      <4>4. QED
        BY <4>1, <4>3, AddCallsFact
    <3>3. CASE Head(queue).type # "Add"
      <4>1. PICK ls \in SetToSeqs(Head(queue).listings) : work' = RemoveCalls(ls)
        BY <1>10, <3>3 DEF Receive
      <4>2. ls \in Seq(Listings)
        BY <2>2, RowsFact
      <4>3. QED
        BY <4>1, <4>2, RemoveCallsFact
    <3>4. QED
      BY <3>1, <3>2, <3>3
  <2>4. QED
    BY <1>10, <2>1, <2>3 DEF Receive, Typed
<1>11. CASE CallAdd
  <2>1. PICK s, l : s = Head(work).sel /\ l = Head(work).listing
    OBVIOUS
  <2>2. s \in Selectors /\ l \in Listings /\ l.hq \in Qualities /\ work' \in Seq(Call)
    BY <1>11, <2>1, WorkFact DEF CallAdd, Typed
  <2>3. AddListing(s, l)
    BY <1>11, <2>1 DEF CallAdd
  <2>4. quotes[s][l.hq] \in SUBSET Quotations
    BY <2>2 DEF Typed, Board, Quoted
  <2>5. Lowered(quotes[s][l.hq], l) \in SUBSET Quotations
    BY <2>2, <2>4, LoweredFact
  <2>6. quotes' \in Board
    BY <2>2, <2>3, <2>5, QuoteFact DEF Typed, AddListing
  <2>7. untouched' \in [Selectors -> SUBSET Qualities]
    BY <2>2, <2>3 DEF Typed, AddListing
  <2>8. QED
    BY <1>11, <2>2, <2>6, <2>7 DEF CallAdd, Typed
<1>12. CASE CallRemove
  <2>1. PICK s, l : s = Head(work).sel /\ l = Head(work).listing
    OBVIOUS
  <2>2. s \in Selectors /\ l \in Listings /\ l.hq \in Qualities /\ Tail(work) \in Seq(Call)
    BY <1>12, <2>1, WorkFact DEF CallRemove, Typed
  <2>3. CASE TakesAway(s, l)
    <3>1. /\ quotes' = [quotes EXCEPT ![s][l.hq] = {}]
          /\ asking' = {[left |-> WorldsIn(s), found |-> {}]}
          /\ untouched' = [untouched EXCEPT ![s] = @ \ {l.hq}]
          /\ work' = work
      BY <1>12, <2>1, <2>3 DEF CallRemove
    <3>2. quotes' \in Board
      <4>1. {} \in SUBSET Quotations /\ quotes \in Board
        BY DEF Typed
      <4>2. QED
        BY <2>2, <3>1, <4>1, QuoteFact
    <3>3. WorldsIn(s) \subseteq Worlds
      BY <2>2 DEF WorldsIn, Selectors
    <3>4. asking' \subseteq Query
      BY <3>1, <3>3 DEF Query
    <3>5. untouched' \in [Selectors -> SUBSET Qualities]
      BY <2>2, <3>1 DEF Typed
    <3>6. QED
      BY <1>12, <3>1, <3>2, <3>4, <3>5 DEF CallRemove, Typed
  <2>4. CASE ~TakesAway(s, l)
    <3>1. work' = Tail(work) /\ UNCHANGED <<quotes, asking, untouched>>
      BY <1>12, <2>1, <2>4 DEF CallRemove
    <3>2. QED
      BY <1>12, <2>2, <3>1 DEF CallRemove, Typed
  <2>5. QED
    BY <2>3, <2>4
<1>13. ASSUME NEW w \in Worlds, Answer(w)
       PROVE  Typed'
  <2>1. PICK a \in asking :
           /\ w \in a.left
           /\ \/ asking' = {[a EXCEPT !.left = @ \ {w}]}
              \/ \E l \in live : asking' = {[left |-> a.left \ {w}, found |-> a.found \cup {l}]}
    BY <1>13 DEF Answer, Cheapest
  <2>2. a \in Query
    BY DEF Typed
  <2>3. asking' \in SUBSET Query
    BY <2>1, <2>2 DEF Query, Typed
  <2>4. QED
    BY <1>13, <2>3 DEF Answer, Typed
<1>14. CASE Requoted
  <2>1. PICK s, q : s = Head(work).sel /\ q = Head(work).listing.hq
    OBVIOUS
  <2>2. PICK a \in asking :
           /\ \/ quotes' = quotes
              \/ \E l \in Cheapest(a.found) :
                    quotes' = [quotes EXCEPT ![s][q] = Lowered(quotes[s][q], l)]
           /\ unasked' = [unasked EXCEPT ![s] = unasked[s] \ {q}]
    BY <1>14, <2>1, Zenon DEF Requoted
  <2>3. work # <<>>
    BY <1>14 DEF Requoted, Phases
  <2>4. s \in Selectors /\ q \in Qualities /\ Tail(work) \in Seq(Call)
    BY <2>1, <2>3, WorkFact DEF Typed
  <2>5. ASSUME NEW l \in Cheapest(a.found),
               quotes' = [quotes EXCEPT ![s][q] = Lowered(quotes[s][q], l)]
        PROVE  quotes' \in Board
    <3>1. l \in Listings
      BY DEF Cheapest, Typed, Query
    <3>2. quotes[s][q] \in SUBSET Quotations
      BY <2>4 DEF Typed, Board, Quoted
    <3>3. QED
      BY <2>4, <2>5, <3>1, <3>2, LoweredFact, QuoteFact DEF Typed
  <2>6. quotes' \in Board /\ unasked' \in [Selectors -> SUBSET Qualities]
    BY <2>2, <2>4, <2>5 DEF Typed
  <2>7. QED
    BY <1>14, <2>4, <2>6 DEF Requoted, Typed
<1>15. CASE AskFails
  <2>1. work # <<>>
    BY <1>15 DEF AskFails, Phases
  <2>2. work' \in Seq(Call)
    BY <1>15, <2>1, WorkFact DEF AskFails, Typed
  <2>3. QED
    BY <1>15, <2>2 DEF AskFails, Typed
<1>16. ASSUME NEW s \in Selectors, Copy(s)
       PROVE  Typed'
  <2>1. PICK S \in SUBSET Selectors : copied \in [S -> Quoted]
    BY DEF Typed
  <2>2. copied' \in [S \cup {s} -> Quoted]
    BY <1>16, <2>1 DEF Copy, Typed, Board
  <2>3. S \cup {s} \in SUBSET Selectors
    OBVIOUS
  <2>4. QED
    BY <1>16, <2>2, <2>3 DEF Copy, Typed
<1>17. CASE WriteSnapshot
  <2>1. copied \in Board
    BY <1>17 DEF WriteSnapshot, Typed, Board
  <2>2. copied' \in [{} -> Quoted]
    BY <1>17 DEF WriteSnapshot
  <2>3. snapshot' \in SUBSET Board
    BY <1>17, <2>1 DEF WriteSnapshot
  <2>4. QED
    BY <1>17, <2>2, <2>3 DEF WriteSnapshot, Typed
<1>18. CASE Restart
  <2>1. task' \in [Tasks -> Task]
    BY <1>18, IdleFact DEF Restart
  <2>2. NoQuotes \in Board /\ NoQualities \in [Selectors -> SUBSET Qualities]
    BY DEF NoQuotes, NoQualities, Board, Quoted
  <2>3. queue' \in Seq(Events) /\ Len(queue') <= Capacity /\ work' \in Seq(Call)
    BY <1>18, QuotesAssumption DEF Restart
  <2>4. copied' \in [{} -> Quoted]
    BY <1>18 DEF Restart
  <2>5. QED
    BY <1>18, <2>1, <2>2, <2>3, <2>4 DEF Restart, Typed
<1>19. CASE UNCHANGED vars
  BY <1>19 DEF vars, Typed
<1>20. QED
  BY <1>1, <1>2, <1>5, <1>6, <1>7, <1>8, <1>9, <1>10, <1>11, <1>12, <1>13, <1>14, <1>15,
     <1>16, <1>17, <1>18, <1>19 DEF Next, Writes

-----------------------------------------------------------------------------
(* What the worker's steps do, in the terms of the invariant.               *)

(* An offer.                                                                *)
LEMMA AddStep ==
    ASSUME Typed, CallAdd
    PROVE  \E s \in Selectors, l \in Listings, r \in SUBSET Quotations :
              /\ work # <<>> /\ work' = Tail(work)
              /\ Head(work).op = "add" /\ Head(work).sel = s /\ Head(work).listing = l
              /\ l.hq \in Qualities /\ quotes[s][l.hq] \in SUBSET Quotations
              /\ r = Lowered(quotes[s][l.hq], l) /\ Sets(s, l.hq, r)
              /\ Marks(untouched, untouched', s, l.hq)
              /\ r = {Quote(l)} => l.hq \notin untouched'[s]
              /\ r # {Quote(l)} => untouched' = untouched
<1>1. PICK s, l : s = Head(work).sel /\ l = Head(work).listing
  OBVIOUS
<1>2. work # <<>> /\ Head(work).op = "add" /\ work' = Tail(work)
  BY DEF CallAdd
<1>3. s \in Selectors /\ l \in Listings /\ l.hq \in Qualities
  BY <1>1, <1>2, WorkFact DEF Typed
<1>4. quotes[s][l.hq] \in SUBSET Quotations
  BY <1>3 DEF Typed, Board, Quoted
<1>5. PICK r : r = Lowered(quotes[s][l.hq], l)
  OBVIOUS
<1>6. r \in SUBSET Quotations
  BY <1>3, <1>4, <1>5, LoweredFact
<1>7. /\ quotes' = [quotes EXCEPT ![s][l.hq] = r]
      /\ untouched' = [untouched EXCEPT ![s] = IF r = {Quote(l)} THEN untouched[s] \ {l.hq}
                                               ELSE untouched[s]]
  <2>1. AddListing(s, l)
    BY <1>1 DEF CallAdd
  <2>2. QED
    BY <1>5, <2>1, Zenon DEF AddListing
<1>8. Sets(s, l.hq, r)
  BY <1>3, <1>6, <1>7, QuoteFact DEF Typed
<1>9. CASE r = {Quote(l)}
  <2>1. untouched' = [untouched EXCEPT ![s] = untouched[s] \ {l.hq}]
    BY <1>7, <1>9
  <2>2. Marks(untouched, untouched', s, l.hq) /\ l.hq \notin untouched'[s]
    BY <1>3, <2>1, MarkFact DEF Typed
  <2>3. QED
    BY <1>1, <1>2, <1>3, <1>4, <1>5, <1>6, <1>8, <1>9, <2>2
<1>10. CASE r # {Quote(l)}
  <2>1. untouched' = untouched
    BY <1>3, <1>7, <1>10 DEF Typed
  <2>2. Marks(untouched, untouched', s, l.hq)
    BY <2>1 DEF Marks
  <2>3. QED
    BY <1>1, <1>2, <1>3, <1>4, <1>5, <1>6, <1>8, <1>10, <2>1, <2>2
<1>11. QED
  BY <1>9, <1>10

(* A removal that drops the quote, and one that leaves it.                  *)
Drops(s, l) ==
    /\ asking = {} /\ asking' = {[left |-> WorldsIn(s), found |-> {}]}
    /\ work' = work
    /\ Sets(s, l.hq, {})
    /\ Marks(untouched, untouched', s, l.hq)

Passes(s, l) ==
    /\ asking = {} /\ asking' = {}
    /\ work' = Tail(work)
    /\ quotes' = quotes /\ untouched' = untouched
    /\ \A c \in quotes[s][l.hq] : ~ (l.price <= c.price)

(* There is no third way.                                                   *)
LEMMA RemoveStep ==
    ASSUME Typed, CallRemove
    PROVE  \E s \in Selectors, l \in Listings :
              /\ work # <<>>
              /\ Head(work).op = "remove" /\ Head(work).sel = s /\ Head(work).listing = l
              /\ l.hq \in Qualities
              /\ Drops(s, l) \/ Passes(s, l)
<1>1. PICK s, l : s = Head(work).sel /\ l = Head(work).listing
  OBVIOUS
<1>2. work # <<>> /\ Head(work).op = "remove" /\ asking = {}
  BY DEF CallRemove
<1>3. s \in Selectors /\ l \in Listings /\ l.hq \in Qualities
  BY <1>1, <1>2, WorkFact DEF Typed
<1>4. CASE TakesAway(s, l)
  <2>1. /\ quotes' = [quotes EXCEPT ![s][l.hq] = {}]
        /\ asking' = {[left |-> WorldsIn(s), found |-> {}]}
        /\ untouched' = [untouched EXCEPT ![s] = untouched[s] \ {l.hq}]
        /\ work' = work
    BY <1>1, <1>4, Zenon DEF CallRemove
  <2>2. {} \in SUBSET Quotations /\ quotes \in Board
    BY DEF Typed
  <2>3. Sets(s, l.hq, {})
    BY <1>3, <2>1, <2>2, QuoteFact
  <2>4. Marks(untouched, untouched', s, l.hq)
    BY <1>3, <2>1, MarkFact DEF Typed
  <2>5. QED
    BY <1>1, <1>2, <1>3, <2>1, <2>3, <2>4 DEF Drops
<1>5. CASE ~TakesAway(s, l)
  <2>1. work' = Tail(work) /\ UNCHANGED <<quotes, asking, untouched>>
    BY <1>1, <1>5 DEF CallRemove
  <2>2. QED
    BY <1>1, <1>2, <1>3, <1>5, <2>1 DEF Passes, TakesAway
<1>6. QED
  BY <1>4, <1>5

(* The end of a requery.                                                    *)
LEMMA RequoteStep ==
    ASSUME Typed, Singles, Phases, Filed, Requoted
    PROVE  \E s \in Selectors, l \in Listings, a \in Query, r \in SUBSET Quotations :
              /\ work # <<>> /\ work' = Tail(work)
              /\ Head(work).op = "remove" /\ Head(work).sel = s /\ Head(work).listing = l
              /\ l.hq \in Qualities
              /\ asking = {a} /\ a.left = {} /\ asking' = {}
              /\ quotes[s][l.hq] = {} /\ Sets(s, l.hq, r)
              /\ \/ a.found = {} /\ r = {}
                 \/ \E f \in Cheapest(a.found) : r = {Quote(f)}
              /\ Marks(unasked, unasked', s, l.hq)
<1>1. PICK s, l, q : s = Head(work).sel /\ l = Head(work).listing /\ q = l.hq
  OBVIOUS
<1>2. PICK a \in asking :
         /\ a.left = {}
         /\ \/ a.found = {} /\ quotes' = quotes
            \/ \E f \in Cheapest(a.found) :
                  quotes' = [quotes EXCEPT ![s][q] = Lowered(quotes[s][q], f)]
         /\ unasked' = [unasked EXCEPT ![s] = unasked[s] \ {q}]
  BY <1>1, Zenon DEF Requoted
<1>3. asking = {a} /\ asking' = {} /\ work' = Tail(work)
  BY DEF Requoted, Singles, Single
<1>4. work # <<>> /\ Head(work).op = "remove"
  BY <1>3 DEF Phases
<1>5. s \in Selectors /\ l \in Listings /\ q \in Qualities
  BY <1>1, <1>4, WorkFact DEF Typed
<1>6. a \in Query
  BY DEF Typed
<1>7. quotes[s][q] = {}
  BY <1>1, <1>2 DEF Filed
<1>8. Marks(unasked, unasked', s, q)
  BY <1>2, <1>5, MarkFact DEF Typed
<1>9. ASSUME NEW f \in Cheapest(a.found),
             quotes' = [quotes EXCEPT ![s][q] = Lowered(quotes[s][q], f)]
      PROVE  Sets(s, q, {Quote(f)}) /\ {Quote(f)} \in SUBSET Quotations
  <2>1. f \in Listings
    BY <1>6 DEF Cheapest, Query
  <2>2. Lowered(quotes[s][q], f) = {Quote(f)}
    BY <1>7 DEF Lowered
  <2>3. {Quote(f)} \in SUBSET Quotations
    BY <2>1 DEF Quotations
  <2>4. QED
    BY <1>5, <1>9, <2>2, <2>3, QuoteFact DEF Typed
<1>10. CASE a.found = {} /\ quotes' = quotes
  <2>1. Sets(s, q, {}) /\ {} \in SUBSET Quotations
    BY <1>7, <1>10 DEF Sets
  <2>2. QED
    BY <1>1, <1>2, <1>3, <1>4, <1>5, <1>6, <1>7, <1>8, <1>10, <2>1
<1>11. CASE \E f \in Cheapest(a.found) :
               quotes' = [quotes EXCEPT ![s][q] = Lowered(quotes[s][q], f)]
  <2>1. PICK f \in Cheapest(a.found) : Sets(s, q, {Quote(f)}) /\ {Quote(f)} \in SUBSET Quotations
    BY <1>9, <1>11
  <2>2. QED
    BY <1>1, <1>2, <1>3, <1>4, <1>5, <1>6, <1>7, <1>8, <2>1
<1>12. QED
  BY <1>2, <1>10, <1>11

(* The worker takes the first event of the bus: it offers a cheapest        *)
(* listing, or takes all away.                                              *)
LEMMA ReceiveStep ==
    ASSUME Typed, Receive
    PROVE  \E e \in Events :
              /\ queue # <<>> /\ e = queue[1] /\ work = <<>> /\ queue' = Tail(queue)
              /\ work' \in Seq(Call)
              /\ \A n \in DOMAIN work' : work'[n].listing.world \in WorldsIn(work'[n].sel)
              /\ e.type = "Add" =>
                    \/ e.listings = {} /\ work' = <<>>
                    \/ \E l \in Cheapest(e.listings) :
                          /\ \A n \in DOMAIN work' :
                                work'[n].op = "add" /\ work'[n].listing = l
                          /\ \A s \in Selectors : l.world \in WorldsIn(s) =>
                                \E n \in DOMAIN work' : work'[n].sel = s
              /\ e.type # "Add" =>
                    /\ \A n \in DOMAIN work' : work'[n].op = "remove"
                    /\ \A l \in e.listings, s \in Selectors : l.world \in WorldsIn(s) =>
                          \E n \in DOMAIN work' : /\ work'[n].op = "remove"
                                                  /\ work'[n].sel = s /\ work'[n].listing = l
<1>1. queue # <<>> /\ work = <<>> /\ queue' = Tail(queue)
  BY DEF Receive
<1>2. PICK e : e = Head(queue)
  OBVIOUS
<1>3. e \in Events /\ e = queue[1]
  BY <1>1, <1>2, TailFact DEF Typed
<1>4. e.listings \in SUBSET Listings
  BY <1>3 DEF Events
<1>5. CASE e.type = "Add" /\ e.listings = {}
  <2>1. work' = <<>>
    BY <1>2, <1>5 DEF Receive
  <2>2. QED
    BY <1>1, <1>3, <1>5, <2>1
<1>6. CASE e.type = "Add" /\ e.listings # {}
  <2>1. PICK l \in Cheapest(e.listings) : work' = AddCalls(<<l>>)
    BY <1>2, <1>6 DEF Receive
  <2>2. l \in Listings
    BY <1>4 DEF Cheapest
  <2>3. PICK ls : ls = <<l>>
    OBVIOUS
  <2>4. ls \in Seq(Listings) /\ DOMAIN ls = {1} /\ ls[1] = l
    BY <2>2, <2>3
  <2>5. /\ work' \in Seq(Call)
        /\ \A n \in DOMAIN work' :
              /\ work'[n].op = "add" /\ \E k \in DOMAIN ls : work'[n].listing = ls[k]
              /\ work'[n].listing.world \in WorldsIn(work'[n].sel)
        /\ \A k \in DOMAIN ls, s \in Selectors : ls[k].world \in WorldsIn(s) =>
              \E n \in DOMAIN work' :
                 work'[n].op = "add" /\ work'[n].sel = s /\ work'[n].listing = ls[k]
    BY <2>1, <2>3, <2>4, AddCallsFact
  <2>6. /\ \A n \in DOMAIN work' : work'[n].op = "add" /\ work'[n].listing = l
        /\ \A n \in DOMAIN work' : work'[n].listing.world \in WorldsIn(work'[n].sel)
    BY <2>4, <2>5
  <2>7. \A s \in Selectors : l.world \in WorldsIn(s) => \E n \in DOMAIN work' : work'[n].sel = s
    BY <2>4, <2>5
  <2>8. QED
    BY <1>1, <1>3, <1>6, <2>5, <2>6, <2>7
<1>7. CASE e.type # "Add"
  <2>1. PICK ls \in SetToSeqs(e.listings) : work' = RemoveCalls(ls)
    BY <1>2, <1>7 DEF Receive
  <2>2. ls \in Seq(Listings) /\ \A l \in e.listings : \E k \in DOMAIN ls : ls[k] = l
    BY <1>4, RowsFact
  <2>3. /\ work' \in Seq(Call)
        /\ \A n \in DOMAIN work' :
              /\ work'[n].op = "remove"
              /\ work'[n].listing.world \in WorldsIn(work'[n].sel)
        /\ \A k \in DOMAIN ls, s \in Selectors : ls[k].world \in WorldsIn(s) =>
              \E n \in DOMAIN work' :
                 work'[n].op = "remove" /\ work'[n].sel = s /\ work'[n].listing = ls[k]
    BY <2>1, <2>2, RemoveCallsFact
  <2>4. ASSUME NEW l \in e.listings, NEW s \in Selectors, l.world \in WorldsIn(s)
        PROVE  \E n \in DOMAIN work' :
                  work'[n].op = "remove" /\ work'[n].sel = s /\ work'[n].listing = l
    BY <2>2, <2>3, <2>4
  <2>5. QED
    BY <1>1, <1>3, <1>7, <2>3, <2>4
<1>8. QED
  BY <1>5, <1>6, <1>7

-----------------------------------------------------------------------------
(* One quote, one requery, one snapshot.                                    *)

(* Replacing a quote by one quote or none.                                  *)
LEMMA SingleFact ==
    ASSUME NEW s \in Selectors, NEW q \in Qualities, NEW r, Sets(s, q, r), Single(r),
           \A t \in Selectors, p \in Qualities : Single(quotes[t][p])
    PROVE  \A t \in Selectors, p \in Qualities : Single(quotes'[t][p])
BY DEF Sets, Single

(* Every step keeps it so.                                                  *)
LEMMA SinglesStep ==
    ASSUME Sound, [Next]_vars
    PROVE  Singles'
<1> USE DEF history
<1>1. ASSUME UNCHANGED <<copied, snapshot>>, Single(asking'),
             \A t \in Selectors, p \in Qualities : Single(quotes'[t][p])
      PROVE  Singles'
  BY <1>1 DEF Sound, Singles
<1>2. Single({}) /\ \A x : Single({x})
  BY DEF Single
<1>3. Single(asking) /\ \A t \in Selectors, p \in Qualities : Single(quotes[t][p])
  BY DEF Sound, Singles
<1>4. CASE UNCHANGED <<quotes, asking, copied, snapshot>>
  BY <1>1, <1>3, <1>4
<1>5. ASSUME NEW t \in Tasks, Writes(t) \/ Tell(t)
      PROVE  Singles'
  BY <1>4, <1>5, WriteFact DEF Sound, Tell, Written, Others
<1>6. CASE Subscribe \/ Load \/ LoadStops \/ Prime \/ Receive
  BY <1>4, <1>6 DEF Subscribe, Load, LoadStops, Prime, Receive
<1>7. CASE Restore
  <2>1. PICK saved \in snapshot : quotes' = saved
    BY <1>7 DEF Restore
  <2>2. \A t \in Selectors, p \in Qualities : Single(quotes'[t][p])
    BY <2>1 DEF Sound, Singles
  <2>3. QED
    BY <1>1, <1>3, <1>7, <2>2 DEF Restore
<1>8. CASE CallAdd
  <2>1. PICK s \in Selectors, l \in Listings, r \in SUBSET Quotations :
           /\ l.hq \in Qualities /\ quotes[s][l.hq] \in SUBSET Quotations
           /\ r = Lowered(quotes[s][l.hq], l) /\ Sets(s, l.hq, r)
    BY <1>8, AddStep DEF Sound
  <2>2. Single(r)
    BY <1>3, <2>1, LoweredFact
  <2>3. QED
    BY <1>1, <1>3, <1>8, <2>1, <2>2, SingleFact DEF CallAdd
<1>9. CASE CallRemove
  <2>1. PICK s \in Selectors, l \in Listings :
           l.hq \in Qualities /\ (Drops(s, l) \/ Passes(s, l))
    BY <1>9, RemoveStep DEF Sound
  <2>2. CASE Drops(s, l)
    BY <1>1, <1>2, <1>3, <1>9, <2>1, <2>2, SingleFact DEF Drops, CallRemove
  <2>3. CASE Passes(s, l)
    BY <1>4, <1>9, <2>3 DEF Passes, CallRemove
  <2>4. QED
    BY <2>1, <2>2, <2>3
<1>10. ASSUME NEW w \in Worlds, Answer(w)
       PROVE  Singles'
  <2>1. \E a : asking' = {a}
    BY <1>10 DEF Answer
  <2>2. QED
    BY <1>1, <1>2, <1>3, <1>10, <2>1 DEF Answer
<1>11. CASE Requoted
  <2>1. PICK s \in Selectors, l \in Listings, a \in Query, r \in SUBSET Quotations :
           /\ l.hq \in Qualities /\ asking' = {} /\ Sets(s, l.hq, r)
           /\ r = {} \/ \E f : r = {Quote(f)}
    BY <1>11, RequoteStep DEF Sound
  <2>2. Single(r)
    BY <1>2, <2>1
  <2>3. QED
    BY <1>1, <1>2, <1>3, <1>11, <2>1, <2>2, SingleFact DEF Requoted
<1>12. CASE AskFails
  BY <1>1, <1>2, <1>3, <1>12 DEF AskFails
<1>13. ASSUME NEW s \in Selectors, Copy(s)
       PROVE  Singles'
  <2>1. \A t \in DOMAIN copied', q \in Qualities : Single(copied'[t][q])
    BY <1>3, <1>13 DEF Copy, Sound, Singles
  <2>2. QED
    BY <1>13, <2>1 DEF Copy, Sound, Singles
<1>14. CASE WriteSnapshot
  <2>1. \A saved \in snapshot', s \in Selectors, q \in Qualities : Single(saved[s][q])
    BY <1>14 DEF WriteSnapshot, Sound, Singles
  <2>2. DOMAIN copied' = {}
    BY <1>14 DEF WriteSnapshot
  <2>3. Single(snapshot')
    BY <1>2, <1>14, Zenon DEF WriteSnapshot
  <2>4. QED
    BY <1>3, <1>14, <2>1, <2>2, <2>3 DEF WriteSnapshot, Singles
<1>15. CASE Restart
  <2>1. \A t \in Selectors, p \in Qualities : Single(quotes'[t][p])
    BY <1>2, <1>15 DEF Restart, NoQuotes
  <2>2. asking' = {} /\ DOMAIN copied' = {} /\ snapshot' = snapshot
    BY <1>15 DEF Restart
  <2>3. QED
    BY <1>2, <2>1, <2>2 DEF Sound, Singles
<1>16. CASE UNCHANGED vars
  BY <1>4, <1>16 DEF vars
<1>17. QED
  BY <1>5, <1>6, <1>7, <1>8, <1>9, <1>10, <1>11, <1>12, <1>13, <1>14, <1>15, <1>16 DEF Next, Writes

-----------------------------------------------------------------------------
(* The tasks.                                                               *)

(* Every step keeps the tasks right.                                        *)
LEMMA RightStep ==
    ASSUME Sound, [Next]_vars, NEW v \in Tasks
    PROVE  Right(task'[v])
<1> USE DEF history
<1>1. Typed /\ task \in [Tasks -> Task] /\ \A t \in Tasks : Right(task[t])
  BY DEF Sound, Typed
<1>2. CASE task' = task
  BY <1>1, <1>2
<1>3. ASSUME NEW t \in Tasks, Writes(t)
      PROVE  Right(task'[v])
  <2>1. PICK k \in Task : task' = [task EXCEPT ![t] = k] /\ Written(t, k)
    BY <1>1, <1>3, WriteFact
  <2>2. task'[t] = k /\ (v # t => task'[v] = task[v])
    BY <1>1, <2>1, TaskFact
  <2>3. QED
    BY <1>1, <2>1, <2>2 DEF Written
<1>4. ASSUME NEW t \in Tasks, Tell(t)
      PROVE  Right(task'[v])
  <2>1. PICK e \in Events, k \in Task : Told(t, e, k) /\ task' = [task EXCEPT ![t] = k]
    BY <1>1, <1>4, TellFact
  <2>2. task'[t] = k /\ (v # t => task'[v] = task[v])
    BY <1>1, <2>1, TaskFact
  <2>3. Right(k)
    BY <1>1, <2>1 DEF Told, Right, Task
  <2>4. QED
    BY <1>1, <2>2, <2>3
<1>5. CASE Subscribe \/ Load \/ LoadStops \/ Prime \/ Restore \/ Receive \/ CallAdd \/ CallRemove
  BY <1>2, <1>5 DEF Subscribe, Load, LoadStops, Prime, Restore, Receive, CallAdd, CallRemove
<1>6. ASSUME NEW w \in Worlds, Answer(w)
      PROVE  Right(task'[v])
  BY <1>2, <1>6 DEF Answer
<1>7. ASSUME NEW s \in Selectors, Copy(s)
      PROVE  Right(task'[v])
  BY <1>2, <1>7 DEF Copy
<1>8. CASE Requoted \/ AskFails \/ WriteSnapshot
  BY <1>2, <1>8 DEF Requoted, AskFails, WriteSnapshot
<1>9. CASE Restart
  <2>1. task'[v] = Idle
    BY <1>9 DEF Restart
  <2>2. QED
    BY <2>1, IdleFact DEF Right
<1>10. CASE UNCHANGED vars
  BY <1>2, <1>10 DEF vars
<1>11. QED
  BY <1>3, <1>4, <1>5, <1>6, <1>7, <1>8, <1>9, <1>10 DEF Next, Writes

-----------------------------------------------------------------------------
(* The phases, and the calls, events and queries.                           *)

(* What is left of the work are calls as they were.                         *)
LEMMA LeftFact ==
    ASSUME work \in Seq(Call), work # <<>>, work' = Tail(work)
    PROVE  /\ \A n \in DOMAIN work' : n + 1 \in DOMAIN work /\ work'[n] = work[n + 1]
           /\ \A n \in DOMAIN work : n # 1 => \E m \in DOMAIN work' : work'[m] = work[n]
BY TailFact

(* Every step keeps to the phases.                                          *)
LEMMA PhasesStep ==
    ASSUME Sound, [Next]_vars
    PROVE  Phases'
<1> USE DEF history
<1>1. Typed /\ Phases /\ work \in Seq(Call)
  BY DEF Sound, Typed
<1>2. CASE UNCHANGED <<phase, queue, work, quotes, asking>>
  BY <1>1, <1>2 DEF Phases
<1>3. ASSUME NEW t \in Tasks, Writes(t)
      PROVE  Phases'
  BY <1>2, <1>3, WriteFact DEF Sound, Written, Others
<1>4. ASSUME NEW t \in Tasks, Tell(t)
      PROVE  Phases'
  <2>1. phase = "off" => queue' = queue
    BY <1>4 DEF Tell, Broadcast
  <2>2. QED
    BY <1>1, <1>4, <2>1 DEF Tell, Phases
<1>5. CASE Subscribe \/ Restore
  BY <1>1, <1>5 DEF Subscribe, Restore, Phases
<1>6. CASE Load
  <2>1. PICK rows \in SetToSeqs(Summaries) : work' = AddCalls(rows)
    BY <1>6 DEF Load
  <2>2. rows \in Seq(Listings)
    BY <1>1, SummariesFact, RowsFact DEF Typed
  <2>3. \A n \in DOMAIN work' : work'[n].op = "add"
    BY <2>1, <2>2, AddCallsFact
  <2>4. work = <<>> /\ asking' = {} /\ phase' = "load"
    BY <1>1, <1>6 DEF Load, Phases
  <2>5. QED
    BY <2>3, <2>4 DEF Phases
<1>7. CASE LoadStops
  <2>1. asking = {}
    <3>1. work # <<>> /\ \A n \in DOMAIN work : work[n].op = "add"
      BY <1>1, <1>7 DEF LoadStops, Phases
    <3>2. Head(work).op = "add"
      BY <1>1, <3>1, WorkFact
    <3>3. QED
      BY <1>1, <3>2 DEF Phases
  <2>2. work' = <<>> /\ phase' = "load" /\ asking' = {}
    BY <1>7, <2>1 DEF LoadStops
  <2>3. QED
    BY <2>2 DEF Phases
<1>8. CASE Prime
  <2>1. work' = <<>> /\ asking' = {} /\ phase' = "live"
    BY <1>1, <1>8 DEF Prime, Phases
  <2>2. QED
    BY <2>1 DEF Phases
<1>9. CASE Receive
  <2>1. asking' = {} /\ phase' = "live"
    BY <1>1, <1>9 DEF Receive, Phases
  <2>2. QED
    BY <2>1 DEF Phases
<1>10. CASE CallAdd
  <2>1. work # <<>> /\ work' = Tail(work) /\ asking' = {} /\ phase' = phase /\ queue' = queue
    BY <1>1, <1>10 DEF CallAdd, Phases
  <2>2. phase # "off" /\ phase # "boot"
    BY <1>1, <2>1 DEF Phases
  <2>3. phase = "load" => \A n \in DOMAIN work' : work'[n].op = "add"
    BY <1>1, <2>1, LeftFact DEF Phases
  <2>4. QED
    BY <2>1, <2>2, <2>3 DEF Phases
<1>11. CASE CallRemove
  <2>1. work # <<>> /\ Head(work).op = "remove" /\ asking = {} /\ phase' = phase /\ queue' = queue
    BY <1>11 DEF CallRemove
  <2>2. Head(work).op # "add" /\ 1 \in DOMAIN work /\ Head(work) = work[1]
    BY <1>1, <2>1, WorkFact
  <2>3. phase = "live"
    BY <1>1, <2>1, <2>2 DEF Phases, Typed
  <2>4. work' = work \/ asking' = {}
    BY <1>1, <1>11, RemoveStep DEF Drops, Passes
  <2>5. QED
    BY <2>1, <2>3, <2>4 DEF Phases
<1>12. ASSUME NEW w \in Worlds, Answer(w)
       PROVE  Phases'
  <2>1. asking # {} /\ UNCHANGED <<phase, queue, work, quotes>>
    BY <1>12 DEF Answer
  <2>2. QED
    BY <1>1, <2>1 DEF Phases
<1>13. CASE Requoted \/ AskFails
  <2>1. /\ asking # {} /\ asking' = {} /\ work' = Tail(work)
        /\ UNCHANGED <<phase, queue>>
    BY <1>13 DEF Requoted, AskFails
  <2>2. work # <<>> /\ Head(work).op = "remove"
    BY <1>1, <2>1 DEF Phases
  <2>3. Head(work).op # "add" /\ 1 \in DOMAIN work /\ Head(work) = work[1]
    BY <1>1, <2>2, WorkFact
  <2>4. phase = "live"
    BY <1>1, <2>2, <2>3 DEF Phases, Typed
  <2>5. QED
    BY <2>1, <2>4 DEF Phases
<1>14. ASSUME NEW s \in Selectors, Copy(s)
       PROVE  Phases'
  BY <1>2, <1>14 DEF Copy
<1>15. CASE WriteSnapshot
  BY <1>2, <1>15 DEF WriteSnapshot
<1>16. CASE Restart
  BY <1>16 DEF Restart, Phases
<1>17. CASE UNCHANGED vars
  BY <1>2, <1>17 DEF vars
<1>18. QED
  BY <1>3, <1>4, <1>5, <1>6, <1>7, <1>8, <1>9, <1>10, <1>11, <1>12, <1>13, <1>14, <1>15,
     <1>16, <1>17 DEF Next, Writes

(* The parts of Filed.                                                      *)
CallsFiled  == \A n \in DOMAIN work : work[n].listing.world \in WorldsIn(work[n].sel)
EventsFiled == \A n \in DOMAIN queue : \A l, m \in queue[n].listings : l.world = m.world
AskedFiled  ==
    \A a \in asking :
       /\ quotes[Head(work).sel][Head(work).listing.hq] = {}
       /\ a.left \subseteq WorldsIn(Head(work).sel)
       /\ \A l \in a.found :
             l.world \in WorldsIn(Head(work).sel) /\ l.hq = Head(work).listing.hq

(* Every step keeps calls, events and queries about what they are about.    *)
LEMMA FiledStep ==
    ASSUME Sound, [Next]_vars
    PROVE  Filed'
<1> USE DEF history
<1>1. /\ Typed /\ Phases /\ work \in Seq(Call) /\ Singles
      /\ CallsFiled /\ EventsFiled /\ AskedFiled
  BY DEF Sound, Typed, Filed, CallsFiled, EventsFiled, AskedFiled
<1>2. CallsFiled' /\ EventsFiled' /\ AskedFiled' => Filed'
  BY DEF Filed, CallsFiled, EventsFiled, AskedFiled
<1>3. /\ work' = work => CallsFiled'
      /\ queue' = queue => EventsFiled'
      /\ asking' = {} => AskedFiled'
      /\ UNCHANGED <<asking, work, quotes>> => AskedFiled'
  BY <1>1 DEF CallsFiled, EventsFiled, AskedFiled
<1>4. CASE UNCHANGED <<queue, work, quotes, asking>>
  BY <1>2, <1>3, <1>4
<1>5. ASSUME NEW t \in Tasks, Writes(t)
      PROVE  Filed'
  BY <1>4, <1>5, WriteFact DEF Sound, Written, Others
<1>6. ASSUME NEW t \in Tasks, Tell(t)
      PROVE  Filed'
  <2>1. PICK e \in Events, k \in Task : Told(t, e, k) /\ Event(t) = e
    BY <1>1, <1>6, TellFact DEF Sound, Typed
  <2>2. \A l, m \in e.listings : l.world = m.world
    <3>1. Right(task[t]) /\ (e.type = "Add" \/ e.type = "Remove")
      BY DEF Sound, Events
    <3>2. QED
      BY <2>1, <3>1 DEF Told, Right
  <2>3. EventsFiled'
    <3>1. \A n \in DOMAIN queue' :
             queue'[n] = e \/ \E m \in DOMAIN queue : queue'[n] = queue[m]
      <4>1. Broadcast(e) /\ queue \in Seq(Events)
        BY <1>1, <1>6, <2>1 DEF Tell, Typed
      <4>2. CASE phase = "off"
        BY <4>1, <4>2 DEF Broadcast
      <4>3. CASE phase # "off" /\ Len(queue) = Capacity
        <5>1. queue' = Append(Tail(queue), e) /\ queue # <<>>
          BY <4>1, <4>3, QuotesAssumption DEF Broadcast
        <5>2. Tail(queue) \in Seq(Events)
              /\ \A n \in DOMAIN Tail(queue) : \E m \in DOMAIN queue : Tail(queue)[n] = queue[m]
          BY <4>1, <5>1, TailFact
        <5>3. QED
          BY <5>1, <5>2
      <4>4. CASE phase # "off" /\ Len(queue) # Capacity
        <5>1. queue' = Append(queue, e)
          BY <4>1, <4>4 DEF Broadcast
        <5>2. QED
          BY <4>1, <5>1
      <4>5. QED
        BY <4>2, <4>3, <4>4
    <3>2. QED
      BY <1>1, <2>2, <3>1 DEF EventsFiled
  <2>4. UNCHANGED <<work, quotes, asking>>
    BY <1>6 DEF Tell
  <2>5. QED
    BY <1>2, <1>3, <2>3, <2>4
<1>7. CASE Subscribe \/ Prime
  BY <1>4, <1>7 DEF Subscribe, Prime
<1>8. CASE Load
  <2>1. PICK rows \in SetToSeqs(Summaries) : work' = AddCalls(rows)
    BY <1>8 DEF Load
  <2>2. rows \in Seq(Listings)
    BY <1>1, SummariesFact, RowsFact DEF Typed
  <2>3. CallsFiled'
    BY <2>1, <2>2, AddCallsFact DEF CallsFiled
  <2>4. asking' = {} /\ queue' = queue
    BY <1>1, <1>8 DEF Load, Phases
  <2>5. QED
    BY <1>2, <1>3, <2>3, <2>4
<1>9. CASE LoadStops
  <2>1. asking = {}
    <3>1. work # <<>> /\ \A n \in DOMAIN work : work[n].op = "add"
      BY <1>1, <1>9 DEF LoadStops, Phases
    <3>2. Head(work).op = "add"
      BY <1>1, <3>1, WorkFact
    <3>3. QED
      BY <1>1, <3>2 DEF Phases
  <2>2. work' = <<>> /\ asking' = {} /\ queue' = queue
    BY <1>9, <2>1 DEF LoadStops
  <2>3. CallsFiled'
    BY <2>2 DEF CallsFiled
  <2>4. QED
    BY <1>2, <1>3, <2>2, <2>3
<1>10. CASE Restore
  <2>1. asking' = {} /\ work' = work /\ queue' = queue
    BY <1>1, <1>10 DEF Restore, Phases
  <2>2. QED
    BY <1>2, <1>3, <2>1
<1>11. CASE Receive
  <2>1. CallsFiled'
    BY <1>1, <1>11, ReceiveStep DEF CallsFiled
  <2>2. queue # <<>> /\ queue' = Tail(queue) /\ asking' = {} /\ queue \in Seq(Events)
    BY <1>1, <1>11 DEF Receive, Phases, Typed
  <2>3. EventsFiled'
    BY <1>1, <2>2, TailFact DEF EventsFiled
  <2>4. QED
    BY <1>2, <2>1, <2>2, <2>3 DEF AskedFiled
<1>12. CASE CallAdd
  <2>1. work # <<>> /\ work' = Tail(work) /\ asking' = {} /\ queue' = queue
    BY <1>1, <1>12 DEF CallAdd, Phases
  <2>2. CallsFiled'
    BY <1>1, <2>1, LeftFact DEF CallsFiled
  <2>3. QED
    BY <1>2, <1>3, <2>1, <2>2
<1>13. CASE CallRemove
  <2>1. queue' = queue
    BY <1>13 DEF CallRemove
  <2>2. PICK s \in Selectors, l \in Listings :
           /\ work # <<>> /\ Head(work).sel = s /\ Head(work).listing = l
           /\ Drops(s, l) \/ Passes(s, l)
    BY <1>1, <1>13, RemoveStep
  <2>3. CASE Drops(s, l)
    <3>1. /\ work' = work /\ quotes'[s][l.hq] = {}
          /\ asking' = {[left |-> WorldsIn(s), found |-> {}]}
      BY <2>3 DEF Drops, Sets
    <3>2. AskedFiled'
      BY <2>2, <3>1 DEF AskedFiled
    <3>3. QED
      BY <1>2, <1>3, <2>1, <3>1, <3>2
  <2>4. CASE Passes(s, l)
    <3>1. work' = Tail(work) /\ asking' = {}
      BY <2>4 DEF Passes
    <3>2. CallsFiled'
      BY <1>1, <2>2, <3>1, LeftFact DEF CallsFiled
    <3>3. QED
      BY <1>2, <1>3, <2>1, <3>1, <3>2
  <2>5. QED
    BY <2>2, <2>3, <2>4
<1>14. ASSUME NEW w \in Worlds, Answer(w)
       PROVE  Filed'
  <2>1. PICK h : h = Head(work)
    OBVIOUS
  <2>2. /\ UNCHANGED <<queue, work, quotes>>
        /\ \E a \in asking :
              /\ w \in a.left
              /\ \/ asking' = {[a EXCEPT !.left = @ \ {w}]}
                 \/ \E l \in live : /\ l.world = w /\ l.hq = h.listing.hq
                                    /\ asking' = {[left |-> a.left \ {w}, found |-> a.found \cup {l}]}
    BY <1>14, <2>1 DEF Answer, Cheapest
  <2>3. PICK a \in asking :
              /\ w \in a.left
              /\ \/ asking' = {[a EXCEPT !.left = @ \ {w}]}
                 \/ \E l \in live : /\ l.world = w /\ l.hq = h.listing.hq
                                    /\ asking' = {[left |-> a.left \ {w}, found |-> a.found \cup {l}]}
    BY <2>2
  <2>4. /\ quotes[h.sel][h.listing.hq] = {} /\ a.left \subseteq WorldsIn(h.sel)
        /\ \A l \in a.found : l.world \in WorldsIn(h.sel) /\ l.hq = h.listing.hq
        /\ a \in Query
    BY <1>1, <2>1 DEF AskedFiled, Typed
  <2>5. \A b \in asking' :
           /\ b.left \subseteq WorldsIn(h.sel)
           /\ \A l \in b.found : l.world \in WorldsIn(h.sel) /\ l.hq = h.listing.hq
    BY <2>3, <2>4 DEF Query
  <2>6. AskedFiled'
    BY <2>1, <2>2, <2>4, <2>5 DEF AskedFiled
  <2>7. QED
    BY <1>2, <1>3, <2>2, <2>6
<1>15. CASE Requoted \/ AskFails
  <2>1. asking # {} /\ asking' = {} /\ work' = Tail(work) /\ queue' = queue
    BY <1>15 DEF Requoted, AskFails
  <2>2. work # <<>>
    BY <1>1, <2>1 DEF Phases
  <2>3. CallsFiled'
    BY <1>1, <2>1, <2>2, LeftFact DEF CallsFiled
  <2>4. QED
    BY <1>2, <1>3, <2>1, <2>3
<1>16. ASSUME NEW s \in Selectors, Copy(s)
       PROVE  Filed'
  BY <1>4, <1>16 DEF Copy
<1>17. CASE WriteSnapshot
  BY <1>4, <1>17 DEF WriteSnapshot
<1>18. CASE Restart
  BY <1>18 DEF Restart, Filed
<1>19. CASE UNCHANGED vars
  BY <1>4, <1>19 DEF vars
<1>20. QED
  BY <1>5, <1>6, <1>7, <1>8, <1>9, <1>10, <1>11, <1>12, <1>13, <1>14, <1>15, <1>16, <1>17,
     <1>18, <1>19 DEF Next, Writes

-----------------------------------------------------------------------------
(* What is offered, queued or found still stands.                           *)

CallsStand  == \A n \in DOMAIN work : work[n].op = "add" => Stands(work[n].listing, 0)
EventsStand == \A n \in DOMAIN queue : queue[n].type = "Add" =>
                  \A l \in queue[n].listings : Stands(l, n)
AskedStand  == \A a \in asking : \A l \in a.found : Stands(l, 0)

(* The listings of calls, events and queries.                               *)
LEMMA ListingsFact ==
    ASSUME Typed
    PROVE  /\ \A n \in DOMAIN work : work[n] \in Call /\ work[n].listing \in Listings
           /\ \A n \in DOMAIN queue : queue[n] \in Events /\ queue[n].listings \subseteq Listings
           /\ \A a \in asking : a.found \subseteq Listings
           /\ \A t \in Tasks : task[t] \in Task /\ task[t].removed \subseteq Listings
                                /\ task[t].inserted \subseteq Listings
<1>1. /\ work \in Seq(Call) /\ queue \in Seq(Events) /\ asking \subseteq Query
      /\ task \in [Tasks -> Task]
  BY DEF Typed
<1>2. \A n \in DOMAIN work : work[n] \in Call /\ work[n].listing \in Listings
  <2>1. \A n \in DOMAIN work : work[n] \in Call
    BY <1>1
  <2>2. QED
    BY <2>1 DEF Call
<1>3. \A n \in DOMAIN queue : queue[n] \in Events /\ queue[n].listings \subseteq Listings
  <2>1. \A n \in DOMAIN queue : queue[n] \in Events
    BY <1>1
  <2>2. QED
    BY <2>1 DEF Events
<1>4. \A a \in asking : a.found \subseteq Listings
  BY <1>1 DEF Query
<1>5. \A t \in Tasks : task[t] \in Task /\ task[t].removed \subseteq Listings
                        /\ task[t].inserted \subseteq Listings
  BY <1>1 DEF Task
<1>6. QED
  BY <1>2, <1>3, <1>4, <1>5

(* A task that sends an event to an analyzer that keeps up.                 *)
LEMMA SendFact ==
    ASSUME Sound, NEW t \in Tasks, Tell(t), phase # "off", ~lost'
    PROVE  \E e \in Events, k \in Task :
              /\ Told(t, e, k) /\ ~lost /\ queue' = Append(queue, e) /\ live' = live
              /\ e.type = "Add" => unsaid' = unsaid \cup (e.listings \ live)
              /\ e.type = "Remove" => unsaid' = unsaid \ (e.listings \ live)
              /\ task'[t] = k /\ \A v \in Tasks : v # t => task'[v] = task[v]
<1>1. /\ Right(task[t]) /\ task \in [Tasks -> Task]
      /\ queue \in Seq(Events) /\ Len(queue) <= Capacity /\ lost \in BOOLEAN
  BY DEF Sound, Typed
<1>2. PICK e \in Events, k \in Task :
         Told(t, e, k) /\ Event(t) = e /\ task' = [task EXCEPT ![t] = k]
  BY <1>1, TellFact
<1>3. Broadcast(e) /\ live' = live
  BY <1>2 DEF Tell
<1>4. ~lost /\ queue' = Append(queue, e)
  BY <1>1, <1>3, BroadcastFact
<1>5. task'[t] = k /\ \A v \in Tasks : v # t => task'[v] = task[v]
  BY <1>1, <1>2, TaskFact
<1>6. /\ e.type = "Add" => unsaid' = unsaid \cup (e.listings \ live)
      /\ e.type = "Remove" => unsaid' = unsaid \ (e.listings \ live)
  BY <1>2 DEF Tell
<1>7. QED
  BY <1>2, <1>3, <1>4, <1>5, <1>6

(* A task that sends nothing.                                               *)
LEMMA QuietFact ==
    ASSUME Sound, NEW t \in Tasks, Writes(t)
    PROVE  \E k \in Task :
              /\ Written(t, k)
              /\ task'[t] = k /\ \A v \in Tasks : v # t => task'[v] = task[v]
<1>1. Typed /\ Right(task[t]) /\ task \in [Tasks -> Task]
  BY DEF Sound, Typed
<1>2. PICK k \in Task : task' = [task EXCEPT ![t] = k] /\ Written(t, k)
  BY <1>1, WriteFact
<1>3. QED
  BY <1>1, <1>2, TaskFact

(* Steps of a task: a listing that stands behind some events of the bus     *)
(* stands there after the step.                                             *)
LEMMA TaskStands ==
    ASSUME Sound, ~lost', phase # "off", NEW t \in Tasks, Writes(t) \/ Tell(t),
           NEW l \in Listings, NEW n \in {0} \cup DOMAIN queue, Stands(l, n)
    PROVE  Stands(l, n)'
<1>1. queue \in Seq(Events)
  BY DEF Sound, Typed
<1>2. CASE Writes(t)
  <2>1. PICK k \in Task : /\ Written(t, k) /\ task'[t] = k
                          /\ \A v \in Tasks : v # t => task'[v] = task[v]
    BY <1>2, QuietFact
  <2>2. /\ queue' = queue
        /\ l \in live \cup unsaid \/ Takes(task[t], l) => l \in live' \cup unsaid' \/ Takes(k, l)
    BY <2>1 DEF Written, Others
  <2>3. CASE l \in live \cup unsaid \/ Takes(task[t], l)
    BY <2>1, <2>2, <2>3 DEF Stands, Gone
  <2>4. CASE \E m \in DOMAIN queue : m > n /\ queue[m].type = "Remove" /\ l \in queue[m].listings
    BY <2>2, <2>4 DEF Stands, Gone
  <2>5. ASSUME NEW v \in Tasks, v # t, Takes(task[v], l)
        PROVE  Stands(l, n)'
    BY <2>1, <2>5 DEF Stands, Gone
  <2>6. QED
    BY <2>3, <2>4, <2>5 DEF Stands, Gone
<1>3. CASE Tell(t)
  <2>1. PICK e \in Events, k \in Task :
           /\ Told(t, e, k) /\ ~lost /\ queue' = Append(queue, e) /\ live' = live
           /\ e.type = "Add" => unsaid' = unsaid \cup (e.listings \ live)
           /\ e.type = "Remove" => unsaid' = unsaid \ (e.listings \ live)
           /\ task'[t] = k /\ \A v \in Tasks : v # t => task'[v] = task[v]
    BY <1>3, SendFact
  <2>2. /\ \A m \in DOMAIN queue : m \in DOMAIN queue' /\ queue'[m] = queue[m]
        /\ Len(queue) + 1 \in DOMAIN queue' /\ queue'[Len(queue) + 1] = e
        /\ Len(queue) + 1 > n
    BY <1>1, <2>1
  <2>3. e.type = "Add" \/ e.type = "Remove"
    BY DEF Events
  <2>4. ASSUME e.type = "Remove", l \in e.listings
        PROVE  Stands(l, n)'
    BY <2>2, <2>4 DEF Stands, Gone
  <2>5. CASE l \in live \cup unsaid
    <3>1. l \in live' \cup unsaid' \/ (e.type = "Remove" /\ l \in e.listings)
      BY <2>1, <2>3, <2>5
    <3>2. QED
      BY <2>4, <3>1 DEF Stands
  <2>6. CASE \E m \in DOMAIN queue : m > n /\ queue[m].type = "Remove" /\ l \in queue[m].listings
    BY <2>2, <2>6 DEF Stands, Gone
  <2>7. ASSUME NEW v \in Tasks, v # t, Takes(task[v], l)
        PROVE  Stands(l, n)'
    BY <2>1, <2>7 DEF Stands, Gone
  <2>8. CASE Takes(task[t], l)
    <3>1. CASE e.type = "Remove"
      BY <2>1, <2>4, <2>8, <3>1 DEF Told, Takes
    <3>2. CASE e.type = "Add"
      <4>1. k.order = <<"Remove">> /\ l \in k.removed
        BY <2>1, <2>8, <3>2 DEF Told, Takes
      <4>2. Takes(k, l)
        BY <4>1 DEF Takes, Sends
      <4>3. QED
        BY <2>1, <4>2 DEF Stands, Gone
    <3>3. QED
      BY <2>3, <3>1, <3>2
  <2>9. QED
    BY <2>5, <2>6, <2>7, <2>8 DEF Stands, Gone
<1>4. QED
  BY <1>2, <1>3

(* When the first event of the bus is taken, the others move up.            *)
LEMMA ShiftFact ==
    ASSUME NEW l, NEW k \in Int, k >= 0, Gone(l, k + 1),
           queue \in Seq(Events), queue # <<>>, queue' = Tail(queue), task' = task
    PROVE  Gone(l, k)'
<1>1. /\ \A n \in DOMAIN queue : n # 1 => n - 1 \in DOMAIN queue' /\ queue'[n - 1] = queue[n]
      /\ \A n \in DOMAIN queue : n \in Int
  BY TailFact
<1>2. CASE \E m \in DOMAIN queue :
              m > k + 1 /\ queue[m].type = "Remove" /\ l \in queue[m].listings
  <2>1. PICK m \in DOMAIN queue :
              m > k + 1 /\ queue[m].type = "Remove" /\ l \in queue[m].listings
    BY <1>2
  <2>2. m \in Int
    BY <1>1
  <2>3. m # 1 /\ m - 1 > k
    BY <2>1, <2>2
  <2>4. m - 1 \in DOMAIN queue' /\ queue'[m - 1] = queue[m]
    BY <1>1, <2>3
  <2>5. QED
    BY <2>1, <2>3, <2>4 DEF Gone
<1>3. QED
  BY <1>2 DEF Gone

(* After a step of a task, what the analyzer has stands.                    *)
LEMMA TaskStanding ==
    ASSUME Sound, Standing, NEW t \in Tasks, Writes(t) \/ Tell(t)
    PROVE  Standing'
<1>1. Typed /\ Phases /\ queue \in Seq(Events)
  BY DEF Sound, Typed
<1>2. UNCHANGED <<work, asking>>
  BY QuietFact DEF Written, Others, Tell
<1>3. CASE phase = "off"
  <2>1. work' = <<>> /\ asking' = {} /\ queue' = <<>>
    BY <1>1, <1>2, <1>3, QuietFact DEF Phases, Tell, Broadcast, Written, Others
  <2>2. QED
    BY <2>1 DEF Standing
<1>4. CASE phase # "off"
  <2> SUFFICES ASSUME ~lost' PROVE Standing'
    BY DEF Standing
  <2>1. \A l \in Listings, n \in {0} \cup DOMAIN queue : Stands(l, n) => Stands(l, n)'
    BY <1>4, TaskStands
  <2>2. ~lost /\ EventsStand /\ CallsStand /\ AskedStand
    <3>1. ~lost
      BY QuietFact, SendFact, <1>4 DEF Written, Others
    <3>2. QED
      BY <3>1 DEF Standing, EventsStand, CallsStand, AskedStand
  <2>3. CallsStand' /\ AskedStand'
    BY <1>1, <1>2, <2>1, <2>2, ListingsFact DEF CallsStand, AskedStand
  <2>4. \A n \in DOMAIN queue : queue[n].type = "Add" =>
           \A l \in queue[n].listings : Stands(l, n)'
    BY <1>1, <2>1, <2>2, ListingsFact DEF EventsStand
  <2>5. EventsStand'
    <3>1. CASE Writes(t)
      <4>1. queue' = queue
        BY <3>1, QuietFact DEF Written, Others
      <4>2. QED
        BY <2>4, <4>1 DEF EventsStand
    <3>2. CASE Tell(t)
      <4>1. PICK e \in Events :
               /\ queue' = Append(queue, e) /\ live' = live
               /\ e.type = "Add" => unsaid' = unsaid \cup (e.listings \ live)
        BY <1>4, <3>2, SendFact
      <4>2. \A n \in DOMAIN queue' : (n \in DOMAIN queue /\ queue'[n] = queue[n]) \/ queue'[n] = e
        BY <1>1, <4>1
      <4>3. e.type = "Add" => \A l \in e.listings : l \in live' \cup unsaid'
        BY <4>1
      <4>4. ASSUME NEW n \in DOMAIN queue', queue'[n].type = "Add", NEW l \in queue'[n].listings
            PROVE  Stands(l, n)'
        <5>1. CASE n \in DOMAIN queue /\ queue'[n] = queue[n]
          BY <2>4, <4>4, <5>1
        <5>2. CASE queue'[n] = e
          BY <4>3, <4>4, <5>2 DEF Stands
        <5>3. QED
          BY <4>2, <5>1, <5>2
      <4>5. QED
        BY <4>4 DEF EventsStand
    <3>3. QED
      BY <3>1, <3>2
  <2>6. QED
    BY <2>3, <2>5 DEF Standing, EventsStand, CallsStand, AskedStand
<1>5. QED
  BY <1>3, <1>4

(* Every step keeps it standing.                                            *)
LEMMA StandingStep ==
    ASSUME Sound, Standing, [Next]_vars
    PROVE  Standing'
<1> USE DEF history
<1>1. /\ Typed /\ Phases /\ work \in Seq(Call) /\ queue \in Seq(Events)
      /\ \A n \in DOMAIN work : work[n] \in Call /\ work[n].listing \in Listings
      /\ \A n \in DOMAIN queue : queue[n] \in Events /\ queue[n].listings \subseteq Listings
      /\ \A a \in asking : a.found \subseteq Listings
  BY ListingsFact DEF Sound, Typed
<1>2. ~lost => EventsStand /\ CallsStand /\ AskedStand
  BY DEF Standing, EventsStand, CallsStand, AskedStand
<1>3. (~lost' => EventsStand' /\ CallsStand' /\ AskedStand') => Standing'
  BY DEF Standing, EventsStand, CallsStand, AskedStand
<1>4. ASSUME UNCHANGED <<live, unsaid, task, queue, lost>>
      PROVE  /\ ~lost' => EventsStand'
             /\ \A l, k : Stands(l, k)' <=> Stands(l, k)
             /\ asking' = asking => (~lost' => AskedStand')
             /\ asking' = {} => AskedStand'
             /\ work' = work => (~lost' => CallsStand')
             /\ work' = <<>> => CallsStand'
  <2>1. \A l, k : Stands(l, k)' <=> Stands(l, k)
    BY <1>4 DEF Stands, Gone
  <2>2. QED
    BY <1>2, <1>4, <2>1 DEF EventsStand, AskedStand, CallsStand
<1>5. ASSUME UNCHANGED <<live, unsaid, task, queue, lost>>, work # <<>>, work' = Tail(work)
      PROVE  ~lost' => CallsStand'
  <2>1. \A n \in DOMAIN work' : n + 1 \in DOMAIN work /\ work'[n] = work[n + 1]
    BY <1>1, <1>5, LeftFact
  <2>2. \A l, k : Stands(l, k)' <=> Stands(l, k)
    BY <1>4, <1>5
  <2>3. QED
    BY <1>2, <1>5, <2>1, <2>2 DEF CallsStand
<1>6. CASE UNCHANGED <<live, unsaid, task, queue, lost, work, asking>>
  BY <1>3, <1>4, <1>6
<1>7. ASSUME NEW t \in Tasks, Writes(t) \/ Tell(t)
      PROVE  Standing'
  BY <1>7, TaskStanding
<1>8. CASE Subscribe \/ Prime \/ Restore \/ WriteSnapshot
  BY <1>6, <1>8 DEF Subscribe, Prime, Restore, WriteSnapshot
<1>9. CASE Load
  <2>1. UNCHANGED <<live, unsaid, task, queue, lost, asking>>
    BY <1>9 DEF Load
  <2>2. PICK rows \in SetToSeqs(Summaries) : work' = AddCalls(rows)
    BY <1>9 DEF Load
  <2>3. rows \in Seq(Listings) /\ \A k \in DOMAIN rows : rows[k] \in live
    BY <1>1, SummariesFact, RowsFact DEF Typed
  <2>4. \A n \in DOMAIN work' : \E k \in DOMAIN rows : work'[n].listing = rows[k]
    BY <2>2, <2>3, AddCallsFact
  <2>5. \A n \in DOMAIN work' : work'[n].listing \in live'
    BY <2>1, <2>3, <2>4
  <2>6. CallsStand'
    BY <2>5 DEF CallsStand, Stands
  <2>7. QED
    BY <1>3, <1>4, <2>1, <2>6
<1>10. CASE LoadStops
  <2>1. UNCHANGED <<live, unsaid, task, queue, lost, asking>> /\ work' = <<>>
    BY <1>10 DEF LoadStops
  <2>2. QED
    BY <1>3, <1>4, <2>1
<1>11. CASE Receive
  <2>1. UNCHANGED <<live, unsaid, task, lost>> /\ asking' = {}
    BY <1>1, <1>11 DEF Receive, Phases
  <2> SUFFICES ASSUME ~lost' PROVE EventsStand' /\ CallsStand'
    BY <1>3, <2>1 DEF AskedStand
  <2>2. ~lost /\ EventsStand
    BY <1>2, <2>1
  <2>3. queue # <<>> /\ queue' = Tail(queue)
    BY <1>11 DEF Receive
  <2>4. /\ \A n \in DOMAIN queue' : n + 1 \in DOMAIN queue /\ queue'[n] = queue[n + 1] /\ n \in Int
        /\ 1 \in DOMAIN queue
    BY <1>1, <2>3, TailFact
  <2>5. ASSUME NEW l, NEW k \in Int, k >= 0, Stands(l, k + 1)
        PROVE  Stands(l, k)'
    BY <1>1, <2>1, <2>3, <2>5, ShiftFact DEF Stands
  <2>6. EventsStand'
    <3> SUFFICES ASSUME NEW n \in DOMAIN queue', queue'[n].type = "Add", NEW l \in queue'[n].listings
                 PROVE  Stands(l, n)'
      BY DEF EventsStand
    <3>1. n + 1 \in DOMAIN queue /\ queue'[n] = queue[n + 1] /\ n \in Int
      BY <2>4
    <3>2. Stands(l, n + 1)
      BY <2>2, <3>1 DEF EventsStand
    <3>3. n >= 0
      BY <1>1, <2>3
    <3>4. QED
      BY <2>5, <3>1, <3>2, <3>3
  <2>7. CallsStand'
    <3>1. PICK e \in Events :
             /\ e = queue[1]
             /\ e.type = "Add" =>
                   \/ work' = <<>>
                   \/ \E l \in Cheapest(e.listings) : \A n \in DOMAIN work' : work'[n].listing = l
             /\ e.type # "Add" => \A n \in DOMAIN work' : work'[n].op = "remove"
      BY <1>1, <1>11, ReceiveStep
    <3>2. CASE e.type # "Add"
      BY <3>1, <3>2 DEF CallsStand
    <3>3. CASE e.type = "Add" /\ work' = <<>>
      BY <3>3 DEF CallsStand
    <3>4. ASSUME e.type = "Add",
                 NEW l \in Cheapest(e.listings), \A n \in DOMAIN work' : work'[n].listing = l
          PROVE  CallsStand'
      <4>1. Stands(l, 0 + 1)
        BY <2>2, <2>4, <3>1, <3>4 DEF EventsStand, Cheapest
      <4>2. Stands(l, 0)'
        <5>1. 0 \in Int /\ 0 >= 0
          OBVIOUS
        <5>2. QED
          BY <2>5, <4>1, <5>1
      <4>3. QED
        BY <3>4, <4>2 DEF CallsStand
    <3>5. QED
      BY <3>1, <3>2, <3>3, <3>4
  <2>8. QED
    BY <2>6, <2>7
<1>12. CASE CallAdd
  <2>1. UNCHANGED <<live, unsaid, task, queue, lost, asking>> /\ work # <<>> /\ work' = Tail(work)
    BY <1>12 DEF CallAdd
  <2>2. QED
    BY <1>3, <1>4, <1>5, <2>1
<1>13. CASE CallRemove
  <2>1. UNCHANGED <<live, unsaid, task, queue, lost>> /\ work # <<>>
    BY <1>13 DEF CallRemove
  <2>2. \/ work' = work /\ \E s : asking' = {[left |-> WorldsIn(s), found |-> {}]}
        \/ work' = Tail(work) /\ asking' = {}
    BY <1>1, <1>13, RemoveStep DEF Drops, Passes
  <2>3. AskedStand'
    BY <2>2 DEF AskedStand
  <2>4. QED
    BY <1>3, <1>4, <1>5, <2>1, <2>2, <2>3
<1>14. ASSUME NEW w \in Worlds, Answer(w)
       PROVE  Standing'
  <2>1. UNCHANGED <<live, unsaid, task, queue, lost, work>>
    BY <1>14 DEF Answer
  <2>2. PICK a \in asking :
           \/ asking' = {[a EXCEPT !.left = @ \ {w}]}
           \/ \E l \in live : asking' = {[left |-> a.left \ {w}, found |-> a.found \cup {l}]}
    BY <1>14 DEF Answer, Cheapest
  <2>3. a \in Query
    BY <1>1 DEF Typed
  <2>4. \A b \in asking' : \A l \in b.found : l \in a.found \/ l \in live
    BY <2>2, <2>3 DEF Query
  <2>5. ~lost' => AskedStand'
    <3>1. \A l \in live : Stands(l, 0)
      BY DEF Stands
    <3>2. QED
      BY <1>2, <1>4, <2>1, <2>4, <3>1 DEF AskedStand
  <2>6. QED
    BY <1>3, <1>4, <2>1, <2>5
<1>15. CASE Requoted \/ AskFails
  <2>1. /\ UNCHANGED <<live, unsaid, task, queue, lost>> /\ asking # {} /\ asking' = {}
        /\ work' = Tail(work)
    BY <1>15 DEF Requoted, AskFails
  <2>2. work # <<>>
    BY <1>1, <2>1 DEF Phases
  <2>3. QED
    BY <1>3, <1>4, <1>5, <2>1, <2>2
<1>16. ASSUME NEW s \in Selectors, Copy(s)
       PROVE  Standing'
  BY <1>6, <1>16 DEF Copy
<1>17. CASE Restart
  BY <1>17 DEF Restart, Standing
<1>18. CASE UNCHANGED vars
  BY <1>6, <1>18 DEF vars
<1>19. QED
  BY <1>7, <1>8, <1>9, <1>10, <1>11, <1>12, <1>13, <1>14, <1>15, <1>16, <1>17, <1>18 DEF Next, Writes

-----------------------------------------------------------------------------
(* Why a quote is there.                                                    *)

Explained(s, q, c) == \E l \in Listings : Explains(l, s, q, c)

(* The prices of quotes and listings are numbers.                           *)
LEMMA PriceFact ==
    /\ \A l \in Listings : l.price \in Int /\ Quote(l).price = l.price
                           /\ l.hq \in Qualities /\ l.world \in Worlds
    /\ \A c \in Quotations : c.price \in Int
    /\ \A s \in Selectors, q \in Qualities : Typed => quotes[s][q] \subseteq Quotations
<1>1. /\ \A l \in Listings : l.price \in Int /\ Quote(l).price = l.price
                             /\ l.hq \in Qualities /\ l.world \in Worlds
      /\ \A c \in Quotations : c.price \in Int
  BY QuotesAssumption DEF Quotations, Quote, Qualities
<1>2. \A s \in Selectors, q \in Qualities : Typed => quotes[s][q] \subseteq Quotations
  BY DEF Typed, Board, Quoted
<1>3. QED
  BY <1>1, <1>2

(* A quote that nobody touches stays explained, when calls that do not      *)
(* explain it are done, when the tasks go on and when an event is taken.    *)
LEMMA ExplainedKept ==
    ASSUME NEW s \in Selectors, NEW q \in Qualities, NEW c \in Quotations,
           Explained(s, q, c),
           \A l \in Listings : Stands(l, 0) =>
              Stands(l, 0)' \/ (l.world \in WorldsIn(s) => Removing(l, s)'),
           \A l \in Listings : l.hq = q /\ Quote(l) = c /\ Removing(l, s) => Removing(l, s)'
    PROVE  Explained(s, q, c)'
BY DEF Explained, Explains

(* The calls that are left when the first is done.                          *)
LEMMA RemovingFact ==
    ASSUME work \in Seq(Call), work # <<>>, work' = Tail(work), NEW l, NEW s, Removing(l, s)
    PROVE  \/ Removing(l, s)'
           \/ Head(work).op = "remove" /\ Head(work).sel = s /\ Head(work).listing = l
<1>1. PICK n \in DOMAIN work :
         work[n].op = "remove" /\ work[n].sel = s /\ work[n].listing = l
  BY DEF Removing
<1>2. CASE n = 1
  BY <1>1, <1>2, WorkFact
<1>3. CASE n # 1
  BY <1>1, <1>3, LeftFact DEF Removing
<1>4. QED
  BY <1>2, <1>3

(* Every step keeps the quotes explained.                                   *)
LEMMA BackedStep ==
    ASSUME IInv, [Next]_vars
    PROVE  BackedOrDoomed'
<1> USE DEF history
<1>1. /\ Sound /\ Typed /\ Phases /\ Singles /\ Standing
      /\ work \in Seq(Call) /\ queue \in Seq(Events) /\ lost \in BOOLEAN
  BY DEF IInv, Sound, Typed
<1>2. ~lost => \A s \in Selectors, q \in Qualities : \A c \in quotes[s][q] :
                  c \in Quotations /\ (Explained(s, q, c) \/ q \in untouched[s])
  BY <1>1, PriceFact DEF IInv, BackedOrDoomed, Explained
<1>3. (~lost' => \A s \in Selectors, q \in Qualities : \A c \in quotes'[s][q] :
                  Explained(s, q, c)' \/ q \in untouched'[s]) => BackedOrDoomed'
  BY DEF BackedOrDoomed, Explained
<1>4. ASSUME quotes' = NoQuotes
      PROVE  BackedOrDoomed'
  BY <1>4 DEF BackedOrDoomed, NoQuotes
<1>5. CASE UNCHANGED <<live, unsaid, task, queue, work, quotes, lost, untouched>>
  BY <1>5 DEF IInv, BackedOrDoomed, Explains, Stands, Gone, Removing
<1>6. ASSUME UNCHANGED <<live, unsaid, task, queue>>
      PROVE  \A l \in Listings : Stands(l, 0) <=> Stands(l, 0)'
  BY <1>6 DEF Gone, Stands
<1>7. ASSUME NEW t \in Tasks, Writes(t) \/ Tell(t)
      PROVE  BackedOrDoomed'
  <2>1. UNCHANGED <<quotes, work, untouched>>
    BY <1>1, <1>7, QuietFact DEF Written, Others, Tell
  <2>2. CASE phase = "off"
    BY <1>1, <1>4, <2>1, <2>2 DEF Phases
  <2>3. CASE phase # "off"
    <3> SUFFICES ASSUME ~lost' PROVE BackedOrDoomed'
      BY <1>3
    <3>1. \A l \in Listings : Stands(l, 0) => Stands(l, 0)'
      BY <1>1, <1>7, <2>3, TaskStands
    <3>2. ~lost
      BY <1>1, <1>7, <2>3, QuietFact, SendFact DEF Written, Others
    <3>3. \A l, s : Removing(l, s) => Removing(l, s)'
      BY <2>1 DEF Removing
    <3>4. ASSUME NEW s \in Selectors, NEW q \in Qualities, NEW c \in quotes'[s][q],
                 q \notin untouched'[s]
          PROVE  Explained(s, q, c)'
      <4>1. c \in quotes[s][q] /\ c \in Quotations /\ Explained(s, q, c)
        BY <1>2, <2>1, <3>2, <3>4
      <4>2. QED
        BY <3>1, <3>3, <4>1, ExplainedKept
    <3>5. QED
      BY <1>3, <3>4
  <2>4. QED
    BY <2>2, <2>3
<1>8. CASE Subscribe \/ Prime \/ WriteSnapshot
  BY <1>5, <1>8 DEF Subscribe, Prime, WriteSnapshot
<1>9. CASE Load
  BY <1>1, <1>4, <1>9 DEF Load, Phases
<1>10. CASE LoadStops
  <2>1. UNCHANGED <<live, unsaid, task, queue, quotes, lost, untouched>>
    BY <1>10 DEF LoadStops
  <2>2. \A l, s : ~Removing(l, s)
    BY <1>1, <1>10 DEF LoadStops, Phases, Removing
  <2>3. ASSUME ~lost', NEW s \in Selectors, NEW q \in Qualities, NEW c \in quotes'[s][q],
               q \notin untouched'[s]
        PROVE  Explained(s, q, c)'
    <3>1. c \in Quotations /\ Explained(s, q, c)
      BY <1>2, <2>1, <2>3
    <3>2. QED
      BY <1>6, <2>1, <2>2, <3>1, ExplainedKept
  <2>4. QED
    BY <1>3, <2>3
<1>11. CASE Restore
  <2>1. untouched' = [s \in Selectors |-> Qualities]
    BY <1>11 DEF Restore
  <2>2. QED
    BY <1>3, <2>1
<1>12. CASE Receive
  <2>1. UNCHANGED <<live, unsaid, task, quotes, lost, untouched>>
    BY <1>12 DEF Receive
  <2>2. PICK e \in Events :
           /\ queue # <<>> /\ e = queue[1] /\ work = <<>> /\ queue' = Tail(queue)
           /\ e.type # "Add" =>
                 \A l \in e.listings, s \in Selectors : l.world \in WorldsIn(s) =>
                    \E n \in DOMAIN work' : /\ work'[n].op = "remove"
                                            /\ work'[n].sel = s /\ work'[n].listing = l
    BY <1>1, <1>12, ReceiveStep
  <2>3. \A l, s : ~Removing(l, s)
    BY <2>2 DEF Removing
  <2>4. ASSUME NEW l \in Listings, Stands(l, 0), NEW s \in Selectors, l.world \in WorldsIn(s)
        PROVE  Stands(l, 0)' \/ Removing(l, s)'
    <3>0. CASE l \in live \cup unsaid
      BY <2>1, <3>0 DEF Stands
    <3>1. CASE Gone(l, 0 + 1)
      <4>1. 0 \in Int /\ 0 >= 0
        OBVIOUS
      <4>2. QED
        BY <1>1, <2>1, <2>2, <3>1, <4>1, ShiftFact DEF Stands
    <3>2. CASE l \notin live \cup unsaid /\ ~ Gone(l, 0 + 1)
      <4>1. PICK m \in DOMAIN queue :
               m > 0 /\ queue[m].type = "Remove" /\ l \in queue[m].listings
        BY <2>4, <3>2 DEF Gone, Stands
      <4>2. ~ (m > 0 + 1)
        BY <3>2, <4>1 DEF Gone
      <4>3. m = 1
        BY <1>1, <4>1, <4>2
      <4>4. e.type # "Add" /\ l \in e.listings
        BY <2>2, <4>1, <4>3
      <4>5. QED
        BY <2>2, <2>4, <4>4 DEF Removing
    <3>3. QED
      BY <3>0, <3>1, <3>2
  <2>5. ASSUME ~lost', NEW s \in Selectors, NEW q \in Qualities, NEW c \in quotes'[s][q],
               q \notin untouched'[s]
        PROVE  Explained(s, q, c)'
    <3>1. c \in Quotations /\ Explained(s, q, c)
      BY <1>2, <2>1, <2>5
    <3>2. QED
      BY <2>1, <2>3, <2>4, <3>1, ExplainedKept
  <2>6. QED
    BY <1>3, <2>5
<1>13. CASE CallAdd
  <2>1. UNCHANGED <<live, unsaid, task, queue, lost>>
    BY <1>13 DEF CallAdd
  <2> SUFFICES ASSUME ~lost' PROVE BackedOrDoomed'
    BY <1>3
  <2>2. PICK s0 \in Selectors, l0 \in Listings, r \in SUBSET Quotations :
           /\ work # <<>> /\ work' = Tail(work)
           /\ Head(work).op = "add" /\ Head(work).sel = s0 /\ Head(work).listing = l0
           /\ l0.hq \in Qualities /\ quotes[s0][l0.hq] \in SUBSET Quotations
           /\ r = Lowered(quotes[s0][l0.hq], l0) /\ Sets(s0, l0.hq, r)
           /\ Marks(untouched, untouched', s0, l0.hq)
           /\ r # {Quote(l0)} => untouched' = untouched
    BY <1>1, <1>13, AddStep
  <2>3. \A l, s : Removing(l, s) => Removing(l, s)'
    BY <1>1, <2>2, RemovingFact
  <2>4. ASSUME NEW s \in Selectors, NEW q \in Qualities, NEW c \in quotes[s][q],
               q \notin untouched[s]
        PROVE  Explained(s, q, c)'
    <3>1. c \in Quotations /\ Explained(s, q, c)
      BY <1>2, <2>1, <2>4
    <3>2. QED
      BY <1>6, <2>1, <2>3, <3>1, ExplainedKept
  <2>5. Stands(l0, 0)' /\ l0.world \in WorldsIn(s0)
    <3>1. 1 \in DOMAIN work /\ Head(work) = work[1]
      BY <1>1, <2>2, WorkFact
    <3>2. Stands(l0, 0)
      BY <1>1, <2>1, <2>2, <3>1 DEF Standing
    <3>3. l0.world \in WorldsIn(s0)
      BY <1>1, <2>2, <3>1 DEF Sound, Filed
    <3>4. QED
      BY <1>6, <2>1, <3>2, <3>3
  <2>6. ASSUME NEW s \in Selectors, NEW q \in Qualities, NEW c \in quotes'[s][q],
               q \notin untouched'[s]
        PROVE  Explained(s, q, c)'
    <3>1. CASE <<s, q>> # <<s0, l0.hq>>
      BY <2>2, <2>4, <2>6, <3>1 DEF Sets, Marks
    <3>2. CASE s = s0 /\ q = l0.hq /\ r = {Quote(l0)}
      <4>1. c = Quote(l0)
        BY <2>2, <2>6, <3>2 DEF Sets
      <4>2. Explained(s0, l0.hq, Quote(l0))'
        BY <2>5 DEF Explained, Explains
      <4>3. QED
        BY <3>2, <4>1, <4>2
    <3>3. CASE s = s0 /\ q = l0.hq /\ r # {Quote(l0)}
      <4>1. r = quotes[s0][l0.hq]
        BY <2>2, <3>3, LoweredFact
      <4>2. QED
        BY <2>2, <2>4, <2>6, <3>3, <4>1 DEF Sets
    <3>4. QED
      BY <3>1, <3>2, <3>3
  <2>7. QED
    BY <1>3, <2>6
<1>14. CASE CallRemove
  <2>1. UNCHANGED <<live, unsaid, task, queue, lost>>
    BY <1>14 DEF CallRemove
  <2> SUFFICES ASSUME ~lost' PROVE BackedOrDoomed'
    BY <1>3
  <2>2. PICK s0 \in Selectors, l0 \in Listings :
           /\ work # <<>>
           /\ Head(work).op = "remove" /\ Head(work).sel = s0 /\ Head(work).listing = l0
           /\ Drops(s0, l0) \/ Passes(s0, l0)
    BY <1>1, <1>14, RemoveStep
  <2>3. CASE Drops(s0, l0)
    <3>1. ASSUME NEW s \in Selectors, NEW q \in Qualities, NEW c \in quotes'[s][q],
                 q \notin untouched'[s]
          PROVE  Explained(s, q, c)'
      <4>1. <<s, q>> # <<s0, l0.hq>>
        BY <2>3, <3>1 DEF Drops, Sets
      <4>2. c \in quotes[s][q] /\ q \notin untouched[s]
        BY <2>3, <3>1, <4>1 DEF Drops, Sets, Marks
      <4>3. c \in Quotations /\ Explained(s, q, c)
        BY <1>2, <2>1, <4>2
      <4>4. \A l, t : Removing(l, t) => Removing(l, t)'
        BY <2>3 DEF Drops, Removing
      <4>5. QED
        BY <1>6, <2>1, <4>3, <4>4, ExplainedKept
    <3>2. QED
      BY <1>3, <3>1
  <2>4. CASE Passes(s0, l0)
    <3>1. ASSUME NEW s \in Selectors, NEW q \in Qualities, NEW c \in quotes'[s][q],
                 q \notin untouched'[s]
          PROVE  Explained(s, q, c)'
      <4>1. c \in quotes[s][q] /\ q \notin untouched[s]
        BY <2>4, <3>1 DEF Passes
      <4>2. c \in Quotations /\ Explained(s, q, c)
        BY <1>2, <2>1, <4>1
      <4>3. \A l \in Listings : l.hq = q /\ Quote(l) = c /\ Removing(l, s) => Removing(l, s)'
        BY <1>1, <2>2, <2>4, <4>1, RemovingFact, PriceFact DEF Passes
      <4>4. QED
        BY <1>6, <2>1, <4>2, <4>3, ExplainedKept
    <3>2. QED
      BY <1>3, <3>1
  <2>5. QED
    BY <2>2, <2>3, <2>4
<1>15. ASSUME NEW w \in Worlds, Answer(w)
       PROVE  BackedOrDoomed'
  BY <1>5, <1>15 DEF Answer
<1>16. CASE Requoted \/ AskFails
  <2>1. UNCHANGED <<live, unsaid, task, queue, lost, untouched>>
    BY <1>16 DEF Requoted, AskFails
  <2> SUFFICES ASSUME ~lost' PROVE BackedOrDoomed'
    BY <1>3
  <2>2. PICK s0 \in Selectors, l0 \in Listings :
           /\ work # <<>> /\ work' = Tail(work)
           /\ Head(work).op = "remove" /\ Head(work).sel = s0 /\ Head(work).listing = l0
           /\ \A s \in Selectors, q \in Qualities :
                 <<s, q>> # <<s0, l0.hq>> => quotes'[s][q] = quotes[s][q]
           /\ \A c \in quotes'[s0][l0.hq] : \E f \in Listings :
                 f.hq = l0.hq /\ f.world \in WorldsIn(s0) /\ Stands(f, 0) /\ c = Quote(f)
    <3>1. CASE Requoted
      <4>1. PICK s0 \in Selectors, l0 \in Listings, a \in Query, r \in SUBSET Quotations :
               /\ work # <<>> /\ work' = Tail(work)
               /\ Head(work).op = "remove" /\ Head(work).sel = s0 /\ Head(work).listing = l0
               /\ l0.hq \in Qualities
               /\ asking = {a} /\ a.left = {} /\ asking' = {}
               /\ quotes[s0][l0.hq] = {} /\ Sets(s0, l0.hq, r)
               /\ \/ a.found = {} /\ r = {}
                  \/ \E f \in Cheapest(a.found) : r = {Quote(f)}
               /\ Marks(unasked, unasked', s0, l0.hq)
        <5>1. Filed
          BY <1>1 DEF Sound
        <5>2. QED
          BY <1>1, <3>1, <5>1, RequoteStep, Zenon
      <4>2. \A f \in Cheapest(a.found) : f \in Listings /\ f.hq = l0.hq
                                          /\ f.world \in WorldsIn(s0) /\ Stands(f, 0)
        BY <1>1, <2>1, <4>1 DEF Cheapest, Query, Sound, Filed, Standing
      <4>3. \A c \in quotes'[s0][l0.hq] : \E f \in Listings :
               f.hq = l0.hq /\ f.world \in WorldsIn(s0) /\ Stands(f, 0) /\ c = Quote(f)
        BY <4>1, <4>2 DEF Sets
      <4>4. QED
        BY <4>1, <4>3 DEF Sets
    <3>2. CASE AskFails
      <4>1. asking # {} /\ work' = Tail(work) /\ quotes' = quotes
        BY <3>2 DEF AskFails
      <4>2. work # <<>> /\ Head(work).op = "remove"
        BY <1>1, <4>1 DEF Phases
      <4>3. quotes[Head(work).sel][Head(work).listing.hq] = {}
        BY <1>1, <4>1 DEF Sound, Filed
      <4>4. Head(work).sel \in Selectors /\ Head(work).listing \in Listings
        BY <1>1, <4>2, WorkFact
      <4>5. QED
        BY <4>1, <4>2, <4>3, <4>4
    <3>3. QED
      BY <1>16, <3>1, <3>2
  <2>3. ASSUME NEW s \in Selectors, NEW q \in Qualities, NEW c \in quotes'[s][q],
               q \notin untouched'[s]
        PROVE  Explained(s, q, c)'
    <3>1. CASE <<s, q>> # <<s0, l0.hq>>
      <4>1. c \in quotes[s][q] /\ q \notin untouched[s]
        BY <2>1, <2>2, <2>3, <3>1
      <4>2. c \in Quotations /\ Explained(s, q, c)
        BY <1>2, <2>1, <4>1
      <4>3. \A l \in Listings : l.hq = q /\ Quote(l) = c /\ Removing(l, s) => Removing(l, s)'
        BY <1>1, <2>2, <3>1, RemovingFact
      <4>4. QED
        BY <1>6, <2>1, <4>2, <4>3, ExplainedKept
    <3>2. CASE s = s0 /\ q = l0.hq
      <4>1. PICK f \in Listings :
               f.hq = l0.hq /\ f.world \in WorldsIn(s0) /\ Stands(f, 0) /\ c = Quote(f)
        BY <2>2, <2>3, <3>2
      <4>2. Stands(f, 0)'
        BY <1>6, <2>1, <4>1
      <4>3. Explained(s0, f.hq, Quote(f))'
        BY <4>1, <4>2 DEF Explained, Explains
      <4>4. QED
        BY <3>2, <4>1, <4>3
    <3>3. QED
      BY <3>1, <3>2
  <2>4. QED
    BY <1>3, <2>3
<1>17. ASSUME NEW s \in Selectors, Copy(s)
       PROVE  BackedOrDoomed'
  BY <1>5, <1>17 DEF Copy
<1>18. CASE Restart
  BY <1>4, <1>18 DEF Restart
<1>19. CASE UNCHANGED vars
  BY <1>5, <1>19 DEF vars
<1>20. QED
  BY <1>7, <1>8, <1>9, <1>10, <1>11, <1>12, <1>13, <1>14, <1>15, <1>16, <1>17, <1>18, <1>19
  DEF Next, Writes

-----------------------------------------------------------------------------
(* The invariant, and what follows from it.                                 *)

(* At the start.                                                            *)
LEMMA InvInit == Init => IInv
<1> SUFFICES ASSUME Init PROVE IInv
  OBVIOUS
<1>1. Typed
  BY TypedInit
<1>2. Singles
  BY DEF Init, Singles, Single, NoQuotes
<1>3. \A t \in Tasks : Right(task[t])
  <2> TAKE t \in Tasks
  <2>1. task[t] = Idle
    BY DEF Init
  <2>2. QED
    BY <2>1, IdleFact DEF Right
<1>4. Phases /\ Filed /\ Standing
  BY DEF Init, Phases, Filed, Standing
<1>5. BackedOrDoomed
  BY DEF Init, BackedOrDoomed, NoQuotes
<1>6. QED
  BY <1>1, <1>2, <1>3, <1>4, <1>5 DEF IInv, Sound

(* Every step keeps it.                                                     *)
LEMMA InvStep == IInv /\ [Next]_vars => IInv'
<1> SUFFICES ASSUME IInv, [Next]_vars PROVE IInv'
  OBVIOUS
<1>1. Sound /\ Standing
  BY DEF IInv
<1>2. Typed'
  BY <1>1, TypedStep DEF Sound
<1>3. Singles' /\ Phases' /\ Filed'
  BY <1>1, SinglesStep, PhasesStep, FiledStep
<1>4. \A t \in Tasks : Right(task'[t])
  BY <1>1, RightStep
<1>5. Standing' /\ BackedOrDoomed'
  BY <1>1, StandingStep, BackedStep
<1>6. QED
  BY <1>2, <1>3, <1>4, <1>5 DEF IInv, Sound

(* The invariant holds in every state.                                      *)
THEOREM Invariant == Spec => []IInv
BY InvInit, InvStep, PTL DEF Spec

(* What has one member at most counts as one at most.                       *)
LEMMA SingleCard ==
    ASSUME NEW S, Single(S)
    PROVE  Cardinality(S) <= 1
<1>1. CASE S = {}
  BY <1>1, FS_EmptySet
<1>2. CASE S # {}
  <2>1. PICK x : S = {x}
    BY <1>2 DEF Single
  <2>2. QED
    BY <2>1, FS_Singleton
<1>3. QED
  BY <1>1, <1>2

(* Types: one quote per selector and quality, a feed within its bound, and  *)
(* a requery only for the removal the worker is working on.                 *)
THEOREM TypeCorrect == Spec => []TypeOK
<1>1. IInv => TypeOK
  <2> SUFFICES ASSUME IInv PROVE TypeOK
    OBVIOUS
  <2>1. Typed /\ Singles /\ Phases /\ \A t \in Tasks : Right(task[t])
    BY DEF IInv, Sound
  <2>2. ASSUME NEW t \in Tasks
        PROVE  /\ task[t].pc \in {"idle", "write", "tell"}
               /\ task[t].pc # "idle" => task[t].order \in Orders \cup {<<"Add">>}
               /\ task[t].pc # "write" => task[t].toInsert = {} /\ task[t].toDelete = {}
               /\ \A l, m \in task[t].toInsert \cup task[t].toDelete
                                   \cup task[t].inserted \cup task[t].removed : l.world = m.world
    <3>1. task[t] \in Task /\ Right(task[t])
      BY <2>1 DEF Typed
    <3>2. <<"Remove">> \in Orders /\ task[t].pc \in {"idle", "write", "tell"}
      BY <3>1 DEF Orders, Task
    <3>3. QED
      BY <3>1, <3>2, IdleFact DEF Right
  <2>3. /\ Len(queue) <= Capacity
        /\ \A n \in DOMAIN queue : queue[n] \in Events
        /\ \A n \in DOMAIN work : work[n].listing \in Listings
    BY <2>1, ListingsFact DEF Typed
  <2>4. \A n \in DOMAIN work : work[n].sel \in Selectors
    BY <2>1, ListingsFact DEF Call
  <2>5. \A s \in Selectors, q \in Qualities :
           /\ quotes[s][q] \subseteq {Quote(l) : l \in Listings}
           /\ Cardinality(quotes[s][q]) <= 1
    BY <2>1, SingleCard, PriceFact DEF Singles, Quotations
  <2>6. Cardinality(asking) <= 1 /\ Cardinality(snapshot) <= 1
    BY <2>1, SingleCard DEF Singles
  <2>7. asking # {} => work # <<>> /\ Head(work).op = "remove"
    BY <2>1 DEF Phases
  <2>8. QED
    BY <2>1, <2>2, <2>3, <2>4, <2>5, <2>6, <2>7 DEF TypeOK, Typed
<1>2. QED
  BY <1>1, Invariant, PTL

(* As long as the bus dropped nothing, a quote readers may see is backed by *)
(* a row, or a Remove event that makes the analyzer look again is on its    *)
(* way, or its listing came or went without the bus being told, or a        *)
(* snapshot brought it back and nothing has changed it since.               *)
THEOREM Backing == Spec => []QuotesAreBacked
<1>1. IInv => QuotesAreBacked
  <2> SUFFICES ASSUME IInv, ~lost,
                      NEW s \in Selectors, NEW q \in Qualities, NEW c \in quotes[s][q],
                      q \notin untouched[s]
               PROVE  \/ QuoteOf(live, s, q, c) \/ Doomed(s, q, c.price)
                      \/ QuoteOf(unsaid, s, q, c)
    BY DEF QuotesAreBacked
  <2>1. PICK l \in Listings : Explains(l, s, q, c)
    BY DEF IInv, BackedOrDoomed
  <2>2. l.hq = q /\ l.world \in WorldsIn(s) /\ Quote(l) = c /\ l.price <= c.price
    BY <2>1, PriceFact DEF Explains
  <2>3. CASE l \in live \cup unsaid
    BY <2>2, <2>3 DEF QuoteOf
  <2>4. CASE Gone(l, 0)
    BY <2>2, <2>4 DEF Gone, Doomed, Takes, Sends
  <2>5. CASE Removing(l, s)
    BY <2>2, <2>5 DEF Removing, Doomed
  <2>6. QED
    BY <2>1, <2>3, <2>4, <2>5 DEF Explains, Stands
<1>2. QED
  BY <1>1, Invariant, PTL

-----------------------------------------------------------------------------
(* Rows of one quality a world: nothing is cheaper than its quote.          *)

(* Steps of a task: a row the analyzer will hear of stays one, and a new    *)
(* row is one.                                                              *)
LEMMA TaskComing ==
    ASSUME Sound, NEW l \in Listings, ~lost', phase # "off", NEW t \in Tasks,
           Writes(t) \/ Tell(t), l \in live' \ unsaid'
    PROVE  (Coming(l) => Coming(l)') /\ (l \in live \ unsaid \/ Coming(l)')
<1>1. queue \in Seq(Events)
  BY DEF Sound, Typed
<1>2. CASE Writes(t)
  <2>1. PICK k \in Task : /\ Written(t, k) /\ task'[t] = k
                          /\ \A v \in Tasks : v # t => task'[v] = task[v]
    BY <1>2, QuietFact
  <2>2. queue' = queue /\ (Brings(task[t], l) => Brings(k, l))
        /\ (l \in live \ unsaid \/ Brings(k, l))
    BY <2>1 DEF Written, Others
  <2>3. QED
    BY <2>1, <2>2 DEF Coming
<1>3. CASE Tell(t)
  <2>1. PICK e \in Events, k \in Task :
           /\ Told(t, e, k) /\ ~lost /\ queue' = Append(queue, e) /\ live' = live
           /\ e.type = "Add" => unsaid' = unsaid \cup (e.listings \ live)
           /\ e.type = "Remove" => unsaid' = unsaid \ (e.listings \ live)
           /\ task'[t] = k /\ \A v \in Tasks : v # t => task'[v] = task[v]
    BY <1>3, SendFact
  <2>2. /\ \A m \in DOMAIN queue : m \in DOMAIN queue' /\ queue'[m] = queue[m]
        /\ Len(queue) + 1 \in DOMAIN queue' /\ queue'[Len(queue) + 1] = e
    BY <1>1, <2>1
  <2>3. e.type = "Add" \/ e.type = "Remove"
    BY DEF Events
  <2>4. l \in live \ unsaid
    BY <2>1, <2>3
  <2>5. CASE \E n \in DOMAIN queue : queue[n].type = "Add" /\ l \in queue[n].listings
    BY <2>2, <2>4, <2>5 DEF Coming
  <2>6. ASSUME NEW v \in Tasks, v # t, Brings(task[v], l)
        PROVE  Coming(l)'
    BY <2>1, <2>6 DEF Coming
  <2>7. CASE Brings(task[t], l)
    <3>1. CASE e.type = "Add"
      BY <2>1, <2>2, <2>4, <2>7, <3>1 DEF Told, Brings, Coming
    <3>2. CASE e.type = "Remove"
      <4>1. k.order = <<"Add">> /\ l \in k.inserted
        BY <2>1, <2>7, <3>2 DEF Told, Brings
      <4>2. Brings(k, l)
        BY <4>1 DEF Brings, Sends
      <4>3. QED
        BY <2>1, <2>4, <4>2 DEF Coming
    <3>3. QED
      BY <2>3, <3>1, <3>2
  <2>8. QED
    BY <2>4, <2>5, <2>6, <2>7 DEF Coming
<1>4. QED
  BY <1>2, <1>3

(* The offers that are left when the first call is done.                    *)
LEMMA OfferedFact ==
    ASSUME work \in Seq(Call), work # <<>>, work' = Tail(work), NEW l, NEW s, Offered(l, s)
    PROVE  \/ Offered(l, s)'
           \/ /\ Head(work).op = "add" /\ Head(work).sel = s
              /\ Head(work).listing.hq = l.hq /\ Head(work).listing.price <= l.price
<1>1. PICK n \in DOMAIN work :
         work[n].op = "add" /\ work[n].sel = s
            /\ work[n].listing.hq = l.hq /\ work[n].listing.price <= l.price
  BY DEF Offered
<1>2. CASE n = 1
  BY <1>1, <1>2, WorkFact
<1>3. CASE n # 1
  <2>1. PICK m \in DOMAIN work' : work'[m] = work[n]
    BY <1>3, LeftFact
  <2>2. QED
    BY <1>1, <2>1 DEF Offered
<1>4. QED
  BY <1>2, <1>3

(* Every step keeps the rows covered.                                       *)
LEMMA CoveredStep ==
    ASSUME OneQuality, Sound, Covered, [Next]_vars
    PROVE  Covered'
<1> USE DEF history
<1>1. /\ Typed /\ Phases /\ Singles
      /\ work \in Seq(Call) /\ queue \in Seq(Events) /\ lost \in BOOLEAN /\ failed \in BOOLEAN
      /\ live \subseteq Listings /\ phase \in {"off", "boot", "load", "live"}
  BY DEF Sound, Typed
<1> DEFINE On == phase \in {"load", "live"} /\ ~lost /\ ~failed
<1>2. On => /\ \A l \in live \ unsaid, s \in Selectors :
                  l.world \in WorldsIn(s) => CoveredAt(l, s)
            /\ \A a \in asking, l \in live \ unsaid : AnsweredAt(a, l)
  BY DEF Covered
<1>3. (On' => /\ \A l \in live' \ unsaid', s \in Selectors :
                    l.world \in WorldsIn(s) => CoveredAt(l, s)'
              /\ \A a \in asking', l \in live' \ unsaid' : AnsweredAt(a, l)') => Covered'
  BY DEF Covered
<1>4. ~On' => Covered'
  BY <1>3
<1>5. CASE UNCHANGED <<live, unsaid, task, queue, phase, quotes, work, asking, lost, failed, unasked>>
  BY <1>5 DEF Covered, CoveredAt, AnsweredAt, Offered, Coming, Waiting
<1>6. ASSUME UNCHANGED <<task, queue>>
      PROVE  \A l : Coming(l)' <=> Coming(l)
  BY <1>6 DEF Coming
<1>7. ASSUME NEW t \in Tasks, Writes(t) \/ Tell(t)
      PROVE  Covered'
  <2>1. UNCHANGED <<phase, quotes, work, asking, failed, unasked>>
    BY <1>7, QuietFact DEF Written, Others, Tell
  <2> SUFFICES ASSUME On' PROVE Covered'
    BY <1>4
  <2>2. phase # "off"
    BY <2>1
  <2>3. ASSUME NEW l \in live' \ unsaid'
        PROVE  (Coming(l) => Coming(l)') /\ (l \in live \ unsaid \/ Coming(l)')
    <3>1. l \in Listings
      <4>1. Typed'
        BY TypedStep DEF Sound
      <4>2. QED
        BY <4>1 DEF Typed
    <3>2. QED
      BY <1>7, <2>2, <3>1, TaskComing
  <2>4. On
    BY <1>7, <2>1, <2>2, QuietFact, SendFact DEF Written, Others
  <2>5. ASSUME NEW l \in live' \ unsaid', NEW s \in Selectors, l.world \in WorldsIn(s)
        PROVE  CoveredAt(l, s)'
    <3>1. CASE Coming(l)'
      BY <3>1 DEF CoveredAt
    <3>2. CASE ~Coming(l)'
      <4>1. l \in live \ unsaid /\ CoveredAt(l, s) /\ ~Coming(l)
        BY <1>2, <2>3, <2>4, <2>5, <3>2
      <4>2. QED
        BY <2>1, <4>1 DEF CoveredAt, Offered, Waiting
    <3>3. QED
      BY <3>1, <3>2
  <2>6. ASSUME NEW a \in asking', NEW l \in live' \ unsaid'
        PROVE  AnsweredAt(a, l)'
    <3>1. CASE Coming(l)'
      BY <3>1 DEF AnsweredAt
    <3>2. CASE ~Coming(l)'
      <4>1. a \in asking /\ l \in live \ unsaid /\ AnsweredAt(a, l) /\ ~Coming(l)
        BY <1>2, <2>1, <2>3, <2>4, <3>2
      <4>2. QED
        BY <2>1, <4>1 DEF AnsweredAt
    <3>3. QED
      BY <3>1, <3>2
  <2>7. QED
    BY <1>3, <2>5, <2>6
<1>8. CASE Subscribe \/ Restart
  BY <1>4, <1>8 DEF Subscribe, Restart
<1>9. CASE LoadStops \/ AskFails
  BY <1>4, <1>9 DEF LoadStops, AskFails
<1>10. CASE WriteSnapshot
  BY <1>5, <1>10 DEF WriteSnapshot
<1>11. ASSUME NEW s \in Selectors, Copy(s)
       PROVE  Covered'
  BY <1>5, <1>11 DEF Copy
<1>12. CASE Load
  <2>1. live' = live /\ unsaid' = unsaid /\ asking' = {}
    BY <1>1, <1>12 DEF Load, Phases
  <2>2. PICK rows \in SetToSeqs(Summaries) : work' = AddCalls(rows)
    BY <1>12 DEF Load
  <2>3. rows \in Seq(Listings) /\ \A l \in Summaries : \E k \in DOMAIN rows : rows[k] = l
    BY <1>1, SummariesFact, RowsFact
  <2>4. \A k \in DOMAIN rows, s \in Selectors : rows[k].world \in WorldsIn(s) =>
           \E n \in DOMAIN work' :
              work'[n].op = "add" /\ work'[n].sel = s /\ work'[n].listing = rows[k]
    BY <2>2, <2>3, AddCallsFact
  <2>5. ASSUME NEW l \in live \ unsaid, NEW s \in Selectors, l.world \in WorldsIn(s)
        PROVE  CoveredAt(l, s)'
    <3>1. PICK S : S = {m \in live : m.world = l.world /\ m.hq = l.hq}
      OBVIOUS
    <3>2. S \in SUBSET Listings /\ l \in S /\ l \in Listings
      BY <1>1, <3>1
    <3>3. PICK c \in Cheapest(S) : c.price <= l.price
      BY <3>2, CheapestFact
    <3>4. c \in Summaries
      <4>1. l.world \in Worlds /\ l.hq \in Qualities
        BY <3>2, PriceFact
      <4>2. PICK w \in Worlds, q \in Qualities : w = l.world /\ q = l.hq
        BY <4>1
      <4>3. S = {m \in live : m.world = w /\ m.hq = q}
        BY <3>1, <4>2
      <4>4. c \in Cheapest({m \in live : m.world = w /\ m.hq = q})
        BY <3>3, <4>3
      <4>5. QED
        BY <4>4, SummaryOf
    <3>5. c.world = l.world /\ c.hq = l.hq
      BY <3>1 DEF Cheapest
    <3>6. PICK k \in DOMAIN rows : rows[k] = c
      BY <2>3, <3>4
    <3>7. PICK n \in DOMAIN work' :
             work'[n].op = "add" /\ work'[n].sel = s /\ work'[n].listing = c
      BY <2>4, <2>5, <3>5, <3>6
    <3>8. Offered(l, s)'
      BY <3>3, <3>5, <3>7 DEF Offered
    <3>9. QED
      BY <3>8 DEF CoveredAt
  <2>6. QED
    BY <1>3, <2>1, <2>5
<1>13. CASE Prime
  <2>1. On' => On
    BY <1>13 DEF Prime
  <2>2. UNCHANGED <<live, unsaid, task, queue, quotes, work, asking, unasked>>
    BY <1>13 DEF Prime
  <2>3. \A l, s : CoveredAt(l, s) => CoveredAt(l, s)'
    BY <2>2 DEF CoveredAt, Offered, Coming, Waiting
  <2>4. \A a, l : AnsweredAt(a, l) => AnsweredAt(a, l)'
    BY <2>2 DEF AnsweredAt, Coming
  <2>5. QED
    BY <1>2, <1>3, <2>1, <2>2, <2>3, <2>4
<1>14. CASE Restore
  <2>1. asking' = {} /\ UNCHANGED <<live, unsaid>> /\ unasked' = [s \in Selectors |-> Qualities]
    BY <1>1, <1>14 DEF Restore, Phases
  <2>2. \A l \in live' \ unsaid', s \in Selectors : l.hq \in unasked'[s]
    BY <1>1, <2>1, PriceFact
  <2>3. QED
    BY <1>3, <2>1, <2>2 DEF CoveredAt
<1>15. CASE Receive
  <2>1. UNCHANGED <<live, unsaid, task, phase, quotes, lost, failed, unasked>> /\ asking = {} /\ asking' = {}
    BY <1>1, <1>15 DEF Receive, Phases
  <2>2. PICK e \in Events :
           /\ queue # <<>> /\ e = queue[1] /\ work = <<>> /\ queue' = Tail(queue)
           /\ e.type = "Add" =>
                 \/ e.listings = {}
                 \/ \E l \in Cheapest(e.listings) :
                       /\ \A n \in DOMAIN work' :
                             work'[n].op = "add" /\ work'[n].listing = l
                       /\ \A s \in Selectors : l.world \in WorldsIn(s) =>
                             \E n \in DOMAIN work' : work'[n].sel = s
    BY <1>1, <1>15, ReceiveStep
  <2>3. /\ 1 \in DOMAIN queue
        /\ \A n \in DOMAIN queue : n # 1 => n - 1 \in DOMAIN queue' /\ queue'[n - 1] = queue[n]
    BY <1>1, <2>2, TailFact
  <2>4. ASSUME NEW l \in live \ unsaid, NEW s \in Selectors, l.world \in WorldsIn(s), CoveredAt(l, s)
        PROVE  CoveredAt(l, s)'
    <3>1. \/ (\E c \in quotes[s][l.hq] : c.price <= l.price) \/ l.hq \in unasked[s]
          \/ \E t \in Tasks : Brings(task[t], l)
          \/ \E n \in DOMAIN queue : queue[n].type = "Add" /\ l \in queue[n].listings
      BY <2>1, <2>2, <2>4 DEF CoveredAt, Offered, Waiting, Coming
    <3>2. CASE (\E c \in quotes[s][l.hq] : c.price <= l.price) \/ l.hq \in unasked[s]
      BY <2>1, <3>2 DEF CoveredAt
    <3>3. CASE \E t \in Tasks : Brings(task[t], l)
      BY <2>1, <3>3 DEF CoveredAt, Coming
    <3>4. ASSUME NEW n \in DOMAIN queue, queue[n].type = "Add", l \in queue[n].listings
          PROVE  CoveredAt(l, s)'
      <4>1. CASE n # 1
        BY <2>3, <3>4, <4>1 DEF CoveredAt, Coming
      <4>2. CASE n = 1
        <5>1. e.type = "Add" /\ l \in e.listings /\ e.listings \in SUBSET Listings
          BY <2>2, <3>4, <4>2 DEF Events
        <5>2. PICK c \in Cheapest(e.listings) :
                 /\ \A m \in DOMAIN work' : work'[m].op = "add" /\ work'[m].listing = c
                 /\ \A t \in Selectors : c.world \in WorldsIn(t) =>
                       \E m \in DOMAIN work' : work'[m].sel = t
          BY <2>2, <5>1
        <5>3. c \in e.listings /\ c.price <= l.price
          BY <5>1, CheapestFact
        <5>4. c.world = l.world
          BY <2>2, <2>3, <5>1, <5>3 DEF Sound, Filed
        <5>5. c.hq = l.hq
          BY <5>1, <5>3, <5>4 DEF OneQuality
        <5>6. Offered(l, s)'
          BY <2>4, <5>2, <5>3, <5>4, <5>5 DEF Offered
        <5>7. QED
          BY <5>6 DEF CoveredAt
      <4>3. QED
        BY <4>1, <4>2
    <3>5. QED
      BY <3>1, <3>2, <3>3, <3>4
  <2>5. QED
    BY <1>2, <1>3, <2>1, <2>4
<1>16. CASE CallAdd
  <2>1. UNCHANGED <<live, unsaid, task, queue, phase, lost, failed, unasked>> /\ asking = {} /\ asking' = {}
    BY <1>1, <1>16 DEF CallAdd, Phases
  <2>2. PICK s0 \in Selectors, l0 \in Listings, r \in SUBSET Quotations :
           /\ work # <<>> /\ work' = Tail(work)
           /\ Head(work).op = "add" /\ Head(work).sel = s0 /\ Head(work).listing = l0
           /\ l0.hq \in Qualities /\ quotes[s0][l0.hq] \in SUBSET Quotations
           /\ r = Lowered(quotes[s0][l0.hq], l0) /\ Sets(s0, l0.hq, r)
    BY <1>1, <1>16, AddStep
  <2>3. ASSUME NEW l \in live \ unsaid, NEW s \in Selectors, CoveredAt(l, s)
        PROVE  CoveredAt(l, s)'
    <3>1. l \in Listings /\ l.hq \in Qualities /\ l.price \in Int /\ l0.price \in Int
      BY <1>1, PriceFact
    <3>2. CASE Coming(l) \/ l.hq \in unasked[s]
      BY <1>6, <2>1, <3>2 DEF CoveredAt
    <3>3. ASSUME NEW c \in quotes[s][l.hq], c.price <= l.price
          PROVE  CoveredAt(l, s)'
      <4>1. CASE <<s, l.hq>> # <<s0, l0.hq>>
        BY <2>2, <3>1, <3>3, <4>1 DEF Sets, CoveredAt
      <4>2. CASE s = s0 /\ l.hq = l0.hq
        <5>1. PICK d \in r : d.price <= c.price
          BY <2>2, <3>3, <4>2, LoweredFact
        <5>2. c.price \in Int /\ d.price \in Int
          BY <2>2, <3>3, <4>2, PriceFact
        <5>3. d \in quotes'[s][l.hq] /\ d.price <= l.price
          BY <2>2, <3>1, <3>3, <4>2, <5>1, <5>2 DEF Sets
        <5>4. QED
          BY <5>3 DEF CoveredAt
      <4>3. QED
        BY <4>1, <4>2
    <3>4. CASE Offered(l, s)
      <4>1. CASE Offered(l, s)'
        BY <4>1 DEF CoveredAt
      <4>2. CASE s0 = s /\ l0.hq = l.hq /\ l0.price <= l.price
        <5>1. PICK d \in r : d.price <= l0.price
          BY <2>2, LoweredFact
        <5>2. d.price \in Int
          BY PriceFact
        <5>3. d \in quotes'[s][l.hq] /\ d.price <= l.price
          BY <2>2, <3>1, <4>2, <5>1, <5>2 DEF Sets
        <5>4. QED
          BY <5>3 DEF CoveredAt
      <4>3. QED
        BY <1>1, <2>2, <3>4, <4>1, <4>2, OfferedFact
    <3>5. QED
      BY <2>1, <2>3, <3>2, <3>3, <3>4 DEF CoveredAt, Waiting
  <2>4. QED
    BY <1>2, <1>3, <2>1, <2>3
<1>17. CASE CallRemove
  <2>1. UNCHANGED <<live, unsaid, task, queue, phase, lost, failed, unasked>> /\ asking = {}
    BY <1>17 DEF CallRemove
  <2>2. PICK s0 \in Selectors, l0 \in Listings :
           /\ work # <<>>
           /\ Head(work).op = "remove" /\ Head(work).sel = s0 /\ Head(work).listing = l0
           /\ Drops(s0, l0) \/ Passes(s0, l0)
    BY <1>1, <1>17, RemoveStep
  <2>3. CASE Drops(s0, l0)
    <3>1. /\ work' = work /\ asking' = {[left |-> WorldsIn(s0), found |-> {}]}
          /\ Sets(s0, l0.hq, {})
      BY <2>3 DEF Drops
    <3>2. ASSUME NEW l \in live \ unsaid, NEW s \in Selectors, CoveredAt(l, s)
          PROVE  CoveredAt(l, s)'
      <4>1. CASE <<s, l.hq>> # <<s0, l0.hq>>
        <5>1. l.hq \in Qualities
          BY <1>1, PriceFact
        <5>2. quotes'[s][l.hq] = quotes[s][l.hq]
          BY <3>1, <4>1, <5>1 DEF Sets
        <5>3. QED
          BY <1>6, <2>1, <3>1, <3>2, <5>2 DEF CoveredAt, Offered, Waiting
      <4>2. CASE s = s0 /\ l.hq = l0.hq
        BY <2>2, <3>1, <4>2 DEF CoveredAt, Waiting
      <4>3. QED
        BY <4>1, <4>2
    <3>3. \A a \in asking', l \in live' \ unsaid' : AnsweredAt(a, l)'
      BY <2>2, <3>1 DEF AnsweredAt
    <3>4. QED
      BY <1>2, <1>3, <2>1, <3>2, <3>3
  <2>4. CASE Passes(s0, l0)
    <3>1. work' = Tail(work) /\ asking' = {} /\ quotes' = quotes
      BY <2>4 DEF Passes
    <3>2. ASSUME NEW l \in live \ unsaid, NEW s \in Selectors, CoveredAt(l, s)
          PROVE  CoveredAt(l, s)'
      <4>1. Offered(l, s) => Offered(l, s)'
        BY <1>1, <2>2, <3>1, OfferedFact
      <4>2. QED
        BY <1>6, <2>1, <3>1, <3>2, <4>1 DEF CoveredAt, Waiting
    <3>3. QED
      BY <1>2, <1>3, <2>1, <3>1, <3>2
  <2>5. QED
    BY <2>2, <2>3, <2>4
<1>18. ASSUME NEW w \in Worlds, Answer(w)
       PROVE  Covered'
  <2>1. /\ UNCHANGED <<live, unsaid, task, queue, phase, quotes, work, lost, failed, unasked>>
        /\ asking # {} /\ asking' # {}
    BY <1>18 DEF Answer
  <2>2. \A l, s : CoveredAt(l, s) => CoveredAt(l, s)'
    BY <1>6, <2>1 DEF CoveredAt, Offered, Waiting
  <2>3. PICK h : h = Head(work)
    OBVIOUS
  <2>4. PICK rows : rows = {l \in live : l.world = w /\ l.hq = h.listing.hq}
    OBVIOUS
  <2>5. PICK a \in asking :
           /\ w \in a.left
           /\ \/ Cheapest(rows) = {} /\ asking' = {[a EXCEPT !.left = @ \ {w}]}
              \/ \E f \in Cheapest(rows) :
                    asking' = {[left |-> a.left \ {w}, found |-> a.found \cup {f}]}
    BY <1>18, <2>3, <2>4 DEF Answer
  <2>6. a \in Query /\ rows \in SUBSET Listings
    BY <1>1, <2>4 DEF Typed
  <2>7. PICK b : /\ asking' = {b} /\ b.left = a.left \ {w} /\ a.found \subseteq b.found
                 /\ \A l \in rows : \E f \in b.found : f.price <= l.price
    <3>1. CASE Cheapest(rows) = {} /\ asking' = {[a EXCEPT !.left = @ \ {w}]}
      <4>1. rows = {}
        BY <2>6, <3>1, CheapestFact
      <4>2. QED
        BY <2>6, <3>1, <4>1 DEF Query
    <3>2. ASSUME NEW f \in Cheapest(rows),
                 asking' = {[left |-> a.left \ {w}, found |-> a.found \cup {f}]}
          PROVE  \E b : /\ asking' = {b} /\ b.left = a.left \ {w} /\ a.found \subseteq b.found
                        /\ \A l \in rows : \E g \in b.found : g.price <= l.price
      <4>1. \A l \in rows : f.price <= l.price
        BY <2>6, CheapestFact
      <4>2. PICK b : b = [left |-> a.left \ {w}, found |-> a.found \cup {f}]
        OBVIOUS
      <4>3. b.left = a.left \ {w} /\ b.found = a.found \cup {f}
        BY <4>2
      <4>4. QED
        BY <3>2, <4>1, <4>2, <4>3
    <3>3. QED
      BY <2>5, <3>1, <3>2
  <2>8. ASSUME NEW l \in live \ unsaid, AnsweredAt(a, l)
        PROVE  AnsweredAt(b, l)'
    <3> SUFFICES ASSUME l.hq = h.listing.hq, l.world \in WorldsIn(h.sel) \ b.left
                 PROVE  (\E f \in b.found : f.price <= l.price) \/ Coming(l)'
      BY <2>1, <2>3 DEF AnsweredAt
    <3>1. CASE l.world = w
      BY <2>4, <2>7, <3>1
    <3>2. CASE l.world # w
      BY <1>6, <2>1, <2>3, <2>7, <2>8, <3>2 DEF AnsweredAt
    <3>3. QED
      BY <3>1, <3>2
  <2>9. QED
    BY <1>2, <1>3, <2>1, <2>2, <2>7, <2>8
<1>19. CASE Requoted
  <2>1. UNCHANGED <<live, unsaid, task, queue, phase, lost, failed>>
    BY <1>19 DEF Requoted
  <2>2. PICK s0 \in Selectors, l0 \in Listings, a \in Query, r \in SUBSET Quotations :
           /\ work # <<>> /\ work' = Tail(work)
           /\ Head(work).op = "remove" /\ Head(work).sel = s0 /\ Head(work).listing = l0
           /\ l0.hq \in Qualities
           /\ asking = {a} /\ a.left = {} /\ asking' = {}
           /\ quotes[s0][l0.hq] = {} /\ Sets(s0, l0.hq, r)
           /\ \/ a.found = {} /\ r = {}
              \/ \E f \in Cheapest(a.found) : r = {Quote(f)}
           /\ Marks(unasked, unasked', s0, l0.hq)
    <3>1. Filed
      BY DEF Sound
    <3>2. QED
      BY <1>1, <1>19, <3>1, RequoteStep, Zenon
  <2>3. ASSUME NEW l \in live \ unsaid, NEW s \in Selectors, l.world \in WorldsIn(s),
               CoveredAt(l, s), AnsweredAt(a, l)
        PROVE  CoveredAt(l, s)'
    <3>1. l \in Listings /\ l.hq \in Qualities /\ l.price \in Int
      BY <1>1, PriceFact
    <3>2. CASE <<s, l.hq>> # <<s0, l0.hq>>
      <4>1. quotes'[s][l.hq] = quotes[s][l.hq] /\ (l.hq \in unasked'[s] <=> l.hq \in unasked[s])
        BY <2>2, <3>1, <3>2 DEF Sets, Marks
      <4>2. Offered(l, s) => Offered(l, s)'
        BY <1>1, <2>2, OfferedFact
      <4>3. ~Waiting(l, s)
        BY <2>2, <3>2 DEF Waiting
      <4>4. QED
        BY <1>6, <2>1, <2>3, <4>1, <4>2, <4>3 DEF CoveredAt
    <3>3. CASE s = s0 /\ l.hq = l0.hq
      <4>1. (\E f \in a.found : f.price <= l.price) \/ Coming(l)
        BY <2>2, <2>3, <3>3 DEF AnsweredAt
      <4>2. CASE Coming(l)
        BY <1>6, <2>1, <4>2 DEF CoveredAt
      <4>3. ASSUME NEW g \in a.found, g.price <= l.price
            PROVE  CoveredAt(l, s)'
        <5>1. PICK f \in Cheapest(a.found) : r = {Quote(f)}
          BY <2>2, <4>3
        <5>2. a.found \in SUBSET Listings
          BY DEF Query
        <5>3. f \in Listings /\ g \in Listings /\ f.price <= g.price
          BY <5>2, CheapestFact
        <5>4. Quote(f).price <= l.price
          BY <3>1, <4>3, <5>3, PriceFact
        <5>5. QED
          BY <2>2, <3>3, <5>1, <5>4 DEF Sets, CoveredAt
      <4>4. QED
        BY <4>1, <4>2, <4>3
    <3>4. QED
      BY <3>2, <3>3
  <2>4. QED
    BY <1>2, <1>3, <2>1, <2>2, <2>3
<1>20. CASE UNCHANGED vars
  BY <1>5, <1>20 DEF vars
<1>21. QED
  BY <1>7, <1>8, <1>9, <1>10, <1>11, <1>12, <1>13, <1>14, <1>15, <1>16, <1>17, <1>18, <1>19,
     <1>20 DEF Next, Writes

(* If all listings of a world are of one quality: as long as the bus        *)
(* dropped nothing and the database could be read, no row is cheaper than   *)
(* the quote of its quality at each of its selectors, unless the news is on *)
(* its way, or the quote was restored and not asked for since.              *)
THEOREM NothingCheaper == OneQuality => (Spec => []NothingCheaperThanQuoted)
<1> SUFFICES ASSUME OneQuality PROVE Spec => []NothingCheaperThanQuoted
  OBVIOUS
<1>1. Init => Covered
  BY DEF Init, Covered
<1>2. IInv /\ Covered /\ [Next]_vars => Covered'
  BY CoveredStep DEF IInv
<1>3. IInv /\ Covered => NothingCheaperThanQuoted
  <2> SUFFICES ASSUME Covered, phase = "live", ~lost, ~failed,
                      NEW l \in live \ unsaid, NEW s \in Selectors, l.world \in WorldsIn(s)
               PROVE  \/ \E c \in quotes[s][l.hq] : c.price <= l.price
                      \/ Owed(s, l)
                      \/ l.hq \in unasked[s]
    BY DEF NothingCheaperThanQuoted
  <2>1. CoveredAt(l, s)
    BY DEF Covered
  <2>2. QED
    BY <2>1 DEF CoveredAt, Offered, Coming, Brings, Sends, Waiting, Owed
<1>4. QED
  BY <1>1, <1>2, <1>3, Invariant, PTL DEF Spec

=============================================================================
