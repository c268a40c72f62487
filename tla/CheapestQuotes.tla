---------------------------- MODULE CheapestQuotes ----------------------------
(***************************************************************************)
(* AnalyzerService keeps, for every item and quality, the cheapest listing *)
(* of each world, datacenter and region, next to a database that other     *)
(* tasks change.  It hears of the changes on the listings bus:             *)
(*   - an Add event lowers quotes, without looking at the database;        *)
(*   - a Remove event that takes away a quoted price (or a lower one)      *)
(*     drops the quote and asks the database, world by world, for the      *)
(*     cheapest listing left.                                              *)
(* The answers are newer than the events still queued, the bus drops       *)
(* events when the analyzer lags, the query may fail, and the process may  *)
(* stop at any time and start over from the database or from a snapshot.   *)
(*                                                                         *)
(* One item and one region are modelled; Listings are the rows that may    *)
(* ever be in active_listing.  The tasks are those of ListingStore: they   *)
(* overlap, also on one world, and any of their statements may fail, so    *)
(* rows come and go of which the bus is told nothing, or that they are     *)
(* there when they are gone.                                               *)
(***************************************************************************)
EXTENDS Integers, Sequences, FiniteSets, SequencesExt

CONSTANTS
    Worlds,        (* the worlds of the region                               *)
    DcOf,          (* the datacenter of a world                              *)
    Region,
    Listings,      (* records with world, hq and price                       *)
    Tasks,         (* handlers that can be in flight at once                 *)
    Capacity,      (* events the bus holds for a receiver                    *)
    Snapshots      (* whether analyzer-data can be written                   *)

Dcs       == {DcOf[w] : w \in Worlds}
Selectors == {Region} \cup Dcs \cup Worlds
Qualities == {l.hq : l \in Listings}

WorldsIn(s) == IF s = Region THEN Worlds
               ELSE IF s \in Dcs THEN {w \in Worlds : DcOf[w] = s} ELSE {s}

ASSUME QuotesAssumption ==
    /\ DcOf \in [Worlds -> Dcs]
    /\ Region \notin Dcs \cup Worlds /\ Dcs \cap Worlds = {}
    /\ IsFiniteSet(Listings)
    /\ \A l \in Listings : l.world \in Worlds /\ l.price \in Int
    /\ Capacity \in Nat \ {0}
    /\ Snapshots \in BOOLEAN

VARIABLES
    live,       (* rows of active_listing                                    *)
    task,       (* per task: what it has to write and to tell                *)
    queue,      (* events the bus holds for the analyzer                     *)
    phase,      (* of run_worker: off (not subscribed), boot, live           *)
    quotes,     (* per selector and quality: no quote or one                 *)
    work,       (* calls the event being handled still has to make           *)
    asking,     (* the requery remove_listing is waiting for, or none        *)
    copied,     (* what get_analyzer_state has cloned so far                 *)
    snapshot,   (* the newest snapshot file, or none                         *)
    (* History, read by properties only.                                     *)
    unsaid,     (* rows that were inserted or deleted and that was not told,
                   or that were told to be there when they were gone         *)
    lost,       (* the bus dropped an event for the analyzer                 *)
    failed,     (* a read of the database by the analyzer failed             *)
    untouched,  (* per selector: qualities whose quote is the restored one   *)
    unasked     (* per selector: restored qualities not asked for since      *)

history == <<unsaid, lost, failed, untouched, unasked>>
vars    == <<live, task, queue, phase, quotes, work, asking, copied, snapshot, history>>

Quote(l) == [price |-> l.price, world |-> l.world]

NoQuotes    == [s \in Selectors |-> [q \in Qualities |-> {}]]
NoQualities == [s \in Selectors |-> {}]

Idle == [pc |-> "idle", order |-> <<>>, toInsert |-> {}, toDelete |-> {},
         inserted |-> {}, removed |-> {}]

(* The events a task sends, in order: an update from the socket, an update  *)
(* from a sweep, a removal.                                                 *)
Orders == {<<"Remove", "Add">>, <<"Add", "Remove">>, <<"Remove">>}

Cheapest(S) == {l \in S : \A m \in S : l.price <= m.price}

Init ==
    /\ live = {}
    /\ task = [t \in Tasks |-> Idle]
    /\ queue = <<>>
    /\ phase = "off"
    /\ quotes = NoQuotes
    /\ work = <<>>
    /\ asking = {}
    /\ copied = <<>>
    /\ snapshot = {}
    /\ unsaid = {} /\ lost = FALSE /\ failed = FALSE
    /\ untouched = NoQualities /\ unasked = NoQualities

-----------------------------------------------------------------------------
(* The tasks.                                                               *)

(* Nobody refers to such a row, so one may be inserted with its values.     *)
Fresh(l) ==
    /\ l \notin live
    /\ \A t \in Tasks : l \notin task[t].toInsert \cup task[t].toDelete
                                    \cup task[t].inserted \cup task[t].removed

(* A task has read the rows of a world and computed from its board, or from *)
(* the list of listings that went away, which go and which come: any may.   *)
(* One that fails before has changed nothing.                               *)
Start(t, w, order, gone, new) ==
    /\ task[t].pc = "idle"
    /\ \A l \in gone : l \in live /\ l.world = w
    /\ \A l \in new : Fresh(l) /\ l.world = w
    /\ order = <<"Remove">> => new = {}
    /\ task' = [task EXCEPT ![t] =
                  [pc |-> "write", order |-> order, toInsert |-> new, toDelete |-> gone,
                   inserted |-> {}, removed |-> IF order = <<"Remove">> THEN {} ELSE gone]]
    /\ UNCHANGED <<live, queue, phase, quotes, work, asking, copied, snapshot, history>>

InsertRow(t, l) ==
    /\ task[t].pc = "write" /\ l \in task[t].toInsert
    /\ live' = live \cup {l}
    /\ task' = [task EXCEPT ![t].toInsert = @ \ {l}, ![t].inserted = @ \cup {l}]
    /\ unsaid' = unsaid \ {l}
    /\ UNCHANGED <<queue, phase, quotes, work, asking, copied, snapshot,
                   lost, failed, untouched, unasked>>

(* A failed insert is dropped from the result by .ok().                     *)
InsertFails(t, l) ==
    /\ task[t].pc = "write" /\ l \in task[t].toInsert
    /\ task' = [task EXCEPT ![t].toInsert = @ \ {l}]
    /\ UNCHANGED <<live, queue, phase, quotes, work, asking, copied, snapshot, history>>

(* The one delete of an update.                                             *)
DeleteMany(t) ==
    /\ task[t].pc = "write" /\ task[t].order # <<"Remove">> /\ task[t].toDelete # {}
    /\ live' = live \ task[t].toDelete
    /\ unsaid' = unsaid \ task[t].toDelete
    /\ task' = [task EXCEPT ![t].toDelete = {}]
    /\ UNCHANGED <<queue, phase, quotes, work, asking, copied, snapshot,
                   lost, failed, untouched, unasked>>

(* Its error is forgotten: the rows stay, and are told to be gone.          *)
DeleteManyFails(t) ==
    /\ task[t].pc = "write" /\ task[t].order # <<"Remove">> /\ task[t].toDelete # {}
    /\ task' = [task EXCEPT ![t].toDelete = {}]
    /\ UNCHANGED <<live, queue, phase, quotes, work, asking, copied, snapshot, history>>

(* The deletes of a removal, one per row.                                   *)
DeleteRow(t, l) ==
    /\ task[t].pc = "write" /\ task[t].order = <<"Remove">> /\ l \in task[t].toDelete
    /\ live' = live \ {l}
    /\ unsaid' = unsaid \ {l}
    /\ task' = [task EXCEPT ![t].toDelete = @ \ {l}, ![t].removed = @ \cup {l}]
    /\ UNCHANGED <<queue, phase, quotes, work, asking, copied, snapshot,
                   lost, failed, untouched, unasked>>

(* An update fails when it has written all and stamps the item; a removal   *)
(* when a delete fails or it looks up the retainers of the deleted rows.    *)
(* Both tell nothing of what they have written.                             *)
TaskFails(t) ==
    /\ task[t].pc = "write"
    /\ task[t].order = <<"Remove">> \/ (task[t].toInsert = {} /\ task[t].toDelete = {})
    /\ unsaid' = unsaid \cup (task[t].inserted \cap live) \cup (task[t].removed \ live)
    /\ task' = [task EXCEPT ![t] = Idle]
    /\ UNCHANGED <<live, queue, phase, quotes, work, asking, copied, snapshot,
                   lost, failed, untouched, unasked>>

(* The event a task sends next.                                             *)
Event(t) ==
    LET type == Head(task[t].order)
    IN  [type |-> type,
         listings |-> IF type = "Add" THEN task[t].inserted ELSE task[t].removed]

(* A full bus drops its oldest event; before it has subscribed the analyzer *)
(* gets nothing.                                                            *)
Broadcast(e) ==
    IF phase = "off" THEN UNCHANGED <<queue, lost>>
    ELSE /\ queue' = Append(IF Len(queue) = Capacity THEN Tail(queue) ELSE queue, e)
         /\ lost' = (lost \/ Len(queue) = Capacity)

(* What the task has after the event.                                       *)
Left(t) ==
    LET type == Head(task[t].order)
    IN  IF Len(task[t].order) = 1 THEN Idle
        ELSE [pc |-> "tell", order |-> Tail(task[t].order), toInsert |-> {}, toDelete |-> {},
              inserted |-> IF type = "Add" THEN {} ELSE task[t].inserted,
              removed |-> IF type = "Remove" THEN {} ELSE task[t].removed]

Tell(t) ==
    /\ task[t].pc \in {"write", "tell"}
    /\ task[t].toInsert = {} /\ task[t].toDelete = {}
    /\ Broadcast(Event(t))
    /\ task' = [task EXCEPT ![t] = Left(t)]
    /\ LET gone == Event(t).listings \ live
       IN  unsaid' = IF Event(t).type = "Add" THEN unsaid \cup gone ELSE unsaid \ gone
    /\ UNCHANGED <<live, phase, quotes, work, asking, copied, snapshot,
                   failed, untouched, unasked>>

-----------------------------------------------------------------------------
(* CheapestListings.                                                        *)

(* A slip: the older quote stays next to the new one.                       *)
LoweredTwice(quote, l) ==
    IF \A c \in quote : l.price <= c.price THEN quote \cup {Quote(l)} ELSE quote

(* A slip: the first quote stays.                                           *)
FirstKept(quote, l) == IF quote = {} THEN {Quote(l)} ELSE quote

(* add_listing: the new listing wins a tie (Ord::min keeps its first).      *)
Lowered(quote, l) ==
    IF \A c \in quote : l.price <= c.price THEN {Quote(l)} ELSE quote

AddListing(s, l) ==
    LET lowered == Lowered(quotes[s][l.hq], l)
    IN  /\ quotes' = [quotes EXCEPT ![s][l.hq] = lowered]
        /\ untouched' = [untouched EXCEPT ![s] = IF lowered = {Quote(l)} THEN @ \ {l.hq} ELSE @]

(* A slip: only a strictly lower price counts as taking the quote away.     *)
UndercutsOnly(s, l) == \E c \in quotes[s][l.hq] : l.price < c.price

(* remove_listing drops the quote and asks again.                           *)
TakesAway(s, l) == \E c \in quotes[s][l.hq] : l.price <= c.price

-----------------------------------------------------------------------------
(* The worker.                                                              *)

(* receivers.clone() resubscribes the analyzer to the bus.                  *)
Subscribe ==
    /\ phase = "off"
    /\ phase' = "boot"
    /\ UNCHANGED <<live, task, queue, quotes, work, asking, copied, snapshot, history>>

(* The selectors a listing is filed under.                                  *)
Narrowing(l) == <<Region, DcOf[l.world], l.world>>

(* Calls to make for listings one after the other, for each at some of its  *)
(* selectors.                                                               *)
Calls(op, ls, levels) ==
    LET width == Len(levels)
    IN  [n \in 1 .. width * Len(ls) |->
            LET l     == ls[((n - 1) \div width) + 1]
                level == levels[((n - 1) % width) + 1]
            IN  [op |-> op, sel |-> Narrowing(l)[level], listing |-> l]]

AddCalls(ls) == Calls("add", ls, <<1, 2, 3>>)

(* remove_listings goes through the region first, under one lock.           *)
RemoveCalls(ls) == Calls("remove", ls, <<1>>) \o Calls("remove", ls, <<2, 3>>)

(* The rows of UltrosDb::cheapest_listings: of every world and quality the  *)
(* cheapest, ties included.                                                 *)
Summaries ==
    UNION {Cheapest({l \in live : l.world = w /\ l.hq = q}) : w \in Worlds, q \in Qualities}

(* Startup without a snapshot: the rows of one query, in any order.         *)
Load ==
    /\ phase = "boot" /\ snapshot = {}
    /\ \E rows \in SetToSeqs(Summaries) : work' = AddCalls(rows)
    /\ phase' = "load"
    /\ UNCHANGED <<live, task, queue, quotes, asking, copied, snapshot, history>>

(* while let Some(Ok(..)): an error ends the stream and the load.           *)
LoadStops ==
    /\ phase = "load" /\ work # <<>>
    /\ work' = <<>>
    /\ failed' = TRUE
    /\ UNCHANGED <<live, task, queue, phase, quotes, asking, copied, snapshot,
                   unsaid, lost, untouched, unasked>>

(* initiated.store(true): from here on readers are let in.                  *)
Prime ==
    /\ phase = "load" /\ work = <<>>
    /\ phase' = "live"
    /\ UNCHANGED <<live, task, queue, quotes, work, asking, copied, snapshot, history>>

(* Startup with a snapshot: the database is not asked.                      *)
Restore ==
    /\ phase = "boot"
    /\ \E saved \in snapshot : quotes' = saved
    /\ phase' = "live"
    /\ untouched' = [s \in Selectors |-> Qualities]
    /\ unasked' = [s \in Selectors |-> Qualities]
    /\ UNCHANGED <<live, task, queue, work, asking, copied, snapshot, unsaid, lost, failed>>

(* The event with listings; an Add event only offers the cheapest of them   *)
(* (all are of one world), whatever its quality.                            *)
Receive ==
    /\ phase = "live" /\ work = <<>> /\ queue # <<>>
    /\ LET e == Head(queue)
       IN  IF e.type = "Add"
           THEN IF e.listings = {} THEN work' = <<>>
                ELSE \E l \in Cheapest(e.listings) : work' = AddCalls(<<l>>)
           ELSE \E ls \in SetToSeqs(e.listings) : work' = RemoveCalls(ls)
    /\ queue' = Tail(queue)
    /\ UNCHANGED <<live, task, phase, quotes, asking, copied, snapshot, history>>

CallAdd ==
    /\ work # <<>> /\ Head(work).op = "add"
    /\ AddListing(Head(work).sel, Head(work).listing)
    /\ work' = Tail(work)
    /\ UNCHANGED <<live, task, queue, phase, asking, copied, snapshot,
                   unsaid, lost, failed, unasked>>

CallRemove ==
    /\ work # <<>> /\ Head(work).op = "remove" /\ asking = {}
    /\ LET s == Head(work).sel
           l == Head(work).listing
       IN  IF TakesAway(s, l)
           THEN /\ quotes' = [quotes EXCEPT ![s][l.hq] = {}]
                /\ asking' = {[left |-> WorldsIn(s), found |-> {}]}
                /\ untouched' = [untouched EXCEPT ![s] = @ \ {l.hq}]
                /\ UNCHANGED work
           ELSE /\ work' = Tail(work)
                /\ UNCHANGED <<quotes, asking, untouched>>
    /\ UNCHANGED <<live, task, queue, phase, copied, snapshot,
                   unsaid, lost, failed, unasked>>

(* The query of one world answers with a cheapest row of the quality.       *)
Answer(w) ==
    /\ \E a \in asking :
          /\ w \in a.left
          /\ LET rows == Cheapest({l \in live : l.world = w /\ l.hq = Head(work).listing.hq})
             IN  IF rows = {} THEN asking' = {[a EXCEPT !.left = @ \ {w}]}
                 ELSE \E l \in rows :
                        asking' = {[left |-> a.left \ {w}, found |-> a.found \cup {l}]}
    /\ UNCHANGED <<live, task, queue, phase, quotes, work, copied, snapshot, history>>

(* All have answered: what they found is added; the last of a tie wins.     *)
Requoted ==
    /\ \E a \in asking :
          /\ a.left = {}
          /\ LET s == Head(work).sel
                 q == Head(work).listing.hq
             IN  /\ IF a.found = {} THEN UNCHANGED quotes
                    ELSE \E l \in Cheapest(a.found) :
                            quotes' = [quotes EXCEPT ![s][q] = Lowered(@, l)]
                 /\ unasked' = [unasked EXCEPT ![s] = @ \ {q}]
    /\ asking' = {}
    /\ work' = Tail(work)
    /\ UNCHANGED <<live, task, queue, phase, copied, snapshot,
                   unsaid, lost, failed, untouched>>

(* try_join_all: one error and nothing is added; the quote stays vacant.    *)
AskFails ==
    /\ asking # {}
    /\ asking' = {}
    /\ work' = Tail(work)
    /\ failed' = TRUE
    /\ UNCHANGED <<live, task, queue, phase, quotes, copied, snapshot,
                   unsaid, lost, untouched, unasked>>

-----------------------------------------------------------------------------
(* Readers, snapshots and the end of the process.                           *)

(* The write lock of a selector is held while a call works on it, that of   *)
(* the region while a Remove event has calls left for it.                   *)
Locked(s) ==
    /\ work # <<>> /\ Head(work).sel = s
    /\ asking # {} \/ (s = Region /\ Head(work).op = "remove")

(* get_analyzer_state clones one selector after the other.                  *)
Copy(s) ==
    /\ Snapshots /\ phase = "live"
    /\ s \notin DOMAIN copied /\ ~Locked(s)
    /\ copied' = [r \in DOMAIN copied \cup {s} |-> IF r = s THEN quotes[s] ELSE copied[r]]
    /\ UNCHANGED <<live, task, queue, phase, quotes, work, asking, snapshot, history>>

WriteSnapshot ==
    /\ DOMAIN copied = Selectors
    /\ snapshot' = {copied}
    /\ copied' = <<>>
    /\ UNCHANGED <<live, task, queue, phase, quotes, work, asking, history>>

(* The process ends and starts again: tasks, events and quotes are gone.    *)
Restart ==
    /\ phase # "off"
    /\ task' = [t \in Tasks |-> Idle]
    /\ queue' = <<>> /\ phase' = "off"
    /\ quotes' = NoQuotes /\ work' = <<>> /\ asking' = {}
    /\ copied' = <<>>
    /\ unsaid' = {} /\ lost' = FALSE /\ failed' = FALSE
    /\ untouched' = NoQualities /\ unasked' = NoQualities
    /\ UNCHANGED <<live, snapshot>>

RowsOf(w) == {l \in Listings : l.world = w}

Next ==
    \/ \E t \in Tasks, w \in Worlds, order \in Orders :
          \E gone \in SUBSET (live \cap RowsOf(w)), new \in SUBSET (RowsOf(w) \ live) :
             Start(t, w, order, gone, new)
    \/ \E t \in Tasks :
          \/ \E l \in task[t].toInsert : InsertRow(t, l) \/ InsertFails(t, l)
          \/ DeleteMany(t) \/ DeleteManyFails(t)
          \/ \E l \in task[t].toDelete : DeleteRow(t, l)
          \/ TaskFails(t)
          \/ Tell(t)
    \/ Subscribe
    \/ Load
    \/ LoadStops
    \/ Prime
    \/ Restore
    \/ Receive
    \/ CallAdd
    \/ CallRemove
    \/ \E w \in Worlds : Answer(w)
    \/ Requoted
    \/ AskFails
    \/ \E s \in Selectors : Copy(s)
    \/ WriteSnapshot
    \/ Restart

Spec == Init /\ [][Next]_vars

-----------------------------------------------------------------------------

Events == [type : {"Add", "Remove"}, listings : SUBSET Listings]

(* Types: a selector quotes one listing of a quality at most, the feed and  *)
(* the snapshot stay inside their bounds, and the analyzer waits for the    *)
(* database only on behalf of the removal it is working on.                 *)
TypeOK ==
    /\ live \subseteq Listings /\ unsaid \subseteq Listings
    /\ \A t \in Tasks :
          /\ task[t].pc \in {"idle", "write", "tell"}
          /\ task[t].pc # "idle" => task[t].order \in Orders \cup {<<"Add">>}
          /\ task[t].pc # "write" => task[t].toInsert = {} /\ task[t].toDelete = {}
          /\ \A l, m \in task[t].toInsert \cup task[t].toDelete
                              \cup task[t].inserted \cup task[t].removed : l.world = m.world
    /\ Len(queue) <= Capacity /\ \A n \in DOMAIN queue : queue[n] \in Events
    /\ phase \in {"off", "boot", "load", "live"}
    /\ \A s \in Selectors, q \in Qualities :
          /\ quotes[s][q] \subseteq {Quote(l) : l \in Listings}
          /\ Cardinality(quotes[s][q]) <= 1
    /\ \A n \in DOMAIN work : work[n].sel \in Selectors /\ work[n].listing \in Listings
    /\ Cardinality(asking) <= 1
    /\ asking # {} => work # <<>> /\ Head(work).op = "remove"
    /\ Cardinality(snapshot) <= 1

(* A Remove event that will have the quote of quality q at s dropped if it  *)
(* is p or dearer: the analyzer is handling it, or has it queued, or a task *)
(* has yet to send it.                                                      *)
Doomed(s, q, p) ==
    LET Dooms(l) == l.hq = q /\ l.price <= p /\ l.world \in WorldsIn(s)
    IN  \/ \E n \in DOMAIN work :
              work[n].op = "remove" /\ work[n].sel = s /\ Dooms(work[n].listing)
        \/ \E n \in DOMAIN queue :
              queue[n].type = "Remove" /\ \E l \in queue[n].listings : Dooms(l)
        \/ \E t \in Tasks :
              /\ \E n \in DOMAIN task[t].order : task[t].order[n] = "Remove"
              /\ \E l \in task[t].removed : Dooms(l)

QuoteOf(S, s, q, c) == \E l \in S : Quote(l) = c /\ l.hq = q /\ l.world \in WorldsIn(s)

(* As long as the bus dropped nothing: a quote readers may see is backed by *)
(* a row of the database with its price, quality and world, or the event    *)
(* that will make the analyzer look again is on its way, whatever was       *)
(* queued, asked, inserted and deleted meanwhile by overlapping tasks, and  *)
(* although reads of the database may fail.  Two kinds of listings leave a  *)
(* quote behind that nothing takes away: one a failing task deleted without *)
(* telling, and one another task had deleted, and told of, before the task  *)
(* that inserted it announced it.  The quotes a snapshot brought back are   *)
(* exempt until the first change.                                           *)
QuotesAreBacked ==
    phase = "live" /\ ~lost =>
        \A s \in Selectors, q \in Qualities : \A c \in quotes[s][q] :
            \/ QuoteOf(live, s, q, c) \/ Doomed(s, q, c.price)
            \/ QuoteOf(unsaid, s, q, c) \/ q \in untouched[s]

(* An Add event with the listing is on its way to the quote of s, or the    *)
(* quote is being asked for behind its lock.                                *)
Owed(s, l) ==
    \/ \E n \in DOMAIN work : work[n].op = "add" /\ work[n].sel = s
                                /\ work[n].listing.hq = l.hq /\ work[n].listing.price <= l.price
    \/ \E n \in DOMAIN queue : queue[n].type = "Add" /\ l \in queue[n].listings
    \/ \E t \in Tasks : /\ \E n \in DOMAIN task[t].order : task[t].order[n] = "Add"
                        /\ l \in task[t].inserted
    \/ asking # {} /\ Head(work).sel = s /\ Head(work).listing.hq = l.hq

(* As long as the bus dropped nothing and the analyzer could read the       *)
(* database: no row of it is cheaper than the quote of its quality at each  *)
(* of its selectors, unless the news is on its way, or its task failed      *)
(* after the insert and told nobody.  After a restore this only holds from  *)
(* the first requery on.                                                    *)
NothingCheaperThanQuoted ==
    phase = "live" /\ ~lost /\ ~failed =>
        \A l \in live \ unsaid, s \in Selectors :
            l.world \in WorldsIn(s) =>
                \/ \E c \in quotes[s][l.hq] : c.price <= l.price
                \/ Owed(s, l)
                \/ l.hq \in unasked[s]

=============================================================================
