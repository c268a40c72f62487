------------------------------ MODULE PriceAlerts ------------------------------
(***************************************************************************)
(* Price alerts.  Web handlers and Discord commands change alerts and list *)
(* entries in the database.  Most announce it at the end; the Discord      *)
(* commands on lists announce nothing.  The price-alert tracker rebuilds   *)
(* its rules from the database at every announcement, compares the         *)
(* listings it hears of with them, and delivers.  Its memory of when an    *)
(* alert last fired and the database's are two things: the first is set    *)
(* before the delivery, the second after it.                               *)
(*                                                                         *)
(* A row is what the tracker keeps a rule for: <<a, a>> of an alert on an  *)
(* item, <<a, e>> of an alert on a list and an entry of the list.  Worlds  *)
(* and quality are left out: a listing is one that the rule's worlds admit.*)
(***************************************************************************)
EXTENDS Integers, Sequences, FiniteSets

CONSTANTS
    ItemAlerts, ListAlerts,   (* alerts on an item; alerts on the list       *)
    Entries,                  (* entries of the list                         *)
    Items, ItemOf,            (* what an entry, or an alert on an item, is of *)
    Prices, Cooldowns,        (* prices and cooldowns users choose           *)
    Handlers, Requests,       (* web handlers; each request is the sequence  *)
                              (* of statements its handler executes          *)
    Room,                     (* announcements and listings a bus holds      *)
    Horizon, Restarts         (* bounds: the clock, the number of restarts   *)

Alerts == ItemAlerts \cup ListAlerts
Rows   == {<<a, a>> : a \in ItemAlerts} \cup (ListAlerts \X Entries)
Never  == -1
NoTarget == 0
Times  == Never .. Horizon

ASSUME AlertAssumption ==
    /\ ItemAlerts \cap ListAlerts = {}
    /\ Items # {}
    /\ ItemOf \in [ItemAlerts \cup Entries -> Items]
    /\ Prices \subseteq Nat \ {0} /\ Cooldowns \subseteq Nat \ {0}
    /\ Room \in Nat \ {0} /\ Horizon \in Nat /\ Restarts \in Nat

Ops == {"create", "enable", "disable", "price", "cooldown", "endpoints", "delete",
        "target", "tell", "reread"}

Statement == [do : Ops, of : Alerts \cup Entries, to : Nat]

Do(op, of, to) == [do |-> op, of |-> of, to |-> to]

(* create_alert for an item and for a list.                                 *)
CreateAlert(a, price) == <<Do("create", a, price), Do("endpoints", a, 0), Do("tell", a, 0)>>
CreateListAlert(a)    == <<Do("create", a, 1), Do("tell", a, 0)>>

(* update_alert: each field is a sequence, empty when the request leaves it *)
(* out.                                                                     *)
UpdateAlert(a, enabled, price, cooldown, endpoints) ==
    [n \in DOMAIN enabled |-> Do(IF enabled[n] THEN "enable" ELSE "disable", a, 0)]
    \o [n \in DOMAIN price |-> Do("price", a, price[n])]
    \o [n \in DOMAIN cooldown |-> Do("cooldown", a, cooldown[n])]
    \o [n \in DOMAIN endpoints |-> Do("endpoints", a, 0)]
    \o <<Do("reread", a, 0)>>

DeleteAlert(a) == <<Do("delete", a, 0), Do("tell", a, 0)>>

(* edit_list_item.  A deletion is an edit after which there is no target.   *)
EditListItem(e, target) == <<Do("target", e, target), Do("tell", e, 0)>>

(* The Discord command remove_item; a list removed by the command remove    *)
(* loses its entries so.  Neither announces anything.                       *)
RemoveItem(e) == <<Do("target", e, NoTarget)>>

(* A request that announces what is left of an alert changes that alert     *)
(* only, and does not delete it.                                            *)
ASSUME RequestAssumption ==
    \A q \in Requests :
        /\ q \in Seq(Statement) /\ q # <<>>
        /\ q[Len(q)].do = "reread" =>
              \A n \in 1 .. Len(q) : q[n].of = q[Len(q)].of /\ q[n].do \notin {"target", "delete"}
        /\ \A n \in 1 .. Len(q) :
            /\ q[n].do \in {"create", "price"} => q[n].to \in Prices
            /\ q[n].do = "cooldown" => q[n].to \in Cooldowns
            /\ q[n].do = "target" => q[n].of \in Entries /\ q[n].to \in Prices \cup {NoTarget}
            /\ q[n].do \in {"create", "enable", "disable", "price", "cooldown", "endpoints",
                            "delete", "reread"} => q[n].of \in Alerts

VARIABLES
    alerts,    (* the tables alert and alert_item_threshold                  *)
    targets,   (* target_price of the list's entries                         *)
    calls,     (* per handler: its request and the statement it is at        *)
    told,      (* announcements the tracker has not received (one past Room: *)
               (* it has lagged, which it takes for one more)                *)
    offers,    (* listings announced and not received                        *)
    pc,        (* the tracker: items, lists, entries (refresh), select,      *)
               (* fire, stamp, off                                           *)
    begun,     (* the tracker's first refresh has succeeded                  *)
    read,      (* alerts the refresh has read and not yet turned into rules  *)
    rules,     (* the tracker's rules                                        *)
    toFire,    (* alerts the listing at hand fires                           *)
    firing,    (* that listing's item, the time it was heard, and the alert  *)
               (* whose delivery is being recorded                           *)
    clock,
    promised,  (* history: per alert and item, when the last firing that was *)
               (* delivered happened                                         *)
    unstamped, (* history: alerts and items whose last delivery the database *)
               (* has no record of                                           *)
    forgotten, (* history: those of them that had none when the tracker last *)
               (* rebuilt its rules, and have not been delivered since       *)
    missed,    (* history: since the last refresh began, a refresh failed or *)
               (* a change was left unannounced                              *)
    restarts   (* restarts so far                                            *)

dbVars      == <<alerts, targets>>
busVars     == <<told, offers>>
taskVars    == <<pc, begun, read, rules, toFire, firing>>
memory      == <<promised, unstamped, forgotten>>
vars == <<dbVars, calls, busVars, taskVars, clock, memory, missed, restarts>>

Price(a) == IF a \in ItemAlerts THEN Prices ELSE {NoTarget}
Alert    == [state : {"none", "on", "off", "gone"}, price : Prices \cup {NoTarget},
             cooldown : Cooldowns, last : Times]
Rule     == [price : Prices, cooldown : Cooldowns, last : Times]

Exists(a) == alerts[a].state \in {"on", "off"}
On(as)    == {a \in as : alerts[a].state = "on"}
Idle      == [request |-> <<>>, at |-> 0]
Busy(h)   == calls[h] # Idle
NoFiring  == [item |-> CHOOSE i \in Items : TRUE, at |-> 0, alert |-> {}]

RuleOf(row, price) == [price |-> price, cooldown |-> row.cooldown, last |-> row.last]

Init ==
    /\ alerts \in [Alerts -> {r \in Alert : r.last = Never}]
    /\ \A a \in Alerts : alerts[a].price \in Price(a)
    /\ targets \in [Entries -> Prices \cup {NoTarget}]
    /\ calls = [h \in Handlers |-> Idle]
    /\ told = 0 /\ offers = <<>>
    /\ pc = "items" /\ begun = FALSE
    /\ read = <<>> /\ rules = <<>>
    /\ toFire = {} /\ firing = NoFiring
    /\ clock = 0
    /\ promised = [a \in Alerts |-> [i \in Items |-> Never]]
    /\ unstamped = {} /\ forgotten = {}
    /\ missed = FALSE
    /\ restarts = 0

-----------------------------------------------------------------------------
(* The web handlers.                                                        *)

Begin(h) ==
    /\ ~Busy(h)
    /\ \E q \in Requests : calls' = [calls EXCEPT ![h] = [request |-> q, at |-> 1]]
    /\ UNCHANGED <<dbVars, busVars, taskVars, clock, memory, missed, restarts>>

At(h) == calls[h].request[calls[h].at]

(* The alert a statement changes is looked up first.                        *)
Accepted(s) ==
    CASE s.do = "create" -> alerts[s.of].state = "none"
      [] s.do \in {"target", "tell", "reread"} -> TRUE
      [] OTHER -> Exists(s.of)

Created(a, price) ==
    [alerts[a] EXCEPT !.state = "on", !.price = IF a \in ItemAlerts THEN price ELSE NoTarget]

Changed(s) ==
    CASE s.do = "create"   -> Created(s.of, s.to)
      [] s.do = "enable"   -> [alerts[s.of] EXCEPT !.state = "on"]
      [] s.do = "disable"  -> [alerts[s.of] EXCEPT !.state = "off"]
      [] s.do = "price"    -> [alerts[s.of] EXCEPT !.price = s.to]
      [] s.do = "cooldown" -> [alerts[s.of] EXCEPT !.cooldown = s.to]
      [] s.do = "delete"   -> [alerts[s.of] EXCEPT !.state = "gone"]
      [] OTHER             -> alerts[s.of]

Tells(s) == s.do = "tell" \/ (s.do = "reread" /\ Exists(s.of))

Advanced(h) == IF calls[h].at = Len(calls[h].request) THEN Idle
               ELSE [calls[h] EXCEPT !.at = @ + 1]

Last(h) == calls[h].request[Len(calls[h].request)]

(* A request that will announce nothing.                                    *)
Silent(h) == Last(h).do \notin {"tell", "reread"}

Writes(s) ==
    /\ alerts' = IF s.of \in Alerts THEN [alerts EXCEPT ![s.of] = Changed(s)] ELSE alerts
    /\ targets' = IF s.do = "target" THEN [targets EXCEPT ![s.of] = s.to] ELSE targets

(* A slip: the announcement reaches a tracker that is waiting for one, as   *)
(* notify_waiters would.                                                    *)
TellsOnlyWaiter(h) ==
    /\ Busy(h) /\ Accepted(At(h))
    /\ Writes(At(h))
    /\ told' = IF Tells(At(h)) /\ pc = "select" /\ told <= Room THEN told + 1 ELSE told
    /\ missed' = (missed \/ Silent(h))
    /\ calls' = [calls EXCEPT ![h] = Advanced(h)]
    /\ UNCHANGED <<offers, taskVars, clock, memory, restarts>>

(* A slip: a full bus takes the announcement all the same.                  *)
TellsWithoutRoom(h) ==
    /\ Busy(h) /\ Accepted(At(h))
    /\ Writes(At(h))
    /\ told' = IF Tells(At(h)) THEN told + 1 ELSE told
    /\ missed' = (missed \/ Silent(h))
    /\ calls' = [calls EXCEPT ![h] = Advanced(h)]
    /\ UNCHANGED <<offers, taskVars, clock, memory, restarts>>

(* One statement of a request takes effect, or its event is sent.           *)
Execute(h) ==
    /\ Busy(h) /\ Accepted(At(h))
    /\ Writes(At(h))
    /\ told' = IF Tells(At(h)) /\ told <= Room THEN told + 1 ELSE told
    /\ missed' = (missed \/ Silent(h))
    /\ calls' = [calls EXCEPT ![h] = Advanced(h)]
    /\ UNCHANGED <<offers, taskVars, clock, memory, restarts>>

(* A statement fails, or the request is dropped after it took effect: the   *)
(* handler returns, and what it wrote stays unannounced.                    *)
GiveUp(h) ==
    /\ Busy(h)
    /\ \/ UNCHANGED dbVars /\ missed' = (missed \/ calls[h].at > 1)
       \/ Accepted(At(h)) /\ Writes(At(h)) /\ missed' = TRUE
    /\ calls' = [calls EXCEPT ![h] = Idle]
    /\ UNCHANGED <<busVars, taskVars, clock, memory, restarts>>

-----------------------------------------------------------------------------
(* The tracker's refresh.                                                   *)

ReadItemAlerts ==
    /\ pc = "items"
    /\ read' = [a \in On(ItemAlerts) |-> alerts[a]]
    /\ pc' = "lists"
    /\ UNCHANGED <<dbVars, calls, busVars, begun, rules, toFire, firing, clock, memory,
                   missed, restarts>>

(* A slip: the rules of lists are added to those there are.                 *)
KeepsListRules ==
    /\ pc = "lists"
    /\ rules' = [r \in {<<a, a>> : a \in DOMAIN read} \cup
                       {q \in DOMAIN rules : q[1] \in ListAlerts} |->
                   IF r[1] \in DOMAIN read THEN RuleOf(read[r[1]], read[r[1]].price) ELSE rules[r]]
    /\ read' = [a \in On(ListAlerts) |-> alerts[a]]
    /\ forgotten' = unstamped
    /\ pc' = "entries"
    /\ UNCHANGED <<dbVars, calls, busVars, begun, toFire, firing, clock, promised, unstamped,
                   missed, restarts>>

(* With both queries answered the rules are dropped and those of items      *)
(* built; those of lists follow as the lists are read.                      *)
ReadListAlerts ==
    /\ pc = "lists"
    /\ rules' = [r \in {<<a, a>> : a \in DOMAIN read} |-> RuleOf(read[r[1]], read[r[1]].price)]
    /\ read' = [a \in On(ListAlerts) |-> alerts[a]]
    /\ forgotten' = unstamped
    /\ pc' = "entries"
    /\ UNCHANGED <<dbVars, calls, busVars, begun, toFire, firing, clock, promised, unstamped,
                   missed, restarts>>

RowsOf(a) == {<<a, e>> : e \in {x \in Entries : targets[x] # NoTarget}}

ReadEntries(a) ==
    /\ pc = "entries" /\ a \in DOMAIN read
    /\ rules' = [r \in DOMAIN rules \cup RowsOf(a) |->
                   IF r \in RowsOf(a) THEN RuleOf(read[a], targets[r[2]]) ELSE rules[r]]
    /\ read' = [b \in DOMAIN read \ {a} |-> read[b]]
    /\ UNCHANGED <<dbVars, calls, busVars, pc, begun, toFire, firing, clock, memory, missed,
                   restarts>>

(* A list that cannot be read is left out, with a warning.                  *)
SkipEntries(a) ==
    /\ pc = "entries" /\ a \in DOMAIN read
    /\ read' = [b \in DOMAIN read \ {a} |-> read[b]]
    /\ missed' = TRUE
    /\ UNCHANGED <<dbVars, calls, busVars, pc, begun, rules, toFire, firing, clock, memory,
                   restarts>>

Refreshed ==
    /\ pc = "entries" /\ DOMAIN read = {}
    /\ pc' = "select" /\ begun' = TRUE
    /\ UNCHANGED <<dbVars, calls, busVars, read, rules, toFire, firing, clock, memory, missed,
                   restarts>>

(* A query fails: the rules stay; the first refresh failing, the manager    *)
(* goes on without a tracker.                                               *)
RefreshFails ==
    /\ pc \in {"items", "lists"}
    /\ pc' = IF begun THEN "select" ELSE "off"
    /\ read' = <<>>
    /\ missed' = TRUE
    /\ UNCHANGED <<dbVars, calls, busVars, begun, rules, toFire, firing, clock, memory, restarts>>

HearChange ==
    /\ pc = "select" /\ told > 0
    /\ told' = told - 1
    /\ pc' = "items"
    /\ missed' = FALSE
    /\ UNCHANGED <<dbVars, calls, offers, begun, read, rules, toFire, firing, clock, memory,
                   restarts>>

-----------------------------------------------------------------------------
(* Firing.                                                                  *)

OffCooldown(rule, now) == rule.last = Never \/ now - rule.last >= rule.cooldown

Matched(o) == {r \in DOMAIN rules : /\ ItemOf[r[2]] = o.item
                                    /\ o.price <= rules[r].price
                                    /\ OffCooldown(rules[r], clock)}

Fired(o) == {r[1] : r \in Matched(o)}

(* A listing arrives.  Every alert it matches fires once, and the rows of   *)
(* that alert kept under this item are marked.                              *)
HearListing ==
    /\ pc = "select" /\ offers # <<>>
    /\ toFire' = Fired(Head(offers))
    /\ rules' = [r \in DOMAIN rules |->
                   IF r[1] \in Fired(Head(offers)) /\ ItemOf[r[2]] = Head(offers).item
                   THEN [rules[r] EXCEPT !.last = clock] ELSE rules[r]]
    /\ firing' = IF toFire' = {} THEN NoFiring
                 ELSE [item |-> Head(offers).item, at |-> clock, alert |-> {}]
    /\ pc' = IF toFire' = {} THEN "select" ELSE "fire"
    /\ offers' = Tail(offers)
    /\ UNCHANGED <<dbVars, calls, told, begun, read, clock, memory, missed, restarts>>

(* The alerts on items are delivered before those on lists.                 *)
Turn(a) == /\ pc = "fire" /\ a \in toFire
           /\ a \in ListAlerts => toFire \cap ItemAlerts = {}

AfterFiring(a) ==
    /\ toFire' = toFire \ {a}
    /\ firing' = IF toFire' = {} THEN NoFiring ELSE [firing EXCEPT !.alert = {}]
    /\ pc' = IF toFire' = {} THEN "select" ELSE "fire"

(* At least one endpoint takes the message.  A deleted alert has none.      *)
Deliver(a) ==
    /\ Turn(a) /\ Exists(a)
    /\ promised' = [promised EXCEPT ![a][firing.item] = firing.at]
    /\ forgotten' = forgotten \ {<<a, firing.item>>}
    /\ firing' = [firing EXCEPT !.alert = {a}]
    /\ pc' = "stamp"
    /\ UNCHANGED <<dbVars, calls, busVars, begun, read, rules, toFire, clock, unstamped, missed,
                   restarts>>

Undelivered(a) ==
    /\ Turn(a)
    /\ AfterFiring(a)
    /\ UNCHANGED <<dbVars, calls, busVars, begun, read, rules, clock, memory, missed, restarts>>

(* A slip: the database keeps the time of the firing before.                *)
StampsNothing ==
    \E a \in firing.alert :
        /\ pc = "stamp"
        /\ unstamped' = unstamped \ ({a} \X Items)
        /\ AfterFiring(a)
        /\ UNCHANGED <<dbVars, calls, busVars, begun, read, rules, clock, promised, forgotten,
                       missed, restarts>>

(* The time is kept per alert: it serves for all items of a list.           *)
Stamp ==
    \E a \in firing.alert :
        /\ pc = "stamp"
        /\ alerts' = IF Exists(a) THEN [alerts EXCEPT ![a].last = clock] ELSE alerts
        /\ unstamped' = unstamped \ ({a} \X Items)
        /\ AfterFiring(a)
        /\ UNCHANGED <<targets, calls, busVars, begun, read, rules, clock, promised, forgotten,
                       missed, restarts>>

(* The delivery is on no record but the tracker's.                          *)
StampFails ==
    \E a \in firing.alert :
        /\ pc = "stamp"
        /\ unstamped' = unstamped \cup {<<a, firing.item>>}
        /\ AfterFiring(a)
        /\ UNCHANGED <<dbVars, calls, busVars, begun, read, rules, clock, promised, forgotten,
                       missed, restarts>>

-----------------------------------------------------------------------------
(* The rest of the program.                                                 *)

(* A listing is announced; a full bus drops its oldest.                     *)
Announce(i, p) ==
    /\ offers' = Append(IF Len(offers) = Room THEN Tail(offers) ELSE offers,
                        [item |-> i, price |-> p])
    /\ UNCHANGED <<dbVars, calls, told, taskVars, clock, memory, missed, restarts>>

Tick ==
    /\ clock < Horizon
    /\ clock' = clock + 1
    /\ UNCHANGED <<dbVars, calls, busVars, taskVars, memory, missed, restarts>>

(* The process ends anywhere and another starts from the database.          *)
Restart ==
    /\ restarts < Restarts
    /\ restarts' = restarts + 1
    /\ calls' = [h \in Handlers |-> Idle]
    /\ told' = 0 /\ offers' = <<>>
    /\ pc' = "items" /\ begun' = FALSE
    /\ read' = <<>> /\ rules' = <<>> /\ toFire' = {}
    /\ firing' = NoFiring
    /\ unstamped' = unstamped \cup (firing.alert \X {firing.item})
    /\ missed' = FALSE
    /\ UNCHANGED <<dbVars, clock, promised, forgotten>>

Handler(h) == Begin(h) \/ Execute(h) \/ GiveUp(h)

Tracker ==
    \/ ReadItemAlerts \/ ReadListAlerts \/ Refreshed \/ RefreshFails
    \/ \E a \in Alerts : ReadEntries(a) \/ SkipEntries(a) \/ Deliver(a) \/ Undelivered(a)
    \/ Stamp \/ StampFails

Next ==
    \/ \E h \in Handlers : Handler(h)
    \/ Tracker \/ HearChange \/ HearListing
    \/ \E i \in Items, p \in Prices : Announce(i, p)
    \/ Tick \/ Restart

(* The tracker's queries and deliveries end; tokio::select! picks among the *)
(* ready branches at random, so an announcement cannot be passed over for   *)
(* ever.                                                                    *)
Fairness == WF_vars(Tracker) /\ SF_vars(HearChange)

Spec == Init /\ [][Next]_vars /\ Fairness

-----------------------------------------------------------------------------

TypeOK ==
    /\ alerts \in [Alerts -> Alert]
    /\ targets \in [Entries -> Prices \cup {NoTarget}]
    /\ DOMAIN calls = Handlers
    /\ \A h \in Handlers : \/ calls[h] = Idle
                           \/ \E q \in Requests : calls[h] \in [request : {q}, at : 1 .. Len(q)]
    /\ told \in 0 .. Room + 1
    /\ offers \in Seq([item : Items, price : Prices]) /\ Len(offers) <= Room
    /\ pc \in {"items", "lists", "entries", "select", "fire", "stamp", "off"}
    /\ begun \in BOOLEAN /\ missed \in BOOLEAN
    /\ DOMAIN read \subseteq Alerts /\ \A a \in DOMAIN read : read[a] \in Alert
    /\ DOMAIN rules \subseteq Rows /\ \A r \in DOMAIN rules : rules[r] \in Rule
    /\ toFire \subseteq Alerts
    /\ firing \in [item : Items, at : 0 .. Horizon, alert : SUBSET Alerts]
    /\ clock \in 0 .. Horizon
    /\ promised \in [Alerts -> [Items -> Times]]
    /\ unstamped \subseteq Alerts \X Items /\ forgotten \subseteq Alerts \X Items
    /\ restarts \in 0 .. Restarts

(* What the database says the rules are.                                    *)
RowsDue == {<<a, a>> : a \in On(ItemAlerts)} \cup
           {r \in ListAlerts \X Entries : alerts[r[1]].state = "on" /\ targets[r[2]] # NoTarget}

Fresh ==
    /\ DOMAIN rules = RowsDue
    /\ \A r \in RowsDue :
         /\ rules[r].price = IF r[1] \in ItemAlerts THEN alerts[r[1]].price ELSE targets[r[2]]
         /\ rules[r].cooldown = alerts[r[1]].cooldown

(* When every announcement has been heard and every handler is done, the    *)
(* tracker's rules are the database's.  Excepted is what no announcement    *)
(* speaks of: a refresh that failed, a request that ended between its write *)
(* and its announcement, and a Discord command on a list, which has none.   *)
(* The rules may then be old until anything else is announced, and are the  *)
(* database's again after the refresh that follows.                         *)
QuietIsFresh ==
    pc \in {"select", "fire", "stamp"} /\ told = 0 /\ ~missed /\ (\A h \in Handlers : ~Busy(h))
        => Fresh

(* A firing of an alert comes at least a cooldown after the last one that   *)
(* was delivered for the same item, whatever was refreshed, restarted or    *)
(* undelivered in between (handle_added, is_off_cooldown_at).  The one      *)
(* exception is a delivery that was forgotten: its stamp failed, or the     *)
(* process ended before it, and the rules have been rebuilt from the        *)
(* database since.  Then the alert does fire again within its cooldown.     *)
FiresApart(a, i) ==
    \A r \in DOMAIN rules :
        r[1] = a /\ ItemOf[r[2]] = i /\ promised[a][i] # Never /\ <<a, i>> \notin forgotten
            => clock - promised[a][i] >= rules[r].cooldown

AlertsApart ==
    [][HearListing => \A a \in toFire' : FiresApart(a, Head(offers).item)]_vars

(* When the users have stopped changing alerts, the tracker's rules come to *)
(* be the database's and stay so, unless no tracker was started or, since   *)
(* its last refresh began, something failed or was left unannounced, as     *)
(* with QuietIsFresh.                                                       *)
SettlesFresh ==
    <>[](\A h \in Handlers : ~Busy(h)) => <>[](missed \/ pc = "off" \/ Fresh)

=============================================================================
