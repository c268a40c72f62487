--------------------------- MODULE PriceAlertsProof ---------------------------
(***************************************************************************)
(* The firings of an alert for an item are a cooldown apart, for any       *)
(* alerts, lists, requests and prices, although the tracker and the        *)
(* database each have a memory of the last one, and neither is right at    *)
(* every moment: the database's is behind between a delivery and its       *)
(* record, and for good when that record is never made; the tracker's is   *)
(* the database's after every refresh.                                     *)
(***************************************************************************)
EXTENDS PriceAlerts, TLAPS

-----------------------------------------------------------------------------
(* The inductive invariant.                                                 *)

(* An alert on an item has a price.                                         *)
Priced ==
    \A a \in ItemAlerts :
        /\ alerts[a].price \in Prices
        /\ a \in DOMAIN read => read[a].price \in Prices

(* What was promised lies in the past.                                      *)
Past ==
    /\ firing.at <= clock
    /\ \A a \in Alerts, i \in Items : promised[a][i] <= clock
    /\ \A a \in Alerts : alerts[a].state = "none" => \A i \in Items : promised[a][i] = Never

(* A delivery is being recorded only at "stamp", one at a time; a refresh   *)
(* holds what it has read only until it has built the rules.                *)
Stages ==
    /\ pc # "stamp" => firing.alert = {}
    /\ \A a, b \in firing.alert : a = b
    /\ firing.alert \subseteq toFire
    /\ pc \in {"items", "select", "fire", "stamp", "off"} => DOMAIN read = {}
    /\ pc = "lists" => DOMAIN read \subseteq ItemAlerts
    /\ pc = "entries" => DOMAIN read \subseteq ListAlerts
    /\ pc = "entries" => \A r \in DOMAIN rules : r[1] \notin DOMAIN read
    /\ pc = "entries" => unstamped \subseteq forgotten

(* The database remembers every promise but the one being recorded and      *)
(* those that never were.                                                   *)
Recorded ==
    \A a \in Alerts, i \in Items :
        /\ Exists(a) /\ promised[a][i] # Never
        /\ ~(a \in firing.alert /\ i = firing.item) /\ <<a, i>> \notin unstamped
        => alerts[a].last >= promised[a][i]

(* So does what a refresh has read, and so do the rules, which know besides *)
(* what was delivered since they were built.                                *)
ReadBack ==
    \A a \in DOMAIN read, i \in Items :
        promised[a][i] # Never /\ <<a, i>> \notin unstamped => read[a].last >= promised[a][i]

Remembered ==
    \A r \in DOMAIN rules :
        promised[r[1]][ItemOf[r[2]]] # Never /\ <<r[1], ItemOf[r[2]]>> \notin forgotten
            => rules[r].last >= promised[r[1]][ItemOf[r[2]]]

(* The rules of an alert have its cooldown, and those of the item at hand   *)
(* are marked before the delivery.                                          *)
OneCooldown == \A r, q \in DOMAIN rules : r[1] = q[1] => rules[r].cooldown = rules[q].cooldown

Marked ==
    pc \in {"fire", "stamp"} =>
        \A r \in DOMAIN rules :
            r[1] \in toFire /\ ItemOf[r[2]] = firing.item => rules[r].last >= firing.at

(* Whether a row should have a rule, and whether it has the right one.      *)
IsDue(r) == alerts[r[1]].state = "on" /\ (r[1] \in ListAlerts => targets[r[2]] # NoTarget)

IsFresh(r) ==
    /\ r \in DOMAIN rules <=> IsDue(r)
    /\ IsDue(r) =>
          /\ rules[r].price = IF r[1] \in ItemAlerts THEN alerts[r[1]].price ELSE targets[r[2]]
          /\ rules[r].cooldown = alerts[r[1]].cooldown

(* A handler past its first statement has the change it made to announce.   *)
Announces(h, a) ==
    /\ Busy(h) /\ calls[h].at > 1
    /\ Last(h).do = "tell" \/ (Last(h).of = a /\ Exists(a))

Owed(a) == told > 0 \/ missed \/ \E h \in Handlers : Announces(h, a)

(* What a refresh has read is what the database has, or there is something  *)
(* to announce of it.                                                       *)
IsRead(a) ==
    /\ a \in DOMAIN read <=> alerts[a].state = "on"
    /\ a \in DOMAIN read => /\ read[a].price = alerts[a].price
                            /\ read[a].cooldown = alerts[a].cooldown

Settling ==
    /\ pc = "lists" => \A a \in ItemAlerts : IsRead(a) \/ Owed(a)
    /\ pc = "entries" =>
          /\ \A a \in DOMAIN read : IsRead(a) \/ Owed(a)
          /\ \A r \in Rows : r[1] \in DOMAIN read \/ IsFresh(r) \/ Owed(r[1])
    /\ pc \in {"select", "fire", "stamp"} => \A r \in Rows : IsFresh(r) \/ Owed(r[1])

IInv == /\ TypeOK /\ Priced /\ Past /\ Stages /\ Recorded /\ ReadBack /\ Remembered /\ OneCooldown
        /\ Marked /\ Settling

-----------------------------------------------------------------------------
(* Rows, statements and handlers.                                           *)

(* A row is an alert on an item, or an alert on a list and an entry.        *)
LEMMA RowsFact ==
    ASSUME NEW r \in Rows
    PROVE  /\ r[1] \in Alerts /\ ItemOf[r[2]] \in Items
           /\ \/ r[1] \in ItemAlerts /\ r[1] \notin ListAlerts /\ r = <<r[1], r[1]>> /\ r[2] = r[1]
              \/ r[1] \in ListAlerts /\ r[1] \notin ItemAlerts /\ r[2] \in Entries
                 /\ r = <<r[1], r[2]>>
<1>1. CASE \E a \in ItemAlerts : r = <<a, a>>
    BY <1>1, AlertAssumption DEF Alerts
<1>2. CASE r \in ListAlerts \X Entries
    BY <1>2, AlertAssumption DEF Alerts
<1>3. QED
    BY <1>1, <1>2 DEF Rows

(* The rows that should have a rule.                                        *)
LEMMA DueFact ==
    /\ RowsDue \subseteq Rows
    /\ \A r \in Rows : r \in RowsDue <=> IsDue(r)
<1>1. RowsDue \subseteq Rows
    BY DEF RowsDue, Rows, On
<1>2. ASSUME NEW r \in Rows
      PROVE  r \in RowsDue <=> IsDue(r)
    <2>1. CASE r[1] \in ItemAlerts /\ r[1] \notin ListAlerts /\ r = <<r[1], r[1]>>
        <3>1. r \notin ListAlerts \X Entries
            BY <2>1
        <3>2. r \in {<<a, a>> : a \in On(ItemAlerts)} <=> r[1] \in On(ItemAlerts)
            BY <2>1
        <3>3. QED
            BY <2>1, <3>1, <3>2 DEF RowsDue, IsDue, On
    <2>2. CASE r[1] \in ListAlerts /\ r[1] \notin ItemAlerts /\ r[2] \in Entries /\ r = <<r[1], r[2]>>
        <3>1. r \in ListAlerts \X Entries
            BY <2>2
        <3>2. r \notin {<<a, a>> : a \in On(ItemAlerts)}
            BY <2>2 DEF On
        <3>3. QED
            BY <2>2, <3>1, <3>2 DEF RowsDue, IsDue
    <2>3. QED
        BY <2>1, <2>2, RowsFact
<1>3. QED
    BY <1>1, <1>2

(* The statement a handler is at, and the last of its request.              *)
LEMMA StatementFact ==
    ASSUME TypeOK, NEW h \in Handlers, Busy(h)
    PROVE  /\ calls[h].request \in Requests /\ calls[h].request # <<>>
           /\ Len(calls[h].request) \in Nat /\ calls[h].at \in 1 .. Len(calls[h].request)
           /\ At(h) \in Statement
           /\ At(h).do \in {"create", "price"} => At(h).to \in Prices
           /\ At(h).do = "cooldown" => At(h).to \in Cooldowns
           /\ At(h).do = "target" => At(h).of \in Entries /\ At(h).to \in Prices \cup {NoTarget}
           /\ At(h).do \notin {"target", "tell"} => At(h).of \in Alerts
           /\ Last(h).do = "reread" => /\ At(h).of = Last(h).of /\ Last(h).of \in Alerts
                                       /\ At(h).do \notin {"target", "delete"}
           /\ calls[h].at = Len(calls[h].request) => At(h) = Last(h)
<1> DEFINE q == calls[h].request
           n == calls[h].at
<1>1. q \in Requests /\ n \in 1 .. Len(q)
    BY DEF TypeOK, Busy
<1>2. q \in Seq(Statement) /\ q # <<>> /\ Len(q) \in 1 .. Len(q)
    BY <1>1, RequestAssumption
<1>3. q[n] \in Statement /\ q[Len(q)] \in Statement
    BY <1>1, <1>2
<1>4. q[n].do \in Ops
    BY <1>3 DEF Statement
<1>5. /\ q[n].do \in {"create", "price"} => q[n].to \in Prices
      /\ q[n].do = "cooldown" => q[n].to \in Cooldowns
      /\ q[n].do = "target" => q[n].of \in Entries /\ q[n].to \in Prices \cup {NoTarget}
      /\ q[n].do \in {"create", "enable", "disable", "price", "cooldown", "endpoints", "delete",
                     "reread"} => q[n].of \in Alerts
    BY <1>1, RequestAssumption
<1>6. /\ q[Len(q)].do = "reread" => q[Len(q)].of \in Alerts
      /\ q[Len(q)].do = "reread" => q[n].of = q[Len(q)].of /\ q[n].do \notin {"target", "delete"}
    BY <1>1, <1>2, RequestAssumption
<1>7. QED
    BY <1>1, <1>2, <1>3, <1>4, <1>5, <1>6 DEF At, Last, Ops

(* A handler at work has a request and is at one of its statements.         *)
LEMMA CallFact ==
    ASSUME TypeOK, NEW h \in Handlers, Busy(h)
    PROVE  calls[h] \in [request : {calls[h].request}, at : 1 .. Len(calls[h].request)]
BY DEF TypeOK, Busy

(* What a statement makes of its alert.                                     *)
LEMMA ChangedFact ==
    ASSUME TypeOK, NEW h \in Handlers, Busy(h), Accepted(At(h)), At(h).of \in Alerts
    PROVE  LET s == At(h)
               a == s.of
               c == Changed(s)
           IN  /\ c \in Alert /\ c.last = alerts[a].last
               /\ a \in ItemAlerts /\ alerts[a].price \in Prices => c.price \in Prices
               /\ s.do \in {"target", "tell", "reread"} => c = alerts[a]
               /\ s.do \in {"create", "enable", "disable", "price", "cooldown", "endpoints"} =>
                     c.state \in {"on", "off"}
               /\ s.do \notin {"create", "target", "tell", "reread"} => Exists(a)
               /\ s.do = "create" => alerts[a].state = "none"
               /\ c.state = "none" => alerts[a].state = "none"
<1> DEFINE s == At(h)
           a == s.of
           row == alerts[a]
           c == Changed(s)
<1>1. s \in Statement /\ row \in Alert /\ s.do \in Ops
    BY StatementFact DEF TypeOK, Statement
<1>2. /\ s.do \in {"create", "price"} => s.to \in Prices
      /\ s.do = "cooldown" => s.to \in Cooldowns
    BY StatementFact
<1>3. s.do \notin {"create", "target", "tell", "reread"} => row.state \in {"on", "off"}
    <2>1. CASE s.do \in {"enable", "disable", "price", "cooldown", "endpoints", "delete"}
        <3>1. s.do # "create" /\ s.do \notin {"target", "tell", "reread"}
            BY <2>1
        <3>2. Exists(a)
            BY <3>1, Zenon DEF Accepted
        <3>3. QED
            BY <3>2 DEF Exists
    <2>2. QED
        BY <1>1, <2>1 DEF Ops
<1>4. CASE s.do = "create"
    <2>1. row.state = "none"
        BY <1>4, Zenon DEF Accepted
    <2>2. c = [row EXCEPT !.state = "on", !.price = IF a \in ItemAlerts THEN s.to ELSE NoTarget]
        BY <1>4, Zenon DEF Changed, Created
    <2> HIDE DEF c
    <2>3. c \in Alert /\ c.last = row.last /\ c.state = "on" /\ (a \in ItemAlerts => c.price \in Prices)
        BY <1>1, <1>2, <1>4, <2>2 DEF Alert
    <2>4. QED
        BY <1>4, <2>1, <2>3 DEF c
<1>5. CASE s.do \in {"enable", "disable"}
    <2>1. c = [row EXCEPT !.state = IF s.do = "enable" THEN "on" ELSE "off"]
        <3>1. s.do = "enable" => c = [row EXCEPT !.state = "on"]
            BY Zenon DEF Changed
        <3>2. s.do = "disable" => c = [row EXCEPT !.state = "off"]
            BY Zenon DEF Changed
        <3>3. QED
            BY <1>5, <3>1, <3>2
    <2> HIDE DEF c
    <2>2. c \in Alert /\ c.last = row.last /\ c.state \in {"on", "off"} /\ c.price = row.price
        BY <1>1, <2>1 DEF Alert
    <2>3. QED
        BY <1>3, <1>5, <2>2 DEF c, Exists
<1>6. CASE s.do = "price"
    <2>1. c = [row EXCEPT !.price = s.to]
        BY <1>6, Zenon DEF Changed
    <2> HIDE DEF c
    <2>2. c \in Alert /\ c.last = row.last /\ c.state = row.state /\ c.price \in Prices
        BY <1>1, <1>2, <1>6, <2>1 DEF Alert
    <2>3. QED
        BY <1>3, <1>6, <2>2 DEF c, Exists
<1>7. CASE s.do = "cooldown"
    <2>1. c = [row EXCEPT !.cooldown = s.to]
        BY <1>7, Zenon DEF Changed
    <2> HIDE DEF c
    <2>2. c \in Alert /\ c.last = row.last /\ c.state = row.state /\ c.price = row.price
        BY <1>1, <1>2, <1>7, <2>1 DEF Alert
    <2>3. QED
        BY <1>3, <1>7, <2>2 DEF c, Exists
<1>8. CASE s.do = "delete"
    <2>1. c = [row EXCEPT !.state = "gone"]
        BY <1>8, Zenon DEF Changed
    <2> HIDE DEF c
    <2>2. c \in Alert /\ c.last = row.last /\ c.state = "gone" /\ c.price = row.price
        BY <1>1, <2>1 DEF Alert
    <2>3. QED
        BY <1>3, <1>8, <2>2 DEF c, Exists
<1>9. CASE s.do \in {"endpoints", "target", "tell", "reread"}
    <2>1. /\ s.do # "create" /\ s.do # "enable" /\ s.do # "disable" /\ s.do # "price"
          /\ s.do # "cooldown" /\ s.do # "delete"
        BY <1>9
    <2>2. c = row
        BY <2>1, Zenon DEF Changed
    <2> HIDE DEF c
    <2>3. QED
        BY <1>1, <1>3, <1>9, <2>2 DEF c, Exists
<1>10. QED
    BY <1>1, <1>4, <1>5, <1>6, <1>7, <1>8, <1>9 DEF Ops

(* The empty sequence, as a function.                                       *)
LEMMA EmptyFact == DOMAIN <<>> = {} /\ Len(<<>>) = 0
OBVIOUS

(* At the start nothing was delivered, and the first refresh is under way.  *)
LEMMA InitStrong == Init => IInv
<1> SUFFICES ASSUME Init
             PROVE  IInv
    OBVIOUS
<1>1. /\ Horizon \in Nat /\ Restarts \in Nat /\ Room \in Nat /\ Room + 1 \in Nat
      /\ Never \in Times /\ 0 \in 0 .. Horizon
    BY AlertAssumption DEF Times, Never
<1>2. NoFiring \in [item : Items, at : 0 .. Horizon, alert : SUBSET Alerts]
    <2>1. \E i \in Items : TRUE
        BY AlertAssumption
    <2>2. (CHOOSE i \in Items : TRUE) \in Items
        BY <2>1
    <2>3. QED
        BY <1>1, <2>2 DEF NoFiring
<1>3. DOMAIN read = {} /\ DOMAIN rules = {} /\ offers \in Seq([item : Items, price : Prices])
      /\ Len(offers) = 0
    BY EmptyFact DEF Init
<1>4. /\ promised \in [Alerts -> [Items -> Times]] /\ unstamped = {} /\ forgotten = {}
      /\ DOMAIN calls = Handlers /\ \A h \in Handlers : calls[h] = Idle
    BY <1>1 DEF Init
<1>5. alerts \in [Alerts -> Alert]
    BY DEF Init
<1>6. TypeOK
    <2>1. /\ targets \in [Entries -> Prices \cup {NoTarget}]
          /\ told \in 0 .. Room + 1 /\ Len(offers) <= Room
          /\ clock \in 0 .. Horizon /\ restarts \in 0 .. Restarts
          /\ firing \in [item : Items, at : 0 .. Horizon, alert : SUBSET Alerts]
        BY <1>1, <1>2, <1>3 DEF Init
    <2>2. /\ pc \in {"items", "lists", "entries", "select", "fire", "stamp", "off"}
          /\ begun \in BOOLEAN /\ missed \in BOOLEAN /\ toFire \subseteq Alerts
        BY DEF Init
    <2>3. QED
        BY <1>3, <1>4, <1>5, <2>1, <2>2 DEF TypeOK
<1>7. Priced /\ Past /\ Stages
    BY <1>3 DEF Init, Priced, Price, Past, Stages, NoFiring, Never, Alerts
<1>8. Recorded /\ ReadBack /\ Remembered /\ OneCooldown /\ Marked /\ Settling
    BY <1>3 DEF Init, Recorded, ReadBack, Remembered, OneCooldown, Marked, Settling
<1>9. QED
    BY <1>6, <1>7, <1>8 DEF IInv

-----------------------------------------------------------------------------
(* The handlers.                                                            *)

(* A request that has just been taken up has changed nothing.               *)
LEMMA BeginKeeps == ASSUME IInv, NEW h \in Handlers, Begin(h) PROVE IInv'
<1>1. PICK q \in Requests : calls' = [calls EXCEPT ![h] = [request |-> q, at |-> 1]]
    BY DEF Begin
<1>2. /\ ~Busy(h)
      /\ UNCHANGED <<alerts, targets, told, offers, pc, begun, read, rules, toFire, firing,
                     clock, promised, unstamped, forgotten, missed, restarts>>
    BY DEF Begin, dbVars, busVars, taskVars, memory
<1>3. /\ DOMAIN calls' = Handlers /\ calls'[h] = [request |-> q, at |-> 1]
      /\ \A g \in Handlers \ {h} : calls'[g] = calls[g]
    BY <1>1 DEF IInv, TypeOK
<1>4. TypeOK'
    <2>1. 1 \in 1 .. Len(q)
        BY RequestAssumption
    <2>2. \A g \in Handlers :
             \/ calls'[g] = Idle
             \/ \E p \in Requests : calls'[g] \in [request : {p}, at : 1 .. Len(p)]
        BY <1>3, <2>1 DEF IInv, TypeOK
    <2>3. QED
        BY <1>2, <1>3, <2>2 DEF IInv, TypeOK
<1>5. Priced' /\ Past' /\ Stages' /\ Recorded' /\ ReadBack' /\ Remembered' /\ OneCooldown' /\ Marked'
    BY <1>2 DEF IInv, Priced, Past, Stages, Recorded, ReadBack, Remembered, OneCooldown, Marked,
               Exists
<1>6. \A a : Owed(a) => Owed(a)'
    <2>1. \A a, g : Announces(g, a) /\ g \in Handlers => Announces(g, a)'
        BY <1>2, <1>3 DEF Announces, Busy, Last, Exists
    <2>2. QED
        BY <1>2, <2>1, Zenon DEF Owed
<1>7. Settling'
    BY <1>2, <1>6 DEF IInv, Settling, IsRead, IsFresh, IsDue
<1>8. QED
    BY <1>4, <1>5, <1>7 DEF IInv

(* A statement changes the row of its alert, or a target.                   *)
LEMMA WritesFact ==
    ASSUME IInv, NEW h \in Handlers, Busy(h), Accepted(At(h)), Writes(At(h))
    PROVE  /\ alerts' \in [Alerts -> Alert]
           /\ targets' \in [Entries -> Prices \cup {NoTarget}]
           /\ \A a \in ItemAlerts : alerts'[a].price \in Prices
           /\ \A a \in Alerts : /\ alerts'[a].last = alerts[a].last
                                /\ Exists(a)' /\ ~Exists(a) => alerts[a].state = "none"
                                /\ alerts'[a].state = "none" => alerts[a].state = "none"
           /\ \A a \in Alerts : alerts'[a] # alerts[a] =>
                 /\ a = At(h).of /\ At(h).do \notin {"target", "tell", "reread"}
                 /\ At(h).do # "delete" => Exists(a)'
           /\ \A e \in Entries : targets'[e] # targets[e] => At(h).do = "target"
           /\ At(h).do \in {"tell", "reread"} => alerts' = alerts /\ targets' = targets
<1> DEFINE s == At(h)
<1>1. /\ alerts' = IF s.of \in Alerts THEN [alerts EXCEPT ![s.of] = Changed(s)] ELSE alerts
      /\ targets' = IF s.do = "target" THEN [targets EXCEPT ![s.of] = s.to] ELSE targets
    BY DEF Writes
<1>2. TypeOK
    BY DEF IInv
<1>3. /\ s.do = "target" => s.of \in Entries /\ s.to \in Prices \cup {NoTarget}
      /\ s.do \notin {"target", "tell"} => s.of \in Alerts
      /\ s \in Statement
    BY <1>2, StatementFact
<1>4. s.of \in Alerts =>
         /\ Changed(s) \in Alert /\ Changed(s).last = alerts[s.of].last
         /\ s.of \in ItemAlerts /\ alerts[s.of].price \in Prices => Changed(s).price \in Prices
         /\ s.do \in {"target", "tell", "reread"} => Changed(s) = alerts[s.of]
         /\ s.do \in {"create", "enable", "disable", "price", "cooldown", "endpoints"} =>
               Changed(s).state \in {"on", "off"}
         /\ s.do \notin {"create", "target", "tell", "reread"} => Exists(s.of)
         /\ s.do = "create" => alerts[s.of].state = "none"
         /\ Changed(s).state = "none" => alerts[s.of].state = "none"
    BY <1>2, ChangedFact, Zenon
<1> HIDE DEF s
<1>5. /\ alerts' \in [Alerts -> Alert]
      /\ s.of \in Alerts => alerts'[s.of] = Changed(s)
      /\ \A a \in Alerts : \/ alerts'[a] = alerts[a]
                           \/ a = s.of /\ alerts'[a] = Changed(s)
    BY <1>1, <1>2, <1>4 DEF TypeOK
<1>6. /\ targets' \in [Entries -> Prices \cup {NoTarget}]
      /\ \A e \in Entries : targets'[e] # targets[e] => s.do = "target"
      /\ s.do # "target" => targets' = targets
    BY <1>1, <1>2, <1>3 DEF TypeOK
<1>7. \A a \in ItemAlerts : alerts'[a].price \in Prices
    BY <1>1, <1>4, <1>5 DEF IInv, Priced, Alerts
<1>8. ASSUME NEW a \in Alerts, alerts'[a] # alerts[a]
      PROVE  /\ a = s.of /\ s.do \notin {"target", "tell", "reread"}
             /\ s.do # "delete" => Exists(a)'
    <2>1. a = s.of /\ s.do \notin {"target", "tell", "reread"} /\ alerts'[a] = Changed(s)
        BY <1>4, <1>5, <1>8
    <2>2. s.do # "delete" =>
              s.do \in {"create", "enable", "disable", "price", "cooldown", "endpoints"}
        BY <1>3, <2>1 DEF Statement, Ops
    <2>3. s.do # "delete" => alerts'[a].state \in {"on", "off"}
        BY <1>4, <2>1, <2>2
    <2>4. QED
        BY <2>1, <2>3 DEF Exists
<1>9. \A a \in Alerts : /\ alerts'[a].last = alerts[a].last
                        /\ Exists(a)' /\ ~Exists(a) => alerts[a].state = "none"
                        /\ alerts'[a].state = "none" => alerts[a].state = "none"
    <2> SUFFICES ASSUME NEW a \in Alerts, a = s.of, alerts'[a] = Changed(s)
                 PROVE  /\ alerts'[a].last = alerts[a].last
                        /\ Exists(a)' /\ ~Exists(a) => alerts[a].state = "none"
                        /\ alerts'[a].state = "none" => alerts[a].state = "none"
        BY <1>5 DEF Exists
    <2>1. CASE s.do \in {"target", "tell", "reread"}
        BY <1>4, <2>1 DEF Exists
    <2>2. CASE s.do = "create"
        BY <1>4, <2>2
    <2>3. CASE s.do \notin {"create", "target", "tell", "reread"}
        BY <1>4, <2>3
    <2>4. QED
        BY <2>1, <2>2, <2>3
<1>10. s.do \in {"tell", "reread"} => alerts' = alerts /\ targets' = targets
    <2> SUFFICES ASSUME s.do \in {"tell", "reread"}
                 PROVE  alerts' = alerts /\ targets' = targets
        OBVIOUS
    <2>1. \A a \in Alerts : alerts'[a] = alerts[a]
        BY <1>8
    <2>2. QED
        BY <1>2, <1>5, <1>6, <2>1 DEF TypeOK
<1>11. QED
    BY <1>5, <1>6, <1>7, <1>8, <1>9, <1>10 DEF s

(* A change of the database moves nothing the tracker holds, and is         *)
(* announced or missed.                                                     *)
LEMMA WriteKeeps ==
    ASSUME IInv, TypeOK',
           UNCHANGED <<offers, pc, begun, read, rules, toFire, firing, clock, promised, unstamped,
                       forgotten, restarts>>,
           \A a \in ItemAlerts : alerts'[a].price \in Prices,
           \A a \in Alerts : /\ alerts'[a].last = alerts[a].last
                             /\ Exists(a)' /\ ~Exists(a) => alerts[a].state = "none"
                             /\ alerts'[a].state = "none" => alerts[a].state = "none"
                             /\ alerts'[a] # alerts[a] => Owed(a)',
           \A e \in Entries : targets'[e] # targets[e] => \A a \in Alerts : Owed(a)',
           \A a \in Alerts : Owed(a) => Owed(a)'
    PROVE  IInv'
<1>1. /\ Priced' /\ Past' /\ Stages' /\ ReadBack' /\ Remembered' /\ OneCooldown' /\ Marked'
    BY DEF IInv, Priced, Past, Stages, ReadBack, Remembered, OneCooldown, Marked
<1>2. Recorded'
    <2> SUFFICES ASSUME NEW a \in Alerts, NEW i \in Items, Exists(a)', promised[a][i] # Never,
                        ~(a \in firing.alert /\ i = firing.item), <<a, i>> \notin unstamped
                 PROVE  alerts'[a].last >= promised[a][i]
        BY DEF Recorded
    <2>1. alerts[a].state # "none"
        BY DEF IInv, Past
    <2>2. Exists(a) /\ alerts'[a].last = alerts[a].last
        BY <2>1
    <2>3. QED
        BY <2>2 DEF IInv, Recorded
<1>3. \A a \in Alerts : IsRead(a) \/ Owed(a) => IsRead(a)' \/ Owed(a)'
    BY DEF IsRead
<1>4. \A r \in Rows : IsFresh(r) \/ Owed(r[1]) => IsFresh(r)' \/ Owed(r[1])'
    <2> SUFFICES ASSUME NEW r \in Rows, IsFresh(r), ~Owed(r[1])'
                 PROVE  IsFresh(r)'
        BY RowsFact
    <2>1. /\ r[1] \in Alerts /\ alerts'[r[1]] = alerts[r[1]]
          /\ r[1] \notin ItemAlerts => r[2] \in Entries
          /\ r[1] \in ListAlerts => r[2] \in Entries
        BY RowsFact
    <2>2. r[2] \in Entries => targets'[r[2]] = targets[r[2]]
        BY <2>1
    <2>3. QED
        BY <2>1, <2>2 DEF IsFresh, IsDue
<1>5. Settling'
    <2>1. DOMAIN read \subseteq Alerts /\ ItemAlerts \subseteq Alerts
        BY DEF IInv, TypeOK, Alerts
    <2>2. QED
        BY <1>3, <1>4, <2>1 DEF IInv, Settling
<1>6. QED
    BY <1>1, <1>2, <1>5 DEF IInv

(* What a handler that gives up has changed is missed from then on.         *)
LEMMA GiveUpKeeps == ASSUME IInv, NEW h \in Handlers, GiveUp(h) PROVE IInv'
<1>1. /\ Busy(h) /\ calls' = [calls EXCEPT ![h] = Idle]
      /\ UNCHANGED <<told, offers, pc, begun, read, rules, toFire, firing, clock, promised,
                     unstamped, forgotten, restarts>>
    BY Zenon DEF GiveUp, busVars, taskVars, memory
<1>2. /\ DOMAIN calls' = Handlers /\ calls'[h] = Idle
      /\ \A g \in Handlers \ {h} : calls'[g] = calls[g]
    BY <1>1 DEF IInv, TypeOK
<1>3. \A g \in Handlers :
         \/ calls'[g] = Idle
         \/ \E p \in Requests : calls'[g] \in [request : {p}, at : 1 .. Len(p)]
    BY <1>2 DEF IInv, TypeOK
<1>4. CASE UNCHANGED <<alerts, targets>> /\ missed' = (missed \/ calls[h].at > 1)
    <2>1. missed' \in BOOLEAN /\ (missed => missed') /\ (calls[h].at > 1 => missed')
        BY <1>4 DEF IInv, TypeOK
    <2>2. TypeOK'
        BY <1>1, <1>2, <1>3, <1>4, <2>1 DEF IInv, TypeOK
    <2>3. \A a : Owed(a) => Owed(a)'
        <3>1. \A a, g : Announces(g, a) /\ g \in Handlers => missed' \/ Announces(g, a)'
            BY <1>1, <1>2, <1>4, <2>1 DEF Announces, Busy, Last, Exists
        <3>2. QED
            BY <1>1, <2>1, <3>1, Zenon DEF Owed
    <2>4. \A a \in ItemAlerts : alerts[a].price \in Prices
        BY DEF IInv, Priced
    <2>5. \A a \in Alerts : Exists(a)' => Exists(a)
        BY <1>4 DEF Exists
    <2>6. QED
        BY <1>1, <1>4, <2>2, <2>3, <2>4, <2>5, WriteKeeps
<1>5. CASE Accepted(At(h)) /\ Writes(At(h)) /\ missed' = TRUE
    <2>1. /\ alerts' \in [Alerts -> Alert]
          /\ targets' \in [Entries -> Prices \cup {NoTarget}]
          /\ \A a \in ItemAlerts : alerts'[a].price \in Prices
          /\ \A a \in Alerts : /\ alerts'[a].last = alerts[a].last
                               /\ Exists(a)' /\ ~Exists(a) => alerts[a].state = "none"
                               /\ alerts'[a].state = "none" => alerts[a].state = "none"
        BY <1>1, <1>5, WritesFact
    <2>2. TypeOK'
        BY <1>1, <1>2, <1>3, <1>5, <2>1 DEF IInv, TypeOK
    <2>3. \A a : Owed(a)'
        BY <1>5 DEF Owed
    <2>4. QED
        BY <1>1, <2>1, <2>2, <2>3, WriteKeeps
<1>6. QED
    BY <1>4, <1>5 DEF GiveUp, dbVars

(* What a statement changes its handler announces, unless it is announced   *)
(* already; a handler that will announce nothing leaves it missed.          *)
LEMMA ExecuteKeeps == ASSUME IInv, NEW h \in Handlers, Execute(h) PROVE IInv'
<1> DEFINE s == At(h)
           q == calls[h].request
<1>1. /\ Busy(h) /\ Accepted(At(h)) /\ Writes(At(h))
      /\ told' = IF Tells(s) /\ told <= Room THEN told + 1 ELSE told
      /\ missed' = (missed \/ Silent(h))
      /\ calls' = [calls EXCEPT ![h] = Advanced(h)]
      /\ UNCHANGED <<offers, pc, begun, read, rules, toFire, firing, clock, promised, unstamped,
                     forgotten, restarts>>
    BY DEF Execute, taskVars, memory
<1>2. TypeOK
    BY DEF IInv
<1>3. /\ q \in Requests /\ q # <<>> /\ Len(q) \in Nat /\ calls[h].at \in 1 .. Len(q)
      /\ Last(h).do = "reread" => /\ s.of = Last(h).of /\ Last(h).of \in Alerts
                                  /\ s.do \notin {"target", "delete"}
      /\ calls[h].at = Len(q) => s = Last(h)
    BY <1>1, <1>2, StatementFact
<1>4. /\ alerts' \in [Alerts -> Alert]
      /\ targets' \in [Entries -> Prices \cup {NoTarget}]
      /\ \A a \in ItemAlerts : alerts'[a].price \in Prices
      /\ \A a \in Alerts : /\ alerts'[a].last = alerts[a].last
                           /\ Exists(a)' /\ ~Exists(a) => alerts[a].state = "none"
                           /\ alerts'[a].state = "none" => alerts[a].state = "none"
    BY <1>1, WritesFact
<1>5. /\ \A a \in Alerts : alerts'[a] # alerts[a] =>
             /\ a = s.of /\ s.do \notin {"target", "tell", "reread"}
             /\ s.do # "delete" => Exists(a)'
      /\ \A e \in Entries : targets'[e] # targets[e] => s.do = "target"
      /\ s.do \in {"tell", "reread"} => alerts' = alerts /\ targets' = targets
    BY <1>1, WritesFact
<1> HIDE DEF s
<1>6. told' \in 0 .. Room + 1 /\ (told > 0 => told' > 0) /\ (Tells(s) => told' > 0)
    <2>1. told \in 0 .. Room + 1 /\ Room \in Nat \ {0}
        BY <1>2, AlertAssumption DEF TypeOK
    <2>2. QED
        BY <1>1, <2>1
<1>7. missed' \in BOOLEAN /\ (missed => missed') /\ (Silent(h) => missed')
    BY <1>1, <1>2 DEF TypeOK, Silent
<1>8. /\ DOMAIN calls' = Handlers /\ calls'[h] = Advanced(h)
      /\ \A g \in Handlers \ {h} : calls'[g] = calls[g]
    BY <1>1, <1>2 DEF TypeOK
<1>9. \/ calls[h].at = Len(q) /\ calls'[h] = Idle
      \/ /\ calls[h].at # Len(q) /\ calls'[h] \in [request : {q}, at : 1 .. Len(q)]
         /\ calls'[h].request = q /\ calls'[h].at > 1 /\ calls'[h].at \in 1 .. Len(q)
    <2>1. CASE calls[h].at = Len(q)
        BY <1>8, <2>1 DEF Advanced
    <2>2. CASE calls[h].at # Len(q)
        <3>1. calls'[h] = [calls[h] EXCEPT !.at = @ + 1]
            BY <1>8, <2>2 DEF Advanced
        <3>2. calls[h] \in [request : {q}, at : 1 .. Len(q)]
            BY <1>1, <1>2, <1>3, CallFact
        <3>3. QED
            BY <1>3, <2>2, <3>1, <3>2
    <2>3. QED
        BY <2>1, <2>2
<1>10. TypeOK'
    <2>1. \A g \in Handlers :
             \/ calls'[g] = Idle
             \/ \E p \in Requests : calls'[g] \in [request : {p}, at : 1 .. Len(p)]
        BY <1>2, <1>3, <1>8, <1>9 DEF TypeOK
    <2>2. QED
        BY <1>1, <1>2, <1>4, <1>6, <1>7, <1>8, <2>1 DEF TypeOK
<1>11. /\ \A a \in Alerts : alerts'[a] # alerts[a] => Owed(a)'
       /\ \A e \in Entries : targets'[e] # targets[e] => \A a \in Alerts : Owed(a)'
       /\ \A a \in Alerts : Owed(a) => Owed(a)'
    <2>1. CASE Silent(h)
        BY <1>7, <2>1 DEF Owed
    <2>2. CASE ~Silent(h) /\ calls[h].at = Len(q)
        <3>1. calls'[h] = Idle /\ s = Last(h) /\ s.do \in {"tell", "reread"}
            BY <1>3, <1>9, <2>2 DEF Silent
        <3>2. alerts' = alerts /\ targets' = targets
            BY <1>5, <3>1
        <3>3. s.do = "tell" => told' > 0
            BY <1>6 DEF Tells
        <3>4. s.do = "reread" /\ Exists(s.of) => told' > 0
            BY <1>6 DEF Tells
        <3>5. ASSUME NEW a \in Alerts, NEW g \in Handlers, Announces(g, a)
              PROVE  told' > 0 \/ Announces(g, a)'
            <4>1. CASE g = h
                <5>1. Last(h).do = "tell" \/ (Last(h).of = a /\ Exists(a))
                    BY <3>5, <4>1 DEF Announces
                <5>2. QED
                    BY <3>1, <3>3, <3>4, <5>1
            <4>2. CASE g # h
                BY <1>8, <3>2, <3>5, <4>2 DEF Announces, Busy, Last, Exists
            <4>3. QED
                BY <4>1, <4>2
        <3>6. \A a \in Alerts : Owed(a) => Owed(a)'
            BY <1>6, <1>7, <3>5, Zenon DEF Owed
        <3>7. QED
            BY <3>2, <3>6
    <2>3. CASE ~Silent(h) /\ calls[h].at # Len(q)
        <3>1. Busy(h)' /\ Last(h)' = Last(h) /\ calls'[h].at > 1
            BY <1>3, <1>9, <2>3 DEF Busy, Idle, Last
        <3>2. Last(h).do = "tell" => \A a \in Alerts : Owed(a)'
            BY <3>1 DEF Owed, Announces
        <3>3. \A a \in Alerts : Last(h).of = a /\ Exists(a)' => Owed(a)'
            BY <3>1 DEF Owed, Announces
        <3>4. Last(h).do # "tell" => Last(h).do = "reread"
            BY <2>3 DEF Silent
        <3>5. \A a \in Alerts : alerts'[a] # alerts[a] => Owed(a)'
            BY <1>3, <1>5, <3>2, <3>3, <3>4
        <3>6. \A e \in Entries : targets'[e] # targets[e] => \A a \in Alerts : Owed(a)'
            BY <1>3, <1>5, <3>2, <3>4
        <3>7. ASSUME NEW a \in Alerts, NEW g \in Handlers, Announces(g, a)
              PROVE  Owed(a)'
            <4>1. CASE Exists(a) /\ ~Exists(a)'
                <5>1. alerts'[a] # alerts[a]
                    BY <4>1 DEF Exists
                <5>2. QED
                    BY <3>5, <5>1
            <4>2. CASE Exists(a) => Exists(a)'
                <5>1. Announces(g, a)'
                    BY <1>8, <3>1, <3>7, <4>2 DEF Announces, Busy, Last
                <5>2. QED
                    BY <5>1, Zenon DEF Owed
            <4>3. QED
                BY <4>1, <4>2
        <3>8. \A a \in Alerts : Owed(a) => Owed(a)'
            BY <1>6, <1>7, <3>7, Zenon DEF Owed
        <3>9. QED
            BY <3>5, <3>6, <3>8
    <2>4. QED
        BY <2>1, <2>2, <2>3
<1>12. QED
    BY <1>1, <1>4, <1>10, <1>11, WriteKeeps

-----------------------------------------------------------------------------
(* The tracker's refresh.                                                   *)

(* Steps of the tracker leave what there is to announce.                    *)
LEMMA OwedStays ==
    ASSUME UNCHANGED <<alerts, calls, told, missed>>
    PROVE  \A a : Owed(a)' <=> Owed(a)
<1>1. \A a, h : Announces(h, a)' <=> Announces(h, a)
    BY DEF Announces, Busy, Last, Exists
<1>2. QED
    BY <1>1, Zenon DEF Owed

(* The rows of the refresh are those of the database, promises included.    *)
LEMMA ReadItemAlertsKeeps == ASSUME IInv, ReadItemAlerts PROVE IInv'
<1>1. /\ pc = "items" /\ pc' = "lists"
      /\ read' = [a \in On(ItemAlerts) |-> alerts[a]]
      /\ UNCHANGED <<alerts, targets, calls, told, offers, begun, rules, toFire, firing, clock,
                     promised, unstamped, forgotten, missed, restarts>>
    BY DEF ReadItemAlerts, dbVars, busVars, memory
<1>2. /\ DOMAIN read' = {a \in ItemAlerts : alerts[a].state = "on"}
      /\ \A a \in DOMAIN read' : read'[a] = alerts[a]
      /\ ItemAlerts \subseteq Alerts
    BY <1>1 DEF On, Alerts
<1>3. TypeOK'
    BY <1>1, <1>2 DEF IInv, TypeOK
<1>4. Priced' /\ Past' /\ Stages' /\ Recorded' /\ Remembered' /\ OneCooldown' /\ Marked'
    BY <1>1, <1>2
    DEF IInv, Priced, Past, Stages, Recorded, Remembered, OneCooldown, Marked, Exists
<1>5. ReadBack'
    BY <1>1, <1>2 DEF IInv, ReadBack, Recorded, Stages, Exists
<1>6. Settling'
    BY <1>1, <1>2 DEF Settling, IsRead
<1>7. QED
    BY <1>3, <1>4, <1>5, <1>6 DEF IInv

(* The rules of alerts on items are made of what was read of them.          *)
LEMMA ReadListAlertsKeeps == ASSUME IInv, ReadListAlerts PROVE IInv'
<1>1. /\ pc = "lists" /\ pc' = "entries"
      /\ rules' = [r \in {<<a, a>> : a \in DOMAIN read} |-> RuleOf(read[r[1]], read[r[1]].price)]
      /\ read' = [a \in On(ListAlerts) |-> alerts[a]]
      /\ UNCHANGED <<alerts, targets, calls, told, offers, begun, toFire, firing, clock,
                     promised, unstamped, missed, restarts>>
      /\ forgotten' = unstamped
    BY DEF ReadListAlerts, dbVars, busVars, memory
<1>2. /\ DOMAIN read' = {a \in ListAlerts : alerts[a].state = "on"}
      /\ \A a \in DOMAIN read' : read'[a] = alerts[a]
      /\ ListAlerts \subseteq Alerts
    BY <1>1 DEF On, Alerts
<1>3. /\ DOMAIN read \subseteq ItemAlerts /\ DOMAIN read \subseteq Alerts
      /\ \A a \in DOMAIN read : read[a] \in Alert
      /\ ItemAlerts \subseteq Alerts /\ ItemAlerts \cap ListAlerts = {}
    BY <1>1, AlertAssumption DEF IInv, Stages, TypeOK, Alerts
<1>4. \A a \in DOMAIN read :
          /\ <<a, a>> \in DOMAIN rules'
          /\ rules'[<<a, a>>].price = read[a].price
          /\ rules'[<<a, a>>].cooldown = read[a].cooldown
          /\ rules'[<<a, a>>].last = read[a].last
    BY <1>1 DEF RuleOf
<1>5. \A r \in DOMAIN rules' : /\ r[1] \in DOMAIN read /\ r = <<r[1], r[1]>> /\ r[2] = r[1]
                              /\ rules'[r] = RuleOf(read[r[1]], read[r[1]].price)
    BY <1>1
<1>6. TypeOK'
    <2>1. \A r \in DOMAIN rules' : r \in Rows /\ rules'[r] \in Rule
        <3> SUFFICES ASSUME NEW r \in DOMAIN rules'
                     PROVE  r \in Rows /\ rules'[r] \in Rule
            OBVIOUS
        <3>1. r[1] \in ItemAlerts /\ r[1] \in DOMAIN read /\ r = <<r[1], r[1]>>
            BY <1>3, <1>5
        <3>2. r \in Rows
            BY <3>1 DEF Rows
        <3>3. read[r[1]] \in Alert /\ read[r[1]].price \in Prices
            BY <1>3, <3>1 DEF IInv, Priced
        <3>4. rules'[r] = [price |-> read[r[1]].price, cooldown |-> read[r[1]].cooldown,
                           last |-> read[r[1]].last]
            BY <1>5 DEF RuleOf
        <3>5. QED
            BY <3>2, <3>3, <3>4 DEF Rule, Alert
    <2>2. DOMAIN rules' \subseteq Rows /\ \A r \in DOMAIN rules' : rules'[r] \in Rule
        BY <2>1
    <2>3. DOMAIN read' \subseteq Alerts /\ \A a \in DOMAIN read' : read'[a] \in Alert
        BY <1>2 DEF IInv, TypeOK
    <2>4. pc' \in {"items", "lists", "entries", "select", "fire", "stamp", "off"}
        BY <1>1
    <2>5. QED
        BY <1>1, <2>2, <2>3, <2>4, Zenon DEF IInv, TypeOK
<1>7. Priced' /\ Past' /\ Stages' /\ Recorded' /\ Marked'
    BY <1>1, <1>2, <1>3, <1>5 DEF IInv, Priced, Past, Stages, Recorded, Marked, Exists
<1>8. ReadBack'
    BY <1>1, <1>2 DEF IInv, ReadBack, Recorded, Stages, Exists
<1>9. Remembered'
    <2> SUFFICES ASSUME NEW r \in DOMAIN rules', promised[r[1]][ItemOf[r[2]]] # Never,
                        <<r[1], ItemOf[r[2]]>> \notin unstamped
                 PROVE  rules'[r].last >= promised[r[1]][ItemOf[r[2]]]
        BY <1>1 DEF Remembered
    <2>1. r[1] \in DOMAIN read /\ ItemOf[r[2]] \in Items /\ rules'[r].last = read[r[1]].last
        BY <1>4, <1>5, <1>6, RowsFact DEF TypeOK
    <2>2. QED
        BY <2>1 DEF IInv, ReadBack
<1>10. OneCooldown'
    BY <1>4, <1>5 DEF OneCooldown
<1>11. ASSUME NEW r \in Rows, r[1] \notin DOMAIN read', ~Owed(r[1])
       PROVE  IsFresh(r)'
    <2>1. CASE r[1] \in ItemAlerts /\ r[1] \notin ListAlerts /\ r = <<r[1], r[1]>>
        <3>1. IsRead(r[1])
            BY <1>1, <1>11, <2>1 DEF IInv, Settling
        <3>2. r \in DOMAIN rules' <=> r[1] \in DOMAIN read
            BY <1>4, <1>5, <2>1
        <3>3. r[1] \in DOMAIN read => /\ rules'[r].price = read[r[1]].price
                                      /\ rules'[r].cooldown = read[r[1]].cooldown
            BY <1>4, <2>1
        <3>4. QED
            BY <1>1, <2>1, <3>1, <3>2, <3>3 DEF IsFresh, IsDue, IsRead
    <2>2. CASE r[1] \in ListAlerts
        <3>1. alerts[r[1]].state # "on"
            BY <1>2, <1>11, <2>2
        <3>2. r \notin DOMAIN rules'
            BY <1>3, <1>5, <2>2
        <3>3. QED
            BY <1>1, <3>1, <3>2 DEF IsFresh, IsDue
    <2>3. QED
        BY <2>1, <2>2, RowsFact
<1>12. Settling'
    <2>1. \A a : Owed(a)' <=> Owed(a)
        BY <1>1, OwedStays
    <2>2. \A a \in DOMAIN read' : IsRead(a)'
        BY <1>1, <1>2 DEF IsRead
    <2>3. QED
        BY <1>1, <1>11, <2>1, <2>2 DEF Settling
<1>13. QED
    BY <1>6, <1>7, <1>8, <1>9, <1>10, <1>12 DEF IInv

(* The rows of one alert on a list.                                         *)
LEMMA RowsOfFact ==
    ASSUME NEW a \in ListAlerts
    PROVE  /\ RowsOf(a) \subseteq Rows
           /\ \A r \in RowsOf(a) : r[1] = a /\ r[2] \in Entries /\ targets[r[2]] # NoTarget
           /\ \A r \in Rows : r[1] = a /\ targets[r[2]] # NoTarget => r \in RowsOf(a)
<1>1. RowsOf(a) \subseteq Rows
    BY DEF RowsOf, Rows
<1>2. \A r \in RowsOf(a) : r[1] = a /\ r[2] \in Entries /\ targets[r[2]] # NoTarget
    BY DEF RowsOf
<1>3. ASSUME NEW r \in Rows, r[1] = a, targets[r[2]] # NoTarget
      PROVE  r \in RowsOf(a)
    <2>1. r[2] \in Entries /\ r = <<a, r[2]>>
        BY <1>3, RowsFact
    <2>2. QED
        BY <1>3, <2>1 DEF RowsOf
<1>4. QED
    BY <1>1, <1>2, <1>3

(* The rules of a list are those its alert and its entries ask for.         *)
LEMMA ReadEntriesKeeps == ASSUME IInv, NEW a \in Alerts, ReadEntries(a) PROVE IInv'
<1>1. /\ pc = "entries" /\ a \in DOMAIN read
      /\ rules' = [r \in DOMAIN rules \cup RowsOf(a) |->
                     IF r \in RowsOf(a) THEN RuleOf(read[a], targets[r[2]]) ELSE rules[r]]
      /\ read' = [b \in DOMAIN read \ {a} |-> read[b]]
      /\ UNCHANGED <<alerts, targets, calls, told, offers, pc, begun, toFire, firing, clock,
                     promised, unstamped, forgotten, missed, restarts>>
    BY DEF ReadEntries, dbVars, busVars, memory
<1>2. /\ a \in ListAlerts /\ read[a] \in Alert
      /\ DOMAIN read' = DOMAIN read \ {a} /\ \A b \in DOMAIN read' : read'[b] = read[b]
      /\ \A r \in DOMAIN rules : r[1] # a
    BY <1>1 DEF IInv, Stages, TypeOK
<1>3. /\ DOMAIN rules' = DOMAIN rules \cup RowsOf(a)
      /\ \A r \in RowsOf(a) : /\ rules'[r].price = targets[r[2]]
                              /\ rules'[r].cooldown = read[a].cooldown
                              /\ rules'[r].last = read[a].last
      /\ \A r \in DOMAIN rules \ RowsOf(a) : rules'[r] = rules[r]
    BY <1>1 DEF RuleOf
<1>4. /\ RowsOf(a) \subseteq Rows
      /\ \A r \in RowsOf(a) : r[1] = a /\ r[2] \in Entries /\ targets[r[2]] # NoTarget
      /\ \A r \in Rows : r[1] = a /\ targets[r[2]] # NoTarget => r \in RowsOf(a)
    BY <1>2, RowsOfFact
<1>5. /\ RowsOf(a) \cap DOMAIN rules = {}
      /\ \A r \in DOMAIN rules : rules'[r] = rules[r]
    BY <1>2, <1>3, <1>4
<1>6. TypeOK'
    <2>1. \A r \in DOMAIN rules' : rules'[r] \in Rule
        <3>1. ASSUME NEW r \in RowsOf(a)
              PROVE  rules'[r] \in Rule
            <4>1. targets[r[2]] \in Prices
                BY <1>4 DEF IInv, TypeOK
            <4>2. rules'[r] = [price |-> targets[r[2]], cooldown |-> read[a].cooldown,
                               last |-> read[a].last]
                BY <1>1 DEF RuleOf
            <4>3. QED
                BY <1>2, <4>1, <4>2 DEF Rule, Alert
        <3>2. QED
            BY <1>3, <1>5, <3>1 DEF IInv, TypeOK
    <2>2. DOMAIN rules' \subseteq Rows
        BY <1>3, <1>4 DEF IInv, TypeOK
    <2>3. DOMAIN read' \subseteq Alerts /\ \A b \in DOMAIN read' : read'[b] \in Alert
        BY <1>2 DEF IInv, TypeOK
    <2>4. QED
        BY <1>1, <2>1, <2>2, <2>3, Zenon DEF IInv, TypeOK
<1>7. Priced' /\ Past' /\ Recorded' /\ Marked' /\ ReadBack'
    BY <1>1, <1>2 DEF IInv, Priced, Past, Recorded, Marked, ReadBack, Exists
<1>8. Stages'
    BY <1>1, <1>2, <1>3, <1>4 DEF IInv, Stages
<1>9. Remembered'
    <2> SUFFICES ASSUME NEW r \in DOMAIN rules', promised[r[1]][ItemOf[r[2]]] # Never,
                        <<r[1], ItemOf[r[2]]>> \notin forgotten
                 PROVE  rules'[r].last >= promised[r[1]][ItemOf[r[2]]]
        BY <1>1 DEF Remembered
    <2>1. CASE r \in RowsOf(a)
        <3>1. /\ ItemOf[r[2]] \in Items /\ r[1] = a
              /\ <<a, ItemOf[r[2]]>> \notin unstamped
            BY <1>1, <1>4, <2>1, RowsFact DEF IInv, Stages
        <3>2. QED
            BY <1>1, <1>3, <2>1, <3>1 DEF IInv, ReadBack
    <2>2. CASE r \in DOMAIN rules
        BY <1>5, <2>2 DEF IInv, Remembered
    <2>3. QED
        BY <1>3, <2>1, <2>2
<1>10. OneCooldown'
    <2> SUFFICES ASSUME NEW r \in DOMAIN rules', NEW q \in DOMAIN rules', r[1] = q[1]
                 PROVE  rules'[r].cooldown = rules'[q].cooldown
        BY DEF OneCooldown
    <2>1. CASE r[1] = a
        BY <1>2, <1>3, <2>1
    <2>2. CASE r[1] # a
        BY <1>3, <1>4, <1>5, <2>2 DEF IInv, OneCooldown
    <2>3. QED
        BY <2>1, <2>2
<1>11. Settling'
    <2>1. \A b : Owed(b)' <=> Owed(b)
        BY <1>1, OwedStays
    <2>2. \A b \in DOMAIN read' : IsRead(b)' \/ Owed(b)
        BY <1>1, <1>2 DEF IInv, Settling, IsRead
    <2>3. ASSUME NEW r \in Rows, r[1] \notin DOMAIN read', ~Owed(r[1])
          PROVE  IsFresh(r)'
        <3>1. CASE r[1] = a
            <4>1. IsRead(a)
                BY <1>1, <2>3, <3>1 DEF IInv, Settling
            <4>2. alerts[a].state = "on" /\ read[a].cooldown = alerts[a].cooldown
                BY <1>1, <4>1 DEF IsRead
            <4>3. r \in DOMAIN rules' <=> targets[r[2]] # NoTarget
                BY <1>2, <1>3, <1>4, <3>1
            <4>4. r \in DOMAIN rules' => r \in RowsOf(a)
                BY <1>2, <1>3, <3>1
            <4>5. a \notin ItemAlerts
                BY <1>2, AlertAssumption
            <4>6. QED
                BY <1>1, <1>2, <1>3, <3>1, <4>2, <4>3, <4>4, <4>5 DEF IsFresh, IsDue
        <3>2. CASE r[1] # a
            <4>1. IsFresh(r)
                BY <1>1, <1>2, <2>3, <3>2 DEF IInv, Settling
            <4>2. r \in DOMAIN rules' <=> r \in DOMAIN rules
                BY <1>3, <1>4, <3>2
            <4>3. QED
                BY <1>1, <1>5, <4>1, <4>2 DEF IsFresh, IsDue
        <3>3. QED
            BY <3>1, <3>2
    <2>4. QED
        BY <1>1, <2>1, <2>2, <2>3 DEF Settling
<1>12. QED
    BY <1>6, <1>7, <1>8, <1>9, <1>10, <1>11 DEF IInv

(* A list left out leaves something missed.                                 *)
LEMMA SkipEntriesKeeps == ASSUME IInv, NEW a \in Alerts, SkipEntries(a) PROVE IInv'
<1>1. /\ pc = "entries" /\ a \in DOMAIN read /\ missed' = TRUE
      /\ read' = [b \in DOMAIN read \ {a} |-> read[b]]
      /\ UNCHANGED <<alerts, targets, calls, told, offers, pc, begun, rules, toFire, firing,
                     clock, promised, unstamped, forgotten, restarts>>
    BY DEF SkipEntries, dbVars, busVars, memory
<1>2. DOMAIN read' = DOMAIN read \ {a} /\ \A b \in DOMAIN read' : read'[b] = read[b]
    BY <1>1
<1>3. TypeOK'
    BY <1>1, <1>2 DEF IInv, TypeOK
<1>4. /\ Priced' /\ Past' /\ Recorded' /\ Marked' /\ ReadBack' /\ Stages' /\ Remembered'
      /\ OneCooldown'
    BY <1>1, <1>2
    DEF IInv, Priced, Past, Recorded, Marked, ReadBack, Exists, Stages, Remembered, OneCooldown
<1>5. Settling'
    BY <1>1 DEF Settling, Owed
<1>6. QED
    BY <1>3, <1>4, <1>5 DEF IInv

(* The refresh ends with nothing read and not used.                         *)
LEMMA RefreshedKeeps == ASSUME IInv, Refreshed PROVE IInv'
<1>1. /\ pc = "entries" /\ DOMAIN read = {} /\ pc' = "select" /\ begun' = TRUE
      /\ UNCHANGED <<alerts, targets, calls, told, offers, read, rules, toFire, firing, clock,
                     promised, unstamped, forgotten, missed, restarts>>
    BY DEF Refreshed, dbVars, busVars, memory
<1>2. TypeOK'
    BY <1>1 DEF IInv, TypeOK
<1>3. /\ Priced' /\ Past' /\ Recorded' /\ Marked' /\ ReadBack' /\ Stages' /\ Remembered'
      /\ OneCooldown'
    BY <1>1
    DEF IInv, Priced, Past, Recorded, Marked, ReadBack, Exists, Stages, Remembered, OneCooldown
<1>4. \A a : Owed(a)' <=> Owed(a)
    BY <1>1, OwedStays
<1>5. \A r \in Rows : IsFresh(r)' <=> IsFresh(r)
    BY <1>1 DEF IsFresh, IsDue
<1>6. Settling'
    BY <1>1, <1>4, <1>5 DEF IInv, Settling
<1>7. QED
    BY <1>2, <1>3, <1>6 DEF IInv

(* A refresh that fails leaves something missed.                            *)
LEMMA RefreshFailsKeeps == ASSUME IInv, RefreshFails PROVE IInv'
<1>1. /\ pc \in {"items", "lists"} /\ pc' \in {"select", "off"}
      /\ DOMAIN read' = {} /\ missed' = TRUE
      /\ UNCHANGED <<alerts, targets, calls, told, offers, begun, rules, toFire, firing, clock,
                     promised, unstamped, forgotten, restarts>>
    BY EmptyFact DEF RefreshFails, dbVars, busVars, memory
<1>2. TypeOK'
    BY <1>1 DEF IInv, TypeOK
<1>3. /\ Priced' /\ Past' /\ Recorded' /\ Marked' /\ ReadBack' /\ Stages' /\ Remembered'
      /\ OneCooldown'
    BY <1>1
    DEF IInv, Priced, Past, Recorded, Marked, ReadBack, Exists, Stages, Remembered, OneCooldown
<1>4. Settling'
    BY <1>1 DEF Settling, Owed
<1>5. QED
    BY <1>2, <1>3, <1>4 DEF IInv

(* At an announcement the refresh begins anew.                              *)
LEMMA HearChangeKeeps == ASSUME IInv, HearChange PROVE IInv'
<1>1. /\ pc = "select" /\ pc' = "items" /\ told > 0 /\ told' = told - 1 /\ missed' = FALSE
      /\ UNCHANGED <<alerts, targets, calls, offers, begun, read, rules, toFire, firing, clock,
                     promised, unstamped, forgotten, restarts>>
    BY DEF HearChange, dbVars, memory
<1>2. told' \in 0 .. Room + 1
    BY <1>1, AlertAssumption DEF IInv, TypeOK
<1>3. TypeOK'
    BY <1>1, <1>2 DEF IInv, TypeOK
<1>4. /\ Priced' /\ Past' /\ Recorded' /\ Marked' /\ ReadBack' /\ Stages' /\ Remembered'
      /\ OneCooldown'
    BY <1>1
    DEF IInv, Priced, Past, Recorded, Marked, ReadBack, Exists, Stages, Remembered, OneCooldown
<1>5. Settling'
    BY <1>1 DEF Settling
<1>6. QED
    BY <1>3, <1>4, <1>5 DEF IInv

-----------------------------------------------------------------------------
(* Firing.                                                                  *)

(* No firing, as a value of the variable.                                   *)
LEMMA NoFiringFact ==
    /\ NoFiring \in [item : Items, at : 0 .. Horizon, alert : SUBSET Alerts]
    /\ NoFiring.at = 0 /\ NoFiring.alert = {}
<1>1. \E i \in Items : TRUE
    BY AlertAssumption
<1>2. (CHOOSE i \in Items : TRUE) \in Items
    BY <1>1
<1>3. 0 \in 0 .. Horizon
    BY AlertAssumption
<1>4. QED
    BY <1>2, <1>3 DEF NoFiring

(* The next alert's turn, or the end of the firing.                         *)
LEMMA AfterFiringFact ==
    ASSUME TypeOK, NEW a \in Alerts, AfterFiring(a)
    PROVE  /\ toFire' \subseteq toFire /\ toFire' \subseteq Alerts
           /\ firing' \in [item : Items, at : 0 .. Horizon, alert : SUBSET Alerts]
           /\ firing'.alert = {} /\ firing'.at <= firing.at
           /\ pc' \in {"select", "fire"}
           /\ pc' = "fire" => firing'.item = firing.item /\ firing'.at = firing.at
<1>1. toFire' \subseteq toFire /\ toFire' \subseteq Alerts
    BY DEF AfterFiring, TypeOK
<1>2. firing.at \in 0 .. Horizon /\ firing.at >= 0
    BY AlertAssumption DEF TypeOK
<1>3. CASE toFire' = {}
    <2>1. firing' = NoFiring /\ pc' = "select"
        BY <1>3 DEF AfterFiring
    <2>2. QED
        BY <1>1, <1>2, <2>1, NoFiringFact
<1>4. CASE toFire' # {}
    <2>1. firing' = [firing EXCEPT !.alert = {}] /\ pc' = "fire"
        BY <1>4 DEF AfterFiring
    <2>2. firing \in [item : Items, at : 0 .. Horizon, alert : SUBSET Alerts]
        BY DEF TypeOK
    <2>3. QED
        BY <1>1, <1>2, <2>1, <2>2
<1>5. QED
    BY <1>3, <1>4

(* Sequences without their first element, and with another at the end.      *)
LEMMA OffersFact ==
    ASSUME NEW S, NEW q \in Seq(S)
    PROVE  /\ q # <<>> => /\ Head(q) \in S /\ Tail(q) \in Seq(S)
                          /\ Len(q) > 0 /\ Len(Tail(q)) = Len(q) - 1
           /\ \A x \in S : Append(q, x) \in Seq(S) /\ Len(Append(q, x)) = Len(q) + 1
           /\ Len(q) \in Nat
OBVIOUS

(* The rows a listing fires are marked with the time it was heard.          *)
LEMMA HearListingKeeps == ASSUME IInv, HearListing PROVE IInv'
<1> DEFINE o == Head(offers)
           new == Fired(o)
<1>1. /\ pc = "select" /\ offers # <<>> /\ toFire' = new /\ offers' = Tail(offers)
      /\ rules' = [r \in DOMAIN rules |-> IF r[1] \in new /\ ItemOf[r[2]] = o.item
                                          THEN [rules[r] EXCEPT !.last = clock] ELSE rules[r]]
      /\ firing' = IF toFire' = {} THEN NoFiring ELSE [item |-> o.item, at |-> clock, alert |-> {}]
      /\ pc' = IF toFire' = {} THEN "select" ELSE "fire"
      /\ UNCHANGED <<alerts, targets, calls, told, begun, read, clock, promised, unstamped,
                     forgotten, missed, restarts>>
    BY DEF HearListing, dbVars, memory
<1>2. o \in [item : Items, price : Prices]
      /\ offers' \in Seq([item : Items, price : Prices]) /\ Len(offers') <= Room
    <2>1. offers \in Seq([item : Items, price : Prices]) /\ Len(offers) <= Room /\ Room \in Nat
        BY AlertAssumption DEF IInv, TypeOK
    <2>2. offers # <<>> /\ offers' = Tail(offers)
        BY <1>1
    <2>3. /\ Head(offers) \in [item : Items, price : Prices]
          /\ Tail(offers) \in Seq([item : Items, price : Prices])
          /\ Len(Tail(offers)) = Len(offers) - 1 /\ Len(offers) \in Nat
        BY <2>1, <2>2, OffersFact, Zenon
    <2>4. Len(Tail(offers)) <= Room
        BY <2>1, <2>3
    <2>5. QED
        BY <2>2, <2>3, <2>4, Zenon
<1>3. /\ DOMAIN rules \subseteq Rows /\ \A r \in DOMAIN rules : rules[r] \in Rule
      /\ clock \in 0 .. Horizon /\ Horizon \in Nat
    BY AlertAssumption DEF IInv, TypeOK
<1>4. new \subseteq Alerts
    BY <1>3, RowsFact DEF Fired, Matched
<1> HIDE DEF new
<1>5. /\ DOMAIN rules' = DOMAIN rules
      /\ \A r \in DOMAIN rules : /\ rules'[r] \in Rule
                                 /\ rules'[r].price = rules[r].price
                                 /\ rules'[r].cooldown = rules[r].cooldown
                                 /\ rules'[r].last = clock \/ rules'[r].last = rules[r].last
                                 /\ r[1] \in new /\ ItemOf[r[2]] = o.item => rules'[r].last = clock
    <2>1. DOMAIN rules' = DOMAIN rules
        BY <1>1
    <2>2. clock \in Times
        BY <1>3 DEF Times, Never
    <2>3. ASSUME NEW r \in DOMAIN rules
          PROVE  /\ rules'[r] \in Rule
                 /\ rules'[r].price = rules[r].price
                 /\ rules'[r].cooldown = rules[r].cooldown
                 /\ rules'[r].last = clock \/ rules'[r].last = rules[r].last
                 /\ r[1] \in new /\ ItemOf[r[2]] = o.item => rules'[r].last = clock
        <3>1. rules[r] \in Rule
            BY <1>3
        <3>2. rules'[r] = IF r[1] \in new /\ ItemOf[r[2]] = o.item
                          THEN [rules[r] EXCEPT !.last = clock] ELSE rules[r]
            BY <1>1
        <3>3. [rules[r] EXCEPT !.last = clock] \in Rule
            BY <2>2, <3>1 DEF Rule
        <3>4. QED
            BY <3>1, <3>2, <3>3 DEF Rule
    <2>4. QED
        BY <2>1, <2>3
<1>6. /\ firing' \in [item : Items, at : 0 .. Horizon, alert : SUBSET Alerts]
      /\ firing'.alert = {} /\ firing'.at <= clock
      /\ pc' \in {"select", "fire"}
      /\ pc' = "fire" => firing'.item = o.item /\ firing'.at = clock
    <2>1. CASE toFire' = {}
        BY <1>1, <1>3, <2>1, NoFiringFact
    <2>2. CASE toFire' # {}
        <3>1. firing' = [item |-> o.item, at |-> clock, alert |-> {}] /\ pc' = "fire"
            BY <1>1, <2>2
        <3>2. o.item \in Items
            BY <1>2
        <3>3. QED
            BY <1>3, <3>1, <3>2
    <2>3. QED
        BY <2>1, <2>2
<1>7. TypeOK'
    <2>1. toFire' \subseteq Alerts
        BY <1>1, <1>4
    <2>2. QED
        BY <1>1, <1>2, <1>3, <1>5, <1>6, <2>1 DEF IInv, TypeOK
<1>8. Priced' /\ Past' /\ Recorded' /\ ReadBack' /\ Stages' /\ OneCooldown'
    BY <1>1, <1>5, <1>6
    DEF IInv, Priced, Past, Recorded, ReadBack, Exists, Stages, OneCooldown
<1>9. Remembered'
    <2> SUFFICES ASSUME NEW r \in DOMAIN rules, promised[r[1]][ItemOf[r[2]]] # Never,
                        <<r[1], ItemOf[r[2]]>> \notin forgotten
                 PROVE  rules'[r].last >= promised[r[1]][ItemOf[r[2]]]
        BY <1>1, <1>5 DEF Remembered
    <2>1. r[1] \in Alerts /\ ItemOf[r[2]] \in Items
        BY <1>3, RowsFact
    <2>2. promised[r[1]][ItemOf[r[2]]] <= clock
        BY <2>1 DEF IInv, Past
    <2>3. promised[r[1]][ItemOf[r[2]]] \in Times
        BY <2>1 DEF IInv, TypeOK
    <2>4. rules[r].last >= promised[r[1]][ItemOf[r[2]]]
        BY DEF IInv, Remembered
    <2>5. QED
        BY <1>3, <1>5, <2>2, <2>3, <2>4 DEF Times, Never
<1>10. Marked'
    <2> SUFFICES ASSUME pc' = "fire", NEW r \in DOMAIN rules, r[1] \in new,
                        ItemOf[r[2]] = firing'.item
                 PROVE  rules'[r].last >= firing'.at
        BY <1>1, <1>5, <1>6 DEF Marked
    <2>1. rules'[r].last = clock /\ firing'.at = clock
        BY <1>5, <1>6
    <2>2. QED
        BY <1>3, <2>1
<1>11. Settling'
    <2>1. \A a : Owed(a)' <=> Owed(a)
        BY <1>1, OwedStays
    <2>2. \A r \in Rows : IsFresh(r) \/ Owed(r[1])
        BY <1>1 DEF IInv, Settling
    <2>3. \A r \in Rows : IsFresh(r)' <=> IsFresh(r)
        <3>1. \A r \in Rows : IsDue(r)' <=> IsDue(r)
            BY <1>1 DEF IsDue
        <3>2. QED
            BY <1>1, <1>5, <3>1 DEF IsFresh
    <2>4. QED
        BY <1>6, <2>1, <2>2, <2>3 DEF Settling
<1>12. QED
    BY <1>7, <1>8, <1>9, <1>10, <1>11 DEF IInv

(* A delivery promises what the rules already hold.                         *)
LEMMA DeliverKeeps == ASSUME IInv, NEW a \in Alerts, Deliver(a) PROVE IInv'
<1>1. /\ pc = "fire" /\ pc' = "stamp" /\ a \in toFire /\ Exists(a)
      /\ promised' = [promised EXCEPT ![a][firing.item] = firing.at]
      /\ firing' = [firing EXCEPT !.alert = {a}]
      /\ UNCHANGED <<alerts, targets, calls, told, offers, begun, read, rules, toFire, clock,
                     unstamped, missed, restarts>>
      /\ forgotten' = forgotten \ {<<a, firing.item>>}
    BY DEF Deliver, Turn, dbVars, busVars, memory
<1>2. /\ firing \in [item : Items, at : 0 .. Horizon, alert : SUBSET Alerts]
      /\ promised \in [Alerts -> [Items -> Times]]
      /\ firing.at <= clock /\ firing.alert = {} /\ DOMAIN read = {}
    BY <1>1 DEF IInv, TypeOK, Past, Stages
<1>3. /\ firing' \in [item : Items, at : 0 .. Horizon, alert : SUBSET Alerts]
      /\ firing'.item = firing.item /\ firing'.at = firing.at /\ firing'.alert = {a}
    <2>1. {a} \in SUBSET Alerts
        OBVIOUS
    <2>2. QED
        BY <1>1, <1>2, <2>1
<1>4. firing.at \in Times /\ firing.item \in Items
    <2>1. firing.at \in 0 .. Horizon /\ firing.item \in Items
        BY <1>2
    <2>2. QED
        BY <2>1, AlertAssumption DEF Times, Never
<1>5. /\ promised' \in [Alerts -> [Items -> Times]]
      /\ promised'[a][firing.item] = firing.at
      /\ \A b \in Alerts, i \in Items :
            ~(b = a /\ i = firing.item) => promised'[b][i] = promised[b][i]
    <2>1. promised' = [promised EXCEPT ![a] = [promised[a] EXCEPT ![firing.item] = firing.at]]
        BY <1>1
    <2>2. [promised[a] EXCEPT ![firing.item] = firing.at] \in [Items -> Times]
        BY <1>2, <1>4
    <2>3. QED
        BY <1>2, <1>4, <2>1, <2>2
<1>6. TypeOK'
    <2>1. pc' \in {"items", "lists", "entries", "select", "fire", "stamp", "off"}
        BY <1>1
    <2>2. QED
        BY <1>1, <1>3, <1>5, <2>1, Zenon DEF IInv, TypeOK
<1>7. Priced' /\ Stages' /\ ReadBack' /\ OneCooldown' /\ Marked'
    BY <1>1, <1>2, <1>3 DEF IInv, Priced, Stages, ReadBack, OneCooldown, Marked
<1>8. Past'
    <2>1. \A b \in Alerts, i \in Items : promised'[b][i] <= clock
        BY <1>2, <1>5 DEF IInv, Past
    <2>2. \A b \in Alerts : alerts[b].state = "none" => b # a
        BY <1>1 DEF Exists
    <2>3. QED
        BY <1>1, <1>2, <1>3, <1>5, <2>1, <2>2 DEF IInv, Past
<1>9. Recorded'
    BY <1>1, <1>2, <1>3, <1>5 DEF IInv, Recorded, Exists
<1>10. Remembered'
    <2> SUFFICES ASSUME NEW r \in DOMAIN rules, promised'[r[1]][ItemOf[r[2]]] # Never,
                        <<r[1], ItemOf[r[2]]>> \notin forgotten'
                 PROVE  rules[r].last >= promised'[r[1]][ItemOf[r[2]]]
        BY <1>1 DEF Remembered
    <2>1. r[1] \in Alerts /\ ItemOf[r[2]] \in Items
        BY RowsFact DEF IInv, TypeOK
    <2>2. CASE r[1] = a /\ ItemOf[r[2]] = firing.item
        BY <1>1, <1>5, <2>2 DEF IInv, Marked
    <2>3. CASE ~(r[1] = a /\ ItemOf[r[2]] = firing.item)
        <3>1. <<r[1], ItemOf[r[2]]>> \notin forgotten
            BY <1>1, <2>3
        <3>2. QED
            BY <1>5, <2>1, <2>3, <3>1 DEF IInv, Remembered
    <2>4. QED
        BY <2>2, <2>3
<1>11. Settling'
    <2>1. \A b : Owed(b)' <=> Owed(b)
        BY <1>1, OwedStays
    <2>2. \A r \in Rows : IsFresh(r)' <=> IsFresh(r)
        BY <1>1 DEF IsFresh, IsDue
    <2>3. QED
        BY <1>1, <2>1, <2>2 DEF IInv, Settling
<1>12. QED
    BY <1>6, <1>7, <1>8, <1>9, <1>10, <1>11 DEF IInv

(* A delivery that fails leaves the mark and promises nothing.              *)
LEMMA UndeliveredKeeps == ASSUME IInv, NEW a \in Alerts, Undelivered(a) PROVE IInv'
<1>1. /\ pc = "fire" /\ AfterFiring(a)
      /\ UNCHANGED <<alerts, targets, calls, told, offers, begun, read, rules, clock, promised,
                     unstamped, forgotten, missed, restarts>>
    BY DEF Undelivered, Turn, dbVars, busVars, memory
<1>2. /\ toFire' \subseteq toFire /\ toFire' \subseteq Alerts
      /\ firing' \in [item : Items, at : 0 .. Horizon, alert : SUBSET Alerts]
      /\ firing'.alert = {} /\ firing'.at <= firing.at
      /\ pc' \in {"select", "fire"}
      /\ pc' = "fire" => firing'.item = firing.item /\ firing'.at = firing.at
    BY <1>1, AfterFiringFact DEF IInv
<1>3. /\ firing.alert = {} /\ DOMAIN read = {} /\ firing.at <= clock
      /\ clock \in Nat /\ firing.at \in Nat /\ firing'.at \in Nat
    BY <1>1, <1>2, AlertAssumption DEF IInv, Stages, Past, TypeOK
<1>4. TypeOK'
    BY <1>1, <1>2 DEF IInv, TypeOK
<1>5. Priced' /\ Past' /\ Stages' /\ ReadBack' /\ OneCooldown' /\ Remembered' /\ Recorded'
    BY <1>1, <1>2, <1>3
    DEF IInv, Priced, Past, Stages, ReadBack, OneCooldown, Remembered, Recorded, Exists
<1>6. Marked'
    BY <1>1, <1>2 DEF IInv, Marked
<1>7. Settling'
    <2>1. \A b : Owed(b)' <=> Owed(b)
        BY <1>1, OwedStays
    <2>2. \A r \in Rows : IsFresh(r)' <=> IsFresh(r)
        BY <1>1 DEF IsFresh, IsDue
    <2>3. QED
        BY <1>1, <1>2, <2>1, <2>2 DEF IInv, Settling
<1>8. QED
    BY <1>4, <1>5, <1>6, <1>7 DEF IInv

(* The database comes to remember the delivery.                             *)
LEMMA StampKeeps == ASSUME IInv, Stamp PROVE IInv'
<1>1. PICK a \in firing.alert :
          /\ pc = "stamp" /\ AfterFiring(a)
          /\ alerts' = IF Exists(a) THEN [alerts EXCEPT ![a].last = clock] ELSE alerts
          /\ unstamped' = unstamped \ ({a} \X Items)
          /\ UNCHANGED <<targets, calls, told, offers, begun, read, rules, clock, promised,
                         forgotten, missed, restarts>>
    BY DEF Stamp, busVars, memory
<1>2. /\ a \in Alerts /\ DOMAIN read = {} /\ \A b \in firing.alert : b = a
      /\ firing.at <= clock /\ clock \in 0 .. Horizon /\ Horizon \in Nat /\ clock \in Times
      /\ firing.at \in Nat
    BY <1>1, AlertAssumption DEF IInv, TypeOK, Stages, Past, Times, Never
<1>3. /\ toFire' \subseteq toFire /\ toFire' \subseteq Alerts
      /\ firing' \in [item : Items, at : 0 .. Horizon, alert : SUBSET Alerts]
      /\ firing'.alert = {} /\ firing'.at <= firing.at
      /\ pc' \in {"select", "fire"}
      /\ pc' = "fire" => firing'.item = firing.item /\ firing'.at = firing.at
    BY <1>1, <1>2, AfterFiringFact DEF IInv
<1>4. firing'.at \in Nat
    BY <1>3, AlertAssumption
<1>5. /\ alerts' \in [Alerts -> Alert]
      /\ \A b \in Alerts : /\ alerts'[b].state = alerts[b].state
                           /\ alerts'[b].price = alerts[b].price
                           /\ alerts'[b].cooldown = alerts[b].cooldown
                           /\ b # a => alerts'[b].last = alerts[b].last
      /\ Exists(a) => alerts'[a].last = clock
    <2>1. alerts \in [Alerts -> Alert]
        BY DEF IInv, TypeOK
    <2>2. [alerts[a] EXCEPT !.last = clock] \in Alert
        BY <1>2, <2>1 DEF Alert
    <2>3. alerts[a] \in Alert
        BY <1>2, <2>1
    <2>4. /\ [alerts[a] EXCEPT !.last = clock].state = alerts[a].state
          /\ [alerts[a] EXCEPT !.last = clock].price = alerts[a].price
          /\ [alerts[a] EXCEPT !.last = clock].cooldown = alerts[a].cooldown
          /\ [alerts[a] EXCEPT !.last = clock].last = clock
        BY <2>3 DEF Alert
    <2>5. alerts' = IF Exists(a) THEN [alerts EXCEPT ![a] = [alerts[a] EXCEPT !.last = clock]]
                    ELSE alerts
        BY <1>1
    <2>6. QED
        BY <1>2, <2>1, <2>2, <2>4, <2>5
<1>6. TypeOK'
    BY <1>1, <1>3, <1>5 DEF IInv, TypeOK
<1>7. Priced' /\ Stages' /\ ReadBack' /\ OneCooldown' /\ Remembered'
    BY <1>1, <1>2, <1>3, <1>5
    DEF IInv, Priced, Stages, ReadBack, OneCooldown, Remembered, Alerts
<1>8. Past'
    BY <1>1, <1>2, <1>3, <1>4, <1>5 DEF IInv, Past
<1>9. Marked'
    BY <1>1, <1>3 DEF IInv, Marked
<1>10. Recorded'
    <2> SUFFICES ASSUME NEW b \in Alerts, NEW i \in Items, Exists(b)', promised[b][i] # Never,
                        <<b, i>> \notin unstamped'
                 PROVE  alerts'[b].last >= promised[b][i]
        BY <1>1 DEF Recorded
    <2>1. Exists(b)
        BY <1>5 DEF Exists
    <2>2. promised[b][i] <= clock /\ promised[b][i] \in Times
        BY DEF IInv, Past, TypeOK
    <2>3. CASE b = a
        BY <1>2, <1>5, <2>1, <2>2, <2>3 DEF Times, Never
    <2>4. CASE b # a
        <3>1. b \notin firing.alert /\ <<b, i>> \notin unstamped
            BY <1>1, <1>2, <2>4
        <3>2. QED
            BY <1>5, <2>1, <2>4, <3>1 DEF IInv, Recorded
    <2>5. QED
        BY <2>3, <2>4
<1>11. Settling'
    <2>1. \A b \in Alerts : Owed(b)' <=> Owed(b)
        <3>1. \A b \in Alerts : \A h : Announces(h, b)' <=> Announces(h, b)
            BY <1>1, <1>5 DEF Announces, Busy, Last, Exists
        <3>2. QED
            BY <1>1, <3>1, Zenon DEF Owed
    <2>2. \A r \in Rows : IsFresh(r)' <=> IsFresh(r)
        BY <1>1, <1>5, RowsFact DEF IsFresh, IsDue
    <2>3. QED
        BY <1>1, <1>3, <2>1, <2>2, RowsFact DEF IInv, Settling
<1>12. QED
    BY <1>6, <1>7, <1>8, <1>9, <1>10, <1>11 DEF IInv

(* A delivery without a record: the database stays behind.                  *)
LEMMA StampFailsKeeps == ASSUME IInv, StampFails PROVE IInv'
<1>1. PICK a \in firing.alert :
          /\ pc = "stamp" /\ AfterFiring(a)
          /\ unstamped' = unstamped \cup {<<a, firing.item>>}
          /\ UNCHANGED <<alerts, targets, calls, told, offers, begun, read, rules, clock,
                         promised, forgotten, missed, restarts>>
    BY DEF StampFails, dbVars, busVars
<1>2. /\ a \in Alerts /\ DOMAIN read = {} /\ \A b \in firing.alert : b = a
      /\ firing.at <= clock /\ clock \in Nat /\ firing.at \in Nat /\ firing.item \in Items
    BY <1>1, AlertAssumption DEF IInv, TypeOK, Stages, Past
<1>3. /\ toFire' \subseteq toFire /\ toFire' \subseteq Alerts
      /\ firing' \in [item : Items, at : 0 .. Horizon, alert : SUBSET Alerts]
      /\ firing'.alert = {} /\ firing'.at <= firing.at
      /\ pc' \in {"select", "fire"}
      /\ pc' = "fire" => firing'.item = firing.item /\ firing'.at = firing.at
    BY <1>1, <1>2, AfterFiringFact DEF IInv
<1>4. firing'.at \in Nat
    BY <1>3, AlertAssumption
<1>5. TypeOK'
    <2>1. unstamped' \subseteq Alerts \X Items
        BY <1>1, <1>2 DEF IInv, TypeOK
    <2>2. QED
        BY <1>1, <1>3, <2>1 DEF IInv, TypeOK
<1>6. Priced' /\ Stages' /\ ReadBack' /\ OneCooldown' /\ Remembered'
    BY <1>1, <1>2, <1>3 DEF IInv, Priced, Stages, ReadBack, OneCooldown, Remembered
<1>7. Past'
    BY <1>1, <1>2, <1>3, <1>4 DEF IInv, Past
<1>8. Marked'
    BY <1>1, <1>3 DEF IInv, Marked
<1>9. Recorded'
    <2> SUFFICES ASSUME NEW b \in Alerts, NEW i \in Items, Exists(b), promised[b][i] # Never,
                        <<b, i>> \notin unstamped'
                 PROVE  alerts[b].last >= promised[b][i]
        BY <1>1 DEF Recorded, Exists
    <2>1. <<b, i>> \notin unstamped /\ ~(b \in firing.alert /\ i = firing.item)
        BY <1>1, <1>2
    <2>2. QED
        BY <2>1 DEF IInv, Recorded
<1>10. Settling'
    <2>1. \A b : Owed(b)' <=> Owed(b)
        BY <1>1, OwedStays
    <2>2. \A r \in Rows : IsFresh(r)' <=> IsFresh(r)
        BY <1>1 DEF IsFresh, IsDue
    <2>3. QED
        BY <1>1, <1>3, <2>1, <2>2 DEF IInv, Settling
<1>11. QED
    BY <1>5, <1>6, <1>7, <1>8, <1>9, <1>10 DEF IInv

-----------------------------------------------------------------------------
(* The rest of the program.                                                 *)

(* A listing announced changes the bus alone.                               *)
LEMMA AnnounceKeeps ==
    ASSUME IInv, NEW i \in Items, NEW p \in Prices, Announce(i, p)
    PROVE  IInv'
<1>1. /\ offers' = Append(IF Len(offers) = Room THEN Tail(offers) ELSE offers,
                          [item |-> i, price |-> p])
      /\ UNCHANGED <<alerts, targets, calls, told, pc, begun, read, rules, toFire, firing,
                     clock, promised, unstamped, forgotten, missed, restarts>>
    BY DEF Announce, dbVars, taskVars, memory
<1>2. offers' \in Seq([item : Items, price : Prices]) /\ Len(offers') <= Room
    <2>1. /\ offers \in Seq([item : Items, price : Prices]) /\ Len(offers) <= Room
          /\ Room \in Nat \ {0} /\ Len(offers) \in Nat
          /\ [item |-> i, price |-> p] \in [item : Items, price : Prices]
        BY AlertAssumption DEF IInv, TypeOK
    <2>2. CASE Len(offers) = Room
        <3>1. offers # <<>>
            BY <2>1, <2>2, EmptyFact
        <3>2. Tail(offers) \in Seq([item : Items, price : Prices])
              /\ Len(Tail(offers)) = Len(offers) - 1
            BY <2>1, <3>1, OffersFact
        <3>3. offers' = Append(Tail(offers), [item |-> i, price |-> p])
            BY <1>1, <2>2
        <3>4. QED
            BY <2>1, <2>2, <3>2, <3>3, OffersFact
    <2>3. CASE Len(offers) # Room
        <3>1. offers' = Append(offers, [item |-> i, price |-> p])
            BY <1>1, <2>3
        <3>2. QED
            BY <2>1, <2>3, <3>1, OffersFact
    <2>4. QED
        BY <2>2, <2>3
<1>3. TypeOK'
    BY <1>1, <1>2 DEF IInv, TypeOK
<1>4. /\ Priced' /\ Past' /\ Recorded' /\ Marked' /\ ReadBack' /\ Stages' /\ Remembered'
      /\ OneCooldown'
    BY <1>1
    DEF IInv, Priced, Past, Recorded, Marked, ReadBack, Exists, Stages, Remembered, OneCooldown
<1>5. Settling'
    <2>1. \A b : Owed(b)' <=> Owed(b)
        BY <1>1, OwedStays
    <2>2. \A r : IsFresh(r)' <=> IsFresh(r)
        BY <1>1 DEF IsFresh, IsDue
    <2>3. \A b : IsRead(b)' <=> IsRead(b)
        BY <1>1 DEF IsRead
    <2>4. QED
        BY <1>1, <2>1, <2>2, <2>3 DEF IInv, Settling
<1>6. QED
    BY <1>3, <1>4, <1>5 DEF IInv

(* Time passes.                                                             *)
LEMMA TickKeeps == ASSUME IInv, Tick PROVE IInv'
<1>1. /\ clock < Horizon /\ clock' = clock + 1
      /\ UNCHANGED <<alerts, targets, calls, told, offers, pc, begun, read, rules, toFire,
                     firing, promised, unstamped, forgotten, missed, restarts>>
    BY DEF Tick, dbVars, busVars, taskVars, memory
<1>2. clock \in 0 .. Horizon /\ Horizon \in Nat /\ firing.at \in 0 .. Horizon
      /\ \A a \in Alerts, i \in Items : promised[a][i] \in Times
    BY AlertAssumption DEF IInv, TypeOK
<1>3. TypeOK'
    <2>1. clock' \in 0 .. Horizon
        BY <1>1, <1>2
    <2>2. QED
        BY <1>1, <2>1 DEF IInv, TypeOK
<1>4. /\ Priced' /\ Recorded' /\ Marked' /\ ReadBack' /\ Stages' /\ Remembered'
      /\ OneCooldown'
    BY <1>1
    DEF IInv, Priced, Recorded, Marked, ReadBack, Exists, Stages, Remembered, OneCooldown
<1>5. Past'
    BY <1>1, <1>2 DEF IInv, Past, Times, Never
<1>6. Settling'
    <2>1. \A b : Owed(b)' <=> Owed(b)
        BY <1>1, OwedStays
    <2>2. \A r : IsFresh(r)' <=> IsFresh(r)
        BY <1>1 DEF IsFresh, IsDue
    <2>3. \A b : IsRead(b)' <=> IsRead(b)
        BY <1>1 DEF IsRead
    <2>4. QED
        BY <1>1, <2>1, <2>2, <2>3 DEF IInv, Settling
<1>7. QED
    BY <1>3, <1>4, <1>5, <1>6 DEF IInv

(* A restart forgets all but the database; a delivery it cut short is on no *)
(* record.                                                                  *)
LEMMA RestartKeeps == ASSUME IInv, Restart PROVE IInv'
<1>1. /\ restarts < Restarts /\ restarts' = restarts + 1
      /\ calls' = [h \in Handlers |-> Idle] /\ told' = 0
      /\ pc' = "items" /\ begun' = FALSE
      /\ DOMAIN read' = {} /\ DOMAIN rules' = {} /\ toFire' = {} /\ firing' = NoFiring
      /\ unstamped' = unstamped \cup (firing.alert \X {firing.item})
      /\ missed' = FALSE
      /\ UNCHANGED <<alerts, targets, clock, promised, forgotten>>
    BY EmptyFact DEF Restart, dbVars
<1>2. /\ clock \in Nat /\ Room \in Nat /\ Restarts \in Nat /\ restarts \in 0 .. Restarts
      /\ firing.alert \subseteq Alerts /\ firing.item \in Items
    BY AlertAssumption DEF IInv, TypeOK
<1>3. unstamped' \subseteq Alerts \X Items
    BY <1>1, <1>2 DEF IInv, TypeOK
<1>4. offers' \in Seq([item : Items, price : Prices]) /\ Len(offers') <= Room
    <2>1. offers' = <<>>
        BY DEF Restart
    <2>2. QED
        BY <1>2, <2>1
<1>5. TypeOK'
    <2>1. \A h \in Handlers : calls'[h] = Idle
        BY <1>1
    <2>2. told' \in 0 .. Room + 1 /\ restarts' \in 0 .. Restarts
        BY <1>1, <1>2
    <2>3. DOMAIN calls' = Handlers
        BY <1>1
    <2>4. QED
        BY <1>1, <1>3, <1>4, <2>1, <2>2, <2>3, NoFiringFact DEF IInv, TypeOK
<1>6. Priced' /\ Marked' /\ ReadBack' /\ Stages' /\ Remembered' /\ OneCooldown'
    BY <1>1, NoFiringFact
    DEF IInv, Priced, Marked, ReadBack, Stages, Remembered, OneCooldown
<1>7. Past'
    BY <1>1, <1>2, NoFiringFact DEF IInv, Past
<1>8. Recorded'
    <2> SUFFICES ASSUME NEW a \in Alerts, NEW i \in Items, Exists(a), promised[a][i] # Never,
                        <<a, i>> \notin unstamped'
                 PROVE  alerts[a].last >= promised[a][i]
        BY <1>1 DEF Recorded, Exists
    <2>1. <<a, i>> \notin unstamped /\ ~(a \in firing.alert /\ i = firing.item)
        BY <1>1
    <2>2. QED
        BY <2>1 DEF IInv, Recorded
<1>9. Settling'
    BY <1>1 DEF Settling
<1>10. QED
    BY <1>5, <1>6, <1>7, <1>8, <1>9 DEF IInv

-----------------------------------------------------------------------------
(* The theorems.                                                            *)

(* Every step keeps the invariant.                                          *)
LEMMA NextKeeps == ASSUME IInv, [Next]_vars PROVE IInv'
<1>1. ASSUME NEW h \in Handlers, Handler(h)
      PROVE  IInv'
    BY <1>1, BeginKeeps, ExecuteKeeps, GiveUpKeeps DEF Handler
<1>2. CASE Tracker
    BY <1>2, ReadItemAlertsKeeps, ReadListAlertsKeeps, RefreshedKeeps, RefreshFailsKeeps,
       ReadEntriesKeeps, SkipEntriesKeeps, DeliverKeeps, UndeliveredKeeps, StampKeeps,
       StampFailsKeeps
    DEF Tracker
<1>3. CASE HearChange \/ HearListing \/ Tick \/ Restart
    BY <1>3, HearChangeKeeps, HearListingKeeps, TickKeeps, RestartKeeps
<1>4. ASSUME NEW i \in Items, NEW p \in Prices, Announce(i, p)
      PROVE  IInv'
    BY <1>4, AnnounceKeeps
<1>5. CASE UNCHANGED vars
    <2>1. UNCHANGED <<alerts, targets, calls, told, offers, pc, begun, read, rules, toFire,
                      firing, clock, promised, unstamped, forgotten, missed, restarts>>
        BY <1>5 DEF vars, dbVars, busVars, taskVars, memory
    <2>2. TypeOK' /\ Priced' /\ Past' /\ Stages'
        BY <2>1 DEF IInv, TypeOK, Priced, Past, Stages
    <2>3. Recorded' /\ ReadBack' /\ Remembered' /\ OneCooldown' /\ Marked'
        BY <2>1 DEF IInv, Recorded, ReadBack, Remembered, OneCooldown, Marked, Exists
    <2>4. Settling'
        <3>1. \A b : Owed(b)' <=> Owed(b)
            BY <2>1, OwedStays
        <3>2. \A r : IsFresh(r)' <=> IsFresh(r)
            BY <2>1 DEF IsFresh, IsDue
        <3>3. \A b : IsRead(b)' <=> IsRead(b)
            BY <2>1 DEF IsRead
        <3>4. QED
            BY <2>1, <3>1, <3>2, <3>3 DEF IInv, Settling
    <2>5. QED
        BY <2>2, <2>3, <2>4 DEF IInv
<1>6. QED
    BY <1>1, <1>2, <1>3, <1>4, <1>5 DEF Next

(* The invariant holds throughout.                                          *)
LEMMA Invariant == Spec => []IInv
<1>1. Init => IInv
    BY InitStrong
<1>2. IInv /\ [Next]_vars => IInv'
    BY NextKeeps
<1>3. QED
    BY <1>1, <1>2, PTL DEF Spec

(* The tables, the bus, the tracker and the handlers stay what they are     *)
(* declared to be (alert.rs, price_alert_tracker.rs).                       *)
THEOREM TypeCorrect == Spec => []TypeOK
<1>1. IInv => TypeOK
    BY DEF IInv
<1>2. QED
    BY <1>1, Invariant, PTL

(* With no announcement to hear and no handler at work the tracker's rules  *)
(* are those of the database, unless, since its last refresh began, a       *)
(* refresh failed or a change was left unannounced: by a request cut short, *)
(* or by one that announces nothing, as the Discord commands on lists       *)
(* (refresh_state_from_db and the handlers of alerts and list entries).     *)
THEOREM IsFreshWhenQuiet == Spec => []QuietIsFresh
<1>1. IInv => QuietIsFresh
    <2> SUFFICES ASSUME IInv, pc \in {"select", "fire", "stamp"}, told = 0, ~missed,
                        \A h \in Handlers : ~Busy(h)
                 PROVE  Fresh
        BY DEF QuietIsFresh
    <2>1. \A a : ~Owed(a)
        BY DEF Owed, Announces
    <2>2. \A r \in Rows : IsFresh(r)
        BY <2>1 DEF IInv, Settling
    <2>3. DOMAIN rules = RowsDue
        BY <2>2, DueFact DEF IsFresh, IInv, TypeOK
    <2>4. QED
        BY <2>2, <2>3, DueFact DEF IsFresh, Fresh
<1>2. QED
    BY <1>1, Invariant, PTL

(* A firing comes at least a cooldown after the last one that reached the   *)
(* user, whatever was refreshed, restarted or undelivered in between,       *)
(* unless that one was put on no record, by a stamp that failed or a        *)
(* process that ended before it, and the rules were rebuilt since           *)
(* (handle_added, is_off_cooldown_at).                                      *)
THEOREM FiringsApart == Spec => AlertsApart
<1>1. ASSUME IInv, HearListing, NEW a \in toFire'
      PROVE  FiresApart(a, Head(offers).item)
    <2> DEFINE o == Head(offers)
    <2>1. PICK q \in Matched(o) : q[1] = a
        BY <1>1 DEF HearListing, Fired
    <2>2. q \in DOMAIN rules /\ ItemOf[q[2]] = o.item /\ OffCooldown(rules[q], clock)
        BY <2>1 DEF Matched
    <2> SUFFICES ASSUME NEW r \in DOMAIN rules, r[1] = a, ItemOf[r[2]] = o.item,
                        promised[a][o.item] # Never, <<a, o.item>> \notin forgotten
                 PROVE  clock - promised[a][o.item] >= rules[r].cooldown
        BY DEF FiresApart
    <2>3. q \in Rows /\ rules[q] \in Rule /\ rules[r] \in Rule
        BY <1>1, <2>2 DEF IInv, TypeOK
    <2>4. a \in Alerts /\ o.item \in Items
        BY <2>1, <2>2, <2>3, RowsFact
    <2>5. promised[a][o.item] \in Times /\ clock \in Nat
        BY <1>1, <2>4, AlertAssumption DEF IInv, TypeOK
    <2>6. rules[q].last >= promised[a][o.item]
        BY <1>1, <2>1, <2>2 DEF IInv, Remembered
    <2>7. rules[q].cooldown = rules[r].cooldown
        BY <1>1, <2>1, <2>2 DEF IInv, OneCooldown
    <2>8. rules[q].last \in Times /\ rules[q].cooldown \in Nat
        BY <2>3, AlertAssumption DEF Rule
    <2>9. clock - rules[q].last >= rules[q].cooldown
        BY <2>2, <2>5, <2>6, <2>8 DEF OffCooldown, Times, Never
    <2>10. QED
        BY <2>5, <2>6, <2>7, <2>8, <2>9 DEF Times, Never
<1>2. IInv /\ [Next]_vars =>
          [HearListing => \A a \in toFire' : FiresApart(a, Head(offers).item)]_vars
    BY <1>1
<1>3. QED
    BY <1>2, Invariant, PTL DEF Spec, AlertsApart

=============================================================================
