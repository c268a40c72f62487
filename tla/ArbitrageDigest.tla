---------------------------- MODULE ArbitrageDigest ----------------------------
(***************************************************************************)
(* What the arbitrage daemon tells a profile after a scan.  The offers the *)
(* scan found are compared with what was told before; those that changed   *)
(* and improved on their item are told at once, within a limit per hour,   *)
(* or in the digest, when one is due, or are queued.  Messages are sent    *)
(* first; what was sent is written down after the last of them, in five    *)
(* statements, and an error leaves the rest of the pass out.               *)
(*                                                                         *)
(* Times are ages: how long ago something was, up to Longest.  A pass      *)
(* takes one `now` at its start and writes it everywhere; lag is its age.  *)
(***************************************************************************)
EXTENDS Integers, FiniteSets, FiniteSetsExt

CONSTANTS
    Routes, Items, ItemOf,  (* source, destination and item of an offer       *)
    SameDc,                 (* routes within one data center                  *)
    Offers,                 (* what a scan says of a route: [net, fast]       *)
    Settings,               (* settings of profiles                           *)
    Hour, Longest,          (* the window of the limit; the longest age       *)
    Delay,                  (* bound: the age a pass reaches                  *)
    Slips                   (* bound: passes cut short, destinations missing, *)
                            (* and resets                                     *)

Strategies == {"ALL", "BEST_ONLY", "BEST_PLUS_SAME_DC"}
Modes == {"IMMEDIATE", "SCANNER_COMPLETE", "DIGEST_INTERVAL", "SCHEDULED"}
Never == -1
Ages  == Never .. Longest

(* perHour 0 stands for no immediate alerts.                                *)
ASSUME DigestAssumption ==
    /\ IsFiniteSet(Routes) /\ ItemOf \in [Routes -> Items] /\ SameDc \subseteq Routes
    /\ Offers \subseteq [net : Nat, fast : BOOLEAN]
    /\ Longest \in Nat /\ Hour \in 1 .. Longest /\ Delay \in 0 .. Longest
    /\ Slips \in Nat
    /\ Settings \subseteq [changedOnly : BOOLEAN, cooldown : 0 .. Longest, perHour : Nat,
                           mode : Modes, interval : 1 .. Longest, improve : Nat, percent : Nat,
                           empty : BOOLEAN, strategy : Strategies, rows : Nat \ {0}]

VARIABLES
    settings, market,   (* the profile's settings; route to offer, what a     *)
                        (* scan finds                                         *)
    digest, best,       (* arbitrage_digest_state: route to offer and age;    *)
                        (* arbitrage_item_alert_state: item to net profit     *)
    pending,            (* arbitrage_pending_digest: route to offer           *)
    schedule,           (* arbitrage_alert_schedule_state                     *)
    pc,                 (* what the pass does next                            *)
    lag, changed,       (* age of its now; its candidates, route to offer     *)
    urgent, sched,      (* those to tell at once; its copy of the schedule    *)
    got,                (* those it has told                                  *)
    slips,
    (* History, read by properties only.                                      *)
    told,               (* route to the offer last told and its age, since    *)
                        (* the last reset                                     *)
    unkept,             (* routes told and not written down                   *)
    peak,               (* item to the highest net profit told, messages that *)
                        (* could not be written down left out                 *)
    blurred,            (* items told and not yet written down                *)
    spent,              (* immediate alerts of the window                     *)
    sinceDigest,        (* age of the last pass that told offers in a digest  *)
    slipped             (* a pass ended with messages sent and the schedule   *)
                        (* not written                                        *)

dbVars   == <<digest, best, pending, schedule>>
passVars == <<pc, lag, changed, urgent, sched, got>>
history  == <<told, unkept, peak, blurred, spent, sinceDigest, slipped>>
vars == <<settings, market, dbVars, passVars, slips, history>>

Nothing    == [r \in {} |-> 0]
NoSchedule == [digestAge |-> Never, windowAge |-> Never, count |-> 0]

Later(age, n) == IF age = Never THEN Never
                 ELSE IF age + n > Longest THEN Longest ELSE age + n

Init ==
    /\ settings \in Settings /\ market = Nothing
    /\ digest = Nothing /\ best = Nothing /\ pending = Nothing /\ schedule = NoSchedule
    /\ pc = "rest" /\ lag = 0 /\ changed = Nothing /\ urgent = {} /\ sched = NoSchedule
    /\ got = {} /\ slips = 0
    /\ told = Nothing /\ unkept = {} /\ peak = Nothing /\ blurred = {}
    /\ spent = 0 /\ sinceDigest = Never /\ slipped = FALSE

-----------------------------------------------------------------------------
(* The pass.                                                                *)

Item(S)    == {ItemOf[r] : r \in S}
Keep(f, S) == [x \in DOMAIN f \cap S |-> f[x]]
Put(f, g)  == [x \in DOMAIN f \cup DOMAIN g |-> IF x \in DOMAIN g THEN g[x] ELSE f[x]]

OfItem(S, i) == {r \in S : ItemOf[r] = i}

(* Choices of n of the routes S with the best profit (sort, then take).     *)
Top(S, n) == {T \in SUBSET S : /\ Cardinality(T) = Min({n, Cardinality(S)})
                               /\ \A t \in T, u \in S \ T : market[t].net >= market[u].net}

(* group_opportunities_for_surface: the rows an item may get.               *)
RowChoices(i) ==
    LET group == OfItem(DOMAIN market, i)
    IN  IF settings.strategy = "ALL" THEN Top(group, settings.rows)
        ELSE UNION {IF \/ settings.strategy = "BEST_ONLY" \/ settings.rows = 1
                       \/ b \subseteq SameDc
                    THEN {b} ELSE {b \cup s : s \in Top(group \cap SameDc, 1)} : b \in Top(group, 1)}

Shown == {S \in SUBSET DOMAIN market : \A i \in Items : OfItem(S, i) \in RowChoices(i)}

Unchanged(r) == r \in DOMAIN digest /\ digest[r].offer = market[r]

(* A slip: the cooldown ends a moment early.                                *)
CooldownCutShort(r) == r \in DOMAIN digest /\ digest[r].age + 1 < settings.cooldown

OnCooldown(r) == r \in DOMAIN digest /\ digest[r].age < settings.cooldown

(* deliver_arbitrage_digest, with nothing to say, returns at once.          *)
Worthwhile(S) == S # {} \/ settings.empty

Begin ==
    /\ pc = "rest" /\ Worthwhile(DOMAIN market)
    /\ lag' = 0 /\ pc' = "items"
    /\ \E S \in Shown :
          changed' = Keep(market, {r \in S : /\ settings.changedOnly => ~Unchanged(r)
                                             /\ ~OnCooldown(r)})
    /\ UNCHANGED <<settings, market, dbVars, urgent, sched, got, slips, history>>

(* The larger of the two thresholds, a sum and a share of the profit told.  *)
Threshold(n) == LET share == (n * settings.percent + 99) \div 100
                IN  IF share > settings.improve THEN share ELSE settings.improve

Improves(r, o) ==
    ItemOf[r] \in DOMAIN best => o.net > best[ItemOf[r]] + Threshold(best[ItemOf[r]])

Improved == {ItemOf[r] : r \in {q \in DOMAIN changed : Improves(q, changed[q])}}

(* Every candidate of an item that has improved stays one.                  *)
ReadItems ==
    /\ pc = "items"
    /\ changed' = Keep(changed, {r \in Routes : ItemOf[r] \in Improved})
    /\ pc' = IF Worthwhile(DOMAIN changed') THEN "schedule" ELSE "rest"
    /\ UNCHANGED <<settings, market, dbVars, lag, urgent, sched, got, slips, history>>

WindowOver(s) == s.windowAge = Never \/ s.windowAge >= Hour

(* reset_immediate_window_if_needed                                         *)
Windowed(s) == IF WindowOver(s) THEN [s EXCEPT !.windowAge = 0, !.count = 0] ELSE s

(* A slip: the limit is one of each pass.                                   *)
PerPass(s) == settings.perHour

Remaining(s) == IF settings.perHour > s.count THEN settings.perHour - s.count ELSE 0

(* The best of the offers that are urgent, as many as the limit leaves.     *)
UrgentChoices(s) ==
    LET eligible == {r \in DOMAIN changed : changed[r].fast}
    IN  {U \in SUBSET eligible :
            /\ Cardinality(U) = Min({Cardinality(eligible), Remaining(s)})
            /\ \A u \in U, v \in eligible \ U : changed[u].net >= changed[v].net}

ReadSchedule ==
    /\ pc = "schedule"
    /\ \E U \in UrgentChoices(Windowed(schedule)) :
          /\ urgent' = U
          /\ sched' = [Windowed(schedule) EXCEPT !.count = @ + Cardinality(U)]
          /\ pc' = IF U = {} THEN "digest" ELSE "urgent"
    /\ spent' = IF WindowOver(schedule) THEN 0 ELSE spent
    /\ UNCHANGED <<settings, market, dbVars, lag, changed, got, slips,
                   told, unkept, peak, blurred, sinceDigest, slipped>>

Plain == DOMAIN changed \ urgent
Nets(S, i) == {changed[r].net : r \in OfItem(S, i)}

(* digest_state_from_opportunity: the figures, and the pass's now.          *)
States(S) == [r \in S |-> [offer |-> changed[r], age |-> lag]]

(* What a message about the routes S leaves with the user.                  *)
Tells(S) ==
    /\ got' = got \cup S
    /\ told' = Put(told, States(S))
    /\ unkept' = unkept \cup S
    /\ peak' = Put(peak, [i \in Item(S) |->
                   Max(Nets(S, i) \cup (IF i \in DOMAIN peak THEN {peak[i]} ELSE {}))])
    /\ blurred' = blurred \cup Item(S)

(* At least one destination takes the message.                              *)
SendUrgent ==
    /\ pc = "urgent"
    /\ Tells(urgent)
    /\ spent' = spent + Cardinality(urgent)
    /\ pc' = "digest"
    /\ UNCHANGED <<settings, market, dbVars, lag, changed, urgent, sched, slips,
                   sinceDigest, slipped>>

(* A slip: a digest is due a moment early.                                  *)
DueEarly(cron) ==
    CASE settings.mode = "IMMEDIATE"       -> FALSE
      [] settings.mode = "SCHEDULED"       -> cron /\ sched.digestAge # 0
      [] settings.mode = "DIGEST_INTERVAL" -> \/ sched.digestAge = Never
                                              \/ sched.digestAge >= settings.interval - 1
      [] OTHER                             -> TRUE

(* should_send_digest; whether a schedule is due now is any answer.         *)
Due(cron) ==
    CASE settings.mode = "IMMEDIATE"       -> FALSE
      [] settings.mode = "SCHEDULED"       -> cron /\ sched.digestAge # 0
      [] settings.mode = "DIGEST_INTERVAL" -> \/ sched.digestAge = Never
                                              \/ sched.digestAge >= settings.interval
      [] OTHER                             -> TRUE

SendDigest ==
    /\ pc = "digest" /\ Worthwhile(Plain)
    /\ \E cron \in BOOLEAN : Due(cron)
    /\ Tells(Plain)
    /\ sched' = [sched EXCEPT !.digestAge = 0]
    /\ sinceDigest' = IF Plain = {} THEN sinceDigest ELSE lag
    /\ pc' = "forget"
    /\ UNCHANGED <<settings, market, dbVars, lag, changed, urgent, slips, spent, slipped>>

(* No destination is configured: the pass goes on without having told.      *)
SendNowhere ==
    /\ pc = "urgent" \/ (pc = "digest" /\ Worthwhile(Plain) /\ \E cron \in BOOLEAN : Due(cron))
    /\ slips < Slips /\ slips' = slips + 1
    /\ pc' = IF pc = "urgent" THEN "digest" ELSE "forget"
    /\ UNCHANGED <<settings, market, dbVars, lag, changed, urgent, sched, got, history>>

(* upsert_arbitrage_pending_digests replaces what is queued for the items.  *)
Queued == Put(Keep(pending, {r \in Routes : ItemOf[r] \notin Item(Plain)}), Keep(changed, Plain))

Queue ==
    /\ pc = "digest"
    /\ Plain = {} \/ \E cron \in BOOLEAN : ~Due(cron)
    /\ Plain = {} => ~settings.empty \/ \E cron \in BOOLEAN : ~Due(cron)
    /\ pending' = Queued
    /\ pc' = "forget"
    /\ UNCHANGED <<settings, market, digest, best, schedule, lag, changed, urgent, sched, got,
                   slips, history>>

(* A slip: only what was told at once is taken from the queue.              *)
ForgetUrgent ==
    /\ pc = "forget"
    /\ pending' = Keep(pending, {r \in Routes : ItemOf[r] \notin Item(got \cap urgent)})
    /\ pc' = "states"
    /\ UNCHANGED <<settings, market, digest, best, schedule, lag, changed, urgent, sched, got,
                   slips, history>>

Forget ==
    /\ pc = "forget"
    /\ pending' = Keep(pending, {r \in Routes : ItemOf[r] \notin Item(got)})
    /\ pc' = "states"
    /\ UNCHANGED <<settings, market, digest, best, schedule, lag, changed, urgent, sched, got,
                   slips, history>>

(* A slip: every candidate is written down, told or not.                    *)
KeepsCandidates ==
    /\ pc = "states"
    /\ digest' = Put(digest, States(DOMAIN changed))
    /\ unkept' = unkept \ got
    /\ pc' = "best"
    /\ UNCHANGED <<settings, market, best, pending, schedule, lag, changed, urgent, sched, got,
                   slips, told, peak, blurred, spent, sinceDigest, slipped>>

(* A slip: what was told is written down without the offer's new figures.   *)
KeepsOld ==
    /\ pc = "states"
    /\ digest' = Put(States(got), digest)
    /\ unkept' = unkept \ got
    /\ pc' = "best"
    /\ UNCHANGED <<settings, market, best, pending, schedule, lag, changed, urgent, sched, got,
                   slips, told, peak, blurred, spent, sinceDigest, slipped>>

KeepStates ==
    /\ pc = "states"
    /\ digest' = Put(digest, States(got))
    /\ unkept' = unkept \ got
    /\ pc' = "best"
    /\ UNCHANGED <<settings, market, best, pending, schedule, lag, changed, urgent, sched, got,
                   slips, told, peak, blurred, spent, sinceDigest, slipped>>

(* A slip: the last route of an item that is looked at counts.              *)
AnyNet(S, i) == CHOOSE n \in Nets(S, i) : \A m \in Nets(S, i) : n <= m

BestNet(S, i) == Max(Nets(S, i))

KeepBest ==
    /\ pc = "best"
    /\ best' = Put(best, [i \in Item(got) |-> BestNet(got, i)])
    /\ blurred' = blurred \ Item(got)
    /\ pc' = "save"
    /\ UNCHANGED <<settings, market, digest, pending, schedule, lag, changed, urgent, sched, got,
                   slips, told, unkept, peak, spent, sinceDigest, slipped>>

(* A slip: what was told is remembered beyond the pass.                     *)
OverButTold == pc' = "rest" /\ changed' = Nothing /\ urgent' = {} /\ got' = got /\ sched' = NoSchedule

Over == pc' = "rest" /\ changed' = Nothing /\ urgent' = {} /\ got' = {} /\ sched' = NoSchedule

Save ==
    /\ pc = "save"
    /\ schedule' = [sched EXCEPT !.digestAge = Later(@, lag), !.windowAge = Later(@, lag)]
    /\ Over
    /\ UNCHANGED <<settings, market, digest, best, pending, lag, slips, history>>

(* A statement fails, no destination takes a message, or the process ends.  *)
Stops ==
    /\ pc # "rest" /\ slips < Slips
    /\ slips' = slips + 1
    /\ slipped' = (slipped \/ got # {})
    /\ peak' = Put(Keep(peak, Items \ blurred), Keep(best, blurred)) /\ blurred' = {}
    /\ Over
    /\ UNCHANGED <<settings, market, dbVars, lag, told, unkept, spent, sinceDigest>>

-----------------------------------------------------------------------------
(* Everything else.                                                         *)

(* The offers change.  A pass does not look at them again, so a change      *)
(* during one is a change after it.                                         *)
Trade ==
    /\ pc = "rest"
    /\ \E r \in Routes :
          \/ \E o \in Offers : market' = Put(market, [q \in {r} |-> o])
          \/ market' = Keep(market, Routes \ {r})
    /\ market' # market
    /\ UNCHANGED <<settings, dbVars, passVars, slips, history>>

Aged(f) == [r \in DOMAIN f |-> [f[r] EXCEPT !.age = Later(@, 1)]]

(* Time passes; a pass reads in no time.                                    *)
Tick ==
    /\ pc \notin {"items", "schedule"} /\ (pc = "rest" \/ lag < Delay)
    /\ digest' = Aged(digest) /\ told' = Aged(told)
    /\ schedule' = [schedule EXCEPT !.digestAge = Later(@, 1), !.windowAge = Later(@, 1)]
    /\ sinceDigest' = Later(sinceDigest, 1)
    /\ lag' = IF pc = "rest" THEN 0 ELSE Later(lag, 1)
    /\ UNCHANGED <<settings, market, best, pending, pc, changed, urgent, sched, got, slips,
                   unkept, peak, blurred, spent, slipped>>

(* The user has the history reset (reset_arbitrage_delivery_state), at any  *)
(* moment of a pass.                                                        *)
Reset ==
    /\ slips < Slips /\ slips' = slips + 1
    /\ digest' = Nothing /\ best' = Nothing /\ pending' = Nothing /\ schedule' = NoSchedule
    /\ told' = Keep(told, unkept) /\ peak' = Keep(peak, blurred)
    /\ spent' = 0 /\ sinceDigest' = Never
    /\ UNCHANGED <<settings, market, passVars, unkept, blurred, slipped>>

(* The steps of a pass that has begun.                                      *)
Pass == \/ ReadItems \/ ReadSchedule \/ SendUrgent \/ SendDigest \/ Queue
        \/ Forget \/ KeepStates \/ KeepBest \/ Save

Next == Begin \/ Pass \/ SendNowhere \/ Stops \/ Trade \/ Tick \/ Reset

(* A pass that has begun goes on, and time passes.  That another begins is  *)
(* not assumed: the daemon scans when it is notified.                       *)
Fairness == WF_vars(Pass) /\ SF_vars(Tick)

Spec == Init /\ [][Next]_vars /\ Fairness

-----------------------------------------------------------------------------

Row      == [offer : Offers, age : 0 .. Longest]
Schedule == [digestAge : Ages, windowAge : Ages, count : Nat]

TypeOK ==
    /\ settings \in Settings
    /\ DOMAIN market \subseteq Routes /\ \A r \in DOMAIN market : market[r] \in Offers
    /\ DOMAIN digest \subseteq Routes /\ \A r \in DOMAIN digest : digest[r] \in Row
    /\ DOMAIN best \subseteq Items /\ \A i \in DOMAIN best : best[i] \in Nat
    /\ DOMAIN pending \subseteq Routes /\ \A r \in DOMAIN pending : pending[r] \in Offers
    /\ schedule \in Schedule /\ sched \in Schedule
    /\ pc \in {"rest", "items", "schedule", "urgent", "digest", "forget", "states", "best", "save"}
    /\ lag \in 0 .. Longest
    /\ DOMAIN changed \subseteq Routes /\ \A r \in DOMAIN changed : changed[r] \in Offers
    /\ urgent \subseteq DOMAIN changed /\ got \subseteq DOMAIN changed
    /\ DOMAIN told \subseteq Routes /\ \A r \in DOMAIN told : told[r] \in Row
    /\ unkept \subseteq DOMAIN told /\ slips \in 0 .. Slips

(* What is written down as told was told, then and with those figures; only *)
(* a message that could not be written down is missing or stands there      *)
(* otherwise (deliver_arbitrage_digest, digest_state_from_opportunity).     *)
WrittenIsTold ==
    /\ DOMAIN digest \subseteq DOMAIN told
    /\ \A r \in DOMAIN told \ unkept : r \in DOMAIN digest /\ digest[r] = told[r]

(* An offer is told again only after the cooldown, and where only changes   *)
(* are told not with the same figures, however passes overlap with resets,  *)
(* errors and restarts: unless the message before could not be written.     *)
TellsNews ==
    [][\A r \in got' \ got :
          r \in DOMAIN told \ unkept =>
              /\ told[r].age >= settings.cooldown
              /\ settings.changedOnly => told[r].offer # changed[r]]_vars

(* A window has no more immediate alerts than the profile allows, unless a  *)
(* pass that had told something could not write the schedule.               *)
LimitKept == ~slipped => spent <= settings.perHour

(* The passes that send the digests of a profile with an interval begin the *)
(* interval apart, with the same exception (interval_digest_due).           *)
DigestsApart ==
    [][SendDigest /\ Plain # {} /\ settings.mode = "DIGEST_INTERVAL" /\ ~slipped =>
          sinceDigest = Never \/ sinceDigest >= settings.interval]_vars

(* No offer waits in the queue that has been told with the same figures.    *)
NothingToldWaits ==
    settings.changedOnly =>
        \A r \in DOMAIN pending \cap DOMAIN digest : pending[r] # digest[r].offer

(* The profit remembered of an item is the highest that was told, if there  *)
(* are no immediate alerts.                                                 *)
BestIsHighestOfDigests ==
    settings.perHour = 0 =>
        \A i \in DOMAIN peak \ blurred : i \in DOMAIN best /\ best[i] = peak[i]

(* As long as passes go on beginning, an offer that stays in the market is  *)
(* told, or as good a one of its item has been, whenever the profile has    *)
(* digests without a schedule.  Passes begin when listings change, and no   *)
(* longer once the listener of main.rs that notifies the daemon has ended;  *)
(* of an offer that stands in a market without passes nothing is said.      *)
ImprovementIsTold ==
    []<><<Begin>>_vars /\ settings.mode \in {"SCANNER_COMPLETE", "DIGEST_INTERVAL"} =>
        \A r \in Routes, o \in Offers :
            <>[](r \in DOMAIN market /\ market[r] = o)
                => []<>(\/ \E q \in DOMAIN told : /\ ItemOf[q] = ItemOf[r]
                                                  /\ told[q].offer.net >= o.net
                        \/ ~Improves(r, o))

=============================================================================
