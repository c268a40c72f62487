---------------------------- MODULE ArbitrageProof ----------------------------
(***************************************************************************)
(* The arbitrage daemon.  When it scans: for any bus, any number of        *)
(* profiles and any delays, the scans are apart.  What it writes down is   *)
(* what it told, for any routes, offers and settings: the cooldown, the    *)
(* comparison with the figures told before, the limit of an hour and the   *)
(* interval of the digests hold whatever is reset, fails or is delayed in  *)
(* between, with the exception each property names.  The invariant says of *)
(* every moment of a pass what the pass has told, what it still may tell,  *)
(* and what its copy of the schedule allows.                               *)
(*                                                                         *)
(* None of the proofs needs the fairness of the specifications.            *)
(***************************************************************************)
EXTENDS ArbitrageScan, ArbitrageDigest, FiniteSetTheorems, WellFoundedInduction, TLAPS

-----------------------------------------------------------------------------
(* ArbitrageScan: when the daemon scans.                                    *)

(* The two halves of ScanTypeOK: numbers, and the rest.                     *)
Counters ==
    /\ queued \in 0 .. Capacity
    /\ left \in Nat
    /\ elapsed \in 0 .. Frequency
    /\ done \in 0 .. Profiles

ScanModes ==
    /\ overrun \in BOOLEAN
    /\ listener \in {"recv", "mark", "notify", "gone"}
    /\ handler \in {"none", "notify"}
    /\ permit \in BOOLEAN
    /\ daemon \in {"idle", "settling", "scanning", "resting"}
    /\ status \in {"idle", "queued", "scanning", "complete", "failed"}
    /\ unscanned \in BOOLEAN

(* Nothing is lost in the division.                                         *)
LEMMA TwoHalves == ScanTypeOK <=> Counters /\ ScanModes
  BY Zenon DEF ScanTypeOK, Counters, ScanModes

(* The halves of a later state.                                             *)
LEMMA TwoHalvesLater == ScanTypeOK' <=> Counters' /\ ScanModes'
  BY Zenon DEF ScanTypeOK, Counters, ScanModes

(* Before anything has happened.                                            *)
LEMMA ScanInitTyped == ScanInit => ScanTypeOK
<1>1. ScanInit => Counters
  BY ScanAssumption DEF ScanInit, Counters
<1>2. ScanInit => ScanModes
  BY Zenon DEF ScanInit, ScanModes
<1> QED
  BY <1>1, <1>2, TwoHalves

(* No step takes a counter out of its range: the bus is only given an event *)
(* when it has room, and what is left of the two minutes is a time to sleep.*)
LEMMA StepCounts ==
    ASSUME Counters, [ScanNext]_scanVars
    PROVE  Counters'
<1> USE ScanAssumption DEF Counters
<1>1. CASE ListingsChange
  BY <1>1 DEF ListingsChange
<1>2. CASE Listener
  BY <1>2 DEF Listener, ListenerReceives, ListenerLags, ListenerMarks, ListenerNotifies
<1>3. CASE HandlerMarks \/ HandlerNotifies \/ ProfileUpdated
  BY <1>3 DEF HandlerMarks, HandlerNotifies, ProfileUpdated
<1>4. CASE Wake
  BY <1>4 DEF Wake
<1>5. CASE ScanStarts \/ ScanFailsAtOnce
  BY <1>5 DEF ScanStarts, ScanFailsAtOnce
<1>6. CASE ScanProfile
  BY <1>6 DEF ScanProfile
<1>7. CASE ScanFails \/ ScanCompletes
  BY <1>7 DEF ScanFails, ScanCompletes, Ends
<1>8. CASE Rested
  BY <1>8 DEF Rested
<1>9. CASE ScanTick
  BY <1>9 DEF ScanTick
<1>10. CASE UNCHANGED scanVars
  BY <1>10 DEF scanVars
<1> QED
  BY <1>1, <1>2, <1>3, <1>4, <1>5, <1>6, <1>7, <1>8, <1>9, <1>10 DEF ScanNext, Daemon

(* No step writes a mode of another kind.                                   *)
LEMMA StepModes ==
    ASSUME ScanModes, [ScanNext]_scanVars
    PROVE  ScanModes'
<1>1. CASE ListingsChange
  BY <1>1, Zenon DEF ListingsChange, ScanModes
<1>2. CASE Listener
  BY <1>2, Zenon
  DEF Listener, ListenerReceives, ListenerLags, ListenerMarks, ListenerNotifies, ScanModes
<1>3. CASE HandlerMarks \/ HandlerNotifies \/ ProfileUpdated
  BY <1>3, Zenon DEF HandlerMarks, HandlerNotifies, ProfileUpdated, ScanModes
<1>4. CASE Wake
  BY <1>4, Zenon DEF Wake, ScanModes
<1>5. CASE ScanStarts \/ ScanFailsAtOnce
  BY <1>5, Zenon DEF ScanStarts, ScanFailsAtOnce, ScanModes
<1>6. CASE ScanProfile
  BY <1>6, Zenon DEF ScanProfile, ScanModes
<1>7. CASE ScanFails \/ ScanCompletes
  BY <1>7, Zenon DEF ScanFails, ScanCompletes, Ends, ScanModes
<1>8. CASE Rested
  BY <1>8, Zenon DEF Rested, ScanModes
<1>9. CASE ScanTick
  BY <1>9, Zenon DEF ScanTick, ScanModes
<1>10. CASE UNCHANGED scanVars
  BY <1>10, Zenon DEF scanVars, ScanModes
<1> QED
  BY <1>1, <1>2, <1>3, <1>4, <1>5, <1>6, <1>7, <1>8, <1>9, <1>10 DEF ScanNext, Daemon

(* Type correctness: the bus stays inside its capacity, the scan inside its *)
(* profiles, and no sleep is negative.                                      *)
THEOREM ScanTypeCorrect == ScanSpec => []ScanTypeOK
<1>1. ScanTypeOK /\ [ScanNext]_scanVars => ScanTypeOK'
  BY StepCounts, StepModes, TwoHalves, TwoHalvesLater
<1> QED
  BY <1>1, ScanInitTyped, PTL DEF ScanSpec

-----------------------------------------------------------------------------

(* Why scans are apart: after a scan the daemon sleeps for at least what is *)
(* left of the two minutes, and when it has slept, they have passed.        *)
RestCoversFrequency ==
    /\ daemon = "resting" => elapsed + left >= Frequency
    /\ daemon \in {"idle", "settling"} => elapsed = Frequency

(* The strengthening is kept by every step.                                 *)
LEMMA RestCovered ==
    ASSUME Counters, RestCoversFrequency, [ScanNext]_scanVars
    PROVE  RestCoversFrequency'
<1> USE ScanAssumption DEF Counters, RestCoversFrequency
<1>1. CASE ListingsChange \/ Listener \/ HandlerMarks \/ HandlerNotifies \/ ProfileUpdated
  BY <1>1 DEF ListingsChange, Listener, ListenerReceives, ListenerLags, ListenerMarks,
              ListenerNotifies, HandlerMarks, HandlerNotifies, ProfileUpdated
<1>2. CASE Wake
  BY <1>2 DEF Wake
<1>3. CASE ScanStarts \/ ScanProfile
  BY <1>3 DEF ScanStarts, ScanProfile
<1>4. CASE ScanFailsAtOnce
  BY <1>4 DEF ScanFailsAtOnce
<1>5. CASE ScanFails \/ ScanCompletes
  BY <1>5 DEF ScanFails, ScanCompletes, Ends
<1>6. CASE Rested
  BY <1>6 DEF Rested
<1>7. CASE ScanTick
  BY <1>7 DEF ScanTick
<1>8. CASE UNCHANGED scanVars
  BY <1>8 DEF scanVars
<1> QED
  BY <1>1, <1>2, <1>3, <1>4, <1>5, <1>6, <1>7, <1>8 DEF ScanNext, Daemon

(* "Limit frequency: run at most once every 2 minutes": whatever the scan   *)
(* and the other tasks do, the next one starts no sooner.                   *)
THEOREM ScansApart == ScanSpec => ScansAreApart
<1>1. ScanInit => RestCoversFrequency
  BY DEF ScanInit, RestCoversFrequency
<1>2. ScanTypeOK /\ RestCoversFrequency /\ [ScanNext]_scanVars
        => [daemon = "settling" /\ daemon' # "settling" => elapsed = Frequency]_scanVars
  BY DEF RestCoversFrequency
<1>3. ScanTypeOK /\ RestCoversFrequency /\ [ScanNext]_scanVars => RestCoversFrequency'
  BY RestCovered, TwoHalves
<1> QED
  BY <1>1, <1>2, <1>3, ScanTypeCorrect, PTL DEF ScanSpec, ScansAreApart

-----------------------------------------------------------------------------
(* ArbitrageDigest: the operators the pass is built from.                   *)

(* What is left of a function of some arguments.                            *)
LEMMA KeepFact ==
    ASSUME NEW f, NEW S
    PROVE  /\ DOMAIN Keep(f, S) = DOMAIN f \cap S
           /\ \A x \in DOMAIN f \cap S : Keep(f, S)[x] = f[x]
BY DEF Keep

(* An upsert: the new rows, and the others as they were.                    *)
LEMMA PutFact ==
    ASSUME NEW f, NEW g
    PROVE  /\ DOMAIN Put(f, g) = DOMAIN f \cup DOMAIN g
           /\ \A x \in DOMAIN g : Put(f, g)[x] = g[x]
           /\ \A x \in DOMAIN f \ DOMAIN g : Put(f, g)[x] = f[x]
BY DEF Put

(* The rows of what was told.                                               *)
LEMMA StatesFact ==
    ASSUME NEW S
    PROVE  /\ DOMAIN States(S) = S
           /\ \A r \in S : States(S)[r] = [offer |-> changed[r], age |-> lag]
BY DEF States

(* Nothing is a function of no argument.                                    *)
LEMMA NothingFact == DOMAIN Nothing = {}
BY DEF Nothing

(* Ages grow, up to the longest.                                            *)
LEMMA LaterFact ==
    ASSUME NEW a \in Ages, NEW n \in Nat
    PROVE  /\ Later(a, n) \in Ages
           /\ Later(a, n) >= a
           /\ Later(a, n) = Never <=> a = Never
           /\ a # Never => Later(a, n) \in 0 .. Longest
           /\ a # Never => Later(a, n) = IF a + n > Longest THEN Longest ELSE a + n
BY DigestAssumption DEF Later, Ages, Never

(* Rows that grow older keep their offers.                                  *)
LEMMA AgedFact ==
    ASSUME NEW f, \A r \in DOMAIN f : f[r] \in Row
    PROVE  /\ DOMAIN Aged(f) = DOMAIN f
           /\ \A r \in DOMAIN f : /\ Aged(f)[r] \in Row
                                  /\ Aged(f)[r].offer = f[r].offer
                                  /\ Aged(f)[r].age = Later(f[r].age, 1)
                                  /\ Aged(f)[r].age >= f[r].age
<1> SUFFICES ASSUME NEW r \in DOMAIN f
             PROVE  /\ Aged(f)[r] \in Row
                    /\ Aged(f)[r].offer = f[r].offer
                    /\ Aged(f)[r].age = Later(f[r].age, 1)
                    /\ Aged(f)[r].age >= f[r].age
    BY DEF Aged
<1>1. f[r] \in Row /\ f[r].age \in 0 .. Longest /\ f[r].offer \in Offers
    BY DEF Row
<1>2. f[r].age \in Ages /\ f[r].age # Never
    BY <1>1, DigestAssumption DEF Ages, Never
<1>3. /\ Later(f[r].age, 1) \in 0 .. Longest
      /\ Later(f[r].age, 1) >= f[r].age
    BY <1>2, LaterFact
<1>4. Aged(f)[r] = [offer |-> f[r].offer, age |-> Later(f[r].age, 1)]
    BY <1>1 DEF Aged, Row
<1>5. QED
    BY <1>1, <1>3, <1>4 DEF Row

(* The least of a count and a limit.                                        *)
LEMMA MinFact ==
    ASSUME NEW a \in Nat, NEW b \in Nat
    PROVE  Min({a, b}) = IF a <= b THEN a ELSE b
<1> DEFINE m == IF a <= b THEN a ELSE b
<1>1. m \in {a, b}
    OBVIOUS
<1>2. \A y \in {a, b} : m <= y
    BY <1>1
<1>3. Min({a, b}) \in {a, b} /\ \A y \in {a, b} : Min({a, b}) <= y
    BY <1>1, <1>2 DEF Min
<1>4. QED
    BY <1>3

(* A finite set of numbers that is not empty has a greatest element.        *)
LEMMA MaxFact ==
    ASSUME NEW S \in SUBSET Nat, IsFiniteSet(S), S # {}
    PROVE  Max(S) \in S /\ \A y \in S : Max(S) >= y
<1> DEFINE Above(x) == {y \in S : y > x}
           T == {Above(x) : x \in S}
<1>1. IsWellFoundedOn(StrictSubsetOrdering(S), FiniteSubsetsOf(S))
    BY FS_StrictSubsetOrderingWellFounded
<1>2. T \subseteq FiniteSubsetsOf(S) /\ T # {}
    <2>1. \A x \in S : Above(x) \in SUBSET S
        OBVIOUS
    <2>2. \A x \in S : Above(x) \in FiniteSubsetsOf(S)
        BY <2>1, FS_Subset, Zenon DEF FiniteSubsetsOf
    <2>3. QED
        BY <2>2, Zenon
<1>3. \E U \in T : \A V \in T : ~ (<<V, U>> \in StrictSubsetOrdering(S))
    <2> DEFINE R == StrictSubsetOrdering(S)
               F == FiniteSubsetsOf(S)
    <2> SUFFICES \E U \in T : \A V \in T : ~ (<<V, U>> \in R)
        OBVIOUS
    <2>1. IsWellFoundedOn(R, F)
        BY <1>1
    <2> HIDE DEF T, R, F
    <2>2. T \subseteq F /\ T # {}
        BY <1>2 DEF F
    <2>3. QED
        BY <2>1, <2>2, WFMin, Zenon
<1>4. PICK x \in S : \A V \in T : ~ (<<V, Above(x)>> \in StrictSubsetOrdering(S))
    BY <1>3
<1>5. \A y \in S : x >= y
    <2> SUFFICES ASSUME NEW y \in S, y > x
                 PROVE  FALSE
        OBVIOUS
    <2>1. S \subseteq Int
        OBVIOUS
    <2>2. \A z \in S : z > y => z > x
        BY <2>1
    <2>3. Above(y) \subseteq Above(x) /\ y \in Above(x) /\ y \notin Above(y)
        <3>1. y \in S /\ ~(y > y)
            BY <2>1
        <3>2. QED
            BY <2>2, <3>1, Zenon
    <2>4. <<Above(y), Above(x)>> \in StrictSubsetOrdering(S)
        BY <2>3 DEF StrictSubsetOrdering
    <2>5. QED
        BY <1>4, <2>4
<1>6. QED
    BY <1>5 DEF Max

-----------------------------------------------------------------------------
(* The inductive invariant.                                                 *)

Sending == {"urgent", "digest", "forget", "states", "best", "save"}

Counted ==
    /\ spent \in Nat /\ sinceDigest \in Ages /\ slipped \in BOOLEAN
    /\ DOMAIN peak \subseteq Items /\ \A i \in DOMAIN peak : peak[i] \in Nat
    /\ blurred \subseteq Items

(* The statements that choose the candidates take no time.                  *)
Prompt == pc \in {"items", "schedule"} => lag = 0

(* Until a message is sent nothing is told; until the rows are written what *)
(* was told is what was told last.                                          *)
Remembered ==
    /\ pc \in {"rest", "items", "schedule", "urgent"} => got = {}
    /\ pc \notin Sending => urgent = {}
    /\ pc \in {"digest", "forget", "states"} =>
          \A r \in got : /\ r \in unkept
                         /\ told[r].offer = changed[r] /\ told[r].age = lag

(* The candidates stay news until the pass writes its rows.                 *)
Fresh ==
    pc \in {"items", "schedule", "urgent", "digest"} =>
        \A r \in DOMAIN changed \cap DOMAIN digest :
            /\ digest[r].age >= settings.cooldown
            /\ settings.changedOnly => digest[r].offer # changed[r]

Taken == pc = "states" => got \cap DOMAIN pending = {}

(* The stored count covers what was told while the pass has told nothing,   *)
(* and the pass's own count what it tells.                                  *)
Covered ==
    ~slipped =>
        /\ spent <= settings.perHour
        /\ got = {} => spent <= schedule.count
        /\ pc = "urgent" => /\ spent + Cardinality(urgent) <= settings.perHour
                            /\ spent + Cardinality(urgent) <= sched.count
        /\ pc \in Sending \ {"urgent"} => spent <= sched.count

(* No digest was told after the one the stored schedule, and the pass's own *)
(* at the age of the pass, remember.                                        *)
Dated ==
    ~slipped /\ sinceDigest # Never =>
        /\ got = {} => schedule.digestAge # Never /\ schedule.digestAge <= sinceDigest
        /\ pc \in Sending => /\ sched.digestAge # Never
                             /\ Later(sched.digestAge, lag) <= sinceDigest

(* Without immediate alerts, the message of a pass has an offer above what  *)
(* is remembered of each of its items, and its best is the highest told.    *)
Improving ==
    settings.perHour = 0 =>
        /\ pc # "urgent" /\ urgent = {}
        /\ pc \in {"schedule", "digest"} =>
              \A i \in Item(DOMAIN changed) \cap DOMAIN best :
                  \E n \in Nets(DOMAIN changed, i) : n > best[i] + Threshold(best[i])
        /\ pc \notin {"forget", "states", "best"} => blurred = {}
        /\ pc \in {"forget", "states", "best"} =>
              /\ blurred = Item(got)
              /\ \A i \in Item(got) : i \in DOMAIN peak /\ peak[i] = Max(Nets(got, i))

(* Without them it tells nothing before its digest.                         *)
Silent == settings.perHour = 0 /\ pc = "digest" => got = {}

IInv == /\ TypeOK /\ Counted /\ Prompt /\ Silent /\ Remembered /\ Fresh /\ Taken /\ Covered /\ Dated
        /\ Improving /\ WrittenIsTold /\ NothingToldWaits /\ BestIsHighestOfDigests

(* The settings of a profile.                                               *)
LEMMA SettingsFact ==
    ASSUME settings \in Settings
    PROVE  /\ settings.cooldown \in 0 .. Longest /\ settings.perHour \in Nat
           /\ settings.improve \in Nat /\ settings.percent \in Nat /\ settings.interval \in 1 .. Longest
           /\ settings.changedOnly \in BOOLEAN
BY DigestAssumption

(* The threshold is not below zero.                                         *)
LEMMA ThresholdFact ==
    ASSUME settings \in Settings, NEW n \in Nat
    PROVE  Threshold(n) \in Nat
<1>1. settings.improve \in Nat /\ settings.percent \in Nat
    BY SettingsFact
<1> DEFINE total == n * settings.percent + 99
<1>2. total \in Int
    BY <1>1
<1>3. total \div 100 \in Int
    <2> HIDE DEF total
    <2>1. QED
        BY <1>2
<1>4. QED
    BY <1>1, <1>3 DEF Threshold

(* The routes of a scan are few enough to be counted.                       *)
LEMMA CountFact ==
    ASSUME NEW S, S \subseteq Routes
    PROVE  /\ IsFiniteSet(S) /\ Cardinality(S) \in Nat
           /\ Cardinality(S) = 0 <=> S = {}
<1>1. IsFiniteSet(S)
    BY FS_Subset, DigestAssumption
<1>2. QED
    BY <1>1, FS_CardinalityType, FS_EmptySet

(* The net profits of some offers of an item.                               *)
LEMMA NetsFact ==
    ASSUME TypeOK, NEW S \in SUBSET DOMAIN changed, NEW i
    PROVE  /\ Nets(S, i) \in SUBSET Nat /\ IsFiniteSet(Nets(S, i))
           /\ i \in Item(S) <=> Nets(S, i) # {}
<1> DEFINE O == OfItem(S, i)
           f == [r \in O |-> changed[r].net]
<1>1. O \subseteq S /\ S \subseteq Routes /\ \A r \in S : changed[r] \in Offers
    BY DEF TypeOK, OfItem
<1>2. IsFiniteSet(O)
    BY <1>1, CountFact
<1>3. \A r \in O : changed[r].net \in Nat
    BY <1>1, DigestAssumption
<1>4. f \in Surjection(O, Nets(S, i))
    BY DEF Surjection, Nets
<1>5. IsFiniteSet(Nets(S, i))
    <2> HIDE DEF f, O
    <2>1. QED
        BY <1>2, <1>4, FS_Surjection
<1>6. Nets(S, i) \subseteq Nat
    BY <1>3 DEF Nets
<1>7. i \in Item(S) <=> Nets(S, i) # {}
    BY DEF Item, Nets, OfItem
<1>8. QED
    BY <1>5, <1>6, <1>7

(* A profile starts with nothing told.                                      *)
LEMMA InitStrong == Init => IInv
<1> SUFFICES ASSUME Init
             PROVE  IInv
    OBVIOUS
<1>1. TypeOK /\ Counted /\ settings.perHour \in Nat
    <2>1. Longest \in Nat /\ Slips \in Nat
        BY DigestAssumption
    <2>2. NoSchedule \in Schedule /\ Never \in Ages
        BY <2>1 DEF NoSchedule, Schedule, Ages, Never
    <2>3. settings \in Settings /\ settings.perHour \in Nat
        BY SettingsFact, Zenon DEF Init
    <2>4. TypeOK
        BY <2>1, <2>2, <2>3, NothingFact DEF Init, TypeOK
    <2>5. Counted
        BY <2>2, NothingFact DEF Init, Counted
    <2>6. QED
        BY <2>3, <2>4, <2>5
<1>2. Prompt /\ Silent /\ Remembered /\ Fresh /\ Taken /\ Dated
    BY NothingFact DEF Init, Prompt, Silent, Remembered, Fresh, Taken, Dated, Sending
<1>3. Covered
    BY <1>1 DEF Init, Covered, NoSchedule, Sending
<1>4. Improving /\ WrittenIsTold /\ NothingToldWaits /\ BestIsHighestOfDigests
    BY NothingFact
    DEF Init, Improving, WrittenIsTold, NothingToldWaits, BestIsHighestOfDigests
<1>5. QED
    BY <1>1, <1>2, <1>3, <1>4 DEF IInv

-----------------------------------------------------------------------------
(* The statements that choose what to tell.                                 *)

(* A pass begins with the offers that are news.                             *)
LEMMA BeginKeeps == ASSUME IInv, Begin PROVE IInv'
<1>1. /\ pc = "rest" /\ pc' = "items" /\ lag' = 0
      /\ UNCHANGED <<settings, market, digest, best, pending, schedule, urgent, sched, got,
                     slips, told, unkept, peak, blurred, spent, sinceDigest, slipped>>
    BY DEF Begin, dbVars, history
<1>2. PICK S \in Shown :
          changed' = Keep(market, {r \in S : /\ settings.changedOnly => ~Unchanged(r)
                                             /\ ~OnCooldown(r)})
    BY DEF Begin
<1> DEFINE K == {r \in S : /\ settings.changedOnly => ~Unchanged(r)
                           /\ ~OnCooldown(r)}
<1>3. /\ DOMAIN changed' = DOMAIN market \cap K
      /\ \A r \in DOMAIN changed' : changed'[r] = market[r]
    BY <1>2, KeepFact
<1>4. got = {} /\ urgent = {}
    BY <1>1 DEF IInv, Remembered, Sending
<1>5. TypeOK'
    <2>1. lag' \in 0 .. Longest
        BY <1>1, DigestAssumption
    <2>2. DOMAIN changed' \subseteq Routes /\ \A r \in DOMAIN changed' : changed'[r] \in Offers
        BY <1>3, Zenon DEF IInv, TypeOK
    <2>3. QED
        BY <1>1, <1>4, <2>1, <2>2, Zenon DEF IInv, TypeOK
<1>6. Counted' /\ Prompt' /\ Silent' /\ Remembered' /\ Taken'
    BY <1>1, <1>4, Zenon DEF IInv, Counted, Prompt, Silent, Remembered, Taken, Sending
<1>7. Fresh'
    <2> SUFFICES ASSUME NEW r \in DOMAIN changed' \cap DOMAIN digest
                 PROVE  /\ digest[r].age >= settings.cooldown
                        /\ settings.changedOnly => digest[r].offer # changed'[r]
        BY <1>1, Zenon DEF Fresh
    <2>1. /\ settings.changedOnly => ~Unchanged(r)
          /\ ~OnCooldown(r) /\ changed'[r] = market[r]
        BY <1>3, Zenon
    <2>2. digest[r].age \in Int /\ settings.cooldown \in Int
        BY SettingsFact DEF IInv, TypeOK, Row
    <2>3. QED
        BY <2>1, <2>2 DEF Unchanged, OnCooldown
<1>8. Covered' /\ Dated'
    BY <1>1, <1>4, Zenon DEF IInv, Covered, Dated, Sending
<1>9. Improving' /\ WrittenIsTold' /\ NothingToldWaits' /\ BestIsHighestOfDigests'
    BY <1>1, <1>4, Zenon
    DEF IInv, Improving, WrittenIsTold, NothingToldWaits, BestIsHighestOfDigests
<1>10. QED
    BY <1>5, <1>6, <1>7, <1>8, <1>9 DEF IInv

(* Steps that leave the candidates and what is remembered of the items.     *)
LEMMA ImprovingStays ==
    ASSUME Improving, UNCHANGED <<settings, best, pc, changed, urgent, got, peak, blurred>>
    PROVE  Improving'
<1>1. /\ Item(got)' = Item(got) /\ Item(DOMAIN changed)' = Item(DOMAIN changed)
      /\ \A i : Nets(got, i)' = Nets(got, i)
      /\ \A i : Nets(DOMAIN changed, i)' = Nets(DOMAIN changed, i)
    BY DEF Item, Nets, OfItem
<1>2. \A n : Threshold(n)' = Threshold(n)
    BY DEF Threshold
<1>3. QED
    BY <1>1, <1>2, Zenon DEF Improving

(* The candidates that are left have an offer that improves on their item.  *)
LEMMA ReadItemsKeeps == ASSUME IInv, ReadItems PROVE IInv'
<1> DEFINE K == {r \in Routes : ItemOf[r] \in Improved}
<1>1. /\ pc = "items" /\ changed' = Keep(changed, K) /\ pc' \in {"rest", "schedule"}
      /\ UNCHANGED <<settings, market, digest, best, pending, schedule, lag, urgent, sched, got,
                     slips, told, unkept, peak, blurred, spent, sinceDigest, slipped>>
    BY DEF ReadItems, dbVars, history
<1>2. /\ DOMAIN changed' = DOMAIN changed \cap K
      /\ \A r \in DOMAIN changed' : changed'[r] = changed[r]
    BY <1>1, KeepFact
<1>3. got = {} /\ urgent = {} /\ lag = 0
    BY <1>1 DEF IInv, Remembered, Prompt, Sending
<1>4. TypeOK'
    <2>1. DOMAIN changed' \subseteq Routes /\ \A r \in DOMAIN changed' : changed'[r] \in Offers
        BY <1>2, Zenon DEF IInv, TypeOK
    <2>2. pc' \in {"rest", "items", "schedule", "urgent", "digest", "forget", "states", "best", "save"}
        BY <1>1
    <2>3. QED
        BY <1>1, <1>3, <2>1, <2>2, Zenon DEF IInv, TypeOK
<1>5. Counted' /\ Prompt' /\ Silent' /\ Remembered' /\ Taken'
    BY <1>1, <1>3, Zenon DEF IInv, Counted, Prompt, Silent, Remembered, Taken, Sending
<1>6. Fresh'
    BY <1>1, <1>2 DEF IInv, Fresh
<1>7. Covered' /\ Dated'
    BY <1>1, <1>3, Zenon DEF IInv, Covered, Dated, Sending
<1>8. Improving'
    <2>1. ASSUME NEW i \in Item(DOMAIN changed') \cap DOMAIN best
          PROVE  \E n \in Nets(DOMAIN changed, i)' : n > best[i] + Threshold(best[i])
        <3>1. PICK r \in DOMAIN changed' : i = ItemOf[r]
            BY DEF Item
        <3>2. i \in Improved
            BY <1>2, <3>1
        <3>3. PICK q \in DOMAIN changed : Improves(q, changed[q]) /\ ItemOf[q] = i
            BY <3>2, Zenon DEF Improved
        <3>4. q \in DOMAIN changed' /\ changed'[q] = changed[q]
            BY <1>2, <3>2, <3>3 DEF IInv, TypeOK
        <3>5. changed'[q].net > best[i] + Threshold(best[i])
            BY <2>1, <3>3, <3>4 DEF Improves
        <3>6. changed'[q].net \in Nets(DOMAIN changed, i)'
            BY <3>3, <3>4, Zenon DEF Nets, OfItem
        <3>7. QED
            BY <3>5, <3>6, Zenon
    <2>2. settings.perHour = 0 => blurred = {}
        BY <1>1, Zenon DEF IInv, Improving
    <2>3. Item(DOMAIN changed') = Item(DOMAIN changed)' /\ \A n : Threshold(n)' = Threshold(n)
        BY <1>1 DEF Item, Threshold
    <2>4. QED
        BY <1>1, <1>3, <2>1, <2>2, <2>3, Zenon DEF Improving
<1>9. WrittenIsTold' /\ NothingToldWaits' /\ BestIsHighestOfDigests'
    BY <1>1, Zenon DEF IInv, WrittenIsTold, NothingToldWaits, BestIsHighestOfDigests
<1>10. QED
    BY <1>4, <1>5, <1>6, <1>7, <1>8, <1>9 DEF IInv

(* What may be told at once is what the limit leaves of this window.        *)
LEMMA ReadScheduleKeeps == ASSUME IInv, ReadSchedule PROVE IInv'
<1> DEFINE w == Windowed(schedule)
<1>1. PICK U \in UrgentChoices(w) :
         /\ urgent' = U
         /\ sched' = [w EXCEPT !.count = @ + Cardinality(U)]
         /\ pc' = IF U = {} THEN "digest" ELSE "urgent"
    BY Zenon DEF ReadSchedule
<1>2. /\ pc = "schedule"
      /\ spent' = IF WindowOver(schedule) THEN 0 ELSE spent
      /\ UNCHANGED <<settings, market, digest, best, pending, schedule, lag, changed, got,
                     slips, told, unkept, peak, blurred, sinceDigest, slipped>>
    BY DEF ReadSchedule, dbVars
<1>3. got = {} /\ lag = 0
    BY <1>2 DEF IInv, Remembered, Prompt
<1>4. /\ w \in Schedule /\ w.digestAge = schedule.digestAge
      /\ w.count = IF WindowOver(schedule) THEN 0 ELSE schedule.count
    <2>1. schedule \in Schedule /\ 0 \in Ages
        BY DigestAssumption DEF IInv, TypeOK, Ages, Never
    <2>2. QED
        BY <2>1 DEF Windowed, Schedule
<1>5. settings.perHour \in Nat /\ spent \in Nat /\ spent' \in Nat
    BY <1>2, SettingsFact DEF IInv, TypeOK, Counted
<1>6. /\ U \subseteq DOMAIN changed /\ Cardinality(U) \in Nat
      /\ Cardinality(U) = 0 <=> U = {}
      /\ Cardinality(U) <= Remaining(w)
    <2> DEFINE E == {r \in DOMAIN changed : changed[r].fast}
    <2>1. U \subseteq E /\ Cardinality(U) = Min({Cardinality(E), Remaining(w)})
        BY <1>1 DEF UrgentChoices
    <2>2. E \subseteq Routes /\ U \subseteq Routes
        BY <2>1 DEF IInv, TypeOK
    <2>3. Remaining(w) \in Nat
        BY <1>4, <1>5 DEF Remaining, Schedule
    <2>4. Cardinality(U) \in Nat /\ Cardinality(E) \in Nat /\ (Cardinality(U) = 0 <=> U = {})
        BY <2>2, CountFact
    <2>5. Cardinality(U) <= Remaining(w)
        <3> HIDE DEF E, w
        <3>1. QED
            BY <2>1, <2>3, <2>4, MinFact
    <2>6. QED
        BY <2>1, <2>4, <2>5
<1>7. /\ sched' \in Schedule /\ sched'.digestAge = schedule.digestAge
      /\ sched'.count = w.count + Cardinality(U)
    BY <1>1, <1>4, <1>6 DEF Schedule
<1>8. TypeOK'
    <2>1. pc' \in {"rest", "items", "schedule", "urgent", "digest", "forget", "states", "best", "save"}
        BY <1>1
    <2>2. QED
        BY <1>1, <1>2, <1>6, <1>7, <2>1, Zenon DEF IInv, TypeOK
<1>9. pc' \in {"urgent", "digest"} /\ (pc' = "urgent" <=> U # {})
    BY <1>1
<1>10. Counted' /\ Prompt' /\ Silent' /\ Remembered' /\ Fresh' /\ Taken'
    BY <1>2, <1>3, <1>5, <1>9 DEF IInv, Counted, Prompt, Silent, Remembered, Fresh, Taken, Sending
<1>11. Covered'
    <2> SUFFICES ASSUME ~slipped
                 PROVE  /\ spent' <= settings.perHour
                        /\ spent' <= schedule.count
                        /\ U # {} => spent' + Cardinality(U) <= settings.perHour
                        /\ spent' + Cardinality(U) <= sched'.count
        BY <1>1, <1>2, <1>3, <1>5, <1>6, <1>7, <1>9 DEF Covered, Schedule, IInv, TypeOK
    <2>1. /\ spent <= settings.perHour /\ spent <= schedule.count
          /\ schedule.count \in Nat
        BY <1>2, <1>3 DEF IInv, Covered, TypeOK, Schedule
    <2>2. spent' <= w.count /\ w.count \in Nat
        BY <1>2, <1>4, <2>1
    <2>3. U # {} => w.count + Cardinality(U) <= settings.perHour
        BY <1>5, <1>6, <2>2 DEF Remaining
    <2>4. QED
        BY <1>2, <1>5, <1>6, <1>7, <2>1, <2>2, <2>3
<1>12. Dated'
    <2> SUFFICES ASSUME ~slipped, sinceDigest # Never
                 PROVE  /\ schedule.digestAge # Never /\ schedule.digestAge <= sinceDigest
                        /\ Later(schedule.digestAge, 0) = schedule.digestAge
        BY <1>2, <1>3, <1>7 DEF Dated
    <2>1. schedule.digestAge # Never /\ schedule.digestAge <= sinceDigest
        BY <1>3 DEF IInv, Dated
    <2>2. schedule.digestAge \in Ages /\ Longest \in Nat
        BY DigestAssumption DEF IInv, TypeOK, Schedule
    <2>3. QED
        BY <2>1, <2>2 DEF Later, Ages, Never
<1>13. Improving'
    <2>1. settings.perHour = 0 => U = {}
        BY <1>4, <1>6 DEF Remaining, Schedule
    <2>2. \A n : Threshold(n)' = Threshold(n)
        BY <1>2 DEF Threshold
    <2>3. \A i : Nets(DOMAIN changed, i)' = Nets(DOMAIN changed, i)
        BY <1>2 DEF Nets, OfItem
    <2>4. Item(DOMAIN changed)' = Item(DOMAIN changed)
        BY <1>2 DEF Item
    <2>5. QED
        BY <1>1, <1>2, <1>9, <2>1, <2>2, <2>3, <2>4 DEF IInv, Improving, Item
<1>14. WrittenIsTold' /\ NothingToldWaits' /\ BestIsHighestOfDigests'
    BY <1>2, Zenon DEF IInv, WrittenIsTold, NothingToldWaits, BestIsHighestOfDigests
<1>15. QED
    BY <1>8, <1>10, <1>11, <1>12, <1>13, <1>14 DEF IInv

-----------------------------------------------------------------------------
(* The messages.                                                            *)

(* The items of routes are items.                                           *)
LEMMA ItemFact ==
    ASSUME NEW S, S \subseteq Routes
    PROVE  Item(S) \subseteq Items
BY DigestAssumption DEF Item

(* The highest of the profits told now and before.                          *)
LEMMA PeakFact ==
    ASSUME TypeOK, Counted, NEW S \in SUBSET DOMAIN changed, NEW i \in Item(S)
    PROVE  LET N == Nets(S, i) \cup (IF i \in DOMAIN peak THEN {peak[i]} ELSE {})
           IN  /\ Max(N) \in Nat /\ Max(N) \in N
               /\ \A n \in N : Max(N) >= n
<1> DEFINE P == IF i \in DOMAIN peak THEN {peak[i]} ELSE {}
           N == Nets(S, i) \cup P
<1>1. Nets(S, i) \in SUBSET Nat /\ IsFiniteSet(Nets(S, i)) /\ Nets(S, i) # {}
    BY NetsFact
<1>2. P \in SUBSET Nat /\ IsFiniteSet(P)
    <2>1. CASE i \in DOMAIN peak
        BY <2>1, FS_Singleton DEF Counted
    <2>2. CASE i \notin DOMAIN peak
        BY <2>2, FS_EmptySet
    <2>3. QED
        BY <2>1, <2>2
<1>3. IsFiniteSet(N) /\ N \in SUBSET Nat /\ N # {}
    <2> HIDE DEF P
    <2>1. QED
        BY <1>1, <1>2, FS_Union
<1>4. Max(N) \in N /\ \A n \in N : Max(N) >= n
    <2> HIDE DEF N
    <2>1. QED
        BY <1>3, MaxFact
<1>5. QED
    BY <1>3, <1>4

(* What a message leaves behind.                                            *)
LEMMA TellsFact ==
    ASSUME IInv, pc \in {"urgent", "digest"}, NEW S \in SUBSET DOMAIN changed, Tells(S),
           UNCHANGED <<changed, lag, digest>>
    PROVE  /\ got' = got \cup S /\ got' \subseteq DOMAIN changed
           /\ DOMAIN told' = DOMAIN told \cup S
           /\ \A r \in DOMAIN told' : told'[r] \in Row
           /\ unkept' \subseteq DOMAIN told' /\ DOMAIN told' \subseteq Routes
           /\ \A r \in got' : /\ r \in unkept'
                              /\ told'[r].offer = changed[r] /\ told'[r].age = lag
           /\ WrittenIsTold'
           /\ DOMAIN peak' = DOMAIN peak \cup Item(S)
           /\ \A i \in DOMAIN peak' : peak'[i] \in Nat
           /\ \A i \in DOMAIN peak \ Item(S) : peak'[i] = peak[i]
           /\ \A i \in Item(S) :
                 peak'[i] = Max(Nets(S, i) \cup (IF i \in DOMAIN peak THEN {peak[i]} ELSE {}))
           /\ blurred' = blurred \cup Item(S)
           /\ Item(S) \subseteq Items
<1> DEFINE top == [i \in Item(S) |->
                      Max(Nets(S, i) \cup (IF i \in DOMAIN peak THEN {peak[i]} ELSE {}))]
<1>1. /\ got' = got \cup S /\ told' = Put(told, States(S)) /\ unkept' = unkept \cup S
      /\ peak' = Put(peak, top) /\ blurred' = blurred \cup Item(S)
    BY DEF Tells
<1>2. TypeOK /\ Counted /\ S \subseteq Routes
    BY DEF IInv, TypeOK
<1>3. Item(S) \subseteq Items
    BY <1>2, ItemFact
<1>4. /\ DOMAIN told' = DOMAIN told \cup S
      /\ \A r \in S : told'[r] = [offer |-> changed[r], age |-> lag]
      /\ \A r \in DOMAIN told \ S : told'[r] = told[r]
    <2>1. /\ DOMAIN States(S) = S
          /\ \A r \in S : States(S)[r] = [offer |-> changed[r], age |-> lag]
        BY StatesFact
    <2>2. /\ DOMAIN Put(told, States(S)) = DOMAIN told \cup DOMAIN States(S)
          /\ \A r \in DOMAIN States(S) : Put(told, States(S))[r] = States(S)[r]
          /\ \A r \in DOMAIN told \ DOMAIN States(S) : Put(told, States(S))[r] = told[r]
        BY PutFact
    <2>3. QED
        BY <1>1, <2>1, <2>2
<1>5. \A r \in S : [offer |-> changed[r], age |-> lag] \in Row
    BY <1>2 DEF TypeOK, Row
<1>6. \A r \in DOMAIN told' : told'[r] \in Row
    BY <1>2, <1>4, <1>5, Zenon DEF TypeOK
<1>7. \A r \in got' : r \in unkept' /\ told'[r].offer = changed[r] /\ told'[r].age = lag
    <2> SUFFICES ASSUME NEW r \in got'
                 PROVE  r \in unkept' /\ told'[r].offer = changed[r] /\ told'[r].age = lag
        OBVIOUS
    <2>1. CASE r \in S
        BY <1>1, <1>4, <2>1
    <2>2. CASE r \notin S
        <3>1. r \in got /\ pc = "digest"
            BY <1>1, <2>2 DEF IInv, Remembered
        <3>2. r \in unkept /\ told[r].offer = changed[r] /\ told[r].age = lag
            BY <3>1 DEF IInv, Remembered
        <3>3. told'[r] = told[r]
            BY <1>2, <1>4, <2>2, <3>2 DEF TypeOK
        <3>4. QED
            BY <1>1, <3>2, <3>3
    <2>3. QED
        BY <2>1, <2>2
<1>8. WrittenIsTold'
    BY <1>1, <1>4 DEF IInv, WrittenIsTold
<1>9. DOMAIN top = Item(S) /\ \A i \in Item(S) : top[i] \in Nat
    BY <1>2, PeakFact
<1>10. /\ DOMAIN peak' = DOMAIN peak \cup Item(S)
       /\ \A i \in DOMAIN peak \ Item(S) : peak'[i] = peak[i]
       /\ \A i \in Item(S) : peak'[i] = top[i]
    <2> HIDE DEF top
    <2>1. /\ DOMAIN Put(peak, top) = DOMAIN peak \cup DOMAIN top
          /\ \A i \in DOMAIN top : Put(peak, top)[i] = top[i]
          /\ \A i \in DOMAIN peak \ DOMAIN top : Put(peak, top)[i] = peak[i]
        BY PutFact
    <2>2. QED
        BY <1>1, <1>9, <2>1
<1>11. \A i \in DOMAIN peak' : peak'[i] \in Nat
    <2> HIDE DEF top
    <2>1. QED
        BY <1>2, <1>9, <1>10, Zenon DEF Counted
<1>12. \A i \in Item(S) :
          peak'[i] = Max(Nets(S, i) \cup (IF i \in DOMAIN peak THEN {peak[i]} ELSE {}))
    BY <1>10
<1>13. /\ unkept' \subseteq DOMAIN told' /\ DOMAIN told' \subseteq Routes
       /\ got' \subseteq DOMAIN changed
    BY <1>1, <1>2, <1>4 DEF TypeOK
<1>14. QED
    BY <1>1, <1>3, <1>4, <1>6, <1>7, <1>8, <1>10, <1>11, <1>12, <1>13, Zenon

(* The immediate alert takes what it tells from the limit.                  *)
LEMMA SendUrgentKeeps == ASSUME IInv, SendUrgent PROVE IInv'
<1>1. /\ pc = "urgent" /\ pc' = "digest" /\ Tells(urgent)
      /\ spent' = spent + Cardinality(urgent)
      /\ UNCHANGED <<settings, market, digest, best, pending, schedule, lag, changed, urgent,
                     sched, slips, sinceDigest, slipped>>
    BY DEF SendUrgent, dbVars
<1>2. urgent \subseteq DOMAIN changed /\ urgent \subseteq Routes /\ got = {}
    BY <1>1 DEF IInv, TypeOK, Remembered
<1>3. /\ got' = urgent /\ got' \subseteq DOMAIN changed
      /\ \A r \in DOMAIN told' : told'[r] \in Row
      /\ unkept' \subseteq DOMAIN told' /\ DOMAIN told' \subseteq Routes
      /\ \A r \in got' : /\ r \in unkept'
                         /\ told'[r].offer = changed[r] /\ told'[r].age = lag
      /\ WrittenIsTold'
      /\ DOMAIN peak' = DOMAIN peak \cup Item(urgent)
      /\ \A i \in DOMAIN peak' : peak'[i] \in Nat
      /\ blurred' = blurred \cup Item(urgent)
      /\ Item(urgent) \subseteq Items
    <2>1. got \cup urgent = urgent
        BY <1>2
    <2>2. QED
        BY <1>1, <1>2, <2>1, TellsFact
<1>4. Cardinality(urgent) \in Nat /\ (Cardinality(urgent) = 0 <=> urgent = {})
    BY <1>2, CountFact
<1>5. settings.perHour \in Nat /\ spent \in Nat /\ spent' \in Nat /\ settings.perHour # 0
    BY <1>1, <1>4, SettingsFact DEF IInv, TypeOK, Counted, Improving
<1>6. TypeOK'
    BY <1>1, <1>3, Zenon DEF IInv, TypeOK
<1>7. Counted'
    BY <1>1, <1>3, <1>5 DEF IInv, Counted
<1>8. Prompt' /\ Silent' /\ Remembered' /\ Fresh' /\ Taken'
    BY <1>1, <1>3, <1>5, Zenon DEF IInv, Prompt, Silent, Remembered, Fresh, Taken, Sending
<1>9. Covered'
    BY <1>1, <1>2, <1>3, <1>4, <1>5 DEF IInv, Covered, Sending
<1>10. Dated'
    BY <1>1, <1>2, Zenon DEF IInv, Dated, Sending
<1>11. Improving' /\ NothingToldWaits' /\ BestIsHighestOfDigests'
    BY <1>1, <1>5, Zenon DEF IInv, Improving, NothingToldWaits, BestIsHighestOfDigests
<1>12. QED
    BY <1>3, <1>6, <1>7, <1>8, <1>9, <1>10, <1>11, Zenon DEF IInv

(* The digest's schedule is the pass's own from then on.                    *)
LEMMA SendDigestKeeps == ASSUME IInv, SendDigest PROVE IInv'
<1>1. /\ pc = "digest" /\ pc' = "forget" /\ Tells(Plain)
      /\ sched' = [sched EXCEPT !.digestAge = 0]
      /\ sinceDigest' = IF Plain = {} THEN sinceDigest ELSE lag
      /\ UNCHANGED <<settings, market, digest, best, pending, schedule, lag, changed, urgent,
                     slips, spent, slipped>>
    BY DEF SendDigest, dbVars
<1>2. Plain \subseteq DOMAIN changed
    BY DEF Plain
<1>3. /\ got' = got \cup Plain /\ got' \subseteq DOMAIN changed
      /\ \A r \in DOMAIN told' : told'[r] \in Row
      /\ unkept' \subseteq DOMAIN told' /\ DOMAIN told' \subseteq Routes
      /\ \A r \in got' : /\ r \in unkept'
                         /\ told'[r].offer = changed[r] /\ told'[r].age = lag
      /\ WrittenIsTold'
      /\ DOMAIN peak' = DOMAIN peak \cup Item(Plain)
      /\ \A i \in DOMAIN peak' : peak'[i] \in Nat
      /\ \A i \in DOMAIN peak \ Item(Plain) : peak'[i] = peak[i]
      /\ \A i \in Item(Plain) :
            peak'[i] = Max(Nets(Plain, i) \cup (IF i \in DOMAIN peak THEN {peak[i]} ELSE {}))
      /\ blurred' = blurred \cup Item(Plain)
      /\ Item(Plain) \subseteq Items
    BY <1>1, <1>2, TellsFact
<1>4. /\ Longest \in Nat /\ lag \in 0 .. Longest /\ lag \in Nat /\ 0 \in Ages /\ lag \in Ages
      /\ lag # Never
      /\ sched \in Schedule
    BY DigestAssumption DEF IInv, TypeOK, Ages, Never
<1>5. sched' \in Schedule /\ sched'.digestAge = 0 /\ sched'.count = sched.count
    BY <1>1, <1>4 DEF Schedule
<1>6. TypeOK'
    BY <1>1, <1>3, <1>5, Zenon DEF IInv, TypeOK
<1>7. Counted'
    <2>1. sinceDigest' \in Ages
        BY <1>1, <1>4 DEF IInv, Counted
    <2>2. QED
        BY <1>1, <1>3, <2>1 DEF IInv, Counted
<1>8. Prompt' /\ Silent' /\ Remembered' /\ Fresh' /\ Taken'
    BY <1>1, <1>3, Zenon DEF IInv, Prompt, Silent, Remembered, Fresh, Taken, Sending
<1>9. Covered'
    BY <1>1, <1>3, <1>5 DEF IInv, Covered, Sending
<1>10. Dated'
    <2> SUFFICES ASSUME ~slipped, sinceDigest' # Never
                 PROVE  /\ got' = {} => /\ schedule.digestAge # Never
                                        /\ schedule.digestAge <= sinceDigest'
                        /\ Later(0, lag) <= sinceDigest'
        BY <1>1, <1>5 DEF Dated, Never
    <2>1. Later(0, lag) = lag
        BY <1>4 DEF Later, Never
    <2>2. CASE Plain # {}
        BY <1>1, <1>3, <1>4, <2>1, <2>2
    <2>3. CASE Plain = {}
        <3>1. /\ got = {} => schedule.digestAge # Never /\ schedule.digestAge <= sinceDigest
              /\ sched.digestAge # Never /\ Later(sched.digestAge, lag) <= sinceDigest
            BY <1>1, <2>3 DEF IInv, Dated, Sending
        <3>2. sched.digestAge \in Ages /\ sinceDigest \in Ages
            BY <1>4 DEF Schedule, IInv, Counted
        <3>3. lag <= Later(sched.digestAge, lag)
            <4>1. sched.digestAge \in 0 .. Longest
                BY <1>4, <3>1, <3>2 DEF Ages, Never
            <4>2. Later(sched.digestAge, lag) =
                     IF sched.digestAge + lag > Longest THEN Longest ELSE sched.digestAge + lag
                BY <1>4, <3>1, <3>2, LaterFact
            <4> DEFINE d == sched.digestAge
            <4>3. d + lag >= lag /\ d + lag \in Nat /\ lag <= Longest
                BY <1>4, <4>1
            <4>4. QED
                BY <1>4, <4>2, <4>3
        <3>4. Later(sched.digestAge, lag) \in Ages
            <4>1. lag \in Nat
                BY <1>4
            <4>2. QED
                BY <3>2, <4>1, LaterFact
        <3>5. lag <= sinceDigest
            BY <1>4, <3>1, <3>2, <3>3, <3>4 DEF Ages, Never
        <3>6. QED
            BY <1>1, <1>3, <2>1, <2>3, <3>1, <3>5
    <2>4. QED
        BY <2>2, <2>3
<1>11. Improving' /\ BestIsHighestOfDigests'
    <2> SUFFICES ASSUME settings.perHour = 0
                 PROVE  Improving' /\ BestIsHighestOfDigests'
        BY <1>1 DEF Improving, BestIsHighestOfDigests
    <2>1. urgent = {} /\ blurred = {} /\ Plain = DOMAIN changed
        BY <1>1 DEF IInv, Improving, Plain
    <2>2. got' = DOMAIN changed /\ blurred' = Item(DOMAIN changed)
        BY <1>3, <2>1 DEF IInv, TypeOK
    <2>3. ASSUME NEW i \in Item(DOMAIN changed)
          PROVE  peak'[i] = Max(Nets(DOMAIN changed, i))
        <3> DEFINE N == Nets(DOMAIN changed, i)
                   P == IF i \in DOMAIN peak THEN {peak[i]} ELSE {}
        <3>1. peak'[i] = Max(N \cup P)
            BY <1>3, <2>1
        <3>2. N \in SUBSET Nat /\ IsFiniteSet(N) /\ N # {}
            BY NetsFact, <2>3 DEF IInv
        <3>3. CASE i \notin DOMAIN peak
            BY <3>1, <3>3
        <3>4. CASE i \in DOMAIN peak
            <4>1. i \in DOMAIN best /\ best[i] = peak[i] /\ best[i] \in Nat
                BY <2>1, <3>4 DEF IInv, BestIsHighestOfDigests, TypeOK
            <4>2. PICK n \in N : n > best[i] + Threshold(best[i])
                BY <1>1, <2>3, <4>1 DEF IInv, Improving
            <4>3. n > peak[i] /\ n \in Nat
                BY <3>2, <4>1, <4>2, ThresholdFact DEF IInv, TypeOK
            <4> DEFINE a == Max(N \cup {peak[i]})
                       b == Max(N)
            <4>4. a \in N \cup {peak[i]} /\ \A m \in N \cup {peak[i]} : a >= m
                BY <2>3, <3>4, PeakFact DEF IInv
            <4>5. b \in N /\ \A m \in N : b >= m
                BY <3>2, MaxFact
            <4>6. a = b
                <5> HIDE DEF a, b, N
                <5>1. a >= n
                    BY <4>2, <4>4
                <5>2. a \in N
                    BY <4>1, <4>3, <4>4, <5>1
                <5>3. a >= b /\ b >= a
                    BY <4>4, <4>5, <5>2
                <5>4. QED
                    BY <3>2, <4>5, <5>2, <5>3
            <4>7. QED
                BY <3>1, <3>4, <4>6
        <3>5. QED
            BY <3>3, <3>4
    <2>4. \A i \in Item(got)' : i \in DOMAIN peak' /\ peak'[i] = Max(Nets(got, i)')
        <3>1. Item(got)' = Item(DOMAIN changed)
            BY <2>2 DEF Item
        <3>2. \A i : Nets(got, i)' = Nets(DOMAIN changed, i)
            BY <1>1, <2>2 DEF Nets, OfItem
        <3>3. QED
            BY <1>3, <2>1, <2>3, <3>1, <3>2, Zenon
    <2>5. blurred' = Item(got)'
        BY <2>2 DEF Item
    <2>6. Improving'
        BY <1>1, <2>1, <2>4, <2>5 DEF Improving
    <2>7. BestIsHighestOfDigests'
        BY <1>1, <1>3, <2>1, <2>2 DEF IInv, BestIsHighestOfDigests
    <2>8. QED
        BY <2>6, <2>7
<1>12. NothingToldWaits'
    BY <1>1, Zenon DEF IInv, NothingToldWaits
<1>13. QED
    BY <1>3, <1>6, <1>7, <1>8, <1>9, <1>10, <1>11, <1>12, Zenon DEF IInv

(* Where no destination is configured nothing is told.                      *)
LEMMA SendNowhereKeeps == ASSUME IInv, SendNowhere PROVE IInv'
<1>1. /\ pc \in {"urgent", "digest"} /\ pc' = IF pc = "urgent" THEN "digest" ELSE "forget"
      /\ slips < Slips /\ slips' = slips + 1
      /\ UNCHANGED <<settings, market, digest, best, pending, schedule, lag, changed, urgent,
                     sched, got, told, unkept, peak, blurred, spent, sinceDigest, slipped>>
    BY DEF SendNowhere, dbVars, history
<1>2. pc' \in {"digest", "forget"} /\ (pc = "urgent" <=> pc' = "digest")
    BY <1>1
<1>3. slips' \in 0 .. Slips
    BY <1>1, DigestAssumption DEF IInv, TypeOK
<1>4. TypeOK'
    BY <1>1, <1>2, <1>3, Zenon DEF IInv, TypeOK
<1>5. Counted' /\ Prompt' /\ Fresh' /\ Taken' /\ WrittenIsTold' /\ NothingToldWaits'
      /\ BestIsHighestOfDigests'
    BY <1>1, <1>2, Zenon
    DEF IInv, Counted, Prompt, Fresh, Taken, WrittenIsTold, NothingToldWaits,
        BestIsHighestOfDigests
<1>6. Silent' /\ Remembered' /\ Dated'
    BY <1>1, <1>2 DEF IInv, Silent, Remembered, Dated, Sending
<1>7. Covered'
    <2>1. Cardinality(urgent) \in Nat /\ spent \in Nat /\ sched.count \in Nat
        BY CountFact DEF IInv, TypeOK, Counted, Schedule
    <2>2. QED
        BY <1>1, <1>2, <2>1 DEF IInv, Covered, Sending
<1>8. Improving'
    <2> SUFFICES ASSUME settings.perHour = 0
                 PROVE  Improving'
        BY <1>1 DEF Improving
    <2>1. pc = "digest" /\ pc' = "forget" /\ urgent = {} /\ blurred = {}
        BY <1>1, <1>2 DEF IInv, Improving
    <2>2. got = {}
        BY <2>1, <1>1 DEF IInv, Silent
    <2>3. QED
        BY <1>1, <2>1, <2>2 DEF Improving, Item
<1>9. QED
    BY <1>4, <1>5, <1>6, <1>7, <1>8 DEF IInv

-----------------------------------------------------------------------------
(* The statements that write.                                               *)

(* What is queued has not been told with these figures.                     *)
LEMMA QueueKeeps == ASSUME IInv, Queue PROVE IInv'
<1>1. /\ pc = "digest" /\ pc' = "forget" /\ pending' = Queued
      /\ UNCHANGED <<settings, market, digest, best, schedule, lag, changed, urgent, sched, got,
                     slips, told, unkept, peak, blurred, spent, sinceDigest, slipped>>
    BY DEF Queue, history
<1> DEFINE kept == Keep(pending, {r \in Routes : ItemOf[r] \notin Item(Plain)})
           new == Keep(changed, Plain)
<1>2. /\ DOMAIN kept \subseteq DOMAIN pending
      /\ \A r \in DOMAIN kept : kept[r] = pending[r]
      /\ DOMAIN new \subseteq DOMAIN changed
      /\ \A r \in DOMAIN new : new[r] = changed[r]
    BY KeepFact
<1>3. /\ DOMAIN pending' \subseteq DOMAIN pending \cup DOMAIN changed
      /\ \A r \in DOMAIN pending' : \/ r \in DOMAIN pending /\ pending'[r] = pending[r]
                                    \/ r \in DOMAIN changed /\ pending'[r] = changed[r]
    <2>1. pending' = Put(kept, new)
        BY <1>1 DEF Queued
    <2> HIDE DEF kept, new
    <2>2. /\ DOMAIN Put(kept, new) = DOMAIN kept \cup DOMAIN new
          /\ \A r \in DOMAIN new : Put(kept, new)[r] = new[r]
          /\ \A r \in DOMAIN kept \ DOMAIN new : Put(kept, new)[r] = kept[r]
        BY PutFact
    <2>3. QED
        BY <1>2, <2>1, <2>2
<1>4. TypeOK'
    <2>1. /\ DOMAIN pending' \subseteq Routes
          /\ \A r \in DOMAIN pending' : pending'[r] \in Offers
        BY <1>3 DEF IInv, TypeOK
    <2>2. QED
        BY <1>1, <2>1, Zenon DEF IInv, TypeOK
<1>5. Counted' /\ Prompt' /\ Silent' /\ Remembered' /\ Fresh' /\ Taken' /\ WrittenIsTold'
      /\ BestIsHighestOfDigests'
    BY <1>1, Zenon
    DEF IInv, Counted, Prompt, Silent, Remembered, Fresh, Taken, WrittenIsTold, BestIsHighestOfDigests,
        Sending
<1>6. Covered' /\ Dated'
    BY <1>1 DEF IInv, Covered, Dated, Sending
<1>7. Improving'
    BY <1>1 DEF IInv, Improving, Silent, Item
<1>8. NothingToldWaits'
    BY <1>1, <1>3 DEF IInv, NothingToldWaits, Fresh
<1>9. QED
    BY <1>4, <1>5, <1>6, <1>7, <1>8 DEF IInv

(* What was told waits no longer.                                           *)
LEMMA ForgetKeeps == ASSUME IInv, Forget PROVE IInv'
<1> DEFINE K == {r \in Routes : ItemOf[r] \notin Item(got)}
<1>1. /\ pc = "forget" /\ pc' = "states" /\ pending' = Keep(pending, K)
      /\ UNCHANGED <<settings, market, digest, best, schedule, lag, changed, urgent, sched, got,
                     slips, told, unkept, peak, blurred, spent, sinceDigest, slipped>>
    BY DEF Forget, history
<1>2. /\ DOMAIN pending' = DOMAIN pending \cap K
      /\ \A r \in DOMAIN pending' : pending'[r] = pending[r]
    BY <1>1, KeepFact
<1>3. TypeOK'
    <2>1. /\ DOMAIN pending' \subseteq Routes
          /\ \A r \in DOMAIN pending' : pending'[r] \in Offers
        BY <1>2 DEF IInv, TypeOK
    <2>2. QED
        BY <1>1, <2>1, Zenon DEF IInv, TypeOK
<1>4. Counted' /\ Prompt' /\ Silent' /\ Remembered' /\ Fresh' /\ WrittenIsTold'
      /\ BestIsHighestOfDigests'
    BY <1>1, Zenon
    DEF IInv, Counted, Prompt, Silent, Remembered, Fresh, WrittenIsTold, BestIsHighestOfDigests, Sending
<1>5. Covered' /\ Dated'
    BY <1>1 DEF IInv, Covered, Dated, Sending
<1>6. Improving'
    <2> SUFFICES ASSUME settings.perHour = 0
                 PROVE  Improving'
        BY <1>1 DEF Improving
    <2>1. /\ urgent = {} /\ blurred = Item(got)
          /\ \A i \in Item(got) : i \in DOMAIN peak /\ peak[i] = Max(Nets(got, i))
        BY <1>1 DEF IInv, Improving
    <2>2. Item(got)' = Item(got) /\ \A i : Nets(got, i)' = Nets(got, i)
        BY <1>1 DEF Item, Nets, OfItem
    <2>3. QED
        BY <1>1, <2>1, <2>2 DEF Improving
<1>7. NothingToldWaits'
    BY <1>1, <1>2 DEF IInv, NothingToldWaits
<1>8. Taken'
    BY <1>1, <1>2 DEF Taken, Item
<1>9. QED
    BY <1>3, <1>4, <1>5, <1>6, <1>7, <1>8 DEF IInv

(* What is written down is what was told, with the pass's now.              *)
LEMMA KeepStatesKeeps == ASSUME IInv, KeepStates PROVE IInv'
<1>1. /\ pc = "states" /\ pc' = "best" /\ digest' = Put(digest, States(got))
      /\ unkept' = unkept \ got
      /\ UNCHANGED <<settings, market, best, pending, schedule, lag, changed, urgent, sched, got,
                     slips, told, peak, blurred, spent, sinceDigest, slipped>>
    BY DEF KeepStates
<1>2. /\ got \subseteq DOMAIN changed /\ got \subseteq DOMAIN told
      /\ \A r \in got : told[r] = [offer |-> changed[r], age |-> lag]
    <2>1. got \subseteq unkept /\ unkept \subseteq DOMAIN told /\ got \subseteq DOMAIN changed
        BY <1>1 DEF IInv, Remembered, TypeOK
    <2>2. \A r \in got : told[r] \in Row /\ told[r].offer = changed[r] /\ told[r].age = lag
        BY <1>1, <2>1 DEF IInv, Remembered, TypeOK
    <2>3. QED
        BY <2>1, <2>2 DEF Row
<1>3. /\ DOMAIN digest' = DOMAIN digest \cup got
      /\ \A r \in got : digest'[r] = told[r]
      /\ \A r \in DOMAIN digest \ got : digest'[r] = digest[r]
    <2>1. /\ DOMAIN States(got) = got
          /\ \A r \in got : States(got)[r] = [offer |-> changed[r], age |-> lag]
        BY StatesFact
    <2>2. /\ DOMAIN Put(digest, States(got)) = DOMAIN digest \cup DOMAIN States(got)
          /\ \A r \in DOMAIN States(got) : Put(digest, States(got))[r] = States(got)[r]
          /\ \A r \in DOMAIN digest \ DOMAIN States(got) :
                Put(digest, States(got))[r] = digest[r]
        BY PutFact
    <2>3. QED
        BY <1>1, <1>2, <2>1, <2>2
<1>4. TypeOK'
    <2>1. /\ DOMAIN digest' \subseteq Routes
          /\ \A r \in DOMAIN digest' : digest'[r] \in Row
          /\ unkept' \subseteq DOMAIN told
        BY <1>1, <1>2, <1>3 DEF IInv, TypeOK
    <2>2. QED
        BY <1>1, <2>1, Zenon DEF IInv, TypeOK
<1>5. Counted' /\ Prompt' /\ Silent' /\ Remembered' /\ Fresh' /\ Taken' /\ BestIsHighestOfDigests'
    BY <1>1, Zenon
    DEF IInv, Counted, Prompt, Silent, Remembered, Fresh, Taken, BestIsHighestOfDigests, Sending
<1>6. Covered' /\ Dated'
    BY <1>1 DEF IInv, Covered, Dated, Sending
<1>7. Improving'
    BY <1>1 DEF IInv, Improving, Item, Nets, OfItem
<1>8. WrittenIsTold'
    BY <1>1, <1>2, <1>3 DEF IInv, WrittenIsTold
<1>9. NothingToldWaits'
    BY <1>1, <1>3 DEF IInv, NothingToldWaits, Taken
<1>10. QED
    BY <1>4, <1>5, <1>6, <1>7, <1>8, <1>9 DEF IInv

(* The best of what a pass told is remembered of each of its items.         *)
LEMMA KeepBestKeeps == ASSUME IInv, KeepBest PROVE IInv'
<1> DEFINE top == [i \in Item(got) |-> BestNet(got, i)]
<1>1. /\ pc = "best" /\ pc' = "save" /\ best' = Put(best, top)
      /\ blurred' = blurred \ Item(got)
      /\ UNCHANGED <<settings, market, digest, pending, schedule, lag, changed, urgent, sched, got,
                     slips, told, unkept, peak, spent, sinceDigest, slipped>>
    BY DEF KeepBest
<1>2. TypeOK /\ got \in SUBSET DOMAIN changed /\ Item(got) \subseteq Items
    BY ItemFact DEF IInv, TypeOK
<1>3. \A i \in Item(got) : Max(Nets(got, i)) \in Nat
    BY <1>2, NetsFact, MaxFact
<1>4. /\ DOMAIN best' = DOMAIN best \cup Item(got)
      /\ \A i \in Item(got) : best'[i] = Max(Nets(got, i))
      /\ \A i \in DOMAIN best \ Item(got) : best'[i] = best[i]
    <2>1. DOMAIN top = Item(got) /\ \A i \in Item(got) : top[i] = Max(Nets(got, i))
        BY DEF BestNet
    <2> HIDE DEF top
    <2>2. /\ DOMAIN Put(best, top) = DOMAIN best \cup DOMAIN top
          /\ \A i \in DOMAIN top : Put(best, top)[i] = top[i]
          /\ \A i \in DOMAIN best \ DOMAIN top : Put(best, top)[i] = best[i]
        BY PutFact
    <2>3. QED
        BY <1>1, <2>1, <2>2
<1>5. TypeOK'
    <2>1. DOMAIN best' \subseteq Items /\ \A i \in DOMAIN best' : best'[i] \in Nat
        BY <1>2, <1>3, <1>4 DEF TypeOK
    <2>2. QED
        BY <1>1, <1>2, <2>1, Zenon DEF TypeOK
<1>6. Counted' /\ Prompt' /\ Silent' /\ Remembered' /\ Fresh' /\ Taken' /\ WrittenIsTold'
      /\ NothingToldWaits'
    BY <1>1
    DEF IInv, Counted, Prompt, Silent, Remembered, Fresh, Taken, WrittenIsTold, NothingToldWaits, Sending
<1>7. Covered' /\ Dated'
    BY <1>1 DEF IInv, Covered, Dated, Sending
<1>8. Improving'
    BY <1>1 DEF IInv, Improving
<1>9. BestIsHighestOfDigests'
    <2> SUFFICES ASSUME settings.perHour = 0, NEW i \in DOMAIN peak
                 PROVE  i \in DOMAIN best' /\ best'[i] = peak[i]
        BY <1>1 DEF BestIsHighestOfDigests
    <2>1. blurred = Item(got) /\ \A k \in Item(got) : peak[k] = Max(Nets(got, k))
        BY <1>1 DEF IInv, Improving
    <2>2. QED
        BY <1>4, <2>1 DEF IInv, BestIsHighestOfDigests
<1>10. QED
    BY <1>5, <1>6, <1>7, <1>8, <1>9 DEF IInv

(* The pass's copy becomes the stored schedule, as old as the pass.         *)
LEMMA SaveKeeps == ASSUME IInv, Save PROVE IInv'
<1>1. /\ pc = "save" /\ pc' = "rest" /\ changed' = Nothing /\ urgent' = {} /\ got' = {}
      /\ sched' = NoSchedule
      /\ schedule' = [sched EXCEPT !.digestAge = Later(@, lag), !.windowAge = Later(@, lag)]
      /\ UNCHANGED <<settings, market, digest, best, pending, lag, slips,
                     told, unkept, peak, blurred, spent, sinceDigest, slipped>>
    BY DEF Save, Over, history
<1>2. sched \in Schedule /\ lag \in Nat /\ NoSchedule \in Schedule
    BY DigestAssumption DEF IInv, TypeOK, NoSchedule, Schedule, Ages, Never
<1>3. Later(sched.digestAge, lag) \in Ages /\ Later(sched.windowAge, lag) \in Ages
    <2>1. sched.digestAge \in Ages /\ sched.windowAge \in Ages
        BY <1>2 DEF Schedule
    <2>2. QED
        BY <1>2, <2>1, LaterFact
<1>4. /\ schedule' \in Schedule /\ schedule'.count = sched.count
      /\ schedule'.digestAge = Later(sched.digestAge, lag)
    BY <1>1, <1>2, <1>3 DEF Schedule
<1>5. TypeOK'
    BY <1>1, <1>2, <1>4, NothingFact DEF IInv, TypeOK
<1>6. Counted' /\ Prompt' /\ Silent' /\ Remembered' /\ Fresh' /\ Taken' /\ WrittenIsTold'
      /\ NothingToldWaits' /\ BestIsHighestOfDigests'
    BY <1>1, Zenon
    DEF IInv, Counted, Prompt, Silent, Remembered, Fresh, Taken, WrittenIsTold, NothingToldWaits,
        BestIsHighestOfDigests, Sending
<1>7. Covered'
    BY <1>1, <1>4 DEF IInv, Covered, Sending
<1>8. Dated'
    <2>1. sched.digestAge \in Ages
        BY <1>2 DEF Schedule
    <2>2. Later(sched.digestAge, lag) = Never <=> sched.digestAge = Never
        BY <1>2, <2>1, LaterFact
    <2>3. QED
        BY <1>1, <1>4, <2>2 DEF IInv, Dated, Sending
<1>9. Improving'
    BY <1>1 DEF IInv, Improving
<1>10. QED
    BY <1>5, <1>6, <1>7, <1>8, <1>9 DEF IInv

-----------------------------------------------------------------------------
(* What else happens.                                                       *)

(* A pass that is cut short with nothing told leaves nothing to remember.   *)
LEMMA StopsKeeps == ASSUME IInv, Stops PROVE IInv'
<1> DEFINE old == Keep(peak, Items \ blurred)
           kept == Keep(best, blurred)
<1>1. /\ pc' = "rest" /\ changed' = Nothing /\ urgent' = {} /\ got' = {} /\ sched' = NoSchedule
      /\ slips < Slips /\ slips' = slips + 1
      /\ blurred' = {} /\ peak' = Put(old, kept)
      /\ UNCHANGED <<settings, market, digest, best, pending, schedule, lag,
                     told, unkept, spent, sinceDigest>>
    BY DEF Stops, Over, dbVars
<1>2. slipped' = (slipped \/ got # {})
    BY Zenon DEF Stops
<1>3. slipped' \in BOOLEAN /\ (~slipped' => ~slipped /\ got = {})
    BY <1>2 DEF IInv, Counted
<1>4. /\ DOMAIN peak' \subseteq DOMAIN peak \cup DOMAIN best
      /\ \A i \in DOMAIN peak' : \/ i \in DOMAIN best /\ peak'[i] = best[i]
                                 \/ i \in DOMAIN peak \ blurred /\ peak'[i] = peak[i]
    <2>1. /\ DOMAIN old = DOMAIN peak \cap (Items \ blurred)
          /\ \A i \in DOMAIN old : old[i] = peak[i]
          /\ DOMAIN kept = DOMAIN best \cap blurred
          /\ \A i \in DOMAIN kept : kept[i] = best[i]
        BY KeepFact
    <2> HIDE DEF old, kept
    <2>2. /\ DOMAIN Put(old, kept) = DOMAIN old \cup DOMAIN kept
          /\ \A i \in DOMAIN kept : Put(old, kept)[i] = kept[i]
          /\ \A i \in DOMAIN old \ DOMAIN kept : Put(old, kept)[i] = old[i]
        BY PutFact
    <2>3. QED
        BY <1>1, <2>1, <2>2
<1>5. NoSchedule \in Schedule /\ slips' \in 0 .. Slips
    BY <1>1, DigestAssumption DEF IInv, TypeOK, NoSchedule, Schedule, Ages, Never
<1>6. TypeOK'
    BY <1>1, <1>5, NothingFact DEF IInv, TypeOK
<1>7. Counted'
    <2>1. DOMAIN peak' \subseteq Items /\ \A i \in DOMAIN peak' : peak'[i] \in Nat
        BY <1>4 DEF IInv, Counted, TypeOK
    <2>2. QED
        BY <1>1, <1>3, <2>1 DEF IInv, Counted
<1>8. Prompt' /\ Silent' /\ Remembered' /\ Fresh' /\ Taken' /\ WrittenIsTold'
      /\ NothingToldWaits' /\ Improving'
    BY <1>1, Zenon
    DEF IInv, Prompt, Silent, Remembered, Fresh, Taken, WrittenIsTold, NothingToldWaits,
        Improving, Sending
<1>9. Covered' /\ Dated'
    BY <1>1, <1>3 DEF IInv, Covered, Dated, Sending
<1>10. BestIsHighestOfDigests'
    BY <1>1, <1>4 DEF IInv, BestIsHighestOfDigests
<1>11. QED
    BY <1>6, <1>7, <1>8, <1>9, <1>10 DEF IInv

(* A pass does not look at the offers again.                                *)
LEMMA TradeKeeps == ASSUME IInv, Trade PROVE IInv'
<1>1. UNCHANGED <<settings, digest, best, pending, schedule, pc, lag, changed, urgent, sched, got,
                  slips, told, unkept, peak, blurred, spent, sinceDigest, slipped>>
    BY DEF Trade, dbVars, passVars, history
<1>2. /\ DOMAIN market' \subseteq Routes
      /\ \A r \in DOMAIN market' : market'[r] \in Offers
    <2>1. CASE \E r \in Routes, o \in Offers : market' = Put(market, [q \in {r} |-> o])
        <3>1. PICK r \in Routes, o \in Offers : market' = Put(market, [q \in {r} |-> o])
            BY <2>1
        <3>2. /\ DOMAIN market' = DOMAIN market \cup {r}
              /\ market'[r] = o
              /\ \A q \in DOMAIN market \ {r} : market'[q] = market[q]
            BY <3>1 DEF Put
        <3>3. QED
            BY <3>1, <3>2 DEF IInv, TypeOK
    <2>2. CASE \E r \in Routes : market' = Keep(market, Routes \ {r})
        <3>1. PICK r \in Routes : market' = Keep(market, Routes \ {r})
            BY <2>2
        <3>2. /\ DOMAIN market' = DOMAIN market \cap (Routes \ {r})
              /\ \A q \in DOMAIN market' : market'[q] = market[q]
            BY <3>1, KeepFact
        <3>3. QED
            BY <3>2 DEF IInv, TypeOK
    <2>3. QED
        BY <2>1, <2>2 DEF Trade
<1>3. TypeOK'
    BY <1>1, <1>2, Zenon DEF IInv, TypeOK
<1>4. Counted' /\ Prompt' /\ Silent' /\ Remembered' /\ Fresh' /\ Taken' /\ WrittenIsTold'
      /\ NothingToldWaits' /\ BestIsHighestOfDigests'
    BY <1>1, Zenon
    DEF IInv, Counted, Prompt, Silent, Remembered, Fresh, Taken, WrittenIsTold,
        NothingToldWaits, BestIsHighestOfDigests, Sending
<1>5. Covered' /\ Dated'
    BY <1>1 DEF IInv, Covered, Dated, Sending
<1>6. Improving'
    BY <1>1, ImprovingStays, Zenon DEF IInv
<1>7. QED
    BY <1>3, <1>4, <1>5, <1>6 DEF IInv

(* Everything grows older at the same pace.                                 *)
LEMMA TickKeeps == ASSUME IInv, Tick PROVE IInv'
<1>1. /\ pc \notin {"items", "schedule"}
      /\ digest' = Aged(digest) /\ told' = Aged(told)
      /\ schedule' = [schedule EXCEPT !.digestAge = Later(@, 1), !.windowAge = Later(@, 1)]
      /\ sinceDigest' = Later(sinceDigest, 1)
      /\ lag' = IF pc = "rest" THEN 0 ELSE Later(lag, 1)
      /\ UNCHANGED <<settings, market, best, pending, pc, changed, urgent, sched, got, slips,
                     unkept, peak, blurred, spent, slipped>>
    BY DEF Tick
<1>2. TypeOK /\ Counted
    BY DEF IInv
<1>3. /\ Longest \in Nat /\ 1 \in Nat
      /\ lag \in Ages /\ lag \in Nat /\ lag \in 0 .. Longest /\ lag # Never
      /\ sinceDigest \in Ages
      /\ schedule \in Schedule /\ schedule.digestAge \in Ages /\ schedule.windowAge \in Ages
      /\ sched \in Schedule /\ sched.digestAge \in Ages
    BY <1>2, DigestAssumption DEF TypeOK, Counted, Schedule, Ages, Never
<1>4. /\ DOMAIN digest' = DOMAIN digest /\ DOMAIN told' = DOMAIN told
      /\ \A r \in DOMAIN digest : /\ digest'[r] \in Row /\ digest'[r].offer = digest[r].offer
                                  /\ digest'[r].age = Later(digest[r].age, 1)
                                  /\ digest'[r].age >= digest[r].age
      /\ \A r \in DOMAIN told : /\ told'[r] \in Row /\ told'[r].offer = told[r].offer
                                /\ told'[r].age = Later(told[r].age, 1)
    BY <1>1, <1>2, AgedFact DEF TypeOK
<1>5. /\ Later(schedule.digestAge, 1) \in Ages /\ Later(schedule.windowAge, 1) \in Ages
      /\ sinceDigest' \in Ages /\ lag' \in 0 .. Longest
    BY <1>1, <1>3, LaterFact
<1>6. /\ schedule' \in Schedule /\ schedule'.count = schedule.count
      /\ schedule'.digestAge = Later(schedule.digestAge, 1)
    BY <1>1, <1>3, <1>5 DEF Schedule
<1>7. TypeOK'
    BY <1>1, <1>2, <1>4, <1>5, <1>6, Zenon DEF TypeOK
<1>8. Counted' /\ Prompt' /\ Silent' /\ Taken' /\ BestIsHighestOfDigests'
    BY <1>1, <1>5, Zenon DEF IInv, Counted, Prompt, Silent, Taken, BestIsHighestOfDigests
<1>9. Remembered'
    <2> SUFFICES ASSUME pc \in {"digest", "forget", "states"}, NEW r \in got
                 PROVE  /\ r \in unkept
                        /\ told'[r].offer = changed[r] /\ told'[r].age = Later(lag, 1)
        BY <1>1 DEF IInv, Remembered, Sending
    <2>1. r \in unkept /\ r \in DOMAIN told /\ told[r].offer = changed[r] /\ told[r].age = lag
        BY <1>2 DEF IInv, Remembered, TypeOK
    <2>2. QED
        BY <1>4, <2>1
<1>10. Fresh'
    <2> SUFFICES ASSUME pc \in {"urgent", "digest"}, NEW r \in DOMAIN changed \cap DOMAIN digest
                 PROVE  /\ digest'[r].age >= settings.cooldown
                        /\ settings.changedOnly => digest'[r].offer # changed[r]
        BY <1>1, <1>4 DEF Fresh
    <2>1. /\ digest[r].age >= settings.cooldown
          /\ settings.changedOnly => digest[r].offer # changed[r]
        BY DEF IInv, Fresh
    <2>2. digest[r].age \in Int /\ settings.cooldown \in Int /\ digest'[r].age \in Int
        BY <1>2, <1>4, SettingsFact DEF TypeOK, Row
    <2>3. QED
        BY <1>4, <2>1, <2>2
<1>11. Covered'
    BY <1>1, <1>6 DEF IInv, Covered, Sending
<1>12. Dated'
    <2> SUFFICES ASSUME ~slipped, sinceDigest' # Never
                 PROVE  /\ got = {} => /\ schedule'.digestAge # Never
                                       /\ schedule'.digestAge <= sinceDigest'
                        /\ pc \in Sending => /\ sched.digestAge # Never
                                             /\ Later(sched.digestAge, lag') <= sinceDigest'
        BY <1>1 DEF Dated
    <2>1. /\ sinceDigest # Never /\ sinceDigest \in 0 .. Longest
          /\ sinceDigest' = IF sinceDigest + 1 > Longest THEN Longest ELSE sinceDigest + 1
        BY <1>1, <1>3 DEF Later, Ages, Never
    <2>2. ASSUME got = {}
          PROVE  schedule'.digestAge # Never /\ schedule'.digestAge <= sinceDigest'
        <3>1. schedule.digestAge # Never /\ schedule.digestAge <= sinceDigest
            BY <2>1, <2>2 DEF IInv, Dated
        <3>2. /\ Later(schedule.digestAge, 1) # Never
              /\ Later(schedule.digestAge, 1) =
                    IF schedule.digestAge + 1 > Longest THEN Longest ELSE schedule.digestAge + 1
            BY <1>3, <3>1, LaterFact
        <3>3. schedule.digestAge \in Int
            BY <1>3 DEF Ages, Never
        <3>4. QED
            BY <1>3, <1>6, <2>1, <3>1, <3>2, <3>3
    <2>3. ASSUME pc \in Sending
          PROVE  sched.digestAge # Never /\ Later(sched.digestAge, lag') <= sinceDigest'
        <3> DEFINE d == sched.digestAge
        <3>1. d # Never /\ Later(d, lag) <= sinceDigest
            BY <2>1, <2>3 DEF IInv, Dated
        <3>2. d \in 0 .. Longest /\ d \in Ages /\ d \in Nat
            BY <1>3, <3>1 DEF Ages, Never
        <3>3. lag' = IF lag + 1 > Longest THEN Longest ELSE lag + 1
            BY <1>1, <1>3, <2>3, LaterFact DEF Sending
        <3>4. lag' \in Nat
            BY <1>3, <3>3
        <3> HIDE DEF d
        <3>5. /\ Later(d, lag) = IF d + lag > Longest THEN Longest ELSE d + lag
              /\ Later(d, lag') = IF d + lag' > Longest THEN Longest ELSE d + lag'
            BY <1>3, <3>1, <3>2, <3>4, LaterFact
        <3>6. QED
            BY <1>3, <2>1, <3>1, <3>2, <3>3, <3>5 DEF d
    <2>4. QED
        BY <2>2, <2>3
<1>13. Improving'
    BY <1>1, ImprovingStays DEF IInv
<1>14. WrittenIsTold'
    <2> SUFFICES ASSUME NEW r \in DOMAIN told \ unkept
                 PROVE  r \in DOMAIN digest /\ digest'[r] = told'[r]
        BY <1>1, <1>4 DEF IInv, WrittenIsTold
    <2>1. r \in DOMAIN digest /\ digest[r] = told[r]
        BY DEF IInv, WrittenIsTold
    <2>2. QED
        BY <1>1, <1>4, <2>1 DEF Row
<1>15. NothingToldWaits'
    BY <1>1, <1>4 DEF IInv, NothingToldWaits
<1>16. QED
    BY <1>7, <1>8, <1>9, <1>10, <1>11, <1>12, <1>13, <1>14, <1>15 DEF IInv

(* After a reset a pass goes on with what it has told, and only that.       *)
LEMMA ResetKeeps == ASSUME IInv, Reset PROVE IInv'
<1>1. /\ slips < Slips /\ slips' = slips + 1
      /\ digest' = Nothing /\ best' = Nothing /\ pending' = Nothing /\ schedule' = NoSchedule
      /\ told' = Keep(told, unkept) /\ peak' = Keep(peak, blurred)
      /\ spent' = 0 /\ sinceDigest' = Never
      /\ UNCHANGED <<settings, market, pc, lag, changed, urgent, sched, got, unkept, blurred,
                     slipped>>
    BY DEF Reset, passVars
<1>2. TypeOK /\ Counted /\ unkept \subseteq DOMAIN told
    BY DEF IInv, TypeOK
<1>3. /\ DOMAIN told' = unkept /\ \A r \in unkept : told'[r] = told[r]
      /\ DOMAIN peak' = DOMAIN peak \cap blurred
      /\ \A i \in DOMAIN peak' : peak'[i] = peak[i]
    <2>1. /\ DOMAIN told' = DOMAIN told \cap unkept
          /\ \A r \in DOMAIN told \cap unkept : told'[r] = told[r]
        BY <1>1, KeepFact
    <2>2. /\ DOMAIN peak' = DOMAIN peak \cap blurred
          /\ \A i \in DOMAIN peak \cap blurred : peak'[i] = peak[i]
        BY <1>1, KeepFact
    <2>3. DOMAIN told \cap unkept = unkept
        BY <1>2
    <2>4. QED
        BY <2>1, <2>2, <2>3
<1>4. /\ NoSchedule \in Schedule /\ NoSchedule.count = 0 /\ Never \in Ages
      /\ slips' \in 0 .. Slips
    BY <1>1, <1>2, DigestAssumption DEF TypeOK, NoSchedule, Schedule, Ages, Never
<1>5. TypeOK'
    <2>1. \A r \in DOMAIN told' : told'[r] \in Row
        BY <1>2, <1>3 DEF TypeOK
    <2>2. DOMAIN told' \subseteq Routes /\ unkept' \subseteq DOMAIN told'
        BY <1>1, <1>2, <1>3 DEF TypeOK
    <2>3. QED
        BY <1>1, <1>2, <1>4, <2>1, <2>2, NothingFact DEF TypeOK
<1>6. Counted'
    BY <1>1, <1>2, <1>3, <1>4 DEF Counted
<1>7. Prompt' /\ Silent' /\ Fresh' /\ Taken' /\ NothingToldWaits'
    BY <1>1, NothingFact DEF IInv, Prompt, Silent, Fresh, Taken, NothingToldWaits
<1>8. Remembered'
    BY <1>1, <1>3 DEF IInv, Remembered, Sending
<1>9. Covered'
    <2>1. /\ settings.perHour \in Nat /\ sched.count \in Nat /\ Cardinality(urgent) \in Nat
          /\ spent \in Nat
        BY <1>2, SettingsFact, CountFact DEF TypeOK, Counted, Schedule
    <2>2. QED
        BY <1>1, <1>4, <2>1 DEF IInv, Covered, Sending
<1>10. Dated'
    BY <1>1 DEF Dated
<1>11. Improving'
    <2> SUFFICES ASSUME settings.perHour = 0
                 PROVE  Improving'
        BY <1>1 DEF Improving
    <2>1. Item(got)' = Item(got) /\ \A i : Nets(got, i)' = Nets(got, i)
        BY <1>1 DEF Item, Nets, OfItem
    <2>2. QED
        BY <1>1, <1>3, <2>1, NothingFact DEF IInv, Improving
<1>12. WrittenIsTold'
    BY <1>1, <1>3, NothingFact DEF WrittenIsTold
<1>13. BestIsHighestOfDigests'
    BY <1>1, <1>3 DEF BestIsHighestOfDigests
<1>14. QED
    BY <1>5, <1>6, <1>7, <1>8, <1>9, <1>10, <1>11, <1>12, <1>13 DEF IInv

(* Nothing changes.                                                         *)
LEMMA StutterKeeps == ASSUME IInv, UNCHANGED vars PROVE IInv'
<1>1. UNCHANGED <<settings, market, digest, best, pending, schedule, pc, lag, changed, urgent,
                  sched, got, slips, told, unkept, peak, blurred, spent, sinceDigest, slipped>>
    BY DEF vars, dbVars, passVars, history
<1>2. TypeOK' /\ Counted' /\ Prompt' /\ Silent' /\ Remembered' /\ Fresh' /\ Taken'
      /\ WrittenIsTold' /\ NothingToldWaits' /\ BestIsHighestOfDigests'
    BY <1>1, Zenon
    DEF IInv, TypeOK, Counted, Prompt, Silent, Remembered, Fresh, Taken, WrittenIsTold,
        NothingToldWaits, BestIsHighestOfDigests, Sending
<1>3. Covered' /\ Dated'
    BY <1>1 DEF IInv, Covered, Dated, Sending
<1>4. Improving'
    BY <1>1, ImprovingStays DEF IInv
<1>5. QED
    BY <1>2, <1>3, <1>4 DEF IInv

(* Every step keeps the invariant.                                          *)
LEMMA NextKeeps == IInv /\ [Next]_vars => IInv'
<1> SUFFICES ASSUME IInv, [Next]_vars
             PROVE  IInv'
    OBVIOUS
<1>1. CASE Pass \/ Begin
    BY <1>1, BeginKeeps, ReadItemsKeeps, ReadScheduleKeeps, SendUrgentKeeps, SendDigestKeeps,
       QueueKeeps, ForgetKeeps, KeepStatesKeeps, KeepBestKeeps, SaveKeeps, Zenon DEF Pass
<1>2. CASE Next /\ ~(Pass \/ Begin)
    BY <1>2, SendNowhereKeeps, StopsKeeps, TradeKeeps, TickKeeps, ResetKeeps, Zenon DEF Next
<1>3. CASE UNCHANGED vars
    BY <1>3, StutterKeeps
<1>4. QED
    BY <1>1, <1>2, <1>3, Zenon

(* The invariant holds throughout.                                          *)
LEMMA Invariant == Spec => []IInv
BY InitStrong, NextKeeps, PTL DEF Spec

-----------------------------------------------------------------------------
(* The theorems.                                                            *)

(* The rows, the pass and the history keep their types.                     *)
THEOREM TypeCorrect == Spec => []TypeOK
<1>1. IInv => TypeOK
    BY DEF IInv
<1>2. QED
    BY <1>1, Invariant, PTL

(* What is written down as told was told, then and with those figures.      *)
THEOREM WritesWhatItTold == Spec => []WrittenIsTold
<1>1. IInv => WrittenIsTold
    BY DEF IInv
<1>2. QED
    BY <1>1, Invariant, PTL

(* A window has no more immediate alerts than the profile allows.           *)
THEOREM KeepsTheLimit == Spec => []LimitKept
<1>1. IInv => LimitKept
    BY DEF IInv, Covered, LimitKept
<1>2. QED
    BY <1>1, Invariant, PTL

(* Nothing waits in the queue that was told with the same figures.          *)
THEOREM QueuesOnlyNews == Spec => []NothingToldWaits
<1>1. IInv => NothingToldWaits
    BY DEF IInv
<1>2. QED
    BY <1>1, Invariant, PTL

(* Without immediate alerts the profit remembered of an item is the highest *)
(* that was told.                                                           *)
THEOREM RemembersTheHighest == Spec => []BestIsHighestOfDigests
<1>1. IInv => BestIsHighestOfDigests
    BY DEF IInv
<1>2. QED
    BY <1>1, Invariant, PTL

(* An offer is told again only after the cooldown and, where only changes   *)
(* are told, with other figures, unless the message before could not be     *)
(* written down.                                                            *)
THEOREM TellsOnlyNews == Spec => TellsNews
<1> DEFINE News == \A r \in got' \ got :
                      r \in DOMAIN told \ unkept =>
                          /\ told[r].age >= settings.cooldown
                          /\ settings.changedOnly => told[r].offer # changed[r]
<1>1. IInv /\ [Next]_vars => [News]_vars
    <2> SUFFICES ASSUME IInv, Next, NEW r \in got' \ got, r \in DOMAIN told \ unkept
                 PROVE  /\ told[r].age >= settings.cooldown
                        /\ settings.changedOnly => told[r].offer # changed[r]
        BY Zenon
    <2>1. SendUrgent \/ SendDigest
        BY Zenon DEF Next, Pass, Begin, ReadItems, ReadSchedule, Queue, Forget, KeepStates,
                     KeepBest, Save, SendNowhere, Stops, Over, Trade, Tick, Reset, passVars
    <2>2. pc \in {"urgent", "digest"} /\ r \in DOMAIN changed
        <3>1. CASE SendUrgent
            BY <3>1 DEF SendUrgent, Tells, IInv, TypeOK
        <3>2. CASE SendDigest
            BY <3>2 DEF SendDigest, Tells, Plain
        <3>3. QED
            BY <2>1, <3>1, <3>2
    <2>3. r \in DOMAIN digest /\ digest[r] = told[r]
        BY DEF IInv, WrittenIsTold
    <2>4. QED
        BY <2>2, <2>3 DEF IInv, Fresh
<1> HIDE DEF News
<1>2. Spec => [][News]_vars
    BY <1>1, Invariant, PTL DEF Spec
<1>3. QED
    BY <1>2 DEF TellsNews, News

(* The passes that send the digests of a profile with an interval begin the *)
(* interval apart.                                                          *)
THEOREM SpacesDigests == Spec => DigestsApart
<1> DEFINE Spaced == SendDigest /\ Plain # {} /\ settings.mode = "DIGEST_INTERVAL" /\ ~slipped =>
                        sinceDigest = Never \/ sinceDigest >= settings.interval
<1>1. IInv => Spaced
    <2> SUFFICES ASSUME IInv, SendDigest, settings.mode = "DIGEST_INTERVAL", ~slipped,
                        sinceDigest # Never
                 PROVE  sinceDigest >= settings.interval
        OBVIOUS
    <2>1. pc = "digest" /\ \E cron \in BOOLEAN : Due(cron)
        BY DEF SendDigest
    <2>2. sched.digestAge = Never \/ sched.digestAge >= settings.interval
        BY <2>1 DEF Due
    <2>3. sched.digestAge # Never /\ Later(sched.digestAge, lag) <= sinceDigest
        BY <2>1 DEF IInv, Dated, Sending
    <2>4. /\ sched.digestAge \in Ages /\ lag \in Nat /\ sinceDigest \in Ages
          /\ Longest \in Nat /\ settings.interval \in Int
        BY SettingsFact, DigestAssumption DEF IInv, TypeOK, Counted, Schedule
    <2>5. Later(sched.digestAge, lag) >= sched.digestAge /\ Later(sched.digestAge, lag) \in Ages
        BY <2>4, LaterFact
    <2>6. QED
        BY <2>2, <2>3, <2>4, <2>5 DEF Ages, Never
<1> HIDE DEF Spaced
<1>2. Spec => [][Spaced]_vars
    BY <1>1, Invariant, PTL DEF Spec
<1>3. QED
    BY <1>2 DEF DigestsApart, Spaced

=============================================================================
