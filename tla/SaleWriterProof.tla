--------------------------- MODULE SaleWriterProof ---------------------------
(***************************************************************************)
(* The task of the Writer implements RowSink, for any rows and any size of *)
(* a batch: no row is decided upon twice, in whatever way flushes fail and *)
(* whenever the process ends.  The channel and the buffer never hold the   *)
(* same row, which is what makes the batches of RowSink those of the task. *)
(***************************************************************************)
EXTENDS SaleWriter, TLAPS

(* The empty channel or buffer holds no row.                                *)
LEMMA ToSetOfEmpty == ToSet(<<>>) = {}
BY DEF ToSet

(* Sending puts one row into the channel.                                   *)
LEMMA ToSetOfAppend ==
    ASSUME NEW S, NEW s \in Seq(S), NEW e \in S
    PROVE  ToSet(Append(s, e)) = ToSet(s) \cup {e}
<1>1. /\ DOMAIN Append(s, e) = DOMAIN s \cup {Len(s) + 1}
      /\ Append(s, e)[Len(s) + 1] = e
      /\ \A n \in DOMAIN s : Append(s, e)[n] = s[n]
    OBVIOUS
<1>2. QED
    BY <1>1, Zenon DEF ToSet

(* Receiving takes one row out of the channel.                              *)
LEMMA ToSetOfTail ==
    ASSUME NEW S, NEW s \in Seq(S), s # <<>>
    PROVE  /\ Head(s) \in S /\ Tail(s) \in Seq(S)
           /\ ToSet(s) = ToSet(Tail(s)) \cup {Head(s)}
           /\ \A n \in DOMAIN Tail(s) : n + 1 \in DOMAIN s /\ n + 1 # 1 /\ Tail(s)[n] = s[n + 1]
<1>1. /\ Len(s) \in Nat \ {0}
      /\ DOMAIN s = 1 .. Len(s)
      /\ DOMAIN Tail(s) = 1 .. Len(s) - 1
      /\ \A n \in 1 .. Len(s) - 1 : Tail(s)[n] = s[n + 1]
      /\ Head(s) = s[1] /\ Head(s) \in S /\ Tail(s) \in Seq(S)
    OBVIOUS
<1>2. \A n \in DOMAIN Tail(s) : n + 1 \in DOMAIN s /\ n + 1 # 1 /\ Tail(s)[n] = s[n + 1]
    BY <1>1
<1>3. \A n \in DOMAIN s : s[n] \in ToSet(Tail(s)) \cup {Head(s)}
    <2> SUFFICES ASSUME NEW n \in DOMAIN s, n # 1
                 PROVE  s[n] \in ToSet(Tail(s))
        BY <1>1
    <2>1. n - 1 \in DOMAIN Tail(s) /\ Tail(s)[n - 1] = s[n]
        BY <1>1
    <2>2. QED
        BY <2>1 DEF ToSet
<1>4. ToSet(Tail(s)) \cup {Head(s)} \subseteq ToSet(s)
    BY <1>1, <1>2 DEF ToSet
<1>5. ToSet(s) \subseteq ToSet(Tail(s)) \cup {Head(s)}
    BY <1>3 DEF ToSet
<1>6. QED
    BY <1>1, <1>2, <1>4, <1>5

(* Draining moves the rows of the channel into the buffer.                  *)
LEMMA ToSetOfConcat ==
    ASSUME NEW S, NEW s \in Seq(S), NEW t \in Seq(S)
    PROVE  ToSet(s \o t) = ToSet(s) \cup ToSet(t)
<1>1. /\ Len(s) \in Nat /\ Len(t) \in Nat
      /\ DOMAIN s = 1 .. Len(s) /\ DOMAIN t = 1 .. Len(t)
      /\ DOMAIN (s \o t) = 1 .. Len(s) + Len(t)
      /\ \A n \in 1 .. Len(s) + Len(t) :
            (s \o t)[n] = IF n <= Len(s) THEN s[n] ELSE t[n - Len(s)]
    OBVIOUS
<1>2. \A n \in DOMAIN (s \o t) : (s \o t)[n] \in ToSet(s) \cup ToSet(t)
    <2> TAKE n \in DOMAIN (s \o t)
    <2>1. CASE n <= Len(s)
        BY <2>1, <1>1 DEF ToSet
    <2>2. CASE n > Len(s)
        <3>1. n - Len(s) \in DOMAIN t /\ (s \o t)[n] = t[n - Len(s)]
            BY <2>2, <1>1
        <3>2. QED
            BY <3>1 DEF ToSet
    <2>3. QED
        BY <2>1, <2>2, <1>1
<1>3. \A n \in DOMAIN s : s[n] \in ToSet(s \o t)
    BY <1>1 DEF ToSet
<1>4. \A n \in DOMAIN t : t[n] \in ToSet(s \o t)
    <2> TAKE n \in DOMAIN t
    <2>1. Len(s) + n \in DOMAIN (s \o t) /\ (s \o t)[Len(s) + n] = t[n]
        BY <1>1
    <2>2. QED
        BY <2>1 DEF ToSet
<1>5. ToSet(s \o t) \subseteq ToSet(s) \cup ToSet(t)
    BY <1>2 DEF ToSet
<1>6. ToSet(s) \cup ToSet(t) \subseteq ToSet(s \o t)
    BY <1>3, <1>4 DEF ToSet
<1>7. QED
    BY <1>5, <1>6

(* Rows in a sequence of rows are rows.                                     *)
LEMMA ToSetTyped ==
    ASSUME NEW S, NEW s \in Seq(S)
    PROVE  ToSet(s) \subseteq S
BY DEF ToSet

-----------------------------------------------------------------------------
(* The inductive invariant.                                                 *)

Distinct(s) == \A m, n \in DOMAIN s : s[m] = s[n] => m = n

(* Every row is in one place.                                               *)
Apart ==
    /\ Distinct(channel)
    /\ ToSet(channel) \cap ToSet(buf) = {}

(* There is room for the row that will be received next.                    *)
Room == ~faulty /\ state = "select" => Len(buf) < BatchSize

Emptied == state \in {"gone", "killed"} => channel = <<>> /\ buf = <<>>

Told == state = "last" => cancelled \/ dropped

(* What was collected is still held until it is written; in the last flush  *)
(* it is all in the buffer.                                                 *)
Kept ==
    ~faulty /\ state # "killed" =>
        /\ collected \subseteq Held \cup written
        /\ state = "last" => collected \subseteq ToSet(buf) \cup written
        /\ state = "gone" => collected \subseteq written

IInv == TypeOK /\ Apart /\ Room /\ Emptied /\ Told /\ Kept

(* The empty sequence, as a channel or a buffer.                            *)
LEMMA EmptySeq == <<>> \in Seq(Rows) /\ Len(<<>>) = 0
OBVIOUS

(* No row is twice in an empty channel.                                     *)
LEMMA EmptyIsDistinct == Distinct(<<>>)
<1>1. DOMAIN <<>> = {}
    OBVIOUS
<1>2. QED
    BY <1>1, Zenon DEF Distinct

(* A Writer that has just started satisfies the invariant.                  *)
LEMMA InitStrong == Init => IInv
<1> SUFFICES ASSUME Init
             PROVE  IInv
    OBVIOUS
<1>1. TypeOK /\ Room
    <2>1. channel \in Seq(Rows) /\ buf \in Seq(Rows) /\ Len(buf) = 0
        BY EmptySeq, Zenon DEF Init
    <2>2. /\ state \in {"select", "gone"} /\ cancelled = FALSE /\ dropped = FALSE
          /\ written = {} /\ lost = {} /\ collected = {} /\ faulty = FALSE
        BY Zenon DEF Init
    <2>3. Len(buf) < BatchSize /\ Len(buf) <= BatchSize
        BY <2>1, WriterAssumption
    <2>4. QED
        BY <2>1, <2>2, <2>3, Zenon DEF TypeOK, Room
<1>2. Apart /\ Held = {}
    <2>1. ToSet(channel) = {} /\ ToSet(buf) = {} /\ Distinct(channel)
        BY ToSetOfEmpty, EmptyIsDistinct, Zenon DEF Init
    <2>2. QED
        BY <2>1 DEF Apart, Held
<1>3. Emptied /\ Told /\ Kept
    BY Zenon DEF Init, Emptied, Told, Kept
<1>4. QED
    BY <1>1, <1>2, <1>3 DEF IInv

(* What a batch leaves behind, whichever of its rows were written.          *)
LEMMA BatchStep ==
    ASSUME IInv, state \in {"flush", "last"}, NEW good \in SUBSET ToSet(buf), Batch(good)
    PROVE  /\ IF state = "last" THEN state' = "gone" /\ channel' = <<>>
              ELSE state' = "select" /\ channel' = channel
           /\ buf' = <<>>
           /\ channel' \in Seq(Rows) /\ Distinct(channel')
           /\ ToSet(buf') = {}
           /\ written' \subseteq Rows /\ lost' \subseteq Rows
           /\ \E batch \in SUBSET Held : Sink!Decide(batch, good)
<1>1. ToSet(channel) \subseteq Rows /\ ToSet(buf) \subseteq Rows
    BY ToSetTyped DEF IInv, TypeOK
<1>2. /\ IF state = "last" THEN state' = "gone" /\ channel' = <<>>
         ELSE state' = "select" /\ channel' = channel
      /\ buf' = <<>>
      /\ channel' \in Seq(Rows) /\ Distinct(channel')
      /\ ToSet(buf') = {}
    <2>1. /\ IF state = "last" THEN state' = "gone" /\ channel' = <<>>
             ELSE state' = "select" /\ channel' = channel
          /\ buf' = <<>>
        BY DEF Batch
    <2>2. channel' \in Seq(Rows)
        BY <2>1, EmptySeq, Zenon DEF IInv, TypeOK
    <2>3. Distinct(channel')
        BY <2>1, EmptyIsDistinct, Zenon DEF IInv, Apart
    <2>4. ToSet(buf') = {}
        BY <2>1, ToSetOfEmpty, Zenon
    <2>5. QED
        BY <2>1, <2>2, <2>3, <2>4, Zenon
<1>3. written' \subseteq Rows /\ lost' \subseteq Rows
    BY <1>1 DEF Batch, IInv, TypeOK
<1>4. CASE state = "last"
    <2>1. Held' = {} /\ lost' = lost \cup (Held \ good)
        BY <1>2, <1>4, EmptySeq DEF Batch, Held, IInv, Apart
    <2>2. Sink!Decide(Held, good)
        BY <2>1 DEF Sink!Decide, Batch, Held
    <2>3. QED
        BY <1>2, <1>3, <2>2
<1>5. CASE state = "flush"
    <2>1. Held' = Held \ ToSet(buf)
        BY <1>2, <1>5, EmptySeq DEF Batch, Held, IInv, Apart
    <2>2. Sink!Decide(ToSet(buf), good)
        BY <2>1, <1>5 DEF Sink!Decide, Batch, Held
    <2>3. QED
        BY <1>2, <1>3, <2>2 DEF Held
<1>6. QED
    BY <1>4, <1>5

(* A row that was not in the channel is there once after it is sent.        *)
LEMMA DistinctAppend ==
    ASSUME NEW s \in Seq(Rows), NEW e \in Rows, Distinct(s), e \notin ToSet(s)
    PROVE  Distinct(Append(s, e))
<1>1. /\ DOMAIN Append(s, e) = DOMAIN s \cup {Len(s) + 1}
      /\ Append(s, e)[Len(s) + 1] = e
      /\ \A n \in DOMAIN s : Append(s, e)[n] = s[n]
    OBVIOUS
<1>2. \A n \in DOMAIN s : s[n] # e
    BY Zenon DEF ToSet
<1>3. QED
    BY <1>1, <1>2, Zenon DEF Distinct

(* A row taken out of the channel is in it no more.                         *)
LEMMA DistinctTail ==
    ASSUME NEW s \in Seq(Rows), s # <<>>, Distinct(s)
    PROVE  Distinct(Tail(s)) /\ Head(s) \notin ToSet(Tail(s))
<1>1. /\ Head(s) = s[1] /\ 1 \in DOMAIN s
      /\ DOMAIN Tail(s) = 1 .. Len(s) - 1 /\ DOMAIN s = 1 .. Len(s)
      /\ Len(s) \in Nat
      /\ \A n \in DOMAIN Tail(s) : n + 1 \in DOMAIN s /\ n + 1 # 1 /\ Tail(s)[n] = s[n + 1]
    OBVIOUS
<1>2. \A n \in DOMAIN Tail(s) : Tail(s)[n] # Head(s)
    BY <1>1, Zenon DEF Distinct
<1>3. ASSUME NEW m \in DOMAIN Tail(s), NEW n \in DOMAIN Tail(s), Tail(s)[m] = Tail(s)[n]
      PROVE  m = n
    <2>1. m + 1 = n + 1
        BY <1>1, <1>3, Zenon DEF Distinct
    <2>2. QED
        BY <2>1, <1>1
<1>4. QED
    BY <1>2, <1>3, Zenon DEF Distinct, ToSet

(* The sets of rows held before and after each kind of step.                *)
LEMMA SendKeeps ==
    ASSUME IInv, NEW r \in Rows, Send(r)
    PROVE  IInv' /\ (Sink!Take(r) \/ Sink!Refuse(r))
<1>1. CASE state = "gone"
    <2>1. channel' = channel /\ buf' = buf /\ Held' = Held
        BY <1>1, Zenon DEF Send, Held
    <2>2. TypeOK' /\ Room' /\ Emptied' /\ Told' /\ Kept'
        BY <1>1, <2>1, Zenon DEF Send, IInv, TypeOK, Room, Emptied, Told, Kept
    <2>3. Apart'
        BY <2>1, Zenon DEF IInv, Apart
    <2>4. Sink!Refuse(r)
        BY <1>1, <2>1, Zenon DEF Send, Sink!Refuse, Sink!New
    <2>5. QED
        BY <2>2, <2>3, <2>4, Zenon DEF IInv
<1>2. CASE state # "gone"
    <2>1. /\ channel' = Append(channel, r) /\ buf' = buf
          /\ r \notin ToSet(channel) /\ r \notin ToSet(buf)
          /\ channel \in Seq(Rows)
        BY <1>2, Zenon DEF Send, Held, IInv, TypeOK
    <2>2. channel' \in Seq(Rows)
        BY <2>1
    <2>3. ToSet(channel') = ToSet(channel) \cup {r} /\ ToSet(buf') = ToSet(buf)
        BY <2>1, ToSetOfAppend, Zenon
    <2>4. Apart'
        <3>1. Distinct(channel')
            BY <2>1, DistinctAppend, Zenon DEF IInv, Apart
        <3>2. ToSet(channel') \cap ToSet(buf') = {}
            BY <2>1, <2>3 DEF IInv, Apart
        <3>3. QED
            BY <3>1, <3>2, Zenon DEF Apart
    <2>5. Held' = Held \cup {r}
        BY <2>3 DEF Held
    <2>6. TypeOK' /\ Room' /\ Emptied' /\ Told'
        BY <1>2, <2>1, <2>2, Zenon DEF Send, IInv, TypeOK, Room, Emptied, Told
    <2>7. Kept'
        BY <1>2, <2>1, <2>5, Zenon DEF Send, IInv, Kept
    <2>8. Sink!Take(r)
        BY <1>2, <2>5, Zenon DEF Send, Sink!Take, Sink!New
    <2>9. QED
        BY <2>4, <2>6, <2>7, <2>8, Zenon DEF IInv
<1>3. QED
    BY <1>1, <1>2

(* Cancellation and the end of the senders move no row.                     *)
LEMMA SignalKeeps ==
    ASSUME IInv, Cancel \/ DropHandles
    PROVE  IInv' /\ UNCHANGED Sink!vars
<1>1. /\ UNCHANGED <<state, channel, buf, written, lost, faulty>>
      /\ cancelled' \in BOOLEAN /\ dropped' \in BOOLEAN
      /\ cancelled => cancelled'
      /\ dropped => dropped'
      /\ cancelled' \/ dropped'
      /\ collected' = IF cancelled \/ dropped THEN collected ELSE Held
    BY Zenon DEF Cancel, DropHandles, IInv, TypeOK
<1>2. Held' = Held /\ Held \subseteq Rows
    <2>1. ToSet(channel) \subseteq Rows /\ ToSet(buf) \subseteq Rows
        BY ToSetTyped DEF IInv, TypeOK
    <2>2. QED
        BY <1>1, <2>1 DEF Held
<1>3. TypeOK' /\ Room' /\ Emptied' /\ Told' /\ Apart'
    <2>1. collected' \subseteq Rows
        BY <1>1, <1>2, Zenon DEF IInv, TypeOK
    <2>2. QED
        BY <1>1, <2>1, Zenon DEF IInv, TypeOK, Room, Emptied, Told, Apart
<1>4. Kept'
    <2>1. CASE cancelled \/ dropped
        BY <1>1, <1>2, <2>1, Zenon DEF IInv, Kept
    <2>2. CASE ~(cancelled \/ dropped)
        <3>1. state # "last"
            BY <2>2, Zenon DEF IInv, Told
        <3>2. state = "gone" => Held = {}
            <4>1. state = "gone" => ToSet(channel) = {} /\ ToSet(buf) = {}
                BY ToSetOfEmpty, Zenon DEF IInv, Emptied
            <4>2. QED
                BY <4>1 DEF Held
        <3>3. collected' = Held
            BY <1>1, <2>2, Zenon
        <3>4. QED
            BY <1>1, <1>2, <3>1, <3>2, <3>3 DEF Kept
    <2>3. QED
        BY <2>1, <2>2
<1>5. QED
    BY <1>1, <1>2, <1>3, <1>4, Zenon DEF IInv, Sink!vars

(* The end of the process decides upon every row still held.                *)
LEMMA EndKeeps ==
    ASSUME IInv, EndProcess
    PROVE  IInv' /\ \E batch \in SUBSET Held : \E good \in SUBSET batch : Sink!Decide(batch, good)
<1>1. PICK good \in SUBSET ToSet(buf) : written' = written \cup good /\ lost' = lost \cup (Held \ good)
    BY DEF EndProcess
<1>2. /\ state' = "killed" /\ channel' = <<>> /\ buf' = <<>>
      /\ UNCHANGED <<cancelled, dropped, collected, faulty>>
    BY Zenon DEF EndProcess
<1>3. ToSet(channel') = {} /\ ToSet(buf') = {} /\ Distinct(channel')
    BY <1>2, ToSetOfEmpty, EmptyIsDistinct, Zenon
<1>4. Held' = {} /\ Apart'
    BY <1>3 DEF Held, Apart
<1>5. written' \subseteq Rows /\ lost' \subseteq Rows
    <2>1. ToSet(channel) \subseteq Rows /\ ToSet(buf) \subseteq Rows
        BY ToSetTyped DEF IInv, TypeOK
    <2>2. QED
        BY <1>1, <2>1 DEF Held, IInv, TypeOK
<1>6. TypeOK' /\ Room' /\ Emptied' /\ Told' /\ Kept'
    <2>1. channel' \in Seq(Rows) /\ buf' \in Seq(Rows) /\ Len(buf') = 0
        BY <1>2, EmptySeq, Zenon
    <2>2. Len(buf') <= BatchSize
        BY <2>1, WriterAssumption
    <2>3. state' \in {"select", "flush", "last", "gone", "killed"} /\ state' # "select" /\ state' # "last"
        BY <1>2
    <2>4. TypeOK'
        BY <1>2, <1>5, <2>1, <2>2, <2>3, Zenon DEF IInv, TypeOK
    <2>5. QED
        BY <1>2, <2>3, <2>4, Zenon DEF Room, Emptied, Told, Kept
<1>7. Sink!Decide(Held, good)
    BY <1>1, <1>4 DEF Sink!Decide, Held
<1>8. QED
    <2>1. good \in SUBSET Held
        BY <1>1 DEF Held
    <2>2. QED
        BY <1>4, <1>6, <1>7, <2>1, Zenon DEF IInv

(* Cancellation of the task drains the channel: no row is decided upon.     *)
LEMMA TurnKeeps ==
    ASSUME IInv, TurnToLastFlush
    PROVE  IInv' /\ UNCHANGED Sink!vars
<1>1. /\ cancelled /\ state' = "last"
      /\ buf' = buf \o channel /\ channel' = <<>>
      /\ UNCHANGED <<cancelled, dropped, written, lost, collected, faulty>>
    BY Zenon DEF TurnToLastFlush
<1>2. channel \in Seq(Rows) /\ buf \in Seq(Rows)
    BY Zenon DEF IInv, TypeOK
<1>3. buf' \in Seq(Rows) /\ ToSet(buf') = ToSet(buf) \cup ToSet(channel)
    <2>1. buf \o channel \in Seq(Rows)
        BY <1>2
    <2>2. ToSet(buf \o channel) = ToSet(buf) \cup ToSet(channel)
        BY <1>2, ToSetOfConcat, SMT
    <2>3. QED
        BY <1>1, <2>1, <2>2, Zenon
<1>4. channel' \in Seq(Rows) /\ Distinct(channel') /\ ToSet(channel') = {}
    BY <1>1, EmptySeq, EmptyIsDistinct, ToSetOfEmpty, Zenon
<1>5. Held' = Held /\ Held = ToSet(buf') /\ Apart'
    BY <1>3, <1>4 DEF Held, Apart
<1>6. /\ state' \in {"select", "flush", "last", "gone", "killed"}
      /\ state' # "select" /\ state' # "gone" /\ state' # "killed" /\ state # "killed"
    BY <1>1 DEF TurnToLastFlush
<1>7. TypeOK' /\ Room' /\ Emptied' /\ Told'
    BY <1>1, <1>3, <1>4, <1>6, Zenon DEF IInv, TypeOK, Room, Emptied, Told
<1>8. Kept'
    BY <1>1, <1>5, <1>6, Zenon DEF IInv, Kept
<1>9. QED
    BY <1>1, <1>5, <1>7, <1>8, Zenon DEF IInv, Sink!vars

(* Receiving moves a row from the channel to the buffer.                    *)
LEMMA ReceiveKeeps ==
    ASSUME IInv, Receive
    PROVE  IInv' /\ UNCHANGED Sink!vars
<1> DEFINE r == Head(channel)
<1>1. /\ state = "select" /\ channel # <<>>
      /\ buf' = Append(buf, r) /\ channel' = Tail(channel)
      /\ state' = IF Len(buf') >= BatchSize THEN "flush" ELSE "select"
      /\ UNCHANGED <<cancelled, dropped, written, lost, collected, faulty>>
    BY Zenon DEF Receive
<1>2. channel \in Seq(Rows) /\ buf \in Seq(Rows)
    BY Zenon DEF IInv, TypeOK
<1>3. /\ r \in Rows /\ channel' \in Seq(Rows)
      /\ ToSet(channel) = ToSet(channel') \cup {r}
    BY <1>1, <1>2, ToSetOfTail, Zenon
<1>4. Distinct(channel') /\ r \notin ToSet(channel')
    BY <1>1, <1>2, DistinctTail, Zenon DEF IInv, Apart
<1>5. buf' \in Seq(Rows) /\ Len(buf') = Len(buf) + 1 /\ Len(buf) \in Nat
    <2> HIDE DEF r
    <2>1. QED
        BY <1>1, <1>2, <1>3
<1>6. ToSet(buf') = ToSet(buf) \cup {r}
    <2> HIDE DEF r
    <2>1. ToSet(Append(buf, r)) = ToSet(buf) \cup {r}
        BY <1>2, <1>3, ToSetOfAppend, SMT
    <2>2. QED
        BY <1>1, <2>1, Zenon
<1>7. Held' = Held /\ Apart'
    <2> HIDE DEF r
    <2>1. ToSet(channel) \cap ToSet(buf) = {}
        BY Zenon DEF IInv, Apart
    <2>2. QED
        BY <1>3, <1>4, <1>6, <2>1 DEF Held, Apart
<1>8. ~faulty => Len(buf') <= BatchSize
    <2>1. ~faulty => Len(buf) < BatchSize
        BY <1>1, Zenon DEF IInv, Room
    <2>2. QED
        BY <2>1, <1>5, WriterAssumption
<1>9. /\ state' \in {"select", "flush", "last", "gone", "killed"}
      /\ state' # "last" /\ state' # "gone"
      /\ state' = "select" => Len(buf') < BatchSize
    <2>1. CASE Len(buf') >= BatchSize
        BY <2>1, <1>1, Zenon
    <2>2. CASE ~(Len(buf') >= BatchSize)
        <3>1. Len(buf') < BatchSize
            BY <2>2, <1>5, WriterAssumption
        <3>2. QED
            BY <2>2, <3>1, <1>1, Zenon
    <2>3. QED
        BY <2>1, <2>2
<1>10. TypeOK' /\ Room' /\ Emptied' /\ Told'
    BY <1>1, <1>3, <1>5, <1>8, <1>9, Zenon DEF IInv, TypeOK, Room, Emptied, Told
<1>11. Kept'
    BY <1>1, <1>7, <1>9, Zenon DEF IInv, Kept
<1>12. QED
    BY <1>1, <1>7, <1>10, <1>11, Zenon DEF IInv, Sink!vars

(* A tick, or a closed channel, turns to a flush with an empty channel.     *)
LEMMA PauseKeeps ==
    ASSUME IInv, Close \/ Tick
    PROVE  IInv' /\ UNCHANGED Sink!vars
<1>1. /\ channel = <<>>
      /\ state = "select" /\ state' \in {"last", "flush"}
      /\ state' = "last" => dropped
      /\ UNCHANGED <<channel, buf, cancelled, dropped, written, lost, collected, faulty>>
    BY Zenon DEF Close, Tick
<1>2. Held' = Held /\ Held = ToSet(buf)
    <2>1. ToSet(channel) = {} /\ channel' = channel /\ buf' = buf
        BY <1>1, ToSetOfEmpty, Zenon
    <2>2. QED
        BY <2>1 DEF Held
<1>3. /\ state' \in {"select", "flush", "last", "gone", "killed"}
      /\ state' # "select" /\ state' # "gone" /\ state' # "killed" /\ state # "killed"
    BY <1>1
<1>4. ~faulty => Len(buf) <= BatchSize
    <2>1. ~faulty => Len(buf) < BatchSize
        BY <1>1, Zenon DEF IInv, Room
    <2>2. Len(buf) \in Nat
        BY DEF IInv, TypeOK
    <2>3. QED
        BY <2>1, <2>2, WriterAssumption
<1>5. TypeOK' /\ Room' /\ Emptied' /\ Told' /\ Apart'
    BY <1>1, <1>3, <1>4, Zenon DEF IInv, TypeOK, Room, Emptied, Told, Apart
<1>6. Kept'
    <2>1. ~faulty => collected \subseteq ToSet(buf) \cup written
        BY <1>2, <1>3, Zenon DEF IInv, Kept
    <2>2. QED
        BY <1>1, <1>2, <1>3, <2>1, Zenon DEF Kept
<1>7. QED
    BY <1>1, <1>2, <1>5, <1>6, Zenon DEF IInv, Sink!vars

(* FlushDone, FlushFails and InsertFails on the last flush.                 *)
LEMMA BatchKeeps ==
    ASSUME IInv, state \in {"flush", "last"}, NEW good \in SUBSET ToSet(buf), Batch(good),
           UNCHANGED <<cancelled, dropped, collected>>, faulty' \in BOOLEAN,
           ~faulty' => ~faulty /\ good = ToSet(buf)
    PROVE  IInv' /\ \E batch \in SUBSET Held : \E g \in SUBSET batch : Sink!Decide(batch, g)
<1>1. /\ IF state = "last" THEN state' = "gone" /\ channel' = <<>>
         ELSE state' = "select" /\ channel' = channel
      /\ buf' = <<>>
      /\ channel' \in Seq(Rows) /\ Distinct(channel')
      /\ ToSet(buf') = {}
      /\ written' \subseteq Rows /\ lost' \subseteq Rows
      /\ \E batch \in SUBSET Held : Sink!Decide(batch, good)
    BY BatchStep, SMT
<1>2. \E batch \in SUBSET Held : \E g \in SUBSET batch : Sink!Decide(batch, g)
    BY <1>1 DEF Sink!Decide
<1>3. buf' \in Seq(Rows) /\ Len(buf') = 0
    BY <1>1, EmptySeq, Zenon
<1>4. Len(buf') < BatchSize /\ Len(buf') <= BatchSize
    BY <1>3, WriterAssumption
<1>5. /\ state' \in {"select", "gone"} /\ state' # "last"
      /\ state' \in {"select", "flush", "last", "gone", "killed"}
      /\ state' = "gone" => state = "last"
    BY <1>1
<1>6. state' = "gone" => channel' = <<>>
    BY <1>1, <1>5, Zenon
<1>7. TypeOK' /\ Room' /\ Emptied' /\ Told'
    BY <1>1, <1>3, <1>4, <1>5, <1>6, Zenon DEF IInv, TypeOK, Room, Emptied, Told
<1>8. Apart'
    BY <1>1 DEF Apart
<1>9. Kept'
    <2> SUFFICES ASSUME ~faulty'
                 PROVE  /\ collected \subseteq Held' \cup written'
                        /\ state' = "gone" => collected \subseteq written'
        BY <1>5, Zenon DEF Kept
    <2>1. written' = written \cup ToSet(buf) /\ ~faulty
        BY Zenon DEF Batch
    <2>2. CASE state = "last"
        <3>1. collected \subseteq written'
            BY <2>1, <2>2 DEF IInv, Kept
        <3>2. QED
            BY <3>1
    <2>3. CASE state # "last"
        <3>1. channel' = channel /\ state' # "gone"
            BY <1>5, <1>1, <2>3, Zenon
        <3>2. ToSet(channel) \subseteq Held'
            <4>1. ToSet(channel') = ToSet(channel)
                BY <3>1, Zenon
            <4>2. QED
                BY <4>1 DEF Held
        <3>3. collected \subseteq Held \cup written
            BY <2>1, Zenon DEF IInv, Kept
        <3>4. collected \subseteq Held' \cup written'
            BY <2>1, <3>2, <3>3 DEF Held
        <3>5. QED
            BY <3>1, <3>4
    <2>4. QED
        BY <2>2, <2>3
<1>10. QED
    BY <1>2, <1>7, <1>8, <1>9, Zenon DEF IInv

(* A flush decides upon a batch that was in the buffer, or upon none.       *)
LEMMA FlushKeeps ==
    ASSUME IInv, FlushDone \/ FlushFails \/ InsertFails
    PROVE  /\ IInv'
           /\ \/ UNCHANGED Sink!vars
              \/ \E batch \in SUBSET Held : \E g \in SUBSET batch : Sink!Decide(batch, g)
<1>1. CASE FlushDone
    <2>1. /\ state \in {"flush", "last"} /\ Batch(ToSet(buf))
          /\ UNCHANGED <<cancelled, dropped, collected>> /\ faulty' = faulty
        BY <1>1, Zenon DEF FlushDone
    <2>2. faulty' \in BOOLEAN /\ ToSet(buf) \in SUBSET ToSet(buf)
        BY <2>1 DEF IInv, TypeOK
    <2>3. QED
        BY <2>1, <2>2, BatchKeeps, SMT
<1>2. CASE FlushFails
    <2>1. PICK good \in SUBSET ToSet(buf) : Batch(good)
        BY <1>2, Zenon DEF FlushFails
    <2>2. /\ state \in {"flush", "last"} /\ faulty' = TRUE
          /\ UNCHANGED <<cancelled, dropped, collected>>
        BY <1>2, Zenon DEF FlushFails
    <2>3. faulty' \in BOOLEAN /\ faulty'
        BY <2>2, Zenon
    <2>4. QED
        BY <2>1, <2>2, <2>3, BatchKeeps, SMT
<1>3. CASE InsertFails /\ state = "last"
    <2>1. /\ Batch({}) /\ faulty' = TRUE
          /\ UNCHANGED <<cancelled, dropped, collected>>
        BY <1>3, Zenon DEF InsertFails
    <2>2. faulty' \in BOOLEAN /\ faulty' /\ {} \in SUBSET ToSet(buf)
        BY <2>1
    <2>3. QED
        BY <1>3, <2>1, <2>2, BatchKeeps, SMT
<1>4. CASE InsertFails /\ state # "last"
    <2>1. /\ state' = "select" /\ faulty' = TRUE
          /\ UNCHANGED <<channel, buf, written, lost, cancelled, dropped, collected>>
        BY <1>4, Zenon DEF InsertFails
    <2>2. /\ state' \in {"select", "flush", "last", "gone", "killed"}
          /\ state' # "last" /\ state' # "gone" /\ faulty'
        BY <2>1
    <2>3. Held' = Held
        BY <2>1, Zenon DEF Held
    <2>4. TypeOK' /\ Room' /\ Emptied' /\ Told' /\ Kept' /\ Apart'
        BY <2>1, <2>2, Zenon DEF IInv, TypeOK, Room, Emptied, Told, Kept, Apart
    <2>5. QED
        BY <2>1, <2>3, <2>4, Zenon DEF IInv, Sink!vars
<1>5. QED
    BY <1>1, <1>2, <1>3, <1>4

(* Every step keeps the invariant and is a step of RowSink or a stutter.    *)
LEMMA StepKeeps ==
    ASSUME IInv, [Next]_writerVars
    PROVE  IInv' /\ [Sink!Next]_(Sink!vars)
<1>1. CASE UNCHANGED writerVars
    <2>1. UNCHANGED <<state, channel, buf, cancelled, dropped, written, lost, collected, faulty>>
        BY <1>1 DEF writerVars
    <2>2. Held' = Held
        BY <2>1, Zenon DEF Held
    <2>3. TypeOK' /\ Room' /\ Emptied' /\ Told' /\ Kept' /\ Apart'
        BY <2>1, <2>2, Zenon DEF IInv, TypeOK, Room, Emptied, Told, Kept, Apart
    <2>4. QED
        BY <2>1, <2>2, <2>3, Zenon DEF IInv, Sink!vars
<1>2. ASSUME NEW r \in Rows, Send(r)
      PROVE  IInv' /\ Sink!Next
    BY <1>2, SendKeeps, Zenon DEF Sink!Next
<1>3. CASE Cancel \/ DropHandles \/ TurnToLastFlush \/ Receive \/ Close \/ Tick
    BY <1>3, SignalKeeps, TurnKeeps, ReceiveKeeps, PauseKeeps, Zenon
<1>4. CASE EndProcess
    BY <1>4, EndKeeps, Zenon DEF Sink!Next
<1>5. CASE FlushDone \/ FlushFails \/ InsertFails
    BY <1>5, FlushKeeps, Zenon DEF Sink!Next
<1>6. QED
    BY <1>1, <1>2, <1>3, <1>4, <1>5, Zenon DEF Next, Task

-----------------------------------------------------------------------------

(* The invariant holds throughout.                                          *)
LEMMA AlwaysStrong == Spec => []IInv
<1>1. Init => IInv
    BY InitStrong
<1>2. IInv /\ [Next]_writerVars => IInv'
    BY StepKeeps
<1>3. QED
    BY <1>1, <1>2, PTL DEF Spec

(* The buffer never outgrows a batch before the last flush unless a flush   *)
(* was refused (the select of Writer::run and its batch size).              *)
THEOREM WriterTypeCorrect == Spec => []TypeOK
<1>1. IInv => TypeOK
    BY DEF IInv
<1>2. QED
    BY <1>1, AlwaysStrong, PTL

(* When the task has ended, and not its process under it, the rows it held  *)
(* when it was told to end are in the table, unless a flush failed: the     *)
(* drain after token.cancelled() does what its comment says.                *)
THEOREM DrainCorrect == Spec => []DrainLosesNothing
<1>1. IInv => DrainLosesNothing
    BY Zenon DEF IInv, Kept, DrainLosesNothing
<1>2. QED
    BY <1>1, AlwaysStrong, PTL

(* However flushes fail and whenever the process ends, every row is decided *)
(* upon once: no row of a refused batch is inserted again by the task, and  *)
(* none is both in the table and given up.                                  *)
THEOREM WriterImplementsSink == Spec => SinkSpec
<1>1. Init => Sink!Init
    <2> SUFFICES ASSUME Init
                 PROVE  Sink!Init
        OBVIOUS
    <2>1. ToSet(channel) = {} /\ ToSet(buf) = {}
        BY ToSetOfEmpty, Zenon DEF Init
    <2>2. Held = {}
        BY <2>1 DEF Held
    <2>3. QED
        BY <2>2, Zenon DEF Init, Sink!Init
<1>2. IInv /\ [Next]_writerVars => [Sink!Next]_(Sink!vars)
    BY StepKeeps
<1>3. QED
    BY <1>1, <1>2, AlwaysStrong, PTL DEF Spec, SinkSpec, Sink!Spec

=============================================================================
