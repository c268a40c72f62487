------------------------- MODULE RealtimeSessionProof -------------------------
(***************************************************************************)
(* What a session serves and what the page of a list shows, for any        *)
(* numbers of subscriptions, pages, limits, backlogs and failures.  What   *)
(* is wanted and what is served meet in the messages under way: of every   *)
(* subscription the messages not yet read tell what will become of it.     *)
(***************************************************************************)
EXTENDS RealtimeSession, FiniteSetTheorems, TLAPS

-----------------------------------------------------------------------------
(* The inductive invariant.                                                 *)

(* Numbers not given out are nowhere.                                       *)
Numbered ==
    /\ \A id \in wanted \cup active \cup DOMAIN streams : id < nextId
    /\ \A n \in 1 .. Len(up) : up[n].id < nextId
    /\ \A n \in 1 .. Len(pending) : pending[n].id < nextId

(* What waits for a connection withdraws a subscription.                    *)
Withdrawn ==
    \A n \in 1 .. Len(pending) : pending[n].say = "unsubscribe" /\ pending[n].id \notin wanted

(* Without a connection there is no session.                                *)
Ended == socket # "open" => /\ up = <<>> /\ active = {} /\ DOMAIN streams = {} /\ asking = Nobody

(* A session has no more subscriptions than it may.                         *)
Limited == Cardinality(active) <= MaxActive

(* A subscription that is wanted is served or refused or will be read, and  *)
(* nothing under way withdraws it.                                          *)
WillServe ==
    socket = "open" =>
        \A id \in wanted :
            /\ id \in active \cup denied \/ \E n \in 1 .. Len(up) : up[n] = Sub(id)
            /\ \A n \in 1 .. Len(up) : up[n] # Unsub(id)

(* One that is not wanted is withdrawn by a message under way, if it is     *)
(* served, and by one after that which makes it, if it is still to be read. *)
WillDrop ==
    /\ \A id \in active \ wanted : \E n \in 1 .. Len(up) : up[n] = Unsub(id)
    /\ \A n \in 1 .. Len(up) :
          up[n].say = "subscribe" /\ up[n].id \notin wanted =>
              \E k \in n + 1 .. Len(up) : up[k] = Unsub(up[n].id)

(* A subscription is said once on a connection, so its stream is made once, *)
(* and is one of a served subscription as long as that is wanted.           *)
Once ==
    /\ \A n \in 1 .. Len(up) : up[n].say = "subscribe" =>
          /\ up[n].id \notin DOMAIN streams /\ up[n].id # asking
          /\ \A k \in 1 .. Len(up) : up[k] = up[n] => k = n
    /\ asking # Nobody => asking \in active /\ asking \notin DOMAIN streams
    /\ wanted \cap DOMAIN streams \subseteq active

(* What the page shows is the list, or it will come to ask again.           *)
Coming(id) ==
    \/ id \in DOMAIN streams /\ streams[id] > 0
    \/ \E n \in DOMAIN down : down[n] = Reply("update", id) \/ down[n] = Reply("stale", id)

Shows ==
    \A id \in wanted \cap ListIds :
        \/ gap \/ unsent > 0 \/ Coming(id)
        \/ fetch = Asked \/ fetch = stored
        \/ fetch = NoFetch /\ view = stored

IInv == /\ TypeOK /\ Numbered /\ Withdrawn /\ Ended /\ Limited /\ WillServe /\ WillDrop /\ Once
        /\ Shows

-----------------------------------------------------------------------------
(* Messages and sequences of them.                                          *)

(* A message makes a subscription or withdraws one.                         *)
LEMMA MessageFact ==
    /\ \A i : Sub(i).say = "subscribe" /\ Sub(i).id = i
    /\ \A i : Unsub(i).say = "unsubscribe" /\ Unsub(i).id = i
    /\ \A i, j : Sub(i) # Unsub(j)
    /\ \A i \in Ids : Sub(i) \in Messages /\ Unsub(i) \in Messages
    /\ \A m \in Messages :
          /\ m.id \in Ids
          /\ m.say = "subscribe" => m = Sub(m.id)
          /\ m.say = "unsubscribe" => m = Unsub(m.id)
          /\ m.say \in {"subscribe", "unsubscribe"}
<1>1. \A i : Sub(i).say = "subscribe" /\ Sub(i).id = i /\ Unsub(i).say = "unsubscribe"
             /\ Unsub(i).id = i
    BY DEF Sub, Unsub
<1>2. \A i, j : Sub(i) # Unsub(j)
    BY <1>1
<1>3. QED
    BY <1>1, <1>2 DEF Sub, Unsub, Messages

(* What the session says is a reply.                                        *)
LEMMA ReplyFact ==
    \A id \in Ids \cup {Nobody} :
        \A what \in {"subscribed", "unsubscribed", "update", "stale", "error"} :
            Reply(what, id) \in Replies
BY DEF Reply, Replies

(* What the page may be doing about the list.                               *)
LEMMA FetchFact ==
    ASSUME TypeOK
    PROVE  /\ {Asked, NoFetch, stored} \subseteq NoFetch .. Edits
           /\ fetch \in NoFetch .. Edits /\ gap \in BOOLEAN
<1>1. Edits \in Nat /\ stored \in 0 .. Edits
    BY SessionAssumption DEF TypeOK
<1>2. {Asked, NoFetch, stored} \subseteq NoFetch .. Edits
    BY <1>1 DEF Asked, NoFetch
<1>3. QED
    BY <1>2 DEF TypeOK

(* A sequence with one more element.                                        *)
LEMMA AppendFact ==
    ASSUME NEW S, NEW q \in Seq(S), NEW x \in S
    PROVE  /\ Append(q, x) \in Seq(S) /\ Len(q) \in Nat /\ Len(Append(q, x)) = Len(q) + 1
           /\ DOMAIN q = 1 .. Len(q) /\ DOMAIN Append(q, x) = 1 .. Len(q) + 1
           /\ \A n \in 1 .. Len(q) : Append(q, x)[n] = q[n]
           /\ Append(q, x)[Len(q) + 1] = x
OBVIOUS

(* A sequence without its first element.                                    *)
LEMMA TailFact ==
    ASSUME NEW S, NEW q \in Seq(S), q # <<>>
    PROVE  /\ Tail(q) \in Seq(S) /\ Len(q) \in Nat /\ Len(q) > 0 /\ Len(Tail(q)) = Len(q) - 1
           /\ Head(q) = q[1] /\ Head(q) \in S
           /\ DOMAIN q = 1 .. Len(q) /\ DOMAIN Tail(q) = 1 .. Len(q) - 1
           /\ \A n \in 1 .. Len(q) - 1 : Tail(q)[n] = q[n + 1]
OBVIOUS

(* A sequence after another.                                                *)
LEMMA ConcatFact ==
    ASSUME NEW S, NEW p \in Seq(S), NEW q \in Seq(S)
    PROVE  /\ p \o q \in Seq(S) /\ Len(p) \in Nat /\ Len(q) \in Nat
           /\ Len(p \o q) = Len(p) + Len(q)
           /\ \A n \in 1 .. Len(p) : (p \o q)[n] = p[n]
           /\ \A n \in Len(p) + 1 .. Len(p) + Len(q) : (p \o q)[n] = q[n - Len(p)]
OBVIOUS

(* The session takes the first message.                                     *)
LEMMA TakenFact ==
    ASSUME TypeOK, up # <<>>, up' = Tail(up)
    PROVE  /\ up' \in Seq(Messages) /\ Len(up) \in Nat /\ Len(up) > 0 /\ Len(up') = Len(up) - 1
           /\ Head(up) = up[1] /\ Head(up) \in Messages
           /\ \A n \in 1 .. Len(up') : n + 1 \in 1 .. Len(up) /\ up'[n] = up[n + 1]
           /\ \A n \in 1 .. Len(up) : n = 1 \/ (n - 1 \in 1 .. Len(up') /\ up'[n - 1] = up[n])
           /\ \A n \in 1 .. Len(up) : up[n] \in Messages
<1>1. up \in Seq(Messages)
    BY DEF TypeOK
<1>2. /\ Tail(up) \in Seq(Messages) /\ Len(up) \in Nat /\ Len(up) > 0
      /\ Len(Tail(up)) = Len(up) - 1 /\ Head(up) = up[1] /\ Head(up) \in Messages
      /\ \A n \in 1 .. Len(up) - 1 : Tail(up)[n] = up[n + 1]
    BY <1>1, TailFact, Zenon
<1>3. \A n \in 1 .. Len(up) : up[n] \in Messages
    BY <1>1
<1>4. ASSUME NEW n \in 1 .. Len(up), n # 1
      PROVE  n - 1 \in 1 .. Len(up') /\ up'[n - 1] = up[n]
    <2>1. n - 1 \in 1 .. Len(up) - 1 /\ (n - 1) + 1 = n
        BY <1>2, <1>4
    <2>2. QED
        BY <1>2, <2>1
<1>5. QED
    BY <1>2, <1>3, <1>4

-----------------------------------------------------------------------------
(* What a step leaves alone.                                                *)

(* A step that changes neither what is wanted nor what is said of it.       *)
LEMMA SessionStays ==
    ASSUME IInv, UNCHANGED <<nextId, wanted, pending, up, active, denied, asking>>,
           socket' = "open" <=> socket = "open", DOMAIN streams' = DOMAIN streams
    PROVE  Numbered' /\ Withdrawn' /\ Ended' /\ Limited' /\ WillServe' /\ WillDrop' /\ Once'
<1>1. Numbered' /\ Withdrawn' /\ Ended' /\ Limited'
    BY DEF IInv, Numbered, Withdrawn, Ended, Limited
<1>2. WillServe' /\ WillDrop'
    BY DEF IInv, WillServe, WillDrop
<1>3. Once'
    BY DEF IInv, Once
<1>4. QED
    BY <1>1, <1>2, <1>3

(* A step after which the page may still count on what it could.            *)
LEMMA ShowsStays ==
    ASSUME IInv, wanted' \cap ListIds \subseteq wanted,
           UNCHANGED <<gap, unsent, fetch, stored, view>>,
           \A id \in DOMAIN streams : id \in DOMAIN streams' /\ streams'[id] = streams[id],
           \A n \in DOMAIN down : \E k \in DOMAIN down' : down'[k] = down[n]
    PROVE  Shows'
<1> SUFFICES ASSUME NEW id \in wanted' \cap ListIds
             PROVE  \/ gap \/ unsent > 0 \/ Coming(id)'
                    \/ fetch = Asked \/ fetch = stored
                    \/ fetch = NoFetch /\ view = stored
    BY DEF Shows
<1>1. Coming(id) => Coming(id)'
    BY DEF Coming
<1>2. QED
    BY <1>1 DEF IInv, Shows

(* What the session said is not unsaid by what it says next.                *)
LEMMA SaidFact ==
    ASSUME TypeOK, NEW m \in Replies, down' = Append(down, m)
    PROVE  /\ down' \in Seq(Replies)
           /\ \A n \in DOMAIN down : \E k \in DOMAIN down' : down'[k] = down[n]
           /\ \E k \in DOMAIN down' : down'[k] = m
<1>1. down \in Seq(Replies)
    BY DEF TypeOK
<1>2. /\ Append(down, m) \in Seq(Replies) /\ Len(down) \in Nat
      /\ DOMAIN down = 1 .. Len(down) /\ DOMAIN Append(down, m) = 1 .. Len(down) + 1
      /\ \A n \in 1 .. Len(down) : Append(down, m)[n] = down[n]
      /\ Append(down, m)[Len(down) + 1] = m
    BY <1>1, AppendFact
<1>3. Len(down) + 1 \in DOMAIN down' /\ DOMAIN down \subseteq DOMAIN down'
    BY <1>2
<1>4. QED
    BY <1>2, <1>3

(* At the start there is nothing.                                           *)
LEMMA InitStrong == Init => IInv
<1> SUFFICES ASSUME Init
             PROVE  IInv
    OBVIOUS
<1>1. /\ up = <<>> /\ down = <<>> /\ pending = <<>> /\ DOMAIN streams = {}
      /\ Len(up) = 0 /\ Len(pending) = 0
      /\ up \in Seq(Messages) /\ down \in Seq(Replies) /\ pending \in Seq(Messages)
    BY DEF Init
<1>2. /\ LastId \in Nat /\ Timers \in Nat /\ Breaks \in Nat /\ Edits \in Nat /\ MaxActive \in Nat
      /\ MaxActive > 0
    BY SessionAssumption
<1>3. TypeOK
    <2>1. /\ nextId \in 1 .. LastId + 1 /\ timers \in 0 .. Timers /\ stored \in 0 .. Edits
          /\ breaks \in 0 .. Breaks /\ 0 \in 0 .. stored + 1 /\ 0 <= stored
        BY <1>2 DEF Init
    <2>2. view \in NoFetch .. Edits /\ fetch \in NoFetch .. Edits
        BY <1>2 DEF Init, NoFetch
    <2>3. /\ wanted \subseteq Ids /\ active \subseteq Ids /\ denied \subseteq Ids
          /\ asking \in Ids \cup {Nobody} /\ socket \in {"connecting", "open", "closed"}
          /\ exists \in BOOLEAN /\ unsent = 0 /\ stored = 0 /\ gap \in BOOLEAN
        BY DEF Init
    <2>4. DOMAIN streams \subseteq Ids /\ \A id \in DOMAIN streams : streams[id] \in 0 .. Room + 1
        BY <1>1
    <2>5. QED
        BY <1>1, <2>1, <2>2, <2>3, <2>4, Zenon DEF TypeOK
<1>4. Limited
    BY <1>2, FS_EmptySet DEF Init, Limited
<1>5. Numbered /\ Withdrawn /\ Ended /\ WillServe /\ WillDrop /\ Once /\ Shows
    BY <1>1 DEF Init, Numbered, Withdrawn, Ended, WillServe, WillDrop, Once, Shows
<1>6. QED
    BY <1>3, <1>4, <1>5 DEF IInv

-----------------------------------------------------------------------------
(* The client.                                                              *)

(* A new subscription is said at once or on the next connection.            *)
LEMMA SubscribeKeeps == ASSUME IInv, Subscribe PROVE IInv'
<1>1. /\ nextId \in Ids /\ nextId' = nextId + 1 /\ wanted' = wanted \cup {nextId}
      /\ up' = IF socket = "open" THEN Append(up, Sub(nextId)) ELSE up
      /\ socket' = Connected
      /\ fetch' = IF nextId \in ListIds THEN Asked ELSE fetch
      /\ gap' = IF nextId \in ListIds THEN FALSE ELSE gap
      /\ UNCHANGED <<pending, timers, down, active, streams, asking, denied, exists, stored, unsent,
                     view, breaks>>
    BY DEF Subscribe, sessionVars, listVars
<1>2. /\ LastId \in Nat /\ nextId \in Nat /\ nextId <= LastId /\ up \in Seq(Messages)
      /\ Len(up) \in Nat /\ socket \in {"connecting", "open", "closed"}
      /\ \A n \in 1 .. Len(up) : up[n] \in Messages
    BY <1>1, SessionAssumption DEF IInv, TypeOK, Ids
<1>3. /\ socket' \in {"connecting", "open", "closed"}
      /\ socket' = "open" <=> socket = "open"
    BY <1>1, <1>2 DEF Connected
<1>4. ASSUME socket = "open"
      PROVE  /\ up' \in Seq(Messages) /\ \A n \in 1 .. Len(up') : up'[n].id < nextId'
             /\ WillServe' /\ WillDrop' /\ Once' /\ Ended'
    <2>1. /\ up' \in Seq(Messages) /\ Len(up') = Len(up) + 1
          /\ \A n \in 1 .. Len(up) : up'[n] = up[n]
          /\ up'[Len(up) + 1] = Sub(nextId)
        <3>1. Sub(nextId) \in Messages /\ up' = Append(up, Sub(nextId))
            BY <1>1, <1>4, MessageFact
        <3>2. QED
            BY <1>2, <3>1, AppendFact
    <2>2. \A n \in 1 .. Len(up') : n \in 1 .. Len(up) \/ n = Len(up) + 1
        BY <1>2, <2>1
    <2>3. Len(up) + 1 \in 1 .. Len(up') /\ \A n \in 1 .. Len(up) : n \in 1 .. Len(up')
        BY <1>2, <2>1
    <2>4. \A n \in 1 .. Len(up) : up[n].id \in Ids /\ up[n].id < nextId /\ up[n].id # nextId
        BY <1>2, MessageFact DEF IInv, Numbered, Ids
    <2>5. WillServe'
        <3> SUFFICES ASSUME NEW id \in wanted'
                     PROVE  /\ id \in active \cup denied \/ \E n \in 1 .. Len(up') : up'[n] = Sub(id)
                            /\ \A n \in 1 .. Len(up') : up'[n] # Unsub(id)
            BY <1>1 DEF WillServe
        <3>1. CASE id = nextId
            BY <2>1, <2>2, <2>3, <2>4, <3>1, MessageFact
        <3>2. CASE id # nextId
            <4>1. id \in wanted
                BY <1>1, <3>2
            <4>2. QED
                BY <1>4, <2>1, <2>2, <2>3, <4>1, MessageFact DEF IInv, WillServe
        <3>3. QED
            BY <3>1, <3>2
    <2>6. WillDrop'
        <3>1. ASSUME NEW id \in active \ wanted'
              PROVE  \E n \in 1 .. Len(up') : up'[n] = Unsub(id)
            BY <1>1, <2>1, <2>3, <3>1 DEF IInv, WillDrop
        <3>2. ASSUME NEW n \in 1 .. Len(up'), up'[n].say = "subscribe", up'[n].id \notin wanted'
              PROVE  \E k \in n + 1 .. Len(up') : up'[k] = Unsub(up'[n].id)
            <4>1. n \in 1 .. Len(up) /\ up'[n] = up[n]
                BY <1>1, <2>1, <2>2, <3>2, MessageFact
            <4>2. PICK k \in n + 1 .. Len(up) : up[k] = Unsub(up[n].id)
                BY <1>1, <3>2, <4>1 DEF IInv, WillDrop
            <4>3. k \in 1 .. Len(up) /\ k \in n + 1 .. Len(up')
                BY <1>2, <2>1, <4>1
            <4>4. QED
                BY <2>1, <4>1, <4>2, <4>3
        <3>3. QED
            BY <1>1, <3>1, <3>2 DEF WillDrop
    <2>7. Once'
        <3>1. ASSUME NEW n \in 1 .. Len(up'), up'[n].say = "subscribe"
              PROVE  /\ up'[n].id \notin DOMAIN streams /\ up'[n].id # asking
                     /\ \A k \in 1 .. Len(up') : up'[k] = up'[n] => k = n
            <4>1. nextId \notin DOMAIN streams /\ nextId # asking
                <5>1. nextId \notin DOMAIN streams /\ nextId \notin active
                    BY <1>2 DEF IInv, Numbered
                <5>2. nextId # Nobody
                    BY <1>1 DEF Nobody, Ids
                <5>3. QED
                    BY <5>1, <5>2 DEF IInv, Once
            <4>2. CASE n = Len(up) + 1
                BY <2>1, <2>2, <2>4, <4>1, <4>2, MessageFact
            <4>3. CASE n \in 1 .. Len(up)
                <5>1. /\ up[n].id \notin DOMAIN streams /\ up[n].id # asking
                      /\ \A k \in 1 .. Len(up) : up[k] = up[n] => k = n
                    BY <2>1, <3>1, <4>3 DEF IInv, Once
                <5>2. up'[n] = up[n] /\ up'[Len(up) + 1] # up[n]
                    BY <2>1, <2>4, <4>3, MessageFact
                <5>3. QED
                    BY <2>1, <2>2, <5>1, <5>2
            <4>4. QED
                BY <2>2, <4>2, <4>3
        <3>2. asking # Nobody => asking \in active /\ asking \notin DOMAIN streams
            BY DEF IInv, Once
        <3>3. wanted' \cap DOMAIN streams \subseteq active
            BY <1>1, <1>2 DEF IInv, Once, Numbered
        <3>4. QED
            BY <1>1, <3>1, <3>2, <3>3 DEF Once
    <2>8. \A n \in 1 .. Len(up') : up'[n].id < nextId'
        BY <1>1, <1>2, <2>1, <2>2, <2>4, MessageFact DEF Ids
    <2>9. Ended'
        BY <1>3, <1>4 DEF Ended
    <2>10. QED
        BY <2>1, <2>5, <2>6, <2>7, <2>8, <2>9
<1>5. ASSUME socket # "open"
      PROVE  /\ up' \in Seq(Messages) /\ \A n \in 1 .. Len(up') : up'[n].id < nextId'
             /\ WillServe' /\ WillDrop' /\ Once' /\ Ended'
    <2>1. up' = <<>> /\ Len(up') = 0 /\ active = {} /\ DOMAIN streams = {} /\ asking = Nobody
        BY <1>1, <1>5 DEF IInv, Ended
    <2>2. up' \in Seq(Messages)
        BY <2>1
    <2>3. QED
        BY <1>1, <1>3, <1>5, <2>1, <2>2 DEF WillServe, WillDrop, Once, Ended
<1>6. /\ up' \in Seq(Messages) /\ \A n \in 1 .. Len(up') : up'[n].id < nextId'
      /\ WillServe' /\ WillDrop' /\ Once' /\ Ended'
    BY <1>4, <1>5
<1>7. TypeOK'
    <2>1. nextId' \in 1 .. LastId + 1 /\ wanted' \subseteq Ids
        BY <1>1, <1>2 DEF IInv, TypeOK, Ids
    <2>2. fetch' \in NoFetch .. Edits /\ gap' \in BOOLEAN
        <3>1. fetch' = Asked \/ fetch' = fetch
            BY <1>1
        <3>2. gap' = FALSE \/ gap' = gap
            BY <1>1
        <3>3. QED
            BY <3>1, <3>2, FetchFact, Zenon DEF IInv
    <2>3. QED
        BY <1>1, <1>3, <1>6, <2>1, <2>2, Zenon DEF IInv, TypeOK
<1>8. Numbered'
    <2>1. \A id \in wanted' \cup active \cup DOMAIN streams : id < nextId'
        BY <1>1, <1>2 DEF IInv, Numbered, TypeOK, Ids
    <2>2. \A n \in 1 .. Len(pending) : pending[n].id < nextId'
        <3>1. \A n \in 1 .. Len(pending) : pending[n].id \in Ids /\ pending[n].id < nextId
            BY MessageFact DEF IInv, Numbered, TypeOK
        <3>2. QED
            BY <1>1, <1>2, <3>1 DEF Ids
    <2>3. QED
        BY <1>1, <1>6, <2>1, <2>2 DEF Numbered
<1>9. Withdrawn'
    BY <1>1, <1>2 DEF IInv, Withdrawn, Numbered
<1>10. Limited'
    BY <1>1 DEF IInv, Limited
<1>11. Shows'
    <2>1. CASE nextId \in ListIds
        BY <1>1, <2>1 DEF Shows
    <2>2. CASE nextId \notin ListIds
        BY <1>1, <2>2, ShowsStays
    <2>3. QED
        BY <2>1, <2>2
<1>12. QED
    BY <1>6, <1>7, <1>8, <1>9, <1>10, <1>11 DEF IInv

(* A subscription dropped is withdrawn at once or on the next connection.   *)
LEMMA UnsubscribeKeeps == ASSUME IInv, NEW id \in Ids, Unsubscribe(id) PROVE IInv'
<1>1. /\ id \in wanted /\ wanted' = wanted \ {id} /\ socket' = Connected
      /\ UNCHANGED <<nextId, timers, down, active, streams, asking, denied, exists, stored, unsent,
                     view, fetch, gap, breaks>>
      /\ socket = "open" => up' = Append(up, Unsub(id)) /\ pending' = pending
      /\ socket # "open" => pending' = Append(pending, Unsub(id)) /\ up' = up
    BY DEF Unsubscribe, sessionVars, listVars, pageVars
<1>2. /\ up \in Seq(Messages) /\ pending \in Seq(Messages) /\ Len(up) \in Nat /\ Len(pending) \in Nat
      /\ socket \in {"connecting", "open", "closed"}
      /\ \A n \in 1 .. Len(up) : up[n] \in Messages
      /\ Unsub(id) \in Messages
    BY MessageFact DEF IInv, TypeOK
<1>3. /\ socket' \in {"connecting", "open", "closed"}
      /\ socket' = "open" <=> socket = "open"
    BY <1>1, <1>2 DEF Connected
<1>4. ASSUME socket = "open"
      PROVE  /\ up' \in Seq(Messages) /\ pending' \in Seq(Messages)
             /\ Withdrawn' /\ Numbered' /\ WillServe' /\ WillDrop' /\ Once' /\ Ended'
    <2>1. /\ up' \in Seq(Messages) /\ Len(up') = Len(up) + 1
          /\ \A n \in 1 .. Len(up) : up'[n] = up[n]
          /\ up'[Len(up) + 1] = Unsub(id)
        BY <1>1, <1>2, <1>4, AppendFact
    <2>2. \A n \in 1 .. Len(up') : n \in 1 .. Len(up) \/ n = Len(up) + 1
        BY <1>2, <2>1
    <2>3. Len(up) + 1 \in 1 .. Len(up') /\ \A n \in 1 .. Len(up) : n \in 1 .. Len(up')
        BY <1>2, <2>1
    <2>4. WillServe'
        BY <1>1, <1>4, <2>1, <2>2, <2>3, MessageFact DEF IInv, WillServe
    <2>5. WillDrop'
        <3>1. ASSUME NEW i \in active \ wanted'
              PROVE  \E n \in 1 .. Len(up') : up'[n] = Unsub(i)
            <4>1. CASE i = id
                BY <2>1, <2>3, <4>1
            <4>2. CASE i # id
                BY <1>1, <2>1, <2>3, <3>1, <4>2 DEF IInv, WillDrop
            <4>3. QED
                BY <4>1, <4>2
        <3>2. ASSUME NEW n \in 1 .. Len(up'), up'[n].say = "subscribe", up'[n].id \notin wanted'
              PROVE  \E k \in n + 1 .. Len(up') : up'[k] = Unsub(up'[n].id)
            <4>1. n \in 1 .. Len(up) /\ up'[n] = up[n]
                BY <2>1, <2>2, <3>2, MessageFact
            <4>2. CASE up[n].id = id
                <5>1. Len(up) + 1 \in n + 1 .. Len(up')
                    BY <1>2, <2>1, <4>1
                <5>2. QED
                    BY <2>1, <4>1, <4>2, <5>1
            <4>3. CASE up[n].id # id
                <5>1. PICK k \in n + 1 .. Len(up) : up[k] = Unsub(up[n].id)
                    BY <1>1, <3>2, <4>1, <4>3 DEF IInv, WillDrop
                <5>2. k \in 1 .. Len(up) /\ k \in n + 1 .. Len(up')
                    BY <1>2, <2>1, <4>1
                <5>3. QED
                    BY <2>1, <4>1, <5>1, <5>2
            <4>4. QED
                BY <4>2, <4>3
        <3>3. QED
            BY <1>1, <3>1, <3>2 DEF WillDrop
    <2>6. Once'
        <3>1. ASSUME NEW n \in 1 .. Len(up'), up'[n].say = "subscribe"
              PROVE  /\ up'[n].id \notin DOMAIN streams /\ up'[n].id # asking
                     /\ \A k \in 1 .. Len(up') : up'[k] = up'[n] => k = n
            <4>1. n \in 1 .. Len(up) /\ up'[n] = up[n]
                BY <2>1, <2>2, <3>1, MessageFact
            <4>2. /\ up[n].id \notin DOMAIN streams /\ up[n].id # asking
                  /\ \A k \in 1 .. Len(up) : up[k] = up[n] => k = n
                BY <3>1, <4>1 DEF IInv, Once
            <4>3. up'[Len(up) + 1] # up[n]
                BY <2>1, <3>1, <4>1, MessageFact
            <4>4. QED
                BY <2>1, <2>2, <4>1, <4>2, <4>3
        <3>2. asking # Nobody => asking \in active /\ asking \notin DOMAIN streams
            BY DEF IInv, Once
        <3>3. wanted' \cap DOMAIN streams \subseteq active
            BY <1>1 DEF IInv, Once
        <3>4. QED
            BY <1>1, <3>1, <3>2, <3>3 DEF Once
    <2>7. Numbered'
        <3>1. \A n \in 1 .. Len(up') : up'[n].id < nextId
            BY <1>1, <2>1, <2>2, MessageFact DEF IInv, Numbered
        <3>2. QED
            BY <1>1, <1>4, <3>1 DEF IInv, Numbered
    <2>8. Withdrawn' /\ Ended'
        BY <1>1, <1>3, <1>4 DEF IInv, Withdrawn, Ended
    <2>9. QED
        BY <1>1, <1>2, <1>4, <2>1, <2>4, <2>5, <2>6, <2>7, <2>8
<1>5. ASSUME socket # "open"
      PROVE  /\ up' \in Seq(Messages) /\ pending' \in Seq(Messages)
             /\ Withdrawn' /\ Numbered' /\ WillServe' /\ WillDrop' /\ Once' /\ Ended'
    <2>1. up' = <<>> /\ Len(up') = 0 /\ active = {} /\ DOMAIN streams = {} /\ asking = Nobody
        BY <1>1, <1>5 DEF IInv, Ended
    <2>2. /\ pending' \in Seq(Messages) /\ Len(pending') = Len(pending) + 1
          /\ \A n \in 1 .. Len(pending) : pending'[n] = pending[n]
          /\ pending'[Len(pending) + 1] = Unsub(id)
        BY <1>1, <1>2, <1>5, AppendFact
    <2>3. \A n \in 1 .. Len(pending') : n \in 1 .. Len(pending) \/ n = Len(pending) + 1
        BY <1>2, <2>2
    <2>4. Withdrawn'
        BY <1>1, <2>2, <2>3, MessageFact DEF IInv, Withdrawn
    <2>5. Numbered'
        <3>1. id < nextId
            BY <1>1 DEF IInv, Numbered
        <3>2. \A n \in 1 .. Len(pending') : pending'[n].id < nextId
            BY <2>2, <2>3, <3>1, MessageFact DEF IInv, Numbered
        <3>3. QED
            BY <1>1, <2>1, <3>2 DEF IInv, Numbered
    <2>6. WillServe' /\ WillDrop' /\ Once' /\ Ended'
        BY <1>1, <1>3, <1>5, <2>1 DEF WillServe, WillDrop, Once, Ended
    <2>7. QED
        BY <1>1, <1>2, <1>5, <2>2, <2>4, <2>5, <2>6
<1>6. /\ up' \in Seq(Messages) /\ pending' \in Seq(Messages)
      /\ Withdrawn' /\ Numbered' /\ WillServe' /\ WillDrop' /\ Once' /\ Ended'
    BY <1>4, <1>5
<1>7. TypeOK'
    <2>1. wanted' \subseteq Ids
        BY <1>1 DEF IInv, TypeOK
    <2>2. QED
        BY <1>1, <1>3, <1>6, <2>1, Zenon DEF IInv, TypeOK
<1>8. Limited'
    BY <1>1 DEF IInv, Limited
<1>9. Shows'
    BY <1>1, ShowsStays
<1>10. QED
    BY <1>6, <1>7, <1>8, <1>9 DEF IInv

(* A new session is told of every subscription, and then of what is not     *)
(* wanted any more.                                                         *)
LEMMA OpenKeeps == ASSUME IInv, Open PROVE IInv'
<1>1. /\ socket = "connecting" /\ socket' = "open" /\ pending' = <<>>
      /\ \E o \in Orders(wanted) : up' = [n \in DOMAIN o |-> Sub(o[n])] \o pending
      /\ UNCHANGED <<nextId, wanted, timers, down, active, streams, asking, denied, exists, stored,
                     unsent, view, fetch, gap, breaks>>
    BY DEF Open, sessionVars, listVars, pageVars
<1>2. PICK o \in Orders(wanted) : up' = [n \in DOMAIN o |-> Sub(o[n])] \o pending
    BY <1>1
<1>3. IsFiniteSet(wanted) /\ Cardinality(wanted) \in Nat
    <2>1. IsFiniteSet(Ids)
        BY FS_Interval, SessionAssumption DEF Ids
    <2>2. wanted \subseteq Ids
        BY DEF IInv, TypeOK
    <2>3. QED
        BY <2>1, <2>2, FS_Subset, FS_CardinalityType
<1> DEFINE c == Cardinality(wanted)
           said == [n \in 1 .. c |-> Sub(o[n])]
<1>4. /\ o \in [1 .. c -> wanted]
      /\ \A i, j \in 1 .. c : o[i] = o[j] => i = j
      /\ \A id \in wanted : \E i \in 1 .. c : o[i] = id
    <2>1. o \in [1 .. c -> wanted] /\ IsInjective(o)
        BY <1>2, Zenon DEF Orders, Bijection, Injection
    <2>2. \A id \in wanted : \E i \in 1 .. c : o[i] = id
        BY <1>2, Zenon DEF Orders, Bijection, Surjection
    <2>3. \A i, j \in 1 .. c : o[i] = o[j] => i = j
        BY <2>1, Zenon DEF IsInjective
    <2>4. QED
        BY <2>1, <2>2, <2>3
<1>5. /\ said \in Seq(Messages) /\ Len(said) = c
      /\ \A n \in 1 .. c : said[n] = Sub(o[n]) /\ o[n] \in wanted
    <2>1. \A n \in 1 .. c : Sub(o[n]) \in Messages
        BY <1>4, MessageFact DEF IInv, TypeOK
    <2>2. QED
        BY <1>3, <1>4, <2>1
<1>6. /\ pending \in Seq(Messages) /\ Len(pending) \in Nat /\ up' = said \o pending
      /\ \A n \in 1 .. Len(pending) : /\ pending[n] = Unsub(pending[n].id)
                                      /\ pending[n].id \notin wanted /\ pending[n].id < nextId
    <2>1. up' = said \o pending
        BY <1>2, <1>4
    <2>2. \A n \in 1 .. Len(pending) : pending[n] \in Messages
        BY DEF IInv, TypeOK
    <2>3. QED
        BY <2>1, <2>2, MessageFact DEF IInv, TypeOK, Withdrawn, Numbered
<1> HIDE DEF said
<1>7. /\ up' \in Seq(Messages) /\ Len(up') = c + Len(pending)
      /\ \A n \in 1 .. c : up'[n] = Sub(o[n])
      /\ \A n \in c + 1 .. c + Len(pending) : up'[n] = pending[n - c]
    <2>1. /\ said \o pending \in Seq(Messages) /\ Len(said \o pending) = Len(said) + Len(pending)
          /\ \A n \in 1 .. Len(said) : (said \o pending)[n] = said[n]
          /\ \A n \in Len(said) + 1 .. Len(said) + Len(pending) :
                (said \o pending)[n] = pending[n - Len(said)]
        <3>1. said \in Seq(Messages) /\ pending \in Seq(Messages)
            BY <1>5, <1>6
        <3>2. QED
            BY <3>1, ConcatFact, Zenon
    <2>2. QED
        BY <1>5, <1>6, <2>1
<1> HIDE DEF c
<1>8. \A n \in 1 .. Len(up') :
          \/ n \in 1 .. c /\ up'[n] = Sub(o[n]) /\ o[n] \in wanted
          \/ /\ n \notin 1 .. c /\ n - c \in 1 .. Len(pending)
             /\ up'[n] = Unsub(pending[n - c].id) /\ pending[n - c].id \notin wanted
             /\ pending[n - c].id < nextId
    <2>1. c \in Nat
        BY <1>3 DEF c
    <2>2. ASSUME NEW n \in 1 .. Len(up'), n \notin 1 .. c
          PROVE  n \in c + 1 .. c + Len(pending) /\ n - c \in 1 .. Len(pending)
        BY <1>6, <1>7, <2>1, <2>2
    <2>3. QED
        BY <1>5, <1>6, <1>7, <2>2
<1>9. \A n \in 1 .. c : n \in 1 .. Len(up')
    <2>1. c \in Nat
        BY <1>3 DEF c
    <2>2. QED
        BY <1>6, <1>7, <2>1
<1>10. active = {} /\ DOMAIN streams = {} /\ asking = Nobody
    BY <1>1 DEF IInv, Ended
<1>11. TypeOK'
    <2>1. pending' \in Seq(Messages) /\ socket' \in {"connecting", "open", "closed"}
        BY <1>1
    <2>2. QED
        BY <1>1, <1>7, <2>1, Zenon DEF IInv, TypeOK
<1>12. Numbered'
    <2>1. \A n \in 1 .. Len(up') : up'[n].id < nextId
        BY <1>8, MessageFact DEF IInv, Numbered
    <2>2. Len(pending') = 0
        BY <1>1
    <2>3. QED
        BY <1>1, <2>1, <2>2 DEF IInv, Numbered
<1>13. Withdrawn' /\ Ended' /\ Limited'
    BY <1>1 DEF IInv, Withdrawn, Ended, Limited
<1>14. WillServe'
    <2> SUFFICES ASSUME NEW id \in wanted
                 PROVE  /\ \E n \in 1 .. Len(up') : up'[n] = Sub(id)
                        /\ \A n \in 1 .. Len(up') : up'[n] # Unsub(id)
        BY <1>1 DEF WillServe
    <2>1. PICK n \in 1 .. c : o[n] = id
        BY <1>4
    <2>2. n \in 1 .. Len(up') /\ up'[n] = Sub(id)
        BY <1>7, <1>9, <2>1
    <2>3. ASSUME NEW k \in 1 .. Len(up')
          PROVE  up'[k] # Unsub(id)
        <3>1. CASE up'[k] = Sub(o[k])
            BY <3>1, MessageFact
        <3>2. CASE up'[k] = Unsub(pending[k - c].id) /\ pending[k - c].id \notin wanted
            BY <3>2, MessageFact
        <3>3. QED
            BY <1>8, <3>1, <3>2
    <2>4. QED
        BY <2>2, <2>3
<1>15. WillDrop'
    <2>1. active' \ wanted' = {}
        BY <1>1, <1>10
    <2>2. \A n \in 1 .. Len(up') : ~(up'[n].say = "subscribe" /\ up'[n].id \notin wanted')
        <3> SUFFICES ASSUME NEW n \in 1 .. Len(up'), up'[n].say = "subscribe"
                     PROVE  up'[n].id \in wanted
            BY <1>1
        <3>1. CASE up'[n] = Sub(o[n]) /\ o[n] \in wanted
            BY <3>1, MessageFact
        <3>2. CASE up'[n] = Unsub(pending[n - c].id)
            BY <3>2, MessageFact
        <3>3. QED
            BY <1>8, <3>1, <3>2
    <2>3. QED
        BY <2>1, <2>2 DEF WillDrop
<1>16. Once'
    <2>1. ASSUME NEW n \in 1 .. Len(up'), up'[n].say = "subscribe", NEW k \in 1 .. Len(up'),
                 up'[k] = up'[n]
          PROVE  k = n
        <3>1. n \in 1 .. c /\ up'[n] = Sub(o[n]) /\ k \in 1 .. c /\ up'[k] = Sub(o[k])
            BY <1>8, <2>1, MessageFact
        <3>2. o[n] = o[k]
            BY <2>1, <3>1, MessageFact
        <3>3. QED
            BY <1>4, <3>1, <3>2
    <2>2. ASSUME NEW n \in 1 .. Len(up'), up'[n].say = "subscribe"
          PROVE  up'[n].id \in wanted /\ up'[n].id # Nobody
        <3>1. up'[n].id \in wanted
            BY <1>8, <2>2, MessageFact
        <3>2. QED
            BY <3>1 DEF IInv, TypeOK, Ids, Nobody
    <2>3. QED
        BY <1>1, <1>10, <2>1, <2>2 DEF Once
<1>17. Shows'
    BY <1>1, ShowsStays
<1>18. QED
    BY <1>11, <1>12, <1>13, <1>14, <1>15, <1>16, <1>17 DEF IInv


(* With the connection goes the session, and what was under way.            *)
LEMMA CloseKeeps == ASSUME IInv, Close, breaks' \in 0 .. Breaks PROVE IInv'
<1>1. /\ socket' = "closed" /\ up' = <<>> /\ down' = <<>>
      /\ active' = {} /\ DOMAIN streams' = {} /\ asking' = Nobody /\ denied' = {}
      /\ gap' = (gap \/ Underway)
      /\ UNCHANGED <<nextId, wanted, pending, exists, stored, unsent, view, fetch>>
    BY DEF Close, listVars
<1>2. up' \in Seq(Messages) /\ down' \in Seq(Replies) /\ Len(up') = 0
    BY <1>1
<1>3. timers' \in 0 .. Timers
    <2>1. PICK n \in 1 .. 2 : timers' = Scheduled(n)
        BY DEF Close
    <2>2. timers \in 0 .. Timers /\ Timers \in Nat
        BY SessionAssumption DEF IInv, TypeOK
    <2>3. CASE wanted = {} /\ pending = <<>>
        BY <2>1, <2>2, <2>3 DEF Scheduled
    <2>4. CASE ~(wanted = {} /\ pending = <<>>) /\ timers + n > Timers
        BY <2>1, <2>2, <2>4 DEF Scheduled
    <2>5. CASE ~(wanted = {} /\ pending = <<>>) /\ ~(timers + n > Timers)
        <3>1. timers' = timers + n
            BY <2>1, <2>5 DEF Scheduled
        <3>2. QED
            BY <2>1, <2>2, <2>5, <3>1
    <2>6. QED
        BY <2>3, <2>4, <2>5
<1>4. TypeOK'
    <2>1. /\ socket' \in {"connecting", "open", "closed"} /\ active' \subseteq Ids
          /\ asking' \in Ids \cup {Nobody} /\ denied' \subseteq Ids /\ gap' \in BOOLEAN
        BY <1>1 DEF IInv, TypeOK
    <2>2. DOMAIN streams' \subseteq Ids /\ \A id \in DOMAIN streams' : streams'[id] \in 0 .. Room + 1
        BY <1>1
    <2>3. QED
        BY <1>1, <1>2, <1>3, <2>1, <2>2, Zenon DEF IInv, TypeOK
<1>5. Numbered' /\ Withdrawn' /\ Ended' /\ WillServe' /\ WillDrop' /\ Once'
    BY <1>1, <1>2 DEF IInv, Numbered, Withdrawn, Ended, WillServe, WillDrop, Once
<1>6. Limited'
    BY <1>1, FS_EmptySet, SessionAssumption DEF Limited
<1>7. Shows'
    <2>1. ASSUME NEW id \in wanted \cap ListIds, Coming(id)
          PROVE  Underway
        BY <2>1 DEF Coming, Underway
    <2>2. QED
        BY <1>1, <2>1 DEF IInv, Shows
<1>8. QED
    BY <1>4, <1>5, <1>6, <1>7 DEF IInv

(* A connection breaks, or the permission cannot be asked for.              *)
LEMMA BreakKeeps == ASSUME IInv, Break \/ PermissionFails PROVE IInv'
<1>1. Close
    BY DEF Break, PermissionFails
<1>2. breaks' \in 0 .. Breaks
    BY SessionAssumption DEF Break, PermissionFails, IInv, TypeOK
<1>3. QED
    BY <1>1, <1>2, CloseKeeps

(* A timer of the client runs out.                                          *)
LEMMA ReconnectKeeps == ASSUME IInv, Reconnect PROVE IInv'
<1>1. /\ timers > 0 /\ timers' = timers - 1 /\ socket' = Connected
      /\ UNCHANGED <<nextId, wanted, pending, up, down, active, streams, asking, denied, exists,
                     stored, unsent, view, fetch, gap, breaks>>
    BY DEF Reconnect, wireVars, sessionVars, listVars, pageVars
<1>2. /\ socket' \in {"connecting", "open", "closed"}
      /\ socket' = "open" <=> socket = "open"
    BY <1>1 DEF Connected, IInv, TypeOK
<1>3. TypeOK'
    <2>1. timers' \in 0 .. Timers
        BY <1>1, SessionAssumption DEF IInv, TypeOK
    <2>2. QED
        BY <1>1, <1>2, <2>1, Zenon DEF IInv, TypeOK
<1>4. Shows'
    BY <1>1, ShowsStays
<1>5. QED
    BY <1>1, <1>2, <1>3, <1>4, SessionStays DEF IInv

-----------------------------------------------------------------------------
(* The page.                                                                *)

(* The page asks again when it hears of a change.                           *)
LEMMA HearKeeps == ASSUME IInv, Hear PROVE IInv'
<1>1. /\ down # <<>> /\ down' = Tail(down)
      /\ IF Moves(Head(down)) THEN fetch' = Asked /\ gap' = FALSE ELSE UNCHANGED <<fetch, gap>>
      /\ UNCHANGED <<nextId, wanted, pending, socket, timers, up, active, streams, asking, denied,
                     exists, stored, unsent, view, breaks>>
    BY DEF Hear, clientVars, sessionVars, listVars
<1>2. /\ Tail(down) \in Seq(Replies) /\ Len(down) \in Nat /\ Len(down) > 0
      /\ Len(Tail(down)) = Len(down) - 1 /\ Head(down) = down[1]
      /\ DOMAIN down = 1 .. Len(down) /\ DOMAIN Tail(down) = 1 .. Len(down) - 1
      /\ \A n \in 1 .. Len(down) - 1 : Tail(down)[n] = down[n + 1]
    <2>1. down \in Seq(Replies)
        BY DEF IInv, TypeOK
    <2>2. QED
        BY <1>1, <2>1, TailFact, Zenon
<1>3. TypeOK'
    <2>1. fetch' \in NoFetch .. Edits /\ gap' \in BOOLEAN
        BY <1>1, FetchFact, Zenon DEF IInv
    <2>2. QED
        BY <1>1, <1>2, <2>1, Zenon DEF IInv, TypeOK
<1>4. Shows'
    <2>1. CASE Moves(Head(down))
        BY <1>1, <2>1 DEF Shows
    <2>2. CASE ~Moves(Head(down))
        <3>1. ASSUME NEW id \in wanted \cap ListIds, Coming(id)
              PROVE  Coming(id)'
            <4>1. CASE id \in DOMAIN streams /\ streams[id] > 0
                BY <1>1, <4>1 DEF Coming
            <4>2. ASSUME NEW n \in DOMAIN down, down[n] = Reply("update", id) \/ down[n] = Reply("stale", id)
                  PROVE  Coming(id)'
                <5>1. n # 1
                    BY <1>2, <2>2, <3>1, <4>2 DEF Moves, Reply
                <5>2. n - 1 \in DOMAIN down' /\ down'[n - 1] = down[n]
                    <6>1. n \in 1 .. Len(down)
                        BY <1>2, <4>2
                    <6>2. n - 1 \in 1 .. Len(down) - 1 /\ (n - 1) + 1 = n
                        BY <1>2, <5>1, <6>1
                    <6>3. QED
                        BY <1>1, <1>2, <6>2
                <5>3. QED
                    BY <4>2, <5>2 DEF Coming
            <4>3. QED
                BY <3>1, <4>1, <4>2 DEF Coming
        <3>2. QED
            BY <1>1, <2>2, <3>1 DEF IInv, Shows
    <2>3. QED
        BY <2>1, <2>2
<1>5. QED
    BY <1>1, <1>3, <1>4, SessionStays DEF IInv

(* The request is answered, fails, or its answer is shown.                  *)
LEMMA FetchKeeps == ASSUME IInv, FetchReads \/ FetchFails \/ FetchShows PROVE IInv'
<1>1. UNCHANGED <<nextId, wanted, pending, socket, timers, up, down, active, streams, asking, denied,
                  exists, stored, unsent>>
    BY DEF FetchReads, FetchFails, FetchShows, clientVars, wireVars, sessionVars, listVars
<1>2. Breaks \in Nat /\ Edits \in Nat
    BY SessionAssumption
<1>3. CASE FetchReads
    <2>1. fetch = Asked /\ fetch' = stored /\ UNCHANGED <<view, gap, breaks>>
        BY <1>3 DEF FetchReads
    <2>2. fetch' \in NoFetch .. Edits
        BY <1>2, <2>1 DEF IInv, TypeOK, NoFetch
    <2>3. TypeOK'
        BY <1>1, <2>1, <2>2, Zenon DEF IInv, TypeOK
    <2>4. Shows'
        BY <1>1, <2>1 DEF Shows
    <2>5. QED
        BY <1>1, <2>3, <2>4, SessionStays DEF IInv
<1>4. CASE FetchFails
    <2>1. /\ breaks' = breaks \/ (breaks < Breaks /\ breaks' = breaks + 1)
          /\ fetch' = NoFetch /\ gap' = TRUE /\ view' = view
        BY <1>4 DEF FetchFails
    <2>2. fetch' \in NoFetch .. Edits /\ breaks' \in 0 .. Breaks /\ gap' \in BOOLEAN
        BY <1>2, <2>1 DEF IInv, TypeOK, NoFetch
    <2>3. TypeOK'
        BY <1>1, <2>1, <2>2, Zenon DEF IInv, TypeOK
    <2>4. Shows'
        BY <1>1, <2>1 DEF Shows
    <2>5. QED
        BY <1>1, <2>3, <2>4, SessionStays DEF IInv
<1>5. CASE FetchShows
    <2>1. fetch >= 0 /\ view' = fetch /\ fetch' = NoFetch /\ UNCHANGED <<gap, breaks>>
        BY <1>5 DEF FetchShows
    <2>2. fetch' \in NoFetch .. Edits /\ view' \in NoFetch .. Edits
        BY <1>2, <2>1 DEF IInv, TypeOK, NoFetch
    <2>3. TypeOK'
        BY <1>1, <2>1, <2>2, Zenon DEF IInv, TypeOK
    <2>4. Shows'
        <3>1. fetch # Asked /\ fetch # NoFetch
            BY <2>1 DEF Asked, NoFetch
        <3>2. \A id : Coming(id)' <=> Coming(id)
            BY <1>1 DEF Coming
        <3>3. QED
            BY <1>1, <2>1, <3>1, <3>2 DEF IInv, Shows
    <2>5. QED
        BY <1>1, <2>3, <2>4, SessionStays DEF IInv
<1>6. QED
    BY <1>3, <1>4, <1>5

-----------------------------------------------------------------------------
(* The session.                                                             *)

(* A session serves finitely many subscriptions.                            *)
LEMMA FiniteFact ==
    ASSUME IInv
    PROVE  IsFiniteSet(active) /\ Cardinality(active) \in Nat /\ MaxActive \in Nat
<1>1. 1 \in Int /\ LastId \in Int /\ MaxActive \in Nat
    BY SessionAssumption
<1>2. IsFiniteSet(Ids)
    BY <1>1, FS_Interval DEF Ids
<1>3. active \subseteq Ids
    BY DEF IInv, TypeOK
<1>4. IsFiniteSet(active)
    BY <1>2, <1>3, FS_Subset
<1>5. QED
    BY <1>1, <1>4, FS_CardinalityType

(* The limit, when a subscription is taken that there is room for.          *)
LEMMA LimitFact ==
    ASSUME IInv, NEW id \in Ids, ~Full(id)
    PROVE  Cardinality(active \cup {id}) <= MaxActive
<1>1. IsFiniteSet(active) /\ Cardinality(active) \in Nat /\ MaxActive \in Nat
    BY FiniteFact
<1>2. Cardinality(active \cup {id}) = IF id \in active THEN Cardinality(active)
                                      ELSE Cardinality(active) + 1
    BY <1>1, FS_AddElement
<1>3. QED
    BY <1>1, <1>2 DEF IInv, Limited, Full

(* A subscription that is taken is served, and dropped by what follows if   *)
(* it is not wanted.                                                        *)
LEMMA TakenServed ==
    ASSUME IInv, socket = "open", up # <<>>, Head(up).say = "subscribe", up' = Tail(up),
           active' = active \cup {Head(up).id},
           UNCHANGED <<nextId, wanted, pending, socket, denied>>
    PROVE  /\ up' \in Seq(Messages) /\ Head(up).id \in Ids /\ active' \subseteq Ids
           /\ Head(up).id < nextId /\ \A n \in 1 .. Len(up') : up'[n].id < nextId
           /\ Head(up).id \notin DOMAIN streams
           /\ Withdrawn' /\ Ended' /\ WillServe' /\ WillDrop'
           /\ \A n \in 1 .. Len(up') : up'[n].say = "subscribe" =>
                 /\ up'[n].id \notin DOMAIN streams /\ up'[n].id # asking
                 /\ up'[n].id # Head(up).id
                 /\ \A k \in 1 .. Len(up') : up'[k] = up'[n] => k = n
<1> DEFINE id == Head(up).id
<1>1. /\ up' \in Seq(Messages) /\ Len(up) \in Nat /\ Len(up) > 0 /\ Len(up') = Len(up) - 1
      /\ Head(up) = up[1] /\ Head(up) \in Messages
      /\ \A n \in 1 .. Len(up') : n + 1 \in 1 .. Len(up) /\ up'[n] = up[n + 1]
      /\ \A n \in 1 .. Len(up) : n = 1 \/ (n - 1 \in 1 .. Len(up') /\ up'[n - 1] = up[n])
      /\ \A n \in 1 .. Len(up) : up[n] \in Messages
    BY TakenFact DEF IInv
<1>2. id \in Ids /\ Head(up) = Sub(id) /\ up[1] = Sub(id) /\ 1 \in 1 .. Len(up)
    BY <1>1, MessageFact
<1>3. active' \subseteq Ids
    BY <1>2 DEF IInv, TypeOK
<1>4. id < nextId /\ \A n \in 1 .. Len(up') : up'[n].id < nextId
    BY <1>1, <1>2, MessageFact DEF IInv, Numbered
<1>5. /\ id \notin DOMAIN streams
      /\ \A k \in 1 .. Len(up) : up[k] = up[1] => k = 1
    BY <1>1, <1>2, MessageFact DEF IInv, Once
<1> HIDE DEF id
<1>6. WillServe'
    <2> SUFFICES ASSUME NEW i \in wanted
                 PROVE  /\ i \in active' \cup denied \/ \E n \in 1 .. Len(up') : up'[n] = Sub(i)
                        /\ \A n \in 1 .. Len(up') : up'[n] # Unsub(i)
        BY DEF WillServe
    <2>1. \A n \in 1 .. Len(up') : up'[n] # Unsub(i)
        BY <1>1 DEF IInv, WillServe
    <2>2. CASE i \in active \cup denied
        BY <2>1, <2>2
    <2>3. ASSUME NEW n \in 1 .. Len(up), up[n] = Sub(i)
          PROVE  i \in active' \cup denied \/ \E k \in 1 .. Len(up') : up'[k] = Sub(i)
        <3>1. CASE n = 1
            <4>1. i = id
                BY <1>2, <2>3, <3>1, MessageFact
            <4>2. QED
                BY <4>1 DEF id
        <3>2. CASE n # 1
            BY <1>1, <2>3, <3>2
        <3>3. QED
            BY <3>1, <3>2
    <2>4. QED
        BY <2>1, <2>2, <2>3 DEF IInv, WillServe
<1>7. WillDrop'
    <2>1. ASSUME NEW i \in active' \ wanted
          PROVE  \E n \in 1 .. Len(up') : up'[n] = Unsub(i)
        <3>1. CASE i = id
            <4>1. PICK k \in 1 + 1 .. Len(up) : up[k] = Unsub(up[1].id)
                BY <1>1, <1>2, <2>1, <3>1, MessageFact DEF IInv, WillDrop
            <4>2. k \in 1 .. Len(up) /\ k # 1 /\ up[k] = Unsub(i)
                BY <1>1, <1>2, <3>1, <4>1, MessageFact
            <4>3. QED
                BY <1>1, <4>2
        <3>2. CASE i # id
            <4>1. PICK k \in 1 .. Len(up) : up[k] = Unsub(i)
                BY <2>1, <3>2 DEF IInv, WillDrop, id
            <4>2. k # 1
                BY <1>2, <4>1, MessageFact
            <4>3. QED
                BY <1>1, <4>1, <4>2
        <3>3. QED
            BY <3>1, <3>2
    <2>2. ASSUME NEW n \in 1 .. Len(up'), up'[n].say = "subscribe", up'[n].id \notin wanted
          PROVE  \E k \in n + 1 .. Len(up') : up'[k] = Unsub(up'[n].id)
        <3>1. n + 1 \in 1 .. Len(up) /\ up'[n] = up[n + 1]
            BY <1>1
        <3>2. PICK k \in (n + 1) + 1 .. Len(up) : up[k] = Unsub(up[n + 1].id)
            BY <2>2, <3>1 DEF IInv, WillDrop
        <3>3. k \in 1 .. Len(up) /\ k # 1 /\ k - 1 \in n + 1 .. Len(up')
            BY <1>1, <3>2
        <3>4. up'[k - 1] = up[k]
            BY <1>1, <3>3
        <3>5. QED
            BY <3>1, <3>2, <3>3, <3>4
    <2>3. QED
        BY <2>1, <2>2 DEF WillDrop
<1>8. ASSUME NEW n \in 1 .. Len(up'), up'[n].say = "subscribe"
      PROVE  /\ up'[n].id \notin DOMAIN streams /\ up'[n].id # asking
             /\ up'[n].id # id
             /\ \A k \in 1 .. Len(up') : up'[k] = up'[n] => k = n
    <2>1. n + 1 \in 1 .. Len(up) /\ up'[n] = up[n + 1] /\ n + 1 # 1
        BY <1>1
    <2>2. /\ up[n + 1].id \notin DOMAIN streams /\ up[n + 1].id # asking
          /\ \A k \in 1 .. Len(up) : up[k] = up[n + 1] => k = n + 1
        BY <1>8, <2>1 DEF IInv, Once
    <2>3. up[n + 1].id # id
        <3>1. up[n + 1] = Sub(up[n + 1].id)
            BY <1>1, <1>8, <2>1, MessageFact
        <3>2. QED
            BY <1>2, <1>5, <2>1, <3>1
    <2>4. ASSUME NEW k \in 1 .. Len(up'), up'[k] = up'[n]
          PROVE  k = n
        <3>1. k + 1 \in 1 .. Len(up) /\ up[k + 1] = up[n + 1]
            BY <1>1, <2>1, <2>4
        <3>2. k + 1 = n + 1
            BY <2>2, <3>1
        <3>3. QED
            BY <1>1, <3>2
    <2>5. QED
        BY <2>1, <2>2, <2>3, <2>4
<1>9. Withdrawn' /\ Ended'
    BY DEF IInv, Withdrawn, Ended
<1>10. QED
    BY <1>1, <1>2, <1>3, <1>4, <1>5, <1>6, <1>7, <1>8, <1>9 DEF id

(* A page of the market is served.                                          *)
LEMMA TakeMarketKeeps == ASSUME IInv, TakeMarket PROVE IInv'
<1> DEFINE id == Head(up).id
<1>1. /\ socket = "open" /\ asking = Nobody /\ up # <<>> /\ Head(up).say = "subscribe"
      /\ ~Full(id) /\ up' = Tail(up) /\ active' = active \cup {id} /\ streams' = Streamed(id)
      /\ down' = Append(down, Reply("subscribed", id))
      /\ UNCHANGED <<nextId, wanted, pending, socket, timers, asking, denied, exists, stored, unsent,
                     view, fetch, gap, breaks>>
    BY DEF TakeMarket, Ready, Says, clientVars, listVars, pageVars
<1>2. /\ up' \in Seq(Messages) /\ id \in Ids /\ active' \subseteq Ids
      /\ id < nextId /\ \A n \in 1 .. Len(up') : up'[n].id < nextId
      /\ id \notin DOMAIN streams
      /\ Withdrawn' /\ Ended' /\ WillServe' /\ WillDrop'
      /\ \A n \in 1 .. Len(up') : up'[n].say = "subscribe" =>
            /\ up'[n].id \notin DOMAIN streams /\ up'[n].id # asking
            /\ up'[n].id # id
            /\ \A k \in 1 .. Len(up') : up'[k] = up'[n] => k = n
    BY <1>1, TakenServed
<1>3. Limited'
    BY <1>1, <1>2, LimitFact DEF Limited
<1> HIDE DEF id
<1>4. /\ DOMAIN streams' = DOMAIN streams \cup {id} /\ streams'[id] = 0
      /\ \A i \in DOMAIN streams : streams'[i] = streams[i]
    BY <1>1, <1>2 DEF Streamed
<1>5. Reply("subscribed", id) \in Replies
    BY <1>2, ReplyFact
<1>6. /\ down' \in Seq(Replies)
      /\ \A n \in DOMAIN down : \E k \in DOMAIN down' : down'[k] = down[n]
    BY <1>1, <1>5, SaidFact DEF IInv
<1>7. TypeOK'
    <2>1. DOMAIN streams' \subseteq Ids /\ \A i \in DOMAIN streams' : streams'[i] \in 0 .. Room + 1
        <3>1. 0 \in 0 .. Room + 1
            BY SessionAssumption
        <3>2. QED
            BY <1>2, <1>4, <3>1 DEF IInv, TypeOK
    <2>2. QED
        BY <1>1, <1>2, <1>6, <2>1, Zenon DEF IInv, TypeOK
<1>8. Numbered'
    BY <1>1, <1>2, <1>4 DEF IInv, Numbered
<1>9. Once'
    BY <1>1, <1>2, <1>4 DEF IInv, Once
<1>10. Shows'
    BY <1>1, <1>4, <1>6, ShowsStays
<1>11. QED
    BY <1>2, <1>3, <1>7, <1>8, <1>9, <1>10 DEF IInv

(* The page of a list counts as served while the database is asked.         *)
LEMMA TakeListKeeps == ASSUME IInv, TakeList PROVE IInv'
<1> DEFINE id == Head(up).id
<1>1. /\ socket = "open" /\ asking = Nobody /\ up # <<>> /\ Head(up).say = "subscribe"
      /\ ~Full(id) /\ up' = Tail(up) /\ active' = active \cup {id} /\ asking' = id
      /\ UNCHANGED <<nextId, wanted, pending, socket, timers, down, streams, denied, exists, stored,
                     unsent, view, fetch, gap, breaks>>
    BY DEF TakeList, Ready, clientVars, listVars, pageVars
<1>2. /\ up' \in Seq(Messages) /\ id \in Ids /\ active' \subseteq Ids
      /\ id < nextId /\ \A n \in 1 .. Len(up') : up'[n].id < nextId
      /\ id \notin DOMAIN streams
      /\ Withdrawn' /\ Ended' /\ WillServe' /\ WillDrop'
      /\ \A n \in 1 .. Len(up') : up'[n].say = "subscribe" =>
            /\ up'[n].id \notin DOMAIN streams /\ up'[n].id # asking
            /\ up'[n].id # id
            /\ \A k \in 1 .. Len(up') : up'[k] = up'[n] => k = n
    BY <1>1, TakenServed
<1>3. Limited'
    BY <1>1, <1>2, LimitFact DEF Limited
<1> HIDE DEF id
<1>4. TypeOK'
    <2>1. asking' \in Ids \cup {Nobody}
        BY <1>1, <1>2
    <2>2. QED
        BY <1>1, <1>2, <2>1, Zenon DEF IInv, TypeOK
<1>5. Numbered'
    BY <1>1, <1>2 DEF IInv, Numbered
<1>6. Once'
    BY <1>1, <1>2 DEF IInv, Once
<1>7. Shows'
    BY <1>1, ShowsStays
<1>8. QED
    BY <1>2, <1>3, <1>4, <1>5, <1>6, <1>7 DEF IInv

(* What is said of other subscriptions, once the first message is taken.    *)
LEMMA LaterFact ==
    ASSUME IInv, up # <<>>, up' = Tail(up), asking = Nobody,
           UNCHANGED <<wanted, streams, asking>>,
           \A i \in active' \ wanted : \E n \in 1 .. Len(up') : up'[n] = Unsub(i),
           wanted \cap DOMAIN streams \subseteq active'
    PROVE  WillDrop' /\ Once'
<1>1. /\ up' \in Seq(Messages) /\ Len(up) \in Nat /\ Len(up) > 0 /\ Len(up') = Len(up) - 1
      /\ Head(up) = up[1] /\ Head(up) \in Messages
      /\ \A n \in 1 .. Len(up') : n + 1 \in 1 .. Len(up) /\ up'[n] = up[n + 1]
      /\ \A n \in 1 .. Len(up) : n = 1 \/ (n - 1 \in 1 .. Len(up') /\ up'[n - 1] = up[n])
      /\ \A n \in 1 .. Len(up) : up[n] \in Messages
    BY TakenFact DEF IInv
<1>2. ASSUME NEW n \in 1 .. Len(up'), up'[n].say = "subscribe", up'[n].id \notin wanted
      PROVE  \E k \in n + 1 .. Len(up') : up'[k] = Unsub(up'[n].id)
    <2>1. n + 1 \in 1 .. Len(up) /\ up'[n] = up[n + 1]
        BY <1>1
    <2>2. PICK k \in (n + 1) + 1 .. Len(up) : up[k] = Unsub(up[n + 1].id)
        BY <1>2, <2>1 DEF IInv, WillDrop
    <2>3. k \in 1 .. Len(up) /\ k # 1 /\ k - 1 \in n + 1 .. Len(up')
        BY <1>1, <2>2
    <2>4. up'[k - 1] = up[k]
        BY <1>1, <2>3
    <2>5. QED
        BY <2>1, <2>2, <2>3, <2>4
<1>3. ASSUME NEW n \in 1 .. Len(up'), up'[n].say = "subscribe"
      PROVE  /\ up'[n].id \notin DOMAIN streams /\ up'[n].id # asking
             /\ \A k \in 1 .. Len(up') : up'[k] = up'[n] => k = n
    <2>1. n + 1 \in 1 .. Len(up) /\ up'[n] = up[n + 1]
        BY <1>1
    <2>2. /\ up[n + 1].id \notin DOMAIN streams /\ up[n + 1].id # asking
          /\ \A k \in 1 .. Len(up) : up[k] = up[n + 1] => k = n + 1
        BY <1>3, <2>1 DEF IInv, Once
    <2>3. ASSUME NEW k \in 1 .. Len(up'), up'[k] = up'[n]
          PROVE  k = n
        <3>1. k + 1 \in 1 .. Len(up) /\ up[k + 1] = up[n + 1]
            BY <1>1, <2>1, <2>3
        <3>2. k + 1 = n + 1
            BY <2>2, <3>1
        <3>3. QED
            BY <1>1, <3>2
    <2>4. QED
        BY <2>1, <2>2, <2>3
<1>4. QED
    BY <1>2, <1>3 DEF WillDrop, Once

(* A session keeps its limit when it serves one subscription less.          *)
LEMMA FewerFact ==
    ASSUME IInv, NEW x
    PROVE  Cardinality(active \ {x}) <= MaxActive
<1>1. IsFiniteSet(active) /\ Cardinality(active) \in Nat /\ MaxActive \in Nat
    BY FiniteFact
<1>2. Cardinality(active \ {x}) = IF x \in active THEN Cardinality(active) - 1
                                  ELSE Cardinality(active)
    BY <1>1, FS_RemoveElement
<1>3. QED
    BY <1>1, <1>2 DEF IInv, Limited

(* A subscription there is no room for is refused.                          *)
LEMMA TakeRefusedKeeps == ASSUME IInv, TakeRefused PROVE IInv'
<1>1. /\ socket = "open" /\ asking = Nobody /\ up # <<>> /\ Head(up).say = "subscribe"
      /\ Full(Head(up).id) /\ up' = Tail(up) /\ denied' = denied \cup {Head(up).id}
      /\ down' = Append(down, Reply("error", Nobody))
      /\ UNCHANGED <<nextId, wanted, pending, socket, timers, active, streams, asking, exists, stored,
                     unsent, view, fetch, gap, breaks>>
    BY DEF TakeRefused, Ready, Says, clientVars, listVars, pageVars
<1>2. /\ up' \in Seq(Messages) /\ Len(up) \in Nat /\ Len(up) > 0 /\ Len(up') = Len(up) - 1
      /\ Head(up) = up[1] /\ Head(up) \in Messages
      /\ \A n \in 1 .. Len(up') : n + 1 \in 1 .. Len(up) /\ up'[n] = up[n + 1]
      /\ \A n \in 1 .. Len(up) : n = 1 \/ (n - 1 \in 1 .. Len(up') /\ up'[n - 1] = up[n])
      /\ \A n \in 1 .. Len(up) : up[n] \in Messages
    BY <1>1, TakenFact DEF IInv
<1>3. Head(up).id \in Ids /\ up[1] = Sub(Head(up).id)
    BY <1>1, <1>2, MessageFact
<1>4. /\ down' \in Seq(Replies)
      /\ \A n \in DOMAIN down : \E k \in DOMAIN down' : down'[k] = down[n]
    BY <1>1, ReplyFact, SaidFact DEF IInv
<1>5. TypeOK'
    <2>1. denied' \subseteq Ids
        BY <1>1, <1>3 DEF IInv, TypeOK
    <2>2. QED
        BY <1>1, <1>2, <1>4, <2>1, Zenon DEF IInv, TypeOK
<1>6. Numbered' /\ Withdrawn' /\ Ended' /\ Limited'
    BY <1>1, <1>2 DEF IInv, Numbered, Withdrawn, Ended, Limited
<1>7. WillServe'
    <2> SUFFICES ASSUME NEW i \in wanted
                 PROVE  /\ i \in active \cup denied' \/ \E n \in 1 .. Len(up') : up'[n] = Sub(i)
                        /\ \A n \in 1 .. Len(up') : up'[n] # Unsub(i)
        BY <1>1 DEF WillServe
    <2>1. \A n \in 1 .. Len(up') : up'[n] # Unsub(i)
        BY <1>1, <1>2 DEF IInv, WillServe
    <2>2. CASE i \in active \cup denied
        BY <1>1, <2>1, <2>2
    <2>3. ASSUME NEW n \in 1 .. Len(up), up[n] = Sub(i)
          PROVE  i \in active \cup denied' \/ \E k \in 1 .. Len(up') : up'[k] = Sub(i)
        <3>1. CASE n = 1
            BY <1>1, <1>3, <2>3, <3>1, MessageFact
        <3>2. CASE n # 1
            BY <1>2, <2>3, <3>2
        <3>3. QED
            BY <3>1, <3>2
    <2>4. QED
        BY <1>1, <2>1, <2>2, <2>3 DEF IInv, WillServe
<1>8. WillDrop' /\ Once'
    <2>1. ASSUME NEW i \in active \ wanted
          PROVE  \E n \in 1 .. Len(up') : up'[n] = Unsub(i)
        <3>1. PICK k \in 1 .. Len(up) : up[k] = Unsub(i)
            BY <2>1 DEF IInv, WillDrop
        <3>2. k # 1
            BY <1>3, <3>1, MessageFact
        <3>3. QED
            BY <1>2, <3>1, <3>2
    <2>2. wanted \cap DOMAIN streams \subseteq active
        BY DEF IInv, Once
    <2>3. QED
        BY <1>1, <2>1, <2>2, LaterFact
<1>9. Shows'
    BY <1>1, <1>4, ShowsStays
<1>10. QED
    BY <1>5, <1>6, <1>7, <1>8, <1>9 DEF IInv

(* A subscription withdrawn makes room.                                     *)
LEMMA TakeUnsubscribeKeeps == ASSUME IInv, TakeUnsubscribe PROVE IInv'
<1> DEFINE id == Head(up).id
<1>1. /\ socket = "open" /\ asking = Nobody /\ up # <<>> /\ Head(up).say = "unsubscribe"
      /\ up' = Tail(up) /\ active' = active \ {id}
      /\ down' = Append(down, Reply("unsubscribed", id))
      /\ UNCHANGED <<nextId, wanted, pending, socket, timers, streams, asking, denied, exists, stored,
                     unsent, view, fetch, gap, breaks>>
    BY DEF TakeUnsubscribe, Ready, Says, clientVars, listVars, pageVars
<1>2. /\ up' \in Seq(Messages) /\ Len(up) \in Nat /\ Len(up) > 0 /\ Len(up') = Len(up) - 1
      /\ Head(up) = up[1] /\ Head(up) \in Messages
      /\ \A n \in 1 .. Len(up') : n + 1 \in 1 .. Len(up) /\ up'[n] = up[n + 1]
      /\ \A n \in 1 .. Len(up) : n = 1 \/ (n - 1 \in 1 .. Len(up') /\ up'[n - 1] = up[n])
      /\ \A n \in 1 .. Len(up) : up[n] \in Messages
    BY <1>1, TakenFact DEF IInv
<1>3. id \in Ids /\ up[1] = Unsub(id) /\ 1 \in 1 .. Len(up)
    BY <1>1, <1>2, MessageFact
<1>4. id \notin wanted
    BY <1>1, <1>3 DEF IInv, WillServe
<1> HIDE DEF id
<1>5. /\ down' \in Seq(Replies)
      /\ \A n \in DOMAIN down : \E k \in DOMAIN down' : down'[k] = down[n]
    <2>1. Reply("unsubscribed", id) \in Replies
        BY <1>3, ReplyFact
    <2>2. QED
        BY <1>1, <2>1, SaidFact DEF IInv
<1>6. TypeOK'
    <2>1. active' \subseteq Ids
        BY <1>1 DEF IInv, TypeOK
    <2>2. QED
        BY <1>1, <1>2, <1>5, <2>1, Zenon DEF IInv, TypeOK
<1>7. Numbered' /\ Withdrawn' /\ Ended'
    BY <1>1, <1>2 DEF IInv, Numbered, Withdrawn, Ended
<1>8. Limited'
    BY <1>1, FewerFact DEF Limited
<1>9. WillServe'
    <2> SUFFICES ASSUME NEW i \in wanted
                 PROVE  /\ i \in active' \cup denied \/ \E n \in 1 .. Len(up') : up'[n] = Sub(i)
                        /\ \A n \in 1 .. Len(up') : up'[n] # Unsub(i)
        BY <1>1 DEF WillServe
    <2>1. \A n \in 1 .. Len(up') : up'[n] # Unsub(i)
        BY <1>1, <1>2 DEF IInv, WillServe
    <2>2. CASE i \in active \cup denied
        BY <1>1, <1>4, <2>1, <2>2
    <2>3. ASSUME NEW n \in 1 .. Len(up), up[n] = Sub(i)
          PROVE  \E k \in 1 .. Len(up') : up'[k] = Sub(i)
        <3>1. n # 1
            BY <1>3, <2>3, MessageFact
        <3>2. QED
            BY <1>2, <2>3, <3>1
    <2>4. QED
        BY <1>1, <2>1, <2>2, <2>3 DEF IInv, WillServe
<1>10. WillDrop' /\ Once'
    <2>1. ASSUME NEW i \in active' \ wanted
          PROVE  \E n \in 1 .. Len(up') : up'[n] = Unsub(i)
        <3>1. i \in active \ wanted /\ i # id
            BY <1>1, <2>1
        <3>2. PICK k \in 1 .. Len(up) : up[k] = Unsub(i)
            BY <3>1 DEF IInv, WillDrop
        <3>3. k # 1
            BY <1>3, <3>1, <3>2, MessageFact
        <3>4. QED
            BY <1>2, <3>2, <3>3
    <2>2. wanted \cap DOMAIN streams \subseteq active'
        BY <1>1, <1>4 DEF IInv, Once
    <2>3. QED
        BY <1>1, <1>2, <2>1, <2>2, LaterFact DEF IInv
<1>11. Shows'
    BY <1>1, <1>5, ShowsStays
<1>12. QED
    BY <1>6, <1>7, <1>8, <1>9, <1>10, <1>11 DEF IInv

(* The database says yes: the list has a stream.                            *)
LEMMA PermitKeeps == ASSUME IInv, Permit PROVE IInv'
<1>1. /\ asking # Nobody /\ streams' = Streamed(asking) /\ asking' = Nobody
      /\ down' = Append(down, Reply("subscribed", asking))
      /\ UNCHANGED <<nextId, wanted, pending, socket, timers, up, active, denied, exists, stored,
                     unsent, view, fetch, gap, breaks>>
    BY DEF Permit, Says, clientVars, listVars, pageVars
<1>2. /\ asking \in Ids /\ asking \in active /\ asking \notin DOMAIN streams /\ asking < nextId
      /\ socket = "open"
    BY <1>1 DEF IInv, TypeOK, Once, Numbered, Ended
<1>3. /\ DOMAIN streams' = DOMAIN streams \cup {asking} /\ streams'[asking] = 0
      /\ \A i \in DOMAIN streams : streams'[i] = streams[i]
    BY <1>1, <1>2 DEF Streamed
<1>4. /\ down' \in Seq(Replies)
      /\ \A n \in DOMAIN down : \E k \in DOMAIN down' : down'[k] = down[n]
    <2>1. Reply("subscribed", asking) \in Replies
        BY <1>2, ReplyFact
    <2>2. QED
        BY <1>1, <2>1, SaidFact DEF IInv
<1>5. TypeOK'
    <2>1. DOMAIN streams' \subseteq Ids /\ \A i \in DOMAIN streams' : streams'[i] \in 0 .. Room + 1
        <3>1. 0 \in 0 .. Room + 1
            BY SessionAssumption
        <3>2. QED
            BY <1>2, <1>3, <3>1 DEF IInv, TypeOK
    <2>2. asking' \in Ids \cup {Nobody}
        BY <1>1
    <2>3. QED
        BY <1>1, <1>4, <2>1, <2>2, Zenon DEF IInv, TypeOK
<1>6. Numbered' /\ Withdrawn' /\ Ended' /\ Limited' /\ WillServe' /\ WillDrop'
    BY <1>1, <1>2, <1>3 DEF IInv, Numbered, Withdrawn, Ended, Limited, WillServe, WillDrop
<1>7. Once'
    <2>1. ASSUME NEW n \in 1 .. Len(up), up[n].say = "subscribe"
          PROVE  /\ up[n].id \notin DOMAIN streams' /\ up[n].id # Nobody
                 /\ \A k \in 1 .. Len(up) : up[k] = up[n] => k = n
        <3>1. up[n] \in Messages
            BY DEF IInv, TypeOK
        <3>2. up[n].id \in Ids
            BY <3>1, MessageFact
        <3>3. QED
            BY <1>3, <2>1, <3>2 DEF IInv, Once, Ids, Nobody
    <2>2. wanted \cap DOMAIN streams' \subseteq active
        BY <1>2, <1>3 DEF IInv, Once
    <2>3. QED
        BY <1>1, <2>1, <2>2 DEF Once
<1>8. Shows'
    BY <1>1, <1>3, <1>4, ShowsStays
<1>9. QED
    BY <1>5, <1>6, <1>7, <1>8 DEF IInv

(* The database says no: the list is refused.                               *)
LEMMA DenyKeeps == ASSUME IInv, Deny PROVE IInv'
<1>1. /\ asking # Nobody /\ active' = active \ {asking} /\ denied' = denied \cup {asking}
      /\ asking' = Nobody /\ down' = Append(down, Reply("error", Nobody))
      /\ UNCHANGED <<nextId, wanted, pending, socket, timers, up, streams, exists, stored, unsent,
                     view, fetch, gap, breaks>>
    BY DEF Deny, Says, clientVars, listVars, pageVars
<1>2. asking \in Ids /\ asking \notin DOMAIN streams /\ socket = "open"
    BY <1>1 DEF IInv, TypeOK, Once, Ended
<1>3. /\ down' \in Seq(Replies)
      /\ \A n \in DOMAIN down : \E k \in DOMAIN down' : down'[k] = down[n]
    BY <1>1, ReplyFact, SaidFact DEF IInv
<1>4. TypeOK'
    <2>1. active' \subseteq Ids /\ denied' \subseteq Ids /\ asking' \in Ids \cup {Nobody}
        BY <1>1, <1>2 DEF IInv, TypeOK
    <2>2. QED
        BY <1>1, <1>3, <2>1, Zenon DEF IInv, TypeOK
<1>5. Numbered' /\ Withdrawn' /\ Ended'
    BY <1>1, <1>2 DEF IInv, Numbered, Withdrawn, Ended
<1>6. Limited'
    BY <1>1, FewerFact DEF Limited
<1>7. WillServe' /\ WillDrop'
    BY <1>1 DEF IInv, WillServe, WillDrop
<1>8. Once'
    <2>1. ASSUME NEW n \in 1 .. Len(up), up[n].say = "subscribe"
          PROVE  /\ up[n].id \notin DOMAIN streams /\ up[n].id # Nobody
                 /\ \A k \in 1 .. Len(up) : up[k] = up[n] => k = n
        <3>1. up[n] \in Messages
            BY DEF IInv, TypeOK
        <3>2. up[n].id \in Ids
            BY <3>1, MessageFact
        <3>3. QED
            BY <2>1, <3>2 DEF IInv, Once, Ids, Nobody
    <2>2. wanted \cap DOMAIN streams \subseteq active'
        BY <1>1, <1>2 DEF IInv, Once
    <2>3. QED
        BY <1>1, <2>1, <2>2 DEF Once
<1>9. Shows'
    BY <1>1, <1>3, ShowsStays
<1>10. QED
    BY <1>4, <1>5, <1>6, <1>7, <1>8, <1>9 DEF IInv

(* A change that is passed on makes the page ask again.                     *)
LEMMA ForwardKeeps == ASSUME IInv, NEW id \in Ids, Forward(id) PROVE IInv'
<1>1. /\ id \in DOMAIN streams /\ streams[id] > 0
      /\ streams' = [streams EXCEPT ![id] = IF @ > Room THEN Room ELSE @ - 1]
      /\ IF id \in active
         THEN down' = Append(down, Reply(IF streams[id] > Room THEN "stale" ELSE "update", id))
         ELSE down' = down
      /\ UNCHANGED <<nextId, wanted, pending, socket, timers, up, active, asking, denied, exists,
                     stored, unsent, view, fetch, gap, breaks>>
    BY DEF Forward, Says, clientVars, listVars, pageVars
<1> DEFINE what == IF streams[id] > Room THEN "stale" ELSE "update"
<1>2. /\ DOMAIN streams' = DOMAIN streams
      /\ \A i \in DOMAIN streams : streams'[i] \in 0 .. Room + 1
      /\ \A i \in DOMAIN streams \ {id} : streams'[i] = streams[i]
    <2>1. \A i \in DOMAIN streams : streams[i] \in 0 .. Room + 1
        BY DEF IInv, TypeOK
    <2>2. streams'[id] = IF streams[id] > Room THEN Room ELSE streams[id] - 1
        BY <1>1
    <2>3. streams'[id] \in 0 .. Room + 1
        BY <1>1, <2>1, <2>2, SessionAssumption
    <2>4. QED
        BY <1>1, <2>1, <2>3
<1>3. Reply(what, id) \in Replies
    BY ReplyFact
<1>4. /\ down' \in Seq(Replies)
      /\ \A n \in DOMAIN down : \E k \in DOMAIN down' : down'[k] = down[n]
      /\ id \in active => \E k \in DOMAIN down' : down'[k] = Reply(what, id)
    <2>1. CASE id \in active
        BY <1>1, <1>3, <2>1, SaidFact DEF IInv
    <2>2. CASE id \notin active
        BY <1>1, <2>2 DEF IInv, TypeOK
    <2>3. QED
        BY <2>1, <2>2
<1>5. TypeOK'
    <2>1. DOMAIN streams' \subseteq Ids /\ \A i \in DOMAIN streams' : streams'[i] \in 0 .. Room + 1
        BY <1>2 DEF IInv, TypeOK
    <2>2. QED
        BY <1>1, <1>4, <2>1, Zenon DEF IInv, TypeOK
<1>6. Shows'
    <2>1. ASSUME NEW i \in wanted \cap ListIds, Coming(i)
          PROVE  Coming(i)'
        <3>1. CASE i = id
            <4>1. id \in active
                BY <1>1, <2>1, <3>1 DEF IInv, Once
            <4>2. QED
                BY <1>4, <3>1, <4>1 DEF Coming
        <3>2. CASE i # id
            BY <1>2, <1>4, <2>1, <3>2 DEF Coming
        <3>3. QED
            BY <3>1, <3>2
    <2>2. QED
        BY <1>1, <2>1 DEF IInv, Shows
<1>7. QED
    BY <1>1, <1>2, <1>5, <1>6, SessionStays DEF IInv

-----------------------------------------------------------------------------
(* The list.                                                                *)

(* The list changes or is deleted.  Somebody will be told, or there is a    *)
(* gap, or the page is about to read it.                                    *)
LEMMA EditKeeps ==
    ASSUME IInv, NEW event \in BOOLEAN, Edit(event) \/ Delete(event)
    PROVE  IInv'
<1>1. /\ Leaves(event)
      /\ UNCHANGED <<nextId, wanted, pending, socket, timers, up, down, active, streams, asking,
                     denied, view, fetch, breaks>>
    BY DEF Edit, Delete, clientVars, wireVars, sessionVars
<1>2. \/ unsent' = unsent + 1 /\ gap' = gap
      \/ unsent' = unsent /\ gap' = (gap \/ fetch # Asked)
    BY <1>1 DEF Leaves
<1>3. exists \in BOOLEAN /\ stored \in 0 .. Edits /\ Edits \in Nat
      /\ unsent \in 0 .. stored + 1 /\ (exists => unsent <= stored) /\ gap \in BOOLEAN
    BY SessionAssumption DEF IInv, TypeOK
<1>4. /\ exists' \in BOOLEAN /\ stored' \in 0 .. Edits
      /\ unsent' \in 0 .. stored' + 1 /\ (exists' => unsent' <= stored')
    <2>1. CASE Edit(event)
        <3>1. exists /\ exists' = exists /\ stored < Edits /\ stored' = stored + 1
            BY <2>1 DEF Edit
        <3>2. unsent <= stored
            BY <1>3, <3>1
        <3>3. stored' \in 0 .. Edits /\ unsent' \in 0 .. stored' + 1 /\ unsent' <= stored'
            BY <1>2, <1>3, <3>1, <3>2
        <3>4. QED
            BY <1>3, <3>1, <3>3, Zenon
    <2>2. CASE Delete(event)
        <3>1. exists /\ exists' = FALSE /\ stored' = stored
            BY <2>2 DEF Delete
        <3>2. unsent <= stored
            BY <1>3, <3>1
        <3>3. unsent' \in 0 .. stored' + 1
            BY <1>2, <1>3, <3>1, <3>2
        <3>4. QED
            BY <1>3, <3>1, <3>3, Zenon
    <2>3. QED
        BY <2>1, <2>2
<1>5. gap' \in BOOLEAN
    BY <1>2, <1>3
<1>6. TypeOK'
    BY <1>1, <1>4, <1>5, Zenon DEF IInv, TypeOK
<1>7. unsent' > 0 \/ gap' \/ fetch = Asked
    <2>1. unsent \in Nat
        BY <1>3
    <2>2. CASE unsent' = unsent + 1
        BY <2>1, <2>2
    <2>3. CASE gap' = (gap \/ fetch # Asked)
        BY <2>3, Zenon
    <2>4. QED
        BY <1>2, <2>2, <2>3, Zenon
<1>8. Shows'
    BY <1>1, <1>7 DEF Shows
<1>9. QED
    BY <1>1, <1>6, <1>8, SessionStays DEF IInv

(* The streams of the list have the event, or there is a gap.               *)
LEMMA AnnounceKeeps == ASSUME IInv, Announce PROVE IInv'
<1>1. /\ unsent > 0 /\ unsent' = unsent - 1 /\ gap' = (gap \/ ~Heard)
      /\ streams' = [id \in DOMAIN streams |->
                       IF id \in ListIds /\ streams[id] <= Room THEN streams[id] + 1 ELSE streams[id]]
      /\ UNCHANGED <<nextId, wanted, pending, socket, timers, up, down, active, asking, denied, exists,
                     stored, view, fetch, breaks>>
    BY DEF Announce, clientVars, wireVars
<1>2. /\ DOMAIN streams' = DOMAIN streams
      /\ \A id \in DOMAIN streams : streams'[id] \in 0 .. Room + 1
      /\ \A id \in DOMAIN streams \cap ListIds : streams'[id] > 0
    <2>1. \A id \in DOMAIN streams : streams[id] \in 0 .. Room + 1
        BY DEF IInv, TypeOK
    <2>2. \A id \in DOMAIN streams :
             streams'[id] = IF id \in ListIds /\ streams[id] <= Room THEN streams[id] + 1
                            ELSE streams[id]
        BY <1>1
    <2>3. Room \in Nat
        BY SessionAssumption
    <2>4. QED
        BY <1>1, <2>1, <2>2, <2>3
<1>3. TypeOK'
    <2>1. DOMAIN streams' \subseteq Ids /\ \A id \in DOMAIN streams' : streams'[id] \in 0 .. Room + 1
        BY <1>2 DEF IInv, TypeOK
    <2>2. gap' \in BOOLEAN
        BY <1>1 DEF IInv, TypeOK
    <2>3. unsent' \in 0 .. stored + 1 /\ (exists => unsent' <= stored)
        <3>1. stored \in Nat /\ unsent \in 0 .. stored + 1 /\ (exists => unsent <= stored)
            BY SessionAssumption DEF IInv, TypeOK
        <3>2. QED
            BY <1>1, <3>1
    <2>4. QED
        BY <1>1, <2>1, <2>2, <2>3, Zenon DEF IInv, TypeOK
<1>4. Shows'
    <2> SUFFICES ASSUME NEW id \in wanted \cap ListIds, Heard
                 PROVE  Coming(id)'
        BY <1>1 DEF Shows
    <2>1. id \in DOMAIN streams
        BY DEF Heard
    <2>2. QED
        BY <1>2, <2>1 DEF Coming
<1>5. QED
    BY <1>1, <1>2, <1>3, <1>4, SessionStays DEF IInv

-----------------------------------------------------------------------------
(* The theorems.                                                            *)

(* Every step keeps the invariant.                                          *)
LEMMA NextKeeps == ASSUME IInv, [Next]_vars PROVE IInv'
<1>1. CASE Client
    BY <1>1, OpenKeeps, ReconnectKeeps, HearKeeps, FetchKeeps DEF Client
<1>2. CASE Session
    BY <1>2, TakeRefusedKeeps, TakeMarketKeeps, TakeListKeeps, TakeUnsubscribeKeeps, PermitKeeps,
       DenyKeeps, BreakKeeps, ForwardKeeps
    DEF Session
<1>3. CASE Subscribe \/ \E id \in Ids : Unsubscribe(id)
    BY <1>3, SubscribeKeeps, UnsubscribeKeeps
<1>4. CASE Break \/ FetchFails \/ Announce \/ \E event \in BOOLEAN : Edit(event) \/ Delete(event)
    BY <1>4, BreakKeeps, FetchKeeps, EditKeeps, AnnounceKeeps
<1>5. CASE UNCHANGED vars
    <2>1. UNCHANGED <<nextId, wanted, pending, socket, timers, up, down, active, streams, asking,
                      denied, exists, stored, unsent, view, fetch, gap, breaks>>
        BY <1>5 DEF vars, clientVars, wireVars, sessionVars, listVars, pageVars
    <2>2. TypeOK'
        BY <2>1, Zenon DEF IInv, TypeOK
    <2>3. Shows'
        BY <2>1, ShowsStays
    <2>4. QED
        BY <2>1, <2>2, <2>3, SessionStays DEF IInv
<1>6. QED
    BY <1>1, <1>2, <1>3, <1>4, <1>5 DEF Next

(* The invariant holds throughout.                                          *)
LEMMA Invariant == Spec => []IInv
<1>1. Init => IInv
    BY InitStrong
<1>2. IInv /\ [Next]_vars => IInv'
    BY NextKeeps
<1>3. QED
    BY <1>1, <1>2, PTL DEF Spec

(* The client, the connection, the session and the page keep their types.   *)
THEOREM TypeCorrect == Spec => []TypeOK
<1>1. IInv => TypeOK
    BY DEF IInv
<1>2. QED
    BY <1>1, Invariant, PTL

(* A session never serves more than it may, and serves what is wanted once  *)
(* it has read all that was said (onopen, activate_subscription).           *)
THEOREM ServesWanted == Spec => []ServesWhatIsWanted
<1>1. IInv => ServesWhatIsWanted
    <2> SUFFICES ASSUME IInv
                 PROVE  ServesWhatIsWanted
        OBVIOUS
    <2>1. Cardinality(active) <= MaxActive
        BY DEF IInv, Limited
    <2>2. ASSUME socket = "open", up = <<>>
          PROVE  active \subseteq wanted /\ wanted \subseteq active \cup denied
        <3>1. Len(up) = 0
            BY <2>2
        <3>2. ~\E n \in 1 .. Len(up) : TRUE
            BY <3>1
        <3>3. QED
            BY <2>2, <3>2 DEF IInv, WillServe, WillDrop
    <2>3. QED
        BY <2>1, <2>2 DEF ServesWhatIsWanted
<1>2. QED
    BY <1>1, Invariant, PTL

(* Once nothing is under way the page shows a list that exists as it is,    *)
(* unless, since it last asked, a change was announced where the page could *)
(* not hear of it, or not at all, or the answer to its request failed       *)
(* (ListView, handle_socket, the web handlers and Discord commands).        *)
THEOREM ShowsStored == Spec => []ShownIsStored
<1>1. IInv => ShownIsStored
    <2> SUFFICES ASSUME IInv, wanted \cap ListIds # {}, Settled
                 PROVE  view = stored
        BY DEF ShownIsStored
    <2>1. PICK id \in wanted \cap ListIds : TRUE
        OBVIOUS
    <2>2. ~Coming(id)
        BY <2>1 DEF Settled, Underway, Coming
    <2>3. fetch = NoFetch /\ ~gap /\ unsent = 0
        BY DEF Settled
    <2>4. stored \in Nat
        BY SessionAssumption DEF IInv, TypeOK
    <2>5. fetch # Asked /\ fetch # stored
        BY <2>3, <2>4 DEF Asked, NoFetch
    <2>6. QED
        BY <2>1, <2>2, <2>3, <2>5 DEF IInv, Shows
<1>2. QED
    BY <1>1, Invariant, PTL


=============================================================================
