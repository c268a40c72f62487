--------------------------- MODULE RealtimeSession ---------------------------
(***************************************************************************)
(* The live pages: the browser's RealtimeClient, the connection, the       *)
(* server's handle_socket, and a page that shows a list and asks for it    *)
(* again when it hears of a change.  Subscriptions have the numbers the    *)
(* client gives them; the client keeps what it has subscribed to and says  *)
(* it again on every new connection.  What was sent meanwhile is gone, and *)
(* some changes of a list are announced to nobody.                         *)
(***************************************************************************)
EXTENDS Integers, Sequences, FiniteSets, Functions

CONSTANTS
    LastId,       (* bound: subscriptions the client makes                   *)
    ListIds,      (* those of them that are made for the page of the list    *)
    MaxActive,    (* MAX_SUBSCRIPTIONS_PER_SOCKET                            *)
    Room,         (* events the lists bus holds for a stream                 *)
    Breaks,       (* bound: connections that fail                            *)
    Timers,       (* bound: reconnects scheduled at a time                   *)
    Edits         (* bound: changes of the list                              *)

Ids == 1 .. LastId

ASSUME SessionAssumption ==
    /\ LastId \in Nat
    /\ ListIds \subseteq Ids
    /\ MaxActive \in Nat \ {0} /\ Room \in Nat \ {0}
    /\ Breaks \in Nat /\ Edits \in Nat /\ Timers \in Nat \ {0}

VARIABLES
    nextId, wanted, pending,  (* RealtimeInner: next_subscription_id; the    *)
                              (* ids of subscription_messages (and handlers);*)
                              (* pending_messages, all of them Unsubscribe   *)
    socket,                   (* ready_state: connecting, open, closed       *)
    timers,                   (* reconnects scheduled                        *)
    up, down,                 (* messages on their way to the server, back   *)
    active, streams,          (* the session: active_subscriptions; backlog  *)
                              (* of every stream it has made, Room + 1 when  *)
                              (* the stream has lagged                       *)
    asking,                   (* the list subscription whose permission the  *)
                              (* session is asking the database for          *)
    exists,                   (* the list is in the database                 *)
    stored, unsent,           (* its version; changes still to be announced  *)
    view, fetch,              (* the page: the version shown; asked, the     *)
                              (* version on its way, or none                 *)
    breaks,                   (* failures so far                             *)
    denied,                   (* history: ids this session has refused       *)
    gap                       (* history: since the page last asked, a       *)
                              (* change was announced while a subscription   *)
                              (* of the page had no stream, was lost on the  *)
                              (* way or never announced, or the answer failed*)

clientVars  == <<nextId, wanted, pending, socket, timers>>
wireVars    == <<up, down>>
sessionVars == <<active, streams, asking, denied>>
listVars    == <<exists, stored, unsent>>
pageVars    == <<view, fetch, gap>>
vars == <<clientVars, wireVars, sessionVars, listVars, pageVars, breaks>>

NoFetch == -2
Asked   == -1
Nobody  == 0

Sub(id)   == [say |-> "subscribe", id |-> id]
Unsub(id) == [say |-> "unsubscribe", id |-> id]
Reply(what, id) == [say |-> what, id |-> id]

Init ==
    /\ nextId = 1 /\ wanted = {} /\ pending = <<>>
    /\ socket = "connecting" /\ timers = 0
    /\ up = <<>> /\ down = <<>>
    /\ active = {} /\ streams = <<>> /\ asking = Nobody /\ denied = {}
    /\ exists = TRUE /\ stored = 0 /\ unsent = 0
    /\ view = NoFetch /\ fetch = NoFetch /\ gap = FALSE
    /\ breaks = 0

-----------------------------------------------------------------------------
(* The client.                                                              *)

(* connect() does nothing while a socket is connecting or open.             *)
Connected == IF socket = "closed" THEN "connecting" ELSE socket

(* A slip: a message that cannot be sent is left to the next connection,    *)
(* which nobody asks for.                                                   *)
SubscribeWaits ==
    /\ nextId \in Ids
    /\ nextId' = nextId + 1
    /\ wanted' = wanted \cup {nextId}
    /\ up' = IF socket = "open" THEN Append(up, Sub(nextId)) ELSE up
    /\ fetch' = IF nextId \in ListIds THEN Asked ELSE fetch
    /\ gap' = IF nextId \in ListIds THEN FALSE ELSE gap
    /\ UNCHANGED <<pending, socket, timers, down, sessionVars, listVars, view, breaks>>

(* A page subscribes; the page of the list also asks for the list.          *)
Subscribe ==
    /\ nextId \in Ids
    /\ nextId' = nextId + 1
    /\ wanted' = wanted \cup {nextId}
    /\ up' = IF socket = "open" THEN Append(up, Sub(nextId)) ELSE up
    /\ socket' = Connected
    /\ fetch' = IF nextId \in ListIds THEN Asked ELSE fetch
    /\ gap' = IF nextId \in ListIds THEN FALSE ELSE gap
    /\ UNCHANGED <<pending, timers, down, sessionVars, listVars, view, breaks>>

(* The page is left: RealtimeSubscription is dropped.                       *)
Unsubscribe(id) ==
    /\ id \in wanted
    /\ wanted' = wanted \ {id}
    /\ IF socket = "open" THEN up' = Append(up, Unsub(id)) /\ UNCHANGED pending
       ELSE pending' = Append(pending, Unsub(id)) /\ UNCHANGED up
    /\ socket' = Connected
    /\ UNCHANGED <<nextId, timers, down, sessionVars, listVars, pageVars, breaks>>

Orders(S) == Bijection(1 .. Cardinality(S), S)

(* A slip: only what is pending is said on the new connection.              *)
OpenSaysPending ==
    /\ socket = "connecting"
    /\ socket' = "open"
    /\ up' = pending /\ pending' = <<>>
    /\ UNCHANGED <<nextId, wanted, timers, down, sessionVars, listVars, pageVars, breaks>>

(* onopen: a new session, told of every subscription and then of what is    *)
(* pending.                                                                 *)
Open ==
    /\ socket = "connecting"
    /\ socket' = "open"
    /\ \E o \in Orders(wanted) : up' = [n \in DOMAIN o |-> Sub(o[n])] \o pending
    /\ pending' = <<>>
    /\ UNCHANGED <<nextId, wanted, timers, down, sessionVars, listVars, pageVars, breaks>>

(* schedule_reconnect returns at once when nothing is wanted.  A browser    *)
(* reports a failed connection by close, or by error and close.             *)
Scheduled(n) == CASE wanted = {} /\ pending = <<>> -> timers
                  [] timers + n > Timers           -> Timers
                  [] OTHER                         -> timers + n

(* Whether something the page should hear is lost with the connection.      *)
Underway == \E id \in wanted \cap ListIds :
                \/ id \in DOMAIN streams /\ streams[id] > 0
                \/ \E n \in DOMAIN down : down[n] = Reply("update", id) \/ down[n] = Reply("stale", id)

Close ==
    /\ socket' = "closed"
    /\ \E n \in 1 .. 2 : timers' = Scheduled(n)
    /\ up' = <<>> /\ down' = <<>>
    /\ active' = {} /\ streams' = <<>> /\ asking' = Nobody /\ denied' = {}
    /\ gap' = (gap \/ Underway)
    /\ UNCHANGED <<nextId, wanted, pending, listVars, view, fetch>>

(* The connection cannot be made, or breaks.                                *)
Break ==
    /\ breaks < Breaks
    /\ breaks' = breaks + 1
    /\ socket \in {"connecting", "open"}
    /\ Close

Reconnect ==
    /\ timers > 0
    /\ timers' = timers - 1
    /\ socket' = Connected
    /\ UNCHANGED <<nextId, wanted, pending, wireVars, sessionVars, listVars, pageVars, breaks>>

(* Which messages make the page of the list ask again: an update, Stale,    *)
(* and any Error, which goes to every handler.                              *)
Moves(m) == \/ m.say \in {"update", "stale"} /\ m.id \in wanted \cap ListIds
            \/ m.say = "error" /\ wanted \cap ListIds # {}

Hear ==
    /\ down # <<>>
    /\ down' = Tail(down)
    /\ IF Moves(Head(down)) THEN fetch' = Asked /\ gap' = FALSE
       ELSE UNCHANGED <<fetch, gap>>
    /\ UNCHANGED <<clientVars, up, sessionVars, listVars, view, breaks>>

(* The request is answered with the list as it is; a newer request takes    *)
(* the place of one under way.                                              *)
FetchReads ==
    /\ fetch = Asked /\ exists
    /\ fetch' = stored
    /\ UNCHANGED <<clientVars, wireVars, sessionVars, listVars, view, gap, breaks>>

(* The request or its answer is lost, or the list is gone, which is an      *)
(* error.                                                                   *)
FetchFails ==
    /\ fetch # NoFetch
    /\ \/ fetch = Asked /\ ~exists /\ UNCHANGED breaks
       \/ breaks < Breaks /\ breaks' = breaks + 1
    /\ fetch' = NoFetch /\ gap' = TRUE
    /\ UNCHANGED <<clientVars, wireVars, sessionVars, listVars, view>>

FetchShows ==
    /\ fetch >= 0
    /\ view' = fetch /\ fetch' = NoFetch
    /\ UNCHANGED <<clientVars, wireVars, sessionVars, listVars, gap, breaks>>

-----------------------------------------------------------------------------
(* The session.                                                             *)

Ready   == socket = "open" /\ asking = Nobody
Says(m) == down' = Append(down, m)
Streamed(id) == [i \in DOMAIN streams \cup {id} |-> IF i = id THEN 0 ELSE streams[i]]

(* activate_subscription refuses an id it has no place for.                *)
Full(id) == id \notin active /\ Cardinality(active) >= MaxActive

TakeRefused ==
    /\ Ready /\ up # <<>> /\ Head(up).say = "subscribe" /\ Full(Head(up).id)
    /\ up' = Tail(up)
    /\ Says(Reply("error", Nobody))
    /\ denied' = denied \cup {Head(up).id}
    /\ UNCHANGED <<clientVars, active, streams, asking, listVars, pageVars, breaks>>

TakeMarket ==
    /\ Ready /\ up # <<>> /\ Head(up).say = "subscribe"
    /\ ~Full(Head(up).id) /\ Head(up).id \notin ListIds
    /\ up' = Tail(up)
    /\ active' = active \cup {Head(up).id}
    /\ streams' = Streamed(Head(up).id)
    /\ Says(Reply("subscribed", Head(up).id))
    /\ UNCHANGED <<clientVars, asking, denied, listVars, pageVars, breaks>>

(* The id is active while the database is asked; the session does nothing   *)
(* else meanwhile.                                                          *)
TakeList ==
    /\ Ready /\ up # <<>> /\ Head(up).say = "subscribe"
    /\ ~Full(Head(up).id) /\ Head(up).id \in ListIds
    /\ up' = Tail(up)
    /\ active' = active \cup {Head(up).id}
    /\ asking' = Head(up).id
    /\ UNCHANGED <<clientVars, down, streams, denied, listVars, pageVars, breaks>>

Permit ==
    /\ asking # Nobody /\ exists
    /\ streams' = Streamed(asking)
    /\ Says(Reply("subscribed", asking))
    /\ asking' = Nobody
    /\ UNCHANGED <<clientVars, up, active, denied, listVars, pageVars, breaks>>

Deny ==
    /\ asking # Nobody /\ exists
    /\ active' = active \ {asking}
    /\ Says(Reply("error", Nobody))
    /\ denied' = denied \cup {asking}
    /\ asking' = Nobody
    /\ UNCHANGED <<clientVars, up, streams, listVars, pageVars, breaks>>

(* get_permission(..).await? : an error, which a missing list is, ends the  *)
(* session.                                                                 *)
PermissionFails ==
    /\ asking # Nobody
    /\ IF exists THEN breaks < Breaks /\ breaks' = breaks + 1 ELSE UNCHANGED breaks
    /\ Close

(* The id is inactive; its stream stays.                                    *)
TakeUnsubscribe ==
    /\ Ready /\ up # <<>> /\ Head(up).say = "unsubscribe"
    /\ up' = Tail(up)
    /\ active' = active \ {Head(up).id}
    /\ Says(Reply("unsubscribed", Head(up).id))
    /\ UNCHANGED <<clientVars, streams, asking, denied, listVars, pageVars, breaks>>

(* A slip: a stream that has lagged is passed over without a word.          *)
LagIsSilent(id) ==
    /\ Ready /\ id \in DOMAIN streams /\ streams[id] > 0
    /\ streams' = [streams EXCEPT ![id] = IF @ > Room THEN 0 ELSE @ - 1]
    /\ IF id \in active /\ streams[id] <= Room THEN Says(Reply("update", id)) ELSE UNCHANGED down
    /\ UNCHANGED <<clientVars, up, active, asking, denied, listVars, pageVars, breaks>>

(* A stream has an event: Lagged is sent as Stale, and one of an id that is *)
(* not active is dropped.                                                   *)
Forward(id) ==
    /\ Ready /\ id \in DOMAIN streams /\ streams[id] > 0
    /\ streams' = [streams EXCEPT ![id] = IF @ > Room THEN Room ELSE @ - 1]
    /\ IF id \in active THEN Says(Reply(IF streams[id] > Room THEN "stale" ELSE "update", id))
       ELSE UNCHANGED down
    /\ UNCHANGED <<clientVars, up, active, asking, denied, listVars, pageVars, breaks>>

-----------------------------------------------------------------------------
(* The list.                                                                *)

(* A change is announced, by the web handler that made it, or by nobody:    *)
(* the Discord commands announce none, nor does a handler that ends between *)
(* its first write and its event.  A page whose request is still to be read *)
(* learns of it all the same.                                               *)
Leaves(event) == IF event THEN unsent' = unsent + 1 /\ UNCHANGED gap
                 ELSE gap' = (gap \/ fetch # Asked) /\ UNCHANGED unsent

Edit(event) ==
    /\ exists /\ stored < Edits
    /\ stored' = stored + 1
    /\ Leaves(event)
    /\ UNCHANGED <<clientVars, wireVars, sessionVars, exists, view, fetch, breaks>>

Delete(event) ==
    /\ exists
    /\ exists' = FALSE
    /\ Leaves(event)
    /\ UNCHANGED <<clientVars, wireVars, sessionVars, stored, view, fetch, breaks>>

Heard == \A id \in wanted \cap ListIds : id \in active /\ id \in DOMAIN streams

(* A slip: the bus holds every event for a stream that does not read.       *)
AnnounceKept ==
    /\ unsent > 0
    /\ unsent' = unsent - 1
    /\ streams' = [id \in DOMAIN streams |->
                     IF id \in ListIds THEN streams[id] + 1 ELSE streams[id]]
    /\ gap' = (gap \/ ~Heard)
    /\ UNCHANGED <<clientVars, wireVars, active, asking, denied, exists, stored, view, fetch, breaks>>

(* send_list_event: every stream of the list has one more event.            *)
Announce ==
    /\ unsent > 0
    /\ unsent' = unsent - 1
    /\ streams' = [id \in DOMAIN streams |->
                     IF id \in ListIds /\ streams[id] <= Room THEN streams[id] + 1 ELSE streams[id]]
    /\ gap' = (gap \/ ~Heard)
    /\ UNCHANGED <<clientVars, wireVars, active, asking, denied, exists, stored, view, fetch, breaks>>

Client  == Open \/ Reconnect \/ Hear \/ FetchReads \/ FetchShows
Session == \/ TakeRefused \/ TakeMarket \/ TakeList \/ TakeUnsubscribe
           \/ Permit \/ Deny \/ PermissionFails \/ \E id \in Ids : Forward(id)

Next ==
    \/ Client \/ Session
    \/ Subscribe \/ \E id \in Ids : Unsubscribe(id)
    \/ Break \/ FetchFails
    \/ \E event \in BOOLEAN : Edit(event) \/ Delete(event)
    \/ Announce

(* Open and Reconnect are the browser's, the rest of each task's own steps  *)
(* is ready until it is taken; select passes over neither side for ever.    *)
Fairness ==
    /\ WF_vars(Open) /\ WF_vars(Reconnect) /\ WF_vars(Hear)
    /\ WF_vars(TakeRefused \/ TakeMarket \/ TakeList \/ TakeUnsubscribe)
    /\ WF_vars(Permit \/ Deny \/ PermissionFails)

Spec == Init /\ [][Next]_vars /\ Fairness

-----------------------------------------------------------------------------

Messages == [say : {"subscribe", "unsubscribe"}, id : Ids]
Replies  == [say : {"subscribed", "unsubscribed", "update", "stale", "error"}, id : Ids \cup {Nobody}]

TypeOK ==
    /\ nextId \in 1 .. LastId + 1
    /\ wanted \subseteq Ids /\ pending \in Seq(Messages)
    /\ socket \in {"connecting", "open", "closed"}
    /\ timers \in 0 .. Timers
    /\ up \in Seq(Messages) /\ down \in Seq(Replies)
    /\ active \subseteq Ids /\ asking \in Ids \cup {Nobody} /\ denied \subseteq Ids
    /\ DOMAIN streams \subseteq Ids /\ \A id \in DOMAIN streams : streams[id] \in 0 .. Room + 1
    /\ exists \in BOOLEAN /\ stored \in 0 .. Edits
    /\ unsent \in 0 .. stored + 1 /\ (exists => unsent <= stored)
    /\ view \in NoFetch .. Edits /\ fetch \in NoFetch .. Edits /\ gap \in BOOLEAN
    /\ breaks \in 0 .. Breaks

(* A session never serves more subscriptions than it may, and once it has   *)
(* read all that the client sent, it serves what the client wants, except   *)
(* what it has refused (activate_subscription, onopen, unsubscribe).        *)
ServesWhatIsWanted ==
    /\ Cardinality(active) <= MaxActive
    /\ socket = "open" /\ up = <<>> =>
           /\ active \subseteq wanted
           /\ wanted \subseteq active \cup denied

(* The page of a list that exists shows it as it is once nothing is under   *)
(* way.  Excepted is a page that missed a change since it last asked, and   *)
(* that no later news has made ask again: the change was announced when     *)
(* some subscription of the page had no stream, was lost on the way with a  *)
(* connection, was never announced (a Discord command, a web handler that   *)
(* ended early), or the answer to the page failed.  Such a page stays old.  *)
Settled == /\ socket = "open" /\ fetch = NoFetch /\ unsent = 0 /\ ~gap /\ ~Underway
           /\ \A n \in DOMAIN down : ~Moves(down[n])

ShownIsStored == wanted \cap ListIds # {} /\ exists /\ Settled => view = stored

(* A subscription that is wanted comes to be served, refused or dropped,    *)
(* however often the connection broke, if the list of every list            *)
(* subscription exists.                                                     *)
WantedIsServed ==
    \A id \in Ids : (id \in wanted) ~>
        ((id \in active /\ asking # id) \/ id \in denied \/ id \notin wanted \/ ~exists)

=============================================================================
