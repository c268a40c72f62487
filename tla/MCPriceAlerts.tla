---------------------------- MODULE MCPriceAlerts ----------------------------
(* One alert on an item, and one on a list with two entries.                *)
EXTENDS PriceAlerts, TLC

CONSTANTS a, l, e1, e2, x, y

MCItemOf == a :> x @@ e1 :> x @@ e2 :> y

MCRequests ==
    {CreateAlert(a, 2), UpdateAlert(a, <<FALSE>>, <<1>>, <<>>, <<>>), DeleteAlert(a),
     CreateListAlert(l), EditListItem(e1, 1), RemoveItem(e1)}

(* Bounds of the run: requests and listings are about the kind of alert     *)
(* there is, no two deliveries are on no record at a time, and a list event *)
(* is not announced while another waits.                                    *)
Pertinent ==
    /\ Cardinality(unstamped) <= 1
    /\ IF alerts[l].state = "gone"
       THEN /\ \A h \in Handlers : Busy(h) => calls[h].request[1].of \in ItemAlerts
            /\ \A n \in 1 .. Len(offers) : offers[n] = [item |-> x, price |-> 2]
       ELSE /\ told <= 1
            /\ \A h \in Handlers : Busy(h) => calls[h].request[1].of \notin ItemAlerts
            /\ \A n \in 1 .. Len(offers) : offers[n].price = 1

(* The run starts with the alert of one kind, which may have to be created. *)
Kept(as) == \A b \in Alerts : /\ alerts[b].last = Never
                              /\ alerts[b].state \in IF b \in as THEN {"none", "on"} ELSE {"gone"}
                              /\ alerts[b].state \in {"none", "gone"} =>
                                     alerts[b].price = IF b \in ItemAlerts THEN 1 ELSE NoTarget

MCInit == Init /\ \/ Kept(ItemAlerts) /\ \A e \in Entries : targets[e] = NoTarget
                  \/ Kept(ListAlerts) /\ \A e \in Entries : targets[e] = 1

MCSpec == MCInit /\ [][Next]_vars /\ Fairness
=============================================================================
