-------------------------- MODULE MCArbitrageDigest --------------------------
(* Two routes of one item, the second within a data center.                 *)
EXTENDS ArbitrageDigest, TLC

CONSTANTS r1, r2, i1

OneItem == r1 :> i1 @@ r2 :> i1

Offer(n, f) == [net |-> n, fast |-> f]

(* A poor offer that is urgent, and better ones.                            *)
MCOffers == {Offer(1, TRUE), Offer(1, FALSE), Offer(3, FALSE)}

Profile(changedOnly, cooldown, perHour, mode, percent, empty, strategy) ==
    [changedOnly |-> changedOnly, cooldown |-> cooldown, perHour |-> perHour, mode |-> mode,
     interval |-> 2, improve |-> 0, percent |-> percent,
     empty |-> empty, strategy |-> strategy, rows |-> 2]

MCSettings == {Profile(TRUE, 0, 1, "DIGEST_INTERVAL", 0, FALSE, "BEST_PLUS_SAME_DC"),
               Profile(FALSE, 2, 0, "SCANNER_COMPLETE", 100, FALSE, "ALL"),
               Profile(TRUE, 1, 0, "SCHEDULED", 50, TRUE, "BEST_ONLY")}

(* Bounds of the run: the second route is never the better one, and what is *)
(* urgent matters to profiles that are told.                                *)
Pertinent ==
    /\ r2 \in DOMAIN market => market[r2].net = 1
    /\ settings.perHour = 0 => \A r \in DOMAIN market : ~market[r].fast
=============================================================================
