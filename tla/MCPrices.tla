------------------------------- MODULE MCPrices -------------------------------
(* Instances of PriceWebhooks and LinePricing for TLC.  The webhooks leave open *)
(* what a valuation computes and a valuation who started it: the two are        *)
(* explored one at a time.                                                      *)
EXTENDS PriceWebhooks, LinePricing, TLC

VARIABLE explored

\* The one that is not explored waits in one of its initial states.
WebhooksWait == Init /\ tenant = [strategy |-> "skipped", debounce |-> TRUE]
PricingWaits ==
    /\ PricingInit /\ flow = "businessPartner"
    /\ \A i \in Item : market[i].price = 0
    /\ \A l \in Row : deal[l] = [state |-> "on", listed |-> TRUE, price |-> 0] /\ item[l] = item[1]

PricesInit ==
    \/ explored = "webhooks" /\ Init /\ PricingWaits
    \/ explored = "pricing" /\ WebhooksWait /\ PricingInit

PricesNext ==
    /\ UNCHANGED explored
    /\ \/ explored = "webhooks" /\ Next /\ UNCHANGED pricingVars
       \/ explored = "pricing" /\ PricingNext /\ UNCHANGED priceVars

PricesSpec == PricesInit /\ [][PricesNext]_<<explored, priceVars, pricingVars>>

AllStrategies == Strategy
Quantities == [l \in Row |-> l]
PricesSymmetry == Permutations(Worker) \cup Permutations(Line) \cup Permutations(Item)
=============================================================================
