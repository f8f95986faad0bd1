------------------------------ MODULE Gateway ------------------------------
(***************************************************************************)
(* The payment gateway and the customer's bank, seen through the calls of  *)
(* AbacatePayService and the webhooks it subscribes to. External: only     *)
(* what src/ relies on is modelled. FAILED and EXPIRED charges are final,  *)
(* and no webhook announces them.                                          *)
(***************************************************************************)
EXTENDS OrderStore

backendUnchanged == <<orderRows, paymentRows, payout, lock, requests, calls>>

CustomerPays ==
    /\ charge = "pending"
    /\ charge' = "paid"
    /\ events' = events \cup {"transparent.completed"}
    /\ UNCHANGED <<contested, transfer, backendUnchanged>>

ChargeLapses ==
    /\ charge = "pending"
    /\ charge' \in {"canceled", "failed"}
    /\ UNCHANGED <<contested, transfer, events, backendUnchanged>>

Refunded ==
    /\ charge = "paid"
    /\ charge' = "refunded"
    /\ events' = events \cup {"transparent.refunded"}
    /\ UNCHANGED <<contested, transfer, backendUnchanged>>

\* The refund the backend asked for is carried out some time after the call.
RefundSettles == refundCalls > 0 /\ Refunded

\* The money goes back without the backend's asking: a lost dispute, or a
\* refund made by hand in the gateway's console.
Chargeback == refundCalls = 0 /\ Refunded

ContestCharge ==
    /\ charge = "paid" /\ ~contested
    /\ contested' = TRUE
    /\ events' = events \cup {"transparent.disputed"}
    /\ UNCHANGED <<charge, transfer, backendUnchanged>>

TransferSettles ==
    /\ transfer = "PENDING"
    /\ transfer' \in {"COMPLETE", "FAILED"}
    /\ events' = events \cup {"transfer.settled"}
    /\ UNCHANGED <<charge, contested, backendUnchanged>>

GatewayNext ==
    \/ CustomerPays
    \/ ChargeLapses
    \/ RefundSettles
    \/ Chargeback
    \/ ContestCharge
    \/ TransferSettles

=============================================================================
