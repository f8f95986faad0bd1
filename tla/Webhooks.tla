------------------------------ MODULE Webhooks ------------------------------
(***************************************************************************)
(* AbacatePayWebhookController. The gateway repeats a notification, also   *)
(* while an earlier delivery is still being handled, until it gets a 200;  *)
(* after that the stored event id makes a repetition a no-op. The body of  *)
(* a notification is never believed: it only triggers a lookup.            *)
(***************************************************************************)
EXTENDS OrderStore

\* Fault: a completed payment is acknowledged before it is reconciled.
AckFirst(event) ==
    IF event = "transparent.completed" THEN "hook.ack" ELSE "hook.block"

\* A dispute or a refund stops new settlements before anything else is done.
HookEntry(event) ==
    IF event = "transparent.completed" THEN "reconcile" ELSE "hook.block"

\* 503 as long as the charge is not linked to a payment: nothing happens.
ChargeHook(r, event) ==
    /\ Idle(r, "hook")
    /\ event \in events \cap ChargeEvents
    /\ linked
    /\ Goto(r, HookEntry(event), event, "NONE")
    /\ UNCHANGED <<orderRows, paymentRows, payout, lock, gateway, calls>>

HookBlock(r) ==
    /\ pc[r] = "hook.block"
    /\ Free
    /\ settlementBlocked' = TRUE
    /\ Goto(r, "reconcile", then[r], "NONE")
    /\ UNCHANGED <<orderRows, payment, linked, attempt, refundRequested,
                   payout, lock, gateway, calls>>

TransferHook(r) ==
    /\ Idle(r, "hook")
    /\ "transfer.settled" \in events
    /\ Goto(r, "settle.claim", "transfer.settled", "NONE")
    /\ UNCHANGED <<orderRows, paymentRows, payout, lock, gateway, calls>>

HookAck(r) ==
    /\ pc[r] = "hook.ack"
    /\ events' = events \ {then[r]}
    /\ Finish(r)
    /\ UNCHANGED <<orderRows, paymentRows, payout, lock, charge, contested,
                   transfer, calls>>

WebhookSteps(r) ==
    \/ \E event \in ChargeEvents : ChargeHook(r, event)
    \/ HookBlock(r)
    \/ TransferHook(r)
    \/ HookAck(r)

=============================================================================
