---------------------------- MODULE OrderLiveness ----------------------------
(***************************************************************************)
(* What must eventually happen to the money of an order, although requests *)
(* die, answers are lost and webhooks arrive late: the gateway repeats its *)
(* webhooks until it is answered and the timer drains the queue forever.   *)
(***************************************************************************)
EXTENDS OrderInvariant

\* A request in flight takes its next step.
Proceed(r) ==
    /\ pc[r] # "idle"
    /\ PaymentSteps(r) \/ OrderSteps(r) \/ SettlementSteps(r) \/ WebhookSteps(r)

\* A request in flight goes on: waiting for the lock, it gets it some time.
RequestsProceed == \A r \in Requests : SF_vars(Proceed(r))

\* The webhooks of the charge without an answer are delivered again and again.
WebhooksRepeat ==
    SF_vars(\E r \in Requests, event \in ChargeEvents : ChargeHook(r, event))

\* The timer takes up a settlement that is not closed again and again, and the
\* gateway carries out the transfers it accepted.
TimerRepeats ==
    /\ SF_vars(\E r \in Requests : Drain(r))
    /\ WF_vars(TransferSettles)

\* Crashes, timeouts and failing calls come at any time, but not for ever: from
\* some point on a request only ends where its handler returns or throws by
\* itself. A sweep that finds nothing to send or to record may go on doing so.
Recovery == <>[][\A r \in Requests : Crash(r) => Proceed(r)]_vars

\* Users owe the system nothing: there is no fairness for what they start.
FairSpec == Spec /\ RequestsProceed /\ WebhooksRepeat /\ Recovery

\* The system right after the client's confirmation: the state in which the
\* payout of an order starts, with the webhook of its payment answered or not.
ConcludedInit ==
    /\ order = "CONCLUIDO"
    /\ payment = "PAGO"
    /\ linked = TRUE
    /\ attempt = "SUBMITTED"
    /\ refundRequested = FALSE
    /\ settlementBlocked = FALSE
    /\ settlement = "READY"
    /\ dispute \in {"NONE", "CLOSED"}
    /\ lock = NoRequest
    /\ charge = "paid"
    /\ contested = FALSE
    /\ transfer = "NONE"
    /\ events \in SUBSET {"transparent.completed"}
    /\ pc = [r \in Requests |-> "idle"]
    /\ then = [r \in Requests |-> "NONE"]
    /\ saw = [r \in Requests |-> "NONE"]
    /\ createCalls = 1
    /\ refundCalls = 0
    /\ transferCalls = 0
    /\ releases = 0

PayoutSpec ==
    /\ ConcludedInit
    /\ [][Next]_vars
    /\ RequestsProceed /\ WebhooksRepeat /\ TimerRepeats /\ Recovery

\* A charge the customer paid, once linked to the payment, is eventually known
\* to be paid (or to have been refunded since), whether the client asks or not.
PaymentIsRecorded ==
    linked /\ charge = "paid" ~> payment \in {"PAGO", "REEMBOLSADO"}

\* A concluded order's settlement is decided: its transfer is sent and its
\* final result recorded, or it is blocked, or it stays for good where it is left
\* for operational review, because its sender died before the call.
SettlementIsDecided ==
    settlement = "READY" ~>
        \/ settlement \in closedSettlements
        \/ [](settlement = "SUBMITTING" /\ transfer = "NONE")

=============================================================================
