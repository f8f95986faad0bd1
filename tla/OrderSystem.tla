----------------------------- MODULE OrderSystem -----------------------------
(***************************************************************************)
(* The backend and its gateway around one order: the composition of the    *)
(* payment, order, settlement and webhook handlers, any number of them at  *)
(* the same time, any of them dying between two steps.                     *)
(***************************************************************************)
EXTENDS Payments, OrderCommands, Settlements, Webhooks, Gateway

Init == StoreInit

RequestNext(r) ==
    \/ PaymentSteps(r) \/ OrderSteps(r) \/ SettlementSteps(r)
    \/ WebhookSteps(r) \/ Crash(r)

Next ==
    \/ Accept \/ SetOut \/ StartService
    \/ OpenDispute \/ ResolveDispute
    \/ GatewayNext
    \/ \E r \in Requests : RequestNext(r)

Spec == Init /\ [][Next]_vars

-----------------------------------------------------------------------------
(* Safety: what every reachable state satisfies.                           *)

RowsTypeOK ==
    /\ order \in OrderStatus
    /\ dispute \in {"NONE", "OPEN", "CLOSED"}
    /\ payment \in PaymentStatus
    /\ attempt \in {"NONE", "CREATED", "SUBMITTED"}
    /\ linked \in BOOLEAN
    /\ refundRequested \in BOOLEAN
    /\ settlementBlocked \in BOOLEAN
    /\ settlement \in SettlementStatus
    /\ lock \in Requests \cup {NoRequest}

GatewayTypeOK ==
    /\ charge \in ChargeStatus \cup {"NONE"}
    /\ contested \in BOOLEAN
    /\ transfer \in TransferStatus \cup {"NONE"}
    /\ events \subseteq Events

Readings == ChargeStatus \cup TransferStatus \cup OrderStatus \cup {"NONE"}

RequestsTypeOK ==
    /\ pc \in [Requests -> Steps]
    /\ then \in [Requests -> Callers]
    /\ saw \in [Requests -> Readings]

CallsTypeOK ==
    /\ createCalls \in Nat
    /\ refundCalls \in Nat
    /\ transferCalls \in Nat
    /\ releases \in Nat

\* Every variable holds one of the values its column, or the gateway, allows.
\* In particular no raw status of the gateway reaches the payment row.
TypeOK == RowsTypeOK /\ GatewayTypeOK /\ RequestsTypeOK /\ CallsTypeOK

\* Concurrent and repeated payment requests, on any replica and across
\* crashes, ask the gateway for at most one charge per order: the promise of
\* the stored attempt in CreateOrderPaymentHandler.
AtMostOneCharge == createCalls <= 1

\* However often a cancellation is repeated, the gateway is asked for one
\* refund at most: the promise of the refund mark in cancelPayment.
AtMostOneRefund == refundCalls <= 1

\* However many replicas drain the queue and however often they crash, the
\* provider is sent at most one transfer: the promise of SUBMITTING.
AtMostOnePayout == transferCalls <= 1

\* An order is never left cancelled while its charge can still be paid or is
\* paid and kept, whichever of provider and timer cancelled it and however
\* that raced with a payment being created, recorded or reconciled.
NoMoneyOnCancelledOrder ==
    order = "CANCELADO" => charge \notin {"pending", "paid"}

\* The backend never both asks for a refund and owes the provider a transfer:
\* the two decisions are taken by different requests, in cancelPayment and in
\* the client's confirmation.
RefundOrPayout == ~(refundRequested /\ settlement # "NONE")

\* A provider is sent out only to an order that has been paid and is not being
\* refunded. Once under way, only the gateway can take the money back.
ServiceIsPaid ==
    /\ order = "AGENDADO" => payment = "PAGO"
    /\ order \in {"AGENDADO", "EM_DESLOCAMENTO", "EM_ANDAMENTO",
                  "AGUARDANDO_CONFIRMACAO_CLIENTE"} =>
         payment \in {"PAGO", "REEMBOLSADO"} /\ ~refundRequested

\* No transfer leaves for an order that is not concluded, and one that left is
\* always on record, whatever the request that sent it suffers afterwards.
PayoutIsRecorded ==
    transfer # "NONE" =>
        /\ order = "CONCLUIDO"
        /\ settlement \in {"SUBMITTING", "PENDING", "SUCCEEDED", "FAILED"}

\* PAYMENT_RELEASED enters the timeline once, and only for a transfer the
\* gateway completed, although several replicas may record it at once.
ReleaseIsReal ==
    /\ releases = IF settlement = "SUCCEEDED" THEN 1 ELSE 0
    /\ releases > 0 => transfer = "COMPLETE"

\* An order is never concluded over a problem that is still being analysed.
NoConclusionOverDispute == order = "CONCLUIDO" => dispute # "OPEN"

-----------------------------------------------------------------------------
(* Safety: what no step may do.                                            *)

\* A payment that was cancelled, refunded or failed stays so, a paid one stays
\* paid or is refunded, and a charge once linked stays linked.
PaymentAdvances ==
    /\ payment \in terminalStatuses \cup {"FALHOU"} => UNCHANGED payment
    /\ payment = "PAGO" => payment' \in {"PAGO", "REEMBOLSADO"}
    /\ linked => linked'

\* Late reports, recorded in any order by any request, never bring a payment
\* that was cancelled, refunded or failed back to life, nor turn a paid one
\* into anything but a refunded one.
PaymentNeverRegresses == [][PaymentAdvances]_vars

\* A settlement with a result keeps it, and one sent is never to be sent again.
SettlementAdvances ==
    /\ settlement \in closedSettlements => UNCHANGED settlement
    /\ settlement = "PENDING" => settlement' \notin {"READY", "SUBMITTING"}

\* Late answers of the gateway, recorded in any order by any replica, never
\* undo the result of a transfer, and a settlement once blocked stays blocked.
SettlementNeverRegresses == [][SettlementAdvances]_vars

-----------------------------------------------------------------------------
(* The system implements the abstract lifecycle.                           *)

moneyClaim ==
    CASE settlement # "NONE" -> "payout"
      [] settlement = "NONE" /\ (refundRequested \/ payment \in terminalStatuses
                                 \/ payment = "FALHOU") -> "void"
      [] OTHER -> "open"

Lifecycle == INSTANCE OrderLifecycle WITH status <- order, claim <- moneyClaim

\* Every step of the system is a step of OrderLifecycle or leaves the status
\* and the claim alone.
LifecycleRefined == Lifecycle!LifecycleSpec

=============================================================================
