----------------------------- MODULE OrderStore -----------------------------
(***************************************************************************)
(* The state one order spans: its rows in PostgreSQL, the charge and the   *)
(* transfer the gateway keeps for it, and the requests being served about  *)
(* it. A request is one run of an HTTP handler, of a webhook handler or of *)
(* a timer, on any replica of the backend; between two of its transactions *)
(* or network calls every other request may take steps. No handler of the  *)
(* backend writes the rows of two orders, so one order is the whole system *)
(* as far as its own rows are concerned.                                   *)
(***************************************************************************)
EXTENDS Naturals, PaymentState

CONSTANTS
    Requests,   \* requests that may be in flight at the same time
    NoRequest,  \* holder of an advisory lock nobody holds
    Kinds       \* handlers that take several steps and are in play

ASSUME NoRequestAssumption == NoRequest \notin Requests

VARIABLES
    \* rows of the database
    order,              \* pedidos.status
    payment,            \* pagamentos.status
    linked,             \* providerChargeId and settlementDestination are set
    attempt,            \* PaymentAttempt: NONE, CREATED or SUBMITTED
    refundRequested,    \* refundRequestedAt is set
    settlementBlocked,  \* settlementBlockedAt is set
    settlement,         \* PaymentSettlement.status, NONE without a row
    dispute,            \* latest OrderDispute: NONE, OPEN or CLOSED
    lock,               \* holder of pg_advisory_xact_lock(payment.id)
    \* the gateway
    charge,             \* status of the charge, NONE before it exists
    contested,          \* the payer has disputed the charge
    transfer,           \* status of the PIX to the provider, NONE without one
    events,             \* webhook notifications it has no 200 answer for
    \* requests in flight
    pc,                 \* next step of the request
    then,               \* what the request does after a shared subroutine
    saw,                \* what the request read before and still relies on
    \* calls counted for the properties
    createCalls, refundCalls, transferCalls,
    releases            \* PAYMENT_RELEASED rows of the order's timeline

orderRows   == <<order, dispute>>
paymentRows == <<payment, linked, attempt, refundRequested, settlementBlocked>>
gateway     == <<charge, contested, transfer, events>>
requests    == <<pc, then, saw>>
calls       == <<createCalls, refundCalls, transferCalls>>
payout      == <<settlement, releases>>

vars == <<order, dispute, payment, linked, attempt, refundRequested,
          settlementBlocked, settlement, releases, lock, charge, contested,
          transfer, events, pc, then, saw, createCalls, refundCalls,
          transferCalls>>

ChargeEvents == {"transparent.completed", "transparent.refunded",
                 "transparent.disputed"}
Events == ChargeEvents \cup {"transfer.settled"}

\* Subroutine callers: the two reconciliations of cancelPayment, the one of
\* the client's confirmation, a poll, the settlement timer, and webhooks.
Callers == {"NONE", "cancel", "refund", "confirm", "poll", "drain"} \cup Events

Steps == {"idle", "pay.claim", "pay.create", "pay.find", "pay.record",
          "reconcile", "reconcile.save",
          "cancel.open", "cancel.claim", "cancel.refund", "cancel.order",
          "finish.save", "confirm.save", "expire.save",
          "settle.claim", "settle.send", "settle.find", "settle.record",
          "hook.block", "hook.ack"}

Idle(r, kind) == pc[r] = "idle" /\ kind \in Kinds

Free == lock = NoRequest

\* Request r goes on at a step, to return to a caller, remembering a value.
Goto(r, step, caller, value) ==
    /\ pc' = [pc EXCEPT ![r] = step]
    /\ then' = [then EXCEPT ![r] = caller]
    /\ saw' = [saw EXCEPT ![r] = value]

Finish(r) == Goto(r, "idle", "NONE", "NONE")

StoreInit ==
    /\ order = "AGUARDANDO_APROVACAO"
    /\ payment = "CREATED"
    /\ linked = FALSE
    /\ attempt = "NONE"
    /\ refundRequested = FALSE
    /\ settlementBlocked = FALSE
    /\ settlement = "NONE"
    /\ dispute = "NONE"
    /\ lock = NoRequest
    /\ charge = "NONE"
    /\ contested = FALSE
    /\ transfer = "NONE"
    /\ events = {}
    /\ pc = [r \in Requests |-> "idle"]
    /\ then = [r \in Requests |-> "NONE"]
    /\ saw = [r \in Requests |-> "NONE"]
    /\ createCalls = 0
    /\ refundCalls = 0
    /\ transferCalls = 0
    /\ releases = 0

\* A request dies between two steps: the process crashes, a call times out or
\* a handler throws. Its open transaction, and the lock with it, is undone.
Crash(r) ==
    /\ pc[r] # "idle"
    /\ Finish(r)
    /\ lock' = IF lock = r THEN NoRequest ELSE lock
    /\ UNCHANGED <<orderRows, paymentRows, payout, gateway, calls>>

=============================================================================
