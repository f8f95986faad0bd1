------------------------------ MODULE Payments ------------------------------
(***************************************************************************)
(* PaymentService and CreateOrderPaymentHandler: creating the PIX charge   *)
(* of an order, reconciling the payment row with the gateway, and          *)
(* cancelling a payment, with a refund when it was paid. Every transaction *)
(* that writes the payment row holds the advisory lock of the payment;     *)
(* reconciliation holds it across its call to the gateway.                 *)
(***************************************************************************)
EXTENDS OrderStore

-----------------------------------------------------------------------------
(* Creating the charge: POST of the client, and GET when it has to recover *)
(* a creation that was submitted and never recorded.                       *)

PayableOrders == {"AGENDADO", "AGUARDANDO_PAGAMENTO"}

\* The order moves to AGENDADO when its payment is known to be paid, and back
\* when its money is lost or to be returned.
ScheduleIf(paid) ==
    order' = IF paid /\ order = "AGUARDANDO_PAGAMENTO" THEN "AGENDADO" ELSE order

\* Fault: a scheduled order stays scheduled.
StaysScheduled == UNCHANGED order

Unschedule ==
    order' = IF order = "AGENDADO" THEN "AGUARDANDO_PAGAMENTO" ELSE order

\* The immutable request is stored before any call; a retry finds it there.
PayAttempt(r) ==
    /\ Idle(r, "pay")
    /\ Free
    /\ payment = "CREATED"
    /\ order \in PayableOrders
    /\ attempt' = IF attempt = "NONE" THEN "CREATED" ELSE attempt
    /\ Goto(r, "pay.claim", "NONE", "NONE")
    /\ UNCHANGED <<orderRows, payment, linked, refundRequested,
                   settlementBlocked, payout, lock, gateway, calls>>

\* Fault: every retry believes it is the first.
claimAssumed == TRUE

claimWon == attempt = "CREATED"

\* updateMany(submittedAt: null): one request ever wins the right to create.
PayClaim(r) ==
    /\ pc[r] = "pay.claim"
    /\ attempt' = "SUBMITTED"
    /\ Goto(r, IF claimWon THEN "pay.create" ELSE "pay.find", "NONE", "NONE")
    /\ UNCHANGED <<orderRows, payment, linked, refundRequested,
                   settlementBlocked, payout, lock, gateway, calls>>

PayCreate(r) ==
    /\ pc[r] = "pay.create"
    /\ createCalls' = createCalls + 1
    /\ charge' = "pending"
    /\ Goto(r, "pay.record", "NONE", "pending")
    /\ UNCHANGED <<orderRows, paymentRows, payout, lock, contested, transfer,
                   events, refundCalls, transferCalls>>

PayFind(r) ==
    /\ pc[r] = "pay.find"
    /\ IF charge = "NONE" THEN Finish(r)
                          ELSE Goto(r, "pay.record", "NONE", charge)
    /\ UNCHANGED <<orderRows, paymentRows, payout, lock, gateway, calls>>

\* Fault: the answer is recorded over whatever the row says by now.
recordBlindly == TRUE

notYetRecorded == payment = "CREATED"

\* What the gateway answered may be out of date when it is recorded.
PayRecord(r) ==
    /\ pc[r] = "pay.record"
    /\ Free
    /\ IF notYetRecorded
       THEN /\ payment' = gatewayPaymentStatus(saw[r])
            /\ linked' = TRUE
            /\ ScheduleIf(payment' \in paidStatuses)
       ELSE UNCHANGED <<order, payment, linked>>
    /\ Finish(r)
    /\ UNCHANGED <<dispute, attempt, refundRequested, settlementBlocked,
                   payout, lock, gateway, calls>>

-----------------------------------------------------------------------------
(* Reconciliation, the subroutine of every other handler that needs the    *)
(* gateway's word: one transaction, the call to the gateway inside it.     *)

\* Where a caller of reconcilePayment goes with the status it gets back.
Resumption(caller, status) ==
    CASE caller = "cancel" /\ status \in terminalStatuses -> "cancel.order"
      [] caller = "cancel" /\ status \in paidStatuses     -> "cancel.claim"
      [] caller = "refund" /\ status = "REEMBOLSADO"      -> "cancel.order"
      [] caller = "confirm" /\ status \in paidStatuses    -> "confirm.save"
      [] caller \in Events                                -> "hook.ack"
      [] OTHER                                            -> "idle"

Resume(r, status) ==
    LET step == Resumption(then[r], status) IN
    Goto(r, step, IF step = "hook.ack" THEN then[r] ELSE "NONE", "NONE")

\* Fault: reconciliation runs without the advisory lock.
NoLock(r) == UNCHANGED lock

HoldLock(r) == lock' = r

\* The lock is taken, the row read, and the gateway asked for the charge.
ReconcileFetch(r) ==
    /\ pc[r] = "reconcile"
    /\ Free
    /\ IF linked THEN /\ HoldLock(r)
                      /\ Goto(r, "reconcile.save", then[r], charge)
                 ELSE /\ Resume(r, payment)
                      /\ UNCHANGED lock
    /\ UNCHANGED <<orderRows, paymentRows, payout, gateway, calls>>

\* The rest of that transaction, up to its commit.
ReconcileSave(r) ==
    LET reported == gatewayPaymentStatus(saw[r])
        usable == /\ reported \in paidStatuses
                  /\ ~refundRequested /\ ~settlementBlocked
    IN
    /\ pc[r] = "reconcile.save"
    /\ IF IgnoresReport(payment, reported)
       THEN /\ Resume(r, payment)
            /\ UNCHANGED <<order, payment>>
       ELSE /\ Resume(r, reported)
            /\ payment' = reported
            /\ IF usable THEN ScheduleIf(TRUE) ELSE Unschedule
    /\ lock' = NoRequest
    /\ UNCHANGED <<dispute, linked, attempt, refundRequested,
                   settlementBlocked, payout, gateway, calls>>

\* GET of the client once the payment has left CREATED.
Poll(r) ==
    /\ Idle(r, "poll")
    /\ payment # "CREATED"
    /\ Goto(r, "reconcile", "poll", "NONE")
    /\ UNCHANGED <<orderRows, paymentRows, payout, lock, gateway, calls>>

-----------------------------------------------------------------------------
(* cancelPayment. Its caller cancels the order once it returns.            *)

CancellableByPayment == {"AGUARDANDO_APROVACAO", "AGUARDANDO_PAGAMENTO",
                         "AGENDADO", "CANCELADO"}

\* First transaction: a payment without a charge is cancelled in the database
\* alone, unless a creation may be under way at the gateway.
CancelOpen(r) ==
    LET uncharged == payment = "CREATED" /\ ~linked IN
    /\ pc[r] = "cancel.open"
    /\ Free
    /\ CASE \/ order \notin CancellableByPayment
            \/ uncharged /\ attempt # "NONE" ->
                 Finish(r) /\ UNCHANGED payment
         [] order \in CancellableByPayment /\ uncharged /\ attempt = "NONE" ->
                 /\ payment' = "CANCELADO"
                 /\ Goto(r, "cancel.order", "NONE", "NONE")
         [] order \in CancellableByPayment /\ payment \in terminalStatuses ->
                 Goto(r, "cancel.order", "NONE", "NONE") /\ UNCHANGED payment
         [] OTHER ->
                 Goto(r, "reconcile", "cancel", "NONE") /\ UNCHANGED payment
    /\ UNCHANGED <<orderRows, linked, attempt, refundRequested,
                   settlementBlocked, payout, lock, gateway, calls>>

\* Fault: the order is not looked at again before its refund is claimed.
anyOrder == OrderStatus

RefundableOrders == {"AGENDADO", "AGUARDANDO_PAGAMENTO", "CANCELADO"}

\* Fault: the count of the conditional update is not looked at.
refundAssumed == TRUE

refundClaimWon == ~refundRequested

\* The durable refund mark, set before the refund is asked for.
CancelClaim(r) ==
    /\ pc[r] = "cancel.claim"
    /\ Free
    /\ IF order \in RefundableOrders
       THEN /\ refundRequested' = TRUE
            /\ Unschedule
            /\ IF refundClaimWon THEN Goto(r, "cancel.refund", "NONE", "NONE")
                                 ELSE Goto(r, "reconcile", "refund", "NONE")
       ELSE Finish(r) /\ UNCHANGED <<refundRequested, order>>
    /\ UNCHANGED <<dispute, payment, linked, attempt, settlementBlocked,
                   payout, lock, gateway, calls>>

\* The gateway accepts the refund; it is carried out later.
CancelRefund(r) ==
    /\ pc[r] = "cancel.refund"
    /\ refundCalls' = refundCalls + 1
    /\ Goto(r, "reconcile", "refund", "NONE")
    /\ UNCHANGED <<orderRows, paymentRows, payout, lock, gateway,
                   createCalls, transferCalls>>

-----------------------------------------------------------------------------
PaymentSteps(r) ==
    \/ PayAttempt(r) \/ PayClaim(r) \/ PayCreate(r) \/ PayFind(r) \/ PayRecord(r)
    \/ Poll(r) \/ ReconcileFetch(r) \/ ReconcileSave(r)
    \/ CancelOpen(r) \/ CancelClaim(r) \/ CancelRefund(r)

=============================================================================
