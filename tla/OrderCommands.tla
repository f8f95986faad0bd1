--------------------------- MODULE OrderCommands ---------------------------
(***************************************************************************)
(* The commands on an order: the provider accepts, sets out, starts,       *)
(* finishes or cancels, the client confirms, either reports a problem, and *)
(* the timer expires what nobody answered. Commands other than expiration  *)
(* and confirmation do not hold the payment's lock: they rely on updates   *)
(* conditioned on the status of the order.                                 *)
(***************************************************************************)
EXTENDS OrderStore

othersUnchanged == <<paymentRows, payout, lock, gateway, calls>>

\* ConfirmOrderByProvider: its early read repeats the condition of its update.
Accept ==
    /\ order = "AGUARDANDO_APROVACAO"
    /\ order' = "AGUARDANDO_PAGAMENTO"
    /\ UNCHANGED <<dispute, othersUnchanged, requests>>

\* OrderController.transition: one conditional update of order and payment.
Transition(from, to) ==
    /\ order = from
    /\ payment = "PAGO"
    /\ order' = to
    /\ UNCHANGED <<dispute, othersUnchanged, requests>>

SetOut == Transition("AGENDADO", "EM_DESLOCAMENTO")

StartService == Transition("EM_DESLOCAMENTO", "EM_ANDAMENTO")

-----------------------------------------------------------------------------
\* FinishOrder checks order and payment first, only the order when it writes.
FinishRead(r) ==
    /\ Idle(r, "finish")
    /\ order = "EM_ANDAMENTO"
    /\ payment = "PAGO"
    /\ Goto(r, "finish.save", "NONE", "NONE")
    /\ UNCHANGED <<orderRows, othersUnchanged>>

FinishSave(r) ==
    /\ pc[r] = "finish.save"
    /\ order' = IF order = "EM_ANDAMENTO" THEN "AGUARDANDO_CONFIRMACAO_CLIENTE"
                                          ELSE order
    /\ Finish(r)
    /\ UNCHANGED <<dispute, othersUnchanged>>

-----------------------------------------------------------------------------
\* ConfirmOrderCompletion: early reads, a reconciliation, one transaction.
ConfirmRead(r) ==
    /\ Idle(r, "confirm")
    /\ order = "AGUARDANDO_CONFIRMACAO_CLIENTE"
    /\ payment \in paidStatuses
    /\ Goto(r, "reconcile", "confirm", "NONE")
    /\ UNCHANGED <<orderRows, othersUnchanged>>

payoutAllowed == linked /\ ~refundRequested /\ ~settlementBlocked

\* Fault: the problem reported since the client's request is overlooked.
confirmableUnderDispute ==
    /\ payment \in paidStatuses
    /\ order = "AGUARDANDO_CONFIRMACAO_CLIENTE"
    /\ payoutAllowed

confirmable ==
    /\ payment \in paidStatuses
    /\ dispute # "OPEN"
    /\ order = "AGUARDANDO_CONFIRMACAO_CLIENTE"
    /\ payoutAllowed

\* The settlement is queued in the transaction that concludes the order; a
\* refund mark or a block makes it throw, which undoes the conclusion.
ConfirmSave(r) ==
    /\ pc[r] = "confirm.save"
    /\ Free
    /\ IF confirmable
       THEN /\ order' = "CONCLUIDO"
            /\ settlement' = IF settlement = "NONE" THEN "READY" ELSE settlement
            /\ payment' = "PAGO"
       ELSE UNCHANGED <<order, settlement, payment>>
    /\ Finish(r)
    /\ UNCHANGED <<dispute, linked, attempt, refundRequested,
                   settlementBlocked, releases, lock, gateway, calls>>

-----------------------------------------------------------------------------
\* CancelOrderByProvider: an early read, cancelPayment, then the order alone.
CancellableByProvider == {"AGUARDANDO_APROVACAO", "AGUARDANDO_PAGAMENTO",
                          "AGENDADO"}

CancelRead(r) ==
    /\ Idle(r, "cancel")
    /\ order \in CancellableByProvider
    /\ Goto(r, "cancel.open", "NONE", "NONE")
    /\ UNCHANGED <<orderRows, othersUnchanged>>

CancelOrder(r) ==
    /\ pc[r] = "cancel.order"
    /\ order' = IF order \in CancellableByProvider THEN "CANCELADO" ELSE order
    /\ Finish(r)
    /\ UNCHANGED <<dispute, othersUnchanged>>

-----------------------------------------------------------------------------
\* OrderExpirationService: candidates are read in a batch and expired one by
\* one later. When a deadline falls is abstracted: any candidate may be late.
ExpireRead(r) ==
    /\ Idle(r, "expire")
    /\ order \in {"AGUARDANDO_APROVACAO", "AGUARDANDO_PAGAMENTO"}
    /\ payment \in releasablePaymentStatuses
    /\ Goto(r, "expire.save", "NONE", order)
    /\ UNCHANGED <<orderRows, othersUnchanged>>

\* Fault: the update is not conditioned on the status the sweep read.
anyCandidate(r) == TRUE

stillCandidate(r) == order = saw[r]

ExpireSave(r) ==
    /\ pc[r] = "expire.save"
    /\ Free
    /\ IF /\ isPaymentReleasable(payment, linked, attempt # "NONE")
          /\ stillCandidate(r)
       THEN /\ order' = "CANCELADO"
            /\ payment' = IF payment = "CREATED" THEN "CANCELADO" ELSE payment
       ELSE UNCHANGED <<order, payment>>
    /\ Finish(r)
    /\ UNCHANGED <<dispute, linked, attempt, refundRequested,
                   settlementBlocked, payout, lock, gateway, calls>>

-----------------------------------------------------------------------------
\* OrderDisputesController.open, under the row lock of the order. A second
\* report while one is open returns the open one.
OpenDispute ==
    /\ order \in {"EM_ANDAMENTO", "AGUARDANDO_CONFIRMACAO_CLIENTE"}
    /\ dispute # "OPEN"
    /\ dispute' = "OPEN"
    /\ UNCHANGED <<order, othersUnchanged, requests>>

\* An administrator resolves or rejects it.
ResolveDispute ==
    /\ dispute = "OPEN"
    /\ dispute' = "CLOSED"
    /\ UNCHANGED <<order, othersUnchanged, requests>>

-----------------------------------------------------------------------------
OrderSteps(r) ==
    \/ FinishRead(r) \/ FinishSave(r)
    \/ ConfirmRead(r) \/ ConfirmSave(r)
    \/ CancelRead(r) \/ CancelOrder(r)
    \/ ExpireRead(r) \/ ExpireSave(r)

=============================================================================
