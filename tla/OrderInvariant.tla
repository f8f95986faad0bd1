--------------------------- MODULE OrderInvariant ---------------------------
(***************************************************************************)
(* The inductive invariant of OrderSystem: why its safety properties hold. *)
(* It says what a request in flight may still rely on, step by step.       *)
(***************************************************************************)
EXTENDS OrderSystem

\* The lock is held exactly by the request between the two halves of its
\* reconciliation.
LockInv == \A r \in Requests : pc[r] = "reconcile.save" <=> lock = r

\* The rows that describe the charge agree with the charge.
ChargeInv ==
    /\ createCalls = IF charge = "NONE" THEN 0 ELSE 1
    /\ charge # "NONE" => attempt = "SUBMITTED"
    /\ linked => charge # "NONE" /\ payment # "CREATED"
    /\ ~linked => payment \in {"CREATED", "CANCELADO"}
    /\ ~linked /\ payment = "CANCELADO" => attempt = "NONE"

\* The payment row says of the charge what is, or was before its refund, true.
PaymentInv ==
    /\ payment = "PAGO" => charge \in {"paid", "refunded"}
    /\ payment = "FALHOU" => charge = "failed"
    /\ payment = "REEMBOLSADO" => charge = "refunded"
    /\ payment = "CANCELADO" /\ linked => charge = "canceled"

\* A report about the charge that may be out of date: only a pending charge,
\* or a paid one, can since have changed.
Outdated(report) ==
    /\ report \in ChargeStatus
    /\ \/ report = "pending"
       \/ report = charge
       \/ report = "paid" /\ charge = "refunded"

\* One request at most is about to create the charge, and there is none yet;
\* whoever records a report about it holds one that is merely outdated. Under
\* the lock, the report is no older than the row.
ReportInv ==
    /\ \A r \in Requests :
         /\ pc[r] = "pay.claim" => attempt # "NONE"
         /\ pc[r] = "pay.create" => attempt = "SUBMITTED" /\ charge = "NONE"
         /\ pc[r] \in {"pay.record", "reconcile.save"} =>
              charge # "NONE" /\ Outdated(saw[r])
         /\ pc[r] = "reconcile.save" =>
              /\ linked
              /\ payment = "FALHOU" => saw[r] = "failed"
    /\ \A r, q \in Requests :
         pc[r] = "pay.create" /\ pc[q] = "pay.create" => r = q

\* A request about to cancel the order, and an order cancelled, have a payment
\* that nothing can bring back; expiration only looks at waiting orders.
CancelInv ==
    /\ order = "CANCELADO" => payment \in terminalStatuses \cup {"FALHOU"}
    /\ \A r \in Requests :
         /\ pc[r] = "cancel.order" => payment \in terminalStatuses
         /\ pc[r] = "expire.save" =>
              saw[r] \in {"AGUARDANDO_APROVACAO", "AGUARDANDO_PAGAMENTO"}

UnderWay == {"EM_DESLOCAMENTO", "EM_ANDAMENTO", "AGUARDANDO_CONFIRMACAO_CLIENTE"}

\* Scheduled and served orders are paid; a refund is asked for elsewhere.
ServiceInv ==
    /\ order = "AGENDADO" => payment = "PAGO"
    /\ order \in UnderWay \cup {"CONCLUIDO"} => payment \in {"PAGO", "REEMBOLSADO"}
    /\ refundRequested => linked /\ order \in {"AGUARDANDO_PAGAMENTO", "CANCELADO"}

\* One request at most is about to ask for the refund.
RefundInv ==
    /\ refundCalls <= 1
    /\ refundCalls = 1 => refundRequested
    /\ \A r \in Requests :
         /\ pc[r] = "cancel.claim" => linked
         /\ pc[r] = "cancel.refund" => refundRequested /\ refundCalls = 0
    /\ \A r, q \in Requests :
         pc[r] = "cancel.refund" /\ pc[q] = "cancel.refund" => r = q

\* The settlement exists once the order is concluded, agrees with the transfer,
\* and one request at most is about to send it.
SettlementInv ==
    /\ settlement # "NONE" <=> order = "CONCLUIDO"
    /\ order = "CONCLUIDO" => dispute # "OPEN"
    /\ transferCalls = IF transfer = "NONE" THEN 0 ELSE 1
    /\ transfer # "NONE" =>
         settlement \in {"SUBMITTING", "PENDING", "SUCCEEDED", "FAILED"}
    /\ settlement = "PENDING" => transfer # "NONE"
    /\ settlement = "SUCCEEDED" => transfer = "COMPLETE"
    /\ settlement = "FAILED" => transfer = "FAILED"
    /\ releases = IF settlement = "SUCCEEDED" THEN 1 ELSE 0
    /\ \A r \in Requests :
         /\ pc[r] = "settle.send" => settlement = "SUBMITTING" /\ transfer = "NONE"
         /\ pc[r] = "settle.record" =>
              transfer # "NONE" /\ saw[r] \in {"PENDING", transfer}
    /\ \A r, q \in Requests :
         pc[r] = "settle.send" /\ pc[q] = "settle.send" => r = q

\* The whole of it.
IInv ==
    /\ TypeOK
    /\ LockInv /\ ChargeInv /\ PaymentInv /\ ReportInv /\ CancelInv
    /\ ServiceInv /\ RefundInv /\ SettlementInv

=============================================================================
