---------------------------- MODULE PaymentState ----------------------------
(***************************************************************************)
(* Statuses of an order, of its payment and of its settlement, and the     *)
(* functions that translate what the payment gateway reports into them.    *)
(* Only the statuses an ABACATEPAY payment can take are listed: CAPTURED,  *)
(* RELEASED, CANCELED, REFUNDED, FAILED and AUTORIZADO belong to payments  *)
(* of the former gateway, which every handler refuses (assertProvider).    *)
(***************************************************************************)

OrderStatus == {"AGUARDANDO_APROVACAO", "AGUARDANDO_PAGAMENTO", "AGENDADO",
                "EM_DESLOCAMENTO", "EM_ANDAMENTO",
                "AGUARDANDO_CONFIRMACAO_CLIENTE", "CONCLUIDO", "CANCELADO"}

PaymentStatus == {"CREATED", "PENDENTE", "PAGO", "FALHOU", "CANCELADO",
                  "REEMBOLSADO"}

SettlementStatus == {"NONE", "READY", "SUBMITTING", "PENDING", "SUCCEEDED",
                     "FAILED", "BLOCKED"}

\* What the gateway says of a charge, once AbacatePayService has normalised it.
ChargeStatus == {"pending", "paid", "failed", "canceled", "refunded"}

TransferStatus == {"PENDING", "COMPLETE", "FAILED"}

paidStatuses == {"PAGO"}

terminalStatuses == {"CANCELADO", "REEMBOLSADO"}

\* Payments that leave no live charge behind when their order expires.
releasablePaymentStatuses == {"CREATED", "FALHOU"} \cup terminalStatuses

\* Fault: what the gateway said is stored as it came.
rawStatus(status) == status

gatewayPaymentStatus(status) ==
    CASE status = "pending"  -> "PENDENTE"
      [] status = "paid"     -> "PAGO"
      [] status = "failed"   -> "FALHOU"
      [] status = "canceled" -> "CANCELADO"
      [] status = "refunded" -> "REEMBOLSADO"

settlementStatus(transfer) ==
    CASE transfer = "COMPLETE" -> "SUCCEEDED"
      [] transfer = "PENDING"  -> "PENDING"
      [] transfer = "FAILED"   -> "FAILED"

\* A report that reconciliation drops: a terminal payment never comes back to
\* life, a paid one is never made pending or failed by a late report.
IgnoresReport(current, reported) ==
    \/ current \in terminalStatuses /\ reported \notin terminalStatuses
    \/ current \in paidStatuses /\ reported \in {"PENDENTE", "FALHOU"}
    \/ current = reported

\* Fault: a creation that may have reached the gateway is overlooked.
releasableByStatus(current, hasCharge, hasAttempt) ==
    current \in releasablePaymentStatuses

isPaymentReleasable(current, hasCharge, hasAttempt) ==
    /\ current \in releasablePaymentStatuses
    /\ current = "CREATED" => ~hasCharge /\ ~hasAttempt

=============================================================================
