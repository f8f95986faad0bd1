-------------------------- MODULE OrderSystemProofs --------------------------
(***************************************************************************)
(* The theorems about OrderSystem, for any set of requests in flight: its  *)
(* inductive invariant holds in every reachable state, the safety          *)
(* properties that the runs check follow from it, what a step may never do *)
(* follows as well, and its steps are those of the abstract lifecycle of   *)
(* an order.                                                               *)
(***************************************************************************)
EXTENDS OrderActionProofs

\* A fresh order, with nothing at the gateway and no request in flight,
\* satisfies the inductive invariant.
LEMMA InitEstablishesIInv ==
  ASSUME Init
  PROVE  IInv
  <1> USE NoRequestAssumption DEF Init, StoreInit
  <1>1. RowsTypeOK
    BY DEF RowsTypeOK, OrderStatus, PaymentStatus, SettlementStatus
  <1>2. GatewayTypeOK /\ CallsTypeOK
    BY DEF GatewayTypeOK, CallsTypeOK, ChargeStatus, TransferStatus
  <1>3. RequestsTypeOK
    BY DEF RequestsTypeOK, Steps, Callers, Readings
  <1>4. LockInv /\ ChargeInv /\ PaymentInv /\ CancelInv
    BY DEF LockInv, ChargeInv, PaymentInv, CancelInv
  <1>5. ReportInv /\ ServiceInv
    BY DEF ReportInv, ServiceInv, UnderWay
  <1>6. RefundInv /\ SettlementInv
    BY DEF RefundInv, SettlementInv
  <1> QED BY <1>1, <1>2, <1>3, <1>4, <1>5, <1>6 DEF IInv, TypeOK

\* Whichever handler, timer, user or gateway takes the next step, and whichever
\* request dies, the inductive invariant is preserved.
LEMMA NextKeepsIInv ==
  ASSUME IInv, Next
  PROVE  IInv'
  <1>1. CASE Accept \/ SetOut \/ StartService \/ OpenDispute \/ ResolveDispute
    BY <1>1, AcceptKeepsIInv, SetOutKeepsIInv, StartServiceKeepsIInv,
       OpenDisputeKeepsIInv, ResolveDisputeKeepsIInv
  <1>2. CASE GatewayNext
    BY <1>2, CustomerPaysKeepsIInv, ChargeLapsesKeepsIInv,
       RefundSettlesKeepsIInv, ChargebackKeepsIInv, ContestChargeKeepsIInv,
       TransferSettlesKeepsIInv DEF GatewayNext
  <1>3. ASSUME NEW r \in Requests, PaymentSteps(r) PROVE IInv'
    BY <1>3, PayAttemptKeepsIInv, PayClaimKeepsIInv, PayCreateKeepsIInv,
       PayFindKeepsIInv, PayRecordKeepsIInv, PollKeepsIInv,
       ReconcileFetchKeepsIInv, ReconcileSaveKeepsIInv, CancelOpenKeepsIInv,
       CancelClaimKeepsIInv, CancelRefundKeepsIInv DEF PaymentSteps
  <1>4. ASSUME NEW r \in Requests, OrderSteps(r) PROVE IInv'
    BY <1>4, FinishReadKeepsIInv, FinishSaveKeepsIInv, ConfirmReadKeepsIInv,
       ConfirmSaveKeepsIInv, CancelReadKeepsIInv, CancelOrderKeepsIInv,
       ExpireReadKeepsIInv, ExpireSaveKeepsIInv DEF OrderSteps
  <1>5. ASSUME NEW r \in Requests, SettlementSteps(r) PROVE IInv'
    BY <1>5, DrainKeepsIInv, SettleClaimKeepsIInv, SettleSendKeepsIInv,
       SettleFindKeepsIInv, SettleRecordKeepsIInv DEF SettlementSteps
  <1>6. ASSUME NEW r \in Requests, WebhookSteps(r) PROVE IInv'
    BY <1>6, ChargeHookKeepsIInv, HookBlockKeepsIInv, TransferHookKeepsIInv,
       HookAckKeepsIInv DEF WebhookSteps
  <1>7. ASSUME NEW r \in Requests, Crash(r) PROVE IInv'
    BY <1>7, CrashKeepsIInv
  <1> QED
    BY <1>1, <1>2, <1>3, <1>4, <1>5, <1>6, <1>7 DEF Next, RequestNext

\* A step that changes nothing keeps the inductive invariant.
LEMMA StutteringKeepsIInv ==
  ASSUME IInv, UNCHANGED vars
  PROVE  IInv'
  <1> USE DEF vars, IInv, TypeOK
  <1>1. TypeOK'
    BY DEF RowsTypeOK, GatewayTypeOK, RequestsTypeOK, CallsTypeOK
  <1>2. (LockInv /\ ChargeInv /\ PaymentInv /\ ReportInv)'
    BY DEF LockInv, ChargeInv, PaymentInv, ReportInv, Outdated
  <1>3. (CancelInv /\ ServiceInv /\ RefundInv /\ SettlementInv)'
    BY DEF CancelInv, ServiceInv, RefundInv, SettlementInv
  <1> QED BY <1>1, <1>2, <1>3

\* In every reachable state, what each request in flight relies on is true.
THEOREM IInvHolds == Spec => []IInv
  <1>1. Init => IInv
    BY InitEstablishesIInv
  <1>2. IInv /\ [Next]_vars => IInv'
    BY NextKeepsIInv, StutteringKeepsIInv
  <1> QED BY <1>1, <1>2, PTL DEF Spec

-----------------------------------------------------------------------------
(* The safety properties.                                                  *)

\* Every row holds values of its column, for any number of requests.
THEOREM TypeIsCorrect == Spec => []TypeOK
  <1>1. IInv => TypeOK
    BY DEF IInv
  <1> QED BY <1>1, IInvHolds, PTL

\* Any number of concurrent and repeated payment requests, crashing anywhere,
\* create at most one charge.
THEOREM ChargeIsUnique == Spec => []AtMostOneCharge
  <1>1. IInv => AtMostOneCharge
    BY DEF IInv, ChargeInv, AtMostOneCharge
  <1> QED BY <1>1, IInvHolds, PTL

\* Any number of concurrent and repeated cancellations ask for one refund.
THEOREM RefundIsUnique == Spec => []AtMostOneRefund
  <1>1. IInv => AtMostOneRefund
    BY DEF IInv, RefundInv, AtMostOneRefund
  <1> QED BY <1>1, IInvHolds, PTL

\* Any number of timers and webhook deliveries send the provider one transfer.
THEOREM PayoutIsUnique == Spec => []AtMostOnePayout
  <1>1. IInv => AtMostOnePayout
    BY DEF IInv, SettlementInv, AtMostOnePayout
  <1> QED BY <1>1, IInvHolds, PTL

\* No order is cancelled while its charge can be paid or is paid and kept: the
\* rows cancelled with it are final, and agree with the charge.
THEOREM CancelledOrderKeepsNoMoney == Spec => []NoMoneyOnCancelledOrder
  <1>1. IInv => NoMoneyOnCancelledOrder
    <2> SUFFICES ASSUME IInv, order = "CANCELADO"
                 PROVE  charge \notin {"pending", "paid"}
      BY DEF NoMoneyOnCancelledOrder
    <2>1. payment \in {"CANCELADO", "REEMBOLSADO", "FALHOU"}
      BY DEF IInv, CancelInv, terminalStatuses
    <2>2. CASE linked
      BY <2>1, <2>2 DEF IInv, PaymentInv
    <2>3. CASE ~linked
      <3>1. payment = "CANCELADO" /\ attempt = "NONE"
        BY <2>1, <2>3 DEF IInv, ChargeInv
      <3>2. charge = "NONE"
        BY <3>1 DEF IInv, ChargeInv
      <3> QED BY <3>2
    <2> QED BY <2>2, <2>3
  <1> QED BY <1>1, IInvHolds, PTL

\* The refund mark and the settlement exclude each other.
THEOREM MoneyGoesOneWay == Spec => []RefundOrPayout
  <1>1. IInv => RefundOrPayout
    BY DEF IInv, ServiceInv, SettlementInv, RefundOrPayout
  <1> QED BY <1>1, IInvHolds, PTL

\* A provider is sent out only to an order that has been paid.
THEOREM ServedOrderIsPaid == Spec => []ServiceIsPaid
  <1>1. IInv => ServiceIsPaid
    BY DEF IInv, ServiceInv, UnderWay, ServiceIsPaid
  <1> QED BY <1>1, IInvHolds, PTL

\* A transfer that left is on record, and its order is concluded.
THEOREM TransferIsRecorded == Spec => []PayoutIsRecorded
  <1>1. IInv => PayoutIsRecorded
    BY DEF IInv, SettlementInv, PayoutIsRecorded
  <1> QED BY <1>1, IInvHolds, PTL

\* A release is in the timeline once, for a completed transfer.
THEOREM TimelineTellsTheTruth == Spec => []ReleaseIsReal
  <1>1. IInv => ReleaseIsReal
    BY DEF IInv, SettlementInv, ReleaseIsReal
  <1> QED BY <1>1, IInvHolds, PTL

\* No order is concluded while a problem reported about it is open.
THEOREM DisputeStopsConclusion == Spec => []NoConclusionOverDispute
  <1>1. IInv => NoConclusionOverDispute
    BY DEF IInv, SettlementInv, NoConclusionOverDispute
  <1> QED BY <1>1, IInvHolds, PTL

-----------------------------------------------------------------------------
(* What a step may never do. Most steps leave alone the rows these         *)
(* theorems are about; the others are taken one by one.                    *)

\* The columns that say where the order and its money are.
moneyRows == <<order, payment, linked, refundRequested, settlement>>

\* The steps of a request that may write one of those columns.
MoneySteps(r) ==
    \/ PayRecord(r) \/ ReconcileSave(r) \/ CancelOpen(r) \/ CancelClaim(r)
    \/ FinishSave(r) \/ ConfirmSave(r) \/ CancelOrder(r) \/ ExpireSave(r)
    \/ SettleClaim(r) \/ SettleRecord(r)

\* Every step either leaves those columns alone, or is one of three commands
\* of the provider or of the handlers' steps listed above.
LEMMA StepsOnMoney ==
  ASSUME [Next]_vars
  PROVE  \/ UNCHANGED moneyRows
         \/ Accept \/ SetOut \/ StartService
         \/ \E r \in Requests : MoneySteps(r)
  <1> USE DEF moneyRows, orderRows, paymentRows, payout, othersUnchanged,
              restUnchanged, backendUnchanged
  <1>1. CASE UNCHANGED vars
    BY <1>1 DEF vars
  <1>2. CASE Accept \/ SetOut \/ StartService
    BY <1>2
  <1>3. CASE OpenDispute \/ ResolveDispute
    BY <1>3 DEF OpenDispute, ResolveDispute
  <1>4. CASE GatewayNext
    BY <1>4 DEF GatewayNext, CustomerPays, ChargeLapses, RefundSettles,
       Chargeback, Refunded, ContestCharge, TransferSettles
  <1>5. ASSUME NEW r \in Requests, PaymentSteps(r)
        PROVE  UNCHANGED moneyRows \/ MoneySteps(r)
    BY <1>5 DEF PaymentSteps, MoneySteps, PayAttempt, PayClaim, PayCreate,
       PayFind, Poll, ReconcileFetch, CancelRefund
  <1>6. ASSUME NEW r \in Requests, OrderSteps(r)
        PROVE  UNCHANGED moneyRows \/ MoneySteps(r)
    BY <1>6 DEF OrderSteps, MoneySteps, FinishRead, ConfirmRead, CancelRead,
       ExpireRead
  <1>7. ASSUME NEW r \in Requests, SettlementSteps(r)
        PROVE  UNCHANGED moneyRows \/ MoneySteps(r)
    BY <1>7 DEF SettlementSteps, MoneySteps, Drain, SettleSend, SettleFind
  <1>8. ASSUME NEW r \in Requests, WebhookSteps(r) \/ Crash(r)
        PROVE  UNCHANGED moneyRows
    BY <1>8 DEF WebhookSteps, ChargeHook, HookBlock, TransferHook, HookAck,
       Crash
  <1> QED
    BY <1>1, <1>2, <1>3, <1>4, <1>5, <1>6, <1>7, <1>8 DEF Next, RequestNext

-----------------------------------------------------------------------------
(* The payment and the settlement only advance.                            *)

\* Recording a reconciled report never makes a payment regress: what would is
\* dropped by IgnoresReport, or cannot be reported of the charge any more.
LEMMA ReconcileSaveAdvances ==
  ASSUME IInv, NEW r \in Requests, ReconcileSave(r)
  PROVE  PaymentAdvances
  <1> DEFINE reported == gatewayPaymentStatus(saw[r])
  <1>1. /\ linked /\ Outdated(saw[r])
        /\ payment = "FALHOU" => saw[r] = "failed"
    BY DEF IInv, ReportInv, ReconcileSave
  <1>2. CASE IgnoresReport(payment, reported)
    BY <1>2 DEF ReconcileSave, PaymentAdvances
  <1>3. CASE ~IgnoresReport(payment, reported)
    <2>1. payment' = reported /\ UNCHANGED linked
      BY <1>3 DEF ReconcileSave
    <2>2. payment = "PAGO" => reported = "REEMBOLSADO"
      BY <1>1, <1>3 DEF IInv, PaymentInv, IgnoresReport, Outdated,
         gatewayPaymentStatus, ChargeStatus, paidStatuses
    <2>3. payment \notin terminalStatuses
      BY <1>1, <1>3 DEF IInv, PaymentInv, IgnoresReport, Outdated,
         gatewayPaymentStatus, ChargeStatus, terminalStatuses
    <2>4. payment # "FALHOU"
      BY <1>1, <1>3 DEF IgnoresReport, gatewayPaymentStatus
    <2> QED BY <2>1, <2>2, <2>3, <2>4 DEF PaymentAdvances
  <1> QED BY <1>2, <1>3

\* Late reports never bring a payment back to life, for any number of requests.
THEOREM PaymentOnlyAdvances == Spec => PaymentNeverRegresses
  <1>1. ASSUME IInv, [Next]_vars
        PROVE  [PaymentAdvances]_vars
    <2>1. CASE UNCHANGED moneyRows
      BY <2>1 DEF moneyRows, PaymentAdvances
    <2>2. CASE Accept \/ SetOut \/ StartService
      BY <2>2 DEF Accept, SetOut, StartService, Transition, othersUnchanged,
         paymentRows, PaymentAdvances
    <2>3. ASSUME NEW r \in Requests, MoneySteps(r)
          PROVE  PaymentAdvances
      <3>1. CASE PayRecord(r)
        BY <3>1 DEF IInv, ChargeInv, PayRecord, notYetRecorded,
           PaymentAdvances, terminalStatuses
      <3>2. CASE ReconcileSave(r)
        BY <1>1, <3>2, ReconcileSaveAdvances
      <3>3. CASE CancelOpen(r)
        BY <3>3 DEF CancelOpen, PaymentAdvances, terminalStatuses
      <3>4. CASE CancelClaim(r) \/ FinishSave(r) \/ CancelOrder(r)
        BY <3>4 DEF CancelClaim, FinishSave, CancelOrder, othersUnchanged,
           paymentRows, PaymentAdvances
      <3>5. CASE ConfirmSave(r)
        BY <3>5 DEF ConfirmSave, confirmable, paidStatuses, PaymentAdvances,
           terminalStatuses
      <3>6. CASE ExpireSave(r)
        BY <3>6 DEF ExpireSave, PaymentAdvances, terminalStatuses
      <3>7. CASE SettleClaim(r) \/ SettleRecord(r)
        BY <3>7 DEF SettleClaim, SettleRecord, restUnchanged, paymentRows,
           PaymentAdvances
      <3> QED
        BY <2>3, <3>1, <3>2, <3>3, <3>4, <3>5, <3>6, <3>7 DEF MoneySteps
    <2> QED BY <1>1, <2>1, <2>2, <2>3, StepsOnMoney
  <1> QED BY <1>1, IInvHolds, PTL DEF Spec, PaymentNeverRegresses

\* Late answers never undo the result of a transfer, for any number of timers
\* and webhook deliveries.
THEOREM SettlementOnlyAdvances == Spec => SettlementNeverRegresses
  <1>1. ASSUME IInv, [Next]_vars
        PROVE  [SettlementAdvances]_vars
    <2>1. CASE UNCHANGED moneyRows
      BY <2>1 DEF moneyRows, SettlementAdvances
    <2>2. CASE Accept \/ SetOut \/ StartService
      BY <2>2 DEF Accept, SetOut, StartService, Transition, othersUnchanged,
         payout, SettlementAdvances
    <2>3. ASSUME NEW r \in Requests, MoneySteps(r)
          PROVE  SettlementAdvances
      <3>1. CASE \/ PayRecord(r) \/ ReconcileSave(r) \/ CancelOpen(r)
                 \/ CancelClaim(r) \/ FinishSave(r) \/ CancelOrder(r)
                 \/ ExpireSave(r)
        BY <3>1 DEF PayRecord, ReconcileSave, CancelOpen, CancelClaim,
           FinishSave, CancelOrder, ExpireSave, othersUnchanged, payout,
           SettlementAdvances
      <3>2. CASE ConfirmSave(r)
        BY <3>2 DEF ConfirmSave, SettlementAdvances, closedSettlements
      <3>3. CASE SettleClaim(r)
        BY <3>3 DEF SettleClaim, submittable, MarkSubmitting,
           SettlementAdvances, closedSettlements
      <3>4. CASE SettleRecord(r)
        <4>1. saw[r] \in {"PENDING", transfer}
          BY <1>1, <3>4 DEF IInv, SettlementInv, SettleRecord
        <4>2. saw[r] \in TransferStatus
          BY <1>1, <3>4, <4>1 DEF IInv, TypeOK, GatewayTypeOK, SettlementInv,
             SettleRecord, TransferStatus
        <4>3. settlement # "BLOCKED"
          BY <1>1, <3>4 DEF IInv, SettlementInv, SettleRecord
        <4>4. settlement = "FAILED" => saw[r] \in {"PENDING", "FAILED"}
          BY <1>1, <4>1 DEF IInv, SettlementInv
        <4> QED
          BY <3>4, <4>2, <4>3, <4>4 DEF SettleRecord, KeepsResult,
             settlementStatus, SettlementAdvances, closedSettlements,
             TransferStatus
      <3> QED BY <2>3, <3>1, <3>2, <3>3, <3>4 DEF MoneySteps
    <2> QED BY <1>1, <2>1, <2>2, <2>3, StepsOnMoney
  <1> QED BY <1>1, IInvHolds, PTL DEF Spec, SettlementNeverRegresses

-----------------------------------------------------------------------------
(* OrderSystem implements OrderLifecycle: each step on the rows of the     *)
(* order's money is a step of the lifecycle, or one it does not see.       *)

\* The columns the refinement mapping is computed from.
LEMMA QuietStepsAreUnseen ==
  ASSUME UNCHANGED moneyRows
  PROVE  UNCHANGED <<order, moneyClaim>>
  BY DEF moneyRows, moneyClaim

\* A fresh order maps to a fresh order, whose money nobody claims.
LEMMA InitIsLifecycleInit ==
  ASSUME Init
  PROVE  Lifecycle!LifecycleInit
  BY DEF Init, StoreInit, Lifecycle!LifecycleInit, moneyClaim, terminalStatuses

\* The provider's commands are the lifecycle's own: what is served is paid and
\* not to be refunded.
LEMMA ProviderStepsRefine ==
  ASSUME IInv, Accept \/ SetOut \/ StartService
  PROVE  Lifecycle!LifecycleNext
  <1> USE DEF othersUnchanged, paymentRows, payout
  <1>1. UNCHANGED moneyClaim
    BY DEF Accept, SetOut, StartService, Transition, moneyClaim
  <1>2. CASE Accept
    BY <1>1, <1>2 DEF Accept, Lifecycle!LifecycleNext,
       Lifecycle!ProviderAccepts
  <1>3. CASE SetOut \/ StartService
    <2>1. moneyClaim = "open"
      BY <1>3 DEF SetOut, StartService, Transition, IInv, ServiceInv,
         SettlementInv, UnderWay, moneyClaim, terminalStatuses
    <2> QED
      BY <1>1, <1>3, <2>1 DEF SetOut, StartService, Transition,
         Lifecycle!LifecycleNext, Lifecycle!Serve
  <1> QED BY <1>2, <1>3

\* Recording the gateway's first answer books a paid order or finds its money
\* lost.
LEMMA PayRecordRefines ==
  ASSUME IInv, NEW r \in Requests, PayRecord(r)
  PROVE  [Lifecycle!LifecycleNext]_<<order, moneyClaim>>
  <1> USE DEF payout
  <1>1. UNCHANGED <<settlement, refundRequested>>
    BY DEF PayRecord
  <1>2. CASE ~notYetRecorded
    BY <1>1, <1>2 DEF PayRecord, moneyClaim
  <1>3. CASE notYetRecorded
    <2>1. payment = "CREATED" /\ payment' = gatewayPaymentStatus(saw[r])
      BY <1>3 DEF PayRecord, notYetRecorded
    <2>2. saw[r] \in ChargeStatus
      BY DEF PayRecord, IInv, ReportInv, Outdated
    <2>3. settlement = "NONE" /\ order # "AGENDADO" /\ ~refundRequested
      BY <2>1 DEF PayRecord, IInv, ServiceInv, SettlementInv, ChargeInv,
         UnderWay
    <2>4. moneyClaim = "open"
      BY <2>1, <2>3 DEF moneyClaim, terminalStatuses
    <2>5. CASE saw[r] = "paid"
      <3>1. payment' = "PAGO"
        BY <2>1, <2>5 DEF gatewayPaymentStatus
      <3>2. moneyClaim' = "open"
        BY <1>1, <2>3, <3>1 DEF moneyClaim, terminalStatuses
      <3> QED
        BY <1>3, <2>4, <3>1, <3>2 DEF PayRecord, ScheduleIf, paidStatuses,
           Lifecycle!LifecycleNext, Lifecycle!Schedule
    <2>6. CASE saw[r] = "pending"
      <3>1. payment' = "PENDENTE"
        BY <2>1, <2>6 DEF gatewayPaymentStatus
      <3>2. moneyClaim' = "open" /\ UNCHANGED order
        BY <1>1, <1>3, <2>3, <3>1 DEF PayRecord, ScheduleIf, moneyClaim,
           paidStatuses, terminalStatuses
      <3> QED BY <2>4, <3>2
    <2>7. CASE saw[r] \notin {"paid", "pending"}
      <3>1. payment' \in {"FALHOU", "CANCELADO", "REEMBOLSADO"}
        BY <2>1, <2>2, <2>7 DEF gatewayPaymentStatus, ChargeStatus
      <3>2. moneyClaim' = "void" /\ UNCHANGED order
        BY <1>1, <1>3, <2>3, <3>1 DEF PayRecord, ScheduleIf, moneyClaim,
           paidStatuses, terminalStatuses
      <3> QED
        BY <2>3, <2>4, <3>2 DEF Lifecycle!LifecycleNext, Lifecycle!VoidClaim
    <2> QED BY <2>5, <2>6, <2>7
  <1> QED BY <1>2, <1>3

\* Reconciliation books a paid order or finds its money lost; what it finds of
\* a concluded order, or after a refund was asked for, the lifecycle ignores.
LEMMA ReconcileSaveRefines ==
  ASSUME IInv, NEW r \in Requests, ReconcileSave(r)
  PROVE  [Lifecycle!LifecycleNext]_<<order, moneyClaim>>
  <1> DEFINE reported == gatewayPaymentStatus(saw[r])
  <1>1. UNCHANGED <<settlement, refundRequested>>
    BY DEF ReconcileSave, payout
  <1>2. CASE IgnoresReport(payment, reported)
    BY <1>1, <1>2 DEF ReconcileSave, moneyClaim
  <1>3. CASE ~IgnoresReport(payment, reported)
    <2>1. payment' = reported
      BY <1>3 DEF ReconcileSave
    <2>2. /\ linked /\ Outdated(saw[r])
          /\ payment = "FALHOU" => saw[r] = "failed"
      BY DEF IInv, ReportInv, ReconcileSave
    <2>3. payment \in {"PENDENTE", "PAGO"}
      <3>1. payment \in PaymentStatus \ {"CREATED"}
        BY <2>2 DEF IInv, TypeOK, RowsTypeOK, ChargeInv
      <3>2. payment \notin terminalStatuses
        BY <1>3, <2>2 DEF IInv, PaymentInv, IgnoresReport, Outdated,
           gatewayPaymentStatus, ChargeStatus, terminalStatuses
      <3>3. payment # "FALHOU"
        BY <1>3, <2>2 DEF IgnoresReport, gatewayPaymentStatus
      <3> QED BY <3>1, <3>2, <3>3 DEF PaymentStatus, terminalStatuses
    <2>4. CASE reported \in {"FALHOU", "CANCELADO", "REEMBOLSADO"}
      <3>1. Unschedule
        BY <1>3, <2>4 DEF ReconcileSave, paidStatuses
      <3>2. CASE settlement # "NONE"
        <4>1. order = "CONCLUIDO"
          BY <3>2 DEF IInv, SettlementInv
        <4> QED BY <1>1, <3>1, <3>2, <4>1 DEF Unschedule, moneyClaim
      <3>3. CASE settlement = "NONE"
        <4>1. moneyClaim' = "void"
          BY <1>1, <2>1, <2>4, <3>3 DEF moneyClaim, terminalStatuses
        <4>2. CASE refundRequested
          <5>1. moneyClaim = "void"
            BY <3>3, <4>2 DEF moneyClaim
          <5>2. order # "AGENDADO"
            BY <4>2 DEF IInv, ServiceInv
          <5> QED BY <3>1, <4>1, <5>1, <5>2 DEF Unschedule
        <4>3. CASE ~refundRequested
          <5>1. moneyClaim = "open"
            BY <2>3, <3>3, <4>3 DEF moneyClaim, terminalStatuses
          <5> QED
            BY <3>1, <4>1, <5>1 DEF Unschedule, Lifecycle!LifecycleNext,
               Lifecycle!VoidClaim
        <4> QED BY <4>2, <4>3
      <3> QED BY <3>2, <3>3
    <2>5. CASE reported = "PAGO"
      <3>1. payment = "PENDENTE"
        BY <1>3, <2>3, <2>5 DEF IgnoresReport
      <3>2. settlement = "NONE" /\ order # "AGENDADO"
        BY <3>1 DEF IInv, ServiceInv, SettlementInv
      <3>3. UNCHANGED moneyClaim
        BY <1>1, <2>1, <2>5, <3>1 DEF moneyClaim, terminalStatuses
      <3>4. CASE ~refundRequested /\ ~settlementBlocked
        <4>1. ScheduleIf(TRUE)
          BY <1>3, <2>5, <3>4 DEF ReconcileSave, paidStatuses
        <4>2. moneyClaim = "open"
          BY <3>1, <3>2, <3>4 DEF moneyClaim, terminalStatuses
        <4> QED
          BY <3>3, <4>1, <4>2 DEF ScheduleIf, Lifecycle!LifecycleNext,
             Lifecycle!Schedule
      <3>5. CASE refundRequested \/ settlementBlocked
        <4>1. Unschedule
          BY <1>3, <3>5 DEF ReconcileSave
        <4> QED BY <3>2, <3>3, <4>1 DEF Unschedule
      <3> QED BY <3>4, <3>5
    <2>6. reported \in {"FALHOU", "CANCELADO", "REEMBOLSADO", "PAGO"}
      BY <1>3, <2>2, <2>3 DEF IgnoresReport, Outdated, gatewayPaymentStatus,
         ChargeStatus, paidStatuses
    <2> QED BY <2>4, <2>5, <2>6
  <1> QED BY <1>2, <1>3

\* A payment cancelled in the database alone was not owed to anybody.
LEMMA CancelOpenRefines ==
  ASSUME IInv, NEW r \in Requests, CancelOpen(r)
  PROVE  [Lifecycle!LifecycleNext]_<<order, moneyClaim>>
  <1>1. UNCHANGED <<order, settlement, refundRequested>>
    BY DEF CancelOpen, orderRows, payout
  <1>2. CASE UNCHANGED payment
    BY <1>1, <1>2 DEF moneyClaim
  <1>3. CASE payment = "CREATED" /\ ~linked /\ payment' = "CANCELADO"
    <2>1. settlement = "NONE" /\ order # "AGENDADO" /\ ~refundRequested
      BY <1>3 DEF IInv, ServiceInv, SettlementInv
    <2>2. moneyClaim = "open" /\ moneyClaim' = "void"
      BY <1>1, <1>3, <2>1 DEF moneyClaim, terminalStatuses
    <2> QED
      BY <1>1, <2>1, <2>2 DEF Lifecycle!LifecycleNext, Lifecycle!VoidClaim
  <1> QED BY <1>2, <1>3 DEF CancelOpen

\* The refund mark voids the claim and takes the order out of the schedule.
LEMMA CancelClaimRefines ==
  ASSUME IInv, NEW r \in Requests, CancelClaim(r)
  PROVE  [Lifecycle!LifecycleNext]_<<order, moneyClaim>>
  <1>1. UNCHANGED <<payment, settlement>>
    BY DEF CancelClaim, payout
  <1>2. CASE order \notin RefundableOrders
    BY <1>1, <1>2 DEF CancelClaim, moneyClaim
  <1>3. CASE order \in RefundableOrders
    <2>1. refundRequested' = TRUE /\ Unschedule
      BY <1>3 DEF CancelClaim
    <2>2. settlement = "NONE"
      BY <1>3 DEF IInv, SettlementInv, RefundableOrders
    <2>3. moneyClaim' = "void"
      BY <1>1, <2>1, <2>2 DEF moneyClaim
    <2>4. CASE moneyClaim = "open"
      BY <2>1, <2>3, <2>4 DEF Unschedule, Lifecycle!LifecycleNext,
         Lifecycle!VoidClaim
    <2>5. CASE moneyClaim = "void"
      <3>1. order # "AGENDADO"
        BY <2>2, <2>5 DEF IInv, ServiceInv, moneyClaim, terminalStatuses
      <3> QED BY <2>1, <2>3, <2>5, <3>1 DEF Unschedule
    <2> QED BY <2>2, <2>4, <2>5 DEF moneyClaim
  <1> QED BY <1>2, <1>3

\* The client's confirmation concludes the order and owes the provider at once.
LEMMA ConfirmSaveRefines ==
  ASSUME IInv, NEW r \in Requests, ConfirmSave(r)
  PROVE  [Lifecycle!LifecycleNext]_<<order, moneyClaim>>
  <1>1. UNCHANGED refundRequested
    BY DEF ConfirmSave
  <1>2. CASE ~confirmable
    BY <1>1, <1>2 DEF ConfirmSave, moneyClaim
  <1>3. CASE confirmable
    <2>1. /\ order = "AGUARDANDO_CONFIRMACAO_CLIENTE" /\ payment = "PAGO"
          /\ ~refundRequested
      BY <1>3 DEF confirmable, payoutAllowed, paidStatuses
    <2>2. settlement = "NONE"
      BY <2>1 DEF IInv, SettlementInv
    <2>3. moneyClaim = "open"
      BY <2>1, <2>2 DEF moneyClaim, terminalStatuses
    <2>4. order' = "CONCLUIDO" /\ settlement' = "READY"
      BY <1>3, <2>2 DEF ConfirmSave
    <2>5. moneyClaim' = "payout"
      BY <2>4 DEF moneyClaim
    <2> QED
      BY <2>1, <2>3, <2>4, <2>5 DEF Lifecycle!LifecycleNext,
         Lifecycle!Conclude
  <1> QED BY <1>2, <1>3

\* The provider finishes, whatever has become of the payment meanwhile.
LEMMA FinishSaveRefines ==
  ASSUME NEW r \in Requests, FinishSave(r)
  PROVE  [Lifecycle!LifecycleNext]_<<order, moneyClaim>>
  <1>1. UNCHANGED moneyClaim
    BY DEF FinishSave, othersUnchanged, paymentRows, payout, moneyClaim
  <1> QED
    BY <1>1 DEF FinishSave, Lifecycle!LifecycleNext,
       Lifecycle!ProviderFinishes

\* The order is cancelled only after its payment, which is final by then.
LEMMA CancelOrderRefines ==
  ASSUME IInv, NEW r \in Requests, CancelOrder(r)
  PROVE  [Lifecycle!LifecycleNext]_<<order, moneyClaim>>
  <1>1. UNCHANGED moneyClaim
    BY DEF CancelOrder, othersUnchanged, paymentRows, payout, moneyClaim
  <1>2. payment \in terminalStatuses
    BY DEF CancelOrder, IInv, CancelInv
  <1>3. CASE order \in CancellableByProvider
    <2>1. order # "AGENDADO" /\ settlement = "NONE"
      BY <1>2, <1>3 DEF IInv, ServiceInv, SettlementInv, terminalStatuses,
         CancellableByProvider
    <2>2. moneyClaim = "void"
      BY <1>2, <2>1 DEF moneyClaim
    <2>3. order' = "CANCELADO"
      BY <1>3 DEF CancelOrder
    <2> QED
      BY <1>1, <1>3, <2>1, <2>2, <2>3 DEF CancellableByProvider,
         Lifecycle!LifecycleNext, Lifecycle!CancelVoid
  <1>4. CASE order \notin CancellableByProvider
    BY <1>1, <1>4 DEF CancelOrder
  <1> QED BY <1>3, <1>4

\* Expiration cancels order and payment in one step, before any claim.
LEMMA ExpireSaveRefines ==
  ASSUME IInv, NEW r \in Requests, ExpireSave(r)
  PROVE  [Lifecycle!LifecycleNext]_<<order, moneyClaim>>
  <1> DEFINE expires == /\ isPaymentReleasable(payment, linked, attempt # "NONE")
                        /\ stillCandidate(r)
  <1>1. UNCHANGED <<settlement, refundRequested>>
    BY DEF ExpireSave, payout
  <1>2. CASE ~expires
    BY <1>1, <1>2 DEF ExpireSave, moneyClaim
  <1>3. CASE expires
    <2>1. order \in {"AGUARDANDO_APROVACAO", "AGUARDANDO_PAGAMENTO"}
      BY <1>3 DEF ExpireSave, IInv, CancelInv, stillCandidate
    <2>2. settlement = "NONE"
      BY <2>1 DEF IInv, SettlementInv
    <2>3. /\ order' = "CANCELADO"
          /\ payment' \in terminalStatuses \cup {"FALHOU"}
      BY <1>3 DEF ExpireSave, isPaymentReleasable, releasablePaymentStatuses,
         terminalStatuses
    <2>4. moneyClaim # "payout" /\ moneyClaim' = "void"
      BY <1>1, <2>2, <2>3 DEF moneyClaim
    <2> QED
      BY <2>1, <2>3, <2>4 DEF Lifecycle!LifecycleNext, Lifecycle!CancelVoid
  <1> QED BY <1>2, <1>3

\* What happens to a settlement, the lifecycle does not see.
LEMMA SettlementStepsAreUnseen ==
  ASSUME IInv, NEW r \in Requests, SettleClaim(r) \/ SettleRecord(r)
  PROVE  UNCHANGED <<order, moneyClaim>>
  <1>1. UNCHANGED <<order, payment, refundRequested>>
    BY DEF SettleClaim, SettleRecord, restUnchanged, orderRows, paymentRows
  <1>2. settlement' = "NONE" <=> settlement = "NONE"
    <2>1. CASE SettleClaim(r)
      BY <2>1 DEF SettleClaim, submittable, MarkSubmitting
    <2>2. CASE SettleRecord(r)
      <3>1. settlement # "NONE"
        BY <2>2 DEF SettleRecord, IInv, SettlementInv
      <3>2. saw[r] \in TransferStatus
        BY <2>2 DEF SettleRecord, IInv, TypeOK, GatewayTypeOK, SettlementInv,
           TransferStatus
      <3> QED
        BY <2>2, <3>1, <3>2 DEF SettleRecord, settlementStatus, TransferStatus
    <2> QED BY <2>1, <2>2
  <1> QED BY <1>1, <1>2 DEF moneyClaim

-----------------------------------------------------------------------------
\* The whole system, with any number of requests in flight, implements the
\* lifecycle: its orders take only the paths the lifecycle allows, and the
\* money of each goes to one side at most.
THEOREM SystemRefinesLifecycle == Spec => LifecycleRefined
  <1>1. Init => Lifecycle!LifecycleInit
    BY InitIsLifecycleInit
  <1>2. ASSUME IInv, [Next]_vars
        PROVE  [Lifecycle!LifecycleNext]_<<order, moneyClaim>>
    <2>1. CASE UNCHANGED moneyRows
      BY <2>1, QuietStepsAreUnseen
    <2>2. CASE Accept \/ SetOut \/ StartService
      BY <1>2, <2>2, ProviderStepsRefine
    <2>3. ASSUME NEW r \in Requests, MoneySteps(r)
          PROVE  [Lifecycle!LifecycleNext]_<<order, moneyClaim>>
      BY <1>2, <2>3, PayRecordRefines, ReconcileSaveRefines,
         CancelOpenRefines, CancelClaimRefines, FinishSaveRefines,
         ConfirmSaveRefines, CancelOrderRefines, ExpireSaveRefines,
         SettlementStepsAreUnseen DEF MoneySteps
    <2> QED BY <1>2, <2>1, <2>2, <2>3, StepsOnMoney
  <1> QED
    BY <1>1, <1>2, IInvHolds, PTL
    DEF Spec, LifecycleRefined, Lifecycle!LifecycleSpec, Lifecycle!lifecycle

=============================================================================
