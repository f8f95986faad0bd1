-------------------------- MODULE OrderActionProofs --------------------------
(***************************************************************************)
(* Every action of OrderSystem preserves its inductive invariant: one      *)
(* lemma per action; under it one step per part of the invariant that the  *)
(* action can disturb, and one for the parts it leaves alone.              *)
(***************************************************************************)
EXTENDS OrderInvariant, TLAPS

\* Names for groups of variables, and moving a request on, stand for their
\* definitions in every proof below.
USE NoRequestAssumption
    DEF orderRows, paymentRows, payout, gateway, requests, calls,
       othersUnchanged, restUnchanged, Goto, Finish

-----------------------------------------------------------------------------
(* Payments, and the death of a request.                                   *)

\* Storing the immutable request before any call to the gateway.
LEMMA PayAttemptKeepsIInv ==
  ASSUME IInv, NEW r \in Requests, PayAttempt(r)
  PROVE  IInv'
  <1> USE DEF IInv, TypeOK
  <1>1. RowsTypeOK'
    BY DEF RowsTypeOK, PayAttempt
  <1>2. RequestsTypeOK'
    BY DEF RequestsTypeOK, PayAttempt, Steps, Callers, Readings
  <1>3. LockInv'
    BY DEF LockInv, PayAttempt, Idle
  <1>4. ChargeInv'
    BY DEF ChargeInv, PayAttempt
  <1>5. ReportInv'
    BY DEF ReportInv, PayAttempt, Idle, Outdated
  <1>6. CancelInv'
    BY DEF CancelInv, PayAttempt, Idle
  <1>7. RefundInv'
    BY DEF RefundInv, PayAttempt
  <1>8. SettlementInv'
    BY DEF SettlementInv, PayAttempt, Idle
  <1>9. (GatewayTypeOK /\ CallsTypeOK /\ PaymentInv /\ ServiceInv)'
    BY DEF GatewayTypeOK, CallsTypeOK, PaymentInv, ServiceInv, PayAttempt
  <1> QED BY <1>1, <1>2, <1>3, <1>4, <1>5, <1>6, <1>7, <1>8, <1>9

\* The conditional update that lets one request, ever, create the charge.
LEMMA PayClaimKeepsIInv ==
  ASSUME IInv, NEW r \in Requests, PayClaim(r)
  PROVE  IInv'
  <1> USE DEF IInv, TypeOK
  <1>1. RowsTypeOK'
    BY DEF RowsTypeOK, PayClaim
  <1>2. RequestsTypeOK'
    BY DEF RequestsTypeOK, PayClaim, Steps, Callers, Readings
  <1>3. LockInv'
    BY DEF LockInv, PayClaim
  <1>4. ChargeInv'
    BY DEF ChargeInv, ReportInv, PayClaim
  <1>5. ReportInv'
    BY DEF ReportInv, ChargeInv, PayClaim, claimWon, Outdated
  <1>6. CancelInv'
    BY DEF CancelInv, PayClaim
  <1>7. RefundInv'
    BY DEF RefundInv, PayClaim
  <1>8. SettlementInv'
    BY DEF SettlementInv, PayClaim
  <1>9. (GatewayTypeOK /\ CallsTypeOK /\ PaymentInv /\ ServiceInv)'
    BY DEF GatewayTypeOK, CallsTypeOK, PaymentInv, ServiceInv, PayClaim
  <1> QED BY <1>1, <1>2, <1>3, <1>4, <1>5, <1>6, <1>7, <1>8, <1>9

\* The call that creates the charge: its maker was the only one.
LEMMA PayCreateKeepsIInv ==
  ASSUME IInv, NEW r \in Requests, PayCreate(r)
  PROVE  IInv'
  <1> USE DEF IInv, TypeOK
  <1>1. GatewayTypeOK'
    BY DEF GatewayTypeOK, PayCreate, ChargeStatus
  <1>2. RequestsTypeOK'
    BY DEF RequestsTypeOK, PayCreate, Steps, Callers, Readings, ChargeStatus
  <1>3. CallsTypeOK'
    BY DEF CallsTypeOK, PayCreate
  <1>4. LockInv'
    BY DEF LockInv, PayCreate
  <1>5. ChargeInv'
    BY DEF ChargeInv, ReportInv, PayCreate
  <1>6. PaymentInv'
    BY DEF PaymentInv, ReportInv, PayCreate
  <1>7. ReportInv'
    BY DEF ReportInv, RequestsTypeOK, PayCreate, Outdated, ChargeStatus
  <1>8. CancelInv'
    BY DEF CancelInv, PayCreate
  <1>9. RefundInv'
    BY DEF RefundInv, PayCreate
  <1>10. SettlementInv'
    BY DEF SettlementInv, PayCreate
  <1>11. (RowsTypeOK /\ ServiceInv)'
    BY DEF RowsTypeOK, ServiceInv, PayCreate
  <1> QED BY <1>1, <1>2, <1>3, <1>4, <1>5, <1>6, <1>7, <1>8, <1>9, <1>10, <1>11

\* Looking up the charge of an earlier, unrecorded attempt.
LEMMA PayFindKeepsIInv ==
  ASSUME IInv, NEW r \in Requests, PayFind(r)
  PROVE  IInv'
  <1> USE DEF IInv, TypeOK
  <1>1. RequestsTypeOK'
    BY DEF RequestsTypeOK, GatewayTypeOK, PayFind, Steps, Callers, Readings
  <1>2. LockInv'
    BY DEF LockInv, RequestsTypeOK, PayFind
  <1>3. ReportInv'
    BY DEF ReportInv, RequestsTypeOK, GatewayTypeOK, PayFind, Outdated
  <1>4. CancelInv'
    BY DEF CancelInv, RequestsTypeOK, PayFind
  <1>5. RefundInv'
    BY DEF RefundInv, RequestsTypeOK, PayFind
  <1>6. SettlementInv'
    BY DEF SettlementInv, RequestsTypeOK, PayFind
  <1>7. (RowsTypeOK /\ GatewayTypeOK /\ CallsTypeOK /\ ChargeInv /\ PaymentInv
         /\ ServiceInv)'
    BY DEF RowsTypeOK, GatewayTypeOK, CallsTypeOK, ChargeInv, PaymentInv,
       ServiceInv, PayFind
  <1> QED BY <1>1, <1>2, <1>3, <1>4, <1>5, <1>6, <1>7

\* Recording an answer that may be out of date by now.
LEMMA PayRecordKeepsIInv ==
  ASSUME IInv, NEW r \in Requests, PayRecord(r)
  PROVE  IInv'
  <1> USE DEF IInv, TypeOK
  <1>1. RowsTypeOK'
    <2>1. payment' \in PaymentStatus /\ linked' \in BOOLEAN
      <3>1. CASE notYetRecorded
        <4>1. saw[r] \in ChargeStatus
          BY DEF ReportInv, PayRecord, Outdated
        <4>2. payment' = gatewayPaymentStatus(saw[r]) /\ linked' = TRUE
          BY <3>1 DEF PayRecord
        <4> QED
          BY <4>1, <4>2 DEF gatewayPaymentStatus, PaymentStatus, ChargeStatus
      <3>2. CASE ~notYetRecorded
        BY <3>2 DEF RowsTypeOK, PayRecord
      <3> QED BY <3>1, <3>2
    <2>2. order' \in OrderStatus
      BY DEF RowsTypeOK, PayRecord, ScheduleIf, OrderStatus
    <2>3. UNCHANGED <<dispute, attempt, refundRequested, settlementBlocked,
                      settlement, lock>>
      BY DEF PayRecord
    <2> QED BY <2>1, <2>2, <2>3 DEF RowsTypeOK
  <1>2. RequestsTypeOK'
    BY DEF RequestsTypeOK, PayRecord, Steps, Callers, Readings
  <1>3. LockInv'
    BY DEF LockInv, PayRecord
  <1>4. ChargeInv'
    BY DEF ChargeInv, ReportInv, PayRecord, gatewayPaymentStatus, Outdated,
       ChargeStatus
  <1>5. PaymentInv'
    BY DEF PaymentInv, ReportInv, PayRecord, gatewayPaymentStatus, Outdated,
       ChargeStatus
  <1>6. ReportInv'
    BY DEF ReportInv, RequestsTypeOK, LockInv, PayRecord, Free, Outdated
  <1>7. CancelInv'
    BY DEF CancelInv, PayRecord, ScheduleIf, notYetRecorded, terminalStatuses
  <1>8. ServiceInv'
    BY DEF ServiceInv, ChargeInv, PayRecord, ScheduleIf, paidStatuses,
       notYetRecorded
  <1>9. RefundInv'
    BY DEF RefundInv, PayRecord
  <1>10. SettlementInv'
    BY DEF SettlementInv, PayRecord, ScheduleIf
  <1>11. (GatewayTypeOK /\ CallsTypeOK)'
    BY DEF GatewayTypeOK, CallsTypeOK, PayRecord
  <1> QED BY <1>1, <1>2, <1>3, <1>4, <1>5, <1>6, <1>7, <1>8, <1>9, <1>10, <1>11

\* A client's poll only enters the reconciliation.
LEMMA PollKeepsIInv ==
  ASSUME IInv, NEW r \in Requests, Poll(r)
  PROVE  IInv'
  <1> USE DEF IInv, TypeOK
  <1>1. RequestsTypeOK'
    BY DEF RequestsTypeOK, Poll, Steps, Callers, Readings
  <1>2. LockInv'
    BY DEF LockInv, Poll, Idle
  <1>3. ReportInv'
    BY DEF ReportInv, Poll, Idle, Outdated
  <1>4. CancelInv'
    BY DEF CancelInv, Poll, Idle
  <1>5. RefundInv'
    BY DEF RefundInv, Poll
  <1>6. SettlementInv'
    BY DEF SettlementInv, Poll, Idle
  <1>7. (RowsTypeOK /\ GatewayTypeOK /\ CallsTypeOK /\ ChargeInv /\ PaymentInv
         /\ ServiceInv)'
    BY DEF RowsTypeOK, GatewayTypeOK, CallsTypeOK, ChargeInv, PaymentInv,
       ServiceInv, Poll
  <1> QED BY <1>1, <1>2, <1>3, <1>4, <1>5, <1>6, <1>7

\* First half of the reconciliation: the lock, the row and the gateway's word.
\* Where the payment has no charge, its own status decides where the caller goes.
LEMMA ReconcileFetchKeepsIInv ==
  ASSUME IInv, NEW r \in Requests, ReconcileFetch(r)
  PROVE  IInv'
  <1> USE DEF IInv, TypeOK
  <1>1. RowsTypeOK'
    BY DEF RowsTypeOK, ReconcileFetch, HoldLock
  <1>2. RequestsTypeOK'
    BY DEF RequestsTypeOK, GatewayTypeOK, ReconcileFetch, Resume, Resumption,
       Steps, Callers, Readings
  <1>3. LockInv'
    BY DEF LockInv, RequestsTypeOK, ReconcileFetch, Resume, Resumption, Free,
       HoldLock
  <1>4. ReportInv'
    BY DEF ReportInv, GatewayTypeOK, RequestsTypeOK, ChargeInv, PaymentInv,
       ReconcileFetch, Resume, Resumption, Outdated
  <1>5. CancelInv'
    BY DEF CancelInv, RequestsTypeOK, ReconcileFetch, Resume, Resumption,
       terminalStatuses
  <1>6. RefundInv'
    BY DEF RefundInv, RequestsTypeOK, ChargeInv, ReconcileFetch, Resume,
       Resumption, paidStatuses
  <1>7. SettlementInv'
    BY DEF SettlementInv, RequestsTypeOK, ReconcileFetch, Resume, Resumption
  <1>8. (GatewayTypeOK /\ CallsTypeOK /\ ChargeInv /\ PaymentInv /\
         ServiceInv)'
    BY DEF GatewayTypeOK, CallsTypeOK, ChargeInv, PaymentInv, ServiceInv,
       ReconcileFetch
  <1> QED BY <1>1, <1>2, <1>3, <1>4, <1>5, <1>6, <1>7, <1>8

\* Second half of the reconciliation, under the lock: the report is at worst a
\* pending or paid charge's, and IgnoresReport drops what would undo the row.
LEMMA ReconcileSaveKeepsIInv ==
  ASSUME IInv, NEW r \in Requests, ReconcileSave(r)
  PROVE  IInv'
  <1> USE DEF IInv, TypeOK
  <1>1. RowsTypeOK'
    BY DEF RowsTypeOK, ReportInv, ReconcileSave, ScheduleIf, Unschedule,
       gatewayPaymentStatus, OrderStatus, PaymentStatus, Outdated, ChargeStatus
  <1>2. RequestsTypeOK'
    BY DEF RequestsTypeOK, ReconcileSave, Resume, Resumption, ScheduleIf,
       Steps, Callers, Readings
  <1>3. LockInv'
    BY DEF LockInv, RequestsTypeOK, ReconcileSave, Resume, Resumption,
       ScheduleIf
  <1>4. ChargeInv'
    BY DEF ChargeInv, ReportInv, ReconcileSave, ScheduleIf,
       gatewayPaymentStatus, Outdated, ChargeStatus
  <1>5. PaymentInv'
    BY DEF PaymentInv, ReportInv, ReconcileSave, ScheduleIf,
       gatewayPaymentStatus, Outdated, ChargeStatus
  <1>6. ReportInv'
    BY DEF ReportInv, RequestsTypeOK, LockInv, ReconcileSave, Resume,
       Resumption, ScheduleIf, Outdated
  <1>7. CancelInv'
    BY DEF CancelInv, RequestsTypeOK, ReportInv, ReconcileSave, Resume,
       Resumption, IgnoresReport, ScheduleIf, Unschedule, gatewayPaymentStatus,
       terminalStatuses, Outdated, ChargeStatus
  <1>8. ServiceInv'
    BY DEF ServiceInv, PaymentInv, ReportInv, ReconcileSave, IgnoresReport,
       ScheduleIf, Unschedule, gatewayPaymentStatus, paidStatuses,
       terminalStatuses, Outdated, ChargeStatus
  <1>9. RefundInv'
    BY DEF RefundInv, RequestsTypeOK, ReportInv, ReconcileSave, Resume,
       Resumption, ScheduleIf
  <1>10. SettlementInv'
    BY DEF SettlementInv, RequestsTypeOK, ReconcileSave, Resume, Resumption,
       ScheduleIf, Unschedule
  <1>11. (GatewayTypeOK /\ CallsTypeOK)'
    BY DEF GatewayTypeOK, CallsTypeOK, ReconcileSave
  <1> QED BY <1>1, <1>2, <1>3, <1>4, <1>5, <1>6, <1>7, <1>8, <1>9, <1>10, <1>11

\* First transaction of cancelPayment: only a payment no creation can still
\* reach is cancelled in the database alone.
LEMMA CancelOpenKeepsIInv ==
  ASSUME IInv, NEW r \in Requests, CancelOpen(r)
  PROVE  IInv'
  <1> USE DEF IInv, TypeOK
  <1>1. RowsTypeOK'
    BY DEF RowsTypeOK, CancelOpen, PaymentStatus
  <1>2. RequestsTypeOK'
    BY DEF RequestsTypeOK, CancelOpen, Steps, Callers, Readings
  <1>3. LockInv'
    BY DEF LockInv, RequestsTypeOK, CancelOpen
  <1>4. ChargeInv'
    BY DEF ChargeInv, CancelOpen
  <1>5. PaymentInv'
    BY DEF PaymentInv, CancelOpen
  <1>6. ReportInv'
    BY DEF ReportInv, RequestsTypeOK, CancelOpen, Outdated
  <1>7. CancelInv'
    BY DEF CancelInv, RequestsTypeOK, CancelOpen, terminalStatuses
  <1>8. ServiceInv'
    BY DEF ServiceInv, CancelOpen
  <1>9. RefundInv'
    BY DEF RefundInv, RequestsTypeOK, CancelOpen
  <1>10. SettlementInv'
    BY DEF SettlementInv, RequestsTypeOK, CancelOpen
  <1>11. (GatewayTypeOK /\ CallsTypeOK)'
    BY DEF GatewayTypeOK, CallsTypeOK, CancelOpen
  <1> QED BY <1>1, <1>2, <1>3, <1>4, <1>5, <1>6, <1>7, <1>8, <1>9, <1>10, <1>11

\* The durable refund mark: one request, ever, goes on to ask for the refund.
LEMMA CancelClaimKeepsIInv ==
  ASSUME IInv, NEW r \in Requests, CancelClaim(r)
  PROVE  IInv'
  <1> USE DEF IInv, TypeOK
  <1>1. RowsTypeOK'
    BY DEF RowsTypeOK, CancelClaim, Unschedule, OrderStatus
  <1>2. RequestsTypeOK'
    BY DEF RequestsTypeOK, CancelClaim, Steps, Callers, Readings
  <1>3. LockInv'
    BY DEF LockInv, RequestsTypeOK, CancelClaim
  <1>4. ReportInv'
    BY DEF ReportInv, RequestsTypeOK, CancelClaim, Outdated
  <1>5. CancelInv'
    BY DEF CancelInv, RequestsTypeOK, CancelClaim, Unschedule
  <1>6. ServiceInv'
    BY DEF ServiceInv, RefundInv, CancelClaim, RefundableOrders, Unschedule
  <1>7. RefundInv'
    BY DEF RefundInv, RequestsTypeOK, CallsTypeOK, CancelClaim, refundClaimWon
  <1>8. SettlementInv'
    BY DEF SettlementInv, RequestsTypeOK, CancelClaim, Unschedule
  <1>9. (GatewayTypeOK /\ CallsTypeOK /\ ChargeInv /\ PaymentInv)'
    BY DEF GatewayTypeOK, CallsTypeOK, ChargeInv, PaymentInv, CancelClaim
  <1> QED BY <1>1, <1>2, <1>3, <1>4, <1>5, <1>6, <1>7, <1>8, <1>9

\* The call that asks for the refund: its maker was the only one.
LEMMA CancelRefundKeepsIInv ==
  ASSUME IInv, NEW r \in Requests, CancelRefund(r)
  PROVE  IInv'
  <1> USE DEF IInv, TypeOK
  <1>1. RequestsTypeOK'
    BY DEF RequestsTypeOK, CancelRefund, Steps, Callers, Readings
  <1>2. CallsTypeOK'
    BY DEF CallsTypeOK, CancelRefund
  <1>3. LockInv'
    BY DEF LockInv, CancelRefund
  <1>4. ReportInv'
    BY DEF ReportInv, CancelRefund, Outdated
  <1>5. CancelInv'
    BY DEF CancelInv, CancelRefund
  <1>6. RefundInv'
    BY DEF RefundInv, RequestsTypeOK, CancelRefund
  <1>7. SettlementInv'
    BY DEF SettlementInv, CancelRefund
  <1>8. (RowsTypeOK /\ GatewayTypeOK /\ ChargeInv /\ PaymentInv /\ ServiceInv)'
    BY DEF RowsTypeOK, GatewayTypeOK, ChargeInv, PaymentInv, ServiceInv,
       CancelRefund
  <1> QED BY <1>1, <1>2, <1>3, <1>4, <1>5, <1>6, <1>7, <1>8

\* A request dies: its transaction is undone and its lock is free again.
LEMMA CrashKeepsIInv ==
  ASSUME IInv, NEW r \in Requests, Crash(r)
  PROVE  IInv'
  <1> USE DEF IInv, TypeOK
  <1>1. RowsTypeOK'
    BY DEF RowsTypeOK, Crash
  <1>2. RequestsTypeOK'
    BY DEF RequestsTypeOK, Crash, Steps, Callers, Readings
  <1>3. LockInv'
    BY DEF LockInv, RequestsTypeOK, Crash
  <1>4. ReportInv'
    BY DEF ReportInv, RequestsTypeOK, Crash, Outdated
  <1>5. CancelInv'
    BY DEF CancelInv, RequestsTypeOK, Crash
  <1>6. RefundInv'
    BY DEF RefundInv, Crash
  <1>7. SettlementInv'
    BY DEF SettlementInv, RequestsTypeOK, Crash
  <1>8. (GatewayTypeOK /\ CallsTypeOK /\ ChargeInv /\ PaymentInv /\
         ServiceInv)'
    BY DEF GatewayTypeOK, CallsTypeOK, ChargeInv, PaymentInv, ServiceInv, Crash
  <1> QED BY <1>1, <1>2, <1>3, <1>4, <1>5, <1>6, <1>7, <1>8

-----------------------------------------------------------------------------
(* The commands on an order, problem reports, expiration.                  *)

\* The provider accepts the order.
LEMMA AcceptKeepsIInv ==
  ASSUME IInv, Accept
  PROVE  IInv'
  <1> USE DEF IInv, TypeOK
  <1>1. RowsTypeOK'
    BY DEF RowsTypeOK, Accept, OrderStatus
  <1>2. CancelInv'
    BY DEF CancelInv, Accept
  <1>3. ServiceInv'
    BY DEF ServiceInv, Accept, UnderWay
  <1>4. SettlementInv'
    BY DEF SettlementInv, Accept
  <1>5. (GatewayTypeOK /\ RequestsTypeOK /\ CallsTypeOK /\ LockInv /\ ChargeInv
         /\ PaymentInv /\ ReportInv /\ RefundInv)'
    BY DEF GatewayTypeOK, RequestsTypeOK, CallsTypeOK, LockInv, ChargeInv,
       PaymentInv, ReportInv, RefundInv, Accept, Outdated
  <1> QED BY <1>1, <1>2, <1>3, <1>4, <1>5

\* The provider sets out to a paid order.
LEMMA SetOutKeepsIInv ==
  ASSUME IInv, SetOut
  PROVE  IInv'
  <1> USE DEF IInv, TypeOK
  <1>1. RowsTypeOK'
    BY DEF RowsTypeOK, SetOut, Transition, OrderStatus
  <1>2. CancelInv'
    BY DEF CancelInv, SetOut, Transition
  <1>3. ServiceInv'
    BY DEF ServiceInv, SetOut, Transition
  <1>4. SettlementInv'
    BY DEF SettlementInv, SetOut, Transition
  <1>5. (GatewayTypeOK /\ RequestsTypeOK /\ CallsTypeOK /\ LockInv /\ ChargeInv
         /\ PaymentInv /\ ReportInv /\ RefundInv)'
    BY DEF GatewayTypeOK, RequestsTypeOK, CallsTypeOK, LockInv, ChargeInv,
       PaymentInv, ReportInv, RefundInv, SetOut, Transition, Outdated
  <1> QED BY <1>1, <1>2, <1>3, <1>4, <1>5

\* The provider starts the service of a paid order.
LEMMA StartServiceKeepsIInv ==
  ASSUME IInv, StartService
  PROVE  IInv'
  <1> USE DEF IInv, TypeOK
  <1>1. RowsTypeOK'
    BY DEF RowsTypeOK, StartService, Transition, OrderStatus
  <1>2. CancelInv'
    BY DEF CancelInv, StartService, Transition
  <1>3. ServiceInv'
    BY DEF ServiceInv, StartService, Transition
  <1>4. SettlementInv'
    BY DEF SettlementInv, StartService, Transition
  <1>5. (GatewayTypeOK /\ RequestsTypeOK /\ CallsTypeOK /\ LockInv /\ ChargeInv
         /\ PaymentInv /\ ReportInv /\ RefundInv)'
    BY DEF GatewayTypeOK, RequestsTypeOK, CallsTypeOK, LockInv, ChargeInv,
       PaymentInv, ReportInv, RefundInv, StartService, Transition, Outdated
  <1> QED BY <1>1, <1>2, <1>3, <1>4, <1>5

\* The early read of FinishOrder relies on nothing later.
LEMMA FinishReadKeepsIInv ==
  ASSUME IInv, NEW r \in Requests, FinishRead(r)
  PROVE  IInv'
  <1> USE DEF IInv, TypeOK
  <1>1. RequestsTypeOK'
    BY DEF RequestsTypeOK, FinishRead, Steps, Callers, Readings
  <1>2. LockInv'
    BY DEF LockInv, FinishRead, Idle
  <1>3. ReportInv'
    BY DEF ReportInv, FinishRead, Idle, Outdated
  <1>4. CancelInv'
    BY DEF CancelInv, FinishRead, Idle
  <1>5. RefundInv'
    BY DEF RefundInv, FinishRead
  <1>6. SettlementInv'
    BY DEF SettlementInv, FinishRead
  <1>7. (RowsTypeOK /\ GatewayTypeOK /\ CallsTypeOK /\ ChargeInv /\ PaymentInv
         /\ ServiceInv)'
    BY DEF RowsTypeOK, GatewayTypeOK, CallsTypeOK, ChargeInv, PaymentInv,
       ServiceInv, FinishRead
  <1> QED BY <1>1, <1>2, <1>3, <1>4, <1>5, <1>6, <1>7

\* The conditional update of FinishOrder.
LEMMA FinishSaveKeepsIInv ==
  ASSUME IInv, NEW r \in Requests, FinishSave(r)
  PROVE  IInv'
  <1> USE DEF IInv, TypeOK
  <1>1. RowsTypeOK'
    BY DEF RowsTypeOK, FinishSave, OrderStatus
  <1>2. RequestsTypeOK'
    BY DEF RequestsTypeOK, FinishSave, Steps, Callers, Readings
  <1>3. LockInv'
    BY DEF LockInv, FinishSave
  <1>4. ReportInv'
    BY DEF ReportInv, FinishSave, Outdated
  <1>5. CancelInv'
    BY DEF CancelInv, FinishSave
  <1>6. ServiceInv'
    BY DEF ServiceInv, FinishSave, UnderWay
  <1>7. RefundInv'
    BY DEF RefundInv, FinishSave
  <1>8. SettlementInv'
    BY DEF SettlementInv, FinishSave
  <1>9. (GatewayTypeOK /\ CallsTypeOK /\ ChargeInv /\ PaymentInv)'
    BY DEF GatewayTypeOK, CallsTypeOK, ChargeInv, PaymentInv, FinishSave
  <1> QED BY <1>1, <1>2, <1>3, <1>4, <1>5, <1>6, <1>7, <1>8, <1>9

\* The client's confirmation starts with a reconciliation.
LEMMA ConfirmReadKeepsIInv ==
  ASSUME IInv, NEW r \in Requests, ConfirmRead(r)
  PROVE  IInv'
  <1> USE DEF IInv, TypeOK
  <1>1. RequestsTypeOK'
    BY DEF RequestsTypeOK, ConfirmRead, Steps, Callers, Readings
  <1>2. LockInv'
    BY DEF LockInv, ConfirmRead, Idle
  <1>3. ReportInv'
    BY DEF ReportInv, ConfirmRead, Idle, Outdated
  <1>4. CancelInv'
    BY DEF CancelInv, ConfirmRead, Idle
  <1>5. RefundInv'
    BY DEF RefundInv, ConfirmRead
  <1>6. SettlementInv'
    BY DEF SettlementInv, ConfirmRead
  <1>7. (RowsTypeOK /\ GatewayTypeOK /\ CallsTypeOK /\ ChargeInv /\ PaymentInv
         /\ ServiceInv)'
    BY DEF RowsTypeOK, GatewayTypeOK, CallsTypeOK, ChargeInv, PaymentInv,
       ServiceInv, ConfirmRead
  <1> QED BY <1>1, <1>2, <1>3, <1>4, <1>5, <1>6, <1>7

\* The transaction that concludes the order and queues the settlement.
LEMMA ConfirmSaveKeepsIInv ==
  ASSUME IInv, NEW r \in Requests, ConfirmSave(r)
  PROVE  IInv'
  <1> USE DEF IInv, TypeOK
  <1>1. RowsTypeOK'
    BY DEF RowsTypeOK, ConfirmSave, paidStatuses, confirmable, OrderStatus,
       SettlementStatus
  <1>2. RequestsTypeOK'
    BY DEF RequestsTypeOK, ConfirmSave, Steps, Callers, Readings
  <1>3. LockInv'
    BY DEF LockInv, ConfirmSave
  <1>4. ChargeInv'
    BY DEF ChargeInv, ConfirmSave, paidStatuses, confirmable
  <1>5. PaymentInv'
    BY DEF PaymentInv, ConfirmSave, paidStatuses, confirmable
  <1>6. ReportInv'
    BY DEF ReportInv, ConfirmSave, Outdated
  <1>7. CancelInv'
    BY DEF CancelInv, ConfirmSave, paidStatuses, confirmable
  <1>8. ServiceInv'
    BY DEF ServiceInv, ConfirmSave, confirmable
  <1>9. RefundInv'
    BY DEF RefundInv, ConfirmSave
  <1>10. SettlementInv'
    BY DEF SettlementInv, ConfirmSave, confirmable
  <1>11. (GatewayTypeOK /\ CallsTypeOK)'
    BY DEF GatewayTypeOK, CallsTypeOK, ConfirmSave
  <1> QED BY <1>1, <1>2, <1>3, <1>4, <1>5, <1>6, <1>7, <1>8, <1>9, <1>10, <1>11

\* The early read of CancelOrderByProvider.
LEMMA CancelReadKeepsIInv ==
  ASSUME IInv, NEW r \in Requests, CancelRead(r)
  PROVE  IInv'
  <1> USE DEF IInv, TypeOK
  <1>1. RequestsTypeOK'
    BY DEF RequestsTypeOK, CancelRead, Steps, Callers, Readings
  <1>2. LockInv'
    BY DEF LockInv, CancelRead, Idle
  <1>3. ReportInv'
    BY DEF ReportInv, CancelRead, Idle, Outdated
  <1>4. CancelInv'
    BY DEF CancelInv, CancelRead, Idle
  <1>5. RefundInv'
    BY DEF RefundInv, CancelRead
  <1>6. SettlementInv'
    BY DEF SettlementInv, CancelRead, Idle
  <1>7. (RowsTypeOK /\ GatewayTypeOK /\ CallsTypeOK /\ ChargeInv /\ PaymentInv
         /\ ServiceInv)'
    BY DEF RowsTypeOK, GatewayTypeOK, CallsTypeOK, ChargeInv, PaymentInv,
       ServiceInv, CancelRead
  <1> QED BY <1>1, <1>2, <1>3, <1>4, <1>5, <1>6, <1>7

\* The order is cancelled once cancelPayment has returned.
LEMMA CancelOrderKeepsIInv ==
  ASSUME IInv, NEW r \in Requests, CancelOrder(r)
  PROVE  IInv'
  <1> USE DEF IInv, TypeOK
  <1>1. RowsTypeOK'
    BY DEF RowsTypeOK, CancelOrder, OrderStatus
  <1>2. RequestsTypeOK'
    BY DEF RequestsTypeOK, CancelOrder, Steps, Callers, Readings
  <1>3. LockInv'
    BY DEF LockInv, CancelOrder
  <1>4. ReportInv'
    BY DEF ReportInv, CancelOrder, Outdated
  <1>5. CancelInv'
    BY DEF CancelInv, CancelOrder
  <1>6. ServiceInv'
    BY DEF ServiceInv, CancelOrder, UnderWay
  <1>7. RefundInv'
    BY DEF RefundInv, CancelOrder
  <1>8. SettlementInv'
    BY DEF SettlementInv, CancelOrder, CancellableByProvider
  <1>9. (GatewayTypeOK /\ CallsTypeOK /\ ChargeInv /\ PaymentInv)'
    BY DEF GatewayTypeOK, CallsTypeOK, ChargeInv, PaymentInv, CancelOrder
  <1> QED BY <1>1, <1>2, <1>3, <1>4, <1>5, <1>6, <1>7, <1>8, <1>9

\* The sweep's batch read of candidates.
LEMMA ExpireReadKeepsIInv ==
  ASSUME IInv, NEW r \in Requests, ExpireRead(r)
  PROVE  IInv'
  <1> USE DEF IInv, TypeOK
  <1>1. RequestsTypeOK'
    BY DEF RequestsTypeOK, RowsTypeOK, ExpireRead, Steps, Callers, Readings
  <1>2. LockInv'
    BY DEF LockInv, ExpireRead, Idle
  <1>3. ReportInv'
    BY DEF ReportInv, ExpireRead, Idle, Outdated
  <1>4. CancelInv'
    BY DEF CancelInv, RequestsTypeOK, ExpireRead
  <1>5. RefundInv'
    BY DEF RefundInv, ExpireRead
  <1>6. SettlementInv'
    BY DEF SettlementInv, ExpireRead
  <1>7. (RowsTypeOK /\ GatewayTypeOK /\ CallsTypeOK /\ ChargeInv /\ PaymentInv
         /\ ServiceInv)'
    BY DEF RowsTypeOK, GatewayTypeOK, CallsTypeOK, ChargeInv, PaymentInv,
       ServiceInv, ExpireRead
  <1> QED BY <1>1, <1>2, <1>3, <1>4, <1>5, <1>6, <1>7

\* Expiration of one candidate, under the lock: no creation is under way, and
\* the order is still where the sweep saw it.
LEMMA ExpireSaveKeepsIInv ==
  ASSUME IInv, NEW r \in Requests, ExpireSave(r)
  PROVE  IInv'
  <1> USE DEF IInv, TypeOK
  <1>1. RowsTypeOK'
    BY DEF RowsTypeOK, ExpireSave, OrderStatus, PaymentStatus
  <1>2. RequestsTypeOK'
    BY DEF RequestsTypeOK, ExpireSave, Steps, Callers, Readings
  <1>3. LockInv'
    BY DEF LockInv, ExpireSave
  <1>4. ChargeInv'
    BY DEF ChargeInv, ExpireSave, isPaymentReleasable
  <1>5. PaymentInv'
    BY DEF PaymentInv, ExpireSave, isPaymentReleasable
  <1>6. ReportInv'
    BY DEF ReportInv, ExpireSave, Outdated
  <1>7. CancelInv'
    BY DEF CancelInv, RequestsTypeOK, ExpireSave, isPaymentReleasable,
       releasablePaymentStatuses, terminalStatuses
  <1>8. ServiceInv'
    BY DEF ServiceInv, ExpireSave, UnderWay
  <1>9. RefundInv'
    BY DEF RefundInv, ExpireSave
  <1>10. SettlementInv'
    BY DEF SettlementInv, CancelInv, ExpireSave, stillCandidate
  <1>11. (GatewayTypeOK /\ CallsTypeOK)'
    BY DEF GatewayTypeOK, CallsTypeOK, ExpireSave
  <1> QED BY <1>1, <1>2, <1>3, <1>4, <1>5, <1>6, <1>7, <1>8, <1>9, <1>10, <1>11

\* A problem can be reported only before the order is concluded.
LEMMA OpenDisputeKeepsIInv ==
  ASSUME IInv, OpenDispute
  PROVE  IInv'
  <1> USE DEF IInv, TypeOK
  <1>1. RowsTypeOK'
    BY DEF RowsTypeOK, OpenDispute
  <1>2. SettlementInv'
    BY DEF SettlementInv, OpenDispute
  <1>3. (GatewayTypeOK /\ RequestsTypeOK /\ CallsTypeOK /\ LockInv /\ ChargeInv
         /\ PaymentInv /\ ReportInv /\ CancelInv /\ ServiceInv /\ RefundInv)'
    BY DEF GatewayTypeOK, RequestsTypeOK, CallsTypeOK, LockInv, ChargeInv,
       PaymentInv, ReportInv, CancelInv, ServiceInv, RefundInv, OpenDispute,
       Outdated
  <1> QED BY <1>1, <1>2, <1>3

\* Closing a problem report.
LEMMA ResolveDisputeKeepsIInv ==
  ASSUME IInv, ResolveDispute
  PROVE  IInv'
  <1> USE DEF IInv, TypeOK
  <1>1. RowsTypeOK'
    BY DEF RowsTypeOK, ResolveDispute
  <1>2. SettlementInv'
    BY DEF SettlementInv, ResolveDispute
  <1>3. (GatewayTypeOK /\ RequestsTypeOK /\ CallsTypeOK /\ LockInv /\ ChargeInv
         /\ PaymentInv /\ ReportInv /\ CancelInv /\ ServiceInv /\ RefundInv)'
    BY DEF GatewayTypeOK, RequestsTypeOK, CallsTypeOK, LockInv, ChargeInv,
       PaymentInv, ReportInv, CancelInv, ServiceInv, RefundInv, ResolveDispute,
       Outdated
  <1> QED BY <1>1, <1>2, <1>3

-----------------------------------------------------------------------------
(* Settlements, webhooks and the gateway.                                  *)

\* The timer's sweep of the settlement queue.
LEMMA DrainKeepsIInv ==
  ASSUME IInv, NEW r \in Requests, Drain(r)
  PROVE  IInv'
  <1> USE DEF IInv, TypeOK
  <1>1. RequestsTypeOK'
    BY DEF RequestsTypeOK, Drain, Steps, Callers, Readings
  <1>2. LockInv'
    BY DEF LockInv, Drain, Idle
  <1>3. ReportInv'
    BY DEF ReportInv, Drain, Idle, Outdated
  <1>4. CancelInv'
    BY DEF CancelInv, Drain, Idle
  <1>5. RefundInv'
    BY DEF RefundInv, Drain
  <1>6. SettlementInv'
    BY DEF SettlementInv, Drain, Idle
  <1>7. (RowsTypeOK /\ GatewayTypeOK /\ CallsTypeOK /\ ChargeInv /\ PaymentInv
         /\ ServiceInv)'
    BY DEF RowsTypeOK, GatewayTypeOK, CallsTypeOK, ChargeInv, PaymentInv,
       ServiceInv, Drain
  <1> QED BY <1>1, <1>2, <1>3, <1>4, <1>5, <1>6, <1>7

\* The claim that marks a settlement SUBMITTING before any transfer is sent.
LEMMA SettleClaimKeepsIInv ==
  ASSUME IInv, NEW r \in Requests, SettleClaim(r)
  PROVE  IInv'
  <1> USE DEF IInv, TypeOK
  <1>1. RowsTypeOK'
    BY DEF RowsTypeOK, SettleClaim, MarkSubmitting, SettlementStatus
  <1>2. RequestsTypeOK'
    BY DEF RequestsTypeOK, SettleClaim, ProcessReturns, Steps, Callers,
       Readings
  <1>3. LockInv'
    BY DEF LockInv, RequestsTypeOK, SettleClaim, ProcessReturns
  <1>4. ReportInv'
    BY DEF ReportInv, RequestsTypeOK, SettleClaim, ProcessReturns, Outdated
  <1>5. CancelInv'
    BY DEF CancelInv, RequestsTypeOK, SettleClaim, ProcessReturns
  <1>6. RefundInv'
    BY DEF RefundInv, RequestsTypeOK, SettleClaim, ProcessReturns
  <1>7. SettlementInv'
    BY DEF SettlementInv, RequestsTypeOK, SettleClaim, ProcessReturns,
       submittable, MarkSubmitting
  <1>8. (GatewayTypeOK /\ CallsTypeOK /\ ChargeInv /\ PaymentInv /\
         ServiceInv)'
    BY DEF GatewayTypeOK, CallsTypeOK, ChargeInv, PaymentInv, ServiceInv,
       SettleClaim
  <1> QED BY <1>1, <1>2, <1>3, <1>4, <1>5, <1>6, <1>7, <1>8

\* The transfer to the provider: its sender was the only one.
LEMMA SettleSendKeepsIInv ==
  ASSUME IInv, NEW r \in Requests, SettleSend(r)
  PROVE  IInv'
  <1> USE DEF IInv, TypeOK
  <1>1. GatewayTypeOK'
    BY DEF GatewayTypeOK, SettleSend, Events
  <1>2. RequestsTypeOK'
    BY DEF RequestsTypeOK, SettleSend, Steps, Readings
  <1>3. CallsTypeOK'
    BY DEF CallsTypeOK, SettleSend
  <1>4. LockInv'
    BY DEF LockInv, SettleSend
  <1>5. ReportInv'
    BY DEF ReportInv, SettleSend, Outdated
  <1>6. CancelInv'
    BY DEF CancelInv, SettleSend
  <1>7. RefundInv'
    BY DEF RefundInv, SettleSend
  <1>8. SettlementInv'
    BY DEF SettlementInv, RequestsTypeOK, SettleSend, TransferStatus
  <1>9. (RowsTypeOK /\ ChargeInv /\ PaymentInv /\ ServiceInv)'
    BY DEF RowsTypeOK, ChargeInv, PaymentInv, ServiceInv, SettleSend
  <1> QED BY <1>1, <1>2, <1>3, <1>4, <1>5, <1>6, <1>7, <1>8, <1>9

\* Looking up the transfer of an earlier submission.
LEMMA SettleFindKeepsIInv ==
  ASSUME IInv, NEW r \in Requests, SettleFind(r)
  PROVE  IInv'
  <1> USE DEF IInv, TypeOK
  <1>1. RequestsTypeOK'
    BY DEF RequestsTypeOK, GatewayTypeOK, SettleFind, ProcessReturns, Steps,
       Callers, Readings
  <1>2. LockInv'
    BY DEF LockInv, RequestsTypeOK, SettleFind, ProcessReturns
  <1>3. ReportInv'
    BY DEF ReportInv, RequestsTypeOK, SettleFind, ProcessReturns, Outdated
  <1>4. CancelInv'
    BY DEF CancelInv, RequestsTypeOK, SettleFind, ProcessReturns
  <1>5. RefundInv'
    BY DEF RefundInv, RequestsTypeOK, SettleFind, ProcessReturns
  <1>6. SettlementInv'
    BY DEF SettlementInv, RequestsTypeOK, SettleFind, ProcessReturns
  <1>7. (RowsTypeOK /\ GatewayTypeOK /\ CallsTypeOK /\ ChargeInv /\ PaymentInv
         /\ ServiceInv)'
    BY DEF RowsTypeOK, GatewayTypeOK, CallsTypeOK, ChargeInv, PaymentInv,
       ServiceInv, SettleFind
  <1> QED BY <1>1, <1>2, <1>3, <1>4, <1>5, <1>6, <1>7

\* Recording the transfer's status, late or repeated.
LEMMA SettleRecordKeepsIInv ==
  ASSUME IInv, NEW r \in Requests, SettleRecord(r)
  PROVE  IInv'
  <1> USE DEF IInv, TypeOK
  <1>1. RowsTypeOK'
    BY DEF RowsTypeOK, GatewayTypeOK, SettlementInv, SettleRecord,
       settlementStatus, SettlementStatus, TransferStatus
  <1>2. RequestsTypeOK'
    BY DEF RequestsTypeOK, SettleRecord, ProcessReturns, Steps, Callers,
       Readings
  <1>3. CallsTypeOK'
    BY DEF CallsTypeOK, SettleRecord
  <1>4. LockInv'
    BY DEF LockInv, RequestsTypeOK, SettleRecord, ProcessReturns
  <1>5. ReportInv'
    BY DEF ReportInv, RequestsTypeOK, SettleRecord, ProcessReturns, Outdated
  <1>6. CancelInv'
    BY DEF CancelInv, RequestsTypeOK, SettleRecord, ProcessReturns
  <1>7. RefundInv'
    BY DEF RefundInv, RequestsTypeOK, SettleRecord, ProcessReturns
  <1>8. SettlementInv'
    BY DEF SettlementInv, RequestsTypeOK, GatewayTypeOK, SettleRecord,
       ProcessReturns, KeepsResult, settlementStatus, TransferStatus
  <1>9. (GatewayTypeOK /\ ChargeInv /\ PaymentInv /\ ServiceInv)'
    BY DEF GatewayTypeOK, ChargeInv, PaymentInv, ServiceInv, SettleRecord
  <1> QED BY <1>1, <1>2, <1>3, <1>4, <1>5, <1>6, <1>7, <1>8, <1>9

\* Delivery of a notification about the charge.
LEMMA ChargeHookKeepsIInv ==
  ASSUME IInv, NEW r \in Requests, NEW event \in ChargeEvents, ChargeHook(r, event)
  PROVE  IInv'
  <1> USE DEF IInv, TypeOK
  <1>1. RequestsTypeOK'
    BY DEF RequestsTypeOK, ChargeHook, HookEntry, Steps, Callers, Readings,
       Events
  <1>2. LockInv'
    BY DEF LockInv, ChargeHook, Idle, HookEntry
  <1>3. ReportInv'
    BY DEF ReportInv, ChargeHook, Idle, HookEntry, Outdated
  <1>4. CancelInv'
    BY DEF CancelInv, ChargeHook, Idle, HookEntry
  <1>5. RefundInv'
    BY DEF RefundInv, ChargeHook, HookEntry
  <1>6. SettlementInv'
    BY DEF SettlementInv, ChargeHook, Idle, HookEntry
  <1>7. (RowsTypeOK /\ GatewayTypeOK /\ CallsTypeOK /\ ChargeInv /\ PaymentInv
         /\ ServiceInv)'
    BY DEF RowsTypeOK, GatewayTypeOK, CallsTypeOK, ChargeInv, PaymentInv,
       ServiceInv, ChargeHook
  <1> QED BY <1>1, <1>2, <1>3, <1>4, <1>5, <1>6, <1>7

\* A dispute or refund notification blocks new settlements.
LEMMA HookBlockKeepsIInv ==
  ASSUME IInv, NEW r \in Requests, HookBlock(r)
  PROVE  IInv'
  <1> USE DEF IInv, TypeOK
  <1>1. RowsTypeOK'
    BY DEF RowsTypeOK, HookBlock
  <1>2. RequestsTypeOK'
    BY DEF RequestsTypeOK, HookBlock, Steps, Readings
  <1>3. LockInv'
    BY DEF LockInv, HookBlock
  <1>4. ReportInv'
    BY DEF ReportInv, HookBlock, Outdated
  <1>5. CancelInv'
    BY DEF CancelInv, HookBlock
  <1>6. RefundInv'
    BY DEF RefundInv, HookBlock
  <1>7. SettlementInv'
    BY DEF SettlementInv, HookBlock
  <1>8. (GatewayTypeOK /\ CallsTypeOK /\ ChargeInv /\ PaymentInv /\
         ServiceInv)'
    BY DEF GatewayTypeOK, CallsTypeOK, ChargeInv, PaymentInv, ServiceInv,
       HookBlock
  <1> QED BY <1>1, <1>2, <1>3, <1>4, <1>5, <1>6, <1>7, <1>8

\* Delivery of a notification about the transfer.
LEMMA TransferHookKeepsIInv ==
  ASSUME IInv, NEW r \in Requests, TransferHook(r)
  PROVE  IInv'
  <1> USE DEF IInv, TypeOK
  <1>1. RequestsTypeOK'
    BY DEF RequestsTypeOK, TransferHook, Steps, Callers, Readings, Events
  <1>2. LockInv'
    BY DEF LockInv, TransferHook, Idle
  <1>3. ReportInv'
    BY DEF ReportInv, TransferHook, Idle, Outdated
  <1>4. CancelInv'
    BY DEF CancelInv, TransferHook, Idle
  <1>5. RefundInv'
    BY DEF RefundInv, TransferHook
  <1>6. SettlementInv'
    BY DEF SettlementInv, TransferHook, Idle
  <1>7. (RowsTypeOK /\ GatewayTypeOK /\ CallsTypeOK /\ ChargeInv /\ PaymentInv
         /\ ServiceInv)'
    BY DEF RowsTypeOK, GatewayTypeOK, CallsTypeOK, ChargeInv, PaymentInv,
       ServiceInv, TransferHook
  <1> QED BY <1>1, <1>2, <1>3, <1>4, <1>5, <1>6, <1>7

\* The 200 that ends the repetitions of a notification.
LEMMA HookAckKeepsIInv ==
  ASSUME IInv, NEW r \in Requests, HookAck(r)
  PROVE  IInv'
  <1> USE DEF IInv, TypeOK
  <1>1. GatewayTypeOK'
    BY DEF GatewayTypeOK, HookAck, ChargeStatus, TransferStatus
  <1>2. RequestsTypeOK'
    BY DEF RequestsTypeOK, HookAck, Steps, Callers, Readings
  <1>3. LockInv'
    BY DEF LockInv, HookAck
  <1>4. ReportInv'
    BY DEF ReportInv, HookAck, Outdated
  <1>5. CancelInv'
    BY DEF CancelInv, HookAck
  <1>6. RefundInv'
    BY DEF RefundInv, HookAck
  <1>7. SettlementInv'
    BY DEF SettlementInv, HookAck
  <1>8. (RowsTypeOK /\ CallsTypeOK /\ ChargeInv /\ PaymentInv /\ ServiceInv)'
    BY DEF RowsTypeOK, CallsTypeOK, ChargeInv, PaymentInv, ServiceInv, HookAck
  <1> QED BY <1>1, <1>2, <1>3, <1>4, <1>5, <1>6, <1>7, <1>8

\* The customer pays the pending charge.
LEMMA CustomerPaysKeepsIInv ==
  ASSUME IInv, CustomerPays
  PROVE  IInv'
  <1> USE DEF IInv, TypeOK
  <1>1. GatewayTypeOK'
    BY DEF GatewayTypeOK, CustomerPays, Events, ChargeEvents, ChargeStatus
  <1>2. ChargeInv'
    BY DEF ChargeInv, CustomerPays, backendUnchanged
  <1>3. PaymentInv'
    BY DEF PaymentInv, CustomerPays, backendUnchanged
  <1>4. ReportInv'
    BY DEF ReportInv, CustomerPays, backendUnchanged, Outdated
  <1>5. (RowsTypeOK /\ RequestsTypeOK /\ CallsTypeOK /\ LockInv /\ CancelInv /\
         ServiceInv /\ RefundInv /\ SettlementInv)'
    BY DEF RowsTypeOK, RequestsTypeOK, CallsTypeOK, LockInv, CancelInv,
       ServiceInv, RefundInv, SettlementInv, CustomerPays, backendUnchanged
  <1> QED BY <1>1, <1>2, <1>3, <1>4, <1>5

\* The pending charge expires or fails.
LEMMA ChargeLapsesKeepsIInv ==
  ASSUME IInv, ChargeLapses
  PROVE  IInv'
  <1> USE DEF IInv, TypeOK
  <1>1. GatewayTypeOK'
    BY DEF GatewayTypeOK, ChargeLapses, ChargeStatus
  <1>2. ChargeInv'
    BY DEF ChargeInv, ChargeLapses, backendUnchanged
  <1>3. PaymentInv'
    BY DEF PaymentInv, ChargeLapses, backendUnchanged
  <1>4. ReportInv'
    BY DEF ReportInv, ChargeLapses, backendUnchanged, Outdated
  <1>5. (RowsTypeOK /\ RequestsTypeOK /\ CallsTypeOK /\ LockInv /\ CancelInv /\
         ServiceInv /\ RefundInv /\ SettlementInv)'
    BY DEF RowsTypeOK, RequestsTypeOK, CallsTypeOK, LockInv, CancelInv,
       ServiceInv, RefundInv, SettlementInv, ChargeLapses, backendUnchanged
  <1> QED BY <1>1, <1>2, <1>3, <1>4, <1>5

\* The refund the backend asked for is carried out.
LEMMA RefundSettlesKeepsIInv ==
  ASSUME IInv, RefundSettles
  PROVE  IInv'
  <1> USE DEF IInv, TypeOK
  <1>1. GatewayTypeOK'
    BY DEF GatewayTypeOK, RefundSettles, Refunded, Events, ChargeEvents,
       ChargeStatus
  <1>2. ChargeInv'
    BY DEF ChargeInv, RefundSettles, backendUnchanged, Refunded
  <1>3. PaymentInv'
    BY DEF PaymentInv, RefundSettles, backendUnchanged, Refunded
  <1>4. ReportInv'
    BY DEF ReportInv, RefundSettles, backendUnchanged, Refunded, Outdated
  <1>5. (RowsTypeOK /\ RequestsTypeOK /\ CallsTypeOK /\ LockInv /\ CancelInv /\
         ServiceInv /\ RefundInv /\ SettlementInv)'
    BY DEF RowsTypeOK, RequestsTypeOK, CallsTypeOK, LockInv, CancelInv,
       ServiceInv, RefundInv, SettlementInv, RefundSettles, backendUnchanged,
       Refunded
  <1> QED BY <1>1, <1>2, <1>3, <1>4, <1>5

\* The money of a paid charge goes back without the backend's asking.
LEMMA ChargebackKeepsIInv ==
  ASSUME IInv, Chargeback
  PROVE  IInv'
  <1> USE DEF IInv, TypeOK
  <1>1. GatewayTypeOK'
    BY DEF GatewayTypeOK, Chargeback, Refunded, Events, ChargeEvents,
       ChargeStatus
  <1>2. ChargeInv'
    BY DEF ChargeInv, Chargeback, backendUnchanged, Refunded
  <1>3. PaymentInv'
    BY DEF PaymentInv, Chargeback, backendUnchanged, Refunded
  <1>4. ReportInv'
    BY DEF ReportInv, Chargeback, backendUnchanged, Refunded, Outdated
  <1>5. (RowsTypeOK /\ RequestsTypeOK /\ CallsTypeOK /\ LockInv /\ CancelInv /\
         ServiceInv /\ RefundInv /\ SettlementInv)'
    BY DEF RowsTypeOK, RequestsTypeOK, CallsTypeOK, LockInv, CancelInv,
       ServiceInv, RefundInv, SettlementInv, Chargeback, backendUnchanged,
       Refunded
  <1> QED BY <1>1, <1>2, <1>3, <1>4, <1>5

\* The payer disputes a paid charge.
LEMMA ContestChargeKeepsIInv ==
  ASSUME IInv, ContestCharge
  PROVE  IInv'
  <1> USE DEF IInv, TypeOK
  <1>1. GatewayTypeOK'
    BY DEF GatewayTypeOK, ContestCharge, Events, ChargeEvents
  <1>2. (RowsTypeOK /\ RequestsTypeOK /\ CallsTypeOK /\ LockInv /\ ChargeInv /\
         PaymentInv /\ ReportInv /\ CancelInv /\ ServiceInv /\ RefundInv /\
         SettlementInv)'
    BY DEF RowsTypeOK, RequestsTypeOK, CallsTypeOK, LockInv, ChargeInv,
       PaymentInv, ReportInv, CancelInv, ServiceInv, RefundInv, SettlementInv,
       ContestCharge, backendUnchanged, Outdated
  <1> QED BY <1>1, <1>2

\* The pending transfer completes or fails.
LEMMA TransferSettlesKeepsIInv ==
  ASSUME IInv, TransferSettles
  PROVE  IInv'
  <1> USE DEF IInv, TypeOK
  <1>1. GatewayTypeOK'
    BY DEF GatewayTypeOK, TransferSettles, TransferStatus, Events
  <1>2. SettlementInv'
    BY DEF SettlementInv, TransferSettles, backendUnchanged
  <1>3. (RowsTypeOK /\ RequestsTypeOK /\ CallsTypeOK /\ LockInv /\ ChargeInv /\
         PaymentInv /\ ReportInv /\ CancelInv /\ ServiceInv /\ RefundInv)'
    BY DEF RowsTypeOK, RequestsTypeOK, CallsTypeOK, LockInv, ChargeInv,
       PaymentInv, ReportInv, CancelInv, ServiceInv, RefundInv,
       TransferSettles, backendUnchanged, Outdated
  <1> QED BY <1>1, <1>2, <1>3

=============================================================================
