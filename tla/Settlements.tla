---------------------------- MODULE Settlements ----------------------------
(***************************************************************************)
(* SettlementService: the queue of transfers to providers, drained by a    *)
(* timer on every replica and by the gateway's transfer webhooks.          *)
(***************************************************************************)
EXTENDS OrderStore

closedSettlements == {"SUCCEEDED", "FAILED", "BLOCKED"}

restUnchanged == <<orderRows, paymentRows, calls>>

\* process() returns to its caller: the timer is done, a webhook is answered.
ProcessReturns(r) ==
    IF then[r] \in Events THEN Goto(r, "hook.ack", then[r], "NONE")
                          ELSE Finish(r)

\* Fault: the sweep only takes what was never submitted.
newSettlements == {"READY"}

openSettlements == {"READY", "SUBMITTING", "PENDING"}

\* A sweep takes every settlement that is not closed.
Drain(r) ==
    /\ Idle(r, "settle")
    /\ settlement \in openSettlements
    /\ Goto(r, "settle.claim", "drain", "NONE")
    /\ UNCHANGED <<restUnchanged, payout, lock, gateway>>

settlementDue ==
    /\ order = "CONCLUIDO"
    /\ payment \in paidStatuses
    /\ ~refundRequested /\ ~settlementBlocked
    /\ dispute # "OPEN"

\* Fault: a submission without an answer is submitted again.
submittableAgain == settlement \in {"READY", "SUBMITTING"}

submittable == settlement = "READY"

\* Fault: the mark is left to the transaction that records the answer.
MarkLater == UNCHANGED settlement

MarkSubmitting == settlement' = "SUBMITTING"

\* The claim: READY becomes SUBMITTING, and is committed, before any transfer
\* is sent. Whoever finds SUBMITTING only asks what became of it.
SettleClaim(r) ==
    /\ pc[r] = "settle.claim"
    /\ Free
    /\ CASE settlement \in closedSettlements ->
              ProcessReturns(r) /\ UNCHANGED settlement
         [] settlement \notin closedSettlements /\ ~submittable ->
              /\ Goto(r, "settle.find", then[r], "NONE")
              /\ UNCHANGED settlement
         [] submittable /\ ~settlementDue ->
              /\ settlement' = "BLOCKED"
              /\ ProcessReturns(r)
         [] submittable /\ settlementDue /\ charge = "paid" ->
              /\ MarkSubmitting
              /\ Goto(r, "settle.send", then[r], "NONE")
         [] OTHER ->
              Finish(r) /\ UNCHANGED settlement
    /\ UNCHANGED <<restUnchanged, releases, lock, gateway>>

\* The gateway may settle the transfer at once or later.
SettleSend(r) ==
    /\ pc[r] = "settle.send"
    /\ transferCalls' = transferCalls + 1
    /\ transfer' \in TransferStatus
    /\ events' = IF transfer' = "PENDING" THEN events
                                          ELSE events \cup {"transfer.settled"}
    /\ Goto(r, "settle.record", then[r], transfer')
    /\ UNCHANGED <<orderRows, paymentRows, payout, lock, charge, contested,
                   createCalls, refundCalls>>

SettleFind(r) ==
    /\ pc[r] = "settle.find"
    /\ IF transfer = "NONE" THEN ProcessReturns(r)
                            ELSE Goto(r, "settle.record", then[r], transfer)
    /\ UNCHANGED <<restUnchanged, payout, lock, gateway>>

\* Faults: a final result is not looked at, or only a success is.
keepsNothing(current, reported) == FALSE

keepsSuccess(current, reported) == current = "SUCCEEDED"

\* record(): a late PENDING never undoes a final result.
KeepsResult(current, reported) ==
    \/ current = "SUCCEEDED"
    \/ current = "FAILED" /\ reported = "PENDING"

SettleRecord(r) ==
    /\ pc[r] = "settle.record"
    /\ Free
    /\ IF KeepsResult(settlement, saw[r])
       THEN UNCHANGED <<settlement, releases>>
       ELSE /\ settlement' = settlementStatus(saw[r])
            /\ releases' = IF settlement' = "SUCCEEDED" THEN releases + 1
                                                        ELSE releases
    /\ ProcessReturns(r)
    /\ UNCHANGED <<restUnchanged, lock, gateway>>

-----------------------------------------------------------------------------
SettlementSteps(r) ==
    \/ Drain(r) \/ SettleClaim(r) \/ SettleSend(r) \/ SettleFind(r)
    \/ SettleRecord(r)

=============================================================================
