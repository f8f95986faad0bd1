--------------------------- MODULE ProviderReview ---------------------------
(***************************************************************************)
(* The review of a provider by the operators of the backoffice: approval,  *)
(* rejection, blocking and unblocking. A transition reads the provider and *)
(* then updates the row on condition that its status is still the expected *)
(* one, with the row of the decision, in one READ COMMITTED transaction:   *)
(* transitions of other operators may commit between the two statements.   *)
(***************************************************************************)
EXTENDS Integers, Sequences

CONSTANTS
    Reviewers,      \* requests of operators that may be in flight at once
    MaxDecisions    \* bound: decisions taken about the provider

VARIABLES
    providerStatus,   \* Provider.status
    verified,         \* Provider.verified
    decisions,        \* ProviderDecision rows, in the order of their commits
    review            \* the transition each request has found possible

reviewVars == <<providerStatus, verified, decisions, review>>

ProviderStatus == {"PENDING", "APPROVED", "REJECTED", "BLOCKED"}

PROVIDER_TRANSITIONS ==
    [APPROVE |-> [fromStatus |-> "PENDING",  toStatus |-> "APPROVED"],
     REJECT  |-> [fromStatus |-> "PENDING",  toStatus |-> "REJECTED"],
     BLOCK   |-> [fromStatus |-> "APPROVED", toStatus |-> "BLOCKED"],
     UNBLOCK |-> [fromStatus |-> "BLOCKED",  toStatus |-> "APPROVED"]]

Decisions == DOMAIN PROVIDER_TRANSITIONS

\* A provider registers without a decision about it.
ReviewInit ==
    /\ providerStatus = "PENDING"
    /\ verified = FALSE
    /\ decisions = <<>>
    /\ review = [v \in Reviewers |-> "NONE"]

\* The first statement of the transaction: any other status is a conflict.
ReadProvider(v, decision) ==
    /\ review[v] = "NONE"
    /\ providerStatus = PROVIDER_TRANSITIONS[decision].fromStatus
    /\ review' = [review EXCEPT ![v] = decision]
    /\ UNCHANGED <<providerStatus, verified, decisions>>

\* Fault: the row is updated by its id alone.
stillFromUnchecked(decision) == decision \in Decisions

stillFrom(decision) ==
    providerStatus = PROVIDER_TRANSITIONS[decision].fromStatus

\* The conditional update, the row of the decision and the commit.
Decide(v) ==
    LET transition == PROVIDER_TRANSITIONS[review[v]] IN
    /\ review[v] # "NONE"
    /\ stillFrom(review[v])
    /\ Len(decisions) < MaxDecisions
    /\ providerStatus' = transition.toStatus
    /\ verified' = (transition.toStatus = "APPROVED")
    /\ decisions' = Append(decisions, transition)
    /\ review' = [review EXCEPT ![v] = "NONE"]

\* The update finds no row, or the request dies: its transaction is undone.
RollBack(v) ==
    /\ review[v] # "NONE"
    /\ review' = [review EXCEPT ![v] = "NONE"]
    /\ UNCHANGED <<providerStatus, verified, decisions>>

ReviewNext ==
    \E v \in Reviewers :
        \/ \E decision \in Decisions : ReadProvider(v, decision)
        \/ Decide(v)
        \/ RollBack(v)

ReviewSpec == ReviewInit /\ [][ReviewNext]_reviewVars

----------------------------------------------------------------------------
ReviewTypeOK ==
    /\ providerStatus \in ProviderStatus
    /\ verified \in BOOLEAN
    /\ decisions \in Seq([fromStatus : ProviderStatus, toStatus : ProviderStatus])
    /\ review \in [Reviewers -> Decisions \cup {"NONE"}]

\* The history the backoffice shows accounts for the status of the provider
\* and for its badge: each decision starts where the one before it ended,
\* the first at PENDING, the last ends at the status of the row, although
\* transitions overlap.
DecisionsExplainStatus ==
    LET statusAfter(n) == IF n = 0 THEN "PENDING" ELSE decisions[n].toStatus IN
    /\ \A n \in DOMAIN decisions : decisions[n].fromStatus = statusAfter(n - 1)
    /\ providerStatus = statusAfter(Len(decisions))
    /\ verified = (providerStatus = "APPROVED")

=============================================================================
