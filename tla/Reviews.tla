------------------------------- MODULE Reviews -------------------------------
(***************************************************************************)
(* The reviews of one provider's orders and the reputation that is kept    *)
(* with the provider. A review is one SERIALIZABLE transaction: it sees    *)
(* what was committed when it began, and the database refuses it when the  *)
(* row of the provider was changed since.                                  *)
(***************************************************************************)
EXTENDS Naturals, FiniteSets, FiniteSetsExt, Requests

CONSTANTS
    Orders,     \* concluded orders of the provider
    Ratings     \* 1 .. 5

ASSUME RatingAssumption == Ratings \subseteq Nat \ {0}

VARIABLES
    reviews,      \* committed rating of each order, 0 when it has none
    reputation,   \* ratingAvg, as sum and count, and ratingCount
    changes,      \* times the provider's row was changed
    at,           \* next step of each request
    work          \* its order and rating, and what its transaction sees

ratingVars == <<reviews, reputation, changes, at, work>>

NoWork == [order |-> "none"]

Reviewed(seen) == {o \in DOMAIN seen : seen[o] > 0}

\* avaliacao.aggregate
Aggregate(seen) ==
    [sum |-> MapThenSumSet(LAMBDA o : seen[o], Reviewed(seen)),
     count |-> Cardinality(Reviewed(seen))]

RatingInit ==
    /\ reviews = [o \in Orders |-> 0]
    /\ reputation = [sum |-> 0, count |-> 0]
    /\ changes = 0
    /\ at = [c \in Callers |-> "idle"]
    /\ work = [c \in Callers |-> NoWork]

Step(c, label, value) ==
    /\ at' = [at EXCEPT ![c] = label]
    /\ work' = [work EXCEPT ![c] = value]

Stop(c) == Step(c, "idle", NoWork)

\* The order is read before the transaction: it has no review yet.
CheckOrder(c) ==
    /\ at[c] = "idle"
    /\ \E o \in Orders, rating \in Ratings :
         /\ reviews[o] = 0
         /\ Step(c, "begin", [order |-> o, rating |-> rating])
    /\ UNCHANGED <<reviews, reputation, changes>>

\* The transaction begins: its first statement looks for the tags, some of
\* which may be no longer active.
BeginReview(c) ==
    /\ at[c] = "begin"
    /\ \/ Stop(c)
       \/ Step(c, "insert",
               [order |-> work[c].order, rating |-> work[c].rating,
                seen |-> reviews, changes |-> changes])
    /\ UNCHANGED <<reviews, reputation, changes>>

Inserted(o) == \E d \in Callers : at[d] \in {"update", "commit"} /\ work[d].order = o

\* The review is inserted. The unique index on the order makes it wait for
\* another insertion, and refuses it after one that was committed (P2002).
InsertReview(c) ==
    /\ at[c] = "insert"
    /\ ~Inserted(work[c].order)
    /\ \/ reviews[work[c].order] # 0 /\ Stop(c)
       \/ /\ reviews[work[c].order] = 0
          /\ Step(c, "update",
                  [work[c] EXCEPT !.seen[work[c].order] = work[c].rating])
    /\ UNCHANGED <<reviews, reputation, changes>>

\* Fault: the transaction has the default isolation, and each statement sees
\* what was committed before it.
updateReadCommitted(c) ==
    /\ at[c] = "update"
    /\ \A d \in Callers : at[d] # "commit"
    /\ Step(c, "commit", work[c])
    /\ UNCHANGED <<reviews, reputation, changes>>

\* The provider's row is changed, after any transaction that did so ended, and
\* only if none has been committed since this one began.
UpdateReputation(c) ==
    /\ at[c] = "update"
    /\ \A d \in Callers : at[d] # "commit"
    /\ \/ changes # work[c].changes /\ Stop(c)
       \/ changes = work[c].changes /\ Step(c, "commit", work[c])
    /\ UNCHANGED <<reviews, reputation, changes>>

CommitReview(c) ==
    /\ at[c] = "commit"
    /\ reviews' = [reviews EXCEPT ![work[c].order] = work[c].rating]
    /\ reputation' = Aggregate(work[c].seen)
    /\ changes' = changes + 1
    /\ Stop(c)

\* The database aborts a serializable transaction whenever it suspects a
\* conflict; a replica dies.
AbortReview(c) ==
    /\ at[c] # "idle"
    /\ Stop(c)
    /\ UNCHANGED <<reviews, reputation, changes>>

RatingNext ==
    \E c \in Callers :
        \/ CheckOrder(c) \/ BeginReview(c) \/ InsertReview(c)
        \/ UpdateReputation(c) \/ CommitReview(c) \/ AbortReview(c)

RatingSpec == RatingInit /\ [][RatingNext]_ratingVars

-----------------------------------------------------------------------------
\* What the provider shows is the count and the average of the reviews its
\* orders have, however many are written at once: a review that was counted
\* on an older view is refused (create-order-review.handler.ts:99).
ReputationMatchesReviews == reputation = Aggregate(reviews)

=============================================================================
