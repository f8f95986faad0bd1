---------------------------- MODULE ProviderQueue ----------------------------
(***************************************************************************)
(* What the back office reads of the providers: the queue, page by page,   *)
(* the history of one provider, and the dashboard of a window of time.     *)
(* A page is a count and a query of rows, the dashboard a query for each   *)
(* kind of figure: statements that each see what is committed by then      *)
(* (READ COMMITTED). Providers register, and operators decide on them,     *)
(* before, between and after. The queue's filter by dates, which a row     *)
(* never leaves, the averages and the list of recent actions are left out. *)
(***************************************************************************)
EXTENDS Naturals, Sequences, FiniteSets

CONSTANTS
    ProviderIds,    \* numbers: the ids providers may have
    PageLimit,      \* rows of a page
    MaxDecisions,   \* bound: decisions taken
    LastTick,       \* bound: the last tick
    MaxDays         \* DASHBOARD_MAX_DAYS

ASSUME QueueAssumption ==
    /\ ProviderIds \subseteq Nat /\ IsFiniteSet(ProviderIds) /\ PageLimit \in Nat \ {0}
    /\ MaxDecisions \in Nat /\ LastTick \in Nat /\ MaxDays \in Nat

VARIABLES
    tick,           \* the time of the database
    providers,      \* createdAt, 0 before the provider registers, and status
    decisions,      \* rows of ProviderDecision, in the order of their commits
    walk            \* somebody paging through a list, or reading the dashboard;
                    \* `moves` counts what may escape them: rows that left the
                    \* list, decisions taken between the dashboard's queries

queueVars == <<tick, providers, decisions, walk>>

NoWalk == [list |-> "none"]

QueueInit ==
    /\ tick = 1
    /\ providers = [p \in ProviderIds |-> [createdAt |-> 0, status |-> "PENDING"]]
    /\ decisions = <<>>
    /\ walk = NoWalk

Registered == {p \in ProviderIds : providers[p].createdAt > 0}

QueueTick ==
    /\ tick < LastTick
    /\ tick' = tick + 1
    /\ UNCHANGED <<providers, decisions, walk>>

Register(p) ==
    /\ p \notin Registered
    /\ providers' = [providers EXCEPT ![p].createdAt = tick]
    /\ UNCHANGED <<tick, decisions, walk>>

-----------------------------------------------------------------------------
Transitions ==
    [APPROVE |-> [from |-> "PENDING", to |-> "APPROVED"],
     REJECT |-> [from |-> "PENDING", to |-> "REJECTED"],
     BLOCK |-> [from |-> "APPROVED", to |-> "BLOCKED"],
     UNBLOCK |-> [from |-> "BLOCKED", to |-> "APPROVED"]]

\* Does a decision that leads from one status to another escape the reader?
Escapes(from, to) ==
    \/ walk.list = "queue" /\ from \in walk.filter /\ to \notin walk.filter
    \/ walk.list = "dashboard" /\ walk.at \in {"totals", "reviews"}

WriteDecision(p, action) ==
    LET from == providers[p].status
        to == Transitions[action].to
    IN  /\ providers' = [providers EXCEPT ![p].status = to]
        /\ decisions' = Append(decisions, [provider |-> p, action |-> action, at |-> tick])
        /\ walk' = IF Escapes(from, to) THEN [walk EXCEPT !.moves = @ + 1] ELSE walk
        /\ UNCHANGED tick

\* Fault: a decision that is repeated is written again.
decideAgain(p, action) ==
    /\ p \in Registered
    /\ Len(decisions) < MaxDecisions
    /\ providers[p].status \in {Transitions[action].from, Transitions[action].to}
    /\ WriteDecision(p, action)

\* executeTransition: the status moves and the decision is written, at once.
Decide(p, action) ==
    /\ p \in Registered
    /\ Len(decisions) < MaxDecisions
    /\ providers[p].status = Transitions[action].from
    /\ WriteDecision(p, action)

-----------------------------------------------------------------------------
QueueStatuses == {"PENDING", "APPROVED", "REJECTED", "BLOCKED"}

\* buildWhere: one status, or all of them.
Filters == {QueueStatuses} \cup {{status} : status \in QueueStatuses}

Queued(filter) == {p \in Registered : providers[p].status \in filter}

\* An order of a list gives each row the number of those before it.
\* Fault: providers of the same instant come in any order.
queueUnordered(filter) ==
    {place \in [Queued(filter) -> 0 .. Cardinality(Queued(filter))] :
        \A p, q \in Queued(filter) :
            /\ providers[p].createdAt > providers[q].createdAt => place[p] < place[q]
            /\ p # q => place[p] # place[q]
            /\ place[p] < Cardinality(Queued(filter))}

\* The newest first; the id decides between providers of the same instant.
Before(p, q) ==
    \/ providers[p].createdAt > providers[q].createdAt
    \/ providers[p].createdAt = providers[q].createdAt /\ p > q

queueOrders(filter) ==
    {[p \in Queued(filter) |-> Cardinality({q \in Queued(filter) : Before(q, p)})]}

DecisionsOn(p) == {i \in DOMAIN decisions : decisions[i].provider = p}

\* Fault: the latest decision first.
historyLatestFirst(p) ==
    {[i \in DecisionsOn(p) |-> Cardinality({j \in DecisionsOn(p) : j > i})]}

\* The decisions on one provider, the oldest first.
historyOrders(p) ==
    {[i \in DecisionsOn(p) |-> Cardinality({j \in DecisionsOn(p) : j < i})]}

Orders(w) ==
    IF w.list = "queue" THEN queueOrders(w.filter) ELSE historyOrders(w.of)

Rows(w) == IF w.list = "queue" THEN Queued(w.filter) ELSE DecisionsOn(w.of)

Paging == walk.list \in {"queue", "history"}

\* getPageBounds: a page below the first is the first.
Bounds(page) == IF page < 1 THEN 1 ELSE page

\* skip and take
Slice(place, page) ==
    {x \in DOMAIN place :
        /\ place[x] >= (Bounds(page) - 1) * PageLimit
        /\ place[x] < Bounds(page) * PageLimit}

\* toPage
totalPages(total) ==
    IF total = 0 THEN 1 ELSE (total + PageLimit - 1) \div PageLimit

Queues == [list : {"queue"}, of : {0}, filter : Filters]

Histories == [list : {"history"}, of : Registered, filter : {{}}]

\* How often each row there was at the beginning is shown is counted; `torn`
\* says that a row came between a count and its rows.
BeginWalk ==
    /\ walk.list = "none"
    /\ \E w \in Queues \cup Histories :
         walk' = [list |-> w.list, of |-> w.of, filter |-> w.filter, page |-> 1,
                  total |-> 0, at |-> "count", got |-> [x \in Rows(w) |-> 0],
                  torn |-> FALSE, moves |-> 0]
    /\ UNCHANGED <<tick, providers, decisions>>

CountRows ==
    /\ Paging /\ walk.at = "count"
    /\ walk' = [walk EXCEPT !.total = Cardinality(Rows(walk)), !.at = "rows"]
    /\ UNCHANGED <<tick, providers, decisions>>

Shown(got, page) ==
    [x \in DOMAIN got |-> IF x \in page THEN got[x] + 1 ELSE got[x]]

FindRows ==
    /\ Paging /\ walk.at = "rows"
    /\ \E place \in Orders(walk) :
         walk' = [walk EXCEPT
                    !.got = Shown(@, Slice(place, walk.page)),
                    !.torn = @ \/ Cardinality(Rows(walk)) > walk.total,
                    !.page = @ + 1,
                    !.at = IF walk.page < totalPages(walk.total) THEN "count" ELSE "done"]
    /\ UNCHANGED <<tick, providers, decisions>>

-----------------------------------------------------------------------------
\* resolveDashboardWindow: windows that begin after they end, or are too
\* long, are refused.
DashboardWindows ==
    {w \in [from : 1 .. LastTick, to : 1 .. LastTick] :
        w.from <= w.to /\ w.to - w.from <= MaxDays}

Inside(t, w) == t >= w.from /\ t <= w.to

pendingCount(w) ==
    Cardinality({p \in Registered :
        providers[p].status = "PENDING" /\ Inside(providers[p].createdAt, w)})

\* toDashboardDecisionTotals
decisionCount(action, w) ==
    Cardinality({i \in DOMAIN decisions :
        decisions[i].action = action /\ Inside(decisions[i].at, w)})

\* toAverageReviewDuration: the decisions that first ended the review of a
\* provider in the window, and not before it registered.
reviewedProviders(w) ==
    LET terminal ==
          {i \in DOMAIN decisions :
              decisions[i].action \in {"APPROVE", "REJECT"} /\ Inside(decisions[i].at, w)}
    IN  {i \in terminal :
           /\ \A j \in terminal : decisions[j].provider = decisions[i].provider => i <= j
           /\ decisions[i].at >= providers[decisions[i].provider].createdAt}

\* getDashboard, one query after the other. What the window is asked of, and
\* whom there was by then, is kept for the comparison.
CountPending ==
    /\ walk.list = "none"
    /\ \E w \in DashboardWindows :
         walk' = [list |-> "dashboard", window |-> w, at |-> "totals",
                  pending |-> pendingCount(w), ended |-> 0, reviewed |-> 0,
                  all |-> w.from = 1 /\ w.to >= tick,
                  known |-> Cardinality(Registered), moves |-> 0]
    /\ UNCHANGED <<tick, providers, decisions>>

CountDecisions ==
    /\ walk.list = "dashboard" /\ walk.at = "totals"
    /\ walk' = [walk EXCEPT
                  !.ended = decisionCount("APPROVE", walk.window)
                              + decisionCount("REJECT", walk.window),
                  !.at = "reviews"]
    /\ UNCHANGED <<tick, providers, decisions>>

FindReviews ==
    /\ walk.list = "dashboard" /\ walk.at = "reviews"
    /\ walk' = [walk EXCEPT !.reviewed = Cardinality(reviewedProviders(walk.window)),
                            !.at = "done"]
    /\ UNCHANGED <<tick, providers, decisions>>

EndWalk ==
    /\ walk.list # "none"
    /\ walk' = NoWalk
    /\ UNCHANGED <<tick, providers, decisions>>

QueueNext ==
    \/ QueueTick
    \/ \E p \in ProviderIds :
         Register(p) \/ \E action \in DOMAIN Transitions : Decide(p, action)
    \/ BeginWalk \/ CountRows \/ FindRows \/ EndWalk
    \/ CountPending \/ CountDecisions \/ FindReviews

QueueSpec == QueueInit /\ [][QueueNext]_queueVars

-----------------------------------------------------------------------------
\* Whoever pages through the history of a provider is shown every decision
\* that was there at the beginning, once, whatever is decided meanwhile. Whoever
\* pages through the queue misses no more of its providers than decisions took
\* out of the filter meanwhile, each of which moves those behind it one place
\* forward: nobody, if the queue is read without a status. This does not hold
\* when a row came between the count and the rows of a page
\* (admin-providers.service.ts:255-285, 391-400).
WalkMissesNothing ==
    (Paging /\ walk.at = "done") =>
        IF walk.list = "history" THEN \A x \in DOMAIN walk.got : walk.got[x] = 1
        ELSE walk.torn \/ Cardinality({x \in DOMAIN walk.got : walk.got[x] = 0}) <= walk.moves

\* The dashboard's average is taken over all approvals and rejections that it
\* counts, and over some of those decided while it was read: no provider's
\* review ends twice. Of the providers known at its first query each is pending
\* or reviewed in a window of all time, up to those decided meanwhile
\* (admin-providers.service.ts:418-449, 897-928).
DashboardAgrees ==
    (walk.list = "dashboard" /\ walk.at = "done") =>
        /\ walk.reviewed - walk.ended \in 0 .. walk.moves
        /\ walk.all => walk.pending + walk.reviewed - walk.known \in 0 .. walk.moves

\* What the operators read agrees with the rows: the lists, page by page, and
\* the figures of the dashboard.
ListsAndFiguresAgree == WalkMissesNothing /\ DashboardAgrees

=============================================================================
