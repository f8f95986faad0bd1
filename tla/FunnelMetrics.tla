---------------------------- MODULE FunnelMetrics ----------------------------
(***************************************************************************)
(* The funnel of the back office: what the two queries of the report count *)
(* for a window of weeks, over the orders of one client as their life goes *)
(* on. Times are ticks; a week, the time a provider has to accept and the  *)
(* time a client has to come back are numbers of them. A time of 0 is the  *)
(* column or event that is not there; the events CANCELED of an order are  *)
(* a set, for it may have one of its charge and one of its own.            *)
(***************************************************************************)
EXTENDS Naturals, FiniteSets

CONSTANTS
    Bookings,       \* orders of the client
    Sellers,        \* providers they are made with
    Week,           \* ticks of a week
    Offset,         \* how far local weeks begin before those of UTC
    Target,         \* FUNNEL_ACCEPTANCE_TARGET_HOURS
    RehireWindow,   \* FUNNEL_REHIRE_WINDOW_DAYS
    MaxClock        \* bound: the last tick

ASSUME FunnelAssumption ==
    /\ Week \in Nat \ {0} /\ Offset \in 0 .. Week - 1
    /\ Target \in Nat /\ RehireWindow \in Nat /\ MaxClock \in Nat
    /\ IsFiniteSet(Bookings)

VARIABLES
    clock,      \* the time of the database
    booked      \* rows and events of each order

funnelVars == <<clock, booked>>

NotBooked ==
    [requested |-> 0, seller |-> "none", status |-> "none", accepted |-> 0,
     paid |-> 0, returned |-> FALSE, completed |-> 0, canceled |-> {}]

FunnelInit ==
    /\ clock = 1
    /\ booked = [o \in Bookings |-> NotBooked]

Tick ==
    /\ clock < MaxClock
    /\ clock' = clock + 1
    /\ UNCHANGED booked

RequestOrder(o) ==
    /\ booked[o].status = "none"
    /\ \E seller \in Sellers :
         booked' = [booked EXCEPT ![o] =
           [NotBooked EXCEPT !.requested = clock, !.seller = seller, !.status = "open"]]
    /\ UNCHANGED clock

\* The provider confirms: event ACCEPTED.
AcceptOrder(o) ==
    /\ booked[o].status = "open" /\ booked[o].accepted = 0
    /\ booked' = [booked EXCEPT ![o].accepted = clock]
    /\ UNCHANGED clock

PayOrder(o) ==
    /\ booked[o].status = "open" /\ booked[o].accepted > 0
    /\ booked[o].paid = 0 /\ ~booked[o].returned
    /\ booked' = [booked EXCEPT ![o].paid = clock]
    /\ UNCHANGED clock

\* The charge fails, or is given back, also after the order is over: an event
\* CANCELED, and an open order goes on. One that expired has no charge left.
ChargeEnds(o) ==
    /\ booked[o].accepted > 0 /\ ~booked[o].returned
    /\ booked[o].status = "CANCELADO" => booked[o].canceled # {}
    /\ booked' = [booked EXCEPT ![o].returned = TRUE,
                                ![o].canceled = booked[o].canceled \cup {clock}]
    /\ UNCHANGED clock

ConcludeOrder(o) ==
    /\ booked[o].status = "open" /\ booked[o].paid > 0 /\ ~booked[o].returned
    /\ booked' = [booked EXCEPT ![o].status = "CONCLUIDO", ![o].completed = clock]
    /\ UNCHANGED clock

\* Canceled by the provider, with an event.
CancelOrder(o) ==
    /\ booked[o].status = "open"
    /\ booked' = [booked EXCEPT ![o].status = "CANCELADO",
                                ![o].canceled = booked[o].canceled \cup {clock}]
    /\ UNCHANGED clock

\* Expired, without an event: no order that is paid.
ExpireOrder(o) ==
    /\ booked[o].status = "open"
    /\ booked[o].paid = 0 \/ booked[o].returned
    /\ booked' = [booked EXCEPT ![o].status = "CANCELADO"]
    /\ UNCHANGED clock

FunnelNext ==
    \/ Tick
    \/ \E o \in Bookings :
         \/ RequestOrder(o) \/ AcceptOrder(o) \/ PayOrder(o) \/ ChargeEnds(o)
         \/ ConcludeOrder(o) \/ CancelOrder(o) \/ ExpireOrder(o)

FunnelSpec == FunnelInit /\ [][FunnelNext]_funnelVars

-----------------------------------------------------------------------------
\* The Monday of Sao Paulo, which has been at a fixed offset since 2019; the
\* first ticks belong to a week that began before time did.
startOfLocalWeek(t) ==
    IF (t + Offset) % Week > t THEN 0 ELSE t - ((t + Offset) % Week)

\* date_trunc('week', ... AT TIME ZONE): the week an order falls in.
weekOf(t) == (t + Offset) \div Week

\* resolveWindow: the window begins with a week; bounds that are refused give
\* no window.
Windows ==
    {w \in [from : 0 .. MaxClock, to : 1 .. MaxClock] :
        \E f \in 1 .. MaxClock : w.from = startOfLocalWeek(f)}

Valid(w) == w.from <= w.to

\* Fault: the weeks of UTC have rows.
weeksOfUtc(w) == (w.from \div Week) .. (w.to \div Week)

\* generate_series: the weeks the report has a row for.
WeekRows(w) == weekOf(w.from) .. weekOf(w.to)

Within(t, w) == t > 0 /\ t >= w.from /\ t <= w.to

\* first_events: of the events CANCELED the first, but none before the window;
\* an order without one counts where it was requested.
canceledAt(o, w) ==
    LET seen == {t \in booked[o].canceled : t >= w.from}
    IN  IF seen = {} THEN booked[o].requested
                     ELSE CHOOSE t \in seen : \A u \in seen : t <= u

Minimum(a, b) == IF a <= b THEN a ELSE b

\* Orders requested so late that their provider may still be in time.
acceptanceCutoff(w) ==
    IF Minimum(w.to, clock) > Target THEN Minimum(w.to, clock) - Target ELSE 0

created(w) == {o \in Bookings : Within(booked[o].requested, w)}

\* Fault: every order of the window is eligible.
eligibleAtOnce(w) == created(w)

eligible(w) == {o \in created(w) : booked[o].requested <= acceptanceCutoff(w)}

acceptedInTime(w) ==
    {o \in eligible(w) :
        booked[o].accepted > 0 /\ booked[o].accepted <= booked[o].requested + Target}

\* Orders of the window that were accepted, however late.
acceptedInCohort(w) == {o \in created(w) : booked[o].accepted > 0}

WeekFigures ==
    {"created", "accepted", "acceptedThenPaid", "paid", "completed", "completedPaid",
     "canceled"}

\* The orders each figure counts, and the time that decides on their week.
counted(figure, w) ==
    CASE figure = "created" -> created(w)
      [] figure = "accepted" -> {o \in Bookings : Within(booked[o].accepted, w)}
      [] figure = "acceptedThenPaid" ->
           {o \in Bookings : Within(booked[o].accepted, w) /\ booked[o].paid > 0}
      [] figure = "paid" -> {o \in Bookings : Within(booked[o].paid, w)}
      [] figure = "completed" ->
           {o \in Bookings :
               booked[o].status = "CONCLUIDO" /\ Within(booked[o].completed, w)}
      [] figure = "completedPaid" ->
           {o \in Bookings : /\ booked[o].status = "CONCLUIDO"
                             /\ Within(booked[o].completed, w)
                             /\ ~booked[o].returned}
      [] figure = "canceled" ->
           {o \in Bookings :
               booked[o].status = "CANCELADO" /\ Within(canceledAt(o, w), w)}

stamp(figure, o, w) ==
    CASE figure = "created" -> booked[o].requested
      [] figure \in {"accepted", "acceptedThenPaid"} -> booked[o].accepted
      [] figure = "paid" -> booked[o].paid
      [] figure \in {"completed", "completedPaid"} -> booked[o].completed
      [] figure = "canceled" -> canceledAt(o, w)

InWeekRow(figure, w, o, n) == weekOf(stamp(figure, o, w)) = n

\* What the rows of a figure add up to.
sumWeeks(figure, w) ==
    Cardinality({x \in counted(figure, w) \X WeekRows(w) :
                    InWeekRow(figure, w, x[1], x[2])})

\* lastCompleteWeek: the last row whose seven days are over is the largest.
completeWeeks(w) ==
    {n \in WeekRows(w) : (n + 1) * Week <= Minimum(w.to, clock) + Offset}

-----------------------------------------------------------------------------
\* The client whose first service of the cohort is so old that the time to
\* come back is over.
Cohort(w) ==
    {o \in Bookings :
        /\ booked[o].status = "CONCLUIDO"
        /\ booked[o].completed + 2 * RehireWindow >= w.to
        /\ booked[o].completed + RehireWindow <= w.to}

\* Of several that ended at one instant the query takes the lowest id.
cohort(w) ==
    LET first == {o \in Cohort(w) :
                    \A p \in Cohort(w) : booked[o].completed <= booked[p].completed}
    IN  IF first = {} THEN {} ELSE {CHOOSE o \in first : TRUE}

\* Fault: services so recent count whose client may still come back.
rehiredEarly(w) ==
    {o \in Bookings :
        /\ booked[o].status = "CONCLUIDO" /\ booked[o].completed <= w.to
        /\ \E n \in Bookings \ {o} : booked[n].requested > booked[o].completed}

rehired(w) ==
    {o \in cohort(w) :
        \E n \in Bookings \ {o} :
            /\ booked[n].requested > booked[o].completed
            /\ booked[n].requested <= booked[o].completed + RehireWindow}

rehiredSameProvider(w) ==
    {o \in rehired(w) :
        \E n \in Bookings \ {o} :
            /\ booked[n].seller = booked[o].seller
            /\ booked[n].requested > booked[o].completed
            /\ booked[n].requested <= booked[o].completed + RehireWindow}

-----------------------------------------------------------------------------
\* What a report says for good of a window that is over: the orders it created,
\* those accepted in time, accepted, paid and completed, the clients who came
\* back and the weeks it calls complete (admin-funnel-metrics.service.ts:55).
Settled(w) ==
    <<created(w), eligible(w), acceptedInTime(w),
      counted("accepted", w), counted("paid", w), counted("completed", w),
      cohort(w), rehired(w), rehiredSameProvider(w), completeWeeks(w)>>

\* Four figures move after the window is over, and each in one direction. An
\* order of it that is accepted, paid or canceled since comes in, in the week
\* of its own time, and none leaves; one that is refunded since leaves the
\* completed and paid ones, the north star, and none comes in
\* (admin-funnel-metrics.queries.ts:81, :179).
OnlyGrow(w) ==
    /\ acceptedInCohort(w) \subseteq acceptedInCohort(w)'
    /\ \A figure \in {"acceptedThenPaid", "canceled"} :
         /\ counted(figure, w) \subseteq counted(figure, w)'
         /\ \A o \in counted(figure, w) : stamp(figure, o, w)' = stamp(figure, o, w)

OnlyShrink(w) == counted("completedPaid", w)' \subseteq counted("completedPaid", w)

ReportAges(w) ==
    Valid(w) /\ w.to < clock =>
        Settled(w)' = Settled(w) /\ OnlyGrow(w) /\ OnlyShrink(w)

\* Every order that a figure counts is in one week of the window, and once: the
\* totals of the weeks are those of the window. The whole history counts every
\* canceled order (admin-funnel-metrics.queries.ts:206).
WeeksAddUp ==
    \A w \in Windows : Valid(w) =>
        /\ \A figure \in WeekFigures :
             sumWeeks(figure, w) = Cardinality(counted(figure, w))
        /\ w.from = 0 /\ w.to >= clock =>
             counted("canceled", w) = {o \in Bookings : booked[o].status = "CANCELADO"}

\* A report adds up, and what it says of a window that is over moves no more
\* than its figures are meant to. Only orders and the time change a report.
ReportsAreKept ==
    [][UNCHANGED funnelVars \/ (WeeksAddUp' /\ \A w \in Windows : ReportAges(w))]_funnelVars

=============================================================================
