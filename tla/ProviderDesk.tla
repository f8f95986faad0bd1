----------------------------- MODULE ProviderDesk ----------------------------
(***************************************************************************)
(* What a provider sees of the money: the figures of the home panel, which *)
(* the backend computes from the orders at the instant it is asked, and    *)
(* the two pages that say where payouts go. The panel counts months in the *)
(* zone of Sao Paulo but names them by the clock of the server.            *)
(***************************************************************************)
EXTENDS Integers, FiniteSets, Sequences

CONSTANTS
    Sales,       \* orders of the provider; a lower one was requested earlier
    PanelLimit,  \* entries that a list of the panel shows
    LastHour,    \* bound: instants until which the clock runs
    MaxTyped     \* bound: entries and saves of a payout page, pages opened

ASSUME DeskAssumption == Sales \subseteq Nat /\ IsFiniteSet(Sales) /\ PanelLimit \in Nat

DayLength == 2
MonthLength == 4
Offset == 1          \* of Sao Paulo, behind the clock of the server
MonthsShown == 2
FirstHour == MonthLength + Offset

VARIABLES
    hour,        \* the clock of the server
    sales,       \* the orders, each with its payment
    receiving,   \* per page: what the backend has of it, by which save
    desk,        \* the pages: what is typed and shown
    payWires     \* their requests and answers on the way

panelVars == <<hour, sales>>
payVars == <<receiving, desk, payWires>>

Unsold == [state |-> "none", paid |-> 0, kept |-> FALSE]

PanelInit ==
    /\ hour = FirstHour
    /\ sales = [s \in Sales |-> Unsold]

-----------------------------------------------------------------------------
\* The orders move as the rest of the system moves them.
Requested(s) ==
    /\ sales[s].state = "none"
    /\ \A r \in Sales : r < s => sales[r].state # "none"
    /\ sales' = [sales EXCEPT ![s].state = "waiting"]

AcceptedOrRefused(s) ==
    /\ sales[s].state = "waiting"
    /\ \E state \in {"active", "closed"} : sales' = [sales EXCEPT ![s].state = state]

Paid(s) ==
    /\ sales[s].state = "active" /\ sales[s].paid = 0
    /\ sales' = [sales EXCEPT ![s].paid = hour, ![s].kept = TRUE]

Concluded(s) ==
    /\ sales[s].state = "active" /\ sales[s].paid # 0
    /\ sales' = [sales EXCEPT ![s].state = "done"]

Refunded(s) ==
    /\ sales[s].kept
    /\ sales' = [sales EXCEPT ![s].kept = FALSE]

HourPasses ==
    /\ hour < LastHour
    /\ hour' = hour + 1
    /\ UNCHANGED sales

PanelNext ==
    \/ \E s \in Sales : /\ \/ Requested(s) \/ AcceptedOrRefused(s) \/ Paid(s)
                           \/ Concluded(s) \/ Refunded(s)
                        /\ UNCHANGED hour
    \/ HourPasses

-----------------------------------------------------------------------------
\* Fault: the month is that of the stored instant, the day that of Sao Paulo.
monthKeyOfServer(instant) == instant \div MonthLength

\* A day and a month, as a date in Sao Paulo names them.
dateKey(instant) == (instant - Offset) \div DayLength
monthKey(instant) == (instant - Offset) \div MonthLength

\* The months up to the present one, by the clock of the server.
lastMonthKeys(now) ==
    [i \in 1 .. MonthsShown |-> now \div MonthLength - (MonthsShown - i)]

OfState(states) == {s \in Sales : sales[s].state \in states}

PaidSales == {s \in OfState({"done"}) : sales[s].kept}

RevenueByMonth ==
    [i \in 1 .. MonthsShown |->
        Cardinality({s \in PaidSales :
                        monthKey(sales[s].paid) = lastMonthKeys(hour)[i]})]

TodayRevenue ==
    Cardinality({s \in PaidSales : dateKey(sales[s].paid) = dateKey(hour)})

\* The newest of some orders, as many as the panel shows.
Newest(some) ==
    {s \in some : Cardinality({r \in some : r > s}) < PanelLimit}

\* Fault: the list is cut before the orders that wait are picked.
cutFirst(states) == Newest({s \in Sales : sales[s].state # "none"}) \cap OfState(states)

\* Those in a state are picked, then the list is cut.
Listed(states) == Newest(OfState(states))

\* Growth has no figure when the month before took nothing.
NoGrowth == -1000

Growth(month, previous) ==
    IF previous > 0 THEN ((month - previous) * 100) \div previous ELSE NoGrowth

getForProvider ==
    LET revenue == RevenueByMonth
        month == revenue[MonthsShown]
        previous == revenue[MonthsShown - 1]
    IN [today |-> TodayRevenue, month |-> month,
        previousMonth |-> previous, lastMonths |-> revenue,
        completed |-> Cardinality(OfState({"done"})),
        pending |-> Listed({"waiting"}), active |-> Listed({"active"}),
        monthlyGrowth |-> Growth(month, previous)]

\* The card of the month; it works the growth out again.
buildSummary(home) ==
    [today |-> home.today, month |-> home.month,
     growth |-> Growth(home.month, home.previousMonth),
     trend |-> IF Growth(home.month, home.previousMonth) > 0 THEN "positive"
               ELSE "neutral"]

\* The insight below the chart takes that of the backend.
buildInsights(home) == [growth |-> home.monthlyGrowth]

-----------------------------------------------------------------------------
\* Two pages for where payouts go: the bank account of the former gateway, and
\* the PIX key. What is typed is numbered; 0 stands for an empty form.
PayPages == {"account", "pix"}

\* How an account stands, as far as the page treats it differently: whether it is
\* in review, and whether there is an error (a synchronization under way is both).
Statuses == [review : BOOLEAN, error : BOOLEAN]

Unset == [review |-> FALSE, error |-> FALSE]

\* A page that is open, and what is left of one that is not: what it last
\* reported as saved, and the saves that were under way when it was left or that
\* it called failed.
Closed ==
    [open |-> FALSE, typed |-> 0, known |-> FALSE, review |-> FALSE, loading |-> FALSE,
     busy |-> FALSE, saved |-> 0, behind |-> {}, saves |-> 0, entries |-> 0, visits |-> 0]

PayInit ==
    /\ receiving = [p \in PayPages |-> [data |-> 0, status |-> Unset, by |-> 0]]
    /\ desk = [p \in PayPages |-> Closed]
    /\ payWires = {}

Wire(p, kind, data, n) ==
    [page |-> p, kind |-> kind, state |-> "sent", data |-> data, status |-> Unset, n |-> n]

Puts(p) == {w \in payWires : w.page = p /\ w.kind = "put"}

Leaving(p) ==
    [Closed EXCEPT !.saved = desk[p].saved, !.saves = desk[p].saves,
       !.entries = desk[p].entries, !.visits = desk[p].visits + 1,
       !.behind = desk[p].behind \cup {w.n : w \in Puts(p)}]

\* ngOnInit: the page asks for what there is. Whatever page was open before, or
\* an earlier visit to this one, is left: nothing on its way is cancelled, and
\* nobody waits for the answers.
openPage(p) ==
    /\ desk[p].visits < MaxTyped
    /\ desk' = [q \in PayPages |->
                  IF q = p THEN [Leaving(q) EXCEPT !.open = TRUE, !.loading = TRUE]
                  ELSE Leaving(q)]
    /\ payWires' = {w \in payWires : w.kind = "put" /\ w.state = "sent"}
                     \cup {Wire(p, "get", 0, 0)}
    /\ UNCHANGED receiving

\* Asked again after an error; the account page also while it is in review.
load(p) ==
    /\ desk[p].open /\ ~desk[p].loading
    /\ \/ ~desk[p].known
       \/ p = "account" /\ desk[p].review
    /\ desk' = [desk EXCEPT ![p].loading = TRUE]
    /\ payWires' = payWires \cup {Wire(p, "get", 0, 0)}
    /\ UNCHANGED receiving

\* The PIX form is there once the key is known; that of the account always, but
\* closed while it is being saved.
FormOpen(p) ==
    /\ desk[p].open
    /\ IF p = "pix" THEN desk[p].known /\ ~desk[p].loading ELSE ~desk[p].busy

TypeIn(p) ==
    /\ FormOpen(p) /\ desk[p].entries < MaxTyped
    /\ desk' = [desk EXCEPT ![p].typed = desk[p].entries + 1, ![p].entries = @ + 1]
    /\ UNCHANGED <<receiving, payWires>>

\* Fault: a second press sends a second request.
maySaveAgain(p) == FormOpen(p) /\ desk[p].typed # 0

maySave(p) == FormOpen(p) /\ desk[p].typed # 0 /\ ~desk[p].busy

savePayout(p) ==
    /\ maySave(p) /\ desk[p].saves < MaxTyped
    /\ desk' = [desk EXCEPT ![p].busy = TRUE, ![p].saved = 0, ![p].saves = @ + 1]
    /\ payWires' = payWires \cup {Wire(p, "put", desk[p].typed, desk[p].saves + 1)}
    /\ UNCHANGED receiving

\* The backend answers with what it has: the key, or how the account stands.
ServeGet ==
    /\ \E w \in payWires :
         /\ w.kind = "get" /\ w.state = "sent"
         /\ payWires' = (payWires \ {w}) \cup
              {[w EXCEPT !.state = "done",
                         !.data = IF w.page = "pix" THEN receiving.pix.data ELSE 0,
                         !.status = receiving[w.page].status]}
    /\ UNCHANGED <<receiving, desk>>

Abandoned(w) == w.n \in desk[w.page].behind

\* A key that fits its type is written; an account goes to the gateway, with
\* whatever comes of it: after an error the former account may stay.
ServePut ==
    /\ \E w \in payWires, status \in Statuses :
         /\ w.kind = "put" /\ w.state = "sent"
         /\ w.page = "pix" => status = Unset
         /\ \E data \in {w.data, receiving[w.page].data} :
              /\ ~status.error => data = w.data
              /\ receiving' = [receiving EXCEPT ![w.page] =
                                 [data |-> data, status |-> status, by |-> w.n]]
         /\ payWires' = (payWires \ {w}) \cup
              (IF Abandoned(w) THEN {}
               ELSE {[w EXCEPT !.state = "done", !.status = status]})
    /\ UNCHANGED desk

GatewayRules ==
    /\ receiving.account.data # 0
    /\ \E status \in Statuses : receiving' = [receiving EXCEPT !.account.status = status]
    /\ UNCHANGED <<desk, payWires>>

\* A load fills the PIX form, or shows how the account stands.
Received(p, w) ==
    IF p = "pix" THEN [desk[p] EXCEPT !.typed = w.data, !.known = TRUE, !.loading = FALSE]
    ELSE [desk[p] EXCEPT !.review = w.status.review, !.known = TRUE, !.loading = FALSE]

GetAnswered ==
    /\ \E w \in payWires :
         /\ w.kind = "get" /\ w.state = "done"
         /\ desk' \in {[desk EXCEPT ![w.page] = Received(w.page, w)],
                       [desk EXCEPT ![w.page].loading = FALSE]}
         /\ payWires' = payWires \ {w}
    /\ UNCHANGED receiving

\* What was saved is reported; the numbers of an account are cleared with it. An
\* account that the gateway did not take is not.
Stored(p, w) ==
    IF p = "pix" THEN [desk[p] EXCEPT !.busy = FALSE, !.saved = w.data]
    ELSE IF w.status.error THEN [desk[p] EXCEPT !.busy = FALSE, !.review = w.status.review]
    ELSE [desk[p] EXCEPT !.busy = FALSE, !.review = w.status.review, !.saved = w.data,
                         !.typed = 0]

PutAnswered ==
    /\ \E w \in payWires :
         /\ w.kind = "put" /\ w.state = "done" /\ ~Abandoned(w)
         /\ desk' = [desk EXCEPT ![w.page] = Stored(w.page, w)]
         /\ payWires' = payWires \ {w}
    /\ UNCHANGED receiving

\* An error ends the waiting. The request was refused or lost, or served with its
\* answer lost, or it is served yet: the client cannot tell.
PutFails ==
    /\ \E w \in payWires :
         /\ w.kind = "put" /\ ~Abandoned(w)
         /\ desk' = [desk EXCEPT ![w.page].busy = FALSE, ![w.page].behind = @ \cup {w.n}]
         /\ payWires' = IF w.state = "done" THEN payWires \ {w} ELSE payWires
    /\ UNCHANGED receiving

PutLost ==
    /\ \E w \in payWires :
         w.kind = "put" /\ Abandoned(w) /\ payWires' = payWires \ {w}
    /\ UNCHANGED <<receiving, desk>>

PayNext ==
    \/ \E p \in PayPages : openPage(p) \/ load(p) \/ TypeIn(p) \/ savePayout(p)
    \/ ServeGet \/ ServePut \/ GatewayRules \/ GetAnswered \/ PutAnswered
    \/ PutFails \/ PutLost

ProviderDeskSpec ==
    PanelInit /\ PayInit /\
    [][(PanelNext /\ UNCHANGED payVars) \/ (PayNext /\ UNCHANGED panelVars)]_
        <<panelVars, payVars>>

-----------------------------------------------------------------------------
\* Outside the hours in which the server is a month ahead of Sao Paulo, the
\* figures of the panel add up: the months shown take in every sale that is
\* paid and done since the first of them began, each once; today is part of the
\* month; and the card and the insight agree on the trend.
FiguresAddUp ==
    LET home == getForProvider
        first == monthKey(hour) - (MonthsShown - 1)
        shown == {s \in PaidSales : monthKey(sales[s].paid) >= first}
    IN  monthKey(hour) = hour \div MonthLength =>
            /\ home.lastMonths[1] + home.lastMonths[2] = Cardinality(shown)
            /\ home.today <= home.month
            /\ buildSummary(home).trend = "positive" <=> buildInsights(home).growth > 0

\* A list of requests shorter than its limit leaves none out that waits for
\* the provider's answer.
ShortListIsWhole ==
    LET home == getForProvider IN
    Cardinality(home.pending) < PanelLimit => home.pending = OfState({"waiting"})

\* The panel tells the provider the truth: figures that add up, and lists that
\* leave nothing out unless they are full.
PanelIsTrue == FiguresAddUp /\ ShortListIsWhole

\* What a page last reported as saved is what payouts are made to, also after the
\* page was left, unless a save was served since that had been left behind: one
\* under way when its page was left, or one that the page had called failed.
SavedIsKept ==
    \A p \in PayPages :
       desk[p].saved # 0 =>
          \/ receiving[p].data = desk[p].saved
          \/ receiving[p].by \in desk[p].behind

=============================================================================
