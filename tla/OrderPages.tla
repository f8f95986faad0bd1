----------------------------- MODULE OrderPages ------------------------------
(***************************************************************************)
(* One browser tab of a party of an order: the pages that show the order   *)
(* and offer what to do next, and the requests they send. A page offers    *)
(* what was possible when it was loaded; meanwhile the other party, the    *)
(* gateway, the clock and the operators move the order. Each command is    *)
(* one step here: what it does inside is the matter of OrderSystem.        *)
(***************************************************************************)
EXTENDS Naturals, FiniteSets

CONSTANTS
    MaxPages,    \* bound: pages the tab opens
    MaxRequests  \* bound: requests in flight

VARIABLES
    row,      \* the order, with its payment, the attempt to pay and its problem reports
    side,     \* what no page shows, and may have changed: bound, one such thing
    role,     \* whose tab it is
    tab,      \* the page, what it shows of the order and what it waits for
    calls,    \* requests on their way out or back
    timers    \* pages the tab is going to be led to

pagesVars == <<row, side, role, tab, calls, timers>>

Fields == {"status", "payment", "reviewed", "dispute", "price"}

Nothing == [f \in Fields |-> "unknown"]

\* What each page asks the backend for. The payment page's second query, that
\* of the payment, is its own: it has nothing to show before there is a charge.
Asked(page) ==
    CASE page = "home" -> {"status"}
      [] page = "report" -> {"dispute"}
      [] OTHER -> {"status", "payment", "reviewed", "price"}

\* Fault: the price shown is the service's of today.
pricedToday ==
    [row EXCEPT !.price = IF side = "repriced" THEN "today" ELSE "agreed"]

\* The answer of the query shows the price agreed on, whatever the service
\* costs by now.
estimatedAmount == row

OrderDetails(page) ==
    [f \in Fields |-> IF f \in Asked(page) THEN estimatedAmount[f] ELSE "unknown"]

\* GetOrderPayment finds no payment that has not reached the gateway.
OrderPayment(view) ==
    [view EXCEPT !.payment = IF @ = "CREATED" THEN "none" ELSE @]

\* A page as it opens, and the question it opens with. The report page shows
\* nothing of the order: what its user knows is what the page before showed.
Opened(page, visit, told) ==
    [page |-> page, visit |-> visit, view |-> Nothing, loading |-> TRUE,
     shown |-> FALSE, busy |-> FALSE, closed |-> FALSE,
     told |-> IF page = "report" THEN told ELSE "unknown"]

Load(visit) ==
    [kind |-> "load", visit |-> visit, seen |-> Nothing,
     state |-> "sent", data |-> Nothing]

-----------------------------------------------------------------------------
Unpaid == {"AGUARDANDO_APROVACAO", "AGUARDANDO_PAGAMENTO"}

\* The orders a tab may find, the payment being what the order's status needs.
\* The provider of an order not yet paid may have saved no PIX key so far.
PagesInit ==
    /\ \E status \in {"AGUARDANDO_APROVACAO", "AGUARDANDO_PAGAMENTO", "AGENDADO",
                      "EM_ANDAMENTO", "AGUARDANDO_CONFIRMACAO_CLIENTE"} :
         row = [status |-> status, reviewed |-> "no", dispute |-> "none",
                price |-> "agreed",
                payment |-> IF status \in Unpaid THEN "CREATED" ELSE "PAGO",
                attempt |-> IF status \in Unpaid THEN "none" ELSE "charged"]
    /\ side = "asBefore" \/ (side = "keyless" /\ row.payment = "CREATED")
    /\ role \in {"CLIENTE", "PRESTADOR"}
    /\ tab = Opened(IF role = "PRESTADOR" THEN "home" ELSE "details", 1, "unknown")
    /\ calls = {Load(1)}
    /\ timers = {}

-----------------------------------------------------------------------------
\* What the server takes, and what it makes of the order.
mayAccept == row.status = "AGUARDANDO_APROVACAO" /\ side # "blocked"

\* A payment on its way, or an attempt nobody knows the end of, is left alone.
mayCancel ==
    /\ row.status \in {"AGUARDANDO_APROVACAO", "AGUARDANDO_PAGAMENTO", "AGENDADO"}
    /\ row.payment # "PENDENTE"
    /\ row.payment = "CREATED" => row.attempt = "none"

findPayableOrder ==
    row.status \in {"AGENDADO", "AGUARDANDO_PAGAMENTO"} /\ side # "keyless"

\* A payment that has begun is answered as it is, unless its PIX lapsed unpaid.
\* An attempt sent off before is only looked for at the gateway.
mayPay ==
    /\ findPayableOrder
    /\ IF row.payment = "CREATED" THEN row.attempt # "sent"
       ELSE row.payment = "PAGO" \/ side # "lapsed"

transition(from) ==
    row.status = from /\ side # "blocked" /\ row.payment = "PAGO"

mayFinish(price) ==
    /\ row.status = "EM_ANDAMENTO" /\ row.payment = "PAGO"
    /\ side # "blocked" /\ price = row.price

mayConfirm ==
    /\ row.status = "AGUARDANDO_CONFIRMACAO_CLIENTE"
    /\ row.payment = "PAGO" /\ side # "held" /\ row.dispute # "open"

mayReport == row.status \in {"EM_ANDAMENTO", "AGUARDANDO_CONFIRMACAO_CLIENTE"}

mayReview == row.status = "CONCLUIDO" /\ row.reviewed = "no"

Possible(kind, price) ==
    CASE kind = "accept" -> mayAccept
      [] kind = "cancel" -> mayCancel
      [] kind = "pay" -> mayPay
      [] kind = "onTheWay" -> transition("AGENDADO")
      [] kind = "start" -> transition("EM_DESLOCAMENTO")
      [] kind = "finish" -> mayFinish(price)
      [] kind = "confirm" -> mayConfirm
      [] kind = "report" -> mayReport
      [] kind = "review" -> mayReview

After(kind) ==
    CASE kind = "accept" -> [row EXCEPT !.status = "AGUARDANDO_PAGAMENTO"]
      [] kind = "cancel" ->
           [row EXCEPT !.status = "CANCELADO",
                       !.payment = CASE @ = "PAGO" -> "REEMBOLSADO"
                                     [] @ = "CREATED" -> "CANCELADO"
                                     [] OTHER -> @]
      [] kind = "pay" ->
           IF row.payment = "CREATED"
           THEN [row EXCEPT !.payment = "PENDENTE", !.attempt = "charged"] ELSE row
      [] kind = "onTheWay" -> [row EXCEPT !.status = "EM_DESLOCAMENTO"]
      [] kind = "start" -> [row EXCEPT !.status = "EM_ANDAMENTO"]
      [] kind = "finish" -> [row EXCEPT !.status = "AGUARDANDO_CONFIRMACAO_CLIENTE"]
      [] kind = "confirm" -> [row EXCEPT !.status = "CONCLUIDO"]
      [] kind = "report" -> [row EXCEPT !.dispute = "open"]
      [] kind = "review" -> [row EXCEPT !.reviewed = "yes"]

Commands == {"accept", "cancel", "pay", "onTheWay", "start", "finish", "confirm",
             "report", "review"}

-----------------------------------------------------------------------------
\* What a payment request leaves that breaks off: the attempt kept, and perhaps
\* marked as sent, with a charge at the gateway or without.
BrokenOff ==
    {[row EXCEPT !.attempt = a] :
       a \in IF mayPay /\ row.payment = "CREATED" /\ row.attempt # "charged"
             THEN {row.attempt, "kept", "sent", "charged"} ELSE {row.attempt}}

\* The world beside the tab: the other party or another tab, the gateway, the
\* clock, the operators.
Elsewhere ==
    /\ \E kind \in Commands :
         /\ Possible(kind, row.price)
         /\ row' = After(kind)
         /\ row' # row
    /\ UNCHANGED <<side, role, tab, calls, timers>>

\* A payment request of another tab: it is between its mark and the gateway's
\* answer, or breaks off there.
PaysElsewhere ==
    /\ \/ row' \in BrokenOff
       \/ /\ row.payment = "CREATED" /\ row.attempt = "sent"
          /\ row' = [row EXCEPT !.attempt = "charged"]
    /\ UNCHANGED <<side, role, tab, calls, timers>>

PixPaid ==
    /\ row.payment = "PENDENTE"
    /\ row' = [row EXCEPT !.payment = "PAGO",
                          !.status = IF @ = "AGUARDANDO_PAGAMENTO"
                                     THEN "AGENDADO" ELSE @]
    /\ UNCHANGED <<side, role, tab, calls, timers>>

PaymentTakenBack ==
    /\ row.payment = "PAGO"
    /\ row' = [row EXCEPT !.payment = "REEMBOLSADO",
                          !.status = IF @ = "AGENDADO"
                                     THEN "AGUARDANDO_PAGAMENTO" ELSE @]
    /\ UNCHANGED <<side, role, tab, calls, timers>>

OrderExpires ==
    /\ row.status \in Unpaid
    /\ row.payment = "CREATED" /\ row.attempt = "none"
    /\ row' = [row EXCEPT !.status = "CANCELADO", !.payment = "CANCELADO"]
    /\ UNCHANGED <<side, role, tab, calls, timers>>

CaseClosed ==
    /\ row.dispute = "open"
    /\ row' = [row EXCEPT !.dispute = "closed"]
    /\ UNCHANGED <<side, role, tab, calls, timers>>

\* The provider is blocked, a refund or a block marks the payment, the service
\* gets another price, the PIX lapses; or the provider saves a PIX key.
SideMoves ==
    /\ \/ side = "asBefore" /\ side' \in {"blocked", "held", "repriced", "lapsed"}
       \/ side = "keyless" /\ side' = "asBefore"
    /\ UNCHANGED <<row, role, tab, calls, timers>>

-----------------------------------------------------------------------------
\* The pages. What the details page offers: steps it takes itself, and pages.
actions(view) ==
    IF role = "PRESTADOR"
    THEN CASE view.status = "AGENDADO" -> {"onTheWay"}
           [] view.status = "EM_DESLOCAMENTO" -> {"start"}
           [] view.status = "EM_ANDAMENTO" -> {"finish"}
           [] OTHER -> {}
    ELSE CASE /\ view.status \in {"AGENDADO", "AGUARDANDO_PAGAMENTO"}
              /\ view.payment # "PAGO" -> {"payment"}
           [] view.status = "AGUARDANDO_CONFIRMACAO_CLIENTE" -> {"confirm", "report"}
           [] view.status = "CONCLUIDO" /\ view.reviewed = "no" -> {"review"}
           [] OTHER -> {}

homeRoutes(view) ==
    CASE view.status = "AGUARDANDO_APROVACAO" -> {"approval"}
      [] view.status = "EM_ANDAMENTO" -> {"details", "finish"}
      [] view.status = "unknown" -> {}
      [] OTHER -> {"details"}

\* Whether the details page has an order before it: one that asks again hides
\* what it had, and goes back to it when the answer fails.
OnScreen == tab.shown /\ ~tab.loading

\* Fault: the confirmation page leads to the report whatever it shows.
reportAnyway == {"details", "report"}

confirmRoutes ==
    {"details"} \cup
    (IF /\ tab.shown /\ ~tab.closed
        /\ tab.view.status = "AGUARDANDO_CONFIRMACAO_CLIENTE" THEN {"report"} ELSE {})

\* Where the links of the page lead.
Links ==
    CASE tab.page = "home" -> homeRoutes(tab.view)
      [] tab.page = "details" ->
           (IF OnScreen /\ ~tab.busy THEN actions(tab.view) \ {"onTheWay", "start"} ELSE {})
           \cup (IF role = "PRESTADOR" /\ ~tab.loading THEN {"home"} ELSE {})
      [] tab.page = "approval" -> {"home"}
      [] tab.page = "confirm" -> confirmRoutes
      [] OTHER -> {"details"}

\* Fault: the finish page trusts the link that led to it.
finishUnasked == tab.shown

canFinish == tab.view.status = "EM_ANDAMENTO"

Offered ==
    CASE tab.page = "home" ->
           (IF tab.view.status = "AGUARDANDO_APROVACAO" THEN {"accept"} ELSE {})
           \cup (actions(tab.view) \cap {"onTheWay", "start"})
      [] tab.page = "details" /\ OnScreen -> actions(tab.view) \cap {"onTheWay", "start"}
      [] tab.page = "approval" /\ tab.shown
         /\ tab.view.status = "AGUARDANDO_APROVACAO" -> {"accept", "cancel"}
      [] tab.page = "payment" /\ tab.shown /\ tab.view.payment = "none" -> {"pay"}
      [] tab.page = "finish" /\ tab.shown /\ canFinish -> {"finish"}
      [] tab.page = "confirm" /\ tab.shown
         /\ tab.view.status = "AGUARDANDO_CONFIRMACAO_CLIENTE" -> {"confirm"}
      [] tab.page = "report" /\ tab.view.dispute # "open" -> {"report"}
      [] tab.page = "review" /\ tab.shown -> {"review"}
      [] OTHER -> {}

-----------------------------------------------------------------------------
\* What was asked for a page that was left has nobody to answer to.
MoveTo(page, rest) ==
    /\ tab.visit < MaxPages
    /\ tab' = Opened(page, tab.visit + 1, tab.view.status)
    /\ calls' = {c \in rest : c.kind \in Commands} \cup {Load(tab.visit + 1)}

Follow ==
    /\ \E page \in Links : MoveTo(page, calls)
    /\ UNCHANGED <<row, side, role, timers>>

TimerFires ==
    /\ \E page \in timers : MoveTo(page, calls) /\ timers' = timers \ {page}
    /\ UNCHANGED <<row, side, role>>

\* "Atualizar" of the panel, "Tentar novamente" of the others.
Reload ==
    /\ tab.page \in {"home", "details", "approval"}
    /\ ~tab.loading /\ (tab.page = "home" \/ ~tab.shown)
    /\ Cardinality(calls) < MaxRequests
    /\ tab' = [tab EXCEPT !.loading = TRUE]
    /\ calls' = calls \cup {Load(tab.visit)}
    /\ UNCHANGED <<row, side, role, timers>>

\* The payment page asks again by itself while the PIX waits, or when told to.
refreshPayment ==
    /\ tab.page = "payment" /\ tab.shown
    /\ Cardinality(calls) < MaxRequests
    /\ calls' = calls \cup {[Load(tab.visit) EXCEPT !.kind = "poll"]}
    /\ UNCHANGED <<row, side, role, tab, timers>>

\* What the tab has shown of the order before a command is sent.
Seen == [tab.view EXCEPT !.status = IF tab.page = "report" THEN tab.told ELSE @]

Submit ==
    /\ ~tab.busy /\ ~tab.closed
    /\ Cardinality(calls) < MaxRequests
    /\ \E kind \in Offered :
         calls' = calls \cup {[kind |-> kind, visit |-> tab.visit, seen |-> Seen,
                              state |-> "sent", data |-> Nothing]}
    /\ tab' = [tab EXCEPT !.busy = TRUE]
    /\ UNCHANGED <<row, side, role, timers>>

-----------------------------------------------------------------------------
\* The server answers. A query of the payment page may fail by itself, which
\* the page takes for a payment that was not started.
ServeQuery ==
    \E c \in calls :
       /\ c.state = "sent" /\ c.kind \in {"load", "poll"}
       /\ LET view == OrderDetails(tab.page)
              views == IF tab.page = "payment"
                       THEN {OrderPayment(view), [view EXCEPT !.payment = "none"]}
                       ELSE {view}
          IN \/ \E v \in views :
                  calls' = (calls \ {c}) \cup {[c EXCEPT !.state = "ok", !.data = v]}
             \/ calls' = (calls \ {c}) \cup {[c EXCEPT !.state = "failed"]}
       /\ UNCHANGED <<row, side, role, tab, timers>>

\* A command is refused, or carried out; whether it was or not, the answer may
\* get lost, and a payment may break off halfway.
ServeCommand ==
    \E c \in calls :
       /\ c.state = "sent" /\ c.kind \in Commands
       /\ \/ /\ Possible(c.kind, c.seen.price)
             /\ row' = After(c.kind)
             /\ calls' \in {(calls \ {c}) \cup
                            {[c EXCEPT !.state = s, !.data.payment = row'.payment]} :
                              s \in {"ok", "failed"}}
          \/ /\ ~Possible(c.kind, c.seen.price)
             /\ calls' = (calls \ {c}) \cup {[c EXCEPT !.state = "refused"]}
             /\ UNCHANGED row
          \/ /\ calls' = (calls \ {c}) \cup {[c EXCEPT !.state = "failed"]}
             /\ row' \in IF c.kind = "pay" THEN BrokenOff ELSE {row}
       /\ UNCHANGED <<side, role, tab, timers>>

-----------------------------------------------------------------------------
\* The answer of a load. The review page shows only what may be reviewed.
Loaded ==
    \E c \in calls :
       /\ c.state # "sent" /\ c.kind = "load"
       /\ IF /\ tab.page = "review" /\ c.state = "ok"
             /\ (c.data.status # "CONCLUIDO" \/ c.data.reviewed = "yes")
          THEN MoveTo("details", calls \ {c})
          ELSE /\ tab' = IF c.state = "ok"
                         THEN [tab EXCEPT !.view = c.data, !.loading = FALSE,
                                          !.shown = TRUE]
                         ELSE [tab EXCEPT !.loading = FALSE]
               /\ calls' = calls \ {c}
       /\ UNCHANGED <<row, side, role, timers>>

Polled ==
    \E c \in calls :
       /\ c.state # "sent" /\ c.kind = "poll"
       /\ tab' = IF c.state = "ok" /\ c.data.payment # "none"
                 THEN [tab EXCEPT !.view.payment = c.data.payment] ELSE tab
       /\ calls' = calls \ {c}
       /\ UNCHANGED <<row, side, role, timers>>

\* How each page takes the answer to its command. The panel and the details ask
\* again after a success; the approval page is closed by its message, the review
\* page by its thanks, and the confirmation page by any error.
updateRequestStatus(c, ok) ==
    [tab EXCEPT !.busy = FALSE, !.loading = @ \/ ok,
                !.view.status = IF ok /\ c.kind = "accept"
                                THEN "AGUARDANDO_PAGAMENTO" ELSE @]

runAction(c, ok) ==
    [tab EXCEPT !.busy = FALSE, !.loading = @ \/ ok]

respond(c, ok) == [tab EXCEPT !.busy = FALSE, !.closed = ok]

pay(c, ok) ==
    [tab EXCEPT !.busy = FALSE, !.view.payment = IF ok THEN c.data.payment ELSE @]

finish(c, ok) == [tab EXCEPT !.busy = FALSE]

confirm(c, ok) == [tab EXCEPT !.busy = FALSE, !.closed = ~ok]

report(c, ok) == [tab EXCEPT !.busy = FALSE]

review(c, ok) == [tab EXCEPT !.busy = FALSE, !.closed = ok]

Answer(c, ok) ==
    CASE tab.page = "home" -> updateRequestStatus(c, ok)
      [] tab.page = "details" -> runAction(c, ok)
      [] tab.page = "approval" -> respond(c, ok)
      [] tab.page = "payment" -> pay(c, ok)
      [] tab.page = "finish" -> finish(c, ok)
      [] tab.page = "confirm" -> confirm(c, ok)
      [] tab.page = "report" -> report(c, ok)
      [] tab.page = "review" -> review(c, ok)

AsksAgain ==
    tab.page \in {"details", "report"} \/ (tab.page = "home" /\ ~tab.loading)

\* Where a command that was carried out leads after a while, whatever page is
\* open by then.
NextPage(kind) ==
    CASE kind \in {"finish", "review"} -> {"details"}
      [] kind = "confirm" -> {"review"}
      [] OTHER -> {}

Answered ==
    \E c \in calls :
       /\ c.state # "sent" /\ c.kind \in Commands
       /\ LET here == c.visit = tab.visit
              ok == c.state = "ok"
          IN /\ tab' = IF here THEN Answer(c, ok) ELSE tab
             /\ calls' = (calls \ {c}) \cup
                         (IF here /\ ok /\ AsksAgain THEN {Load(tab.visit)} ELSE {})
             /\ timers' = IF ok THEN timers \cup NextPage(c.kind) ELSE timers
       /\ UNCHANGED <<row, side, role>>

PagesNext ==
    \/ Elsewhere \/ PaysElsewhere \/ PixPaid \/ PaymentTakenBack \/ OrderExpires \/ CaseClosed
    \/ SideMoves \/ Follow \/ TimerFires \/ Reload \/ refreshPayment \/ Submit
    \/ ServeQuery \/ ServeCommand \/ Loaded \/ Polled \/ Answered

PagesSpec == PagesInit /\ [][PagesNext]_pagesVars

-----------------------------------------------------------------------------
\* What no page shows, or shows without drawing a conclusion. The payment page
\* knows neither that the provider cannot be paid yet nor that an attempt was
\* sent off before: it shows both as a payment to begin.
Untold(kind) ==
    CASE kind = "accept" -> side = "blocked"
      [] kind \in {"onTheWay", "start", "finish"} ->
           side = "blocked" \/ row.payment # "PAGO"
      [] kind = "confirm" ->
           side = "held" \/ row.dispute = "open" \/ row.payment # "PAGO"
      [] kind = "pay" ->
           side = "keyless" \/ (row.payment = "CREATED" /\ row.attempt = "sent")
      [] OTHER -> FALSE

\* The page shows something that is not so (any more). One that shows a payment
\* as not begun is right about one that has not reached the gateway; about
\* another it was overtaken, or its query failed.
Stale(seen) ==
    \E f \in Fields \ {"price"} :
       seen[f] \notin {"unknown", row[f], OrderPayment(row)[f]}

\* A command is refused only because the tab showed of the order what is not so
\* (any more), or for one of the reasons no page shows: the pages offer what
\* the handlers take, with the price the order has, and the report page is
\* reached only from an order that may be reported.
RefusalMeansStale ==
    [][\A c \in calls :
          (/\ c.state = "sent"
           /\ [c EXCEPT !.state = "refused"] \in calls' \ calls)
          => Stale(c.seen) \/ Untold(c.kind)]_pagesVars

=============================================================================
