---------------------------- MODULE ConsolePages ----------------------------
(***************************************************************************)
(* Pages of the back office beside what they list. A list (the queue of    *)
(* providers, or the audit log) follows the query of the address, and the  *)
(* figures (the dashboard, or the funnel) a period that is chosen: every   *)
(* change of either asks anew, and an answer is shown as it comes. The     *)
(* page of the operators keeps the role chosen in every row until the list *)
(* is loaded again, and confirms each command in a dialog. The record of a *)
(* provider is put together from reads made one after the other.           *)
(***************************************************************************)
EXTENDS Integers, FiniteSets, Sequences

CONSTANTS
    LastInstant,   \* bound: instants, two to a day
    ListLimit,     \* rows of a page
    MaxTurns,      \* bound: what the operator does to a list
    Staff,         \* bound: the operators listed
    MaxErrands,    \* bound: commands and refreshes of the page of operators
    MaxChanges,    \* bound: what the others change there
    MaxRulings,    \* bound: decisions on the provider
    MaxLoads       \* bound: how often the record is read

ASSUME PagesAssumption == LastInstant \in Nat

VARIABLES
    kind, url, filters, display, calls, entries, turns,   \* a list
    staff, sheet, errands, done,                        \* the operators
    rulings, record, reads                              \* a provider's record

listVars == <<kind, url, filters, display, calls, entries, turns>>
staffVars == <<staff, sheet, errands, done>>
recordVars == <<rulings, record, reads>>

-----------------------------------------------------------------------------
Lists == {"queue", "audit"}
Figures == {"dashboard", "funnel"}

\* What a list is asked for. A date is an instant; -1 is none.
Whole == [page |-> 1, value |-> "", from |-> -1, to |-> -1]

Statuses == {"PENDING", "APPROVED"}

\* What is not a page, or a status, counts as not given. The log takes any text.
queryFromParamMap(u) ==
    [u EXCEPT !.page = IF @ > 0 THEN @ ELSE 1,
              !.value = IF kind = "queue" /\ @ \notin Statuses THEN "" ELSE @]

\* The form shows days: the first instant of one and the last.
toIsoStart(t) == IF t = -1 THEN -1 ELSE 2 * (t \div 2)

\* Fault: the last day ends when it begins.
endsAtMidnight(t) == toIsoStart(t)

toIsoEnd(t) == IF t = -1 THEN -1 ELSE 2 * (t \div 2) + 1

FormOf(u) == [value |-> queryFromParamMap(u).value, from |-> u.from, to |-> u.to]

applied(f) == [page |-> 1, value |-> f.value, from |-> toIsoStart(f.from),
               to |-> toIsoEnd(f.to)]

\* The rows a query is about; newest first, a page at a time.
buildWhere(e, q) ==
    /\ q.value = "" \/ e.value = q.value
    /\ q.from = -1 \/ e.at >= q.from
    /\ q.to = -1 \/ e.at <= q.to

Listed(q) == {e \in entries : buildWhere(e, q)}

Newer(e, q) == {o \in Listed(q) : o.at > e.at \/ (o.at = e.at /\ o.id > e.id)}

list(q) ==
    [page  |-> q.page,
     pages |-> IF Listed(q) = {} THEN 1
               ELSE (Cardinality(Listed(q)) + ListLimit - 1) \div ListLimit,
     rows  |-> {e \in Listed(q) :
                  Cardinality(Newer(e, q)) \div ListLimit = q.page - 1}]

Entry(i) == [id |-> i, at |-> i, value |-> IF i = 2 THEN "APPROVED" ELSE "PENDING"]

NoPage == [page |-> 0, pages |-> 0, rows |-> {}]

Call(u) == [n |-> turns + 1, query |-> queryFromParamMap(u), answered |-> FALSE,
            page |-> NoPage]

\* Requests of before go on.
Ask(u) ==
    /\ calls' = calls \cup {Call(u)}
    /\ display' = [display EXCEPT !.loading = TRUE]

\* A change of the address sets the form and asks; the same address does nothing.
navigate(u) ==
    /\ url' = u
    /\ IF u = url THEN UNCHANGED <<filters, calls, display>>
       ELSE filters' = FormOf(u) /\ Ask(u)

Turn == turns < MaxTurns /\ turns' = turns + 1 /\ UNCHANGED <<kind, entries>>

applyFilters == Turn /\ kind \in Lists /\ navigate(applied(filters))

clearFilters == Turn /\ kind \in Lists /\ navigate(applied(FormOf(Whole)))

updateFilter ==
    /\ Turn
    /\ kind \in Lists
    /\ \E f \in {[filters EXCEPT !.value = v] : v \in Statuses \cup {""}}
             \cup {[filters EXCEPT !.from = t] : t \in {-1, 2}}
             \cup {[filters EXCEPT !.to = t] : t \in {-1, 2}} :
         f # filters /\ filters' = f
    /\ UNCHANGED <<url, display, calls>>

\* The page after, or before, the one that is shown, of the query of the address.
goToPage ==
    /\ Turn
    /\ kind \in Lists
    /\ ~display.loading /\ display.page.page # 0
    /\ \E page \in {display.page.page - 1, display.page.page + 1} :
         /\ page >= 1 /\ page <= display.page.pages
         /\ navigate([queryFromParamMap(url) EXCEPT !.page = page])

\* The days a choice of period stands for, and the period of whoever chooses none:
\* the backend answers it with the instants it took. A card of the dashboard leads
\* to the queue with such a period and a status.
queryForPeriod ==
    {[Whole EXCEPT !.from = from, !.to = LastInstant] : from \in {0, 2}}

resolveDashboardWindow ==
    queryForPeriod \cup {[Whole EXCEPT !.from = t, !.to = t + 1] : t \in {0, 1}}

metricCards ==
    UNION {{[w EXCEPT !.page = 0, !.value = v] : w \in resolveDashboardWindow} : v \in Statuses}

\* A card, or a kept link with anything in it, is followed.
FollowLink ==
    /\ Turn
    /\ kind \in Lists
    /\ \E u \in (IF kind = "queue" THEN metricCards ELSE {})
                \cup {[Whole EXCEPT !.page = 0, !.value = "other"]} :
         navigate(u)

\* Figures are asked for whenever a period is chosen.
changePeriod ==
    /\ Turn
    /\ kind \in Figures
    /\ \E u \in queryForPeriod \cup {Whole} : url' = u /\ Ask(u)
    /\ UNCHANGED filters

retry ==
    /\ Turn
    /\ kind \in Figures /\ ~display.loading /\ display.page = NoPage
    /\ Ask(url)
    /\ UNCHANGED <<url, filters>>

\* The count and the rows are of one moment; or the request fails.
ServeList ==
    /\ \E c \in calls :
         /\ ~c.answered
         /\ \E page \in {list(c.query), NoPage} :
              calls' = (calls \ {c}) \cup {[c EXCEPT !.answered = TRUE, !.page = page]}
    /\ UNCHANGED <<kind, url, filters, display, entries, turns>>

\* The answer that comes last is shown, also one to an earlier question.
Display(page) == display' = [page |-> page, loading |-> FALSE]

ListLoaded ==
    /\ \E c \in calls : c.answered /\ calls' = calls \ {c} /\ Display(c.page)
    /\ UNCHANGED <<kind, url, filters, entries, turns>>

\* Somebody registers, or an operation is audited.
EntryAppears ==
    /\ Cardinality(entries) < LastInstant
    /\ entries' = entries \cup {Entry(LastInstant)}
    /\ UNCHANGED <<kind, url, filters, display, calls, turns>>
ListInit ==
    /\ kind \in Lists \cup Figures
    /\ url = Whole
    /\ filters = FormOf(Whole)
    /\ turns = 0
    /\ entries = {Entry(i) : i \in 1 .. LastInstant - 1}
    /\ calls = {[n |-> 0, query |-> queryFromParamMap(Whole), answered |-> FALSE,
                 page |-> NoPage]}
    /\ display = [page |-> NoPage, loading |-> TRUE]

ListNext ==
    \/ applyFilters \/ clearFilters \/ updateFilter \/ goToPage \/ FollowLink
    \/ changePeriod \/ retry
    \/ ServeList \/ ListLoaded \/ EntryAppears

-----------------------------------------------------------------------------
\* The operators: invited, then active or not. A sheet is their list as it was
\* loaded, the role chosen in every row, and the dialog.
StaffRoles == {"ADMINISTRATOR", "SUPPORT", "FINANCE"}

NoConfirmation == [command |-> "none", who |-> 0, role |-> "none", next |-> "none"]

NoSheet == [o \in Staff |-> [role |-> "none", state |-> "none"]]

RolesListed(page) == [o \in Staff |-> page[o].role]

StaffInit ==
    /\ staff \in [Staff -> [role : {"SUPPORT"}, state : {"invited", "active"}]]
    /\ sheet = [page |-> NoSheet, pendingRole |-> RolesListed(NoSheet), listed |-> RolesListed(NoSheet),
                dialog |-> NoConfirmation, submitting |-> FALSE, loading |-> TRUE]
    /\ errands = {[n |-> 0, kind |-> "list", answered |-> FALSE, page |-> NoSheet,
                   dialog |-> NoConfirmation, answer |-> "none"]}
    /\ done = [mine |-> 0, others |-> 0, sent |-> 0]

Errand(what, dialog) ==
    [n |-> done.sent + 1, kind |-> what, answered |-> FALSE, page |-> NoSheet,
     dialog |-> dialog, answer |-> "none"]

Sends == done.mine < MaxErrands /\ done' = [done EXCEPT !.mine = @ + 1, !.sent = @ + 1]

\* The list is there to be used when it is not being loaded for a new address.
InUse == ~sheet.loading /\ sheet.page # NoSheet

\* "listed" is what the row said when its role was chosen; no code reads it.
updateSelectedRole ==
    /\ InUse
    /\ \E o \in Staff, r \in StaffRoles :
         /\ r # sheet.pendingRole[o]
         /\ sheet' = [sheet EXCEPT !.pendingRole[o] = r,
                                  !.listed[o] = sheet.page[o].role]
    /\ UNCHANGED <<staff, errands, done>>

openConfirmation(command, o, next) ==
    sheet' = [sheet EXCEPT !.dialog = [command |-> command, who |-> o,
                                       role |-> sheet.page[o].role, next |-> next]]

openRoleChange ==
    /\ InUse /\ ~sheet.submitting
    /\ \E o \in Staff :
         /\ sheet.pendingRole[o] # sheet.page[o].role
         /\ openConfirmation("ROLE", o, sheet.pendingRole[o])
    /\ UNCHANGED <<staff, errands, done>>

\* What a row offers: who is active is deactivated, who was is activated, and who
\* never was is invited again.
CommandFor(row) ==
    CASE row.state = "active" -> "DEACTIVATE"
      [] row.state = "inactive" -> "ACTIVATE"
      [] OTHER -> "RESEND"

openCommand ==
    /\ InUse /\ ~sheet.submitting
    /\ \E o \in Staff :
         openConfirmation(CommandFor(sheet.page[o]), o, sheet.page[o].role)
    /\ UNCHANGED <<staff, errands, done>>

closeConfirmation ==
    /\ sheet.dialog # NoConfirmation
    /\ sheet' = [sheet EXCEPT !.dialog = NoConfirmation]
    /\ UNCHANGED <<staff, errands, done>>

\* The request is made of the dialog, as it was opened.
confirmCommand ==
    /\ Sends
    /\ sheet.dialog # NoConfirmation /\ ~sheet.submitting
    /\ sheet' = [sheet EXCEPT !.submitting = TRUE]
    /\ errands' = errands \cup {Errand("command", sheet.dialog)}
    /\ UNCHANGED staff

\* Filters, and pages, load the list again, whatever is under way.
loadStaff ==
    /\ Sends
    /\ sheet' = [sheet EXCEPT !.loading = TRUE]
    /\ errands' = errands \cup {Errand("list", NoConfirmation)}
    /\ UNCHANGED staff

\* The requests of the dialog: an invitation sets the role it names, of who never
\* was active.
requestFor(d) ==
    CASE d.command = "ROLE" -> [staff[d.who] EXCEPT !.role = d.next]
      [] d.command = "ACTIVATE" -> [staff[d.who] EXCEPT !.state = "active"]
      [] d.command = "DEACTIVATE" -> [staff[d.who] EXCEPT !.state = "inactive"]
      [] OTHER -> [staff[d.who] EXCEPT !.role = d.role]

mayBeServed(d) ==
    CASE d.command = "ROLE" -> staff[d.who].role # d.next
      [] d.command = "ACTIVATE" -> staff[d.who].state = "inactive"
      [] d.command = "RESEND" -> staff[d.who].state = "invited"
      [] OTHER -> staff[d.who].state = "active"

ServeStaff ==
    /\ \E e \in errands :
         /\ ~e.answered
         /\ \/ /\ e.kind = "list"
               /\ \E page \in {staff, NoSheet} :
                    errands' = (errands \ {e}) \cup
                                 {[e EXCEPT !.answered = TRUE, !.page = page]}
               /\ UNCHANGED staff
            \/ /\ e.kind = "command" /\ mayBeServed(e.dialog)
               /\ staff' = [staff EXCEPT ![e.dialog.who] = requestFor(e.dialog)]
               /\ errands' = (errands \ {e}) \cup
                                {[e EXCEPT !.answered = TRUE, !.answer = "done"]}
            \/ /\ e.kind = "command"
               /\ \E answer \in {"conflict", "failed"} :
                    errands' = (errands \ {e}) \cup
                                 {[e EXCEPT !.answered = TRUE, !.answer = answer]}
               /\ UNCHANGED staff
    /\ UNCHANGED <<sheet, done>>

\* Fault: choices not confirmed yet outlive the list they were made on.
keepsChoices(page) ==
    [o \in Staff |-> IF sheet.pendingRole[o] # sheet.page[o].role THEN sheet.pendingRole[o]
                     ELSE page[o].role]

\* A list that is loaded takes every choice back.
pendingRole(page) == RolesListed(page)

StaffLoaded ==
    /\ \E e \in errands :
         /\ e.answered /\ e.kind = "list"
         /\ errands' = errands \ {e}
         /\ sheet' = IF e.page = NoSheet THEN [sheet EXCEPT !.page = NoSheet, !.loading = FALSE]
                     ELSE [sheet EXCEPT !.page = e.page, !.loading = FALSE,
                                        !.pendingRole = pendingRole(e.page)]
    /\ UNCHANGED <<staff, done>>

\* After a command, or a conflict, the list is loaded behind the old one.
CommandDone ==
    /\ \E e \in errands :
         /\ e.answered /\ e.kind = "command"
         /\ sheet' = [sheet EXCEPT !.dialog = NoConfirmation, !.submitting = FALSE]
         /\ IF e.answer = "failed"
            THEN errands' = errands \ {e} /\ UNCHANGED done
            ELSE /\ errands' = (errands \ {e}) \cup {Errand("list", NoConfirmation)}
                 /\ done' = [done EXCEPT !.sent = @ + 1]
    /\ UNCHANGED staff

ChangedElsewhere ==
    /\ done.others < MaxChanges
    /\ done' = [done EXCEPT !.others = @ + 1]
    /\ \E o \in Staff :
         \/ \E r \in StaffRoles \ {staff[o].role} : staff' = [staff EXCEPT ![o].role = r]
         \/ \E s \in {"active", "inactive"} \ {staff[o].state} :
              staff' = [staff EXCEPT ![o].state = s]
    /\ UNCHANGED <<sheet, errands>>

StaffNext ==
    \/ updateSelectedRole \/ openRoleChange \/ openCommand \/ closeConfirmation
    \/ confirmCommand \/ loadStaff \/ ServeStaff \/ StaffLoaded \/ CommandDone
    \/ ChangedElsewhere

-----------------------------------------------------------------------------
\* A provider's record: the statuses the decisions led through, the first one
\* without a decision. What the page shows is numbered by how many decisions it
\* knows of; -1 is nothing.
Unread == [status |-> -1, decided |-> -1, history |-> -1]

NoRuling == [from |-> "none", to |-> "none", answer |-> "none"]

RecordInit ==
    /\ rulings \in {<<"PENDING">>, <<"PENDING", "APPROVED">>}
    /\ record = [shown |-> Unread, loading |-> TRUE, ruling |-> NoRuling, loads |-> 1]
    /\ reads = {[n |-> 0, of |-> Unread]}

Decided == Len(rulings) - 1

Rulings == {<<"PENDING", "APPROVED">>, <<"PENDING", "REJECTED">>,
                <<"APPROVED", "BLOCKED">>, <<"BLOCKED", "APPROVED">>}

\* Details and history are asked at once.
LoadRecord(showLoading) ==
    /\ reads' = reads \cup {[n |-> record.loads, of |-> Unread]}
    /\ record' = [record EXCEPT !.loads = @ + 1, !.loading = @ \/ showLoading,
                                !.ruling = NoRuling]

\* The details are two reads: the provider, and what was decided of it.
getDetails ==
    /\ \E r \in reads :
         /\ r.of.status = -1
         /\ reads' = (reads \ {r}) \cup {[r EXCEPT !.of.status = Decided]}
    /\ UNCHANGED <<rulings, record>>

\* Fault: the decisions are read beside the provider.
readAtOnce(r) == TRUE

mayReadDecisions(r) == r.of.status # -1

ReadDecisions ==
    /\ \E r \in reads :
         /\ r.of.decided = -1 /\ mayReadDecisions(r)
         /\ reads' = (reads \ {r}) \cup {[r EXCEPT !.of.decided = Decided]}
    /\ UNCHANGED <<rulings, record>>

getHistory ==
    /\ \E r \in reads :
         /\ r.of.history = -1
         /\ reads' = (reads \ {r}) \cup {[r EXCEPT !.of.history = Decided]}
    /\ UNCHANGED <<rulings, record>>

\* All of it is shown together, or none of it.
RecordLoaded ==
    /\ \E r \in reads :
         /\ reads' = reads \ {r}
         /\ \/ /\ -1 \notin {r.of.status, r.of.decided, r.of.history}
               /\ record' = [record EXCEPT !.shown = r.of, !.loading = FALSE]
            \/ record' = [record EXCEPT !.shown = Unread, !.loading = FALSE]
    /\ UNCHANGED rulings

\* A decision is sent of the status that is shown, and holds only of that one.
SubmitRuling ==
    /\ record.ruling = NoRuling /\ record.loads < MaxLoads
    /\ ~record.loading /\ record.shown.status # -1
    /\ \E t \in Rulings :
         /\ t[1] = rulings[record.shown.status + 1]
         /\ record' = [record EXCEPT !.ruling = [from |-> t[1], to |-> t[2],
                                                answer |-> "none"]]
    /\ UNCHANGED <<rulings, reads>>

ServeRuling ==
    /\ record.ruling # NoRuling /\ record.ruling.answer = "none"
    /\ \/ /\ Decided < MaxRulings /\ rulings[Len(rulings)] = record.ruling.from
          /\ rulings' = Append(rulings, record.ruling.to)
          /\ record' = [record EXCEPT !.ruling.answer = "done"]
       \/ /\ rulings[Len(rulings)] # record.ruling.from
          /\ record' = [record EXCEPT !.ruling.answer = "conflict"]
          /\ UNCHANGED rulings
       \/ record' = [record EXCEPT !.ruling.answer = "failed"] /\ UNCHANGED rulings
    /\ UNCHANGED reads

\* Done or in conflict, the record is read again behind the old one.
RulingAnswered ==
    /\ record.ruling.answer # "none"
    /\ IF record.ruling.answer = "failed"
       THEN record' = [record EXCEPT !.ruling = NoRuling] /\ UNCHANGED reads
       ELSE LoadRecord(FALSE)
    /\ UNCHANGED rulings

\* The address names the record again.
VisitRecord ==
    /\ record.ruling = NoRuling /\ record.loads < MaxLoads
    /\ LoadRecord(TRUE)
    /\ UNCHANGED rulings

RuledElsewhere ==
    /\ Decided < MaxRulings
    /\ \E t \in Rulings :
         t[1] = rulings[Len(rulings)] /\ rulings' = Append(rulings, t[2])
    /\ UNCHANGED <<record, reads>>

RecordNext ==
    \/ getDetails \/ ReadDecisions \/ getHistory \/ RecordLoaded
    \/ SubmitRuling \/ ServeRuling \/ RulingAnswered \/ VisitRecord \/ RuledElsewhere

ConsoleSpec ==
    /\ ListInit /\ StaffInit /\ RecordInit
    /\ [][ListNext /\ UNCHANGED <<staffVars, recordVars>>]_listVars
    /\ [][StaffNext /\ UNCHANGED <<listVars, recordVars>>]_staffVars
    /\ [][RecordNext /\ UNCHANGED <<listVars, staffVars>>]_recordVars

-----------------------------------------------------------------------------
\* Filters applied as the address set them keep every row the address listed,
\* whatever period a figure of the dashboard, or a kept link, put there: a
\* period is only ever widened to whole days.
ReapplyingKeepsRows ==
    \A e \in entries : buildWhere(e, queryFromParamMap(url)) =>
                         buildWhere(e, queryFromParamMap(applied(FormOf(url))))

\* A role chosen for an operator was chosen of the role that the list shows of
\* them now: no refresh, conflict or late answer leaves a choice standing beside
\* a role it was not made of.
RoleChosenAsListed ==
    \A o \in Staff :
        sheet.page # NoSheet /\ sheet.pendingRole[o] # sheet.page[o].role =>
            sheet.listed[o] = sheet.page[o].role

\* A record never shows a status without the decision that led to it, also when
\* decisions are taken while it is read, and when reads of it overtake each other.
RecordShowsItsDecision == record.shown.status <= record.shown.decided

=============================================================================
