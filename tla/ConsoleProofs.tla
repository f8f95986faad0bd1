---------------------------- MODULE ConsoleProofs ----------------------------
(***************************************************************************)
(* Proofs about the back office: its pages, the tab with its session, what *)
(* the operators list and count, the catalogue they keep, and the log.     *)
(***************************************************************************)
EXTENDS Backoffice, FunnelMetrics, ProviderQueue, ConsolePages, Catalogue,
    Observability, FunctionTheorems, FiniteSetTheorems, SequenceTheorems,
    WellFoundedInduction, TLAPS

-----------------------------------------------------------------------------
(* The record of a provider.                                               *)

Standings == {"PENDING", "APPROVED", "REJECTED", "BLOCKED", "none"}

\* What was read of a record, by now: the status is known of no more decisions
\* than are, and the decisions only after the status.
ReadInv(of) ==
    /\ DOMAIN of = {"status", "decided", "history"}
    /\ of.status \in -1 .. Decided /\ of.decided \in -1 .. Decided
    /\ of.decided # -1 => of.status # -1
    /\ of.status <= of.decided \/ of.decided = -1

RecordInv ==
    /\ rulings \in Seq(Standings) /\ Len(rulings) >= 1
    /\ DOMAIN record = {"shown", "loading", "ruling", "loads"}
    /\ DOMAIN record.ruling = {"from", "to", "answer"}
    /\ record.ruling.to \in Standings
    /\ \A r \in reads : DOMAIN r = {"n", "of"} /\ ReadInv(r.of)
    /\ ReadInv(record.shown) /\ RecordShowsItsDecision

\* Decisions only come in addition.
LEMMA ReadsStayTrue ==
  ASSUME NEW of, ReadInv(of), Decided \in Int, Decided' \in Int, Decided <= Decided'
  PROVE  ReadInv(of)'
  BY DEF ReadInv

LEMMA RulingComes ==
  ASSUME RecordInv, NEW to \in Standings, rulings' = Append(rulings, to)
  PROVE  rulings' \in Seq(Standings) /\ Len(rulings') >= 1 /\ Decided <= Decided'
  BY DEF RecordInv, Decided

LEMMA RecordStep ==
  ASSUME RecordInv, [RecordNext]_recordVars
  PROVE  RecordInv'
  <1>d. Decided \in Nat /\ rulings \in Seq(Standings) /\ Len(rulings) >= 1
    BY DEF RecordInv, Decided
  <1>1. ASSUME UNCHANGED <<rulings, record>>, NEW r \in reads, NEW of, ReadInv(of),
               reads' = (reads \ {r}) \cup {[r EXCEPT !.of = of]}
        PROVE  RecordInv'
    <2> DEFINE new == [r EXCEPT !.of = of]
    <2>1. DOMAIN new = {"n", "of"} /\ new.of = of
      BY <1>1 DEF RecordInv
    <2>2. reads' = (reads \ {r}) \cup {new}
      BY <1>1
    <2> HIDE DEF new
    <2>3. \A x \in reads' : DOMAIN x = {"n", "of"} /\ ReadInv(x.of)
      BY <1>1, <2>1, <2>2 DEF RecordInv
    <2> QED
      BY <1>1, <2>3 DEF RecordInv, ReadInv, Decided, RecordShowsItsDecision
  <1>2. CASE getDetails
    <2>1. PICK r \in reads :
            /\ r.of.status = -1
            /\ reads' = (reads \ {r}) \cup {[r EXCEPT !.of.status = Decided]}
      BY <1>2 DEF getDetails
    <2>d. DOMAIN r = {"n", "of"} /\ ReadInv(r.of)
      BY DEF RecordInv
    <2> DEFINE of == [r.of EXCEPT !.status = Decided]
    <2>2. ReadInv(of)
      BY <1>d, <2>1, <2>d DEF ReadInv
    <2>3. [r EXCEPT !.of.status = Decided] = [r EXCEPT !.of = of]
      BY <2>d
    <2> HIDE DEF of
    <2> QED
      BY <1>1, <1>2, <2>1, <2>2, <2>3 DEF getDetails
  <1>3. CASE ReadDecisions
    <2>1. PICK r \in reads :
            /\ r.of.decided = -1 /\ r.of.status # -1
            /\ reads' = (reads \ {r}) \cup {[r EXCEPT !.of.decided = Decided]}
      BY <1>3 DEF ReadDecisions, mayReadDecisions
    <2>d. DOMAIN r = {"n", "of"} /\ ReadInv(r.of)
      BY DEF RecordInv
    <2> DEFINE of == [r.of EXCEPT !.decided = Decided]
    <2>2. ReadInv(of)
      BY <1>d, <2>1, <2>d DEF ReadInv
    <2>3. [r EXCEPT !.of.decided = Decided] = [r EXCEPT !.of = of]
      BY <2>d
    <2> HIDE DEF of
    <2> QED
      BY <1>1, <1>3, <2>1, <2>2, <2>3 DEF ReadDecisions
  <1>4. CASE getHistory
    <2>1. PICK r \in reads :
            reads' = (reads \ {r}) \cup {[r EXCEPT !.of.history = Decided]}
      BY <1>4 DEF getHistory
    <2>d. DOMAIN r = {"n", "of"} /\ ReadInv(r.of)
      BY DEF RecordInv
    <2> DEFINE of == [r.of EXCEPT !.history = Decided]
    <2>2. ReadInv(of)
      BY <1>d, <2>d DEF ReadInv
    <2>3. [r EXCEPT !.of.history = Decided] = [r EXCEPT !.of = of]
      BY <2>d
    <2> HIDE DEF of
    <2> QED
      BY <1>1, <1>4, <2>1, <2>2, <2>3 DEF getHistory
  <1>5. CASE RecordLoaded
    <2>1. PICK r \in reads :
            /\ reads' = reads \ {r}
            /\ \/ /\ -1 \notin {r.of.status, r.of.decided, r.of.history}
                  /\ record' = [record EXCEPT !.shown = r.of, !.loading = FALSE]
               \/ record' = [record EXCEPT !.shown = Unread, !.loading = FALSE]
      BY <1>5 DEF RecordLoaded
    <2>2. /\ DOMAIN record' = {"shown", "loading", "ruling", "loads"}
          /\ record'.ruling = record.ruling
          /\ \/ record'.shown = r.of /\ r.of.decided # -1
             \/ record'.shown = Unread
      BY <2>1 DEF RecordInv
    <2>3. ReadInv(r.of) /\ ReadInv(Unread)
      BY <1>d DEF RecordInv, ReadInv, Unread
    <2>4. ReadInv(record'.shown) /\ record'.shown.status <= record'.shown.decided
      BY <2>2, <2>3 DEF ReadInv, Unread
    <2>5. UNCHANGED rulings
      BY <1>5 DEF RecordLoaded
    <2>6. \A x \in reads' : DOMAIN x = {"n", "of"} /\ ReadInv(x.of)
      BY <2>1 DEF RecordInv
    <2> QED
      BY <2>2, <2>4, <2>5, <2>6 DEF RecordInv, ReadInv, Decided, RecordShowsItsDecision
  <1>6. ASSUME rulings' \in Seq(Standings), Len(rulings') >= 1, Decided <= Decided',
               DOMAIN record' = {"shown", "loading", "ruling", "loads"},
               DOMAIN record'.ruling = {"from", "to", "answer"},
               record'.ruling.to \in Standings, record'.shown = record.shown,
               reads' = reads \/ \E n : reads' = reads \cup {[n |-> n, of |-> Unread]}
        PROVE  RecordInv'
    <2>1. Decided' \in Nat
      BY <1>6 DEF Decided
    <2>2. ReadInv(record.shown)'
      <3>1. PICK of : of = record.shown
        OBVIOUS
      <3>2. ReadInv(of)'
        BY <1>d, <1>6, <2>1, <3>1, ReadsStayTrue DEF RecordInv
      <3> QED
        BY <1>6, <3>1, <3>2 DEF ReadInv
    <2>3. \A x \in reads : DOMAIN x = {"n", "of"} /\ ReadInv(x.of)'
      BY <1>d, <1>6, <2>1, ReadsStayTrue DEF RecordInv
    <2>4. ReadInv(Unread)'
      BY <2>1 DEF ReadInv, Unread
    <2>5. \A x \in reads' : DOMAIN x = {"n", "of"} /\ ReadInv(x.of)'
      BY <1>6, <2>3, <2>4
    <2>6. RecordShowsItsDecision'
      BY <1>6 DEF RecordInv, RecordShowsItsDecision
    <2> QED
      BY <1>6, <2>2, <2>5, <2>6 DEF RecordInv
  <1>7. CASE SubmitRuling
    <2>1. PICK t \in Rulings :
            record' = [record EXCEPT !.ruling = [from |-> t[1], to |-> t[2],
                                                 answer |-> "none"]]
      BY <1>7 DEF SubmitRuling
    <2>2. t[2] \in Standings
      BY DEF Rulings, Standings
    <2>3. /\ DOMAIN record' = {"shown", "loading", "ruling", "loads"}
          /\ record'.ruling = [from |-> t[1], to |-> t[2], answer |-> "none"]
          /\ record'.shown = record.shown
      BY <2>1 DEF RecordInv
    <2>4. DOMAIN record'.ruling = {"from", "to", "answer"} /\ record'.ruling.to = t[2]
      BY <2>3
    <2>5. UNCHANGED <<rulings, reads>> /\ Decided <= Decided'
      BY <1>d, <1>7 DEF SubmitRuling, Decided
    <2> QED
      BY <1>d, <1>6, <2>2, <2>3, <2>4, <2>5
  <1>8. CASE ServeRuling
    <2>1. PICK answer \in {"done", "conflict", "failed"} :
            record' = [record EXCEPT !.ruling.answer = answer]
      BY <1>8 DEF ServeRuling
    <2> DEFINE ruling == [record.ruling EXCEPT !.answer = answer]
    <2>2. DOMAIN ruling = {"from", "to", "answer"} /\ ruling.to \in Standings
      BY DEF RecordInv
    <2>3. record' = [record EXCEPT !.ruling = ruling]
      BY <2>1 DEF RecordInv
    <2> HIDE DEF ruling
    <2>4. /\ DOMAIN record' = {"shown", "loading", "ruling", "loads"}
          /\ record'.ruling = ruling /\ record'.shown = record.shown
      BY <2>3 DEF RecordInv
    <2>5. rulings' \in Seq(Standings) /\ Len(rulings') >= 1 /\ Decided <= Decided'
      <3>1. CASE UNCHANGED rulings
        BY <1>d, <3>1 DEF Decided
      <3>2. CASE rulings' = Append(rulings, record.ruling.to)
        BY <3>2, RulingComes DEF RecordInv
      <3> QED
        BY <1>8, <3>1, <3>2 DEF ServeRuling
    <2> QED
      BY <1>6, <1>8, <2>2, <2>4, <2>5 DEF ServeRuling
  <1>9. ASSUME NEW shows \in BOOLEAN, LoadRecord(shows), UNCHANGED rulings
        PROVE  RecordInv'
    <2> DEFINE loading == record.loading \/ shows
               loads == record.loads + 1
    <2>1. record' = [record EXCEPT !.loads = loads, !.loading = loading,
                                  !.ruling = NoRuling]
      BY <1>9 DEF LoadRecord, RecordInv
    <2> HIDE DEF loading, loads
    <2>2. /\ DOMAIN record' = {"shown", "loading", "ruling", "loads"}
          /\ record'.ruling = NoRuling /\ record'.shown = record.shown
      BY <2>1 DEF RecordInv
    <2>3. DOMAIN NoRuling = {"from", "to", "answer"} /\ NoRuling.to \in Standings
      BY DEF NoRuling, Standings
    <2>4. reads' = reads \cup {[n |-> record.loads, of |-> Unread]} /\ Decided <= Decided'
      BY <1>d, <1>9 DEF LoadRecord, Decided
    <2> QED
      BY <1>d, <1>6, <1>9, <2>2, <2>3, <2>4
  <1>10. CASE RulingAnswered
    <2>1. CASE record.ruling.answer = "failed"
      <3>1. record' = [record EXCEPT !.ruling = NoRuling] /\ UNCHANGED <<rulings, reads>>
        BY <1>10, <2>1 DEF RulingAnswered
      <3>2. /\ DOMAIN record' = {"shown", "loading", "ruling", "loads"}
            /\ record'.ruling = NoRuling /\ record'.shown = record.shown
        BY <3>1 DEF RecordInv
      <3>3. DOMAIN NoRuling = {"from", "to", "answer"} /\ NoRuling.to \in Standings
        BY DEF NoRuling, Standings
      <3>4. Decided <= Decided'
        BY <1>d, <3>1 DEF Decided
      <3> QED
        BY <1>d, <1>6, <3>1, <3>2, <3>3, <3>4
    <2>2. CASE record.ruling.answer # "failed"
      BY <1>9, <1>10, <2>2 DEF RulingAnswered
    <2> QED
      BY <2>1, <2>2
  <1>11. CASE VisitRecord
    BY <1>9, <1>11 DEF VisitRecord
  <1>12. CASE RuledElsewhere
    <2>1. PICK t \in Rulings : rulings' = Append(rulings, t[2])
      BY <1>12 DEF RuledElsewhere
    <2>2. t[2] \in Standings
      BY DEF Rulings, Standings
    <2>3. UNCHANGED <<record, reads>>
      BY <1>12 DEF RuledElsewhere
    <2>4. rulings' \in Seq(Standings) /\ Len(rulings') >= 1 /\ Decided <= Decided'
      BY <2>1, <2>2, RulingComes
    <2> QED
      BY <1>6, <2>3, <2>4 DEF RecordInv
  <1>13. CASE UNCHANGED recordVars
    BY <1>13 DEF recordVars, RecordInv, ReadInv, Decided, RecordShowsItsDecision
  <1> QED
    BY <1>2, <1>3, <1>4, <1>5, <1>7, <1>8, <1>10, <1>11, <1>12, <1>13 DEF RecordNext

\* However reads and decisions cross, no status is shown without the decision
\* that led to it (admin-provider-details, admin-providers.service's getDetails).
THEOREM RecordIsWhole == ConsoleSpec => []RecordShowsItsDecision
  <1>1. RecordInit => RecordInv
    <2> SUFFICES ASSUME RecordInit PROVE RecordInv
      OBVIOUS
    <2>1. rulings \in Seq(Standings) /\ Len(rulings) >= 1 /\ Decided \in Nat
      <3>1. CASE rulings = <<"PENDING">>
        BY <3>1 DEF Standings, Decided
      <3>2. CASE rulings = <<"PENDING", "APPROVED">>
        BY <3>2 DEF Standings, Decided
      <3> QED
        BY <3>1, <3>2 DEF RecordInit
    <2>2. ReadInv(Unread) /\ Unread.status <= Unread.decided
      BY <2>1 DEF ReadInv, Unread
    <2>3. /\ record = [shown |-> Unread, loading |-> TRUE, ruling |-> NoRuling, loads |-> 1]
          /\ reads = {[n |-> 0, of |-> Unread]}
      BY DEF RecordInit
    <2>4. DOMAIN NoRuling = {"from", "to", "answer"} /\ NoRuling.to \in Standings
      BY DEF NoRuling, Standings
    <2> QED
      BY <2>1, <2>2, <2>3, <2>4 DEF RecordInv, RecordShowsItsDecision
  <1>2. RecordInv /\ [RecordNext /\ UNCHANGED <<listVars, staffVars>>]_recordVars
          => RecordInv'
    BY RecordStep
  <1>3. RecordInv => RecordShowsItsDecision
    BY DEF RecordInv
  <1> QED
    BY <1>1, <1>2, <1>3, PTL DEF ConsoleSpec

-----------------------------------------------------------------------------
(* The operators, with the roles chosen for them.                          *)

SheetFields == {"page", "pendingRole", "listed", "dialog", "submitting", "loading"}

SheetInv ==
    /\ DOMAIN sheet = SheetFields
    /\ DOMAIN sheet.pendingRole = Staff /\ DOMAIN sheet.listed = Staff
    /\ RoleChosenAsListed

LEMMA SheetStep ==
  ASSUME SheetInv, [StaffNext]_staffVars
  PROVE  SheetInv'
  <1>1. ASSUME DOMAIN sheet' = SheetFields, sheet'.page = sheet.page,
               sheet'.pendingRole = sheet.pendingRole, sheet'.listed = sheet.listed
        PROVE  SheetInv'
    BY <1>1 DEF SheetInv, RoleChosenAsListed
  <1>2. CASE updateSelectedRole
    <2>1. PICK o \in Staff, r \in StaffRoles :
            sheet' = [sheet EXCEPT !.pendingRole[o] = r, !.listed[o] = sheet.page[o].role]
      BY <1>2 DEF updateSelectedRole
    <2> DEFINE pending == [sheet.pendingRole EXCEPT ![o] = r]
               listed == [sheet.listed EXCEPT ![o] = sheet.page[o].role]
    <2>2. sheet' = [sheet EXCEPT !.pendingRole = pending, !.listed = listed]
      BY <2>1 DEF SheetInv, SheetFields
    <2>3. /\ DOMAIN pending = Staff /\ DOMAIN listed = Staff
          /\ \A x \in Staff \ {o} : /\ pending[x] = sheet.pendingRole[x]
                                    /\ listed[x] = sheet.listed[x]
          /\ listed[o] = sheet.page[o].role
      BY DEF SheetInv
    <2> HIDE DEF pending, listed
    <2>4. /\ DOMAIN sheet' = SheetFields /\ sheet'.page = sheet.page
          /\ sheet'.pendingRole = pending /\ sheet'.listed = listed
      BY <2>2 DEF SheetInv, SheetFields
    <2> QED
      BY <2>3, <2>4 DEF SheetInv, RoleChosenAsListed
  <1>3. CASE \E c, o, n : openConfirmation(c, o, n)
    <2>1. PICK dialogue : sheet' = [sheet EXCEPT !.dialog = dialogue]
      BY <1>3 DEF openConfirmation
    <2> QED
      BY <1>1, <2>1 DEF SheetInv, SheetFields
  <1>4. CASE closeConfirmation \/ confirmCommand \/ loadStaff \/ CommandDone
    <2>1. \/ sheet' = [sheet EXCEPT !.dialog = NoConfirmation]
          \/ sheet' = [sheet EXCEPT !.submitting = TRUE]
          \/ sheet' = [sheet EXCEPT !.loading = TRUE]
          \/ sheet' = [sheet EXCEPT !.dialog = NoConfirmation, !.submitting = FALSE]
      BY <1>4 DEF closeConfirmation, confirmCommand, loadStaff, CommandDone
    <2> QED
      BY <1>1, <2>1 DEF SheetInv, SheetFields
  <1>5. CASE StaffLoaded
    <2>1. PICK e \in errands :
            sheet' = IF e.page = NoSheet
                     THEN [sheet EXCEPT !.page = NoSheet, !.loading = FALSE]
                     ELSE [sheet EXCEPT !.page = e.page, !.loading = FALSE,
                                        !.pendingRole = pendingRole(e.page)]
      BY <1>5 DEF StaffLoaded
    <2>2. CASE e.page = NoSheet
      <3>1. /\ DOMAIN sheet' = SheetFields /\ sheet'.page = NoSheet
            /\ sheet'.pendingRole = sheet.pendingRole /\ sheet'.listed = sheet.listed
        BY <2>1, <2>2 DEF SheetInv, SheetFields
      <3> QED
        BY <3>1 DEF SheetInv, RoleChosenAsListed
    <2>3. CASE e.page # NoSheet
      <3>1. /\ DOMAIN sheet' = SheetFields /\ sheet'.page = e.page
            /\ sheet'.pendingRole = RolesListed(e.page) /\ sheet'.listed = sheet.listed
        BY <2>1, <2>3 DEF SheetInv, SheetFields, pendingRole
      <3>2. /\ DOMAIN sheet'.pendingRole = Staff
            /\ \A o \in Staff : sheet'.pendingRole[o] = sheet'.page[o].role
        BY <3>1 DEF RolesListed
      <3> QED
        BY <3>1, <3>2 DEF SheetInv, RoleChosenAsListed
    <2> QED
      BY <2>2, <2>3
  <1>6. CASE ServeStaff \/ ChangedElsewhere \/ UNCHANGED staffVars
    <2>1. UNCHANGED sheet
      BY <1>6 DEF ServeStaff, ChangedElsewhere, staffVars
    <2> QED
      BY <1>1, <2>1 DEF SheetInv
  <1> QED
    BY <1>2, <1>3, <1>4, <1>5, <1>6 DEF StaffNext, openRoleChange, openCommand

\* No refresh, conflict or late answer leaves a choice beside a role it was not
\* made of (admin-operators).
THEOREM ChoicesFollowTheList == ConsoleSpec => []RoleChosenAsListed
  <1>1. StaffInit => SheetInv
    <2> SUFFICES ASSUME StaffInit PROVE SheetInv
      OBVIOUS
    <2>1. sheet = [page |-> NoSheet, pendingRole |-> RolesListed(NoSheet),
                   listed |-> RolesListed(NoSheet), dialog |-> NoConfirmation,
                   submitting |-> FALSE, loading |-> TRUE]
      BY DEF StaffInit
    <2>2. /\ DOMAIN sheet = SheetFields /\ sheet.page = NoSheet
          /\ sheet.pendingRole = RolesListed(NoSheet) /\ sheet.listed = RolesListed(NoSheet)
      BY <2>1 DEF SheetFields
    <2> QED
      BY <2>2 DEF SheetInv, RoleChosenAsListed, RolesListed
  <1>2. SheetInv /\ [StaffNext /\ UNCHANGED <<listVars, recordVars>>]_staffVars => SheetInv'
    BY SheetStep
  <1>3. SheetInv => RoleChosenAsListed
    BY DEF SheetInv
  <1> QED
    BY <1>1, <1>2, <1>3, PTL DEF ConsoleSpec

-----------------------------------------------------------------------------
(* The filters of a list, and the address they were made of.               *)

Instants == Nat \cup {-1}

UrlKeys == {"page", "value", "from", "to"}

ListUrlInv ==
    /\ DOMAIN url = UrlKeys /\ url.from \in Instants /\ url.to \in Instants
    /\ DOMAIN filters = {"value", "from", "to"}
    /\ filters.from \in Instants /\ filters.to \in Instants
    /\ \A e \in entries : e.at \in Int

\* A day begins before it ends.
LEMMA DaysAreWhole ==
  ASSUME NEW t \in Instants
  PROVE  /\ toIsoStart(t) \in Instants /\ toIsoEnd(t) \in Instants
         /\ toIsoStart(t) = -1 <=> t = -1
         /\ toIsoEnd(t) = -1 <=> t = -1
         /\ toIsoStart(t) <= t /\ t <= toIsoEnd(t)
  BY DEF Instants, toIsoStart, toIsoEnd

LEMMA PeriodIsWidened ==
  ASSUME NEW t \in Instants, NEW at \in Int
  PROVE  /\ t = -1 \/ at >= t => toIsoStart(t) = -1 \/ at >= toIsoStart(t)
         /\ t = -1 \/ at <= t => toIsoEnd(t) = -1 \/ at <= toIsoEnd(t)
  BY DEF Instants, toIsoStart, toIsoEnd

LEMMA AppliedIsAddress ==
  ASSUME NEW f, f.from \in Instants, f.to \in Instants
  PROVE  /\ DOMAIN applied(f) = UrlKeys /\ applied(f).value = f.value
         /\ applied(f).from = toIsoStart(f.from) /\ applied(f).to = toIsoEnd(f.to)
         /\ applied(f).from \in Instants /\ applied(f).to \in Instants
  <1>1. /\ DOMAIN applied(f) = UrlKeys /\ applied(f).value = f.value
        /\ applied(f).from = toIsoStart(f.from) /\ applied(f).to = toIsoEnd(f.to)
    BY DEF applied, UrlKeys
  <1> QED
    BY <1>1, DaysAreWhole

\* Asking, of whatever address.
LEMMA UrlIsSet ==
  ASSUME ListUrlInv, NEW u, DOMAIN u = UrlKeys, u.from \in Instants, u.to \in Instants,
         url' = u, filters' = filters \/ filters' = FormOf(u), UNCHANGED entries
  PROVE  ListUrlInv'
  <1>1. /\ DOMAIN FormOf(u) = {"value", "from", "to"}
        /\ FormOf(u).from = u.from /\ FormOf(u).to = u.to
    BY DEF FormOf
  <1> QED
    BY <1>1 DEF ListUrlInv

LEMMA NavigationKeeps ==
  ASSUME ListUrlInv, NEW u, DOMAIN u = UrlKeys, u.from \in Instants, u.to \in Instants,
         navigate(u), UNCHANGED entries
  PROVE  ListUrlInv'
  BY UrlIsSet DEF navigate, ListUrlInv

LEMMA WholeIsAddress ==
  /\ DOMAIN Whole = UrlKeys /\ Whole.from = -1 /\ Whole.to = -1
  /\ Whole.page = 1 /\ Whole.value = ""
  BY DEF Whole, UrlKeys


LEMMA WindowsAreAddresses ==
  ASSUME NEW u \in resolveDashboardWindow
  PROVE  DOMAIN u = UrlKeys /\ u.from \in Nat /\ u.to \in Nat
  <1>1. CASE \E from \in {0, 2} : u = [Whole EXCEPT !.from = from, !.to = LastInstant]
    <2>1. PICK from \in {0, 2} : u = [Whole EXCEPT !.from = from, !.to = LastInstant]
      BY <1>1
    <2>2. DOMAIN u = UrlKeys /\ u.from = from /\ u.to = LastInstant
      BY <2>1 DEF Whole, UrlKeys
    <2> QED
      BY <2>2, PagesAssumption
  <1>2. CASE \E t \in {0, 1} : u = [Whole EXCEPT !.from = t, !.to = t + 1]
    <2>1. PICK t \in {0, 1} : u = [Whole EXCEPT !.from = t, !.to = t + 1]
      BY <1>2
    <2>2. DOMAIN u = UrlKeys /\ u.from = t /\ u.to = t + 1
      BY <2>1 DEF Whole, UrlKeys
    <2> QED
      BY <2>2
  <1> QED
    BY <1>1, <1>2 DEF resolveDashboardWindow, queryForPeriod

LEMMA CardsAreAddresses ==
  ASSUME NEW u \in metricCards
  PROVE  DOMAIN u = UrlKeys /\ u.from \in Instants /\ u.to \in Instants
  <1>1. PICK v \in Statuses :
          u \in {[w EXCEPT !.page = 0, !.value = v] : w \in resolveDashboardWindow}
    BY DEF metricCards
  <1>2. PICK w \in resolveDashboardWindow : u = [w EXCEPT !.page = 0, !.value = v]
    BY <1>1
  <1> QED
    BY <1>2, WindowsAreAddresses DEF UrlKeys, Instants

LEMMA AddressStep ==
  ASSUME ListUrlInv, [ListNext]_listVars
  PROVE  ListUrlInv'
  <1>1. CASE applyFilters
    <2>1. navigate(applied(filters)) /\ UNCHANGED entries
      BY <1>1 DEF applyFilters, Turn
    <2>2. PICK f : f = filters
      OBVIOUS
    <2>3. f.from \in Instants /\ f.to \in Instants /\ navigate(applied(f))
      BY <2>1, <2>2 DEF ListUrlInv
    <2> QED
      BY <2>1, <2>3, AppliedIsAddress, NavigationKeeps
  <1>2. CASE clearFilters
    <2> DEFINE f == FormOf(Whole)
    <2>1. navigate(applied(f)) /\ UNCHANGED entries
      BY <1>2 DEF clearFilters, Turn
    <2>2. PICK g : g = f
      OBVIOUS
    <2>3. g.from \in Instants /\ g.to \in Instants
      BY <2>2, WholeIsAddress DEF FormOf, Instants
    <2> HIDE DEF f
    <2> QED
      BY <2>1, <2>2, <2>3, AppliedIsAddress, NavigationKeeps
  <1>3. CASE updateFilter
    <2>1. /\ \/ \E v : filters' = [filters EXCEPT !.value = v]
             \/ \E t \in {-1, 2} : filters' = [filters EXCEPT !.from = t]
             \/ \E t \in {-1, 2} : filters' = [filters EXCEPT !.to = t]
          /\ UNCHANGED <<url, entries>>
      BY <1>3 DEF updateFilter, Turn
    <2>2. -1 \in Instants /\ 2 \in Instants
      BY DEF Instants
    <2> QED
      BY <2>1, <2>2 DEF ListUrlInv
  <1>4. CASE goToPage
    <2>1. PICK n : navigate([queryFromParamMap(url) EXCEPT !.page = n]) /\ UNCHANGED entries
      BY <1>4 DEF goToPage, Turn
    <2>2. PICK u : u = [queryFromParamMap(url) EXCEPT !.page = n]
      OBVIOUS
    <2>3. DOMAIN u = UrlKeys /\ u.from = url.from /\ u.to = url.to
      BY <2>2 DEF ListUrlInv, queryFromParamMap, UrlKeys
    <2> QED
      BY <2>1, <2>2, <2>3, NavigationKeeps DEF ListUrlInv
  <1>5. CASE FollowLink
    <2>1. PICK u \in metricCards \cup {[Whole EXCEPT !.page = 0, !.value = "other"]} :
            navigate(u) /\ UNCHANGED entries
      BY <1>5 DEF FollowLink, Turn
    <2>2. DOMAIN u = UrlKeys /\ u.from \in Instants /\ u.to \in Instants
      <3>1. CASE u \in metricCards
        BY <3>1, CardsAreAddresses
      <3>2. CASE u = [Whole EXCEPT !.page = 0, !.value = "other"]
        BY <3>2, WholeIsAddress DEF UrlKeys, Instants
      <3> QED
        BY <3>1, <3>2
    <2> QED
      BY <2>1, <2>2, NavigationKeeps
  <1>6. CASE changePeriod
    <2>1. PICK u \in queryForPeriod \cup {Whole} :
            url' = u /\ UNCHANGED <<filters, entries>>
      BY <1>6 DEF changePeriod, Turn
    <2>2. DOMAIN u = UrlKeys /\ u.from \in Instants /\ u.to \in Instants
      BY <2>1, WindowsAreAddresses, WholeIsAddress DEF resolveDashboardWindow, Instants
    <2> QED
      BY <2>1, <2>2, UrlIsSet
  <1>7. CASE EntryAppears
    <2>1. entries' = entries \cup {Entry(LastInstant)} /\ UNCHANGED <<url, filters>>
      BY <1>7 DEF EntryAppears
    <2>2. Entry(LastInstant).at \in Int
      BY PagesAssumption DEF Entry
    <2> QED
      BY <2>1, <2>2 DEF ListUrlInv
  <1>8. CASE retry \/ ServeList \/ ListLoaded \/ UNCHANGED listVars
    <2>1. UNCHANGED <<url, filters, entries>>
      BY <1>8 DEF retry, Turn, ServeList, ListLoaded, listVars
    <2> QED
      BY <2>1 DEF ListUrlInv
  <1> QED
    BY <1>1, <1>2, <1>3, <1>4, <1>5, <1>6, <1>7, <1>8 DEF ListNext

\* A period is only ever widened: filters applied as the address set them list
\* what it listed (admin-provider-queue, admin-audit-log).
THEOREM ReapplyingIsSafe == ConsoleSpec => []ReapplyingKeepsRows
  <1>1. ListInit => ListUrlInv
    <2> SUFFICES ASSUME ListInit PROVE ListUrlInv
      OBVIOUS
    <2>1. /\ url = Whole /\ filters = FormOf(Whole)
          /\ entries = {Entry(i) : i \in 1 .. LastInstant - 1}
      BY DEF ListInit
    <2>2. \A e \in entries : e.at \in Int
      BY <2>1, PagesAssumption DEF Entry
    <2> QED
      BY <2>1, <2>2, WholeIsAddress DEF ListUrlInv, FormOf, Instants
  <1>2. ListUrlInv /\ [ListNext /\ UNCHANGED <<staffVars, recordVars>>]_listVars
          => ListUrlInv'
    BY AddressStep
  <1>3. ListUrlInv => ReapplyingKeepsRows
    <2> SUFFICES ASSUME ListUrlInv, NEW e \in entries,
                        buildWhere(e, queryFromParamMap(url))
                 PROVE  buildWhere(e, queryFromParamMap(applied(FormOf(url))))
      BY DEF ReapplyingKeepsRows
    <2> DEFINE q == queryFromParamMap(url)
               a == applied(FormOf(url))
               r == queryFromParamMap(a)
    <2>1. /\ q.from = url.from /\ q.to = url.to
          /\ q.value = IF kind = "queue" /\ url.value \notin Statuses THEN ""
                       ELSE url.value
      BY DEF ListUrlInv, queryFromParamMap, UrlKeys
    <2>2. PICK f : f = FormOf(url)
      OBVIOUS
    <2>3. f.value = q.value /\ f.from = url.from /\ f.to = url.to
      BY <2>2 DEF FormOf
    <2>4. DOMAIN a = UrlKeys /\ a.value = q.value /\ a.from = toIsoStart(url.from)
          /\ a.to = toIsoEnd(url.to)
      BY <2>2, <2>3, AppliedIsAddress DEF ListUrlInv
    <2> HIDE DEF a
    <2>5. /\ r.from = a.from /\ r.to = a.to
          /\ r.value = IF kind = "queue" /\ a.value \notin Statuses THEN "" ELSE a.value
      BY <2>4 DEF queryFromParamMap, UrlKeys
    <2>6. r.value = q.value
      BY <2>1, <2>4, <2>5
    <2>7. PICK from \in Instants, to \in Instants : from = url.from /\ to = url.to
      BY DEF ListUrlInv
    <2>8. PICK t \in Int : t = e.at
      BY DEF ListUrlInv
    <2>9. /\ from = -1 \/ t >= from
          /\ to = -1 \/ t <= to
          /\ q.value = "" \/ e.value = q.value
      BY <2>1, <2>7, <2>8 DEF buildWhere
    <2> HIDE DEF q, r
    <2>10. /\ toIsoStart(from) = -1 \/ t >= toIsoStart(from)
           /\ toIsoEnd(to) = -1 \/ t <= toIsoEnd(to)
      BY <2>7, <2>8, <2>9, PeriodIsWidened
    <2>11. buildWhere(e, r)
      BY <2>4, <2>5, <2>6, <2>7, <2>8, <2>9, <2>10 DEF buildWhere
    <2> QED
      BY <2>11 DEF r, a
  <1> QED
    BY <1>1, <1>2, <1>3, PTL DEF ConsoleSpec


-----------------------------------------------------------------------------
(* A tab of the back office.                                               *)

RequestKeys == {"session", "visit", "page", "kind", "offered", "verdict"}

SessionInv(s) == s.role \in ConsoleRoles \cup {"none"} /\ s.version \in Nat

\* A request asks for what its role may see, a decision was offered, and what
\* ends a session is no longer accepted.
RequestInv(r) ==
    /\ DOMAIN r = RequestKeys
    /\ SessionInv(r.session) /\ r.session.version <= operator.version
    /\ Loads(r.session, r.page)
    /\ r.kind \in Actions \cup {"read", "command"}
    /\ r.kind \in Actions =>
         /\ r.page = "details" /\ r.session.role = "ADMINISTRATOR"
         /\ r.offered = From(r.kind)
    /\ r.kind = "command" => r.page \in {"categories", "flags", "operators"}
    /\ shouldExpireSession(r.verdict) => ~StillAccepted(r.session)
    /\ r.verdict = "unauthorized" => r.page \notin Offered(r.session.role)

TabOfOfficeInv ==
    /\ operator.version \in Nat /\ operator.role \in ConsoleRoles
    /\ SessionInv(session) /\ session.version <= operator.version
    /\ dialog # NoDialog =>
         /\ dialog.action \in Actions /\ dialog.seen = From(dialog.action)
         /\ session.role = "ADMINISTRATOR"

BackofficeInv == TabOfOfficeInv /\ \A r \in wire : RequestInv(r)

\* Where a provider stands.
StatusInv ==
    /\ DOMAIN status = {"current", "decisions"}
    /\ status.current \in {"PENDING", "APPROVED", "REJECTED", "BLOCKED"}

LEMMA KindsOfRequests == {"read", "command"} \cap Actions = {}
  BY DEF Actions

\* What the menu of a role leads to, the role may ask for.
LEMMA MenusAreServed ==
  ASSUME NEW role \in ConsoleRoles \cup {"none"}, NEW p \in Offered(role),
         p \in {"dashboard", "payments", "moderation"} =>
           role \in {"ADMINISTRATOR", "SUPPORT"}
  PROVE  Needs(p) \in Capabilities(role)
  <1>1. CASE role = "ADMINISTRATOR"
    <2>1. p \in {"dashboard", "funnel", "queue", "audit", "categories", "flags",
                 "operators", "details"}
      BY <1>1 DEF Offered, Navigation
    <2> QED
      BY <1>1, <2>1 DEF Needs, Capabilities
  <1>2. CASE role = "SUPPORT"
    <2>1. p \in {"dashboard", "queue", "details"}
      BY <1>2 DEF Offered, Navigation
    <2> QED
      BY <1>2, <2>1 DEF Needs, Capabilities
  <1>3. CASE role = "FINANCE"
    <2>1. p \in {"funnel", "payments"}
      BY <1>3 DEF Offered, Navigation
    <2> QED
      BY <1>3, <2>1 DEF Needs, Capabilities
  <1>4. CASE role \in {"MODERATOR", "none"}
    BY <1>4 DEF Offered, Navigation
  <1> QED
    BY <1>1, <1>2, <1>3, <1>4 DEF ConsoleRoles

\* Requests that stay where they are.
LEMMA RequestsStay ==
  ASSUME BackofficeInv, operator' = operator, NEW r \in wire
  PROVE  RequestInv(r)'
  BY DEF BackofficeInv, RequestInv, SessionInv, StillAccepted

LEMMA NewRequest ==
  ASSUME TabOfOfficeInv, operator' = operator, NEW s, SessionInv(s),
         s.version <= operator.version,
         NEW visit, NEW p, NEW kind0 \in Actions \cup {"read", "command"}, NEW offered,
         Loads(s, p),
         kind0 \in Actions => /\ p = "details" /\ s.role = "ADMINISTRATOR"
                              /\ offered = From(kind0),
         kind0 = "command" => p \in {"categories", "flags", "operators"},
         NEW new,
         new = [session |-> s, visit |-> visit, page |-> p, kind |-> kind0,
                offered |-> offered, verdict |-> "none"]
  PROVE  RequestInv(new)'
  <1>1. /\ DOMAIN new = RequestKeys /\ new.session = s /\ new.page = p /\ new.kind = kind0
        /\ new.offered = offered /\ new.verdict = "none"
    BY DEF RequestKeys
  <1> QED
    BY <1>1 DEF RequestInv, SessionInv, Loads, shouldExpireSession

\* The tab leaves for another page, or for the login.
LEMMA PageIsShown ==
  ASSUME BackofficeInv, operator' = operator, NEW s, SessionInv(s),
         s.version <= operator.version, session' = s, NEW p, Show(s, p)
  PROVE  BackofficeInv'
  <1>1. TabOfOfficeInv'
    BY DEF BackofficeInv, TabOfOfficeInv, SessionInv, Show
  <1>2. ASSUME NEW r \in wire' PROVE RequestInv(r)'
    <2>1. CASE r \in wire
      BY <2>1, RequestsStay
    <2>2. CASE r \notin wire
      <3>1. Loads(s, p) /\ r = [session |-> s, visit |-> page.visit + 1, page |-> p,
                                kind |-> "read", offered |-> "none", verdict |-> "none"]
        BY <1>2, <2>2 DEF Show
      <3>2. "read" \notin Actions
        BY DEF Actions
      <3> QED
        BY <3>1, <3>2, NewRequest DEF BackofficeInv
    <2> QED
      BY <2>1, <2>2
  <1> QED
    BY <1>1, <1>2 DEF BackofficeInv

LEMMA TabAtLogin ==
  ASSUME BackofficeInv, operator' = operator, ToLogin, wire' \subseteq wire
  PROVE  BackofficeInv'
  <1>1. SessionInv(NoSession) /\ NoSession.version = 0
    BY DEF SessionInv, NoSession
  <1>2. TabOfOfficeInv'
    BY <1>1 DEF BackofficeInv, TabOfOfficeInv, SessionInv, ToLogin
  <1> QED
    BY <1>2, RequestsStay DEF BackofficeInv

\* The account is changed: what was not accepted will not be.
LEMMA AccountChanges ==
  ASSUME BackofficeInv, ChangeOperator
  PROVE  BackofficeInv'
  <1>1. /\ operator'.version = operator.version + 1 /\ operator'.role \in ConsoleRoles
        /\ UNCHANGED <<session, dialog, wire>>
    BY DEF ChangeOperator
  <1>2. TabOfOfficeInv'
    BY <1>1 DEF BackofficeInv, TabOfOfficeInv, SessionInv
  <1>3. ASSUME NEW r \in wire PROVE RequestInv(r)'
    <2>1. RequestInv(r) /\ r.session.version \in Nat /\ operator.version \in Nat
      BY DEF BackofficeInv, TabOfOfficeInv, RequestInv, SessionInv
    <2>2. r.session.version # operator'.version /\ r.session.version <= operator'.version
      BY <1>1, <2>1 DEF RequestInv
    <2> QED
      BY <2>1, <2>2 DEF RequestInv, SessionInv, StillAccepted
  <1> QED
    BY <1>1, <1>2, <1>3 DEF BackofficeInv

\* The server's verdict is true of the account as it is.
LEMMA RequestIsServed ==
  ASSUME BackofficeInv, StatusInv, NEW r \in wire, Serve(r)
  PROVE  BackofficeInv'
  <1>u. UNCHANGED <<operator, session, dialog>> /\ r.verdict = "none" /\ RequestInv(r)
    BY DEF Serve, BackofficeInv
  <1>1. PICK verdict :
          /\ wire' = (wire \ {r}) \cup {[r EXCEPT !.verdict = verdict]}
          /\ shouldExpireSession(verdict) => ~StillAccepted(r.session)
          /\ verdict = "unauthorized" => r.page \notin Offered(r.session.role)
    <2>1. CASE validatePayload(r.session) # "ok" /\ Answer(r, validatePayload(r.session))
      BY <2>1 DEF Answer, validatePayload, StillAccepted
    <2>2. CASE /\ Capability(r) \notin Capabilities(r.session.role)
               /\ Answer(r, "unauthorized")
      <3>1. r.page \notin Offered(r.session.role)
        <4> SUFFICES ASSUME r.page \in Offered(r.session.role) PROVE FALSE
          OBVIOUS
        <4>1. Needs(r.page) \in Capabilities(r.session.role)
          BY <1>u, MenusAreServed DEF RequestInv, SessionInv, Loads
        <4>2. r.kind \in Actions => "decide" \in Capabilities(r.session.role)
          BY <1>u DEF RequestInv, Capabilities
        <4> QED
          BY <2>2, <4>1, <4>2 DEF Capability
      <3> QED
        BY <2>2, <3>1 DEF Answer, shouldExpireSession
    <2>3. CASE \E v \in {"done", "conflict", "read", status.current} : Answer(r, v)
      <3>1. PICK v \in {"done", "conflict", "read", status.current} : Answer(r, v)
        BY <2>3
      <3>2. ~shouldExpireSession(v) /\ v # "unauthorized"
        BY DEF StatusInv, shouldExpireSession
      <3> QED
        BY <3>1, <3>2 DEF Answer
    <2> QED
      BY <2>1, <2>2, <2>3 DEF Serve, executeTransition
  <1> DEFINE new == [r EXCEPT !.verdict = verdict]
  <1>2. /\ DOMAIN new = RequestKeys /\ new.verdict = verdict
        /\ new.session = r.session /\ new.page = r.page /\ new.kind = r.kind
        /\ new.offered = r.offered
    BY <1>u DEF RequestInv, RequestKeys
  <1>3. wire' = (wire \ {r}) \cup {new}
    BY <1>1
  <1> HIDE DEF new
  <1>4. RequestInv(new)'
    BY <1>u, <1>1, <1>2 DEF RequestInv, SessionInv, StillAccepted, Loads
  <1>5. \A x \in wire' : RequestInv(x)'
    BY <1>u, <1>3, <1>4, RequestsStay
  <1>6. TabOfOfficeInv'
    BY <1>u DEF BackofficeInv, TabOfOfficeInv, SessionInv
  <1> QED
    BY <1>5, <1>6 DEF BackofficeInv

LEMMA StatusStep ==
  ASSUME StatusInv, [BackofficeNext]_backofficeVars
  PROVE  StatusInv'
  <1>1. ASSUME NEW a \in Actions PROVE To(a) \in {"APPROVED", "REJECTED", "BLOCKED"}
    BY <1>1 DEF To, Actions
  <1>2. CASE DecideElsewhere
    BY <1>1, <1>2 DEF DecideElsewhere, StatusInv
  <1>3. CASE \E r \in wire : Serve(r)
    <2>1. PICK r \in wire : Serve(r)
      BY <1>3
    <2>2. \/ UNCHANGED status
          \/ r.kind \in Actions /\ status' = [status EXCEPT !.current = To(r.kind)]
      BY <2>1 DEF Serve, executeTransition
    <2> QED
      BY <1>1, <2>2 DEF StatusInv
  <1>4. CASE ~DecideElsewhere /\ ~(\E r \in wire : Serve(r))
    <2>1. UNCHANGED status
      BY <1>4 DEF BackofficeNext, ChangeOperator, LogIn, OpenPage, LogOut, Reload,
         openDecision, closeDialog, submitDecision, SubmitCommand, Refused, ReadAnswered,
         CommandAnswered, CommandRefused, backofficeVars
    <2> QED
      BY <2>1 DEF StatusInv
  <1> QED
    BY <1>2, <1>3, <1>4

\* The tab sends a request of its session.
LEMMA TabSends ==
  ASSUME BackofficeInv, Reload \/ submitDecision \/ SubmitCommand
  PROVE  BackofficeInv'
  <1>u. UNCHANGED <<operator, session, dialog>> /\ TabOfOfficeInv
    BY DEF Reload, submitDecision, SubmitCommand, BackofficeInv
  <1>1. PICK new :
          /\ wire' = wire \cup {new}
          /\ \E p, offered : \E kind0 \in Actions \cup {"read", "command"} :
               /\ new = [session |-> session, visit |-> page.visit, page |-> p,
                         kind |-> kind0, offered |-> offered, verdict |-> "none"]
               /\ Loads(session, p)
               /\ kind0 \in Actions => /\ p = "details"
                                       /\ session.role = "ADMINISTRATOR"
                                       /\ offered = From(kind0)
               /\ kind0 = "command" => p \in {"categories", "flags", "operators"}
    <2>1. CASE Reload
      <3>1. Loads(session, page.name) /\ wire' = wire \cup {Request(page.name, "read")}
        BY <2>1 DEF Reload
      <3>2. "read" \notin Actions
        BY KindsOfRequests
      <3>3. Request(page.name, "read") =
              [session |-> session, visit |-> page.visit, page |-> page.name,
               kind |-> "read", offered |-> "none", verdict |-> "none"]
        BY DEF Request
      <3> QED
        BY <3>1, <3>2, <3>3
    <2>2. CASE submitDecision
      <3>1. /\ dialog.action \in Actions /\ dialog.seen = From(dialog.action)
            /\ session.role = "ADMINISTRATOR"
        BY <1>u, <2>2 DEF submitDecision, TabOfOfficeInv
      <3>2. [Request("details", dialog.action) EXCEPT !.offered = dialog.seen] =
              [session |-> session, visit |-> page.visit, page |-> "details",
               kind |-> dialog.action, offered |-> dialog.seen, verdict |-> "none"]
        BY DEF Request
      <3>3. Loads(session, "details")
        BY DEF Loads
      <3> QED
        BY <2>2, <3>1, <3>2, <3>3, KindsOfRequests DEF submitDecision
    <2>3. CASE SubmitCommand
      <3>1. page.name \in {"categories", "flags", "operators"}
            /\ wire' = wire \cup {Request(page.name, "command")}
        BY <2>3 DEF SubmitCommand
      <3>2. Loads(session, page.name)
        BY <3>1 DEF Loads
      <3> QED
        BY <3>1, <3>2, KindsOfRequests DEF Request
    <2> QED
      BY <2>1, <2>2, <2>3
  <1>2. RequestInv(new)'
    <2>1. PICK s : s = session
      OBVIOUS
    <2>2. PICK p, offered, visit, kind0 :
            /\ kind0 \in Actions \cup {"read", "command"}
            /\ new = [session |-> s, visit |-> visit, page |-> p,
                      kind |-> kind0, offered |-> offered, verdict |-> "none"]
            /\ Loads(s, p)
            /\ kind0 \in Actions => /\ p = "details"
                                    /\ s.role = "ADMINISTRATOR"
                                    /\ offered = From(kind0)
            /\ kind0 = "command" => p \in {"categories", "flags", "operators"}
      BY <1>1, <2>1
    <2>3. SessionInv(s) /\ s.version <= operator.version
      BY <1>u, <2>1 DEF TabOfOfficeInv
    <2> QED
      BY <1>u, <2>2, <2>3, NewRequest
  <1>3. TabOfOfficeInv'
    BY <1>u DEF TabOfOfficeInv, SessionInv
  <1> QED
    BY <1>u, <1>1, <1>2, <1>3, RequestsStay DEF BackofficeInv


\* Answers, as they come in; a command's asks for its page again.
LEMMA AnswerComes ==
  ASSUME BackofficeInv, NEW r \in wire,
         ReadAnswered(r) \/ CommandAnswered(r) \/ CommandRefused(r)
  PROVE  BackofficeInv'
  <1>u. UNCHANGED <<operator, session>> /\ TabOfOfficeInv /\ RequestInv(r)
    BY DEF ReadAnswered, CommandAnswered, CommandRefused, BackofficeInv
  <1>1. dialog' = dialog \/ dialog' = NoDialog
    BY DEF ReadAnswered, CommandAnswered, CommandRefused
  <1>2. TabOfOfficeInv'
    BY <1>u, <1>1 DEF TabOfOfficeInv, SessionInv
  <1>3. CASE wire' = wire \ {r}
    BY <1>u, <1>2, <1>3, RequestsStay DEF BackofficeInv
  <1>4. CASE CommandAnswered(r)
    <2>1. r.page \in {"details", "categories", "flags", "operators"}
      BY <1>u, <1>4 DEF CommandAnswered, RequestInv
    <2> DEFINE new == [Request(r.page, "read") EXCEPT !.visit = r.visit]
    <2>2. wire' = (wire \ {r}) \cup {new}
      BY <1>4 DEF CommandAnswered
    <2>3. PICK s : s = session
      OBVIOUS
    <2>4. new = [session |-> s, visit |-> r.visit, page |-> r.page,
                 kind |-> "read", offered |-> "none", verdict |-> "none"]
      BY <2>3 DEF Request
    <2>5. SessionInv(s) /\ s.version <= operator.version /\ Loads(s, r.page)
      BY <1>u, <2>1, <2>3 DEF TabOfOfficeInv, Loads
    <2>6. PICK x : x = new
      OBVIOUS
    <2>7. RequestInv(x)'
      BY <1>u, <2>4, <2>5, <2>6, NewRequest, KindsOfRequests
    <2> HIDE DEF new
    <2> QED
      BY <1>u, <1>2, <2>2, <2>6, <2>7, RequestsStay DEF BackofficeInv
  <1> QED
    BY <1>3, <1>4 DEF ReadAnswered, CommandAnswered, CommandRefused

LEMMA BackofficeStep ==
  ASSUME BackofficeInv, StatusInv, [BackofficeNext]_backofficeVars
  PROVE  BackofficeInv'
  <1>1. CASE LogIn
    <2>1. PICK s, p : /\ s = [id |-> page.visit + 1, role |-> operator.role,
                              version |-> operator.version]
                      /\ session' = s /\ Show(s, p) /\ UNCHANGED operator
      BY <1>1 DEF LogIn
    <2>2. operator.role \in ConsoleRoles /\ operator.version \in Nat
      BY DEF BackofficeInv, TabOfOfficeInv
    <2>3. SessionInv(s) /\ s.version <= operator.version
      BY <2>1, <2>2 DEF SessionInv
    <2> QED
      BY <2>1, <2>3, PageIsShown
  <1>2. CASE OpenPage
    <2>1. PICK s, p : s = session /\ session' = s /\ Show(s, p) /\ UNCHANGED operator
      BY <1>2 DEF OpenPage
    <2> QED
      BY <2>1, PageIsShown DEF BackofficeInv, TabOfOfficeInv
  <1>3. CASE LogOut
    BY <1>3, TabAtLogin DEF LogOut
  <1>4. CASE \E r \in wire : Refused(r)
    BY <1>4, TabAtLogin DEF Refused
  <1>5. CASE openDecision
    <2>1. PICK a \in Actions :
            /\ session.role = "ADMINISTRATOR" /\ From(a) = shown
            /\ dialog' = [action |-> a, seen |-> shown]
      BY <1>5 DEF openDecision, availableProviderActions
    <2>2. UNCHANGED <<operator, session, wire>>
      BY <1>5 DEF openDecision
    <2>3. dialog'.action = a /\ dialog'.seen = From(a)
      BY <2>1
    <2>4. TabOfOfficeInv'
      BY <2>1, <2>2, <2>3 DEF BackofficeInv, TabOfOfficeInv, SessionInv
    <2> QED
      BY <2>2, <2>4, RequestsStay DEF BackofficeInv
  <1>6. CASE closeDialog \/ DecideElsewhere \/ UNCHANGED backofficeVars
    <2>1. UNCHANGED <<operator, session, wire>> /\ (dialog' = dialog \/ dialog' = NoDialog)
      BY <1>6 DEF closeDialog, DecideElsewhere, backofficeVars
    <2>2. TabOfOfficeInv'
      BY <2>1 DEF BackofficeInv, TabOfOfficeInv, SessionInv
    <2> QED
      BY <2>1, <2>2, RequestsStay DEF BackofficeInv
  <1> QED
    BY <1>1, <1>2, <1>3, <1>4, <1>5, <1>6, AccountChanges, RequestIsServed, TabSends,
       AnswerComes DEF BackofficeNext

LEMMA BackofficeStarts == BackofficeInit => BackofficeInv /\ StatusInv
  <1> SUFFICES ASSUME BackofficeInit PROVE BackofficeInv /\ StatusInv
    OBVIOUS
  <1>1. /\ operator.role \in ConsoleRoles /\ operator.version = 0
        /\ status = [current |-> "PENDING", decisions |-> 0]
        /\ session = NoSession /\ dialog = NoDialog /\ wire = {}
    BY DEF BackofficeInit
  <1> QED
    BY <1>1 DEF BackofficeInv, TabOfOfficeInv, StatusInv, SessionInv, NoSession

\* What ends a session is a logout or the refusal of a token that is no good.
LEMMA SessionsEnd ==
  ASSUME BackofficeInv, [BackofficeNext]_backofficeVars
  PROVE  SessionsEndForCause
  <1> SUFFICES ASSUME LoggedIn, session' = NoSession
               PROVE  LogOut \/ \E r \in wire \ wire' : ~StillAccepted(r.session)
    BY DEF SessionsEndForCause
  <1>1. CASE LogOut
    BY <1>1
  <1>2. CASE \E r \in wire : Refused(r)
    <2>1. PICK r \in wire : shouldExpireSession(r.verdict) /\ wire' = wire \ {r}
      BY <1>2 DEF Refused
    <2>2. ~StillAccepted(r.session)
      BY <2>1 DEF BackofficeInv, RequestInv
    <2> QED
      BY <2>1, <2>2
  <1>3. CASE LogIn
    <2>1. session'.id = page.visit + 1 /\ session'.role \in ConsoleRoles
      BY <1>3 DEF LogIn, BackofficeInv, TabOfOfficeInv
    <2> QED
      BY <2>1 DEF NoSession, ConsoleRoles
  <1>4. CASE ~LogOut /\ ~LogIn /\ ~(\E r \in wire : Refused(r))
    <2>1. UNCHANGED session
      BY <1>4 DEF BackofficeNext, ChangeOperator, DecideElsewhere, OpenPage, Reload,
         openDecision, closeDialog, submitDecision, SubmitCommand, Serve, ReadAnswered,
         CommandAnswered, CommandRefused, backofficeVars
    <2> QED
      BY <2>1 DEF LoggedIn
  <1> QED
    BY <1>1, <1>2, <1>3, <1>4

\* No answer ends a session but the refusal of a token that is no longer any
\* good, be it that of an earlier session, and no page of a role's menu asks for
\* what the role may not do (admin-token.interceptor, admin-auth.guard,
\* admin-navigation).
THEOREM SessionsAreServed == BackofficeSpec => SessionsServeTheirRole
  <1>1. BackofficeInit => BackofficeInv /\ StatusInv
    BY BackofficeStarts
  <1>2. BackofficeInv /\ StatusInv /\ [BackofficeNext]_backofficeVars
          => (BackofficeInv /\ StatusInv)'
    BY BackofficeStep, StatusStep
  <1>3. BackofficeInv /\ StatusInv /\ [BackofficeNext]_backofficeVars
          => [SessionsEndForCause /\ NothingOfferedIsForbidden']_backofficeVars
    <2>1. BackofficeInv' => NothingOfferedIsForbidden'
      BY DEF BackofficeInv, RequestInv, NothingOfferedIsForbidden
    <2> QED
      BY <1>2, <2>1, SessionsEnd
  <1> QED
    BY <1>1, <1>2, <1>3, PTL DEF BackofficeSpec, SessionsServeTheirRole


\* Whatever is asked anew has no verdict yet.
LEMMA AskedWithoutVerdict ==
  ASSUME [BackofficeNext]_backofficeVars, ~(\E r \in wire : Serve(r)), NEW d \in wire' \ wire
  PROVE  d.verdict = "none"
  <1>1. CASE LogIn \/ OpenPage
    <2>1. \E s, p : Show(s, p)
      BY <1>1 DEF LogIn, OpenPage
    <2> QED
      BY <2>1 DEF Show
  <1>2. CASE Reload \/ SubmitCommand
    BY <1>2 DEF Reload, SubmitCommand, Request
  <1>3. CASE submitDecision
    BY <1>3 DEF submitDecision, Request
  <1>4. CASE \E r \in wire : CommandAnswered(r)
    BY <1>4 DEF CommandAnswered, Request
  <1>5. CASE ~(LogIn \/ OpenPage \/ Reload \/ SubmitCommand \/ submitDecision)
             /\ ~(\E r \in wire : CommandAnswered(r))
    <2>1. wire' \subseteq wire
      BY <1>5 DEF BackofficeNext, ChangeOperator, DecideElsewhere, LogOut, openDecision,
         closeDialog, Refused, ReadAnswered, CommandRefused, backofficeVars
    <2> QED
      BY <2>1
  <1> QED
    BY <1>1, <1>2, <1>3, <1>4, <1>5

LEMMA DoneAsOffered ==
  ASSUME BackofficeInv, [BackofficeNext]_backofficeVars, NEW d \in wire' \ wire,
         d.kind \in Actions, d.verdict = "done"
  PROVE  status.current = d.offered
  <1>1. PICK r \in wire : Serve(r)
    BY AskedWithoutVerdict
  <1>2. PICK verdict :
          /\ d = [r EXCEPT !.verdict = verdict]
          /\ \/ verdict \in {"inactive", "invalidated", "stale", "unauthorized"}
             \/ r.kind \in Actions /\ verdict = executeTransition(r).verdict
             \/ r.kind \in {"read", "command"}
    BY <1>1 DEF Serve, Answer, validatePayload
  <1>3. /\ d.verdict = verdict /\ d.kind = r.kind /\ d.offered = r.offered
        /\ r.kind \in Actions => r.offered = From(r.kind)
    BY <1>2 DEF BackofficeInv, RequestInv, RequestKeys
  <1>4. verdict = executeTransition(r).verdict
    BY <1>2, <1>3, KindsOfRequests
  <1> QED
    BY <1>3, <1>4 DEF executeTransition

\* A decision is taken on the provider in the status that its dialog was opened
\* for, whatever was decided meanwhile (admin-providers.service's
\* executeTransition, admin-provider-details).
THEOREM DecisionsAreOffered == BackofficeSpec => DecisionWasOffered
  <1>1. BackofficeInit => BackofficeInv /\ StatusInv
    BY BackofficeStarts
  <1>2. BackofficeInv /\ StatusInv /\ [BackofficeNext]_backofficeVars
          => (BackofficeInv /\ StatusInv)'
    BY BackofficeStep, StatusStep
  <1>3. BackofficeInv /\ StatusInv /\ [BackofficeNext]_backofficeVars
          => [\A r \in wire :
                (r.kind \in Actions /\ [r EXCEPT !.verdict = "done"] \in wire' \ wire)
                    => status.current = r.offered]_backofficeVars
    <2> SUFFICES ASSUME BackofficeInv, [BackofficeNext]_backofficeVars, NEW r \in wire,
                        r.kind \in Actions,
                        [r EXCEPT !.verdict = "done"] \in wire' \ wire
                 PROVE  status.current = r.offered
      OBVIOUS
    <2>1. PICK d : d = [r EXCEPT !.verdict = "done"]
      OBVIOUS
    <2>2. d.kind = r.kind /\ d.offered = r.offered /\ d.verdict = "done"
      BY <2>1 DEF BackofficeInv, RequestInv, RequestKeys
    <2> QED
      BY <2>1, <2>2, DoneAsOffered
  <1> QED
    BY <1>1, <1>2, <1>3, PTL DEF BackofficeSpec, DecisionWasOffered

-----------------------------------------------------------------------------
(* The funnel.                                                             *)

\* Of some numbers one is the least.
LEMMA LeastNumber ==
  ASSUME NEW T \in SUBSET Nat, T # {}
  PROVE  \E n \in T : \A m \in T : n <= m
  <1> DEFINE R == OpToRel(<, Nat)
  <1>1. IsWellFoundedOn(R, Nat)
    BY NatLessThanWellFounded
  <1>2. \A x, y \in Nat : x < y => <<x, y>> \in R
    BY DEF OpToRel
  <1> HIDE DEF R
  <1>3. PICK n \in T : \A m \in T : ~ (<<m, n>> \in R)
    BY <1>1, WFMin
  <1>4. \A m \in T : ~ (m < n)
    BY <1>2, <1>3
  <1>5. \A m \in T : n <= m
    BY <1>4
  <1> QED
    BY <1>5

Moments == {"requested", "accepted", "paid", "completed"}

\* A row of an order holds nothing that has not happened, and nothing from
\* before it was requested; one that never was is empty.
Shape(old, now) ==
    /\ DOMAIN old = Moments \cup {"seller", "status", "returned", "canceled"}
    /\ \A m \in Moments : old[m] \in Nat /\ old[m] <= now
    /\ old.canceled \subseteq old.requested .. now
    /\ old.returned \in BOOLEAN
    /\ old.status \in {"none", "open", "CONCLUIDO", "CANCELADO"}
    /\ old.status = "none" =>
         /\ old.canceled = {} /\ old.returned = FALSE
         /\ \A m \in Moments : old[m] = 0
    /\ old.status # "none" => old.requested > 0
    /\ old.status # "CONCLUIDO" => old.completed = 0

FunnelInv ==
    /\ clock \in Nat \ {0} /\ DOMAIN booked = Bookings
    /\ \A o \in Bookings : Shape(booked[o], clock)

\* What a step may do to an order: each time is set once, to the present one,
\* and how it ended stays.
Follows(old, new, now) ==
    /\ \A m \in Moments : new[m] = old[m] \/ (old[m] = 0 /\ new[m] = now)
    /\ old.requested # 0 => new.seller = old.seller
    /\ new.canceled \in {old.canceled, old.canceled \cup {now}}
    /\ old.returned => new.returned
    /\ old.status \in {"CONCLUIDO", "CANCELADO"} => new.status = old.status
    /\ new.status = "CONCLUIDO" /\ old.status # "CONCLUIDO" => new.completed = now
    /\ old.status = "CONCLUIDO" => new.completed = old.completed
    /\ old.status = "CANCELADO" /\ old.canceled = {} => new.canceled = {}

Goes(o) == Follows(booked[o], booked'[o], clock)

LEMMA FunnelStarts == FunnelInit => FunnelInv
  <1>1. Shape(NotBooked, 1)
    <2>1. /\ DOMAIN NotBooked = Moments \cup {"seller", "status", "returned", "canceled"}
          /\ \A m \in Moments : NotBooked[m] = 0
          /\ NotBooked.canceled = {} /\ NotBooked.returned = FALSE
          /\ NotBooked.status = "none" /\ NotBooked.completed = 0
          /\ 0 \in Nat /\ 0 <= 1
      BY DEF NotBooked, Moments
    <2>2. NotBooked.canceled \subseteq NotBooked.requested .. 1
      BY <2>1
    <2>3. NotBooked.returned \in BOOLEAN
      BY <2>1
    <2> QED
      BY <2>1, <2>2, <2>3, Zenon DEF Shape
  <1> QED
    BY <1>1 DEF FunnelInit, FunnelInv

LEMMA OrderMoves ==
  ASSUME FunnelInv, NEW o \in Bookings, clock' = clock, NEW new,
         booked' = [booked EXCEPT ![o] = new],
         Shape(new, clock), Follows(booked[o], new, clock)
  PROVE  FunnelInv' /\ clock' >= clock /\ \A p \in Bookings : Goes(p)
  <1>1. booked'[o] = new /\ \A p \in Bookings \ {o} : booked'[p] = booked[p]
    BY DEF FunnelInv
  <1>2. \A p \in Bookings : Shape(booked'[p], clock')
    BY <1>1 DEF FunnelInv
  <1>3. \A p \in Bookings : Goes(p)
    BY <1>1 DEF Goes, FunnelInv, Shape, Follows
  <1>4. DOMAIN booked' = Bookings
    BY DEF FunnelInv
  <1> QED
    BY <1>2, <1>3, <1>4 DEF FunnelInv

LEMMA FunnelStep ==
  ASSUME FunnelInv, [FunnelNext]_funnelVars
  PROVE  /\ FunnelInv' /\ clock' >= clock
         /\ \A o \in Bookings : Goes(o)
  <1>1. CASE UNCHANGED funnelVars
    BY <1>1 DEF funnelVars, FunnelInv, Shape, Goes, Follows
  <1>2. CASE Tick
    <2>1. \A o \in Bookings : Shape(booked[o], clock + 1)
      BY DEF FunnelInv, Shape
    <2>2. \A o \in Bookings : Goes(o)
      BY <1>2 DEF Tick, FunnelInv, Shape, Goes, Follows
    <2> QED
      BY <1>2, <2>1, <2>2 DEF Tick, FunnelInv
  <1>3. ASSUME NEW o \in Bookings, RequestOrder(o)
        PROVE  FunnelInv' /\ clock' >= clock /\ \A p \in Bookings : Goes(p)
    <2>1. PICK seller \in Sellers :
            booked' = [booked EXCEPT ![o] =
              [NotBooked EXCEPT !.requested = clock, !.seller = seller, !.status = "open"]]
      BY <1>3 DEF RequestOrder
    <2> DEFINE new == [NotBooked EXCEPT !.requested = clock, !.seller = seller, !.status = "open"]
    <2>2. /\ Shape(booked[o], clock) /\ clock \in Nat \ {0}
          /\ booked[o].status = "none" /\ clock' = clock
      BY <1>3 DEF RequestOrder, FunnelInv
    <2>3. /\ DOMAIN new = Moments \cup {"seller", "status", "returned", "canceled"}
          /\ new.requested = clock /\ new.accepted = 0 /\ new.paid = 0 /\ new.completed = 0
          /\ new.status = "open" /\ new.canceled = {} /\ new.returned = FALSE
      BY DEF NotBooked, Moments
    <2>4. booked' = [booked EXCEPT ![o] = new]
      BY <2>1
    <2> HIDE DEF new
    <2>5. Shape(new, clock)
      <3>1. \A m \in Moments : new[m] \in {0, clock}
        BY <2>3 DEF Moments
      <3>2. \A m \in Moments : new[m] \in Nat /\ new[m] <= clock
        BY <2>2, <3>1
      <3>3. new.canceled \subseteq new.requested .. clock
        BY <2>3
      <3>4. new.returned \in BOOLEAN
        BY <2>3
      <3>5. new.requested > 0 /\ new.status # "none"
        BY <2>2, <2>3
      <3> QED
        BY <2>3, <3>2, <3>3, <3>4, <3>5, Zenon DEF Shape
    <2>6. Follows(booked[o], new, clock)
      BY <2>2, <2>3 DEF Shape, Follows, Moments
    <2> QED
      BY OrderMoves, <2>2, <2>4, <2>5, <2>6
  <1>4. ASSUME NEW o \in Bookings, AcceptOrder(o)
        PROVE  FunnelInv' /\ clock' >= clock /\ \A p \in Bookings : Goes(p)
    <2> DEFINE new == [booked[o] EXCEPT !.accepted = clock]
    <2>1. /\ Shape(booked[o], clock) /\ clock \in Nat \ {0}
          /\ booked[o].status = "open" /\ booked[o].accepted = 0
      BY <1>4 DEF AcceptOrder, FunnelInv
    <2>2. /\ DOMAIN new = DOMAIN booked[o] /\ new.accepted = clock
          /\ \A k \in DOMAIN booked[o] \ {"accepted"} : new[k] = booked[o][k]
      BY <2>1 DEF Shape, Moments
    <2>3. clock' = clock /\ booked' = [booked EXCEPT ![o] = new]
      BY <1>4 DEF AcceptOrder, FunnelInv
    <2> HIDE DEF new
    <2>4. Shape(new, clock)
      BY <2>1, <2>2 DEF Shape, Moments
    <2>5. Follows(booked[o], new, clock)
      BY <2>1, <2>2 DEF Shape, Follows, Moments
    <2> QED
      BY OrderMoves, <2>3, <2>4, <2>5
  <1>5. ASSUME NEW o \in Bookings, PayOrder(o)
        PROVE  FunnelInv' /\ clock' >= clock /\ \A p \in Bookings : Goes(p)
    <2> DEFINE new == [booked[o] EXCEPT !.paid = clock]
    <2>1. /\ Shape(booked[o], clock) /\ clock \in Nat \ {0}
          /\ booked[o].status = "open" /\ booked[o].paid = 0
      BY <1>5 DEF PayOrder, FunnelInv
    <2>2. /\ DOMAIN new = DOMAIN booked[o] /\ new.paid = clock
          /\ \A k \in DOMAIN booked[o] \ {"paid"} : new[k] = booked[o][k]
      BY <2>1 DEF Shape, Moments
    <2>3. clock' = clock /\ booked' = [booked EXCEPT ![o] = new]
      BY <1>5 DEF PayOrder, FunnelInv
    <2> HIDE DEF new
    <2>4. Shape(new, clock)
      BY <2>1, <2>2 DEF Shape, Moments
    <2>5. Follows(booked[o], new, clock)
      BY <2>1, <2>2 DEF Shape, Follows, Moments
    <2> QED
      BY OrderMoves, <2>3, <2>4, <2>5
  <1>6. ASSUME NEW o \in Bookings, ChargeEnds(o)
        PROVE  FunnelInv' /\ clock' >= clock /\ \A p \in Bookings : Goes(p)
    <2> DEFINE new == [booked[o] EXCEPT !.returned = TRUE,
                                       !.canceled = booked[o].canceled \cup {clock}]
    <2>1. /\ Shape(booked[o], clock) /\ clock \in Nat \ {0}
          /\ booked[o].accepted > 0
          /\ booked[o].status = "CANCELADO" => booked[o].canceled # {}
      BY <1>6 DEF ChargeEnds, FunnelInv
    <2>2. /\ DOMAIN new = DOMAIN booked[o] /\ new.returned = TRUE
          /\ new.canceled = booked[o].canceled \cup {clock}
          /\ \A k \in DOMAIN booked[o] \ {"returned", "canceled"} : new[k] = booked[o][k]
      BY <2>1 DEF Shape, Moments
    <2>3. clock' = clock /\ booked' = [booked EXCEPT ![o] = new]
      BY <1>6 DEF ChargeEnds, FunnelInv
    <2> HIDE DEF new
    <2>4. Shape(new, clock)
      <3>1. /\ \A m \in Moments : new[m] = booked[o][m]
            /\ new.status = booked[o].status /\ new.requested = booked[o].requested
            /\ new.completed = booked[o].completed
            /\ booked[o].status # "none"
        BY <2>1, <2>2 DEF Shape, Moments
      <3>2. booked[o].requested <= clock /\ booked[o].requested \in Nat
        BY <2>1 DEF Shape, Moments
      <3>3. new.canceled \subseteq new.requested .. clock
        BY <2>1, <2>2, <3>1, <3>2 DEF Shape
      <3> QED
        BY <2>1, <2>2, <3>1, <3>3 DEF Shape
    <2>5. Follows(booked[o], new, clock)
      BY <2>1, <2>2 DEF Shape, Follows, Moments
    <2> QED
      BY OrderMoves, <2>3, <2>4, <2>5
  <1>7. ASSUME NEW o \in Bookings, ConcludeOrder(o)
        PROVE  FunnelInv' /\ clock' >= clock /\ \A p \in Bookings : Goes(p)
    <2> DEFINE new == [booked[o] EXCEPT !.status = "CONCLUIDO", !.completed = clock]
    <2>1. /\ Shape(booked[o], clock) /\ clock \in Nat \ {0}
          /\ booked[o].status = "open"
      BY <1>7 DEF ConcludeOrder, FunnelInv
    <2>2. /\ DOMAIN new = DOMAIN booked[o] /\ new.status = "CONCLUIDO" /\ new.completed = clock
          /\ \A k \in DOMAIN booked[o] \ {"status", "completed"} : new[k] = booked[o][k]
      BY <2>1 DEF Shape, Moments
    <2>3. clock' = clock /\ booked' = [booked EXCEPT ![o] = new]
      BY <1>7 DEF ConcludeOrder, FunnelInv
    <2> HIDE DEF new
    <2>4. Shape(new, clock)
      BY <2>1, <2>2 DEF Shape, Moments
    <2>5. Follows(booked[o], new, clock)
      BY <2>1, <2>2 DEF Shape, Follows, Moments
    <2> QED
      BY OrderMoves, <2>3, <2>4, <2>5
  <1>8. ASSUME NEW o \in Bookings, CancelOrder(o)
        PROVE  FunnelInv' /\ clock' >= clock /\ \A p \in Bookings : Goes(p)
    <2> DEFINE new == [booked[o] EXCEPT !.status = "CANCELADO",
                                       !.canceled = booked[o].canceled \cup {clock}]
    <2>1. /\ Shape(booked[o], clock) /\ clock \in Nat \ {0}
          /\ booked[o].status = "open"
      BY <1>8 DEF CancelOrder, FunnelInv
    <2>2. /\ DOMAIN new = DOMAIN booked[o] /\ new.status = "CANCELADO"
          /\ new.canceled = booked[o].canceled \cup {clock}
          /\ \A k \in DOMAIN booked[o] \ {"status", "canceled"} : new[k] = booked[o][k]
      BY <2>1 DEF Shape, Moments
    <2>3. clock' = clock /\ booked' = [booked EXCEPT ![o] = new]
      BY <1>8 DEF CancelOrder, FunnelInv
    <2> HIDE DEF new
    <2>4. Shape(new, clock)
      BY <2>1, <2>2 DEF Shape, Moments
    <2>5. Follows(booked[o], new, clock)
      BY <2>1, <2>2 DEF Shape, Follows, Moments
    <2> QED
      BY OrderMoves, <2>3, <2>4, <2>5
  <1>9. ASSUME NEW o \in Bookings, ExpireOrder(o)
        PROVE  FunnelInv' /\ clock' >= clock /\ \A p \in Bookings : Goes(p)
    <2> DEFINE new == [booked[o] EXCEPT !.status = "CANCELADO"]
    <2>1. /\ Shape(booked[o], clock) /\ clock \in Nat \ {0}
          /\ booked[o].status = "open"
      BY <1>9 DEF ExpireOrder, FunnelInv
    <2>2. /\ DOMAIN new = DOMAIN booked[o] /\ new.status = "CANCELADO"
          /\ \A k \in DOMAIN booked[o] \ {"status"} : new[k] = booked[o][k]
      BY <2>1 DEF Shape, Moments
    <2>3. clock' = clock /\ booked' = [booked EXCEPT ![o] = new]
      BY <1>9 DEF ExpireOrder, FunnelInv
    <2> HIDE DEF new
    <2>4. Shape(new, clock)
      BY <2>1, <2>2 DEF Shape, Moments
    <2>5. Follows(booked[o], new, clock)
      BY <2>1, <2>2 DEF Shape, Follows, Moments
    <2> QED
      BY OrderMoves, <2>3, <2>4, <2>5
  <1> QED
    BY <1>1, <1>2, <1>3, <1>4, <1>5, <1>6, <1>7, <1>8, <1>9
       DEF FunnelNext

\* A window is made of two moments.
LEMMA WindowTimes ==
  ASSUME NEW w \in Windows
  PROVE  w.from \in Nat /\ w.to \in Nat
  BY FunnelAssumption DEF Windows

\* The first of some moments.
LEMMA FirstIsChosen ==
  ASSUME NEW T \in SUBSET Nat, T # {}
  PROVE  LET t == CHOOSE t \in T : \A u \in T : t <= u
         IN  t \in T /\ \A u \in T : t <= u
  BY LeastNumber

\* What a window which is over counts as canceled it keeps, in the same week.
LEMMA CanceledStay ==
  ASSUME FunnelInv, [FunnelNext]_funnelVars, NEW w \in Windows, w.to < clock,
         NEW o \in counted("canceled", w)
  PROVE  o \in counted("canceled", w)' /\ canceledAt(o, w)' = canceledAt(o, w)
  <1> DEFINE seen == {t \in booked[o].canceled : t >= w.from}
             since == {t \in booked'[o].canceled : t >= w.from}
  <1>1. /\ o \in Bookings /\ booked[o].status = "CANCELADO" /\ Goes(o)
        /\ Within(canceledAt(o, w), w)
        /\ Shape(booked[o], clock) /\ clock \in Nat /\ w.from \in Nat /\ w.to \in Nat
    BY FunnelStep, WindowTimes DEF counted, FunnelInv
  <1>2. booked'[o].status = "CANCELADO" /\ booked'[o].requested = booked[o].requested
    BY <1>1 DEF Goes, Follows, Shape, Moments
  <1>3. seen \in SUBSET Nat
    BY <1>1 DEF Shape, Moments
  <1>4. CASE seen = {}
    <2>1. canceledAt(o, w) = booked[o].requested
      BY <1>4 DEF canceledAt
    <2>2. booked[o].requested >= w.from
      BY <1>1, <2>1 DEF Within
    <2>3. booked[o].canceled = {}
      BY <1>1, <1>4, <2>2 DEF Shape, Moments
    <2>4. since = {}
      BY <1>1, <2>3 DEF Goes, Follows
    <2>5. canceledAt(o, w)' = booked'[o].requested
      BY <2>4 DEF canceledAt
    <2> QED
      BY <1>1, <1>2, <2>1, <2>5 DEF counted
  <1>5. CASE seen # {}
    <2>1. /\ canceledAt(o, w) = CHOOSE t \in seen : \A u \in seen : t <= u
          /\ canceledAt(o, w) \in seen /\ \A u \in seen : canceledAt(o, w) <= u
      BY <1>3, <1>5, FirstIsChosen DEF canceledAt
    <2>2. since = seen \/ since = seen \cup {clock}
      BY <1>1 DEF Goes, Follows
    <2>3. canceledAt(o, w) < clock
      BY <1>1, <1>3, <2>1 DEF Within
    <2>4. /\ canceledAt(o, w) \in since /\ since \in SUBSET Nat /\ since # {}
          /\ \A u \in since : canceledAt(o, w) <= u
      <3>1. PICK a : a = canceledAt(o, w)
        OBVIOUS
      <3> HIDE DEF seen, since
      <3>2. a \in seen /\ a < clock /\ \A u \in seen : a <= u
        BY <2>1, <2>3, <3>1
      <3>3. a \in since /\ since \in SUBSET Nat /\ \A u \in since : a <= u
        <4>1. PICK now : now = clock /\ now \in Nat
          BY <1>1
        <4>2. \A u \in since : u \in seen \/ u = now
          BY <2>2, <4>1
        <4>3. a \in since
          BY <2>2, <3>2
        <4>4. a < now /\ a \in Nat
          BY <1>3, <3>2, <4>1
        <4> QED
          BY <1>3, <3>2, <4>1, <4>2, <4>3, <4>4
      <3> QED
        BY <3>1, <3>3
    <2>5. /\ canceledAt(o, w)' = CHOOSE t \in since : \A u \in since : t <= u
          /\ canceledAt(o, w)' \in since /\ \A u \in since : canceledAt(o, w)' <= u
      BY <2>4, FirstIsChosen DEF canceledAt
    <2>6. canceledAt(o, w)' = canceledAt(o, w)
      <3>1. PICK a, b : a = canceledAt(o, w) /\ b = canceledAt(o, w)'
        OBVIOUS
      <3>2. a \in Nat /\ b \in Nat /\ a <= b /\ b <= a
        BY <2>4, <2>5, <3>1
      <3> QED
        BY <3>1, <3>2
    <2> QED
      BY <1>1, <1>2, <2>6 DEF counted
  <1> QED
    BY <1>4, <1>5

\* Nothing that a window which is over counts for good is decided after it, and
\* the other figures move as they are said to.
LEMMA WindowIsOver ==
  ASSUME FunnelInv, [FunnelNext]_funnelVars, NEW w \in Windows, w.to < clock
  PROVE  Settled(w)' = Settled(w) /\ OnlyGrow(w) /\ OnlyShrink(w)
  <1>1. /\ FunnelInv' /\ clock' >= clock /\ \A o \in Bookings : Goes(o)
        /\ w.from \in Nat /\ w.to \in Nat /\ clock \in Nat /\ clock' \in Nat
        /\ Target \in Nat /\ RehireWindow \in Nat
    BY FunnelStep, WindowTimes, FunnelAssumption DEF FunnelInv
  <1>2. ASSUME NEW o \in Bookings
        PROVE  /\ booked[o].requested \in Nat /\ booked[o].accepted \in Nat
               /\ booked[o].completed \in Nat /\ booked[o].paid \in Nat
               /\ booked[o].requested <= clock /\ booked[o].accepted <= clock
               /\ booked'[o].requested \in Nat /\ booked'[o].accepted \in Nat
               /\ booked'[o].completed \in Nat /\ booked'[o].paid \in Nat
    BY <1>1 DEF FunnelInv, Shape, Moments
  <1>3. created(w)' = created(w)
    BY <1>1, <1>2 DEF created, Within, Goes, Follows, Moments
  <1>4. acceptanceCutoff(w)' = acceptanceCutoff(w)
    BY <1>1 DEF acceptanceCutoff, Minimum
  <1>5. \A o \in created(w) : booked'[o].requested = booked[o].requested
    BY <1>1, <1>2 DEF created, Within, Goes, Follows, Moments
  <1>6. eligible(w)' = eligible(w)
    BY <1>3, <1>4, <1>5 DEF eligible
  <1>7. \A o \in eligible(w) : booked[o].requested + Target < clock
    BY <1>1, <1>2 DEF eligible, created, Within, acceptanceCutoff, Minimum
  <1>8. acceptedInTime(w)' = acceptedInTime(w)
    <2>1. \A o \in eligible(w) : o \in created(w) /\ o \in Bookings
      BY DEF eligible, created
    <2>2. ASSUME NEW o \in eligible(w)
          PROVE  (booked'[o].accepted > 0
                     /\ booked'[o].accepted <= booked'[o].requested + Target)
                 <=> (booked[o].accepted > 0
                         /\ booked[o].accepted <= booked[o].requested + Target)
      BY <1>1, <1>2, <1>5, <1>7, <2>1 DEF Goes, Follows, Moments
    <2> QED
      BY <1>6, <2>2 DEF acceptedInTime
  <1>9. Cohort(w)' = Cohort(w)
    BY <1>1, <1>2 DEF Cohort, Goes, Follows, Moments
  <1>10. \A o \in Cohort(w) :
           /\ o \in Bookings /\ booked'[o].completed = booked[o].completed
           /\ booked[o].completed + RehireWindow < clock
    BY <1>1, <1>2 DEF Cohort, Goes, Follows, Moments
  <1>11. cohort(w)' = cohort(w)
    <2>1. {o \in Cohort(w) : \A p \in Cohort(w) : booked'[o].completed <= booked'[p].completed}
          = {o \in Cohort(w) : \A p \in Cohort(w) : booked[o].completed <= booked[p].completed}
      BY <1>10
    <2> QED
      BY <1>9, <2>1 DEF cohort
  <1>12. cohort(w) \subseteq Cohort(w)
    BY DEF cohort
  <1>13. ASSUME NEW o \in cohort(w), NEW n \in Bookings
         PROVE  /\ (booked'[n].requested > booked'[o].completed
                       /\ booked'[n].requested <= booked'[o].completed + RehireWindow)
                   <=> (booked[n].requested > booked[o].completed
                           /\ booked[n].requested <= booked[o].completed + RehireWindow)
                /\ booked[n].requested > booked[o].completed =>
                     booked'[n].seller = booked[n].seller
    BY <1>1, <1>2, <1>10, <1>12 DEF Goes, Follows, Moments
  <1>14. rehired(w)' = rehired(w)
    BY <1>11, <1>13 DEF rehired
  <1>15. \A o \in cohort(w) : booked'[o].seller = booked[o].seller
    <2>1. \A o \in cohort(w) : o \in Bookings /\ booked[o].status = "CONCLUIDO"
      BY <1>12 DEF Cohort
    <2>2. \A o \in cohort(w) : booked[o].requested # 0
      BY <1>1, <2>1 DEF FunnelInv, Shape
    <2> QED
      BY <1>1, <2>1, <2>2 DEF Goes, Follows, Moments
  <1>16. rehiredSameProvider(w)' = rehiredSameProvider(w)
    <2>1. rehired(w) \subseteq cohort(w)
      BY DEF rehired
    <2> QED
      BY <1>13, <1>14, <1>15, <2>1 DEF rehiredSameProvider
  <1>17. completeWeeks(w)' = completeWeeks(w)
    <2>1. Minimum(w.to, clock)' = Minimum(w.to, clock)
      BY <1>1 DEF Minimum
    <2> QED
      BY <2>1 DEF completeWeeks
  <1>18. /\ counted("accepted", w)' = counted("accepted", w)
         /\ counted("paid", w)' = counted("paid", w)
         /\ counted("completed", w)' = counted("completed", w)
    BY <1>1, <1>2 DEF counted, Within, Goes, Follows, Moments
  <1>19. OnlyGrow(w)
    <2>1. acceptedInCohort(w) \subseteq acceptedInCohort(w)'
      BY <1>1, <1>2, <1>3 DEF acceptedInCohort, created, Goes, Follows, Moments
    <2>2. ASSUME NEW o \in counted("acceptedThenPaid", w)
          PROVE  /\ o \in counted("acceptedThenPaid", w)'
                 /\ stamp("acceptedThenPaid", o, w)' = stamp("acceptedThenPaid", o, w)
      BY <1>1, <1>2, <2>2 DEF counted, stamp, Within, Goes, Follows, Moments
    <2>3. ASSUME NEW o \in counted("canceled", w)
          PROVE  /\ o \in counted("canceled", w)'
                 /\ stamp("canceled", o, w)' = stamp("canceled", o, w)
      BY <2>3, CanceledStay DEF stamp
    <2> QED
      BY <2>1, <2>2, <2>3 DEF OnlyGrow
  <1>20. OnlyShrink(w)
    <2>1. ASSUME NEW o \in counted("completedPaid", w)'
          PROVE  o \in counted("completedPaid", w)
      BY <1>1, <1>2, <2>1 DEF counted, Within, Goes, Follows, Moments
    <2> QED
      BY <2>1 DEF OnlyShrink
  <1> QED
    BY <1>3, <1>6, <1>8, <1>11, <1>14, <1>16, <1>17, <1>18, <1>19, <1>20 DEF Settled

\* Later moments are not in earlier weeks.
LEMMA WeeksInOrder ==
  ASSUME NEW a \in Nat, NEW b \in Nat, a <= b
  PROVE  weekOf(a) \in Int /\ weekOf(b) \in Int /\ weekOf(a) <= weekOf(b)
  <1>1. Week \in Nat \ {0} /\ Offset \in Nat
    BY FunnelAssumption
  <1>2. PICK x, y : x = a + Offset /\ y = b + Offset /\ x \in Nat /\ y \in Nat /\ x <= y
    BY <1>1
  <1>3. x \div Week \in Int /\ y \div Week \in Int /\ x \div Week <= y \div Week
    BY <1>1, <1>2, SMTT(30)
  <1> QED
    BY <1>2, <1>3 DEF weekOf

\* A set whose members have a row each has as many rows as members.
LEMMA OneRowEach ==
  ASSUME NEW S, IsFiniteSet(S), NEW R, NEW f, \A s \in S : f[s] \in R
  PROVE  /\ IsFiniteSet({x \in S \X R : f[x[1]] = x[2]})
         /\ Cardinality({x \in S \X R : f[x[1]] = x[2]}) = Cardinality(S)
  <1> DEFINE T == {x \in S \X R : f[x[1]] = x[2]}
             g == [s \in S |-> <<s, f[s]>>]
  <1>1. g \in [S -> T]
    OBVIOUS
  <1>2. \A a, b \in S : g[a] = g[b] => a = b
    OBVIOUS
  <1>3. \A t \in T : \E s \in S : g[s] = t
    <2> SUFFICES ASSUME NEW t \in T PROVE g[t[1]] = t /\ t[1] \in S
      OBVIOUS
    <2> QED
      OBVIOUS
  <1> HIDE DEF g, T
  <1>4. g \in Bijection(S, T)
    BY <1>1, <1>2, <1>3, Fun_IsBij
  <1>5. ExistsBijection(S, T)
    BY <1>4, Fun_ExistsBij
  <1>6. IsFiniteSet(T) /\ Cardinality(T) = Cardinality(S)
    BY <1>5, FS_Bijection
  <1> QED
    BY <1>6 DEF T

LEMMA EachInOneWeek ==
  ASSUME NEW figure, NEW w, w.from \in Nat, w.to \in Nat,
         \A o \in counted(figure, w) : 
            stamp(figure, o, w) \in Nat /\ Within(stamp(figure, o, w), w),
         counted(figure, w) \subseteq Bookings
  PROVE  sumWeeks(figure, w) = Cardinality(counted(figure, w))
  <1> DEFINE S == counted(figure, w)
             R == WeekRows(w)
             f == [o \in S |-> weekOf(stamp(figure, o, w))]
  <1>1. IsFiniteSet(S)
    BY FS_Subset, FunnelAssumption
  <1>2. \A o \in S : f[o] \in R
    BY WeeksInOrder DEF WeekRows, Within
  <1>3. \A o \in S, n \in R : InWeekRow(figure, w, o, n) <=> f[o] = n
    BY DEF InWeekRow
  <1> HIDE DEF S, R, f
  <1>4. {x \in S \X R : InWeekRow(figure, w, x[1], x[2])} = {x \in S \X R : f[x[1]] = x[2]}
    BY <1>3
  <1>5. Cardinality({x \in S \X R : f[x[1]] = x[2]}) = Cardinality(S)
    BY <1>1, <1>2, OneRowEach
  <1>6. sumWeeks(figure, w) = Cardinality({x \in S \X R : InWeekRow(figure, w, x[1], x[2])})
    BY DEF sumWeeks, S, R
  <1>7. sumWeeks(figure, w) = Cardinality(S)
    BY <1>4, <1>5, <1>6
  <1> QED
    BY <1>7 DEF S

\* Where an order counts is a moment, and the first of its events when it has one.
LEMMA CanceledOnce ==
  ASSUME FunnelInv, NEW w \in Windows, NEW o \in Bookings
  PROVE  /\ canceledAt(o, w) \in Nat
         /\ w.from = 0 => booked[o].requested <= canceledAt(o, w) /\ canceledAt(o, w) <= clock
  <1> DEFINE seen == {t \in booked[o].canceled : t >= w.from}
  <1>1. /\ Shape(booked[o], clock) /\ clock \in Nat /\ w.from \in Nat
        /\ booked[o].requested \in Nat /\ booked[o].requested <= clock
    BY WindowTimes DEF FunnelInv, Shape, Moments
  <1>2. seen \in SUBSET Nat /\ \A t \in seen : booked[o].requested <= t /\ t <= clock
    BY <1>1 DEF Shape
  <1>3. CASE seen = {}
    BY <1>1, <1>3 DEF canceledAt
  <1>4. CASE seen # {}
    <2>1. canceledAt(o, w) \in seen
      BY <1>2, <1>4, FirstIsChosen DEF canceledAt
    <2> QED
      BY <1>2, <2>1
  <1> QED
    BY <1>3, <1>4

LEMMA TotalsAgree ==
  ASSUME FunnelInv
  PROVE  WeeksAddUp
  <1> SUFFICES ASSUME NEW w \in Windows
               PROVE  /\ \A figure \in WeekFigures :
                           sumWeeks(figure, w) = Cardinality(counted(figure, w))
                      /\ (w.from = 0 /\ w.to >= clock) =>
                           counted("canceled", w) =
                             {o \in Bookings : booked[o].status = "CANCELADO"}
    BY DEF WeeksAddUp
  <1>w. w.from \in Nat /\ w.to \in Nat /\ clock \in Nat
    BY WindowTimes DEF FunnelInv
  <1>o. \A o \in Bookings :
          /\ booked[o].requested \in Nat /\ booked[o].accepted \in Nat
          /\ booked[o].paid \in Nat /\ booked[o].completed \in Nat
          /\ canceledAt(o, w) \in Nat
          /\ booked[o].status = "CANCELADO" => booked[o].requested > 0
    BY CanceledOnce DEF FunnelInv, Shape, Moments
  <1>1. ASSUME NEW figure \in WeekFigures
        PROVE  sumWeeks(figure, w) = Cardinality(counted(figure, w))
    <2>1. counted(figure, w) \subseteq Bookings
      BY <1>1 DEF WeekFigures, counted, created
    <2>2. \A o \in counted(figure, w) : Within(stamp(figure, o, w), w)
      BY <1>1 DEF WeekFigures, counted, created, stamp
    <2>3. \A o \in counted(figure, w) : stamp(figure, o, w) \in Nat
      BY <1>1, <1>o, <2>1 DEF WeekFigures, stamp
    <2> QED
      BY <1>w, <2>1, <2>2, <2>3, EachInOneWeek
  <1>2. ASSUME w.from = 0, w.to >= clock
        PROVE  counted("canceled", w) = {o \in Bookings : booked[o].status = "CANCELADO"}
    <2>1. \A o \in Bookings :
            booked[o].status = "CANCELADO" => Within(canceledAt(o, w), w)
      BY <1>2, <1>w, <1>o, CanceledOnce DEF Within
    <2>2. counted("canceled", w) =
            {o \in Bookings : booked[o].status = "CANCELADO" /\ Within(canceledAt(o, w), w)}
      BY DEF counted
    <2> QED
      BY <2>1, <2>2
  <1> QED
    BY <1>1, <1>2

\* The totals of the weeks of a funnel report are those of its window. Of a window
\* that is over most figures stay; those that later acceptances, payments and
\* cancellations reach only grow, and the completed and paid orders only get
\* fewer (admin-funnel-metrics.queries, admin-funnel-metrics.service).
THEOREM ReportsStay == FunnelSpec => ReportsAreKept
  <1>1. FunnelInit => FunnelInv
    BY FunnelStarts
  <1>2. FunnelInv /\ [FunnelNext]_funnelVars => FunnelInv'
    BY FunnelStep
  <1>3. FunnelInv /\ FunnelInv' /\ [FunnelNext]_funnelVars
          => [UNCHANGED funnelVars \/ (WeeksAddUp' /\ \A w \in Windows : ReportAges(w))]_funnelVars
    <2>1. FunnelInv' => WeeksAddUp'
      BY TotalsAgree, PTL
    <2>2. ASSUME FunnelInv, [FunnelNext]_funnelVars, NEW w \in Windows
          PROVE  ReportAges(w)
      BY <2>2, WindowIsOver DEF ReportAges
    <2> QED
      BY <2>1, <2>2
  <1> QED
    BY <1>1, <1>2, <1>3, PTL DEF FunnelSpec, ReportsAreKept

-----------------------------------------------------------------------------
(* The queue of providers and the dashboard.                               *)

Terminal == {"APPROVE", "REJECT"}

\* The decisions that end the review of a provider.
EndsReview(p) == {i \in DecisionsOn(p) : decisions[i].action \in Terminal}

\* A provider is pending until its review ends, which it does once.
ReviewInv(p) ==
    /\ DOMAIN providers[p] = {"createdAt", "status"}
    /\ providers[p].createdAt \in Nat /\ providers[p].createdAt <= tick
    /\ providers[p].status = "PENDING" <=> EndsReview(p) = {}
    /\ \A i, j \in EndsReview(p) : i = j

DecisionRowInv(i) ==
    /\ DOMAIN decisions[i] = {"provider", "action", "at"}
    /\ decisions[i].provider \in Registered /\ decisions[i].action \in DOMAIN Transitions
    /\ decisions[i].at \in Nat /\ decisions[i].at <= tick
    /\ providers[decisions[i].provider].createdAt <= decisions[i].at

ReviewsInv ==
    /\ tick \in Nat \ {0}
    /\ DOMAIN providers = ProviderIds
    /\ \A p \in ProviderIds : ReviewInv(p)
    /\ Len(decisions) \in Nat /\ DOMAIN decisions = 1 .. Len(decisions)
    /\ decisions \in Seq([provider : ProviderIds, action : DOMAIN Transitions, at : Nat])
    /\ \A i \in DOMAIN decisions : DecisionRowInv(i)

LEMMA QueueStarts == QueueInit => ReviewsInv
  <1> SUFFICES ASSUME QueueInit PROVE ReviewsInv
    OBVIOUS
  <1>1. decisions \in Seq([provider : ProviderIds, action : DOMAIN Transitions, at : Nat])
        /\ Len(decisions) = 0 /\ DOMAIN decisions = {} /\ DOMAIN decisions = 1 .. Len(decisions)
    BY DEF QueueInit
  <1>2. \A p \in ProviderIds : ReviewInv(p)
    BY <1>1 DEF QueueInit, ReviewInv, EndsReview, DecisionsOn
  <1> QED
    BY <1>1, <1>2 DEF QueueInit, ReviewsInv

LEMMA TransitionTable ==
  /\ DOMAIN Transitions = {"APPROVE", "REJECT", "BLOCK", "UNBLOCK"}
  /\ Transitions["APPROVE"].from = "PENDING" /\ Transitions["APPROVE"].to = "APPROVED"
  /\ Transitions["REJECT"].from = "PENDING" /\ Transitions["REJECT"].to = "REJECTED"
  /\ Transitions["BLOCK"].from = "APPROVED" /\ Transitions["BLOCK"].to = "BLOCKED"
  /\ Transitions["UNBLOCK"].from = "BLOCKED" /\ Transitions["UNBLOCK"].to = "APPROVED"
  BY DEF Transitions

LEMMA ReviewsStep ==
  ASSUME ReviewsInv, [QueueNext]_queueVars
  PROVE  ReviewsInv'
  <1>1. ASSUME UNCHANGED <<providers, decisions>>, tick' \in {tick, tick + 1}
        PROVE  ReviewsInv'
    <2>1. /\ providers' = providers /\ decisions' = decisions
          /\ tick' \in Nat \ {0} /\ tick' >= tick
      BY <1>1 DEF ReviewsInv
    <2>2. Registered' = Registered /\ \A p : EndsReview(p)' = EndsReview(p)
      BY <2>1 DEF Registered, EndsReview, DecisionsOn
    <2>3. \A p \in ProviderIds : ReviewInv(p)'
      BY <2>1, <2>2 DEF ReviewsInv, ReviewInv
    <2>4. \A i \in DOMAIN decisions : DecisionRowInv(i)'
      BY <2>1, <2>2 DEF ReviewsInv, DecisionRowInv
    <2> QED
      BY <2>1, <2>3, <2>4 DEF ReviewsInv
  <1>2. CASE QueueTick
    BY <1>1, <1>2 DEF QueueTick
  <1>3. ASSUME NEW p \in ProviderIds, Register(p)
        PROVE  ReviewsInv'
    <2> DEFINE row == [providers[p] EXCEPT !.createdAt = tick]
    <2>1. /\ DOMAIN row = {"createdAt", "status"} /\ row.createdAt = tick
          /\ row.status = providers[p].status
      BY DEF ReviewsInv, ReviewInv
    <2>2. providers' = [providers EXCEPT ![p] = row]
      BY <1>3 DEF Register
    <2> HIDE DEF row
    <2>3. /\ DOMAIN providers' = ProviderIds /\ providers'[p] = row
          /\ \A q \in ProviderIds \ {p} : providers'[q] = providers[q]
          /\ tick' = tick /\ decisions' = decisions
      BY <1>3, <2>2 DEF ReviewsInv, Register
    <2>4. Registered' = Registered \cup {p}
      BY <2>1, <2>3 DEF Registered, ReviewsInv
    <2>5. \A i \in DOMAIN decisions : decisions[i].provider # p
      BY <1>3 DEF ReviewsInv, DecisionRowInv, Register
    <2>6. \A q \in ProviderIds : ReviewInv(q)'
      BY <2>1, <2>3 DEF ReviewsInv, ReviewInv, EndsReview, DecisionsOn
    <2>7. \A i \in DOMAIN decisions : DecisionRowInv(i)'
      BY <2>3, <2>4, <2>5 DEF ReviewsInv, DecisionRowInv, Registered
    <2> QED
      BY <2>3, <2>6, <2>7 DEF ReviewsInv
  <1>4. ASSUME NEW p \in ProviderIds, NEW action \in DOMAIN Transitions, Decide(p, action)
        PROVE  ReviewsInv'
    <2> DEFINE row == [providers[p] EXCEPT !.status = Transitions[action].to]
               d == [provider |-> p, action |-> action, at |-> tick]
    <2>n. PICK n : n = Len(decisions) + 1
      OBVIOUS
    <2>1. /\ DOMAIN row = {"createdAt", "status"} /\ row.createdAt = providers[p].createdAt
          /\ row.status = Transitions[action].to
      BY DEF ReviewsInv, ReviewInv
    <2>2. /\ providers' = [providers EXCEPT ![p] = row]
          /\ decisions' = Append(decisions, d) /\ tick' = tick /\ p \in Registered
          /\ providers[p].status = Transitions[action].from
      BY <1>4 DEF Decide, WriteDecision
    <2>3. /\ DOMAIN d = {"provider", "action", "at"} /\ d.provider = p /\ d.action = action
          /\ d.at = tick /\ d \in [provider : ProviderIds, action : DOMAIN Transitions, at : Nat]
      BY DEF ReviewsInv
    <2> HIDE DEF row, d
    <2>4. /\ decisions' \in Seq([provider : ProviderIds, action : DOMAIN Transitions, at : Nat])
          /\ Len(decisions') = n /\ DOMAIN decisions' = 1 .. n
          /\ DOMAIN decisions' = DOMAIN decisions \cup {n} /\ n \notin DOMAIN decisions
          /\ decisions'[n] = d /\ \A i \in DOMAIN decisions : decisions'[i] = decisions[i]
      BY <2>2, <2>3, <2>n DEF ReviewsInv
    <2>5. /\ DOMAIN providers' = ProviderIds /\ providers'[p] = row
          /\ \A q \in ProviderIds \ {p} : providers'[q] = providers[q]
      BY <2>2 DEF ReviewsInv
    <2>6. Registered' = Registered
      BY <2>1, <2>5 DEF Registered
    <2>7. \A i \in DOMAIN decisions' : DecisionRowInv(i)'
      <3>1. DecisionRowInv(n)'
        BY <2>1, <2>2, <2>3, <2>4, <2>5, <2>6 DEF ReviewsInv, ReviewInv, DecisionRowInv
      <3>2. \A i \in DOMAIN decisions : DecisionRowInv(i)'
        BY <2>1, <2>2, <2>4, <2>5, <2>6 DEF ReviewsInv, DecisionRowInv, Registered
      <3> QED
        BY <2>4, <3>1, <3>2
    <2>8. \A q \in ProviderIds : 
            EndsReview(q)' = EndsReview(q) \cup {i \in {n} : q = p /\ action \in Terminal}
      BY <2>3, <2>4 DEF EndsReview, DecisionsOn
    <2>9. /\ action \in Terminal => providers[p].status = "PENDING" /\ row.status # "PENDING"
          /\ action \notin Terminal => providers[p].status # "PENDING" /\ row.status # "PENDING"
      <3>1. CASE action = "APPROVE"
        BY <2>1, <2>2, <3>1, TransitionTable DEF Terminal
      <3>2. CASE action = "REJECT"
        BY <2>1, <2>2, <3>2, TransitionTable DEF Terminal
      <3>3. CASE action = "BLOCK"
        BY <2>1, <2>2, <3>3, TransitionTable DEF Terminal
      <3>4. CASE action = "UNBLOCK"
        BY <2>1, <2>2, <3>4, TransitionTable DEF Terminal
      <3> QED
        BY <3>1, <3>2, <3>3, <3>4, TransitionTable
    <2>10. \A q \in ProviderIds : ReviewInv(q)'
      <3>1. ASSUME NEW q \in ProviderIds \ {p} PROVE ReviewInv(q)'
        <4>1. EndsReview(q)' = EndsReview(q) /\ providers'[q] = providers[q] /\ tick' = tick
          BY <2>2, <2>5, <2>8
        <4> QED
          BY <4>1 DEF ReviewsInv, ReviewInv
      <3>2. /\ providers'[p].status # "PENDING" /\ tick' = tick
            /\ DOMAIN providers'[p] = {"createdAt", "status"}
            /\ providers'[p].createdAt = providers[p].createdAt
        BY <2>1, <2>2, <2>5, <2>9
      <3>3. CASE action \in Terminal
        <4>1. EndsReview(p) = {}
          BY <2>9, <3>3 DEF ReviewsInv, ReviewInv
        <4>2. EndsReview(p)' = {n}
          BY <2>8, <3>3, <4>1
        <4>3. ReviewInv(p)'
          BY <3>2, <4>2 DEF ReviewsInv, ReviewInv
        <4> QED
          BY <3>1, <4>3
      <3>4. CASE action \notin Terminal
        <4>1. EndsReview(p)' = EndsReview(p) /\ providers[p].status # "PENDING"
          BY <2>8, <2>9, <3>4
        <4>2. ReviewInv(p)'
          BY <3>2, <4>1 DEF ReviewsInv, ReviewInv
        <4> QED
          BY <3>1, <4>2
      <3> QED
        BY <3>3, <3>4
    <2>11. n \in Nat
      BY <2>n DEF ReviewsInv
    <2> QED
      BY <2>2, <2>4, <2>5, <2>7, <2>10, <2>11 DEF ReviewsInv
  <1> QED
    BY <1>1, <1>2, <1>3, <1>4
       DEF QueueNext, BeginWalk, CountRows, FindRows, EndWalk, CountPending,
           CountDecisions, FindReviews, queueVars

LEMMA DecisionsAreFinite ==
  ASSUME ReviewsInv, NEW S \in SUBSET DOMAIN decisions
  PROVE  IsFiniteSet(S) /\ Cardinality(S) \in Nat
  <1>1. Len(decisions) \in Int /\ DOMAIN decisions = 1 .. Len(decisions)
    BY DEF ReviewsInv
  <1>2. IsFiniteSet(DOMAIN decisions)
    BY <1>1, FS_Interval
  <1> QED
    BY <1>2, FS_Subset, FS_CardinalityType

\* A set has as many members as its image under a function that tells them
\* apart.
LEMMA SameNumber ==
  ASSUME NEW S, IsFiniteSet(S), NEW T, NEW f, DOMAIN f = S, 
         \A a \in S : f[a] \in T, \A a, b \in S : f[a] = f[b] => a = b,
         \A t \in T : \E a \in S : f[a] = t
  PROVE  IsFiniteSet(T) /\ Cardinality(T) = Cardinality(S)
  <1> DEFINE g == [a \in S |-> f[a]]
  <1>1. /\ g \in [S -> T] /\ \A a, b \in S : g[a] = g[b] => a = b
        /\ \A t \in T : \E a \in S : g[a] = t
    OBVIOUS
  <1> HIDE DEF g
  <1>2. g \in Bijection(S, T)
    BY <1>1, Fun_IsBij
  <1> QED
    BY <1>2, Fun_ExistsBij, FS_Bijection

LEMMA ApartAdd ==
  ASSUME NEW S, NEW T, IsFiniteSet(S), IsFiniteSet(T), S \cap T = {}
  PROVE  Cardinality(S \cup T) = Cardinality(S) + Cardinality(T)
  <1>1. Cardinality(S \cap T) = 0
    BY FS_EmptySet
  <1>2. Cardinality(S) \in Nat /\ Cardinality(T) \in Nat
    BY FS_CardinalityType
  <1>3. Cardinality(S \cup T) = Cardinality(S) + Cardinality(T) - Cardinality(S \cap T)
    BY FS_Union
  <1> QED
    BY <1>1, <1>2, <1>3

\* The decisions of a window that ended a review.
TerminalIn(w) ==
    {i \in DOMAIN decisions : decisions[i].action \in Terminal /\ Inside(decisions[i].at, w)}

\* No provider's review ends twice, and none before it registered: every decision
\* that ended one is counted.
LEMMA ReviewsAreCounted ==
  ASSUME ReviewsInv, NEW w
  PROVE  /\ reviewedProviders(w) = TerminalIn(w)
         /\ IsFiniteSet(TerminalIn(w)) /\ Cardinality(TerminalIn(w)) \in Nat
         /\ Cardinality(TerminalIn(w)) = decisionCount("APPROVE", w) + decisionCount("REJECT", w)
  <1> DEFINE Of(action) ==
               {i \in DOMAIN decisions :
                   decisions[i].action = action /\ Inside(decisions[i].at, w)}
  <1>1. \A i, j \in TerminalIn(w) : decisions[i].provider = decisions[j].provider => i = j
    <2> SUFFICES ASSUME NEW i \in TerminalIn(w), NEW j \in TerminalIn(w),
                        decisions[i].provider = decisions[j].provider
                 PROVE  i = j
      OBVIOUS
    <2>1. PICK p \in ProviderIds : decisions[i].provider = p
      BY DEF TerminalIn, ReviewsInv, DecisionRowInv, Registered
    <2>2. i \in EndsReview(p) /\ j \in EndsReview(p)
      BY <2>1 DEF EndsReview, DecisionsOn, TerminalIn
    <2> QED
      BY <2>2 DEF ReviewsInv, ReviewInv
  <1>2. \A i \in TerminalIn(w) :
          i \in Nat /\ decisions[i].at >= providers[decisions[i].provider].createdAt
    BY DEF TerminalIn, ReviewsInv, ReviewInv, DecisionRowInv, Registered
  <1>3. reviewedProviders(w) =
          {i \in TerminalIn(w) :
             /\ \A j \in TerminalIn(w) :
                  decisions[j].provider = decisions[i].provider => i <= j
             /\ decisions[i].at >= providers[decisions[i].provider].createdAt}
    BY DEF reviewedProviders, TerminalIn, Terminal
  <1>4. reviewedProviders(w) = TerminalIn(w)
    BY <1>1, <1>2, <1>3
  <1>5. IsFiniteSet(TerminalIn(w)) /\ Cardinality(TerminalIn(w)) \in Nat
    BY DecisionsAreFinite DEF TerminalIn
  <1>6. PICK A, R : A = Of("APPROVE") /\ R = Of("REJECT")
    OBVIOUS
  <1>7. TerminalIn(w) = A \cup R /\ A \cap R = {}
    BY <1>6 DEF Terminal, TerminalIn
  <1>8. IsFiniteSet(A) /\ IsFiniteSet(R)
    BY <1>6, DecisionsAreFinite
  <1>9. decisionCount("APPROVE", w) = Cardinality(A) /\ decisionCount("REJECT", w) = Cardinality(R)
    BY <1>6 DEF decisionCount
  <1> HIDE DEF Of
  <1>10. Cardinality(A \cup R) = Cardinality(A) + Cardinality(R)
    BY <1>7, <1>8, ApartAdd
  <1> QED
    BY <1>4, <1>5, <1>7, <1>9, <1>10

\* In a window of all time every provider is pending or was reviewed.
LEMMA KnownAreCounted ==
  ASSUME ReviewsInv, NEW w \in DashboardWindows, w.from = 1, w.to >= tick
  PROVE  pendingCount(w) + Cardinality(TerminalIn(w)) = Cardinality(Registered)
  <1> DEFINE terminal == TerminalIn(w)
             by == [i \in terminal |-> decisions[i].provider]
             P == {p \in Registered : providers[p].status = "PENDING"}
             D == {p \in Registered : providers[p].status # "PENDING"}
  <1>1. w.to \in Nat
    BY QueueAssumption DEF DashboardWindows
  <1>2. \A p \in Registered : Inside(providers[p].createdAt, w)
    BY <1>1 DEF Inside, Registered, ReviewsInv, ReviewInv
  <1>3. pendingCount(w) = Cardinality(P)
    <2>1. P = {p \in Registered :
                 providers[p].status = "PENDING" /\ Inside(providers[p].createdAt, w)}
      BY <1>2
    <2> QED
      BY <2>1 DEF pendingCount
  <1>4. \A i \in DOMAIN decisions : decisions[i].action \in Terminal => i \in terminal
    BY <1>1 DEF Inside, Registered, ReviewsInv, ReviewInv, DecisionRowInv, TerminalIn
  <1>5. \A p \in D : \E i \in terminal : decisions[i].provider = p
    <2> SUFFICES ASSUME NEW p \in D PROVE \E i \in terminal : decisions[i].provider = p
      OBVIOUS
    <2>1. p \in ProviderIds /\ providers[p].status # "PENDING"
      BY DEF Registered
    <2>2. PICK i \in EndsReview(p) : TRUE
      BY <2>1 DEF ReviewsInv, ReviewInv
    <2>3. i \in DOMAIN decisions /\ decisions[i].provider = p /\ decisions[i].action \in Terminal
      BY <2>2 DEF EndsReview, DecisionsOn
    <2> QED
      BY <1>4, <2>3
  <1>6. \A i \in terminal : decisions[i].provider \in D
    <2> SUFFICES ASSUME NEW i \in terminal PROVE decisions[i].provider \in D
      OBVIOUS
    <2>1. PICK p \in Registered : decisions[i].provider = p
      BY DEF ReviewsInv, DecisionRowInv, TerminalIn
    <2>2. i \in EndsReview(p) /\ p \in ProviderIds
      BY <2>1 DEF EndsReview, DecisionsOn, Registered, TerminalIn
    <2>3. providers[p].status # "PENDING"
      BY <2>2 DEF ReviewsInv, ReviewInv
    <2> QED
      BY <2>1, <2>3
  <1>7. \A a, b \in terminal : decisions[a].provider = decisions[b].provider => a = b
    <2> SUFFICES ASSUME NEW a \in terminal, NEW b \in terminal,
                        decisions[a].provider = decisions[b].provider
                 PROVE  a = b
      OBVIOUS
    <2>1. PICK p \in ProviderIds : decisions[a].provider = p
      BY DEF TerminalIn, ReviewsInv, DecisionRowInv, Registered
    <2>2. a \in EndsReview(p) /\ b \in EndsReview(p)
      BY <2>1 DEF EndsReview, DecisionsOn, TerminalIn
    <2> QED
      BY <2>2 DEF ReviewsInv, ReviewInv
  <1>8. /\ DOMAIN by = terminal /\ \A a \in terminal : by[a] \in D
        /\ \A a, b \in terminal : by[a] = by[b] => a = b
        /\ \A t \in D : \E a \in terminal : by[a] = t
    BY <1>5, <1>6, <1>7
  <1>9. IsFiniteSet(terminal)
    BY ReviewsAreCounted
  <1>10. Registered = P \cup D /\ P \cap D = {} /\ Registered \in SUBSET ProviderIds
         /\ P \in SUBSET Registered
    BY DEF Registered
  <1>11. terminal = TerminalIn(w)
    OBVIOUS
  <1> HIDE DEF P, D, terminal, by
  <1>12. IsFiniteSet(D) /\ Cardinality(D) = Cardinality(terminal)
    BY <1>8, <1>9, SameNumber
  <1>13. IsFiniteSet(P)
    BY <1>10, QueueAssumption, FS_Subset
  <1>14. Cardinality(Registered) = Cardinality(P) + Cardinality(D)
    BY <1>10, <1>12, <1>13, ApartAdd
  <1> QED
    BY <1>3, <1>11, <1>12, <1>14

\* A decision ends one review at most; nothing else ends one.
LEMMA ReviewsEnd ==
  ASSUME ReviewsInv, ReviewsInv', [QueueNext]_queueVars, NEW w
  PROVE  /\ Cardinality(TerminalIn(w)') - Cardinality(TerminalIn(w)) \in {0, 1}
         /\ (\A p \in ProviderIds, a \in DOMAIN Transitions : ~Decide(p, a)) =>
              TerminalIn(w)' = TerminalIn(w)
  <1>0. Cardinality(TerminalIn(w)) \in Nat /\ IsFiniteSet(TerminalIn(w))
    BY ReviewsAreCounted
  <1>1. CASE decisions' = decisions
    <2>1. TerminalIn(w)' = TerminalIn(w)
      BY <1>1 DEF TerminalIn, Inside
    <2> QED
      BY <1>0, <2>1
  <1>2. ASSUME NEW p \in ProviderIds, NEW a \in DOMAIN Transitions, Decide(p, a)
        PROVE  Cardinality(TerminalIn(w)') - Cardinality(TerminalIn(w)) \in {0, 1}
    <2> DEFINE d == [provider |-> p, action |-> a, at |-> tick]
    <2>n. PICK n : n = Len(decisions) + 1
      OBVIOUS
    <2>1. /\ d \in [provider : ProviderIds, action : DOMAIN Transitions, at : Nat]
          /\ decisions' = Append(decisions, d)
      BY <1>2 DEF Decide, WriteDecision, ReviewsInv
    <2> HIDE DEF d
    <2>2. /\ DOMAIN decisions' = DOMAIN decisions \cup {n} /\ n \notin DOMAIN decisions
          /\ \A i \in DOMAIN decisions : decisions'[i] = decisions[i]
      BY <2>n, <2>1 DEF ReviewsInv
    <2>3. TerminalIn(w)' = TerminalIn(w) \/ TerminalIn(w)' = TerminalIn(w) \cup {n}
      BY <2>2 DEF TerminalIn, Inside
    <2>4. n \notin TerminalIn(w)
      BY <2>2 DEF TerminalIn
    <2>5. Cardinality(TerminalIn(w) \cup {n}) = Cardinality(TerminalIn(w)) + 1
      BY <1>0, <2>4, FS_AddElement
    <2> QED
      BY <1>0, <2>3, <2>5
  <1>3. CASE \A p \in ProviderIds, a \in DOMAIN Transitions : ~Decide(p, a)
    <2>1. decisions' = decisions
      BY <1>3 DEF QueueNext, QueueTick, Register, BeginWalk, CountRows, FindRows, EndWalk,
         CountPending, CountDecisions, FindReviews, queueVars
    <2> QED
      BY <1>1, <2>1 DEF TerminalIn, Inside
  <1> QED
    BY <1>2, <1>3

QueuePlace(filter, p) == Cardinality({q \in Queued(filter) : Before(q, p)})

HistoryPlace(p, i) == Cardinality({j \in DecisionsOn(p) : j < i})

\* The providers of the beginning that the pages to come will not show: not
\* shown so far, and out of the list, or before the place where it goes on.
Behind(got, filter, cursor) ==
    {x \in DOMAIN got : got[x] = 0 /\ (x \in Queued(filter) => QueuePlace(filter, x) < cursor)}

Cursor(w) == (w.page - 1) * PageLimit

\* No more providers are behind than left the list.
QueueWalkInv ==
    /\ walk.filter \in Filters
    /\ DOMAIN walk.got \subseteq Registered
    /\ walk.at # "done" =>
         Cardinality(Behind(walk.got, walk.filter, Cursor(walk))) <= walk.moves

\* The history has shown what it has passed, once.
HistoryWalkInv ==
    /\ DOMAIN walk.got \subseteq DecisionsOn(walk.of)
    /\ walk.at # "done" =>
         \A x \in DOMAIN walk.got :
            walk.got[x] = IF HistoryPlace(walk.of, x) < Cursor(walk) THEN 1 ELSE 0
    /\ walk.at = "rows" =>
         \A x \in DOMAIN walk.got : HistoryPlace(walk.of, x) < walk.total

PagesInv ==
    /\ DOMAIN walk = {"list", "of", "filter", "page", "total", "at", "got", "torn", "moves"}
    /\ walk.list \in {"queue", "history"} /\ walk.at \in {"count", "rows", "done"}
    /\ walk.page \in Nat \ {0} /\ walk.total \in Nat /\ walk.moves \in Nat
    /\ \A x \in DOMAIN walk.got : walk.got[x] \in Nat
    /\ WalkMissesNothing
    /\ walk.list = "queue" => QueueWalkInv
    /\ walk.list = "history" => HistoryWalkInv

\* What the dashboard has counted differs from what it would count now by what
\* was decided meanwhile at most.
FiguresInv ==
    /\ DOMAIN walk = {"list", "window", "at", "pending", "ended", "reviewed", "all",
                      "known", "moves"}
    /\ walk.list = "dashboard" /\ walk.at \in {"totals", "reviews", "done"}
    /\ walk.window \in DashboardWindows
    /\ walk.pending \in Nat /\ walk.ended \in Nat /\ walk.known \in Nat /\ walk.moves \in Nat
    /\ (walk.at # "done" /\ walk.all) =>
         walk.pending + Cardinality(TerminalIn(walk.window)) - walk.known \in 0 .. walk.moves
    /\ walk.at = "reviews" =>
         Cardinality(TerminalIn(walk.window)) - walk.ended \in 0 .. walk.moves
    /\ DashboardAgrees

WalkInv == walk.list = "none" \/ PagesInv \/ FiguresInv

LEMMA RowsAreFinite ==
  ASSUME ReviewsInv
  PROVE  /\ IsFiniteSet(Registered) /\ Cardinality(Registered) \in Nat
         /\ \A f : /\ Queued(f) \subseteq Registered
                   /\ IsFiniteSet(Queued(f)) /\ Cardinality(Queued(f)) \in Nat
         /\ \A p : IsFiniteSet(DecisionsOn(p)) /\ Cardinality(DecisionsOn(p)) \in Nat
  <1>1. Registered \in SUBSET ProviderIds
    BY DEF Registered
  <1>2. \A p : DecisionsOn(p) \in SUBSET DOMAIN decisions
    BY DEF DecisionsOn
  <1>3. \A f : Queued(f) \in SUBSET ProviderIds /\ Queued(f) \subseteq Registered
    BY DEF Queued, Registered
  <1> QED
    BY <1>1, <1>2, <1>3, DecisionsAreFinite, QueueAssumption, FS_Subset, FS_CardinalityType

\* A row that is not before itself has less than all of them before it.
LEMMA FewerBefore ==
  ASSUME NEW S, IsFiniteSet(S), NEW x \in S, NEW T \in SUBSET (S \ {x})
  PROVE  Cardinality(T) \in Nat /\ Cardinality(T) < Cardinality(S)
  <1>1. T \in SUBSET S /\ T # S
    OBVIOUS
  <1>2. IsFiniteSet(T) /\ Cardinality(T) <= Cardinality(S) /\ Cardinality(T) # Cardinality(S)
    BY <1>1, FS_Subset
  <1>3. Cardinality(T) \in Nat /\ Cardinality(S) \in Nat
    BY <1>2, FS_CardinalityType
  <1> QED
    BY <1>2, <1>3

\* The order of the queue is one: of two of its providers one is before the other,
\* and has the smaller place.
LEMMA PlacesInOrder ==
  ASSUME ReviewsInv, NEW f
  PROVE  /\ \A p \in Queued(f) :
              QueuePlace(f, p) \in Nat /\ QueuePlace(f, p) < Cardinality(Queued(f))
         /\ \A p, q \in Queued(f) : Before(p, q) => QueuePlace(f, p) < QueuePlace(f, q)
         /\ \A p, q \in Queued(f) : p = q \/ Before(p, q) \/ Before(q, p)
  <1>1. \A p \in Queued(f) : p \in Nat /\ providers[p].createdAt \in Nat
    BY QueueAssumption DEF Queued, Registered, ReviewsInv, ReviewInv
  <1>2. ASSUME NEW p \in Queued(f)
        PROVE  QueuePlace(f, p) \in Nat /\ QueuePlace(f, p) < Cardinality(Queued(f))
    <2>1. {q \in Queued(f) : Before(q, p)} \in SUBSET (Queued(f) \ {p})
      BY <1>1 DEF Before
    <2> QED
      BY <2>1, RowsAreFinite, FewerBefore DEF QueuePlace
  <1>3. ASSUME NEW p \in Queued(f), NEW q \in Queued(f), Before(p, q)
        PROVE  QueuePlace(f, p) < QueuePlace(f, q)
    <2> DEFINE P == {r \in Queued(f) : Before(r, p)}
               Q == {r \in Queued(f) : Before(r, q)}
    <2>1. P \in SUBSET (Q \ {p}) /\ p \in Q
      BY <1>1, <1>3 DEF Before
    <2>2. IsFiniteSet(Q)
      <3>1. Q \in SUBSET Queued(f)
        OBVIOUS
      <3> QED
        BY <3>1, RowsAreFinite, FS_Subset
    <2>3. Cardinality(P) < Cardinality(Q)
      BY <2>1, <2>2, FewerBefore
    <2> QED
      BY <2>3 DEF QueuePlace
  <1>4. \A p, q \in Queued(f) : p = q \/ Before(p, q) \/ Before(q, p)
    BY <1>1 DEF Before
  <1> QED
    BY <1>2, <1>3, <1>4

LEMMA HistoryInOrder ==
  ASSUME ReviewsInv, NEW p, NEW i \in DecisionsOn(p)
  PROVE  HistoryPlace(p, i) \in Nat /\ HistoryPlace(p, i) < Cardinality(DecisionsOn(p))
  <1>1. i \in Nat
    BY DEF DecisionsOn, ReviewsInv
  <1>2. {j \in DecisionsOn(p) : j < i} \in SUBSET (DecisionsOn(p) \ {i})
    BY <1>1
  <1> QED
    BY <1>2, RowsAreFinite, FewerBefore DEF HistoryPlace

\* Nobody loses the time of registering, and a history only grows at its end.
LEMMA RowsStay ==
  ASSUME ReviewsInv, [QueueNext]_queueVars
  PROVE  /\ Registered \subseteq Registered'
         /\ \A p \in Registered : providers'[p].createdAt = providers[p].createdAt
         /\ \A p : DecisionsOn(p) \subseteq DecisionsOn(p)'
         /\ \A p : \A i \in DecisionsOn(p) : HistoryPlace(p, i)' = HistoryPlace(p, i)
  <1>1. \A p \in Registered : p \in Registered' /\ providers'[p].createdAt = providers[p].createdAt
    <2>1. ASSUME NEW q \in ProviderIds, Register(q)
          PROVE  \A p \in Registered :
                   p \in Registered' /\ providers'[p].createdAt = providers[p].createdAt
      <3>1. \A p \in Registered : providers'[p] = providers[p]
        BY <2>1 DEF Register, Registered, ReviewsInv
      <3> QED
        BY <3>1 DEF Registered
    <2>2. ASSUME NEW q \in ProviderIds, NEW action \in DOMAIN Transitions, Decide(q, action)
          PROVE  \A p \in Registered :
                   p \in Registered' /\ providers'[p].createdAt = providers[p].createdAt
      <3>1. \A p \in Registered : providers'[p].createdAt = providers[p].createdAt
        BY <2>2 DEF Decide, WriteDecision, Registered, ReviewsInv, ReviewInv
      <3> QED
        BY <3>1 DEF Registered
    <2>3. CASE providers' = providers
      BY <2>3 DEF Registered
    <2> QED
      BY <2>1, <2>2, <2>3
         DEF QueueNext, QueueTick, BeginWalk, CountRows, FindRows, EndWalk, CountPending,
             CountDecisions, FindReviews, queueVars
  <1>2. ASSUME NEW p
        PROVE  /\ DecisionsOn(p) \subseteq DecisionsOn(p)'
               /\ \A i \in DecisionsOn(p) : HistoryPlace(p, i)' = HistoryPlace(p, i)
    <2>1. ASSUME NEW q \in ProviderIds, NEW action \in DOMAIN Transitions, Decide(q, action)
          PROVE  /\ DecisionsOn(p) \subseteq DecisionsOn(p)'
                 /\ \A i \in DecisionsOn(p) : HistoryPlace(p, i)' = HistoryPlace(p, i)
      <3> DEFINE d == [provider |-> q, action |-> action, at |-> tick]
      <3>n. PICK n : n = Len(decisions) + 1
        OBVIOUS
      <3>0. /\ d \in [provider : ProviderIds, action : DOMAIN Transitions, at : Nat]
            /\ decisions' = Append(decisions, d)
        BY <2>1 DEF Decide, WriteDecision, ReviewsInv
      <3> HIDE DEF d
      <3>1. /\ DOMAIN decisions' = DOMAIN decisions \cup {n}
            /\ n \in Nat /\ \A i \in DOMAIN decisions : i \in Nat /\ i < n
            /\ \A i \in DOMAIN decisions : decisions'[i] = decisions[i]
        BY <3>n, <3>0 DEF ReviewsInv
      <3>2. /\ DecisionsOn(p) \subseteq DecisionsOn(p)'
            /\ DecisionsOn(p)' \subseteq DecisionsOn(p) \cup {n}
        BY <3>1 DEF DecisionsOn
      <3>3. ASSUME NEW i \in DecisionsOn(p) PROVE HistoryPlace(p, i)' = HistoryPlace(p, i)
        <4>1. i \in Nat /\ i < n
          BY <3>1 DEF DecisionsOn
        <4>2. {j \in DecisionsOn(p)' : j < i} = {j \in DecisionsOn(p) : j < i}
          BY <3>1, <3>2, <4>1
        <4> QED
          BY <4>2 DEF HistoryPlace
      <3> QED
        BY <3>2, <3>3
    <2>2. CASE decisions' = decisions
      BY <2>2 DEF DecisionsOn, HistoryPlace
    <2> QED
      BY <2>1, <2>2
         DEF QueueNext, QueueTick, Register, BeginWalk, CountRows, FindRows, EndWalk,
             CountPending, CountDecisions, FindReviews, queueVars
  <1> QED
    BY <1>1, <1>2

\* When no row leaves the list, those behind the cursor are no more than before.
LEMMA NobodyFallsBehind ==
  ASSUME ReviewsInv, ReviewsInv', [QueueNext]_queueVars, NEW got, NEW f, NEW cursor \in Nat,
         Queued(f) \subseteq Queued(f)'
  PROVE  Behind(got, f, cursor)' \subseteq Behind(got, f, cursor)
  <1> SUFFICES ASSUME NEW x \in Behind(got, f, cursor)', x \in Queued(f)
               PROVE  QueuePlace(f, x) < cursor
    BY DEF Behind
  <1> DEFINE B == {q \in Queued(f) : Before(q, x)}
             C == {q \in Queued(f)' : Before(q, x)'}
  <1>1. x \in Queued(f)' /\ QueuePlace(f, x)' < cursor
    BY DEF Behind
  <1>2. Queued(f) \subseteq Registered
    BY RowsAreFinite
  <1>3. B \in SUBSET C
    BY <1>2, RowsStay DEF Before
  <1>4. C \in SUBSET (Queued(f)') /\ IsFiniteSet(Queued(f)')
    <2>1. Queued(f)' \in SUBSET ProviderIds
      BY DEF Queued, Registered
    <2> QED
      BY <2>1, QueueAssumption, FS_Subset
  <1>5. IsFiniteSet(C)
    BY <1>4, FS_Subset
  <1>6. /\ Cardinality(B) <= Cardinality(C) /\ IsFiniteSet(B)
        /\ Cardinality(B) \in Nat /\ Cardinality(C) \in Nat
    BY <1>3, <1>5, FS_Subset, FS_CardinalityType
  <1>7. QueuePlace(f, x)' = Cardinality(C) /\ QueuePlace(f, x) = Cardinality(B)
    BY DEF QueuePlace
  <1> HIDE DEF B, C
  <1> QED
    BY <1>1, <1>6, <1>7

\* When one row leaves the list, one falls behind at most: the row itself if the
\* pages have not come to it, otherwise the row whose turn it would have been.
LEMMA OneFallsBehind ==
  ASSUME ReviewsInv, NEW p \in ProviderIds, NEW a \in DOMAIN Transitions, Decide(p, a),
         NEW got, NEW f, NEW cursor \in Nat, p \in Queued(f), Queued(f)' = Queued(f) \ {p}
  PROVE  \E y : Behind(got, f, cursor)' \subseteq Behind(got, f, cursor) \cup {y}
  <1>1. /\ \A x \in Queued(f) : QueuePlace(f, x) \in Nat
        /\ \A x, y \in Queued(f) : Before(x, y) => QueuePlace(f, x) < QueuePlace(f, y)
        /\ \A x, y \in Queued(f) : x = y \/ Before(x, y) \/ Before(y, x)
    BY PlacesInOrder
  <1>2. \A x, y \in Queued(f) : QueuePlace(f, x) = QueuePlace(f, y) => x = y
    BY <1>1
  <1>3. ASSUME NEW x \in Queued(f)'
        PROVE  QueuePlace(f, x)' = IF Before(p, x) THEN QueuePlace(f, x) - 1
                                                  ELSE QueuePlace(f, x)
    <2> DEFINE B == {q \in Queued(f) : Before(q, x)}
               C == {q \in Queued(f)' : Before(q, x)'}
    <2>1. \A q \in Queued(f) : Before(q, x)' <=> Before(q, x)
      <3>1. [QueueNext]_queueVars
        BY DEF QueueNext
      <3>2. Queued(f) \subseteq Registered
        BY RowsAreFinite
      <3> QED
        BY <3>1, <3>2, RowsStay DEF Before
    <2>2. C = B \ {p} /\ (p \in B <=> Before(p, x))
      BY <2>1
    <2>3. IsFiniteSet(B)
      <3>1. B \in SUBSET Queued(f)
        OBVIOUS
      <3> QED
        BY <3>1, RowsAreFinite, FS_Subset
    <2>4. QueuePlace(f, x)' = Cardinality(C) /\ QueuePlace(f, x) = Cardinality(B)
      BY DEF QueuePlace
    <2> HIDE DEF B, C
    <2>5. CASE Before(p, x)
      BY <2>2, <2>3, <2>4, <2>5, FS_RemoveElement
    <2>6. CASE ~Before(p, x)
      <3>1. C = B
        BY <2>2, <2>6
      <3> QED
        BY <2>4, <2>6, <3>1
    <2> QED
      BY <2>5, <2>6
  <1>4. CASE QueuePlace(f, p) >= cursor
    <2>1. ASSUME NEW x \in Behind(got, f, cursor)', x # p
          PROVE  x \in Behind(got, f, cursor)
      <3>1. CASE x \in Queued(f)
        <4>1. x \in Queued(f)' /\ QueuePlace(f, x)' < cursor
          BY <2>1, <3>1 DEF Behind
        <4>2. Before(p, x) => QueuePlace(f, x) - 1 >= cursor
          BY <1>1, <1>4, <3>1
        <4>3. QueuePlace(f, x) < cursor
          BY <1>1, <1>3, <3>1, <4>1, <4>2
        <4> QED
          BY <4>3 DEF Behind
      <3>2. CASE x \notin Queued(f)
        BY <3>2 DEF Behind
      <3> QED
        BY <3>1, <3>2
    <2> QED
      BY <2>1
  <1>5. CASE ~(QueuePlace(f, p) >= cursor)
    <2>1. QueuePlace(f, p) < cursor
      BY <1>1, <1>5
    <2> DEFINE turn == CHOOSE y : y \in Queued(f) /\ QueuePlace(f, y) = cursor
    <2>2. ASSUME NEW x \in Behind(got, f, cursor)', x # turn
          PROVE  x \in Behind(got, f, cursor)
      <3>1. CASE x \in Queued(f) /\ x # p
        <4>1. x \in Queued(f)' /\ QueuePlace(f, x)' < cursor
          BY <2>2, <3>1 DEF Behind
        <4>2. QueuePlace(f, x) # cursor
          <5> SUFFICES ASSUME QueuePlace(f, x) = cursor PROVE FALSE
            OBVIOUS
          <5>1. turn \in Queued(f) /\ QueuePlace(f, turn) = cursor
            BY <3>1
          <5> HIDE DEF turn
          <5> QED
            BY <1>2, <2>2, <3>1, <5>1
        <4>3. QueuePlace(f, x) < cursor
          BY <1>1, <1>3, <3>1, <4>1, <4>2
        <4> QED
          BY <4>3 DEF Behind
      <3>2. CASE x = p
        BY <2>1, <3>2 DEF Behind
      <3>3. CASE x \notin Queued(f)
        BY <3>3 DEF Behind
      <3> QED
        BY <3>1, <3>2, <3>3
    <2> QED
      BY <2>2
  <1> QED
    BY <1>4, <1>5

LEMMA BehindIsFinite ==
  ASSUME ReviewsInv, NEW got, NEW f, NEW cursor, DOMAIN got \subseteq Registered
  PROVE  /\ IsFiniteSet(Behind(got, f, cursor)) /\ Cardinality(Behind(got, f, cursor)) \in Nat
         /\ \A S \in SUBSET Behind(got, f, cursor) :
              IsFiniteSet(S) /\ Cardinality(S) <= Cardinality(Behind(got, f, cursor))
  <1>1. Behind(got, f, cursor) \in SUBSET Registered
    BY DEF Behind
  <1>2. IsFiniteSet(Behind(got, f, cursor))
    BY <1>1, RowsAreFinite, FS_Subset
  <1> QED
    BY <1>2, FS_Subset, FS_CardinalityType

\* The data moves while somebody pages through the queue.
LEMMA QueueWaits ==
  ASSUME ReviewsInv, ReviewsInv', PagesInv, walk.list = "queue", [QueueNext]_queueVars,
         walk' = walk \/ \E p \in ProviderIds, a \in DOMAIN Transitions : Decide(p, a)
  PROVE  PagesInv'
  <1>0. QueueWalkInv
    BY DEF PagesInv
  <1>1. PICK got, f, m, n : got = walk.got /\ f = walk.filter /\ m = walk.moves /\ n = walk.page
    OBVIOUS
  <1>2. m \in Nat /\ n \in Nat \ {0} /\ f \in Filters /\ DOMAIN got \subseteq Registered
    BY <1>0, <1>1 DEF PagesInv, QueueWalkInv
  <1>3. PICK cursor \in Nat : cursor = (n - 1) * PageLimit
    <2>1. n - 1 \in Nat /\ PageLimit \in Nat
      BY <1>2, QueueAssumption
    <2> QED
      BY <2>1
  <1>4. walk.at # "done" => Cardinality(Behind(got, f, cursor)) <= m
    BY <1>0, <1>1, <1>3 DEF QueueWalkInv, Cursor
  <1>5. /\ IsFiniteSet(Behind(got, f, cursor)) /\ Cardinality(Behind(got, f, cursor)) \in Nat
        /\ \A S \in SUBSET Behind(got, f, cursor) :
             IsFiniteSet(S) /\ Cardinality(S) <= Cardinality(Behind(got, f, cursor))
    BY <1>2, BehindIsFinite
  <1>6. DOMAIN got \subseteq Registered'
    BY <1>2, RowsStay
  <1>7. ASSUME NEW k \in Nat, k >= m,
               DOMAIN walk' = DOMAIN walk, walk'.moves = k,
               \A x \in DOMAIN walk \ {"moves"} : walk'[x] = walk[x],
               walk.at # "done" => Cardinality(Behind(got, f, cursor)') <= k
        PROVE  PagesInv'
    <2>1. /\ walk'.list = "queue" /\ walk'.at = walk.at /\ walk'.page = n /\ walk'.got = got
          /\ walk'.total = walk.total /\ walk'.filter = f /\ walk'.torn = walk.torn
      BY <1>1, <1>7 DEF PagesInv
    <2>2. WalkMissesNothing'
      <3> DEFINE missed == Cardinality({x \in DOMAIN got : got[x] = 0})
      <3>1. (walk.at = "done" /\ ~walk.torn) => missed <= m
        BY <1>1 DEF PagesInv, WalkMissesNothing, Paging
      <3>2. missed \in Nat
        <4>1. {x \in DOMAIN got : got[x] = 0} \in SUBSET Registered
          BY <1>2
        <4> QED
          BY <4>1, RowsAreFinite, FS_Subset, FS_CardinalityType
      <3> HIDE DEF missed
      <3>3. (walk.at = "done" /\ ~walk.torn) => missed <= k
        BY <1>2, <1>7, <3>1, <3>2
      <3> QED
        BY <1>7, <2>1, <3>3 DEF WalkMissesNothing, Paging, missed
    <2>3. QueueWalkInv'
      BY <1>2, <1>3, <1>6, <1>7, <2>1 DEF QueueWalkInv, Cursor
    <2> QED
      BY <1>1, <1>7, <2>1, <2>2, <2>3 DEF PagesInv
  <1>8. CASE Queued(f) \subseteq Queued(f)'
    <2>1. Behind(got, f, cursor)' \subseteq Behind(got, f, cursor)
      BY <1>8, NobodyFallsBehind
    <2>2. walk.at # "done" => Cardinality(Behind(got, f, cursor)') <= m
      <3>1. /\ Cardinality(Behind(got, f, cursor)') <= Cardinality(Behind(got, f, cursor))
            /\ IsFiniteSet(Behind(got, f, cursor)')
        BY <1>5, <2>1
      <3>2. Cardinality(Behind(got, f, cursor)') \in Nat
        BY <3>1, FS_CardinalityType
      <3> QED
        BY <1>2, <1>4, <1>5, <3>1, <3>2
    <2>3. CASE walk' = walk
      BY <1>1, <1>2, <1>7, <2>2, <2>3
    <2>4. CASE walk' = [walk EXCEPT !.moves = @ + 1]
      <3>1. /\ DOMAIN walk' = DOMAIN walk /\ walk'.moves = m + 1
            /\ \A x \in DOMAIN walk \ {"moves"} : walk'[x] = walk[x]
        BY <1>1, <2>4 DEF PagesInv
      <3>2. walk.at # "done" => Cardinality(Behind(got, f, cursor)') <= m + 1
        <4>1. Cardinality(Behind(got, f, cursor)') \in Nat
          BY <1>5, <2>1, FS_CardinalityType
        <4> QED
          BY <1>2, <2>2, <4>1
      <3> QED
        BY <1>2, <1>7, <3>1, <3>2
    <2>5. walk' = walk \/ walk' = [walk EXCEPT !.moves = @ + 1]
      BY DEF Decide, WriteDecision
    <2> QED
      BY <2>3, <2>4, <2>5
  <1>9. CASE ~(Queued(f) \subseteq Queued(f)')
    <2>1. PICK p \in ProviderIds, a \in DOMAIN Transitions : Decide(p, a)
      <3>1. CASE providers' = providers
        BY <1>9, <3>1 DEF Queued, Registered
      <3>2. ASSUME NEW q \in ProviderIds, Register(q) PROVE FALSE
        <4>1. \A x \in ProviderIds : x # q => providers'[x] = providers[x]
          BY <3>2 DEF Register, ReviewsInv
        <4>2. q \notin Registered
          BY <3>2 DEF Register
        <4> QED
          BY <1>9, <4>1, <4>2 DEF Queued, Registered
      <3> QED
        BY <3>1, <3>2
           DEF QueueNext, QueueTick, BeginWalk, CountRows, FindRows, EndWalk, CountPending,
               CountDecisions, FindReviews, queueVars
    <2>2. /\ \A x \in ProviderIds : x # p => providers'[x] = providers[x]
          /\ providers'[p].status = Transitions[a].to
          /\ p \in Registered /\ p \in Registered'
      <3>1. /\ DOMAIN providers = ProviderIds /\ DOMAIN providers[p] = {"createdAt", "status"}
            /\ providers' = [providers EXCEPT ![p].status = Transitions[a].to]
            /\ p \in Registered
        BY <2>1 DEF ReviewsInv, ReviewInv, Decide, WriteDecision
      <3>2. p \in Registered'
        BY <3>1, RowsStay
      <3> QED
        BY <3>1, <3>2
    <2>3. /\ p \in Queued(f) /\ p \notin Queued(f)' /\ Queued(f)' = Queued(f) \ {p}
          /\ providers[p].status \in f /\ Transitions[a].to \notin f
      BY <1>9, <2>2 DEF Queued, Registered
    <2>4. walk' = [walk EXCEPT !.moves = @ + 1]
      BY <1>1, <2>1, <2>3 DEF Decide, WriteDecision, Escapes
    <2>5. PICK y : Behind(got, f, cursor)' \subseteq Behind(got, f, cursor) \cup {y}
      BY <2>1, <2>3, OneFallsBehind
    <2>6. walk.at # "done" => Cardinality(Behind(got, f, cursor)') <= m + 1
      <3>1. PICK B, C : B = Behind(got, f, cursor) /\ C = Behind(got, f, cursor)'
        OBVIOUS
      <3>2. IsFiniteSet(B \cup {y}) /\ Cardinality(B \cup {y}) <= Cardinality(B) + 1
        <4>1. Cardinality(B \cup {y}) = IF y \in B THEN Cardinality(B) ELSE Cardinality(B) + 1
          BY <1>5, <3>1, FS_AddElement
        <4>2. IsFiniteSet(B \cup {y})
          BY <1>5, <3>1, FS_AddElement
        <4> QED
          BY <1>5, <3>1, <4>1, <4>2
      <3>3. C \in SUBSET (B \cup {y})
        BY <2>5, <3>1
      <3>4. IsFiniteSet(C) /\ Cardinality(C) <= Cardinality(B \cup {y})
        BY <3>2, <3>3, FS_Subset
      <3>5. Cardinality(C) \in Nat /\ Cardinality(B \cup {y}) \in Nat
        BY <3>2, <3>4, FS_CardinalityType
      <3> QED
        BY <1>2, <1>4, <1>5, <3>1, <3>2, <3>4, <3>5
    <2>7. /\ DOMAIN walk' = DOMAIN walk /\ walk'.moves = m + 1
          /\ \A x \in DOMAIN walk \ {"moves"} : walk'[x] = walk[x]
      BY <1>1, <2>4 DEF PagesInv
    <2> QED
      BY <1>2, <1>7, <2>6, <2>7
  <1> QED
    BY <1>8, <1>9

LEMMA HistoryWaits ==
  ASSUME ReviewsInv, PagesInv, walk.list = "history", [QueueNext]_queueVars, walk' = walk
  PROVE  PagesInv'
  <1>1. WalkMissesNothing'
    BY DEF PagesInv, WalkMissesNothing, Paging
  <1>2. HistoryWalkInv
    BY DEF PagesInv
  <1>3. /\ DOMAIN walk.got \subseteq DecisionsOn(walk.of)'
        /\ \A x \in DOMAIN walk.got : HistoryPlace(walk.of, x)' = HistoryPlace(walk.of, x)
    BY <1>2, RowsStay DEF HistoryWalkInv
  <1>4. HistoryWalkInv'
    BY <1>2, <1>3 DEF HistoryWalkInv, Cursor
  <1> QED
    BY <1>1, <1>4 DEF PagesInv

\* Decisions are taken while the dashboard is read.
LEMMA FiguresWait ==
  ASSUME ReviewsInv, ReviewsInv', FiguresInv, [QueueNext]_queueVars,
         walk' = walk \/ \E p \in ProviderIds, a \in DOMAIN Transitions : Decide(p, a)
  PROVE  FiguresInv'
  <1>1. PICK w \in DashboardWindows, m \in Nat, e \in Nat, k \in Nat, q \in Nat :
          /\ w = walk.window /\ m = walk.moves /\ e = walk.ended /\ k = walk.known
          /\ q = walk.pending
    BY DEF FiguresInv
  <1>2. PICK c, d : c = Cardinality(TerminalIn(w)) /\ d = Cardinality(TerminalIn(w)')
    OBVIOUS
  <1>3. c \in Nat /\ d - c \in {0, 1} /\ d \in Nat
    <2>1. c \in Nat /\ d - c \in {0, 1}
      BY <1>2, ReviewsAreCounted, ReviewsEnd
    <2>2. IsFiniteSet(TerminalIn(w)')
      <3>1. TerminalIn(w)' \subseteq DOMAIN decisions'
        BY DEF TerminalIn
      <3>2. DOMAIN decisions' = 1 .. Len(decisions') /\ Len(decisions') \in Int
        BY DEF ReviewsInv
      <3>3. IsFiniteSet(DOMAIN decisions')
        BY <3>2, FS_Interval
      <3> QED
        BY <3>1, <3>3, FS_Subset
    <2> QED
      BY <1>2, <2>1, <2>2, FS_CardinalityType
  <1>4. /\ (walk.at # "done" /\ walk.all) => q + c - k \in 0 .. m
        /\ walk.at = "reviews" => c - e \in 0 .. m
    BY <1>1, <1>2 DEF FiguresInv
  <1>5. CASE walk' = walk /\ d = c
    BY <1>1, <1>2, <1>4, <1>5 DEF FiguresInv, DashboardAgrees, DashboardWindows
  <1>6. CASE walk' = [walk EXCEPT !.moves = @ + 1] /\ walk.at # "done"
    <2>1. /\ DOMAIN walk' = DOMAIN walk /\ walk'.moves = m + 1 /\ walk'.window = w
          /\ walk'.list = "dashboard" /\ walk'.at = walk.at /\ walk'.pending = q
          /\ walk'.ended = e /\ walk'.known = k /\ walk'.all = walk.all
      BY <1>1, <1>6 DEF FiguresInv
    <2>2. /\ (walk.at # "done" /\ walk.all) => q + d - k \in 0 .. (m + 1)
          /\ walk.at = "reviews" => d - e \in 0 .. (m + 1)
          /\ m + 1 \in Nat
      BY <1>3, <1>4
    <2> QED
      BY <1>1, <1>2, <1>6, <2>1, <2>2 DEF FiguresInv, DashboardAgrees, DashboardWindows
  <1>7. CASE walk' = walk /\ walk.at = "done"
    BY <1>7 DEF FiguresInv, DashboardAgrees, DashboardWindows
  <1>8. CASE \E p \in ProviderIds, a \in DOMAIN Transitions : Decide(p, a)
    <2>1. IF walk.at \in {"totals", "reviews"} THEN walk' = [walk EXCEPT !.moves = @ + 1]
                                              ELSE walk' = walk
      BY <1>8 DEF Decide, WriteDecision, Escapes, FiguresInv
    <2> QED
      BY <1>6, <1>7, <2>1 DEF FiguresInv
  <1>9. CASE walk' = walk /\ \A p \in ProviderIds, a \in DOMAIN Transitions : ~Decide(p, a)
    <2>1. d = c
      BY <1>2, <1>9, ReviewsEnd
    <2> QED
      BY <1>5, <1>9, <2>1
  <1> QED
    BY <1>8, <1>9

LEMMA FiguresAreRead ==
  ASSUME ReviewsInv, walk.list = "none" \/ FiguresInv,
         CountPending \/ CountDecisions \/ FindReviews
  PROVE  FiguresInv'
  <1>1. \A w : TerminalIn(w)' = TerminalIn(w)
    BY DEF CountPending, CountDecisions, FindReviews, TerminalIn, Inside
  <1>2. DashboardWindows' = DashboardWindows
    BY DEF DashboardWindows
  <1>3. CASE CountPending
    <2>1. PICK w \in DashboardWindows :
            walk' = [list |-> "dashboard", window |-> w, at |-> "totals",
                     pending |-> pendingCount(w), ended |-> 0, reviewed |-> 0,
                     all |-> w.from = 1 /\ w.to >= tick,
                     known |-> Cardinality(Registered), moves |-> 0]
      BY <1>3 DEF CountPending
    <2>2. PICK q, k, v, c : q = pendingCount(w) /\ k = Cardinality(Registered)
                            /\ v = (w.from = 1 /\ w.to >= tick)
                            /\ c = Cardinality(TerminalIn(w))
      OBVIOUS
    <2>3. q \in Nat /\ k \in Nat /\ c \in Nat
      <3> DEFINE P == {p \in Registered :
                         providers[p].status = "PENDING" /\ Inside(providers[p].createdAt, w)}
      <3>1. P \in SUBSET Registered
        OBVIOUS
      <3>2. Cardinality(P) \in Nat
        BY <3>1, RowsAreFinite, FS_Subset, FS_CardinalityType
      <3> QED
        BY <2>2, <3>2, RowsAreFinite, ReviewsAreCounted DEF pendingCount
    <2>4. v => q + c - k \in 0 .. 0
      <3>1. v => q + c = k
        BY <2>2, KnownAreCounted
      <3> QED
        BY <2>3, <3>1
    <2>5. /\ DOMAIN walk' = {"list", "window", "at", "pending", "ended", "reviewed", "all",
                             "known", "moves"}
          /\ walk'.list = "dashboard" /\ walk'.at = "totals" /\ walk'.window = w
          /\ walk'.pending = q /\ walk'.ended = 0 /\ walk'.known = k /\ walk'.moves = 0
          /\ walk'.all = v
      BY <2>1, <2>2
    <2> QED
      BY <1>1, <1>2, <2>2, <2>3, <2>4, <2>5 DEF FiguresInv, DashboardAgrees
  <1>4. CASE CountDecisions
    <2>0. FiguresInv /\ walk.at = "totals"
      BY <1>4 DEF CountDecisions, FiguresInv
    <2>1. PICK w \in DashboardWindows, m \in Nat :  w = walk.window /\ m = walk.moves
      BY <2>0 DEF FiguresInv
    <2>2. PICK c \in Nat : c = Cardinality(TerminalIn(w))
      BY ReviewsAreCounted
    <2>3. decisionCount("APPROVE", w) + decisionCount("REJECT", w) = c
      BY <2>2, ReviewsAreCounted
    <2>4. walk' = [walk EXCEPT !.ended = c, !.at = "reviews"]
      BY <1>4, <2>1, <2>3 DEF CountDecisions
    <2>5. /\ DOMAIN walk' = DOMAIN walk /\ walk'.ended = c /\ walk'.at = "reviews"
          /\ \A x \in DOMAIN walk \ {"ended", "at"} : walk'[x] = walk[x]
      BY <2>0, <2>4 DEF FiguresInv
    <2>6. c - c \in 0 .. m
      OBVIOUS
    <2> QED
      BY <1>1, <1>2, <2>0, <2>1, <2>2, <2>5, <2>6 DEF FiguresInv, DashboardAgrees
  <1>5. CASE FindReviews
    <2>0. FiguresInv /\ walk.at = "reviews"
      BY <1>5 DEF FindReviews, FiguresInv
    <2>1. PICK w \in DashboardWindows, m \in Nat :  w = walk.window /\ m = walk.moves
      BY <2>0 DEF FiguresInv
    <2>2. PICK c \in Nat : c = Cardinality(TerminalIn(w))
      BY ReviewsAreCounted
    <2>3. Cardinality(reviewedProviders(w)) = c
      BY <2>2, ReviewsAreCounted
    <2>4. walk' = [walk EXCEPT !.reviewed = c, !.at = "done"]
      BY <1>5, <2>1, <2>3 DEF FindReviews
    <2>5. /\ DOMAIN walk' = DOMAIN walk /\ walk'.reviewed = c /\ walk'.at = "done"
          /\ \A x \in DOMAIN walk \ {"reviewed", "at"} : walk'[x] = walk[x]
      BY <2>0, <2>4 DEF FiguresInv
    <2> QED
      BY <1>1, <1>2, <2>0, <2>1, <2>2, <2>5 DEF FiguresInv, DashboardAgrees
  <1> QED
    BY <1>3, <1>4, <1>5

\* The last page of a count has the last of what was counted.
LEMMA LastPageHasTheRest ==
  ASSUME NEW n \in Nat \ {0}, NEW total \in Nat, NEW place \in Nat,
         ~(n < totalPages(total)), place < total
  PROVE  place < n * PageLimit
  <1>1. PICK L \in Nat \ {0} : L = PageLimit
    BY QueueAssumption
  <1>2. PICK d : d = (total + L - 1) \div L
    OBVIOUS
  <1>3. d \in Int /\ total + L - 1 < (d + 1) * L
    BY <1>1, <1>2
  <1>4. d <= n
    BY <1>1, <1>2, <1>3 DEF totalPages
  <1>5. (d + 1) * L <= (n + 1) * L
    BY <1>1, <1>3, <1>4
  <1>6. (n + 1) * L = n * L + L /\ n * L \in Int
    BY <1>1
  <1>7. total + L - 1 < n * L + L
    BY <1>1, <1>3, <1>5, <1>6
  <1> QED
    BY <1>1, <1>6, <1>7

LEMMA WalkBegins ==
  ASSUME ReviewsInv, BeginWalk
  PROVE  PagesInv'
  <1>0. PICK w \in Queues \cup Histories :
          walk' = [list |-> w.list, of |-> w.of, filter |-> w.filter, page |-> 1, total |-> 0,
                   at |-> "count", got |-> [x \in Rows(w) |-> 0], torn |-> FALSE, moves |-> 0]
    BY DEF BeginWalk
  <1>1. PICK l, of, f, R : l = w.list /\ of = w.of /\ f = w.filter /\ R = Rows(w)
    OBVIOUS
  <1>2. /\ UNCHANGED <<tick, providers, decisions>>
        /\ \A g : Queued(g)' = Queued(g)
        /\ Registered' = Registered /\ \A p : DecisionsOn(p)' = DecisionsOn(p)
        /\ \A p, i : HistoryPlace(p, i)' = HistoryPlace(p, i)
        /\ \A g, p : QueuePlace(g, p)' = QueuePlace(g, p)
    BY DEF BeginWalk, Queued, Registered, DecisionsOn, HistoryPlace, QueuePlace, Before
  <1>3. /\ l \in {"queue", "history"}
        /\ l = "queue" => f \in Filters /\ R = Queued(f)
        /\ l = "history" => R = DecisionsOn(of)
    BY <1>1 DEF Rows, Queues, Histories
  <1>4. /\ walk'.list = l /\ walk'.of = of /\ walk'.filter = f /\ walk'.page = 1
        /\ walk'.total = 0 /\ walk'.at = "count" /\ walk'.got = [x \in R |-> 0]
        /\ walk'.moves = 0
        /\ DOMAIN walk' = {"list", "of", "filter", "page", "total", "at", "got", "torn", "moves"}
    BY <1>0, <1>1
  <1>5. (1 - 1) * PageLimit = 0
    BY QueueAssumption
  <1>6. Cursor(walk)' = 0
    BY <1>4, <1>5 DEF Cursor
  <1>7. WalkMissesNothing'
    BY <1>4 DEF WalkMissesNothing
  <1>8. ASSUME l = "queue" PROVE QueueWalkInv'
    <2>1. R \subseteq Registered /\ \A x \in R : QueuePlace(f, x) \in Nat
      BY <1>3, <1>8, RowsAreFinite, PlacesInOrder
    <2>2. PICK got : got = [x \in R |-> 0]
      OBVIOUS
    <2>3. Behind(got, f, 0)' = {}
      BY <1>2, <1>3, <1>8, <2>1, <2>2 DEF Behind
    <2>4. Cardinality(Behind(got, f, 0)') = 0
      BY <2>3, FS_EmptySet
    <2> QED
      BY <1>2, <1>3, <1>4, <1>6, <1>8, <2>1, <2>2, <2>4 DEF QueueWalkInv
  <1>9. ASSUME l = "history" PROVE HistoryWalkInv'
    <2>1. \A x \in R : HistoryPlace(of, x)' \in Nat
      BY <1>2, <1>3, <1>9, HistoryInOrder
    <2> QED
      BY <1>2, <1>3, <1>4, <1>6, <1>9, <2>1 DEF HistoryWalkInv
  <1> QED
    BY <1>3, <1>4, <1>7, <1>8, <1>9 DEF PagesInv

LEMMA WalkCounts ==
  ASSUME ReviewsInv, PagesInv, CountRows
  PROVE  PagesInv'
  <1>1. PICK total : total = Cardinality(Rows(walk))
    OBVIOUS
  <1>2. walk' = [walk EXCEPT !.total = total, !.at = "rows"] /\ walk.at = "count"
    BY <1>1 DEF CountRows
  <1>3. /\ DOMAIN walk' = DOMAIN walk /\ walk'.total = total /\ walk'.at = "rows"
        /\ \A k \in DOMAIN walk \ {"total", "at"} : walk'[k] = walk[k]
    BY <1>2 DEF PagesInv
  <1>4. /\ \A g : Queued(g)' = Queued(g)
        /\ Registered' = Registered /\ \A p : DecisionsOn(p)' = DecisionsOn(p)
        /\ \A p, i : HistoryPlace(p, i)' = HistoryPlace(p, i)
        /\ \A got, f, cursor : Behind(got, f, cursor)' = Behind(got, f, cursor)
    BY DEF CountRows, Queued, Registered, DecisionsOn, HistoryPlace, QueuePlace, Before, Behind
  <1>5. total \in Nat
    BY <1>1, RowsAreFinite DEF Rows
  <1>6. /\ walk'.list = walk.list /\ walk'.of = walk.of /\ walk'.page = walk.page
        /\ walk'.got = walk.got /\ walk'.filter = walk.filter /\ walk'.moves = walk.moves
    BY <1>3 DEF PagesInv
  <1>7. WalkMissesNothing'
    BY <1>3 DEF WalkMissesNothing
  <1>8. ASSUME walk.list = "queue" PROVE QueueWalkInv'
    <2>1. QueueWalkInv
      BY <1>8 DEF PagesInv
    <2> QED
      BY <1>2, <1>4, <1>6, <2>1 DEF QueueWalkInv, Cursor
  <1>9. ASSUME walk.list = "history" PROVE HistoryWalkInv'
    <2>1. HistoryWalkInv
      BY <1>9 DEF PagesInv
    <2>2. \A x \in DOMAIN walk.got : HistoryPlace(walk.of, x) < total
      BY <1>1, <1>9, <2>1, HistoryInOrder DEF HistoryWalkInv, Rows
    <2> QED
      BY <1>2, <1>3, <1>4, <1>6, <2>1, <2>2 DEF HistoryWalkInv, Cursor
  <1> QED
    BY <1>3, <1>5, <1>6, <1>7, <1>8, <1>9 DEF PagesInv

LEMMA WalkReads ==
  ASSUME ReviewsInv, PagesInv, FindRows
  PROVE  PagesInv'
  <1>1. PICK place \in Orders(walk) :
          walk' = [walk EXCEPT
                     !.got = Shown(@, Slice(place, walk.page)),
                     !.torn = @ \/ Cardinality(Rows(walk)) > walk.total,
                     !.page = @ + 1,
                     !.at = IF walk.page < totalPages(walk.total) THEN "count" ELSE "done"]
    BY DEF FindRows
  <1>2. walk.at = "rows" /\ UNCHANGED <<tick, providers, decisions>>
    BY DEF FindRows
  <1> DEFINE got == Shown(walk.got, Slice(place, walk.page))
             torn == walk.torn \/ Cardinality(Rows(walk)) > walk.total
             at == IF walk.page < totalPages(walk.total) THEN "count" ELSE "done"
             new == [walk EXCEPT !.got = got, !.torn = torn, !.page = walk.page + 1, !.at = at]
  <1>3. walk' = new
    BY <1>1
  <1>4. torn <=> (walk.torn \/ Cardinality(Rows(walk)) > walk.total)
    OBVIOUS
  <1>5. /\ at = "done" <=> ~(walk.page < totalPages(walk.total))
        /\ at = "count" \/ at = "done"
    OBVIOUS
  <1>6. /\ DOMAIN got = DOMAIN walk.got
        /\ \A x \in DOMAIN got : got[x] = IF x \in Slice(place, walk.page)
                                         THEN walk.got[x] + 1 ELSE walk.got[x]
    BY DEF Shown
  <1> HIDE DEF got, torn, at
  <1>7. /\ DOMAIN new = DOMAIN walk /\ new.got = got /\ new.torn = torn
        /\ new.page = walk.page + 1 /\ new.at = at
        /\ \A k \in {"list", "of", "total", "filter", "moves"} : new[k] = walk[k]
    BY <1>2 DEF PagesInv
  <1> HIDE DEF new
  <1>8. PICK n \in Nat \ {0} : n = walk.page
    BY <1>2 DEF PagesInv
  <1>9. PICK b, c : b = (n - 1) * PageLimit /\ c = n * PageLimit
    OBVIOUS
  <1>10. b \in Nat /\ c \in Nat /\ (n + 1 - 1) * PageLimit = c /\ b <= c
    <2>1. n - 1 \in Nat /\ PageLimit \in Nat /\ n + 1 - 1 = n
      BY QueueAssumption
    <2>2. n * PageLimit = (n - 1) * PageLimit + PageLimit
      BY <2>1
    <2> QED
      BY <1>9, <2>1, <2>2
  <1>11. \A x : x \in Slice(place, walk.page) <=>
                 x \in DOMAIN place /\ place[x] >= b /\ place[x] < c
    BY <1>8, <1>9 DEF Slice, Bounds
  <1>12. /\ \A g : Queued(g)' = Queued(g)
         /\ Registered' = Registered /\ \A p : DecisionsOn(p)' = DecisionsOn(p)
         /\ \A p, i : HistoryPlace(p, i)' = HistoryPlace(p, i)
         /\ \A g, f, cursor : Behind(g, f, cursor)' = Behind(g, f, cursor)
    BY <1>2 DEF Queued, Registered, DecisionsOn, HistoryPlace, QueuePlace, Before, Behind
  <1>13. /\ walk'.list = walk.list /\ walk'.of = walk.of /\ walk'.page = n + 1
         /\ walk'.got = got /\ walk'.total = walk.total /\ walk'.at = at
         /\ walk'.filter = walk.filter /\ walk'.moves = walk.moves
         /\ walk'.torn = torn /\ DOMAIN walk' = DOMAIN walk
         /\ walk.total \in Nat /\ walk.moves \in Nat
    BY <1>2, <1>3, <1>7, <1>8 DEF PagesInv
  <1>14. Cursor(walk)' = c /\ Cursor(walk) = b
    BY <1>8, <1>9, <1>10, <1>13 DEF Cursor
  <1>15. \A x \in DOMAIN got : got[x] \in Nat
    BY <1>6 DEF PagesInv
  <1>16. CASE walk.list = "queue"
    <2>1. PICK f, m : f = walk.filter /\ m = walk.moves
      OBVIOUS
    <2>2. /\ f \in Filters /\ DOMAIN got \subseteq Registered
          /\ Cardinality(Behind(walk.got, f, b)) <= m
      BY <1>2, <1>6, <1>14, <1>16, <2>1 DEF PagesInv, QueueWalkInv
    <2>3. /\ DOMAIN place = Queued(f) /\ \A x \in Queued(f) : place[x] = QueuePlace(f, x)
          /\ Rows(walk) = Queued(f)
      BY <1>16, <2>1 DEF Orders, queueOrders, QueuePlace, Rows
    <2>4. \A x \in Queued(f) :
            QueuePlace(f, x) \in Nat /\ QueuePlace(f, x) < Cardinality(Queued(f))
      BY PlacesInOrder
    <2>5. ASSUME NEW x \in DOMAIN got, got[x] = 0, x \in Queued(f) => QueuePlace(f, x) < c
          PROVE  x \in Behind(walk.got, f, b)
      <3>1. walk.got[x] \in Nat
        BY <1>6 DEF PagesInv
      <3>2. walk.got[x] = 0 /\ x \notin Slice(place, walk.page)
        BY <1>6, <2>5, <3>1
      <3>3. x \in Queued(f) => QueuePlace(f, x) < b
        BY <1>10, <1>11, <2>3, <2>4, <2>5, <3>2
      <3> QED
        BY <1>6, <3>2, <3>3 DEF Behind
    <2>6. \A S \in SUBSET Behind(walk.got, f, b) : Cardinality(S) <= m
      <3>1. DOMAIN walk.got \subseteq Registered
        BY <1>6, <2>2
      <3>2. /\ IsFiniteSet(Behind(walk.got, f, b)) /\ Cardinality(Behind(walk.got, f, b)) \in Nat
            /\ \A S \in SUBSET Behind(walk.got, f, b) :
                 IsFiniteSet(S) /\ Cardinality(S) <= Cardinality(Behind(walk.got, f, b))
        BY <3>1, BehindIsFinite
      <3>3. \A S \in SUBSET Behind(walk.got, f, b) : Cardinality(S) \in Nat
        BY <3>2, FS_CardinalityType
      <3> QED
        BY <1>13, <2>1, <2>2, <3>2, <3>3
    <2>7. Cardinality(Behind(got, f, c)) <= m
      <3>1. Behind(got, f, c) \in SUBSET Behind(walk.got, f, b)
        BY <2>5 DEF Behind
      <3> QED
        BY <2>6, <3>1
    <2>8. ASSUME at = "done", ~torn
          PROVE  Cardinality({x \in DOMAIN got : got[x] = 0}) <= m
      <3>1. ASSUME NEW x \in DOMAIN got, got[x] = 0, x \in Queued(f)
            PROVE  QueuePlace(f, x) < c
        <4>1. Cardinality(Queued(f)) \in Nat /\ ~(Cardinality(Queued(f)) > walk.total)
          BY <1>4, <2>3, <2>8, RowsAreFinite
        <4>2. QueuePlace(f, x) \in Nat /\ QueuePlace(f, x) < walk.total
          BY <1>13, <2>4, <3>1, <4>1
        <4>3. ~(n < totalPages(walk.total))
          BY <1>5, <1>8, <2>8
        <4> QED
          BY <1>9, <1>13, <4>2, <4>3, LastPageHasTheRest
      <3>2. {x \in DOMAIN got : got[x] = 0} \in SUBSET Behind(walk.got, f, b)
        BY <2>5, <3>1
      <3> QED
        BY <2>6, <3>2
    <2>9. WalkMissesNothing'
      BY <1>13, <1>16, <2>1, <2>8 DEF WalkMissesNothing
    <2>10. QueueWalkInv'
      BY <1>12, <1>13, <1>14, <2>1, <2>2, <2>7 DEF QueueWalkInv
    <2> QED
      BY <1>5, <1>13, <1>15, <1>16, <2>9, <2>10 DEF PagesInv
  <1>17. CASE walk.list = "history"
    <2>1. PICK p : p = walk.of
      OBVIOUS
    <2>2. /\ DOMAIN place = DecisionsOn(p)
          /\ \A x \in DecisionsOn(p) : place[x] = HistoryPlace(p, x)
          /\ Rows(walk) = DecisionsOn(p)
      BY <1>17, <2>1 DEF Orders, historyOrders, HistoryPlace, Rows
    <2>0. HistoryWalkInv
      BY <1>17 DEF PagesInv
    <2>3. ASSUME NEW x \in DOMAIN got
          PROVE  /\ got[x] = IF HistoryPlace(p, x) < c THEN 1 ELSE 0
                 /\ HistoryPlace(p, x) < walk.total
                 /\ HistoryPlace(p, x) \in Nat
      <3>1. /\ x \in DecisionsOn(p) /\ HistoryPlace(p, x) < walk.total
            /\ walk.got[x] = IF HistoryPlace(p, x) < b THEN 1 ELSE 0
        BY <1>2, <1>6, <1>14, <2>0, <2>1 DEF HistoryWalkInv
      <3>2. HistoryPlace(p, x) \in Nat
        BY <3>1, HistoryInOrder
      <3> QED
        BY <1>6, <1>10, <1>11, <2>2, <3>1, <3>2
    <2>4. ASSUME at = "done", NEW x \in DOMAIN got
          PROVE  got[x] = 1
      <3>1. HistoryPlace(p, x) < c
        BY <1>5, <1>8, <1>9, <1>13, <2>3, <2>4, LastPageHasTheRest
      <3> QED
        BY <2>3, <3>1
    <2>5. WalkMissesNothing'
      BY <1>13, <1>17, <2>4 DEF WalkMissesNothing
    <2>6. HistoryWalkInv'
      <3>1. DOMAIN got \subseteq DecisionsOn(p)
        BY <1>6, <2>0, <2>1 DEF HistoryWalkInv
      <3> QED
        BY <1>5, <1>12, <1>13, <1>14, <2>1, <2>3, <3>1 DEF HistoryWalkInv
    <2> QED
      BY <1>5, <1>13, <1>15, <1>17, <2>5, <2>6 DEF PagesInv
  <1> QED
    BY <1>16, <1>17 DEF PagesInv

\* Whoever pages through the history of a provider is shown every decision once;
\* whoever pages through the queue misses no more providers than left the filter
\* meanwhile; and the figures of the dashboard differ by what was decided while
\* they were read at most, for any number of providers, decisions and pages
\* (admin-providers.service's list, getHistory, getDashboard).
THEOREM ListsAreRight == QueueSpec => []ListsAndFiguresAgree
  <1>1. QueueInit => ReviewsInv /\ WalkInv
    BY QueueStarts DEF QueueInit, WalkInv, NoWalk
  <1>2. ReviewsInv /\ WalkInv /\ [QueueNext]_queueVars => ReviewsInv' /\ WalkInv'
    <2> SUFFICES ASSUME ReviewsInv, WalkInv, [QueueNext]_queueVars
                 PROVE  ReviewsInv' /\ WalkInv'
      OBVIOUS
    <2>1. ReviewsInv'
      BY ReviewsStep
    <2>2. CASE walk' = walk \/ \E p \in ProviderIds, a \in DOMAIN Transitions : Decide(p, a)
      <3>0. ASSUME walk.list \notin {"queue", "dashboard"} PROVE walk' = walk
        <4>1. \A from, to : ~Escapes(from, to)
          BY <3>0 DEF Escapes
        <4>2. ASSUME NEW p, NEW a, Decide(p, a) PROVE walk' = walk
          BY <4>1, <4>2 DEF Decide, WriteDecision
        <4> QED
          BY <2>2, <4>2
      <3>1. CASE walk.list = "none"
        BY <2>1, <3>0, <3>1 DEF WalkInv
      <3>2. CASE PagesInv /\ walk.list = "queue"
        BY <2>1, <2>2, <3>2, QueueWaits DEF WalkInv
      <3>3. CASE PagesInv /\ walk.list = "history"
        <4>1. walk' = walk
          BY <3>0, <3>3
        <4> QED
          BY <2>1, <3>3, <4>1, HistoryWaits DEF WalkInv
      <3>4. CASE FiguresInv
        BY <2>1, <2>2, <3>4, FiguresWait DEF WalkInv
      <3> QED
        BY <3>1, <3>2, <3>3, <3>4 DEF WalkInv, PagesInv
    <2>3. CASE EndWalk
      BY <2>1, <2>3 DEF EndWalk, NoWalk, WalkInv
    <2>4. CASE CountRows \/ FindRows
      <3>1. PagesInv
        BY <2>4 DEF CountRows, FindRows, Paging, WalkInv, FiguresInv
      <3> QED
        BY <2>1, <2>4, <3>1, WalkCounts, WalkReads DEF WalkInv
    <2>5. CASE CountPending \/ CountDecisions \/ FindReviews
      <3>1. walk.list = "none" \/ FiguresInv
        BY <2>5 DEF CountPending, CountDecisions, FindReviews, WalkInv, PagesInv
      <3> QED
        BY <2>1, <2>5, <3>1, FiguresAreRead DEF WalkInv
    <2>6. CASE BeginWalk
      BY <2>1, <2>6, WalkBegins DEF WalkInv
    <2> QED
      BY <2>2, <2>3, <2>4, <2>5, <2>6 DEF QueueNext, QueueTick, Register, queueVars
  <1>3. ReviewsInv /\ WalkInv => ListsAndFiguresAgree
    BY DEF WalkInv, PagesInv, FiguresInv, Paging, WalkMissesNothing, DashboardAgrees,
           ListsAndFiguresAgree
  <1> QED
    BY <1>1, <1>2, <1>3, PTL DEF QueueSpec

-----------------------------------------------------------------------------
(* The catalogue.                                                          *)

\* A picture that a category, or a new one, may have.
PictureFor(thumb, id) == thumb \in {"none", "new", PictureOf(id)}

RequestFields == {"kind", "state", "id", "body", "thumb", "list", "pages"}

\* The form has a picture of its row, and so has what is listed or sent.
DeskInv ==
    /\ DOMAIN rows = Entries
    /\ \A r \in Entries : DOMAIN rows[r] = {"status", "thumb"} /\ PictureFor(rows[r].thumb, r)
    /\ DOMAIN tab = {"page", "pages", "list", "busy", "editing", "deleting", "id",
                     "active", "thumb"}
    /\ PictureFor(tab.thumb, tab.id)
    /\ \A r \in tab.list : PictureFor(r.thumb, r.id)
    /\ DOMAIN inFlight = RequestFields
    /\ inFlight.state # "none" => tab.busy
    /\ \A r \in inFlight.list : PictureFor(r.thumb, r.id)
    /\ (inFlight.kind = "upload" /\ inFlight.state # "none") =>
         inFlight.id = tab.id /\ inFlight.thumb = PictureOf(inFlight.id)
    /\ inFlight.kind = "save" =>
         /\ DOMAIN inFlight.body = {"status", "thumb"}
         /\ PictureFor(inFlight.body.thumb, inFlight.id)

LEMMA DeskStarts == DeskInit => DeskInv
  <1> SUFFICES ASSUME DeskInit PROVE DeskInv
    OBVIOUS
  <1>1. PICK last \in Entries :
          rows = [r \in Entries |->
                   [Blank EXCEPT !.status = IF r <= last THEN "active" ELSE "none"]]
    BY DEF DeskInit
  <1>2. \A r \in Entries : DOMAIN rows[r] = {"status", "thumb"} /\ rows[r].thumb = "none"
    BY <1>1 DEF Blank
  <1>3. DOMAIN rows = Entries
    BY <1>1
  <1> QED
    BY <1>2, <1>3 DEF DeskInit, DeskInv, PictureFor, Sent, NoRequest, RequestFields

LEMMA RequestIsSent ==
  ASSUME NEW kk, NEW id, NEW body
  PROVE  /\ DOMAIN Sent(kk, id, body) = RequestFields
         /\ Sent(kk, id, body).kind = kk /\ Sent(kk, id, body).state = "sent"
         /\ Sent(kk, id, body).id = id /\ Sent(kk, id, body).body = body
         /\ Sent(kk, id, body).thumb = "none" /\ Sent(kk, id, body).list = {}
  BY DEF Sent, NoRequest, RequestFields

\* The operator's own steps leave the rows.
LEMMA FormStep ==
  ASSUME DeskInv,
         changePage \/ edit \/ switchActive \/ uploadThumbnail \/ save \/ toggle
           \/ askRemove \/ remove
  PROVE  DeskInv'
  <1>r. rows' = rows /\ desk' = desk
    BY DEF changePage, edit, switchActive, uploadThumbnail, save, toggle, askRemove, remove
  <1>b. ~tab.busy /\ inFlight.state = "none"
    BY DEF DeskInv, changePage, edit, switchActive, uploadThumbnail, save, toggle, askRemove,
           remove, mayEdit, Ready
  <1>1. ASSUME NEW w, inFlight' = w, DOMAIN w = RequestFields, w.list = {},
               tab' = [tab EXCEPT !.busy = TRUE],
               w.kind = "upload" => w.id = tab.id /\ w.thumb = PictureOf(w.id),
               w.kind = "save" => DOMAIN w.body = {"status", "thumb"}
                                    /\ PictureFor(w.body.thumb, w.id)
        PROVE  DeskInv'
    BY <1>r, <1>1 DEF DeskInv, PictureFor
  <1>2. CASE changePage
    <2>1. PICK to : tab' = [tab EXCEPT !.page = to, !.busy = TRUE]
                    /\ inFlight' = Sent("load", 0, Blank)
      BY <1>2 DEF changePage, Load
    <2> QED
      BY <1>r, <2>1, RequestIsSent DEF DeskInv, PictureFor
  <1>3. CASE edit
    <2>1. PICK r \in tab.list \cup {NewRow} :
            tab' = [tab EXCEPT !.editing = TRUE, !.deleting = 0, !.id = r.id,
                               !.active = r.status = "active", !.thumb = r.thumb]
      BY <1>3 DEF edit
    <2>2. PictureFor(r.thumb, r.id)
      BY <2>1 DEF DeskInv, NewRow, PictureFor
    <2> DEFINE new == [tab EXCEPT !.editing = TRUE, !.deleting = 0, !.id = r.id,
                               !.active = r.status = "active", !.thumb = r.thumb]
    <2>3. /\ DOMAIN new = DOMAIN tab /\ new.id = r.id /\ new.thumb = r.thumb
          /\ new.list = tab.list /\ tab' = new
      BY <2>1 DEF DeskInv
    <2> HIDE DEF new
    <2> QED
      BY <1>r, <1>b, <1>3, <2>2, <2>3 DEF DeskInv, edit, PictureFor
  <1>4. CASE switchActive
    <2> DEFINE new == [tab EXCEPT !.active = ~@]
    <2>1. /\ DOMAIN new = DOMAIN tab /\ new.id = tab.id /\ new.thumb = tab.thumb
          /\ new.list = tab.list /\ tab' = new /\ inFlight' = inFlight
      BY <1>4 DEF DeskInv, switchActive
    <2> HIDE DEF new
    <2> QED
      BY <1>r, <1>b, <2>1 DEF DeskInv, PictureFor
  <1>5. CASE uploadThumbnail
    <2> DEFINE w == [Sent("upload", tab.id, Blank) EXCEPT !.thumb = PictureOf(tab.id)]
    <2>1. DOMAIN w = RequestFields /\ w.list = {} /\ w.kind = "upload" /\ w.id = tab.id
          /\ w.thumb = PictureOf(tab.id)
      BY RequestIsSent DEF RequestFields
    <2>2. inFlight' = w /\ tab' = [tab EXCEPT !.busy = TRUE]
      BY <1>5 DEF uploadThumbnail
    <2> HIDE DEF w
    <2> QED
      BY <1>1, <2>1, <2>2
  <1>6. CASE save
    <2>1. PICK body : body = (IF desk = "categories" THEN saveCategory ELSE saveFlag)
      OBVIOUS
    <2>2. DOMAIN body = {"status", "thumb"} /\ PictureFor(body.thumb, tab.id)
      BY <2>1 DEF saveCategory, saveFlag, PictureFor, DeskInv
    <2>3. inFlight' = Sent("save", tab.id, body) /\ tab' = [tab EXCEPT !.busy = TRUE]
      BY <1>6, <2>1 DEF save
    <2> QED
      BY <1>1, <2>2, <2>3, RequestIsSent
  <1>7. CASE toggle
    <2>1. PICK id, body : inFlight' = Sent("toggle", id, body)
      BY <1>7 DEF toggle
    <2> QED
      BY <1>1, <1>7, <2>1, RequestIsSent DEF toggle
  <1>8. CASE askRemove
    <2>1. PICK id : tab' = [tab EXCEPT !.deleting = id, !.editing = FALSE]
      BY <1>8 DEF askRemove
    <2> QED
      BY <1>r, <1>b, <1>8, <2>1 DEF DeskInv, askRemove, PictureFor
  <1>9. CASE remove
    BY <1>1, <1>9, RequestIsSent DEF remove
  <1> QED
    BY <1>2, <1>3, <1>4, <1>5, <1>6, <1>7, <1>8, <1>9

\* What a request, or another operator, makes of the rows.
LEMMA RowsKeepTheirPictures ==
  ASSUME DeskInv, NEW r \in Entries, NEW new,
         \/ \E body : /\ new = createRow(body) /\ DOMAIN body = {"status", "thumb"}
                       /\ body.thumb \in {"none", "new"}
         \/ \E id, body, whole :
                /\ new = updateCategory(id, body, whole)
                /\ whole = TRUE => DOMAIN body = {"status", "thumb"} /\ PictureFor(body.thumb, id)
                /\ whole \in BOOLEAN
         \/ \E id, body : new = updateFlag(id, body)
         \/ \E id : new = removeFlag(id) \/ new = removeCategory(id)
  PROVE  /\ DOMAIN new = Entries
         /\ DOMAIN new[r] = {"status", "thumb"} /\ PictureFor(new[r].thumb, r)
  <1>0. /\ DOMAIN rows = Entries /\ DOMAIN rows[r] = {"status", "thumb"}
        /\ PictureFor(rows[r].thumb, r)
    BY DEF DeskInv
  <1>1. ASSUME NEW body, new = createRow(body), DOMAIN body = {"status", "thumb"},
               body.thumb \in {"none", "new"}
        PROVE  /\ DOMAIN new = Entries
               /\ DOMAIN new[r] = {"status", "thumb"} /\ PictureFor(new[r].thumb, r)
    <2>1. DOMAIN new = Entries /\ new[r] = (IF r = NewId THEN body ELSE rows[r])
      BY <1>0, <1>1 DEF createRow
    <2> QED
      BY <1>0, <1>1, <2>1 DEF PictureFor
  <1>2. ASSUME NEW id, NEW body, NEW whole, new = updateCategory(id, body, whole),
               whole = TRUE => DOMAIN body = {"status", "thumb"} /\ PictureFor(body.thumb, id),
               whole \in BOOLEAN
        PROVE  /\ DOMAIN new = Entries
               /\ DOMAIN new[r] = {"status", "thumb"} /\ PictureFor(new[r].thumb, r)
    <2>1. CASE whole = TRUE
      <3>1. DOMAIN new = Entries /\ new[r] = (IF r = id THEN body ELSE rows[r])
        BY <1>0, <1>2, <2>1 DEF updateCategory
      <3> QED
        BY <1>0, <1>2, <2>1, <3>1
    <2>2. CASE whole = FALSE
      <3>1. /\ DOMAIN new = Entries
            /\ new[r] = (IF r = id THEN [rows[r] EXCEPT !.status = body.status] ELSE rows[r])
        BY <1>0, <1>2, <2>2 DEF updateCategory
      <3> QED
        BY <1>0, <3>1
    <2> QED
      BY <1>2, <2>1, <2>2
  <1>3. ASSUME NEW id, NEW body, new = updateFlag(id, body)
        PROVE  /\ DOMAIN new = Entries
               /\ DOMAIN new[r] = {"status", "thumb"} /\ PictureFor(new[r].thumb, r)
    <2>1. /\ DOMAIN new = Entries
          /\ new[r] = (IF r = id THEN [rows[r] EXCEPT !.status = body.status] ELSE rows[r])
      BY <1>0, <1>3 DEF updateFlag
    <2> QED
      BY <1>0, <2>1
  <1>4. ASSUME NEW id, new = removeFlag(id) \/ new = removeCategory(id)
        PROVE  /\ DOMAIN new = Entries
               /\ DOMAIN new[r] = {"status", "thumb"} /\ PictureFor(new[r].thumb, r)
    <2>1. new = rows \/ new = removeFlag(id)
      BY <1>4 DEF removeCategory
    <2>2. DOMAIN removeFlag(id) = Entries
          /\ removeFlag(id)[r] = (IF r = id THEN Gone ELSE rows[r])
      BY <1>0 DEF removeFlag
    <2>3. DOMAIN Gone = {"status", "thumb"} /\ Gone.thumb = "none"
      BY DEF Gone, Blank
    <2> QED
      BY <1>0, <2>1, <2>2, <2>3 DEF PictureFor
  <1> QED
    BY <1>1, <1>2, <1>3, <1>4

LEMMA DeskIsServed ==
  ASSUME DeskInv, ServeDesk
  PROVE  DeskInv'
  <1>t. tab' = tab /\ desk' = desk /\ inFlight.state = "sent" /\ tab.busy
    BY DEF ServeDesk, DeskInv
  \* The answer is the request, with its outcome and, of a load, the list.
  <1>1. ASSUME NEW w, NEW outcome, DOMAIN w = RequestFields,
               \A k \in {"kind", "id", "body", "thumb"} : w[k] = inFlight[k],
               \A r \in w.list : PictureFor(r.thumb, r.id),
               inFlight' = [w EXCEPT !.state = outcome],
               DOMAIN rows' = Entries,
               \A r \in Entries : DOMAIN rows'[r] = {"status", "thumb"}
                                  /\ PictureFor(rows'[r].thumb, r)
        PROVE  DeskInv'
    <2>1. /\ DOMAIN inFlight' = RequestFields /\ inFlight'.list = w.list
          /\ inFlight'.kind = inFlight.kind /\ inFlight'.id = inFlight.id
          /\ inFlight'.body = inFlight.body /\ inFlight'.thumb = inFlight.thumb
      BY <1>1 DEF RequestFields
    <2> QED
      BY <1>1, <1>t, <2>1 DEF DeskInv, PictureFor
  <1>f. DOMAIN inFlight = RequestFields
    BY DEF DeskInv
  <1>2. CASE inFlight.kind = "load"
    <2> DEFINE listed == {[id |-> r, status |-> rows[r].status, thumb |-> rows[r].thumb] :
                          r \in Page(tab.page)}
               w == [inFlight EXCEPT !.list = listed, !.pages = deskPages]
    <2>1. \A r \in listed : PictureFor(r.thumb, r.id)
      <3>1. Page(tab.page) \subseteq Entries
        BY DEF Page, listPaginated, findAllFlags, Existing
      <3> QED
        BY <3>1 DEF DeskInv
    <2>2. /\ DOMAIN w = RequestFields /\ w.list = listed
          /\ \A k \in {"kind", "id", "body", "thumb"} : w[k] = inFlight[k]
      BY <1>f DEF RequestFields
    <2>3. PICK outcome : inFlight' = [w EXCEPT !.state = outcome]
      BY <1>2 DEF ServeDesk, Answers
    <2>4. rows' = rows
      BY <1>2 DEF ServeDesk
    <2> HIDE DEF listed, w
    <2>5. /\ DOMAIN rows' = Entries
          /\ \A r \in Entries : DOMAIN rows'[r] = {"status", "thumb"}
                                /\ PictureFor(rows'[r].thumb, r)
      BY <2>4 DEF DeskInv
    <2> QED
      BY <1>1, <2>1, <2>2, <2>3, <2>5
  <1>3. ASSUME NEW outcome, inFlight' = [inFlight EXCEPT !.state = outcome],
               DOMAIN rows' = Entries,
               \A r \in Entries : DOMAIN rows'[r] = {"status", "thumb"}
                                  /\ PictureFor(rows'[r].thumb, r)
        PROVE  DeskInv'
    <2>1. \A r \in inFlight.list : PictureFor(r.thumb, r.id)
      BY DEF DeskInv
    <2> QED
      BY <1>1, <1>3, <1>f, <2>1
  <1>4. CASE inFlight.kind # "load" /\ rows' = rows
    <2>1. PICK outcome : inFlight' = [inFlight EXCEPT !.state = outcome]
      BY <1>4 DEF ServeDesk, Answers
    <2> QED
      BY <1>3, <1>4, <2>1 DEF DeskInv
  <1>5. CASE inFlight.kind \notin {"load", "upload"} /\ rows' = Saved(inFlight)
    <2>1. PICK outcome : inFlight' = [inFlight EXCEPT !.state = outcome]
      BY <1>5 DEF ServeDesk, Answers
    <2>2. ASSUME NEW r \in Entries
          PROVE  /\ DOMAIN rows' = Entries
                 /\ DOMAIN rows'[r] = {"status", "thumb"} /\ PictureFor(rows'[r].thumb, r)
      <3>0. PICK new : new = Saved(inFlight)
        OBVIOUS
      <3>1. CASE inFlight.kind = "save" /\ inFlight.id = 0
        <4>1. new = createRow(inFlight.body)
          BY <3>0, <3>1 DEF Saved
        <4>2. inFlight.body.thumb \in {"none", "new"}
          BY <3>1 DEF DeskInv, PictureFor, PictureOf
        <4>3. DOMAIN inFlight.body = {"status", "thumb"}
          BY <3>1 DEF DeskInv
        <4> QED
          BY <1>5, <3>0, <4>1, <4>2, <4>3, RowsKeepTheirPictures
      <3>2. CASE inFlight.kind = "remove"
        <4>1. new = removeCategory(inFlight.id) \/ new = removeFlag(inFlight.id)
          BY <3>0, <3>2 DEF Saved
        <4> QED
          BY <1>5, <3>0, <4>1, RowsKeepTheirPictures
      <3>3. CASE ~(inFlight.kind = "save" /\ inFlight.id = 0) /\ inFlight.kind # "remove"
        <4>1. PICK whole \in BOOLEAN : whole = (inFlight.kind = "save")
          OBVIOUS
        <4>2. new = updateCategory(inFlight.id, inFlight.body, whole)
              \/ new = updateFlag(inFlight.id, inFlight.body)
          BY <3>0, <3>3, <4>1 DEF Saved
        <4>3. whole = TRUE => /\ DOMAIN inFlight.body = {"status", "thumb"}
                              /\ PictureFor(inFlight.body.thumb, inFlight.id)
          BY <4>1 DEF DeskInv
        <4> QED
          BY <1>5, <3>0, <4>2, <4>3, RowsKeepTheirPictures
      <3> QED
        BY <3>1, <3>2, <3>3
    <2>3. DOMAIN rows' = Entries
      <3>1. CASE Entries = {}
        BY <1>5, <3>1 DEF Saved, createRow, updateCategory, updateFlag, removeCategory,
           removeFlag, DeskInv
      <3> QED
        BY <2>2, <3>1
    <2> QED
      BY <1>3, <2>1, <2>2, <2>3
  <1> QED
    BY <1>2, <1>4, <1>5 DEF ServeDesk

LEMMA DeskHearsBack ==
  ASSUME DeskInv, DeskAnswered
  PROVE  DeskInv'
  <1>r. rows' = rows /\ inFlight.state \in {"ok", "failed"}
    BY DEF DeskAnswered
  <1>1. CASE inFlight.state = "ok" /\ inFlight.kind \notin {"load", "upload"}
    <2>1. PICK to : to = (IF inFlight.kind = "remove" /\ Cardinality(tab.list) = 1 /\ tab.page > 1
                         THEN tab.page - 1 ELSE tab.page)
      OBVIOUS
    <2>2. /\ tab' = [tab EXCEPT !.editing = FALSE, !.deleting = 0, !.busy = TRUE, !.page = to]
          /\ inFlight' = Sent("load", 0, Blank)
      BY <1>1, <2>1 DEF DeskAnswered, Closed
    <2> QED
      BY <1>r, <2>2, RequestIsSent DEF DeskInv, PictureFor
  <1>2. CASE ~(inFlight.state = "ok" /\ inFlight.kind \notin {"load", "upload"})
    <2>n. inFlight' = NoRequest
      BY <1>2 DEF DeskAnswered
    <2>m. /\ DOMAIN NoRequest = RequestFields /\ NoRequest.state = "none"
          /\ NoRequest.kind = "none" /\ NoRequest.list = {}
      BY DEF NoRequest, RequestFields
    <2>1. ASSUME DOMAIN tab' = DOMAIN tab, PictureFor(tab'.thumb, tab'.id),
                 \A r \in tab'.list : PictureFor(r.thumb, r.id)
          PROVE  DeskInv'
      BY <1>r, <2>n, <2>m, <2>1 DEF DeskInv, PictureFor
    <2>2. CASE inFlight.state = "failed"
      <3>1. tab' = [tab EXCEPT !.busy = FALSE]
        BY <1>2, <2>2 DEF DeskAnswered
      <3> QED
        BY <2>1, <3>1 DEF DeskInv
    <2>3. CASE inFlight.state = "ok" /\ inFlight.kind = "load"
      <3>1. tab' = [tab EXCEPT !.busy = FALSE, !.list = inFlight.list, !.pages = inFlight.pages]
        BY <1>2, <2>3 DEF DeskAnswered
      <3> QED
        BY <2>1, <3>1 DEF DeskInv
    <2>4. CASE inFlight.state = "ok" /\ inFlight.kind = "upload"
      <3>1. tab' = [tab EXCEPT !.busy = FALSE, !.thumb = inFlight.thumb]
        BY <1>2, <2>4 DEF DeskAnswered
      <3>2. inFlight.thumb = PictureOf(tab.id)
        BY <2>4 DEF DeskInv
      <3> QED
        BY <2>1, <3>1, <3>2 DEF DeskInv, PictureFor
    <2> QED
      BY <1>r, <1>2, <2>2, <2>3, <2>4
  <1> QED
    BY <1>1, <1>2

LEMMA OthersAtDesk ==
  ASSUME DeskInv, ElsewhereAtDesk
  PROVE  DeskInv'
  <1>0. tab' = tab /\ inFlight' = inFlight /\ desk' = desk
    BY DEF ElsewhereAtDesk
  <1>1. ASSUME NEW r \in Existing, NEW st, rows' = [rows EXCEPT ![r].status = st]
        PROVE  DeskInv'
    <2>1. /\ DOMAIN rows' = Entries
          /\ \A q \in Entries : rows'[q] = rows[q]
                \/ rows'[q] = [rows[q] EXCEPT !.status = st]
      BY <1>1 DEF DeskInv
    <2>2. \A q \in Entries : DOMAIN rows'[q] = {"status", "thumb"} /\ PictureFor(rows'[q].thumb, q)
      BY <2>1 DEF DeskInv
    <2> QED
      BY <1>0, <2>1, <2>2 DEF DeskInv
  <1>2. ASSUME NEW r \in Existing, rows' = removeCategory(r) \/ rows' = removeFlag(r)
        PROVE  DeskInv'
    <2>1. PICK new : new = rows'
      OBVIOUS
    <2>2. new = removeFlag(r) \/ new = removeCategory(r)
      BY <1>2, <2>1
    <2>3. \A q \in Entries : DOMAIN new = Entries /\ DOMAIN new[q] = {"status", "thumb"}
                              /\ PictureFor(new[q].thumb, q)
      BY <2>2, RowsKeepTheirPictures
    <2>4. Existing \subseteq Entries
      BY DEF Existing
    <2> QED
      BY <1>0, <1>2, <2>1, <2>3, <2>4 DEF DeskInv
  <1>3. ASSUME Unused # {}, rows' = createRow([Blank EXCEPT !.status = "active"])
        PROVE  DeskInv'
    <2>1. PICK body : body = [Blank EXCEPT !.status = "active"]
      OBVIOUS
    <2>2. DOMAIN body = {"status", "thumb"} /\ body.thumb \in {"none", "new"}
      BY <2>1 DEF Blank
    <2>3. PICK new : new = rows'
      OBVIOUS
    <2>4. \A q \in Entries : DOMAIN new = Entries /\ DOMAIN new[q] = {"status", "thumb"}
                              /\ PictureFor(new[q].thumb, q)
      BY <1>3, <2>1, <2>2, <2>3, RowsKeepTheirPictures
    <2>5. Entries # {}
      BY <1>3 DEF Unused
    <2> QED
      BY <1>0, <2>3, <2>4, <2>5 DEF DeskInv
  <1> QED
    BY <1>1, <1>2, <1>3 DEF ElsewhereAtDesk

LEMMA DeskStep ==
  ASSUME DeskInv, [DeskNext \/ ElsewhereAtDesk]_deskVars
  PROVE  DeskInv'
  <1>1. CASE UNCHANGED deskVars
    BY <1>1 DEF deskVars, DeskInv, PictureFor
  <1> QED
    BY <1>1, FormStep, DeskIsServed, DeskHearsBack, OthersAtDesk DEF DeskNext

-----------------------------------------------------------------------------
(* The services of a provider.                                             *)

\* What a form has, and a request carries, says everything of the service.
SaysAll(f) == f.status \in {"ATIVO", "INATIVO"} /\ f.hours \in {"some", "none"}

EditInv(e) ==
    /\ DOMAIN e = {"kind", "id", "body", "checked"}
    /\ e.kind \in {"write", "remove"} /\ SaysAll(e.body)
    /\ (e.kind = "write" /\ e.checked = TRUE) => (e.body.status = "ATIVO" => e.body.hours = "some")
    /\ e.checked \in BOOLEAN

OfferInv ==
    /\ DOMAIN offers = Offers
    /\ \A o \in Offers : DOMAIN offers[o] = {"status", "category", "hours"}
    /\ OfferedHasHours
    /\ DOMAIN form = {"id", "status", "category", "hours", "presses"} /\ SaysAll(form)
    /\ \A e \in edits : EditInv(e)

LEMMA OffersStart == OfferInit => OfferInv
  <1> SUFFICES ASSUME OfferInit PROVE OfferInv
    OBVIOUS
  <1>1. PICK some \in SUBSET {1} :
          offers = [o \in Offers |->
                     IF o \in some
                     THEN [NoOffer EXCEPT !.status = "INATIVO", !.hours = "some"] ELSE NoOffer]
    BY DEF OfferInit
  <1>2. DOMAIN offers = Offers
    BY <1>1
  <1>3. \A o \in Offers :
          /\ DOMAIN offers[o] = {"status", "category", "hours"}
          /\ offers[o].status \in {"none", "INATIVO"}
    BY <1>1 DEF NoOffer
  <1> QED
    BY <1>2, <1>3 DEF OfferInit, OfferInv, OfferedHasHours, SaysAll

\* As the form says everything, the service will be what the request says.
LEMMA MergedIsSent ==
  ASSUME NEW e, SaysAll(e.body)
  PROVE  /\ Merged(e).status = e.body.status /\ Merged(e).hours = e.body.hours
         /\ DOMAIN Merged(e) = {"status", "category", "hours"}
  BY DEF Merged, SaysAll

LEMMA OfferStep ==
  ASSUME OfferInv, [OfferNext]_<<deskVars, offerVars>>
  PROVE  OfferInv'
  <1>1. CASE UNCHANGED offerVars
    BY <1>1 DEF offerVars, OfferInv, OfferedHasHours, SaysAll, EditInv
  <1>2. CASE editOffer
    <2>1. SaysAll(form') /\ DOMAIN form' = {"id", "status", "category", "hours", "presses"}
      BY <1>2 DEF editOffer, SaysAll
    <2> QED
      BY <1>2, <2>1 DEF editOffer, OfferInv, OfferedHasHours, SaysAll, EditInv
  <1>f. ASSUME NEW n, form' = [form EXCEPT !.presses = n]
        PROVE  SaysAll(form') /\ DOMAIN form' = {"id", "status", "category", "hours", "presses"}
    BY <1>f DEF OfferInv, SaysAll
  <1>3. ASSUME NEW e, EditInv(e), edits' = edits \cup {e}, offers' = offers,
               form' = [form EXCEPT !.presses = @ + 1]
        PROVE  OfferInv'
    BY <1>3, <1>f DEF OfferInv, OfferedHasHours, SaysAll, EditInv
  <1>p. SaysAll(payload(form))
    BY DEF payload, SaysAll, OfferInv
  <1>4. CASE saveOffer
    <2> DEFINE e == [kind |-> "write", id |-> form.id, body |-> payload(form), checked |-> FALSE]
    <2>1. EditInv(e)
      BY <1>p DEF EditInv
    <2> QED
      BY <1>3, <1>4, <2>1 DEF saveOffer
  <1>5. CASE deactivate
    <2>1. PICK o \in Offers : 
            edits' = edits \cup {[kind |-> "remove", id |-> o, body |-> payload(form),
                                 checked |-> TRUE]}
      BY <1>5 DEF deactivate
    <2> DEFINE e == [kind |-> "remove", id |-> o, body |-> payload(form), checked |-> TRUE]
    <2>2. EditInv(e)
      BY <1>p DEF EditInv
    <2> QED
      BY <1>3, <1>5, <2>1, <2>2 DEF deactivate
  <1>6. CASE CheckOffer
    <2>1. PICK e \in edits :
            /\ ~e.checked
            /\ edits' = IF validate(e) THEN (edits \ {e}) \cup {[e EXCEPT !.checked = TRUE]}
                        ELSE edits \ {e}
      BY <1>6 DEF CheckOffer
    <2>2. CASE ~validate(e)
      BY <1>6, <2>1, <2>2 DEF CheckOffer, OfferInv, OfferedHasHours, SaysAll, EditInv
    <2>3. CASE validate(e)
      <3> DEFINE new == [e EXCEPT !.checked = TRUE]
      <3>1. EditInv(e)
        BY <2>1 DEF OfferInv
      <3>2. DOMAIN new = DOMAIN e /\ new.kind = e.kind /\ new.body = e.body /\ new.checked = TRUE
        BY <3>1 DEF EditInv
      <3>3. edits' = (edits \ {e}) \cup {new}
        BY <2>1, <2>3
      <3> HIDE DEF new
      <3>4. e.body.status = "ATIVO" => e.body.hours = "some"
        BY <2>3, <3>1, MergedIsSent DEF validate, EditInv
      <3>5. EditInv(new)
        BY <3>1, <3>2, <3>4 DEF EditInv
      <3> QED
        BY <1>6, <3>3, <3>5 DEF CheckOffer, OfferInv, OfferedHasHours, SaysAll, EditInv
    <2> QED
      BY <2>2, <2>3
  <1>7. CASE WriteOffer
    <2>1. PICK e \in edits :
            /\ e.checked /\ edits' = edits \ {e} /\ form' = form
            /\ CASE e.kind = "remove" -> offers' = [offers EXCEPT ![e.id].status = "INATIVO"]
                 [] e.kind = "write" /\ e.id # 0 -> offers' = [offers EXCEPT ![e.id] = Merged(e)]
                 [] OTHER -> \E o \in NewOffers : offers' = [offers EXCEPT ![o] = Merged(e)]
      BY <1>7 DEF WriteOffer
    <2>2. EditInv(e)
      BY <2>1 DEF OfferInv
    <2>3. ASSUME NEW o, NEW row, offers' = [offers EXCEPT ![o] = row],
                 o \in Offers => /\ DOMAIN row = {"status", "category", "hours"}
                                 /\ row.status = "ATIVO" => row.hours = "some"
          PROVE  OfferInv'
      BY <2>1, <2>3 DEF OfferInv, OfferedHasHours, SaysAll, EditInv
    <2>4. CASE e.kind = "remove"
      <3> DEFINE row == [offers[e.id] EXCEPT !.status = "INATIVO"]
      <3>1. offers' = [offers EXCEPT ![e.id] = row]
        BY <2>1, <2>4
      <3>2. e.id \in Offers => /\ DOMAIN row = {"status", "category", "hours"}
                               /\ row.status = "INATIVO"
        BY DEF OfferInv
      <3> HIDE DEF row
      <3> QED
        BY <2>3, <3>1, <3>2
    <2>5. CASE e.kind = "write"
      <3>1. /\ DOMAIN Merged(e) = {"status", "category", "hours"}
            /\ Merged(e).status = "ATIVO" => Merged(e).hours = "some"
        BY <2>1, <2>2, <2>5, MergedIsSent DEF EditInv
      <3>2. \E o : offers' = [offers EXCEPT ![o] = Merged(e)]
        BY <2>1, <2>5
      <3> QED
        BY <2>3, <3>1, <3>2
    <2> QED
      BY <2>2, <2>4, <2>5 DEF EditInv
  <1> QED
    BY <1>1, <1>2, <1>4, <1>5, <1>6, <1>7 DEF OfferNext

\* A picture stays with the category whose form it was chosen for, and a service
\* that is offered has hours, however answers, forms, checks and writes follow
\* each other (categories.page, service-management.service).
THEOREM SavesAreWhole == CatalogueSpec => []SavesBelongTogether
  <1>1. DeskInit /\ OfferInit => DeskInv /\ OfferInv
    BY DeskStarts, OffersStart
  <1>2. DeskInv /\ OfferInv
          /\ [(DeskNext /\ UNCHANGED offerVars) \/ OfferNext]_<<deskVars, offerVars>>
          => DeskInv' /\ OfferInv'
    <2> SUFFICES ASSUME DeskInv, OfferInv,
                        [(DeskNext /\ UNCHANGED offerVars) \/ OfferNext]_<<deskVars, offerVars>>
                 PROVE  DeskInv' /\ OfferInv'
      OBVIOUS
    <2>1. [DeskNext \/ ElsewhereAtDesk]_deskVars
      BY DEF OfferNext
    <2>2. OfferInv'
      <3>1. CASE UNCHANGED offerVars
        BY <3>1 DEF offerVars, OfferInv, OfferedHasHours, SaysAll, EditInv
      <3> QED
        BY <3>1, OfferStep
    <2> QED
      BY <2>1, <2>2, DeskStep
  <1>3. DeskInv /\ OfferInv => SavesBelongTogether
    BY DEF DeskInv, OfferInv, PictureFor, PicturesStayPut, SavesBelongTogether
  <1> QED
    BY <1>1, <1>2, <1>3, PTL DEF CatalogueSpec

-----------------------------------------------------------------------------
(* What is logged and audited.                                             *)

\* The first keys of a path.
LEMMA PathBegins ==
    ASSUME NEW p \in Seq(STRING), NEW n \in 0..Len(p)
    PROVE  /\ SubSeq(p, 1, n) \in Seq(STRING) /\ Len(SubSeq(p, 1, n)) = n
           /\ \A i \in 1..n : SubSeq(p, 1, n)[i] = p[i]
           /\ n = 0 <=> SubSeq(p, 1, n) = <<>>
<1>1. \A i \in 1..n : p[i] \in STRING
    OBVIOUS
<1>2. /\ SubSeq(p, 1, n) \in Seq(STRING) /\ Len(SubSeq(p, 1, n)) = n
      /\ \A i \in 1..n : SubSeq(p, 1, n)[i] = p[i]
    BY <1>1, SubSeqProperties
<1> QED BY <1>2

\* What a path begins with begins the same path.
LEMMA PathBeginsTwice ==
    ASSUME NEW p \in Seq(STRING), NEW n \in 0..Len(p), NEW m \in 0..n
    PROVE  SubSeq(SubSeq(p, 1, n), 1, m) = SubSeq(p, 1, m)
<1>1. /\ SubSeq(p, 1, n) \in Seq(STRING) /\ Len(SubSeq(p, 1, n)) = n
      /\ \A i \in 1..n : SubSeq(p, 1, n)[i] = p[i]
    BY PathBegins
<1>2. /\ SubSeq(p, 1, m) \in Seq(STRING) /\ Len(SubSeq(p, 1, m)) = m
      /\ \A i \in 1..m : SubSeq(p, 1, m)[i] = p[i]
    BY PathBegins
<1>3. /\ SubSeq(SubSeq(p, 1, n), 1, m) \in Seq(STRING)
      /\ Len(SubSeq(SubSeq(p, 1, n), 1, m)) = m
      /\ \A i \in 1..m : SubSeq(SubSeq(p, 1, n), 1, m)[i] = SubSeq(p, 1, n)[i]
    BY <1>1, PathBegins
<1> HIDE DEF IsDocument
<1>4. \A i \in 1..m : SubSeq(SubSeq(p, 1, n), 1, m)[i] = SubSeq(p, 1, m)[i]
    BY <1>1, <1>2, <1>3
<1> QED BY <1>2, <1>3, <1>4

LEMMA PathIsItsOwn ==
    ASSUME NEW p \in Seq(STRING)
    PROVE  SubSeq(p, 1, Len(p)) = p
BY SubSeqFull

\* The value a path of some length is in.
LEMMA FrontOfBeginning ==
    ASSUME NEW p \in Seq(STRING), NEW n \in 1..Len(p)
    PROVE  /\ SubSeq(p, 1, n) # <<>>
           /\ Front(SubSeq(p, 1, n)) = SubSeq(p, 1, n - 1)
<1>1. SubSeq(p, 1, n) \in Seq(STRING) /\ Len(SubSeq(p, 1, n)) = n
    BY PathBegins
<1>2. Front(SubSeq(p, 1, n)) = SubSeq(SubSeq(p, 1, n), 1, n - 1)
    BY <1>1 DEF Front
<1> QED BY <1>1, <1>2, PathBeginsTwice

LEMMA FrontOfPath ==
    ASSUME NEW p \in Seq(STRING), p # <<>>
    PROVE  /\ Front(p) \in Seq(STRING) /\ Len(Front(p)) = Len(p) - 1
           /\ \A n \in 0..Len(p) - 1 : SubSeq(Front(p), 1, n) = SubSeq(p, 1, n)
<1>1. Len(p) \in Nat \ {0} /\ Len(p) - 1 \in 0..Len(p)
    OBVIOUS
<1>2. Front(p) = SubSeq(p, 1, Len(p) - 1)
    BY DEF Front
<1>3. Front(p) \in Seq(STRING) /\ Len(Front(p)) = Len(p) - 1
    BY <1>1, <1>2, PathBegins
<1>4. ASSUME NEW n \in 0..Len(p) - 1
      PROVE  SubSeq(Front(p), 1, n) = SubSeq(p, 1, n)
    BY <1>1, <1>2, PathBeginsTwice
<1> QED BY <1>3, <1>4

-----------------------------------------------------------------------------
\* The context of a value, as the sanitizers hand it on.
InContext(p) ==
    /\ p # <<>> /\ entry[Front(p)] = "object"
    /\ Last(p) \in ContainerKeys /\ entry[p] = "object"

\* A call is made for a value that is not secret and is in nothing that is
\* withheld, and it knows the context.
CallIsSound(c) ==
    /\ ~IsSecret(c.at)
    /\ \A n \in 0..Len(c.at) - 1 :
         ~IsSecret(SubSeq(c.at, 1, n)) /\ ~IsPerson(SubSeq(c.at, 1, n))
    /\ c.personal <=> InContext(c.at)

\* A value was written, or a call will come to it.
Reached(p) ==
    p \in written \/ \E c \in todo : \E n \in 0..Len(p) : c.at = SubSeq(p, 1, n)

LogTypes ==
    /\ sanitizer \in {"log", "audit", "show"}
    /\ entry \in Documents /\ refused \in BOOLEAN
    /\ written \subseteq DOMAIN entry
    /\ \A c \in todo : c \in [at : DOMAIN entry, personal : BOOLEAN]

Blameless(p) == Harmless(p) /\ entry[p] # "undefined"

LogInv ==
    /\ LogTypes
    /\ sanitizer # "show" => \A c \in todo : CallIsSound(c)
    /\ \A p \in written : Blameless(p)
    /\ sanitizer = "log" => \A p \in DOMAIN entry : Blameless(p) => Reached(p)
    /\ sanitizer # "log" /\ ~refused => \A p \in DOMAIN entry : Reached(p)
    /\ sanitizer = "show" => ~refused /\ \A p \in DOMAIN entry : Blameless(p)
    /\ refused => \E p \in DOMAIN entry : ~Blameless(p)

LEMMA DocumentPaths ==
    ASSUME LogTypes
    PROVE  /\ DOMAIN entry \subseteq Seq(STRING)
           /\ <<>> \in DOMAIN entry /\ entry[<<>>] = "object"
           /\ \A p \in DOMAIN entry :
                entry[p] \in {"leaf", "undefined", "array", "object"}
           /\ \A p \in DOMAIN entry : \A n \in 0..Len(p) - 1 :
                /\ SubSeq(p, 1, n) \in DOMAIN entry
                /\ entry[SubSeq(p, 1, n)] \in {"array", "object"}
BY DocumentsAssumption DEF LogTypes, IsDocument

\* A value that may be called for, and is no person, is harmless.
LEMMA CalledIsHarmless ==
    ASSUME LogTypes, NEW c \in todo, CallIsSound(c), ~IsPerson(c.at)
    PROVE  Harmless(c.at)
<1>1. c.at \in Seq(STRING)
    BY DocumentPaths DEF LogTypes
<1>2. ASSUME NEW n \in 0..Len(c.at)
      PROVE  ~IsSecret(SubSeq(c.at, 1, n)) /\ ~IsPerson(SubSeq(c.at, 1, n))
  <2>1. CASE n = Len(c.at)
    <3>1. SubSeq(c.at, 1, n) = c.at
        BY <1>1, <2>1, PathIsItsOwn
    <3> QED BY <3>1 DEF CallIsSound
  <2>2. CASE n # Len(c.at)
    <3>1. n \in 0..Len(c.at) - 1
        BY <1>1, <2>2
    <3> QED BY <3>1 DEF CallIsSound
  <2> QED BY <2>1, <2>2
<1> QED BY <1>2 DEF Harmless

\* A person is a whole record or known from the context.
LEMMA PersonIsKnown ==
    ASSUME LogTypes, NEW c \in todo, CallIsSound(c)
    PROVE  IsPerson(c.at) <=>
             entry[c.at] = "object" /\ (c.personal \/ IsWholeRecord(c.at))
BY DEF CallIsSound, InContext, IsPerson

\* A call for a value in one that is harmless.
LEMMA CallBelow ==
    ASSUME LogTypes, NEW p \in DOMAIN entry, Harmless(p), NEW q \in children(p),
           ~IsSecret(q), NEW personal \in BOOLEAN, personal <=> InContext(q)
    PROVE  CallIsSound([at |-> q, personal |-> personal])
<1>1. q \in DOMAIN entry /\ q # <<>> /\ Front(q) = p /\ q \in Seq(STRING)
    BY DocumentPaths DEF children
<1>2. \A n \in 0..Len(q) - 1 : SubSeq(q, 1, n) = SubSeq(p, 1, n) /\ n \in 0..Len(p)
    BY <1>1, FrontOfPath
<1> QED BY <1>2 DEF CallIsSound, Harmless

\* Of two values of which one is in the other, the call for the outer one leads
\* to the next on the way to the inner one.
LEMMA OnTheWay ==
    ASSUME LogTypes, NEW p \in DOMAIN entry, NEW n \in 0..Len(p),
           SubSeq(p, 1, n) # p
    PROVE  /\ n + 1 \in 0..Len(p)
           /\ SubSeq(p, 1, n + 1) \in children(SubSeq(p, 1, n))
           /\ entry[SubSeq(p, 1, n)] \in {"array", "object"}
<1>1. p \in Seq(STRING)
    BY DocumentPaths
<1>2. n \in 0..Len(p) - 1 /\ n + 1 \in 1..Len(p)
  <2>1. n # Len(p)
      BY <1>1, PathIsItsOwn
  <2>2. Len(p) \in Nat
      BY <1>1
  <2>3. \A l \in Nat : n \in 0..l /\ n # l => n \in 0..l - 1 /\ n + 1 \in 1..l
      OBVIOUS
  <2> QED BY <2>1, <2>2, <2>3
<1>3. SubSeq(p, 1, n + 1) # <<>> /\ Front(SubSeq(p, 1, n + 1)) = SubSeq(p, 1, n)
  <2>1. (n + 1) - 1 = n
      OBVIOUS
  <2>2. Front(SubSeq(p, 1, n + 1)) = SubSeq(p, 1, (n + 1) - 1)
      BY <1>1, <1>2, FrontOfBeginning
  <2> QED BY <1>1, <1>2, <2>1, <2>2, FrontOfBeginning
<1>4. SubSeq(p, 1, n + 1) \in DOMAIN entry
  <2>1. CASE n + 1 = Len(p)
      BY <1>1, <2>1, PathIsItsOwn
  <2>2. CASE n + 1 # Len(p)
      BY <1>2, <2>2, DocumentPaths
  <2> QED BY <2>1, <2>2
<1>5. entry[SubSeq(p, 1, n)] \in {"array", "object"}
    BY <1>2, DocumentPaths
<1>6. SubSeq(p, 1, n + 1) \in children(SubSeq(p, 1, n))
    BY <1>3, <1>4 DEF children
<1>7. n + 1 \in 0..Len(p)
    BY <1>1, <1>2
<1> QED BY <1>5, <1>6, <1>7

LEMMA SameEntry ==
    ASSUME entry' = entry
    PROVE  /\ \A p : (Blameless(p)' <=> Blameless(p)) /\ (Harmless(p)' <=> Harmless(p))
           /\ \A c : CallIsSound(c)' <=> CallIsSound(c)
BY DEF Blameless, Harmless, CallIsSound, InContext, IsSecret, IsPerson, HasSecretKey,
       IsWholeRecord

\* What was reached stays so when the call that led to it makes the next one.
LEMMA Descent ==
    ASSUME LogTypes, NEW c \in todo, NEW next, Put(c, {c.at}, next),
           NEW p \in DOMAIN entry, Reached(p),
           \A n \in 0..Len(p) : SubSeq(p, 1, n) \in children(c.at) =>
              \E d \in next : d.at = SubSeq(p, 1, n)
    PROVE  Reached(p)'
<1>1. written' = written \cup {c.at} /\ todo' = (todo \ {c}) \cup next
    BY DEF Put
<1>2. CASE p \in written
    BY <1>1, <1>2 DEF Reached
<1>3. ASSUME NEW d \in todo, NEW n \in 0..Len(p), d.at = SubSeq(p, 1, n)
      PROVE  Reached(p)'
  <2>1. CASE d # c
      BY <1>1, <1>3, <2>1 DEF Reached
  <2>2. CASE d = c /\ c.at = p
      BY <1>1, <2>2 DEF Reached
  <2>3. CASE d = c /\ c.at # p
    <3>1. n + 1 \in 0..Len(p) /\ SubSeq(p, 1, n + 1) \in children(c.at)
        BY <1>3, <2>3, OnTheWay
    <3>2. PICK e \in next : e.at = SubSeq(p, 1, n + 1)
        BY <3>1
    <3> QED BY <1>1, <3>1, <3>2 DEF Reached
  <2> QED BY <2>1, <2>2, <2>3
<1> QED BY <1>2, <1>3 DEF Reached

\* What comes to a leaf, or is given up at a value that is not harmless, loses
\* nothing else.
LEMMA EndOfDescent ==
    ASSUME LogTypes, NEW c \in todo, NEW paths, Put(c, paths, {}),
           NEW p \in DOMAIN entry, Reached(p),
           \A n \in 0..Len(p) : SubSeq(p, 1, n) = c.at => p \in paths
    PROVE  Reached(p)'
<1>1. written' = written \cup paths /\ todo' = todo \ {c}
    BY DEF Put
<1>2. CASE p \in written
    BY <1>1, <1>2 DEF Reached
<1>3. ASSUME NEW d \in todo, NEW n \in 0..Len(p), d.at = SubSeq(p, 1, n)
      PROVE  Reached(p)'
  <2>1. CASE d # c
      BY <1>1, <1>3, <2>1 DEF Reached
  <2>2. CASE d = c
      BY <1>1, <1>3, <2>2 DEF Reached
  <2> QED BY <2>1, <2>2
<1> QED BY <1>2, <1>3 DEF Reached

\* A value whose call ends without another has nothing in it but itself.
LEMMA NothingBelow ==
    ASSUME LogTypes, NEW p \in DOMAIN entry, NEW n \in 0..Len(p),
           entry[SubSeq(p, 1, n)] \notin {"array", "object"}
    PROVE  p = SubSeq(p, 1, n)
BY OnTheWay

\* Nothing harmless is in a value that is not.
LEMMA HarmIsInherited ==
    ASSUME LogTypes, NEW p \in DOMAIN entry, Harmless(p), NEW n \in 0..Len(p)
    PROVE  ~IsSecret(SubSeq(p, 1, n)) /\ ~IsPerson(SubSeq(p, 1, n))
BY DEF Harmless

-----------------------------------------------------------------------------
\* What a call has to see to when it answers.
LEMMA PutKeeps ==
    ASSUME LogInv, NEW c \in todo, NEW paths \in SUBSET DOMAIN entry, NEW next,
           Put(c, paths, next),
           \A d \in next : d \in [at : DOMAIN entry, personal : BOOLEAN],
           sanitizer # "show" => \A d \in next : CallIsSound(d),
           \A p \in paths : Blameless(p),
           sanitizer = "log" =>
             \A p \in DOMAIN entry : Blameless(p) /\ Reached(p) => Reached(p)',
           sanitizer # "log" =>
             \A p \in DOMAIN entry : Reached(p) => Reached(p)'
    PROVE  LogInv'
<1>1. /\ written' = written \cup paths /\ todo' = (todo \ {c}) \cup next
      /\ sanitizer' = sanitizer /\ entry' = entry /\ refused' = refused
    BY DEF Put
<1>2. LogTypes'
    BY <1>1 DEF LogInv, LogTypes
<1>3. sanitizer' # "show" => \A d \in todo' : CallIsSound(d)'
    BY <1>1, SameEntry DEF LogInv
<1>4. \A p \in written' : Blameless(p)'
    BY <1>1, SameEntry DEF LogInv
<1>5. sanitizer' = "log" => \A p \in DOMAIN entry' : Blameless(p)' => Reached(p)'
    BY <1>1, SameEntry DEF LogInv
<1>6. sanitizer' # "log" /\ ~refused' => \A p \in DOMAIN entry' : Reached(p)'
    BY <1>1 DEF LogInv
<1>7. sanitizer' = "show" => ~refused' /\ \A p \in DOMAIN entry' : Blameless(p)'
    BY <1>1, SameEntry DEF LogInv
<1>8. refused' => \E p \in DOMAIN entry' : ~Blameless(p)'
    BY <1>1, SameEntry DEF LogInv
<1> QED BY <1>2, <1>3, <1>4, <1>5, <1>6, <1>7, <1>8 DEF LogInv

LEMMA LeafAnswers ==
    ASSUME LogInv, NEW c \in todo, entry[c.at] = "leaf", sanitizer # "show",
           Put(c, {c.at}, {})
    PROVE  LogInv'
<1>1. LogTypes /\ CallIsSound(c) /\ c.at \in DOMAIN entry
    BY DEF LogInv, LogTypes
<1>2. Blameless(c.at)
    BY <1>1, PersonIsKnown, CalledIsHarmless DEF Blameless
<1>3. \A p \in DOMAIN entry : Reached(p) => Reached(p)'
    BY <1>1, NothingBelow, EndOfDescent
<1> QED BY <1>1, <1>2, <1>3, PutKeeps

\* An array, or an object that is no person, answers and hands on the context.
LEMMA ContainerAnswers ==
    ASSUME LogInv, NEW c \in todo, sanitizer # "show",
           entry[c.at] \in {"array", "object"}, ~IsPerson(c.at),
           NEW next, Put(c, {c.at}, next),
           \A d \in next : /\ d = [at |-> d.at, personal |-> d.personal]
                           /\ d.at \in children(c.at) /\ d.personal \in BOOLEAN
                           /\ ~IsSecret(d.at) /\ (d.personal <=> InContext(d.at)),
           \A q \in children(c.at) : IsSecret(q) \/ \E d \in next : d.at = q,
           sanitizer = "audit" => \A q \in children(c.at) : ~IsSecret(q)
    PROVE  LogInv'
<1>1. LogTypes /\ CallIsSound(c) /\ c.at \in DOMAIN entry
    BY DEF LogInv, LogTypes
<1>2. Harmless(c.at)
    BY <1>1, CalledIsHarmless
<1>3. Blameless(c.at)
    BY <1>2 DEF Blameless
<1>4. \A d \in next : d \in [at : DOMAIN entry, personal : BOOLEAN]
    BY DEF children
<1>5. \A d \in next : CallIsSound(d)
  <2>1. TAKE d \in next
  <2>2. CallIsSound([at |-> d.at, personal |-> d.personal])
      BY <1>1, <1>2, CallBelow
  <2> QED BY <2>2
<1>6. ASSUME NEW p \in DOMAIN entry, Reached(p), sanitizer = "log" => Blameless(p)
      PROVE  Reached(p)'
  <2>1. ASSUME NEW n \in 0..Len(p), SubSeq(p, 1, n) \in children(c.at)
        PROVE  \E d \in next : d.at = SubSeq(p, 1, n)
    <3>1. ~IsSecret(SubSeq(p, 1, n))
        BY <1>1, <1>6, <2>1, HarmIsInherited DEF Blameless, LogTypes
    <3> QED BY <2>1, <3>1
  <2> QED BY <1>1, <1>6, <2>1, Descent
<1> QED BY <1>1, <1>3, <1>4, <1>5, <1>6, PutKeeps

LEMMA LogStep ==
    ASSUME LogInv, sanitizer = "log", NEW c \in todo, sanitizeForStructuredLog(c)
    PROVE  LogInv'
<1> DEFINE fields == {q \in children(c.at) : ~HasSecretKey(q)}
           items == {[at |-> q, personal |-> FALSE] : q \in children(c.at)}
           kept == {[at |-> q, personal |-> personalContext(q)] : q \in fields}
<1>1. LogTypes /\ CallIsSound(c) /\ c.at \in DOMAIN entry
    BY DEF LogInv, LogTypes
<1>2. CASE entry[c.at] = "leaf" /\ Put(c, {c.at}, {})
    BY <1>2, LeafAnswers
<1>3. CASE entry[c.at] = "undefined" /\ Put(c, {}, {})
  <2>1. \A p \in DOMAIN entry : Blameless(p) /\ Reached(p) => Reached(p)'
      BY <1>1, <1>3, NothingBelow, EndOfDescent DEF Blameless
  <2> QED BY <1>1, <1>3, <2>1, PutKeeps
<1>4. CASE entry[c.at] = "array" /\ Put(c, {c.at}, items)
  <2>1. ~IsPerson(c.at) /\ \A q \in children(c.at) : ~IsSecret(q) /\ ~InContext(q)
      BY <1>4 DEF IsPerson, IsSecret, InContext, children
  <2>2. ASSUME NEW d \in items
        PROVE  /\ d = [at |-> d.at, personal |-> d.personal]
               /\ d.at \in children(c.at) /\ d.personal = FALSE
    <3>1. PICK q \in children(c.at) : d = [at |-> q, personal |-> FALSE]
        OBVIOUS
    <3> QED BY <3>1
  <2>3. ASSUME NEW q \in children(c.at)
        PROVE  \E d \in items : d.at = q
    <3>1. [at |-> q, personal |-> FALSE] \in items
        OBVIOUS
    <3> QED BY <3>1
  <2> HIDE DEF items
  <2> QED BY <1>4, <2>1, <2>2, <2>3, ContainerAnswers
<1>5. CASE entry[c.at] = "object" /\ (c.personal \/ IsWholeRecord(c.at)) /\ Put(c, {}, {})
  <2>1. IsPerson(c.at)
      BY <1>1, <1>5, PersonIsKnown
  <2>2. \A p \in DOMAIN entry : Blameless(p) /\ Reached(p) => Reached(p)'
      BY <1>1, <1>5, <2>1, HarmIsInherited, EndOfDescent DEF Blameless
  <2> QED BY <1>1, <1>5, <2>2, PutKeeps
<1>6. CASE entry[c.at] = "object" /\ ~c.personal /\ ~IsWholeRecord(c.at)
             /\ Put(c, {c.at}, kept)
  <2>1. ~IsPerson(c.at)
      BY <1>1, <1>6, PersonIsKnown
  <2>2. \A q \in children(c.at) : /\ IsSecret(q) <=> HasSecretKey(q)
                                  /\ InContext(q) <=> personalContext(q)
      BY <1>6 DEF IsSecret, InContext, personalContext, children
  <2>3. \A q \in children(c.at) : personalContext(q) \in BOOLEAN
      BY DEF personalContext
  <2>4. ASSUME NEW d \in kept
        PROVE  /\ d = [at |-> d.at, personal |-> d.personal]
               /\ d.at \in fields /\ d.personal = personalContext(d.at)
    <3>1. PICK q \in fields : d = [at |-> q, personal |-> personalContext(q)]
        OBVIOUS
    <3> QED BY <3>1
  <2>5. ASSUME NEW q \in fields
        PROVE  \E d \in kept : d.at = q
    <3>1. [at |-> q, personal |-> personalContext(q)] \in kept
        OBVIOUS
    <3> QED BY <3>1
  <2> HIDE DEF kept
  <2>6. \A d \in kept : /\ d = [at |-> d.at, personal |-> d.personal]
                        /\ d.at \in children(c.at) /\ d.personal \in BOOLEAN
                        /\ ~IsSecret(d.at) /\ (d.personal <=> InContext(d.at))
      BY <2>2, <2>3, <2>4
  <2> QED BY <1>6, <2>1, <2>2, <2>5, <2>6, ContainerAnswers
<1> QED BY <1>2, <1>3, <1>4, <1>5, <1>6 DEF sanitizeForStructuredLog

LEMMA Refusal ==
    ASSUME LogInv, sanitizer = "audit", Refuse, NEW p \in DOMAIN entry, ~Blameless(p)
    PROVE  LogInv'
<1>1. /\ todo' = {} /\ refused' = TRUE /\ written' = written
      /\ sanitizer' = sanitizer /\ entry' = entry
    BY DEF Refuse
<1>2. LogTypes'
    BY <1>1 DEF LogInv, LogTypes
<1> QED BY <1>1, <1>2, SameEntry DEF LogInv

LEMMA DeltaStep ==
    ASSUME LogInv, sanitizer = "audit", NEW c \in todo, sanitizeDelta(c)
    PROVE  LogInv'
<1> DEFINE items == {[at |-> q, personal |-> c.personal] : q \in children(c.at)}
           kept == {[at |-> q, personal |-> personalContext(q)] : q \in children(c.at)}
           forbidden == c.personal \/ IsWholeRecord(c.at)
                          \/ \E q \in children(c.at) : HasSecretKey(q)
<1>1. LogTypes /\ CallIsSound(c) /\ c.at \in DOMAIN entry /\ c.at \in Seq(STRING)
    BY DocumentPaths DEF LogInv, LogTypes
<1>2. CASE entry[c.at] = "leaf" /\ Put(c, {c.at}, {})
    BY <1>2, LeafAnswers
<1>3. CASE entry[c.at] = "undefined" /\ Refuse
    BY <1>1, <1>3, Refusal DEF Blameless
<1>4. CASE entry[c.at] = "array" /\ Put(c, {c.at}, items)
  <2>1. ~IsPerson(c.at) /\ \A q \in children(c.at) : ~IsSecret(q) /\ ~InContext(q)
      BY <1>4 DEF IsPerson, IsSecret, InContext, children
  <2>2. c.personal = FALSE
      BY <1>1, <1>4 DEF CallIsSound, InContext, LogTypes
  <2>3. ASSUME NEW d \in items
        PROVE  /\ d = [at |-> d.at, personal |-> d.personal]
               /\ d.at \in children(c.at) /\ d.personal = FALSE
    <3>1. PICK q \in children(c.at) : d = [at |-> q, personal |-> c.personal]
        OBVIOUS
    <3> QED BY <2>2, <3>1
  <2>4. ASSUME NEW q \in children(c.at)
        PROVE  \E d \in items : d.at = q
    <3>1. [at |-> q, personal |-> c.personal] \in items
        OBVIOUS
    <3> QED BY <3>1
  <2> HIDE DEF items
  <2> QED BY <1>4, <2>1, <2>3, <2>4, ContainerAnswers
<1>5. CASE entry[c.at] = "object" /\ forbidden /\ Refuse
  <2>1. CASE c.personal \/ IsWholeRecord(c.at)
    <3>1. IsPerson(c.at)
        BY <1>1, <1>5, <2>1, PersonIsKnown
    <3>2. Len(c.at) \in 0..Len(c.at) /\ SubSeq(c.at, 1, Len(c.at)) = c.at
        BY <1>1, PathIsItsOwn
    <3>3. ~Harmless(c.at)
        BY <3>1, <3>2 DEF Harmless
    <3> QED BY <1>1, <1>5, <3>3, Refusal DEF Blameless
  <2>2. CASE \E q \in children(c.at) : HasSecretKey(q)
    <3>1. PICK q \in children(c.at) : HasSecretKey(q)
        BY <2>2
    <3>2. q \in DOMAIN entry /\ IsSecret(q) /\ q \in Seq(STRING)
        BY <1>1, <1>5, <3>1, DocumentPaths DEF children, IsSecret
    <3>3. Len(q) \in 0..Len(q) /\ SubSeq(q, 1, Len(q)) = q
        BY <3>2, PathIsItsOwn
    <3>4. ~Harmless(q)
        BY <3>2, <3>3 DEF Harmless
    <3> QED BY <1>5, <3>2, <3>4, Refusal DEF Blameless
  <2> QED BY <1>5, <2>1, <2>2
<1>6. CASE entry[c.at] = "object" /\ ~forbidden /\ Put(c, {c.at}, kept)
  <2>1. ~IsPerson(c.at)
      BY <1>1, <1>6, PersonIsKnown
  <2>2. \A q \in children(c.at) : /\ ~IsSecret(q)
                                  /\ InContext(q) <=> personalContext(q)
      BY <1>6 DEF IsSecret, InContext, personalContext, children
  <2>3. \A q \in children(c.at) : personalContext(q) \in BOOLEAN
      BY DEF personalContext
  <2>4. ASSUME NEW d \in kept
        PROVE  /\ d = [at |-> d.at, personal |-> d.personal]
               /\ d.at \in children(c.at) /\ d.personal = personalContext(d.at)
    <3>1. PICK q \in children(c.at) : d = [at |-> q, personal |-> personalContext(q)]
        OBVIOUS
    <3> QED BY <3>1
  <2>5. ASSUME NEW q \in children(c.at)
        PROVE  \E d \in kept : d.at = q
    <3>1. [at |-> q, personal |-> personalContext(q)] \in kept
        OBVIOUS
    <3> QED BY <3>1
  <2> HIDE DEF kept
  <2>6. \A d \in kept : /\ d = [at |-> d.at, personal |-> d.personal]
                        /\ d.at \in children(c.at) /\ d.personal \in BOOLEAN
                        /\ ~IsSecret(d.at) /\ (d.personal <=> InContext(d.at))
      BY <2>2, <2>3, <2>4
  <2> QED BY <1>6, <2>1, <2>2, <2>5, <2>6, ContainerAnswers
<1> QED BY <1>2, <1>3, <1>4, <1>5, <1>6 DEF sanitizeDelta

\* A stored delta has no secret key: everything in it is shown.
LEMMA StoredStep ==
    ASSUME LogInv, sanitizer = "show", NEW c \in todo, sanitizeStoredJson(c)
    PROVE  LogInv'
<1> DEFINE kept == {q \in children(c.at) : entry[c.at] = "object" => ~HasSecretKey(q)}
           next == {[at |-> q, personal |-> FALSE] : q \in kept}
<1>1. LogTypes /\ c.at \in DOMAIN entry /\ \A p \in DOMAIN entry : Blameless(p)
    BY DEF LogInv, LogTypes
<1>2. \A q \in children(c.at) : q \in kept
  <2>1. TAKE q \in children(c.at)
  <2>2. q \in DOMAIN entry /\ q # <<>> /\ Front(q) = c.at /\ q \in Seq(STRING)
      BY <1>1, DocumentPaths DEF children
  <2>3. Harmless(q) /\ Len(q) \in 0..Len(q) /\ SubSeq(q, 1, Len(q)) = q
      BY <1>1, <2>2, PathIsItsOwn DEF Blameless
  <2>4. ~IsSecret(q)
      BY <2>3 DEF Harmless
  <2>5. entry[c.at] = "object" => ~HasSecretKey(q)
      BY <2>2, <2>4 DEF IsSecret
  <2> QED BY <2>5
<1>3. ASSUME NEW q \in children(c.at)
      PROVE  \E d \in next : d.at = q
  <2>1. [at |-> q, personal |-> FALSE] \in next
      BY <1>2
  <2> QED BY <2>1
<1>4. ASSUME NEW d \in next
      PROVE  d \in [at : DOMAIN entry, personal : BOOLEAN]
  <2>1. PICK q \in children(c.at) : d = [at |-> q, personal |-> FALSE]
      OBVIOUS
  <2> QED BY <2>1 DEF children
<1>5. Put(c, {c.at}, next)
    BY DEF sanitizeStoredJson
<1> HIDE DEF next
<1>6. \A p \in DOMAIN entry : Reached(p) => Reached(p)'
    BY <1>1, <1>3, <1>5, Descent
<1> QED BY <1>1, <1>4, <1>5, <1>6, PutKeeps

LEMMA DetailStep ==
    ASSUME LogInv, getDetail
    PROVE  LogInv'
<1>1. /\ sanitizer = "audit" /\ todo = {} /\ ~refused /\ sanitizer' = "show"
      /\ todo' = {[at |-> <<>>, personal |-> FALSE]} /\ written' = {}
      /\ entry' = entry /\ refused' = refused
    BY DEF getDetail
<1>2. \A p \in DOMAIN entry : Blameless(p)
    BY <1>1 DEF LogInv, Reached
<1>3. <<>> \in DOMAIN entry /\ DOMAIN entry \subseteq Seq(STRING)
    BY DocumentPaths DEF LogInv
<1>4. LogTypes'
    BY <1>1, <1>3 DEF LogInv, LogTypes
<1>5. \A p \in DOMAIN entry : Reached(p)'
  <2>1. TAKE p \in DOMAIN entry
  <2>2. 0 \in 0..Len(p) /\ SubSeq(p, 1, 0) = <<>>
      BY <1>3, PathBegins
  <2> QED BY <1>1, <2>2 DEF Reached
<1> QED BY <1>1, <1>2, <1>4, <1>5, SameEntry DEF LogInv

LEMMA LogStarts == LogInit => LogInv
<1> SUFFICES ASSUME LogInit PROVE LogInv
    OBVIOUS
<1> DEFINE c == [at |-> <<>>, personal |-> FALSE]
<1>1. /\ sanitizer \in {"log", "audit"} /\ entry \in Documents /\ todo = {c}
      /\ written = {} /\ refused = FALSE
    BY DEF LogInit
<1>2. /\ DOMAIN entry \subseteq Seq(STRING) /\ <<>> \in DOMAIN entry
    BY <1>1, DocumentsAssumption DEF IsDocument
<1>3. LogTypes
  <2>1. c \in [at : DOMAIN entry, personal : BOOLEAN]
      BY <1>2
  <2> QED BY <1>1, <2>1 DEF LogTypes
<1>4. CallIsSound(c)
    BY <1>1 DEF CallIsSound, IsSecret, InContext
<1>5. \A p \in DOMAIN entry : Reached(p)
  <2>1. TAKE p \in DOMAIN entry
  <2>2. 0 \in 0..Len(p) /\ SubSeq(p, 1, 0) = <<>>
      BY <1>2, PathBegins
  <2> QED BY <1>1, <2>2 DEF Reached
<1> HIDE DEF c
<1> QED BY <1>1, <1>3, <1>4, <1>5 DEF LogInv

LEMMA LogKept == LogInv /\ [LogNext]_logVars => LogInv'
<1> SUFFICES ASSUME LogInv, [LogNext]_logVars PROVE LogInv'
    OBVIOUS
<1>1. ASSUME UNCHANGED logVars PROVE LogInv'
  <2>1. /\ sanitizer' = sanitizer /\ entry' = entry /\ todo' = todo
        /\ written' = written /\ refused' = refused
      BY <1>1 DEF logVars
  <2>2. LogTypes' /\ \A p : Reached(p)' <=> Reached(p)
      BY <2>1 DEF LogInv, LogTypes, Reached
  <2> QED BY <2>1, <2>2, SameEntry DEF LogInv
<1> QED BY <1>1, LogStep, DeltaStep, StoredStep, DetailStep DEF LogNext

LEMMA LogIsSafe == LogInv => NothingSecretIsWritten
<1> SUFFICES ASSUME LogInv PROVE NothingSecretIsWritten
    OBVIOUS
<1>1. \A p \in written : p \in DOMAIN entry /\ Harmless(p) /\ entry[p] # "undefined"
    BY DEF LogInv, LogTypes, Blameless
<1>2. sanitizer = "log" /\ todo = {} =>
        \A p \in DOMAIN entry : Harmless(p) /\ entry[p] # "undefined" => p \in written
    BY DEF LogInv, Blameless, Reached
<1>3. sanitizer # "log" /\ todo = {} /\ ~refused => DOMAIN entry \subseteq written
    BY DEF LogInv, Reached
<1>4. refused => \E p \in DOMAIN entry : ~Harmless(p) \/ entry[p] = "undefined"
    BY DEF LogInv, Blameless
<1> QED BY <1>1, <1>2, <1>3, <1>4 DEF NothingSecretIsWritten

\* Of every document the log is given, however deep, it keeps what is neither a
\* secret nor a person nor in one of them, and nothing else; the audit trail
\* refuses every document with one, keeps the others whole and shows them whole
\* (log-sanitizer.ts:70, admin-audit.service.ts:97).
THEOREM NothingSecretGetsOut == LogSpec => []NothingSecretIsWritten
<1>1. LogInit => LogInv
    BY LogStarts
<1>2. LogInv /\ [LogNext]_logVars => LogInv'
    BY LogKept
<1>3. LogInv => NothingSecretIsWritten
    BY LogIsSafe
<1> QED BY <1>1, <1>2, <1>3, PTL DEF LogSpec

\* What payment.config.ts makes of an environment that validateEnvironment lets
\* start in production is the real gateway, signed, and no foreign page.
THEOREM ProductionStartsForReal == ProductionIsReal
BY DEF ProductionIsReal, Environments, validateEnvironment, paymentConfig, nodeEnv,
   readBoolean, isCorsOriginAllowed

=============================================================================
