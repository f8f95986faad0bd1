----------------------------- MODULE Backoffice -----------------------------
(***************************************************************************)
(* One tab of the back office, its operator's account and one provider.    *)
(* The tab shows a page at a time; its requests carry the token of the     *)
(* session that was current when they were sent, and are served and        *)
(* answered late and in any order. Other operators change the account and  *)
(* the provider meanwhile. An answer that comes after the page was left    *)
(* finds nobody to show it to, but still passes the interceptor.           *)
(***************************************************************************)
EXTENDS Naturals, FiniteSets

CONSTANTS
    MaxRoleChanges,  \* bound: changes of the operator's account
    MaxVisits,       \* bound: pages the tab opens
    MaxWire,         \* bound: requests in flight
    MaxReviews       \* bound: decisions other operators take

ConsoleRoles == {"ADMINISTRATOR", "SUPPORT", "FINANCE", "MODERATOR"}
Actions == {"APPROVE", "REJECT", "BLOCK", "UNBLOCK"}

VARIABLES
    operator,    \* the account, as the server has it
    status,      \* the provider's, and how many decisions others took
    session,     \* the tab's, which local storage repeats
    page,        \* shown in the tab, and the visit it belongs to
    shown,       \* status of the provider on the details page
    dialog,      \* decision whose dialog is open, and the status it was offered for
    busy,        \* a command of this page is in flight
    wire         \* requests in flight

backofficeVars == <<operator, status, session, page, shown, dialog, busy, wire>>

NoSession == [id |-> 0, role |-> "none", version |-> 0]
NoDialog == [action |-> "none", seen |-> "none"]
LoggedIn == session # NoSession

-----------------------------------------------------------------------------
\* What each role may do on the server.
Capabilities(role) ==
    CASE role = "ADMINISTRATOR" ->
           {"catalog", "flags", "users", "providers", "decide", "dashboard",
            "audit", "funnel"}
      [] role = "SUPPORT" -> {"providers", "dashboard"}
      [] role = "FINANCE" -> {"funnel"}
      [] OTHER -> {}

\* Fault: the queue is in every role's menu.
navigationForAll(role) == {"dashboard", "queue"}

\* Where each role's menu leads.
Navigation(role) ==
    CASE role = "ADMINISTRATOR" ->
           {"dashboard", "funnel", "queue", "audit", "categories", "flags", "operators"}
      [] role = "SUPPORT" -> {"dashboard", "queue"}
      [] role = "FINANCE" -> {"funnel", "payments"}
      [] role = "MODERATOR" -> {"moderation"}
      [] OTHER -> {}

\* The pages a click reaches: those of the menu, and a provider of the queue.
Offered(role) ==
    Navigation(role) \cup (IF "queue" \in Navigation(role) THEN {"details"} ELSE {})

\* The pages a role may have open; any URL can be typed.
Admitted(role) ==
    {"dashboard", "queue", "details", "payments", "moderation"}
        \cup (IF role \in {"ADMINISTRATOR", "FINANCE"} THEN {"funnel"} ELSE {})
        \cup (IF role = "ADMINISTRATOR"
              THEN {"audit", "categories", "flags", "operators"} ELSE {})

Pages == UNION {Admitted(r) : r \in ConsoleRoles}

\* The capability a page's own requests need.
Needs(p) ==
    CASE p \in {"queue", "details"} -> "providers"
      [] p = "audit" -> "audit"
      [] p = "funnel" -> "funnel"
      [] p = "categories" -> "catalog"
      [] p = "flags" -> "flags"
      [] p = "operators" -> "users"
      [] OTHER -> "dashboard"

From(action) ==
    CASE action \in {"APPROVE", "REJECT"} -> "PENDING"
      [] action = "BLOCK" -> "APPROVED"
      [] action = "UNBLOCK" -> "BLOCKED"

To(action) ==
    CASE action \in {"APPROVE", "UNBLOCK"} -> "APPROVED"
      [] action = "REJECT" -> "REJECTED"
      [] action = "BLOCK" -> "BLOCKED"

\* The buttons of the details page.
availableProviderActions(role, seen) ==
    {a \in Actions : role = "ADMINISTRATOR" /\ From(a) = seen}

-----------------------------------------------------------------------------
BackofficeInit ==
    /\ operator \in [role : ConsoleRoles, version : {0}, active : BOOLEAN]
    /\ status = [current |-> "PENDING", decisions |-> 0]
    /\ session = NoSession
    /\ page = [name |-> "login", visit |-> 0]
    /\ shown = "none"
    /\ dialog = NoDialog
    /\ busy = FALSE
    /\ wire = {}

\* A request is sent with the token of the session.
Request(p, kind) ==
    [session |-> session, visit |-> page.visit, page |-> p, kind |-> kind,
     offered |-> "none", verdict |-> "none"]

\* Another operator gives the account another role, or deactivates or
\* reactivates it: each invalidates the tokens.
ChangeOperator ==
    /\ operator.version < MaxRoleChanges
    /\ \E role \in ConsoleRoles, active \in BOOLEAN :
         /\ (role # operator.role) # (active # operator.active)
         /\ operator' = [role |-> role, active |-> active,
                         version |-> operator.version + 1]
    /\ UNCHANGED <<status, session, page, shown, dialog, busy, wire>>

DecideElsewhere ==
    /\ status.decisions < MaxReviews
    /\ \E a \in Actions :
         /\ From(a) = status.current
         /\ status' = [current |-> To(a), decisions |-> status.decisions + 1]
    /\ UNCHANGED <<operator, session, page, shown, dialog, busy, wire>>

-----------------------------------------------------------------------------
\* The page that is opened starts with the requests of its load; the
\* dashboard asks for nothing when the role may not read it.
Loads(s, p) ==
    IF p \in {"dashboard", "payments", "moderation"}
    THEN s.role \in {"ADMINISTRATOR", "SUPPORT"}
    ELSE TRUE

Show(s, p) ==
    /\ page' = [name |-> p, visit |-> page.visit + 1]
    /\ shown' = "none"
    /\ dialog' = NoDialog
    /\ busy' = (p \in {"categories", "flags"})
    /\ wire' = wire \cup
         IF Loads(s, p)
         THEN {[session |-> s, visit |-> page.visit + 1, page |-> p,
                kind |-> "read", offered |-> "none", verdict |-> "none"]}
         ELSE {}

HasRoom == Cardinality(wire) < MaxWire

\* The guards of the routes: a role that may not open a page is led to the
\* dashboard.
Admit(role, p) == IF p \in Admitted(role) THEN p ELSE "dashboard"

\* The login page, and the page it returns to.
LogIn ==
    /\ page.name = "login"
    /\ operator.active
    /\ session.id = 0
    /\ page.visit < MaxVisits
    /\ HasRoom
    /\ session' = [id |-> page.visit + 1, role |-> operator.role,
                   version |-> operator.version]
    /\ \E p \in Pages : Show(session', Admit(operator.role, p))
    /\ UNCHANGED <<operator, status>>

\* A link, or a URL typed into the address bar of the tab.
OpenPage ==
    /\ LoggedIn
    /\ HasRoom
    /\ page.visit < MaxVisits
    /\ \E p \in Pages : Show(session, Admit(session.role, p))
    /\ UNCHANGED <<operator, status, session>>

ToLogin ==
    /\ session' = NoSession
    /\ page' = [page EXCEPT !.name = "login"]
    /\ shown' = "none"
    /\ dialog' = NoDialog
    /\ busy' = FALSE

LogOut ==
    /\ LoggedIn
    /\ ToLogin
    /\ UNCHANGED <<operator, status, wire>>

\* Another period, filter or page of the list: its answer may overtake the
\* one before.
Reload ==
    /\ LoggedIn
    /\ HasRoom
    /\ page.name # "details"
    /\ Loads(session, page.name)
    /\ wire' = wire \cup {Request(page.name, "read")}
    /\ busy' = (busy \/ page.name \in {"categories", "flags"})
    /\ UNCHANGED <<operator, status, session, page, shown, dialog>>

openDecision ==
    /\ LoggedIn
    /\ page.name = "details"
    /\ \E a \in availableProviderActions(session.role, shown) :
         dialog' = [action |-> a, seen |-> shown]
    /\ UNCHANGED <<operator, status, session, page, shown, busy, wire>>

closeDialog ==
    /\ dialog # NoDialog
    /\ dialog' = NoDialog
    /\ UNCHANGED <<operator, status, session, page, shown, busy, wire>>

\* The decision is sent with the dialog left open.
submitDecision ==
    /\ dialog # NoDialog /\ shown # "none"
    /\ ~busy
    /\ HasRoom
    /\ busy' = TRUE
    /\ wire' = wire \cup {[Request("details", dialog.action) EXCEPT !.offered = dialog.seen]}
    /\ UNCHANGED <<operator, status, session, page, shown, dialog>>

\* The pages that change what they list.
SubmitCommand ==
    /\ LoggedIn
    /\ HasRoom
    /\ page.name \in {"categories", "flags", "operators"}
    /\ ~busy
    /\ busy' = TRUE
    /\ wire' = wire \cup {Request(page.name, "command")}
    /\ UNCHANGED <<operator, status, session, page, shown, dialog>>

-----------------------------------------------------------------------------
\* AdminAuthGuard: the token against the account as it is now.
validatePayload(s) ==
    IF ~operator.active THEN "inactive"
    ELSE IF operator.version # s.version THEN "invalidated"
    ELSE IF operator.role # s.role THEN "stale"
    ELSE "ok"

Capability(r) == IF r.kind \in Actions THEN "decide" ELSE Needs(r.page)

\* Fault: a decision is written whatever state the provider is in.
executeBlindly(r) ==
    [verdict |-> "done",
     status |-> [status EXCEPT !.current = To(r.kind)]]

\* A decision finds the provider in the status that it starts from.
executeTransition(r) ==
    IF status.current = From(r.kind)
    THEN [verdict |-> "done", status |-> [status EXCEPT !.current = To(r.kind)]]
    ELSE [verdict |-> "conflict", status |-> status]

Answer(r, verdict) == wire' = (wire \ {r}) \cup {[r EXCEPT !.verdict = verdict]}

Serve(r) ==
    /\ r.verdict = "none"
    /\ \/ /\ validatePayload(r.session) # "ok"
          /\ Answer(r, validatePayload(r.session))
          /\ UNCHANGED status
       \/ /\ validatePayload(r.session) = "ok"
          /\ Capability(r) \notin Capabilities(r.session.role)
          /\ Answer(r, "unauthorized")
          /\ UNCHANGED status
       \/ /\ validatePayload(r.session) = "ok"
          /\ Capability(r) \in Capabilities(r.session.role)
          /\ \/ /\ r.kind \in Actions
                /\ Answer(r, executeTransition(r).verdict)
                /\ status' = executeTransition(r).status
             \/ /\ r.kind = "read"
                /\ Answer(r, IF r.page = "details" THEN status.current ELSE "read")
                /\ UNCHANGED status
             \/ /\ r.kind = "command"
                /\ \E verdict \in {"done", "conflict"} : Answer(r, verdict)
                /\ UNCHANGED status
    /\ UNCHANGED <<operator, session, page, shown, dialog, busy>>

-----------------------------------------------------------------------------
\* Fault: any answer 403 ends the session.
expireOnEveryRefusal(verdict) ==
    verdict \in {"inactive", "invalidated", "stale", "unauthorized"}

\* The interceptor: 401, and the 403 of an inactive operator.
shouldExpireSession(verdict) == verdict \in {"inactive", "invalidated", "stale"}

\* The refusal ends the session of the tab, whichever that is by now.
Refused(r) ==
    /\ r.verdict # "none"
    /\ shouldExpireSession(r.verdict)
    /\ ToLogin
    /\ wire' = wire \ {r}
    /\ UNCHANGED <<operator, status>>

\* The page has what it asked for, unless it was left.
ReadAnswered(r) ==
    /\ r.verdict # "none" /\ ~shouldExpireSession(r.verdict)
    /\ r.kind = "read"
    /\ wire' = wire \ {r}
    /\ IF r.visit = page.visit
       THEN /\ shown' = IF r.page = "details" /\ r.verdict # "unauthorized"
                        THEN r.verdict ELSE "none"
            /\ busy' = (busy /\ page.name \notin {"categories", "flags"})
       ELSE UNCHANGED <<shown, busy>>
    /\ UNCHANGED <<operator, status, session, page, dialog>>

\* A command that was done, or met a conflict, closes the dialog and loads
\* the page again, with the token of now, even after the page was left.
CommandAnswered(r) ==
    /\ r.verdict \notin {"none", "unauthorized"}
    /\ ~shouldExpireSession(r.verdict)
    /\ r.kind # "read"
    /\ wire' = (wire \ {r}) \cup
                 {[Request(r.page, "read") EXCEPT !.visit = r.visit]}
    /\ IF r.visit = page.visit
       THEN /\ dialog' = IF r.kind \in Actions THEN NoDialog ELSE dialog
            /\ busy' = (page.name \in {"categories", "flags"})
       ELSE UNCHANGED <<dialog, busy>>
    /\ UNCHANGED <<operator, status, session, page, shown>>

CommandRefused(r) ==
    /\ r.verdict = "unauthorized"
    /\ ~shouldExpireSession(r.verdict)
    /\ r.kind # "read"
    /\ wire' = wire \ {r}
    /\ busy' = (busy /\ r.visit # page.visit)
    /\ UNCHANGED <<operator, status, session, page, shown, dialog>>

BackofficeNext ==
    \/ ChangeOperator \/ DecideElsewhere
    \/ LogIn \/ OpenPage \/ LogOut \/ Reload
    \/ openDecision \/ closeDialog \/ submitDecision \/ SubmitCommand
    \/ \E r \in wire :
         Serve(r) \/ Refused(r) \/ ReadAnswered(r) \/ CommandAnswered(r)
           \/ CommandRefused(r)

BackofficeSpec == BackofficeInit /\ [][BackofficeNext]_backofficeVars

-----------------------------------------------------------------------------
StillAccepted(s) ==
    operator.active /\ operator.version = s.version /\ operator.role = s.role

\* A session ends only when the operator logs out, or hears that a token is
\* refused which stays refused for good. It need not be the token of this
\* session: the interceptor does not ask whose request was refused, so that the
\* late refusal of an earlier session's ends one that the server accepts
\* (admin-token.interceptor.ts:25). What a role may not do ends none (:49).
SessionsEndForCause ==
    LoggedIn /\ session' = NoSession =>
        LogOut \/ \E r \in wire \ wire' : ~StillAccepted(r.session)

\* Nothing an operator can click is forbidden to the role: a request that is
\* refused for its role comes from a page that the menu does not lead to
\* (admin-navigation.ts:10, admin-permissions.ts:15).
NothingOfferedIsForbidden ==
    \A r \in wire :
        r.verdict = "unauthorized" => r.page \notin Offered(r.session.role)

\* A session leads nowhere that its role may not go, and no answer ends it but
\* the refusal of a token that is no longer any good.
SessionsServeTheirRole ==
    [][SessionsEndForCause /\ NothingOfferedIsForbidden']_backofficeVars

\* A decision is taken on the provider in the status that the operator saw
\* when choosing it, whatever was decided meanwhile
\* (admin-providers.service.ts:554).
DecisionWasOffered ==
    [][\A r \in wire :
          (r.kind \in Actions /\ [r EXCEPT !.verdict = "done"] \in wire' \ wire)
              => status.current = r.offered]_backofficeVars

=============================================================================
