------------------------------ MODULE MCClients ------------------------------
(***************************************************************************)
(* The pages of clients and providers, one tab each against the rows it    *)
(* reads and writes: the pages of an order, the search, the page a service *)
(* is hired on, the address book and the sign-up, the provider's panel and *)
(* its payout pages. TLC takes them one at a time, as in MCConsole.        *)
(***************************************************************************)
EXTENDS OrderPages, SearchPage, HirePage, AddressPages, ProviderDesk

VARIABLE part   \* which of them moves

clientsVars == <<part, pagesVars, searchVars, hireVars, heartVars, bookVars,
                 signUpVars, panelVars, payVars>>

-----------------------------------------------------------------------------
\* A part whose turn it is not has one initial state.
Waiting ==
    /\ part # "order" => row.status = "AGENDADO" /\ role = "CLIENTE"
    /\ part # "search" =>
         /\ ~client /\ ~page.favorites /\ ~stored
         /\ url.category = "absent" /\ url.region = "none" /\ url.favorites = "absent"
    /\ part # "heart" => ~saved.liked /\ heart.page = "search"
    /\ part # "book" => book = [r \in BookRows |-> Empty]

MCInit ==
    /\ part \in {"order", "search", "hire", "heart", "book", "signUp", "panel",
                 "payout"}
    /\ PagesInit /\ SearchInit /\ HireInit /\ HeartInit /\ BookInit
    /\ SignUpInit /\ PanelInit /\ PayInit
    /\ Waiting

MCNext ==
    /\ UNCHANGED part
    /\ IF part = "order" THEN PagesNext ELSE UNCHANGED pagesVars
    /\ IF part = "search" THEN SearchNext ELSE UNCHANGED searchVars
    /\ IF part = "hire" THEN HireNext ELSE UNCHANGED hireVars
    /\ IF part = "heart" THEN HeartNext ELSE UNCHANGED heartVars
    /\ IF part = "book" THEN BookNext ELSE UNCHANGED bookVars
    /\ IF part = "signUp" THEN SignUpNext ELSE UNCHANGED signUpVars
    /\ IF part = "panel" THEN PanelNext ELSE UNCHANGED panelVars
    /\ IF part = "payout" THEN PayNext ELSE UNCHANGED payVars

MCSpec == MCInit /\ [][MCNext]_clientsVars

=============================================================================
