------------------------------- MODULE HirePage ------------------------------
(***************************************************************************)
(* The page on which a client hires a provider, and the hearts with which  *)
(* the client keeps one among the favourites. A service has its own free   *)
(* times, asked for when it is chosen; nothing cancels the question for    *)
(* the service chosen before, so its answer may come last and leave one    *)
(* service beside the times of another. What is ordered then is for the    *)
(* backend to judge. Requests get lost, and are made again.                *)
(*                                                                         *)
(* The hearts are those of the search and of the page of favourites (the   *)
(* hiring page has its own in a comment, where nobody presses it). A page  *)
(* waits for one press at a time, but leaving it cancels none, and an      *)
(* error at the client does not stop a request that is still to be served. *)
(***************************************************************************)
EXTENDS Naturals, FiniteSets

CONSTANTS
    MaxChoices,  \* bound: services chosen, hearts pressed, pages left
    MaxOrders    \* bound: orders of the provider

VARIABLES
    order,      \* the provider's orders, as the server has them
    hiring,     \* the page: its provider, service, times, choice and state
    wires,      \* requests of the page that are on their way
    saved,      \* whether the provider is a favourite, and by which press
    heart,      \* the page with the heart: what it knows, whether it may be pressed
    presses,    \* presses, numbered, on their way
    lists       \* lists of favourites that the page awaits

hireVars == <<order, hiring, wires>>
heartVars == <<saved, heart, presses, lists>>

\* A short service that fits two times, and a long one that fits the first and
\* takes up both.
Schedule == [short |-> {1, 2}, long |-> {1}]

Services == DOMAIN Schedule

Occupied(o) == IF o.service = "long" THEN o.slot .. o.slot + 1 ELSE {o.slot}

Clashes(o, p) == Occupied(o) \cap Occupied(p) # {}

Free(o) == \A p \in order : ~Clashes(o, p)

availability(service) ==
    {slot \in Schedule[service] : Free([service |-> service, slot |-> slot])}

HireInit ==
    /\ order = {}
    /\ hiring = [known |-> FALSE, service |-> "short", days |-> {}, loading |-> FALSE,
                 date |-> 0, slot |-> 0, address |-> FALSE, submitting |-> FALSE,
                 gone |-> FALSE, choices |-> 0]
    /\ wires = {[kind |-> "addresses"], [kind |-> "provider"]}

\* The list of favourites as it is asked for.
NewList == [state |-> "sent", liked |-> FALSE]

\* A page with hearts as it opens. The page of favourites asks for its list at
\* once, the search with each of its own answers.
HeartPage(h, page) ==
    [h EXCEPT !.page = page, !.liked = FALSE, !.loading = FALSE,
              !.listing = page = "favorites"]

HeartPages == {"search", "favorites"}

ListsOf(page) == IF page = "favorites" THEN {NewList} ELSE {}

HeartInit ==
    /\ saved \in [liked : BOOLEAN, by : {0}]
    /\ \E page \in HeartPages :
         /\ heart = HeartPage([page |-> page, liked |-> FALSE, loading |-> FALSE,
                           listing |-> FALSE, wish |-> FALSE, done |-> 0,
                           behind |-> {}, presses |-> 0, pages |-> 1], page)
         /\ lists = ListsOf(page)
    /\ presses = {}

-----------------------------------------------------------------------------
\* The page opens: addresses and provider arrive in any order, or not at all.
AddressesArrive ==
    /\ [kind |-> "addresses"] \in wires
    /\ hiring' \in {hiring, [hiring EXCEPT !.address = TRUE]}
    /\ wires' = wires \ {[kind |-> "addresses"]}
    /\ UNCHANGED order

\* The times of the service are asked for, and everything chosen is forgotten.
loadAvailability(page) ==
    [page EXCEPT !.days = {}, !.date = 0, !.slot = 0, !.loading = TRUE]

Ask(service) == [kind |-> "days", service |-> service, state |-> "sent", days |-> {}]

ProviderArrives ==
    /\ [kind |-> "provider"] \in wires
    /\ \/ /\ hiring' = loadAvailability([hiring EXCEPT !.known = TRUE])
          /\ wires' = (wires \ {[kind |-> "provider"]}) \cup {Ask(hiring.service)}
       \/ /\ wires' = wires \ {[kind |-> "provider"]}
          /\ UNCHANGED hiring
    /\ UNCHANGED order

Open == hiring.known /\ ~hiring.gone

selectService ==
    /\ Open /\ hiring.choices < MaxChoices
    /\ \E s \in Services \ {hiring.service} :
         /\ hiring' = loadAvailability([hiring EXCEPT !.service = s,
                                                      !.choices = @ + 1])
         /\ wires' = wires \cup {Ask(s)}
    /\ UNCHANGED order

\* A day is a time here: one time a day.
selectDate ==
    /\ Open
    /\ \E d \in hiring.days \ {hiring.date} :
         hiring' = [hiring EXCEPT !.date = d, !.slot = 0]
    /\ UNCHANGED <<order, wires>>

selectSlot ==
    /\ Open
    /\ hiring.date \in hiring.days
    /\ hiring' = [hiring EXCEPT !.slot = hiring.date]
    /\ UNCHANGED <<order, wires>>

\* requestDisabled, and what register asks again.
register ==
    /\ Open
    /\ ~hiring.submitting /\ ~hiring.loading /\ hiring.slot # 0 /\ hiring.address
    /\ hiring' = [hiring EXCEPT !.submitting = TRUE]
    /\ wires' = wires \cup {[kind |-> "hire", service |-> hiring.service,
                            slot |-> hiring.slot, state |-> "sent"]}
    /\ UNCHANGED order

-----------------------------------------------------------------------------
\* The backend answers; the times are those of the moment it looks.
ServeAvailability ==
    /\ \E w \in wires :
         /\ w.kind = "days" /\ w.state = "sent"
         /\ wires' = (wires \ {w}) \cup
              {[w EXCEPT !.state = "ok", !.days = availability(w.service)]}
    /\ UNCHANGED <<order, hiring>>

\* Fault: the order takes the page's word that the time is the service's.
takeAnyTime(o) == Free(o)

\* What is ordered must be among the times of its service, and free.
bookable(o) == o.slot \in availability(o.service)

NewOrder(w) ==
    [id |-> Cardinality(order) + 1, service |-> w.service, slot |-> w.slot]

ServeHire ==
    /\ \E w \in wires :
         /\ w.kind = "hire" /\ w.state = "sent"
         /\ IF bookable(NewOrder(w)) /\ Cardinality(order) < MaxOrders
            THEN /\ order' = order \cup {NewOrder(w)}
                 /\ \E s \in {"ok", "failed"} :
                      wires' = (wires \ {w}) \cup {[w EXCEPT !.state = s]}
            ELSE /\ wires' = (wires \ {w}) \cup {[w EXCEPT !.state = "failed"]}
                 /\ UNCHANGED order
    /\ UNCHANGED hiring

\* Another client orders.
RivalOrders ==
    /\ Cardinality(order) < MaxOrders
    /\ \E s \in Services, slot \in 1 .. 2 :
         LET o == NewOrder([service |-> s, slot |-> slot])
         IN bookable(o) /\ order' = order \cup {o}
    /\ UNCHANGED <<hiring, wires>>

\* A request never reaches the backend.
RequestLost ==
    /\ \E w \in wires :
         /\ w.kind \in {"days", "hire"} /\ w.state = "sent"
         /\ wires' = (wires \ {w}) \cup {[w EXCEPT !.state = "failed"]}
    /\ UNCHANGED <<order, hiring>>

\* Any answer ends the waiting, also one for the service chosen before. The day
\* it proposes replaces the one chosen; the time chosen stays.
AvailabilityArrives ==
    /\ \E w \in wires :
         /\ w.kind = "days" /\ w.state # "sent"
         /\ hiring' = IF w.state = "ok"
                      THEN [hiring EXCEPT !.loading = FALSE, !.days = w.days,
                              !.date = IF w.days = {} THEN 0
                                       ELSE CHOOSE d \in w.days :
                                              \A e \in w.days : d <= e]
                      ELSE [hiring EXCEPT !.loading = FALSE]
         /\ wires' = wires \ {w}
    /\ UNCHANGED order

\* The order's page follows a success; after an error the client may try again.
HireAnswered ==
    /\ \E w \in wires :
         /\ w.kind = "hire" /\ w.state # "sent"
         /\ hiring' = [hiring EXCEPT !.submitting = FALSE, !.gone = w.state = "ok"]
         /\ wires' = wires \ {w}
    /\ UNCHANGED order

-----------------------------------------------------------------------------
\* The page is left for another, or opened again. Nothing on its way is
\* cancelled; nobody waits for the answers.
leavePage ==
    /\ heart.pages < MaxChoices
    /\ \E page \in HeartPages :
         /\ heart' = [HeartPage(heart, page) EXCEPT !.pages = @ + 1,
                         !.behind = @ \cup {p.n : p \in presses}]
         /\ lists' = ListsOf(page)
    /\ presses' = {p \in presses : p.state = "sent"}
    /\ UNCHANGED saved

\* The search was answered, and asks for the favourites again.
askFavorites ==
    /\ heart.page = "search"
    /\ lists' = lists \cup {NewList}
    /\ UNCHANGED <<saved, heart, presses>>

\* The search shows a heart whatever it knows, the other page what it lists.
HeartShown == heart.page = "search" \/ (heart.liked /\ ~heart.listing)

\* Fault: the heart may be pressed while its request is on its way.
pressAlways == HeartShown

mayToggle == HeartShown /\ ~heart.loading

\* What is asked for is the opposite of what the page knows; that changes with
\* the answer.
toggleFavorite ==
    /\ mayToggle /\ heart.presses < MaxChoices
    /\ heart' = [heart EXCEPT !.loading = TRUE, !.wish = ~heart.liked, !.done = 0,
                              !.presses = @ + 1]
    /\ presses' = presses \cup {[n |-> heart.presses + 1, add |-> ~heart.liked,
                                state |-> "sent"]}
    /\ UNCHANGED <<saved, lists>>

\* Adding what is there and removing what is not change nothing, and succeed.
AddFavorite(n) == [liked |-> TRUE, by |-> n]

RemoveFavorite(n) == [liked |-> FALSE, by |-> n]

Behind(p) == p.n \in heart.behind

ServeHeart ==
    /\ \E p \in presses :
         /\ p.state = "sent"
         /\ saved' = IF p.add THEN AddFavorite(p.n) ELSE RemoveFavorite(p.n)
         /\ presses' = (presses \ {p}) \cup
              (IF Behind(p) THEN {} ELSE {[p EXCEPT !.state = "ok"]})
    /\ UNCHANGED <<heart, lists>>

HeartAnswered ==
    /\ \E p \in presses :
         /\ ~Behind(p) /\ p.state = "ok"
         /\ heart' = [heart EXCEPT !.liked = p.add, !.loading = FALSE, !.done = p.n]
         /\ presses' = presses \ {p}
    /\ UNCHANGED <<saved, lists>>

\* An error ends the waiting and changes nothing on the page. The request may
\* have been refused, was served with its answer lost, or is served yet.
HeartFails ==
    /\ \E p \in presses :
         /\ ~Behind(p)
         /\ heart' = [heart EXCEPT !.loading = FALSE, !.behind = @ \cup {p.n}]
         /\ presses' = IF p.state = "ok" THEN presses \ {p} ELSE presses
    /\ UNCHANGED <<saved, lists>>

HeartLost ==
    /\ \E p \in presses : Behind(p) /\ presses' = presses \ {p}
    /\ UNCHANGED <<saved, heart, lists>>

\* The list leaves out whom it does not show: only the first favourites, who
\* are approved and have a service.
listFavorites ==
    /\ \E l \in lists :
         /\ l.state = "sent"
         /\ \E liked \in {saved.liked, FALSE} :
              lists' = (lists \ {l}) \cup {[state |-> "ok", liked |-> liked]}
    /\ UNCHANGED <<saved, heart, presses>>

\* A list that was read before a press overwrites what the press's answer said.
FavoritesArrive ==
    /\ \E l \in lists :
         /\ heart' \in {[heart EXCEPT !.liked = l.liked, !.listing = FALSE],
                         [heart EXCEPT !.listing = FALSE]}
         /\ l.state = "sent" => heart'.liked = heart.liked
         /\ lists' = lists \ {l}
    /\ UNCHANGED <<saved, presses>>

HireNext ==
    \/ AddressesArrive \/ ProviderArrives \/ selectService \/ selectDate
    \/ selectSlot \/ register \/ ServeAvailability \/ ServeHire \/ RivalOrders
    \/ RequestLost \/ AvailabilityArrives \/ HireAnswered

HeartNext ==
    \/ leavePage \/ askFavorites \/ toggleFavorite \/ ServeHeart \/ HeartAnswered
    \/ HeartFails \/ HeartLost \/ listFavorites \/ FavoritesArrive

\* Hiring and the hearts share nothing.
HireSpec == HireInit /\ HeartInit /\ [][HireNext]_hireVars /\ [][HeartNext]_heartVars

-----------------------------------------------------------------------------
\* Whatever the page showed beside the service that was chosen, and however
\* often a hire whose answer was lost is tried again: each order is at a time
\* of its own service, and no two orders take up the same time.
OrdersCanBeKept ==
    \A o \in order :
       /\ o.slot \in Schedule[o.service]
       /\ \A p \in order \ {o} : ~Clashes(o, p)

\* Once a page was told that its last press is done, the server has what was
\* asked for, unless a press was served afterwards that the client had left
\* behind, with the page it was made on or after an error.
HeartIsLastWish ==
    heart.done # 0 =>
       \/ saved = [liked |-> heart.wish, by |-> heart.done]
       \/ saved.by \in heart.behind

\* What the client chose is what the server has: orders that can be kept, and
\* the favourite that was confirmed last, whatever was under way before it.
ChoicesAreKept == OrdersCanBeKept /\ HeartIsLastWish

=============================================================================
