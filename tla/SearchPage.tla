------------------------------ MODULE SearchPage -----------------------------
(***************************************************************************)
(* The search page: the address bar holds the filters, the page follows    *)
(* it, and every change asks the backend anew. Where the user is comes     *)
(* from an address or from the browser, whichever was chosen last. The map *)
(* beside the list loads its library on demand and draws what the list     *)
(* shows. A navigation is one step: nothing runs between the router's call *)
(* and the page's taking the new address.                                  *)
(***************************************************************************)
EXTENDS Naturals, FiniteSets

CONSTANT MaxMoves   \* bound: what the user does on the page

VARIABLES
    client,     \* whether somebody is logged in
    url,        \* the filters of the address bar
    page,       \* the filters as the page shows them
    stored,     \* the browser's note that only favourites are wanted
    asked,      \* questions on their way
    list,       \* the last answer
    hearts,     \* the favourites known, and whether their list is under way
    place,      \* where the user is, and the choice that said so
    positions,  \* positions asked of the browser
    locating,   \* the newest of them, and whether the addresses are awaited
    map,        \* the map
    moves       \* choices made: bound

searchVars == <<client, url, page, stored, asked, list, hearts, place, positions,
                locating, map, moves>>

\* Two of the filters that narrow the list on the page: the rating, which like
\* the prices looks at the provider alone, and the distance.
Limits == {"rating", "distance"}

Addresses == {"home", "work"}

\* Two providers: one near every place, one that covers a region the user is
\* not in and meets no limit.
Profile ==
    [near |-> [categories |-> {"a"}, meets |-> Limits],
     far |-> [categories |-> {}, meets |-> {}]]

Providers == DOMAIN Profile

Nowhere == [at |-> "nowhere", move |-> 0]

NoneFound == [providers |-> {}, at |-> "nowhere", region |-> "nothing"]

-----------------------------------------------------------------------------
\* The page as it follows the address bar. Without a word there, a client's
\* stored preference says whether only favourites are wanted.
Shown(u, preference) ==
    [category |-> IF u.category = "absent" THEN "" ELSE u.category,
     region |-> u.region,
     limits |-> u.limits,
     favorites |-> IF u.favorites = "absent" THEN client /\ preference
                   ELSE u.favorites = "true"]

persistOnlyFavorites(u, preference) ==
    IF client /\ u.favorites # "absent" THEN u.favorites = "true" ELSE preference

searchOrigin(p, at) == IF p.region # "none" THEN p.region ELSE at

Question(p, at) ==
    [category |-> p.category, origin |-> searchOrigin(p, at), favorites |-> p.favorites]

\* Fault: an answer that was overtaken still counts.
answerAll(q) == asked \cup {q}

\* Only the newest question is waited for.
switchMap(q) == {q}

Search(u, preference, at) ==
    /\ page' = Shown(u, preference)
    /\ stored' = persistOnlyFavorites(u, preference)
    /\ asked' = switchMap(Question(page', at))
    /\ list' = [list EXCEPT !.failed = FALSE]

\* The router does nothing when the address stays what it is: no new search.
updateFilters(u, preference, p, at) ==
    /\ url' = u
    /\ IF u = url
       THEN page' = p /\ stored' = preference /\ UNCHANGED <<asked, list>>
       ELSE Search(u, preference, at)

retrySearch(at) == Search(url, stored, at) /\ UNCHANGED url

-----------------------------------------------------------------------------
\* Where the user is. A new wish for the browser's position outdates the ones
\* before it.
requestCurrentLocation(useForSearch) ==
    /\ locating' = [locating EXCEPT !.newest = @ + 1, !.loading = TRUE]
    /\ positions' = positions \cup
         {[id |-> locating.newest + 1, move |-> moves', forSearch |-> useForSearch]}

SearchInit ==
    /\ client \in BOOLEAN
    /\ url \in [category : {"absent", "a"}, region : {"none", "region"},
                favorites : {"absent", "true"}, limits : {{}}]
    /\ \E preference \in BOOLEAN :
         /\ page = Shown(url, preference)
         /\ stored = persistOnlyFavorites(url, preference)
    /\ asked = {Question(page, "nowhere")}
    /\ list = [question |-> Question(page, "nowhere"), found |-> {}, failed |-> FALSE,
               answered |-> FALSE]
    /\ hearts = [shown |-> {}, awaited |-> FALSE]
    /\ place = Nowhere
    /\ positions = IF client THEN {} ELSE {[id |-> 1, move |-> 0, forSearch |-> FALSE]}
    /\ locating = [newest |-> IF client THEN 0 ELSE 1, loading |-> ~client,
                   addresses |-> client]
    /\ map = [view |-> FALSE, state |-> "none", awaited |-> FALSE, ready |-> FALSE,
              seen |-> NoneFound, drawn |-> NoneFound, gone |-> FALSE]
    /\ moves = 0

\* The addresses arrive: the default one with a location, or another, is where
\* the user is; without any the browser is asked.
resolveUserLocation ==
    /\ locating.addresses /\ ~map.gone
    /\ \/ \E a \in Addresses :
            /\ place' = [at |-> a, move |-> 0]
            /\ locating' = [locating EXCEPT !.addresses = FALSE]
            /\ retrySearch(a)
            /\ UNCHANGED positions
       \/ /\ locating' = [locating EXCEPT !.addresses = FALSE, !.newest = @ + 1,
                                          !.loading = TRUE]
          /\ positions' = positions \cup
               {[id |-> locating.newest + 1, move |-> moves, forSearch |-> FALSE]}
          /\ UNCHANGED <<place, url, page, stored, asked, list>>
    /\ UNCHANGED <<client, hearts, map, moves>>

\* Fault: an address that is chosen leaves the browser's answer awaited.
selectKeepingRequests == locating

outdateRequests == [locating EXCEPT !.newest = @ + 1, !.loading = FALSE]

\* What the user does, up to MaxMoves times.
Moves == /\ moves < MaxMoves /\ ~map.gone /\ moves' = moves + 1

selectAddress ==
    /\ Moves
    /\ client /\ ~locating.addresses
    /\ \E a \in Addresses :
         /\ place' = [at |-> a, move |-> moves']
         /\ IF page.region # "none"
            THEN updateFilters([url EXCEPT !.region = "none"], stored, page, a)
            ELSE retrySearch(a)
    /\ locating' = outdateRequests
    /\ UNCHANGED <<client, hearts, positions, map>>

searchNearMe ==
    /\ Moves
    /\ ~locating.loading /\ ~locating.addresses
    /\ requestCurrentLocation(TRUE)
    /\ UNCHANGED <<client, url, page, stored, asked, list, hearts, place, map>>

\* The browser answers with a position, or fails, or says nothing usable; what
\* was outdated is dropped.
PositionArrives ==
    \E r \in positions :
       /\ ~map.gone
       /\ positions' = positions \ {r}
       /\ locating' = [locating EXCEPT !.loading = @ /\ r.id # locating.newest]
       /\ \/ /\ r.id = locating.newest
             /\ place' = [at |-> "here", move |-> r.move]
             /\ IF r.forSearch /\ page.region # "none"
                THEN updateFilters([url EXCEPT !.region = "none"], stored, page, "here")
                ELSE retrySearch("here")
          \/ UNCHANGED <<place, url, page, stored, asked, list>>
       /\ UNCHANGED <<client, hearts, map, moves>>

-----------------------------------------------------------------------------
\* The filters.
updateCategory ==
    /\ Moves
    /\ updateFilters([url EXCEPT !.category =
                         IF page.category = "a" THEN "absent" ELSE "a"],
                     stored, page, place.at)
    /\ UNCHANGED <<client, hearts, place, positions, locating, map>>

\* Rating, distance and prices: the page shows them at once, and the address
\* follows.
updateLimit ==
    /\ Moves
    /\ \E f \in Limits :
         LET limits == IF f \in page.limits THEN page.limits \ {f}
                       ELSE page.limits \cup {f}
         IN updateFilters([url EXCEPT !.limits = limits], stored,
                          [page EXCEPT !.limits = limits], place.at)
    /\ UNCHANGED <<client, hearts, place, positions, locating, map>>

applyFilters ==
    /\ Moves
    /\ updateFilters([url EXCEPT !.limits = page.limits,
                        !.favorites = IF page.favorites THEN "true" ELSE "absent"],
                     stored, page, place.at)
    /\ UNCHANGED <<client, hearts, place, positions, locating, map>>

clearFilters ==
    /\ Moves
    /\ updateFilters([url EXCEPT !.category = "absent", !.limits = {},
                                 !.favorites = "absent"],
                     IF client THEN FALSE ELSE stored,
                     [page EXCEPT !.category = "", !.limits = {}, !.favorites = FALSE],
                     place.at)
    /\ UNCHANGED <<client, hearts, place, positions, locating, map>>

toggleOnlyFavorites ==
    /\ Moves
    /\ LET wanted == ~page.favorites
       IN updateFilters([url EXCEPT !.category = page.category,
                            !.favorites = IF wanted THEN "true" ELSE "absent"],
                        IF client THEN wanted ELSE stored,
                        [page EXCEPT !.favorites = wanted], place.at)
    /\ UNCHANGED <<client, hearts, place, positions, locating, map>>

RetryPressed ==
    /\ Moves
    /\ list.failed
    /\ retrySearch(place.at)
    /\ UNCHANGED <<client, hearts, place, positions, locating, map>>

-----------------------------------------------------------------------------
\* The backend. A point asks for the providers whose area reaches it; without
\* one any active area will do.
providerCoverageWhere(origin) ==
    IF origin \in {"region", "nowhere"} THEN Providers ELSE {"near"}

findByCategory(q) ==
    {{p \in providerCoverageWhere(q.origin) : q.category \in Profile[p].categories}}

listProviders(q) ==
    IF q.favorites THEN SUBSET providerCoverageWhere(q.origin)
    ELSE {providerCoverageWhere(q.origin)}

Found(q) == IF q.category = "" THEN listProviders(q) ELSE findByCategory(q)

\* An answer: the providers, or an error that empties the list. A client's
\* favourites are asked for after either. The favourites of a guest are
\* refused.
SearchAnswered ==
    /\ ~map.gone
    /\ \E q \in asked :
         /\ asked' = asked \ {q}
         /\ \/ /\ ~(q.favorites /\ q.category = "" /\ ~client)
               /\ \E found \in Found(q) :
                    list' = [question |-> q, found |-> found, failed |-> FALSE,
                            answered |-> TRUE]
            \/ list' = [question |-> q, found |-> {}, failed |-> TRUE, answered |-> TRUE]
    /\ hearts' = [hearts EXCEPT !.awaited = @ \/ client]
    /\ UNCHANGED <<client, url, page, stored, place, positions, locating, map, moves>>

loadFavorites ==
    /\ hearts.awaited /\ ~map.gone
    /\ \/ \E liked \in {{}, {"near"}} : hearts' = [shown |-> liked, awaited |-> FALSE]
       \/ hearts' = [hearts EXCEPT !.awaited = FALSE]
    /\ UNCHANGED <<client, url, page, stored, asked, list, place, positions, locating,
                   map, moves>>

-----------------------------------------------------------------------------
\* The list and the map show what passes the filters. Without an origin no
\* distance is known.
Visible ==
    {p \in list.found :
        /\ page.limits \subseteq Profile[p].meets
        /\ "distance" \in page.limits => searchOrigin(page, place.at) # "nowhere"
        /\ page.favorites => p \in hearts.shown}

\* Fault: a region that changes is no reason to draw again.
signatureOfPlaces == [providers |-> Visible, at |-> place.at, region |-> "any"]

mapProviders == [providers |-> Visible, at |-> place.at, region |-> page.region]

getInputSignature == mapProviders

mapCenter == page.region # "none" \/ place.at # "nowhere" \/ Visible # {}

\* Without a centre the map hides; the first one to need the library starts
\* loading it, and whoever comes meanwhile waits for the same. A load that
\* failed is not tried again.
syncMap(m) ==
    CASE ~mapCenter -> [m EXCEPT !.ready = FALSE]
      [] mapCenter /\ m.state = "made" ->
           [m EXCEPT !.ready = TRUE, !.drawn = mapProviders]
      [] mapCenter /\ m.state \in {"none", "loading"} ->
           [m EXCEPT !.state = "loading", !.awaited = TRUE]
      [] OTHER -> m

ngAfterViewInit ==
    /\ ~map.view /\ ~map.gone
    /\ map' = syncMap([map EXCEPT !.view = TRUE])
    /\ UNCHANGED <<client, url, page, stored, asked, list, hearts, place, positions,
                   locating, moves>>

ngDoCheck ==
    /\ map.view /\ ~map.gone
    /\ map.seen # getInputSignature
    /\ map' = syncMap([map EXCEPT !.seen = getInputSignature])
    /\ UNCHANGED <<client, url, page, stored, asked, list, hearts, place, positions,
                   locating, moves>>

createMap ==
    /\ map.state = "loading"
    /\ \/ /\ ~map.gone
          /\ map' = [map EXCEPT !.state = "made", !.ready = TRUE, !.awaited = FALSE,
                                !.drawn = mapProviders]
       \/ /\ map.gone
          /\ map' = [map EXCEPT !.state = "none", !.awaited = FALSE]
       \/ map' = [map EXCEPT !.state = "failed", !.ready = FALSE, !.awaited = FALSE]
    /\ UNCHANGED <<client, url, page, stored, asked, list, hearts, place, positions,
                   locating, moves>>

\* The page is left.
ngOnDestroy ==
    /\ ~map.gone
    /\ map' = [map EXCEPT !.gone = TRUE, !.ready = FALSE, !.drawn = NoneFound,
                          !.state = IF @ = "made" THEN "none" ELSE @]
    /\ UNCHANGED <<client, url, page, stored, asked, list, hearts, place, positions,
                   locating, moves>>

\* The page is checked for changes after each event, before the next one.
Checked == map.gone \/ (map.view /\ map.seen = getInputSignature)

SearchNext ==
    \/ ngAfterViewInit \/ ngDoCheck
    \/ /\ Checked
       /\ \/ resolveUserLocation \/ selectAddress \/ searchNearMe \/ PositionArrives
          \/ updateCategory \/ updateLimit \/ applyFilters \/ clearFilters
          \/ toggleOnlyFavorites \/ RetryPressed \/ SearchAnswered \/ loadFavorites
          \/ createMap \/ ngOnDestroy

SearchSpec == SearchInit /\ [][SearchNext]_searchVars

-----------------------------------------------------------------------------
\* When no answer is awaited, the list answers the question the page asks: its
\* category and its origin, however the clicks and the answers crossed. (That
\* only favourites are wanted is not among it: clearing that filter may leave
\* the address as it is, and then nothing is asked.)
ListAnswersThePage ==
    (asked = {} /\ list.answered)
    => /\ list.question.category = page.category
       /\ list.question.origin = searchOrigin(page, place.at)

\* Where the user is never goes back to an older choice: a position of the
\* browser that comes late does not undo the address chosen meanwhile.
NewestChoiceWins == [][place'.move >= place.move]_searchVars

\* A map that is shown, and whose page has no change to tell it, shows the
\* providers, the place and the region of the page; once the page is left there
\* is no map, also when its library arrives later.
MapShowsThePage ==
    /\ (map.ready /\ map.seen = getInputSignature) => map.drawn = mapProviders
    /\ map.gone => map.state # "made" /\ ~map.ready

\* List and map show what the page asks for, however clicks and answers cross.
SearchShowsItsQuery == ListAnswersThePage /\ MapShowsThePage

=============================================================================
