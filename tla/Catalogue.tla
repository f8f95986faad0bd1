------------------------------ MODULE Catalogue ------------------------------
(***************************************************************************)
(* What the platform offers: the categories and feature flags the          *)
(* operators keep, each from a page of the back office, and the services   *)
(* the providers offer in the categories. A page works on copies: it lists *)
(* what was there when it loaded and saves the form it opened, while other *)
(* operators change the same rows. A service is checked against the        *)
(* categories and its own row first and written later.                     *)
(***************************************************************************)
EXTENDS Naturals, FiniteSets, TLC

CONSTANTS
    Entries,        \* bound: the ids a category or a flag may have, in order of name
    Offers,         \* bound: the ids a provider's services may have
    DeskLimit,      \* rows of a page
    MaxSteps,       \* bound: what the operator does
    MaxOthers,      \* bound: what the other operators do
    MaxSaves        \* bound: what the provider sends

VARIABLES
    desk,      \* which page the operator has: categories or flags
    rows,      \* the rows of its table
    tab,       \* the page
    inFlight,  \* the page's request, on its way out or back
    steps,     \* what was done so far: bound
    offers,    \* the provider's services
    edits,     \* requests of the provider that are on their way
    form       \* the provider's form

deskVars == <<desk, rows, tab, inFlight, steps>>
offerVars == <<offers, edits, form>>

-----------------------------------------------------------------------------
\* The rows, and a page of them.
Existing == {r \in Entries : rows[r].status \in {"active", "inactive"}}

Blank == [status |-> "none", thumb |-> "none"]

\* An id is used once.
Unused == {r \in Entries : rows[r].status = "none"}

NewId == CHOOSE r \in Unused : \A s \in Unused : r <= s

\* Categories by their own service, flags by theirs: the same cut of the same
\* order.
listPaginated(page) ==
    {r \in Existing :
        Cardinality({s \in Existing : s < r})
            \in (page - 1) * DeskLimit .. page * DeskLimit - 1}

findAllFlags(page) == listPaginated(page)

deskPages ==
    LET full == (Cardinality(Existing) + DeskLimit - 1) \div DeskLimit
    IN IF full = 0 THEN 1 ELSE full

Page(page) == IF desk = "categories" THEN listPaginated(page) ELSE findAllFlags(page)

NoRequest == [kind |-> "none", state |-> "none", id |-> 0, body |-> Blank, thumb |-> "none",
         list |-> {}, pages |-> 1]

Sent(kind, id, body) ==
    [NoRequest EXCEPT !.kind = kind, !.state = "sent", !.id = id, !.body = body]

DeskInit ==
    /\ desk \in {"categories", "flags"}
    /\ \E last \in Entries :
         rows = [r \in Entries |->
                   [Blank EXCEPT !.status = IF r <= last THEN "active" ELSE "none"]]
    /\ tab = [page |-> 1, pages |-> 1, list |-> {}, busy |-> TRUE, editing |-> FALSE,
              deleting |-> 0, id |-> 0, active |-> FALSE, thumb |-> "none"]
    /\ inFlight = Sent("load", 0, Blank)
    /\ steps = [mine |-> 0, others |-> 0]

-----------------------------------------------------------------------------
\* The operator. Every button waits for the request before it.
Mine == steps.mine < MaxSteps /\ steps' = [steps EXCEPT !.mine = @ + 1]

Ready == Mine /\ ~tab.busy

Load(page) ==
    /\ tab' = [tab EXCEPT !.page = page, !.busy = TRUE]
    /\ inFlight' = Sent("load", 0, Blank)

changePage ==
    /\ Ready
    /\ \E page \in {tab.page - 1, tab.page, tab.page + 1} :
         page \in 1 .. tab.pages /\ Load(page)
    /\ UNCHANGED <<desk, rows>>

\* Fault: a row may be opened while a request is on its way.
mayEditAnytime == Mine

mayEdit == Ready

\* A new row, number 0: a category is active at first, a flag is not.
NewRow == [id |-> 0, status |-> IF desk = "categories" THEN "active" ELSE "inactive",
           thumb |-> "none"]

\* The form of a row as it is listed, or of a new one.
edit ==
    /\ mayEdit
    /\ \E r \in tab.list \cup {NewRow} :
         tab' = [tab EXCEPT !.editing = TRUE, !.deleting = 0, !.id = r.id,
                            !.active = r.status = "active", !.thumb = r.thumb]
    /\ UNCHANGED <<desk, rows, inFlight>>

\* The choice a form offers beside its texts.
switchActive ==
    /\ Ready /\ tab.editing
    /\ tab' = [tab EXCEPT !.active = ~@]
    /\ UNCHANGED <<desk, rows, inFlight>>

\* A picture is named after the form it was chosen for.
PictureOf(id) == IF id = 0 THEN "new" ELSE ToString(id)

uploadThumbnail ==
    /\ Ready /\ tab.editing /\ desk = "categories"
    /\ tab' = [tab EXCEPT !.busy = TRUE]
    /\ inFlight' = [Sent("upload", tab.id, Blank) EXCEPT !.thumb = PictureOf(tab.id)]
    /\ UNCHANGED <<desk, rows>>

\* The whole form goes out, also what was not touched.
saveCategory ==
    [status |-> IF tab.active THEN "active" ELSE "inactive", thumb |-> tab.thumb]

saveFlag == [status |-> IF tab.active THEN "active" ELSE "inactive", thumb |-> "none"]

save ==
    /\ Ready /\ tab.editing
    /\ inFlight' = Sent("save", tab.id,
                       IF desk = "categories" THEN saveCategory ELSE saveFlag)
    /\ tab' = [tab EXCEPT !.busy = TRUE]
    /\ UNCHANGED <<desk, rows>>

toggle ==
    /\ Ready
    /\ \E r \in tab.list :
         inFlight' = Sent("toggle", r.id,
                   [Blank EXCEPT !.status = IF r.status = "active" THEN "inactive"
                                            ELSE "active"])
    /\ tab' = [tab EXCEPT !.busy = TRUE]
    /\ UNCHANGED <<desk, rows>>

askRemove ==
    /\ Ready
    /\ \E r \in tab.list :
         tab' = [tab EXCEPT !.deleting = r.id, !.editing = FALSE]
    /\ UNCHANGED <<desk, rows, inFlight>>

remove ==
    /\ Ready /\ tab.deleting # 0
    /\ inFlight' = Sent("remove", tab.deleting, Blank)
    /\ tab' = [tab EXCEPT !.busy = TRUE]
    /\ UNCHANGED <<desk, rows>>

-----------------------------------------------------------------------------
\* The backend. A row that is gone is not found; a category that services or
\* subcategories hang on stays.
createRow(body) == [rows EXCEPT ![NewId] = body]

updateCategory(id, body, whole) ==
    [rows EXCEPT ![id] = IF whole THEN body ELSE [@ EXCEPT !.status = body.status]]

Gone == [Blank EXCEPT !.status = "gone"]

removeFlag(id) == [rows EXCEPT ![id] = Gone]

updateFlag(id, body) == [rows EXCEPT ![id].status = body.status]

Linked(id) == \E o \in Offers : offers[o].status # "none" /\ offers[o].category = id

removeCategory(id) == IF Linked(id) THEN rows ELSE removeFlag(id)

Saved(w) ==
    CASE w.kind = "save" /\ w.id = 0 -> createRow(w.body)
      [] w.kind = "remove" ->
           IF desk = "categories" THEN removeCategory(w.id) ELSE removeFlag(w.id)
      [] OTHER -> IF desk = "categories"
                  THEN updateCategory(w.id, w.body, w.kind = "save")
                  ELSE updateFlag(w.id, w.body)

Found(w) == IF w.id = 0 THEN Unused # {} ELSE w.id \in Existing

Answers(w) == {[w EXCEPT !.state = s] : s \in {"ok", "failed"}}

ServeDesk ==
    /\ inFlight.state = "sent"
    /\ CASE inFlight.kind = "load" ->
              /\ inFlight' \in Answers([inFlight EXCEPT
                    !.list = {[id |-> r, status |-> rows[r].status, thumb |-> rows[r].thumb] :
                                r \in Page(tab.page)},
                    !.pages = deskPages])
              /\ UNCHANGED rows
         [] inFlight.kind = "upload" -> inFlight' \in Answers(inFlight) /\ UNCHANGED rows
         [] OTHER ->
              \/ /\ Found(inFlight)
                 /\ rows' = Saved(inFlight)
                 /\ inFlight' \in Answers(inFlight)
              \/ inFlight' = [inFlight EXCEPT !.state = "failed"] /\ UNCHANGED rows
    /\ UNCHANGED <<desk, tab, steps>>

\* What was written closes the form, and the page is loaded anew: the one
\* before, when its only row went.
Closed ==
    [tab EXCEPT !.editing = FALSE, !.deleting = 0, !.busy = TRUE,
                !.page = IF inFlight.kind = "remove" /\ Cardinality(tab.list) = 1 /\ @ > 1
                         THEN @ - 1 ELSE @]

\* A list comes in; a picture waits to be saved.
DeskAnswered ==
    /\ inFlight.state \in {"ok", "failed"}
    /\ IF inFlight.state = "ok" /\ inFlight.kind \notin {"load", "upload"}
       THEN /\ tab' = Closed
            /\ inFlight' = Sent("load", 0, Blank)
       ELSE /\ inFlight' = NoRequest
            /\ tab' = CASE inFlight.state = "failed" -> [tab EXCEPT !.busy = FALSE]
                        [] inFlight.state = "ok" /\ inFlight.kind = "load" ->
                             [tab EXCEPT !.busy = FALSE, !.list = inFlight.list,
                                         !.pages = inFlight.pages]
                        [] OTHER -> [tab EXCEPT !.busy = FALSE, !.thumb = inFlight.thumb]
    /\ UNCHANGED <<desk, rows, steps>>

\* Another operator changes the table.
ElsewhereAtDesk ==
    /\ steps.others < MaxOthers
    /\ steps' = [steps EXCEPT !.others = @ + 1]
    /\ \/ \E r \in Existing :
            \/ rows' = [rows EXCEPT ![r].status = IF @ = "active" THEN "inactive"
                                                   ELSE "active"]
            \/ rows' = IF desk = "categories" THEN removeCategory(r) ELSE removeFlag(r)
       \/ /\ Unused # {}
          /\ rows' = createRow([Blank EXCEPT !.status = "active"])
    /\ UNCHANGED <<desk, tab, inFlight>>

DeskNext ==
    \/ changePage \/ edit \/ switchActive \/ uploadThumbnail \/ save \/ toggle
    \/ askRemove \/ remove \/ ServeDesk \/ DeskAnswered \/ ElsewhereAtDesk

-----------------------------------------------------------------------------
\* The provider's services. Hours are some of the week or none; "kept" is a
\* field that a request leaves out.
NoOffer == [status |-> "none", category |-> 1, hours |-> "none"]

OfferInit ==
    /\ \E some \in SUBSET {1} :
         offers = [o \in Offers |-> IF o \in some THEN [NoOffer EXCEPT !.status = "INATIVO",
                                                         !.hours = "some"]
                                   ELSE NoOffer]
    /\ edits = {}
    /\ form = [id |-> 0, status |-> "INATIVO", category |-> 1, hours |-> "some",
               presses |-> 0]

FormMoves == form.presses < MaxSaves

\* The form opens a service, or a new one, and the provider fills it in.
editOffer ==
    /\ FormMoves
    /\ \E o \in {o \in Offers : offers[o].status # "none"} \cup {0},
          status \in {"ATIVO", "INATIVO"}, c \in Existing, hours \in {"some", "none"} :
         form' = [id |-> o, status |-> status, category |-> c, hours |-> hours,
                  presses |-> form.presses]
    /\ form' # form
    /\ UNCHANGED <<offers, edits>>

\* Fault: a save sends what differs from the service as the page lists it.
payloadOfChanges(f) ==
    LET was == IF f.id = 0 THEN NoOffer ELSE offers[f.id]
    IN [status |-> IF f.status = was.status THEN "kept" ELSE f.status,
        category |-> f.category,
        hours |-> IF f.hours = was.hours /\ f.id # 0 THEN "kept" ELSE f.hours]

\* A save sends the whole form.
payload(f) == [status |-> f.status, category |-> f.category, hours |-> f.hours]

\* Two tabs of a provider save independently; after a new service is saved, the
\* form is still that of a new one.
saveOffer ==
    /\ FormMoves
    /\ Cardinality(edits) < 2
    /\ edits' = edits \cup {[kind |-> "write", id |-> form.id, body |-> payload(form),
                            checked |-> FALSE]}
    /\ form' = [form EXCEPT !.presses = @ + 1]
    /\ UNCHANGED offers

deactivate ==
    /\ FormMoves
    /\ Cardinality(edits) < 2
    /\ \E o \in Offers :
         /\ offers[o].status = "ATIVO"
         /\ edits' = edits \cup {[kind |-> "remove", id |-> o, body |-> payload(form),
                                 checked |-> TRUE]}
    /\ form' = [form EXCEPT !.presses = @ + 1]
    /\ UNCHANGED offers

\* What the service will be, as far as the handler can see.
Merged(e) ==
    LET was == IF e.id = 0 THEN NoOffer ELSE offers[e.id]
    IN [status |-> IF e.body.status = "kept" THEN was.status ELSE e.body.status,
        category |-> e.body.category,
        hours |-> IF e.body.hours = "kept" THEN was.hours ELSE e.body.hours]

\* The category must be active, and the hours valid when the service is.
validate(e) ==
    /\ rows[Merged(e).category].status = "active"
    /\ Merged(e).status = "ATIVO" => Merged(e).hours = "some"

CheckOffer ==
    /\ \E e \in edits :
         /\ ~e.checked
         /\ edits' = IF validate(e) THEN (edits \ {e}) \cup {[e EXCEPT !.checked = TRUE]}
                     ELSE edits \ {e}
    /\ UNCHANGED <<offers, form>>

NewOffers == {o \in Offers : offers[o].status = "none"}

WriteOffer ==
    /\ \E e \in edits :
         /\ e.checked
         /\ edits' = edits \ {e}
         /\ CASE e.kind = "remove" -> offers' = [offers EXCEPT ![e.id].status = "INATIVO"]
              [] e.kind = "write" /\ e.id # 0 -> offers' = [offers EXCEPT ![e.id] = Merged(e)]
              [] OTHER -> \E o \in NewOffers : offers' = [offers EXCEPT ![o] = Merged(e)]
    /\ UNCHANGED form

\* Meanwhile the operators change the categories, in a step each.
OfferNext ==
    \/ (editOffer \/ saveOffer \/ deactivate \/ CheckOffer \/ WriteOffer)
       /\ UNCHANGED deskVars
    \/ ElsewhereAtDesk /\ UNCHANGED offerVars

CatalogueSpec ==
    DeskInit /\ OfferInit /\ [][(DeskNext /\ UNCHANGED offerVars) \/ OfferNext]_<<deskVars,
                                                                            offerVars>>

-----------------------------------------------------------------------------
\* A picture never lands on another category than the one whose form it was
\* chosen for, however the upload's answer, the forms and the saves follow each
\* other.
PicturesStayPut ==
    \A r \in Entries : rows[r].thumb \in {"none", "new", PictureOf(r)}

\* A service that is offered has hours to book, whatever its category does and
\* however two saves and a removal of one service interleave between the check
\* and the write.
OfferedHasHours ==
    \A o \in Offers : offers[o].status = "ATIVO" => offers[o].hours = "some"

\* What is saved belongs together: a picture to its category, hours to an offer.
SavesBelongTogether == PicturesStayPut /\ OfferedHasHours

=============================================================================
