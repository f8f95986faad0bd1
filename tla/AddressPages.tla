---------------------------- MODULE AddressPages ----------------------------
(***************************************************************************)
(* The pages on which addresses are typed: the address book of a user, a   *)
(* list with a form in a drawer, and the steps of the sign-up. The address *)
(* book looks a postal code (CEP) up, drops the lookup it no longer needs  *)
(* and fills what the user has not typed meanwhile; the sign-up looks it   *)
(* up and takes whatever arrives, as long as it takes. Requests get lost.  *)
(***************************************************************************)
EXTENDS Naturals, FiniteSets, Sequences

CONSTANTS
    BookRows,      \* rows the address book of the user may take
    LastCep,       \* complete codes are 1..LastCep; 0 is one not yet complete
    MaxEdits,      \* bound: what is typed into one form
    MaxErrands,    \* bound: requests that change the address book
    MaxVisits,     \* bound: visits of the address page of the sign-up
    MaxLookups     \* bound: its lookups on their way at once

ASSUME BookAssumption == LastCep \in Nat

VARIABLES
    book,          \* the addresses, as the backend has them
    cards,         \* the addresses that the page lists
    bookLoads,     \* lists on their way to the page
    dialog,        \* the drawer: open in the browser, open for its component,
                   \* and a close event that the browser has queued
    form,          \* the form in the drawer, or none
    lookups,       \* questions about a CEP that the form waits for
    errand,        \* the request that changes the address book
    requests       \* how many were made

bookVars == <<book, cards, bookLoads, dialog, form, lookups, errand, requests>>

VARIABLES
    objects,       \* sign-up: the address objects that its pages made
    draft,         \* the draft: which of them it refers to, the street that was
                   \* there when it was saved, the steps done, the kind of account
    signPage,      \* the object of the open address page, 0 elsewhere
    cepAsked,      \* lookups on their way: for which object, which CEP
    posted,        \* registrations on their way
    account        \* none, made, or shown to its owner

signUpVars == <<objects, draft, signPage, cepAsked, posted, account>>

\* A street or a city is blank, of a CEP, or in the words of the user.
Ceps == 1 .. LastCep
Blank == 0
Own == LastCep + 1

\* The last code belongs to a whole city: its answer names no street.
StreetOf(cep) == IF cep = LastCep THEN Blank ELSE cep

Empty == [cep |-> 0, street |-> Blank, city |-> Blank, point |-> 0]

Saved(cep) == [cep |-> cep, street |-> cep, city |-> cep, point |-> cep]

Rows(list) == {r \in BookRows : list[r] # Empty}

NoForm == [row |-> 0, open |-> FALSE, data |-> Empty, last |-> 0, asked |-> FALSE,
           answered |-> FALSE, touched |-> {}, edits |-> 0]

NoErrand == [kind |-> "none", row |-> 0, data |-> Empty, state |-> "sent"]

saving == errand.kind # "none"

BookInit ==
    /\ book \in [BookRows -> {Empty, Saved(1)}]
    /\ cards = [r \in BookRows |-> Empty]
    /\ bookLoads = {book}
    /\ dialog = [shown |-> FALSE, isOpen |-> FALSE, closing |-> FALSE]
    /\ form = NoForm
    /\ lookups = {}
    /\ errand = NoErrand
    /\ requests = 0

-----------------------------------------------------------------------------
\* The list is what the backend had when it was asked for; it may come late.
loadAddresses == bookLoads' = bookLoads \cup {book}

ListArrives ==
    /\ \E list \in bookLoads :
         /\ cards' \in {list, cards}
         /\ bookLoads' = bookLoads \ {list}
    /\ UNCHANGED <<book, dialog, form, lookups, errand, requests>>

\* Drawer.open, unless the drawer takes itself to be open already.
DrawerOpened == IF dialog.isOpen THEN dialog
          ELSE [dialog EXCEPT !.shown = TRUE, !.isOpen = TRUE]

\* Every address has a form of its own, which starts from what the list shows.
openForm ==
    /\ ~saving /\ ~dialog.shown
    /\ \E r \in {0} \cup Rows(cards) :
         LET data == IF r = 0 THEN Empty ELSE cards[r] IN
         form' = [NoForm EXCEPT !.row = r, !.open = TRUE, !.data = data,
                                !.last = data.cep]
    /\ dialog' = DrawerOpened
    /\ lookups' = {}
    /\ UNCHANGED <<book, cards, bookLoads, errand, requests>>

\* Fault: the queued event is taken for one of the drawer that is open now.
shutAnyway(d) == ~d.isOpen

\* Drawer.onClose: the queued event may find the drawer opened again.
Shut(d) == ~d.isOpen \/ d.shown

\* Closed: the form goes, and its lookup with it.
onClose(d) ==
    IF Shut(d) THEN dialog' = d /\ UNCHANGED <<form, lookups>>
    ELSE /\ dialog' = [d EXCEPT !.isOpen = FALSE]
         /\ form' = NoForm
         /\ lookups' = {}

\* The cross, the backdrop, the cancel button: the component closes the drawer.
requestClose ==
    /\ dialog.shown /\ ~saving
    /\ onClose([dialog EXCEPT !.shown = FALSE, !.closing = TRUE])
    /\ UNCHANGED <<book, cards, bookLoads, errand, requests>>

\* Escape: the browser closes it and reports that later.
Escape ==
    /\ dialog.shown /\ ~saving
    /\ dialog' = [dialog EXCEPT !.shown = FALSE, !.closing = TRUE]
    /\ UNCHANGED <<book, cards, bookLoads, form, lookups, errand, requests>>

CloseEvent ==
    /\ dialog.closing
    /\ onClose([dialog EXCEPT !.closing = FALSE])
    /\ UNCHANGED <<book, cards, bookLoads, errand, requests>>

-----------------------------------------------------------------------------
Typing == dialog.shown /\ form.open /\ ~saving /\ form.edits < MaxEdits

\* The fields as they were when the question was asked go with it.
AskCep(cep, data) == [cep |-> cep, street |-> data.street, city |-> data.city]

\* Fault: a lookup that is no longer needed is left to answer.
askBeside(cep, data) ==
    lookups' = IF cep = 0 THEN lookups ELSE lookups \cup {AskCep(cep, data)}

\* A new code drops the lookup of the one before.
askAnew(cep, data) == lookups' = IF cep = 0 THEN {} ELSE {AskCep(cep, data)}

\* A complete code that is new forgets where the address is.
withCep(cep, data) ==
    IF cep = 0 THEN [data EXCEPT !.cep = 0]
    ELSE [data EXCEPT !.cep = cep, !.point = 0]

onCepChange ==
    /\ Typing
    /\ \E cep \in (0 .. LastCep) \ {form.last} :
         /\ form' = [form EXCEPT !.data = withCep(cep, @), !.last = cep,
                                 !.asked = cep # 0, !.answered = FALSE,
                                 !.touched = {}, !.edits = @ + 1]
         /\ askAnew(cep, form.data)
    /\ UNCHANGED <<book, cards, bookLoads, dialog, errand, requests>>

TypeField ==
    /\ Typing
    /\ \E words \in {Blank, Own} :
         \/ form' = [form EXCEPT !.data.street = words, !.edits = @ + 1,
                                 !.touched = @ \cup {"street"}]
         \/ form' = [form EXCEPT !.data.city = words, !.edits = @ + 1,
                                 !.touched = @ \cup {"city"}]
    /\ UNCHANGED <<book, cards, bookLoads, dialog, lookups, errand, requests>>

\* Only a field that still reads as it did when the CEP was asked for is filled.
filled(data, asked) ==
    [data EXCEPT
       !.street = IF data.street = asked.street THEN StreetOf(asked.cep) ELSE @,
       !.city = IF data.city = asked.city THEN asked.cep ELSE @]

CepAnswered ==
    /\ \E asked \in lookups :
         /\ lookups' = lookups \ {asked}
         /\ \/ form' = [form EXCEPT !.asked = FALSE, !.answered = TRUE,
                                    !.data = filled(@, asked)]
            \/ form' = [form EXCEPT !.asked = FALSE]
    /\ UNCHANGED <<book, cards, bookLoads, dialog, errand, requests>>

-----------------------------------------------------------------------------
\* Nothing is emitted while a lookup or a request runs, nor before the code is
\* complete and the required fields are filled.
createAddress ==
    /\ ~saving /\ ~form.asked
    /\ form.data.cep # 0 /\ form.data.street # Blank /\ form.data.city # Blank

save ==
    /\ dialog.shown /\ form.open /\ requests < MaxErrands
    /\ createAddress
    /\ errand' = [kind |-> IF form.row = 0 THEN "create" ELSE "update",
                  row |-> form.row, data |-> form.data, state |-> "sent"]
    /\ requests' = requests + 1
    /\ UNCHANGED <<book, cards, bookLoads, dialog, form, lookups>>

\* A card asks for its removal, and the page for a confirmation.
remove ==
    /\ ~saving /\ ~dialog.shown /\ requests < MaxErrands
    /\ \E r \in Rows(cards) :
         errand' = [kind |-> "remove", row |-> r, data |-> Empty, state |-> "sent"]
    /\ requests' = requests + 1
    /\ UNCHANGED <<book, cards, bookLoads, dialog, form, lookups>>

\* An address of the user that is there is written or removed; a new one takes
\* a row; and the request may be lost before it arrives.
ServeErrand ==
    /\ saving /\ errand.state = "sent"
    /\ \/ /\ errand.kind = "create"
          /\ \E r \in BookRows \ Rows(book) : book' = [book EXCEPT ![r] = errand.data]
          /\ errand' = [errand EXCEPT !.state = "done"]
       \/ /\ errand.row \in Rows(book)
          /\ book' = [book EXCEPT ![errand.row] = errand.data]
          /\ errand' = [errand EXCEPT !.state = "done"]
       \/ /\ errand' = [errand EXCEPT !.state = "failed"]
          /\ UNCHANGED book
    /\ UNCHANGED <<cards, bookLoads, dialog, form, lookups, requests>>

\* Another device of the user removes an address.
RemovedElsewhere ==
    /\ \E r \in Rows(book) : book' = [book EXCEPT ![r] = Empty]
    /\ UNCHANGED <<cards, bookLoads, dialog, form, lookups, errand, requests>>

\* Done: the drawer closes, and the list is asked for. An answer that is lost
\* looks like a failure, and the form stays.
ErrandAnswered ==
    /\ saving /\ errand.state # "sent"
    /\ errand' = NoErrand
    /\ \/ /\ errand.state = "done"
          /\ loadAddresses
          /\ IF errand.kind = "remove" THEN UNCHANGED <<dialog, form, lookups>>
             ELSE onClose([dialog EXCEPT !.shown = FALSE, !.closing = TRUE])
       \/ UNCHANGED <<bookLoads, dialog, form, lookups>>
    /\ UNCHANGED <<book, cards, requests>>

BookNext ==
    \/ ListArrives \/ openForm \/ requestClose \/ Escape \/ CloseEvent
    \/ onCepChange \/ TypeField \/ CepAnswered \/ save \/ remove
    \/ ServeErrand \/ RemovedElsewhere \/ ErrandAnswered

-----------------------------------------------------------------------------
\* The sign-up: the draft outlives the pages, which are opened in any order.
SignUpInit ==
    /\ objects = <<Empty>>
    /\ draft = [address |-> 1, kept |-> Blank, steps |-> {}, role |-> "customer"]
    /\ signPage = 0
    /\ cepAsked = {}
    /\ posted = {}
    /\ account = "none"

Registering == signPage = 0 /\ account # "shown"

\* The page of a step saves what it has into the draft.
Done(step) == [draft EXCEPT !.steps = @ \cup {step}]

saveProfile ==
    /\ Registering
    /\ draft' = Done("profile")
    /\ UNCHANGED <<objects, signPage, cepAsked, posted, account>>

saveSocial ==
    /\ Registering
    /\ draft' = Done("contact")
    /\ UNCHANGED <<objects, signPage, cepAsked, posted, account>>

\* Only somebody who offers services is shown the way to them.
addServiceSelected ==
    /\ Registering /\ draft.role = "provider"
    /\ draft' = Done("service")
    /\ UNCHANGED <<objects, signPage, cepAsked, posted, account>>

changeTheme ==
    /\ Registering
    /\ \E role \in {"customer", "provider"} : draft' = [draft EXCEPT !.role = role]
    /\ UNCHANGED <<objects, signPage, cepAsked, posted, account>>

\* Fault: the page works on the object of the draft itself.
sharedVisit == [objects |-> objects, page |-> draft.address]

\* Every visit of the address page works on a copy of the draft's address.
Visit == [objects |-> Append(objects, objects[draft.address]),
          page |-> Len(objects) + 1]

openAddress ==
    /\ Registering /\ Len(objects) <= MaxVisits
    /\ objects' = Visit.objects
    /\ signPage' = Visit.page
    /\ UNCHANGED <<draft, cepAsked, posted, account>>

TypeStreet ==
    /\ signPage # 0
    /\ objects' = [objects EXCEPT ![signPage].street = Own]
    /\ UNCHANGED <<draft, signPage, cepAsked, posted, account>>

\* A code is entered and looked up; earlier questions are not withdrawn.
getAddressByZipCode ==
    /\ signPage # 0 /\ Cardinality(cepAsked) < MaxLookups
    /\ \E cep \in Ceps \ {objects[signPage].cep} :
         /\ objects' = [objects EXCEPT ![signPage].cep = cep]
         /\ cepAsked' = cepAsked \cup {[object |-> signPage, cep |-> cep]}
    /\ UNCHANGED <<draft, signPage, posted, account>>

\* An answer of either source counts if it has a point.
located(address, cep) ==
    [address EXCEPT !.street = StreetOf(cep), !.city = cep, !.point = cep]

\* Without a point in both, like after an error, there is nothing to take.
getLatLngByCep(address, cep) == {located(address, cep), address}

\* The answer goes into the object that the page had, which by now may be the
\* draft's, or nobody's.
LocationArrives ==
    /\ \E asked \in cepAsked :
         /\ cepAsked' = cepAsked \ {asked}
         /\ \E address \in getLatLngByCep(objects[asked.object], asked.cep) :
              objects' = [objects EXCEPT ![asked.object] = address]
    /\ UNCHANGED <<draft, signPage, posted, account>>

\* The draft takes the object of the page, once the required fields are there.
saveAddress ==
    /\ signPage # 0
    /\ objects[signPage].cep # 0 /\ objects[signPage].street # Blank
    /\ draft' = [Done("address") EXCEPT !.address = signPage,
                                        !.kept = objects[signPage].street]
    /\ signPage' = 0
    /\ UNCHANGED <<objects, cepAsked, posted, account>>

GoBack ==
    /\ signPage # 0
    /\ signPage' = 0
    /\ UNCHANGED <<draft, objects, cepAsked, posted, account>>

Required(role) == {"profile", "contact", "address"} \cup
                  (IF role = "provider" THEN {"service"} ELSE {})

\* The button waits for every step that is shown, not for an answer on its way.
registerUser ==
    /\ Registering
    /\ Required(draft.role) \subseteq draft.steps
    /\ posted' = posted \cup {[address |-> objects[draft.address], kept |-> draft.kept]}
    /\ UNCHANGED <<draft, objects, signPage, cepAsked, account>>

\* One account per e-mail address; the page shows what it is told first.
RegisterAnswered ==
    /\ \E body \in posted :
         /\ posted' = posted \ {body}
         /\ account' \in {account, IF account = "none" THEN "made" ELSE account}
    /\ UNCHANGED <<draft, objects, signPage, cepAsked>>

\* The page that registered shows a modal, which takes the user home.
goToHome ==
    /\ account = "made" /\ signPage = 0
    /\ account' = "shown"
    /\ UNCHANGED <<draft, objects, signPage, cepAsked, posted>>

SignUpNext ==
    \/ saveProfile \/ saveSocial \/ addServiceSelected \/ changeTheme
    \/ openAddress \/ TypeStreet \/ getAddressByZipCode \/ LocationArrives
    \/ saveAddress \/ GoBack \/ registerUser \/ RegisterAnswered \/ goToHome

AddressPagesSpec ==
    BookInit /\ SignUpInit /\
    [][(BookNext /\ UNCHANGED signUpVars) \/ (SignUpNext /\ UNCHANGED bookVars)]_
        <<bookVars, signUpVars>>

-----------------------------------------------------------------------------
\* Once the lookup of the code in the form has answered, street and city are
\* those of that code, unless the user typed them since it was asked for: no
\* answer to an earlier code, however late, shows up beside a later one.
LookupFillsItsCep ==
    form.open /\ form.answered =>
        /\ "street" \in form.touched \/ form.data.street = StreetOf(form.last)
        /\ "city" \in form.touched \/ form.data.city = form.last

\* A drawer that is open has its form in it, also when the browser reports
\* that the drawer before was closed after this one was opened.
OpenDrawerHasItsForm == dialog.shown => dialog.isOpen /\ form.open

\* The drawer shows one address, its own: the form is there, and what a lookup
\* filled in belongs to the code that stands in it.
DrawerShowsItsAddress == OpenDrawerHasItsForm /\ LookupFillsItsCep

\* Words of the user are registered if they were on the address page when it
\* was saved: what was typed and left unsaved stays out of the account.
RegisteredWordsWereSaved ==
    \A body \in posted : body.address.street = Own => body.kept = Own

=============================================================================
