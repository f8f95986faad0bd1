------------------------------- MODULE Booking -------------------------------
(***************************************************************************)
(* Booking an appointment with one provider. A booking is a READ COMMITTED *)
(* transaction of several statements: it reads the service, takes the      *)
(* provider's advisory lock, reads the availability, then the orders that  *)
(* occupy the day, and creates the order. Meanwhile the provider edits the *)
(* services, operators decide about the provider, and orders end. No       *)
(* statement touches the rows of two providers.                            *)
(***************************************************************************)
EXTENDS Availability, ProviderReview

CONSTANTS
    Requests,         \* bookings that may be in flight, and their orders
    Editors,          \* requests of the provider that may be in flight
    Services,         \* services of the provider, existing or to be created
    Availabilities,   \* availabilities the provider may publish
    Times,            \* minutes clients may ask for
    EarlierOrders,    \* orders from before the column scheduled_end
    EarlierSlot,      \* what the row of each of these says
    Keep,             \* a column an update leaves as it is
    Nobody            \* holder of an advisory lock nobody holds

\* scheduledEnd of an order without one. No slot ends at 0.
NoEnd == 0

ASSUME TimesAssumption == Times \subseteq Nat

ASSUME NobodyAssumption == Nobody \notin Requests

ASSUME EarlierAssumption ==
    /\ EarlierOrders \cap Requests = {}
    /\ EarlierSlot \in [EarlierOrders ->
                          [service : Services, start : Nat, end : {NoEnd}]]
    /\ \A o, p \in EarlierOrders :
         EarlierSlot[o].start = EarlierSlot[p].start => o = p

VARIABLES
    services,     \* the provider's Service rows, status NONE without a row
    occupying,    \* orders in one of the statuses that take up the calendar
    slot,         \* service, scheduledFor and scheduledEnd of each order
    pc,           \* next statement of each booking
    bookable,     \* what it read of service and provider in the first one
    offered,      \* the slots it found in the availability
    bookingLock,  \* holder of pg_advisory_xact_lock(providerId)
    edit          \* the write each request of the provider is about to make

bookingVars == <<services, occupying, slot, pc, bookable, offered,
                 bookingLock, edit>>
vars == <<bookingVars, reviewVars>>

Orders == Requests \cup EarlierOrders

Slot == [start : Nat, end : Nat]

ServiceStatus == {"ATIVO", "INATIVO"}

Service == [status : ServiceStatus \cup {"NONE"},
            availability : Availabilities]

Patch == [service : Services, status : ServiceStatus \cup {Keep},
          availability : Availabilities \cup {Keep}]

\* A booking that has not begun.
NoSlot == [service |-> Keep, start |-> 0, end |-> NoEnd]

NoEdit == [service |-> Keep, status |-> Keep, availability |-> Keep]

BookingInit ==
    /\ services \in [Services -> Service]
    /\ \A s \in Services : services[s].status # "ATIVO"
    /\ occupying = EarlierOrders
    /\ slot = [o \in Orders |-> IF o \in EarlierOrders THEN EarlierSlot[o]
                                ELSE NoSlot]
    /\ pc = [r \in Requests |-> "idle"]
    /\ bookable = [r \in Requests |-> FALSE]
    /\ offered = [r \in Requests |-> {}]
    /\ bookingLock = Nobody
    /\ edit = [e \in Editors |-> NoEdit]

Init == BookingInit /\ ReviewInit

----------------------------------------------------------------------------
(* The booking. *)

rows == <<services, occupying, edit>>

\* The transaction begins: it reads the service and the provider.
ReadService(r) ==
    /\ pc[r] = "idle"
    /\ \E s \in Services, time \in Times :
         /\ services[s].status # "NONE"
         /\ slot' = [slot EXCEPT ![r] = [service |-> s, start |-> time,
                                         end |-> NoEnd]]
         /\ bookable' = [bookable EXCEPT ![r] =
              services[s].status = "ATIVO" /\ providerStatus = "APPROVED"]
    /\ pc' = [pc EXCEPT ![r] = "lock"]
    /\ UNCHANGED <<rows, offered, bookingLock, reviewVars>>

\* Fault: the lock belongs to the statement, not to the transaction.
LockProviderBriefly(r) ==
    /\ pc[r] = "lock"
    /\ bookable[r]
    /\ bookingLock = Nobody
    /\ pc' = [pc EXCEPT ![r] = "availability"]
    /\ bookable' = [bookable EXCEPT ![r] = FALSE]
    /\ UNCHANGED <<rows, slot, offered, bookingLock, reviewVars>>

\* The advisory lock, and the check of what was read before it.
LockProvider(r) ==
    /\ pc[r] = "lock"
    /\ bookable[r]
    /\ bookingLock = Nobody
    /\ bookingLock' = r
    /\ pc' = [pc EXCEPT ![r] = "availability"]
    /\ bookable' = [bookable EXCEPT ![r] = FALSE]
    /\ UNCHANGED <<rows, slot, offered, reviewVars>>

\* getAvailability, first query: the service if it is active and its provider
\* approved, for the day of the appointment.
candidates(r) ==
    LET s == slot[r].service
    IN IF services[s].status = "ATIVO" /\ providerStatus = "APPROVED"
       THEN SlotsForService(DayOf(slot[r].start), services[s].availability)
       ELSE {}

ReadAvailability(r) ==
    /\ pc[r] = "availability"
    /\ offered' = [offered EXCEPT ![r] =
         {c \in candidates(r) : c.start = slot[r].start}]
    /\ offered'[r] # {}
    /\ pc' = [pc EXCEPT ![r] = "conflicts"]
    /\ UNCHANGED <<rows, slot, bookable, bookingLock, reviewVars>>

\* The end of an order. Without a recorded one it is that of the slot its
\* service has now at the time of the order, or else the end of the day.
bookedEnd(o) ==
    LET day == DayOf(slot[o].start)
        booked == {c \in SlotsForService(day,
                           services[slot[o].service].availability) :
                     c.start = slot[o].start}
    IN IF slot[o].end # NoEnd THEN slot[o].end
       ELSE IF booked # {} THEN (CHOOSE c \in booked : TRUE).end
       ELSE DayAfter(day)

\* Fault: the orders of the service, not of the provider.
conflictsOfService(r) ==
    {o \in occupying : /\ slot[o].service = slot[r].service
                       /\ DayOf(slot[o].start) = DayOf(slot[r].start)}

\* getAvailability, second query: the orders of the provider, for whatever
\* service, that occupy the day.
conflicts(r) ==
    {o \in occupying : DayOf(slot[o].start) = DayOf(slot[r].start)}

isFree(c, r) ==
    \A o \in conflicts(r) :
        ~(c.start < bookedEnd(o) /\ c.end > slot[o].start)

ReadConflicts(r) ==
    /\ pc[r] = "conflicts"
    /\ \E c \in offered[r] :
         /\ isFree(c, r)
         /\ slot' = [slot EXCEPT ![r].end = c.end]
    /\ pc' = [pc EXCEPT ![r] = "create"]
    /\ offered' = [offered EXCEPT ![r] = {}]
    /\ UNCHANGED <<rows, bookable, bookingLock, reviewVars>>

\* The order is inserted and the transaction commits, which frees the lock.
CreateOrder(r) ==
    /\ pc[r] = "create"
    /\ occupying' = occupying \cup {r}
    /\ pc' = [pc EXCEPT ![r] = "done"]
    /\ bookingLock' = Nobody
    /\ UNCHANGED <<services, edit, slot, bookable, offered, reviewVars>>

\* A check fails, that of the address, its coverage or the slot among them,
\* or the process dies: nothing is booked and the client may ask again.
Refuse(r) ==
    /\ pc[r] \in {"lock", "availability", "conflicts", "create"}
    /\ pc' = [pc EXCEPT ![r] = "idle"]
    /\ slot' = [slot EXCEPT ![r] = NoSlot]
    /\ bookable' = [bookable EXCEPT ![r] = FALSE]
    /\ offered' = [offered EXCEPT ![r] = {}]
    /\ bookingLock' = IF bookingLock = r THEN Nobody ELSE bookingLock
    /\ UNCHANGED <<rows, reviewVars>>

\* The order is concluded, cancelled or expires: its time is free again. No
\* status the calendar counts follows one it does not count.
EndOrder(o) ==
    /\ o \in occupying
    /\ occupying' = occupying \ {o}
    /\ UNCHANGED <<services, edit, slot, pc, bookable, offered, bookingLock,
                   reviewVars>>

----------------------------------------------------------------------------
(* The provider's services. *)

\* Fault: the status is overwritten although the request leaves it out.
patchedStatus(row, patch) ==
    [status |-> patch.status,
     availability |-> IF patch.availability = Keep THEN row.availability
                      ELSE patch.availability]

patched(row, patch) ==
    [status |-> IF patch.status = Keep THEN row.status ELSE patch.status,
     availability |-> IF patch.availability = Keep THEN row.availability
                      ELSE patch.availability]

\* Only a service that is offered needs a valid availability.
accepted(row) == row.status = "ATIVO" => ValidAvailability(row.availability)

bookings == <<occupying, slot, pc, bookable, offered, bookingLock>>

\* create and update up to their write: the row as it would be now is valid.
\* A new service has a name of its own and comes with all its columns.
ValidateService(e) ==
    /\ edit[e] = NoEdit
    /\ providerStatus # "BLOCKED"
    /\ \E patch \in Patch :
         LET row == services[patch.service] IN
         /\ row.status = "NONE" =>
              /\ Keep \notin {patch.status, patch.availability}
              /\ \A f \in Editors : edit[f].service # patch.service
         /\ accepted(patched(row, patch))
         /\ edit' = [edit EXCEPT ![e] = patch]
    /\ UNCHANGED <<services, bookings, reviewVars>>

\* The write itself sets the columns the request names, on no condition.
WriteService(e) ==
    LET s == edit[e].service IN
    /\ edit[e] # NoEdit
    /\ services' = [services EXCEPT ![s] = patched(services[s], edit[e])]
    /\ edit' = [edit EXCEPT ![e] = NoEdit]
    /\ UNCHANGED <<bookings, reviewVars>>

DropEdit(e) ==
    /\ edit[e] # NoEdit
    /\ edit' = [edit EXCEPT ![e] = NoEdit]
    /\ UNCHANGED <<services, bookings, reviewVars>>

RemoveService(s) ==
    /\ services[s].status # "NONE"
    /\ services' = [services EXCEPT ![s].status = "INATIVO"]
    /\ UNCHANGED <<edit, bookings, reviewVars>>

----------------------------------------------------------------------------
BookingStep(r) ==
    \/ ReadService(r) \/ LockProvider(r) \/ ReadAvailability(r)
    \/ ReadConflicts(r) \/ CreateOrder(r) \/ Refuse(r)

EditStep(e) == ValidateService(e) \/ WriteService(e) \/ DropEdit(e)

Next ==
    \/ \E r \in Requests : BookingStep(r)
    \/ \E o \in Orders : EndOrder(o)
    \/ \E e \in Editors : EditStep(e)
    \/ \E s \in Services : RemoveService(s)
    \/ ReviewNext /\ UNCHANGED bookingVars

Spec == Init /\ [][Next]_vars

----------------------------------------------------------------------------
BookingSteps == {"idle", "lock", "availability", "conflicts", "create", "done"}

BookingTypeOK ==
    /\ services \in [Services -> Service]
    /\ occupying \subseteq Orders
    /\ slot \in [Orders -> [service : Services \cup {Keep},
                           start : Nat, end : Nat]]
    /\ pc \in [Requests -> BookingSteps]
    /\ bookable \in [Requests -> BOOLEAN]
    /\ offered \in [Requests -> SUBSET Slot]
    /\ bookingLock \in Requests \cup {Nobody}
    /\ edit \in [Editors -> Patch \cup {NoEdit}]

\* An order takes up its interval; without a recorded end, at least its start.
knownEnd(o) == IF slot[o].end = NoEnd THEN slot[o].start + 1 ELSE slot[o].end

apart(o, p) == knownEnd(o) <= slot[p].start \/ knownEnd(p) <= slot[o].start

\* No provider is expected in two places: orders that take up the calendar do
\* not overlap, whatever their services, although the bookings overlapped and
\* the availability was edited in between.
NoDoubleBooking ==
    \A o, p \in occupying : o # p => apart(o, p)

\* The appointment of an order.
appointment(o) == [order |-> o, start |-> slot[o].start, end |-> knownEnd(o)]

madeOrders == EarlierOrders \cup {r \in Requests : pc[r] = "done"}

Agenda == INSTANCE Calendar WITH
    appointments <- {appointment(o) : o \in occupying}, made <- madeOrders

\* The statements of all bookings together make one appointment at a time, and
\* none moves: what other bookings, edits and decisions do between them is not
\* seen (create-order.handler.ts:55).
CalendarKept == Agenda!CalendarSpec

\* What is offered was validated. Two updates of one service, each valid with
\* what the other one replaces, break this.
OffersAreValid ==
    \A s \in Services : accepted(services[s])

----------------------------------------------------------------------------
(* What a booking relies on between its statements. *)

\* Whoever holds the lock is past taking it, and the other way round.
LockInv ==
    \A r \in Requests :
        pc[r] \in {"availability", "conflicts", "create"} <=> bookingLock = r

\* Slots lie within their day, so that no order of another day is in the way.
WithinDay(start, end) == start < end /\ end <= DayAfter(DayOf(start))

OfferedInv ==
    \A r \in Requests : \A c \in offered[r] :
        /\ pc[r] = "conflicts"
        /\ c.start = slot[r].start
        /\ WithinDay(c.start, c.end)

\* An order that is about to be created is in nobody's way, and will not be:
\* orders are only added by the holder of the lock.
CreateInv ==
    \A r \in Requests : pc[r] = "create" =>
        /\ WithinDay(slot[r].start, knownEnd(r))
        /\ \A o \in occupying : apart(o, r)

OccupyingInv ==
    /\ \A r \in Requests : r \in occupying => pc[r] = "done"
    /\ \A o \in occupying : /\ slot[o].service \in Services
                             /\ WithinDay(slot[o].start, knownEnd(o))

AskedInv ==
    \A r \in Requests : pc[r] # "idle" => slot[r].service \in Services

\* Inductive: with NoDoubleBooking, what every statement preserves.
BookingIInv ==
    /\ BookingTypeOK /\ LockInv /\ OfferedInv /\ CreateInv
    /\ OccupyingInv /\ AskedInv /\ NoDoubleBooking

=============================================================================
