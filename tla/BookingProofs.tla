---------------------------- MODULE BookingProofs ----------------------------
(***************************************************************************)
(* The calendar of a provider holds no two appointments at once, for any   *)
(* number of bookings, services and edits and for any availability, be it  *)
(* validated or not. The lock is what the proof rests on: the orders a     *)
(* booking has compared its slot with are those there are when it creates  *)
(* its own, since all others wait for the lock; and slots end with their   *)
(* day, so that the orders of one day are all it has to compare with. All  *)
(* bookings together implement Calendar.                                   *)
(***************************************************************************)
EXTENDS Booking, TLAPS

USE DayLengthAssumption

----------------------------------------------------------------------------
(* Days. *)

\* Every minute lies in its day.
LEMMA DayBounds ==
    ASSUME NEW t \in Nat
    PROVE  /\ DayOf(t) \in Nat
           /\ StartOfDay(DayOf(t)) \in Nat
           /\ DayAfter(DayOf(t)) \in Nat
           /\ StartOfDay(DayOf(t)) <= t
           /\ t + 1 <= DayAfter(DayOf(t))
  BY SMT DEF DayOf, StartOfDay, DayAfter

\* A later day begins when an earlier one is over.
LEMMA DayOrder ==
    ASSUME NEW d \in Nat, NEW e \in Nat, d < e
    PROVE  DayAfter(d) <= StartOfDay(e)
<1>1. PICK k \in Nat : e = d + 1 + k
  <2>1. e - d - 1 \in Nat
    BY SMT
  <2> QED
    BY <2>1, SMT
<1>2. e * DayLength = (d + 1) * DayLength + k * DayLength
  BY <1>1, SMT
<1>3. k * DayLength \in Nat /\ (d + 1) * DayLength \in Nat
  BY <1>1, SMT
<1> QED
  BY <1>2, <1>3, SMT DEF DayAfter, StartOfDay

\* What lies within different days does not overlap.
LEMMA OtherDays ==
    ASSUME NEW s \in Nat, NEW t \in Nat, NEW e \in Nat, NEW f \in Nat,
           WithinDay(s, e), WithinDay(t, f), DayOf(s) # DayOf(t)
    PROVE  e <= t \/ f <= s
<1>1. /\ DayOf(s) \in Nat /\ DayOf(t) \in Nat
      /\ StartOfDay(DayOf(s)) \in Nat /\ StartOfDay(DayOf(t)) \in Nat
      /\ DayAfter(DayOf(s)) \in Nat /\ DayAfter(DayOf(t)) \in Nat
      /\ StartOfDay(DayOf(s)) <= s /\ StartOfDay(DayOf(t)) <= t
  BY DayBounds
<1>2. CASE DayOf(s) < DayOf(t)
  <2>1. DayAfter(DayOf(s)) <= StartOfDay(DayOf(t))
    BY <1>1, <1>2, DayOrder
  <2> QED
    BY <1>1, <2>1, SMT DEF WithinDay
<1>3. CASE DayOf(t) < DayOf(s)
  <2>1. DayAfter(DayOf(t)) <= StartOfDay(DayOf(s))
    BY <1>1, <1>3, DayOrder
  <2> QED
    BY <1>1, <2>1, SMT DEF WithinDay
<1> QED
  BY <1>1, <1>2, <1>3, SMT

\* Whatever the availability says, a slot of a day lies within that day.
LEMMA SlotWithinDay ==
    ASSUME NEW day \in Nat, NEW availability,
           NEW c \in SlotsForService(day, availability)
    PROVE  /\ c \in Slot
           /\ c.start < c.end
           /\ c.end <= DayAfter(day)
<1>1. PICK w : c \in SlotsForWindow(day, w)
  BY DEF SlotsForService
<1> DEFINE minutes == IF w.slotMinutes = Unset THEN DefaultSlot
                      ELSE w.slotMinutes
<1>2. /\ w.end \in 0 .. (DayLength - 1)
      /\ w.start \in 0 .. (DayLength - 1)
      /\ minutes \in 1 .. DayLength
      /\ \E cursor \in w.start .. w.end :
            /\ cursor + minutes <= w.end
            /\ c = [start |-> StartOfDay(day) + cursor,
                    end   |-> StartOfDay(day) + cursor + minutes]
  BY <1>1, Zenon DEF SlotsForWindow, IsTime
<1> HIDE DEF minutes
<1>3. StartOfDay(day) \in Nat /\ DayAfter(day) = StartOfDay(day) + DayLength
  BY SMT DEF StartOfDay, DayAfter
<1>4. PICK cursor \in w.start .. w.end :
            /\ cursor + minutes <= w.end
            /\ c = [start |-> StartOfDay(day) + cursor,
                    end   |-> StartOfDay(day) + cursor + minutes]
  BY <1>2
<1> QED
  BY <1>2, <1>3, <1>4, SMT DEF Slot

----------------------------------------------------------------------------
(* Ends of orders. *)

\* The end the calendar counts with is never before the one that is known.
LEMMA BookedEnd ==
    ASSUME BookingTypeOK, OccupyingInv, NEW o \in occupying
    PROVE  /\ bookedEnd(o) \in Nat
           /\ knownEnd(o) \in Nat
           /\ knownEnd(o) <= bookedEnd(o)
<1> DEFINE day == DayOf(slot[o].start)
           booked == {c \in SlotsForService(day,
                          services[slot[o].service].availability) :
                        c.start = slot[o].start}
<1>1. slot[o].start \in Nat /\ slot[o].end \in Nat
  BY DEF BookingTypeOK
<1>2. /\ day \in Nat /\ DayAfter(day) \in Nat
      /\ slot[o].start + 1 <= DayAfter(day)
  BY <1>1, DayBounds
<1>3. CASE slot[o].end # NoEnd
  BY <1>1, <1>3, SMT DEF bookedEnd, knownEnd
<1>4. CASE slot[o].end = NoEnd /\ booked # {}
  <2> DEFINE c == CHOOSE c \in booked : TRUE
  <2>1. c \in booked
    BY <1>4
  <2>2. c \in Slot /\ c.start < c.end /\ c.start = slot[o].start
    BY <1>2, <2>1, SlotWithinDay
  <2>3. bookedEnd(o) = c.end /\ knownEnd(o) = slot[o].start + 1
    BY <1>4, Zenon DEF bookedEnd, knownEnd
  <2> HIDE DEF c, booked, day
  <2> QED
    BY <1>1, <2>2, <2>3, SMT DEF Slot
<1>5. CASE slot[o].end = NoEnd /\ booked = {}
  <2>1. bookedEnd(o) = DayAfter(day) /\ knownEnd(o) = slot[o].start + 1
    BY <1>5, Zenon DEF bookedEnd, knownEnd
  <2> HIDE DEF booked, day
  <2> QED
    BY <1>1, <1>2, <2>1, SMT
<1> QED
  BY <1>3, <1>4, <1>5, Zenon

\* A slot that is free among the orders of its day is apart from every order.
LEMMA FreeSlotIsApart ==
    ASSUME BookingTypeOK, OccupyingInv, NEW r \in Requests, NEW c \in Slot,
           WithinDay(c.start, c.end), c.start = slot[r].start, isFree(c, r),
           NEW o \in occupying
    PROVE  c.end <= slot[o].start \/ knownEnd(o) <= c.start
<1>1. /\ c.start \in Nat /\ c.end \in Nat
      /\ slot[o].start \in Nat
      /\ WithinDay(slot[o].start, knownEnd(o))
  BY Zenon DEF Slot, BookingTypeOK, OccupyingInv
<1>2. /\ bookedEnd(o) \in Nat
      /\ knownEnd(o) \in Nat
      /\ knownEnd(o) <= bookedEnd(o)
  BY BookedEnd
<1>3. CASE DayOf(slot[o].start) = DayOf(c.start)
  <2>1. ~(c.start < bookedEnd(o) /\ c.end > slot[o].start)
    BY <1>3 DEF isFree, conflicts
  <2> QED
    BY <1>1, <1>2, <2>1, SMT
<1>4. CASE DayOf(slot[o].start) # DayOf(c.start)
  BY <1>1, <1>2, <1>4, OtherDays
<1> QED
  BY <1>3, <1>4

----------------------------------------------------------------------------
(* The statements. *)

\* A booking begins.
LEMMA ReadServiceKeeps ==
    ASSUME BookingIInv, NEW r \in Requests, ReadService(r)
    PROVE  BookingIInv'
<1> USE DEF BookingIInv
<1>1. BookingTypeOK'
  BY TimesAssumption DEF BookingTypeOK, Orders, NoEnd, BookingSteps,
     ReadService, rows
<1>2. LockInv'
  BY DEF LockInv, ReadService
<1>3. OfferedInv'
  BY DEF OfferedInv, ReadService
<1>4. CreateInv'
  BY DEF CreateInv, apart, knownEnd, OccupyingInv, ReadService, rows
<1>5. OccupyingInv'
  BY DEF OccupyingInv, knownEnd, ReadService, rows
<1>6. AskedInv'
  BY DEF AskedInv, BookingTypeOK, Orders, ReadService
<1>7. NoDoubleBooking'
  BY DEF NoDoubleBooking, apart, knownEnd, OccupyingInv, ReadService, rows
<1> QED
  BY <1>1, <1>2, <1>3, <1>4, <1>5, <1>6, <1>7

\* The lock is taken by one booking at a time.
LEMMA LockProviderKeeps ==
    ASSUME BookingIInv, NEW r \in Requests, LockProvider(r)
    PROVE  BookingIInv'
<1> USE DEF BookingIInv
<1>1. BookingTypeOK'
  BY DEF BookingTypeOK, BookingSteps, LockProvider, rows
<1>2. LockInv'
  BY NobodyAssumption DEF LockInv, BookingTypeOK, LockProvider
<1>3. OfferedInv'
  BY DEF OfferedInv, LockProvider
<1>4. CreateInv'
  BY DEF CreateInv, apart, knownEnd, LockProvider, rows
<1>5. OccupyingInv'
  BY DEF OccupyingInv, knownEnd, LockProvider, rows
<1>6. AskedInv'
  BY DEF AskedInv, LockProvider
<1>7. NoDoubleBooking'
  BY DEF NoDoubleBooking, apart, knownEnd, LockProvider, rows
<1> QED
  BY <1>1, <1>2, <1>3, <1>4, <1>5, <1>6, <1>7

\* What is offered are slots of the day that was asked for.
LEMMA ReadAvailabilityKeeps ==
    ASSUME BookingIInv, NEW r \in Requests, ReadAvailability(r)
    PROVE  BookingIInv'
<1> USE DEF BookingIInv
<1>a. \A c \in candidates(r) : /\ c \in Slot
                               /\ c.start < c.end
                               /\ c.end <= DayAfter(DayOf(slot[r].start))
  <2>1. slot[r].start \in Nat
    BY DEF BookingTypeOK, Orders
  <2>2. DayOf(slot[r].start) \in Nat
    BY <2>1, DayBounds
  <2> QED
    BY <2>2, SlotWithinDay DEF candidates
<1>1. BookingTypeOK'
  <2>1. offered' \in [Requests -> SUBSET Slot]
    BY <1>a DEF BookingTypeOK, ReadAvailability
  <2>2. pc' \in [Requests -> BookingSteps]
    BY DEF BookingTypeOK, BookingSteps, ReadAvailability
  <2> QED
    BY <2>1, <2>2 DEF BookingTypeOK, ReadAvailability, rows
<1>2. LockInv'
  BY DEF LockInv, ReadAvailability
<1>3. OfferedInv'
  <2> SUFFICES ASSUME NEW q \in Requests, NEW c \in offered'[q]
               PROVE  /\ pc'[q] = "conflicts"
                      /\ c.start = slot[q].start
                      /\ WithinDay(c.start, c.end)
    BY DEF OfferedInv, ReadAvailability
  <2>1. CASE q = r
    <3>1. c \in candidates(r) /\ c.start = slot[r].start
      BY <2>1 DEF BookingTypeOK, ReadAvailability
    <3>2. pc'[r] = "conflicts"
      BY DEF BookingTypeOK, ReadAvailability
    <3> QED
      BY <1>a, <2>1, <3>1, <3>2 DEF WithinDay
  <2>2. CASE q # r
    BY <2>2 DEF OfferedInv, ReadAvailability
  <2> QED
    BY <2>1, <2>2
<1>4. CreateInv'
  BY DEF CreateInv, LockInv, ReadAvailability
<1>5. OccupyingInv'
  BY DEF OccupyingInv, knownEnd, ReadAvailability, rows
<1>6. AskedInv'
  BY DEF AskedInv, ReadAvailability
<1>7. NoDoubleBooking'
  BY DEF NoDoubleBooking, apart, knownEnd, ReadAvailability, rows
<1> QED
  BY <1>1, <1>2, <1>3, <1>4, <1>5, <1>6, <1>7

\* The slot that is found is apart from all orders there are.
LEMMA ReadConflictsKeeps ==
    ASSUME BookingIInv, NEW r \in Requests, ReadConflicts(r)
    PROVE  BookingIInv'
<1> USE DEF BookingIInv
<1>a. PICK c \in offered[r] :
        /\ c \in Slot /\ c.start = slot[r].start /\ WithinDay(c.start, c.end)
        /\ isFree(c, r)
        /\ slot' = [slot EXCEPT ![r].end = c.end]
  BY DEF ReadConflicts, OfferedInv, BookingTypeOK
<1>1. BookingTypeOK'
  <2>1. slot' \in [Orders -> [service : Services \cup {Keep}, start : Nat,
                              end : Nat]]
    BY <1>a DEF BookingTypeOK, Orders, Slot
  <2>2. /\ pc' \in [Requests -> BookingSteps]
        /\ offered' \in [Requests -> SUBSET Slot]
    BY DEF BookingTypeOK, BookingSteps, ReadConflicts
  <2> QED
    BY <2>1, <2>2 DEF BookingTypeOK, ReadConflicts, rows
<1>2. LockInv'
  BY DEF LockInv, ReadConflicts
<1>3. OfferedInv'
  BY DEF OfferedInv, BookingTypeOK, ReadConflicts
<1>4. CreateInv'
  <2> SUFFICES ASSUME NEW q \in Requests, pc'[q] = "create"
               PROVE  /\ WithinDay(slot'[q].start, knownEnd(q)')
                      /\ \A o \in occupying : apart(o, q)'
    BY DEF CreateInv, ReadConflicts, rows
  <2>1. q = r
    BY DEF LockInv, ReadConflicts
  <2>2. slot'[r].start = c.start /\ slot'[r].end = c.end /\ c.end # NoEnd
    BY <1>a DEF BookingTypeOK, Orders, WithinDay, NoEnd
  <2>3. \A o \in occupying : slot'[o] = slot[o]
    BY DEF BookingTypeOK, OccupyingInv, ReadConflicts
  <2>4. knownEnd(r)' = c.end /\ \A o \in occupying : knownEnd(o)' = knownEnd(o)
    BY <2>2, <2>3 DEF knownEnd
  <2>5. \A o \in occupying : c.end <= slot[o].start \/ knownEnd(o) <= c.start
    BY <1>a, FreeSlotIsApart
  <2> QED
    BY <1>a, <2>1, <2>2, <2>3, <2>4, <2>5 DEF apart
<1>5. OccupyingInv'
  BY DEF OccupyingInv, knownEnd, ReadConflicts, rows
<1>6. AskedInv'
  BY DEF AskedInv, ReadConflicts
<1>7. NoDoubleBooking'
  BY DEF NoDoubleBooking, apart, knownEnd, OccupyingInv, ReadConflicts, rows
<1> QED
  BY <1>1, <1>2, <1>3, <1>4, <1>5, <1>6, <1>7

\* The order that is created is the one the lock protects.
LEMMA CreateOrderKeeps ==
    ASSUME BookingIInv, NEW r \in Requests, CreateOrder(r)
    PROVE  BookingIInv'
<1> USE DEF BookingIInv
<1>1. BookingTypeOK'
  BY DEF BookingTypeOK, Orders, BookingSteps, CreateOrder
<1>2. LockInv'
  BY NobodyAssumption DEF LockInv, BookingTypeOK, CreateOrder
<1>3. OfferedInv'
  BY DEF OfferedInv, CreateOrder
<1>4. CreateInv'
  BY DEF CreateInv, BookingTypeOK, LockInv, CreateOrder
<1>5. OccupyingInv'
  BY DEF OccupyingInv, knownEnd, BookingTypeOK, CreateInv, AskedInv,
     CreateOrder
<1>6. AskedInv'
  BY DEF AskedInv, CreateOrder
<1>7. NoDoubleBooking'
  BY DEF NoDoubleBooking, apart, knownEnd, CreateInv, CreateOrder
<1> QED
  BY <1>1, <1>2, <1>3, <1>4, <1>5, <1>6, <1>7

\* A booking that fails leaves nothing behind.
LEMMA RefuseKeeps ==
    ASSUME BookingIInv, NEW r \in Requests, Refuse(r)
    PROVE  BookingIInv'
<1> USE DEF BookingIInv
<1>1. BookingTypeOK'
  BY DEF BookingTypeOK, NoSlot, NoEnd, BookingSteps, Refuse, rows
<1>2. LockInv'
  BY NobodyAssumption DEF LockInv, BookingTypeOK, Refuse
<1>3. OfferedInv'
  BY DEF OfferedInv, BookingTypeOK, Refuse
<1>4. CreateInv'
  BY DEF CreateInv, apart, knownEnd, OccupyingInv, BookingTypeOK, Refuse, rows
<1>5. OccupyingInv'
  BY DEF OccupyingInv, knownEnd, Refuse, rows
<1>6. AskedInv'
  BY DEF AskedInv, BookingTypeOK, Refuse
<1>7. NoDoubleBooking'
  BY DEF NoDoubleBooking, apart, knownEnd, OccupyingInv, Refuse, rows
<1> QED
  BY <1>1, <1>2, <1>3, <1>4, <1>5, <1>6, <1>7

\* Orders that end get in nobody's way.
LEMMA EndOrderKeeps ==
    ASSUME BookingIInv, NEW o \in Orders, EndOrder(o)
    PROVE  BookingIInv'
<1> USE DEF BookingIInv
<1>1. BookingTypeOK'
  BY DEF BookingTypeOK, EndOrder
<1>2. LockInv'
  BY DEF LockInv, EndOrder
<1>3. OfferedInv'
  BY DEF OfferedInv, EndOrder
<1>4. CreateInv'
  BY DEF CreateInv, apart, knownEnd, EndOrder
<1>5. OccupyingInv'
  BY DEF OccupyingInv, knownEnd, EndOrder
<1>6. AskedInv'
  BY DEF AskedInv, EndOrder
<1>7. NoDoubleBooking'
  BY DEF NoDoubleBooking, apart, knownEnd, EndOrder
<1> QED
  BY <1>1, <1>2, <1>3, <1>4, <1>5, <1>6, <1>7

\* Nothing relies on what services say now.
LEMMA EditKeeps ==
    ASSUME BookingIInv, \/ \E e \in Editors : EditStep(e)
           \/ \E s \in Services : RemoveService(s)
    PROVE  BookingIInv'
<1> USE DEF BookingIInv
<1>1. BookingTypeOK'
  <2>1. CASE \E e \in Editors : ValidateService(e) \/ DropEdit(e)
    BY <2>1 DEF BookingTypeOK, ValidateService, DropEdit, bookings
  <2>2. CASE \E e \in Editors : WriteService(e)
    <3>1. PICK e \in Editors : WriteService(e)
      BY <2>2
    <3> DEFINE s == edit[e].service
    <3>2. edit[e] \in Patch
      BY <3>1 DEF BookingTypeOK, WriteService
    <3>3. s \in Services /\ services[s] \in Service
      BY <3>2 DEF BookingTypeOK, Patch
    <3>4. patched(services[s], edit[e]) \in Service
      BY <3>2, <3>3 DEF patched, Patch, Service
    <3>5. services' = [services EXCEPT ![s] = patched(services[s], edit[e])]
      BY <3>1 DEF WriteService
    <3> HIDE DEF s
    <3>6. services' \in [Services -> Service]
      BY <3>4, <3>5 DEF BookingTypeOK
    <3>7. edit' \in [Editors -> Patch \cup {NoEdit}]
      BY <3>1 DEF BookingTypeOK, WriteService
    <3> QED
      BY <3>1, <3>6 DEF BookingTypeOK, WriteService, bookings
  <2>3. CASE \E s \in Services : RemoveService(s)
    BY <2>3 DEF BookingTypeOK, Service, ServiceStatus, RemoveService, bookings
  <2> QED
    BY <2>1, <2>2, <2>3 DEF EditStep
<1>2. LockInv'
  BY DEF LockInv, EditStep, ValidateService, WriteService, DropEdit,
     RemoveService, bookings
<1>3. OfferedInv'
  BY DEF OfferedInv, EditStep, ValidateService, WriteService, DropEdit,
     RemoveService, bookings
<1>4. CreateInv'
  BY DEF CreateInv, apart, knownEnd, EditStep, ValidateService, WriteService,
     DropEdit, RemoveService, bookings
<1>5. OccupyingInv'
  BY DEF OccupyingInv, knownEnd, EditStep, ValidateService, WriteService,
     DropEdit, RemoveService, bookings
<1>6. AskedInv'
  BY DEF AskedInv, EditStep, ValidateService, WriteService, DropEdit,
     RemoveService, bookings
<1>7. NoDoubleBooking'
  BY DEF NoDoubleBooking, apart, knownEnd, EditStep, ValidateService,
     WriteService, DropEdit, RemoveService, bookings
<1> QED
  BY <1>1, <1>2, <1>3, <1>4, <1>5, <1>6, <1>7

\* Nor on what operators decide.
LEMMA ReviewKeeps ==
    ASSUME BookingIInv, UNCHANGED bookingVars
    PROVE  BookingIInv'
<1> USE DEF BookingIInv
<1>1. BookingTypeOK'
  BY DEF BookingTypeOK, bookingVars
<1>2. LockInv'
  BY DEF LockInv, bookingVars
<1>3. OfferedInv'
  BY DEF OfferedInv, bookingVars
<1>4. CreateInv'
  BY DEF CreateInv, apart, knownEnd, bookingVars
<1>5. OccupyingInv'
  BY DEF OccupyingInv, knownEnd, bookingVars
<1>6. AskedInv'
  BY DEF AskedInv, bookingVars
<1>7. NoDoubleBooking'
  BY DEF NoDoubleBooking, apart, knownEnd, bookingVars
<1> QED
  BY <1>1, <1>2, <1>3, <1>4, <1>5, <1>6, <1>7

----------------------------------------------------------------------------
(* The results. *)

\* Services are not offered yet, earlier orders do not overlap, and nobody is
\* booking.
LEMMA BookingInitIsGood == Init => BookingIInv
<1> SUFFICES ASSUME BookingInit PROVE BookingIInv
  BY DEF Init
<1> USE EarlierAssumption, NobodyAssumption
<1>1. BookingTypeOK
  BY DEF BookingInit, BookingTypeOK, Orders, NoSlot, NoEnd, BookingSteps
<1>2. LockInv /\ OfferedInv /\ CreateInv /\ AskedInv
  BY DEF BookingInit, LockInv, OfferedInv, CreateInv, AskedInv
<1>3. \A o \in occupying : /\ o \in EarlierOrders
                           /\ slot[o] = EarlierSlot[o]
                           /\ slot[o].service \in Services
                           /\ slot[o].start \in Nat
                           /\ knownEnd(o) = slot[o].start + 1
  BY DEF BookingInit, Orders, knownEnd
<1>4. OccupyingInv
  <2>1. \A o \in occupying : WithinDay(slot[o].start, knownEnd(o))
    BY <1>3, DayBounds DEF WithinDay
  <2> QED
    BY <1>3, <2>1 DEF OccupyingInv
<1>5. NoDoubleBooking
  <2>1. \A o, p \in occupying : o # p => slot[o].start # slot[p].start
    BY <1>3
  <2> QED
    BY <1>3, <2>1 DEF NoDoubleBooking, apart
<1> QED
  BY <1>1, <1>2, <1>4, <1>5 DEF BookingIInv

\* What bookings rely on between their statements is true in every reachable
\* state.
THEOREM BookingIInvHolds == Spec => []BookingIInv
<1>1. BookingIInv /\ [Next]_vars => BookingIInv'
  <2> SUFFICES ASSUME BookingIInv, [Next]_vars PROVE BookingIInv'
    OBVIOUS
  <2>1. CASE \E r \in Requests : BookingStep(r)
    BY <2>1, ReadServiceKeeps, LockProviderKeeps, ReadAvailabilityKeeps,
       ReadConflictsKeeps, CreateOrderKeeps, RefuseKeeps DEF BookingStep
  <2>2. CASE \E o \in Orders : EndOrder(o)
    BY <2>2, EndOrderKeeps
  <2>3. CASE \/ \E e \in Editors : EditStep(e)
             \/ \E s \in Services : RemoveService(s)
    BY <2>3, EditKeeps
  <2>4. CASE (ReviewNext /\ UNCHANGED bookingVars) \/ UNCHANGED vars
    <3>1. UNCHANGED bookingVars
      BY <2>4 DEF vars
    <3> QED
      BY <3>1, ReviewKeeps
  <2> QED
    BY <2>1, <2>2, <2>3, <2>4 DEF Next
<1> QED
  BY <1>1, BookingInitIsGood, PTL DEF Spec

\* Every row and booking holds values of its type.
THEOREM BookingTypeIsCorrect == Spec => []BookingTypeOK
<1>1. BookingIInv => BookingTypeOK
  BY DEF BookingIInv
<1> QED
  BY <1>1, BookingIInvHolds, PTL

\* No two orders that take up the provider's calendar overlap, whatever
\* bookings, edits of the availability and decisions interleave.
THEOREM AppointmentsDoNotOverlap == Spec => []NoDoubleBooking
<1>1. BookingIInv => NoDoubleBooking
  BY DEF BookingIInv
<1> QED
  BY <1>1, BookingIInvHolds, PTL

----------------------------------------------------------------------------
(* Booking implements Calendar: the creation of an order makes its         *)
(* appointment, its end releases it, and no other step is seen.            *)

seen == <<{appointment(o) : o \in occupying}, madeOrders>>

\* What leaves alone the orders that take up the calendar, their slots, and
\* the bookings that are done, is not seen.
LEMMA Unseen ==
    ASSUME UNCHANGED occupying, \A o \in occupying : slot'[o] = slot[o],
           \A r \in Requests : pc'[r] = "done" <=> pc[r] = "done"
    PROVE  UNCHANGED seen
<1>1. \A o \in occupying : appointment(o)' = appointment(o)
  BY DEF appointment, knownEnd
<1>2. madeOrders' = madeOrders
  BY DEF madeOrders
<1> QED
  BY <1>1, <1>2 DEF seen

\* Up to the creation of its order, a booking is nobody's business.
LEMMA PreparationIsUnseen ==
    ASSUME BookingIInv, NEW r \in Requests,
           \/ ReadService(r) \/ LockProvider(r) \/ ReadAvailability(r)
           \/ ReadConflicts(r) \/ Refuse(r)
    PROVE  UNCHANGED seen
<1>1. pc[r] # "done" /\ r \notin occupying
  BY DEF ReadService, LockProvider, ReadAvailability, ReadConflicts, Refuse,
         BookingIInv, OccupyingInv
<1>2. UNCHANGED occupying
  BY DEF ReadService, LockProvider, ReadAvailability, ReadConflicts, Refuse, rows
<1>3. \A o \in occupying : slot'[o] = slot[o]
  <2>1. slot \in [Orders -> [service : Services \cup {Keep}, start : Nat, end : Nat]]
        /\ occupying \subseteq Orders
    BY DEF BookingIInv, BookingTypeOK
  <2> QED
    BY <1>1, <2>1 DEF ReadService, LockProvider, ReadAvailability, ReadConflicts, Refuse
<1>4. \A q \in Requests : pc'[q] = "done" <=> pc[q] = "done"
  <2>1. pc \in [Requests -> BookingSteps]
    BY DEF BookingIInv, BookingTypeOK
  <2> QED
    BY <1>1, <2>1 DEF ReadService, LockProvider, ReadAvailability, ReadConflicts, Refuse
<1> QED
  BY <1>2, <1>3, <1>4, Unseen

\* The order that is created is apart from all others and has none before.
LEMMA CreationMakes ==
    ASSUME BookingIInv, NEW r \in Requests, CreateOrder(r)
    PROVE  Agenda!CalendarNext
<1> DEFINE a == appointment(r)
<1>1. /\ occupying' = occupying \cup {r} /\ UNCHANGED slot
      /\ pc[r] = "create" /\ pc' = [pc EXCEPT ![r] = "done"]
  BY DEF CreateOrder
<1>2. madeOrders' = madeOrders \cup {r} /\ r \notin madeOrders
  BY <1>1, EarlierAssumption DEF madeOrders, BookingIInv, BookingTypeOK
<1>3. \A o : appointment(o)' = appointment(o)
  BY <1>1 DEF appointment, knownEnd
<1>4. {appointment(o) : o \in occupying}' = {appointment(o) : o \in occupying} \cup {a}
  BY <1>1, <1>3
<1>5. a.order = r /\ a.start = slot[r].start /\ a.end = knownEnd(r)
  BY DEF appointment
<1>6. a.start < a.end
  BY <1>1, <1>5 DEF BookingIInv, CreateInv, WithinDay
<1>7. \A b \in {appointment(o) : o \in occupying} : Agenda!Apart(a, b)
  <2> SUFFICES ASSUME NEW o \in occupying PROVE Agenda!Apart(a, appointment(o))
    OBVIOUS
  <2>1. apart(o, r)
    BY <1>1 DEF BookingIInv, CreateInv
  <2> QED
    BY <1>5, <2>1 DEF apart, appointment, Agenda!Apart
<1>8. a \in {appointment(o) : o \in occupying}'
  BY <1>4
<1> HIDE DEF a
<1>9. Agenda!Make(a)
  BY <1>2, <1>4, <1>5, <1>6, <1>7 DEF Agenda!Make
<1> QED
  BY <1>8, <1>9 DEF Agenda!CalendarNext

LEMMA EndReleases ==
    ASSUME NEW o \in Orders, EndOrder(o)
    PROVE  Agenda!CalendarNext
<1>1. /\ o \in occupying /\ occupying' = occupying \ {o}
      /\ UNCHANGED <<slot, pc>>
  BY DEF EndOrder
<1>2. \A p : appointment(p)' = appointment(p)
  BY <1>1 DEF appointment, knownEnd
<1>3. \A p : appointment(p).order = p
  BY DEF appointment
<1>4. {appointment(p) : p \in occupying}'
        = {appointment(p) : p \in occupying} \ {appointment(o)}
  BY <1>1, <1>2, <1>3
<1>5. UNCHANGED madeOrders
  BY <1>1 DEF madeOrders
<1>6. appointment(o) \in {appointment(p) : p \in occupying}
  BY <1>1
<1>7. Agenda!Release(appointment(o))
  BY <1>4, <1>5, <1>6 DEF Agenda!Release
<1> QED
  BY <1>6, <1>7 DEF Agenda!CalendarNext

\* Neither edits of services nor decisions on the provider touch it.
LEMMA OthersAreUnseen ==
    ASSUME \/ \E e \in Editors : EditStep(e)
           \/ \E s \in Services : RemoveService(s)
           \/ UNCHANGED bookingVars
    PROVE  UNCHANGED seen
<1>1. UNCHANGED <<occupying, slot, pc>>
  BY DEF EditStep, ValidateService, WriteService, DropEdit, RemoveService,
         bookings, bookingVars
<1> QED
  BY <1>1, Unseen

LEMMA EmptyAgenda == Init => Agenda!CalendarInit
<1> SUFFICES ASSUME Init PROVE Agenda!CalendarInit
  OBVIOUS
<1>1. BookingIInv /\ occupying = EarlierOrders /\ \A r \in Requests : pc[r] = "idle"
  BY BookingInitIsGood DEF Init, BookingInit
<1>2. madeOrders = occupying
  BY <1>1 DEF madeOrders
<1>3. \A o : /\ appointment(o).order = o /\ appointment(o).start = slot[o].start
             /\ appointment(o).end = knownEnd(o)
  BY DEF appointment
<1>4. \A o \in occupying : appointment(o).start < appointment(o).end
  BY <1>1, <1>3 DEF BookingIInv, OccupyingInv, WithinDay
<1>5. \A o, p \in occupying :
        appointment(o) # appointment(p) =>
          /\ Agenda!Apart(appointment(o), appointment(p))
          /\ appointment(o).order # appointment(p).order
  BY <1>1, <1>3 DEF BookingIInv, NoDoubleBooking, apart, Agenda!Apart
<1>6. occupying = {x.order : x \in {appointment(o) : o \in occupying}}
  BY <1>3
<1> QED
  BY <1>2, <1>4, <1>5, <1>6 DEF Agenda!CalendarInit

\* All bookings of a provider together, with any edits and decisions between
\* their statements, do no more to its calendar than make one appointment after
\* the other at times that are free, and release them (create-order.handler.ts:55).
THEOREM BookingKeepsTheCalendar == Spec => CalendarKept
<1>1. ASSUME BookingIInv, [Next]_vars
      PROVE  [Agenda!CalendarNext]_seen
  <2>1. CASE \E r \in Requests : BookingStep(r)
    <3>1. PICK r \in Requests : BookingStep(r)
      BY <2>1
    <3> QED
      BY <1>1, <3>1, PreparationIsUnseen, CreationMakes DEF BookingStep
  <2>2. CASE \E o \in Orders : EndOrder(o)
    BY <2>2, EndReleases
  <2>3. CASE \/ \E e \in Editors : EditStep(e)
             \/ \E s \in Services : RemoveService(s)
    BY <2>3, OthersAreUnseen
  <2>4. CASE (ReviewNext /\ UNCHANGED bookingVars) \/ UNCHANGED vars
    BY <2>4, OthersAreUnseen DEF vars
  <2> QED
    BY <1>1, <2>1, <2>2, <2>3, <2>4 DEF Next
<1> QED
  BY <1>1, EmptyAgenda, BookingIInvHolds, PTL
  DEF Spec, CalendarKept, Agenda!CalendarSpec, Agenda!calendar, seen

----------------------------------------------------------------------------
(* The review of the provider. *)

ReviewIInv == ReviewTypeOK /\ DecisionsExplainStatus

\* A decision that is committed starts at the status of the row: that is what
\* the condition of the update is for.
LEMMA DecideKeeps ==
    ASSUME ReviewIInv, NEW v \in Reviewers, Decide(v)
    PROVE  ReviewIInv'
<1> DEFINE transition == PROVIDER_TRANSITIONS[review[v]]
           n == Len(decisions)
<1>1. /\ transition \in [fromStatus : ProviderStatus, toStatus : ProviderStatus]
      /\ transition.fromStatus = providerStatus
      /\ providerStatus' = transition.toStatus
      /\ verified' = (transition.toStatus = "APPROVED")
      /\ decisions' = Append(decisions, transition)
  BY DEF ReviewIInv, ReviewTypeOK, Decide, stillFrom, Decisions,
         PROVIDER_TRANSITIONS, ProviderStatus
<1>2. ReviewTypeOK'
  BY <1>1 DEF ReviewIInv, ReviewTypeOK, Decide
<1> HIDE DEF transition
<1>3. /\ n \in Nat /\ Len(decisions') = n + 1
      /\ DOMAIN decisions = 1 .. n /\ DOMAIN decisions' = 1 .. (n + 1)
      /\ decisions'[n + 1] = transition
      /\ \A k \in 1 .. n : decisions'[k] = decisions[k]
  BY <1>1 DEF ReviewIInv, ReviewTypeOK
<1>4. DecisionsExplainStatus'
  <2> DEFINE before(k) == IF k = 0 THEN "PENDING" ELSE decisions[k].toStatus
             after(k) == IF k = 0 THEN "PENDING" ELSE decisions'[k].toStatus
  <2>1. /\ \A k \in 1 .. n : decisions[k].fromStatus = before(k - 1)
        /\ providerStatus = before(n)
    BY <1>3 DEF ReviewIInv, DecisionsExplainStatus
  <2>2. \A k \in 0 .. n : after(k) = before(k)
    BY <1>3
  <2>3. after(n + 1) = transition.toStatus
    BY <1>3
  <2>4. \A k \in 1 .. (n + 1) : decisions'[k].fromStatus = after(k - 1)
    <3> SUFFICES ASSUME NEW k \in 1 .. (n + 1)
                 PROVE  decisions'[k].fromStatus = after(k - 1)
      OBVIOUS
    <3>1. CASE k \in 1 .. n
      <4>1. k - 1 \in 0 .. n
        BY <1>3, <3>1
      <4> QED
        BY <1>3, <2>1, <2>2, <3>1, <4>1
    <3>2. CASE k = n + 1
      <4>1. k - 1 = n /\ n \in 0 .. n
        BY <1>3, <3>2
      <4> QED
        BY <1>1, <1>3, <2>1, <2>2, <3>2, <4>1
    <3> QED
      BY <1>3, <3>1, <3>2
  <2> QED
    BY <1>1, <1>3, <2>3, <2>4 DEF DecisionsExplainStatus
<1> QED
  BY <1>2, <1>4 DEF ReviewIInv

\* However the transitions of operators overlap, the history of a provider is
\* a path from PENDING to its status.
THEOREM HistoryIsConsistent == ReviewSpec => []DecisionsExplainStatus
<1>1. ReviewInit => ReviewIInv
  <2> SUFFICES ASSUME ReviewInit PROVE ReviewIInv
    OBVIOUS
  <2>1. decisions = <<>> /\ DOMAIN decisions = {} /\ Len(decisions) = 0
    BY DEF ReviewInit
  <2>2. ReviewTypeOK
    <3>1. <<>> \in Seq([fromStatus : ProviderStatus, toStatus : ProviderStatus])
      OBVIOUS
    <3>2. review \in [Reviewers -> Decisions \cup {"NONE"}]
      BY DEF ReviewInit
    <3> QED
      BY <2>1, <3>1, <3>2 DEF ReviewInit, ReviewTypeOK, ProviderStatus
  <2>3. DecisionsExplainStatus
    BY <2>1 DEF ReviewInit, DecisionsExplainStatus
  <2> QED
    BY <2>2, <2>3 DEF ReviewIInv
<1>2. ReviewIInv /\ [ReviewNext]_reviewVars => ReviewIInv'
  <2> SUFFICES ASSUME ReviewIInv, [ReviewNext]_reviewVars PROVE ReviewIInv'
    OBVIOUS
  <2>1. CASE \E v \in Reviewers : Decide(v)
    BY <2>1, DecideKeeps
  <2>2. CASE \E v \in Reviewers :
               \/ \E decision \in Decisions : ReadProvider(v, decision)
               \/ RollBack(v)
    BY <2>2 DEF ReviewIInv, ReviewTypeOK, DecisionsExplainStatus,
                ReadProvider, RollBack
  <2>3. CASE UNCHANGED reviewVars
    BY <2>3 DEF ReviewIInv, ReviewTypeOK, DecisionsExplainStatus, reviewVars
  <2> QED
    BY <2>1, <2>2, <2>3 DEF ReviewNext
<1>3. ReviewIInv => DecisionsExplainStatus
  BY DEF ReviewIInv
<1> QED
  BY <1>1, <1>2, <1>3, PTL DEF ReviewSpec

----------------------------------------------------------------------------
(* What is offered. It is an update that overlaps another one of the same   *)
(* service that offers an availability nobody validated, and nothing else.  *)

\* No two updates of one service are both between their check and their write.
EditsApart ==
    \A e, f \in Editors :
        (edit[e] # NoEdit /\ edit[f] # NoEdit /\ e # f) =>
            edit[e].service # edit[f].service

\* What an update is about to write is valid with what it leaves as it is.
EditsAreValid ==
    \A e \in Editors : edit[e] # NoEdit =>
        accepted(patched(services[edit[e].service], edit[e]))

OffersInv == OffersAreValid /\ EditsAreValid

LEMMA EditsKeepOffersValid ==
    ASSUME BookingTypeOK, BookingTypeOK', EditsApart, EditsApart', OffersInv,
           NEW e \in Editors, EditStep(e)
    PROVE  OffersInv'
<1>1. CASE ValidateService(e)
  <2>1. services' = services
    BY <1>1 DEF ValidateService
  <2>2. accepted(patched(services[edit'[e].service], edit'[e]))
    BY <1>1 DEF ValidateService, BookingTypeOK
  <2>3. \A f \in Editors : f # e => edit'[f] = edit[f]
    BY <1>1 DEF ValidateService, BookingTypeOK
  <2> QED
    BY <2>1, <2>2, <2>3
    DEF OffersInv, OffersAreValid, EditsAreValid, accepted, patched
<1>2. CASE WriteService(e)
  <2> DEFINE s == edit[e].service
  <2>1. edit[e] # NoEdit /\ edit[e] \in Patch /\ s \in Services
    BY <1>2 DEF WriteService, BookingTypeOK, Patch
  <2>2. services' = [services EXCEPT ![s] = patched(services[s], edit[e])]
    BY <1>2 DEF WriteService
  <2>3. services'[s] = patched(services[s], edit[e])
    BY <2>1, <2>2 DEF BookingTypeOK
  <2>4. \A t \in Services : t # s => services'[t] = services[t]
    BY <2>2 DEF BookingTypeOK
  <2>5. accepted(services'[s])
    BY <2>1, <2>3 DEF OffersInv, EditsAreValid
  <2>6. OffersAreValid'
    BY <2>4, <2>5 DEF OffersInv, OffersAreValid, accepted
  <2>7. ASSUME NEW f \in Editors, edit'[f] # NoEdit
        PROVE  accepted(patched(services'[edit'[f].service], edit'[f]))
    <3>1. f # e /\ edit'[f] = edit[f]
      BY <1>2, <2>7 DEF WriteService, BookingTypeOK
    <3>2. edit[f].service \in Services /\ edit[f].service # s
      BY <2>1, <2>7, <3>1 DEF EditsApart, BookingTypeOK, Patch
    <3>3. services'[edit[f].service] = services[edit[f].service]
      BY <2>4, <3>2
    <3>4. accepted(patched(services[edit[f].service], edit[f]))
      BY <2>7, <3>1 DEF OffersInv, EditsAreValid
    <3> QED
      BY <3>1, <3>3, <3>4
  <2> QED
    BY <2>6, <2>7 DEF OffersInv, EditsAreValid, accepted, patched
<1>3. CASE DropEdit(e)
  <2>1. services' = services /\ \A f \in Editors : f # e => edit'[f] = edit[f]
    BY <1>3 DEF DropEdit, BookingTypeOK
  <2>2. edit'[e] = NoEdit
    BY <1>3 DEF DropEdit, BookingTypeOK
  <2> QED
    BY <2>1, <2>2
    DEF OffersInv, OffersAreValid, EditsAreValid, accepted, patched
<1> QED
  BY <1>1, <1>2, <1>3 DEF EditStep

\* A service that is taken back is offered no more, whatever an update under
\* way says of its availability alone.
LEMMA RemovalKeepsOffersValid ==
    ASSUME BookingTypeOK, OffersInv, NEW s \in Services, RemoveService(s)
    PROVE  OffersInv'
<1>1. services' = [services EXCEPT ![s].status = "INATIVO"] /\ edit' = edit
  BY DEF RemoveService
<1>2. /\ services'[s].status = "INATIVO"
      /\ services'[s].availability = services[s].availability
      /\ \A t \in Services : t # s => services'[t] = services[t]
  BY <1>1 DEF BookingTypeOK, Service
<1>3. \A e \in Editors : edit[e] # NoEdit =>
        edit[e] \in Patch /\ edit[e].service \in Services
  BY DEF BookingTypeOK, Patch
<1>4. OffersAreValid'
  BY <1>2 DEF OffersInv, OffersAreValid, accepted
<1>5. EditsAreValid'
  <2> SUFFICES ASSUME NEW e \in Editors, edit[e] # NoEdit
               PROVE  accepted(patched(services'[edit[e].service], edit[e]))
    BY <1>1 DEF EditsAreValid, accepted, patched
  <2>1. accepted(patched(services[edit[e].service], edit[e]))
    BY DEF OffersInv, EditsAreValid
  <2>2. CASE edit[e].service # s
    BY <1>2, <1>3, <2>1, <2>2
  <2>3. CASE edit[e].service = s
    BY <1>2, <2>1, <2>3 DEF accepted, patched
  <2> QED
    BY <2>2, <2>3
<1> QED
  BY <1>4, <1>5 DEF OffersInv

\* As long as two updates of one service do not overlap, what is offered was
\* validated (service-management.service.ts:96), however updates of other
\* services, removals and bookings interleave: the overlap that
\* OffersAreValid fails for is the only thing that breaks it.
THEOREM UpdatesApartOfferWhatIsValid ==
    Spec /\ []EditsApart => []OffersAreValid
<1>1. Init => OffersInv
  BY DEF Init, BookingInit, OffersInv, OffersAreValid, EditsAreValid, accepted
<1>2. ASSUME BookingTypeOK, BookingTypeOK', EditsApart, EditsApart', OffersInv,
             [Next]_vars
      PROVE  OffersInv'
  <2>1. CASE \E e \in Editors : EditStep(e)
    BY <1>2, <2>1, EditsKeepOffersValid
  <2>2. CASE \E s \in Services : RemoveService(s)
    BY <1>2, <2>2, RemovalKeepsOffersValid
  <2>3. CASE services' = services /\ edit' = edit
    BY <1>2, <2>3
    DEF OffersInv, OffersAreValid, EditsAreValid, accepted, patched
  <2>4. CASE \E r \in Requests : BookingStep(r)
    BY <2>3, <2>4 DEF BookingStep, ReadService, LockProvider, ReadAvailability,
       ReadConflicts, CreateOrder, Refuse, rows
  <2>5. CASE \E o \in Orders : EndOrder(o)
    BY <2>3, <2>5 DEF EndOrder
  <2>6. CASE (ReviewNext /\ UNCHANGED bookingVars) \/ UNCHANGED vars
    BY <2>3, <2>6 DEF vars, bookingVars
  <2> QED
    BY <1>2, <2>1, <2>2, <2>4, <2>5, <2>6 DEF Next
<1>3. OffersInv => OffersAreValid
  BY DEF OffersInv
<1>4. Spec => []BookingTypeOK
  BY BookingTypeIsCorrect
<1> QED
  BY <1>1, <1>2, <1>3, <1>4, PTL DEF Spec

=============================================================================
