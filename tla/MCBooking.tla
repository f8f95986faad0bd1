------------------------------ MODULE MCBooking ------------------------------
(* A provider with two services, on two days of five minutes. *)
EXTENDS Booking, TLC

window(start, end, slotMinutes) ==
    [start |-> start, end |-> end, slotMinutes |-> slotMinutes]

Week(first, second) == [weekday \in 0 .. 1 |->
                           IF weekday = 0 THEN first ELSE second]

\* One long appointment a day, or short ones.
Long  == Week(<<window(0, 4, 4)>>, <<>>)
Short == Week(<<window(1, 3, 1)>>, <<window(0, 2, 2)>>)

\* Windows that overlap, and an availability that was never given.
Overlapping == Week(<<window(0, 2, 2), window(1, 3, 2)>>, <<>>)
NotGiven    == <<>>

MCAvailabilities == {Long, Short}
MCUnchecked      == {Short, Overlapping, NotGiven}

\* The second day begins at 5.
MCTimes == {0, 1, 5}

\* An order from before, at a time within the long appointment.
MCEarlierSlot == [o \in EarlierOrders |->
    [service |-> CHOOSE s \in Services : TRUE, start |-> 2, end |-> NoEnd]]

MCSymmetry == Permutations(Requests)

=============================================================================
