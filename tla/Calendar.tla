------------------------------ MODULE Calendar ------------------------------
(***************************************************************************)
(* What booking promises to a provider and its clients, whatever happens   *)
(* inside: an appointment is made at once, at a time that nothing else     *)
(* takes up; it keeps its time for as long as it stands; and no order is   *)
(* given a second one. A record of `appointments` has the order it is for, *)
(* and the minutes it begins and ends at.                                  *)
(***************************************************************************)
EXTENDS Naturals

VARIABLES
    appointments,   \* those that stand
    made            \* the orders that have or had one

calendar == <<appointments, made>>

Apart(a, b) == a.end <= b.start \/ b.end <= a.start

CalendarInit ==
    /\ \A a \in appointments : a.start < a.end
    /\ \A a, b \in appointments : a # b => Apart(a, b) /\ a.order # b.order
    /\ made = {a.order : a \in appointments}

Make(a) ==
    /\ a.order \notin made
    /\ a.start < a.end
    /\ \A b \in appointments : Apart(a, b)
    /\ appointments' = appointments \cup {a}
    /\ made' = made \cup {a.order}

\* The order is concluded, cancelled or expires.
Release(a) ==
    /\ a \in appointments
    /\ appointments' = appointments \ {a}
    /\ UNCHANGED made

CalendarNext ==
    \/ \E a \in appointments' : Make(a)
    \/ \E a \in appointments : Release(a)

CalendarSpec == CalendarInit /\ [][CalendarNext]_calendar

=============================================================================
