---------------------------- MODULE Availability ----------------------------
(***************************************************************************)
(* The weekly availability a provider publishes with a service, the        *)
(* validation it passes before the service is offered, and the appointment *)
(* slots it gives on a day. An availability is a function from weekdays to *)
(* sequences of windows [start, end, slotMinutes]; the times of a window   *)
(* count minutes from midnight, the times of a slot count them from a day  *)
(* 0. The offset of America/Sao_Paulo is constant and plays no part.       *)
(***************************************************************************)
EXTENDS Integers, Sequences, FiniteSets

CONSTANTS
    DayLength,       \* minutes of a day: 24 * 60
    DaysPerWeek,     \* weekdays are 0 .. DaysPerWeek - 1
    DefaultSlot,     \* DEFAULT_SLOT_MINUTES: 60
    MinSlot,         \* shortest slot the validation lets through: 15
    MaxSlot,         \* longest one: 480
    MaxWindows       \* windows of a weekday: 4

ASSUME DayLengthAssumption == DayLength \in Nat \ {0}

ASSUME DaysPerWeekAssumption == DaysPerWeek \in Nat \ {0}

ASSUME WindowAssumption == MinSlot \in Nat \ {0} /\ MaxSlot \in Nat /\ MaxWindows \in Nat

\* A text that is no HH:MM of the day is read as a number outside this range.
IsTime(minutes) == minutes \in 0 .. (DayLength - 1)

\* slotMinutes of a window that gives none, or no number.
Unset == 0

----------------------------------------------------------------------------
(* The slots of a day. *)

StartOfDay(day) == day * DayLength

DayAfter(day) == StartOfDay(day + 1)

DayOf(minute) == minute \div DayLength

WindowsOn(availability, day) ==
    LET weekday == day % DaysPerWeek IN
    IF weekday \in DOMAIN availability THEN availability[weekday] ELSE <<>>

\* Fault: what is left at the end of a window is a slot.
SlotsForWindowPastEnd(day, window) ==
    {[start |-> StartOfDay(day) + cursor,
      end   |-> StartOfDay(day) + cursor + window.slotMinutes] :
        cursor \in {c \in window.start .. (window.end - 1) :
            /\ IsTime(window.start) /\ IsTime(window.end)
            /\ window.slotMinutes \in 1 .. DayLength
            /\ (c - window.start) % window.slotMinutes = 0}}

\* The window is cut into slots from its start on; what is left at its end is
\* too short for another. The cursor is the minute a slot starts.
SlotsForWindow(day, window) ==
    LET slotMinutes == IF window.slotMinutes = Unset THEN DefaultSlot
                       ELSE window.slotMinutes
        cursors == {cursor \in window.start .. window.end :
                        /\ (cursor - window.start) % slotMinutes = 0
                        /\ cursor + slotMinutes <= window.end}
    IN IF /\ IsTime(window.start) /\ IsTime(window.end)
          /\ window.start < window.end
          /\ slotMinutes \in 1 .. DayLength
       THEN {[start |-> StartOfDay(day) + cursor,
              end   |-> StartOfDay(day) + cursor + slotMinutes] :
                cursor \in cursors}
       ELSE {}

SlotsForService(day, availability) ==
    LET windows == WindowsOn(availability, day) IN
    UNION {SlotsForWindow(day, windows[i]) : i \in DOMAIN windows}

----------------------------------------------------------------------------
(* The validation. *)

ValidWindow(window) ==
    /\ IsTime(window.start) /\ IsTime(window.end)
    /\ window.start < window.end
    /\ window.slotMinutes \in MinSlot .. MaxSlot
    /\ window.slotMinutes <= window.end - window.start

\* Fault: the windows are visited in the order they came.
ValidDayUnsorted(windows) ==
    /\ Len(windows) <= MaxWindows
    /\ \A i \in DOMAIN windows :
         /\ ValidWindow(windows[i])
         /\ i > 1 => windows[i - 1].end <= windows[i].start

\* Windows are visited in the order of their starts, as they came where these
\* are the same.
VisitedBefore(windows, i, j) ==
    \/ windows[i].start < windows[j].start
    \/ windows[i].start = windows[j].start /\ i < j

Place(windows, i) == Cardinality({j \in DOMAIN windows : VisitedBefore(windows, j, i)})

\* Each is compared with the end of the one visited just before it.
ValidDay(windows) ==
    /\ Len(windows) <= MaxWindows
    /\ \A i \in DOMAIN windows :
         /\ ValidWindow(windows[i])
         /\ \A j \in DOMAIN windows :
              Place(windows, i) = Place(windows, j) + 1 => windows[j].end <= windows[i].start

ValidAvailability(availability) ==
    /\ \A weekday \in DOMAIN availability :
         weekday \in 0 .. (DaysPerWeek - 1) /\ ValidDay(availability[weekday])
    /\ \E weekday \in DOMAIN availability : availability[weekday] # <<>>

=============================================================================
