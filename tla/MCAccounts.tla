----------------------------- MODULE MCAccounts ------------------------------
(***************************************************************************)
(* What surrounds the orders of a user: accounts, recovery, the payout     *)
(* profile, the review of a provider, its weekly hours and the reviews of  *)
(* its orders. They share no row, so TLC takes them one at a time: `part`  *)
(* says which of them moves, and the others stay in their initial states.  *)
(***************************************************************************)
EXTENDS AccountRecovery, UserAccounts, PayoutProfile, ProviderReview, Reviews,
    Availability, TLC

VARIABLE part   \* which of them moves

VARIABLE windows

MCWindows == [start : {-1, 0, 1, 2, 3}, end : {0, 2, 3, 4, 5},
              slotMinutes : {Unset, 1, 2, 3}]

WindowsInit == windows = <<>>

\* The windows of a weekday, one after the other, over a day of five minutes:
\* times that are none, windows that end before they start, durations that are
\* missing, too short or too long. The third begins a slot each minute; a window
\* too many may be any: one stands for all.
AddWindow ==
    /\ Len(windows) <= MaxWindows
    /\ \E w \in MCWindows :
         /\ Len(windows) = 2 => w.slotMinutes = 1
         /\ Len(windows) = MaxWindows => w = [start |-> 3, end |-> 5, slotMinutes |-> 1]
         /\ windows' = Append(windows, w)

week == [weekday \in {0} |-> windows]

Meet(a, b) == a.start < b.end /\ b.start < a.end

\* validateAvailability compares each window with the one before it in the
\* order of their starts. That is enough: it accepts a weekday if and only if
\* every window is valid by itself and no two of them overlap.
ValidationIsPairwise ==
    ValidAvailability(week) <=>
        /\ Len(windows) \in 1 .. MaxWindows
        /\ \A i \in DOMAIN windows : ValidWindow(windows[i])
        /\ \A i, j \in DOMAIN windows : i # j => ~Meet(windows[i], windows[j])

\* The slots of a validated weekday are appointments one provider can keep:
\* no two overlap, each lies in a window and lasts what the window says, and
\* no window is without one. The next week has the same slots, a week later,
\* and an availability nobody validated gives slots of the day all the same.
SlotsCanBeKept ==
    LET slots == SlotsForService(0, week)
        inside(c, w) == /\ w.start <= c.start /\ c.end <= w.end
                        /\ c.end - c.start = w.slotMinutes
    IN /\ \A c \in slots : 0 <= c.start /\ c.start < c.end /\ c.end <= DayLength
       /\ ValidAvailability(week) =>
            /\ \A c, d \in slots : c # d => ~Meet(c, d)
            /\ \A c \in slots : \E i \in DOMAIN windows : inside(c, windows[i])
            /\ \A i \in DOMAIN windows :
                 \E c \in slots : inside(c, windows[i])
       /\ SlotsForService(DaysPerWeek, week) =
            {[start |-> c.start + DaysPerWeek * DayLength,
              end   |-> c.end + DaysPerWeek * DayLength] : c \in slots}

\* Hours that are validated, by comparing neighbours, leave slots that can be
\* kept, all of them (service-management.service.ts:34).
HoursCanBeKept == ValidationIsPairwise /\ SlotsCanBeKept

MCInit ==
    /\ part \in {"recovery", "account", "payout", "provider", "rating",
                "windows"}
    /\ RecoveryInit /\ AccountInit /\ PayoutInit /\ ReviewInit /\ RatingInit
    /\ WindowsInit

MCNext ==
    /\ UNCHANGED part
    /\ \/ /\ part = "recovery" /\ RecoveryNext
          /\ UNCHANGED <<accountVars, payoutVars, reviewVars, ratingVars, windows>>
       \/ /\ part = "account" /\ AccountNext
          /\ UNCHANGED <<recoveryVars, payoutVars, reviewVars, ratingVars, windows>>
       \/ /\ part = "payout" /\ PayoutNext
          /\ UNCHANGED <<recoveryVars, accountVars, reviewVars, ratingVars, windows>>
       \/ /\ part = "provider" /\ ReviewNext
          /\ UNCHANGED <<recoveryVars, accountVars, payoutVars, ratingVars, windows>>
       \/ /\ part = "rating" /\ RatingNext
          /\ UNCHANGED <<recoveryVars, accountVars, payoutVars, reviewVars, windows>>
       \/ /\ part = "windows" /\ AddWindow
          /\ UNCHANGED <<recoveryVars, accountVars, payoutVars, reviewVars, ratingVars>>

accountsVars == <<part, recoveryVars, accountVars, payoutVars, reviewVars, ratingVars, windows>>

MCSpec == MCInit /\ [][MCNext]_accountsVars

\* No handler looks at which request it is.
MCSymmetry == Permutations(Callers)

=============================================================================
