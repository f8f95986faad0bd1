---------------------------- MODULE PayoutProfile ----------------------------
(***************************************************************************)
(* The profile by which a provider was paid through the former gateway: an *)
(* update claims the profile, calls the gateway and writes the result; a   *)
(* query may refresh it on the way. The claim is a lease: the error code   *)
(* SYNCING in a row touched less than Lease ticks ago. The code is kept    *)
(* and tested, but no module of the application registers it.              *)
(***************************************************************************)
EXTENDS Naturals, FiniteSets, Sequences, Requests

CONSTANTS
    Lease,            \* PAYOUT_SYNC_LOCK_MS, in ticks
    RefreshInterval,  \* PAYOUT_REFRESH_INTERVAL_MS
    CallTimeout,      \* after which a call to the gateway is given up
    MaxRecipients     \* bound on the recipients created

ASSUME PayoutAssumption ==
    /\ Lease \in Nat /\ RefreshInterval \in Nat
    /\ CallTimeout \in Nat /\ MaxRecipients \in Nat
    /\ CallTimeout < Lease

VARIABLES
    profile,     \* the row; recipient 0 stands for none
    touched,     \* ticks since `updatedAt`, counted up to Lease + 1
    synchronized,\* ticks since `lastSynchronizedAt`, up to RefreshInterval + 1
    recipients,  \* at the gateway: the status of each recipient
    phase,       \* next step of each request
    kept,        \* what each request carries to it
    waiting,     \* ticks since each update claimed the profile
    erased       \* history: a refresh overwrote the claim of a running update

payoutVars == <<profile, touched, synchronized, recipients, phase, kept,
                waiting, erased>>

Blank == [recipient |-> 0, sync |-> "UNKNOWN", bank |-> "UNCONFIRMED",
          error |-> "none"]

PayoutInit ==
    /\ profile = Blank
    /\ touched = 0
    /\ synchronized = 0
    /\ recipients = <<>>
    /\ phase = [c \in Callers |-> "idle"]
    /\ kept = [c \in Callers |-> [row |-> Blank]]
    /\ waiting = [c \in Callers |-> 0]
    /\ erased = FALSE

Enter(c, label, value) ==
    /\ phase' = [phase EXCEPT ![c] = label]
    /\ kept' = [kept EXCEPT ![c] = value]
    /\ waiting' = [waiting EXCEPT ![c] = IF label \in {"save", "fail"} THEN @ ELSE 0]

Leave(c) == Enter(c, "idle", [row |-> Blank])

-----------------------------------------------------------------------------
\* What the statuses of a recipient and of its bank account come to.
mapRecipientState(states) ==
    IF states \intersect {"failed", "rejected", "refused", "blocked",
                          "suspended", "inactive"} # {} THEN "REJECTED"
    ELSE IF states \intersect {"pending", "processing", "registration",
                               "affiliation"} # {} THEN "PENDING"
    ELSE IF states # {} /\ states \subseteq {"active", "approved", "ready"}
         THEN "READY"
    ELSE "UNKNOWN"

bankStatusBySync ==
    [READY |-> "CONFIRMED", PENDING |-> "PROCESSING", REJECTED |-> "ERROR",
     UNKNOWN |-> "UNCONFIRMED"]

isPayoutReady(row) ==
    row.recipient # 0 /\ row.sync = "READY" /\ row.bank = "CONFIRMED"

recipientProfileState(status) ==
    LET sync == mapRecipientState({status})
    IN [sync |-> sync, bank |-> bankStatusBySync[sync],
        error |-> IF sync = "REJECTED" THEN "REJECTED" ELSE "none"]

-----------------------------------------------------------------------------
\* An update reads the profile, or creates it ...
UpdatePayout(c) ==
    /\ phase[c] = "idle"
    /\ Enter(c, "claim", [row |-> profile])
    /\ UNCHANGED <<profile, touched, synchronized, recipients, erased>>

Claimable == profile.error # "SYNCING" \/ touched > Lease

\* Fault: the claim is granted whoever holds it.
claimUnasked(c) ==
    /\ phase[c] = "claim"
    /\ profile' = [profile EXCEPT !.error = "SYNCING"]
    /\ touched' = 0
    /\ Enter(c, "call", kept[c])
    /\ UNCHANGED <<synchronized, recipients, erased>>

\* ... claims it, or is refused ...
Claim(c) ==
    /\ phase[c] = "claim"
    /\ \/ /\ ~Claimable
          /\ Leave(c)
          /\ UNCHANGED <<profile, touched>>
       \/ /\ Claimable
          /\ profile' = [profile EXCEPT !.error = "SYNCING"]
          /\ touched' = 0
          /\ Enter(c, "call", kept[c])
    /\ UNCHANGED <<synchronized, recipients, erased>>

\* ... and calls the gateway, which creates a recipient if the row read before
\* the claim had none, or changes the account of the recipient of that row.
CallGateway(c) ==
    /\ phase[c] = "call"
    /\ \E answered \in BOOLEAN :
         LET row == kept[c].row
             id == IF row.recipient = 0 THEN Len(recipients) + 1
                   ELSE row.recipient
         IN /\ id <= MaxRecipients
            /\ recipients' = IF row.recipient = 0
                             THEN Append(recipients, "registration")
                             ELSE recipients
            /\ IF answered
               THEN Enter(c, "save",
                          [row |-> row, id |-> id, status |-> recipients'[id]])
               ELSE Enter(c, "fail", [row |-> row])
    /\ UNCHANGED <<profile, touched, synchronized, erased>>

\* The gateway refuses, or cannot be reached.
CallRefused(c) ==
    /\ phase[c] = "call"
    /\ Enter(c, "fail", kept[c])
    /\ UNCHANGED <<profile, touched, synchronized, recipients, erased>>

SaveRecipient(c) ==
    /\ phase[c] = "save"
    /\ LET state == recipientProfileState(kept[c].status)
       IN profile' = [recipient |-> kept[c].id, sync |-> state.sync,
                      bank |-> state.bank, error |-> state.error]
    /\ touched' = 0
    /\ synchronized' = 0
    /\ Leave(c)
    /\ UNCHANGED <<recipients, erased>>

\* A failure leaves the account that was set up before as it is.
SaveFailure(c) ==
    /\ phase[c] = "fail"
    /\ profile' = [profile EXCEPT
                     !.error = "TRANSIENT",
                     !.bank = IF kept[c].row.recipient = 0 THEN "ERROR" ELSE @]
    /\ touched' = 0
    /\ Leave(c)
    /\ UNCHANGED <<synchronized, recipients, erased>>

-----------------------------------------------------------------------------
shouldRefresh ==
    /\ profile.recipient # 0
    /\ ~isPayoutReady(profile)
    /\ profile.error # "SYNCING"
    /\ synchronized > RefreshInterval

\* A query of a profile that is not final asks the gateway ...
GetPayout(c) ==
    /\ phase[c] = "idle"
    /\ shouldRefresh
    /\ Enter(c, "fetch", [row |-> profile])
    /\ UNCHANGED <<profile, touched, synchronized, recipients, erased>>

FetchRecipient(c) ==
    /\ phase[c] = "fetch"
    /\ \/ Leave(c)
       \/ Enter(c, "write", [row |-> kept[c].row,
                             status |-> recipients[kept[c].row.recipient]])
    /\ UNCHANGED <<profile, touched, synchronized, recipients, erased>>

Updating == {c \in Callers : phase[c] \in {"call", "save", "fail"}}

\* ... and writes what it heard, with the error of the row it read: whatever
\* became of the row since.
WriteRefresh(c) ==
    /\ phase[c] = "write"
    /\ LET state == recipientProfileState(kept[c].status)
           error == kept[c].row.error
       IN profile' = [profile EXCEPT
                        !.sync = state.sync,
                        !.bank = state.bank,
                        !.error = IF state.error # "none" THEN state.error
                                  ELSE IF error = "REJECTED" THEN "none"
                                  ELSE error]
    /\ erased' = (erased \/ (profile.error = "SYNCING" /\ Updating # {}))
    /\ touched' = 0
    /\ synchronized' = 0
    /\ Leave(c)
    /\ UNCHANGED recipients

\* To save a PIX key touches the same row.
SavePixDestination ==
    /\ touched' = 0
    /\ UNCHANGED <<profile, synchronized, recipients, phase, kept, waiting,
                   erased>>

-----------------------------------------------------------------------------
\* The gateway examines its recipients, and may block one later.
RecipientMoves ==
    /\ \E id \in DOMAIN recipients :
         \/ /\ recipients[id] = "registration"
            /\ recipients' = [recipients EXCEPT ![id] = "active"]
         \/ /\ recipients[id] # "refused"
            /\ recipients' = [recipients EXCEPT ![id] = "refused"]
    /\ UNCHANGED <<profile, touched, synchronized, phase, kept, waiting, erased>>

PayoutCrash(c) ==
    /\ phase[c] # "idle"
    /\ Leave(c)
    /\ UNCHANGED <<profile, touched, synchronized, recipients, erased>>

\* Fault: a call to the gateway has no timeout.
patientInTime == \A c \in Callers : phase[c] \in {"save", "fail"} => waiting[c] < Lease

\* No call outlasts its timeout, and its result is written in what is left of
\* the lease: a replica does not stand still for longer than that.
InTime ==
    \A c \in Callers :
        /\ phase[c] = "call" => waiting[c] < CallTimeout
        /\ phase[c] \in {"save", "fail"} => waiting[c] < Lease

Later(age, bound) == IF age <= bound THEN age + 1 ELSE age

PayoutTick ==
    /\ InTime
    /\ touched' = Later(touched, Lease)
    /\ synchronized' = Later(synchronized, RefreshInterval)
    /\ waiting' = [c \in Callers |->
                     IF c \in Updating THEN waiting[c] + 1 ELSE waiting[c]]
    /\ UNCHANGED <<profile, recipients, phase, kept, erased>>

PayoutNext ==
    \/ SavePixDestination \/ RecipientMoves \/ PayoutTick
    \/ \E c \in Callers :
         \/ UpdatePayout(c) \/ Claim(c) \/ CallGateway(c) \/ CallRefused(c)
         \/ SaveRecipient(c) \/ SaveFailure(c)
         \/ GetPayout(c) \/ FetchRecipient(c) \/ WriteRefresh(c)
         \/ PayoutCrash(c)

PayoutSpec == PayoutInit /\ [][PayoutNext]_payoutVars

-----------------------------------------------------------------------------
\* Two updates of one provider are under way at once only after a refresh
\* that read the row before the claim overwrote it: neither a crash, nor a
\* lapsed lease, nor a result written late lets a second one in
\* (update-provider-payout.handler.ts:143).
OneUpdateAtGateway == Cardinality(Updating) > 1 => erased

=============================================================================
