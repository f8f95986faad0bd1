---------------------------- MODULE UserAccounts ----------------------------
(***************************************************************************)
(* Accounts of customers and providers: registration, the profile, and the *)
(* proof of an e-mail address by a code. The codes live in the memory of   *)
(* one process (`pendingCodes`). A registration is one transaction: what   *)
(* it wrote so far is in `draft`, and nobody else sees it before it ends.  *)
(***************************************************************************)
EXTENDS Naturals, FiniteSets, Requests

CONSTANTS
    Users,        \* accounts that may come to exist
    Emails,
    Processes,    \* replicas, each with codes of its own
    MaxCodes,     \* bound on the codes sent
    Overlap       \* may requests about one user's contact overlap?

ASSUME AccountAssumption ==
    MaxCodes \in Nat /\ Overlap \in BOOLEAN /\ "absent" \notin Emails

VARIABLES
    row,        \* the user's rows
    catalogue,  \* is the specialty that providers choose active?
    codes,      \* pendingCodes of each process
    sentCodes,  \* codes generated so far: the source of fresh ones
    mail,       \* codes that reached an address
    proven,     \* history: the codes that users gave back
    stage,      \* next step of each request
    draft       \* what each request carries to it

accountVars == <<row, catalogue, codes, sentCodes, mail, proven, stage, draft>>

Absent == "absent"

NoCode == [number |-> 0, to |-> "nobody"]

NoEmail == "none"

NoDraft == [user |-> "nobody"]

Registered(u) == row[u].email # Absent

AccountInit ==
    /\ row = [u \in Users |->
                [email |-> Absent, pending |-> NoEmail, verified |-> FALSE,
                 kind |-> "none", parts |-> {}]]
    /\ catalogue = TRUE
    /\ codes = [p \in Processes |-> [u \in Users |-> NoCode]]
    /\ sentCodes = 0
    /\ mail = {}
    /\ proven = {}
    /\ stage = [c \in Callers |-> "idle"]
    /\ draft = [c \in Callers |-> NoDraft]

Continue(c, label, value) ==
    /\ stage' = [stage EXCEPT ![c] = label]
    /\ draft' = [draft EXCEPT ![c] = value]

Finish(c) == Continue(c, "idle", NoDraft)

\* No other request is about the user, unless requests may overlap.
Turn(c, u) == Overlap \/ \A d \in Callers \ {c} : draft[d].user # u

Taken(email, u) == \E v \in Users \ {u} : row[v].email = email

\* The unique index on the e-mail makes a write wait for the end of another
\* transaction that inserted it.
IndexFree(c, email) ==
    \A d \in Callers \ {c} :
        stage[d] \in {"address", "services"} => draft[d].email # email

-----------------------------------------------------------------------------
\* What a registration writes, table by table.
RequiredParts(kind) ==
    IF kind = "PRESTADOR" THEN {"user", "address", "provider", "services"}
                          ELSE {"user", "address"}

\* Each kind of user has its strategy: which validations, in which order. The
\* first looks for the e-mail (or CPF) among the users.
Register(c) ==
    /\ stage[c] = "idle"
    /\ \E u \in Users, e \in Emails, kind \in {"CLIENTE", "PRESTADOR"} :
         /\ ~Registered(u)
         /\ \A d \in Callers : draft[d].user # u
         /\ ~Taken(e, u)
         /\ Continue(c, "createUser",
                     [user |-> u, email |-> e, kind |-> kind, parts |-> {}])
    /\ UNCHANGED <<row, catalogue, codes, sentCodes, mail, proven>>

\* The row is inserted, unless another with the e-mail was committed meanwhile.
InsertUser(c) ==
    /\ stage[c] = "createUser"
    /\ IndexFree(c, draft[c].email)
    /\ \/ /\ Taken(draft[c].email, draft[c].user)
          /\ Finish(c)
       \/ /\ ~Taken(draft[c].email, draft[c].user)
          /\ Continue(c, "address", [draft[c] EXCEPT !.parts = {"user"}])
    /\ UNCHANGED <<row, catalogue, codes, sentCodes, mail, proven>>

Commit(c, parts) ==
    row' = [row EXCEPT ![draft[c].user] =
              [email |-> draft[c].email, pending |-> NoEmail,
               verified |-> FALSE, kind |-> draft[c].kind, parts |-> parts]]

\* The address follows; a request without one is rolled back. It completes the
\* registration of a client.
CreateAddress(c) ==
    /\ stage[c] = "address"
    /\ LET parts == draft[c].parts \union {"address"}
       IN \/ Finish(c) /\ UNCHANGED row
          \/ /\ draft[c].kind = "CLIENTE"
             /\ Commit(c, parts)
             /\ Finish(c)
          \/ /\ draft[c].kind = "PRESTADOR"
             /\ Continue(c, "services", [draft[c] EXCEPT !.parts = parts])
             /\ UNCHANGED row
    /\ UNCHANGED <<catalogue, codes, sentCodes, mail, proven>>

\* Fault: a provider whose specialty is gone is registered without services.
registerWithout(c) ==
    /\ stage[c] = "services"
    /\ Commit(c, IF catalogue
                 THEN draft[c].parts \union {"provider", "services"}
                 ELSE draft[c].parts)
    /\ Finish(c)
    /\ UNCHANGED <<catalogue, codes, sentCodes, mail, proven>>

\* The provider, its location, its area and its services, if the specialties
\* are all active; otherwise everything is rolled back.
CreateServices(c) ==
    /\ stage[c] = "services"
    /\ \/ ~catalogue /\ UNCHANGED row
       \/ /\ catalogue
          /\ Commit(c, draft[c].parts \union {"provider", "services"})
    /\ Finish(c)
    /\ UNCHANGED <<catalogue, codes, sentCodes, mail, proven>>

SpecialtySwitched ==
    /\ catalogue' = ~catalogue
    /\ UNCHANGED <<row, codes, sentCodes, mail, proven, stage, draft>>

-----------------------------------------------------------------------------
\* Fault: a new address keeps the mark of the one before.
updateKeepingMark(c) ==
    /\ stage[c] = "idle"
    /\ \E u \in Users, e \in Emails :
         /\ Registered(u) /\ Turn(c, u)
         /\ IndexFree(c, e) /\ ~Taken(e, u)
         /\ row' = [row EXCEPT ![u].email = e, ![u].pending = NoEmail]
    /\ UNCHANGED <<catalogue, codes, sentCodes, mail, proven, stage, draft>>

\* An update of the profile may change the e-mail, unproven.
UpdateProfile(c) ==
    /\ stage[c] = "idle"
    /\ \E u \in Users, e \in Emails :
         /\ Registered(u) /\ Turn(c, u)
         /\ IndexFree(c, e) /\ ~Taken(e, u)
         /\ row' = [row EXCEPT ![u].email = e, ![u].verified = FALSE,
                               ![u].pending = NoEmail]
    /\ UNCHANGED <<catalogue, codes, sentCodes, mail, proven, stage, draft>>

\* The address to prove is stored with the user ...
RequestVerification(c) ==
    /\ stage[c] = "idle"
    /\ sentCodes < MaxCodes
    /\ \E u \in Users, e \in Emails :
         /\ Registered(u) /\ Turn(c, u)
         /\ row' = [row EXCEPT ![u].pending = e, ![u].verified = FALSE]
         /\ Continue(c, "code", [user |-> u, email |-> e])
    /\ UNCHANGED <<catalogue, codes, sentCodes, mail, proven>>

\* ... then a code replaces the last one that this process sent, and goes out;
\* the mail may fail.
SendCode(c) ==
    /\ stage[c] = "code"
    /\ sentCodes' = sentCodes + 1
    /\ \E p \in Processes :
         LET code == [number |-> sentCodes', to |-> draft[c].email]
         IN /\ codes' = [codes EXCEPT ![p][draft[c].user] = code]
            /\ mail' \in {mail, mail \union {code}}
    /\ Finish(c)
    /\ UNCHANGED <<row, catalogue, proven>>

\* A code is given back: the user's row is read first ...
ConfirmEmail(c) ==
    /\ stage[c] = "idle"
    /\ \E u \in Users, code \in mail :
         /\ Registered(u) /\ Turn(c, u)
         /\ row[u].pending # NoEmail
         /\ Continue(c, "verify",
                     [user |-> u, email |-> row[u].pending, code |-> code])
    /\ UNCHANGED <<row, catalogue, codes, sentCodes, mail, proven>>

\* Fault: any code that was once sent to the user will do.
verifyAny(c) ==
    /\ stage[c] = "verify"
    /\ proven' = proven \union {[user |-> draft[c].user, code |-> draft[c].code]}
    /\ Continue(c, "save", draft[c])
    /\ UNCHANGED <<row, catalogue, codes, sentCodes, mail>>

\* ... then the code is compared and spent ...
VerifyCode(c) ==
    /\ stage[c] = "verify"
    /\ \E p \in Processes :
         \/ /\ codes[p][draft[c].user] # draft[c].code
            /\ Finish(c)
            /\ UNCHANGED <<codes, proven>>
         \/ /\ codes[p][draft[c].user] = draft[c].code
            /\ codes' = [codes EXCEPT ![p][draft[c].user] = NoCode]
            /\ proven' = proven \union
                 {[user |-> draft[c].user, code |-> draft[c].code]}
            /\ Continue(c, "save", draft[c])
    /\ UNCHANGED <<row, catalogue, sentCodes, mail>>

\* ... and the address that was pending becomes the user's, unless somebody
\* else has it by now: then the code is spent all the same.
SaveEmail(c) ==
    /\ stage[c] = "save"
    /\ IndexFree(c, draft[c].email)
    /\ \/ Taken(draft[c].email, draft[c].user) /\ UNCHANGED row
       \/ /\ ~Taken(draft[c].email, draft[c].user)
          /\ row' = [row EXCEPT ![draft[c].user].email = draft[c].email,
                                ![draft[c].user].pending = NoEmail,
                                ![draft[c].user].verified = TRUE]
    /\ Finish(c)
    /\ UNCHANGED <<catalogue, codes, sentCodes, mail, proven>>

-----------------------------------------------------------------------------
\* A process dies: its codes are gone, and the transactions it ran undone.
Restart(p) ==
    /\ codes' = [codes EXCEPT ![p] = [u \in Users |-> NoCode]]
    /\ stage' = [c \in Callers |-> "idle"]
    /\ draft' = [c \in Callers |-> NoDraft]
    /\ UNCHANGED <<row, catalogue, sentCodes, mail, proven>>

AccountNext ==
    \/ SpecialtySwitched
    \/ \E p \in Processes : Restart(p)
    \/ \E c \in Callers :
         \/ Register(c) \/ InsertUser(c) \/ CreateAddress(c) \/ CreateServices(c)
         \/ UpdateProfile(c) \/ RequestVerification(c) \/ SendCode(c)
         \/ ConfirmEmail(c) \/ VerifyCode(c) \/ SaveEmail(c)

AccountSpec == AccountInit /\ [][AccountNext]_accountVars

-----------------------------------------------------------------------------
\* An account has every row its kind needs, or none, whichever step of its
\* registration failed, and no two accounts share an e-mail, although both
\* looked for it before either wrote it, and although profiles and confirmed
\* codes move addresses between them (create-provider.strategy.ts:24).
AccountsAreWhole ==
    /\ \A u \in Users :
         Registered(u) => row[u].parts = RequiredParts(row[u].kind)
    /\ \A u, v \in Users : Registered(u) /\ row[u].email = row[v].email => u = v

\* An address marked as verified is one whose code the user gave back, through
\* changes of the profile, repeated requests and restarts. It needs one process
\* and requests that do not overlap (user.service.ts:221).
VerifiedWasProven ==
    \A u \in Users : row[u].verified =>
        \E p \in proven : p.user = u /\ p.code.to = row[u].email

\* What an account says is so: its rows are all there, its e-mail is its own
\* and, where it is marked as verified, was shown to be.
AccountsTellTheTruth == AccountsAreWhole /\ VerifiedWasProven

=============================================================================
