--------------------------- MODULE AdminOperators ---------------------------
(***************************************************************************)
(* The administrative operators of the backoffice: invitation, activation, *)
(* roles, deactivation, passwords and the sessions these end. Commands run *)
(* in READ COMMITTED transactions that take no lock: between two of their  *)
(* statements, or while bcrypt hashes a password, other commands commit.   *)
(***************************************************************************)
EXTENDS Naturals, FiniteSets

CONSTANTS
    Operators,    \* people who are, or may be invited to be, operators
    Founders,     \* operators the database is seeded with
    Requests,     \* requests that may be in flight at the same time
    MaxTokens,    \* bound: invitations ever issued
    MaxVersion    \* bound: tokenVersion of an operator

ASSUME FoundersAssumption == Founders \subseteq Operators /\ Founders # {}

ASSUME BoundsAssumption == MaxTokens \in Nat /\ MaxVersion \in Nat

VARIABLES
    row,          \* AdminUser rows, NoRow where there is none yet
    tokens,       \* invitations issued so far
    sessions,     \* session tokens that were ever issued
    revoked,      \* those issued before a change that is to end them
    activations,  \* times each operator's password was set by an invitation
    request       \* what each request in flight is about to do

adminVars == <<row, tokens, sessions, revoked, activations, request>>

\* SUPPORT stands for every role that may not manage operators.
AdminRole == {"ADMINISTRATOR", "SUPPORT"}

Roles == AdminRole \cup {"NONE"}

\* passwordHash and activatedAt are only ever set together: "activated".
\* invitation numbers the token whose hash is stored, 0 for null.
Row == [role : Roles, active : BOOLEAN, activated : BOOLEAN,
        invitation : 0..MaxTokens, version : 0..MaxVersion]

NoRow == [role |-> "NONE", active |-> FALSE, activated |-> FALSE,
          invitation |-> 0, version |-> 0]

Session == [who : Operators, role : AdminRole, ver : 0..MaxVersion]

AdminSteps == {"create", "rotate", "activate", "count.role", "count.deactivate",
               "role", "deactivate", "reactivate", "password", "login"}

Idle == [step |-> "idle"]

\* A request with its next step, its target, and the role and the number it
\* carries: its arguments, or what it read and still relies on.
InFlight == [step : AdminSteps, who : Operators, role : Roles,
             number : 0..(MaxTokens + MaxVersion)]

AdminInit ==
    /\ row = [o \in Operators |->
                IF o \in Founders
                THEN [role |-> "ADMINISTRATOR", active |-> TRUE, activated |-> TRUE,
                      invitation |-> 0, version |-> 0]
                ELSE NoRow]
    /\ tokens = 0
    /\ sessions = {}
    /\ revoked = {}
    /\ activations = [o \in Operators |-> 0]
    /\ request = [r \in Requests |-> Idle]

-----------------------------------------------------------------------------
Exists(o) == row[o] # NoRow

ActiveAdministrators ==
    {o \in Operators : Exists(o) /\ row[o].active /\ row[o].role = "ADMINISTRATOR"}

\* Fault: a session is only checked for its role.
acceptedByRole(s) == row[s.who].active /\ row[s.who].role = s.role

\* AdminAuthGuard: validatePayload of a session's token.
Accepted(s) ==
    /\ Exists(s.who)
    /\ row[s.who].active
    /\ row[s.who].version = s.ver
    /\ row[s.who].role = s.role

\* A command on operators starts with a session of an administrator.
MayManage == \E s \in sessions : Accepted(s) /\ s.role = "ADMINISTRATOR"

\* Faults: tokenVersion is left alone, or counted down.
sameVersion(o) == row[o].version

previousVersion(o) == row[o].version - 1

nextVersion(o) == row[o].version + 1

WithinBound(o) == row[o].version < MaxVersion

SessionsOf(o) == {s \in sessions : s.who = o}

Start(r, step, o, role, number) ==
    request' = [request EXCEPT ![r] =
        [step |-> step, who |-> o, role |-> role, number |-> number]]

End(r) == request' = [request EXCEPT ![r] = Idle]

At(r, step) == request[r].step = step

-----------------------------------------------------------------------------
\* invite: the row of that email is read, then created or given a new token.
InviteRead(r, o, role) ==
    /\ At(r, "idle") /\ MayManage
    /\ tokens < MaxTokens
    /\ Exists(o) => ~row[o].active /\ ~row[o].activated
    /\ tokens' = tokens + 1
    /\ Start(r, IF Exists(o) THEN "rotate" ELSE "create", o, role, tokens')
    /\ UNCHANGED <<row, sessions, revoked, activations>>

\* The unique email refuses the second of two creations.
InviteCreate(r) ==
    LET q == request[r] IN
    /\ At(r, "create")
    /\ row' = IF Exists(q.who) THEN row
              ELSE [row EXCEPT ![q.who] =
                      [role |-> q.role, active |-> FALSE, activated |-> FALSE,
                       invitation |-> q.number, version |-> 0]]
    /\ End(r)
    /\ UNCHANGED <<tokens, sessions, revoked, activations>>

\* The row is given the new token and role whatever it says by now.
InviteRotate(r) ==
    LET q == request[r] IN
    /\ At(r, "rotate")
    /\ row' = [row EXCEPT ![q.who].role = q.role, ![q.who].invitation = q.number]
    /\ End(r)
    /\ UNCHANGED <<tokens, sessions, revoked, activations>>

\* activateInvitation: whoever holds the current token; the password is hashed
\* between the lookup and the claim.
ActivateRead(r, o) ==
    /\ At(r, "idle")
    /\ Exists(o) /\ row[o].invitation # 0
    /\ ~row[o].active /\ ~row[o].activated
    /\ Start(r, "activate", o, "NONE", row[o].invitation)
    /\ UNCHANGED <<row, tokens, sessions, revoked, activations>>

\* Fault: the claim is not conditioned on what the row says by then.
claimsAnyway(q) == TRUE

claimed(q) ==
    /\ ~row[q.who].active /\ ~row[q.who].activated
    /\ row[q.who].invitation = q.number

ActivateSave(r) ==
    LET q == request[r] IN
    /\ At(r, "activate") /\ WithinBound(q.who)
    /\ IF claimed(q)
       THEN /\ row' = [row EXCEPT ![q.who].active = TRUE, ![q.who].activated = TRUE,
                                  ![q.who].invitation = 0,
                                  ![q.who].version = nextVersion(q.who)]
            /\ activations' = [activations EXCEPT ![q.who] = @ + 1]
       ELSE UNCHANGED <<row, activations>>
    /\ End(r)
    /\ UNCHANGED <<tokens, sessions, revoked>>

-----------------------------------------------------------------------------
\* changeRole and deactivate: the operator is read; if it counts among the
\* active administrators, and no longer would, these are counted; it is written.
ChangeRoleRead(r, o, role) ==
    /\ At(r, "idle") /\ MayManage
    /\ Exists(o) /\ row[o].role # role
    /\ Start(r, IF o \in ActiveAdministrators THEN "count.role" ELSE "role", o, role, 0)
    /\ UNCHANGED <<row, tokens, sessions, revoked, activations>>

DeactivateRead(r, o) ==
    /\ At(r, "idle") /\ MayManage
    /\ Exists(o) /\ row[o].active
    /\ Start(r, IF o \in ActiveAdministrators THEN "count.deactivate"
                                              ELSE "deactivate", o, "NONE", 0)
    /\ UNCHANGED <<row, tokens, sessions, revoked, activations>>

\* Fault: the last administrator is not counted.
anyoneMayGo == TRUE

administratorWouldRemain == Cardinality(ActiveAdministrators) > 1

assertAdministratorWouldRemain(r) ==
    /\ At(r, "count.role") \/ At(r, "count.deactivate")
    /\ IF administratorWouldRemain
       THEN request' = [request EXCEPT ![r].step =
                          IF At(r, "count.role") THEN "role" ELSE "deactivate"]
       ELSE End(r)
    /\ UNCHANGED <<row, tokens, sessions, revoked, activations>>

\* A change that ends the sessions issued so far: tokenVersion is incremented.
Written(o, changed) ==
    /\ WithinBound(o)
    /\ row' = [row EXCEPT ![o] = [changed EXCEPT !.version = nextVersion(o)]]
    /\ revoked' = revoked \cup SessionsOf(o)

RoleSave(r) ==
    LET q == request[r] IN
    /\ At(r, "role")
    /\ Written(q.who, [row[q.who] EXCEPT !.role = q.role])
    /\ End(r)
    /\ UNCHANGED <<tokens, sessions, activations>>

DeactivateSave(r) ==
    LET q == request[r] IN
    /\ At(r, "deactivate")
    /\ Written(q.who, [row[q.who] EXCEPT !.active = FALSE])
    /\ End(r)
    /\ UNCHANGED <<tokens, sessions, activations>>

ReactivateRead(r, o) ==
    /\ At(r, "idle") /\ MayManage
    /\ Exists(o) /\ ~row[o].active /\ row[o].activated
    /\ Start(r, "reactivate", o, "NONE", 0)
    /\ UNCHANGED <<row, tokens, sessions, revoked, activations>>

ReactivateSave(r) ==
    LET q == request[r] IN
    /\ At(r, "reactivate")
    /\ Written(q.who, [row[q.who] EXCEPT !.active = TRUE])
    /\ End(r)
    /\ UNCHANGED <<tokens, sessions, activations>>

-----------------------------------------------------------------------------
\* changePassword of the operator's own session, with two bcrypt calls inside.
PasswordRead(r, o) ==
    /\ At(r, "idle")
    /\ \E s \in SessionsOf(o) : Accepted(s)
    /\ Start(r, "password", o, "NONE", 0)
    /\ UNCHANGED <<row, tokens, sessions, revoked, activations>>

PasswordSave(r) ==
    LET q == request[r] IN
    /\ At(r, "password")
    /\ Written(q.who, row[q.who])
    /\ End(r)
    /\ UNCHANGED <<tokens, sessions, activations>>

\* login: the token is made of the row read before the password is compared.
LoginRead(r, o) ==
    /\ At(r, "idle")
    /\ Exists(o) /\ row[o].active /\ row[o].activated
    /\ Start(r, "login", o, row[o].role, row[o].version)
    /\ UNCHANGED <<row, tokens, sessions, revoked, activations>>

LoginIssue(r) ==
    LET q == request[r]
        token == [who |-> q.who, role |-> q.role, ver |-> q.number]
    IN
    /\ At(r, "login")
    /\ sessions' = sessions \cup {token}
    /\ End(r)
    /\ UNCHANGED <<row, tokens, revoked, activations>>

\* A request dies: its transaction, if one is open, is rolled back.
Abort(r) ==
    /\ ~At(r, "idle")
    /\ End(r)
    /\ UNCHANGED <<row, tokens, sessions, revoked, activations>>

-----------------------------------------------------------------------------
AdminNext ==
    \E r \in Requests :
        \/ \E o \in Operators :
             \/ \E role \in AdminRole : InviteRead(r, o, role) \/ ChangeRoleRead(r, o, role)
             \/ ActivateRead(r, o) \/ DeactivateRead(r, o) \/ ReactivateRead(r, o)
             \/ PasswordRead(r, o) \/ LoginRead(r, o)
        \/ InviteCreate(r) \/ InviteRotate(r) \/ ActivateSave(r)
        \/ assertAdministratorWouldRemain(r) \/ RoleSave(r) \/ DeactivateSave(r)
        \/ ReactivateSave(r) \/ PasswordSave(r) \/ LoginIssue(r) \/ Abort(r)

AdminSpec == AdminInit /\ [][AdminNext]_adminVars

-----------------------------------------------------------------------------
\* Every variable holds one of the values its column allows.
AdminTypeOK ==
    /\ row \in [Operators -> Row]
    /\ tokens \in 0..MaxTokens
    /\ sessions \subseteq Session
    /\ revoked \subseteq Session
    /\ activations \in [Operators -> Nat]
    /\ request \in [Requests -> InFlight \cup {Idle}]

\* An invitation sets a password once, although it may be rotated, reused and
\* used twice at the same time while the passwords are being hashed.
ActivatedOnce == \A o \in Operators : activations[o] <= 1

\* A session that a change of role, password or status was to end is refused
\* for ever, also after later changes and later logins of the same operator.
RevokedStaysRefused == \A s \in revoked : ~Accepted(s)

\* The final active administrator is neither deactivated nor given another role.
AdministratorRemains == ActiveAdministrators # {}

\* The role of an active operator changes only together with tokenVersion.
RoleChangeBumpsVersion ==
    [][ \A o \in Operators :
          Exists(o) /\ row[o].active /\ row'[o].role # row[o].role
            => row'[o].version > row[o].version ]_adminVars

-----------------------------------------------------------------------------
(* Why the first two hold: what a request in flight may still rely on.     *)

\* Rows are never deleted, and a command carries what its row can take.
Relies(q) ==
    /\ q.step \notin {"idle", "create"} => Exists(q.who)
    /\ q.step \in {"create", "rotate", "count.role", "role", "login"} =>
         q.role \in AdminRole
    /\ q.step \in {"create", "rotate"} => q.number <= MaxTokens
    /\ q.step = "login" => q.number <= row[q.who].version

RequestInv == \A r \in Requests : Relies(request[r])

RowInv == \A o \in Operators : row[o].role = "NONE" => row[o] = NoRow

\* No session is ahead of its operator's version, one that was ended is behind.
SessionInv ==
    /\ \A s \in sessions : s.ver <= row[s.who].version
    /\ \A s \in revoked : s.ver < row[s.who].version

\* A password set by an invitation is never unset.
ActivationInv ==
    \A o \in Operators :
        /\ activations[o] <= 1
        /\ activations[o] = 1 => row[o].activated

AdminIInv == AdminTypeOK /\ RequestInv /\ RowInv /\ SessionInv /\ ActivationInv

=============================================================================
