----------------------------- MODULE AdminProofs -----------------------------
(***************************************************************************)
(* For any number of operators, requests, invitations and versions: an     *)
(* invitation sets a password once, and an ended session stays refused.    *)
(* The last part says which overlaps of commands lose the last             *)
(* administrator, or change a role behind the sessions: no other does.     *)
(***************************************************************************)
EXTENDS AdminOperators, FiniteSetTheorems, TLAPS

USE FoundersAssumption, BoundsAssumption

\* The seeded database satisfies the inductive invariant.
LEMMA AdminInitEstablishes ==
  ASSUME AdminInit
  PROVE  AdminIInv
  <1> USE DEF AdminInit
  <1>1. row \in [Operators -> Row] /\ RowInv
    BY DEF Row, Roles, AdminRole, NoRow, RowInv
  <1>2. AdminTypeOK
    BY <1>1 DEF AdminTypeOK, Idle
  <1>3. RequestInv
    BY DEF RequestInv, Relies, Idle
  <1>4. SessionInv /\ ActivationInv
    BY DEF SessionInv, ActivationInv
  <1> QED BY <1>1, <1>2, <1>3, <1>4 DEF AdminIInv

\* A request that starts has what it carries from the row it read.
LEMMA StartKeeps ==
  ASSUME AdminIInv, NEW r \in Requests, NEW o \in Operators,
         NEW step \in AdminSteps, NEW role \in Roles,
         NEW number \in 0..(MaxTokens + MaxVersion),
         step # "create" => Exists(o),
         step \in {"create", "rotate", "count.role", "role", "login"} =>
           role \in AdminRole,
         step \in {"create", "rotate"} => number <= MaxTokens,
         step = "login" => number <= row[o].version,
         Start(r, step, o, role, number), tokens' \in 0..MaxTokens,
         UNCHANGED <<row, sessions, revoked, activations>>
  PROVE  AdminIInv'
  <1> DEFINE q == [step |-> step, who |-> o, role |-> role, number |-> number]
  <1>1. request' = [request EXCEPT ![r] = q] /\ q \in InFlight
    BY DEF Start, InFlight
  <1>2. AdminTypeOK'
    BY <1>1 DEF AdminIInv, AdminTypeOK
  <1>3. \A x \in Requests : request'[x] = IF x = r THEN q ELSE request[x]
    BY <1>1 DEF AdminIInv, AdminTypeOK
  <1>4. RequestInv'
    BY <1>3 DEF AdminIInv, RequestInv, Relies, Exists
  <1>5. RowInv' /\ SessionInv' /\ ActivationInv'
    BY DEF AdminIInv, RowInv, SessionInv, ActivationInv
  <1> QED BY <1>2, <1>4, <1>5 DEF AdminIInv

\* When a request ends, the others still stand on the rows as they are then.
LEMMA EndKeepsRequests ==
  ASSUME AdminTypeOK, RequestInv, NEW r \in Requests, End(r),
         row' \in [Operators -> Row],
         \A o \in Operators : Exists(o) => Exists(o)',
         \A o \in Operators : row[o].version <= row'[o].version
  PROVE  RequestInv' /\ request' \in [Requests -> InFlight \cup {Idle}]
  <1>1. request' \in [Requests -> InFlight \cup {Idle}]
    BY DEF AdminTypeOK, End
  <1>2. ASSUME NEW x \in Requests
        PROVE  Relies(request[x])'
    <2>1. CASE x = r
      <3>1. request'[x] = Idle
        BY <2>1 DEF AdminTypeOK, End
      <3> QED BY <3>1 DEF Relies, Idle
    <2>2. CASE x # r
      <3>1. request'[x] = request[x] /\ Relies(request[x])
        BY <2>2 DEF AdminTypeOK, End, RequestInv
      <3>2. CASE request[x] = Idle
        BY <3>1, <3>2 DEF Relies, Idle
      <3>3. CASE request[x] \in InFlight
        <4>1. request[x].who \in Operators /\ request[x].number \in Nat
          BY <3>3 DEF InFlight
        <4>2. /\ row[request[x].who].version \in Nat
              /\ row'[request[x].who].version \in Nat
          BY <4>1 DEF AdminTypeOK, Row
        <4> QED BY <3>1, <4>1, <4>2 DEF Relies
      <3> QED BY <3>2, <3>3 DEF AdminTypeOK
    <2> QED BY <2>1, <2>2
  <1> QED BY <1>1, <1>2 DEF RequestInv

\* A request ends that changed nothing but the sessions or the invitations.
LEMMA EndKeeps ==
  ASSUME AdminIInv, NEW r \in Requests, End(r), UNCHANGED <<row, tokens>>,
         UNCHANGED <<sessions, revoked, activations>>
  PROVE  AdminIInv'
  <1> USE DEF AdminIInv
  <1>1. RequestInv' /\ request' \in [Requests -> InFlight \cup {Idle}]
    BY EndKeepsRequests DEF AdminTypeOK, Exists, Row
  <1>2. RowInv' /\ SessionInv' /\ ActivationInv'
    BY DEF RowInv, SessionInv, ActivationInv
  <1> QED BY <1>1, <1>2 DEF AdminTypeOK

\* A change that ends the sessions of its operator leaves them all behind.
LEMMA WrittenKeeps ==
  ASSUME AdminIInv, NEW r \in Requests, NEW o \in Operators, NEW changed \in Row,
         Exists(o), changed.role # "NONE",
         changed.version = row[o].version, changed.activated = row[o].activated,
         Written(o, changed), End(r), UNCHANGED <<tokens, sessions, activations>>
  PROVE  AdminIInv'
  <1> DEFINE new == [changed EXCEPT !.version = row[o].version + 1]
  <1>1. /\ new \in Row
        /\ new.role # "NONE" /\ new.activated = row[o].activated
        /\ new.version = row[o].version + 1
    BY DEF AdminIInv, AdminTypeOK, Row, Written, WithinBound
  <1>2. row' = [row EXCEPT ![o] = new]
    BY DEF Written, nextVersion
  <1>3. /\ row' \in [Operators -> Row]
        /\ \A p \in Operators : row'[p] = IF p = o THEN new ELSE row[p]
    BY <1>1, <1>2 DEF AdminIInv, AdminTypeOK
  <1> HIDE DEF new
  <1>4. \A p \in Operators : row[p].version \in Nat
    BY DEF AdminIInv, AdminTypeOK, Row
  <1>5. RequestInv' /\ request' \in [Requests -> InFlight \cup {Idle}]
    <2>1. ASSUME NEW p \in Operators, Exists(p)
          PROVE  Exists(p)'
      <3>1. CASE p = o
        <4>1. row'[p].role # "NONE" /\ NoRow.role = "NONE"
          BY <1>1, <1>3, <3>1 DEF NoRow
        <4> QED BY <4>1 DEF Exists
      <3>2. CASE p # o
        BY <1>3, <2>1, <3>2 DEF Exists
      <3> QED BY <3>1, <3>2
    <2>2. \A p \in Operators : row[p].version <= row'[p].version
      BY <1>1, <1>3, <1>4
    <2> QED BY <1>3, <2>1, <2>2, EndKeepsRequests DEF AdminIInv
  <1>6. AdminTypeOK'
    BY <1>3, <1>5 DEF AdminIInv, AdminTypeOK, Written, SessionsOf
  <1>7. RowInv'
    BY <1>1, <1>3 DEF AdminIInv, RowInv
  <1>8. SessionInv'
    <2>1. ASSUME NEW s \in sessions'
          PROVE  s.ver <= row'[s.who].version
      BY <1>1, <1>3, <1>4, <2>1 DEF AdminIInv, AdminTypeOK, SessionInv, Session
    <2>2. ASSUME NEW s \in revoked'
          PROVE  s.ver < row'[s.who].version
      <3>1. s.who \in Operators /\ s.ver \in Nat
        BY <1>6, <2>2 DEF AdminTypeOK, Session
      <3>2. \/ s \in revoked /\ s.ver < row[s.who].version
            \/ s.who = o /\ s.ver <= row[s.who].version
        BY <2>2 DEF AdminIInv, SessionInv, Written, SessionsOf
      <3> QED BY <1>1, <1>3, <1>4, <3>1, <3>2
    <2> QED BY <2>1, <2>2 DEF SessionInv
  <1>9. ActivationInv'
    BY <1>1, <1>3 DEF AdminIInv, ActivationInv
  <1> QED BY <1>5, <1>6, <1>7, <1>8, <1>9 DEF AdminIInv

\* What a request in flight carries has the types of InFlight.
LEMMA InFlightRequest ==
  ASSUME AdminIInv, NEW r \in Requests, request[r].step # "idle"
  PROVE  /\ request[r] \in InFlight /\ request[r].who \in Operators
         /\ request[r].number \in Nat /\ request[r].step \in AdminSteps
         /\ Relies(request[r]) /\ row[request[r].who] \in Row
  <1>1. request[r] \in InFlight /\ Relies(request[r])
    BY DEF AdminIInv, AdminTypeOK, RequestInv, Idle
  <1> QED BY <1>1 DEF AdminIInv, AdminTypeOK, InFlight

\* Commands and logins that start carry what they read.
LEMMA ReadsKeep ==
  ASSUME AdminIInv, NEW r \in Requests, NEW o \in Operators,
         \/ \E role \in AdminRole : InviteRead(r, o, role)
         \/ \E role \in AdminRole : ChangeRoleRead(r, o, role)
         \/ ActivateRead(r, o) \/ DeactivateRead(r, o) \/ ReactivateRead(r, o)
         \/ PasswordRead(r, o) \/ LoginRead(r, o)
  PROVE  AdminIInv'
  <1>1. row[o] \in Row /\ tokens \in 0..MaxTokens
    BY DEF AdminIInv, AdminTypeOK
  <1>2. 0 \in 0..(MaxTokens + MaxVersion) /\ "NONE" \in Roles
    BY DEF Roles
  <1>3. ASSUME NEW role \in AdminRole, InviteRead(r, o, role)
        PROVE  AdminIInv'
    <2>1. tokens' \in 0..MaxTokens /\ tokens' \in 0..(MaxTokens + MaxVersion)
      BY <1>1, <1>3 DEF InviteRead
    <2> QED
      BY <1>3, <2>1, StartKeeps DEF InviteRead, AdminSteps, Roles
  <1>4. ASSUME NEW role \in AdminRole, ChangeRoleRead(r, o, role)
        PROVE  AdminIInv'
    BY <1>1, <1>2, <1>4, StartKeeps DEF ChangeRoleRead, AdminSteps, Roles
  <1>5. CASE ActivateRead(r, o)
    <2>1. row[o].invitation \in 0..(MaxTokens + MaxVersion)
      BY <1>1 DEF Row
    <2> QED
      BY <1>1, <1>2, <1>5, <2>1, StartKeeps DEF ActivateRead, AdminSteps
  <1>6. CASE DeactivateRead(r, o) \/ ReactivateRead(r, o)
    BY <1>1, <1>2, <1>6, StartKeeps DEF DeactivateRead, ReactivateRead,
       AdminSteps
  <1>7. CASE PasswordRead(r, o)
    <2>1. Exists(o)
      BY <1>7 DEF PasswordRead, SessionsOf, Accepted
    <2> QED BY <1>1, <1>2, <1>7, <2>1, StartKeeps DEF PasswordRead, AdminSteps
  <1>8. CASE LoginRead(r, o)
    <2>1. row[o].version \in 0..(MaxTokens + MaxVersion)
      BY <1>1 DEF Row
    <2>2. row[o].role \in AdminRole
      BY <1>1, <1>8 DEF LoginRead, Exists, AdminIInv, RowInv, Row, Roles
    <2>3. row[o].version <= row[o].version
      BY <2>1
    <2> QED
      BY <1>1, <1>8, <2>1, <2>2, <2>3, StartKeeps DEF LoginRead, AdminSteps,
         Roles
  <1> QED BY <1>3, <1>4, <1>5, <1>6, <1>7, <1>8

\* Each of the four changes that end sessions keeps role and activation legal.
LEMMA ChangesKeep ==
  ASSUME AdminIInv, NEW r \in Requests,
         RoleSave(r) \/ DeactivateSave(r) \/ ReactivateSave(r) \/ PasswordSave(r)
  PROVE  AdminIInv'
  <1> DEFINE q == request[r]
             old == row[q.who]
  <1>1. /\ q.who \in Operators /\ old \in Row /\ Exists(q.who)
        /\ q.step = "role" => q.role \in AdminRole
    BY InFlightRequest DEF RoleSave, DeactivateSave, ReactivateSave,
       PasswordSave, At, Relies
  <1>2. old.role # "NONE"
    BY <1>1 DEF AdminIInv, RowInv, Exists
  <1>3. CASE RoleSave(r)
    <2> DEFINE changed == [old EXCEPT !.role = q.role]
    <2>1. /\ changed \in Row /\ changed.role # "NONE"
          /\ changed.version = old.version /\ changed.activated = old.activated
      BY <1>1, <1>3 DEF RoleSave, At, Row, Roles, AdminRole
    <2>2. /\ Written(q.who, changed) /\ End(r)
          /\ UNCHANGED <<tokens, sessions, activations>>
      BY <1>3 DEF RoleSave
    <2> HIDE DEF changed
    <2> QED BY <1>1, <2>1, <2>2, WrittenKeeps
  <1>4. CASE DeactivateSave(r)
    <2> DEFINE changed == [old EXCEPT !.active = FALSE]
    <2>1. /\ changed \in Row /\ changed.role # "NONE"
          /\ changed.version = old.version /\ changed.activated = old.activated
      BY <1>1, <1>2 DEF Row
    <2>2. /\ Written(q.who, changed) /\ End(r)
          /\ UNCHANGED <<tokens, sessions, activations>>
      BY <1>4 DEF DeactivateSave
    <2> HIDE DEF changed
    <2> QED BY <1>1, <2>1, <2>2, WrittenKeeps
  <1>5. CASE ReactivateSave(r)
    <2> DEFINE changed == [old EXCEPT !.active = TRUE]
    <2>1. /\ changed \in Row /\ changed.role # "NONE"
          /\ changed.version = old.version /\ changed.activated = old.activated
      BY <1>1, <1>2 DEF Row
    <2>2. /\ Written(q.who, changed) /\ End(r)
          /\ UNCHANGED <<tokens, sessions, activations>>
      BY <1>5 DEF ReactivateSave
    <2> HIDE DEF changed
    <2> QED BY <1>1, <2>1, <2>2, WrittenKeeps
  <1>6. CASE PasswordSave(r)
    BY <1>1, <1>2, <1>6, WrittenKeeps DEF PasswordSave
  <1> QED BY <1>3, <1>4, <1>5, <1>6

\* An invitation or an activation writes one row, and no version goes back.
LEMMA RowWrittenKeeps ==
  ASSUME AdminIInv, NEW r \in Requests, NEW o \in Operators, NEW new \in Row,
         row' = [row EXCEPT ![o] = new], new.role # "NONE",
         row[o].version <= new.version, End(r),
         UNCHANGED <<tokens, sessions, revoked>>,
         activations' \in [Operators -> Nat], ActivationInv'
  PROVE  AdminIInv'
  <1>1. /\ row' \in [Operators -> Row]
        /\ \A p \in Operators : row'[p] = IF p = o THEN new ELSE row[p]
    BY DEF AdminIInv, AdminTypeOK
  <1>2. \A p \in Operators : row[p].version \in Nat /\ row'[p].version \in Nat
    BY <1>1 DEF AdminIInv, AdminTypeOK, Row
  <1>3. RequestInv' /\ request' \in [Requests -> InFlight \cup {Idle}]
    <2>1. ASSUME NEW p \in Operators, Exists(p)
          PROVE  Exists(p)'
      <3>1. CASE p = o
        <4>1. row'[p].role # "NONE" /\ NoRow.role = "NONE"
          BY <1>1, <3>1 DEF NoRow
        <4> QED BY <4>1 DEF Exists
      <3>2. CASE p # o
        BY <1>1, <2>1, <3>2 DEF Exists
      <3> QED BY <3>1, <3>2
    <2>2. \A p \in Operators : row[p].version <= row'[p].version
      BY <1>1, <1>2
    <2> QED BY <1>1, <2>1, <2>2, EndKeepsRequests DEF AdminIInv
  <1>4. AdminTypeOK'
    BY <1>1, <1>3 DEF AdminIInv, AdminTypeOK
  <1>5. RowInv'
    BY <1>1 DEF AdminIInv, RowInv
  <1>6. SessionInv'
    <2>1. ASSUME NEW s \in sessions' \cup revoked'
          PROVE  /\ s.ver \in Nat /\ row[s.who].version \in Nat
                 /\ row'[s.who].version \in Nat
                 /\ row[s.who].version <= row'[s.who].version
      <3>1. s.who \in Operators /\ s.ver \in Nat
        BY <1>4, <2>1 DEF AdminTypeOK, Session
      <3> QED BY <1>1, <1>2, <3>1
    <2> QED BY <2>1 DEF AdminIInv, SessionInv
  <1> QED BY <1>3, <1>4, <1>5, <1>6 DEF AdminIInv

\* Invitations only create a row that was never activated, or leave the
\* activation of an existing one alone.
LEMMA InvitationsKeep ==
  ASSUME AdminIInv, NEW r \in Requests, InviteCreate(r) \/ InviteRotate(r)
  PROVE  AdminIInv'
  <1> DEFINE q == request[r]
             old == row[q.who]
  <1>1. /\ q.who \in Operators /\ old \in Row /\ q.role \in AdminRole
        /\ q.number \in 0..MaxTokens
    BY InFlightRequest DEF InviteCreate, InviteRotate, At, Relies, InFlight
  <1>2. old.version \in Nat /\ row \in [Operators -> Row]
    BY <1>1 DEF Row, AdminIInv, AdminTypeOK
  <1>3. activations' \in [Operators -> Nat]
    BY DEF InviteCreate, InviteRotate, AdminIInv, AdminTypeOK
  <1>4. CASE InviteCreate(r) /\ Exists(q.who)
    BY <1>4, EndKeeps DEF InviteCreate
  <1>5. CASE InviteCreate(r) /\ ~Exists(q.who)
    <2> DEFINE new == [role |-> q.role, active |-> FALSE, activated |-> FALSE,
                       invitation |-> q.number, version |-> 0]
    <2>1. row' = [row EXCEPT ![q.who] = new]
      BY <1>5 DEF InviteCreate
    <2>2. new \in Row /\ new.role # "NONE"
      BY <1>1 DEF Row, Roles, AdminRole
    <2>3. old.version = 0 /\ ~old.activated /\ new.version = 0
      <3>1. old = NoRow
        BY <1>5 DEF Exists
      <3> QED BY <3>1 DEF NoRow
    <2>4. /\ End(r) /\ UNCHANGED <<tokens, sessions, revoked>>
          /\ UNCHANGED activations
      BY <1>5 DEF InviteCreate
    <2> HIDE DEF new
    <2>5. ActivationInv'
      BY <1>1, <1>2, <2>1, <2>3, <2>4 DEF AdminIInv, ActivationInv
    <2>6. old.version <= new.version
      BY <2>3
    <2> QED
      BY <1>1, <1>3, <2>1, <2>2, <2>4, <2>5, <2>6, RowWrittenKeeps
  <1>6. CASE InviteRotate(r)
    <2> DEFINE new == [old EXCEPT !.role = q.role, !.invitation = q.number]
    <2>1. row' = [row EXCEPT ![q.who] = new]
      BY <1>1, <1>2, <1>6 DEF InviteRotate
    <2>2. /\ new \in Row /\ new.role # "NONE"
          /\ new.version = old.version /\ new.activated = old.activated
      BY <1>1 DEF Row, Roles, AdminRole
    <2>3. /\ End(r) /\ UNCHANGED <<tokens, sessions, revoked>>
          /\ UNCHANGED activations
      BY <1>6 DEF InviteRotate
    <2> HIDE DEF new
    <2>4. ActivationInv'
      BY <1>1, <1>2, <2>1, <2>2, <2>3 DEF AdminIInv, ActivationInv
    <2>5. old.version <= new.version
      BY <1>2, <2>2
    <2> QED
      BY <1>1, <1>3, <2>1, <2>2, <2>3, <2>4, <2>5, RowWrittenKeeps
  <1> QED BY <1>4, <1>5, <1>6

\* The claim of an activation finds its row as it was never activated.
LEMMA ActivateSaveKeeps ==
  ASSUME AdminIInv, NEW r \in Requests, ActivateSave(r)
  PROVE  AdminIInv'
  <1> DEFINE q == request[r]
             old == row[q.who]
             new == [old EXCEPT !.active = TRUE, !.activated = TRUE,
                                !.invitation = 0, !.version = old.version + 1]
  <1>1. q.who \in Operators /\ old \in Row /\ Exists(q.who)
    BY InFlightRequest DEF ActivateSave, At, Relies
  <1>2. old.version \in Nat /\ old.role # "NONE" /\ row \in [Operators -> Row]
    BY <1>1 DEF Row, AdminIInv, AdminTypeOK, RowInv, Exists
  <1>3. CASE ~claimed(q)
    BY <1>3, EndKeeps DEF ActivateSave
  <1>4. CASE claimed(q)
    <2>1. row' = [row EXCEPT ![q.who] = new]
      BY <1>1, <1>2, <1>4 DEF ActivateSave, nextVersion
    <2>2. /\ new \in Row /\ new.role # "NONE" /\ new.activated
          /\ new.version = old.version + 1
      <3>1. old.version + 1 \in 0..MaxVersion
        BY <1>2 DEF ActivateSave, WithinBound
      <3>2. 0 \in 0..MaxTokens
        OBVIOUS
      <3>3. /\ old.role \in Roles /\ new.role = old.role
            /\ new.active = TRUE /\ new.activated = TRUE
            /\ new.invitation = 0 /\ new.version = old.version + 1
        BY <1>1 DEF Row
      <3>4. new \in Row
        BY <1>1, <3>1, <3>2 DEF Row
      <3> QED BY <1>2, <3>3, <3>4
    <2>3. /\ End(r) /\ UNCHANGED <<tokens, sessions, revoked>>
          /\ activations' = [activations EXCEPT ![q.who] = @ + 1]
      BY <1>4 DEF ActivateSave
    <2> HIDE DEF new
    <2>4. activations \in [Operators -> Nat] /\ activations[q.who] = 0
      BY <1>1, <1>4 DEF AdminIInv, AdminTypeOK, ActivationInv, claimed
    <2>5. activations' \in [Operators -> Nat]
      BY <1>1, <2>3, <2>4
    <2>6. ActivationInv'
      BY <1>1, <1>2, <2>1, <2>2, <2>3, <2>4 DEF AdminIInv, ActivationInv
    <2>7. old.version <= new.version
      BY <1>2, <2>2
    <2> QED
      BY <1>1, <2>1, <2>2, <2>3, <2>5, <2>6, <2>7, RowWrittenKeeps
  <1> QED BY <1>3, <1>4

\* A login gives the session the version its request read, never a later one.
LEMMA LoginIssueKeeps ==
  ASSUME AdminIInv, NEW r \in Requests, LoginIssue(r)
  PROVE  AdminIInv'
  <1> DEFINE q == request[r]
             token == [who |-> q.who, role |-> q.role, ver |-> q.number]
  <1>1. /\ q.who \in Operators /\ q.role \in AdminRole
        /\ q.number \in Nat /\ q.number <= row[q.who].version
        /\ row[q.who].version \in 0..MaxVersion
    BY InFlightRequest DEF LoginIssue, At, Relies, Row
  <1>2. /\ token \in Session /\ token.who = q.who /\ token.ver = q.number
    BY <1>1 DEF Session
  <1>3. /\ sessions' = sessions \cup {token} /\ End(r)
        /\ UNCHANGED <<row, tokens, revoked, activations>>
    BY DEF LoginIssue
  <1> HIDE DEF token
  <1>4. RequestInv' /\ request' \in [Requests -> InFlight \cup {Idle}]
    BY <1>3, EndKeepsRequests DEF AdminIInv, AdminTypeOK, Exists, Row
  <1>5. AdminTypeOK'
    BY <1>2, <1>3, <1>4 DEF AdminIInv, AdminTypeOK
  <1>6. RowInv' /\ ActivationInv'
    BY <1>3 DEF AdminIInv, RowInv, ActivationInv
  <1>7. SessionInv'
    BY <1>1, <1>2, <1>3 DEF AdminIInv, SessionInv
  <1> QED BY <1>4, <1>5, <1>6, <1>7 DEF AdminIInv

\* Counting the administrators only moves the request on, or ends it.
LEMMA CountKeeps ==
  ASSUME AdminIInv, NEW r \in Requests, assertAdministratorWouldRemain(r)
  PROVE  AdminIInv'
  <1> DEFINE q == request[r]
             step == IF At(r, "count.role") THEN "role" ELSE "deactivate"
             new == [q EXCEPT !.step = step]
  <1>1. q \in InFlight /\ Relies(q) /\ q.step \in {"count.role", "count.deactivate"}
    BY InFlightRequest DEF assertAdministratorWouldRemain, At
  <1>2. CASE ~administratorWouldRemain
    BY <1>2, EndKeeps DEF assertAdministratorWouldRemain
  <1>3. CASE administratorWouldRemain
    <2>1. /\ request' = [request EXCEPT ![r].step = step]
          /\ UNCHANGED <<row, tokens, sessions, revoked, activations>>
      BY <1>3 DEF assertAdministratorWouldRemain
    <2>2. /\ new \in InFlight /\ new.step = step /\ new.who = q.who
          /\ new.role = q.role
      BY <1>1 DEF InFlight, AdminSteps
    <2>3. \A x \in Requests : request'[x] = IF x = r THEN new ELSE request[x]
      BY <2>1 DEF AdminIInv, AdminTypeOK
    <2>4. request' \in [Requests -> InFlight \cup {Idle}]
      BY <2>1, <2>2 DEF AdminIInv, AdminTypeOK
    <2>5. Relies(new)
      BY <1>1, <2>2 DEF Relies, At
    <2>6. RequestInv'
      BY <2>1, <2>3, <2>5 DEF AdminIInv, RequestInv, Relies, Exists
    <2>7. (RowInv /\ SessionInv /\ ActivationInv)'
      BY <2>1 DEF AdminIInv, RowInv, SessionInv, ActivationInv
    <2> QED BY <2>1, <2>4, <2>6, <2>7 DEF AdminIInv, AdminTypeOK
  <1> QED BY <1>2, <1>3

-----------------------------------------------------------------------------
\* In every reachable state, what each request in flight relies on is true.
THEOREM AdminIInvHolds == AdminSpec => []AdminIInv
  <1>1. AdminInit => AdminIInv
    BY AdminInitEstablishes
  <1>2. ASSUME AdminIInv, [AdminNext]_adminVars
        PROVE  AdminIInv'
    <2>1. CASE UNCHANGED adminVars
      <3>1. AdminTypeOK' /\ RowInv' /\ SessionInv' /\ ActivationInv'
        BY <1>2, <2>1 DEF adminVars, AdminIInv, AdminTypeOK, RowInv, SessionInv,
           ActivationInv
      <3>2. RequestInv'
        BY <1>2, <2>1 DEF adminVars, AdminIInv, RequestInv, Relies, Exists
      <3> QED BY <3>1, <3>2 DEF AdminIInv
    <2>2. ASSUME NEW r \in Requests, Abort(r)
          PROVE  AdminIInv'
      BY <1>2, <2>2, EndKeeps DEF Abort
    <2> QED
      BY <1>2, <2>1, <2>2, ReadsKeep, ChangesKeep, InvitationsKeep,
         ActivateSaveKeeps, LoginIssueKeeps, CountKeeps DEF AdminNext
  <1> QED BY <1>1, <1>2, PTL DEF AdminSpec

\* Every row, session and request keeps its type, for any bounds.
THEOREM AdminTypeIsCorrect == AdminSpec => []AdminTypeOK
  <1>1. AdminIInv => AdminTypeOK
    BY DEF AdminIInv
  <1> QED BY <1>1, AdminIInvHolds, PTL

\* An invitation sets a password once, however often it is used at once.
THEOREM InvitationIsUsedOnce == AdminSpec => []ActivatedOnce
  <1>1. AdminIInv => ActivatedOnce
    BY DEF AdminIInv, ActivationInv, ActivatedOnce
  <1> QED BY <1>1, AdminIInvHolds, PTL

\* A session that was to end is refused for ever, for any number of changes.
THEOREM EndedSessionIsRefused == AdminSpec => []RevokedStaysRefused
  <1>1. AdminIInv => RevokedStaysRefused
    <2> SUFFICES ASSUME AdminIInv, NEW s \in revoked
                 PROVE  ~Accepted(s)
      BY DEF RevokedStaysRefused
    <2>1. s.ver < row[s.who].version /\ s \in Session
      BY DEF AdminIInv, AdminTypeOK, SessionInv
    <2>2. s.ver \in Nat /\ row[s.who].version \in Nat
      BY <2>1 DEF AdminIInv, AdminTypeOK, Session, Row
    <2> QED BY <2>1, <2>2 DEF Accepted
  <1> QED BY <1>1, AdminIInvHolds, PTL

-----------------------------------------------------------------------------
(* What the commands keep unless they overlap in one of two ways, which are *)
(* those of the two findings about operators.                               *)

Removes(r) ==
  request[r].step \in {"count.role", "count.deactivate", "role", "deactivate"}

\* Of the commands that may take an administrator away, one at a time is
\* between its first read and its write.
RemovalsApart == \A r, s \in Requests : Removes(r) /\ Removes(s) => r = s

\* No invitation is renewed while it is being used.
RenewalsApart ==
  \A r, s \in Requests :
    At(r, "rotate") /\ At(s, "activate") => request[r].who # request[s].who

\* A removal that was let through leaves someone.
OthersRemain(r) ==
  request[r].step \in {"role", "deactivate"} =>
    ActiveAdministrators \ {request[r].who} # {}

\* A row stays as it was read: one that is renewed was never activated, one
\* that is reactivated was.
StaysAsRead(r) ==
  /\ At(r, "rotate") =>
       ~row[request[r].who].active /\ ~row[request[r].who].activated
  /\ At(r, "reactivate") => row[request[r].who].activated

ReadsStand == \A r \in Requests : StaysAsRead(r)

\* What a step of a request may do to the rows.
RowsMove(r) ==
  LET o == request[r].who IN
  /\ \A p \in Operators : row'[p].active /\ ~row[p].active =>
       p = o /\ (At(r, "activate") \/ At(r, "reactivate"))
  /\ \A p \in Operators : Exists(p) /\ row'[p].activated /\ ~row[p].activated =>
       p = o /\ At(r, "activate")
  /\ \A p \in Operators : row[p].activated => row'[p].activated
  /\ \A p \in ActiveAdministrators :
       p \in ActiveAdministrators' \/
         (p = o /\ request[r].step \in {"role", "deactivate"})
  /\ \A p \in Operators : row[p].active /\ row'[p].role # row[p].role =>
       row'[p].version > row[p].version

LEMMA RowsRest ==
  ASSUME NEW r \in Requests, row' = row
  PROVE  RowsMove(r)
  BY DEF RowsMove, ActiveAdministrators, Exists

\* One row is written.
LEMMA OneRowMoves ==
  ASSUME AdminIInv, NEW r \in Requests, NEW o \in Operators, NEW new \in Row,
         o = request[r].who, row' = [row EXCEPT ![o] = new], new.role # "NONE",
         new.active /\ ~row[o].active => At(r, "activate") \/ At(r, "reactivate"),
         Exists(o) /\ new.activated /\ ~row[o].activated => At(r, "activate"),
         row[o].activated => new.activated,
         row[o].active => /\ new.role # row[o].role => new.version > row[o].version
                          /\ \/ new.active /\ new.role = row[o].role
                             \/ request[r].step \in {"role", "deactivate"}
  PROVE  RowsMove(r)
  <1>1. \A p \in Operators : row'[p] = IF p = o THEN new ELSE row[p]
    BY DEF AdminIInv, AdminTypeOK
  <1>2. Exists(o)' /\ \A p \in Operators \ {o} : Exists(p) => Exists(p)'
    BY <1>1 DEF Exists, NoRow
  <1> QED BY <1>1, <1>2 DEF RowsMove, ActiveAdministrators

\* A change that ends sessions moves the version, and what it is told to.
LEMMA WrittenMoves ==
  ASSUME AdminIInv, NEW r \in Requests, NEW o \in Operators, NEW changed \in Row,
         o = request[r].who, Exists(o), changed.role # "NONE",
         changed.version = row[o].version, changed.activated = row[o].activated,
         Written(o, changed),
         changed.active /\ ~row[o].active => At(r, "reactivate"),
         \/ changed.active /\ changed.role = row[o].role
         \/ ~row[o].active
         \/ request[r].step \in {"role", "deactivate"}
  PROVE  RowsMove(r)
  <1> DEFINE new == [changed EXCEPT !.version = row[o].version + 1]
  <1>1. row[o].version \in Nat /\ row[o].version + 1 \in 0..MaxVersion
    BY DEF AdminIInv, AdminTypeOK, Row, Written, WithinBound
  <1>2. /\ new \in Row /\ new.role = changed.role /\ new.active = changed.active
        /\ new.activated = changed.activated /\ new.version = row[o].version + 1
    BY <1>1 DEF Row
  <1>3. row' = [row EXCEPT ![o] = new]
    BY DEF Written, nextVersion
  <1>4. new.version > row[o].version
    BY <1>1, <1>2
  <1> HIDE DEF new
  <1> QED BY <1>2, <1>3, <1>4, OneRowMoves

LEMMA ChangesMove ==
  ASSUME AdminIInv, NEW r \in Requests,
         RoleSave(r) \/ DeactivateSave(r) \/ ReactivateSave(r) \/ PasswordSave(r)
  PROVE  RowsMove(r) /\ End(r)
  <1> DEFINE q == request[r]
             old == row[q.who]
  <1>1. /\ q.who \in Operators /\ old \in Row /\ Exists(q.who)
        /\ q.step = "role" => q.role \in AdminRole
    BY InFlightRequest DEF RoleSave, DeactivateSave, ReactivateSave,
       PasswordSave, At, Relies
  <1>2. old.role # "NONE"
    BY <1>1 DEF AdminIInv, RowInv, Exists
  <1>3. CASE RoleSave(r)
    <2> DEFINE changed == [old EXCEPT !.role = q.role]
    <2>1. /\ changed \in Row /\ changed.role # "NONE" /\ changed.active = old.active
          /\ changed.version = old.version /\ changed.activated = old.activated
      BY <1>1, <1>3 DEF RoleSave, At, Row, Roles, AdminRole
    <2>2. Written(q.who, changed) /\ End(r) /\ q.step = "role"
      BY <1>3 DEF RoleSave, At
    <2> HIDE DEF changed
    <2> QED BY <1>1, <2>1, <2>2, WrittenMoves
  <1>4. CASE DeactivateSave(r)
    <2> DEFINE changed == [old EXCEPT !.active = FALSE]
    <2>1. /\ changed \in Row /\ changed.role # "NONE" /\ changed.active = FALSE
          /\ changed.version = old.version /\ changed.activated = old.activated
      BY <1>1, <1>2 DEF Row
    <2>2. Written(q.who, changed) /\ End(r) /\ q.step = "deactivate"
      BY <1>4 DEF DeactivateSave, At
    <2> HIDE DEF changed
    <2> QED BY <1>1, <2>1, <2>2, WrittenMoves
  <1>5. CASE ReactivateSave(r)
    <2> DEFINE changed == [old EXCEPT !.active = TRUE]
    <2>1. /\ changed \in Row /\ changed.role = old.role /\ changed.active = TRUE
          /\ changed.version = old.version /\ changed.activated = old.activated
      BY <1>1, <1>2 DEF Row
    <2>2. Written(q.who, changed) /\ End(r) /\ At(r, "reactivate")
      BY <1>5 DEF ReactivateSave
    <2> HIDE DEF changed
    <2> QED BY <1>1, <1>2, <2>1, <2>2, WrittenMoves
  <1>6. CASE PasswordSave(r)
    <2>1. Written(q.who, old) /\ End(r)
      BY <1>6 DEF PasswordSave
    <2> HIDE DEF old
    <2>2. old = row[q.who]
      BY DEF old
    <2>3. old.active = TRUE \/ ~old.active
      BY <1>1 DEF Row
    <2> QED BY <1>1, <1>2, <2>1, <2>2, <2>3, WrittenMoves
  <1> QED BY <1>3, <1>4, <1>5, <1>6

LEMMA InvitationsMove ==
  ASSUME AdminIInv, ReadsStand, NEW r \in Requests,
         InviteCreate(r) \/ InviteRotate(r) \/ ActivateSave(r)
  PROVE  RowsMove(r) /\ End(r)
  <1> DEFINE q == request[r]
             old == row[q.who]
  <1>1. /\ q.who \in Operators /\ old \in Row
        /\ q.step \in {"create", "rotate"} =>
             q.role \in AdminRole /\ q.number \in 0..MaxTokens
        /\ q.step \in {"rotate", "activate"} => Exists(q.who)
    BY InFlightRequest DEF InviteCreate, InviteRotate, ActivateSave, At, Relies
  <1>2. CASE InviteCreate(r)
    <2> DEFINE new == [role |-> q.role, active |-> FALSE, activated |-> FALSE,
                       invitation |-> q.number, version |-> 0]
    <2>1. End(r) /\ q.step = "create"
      BY <1>2 DEF InviteCreate, At
    <2>2. CASE Exists(q.who)
      <3>1. row' = row
        BY <1>2, <2>2 DEF InviteCreate
      <3> QED BY <2>1, <3>1, RowsRest
    <2>3. CASE ~Exists(q.who)
      <3>1. row' = [row EXCEPT ![q.who] = new]
        BY <1>2, <2>3 DEF InviteCreate
      <3>2. /\ new \in Row /\ new.role # "NONE" /\ new.active = FALSE
            /\ new.activated = FALSE
        BY <1>1, <2>1 DEF Row, Roles, AdminRole
      <3>3. old.active = FALSE /\ old.activated = FALSE
        BY <2>3 DEF Exists, NoRow
      <3> HIDE DEF new
      <3> QED BY <1>1, <2>1, <3>1, <3>2, <3>3, OneRowMoves
    <2> QED BY <2>2, <2>3
  <1>3. CASE InviteRotate(r)
    <2> DEFINE new == [old EXCEPT !.role = q.role, !.invitation = q.number]
    <2>1. End(r) /\ q.step = "rotate" /\ At(r, "rotate")
      BY <1>3 DEF InviteRotate, At
    <2>2. row' = [row EXCEPT ![q.who] = new]
      BY <1>3 DEF InviteRotate
    <2>3. /\ new \in Row /\ new.role # "NONE" /\ new.active = old.active
          /\ new.activated = old.activated
      BY <1>1, <2>1 DEF Row, Roles, AdminRole
    <2>4. ~old.active /\ ~old.activated
      BY <2>1 DEF ReadsStand, StaysAsRead
    <2> HIDE DEF new
    <2> QED BY <1>1, <2>1, <2>2, <2>3, <2>4, OneRowMoves
  <1>4. CASE ActivateSave(r)
    <2> DEFINE new == [old EXCEPT !.active = TRUE, !.activated = TRUE,
                                  !.invitation = 0, !.version = old.version + 1]
    <2>1. End(r) /\ At(r, "activate") /\ q.step = "activate"
      BY <1>4 DEF ActivateSave, At
    <2>2. CASE ~claimed(q)
      <3>1. row' = row
        BY <1>4, <2>2 DEF ActivateSave
      <3> QED BY <2>1, <3>1, RowsRest
    <2>3. CASE claimed(q)
      <3>1. row' = [row EXCEPT ![q.who] = new]
        BY <1>4, <2>3 DEF ActivateSave, nextVersion
      <3>2. old.version + 1 \in 0..MaxVersion /\ 0 \in 0..MaxTokens
        BY <1>1, <1>4 DEF ActivateSave, WithinBound, Row
      <3>3. /\ new \in Row /\ new.role = old.role /\ new.active = TRUE
            /\ new.activated = TRUE
        BY <1>1, <3>2 DEF Row
      <3>4. ~old.active /\ old.role # "NONE"
        BY <1>1, <2>1, <2>3 DEF claimed, AdminIInv, RowInv, Exists
      <3> HIDE DEF new
      <3> QED BY <1>1, <2>1, <3>1, <3>3, <3>4, OneRowMoves
    <2> QED BY <2>2, <2>3
  <1> QED BY <1>2, <1>3, <1>4

\* What the steps of the other requests leave of what a request has read.
LEMMA ReadsStandFor ==
  ASSUME AdminIInv, ReadsStand, RenewalsApart, NEW r \in Requests, RowsMove(r),
         NEW x \in Requests, x # r, request'[x] = request[x]
  PROVE  StaysAsRead(x)'
  <1>1. CASE request[x].step = "idle"
    BY <1>1 DEF StaysAsRead, At
  <1>2. CASE request[x].step # "idle"
    <2> DEFINE o == request[x].who
    <2>1. o \in Operators /\ Relies(request[x])
      BY <1>2, InFlightRequest
    <2>2. CASE At(x, "rotate")
      <3>1. ~row[o].active /\ ~row[o].activated /\ Exists(o)
        BY <2>1, <2>2 DEF ReadsStand, StaysAsRead, Relies, At
      <3>2. At(r, "activate") => request[r].who # o
        BY <2>2 DEF RenewalsApart
      <3>3. At(r, "reactivate") => request[r].who # o
        BY <3>1 DEF ReadsStand, StaysAsRead
      <3>4. ~row'[o].active /\ ~row'[o].activated
        BY <2>1, <3>1, <3>2, <3>3 DEF RowsMove
      <3> QED BY <2>2, <3>4 DEF StaysAsRead, At
    <2>3. CASE At(x, "reactivate")
      <3>1. row[o].activated
        BY <2>3 DEF ReadsStand, StaysAsRead
      <3> QED BY <2>1, <2>3, <3>1 DEF RowsMove, StaysAsRead, At
    <2>4. CASE ~At(x, "rotate") /\ ~At(x, "reactivate")
      BY <2>4 DEF StaysAsRead, At
    <2> QED BY <2>2, <2>3, <2>4
  <1> QED BY <1>1, <1>2

\* The same for what a removal has counted.
LEMMA OthersRemainFor ==
  ASSUME NEW r \in Requests, RowsMove(r), RemovalsApart, NEW x \in Requests, x # r,
         request'[x] = request[x], OthersRemain(x)
  PROVE  OthersRemain(x)'
  BY DEF RowsMove, RemovalsApart, Removes, OthersRemain

LEMMA SomeoneRemains ==
  ASSUME NEW r \in Requests, RowsMove(r), OthersRemain(r), AdministratorRemains
  PROVE  AdministratorRemains'
  BY DEF RowsMove, OthersRemain, AdministratorRemains

\* What the step of a request leaves to itself and to the others.
StepMoves(r) ==
  /\ RowsMove(r)
  /\ \A x \in Requests \ {r} : request'[x] = request[x]
  /\ StaysAsRead(r)'
  /\ AdministratorRemains => OthersRemain(r)'

\* A request that starts was told what its row says.
LEMMA StartMoves ==
  ASSUME AdminIInv, NEW r \in Requests, NEW step, NEW o, NEW role, NEW number,
         Start(r, step, o, role, number), row' = row,
         step = "rotate" => ~row[o].active /\ ~row[o].activated,
         step = "reactivate" => row[o].activated,
         step \in {"role", "deactivate"} => o \notin ActiveAdministrators
  PROVE  StepMoves(r)
  <1>1. request'[r] = [step |-> step, who |-> o, role |-> role, number |-> number]
    BY DEF Start, AdminIInv, AdminTypeOK
  <1>2. request'[r].step = step /\ request'[r].who = o
    BY <1>1
  <1>3. \A x \in Requests \ {r} : request'[x] = request[x]
    BY DEF Start, AdminIInv, AdminTypeOK
  <1>4. ActiveAdministrators' = ActiveAdministrators
    BY DEF ActiveAdministrators, Exists
  <1>5. AdministratorRemains => OthersRemain(r)'
    BY <1>2, <1>4 DEF AdministratorRemains, OthersRemain
  <1>6. StaysAsRead(r)'
    BY <1>2 DEF StaysAsRead, At
  <1> QED BY <1>3, <1>5, <1>6, RowsRest DEF StepMoves

LEMMA ReadsMove ==
  ASSUME AdminIInv, NEW r \in Requests, NEW o \in Operators,
         \/ \E role \in AdminRole : InviteRead(r, o, role) \/ ChangeRoleRead(r, o, role)
         \/ ActivateRead(r, o) \/ DeactivateRead(r, o) \/ ReactivateRead(r, o)
         \/ PasswordRead(r, o) \/ LoginRead(r, o)
  PROVE  StepMoves(r)
  <1>1. ASSUME NEW role \in AdminRole, InviteRead(r, o, role)
        PROVE  StepMoves(r)
    <2>1. CASE Exists(o)
      <3>1. /\ Start(r, "rotate", o, role, tokens') /\ row' = row
            /\ ~row[o].active /\ ~row[o].activated
        BY <1>1, <2>1 DEF InviteRead
      <3> QED BY <3>1, StartMoves
    <2>2. CASE ~Exists(o)
      <3>1. Start(r, "create", o, role, tokens') /\ row' = row
        BY <1>1, <2>2 DEF InviteRead
      <3> QED BY <3>1, StartMoves
    <2> QED BY <2>1, <2>2
  <1>2. ASSUME NEW role \in AdminRole, ChangeRoleRead(r, o, role)
        PROVE  StepMoves(r)
    <2>1. CASE o \in ActiveAdministrators
      <3>1. Start(r, "count.role", o, role, 0) /\ row' = row
        BY <1>2, <2>1 DEF ChangeRoleRead
      <3> QED BY <3>1, StartMoves
    <2>2. CASE o \notin ActiveAdministrators
      <3>1. Start(r, "role", o, role, 0) /\ row' = row
        BY <1>2, <2>2 DEF ChangeRoleRead
      <3> QED BY <2>2, <3>1, StartMoves
    <2> QED BY <2>1, <2>2
  <1>3. CASE DeactivateRead(r, o)
    <2>1. CASE o \in ActiveAdministrators
      <3>1. Start(r, "count.deactivate", o, "NONE", 0) /\ row' = row
        BY <1>3, <2>1 DEF DeactivateRead
      <3> QED BY <3>1, StartMoves
    <2>2. CASE o \notin ActiveAdministrators
      <3>1. Start(r, "deactivate", o, "NONE", 0) /\ row' = row
        BY <1>3, <2>2 DEF DeactivateRead
      <3> QED BY <2>2, <3>1, StartMoves
    <2> QED BY <2>1, <2>2
  <1>4. CASE ReactivateRead(r, o)
    <2>1. /\ Start(r, "reactivate", o, "NONE", 0) /\ row' = row
          /\ row[o].activated
      BY <1>4 DEF ReactivateRead
    <2> QED BY <2>1, StartMoves
  <1>5. CASE ActivateRead(r, o)
    <2>1. Start(r, "activate", o, "NONE", row[o].invitation) /\ row' = row
      BY <1>5 DEF ActivateRead
    <2> QED BY <2>1, StartMoves
  <1>6. CASE PasswordRead(r, o)
    <2>1. Start(r, "password", o, "NONE", 0) /\ row' = row
      BY <1>6 DEF PasswordRead
    <2> QED BY <2>1, StartMoves
  <1>7. CASE LoginRead(r, o)
    <2>1. Start(r, "login", o, row[o].role, row[o].version) /\ row' = row
      BY <1>7 DEF LoginRead
    <2> QED BY <2>1, StartMoves
  <1> QED BY <1>1, <1>2, <1>3, <1>4, <1>5, <1>6, <1>7

\* A request that ends relies on nothing.
LEMMA EndMoves ==
  ASSUME AdminIInv, NEW r \in Requests, RowsMove(r), End(r)
  PROVE  StepMoves(r)
  <1>1. request'[r].step = "idle"
    BY DEF End, Idle, AdminIInv, AdminTypeOK
  <1>2. \A x \in Requests \ {r} : request'[x] = request[x]
    BY DEF End, AdminIInv, AdminTypeOK
  <1> QED BY <1>1, <1>2 DEF StepMoves, StaysAsRead, OthersRemain, At

\* More than one administrator was counted, so that someone stays.
LEMMA CountMoves ==
  ASSUME AdminIInv, NEW r \in Requests, assertAdministratorWouldRemain(r)
  PROVE  StepMoves(r)
  <1>1. row' = row /\ RowsMove(r)
    BY RowsRest DEF assertAdministratorWouldRemain
  <1>2. CASE ~administratorWouldRemain
    <2>1. End(r)
      BY <1>2 DEF assertAdministratorWouldRemain
    <2> QED BY <1>1, <2>1, EndMoves
  <1>3. CASE administratorWouldRemain
    <2> DEFINE next == IF At(r, "count.role") THEN "role" ELSE "deactivate"
               o == request[r].who
    <2>1. request' = [request EXCEPT ![r].step = next] /\ request[r].step # "idle"
      BY <1>3 DEF assertAdministratorWouldRemain, At
    <2>2. request[r] \in InFlight
      BY <2>1 DEF AdminIInv, AdminTypeOK, Idle
    <2>3. /\ request'[r].step \in {"role", "deactivate"} /\ request'[r].who = o
          /\ \A x \in Requests \ {r} : request'[x] = request[x]
      BY <2>1, <2>2 DEF AdminIInv, AdminTypeOK, InFlight
    <2>4. ActiveAdministrators' = ActiveAdministrators
      BY <1>1 DEF ActiveAdministrators, Exists
    <2>5. ActiveAdministrators \ {o} # {}
      <3>1. CASE ActiveAdministrators = {}
        <4>1. Cardinality(ActiveAdministrators) = 0
          BY <3>1, FS_EmptySet
        <4> QED BY <1>3, <4>1 DEF administratorWouldRemain
      <3>2. CASE ActiveAdministrators = {o}
        <4>1. Cardinality(ActiveAdministrators) = 1
          BY <3>2, FS_Singleton
        <4> QED BY <1>3, <4>1 DEF administratorWouldRemain
      <3> QED BY <3>1, <3>2
    <2>6. OthersRemain(r)'
      BY <2>3, <2>4, <2>5 DEF OthersRemain
    <2>7. StaysAsRead(r)'
      BY <2>3 DEF StaysAsRead, At
    <2> QED BY <1>1, <2>3, <2>6, <2>7 DEF StepMoves
  <1> QED BY <1>2, <1>3

LEMMA EveryStepMoves ==
  ASSUME AdminIInv, ReadsStand, AdminNext
  PROVE  \E r \in Requests : StepMoves(r)
  <1>1. ASSUME NEW r \in Requests, LoginIssue(r) \/ Abort(r)
        PROVE  StepMoves(r)
    <2>1. row' = row /\ End(r)
      BY <1>1 DEF LoginIssue, Abort
    <2> QED BY <2>1, RowsRest, EndMoves
  <1>2. ASSUME NEW r \in Requests,
               RoleSave(r) \/ DeactivateSave(r) \/ ReactivateSave(r) \/ PasswordSave(r)
        PROVE  StepMoves(r)
    BY <1>2, ChangesMove, EndMoves
  <1>3. ASSUME NEW r \in Requests,
               InviteCreate(r) \/ InviteRotate(r) \/ ActivateSave(r)
        PROVE  StepMoves(r)
    BY <1>3, InvitationsMove, EndMoves
  <1> QED BY <1>1, <1>2, <1>3, ReadsMove, CountMoves DEF AdminNext

\* What requests have read stands through every step.
LEMMA ReadsStandNext ==
  ASSUME AdminIInv, ReadsStand, RenewalsApart, [AdminNext]_adminVars
  PROVE  ReadsStand'
  <1>1. CASE AdminNext
    <2>1. PICK r \in Requests : StepMoves(r)
      BY <1>1, EveryStepMoves
    <2>2. \A x \in Requests : x # r => StaysAsRead(x)'
      BY <2>1, ReadsStandFor DEF StepMoves
    <2> QED BY <2>1, <2>2 DEF ReadsStand, StepMoves
  <1>2. CASE UNCHANGED adminVars
    BY <1>2 DEF adminVars, ReadsStand, StaysAsRead, At
  <1> QED BY <1>1, <1>2

LEMMA ReadsStandFirst == AdminInit => ReadsStand
  BY DEF AdminInit, Idle, ReadsStand, StaysAsRead, At

\* As long as no invitation is renewed while it is being used, the role of an
\* active operator changes only together with tokenVersion
\* (admin-users.service.ts:100): the overlap that
\* RoleChangeBumpsVersion fails for is the only thing that breaks it.
THEOREM RenewalsApartBumpVersions ==
  AdminSpec /\ []RenewalsApart => RoleChangeBumpsVersion
  <1>1. AdminIInv /\ RenewalsApart /\ ReadsStand /\ [AdminNext]_adminVars =>
          ReadsStand'
    BY ReadsStandNext
  <1>2. ASSUME AdminIInv, ReadsStand, [AdminNext]_adminVars
        PROVE  [ \A o \in Operators :
                   Exists(o) /\ row[o].active /\ row'[o].role # row[o].role
                     => row'[o].version > row[o].version ]_adminVars
    <2>1. CASE AdminNext
      <3>1. PICK r \in Requests : RowsMove(r)
        BY <1>2, <2>1, EveryStepMoves DEF StepMoves
      <3> QED BY <3>1 DEF RowsMove
    <2>2. CASE UNCHANGED adminVars
      BY <2>2
    <2> QED BY <1>2, <2>1, <2>2
  <1> QED
    BY <1>1, <1>2, ReadsStandFirst, AdminIInvHolds, PTL
    DEF AdminSpec, RoleChangeBumpsVersion

\* What is inductive while both hold.
SerialInv ==
  AdministratorRemains /\ ReadsStand /\ \A r \in Requests : OthersRemain(r)

\* As long as, besides, the commands that take administrators away are done one
\* after the other, an active administrator remains
\* (admin-users.service.ts:391): the two overlaps are all that breaks
\* it, and neither condition is enough alone.
THEOREM CommandsApartKeepAnAdministrator ==
  AdminSpec /\ [](RemovalsApart /\ RenewalsApart) => []AdministratorRemains
  <1>1. AdminInit => SerialInv
    <2> SUFFICES ASSUME AdminInit PROVE SerialInv
      OBVIOUS
    <2>1. PICK o \in Founders : o \in Operators
      OBVIOUS
    <2>2. /\ row[o].role = "ADMINISTRATOR" /\ row[o].active
      BY <2>1 DEF AdminInit
    <2>3. o \in ActiveAdministrators
      BY <2>1, <2>2 DEF ActiveAdministrators, Exists, NoRow
    <2>4. \A r \in Requests : OthersRemain(r)
      BY DEF AdminInit, Idle, OthersRemain
    <2> QED BY <2>3, <2>4, ReadsStandFirst DEF SerialInv, AdministratorRemains
  <1>2. AdminIInv /\ RemovalsApart /\ RenewalsApart /\ SerialInv /\
          [AdminNext]_adminVars => SerialInv'
    <2> SUFFICES ASSUME AdminIInv, RemovalsApart, RenewalsApart, SerialInv,
                        [AdminNext]_adminVars
                 PROVE  SerialInv'
      OBVIOUS
    <2>1. ReadsStand'
      BY ReadsStandNext DEF SerialInv
    <2>2. CASE AdminNext
      <3>1. PICK r \in Requests : StepMoves(r)
        BY <2>2, EveryStepMoves DEF SerialInv
      <3>2. AdministratorRemains'
        BY <3>1, SomeoneRemains DEF SerialInv, StepMoves
      <3>3. \A x \in Requests : x # r => OthersRemain(x)'
        BY <3>1, OthersRemainFor DEF SerialInv, StepMoves
      <3>4. OthersRemain(r)'
        BY <3>1 DEF SerialInv, StepMoves
      <3> QED BY <2>1, <3>2, <3>3, <3>4 DEF SerialInv
    <2>3. CASE UNCHANGED adminVars
      BY <2>1, <2>3 DEF SerialInv, AdministratorRemains, OthersRemain,
         ActiveAdministrators, Exists, adminVars
    <2> QED BY <2>2, <2>3
  <1>3. SerialInv => AdministratorRemains
    BY DEF SerialInv
  <1> QED BY <1>1, <1>2, <1>3, AdminIInvHolds, PTL DEF AdminSpec

=============================================================================
