--------------------------- MODULE AccountRecovery ---------------------------
(***************************************************************************)
(* A customer who forgot the password: the link of `/auth/forget`, the new *)
(* password of `/auth/reset-password`, and the sessions that the password  *)
(* opened. Requests overlap, on any replica, and a mail may be slow, lost, *)
(* or reported lost although it arrived.                                   *)
(*                                                                         *)
(* Time is in clock ticks (`Date`). A token of a session knows its time in *)
(* whole seconds only (`iat`), of TicksPerSecond ticks each.               *)
(***************************************************************************)
EXTENDS Naturals, FiniteSets, Requests

CONSTANTS
    Cooldown,         \* ticks between two links for one user
    LinkLifetime,     \* ticks a link works
    TicksPerSecond,
    MaxTime,          \* bound of the clock
    MaxLinks          \* bound on the links requested

ASSUME RecoveryAssumption ==
    /\ Cooldown \in Nat
    /\ LinkLifetime \in Nat
    /\ TicksPerSecond \in Nat \ {0}
    /\ MaxTime \in Nat
    /\ MaxLinks \in Nat

VARIABLES
    now,
    account,    \* the user's row: passwords set so far, time of the last
                \* (`passwordChangedAt`, null before the first)
    tokens,     \* rows of password_reset_tokens
    requested,  \* links requested so far: the source of fresh tokens
    newest,     \* the link stored last
    inbox,      \* links that reached the customer
    confirmed,  \* those whose delivery the mail server confirmed
    resets,     \* history: the link and the number of each new password
    session,    \* the session that an observer follows
    step,       \* next step of each request
    held        \* what each request carries to it

recoveryVars == <<now, account, tokens, requested, newest, inbox, confirmed,
                  resets, session, step, held>>

NoSession == [none |-> TRUE]

Nothing == [nothing |-> TRUE]

RecoveryInit ==
    /\ now = 0
    /\ account = [password |-> 0, changedAt |-> 0]
    /\ tokens = {}
    /\ requested = 0
    /\ newest = 0
    /\ inbox = {}
    /\ confirmed = {}
    /\ resets = {}
    /\ session = NoSession
    /\ step = [c \in Callers |-> "idle"]
    /\ held = [c \in Callers |-> Nothing]

Goto(c, label, value) ==
    /\ step' = [step EXCEPT ![c] = label]
    /\ held' = [held EXCEPT ![c] = value]

End(c) == Goto(c, "idle", Nothing)

-----------------------------------------------------------------------------
\* A request for a link: the user is found, and the time is read, before the
\* transaction.
ForgotPassword(c) ==
    /\ step[c] = "idle"
    /\ requested < MaxLinks
    /\ requested' = requested + 1
    /\ Goto(c, "store", [link |-> requested', at |-> now])
    /\ UNCHANGED <<now, account, tokens, newest, inbox, confirmed, resets,
                   session>>

TokenOf(request) ==
    [link |-> request.link, createdAt |-> now,
     expiresAt |-> request.at + LinkLifetime]

RecentToken(request) == \E t \in tokens : t.createdAt + Cooldown > request.at

\* Fault: the tokens of earlier requests are left in place.
storeBesideOthers(c) ==
    /\ step[c] = "store"
    /\ \/ /\ RecentToken(held[c])
          /\ End(c)
          /\ UNCHANGED <<tokens, newest>>
       \/ /\ ~RecentToken(held[c])
          /\ tokens' = tokens \union {TokenOf(held[c])}
          /\ newest' = held[c].link
          /\ Goto(c, "mail", held[c])
    /\ UNCHANGED <<now, account, requested, inbox, confirmed, resets, session>>

\* Its transaction, under the lock of the user's row: the new token replaces
\* the others, unless one is recent.
StoreToken(c) ==
    /\ step[c] = "store"
    /\ \/ /\ RecentToken(held[c])
          /\ End(c)
          /\ UNCHANGED <<tokens, newest>>
       \/ /\ ~RecentToken(held[c])
          /\ tokens' = {TokenOf(held[c])}
          /\ newest' = held[c].link
          /\ Goto(c, "mail", held[c])
    /\ UNCHANGED <<now, account, requested, inbox, confirmed, resets, session>>

\* Fault: a failed mail withdraws whatever token the user has.
withdrawAll(c) ==
    /\ step[c] = "mail"
    /\ inbox' \in {inbox, inbox \union {held[c].link}}
    /\ tokens' = {}
    /\ End(c)
    /\ UNCHANGED <<now, account, requested, newest, confirmed, resets, session>>

\* The mail failed, or its server says so: the token of this request goes.
MailFails(c) ==
    /\ step[c] = "mail"
    /\ inbox' \in {inbox, inbox \union {held[c].link}}
    /\ tokens' = {t \in tokens : t.link # held[c].link}
    /\ End(c)
    /\ UNCHANGED <<now, account, requested, newest, confirmed, resets, session>>

MailArrives(c) ==
    /\ step[c] = "mail"
    /\ inbox' = inbox \union {held[c].link}
    /\ confirmed' = confirmed \union {held[c].link}
    /\ End(c)
    /\ UNCHANGED <<now, account, tokens, requested, newest, resets, session>>

-----------------------------------------------------------------------------
Standing(link) == \E t \in tokens : t.link = link /\ t.expiresAt > now

\* The customer opens a link: its token is there, and the new password is
\* hashed, which takes its time.
OpenLink(c) ==
    /\ step[c] = "idle"
    /\ \E link \in inbox :
         /\ Standing(link)
         /\ Goto(c, "reset", [link |-> link])
    /\ UNCHANGED <<now, account, tokens, requested, newest, inbox, confirmed,
                   resets, session>>

\* Fault: the password is replaced without asking whether a token went.
resetUnasked(c) ==
    /\ step[c] = "reset"
    /\ account' = [password |-> account.password + 1, changedAt |-> now]
    /\ resets' = resets \union
         {[link |-> held[c].link, password |-> account.password + 1]}
    /\ tokens' = {}
    /\ End(c)
    /\ UNCHANGED <<now, requested, newest, inbox, confirmed, session>>

\* The transaction of the reset, under the lock of the user's row: the token is
\* deleted, which one caller does, then the password is replaced and every
\* other token of the user goes.
ResetPassword(c) ==
    /\ step[c] = "reset"
    /\ \/ /\ Standing(held[c].link)
          /\ account' = [password |-> account.password + 1, changedAt |-> now]
          /\ resets' = resets \union
               {[link |-> held[c].link, password |-> account.password + 1]}
          /\ tokens' = {}
       \/ /\ ~Standing(held[c].link)
          /\ UNCHANGED <<account, resets, tokens>>
    /\ End(c)
    /\ UNCHANGED <<now, requested, newest, inbox, confirmed, session>>

-----------------------------------------------------------------------------
\* The password is compared with the hash of the row read before.
Login(c) ==
    /\ step[c] = "idle"
    /\ Goto(c, "token", [password |-> account.password, at |-> now])
    /\ UNCHANGED <<now, account, tokens, requested, newest, inbox, confirmed,
                   resets, session>>

\* The token of the session is signed when the comparison ended.
CreateToken(c) ==
    /\ step[c] = "token"
    /\ session' = [password |-> held[c].password, loginAt |-> held[c].at,
                   issuedAt |-> now, iat |-> now \div TicksPerSecond]
    /\ End(c)
    /\ UNCHANGED <<now, account, tokens, requested, newest, inbox, confirmed,
                   resets>>

\* Fault: the change of the password is compared in whole seconds.
acceptedSameSecond(s) ==
    account.password = 0 \/ s.iat >= account.changedAt \div TicksPerSecond

\* What the guard of every route says of a session.
Accepted(s) ==
    account.password = 0 \/ s.iat * TicksPerSecond > account.changedAt

-----------------------------------------------------------------------------
\* The replica dies with the request.
RecoveryCrash(c) ==
    /\ step[c] # "idle"
    /\ End(c)
    /\ UNCHANGED <<now, account, tokens, requested, newest, inbox, confirmed,
                   resets, session>>

Tick ==
    /\ now < MaxTime
    /\ now' = now + 1
    /\ UNCHANGED <<account, tokens, requested, newest, inbox, confirmed, resets,
                   session, step, held>>

RecoveryNext ==
    \/ Tick
    \/ \E c \in Callers :
         \/ ForgotPassword(c) \/ StoreToken(c) \/ MailFails(c) \/ MailArrives(c)
         \/ OpenLink(c) \/ ResetPassword(c)
         \/ Login(c) \/ CreateToken(c)
         \/ RecoveryCrash(c)

RecoverySpec == RecoveryInit /\ [][RecoveryNext]_recoveryVars

-----------------------------------------------------------------------------
\* A link changes the password at most once, whoever opens it how often, and
\* no more than one link can change it at any time: to ask for a new link
\* takes the power of those before (account-recovery.service.ts:107).
LinkResetsOnce ==
    /\ \A x, y \in resets : x.link = y.link => x = y
    /\ \A t \in tokens : t.link = newest
    /\ \A x \in resets : \A t \in tokens : t.link # x.link

Used(t) == \E x \in resets' \ resets : x.link = t.link

Replaced(t) ==
    \E c \in Callers : /\ step[c] = "store"
                       /\ held[c].link = newest'
                       /\ held[c].at >= t.createdAt + Cooldown

\* The token of a link that was delivered goes for two reasons only: the link
\* gave a new password, or a request made a cooldown after it was stored took
\* its place; an older request whose mail fails late and one that came too soon
\* leave it alone (account-recovery.service.ts:58,81). The request that takes
\* its place does so before its own mail is sent (:59): when that mail fails no
\* link of the customer works, and nothing here says otherwise.
DeliveredLinkIsKept ==
    [][\A t \in tokens \ tokens' :
           t.link \in confirmed => Used(t) \/ Replaced(t)]_recoveryVars

\* A session opened with an older password is refused, whenever in the second
\* of the reset it was opened; one escapes, whose password was compared before
\* the reset and whose token was signed after it (auth.guard.ts:76).
OldSessionsEnd ==
    \/ session = NoSession
    \/ session.password = account.password
    \/ ~Accepted(session)
    \/ /\ session.loginAt <= account.changedAt
       /\ account.changedAt < session.issuedAt

=============================================================================
