---------------------------- MODULE AccountProofs ----------------------------
(***************************************************************************)
(* Theorems about what surrounds the orders of a user, for any number of   *)
(* requests in flight: the links of a lost password, the lease of a payout *)
(* profile, the reputation of a provider, and the accounts themselves.     *)
(* Each invariant needs to know what the requests under way carry from one *)
(* step to the next. The last parts are about the weekly hours of a        *)
(* provider and the slots they give, whatever its windows are, and about   *)
(* the overlap that leaves a user with two default addresses.              *)
(***************************************************************************)
EXTENDS MCAccounts, Addresses, WellFoundedInduction, FiniteSetTheorems, TLAPS

-----------------------------------------------------------------------------
(* The links of a lost password and the sessions it opened.                *)

RecoveryTypeOK ==
    /\ now \in Nat
    /\ account \in [password : Nat, changedAt : Nat]
    /\ requested \in Nat
    /\ newest \in Nat
    /\ step \in [Callers -> {"idle", "store", "mail", "reset", "token"}]
    /\ DOMAIN held = Callers

InHand(c) == step[c] \in {"store", "mail"}

HasToken(link) == \E t \in tokens : t.link = link

HasReset(link) == \E x \in resets : x.link = link

\* A link in the hands of a request is its alone; one that is not stored yet
\* is unknown to all, one that is not mailed yet is not confirmed.
LinksAreFresh ==
    /\ \A t \in tokens : t.link \in 1 .. requested
    /\ \A x \in resets : x.link \in 1 .. requested
    /\ \A link \in confirmed : link \in 1 .. requested
    /\ newest <= requested
    /\ \A c \in Callers : InHand(c) =>
         /\ held[c].link \in 1 .. requested
         /\ held[c].link \notin confirmed
         /\ \A d \in Callers : (InHand(d) /\ held[d].link = held[c].link) => d = c
    /\ \A c \in Callers : step[c] = "store" =>
         held[c].link # newest /\ ~HasReset(held[c].link)
    /\ \A c \in Callers : (step[c] = "mail" /\ held[c].link = newest) =>
         HasToken(newest) \/ HasReset(newest)

\* A token knows when it was stored, a request when it asked.
TimesAreRead ==
    /\ \A t \in tokens : t.createdAt \in Nat
    /\ \A c \in Callers : step[c] = "store" => held[c].at \in Nat

\* A login that read an older password read it before the last reset.
LoginsAreDated ==
    /\ account.changedAt <= now
    /\ \A c \in Callers : step[c] = "token" =>
         /\ held[c].password \in 0 .. account.password
         /\ held[c].at \in 0 .. now
         /\ held[c].password # account.password => held[c].at <= account.changedAt
    /\ session # NoSession =>
         /\ session.password \in 0 .. account.password
         /\ session.loginAt \in Nat /\ session.issuedAt \in 0 .. now
         /\ session.iat \in Nat
         /\ session.loginAt <= session.issuedAt
         /\ session.iat * TicksPerSecond <= session.issuedAt
         /\ session.password # account.password =>
              session.loginAt <= account.changedAt

RecoveryIInv ==
    /\ RecoveryTypeOK
    /\ LinksAreFresh
    /\ LinkResetsOnce
    /\ TimesAreRead
    /\ LoginsAreDated

LEMMA RecoveryInitially ==
  ASSUME RecoveryInit
  PROVE  RecoveryIInv
  BY DEF RecoveryInit, RecoveryIInv, RecoveryTypeOK, LinksAreFresh, LinkResetsOnce,
     TimesAreRead, LoginsAreDated, InHand, HasToken, HasReset, NoSession

LEMMA Goes ==
  ASSUME RecoveryTypeOK, NEW c \in Callers, NEW value,
         NEW label \in {"idle", "store", "mail", "reset", "token"},
         Goto(c, label, value)
  PROVE  /\ step' \in [Callers -> {"idle", "store", "mail", "reset", "token"}]
         /\ DOMAIN held' = Callers
         /\ step'[c] = label /\ held'[c] = value
         /\ \A d \in Callers \ {c} : step'[d] = step[d] /\ held'[d] = held[d]
  BY DEF RecoveryTypeOK, Goto

\* The end of a request, of whatever kind, takes nothing from the others.
LEMMA RecoveryEnds ==
  ASSUME RecoveryIInv, NEW c \in Callers, End(c),
         UNCHANGED <<now, account, tokens, requested, newest, inbox, confirmed,
                     resets, session>>
  PROVE  RecoveryIInv'
  <1> USE DEF RecoveryIInv
  <1>1. /\ step' \in [Callers -> {"idle", "store", "mail", "reset", "token"}]
        /\ DOMAIN held' = Callers
        /\ step'[c] = "idle"
        /\ \A d \in Callers \ {c} : step'[d] = step[d] /\ held'[d] = held[d]
    BY Goes DEF End
  <1>2. RecoveryTypeOK'
    BY <1>1 DEF RecoveryTypeOK
  <1>3. LinksAreFresh'
    BY <1>1 DEF LinksAreFresh, InHand, HasToken, HasReset
  <1>4. LinkResetsOnce'
    BY DEF LinkResetsOnce
  <1>5. LoginsAreDated'
    BY <1>1 DEF LoginsAreDated
  <1>6. TimesAreRead'
    BY <1>1 DEF TimesAreRead
  <1> QED
    BY <1>2, <1>3, <1>4, <1>5, <1>6

LEMMA LinkIsRequested ==
  ASSUME RecoveryIInv, NEW c \in Callers, ForgotPassword(c)
  PROVE  RecoveryIInv'
  <1> USE DEF RecoveryIInv
  <1> DEFINE link == requested + 1
  <1>1. /\ UNCHANGED <<now, account, tokens, newest, inbox, confirmed, resets,
                       session>>
        /\ requested' = link
        /\ requested \in Nat
        /\ step' \in [Callers -> {"idle", "store", "mail", "reset", "token"}]
        /\ DOMAIN held' = Callers
        /\ step'[c] = "store" /\ held'[c].link = link /\ held'[c].at = now
        /\ \A d \in Callers \ {c} : step'[d] = step[d] /\ held'[d] = held[d]
    BY Goes DEF ForgotPassword, RecoveryTypeOK
  <1>2. RecoveryTypeOK'
    BY <1>1 DEF RecoveryTypeOK
  <1>3. LinksAreFresh'
    <2>1. /\ \A t \in tokens : t.link \in 1 .. requested
          /\ \A x \in resets : x.link \in 1 .. requested
          /\ \A l \in confirmed : l \in 1 .. requested
          /\ newest <= requested /\ newest \in Nat
      BY DEF LinksAreFresh, RecoveryTypeOK
    <2>2. \A n \in 1 .. requested : n \in 1 .. link /\ n # link
      BY <1>1
    <2>3. \A d \in Callers \ {c} :
            /\ InHand(d)' <=> InHand(d)
            /\ InHand(d) => held[d].link \in 1 .. requested
      BY <1>1 DEF InHand, LinksAreFresh
    <2>4. link \notin confirmed /\ link # newest /\ ~HasReset(link)
      BY <1>1, <2>1, <2>2 DEF HasReset
    <2>5. ASSUME NEW d \in Callers, InHand(d)'
          PROVE  /\ held'[d].link \in 1 .. link
                 /\ held'[d].link \notin confirmed
                 /\ \A e \in Callers :
                      (InHand(e)' /\ held'[e].link = held'[d].link) => e = d
      <3>1. CASE d = c
        BY <1>1, <2>2, <2>3, <2>4, <3>1
      <3>2. CASE d # c
        BY <1>1, <2>2, <2>3, <2>5, <3>2 DEF LinksAreFresh
      <3> QED
        BY <3>1, <3>2
    <2>6. \A d \in Callers : step'[d] = "store" =>
            held'[d].link # newest /\ ~HasReset(held'[d].link)
      BY <1>1, <2>4 DEF LinksAreFresh, HasReset
    <2>7. \A d \in Callers : (step'[d] = "mail" /\ held'[d].link = newest) =>
            HasToken(newest) \/ HasReset(newest)
      BY <1>1 DEF LinksAreFresh
    <2>8. /\ \A l : HasReset(l)' <=> HasReset(l)
          /\ \A l : HasToken(l)' <=> HasToken(l)
      BY <1>1 DEF HasReset, HasToken
    <2> QED
      BY <1>1, <2>1, <2>2, <2>5, <2>6, <2>7, <2>8 DEF LinksAreFresh
  <1>4. LinkResetsOnce'
    BY <1>1 DEF LinkResetsOnce
  <1>5. LoginsAreDated'
    BY <1>1 DEF LoginsAreDated
  <1>6. TimesAreRead'
    BY <1>1 DEF TimesAreRead, RecoveryTypeOK
  <1> QED
    BY <1>2, <1>3, <1>4, <1>5, <1>6

\* The token that is stored carries a link nobody has used.
LEMMA TokenIsStored ==
  ASSUME RecoveryIInv, NEW c \in Callers, StoreToken(c)
  PROVE  RecoveryIInv'
  <1> USE DEF RecoveryIInv
  <1>1. CASE End(c) /\ UNCHANGED <<tokens, newest>>
    BY <1>1, RecoveryEnds DEF StoreToken
  <1>2. CASE /\ tokens' = {TokenOf(held[c])}
             /\ newest' = held[c].link
             /\ Goto(c, "mail", held[c])
    <2>1. /\ UNCHANGED <<now, account, requested, inbox, confirmed, resets, session>>
          /\ step[c] = "store"
          /\ step' \in [Callers -> {"idle", "store", "mail", "reset", "token"}]
          /\ DOMAIN held' = Callers
          /\ step'[c] = "mail" /\ held'[c] = held[c]
          /\ \A d \in Callers \ {c} : step'[d] = step[d] /\ held'[d] = held[d]
      BY <1>2, Goes DEF StoreToken
    <2>2. /\ held[c].link \in 1 .. requested
          /\ held[c].link \notin confirmed /\ ~HasReset(held[c].link)
          /\ \A d \in Callers : (InHand(d) /\ held[d].link = held[c].link) => d = c
      BY <2>1 DEF LinksAreFresh, InHand
    <2>3. RecoveryTypeOK'
      BY <1>2, <2>1, <2>2 DEF RecoveryTypeOK
    <2>4. \A t \in tokens' : t.link = held[c].link
      BY <1>2 DEF TokenOf
    <2>5. HasToken(held[c].link)'
      BY <1>2, <2>1 DEF HasToken, TokenOf
    <2>6. LinksAreFresh'
      <3>1. \A d \in Callers : InHand(d)' <=> InHand(d)
        BY <2>1 DEF InHand
      <3>2. \A d \in Callers : held'[d] = held[d]
        BY <2>1
      <3>3. \A d \in Callers : step'[d] = "store" =>
              held'[d].link # newest' /\ ~HasReset(held'[d].link)
        BY <1>2, <2>1, <2>2 DEF LinksAreFresh, InHand
      <3>4. \A d \in Callers : (step'[d] = "mail" /\ held'[d].link = newest') =>
              HasToken(newest)'
        BY <1>2, <2>1, <2>2, <2>5 DEF InHand, HasToken
      <3>5. \A l : HasReset(l)' <=> HasReset(l)
        BY <2>1 DEF HasReset
      <3>6. newest' <= requested' /\ \A t \in tokens' : t.link \in 1 .. requested'
        BY <1>2, <2>1, <2>2, <2>4 DEF RecoveryTypeOK
      <3>7. \A d \in Callers : InHand(d)' =>
              /\ held'[d].link \in 1 .. requested'
              /\ held'[d].link \notin confirmed'
              /\ \A e \in Callers :
                   (InHand(e)' /\ held'[e].link = held'[d].link) => e = d
        BY <2>1, <3>1, <3>2 DEF LinksAreFresh
      <3> QED
        BY <2>1, <3>3, <3>4, <3>5, <3>6, <3>7 DEF LinksAreFresh
    <2>7. LinkResetsOnce'
      BY <1>2, <2>1, <2>2, <2>4 DEF LinkResetsOnce, HasReset
    <2>8. LoginsAreDated'
      BY <2>1 DEF LoginsAreDated
    <2>9. TimesAreRead'
      BY <1>2, <2>1 DEF TimesAreRead, TokenOf, RecoveryTypeOK
    <2> QED
      BY <2>3, <2>6, <2>7, <2>8, <2>9
  <1> QED
    BY <1>1, <1>2 DEF StoreToken

\* A mail that fails withdraws the token of its own link, which is not one that
\* was confirmed; a mail that arrives confirms a link that works or was used.
LEMMA MailEnds ==
  ASSUME RecoveryIInv, NEW c \in Callers, MailFails(c) \/ MailArrives(c)
  PROVE  RecoveryIInv'
  <1> USE DEF RecoveryIInv
  <1>1. /\ UNCHANGED <<now, account, requested, newest, resets, session>>
        /\ step[c] = "mail"
        /\ step' \in [Callers -> {"idle", "store", "mail", "reset", "token"}]
        /\ DOMAIN held' = Callers
        /\ step'[c] = "idle"
        /\ \A d \in Callers \ {c} : step'[d] = step[d] /\ held'[d] = held[d]
    BY Goes DEF MailFails, MailArrives, End
  <1>2. /\ held[c].link \in 1 .. requested
        /\ held[c].link \notin confirmed
        /\ \A d \in Callers : (InHand(d) /\ held[d].link = held[c].link) => d = c
        /\ held[c].link = newest => HasToken(newest) \/ HasReset(newest)
    BY <1>1 DEF LinksAreFresh, InHand
  <1>3. /\ tokens' \subseteq tokens
        /\ \A t \in tokens : t.link # held[c].link => t \in tokens'
        /\ confirmed' = confirmed \/ (/\ confirmed' = confirmed \union {held[c].link}
                                      /\ tokens' = tokens)
    BY DEF MailFails, MailArrives
  <1>4. RecoveryTypeOK'
    BY <1>1 DEF RecoveryTypeOK
  <1>5. /\ \A l : HasReset(l)' <=> HasReset(l)
        /\ \A l : (HasToken(l) /\ l # held[c].link) => HasToken(l)'
    BY <1>1, <1>3 DEF HasReset, HasToken
  <1>6. LinksAreFresh'
    <2>1. \A d \in Callers : InHand(d)' => InHand(d) /\ d # c /\ held'[d] = held[d]
      BY <1>1 DEF InHand
    <2>2. ASSUME NEW d \in Callers, InHand(d)'
          PROVE  /\ held'[d].link \in 1 .. requested'
                 /\ held'[d].link \notin confirmed'
                 /\ \A e \in Callers :
                      (InHand(e)' /\ held'[e].link = held'[d].link) => e = d
                 /\ held'[d].link # held[c].link
      BY <1>1, <1>2, <1>3, <2>1, <2>2 DEF LinksAreFresh
    <2>3. \A d \in Callers : step'[d] = "store" =>
            held'[d].link # newest' /\ ~HasReset(held[d].link)'
      BY <1>1, <1>5 DEF LinksAreFresh, HasReset
    <2>4. \A d \in Callers : (step'[d] = "mail" /\ held'[d].link = newest') =>
            HasToken(newest)' \/ HasReset(newest)'
      BY <1>1, <1>3, <2>1, <2>2 DEF LinksAreFresh, InHand, HasReset, HasToken
    <2>5. \A l \in confirmed' : l \in 1 .. requested'
      BY <1>1, <1>2, <1>3 DEF LinksAreFresh
    <2> QED
      BY <1>1, <1>3, <2>2, <2>3, <2>4, <2>5 DEF LinksAreFresh
  <1>7. LinkResetsOnce'
    BY <1>1, <1>3 DEF LinkResetsOnce
  <1>8. TimesAreRead'
    BY <1>1, <1>3 DEF TimesAreRead
  <1>9. LoginsAreDated'
    BY <1>1 DEF LoginsAreDated
  <1> QED
    BY <1>4, <1>6, <1>7, <1>8, <1>9

\* A reset takes the one token there is, whose link was not used before.
LEMMA PasswordIsReset ==
  ASSUME RecoveryIInv, NEW c \in Callers, ResetPassword(c)
  PROVE  RecoveryIInv'
  <1> USE DEF RecoveryIInv
  <1>1. CASE UNCHANGED <<account, resets, tokens>>
    BY <1>1, RecoveryEnds DEF ResetPassword
  <1>2. CASE /\ Standing(held[c].link)
             /\ account' = [password |-> account.password + 1, changedAt |-> now]
             /\ resets' = resets \union
                  {[link |-> held[c].link, password |-> account.password + 1]}
             /\ tokens' = {}
    <2> DEFINE used == [link |-> held[c].link, password |-> account.password + 1]
    <2>1. /\ UNCHANGED <<now, requested, newest, inbox, confirmed, session>>
          /\ step[c] = "reset"
          /\ step' \in [Callers -> {"idle", "store", "mail", "reset", "token"}]
          /\ DOMAIN held' = Callers
          /\ step'[c] = "idle"
          /\ \A d \in Callers \ {c} : step'[d] = step[d] /\ held'[d] = held[d]
      BY Goes DEF ResetPassword, End
    <2>2. /\ HasToken(newest) /\ held[c].link = newest
          /\ newest \in 1 .. requested /\ ~HasReset(newest)
      BY <1>2 DEF Standing, LinkResetsOnce, LinksAreFresh, HasToken, HasReset
    <2>3. used.link = newest /\ resets' = resets \union {used}
      BY <1>2, <2>2
    <2> HIDE DEF used
    <2>4. HasReset(newest)' /\ \A l : HasReset(l)' => HasReset(l) \/ l = newest
      BY <2>1, <2>3 DEF HasReset
    <2>5. RecoveryTypeOK'
      BY <1>2, <2>1 DEF RecoveryTypeOK
    <2>6. LinksAreFresh'
      <3>1. \A d \in Callers : InHand(d)' => InHand(d) /\ d # c /\ held'[d] = held[d]
        BY <2>1 DEF InHand
      <3>2. ASSUME NEW d \in Callers, InHand(d)'
            PROVE  /\ held'[d].link \in 1 .. requested'
                   /\ held'[d].link \notin confirmed'
                   /\ \A e \in Callers :
                        (InHand(e)' /\ held'[e].link = held'[d].link) => e = d
        BY <2>1, <3>1, <3>2 DEF LinksAreFresh
      <3>3. ASSUME NEW d \in Callers, step'[d] = "store"
            PROVE  held'[d].link # newest' /\ ~HasReset(held[d].link)'
        <4>1. /\ held'[d] = held[d] /\ held[d].link # newest
              /\ ~HasReset(held[d].link)
          BY <2>1, <3>3 DEF LinksAreFresh
        <4>2. \A x \in resets' : x.link # held[d].link
          BY <2>3, <4>1 DEF HasReset
        <4> QED
          BY <2>1, <4>1, <4>2 DEF HasReset
      <3>4. \A x \in resets' : x.link \in 1 .. requested'
        BY <2>1, <2>2, <2>3 DEF LinksAreFresh
      <3> QED
        BY <1>2, <2>1, <2>4, <3>2, <3>3, <3>4 DEF LinksAreFresh
    <2>7. LinkResetsOnce'
      BY <1>2, <2>2, <2>3 DEF LinkResetsOnce, HasReset
    <2>8. TimesAreRead'
      BY <1>2, <2>1 DEF TimesAreRead
    <2>9. LoginsAreDated'
      BY <1>2, <2>1 DEF LoginsAreDated, RecoveryTypeOK
    <2> QED
      BY <2>5, <2>6, <2>7, <2>8, <2>9
  <1> QED
    BY <1>1, <1>2 DEF ResetPassword

LEMMA WholeSeconds ==
  ASSUME NEW n \in Nat
  PROVE  /\ n \div TicksPerSecond \in Nat
         /\ (n \div TicksPerSecond) * TicksPerSecond <= n
  BY RecoveryAssumption

\* A login carries what it read; the session it opens is signed now.
LEMMA SessionIsOpened ==
  ASSUME RecoveryIInv, NEW c \in Callers, OpenLink(c) \/ Login(c) \/ CreateToken(c)
  PROVE  RecoveryIInv'
  <1> USE DEF RecoveryIInv
  <1>1. UNCHANGED <<now, account, tokens, requested, newest, inbox, confirmed, resets>>
    BY DEF OpenLink, Login, CreateToken
  <1>2. /\ step' \in [Callers -> {"idle", "store", "mail", "reset", "token"}]
        /\ DOMAIN held' = Callers
        /\ step'[c] \in {"idle", "reset", "token"}
        /\ \A d \in Callers \ {c} : step'[d] = step[d] /\ held'[d] = held[d]
    <2>1. \E label \in {"idle", "reset", "token"} : \E value : Goto(c, label, value)
      BY DEF OpenLink, Login, CreateToken, End
    <2>2. PICK label \in {"idle", "reset", "token"} : \E value : Goto(c, label, value)
      BY <2>1
    <2> QED
      BY <2>2, Goes
  <1>3. RecoveryTypeOK'
    BY <1>1, <1>2 DEF RecoveryTypeOK
  <1>4. LinksAreFresh'
    BY <1>1, <1>2 DEF LinksAreFresh, InHand, HasToken, HasReset
  <1>5. LinkResetsOnce'
    BY <1>1 DEF LinkResetsOnce
  <1>6. ASSUME step'[c] = "token"
        PROVE  held'[c] = [password |-> account.password, at |-> now]
    BY <1>6 DEF OpenLink, Login, CreateToken, End, Goto, RecoveryTypeOK
  <1>7. \A d \in Callers : step'[d] = "token" =>
          /\ held'[d].password \in 0 .. account.password
          /\ held'[d].at \in 0 .. now
          /\ held'[d].password # account.password => held'[d].at <= account.changedAt
    <2>1. account.password \in 0 .. account.password /\ now \in 0 .. now
      BY DEF RecoveryTypeOK
    <2>2. step'[c] = "token" =>
            held'[c].password = account.password /\ held'[c].at = now
      BY <1>6
    <2>3. ASSUME NEW d \in Callers, d # c, step'[d] = "token"
          PROVE  /\ held'[d].password \in 0 .. account.password
                 /\ held'[d].at \in 0 .. now
                 /\ held'[d].password # account.password =>
                      held'[d].at <= account.changedAt
      BY <1>2, <2>3 DEF LoginsAreDated
    <2> QED
      BY <2>1, <2>2, <2>3
  <1>8. ASSUME session' = session PROVE LoginsAreDated'
    BY <1>1, <1>7, <1>8 DEF LoginsAreDated
  <1>9. ASSUME CreateToken(c) PROVE LoginsAreDated'
    <2>1. /\ session' = [password |-> held[c].password, loginAt |-> held[c].at,
                         issuedAt |-> now, iat |-> now \div TicksPerSecond]
          /\ step[c] = "token"
      BY <1>9 DEF CreateToken
    <2>2. /\ held[c].password \in 0 .. account.password
          /\ held[c].at \in 0 .. now
          /\ held[c].password # account.password => held[c].at <= account.changedAt
      BY <2>1 DEF LoginsAreDated
    <2>3. /\ session'.password = held[c].password
          /\ session'.loginAt = held[c].at /\ session'.issuedAt = now
          /\ session'.iat = now \div TicksPerSecond
      BY <2>1
    <2>4. session'.iat \in Nat /\ session'.iat * TicksPerSecond <= now
      BY <2>3, WholeSeconds DEF RecoveryTypeOK
    <2>5. /\ session'.password \in 0 .. account.password
          /\ session'.loginAt \in Nat /\ session'.issuedAt \in 0 .. now
          /\ session'.loginAt <= session'.issuedAt
          /\ session'.password # account.password =>
               session'.loginAt <= account.changedAt
      BY <2>2, <2>3 DEF RecoveryTypeOK
    <2> QED
      BY <1>1, <1>7, <2>3, <2>4, <2>5 DEF LoginsAreDated
  <1>10. TimesAreRead'
    BY <1>1, <1>2 DEF TimesAreRead
  <1> QED
    BY <1>3, <1>4, <1>5, <1>8, <1>9, <1>10 DEF OpenLink, Login

LEMMA RecoveryTicks ==
  ASSUME RecoveryIInv, Tick
  PROVE  RecoveryIInv'
  <1> USE DEF RecoveryIInv, Tick
  <1>1. RecoveryTypeOK'
    BY DEF RecoveryTypeOK
  <1>2. LinksAreFresh'
    BY DEF LinksAreFresh, InHand, HasToken, HasReset
  <1>3. LinkResetsOnce'
    BY DEF LinkResetsOnce
  <1>4. LoginsAreDated'
    BY DEF LoginsAreDated, RecoveryTypeOK
  <1>5. TimesAreRead'
    BY DEF TimesAreRead
  <1> QED
    BY <1>1, <1>2, <1>3, <1>4, <1>5

\* The invariant of the links and the sessions of a lost password.
THEOREM RecoveryInvariant == RecoverySpec => []RecoveryIInv
  <1>1. ASSUME RecoveryIInv, [RecoveryNext]_recoveryVars
        PROVE  RecoveryIInv'
    <2>1. CASE UNCHANGED recoveryVars
      BY <1>1, <2>1 DEF recoveryVars, RecoveryIInv, RecoveryTypeOK, LinksAreFresh,
         LinkResetsOnce, TimesAreRead, LoginsAreDated, InHand, HasToken, HasReset
    <2>2. CASE \E c \in Callers : RecoveryCrash(c)
      BY <1>1, <2>2, RecoveryEnds DEF RecoveryCrash
    <2>3. CASE RecoveryNext /\ ~\E c \in Callers : RecoveryCrash(c)
      BY <1>1, <2>3, LinkIsRequested, TokenIsStored, MailEnds, PasswordIsReset,
         SessionIsOpened, RecoveryTicks DEF RecoveryNext
    <2> QED
      BY <1>1, <2>1, <2>2, <2>3
  <1> QED
    BY <1>1, RecoveryInitially, PTL DEF RecoverySpec

\* No link changes the password twice, for any number of requests that ask for
\* links and open them (account-recovery.service.ts:107).
THEOREM LinksResetOnce == RecoverySpec => []LinkResetsOnce
  <1>1. RecoveryIInv => LinkResetsOnce
    BY DEF RecoveryIInv
  <1> QED
    BY <1>1, RecoveryInvariant, PTL

\* The token of a delivered link goes because the link was used, or because a
\* request made a cooldown later took its place: a mail that fails withdraws its
\* own link, which was not delivered (account-recovery.service.ts:58,81).
THEOREM DeliveredLinksAreKept == RecoverySpec => DeliveredLinkIsKept
  <1>1. ASSUME RecoveryIInv, [RecoveryNext]_recoveryVars
        PROVE  \A t \in tokens \ tokens' : t.link \in confirmed => Used(t) \/ Replaced(t)
    <2>1. SUFFICES ASSUME NEW t \in tokens, t \notin tokens', t.link \in confirmed
                   PROVE  Used(t) \/ Replaced(t)
      OBVIOUS
    <2>2. PICK c \in Callers : StoreToken(c) \/ MailFails(c) \/ ResetPassword(c)
      BY <1>1, <2>1 DEF RecoveryNext, recoveryVars, Tick, ForgotPassword,
         MailArrives, OpenLink, Login, CreateToken, RecoveryCrash
    <2>3. CASE StoreToken(c)
      <3>1. ~RecentToken(held[c]) /\ newest' = held[c].link /\ step[c] = "store"
        BY <2>1, <2>3 DEF StoreToken
      <3>2. ~(t.createdAt + Cooldown > held[c].at)
        BY <3>1 DEF RecentToken
      <3>3. t.createdAt \in Nat /\ held[c].at \in Nat
        BY <1>1, <3>1 DEF RecoveryIInv, TimesAreRead
      <3>4. held[c].at >= t.createdAt + Cooldown
        BY <3>2, <3>3, RecoveryAssumption
      <3> QED
        BY <3>1, <3>4 DEF Replaced
    <2>4. CASE MailFails(c)
      BY <1>1, <2>1, <2>4 DEF MailFails, RecoveryIInv, LinksAreFresh, InHand
    <2>5. CASE ResetPassword(c)
      <3> DEFINE used == [link |-> held[c].link, password |-> account.password + 1]
      <3>1. /\ Standing(held[c].link)
            /\ resets' = resets \union {used}
        BY <2>1, <2>5 DEF ResetPassword
      <3>2. used.link = held[c].link
        OBVIOUS
      <3> HIDE DEF used
      <3>3. /\ held[c].link = t.link
            /\ \A x \in resets : x.link # t.link
        BY <1>1, <2>1, <3>1 DEF Standing, RecoveryIInv, LinkResetsOnce
      <3>4. used \in resets' \ resets /\ used.link = t.link
        BY <3>1, <3>2, <3>3
      <3> QED
        BY <3>4 DEF Used
    <2> QED
      BY <2>2, <2>3, <2>4, <2>5
  <1>2. RecoveryIInv /\ [RecoveryNext]_recoveryVars =>
          [\A t \in tokens \ tokens' :
             t.link \in confirmed => Used(t) \/ Replaced(t)]_recoveryVars
    BY <1>1
  <1> QED
    BY <1>2, RecoveryInvariant, PTL DEF RecoverySpec, DeliveredLinkIsKept

\* The new password ends the sessions of the old one, however many ticks make a
\* second (auth.guard.ts:76).
THEOREM PasswordEndsSessions == RecoverySpec => []OldSessionsEnd
  <1>1. RecoveryIInv => OldSessionsEnd
    <2>1. SUFFICES ASSUME RecoveryIInv, session # NoSession,
                          session.password # account.password, Accepted(session)
                   PROVE  /\ session.loginAt <= account.changedAt
                          /\ account.changedAt < session.issuedAt
      BY DEF OldSessionsEnd
    <2>2. /\ session.password \in 0 .. account.password
          /\ session.loginAt <= account.changedAt
          /\ session.iat * TicksPerSecond <= session.issuedAt
          /\ session.issuedAt \in Nat /\ session.iat * TicksPerSecond \in Nat
          /\ account.password \in Nat /\ account.changedAt \in Nat
      BY <2>1, RecoveryAssumption DEF RecoveryIInv, LoginsAreDated, RecoveryTypeOK
    <2>3. session.iat * TicksPerSecond > account.changedAt
      BY <2>1, <2>2 DEF Accepted
    <2> QED
      BY <2>2, <2>3
  <1> QED
    BY <1>1, RecoveryInvariant, PTL

-----------------------------------------------------------------------------
(* The lease of a payout profile.                                          *)

Phases == {"idle", "claim", "call", "save", "fail", "fetch", "write"}

PayoutTypeOK ==
    /\ DOMAIN profile = {"recipient", "sync", "bank", "error"}
    /\ touched \in Nat
    /\ phase \in [Callers -> Phases]
    /\ DOMAIN kept = Callers
    /\ waiting \in [Callers -> Nat]
    /\ erased \in BOOLEAN

\* An update that is under way is not late, and the row has been touched since
\* it claimed the profile: nobody takes the lease for lapsed.
LeaseIsHeld ==
    /\ \A c \in Callers :
         /\ phase[c] = "call" => waiting[c] <= CallTimeout
         /\ phase[c] \in {"save", "fail"} => waiting[c] <= Lease
    /\ ~erased =>
         \A c \in Updating :
             /\ profile.error = "SYNCING"
             /\ touched <= waiting[c]
             /\ \A d \in Updating : d = c

PayoutIInv == PayoutTypeOK /\ LeaseIsHeld

LEMMA PayoutInitially ==
  ASSUME PayoutInit
  PROVE  PayoutIInv
  BY DEF PayoutInit, PayoutIInv, PayoutTypeOK, LeaseIsHeld, Updating, Phases, Blank

\* Only the request that takes a step changes what it waits for.
LEMMA Enters ==
  ASSUME PayoutTypeOK, NEW c \in Callers, NEW label \in Phases, NEW value,
         Enter(c, label, value)
  PROVE  /\ phase' \in [Callers -> Phases]
         /\ DOMAIN kept' = Callers
         /\ waiting' \in [Callers -> Nat]
         /\ phase'[c] = label
         /\ waiting'[c] = IF label \in {"save", "fail"} THEN waiting[c] ELSE 0
         /\ \A d \in Callers \ {c} :
              phase'[d] = phase[d] /\ waiting'[d] = waiting[d]
  BY DEF PayoutTypeOK, Enter

\* The steps of a request that is no update under way, nor becomes one.
LEMMA PayoutBeside ==
  ASSUME PayoutIInv, NEW c \in Callers,
         \/ UpdatePayout(c) \/ GetPayout(c) \/ FetchRecipient(c)
         \/ PayoutCrash(c)
  PROVE  PayoutIInv'
  <1> USE DEF PayoutIInv
  <1>1. UNCHANGED <<profile, touched, erased>>
    BY DEF UpdatePayout, GetPayout, FetchRecipient, PayoutCrash
  <1>2. \E label \in {"claim", "fetch", "write", "idle"} :
          \E value : Enter(c, label, value)
    BY DEF UpdatePayout, GetPayout, FetchRecipient, PayoutCrash, Leave
  <1>3. PICK label \in {"claim", "fetch", "write", "idle"} :
          \E value : Enter(c, label, value)
    BY <1>2
  <1>4. /\ phase' \in [Callers -> Phases]
        /\ DOMAIN kept' = Callers
        /\ waiting' \in [Callers -> Nat]
        /\ phase'[c] \in {"claim", "fetch", "write", "idle"}
        /\ \A d \in Callers \ {c} :
             phase'[d] = phase[d] /\ waiting'[d] = waiting[d]
    BY <1>3, Enters DEF Phases
  <1>5. PayoutTypeOK'
    BY <1>1, <1>4 DEF PayoutTypeOK
  <1>6. LeaseIsHeld'
    BY <1>1, <1>4 DEF LeaseIsHeld, Updating
  <1> QED
    BY <1>5, <1>6

\* Who claims the profile finds nobody at it, unless a refresh erased a claim.
LEMMA PayoutClaims ==
  ASSUME PayoutIInv, NEW c \in Callers, Claim(c)
  PROVE  PayoutIInv'
  <1> USE PayoutAssumption DEF PayoutIInv
  <1>1. CASE Leave(c) /\ UNCHANGED <<profile, touched>>
    <2>1. UNCHANGED <<profile, touched, erased>> /\ Enter(c, "idle", [row |-> Blank])
      BY <1>1 DEF Claim, Leave
    <2>2. PayoutTypeOK'
      BY <2>1, Enters DEF PayoutTypeOK, Phases
    <2>3. LeaseIsHeld'
      BY <2>1, Enters DEF LeaseIsHeld, Updating, Phases
    <2> QED
      BY <2>2, <2>3
  <1>2. CASE /\ Claimable
             /\ profile' = [profile EXCEPT !.error = "SYNCING"]
             /\ touched' = 0
             /\ Enter(c, "call", kept[c])
    <2>1. /\ erased' = erased /\ phase[c] = "claim"
          /\ phase' \in [Callers -> Phases]
          /\ DOMAIN kept' = Callers
          /\ waiting' \in [Callers -> Nat]
          /\ phase'[c] = "call" /\ waiting'[c] = 0
          /\ \A d \in Callers \ {c} :
               phase'[d] = phase[d] /\ waiting'[d] = waiting[d]
      BY <1>2, Enters DEF Claim, Phases
    <2>2. PayoutTypeOK'
      BY <1>2, <2>1 DEF PayoutTypeOK
    <2>3. ~erased => Updating = {}
      <3>1. SUFFICES ASSUME ~erased, NEW d \in Updating PROVE FALSE
        OBVIOUS
      <3>2. profile.error = "SYNCING" /\ touched <= waiting[d]
        BY <3>1 DEF LeaseIsHeld
      <3>3. waiting[d] <= Lease /\ waiting[d] \in Nat
        BY <3>1 DEF LeaseIsHeld, Updating, PayoutTypeOK
      <3> QED
        BY <1>2, <3>2, <3>3 DEF Claimable, PayoutTypeOK
    <2>4. profile'.error = "SYNCING"
      BY <1>2 DEF PayoutTypeOK
    <2>5. LeaseIsHeld'
      <3>1. \A d \in Callers :
              /\ phase'[d] = "call" => waiting'[d] <= CallTimeout
              /\ phase'[d] \in {"save", "fail"} => waiting'[d] <= Lease
        BY <2>1 DEF LeaseIsHeld
      <3>2. ~erased => Updating' = {c}
        BY <2>1, <2>3 DEF Updating
      <3> QED
        BY <1>2, <2>1, <2>4, <3>1, <3>2 DEF LeaseIsHeld
    <2> QED
      BY <2>2, <2>5
  <1> QED
    BY <1>1, <1>2 DEF Claim

\* A call ends in what is left of its timeout.
LEMMA PayoutCalls ==
  ASSUME PayoutIInv, NEW c \in Callers, CallGateway(c) \/ CallRefused(c)
  PROVE  PayoutIInv'
  <1> USE PayoutAssumption DEF PayoutIInv
  <1>1. UNCHANGED <<profile, touched, erased>> /\ phase[c] = "call"
    BY DEF CallGateway, CallRefused
  <1>2. \E label \in {"save", "fail"} : \E value : Enter(c, label, value)
    BY DEF CallGateway, CallRefused
  <1>3. PICK label \in {"save", "fail"} : \E value : Enter(c, label, value)
    BY <1>2
  <1>4. /\ phase' \in [Callers -> Phases]
        /\ DOMAIN kept' = Callers
        /\ waiting' \in [Callers -> Nat]
        /\ phase'[c] \in {"save", "fail"} /\ waiting'[c] = waiting[c]
        /\ \A d \in Callers \ {c} :
             phase'[d] = phase[d] /\ waiting'[d] = waiting[d]
    BY <1>3, Enters DEF Phases
  <1>5. PayoutTypeOK'
    BY <1>1, <1>4 DEF PayoutTypeOK
  <1>6. LeaseIsHeld'
    <2>1. Updating' = Updating /\ \A d \in Callers : waiting'[d] = waiting[d]
      BY <1>1, <1>4 DEF Updating
    <2>2. waiting[c] <= Lease
      BY <1>1 DEF LeaseIsHeld, PayoutTypeOK
    <2>3. \A d \in Updating : d \in Callers
      BY DEF Updating
    <2> QED
      BY <1>1, <1>4, <2>1, <2>2, <2>3 DEF LeaseIsHeld
  <1> QED
    BY <1>5, <1>6

\* The result of an update is written, and with it the lease ends.
LEMMA PayoutResults ==
  ASSUME PayoutIInv, NEW c \in Callers, SaveRecipient(c) \/ SaveFailure(c)
  PROVE  PayoutIInv'
  <1> USE DEF PayoutIInv
  <1>1. /\ erased' = erased /\ touched' = 0 /\ phase[c] \in {"save", "fail"}
        /\ Enter(c, "idle", [row |-> Blank])
    BY DEF SaveRecipient, SaveFailure, Leave
  <1>2. DOMAIN profile' = {"recipient", "sync", "bank", "error"}
    BY DEF SaveRecipient, SaveFailure, PayoutTypeOK
  <1>3. PayoutTypeOK'
    BY <1>1, <1>2, Enters DEF PayoutTypeOK, Phases
  <1>4. LeaseIsHeld'
    <2>1. /\ phase'[c] = "idle"
          /\ \A d \in Callers \ {c} :
               phase'[d] = phase[d] /\ waiting'[d] = waiting[d]
      BY <1>1, Enters DEF Phases
    <2>2. ~erased => Updating' = {}
      BY <1>1, <2>1 DEF LeaseIsHeld, Updating
    <2> QED
      BY <1>1, <2>1, <2>2 DEF LeaseIsHeld
  <1> QED
    BY <1>3, <1>4

\* A refresh is written beside no update, or is recorded to have erased one.
LEMMA PayoutRefreshed ==
  ASSUME PayoutIInv, NEW c \in Callers, WriteRefresh(c)
  PROVE  PayoutIInv'
  <1> USE DEF PayoutIInv
  <1>1. /\ erased' = (erased \/ (profile.error = "SYNCING" /\ Updating # {}))
        /\ touched' = 0 /\ phase[c] = "write"
        /\ Enter(c, "idle", [row |-> Blank])
        /\ DOMAIN profile' = DOMAIN profile
    BY DEF WriteRefresh, Leave
  <1>2. PayoutTypeOK'
    BY <1>1, Enters DEF PayoutTypeOK, Phases
  <1>3. LeaseIsHeld'
    <2>1. /\ phase'[c] = "idle"
          /\ \A d \in Callers \ {c} :
               phase'[d] = phase[d] /\ waiting'[d] = waiting[d]
      BY <1>1, Enters DEF Phases
    <2>2. Updating' = Updating
      BY <1>1, <2>1 DEF Updating
    <2>3. ~erased' => Updating = {}
      BY <1>1 DEF LeaseIsHeld, PayoutTypeOK
    <2> QED
      BY <1>1, <2>1, <2>2, <2>3 DEF LeaseIsHeld
  <1> QED
    BY <1>2, <1>3

\* The clock runs while every update is in time, for all of them alike.
LEMMA PayoutTicks ==
  ASSUME PayoutIInv, PayoutTick \/ SavePixDestination \/ RecipientMoves
  PROVE  PayoutIInv'
  <1> USE PayoutAssumption DEF PayoutIInv
  <1>1. CASE PayoutTick
    <2>1. /\ \A c \in Updating : waiting'[c] = waiting[c] + 1
          /\ \A c \in Callers : waiting'[c] \in {waiting[c], waiting[c] + 1}
          /\ waiting' \in [Callers -> Nat]
          /\ Updating' = Updating
      BY <1>1 DEF PayoutTick, Updating, PayoutTypeOK
    <2>2. touched' \in Nat /\ touched' <= touched + 1
      BY <1>1 DEF PayoutTick, Later, PayoutTypeOK
    <2>3. PayoutTypeOK'
      BY <1>1, <2>1, <2>2 DEF PayoutTick, PayoutTypeOK
    <2>4. LeaseIsHeld'
      <3>1. \A c \in Callers :
              /\ phase'[c] = "call" => waiting'[c] <= CallTimeout
              /\ phase'[c] \in {"save", "fail"} => waiting'[c] <= Lease
        BY <1>1, <2>1 DEF PayoutTick, InTime, Updating, PayoutTypeOK
      <3>2. ASSUME ~erased, NEW c \in Updating
            PROVE  touched' <= waiting'[c]
        <4>1. touched <= waiting[c] /\ waiting[c] \in Nat
          BY <3>2 DEF LeaseIsHeld, Updating, PayoutTypeOK
        <4> QED
          BY <2>1, <2>2, <4>1 DEF PayoutTypeOK
      <3> QED
        BY <1>1, <2>1, <3>1, <3>2 DEF PayoutTick, LeaseIsHeld
    <2> QED
      BY <2>3, <2>4
  <1>2. CASE SavePixDestination \/ RecipientMoves
    <2>1. /\ UNCHANGED <<profile, phase, kept, waiting, erased>>
          /\ touched' \in {0, touched}
      BY <1>2 DEF SavePixDestination, RecipientMoves
    <2>2. PayoutTypeOK'
      BY <2>1 DEF PayoutTypeOK
    <2>3. Updating' = Updating /\ \A c \in Updating : c \in Callers
      BY <2>1 DEF Updating
    <2>4. LeaseIsHeld'
      BY <2>1, <2>3 DEF LeaseIsHeld, PayoutTypeOK
    <2> QED
      BY <2>2, <2>4
  <1> QED
    BY <1>1, <1>2

\* Two updates are at the gateway only after a refresh erased the claim of one,
\* for any number of requests and whatever the lease, as long as it outlasts a
\* call (update-provider-payout.handler.ts:143).
THEOREM LeaseKeepsOthersOut == PayoutSpec => []OneUpdateAtGateway
  <1>1. ASSUME PayoutIInv, [PayoutNext]_payoutVars
        PROVE  PayoutIInv'
    <2>1. CASE UNCHANGED payoutVars
      BY <1>1, <2>1 DEF payoutVars, PayoutIInv, PayoutTypeOK, LeaseIsHeld, Updating
    <2>2. CASE PayoutNext
      BY <1>1, <2>2, PayoutBeside, PayoutClaims, PayoutCalls, PayoutResults,
         PayoutRefreshed, PayoutTicks DEF PayoutNext
    <2> QED
      BY <1>1, <2>1, <2>2
  <1>2. PayoutIInv => OneUpdateAtGateway
    <2>1. SUFFICES ASSUME PayoutIInv, ~erased
                   PROVE  ~(Cardinality(Updating) > 1)
      BY DEF OneUpdateAtGateway
    <2>2. CASE Updating = {}
      BY <2>2, FS_EmptySet
    <2>3. CASE Updating # {}
      <3>1. PICK c \in Updating : TRUE
        BY <2>3
      <3>2. Updating = {c}
        BY <2>1, <3>1 DEF PayoutIInv, LeaseIsHeld
      <3> QED
        BY <3>2, FS_Singleton
    <2> QED
      BY <2>2, <2>3
  <1> QED
    BY <1>1, <1>2, PayoutInitially, PTL DEF PayoutSpec

-----------------------------------------------------------------------------
(* The reputation of a provider.                                           *)

Transaction == [order : Orders, rating : Ratings, seen : [Orders -> Nat],
                changes : Nat]

RatingTypeOK ==
    /\ reviews \in [Orders -> Nat]
    /\ changes \in Nat
    /\ at \in [Callers -> {"idle", "begin", "insert", "update", "commit"}]
    /\ DOMAIN work = Callers
    /\ \A c \in Callers :
         /\ at[c] = "begin" => work[c] \in [order : Orders, rating : Ratings]
         /\ at[c] \in {"insert", "update", "commit"} => work[c] \in Transaction

With(seen, w) == [seen EXCEPT ![w.order] = w.rating]

\* A transaction that nobody overtook sees the reviews there are, and with
\* them its own once it is inserted; one that may commit was not overtaken, and
\* is alone.
View(c) ==
    /\ at[c] \in {"insert", "update", "commit"} => work[c].changes <= changes
    /\ (at[c] = "insert" /\ work[c].changes = changes) => work[c].seen = reviews
    /\ (at[c] = "update" /\ work[c].changes = changes) =>
         work[c].seen = With(reviews, work[c])
    /\ at[c] = "commit" =>
         /\ work[c].changes = changes
         /\ work[c].seen = With(reviews, work[c])
         /\ \A d \in Callers : at[d] = "commit" => d = c

ViewsAreCurrent == \A c \in Callers : View(c)

RatingIInv == RatingTypeOK /\ ViewsAreCurrent /\ ReputationMatchesReviews

\* No reviews add up to nothing.
LEMMA NoReviews ==
  Aggregate([o \in Orders |-> 0]) = [sum |-> 0, count |-> 0]
  <1> DEFINE seen == [o \in Orders |-> 0]
             iter == CHOOSE iter : iter = [s \in SUBSET {} |->
                       IF s = {} THEN 0
                       ELSE seen[CHOOSE x \in s : TRUE] + iter[s \ {CHOOSE x \in s : TRUE}]]
  <1>1. Reviewed(seen) = {}
    BY DEF Reviewed
  <1>2. MapThenSumSet(LAMBDA o : seen[o], {}) = iter[{}]
    BY DEF MapThenSumSet, MapThenFoldSet
  <1>3. iter[{}] = 0
    <2>1. PICK f : f = [s \in SUBSET {} |-> 0]
      OBVIOUS
    <2>2. f = [s \in SUBSET {} |->
                 IF s = {} THEN 0
                 ELSE seen[CHOOSE x \in s : TRUE] + f[s \ {CHOOSE x \in s : TRUE}]]
      BY <2>1
    <2>3. iter = [s \in SUBSET {} |->
                    IF s = {} THEN 0
                    ELSE seen[CHOOSE x \in s : TRUE] + iter[s \ {CHOOSE x \in s : TRUE}]]
      BY <2>2
    <2> QED
      BY <2>3
  <1>4. MapThenSumSet(LAMBDA o : seen[o], Reviewed(seen)) = 0 /\ Cardinality(Reviewed(seen)) = 0
    BY <1>1, <1>2, <1>3, FS_EmptySet
  <1> QED
    BY <1>4 DEF Aggregate

LEMMA RatingInitially ==
  ASSUME RatingInit
  PROVE  RatingIInv
  BY NoReviews DEF RatingInit, RatingIInv, RatingTypeOK,
     ViewsAreCurrent, View, ReputationMatchesReviews

\* The steps that change no row.
LEMMA RatingReads ==
  ASSUME RatingIInv, NEW c \in Callers,
         CheckOrder(c) \/ BeginReview(c) \/ AbortReview(c)
  PROVE  RatingIInv'
  <1> USE RatingAssumption DEF RatingIInv, RatingTypeOK, Step, Stop, With
  <1>1. UNCHANGED <<reviews, reputation, changes>>
    BY DEF CheckOrder, BeginReview, AbortReview
  <1>2. RatingTypeOK'
    BY <1>1 DEF CheckOrder, BeginReview, AbortReview, Transaction
  <1>3. /\ \A d \in Callers : d # c => at'[d] = at[d] /\ work'[d] = work[d]
        /\ at'[c] \in {"idle", "begin", "insert"}
        /\ at'[c] = "insert" =>
             work'[c].changes = changes /\ work'[c].seen = reviews
    BY DEF CheckOrder, BeginReview, AbortReview
  <1>4. ViewsAreCurrent'
    <2>1. ASSUME NEW d \in Callers \ {c} PROVE View(d)'
      <3>1. View(d) /\ at'[d] = at[d] /\ work'[d] = work[d]
        BY <1>3 DEF ViewsAreCurrent
      <3>2. at'[d] = "commit" => at'[c] # "commit"
        BY <1>3, <3>1
      <3> QED
        BY <1>1, <3>1, <3>2, <1>3 DEF View
    <2>2. View(c)'
      BY <1>1, <1>3 DEF View
    <2> QED
      BY <2>1, <2>2 DEF ViewsAreCurrent
  <1> QED
    BY <1>1, <1>2, <1>4 DEF ReputationMatchesReviews

\* The view of a transaction takes up its own review.
LEMMA RatingInserts ==
  ASSUME RatingIInv, NEW c \in Callers, InsertReview(c)
  PROVE  RatingIInv'
  <1> USE RatingAssumption DEF RatingIInv, RatingTypeOK, Step, Stop
  <1>1. UNCHANGED <<reviews, reputation, changes>>
    BY DEF InsertReview
  <1>2. CASE Stop(c)
    BY <1>1, <1>2 DEF ViewsAreCurrent, View, ReputationMatchesReviews, With
  <1>3. CASE Step(c, "update",
                  [work[c] EXCEPT !.seen[work[c].order] = work[c].rating])
    <2>1. work[c] \in Transaction
      BY DEF InsertReview
    <2> DEFINE new == [work[c] EXCEPT !.seen[work[c].order] = work[c].rating]
    <2>2. /\ new \in Transaction
          /\ new.order = work[c].order /\ new.rating = work[c].rating
          /\ new.changes = work[c].changes
          /\ new.seen = With(work[c].seen, work[c])
      BY <2>1 DEF Transaction, With
    <2>3. /\ at' = [at EXCEPT ![c] = "update"]
          /\ work' = [work EXCEPT ![c] = new]
      BY <1>3
    <2> HIDE DEF new
    <2>4. RatingTypeOK'
      BY <1>1, <2>2, <2>3
    <2>5. ViewsAreCurrent'
      <3>1. /\ \A d \in Callers : d # c => at'[d] = at[d] /\ work'[d] = work[d]
            /\ at'[c] = "update" /\ work'[c] = new
        BY <2>3
      <3>2. \A d \in Callers \ {c} : View(d)'
        BY <1>1, <3>1 DEF ViewsAreCurrent, View, With
      <3>3. View(c)'
        BY <1>1, <2>2, <3>1 DEF ViewsAreCurrent, View, With, InsertReview
      <3> QED
        BY <3>2, <3>3 DEF ViewsAreCurrent
    <2> QED
      BY <1>1, <2>4, <2>5 DEF ReputationMatchesReviews
  <1> QED
    BY <1>2, <1>3 DEF InsertReview

\* The provider's row is locked by one transaction at a time.
LEMMA RatingLocks ==
  ASSUME RatingIInv, NEW c \in Callers, UpdateReputation(c)
  PROVE  RatingIInv'
  <1> USE RatingAssumption DEF RatingIInv, RatingTypeOK, Step, Stop, With
  <1>1. UNCHANGED <<reviews, reputation, changes>>
    BY DEF UpdateReputation
  <1>2. RatingTypeOK'
    BY <1>1 DEF UpdateReputation
  <1>3. /\ \A d \in Callers : d # c => at'[d] = at[d] /\ work'[d] = work[d]
        /\ \/ at'[c] = "idle"
           \/ /\ at'[c] = "commit" /\ work'[c] = work[c]
              /\ work[c].changes = changes
              /\ \A d \in Callers : at[d] # "commit"
        /\ at[c] = "update"
    BY DEF UpdateReputation
  <1>4. ViewsAreCurrent'
    <2>1. ASSUME NEW d \in Callers \ {c} PROVE View(d)'
      <3>1. View(d) /\ at'[d] = at[d] /\ work'[d] = work[d]
        BY <1>3 DEF ViewsAreCurrent
      <3>2. at'[d] = "commit" => at'[c] # "commit"
        BY <1>3, <3>1
      <3> QED
        BY <1>1, <3>1, <3>2, <1>3 DEF View
    <2>2. View(c)'
      BY <1>1, <1>3 DEF ViewsAreCurrent, View
    <2> QED
      BY <2>1, <2>2 DEF ViewsAreCurrent
  <1> QED
    BY <1>1, <1>2, <1>4 DEF ReputationMatchesReviews

\* What is committed is what the one transaction saw; every other one has been
\* overtaken.
LEMMA RatingCommits ==
  ASSUME RatingIInv, NEW c \in Callers, CommitReview(c)
  PROVE  RatingIInv'
  <1> USE RatingAssumption DEF RatingIInv, RatingTypeOK, Step, Stop, With, CommitReview
  <1>1. work[c] \in Transaction
    OBVIOUS
  <1>2. reviews' = work[c].seen
    BY <1>1 DEF ViewsAreCurrent, View
  <1>3. ReputationMatchesReviews'
    BY <1>2 DEF ReputationMatchesReviews
  <1>4. RatingTypeOK'
    BY <1>1 DEF Transaction
  <1>5. /\ changes' = changes + 1 /\ at'[c] = "idle"
        /\ \A d \in Callers \ {c} :
             /\ at'[d] = at[d] /\ at[d] # "commit"
             /\ work'[d] = work[d]
    BY DEF ViewsAreCurrent, View
  <1>6. ViewsAreCurrent'
    <2>1. \A d \in Callers \ {c} : at[d] \in {"insert", "update"} =>
             work[d].changes \in Nat /\ work[d].changes <= changes
      BY DEF ViewsAreCurrent, View, Transaction
    <2>2. \A d \in Callers \ {c} : at'[d] \in {"insert", "update"} =>
             work'[d].changes <= changes' /\ work'[d].changes # changes'
      BY <1>5, <2>1
    <2>3. \A d \in Callers : View(d)'
      BY <1>5, <2>2 DEF View
    <2> QED
      BY <2>3 DEF ViewsAreCurrent
  <1> QED
    BY <1>3, <1>4, <1>6

\* What a provider shows is the aggregate of the reviews of its orders, for any
\* number of reviews written at once (create-order-review.handler.ts:99).
THEOREM ReputationIsCurrent == RatingSpec => []ReputationMatchesReviews
  <1>1. ASSUME RatingIInv, [RatingNext]_ratingVars
        PROVE  RatingIInv'
    <2>1. CASE UNCHANGED ratingVars
      BY <1>1, <2>1 DEF ratingVars, RatingIInv, RatingTypeOK, ViewsAreCurrent, View,
         ReputationMatchesReviews
    <2>2. CASE RatingNext
      BY <1>1, <2>2, RatingReads, RatingInserts, RatingLocks, RatingCommits
         DEF RatingNext
    <2> QED BY <1>1, <2>1, <2>2
  <1>2. RatingIInv => ReputationMatchesReviews
    BY DEF RatingIInv
  <1> QED
    BY <1>1, <1>2, RatingInitially, PTL DEF RatingSpec

-----------------------------------------------------------------------------
(* Accounts: what registrations in flight hold of the table of users.      *)

RowFields == {"email", "pending", "verified", "kind", "parts"}

Signing(c) == stage[c] \in {"createUser", "address", "services"}

\* The transaction has inserted the user's row.
Wrote(c) == stage[c] \in {"address", "services"}

UserRowInv(u) ==
    /\ DOMAIN row[u] = RowFields
    /\ row[u].email \in Emails \cup {Absent}
    /\ row[u].pending \in Emails \cup {NoEmail}

\* A registration is about somebody who is not there yet, and what it inserted
\* has an e-mail that is nobody's.
SigningInv(c) ==
    Signing(c) =>
        /\ DOMAIN draft[c] = {"user", "email", "kind", "parts"}
        /\ draft[c].user \in Users /\ draft[c].email \in Emails
        /\ draft[c].kind \in {"CLIENTE", "PRESTADOR"} /\ ~Registered(draft[c].user)
        /\ stage[c] = "address" => draft[c].parts = {"user"}
        /\ stage[c] = "services" =>
             draft[c].kind = "PRESTADOR" /\ draft[c].parts = {"user", "address"}
        /\ Wrote(c) => ~Taken(draft[c].email, draft[c].user)

KnownInv(c) ==
    stage[c] \in {"code", "verify", "save"} =>
        /\ draft[c].user \in Users /\ Registered(draft[c].user)
        /\ draft[c].email \in Emails

ApartInv(c, d) ==
    (Signing(c) /\ Signing(d)) =>
        /\ draft[c].user # draft[d].user
        /\ (Wrote(c) /\ Wrote(d)) => draft[c].email # draft[d].email

WholeInv ==
    /\ DOMAIN row = Users /\ DOMAIN stage = Callers /\ DOMAIN draft = Callers
    /\ \A u \in Users : UserRowInv(u)
    /\ \A c \in Callers : SigningInv(c) /\ KnownInv(c)
    /\ \A c, d \in Callers : c # d => ApartInv(c, d)
    /\ AccountsAreWhole

LEMMA AccountsStart == AccountInit => WholeInv
  BY DEF AccountInit, WholeInv, UserRowInv, SigningInv, KnownInv, ApartInv, Signing,
     Wrote, AccountsAreWhole, Registered, RowFields

\* A request goes on, and no row changes.
LEMMA RequestGoesOn ==
  ASSUME WholeInv, NEW c \in Callers, NEW label, NEW value, row' = row,
         Continue(c, label, value),
         SigningInv(c)', KnownInv(c)',
         \A d \in Callers \ {c} : ApartInv(c, d)'
  PROVE  WholeInv'
  <1>1. /\ DOMAIN stage' = Callers /\ DOMAIN draft' = Callers
        /\ \A d \in Callers \ {c} : stage'[d] = stage[d] /\ draft'[d] = draft[d]
    BY DEF Continue, WholeInv
  <1>2. \A d \in Callers \ {c} : SigningInv(d)' /\ KnownInv(d)'
    BY <1>1 DEF WholeInv, SigningInv, KnownInv, Signing, Wrote, Registered, Taken
  <1>3. \A d, e \in Callers : d # e => ApartInv(d, e)'
    <2>1. \A d, e \in Callers \ {c} : d # e => ApartInv(d, e)'
      BY <1>1 DEF WholeInv, ApartInv, Signing, Wrote
    <2>2. \A d \in Callers \ {c} : ApartInv(d, c)'
      BY DEF ApartInv
    <2> QED
      BY <2>1, <2>2
  <1> QED
    BY <1>1, <1>2, <1>3 DEF WholeInv, UserRowInv, AccountsAreWhole, Registered

\* The other requests hold neither the user nor the e-mail of a row that is
\* whole.
RowFits(c, u, new) ==
    /\ DOMAIN new = RowFields /\ new.email \in Emails
    /\ new.pending \in Emails \cup {NoEmail}
    /\ new.parts = RequiredParts(new.kind) /\ ~Taken(new.email, u)
    /\ \A d \in Callers \ {c} : /\ Signing(d) => draft[d].user # u
                                /\ Wrote(d) => draft[d].email # new.email

\* The request ends, or sends a code.
EndsAbout(c, u) ==
    /\ DOMAIN stage' = Callers /\ DOMAIN draft' = Callers
    /\ \A d \in Callers \ {c} : stage'[d] = stage[d] /\ draft'[d] = draft[d]
    /\ stage'[c] \in {"idle", "code"}
    /\ stage'[c] = "code" => draft'[c].user = u /\ draft'[c].email \in Emails

LEMMA FinishEnds ==
  ASSUME WholeInv, NEW c \in Callers, NEW u, Finish(c)
  PROVE  EndsAbout(c, u)
  BY DEF Finish, Continue, EndsAbout, WholeInv

\* A row changes, to an e-mail that is free.
LEMMA RowIsWritten ==
  ASSUME WholeInv, NEW c \in Callers, NEW u \in Users, NEW new,
         row' = [row EXCEPT ![u] = new], EndsAbout(c, u), RowFits(c, u, new)
  PROVE  WholeInv'
  <1>1. /\ DOMAIN stage' = Callers /\ DOMAIN draft' = Callers /\ DOMAIN row' = Users
        /\ stage'[c] \in {"idle", "code"} /\ row'[u] = new
        /\ stage'[c] = "code" => draft'[c].user = u /\ draft'[c].email \in Emails
        /\ \A d \in Callers \ {c} : stage'[d] = stage[d] /\ draft'[d] = draft[d]
        /\ \A v \in Users \ {u} : row'[v] = row[v]
    BY DEF WholeInv, EndsAbout
  <1>0. /\ DOMAIN new = RowFields /\ new.email \in Emails
        /\ new.pending \in Emails \cup {NoEmail}
        /\ new.parts = RequiredParts(new.kind) /\ ~Taken(new.email, u)
        /\ \A d \in Callers \ {c} : /\ Signing(d) => draft[d].user # u
                                    /\ Wrote(d) => draft[d].email # new.email
    BY RowFits(c, u, new) DEF RowFits
  <1>2. /\ \A v \in Users : UserRowInv(v)'
        /\ \A v \in Users : Registered(v)' <=> (Registered(v) \/ v = u)
    BY <1>0, <1>1, AccountAssumption DEF WholeInv, UserRowInv, Registered, Absent
  <1>3. SigningInv(c)' /\ KnownInv(c)'
    BY <1>1, <1>2 DEF SigningInv, KnownInv, Signing
  <1>4. \A d \in Callers \ {c} : SigningInv(d)'
    <2> SUFFICES ASSUME NEW d \in Callers \ {c}, Signing(d)'
                 PROVE  SigningInv(d)'
      BY DEF SigningInv
    <2>1. Signing(d) /\ draft'[d] = draft[d] /\ stage'[d] = stage[d]
      BY <1>1 DEF Signing
    <2>2. /\ SigningInv(d) /\ draft[d].user # u /\ draft[d].user \in Users
          /\ Wrote(d) => draft[d].email # new.email
      BY <1>0, <2>1 DEF WholeInv, SigningInv
    <2>3. ~Registered(draft[d].user)'
      BY <1>1, <1>2, <2>1, <2>2 DEF SigningInv, Registered
    <2>4. Wrote(d)' => ~Taken(draft[d].email, draft[d].user)'
      BY <1>1, <2>1, <2>2 DEF SigningInv, Wrote, Taken
    <2> QED
      BY <2>1, <2>2, <2>3, <2>4 DEF SigningInv, Wrote
  <1>5. \A d \in Callers \ {c} : KnownInv(d)'
    BY <1>1, <1>2 DEF WholeInv, KnownInv
  <1>6. \A d, e \in Callers : d # e => ApartInv(d, e)'
    BY <1>0, <1>1 DEF WholeInv, ApartInv, Signing, Wrote
  <1>7. AccountsAreWhole'
    <2>1. \A v \in Users : Registered(v)' => row'[v].parts = RequiredParts(row'[v].kind)
      BY <1>0, <1>1, <1>2 DEF WholeInv, AccountsAreWhole
    <2>2. \A v \in Users \ {u} : row'[v].email # row'[u].email
      BY <1>0, <1>1 DEF Taken
    <2>3. \A v, w \in Users : (Registered(v)' /\ row'[v].email = row'[w].email) => v = w
      BY <1>1, <1>2, <2>2 DEF WholeInv, AccountsAreWhole
    <2> QED
      BY <2>1, <2>3 DEF AccountsAreWhole
  <1> QED
    BY <1>1, <1>2, <1>3, <1>4, <1>5, <1>6, <1>7 DEF WholeInv

\* A request that ends holds nothing.
LEMMA RequestEnds ==
  ASSUME WholeInv, NEW c \in Callers, row' = row, Finish(c)
  PROVE  WholeInv'
  <1>1. stage'[c] = "idle" /\ Continue(c, "idle", NoDraft)
    BY DEF Finish, Continue, WholeInv
  <1>2. SigningInv(c)' /\ KnownInv(c)' /\ \A d \in Callers \ {c} : ApartInv(c, d)'
    BY <1>1 DEF SigningInv, KnownInv, ApartInv, Signing
  <1> QED
    BY <1>1, <1>2, RequestGoesOn

\* A registration commits the row it inserted.
LEMMA RegistrationCommits ==
  ASSUME WholeInv, NEW c \in Callers, Wrote(c), NEW parts, Commit(c, parts), Finish(c),
         parts = RequiredParts(draft[c].kind)
  PROVE  WholeInv'
  <1> DEFINE new == [email |-> draft[c].email, pending |-> NoEmail,
                     verified |-> FALSE, kind |-> draft[c].kind, parts |-> parts]
             u == draft[c].user
  <1>1. /\ Signing(c) /\ u \in Users /\ draft[c].email \in Emails
        /\ ~Taken(draft[c].email, u)
    BY DEF WholeInv, SigningInv, Signing, Wrote
  <1>2. \A d \in Callers \ {c} :
          /\ Signing(d) => draft[d].user # u
          /\ Wrote(d) => draft[d].email # draft[c].email
    BY <1>1 DEF WholeInv, ApartInv, Signing, Wrote
  <1>3. /\ DOMAIN new = RowFields /\ new.email = draft[c].email /\ new.pending = NoEmail
        /\ new.kind = draft[c].kind /\ new.parts = parts
        /\ row' = [row EXCEPT ![u] = new]
    BY DEF Commit, RowFields
  <1> HIDE DEF new
  <1>4. EndsAbout(c, u)
    BY FinishEnds
  <1>5. RowFits(c, u, new)
    BY <1>1, <1>2, <1>3, NoEmail \in {NoEmail} DEF RowFits
  <1> HIDE DEF u
  <1> QED
    BY <1>1, <1>3, <1>4, <1>5, RowIsWritten

LEMMA AccountStep ==
  ASSUME WholeInv, [AccountNext]_accountVars
  PROVE  WholeInv'
  <1>1. CASE UNCHANGED <<row, stage, draft>>
    BY <1>1 DEF WholeInv, UserRowInv, SigningInv, KnownInv, ApartInv, Signing, Wrote,
       AccountsAreWhole, Registered, Taken
  <1>2. ASSUME NEW p \in Processes, Restart(p) PROVE WholeInv'
    <2>1. /\ row' = row /\ DOMAIN stage' = Callers /\ DOMAIN draft' = Callers
          /\ \A c \in Callers : stage'[c] = "idle"
      BY <1>2 DEF Restart
    <2> QED
      BY <2>1 DEF WholeInv, UserRowInv, SigningInv, KnownInv, ApartInv, Signing,
         AccountsAreWhole, Registered
  <1>3. ASSUME NEW c \in Callers, Register(c) PROVE WholeInv'
    <2>1. PICK u \in Users, e \in Emails, kind \in {"CLIENTE", "PRESTADOR"} :
            /\ ~Registered(u) /\ \A d \in Callers : draft[d].user # u
            /\ Continue(c, "createUser", [user |-> u, email |-> e, kind |-> kind, parts |-> {}])
      BY <1>3 DEF Register
    <2>2. /\ row' = row /\ stage'[c] = "createUser"
          /\ draft'[c] = [user |-> u, email |-> e, kind |-> kind, parts |-> {}]
          /\ \A d \in Callers \ {c} : draft'[d] = draft[d]
      BY <1>3, <2>1 DEF Register, Continue, WholeInv
    <2>3. SigningInv(c)' /\ KnownInv(c)' /\ \A d \in Callers \ {c} : ApartInv(c, d)'
      BY <2>1, <2>2 DEF SigningInv, KnownInv, ApartInv, Signing, Wrote, Registered
    <2> QED
      BY <2>1, <2>2, <2>3, RequestGoesOn
  <1>4. ASSUME NEW c \in Callers, InsertUser(c) PROVE WholeInv'
    <2>0. /\ row' = row /\ stage[c] = "createUser" /\ SigningInv(c) /\ Signing(c)
      BY <1>4 DEF InsertUser, WholeInv, Signing
    <2>1. CASE Finish(c)
      BY <2>0, <2>1, RequestEnds
    <2>2. CASE ~Taken(draft[c].email, draft[c].user)
               /\ Continue(c, "address", [draft[c] EXCEPT !.parts = {"user"}])
      <3> DEFINE new == [draft[c] EXCEPT !.parts = {"user"}]
      <3>1. /\ DOMAIN new = {"user", "email", "kind", "parts"} /\ new.user = draft[c].user
            /\ new.email = draft[c].email /\ new.kind = draft[c].kind /\ new.parts = {"user"}
        BY <2>0 DEF SigningInv
      <3>2. Continue(c, "address", new)
        BY <2>2
      <3> HIDE DEF new
      <3>3. /\ stage'[c] = "address" /\ draft'[c] = new
            /\ \A d \in Callers \ {c} : stage'[d] = stage[d] /\ draft'[d] = draft[d]
        BY <3>2 DEF Continue, WholeInv
      <3>4. SigningInv(c)' /\ KnownInv(c)'
        BY <2>0, <2>2, <3>1, <3>3 DEF SigningInv, KnownInv, Signing, Wrote, Registered, Taken
      <3>5. \A d \in Callers \ {c} : ApartInv(c, d)'
        BY <1>4, <2>0, <3>1, <3>3
           DEF WholeInv, ApartInv, Signing, Wrote, InsertUser, IndexFree
      <3> QED
        BY <2>0, <3>2, <3>4, <3>5, RequestGoesOn
    <2> QED
      BY <1>4, <2>1, <2>2 DEF InsertUser
  <1>5. ASSUME NEW c \in Callers, CreateAddress(c) PROVE WholeInv'
    <2> DEFINE parts == draft[c].parts \union {"address"}
    <2>0. /\ stage[c] = "address" /\ SigningInv(c) /\ Signing(c) /\ Wrote(c)
          /\ draft[c].parts = {"user"}
      BY <1>5 DEF CreateAddress, WholeInv, SigningInv, Signing, Wrote
    <2>1. CASE Finish(c) /\ UNCHANGED row
      BY <2>1, RequestEnds
    <2>2. CASE draft[c].kind = "CLIENTE" /\ Commit(c, parts) /\ Finish(c)
      <3>1. parts = RequiredParts(draft[c].kind)
        BY <2>0, <2>2 DEF RequiredParts
      <3> QED
        BY <2>0, <2>2, <3>1, RegistrationCommits
    <2>3. CASE /\ draft[c].kind = "PRESTADOR" /\ UNCHANGED row
               /\ Continue(c, "services", [draft[c] EXCEPT !.parts = parts])
      <3> DEFINE new == [draft[c] EXCEPT !.parts = parts]
      <3>1. /\ DOMAIN new = {"user", "email", "kind", "parts"} /\ new.user = draft[c].user
            /\ new.email = draft[c].email /\ new.kind = "PRESTADOR"
            /\ new.parts = {"user", "address"}
        BY <2>0, <2>3 DEF SigningInv
      <3>2. Continue(c, "services", new)
        BY <2>3
      <3> HIDE DEF new
      <3>3. /\ stage'[c] = "services" /\ draft'[c] = new
            /\ \A d \in Callers \ {c} : stage'[d] = stage[d] /\ draft'[d] = draft[d]
        BY <3>2 DEF Continue, WholeInv
      <3>4. SigningInv(c)' /\ KnownInv(c)'
        BY <2>0, <2>3, <3>1, <3>3 DEF SigningInv, KnownInv, Signing, Wrote, Registered, Taken
      <3>5. \A d \in Callers \ {c} : ApartInv(c, d)'
        BY <2>0, <3>1, <3>3 DEF WholeInv, ApartInv, Signing, Wrote
      <3> QED
        BY <2>3, <3>2, <3>4, <3>5, RequestGoesOn
    <2> QED
      BY <1>5, <2>1, <2>2, <2>3 DEF CreateAddress
  <1>6. ASSUME NEW c \in Callers, CreateServices(c) PROVE WholeInv'
    <2>0. /\ Wrote(c) /\ draft[c].parts = {"user", "address"} /\ draft[c].kind = "PRESTADOR"
      BY <1>6 DEF CreateServices, WholeInv, SigningInv, Signing, Wrote
    <2>1. CASE UNCHANGED row
      BY <1>6, <2>1, RequestEnds DEF CreateServices
    <2>2. CASE Commit(c, draft[c].parts \union {"provider", "services"})
      <3>1. PICK parts : parts = draft[c].parts \union {"provider", "services"}
        OBVIOUS
      <3>2. parts = RequiredParts(draft[c].kind)
        BY <2>0, <3>1 DEF RequiredParts
      <3> QED
        BY <1>6, <2>0, <2>2, <3>1, <3>2, RegistrationCommits DEF CreateServices
    <2> QED
      BY <1>6, <2>1, <2>2 DEF CreateServices
  \* The row of somebody who is there already.
  <1>7. ASSUME NEW u \in Users, Registered(u)
        PROVE  /\ DOMAIN row[u] = RowFields /\ row[u].email \in Emails
               /\ row[u].pending \in Emails \cup {NoEmail}
               /\ row[u].parts = RequiredParts(row[u].kind) /\ ~Taken(row[u].email, u)
               /\ \A d \in Callers : /\ Signing(d) => draft[d].user # u
                                     /\ Wrote(d) => draft[d].email # row[u].email
    <2>1. /\ DOMAIN row[u] = RowFields /\ row[u].email \in Emails
          /\ row[u].pending \in Emails \cup {NoEmail}
          /\ row[u].parts = RequiredParts(row[u].kind) /\ ~Taken(row[u].email, u)
      BY <1>7 DEF WholeInv, UserRowInv, AccountsAreWhole, Registered, Taken
    <2>2. \A d \in Callers : Signing(d) => draft[d].user # u
      BY <1>7 DEF WholeInv, SigningInv
    <2>3. \A d \in Callers : Wrote(d) => draft[d].email # row[u].email
      BY <2>2 DEF WholeInv, SigningInv, Signing, Wrote, Taken
    <2> QED
      BY <2>1, <2>2, <2>3
  <1>8. ASSUME NEW c \in Callers, UpdateProfile(c) PROVE WholeInv'
    <2>1. PICK u \in Users, e \in Emails :
            /\ Registered(u) /\ IndexFree(c, e) /\ ~Taken(e, u)
            /\ row' = [row EXCEPT ![u].email = e, ![u].verified = FALSE, ![u].pending = NoEmail]
      BY <1>8 DEF UpdateProfile
    <2> DEFINE new == [row[u] EXCEPT !.email = e, !.verified = FALSE, !.pending = NoEmail]
    <2>2. /\ DOMAIN new = RowFields /\ new.email = e /\ new.pending = NoEmail
          /\ new.kind = row[u].kind /\ new.parts = row[u].parts
      BY <1>7, <2>1 DEF RowFields
    <2>3. row' = [row EXCEPT ![u] = new]
      BY <2>1 DEF WholeInv
    <2> HIDE DEF new
    <2>4. EndsAbout(c, u)
      BY <1>8 DEF UpdateProfile, WholeInv, EndsAbout
    <2>5. \A d \in Callers \ {c} : Wrote(d) => draft[d].email # e
      BY <2>1 DEF IndexFree, Wrote
    <2>6. RowFits(c, u, new)
      BY <1>7, <2>1, <2>2, <2>5 DEF RowFits
    <2> QED
      BY <2>3, <2>4, <2>6, RowIsWritten
  <1>9. ASSUME NEW c \in Callers, RequestVerification(c) PROVE WholeInv'
    <2>1. PICK u \in Users, e \in Emails :
            /\ Registered(u) /\ Continue(c, "code", [user |-> u, email |-> e])
            /\ row' = [row EXCEPT ![u].pending = e, ![u].verified = FALSE]
      BY <1>9 DEF RequestVerification
    <2> DEFINE new == [row[u] EXCEPT !.pending = e, !.verified = FALSE]
    <2>2. /\ DOMAIN new = RowFields /\ new.email = row[u].email /\ new.pending = e
          /\ new.kind = row[u].kind /\ new.parts = row[u].parts
      BY <1>7, <2>1 DEF RowFields
    <2>3. row' = [row EXCEPT ![u] = new]
      BY <2>1 DEF WholeInv
    <2> HIDE DEF new
    <2>4. EndsAbout(c, u)
      BY <2>1 DEF Continue, WholeInv, EndsAbout
    <2>5. RowFits(c, u, new)
      BY <1>7, <2>1, <2>2 DEF RowFits
    <2> QED
      BY <2>3, <2>4, <2>5, RowIsWritten
  <1>10. ASSUME NEW c \in Callers, SendCode(c) PROVE WholeInv'
    BY <1>10, RequestEnds DEF SendCode
  <1>11. ASSUME NEW c \in Callers, ConfirmEmail(c) PROVE WholeInv'
    <2>1. PICK u \in Users, code \in mail :
            /\ Registered(u) /\ row[u].pending # NoEmail
            /\ Continue(c, "verify", [user |-> u, email |-> row[u].pending, code |-> code])
      BY <1>11 DEF ConfirmEmail
    <2>2. /\ row' = row /\ stage'[c] = "verify" 
          /\ draft'[c] = [user |-> u, email |-> row[u].pending, code |-> code]
      BY <1>11, <2>1 DEF ConfirmEmail, Continue, WholeInv
    <2>3. SigningInv(c)' /\ KnownInv(c)' /\ \A d \in Callers \ {c} : ApartInv(c, d)'
      BY <1>7, <2>1, <2>2 DEF SigningInv, KnownInv, ApartInv, Signing, Registered
    <2> QED
      BY <2>1, <2>2, <2>3, RequestGoesOn
  <1>12. ASSUME NEW c \in Callers, VerifyCode(c) PROVE WholeInv'
    <2>1. CASE Finish(c)
      BY <1>12, <2>1, RequestEnds DEF VerifyCode
    <2>2. CASE Continue(c, "save", draft[c])
      <3>1. row' = row /\ stage'[c] = "save" /\ draft'[c] = draft[c] /\ stage[c] = "verify"
        BY <1>12, <2>2 DEF VerifyCode, Continue, WholeInv
      <3>2. SigningInv(c)' /\ KnownInv(c)' /\ \A d \in Callers \ {c} : ApartInv(c, d)'
        BY <3>1 DEF WholeInv, SigningInv, KnownInv, ApartInv, Signing, Registered
      <3> QED
        BY <2>2, <3>1, <3>2, RequestGoesOn
    <2> QED
      BY <1>12, <2>1, <2>2 DEF VerifyCode
  <1>13. ASSUME NEW c \in Callers, SaveEmail(c) PROVE WholeInv'
    <2>0. /\ stage[c] = "save" /\ Finish(c) /\ draft[c].user \in Users
          /\ Registered(draft[c].user) /\ draft[c].email \in Emails
          /\ IndexFree(c, draft[c].email)
      BY <1>13 DEF SaveEmail, WholeInv, KnownInv
    <2>1. CASE UNCHANGED row
      BY <2>0, <2>1, RequestEnds
    <2>2. CASE /\ ~Taken(draft[c].email, draft[c].user)
               /\ row' = [row EXCEPT ![draft[c].user].email = draft[c].email,
                                     ![draft[c].user].pending = NoEmail,
                                     ![draft[c].user].verified = TRUE]
      <3>1. PICK u \in Users, e \in Emails : u = draft[c].user /\ e = draft[c].email
        BY <2>0
      <3> DEFINE new == [row[u] EXCEPT !.email = e, !.pending = NoEmail, !.verified = TRUE]
      <3>2. /\ DOMAIN new = RowFields /\ new.email = e /\ new.pending = NoEmail
            /\ new.kind = row[u].kind /\ new.parts = row[u].parts
        BY <1>7, <2>0, <3>1 DEF RowFields
      <3>3. row' = [row EXCEPT ![u] = new]
        BY <2>2, <3>1 DEF WholeInv
      <3> HIDE DEF new
      <3>4. \A d \in Callers \ {c} : Wrote(d) => draft[d].email # e
        BY <2>0, <3>1 DEF IndexFree, Wrote
      <3>5. RowFits(c, u, new)
        BY <1>7, <2>0, <2>2, <3>1, <3>2, <3>4 DEF RowFits
      <3>6. EndsAbout(c, u)
        BY <2>0, FinishEnds
      <3> QED
        BY <3>3, <3>5, <3>6, RowIsWritten
    <2> QED
      BY <1>13, <2>1, <2>2 DEF SaveEmail
  <1> QED
    BY <1>1, <1>2, <1>3, <1>4, <1>5, <1>6, <1>8, <1>9, <1>10, <1>11, <1>12, <1>13
       DEF AccountNext, SpecialtySwitched, accountVars

\* An account has every row its kind needs and an e-mail that is its own,
\* whatever the requests, on any number of processes, that register, change and
\* prove it at once (create-provider.strategy, user.service).
THEOREM AccountsWhole == AccountSpec => []AccountsAreWhole
  <1>1. WholeInv /\ [AccountNext]_accountVars => WholeInv'
    BY AccountStep
  <1>2. WholeInv => AccountsAreWhole
    BY DEF WholeInv
  <1> QED
    BY <1>1, <1>2, AccountsStart, PTL DEF AccountSpec

-----------------------------------------------------------------------------
(* Accounts: a verified address was proven. The code that a user is waiting *)
(* for goes to the pending address unless another is about to replace it,   *)
(* and whoever compares a code holds the address that was pending: that     *)
(* needs one memory of codes, and one request about a user at a time.       *)

OneMemory == ~Overlap /\ \A p, q \in Processes : p = q

Active(c) == stage[c] # "idle"

About(c, u) == Active(c) /\ draft[c].user = u

WasProven(u, email) == \E p \in proven : p.user = u /\ p.code.to = email

CodeIsDue(u) ==
    \A p \in Processes :
        \/ codes[p][u] = NoCode
        \/ codes[p][u].to = row[u].pending
        \/ row[u].pending = NoEmail
        \/ \E c \in Callers : stage[c] = "code" /\ draft[c].user = u

ProvenUser(u) ==
    /\ CodeIsDue(u)
    /\ DOMAIN row[u] = RowFields
    /\ row[u].verified => WasProven(u, row[u].email)

ProvenRequest(c) ==
    Active(c) =>
        /\ "user" \in DOMAIN draft[c] /\ draft[c].user \in Users
        /\ stage[c] = "code" => draft[c].email = row[draft[c].user].pending
        /\ stage[c] = "verify" =>
             /\ draft[c].email = row[draft[c].user].pending
             /\ draft[c].email # NoEmail /\ draft[c].code \in mail
        /\ stage[c] = "save" => WasProven(draft[c].user, draft[c].email)

MailInv == sentCodes \in Nat /\ NoCode \notin mail

ProvenInv ==
    /\ DOMAIN row = Users /\ DOMAIN stage = Callers /\ DOMAIN draft = Callers
    /\ DOMAIN codes = Processes /\ \A p \in Processes : DOMAIN codes[p] = Users
    /\ MailInv
    /\ \A u \in Users : ProvenUser(u)
    /\ \A c \in Callers : ProvenRequest(c)
    /\ \A c, d \in Callers : c # d /\ Active(c) /\ Active(d) => draft[c].user # draft[d].user

LEMMA ProofsStart == AccountInit => ProvenInv
  BY DEF AccountInit, ProvenInv, MailInv, ProvenUser, CodeIsDue, ProvenRequest, Active, RowFields

\* A step of a request about a user leaves alone what is about the others.
OnlyAbout(c, u) ==
    /\ DOMAIN row' = Users /\ DOMAIN stage' = Callers /\ DOMAIN draft' = Callers
    /\ DOMAIN codes' = Processes /\ \A p \in Processes : DOMAIN codes'[p] = Users
    /\ \A d \in Callers \ {c} : stage'[d] = stage[d] /\ draft'[d] = draft[d] /\ ~About(d, u)
    /\ \A v \in Users \ {u} : row'[v] = row[v]
    /\ \A p \in Processes, v \in Users \ {u} : codes'[p][v] = codes[p][v]
    /\ mail \subseteq mail' /\ proven \subseteq proven'
    /\ Active(c) => draft[c].user = u
    /\ Active(c)' => draft'[c].user = u

LEMMA OthersStay ==
  ASSUME ProvenInv, NEW c \in Callers, NEW u \in Users, OnlyAbout(c, u), MailInv',
         ProvenUser(u)', ProvenRequest(c)'
  PROVE  ProvenInv'
  <1>1. /\ DOMAIN row' = Users /\ DOMAIN stage' = Callers /\ DOMAIN draft' = Callers
        /\ DOMAIN codes' = Processes /\ \A p \in Processes : DOMAIN codes'[p] = Users
        /\ \A d \in Callers \ {c} : stage'[d] = stage[d] /\ draft'[d] = draft[d]
        /\ \A d \in Callers \ {c} : Active(d) => draft[d].user # u
        /\ \A v \in Users \ {u} : row'[v] = row[v]
        /\ \A p \in Processes, v \in Users \ {u} : codes'[p][v] = codes[p][v]
        /\ mail \subseteq mail' /\ proven \subseteq proven'
        /\ Active(c) => draft[c].user = u
        /\ Active(c)' => draft'[c].user = u
    BY DEF OnlyAbout, About
  <1>2. \A v, e : WasProven(v, e) => WasProven(v, e)'
    BY <1>1 DEF WasProven
  <1>3. \A v \in Users \ {u} : ProvenUser(v)'
    <2> SUFFICES ASSUME NEW v \in Users \ {u} PROVE ProvenUser(v)'
      OBVIOUS
    <2>1. ProvenUser(v) /\ row'[v] = row[v] /\ \A p \in Processes : codes'[p][v] = codes[p][v]
      BY <1>1 DEF ProvenInv
    <2>2. ASSUME NEW d \in Callers, stage[d] = "code", draft[d].user = v
          PROVE  stage'[d] = "code" /\ draft'[d].user = v
      BY <1>1, <2>2 DEF Active
    <2>3. CodeIsDue(v)'
      BY <2>1, <2>2 DEF ProvenUser, CodeIsDue
    <2> QED
      BY <1>2, <2>1, <2>3 DEF ProvenUser, WasProven
  <1>4. \A d \in Callers \ {c} : ProvenRequest(d)'
    <2> SUFFICES ASSUME NEW d \in Callers \ {c}, Active(d)' PROVE ProvenRequest(d)'
      BY DEF ProvenRequest
    <2>1. /\ ProvenRequest(d) /\ Active(d) /\ stage'[d] = stage[d] /\ draft'[d] = draft[d]
          /\ draft[d].user # u
      BY <1>1 DEF ProvenInv, Active
    <2>2. row'[draft[d].user] = row[draft[d].user]
      BY <1>1, <2>1 DEF ProvenRequest
    <2> QED
      BY <1>1, <1>2, <2>1, <2>2 DEF ProvenRequest, WasProven
  <1>5. \A d, e \in Callers : d # e /\ Active(d)' /\ Active(e)' => draft'[d].user # draft'[e].user
    BY <1>1 DEF ProvenInv, Active
  <1> QED
    BY <1>1, <1>3, <1>4, <1>5 DEF ProvenInv

\* A request goes on or ends, and nothing else changes.
LEMMA RequestAdvances ==
  ASSUME ProvenInv, NEW c \in Callers, NEW u \in Users, NEW label, NEW value,
         UNCHANGED <<row, codes, sentCodes, mail, proven>>, Continue(c, label, value),
         \A d \in Callers \ {c} : ~About(d, u),
         Active(c) => draft[c].user = u, stage[c] # "code",
         label # "idle" => value.user = u,
         ProvenRequest(c)'
  PROVE  ProvenInv'
  <1>1. /\ DOMAIN stage' = Callers /\ DOMAIN draft' = Callers
        /\ stage'[c] = label /\ draft'[c] = value
        /\ \A d \in Callers \ {c} : stage'[d] = stage[d] /\ draft'[d] = draft[d]
    BY DEF Continue, ProvenInv
  <1>2. OnlyAbout(c, u)
    BY <1>1 DEF OnlyAbout, ProvenInv, Active
  <1>3. ProvenUser(u)'
    BY <1>1 DEF ProvenInv, ProvenUser, CodeIsDue, WasProven
  <1>4. MailInv'
    BY DEF MailInv, ProvenInv
  <1> QED
    BY <1>2, <1>3, <1>4, OthersStay

\* The row of the request's user changes, and the request ends.
LEMMA RowChanges ==
  ASSUME ProvenInv, NEW c \in Callers, NEW u \in Users, NEW new,
         UNCHANGED <<codes, sentCodes, mail, proven>>,
         row' = [row EXCEPT ![u] = new],
         DOMAIN stage' = Callers, DOMAIN draft' = Callers, stage'[c] = "idle",
         \A d \in Callers \ {c} : stage'[d] = stage[d] /\ draft'[d] = draft[d],
         \A d \in Callers \ {c} : ~About(d, u),
         Active(c) => draft[c].user = u,
         DOMAIN new = RowFields, new.pending = NoEmail,
         new.verified => WasProven(u, new.email)
  PROVE  ProvenInv'
  <1>1. /\ DOMAIN row' = Users /\ row'[u] = new
        /\ \A v \in Users \ {u} : row'[v] = row[v]
    BY DEF ProvenInv
  <1>2. OnlyAbout(c, u)
    BY <1>1 DEF OnlyAbout, ProvenInv, Active
  <1>3. ProvenUser(u)'
    BY <1>1 DEF ProvenUser, CodeIsDue, WasProven
  <1>4. ProvenRequest(c)' /\ MailInv'
    BY DEF ProvenRequest, Active, MailInv, ProvenInv
  <1> QED
    BY <1>2, <1>3, <1>4, OthersStay

\* What a request in flight knows of the others.
LEMMA RequestAlone ==
  ASSUME ProvenInv, NEW c \in Callers, Active(c)
  PROVE  /\ "user" \in DOMAIN draft[c] /\ draft[c].user \in Users
         /\ \A d \in Callers \ {c} : ~About(d, draft[c].user)
         /\ ProvenRequest(c)
  BY DEF ProvenInv, ProvenRequest, About

LEMMA RequestFinishes ==
  ASSUME ProvenInv, NEW c \in Callers, Active(c), stage[c] # "code", Finish(c),
         UNCHANGED <<row, codes, sentCodes, mail, proven>>
  PROVE  ProvenInv'
  <1>1. PICK u \in Users : u = draft[c].user /\ \A d \in Callers \ {c} : ~About(d, u)
    BY RequestAlone
  <1>2. ProvenRequest(c)'
    BY DEF Finish, Continue, ProvenInv, ProvenRequest, Active
  <1>3. PICK label, value : label = "idle" /\ Continue(c, label, value)
    BY DEF Finish
  <1> QED
    BY <1>1, <1>2, <1>3, RequestAdvances

LEMMA ProvenStep ==
  ASSUME ProvenInv, OneMemory, [AccountNext]_accountVars
  PROVE  ProvenInv'
  <1>1. CASE UNCHANGED <<row, codes, sentCodes, mail, proven, stage, draft>>
    BY <1>1 DEF ProvenInv, MailInv, ProvenUser, CodeIsDue, ProvenRequest, Active, WasProven
  <1>2. ASSUME NEW p \in Processes, Restart(p) PROVE ProvenInv'
    <2>1. /\ UNCHANGED <<row, sentCodes, mail, proven>>
          /\ DOMAIN stage' = Callers /\ DOMAIN draft' = Callers
          /\ \A c \in Callers : ~Active(c)'
      BY <1>2 DEF Restart, Active
    <2>2. /\ DOMAIN codes' = Processes /\ \A q \in Processes : DOMAIN codes'[q] = Users
          /\ \A q \in Processes, u \in Users : codes'[q][u] = NoCode
      BY <1>2 DEF Restart, ProvenInv, OneMemory
    <2>3. \A u \in Users : ProvenUser(u)'
      BY <2>1, <2>2 DEF ProvenInv, ProvenUser, CodeIsDue, WasProven
    <2> QED
      BY <2>1, <2>2, <2>3 DEF ProvenInv, MailInv, ProvenRequest
  <1>3. ASSUME NEW c \in Callers, Register(c) PROVE ProvenInv'
    <2>1. PICK u \in Users, e \in Emails, kind \in {"CLIENTE", "PRESTADOR"} :
            /\ \A d \in Callers : draft[d].user # u
            /\ Continue(c, "createUser", [user |-> u, email |-> e, kind |-> kind, parts |-> {}])
      BY <1>3 DEF Register
    <2>2. PICK label, value :
            /\ label = "createUser" /\ "user" \in DOMAIN value /\ value.user = u
            /\ Continue(c, label, value)
      BY <2>1
    <2>3. /\ \A d \in Callers \ {c} : ~About(d, u)
          /\ ~Active(c) /\ stage[c] # "code"
          /\ UNCHANGED <<row, codes, sentCodes, mail, proven>>
      BY <1>3, <2>1 DEF Register, About, Active
    <2>4. ProvenRequest(c)'
      BY <2>2 DEF Continue, ProvenInv, ProvenRequest, Active
    <2> QED
      BY <2>2, <2>3, <2>4, RequestAdvances
  <1>4. ASSUME NEW c \in Callers, InsertUser(c) PROVE ProvenInv'
    <2>1. /\ Active(c) /\ stage[c] # "code"
          /\ UNCHANGED <<row, codes, sentCodes, mail, proven>>
      BY <1>4 DEF InsertUser, Active
    <2>2. CASE Finish(c)
      BY <2>1, <2>2, RequestFinishes
    <2>3. CASE Continue(c, "address", [draft[c] EXCEPT !.parts = {"user"}])
      <3>1. PICK u \in Users : u = draft[c].user /\ \A d \in Callers \ {c} : ~About(d, u)
        BY <2>1, RequestAlone
      <3>2. PICK label, value :
              /\ label = "address" /\ "user" \in DOMAIN value /\ value.user = u
              /\ Continue(c, label, value)
        BY <2>1, <2>3, <3>1, RequestAlone
      <3>3. ProvenRequest(c)'
        BY <3>2 DEF Continue, ProvenInv, ProvenRequest, Active
      <3> QED
        BY <2>1, <3>1, <3>2, <3>3, RequestAdvances
    <2> QED
      BY <1>4, <2>2, <2>3 DEF InsertUser
  \* A registration commits a row that is not verified.
  <1>5. ASSUME NEW c \in Callers, NEW parts, Active(c), Commit(c, parts), Finish(c),
               UNCHANGED <<codes, sentCodes, mail, proven>>
        PROVE  ProvenInv'
    <2>1. PICK u \in Users : u = draft[c].user /\ \A d \in Callers \ {c} : ~About(d, u)
      BY <1>5, RequestAlone
    <2>2. PICK new : new = [email |-> draft[c].email, pending |-> NoEmail,
                            verified |-> FALSE, kind |-> draft[c].kind, parts |-> parts]
      OBVIOUS
    <2>3. row' = [row EXCEPT ![u] = new]
      BY <1>5, <2>1, <2>2 DEF Commit
    <2>4. DOMAIN new = RowFields /\ new.pending = NoEmail /\ ~new.verified
      BY <2>2 DEF RowFields
    <2>5. /\ DOMAIN stage' = Callers /\ DOMAIN draft' = Callers /\ stage'[c] = "idle"
          /\ \A d \in Callers \ {c} : stage'[d] = stage[d] /\ draft'[d] = draft[d]
      BY <1>5 DEF Finish, Continue, ProvenInv
    <2> QED
      BY <1>5, <2>1, <2>3, <2>4, <2>5, RowChanges
  <1>6. ASSUME NEW c \in Callers, CreateAddress(c) PROVE ProvenInv'
    <2>1. /\ Active(c) /\ stage[c] # "code" /\ UNCHANGED <<codes, sentCodes, mail, proven>>
      BY <1>6 DEF CreateAddress, Active
    <2>2. CASE Finish(c) /\ UNCHANGED row
      BY <2>1, <2>2, RequestFinishes
    <2>3. CASE Commit(c, draft[c].parts \union {"address"}) /\ Finish(c)
      BY <1>5, <2>1, <2>3
    <2>4. CASE /\ UNCHANGED row
               /\ Continue(c, "services",
                           [draft[c] EXCEPT !.parts = draft[c].parts \union {"address"}])
      <3>1. PICK u \in Users : u = draft[c].user /\ \A d \in Callers \ {c} : ~About(d, u)
        BY <2>1, RequestAlone
      <3>2. PICK label, value :
              /\ label = "services" /\ "user" \in DOMAIN value /\ value.user = u
              /\ Continue(c, label, value)
        BY <2>1, <2>4, <3>1, RequestAlone
      <3>3. ProvenRequest(c)'
        BY <3>2 DEF Continue, ProvenInv, ProvenRequest, Active
      <3> QED
        BY <2>1, <2>4, <3>1, <3>2, <3>3, RequestAdvances
    <2> QED
      BY <1>6, <2>2, <2>3, <2>4 DEF CreateAddress
  <1>7. ASSUME NEW c \in Callers, CreateServices(c) PROVE ProvenInv'
    <2>1. /\ Active(c) /\ stage[c] # "code" /\ Finish(c)
          /\ UNCHANGED <<codes, sentCodes, mail, proven>>
      BY <1>7 DEF CreateServices, Active
    <2>2. CASE UNCHANGED row
      BY <2>1, <2>2, RequestFinishes
    <2>3. CASE Commit(c, draft[c].parts \union {"provider", "services"})
      BY <1>5, <2>1, <2>3
    <2> QED
      BY <1>7, <2>2, <2>3 DEF CreateServices
  \* A turn is nobody else's.
  <1>8. ASSUME NEW c \in Callers, NEW u, Turn(c, u)
        PROVE  \A d \in Callers \ {c} : ~About(d, u)
    BY <1>8 DEF Turn, OneMemory, About
  <1>9. ASSUME NEW c \in Callers, UpdateProfile(c) PROVE ProvenInv'
    <2>1. PICK u \in Users, e \in Emails :
            /\ Turn(c, u)
            /\ row' = [row EXCEPT ![u].email = e, ![u].verified = FALSE, ![u].pending = NoEmail]
      BY <1>9 DEF UpdateProfile
    <2>2. PICK new : new = [row[u] EXCEPT !.email = e, !.verified = FALSE, !.pending = NoEmail]
      OBVIOUS
    <2>3. row' = [row EXCEPT ![u] = new]
      BY <2>1, <2>2 DEF ProvenInv
    <2>4. DOMAIN new = RowFields /\ new.pending = NoEmail /\ ~new.verified
      BY <2>2 DEF ProvenInv, ProvenUser, RowFields
    <2>5. /\ DOMAIN stage' = Callers /\ DOMAIN draft' = Callers
          /\ stage'[c] = "idle" /\ ~Active(c)
          /\ \A d \in Callers \ {c} : stage'[d] = stage[d] /\ draft'[d] = draft[d]
          /\ UNCHANGED <<codes, sentCodes, mail, proven>>
      BY <1>9 DEF UpdateProfile, ProvenInv, Active
    <2>6. \A d \in Callers \ {c} : ~About(d, u)
      BY <1>8, <2>1
    <2> QED
      BY <2>3, <2>4, <2>5, <2>6, RowChanges
  <1>10. ASSUME NEW c \in Callers, RequestVerification(c) PROVE ProvenInv'
    <2>1. PICK u \in Users, e \in Emails :
            /\ Turn(c, u) /\ Continue(c, "code", [user |-> u, email |-> e])
            /\ row' = [row EXCEPT ![u].pending = e, ![u].verified = FALSE]
      BY <1>10 DEF RequestVerification
    <2>2. /\ ~Active(c) /\ UNCHANGED <<codes, sentCodes, mail, proven>>
          /\ \A d \in Callers \ {c} : ~About(d, u)
      BY <1>8, <1>10, <2>1 DEF RequestVerification, Active
    <2>3. /\ DOMAIN row' = Users /\ \A v \in Users \ {u} : row'[v] = row[v]
          /\ DOMAIN row'[u] = RowFields /\ row'[u].pending = e /\ ~row'[u].verified
      BY <2>1 DEF ProvenInv, ProvenUser, RowFields
    <2>4. /\ DOMAIN stage' = Callers /\ DOMAIN draft' = Callers
          /\ stage'[c] = "code" /\ draft'[c] = [user |-> u, email |-> e]
          /\ \A d \in Callers \ {c} : stage'[d] = stage[d] /\ draft'[d] = draft[d]
      BY <2>1 DEF ProvenInv, Continue
    <2>5. OnlyAbout(c, u)
      BY <2>2, <2>3, <2>4 DEF OnlyAbout, ProvenInv
    <2>6. ProvenUser(u)'
      BY <2>3, <2>4 DEF ProvenUser, CodeIsDue
    <2>7. ProvenRequest(c)' /\ MailInv'
      BY <2>2, <2>3, <2>4 DEF ProvenRequest, MailInv, ProvenInv
    <2> QED
      BY <2>5, <2>6, <2>7, OthersStay
  <1>11. ASSUME NEW c \in Callers, SendCode(c) PROVE ProvenInv'
    <2>1. /\ Active(c) /\ stage[c] = "code" /\ UNCHANGED <<row, proven>> /\ Finish(c)
          /\ sentCodes' = sentCodes + 1
      BY <1>11 DEF SendCode, Active
    <2>2. PICK u \in Users : /\ u = draft[c].user /\ \A d \in Callers \ {c} : ~About(d, u)
                             /\ draft[c].email = row[u].pending
      BY <2>1, RequestAlone DEF ProvenRequest
    <2>3. PICK code : code = [number |-> sentCodes + 1, to |-> draft[c].email]
      OBVIOUS
    <2>4. PICK p \in Processes : /\ codes' = [codes EXCEPT ![p][u] = code]
                                /\ mail' \in {mail, mail \union {code}}
      BY <1>11, <2>1, <2>2, <2>3 DEF SendCode
    <2>5. code # NoCode /\ code.to = row[u].pending
      BY <2>2, <2>3 DEF ProvenInv, MailInv, NoCode
    <2>6. /\ DOMAIN codes' = Processes /\ \A q \in Processes : DOMAIN codes'[q] = Users
          /\ \A q \in Processes : codes'[q][u] = code
          /\ \A q \in Processes, v \in Users \ {u} : codes'[q][v] = codes[q][v]
      BY <2>4 DEF ProvenInv, OneMemory
    <2>7. /\ DOMAIN stage' = Callers /\ DOMAIN draft' = Callers /\ stage'[c] = "idle"
          /\ \A d \in Callers \ {c} : stage'[d] = stage[d] /\ draft'[d] = draft[d]
      BY <2>1 DEF Finish, Continue, ProvenInv
    <2>8. OnlyAbout(c, u)
      BY <2>1, <2>2, <2>4, <2>6, <2>7 DEF OnlyAbout, ProvenInv, Active
    <2>9. ProvenUser(u)'
      BY <2>1, <2>5, <2>6 DEF ProvenInv, ProvenUser, CodeIsDue, WasProven
    <2>10. ProvenRequest(c)' /\ MailInv'
      BY <2>1, <2>4, <2>5, <2>7 DEF ProvenRequest, Active, MailInv, ProvenInv
    <2> QED
      BY <2>8, <2>9, <2>10, OthersStay
  <1>12. ASSUME NEW c \in Callers, ConfirmEmail(c) PROVE ProvenInv'
    <2>1. PICK u \in Users, code \in mail :
            /\ Turn(c, u) /\ row[u].pending # NoEmail
            /\ Continue(c, "verify", [user |-> u, email |-> row[u].pending, code |-> code])
      BY <1>12 DEF ConfirmEmail
    <2>2. PICK label, value :
            /\ label = "verify" /\ Continue(c, label, value)
            /\ "user" \in DOMAIN value /\ value.user = u
            /\ value.email = row[u].pending /\ value.code = code
      BY <2>1
    <2>3. /\ ~Active(c) /\ stage[c] # "code" /\ \A d \in Callers \ {c} : ~About(d, u)
          /\ UNCHANGED <<row, codes, sentCodes, mail, proven>>
      BY <1>8, <1>12, <2>1 DEF ConfirmEmail, Active
    <2>4. ProvenRequest(c)'
      BY <2>1, <2>2, <2>3 DEF Continue, ProvenInv, ProvenRequest, Active
    <2> QED
      BY <2>2, <2>3, <2>4, RequestAdvances
  <1>13. ASSUME NEW c \in Callers, VerifyCode(c) PROVE ProvenInv'
    <2>1. Active(c) /\ stage[c] = "verify" /\ UNCHANGED <<row, sentCodes, mail>>
      BY <1>13 DEF VerifyCode, Active
    <2>2. PICK u \in Users :
            /\ u = draft[c].user /\ \A d \in Callers \ {c} : ~About(d, u)
            /\ draft[c].email = row[u].pending /\ draft[c].email # NoEmail
            /\ draft[c].code \in mail
      BY <2>1, RequestAlone DEF ProvenRequest
    <2>3. CASE Finish(c) /\ UNCHANGED <<codes, proven>>
      BY <2>1, <2>3, RequestFinishes
    <2>4. ASSUME NEW p \in Processes, codes[p][u] = draft[c].code,
                 codes' = [codes EXCEPT ![p][u] = NoCode],
                 proven' = proven \union {[user |-> u, code |-> draft[c].code]},
                 Continue(c, "save", draft[c])
          PROVE  ProvenInv'
      <3>1. draft[c].code.to = draft[c].email
        <4>1. codes[p][u] # NoCode
          BY <2>2, <2>4 DEF ProvenInv, MailInv
        <4>2. ~ \E d \in Callers : stage[d] = "code" /\ draft[d].user = u
          BY <2>1, <2>2 DEF About, Active
        <4> QED
          BY <2>2, <2>4, <4>1, <4>2 DEF ProvenInv, ProvenUser, CodeIsDue
      <3>2. /\ DOMAIN codes' = Processes /\ \A q \in Processes : DOMAIN codes'[q] = Users
            /\ \A q \in Processes : codes'[q][u] = NoCode
            /\ \A q \in Processes, v \in Users \ {u} : codes'[q][v] = codes[q][v]
        BY <2>4 DEF ProvenInv, OneMemory
      <3>3. /\ DOMAIN stage' = Callers /\ DOMAIN draft' = Callers
            /\ stage'[c] = "save" /\ draft'[c] = draft[c]
            /\ \A d \in Callers \ {c} : stage'[d] = stage[d] /\ draft'[d] = draft[d]
        BY <2>4 DEF Continue, ProvenInv
      <3>4. WasProven(u, draft[c].email)' /\ \A e : WasProven(u, e) => WasProven(u, e)'
        <4>1. PICK q : q = [user |-> u, code |-> draft[c].code]
          OBVIOUS
        <4>2. q \in proven' /\ q.user = u /\ q.code.to = draft'[c].email
          BY <2>4, <3>1, <3>3, <4>1
        <4> QED
          BY <2>4, <4>2 DEF WasProven
      <3>5. OnlyAbout(c, u)
        BY <2>1, <2>2, <2>4, <3>2, <3>3 DEF OnlyAbout, ProvenInv, Active
      <3>6. ProvenUser(u)'
        BY <2>1, <3>2, <3>4 DEF ProvenInv, ProvenUser, CodeIsDue, WasProven
      <3>7. ProvenRequest(c)' /\ MailInv'
        BY <2>1, <2>2, <3>3, <3>4 DEF ProvenRequest, WasProven, MailInv, ProvenInv
      <3> QED
        BY <3>5, <3>6, <3>7, OthersStay
    <2> QED
      BY <1>13, <2>2, <2>3, <2>4 DEF VerifyCode
  <1>14. ASSUME NEW c \in Callers, SaveEmail(c) PROVE ProvenInv'
    <2>1. /\ Active(c) /\ stage[c] = "save" /\ Finish(c)
          /\ UNCHANGED <<codes, sentCodes, mail, proven>>
      BY <1>14 DEF SaveEmail, Active
    <2>2. CASE UNCHANGED row
      BY <2>1, <2>2, RequestFinishes
    <2>3. CASE row' = [row EXCEPT ![draft[c].user].email = draft[c].email,
                                  ![draft[c].user].pending = NoEmail,
                                  ![draft[c].user].verified = TRUE]
      <3>1. PICK u \in Users : /\ u = draft[c].user /\ \A d \in Callers \ {c} : ~About(d, u)
                               /\ WasProven(u, draft[c].email)
        BY <2>1, RequestAlone DEF ProvenRequest
      <3>2. PICK new : new = [row[u] EXCEPT !.email = draft[c].email, !.pending = NoEmail,
                                            !.verified = TRUE]
        OBVIOUS
      <3>3. row' = [row EXCEPT ![u] = new]
        BY <2>3, <3>1, <3>2 DEF ProvenInv
      <3>4. DOMAIN new = RowFields /\ new.pending = NoEmail /\ WasProven(u, new.email)
        BY <3>1, <3>2 DEF ProvenInv, ProvenUser, RowFields
      <3>5. /\ DOMAIN stage' = Callers /\ DOMAIN draft' = Callers /\ stage'[c] = "idle"
            /\ \A d \in Callers \ {c} : stage'[d] = stage[d] /\ draft'[d] = draft[d]
        BY <2>1 DEF Finish, Continue, ProvenInv
      <3> QED
        BY <2>1, <3>1, <3>3, <3>4, <3>5, RowChanges
    <2> QED
      BY <1>14, <2>2, <2>3 DEF SaveEmail
  <1> QED
    BY <1>1, <1>2, <1>3, <1>4, <1>6, <1>7, <1>9, <1>10, <1>11, <1>12, <1>13, <1>14
       DEF AccountNext, SpecialtySwitched, accountVars

\* With one process, and requests about one user that do not overlap, a
\* verified address is one whose code the user gave back, and accounts are
\* whole (user.service.ts:221).
THEOREM AccountsAreTrue ==
  ASSUME ~Overlap, \A p, q \in Processes : p = q
  PROVE  AccountSpec => []AccountsTellTheTruth
  <1>1. OneMemory
    BY DEF OneMemory
  <1>2. ProvenInv /\ [AccountNext]_accountVars => ProvenInv'
    BY <1>1, ProvenStep
  <1>3. ProvenInv => VerifiedWasProven
    BY DEF ProvenInv, ProvenUser, WasProven, VerifiedWasProven
  <1>4. AccountsAreWhole /\ VerifiedWasProven => AccountsTellTheTruth
    BY DEF AccountsTellTheTruth
  <1> QED
    BY <1>2, <1>3, <1>4, ProofsStart, AccountsWhole, PTL DEF AccountSpec

-----------------------------------------------------------------------------
(* The weekly hours of a provider.                                         *)

\* Of some numbers one is the least.
LEMMA LeastNumber ==
  ASSUME NEW T \in SUBSET Nat, T # {}
  PROVE  \E n \in T : \A m \in T : n <= m
  <1> DEFINE R == OpToRel(<, Nat)
  <1>1. IsWellFoundedOn(R, Nat)
    BY NatLessThanWellFounded
  <1>2. \A x, y \in Nat : x < y => <<x, y>> \in R
    BY DEF OpToRel
  <1> HIDE DEF R
  <1>3. PICK n \in T : \A m \in T : ~ (<<m, n>> \in R)
    BY <1>1, WFMin
  <1>4. \A m \in T : ~ (m < n)
    BY <1>2, <1>3
  <1>5. \A m \in T : n <= m
    BY <1>4
  <1> QED
    BY <1>5

AnyWindow == [start : Int, end : Int, slotMinutes : Int]

Earlier(ws, i) == {j \in DOMAIN ws : VisitedBefore(ws, j, i)}

LEMMA WindowTimes ==
  ASSUME NEW ws \in Seq(AnyWindow)
  PROVE  \A i \in DOMAIN ws : /\ i \in Int /\ ws[i].start \in Int /\ ws[i].end \in Int
                              /\ ws[i].slotMinutes \in Int
  <1>1. \A i \in DOMAIN ws : i \in Int /\ ws[i] \in AnyWindow
    OBVIOUS
  <1> QED
    BY <1>1 DEF AnyWindow

\* The windows stand in a line.
LEMMA WindowsInLine ==
  ASSUME NEW ws \in Seq(AnyWindow)
  PROVE  /\ \A i, j \in DOMAIN ws : i # j => VisitedBefore(ws, i, j) \/ VisitedBefore(ws, j, i)
         /\ \A i \in DOMAIN ws : ~VisitedBefore(ws, i, i)
         /\ \A i, j, k \in DOMAIN ws :
              VisitedBefore(ws, i, j) /\ VisitedBefore(ws, j, k) => VisitedBefore(ws, i, k)
  <1>1. \A i \in DOMAIN ws : i \in Int /\ ws[i].start \in Int
    BY WindowTimes
  <1> QED
    <2>1. ASSUME NEW i \in DOMAIN ws, NEW j \in DOMAIN ws, i # j
          PROVE  VisitedBefore(ws, i, j) \/ VisitedBefore(ws, j, i)
      BY <1>1, <2>1 DEF VisitedBefore
    <2>2. ASSUME NEW i \in DOMAIN ws PROVE ~VisitedBefore(ws, i, i)
      BY <1>1 DEF VisitedBefore
    <2>3. ASSUME NEW i \in DOMAIN ws, NEW j \in DOMAIN ws, NEW k \in DOMAIN ws,
                 VisitedBefore(ws, i, j), VisitedBefore(ws, j, k)
          PROVE  VisitedBefore(ws, i, k)
      <3>1. /\ i \in Int /\ ws[i].start \in Int /\ j \in Int /\ ws[j].start \in Int
            /\ k \in Int /\ ws[k].start \in Int
        BY <1>1
      <3> QED
        BY <2>3, <3>1 DEF VisitedBefore
    <2> QED
      BY <2>1, <2>2, <2>3

LEMMA PlacesAreNumbers ==
  ASSUME NEW ws \in Seq(AnyWindow)
  PROVE  \A i \in DOMAIN ws :
            /\ IsFiniteSet(Earlier(ws, i)) /\ Place(ws, i) = Cardinality(Earlier(ws, i))
            /\ Place(ws, i) \in Nat
  <1>1. IsFiniteSet(DOMAIN ws)
    BY FS_Interval
  <1>2. \A i \in DOMAIN ws : IsFiniteSet(Earlier(ws, i))
    BY <1>1, FS_Subset DEF Earlier
  <1> QED
    BY <1>2, FS_CardinalityType DEF Earlier, Place

\* A window has its place after those it is visited after.
LEMMA LaterPlace ==
  ASSUME NEW ws \in Seq(AnyWindow), NEW i \in DOMAIN ws, NEW j \in DOMAIN ws,
         VisitedBefore(ws, j, i)
  PROVE  Place(ws, j) < Place(ws, i)
  <1>1. Earlier(ws, j) \in SUBSET Earlier(ws, i) /\ j \in Earlier(ws, i) /\ j \notin Earlier(ws, j)
    BY WindowsInLine DEF Earlier
  <1>2. /\ Cardinality(Earlier(ws, j)) <= Cardinality(Earlier(ws, i))
        /\ Cardinality(Earlier(ws, j)) # Cardinality(Earlier(ws, i))
    BY <1>1, PlacesAreNumbers, FS_Subset
  <1> QED
    BY <1>2, PlacesAreNumbers

\* One of the windows visited before another is visited just before it.
LEMMA WindowJustBefore ==
  ASSUME NEW ws \in Seq(AnyWindow), NEW i \in DOMAIN ws, NEW j \in DOMAIN ws,
         VisitedBefore(ws, j, i)
  PROVE  \E k \in DOMAIN ws : /\ j = k \/ VisitedBefore(ws, j, k)
                              /\ VisitedBefore(ws, k, i)
                              /\ Place(ws, i) = Place(ws, k) + 1
  <1> DEFINE T == {Place(ws, i) - Place(ws, k) : k \in Earlier(ws, i)}
  <1>1. T \in SUBSET Nat /\ T # {}
    <2>1. \A k \in Earlier(ws, i) : Place(ws, i) - Place(ws, k) \in Nat
      <3> SUFFICES ASSUME NEW k \in Earlier(ws, i)
                   PROVE  Place(ws, i) - Place(ws, k) \in Nat
        OBVIOUS
      <3>1. k \in DOMAIN ws /\ VisitedBefore(ws, k, i)
        BY DEF Earlier
      <3>2. Place(ws, k) < Place(ws, i) /\ Place(ws, k) \in Nat /\ Place(ws, i) \in Nat
        BY <3>1, PlacesAreNumbers, LaterPlace
      <3> QED
        BY <3>2
    <2>2. j \in Earlier(ws, i)
      BY DEF Earlier
    <2> QED
      BY <2>1, <2>2
  <1>2. PICK n \in T : \A m \in T : n <= m
    BY <1>1, LeastNumber
  <1>3. PICK k \in Earlier(ws, i) : n = Place(ws, i) - Place(ws, k)
    BY <1>2
  <1>4. k \in DOMAIN ws /\ VisitedBefore(ws, k, i)
    BY <1>3 DEF Earlier
  <1>5. \A y \in Earlier(ws, i) : ~(Place(ws, k) < Place(ws, y))
    <2> SUFFICES ASSUME NEW y \in Earlier(ws, i), Place(ws, k) < Place(ws, y) PROVE FALSE
      OBVIOUS
    <2>1. Place(ws, i) - Place(ws, y) \in T
      OBVIOUS
    <2>2. Place(ws, i) - Place(ws, k) <= Place(ws, i) - Place(ws, y)
      BY <1>2, <1>3, <2>1
    <2> HIDE DEF T
    <2>3. Place(ws, i) \in Nat /\ Place(ws, k) \in Nat /\ Place(ws, y) \in Nat
      BY <1>4, PlacesAreNumbers DEF Earlier
    <2> QED
      BY <2>2, <2>3
  <1> HIDE DEF T
  <1>6. \A y \in Earlier(ws, i) : y = k \/ VisitedBefore(ws, y, k)
    BY <1>4, <1>5, WindowsInLine, LaterPlace DEF Earlier
  <1>7. Earlier(ws, i) = Earlier(ws, k) \cup {k} /\ k \notin Earlier(ws, k)
    BY <1>3, <1>4, <1>6, WindowsInLine DEF Earlier
  <1>8. Place(ws, i) = Place(ws, k) + 1
    BY <1>4, <1>7, PlacesAreNumbers, FS_AddElement
  <1> QED
    BY <1>4, <1>6, <1>8 DEF Earlier

\* Compared with the one just before it, each window begins after the end of
\* all before it.
LEMMA VisitedAfterTheEnd ==
  ASSUME NEW ws \in Seq(AnyWindow), ValidDay(ws), NEW i \in DOMAIN ws, NEW j \in DOMAIN ws,
         VisitedBefore(ws, j, i)
  PROVE  ws[j].end <= ws[i].start
  <1>1. \A x \in DOMAIN ws : /\ ws[x].start \in Int /\ ws[x].end \in Int
                             /\ ws[x].start < ws[x].end
    BY WindowTimes DEF ValidDay, ValidWindow
  <1> DEFINE Fits(x) == \A y \in DOMAIN ws : VisitedBefore(ws, y, x) => ws[y].end <= ws[x].start
             Bad == {x \in DOMAIN ws : ~Fits(x)}
             T == {Place(ws, x) : x \in Bad}
  <1>2. SUFFICES ASSUME Bad # {} PROVE FALSE
    OBVIOUS
  <1>3. PICK x \in Bad : \A y \in Bad : Place(ws, x) <= Place(ws, y)
    <2>1. T \in SUBSET Nat /\ T # {}
      BY <1>2, PlacesAreNumbers
    <2>2. PICK n \in T : \A m \in T : n <= m
      BY <2>1, LeastNumber
    <2> QED
      BY <2>2
  <1>4. PICK y \in DOMAIN ws : VisitedBefore(ws, y, x) /\ ~(ws[y].end <= ws[x].start)
    OBVIOUS
  <1>5. PICK k \in DOMAIN ws : /\ y = k \/ VisitedBefore(ws, y, k)
                               /\ VisitedBefore(ws, k, x)
                               /\ Place(ws, x) = Place(ws, k) + 1
    BY <1>4, WindowJustBefore
  <1>6. ws[k].end <= ws[x].start
    BY <1>5 DEF ValidDay
  <1>7. Fits(k)
    <2>1. ~(Place(ws, x) <= Place(ws, k))
      BY <1>5, PlacesAreNumbers
    <2> QED
      BY <1>3, <1>5, <2>1
  <1>8. CASE y = k
    BY <1>4, <1>6, <1>8
  <1>9. CASE VisitedBefore(ws, y, k)
    <2>1. ws[y].end <= ws[k].start
      BY <1>7, <1>9
    <2>2. /\ ws[y].end \in Int /\ ws[k].start \in Int /\ ws[k].end \in Int
          /\ ws[x].start \in Int /\ ws[k].start < ws[k].end
      BY <1>1
    <2> QED
      BY <1>4, <1>6, <2>1, <2>2
  <1> QED
    BY <1>5, <1>8, <1>9

\* The validation of a weekday accepts windows that are valid, few enough and
\* apart, and no others.
LEMMA DayIsPairwise ==
  ASSUME NEW ws \in Seq(AnyWindow)
  PROVE  ValidDay(ws) <=>
           /\ Len(ws) <= MaxWindows
           /\ \A i \in DOMAIN ws : ValidWindow(ws[i])
           /\ \A i, j \in DOMAIN ws : i # j => ~Meet(ws[i], ws[j])
  <1>1. \A x \in DOMAIN ws : ws[x].start \in Int /\ ws[x].end \in Int
    BY WindowTimes
  <1>2. ASSUME ValidDay(ws), NEW i \in DOMAIN ws, NEW j \in DOMAIN ws, i # j
        PROVE  ~Meet(ws[i], ws[j])
    <2>1. ws[i].end <= ws[j].start \/ ws[j].end <= ws[i].start
      BY <1>2, WindowsInLine, VisitedAfterTheEnd
    <2> QED
      BY <1>1, <2>1 DEF Meet
  <1>3. ASSUME \A i \in DOMAIN ws : ValidWindow(ws[i]),
               \A i, j \in DOMAIN ws : i # j => ~Meet(ws[i], ws[j]),
               NEW i \in DOMAIN ws, NEW j \in DOMAIN ws, Place(ws, i) = Place(ws, j) + 1
        PROVE  ws[j].end <= ws[i].start
    <2>1. i # j /\ ~VisitedBefore(ws, i, j)
      BY <1>3, PlacesAreNumbers, LaterPlace
    <2>2. VisitedBefore(ws, j, i) /\ ~Meet(ws[j], ws[i])
      BY <1>3, <2>1, WindowsInLine
    <2>3. ws[j].start <= ws[i].start /\ ws[i].start < ws[i].end
      BY <1>1, <1>3, <2>2 DEF VisitedBefore, ValidWindow
    <2> QED
      BY <1>1, <2>2, <2>3 DEF Meet
  <1> QED
    BY <1>2, <1>3 DEF ValidDay

LEMMA WeekIsValid ==
  ASSUME windows \in Seq(AnyWindow)
  PROVE  ValidAvailability(week) <=> ValidDay(windows) /\ windows # <<>>
  BY DaysPerWeekAssumption DEF ValidAvailability, week

\* The validation compares neighbours only, and accepts a weekday exactly if no
\* two of its windows overlap, however many there are and whatever their times
\* (service-management.service validateAvailability).
THEOREM ValidationComparesAll == windows \in Seq(AnyWindow) => ValidationIsPairwise
  <1> SUFFICES ASSUME windows \in Seq(AnyWindow) PROVE ValidationIsPairwise
    OBVIOUS
  <1>1. windows # <<>> /\ Len(windows) <= MaxWindows <=> Len(windows) \in 1 .. MaxWindows
    BY WindowAssumption
  <1> QED
    BY <1>1, DayIsPairwise, WeekIsValid DEF ValidationIsPairwise

-----------------------------------------------------------------------------
(* The slots of a day.                                                     *)

\* Steps of one length from one point are that length apart.
LEMMA StepsApart ==
  ASSUME NEW m \in Nat \ {0}, NEW a \in Nat, NEW b \in Nat,
         a % m = 0, b % m = 0, a < b
  PROVE  a + m <= b
  <1>1. PICK q \in Int : a = m * q
    BY a = m * (a \div m) + (a % m)
  <1>2. PICK r \in Int : b = m * r
    BY b = m * (b \div m) + (b % m)
  <1>3. q < r
    BY <1>1, <1>2
  <1>4. m * (q + 1) <= m * r
    BY <1>3
  <1> QED
    BY <1>1, <1>2, <1>4

\* The length of a window's slots.
SlotLength(w) == IF w.slotMinutes = Unset THEN DefaultSlot ELSE w.slotMinutes

Cut(w) == /\ IsTime(w.start) /\ IsTime(w.end) /\ w.start < w.end
          /\ SlotLength(w) \in 1 .. DayLength

Steps(w) == {cursor \in w.start .. w.end : /\ (cursor - w.start) % SlotLength(w) = 0
                                           /\ cursor + SlotLength(w) <= w.end}

LEMMA SlotsOfWindow ==
  ASSUME NEW day, NEW w
  PROVE  SlotsForWindow(day, w) =
           IF Cut(w)
           THEN {[start |-> StartOfDay(day) + cursor,
                  end   |-> StartOfDay(day) + cursor + SlotLength(w)] : cursor \in Steps(w)}
           ELSE {}
  BY DEF SlotsForWindow, Cut, Steps, SlotLength

\* A slot of the first day, or of the same weekday a week later, begins at a
\* step of a window.
LEMMA SlotsOfDay ==
  ASSUME NEW day \in {0, DaysPerWeek}
  PROVE  SlotsForService(day, week) =
           UNION {SlotsForWindow(day, windows[i]) : i \in DOMAIN windows}
  <1>1. day % DaysPerWeek = 0
    BY DaysPerWeekAssumption
  <1>2. WindowsOn(week, day) = windows
    BY <1>1 DEF WindowsOn, week
  <1> QED
    BY <1>2 DEF SlotsForService

LEMMA SlotHasStep ==
  ASSUME NEW c \in SlotsForService(0, week), windows \in Seq(AnyWindow)
  PROVE  \E i \in DOMAIN windows :
           /\ Cut(windows[i]) /\ c.start \in Steps(windows[i])
           /\ c = [start |-> c.start, end |-> c.start + SlotLength(windows[i])]
  <1>1. PICK i \in DOMAIN windows : c \in SlotsForWindow(0, windows[i])
    BY SlotsOfDay
  <1>2. PICK w : w = windows[i]
    OBVIOUS
  <1>3. w.start \in Int /\ w.end \in Int
    BY <1>2, WindowTimes
  <1>4. Cut(w) /\ \E cursor \in Steps(w) : c = [start |-> StartOfDay(0) + cursor,
                                                end |-> StartOfDay(0) + cursor + SlotLength(w)]
    BY <1>1, <1>2, SlotsOfWindow
  <1>5. PICK cursor \in Steps(w) : c = [start |-> StartOfDay(0) + cursor,
                                        end |-> StartOfDay(0) + cursor + SlotLength(w)]
    BY <1>4
  <1>6. cursor \in Int /\ StartOfDay(0) = 0
    BY <1>3, DayLengthAssumption DEF Steps, StartOfDay
  <1>7. c.start = cursor /\ c.end = c.start + SlotLength(w)
    BY <1>5, <1>6
  <1> QED
    BY <1>2, <1>4, <1>5, <1>7

\* Slots of one window follow each other.
LEMMA SlotsOfOneWindow ==
  ASSUME NEW w \in AnyWindow, Cut(w), NEW a \in Steps(w), NEW b \in Steps(w), a # b
  PROVE  a + SlotLength(w) <= b \/ b + SlotLength(w) <= a
  <1>1. PICK m \in Nat \ {0} : m = SlotLength(w)
    BY DayLengthAssumption DEF Cut
  <1>2. PICK s \in Int : s = w.start
    BY DEF AnyWindow
  <1>3. a \in Int /\ b \in Int /\ a >= s /\ b >= s /\ (a - s) % m = 0 /\ (b - s) % m = 0
    BY <1>1, <1>2 DEF Steps, AnyWindow
  <1>4. PICK x \in Nat, y \in Nat : x = a - s /\ y = b - s
    BY <1>3
  <1>5. x + m <= y \/ y + m <= x
    BY <1>1, <1>3, <1>4, StepsApart
  <1> QED
    BY <1>1, <1>3, <1>4, <1>5

\* The slots of a week of any windows lie in the day; where the validation let
\* the week through they are apart, in a window each, and one window each at
\* least; and the week after has the same (provider.service
\* buildCandidateDays).
THEOREM SlotsAreKept == windows \in Seq(AnyWindow) => SlotsCanBeKept
  <1> SUFFICES ASSUME windows \in Seq(AnyWindow) PROVE SlotsCanBeKept
    OBVIOUS
  <1> DEFINE slots == SlotsForService(0, week)
             inside(c, w) == /\ w.start <= c.start /\ c.end <= w.end
                             /\ c.end - c.start = w.slotMinutes
  <1>1. \A i \in DOMAIN windows : windows[i] \in AnyWindow
    OBVIOUS
  <1>2. ASSUME NEW c \in slots
        PROVE  0 <= c.start /\ c.start < c.end /\ c.end <= DayLength
    <2>1. PICK i \in DOMAIN windows :
            /\ Cut(windows[i]) /\ c.start \in Steps(windows[i])
            /\ c = [start |-> c.start, end |-> c.start + SlotLength(windows[i])]
      BY <1>2, SlotHasStep
    <2>2. PICK w \in AnyWindow : w = windows[i]
      BY <1>1
    <2>3. c.start \in Steps(w) /\ Cut(w) /\ c.end = c.start + SlotLength(w)
      BY <2>1, <2>2
    <2>4. /\ w.start \in Nat /\ w.end \in Nat /\ w.end < DayLength
          /\ SlotLength(w) \in Nat \ {0}
      BY <2>3, DayLengthAssumption DEF Cut, IsTime
    <2>5. c.start \in Int /\ w.start <= c.start /\ c.start + SlotLength(w) <= w.end
      BY <2>3, <2>4 DEF Steps
    <2> QED
      BY <2>3, <2>4, <2>5, DayLengthAssumption
  <1>3. ASSUME ValidAvailability(week), NEW i \in DOMAIN windows
        PROVE  /\ Cut(windows[i]) /\ SlotLength(windows[i]) = windows[i].slotMinutes
               /\ windows[i].start \in Steps(windows[i])
    <2>1. ValidWindow(windows[i])
      BY <1>3, WeekIsValid DEF ValidDay
    <2>2. PICK w \in AnyWindow : w = windows[i] /\ ValidWindow(w)
      BY <1>1, <2>1
    <2>3. w.start \in Int /\ w.end \in Int /\ w.slotMinutes \in Int
      BY DEF AnyWindow
    <2>4. /\ w.slotMinutes \in MinSlot .. MaxSlot /\ IsTime(w.start) /\ IsTime(w.end)
          /\ w.start < w.end /\ w.slotMinutes <= w.end - w.start
      BY <2>2 DEF ValidWindow
    <2>5. SlotLength(w) = w.slotMinutes /\ w.slotMinutes \in Nat \ {0}
      BY <2>3, <2>4, WindowAssumption DEF SlotLength, Unset
    <2>6. w.slotMinutes <= DayLength
      BY <2>3, <2>4, DayLengthAssumption DEF IsTime
    <2>7. Cut(w)
      BY <2>4, <2>5, <2>6, DayLengthAssumption DEF Cut
    <2>8. 0 % SlotLength(w) = 0 /\ w.start - w.start = 0
      BY <2>3, <2>5
    <2>9. w.start \in w.start .. w.end /\ w.start + SlotLength(w) <= w.end
      BY <2>3, <2>4, <2>5
    <2> QED
      BY <2>2, <2>5, <2>7, <2>8, <2>9 DEF Steps
  <1>4. ASSUME ValidAvailability(week), NEW c \in slots
        PROVE  \E i \in DOMAIN windows : inside(c, windows[i])
    <2>1. PICK i \in DOMAIN windows :
            /\ c.start \in Steps(windows[i])
            /\ c = [start |-> c.start, end |-> c.start + SlotLength(windows[i])]
      BY <1>4, SlotHasStep
    <2>2. PICK w \in AnyWindow : w = windows[i] /\ SlotLength(w) = w.slotMinutes
      BY <1>1, <1>3, <1>4
    <2>3. /\ c.start \in Int /\ w.start <= c.start /\ c.start + SlotLength(w) <= w.end
          /\ c.end = c.start + SlotLength(w)
      BY <2>1, <2>2 DEF Steps, AnyWindow
    <2>4. inside(c, w)
      BY <2>2, <2>3 DEF AnyWindow
    <2> QED
      BY <2>2, <2>4
  <1>5. ASSUME ValidAvailability(week), NEW i \in DOMAIN windows
        PROVE  \E c \in slots : inside(c, windows[i])
    <2>1. PICK w \in AnyWindow : w = windows[i]
      BY <1>1
    <2>2. Cut(w) /\ SlotLength(w) = w.slotMinutes /\ w.start \in Steps(w)
      BY <1>3, <1>5, <2>1
    <2>3. PICK c : c = [start |-> StartOfDay(0) + w.start,
                        end |-> StartOfDay(0) + w.start + SlotLength(w)]
      OBVIOUS
    <2>4. c \in SlotsForWindow(0, w)
      BY <2>2, <2>3, SlotsOfWindow
    <2>5. c \in slots
      BY <2>1, <2>4, SlotsOfDay
    <2>6. StartOfDay(0) = 0
      BY DayLengthAssumption DEF StartOfDay
    <2>7. w.start + SlotLength(w) <= w.end /\ w.start \in Int /\ SlotLength(w) \in Int
      BY <2>2 DEF Steps, AnyWindow
    <2>8. inside(c, w)
      BY <2>2, <2>3, <2>6, <2>7
    <2> QED
      BY <2>1, <2>5, <2>8
  <1>6. ASSUME ValidAvailability(week), NEW c \in slots, NEW d \in slots, c # d
        PROVE  ~Meet(c, d)
    <2>1. PICK i \in DOMAIN windows :
            /\ Cut(windows[i]) /\ c.start \in Steps(windows[i])
            /\ c = [start |-> c.start, end |-> c.start + SlotLength(windows[i])]
      BY <1>6, SlotHasStep
    <2>2. PICK j \in DOMAIN windows :
            /\ Cut(windows[j]) /\ d.start \in Steps(windows[j])
            /\ d = [start |-> d.start, end |-> d.start + SlotLength(windows[j])]
      BY <1>6, SlotHasStep
    <2>3. PICK v \in AnyWindow : v = windows[i]
      BY <1>1
    <2>4. PICK w \in AnyWindow : w = windows[j]
      BY <1>1
    <2>5. /\ c.start \in Int /\ v.start <= c.start /\ c.end <= v.end /\ c.end \in Int
          /\ c.end = c.start + SlotLength(v)
      BY <2>1, <2>3 DEF Steps, AnyWindow, Cut
    <2>6. /\ d.start \in Int /\ w.start <= d.start /\ d.end <= w.end /\ d.end \in Int
          /\ d.end = d.start + SlotLength(w)
      BY <2>2, <2>4 DEF Steps, AnyWindow, Cut
    <2>7. CASE i = j
      <3>1. c.start # d.start
        BY <1>6, <2>1, <2>2, <2>7
      <3>2. c.end <= d.start \/ d.end <= c.start
        BY <2>1, <2>2, <2>3, <2>4, <2>5, <2>6, <2>7, <3>1, SlotsOfOneWindow
      <3> QED
        BY <2>5, <2>6, <3>2 DEF Meet
    <2>8. CASE i # j
      <3>1. ~Meet(v, w)
        BY <1>6, <2>3, <2>4, <2>8, WeekIsValid, DayIsPairwise
      <3>2. /\ v.start \in Int /\ v.end \in Int /\ w.start \in Int /\ w.end \in Int
            /\ (v.end <= w.start \/ w.end <= v.start)
        <4>1. v.start \in Int /\ v.end \in Int /\ w.start \in Int /\ w.end \in Int
          BY DEF AnyWindow
        <4> QED
          BY <3>1, <4>1 DEF Meet
      <3>3. CASE v.end <= w.start
        BY <2>5, <2>6, <3>2, <3>3 DEF Meet
      <3>4. CASE w.end <= v.start
        BY <2>5, <2>6, <3>2, <3>4 DEF Meet
      <3> QED
        BY <3>2, <3>3, <3>4
    <2> QED
      BY <2>7, <2>8
  <1>7. SlotsForService(DaysPerWeek, week) =
          {[start |-> c.start + DaysPerWeek * DayLength,
            end   |-> c.end + DaysPerWeek * DayLength] : c \in slots}
    <2> DEFINE Shifted(c) == [start |-> c.start + DaysPerWeek * DayLength,
                            end   |-> c.end + DaysPerWeek * DayLength]
    <2>1. ASSUME NEW w \in AnyWindow
          PROVE  SlotsForWindow(DaysPerWeek, w) = {Shifted(c) : c \in SlotsForWindow(0, w)}
      <3>1. CASE ~Cut(w)
        BY <3>1, SlotsOfWindow
      <3>2. CASE Cut(w)
        <4>1. PICK shift \in Int : shift = DaysPerWeek * DayLength
          BY DaysPerWeekAssumption, DayLengthAssumption
        <4>2. StartOfDay(0) = 0 /\ StartOfDay(DaysPerWeek) = shift
          BY <4>1, DayLengthAssumption DEF StartOfDay
        <4>3. \A cursor \in Steps(w) : cursor \in Int
          BY DEF Steps, AnyWindow
        <4>4. SlotLength(w) \in Int
          BY <3>2 DEF Cut
        <4> DEFINE At(base, cursor) == [start |-> base + cursor,
                                        end |-> base + cursor + SlotLength(w)]
        <4>5. \A cursor \in Steps(w) : At(shift, cursor) = Shifted(At(0, cursor))
          BY <4>1, <4>3, <4>4
        <4>6. /\ SlotsForWindow(0, w) = {At(0, cursor) : cursor \in Steps(w)}
              /\ SlotsForWindow(DaysPerWeek, w) = {At(shift, cursor) : cursor \in Steps(w)}
          BY <3>2, <4>2, SlotsOfWindow
        <4> HIDE DEF At, Shifted
        <4> QED
          BY <4>5, <4>6
      <3> QED
        BY <3>1, <3>2
    <2> HIDE DEF Shifted
    <2>2. /\ SlotsForService(DaysPerWeek, week) =
               UNION {SlotsForWindow(DaysPerWeek, windows[i]) : i \in DOMAIN windows}
          /\ slots = UNION {SlotsForWindow(0, windows[i]) : i \in DOMAIN windows}
      BY SlotsOfDay
    <2>3. \A i \in DOMAIN windows : SlotsForWindow(DaysPerWeek, windows[i]) =
                                      {Shifted(c) : c \in SlotsForWindow(0, windows[i])}
      BY <1>1, <2>1
    <2>4. SlotsForService(DaysPerWeek, week) = {Shifted(c) : c \in slots}
      BY <2>2, <2>3
    <2> QED
      BY <2>4 DEF Shifted
  <1> QED
    BY <1>2, <1>4, <1>5, <1>6, <1>7 DEF SlotsCanBeKept

\* Whatever windows a provider sends, what the validation accepts can be kept
\* (service-management.service.ts:34).
THEOREM HoursAreKept == windows \in Seq(AnyWindow) => HoursCanBeKept
  BY ValidationComparesAll, SlotsAreKept DEF HoursCanBeKept

-----------------------------------------------------------------------------
(* The default address. It takes two transactions that each make another   *)
(* address the default, one in its first statement or past it when the     *)
(* other begins, for a user to have two.                                   *)

\* One transaction at a time is between the start of its first statement and
\* its end.
DefaultsApart ==
    \A c, d \in Callers : (write[c] # NoWrite /\ write[d] # NoWrite) => c = d

WriteFields == {"row", "isNew", "finds", "clears"}

\* Whoever is about to write its default has found or cleared every other.
OneDefaultInv ==
    /\ DOMAIN write = Callers
    /\ DOMAIN cleared = Callers
    /\ address \in [Rows -> {"absent", "plain", "default"}]
    /\ \A a, b \in Defaults : a = b
    /\ \A c \in Callers : write[c] # NoWrite =>
         /\ DOMAIN write[c] = WriteFields
         /\ Defaults \subseteq IF write[c].clears THEN cleared[c] ELSE write[c].finds

LEMMA FindsKeepOneDefault ==
    ASSUME OneDefaultInv, DefaultsApart', NEW c \in Callers, NEW a, NEW isNew,
           FindDefault(c, a, isNew)
    PROVE  OneDefaultInv'
<1> DEFINE found == [row |-> a, isNew |-> isNew, finds |-> Defaults, clears |-> FALSE]
<1>1. address' = address /\ cleared' = cleared /\ Defaults' = Defaults
  BY DEF FindDefault, Defaults
<1>2. write' = [write EXCEPT ![c] = found]
  BY DEF FindDefault
<1>3. /\ DOMAIN found = WriteFields /\ found.clears = FALSE /\ found.finds = Defaults
      /\ found # NoWrite
  <2>1. DOMAIN found = WriteFields /\ found.clears = FALSE /\ found.finds = Defaults
    BY DEF WriteFields
  <2>2. "isNew" \in DOMAIN found /\ "isNew" \notin DOMAIN NoWrite
    BY DEF NoWrite
  <2> QED
    BY <2>1, <2>2
<1> HIDE DEF found
<1>4. DOMAIN write' = Callers /\ write'[c] = found
  BY <1>2 DEF OneDefaultInv
<1>5. \A d \in Callers : write'[d] # NoWrite => d = c
  BY <1>3, <1>4 DEF DefaultsApart
<1> QED
  BY <1>1, <1>3, <1>4, <1>5 DEF OneDefaultInv

LEMMA ClearsKeepOneDefault ==
    ASSUME OneDefaultInv, DefaultsApart, NEW c \in Callers, ClearDefault(c)
    PROVE  OneDefaultInv'
<1> DEFINE found == [write[c] EXCEPT !.clears = TRUE]
<1>1. address' = address /\ Defaults' = Defaults
  BY DEF ClearDefault, Defaults
<1>2. /\ write[c] # NoWrite /\ ~write[c].clears
      /\ cleared' = [cleared EXCEPT ![c] = write[c].finds \cap Defaults]
      /\ write' = [write EXCEPT ![c] = found]
  BY DEF ClearDefault, OneDefaultInv
<1>3. Defaults \subseteq write[c].finds /\ DOMAIN write[c] = WriteFields
  BY <1>2 DEF OneDefaultInv
<1>4. DOMAIN found = WriteFields /\ found.clears = TRUE
  BY <1>3 DEF WriteFields
<1> HIDE DEF found
<1>5. /\ DOMAIN write' = Callers /\ DOMAIN cleared' = Callers
      /\ cleared'[c] = write[c].finds \cap Defaults /\ write'[c] = found
      /\ \A d \in Callers : d # c => write'[d] = write[d]
  BY <1>2 DEF OneDefaultInv
<1>6. \A d \in Callers : write'[d] # NoWrite => d = c
  BY <1>2, <1>5 DEF DefaultsApart
<1> QED
  BY <1>1, <1>3, <1>4, <1>5, <1>6 DEF OneDefaultInv

\* Other requests mark no address.
LEMMA PlainWritesKeepOneDefault ==
    ASSUME OneDefaultInv, UNCHANGED <<cleared, write>>, NEW a \in Rows,
           NEW mark \in {"absent", "plain"},
           address' = [address EXCEPT ![a] = mark]
    PROVE  OneDefaultInv'
<1>1. address' \in [Rows -> {"absent", "plain", "default"}]
  BY DEF OneDefaultInv
<1>2. \A b \in Rows : address'[b] = "default" => address[b] = "default"
  BY DEF OneDefaultInv
<1>3. Defaults' \subseteq Defaults
  BY <1>2 DEF Defaults
<1> QED
  BY <1>1, <1>3 DEF OneDefaultInv

LEMMA DefaultIsWrittenAlone ==
    ASSUME OneDefaultInv, DefaultsApart, NEW c \in Callers, WriteDefault(c)
    PROVE  OneDefaultInv'
<1> DEFINE mine == write[c].row
<1>1. /\ write[c] # NoWrite /\ write[c].clears
      /\ cleared' = [cleared EXCEPT ![c] = {}]
      /\ write' = [write EXCEPT ![c] = NoWrite]
  BY DEF WriteDefault
<1>2. /\ DOMAIN write' = Callers /\ DOMAIN cleared' = Callers
      /\ write'[c] = NoWrite
      /\ \A d \in Callers : d # c => write'[d] = write[d]
  BY <1>1 DEF OneDefaultInv
<1>3. \A d \in Callers : write'[d] = NoWrite
  BY <1>1, <1>2 DEF DefaultsApart
<1>4. Defaults \subseteq cleared[c]
  BY <1>1 DEF OneDefaultInv
<1>5. CASE UNCHANGED address
  BY <1>2, <1>3, <1>5 DEF OneDefaultInv, Defaults
<1>6. CASE address' = [a \in Rows |-> CASE a = mine -> "default"
                                        [] a \in cleared[c] \ {mine} -> "plain"
                                        [] OTHER -> address[a]]
  <2> HIDE DEF mine
  <2>1. address' \in [Rows -> {"absent", "plain", "default"}]
    BY <1>6 DEF OneDefaultInv
  <2>2. \A a \in Rows : address'[a] = "default" => a = mine
    BY <1>4, <1>6 DEF Defaults
  <2> QED
    BY <1>2, <1>3, <2>1, <2>2 DEF OneDefaultInv, Defaults
<1> QED
  BY <1>5, <1>6 DEF WriteDefault

\* As long as no two transactions that make an address the default overlap,
\* a user has one default at most (address.service.ts:49 and :80), whatever
\* else is created, updated or removed meanwhile: the overlap that
\* SingleDefault fails for is the only thing that breaks it.
THEOREM DefaultsApartLeaveOne ==
    AddressSpec /\ []DefaultsApart => []SingleDefault
<1>1. AddressInit => OneDefaultInv
  BY DEF AddressInit, OneDefaultInv, Defaults
<1>2. ASSUME OneDefaultInv, DefaultsApart, DefaultsApart',
             [AddressNext]_addressVars
      PROVE  OneDefaultInv'
  <2>1. ASSUME NEW c \in Callers, CreateDefault(c) \/ UpdateToDefault(c)
        PROVE  OneDefaultInv'
    BY <1>2, <2>1, FindsKeepOneDefault DEF CreateDefault, UpdateToDefault
  <2>5. ASSUME NEW c \in Callers, ClearDefault(c)
        PROVE  OneDefaultInv'
    BY <1>2, <2>5, ClearsKeepOneDefault
  <2>2. ASSUME NEW c \in Callers,
               CreatePlain(c) \/ UpdatePlain(c) \/ RemoveAddress(c)
        PROVE  OneDefaultInv'
    BY <1>2, <2>2, PlainWritesKeepOneDefault
    DEF CreatePlain, UpdatePlain, RemoveAddress, Existing
  <2>3. ASSUME NEW c \in Callers, WriteDefault(c)
        PROVE  OneDefaultInv'
    BY <1>2, <2>3, DefaultIsWrittenAlone
  <2>4. CASE UNCHANGED addressVars
    BY <1>2, <2>4 DEF OneDefaultInv, Defaults, addressVars
  <2> QED
    BY <1>2, <2>1, <2>2, <2>3, <2>4, <2>5 DEF AddressNext
<1>3. OneDefaultInv => SingleDefault
  <2> SUFFICES ASSUME OneDefaultInv PROVE Cardinality(Defaults) <= 1
    BY DEF SingleDefault
  <2>1. CASE Defaults = {}
    BY <2>1, FS_EmptySet
  <2>2. CASE Defaults # {}
    <3>1. PICK a \in Defaults : TRUE
      BY <2>2
    <3>2. Defaults = {a}
      BY <3>1 DEF OneDefaultInv
    <3>3. Cardinality(Defaults) = 1
      BY <3>2, FS_Singleton
    <3> QED
      BY <3>3
  <2> QED
    BY <2>1, <2>2
<1> QED
  BY <1>1, <1>2, <1>3, PTL DEF AddressSpec

=============================================================================
