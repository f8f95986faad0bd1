---------------------------- MODULE ClientProofs -----------------------------
(***************************************************************************)
(* Theorems about the pages of clients and providers, for any bounds on    *)
(* what is done on them. Each invariant says, beside what the page shows,  *)
(* what the requests and answers on their way still have to do with it.    *)
(***************************************************************************)
EXTENDS OrderPages, SearchPage, HirePage, AddressPages, ProviderDesk,
    WellFoundedInduction, FiniteSetTheorems, TLAPS

-----------------------------------------------------------------------------
(* Hiring: orders of one provider.                                         *)

\* An order at a time of its service that is free meets none there is.
LEMMA BookableIsFree ==
  ASSUME NEW o, bookable(o)
  PROVE  /\ o.slot \in Schedule[o.service]
         /\ \A p \in order : ~Clashes(o, p) /\ ~Clashes(p, o)
  <1>1. o.slot \in Schedule[o.service]
        /\ Free([service |-> o.service, slot |-> o.slot])
    BY DEF bookable, availability
  <1>2. Occupied([service |-> o.service, slot |-> o.slot]) = Occupied(o)
    BY DEF Occupied
  <1> QED
    BY <1>1, <1>2 DEF Free, Clashes

LEMMA OrderIsAdded ==
  ASSUME OrdersCanBeKept, NEW o, bookable(o), order' = order \cup {o}
  PROVE  OrdersCanBeKept'
  <1>1. /\ o.slot \in Schedule[o.service]
        /\ \A p \in order : ~Clashes(o, p) /\ ~Clashes(p, o)
    BY BookableIsFree
  <1> SUFFICES ASSUME NEW q \in order \cup {o}
               PROVE  /\ q.slot \in Schedule[q.service]
                      /\ \A p \in (order \cup {o}) \ {q} : ~Clashes(q, p)
    BY DEF OrdersCanBeKept, Clashes, Occupied, Schedule
  <1> QED
    BY <1>1 DEF OrdersCanBeKept

\* Whatever times the page shows beside the service, and however often a hire
\* is repeated: every order can be kept (find-available-slots, create-order).
THEOREM OrdersAreKept == HireSpec => []OrdersCanBeKept
  <1>1. HireInit => OrdersCanBeKept
    BY DEF HireInit, OrdersCanBeKept
  <1>2. OrdersCanBeKept /\ [HireNext]_hireVars => OrdersCanBeKept'
    <2> SUFFICES ASSUME OrdersCanBeKept, [HireNext]_hireVars
                 PROVE  OrdersCanBeKept'
      OBVIOUS
    <2>1. CASE UNCHANGED order
      BY <2>1 DEF OrdersCanBeKept, Clashes, Occupied
    <2>2. CASE ServeHire
      <3>1. PICK w \in wires :
              \/ bookable(NewOrder(w)) /\ order' = order \cup {NewOrder(w)}
              \/ UNCHANGED order
        BY <2>2 DEF ServeHire
      <3> QED
        BY <2>1, <3>1, OrderIsAdded
    <2>3. CASE RivalOrders
      <3>1. \E o : bookable(o) /\ order' = order \cup {o}
        BY <2>3 DEF RivalOrders
      <3> QED
        BY <3>1, OrderIsAdded
    <2> QED
      BY <2>1, <2>2, <2>3 DEF HireNext, hireVars, AddressesArrive, ProviderArrives,
         selectService, selectDate, selectSlot, register, ServeAvailability,
         RequestLost, AvailabilityArrives, HireAnswered
  <1> QED
    BY <1>1, <1>2, PTL DEF HireSpec

-----------------------------------------------------------------------------
(* The hearts.                                                             *)

PressType == [n : Nat, add : BOOLEAN, state : {"sent", "ok"}]

ListType == [state : {"sent", "ok"}, liked : BOOLEAN]

HeartType == [page : HeartPages, liked : BOOLEAN, loading : BOOLEAN, listing : BOOLEAN,
              wish : BOOLEAN, done : Nat, behind : SUBSET Nat, presses : Nat, pages : Nat]

HeartTypeOK ==
    /\ saved \in [liked : BOOLEAN, by : Nat]
    /\ heart \in HeartType
    /\ presses \subseteq PressType
    /\ lists \subseteq ListType

\* The press served last is the n-th, which was for what is wished, or one that
\* was left behind.
Kept(n) == saved = [liked |-> heart.wish, by |-> n] \/ saved.by \in heart.behind

\* The press that a page waits for is its last, and for what is wished; the
\* others were left behind.
Awaited(p) ==
    /\ heart.loading
    /\ p.n = heart.presses /\ p.add = heart.wish
    /\ p.state = "ok" => Kept(p.n)

Numbered ==
    \A p \in presses :
       /\ p.n <= heart.presses
       /\ \A q \in presses : p.n = q.n => p = q

HeartInv ==
    /\ HeartTypeOK /\ Numbered
    /\ heart.done # 0 => ~heart.loading /\ Kept(heart.done)
    /\ \A p \in presses : Behind(p) \/ Awaited(p)

LEMMA ListsHaveType ==
  /\ NewList \in ListType
  /\ \A b \in BOOLEAN : [state |-> "ok", liked |-> b] \in ListType
  <1>1. \A s \in {"sent", "ok"}, b \in BOOLEAN : [state |-> s, liked |-> b] \in ListType
    BY DEF ListType
  <1> QED
    BY <1>1, Zenon DEF NewList

\* The step of a page that only gives up waiting for some presses.
LEMMA BehindIsKept ==
  ASSUME HeartInv, HeartTypeOK', UNCHANGED <<saved, heart.wish, heart.done, heart.presses>>,
         heart.behind \subseteq heart'.behind, heart'.loading \in {heart.loading, FALSE},
         presses' \subseteq presses,
         \A p \in presses' : p.n \notin heart'.behind => heart'.loading = heart.loading
  PROVE  HeartInv'
  <1>1. ASSUME NEW n, Kept(n) PROVE Kept(n)'
    BY <1>1 DEF Kept
  <1>2. heart'.done # 0 => ~heart'.loading /\ Kept(heart.done)'
    BY <1>1 DEF HeartInv
  <1>3. ASSUME NEW p \in presses' PROVE Behind(p)' \/ Awaited(p)'
    <2>1. p \in presses
      OBVIOUS
    <2>2. CASE p.n \in heart'.behind
      BY <2>2 DEF Behind
    <2>3. CASE p.n \notin heart'.behind
      <3>1. Awaited(p)
        BY <2>1, <2>3 DEF HeartInv, Behind
      <3>2. p.state = "ok" => Kept(p.n)'
        BY <1>1, <3>1 DEF Awaited
      <3> QED
        BY <2>3, <3>1, <3>2 DEF Awaited
    <2> QED
      BY <2>2, <2>3
  <1>4. Numbered'
    BY DEF HeartInv, Numbered
  <1> QED
    BY <1>2, <1>3, <1>4 DEF HeartInv

LEMMA PageOpens ==
  ASSUME NEW h \in HeartType, NEW where \in HeartPages
  PROVE  LET k == HeartPage(h, where)
         IN /\ k \in HeartType
            /\ k.loading = FALSE /\ k.wish = h.wish /\ k.done = h.done
            /\ k.behind = h.behind /\ k.presses = h.presses /\ k.pages = h.pages
  <1> DEFINE one == [h EXCEPT !.page = where, !.liked = FALSE]
             two == [one EXCEPT !.loading = FALSE, !.listing = where = "favorites"]
  <1>1. /\ one \in HeartType /\ one.wish = h.wish /\ one.done = h.done
        /\ one.behind = h.behind /\ one.presses = h.presses /\ one.pages = h.pages
    BY DEF HeartType
  <1> HIDE DEF one
  <1>2. /\ two \in HeartType /\ two.loading = FALSE /\ two.wish = h.wish
        /\ two.done = h.done /\ two.behind = h.behind /\ two.presses = h.presses
        /\ two.pages = h.pages
    <2>1. (where = "favorites") \in BOOLEAN
      OBVIOUS
    <2> QED
      BY <1>1, <2>1 DEF HeartType
  <1> QED
    BY <1>2 DEF HeartPage, two, one

\* What a press changes of the page.
LEMMA HeartIsPressed ==
  ASSUME NEW h \in HeartType, NEW w \in BOOLEAN
  PROVE  LET k == [h EXCEPT !.loading = TRUE, !.wish = w, !.done = 0, !.presses = @ + 1]
         IN /\ k \in HeartType
            /\ k.loading = TRUE /\ k.wish = w /\ k.done = 0
            /\ k.behind = h.behind /\ k.presses = h.presses + 1
  <1> DEFINE one == [h EXCEPT !.loading = TRUE, !.wish = w]
  <1>1. /\ one \in HeartType /\ one.loading = TRUE /\ one.wish = w
        /\ one.behind = h.behind /\ one.presses = h.presses
    BY DEF HeartType
  <1> DEFINE two == [one EXCEPT !.done = 0, !.presses = @ + 1]
  <1>2. [h EXCEPT !.loading = TRUE, !.wish = w, !.done = 0, !.presses = @ + 1] = two
    BY DEF HeartType
  <1> HIDE DEF one
  <1>3. one.presses + 1 \in Nat
    BY <1>1 DEF HeartType
  <1>4. /\ two \in HeartType /\ two.loading = TRUE /\ two.wish = w /\ two.done = 0
        /\ two.behind = h.behind /\ two.presses = h.presses + 1
    BY <1>1, <1>3 DEF HeartType
  <1> HIDE DEF two
  <1> QED
    BY <1>2, <1>4

\* The favourite confirmed last is what the server has, unless a press that was
\* left behind was served since (search.ts, favorites.ts, toggleFavorite).
THEOREM HeartFollowsWishes == HireSpec => []HeartIsLastWish
  <1>1. HeartInit => HeartInv
    <2> SUFFICES ASSUME HeartInit PROVE HeartInv
      OBVIOUS
    <2>1. PICK where \in HeartPages :
            /\ heart = HeartPage([page |-> where, liked |-> FALSE, loading |-> FALSE,
                            listing |-> FALSE, wish |-> FALSE, done |-> 0,
                            behind |-> {}, presses |-> 0, pages |-> 1], where)
            /\ lists = ListsOf(where)
      BY DEF HeartInit
    <2> DEFINE h == [page |-> where, liked |-> FALSE, loading |-> FALSE, listing |-> FALSE,
                     wish |-> FALSE, done |-> 0, behind |-> {}, presses |-> 0, pages |-> 1]
    <2>2. h \in HeartType /\ h.done = 0
      BY DEF HeartType
    <2>3. heart = HeartPage(h, where)
      BY <2>1
    <2> HIDE DEF h
    <2>4. heart \in HeartType /\ heart.done = 0
      BY <2>2, <2>3, PageOpens
    <2>5. lists \subseteq ListType
      BY <2>1, ListsHaveType DEF ListsOf
    <2>6. saved \in [liked : BOOLEAN, by : Nat] /\ presses = {}
      BY DEF HeartInit
    <2> QED
      BY <2>4, <2>5, <2>6 DEF HeartInv, HeartTypeOK, Numbered
  <1>2. HeartInv /\ [HeartNext]_heartVars => HeartInv'
    <2> SUFFICES ASSUME HeartInv, [HeartNext]_heartVars
                 PROVE  HeartInv'
      OBVIOUS
    <2>t. HeartTypeOK
      BY DEF HeartInv
    <2>b. /\ heart.behind \in SUBSET Nat /\ heart.liked \in BOOLEAN
          /\ heart.presses \in Nat /\ heart.loading \in BOOLEAN
      BY <2>t DEF HeartTypeOK, HeartType
    <2>1. CASE leavePage
      <3>1. PICK where \in HeartPages :
              /\ heart' = [HeartPage(heart, where) EXCEPT !.pages = @ + 1,
                             !.behind = @ \cup {p.n : p \in presses}]
              /\ lists' = ListsOf(where)
        BY <2>1 DEF leavePage
      <3>2. presses' \subseteq presses /\ UNCHANGED saved
        BY <2>1 DEF leavePage
      <3> DEFINE left == {p.n : p \in presses}
                 k == HeartPage(heart, where)
      <3>3. left \in SUBSET Nat
        BY <2>t DEF HeartTypeOK, PressType
      <3>4. \A p \in presses : p.n \in left
        OBVIOUS
      <3>5. heart' = [k EXCEPT !.pages = k.pages + 1, !.behind = k.behind \cup left]
        BY <3>1
      <3> HIDE DEF left
      <3>6. /\ k \in HeartType /\ k.loading = FALSE /\ k.wish = heart.wish
            /\ k.done = heart.done /\ k.behind = heart.behind /\ k.presses = heart.presses
            /\ k.pages = heart.pages
        BY <2>t, PageOpens DEF HeartTypeOK
      <3> HIDE DEF k
      <3>7. /\ heart' \in HeartType /\ heart'.loading = FALSE /\ heart'.wish = heart.wish
            /\ heart'.done = heart.done /\ heart'.presses = heart.presses
            /\ heart'.behind = heart.behind \cup left
        <4>1. k.behind \cup left \in SUBSET Nat
          BY <3>3, <3>6 DEF HeartType
        <4>2. k.pages + 1 \in Nat
          BY <3>6 DEF HeartType
        <4> QED
          BY <3>5, <3>6, <4>1, <4>2 DEF HeartType
      <3>8. lists' \subseteq ListType
        BY <3>1, ListsHaveType DEF ListsOf
      <3>9. HeartTypeOK'
        BY <2>t, <3>2, <3>7, <3>8 DEF HeartTypeOK
      <3> QED
        BY <3>2, <3>4, <3>7, <3>9, BehindIsKept
    <2>2. CASE askFavorites
      <3>1. HeartTypeOK'
        BY <2>2, <2>t, ListsHaveType DEF askFavorites, HeartTypeOK
      <3>2. UNCHANGED <<saved, heart, presses>>
        BY <2>2 DEF askFavorites
      <3> QED
        BY <3>1, <3>2, BehindIsKept
    <2>3. CASE toggleFavorite
      <3>1. \E w \in BOOLEAN :
              /\ heart' = [heart EXCEPT !.loading = TRUE, !.wish = w, !.done = 0,
                                        !.presses = @ + 1]
              /\ presses' = presses \cup
                   {[n |-> heart.presses + 1, add |-> w, state |-> "sent"]}
        <4> DEFINE v == ~heart.liked
        <4>1. v \in BOOLEAN
          OBVIOUS
        <4>2. /\ heart' = [heart EXCEPT !.loading = TRUE, !.wish = v, !.done = 0,
                                        !.presses = @ + 1]
              /\ presses' = presses \cup
                   {[n |-> heart.presses + 1, add |-> v, state |-> "sent"]}
          BY <2>3, Zenon DEF toggleFavorite
        <4> HIDE DEF v
        <4> QED
          BY <4>1, <4>2
      <3>2. PICK w \in BOOLEAN, q \in PressType :
              /\ heart' = [heart EXCEPT !.loading = TRUE, !.wish = w, !.done = 0,
                                        !.presses = @ + 1]
              /\ presses' = presses \cup {q}
              /\ q.n = heart.presses + 1 /\ q.add = w /\ q.state = "sent"
        <4>1. heart.presses + 1 \in Nat
          BY <2>b
        <4>2. \A w \in BOOLEAN, n \in Nat :
                [n |-> n, add |-> w, state |-> "sent"] \in PressType
          BY DEF PressType
        <4>3. PICK w \in BOOLEAN :
              /\ heart' = [heart EXCEPT !.loading = TRUE, !.wish = w, !.done = 0,
                                        !.presses = @ + 1]
              /\ presses' = presses \cup
                   {[n |-> heart.presses + 1, add |-> w, state |-> "sent"]}
          BY <3>1, Zenon
        <4> DEFINE p == [n |-> heart.presses + 1, add |-> w, state |-> "sent"]
        <4>4. p \in PressType
          BY <4>1, <4>2
        <4>5. p.n = heart.presses + 1 /\ p.add = w /\ p.state = "sent"
          OBVIOUS
        <4>6. presses' = presses \cup {p}
          BY <4>3
        <4> HIDE DEF p
        <4> QED
          BY <4>3, <4>4, <4>5, <4>6, Zenon
      <3>3. ~heart.loading /\ UNCHANGED <<saved, lists>>
        BY <2>3 DEF toggleFavorite, mayToggle
      <3>4. /\ heart' \in HeartType /\ heart'.loading = TRUE /\ heart'.wish = w
            /\ heart'.done = 0 /\ heart'.behind = heart.behind
            /\ heart'.presses = heart.presses + 1
        BY <2>t, <3>2, HeartIsPressed DEF HeartTypeOK
      <3>5. HeartTypeOK'
        BY <2>t, <3>2, <3>3, <3>4 DEF HeartTypeOK
      <3>6. \A p \in presses : Behind(p)'
        BY <3>3, <3>4 DEF HeartInv, Awaited, Behind
      <3>7. Awaited(q)'
        BY <3>2, <3>4 DEF Awaited
      <3>8. Numbered'
        <4>1. \A p \in presses : p.n \in Nat
          BY <2>t DEF HeartTypeOK, PressType
        <4> QED
          BY <2>b, <3>2, <3>4, <4>1 DEF HeartInv, Numbered
      <3> QED
        BY <3>2, <3>4, <3>5, <3>6, <3>7, <3>8 DEF HeartInv
    <2>4. CASE ServeHeart
      <3>1. PICK p \in presses :
              /\ p.state = "sent"
              /\ saved' = IF p.add THEN AddFavorite(p.n) ELSE RemoveFavorite(p.n)
              /\ presses' = (presses \ {p}) \cup
                   (IF Behind(p) THEN {} ELSE {[p EXCEPT !.state = "ok"]})
        BY <2>4 DEF ServeHeart
      <3>2. UNCHANGED <<heart, lists>>
        BY <2>4 DEF ServeHeart
      <3>3. p \in PressType
        BY <2>t DEF HeartTypeOK
      <3>4. saved' = [liked |-> p.add, by |-> p.n] /\ saved' \in [liked : BOOLEAN, by : Nat]
        BY <3>1, <3>3 DEF PressType, AddFavorite, RemoveFavorite
      <3>5. CASE Behind(p)
        <4>1. presses' \subseteq presses
          BY <3>1, <3>5
        <4>2. HeartTypeOK'
          BY <2>t, <3>2, <3>4, <4>1 DEF HeartTypeOK
        <4>3. saved'.by \in heart'.behind
          BY <3>2, <3>4, <3>5 DEF Behind
        <4>4. \A n : Kept(n)'
          BY <4>3 DEF Kept
        <4>5. heart'.done # 0 => ~heart'.loading
          BY <3>2 DEF HeartInv
        <4>6. \A r \in presses' : Behind(r)' \/ Awaited(r)'
          BY <3>2, <4>1, <4>4 DEF HeartInv, Behind, Awaited
        <4>7. Numbered'
          BY <3>2, <4>1 DEF HeartInv, Numbered
        <4> QED
          BY <4>2, <4>4, <4>5, <4>6, <4>7 DEF HeartInv
      <3>6. CASE ~Behind(p)
        <4> DEFINE q == [p EXCEPT !.state = "ok"]
        <4>1. q \in PressType /\ q.n = p.n /\ q.add = p.add
          BY <3>3 DEF PressType
        <4>2. presses' = (presses \ {p}) \cup {q}
          BY <3>1, <3>6
        <4> HIDE DEF q
        <4>3. heart.loading /\ p.n = heart.presses /\ p.add = heart.wish
          BY <3>6 DEF HeartInv, Awaited
        <4>4. HeartTypeOK'
          BY <2>t, <3>2, <3>4, <4>1, <4>2 DEF HeartTypeOK
        <4>5. Kept(heart.presses)'
          BY <3>2, <3>4, <4>3 DEF Kept
        <4>6. heart'.done = 0
          BY <3>2, <4>3 DEF HeartInv
        <4>7. \A r \in presses' : Behind(r)' \/ Awaited(r)'
          BY <3>2, <4>1, <4>2, <4>3, <4>5 DEF HeartInv, Behind, Awaited
        <4>8. Numbered'
          BY <3>2, <4>1, <4>2 DEF HeartInv, Numbered
        <4> QED
          BY <4>4, <4>6, <4>7, <4>8 DEF HeartInv
      <3> QED
        BY <3>5, <3>6
    <2>5. CASE HeartAnswered
      <3>1. PICK p \in presses :
              /\ ~Behind(p) /\ p.state = "ok"
              /\ heart' = [heart EXCEPT !.liked = p.add, !.loading = FALSE, !.done = p.n]
              /\ presses' = presses \ {p} /\ UNCHANGED <<saved, lists>>
        BY <2>5 DEF HeartAnswered
      <3>2. p \in PressType
        BY <2>t DEF HeartTypeOK
      <3>3. p.n = heart.presses /\ Kept(p.n)
        BY <3>1 DEF HeartInv, Awaited
      <3>4. /\ heart' \in HeartType /\ heart'.loading = FALSE /\ heart'.done = p.n
            /\ heart'.wish = heart.wish /\ heart'.behind = heart.behind
            /\ heart'.presses = heart.presses
        BY <2>t, <3>1, <3>2 DEF HeartTypeOK, HeartType, PressType
      <3>5. HeartTypeOK'
        BY <2>t, <3>1, <3>4 DEF HeartTypeOK
      <3>6. Kept(p.n)'
        BY <3>1, <3>3, <3>4 DEF Kept
      <3>7. ASSUME NEW r \in presses', ~Behind(r)' PROVE Awaited(r)'
        <4>1. Awaited(r)
          BY <3>1, <3>4, <3>7 DEF HeartInv, Behind
        <4>2. Awaited(p)
          BY <3>1 DEF HeartInv
        <4>3. r = p
          BY <3>1, <4>1, <4>2 DEF HeartInv, Numbered, Awaited
        <4> QED
          BY <3>1, <4>3
      <3>8. Numbered'
        BY <3>1, <3>4 DEF HeartInv, Numbered
      <3> QED
        BY <3>4, <3>5, <3>6, <3>7, <3>8 DEF HeartInv
    <2>6. CASE HeartFails
      <3>1. PICK p \in presses :
              /\ ~Behind(p)
              /\ heart' = [heart EXCEPT !.loading = FALSE, !.behind = @ \cup {p.n}]
              /\ presses' = IF p.state = "ok" THEN presses \ {p} ELSE presses
              /\ UNCHANGED <<saved, lists>>
        BY <2>6 DEF HeartFails
      <3>2. p.n \in Nat
        BY <2>t DEF HeartTypeOK, PressType
      <3>3. heart.behind \cup {p.n} \in SUBSET Nat
        BY <2>b, <3>2
      <3>4. /\ heart' \in HeartType /\ heart'.loading = FALSE /\ heart'.done = heart.done
            /\ heart'.wish = heart.wish /\ heart'.presses = heart.presses
            /\ heart'.behind = heart.behind \cup {p.n}
        BY <2>t, <3>1, <3>3 DEF HeartTypeOK, HeartType
      <3>5. presses' \subseteq presses
        BY <3>1
      <3>6. HeartTypeOK'
        BY <2>t, <3>1, <3>4, <3>5 DEF HeartTypeOK
      <3>7. \A r \in presses' : r.n \in heart'.behind
        BY <3>1, <3>4, <3>5 DEF HeartInv, Awaited, Behind
      <3> QED
        BY <3>1, <3>4, <3>5, <3>6, <3>7, BehindIsKept
    <2>7. CASE HeartLost
      <3>1. presses' \subseteq presses /\ UNCHANGED <<saved, heart, lists>>
        BY <2>7 DEF HeartLost
      <3>2. HeartTypeOK'
        BY <2>t, <3>1 DEF HeartTypeOK
      <3> QED
        BY <3>1, <3>2, BehindIsKept
    <2>8. CASE listFavorites
      <3>1. UNCHANGED <<saved, heart, presses>>
        BY <2>8 DEF listFavorites
      <3>2. \A liked \in {saved.liked, FALSE} :
              [state |-> "ok", liked |-> liked] \in ListType
        BY <2>t, ListsHaveType DEF HeartTypeOK
      <3>3. HeartTypeOK'
        BY <2>8, <2>t, <3>1, <3>2 DEF listFavorites, HeartTypeOK
      <3> QED
        BY <3>1, <3>3, BehindIsKept
    <2>9. CASE FavoritesArrive
      <3>1. PICK l \in lists :
              /\ heart' \in {[heart EXCEPT !.liked = l.liked, !.listing = FALSE],
                             [heart EXCEPT !.listing = FALSE]}
              /\ lists' = lists \ {l} /\ UNCHANGED <<saved, presses>>
        BY <2>9 DEF FavoritesArrive
      <3>2. l.liked \in BOOLEAN
        BY <2>t DEF HeartTypeOK, ListType
      <3>3. /\ heart' \in HeartType /\ heart'.loading = heart.loading
            /\ heart'.done = heart.done /\ heart'.wish = heart.wish
            /\ heart'.presses = heart.presses /\ heart'.behind = heart.behind
        BY <2>t, <3>1, <3>2 DEF HeartTypeOK, HeartType
      <3>4. HeartTypeOK'
        BY <2>t, <3>1, <3>3 DEF HeartTypeOK
      <3> QED
        BY <3>1, <3>3, <3>4, BehindIsKept
    <2>10. CASE UNCHANGED heartVars
      BY <2>10 DEF heartVars, HeartInv, HeartTypeOK, Numbered, Kept, Awaited, Behind
    <2> QED
      BY <2>1, <2>2, <2>3, <2>4, <2>5, <2>6, <2>7, <2>8, <2>9, <2>10 DEF HeartNext
  <1>3. HeartInv => HeartIsLastWish
    BY DEF HeartInv, HeartIsLastWish, Kept
  <1> QED
    BY <1>1, <1>2, <1>3, PTL DEF HireSpec

\* Orders that can be kept, and the favourite confirmed last, for every order of
\* the answers (create-order.handler.ts; search.ts, favorites.ts).
THEOREM ChoicesKept == HireSpec => []ChoicesAreKept
  <1>1. OrdersCanBeKept /\ HeartIsLastWish => ChoicesAreKept
    BY DEF ChoicesAreKept
  <1> QED
    BY <1>1, OrdersAreKept, HeartFollowsWishes, PTL

-----------------------------------------------------------------------------
(* The address of the sign-up.                                             *)

AddressType == [cep : Nat, street : Nat, city : Nat, point : Nat]

Steps == {"profile", "contact", "service", "address"}

Roles == {"customer", "provider"}

DraftType == [address : Nat, kept : Nat, steps : SUBSET Steps, role : Roles]

SignUpTypeOK ==
    /\ objects \in Seq(AddressType)
    /\ draft \in DraftType
    /\ draft.address \in 1 .. Len(objects)
    /\ signPage \in 0 .. Len(objects)
    /\ \A question \in cepAsked : question.object \in 1 .. Len(objects) /\ question.cep \in Ceps

\* The open page never has the object of the draft, and what the draft has of
\* the user's own words was saved: answers that come late bring none.
SignUpInv ==
    /\ SignUpTypeOK
    /\ signPage # 0 => signPage # draft.address
    /\ objects[draft.address].street = Own => draft.kept = Own
    /\ RegisteredWordsWereSaved

LEMMA NoAnswerIsOwn ==
  ASSUME NEW cep \in Ceps
  PROVE  StreetOf(cep) \in Nat /\ StreetOf(cep) # Own
  BY BookAssumption DEF StreetOf, Ceps, Own, Blank

\* Saving a step leaves the address of the draft alone.
LEMMA DoneKeepsAddress ==
  ASSUME NEW step \in Steps, draft \in DraftType
  PROVE  /\ Done(step) \in DraftType
         /\ Done(step).address = draft.address /\ Done(step).kept = draft.kept
  BY DEF Done, DraftType

\* The draft changes, and keeps its address.
LEMMA DraftKeepsAddress ==
  ASSUME SignUpInv, UNCHANGED <<objects, signPage, cepAsked, posted>>,
         draft' \in DraftType, draft'.address = draft.address, draft'.kept = draft.kept
  PROVE  SignUpInv'
  BY DEF SignUpInv, SignUpTypeOK, RegisteredWordsWereSaved, Own, Ceps

\* An object changes that is not the draft's, or not into the user's words.
LEMMA ObjectChanges ==
  ASSUME SignUpInv, NEW i \in 1 .. Len(objects), NEW address \in AddressType,
         objects' = [objects EXCEPT ![i] = address],
         i = draft.address => \/ address.street # Own
                              \/ address.street = objects[i].street,
         UNCHANGED <<draft, signPage, posted>>,
         \A question \in cepAsked' : question.object \in 1 .. Len(objects) /\ question.cep \in Ceps
  PROVE  SignUpInv'
  <1>1. /\ objects' \in Seq(AddressType) /\ Len(objects') = Len(objects)
        /\ objects'[draft.address].street = Own => objects[draft.address].street = Own
    BY DEF SignUpInv, SignUpTypeOK
  <1> QED
    BY <1>1 DEF SignUpInv, SignUpTypeOK, RegisteredWordsWereSaved, Own, Ceps

\* What is typed on the address page and left unsaved stays out of the account,
\* also when an answer comes in late (user-address, sign-up).
THEOREM OwnWordsWereSaved == AddressPagesSpec => []RegisteredWordsWereSaved
  <1>1. SignUpInit => SignUpInv
    <2> SUFFICES ASSUME SignUpInit PROVE SignUpInv
      OBVIOUS
    <2>1. Empty \in AddressType /\ Empty.street # Own
      BY BookAssumption DEF AddressType, Empty, Blank, Own
    <2>2. /\ objects = <<Empty>> /\ draft.address = 1 /\ signPage = 0
          /\ cepAsked = {} /\ posted = {}
      BY DEF SignUpInit
    <2>3. draft \in DraftType
      BY DEF SignUpInit, DraftType, Steps, Roles, Blank
    <2> QED
      BY <2>1, <2>2, <2>3 DEF SignUpInv, SignUpTypeOK, RegisteredWordsWereSaved
  <1>2. SignUpInv /\ (SignUpNext \/ UNCHANGED signUpVars) => SignUpInv'
    <2> SUFFICES ASSUME SignUpInv, SignUpNext \/ UNCHANGED signUpVars
                 PROVE  SignUpInv'
      OBVIOUS
    <2>t. SignUpTypeOK
      BY DEF SignUpInv
    <2>1. CASE saveProfile \/ saveSocial \/ addServiceSelected
      <3>1. PICK step \in Steps : draft' = Done(step)
        BY <2>1 DEF saveProfile, saveSocial, addServiceSelected, Steps
      <3>2. UNCHANGED <<objects, signPage, cepAsked, posted>>
        BY <2>1 DEF saveProfile, saveSocial, addServiceSelected
      <3> QED
        BY <2>t, <3>1, <3>2, DoneKeepsAddress, DraftKeepsAddress DEF SignUpTypeOK
    <2>2. CASE changeTheme
      <3>1. PICK kind \in Roles : draft' = [draft EXCEPT !.role = kind]
        BY <2>2 DEF changeTheme, Roles
      <3>2. UNCHANGED <<objects, signPage, cepAsked, posted>>
        BY <2>2 DEF changeTheme
      <3>3. /\ draft' \in DraftType /\ draft'.address = draft.address
            /\ draft'.kept = draft.kept
        BY <2>t, <3>1 DEF SignUpTypeOK, DraftType
      <3> QED
        BY <3>2, <3>3, DraftKeepsAddress
    <2>3. CASE openAddress
      <3>1. /\ objects' = Append(objects, objects[draft.address])
            /\ signPage' = Len(objects) + 1
            /\ UNCHANGED <<draft, cepAsked, posted>>
        BY <2>3 DEF openAddress, Visit
      <3>2. /\ objects' \in Seq(AddressType) /\ Len(objects') = Len(objects) + 1
            /\ objects'[draft.address] = objects[draft.address]
        BY <2>t, <3>1 DEF SignUpTypeOK
      <3> QED
        BY <3>1, <3>2 DEF SignUpInv, SignUpTypeOK, RegisteredWordsWereSaved, Own, Ceps
    <2>4. CASE TypeStreet
      <3> DEFINE typed == [objects[signPage] EXCEPT !.street = Own]
      <3>1. objects' = [objects EXCEPT ![signPage] = typed]
        BY <2>4 DEF TypeStreet
      <3>2. /\ signPage # 0 /\ UNCHANGED <<draft, signPage, cepAsked, posted>>
        BY <2>4 DEF TypeStreet
      <3>3. signPage \in 1 .. Len(objects) /\ signPage # draft.address
        BY <2>t, <3>2 DEF SignUpInv, SignUpTypeOK
      <3>4. objects[signPage] \in AddressType
        BY <2>t, <3>3 DEF SignUpTypeOK
      <3>5. typed \in AddressType
        BY <3>4, BookAssumption DEF AddressType, Own
      <3> HIDE DEF typed
      <3> QED
        BY <2>t, <3>1, <3>2, <3>3, <3>5, ObjectChanges DEF SignUpTypeOK
    <2>5. CASE getAddressByZipCode
      <3>1. PICK cep \in Ceps :
              /\ objects' = [objects EXCEPT ![signPage].cep = cep]
              /\ cepAsked' = cepAsked \cup {[object |-> signPage, cep |-> cep]}
        BY <2>5 DEF getAddressByZipCode
      <3> DEFINE typed == [objects[signPage] EXCEPT !.cep = cep]
      <3>2. objects' = [objects EXCEPT ![signPage] = typed]
        BY <3>1
      <3>3. signPage # 0 /\ UNCHANGED <<draft, signPage, posted>>
        BY <2>5 DEF getAddressByZipCode
      <3>4. signPage \in 1 .. Len(objects) /\ signPage # draft.address
        BY <2>t, <3>3 DEF SignUpInv, SignUpTypeOK
      <3>5. objects[signPage] \in AddressType
        BY <2>t, <3>4 DEF SignUpTypeOK
      <3>6. typed \in AddressType
        BY <3>5 DEF AddressType, Ceps
      <3>7. \A question \in cepAsked' :
               question.object \in 1 .. Len(objects) /\ question.cep \in Ceps
        BY <2>t, <3>1, <3>4 DEF SignUpTypeOK
      <3> HIDE DEF typed
      <3> QED
        BY <3>2, <3>3, <3>4, <3>6, <3>7, ObjectChanges
    <2>6. CASE LocationArrives
      <3>1. PICK question \in cepAsked :
              /\ cepAsked' = cepAsked \ {question}
              /\ \E address \in getLatLngByCep(objects[question.object], question.cep) :
                   objects' = [objects EXCEPT ![question.object] = address]
        BY <2>6 DEF LocationArrives
      <3>0. PICK address \in getLatLngByCep(objects[question.object], question.cep) :
               objects' = [objects EXCEPT ![question.object] = address]
        BY <3>1
      <3>2. UNCHANGED <<draft, signPage, posted>>
        BY <2>6 DEF LocationArrives
      <3>3. question.object \in 1 .. Len(objects) /\ question.cep \in Ceps
        BY <2>t DEF SignUpTypeOK
      <3>4. objects[question.object] \in AddressType
        BY <2>t, <3>3 DEF SignUpTypeOK
      <3>5. /\ address \in AddressType
            /\ address.street # Own \/ address.street = objects[question.object].street
        <4> DEFINE was == objects[question.object]
                   filledIn == located(was, question.cep)
        <4>1. address = was \/ address = filledIn
          BY DEF getLatLngByCep
        <4>2. StreetOf(question.cep) \in Nat /\ StreetOf(question.cep) # Own /\ question.cep \in Nat
          BY <3>3, NoAnswerIsOwn DEF Ceps
        <4>3. filledIn \in AddressType /\ filledIn.street # Own
          BY <3>4, <4>2 DEF located, AddressType
        <4> HIDE DEF filledIn
        <4> QED
          BY <3>4, <4>1, <4>3
      <3>6. \A a \in cepAsked' : a.object \in 1 .. Len(objects) /\ a.cep \in Ceps
        BY <2>t, <3>1 DEF SignUpTypeOK
      <3> QED
        BY <3>0, <3>2, <3>3, <3>5, <3>6, ObjectChanges
    <2>7. CASE saveAddress
      <3>1. /\ draft' = [Done("address") EXCEPT !.address = signPage,
                                                !.kept = objects[signPage].street]
            /\ signPage # 0 /\ signPage' = 0 /\ UNCHANGED <<objects, cepAsked, posted>>
        BY <2>7 DEF saveAddress
      <3>2. Done("address") \in DraftType
        BY <2>t, DoneKeepsAddress DEF SignUpTypeOK, Steps
      <3>3. signPage \in 1 .. Len(objects) /\ objects[signPage].street \in Nat
        <4>1. signPage \in 1 .. Len(objects)
          BY <2>t, <3>1 DEF SignUpTypeOK
        <4>2. objects[signPage] \in AddressType
          BY <2>t, <4>1 DEF SignUpTypeOK
        <4> QED
          BY <4>1, <4>2 DEF AddressType
      <3>4. /\ draft' \in DraftType /\ draft'.address = signPage
            /\ draft'.kept = objects[signPage].street
        <4> DEFINE d == Done("address")
                   words == objects[signPage].street
        <4>2. draft' = [d EXCEPT !.address = signPage, !.kept = words]
          BY <3>1
        <4>3. d \in DraftType /\ signPage \in Nat /\ words \in Nat
          BY <3>2, <3>3
        <4> HIDE DEF d, words
        <4>4. /\ draft' \in DraftType /\ draft'.address = signPage
              /\ draft'.kept = words
          BY <4>2, <4>3 DEF DraftType
        <4> QED
          BY <4>4 DEF words
      <3> QED
        BY <3>1, <3>3, <3>4 DEF SignUpInv, SignUpTypeOK, RegisteredWordsWereSaved, Own, Ceps
    <2>8. CASE GoBack
      BY <2>8 DEF GoBack, SignUpInv, SignUpTypeOK, RegisteredWordsWereSaved, Own, Ceps
    <2>9. CASE registerUser
      BY <2>9 DEF registerUser, SignUpInv, SignUpTypeOK, RegisteredWordsWereSaved, Own, Ceps
    <2>10. CASE RegisterAnswered
      BY <2>10 DEF RegisterAnswered, SignUpInv, SignUpTypeOK, RegisteredWordsWereSaved,
                   Own, Ceps
    <2>11. CASE goToHome
      BY <2>11 DEF goToHome, SignUpInv, SignUpTypeOK, RegisteredWordsWereSaved, Own, Ceps
    <2>12. CASE UNCHANGED signUpVars
      BY <2>12 DEF signUpVars, SignUpInv, SignUpTypeOK, RegisteredWordsWereSaved, Own, Ceps
    <2> QED
      BY <2>1, <2>2, <2>3, <2>4, <2>5, <2>6, <2>7, <2>8, <2>9, <2>10, <2>11, <2>12
         DEF SignUpNext
  <1>3. SignUpInv => RegisteredWordsWereSaved
    BY DEF SignUpInv
  <1>4. [(BookNext /\ UNCHANGED signUpVars) \/ (SignUpNext /\ UNCHANGED bookVars)]_
          <<bookVars, signUpVars>> => SignUpNext \/ UNCHANGED signUpVars
    OBVIOUS
  <1> QED
    BY <1>1, <1>2, <1>3, <1>4, PTL DEF AddressPagesSpec

-----------------------------------------------------------------------------
(* The address book.                                                       *)

FormType == [row : BookRows \cup {0}, open : BOOLEAN, data : AddressType, last : Nat,
             asked : BOOLEAN, answered : BOOLEAN,
             touched : SUBSET {"street", "city"}, edits : Nat]

DialogType == [shown : BOOLEAN, isOpen : BOOLEAN, closing : BOOLEAN]

ErrandType == [kind : {"none", "create", "update", "remove"},
               row : BookRows \cup {0}, data : AddressType,
               state : {"sent", "done", "failed"}]

BookTypeOK ==
    /\ form \in FormType
    /\ dialog \in DialogType
    /\ book \in [BookRows -> AddressType] /\ cards \in [BookRows -> AddressType]
    /\ bookLoads \subseteq [BookRows -> AddressType]
    /\ errand \in ErrandType

\* The form waits for one answer at most, to the code that stands in it, and a
\* field that the user left alone still reads as it did when it was asked for.
LookupInv ==
    /\ \A a, b \in lookups : a = b
    /\ \A a \in lookups :
         /\ a.cep = form.last
         /\ "street" \in form.touched \/ form.data.street = a.street
         /\ "city" \in form.touched \/ form.data.city = a.city
    /\ LookupFillsItsCep

BookInv == BookTypeOK /\ LookupInv /\ OpenDrawerHasItsForm

LEMMA EmptyIsAddress == Empty \in AddressType
  BY DEF Empty, AddressType, Blank

LEMMA NoErrandIsErrand == NoErrand \in ErrandType
  BY EmptyIsAddress DEF NoErrand, ErrandType

LEMMA NoFormIsForm ==
  NoForm \in FormType /\ NoForm.open = FALSE
  BY EmptyIsAddress DEF NoForm, FormType

LEMMA FilledIsAddress ==
  ASSUME NEW data \in AddressType, NEW question, question.cep \in Nat
  PROVE  filled(data, question) \in AddressType
  BY BookAssumption DEF filled, AddressType, StreetOf, Blank

LEMMA FormOpens ==
  ASSUME NEW r \in BookRows \cup {0}, NEW data \in AddressType
  PROVE  LET f == [NoForm EXCEPT !.row = r, !.open = TRUE, !.data = data, !.last = data.cep]
         IN f \in FormType /\ f.open = TRUE /\ f.answered = FALSE
  BY EmptyIsAddress DEF FormType, NoForm, AddressType

LEMMA CodeIsTyped ==
  ASSUME form \in FormType, NEW cep \in Nat, NEW data \in AddressType, NEW b \in BOOLEAN,
         form' = [form EXCEPT !.data = data, !.last = cep, !.asked = b,
                    !.answered = FALSE, !.touched = {}, !.edits = form.edits + 1]
  PROVE  /\ form' \in FormType /\ form'.open = form.open /\ form'.answered = FALSE
         /\ form'.data = data /\ form'.last = cep /\ form'.touched = {}
  <1> DEFINE one == [form EXCEPT !.data = data, !.last = cep]
             two == [one EXCEPT !.asked = b, !.answered = FALSE]
             three == [two EXCEPT !.touched = {}]
             four == [three EXCEPT !.edits = form.edits + 1]
  <1>1. one \in FormType /\ one.open = form.open /\ one.data = data /\ one.last = cep
    BY DEF FormType
  <1> HIDE DEF one
  <1>2. /\ two \in FormType /\ two.open = one.open /\ two.data = one.data
        /\ two.last = one.last /\ two.answered = FALSE
    BY <1>1 DEF FormType
  <1> HIDE DEF two
  <1>3. /\ three \in FormType /\ three.open = two.open /\ three.data = two.data
        /\ three.last = two.last /\ three.answered = FALSE /\ three.touched = {}
    BY <1>2 DEF FormType
  <1> HIDE DEF three
  <1>4. /\ four \in FormType /\ four.open = three.open /\ four.data = three.data
        /\ four.last = three.last /\ four.answered = FALSE /\ four.touched = {}
    BY <1>3 DEF FormType
  <1> QED
    BY <1>1, <1>2, <1>3, <1>4 DEF four, three, two, one

LEMMA FieldIsTyped ==
  ASSUME form \in FormType, NEW data \in AddressType,
         NEW touched \in SUBSET {"street", "city"},
         form' = [form EXCEPT !.data = data, !.edits = form.edits + 1, !.touched = touched]
  PROVE  /\ form' \in FormType /\ form'.open = form.open /\ form'.answered = form.answered
         /\ form'.data = data /\ form'.last = form.last /\ form'.touched = touched
  <1> DEFINE one == [form EXCEPT !.data = data]
             two == [one EXCEPT !.edits = form.edits + 1]
             three == [two EXCEPT !.touched = touched]
  <1>1. /\ one \in FormType /\ one.open = form.open /\ one.answered = form.answered
        /\ one.data = data /\ one.last = form.last
    BY DEF FormType
  <1> HIDE DEF one
  <1>2. /\ two \in FormType /\ two.open = one.open /\ two.answered = one.answered
        /\ two.data = one.data /\ two.last = one.last
    BY <1>1 DEF FormType
  <1> HIDE DEF two
  <1>3. /\ three \in FormType /\ three.open = two.open
        /\ three.answered = two.answered /\ three.data = two.data
        /\ three.last = two.last /\ three.touched = touched
    BY <1>2 DEF FormType
  <1> QED
    BY <1>1, <1>2, <1>3 DEF three, two, one

LEMMA FormIsFilled ==
  ASSUME NEW f \in FormType, NEW data \in AddressType, NEW b \in BOOLEAN
  PROVE  LET g == [f EXCEPT !.asked = FALSE, !.answered = b, !.data = data]
         IN /\ g \in FormType /\ g.open = f.open /\ g.answered = b
            /\ g.data = data /\ g.last = f.last /\ g.touched = f.touched
  BY DEF FormType

\* The parts that a step of the drawer leaves alone.
LEMMA DrawerChanges ==
  ASSUME BookInv, NEW d \in DialogType, onClose(d), d.shown = FALSE \/ d.shown = dialog.shown,
         d.isOpen = dialog.isOpen, UNCHANGED <<book, cards>>,
         bookLoads' \subseteq [BookRows -> AddressType], errand' \in ErrandType
  PROVE  BookInv'
  <1>1. CASE Shut(d)
    <2>1. dialog' = d /\ UNCHANGED <<form, lookups>>
      BY <1>1 DEF onClose
    <2> QED
      BY <2>1 DEF BookInv, BookTypeOK, LookupInv, LookupFillsItsCep, OpenDrawerHasItsForm,
         StreetOf, Blank
  <1>2. CASE ~Shut(d)
    <2>1. dialog' = [d EXCEPT !.isOpen = FALSE] /\ form' = NoForm /\ lookups' = {}
      BY <1>2 DEF onClose
    <2>2. dialog' \in DialogType /\ dialog'.shown = FALSE
      BY <1>2, <2>1 DEF DialogType, Shut
    <2> QED
      BY <2>1, <2>2, NoFormIsForm DEF BookInv, BookTypeOK, LookupInv, LookupFillsItsCep,
         OpenDrawerHasItsForm
  <1> QED
    BY <1>1, <1>2

\* Only what the backend has, or has on its way, changes.
LEMMA BookChanges ==
  ASSUME BookInv, UNCHANGED <<dialog, form, lookups>>,
         book' \in [BookRows -> AddressType], cards' \in [BookRows -> AddressType],
         bookLoads' \subseteq [BookRows -> AddressType], errand' \in ErrandType
  PROVE  BookInv'
  BY DEF BookInv, BookTypeOK, LookupInv, LookupFillsItsCep, OpenDrawerHasItsForm,
     StreetOf, Blank

\* The form changes, and stays open.
LEMMA FormChanges ==
  ASSUME BookInv, UNCHANGED <<book, cards, bookLoads, dialog, errand>>,
         form' \in FormType, form'.open = form.open, LookupInv'
  PROVE  BookInv'
  BY DEF BookInv, BookTypeOK, OpenDrawerHasItsForm

\* The drawer shows the form of one address, and an answer about an earlier code
\* fills nothing in it (drawer, user-addresses, user-address-form).
THEOREM DrawerIsRight == AddressPagesSpec => []DrawerShowsItsAddress
  <1>1. BookInit => BookInv
    <2> SUFFICES ASSUME BookInit PROVE BookInv
      OBVIOUS
    <2>1. Saved(1) \in AddressType
      BY DEF Saved, AddressType
    <2>2. /\ book \in [BookRows -> AddressType] /\ cards \in [BookRows -> AddressType]
          /\ bookLoads = {book} /\ errand \in ErrandType
      <3>1. book \in [BookRows -> {Empty, Saved(1)}] /\ cards = [r \in BookRows |-> Empty]
        BY DEF BookInit
      <3>2. bookLoads = {book} /\ errand = NoErrand
        BY DEF BookInit
      <3>3. book \in [BookRows -> AddressType]
        BY <2>1, <3>1, EmptyIsAddress
      <3> QED
        BY <3>1, <3>2, <3>3, EmptyIsAddress, NoErrandIsErrand
    <2>3. dialog \in DialogType /\ dialog.shown = FALSE /\ form = NoForm /\ lookups = {}
      BY DEF BookInit, DialogType
    <2> QED
      BY <2>2, <2>3, NoFormIsForm DEF BookInv, BookTypeOK, LookupInv, LookupFillsItsCep,
         OpenDrawerHasItsForm
  <1>2. BookInv /\ (BookNext \/ UNCHANGED bookVars) => BookInv'
    <2> SUFFICES ASSUME BookInv, BookNext \/ UNCHANGED bookVars
                 PROVE  BookInv'
      OBVIOUS
    <2>t. BookTypeOK
      BY DEF BookInv
    <2>1. CASE ListArrives
      BY <2>t, <2>1, BookChanges DEF ListArrives, BookTypeOK
    <2>2. CASE openForm
      <3>1. PICK r \in {0} \cup Rows(cards) :
              LET data == IF r = 0 THEN Empty ELSE cards[r] IN
              form' = [NoForm EXCEPT !.row = r, !.open = TRUE, !.data = data,
                                     !.last = data.cep]
        BY <2>2 DEF openForm
      <3>2. /\ ~dialog.shown /\ dialog' = DrawerOpened /\ lookups' = {}
            /\ UNCHANGED <<book, cards, bookLoads, errand>>
        BY <2>2 DEF openForm
      <3> DEFINE data == IF r = 0 THEN Empty ELSE cards[r]
      <3>3. r \in BookRows \cup {0} /\ data \in AddressType
        BY <2>t, EmptyIsAddress DEF Rows, BookTypeOK
      <3>4. form' = [NoForm EXCEPT !.row = r, !.open = TRUE, !.data = data,
                                   !.last = data.cep]
        BY <3>1
      <3> HIDE DEF data
      <3>5. form' \in FormType /\ form'.open = TRUE /\ form'.answered = FALSE
        BY <3>3, <3>4, FormOpens
      <3>6. dialog' \in DialogType /\ (dialog'.shown => dialog'.isOpen)
        BY <2>t, <3>2 DEF DrawerOpened, DialogType, BookTypeOK
      <3> QED
        BY <2>t, <3>2, <3>5, <3>6 DEF BookInv, BookTypeOK, LookupInv, LookupFillsItsCep,
           OpenDrawerHasItsForm
    <2>3. CASE requestClose
      <3> DEFINE d == [dialog EXCEPT !.shown = FALSE, !.closing = TRUE]
      <3>1. onClose(d) /\ UNCHANGED <<book, cards, bookLoads, errand>>
        BY <2>3 DEF requestClose
      <3>2. d \in DialogType /\ d.shown = FALSE /\ d.isOpen = dialog.isOpen
        BY <2>t DEF BookTypeOK, DialogType
      <3> HIDE DEF d
      <3> QED
        BY <2>t, <3>1, <3>2, DrawerChanges DEF BookTypeOK
    <2>4. CASE Escape
      <3>1. /\ dialog' = [dialog EXCEPT !.shown = FALSE, !.closing = TRUE]
            /\ UNCHANGED <<book, cards, bookLoads, form, lookups, errand>>
        BY <2>4 DEF Escape
      <3>2. dialog' \in DialogType /\ dialog'.shown = FALSE
        BY <2>t, <3>1 DEF BookTypeOK, DialogType
      <3> QED
        BY <2>t, <3>1, <3>2 DEF BookInv, BookTypeOK, LookupInv, LookupFillsItsCep,
           OpenDrawerHasItsForm, StreetOf, Blank
    <2>5. CASE CloseEvent
      <3> DEFINE d == [dialog EXCEPT !.closing = FALSE]
      <3>1. onClose(d) /\ UNCHANGED <<book, cards, bookLoads, errand>>
        BY <2>5 DEF CloseEvent
      <3>2. d \in DialogType /\ d.shown = dialog.shown /\ d.isOpen = dialog.isOpen
        BY <2>t DEF BookTypeOK, DialogType
      <3> HIDE DEF d
      <3> QED
        BY <2>t, <3>1, <3>2, DrawerChanges DEF BookTypeOK
    <2>6. CASE onCepChange
      <3>1. PICK cep \in (0 .. LastCep) \ {form.last} :
              /\ form' = [form EXCEPT !.data = withCep(cep, @), !.last = cep,
                                      !.asked = cep # 0, !.answered = FALSE,
                                      !.touched = {}, !.edits = @ + 1]
              /\ askAnew(cep, form.data)
        BY <2>6 DEF onCepChange
      <3>2. UNCHANGED <<book, cards, bookLoads, dialog, errand>>
        BY <2>6 DEF onCepChange
      <3> DEFINE data == withCep(cep, form.data)
                 waits == cep # 0
      <3>3. form \in FormType /\ form.data \in AddressType /\ cep \in Nat
        BY <2>t, BookAssumption DEF BookTypeOK, FormType
      <3>4. /\ data \in AddressType /\ data.street = form.data.street
            /\ data.city = form.data.city
        BY <3>3 DEF withCep, AddressType
      <3>5. form' = [form EXCEPT !.data = data, !.last = cep, !.asked = waits,
                       !.answered = FALSE, !.touched = {}, !.edits = form.edits + 1]
        BY <3>1, Zenon
      <3>6. waits \in BOOLEAN
        OBVIOUS
      <3> HIDE DEF data, waits
      <3>7. /\ form' \in FormType /\ form'.open = form.open /\ form'.answered = FALSE
            /\ form'.data = data /\ form'.last = cep /\ form'.touched = {}
        BY <3>3, <3>4, <3>5, <3>6, CodeIsTyped, Zenon
      <3>8. LookupInv'
        BY <3>1, <3>4, <3>7 DEF LookupInv, LookupFillsItsCep, askAnew, AskCep
      <3> QED
        BY <3>2, <3>7, <3>8, FormChanges
    <2>7. CASE TypeField
      <3>1. PICK words \in {Blank, Own} :
              \/ form' = [form EXCEPT !.data.street = words, !.edits = @ + 1,
                                      !.touched = @ \cup {"street"}]
              \/ form' = [form EXCEPT !.data.city = words, !.edits = @ + 1,
                                      !.touched = @ \cup {"city"}]
        BY <2>7 DEF TypeField
      <3>2. UNCHANGED <<book, cards, bookLoads, dialog, lookups, errand>>
        BY <2>7 DEF TypeField
      <3>3. /\ form \in FormType /\ form.data \in AddressType /\ words \in Nat
            /\ form.touched \in SUBSET {"street", "city"}
        BY <2>t, BookAssumption DEF BookTypeOK, FormType, Blank, Own
      <3>4. PICK data \in AddressType, field \in {"street", "city"} :
              /\ form' = [form EXCEPT !.data = data, !.edits = form.edits + 1,
                                      !.touched = form.touched \cup {field}]
              /\ field # "street" => data.street = form.data.street
              /\ field # "city" => data.city = form.data.city
        <4>1. CASE form' = [form EXCEPT !.data.street = words, !.edits = @ + 1,
                                        !.touched = @ \cup {"street"}]
          <5> DEFINE data == [form.data EXCEPT !.street = words]
          <5>1. data \in AddressType /\ data.city = form.data.city
            BY <3>3 DEF AddressType
          <5>2. form' = [form EXCEPT !.data = data, !.edits = form.edits + 1,
                                     !.touched = form.touched \cup {"street"}]
            BY <4>1
          <5> HIDE DEF data
          <5> QED
            BY <5>1, <5>2
        <4>2. CASE form' = [form EXCEPT !.data.city = words, !.edits = @ + 1,
                                        !.touched = @ \cup {"city"}]
          <5> DEFINE data == [form.data EXCEPT !.city = words]
          <5>1. data \in AddressType /\ data.street = form.data.street
            BY <3>3 DEF AddressType
          <5>2. form' = [form EXCEPT !.data = data, !.edits = form.edits + 1,
                                     !.touched = form.touched \cup {"city"}]
            BY <4>2
          <5> HIDE DEF data
          <5> QED
            BY <5>1, <5>2
        <4> QED
          BY <3>1, <4>1, <4>2
      <3> DEFINE touched == form.touched \cup {field}
      <3>5. touched \in SUBSET {"street", "city"}
        BY <3>3
      <3> HIDE DEF touched
      <3>6. /\ form' \in FormType /\ form'.open = form.open
            /\ form'.answered = form.answered /\ form'.data = data
            /\ form'.last = form.last /\ form'.touched = touched
        <4>1. form' = [form EXCEPT !.data = data, !.edits = form.edits + 1,
                                   !.touched = touched]
          BY <3>4 DEF touched
        <4> QED
          BY <3>3, <3>5, <4>1, FieldIsTyped, Zenon
      <3>7. LookupInv'
        BY <3>2, <3>4, <3>6 DEF BookInv, LookupInv, LookupFillsItsCep, StreetOf, Blank, touched
      <3> QED
        BY <3>2, <3>6, <3>7, FormChanges
    <2>8. CASE CepAnswered
      <3>1. PICK question \in lookups :
              /\ lookups' = lookups \ {question}
              /\ \/ form' = [form EXCEPT !.asked = FALSE, !.answered = TRUE,
                                         !.data = filled(@, question)]
                 \/ form' = [form EXCEPT !.asked = FALSE]
        BY <2>8 DEF CepAnswered
      <3>2. UNCHANGED <<book, cards, bookLoads, dialog, errand>>
        BY <2>8 DEF CepAnswered
      <3>3. /\ form \in FormType /\ form.data \in AddressType /\ form.last \in Nat
            /\ form.answered \in BOOLEAN
        BY <2>t DEF BookTypeOK, FormType
      <3>4. /\ lookups' = {} /\ question.cep = form.last
            /\ "street" \in form.touched \/ form.data.street = question.street
            /\ "city" \in form.touched \/ form.data.city = question.city
        BY <3>1 DEF BookInv, LookupInv
      <3>5. CASE form' = [form EXCEPT !.asked = FALSE, !.answered = TRUE,
                                      !.data = filled(@, question)]
        <4> DEFINE data == filled(form.data, question)
        <4>1. data \in AddressType
          BY <3>3, <3>4, FilledIsAddress
        <4>2. /\ form.data.street = question.street => data.street = StreetOf(form.last)
              /\ form.data.city = question.city => data.city = form.last
          BY <3>3, <3>4 DEF filled, AddressType
        <4>3. form' = [form EXCEPT !.asked = FALSE, !.answered = TRUE, !.data = data]
          BY <3>5
        <4> HIDE DEF data
        <4>4. /\ form' \in FormType /\ form'.open = form.open /\ form'.data = data
              /\ form'.last = form.last /\ form'.touched = form.touched
          BY <3>3, <4>1, <4>3, FormIsFilled
        <4>5. LookupInv'
          BY <3>4, <4>2, <4>4 DEF LookupInv, LookupFillsItsCep, StreetOf, Blank
        <4> QED
          BY <3>2, <4>4, <4>5, FormChanges
      <3>6. CASE form' = [form EXCEPT !.asked = FALSE]
        <4>1. /\ form' \in FormType /\ form'.open = form.open
              /\ form'.answered = form.answered /\ form'.data = form.data
              /\ form'.last = form.last /\ form'.touched = form.touched
          BY <3>3, <3>6 DEF FormType
        <4>2. LookupInv'
          BY <3>4, <4>1 DEF BookInv, LookupInv, LookupFillsItsCep, StreetOf, Blank
        <4> QED
          BY <3>2, <4>1, <4>2, FormChanges
      <3> QED
        BY <3>1, <3>5, <3>6
    <2>9. CASE save
      <3>1. /\ errand' = [kind |-> IF form.row = 0 THEN "create" ELSE "update",
                           row |-> form.row, data |-> form.data, state |-> "sent"]
            /\ UNCHANGED <<book, cards, bookLoads, dialog, form, lookups>>
        BY <2>9 DEF save
      <3>2. form.row \in BookRows \cup {0} /\ form.data \in AddressType
        BY <2>t DEF BookTypeOK, FormType
      <3>3. errand' \in ErrandType
        BY <3>1, <3>2 DEF ErrandType
      <3> QED
        BY <2>t, <3>1, <3>3, BookChanges DEF BookTypeOK
    <2>10. CASE remove
      <3>1. /\ \E r \in BookRows :
                 errand' = [kind |-> "remove", row |-> r, data |-> Empty, state |-> "sent"]
            /\ UNCHANGED <<book, cards, bookLoads, dialog, form, lookups>>
        BY <2>10 DEF remove, Rows
      <3>2. errand' \in ErrandType
        BY <3>1, EmptyIsAddress DEF ErrandType
      <3> QED
        BY <2>t, <3>1, <3>2, BookChanges DEF BookTypeOK
    <2>11. CASE ServeErrand
      <3>1. /\ UNCHANGED <<cards, bookLoads, dialog, form, lookups>>
            /\ book' = book \/ \E r \in BookRows : book' = [book EXCEPT ![r] = errand.data]
            /\ \E state \in {"done", "failed"} : errand' = [errand EXCEPT !.state = state]
        BY <2>11 DEF ServeErrand, Rows
      <3>2. errand' \in ErrandType /\ errand.data \in AddressType
        BY <2>t, <3>1 DEF BookTypeOK, ErrandType
      <3>3. book' \in [BookRows -> AddressType]
        BY <2>t, <3>1, <3>2 DEF BookTypeOK
      <3> QED
        BY <2>t, <3>1, <3>2, <3>3, BookChanges DEF BookTypeOK
    <2>12. CASE RemovedElsewhere
      BY <2>t, <2>12, EmptyIsAddress, BookChanges DEF RemovedElsewhere, BookTypeOK, Rows
    <2>13. CASE ErrandAnswered
      <3>1. /\ errand' = NoErrand /\ UNCHANGED <<book, cards>>
            /\ bookLoads' = bookLoads \cup {book} \/ UNCHANGED bookLoads
        BY <2>13 DEF ErrandAnswered, loadAddresses
      <3>2. /\ errand' \in ErrandType
            /\ bookLoads' \subseteq [BookRows -> AddressType]
        BY <2>t, <3>1, NoErrandIsErrand DEF BookTypeOK
      <3> DEFINE d == [dialog EXCEPT !.shown = FALSE, !.closing = TRUE]
      <3>3. onClose(d) \/ UNCHANGED <<dialog, form, lookups>>
        BY <2>13 DEF ErrandAnswered
      <3>4. d \in DialogType /\ d.shown = FALSE /\ d.isOpen = dialog.isOpen
        BY <2>t DEF BookTypeOK, DialogType
      <3> HIDE DEF d
      <3> QED
        BY <2>t, <3>1, <3>2, <3>3, <3>4, DrawerChanges, BookChanges DEF BookTypeOK
    <2>14. CASE UNCHANGED bookVars
      BY <2>t, <2>14, BookChanges DEF bookVars, BookTypeOK
    <2> QED
      BY <2>1, <2>2, <2>3, <2>4, <2>5, <2>6, <2>7, <2>8, <2>9, <2>10, <2>11, <2>12, <2>13,
         <2>14 DEF BookNext
  <1>3. BookInv => DrawerShowsItsAddress
    BY DEF BookInv, LookupInv, DrawerShowsItsAddress
  <1>4. [(BookNext /\ UNCHANGED signUpVars) \/ (SignUpNext /\ UNCHANGED bookVars)]_
          <<bookVars, signUpVars>> => BookNext \/ UNCHANGED bookVars
    OBVIOUS
  <1> QED
    BY <1>1, <1>2, <1>3, <1>4, PTL DEF AddressPagesSpec

-----------------------------------------------------------------------------
(* The panel of the provider.                                              *)

\* Of some numbers one is the least.
LEMMA LeastNumber ==
  ASSUME NEW T \in SUBSET Nat, T # {}
  PROVE  \E n \in T : \A m \in T : n <= m
  <1> DEFINE R == OpToRel(<, Nat)
  <1>1. IsWellFoundedOn(R, Nat)
    BY NatLessThanWellFounded
  <1>2. \A x, y \in Nat : x < y => <<x, y>> \in R
    BY DEF OpToRel
  <1> HIDE DEF R
  <1>3. PICK n \in T : \A m \in T : ~ (<<m, n>> \in R)
    BY <1>1, WFMin
  <1>4. \A m \in T : ~ (m < n)
    BY <1>2, <1>3
  <1>5. \A m \in T : n <= m
    BY <1>4
  <1> QED
    BY <1>5

\* A list that is not full holds all there is.
LEMMA ShortIsWhole ==
  ASSUME NEW some \in SUBSET Sales, Cardinality(Newest(some)) < PanelLimit
  PROVE  Newest(some) = some
  <1> DEFINE Above(s) == {r \in some : r > s}
             Left == some \ Newest(some)
             T == {Cardinality(Above(s)) : s \in Left}
  <1>1. IsFiniteSet(some) /\ some \subseteq Nat /\ Newest(some) \subseteq some
    BY DeskAssumption, FS_Subset DEF Newest
  <1>2. \A s \in some : IsFiniteSet(Above(s)) /\ Cardinality(Above(s)) \in Nat
    BY <1>1, FS_Subset, FS_CardinalityType
  <1>3. \A s \in Left : ~(Cardinality(Above(s)) < PanelLimit)
    BY DEF Newest
  <1>4. SUFFICES ASSUME Left # {} PROVE FALSE
    BY <1>1
  <1>5. PICK s \in Left : \A r \in Left : Cardinality(Above(s)) <= Cardinality(Above(r))
    <2>1. T \in SUBSET Nat /\ T # {}
      BY <1>2, <1>4
    <2>2. PICK n \in T : \A m \in T : n <= m
      BY <2>1, LeastNumber
    <2> QED
      BY <2>2
  <1>6. \A r \in Left : ~(r > s)
    <2> SUFFICES ASSUME NEW r \in Left, r > s PROVE FALSE
      OBVIOUS
    <2>1. Above(r) \subseteq Above(s) /\ r \in Above(s) /\ r \notin Above(r)
      <3>1. s \in Nat /\ r \in Nat /\ r \in some
        BY <1>1
      <3>2. \A t \in some : t > r => t > s
        BY <1>1, <3>1
      <3>3. ~(r > r)
        BY <3>1
      <3> QED
        BY <3>1, <3>2, <3>3
    <2>2. Above(r) # Above(s) /\ Above(r) \in SUBSET Above(s)
      BY <2>1
    <2> HIDE DEF Above
    <2>3. Cardinality(Above(r)) <= Cardinality(Above(s))
          /\ (Cardinality(Above(r)) = Cardinality(Above(s)) => Above(r) = Above(s))
      BY <1>2, <2>2, FS_Subset
    <2>4. Cardinality(Above(s)) <= Cardinality(Above(r))
      BY <1>5
    <2> QED
      BY <1>2, <2>2, <2>3, <2>4
  <1>7. Above(s) \in SUBSET Newest(some)
    BY <1>6
  <1>8. /\ IsFiniteSet(Newest(some))
        /\ Cardinality(Newest(some)) \in Nat /\ Cardinality(Above(s)) \in Nat
    BY <1>1, <1>2, FS_Subset, FS_CardinalityType
  <1>9. Cardinality(Above(s)) <= Cardinality(Newest(some))
    BY <1>7, <1>8, FS_Subset
  <1> HIDE DEF Above, Left
  <1> QED
    BY <1>3, <1>5, <1>8, <1>9, DeskAssumption

\* What was paid, was paid in an hour that came.
PanelInv ==
    /\ hour \in Nat /\ hour >= FirstHour
    /\ DOMAIN sales = Sales
    /\ \A s \in Sales :
         /\ DOMAIN sales[s] = {"state", "paid", "kept"}
         /\ sales[s].paid \in 0 .. hour
         /\ sales[s].kept => sales[s].paid >= FirstHour

LEMMA PanelSteps ==
  ASSUME PanelInv, [PanelNext]_panelVars
  PROVE  PanelInv'
  <1>1. CASE UNCHANGED panelVars
    BY <1>1 DEF PanelInv, panelVars
  <1>2. CASE HourPasses
    BY <1>2 DEF HourPasses, PanelInv, FirstHour, MonthLength, Offset
  <1>3. ASSUME NEW s \in Sales, Requested(s) \/ AcceptedOrRefused(s) \/ Concluded(s),
               hour' = hour
        PROVE  PanelInv'
    BY <1>3 DEF Requested, AcceptedOrRefused, Concluded, PanelInv
  <1>4. ASSUME NEW s \in Sales, Paid(s) \/ Refunded(s), hour' = hour
        PROVE  PanelInv'
    BY <1>4 DEF Paid, Refunded, PanelInv
  <1> QED
    BY <1>1, <1>2, <1>3, <1>4 DEF PanelNext

\* Later instants have later months, and the days of a month are its own.
LEMMA LaterMonths ==
  ASSUME NEW a \in Nat, NEW b \in Nat, a >= Offset, a <= b
  PROVE  /\ monthKey(a) \in Int /\ monthKey(b) \in Int /\ monthKey(a) <= monthKey(b)
         /\ dateKey(a) = dateKey(b) => monthKey(a) = monthKey(b)
  BY DEF monthKey, dateKey, MonthLength, DayLength, Offset

LEMMA FiguresAlwaysAddUp ==
  ASSUME PanelInv
  PROVE  FiguresAddUp
  <1> DEFINE home == getForProvider
             first == monthKey(hour) - (MonthsShown - 1)
             shown == {s \in PaidSales : monthKey(sales[s].paid) >= first}
             In(m) == {s \in PaidSales : monthKey(sales[s].paid) = m}
             Today == {s \in PaidSales : dateKey(sales[s].paid) = dateKey(hour)}
  <1> SUFFICES ASSUME monthKey(hour) = hour \div MonthLength
               PROVE  /\ home.lastMonths[1] + home.lastMonths[2] = Cardinality(shown)
                      /\ home.today <= home.month
                      /\ buildSummary(home).trend = "positive" <=> buildInsights(home).growth > 0
    BY DEF FiguresAddUp
  <1>1. \A s \in PaidSales : /\ sales[s].paid \in Nat /\ sales[s].paid >= Offset
                             /\ sales[s].paid <= hour
    BY DEF PaidSales, OfState, PanelInv, FirstHour, MonthLength, Offset
  <1>2. hour \in Nat /\ monthKey(hour) \in Int
    BY LaterMonths DEF PanelInv, FirstHour, MonthLength, Offset
  <1>3. \A s \in PaidSales : /\ monthKey(sales[s].paid) \in Int
                             /\ monthKey(sales[s].paid) <= monthKey(hour)
                             /\ dateKey(sales[s].paid) = dateKey(hour) =>
                                  monthKey(sales[s].paid) = monthKey(hour)
    BY <1>1, <1>2, LaterMonths
  <1>4. /\ lastMonthKeys(hour)[1] = monthKey(hour) - 1
        /\ lastMonthKeys(hour)[2] = monthKey(hour)
    BY <1>2 DEF lastMonthKeys, MonthsShown
  <1>5. /\ home.lastMonths[1] = Cardinality(In(monthKey(hour) - 1))
        /\ home.lastMonths[2] = Cardinality(In(monthKey(hour)))
        /\ home.month = home.lastMonths[2]
        /\ home.today = Cardinality(Today)
    <2>1. /\ RevenueByMonth[1] = Cardinality(In(monthKey(hour) - 1))
          /\ RevenueByMonth[2] = Cardinality(In(monthKey(hour)))
      <3>1. \A i \in 1 .. 2 : RevenueByMonth[i] = Cardinality(In(lastMonthKeys(hour)[i]))
        BY DEF RevenueByMonth, MonthsShown
      <3> HIDE DEF In
      <3> QED
        BY <1>4, <3>1
    <2>2. /\ home.lastMonths = RevenueByMonth /\ home.month = RevenueByMonth[2]
          /\ home.today = TodayRevenue
      BY DEF getForProvider, MonthsShown
    <2> QED
      BY <2>1, <2>2 DEF TodayRevenue
  <1>6. /\ IsFiniteSet(In(monthKey(hour))) /\ IsFiniteSet(In(monthKey(hour) - 1))
        /\ Cardinality(In(monthKey(hour))) \in Nat
        /\ Cardinality(In(monthKey(hour) - 1)) \in Nat
    <2>1. IsFiniteSet(PaidSales)
      BY DeskAssumption, FS_Subset DEF PaidSales, OfState
    <2> QED
      BY <2>1, FS_Subset, FS_CardinalityType
  <1>7. Cardinality(Today) <= Cardinality(In(monthKey(hour)))
    <2>1. Today \in SUBSET In(monthKey(hour))
      BY <1>3
    <2> QED
      BY <1>6, <2>1, FS_Subset
  <1>8. Cardinality(In(monthKey(hour) - 1)) + Cardinality(In(monthKey(hour))) = Cardinality(shown)
    <2>1. /\ shown = In(monthKey(hour) - 1) \cup In(monthKey(hour))
          /\ In(monthKey(hour) - 1) \cap In(monthKey(hour)) = {}
      BY <1>2, <1>3 DEF MonthsShown
    <2> HIDE DEF In, shown
    <2> QED
      BY <1>6, <2>1, FS_Union, FS_EmptySet
  <1>9. buildSummary(home).trend = "positive" <=> buildInsights(home).growth > 0
    <2>1. home.monthlyGrowth = Growth(home.month, home.previousMonth)
      BY DEF getForProvider
    <2> HIDE DEF home
    <2> QED
      BY <2>1 DEF buildSummary, buildInsights
  <1> QED
    BY <1>5, <1>7, <1>8, <1>9

\* Whatever the orders and the hour, the months of the panel take in each sale
\* once, and a list of requests that is not full leaves none out
\* (provider-dashboard.service).
THEOREM PanelsAreTrue == ProviderDeskSpec => []PanelIsTrue
  <1>1. ProviderDeskSpec => PanelInv
    BY DEF ProviderDeskSpec, PanelInit, PanelInv, Unsold, FirstHour, MonthLength, Offset
  <1>2. /\ PanelInv
        /\ [(PanelNext /\ UNCHANGED payVars) \/ (PayNext /\ UNCHANGED panelVars)]_<<panelVars, payVars>>
        => PanelInv'
    BY PanelSteps
  <1>3. PanelInv => PanelIsTrue
    <2> SUFFICES ASSUME PanelInv PROVE PanelIsTrue
      OBVIOUS
    <2>1. FiguresAddUp
      BY FiguresAlwaysAddUp
    <2>2. getForProvider.pending = Newest(OfState({"waiting"}))
      BY DEF getForProvider, Listed
    <2>3. OfState({"waiting"}) \in SUBSET Sales
      BY DEF OfState
    <2>4. ShortListIsWhole
      BY <2>2, <2>3, ShortIsWhole DEF ShortListIsWhole
    <2> QED
      BY <2>1, <2>4 DEF PanelIsTrue
  <1> QED
    BY <1>1, <1>2, <1>3, PTL DEF ProviderDeskSpec

-----------------------------------------------------------------------------
(* The payout pages.                                                       *)

DeskType == [open : BOOLEAN, typed : Nat, known : BOOLEAN, review : BOOLEAN,
             loading : BOOLEAN, busy : BOOLEAN, saved : Nat, behind : SUBSET Nat,
             saves : Nat, entries : Nat, visits : Nat]

WireType == [page : PayPages, kind : {"get", "put"}, state : {"sent", "done"},
             data : Nat, status : Statuses, n : Nat]

ReceivingType == [data : Nat, status : Statuses, by : Nat]

PayTypeOK ==
    /\ receiving \in [PayPages -> ReceivingType]
    /\ desk \in [PayPages -> DeskType]
    /\ payWires \subseteq WireType

\* What the page p was told of d is so, or a save it left behind came after it.
Stands(p, d) == receiving[p].data = d \/ receiving[p].by \in desk[p].behind

\* The page waits for its last save, and reports nothing as saved meanwhile; when
\* an answer is to report it, the backend has what it brought.
WaitedFor(w) ==
    /\ desk[w.page].busy /\ desk[w.page].saved = 0
    /\ w.n = desk[w.page].saves
    /\ (w.state = "done" /\ (w.page = "pix" \/ ~w.status.error)) => Stands(w.page, w.data)

SavesNumbered ==
    \A v \in payWires : v.kind = "put" =>
       /\ v.n <= desk[v.page].saves
       /\ \A w \in payWires :
            (w.kind = "put" /\ w.page = v.page /\ w.n = v.n) => w = v

PayInv ==
    /\ PayTypeOK /\ SavesNumbered
    /\ \A p \in PayPages : desk[p].saved # 0 => ~desk[p].busy /\ Stands(p, desk[p].saved)
    /\ \A w \in payWires : w.kind = "put" => Abandoned(w) \/ WaitedFor(w)

\* The steps that begin no save, serve none and report none.
LEMMA PayStep ==
  ASSUME PayInv, PayTypeOK',
         \A p \in PayPages :
            /\ receiving'[p].data = receiving[p].data /\ receiving'[p].by = receiving[p].by
            /\ desk'[p].saved = desk[p].saved /\ desk'[p].saves = desk[p].saves
            /\ desk[p].behind \subseteq desk'[p].behind
            /\ desk'[p].busy => desk[p].busy,
         \A w \in payWires' : w.kind = "put" =>
            /\ w \in payWires
            /\ w.n \notin desk'[w.page].behind => desk'[w.page].busy = desk[w.page].busy
  PROVE  PayInv'
  <1>1. ASSUME NEW p \in PayPages, NEW d, Stands(p, d) PROVE Stands(p, d)'
    BY <1>1 DEF Stands
  <1>2. ASSUME NEW p \in PayPages, desk'[p].saved # 0
        PROVE  ~desk'[p].busy /\ Stands(p, desk[p].saved)'
    <2>1. desk[p].saved # 0 /\ desk'[p].saved = desk[p].saved
      BY <1>2
    <2>2. ~desk[p].busy /\ Stands(p, desk[p].saved)
      BY <2>1 DEF PayInv
    <2>3. receiving'[p].data = desk'[p].saved \/ receiving'[p].by \in desk'[p].behind
      BY <2>1, <2>2 DEF Stands
    <2> QED
      BY <2>2, <2>3 DEF Stands
  <1>3. \A w \in payWires' : w.page \in PayPages
    BY DEF PayTypeOK, WireType
  <1>4. ASSUME NEW w \in payWires', w.kind = "put", ~Abandoned(w)'
        PROVE  WaitedFor(w)'
    <2>1. w \in payWires /\ w.page \in PayPages /\ w.n \notin desk'[w.page].behind
      BY <1>3, <1>4 DEF Abandoned
    <2>2. w.n \notin desk[w.page].behind
      BY <2>1
    <2>3. WaitedFor(w)
      BY <1>4, <2>1, <2>2 DEF PayInv, Abandoned
    <2>4. Stands(w.page, w.data) => Stands(w.page, w.data)'
      BY <1>1, <2>1
    <2>5. /\ desk'[w.page].busy /\ desk'[w.page].saved = 0
          /\ w.n = desk'[w.page].saves
      BY <1>4, <2>1, <2>3 DEF WaitedFor
    <2> QED
      BY <2>3, <2>4, <2>5 DEF WaitedFor
  <1>5. SavesNumbered'
    <2>1. \A w \in payWires' : w.kind = "put" => w \in payWires
      OBVIOUS
    <2> QED
      BY <1>3, <2>1 DEF PayInv, SavesNumbered
  <1> QED
    BY <1>2, <1>4, <1>5 DEF PayInv

\* What is left of a page.
LEMMA PageIsLeft ==
  ASSUME PayTypeOK, NEW p \in PayPages
  PROVE  /\ Leaving(p) \in DeskType
         /\ Leaving(p).saved = desk[p].saved /\ Leaving(p).saves = desk[p].saves
         /\ Leaving(p).busy = FALSE
         /\ Leaving(p).behind = desk[p].behind \cup {w.n : w \in Puts(p)}
  <1>1. /\ desk[p].saved \in Nat /\ desk[p].saves \in Nat /\ desk[p].entries \in Nat
        /\ desk[p].visits + 1 \in Nat /\ desk[p].behind \in SUBSET Nat
    BY DEF PayTypeOK, DeskType
  <1>2. {w.n : w \in Puts(p)} \in SUBSET Nat
    BY DEF PayTypeOK, WireType, Puts
  <1> DEFINE left == desk[p].behind \cup {w.n : w \in Puts(p)}
  <1>3. left \in SUBSET Nat
    BY <1>1, <1>2
  <1>4. Closed \in DeskType /\ Closed.busy = FALSE
    <2>1. \A f \in BOOLEAN :
            [open |-> f, typed |-> 0, known |-> f, review |-> f, loading |-> f, busy |-> f,
             saved |-> 0, behind |-> {}, saves |-> 0, entries |-> 0, visits |-> 0] \in DeskType
      BY DEF DeskType
    <2>2. Closed \in DeskType
      BY <2>1, Zenon DEF Closed
    <2> QED
      BY <2>2 DEF Closed
  <1>5. Leaving(p) = [Closed EXCEPT !.saved = desk[p].saved, !.saves = desk[p].saves,
           !.entries = desk[p].entries, !.visits = desk[p].visits + 1, !.behind = left]
    BY Zenon DEF Leaving
  <1> HIDE DEF left
  <1> QED
    <2> DEFINE s == desk[p].saved  t == desk[p].saves  e == desk[p].entries
               v == desk[p].visits + 1
               one == [Closed EXCEPT !.saved = s, !.saves = t]
               two == [one EXCEPT !.entries = e, !.visits = v, !.behind = left]
    <2>1. s \in Nat /\ t \in Nat /\ e \in Nat /\ v \in Nat
      BY <1>1
    <2>2. Leaving(p) = two
      BY <1>5
    <2>3. s = desk[p].saved /\ t = desk[p].saves
      OBVIOUS
    <2> HIDE DEF s, t, e, v
    <2>4. one \in DeskType /\ one.saved = s /\ one.saves = t /\ one.busy = FALSE
      BY <1>4, <2>1 DEF DeskType
    <2> HIDE DEF one
    <2>5. two \in DeskType /\ two.saved = s /\ two.saves = t /\ two.busy = FALSE
          /\ two.behind = left
      BY <1>3, <2>1, <2>4 DEF DeskType
    <2> HIDE DEF two
    <2> QED
      BY <2>2, <2>3, <2>5 DEF left

\* The steps that change of one page only what no save depends on.
LEMMA PageChanges ==
  ASSUME PayInv, UNCHANGED receiving, NEW p \in PayPages, NEW d \in DeskType,
         desk' = [desk EXCEPT ![p] = d],
         d.busy = desk[p].busy, d.saved = desk[p].saved, d.saves = desk[p].saves,
         d.behind = desk[p].behind,
         payWires' \subseteq WireType,
         \A w \in payWires' : w.kind = "put" => w \in payWires
  PROVE  PayInv'
  <1>1. PayTypeOK'
    BY DEF PayInv, PayTypeOK
  <1>2. \A q \in PayPages :
          /\ desk'[q].busy = desk[q].busy /\ desk'[q].saved = desk[q].saved
          /\ desk'[q].saves = desk[q].saves /\ desk'[q].behind = desk[q].behind
    BY DEF PayInv, PayTypeOK
  <1>3. \A w \in payWires' : w.page \in PayPages
    BY DEF WireType
  <1> QED
    BY <1>1, <1>2, <1>3, PayStep

\* The backend has what a page last reported as saved, unless a save that was left
\* behind was served since (provider-payout.page.ts, provider-payouts.page.ts).
THEOREM SavedPayoutsAreKept == ProviderDeskSpec => []SavedIsKept
  <1>u. Unset \in Statuses
    <2>1. \A f \in BOOLEAN : [review |-> f, error |-> f] \in Statuses
      BY DEF Statuses
    <2> QED
      BY <2>1, Zenon DEF Unset
  <1>1. PayInit => PayInv
    <2> SUFFICES ASSUME PayInit PROVE PayInv
      OBVIOUS
    <2>1. Closed \in DeskType /\ Closed.saved = 0
      <3>1. \A f \in BOOLEAN :
              [open |-> f, typed |-> 0, known |-> f, review |-> f, loading |-> f,
               busy |-> f, saved |-> 0, behind |-> {}, saves |-> 0, entries |-> 0,
               visits |-> 0] \in DeskType
        BY DEF DeskType
      <3>2. Closed \in DeskType
        BY <3>1, Zenon DEF Closed
      <3> QED
        BY <3>2 DEF Closed
    <2>2. [data |-> 0, status |-> Unset, by |-> 0] \in ReceivingType
      BY <1>u DEF ReceivingType
    <2>3. desk \in [PayPages -> DeskType] /\ \A p \in PayPages : desk[p].saved = 0
      BY <2>1 DEF PayInit
    <2>4. receiving \in [PayPages -> ReceivingType] /\ payWires = {}
      BY <2>2 DEF PayInit
    <2> QED
      BY <2>3, <2>4 DEF PayInv, PayTypeOK, SavesNumbered
  <1>2. PayInv /\ (PayNext \/ UNCHANGED payVars) => PayInv'
    <2> SUFFICES ASSUME PayInv, PayNext \/ UNCHANGED payVars
                 PROVE  PayInv'
      OBVIOUS
    <2>t. PayTypeOK
      BY DEF PayInv
    <2>d. \A p \in PayPages : desk[p] \in DeskType
      BY <2>t DEF PayTypeOK
    <2>w. \A w \in payWires : w \in WireType /\ w.page \in PayPages
      BY <2>t DEF PayTypeOK, WireType
    <2>g. \A p \in PayPages : Wire(p, "get", 0, 0) \in WireType /\ Wire(p, "get", 0, 0).kind = "get"
      BY <1>u DEF Wire, WireType
    <2>1. ASSUME NEW p \in PayPages, openPage(p)
          PROVE  PayInv'
      <3>1. \A q \in PayPages : desk'[q] \in {Leaving(q), [Leaving(q) EXCEPT !.open = TRUE,
                                                              !.loading = TRUE]}
        BY <2>1 DEF openPage
      <3>2. \A q \in PayPages :
              /\ desk'[q] \in DeskType
              /\ desk'[q].saved = desk[q].saved /\ desk'[q].saves = desk[q].saves
              /\ desk'[q].busy = FALSE
              /\ desk'[q].behind = desk[q].behind \cup {w.n : w \in Puts(q)}
        <4> SUFFICES ASSUME NEW q \in PayPages
                     PROVE  /\ desk'[q] \in DeskType
                            /\ desk'[q].saved = desk[q].saved
                            /\ desk'[q].saves = desk[q].saves
                            /\ desk'[q].busy = FALSE
                            /\ desk'[q].behind = desk[q].behind \cup {w.n : w \in Puts(q)}
          OBVIOUS
        <4> DEFINE k == Leaving(q)
                   left == desk[q].behind \cup {w.n : w \in Puts(q)}
        <4>1. /\ k \in DeskType /\ k.saved = desk[q].saved /\ k.saves = desk[q].saves
              /\ k.busy = FALSE /\ k.behind = left
          BY <2>t, PageIsLeft
        <4>2. desk'[q] \in {k, [k EXCEPT !.open = TRUE, !.loading = TRUE]}
          BY <3>1
        <4> HIDE DEF k, left
        <4>3. /\ desk'[q] \in DeskType
              /\ desk'[q].saved = desk[q].saved /\ desk'[q].saves = desk[q].saves
              /\ desk'[q].busy = FALSE /\ desk'[q].behind = left
          BY <4>1, <4>2 DEF DeskType
        <4> QED
          BY <4>3 DEF left
      <3>3. /\ payWires' = {w \in payWires : w.kind = "put" /\ w.state = "sent"}
                             \cup {Wire(p, "get", 0, 0)}
            /\ UNCHANGED receiving
        BY <2>1 DEF openPage
      <3>4. \A w \in payWires' : w.kind = "put" => w \in payWires /\ w.n \in desk'[w.page].behind
        BY <2>g, <2>w, <3>2, <3>3 DEF Puts
      <3>5. desk' \in [PayPages -> DeskType]
        BY <2>1, <3>2 DEF openPage
      <3>6. PayTypeOK'
        BY <2>t, <2>g, <3>3, <3>5 DEF PayTypeOK
      <3>7. \A q \in PayPages : receiving'[q].data = receiving[q].data
                                /\ receiving'[q].by = receiving[q].by
        BY <3>3
      <3>8. \A q \in PayPages : /\ desk'[q].saved = desk[q].saved /\ desk'[q].saves = desk[q].saves
                                /\ desk[q].behind \subseteq desk'[q].behind
                                /\ ~desk'[q].busy
        BY <3>2
      <3> QED
        BY <3>4, <3>6, <3>7, <3>8, PayStep
    <2>2. ASSUME NEW p \in PayPages, load(p)
          PROVE  PayInv'
      <3> DEFINE d == [desk[p] EXCEPT !.loading = TRUE]
      <3>1. /\ d \in DeskType /\ d.busy = desk[p].busy /\ d.saved = desk[p].saved
            /\ d.saves = desk[p].saves /\ d.behind = desk[p].behind
        BY <2>d DEF DeskType
      <3>2. desk' = [desk EXCEPT ![p] = d] /\ UNCHANGED receiving
        BY <2>2 DEF load
      <3>3. payWires' = payWires \cup {Wire(p, "get", 0, 0)}
        BY <2>2 DEF load
      <3>4. payWires' \subseteq WireType /\ \A w \in payWires' : w.kind = "put" => w \in payWires
        BY <2>w, <2>g, <3>3
      <3> HIDE DEF d
      <3> QED
        BY <3>1, <3>2, <3>4, PageChanges
    <2>3. ASSUME NEW p \in PayPages, TypeIn(p)
          PROVE  PayInv'
      <3> DEFINE n == desk[p].entries + 1
                 d == [desk[p] EXCEPT !.typed = n, !.entries = n]
      <3>1. n \in Nat
        BY <2>d DEF DeskType
      <3>2. desk' = [desk EXCEPT ![p] = d] /\ UNCHANGED <<receiving, payWires>>
        BY <2>3 DEF TypeIn
      <3> HIDE DEF n
      <3>3. /\ d \in DeskType /\ d.busy = desk[p].busy /\ d.saved = desk[p].saved
            /\ d.saves = desk[p].saves /\ d.behind = desk[p].behind
        BY <2>d, <3>1 DEF DeskType
      <3> HIDE DEF d
      <3>4. payWires' \subseteq WireType /\ \A w \in payWires' : w.kind = "put" => w \in payWires
        BY <2>w, <3>2
      <3> QED
        BY <3>2, <3>3, <3>4, PageChanges
    <2>4. ASSUME NEW p \in PayPages, savePayout(p)
          PROVE  PayInv'
      <3>1. ~desk[p].busy /\ UNCHANGED receiving
        BY <2>4 DEF savePayout, maySave
      <3>2. PICK n \in Nat : n = desk[p].saves + 1
        BY <2>d DEF DeskType
      <3>3. n > desk[p].saves /\ desk[p].saves \in Nat
        BY <2>d, <3>2 DEF DeskType
      <3>4. PICK new \in WireType :
              /\ payWires' = payWires \cup {new}
              /\ new.kind = "put" /\ new.page = p /\ new.n = n /\ new.state = "sent"
        <4> DEFINE v == Wire(p, "put", desk[p].typed, n)
        <4>1. v \in WireType /\ v.kind = "put" /\ v.page = p /\ v.n = n /\ v.state = "sent"
          BY <1>u, <2>d DEF Wire, WireType, DeskType
        <4>2. payWires' = payWires \cup {v}
          BY <2>4, <3>2 DEF savePayout
        <4> HIDE DEF v
        <4> QED
          BY <4>1, <4>2, Zenon
      <3>5. PICK d \in DeskType :
              /\ desk' = [desk EXCEPT ![p] = d]
              /\ d.busy = TRUE /\ d.saved = 0 /\ d.saves = n /\ d.behind = desk[p].behind
        <4> DEFINE e == [desk[p] EXCEPT !.busy = TRUE, !.saved = 0, !.saves = n]
        <4>1. desk' = [desk EXCEPT ![p] = e]
          BY <2>4, <3>2 DEF savePayout
        <4>2. /\ e \in DeskType /\ e.busy = TRUE /\ e.saved = 0 /\ e.saves = n
              /\ e.behind = desk[p].behind
          BY <2>d DEF DeskType
        <4> HIDE DEF e
        <4> QED
          BY <4>1, <4>2, Zenon
      <3>6. desk'[p] = d /\ \A q \in PayPages \ {p} : desk'[q] = desk[q]
        BY <2>t, <3>5 DEF PayTypeOK
      <3>7. PayTypeOK'
        BY <2>t, <3>1, <3>4, <3>5 DEF PayTypeOK
      <3>8. \A w \in payWires : w.n \in Nat
        BY <2>w DEF WireType
      <3>9. SavesNumbered'
        <4>1. \A w \in payWires : (w.kind = "put" /\ w.page = p) => w.n <= desk[p].saves
          BY DEF PayInv, SavesNumbered
        <4>2. \A w \in payWires : (w.kind = "put" /\ w.page = p) => w.n # n /\ w.n <= n
          BY <3>3, <3>8, <4>1
        <4> QED
          BY <2>w, <3>3, <3>4, <3>5, <3>6, <4>2 DEF PayInv, SavesNumbered
      <3>10. \A q \in PayPages :
               desk'[q].saved # 0 => ~desk'[q].busy /\ Stands(q, desk[q].saved)'
        <4> SUFFICES ASSUME NEW q \in PayPages, desk'[q].saved # 0
                     PROVE  ~desk'[q].busy /\ Stands(q, desk[q].saved)'
          OBVIOUS
        <4>1. q # p
          BY <3>5, <3>6
        <4>2. desk'[q] = desk[q]
          BY <3>6, <4>1
        <4>3. ~desk[q].busy /\ Stands(q, desk[q].saved)
          BY <4>2 DEF PayInv
        <4> QED
          BY <3>1, <4>2, <4>3 DEF Stands
      <3>11. ASSUME NEW w \in payWires, w.kind = "put" PROVE Abandoned(w)' \/ WaitedFor(w)'
        <4>1. CASE w.page = p
          <5>1. Abandoned(w)
            BY <3>1, <3>11, <4>1 DEF PayInv, WaitedFor
          <5> QED
            BY <3>5, <3>6, <4>1, <5>1 DEF Abandoned
        <4>2. CASE w.page # p
          <5>1. desk'[w.page] = desk[w.page]
            BY <2>w, <3>6, <4>2
          <5>2. Abandoned(w) \/ WaitedFor(w)
            BY <3>11 DEF PayInv
          <5> QED
            BY <3>1, <5>1, <5>2 DEF Abandoned, WaitedFor, Stands
        <4> QED
          BY <4>1, <4>2
      <3>12. WaitedFor(new)'
        BY <3>4, <3>5, <3>6 DEF WaitedFor
      <3>13. \A w \in payWires' : w.kind = "put" => Abandoned(w)' \/ WaitedFor(w)'
        BY <3>4, <3>11, <3>12
      <3> QED
        BY <3>7, <3>9, <3>10, <3>13 DEF PayInv
    <2>5. CASE ServeGet
      <3>1. PICK w \in payWires :
              /\ w.kind = "get" /\ w.state = "sent"
              /\ payWires' = (payWires \ {w}) \cup
                   {[w EXCEPT !.state = "done",
                       !.data = IF w.page = "pix" THEN receiving.pix.data ELSE 0,
                       !.status = receiving[w.page].status]}
        BY <2>5 DEF ServeGet
      <3>2. UNCHANGED <<receiving, desk>>
        BY <2>5 DEF ServeGet
      <3> DEFINE n == IF w.page = "pix" THEN receiving.pix.data ELSE 0
                 s == receiving[w.page].status
                 new == [w EXCEPT !.state = "done", !.data = n, !.status = s]
      <3>3. n \in Nat /\ s \in Statuses
        BY <2>t, <2>w DEF PayTypeOK, ReceivingType, PayPages
      <3>4. payWires' = (payWires \ {w}) \cup {new}
        BY <3>1
      <3> HIDE DEF n, s
      <3>5. new \in WireType /\ new.kind = "get"
        BY <2>w, <3>1, <3>3 DEF WireType
      <3> HIDE DEF new
      <3>6. PayTypeOK'
        BY <2>t, <3>2, <3>4, <3>5 DEF PayTypeOK
      <3>7. \A v \in payWires' : v.kind = "put" => v \in payWires
        BY <3>4, <3>5
      <3> QED
        BY <3>2, <3>6, <3>7, PayStep
    <2>6. CASE ServePut
      <3>g. PICK w \in payWires, status \in Statuses :
              /\ w.kind = "put" /\ w.state = "sent"
              /\ w.page = "pix" => status = Unset
              /\ \E data \in {w.data, receiving[w.page].data} :
                   /\ ~status.error => data = w.data
                   /\ receiving' = [receiving EXCEPT ![w.page] =
                                      [data |-> data, status |-> status, by |-> w.n]]
              /\ payWires' = (payWires \ {w}) \cup
                   (IF Abandoned(w) THEN {}
                    ELSE {[w EXCEPT !.state = "done", !.status = status]})
        BY <2>6, Zenon DEF ServePut
      <3>1. PICK data \in {w.data, receiving[w.page].data} :
              /\ w.kind = "put" /\ w.state = "sent"
              /\ w.page = "pix" => status = Unset
              /\ ~status.error => data = w.data
              /\ receiving' = [receiving EXCEPT ![w.page] =
                                 [data |-> data, status |-> status, by |-> w.n]]
              /\ payWires' = (payWires \ {w}) \cup
                   (IF Abandoned(w) THEN {}
                    ELSE {[w EXCEPT !.state = "done", !.status = status]})
        BY <3>g, Zenon
      <3>2. UNCHANGED desk
        BY <2>6 DEF ServePut
      <3>3. w.data \in Nat /\ w.n \in Nat /\ data \in Nat
        BY <2>t, <2>w, <3>1 DEF PayTypeOK, WireType, ReceivingType
      <3> DEFINE served == [data |-> data, status |-> status, by |-> w.n]
      <3>4. /\ served \in ReceivingType /\ served.data = data /\ served.by = w.n
        BY <3>3 DEF ReceivingType
      <3>5. receiving' = [receiving EXCEPT ![w.page] = served]
        BY <3>1
      <3> HIDE DEF served
      <3>6. /\ receiving' \in [PayPages -> ReceivingType]
            /\ receiving'[w.page].data = data /\ receiving'[w.page].by = w.n
            /\ \A q \in PayPages \ {w.page} : receiving'[q] = receiving[q]
        BY <2>t, <2>w, <3>4, <3>5 DEF PayTypeOK
      <3>7. \A v \in payWires : v.page # w.page => Stands(v.page, v.data)' = Stands(v.page, v.data)
        BY <2>w, <3>2, <3>6 DEF Stands
      <3>8. CASE Abandoned(w)
        <4>1. payWires' \subseteq payWires
          BY <3>1, <3>8
        <4>2. \A d : Stands(w.page, d)'
          BY <3>2, <3>6, <3>8 DEF Stands, Abandoned
        <4>3. PayTypeOK'
          BY <2>t, <3>2, <3>6, <4>1 DEF PayTypeOK
        <4>4. SavesNumbered'
          BY <3>2, <4>1 DEF PayInv, SavesNumbered
        <4>5. ASSUME NEW q \in PayPages, desk'[q].saved # 0
              PROVE  ~desk'[q].busy /\ Stands(q, desk[q].saved)'
          <5>1. ~desk[q].busy /\ Stands(q, desk[q].saved)
            BY <3>2, <4>5 DEF PayInv
          <5> QED
            BY <3>2, <3>6, <4>2, <5>1 DEF Stands
        <4>6. ASSUME NEW v \in payWires', v.kind = "put"
              PROVE  Abandoned(v)' \/ WaitedFor(v)'
          <5>1. v \in payWires /\ (Abandoned(v) \/ WaitedFor(v))
            BY <4>1, <4>6 DEF PayInv
          <5>2. Stands(v.page, v.data) => Stands(v.page, v.data)'
            BY <3>7, <4>2, <5>1
          <5> QED
            BY <3>2, <5>1, <5>2 DEF Abandoned, WaitedFor
        <4> QED
          BY <4>3, <4>4, <4>5, <4>6 DEF PayInv
      <3>9. CASE ~Abandoned(w)
        <4>1. PICK new \in WireType :
                /\ payWires' = (payWires \ {w}) \cup {new}
                /\ new.kind = "put" /\ new.page = w.page /\ new.n = w.n
                /\ new.data = w.data /\ new.state = "done" /\ new.status = status
          <5> DEFINE v == [w EXCEPT !.state = "done", !.status = status]
          <5>1. /\ v \in WireType /\ v.kind = "put" /\ v.page = w.page /\ v.n = w.n
                /\ v.data = w.data /\ v.state = "done" /\ v.status = status
            BY <2>w, <3>1 DEF WireType
          <5>2. payWires' = (payWires \ {w}) \cup {v}
            BY <3>1, <3>9
          <5> HIDE DEF v
          <5> QED
            BY <5>1, <5>2, Zenon
        <4>2. WaitedFor(w)
          BY <3>1, <3>9 DEF PayInv
        <4>3. Unset.error = FALSE
          BY DEF Unset
        <4>4. (new.page = "pix" \/ ~new.status.error) => data = w.data
          BY <3>1, <4>1, <4>3
        <4>5. WaitedFor(new)'
          <5>1. data = w.data => Stands(new.page, new.data)'
            BY <3>6, <4>1 DEF Stands
          <5> QED
            BY <3>2, <4>1, <4>2, <4>4, <5>1 DEF WaitedFor
        <4>6. PayTypeOK'
          BY <2>t, <3>2, <3>6, <4>1 DEF PayTypeOK
        <4>7. SavesNumbered'
          BY <3>1, <3>2, <4>1 DEF PayInv, SavesNumbered
        <4>8. ASSUME NEW q \in PayPages, desk'[q].saved # 0
              PROVE  ~desk'[q].busy /\ Stands(q, desk[q].saved)'
          <5>1. ~desk[q].busy /\ Stands(q, desk[q].saved)
            BY <3>2, <4>8 DEF PayInv
          <5>2. q # w.page
            BY <4>2, <5>1 DEF WaitedFor
          <5> QED
            BY <3>2, <3>6, <5>1, <5>2 DEF Stands
        <4>9. ASSUME NEW v \in payWires, v # w, v.kind = "put"
              PROVE  Abandoned(v)' \/ WaitedFor(v)'
          <5>1. Abandoned(v) \/ WaitedFor(v)
            BY <4>9 DEF PayInv
          <5>2. CASE Abandoned(v)
            BY <3>2, <5>2 DEF Abandoned
          <5>3. CASE WaitedFor(v) /\ v.page # w.page
            BY <3>2, <3>7, <5>3 DEF WaitedFor
          <5>4. CASE WaitedFor(v) /\ v.page = w.page
            <6>1. v.n = w.n
              BY <4>2, <5>4 DEF WaitedFor
            <6> QED
              BY <3>1, <4>9, <5>4, <6>1 DEF PayInv, SavesNumbered
          <5> QED
            BY <5>1, <5>2, <5>3, <5>4
        <4>10. \A v \in payWires' : v.kind = "put" => Abandoned(v)' \/ WaitedFor(v)'
          BY <4>1, <4>5, <4>9
        <4> QED
          BY <4>6, <4>7, <4>8, <4>10 DEF PayInv
      <3> QED
        BY <3>8, <3>9
    <2>7. CASE GatewayRules
      <3>1. PICK status \in Statuses : receiving' = [receiving EXCEPT !.account.status = status]
        BY <2>7 DEF GatewayRules
      <3>2. UNCHANGED <<desk, payWires>>
        BY <2>7 DEF GatewayRules
      <3>3. /\ receiving' \in [PayPages -> ReceivingType]
            /\ \A p \in PayPages : /\ receiving'[p].data = receiving[p].data
                                   /\ receiving'[p].by = receiving[p].by
        <4> DEFINE r == [receiving["account"] EXCEPT !.status = status]
        <4>1. receiving["account"] \in ReceivingType
          BY <2>t DEF PayTypeOK, PayPages
        <4>2. /\ r \in ReceivingType /\ r.data = receiving["account"].data
              /\ r.by = receiving["account"].by
          BY <4>1 DEF ReceivingType
        <4>3. receiving' = [receiving EXCEPT !["account"] = r]
          BY <3>1
        <4> HIDE DEF r
        <4> QED
          BY <2>t, <4>2, <4>3 DEF PayTypeOK
      <3>4. PayTypeOK'
        BY <2>t, <3>2, <3>3 DEF PayTypeOK
      <3> QED
        BY <3>2, <3>3, <3>4, PayStep
    <2>8. CASE GetAnswered
      <3>1. PICK w \in payWires :
              /\ w.kind = "get"
              /\ desk' \in {[desk EXCEPT ![w.page] = Received(w.page, w)],
                            [desk EXCEPT ![w.page].loading = FALSE]}
              /\ payWires' = payWires \ {w}
        BY <2>8 DEF GetAnswered
      <3>2. UNCHANGED receiving
        BY <2>8 DEF GetAnswered
      <3>3. PICK d \in DeskType :
              /\ desk' = [desk EXCEPT ![w.page] = d]
              /\ d.busy = desk[w.page].busy /\ d.saved = desk[w.page].saved
              /\ d.saves = desk[w.page].saves /\ d.behind = desk[w.page].behind
        <4> DEFINE q == w.page
        <4>1. q \in PayPages /\ w.data \in Nat /\ w.status \in Statuses
          BY <2>w DEF WireType
        <4>2. w.status.review \in BOOLEAN
          BY <4>1 DEF Statuses
        <4>3. desk[q] \in DeskType
          BY <2>d, <4>1
        <4>4. CASE desk' = [desk EXCEPT ![q] = Received(q, w)]
          <5> DEFINE e == Received(q, w)
          <5>1. /\ e \in DeskType /\ e.busy = desk[q].busy /\ e.saved = desk[q].saved
                /\ e.saves = desk[q].saves /\ e.behind = desk[q].behind
            BY <4>1, <4>2, <4>3 DEF Received, DeskType
          <5>2. desk' = [desk EXCEPT ![q] = e]
            BY <4>4
          <5> HIDE DEF e
          <5> QED
            BY <5>1, <5>2, Zenon
        <4>5. CASE desk' = [desk EXCEPT ![q].loading = FALSE]
          <5> DEFINE e == [desk[q] EXCEPT !.loading = FALSE]
          <5>1. /\ e \in DeskType /\ e.busy = desk[q].busy /\ e.saved = desk[q].saved
                /\ e.saves = desk[q].saves /\ e.behind = desk[q].behind
            BY <4>3 DEF DeskType
          <5>2. desk' = [desk EXCEPT ![q] = e]
            BY <4>5
          <5> HIDE DEF e
          <5> QED
            BY <5>1, <5>2, Zenon
        <4> QED
          BY <3>1, <4>4, <4>5
      <3>4. payWires' \subseteq WireType /\ \A v \in payWires' : v.kind = "put" => v \in payWires
        BY <2>w, <3>1
      <3>5. w.page \in PayPages
        BY <2>w
      <3> QED
        BY <3>2, <3>3, <3>4, <3>5, PageChanges
    <2>9. CASE PutAnswered
      <3>1. PICK w \in payWires :
              /\ w.kind = "put" /\ w.state = "done" /\ ~Abandoned(w)
              /\ desk' = [desk EXCEPT ![w.page] = Stored(w.page, w)]
              /\ payWires' = payWires \ {w}
        BY <2>9 DEF PutAnswered
      <3>2. UNCHANGED receiving
        BY <2>9 DEF PutAnswered
      <3>3. w.page \in PayPages /\ w.data \in Nat /\ w.status \in Statuses
        BY <2>w DEF WireType
      <3>4. WaitedFor(w)
        BY <3>1 DEF PayInv
      <3>5. PICK d \in DeskType :
              /\ desk' = [desk EXCEPT ![w.page] = d]
              /\ d.busy = FALSE /\ d.saves = desk[w.page].saves
              /\ d.behind = desk[w.page].behind
              /\ d.saved = IF w.page = "pix" \/ ~w.status.error THEN w.data
                           ELSE desk[w.page].saved
        <4> DEFINE q == w.page  e == Stored(q, w)
        <4>1. desk[q] \in DeskType /\ w.status.review \in BOOLEAN /\ w.status.error \in BOOLEAN
          BY <2>d, <3>3 DEF Statuses
        <4>2. /\ e \in DeskType /\ e.busy = FALSE /\ e.saves = desk[q].saves
              /\ e.behind = desk[q].behind
              /\ e.saved = IF q = "pix" \/ ~w.status.error THEN w.data ELSE desk[q].saved
          BY <3>3, <4>1 DEF Stored, DeskType
        <4>3. desk' = [desk EXCEPT ![q] = e]
          BY <3>1
        <4> HIDE DEF e
        <4> QED
          BY <4>2, <4>3, Zenon
      <3>6. desk'[w.page] = d /\ \A q \in PayPages \ {w.page} : desk'[q] = desk[q]
        BY <2>t, <3>3, <3>5 DEF PayTypeOK
      <3>7. PayTypeOK'
        BY <2>t, <3>1, <3>2, <3>5 DEF PayTypeOK
      <3>8. SavesNumbered'
        BY <2>w, <3>1, <3>5, <3>6 DEF PayInv, SavesNumbered
      <3>9. ASSUME NEW q \in PayPages, desk'[q].saved # 0
            PROVE  ~desk'[q].busy /\ (receiving'[q].data = desk'[q].saved
                                      \/ receiving'[q].by \in desk'[q].behind)
        <4>1. CASE q = w.page
          <5>1. d.saved = w.data /\ Stands(q, w.data)
            BY <3>1, <3>4, <3>5, <3>6, <3>9, <4>1 DEF WaitedFor
          <5> QED
            BY <3>2, <3>5, <3>6, <4>1, <5>1 DEF Stands
        <4>2. CASE q # w.page
          <5>1. desk'[q] = desk[q]
            BY <3>6, <4>2
          <5>2. ~desk[q].busy /\ Stands(q, desk[q].saved)
            BY <3>9, <5>1 DEF PayInv
          <5> QED
            BY <3>2, <5>1, <5>2 DEF Stands
        <4> QED
          BY <4>1, <4>2
      <3>10. ASSUME NEW v \in payWires', v.kind = "put"
             PROVE  Abandoned(v)' \/ WaitedFor(v)'
        <4>1. v \in payWires /\ v # w /\ v.page \in PayPages
          BY <2>w, <3>1
        <4>2. Abandoned(v) \/ WaitedFor(v)
          BY <3>10, <4>1 DEF PayInv
        <4>3. CASE Abandoned(v)
          BY <3>5, <3>6, <4>1, <4>3 DEF Abandoned
        <4>4. CASE WaitedFor(v) /\ v.page # w.page
          BY <3>2, <3>6, <4>1, <4>4 DEF WaitedFor, Stands
        <4>5. CASE WaitedFor(v) /\ v.page = w.page
          <5>1. v.n = w.n
            BY <3>4, <4>5 DEF WaitedFor
          <5> QED
            BY <3>1, <3>10, <4>1, <4>5, <5>1 DEF PayInv, SavesNumbered
        <4> QED
          BY <4>2, <4>3, <4>4, <4>5
      <3>11. \A q \in PayPages : desk'[q].saved # 0 => ~desk'[q].busy /\ Stands(q, desk[q].saved)'
        BY <3>9 DEF Stands
      <3> QED
        BY <3>7, <3>8, <3>10, <3>11 DEF PayInv
    <2>10. CASE PutFails
      <3>1. PICK w \in payWires :
              /\ w.kind = "put" /\ ~Abandoned(w)
              /\ desk' = [desk EXCEPT ![w.page].busy = FALSE, ![w.page].behind = @ \cup {w.n}]
              /\ payWires' = IF w.state = "done" THEN payWires \ {w} ELSE payWires
        BY <2>10 DEF PutFails
      <3>2. UNCHANGED receiving /\ payWires' \subseteq payWires
        BY <2>10, <3>1 DEF PutFails
      <3>3. w.page \in PayPages /\ w.n \in Nat /\ w.n = desk[w.page].saves
        BY <2>w, <3>1 DEF WireType, PayInv, WaitedFor
      <3>4. PICK d \in DeskType :
              /\ desk' = [desk EXCEPT ![w.page] = d]
              /\ d.busy = FALSE /\ d.saved = desk[w.page].saved
              /\ d.saves = desk[w.page].saves /\ d.behind = desk[w.page].behind \cup {w.n}
        <4> DEFINE q == w.page  b == desk[q].behind \cup {w.n}
                   e == [desk[q] EXCEPT !.busy = FALSE, !.behind = b]
        <4>1. b \in SUBSET Nat /\ desk[q] \in DeskType
          BY <2>d, <3>3 DEF DeskType
        <4>2. desk' = [desk EXCEPT ![q] = e]
          BY <2>t, <3>1 DEF PayTypeOK
        <4>3. b = desk[q].behind \cup {w.n}
          OBVIOUS
        <4> HIDE DEF b
        <4>4. /\ e \in DeskType /\ e.busy = FALSE /\ e.saved = desk[q].saved
              /\ e.saves = desk[q].saves /\ e.behind = b
          BY <4>1 DEF DeskType
        <4> HIDE DEF e
        <4> QED
          BY <4>2, <4>3, <4>4, Zenon
      <3>5. desk'[w.page] = d /\ \A q \in PayPages \ {w.page} : desk'[q] = desk[q]
        BY <2>t, <3>3, <3>4 DEF PayTypeOK
      <3>6. PayTypeOK'
        BY <2>t, <3>2, <3>4 DEF PayTypeOK
      <3>7. \A q \in PayPages :
              /\ desk'[q].saved = desk[q].saved /\ desk'[q].saves = desk[q].saves
              /\ desk[q].behind \subseteq desk'[q].behind
              /\ desk'[q].busy => desk[q].busy
        BY <3>4, <3>5
      <3>8. ASSUME NEW v \in payWires', v.kind = "put", v.n \notin desk'[v.page].behind
            PROVE  desk'[v.page].busy = desk[v.page].busy
        <4>1. v.page # w.page
          <5> SUFFICES ASSUME v.page = w.page PROVE FALSE
            OBVIOUS
          <5>1. v \in payWires /\ ~Abandoned(v)
            BY <3>2, <3>4, <3>5, <3>8 DEF Abandoned
          <5>2. v.n = desk[w.page].saves
            BY <3>8, <5>1 DEF PayInv, WaitedFor
          <5> QED
            BY <3>3, <3>4, <3>5, <3>8, <5>2
        <4> QED
          BY <2>w, <3>2, <3>5, <4>1
      <3> QED
        BY <3>2, <3>6, <3>7, <3>8, PayStep
    <2>11. CASE PutLost
      <3>1. payWires' \subseteq payWires /\ UNCHANGED <<receiving, desk>>
        BY <2>11 DEF PutLost
      <3>2. PayTypeOK'
        BY <2>t, <3>1 DEF PayTypeOK
      <3> QED
        BY <3>1, <3>2, PayStep
    <2>12. CASE UNCHANGED payVars
      <3>1. UNCHANGED <<receiving, desk, payWires>>
        BY <2>12 DEF payVars
      <3>2. PayTypeOK'
        BY <2>t, <3>1 DEF PayTypeOK
      <3> QED
        BY <3>1, <3>2, PayStep
    <2> QED
      BY <2>1, <2>2, <2>3, <2>4, <2>5, <2>6, <2>7, <2>8, <2>9, <2>10, <2>11, <2>12
      DEF PayNext
  <1>3. PayInv => SavedIsKept
    BY DEF PayInv, SavedIsKept, Stands
  <1>4. [(PanelNext /\ UNCHANGED payVars) \/ (PayNext /\ UNCHANGED panelVars)]_
          <<panelVars, payVars>> => PayNext \/ UNCHANGED payVars
    OBVIOUS
  <1> QED
    BY <1>1, <1>2, <1>3, <1>4, PTL DEF ProviderDeskSpec

-----------------------------------------------------------------------------
(* Search: where the user is.                                              *)

LocatingType == [newest : Nat, loading : BOOLEAN, addresses : BOOLEAN]

\* The request for a position that still counts was made by the newest choice:
\* its answer is about a move no older than the one that said where the user is.
PlaceInv ==
    /\ moves \in Nat
    /\ place.move \in Nat /\ place.move <= moves
    /\ locating \in LocatingType
    /\ locating.addresses => place.move = 0 /\ positions = {}
    /\ \A r \in positions :
         /\ r.id \in Nat /\ r.id <= locating.newest
         /\ r.move \in Nat /\ r.move <= moves
         /\ r.id = locating.newest => r.move >= place.move
    /\ \A r, s \in positions : r.id = s.id => r = s

LEMMA RequestOutdates ==
  ASSUME locating \in LocatingType, NEW n \in Nat, NEW b \in BOOLEAN,
         locating' = [locating EXCEPT !.newest = n, !.loading = b]
  PROVE  /\ locating' \in LocatingType /\ locating'.newest = n
         /\ locating'.addresses = locating.addresses
  BY DEF LocatingType

LEMMA AddressesFail ==
  ASSUME locating \in LocatingType, NEW n \in Nat,
         locating' = [locating EXCEPT !.addresses = FALSE, !.newest = n, !.loading = TRUE]
  PROVE  locating' \in LocatingType /\ locating'.newest = n /\ ~locating'.addresses
  BY DEF LocatingType

\* A new wish for the browser's position, which outdates the ones before it.
LEMMA LocationIsRequested ==
  ASSUME PlaceInv, NEW new, new.id = locating.newest + 1, new.move = moves',
         positions' = positions \cup {new}, moves' \in {moves, moves + 1},
         UNCHANGED place, ~locating'.addresses, locating' \in LocatingType,
         locating'.newest = locating.newest + 1
  PROVE  PlaceInv'
  BY DEF PlaceInv, LocatingType

\* Nothing happens to where the user is.
LEMMA PlaceStays ==
  ASSUME PlaceInv, UNCHANGED <<place, positions, locating>>, moves' \in {moves, moves + 1}
  PROVE  PlaceInv' /\ place'.move >= place.move
  BY DEF PlaceInv, LocatingType

LEMMA PlaceStep ==
  ASSUME PlaceInv, SearchNext \/ UNCHANGED searchVars
  PROVE  PlaceInv' /\ place'.move >= place.move
  <1>1. CASE resolveUserLocation
    <2>0. /\ locating.addresses /\ UNCHANGED moves
          /\ place.move = 0 /\ positions = {} /\ locating \in LocatingType /\ moves \in Nat
      BY <1>1 DEF resolveUserLocation, PlaceInv
    <2>1. CASE /\ \E a \in Addresses : place' = [at |-> a, move |-> 0]
               /\ locating' = [locating EXCEPT !.addresses = FALSE]
               /\ UNCHANGED positions
      <3>1. place'.move = 0 /\ positions' = {}
        BY <2>0, <2>1
      <3>2. locating' \in LocatingType /\ locating'.addresses = FALSE
        BY <2>0, <2>1 DEF LocatingType
      <3> QED
        BY <2>0, <3>1, <3>2 DEF PlaceInv
    <2>2. CASE /\ locating' = [locating EXCEPT !.addresses = FALSE, !.newest = @ + 1,
                                               !.loading = TRUE]
               /\ positions' = positions \cup
                    {[id |-> locating.newest + 1, move |-> moves, forSearch |-> FALSE]}
               /\ UNCHANGED place
      <3> DEFINE new == [id |-> locating.newest + 1, move |-> moves, forSearch |-> FALSE]
                 n == locating.newest + 1
      <3>1. locating' = [locating EXCEPT !.addresses = FALSE, !.newest = n, !.loading = TRUE]
        BY <2>2
      <3>2. n \in Nat
        BY <2>0 DEF LocatingType
      <3>3. new.id = n /\ new.move = moves /\ positions' = positions \cup {new}
        BY <2>2
      <3>n. n = locating.newest + 1
        OBVIOUS
      <3> HIDE DEF new, n
      <3>4. locating' \in LocatingType /\ locating'.newest = n /\ ~locating'.addresses
        BY <2>0, <3>1, <3>2, AddressesFail
      <3> QED
        BY <2>0, <2>2, <3>3, <3>n, <3>4, LocationIsRequested
    <2> QED
      BY <1>1, <2>1, <2>2 DEF resolveUserLocation
  <1>2. CASE selectAddress
    <2>1. /\ moves' = moves + 1 /\ ~locating.addresses /\ UNCHANGED positions
          /\ place'.move = moves + 1 /\ locating' = outdateRequests
      BY <1>2 DEF selectAddress, Moves
    <2>2. /\ locating' \in LocatingType /\ locating'.addresses = locating.addresses
          /\ locating'.newest = locating.newest + 1
      <3> DEFINE n == locating.newest + 1
      <3>1. locating' = [locating EXCEPT !.newest = n, !.loading = FALSE]
        BY <2>1 DEF outdateRequests
      <3>2. n \in Nat /\ locating \in LocatingType
        BY DEF PlaceInv, LocatingType
      <3> HIDE DEF n
      <3>3. /\ locating' \in LocatingType /\ locating'.addresses = locating.addresses
            /\ locating'.newest = n
        BY <3>1, <3>2, RequestOutdates
      <3> QED
        BY <3>3 DEF n
    <2> QED
      BY <2>1, <2>2 DEF PlaceInv, LocatingType
  <1>3. CASE searchNearMe
    <2>1. /\ moves' = moves + 1 /\ ~locating.addresses /\ UNCHANGED place
          /\ locating' = [locating EXCEPT !.newest = @ + 1, !.loading = TRUE]
          /\ positions' = positions \cup
               {[id |-> locating.newest + 1, move |-> moves', forSearch |-> TRUE]}
      BY <1>3 DEF searchNearMe, Moves, requestCurrentLocation
    <2>2. /\ locating' \in LocatingType /\ ~locating'.addresses
          /\ locating'.newest = locating.newest + 1
      <3> DEFINE n == locating.newest + 1
      <3>1. locating' = [locating EXCEPT !.newest = n, !.loading = TRUE]
        BY <2>1
      <3>2. n \in Nat /\ locating \in LocatingType
        BY DEF PlaceInv, LocatingType
      <3> HIDE DEF n
      <3>3. /\ locating' \in LocatingType /\ locating'.addresses = locating.addresses
            /\ locating'.newest = n
        BY <3>1, <3>2, RequestOutdates
      <3> QED
        BY <2>1, <3>3 DEF n
    <2>3. PlaceInv'
      <3> DEFINE new == [id |-> locating.newest + 1, move |-> moves', forSearch |-> TRUE]
      <3>1. new.id = locating.newest + 1 /\ new.move = moves'
            /\ positions' = positions \cup {new}
        BY <2>1
      <3> HIDE DEF new
      <3> QED
        BY <2>1, <2>2, <3>1, LocationIsRequested
    <2> QED
      BY <2>1, <2>3 DEF PlaceInv
  <1>4. CASE PositionArrives
    <2>1. PICK r \in positions :
            /\ positions' = positions \ {r} /\ UNCHANGED moves
            /\ locating' = [locating EXCEPT !.loading = @ /\ r.id # locating.newest]
            /\ \/ r.id = locating.newest /\ place' = [at |-> "here", move |-> r.move]
               \/ UNCHANGED place
      BY <1>4 DEF PositionArrives
    <2>2. PICK b \in BOOLEAN : locating' = [locating EXCEPT !.loading = b]
      BY <2>1, Zenon
    <2>3. /\ locating' \in LocatingType /\ locating'.addresses = locating.addresses
          /\ locating'.newest = locating.newest
      BY <2>2 DEF PlaceInv, LocatingType
    <2>4. ~locating.addresses
      BY DEF PlaceInv
    <2>5. CASE r.id = locating.newest /\ place' = [at |-> "here", move |-> r.move]
      <3>1. place'.move = r.move
        BY <2>5
      <3> QED
        BY <2>1, <2>3, <2>4, <2>5, <3>1 DEF PlaceInv, LocatingType
    <2>6. CASE UNCHANGED place
      BY <2>1, <2>3, <2>4, <2>6 DEF PlaceInv, LocatingType
    <2> QED
      BY <2>1, <2>5, <2>6
  <1>5. CASE updateCategory \/ updateLimit \/ applyFilters \/ clearFilters
             \/ toggleOnlyFavorites \/ RetryPressed
    <2>1. UNCHANGED <<place, positions, locating>> /\ moves' = moves + 1
      BY <1>5 DEF updateCategory, updateLimit, applyFilters, clearFilters,
         toggleOnlyFavorites, RetryPressed, Moves
    <2> QED
      BY <2>1, PlaceStays
  <1>6. CASE ngAfterViewInit \/ ngDoCheck \/ SearchAnswered \/ loadFavorites
             \/ createMap \/ ngOnDestroy \/ UNCHANGED searchVars
    <2>1. UNCHANGED <<place, positions, locating, moves>>
      BY <1>6 DEF ngAfterViewInit, ngDoCheck, SearchAnswered, loadFavorites, createMap,
         ngOnDestroy, searchVars
    <2> QED
      BY <2>1, PlaceStays
  <1> QED
    BY <1>1, <1>2, <1>3, <1>4, <1>5, <1>6 DEF SearchNext

\* A position that the browser finds late never undoes an address chosen
\* meanwhile (search, location-selection, user-location).
THEOREM NewestChoiceStays == SearchSpec => NewestChoiceWins
  <1>1. SearchInit => PlaceInv
    <2> SUFFICES ASSUME SearchInit PROVE PlaceInv
      OBVIOUS
    <2>1. /\ place = Nowhere /\ moves = 0 /\ client \in BOOLEAN
          /\ positions = IF client THEN {}
                         ELSE {[id |-> 1, move |-> 0, forSearch |-> FALSE]}
      BY DEF SearchInit
    <2>2. /\ locating \in LocatingType /\ locating.newest = IF client THEN 0 ELSE 1
          /\ locating.addresses = client
      BY DEF SearchInit, LocatingType
    <2>3. place.move = 0
      BY <2>1 DEF Nowhere
    <2>4. CASE client
      BY <2>1, <2>2, <2>3, <2>4 DEF PlaceInv
    <2>5. CASE ~client
      <3> DEFINE first == [id |-> 1, move |-> 0, forSearch |-> FALSE]
      <3>1. positions = {first} /\ first.id = 1 /\ first.move = 0
        BY <2>1, <2>5
      <3> HIDE DEF first
      <3>2. locating.newest = 1 /\ ~locating.addresses
        BY <2>2, <2>5
      <3> QED
        BY <2>1, <2>2, <2>3, <3>1, <3>2 DEF PlaceInv
    <2> QED
      BY <2>1, <2>4, <2>5
  <1>2. PlaceInv /\ [SearchNext]_searchVars => PlaceInv'
    BY PlaceStep
  <1>3. PlaceInv /\ [SearchNext]_searchVars => [place'.move >= place.move]_searchVars
    BY PlaceStep
  <1> QED
    BY <1>1, <1>2, <1>3, PTL DEF SearchSpec, NewestChoiceWins

-----------------------------------------------------------------------------
(* Search: the list and the map.                                           *)

MapFields == {"view", "state", "awaited", "ready", "seen", "drawn", "gone"}

\* A map that is shown has drawn what it was last told of; before the page is
\* there, and once it is left, there is none.
MapInv ==
    /\ DOMAIN map = MapFields
    /\ map.ready => map.state = "made" /\ map.drawn = map.seen
    /\ map.gone => map.state # "made" /\ ~map.ready
    /\ ~map.view => map.state = "none"

LEMMA MapStep ==
  ASSUME MapInv, SearchNext \/ UNCHANGED searchVars
  PROVE  MapInv'
  <1>1. CASE ngAfterViewInit
    <2>1. /\ ~map.view /\ ~map.gone /\ map' = syncMap([map EXCEPT !.view = TRUE])
      BY <1>1 DEF ngAfterViewInit
    <2> DEFINE m == [map EXCEPT !.view = TRUE]
    <2>2. /\ DOMAIN m = MapFields /\ m.view = TRUE /\ m.state = "none" /\ ~m.ready /\ ~m.gone
      BY <2>1 DEF MapInv, MapFields
    <2>3. map' = syncMap(m)
      BY <2>1
    <2> HIDE DEF m
    <2> QED
      BY <2>2, <2>3 DEF syncMap, MapInv, MapFields
  <1>2. CASE ngDoCheck
    <2>1. /\ map.view /\ ~map.gone
          /\ map' = syncMap([map EXCEPT !.seen = mapProviders])
      BY <1>2 DEF ngDoCheck, getInputSignature
    <2> DEFINE m == [map EXCEPT !.seen = mapProviders]
    <2>2. /\ DOMAIN m = MapFields /\ m.view = map.view /\ m.state = map.state
          /\ m.ready = map.ready /\ m.gone = map.gone /\ m.seen = mapProviders
      BY <2>1 DEF MapInv, MapFields
    <2>3. map' = syncMap(m)
      BY <2>1
    <2> HIDE DEF m
    <2> QED
      BY <2>1, <2>2, <2>3 DEF syncMap, MapInv, MapFields
  <1>3. CASE Checked /\ createMap
    <2>1. ~map.gone => map.seen = mapProviders
      BY <1>3 DEF Checked, getInputSignature
    <2>2. /\ map.state = "loading"
          /\ \/ /\ ~map.gone
                /\ map' = [map EXCEPT !.state = "made", !.ready = TRUE, !.awaited = FALSE,
                                      !.drawn = mapProviders]
             \/ map.gone /\ map' = [map EXCEPT !.state = "none", !.awaited = FALSE]
             \/ map' = [map EXCEPT !.state = "failed", !.ready = FALSE, !.awaited = FALSE]
      BY <1>3 DEF createMap
    <2> QED
      BY <2>1, <2>2 DEF MapInv, MapFields
  <1>4. CASE ngOnDestroy
    <2>1. map' = [map EXCEPT !.gone = TRUE, !.ready = FALSE, !.drawn = NoneFound,
                             !.state = IF @ = "made" THEN "none" ELSE @]
      BY <1>4 DEF ngOnDestroy
    <2> QED
      BY <2>1 DEF MapInv, MapFields
  <1>5. CASE UNCHANGED map
    BY <1>5 DEF MapInv
  <1> QED
    BY <1>1, <1>2, <1>3, <1>4, <1>5 DEF SearchNext, searchVars, resolveUserLocation,
       selectAddress, searchNearMe, PositionArrives, updateCategory, updateLimit,
       applyFilters, clearFilters, toggleOnlyFavorites, RetryPressed, SearchAnswered,
       loadFavorites

-----------------------------------------------------------------------------
ListFields == {"question", "found", "failed", "answered"}

UrlFields == {"category", "region", "favorites", "limits"}

PageFields == {"category", "region", "limits", "favorites"}

\* The page shows the category and the region of the address bar, and what is
\* waited for, or was answered last, is the question they ask.
ListInv ==
    /\ DOMAIN url = UrlFields /\ DOMAIN page = PageFields /\ DOMAIN list = ListFields
    /\ page.region = url.region
    /\ page.category = IF url.category = "absent" THEN "" ELSE url.category
    /\ \A q \in asked : /\ q.category = page.category
                        /\ q.origin = searchOrigin(page, place.at)
    /\ ListAnswersThePage

\* A new search, from wherever the user is by then.
LEMMA SearchIsNew ==
  ASSUME ListInv, NEW u, DOMAIN u = UrlFields, url' = u, NEW preference,
         Search(u, preference, place'.at)
  PROVE  ListInv'
  <1>1. /\ page' = Shown(u, preference)
        /\ asked' = {Question(page', place'.at)}
        /\ list' = [list EXCEPT !.failed = FALSE]
    BY DEF Search, switchMap
  <1>2. /\ DOMAIN page' = PageFields /\ page'.region = u.region
        /\ page'.category = IF u.category = "absent" THEN "" ELSE u.category
    BY <1>1 DEF Shown, PageFields
  <1>3. DOMAIN list' = ListFields
    BY <1>1 DEF ListInv, ListFields
  <1>4. \A q \in asked' : q.category = page'.category /\ q.origin = searchOrigin(page', place'.at)
    BY <1>1 DEF Question
  <1>5. ListAnswersThePage'
    BY <1>1 DEF ListAnswersThePage
  <1> QED
    BY <1>2, <1>3, <1>4, <1>5 DEF ListInv, searchOrigin

\* Filters change: either the address does, and a new search starts, or the page
\* shows them and asks as before.
LEMMA FiltersChange ==
  ASSUME ListInv, NEW u, DOMAIN u = UrlFields, NEW preference, NEW p,
         updateFilters(u, preference, p, place'.at),
         u = url => /\ DOMAIN p = PageFields /\ p.category = page.category
                    /\ p.region = page.region /\ UNCHANGED place
  PROVE  ListInv'
  <1>1. CASE u = url
    <2>1. page' = p /\ UNCHANGED <<url, asked, list, place>>
      BY <1>1 DEF updateFilters
    <2> QED
      BY <1>1, <2>1 DEF ListInv, ListAnswersThePage, searchOrigin
  <1>2. CASE u # url
    BY <1>2, SearchIsNew DEF updateFilters
  <1> QED
    BY <1>1, <1>2

LEMMA ListStep ==
  ASSUME ListInv, SearchNext \/ UNCHANGED searchVars
  PROVE  ListInv'
  <1>d. DOMAIN url = UrlFields /\ DOMAIN page = PageFields /\ DOMAIN list = ListFields
    BY DEF ListInv
  <1>1. CASE resolveUserLocation
    <2>1. CASE \E a \in Addresses : place' = [at |-> a, move |-> 0] /\ retrySearch(a)
      BY <1>d, <2>1, SearchIsNew DEF retrySearch
    <2>2. CASE UNCHANGED <<place, url, page, asked, list>>
      BY <2>2 DEF ListInv, ListAnswersThePage, searchOrigin
    <2> QED
      BY <1>1, <2>1, <2>2 DEF resolveUserLocation
  <1>2. CASE selectAddress
    <2>1. PICK a \in Addresses :
            /\ place' = [at |-> a, move |-> moves']
            /\ IF page.region # "none"
               THEN updateFilters([url EXCEPT !.region = "none"], stored, page, a)
               ELSE retrySearch(a)
      BY <1>2 DEF selectAddress
    <2>2. CASE page.region = "none"
      BY <1>d, <2>1, <2>2, SearchIsNew DEF retrySearch
    <2>3. CASE page.region # "none"
      <3> DEFINE u == [url EXCEPT !.region = "none"]
      <3>1. DOMAIN u = UrlFields /\ u # url
        BY <1>d, <2>3 DEF ListInv, UrlFields
      <3>2. updateFilters(u, stored, page, place'.at)
        BY <2>1, <2>3
      <3> HIDE DEF u
      <3> QED
        BY <3>1, <3>2, FiltersChange
    <2> QED
      BY <2>2, <2>3
  <1>3. CASE PositionArrives
    <2>1. CASE UNCHANGED <<place, url, page, asked, list>>
      BY <2>1 DEF ListInv, ListAnswersThePage, searchOrigin
    <2>2. CASE /\ place'.at = "here"
               /\ page.region # "none"
               /\ updateFilters([url EXCEPT !.region = "none"], stored, page, "here")
      <3> DEFINE u == [url EXCEPT !.region = "none"]
      <3>1. DOMAIN u = UrlFields /\ u # url
        BY <1>d, <2>2 DEF ListInv, UrlFields
      <3>2. updateFilters(u, stored, page, place'.at)
        BY <2>2
      <3> HIDE DEF u
      <3> QED
        BY <3>1, <3>2, FiltersChange
    <2>3. CASE place'.at = "here" /\ retrySearch("here")
      BY <1>d, <2>3, SearchIsNew DEF retrySearch
    <2> QED
      BY <1>3, <2>1, <2>2, <2>3 DEF PositionArrives
  <1>4. CASE updateCategory
    <2> DEFINE u == [url EXCEPT !.category = IF page.category = "a" THEN "absent" ELSE "a"]
    <2>1. updateFilters(u, stored, page, place'.at) /\ UNCHANGED place
      BY <1>4 DEF updateCategory
    <2>2. DOMAIN u = UrlFields
      BY <1>d
    <2> HIDE DEF u
    <2> QED
      BY <1>d, <2>1, <2>2, FiltersChange
  <1>5. CASE updateLimit
    <2>1. PICK limits :
            updateFilters([url EXCEPT !.limits = limits], stored,
                          [page EXCEPT !.limits = limits], place.at)
      BY <1>5 DEF updateLimit
    <2> DEFINE u == [url EXCEPT !.limits = limits]
               p == [page EXCEPT !.limits = limits]
    <2>2. updateFilters(u, stored, p, place'.at) /\ UNCHANGED place
      BY <1>5, <2>1 DEF updateLimit
    <2>3. DOMAIN u = UrlFields
      BY <1>d
    <2>4. DOMAIN p = PageFields /\ p.category = page.category /\ p.region = page.region
      BY <1>d DEF PageFields
    <2> HIDE DEF u, p
    <2> QED
      BY <2>2, <2>3, <2>4, FiltersChange
  <1>6. CASE applyFilters
    <2> DEFINE u == [url EXCEPT !.limits = page.limits,
                        !.favorites = IF page.favorites THEN "true" ELSE "absent"]
    <2>1. updateFilters(u, stored, page, place'.at) /\ UNCHANGED place
      BY <1>6 DEF applyFilters
    <2>2. DOMAIN u = UrlFields
      BY <1>d
    <2> HIDE DEF u
    <2> QED
      BY <1>d, <2>1, <2>2, FiltersChange
  <1>7. CASE clearFilters
    <2> DEFINE u == [url EXCEPT !.category = "absent", !.limits = {}, !.favorites = "absent"]
               p == [page EXCEPT !.category = "", !.limits = {}, !.favorites = FALSE]
    <2>1. PICK preference :
            updateFilters(u, preference, p, place'.at) /\ UNCHANGED place
      BY <1>7 DEF clearFilters
    <2>2. DOMAIN u = UrlFields /\ u.category = "absent"
      BY <1>d DEF UrlFields
    <2>3. DOMAIN p = PageFields /\ p.category = "" /\ p.region = page.region
      BY <1>d DEF PageFields
    <2> HIDE DEF u, p
    <2>4. u = url => p.category = page.category
      BY <2>2, <2>3 DEF ListInv
    <2> QED
      BY <2>1, <2>2, <2>3, <2>4, FiltersChange
  <1>8. CASE toggleOnlyFavorites
    <2>1. PICK wanted, preference :
            updateFilters([url EXCEPT !.category = page.category,
                             !.favorites = IF wanted THEN "true" ELSE "absent"],
                          preference, [page EXCEPT !.favorites = wanted], place.at)
      BY <1>8 DEF toggleOnlyFavorites
    <2> DEFINE u == [url EXCEPT !.category = page.category,
                             !.favorites = IF wanted THEN "true" ELSE "absent"]
               p == [page EXCEPT !.favorites = wanted]
    <2>2. updateFilters(u, preference, p, place'.at) /\ UNCHANGED place
      BY <1>8, <2>1 DEF toggleOnlyFavorites
    <2>3. DOMAIN u = UrlFields
      BY <1>d
    <2>4. DOMAIN p = PageFields /\ p.category = page.category /\ p.region = page.region
      BY <1>d DEF PageFields
    <2> HIDE DEF u, p
    <2> QED
      BY <2>2, <2>3, <2>4, FiltersChange
  <1>9. CASE RetryPressed
    BY <1>d, <1>9, SearchIsNew DEF RetryPressed, retrySearch
  <1>10. CASE SearchAnswered
    <2>1. PICK q \in asked :
            /\ asked' = asked \ {q}
            /\ \E found, failed :
                 list' = [question |-> q, found |-> found, failed |-> failed,
                          answered |-> TRUE]
      BY <1>10 DEF SearchAnswered
    <2>2. UNCHANGED <<url, page, place>>
      BY <1>10 DEF SearchAnswered
    <2>3. DOMAIN list' = ListFields /\ list'.question = q
      BY <2>1 DEF ListFields
    <2> QED
      BY <2>1, <2>2, <2>3 DEF ListInv, ListAnswersThePage, searchOrigin
  <1>11. CASE searchNearMe \/ ngAfterViewInit \/ ngDoCheck \/ loadFavorites \/ createMap
              \/ ngOnDestroy \/ UNCHANGED searchVars
    <2>1. UNCHANGED <<place, url, page, asked, list>>
      BY <1>11 DEF searchNearMe, ngAfterViewInit, ngDoCheck, loadFavorites, createMap,
         ngOnDestroy, searchVars
    <2> QED
      BY <2>1 DEF ListInv, ListAnswersThePage, searchOrigin
  <1> QED
    BY <1>1, <1>2, <1>3, <1>4, <1>5, <1>6, <1>7, <1>8, <1>9, <1>10, <1>11 DEF SearchNext

\* However clicks and answers cross: when nothing is awaited, list and map show
\* what the page asks for (search, map-view).
THEOREM SearchIsRight == SearchSpec => []SearchShowsItsQuery
  <1>1. SearchInit => MapInv /\ ListInv
    <2> SUFFICES ASSUME SearchInit PROVE MapInv /\ ListInv
      OBVIOUS
    <2>0. map = [view |-> FALSE, state |-> "none", awaited |-> FALSE, ready |-> FALSE,
                 seen |-> NoneFound, drawn |-> NoneFound, gone |-> FALSE]
      BY DEF SearchInit
    <2>1. MapInv
      BY <2>0 DEF MapInv, MapFields
    <2>2. PICK preference : page = Shown(url, preference)
      BY DEF SearchInit
    <2>3. DOMAIN url = UrlFields
      BY DEF SearchInit, UrlFields
    <2>5. /\ place = Nowhere /\ asked = {Question(page, "nowhere")}
          /\ list = [question |-> Question(page, "nowhere"), found |-> {},
                     failed |-> FALSE, answered |-> FALSE]
      BY DEF SearchInit
    <2>6. place.at = "nowhere" /\ DOMAIN list = ListFields /\ list.answered = FALSE
      BY <2>5 DEF ListFields, Nowhere
    <2>4. ListInv
      <3>1. /\ DOMAIN page = PageFields /\ page.region = url.region
            /\ page.category = IF url.category = "absent" THEN "" ELSE url.category
        BY <2>2 DEF Shown, PageFields
      <3>2. \A q \in asked : /\ q.category = page.category
                            /\ q.origin = searchOrigin(page, place.at)
        BY <2>5, <2>6 DEF Question
      <3> QED
        BY <2>3, <2>6, <3>1, <3>2 DEF ListInv, ListAnswersThePage
    <2> QED
      BY <2>1, <2>4
  <1>2. (MapInv /\ ListInv) /\ [SearchNext]_searchVars => (MapInv /\ ListInv)'
    BY MapStep, ListStep
  <1>3. MapInv /\ ListInv => SearchShowsItsQuery
    BY DEF MapInv, ListInv, SearchShowsItsQuery, MapShowsThePage, getInputSignature
  <1> QED
    BY <1>1, <1>2, <1>3, PTL DEF SearchSpec

-----------------------------------------------------------------------------
(* The pages of an order.                                                  *)

Pages == {"home", "details", "approval", "payment", "finish", "confirm", "report",
          "review"}

TabFields == {"page", "visit", "view", "loading", "shown", "busy", "closed", "told"}

CallFields == {"kind", "visit", "seen", "state", "data"}

\* What a page asks for beside the status.
Detailed(name) == name \notin {"home", "report"}

\* What a command was given by the page that sent it.
Grounded(c) ==
    CASE c.kind \in {"accept", "cancel"} -> c.seen.status = "AGUARDANDO_APROVACAO"
      [] c.kind = "onTheWay" -> c.seen.status = "AGENDADO"
      [] c.kind = "start" -> c.seen.status = "EM_DESLOCAMENTO"
      [] c.kind = "finish" -> c.seen.status = "EM_ANDAMENTO" /\ c.seen.price = "agreed"
      [] c.kind = "confirm" -> c.seen.status = "AGUARDANDO_CONFIRMACAO_CLIENTE"
      [] c.kind = "review" -> c.seen.status = "CONCLUIDO" /\ c.seen.reviewed = "no"
      [] c.kind = "pay" -> c.seen.payment = "none"
      [] c.kind = "report" -> c.seen.status = "AGUARDANDO_CONFIRMACAO_CLIENTE"
      [] OTHER -> TRUE

RowInv ==
    /\ DOMAIN row = Fields \cup {"attempt"}
    /\ row.price = "agreed" /\ row.reviewed \in {"no", "yes"}
    /\ row.payment # "none"
    /\ row.payment = "CREATED" => row.status \in Unpaid
    /\ row.status = "AGUARDANDO_APROVACAO" =>
         row.payment = "CREATED" /\ row.attempt = "none"

TabInv ==
    /\ DOMAIN tab = TabFields /\ DOMAIN tab.view = Fields /\ tab.page \in Pages
    /\ tab.shown /\ Detailed(tab.page) => tab.view.price = "agreed"
    /\ tab.shown /\ tab.page = "review" =>
         tab.view.status = "CONCLUIDO" /\ tab.view.reviewed = "no"
    /\ tab.page = "report" => tab.told = "AGUARDANDO_CONFIRMACAO_CLIENTE"
    /\ timers \subseteq {"details", "review"}

CallInv(c) ==
    /\ DOMAIN c = CallFields /\ DOMAIN c.data = Fields
    /\ c.kind \in Commands \cup {"load", "poll"}
    /\ Grounded(c)
    /\ (c.kind = "load" /\ c.state = "ok" /\ Detailed(tab.page)) =>
         c.data.price = "agreed" /\ c.data.reviewed \in {"no", "yes"}

\* As long as the order waits for its approval, nobody has seen it further on:
\* no payment page is open, and no command that begins a payment is on its way.
ApprovalInv ==
    row.status = "AGUARDANDO_APROVACAO" =>
       /\ tab.view.status \in {"unknown", "AGUARDANDO_APROVACAO"}
       /\ tab.page # "payment"
       /\ \A c \in calls :
            /\ c.data.status \in {"unknown", "AGUARDANDO_APROVACAO"}
            /\ c.kind # "pay" /\ ~(c.kind = "accept" /\ c.state = "ok")

PagesInv == RowInv /\ TabInv /\ (\A c \in calls : CallInv(c)) /\ ApprovalInv

\* How the order moves, whoever moves it.
LEMMA OrderMoves ==
  ASSUME RowInv, NEW kind \in Commands, NEW price, Possible(kind, price), row' = After(kind)
  PROVE  /\ RowInv'
         /\ row'.status = "AGUARDANDO_APROVACAO" => row.status = "AGUARDANDO_APROVACAO"
         /\ kind \in {"accept", "pay"} => row'.status # "AGUARDANDO_APROVACAO"
  <1>1. CASE kind = "accept"
    BY <1>1 DEF RowInv, Possible, mayAccept, After, Unpaid, Fields
  <1>2. CASE kind = "cancel"
    BY <1>2 DEF RowInv, Possible, mayCancel, After, Unpaid, Fields
  <1>3. CASE kind = "pay"
    BY <1>3 DEF RowInv, Possible, mayPay, findPayableOrder, After, Unpaid, Fields
  <1>4. CASE kind = "onTheWay"
    BY <1>4 DEF RowInv, Possible, transition, After, Unpaid, Fields
  <1>5. CASE kind = "start"
    BY <1>5 DEF RowInv, Possible, transition, After, Unpaid, Fields
  <1>6. CASE kind = "finish"
    BY <1>6 DEF RowInv, Possible, mayFinish, After, Unpaid, Fields
  <1>7. CASE kind = "confirm"
    BY <1>7 DEF RowInv, Possible, mayConfirm, After, Unpaid, Fields
  <1>8. CASE kind = "report"
    BY <1>8 DEF RowInv, Possible, mayReport, After, Unpaid, Fields
  <1>9. CASE kind = "review"
    BY <1>9 DEF RowInv, Possible, mayReview, After, Unpaid, Fields
  <1> QED
    BY <1>1, <1>2, <1>3, <1>4, <1>5, <1>6, <1>7, <1>8, <1>9 DEF Commands

\* What a payment leaves that breaks off.
LEMMA BreaksOff ==
  ASSUME RowInv, row' \in BrokenOff
  PROVE  RowInv' /\ row'.status = row.status
  <1>1. PICK a \in {"none", "kept", "sent", "charged", row.attempt} :
          /\ row' = [row EXCEPT !.attempt = a]
          /\ a # row.attempt => findPayableOrder
    BY DEF BrokenOff, mayPay
  <1>2. /\ DOMAIN row' = DOMAIN row /\ row'.status = row.status
        /\ row'.price = row.price /\ row'.reviewed = row.reviewed
        /\ row'.payment = row.payment /\ row'.attempt = a
    BY <1>1 DEF RowInv, Fields
  <1> QED
    BY <1>1, <1>2 DEF RowInv, findPayableOrder, Unpaid

\* The order moves beside the tab.
LEMMA OrderMovesElsewhere ==
  ASSUME PagesInv, UNCHANGED <<tab, calls, timers>>, RowInv',
         row'.status = "AGUARDANDO_APROVACAO" => row.status = "AGUARDANDO_APROVACAO"
  PROVE  PagesInv'
  BY DEF PagesInv, TabInv, CallInv, Grounded, Detailed, ApprovalInv

\* What is in a question as it is sent.
LEMMA LoadIsSent ==
  ASSUME NEW visit, NEW c, c = Load(visit) \/ c = [Load(visit) EXCEPT !.kind = "poll"]
  PROVE  /\ DOMAIN c = CallFields /\ DOMAIN c.data = Fields
         /\ c.kind \in {"load", "poll"} /\ c.state = "sent" /\ c.data.status = "unknown"
  BY DEF Load, CallFields, Nothing, Fields

LEMMA MoveKeepsInv ==
  ASSUME PagesInv, NEW target \in Pages, NEW rest \in SUBSET calls, MoveTo(target, rest),
         UNCHANGED row, timers' \subseteq timers,
         target = "payment" => row.status # "AGUARDANDO_APROVACAO",
         target = "report" => tab.view.status = "AGUARDANDO_CONFIRMACAO_CLIENTE"
  PROVE  PagesInv'
  <1> DEFINE new == Load(tab.visit + 1)
  <1>1. /\ tab' = Opened(target, tab.visit + 1, tab.view.status)
        /\ calls' = {c \in rest : c.kind \in Commands} \cup {new}
    BY DEF MoveTo
  <1>2. /\ DOMAIN new = CallFields /\ DOMAIN new.data = Fields
        /\ new.kind \in {"load", "poll"} /\ new.state = "sent" /\ new.data.status = "unknown"
    BY LoadIsSent
  <1> HIDE DEF new
  <1>3. /\ DOMAIN tab' = TabFields /\ DOMAIN tab'.view = Fields /\ tab'.page = target
        /\ ~tab'.shown /\ tab'.view.status = "unknown"
        /\ target = "report" => tab'.told = tab.view.status
    BY <1>1 DEF Opened, TabFields, Nothing, Fields
  <1>4. RowInv' /\ TabInv'
    BY <1>3 DEF PagesInv, RowInv, TabInv
  <1>5. \A c \in calls' : CallInv(c)'
    <2> SUFFICES ASSUME NEW c \in calls' PROVE CallInv(c)'
      OBVIOUS
    <2>1. CASE c = new
      BY <1>2, <2>1 DEF CallInv, Grounded, Commands
    <2>2. CASE c \in rest /\ c.kind \in Commands
      BY <2>2 DEF PagesInv, CallInv, Grounded, Commands
    <2> QED
      BY <1>1, <2>1, <2>2
  <1>6. ApprovalInv'
    BY <1>1, <1>2, <1>3 DEF PagesInv, ApprovalInv, Commands
  <1> QED
    BY <1>4, <1>5, <1>6 DEF PagesInv

\* Where the links lead.
LEMMA LinksLeadToPages ==
  ASSUME PagesInv, NEW target \in Links
  PROVE  /\ target \in Pages
         /\ target = "payment" => row.status # "AGUARDANDO_APROVACAO"
         /\ target = "report" => tab.view.status = "AGUARDANDO_CONFIRMACAO_CLIENTE"
  BY DEF Links, homeRoutes, confirmRoutes, actions, Pages, PagesInv, ApprovalInv, TabInv

\* The tab changes in what the invariant does not look at.
LEMMA TabTurns ==
  ASSUME PagesInv, UNCHANGED <<row, timers>>, DOMAIN tab' = TabFields,
         tab'.view = tab.view, tab'.page = tab.page, tab'.shown => tab.shown,
         tab'.told = tab.told,
         \A c \in calls' : CallInv(c)',
         row.status = "AGUARDANDO_APROVACAO" =>
           \A c \in calls' : /\ c.data.status \in {"unknown", "AGUARDANDO_APROVACAO"}
                             /\ c.kind # "pay" /\ ~(c.kind = "accept" /\ c.state = "ok")
  PROVE  PagesInv'
  BY DEF PagesInv, RowInv, TabInv, ApprovalInv

\* What a page offers is grounded in what it shows.
LEMMA OffersAreGrounded ==
  ASSUME PagesInv, NEW kind \in Offered, NEW c, c.kind = kind, c.seen = Seen
  PROVE  /\ kind \in Commands /\ Grounded(c)
         /\ kind = "pay" => tab.page = "payment"
  <1>d. DOMAIN tab.view = Fields /\ tab.page \in Pages
    BY DEF PagesInv, TabInv
  <1>s. /\ Seen.status = IF tab.page = "report" THEN tab.told ELSE tab.view.status
        /\ Seen.price = tab.view.price /\ Seen.reviewed = tab.view.reviewed
        /\ Seen.payment = tab.view.payment
    BY <1>d DEF Seen, Fields
  <1>1. tab.page # "report" /\ kind \in actions(tab.view) \cap {"onTheWay", "start"} =>
          kind \in {"onTheWay", "start"} /\ Grounded(c)
    <2>1. "onTheWay" \in actions(tab.view) => tab.view.status = "AGENDADO"
      BY DEF actions
    <2>2. "start" \in actions(tab.view) => tab.view.status = "EM_DESLOCAMENTO"
      BY DEF actions
    <2>3. CASE kind = "onTheWay"
      BY <1>s, <2>1, <2>3 DEF Grounded
    <2>4. CASE kind = "start"
      BY <1>s, <2>2, <2>4 DEF Grounded
    <2> QED
      BY <2>3, <2>4
  <1>2. CASE tab.page = "home"
    <2>1. \/ kind = "accept" /\ tab.view.status = "AGUARDANDO_APROVACAO"
          \/ kind \in actions(tab.view) \cap {"onTheWay", "start"}
      BY <1>2 DEF Offered
    <2>2. kind = "accept" /\ tab.view.status = "AGUARDANDO_APROVACAO" => Grounded(c)
      BY <1>s, <1>2 DEF Grounded
    <2> QED
      BY <1>1, <1>2, <2>1, <2>2 DEF Commands
  <1>3. CASE tab.page = "report"
    <2>1. kind = "report"
      BY <1>3 DEF Offered
    <2>2. Seen.status = "AGUARDANDO_CONFIRMACAO_CLIENTE"
      BY <1>s, <1>3 DEF PagesInv, TabInv
    <2> QED
      BY <1>3, <2>1, <2>2 DEF Grounded, Commands
  <1>4. CASE tab.page \notin {"home", "report"}
    <2>s. tab.shown
      BY <1>4 DEF Offered, OnScreen
    <2>1. CASE tab.page = "details"
      BY <1>1, <2>1 DEF Offered, Commands
    <2>2. CASE tab.page = "finish"
      <3>1. Seen.price = "agreed"
        BY <1>s, <2>s, <2>2 DEF PagesInv, TabInv, Detailed
      <3> QED
        BY <1>s, <2>2, <3>1 DEF Offered, Commands, Grounded, canFinish
    <2>3. CASE tab.page = "review"
      <3>1. tab.view.status = "CONCLUIDO" /\ tab.view.reviewed = "no"
        BY <2>s, <2>3 DEF PagesInv, TabInv
      <3> QED
        BY <1>s, <2>3, <3>1 DEF Offered, Commands, Grounded
    <2>4. CASE tab.page \in {"approval", "payment", "confirm"}
      BY <1>s, <2>4 DEF Offered, Commands, Grounded
    <2> QED
      BY <1>d, <1>4, <2>1, <2>2, <2>3, <2>4 DEF Pages
  <1> QED
    BY <1>2, <1>3, <1>4

LEMMA OthersMoveTheOrder ==
  ASSUME PagesInv,
         Elsewhere \/ PaysElsewhere \/ PixPaid \/ PaymentTakenBack \/ OrderExpires \/ CaseClosed
  PROVE  PagesInv'
  <1>0. RowInv
    BY DEF PagesInv
  <1>1. CASE Elsewhere
    <2>1. PICK kind \in Commands : Possible(kind, row.price) /\ row' = After(kind)
      BY <1>1 DEF Elsewhere
    <2> QED
      BY <1>0, <1>1, <2>1, OrderMoves, OrderMovesElsewhere DEF Elsewhere
  <1>6. CASE PaysElsewhere
    <2>1. RowInv' /\ (row'.status = "AGUARDANDO_APROVACAO" =>
                        row.status = "AGUARDANDO_APROVACAO")
      <3>1. row' \in BrokenOff => <2>1
        BY <1>0, BreaksOff
      <3> QED
        BY <1>0, <1>6, <3>1 DEF PaysElsewhere, RowInv, Fields, Unpaid
    <2> QED
      BY <1>6, <2>1, OrderMovesElsewhere DEF PaysElsewhere
  <1>2. CASE PixPaid
    <2>1. RowInv' /\ (row'.status = "AGUARDANDO_APROVACAO" =>
                        row.status = "AGUARDANDO_APROVACAO")
      BY <1>0, <1>2 DEF PixPaid, RowInv, Fields, Unpaid
    <2> QED
      BY <1>2, <2>1, OrderMovesElsewhere DEF PixPaid
  <1>3. CASE PaymentTakenBack
    <2>1. RowInv' /\ (row'.status = "AGUARDANDO_APROVACAO" =>
                        row.status = "AGUARDANDO_APROVACAO")
      BY <1>0, <1>3 DEF PaymentTakenBack, RowInv, Fields, Unpaid
    <2> QED
      BY <1>3, <2>1, OrderMovesElsewhere DEF PaymentTakenBack
  <1>4. CASE OrderExpires
    <2>1. RowInv' /\ (row'.status = "AGUARDANDO_APROVACAO" =>
                        row.status = "AGUARDANDO_APROVACAO")
      BY <1>0, <1>4 DEF OrderExpires, RowInv, Fields, Unpaid
    <2> QED
      BY <1>4, <2>1, OrderMovesElsewhere DEF OrderExpires
  <1>5. CASE CaseClosed
    <2>1. RowInv' /\ (row'.status = "AGUARDANDO_APROVACAO" =>
                        row.status = "AGUARDANDO_APROVACAO")
      BY <1>0, <1>5 DEF CaseClosed, RowInv, Fields
    <2> QED
      BY <1>5, <2>1, OrderMovesElsewhere DEF CaseClosed
  <1> QED
    BY <1>1, <1>2, <1>3, <1>4, <1>5, <1>6

\* The tab asks, or sends a command.
LEMMA TabAsks ==
  ASSUME PagesInv, Reload \/ refreshPayment \/ Submit
  PROVE  PagesInv'
  <1>d. /\ DOMAIN tab = TabFields
        /\ \A c \in calls : CallInv(c)
        /\ row.status = "AGUARDANDO_APROVACAO" =>
             /\ tab.page # "payment"
             /\ \A c \in calls :
                  /\ c.data.status \in {"unknown", "AGUARDANDO_APROVACAO"}
                  /\ c.kind # "pay" /\ ~(c.kind = "accept" /\ c.state = "ok")
    BY DEF PagesInv, TabInv, ApprovalInv
  <1>1. PICK new :
          /\ calls' = calls \cup {new}
          /\ \/ new = Load(tab.visit) \/ new = [Load(tab.visit) EXCEPT !.kind = "poll"]
             \/ \E kind \in Offered :
                  new = [kind |-> kind, visit |-> tab.visit, seen |-> Seen,
                         state |-> "sent", data |-> Nothing]
    BY DEF Reload, refreshPayment, Submit
  <1>2. /\ UNCHANGED <<row, timers>> /\ DOMAIN tab' = TabFields /\ tab'.view = tab.view
        /\ tab'.page = tab.page /\ tab'.shown = tab.shown /\ tab'.told = tab.told
    BY <1>d DEF Reload, refreshPayment, Submit, TabFields
  <1>3. /\ DOMAIN new = CallFields /\ DOMAIN new.data = Fields
        /\ new.kind \in Commands \cup {"load", "poll"} /\ Grounded(new)
        /\ new.state = "sent" /\ new.data.status = "unknown"
        /\ new.kind = "pay" => tab.page = "payment"
    <2>1. CASE new = Load(tab.visit) \/ new = [Load(tab.visit) EXCEPT !.kind = "poll"]
      <3>1. /\ DOMAIN new = CallFields /\ DOMAIN new.data = Fields
            /\ new.kind \in {"load", "poll"} /\ new.state = "sent"
            /\ new.data.status = "unknown"
        BY <2>1, LoadIsSent
      <3> QED
        BY <3>1 DEF Grounded
    <2>2. ASSUME NEW kind \in Offered,
                 new = [kind |-> kind, visit |-> tab.visit, seen |-> Seen,
                        state |-> "sent", data |-> Nothing]
          PROVE  <1>3
      <3>1. /\ DOMAIN new = CallFields /\ DOMAIN new.data = Fields
            /\ new.kind = kind /\ new.seen = Seen /\ new.state = "sent"
            /\ new.data.status = "unknown"
        BY <2>2 DEF CallFields, Nothing, Fields
      <3> QED
        BY <2>2, <3>1, OffersAreGrounded
    <2> QED
      BY <1>1, <2>1, <2>2
  <1>4. \A c \in calls' : CallInv(c)'
    <2> SUFFICES ASSUME NEW c \in calls' PROVE CallInv(c)'
      OBVIOUS
    <2>1. CASE c = new
      BY <1>3, <2>1 DEF CallInv, Grounded
    <2>2. CASE c \in calls
      BY <1>d, <1>2, <2>2 DEF CallInv, Grounded, Detailed
    <2> QED
      BY <1>1, <2>1, <2>2
  <1>5. row.status = "AGUARDANDO_APROVACAO" =>
          \A c \in calls' : /\ c.data.status \in {"unknown", "AGUARDANDO_APROVACAO"}
                            /\ c.kind # "pay" /\ ~(c.kind = "accept" /\ c.state = "ok")
    BY <1>d, <1>1, <1>3
  <1> QED
    BY <1>2, <1>4, <1>5, TabTurns

\* An answer is made of the row.
LEMMA QueryIsServed ==
  ASSUME PagesInv, ServeQuery
  PROVE  PagesInv'
  <1>1. PICK c \in calls :
          /\ c.state = "sent" /\ c.kind \in {"load", "poll"}
          /\ LET view == OrderDetails(tab.page)
                 views == IF tab.page = "payment"
                          THEN {OrderPayment(view), [view EXCEPT !.payment = "none"]}
                          ELSE {view}
             IN \/ \E v \in views :
                     calls' = (calls \ {c}) \cup {[c EXCEPT !.state = "ok", !.data = v]}
                \/ calls' = (calls \ {c}) \cup {[c EXCEPT !.state = "failed"]}
    BY DEF ServeQuery
  <1>u. UNCHANGED <<row, tab, timers>>
    BY DEF ServeQuery
  <1>d. /\ DOMAIN c = CallFields /\ DOMAIN c.data = Fields /\ CallInv(c)
        /\ DOMAIN row = Fields \cup {"attempt"}
        /\ row.price = "agreed" /\ row.reviewed \in {"no", "yes"}
    BY DEF PagesInv, CallInv, RowInv
  <1> DEFINE view == OrderDetails(tab.page)
  <1>2. /\ DOMAIN view = Fields /\ view.status \in {"unknown", row.status}
        /\ Detailed(tab.page) =>
             view.price = "agreed" /\ view.reviewed \in {"no", "yes"}
    BY <1>d DEF OrderDetails, Asked, estimatedAmount, Fields, Detailed
  <1>3. PICK new, v :
          /\ calls' = (calls \ {c}) \cup {new}
          /\ \/ /\ new = [c EXCEPT !.state = "ok", !.data = v]
                /\ v \in {view, OrderPayment(view), [view EXCEPT !.payment = "none"]}
             \/ new = [c EXCEPT !.state = "failed"]
    BY <1>1
  <1> HIDE DEF view
  <1>4. /\ DOMAIN new = CallFields /\ DOMAIN new.data = Fields /\ new.kind = c.kind
        /\ new.seen = c.seen
        /\ new.data.status \in {"unknown", row.status, c.data.status}
        /\ new.state = "ok" /\ Detailed(tab.page) =>
             new.data.price = "agreed" /\ new.data.reviewed \in {"no", "yes"}
    <2>1. CASE new = [c EXCEPT !.state = "failed"]
      BY <1>d, <2>1 DEF CallFields
    <2>2. CASE /\ new = [c EXCEPT !.state = "ok", !.data = v]
               /\ v \in {view, OrderPayment(view), [view EXCEPT !.payment = "none"]}
      <3>1. DOMAIN v = Fields /\ v.status = view.status /\ v.price = view.price
            /\ v.reviewed = view.reviewed
        BY <1>2, <2>2 DEF OrderPayment, Fields
      <3>2. DOMAIN new = CallFields /\ new.kind = c.kind /\ new.seen = c.seen
            /\ new.data = v
        BY <1>d, <2>2 DEF CallFields
      <3> QED
        BY <1>2, <3>1, <3>2
    <2> QED
      BY <1>3, <2>1, <2>2
  <1>5. CallInv(new)'
    BY <1>1, <1>u, <1>d, <1>4 DEF CallInv, Grounded, Detailed
  <1>6. \A d \in calls' : CallInv(d)'
    <2> SUFFICES ASSUME NEW d \in calls', d # new PROVE CallInv(d)'
      BY <1>5
    <2>1. d \in calls
      BY <1>3
    <2> QED
      BY <1>u, <2>1 DEF PagesInv, CallInv, Grounded, Detailed
  <1>7. row.status = "AGUARDANDO_APROVACAO" =>
          \A d \in calls' : /\ d.data.status \in {"unknown", "AGUARDANDO_APROVACAO"}
                            /\ d.kind # "pay" /\ ~(d.kind = "accept" /\ d.state = "ok")
    BY <1>1, <1>3, <1>4 DEF PagesInv, ApprovalInv
  <1>8. DOMAIN tab = TabFields
    BY DEF PagesInv, TabInv
  <1> QED
    BY <1>u, <1>6, <1>7, <1>8, TabTurns


LEMMA CommandIsServed ==
  ASSUME PagesInv, ServeCommand
  PROVE  PagesInv'
  <1>1. PICK c \in calls :
          /\ c.state = "sent" /\ c.kind \in Commands
          /\ \/ /\ Possible(c.kind, c.seen.price)
                /\ row' = After(c.kind)
                /\ calls' \in {(calls \ {c}) \cup
                               {[c EXCEPT !.state = s, !.data.payment = row'.payment]} :
                                 s \in {"ok", "failed"}}
             \/ /\ ~Possible(c.kind, c.seen.price)
                /\ calls' = (calls \ {c}) \cup {[c EXCEPT !.state = "refused"]}
                /\ UNCHANGED row
             \/ /\ calls' = (calls \ {c}) \cup {[c EXCEPT !.state = "failed"]}
                /\ row' \in BrokenOff \cup {row}
    BY DEF ServeCommand
  <1>u. UNCHANGED <<tab, timers>>
    BY DEF ServeCommand
  <1>d. DOMAIN c = CallFields /\ DOMAIN c.data = Fields /\ CallInv(c) /\ RowInv
    BY DEF PagesInv, CallInv
  <1>2. /\ RowInv'
        /\ row'.status = "AGUARDANDO_APROVACAO" => row.status = "AGUARDANDO_APROVACAO"
    <2>1. CASE UNCHANGED row
      BY <1>d, <2>1 DEF RowInv
    <2>2. CASE Possible(c.kind, c.seen.price) /\ row' = After(c.kind)
      BY <1>1, <1>d, <2>2, OrderMoves
    <2>3. CASE row' \in BrokenOff
      BY <1>d, <2>3, BreaksOff
    <2> QED
      BY <1>1, <2>1, <2>2, <2>3
  <1>3. PICK new :
          /\ calls' = (calls \ {c}) \cup {new}
          /\ \/ \E s \in {"ok", "failed"} :
                  /\ new = [c EXCEPT !.state = s, !.data.payment = row'.payment]
                  /\ Possible(c.kind, c.seen.price) /\ row' = After(c.kind)
             \/ new \in {[c EXCEPT !.state = "refused"], [c EXCEPT !.state = "failed"]}
    BY <1>1
  <1>4. /\ DOMAIN new = CallFields /\ DOMAIN new.data = Fields /\ new.kind = c.kind
        /\ new.seen = c.seen /\ new.data.status = c.data.status
        /\ new.state = "ok" /\ new.kind = "accept" =>
             row'.status # "AGUARDANDO_APROVACAO"
    <2>1. CASE new \in {[c EXCEPT !.state = "refused"], [c EXCEPT !.state = "failed"]}
      BY <1>d, <2>1 DEF CallFields
    <2>2. ASSUME NEW s \in {"ok", "failed"},
                 new = [c EXCEPT !.state = s, !.data.payment = row'.payment],
                 Possible(c.kind, c.seen.price), row' = After(c.kind)
          PROVE  <1>4
      <3>1. c.kind = "accept" => row'.status # "AGUARDANDO_APROVACAO"
        BY <1>1, <1>d, <2>2, OrderMoves
      <3> DEFINE data == [c.data EXCEPT !.payment = row'.payment]
      <3>2. DOMAIN data = Fields /\ data.status = c.data.status
        BY <1>d DEF Fields
      <3>3. new = [c EXCEPT !.state = s, !.data = data]
        BY <1>d, <2>2 DEF CallFields
      <3> HIDE DEF data
      <3> QED
        BY <1>d, <3>1, <3>2, <3>3 DEF CallFields
    <2> QED
      BY <1>3, <2>1, <2>2
  <1>5. \A d \in calls' : CallInv(d)'
    <2> SUFFICES ASSUME NEW d \in calls' PROVE CallInv(d)'
      OBVIOUS
    <2>1. CASE d = new
      BY <1>1, <1>d, <1>4, <2>1 DEF CallInv, Grounded, Commands
    <2>2. CASE d \in calls
      BY <1>u, <2>2 DEF PagesInv, CallInv, Grounded, Detailed
    <2> QED
      BY <1>3, <2>1, <2>2
  <1>6. ApprovalInv'
    <2> SUFFICES ASSUME row'.status = "AGUARDANDO_APROVACAO" PROVE ApprovalInv'
      BY DEF ApprovalInv
    <2>1. /\ tab.view.status \in {"unknown", "AGUARDANDO_APROVACAO"}
          /\ tab.page # "payment"
          /\ \A d \in calls :
               /\ d.data.status \in {"unknown", "AGUARDANDO_APROVACAO"}
               /\ d.kind # "pay" /\ ~(d.kind = "accept" /\ d.state = "ok")
      BY <1>2 DEF PagesInv, ApprovalInv
    <2>2. \A d \in calls' :
            /\ d.data.status \in {"unknown", "AGUARDANDO_APROVACAO"}
            /\ d.kind # "pay" /\ ~(d.kind = "accept" /\ d.state = "ok")
      BY <1>3, <1>4, <2>1
    <2> QED
      BY <1>u, <2>1, <2>2 DEF ApprovalInv
  <1>7. TabInv'
    BY <1>u DEF PagesInv, TabInv
  <1> QED
    BY <1>2, <1>5, <1>6, <1>7 DEF PagesInv

\* The tab shows another view of the same page.
LEMMA TabShows ==
  ASSUME PagesInv, UNCHANGED row, TabInv', tab'.page = tab.page,
         \A c \in calls' : CallInv(c)',
         row.status = "AGUARDANDO_APROVACAO" =>
           /\ tab'.view.status \in {"unknown", "AGUARDANDO_APROVACAO"}
           /\ \A c \in calls' : /\ c.data.status \in {"unknown", "AGUARDANDO_APROVACAO"}
                                /\ c.kind # "pay" /\ ~(c.kind = "accept" /\ c.state = "ok")
  PROVE  PagesInv'
  BY DEF PagesInv, RowInv, ApprovalInv

\* What is left of the calls when the page is the same.
LEMMA CallsAreLeft ==
  ASSUME PagesInv, UNCHANGED row, tab'.page = tab.page, NEW visit,
         calls' \subseteq calls \cup {Load(visit)}
  PROVE  /\ \A c \in calls' : CallInv(c)'
         /\ row.status = "AGUARDANDO_APROVACAO" =>
              \A c \in calls' : /\ c.data.status \in {"unknown", "AGUARDANDO_APROVACAO"}
                                /\ c.kind # "pay" /\ ~(c.kind = "accept" /\ c.state = "ok")
  <1> DEFINE new == Load(visit)
  <1>1. /\ DOMAIN new = CallFields /\ DOMAIN new.data = Fields
        /\ new.kind \in {"load", "poll"} /\ new.state = "sent" /\ new.data.status = "unknown"
    BY LoadIsSent
  <1> HIDE DEF new
  <1>2. calls' \subseteq calls \cup {new}
    BY DEF new
  <1>3. CallInv(new)'
    BY <1>1 DEF CallInv, Grounded
  <1>4. \A c \in calls : CallInv(c)'
    BY DEF PagesInv, CallInv, Grounded, Detailed
  <1> QED
    BY <1>1, <1>2, <1>3, <1>4 DEF PagesInv, ApprovalInv

LEMMA PageIsLoaded ==
  ASSUME PagesInv, Loaded
  PROVE  PagesInv'
  <1>1. PICK c \in calls :
          /\ c.state # "sent" /\ c.kind = "load"
          /\ IF /\ tab.page = "review" /\ c.state = "ok"
                /\ (c.data.status # "CONCLUIDO" \/ c.data.reviewed = "yes")
             THEN MoveTo("details", calls \ {c})
             ELSE /\ tab' = IF c.state = "ok"
                            THEN [tab EXCEPT !.view = c.data, !.loading = FALSE,
                                             !.shown = TRUE]
                            ELSE [tab EXCEPT !.loading = FALSE]
                  /\ calls' = calls \ {c}
    BY DEF Loaded
  <1>u. UNCHANGED <<row, timers>>
    BY DEF Loaded
  <1>d. TabInv /\ CallInv(c)
    BY DEF PagesInv
  <1>2. CASE /\ tab.page = "review" /\ c.state = "ok"
             /\ (c.data.status # "CONCLUIDO" \/ c.data.reviewed = "yes")
    <2>1. MoveTo("details", calls \ {c}) /\ "details" \in Pages
      BY <1>1, <1>2 DEF Pages
    <2> QED
      BY <1>u, <2>1, MoveKeepsInv
  <1>3. CASE /\ ~(/\ tab.page = "review" /\ c.state = "ok"
                  /\ (c.data.status # "CONCLUIDO" \/ c.data.reviewed = "yes"))
             /\ c.state = "ok"
    <2>1. /\ tab' = [tab EXCEPT !.view = c.data, !.loading = FALSE, !.shown = TRUE]
          /\ calls' = calls \ {c}
      BY <1>1, <1>3
    <2>2. DOMAIN tab' = TabFields /\ tab'.page = tab.page /\ tab'.view = c.data
      BY <1>d, <2>1 DEF TabInv, TabFields
    <2>d. tab'.told = tab.told
      BY <1>d, <2>1 DEF TabInv, TabFields
    <2>3. TabInv'
      BY <1>1, <1>u, <1>d, <1>3, <2>2, <2>d DEF TabInv, CallInv, Detailed
    <2>4. row.status = "AGUARDANDO_APROVACAO" =>
            c.data.status \in {"unknown", "AGUARDANDO_APROVACAO"}
      BY DEF PagesInv, ApprovalInv
    <2> QED
      BY <1>u, <2>1, <2>2, <2>3, <2>4, CallsAreLeft, TabShows
  <1>4. CASE /\ ~(/\ tab.page = "review" /\ c.state = "ok"
                  /\ (c.data.status # "CONCLUIDO" \/ c.data.reviewed = "yes"))
             /\ c.state # "ok"
    <2>1. tab' = [tab EXCEPT !.loading = FALSE] /\ calls' = calls \ {c}
      BY <1>1, <1>4
    <2>2. /\ DOMAIN tab' = TabFields /\ tab'.page = tab.page /\ tab'.view = tab.view
          /\ tab'.shown = tab.shown /\ tab'.told = tab.told
      BY <1>d, <2>1 DEF TabInv, TabFields
    <2> QED
      BY <1>u, <2>1, <2>2, CallsAreLeft, TabTurns
  <1> QED
    BY <1>2, <1>3, <1>4

LEMMA PaymentIsPolled ==
  ASSUME PagesInv, Polled
  PROVE  PagesInv'
  <1>1. PICK c \in calls :
          /\ tab' = IF c.state = "ok" /\ c.data.payment # "none"
                    THEN [tab EXCEPT !.view.payment = c.data.payment] ELSE tab
          /\ calls' = calls \ {c}
    BY DEF Polled
  <1>u. UNCHANGED <<row, timers>>
    BY DEF Polled
  <1>d. TabInv /\ DOMAIN tab = TabFields /\ DOMAIN tab.view = Fields
    BY DEF PagesInv, TabInv
  <1>2. CASE UNCHANGED tab
    BY <1>1, <1>u, <1>d, <1>2, CallsAreLeft, TabTurns
  <1>3. CASE tab' = [tab EXCEPT !.view.payment = c.data.payment]
    <2> DEFINE view == [tab.view EXCEPT !.payment = c.data.payment]
    <2>1. /\ DOMAIN view = Fields /\ view.status = tab.view.status
          /\ view.price = tab.view.price /\ view.reviewed = tab.view.reviewed
      BY <1>d DEF Fields
    <2>2. tab' = [tab EXCEPT !.view = view]
      BY <1>d, <1>3 DEF TabFields
    <2> HIDE DEF view
    <2>3. /\ DOMAIN tab' = TabFields /\ tab'.page = tab.page /\ tab'.view = view
          /\ tab'.shown = tab.shown /\ tab'.told = tab.told
      BY <1>d, <2>2 DEF TabFields
    <2>4. TabInv'
      BY <1>u, <1>d, <2>1, <2>3 DEF TabInv, Detailed
    <2>5. row.status = "AGUARDANDO_APROVACAO" =>
            tab.view.status \in {"unknown", "AGUARDANDO_APROVACAO"}
      BY DEF PagesInv, ApprovalInv
    <2> QED
      BY <1>1, <1>u, <2>1, <2>3, <2>4, <2>5, CallsAreLeft, TabShows
  <1> QED
    BY <1>1, <1>2, <1>3


LEMMA CommandIsAnswered ==
  ASSUME PagesInv, Answered
  PROVE  PagesInv'
  <1>1. PICK c \in calls :
          /\ c.state # "sent" /\ c.kind \in Commands
          /\ LET here == c.visit = tab.visit
                 ok == c.state = "ok"
             IN /\ tab' = IF here THEN Answer(c, ok) ELSE tab
                /\ calls' = (calls \ {c}) \cup
                            (IF here /\ ok /\ AsksAgain THEN {Load(tab.visit)} ELSE {})
                /\ timers' = IF ok THEN timers \cup NextPage(c.kind) ELSE timers
    BY DEF Answered
  <1>u. UNCHANGED row
    BY DEF Answered
  <1>d. TabInv /\ DOMAIN tab = TabFields /\ DOMAIN tab.view = Fields /\ tab.page \in Pages
    BY DEF PagesInv, TabInv
  <1>2. calls' \subseteq calls \cup {Load(tab.visit)}
    BY <1>1
  <1>3. timers' \subseteq {"details", "review"}
    BY <1>1, <1>d DEF NextPage, TabInv
  <1>4. CASE UNCHANGED tab
    <2>1. TabInv'
      BY <1>d, <1>3, <1>4 DEF TabInv
    <2>2. row.status = "AGUARDANDO_APROVACAO" =>
            tab.view.status \in {"unknown", "AGUARDANDO_APROVACAO"}
      BY DEF PagesInv, ApprovalInv
    <2> QED
      BY <1>u, <1>2, <1>4, <2>1, <2>2, CallsAreLeft, TabShows
  <1>5. ASSUME NEW ok \in BOOLEAN, ok = (c.state = "ok"), tab' = Answer(c, ok)
        PROVE  PagesInv'
    <2>1. ASSUME DOMAIN tab' = TabFields, DOMAIN tab'.view = Fields,
                 tab'.page = tab.page, tab'.shown => tab.shown, tab'.told = tab.told,
                 tab'.view.price = tab.view.price,
                 tab'.view.reviewed = tab.view.reviewed,
                 \/ tab'.view.status = tab.view.status
                 \/ tab.page = "home" /\ c.kind = "accept" /\ c.state = "ok"
          PROVE  PagesInv'
      <3>1. TabInv'
        BY <1>u, <1>d, <1>3, <2>1 DEF TabInv, Detailed
      <3>2. row.status = "AGUARDANDO_APROVACAO" =>
              tab'.view.status \in {"unknown", "AGUARDANDO_APROVACAO"}
        BY <2>1 DEF PagesInv, ApprovalInv
      <3> QED
        BY <1>u, <1>2, <2>1, <3>1, <3>2, CallsAreLeft, TabShows
    <2>2. CASE tab.page = "home"
      <3>1. tab' = updateRequestStatus(c, ok)
        BY <1>5, <2>2 DEF Answer
      <3> DEFINE loading == tab.loading \/ ok
                 view == [tab.view EXCEPT !.status = IF ok /\ c.kind = "accept"
                                                     THEN "AGUARDANDO_PAGAMENTO" ELSE @]
      <3>2. tab' = [tab EXCEPT !.busy = FALSE, !.loading = loading, !.view = view]
        BY <1>d, <3>1 DEF updateRequestStatus, TabFields
      <3>3. /\ DOMAIN view = Fields /\ view.price = tab.view.price
            /\ view.reviewed = tab.view.reviewed
            /\ \/ view.status = tab.view.status
               \/ c.kind = "accept" /\ c.state = "ok"
        BY <1>5, <1>d DEF Fields
      <3> HIDE DEF view, loading
      <3>4. /\ DOMAIN tab' = TabFields /\ tab'.view = view /\ tab'.page = tab.page
            /\ tab'.shown = tab.shown /\ tab'.told = tab.told
        BY <1>d, <3>2 DEF TabFields
      <3> QED
        BY <2>1, <2>2, <3>3, <3>4
    <2>3. CASE tab.page = "details"
      <3>1. tab' = runAction(c, ok)
        BY <1>5, <2>3 DEF Answer
      <3> DEFINE loading == tab.loading \/ ok
      <3>2. tab' = [tab EXCEPT !.busy = FALSE, !.loading = loading]
        BY <1>d, <3>1 DEF runAction, TabFields
      <3> HIDE DEF loading
      <3>4. /\ DOMAIN tab' = TabFields /\ tab'.view = tab.view /\ tab'.page = tab.page
            /\ tab'.shown = tab.shown /\ tab'.told = tab.told
        BY <1>d, <3>2 DEF TabFields
      <3> QED
        BY <1>d, <2>1, <3>4
    <2>4. CASE tab.page = "payment"
      <3>1. tab' = pay(c, ok)
        BY <1>5, <2>4 DEF Answer
      <3> DEFINE view == [tab.view EXCEPT !.payment = IF ok THEN c.data.payment ELSE @]
      <3>2. tab' = [tab EXCEPT !.busy = FALSE, !.view = view]
        BY <1>d, <3>1 DEF pay, TabFields
      <3>3. /\ DOMAIN view = Fields /\ view.price = tab.view.price
            /\ view.reviewed = tab.view.reviewed /\ view.status = tab.view.status
        BY <1>d DEF Fields
      <3> HIDE DEF view
      <3>4. /\ DOMAIN tab' = TabFields /\ tab'.view = view /\ tab'.page = tab.page
            /\ tab'.shown = tab.shown /\ tab'.told = tab.told
        BY <1>d, <3>2 DEF TabFields
      <3> QED
        BY <2>1, <3>3, <3>4
    <2>5. CASE tab.page \in {"approval", "finish", "confirm", "report", "review"}
      <3>1. tab' \in {respond(c, ok), finish(c, ok), confirm(c, ok), report(c, ok),
                      review(c, ok)}
        BY <1>5, <2>5 DEF Answer
      <3> DEFINE failed == ~ok
      <3>2. \/ tab' = [tab EXCEPT !.busy = FALSE]
            \/ tab' = [tab EXCEPT !.busy = FALSE, !.closed = ok]
            \/ tab' = [tab EXCEPT !.busy = FALSE, !.closed = failed]
        BY <3>1 DEF respond, finish, confirm, report, review
      <3> HIDE DEF failed
      <3>3. /\ DOMAIN tab' = TabFields /\ tab'.view = tab.view /\ tab'.page = tab.page
            /\ tab'.shown = tab.shown /\ tab'.told = tab.told
        BY <1>d, <3>2 DEF TabFields
      <3> QED
        BY <1>d, <2>1, <3>3
    <2> QED
      BY <1>d, <2>2, <2>3, <2>4, <2>5 DEF Pages
  <1>6. CASE c.visit = tab.visit
    BY <1>1, <1>5, <1>6
  <1> QED
    BY <1>1, <1>4, <1>6

LEMMA PagesStep ==
  ASSUME PagesInv, [PagesNext]_pagesVars
  PROVE  PagesInv'
  <1>1. CASE SideMoves \/ UNCHANGED pagesVars
    <2>1. UNCHANGED <<row, tab, calls, timers>>
      BY <1>1 DEF SideMoves, pagesVars
    <2> QED
      BY <2>1, OrderMovesElsewhere DEF PagesInv, RowInv
  <1>2. CASE Follow
    <2>1. PICK target \in Links : MoveTo(target, calls)
      BY <1>2 DEF Follow
    <2> QED
      BY <1>2, <2>1, LinksLeadToPages, MoveKeepsInv DEF Follow
  <1>3. CASE TimerFires
    <2>1. PICK target \in timers : MoveTo(target, calls) /\ timers' = timers \ {target}
      BY <1>3 DEF TimerFires
    <2>2. target \in Pages /\ target \notin {"payment", "report"}
      BY DEF PagesInv, TabInv, Pages
    <2> QED
      BY <1>3, <2>1, <2>2, MoveKeepsInv DEF TimerFires
  <1> QED
    BY <1>1, <1>2, <1>3, OthersMoveTheOrder, TabAsks, QueryIsServed, CommandIsServed,
       PageIsLoaded, PaymentIsPolled, CommandIsAnswered DEF PagesNext

\* A command that a page offered and the handler does not take was overtaken.
LEMMA ImpossibleIsStale ==
  ASSUME PagesInv, NEW c \in calls, c.kind \in Commands,
         ~Possible(c.kind, c.seen.price)
  PROVE  Stale(c.seen) \/ Untold(c.kind)
  <1>d. /\ Grounded(c) /\ RowInv
        /\ row.status = "AGUARDANDO_APROVACAO" => c.kind # "pay"
    BY DEF PagesInv, CallInv, ApprovalInv
  <1>1. /\ OrderPayment(row).status = row.status
        /\ OrderPayment(row).reviewed = row.reviewed
        /\ OrderPayment(row).payment = IF row.payment = "CREATED" THEN "none"
                                       ELSE row.payment
    BY <1>d DEF RowInv, OrderPayment, Fields
  <1>2. /\ c.seen.status \notin {"unknown", row.status} => Stale(c.seen)
        /\ c.seen.reviewed \notin {"unknown", row.reviewed} => Stale(c.seen)
        /\ c.seen.payment = "none" /\ row.payment # "CREATED" => Stale(c.seen)
    BY <1>1, <1>d DEF Stale, Fields, RowInv
  <1>3. CASE c.kind = "accept"
    BY <1>d, <1>2, <1>3 DEF Grounded, Possible, mayAccept, Untold
  <1>4. CASE c.kind = "cancel"
    BY <1>d, <1>2, <1>4 DEF Grounded, Possible, mayCancel, RowInv
  <1>5. CASE c.kind = "pay"
    <2>1. row.payment = "CREATED" /\ side # "keyless" => findPayableOrder
      BY <1>d, <1>5 DEF RowInv, findPayableOrder, Unpaid
    <2> QED
      BY <1>d, <1>2, <1>5, <2>1 DEF Grounded, Possible, mayPay, Untold
  <1>6. CASE c.kind = "onTheWay"
    BY <1>d, <1>2, <1>6 DEF Grounded, Possible, transition, Untold
  <1>7. CASE c.kind = "start"
    BY <1>d, <1>2, <1>7 DEF Grounded, Possible, transition, Untold
  <1>8. CASE c.kind = "finish"
    BY <1>d, <1>2, <1>8 DEF Grounded, Possible, mayFinish, RowInv, Untold
  <1>9. CASE c.kind = "confirm"
    BY <1>d, <1>2, <1>9 DEF Grounded, Possible, mayConfirm, Untold
  <1>10. CASE c.kind = "report"
    BY <1>d, <1>2, <1>10 DEF Grounded, Possible, mayReport
  <1>11. CASE c.kind = "review"
    BY <1>d, <1>2, <1>11 DEF Grounded, Possible, mayReview, RowInv
  <1> QED
    BY <1>3, <1>4, <1>5, <1>6, <1>7, <1>8, <1>9, <1>10, <1>11 DEF Commands

\* Only the server refuses, and only what it cannot take.
LEMMA OnlyImpossibleIsRefused ==
  ASSUME PagesInv, [PagesNext]_pagesVars, NEW d \in calls' \ calls, d.state = "refused"
  PROVE  \E c \in calls : /\ c.kind \in Commands /\ ~Possible(c.kind, c.seen.price)
                          /\ d = [c EXCEPT !.state = "refused"]
  <1>1. CASE ServeCommand
    <2>1. PICK c \in calls :
            /\ c.kind \in Commands
            /\ \/ /\ Possible(c.kind, c.seen.price)
                  /\ calls' \in {(calls \ {c}) \cup
                                 {[c EXCEPT !.state = s, !.data.payment = row'.payment]} :
                                   s \in {"ok", "failed"}}
               \/ /\ ~Possible(c.kind, c.seen.price)
                  /\ calls' = (calls \ {c}) \cup {[c EXCEPT !.state = "refused"]}
               \/ calls' = (calls \ {c}) \cup {[c EXCEPT !.state = "failed"]}
      BY <1>1 DEF ServeCommand
    <2>d. DOMAIN c = CallFields
      BY DEF PagesInv, CallInv
    <2>2. CASE calls' \in {(calls \ {c}) \cup
                             {[c EXCEPT !.state = s, !.data.payment = row'.payment]} :
                               s \in {"ok", "failed"}}
      <3>1. PICK s \in {"ok", "failed"} :
              calls' = (calls \ {c}) \cup
                       {[c EXCEPT !.state = s, !.data.payment = row'.payment]}
        BY <2>2
      <3>2. d = [c EXCEPT !.state = s, !.data.payment = row'.payment]
        BY <3>1
      <3>3. d.state = s
        BY <2>d, <3>2 DEF CallFields
      <3> QED
        BY <3>3
    <2>3. CASE calls' = (calls \ {c}) \cup {[c EXCEPT !.state = "failed"]}
      <3>1. d = [c EXCEPT !.state = "failed"]
        BY <2>3
      <3>2. d.state = "failed"
        BY <2>d, <3>1 DEF CallFields
      <3> QED
        BY <3>2
    <2> QED
      BY <2>1, <2>2, <2>3
  <1>2. CASE ServeQuery
    <2>1. PICK c \in calls :
            \/ \E v : calls' = (calls \ {c}) \cup {[c EXCEPT !.state = "ok", !.data = v]}
            \/ calls' = (calls \ {c}) \cup {[c EXCEPT !.state = "failed"]}
      BY <1>2 DEF ServeQuery
    <2>2. \/ \E v : d = [c EXCEPT !.state = "ok", !.data = v]
          \/ d = [c EXCEPT !.state = "failed"]
      BY <2>1
    <2>d. DOMAIN c = CallFields
      BY DEF PagesInv, CallInv
    <2>3. d.state \in {"ok", "failed"}
      BY <2>d, <2>2 DEF CallFields
    <2> QED
      BY <2>3
  <1>3. CASE ~ServeCommand /\ ~ServeQuery
    <2>1. Follow \/ TimerFires \/ Reload \/ refreshPayment \/ Submit \/ Loaded \/ Answered
      BY <1>3 DEF PagesNext, pagesVars, Elsewhere, PaysElsewhere, PixPaid, PaymentTakenBack,
         OrderExpires, CaseClosed, SideMoves, Polled
    <2>2. CASE Submit
      <3>1. PICK kind : d = [kind |-> kind, visit |-> tab.visit, seen |-> Seen,
                             state |-> "sent", data |-> Nothing]
        BY <2>2 DEF Submit
      <3> QED
        BY <3>1
    <2>3. CASE ~Submit
      <3>1. d \in {Load(tab.visit), Load(tab.visit + 1),
                   [Load(tab.visit) EXCEPT !.kind = "poll"]}
        BY <2>1, <2>3 DEF Follow, TimerFires, MoveTo, Reload, refreshPayment, Loaded, Answered
      <3>2. d.state = "sent"
        BY <3>1, LoadIsSent
      <3> QED
        BY <3>2
    <2> QED
      BY <2>2, <2>3
  <1> QED
    BY <1>1, <1>2, <1>3

\* A command is refused only because the tab showed of the order what is not so
\* (any more), or for a reason no page shows, whoever moves the order meanwhile
\* (home.ts, pending-approval.ts, the pages order-details, order-payment,
\* finish-service, confirm-service, report-problem and review-order, and the
\* handlers they call).
THEOREM RefusalsAreStale == PagesSpec => RefusalMeansStale
  <1>1. PagesInit => PagesInv
    <2> SUFFICES ASSUME PagesInit PROVE PagesInv
      OBVIOUS
    <2>1. RowInv
      BY DEF PagesInit, RowInv, Fields, Unpaid
    <2>2. /\ tab = Opened(IF role = "PRESTADOR" THEN "home" ELSE "details", 1,
                        "unknown")
          /\ calls = {Load(1)} /\ timers = {}
      BY DEF PagesInit
    <2>3. /\ DOMAIN tab = TabFields /\ DOMAIN tab.view = Fields
          /\ tab.page \in {"home", "details"} /\ ~tab.shown /\ tab.view.status = "unknown"
      BY <2>2 DEF Opened, TabFields, Nothing, Fields
    <2>4. \A c \in calls : /\ DOMAIN c = CallFields /\ DOMAIN c.data = Fields
                           /\ c.kind \in {"load", "poll"} /\ c.state = "sent"
                           /\ c.data.status = "unknown"
      BY <2>2, LoadIsSent
    <2>5. TabInv /\ (\A c \in calls : CallInv(c)) /\ ApprovalInv
      BY <2>2, <2>3, <2>4 DEF TabInv, Pages, CallInv, Grounded, ApprovalInv
    <2> QED
      BY <2>1, <2>5 DEF PagesInv
  <1>2. PagesInv /\ [PagesNext]_pagesVars => PagesInv'
    BY PagesStep
  <1>3. PagesInv /\ [PagesNext]_pagesVars =>
          [\A c \in calls :
             (/\ c.state = "sent"
              /\ [c EXCEPT !.state = "refused"] \in calls' \ calls)
             => Stale(c.seen) \/ Untold(c.kind)]_pagesVars
    <2> SUFFICES ASSUME PagesInv, [PagesNext]_pagesVars, NEW c \in calls,
                        [c EXCEPT !.state = "refused"] \in calls' \ calls
                 PROVE  Stale(c.seen) \/ Untold(c.kind)
      OBVIOUS
    <2> DEFINE d == [c EXCEPT !.state = "refused"]
    <2>1. DOMAIN c = CallFields
      BY DEF PagesInv, CallInv
    <2>2. d \in calls' \ calls /\ d.state = "refused" /\ d.seen = c.seen /\ d.kind = c.kind
      BY <2>1 DEF CallFields
    <2> HIDE DEF d
    <2>3. PICK b \in calls : /\ b.kind \in Commands /\ ~Possible(b.kind, b.seen.price)
                             /\ d = [b EXCEPT !.state = "refused"]
      BY <2>2, OnlyImpossibleIsRefused
    <2>4. DOMAIN b = CallFields
      BY DEF PagesInv, CallInv
    <2>5. b.seen = d.seen /\ b.kind = d.kind
      BY <2>3, <2>4 DEF CallFields
    <2> QED
      BY <2>2, <2>3, <2>5, ImpossibleIsStale
  <1> QED
    BY <1>1, <1>2, <1>3, PTL DEF PagesSpec, RefusalMeansStale


=============================================================================
