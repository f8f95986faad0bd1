------------------------------ MODULE MCConsole ------------------------------
(***************************************************************************)
(* The back office and what it reads: a tab of an operator, the lists and  *)
(* figures the server computes for it, its pages, and the log. They share  *)
(* no variable but the categories, so TLC takes them one at a time: `part` *)
(* says which of them moves, and the others stay in one initial state.     *)
(***************************************************************************)
EXTENDS Backoffice, FunnelMetrics, ProviderQueue, ConsolePages, Catalogue,
    Observability, TLC

VARIABLE part      \* which of them moves

consoleVars == <<part, logVars, backofficeVars, funnelVars, queueVars, listVars,
                 staffVars, recordVars, deskVars, offerVars>>

-----------------------------------------------------------------------------
\* What is logged and audited: objects three levels deep.
Labels == PersonalFields \cup SecretKeys \cup ContainerKeys \cup {"status"}

\* A value at a key, or at the place of an item, of another.
At(label, d) == [p \in {<<label>> \o q : q \in DOMAIN d} |-> d[Tail(p)]]

Single(k) == <<>> :> k

Level1 ==
    {Single("leaf"), Single("undefined"), Single("array") @@ At("0", Single("leaf"))}
        \cup {[p \in {<<>>} \cup {<<k>> : k \in S} |->
                 IF p = <<>> THEN "object" ELSE "leaf"] : S \in SUBSET Labels}

Around(values) ==
    {Single("array") @@ At("0", v) : v \in values}
        \cup {Single("object") @@ At(k, v) @@ At("status", Single("leaf")) :
                 k \in Labels, v \in values}

EmptyDocument == Single("object")

MCDocuments ==
    {d \in Level1 \cup Around(Level1) \cup Around(Around(Level1)) : d[<<>>] = "object"}

ASSUME ProductionAssumption == ProductionIsReal

-----------------------------------------------------------------------------
\* The initial states taken. The tab begins with an active administrator, whom
\* a change gives each of the other roles; a part whose turn it is not has one
\* state.
Waiting ==
    /\ operator.role = "ADMINISTRATOR" /\ operator.active
    /\ part # "lists" => kind = "queue"
    /\ part # "staff" => \A o \in Staff : staff[o].state = "invited"
    /\ part # "record" => rulings = <<"PENDING">>
    /\ part # "desk" => desk = "categories"
    /\ part \notin {"desk", "offers"} => rows[2].status = "none"
    /\ part # "offers" => \A o \in Offers : offers[o].status = "none"

MCInit ==
    /\ part \in {"tab", "funnel", "queue", "lists", "staff", "record", "desk",
                 "offers", "log"}
    /\ BackofficeInit /\ FunnelInit /\ QueueInit
    /\ ListInit /\ StaffInit /\ RecordInit /\ DeskInit /\ OfferInit
    /\ Waiting
    /\ LogInit /\ (part # "log" => sanitizer = "log" /\ entry = EmptyDocument)

MCNext ==
    /\ UNCHANGED part
    /\ IF part = "tab" THEN BackofficeNext ELSE UNCHANGED backofficeVars
    /\ IF part = "funnel" THEN FunnelNext ELSE UNCHANGED funnelVars
    /\ IF part = "queue" THEN QueueNext ELSE UNCHANGED queueVars
    /\ IF part = "lists" THEN ListNext ELSE UNCHANGED listVars
    /\ IF part = "staff" THEN StaffNext ELSE UNCHANGED staffVars
    /\ IF part = "record" THEN RecordNext ELSE UNCHANGED recordVars
    /\ CASE part = "desk" -> DeskNext /\ UNCHANGED offerVars
         [] part = "offers" -> OfferNext
         [] OTHER -> UNCHANGED <<deskVars, offerVars>>
    /\ IF part = "log" THEN LogNext ELSE UNCHANGED logVars

MCSpec == MCInit /\ [][MCNext]_consoleVars

\* The page of the flags asks and is answered as that of the categories, the page
\* of the moderation as that of the payments: the tab goes no further from either.
PagesOfAKind == page.name \notin {"flags", "moderation"}

\* Providers of the funnel are told apart by nothing.
SellerSymmetry == Permutations(Sellers)

=============================================================================
