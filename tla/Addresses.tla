------------------------------ MODULE Addresses ------------------------------
(***************************************************************************)
(* The addresses of one user and which of them is the default. Creations,  *)
(* updates and removals are READ COMMITTED transactions of two statements: *)
(* the first clears the default that was committed when it began, once its *)
(* row is free, the second writes the address of the request.              *)
(***************************************************************************)
EXTENDS Naturals, FiniteSets, Requests

CONSTANTS
    Rows        \* rows the user's addresses may take

VARIABLES
    address,    \* "absent", "plain" or "default", as committed
    cleared,    \* rows that the transaction of a request cleared and locks
    write       \* the row a transaction writes last, whether it inserts it,
                \* and the defaults its first statement has found and waits for

addressVars == <<address, cleared, write>>

NoWrite == [row |-> "none"]

AddressInit ==
    /\ address = [a \in Rows |-> "absent"]
    /\ cleared = [c \in Callers |-> {}]
    /\ write = [c \in Callers |-> NoWrite]

Locked(c, rows) == \E d \in Callers \ {c} : cleared[d] \intersect rows # {}

Existing == {a \in Rows : address[a] # "absent"}

Defaults == {a \in Rows : address[a] = "default"}

\* updateMany begins with the default committed by then.
FindDefault(c, a, isNew) ==
    /\ write[c] = NoWrite
    /\ write' = [write EXCEPT ![c] = [row |-> a, isNew |-> isNew, finds |-> Defaults,
                                     clears |-> FALSE]]
    /\ UNCHANGED <<address, cleared>>

\* It waits for the row, looks again whether it is the default, and never looks
\* at a row that has become it meanwhile.
ClearDefault(c) ==
    /\ write[c] # NoWrite /\ ~write[c].clears
    /\ ~Locked(c, write[c].finds)
    /\ cleared' = [cleared EXCEPT ![c] = write[c].finds \cap Defaults]
    /\ write' = [write EXCEPT ![c].clears = TRUE]
    /\ UNCHANGED address

\* A new address that is to be the default clears the others first.
CreateDefault(c) ==
    \E a \in Rows \ Existing :
        /\ \A d \in Callers : write[d].row # a
        /\ FindDefault(c, a, TRUE)

CreatePlain(c) ==
    /\ write[c] = NoWrite
    /\ \E a \in Rows \ Existing :
         /\ \A d \in Callers : write[d].row # a
         /\ address' = [address EXCEPT ![a] = "plain"]
    /\ UNCHANGED <<cleared, write>>

\* So does an update that makes an address of the user the default.
UpdateToDefault(c) == \E a \in Existing : FindDefault(c, a, FALSE)

\* Another update writes its columns alone.
UpdatePlain(c) ==
    /\ write[c] = NoWrite
    /\ \E a \in Existing :
         /\ ~Locked(c, {a})
         /\ address' = [address EXCEPT ![a] = "plain"]
    /\ UNCHANGED <<cleared, write>>

\* The second statement and the commit; an address that was removed since
\* cannot be updated, and the transaction is undone.
WriteDefault(c) ==
    /\ write[c] # NoWrite /\ write[c].clears
    /\ ~Locked(c, {write[c].row})
    /\ IF write[c].isNew \/ write[c].row \in Existing
       THEN address' = [a \in Rows |->
                          CASE a = write[c].row -> "default"
                            [] a \in cleared[c] \ {write[c].row} -> "plain"
                            [] OTHER -> address[a]]
       ELSE UNCHANGED address
    /\ cleared' = [cleared EXCEPT ![c] = {}]
    /\ write' = [write EXCEPT ![c] = NoWrite]

\* The default may be removed like any other; nothing takes its place.
RemoveAddress(c) ==
    /\ write[c] = NoWrite
    /\ \E a \in Existing :
         /\ ~Locked(c, {a})
         /\ address' = [address EXCEPT ![a] = "absent"]
    /\ UNCHANGED <<cleared, write>>

AddressNext ==
    \E c \in Callers :
        \/ CreateDefault(c) \/ CreatePlain(c)
        \/ UpdateToDefault(c) \/ UpdatePlain(c)
        \/ ClearDefault(c) \/ WriteDefault(c)
        \/ RemoveAddress(c)

AddressSpec == AddressInit /\ [][AddressNext]_addressVars

\* A user has one default address at most: what the transactions of
\* address.service.ts:49 and :80 were written for.
SingleDefault == Cardinality(Defaults) <= 1

=============================================================================
