--------------------------- MODULE OrderLifecycle ---------------------------
(***************************************************************************)
(* What the marketplace promises about one order, whatever happens inside: *)
(* the path its status may take, and that the money of the order is        *)
(* committed at most once, either back to the client or to the provider.   *)
(*   claim = "open"   : nobody has a claim on the order's money yet        *)
(*   claim = "void"   : it was never received or goes back to the client   *)
(*   claim = "payout" : it is owed to the provider                         *)
(***************************************************************************)
VARIABLES status, claim

lifecycle == <<status, claim>>

LifecycleInit ==
    /\ status = "AGUARDANDO_APROVACAO"
    /\ claim = "open"

\* The provider takes the order.
ProviderAccepts ==
    /\ status = "AGUARDANDO_APROVACAO"
    /\ status' = "AGUARDANDO_PAGAMENTO"
    /\ UNCHANGED claim

\* The order is booked for good only while its money is there to be claimed.
Schedule ==
    /\ status = "AGUARDANDO_PAGAMENTO" /\ claim = "open"
    /\ status' = "AGENDADO"
    /\ UNCHANGED claim

\* The money is lost or given back. A scheduled order is no longer scheduled,
\* and can never be again; a service under way is not interrupted.
VoidClaim ==
    /\ claim = "open"
    /\ claim' = "void"
    /\ status' = IF status = "AGENDADO" THEN "AGUARDANDO_PAGAMENTO" ELSE status

\* The provider sets out to, and starts, an order that is paid.
Serve ==
    /\ claim = "open"
    /\ \/ status = "AGENDADO" /\ status' = "EM_DESLOCAMENTO"
       \/ status = "EM_DESLOCAMENTO" /\ status' = "EM_ANDAMENTO"
    /\ UNCHANGED claim

ProviderFinishes ==
    /\ status = "EM_ANDAMENTO"
    /\ status' = "AGUARDANDO_CONFIRMACAO_CLIENTE"
    /\ UNCHANGED claim

\* Concluding the order and owing the provider are one and the same step.
Conclude ==
    /\ status = "AGUARDANDO_CONFIRMACAO_CLIENTE" /\ claim = "open"
    /\ status' = "CONCLUIDO"
    /\ claim' = "payout"

\* No order is cancelled while its money could still be claimed.
CancelVoid ==
    /\ status \in {"AGUARDANDO_APROVACAO", "AGUARDANDO_PAGAMENTO"}
    /\ claim' = "void" /\ claim # "payout"
    /\ status' = "CANCELADO"

LifecycleNext ==
    \/ ProviderAccepts \/ Schedule \/ VoidClaim \/ Serve
    \/ ProviderFinishes \/ Conclude \/ CancelVoid

LifecycleSpec == LifecycleInit /\ [][LifecycleNext]_lifecycle

=============================================================================
