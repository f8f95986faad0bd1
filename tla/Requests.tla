------------------------------ MODULE Requests ------------------------------
(* Requests that are in flight at a time, on any replica.                   *)
CONSTANT Callers
=============================================================================
