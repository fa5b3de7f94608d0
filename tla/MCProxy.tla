------------------------------ MODULE MCProxy ------------------------------
(* Instance of Proxy for TLC. *)
EXTENDS Proxy
=============================================================================
