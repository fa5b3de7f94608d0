---------------------------- MODULE MCBroadcast ----------------------------
(* Instance of Broadcast for TLC: two clients, a channel of two buffers and *)
(* enough sends for a client to lag twice.                                  *)
EXTENDS Broadcast
=============================================================================
