---------------------------- MODULE MCRecording ----------------------------
(* An instance of Recording for TLC. *)
EXTENDS Recording
=============================================================================
