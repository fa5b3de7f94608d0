--------------------------- MODULE MCServeSingle ---------------------------
(* Instance of ServeSingle for TLC.  Two signals reach the handler's branch *)
(* for a full channel and for a dropped receiver; two commands put chain    *)
(* probes on both sides of the magic packet.                                *)
EXTENDS ServeSingle
=============================================================================
