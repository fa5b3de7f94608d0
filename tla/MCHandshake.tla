---------------------------- MODULE MCHandshake ----------------------------
(* Instances of Handshake for TLC.  Lengths are such that a nonce is not a   *)
(* whole number of commands and a magic packet none of acknowledgements.     *)
EXTENDS Handshake

\* Every kind of upstream with and without keys at either end; only the
\* multi-client mode uses a key or keeps nonces.
AllSetups ==
    {s \in [kind : {"plain", "single", "multi"}, proxyKey : BOOLEAN,
            serverKey : BOOLEAN, stale : BOOLEAN] :
        /\ s.serverKey => s.kind = "multi"
        /\ s.stale => s.serverKey}

\* Both ends have the key, and the upstream has just been started.
Chain == {[kind |-> "multi", proxyKey |-> TRUE, serverKey |-> TRUE, stale |-> FALSE]}
=============================================================================
