-------------------------- MODULE MCMessageLooper --------------------------
(* Model checking MessageLooper: two clients share a pool of two cells. *)
EXTENDS MessageLooper

CONSTANTS m1, m2, c1, c2, w1

MCMsgs     == {m1, m2}
MCClients  == {c1, c2}
MCOneWhat  == {w1}
MCOneDelay == {0, 1}
=============================================================================
