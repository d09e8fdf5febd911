------------------------- MODULE MCClientBootstrap -------------------------
(***************************************************************************)
(* An instance of ClientBootstrap for TLC: identities are numbers, so that *)
(* the first one that nothing refers to is drawn.                          *)
(***************************************************************************)
EXTENDS ClientBootstrap, TLC

CONSTANTS t1, t2
=============================================================================
