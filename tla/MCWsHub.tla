------------------------------- MODULE MCWsHub ------------------------------
(***************************************************************************)
(* Instances of WsHub for TLC: a device that reconnects (two connections   *)
(* of one device), and two devices that relay signals to each other.       *)
(***************************************************************************)
EXTENDS WsHub, TLC

CONSTANTS da, db, c1, c2, c3

OneDevice  == c1 :> da @@ c2 :> da
TwoDevices == c1 :> da @@ c2 :> db
Reconnects == c1 :> da @@ c2 :> da @@ c3 :> db

\* The connections of one device are interchangeable.
SameDevice == Permutations({c1, c2})
=============================================================================
