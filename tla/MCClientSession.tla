-------------------------- MODULE MCClientSession --------------------------
(***************************************************************************)
(* An instance of ClientSession for TLC: two devices that ask each other.  *)
(***************************************************************************)
EXTENDS ClientSession, TLC

CONSTANTS da, db, r1, r2

Askers == r1 :> da @@ r2 :> db
Asked == r1 :> db @@ r2 :> da

\* Bound, a state constraint: replies and messages are lost, sessions expire, and
\* starts of sharing overlap, only while the second request has not been made.
Trouble ==
    \/ \E d \in Devices : share[d].overlapped
    \/ \E d \in Devices : lost[d] # {}
    \/ \E s \in DOMAIN session : session[s].state = "expired"
    \/ \E d \in Devices : call[d]["start"] # NoCall /\ ~call[d]["start"].retry
    \/ \E s, t \in DOMAIN session : s # t /\ session[s].request = session[t].request
OneTrouble == request[r2] = "none" \/ ~Trouble
=============================================================================
