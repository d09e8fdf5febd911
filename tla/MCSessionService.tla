-------------------------- MODULE MCSessionService --------------------------
(***************************************************************************)
(* Instances of SessionService for TLC: two accounts that have one device  *)
(* each, and a third account that has none.                                *)
(***************************************************************************)
EXTENDS SessionService, TLC

CONSTANTS alice, bob, carol, da, db, h1, h2, s1, s2

TwoOwners   == da :> alice @@ db :> bob

\* Handlers are interchangeable, sessions are, and so are accounts together with
\* their devices.
Renamings(owners) ==
    {p @@ [u \in {owners[d] : d \in DOMAIN owners} |->
              owners[p[CHOOSE d \in DOMAIN owners : owners[d] = u]]] :
        p \in Permutations(DOMAIN owners)}

RaceSymmetry   == {p @@ q : p \in Renamings(TwoOwners), q \in Permutations({h1, h2})}
SerialSymmetry == {p @@ q : p \in Renamings(TwoOwners), q \in Permutations({s1, s2})}

\* The notices that are worth losing in an instance: a token can be learnt from
\* them, the others are not read back.
TokenNotices == {"session_started"}
=============================================================================
