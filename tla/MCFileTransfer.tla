---------------------------- MODULE MCFileTransfer ----------------------------
(***************************************************************************)
(* An instance of FileTransfer for TLC: a session between da and db and an *)
(* upload from da to db.  A third account owns dn, the device that da      *)
(* becomes when its identity is renewed.                                   *)
(***************************************************************************)
EXTENDS FileTransfer, TLC

CONSTANTS alice, bob, nell, da, db, dn, s1, u1

Owners   == da :> alice @@ db :> bob @@ dn :> nell
BothEnds == s1 :> {da, db}
Senders  == u1 :> da
Targets  == u1 :> db
Within   == u1 :> s1
NewId    == u1 :> dn
=============================================================================
