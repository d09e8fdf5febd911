--------------------------- MODULE MCServerStart ---------------------------
(***************************************************************************)
(* An instance of ServerStart for TLC: the three files of                  *)
(* server/migrations, the second and third of which add columns.           *)
(***************************************************************************)
EXTENDS ServerStart, TLC

CONSTANTS c1, c2, a1, tables, machine, key, index, path

Files == << <<tables>>, <<machine, key, index>>, <<path>> >>

Alike == Permutations(Calls)
=============================================================================
