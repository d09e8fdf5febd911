------------------------- MODULE ConnectionRegistry -------------------------
(***************************************************************************)
(* What the hub promises, without pumps, channels, locks or sockets: every *)
(* device is reached through at most one connection at a time, the latest  *)
(* that was registered for it.  A connection that was replaced can only    *)
(* end, its end takes nothing away from the one that replaced it, and none *)
(* that has ended is ever used again.                                      *)
(***************************************************************************)
CONSTANTS Conns, DeviceOf

VARIABLE stage    \* "fresh", "current", "replaced" or "over"

Init == stage = [c \in Conns |-> "fresh"]

Connect(c) ==
    /\ stage[c] = "fresh"
    /\ stage' = [x \in Conns |->
          IF x = c THEN "current"
          ELSE IF DeviceOf[x] = DeviceOf[c] /\ stage[x] = "current" THEN "replaced"
          ELSE stage[x]]

Leave(c) ==
    /\ stage[c] \in {"current", "replaced"}
    /\ stage' = [stage EXCEPT ![c] = "over"]

\* Everything that was in use is lost; what was about to be registered may be.
Restart ==
    \E kept \in SUBSET {c \in Conns : stage[c] = "fresh"} :
        stage' = [c \in Conns |-> IF c \in kept THEN "fresh" ELSE "over"]

Next == Restart \/ \E c \in Conns : Connect(c) \/ Leave(c)

Spec == Init /\ [][Next]_stage
=============================================================================
