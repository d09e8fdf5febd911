-------------------------- MODULE SessionLifecycle --------------------------
(***************************************************************************)
(* What the session service promises, without handlers, statements, tokens *)
(* or clocks: a session is opened between the two ends of a request only   *)
(* once that request has been granted, and is closed once.                 *)
(*                                                                         *)
(* With OneAnswer the promise is the one a reader of Service.Respond would *)
(* expect: a request is answered once and an answer is final.  Without it  *)
(* an answer may replace another, and a request that was granted before it *)
(* was refused can still be opened.                                        *)
(***************************************************************************)
EXTENDS Naturals

CONSTANTS Devices, RequestIds, SessionIds, None, OneAnswer

VARIABLES
    requests,  \* status and ends of each request
    remote,    \* status and ends of each session
    granted    \* the requests that were accepted at some time

vars == <<requests, remote, granted>>

Unused == [status |-> "absent", from |-> None, to |-> None]

Init ==
    /\ requests = [r \in RequestIds |-> Unused]
    /\ remote = [s \in SessionIds |-> Unused]
    /\ granted = {}

Ask(r, from, to) ==
    /\ requests[r] = Unused
    /\ from # to
    /\ requests' = [requests EXCEPT ![r] = [status |-> "pending", from |-> from, to |-> to]]
    /\ UNCHANGED <<remote, granted>>

Grant(r) ==
    /\ requests[r].status \in (IF OneAnswer THEN {"pending"} ELSE {"pending", "accepted", "rejected"})
    /\ requests' = [requests EXCEPT ![r].status = "accepted"]
    /\ granted' = granted \cup {r}
    /\ UNCHANGED remote

Refuse(r) ==
    /\ requests[r].status \in (IF OneAnswer THEN {"pending"} ELSE {"pending", "accepted", "rejected"})
    /\ requests' = [requests EXCEPT ![r].status = "rejected"]
    /\ UNCHANGED <<remote, granted>>

Open(s, r) ==
    /\ r \in granted
    /\ OneAnswer => requests[r].status = "accepted"
    /\ remote[s] = Unused
    /\ remote' = [remote EXCEPT ![s] =
          [status |-> "active", from |-> requests[r].from, to |-> requests[r].to]]
    /\ UNCHANGED <<requests, granted>>

Close(s) ==
    /\ remote[s].status = "active"
    /\ remote' = [remote EXCEPT ![s].status = "ended"]
    /\ UNCHANGED <<requests, granted>>

Next ==
    \/ \E r \in RequestIds, from, to \in Devices : Ask(r, from, to)
    \/ \E r \in RequestIds : Grant(r) \/ Refuse(r)
    \/ \E s \in SessionIds, r \in RequestIds : Open(s, r)
    \/ \E s \in SessionIds : Close(s)

Spec == Init /\ [][Next]_vars
=============================================================================
