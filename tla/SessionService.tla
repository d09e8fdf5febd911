--------------------------- MODULE SessionService ---------------------------
(***************************************************************************)
(* The session service of the server (server/internal/sessions/service.go) *)
(* as its callers see it: HTTP handlers and websocket readers run          *)
(* concurrently, each one a sequence of single SQL statements on a         *)
(* database that is limited to one connection (storage/db.go), so a        *)
(* statement is atomic and statements of different handlers interleave.    *)
(*                                                                         *)
(* A call in progress occupies a handler h: pc[h] names the statement it   *)
(* will execute next and job[h] holds its local variables.  The checks a   *)
(* call makes on the rows it has just read belong to the step that reads   *)
(* them; a call that is refused there changes nothing and is not a step.   *)
(* A session token is secret and unique, and is represented by the         *)
(* identifier of its session.                                              *)
(***************************************************************************)
EXTENDS Integers

CONSTANTS
    Users,       \* accounts
    Devices,     \* registered devices
    OwnerOf,     \* devices.user_id, which nothing changes after registration
    RequestIds,  \* identifiers NewID("srq") can return
    SessionIds,  \* identifiers NewID("rss") can return
    Handlers,    \* calls in progress at the same time
    TTL,         \* sessionTokenTTL
    MaxTime,     \* bound on the clock
    Statuses,    \* bound: the values "devices.status = 'online'" takes
    Droppable,   \* bound: the kinds of notice the hub may drop
    None         \* the value of an unset field

ASSUME OwnerAssumption == OwnerOf \in [Devices -> Users]
ASSUME StatusAssumption == Statuses \subseteq BOOLEAN
ASSUME TimeAssumption  == TTL \in Nat /\ MaxTime \in Nat
ASSUME NoneAssumption  == None \notin Devices \cup Users \cup RequestIds \cup SessionIds

VARIABLES
    online,    \* devices.status = "online"
    requests,  \* table session_requests
    sessions,  \* table remote_sessions
    now,       \* the clock
    pc,        \* the next statement of each handler
    job,       \* the local variables of each handler
    notices,   \* what NotifyDevice has handed to the connection of a device
    told,      \* <<user, session>>: a reply showed the token to the user
    answers,   \* history: the answers stored so far, and who gave them
    closings   \* history: how many calls have ended each session with success

vars == <<online, requests, sessions, now, pc, job, notices, told, answers, closings>>

-----------------------------------------------------------------------------
Steps == {"idle", "request_insert", "request_notify",
          "respond_write", "respond_notify",
          "start_insert", "start_notify_requester", "start_notify_target",
          "end_write", "end_notify_requester", "end_notify_target",
          "signal_relay"}

NoticeKinds == {"session_request", "response_accepted", "response_rejected",
                "session_started", "session_ended", "session_signal"}

RequestRow == [status : {"absent", "pending", "accepted", "rejected"},
               from : Devices \cup {None}, to : Devices \cup {None}]

SessionRow == [status : {"absent", "active", "ended"},
               from : Devices \cup {None}, to : Devices \cup {None},
               expiry : Int, origin : RequestIds \cup {None}]

Job == [user : Users \cup {None}, device : Devices \cup {None},
        from : Devices \cup {None}, to : Devices \cup {None},
        req : RequestIds \cup {None}, sess : SessionIds \cup {None},
        accept : BOOLEAN, at : Int]

AnswerGiven == [req : RequestIds, user : Users, accept : BOOLEAN]

Notice == [to : Devices, kind : NoticeKinds, id : RequestIds \cup SessionIds]

NoJob == [user |-> None, device |-> None, from |-> None, to |-> None,
          req |-> None, sess |-> None, accept |-> FALSE, at |-> 0]

Init ==
    /\ online \in [Devices -> Statuses]
    /\ requests = [r \in RequestIds |-> [status |-> "absent", from |-> None, to |-> None]]
    /\ sessions = [s \in SessionIds |-> [status |-> "absent", from |-> None, to |-> None,
                                         expiry |-> 0, origin |-> None]]
    /\ now = 0
    /\ pc = [h \in Handlers |-> "idle"]
    /\ job = [h \in Handlers |-> NoJob]
    /\ notices = {}
    /\ told = {}
    /\ answers = {}
    /\ closings = [s \in SessionIds |-> 0]

-----------------------------------------------------------------------------
(* The checks of the code, on the rows a call reads.                       *)

BelongsToUser(d, u) == OwnerOf[d] = u

\* Mutant: the target's owner is not asked for.
MayRespond_AnyDevice(u, r, d) ==
    requests[r].status = "pending" /\ BelongsToUser(d, u)

\* Mutant: a request that was answered can be answered again.
MayRespond_AnyStatus(u, r, d) ==
    /\ requests[r].status # "absent"
    /\ requests[r].to = d
    /\ BelongsToUser(d, u)

MayRespond(u, r, d) ==
    /\ requests[r].status = "pending"
    /\ requests[r].to = d
    /\ BelongsToUser(d, u)

\* Mutant: Start takes any request that exists.
MayStart_AnyStatus(u, r, d) ==
    /\ requests[r].status # "absent"
    /\ requests[r].from = d
    /\ BelongsToUser(d, u)

MayStart(u, r, d) ==
    /\ requests[r].status = "accepted"
    /\ requests[r].from = d
    /\ BelongsToUser(d, u)

Participants(s) == {sessions[s].from, sessions[s].to}

\* Mutant: the status of the session is not checked.
Validate_IgnoreStatus(s, token, d) ==
    /\ sessions[s].status # "absent"
    /\ token = s
    /\ ~(now > sessions[s].expiry)
    /\ d \in Participants(s)

\* ValidateSessionParticipant: the session is active, its token is the one
\* presented and has not expired, and the device is one of its two ends.
Validate(s, token, d) ==
    /\ sessions[s].status = "active"
    /\ token = s
    /\ ~(now > sessions[s].expiry)
    /\ d \in Participants(s)

\* The other end of the session.
Peer(s, d) == IF d = sessions[s].from THEN sessions[s].to ELSE sessions[s].from

\* A user holds a token that a reply, or a notice to one of their devices, carried.
Holds(u, s) ==
    \/ <<u, s>> \in told
    \/ \E n \in notices : /\ n.kind \in {"session_started", "session_ended"}
                          /\ n.id = s
                          /\ OwnerOf[n.to] = u

-----------------------------------------------------------------------------
Goto(h, step)   == pc' = [pc EXCEPT ![h] = step]
Return(h)       == Goto(h, "idle") /\ job' = [job EXCEPT ![h] = NoJob]
Begin(h, step, locals) ==
    /\ pc[h] = "idle"
    /\ Goto(h, step)
    /\ job' = [job EXCEPT ![h] = locals]

\* Hub.NotifyDevice drops the notice when the device has no connection or its
\* channel is full; the caller ignores the difference.
NotifyDevice(d, kind, id) ==
    \/ notices' = notices \cup {[to |-> d, kind |-> kind, id |-> id]}
    \/ kind \in Droppable /\ UNCHANGED notices

(* Service.Request ---------------------------------------------------------*)

\* The arguments and the ownership are checked, the target's status is read.
RequestCheck(h, u, from, to) ==
    /\ from # to
    /\ BelongsToUser(from, u)
    /\ online[to]
    /\ Begin(h, "request_insert", [NoJob EXCEPT !.user = u, !.from = from, !.to = to])
    /\ UNCHANGED <<online, requests, sessions, now, notices, told, answers, closings>>

RequestInsert(h) ==
    /\ pc[h] = "request_insert"
    /\ \E r \in RequestIds :
         /\ requests[r].status = "absent"
         /\ requests' = [requests EXCEPT ![r] =
               [status |-> "pending", from |-> job[h].from, to |-> job[h].to]]
         /\ job' = [job EXCEPT ![h].req = r]
    /\ Goto(h, "request_notify")
    /\ UNCHANGED <<online, sessions, now, notices, told, answers, closings>>

RequestNotify(h) ==
    /\ pc[h] = "request_notify"
    /\ NotifyDevice(job[h].to, "session_request", job[h].req)
    /\ Return(h)
    /\ UNCHANGED <<online, requests, sessions, now, told, answers, closings>>

(* Service.Respond ---------------------------------------------------------*)

\* The request is read, and everything that follows is checked on that copy.
RespondRead(h, u, r, d, accept) ==
    /\ MayRespond(u, r, d)
    /\ Begin(h, "respond_write",
             [NoJob EXCEPT !.user = u, !.device = d, !.req = r, !.accept = accept,
                           !.from = requests[r].from, !.to = requests[r].to])
    /\ UNCHANGED <<online, requests, sessions, now, notices, told, answers, closings>>

\* Mutant: a status that the other statements do not know.
Answer_Denied(h) == IF job[h].accept THEN "accepted" ELSE "denied"

Answer(h) == IF job[h].accept THEN "accepted" ELSE "rejected"

\* UPDATE ... WHERE id = ?: the status the request has by now is not looked at.
RespondWrite(h) ==
    /\ pc[h] = "respond_write"
    /\ requests' = [requests EXCEPT ![job[h].req].status = Answer(h)]
    /\ answers' = answers \cup {[req |-> job[h].req, user |-> job[h].user, accept |-> job[h].accept]}
    /\ Goto(h, "respond_notify")
    /\ UNCHANGED <<online, sessions, now, job, notices, told, closings>>

RespondNotify(h) ==
    /\ pc[h] = "respond_notify"
    /\ NotifyDevice(job[h].from,
                    IF job[h].accept THEN "response_accepted" ELSE "response_rejected",
                    job[h].req)
    /\ Return(h)
    /\ UNCHANGED <<online, requests, sessions, now, told, answers, closings>>

(* Service.Start -----------------------------------------------------------*)

StartRead(h, u, r, d) ==
    /\ MayStart(u, r, d)
    /\ Begin(h, "start_insert",
             [NoJob EXCEPT !.user = u, !.device = d, !.req = r, !.at = now,
                           !.from = requests[r].from, !.to = requests[r].to])
    /\ UNCHANGED <<online, requests, sessions, now, notices, told, answers, closings>>

\* The expiry counts from a moment between the two statements.  The request
\* itself is left as it is: it can be started again.
StartInsert(h) ==
    /\ pc[h] = "start_insert"
    /\ \E s \in SessionIds, t \in job[h].at .. now :
         /\ sessions[s].status = "absent"
         /\ sessions' = [sessions EXCEPT ![s] =
               [status |-> "active", from |-> job[h].from, to |-> job[h].to,
                expiry |-> t + TTL, origin |-> job[h].req]]
         /\ job' = [job EXCEPT ![h].sess = s]
    /\ Goto(h, "start_notify_requester")
    /\ UNCHANGED <<online, requests, now, notices, told, answers, closings>>

StartNotifyRequester(h) ==
    /\ pc[h] = "start_notify_requester"
    /\ NotifyDevice(job[h].from, "session_started", job[h].sess)
    /\ Goto(h, "start_notify_target")
    /\ UNCHANGED <<online, requests, sessions, now, job, told, answers, closings>>

\* The reply that follows carries the token to the caller.
StartNotifyTarget(h) ==
    /\ pc[h] = "start_notify_target"
    /\ NotifyDevice(job[h].to, "session_started", job[h].sess)
    /\ told' = told \cup {<<job[h].user, job[h].sess>>}
    /\ Return(h)
    /\ UNCHANGED <<online, requests, sessions, now, answers, closings>>

(* Service.ListByUser: the sessions either end of which belongs to the user,*)
(* with their tokens.                                                       *)

\* Mutant: every session is listed.
Listed_All(u) == {s \in SessionIds : sessions[s].status # "absent"}

Listed(u) == {s \in SessionIds : /\ sessions[s].status # "absent"
                                 /\ \E d \in Participants(s) : BelongsToUser(d, u)}

ListByUser(u) ==
    /\ told' = told \cup {<<u, s>> : s \in Listed(u)}
    /\ UNCHANGED <<online, requests, sessions, now, pc, job, notices, answers, closings>>

(* Service.End -------------------------------------------------------------*)

EndValidate(h, u, d, s, token) ==
    /\ BelongsToUser(d, u)
    /\ Validate(s, token, d)
    /\ Begin(h, "end_write",
             [NoJob EXCEPT !.user = u, !.device = d, !.sess = s,
                           !.from = sessions[s].from, !.to = sessions[s].to])
    /\ UNCHANGED <<online, requests, sessions, now, notices, told, answers, closings>>

\* Mutant: UPDATE ... WHERE id = ?, and the affected rows are not counted.
EndWrite_Unconditional(h) ==
    /\ pc[h] = "end_write"
    /\ sessions' = [sessions EXCEPT ![job[h].sess].status = "ended"]
    /\ closings' = [closings EXCEPT ![job[h].sess] = @ + 1]
    /\ Goto(h, "end_notify_requester")
    /\ UNCHANGED <<online, requests, now, job, notices, told, answers>>

\* Mutant: the notices go out before the row is written.
EndWrite_NotWritten(h) ==
    /\ pc[h] = "end_write"
    /\ Goto(h, "end_notify_requester")
    /\ UNCHANGED <<online, requests, sessions, now, job, notices, told, answers, closings>>

\* UPDATE ... WHERE id = ? AND status = 'active'; no affected row, no success.
EndWrite(h) ==
    /\ pc[h] = "end_write"
    /\ \/ /\ sessions[job[h].sess].status = "active"
          /\ sessions' = [sessions EXCEPT ![job[h].sess].status = "ended"]
          /\ closings' = [closings EXCEPT ![job[h].sess] = @ + 1]
          /\ Goto(h, "end_notify_requester")
          /\ UNCHANGED job
       \/ /\ sessions[job[h].sess].status # "active"
          /\ Return(h)
          /\ UNCHANGED <<sessions, closings>>
    /\ UNCHANGED <<online, requests, now, notices, told, answers>>

EndNotifyRequester(h) ==
    /\ pc[h] = "end_notify_requester"
    /\ NotifyDevice(job[h].from, "session_ended", job[h].sess)
    /\ Goto(h, "end_notify_target")
    /\ UNCHANGED <<online, requests, sessions, now, job, told, answers, closings>>

EndNotifyTarget(h) ==
    /\ pc[h] = "end_notify_target"
    /\ NotifyDevice(job[h].to, "session_ended", job[h].sess)
    /\ Return(h)
    /\ UNCHANGED <<online, requests, sessions, now, told, answers, closings>>

(* Hub.handleSessionSignal: the relay of a signal to the peer, which a      *)
(* websocket reader performs with the same validation.                      *)

SignalValidate(h, d, s, token) ==
    /\ Validate(s, token, d)
    /\ Begin(h, "signal_relay", [NoJob EXCEPT !.device = d, !.sess = s, !.to = Peer(s, d)])
    /\ UNCHANGED <<online, requests, sessions, now, notices, told, answers, closings>>

SignalRelay(h) ==
    /\ pc[h] = "signal_relay"
    /\ NotifyDevice(job[h].to, "session_signal", job[h].sess)
    /\ Return(h)
    /\ UNCHANGED <<online, requests, sessions, now, told, answers, closings>>

(* The environment ---------------------------------------------------------*)

\* devices.Service.SetStatus, called by the hub as connections come and go.
SetStatus(d, status) ==
    /\ online' = [online EXCEPT ![d] = status]
    /\ UNCHANGED <<requests, sessions, now, pc, job, notices, told, answers, closings>>

Tick ==
    /\ now < MaxTime
    /\ now' = now + 1
    /\ UNCHANGED <<online, requests, sessions, pc, job, notices, told, answers, closings>>

\* ExecContext of a writing statement returns an error, and the call with it.
WriteFails(h) ==
    /\ pc[h] \in {"request_insert", "respond_write", "start_insert", "end_write"}
    /\ Return(h)
    /\ UNCHANGED <<online, requests, sessions, now, notices, told, answers, closings>>

\* The channel of the device to notify was closed after its lookup (see WsHub):
\* the handler panics, RecoverMiddleware recovers, and the call ends there.
NotifyPanics(h) ==
    /\ pc[h] \in {"request_notify", "respond_notify",
                  "start_notify_requester", "start_notify_target",
                  "end_notify_requester", "end_notify_target"}
    /\ Return(h)
    /\ UNCHANGED <<online, requests, sessions, now, notices, told, answers, closings>>

\* The server stops, or a readPump panics in a relay, and it starts again: the
\* calls are gone, the tables are not.
Crash ==
    /\ \E h \in Handlers : pc[h] # "idle"
    /\ pc' = [h \in Handlers |-> "idle"]
    /\ job' = [h \in Handlers |-> NoJob]
    /\ UNCHANGED <<online, requests, sessions, now, notices, told, answers, closings>>

-----------------------------------------------------------------------------
\* A new call; a caller presents a token it has been shown.
Call(h) ==
    \/ \E u \in Users, from, to \in Devices : RequestCheck(h, u, from, to)
    \/ \E u \in Users, r \in RequestIds, d \in Devices, accept \in BOOLEAN :
          RespondRead(h, u, r, d, accept)
    \/ \E u \in Users, r \in RequestIds, d \in Devices : StartRead(h, u, r, d)
    \/ \E u \in Users, d \in Devices, s, token \in SessionIds :
          Holds(u, token) /\ EndValidate(h, u, d, s, token)
    \/ \E d \in Devices, s, token \in SessionIds :
          Holds(OwnerOf[d], token) /\ SignalValidate(h, d, s, token)

\* The next statement of the call in progress.
Continue(h) ==
    \/ RequestInsert(h) \/ RequestNotify(h)
    \/ RespondWrite(h) \/ RespondNotify(h)
    \/ StartInsert(h) \/ StartNotifyRequester(h) \/ StartNotifyTarget(h)
    \/ EndWrite(h) \/ EndNotifyRequester(h) \/ EndNotifyTarget(h)
    \/ SignalRelay(h)
    \/ WriteFails(h) \/ NotifyPanics(h)

Next ==
    \/ \E h \in Handlers : Call(h) \/ Continue(h)
    \/ \E u \in Users : ListByUser(u)
    \/ \E d \in Devices, status \in Statuses : SetStatus(d, status)
    \/ Tick
    \/ Crash

Spec == Init /\ [][Next]_vars

-----------------------------------------------------------------------------
(* Properties                                                              *)

\* Every variable has its type.
TypeOK ==
    /\ online \in [Devices -> BOOLEAN]
    /\ requests \in [RequestIds -> RequestRow]
    /\ sessions \in [SessionIds -> SessionRow]
    /\ now \in Nat
    /\ pc \in [Handlers -> Steps]
    /\ job \in [Handlers -> Job]
    /\ notices \subseteq Notice
    /\ told \subseteq Users \X SessionIds
    /\ answers \subseteq AnswerGiven
    /\ closings \in [SessionIds -> Nat]

\* Consent: whatever calls race, a session exists only if the owner of its
\* target device has answered "accept" to the request it stems from, and its
\* two ends are those of that request.
Consent ==
    \A s \in SessionIds : sessions[s].status # "absent" =>
        LET r == sessions[s].origin IN
        /\ requests[r].status \in {"accepted", "rejected"}
        /\ sessions[s].from = requests[r].from
        /\ sessions[s].to = requests[r].to
        /\ [req |-> r, user |-> OwnerOf[sessions[s].to], accept |-> TRUE] \in answers

\* Of all the calls of End that race for a session exactly one succeeds, and
\* it succeeds exactly when the row says "ended".
OneEndWins ==
    \A s \in SessionIds :
        closings[s] = IF sessions[s].status = "ended" THEN 1 ELSE 0

\* A device is told of a session only if it is an end of it, is told that it
\* ended only when the table says so, and is told "accepted" only of a request
\* it made and that was accepted.
NoticesAreTrue ==
    \A n \in notices :
        /\ n.kind = "session_request" => requests[n.id].to = n.to
        /\ n.kind \in {"response_accepted", "response_rejected"} =>
              /\ requests[n.id].from = n.to
              /\ \E a \in answers : a.req = n.id /\ a.accept = (n.kind = "response_accepted")
        /\ n.kind \in {"session_started", "session_ended", "session_signal"} =>
              n.to \in Participants(n.id)
        /\ n.kind = "session_ended" => sessions[n.id].status = "ended"

\* The token of a session is only ever shown to the accounts of its two ends.
TokenConfined ==
    \A u \in Users, s \in SessionIds : Holds(u, s) =>
        \E d \in Participants(s) : d # None /\ BelongsToUser(d, u)

\* A session is over when it was ended or its token has expired, and at rest
\* when besides no call has validated it before and is still running.
Over(s) ==
    \/ sessions[s].status = "ended"
    \/ sessions[s].status = "active" /\ now > sessions[s].expiry
InUse(s) == \E h \in Handlers : pc[h] \in {"end_write", "signal_relay"} /\ job[h].sess = s
AtRest(s) == Over(s) /\ ~InUse(s)
SignalsOf(s) == {n \in notices : n.kind = "session_signal" /\ n.id = s}

\* Once a session is over, only calls that had validated it by then can still
\* relay a signal or end it; when they are done it stays as it is for good.
\* In particular an expired session stays "active" in the table for ever.
OverIsFinal ==
    [][\A s \in SessionIds : AtRest(s) =>
          AtRest(s)' /\ sessions'[s] = sessions[s] /\ SignalsOf(s)' = SignalsOf(s)]_vars

\* The tables implement the abstract life cycle: with any number of calls in
\* progress the weak one, and with one call at a time the strong one.
Rows == [s \in SessionIds |->
    [status |-> sessions[s].status, from |-> sessions[s].from, to |-> sessions[s].to]]
Granted == {r \in RequestIds : \E a \in answers : a.req = r /\ a.accept}

Racing == INSTANCE SessionLifecycle WITH
    remote <- Rows, granted <- Granted, OneAnswer <- FALSE
Serial == INSTANCE SessionLifecycle WITH
    remote <- Rows, granted <- Granted, OneAnswer <- TRUE

\* Every history of the tables is one of the weak life cycle.
ImplementsLifecycle == Racing!Spec

\* When calls do not overlap, an answer is final and only a request that is
\* accepted at that moment is opened.
SerialImplementsLifecycle == Serial!Spec

\* service.go refuses to answer a request that is no longer pending, so that
\* an answer is not replaced by another one.
AnswerIsFinal ==
    [][\A r \in RequestIds : requests[r].status \in {"accepted", "rejected"} =>
          requests'[r].status = requests[r].status]_vars
=============================================================================
