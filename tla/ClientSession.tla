---------------------------- MODULE ClientSession ----------------------------
(***************************************************************************)
(* Two or more clients (client/src/js/app.js, modules/session.js) and the  *)
(* server between them: from a request over its answer to a session shown, *)
(* controlled, shared and ended.  Replies to calls and messages on the     *)
(* websocket travel on their own, and every handler of the client is a     *)
(* step up to its next await.                                              *)
(*                                                                         *)
(* The server's statements are those of SessionService without races       *)
(* between them; its notices and replies are steps of their own, because   *)
(* their order is what the client depends on.  A session is named by the   *)
(* order of opening.  Identities do not change and the process does not    *)
(* end here: see ClientBootstrap, SessionService and WsHub.                *)
(***************************************************************************)
EXTENDS Integers, Sequences

CONSTANTS
    Devices,
    Requests, From, To, \* requests users make, their requester and target
    MaxSessions, \* bound: sessions opened
    Unlucky,     \* bound: devices whose replies and messages get lost, and whose
                 \* connection may be closing when a notice is sent to it
    Screens,     \* bound: devices that can share; elsewhere starting fails at once
    MaxStarts,   \* bound: starts of sharing in progress before another is asked for
    None

ASSUME EndsAssumption ==
    /\ From \in [Requests -> Devices] /\ To \in [Requests -> Devices]
    /\ \A r \in Requests : From[r] # To[r]
    /\ None \notin Requests /\ Unlucky \subseteq Devices /\ Screens \subseteq Devices
ASSUME BoundAssumption == MaxSessions \in Nat /\ MaxStarts \in Nat

VARIABLES
    request, \* session_requests.status
    session, \* remote_sessions in order: its request, and whether it is active,
             \* ended, or active with a token that has expired
    queue,   \* messages to the websocket of each device
    call,    \* calls of apiRequest in progress
    pending, active, \* state.pendingRequest and state.activeSession, by identifier
    bound,   \* bindControllerInput is in force
    share,   \* runtime of session.js
    lost,    \* history: the messages for each device that never reach it
    told,    \* history: the ended sessions each device was told about
    clicked  \* history: requests whose target's user accepted what was shown

vars == <<request, session, queue, call, pending, active, bound, share, lost, told, clicked>>

server == <<request, session>>
view == <<pending, active, bound, share>>
history == <<lost, told, clicked>>

NoCall == [op |-> "none"]

\* Bound: one call of the user's and one start in progress per client.
Slots == {"user", "start"}

NoSession == 0
Ids == 1 .. MaxSessions

Requester(s) == From[session[s].request]
Target(s) == To[session[s].request]

Init ==
    /\ request = [r \in Requests |-> "none"]
    /\ session = <<>>
    /\ queue = [d \in Devices |-> <<>>]
    /\ call = [d \in Devices |-> [k \in Slots |-> NoCall]]
    /\ pending = [d \in Devices |-> None]
    /\ active = [d \in Devices |-> NoSession]
    /\ bound = [d \in Devices |-> FALSE]
    /\ share = [d \in Devices |-> [timer |-> FALSE, stray |-> FALSE, shot |-> FALSE, starts |-> 0, overlapped |-> FALSE]]
    /\ lost = [d \in Devices |-> {}]
    /\ told = [d \in Devices |-> {}]
    /\ clicked = {}

-----------------------------------------------------------------------------
(* Screen sharing.  timer: runtime.timer names an interval; stray: another *)
(* interval runs that nothing names any more; shot: an interval waits for  *)
(* the native capture; starts: startHostSharing waits for the probe, the   *)
(* user's choice of a screen or the video.                                 *)

\* startHostSharing returns at once only if there is a timer.
Starting(x) ==
    IF x.timer THEN x
    ELSE [x EXCEPT !.starts = @ + 1, !.overlapped = @ \/ x.starts > 0]

\* Mutant: the interval runs on.
Stopped_KeepInterval(x) == [x EXCEPT !.timer = FALSE, !.stray = @ \/ x.timer]

\* Mutant: the stop also withdraws a start, whether one waits or not.
Stopped_WithdrawStart(x) == [x EXCEPT !.timer = FALSE, !.starts = @ - 1]

\* stopHostSharing; a start that waits is not stopped.
Stopped(x) == [x EXCEPT !.timer = FALSE]

ShareBegins(d) ==
    /\ share[d].starts > 0
    /\ share' = [share EXCEPT ![d].starts = @ - 1, ![d].timer = TRUE, ![d].stray = @ \/ share[d].timer]
    /\ UNCHANGED <<server, queue, call, pending, active, bound, history>>

\* Neither the native capture nor the user's choice: getDisplayMedia throws.
ShareRefused(d) ==
    /\ share[d].starts > 0
    /\ share' = [share EXCEPT ![d].starts = @ - 1]
    /\ UNCHANGED <<server, queue, call, pending, active, bound, history>>

\* A native capture in an interval, and its end unless it falls back.
ShareCaptures(d) ==
    /\ \/ share[d].shot
       \/ (share[d].timer \/ share[d].stray) /\ active[d] # NoSession
    /\ share' = [share EXCEPT ![d].shot = ~@]
    /\ UNCHANGED <<server, queue, call, pending, active, bound, history>>

\* The fourth failure in a row, by when the sharing may have been stopped: the
\* timer is cleared, if there is one, and sharing started by the other means.
ShareFallsBack(d) ==
    /\ share[d].shot /\ share[d].starts < MaxStarts
    /\ share' = [share EXCEPT ![d] = Starting([Stopped(@) EXCEPT !.shot = FALSE])]
    /\ UNCHANGED <<server, queue, call, pending, active, bound, history>>

\* The buttons, and the end of the stream.
ShareClick(d) ==
    /\ d \in Screens /\ active[d] # NoSession
    /\ \/ share[d].starts < MaxStarts /\ share' = [share EXCEPT ![d] = Starting(@)]
       \/ share' = [share EXCEPT ![d] = Stopped(@)]
    /\ UNCHANGED <<server, queue, call, pending, active, bound, history>>

-----------------------------------------------------------------------------
(* The user.                                                               *)

Put(c, d, k) == call' = [call EXCEPT ![d][k] = c]

\* NotifyDevice: the message goes to the connection of the device, or is dropped, as
\* there is none or its channel is full.
Send(d, m) ==
    \/ queue' = [queue EXCEPT ![d] = Append(@, m)] /\ UNCHANGED lost
    \/ d \in Unlucky /\ lost' = [lost EXCEPT ![d] = @ \cup {m}] /\ UNCHANGED queue

\* requestConnectionToDevice: nothing waits for its reply.
Ask(r) ==
    /\ request[r] = "none"
    /\ request' = [request EXCEPT ![r] = "pending"]
    /\ Send(To[r], [type |-> "session_request", id |-> r])
    /\ UNCHANGED <<session, call, view, told, clicked>>

\* onRespondRequest; a click before the reply to the last one is left out (Slots).
Click(d, accept) ==
    /\ pending[d] # None
    /\ call[d]["user"] = NoCall
    /\ Put([op |-> "respond", id |-> pending[d], accept |-> accept, step |-> "sent"], d, "user")
    /\ clicked' = clicked \cup {r \in {pending[d]} : accept}
    /\ UNCHANGED <<server, queue, view, lost, told>>

\* onEndSession, likewise.
ClickEnd(d) ==
    /\ active[d] # NoSession
    /\ call[d]["user"] = NoCall
    /\ Put([op |-> "end", id |-> active[d], step |-> "sent"], d, "user")
    /\ UNCHANGED <<server, queue, view, history>>

-----------------------------------------------------------------------------
(* The server.                                                             *)

At(d, k, op, step) == call[d][k] # NoCall /\ call[d][k].op = op /\ call[d][k].step = step
Step(d, k, step) == call' = [call EXCEPT ![d][k].step = step]

\* Mutant: every answer accepts.
Answer_Accepts(accept) == "accepted"

\* The status an answer gives a request.
Answer(accept) == IF accept THEN "accepted" ELSE "rejected"

\* A notice that panics loses the message as a full channel does; the call is refused
\* then, which the client does not tell from a reply.
ServeRespond(d, k) ==
    LET c == call[d][k]
    IN  /\ At(d, k, "respond", "sent")
        /\ \/ /\ request[c.id] = "pending"
              /\ request' = [request EXCEPT ![c.id] = Answer(c.accept)]
              /\ Send(From[c.id], [type |-> "session_response", id |-> c.id, status |-> request'[c.id]])
              /\ Step(d, k, "reply")
           \/ /\ request[c.id] # "pending"
              /\ Step(d, k, "refused")
              /\ UNCHANGED <<request, queue, lost>>
        /\ UNCHANGED <<session, view, told, clicked>>

MayStart(r) == request[r] = "accepted"

ServeStart(d, k) ==
    /\ At(d, k, "start", "sent")
    /\ \/ /\ MayStart(call[d][k].id) /\ Len(session) < MaxSessions
          /\ session' = Append(session, [request |-> call[d][k].id, state |-> "active"])
          /\ call' = [call EXCEPT ![d][k].step = "requester", ![d][k].session = Len(session) + 1]
       \/ /\ ~MayStart(call[d][k].id) \/ Len(session) = MaxSessions
          /\ Step(d, k, "refused")
          /\ UNCHANGED session
    /\ UNCHANGED <<request, queue, view, history>>

\* End refuses a session that is not active, and one whose token has expired.
ServeEnd(d, k) ==
    LET s == call[d][k].id
    IN  /\ At(d, k, "end", "sent")
        /\ \/ /\ session[s].state = "active"
              /\ session' = [session EXCEPT ![s].state = "ended"]
              /\ Step(d, k, "requester")
           \/ /\ session[s].state # "active"
              /\ Step(d, k, "refused")
              /\ UNCHANGED session
        /\ UNCHANGED <<request, queue, view, history>>

\* token_expires_at passes: nothing is written, and nobody is told.
Expire(s) ==
    /\ session[s].state = "active"
    /\ session' = [session EXCEPT ![s].state = "expired"]
    /\ UNCHANGED <<request, queue, call, view, history>>

\* What a start or an end has to tell, and about which session.
Subject(c) == IF c.op = "start" THEN c.session ELSE c.id
Notice(c) == [type |-> IF c.op = "start" THEN "session_started" ELSE "session_ended", id |-> Subject(c)]

\* Mutant: both notices of an end go to the requester.
Notified_RequesterTwice(c) ==
    IF c.op = "end" \/ c.step = "requester" THEN Requester(Subject(c)) ELSE Target(Subject(c))

\* The requester is notified first, then the target.
Notified(c) == IF c.step = "requester" THEN Requester(Subject(c)) ELSE Target(Subject(c))

Notify(d, k) ==
    LET c == call[d][k]
    IN  /\ c # NoCall /\ c.step \in {"requester", "target"}
        /\ Send(Notified(c), Notice(c))
        /\ Step(d, k, IF c.step = "requester" THEN "target" ELSE "reply")
        /\ UNCHANGED <<server, view, told, clicked>>

\* The channel of the device was closed after its lookup: the call panics and is
\* answered with an error, and its notices that were to come are never sent.
NotifyPanics(d, k) ==
    LET c == call[d][k]
        missed == {Notified(c), Target(Subject(c))}
    IN  /\ c # NoCall /\ c.step \in {"requester", "target"}
        /\ Notified(c) \in Unlucky
        /\ lost' = [e \in Devices |-> IF e \in missed THEN lost[e] \cup {Notice(c)} ELSE lost[e]]
        /\ Step(d, k, "refused")
        /\ UNCHANGED <<server, queue, view, told, clicked>>

-----------------------------------------------------------------------------
(* Replies.                                                                *)

\* The reply to a start is lost: fetchWithRetry sends it once more.  A respond or
\* an end that is sent again is refused, as after a click of the other end.
Resend(d) ==
    /\ d \in Unlucky
    /\ At(d, "start", "start", "reply") \/ At(d, "start", "start", "refused")
    /\ call[d]["start"].retry
    /\ call' = [call EXCEPT ![d]["start"].step = "sent", ![d]["start"].retry = FALSE]
    /\ UNCHANGED <<server, queue, view, history>>

\* onRespondRequest: whatever is pending by now is cleared.
RespondReply(d, k) ==
    /\ At(d, k, "respond", "reply") \/ At(d, k, "respond", "refused")
    /\ pending' = [pending EXCEPT ![d] = None]
    /\ Put(NoCall, d, k)
    /\ UNCHANGED <<server, queue, active, bound, share, history>>

\* The reply to /sessions/start: the session is shown, whatever has come since.
StartReply(d, k) ==
    /\ At(d, k, "start", "reply")
    /\ active' = [active EXCEPT ![d] = call[d][k].session]
    /\ Put(NoCall, d, k)
    /\ UNCHANGED <<server, queue, pending, bound, share, history>>

\* Mutant: the input handlers stay.
Cleanup_KeepInput(d) ==
    /\ active' = [active EXCEPT ![d] = NoSession]
    /\ share' = [share EXCEPT ![d] = Stopped(@)]
    /\ UNCHANGED bound

\* cleanupActiveSession.
Cleanup(d) ==
    /\ active' = [active EXCEPT ![d] = NoSession]
    /\ share' = [share EXCEPT ![d] = Stopped(@)]
    /\ bound' = [bound EXCEPT ![d] = FALSE]

\* The reply to /sessions/end: whatever is shown by now is cleaned up.
EndReply(d, k) ==
    /\ At(d, k, "end", "reply")
    /\ Cleanup(d)
    /\ told' = [told EXCEPT ![d] = @ \cup {call[d][k].id}]
    /\ Put(NoCall, d, k)
    /\ UNCHANGED <<server, queue, pending, lost, clicked>>

\* The call fails; the client only logs it.
Failure(d, k) ==
    /\ At(d, k, "start", "refused") \/ At(d, k, "end", "refused")
    /\ Put(NoCall, d, k)
    /\ UNCHANGED <<server, queue, view, history>>

-----------------------------------------------------------------------------
(* Messages.                                                               *)

Heads(d, type) == queue[d] # <<>> /\ Head(queue[d]).type = type
Take(d) == queue' = [queue EXCEPT ![d] = Tail(@)]

OnRequest(d) ==
    /\ Heads(d, "session_request")
    /\ Take(d)
    /\ pending' = [pending EXCEPT ![d] = Head(queue[d]).id]
    /\ UNCHANGED <<server, call, active, bound, share, history>>

OnResponse(d) ==
    /\ Heads(d, "session_response")
    /\ Take(d)
    /\ \/ /\ Head(queue[d]).status = "accepted"
          /\ call[d]["start"] = NoCall
          /\ Put([op |-> "start", id |-> Head(queue[d]).id, session |-> NoSession,
                  step |-> "sent", retry |-> TRUE], d, "start")
       \/ Head(queue[d]).status # "accepted" /\ UNCHANGED call
    /\ UNCHANGED <<server, view, history>>

OnStarted(d) ==
    LET s == Head(queue[d]).id
    IN  /\ Heads(d, "session_started")
        /\ Take(d)
        /\ active' = [active EXCEPT ![d] = s]
        /\ bound' = [bound EXCEPT ![d] = Requester(s) = d]
        /\ share' = [share EXCEPT ![d] = IF Requester(s) = d \/ d \notin Screens THEN @ ELSE Starting(@)]
        /\ UNCHANGED <<server, call, pending, history>>

\* Only the session that is shown is cleaned up.
OnEnded(d) ==
    LET s == Head(queue[d]).id
    IN  /\ Heads(d, "session_ended")
        /\ Take(d)
        /\ told' = [told EXCEPT ![d] = @ \cup {s}]
        /\ \/ active[d] = s /\ Cleanup(d)
           \/ active[d] # s /\ UNCHANGED <<active, bound, share>>
        /\ UNCHANGED <<server, call, pending, lost, clicked>>

\* The socket closes; the client reconnects, and nothing is sent again.
Disconnect(d) ==
    /\ d \in Unlucky /\ queue[d] # <<>>
    /\ queue' = [queue EXCEPT ![d] = <<>>]
    /\ lost' = [lost EXCEPT ![d] = @ \cup {queue[d][i] : i \in 1 .. Len(queue[d])}]
    /\ UNCHANGED <<server, call, view, told, clicked>>

-----------------------------------------------------------------------------
User(d) == ShareClick(d) \/ Click(d, TRUE) \/ Click(d, FALSE) \/ ClickEnd(d)

Loss(d) == Disconnect(d) \/ Resend(d)

Sharing(d) == ShareBegins(d) \/ ShareRefused(d) \/ ShareCaptures(d) \/ ShareFallsBack(d)

Serve(d, k) ==
    /\ call[d][k] # NoCall
    /\ \/ ServeRespond(d, k) \/ ServeStart(d, k) \/ ServeEnd(d, k)
       \/ Notify(d, k) \/ NotifyPanics(d, k)

Reply(d, k) == call[d][k] # NoCall /\ (RespondReply(d, k) \/ StartReply(d, k) \/ EndReply(d, k) \/ Failure(d, k))

Deliver(d) == queue[d] # <<>> /\ (OnRequest(d) \/ OnResponse(d) \/ OnStarted(d) \/ OnEnded(d))

Next == \/ \E r \in Requests : Ask(r)
        \/ \E s \in 1 .. Len(session) : Expire(s)
        \/ \E d \in Devices : \/ User(d) \/ Loss(d) \/ Sharing(d) \/ Deliver(d)
                              \/ \E k \in Slots : Serve(d, k) \/ Reply(d, k)

Spec == Init /\ [][Next]_vars

-----------------------------------------------------------------------------
TypeOK ==
    /\ request \in [Requests -> {"none", "pending", "accepted", "rejected"}]
    /\ session \in Seq([request : Requests, state : {"active", "expired", "ended"}]) /\ Len(session) <= MaxSessions
    /\ DOMAIN queue = Devices /\ DOMAIN call = Devices
    /\ \A d \in Devices : \A i \in 1 .. Len(queue[d]) :
          queue[d][i].id \in IF queue[d][i].type \in {"session_request", "session_response"}
                             THEN Requests ELSE 1 .. Len(session)
    /\ \A d \in Devices : \A k \in Slots : call[d][k] # NoCall =>
          call[d][k].id \in IF call[d][k].op = "end" THEN 1 .. Len(session) ELSE Requests
    /\ pending \in [Devices -> Requests \cup {None}]
    /\ active \in [Devices -> 0 .. Len(session)]
    /\ bound \in [Devices -> BOOLEAN]
    /\ share \in [Devices -> [timer : BOOLEAN, stray : BOOLEAN, shot : BOOLEAN, starts : Nat, overlapped : BOOLEAN]]

Shows(d, s) == active[d] = s /\ s # NoSession
Ended(s) == s \in 1 .. Len(session) /\ session[s].state = "ended"

\* Whatever is answered twice, sent again or overtaken, a client only shows a
\* session it is an end of, and only one whose target's user accepted the
\* request while it was on the screen (app.js:127-151, 430-448).
ShownIsConsented ==
    \A d \in Devices : active[d] # NoSession =>
        /\ d \in {Requester(active[d]), Target(active[d])}
        /\ session[active[d]].request \in clicked

\* Mouse and keyboard are captured only while a session is shown that this
\* device asked for; never for the host of the session that is shown, although
\* replies and messages set the session by different ways (app.js:146, 153-173).
InputFollowsRole ==
    \A d \in Devices : bound[d] => active[d] # NoSession /\ Requester(active[d]) = d

\* An interval that nothing can stop any more comes only from two starts that
\* overlapped (session.js:24-48, 116-162).
StraysAreOverlaps == \A d \in Devices : share[d].stray => share[d].overlapped

\* A client that shows a session that has been ended was told so before, and showed it
\* again when an older reply or session_started came (app.js:146, 157, 182-187); or the
\* call that ended it has not told this client yet, or what it sent is on the way; or
\* that message was lost: with its connection, at a full channel, or because a notice
\* that panicked ended the call (hub.go:192-203, service.go:355-356).  Of a session
\* that expires no client is told, and its End is refused (service.go:295).
StaleWasTold ==
    \A d \in Devices, s \in Ids : Shows(d, s) /\ Ended(s) =>
        LET news == [type |-> "session_ended", id |-> s]
        IN  \/ s \in told[d] \/ news \in lost[d]
            \/ \E i \in 1 .. Len(queue[d]) : queue[d][i] = news
            \/ \E e \in Devices, k \in Slots :
                  /\ call[e][k] # NoCall
                  /\ call[e][k].op = "end" /\ call[e][k].id = s
                  /\ call[e][k].step = "requester" \/ (call[e][k].step = "target" /\ d = Target(s))

\* What the server of this module keeps is the strong life cycle of
\* SessionLifecycle, the one SessionService implements as long as answers to one
\* request do not overlap: every request is answered once, and a start that is
\* sent again, a late click or a second end finds the rows as they are by then.
Service == INSTANCE SessionLifecycle WITH
    RequestIds <- Requests, SessionIds <- Ids, OneAnswer <- TRUE,
    requests <- [r \in Requests |->
        IF request[r] = "none" THEN [status |-> "absent", from |-> None, to |-> None]
        ELSE [status |-> request[r], from |-> From[r], to |-> To[r]]],
    remote <- [s \in Ids |->
        IF s > Len(session) THEN [status |-> "absent", from |-> None, to |-> None]
        ELSE [status |-> IF session[s].state = "ended" THEN "ended" ELSE "active",
              from |-> Requester(s), to |-> Target(s)]],
    granted <- {r \in Requests : request[r] = "accepted"}

ServerKeepsLifecycle == Service!Spec
=============================================================================
