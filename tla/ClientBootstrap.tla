--------------------------- MODULE ClientBootstrap ---------------------------
(***************************************************************************)
(* How a client gets and renews its identity, its tokens and its websocket *)
(* (client/src/js/app.js, modules/api.js, ws.js, config.js).               *)
(*                                                                         *)
(* A task is a chain of asynchronous functions that wait for each other:   *)
(* stack[t] holds their frames, and back[t] is what the function that the  *)
(* last one awaits has returned.  Tasks interleave where they await.  The  *)
(* flags bootstrappingAuth and recoveringDeviceIdentity are set while there*)
(* is such a frame; invalidDeviceAuthRecoveryInFlight only when the second *)
(* is set, and to the same effect.                                         *)
(*                                                                         *)
(* The server may answer anything it answers in some state of its own (see *)
(* DeviceEnrollment), and a call may time out.  An identity is the number  *)
(* and key of a device, which are drawn together; one that nothing refers  *)
(* to may be drawn again, so that runs have no end.  A restart of the app  *)
(* is another behaviour, with the tokens localStorage has by then.         *)
(***************************************************************************)
EXTENDS Integers, Sequences, SequencesExt

CONSTANTS
    Identities, \* enough to draw one that nothing refers to
    Limit,      \* closes with code 1006 in a row that renew the identity, 3 in the code
    Tasks,      \* bound: chains of calls in progress
    None

ASSUME IdentityAssumption == Identities # {} /\ None \notin Identities /\ Limit \in Nat \ {0}

\* A function that has returned is told from one that has not.
ASSUME NoneAssumption == None \notin [as : {"ok", "error", "refused"}, id : Identities \cup {None}]

VARIABLES
    ident,     \* what localStorage has as the identity
    tokens,    \* whether state.tokens and localStorage have tokens
    device,    \* state.device.id
    socket,    \* wsClient.socket
    connected, \* state.wsConnected
    auto,      \* wsClient.autoReconnect
    timer,     \* a reconnection is due
    closes,    \* wsClose1006Count
    rested,    \* 20 seconds have passed since lastDeviceRecoveryAt
    stack, back,
    skipped    \* history: the identity changed since a bootstrap began, which did not notice

vars == <<ident, tokens, device, socket, connected, auto, timer, closes, rested, stack, back, skipped>>

wires == <<socket, connected, auto, timer, closes>>
client == <<ident, tokens, device, rested, skipped>>
chain == <<stack, back>>

\* What a function returns: a result and, with that of a login or a registration,
\* the device.
Done == [as |-> "ok", id |-> None]
Failed == [as |-> "error", id |-> None]
Refused == [as |-> "refused", id |-> None]

BootFrame(fresh, at) == [op |-> "boot", at |-> at, fresh |-> fresh]
RecoverFrame(at) == [op |-> "recover", at |-> at]

\* A call of apiRequest.  id: the identity it is about, if that matters.
CallFrame(path, i, retried) == [op |-> "call", at |-> path, id |-> i, retried |-> retried]

\* Whether some task is in a function of this kind.
Within(op) == \E t \in Tasks : \E n \in 1 .. Len(stack[t]) : stack[t][n].op = op

\* Mutant: a bootstrap does not look for another.
Booting_Unnoticed == FALSE

Booting == Within("boot")
Recovering == Within("recover")

Idle(t) == stack[t] = <<>>
At(t, op, at) == ~Idle(t) /\ Last(stack[t]).op = op /\ Last(stack[t]).at = at
Returned(t, as) == back[t] # None /\ back[t].as = as
Below(t) == Front(stack[t])

\* t goes on with frames s, to whose last one, if there is one, r was returned.
Go(t, s, r) ==
    /\ stack' = [stack EXCEPT ![t] = s]
    /\ back' = [back EXCEPT ![t] = IF s = <<>> THEN None ELSE r]

First == CHOOSE t \in Tasks : TRUE

\* The app starts.
Init ==
    /\ ident = CHOOSE i \in Identities : TRUE
    /\ tokens \in BOOLEAN /\ device = None
    /\ socket = "none" /\ connected = FALSE /\ auto = TRUE /\ timer = FALSE /\ closes = 0
    /\ rested = TRUE /\ skipped = FALSE
    /\ stack = [t \in Tasks |-> IF t = First THEN <<BootFrame(FALSE, "health")>> ELSE <<>>]
    /\ back = [t \in Tasks |-> None]

-----------------------------------------------------------------------------
(* The socket.                                                             *)

\* Mutant: automatic reconnection stays as it is.
Connect_KeepAuto(tok, id) ==
    IF tok /\ id # None THEN socket' = "connecting" /\ UNCHANGED auto ELSE UNCHANGED <<socket, auto>>

\* WSClient.connect, with these tokens and device, when there is no socket.
Connect(tok, id) ==
    IF tok /\ id # None THEN socket' = "connecting" /\ auto' = TRUE ELSE UNCHANGED <<socket, auto>>

\* WSClient.disconnect; the close of that socket is not listened to any more.
Disconnect ==
    /\ socket' = "none"
    /\ auto' = (auto /\ socket = "none")

\* disconnect and connect.
Reconnect(tok, id) == IF tok /\ id # None THEN Connect(tok, id) ELSE Disconnect

SocketOpens ==
    /\ socket = "connecting" /\ socket' = "open"
    /\ connected' = TRUE
    /\ closes' = 0
    /\ UNCHANGED <<client, chain, auto, timer>>

\* Mutant: no count of such closes is too high.
SocketCloses_Uncounted ==
    /\ socket # "none" /\ socket' = "none"
    /\ connected' = FALSE /\ timer' = TRUE
    /\ closes' \in {0, closes + 1}
    /\ UNCHANGED <<client, chain, auto>>

\* Closed with code 1006, less than Limit times in a row, or with another.
SocketCloses ==
    /\ socket # "none" /\ socket' = "none"
    /\ connected' = FALSE /\ timer' = TRUE
    /\ closes' \in {0} \cup {n \in {closes + 1} : n < Limit}
    /\ UNCHANGED <<client, chain, auto>>

\* The reconnection 2.5 seconds after a close.
Timer ==
    /\ timer /\ timer' = FALSE
    /\ IF auto /\ socket = "none" THEN Connect(tokens, device) ELSE UNCHANGED <<socket, auto>>
    /\ UNCHANGED <<client, chain, connected, closes>>

-----------------------------------------------------------------------------
(* Identity.                                                               *)

Referred == {ident, device} \cup {back[t].id : t \in {u \in Tasks : back[u] # None}}
              \cup {Last(stack[t]).id : t \in {u \in Tasks : ~Idle(u) /\ Last(stack[u]).op = "call"}}

\* Bound: there is an identity left to draw.
Fresh == Identities \ Referred

\* resetDeviceIdentity.
Redraw == Fresh # {} /\ ident' = CHOOSE i \in Fresh : TRUE

\* bootstrapDeviceAuth(TRUE) from frames s, after resetDeviceIdentity: it returns
\* at once when there is another bootstrap.
Renew(t, s) ==
    /\ Redraw
    /\ \/ Booting /\ Go(t, s, Done) /\ skipped' = TRUE /\ UNCHANGED <<tokens, device>>
       \/ /\ ~Booting /\ Go(t, Append(s, BootFrame(TRUE, "health")), None)
          /\ skipped' = FALSE /\ tokens' = FALSE /\ device' = None

\* What such a bootstrap does to the socket.
Cut == IF Booting THEN UNCHANGED <<socket, connected, auto>> ELSE Disconnect /\ connected' = FALSE

\* Mutant: the identity is renewed and no bootstrap is asked for.
Reprovision_NoBootstrap(t) == Idle(t) /\ Redraw /\ UNCHANGED <<wires, chain, tokens, device, rested, skipped>>

\* onReprovisionDevice.
Reprovision(t) == Idle(t) /\ Renew(t, <<>>) /\ Cut /\ UNCHANGED <<timer, closes, rested>>

\* bootstrapDeviceAuth(FALSE) by a button or from onSaveSettings.
Retry(t) ==
    /\ Idle(t) /\ ~Booting
    /\ Go(t, <<BootFrame(FALSE, "health")>>, None)
    /\ skipped' = FALSE
    /\ UNCHANGED <<wires, ident, tokens, device, rested>>

\* Mutant: a recovery does not look for another, only for the time since the last.
MayRecover_InTime == rested

\* recoverDeviceIdentity from frames s, where it does not return at once.
MayRecover == ~Recovering /\ rested
Recover(t, s) == MayRecover /\ rested' = FALSE /\ Renew(t, Append(s, RecoverFrame("boot")))

\* Closed with code 1006 once too often.
SocketClosesAgain(t) ==
    /\ socket # "none" /\ closes = Limit - 1 /\ Idle(t)
    /\ socket' = "none" /\ connected' = FALSE /\ timer' = TRUE /\ closes' = 0
    /\ \/ Recover(t, <<>>)
       \/ ~MayRecover /\ UNCHANGED <<client, chain>>
    /\ UNCHANGED auto

\* refreshDevices from frames s: one call, whose error is only logged.
Refresh(t, s, tok) == IF tok THEN Go(t, Append(s, CallFrame("devices", None, FALSE)), None) ELSE Go(t, s, Done)

\* A button that calls the server, refreshDevices for one.
Use(t) ==
    /\ Idle(t) /\ tokens
    /\ Refresh(t, <<>>, tokens)
    /\ UNCHANGED <<wires, client>>

RecoverRefreshes(t) ==
    /\ At(t, "recover", "boot") /\ back[t] # None
    /\ Refresh(t, Append(Below(t), RecoverFrame("refresh")), tokens)
    /\ UNCHANGED <<wires, client>>

RecoverEnds(t) ==
    /\ At(t, "recover", "refresh") /\ back[t] # None
    /\ Go(t, Below(t), Done)
    /\ UNCHANGED <<wires, client>>

-----------------------------------------------------------------------------
(* Bootstrap.                                                              *)

\* The frames of t with its bootstrap at another await.
Moved(t, at) == Append(Below(t), BootFrame(Last(stack[t]).fresh, at))
Login(t) == Go(t, Append(Moved(t, "login"), CallFrame("login", ident, FALSE)), None)

\* Whatever /health answers, it goes on.
BootHealth(t) ==
    /\ At(t, "boot", "health")
    /\ \/ (Last(stack[t]).fresh \/ ~tokens) /\ Login(t)
       \/ /\ ~Last(stack[t]).fresh /\ tokens
          /\ Go(t, Append(Moved(t, "me"), CallFrame("me", None, FALSE)), None)
    /\ UNCHANGED <<wires, client>>

\* /api/me, and registerCurrentDevice after it.
BootMe(t) ==
    /\ At(t, "boot", "me") /\ Returned(t, "ok")
    /\ IF tokens THEN Go(t, Append(Moved(t, "register"), CallFrame("register", ident, FALSE)), None)
       ELSE Refresh(t, Moved(t, "refresh"), tokens)
    /\ UNCHANGED <<wires, client>>

BootRegister(t) ==
    /\ At(t, "boot", "register") /\ Returned(t, "ok")
    /\ device' = back[t].id
    /\ Reconnect(tokens, device')
    /\ Refresh(t, Moved(t, "refresh"), tokens)
    /\ UNCHANGED <<ident, tokens, rested, skipped, connected, timer, closes>>

\* The identity is renewed; bootstrapDeviceAuth(TRUE) returns at once, because
\* this is a bootstrap, and refreshDevices is next.
BootRegisterRefused(t) ==
    /\ At(t, "boot", "register") /\ Returned(t, "refused")
    /\ Redraw /\ skipped' = TRUE
    /\ Refresh(t, Moved(t, "refresh"), tokens)
    /\ UNCHANGED <<wires, tokens, device, rested>>

\* The error of /api/me or of the registration is caught.
BootFallsBack(t) ==
    /\ At(t, "boot", "me") \/ At(t, "boot", "register")
    /\ Returned(t, "error")
    /\ tokens' = FALSE /\ device' = None
    /\ Login(t)
    /\ UNCHANGED <<wires, ident, rested, skipped>>

BootLogin(t) ==
    /\ At(t, "boot", "login") /\ Returned(t, "ok")
    /\ tokens' = TRUE /\ device' = back[t].id
    /\ Reconnect(tokens', device')
    /\ Refresh(t, Moved(t, "refresh"), tokens')
    /\ UNCHANGED <<ident, rested, skipped, connected, timer, closes>>

\* deviceLogin throws: the bootstrap ends without tokens; an open socket stays.
BootFails(t) ==
    /\ At(t, "boot", "login") /\ Returned(t, "error")
    /\ tokens' = FALSE /\ device' = None /\ connected' = FALSE
    /\ Go(t, Below(t), Done)
    /\ UNCHANGED <<ident, rested, skipped, socket, auto, timer, closes>>

BootEnds(t) ==
    /\ At(t, "boot", "refresh") /\ back[t] # None
    /\ Go(t, Below(t), Done)
    /\ UNCHANGED <<wires, client>>

-----------------------------------------------------------------------------
(* Calls.                                                                  *)

\* Answered, refused as isRecoverableDeviceRegistrationError has it, or failed.
Answers(path, i) ==
    {Failed} \cup CASE path = "login" -> {[Done EXCEPT !.id = i]}
                    [] path = "register" -> {[Done EXCEPT !.id = i], Refused}
                    [] OTHER -> {Done}

CallEnds(t) ==
    LET c == Last(stack[t])
    IN  /\ ~Idle(t) /\ c.op = "call" /\ back[t] = None
        /\ \E r \in Answers(c.at, c.id) : Go(t, Below(t), r)
        /\ UNCHANGED <<wires, client>>

\* Mutant: a call that was repeated is repeated again.
MayRepeat_Always(c) == c.at = "devices"

\* shouldRecoverFromInvalidDeviceAuth; /api/me does not authenticate the device.
MayRepeat(c) == c.at = "devices" /\ ~c.retried

Repeat(t) == Go(t, Append(Below(t), CallFrame("devices", None, TRUE)), None)

\* "invalid device authentication": the identity is renewed before the call is
\* repeated.
CallRecovers(t) ==
    /\ ~Idle(t) /\ Last(stack[t]).op = "call" /\ back[t] = None /\ MayRepeat(Last(stack[t]))
    /\ \/ Recover(t, stack[t]) /\ Cut
       \/ ~MayRecover /\ Repeat(t) /\ UNCHANGED <<client, socket, connected, auto>>
    /\ UNCHANGED <<timer, closes>>

CallRepeats(t) ==
    /\ At(t, "call", "devices") /\ back[t] # None
    /\ Repeat(t)
    /\ UNCHANGED <<wires, client>>

-----------------------------------------------------------------------------
TwentySeconds == ~rested /\ rested' = TRUE /\ UNCHANGED <<wires, chain, ident, tokens, device, skipped>>

User(t) == Reprovision(t) \/ Retry(t) \/ Use(t)

Boot(t) == \/ BootHealth(t) \/ BootMe(t) \/ BootRegister(t) \/ BootRegisterRefused(t) \/ BootFallsBack(t)
           \/ BootLogin(t) \/ BootFails(t) \/ BootEnds(t)

Progress(t) ==
    ~Idle(t) /\ (Boot(t) \/ RecoverRefreshes(t) \/ RecoverEnds(t) \/ CallEnds(t) \/ CallRecovers(t) \/ CallRepeats(t))

Next == \/ SocketOpens \/ SocketCloses \/ Timer \/ TwentySeconds
        \/ \E t \in Tasks : User(t) \/ SocketClosesAgain(t) \/ Progress(t)

Spec == Init /\ [][Next]_vars

\* Calls are answered or time out, and timers fire.
Fairness == WF_vars(Timer) /\ \A t \in Tasks : WF_vars(Progress(t))

FairSpec == Spec /\ Fairness

-----------------------------------------------------------------------------
TypeOK ==
    /\ ident \in Identities
    /\ tokens \in BOOLEAN
    /\ device \in Identities \cup {None}
    /\ socket \in {"none", "connecting", "open"}
    /\ {connected, auto, timer, rested, skipped} \subseteq BOOLEAN
    /\ closes \in 0 .. Limit - 1

\* A client that has a device has tokens for it: what one bootstrap is about to
\* set is never taken away by another (app.js:232-246, 343-345).
DeviceHasToken == device # None => tokens

\* The client only says it is connected while there is a socket, although a
\* socket it closed itself does not report its end (ws.js:56-72, 91-97).
ConnectedHasSocket == connected => socket # "none"

\* When nothing is in progress, the device the client works as is the one its
\* identity is of, except after the identity was renewed while a bootstrap ran,
\* which does not notice (app.js:233-235, 389-392, 719-722, 787-788).
MismatchIsSkipped == (\A t \in Tasks : Idle(t)) /\ device # None => device = ident \/ skipped

\* A call that recovers, the recovery, its bootstrap and a call of that: a chain is
\* never longer, and no recovery or bootstrap is reached from within its own kind,
\* although each of them makes calls that may ask for a recovery again
\* (api.js:100-107, app.js:233-235, 343-393, 775).
ChainsAreShort ==
    \A t \in Tasks :
        /\ Len(stack[t]) <= 4
        /\ \A n \in 1 .. Len(stack[t]) : \A m \in 1 .. n - 1 :
               stack[t][m].op = stack[t][n].op => stack[t][n].op = "call"

\* How many steps frame n of chain s, to which r was returned, may still take and
\* cause above itself.  Refreshing the devices is one call, or two within a
\* recovery, or the call, a recovery with its bootstrap, and the call again.
Inside(s, n) == \E m \in 1 .. n - 1 : s[m].op = "recover"
Refreshing(s, n) == IF Inside(s, n) THEN 2 ELSE 17

Worth(s, r, n) ==
    IF n > Len(s) THEN 0
    ELSE CASE s[n].op = "call" /\ (s[n].at # "devices" \/ s[n].retried) -> 1
           [] s[n].op = "call" /\ s[n].at = "devices" /\ ~s[n].retried ->
                 IF n < Len(s) \/ r # None THEN 2 ELSE Refreshing(s, n)
           [] s[n].op = "recover" -> IF s[n].at = "refresh" THEN 1 ELSE 4
           [] s[n].op = "boot" -> CASE s[n].at = "refresh" -> 1
                                    [] s[n].at = "login" -> Refreshing(s, n) + 2
                                    [] s[n].at = "register" -> Refreshing(s, n) + 4
                                    [] s[n].at = "me" -> Refreshing(s, n) + 6
                                    [] s[n].at = "health" -> Refreshing(s, n) + 8

StepsLeft(s, r) == Worth(s, r, 1) + Worth(s, r, 2) + Worth(s, r, 3) + Worth(s, r, 4)

\* A chain has at most 25 steps, whatever the server answers and the other chains
\* do: a recovery makes calls that may recover, and a call is repeated after one,
\* but every step leaves fewer to come (api.js:40-45, 100-124; app.js:232-280).
ChainsRunDown ==
    [][\A t \in Tasks :
          /\ Progress(t) => StepsLeft(stack'[t], back'[t]) < StepsLeft(stack[t], back[t])
          /\ ~Idle(t) => StepsLeft(stack'[t], back'[t]) <= StepsLeft(stack[t], back[t])
          /\ Idle(t) => StepsLeft(stack'[t], back'[t]) <= 25]_vars

\* No chain of calls, recovery, bootstrap and repeated calls waits for itself or
\* goes on for ever (api.js:40-45, 100-107; app.js:233, 343-393, 775).
TasksEnd == \A t \in Tasks : ~Idle(t) ~> Idle(t)

\* A client with tokens and a device gets a socket again, unless it loses its
\* tokens first (ws.js:67-72, 91-97).
Reconnects == tokens /\ device # None ~> socket # "none" \/ ~tokens
=============================================================================
