------------------------------- MODULE WsHub --------------------------------
(***************************************************************************)
(* The websocket hub of the server (server/internal/ws/hub.go): the map of *)
(* connected devices, and for each connection the goroutines that share    *)
(* it.  HandleWS sets the device online, registers the connection and      *)
(* sends a welcome; readPump handles the messages of the device and        *)
(* unregisters the connection when reading fails; writePump writes what    *)
(* the others put on the bounded channel Client.send.  NotifyDevice is     *)
(* called by HTTP handlers and, to relay signals, by the readPump of the   *)
(* other device.                                                           *)
(*                                                                         *)
(* Every step below is one access to what the goroutines share: the map    *)
(* (under Hub.mu), a channel, a socket, or the status column of the table  *)
(* devices.  The content of messages is left out; a queue is its length.   *)
(***************************************************************************)
EXTENDS Integers

CONSTANTS
    Devices,
    Conns,         \* connections, each used at most once
    DeviceOf,      \* the device that opens each connection
    Notifiers,     \* HTTP handlers that call NotifyDevice at the same time
    Capacity,      \* capacity of Client.send
    MessageKinds,  \* the kinds of message the devices send in this instance
    MayStop,       \* whether the server may be stopped in this instance
    MayFail,       \* whether the database may fail a statement in this instance
    None

ASSUME DeviceAssumption    == DeviceOf \in [Conns -> Devices]
ASSUME CapacityAssumption  == Capacity \in Nat \ {0}
ASSUME NoneAssumption      == None \notin Conns
ASSUME CallerAssumption    == Notifiers \cap Conns = {}
ASSUME GoroutineAssumption == {"handler", "notifier"} \cap Conns = {}
ASSUME KindsAssumption     == MessageKinds \subseteq {"ping", "heartbeat", "session_signal", "other"}

VARIABLES
    clients,  \* Hub.clients
    link,     \* the socket of each connection
    queue,    \* how many messages Client.send holds
    open,     \* Client.send has not been closed
    handler,  \* what HandleWS does next for a connection
    reader,   \* what readPump does next
    writer,   \* whether writePump runs
    held,     \* the client a caller of NotifyDevice has looked up
    online,   \* devices.status = "online"
    panics,   \* history: the goroutines that sent on a closed channel
    blame     \* history: what went wrong since the status last was the truth

vars == <<clients, link, queue, open, handler, reader, writer, held, online, panics, blame>>

Callers == Notifiers \cup Conns   \* a connection stands for its readPump

\* The states of a readPump in its loop, and on its way out of it.
Looping == {"read", "pong", "heartbeat", "relay", "send"}
Leaving == {"unregister", "close", "close_offline", "hangup", "hangup_offline", "offline"}

TypeOK ==
    /\ clients \in [Devices -> Conns \cup {None}]
    /\ link \in [Conns -> {"unused", "up", "silent", "closed"}]
    /\ queue \in [Conns -> 0 .. Capacity]
    /\ open \in [Conns -> BOOLEAN]
    /\ handler \in [Conns -> {"idle", "set_online", "register", "welcome", "done"}]
    /\ reader \in [Conns -> {"off", "done", "die"} \cup Looping \cup Leaving]
    /\ writer \in [Conns -> {"off", "run", "done"}]
    /\ held \in [Callers -> Conns \cup {None}]
    /\ online \in [Devices -> BOOLEAN]
    /\ panics \subseteq {"handler", "notifier"} \cup Conns
    /\ blame \in [Devices -> {"none", "late", "failed", "stop"}]

Init ==
    /\ clients = [d \in Devices |-> None]
    /\ link = [c \in Conns |-> "unused"]
    /\ queue = [c \in Conns |-> 0]
    /\ open = [c \in Conns |-> TRUE]
    /\ handler = [c \in Conns |-> "idle"]
    /\ reader = [c \in Conns |-> "off"]
    /\ writer = [c \in Conns |-> "off"]
    /\ held = [t \in Callers |-> None]
    /\ online \in [Devices -> BOOLEAN]
    /\ panics = {}
    /\ blame = [d \in Devices |-> "none"]

Closed(c) == [link EXCEPT ![c] = "closed"]

\* Mutant: the channel is not bounded.
Enqueue_Unbounded(c) ==
    /\ open[c]
    /\ queue' = [queue EXCEPT ![c] = @ + 1]

\* send <- m, for a channel that is open and has room.
Enqueue(c) ==
    /\ open[c] /\ queue[c] < Capacity
    /\ queue' = [queue EXCEPT ![c] = @ + 1]

\* A send that gives up at once: a full channel drops the message, a closed one
\* makes the goroutine panic.
Offer(c, goroutine) ==
    \/ Enqueue(c) /\ UNCHANGED panics
    \/ open[c] /\ queue[c] = Capacity /\ UNCHANGED <<queue, panics>>
    \/ ~open[c] /\ panics' = panics \cup {goroutine} /\ UNCHANGED queue

\* SetStatus: the row is written, or the statement fails, which no caller looks at
\* and none repeats.
SetStatus(d, isOnline, wrong) ==
    \/ /\ online' = [online EXCEPT ![d] = isOnline]
       /\ blame' = [blame EXCEPT ![d] = wrong]
    \/ /\ MayFail
       /\ blame' = [blame EXCEPT ![d] = IF isOnline THEN @ ELSE "failed"]
       /\ UNCHANGED online

-----------------------------------------------------------------------------
(* HandleWS                                                                *)

\* The device is authenticated and the connection upgraded.
Upgrade(c) ==
    /\ link[c] = "unused"
    /\ link' = [link EXCEPT ![c] = "up"]
    /\ handler' = [handler EXCEPT ![c] = "set_online"]
    /\ UNCHANGED <<clients, queue, open, reader, writer, held, online, panics, blame>>

SetOnline(c) ==
    /\ handler[c] = "set_online"
    /\ SetStatus(DeviceOf[c], TRUE, "none")
    /\ handler' = [handler EXCEPT ![c] = "register"]
    /\ UNCHANGED <<clients, link, queue, open, reader, writer, held, panics>>

\* Mutant: the connection that is replaced is left open.
Register_KeepExisting(c) ==
    /\ handler[c] = "register"
    /\ clients' = [clients EXCEPT ![DeviceOf[c]] = c]
    /\ handler' = [handler EXCEPT ![c] = "welcome"]
    /\ reader' = [reader EXCEPT ![c] = "read"]
    /\ writer' = [writer EXCEPT ![c] = "run"]
    /\ UNCHANGED <<link, queue, open, held, online, panics, blame>>

\* The connection takes the place of the one the device had, whose socket is
\* closed; then its two pumps are started.
Register(c) ==
    /\ handler[c] = "register"
    /\ LET existing == clients[DeviceOf[c]]
       IN  link' = IF existing = None THEN link ELSE Closed(existing)
    /\ clients' = [clients EXCEPT ![DeviceOf[c]] = c]
    /\ handler' = [handler EXCEPT ![c] = "welcome"]
    /\ reader' = [reader EXCEPT ![c] = "read"]
    /\ writer' = [writer EXCEPT ![c] = "run"]
    /\ UNCHANGED <<queue, open, held, online, panics, blame>>

\* The welcome waits for room.  If readPump has closed the channel meanwhile the
\* send panics, which the HTTP server recovers.
Welcome(c) ==
    /\ handler[c] = "welcome"
    /\ \/ Enqueue(c) /\ UNCHANGED panics
       \/ ~open[c] /\ panics' = panics \cup {"handler"} /\ UNCHANGED queue
    /\ handler' = [handler EXCEPT ![c] = "done"]
    /\ UNCHANGED <<clients, link, open, reader, writer, held, online, blame>>

-----------------------------------------------------------------------------
(* readPump                                                                *)

ReaderGoes(c, step) == reader' = [reader EXCEPT ![c] = step]

\* After a send to another's or its own channel readPump reads on; nothing recovers
\* it from a panic, and its deferred unregister runs.
ReaderSent(c, channel) == ReaderGoes(c, IF open[channel] THEN "read" ELSE "unregister")

\* Mutant: without a read deadline a peer that vanished is never noticed.
ReadFails_NoDeadline(c) ==
    /\ reader[c] = "read"
    /\ link[c] = "closed"
    /\ ReaderGoes(c, "unregister")
    /\ UNCHANGED <<clients, link, queue, open, handler, writer, held, online, panics, blame>>

\* Reading fails on a closed socket, and after pongWait on a silent one.
ReadFails(c) ==
    /\ reader[c] = "read"
    /\ link[c] \in {"closed", "silent"}
    /\ ReaderGoes(c, "unregister")
    /\ UNCHANGED <<clients, link, queue, open, handler, writer, held, online, panics, blame>>

ReadPing(c) ==
    /\ reader[c] = "read" /\ link[c] = "up" /\ "ping" \in MessageKinds
    /\ ReaderGoes(c, "pong")
    /\ UNCHANGED <<clients, link, queue, open, handler, writer, held, online, panics, blame>>

\* The reply to a ping waits for room in the channel.
SendPong(c) ==
    /\ reader[c] = "pong"
    /\ \/ Enqueue(c) /\ UNCHANGED panics
       \/ ~open[c] /\ panics' = panics \cup {c} /\ UNCHANGED queue
    /\ ReaderSent(c, c)
    /\ UNCHANGED <<clients, link, open, handler, writer, held, online, blame>>

ReadHeartbeat(c) ==
    /\ reader[c] = "read" /\ link[c] = "up" /\ "heartbeat" \in MessageKinds
    /\ ReaderGoes(c, "heartbeat")
    /\ UNCHANGED <<clients, link, queue, open, handler, writer, held, online, panics, blame>>

\* Mutant: a heartbeat is read and ignored.
Heartbeat_Ignored(c) ==
    /\ reader[c] = "heartbeat"
    /\ ReaderGoes(c, "read")
    /\ UNCHANGED <<clients, link, queue, open, handler, writer, held, online, panics, blame>>

Heartbeat(c) ==
    /\ reader[c] = "heartbeat"
    /\ SetStatus(DeviceOf[c], TRUE, IF clients[DeviceOf[c]] = c THEN "none" ELSE "late")
    /\ ReaderGoes(c, "read")
    /\ UNCHANGED <<clients, link, queue, open, handler, writer, held, panics>>

\* A message the hub refuses: sendError drops the reply if there is no room.
ReadOther(c) ==
    /\ reader[c] = "read" /\ link[c] = "up" /\ "other" \in MessageKinds
    /\ Offer(c, c)
    /\ ReaderSent(c, c)
    /\ UNCHANGED <<clients, link, open, handler, writer, held, online, blame>>

\* A signal of a session that is valid; SessionService models the validation.
ReadSignal(c) ==
    /\ reader[c] = "read" /\ link[c] = "up" /\ "session_signal" \in MessageKinds
    /\ ReaderGoes(c, "relay")
    /\ UNCHANGED <<clients, link, queue, open, handler, writer, held, online, panics, blame>>

\* Mutant: the channel is closed while the device is still in the map.
Unregister_KeepEntry(c) ==
    /\ reader[c] = "unregister"
    /\ ReaderGoes(c, "close")
    /\ UNCHANGED <<clients, link, queue, open, handler, writer, held, online, panics, blame>>

\* Under the lock, the entry of the device is deleted if it is this connection.
Unregister(c) ==
    /\ reader[c] = "unregister"
    /\ \/ /\ clients[DeviceOf[c]] = c
          /\ clients' = [clients EXCEPT ![DeviceOf[c]] = None]
          /\ ReaderGoes(c, "close_offline")
       \/ /\ clients[DeviceOf[c]] # c
          /\ ReaderGoes(c, "close")
          /\ UNCHANGED clients
    /\ UNCHANGED <<link, queue, open, handler, writer, held, online, panics, blame>>

\* After the unlock the channel is closed, then the socket.
CloseSend(c) ==
    /\ reader[c] \in {"close", "close_offline"}
    /\ open' = [open EXCEPT ![c] = FALSE]
    /\ ReaderGoes(c, IF reader[c] = "close" THEN "hangup" ELSE "hangup_offline")
    /\ UNCHANGED <<clients, link, queue, handler, writer, held, online, panics, blame>>

\* unregister returns: a readPump that panicked now ends the process.
Returned(c) == IF c \in panics THEN "die" ELSE "done"

HangUp(c) ==
    /\ reader[c] \in {"hangup", "hangup_offline"}
    /\ link' = Closed(c)
    /\ ReaderGoes(c, IF reader[c] = "hangup" THEN Returned(c) ELSE "offline")
    /\ UNCHANGED <<clients, queue, open, handler, writer, held, online, panics, blame>>

\* Mutant: the status is not written.
SetOffline_Skipped(c) ==
    /\ reader[c] = "offline"
    /\ ReaderGoes(c, Returned(c))
    /\ UNCHANGED <<clients, link, queue, open, handler, writer, held, online, panics, blame>>

\* Last, the connection that was removed from the map sets the device offline.
SetOffline(c) ==
    /\ reader[c] = "offline"
    /\ SetStatus(DeviceOf[c], FALSE, "none")
    /\ ReaderGoes(c, Returned(c))
    /\ UNCHANGED <<clients, link, queue, open, handler, writer, held, panics>>

-----------------------------------------------------------------------------
(* writePump: a write on a closed socket fails, one on a silent socket may *)
(* fail at its deadline; failing closes the socket.                        *)

WriterEnds(c) ==
    /\ writer' = [writer EXCEPT ![c] = "done"]
    /\ link' = Closed(c)

Write(c) ==
    /\ writer[c] = "run" /\ queue[c] > 0
    /\ queue' = [queue EXCEPT ![c] = @ - 1]
    /\ \/ link[c] \in {"up", "silent"} /\ UNCHANGED <<link, writer>>
       \/ link[c] \in {"closed", "silent"} /\ WriterEnds(c)
    /\ UNCHANGED <<clients, open, handler, reader, held, online, panics, blame>>

\* The periodic ping finds the socket unusable.
PingFails(c) ==
    /\ writer[c] = "run" /\ link[c] = "closed"
    /\ WriterEnds(c)
    /\ UNCHANGED <<clients, queue, open, handler, reader, held, online, panics, blame>>

\* The channel is closed and drained.
SendClosed(c) ==
    /\ writer[c] = "run" /\ ~open[c] /\ queue[c] = 0
    /\ WriterEnds(c)
    /\ UNCHANGED <<clients, queue, open, handler, reader, held, online, panics, blame>>

-----------------------------------------------------------------------------
(* NotifyDevice: the client is looked up under the read lock, and written  *)
(* to after the lock is released.                                          *)

NotifyLookup(n, d) ==
    /\ held[n] = None
    /\ clients[d] # None
    /\ held' = [held EXCEPT ![n] = clients[d]]
    /\ UNCHANGED <<clients, link, queue, open, handler, reader, writer, online, panics, blame>>

\* The panic of an HTTP handler is recovered by RecoverMiddleware.
NotifySend(n) ==
    /\ held[n] # None
    /\ Offer(held[n], "notifier")
    /\ held' = [held EXCEPT ![n] = None]
    /\ UNCHANGED <<clients, link, open, handler, reader, writer, online, blame>>

RelayLookup(c, d) ==
    /\ reader[c] = "relay"
    /\ d # DeviceOf[c]
    /\ held' = [held EXCEPT ![c] = clients[d]]
    /\ ReaderGoes(c, IF clients[d] = None THEN "read" ELSE "send")
    /\ UNCHANGED <<clients, link, queue, open, handler, writer, online, panics, blame>>

\* The channel may have been closed since the lookup.
RelaySend(c) ==
    /\ reader[c] = "send"
    /\ Offer(held[c], c)
    /\ ReaderSent(c, held[c])
    /\ held' = [held EXCEPT ![c] = None]
    /\ UNCHANGED <<clients, link, open, handler, writer, online, blame>>

-----------------------------------------------------------------------------
(* The environment                                                         *)

\* The device closes the connection, or the network reports that it broke.
PeerCloses(c) ==
    /\ link[c] \in {"up", "silent"}
    /\ link' = Closed(c)
    /\ UNCHANGED <<clients, queue, open, handler, reader, writer, held, online, panics, blame>>

\* The device vanishes without a word.
PeerVanishes(c) ==
    /\ link[c] = "up"
    /\ link' = [link EXCEPT ![c] = "silent"]
    /\ UNCHANGED <<clients, queue, open, handler, reader, writer, held, online, panics, blame>>

AtRest(d) ==
    \A c \in Conns : DeviceOf[c] = d => /\ handler[c] \in {"idle", "done"}
                                        /\ reader[c] \in {"off", "done", "die"}

\* The process is gone and another one runs: memory and sockets are lost, while the
\* table devices is kept and nothing sets its status column right.
Restarted ==
    /\ clients' = [d \in Devices |-> None]
    /\ link' = [c \in Conns |-> IF link[c] = "unused" THEN "unused" ELSE "closed"]
    /\ queue' = [c \in Conns |-> 0]
    /\ open' = [c \in Conns |-> link[c] = "unused"]
    /\ handler' = [c \in Conns |-> IF link[c] = "unused" THEN "idle" ELSE "done"]
    /\ reader' = [c \in Conns |-> IF link[c] = "unused" THEN "off" ELSE "done"]
    /\ writer' = [c \in Conns |-> IF link[c] = "unused" THEN "off" ELSE "done"]
    /\ held' = [t \in Callers |-> None]
    /\ blame' = [d \in Devices |-> IF AtRest(d) THEN blame[d] ELSE "stop"]
    /\ UNCHANGED <<online, panics>>

Stop == MayStop /\ Restarted

\* A readPump that panicked takes the process with it, as nothing recovers it.
Dies(c) == reader[c] = "die" /\ Restarted

-----------------------------------------------------------------------------
HandleWS(c) == SetOnline(c) \/ Register(c) \/ Welcome(c)

Receive(c) == ReadPing(c) \/ ReadHeartbeat(c) \/ ReadOther(c) \/ ReadSignal(c)

ReadPump(c) ==
    \/ ReadFails(c) \/ SendPong(c) \/ Heartbeat(c)
    \/ \E d \in Devices : RelayLookup(c, d)
    \/ RelaySend(c)
    \/ Unregister(c) \/ CloseSend(c) \/ HangUp(c) \/ SetOffline(c) \/ Dies(c)

WritePump(c) == Write(c) \/ PingFails(c) \/ SendClosed(c)

Next ==
    \/ \E c \in Conns : \/ Upgrade(c) \/ HandleWS(c)
                        \/ Receive(c) \/ ReadPump(c) \/ WritePump(c)
                        \/ PeerCloses(c) \/ PeerVanishes(c)
    \/ \E n \in Notifiers : NotifySend(n) \/ \E d \in Devices : NotifyLookup(n, d)
    \/ Stop

Spec == Init /\ [][Next]_vars

\* The goroutines run, statements finish, deadlines pass.  A device with an open
\* connection sends a heartbeat every 20 seconds, messages are read in turn, and a
\* statement that is tried again and again does not fail for ever.
Fairness ==
    /\ \A c \in Conns : /\ WF_vars(HandleWS(c))
                        /\ WF_vars(ReadPump(c))
                        /\ WF_vars(WritePump(c))
                        /\ SF_vars(ReadHeartbeat(c))
                        /\ SF_vars(Heartbeat(c) /\ online'[DeviceOf[c]])
    /\ \A n \in Notifiers : WF_vars(NotifySend(n))

FairSpec == Spec /\ Fairness

-----------------------------------------------------------------------------
(* Properties                                                              *)

\* A connection in the map can be sent to, and its readPump is still there to
\* take it out of the map: no entry outlives its connection.
EntriesAreLive ==
    \A d \in Devices : clients[d] # None =>
        LET c == clients[d] IN
        /\ DeviceOf[c] = d
        /\ open[c]
        /\ reader[c] \in Looping \cup {"unregister"}

\* A device is reached through one connection only: the readPump of any other
\* connection it had is reading from a closed socket or on its way out.
ReplacedAreClosed ==
    \A c \in Conns :
        reader[c] \in Looping /\ clients[DeviceOf[c]] # c => link[c] = "closed"

\* A connection that was lost is cleaned up: both pumps end, the channel is
\* closed and the map forgets it.
LostIsCleanedUp ==
    \A c \in Conns :
        (link[c] \in {"closed", "silent"} /\ reader[c] # "off")
            ~> (reader[c] = "done" /\ writer[c] = "done")

\* A device that stays connected is shown online sooner or later, even when its own
\* status write failed or the end of an earlier connection came after it.
ConnectedIsOnline ==
    \A c \in Conns :
        (clients[DeviceOf[c]] = c /\ link[c] = "up")
            ~> (online[DeviceOf[c]] \/ clients[DeviceOf[c]] # c \/ link[c] # "up")

\* The map is the registry of ConnectionRegistry: whatever order the ends of old
\* connections and the beginnings of new ones take, the end of a connection that
\* was replaced leaves its successor alone, and none comes back (hub.go:161-187).
Registry == INSTANCE ConnectionRegistry WITH
    stage <- [c \in Conns |->
        IF reader[c] = "off" THEN "fresh"
        ELSE IF clients[DeviceOf[c]] = c THEN "current"
        ELSE IF reader[c] \in Looping \cup {"unregister"} THEN "replaced"
        ELSE "over"]

KeepsRegistry == Registry!Spec

Connected(d) == \E c \in Conns : DeviceOf[c] = d /\ link[c] = "up"

\* README.md:10 promises the online/offline status of devices: a device that was
\* connected and has lost its last connection is shown offline in the end.
DisconnectedIsOffline ==
    \A d \in Devices :
        (<>(clients[d] # None) /\ <>[]~Connected(d)) => <>[]~online[d]

\* The status of a device is left right, in whatever order the ends of its old
\* connections and the beginnings of new ones write it: when its connections have all
\* come and gone it is shown offline, unless the last word was a heartbeat of a
\* connection that had left the map, its last offline failed, or the process ended
\* before its connections did (hub.go:122, 170-187, 262-267).
OnlineIsExplained ==
    \A d \in Devices :
        AtRest(d) /\ (\E c \in Conns : DeviceOf[c] = d /\ handler[c] = "done") /\ online[d]
        => blame[d] \in {"late", "failed", "stop"}

\* http/middleware.go recovers the panics of handlers so that one call cannot end
\* the server: no goroutine outside its reach panics.
NoUnrecoveredPanic == panics \cap Conns = {}

\* A readPump panics only as it relays a signal to another device, whose readPump
\* took its connection out of the map and closed the channel after the lookup: the
\* replies it sends on its own channel never end the process (hub.go:192-200, 265, 313).
OnlyRelaysPanic ==
    [][\A c \in Conns : c \in panics' \ panics =>
          /\ reader[c] = "send"
          /\ DeviceOf[held[c]] # DeviceOf[c]
          /\ clients[DeviceOf[held[c]]] # held[c]]_vars

\* Nobody but HandleWS, with its welcome, ever sends on a closed channel.
OnlyWelcomesPanic == panics \subseteq {"handler"}

\* Whether a client that was looked up stays in the map until it is written to, as
\* it would if NotifyDevice kept the lock (hub.go:195-206).
HeldInPlace ==
    \A t \in Callers : held[t] # None => clients[DeviceOf[held[t]]] = held[t]
=============================================================================
