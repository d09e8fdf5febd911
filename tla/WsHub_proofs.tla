---------------------------- MODULE WsHub_proofs ----------------------------
(***************************************************************************)
(* Proofs about WsHub, for any number of devices, connections and callers  *)
(* and any capacity of the channel.  The two invariants of the map hold    *)
(* because a connection enters the map as its readPump starts, and leaves  *)
(* it before its channel is closed; IInv adds what a connection that is    *)
(* not registered yet looks like, that a readPump has an open channel of   *)
(* its own until it closes it, and that it relays only to another device.  *)
(* Most steps are quiet: they leave the map and the closed channels alone, *)
(* and Quiet shows once for all of them what they then preserve.  The      *)
(* steps of a connection's beginning and end have a lemma each.            *)
(***************************************************************************)
EXTENDS WsHub, TLAPS

\* The client that a readPump has looked up is one of another device.
Relays(c) == held[c] \in Conns /\ DeviceOf[held[c]] # DeviceOf[c]

Fresh(c) ==
    /\ link[c] = "unused" => reader[c] = "off" /\ handler[c] = "idle"
    /\ handler[c] = "idle" => link[c] = "unused"
    /\ handler[c] \in {"set_online", "register"} => reader[c] = "off"
    /\ reader[c] \in {"off", "unregister", "close", "close_offline"} \cup Looping => open[c]
    /\ reader[c] = "send" => Relays(c)

IInv == TypeOK /\ EntriesAreLive /\ ReplacedAreClosed /\ \A c \in Conns : Fresh(c)

\* What a quiet step may do to connection c.
QuietFor(c) ==
    /\ link'[c] # link[c] => link[c] \in {"up", "silent"} /\ link'[c] \in {"silent", "closed"}
    /\ reader'[c] # reader[c] => reader[c] \in Looping /\ reader'[c] \in Looping \cup {"unregister"}
    /\ handler'[c] # handler[c] => \/ handler[c] = "set_online" /\ handler'[c] = "register"
                                   \/ handler[c] = "welcome" /\ handler'[c] = "done"
    /\ reader'[c] = "send" => Relays(c)'

-----------------------------------------------------------------------------
LEMMA InvInit == Init => IInv
BY CapacityAssumption DEF Init, IInv, TypeOK, EntriesAreLive, ReplacedAreClosed, Fresh, Looping

\* A step that leaves the map and the closed channels alone, and is quiet for
\* every connection, preserves the invariant.
LEMMA Quiet ==
    ASSUME IInv, TypeOK', UNCHANGED <<clients, open>>, \A c \in Conns : QuietFor(c)
    PROVE  IInv'
<1>1. EntriesAreLive'
  BY DEF IInv, TypeOK, EntriesAreLive, QuietFor, Looping
<1>2. ReplacedAreClosed'
  BY DeviceAssumption DEF IInv, ReplacedAreClosed, QuietFor, Looping
<1>3. ASSUME NEW c \in Conns  PROVE Fresh(c)'
  BY DEF IInv, Fresh, QuietFor, Looping
<1>4. QED
  BY <1>1, <1>2, <1>3 DEF IInv

\* A send into a channel with room keeps its length within the capacity.
LEMMA EnqueueType ==
    ASSUME TypeOK, NEW c \in Conns, Enqueue(c)
    PROVE  queue' \in [Conns -> 0 .. Capacity]
<1>1. queue[c] + 1 \in 0 .. Capacity
  BY CapacityAssumption DEF TypeOK, Enqueue
<1>2. QED
  BY <1>1 DEF TypeOK, Enqueue

LEMMA OfferType ==
    ASSUME TypeOK, NEW c \in Conns, NEW caller \in {"notifier"} \cup Conns, Offer(c, caller)
    PROVE  /\ queue' \in [Conns -> 0 .. Capacity]
           /\ panics' \subseteq {"handler", "notifier"} \cup Conns
BY EnqueueType DEF TypeOK, Offer

LEMMA SetStatusType ==
    ASSUME TypeOK, NEW d \in Devices, NEW b \in BOOLEAN, NEW w \in {"none", "late"}, SetStatus(d, b, w)
    PROVE  /\ online' \in [Devices -> BOOLEAN]
           /\ blame' \in [Devices -> {"none", "late", "failed", "stop"}]
BY DEF TypeOK, SetStatus

-----------------------------------------------------------------------------
(* The quiet steps                                                         *)

\* HandleWS after the upgrade, but for the registration.
LEMMA HandleWSStep ==
    ASSUME IInv, NEW c \in Conns, SetOnline(c) \/ Welcome(c)
    PROVE  IInv'
<1>1. TypeOK'
  <2>1. CASE SetOnline(c)
    BY <2>1, DeviceAssumption, SetStatusType DEF IInv, TypeOK, SetOnline
  <2>2. CASE Welcome(c)
    BY <2>2, EnqueueType DEF IInv, TypeOK, Welcome
  <2>3. QED
    BY <2>1, <2>2
<1>2. UNCHANGED <<clients, open>>
  BY DEF SetOnline, Welcome
<1>3. ASSUME NEW x \in Conns  PROVE QuietFor(x)
  <2>1. UNCHANGED <<link, reader, held>>
    BY DEF SetOnline, Welcome
  <2>2. handler'[x] # handler[x] => \/ handler[x] = "set_online" /\ handler'[x] = "register"
                                    \/ handler[x] = "welcome" /\ handler'[x] = "done"
    BY DEF IInv, TypeOK, SetOnline, Welcome
  <2>3. QED
    BY <2>1, <2>2 DEF IInv, Fresh, Relays, QuietFor
<1>4. QED
  BY <1>1, <1>2, <1>3, Quiet

\* The messages a readPump reads and handles itself, and the failure to read.
LEMMA ReadStep ==
    ASSUME IInv, NEW c \in Conns,
           ReadFails(c) \/ ReadPing(c) \/ SendPong(c) \/ ReadHeartbeat(c)
               \/ Heartbeat(c) \/ ReadOther(c) \/ ReadSignal(c)
    PROVE  IInv'
<1>1. TypeOK'
  <2>1. CASE ReadFails(c) \/ ReadPing(c) \/ ReadHeartbeat(c) \/ ReadSignal(c)
    BY <2>1 DEF IInv, TypeOK, ReadFails, ReadPing, ReadHeartbeat, ReadSignal, ReaderGoes, Looping, Leaving
  <2>2. CASE SendPong(c) \/ ReadOther(c)
    BY <2>2, EnqueueType, OfferType DEF IInv, TypeOK, SendPong, ReadOther, ReaderSent, ReaderGoes, Looping, Leaving
  <2>3. CASE Heartbeat(c)
    BY <2>3, DeviceAssumption, SetStatusType DEF IInv, TypeOK, Heartbeat, ReaderGoes, Looping
  <2>4. QED
    BY <2>1, <2>2, <2>3
<1>2. UNCHANGED <<clients, open, link, handler, held>>
  BY DEF ReadFails, ReadPing, SendPong, ReadHeartbeat, Heartbeat, ReadOther, ReadSignal
<1>3. ASSUME NEW x \in Conns  PROVE QuietFor(x)
  <2>1. \/ reader'[x] = reader[x]
        \/ reader[x] \in Looping /\ reader'[x] \in (Looping \ {"send"}) \cup {"unregister"}
    BY DEF IInv, TypeOK, Looping, ReaderGoes, ReaderSent, ReadFails, ReadPing, SendPong,
           ReadHeartbeat, Heartbeat, ReadOther, ReadSignal
  <2>2. QED
    BY <1>2, <2>1 DEF IInv, Fresh, Relays, QuietFor, Looping
<1>4. QED
  BY <1>1, <1>2, <1>3, Quiet

\* The relay of a signal, whether or not the channel is still open.
LEMMA RelayStep ==
    ASSUME IInv, NEW c \in Conns, RelaySend(c) \/ \E d \in Devices : RelayLookup(c, d)
    PROVE  IInv'
<1>1. TypeOK'
  <2>1. CASE RelaySend(c)
    <3>1. held[c] \in Conns
      BY <2>1 DEF IInv, Fresh, Relays, RelaySend
    <3>2. QED
      BY <2>1, <3>1, OfferType DEF IInv, TypeOK, RelaySend, ReaderSent, ReaderGoes, Looping, Leaving
  <2>2. ASSUME NEW d \in Devices, RelayLookup(c, d)  PROVE TypeOK'
    BY <2>2 DEF IInv, TypeOK, RelayLookup, ReaderGoes, Looping
  <2>3. QED
    BY <2>1, <2>2
<1>2. UNCHANGED <<clients, open, link, handler>>
  BY DEF RelaySend, RelayLookup
<1>3. ASSUME NEW x \in Conns  PROVE QuietFor(x)
  <2>1. \/ reader'[x] = reader[x]
        \/ reader[x] \in Looping /\ reader'[x] \in Looping \cup {"unregister"}
    BY DEF IInv, TypeOK, Looping, ReaderGoes, ReaderSent, RelaySend, RelayLookup
  <2>2. ASSUME reader'[x] = "send"  PROVE Relays(x)'
    <3>1. CASE x # c
      BY <2>2, <3>1 DEF IInv, TypeOK, Fresh, Relays, Callers, RelaySend, RelayLookup, ReaderSent, ReaderGoes
    <3>2. CASE x = c
      <4>1. ~RelaySend(c)
        BY <2>2, <3>2 DEF IInv, TypeOK, RelaySend, ReaderSent, ReaderGoes
      <4>2. PICK d \in Devices : RelayLookup(c, d)
        BY <4>1
      <4>3. clients[d] # None /\ held'[c] = clients[d]
        BY <2>2, <3>2, <4>2 DEF IInv, TypeOK, Callers, RelayLookup, ReaderGoes
      <4>4. QED
        BY <3>2, <4>2, <4>3 DEF IInv, TypeOK, EntriesAreLive, RelayLookup, Relays
    <3>3. QED
      BY <3>1, <3>2
  <2>3. QED
    BY <1>2, <2>1, <2>2 DEF QuietFor
<1>4. QED
  BY <1>1, <1>2, <1>3, Quiet

\* The writePump, and what happens to the socket.
LEMMA SocketStep ==
    ASSUME IInv, NEW c \in Conns, WritePump(c) \/ PeerCloses(c) \/ PeerVanishes(c)
    PROVE  IInv'
<1> USE DEF WritePump, Write, PingFails, SendClosed, PeerCloses, PeerVanishes, WriterEnds, Closed
<1>1. TypeOK'
  <2>1. CASE Write(c)
    <3>1. queue[c] - 1 \in 0 .. Capacity
      BY <2>1, CapacityAssumption DEF IInv, TypeOK
    <3>2. QED
      BY <2>1, <3>1 DEF IInv, TypeOK
  <2>2. CASE ~Write(c)
    BY <2>2 DEF IInv, TypeOK
  <2>3. QED
    BY <2>1, <2>2
<1>2. UNCHANGED <<clients, open, reader, handler, held>>
  OBVIOUS
<1>3. ASSUME NEW x \in Conns  PROVE QuietFor(x)
  BY <1>2 DEF IInv, TypeOK, Fresh, Relays, QuietFor
<1>4. QED
  BY <1>1, <1>2, <1>3, Quiet

\* A caller of NotifyDevice that is no readPump.
LEMMA NotifyStep ==
    ASSUME IInv, NEW n \in Notifiers, NotifySend(n) \/ \E d \in Devices : NotifyLookup(n, d)
    PROVE  IInv'
<1>1. n \in Callers /\ \A x \in Conns : x \in Callers /\ x # n
  BY CallerAssumption DEF Callers
<1>2. TypeOK'
  <2>1. CASE NotifySend(n)
    <3>1. held[n] \in Conns
      BY <1>1, <2>1 DEF IInv, TypeOK, NotifySend
    <3>2. QED
      BY <1>1, <2>1, <3>1, OfferType DEF IInv, TypeOK, NotifySend
  <2>2. ASSUME NEW d \in Devices, NotifyLookup(n, d)  PROVE TypeOK'
    BY <1>1, <2>2 DEF IInv, TypeOK, NotifyLookup
  <2>3. QED
    BY <2>1, <2>2
<1>3. UNCHANGED <<clients, open, link, reader, handler>>
  BY DEF NotifySend, NotifyLookup
<1>4. ASSUME NEW x \in Conns  PROVE QuietFor(x)
  BY <1>1, <1>3 DEF IInv, TypeOK, Fresh, Relays, QuietFor, NotifySend, NotifyLookup
<1>5. QED
  BY <1>2, <1>3, <1>4, Quiet

-----------------------------------------------------------------------------
(* The beginning and the end of a connection                               *)

LEMMA UpgradeStep ==
    ASSUME IInv, NEW c \in Conns, Upgrade(c)
    PROVE  IInv'
<1> USE DEF IInv, Upgrade
<1>1. TypeOK'
  BY DEF TypeOK, Looping, Leaving
<1>2. EntriesAreLive'
  BY DEF TypeOK, EntriesAreLive, Looping
<1>3. ReplacedAreClosed'
  BY DEF TypeOK, ReplacedAreClosed, Looping
<1>4. \A x \in Conns : Fresh(x)'
  BY DEF TypeOK, Fresh, Relays, Looping
<1>5. QED
  BY <1>1, <1>2, <1>3, <1>4

LEMMA RegisterStep ==
    ASSUME IInv, NEW c \in Conns, Register(c)
    PROVE  IInv'
<1> USE DeviceAssumption, NoneAssumption DEF IInv, Register, Closed
<1>1. TypeOK'
  BY DEF TypeOK, Looping, Leaving
<1>2. EntriesAreLive'
  BY DEF TypeOK, EntriesAreLive, Fresh, Looping
<1>3. ReplacedAreClosed'
  <2> SUFFICES ASSUME NEW x \in Conns, clients'[DeviceOf[x]] # x,
                      reader'[x] \in Looping
               PROVE  link'[x] = "closed"
    BY DEF ReplacedAreClosed
  <2>1. x # c /\ reader'[x] = reader[x] /\ DeviceOf[x] \in Devices
    BY DEF TypeOK
  <2>2. CASE clients[DeviceOf[x]] = x
    <3>1. DeviceOf[x] = DeviceOf[c]
      BY <2>1, <2>2 DEF TypeOK
    <3>2. QED
      BY <2>2, <3>1 DEF TypeOK
  <2>3. CASE clients[DeviceOf[x]] # x
    <3>1. link[x] = "closed"
      BY <2>1, <2>3 DEF ReplacedAreClosed
    <3>2. QED
      BY <3>1 DEF TypeOK
  <2>4. QED
    BY <2>2, <2>3
<1>4. ASSUME NEW x \in Conns  PROVE Fresh(x)'
  <2>1. Fresh(x) /\ Fresh(c)
    OBVIOUS
  <2>2. link'[x] = link[x] \/ link'[x] = "closed"
    BY DEF TypeOK
  <2>3. CASE x = c
    BY <2>1, <2>2, <2>3 DEF TypeOK, Fresh, Relays, Looping
  <2>4. CASE x # c
    <3>1. reader'[x] = reader[x] /\ handler'[x] = handler[x] /\ open'[x] = open[x] /\ held'[x] = held[x]
      BY <2>4 DEF TypeOK
    <3>2. link[x] = "unused" => link'[x] = "unused"
      <4>1. x = clients[DeviceOf[c]] => link[x] # "unused"
        BY <2>1 DEF EntriesAreLive, Fresh, Looping
      <4>2. x # clients[DeviceOf[c]] => link'[x] = link[x]
        BY DEF TypeOK
      <4>3. QED
        BY <4>1, <4>2
    <3>3. QED
      BY <2>1, <2>2, <3>1, <3>2 DEF Fresh, Relays
  <2>5. QED
    BY <2>3, <2>4
<1>5. QED
  BY <1>1, <1>2, <1>3, <1>4

LEMMA UnregisterStep ==
    ASSUME IInv, NEW c \in Conns, Unregister(c)
    PROVE  IInv'
<1> USE DeviceAssumption, NoneAssumption DEF IInv, Unregister, ReaderGoes
<1>1. TypeOK'
  BY DEF TypeOK, Looping, Leaving
<1>2. EntriesAreLive'
  BY DEF TypeOK, EntriesAreLive, Looping
<1>3. ReplacedAreClosed'
  BY DEF TypeOK, ReplacedAreClosed, Looping
<1>4. \A x \in Conns : Fresh(x)'
  BY DEF TypeOK, Fresh, Relays, Looping
<1>5. QED
  BY <1>1, <1>2, <1>3, <1>4

LEMMA CloseSendStep ==
    ASSUME IInv, NEW c \in Conns, CloseSend(c) \/ HangUp(c)
    PROVE  IInv'
<1> USE DeviceAssumption DEF IInv, CloseSend, HangUp, Returned, Closed, ReaderGoes
<1>1. TypeOK'
  BY DEF TypeOK, Leaving
<1>2. EntriesAreLive'
  BY DEF TypeOK, EntriesAreLive, Looping
<1>3. ReplacedAreClosed'
  BY DEF TypeOK, ReplacedAreClosed, Looping
<1>4. \A x \in Conns : Fresh(x)'
  BY DEF TypeOK, Fresh, Relays, Looping
<1>5. QED
  BY <1>1, <1>2, <1>3, <1>4

LEMMA SetOfflineStep ==
    ASSUME IInv, NEW c \in Conns, SetOffline(c)
    PROVE  IInv'
<1> USE DeviceAssumption DEF IInv, SetOffline, Returned, ReaderGoes
<1>1. TypeOK'
  BY SetStatusType DEF TypeOK
<1>2. EntriesAreLive'
  BY DEF TypeOK, EntriesAreLive, Looping
<1>3. ReplacedAreClosed'
  BY DEF TypeOK, ReplacedAreClosed, Looping
<1>4. \A x \in Conns : Fresh(x)'
  BY DEF TypeOK, Fresh, Relays, Looping
<1>5. QED
  BY <1>1, <1>2, <1>3, <1>4

\* Nothing is left of the connections of a process that is gone.
LEMMA RestartedStep ==
    ASSUME IInv, Stop \/ \E c \in Conns : Dies(c)
    PROVE  IInv'
<1>0. Restarted
  BY DEF Stop, Dies
<1>1. TypeOK'
  BY <1>0, CapacityAssumption DEF IInv, TypeOK, Restarted
<1>2. EntriesAreLive'
  BY <1>0 DEF EntriesAreLive, Restarted
<1>3. ReplacedAreClosed'
  BY <1>0 DEF ReplacedAreClosed, Restarted, Looping
<1>4. \A c \in Conns : Fresh(c)'
  BY <1>0 DEF Fresh, Restarted, Looping
<1>5. QED
  BY <1>1, <1>2, <1>3, <1>4 DEF IInv

-----------------------------------------------------------------------------
LEMMA InvNext == IInv /\ [Next]_vars => IInv'
<1> SUFFICES ASSUME IInv, [Next]_vars  PROVE IInv'
  OBVIOUS
<1>1. ASSUME NEW c \in Conns, Upgrade(c) \/ HandleWS(c)  PROVE IInv'
  BY <1>1, UpgradeStep, RegisterStep, HandleWSStep DEF HandleWS
<1>2. ASSUME NEW c \in Conns, Receive(c) \/ ReadPump(c)  PROVE IInv'
  BY <1>2, ReadStep, RelayStep, RestartedStep, UnregisterStep, CloseSendStep, SetOfflineStep
     DEF Receive, ReadPump
<1>3. ASSUME NEW c \in Conns, WritePump(c) \/ PeerCloses(c) \/ PeerVanishes(c)  PROVE IInv'
  BY <1>3, SocketStep
<1>4. ASSUME NEW n \in Notifiers, NotifySend(n) \/ \E d \in Devices : NotifyLookup(n, d)
      PROVE  IInv'
  BY <1>4, NotifyStep
<1>5. CASE UNCHANGED vars
  BY <1>5 DEF vars, IInv, TypeOK, EntriesAreLive, ReplacedAreClosed, Fresh, Relays
<1>6. QED
  BY <1>1, <1>2, <1>3, <1>4, <1>5, RestartedStep DEF Next

\* The inductive invariant holds in every reachable state.
THEOREM Invariance == Spec => []IInv
BY InvInit, InvNext, PTL DEF Spec

\* Every variable always has its type; in particular no channel overflows.
THEOREM TypeCorrect == Spec => []TypeOK
<1>1. IInv => TypeOK
  BY DEF IInv
<1>2. QED
  BY <1>1, Invariance, PTL

\* Whatever the pumps, the handlers and the callers of NotifyDevice do, a
\* connection in the map has an open channel and a readPump that will remove it.
THEOREM MapEntriesAreLive == Spec => []EntriesAreLive
<1>1. IInv => EntriesAreLive
  BY DEF IInv
<1>2. QED
  BY <1>1, Invariance, PTL

\* A device that reconnects has one connection in use: the socket of every
\* earlier one is closed.
THEOREM ReplacedConnectionsAreClosed == Spec => []ReplacedAreClosed
<1>1. IInv => ReplacedAreClosed
  BY DEF IInv
<1>2. QED
  BY <1>1, Invariance, PTL

-----------------------------------------------------------------------------
(* The map implements the registry.                                        *)

InUse == Looping \cup {"unregister"}

Stage ==
    [c \in Conns |->
        IF reader[c] = "off" THEN "fresh"
        ELSE IF clients[DeviceOf[c]] = c THEN "current"
        ELSE IF reader[c] \in Looping \cup {"unregister"} THEN "replaced"
        ELSE "over"]

\* The instance, in terms of Stage.
LEMMA RegistryActions ==
    /\ \A c \in Conns :
          /\ Registry!Connect(c) <=>
                /\ Stage[c] = "fresh"
                /\ Stage' = [x \in Conns |->
                      IF x = c THEN "current"
                      ELSE IF DeviceOf[x] = DeviceOf[c] /\ Stage[x] = "current" THEN "replaced"
                      ELSE Stage[x]]
          /\ Registry!Leave(c) <=>
                /\ Stage[c] \in {"current", "replaced"}
                /\ Stage' = [Stage EXCEPT ![c] = "over"]
    /\ Registry!Restart <=>
          \E kept \in SUBSET {c \in Conns : Stage[c] = "fresh"} :
              Stage' = [c \in Conns |-> IF c \in kept THEN "fresh" ELSE "over"]
    /\ Registry!Init <=> Stage = [c \in Conns |-> "fresh"]
    /\ [Registry!Next]_Stage =>
          [Registry!Next]_([c \in Conns |->
              IF reader[c] = "off" THEN "fresh"
              ELSE IF clients[DeviceOf[c]] = c THEN "current"
              ELSE IF reader[c] \in Looping \cup {"unregister"} THEN "replaced"
              ELSE "over"])
  BY DEF Registry!Connect, Registry!Leave, Registry!Restart, Registry!Init, Stage

\* A step that leaves the map alone and no connection changes its part.
LEMMA StageStill ==
    ASSUME UNCHANGED clients,
           \A c \in Conns : /\ reader[c] = "off" <=> reader'[c] = "off"
                            /\ reader[c] \in InUse <=> reader'[c] \in InUse
    PROVE  UNCHANGED Stage
  BY DEF Stage, InUse

LEMMA StillSteps ==
    ASSUME IInv, NEW c \in Conns,
           Upgrade(c) \/ SetOnline(c) \/ Welcome(c) \/ Receive(c) \/ ReadFails(c) \/ SendPong(c)
               \/ Heartbeat(c) \/ RelaySend(c) \/ (\E d \in Devices : RelayLookup(c, d))
               \/ CloseSend(c) \/ HangUp(c) \/ SetOffline(c)
               \/ WritePump(c) \/ PeerCloses(c) \/ PeerVanishes(c)
    PROVE  UNCHANGED Stage
<1>1. UNCHANGED clients
  BY DEF Upgrade, SetOnline, Welcome, Receive, ReadPing, ReadHeartbeat, ReadOther, ReadSignal, ReadFails, SendPong,
         Heartbeat, RelaySend, RelayLookup, CloseSend, HangUp, SetOffline, WritePump, Write, PingFails, SendClosed,
         PeerCloses, PeerVanishes
<1>2. ASSUME NEW x \in Conns
      PROVE  /\ reader[x] = "off" <=> reader'[x] = "off"
             /\ reader[x] \in InUse <=> reader'[x] \in InUse
  <2>1. CASE Receive(c) \/ ReadFails(c) \/ SendPong(c) \/ Heartbeat(c)
    BY <2>1 DEF IInv, TypeOK, InUse, Looping, ReaderGoes, ReaderSent, Receive, ReadPing, ReadHeartbeat, ReadOther,
                ReadSignal, ReadFails, SendPong, Heartbeat
  <2>2. CASE RelaySend(c) \/ \E d \in Devices : RelayLookup(c, d)
    BY <2>2 DEF IInv, TypeOK, InUse, Looping, ReaderGoes, ReaderSent, RelaySend, RelayLookup
  <2>3. CASE CloseSend(c) \/ HangUp(c) \/ SetOffline(c)
    BY <2>3 DEF IInv, TypeOK, InUse, Looping, ReaderGoes, Returned, CloseSend, HangUp, SetOffline
  <2>4. CASE Upgrade(c) \/ SetOnline(c) \/ Welcome(c) \/ WritePump(c) \/ PeerCloses(c) \/ PeerVanishes(c)
    BY <2>4 DEF Upgrade, SetOnline, Welcome, WritePump, Write, PingFails, SendClosed, PeerCloses, PeerVanishes
  <2>5. QED
    BY <2>1, <2>2, <2>3, <2>4
<1>3. QED
  BY <1>1, <1>2, StageStill

LEMMA RegisterConnects == ASSUME IInv, NEW c \in Conns, Register(c) PROVE Registry!Connect(c)
<1>1. DeviceOf[c] \in Devices /\ reader[c] = "off" /\ clients' = [clients EXCEPT ![DeviceOf[c]] = c]
      /\ reader' = [reader EXCEPT ![c] = "read"]
  BY DeviceAssumption DEF IInv, Fresh, Register
<1>2. Stage[c] = "fresh"
  BY <1>1 DEF Stage
<1>3. Stage'[c] = "current"
  BY <1>1 DEF IInv, TypeOK, Stage
<1>4. ASSUME NEW x \in Conns, x # c
      PROVE  Stage'[x] = IF DeviceOf[x] = DeviceOf[c] /\ Stage[x] = "current" THEN "replaced" ELSE Stage[x]
  <2>1. DeviceOf[x] \in Devices /\ reader'[x] = reader[x]
    BY <1>1, <1>4, DeviceAssumption DEF IInv, TypeOK
  <2>2. CASE clients[DeviceOf[x]] = x
    <3>1. reader[x] \in InUse
      BY <2>1, <2>2, NoneAssumption DEF IInv, EntriesAreLive, InUse
    <3>2. QED
      BY <1>1, <1>4, <2>1, <2>2, <3>1 DEF IInv, TypeOK, Stage, InUse
  <2>3. CASE clients[DeviceOf[x]] # x
    BY <1>1, <1>4, <2>1, <2>3 DEF IInv, TypeOK, Stage
  <2>4. QED
    BY <2>2, <2>3
<1>5. Stage' = [x \in Conns |-> Stage'[x]]
  BY DEF Stage
<1>6. QED
  BY <1>2, <1>3, <1>4, <1>5, RegistryActions

LEMMA UnregisterLeaves == ASSUME IInv, NEW c \in Conns, Unregister(c) PROVE Registry!Leave(c)
<1>1. DeviceOf[c] \in Devices /\ reader[c] = "unregister"
  BY DeviceAssumption DEF Unregister
<1>2. Stage[c] \in {"current", "replaced"}
  BY <1>1 DEF Stage, Looping
<1>3. reader'[c] \in {"close", "close_offline"} /\ clients'[DeviceOf[c]] # c
  BY <1>1, NoneAssumption DEF IInv, TypeOK, Unregister, ReaderGoes
<1>4. ASSUME NEW x \in Conns, x # c PROVE Stage'[x] = Stage[x]
  <2>1. DeviceOf[x] \in Devices /\ reader'[x] = reader[x]
    BY <1>4, DeviceAssumption DEF IInv, TypeOK, Unregister, ReaderGoes
  <2>2. clients'[DeviceOf[x]] = x <=> clients[DeviceOf[x]] = x
    BY <1>1, <1>4, <2>1, NoneAssumption DEF IInv, TypeOK, Unregister
  <2>3. QED
    BY <2>1, <2>2 DEF Stage
<1>5. Stage'[c] = "over"
  BY <1>3 DEF Stage, Looping
<1>6. Stage = [x \in Conns |-> Stage[x]] /\ Stage' = [x \in Conns |-> Stage'[x]]
  BY DEF Stage
<1>7. Stage' = [Stage EXCEPT ![c] = "over"]
  BY <1>4, <1>5, <1>6
<1>8. QED
  BY <1>2, <1>7, RegistryActions

LEMMA RestartedRestarts == ASSUME IInv, Restarted PROVE Registry!Restart
<1>1. PICK kept : kept = {c \in Conns : link[c] = "unused"}
  OBVIOUS
<1>2. kept \in SUBSET {c \in Conns : Stage[c] = "fresh"}
  BY <1>1 DEF IInv, Fresh, Stage
<1>3. \A c \in Conns : clients'[DeviceOf[c]] # c /\ reader'[c] = IF c \in kept THEN "off" ELSE "done"
  BY <1>1, DeviceAssumption, NoneAssumption DEF Restarted
<1>4. Stage' = [c \in Conns |-> IF c \in kept THEN "fresh" ELSE "over"]
  BY <1>3 DEF Stage, Looping
<1>5. QED
  BY <1>2, <1>4, RegistryActions

LEMMA RegistryNext == IInv /\ [Next]_vars => [Registry!Next]_Stage
<1> SUFFICES ASSUME IInv, [Next]_vars  PROVE [Registry!Next]_Stage
  OBVIOUS
<1>1. CASE UNCHANGED vars
  BY <1>1 DEF vars, Stage
<1>2. ASSUME NEW c \in Conns, HandleWS(c)  PROVE [Registry!Next]_Stage
  <2>1. CASE Register(c)
    BY <2>1, RegisterConnects DEF Registry!Next
  <2>2. QED
    BY <1>2, <2>1, StillSteps DEF HandleWS
<1>3. ASSUME NEW c \in Conns, ReadPump(c)  PROVE [Registry!Next]_Stage
  <2>1. CASE Unregister(c)
    BY <2>1, UnregisterLeaves DEF Registry!Next
  <2>2. CASE Dies(c)
    BY <2>2, RestartedRestarts DEF Registry!Next, Dies
  <2>3. QED
    BY <1>3, <2>1, <2>2, StillSteps DEF ReadPump
<1>4. ASSUME NEW c \in Conns, Upgrade(c) \/ Receive(c) \/ WritePump(c) \/ PeerCloses(c) \/ PeerVanishes(c)
      PROVE  UNCHANGED Stage
  BY <1>4, StillSteps
<1>5. ASSUME NEW n \in Notifiers, NotifySend(n) \/ \E d \in Devices : NotifyLookup(n, d)
      PROVE  UNCHANGED Stage
  BY <1>5 DEF NotifySend, NotifyLookup, Stage
<1>6. CASE Stop
  BY <1>6, RestartedRestarts DEF Stop, Registry!Next
<1>7. QED
  BY <1>1, <1>2, <1>3, <1>4, <1>5, <1>6 DEF Next

\* The map of connected devices implements the registry: one connection at a time
\* for each device, and no end of an old one touches its successor.
THEOREM HubImplementsRegistry == Spec => KeepsRegistry
<1>1. Init => Registry!Init
  BY RegistryActions DEF Init, Stage
<1>2. IInv /\ [Next]_vars =>
          [Registry!Next]_([c \in Conns |->
              IF reader[c] = "off" THEN "fresh"
              ELSE IF clients[DeviceOf[c]] = c THEN "current"
              ELSE IF reader[c] \in Looping \cup {"unregister"} THEN "replaced"
              ELSE "over"])
  BY RegistryNext, RegistryActions
<1>3. Spec => Registry!Spec
  BY <1>1, <1>2, Invariance, PTL DEF Spec, Registry!Spec
<1>4. QED
  BY <1>3 DEF KeepsRegistry

-----------------------------------------------------------------------------
(* The status of a device whose connections are gone.                      *)

\* Connection c of device d will be registered, is in the map, or left it and will
\* set the device offline.
Ending(step) == step \in {"close_offline", "hangup_offline", "offline"}

Pending(c, d) == DeviceOf[c] = d /\ (handler[c] = "register" \/ clients[d] = c \/ Ending(reader[c]))

Set(c, d) == DeviceOf[c] = d /\ handler[c] \notin {"idle", "set_online"}

\* A device whose status is online, with nothing to blame for it, and that a connection
\* of this process has begun for, has a connection that will set it offline.
Watched(d) ==
    online[d] /\ blame[d] = "none" /\ (\E c \in Conns : Set(c, d)) => \E c \in Conns : Pending(c, d)

LEMMA WatchedStays ==
    ASSUME NEW d, Watched(d), online'[d] => online[d], blame'[d] = "none" => blame[d] = "none",
           \A c \in Conns : (Set(c, d)' => Set(c, d)) /\ (Pending(c, d) => Pending(c, d)')
    PROVE  Watched(d)'
  BY DEF Watched

\* A step that leaves the status alone and begins or ends no connection.
LEMMA WatchedStill ==
    ASSUME IInv, NEW d, Watched(d), UNCHANGED <<clients, online, blame>>,
           \A c \in Conns :
               /\ handler'[c] # handler[c] => \/ handler[c] = "idle" /\ handler'[c] = "set_online"
                                              \/ handler[c] = "welcome" /\ handler'[c] = "done"
               /\ Ending(reader[c]) => Ending(reader'[c])
    PROVE  Watched(d)'
<1>1. ASSUME NEW c \in Conns PROVE (Set(c, d)' => Set(c, d)) /\ (Pending(c, d) => Pending(c, d)')
  BY DEF Set, Pending
<1>2. QED
  BY <1>1, WatchedStays

\* The status of another device is not written.
LEMMA SetStatusOther ==
    ASSUME TypeOK, NEW d \in Devices, NEW e \in Devices, e # d, NEW b, NEW w, SetStatus(e, b, w)
    PROVE  online'[d] = online[d] /\ blame'[d] = blame[d]
BY DEF TypeOK, SetStatus

LEMMA WatchedBegins ==
    ASSUME IInv, NEW d \in Devices, Watched(d), NEW c \in Conns, SetOnline(c) \/ Register(c)
    PROVE  Watched(d)'
<1>1. DeviceOf[c] \in Devices
  BY DeviceAssumption
<1>2. CASE DeviceOf[c] = d
  <2>1. Pending(c, d)'
    BY <1>1, <1>2 DEF IInv, TypeOK, SetOnline, Register, Pending
  <2>2. QED
    BY <2>1 DEF Watched
<1>3. CASE DeviceOf[c] # d
  <2>1. online'[d] = online[d] /\ blame'[d] = blame[d] /\ clients'[d] = clients[d]
    BY <1>1, <1>3, SetStatusOther DEF IInv, TypeOK, SetOnline, Register
  <2>2. ASSUME NEW x \in Conns, DeviceOf[x] = d PROVE handler'[x] = handler[x] /\ reader'[x] = reader[x]
    BY <1>3, <2>2 DEF IInv, TypeOK, SetOnline, Register
  <2>3. QED
    BY <2>1, <2>2, WatchedStays DEF Set, Pending
<1>4. QED
  BY <1>2, <1>3

\* A heartbeat that is handled in place is followed by the end of its connection; one
\* that is late is to blame; one that fails leaves things as they were.
LEMMA WatchedHeartbeat ==
    ASSUME IInv, NEW d \in Devices, Watched(d), NEW c \in Conns, Heartbeat(c)
    PROVE  Watched(d)'
<1>1. DeviceOf[c] \in Devices /\ UNCHANGED <<clients, handler>>
  BY DeviceAssumption DEF Heartbeat
<1>2. ASSUME NEW x \in Conns PROVE Ending(reader[x]) => Ending(reader'[x])
  BY DEF IInv, TypeOK, Heartbeat, ReaderGoes, Ending
<1>3. ASSUME online'[d] => online[d], blame'[d] = "none" => blame[d] = "none"  PROVE Watched(d)'
  BY <1>1, <1>2, <1>3, WatchedStays DEF Set, Pending
<1>4. CASE DeviceOf[c] # d
  BY <1>1, <1>3, <1>4, SetStatusOther DEF IInv, Heartbeat
<1>5. CASE DeviceOf[c] = d /\ clients[d] = c
  <2>1. Pending(c, d)'
    BY <1>1, <1>5 DEF Pending
  <2>2. QED
    BY <2>1 DEF Watched
<1>6. CASE DeviceOf[c] = d /\ clients[d] # c
  <2>1. blame'[d] = "late" \/ (online'[d] = online[d] /\ blame'[d] = blame[d])
    BY <1>6 DEF IInv, TypeOK, Heartbeat, SetStatus
  <2>2. QED
    BY <1>3, <2>1 DEF Watched
<1>7. QED
  BY <1>4, <1>5, <1>6

LEMMA WatchedEnds ==
    ASSUME IInv, NEW d \in Devices, Watched(d), NEW c \in Conns,
           Unregister(c) \/ CloseSend(c) \/ HangUp(c) \/ SetOffline(c)
    PROVE  Watched(d)'
<1>1. DeviceOf[c] \in Devices
  BY DeviceAssumption
<1>2. CASE Unregister(c)
  <2>1. UNCHANGED <<online, blame, handler>>
    BY <1>2 DEF Unregister
  <2>2. ASSUME NEW x \in Conns, Pending(x, d) PROVE Pending(x, d)'
    <3>1. CASE x = c
      BY <1>1, <1>2, <2>1, <2>2, <3>1 DEF IInv, TypeOK, Unregister, ReaderGoes, Pending, Ending
    <3>2. CASE x # c
      <4>1. reader'[x] = reader[x]
        BY <1>2, <3>2 DEF IInv, TypeOK, Unregister, ReaderGoes
      <4>2. clients[d] = x => clients'[d] = x
        BY <1>1, <1>2, <3>2 DEF IInv, TypeOK, Unregister
      <4>3. QED
        BY <2>1, <2>2, <4>1, <4>2 DEF Pending
    <3>3. QED
      BY <3>1, <3>2
  <2>3. QED
    BY <2>1, <2>2, WatchedStays DEF Set
<1>3. CASE CloseSend(c) \/ HangUp(c)
  <2>1. UNCHANGED <<clients, online, blame, handler>>
    BY <1>3 DEF CloseSend, HangUp
  <2>2. ASSUME NEW x \in Conns PROVE Ending(reader[x]) => Ending(reader'[x])
    BY <1>3 DEF IInv, TypeOK, CloseSend, HangUp, ReaderGoes, Ending
  <2>3. QED
    BY <2>1, <2>2, WatchedStill
<1>4. CASE SetOffline(c)
  <2>1. CASE DeviceOf[c] = d
    <3>1. ~online'[d] \/ blame'[d] = "failed"
      BY <1>1, <1>4, <2>1 DEF IInv, TypeOK, SetOffline, SetStatus
    <3>2. QED
      BY <3>1 DEF Watched
  <2>2. CASE DeviceOf[c] # d
    <3>1. online'[d] = online[d] /\ blame'[d] = blame[d] /\ clients' = clients /\ handler' = handler
      BY <1>1, <1>4, <2>2, SetStatusOther DEF IInv, SetOffline
    <3>2. ASSUME NEW x \in Conns, DeviceOf[x] = d PROVE reader'[x] = reader[x]
      BY <1>4, <2>2, <3>2 DEF IInv, TypeOK, SetOffline, ReaderGoes
    <3>3. QED
      BY <3>1, <3>2, WatchedStays DEF Set, Pending
  <2>3. QED
    BY <2>1, <2>2
<1>5. QED
  BY <1>2, <1>3, <1>4

\* Every other step of a connection or of a caller.
LEMMA WatchedQuietly ==
    ASSUME IInv, NEW d \in Devices, Watched(d), NEW c \in Conns,
           Upgrade(c) \/ Welcome(c) \/ Receive(c) \/ ReadFails(c) \/ SendPong(c) \/ RelaySend(c)
               \/ (\E e \in Devices : RelayLookup(c, e)) \/ WritePump(c) \/ PeerCloses(c) \/ PeerVanishes(c)
    PROVE  Watched(d)'
<1>1. UNCHANGED <<clients, online, blame>>
  BY DEF Upgrade, Welcome, Receive, ReadPing, ReadHeartbeat, ReadOther, ReadSignal, ReadFails, SendPong,
         RelaySend, RelayLookup, WritePump, Write, PingFails, SendClosed, PeerCloses, PeerVanishes
<1>2. ASSUME NEW x \in Conns
      PROVE  /\ handler'[x] # handler[x] => \/ handler[x] = "idle" /\ handler'[x] = "set_online"
                                            \/ handler[x] = "welcome" /\ handler'[x] = "done"
             /\ Ending(reader[x]) => Ending(reader'[x])
  <2>1. CASE Upgrade(c)
    <3>1. handler[c] = "idle"
      BY <2>1 DEF IInv, Fresh, Upgrade
    <3>2. QED
      BY <2>1, <3>1 DEF IInv, TypeOK, Upgrade
  <2>2. CASE Welcome(c)
    BY <2>2 DEF IInv, TypeOK, Welcome
  <2>3. CASE Receive(c) \/ ReadFails(c) \/ SendPong(c)
    BY <2>3 DEF IInv, TypeOK, ReaderGoes, ReaderSent, Ending, Receive, ReadPing, ReadHeartbeat, ReadOther,
                ReadSignal, ReadFails, SendPong
  <2>4. CASE RelaySend(c) \/ \E e \in Devices : RelayLookup(c, e)
    BY <2>4 DEF IInv, TypeOK, ReaderGoes, ReaderSent, Ending, RelaySend, RelayLookup
  <2>5. CASE WritePump(c) \/ PeerCloses(c) \/ PeerVanishes(c)
    BY <2>5 DEF WritePump, Write, PingFails, SendClosed, PeerCloses, PeerVanishes
  <2>6. QED
    BY <2>1, <2>2, <2>3, <2>4, <2>5
<1>3. QED
  BY <1>1, <1>2, WatchedStill

\* Nothing is pending for a device at rest, so if the process ends then, a device that
\* was not to blame had been set offline already; any other is to blame from now on.
LEMMA WatchedRestart ==
    ASSUME IInv, NEW d \in Devices, Watched(d), Restarted
    PROVE  Watched(d)'
<1>1. CASE ~AtRest(d)
  BY <1>1 DEF Restarted, Watched
<1>2. CASE AtRest(d)
  <2>1. ~\E c \in Conns : Pending(c, d)
    BY <1>2, NoneAssumption DEF IInv, EntriesAreLive, AtRest, Pending, Ending, Looping
  <2>2. online'[d] = online[d] /\ blame'[d] = blame[d]
    BY <1>2 DEF Restarted
  <2>3. ASSUME NEW c \in Conns, Set(c, d)'  PROVE Set(c, d)
    <3>1. link[c] # "unused"
      BY <2>3 DEF Restarted, Set
    <3>2. QED
      BY <1>2, <2>3, <3>1 DEF IInv, Fresh, AtRest, Set
  <2>4. QED
    BY <2>1, <2>2, <2>3 DEF Watched
<1>3. QED
  BY <1>1, <1>2

LEMMA WatchedNext ==
    ASSUME IInv, [Next]_vars, NEW d \in Devices, Watched(d)
    PROVE  Watched(d)'
<1>1. CASE UNCHANGED vars
  BY <1>1 DEF vars, Watched, Set, Pending
<1>2. ASSUME NEW c \in Conns, HandleWS(c)  PROVE Watched(d)'
  BY <1>2, WatchedBegins, WatchedQuietly DEF HandleWS
<1>3. ASSUME NEW c \in Conns, ReadPump(c)  PROVE Watched(d)'
  BY <1>3, WatchedHeartbeat, WatchedEnds, WatchedQuietly, WatchedRestart DEF ReadPump, Dies
<1>4. ASSUME NEW c \in Conns, Upgrade(c) \/ Receive(c) \/ WritePump(c) \/ PeerCloses(c) \/ PeerVanishes(c)
      PROVE  Watched(d)'
  BY <1>4, WatchedQuietly
<1>5. ASSUME NEW n \in Notifiers, NotifySend(n) \/ \E e \in Devices : NotifyLookup(n, e)
      PROVE  Watched(d)'
  BY <1>5 DEF NotifySend, NotifyLookup, Watched, Set, Pending
<1>6. Stop => Watched(d)'
  BY WatchedRestart DEF Stop
<1>7. QED
  BY <1>1, <1>2, <1>3, <1>4, <1>5, <1>6 DEF Next

LEMMA WatchedInit == Init => \A d \in Devices : Watched(d)
  BY DEF Init, Watched, Set

LEMMA WatchedAtRest == IInv /\ (\A d \in Devices : Watched(d)) => OnlineIsExplained
<1> SUFFICES ASSUME IInv, NEW d \in Devices, Watched(d), AtRest(d), online[d],
                    NEW c \in Conns, DeviceOf[c] = d, handler[c] = "done", blame[d] = "none"
             PROVE  FALSE
  BY DEF OnlineIsExplained, IInv, TypeOK
<1>1. PICK x \in Conns : Pending(x, d)
  BY DEF Watched, Set
<1>2. QED
  BY <1>1, NoneAssumption DEF IInv, EntriesAreLive, AtRest, Pending, Ending, Looping

\* What leaves a device online whose connections are gone is a heartbeat handled for a
\* connection that had left the map, an offline that failed, or the end of the process,
\* whether it was stopped or a readPump panicked, and nothing else: no order of the
\* writes of any number of connections does it.
THEOREM StatusIsExplained == Spec => []OnlineIsExplained
<1> DEFINE WInv == \A d \in Devices : Watched(d)
<1>1. Init => WInv
  BY WatchedInit
<1>2. IInv /\ [Next]_vars /\ WInv => WInv'
  BY WatchedNext
<1>3. IInv /\ WInv => OnlineIsExplained
  BY WatchedAtRest
<1> HIDE DEF WInv
<1>4. QED
  BY <1>1, <1>2, <1>3, Invariance, PTL DEF Spec

-----------------------------------------------------------------------------
(* Sends on a closed channel.                                              *)

\* A client that is in the map has an open channel, so a caller of NotifyDevice
\* that writes to it cannot panic.
LEMMA HeldIsOpen ==
    ASSUME IInv, NEW t \in Callers, held[t] \in Conns, clients[DeviceOf[held[t]]] = held[t]
    PROVE  open[held[t]]
<1>1. DeviceOf[held[t]] \in Devices /\ held[t] # None
  BY DeviceAssumption, NoneAssumption
<1>2. QED
  BY <1>1 DEF IInv, EntriesAreLive

\* A readPump has closed its own channel only after its last send, so the one send of
\* its that panics is a relay to a channel of another device.
LEMMA ReaderPanics ==
    ASSUME IInv, NEW c \in Conns, Receive(c) \/ ReadPump(c), panics' # panics
    PROVE  RelaySend(c) /\ ~open[held[c]] /\ panics' = panics \cup {c}
<1>1. reader[c] \in Looping => open[c]
  BY DEF IInv, Fresh
<1>2. ~SendPong(c) /\ ~ReadOther(c)
  BY <1>1 DEF SendPong, ReadOther, Offer, Looping
<1>3. RelaySend(c)
  BY <1>2 DEF Receive, ReadPing, ReadHeartbeat, ReadSignal, ReadPump, ReadFails, Heartbeat, RelayLookup,
              Unregister, CloseSend, HangUp, SetOffline, Dies, Restarted
<1>4. QED
  BY <1>3 DEF RelaySend, Offer

\* The steps of everybody else.
LEMMA OthersPanic ==
    ASSUME [Next]_vars, \A c \in Conns : ~Receive(c) /\ ~ReadPump(c)
    PROVE  \/ panics' \subseteq panics \cup {"handler"}
           \/ \E n \in Notifiers : NotifySend(n)
<1>1. ASSUME NEW c \in Conns, Upgrade(c) \/ HandleWS(c) \/ WritePump(c) \/ PeerCloses(c) \/ PeerVanishes(c)
      PROVE  panics' \subseteq panics \cup {"handler"}
  BY <1>1 DEF Upgrade, HandleWS, SetOnline, Register, Welcome, WritePump, Write, PingFails, SendClosed,
              PeerCloses, PeerVanishes
<1>2. ASSUME NEW n \in Notifiers, NEW d \in Devices, NotifyLookup(n, d)  PROVE panics' = panics
  BY <1>2 DEF NotifyLookup
<1>3. Stop => panics' = panics
  BY DEF Stop, Restarted
<1>4. CASE UNCHANGED vars
  BY <1>4 DEF vars
<1>5. QED
  BY <1>1, <1>2, <1>3, <1>4 DEF Next

LEMMA OnlyWelcomesNext == IInv /\ HeldInPlace /\ [Next]_vars /\ OnlyWelcomesPanic => OnlyWelcomesPanic'
<1> SUFFICES ASSUME IInv, HeldInPlace, [Next]_vars, OnlyWelcomesPanic PROVE OnlyWelcomesPanic'
  OBVIOUS
<1> USE DEF OnlyWelcomesPanic
<1>1. ASSUME NEW t \in Callers, held[t] \in Conns  PROVE open[held[t]]
  <2>1. clients[DeviceOf[held[t]]] = held[t]
    BY <1>1, NoneAssumption DEF HeldInPlace
  <2>2. QED
    BY <1>1, <2>1, HeldIsOpen
<1>2. ASSUME NEW c \in Conns, Receive(c) \/ ReadPump(c)  PROVE panics' = panics
  <2>1. RelaySend(c) => open[held[c]]
    BY <1>1 DEF IInv, Fresh, Relays, Callers, RelaySend
  <2>2. QED
    BY <1>2, <2>1, ReaderPanics
<1>3. ASSUME NEW n \in Notifiers, NotifySend(n)  PROVE panics' = panics
  BY <1>1, <1>3 DEF IInv, TypeOK, Callers, NotifySend, Offer
<1>4. QED
  BY <1>2, <1>3, OthersPanic

\* The panics of NotifyDevice all come from the time between its lookup and its
\* write: if a client that was looked up stays in the map until it is written to,
\* only HandleWS ever panics, which the HTTP server recovers.
THEOREM LateWritesPanic == Spec /\ []HeldInPlace => []OnlyWelcomesPanic
<1>1. Init => OnlyWelcomesPanic
  BY DEF Init, OnlyWelcomesPanic
<1>2. QED
  BY <1>1, OnlyWelcomesNext, Invariance, PTL DEF Spec

LEMMA OnlyRelaysNext ==
    ASSUME IInv, [Next]_vars, NEW c \in Conns, c \in panics' \ panics
    PROVE  /\ reader[c] = "send"
           /\ DeviceOf[held[c]] # DeviceOf[c]
           /\ clients[DeviceOf[held[c]]] # held[c]
<1>1. ~\E n \in Notifiers : NotifySend(n)
  BY GoroutineAssumption DEF NotifySend, Offer
<1>2. PICK x \in Conns : Receive(x) \/ ReadPump(x)
  BY <1>1, OthersPanic, GoroutineAssumption
<1>3. RelaySend(x) /\ ~open[held[x]] /\ x = c
  BY <1>2, ReaderPanics
<1>4. Relays(c) /\ reader[c] = "send" /\ c \in Callers
  BY <1>3 DEF IInv, Fresh, RelaySend, Callers
<1>5. QED
  BY <1>3, <1>4, HeldIsOpen DEF Relays

\* Only the relay of a signal to a connection that has left the map since its lookup
\* ends the process.  A readPump sends on its own channel too, without asking whether
\* it is open, and never finds it closed: it is the only one to close it, at its end.
THEOREM OnlyRelaysEndTheProcess == Spec => OnlyRelaysPanic
<1>1. IInv /\ [Next]_vars => [\A c \in Conns : c \in panics' \ panics =>
                                 /\ reader[c] = "send"
                                 /\ DeviceOf[held[c]] # DeviceOf[c]
                                 /\ clients[DeviceOf[held[c]]] # held[c]]_vars
  BY OnlyRelaysNext
<1>2. QED
  BY <1>1, Invariance, PTL DEF Spec, OnlyRelaysPanic
=============================================================================
