------------------------ MODULE ClientSession_proofs ------------------------
(***************************************************************************)
(* Proofs about ClientSession, for any number of devices, requests,        *)
(* sessions and overlapping starts of sharing.  The invariant says what    *)
(* every call, every message on the way and every client know about the    *)
(* rows of the server; rows only grow, so what is known stays true.        *)
(***************************************************************************)
EXTENDS ClientSession, SequenceTheorems, TLAPS

EndsOf(s) == {Requester(s), Target(s)}

RespondCalls == [op : {"respond"}, id : Requests, accept : BOOLEAN, step : {"sent", "reply", "refused"}]
EndCalls == [op : {"end"}, id : Ids, step : {"sent", "requester", "target", "reply", "refused"}]
StartCalls == [op : {"start"}, id : Requests, session : 0 .. MaxSessions, retry : BOOLEAN,
               step : {"sent", "requester", "target", "reply", "refused"}]
Calls == {NoCall} \cup RespondCalls \cup EndCalls \cup StartCalls

RequestMsgs == [type : {"session_request"}, id : Requests]
ResponseMsgs == [type : {"session_response"}, id : Requests, status : {"accepted", "rejected"}]
SessionMsgs == [type : {"session_started", "session_ended"}, id : Ids]
Messages == RequestMsgs \cup ResponseMsgs \cup SessionMsgs

Rows == [request : Requests, state : {"active", "expired", "ended"}]

\* What a session that d is an end of is to d.
Mine(d, s) == s \in 1 .. Len(session) /\ d \in EndsOf(s)

TablesOK ==
    /\ request \in [Requests -> {"none", "pending", "accepted", "rejected"}]
    /\ session \in Seq(Rows) /\ Len(session) <= MaxSessions
    /\ \A r \in Requests : request[r] = "accepted" => r \in clicked
    /\ \A s \in 1 .. Len(session) : session[s].request \in clicked

MessageOK(d, m) ==
    /\ m \in RequestMsgs => To[m.id] = d
    /\ m \in ResponseMsgs => From[m.id] = d
    /\ m \in SessionMsgs => Mine(d, m.id)

QueueOK ==
    /\ queue \in [Devices -> Seq(Messages)]
    /\ \A d \in Devices : \A i \in 1 .. Len(queue[d]) : MessageOK(d, queue[d][i])

CallOK(d, k, c) ==
    /\ c \in RespondCalls => k = "user" /\ To[c.id] = d /\ (c.accept => c.id \in clicked)
    /\ c \in EndCalls => k = "user" /\ Mine(d, c.id)
    /\ c \in StartCalls =>
          /\ k = "start" /\ From[c.id] = d
          /\ c.step \in {"requester", "target", "reply"} =>
                /\ c.session \in 1 .. Len(session)
                /\ Requester(c.session) = d

CallsOK ==
    /\ call \in [Devices -> [Slots -> Calls]]
    /\ \A d \in Devices, k \in Slots : CallOK(d, k, call[d][k])

ViewOK ==
    /\ pending \in [Devices -> Requests \cup {None}]
    /\ active \in [Devices -> 0 .. Len(session)]
    /\ bound \in [Devices -> BOOLEAN]
    /\ \A d \in Devices : /\ pending[d] # None => To[pending[d]] = d
                          /\ active[d] # NoSession => d \in EndsOf(active[d])
                          /\ bound[d] => active[d] # NoSession /\ Requester(active[d]) = d

ShareOK ==
    /\ share \in [Devices -> [timer : BOOLEAN, stray : BOOLEAN, shot : BOOLEAN, starts : Nat, overlapped : BOOLEAN]]
    /\ \A d \in Devices : \/ share[d].overlapped
                          \/ /\ ~share[d].stray /\ share[d].starts <= 1
                             /\ share[d].timer => share[d].starts = 0

News(s) == [type |-> "session_ended", id |-> s]

\* The end of s is known to d, on the way to it or lost.
Informed(d, s) ==
    \/ s \in told[d] \/ News(s) \in lost[d]
    \/ \E i \in 1 .. Len(queue[d]) : queue[d][i] = News(s)

Ending(s, step) ==
    \E e \in Devices, k \in Slots : call[e][k] \in EndCalls /\ call[e][k].id = s /\ call[e][k].step = step

\* The two ends of s are told in turn by a call that ends it.
Told(s) == \/ Ending(s, "requester")
           \/ Informed(Requester(s), s) /\ (Ending(s, "target") \/ Informed(Target(s), s))

ToldOK ==
    /\ told \in [Devices -> SUBSET Ids] /\ DOMAIN lost = Devices
    /\ \A s \in 1 .. Len(session) : session[s].state = "ended" => Told(s)

IInv == TablesOK /\ QueueOK /\ CallsOK /\ ViewOK /\ ShareOK /\ ToldOK

-----------------------------------------------------------------------------
LEMMA InitOK == Init => IInv
<1>1. SUFFICES ASSUME Init PROVE IInv
  OBVIOUS
<1>2. TablesOK
  BY <1>1, BoundAssumption DEF Init, TablesOK
<1>3. QueueOK /\ CallsOK
  BY <1>1 DEF Init, QueueOK, CallsOK, Calls, CallOK, NoCall, RespondCalls, EndCalls, StartCalls
<1>4. ViewOK /\ ShareOK
  BY <1>1, EndsAssumption DEF Init, ViewOK, ShareOK, NoSession
<1>5. ToldOK
  BY <1>1 DEF Init, ToldOK
<1>6. QED
  BY <1>2, <1>3, <1>4, <1>5 DEF IInv

LEMMA LenIsNat == TablesOK => Len(session) \in Nat
  BY DEF TablesOK

\* The invariant contains the safety properties.
LEMMA Consequences == IInv => TypeOK /\ ShownIsConsented /\ InputFollowsRole /\ StraysAreOverlaps /\ StaleWasTold
<1>1. SUFFICES ASSUME IInv PROVE TypeOK /\ ShownIsConsented /\ InputFollowsRole /\ StraysAreOverlaps /\ StaleWasTold
  OBVIOUS
<1> USE <1>1 DEF IInv
<1>2. TypeOK
  <2>1. ASSUME NEW d \in Devices, NEW i \in 1 .. Len(queue[d])
        PROVE  queue[d][i].id \in IF queue[d][i].type \in {"session_request", "session_response"}
                                  THEN Requests ELSE 1 .. Len(session)
    <3>1. queue[d][i] \in Messages /\ MessageOK(d, queue[d][i])
      BY <2>1 DEF QueueOK
    <3>2. QED
      BY <3>1 DEF Messages, RequestMsgs, ResponseMsgs, SessionMsgs, MessageOK, Mine
  <2>2. ASSUME NEW d \in Devices, NEW k \in Slots, call[d][k] # NoCall
        PROVE  call[d][k].id \in IF call[d][k].op = "end" THEN 1 .. Len(session) ELSE Requests
    <3>1. call[d][k] \in Calls /\ CallOK(d, k, call[d][k])
      BY <2>2 DEF CallsOK
    <3>2. QED
      BY <2>2, <3>1 DEF Calls, RespondCalls, EndCalls, StartCalls, CallOK, Mine
  <2>3. DOMAIN queue = Devices /\ DOMAIN call = Devices
    BY DEF QueueOK, CallsOK
  <2>4. QED
    BY <2>1, <2>2, <2>3 DEF TypeOK, TablesOK, ViewOK, ShareOK, Rows
<1>3. ShownIsConsented
  <2>1. ASSUME NEW d \in Devices, active[d] # NoSession
        PROVE  active[d] \in 1 .. Len(session) /\ d \in EndsOf(active[d])
    BY <2>1, LenIsNat DEF ViewOK, NoSession
  <2>2. QED
    BY <2>1 DEF ShownIsConsented, TablesOK, EndsOf
<1>4. InputFollowsRole
  BY DEF InputFollowsRole, ViewOK
<1>5. StraysAreOverlaps
  BY DEF StraysAreOverlaps, ShareOK
<1>6. ASSUME NEW d \in Devices, NEW s \in Ids, Shows(d, s), Ended(s)
      PROVE  Informed(d, s) \/ Ending(s, "requester") \/ (Ending(s, "target") /\ d = Target(s))
  <2>1. d \in EndsOf(s)
    BY <1>6 DEF ViewOK, Shows
  <2>2. QED
    BY <1>6, <2>1 DEF ToldOK, Told, Ended, EndsOf
<1>7. ASSUME NEW s, NEW step, Ending(s, step)
      PROVE  \E e \in Devices, k \in Slots : /\ call[e][k] # NoCall
                                             /\ call[e][k].op = "end" /\ call[e][k].id = s
                                             /\ call[e][k].step = step
  BY <1>7 DEF Ending, EndCalls, NoCall
<1>8. StaleWasTold
  BY <1>6, <1>7 DEF StaleWasTold, Informed, News
<1>9. QED
  BY <1>2, <1>3, <1>4, <1>5, <1>8

-----------------------------------------------------------------------------
(* What is known of rows stays true.                                       *)

Grows ==
    /\ Len(session) <= Len(session')
    /\ \A s \in 1 .. Len(session) : session'[s].request = session[s].request
    /\ clicked \subseteq clicked'

\* A session is one of a request, whose ends are devices.
LEMMA EndsAreDevices ==
    ASSUME TablesOK, NEW s \in 1 .. Len(session)
    PROVE  /\ session[s] \in Rows /\ s \in Ids
           /\ Requester(s) \in Devices /\ Target(s) \in Devices
<1>1. PICK q \in Seq(Rows) : q = session
  BY DEF TablesOK
<1>2. session[s] \in Rows
  BY <1>1, ElementOfSeq
<1>3. s \in Ids
  BY BoundAssumption, LenIsNat DEF TablesOK, Ids
<1>4. QED
  BY <1>2, <1>3, EndsAssumption DEF Requester, Target, Rows

LEMMA MineStable ==
    ASSUME TablesOK, TablesOK', Grows, NEW d, NEW s, Mine(d, s) PROVE Mine(d, s)'
  BY LenIsNat DEF TablesOK, Grows, Mine, EndsOf, Requester, Target

LEMMA MessageStable ==
    ASSUME TablesOK, TablesOK', Grows, NEW d, NEW m, MessageOK(d, m) PROVE MessageOK(d, m)'
  BY MineStable DEF MessageOK

LEMMA CallStable ==
    ASSUME TablesOK, TablesOK', Grows, NEW d, NEW k, NEW c, CallOK(d, k, c) PROVE CallOK(d, k, c)'
<1>1. c \in StartCalls /\ c.session \in 1 .. Len(session) =>
          /\ c.session \in 1 .. Len(session')
          /\ (Requester(c.session) = d => From[session'[c.session].request] = d)
  BY LenIsNat DEF TablesOK, Grows, Requester
<1>2. QED
  BY <1>1, MineStable DEF CallOK, Grows, Requester

LEMMA QueueSame == ASSUME IInv, TablesOK', Grows, UNCHANGED queue PROVE QueueOK'
  BY MessageStable DEF IInv, QueueOK

LEMMA QueueAppend ==
    ASSUME IInv, TablesOK', Grows, NEW d \in Devices, NEW m \in Messages, MessageOK(d, m)',
           queue' = [queue EXCEPT ![d] = Append(@, m)]
    PROVE  QueueOK'
<1>1. queue' = [queue EXCEPT ![d] = Append(queue[d], m)]
  OBVIOUS
<1>2. queue[d] \in Seq(Messages) /\ Append(queue[d], m) \in Seq(Messages)
  BY DEF IInv, QueueOK
<1>3. queue' \in [Devices -> Seq(Messages)]
  BY <1>1, <1>2 DEF IInv, QueueOK
<1>4. ASSUME NEW e \in Devices, NEW i \in 1 .. Len(queue'[e]) PROVE MessageOK(e, queue[e][i])'
  <2>1. CASE e # d
    <3>1. queue'[e] = queue[e]
      BY <1>1, <2>1 DEF IInv, QueueOK
    <3>2. MessageOK(e, queue[e][i])
      BY <1>4, <3>1 DEF IInv, QueueOK
    <3>3. QED
      BY <3>1, <3>2, MessageStable DEF IInv
  <2>2. CASE e = d
    <3>1. queue'[e] = Append(queue[d], m)
      BY <1>1, <2>2 DEF IInv, QueueOK
    <3>2. CASE i = Len(queue[d]) + 1
      <4>1. queue'[e][i] = m
        BY <1>2, <3>1, <3>2
      <4>2. QED
        BY <2>2, <4>1
    <3>3. CASE i # Len(queue[d]) + 1
      <4>1. i \in 1 .. Len(queue[d]) /\ queue'[e][i] = queue[d][i]
        BY <1>2, <1>4, <3>1, <3>3
      <4>2. MessageOK(d, queue[d][i])
        BY <4>1 DEF IInv, QueueOK
      <4>3. QED
        BY <2>2, <4>1, <4>2, MessageStable DEF IInv
    <3>4. QED
      BY <3>2, <3>3
  <2>3. QED
    BY <2>1, <2>2
<1>5. QED
  BY <1>3, <1>4 DEF QueueOK

\* A message that is sent is queued or dropped.
LEMMA QueueSend ==
    ASSUME IInv, TablesOK', Grows, NEW d \in Devices, NEW m \in Messages, MessageOK(d, m)', Send(d, m)
    PROVE  QueueOK'
  BY QueueAppend, QueueSame DEF Send

LEMMA QueueTake ==
    ASSUME IInv, TablesOK', Grows, NEW d \in Devices, queue[d] # <<>>,
           queue' = [queue EXCEPT ![d] = Tail(queue[d])]
    PROVE  QueueOK'
<1>1. queue[d] \in Seq(Messages) /\ Tail(queue[d]) \in Seq(Messages)
  BY DEF IInv, QueueOK
<1>2. queue' \in [Devices -> Seq(Messages)]
  BY <1>1 DEF IInv, QueueOK
<1>3. ASSUME NEW e \in Devices, NEW i \in 1 .. Len(queue'[e]) PROVE MessageOK(e, queue[e][i])'
  <2>1. CASE e # d
    <3>1. queue'[e] = queue[e]
      BY <2>1 DEF IInv, QueueOK
    <3>2. MessageOK(e, queue[e][i])
      BY <1>3, <3>1 DEF IInv, QueueOK
    <3>3. QED
      BY <3>1, <3>2, MessageStable DEF IInv
  <2>2. CASE e = d
    <3>1. queue'[e] = Tail(queue[d])
      BY <2>2 DEF IInv, QueueOK
    <3>2. i + 1 \in 1 .. Len(queue[d]) /\ queue'[e][i] = queue[d][i + 1]
      <4>1. PICK q \in Seq(Messages) : q = queue[d] /\ q # <<>>
        BY <1>1
      <4>2. i \in 1 .. Len(Tail(q))
        BY <1>3, <3>1, <4>1
      <4>3. Len(Tail(q)) = Len(q) - 1 /\ Len(q) \in Nat
        BY <4>1, HeadTailProperties
      <4>4. i + 1 \in 1 .. Len(q) /\ Tail(q)[i] = q[i + 1]
        BY <4>1, <4>2, <4>3, HeadTailProperties
      <4>5. QED
        BY <3>1, <4>1, <4>4
    <3>3. MessageOK(d, queue[d][i + 1])
      BY <3>2 DEF IInv, QueueOK
    <3>4. QED
      BY <2>2, <3>2, <3>3, MessageStable DEF IInv
  <2>3. QED
    BY <2>1, <2>2
<1>4. QED
  BY <1>2, <1>3 DEF QueueOK

LEMMA CallsSame == ASSUME IInv, TablesOK', Grows, UNCHANGED call PROVE CallsOK'
  BY CallStable DEF IInv, CallsOK

LEMMA CallsPut ==
    ASSUME IInv, TablesOK', Grows, NEW d \in Devices, NEW k \in Slots, NEW c \in Calls,
           CallOK(d, k, c)', call' = [call EXCEPT ![d][k] = c]
    PROVE  CallsOK'
<1>1. call' \in [Devices -> [Slots -> Calls]]
  BY DEF IInv, CallsOK
<1>2. ASSUME NEW e \in Devices, NEW j \in Slots PROVE CallOK(e, j, call[e][j])'
  <2>1. CASE e = d /\ j = k
    <3>1. call'[e][j] = c
      BY <2>1 DEF IInv, CallsOK
    <3>2. QED
      BY <2>1, <3>1
  <2>2. CASE ~(e = d /\ j = k)
    <3>1. call'[e][j] = call[e][j]
      BY <2>2 DEF IInv, CallsOK
    <3>2. CallOK(e, j, call[e][j])
      BY DEF IInv, CallsOK
    <3>3. QED
      BY <3>1, <3>2, CallStable DEF IInv
  <2>3. QED
    BY <2>1, <2>2
<1>3. QED
  BY <1>1, <1>2 DEF CallsOK

LEMMA ViewSame ==
    ASSUME IInv, TablesOK', Grows, UNCHANGED <<pending, active, bound>> PROVE ViewOK'
<1>1. ASSUME NEW d \in Devices, active[d] # NoSession
      PROVE  /\ active[d] \in 1 .. Len(session') /\ EndsOf(active[d])' = EndsOf(active[d])
             /\ Requester(active[d])' = Requester(active[d])
  BY <1>1, LenIsNat
  DEF IInv, ViewOK, NoSession, Grows, EndsOf, Requester, Target, TablesOK
<1>2. \A d \in Devices : active[d] \in 0 .. Len(session')
  BY LenIsNat DEF IInv, ViewOK, Grows, TablesOK
<1>3. QED
  BY <1>1, <1>2 DEF IInv, ViewOK

\* What a device knows of ends, and the ends that are being told.
Keeps == /\ DOMAIN lost' = Devices
         /\ \A d \in Devices, s \in Ids : Informed(d, s) => Informed(d, s)'

Goes == \A e \in Devices, k \in Slots :
            call[e][k] \in EndCalls /\ call[e][k].step \in {"requester", "target"} =>
                call'[e][k] = call[e][k]

LEMMA GoesOn ==
    ASSUME Goes, NEW s, NEW step \in {"requester", "target"}, Ending(s, step) PROVE Ending(s, step)'
  BY DEF Goes, Ending

LEMMA ToldOf ==
    ASSUME IInv, Grows, Keeps, NEW s \in 1 .. Len(session), session[s].state = "ended",
           Ending(s, "requester") => Ending(s, "requester")', Ending(s, "target") => Ending(s, "target")'
    PROVE  Told(s)'
<1>1. Requester(s)' = Requester(s) /\ Target(s)' = Target(s)
  BY DEF Grows, Requester, Target
<1>3. PICK r, t : r = Requester(s) /\ t = Target(s)
  OBVIOUS
<1>4. r \in Devices /\ t \in Devices /\ s \in Ids
  BY <1>3, EndsAreDevices DEF IInv
<1>5. (Informed(r, s) => Informed(r, s)') /\ (Informed(t, s) => Informed(t, s)')
  BY <1>4 DEF Keeps
<1>6. Told(s)
  BY DEF IInv, ToldOK
<1>7. QED
  BY <1>1, <1>3, <1>5, <1>6 DEF Told

LEMMA ToldStep ==
    ASSUME IInv, TablesOK', Grows, Keeps, Goes, told' \in [Devices -> SUBSET Ids],
           \A s \in 1 .. Len(session') : session'[s].state = "ended" => s <= Len(session) /\ session[s].state = "ended"
    PROVE  ToldOK'
<1>1. ASSUME NEW s \in 1 .. Len(session'), session'[s].state = "ended" PROVE Told(s)'
  BY <1>1, LenIsNat, GoesOn, ToldOf DEF IInv
<1>2. QED
  BY <1>1 DEF ToldOK, Keeps

LEMMA KeepsSame == ASSUME IInv, UNCHANGED <<queue, told, lost>> PROVE Keeps
  BY DEF Keeps, Informed, IInv, ToldOK

LEMMA KeepsAppend ==
    ASSUME IInv, NEW d \in Devices, NEW m \in Messages, queue' = [queue EXCEPT ![d] = Append(@, m)],
           UNCHANGED <<told, lost>>
    PROVE  Keeps
<1>1. queue[d] \in Seq(Messages) /\ queue' = [queue EXCEPT ![d] = Append(queue[d], m)]
  BY DEF IInv, QueueOK
<1>2. ASSUME NEW e \in Devices, NEW i \in 1 .. Len(queue[e])
      PROVE  i \in 1 .. Len(queue'[e]) /\ queue'[e][i] = queue[e][i]
  <2>1. CASE e = d
    <3>1. queue'[e] = Append(queue[d], m)
      BY <1>1, <2>1 DEF IInv, QueueOK
    <3>2. QED
      BY <1>1, <1>2, <2>1, <3>1
  <2>2. CASE e # d
    BY <1>1, <2>2 DEF IInv, QueueOK
  <2>3. QED
    BY <2>1, <2>2
<1>3. QED
  BY <1>2 DEF Keeps, Informed, IInv, ToldOK

\* Messages that are lost are remembered as such.
LEMMA KeepsLosing ==
    ASSUME IInv, DOMAIN lost' = Devices, \A e \in Devices : lost[e] \subseteq lost'[e],
           UNCHANGED <<queue, told>>
    PROVE  Keeps
  BY DEF Keeps, Informed

LEMMA KeepsSend ==
    ASSUME IInv, NEW d \in Devices, NEW m \in Messages, Send(d, m), UNCHANGED told
    PROVE  Keeps
<1>1. CASE lost' = [lost EXCEPT ![d] = @ \cup {m}] /\ UNCHANGED queue
  <2>1. DOMAIN lost' = Devices /\ \A e \in Devices : lost[e] \subseteq lost'[e]
    BY <1>1 DEF IInv, ToldOK
  <2>2. QED
    BY <1>1, <2>1, KeepsLosing
<1>2. QED
  BY <1>1, KeepsAppend DEF Send

\* Who is sent the news of an end is informed, also when the message is dropped.
LEMMA SendInforms ==
    ASSUME IInv, NEW d \in Devices, NEW s \in Ids, Send(d, News(s)) PROVE Informed(d, s)'
<1>1. CASE queue' = [queue EXCEPT ![d] = Append(@, News(s))]
  <2>1. PICK p \in Seq(Messages) : p = queue[d]
    BY DEF IInv, QueueOK
  <2>2. queue'[d] = Append(p, News(s))
    BY <1>1, <2>1 DEF IInv, QueueOK
  <2>3. PICK m \in Messages : m = News(s)
    BY DEF News, Messages, SessionMsgs
  <2>4. Len(p) + 1 \in 1 .. Len(queue'[d]) /\ queue'[d][Len(p) + 1] = m
    BY <2>1, <2>2, <2>3, AppendProperties
  <2>5. QED
    BY <2>3, <2>4 DEF Informed, News
<1>2. CASE lost' = [lost EXCEPT ![d] = @ \cup {News(s)}]
  BY <1>2 DEF IInv, ToldOK, Informed, News
<1>3. QED
  BY <1>1, <1>2 DEF Send

LEMMA KeepsTake ==
    ASSUME IInv, NEW d \in Devices, queue[d] # <<>>, queue' = [queue EXCEPT ![d] = Tail(queue[d])],
           UNCHANGED lost, \A e \in Devices : told[e] \subseteq told'[e],
           Head(queue[d]).type = "session_ended" => Head(queue[d]).id \in told'[d]
    PROVE  Keeps
<1>1. PICK q \in Seq(Messages) : q = queue[d] /\ q # <<>>
  BY DEF IInv, QueueOK
<1>2. queue'[d] = Tail(q) /\ \A e \in Devices \ {d} : queue'[e] = queue[e]
  BY <1>1 DEF IInv, QueueOK
<1>3. ASSUME NEW s, NEW i \in 1 .. Len(q), q[i] = News(s)
      PROVE  Informed(d, s)'
  <2>1. CASE i = 1
    <3>1. Head(q) = News(s)
      BY <1>1, <1>3, <2>1
    <3>2. QED
      BY <1>1, <3>1 DEF Informed, News
  <2>2. CASE i # 1
    <3>1. Len(Tail(q)) = Len(q) - 1 /\ Len(q) \in Nat
      BY <1>1, HeadTailProperties
    <3>2. i - 1 \in 1 .. Len(Tail(q)) /\ (i - 1) + 1 = i
      BY <1>3, <2>2, <3>1
    <3>3. Tail(q)[i - 1] = q[i]
      BY <1>1, <3>2, HeadTailProperties
    <3>4. QED
      BY <1>2, <1>3, <3>2, <3>3 DEF Informed, News
  <2>3. QED
    BY <2>1, <2>2
<1>4. ASSUME NEW s, Informed(d, s) PROVE Informed(d, s)'
  BY <1>1, <1>3, <1>4 DEF Informed, News
<1>5. ASSUME NEW e \in Devices \ {d}, NEW s, Informed(e, s) PROVE Informed(e, s)'
  BY <1>2, <1>5 DEF Informed, News
<1>6. QED
  BY <1>4, <1>5 DEF Keeps, IInv, ToldOK

\* What was on the way to a device whose socket closed is lost.
LEMMA KeepsClosing ==
    ASSUME IInv, NEW d \in Devices, queue' = [queue EXCEPT ![d] = <<>>], UNCHANGED told,
           lost' = [lost EXCEPT ![d] = @ \cup {queue[d][i] : i \in 1 .. Len(queue[d])}]
    PROVE  Keeps
<1>1. ASSUME NEW e \in Devices \ {d} PROVE queue'[e] = queue[e] /\ lost'[e] = lost[e]
  BY DEF IInv, QueueOK, ToldOK
<1>2. lost'[d] = lost[d] \cup {queue[d][i] : i \in 1 .. Len(queue[d])}
  BY DEF IInv, ToldOK
<1>3. ASSUME NEW s, Informed(d, s) PROVE Informed(d, s)'
  <2>1. CASE \E i \in 1 .. Len(queue[d]) : queue[d][i] = News(s)
    <3>1. News(s) \in lost'[d]
      BY <1>2, <2>1
    <3>2. QED
      BY <3>1 DEF Informed, News
  <2>2. CASE s \in told[d] \/ News(s) \in lost[d]
    BY <1>2, <2>2 DEF Informed, News
  <2>3. QED
    BY <1>3, <2>1, <2>2 DEF Informed
<1>4. ASSUME NEW e \in Devices \ {d}, NEW s, Informed(e, s) PROVE Informed(e, s)'
  BY <1>1, <1>4 DEF Informed, News
<1>5. DOMAIN lost' = Devices
  BY DEF IInv, ToldOK
<1>6. QED
  BY <1>3, <1>4, <1>5 DEF Keeps

LEMMA GoesSame == ASSUME UNCHANGED call PROVE Goes
  BY DEF Goes

LEMMA GoesPut ==
    ASSUME IInv, NEW d \in Devices, NEW k \in Slots, NEW c, call' = [call EXCEPT ![d][k] = c],
           call[d][k] \in EndCalls => call[d][k].step \notin {"requester", "target"}
    PROVE  Goes
<1>1. ASSUME NEW e \in Devices, NEW j \in Slots, ~(e = d /\ j = k) PROVE call'[e][j] = call[e][j]
  BY <1>1 DEF IInv, CallsOK
<1>2. QED
  BY <1>1 DEF Goes

LEMMA StepIsPut ==
    ASSUME NEW d, NEW k, NEW step, Step(d, k, step)
    PROVE  call' = [call EXCEPT ![d][k] = [call[d][k] EXCEPT !.step = step]]
  BY DEF Step

\* The rows stay as they are.
LEMMA RowsSame ==
    ASSUME IInv, UNCHANGED <<request, session>>, clicked \subseteq clicked' PROVE TablesOK' /\ Grows
<1>1. TablesOK' /\ \A s \in 1 .. Len(session) : session'[s].request = session[s].request
  BY DEF IInv, TablesOK
<1>2. Len(session) <= Len(session')
  BY LenIsNat DEF IInv
<1>3. QED
  BY <1>1, <1>2 DEF Grows

LEMMA ToldSame ==
    ASSUME IInv, TablesOK', Grows, UNCHANGED <<session, told>>, Keeps, Goes PROVE ToldOK'
<1>1. \A s \in 1 .. Len(session') : session'[s].state = "ended" => s <= Len(session) /\ session[s].state = "ended"
  BY LenIsNat DEF IInv
<1>2. QED
  BY <1>1, ToldStep DEF IInv, ToldOK

-----------------------------------------------------------------------------
(* The actions.                                                            *)

Shares == [timer : BOOLEAN, stray : BOOLEAN, shot : BOOLEAN, starts : Nat, overlapped : BOOLEAN]
OneStart(x) == \/ x.overlapped
               \/ ~x.stray /\ x.starts <= 1 /\ (x.timer => x.starts = 0)

\* A step that only touches what is shared.
LEMMA ShareStep ==
    ASSUME IInv, NEW d \in Devices, NEW x \in Shares, OneStart(x), share' = [share EXCEPT ![d] = x],
           UNCHANGED <<server, queue, call, pending, active, bound, history>>
    PROVE  IInv'
<1>1. TablesOK' /\ Grows
  BY RowsSame DEF server, history
<1>2. QueueOK' /\ CallsOK' /\ ViewOK'
  BY <1>1, QueueSame, CallsSame, ViewSame
<1>3. ToldOK'
  BY <1>1, KeepsSame, GoesSame, ToldSame DEF server, history
<1>4. ShareOK'
  BY DEF IInv, ShareOK, Shares, OneStart
<1>5. QED
  BY <1>1, <1>2, <1>3, <1>4 DEF IInv

LEMMA StartingOK == ASSUME NEW x \in Shares, OneStart(x) PROVE Starting(x) \in Shares /\ OneStart(Starting(x))
<1>1. CASE x.timer
  BY <1>1 DEF Starting
<1>2. CASE ~x.timer
  <2>1. PICK b \in BOOLEAN : b = (x.overlapped \/ x.starts > 0)
    OBVIOUS
  <2> DEFINE y == [x EXCEPT !.starts = @ + 1, !.overlapped = b]
  <2>2. Starting(x) = y
    BY <1>2, <2>1 DEF Starting
  <2>3. b \in BOOLEAN /\ x.starts \in Nat /\ x.starts + 1 \in Nat
    BY <2>1 DEF Shares
  <2>4. y \in Shares
    BY <2>3 DEF Shares
  <2>5. /\ ~y.timer /\ y.stray = x.stray /\ y.starts = x.starts + 1 /\ x.starts \in Nat
        /\ y.overlapped = b
    BY <1>2 DEF Shares
  <2>6. x.overlapped => b
    BY <2>1
  <2>7. ~b => ~(x.starts > 0)
    BY <2>1
  <2>8. ~b => x.starts = 0
    BY <2>3, <2>7
  <2>9. OneStart(y)
    BY <2>5, <2>6, <2>8 DEF OneStart
  <2>10. QED
    BY <2>2, <2>4, <2>9
<1>3. QED
  BY <1>1, <1>2

LEMMA StoppedOK == ASSUME NEW x \in Shares, OneStart(x) PROVE Stopped(x) \in Shares /\ OneStart(Stopped(x))
  BY DEF Shares, OneStart, Stopped

LEMMA SharingOK ==
    ASSUME IInv, NEW d \in Devices, Sharing(d) \/ ShareClick(d) PROVE IInv'
<1>1. share[d] \in Shares /\ OneStart(share[d])
  BY DEF IInv, ShareOK, Shares, OneStart
<1>2. CASE ShareBegins(d)
  <2>1. PICK b \in BOOLEAN : b = (share[d].stray \/ share[d].timer)
    OBVIOUS
  <2> DEFINE x == [share[d] EXCEPT !.starts = @ - 1, !.timer = TRUE, !.stray = b]
  <2>2. share[d].starts \in Nat /\ share[d].starts > 0 /\ share[d].starts - 1 \in Nat
    BY <1>1, <1>2 DEF ShareBegins, Shares
  <2>3. b \in BOOLEAN
    BY <2>1
  <2>4. x \in Shares /\ x.starts = share[d].starts - 1 /\ x.overlapped = share[d].overlapped /\ x.stray = b
    BY <1>1, <2>2, <2>3 DEF Shares
  <2>5. b => share[d].stray \/ share[d].timer
    BY <2>1
  <2>6. OneStart(x)
    BY <1>1, <2>2, <2>4, <2>5 DEF OneStart
  <2>7. share' = [share EXCEPT ![d] = x]
    BY <1>2, <2>1 DEF ShareBegins
  <2>8. QED
    BY <1>2, <2>4, <2>6, <2>7, ShareStep DEF ShareBegins
<1>3. CASE ShareRefused(d)
  <2> DEFINE x == [share[d] EXCEPT !.starts = @ - 1]
  <2>1. x \in Shares /\ OneStart(x)
    BY <1>1, <1>3 DEF ShareRefused, Shares, OneStart
  <2>2. share' = [share EXCEPT ![d] = x]
    BY <1>3 DEF ShareRefused
  <2>3. QED
    BY <1>3, <2>1, <2>2, ShareStep DEF ShareRefused
<1>4. CASE ShareCaptures(d)
  <2> DEFINE x == [share[d] EXCEPT !.shot = ~@]
  <2>1. x \in Shares /\ OneStart(x)
    BY <1>1 DEF Shares, OneStart
  <2>2. share' = [share EXCEPT ![d] = x]
    BY <1>4 DEF ShareCaptures
  <2>3. QED
    BY <1>4, <2>1, <2>2, ShareStep DEF ShareCaptures
<1>5. CASE ShareFallsBack(d)
  <2> DEFINE x == [Stopped(share[d]) EXCEPT !.shot = FALSE]
  <2>1. x \in Shares /\ OneStart(x)
    BY <1>1, StoppedOK DEF Shares, OneStart
  <2>2. share' = [share EXCEPT ![d] = Starting(x)]
    BY <1>5 DEF ShareFallsBack
  <2>3. QED
    BY <1>5, <2>1, <2>2, StartingOK, ShareStep DEF ShareFallsBack
<1>6. CASE ShareClick(d)
  <2>1. share' = [share EXCEPT ![d] = Starting(share[d])] \/ share' = [share EXCEPT ![d] = Stopped(share[d])]
    BY <1>6 DEF ShareClick
  <2>2. QED
    BY <1>1, <1>6, <2>1, StartingOK, StoppedOK, ShareStep DEF ShareClick
<1>7. QED
  BY <1>2, <1>3, <1>4, <1>5, <1>6 DEF Sharing

-----------------------------------------------------------------------------
\* A request gets another status.
LEMMA RequestChanges ==
    ASSUME IInv, NEW r \in Requests, NEW v \in {"none", "pending", "accepted", "rejected"},
           v = "accepted" => r \in clicked,
           request' = [request EXCEPT ![r] = v], UNCHANGED <<session, clicked>>
    PROVE  TablesOK' /\ Grows
<1>1. TablesOK' /\ \A s \in 1 .. Len(session) : session'[s].request = session[s].request
  BY DEF IInv, TablesOK
<1>2. Len(session) <= Len(session')
  BY LenIsNat DEF IInv
<1>3. QED
  BY <1>1, <1>2 DEF Grows

LEMMA AskOK == ASSUME IInv, NEW r \in Requests, Ask(r) PROVE IInv'
<1> DEFINE m == [type |-> "session_request", id |-> r]
<1>1. TablesOK' /\ Grows
  BY RequestChanges DEF Ask
<1>2. m \in Messages /\ MessageOK(To[r], m)' /\ To[r] \in Devices
  BY EndsAssumption DEF Messages, RequestMsgs, ResponseMsgs, SessionMsgs, MessageOK
<1>3. Send(To[r], m)
  BY DEF Ask
<1>4. QueueOK' /\ Keeps
  BY <1>1, <1>2, <1>3, QueueSend, KeepsSend DEF Ask
<1>5. CallsOK' /\ ViewOK' /\ Goes
  BY <1>1, CallsSame, ViewSame, GoesSame DEF Ask, view
<1>6. ToldOK'
  BY <1>1, <1>4, <1>5, ToldSame DEF Ask
<1>7. ShareOK'
  BY DEF IInv, Ask, view, ShareOK
<1>8. QED
  BY <1>1, <1>4, <1>5, <1>6, <1>7 DEF IInv

\* A call starts or goes on, and the rows and what the client shows stay.
LEMMA CallStep ==
    ASSUME IInv, NEW d \in Devices, NEW k \in Slots, NEW c \in Calls,
           call' = [call EXCEPT ![d][k] = c], CallOK(d, k, c)',
           call[d][k] \in EndCalls => call[d][k].step \notin {"requester", "target"},
           TablesOK', Grows, QueueOK', Keeps,
           UNCHANGED <<session, told, view>>
    PROVE  IInv'
<1>1. CallsOK' /\ Goes
  BY CallsPut, GoesPut
<1>2. ViewOK' /\ ToldOK'
  BY <1>1, ViewSame, ToldSame DEF view
<1>3. ShareOK'
  BY DEF IInv, view, ShareOK
<1>4. QED
  BY <1>1, <1>2, <1>3 DEF IInv

LEMMA ClickOK == ASSUME IInv, NEW d \in Devices, NEW accept \in BOOLEAN, Click(d, accept) PROVE IInv'
<1>1. TablesOK' /\ Grows
  BY RowsSame DEF Click, server
<1>2. QueueOK' /\ Keeps
  BY <1>1, QueueSame, KeepsSame DEF Click
<1>3. PICK c : c = [op |-> "respond", id |-> pending[d], accept |-> accept, step |-> "sent"]
  OBVIOUS
<1>4. c.id \in Requests /\ To[c.id] = d /\ (c.accept => c.id \in clicked')
  BY <1>3 DEF IInv, ViewOK, Click
<1>5. c \in RespondCalls /\ c \notin EndCalls /\ c \notin StartCalls
  BY <1>3, <1>4 DEF RespondCalls, EndCalls, StartCalls
<1>6. CallOK(d, "user", c)'
  BY <1>4, <1>5 DEF CallOK
<1>7. call' = [call EXCEPT ![d]["user"] = c] /\ call[d]["user"] \notin EndCalls /\ "user" \in Slots
  BY <1>3 DEF Click, Put, NoCall, EndCalls, Slots
<1>8. UNCHANGED <<session, told, view>> /\ c \in Calls
  BY <1>5 DEF Click, server, Calls
<1>9. QED
  BY <1>1, <1>2, <1>6, <1>7, <1>8, CallStep

LEMMA ClickEndOK == ASSUME IInv, NEW d \in Devices, ClickEnd(d) PROVE IInv'
<1>1. TablesOK' /\ Grows
  BY RowsSame DEF ClickEnd, server, history
<1>2. QueueOK' /\ Keeps
  BY <1>1, QueueSame, KeepsSame DEF ClickEnd, history
<1>3. PICK c : c = [op |-> "end", id |-> active[d], step |-> "sent"]
  OBVIOUS
<1>4. Mine(d, c.id)
  BY <1>3, LenIsNat DEF IInv, ViewOK, ClickEnd, Mine, NoSession
<1>5. c \in EndCalls /\ c \notin RespondCalls /\ c \notin StartCalls
  BY <1>3, <1>4, EndsAreDevices DEF IInv, Mine, RespondCalls, EndCalls, StartCalls
<1>6. Mine(d, c.id)'
  BY <1>1, <1>4, MineStable DEF IInv
<1>7. CallOK(d, "user", c)'
  BY <1>5, <1>6 DEF CallOK
<1>8. call' = [call EXCEPT ![d]["user"] = c] /\ call[d]["user"] \notin EndCalls /\ "user" \in Slots
  BY <1>3 DEF ClickEnd, Put, NoCall, EndCalls, Slots
<1>9. UNCHANGED <<session, told, view>> /\ c \in Calls
  BY <1>5 DEF ClickEnd, server, history, Calls
<1>10. QED
  BY <1>1, <1>2, <1>7, <1>8, <1>9, CallStep

-----------------------------------------------------------------------------
\* A call goes to its next step and stays the same call otherwise.
LEMMA NextStep ==
    ASSUME IInv, TablesOK', Grows, NEW d \in Devices, NEW k \in Slots, NEW c,
           NEW step \in {"sent", "requester", "target", "reply", "refused"},
           call[d][k] \in Calls, call[d][k] # NoCall,
           c = [call[d][k] EXCEPT !.step = step],
           call[d][k] \in RespondCalls => step \in {"sent", "reply", "refused"},
           call[d][k] \in StartCalls /\ step \in {"requester", "target", "reply"} =>
               call[d][k].step \in {"requester", "target"}
    PROVE  c \in Calls /\ CallOK(d, k, c)'
<1>1. CallOK(d, k, call[d][k])
  BY DEF IInv, CallsOK
<1>2. CASE call[d][k] \in RespondCalls
  <2>1. c \in RespondCalls /\ c \notin EndCalls /\ c \notin StartCalls /\ c.id = call[d][k].id /\ c.accept = call[d][k].accept
    BY <1>2 DEF RespondCalls, EndCalls, StartCalls
  <2>2. CallOK(d, k, c)
    BY <1>1, <1>2, <2>1 DEF CallOK
  <2>3. QED
    BY <2>1, <2>2, CallStable DEF IInv, Calls
<1>3. CASE call[d][k] \in EndCalls
  <2>1. c \in EndCalls /\ c \notin RespondCalls /\ c \notin StartCalls /\ c.id = call[d][k].id
    BY <1>3 DEF RespondCalls, EndCalls, StartCalls
  <2>2. CallOK(d, k, c)
    BY <1>1, <1>3, <2>1 DEF CallOK
  <2>3. QED
    BY <2>1, <2>2, CallStable DEF IInv, Calls
<1>4. CASE call[d][k] \in StartCalls
  <2>1. c \in StartCalls /\ c \notin RespondCalls /\ c \notin EndCalls
    BY <1>4 DEF RespondCalls, EndCalls, StartCalls
  <2>2. c.id = call[d][k].id /\ c.session = call[d][k].session /\ c.step = step
    BY <1>4 DEF StartCalls
  <2>3. CallOK(d, k, c)
    BY <1>1, <1>4, <2>1, <2>2 DEF CallOK
  <2>4. QED
    BY <2>1, <2>3, CallStable DEF IInv, Calls
<1>5. QED
  BY <1>2, <1>3, <1>4 DEF Calls

LEMMA CallTypes == ASSUME IInv, NEW d \in Devices, NEW k \in Slots
                   PROVE  call[d][k] \in Calls /\ CallOK(d, k, call[d][k])
  BY DEF IInv, CallsOK

LEMMA OpIs == ASSUME NEW c \in Calls, c # NoCall
              PROVE /\ c.op = "respond" => c \in RespondCalls /\ c \notin EndCalls /\ c \notin StartCalls
                    /\ c.op = "end" => c \in EndCalls /\ c \notin RespondCalls /\ c \notin StartCalls
                    /\ c.op = "start" => c \in StartCalls /\ c \notin RespondCalls /\ c \notin EndCalls
  BY DEF Calls, RespondCalls, EndCalls, StartCalls, NoCall

\* The server refuses a call.
LEMMA Refused ==
    ASSUME IInv, NEW d \in Devices, NEW k \in Slots, call[d][k] # NoCall, Step(d, k, "refused"),
           call[d][k] \in EndCalls => call[d][k].step \notin {"requester", "target"},
           UNCHANGED <<server, queue, view, history>>
    PROVE  IInv'
<1>1. TablesOK' /\ Grows
  BY RowsSame DEF server, history
<1>2. QueueOK' /\ Keeps
  BY <1>1, QueueSame, KeepsSame DEF history
<1>3. PICK c : c = [call[d][k] EXCEPT !.step = "refused"]
  OBVIOUS
<1>4. c \in Calls /\ CallOK(d, k, c)'
  BY <1>1, <1>3, NextStep, CallTypes
<1>5. call' = [call EXCEPT ![d][k] = c]
  BY <1>3, StepIsPut
<1>6. QED
  BY <1>1, <1>2, <1>4, <1>5, CallStep DEF server, history

LEMMA ServeRespondOK == ASSUME IInv, NEW d \in Devices, NEW k \in Slots, ServeRespond(d, k) PROVE IInv'
<1>1. call[d][k] \in RespondCalls /\ call[d][k] # NoCall /\ call[d][k] \notin EndCalls /\ call[d][k] \notin StartCalls
  BY CallTypes, OpIs DEF ServeRespond, At
<1>2. PICK q : q = call[d][k]
  OBVIOUS
<1>3. q \in RespondCalls /\ (q.accept => q.id \in clicked) /\ q.id \in Requests /\ q.accept \in BOOLEAN
  BY <1>1, <1>2, CallTypes DEF CallOK, RespondCalls
<1>4. CASE request[q.id] = "pending"
  <2>1. /\ request' = [request EXCEPT ![q.id] = Answer(q.accept)]
        /\ Send(From[q.id], [type |-> "session_response", id |-> q.id, status |-> request'[q.id]])
        /\ Step(d, k, "reply") /\ UNCHANGED <<session, view, told, clicked>>
    BY <1>2, <1>4 DEF ServeRespond
  <2>2. Answer(q.accept) \in {"accepted", "rejected"} /\ (Answer(q.accept) = "accepted" => q.id \in clicked)
    BY <1>3 DEF Answer
  <2>3. TablesOK' /\ Grows
    BY <1>3, <2>1, <2>2, RequestChanges
  <2>4. PICK m : m = [type |-> "session_response", id |-> q.id, status |-> Answer(q.accept)]
    OBVIOUS
  <2>5. request'[q.id] = Answer(q.accept)
    BY <1>3, <2>1 DEF IInv, TablesOK
  <2>6. m \in Messages /\ m \in ResponseMsgs /\ m \notin RequestMsgs /\ m \notin SessionMsgs /\ From[q.id] \in Devices
    BY <1>3, <2>2, <2>4, EndsAssumption DEF Messages, RequestMsgs, ResponseMsgs, SessionMsgs
  <2>7. MessageOK(From[q.id], m)'
    BY <2>4, <2>6 DEF MessageOK
  <2>8. QueueOK' /\ Keeps
    BY <2>1, <2>3, <2>4, <2>5, <2>6, <2>7, QueueSend, KeepsSend
  <2>9. PICK c : c = [call[d][k] EXCEPT !.step = "reply"]
    OBVIOUS
  <2>10. c \in Calls /\ CallOK(d, k, c)'
    BY <1>1, <2>3, <2>9, NextStep, CallTypes
  <2>11. call' = [call EXCEPT ![d][k] = c]
    BY <2>1, <2>9, StepIsPut
  <2>12. QED
    BY <1>1, <2>1, <2>3, <2>8, <2>10, <2>11, CallStep
<1>5. CASE request[q.id] # "pending"
  BY <1>1, <1>2, <1>5, Refused, CallTypes DEF ServeRespond, server, history
<1>6. QED
  BY <1>4, <1>5

LEMMA ServeStartOK == ASSUME IInv, NEW d \in Devices, NEW k \in Slots, ServeStart(d, k) PROVE IInv'
<1>1. call[d][k] \in StartCalls /\ call[d][k] # NoCall /\ call[d][k] \notin EndCalls /\ call[d][k] \notin RespondCalls
  BY CallTypes, OpIs DEF ServeStart, At
<1>2. PICK q \in StartCalls : q = call[d][k]
  BY <1>1
<1>3. PICK n : n = Len(session) + 1
  OBVIOUS
<1>4. k = "start" /\ q.id \in Requests /\ From[q.id] = d /\ n \in Nat /\ n = Len(session) + 1 /\ Len(session) \in Nat
  BY <1>1, <1>2, <1>3, CallTypes, LenIsNat DEF IInv, CallOK, StartCalls
<1>5. CASE MayStart(q.id) /\ Len(session) < MaxSessions
  <2>1. PICK x : x = [request |-> q.id, state |-> "active"]
    OBVIOUS
  <2>2. /\ session' = Append(session, x) /\ UNCHANGED <<request, queue, view, history>>
        /\ call' = [call EXCEPT ![d][k].step = "requester", ![d][k].session = n]
    BY <1>2, <1>3, <1>5, <2>1 DEF ServeStart
  <2>3. PICK t \in Seq(Rows) : t = session
    BY DEF IInv, TablesOK
  <2>4. x \in Rows
    BY <1>4, <2>1 DEF Rows
  <2>5. /\ session' \in Seq(Rows) /\ Len(session') = n
        /\ \A s \in 1 .. Len(session) : session'[s] = session[s]
        /\ session'[n] = x
    BY <1>4, <2>2, <2>3, <2>4, AppendProperties
  <2>6. q.id \in clicked
    BY <1>4, <1>5 DEF IInv, TablesOK, MayStart
  <2>7. \A s \in 1 .. n : s = n \/ s \in 1 .. Len(session)
    BY <1>4
  <2>8. n <= MaxSessions /\ n \in 0 .. MaxSessions
    BY <1>4, <1>5, BoundAssumption
  <2>9. ASSUME NEW s \in 1 .. n PROVE session'[s].request \in clicked
    <3>1. CASE s = n
      BY <2>1, <2>5, <2>6, <3>1
    <3>2. CASE s \in 1 .. Len(session)
      BY <2>5, <3>2 DEF IInv, TablesOK
    <3>3. QED
      BY <2>7, <3>1, <3>2
  <2>10. TablesOK'
    BY <2>2, <2>5, <2>8, <2>9 DEF IInv, TablesOK, history
  <2>11. Grows
    BY <1>4, <2>2, <2>5 DEF Grows, history
  <2>12. PICK c : c = [q EXCEPT !.step = "requester", !.session = n]
    OBVIOUS
  <2>13. c \in StartCalls /\ c.id = q.id /\ c.session = n
    BY <1>2, <2>8, <2>12 DEF StartCalls
  <2>14. c \in Calls /\ c \notin EndCalls /\ c \notin RespondCalls
    BY <2>13 DEF Calls, StartCalls, EndCalls, RespondCalls
  <2>15. CallOK(d, k, c)'
    BY <1>4, <2>1, <2>5, <2>13, <2>14 DEF CallOK, Requester
  <2>16. call' = [call EXCEPT ![d][k] = c]
    BY <1>2, <2>2, <2>12
  <2>17. CallsOK' /\ Goes
    BY <1>1, <2>10, <2>11, <2>14, <2>15, <2>16, CallsPut, GoesPut
  <2>18. QueueOK' /\ ViewOK' /\ Keeps
    BY <2>2, <2>10, <2>11, QueueSame, ViewSame, KeepsSame DEF view, history
  <2>19. \A s \in 1 .. Len(session') : session'[s].state = "ended" => s <= Len(session) /\ session[s].state = "ended"
    BY <1>4, <2>1, <2>5, <2>7
  <2>20. ToldOK'
    BY <2>2, <2>10, <2>11, <2>17, <2>18, <2>19, ToldStep DEF IInv, ToldOK, history
  <2>21. ShareOK'
    BY <2>2 DEF IInv, ShareOK, view
  <2>22. QED
    BY <2>10, <2>17, <2>18, <2>20, <2>21 DEF IInv
<1>6. CASE ~(MayStart(q.id) /\ Len(session) < MaxSessions)
  BY <1>1, <1>2, <1>6, Refused DEF ServeStart, server
<1>7. QED
  BY <1>5, <1>6

\* The state of a row changes; nothing else of it does.
LEMMA RowChanges ==
    ASSUME IInv, NEW n \in 1 .. Len(session), NEW v \in {"active", "expired", "ended"},
           session' = [session EXCEPT ![n].state = v], UNCHANGED <<request, clicked>>
    PROVE  /\ TablesOK' /\ Grows /\ Len(session') = Len(session)
           /\ session'[n].state = v
           /\ \A s \in 1 .. Len(session) : s # n => session'[s] = session[s]
<1>1. PICK t \in Seq(Rows) : t = session
  BY DEF IInv, TablesOK
<1>2. t[n] \in Rows
  BY <1>1, ElementOfSeq
<1>3. PICK x : x = [t[n] EXCEPT !.state = v]
  OBVIOUS
<1>4. x \in Rows /\ x.request = t[n].request /\ x.state = v
  BY <1>2, <1>3 DEF Rows
<1>5. session' = [t EXCEPT ![n] = x]
  BY <1>1, <1>3
<1>6. session' \in Seq(Rows) /\ Len(session') = Len(session)
  BY <1>1, <1>4, <1>5, ExceptSeq
<1>7. \A s \in 1 .. Len(session) : session'[s] = IF s = n THEN x ELSE session[s]
  BY <1>1, <1>4, <1>5, ExceptSeq
<1>8. \A s \in 1 .. Len(session) : session'[s].request = session[s].request
  BY <1>1, <1>4, <1>7
<1>9. TablesOK' /\ Grows
  BY <1>6, <1>8, LenIsNat DEF IInv, TablesOK, Grows
<1>10. QED
  BY <1>4, <1>6, <1>7, <1>9

LEMMA ExpireOK == ASSUME IInv, NEW n \in 1 .. Len(session), Expire(n) PROVE IInv'
<1>1. /\ session' = [session EXCEPT ![n].state = "expired"]
      /\ UNCHANGED <<request, queue, call, view, history>>
  BY DEF Expire
<1>2. /\ TablesOK' /\ Grows /\ Len(session') = Len(session) /\ session'[n].state = "expired"
      /\ \A s \in 1 .. Len(session) : s # n => session'[s] = session[s]
  BY <1>1, RowChanges DEF history
<1>3. QueueOK' /\ CallsOK' /\ ViewOK' /\ Keeps /\ Goes
  BY <1>1, <1>2, QueueSame, CallsSame, ViewSame, KeepsSame, GoesSame DEF view, history
<1>4. \A s \in 1 .. Len(session') : session'[s].state = "ended" => s <= Len(session) /\ session[s].state = "ended"
  BY <1>2, LenIsNat DEF IInv
<1>5. ToldOK'
  BY <1>1, <1>2, <1>3, <1>4, ToldStep DEF IInv, ToldOK, history
<1>6. ShareOK'
  BY <1>1 DEF IInv, ShareOK, view
<1>7. QED
  BY <1>2, <1>3, <1>5, <1>6 DEF IInv

\* An end goes from its row to its first notice, and to the second.
LEMMA EndStep ==
    ASSUME IInv, NEW d \in Devices, NEW k \in Slots, NEW c \in Calls,
           call' = [call EXCEPT ![d][k] = c], call[d][k] \in EndCalls, c \in EndCalls,
           c.id = call[d][k].id, Keeps
    PROVE  /\ Ending(c.id, c.step)'
           /\ \A s \in Ids \ {c.id}, step \in {"requester", "target"} : Ending(s, step) => Ending(s, step)'
<1>1. call'[d][k] = c
  BY DEF IInv, CallsOK
<1>2. ASSUME NEW e \in Devices, NEW j \in Slots, ~(e = d /\ j = k) PROVE call'[e][j] = call[e][j]
  BY <1>2 DEF IInv, CallsOK
<1>3. QED
  BY <1>1, <1>2 DEF Ending

LEMMA ServeEndOK == ASSUME IInv, NEW d \in Devices, NEW k \in Slots, ServeEnd(d, k) PROVE IInv'
<1>1. /\ call[d][k] \in EndCalls /\ call[d][k] # NoCall /\ call[d][k].step = "sent"
      /\ call[d][k] \notin StartCalls /\ call[d][k] \notin RespondCalls
  BY CallTypes, OpIs DEF ServeEnd, At
<1>2. PICK n : n = call[d][k].id
  OBVIOUS
<1>3. n \in 1 .. Len(session) /\ n \in Ids
  BY <1>1, <1>2, CallTypes, EndsAreDevices DEF IInv, CallOK, Mine
<1>4. CASE session[n].state = "active"
  <2>1. /\ session' = [session EXCEPT ![n].state = "ended"] /\ Step(d, k, "requester")
        /\ UNCHANGED <<request, queue, view, history>>
    BY <1>2, <1>4 DEF ServeEnd
  <2>2. /\ TablesOK' /\ Grows /\ Len(session') = Len(session)
        /\ \A s \in 1 .. Len(session) : s # n => session'[s] = session[s]
    BY <1>3, <2>1, RowChanges DEF history
  <2>11. PICK c : c = [call[d][k] EXCEPT !.step = "requester"]
    OBVIOUS
  <2>12. c \in Calls /\ CallOK(d, k, c)'
    BY <1>1, <2>2, <2>11, NextStep, CallTypes
  <2>13. call' = [call EXCEPT ![d][k] = c]
    BY <2>1, <2>11, StepIsPut
  <2>14. c \in EndCalls /\ c.id = n /\ c.step = "requester"
    BY <1>1, <1>2, <2>11 DEF EndCalls
  <2>15. CallsOK' /\ Goes
    BY <1>1, <2>2, <2>12, <2>13, CallsPut, GoesPut
  <2>16. QueueOK' /\ ViewOK' /\ Keeps
    BY <2>1, <2>2, QueueSame, ViewSame, KeepsSame DEF view, history
  <2>17. Told(n)'
    <3>1. Ending(n, "requester")'
      BY <1>1, <1>2, <2>12, <2>13, <2>14, <2>16, EndStep
    <3>2. QED
      BY <3>1 DEF Told
  <2>18. ASSUME NEW s \in 1 .. Len(session), s # n, session'[s].state = "ended" PROVE Told(s)'
    BY <2>2, <2>15, <2>16, <2>18, GoesOn, ToldOf
  <2>19. ToldOK'
    BY <2>1, <2>2, <2>16, <2>17, <2>18 DEF IInv, ToldOK, Keeps, history
  <2>20. ShareOK'
    BY <2>1 DEF IInv, ShareOK, view
  <2>21. QED
    BY <2>2, <2>15, <2>16, <2>19, <2>20 DEF IInv
<1>5. CASE session[n].state # "active"
  BY <1>1, <1>2, <1>5, Refused DEF ServeEnd, server
<1>6. QED
  BY <1>4, <1>5

\* What a notice is about, and to whom it goes.
LEMMA NoticeOK ==
    ASSUME IInv, NEW d \in Devices, NEW k \in Slots, NEW q, q = call[d][k],
           q # NoCall, q.step \in {"requester", "target"}
    PROVE  /\ q \in Calls /\ q \notin RespondCalls /\ CallOK(d, k, q)
           /\ q \in StartCalls \/ q \in EndCalls
           /\ Subject(q) \in 1 .. Len(session) /\ Subject(q) \in Ids
           /\ Notice(q) \in SessionMsgs /\ Notice(q).id = Subject(q)
           /\ q \in EndCalls => q.id = Subject(q) /\ Notice(q) = News(Subject(q))
           /\ Notified(q) \in Devices /\ Mine(Notified(q), Subject(q))
<1>1. q \in Calls /\ CallOK(d, k, q)
  BY CallTypes
<1>2. (q \in StartCalls \/ q \in EndCalls) /\ q \notin RespondCalls
  BY <1>1 DEF Calls, RespondCalls
<1>3. PICK s : s = Subject(q)
  OBVIOUS
<1>4. s \in 1 .. Len(session) /\ s \in Ids
  <2>1. CASE q \in StartCalls
    BY <1>1, <1>3, <2>1, EndsAreDevices DEF IInv, CallOK, StartCalls, Subject
  <2>2. CASE q \in EndCalls
    BY <1>1, <1>3, <2>2, EndsAreDevices DEF IInv, CallOK, EndCalls, Mine, Subject
  <2>3. QED
    BY <1>2, <2>1, <2>2
<1>5. Notice(q) \in SessionMsgs /\ Notice(q).id = s
  BY <1>3, <1>4 DEF Notice, SessionMsgs
<1>6. q \in EndCalls => q.id = s /\ Notice(q) = News(s)
  BY <1>3 DEF EndCalls, Subject, Notice, News
<1>7. Notified(q) \in Devices /\ Mine(Notified(q), s)
  BY <1>3, <1>4, EndsAreDevices DEF IInv, Notified, Mine, EndsOf
<1>8. QED
  BY <1>1, <1>2, <1>3, <1>4, <1>5, <1>6, <1>7

\* A call gives a notice, or loses those it still has to give, and goes on; whoever it
\* owes the news of an end then is informed, unless it goes on to tell it.
LEMMA NoticeStep ==
    ASSUME IInv, NEW d \in Devices, NEW k \in Slots, NEW q, q = call[d][k],
           q # NoCall, q.step \in {"requester", "target"},
           NEW step \in {"target", "reply", "refused"}, Step(d, k, step),
           UNCHANGED <<server, view, told, clicked>>, QueueOK', Keeps,
           NEW s, NEW r, NEW u, s = Subject(q), r = Requester(s), u = Target(s),
           q \in EndCalls /\ q.step = "requester" => Informed(r, s)',
           q \in EndCalls => step = "target" \/ Informed(u, s)',
           step = "target" => q.step = "requester"
    PROVE  IInv'
<1>2. /\ q \in Calls /\ q \notin RespondCalls /\ (q \in StartCalls \/ q \in EndCalls)
      /\ s \in 1 .. Len(session) /\ s \in Ids /\ (q \in EndCalls => q.id = s)
  BY NoticeOK
<1>3. TablesOK' /\ Grows
  BY RowsSame DEF server
<1>4. PICK c : c = [call[d][k] EXCEPT !.step = step]
  OBVIOUS
<1>5. c \in Calls /\ CallOK(d, k, c)' /\ call' = [call EXCEPT ![d][k] = c]
  <2>1. step \in {"sent", "requester", "target", "reply", "refused"}
    OBVIOUS
  <2>2. QED
    BY <1>2, <1>3, <1>4, <2>1, NextStep, StepIsPut
<1>6. CallsOK' /\ ViewOK' /\ ShareOK'
  BY <1>3, <1>5, CallsPut, ViewSame DEF view, IInv, ShareOK
<1>7. ToldOK'
  <2>1. CASE q \in StartCalls
    <3>1. call[d][k] \notin EndCalls
      BY <2>1 DEF StartCalls, EndCalls
    <3>2. Goes
      BY <1>5, <3>1, GoesPut
    <3>3. QED
      BY <1>3, <3>2, ToldSame DEF server
  <2>2. CASE q \in EndCalls
    <3>1. c \in EndCalls /\ c.id = s /\ c.step = step
      BY <1>2, <1>4, <2>2 DEF EndCalls
    <3>2. /\ Ending(s, step)'
          /\ \A t \in Ids \ {s}, x \in {"requester", "target"} : Ending(t, x) => Ending(t, x)'
      BY <1>2, <1>5, <2>2, <3>1, EndStep
    <3>4. Requester(s)' = r /\ Target(s)' = u /\ r \in Devices /\ u \in Devices
      BY <1>2, EndsAreDevices DEF IInv, server, Requester, Target
    <3>5. /\ q.step = "requester" => Informed(r, s)'
          /\ Ending(s, "target")' \/ Informed(u, s)'
      BY <2>2, <3>2
    <3>6. ASSUME session[s].state = "ended" PROVE Told(s)'
      <4>1. CASE q.step = "requester"
        BY <3>4, <3>5, <4>1 DEF Told
      <4>2. CASE q.step = "target"
        <5>1. ASSUME NEW e \in Devices, NEW j \in Slots, ~(e = d /\ j = k) PROVE call'[e][j] = call[e][j]
          BY <1>5, <5>1 DEF IInv, CallsOK
        <5>2. Ending(s, "requester") => Ending(s, "requester")'
          BY <4>2, <5>1 DEF Ending
        <5>3. Informed(r, s) => Informed(r, s)'
          BY <1>2, <3>4 DEF Keeps
        <5>4. Ending(s, "requester") \/ Informed(r, s)
          BY <1>2, <3>6 DEF IInv, ToldOK, Told
        <5>5. QED
          BY <3>4, <3>5, <5>2, <5>3, <5>4 DEF Told
      <4>3. QED
        BY <4>1, <4>2
    <3>7. ASSUME NEW t \in 1 .. Len(session), t # s, session[t].state = "ended" PROVE Told(t)'
      <4>1. t \in Ids \ {s}
        BY <3>7, EndsAreDevices DEF IInv
      <4>2. QED
        BY <1>3, <3>2, <3>7, <4>1, ToldOf
    <3>8. QED
      BY <3>6, <3>7 DEF IInv, ToldOK, Keeps, server
  <2>3. QED
    BY <1>2, <2>1, <2>2
<1>8. QED
  BY <1>3, <1>6, <1>7 DEF IInv

\* A notice of a start or of an end.
LEMMA NotifyOK == ASSUME IInv, NEW d \in Devices, NEW k \in Slots, Notify(d, k) PROVE IInv'
<1>1. PICK q : q = call[d][k]
  OBVIOUS
<1>2. /\ q # NoCall /\ q.step \in {"requester", "target"} /\ UNCHANGED <<server, view, told, clicked>>
      /\ Send(Notified(q), Notice(q)) /\ Step(d, k, IF q.step = "requester" THEN "target" ELSE "reply")
  BY <1>1 DEF Notify
<1>3. PICK s, m, to : s = Subject(q) /\ m = Notice(q) /\ to = Notified(q)
  OBVIOUS
<1>4. /\ m \in SessionMsgs /\ m.id = s /\ s \in Ids /\ to \in Devices /\ Mine(to, s)
      /\ q \in EndCalls => m = News(s)
  BY <1>1, <1>2, <1>3, NoticeOK
<1>5. TablesOK' /\ Grows
  BY <1>2, RowsSame DEF server
<1>6. m \in Messages /\ m \notin RequestMsgs /\ m \notin ResponseMsgs
  BY <1>4 DEF Messages, SessionMsgs, RequestMsgs, ResponseMsgs
<1>7. MessageOK(to, m)'
  BY <1>4, <1>5, <1>6, MineStable DEF IInv, MessageOK
<1>8. QueueOK' /\ Keeps
  BY <1>2, <1>3, <1>4, <1>5, <1>6, <1>7, QueueSend, KeepsSend
<1>9. ASSUME q \in EndCalls PROVE Informed(to, s)'
  BY <1>2, <1>3, <1>4, <1>9, SendInforms
<1>10. CASE q.step = "requester"
  <2>1. to = Requester(s) /\ Step(d, k, "target")
    BY <1>2, <1>3, <1>10 DEF Notified
  <2>2. PICK u : u = Target(s)
    OBVIOUS
  <2>3. QED
    BY <2>2, <1>1, <1>2, <1>3, <1>8, <1>9, <1>10, <2>1, NoticeStep
<1>11. CASE q.step = "target"
  <2>1. to = Target(s) /\ Step(d, k, "reply")
    BY <1>2, <1>3, <1>11 DEF Notified
  <2>2. PICK r : r = Requester(s)
    OBVIOUS
  <2>3. QED
    BY <2>2, <1>1, <1>2, <1>3, <1>8, <1>9, <1>11, <2>1, NoticeStep
<1>12. QED
  BY <1>2, <1>10, <1>11

\* A notice that panics ends the call; what it still had to tell is lost.
LEMMA NotifyPanicsOK == ASSUME IInv, NEW d \in Devices, NEW k \in Slots, NotifyPanics(d, k) PROVE IInv'
<1>1. PICK q : q = call[d][k]
  OBVIOUS
<1>2. PICK s, m, r, u, missed :
          s = Subject(q) /\ m = Notice(q) /\ r = Requester(s) /\ u = Target(s) /\ missed = {Notified(q), u}
  OBVIOUS
<1>3. /\ q # NoCall /\ q.step \in {"requester", "target"} /\ Step(d, k, "refused")
      /\ lost' = [e \in Devices |-> IF e \in missed THEN lost[e] \cup {m} ELSE lost[e]]
      /\ UNCHANGED <<server, queue, view, told, clicked>>
  BY <1>1, <1>2 DEF NotifyPanics
<1>4. s \in 1 .. Len(session) /\ s \in Ids /\ (q \in EndCalls => m = News(s))
  BY <1>1, <1>2, <1>3, NoticeOK
<1>5. r \in Devices /\ u \in Devices
  BY <1>2, <1>4, EndsAreDevices DEF IInv
<1>6. TablesOK' /\ Grows /\ QueueOK'
  BY <1>3, RowsSame, QueueSame DEF server
<1>7. Keeps
  BY <1>3, KeepsLosing
<1>8. q \in EndCalls /\ q.step = "requester" => Informed(r, s)'
  BY <1>2, <1>3, <1>4, <1>5 DEF Informed, News, Notified
<1>9. q \in EndCalls => Informed(u, s)'
  BY <1>2, <1>3, <1>4, <1>5 DEF Informed, News
<1>10. QED
  BY <1>1, <1>2, <1>3, <1>6, <1>7, <1>8, <1>9, NoticeStep

-----------------------------------------------------------------------------
LEMMA ResendOK == ASSUME IInv, NEW d \in Devices, Resend(d) PROVE IInv'
<1>1. PICK q : q = call[d]["start"]
  OBVIOUS
<1>2. "start" \in Slots /\ q \in StartCalls /\ q # NoCall /\ CallOK(d, "start", q)
  BY <1>1, CallTypes, OpIs DEF Resend, At, Slots
<1>3. PICK c : c = [q EXCEPT !.step = "sent", !.retry = FALSE]
  OBVIOUS
<1>4. c \in StartCalls /\ c \notin EndCalls /\ c \notin RespondCalls /\ c.id = q.id /\ c.step = "sent"
  BY <1>2, <1>3 DEF StartCalls, EndCalls, RespondCalls
<1>5. CallOK(d, "start", c)'
  BY <1>2, <1>4 DEF CallOK
<1>6. call' = [call EXCEPT ![d]["start"] = c] /\ call[d]["start"] \notin EndCalls /\ c \in Calls
  <2>1. call' = [call EXCEPT ![d]["start"].step = "sent", ![d]["start"].retry = FALSE]
    BY DEF Resend
  <2>2. call' = [call EXCEPT ![d]["start"] = c]
    BY <1>1, <1>3, <2>1
  <2>3. call[d]["start"] \notin EndCalls
    BY <1>1, <1>2 DEF StartCalls, EndCalls
  <2>4. QED
    BY <1>4, <2>2, <2>3 DEF Calls
<1>7. TablesOK' /\ Grows
  BY RowsSame DEF Resend, server, history
<1>8. QueueOK' /\ Keeps
  BY <1>7, QueueSame, KeepsSame DEF Resend, history
<1>9. QED
  BY <1>2, <1>5, <1>6, <1>7, <1>8, CallStep DEF Resend, server, history

\* A call is over, with what the client does then.
LEMMA CallOver ==
    ASSUME IInv, NEW d \in Devices, NEW k \in Slots, Put(NoCall, d, k),
           call[d][k] \in EndCalls => call[d][k].step \notin {"requester", "target"},
           UNCHANGED <<server, queue, lost, clicked>>,
           told' \in [Devices -> SUBSET Ids], \A e \in Devices : told[e] \subseteq told'[e],
           ViewOK', ShareOK'
    PROVE  IInv'
<1>1. TablesOK' /\ Grows
  BY RowsSame DEF server
<1>2. NoCall \in Calls /\ CallOK(d, k, NoCall)'
  BY DEF Calls, CallOK, NoCall, RespondCalls, EndCalls, StartCalls
<1>3. call' = [call EXCEPT ![d][k] = NoCall]
  BY DEF Put
<1>4. QueueOK' /\ CallsOK' /\ Goes
  BY <1>1, <1>2, <1>3, QueueSame, CallsPut, GoesPut
<1>5. Keeps
  BY DEF Keeps, Informed, IInv, ToldOK
<1>6. \A s \in 1 .. Len(session') : session'[s].state = "ended" => s <= Len(session) /\ session[s].state = "ended"
  BY LenIsNat DEF IInv, server
<1>7. ToldOK'
  BY <1>1, <1>4, <1>5, <1>6, ToldStep
<1>8. QED
  BY <1>1, <1>4, <1>7 DEF IInv

LEMMA CleanupOK == ASSUME IInv, NEW d \in Devices, Cleanup(d), UNCHANGED <<session, pending>> PROVE ViewOK' /\ ShareOK'
<1>1. ViewOK'
  <2>1. /\ active' = [active EXCEPT ![d] = NoSession] /\ bound' = [bound EXCEPT ![d] = FALSE]
        /\ Len(session) \in Nat
    BY LenIsNat DEF IInv, Cleanup
  <2>2. active' \in [Devices -> 0 .. Len(session')] /\ bound' \in [Devices -> BOOLEAN]
    BY <2>1 DEF IInv, ViewOK, NoSession
  <2>3. ASSUME NEW e \in Devices
        PROVE  /\ (active'[e] # NoSession => active'[e] = active[e])
               /\ (bound'[e] => bound[e] /\ active'[e] = active[e])
    BY <2>1 DEF IInv, ViewOK
  <2>4. ASSUME NEW e \in Devices
        PROVE  /\ (active'[e] # NoSession => e \in {From[session'[active'[e]].request], To[session'[active'[e]].request]})
               /\ (bound'[e] => active'[e] # NoSession /\ From[session'[active'[e]].request] = e)
    BY <2>3 DEF IInv, ViewOK, EndsOf, Requester, Target
  <2>5. QED
    BY <2>2, <2>4 DEF IInv, ViewOK, EndsOf, Requester, Target
<1>2. ShareOK'
  <2>1. share[d] \in Shares /\ OneStart(share[d])
    BY DEF IInv, ShareOK, Shares, OneStart
  <2>2. Stopped(share[d]) \in Shares /\ OneStart(Stopped(share[d]))
    BY <2>1, StoppedOK
  <2>3. share' = [share EXCEPT ![d] = Stopped(share[d])]
    BY DEF Cleanup
  <2>4. QED
    BY <2>2, <2>3 DEF IInv, ShareOK, Shares, OneStart
<1>3. QED
  BY <1>1, <1>2

LEMMA ReplyOK == ASSUME IInv, NEW d \in Devices, NEW k \in Slots, Reply(d, k) PROVE IInv'
<1>1. CASE RespondReply(d, k)
  <2>1. call[d][k] \notin EndCalls
    BY <1>1, CallTypes, OpIs DEF RespondReply, At
  <2>2. pending' = [pending EXCEPT ![d] = None]
    BY <1>1 DEF RespondReply
  <2>3. ViewOK' /\ ShareOK'
    BY <1>1, <2>2 DEF RespondReply, server, IInv, ViewOK, ShareOK, EndsOf, Requester, Target
  <2>4. told' \in [Devices -> SUBSET Ids] /\ \A e \in Devices : told[e] \subseteq told'[e]
    BY <1>1 DEF RespondReply, history, IInv, ToldOK
  <2>5. QED
    BY <1>1, <2>1, <2>3, <2>4, CallOver DEF RespondReply, history
<1>2. CASE StartReply(d, k)
  <2>1. call[d][k] \in StartCalls /\ call[d][k] \notin EndCalls /\ call[d][k].step = "reply"
    BY <1>2, CallTypes, OpIs DEF StartReply, At
  <2>2. PICK s : s = call[d][k].session
    OBVIOUS
  <2>3. s \in 1 .. Len(session) /\ Requester(s) = d /\ s # NoSession /\ s \in 0 .. Len(session)
    BY <2>1, <2>2, CallTypes, LenIsNat DEF IInv, CallOK, NoSession
  <2>4. active' = [active EXCEPT ![d] = s] /\ UNCHANGED <<session, request, pending, bound, share>>
    BY <1>2, <2>2 DEF StartReply, server
  <2>5. active' \in [Devices -> 0 .. Len(session')]
    BY <2>3, <2>4 DEF IInv, ViewOK
  <2>6. ASSUME NEW e \in Devices
        PROVE  /\ (active'[e] # NoSession => e \in {From[session'[active'[e]].request], To[session'[active'[e]].request]})
               /\ (bound'[e] => active'[e] # NoSession /\ From[session'[active'[e]].request] = e)
    BY <2>3, <2>4 DEF IInv, ViewOK, EndsOf, Requester, Target
  <2>7. ViewOK' /\ ShareOK'
    BY <2>4, <2>5, <2>6 DEF IInv, ViewOK, ShareOK, EndsOf, Requester, Target
  <2>8. told' \in [Devices -> SUBSET Ids] /\ \A e \in Devices : told[e] \subseteq told'[e]
    BY <1>2 DEF StartReply, history, IInv, ToldOK
  <2>9. QED
    BY <1>2, <2>1, <2>7, <2>8, CallOver DEF StartReply, history
<1>3. CASE EndReply(d, k)
  <2>1. call[d][k] \in EndCalls /\ call[d][k].step = "reply" /\ call[d][k].id \in Ids
    BY <1>3, CallTypes, OpIs DEF EndReply, At, EndCalls
  <2>2. ViewOK' /\ ShareOK'
    BY <1>3, CleanupOK DEF EndReply, server
  <2>3. told' \in [Devices -> SUBSET Ids] /\ \A e \in Devices : told[e] \subseteq told'[e]
    BY <1>3, <2>1 DEF EndReply, IInv, ToldOK
  <2>4. QED
    BY <1>3, <2>1, <2>2, <2>3, CallOver DEF EndReply
<1>4. CASE Failure(d, k)
  <2>1. call[d][k].step = "refused"
    BY <1>4 DEF Failure, At
  <2>2. TablesOK' /\ Grows
    BY <1>4, RowsSame DEF Failure, server, history
  <2>3. ViewOK' /\ ShareOK'
    BY <1>4, <2>2, ViewSame DEF Failure, view, IInv, ShareOK
  <2>4. told' \in [Devices -> SUBSET Ids] /\ \A e \in Devices : told[e] \subseteq told'[e]
    BY <1>4 DEF Failure, history, IInv, ToldOK
  <2>5. QED
    BY <1>4, <2>1, <2>3, <2>4, CallOver DEF Failure, history
<1>5. QED
  BY <1>1, <1>2, <1>3, <1>4 DEF Reply

-----------------------------------------------------------------------------
\* The message a device takes is one of its own.
LEMMA HeadOK == ASSUME IInv, NEW d \in Devices, queue[d] # <<>>
                PROVE  Head(queue[d]) \in Messages /\ MessageOK(d, Head(queue[d]))
<1>1. PICK q \in Seq(Messages) : q = queue[d] /\ q # <<>>
  BY DEF IInv, QueueOK
<1>2. Head(q) \in Messages /\ 1 \in 1 .. Len(q) /\ Head(q) = q[1]
  BY <1>1, HeadTailProperties
<1>3. QED
  BY <1>1, <1>2 DEF IInv, QueueOK

LEMMA TypeIs == ASSUME NEW m \in Messages
                PROVE  /\ m.type = "session_request" => m \in RequestMsgs
                       /\ m.type = "session_response" => m \in ResponseMsgs
                       /\ m.type \in {"session_started", "session_ended"} => m \in SessionMsgs
  BY DEF Messages, RequestMsgs, ResponseMsgs, SessionMsgs

\* A message is taken that changes what the client shows.
LEMMA TakeStep ==
    ASSUME IInv, NEW d \in Devices, queue[d] # <<>>, Take(d),
           UNCHANGED <<server, call, lost, clicked>>,
           told' \in [Devices -> SUBSET Ids], \A e \in Devices : told[e] \subseteq told'[e],
           Head(queue[d]).type = "session_ended" => Head(queue[d]).id \in told'[d],
           ViewOK', ShareOK'
    PROVE  IInv'
<1>1. TablesOK' /\ Grows
  BY RowsSame DEF server
<1>2. queue' = [queue EXCEPT ![d] = Tail(queue[d])]
  BY DEF Take
<1>3. QueueOK' /\ Keeps
  BY <1>1, <1>2, QueueTake, KeepsTake
<1>4. CallsOK' /\ Goes
  BY <1>1, CallsSame, GoesSame
<1>5. \A s \in 1 .. Len(session') : session'[s].state = "ended" => s <= Len(session) /\ session[s].state = "ended"
  BY LenIsNat DEF IInv, server
<1>6. ToldOK'
  BY <1>1, <1>3, <1>4, <1>5, ToldStep
<1>7. QED
  BY <1>1, <1>3, <1>4, <1>6 DEF IInv

LEMMA OnRequestOK == ASSUME IInv, NEW d \in Devices, OnRequest(d) PROVE IInv'
<1>1. PICK m : m = Head(queue[d])
  OBVIOUS
<1>2. queue[d] # <<>> /\ m.type = "session_request" /\ m.id \in Requests /\ To[m.id] = d
  BY <1>1, HeadOK, TypeIs DEF OnRequest, Heads, MessageOK, RequestMsgs
<1>3. pending' = [pending EXCEPT ![d] = m.id] /\ UNCHANGED <<server, active, bound, share, told>>
  BY <1>1 DEF OnRequest, history
<1>4. ViewOK' /\ ShareOK'
  BY <1>2, <1>3 DEF server, IInv, ViewOK, ShareOK, EndsOf, Requester, Target
<1>5. told' \in [Devices -> SUBSET Ids] /\ \A e \in Devices : told[e] \subseteq told'[e]
  BY <1>3 DEF IInv, ToldOK
<1>6. QED
  BY <1>1, <1>2, <1>4, <1>5, TakeStep DEF OnRequest, history

LEMMA OnResponseOK == ASSUME IInv, NEW d \in Devices, OnResponse(d) PROVE IInv'
<1>1. PICK m : m = Head(queue[d])
  OBVIOUS
<1>2. queue[d] # <<>> /\ m.type = "session_response" /\ m.id \in Requests /\ From[m.id] = d
  BY <1>1, HeadOK, TypeIs DEF OnResponse, Heads, MessageOK, ResponseMsgs
<1>3. TablesOK' /\ Grows
  BY RowsSame DEF OnResponse, server, history
<1>4. QueueOK' /\ Keeps
  BY <1>1, <1>2, <1>3, QueueTake, KeepsTake DEF OnResponse, Take, history
<1>5. CASE UNCHANGED call
  <2>1. CallsOK' /\ ViewOK' /\ Goes
    BY <1>3, <1>5, CallsSame, ViewSame, GoesSame DEF OnResponse, view
  <2>2. ToldOK' /\ ShareOK'
    BY <1>3, <1>4, <2>1, ToldSame DEF OnResponse, server, history, view, IInv, ShareOK
  <2>3. QED
    BY <1>3, <1>4, <2>1, <2>2 DEF IInv
<1>6. CASE ~UNCHANGED call
  <2>1. PICK c : c = [op |-> "start", id |-> m.id, session |-> NoSession, step |-> "sent", retry |-> TRUE]
    OBVIOUS
  <2>2. "start" \in Slots /\ call[d]["start"] = NoCall /\ call' = [call EXCEPT ![d]["start"] = c]
    BY <1>1, <1>6, <2>1 DEF OnResponse, Put, Slots
  <2>3. c \in StartCalls /\ c \notin EndCalls /\ c \notin RespondCalls
    BY <1>2, <2>1, BoundAssumption DEF StartCalls, EndCalls, RespondCalls, NoSession
  <2>4. CallOK(d, "start", c)'
    BY <1>2, <2>1, <2>3 DEF CallOK
  <2>5. call[d]["start"] \notin EndCalls
    BY <2>2 DEF NoCall, EndCalls
  <2>6. QED
    BY <1>3, <1>4, <2>2, <2>3, <2>4, <2>5, CallStep DEF OnResponse, server, history, Calls
<1>7. QED
  BY <1>5, <1>6

LEMMA OnStartedOK == ASSUME IInv, NEW d \in Devices, OnStarted(d) PROVE IInv'
<1>1. PICK s : s = Head(queue[d]).id
  OBVIOUS
<1>2. queue[d] # <<>> /\ Head(queue[d]).type = "session_started" /\ Mine(d, s)
  BY <1>1, HeadOK, TypeIs DEF OnStarted, Heads, MessageOK
<1>3. PICK b \in BOOLEAN : b = (Requester(s) = d)
  OBVIOUS
<1>4. b \in BOOLEAN /\ (b => Requester(s) = d)
  BY <1>3
<1>5. /\ active' = [active EXCEPT ![d] = s] /\ bound' = [bound EXCEPT ![d] = b]
      /\ UNCHANGED <<request, session, pending, told>>
  BY <1>1, <1>3 DEF OnStarted, server, history
<1>6. s \in 1 .. Len(session) /\ s \in 0 .. Len(session) /\ s # NoSession /\ d \in EndsOf(s)
  BY <1>2, LenIsNat DEF IInv, Mine, NoSession
<1>7. active' \in [Devices -> 0 .. Len(session')] /\ bound' \in [Devices -> BOOLEAN]
  BY <1>4, <1>5, <1>6 DEF IInv, ViewOK
<1>8. ASSUME NEW e \in Devices
      PROVE  /\ (active'[e] # NoSession => e \in {From[session'[active'[e]].request], To[session'[active'[e]].request]})
             /\ (bound'[e] => active'[e] # NoSession /\ From[session'[active'[e]].request] = e)
  <2>1. CASE e = d
    <3>1. active'[e] = s /\ bound'[e] = b
      BY <1>5, <2>1 DEF IInv, ViewOK
    <3>2. QED
      BY <1>4, <1>5, <1>6, <2>1, <3>1 DEF EndsOf, Requester, Target
  <2>2. CASE e # d
    <3>1. active'[e] = active[e] /\ bound'[e] = bound[e]
      BY <1>5, <2>2 DEF IInv, ViewOK
    <3>2. QED
      BY <1>5, <3>1 DEF IInv, ViewOK, EndsOf, Requester, Target
  <2>3. QED
    BY <2>1, <2>2
<1>9. ViewOK'
  BY <1>5, <1>7, <1>8 DEF IInv, ViewOK, EndsOf, Requester, Target
<1>10. ShareOK'
  <2>1. share[d] \in Shares /\ OneStart(share[d])
    BY DEF IInv, ShareOK, Shares, OneStart
  <2>2. PICK x : x = IF Requester(s) = d \/ d \notin Screens THEN share[d] ELSE Starting(share[d])
    OBVIOUS
  <2>3. x \in Shares /\ OneStart(x)
    BY <2>1, <2>2, StartingOK
  <2>4. share' = [share EXCEPT ![d] = x]
    BY <1>1, <2>2 DEF OnStarted
  <2>5. QED
    BY <2>3, <2>4 DEF IInv, ShareOK, Shares, OneStart
<1>11. told' \in [Devices -> SUBSET Ids] /\ \A e \in Devices : told[e] \subseteq told'[e]
  BY <1>5 DEF IInv, ToldOK
<1>12. QED
  BY <1>2, <1>9, <1>10, <1>11, TakeStep DEF OnStarted, history

LEMMA OnEndedOK == ASSUME IInv, NEW d \in Devices, OnEnded(d) PROVE IInv'
<1>1. PICK s : s = Head(queue[d]).id
  OBVIOUS
<1>2. queue[d] # <<>> /\ s \in Ids
  BY <1>1, HeadOK, TypeIs DEF OnEnded, Heads, SessionMsgs
<1>3. told' = [told EXCEPT ![d] = @ \cup {s}] /\ UNCHANGED <<request, session, pending>>
  BY <1>1 DEF OnEnded, server
<1>4. ViewOK' /\ ShareOK'
  <2>1. CASE Cleanup(d)
    BY <1>3, <2>1, CleanupOK
  <2>2. CASE UNCHANGED <<active, bound, share>>
    BY <1>3, <2>2 DEF IInv, ViewOK, ShareOK, EndsOf, Requester, Target
  <2>3. QED
    BY <2>1, <2>2 DEF OnEnded
<1>5. told' \in [Devices -> SUBSET Ids] /\ s \in told'[d] /\ \A e \in Devices : told[e] \subseteq told'[e]
  BY <1>2, <1>3 DEF IInv, ToldOK
<1>6. QED
  BY <1>1, <1>2, <1>4, <1>5, TakeStep DEF OnEnded

LEMMA DisconnectOK == ASSUME IInv, NEW d \in Devices, Disconnect(d) PROVE IInv'
<1>1. TablesOK' /\ Grows
  BY RowsSame DEF Disconnect, server
<1>2. QueueOK'
  <2>1. queue' = [queue EXCEPT ![d] = <<>>] /\ <<>> \in Seq(Messages) /\ Len(<<>>) = 0
    BY EmptySeq DEF Disconnect
  <2>2. queue' \in [Devices -> Seq(Messages)]
    BY <2>1 DEF IInv, QueueOK
  <2>3. ASSUME NEW e \in Devices, NEW i \in 1 .. Len(queue'[e]) PROVE queue'[e] = queue[e]
    BY <2>1, <2>3 DEF IInv, QueueOK
  <2>4. QED
    BY <1>1, <2>2, <2>3, MessageStable DEF IInv, QueueOK
<1>3. CallsOK' /\ ViewOK' /\ Goes
  BY <1>1, CallsSame, ViewSame, GoesSame DEF Disconnect, view
<1>4. Keeps
  BY KeepsClosing DEF Disconnect
<1>5. ToldOK' /\ ShareOK'
  BY <1>1, <1>3, <1>4, ToldSame DEF Disconnect, server, view, IInv, ShareOK
<1>6. QED
  BY <1>1, <1>2, <1>3, <1>5 DEF IInv

-----------------------------------------------------------------------------
LEMMA NextOK == IInv /\ [Next]_vars => IInv'
<1>1. SUFFICES ASSUME IInv, [Next]_vars PROVE IInv'
  OBVIOUS
<1>2. CASE UNCHANGED vars
  <2>1. TablesOK' /\ Grows
    BY <1>1, <1>2, RowsSame DEF vars
  <2>2. QueueOK' /\ CallsOK' /\ ViewOK'
    BY <1>1, <1>2, <2>1, QueueSame, CallsSame, ViewSame DEF vars
  <2>3. ToldOK' /\ ShareOK'
    BY <1>1, <1>2, <2>1, KeepsSame, GoesSame, ToldSame DEF vars, IInv, ShareOK
  <2>4. QED
    BY <2>1, <2>2, <2>3 DEF IInv
<1>3. ASSUME NEW r \in Requests, Ask(r) PROVE IInv'
  BY <1>1, <1>3, AskOK
<1>11. ASSUME NEW s \in 1 .. Len(session), Expire(s) PROVE IInv'
  BY <1>1, <1>11, ExpireOK
<1>4. ASSUME NEW d \in Devices, User(d) PROVE IInv'
  BY <1>1, <1>4, ClickOK, ClickEndOK, SharingOK DEF User
<1>5. ASSUME NEW d \in Devices, Loss(d) PROVE IInv'
  BY <1>1, <1>5, DisconnectOK, ResendOK DEF Loss
<1>6. ASSUME NEW d \in Devices, Sharing(d) PROVE IInv'
  BY <1>1, <1>6, SharingOK
<1>7. ASSUME NEW d \in Devices, Deliver(d) PROVE IInv'
  BY <1>1, <1>7, OnRequestOK, OnResponseOK, OnStartedOK, OnEndedOK DEF Deliver
<1>8. ASSUME NEW d \in Devices, NEW k \in Slots, Serve(d, k) PROVE IInv'
  BY <1>1, <1>8, ServeRespondOK, ServeStartOK, ServeEndOK, NotifyOK, NotifyPanicsOK DEF Serve
<1>9. ASSUME NEW d \in Devices, NEW k \in Slots, Reply(d, k) PROVE IInv'
  BY <1>1, <1>9, ReplyOK
<1>10. QED
  BY <1>1, <1>2, <1>3, <1>4, <1>5, <1>6, <1>7, <1>8, <1>9, <1>11 DEF Next

\* The variables of clients, calls, messages and rows are well-typed.
THEOREM ClientTypes == Spec => []TypeOK
  BY InitOK, NextOK, Consequences, PTL DEF Spec

\* A client only shows a session it is an end of and whose request the target's
\* user accepted on the screen.
THEOREM ConsentedIsShown == Spec => []ShownIsConsented
  BY InitOK, NextOK, Consequences, PTL DEF Spec

\* Input is captured only by the requester of the session that is shown.
THEOREM RequesterHasInput == Spec => []InputFollowsRole
  BY InitOK, NextOK, Consequences, PTL DEF Spec

\* Intervals that nothing can stop come only from starts that overlapped.
THEOREM OverlapsLeaveStrays == Spec => []StraysAreOverlaps
  BY InitOK, NextOK, Consequences, PTL DEF Spec

\* A client that shows a session that has been ended was told before, is about to be
\* told, or has lost that very message.
THEOREM ToldOfStale == Spec => []StaleWasTold
  BY InitOK, NextOK, Consequences, PTL DEF Spec

-----------------------------------------------------------------------------
(* The server of this module keeps the strong life cycle.                  *)

RequestRows ==
    [r \in Requests |->
        IF request[r] = "none" THEN [status |-> "absent", from |-> None, to |-> None]
        ELSE [status |-> request[r], from |-> From[r], to |-> To[r]]]

SessionRows ==
    [s \in Ids |->
        IF s > Len(session) THEN [status |-> "absent", from |-> None, to |-> None]
        ELSE [status |-> IF session[s].state = "ended" THEN "ended" ELSE "active",
              from |-> Requester(s), to |-> Target(s)]]

Accepted == {r \in Requests : request[r] = "accepted"}

\* The instance, in terms of these.
LEMMA ServiceActions ==
    ASSUME NEW r \in Requests, NEW s \in Ids
    PROVE  /\ Service!Ask(r, From[r], To[r]) <=>
                 /\ RequestRows[r] = [status |-> "absent", from |-> None, to |-> None]
                 /\ From[r] # To[r]
                 /\ RequestRows' = [RequestRows EXCEPT ![r] =
                       [status |-> "pending", from |-> From[r], to |-> To[r]]]
                 /\ UNCHANGED <<SessionRows, Accepted>>
           /\ Service!Grant(r) <=>
                 /\ RequestRows[r].status = "pending"
                 /\ RequestRows' = [RequestRows EXCEPT ![r].status = "accepted"]
                 /\ Accepted' = Accepted \cup {r}
                 /\ UNCHANGED SessionRows
           /\ Service!Refuse(r) <=>
                 /\ RequestRows[r].status = "pending"
                 /\ RequestRows' = [RequestRows EXCEPT ![r].status = "rejected"]
                 /\ UNCHANGED <<SessionRows, Accepted>>
           /\ Service!Open(s, r) <=>
                 /\ r \in Accepted /\ RequestRows[r].status = "accepted"
                 /\ SessionRows[s] = [status |-> "absent", from |-> None, to |-> None]
                 /\ SessionRows' = [SessionRows EXCEPT ![s] =
                       [status |-> "active", from |-> RequestRows[r].from, to |-> RequestRows[r].to]]
                 /\ UNCHANGED <<RequestRows, Accepted>>
           /\ Service!Close(s) <=>
                 /\ SessionRows[s].status = "active"
                 /\ SessionRows' = [SessionRows EXCEPT ![s].status = "ended"]
                 /\ UNCHANGED <<RequestRows, Accepted>>
           /\ UNCHANGED <<RequestRows, SessionRows, Accepted>> <=> UNCHANGED Service!vars
  BY DEF Service!Ask, Service!Grant, Service!Refuse, Service!Open, Service!Close, Service!Unused,
         Service!vars, RequestRows, SessionRows, Accepted

LEMMA ServiceStill == ASSUME UNCHANGED server PROVE UNCHANGED Service!vars
  BY DEF server, Service!vars, Requester, Target

LEMMA ServiceAsk == ASSUME IInv, NEW r \in Requests, Ask(r) PROVE Service!Next
<1>1. request[r] = "none" /\ request' = [request EXCEPT ![r] = "pending"] /\ session' = session
  BY DEF Ask
<1>2. From[r] \in Devices /\ To[r] \in Devices /\ From[r] # To[r]
  BY EndsAssumption
<1>3. request \in [Requests -> {"none", "pending", "accepted", "rejected"}]
  BY DEF IInv, TablesOK
<1>4. UNCHANGED <<SessionRows, Accepted>>
  BY <1>1, <1>3 DEF SessionRows, Accepted, Requester, Target
<1>5. RequestRows' = [RequestRows EXCEPT ![r] = [status |-> "pending", from |-> From[r], to |-> To[r]]]
  BY <1>1, <1>3 DEF RequestRows
<1>6. RequestRows[r] = [status |-> "absent", from |-> None, to |-> None]
  BY <1>1 DEF RequestRows
<1>7. Service!Ask(r, From[r], To[r])
  BY <1>2, <1>4, <1>5, <1>6 DEF Service!Ask, Service!Unused, RequestRows, SessionRows, Accepted
<1>8. QED
  BY <1>2, <1>7 DEF Service!Next

LEMMA ServiceRespond ==
    ASSUME IInv, NEW d \in Devices, NEW k \in Slots, ServeRespond(d, k) PROVE [Service!Next]_(Service!vars)
<1>1. PICK q \in RespondCalls : q = call[d][k]
  BY CallTypes, OpIs DEF ServeRespond, At
<1>2. PICK r \in Requests : r = q.id
  BY DEF RespondCalls
<1>3. CASE request[r] = "pending"
  <2>1. PICK x : x = Answer(q.accept)
    OBVIOUS
  <2>2. x \in {"accepted", "rejected"}
    BY <2>1 DEF Answer
  <2>3. request' = [request EXCEPT ![r] = x] /\ session' = session
    BY <1>1, <1>2, <1>3, <2>1 DEF ServeRespond
  <2>4. request \in [Requests -> {"none", "pending", "accepted", "rejected"}]
    BY DEF IInv, TablesOK
  <2>5. UNCHANGED SessionRows
    BY <2>3 DEF SessionRows, Requester, Target
  <2>6. RequestRows[r].status = "pending"
    BY <1>3 DEF RequestRows
  <2>7. RequestRows' = [RequestRows EXCEPT ![r].status = x]
    BY <1>3, <2>2, <2>3, <2>4 DEF RequestRows
  <2>8. CASE x = "accepted"
    <3>1. Accepted' = Accepted \cup {r}
      BY <2>3, <2>4, <2>8 DEF Accepted
    <3>2. Service!Grant(r)
      BY <2>5, <2>6, <2>7, <2>8, <3>1 DEF Service!Grant, RequestRows, SessionRows, Accepted
    <3>3. QED
      BY <3>2 DEF Service!Next
  <2>9. CASE x = "rejected"
    <3>1. Accepted' = Accepted
      BY <1>3, <2>3, <2>4, <2>9 DEF Accepted
    <3>2. Service!Refuse(r)
      BY <2>5, <2>6, <2>7, <2>9, <3>1 DEF Service!Refuse, RequestRows, SessionRows, Accepted
    <3>3. QED
      BY <3>2 DEF Service!Next
  <2>10. QED
    BY <2>2, <2>8, <2>9
<1>4. CASE request[r] # "pending"
  BY <1>1, <1>2, <1>4, ServiceStill DEF ServeRespond, server
<1>5. QED
  BY <1>3, <1>4

LEMMA ServiceStart ==
    ASSUME IInv, NEW d \in Devices, NEW k \in Slots, ServeStart(d, k) PROVE [Service!Next]_(Service!vars)
<1>1. PICK q \in StartCalls : q = call[d][k]
  BY CallTypes, OpIs DEF ServeStart, At
<1>2. PICK r \in Requests : r = q.id
  BY DEF StartCalls
<1>3. CASE MayStart(r) /\ Len(session) < MaxSessions
  <2>1. PICK x : x = [request |-> r, state |-> "active"]
    OBVIOUS
  <2>2. PICK t \in Seq(Rows) : t = session
    BY DEF IInv, TablesOK
  <2>3. session' = Append(t, x) /\ request' = request
    BY <1>1, <1>2, <1>3, <2>1, <2>2 DEF ServeStart
  <2>4. PICK n : n = Len(t) + 1
    OBVIOUS
  <2>5. n \in Ids /\ Len(t) \in Nat /\ n = Len(t) + 1
    BY <1>3, <2>2, <2>4, BoundAssumption DEF Ids
  <2>6. Len(session') = n /\ session'[n] = x /\ \A s \in 1 .. Len(t) : session'[s] = t[s]
    <3>1. x \in Rows
      BY <2>1 DEF Rows
    <3>2. QED
      BY <2>2, <2>3, <2>5, <3>1, AppendProperties
  <2>7. request[r] = "accepted"
    BY <1>3 DEF MayStart
  <2>8. UNCHANGED <<RequestRows, Accepted>>
    BY <2>3 DEF RequestRows, Accepted
  <2>9. r \in Accepted /\ RequestRows[r] = [status |-> "accepted", from |-> From[r], to |-> To[r]]
    BY <2>7 DEF Accepted, RequestRows
  <2>10. SessionRows[n] = [status |-> "absent", from |-> None, to |-> None]
    BY <2>2, <2>5 DEF SessionRows
  <2>11. SessionRows' = [SessionRows EXCEPT ![n] = [status |-> "active", from |-> From[r], to |-> To[r]]]
    <3>1. SessionRows'[n] = [status |-> "active", from |-> From[r], to |-> To[r]]
      BY <2>1, <2>5, <2>6 DEF SessionRows, Requester, Target
    <3>2. ASSUME NEW s \in Ids, s # n PROVE SessionRows'[s] = SessionRows[s]
      <4>1. CASE s > n
        BY <2>2, <2>5, <2>6, <3>2, <4>1 DEF SessionRows, Ids
      <4>2. CASE s \in 1 .. Len(t)
        BY <2>2, <2>5, <2>6, <3>2, <4>2 DEF SessionRows, Requester, Target
      <4>3. QED
        BY <2>5, <3>2, <4>1, <4>2 DEF Ids
    <3>3. /\ SessionRows = [s \in Ids |-> SessionRows[s]]
          /\ SessionRows' = [s \in Ids |-> SessionRows'[s]]
      BY DEF SessionRows
    <3>4. QED
      BY <3>1, <3>2, <3>3
  <2>12. Service!Open(n, r)
    BY <2>8, <2>9, <2>10, <2>11 DEF Service!Open, Service!Unused, RequestRows, SessionRows, Accepted
  <2>13. QED
    BY <2>5, <2>12 DEF Service!Next
<1>4. CASE ~(MayStart(r) /\ Len(session) < MaxSessions)
  BY <1>1, <1>2, <1>4, ServiceStill DEF ServeStart, server
<1>5. QED
  BY <1>3, <1>4

LEMMA ServiceEnd ==
    ASSUME IInv, NEW d \in Devices, NEW k \in Slots, ServeEnd(d, k) PROVE [Service!Next]_(Service!vars)
<1>1. PICK q \in EndCalls : q = call[d][k]
  BY CallTypes, OpIs DEF ServeEnd, At
<1>2. PICK n \in Ids : n = q.id
  BY DEF EndCalls
<1>3. n \in 1 .. Len(session)
  BY <1>1, <1>2, CallTypes DEF CallOK, Mine
<1>4. CASE session[n].state = "active"
  <2>1. session' = [session EXCEPT ![n].state = "ended"] /\ UNCHANGED <<request, clicked>>
    BY <1>1, <1>2, <1>4 DEF ServeEnd, history
  <2>2. /\ Grows /\ Len(session') = Len(session) /\ session'[n].state = "ended" /\ Len(session) \in Nat
        /\ \A s \in 1 .. Len(session) : s # n => session'[s] = session[s]
    BY <1>3, <2>1, RowChanges, LenIsNat DEF IInv
  <2>3. UNCHANGED <<RequestRows, Accepted>>
    BY <2>1 DEF RequestRows, Accepted
  <2>4. SessionRows[n] = [status |-> "active", from |-> Requester(n), to |-> Target(n)]
    BY <1>3, <1>4, <2>2 DEF SessionRows
  <2>5. SessionRows'[n] = [status |-> "ended", from |-> Requester(n), to |-> Target(n)]
    BY <1>3, <2>2 DEF SessionRows, Requester, Target, Grows
  <2>6. ASSUME NEW s \in Ids, s # n PROVE SessionRows'[s] = SessionRows[s]
    BY <2>2, <2>6 DEF SessionRows, Requester, Target, Ids
  <2>7. SessionRows' = [SessionRows EXCEPT ![n].status = "ended"]
    <3>1. /\ SessionRows = [s \in Ids |-> SessionRows[s]]
          /\ SessionRows' = [s \in Ids |-> SessionRows'[s]]
      BY DEF SessionRows
    <3>2. QED
      BY <2>4, <2>5, <2>6, <3>1
  <2>8. Service!Close(n)
    BY <2>3, <2>4, <2>7 DEF Service!Close, RequestRows, SessionRows, Accepted
  <2>9. QED
    BY <2>8 DEF Service!Next
<1>5. CASE session[n].state # "active"
  BY <1>1, <1>2, <1>5, ServiceStill DEF ServeEnd, server
<1>6. QED
  BY <1>4, <1>5

\* To the life cycle a session that expires goes on.
LEMMA ServiceExpire == ASSUME IInv, NEW n \in 1 .. Len(session), Expire(n) PROVE UNCHANGED Service!vars
<1>1. /\ session' = [session EXCEPT ![n].state = "expired"] /\ session[n].state = "active"
      /\ UNCHANGED <<request, clicked>>
  BY DEF Expire, history
<1>2. /\ Grows /\ Len(session') = Len(session) /\ session'[n].state = "expired" /\ Len(session) \in Nat
      /\ \A s \in 1 .. Len(session) : s # n => session'[s] = session[s]
  BY <1>1, RowChanges, LenIsNat DEF IInv
<1>3. ASSUME NEW s \in 1 .. Len(session)
      PROVE  /\ Requester(s)' = Requester(s) /\ Target(s)' = Target(s)
             /\ session'[s].state = "ended" <=> session[s].state = "ended"
  BY <1>1, <1>2 DEF Grows, Requester, Target
<1>4. ASSUME NEW s \in Ids PROVE SessionRows'[s] = SessionRows[s]
  BY <1>2, <1>3 DEF SessionRows, Ids
<1>5. /\ SessionRows = [s \in Ids |-> SessionRows[s]]
      /\ SessionRows' = [s \in Ids |-> SessionRows'[s]]
  BY DEF SessionRows
<1>6. UNCHANGED <<RequestRows, SessionRows, Accepted>>
  BY <1>1, <1>4, <1>5 DEF RequestRows, Accepted
<1>7. QED
  BY <1>6 DEF Service!vars, RequestRows, SessionRows, Accepted

LEMMA ServiceInit == Init => Service!Init
  BY DEF Init, Service!Init, Service!Unused, Ids

LEMMA ServiceNext == IInv /\ [Next]_vars => [Service!Next]_(Service!vars)
<1>1. SUFFICES ASSUME IInv, [Next]_vars PROVE [Service!Next]_(Service!vars)
  OBVIOUS
<1>2. CASE UNCHANGED server
  BY <1>2, ServiceStill
<1>3. ASSUME NEW r \in Requests, Ask(r) PROVE Service!Next
  BY <1>1, <1>3, ServiceAsk
<1>4. ASSUME NEW d \in Devices, User(d) \/ Loss(d) \/ Sharing(d) \/ Deliver(d) PROVE UNCHANGED server
  <2>1. CASE User(d)
    BY <2>1 DEF User, ShareClick, Click, ClickEnd
  <2>2. CASE Loss(d)
    BY <2>2 DEF Loss, Disconnect, Resend
  <2>3. CASE Sharing(d)
    BY <2>3 DEF Sharing, ShareBegins, ShareRefused, ShareCaptures, ShareFallsBack
  <2>4. CASE Deliver(d)
    BY <2>4 DEF Deliver, OnRequest, OnResponse, OnStarted, OnEnded
  <2>5. QED
    BY <1>4, <2>1, <2>2, <2>3, <2>4
<1>5. ASSUME NEW d \in Devices, NEW k \in Slots, Serve(d, k) PROVE [Service!Next]_(Service!vars)
  <2>1. CASE Notify(d, k) \/ NotifyPanics(d, k)
    BY <2>1, ServiceStill DEF Notify, NotifyPanics
  <2>2. QED
    BY <1>1, <1>5, <2>1, ServiceRespond, ServiceStart, ServiceEnd DEF Serve
<1>6. ASSUME NEW d \in Devices, NEW k \in Slots, Reply(d, k) PROVE UNCHANGED server
  BY <1>6 DEF Reply, RespondReply, StartReply, EndReply, Failure
<1>7. CASE UNCHANGED vars
  BY <1>7, ServiceStill DEF vars, server
<1>8. ASSUME NEW s \in 1 .. Len(session), Expire(s) PROVE UNCHANGED Service!vars
  BY <1>1, <1>8, ServiceExpire
<1>9. QED
  BY <1>1, <1>2, <1>3, <1>4, <1>5, <1>6, <1>7, <1>8 DEF Next

\* Whatever clients do with a session, send again or overtake, the rows of the
\* server go through the strong life cycle (service.go:101-279).
THEOREM ServerImplementsLifecycle == Spec => ServerKeepsLifecycle
<1>1. IInv /\ [Next]_vars => IInv' /\ [Service!Next]_(Service!vars)
  BY NextOK, ServiceNext
<1>2. Init => IInv /\ Service!Init
  BY InitOK, ServiceInit
<1>3. Spec => Service!Spec
  BY <1>1, <1>2, PTL DEF Spec, Service!Spec
<1>4. QED
  BY <1>3 DEF ServerKeepsLifecycle
=============================================================================
