----------------------- MODULE SessionService_proofs ------------------------
(***************************************************************************)
(* Proofs about SessionService, for all sets of users, devices, identifiers*)
(* and handlers.  The properties are not inductive: what a call may do     *)
(* depends on what it checked some statements ago.  The invariant below    *)
(* records, for each step a call can be at, what it still knows about the  *)
(* rows it has read.  That knowledge survives the steps of other calls     *)
(* because the rows only grow (Grows).                                     *)
(***************************************************************************)
EXTENDS SessionService, TLAPS

Consented(r) ==
    [req |-> r, user |-> OwnerOf[requests[r].to], accept |-> TRUE] \in answers

RequestOK(r) ==
    /\ requests[r].status = "absent" => requests[r].from = None /\ requests[r].to = None
    /\ requests[r].status # "absent" =>
          /\ requests[r].from \in Devices
          /\ requests[r].to \in Devices
          /\ requests[r].from # requests[r].to
    /\ requests[r].status = "accepted" => Consented(r)

SessionOK(s) ==
    /\ sessions[s].status = "absent" => sessions[s].from = None /\ sessions[s].to = None
    /\ sessions[s].status # "absent" =>
          /\ sessions[s].from \in Devices
          /\ sessions[s].to \in Devices
          /\ sessions[s].origin \in RequestIds
          /\ requests[sessions[s].origin].status \in {"accepted", "rejected"}
          /\ sessions[s].from = requests[sessions[s].origin].from
          /\ sessions[s].to = requests[sessions[s].origin].to
          /\ Consented(sessions[s].origin)

AnswerOK(a) == requests[a.req].status \in {"accepted", "rejected"}

\* A job that names a request knows its two ends.
KnowsRequest(h) ==
    /\ job[h].req \in RequestIds
    /\ requests[job[h].req].status # "absent"
    /\ job[h].from = requests[job[h].req].from
    /\ job[h].to = requests[job[h].req].to

\* A job that names a session knows its two ends.
KnowsSession(h) ==
    /\ job[h].sess \in SessionIds
    /\ sessions[job[h].sess].status # "absent"
    /\ job[h].from = sessions[job[h].sess].from
    /\ job[h].to = sessions[job[h].sess].to

JobOK(h) ==
    /\ pc[h] = "request_insert" =>
          job[h].from \in Devices /\ job[h].to \in Devices /\ job[h].from # job[h].to
    /\ pc[h] = "request_notify" => KnowsRequest(h)
    /\ pc[h] \in {"respond_write", "respond_notify"} =>
          KnowsRequest(h) /\ job[h].user = OwnerOf[job[h].to]
    /\ pc[h] = "respond_notify" =>
          [req |-> job[h].req, user |-> job[h].user, accept |-> job[h].accept] \in answers
    /\ pc[h] = "start_insert" =>
          KnowsRequest(h) /\ job[h].user = OwnerOf[job[h].from] /\ Consented(job[h].req)
    /\ pc[h] \in {"start_notify_requester", "start_notify_target"} =>
          KnowsSession(h) /\ job[h].user = OwnerOf[job[h].from]
    /\ pc[h] \in {"end_write", "end_notify_requester", "end_notify_target"} =>
          KnowsSession(h)
    /\ pc[h] \in {"end_notify_requester", "end_notify_target"} =>
          sessions[job[h].sess].status = "ended"
    /\ pc[h] = "signal_relay" =>
          /\ job[h].sess \in SessionIds
          /\ sessions[job[h].sess].status # "absent"
          /\ job[h].to \in Participants(job[h].sess)

NoticeOK(n) ==
    /\ n.kind \in {"session_request", "response_accepted", "response_rejected"} =>
          n.id \in RequestIds /\ requests[n.id].status # "absent"
    /\ n.kind = "session_request" => requests[n.id].to = n.to
    /\ n.kind \in {"response_accepted", "response_rejected"} =>
          /\ requests[n.id].from = n.to
          /\ \E a \in answers : a.req = n.id /\ a.accept = (n.kind = "response_accepted")
    /\ n.kind \in {"session_started", "session_ended", "session_signal"} =>
          /\ n.id \in SessionIds
          /\ sessions[n.id].status # "absent"
          /\ n.to \in Participants(n.id)
    /\ n.kind = "session_ended" => sessions[n.id].status = "ended"

ToldOK(u, s) ==
    /\ sessions[s].status # "absent"
    /\ \E d \in Participants(s) : OwnerOf[d] = u

IInv ==
    /\ TypeOK
    /\ \A r \in RequestIds : RequestOK(r)
    /\ \A s \in SessionIds : SessionOK(s)
    /\ \A a \in answers : AnswerOK(a)
    /\ \A h \in Handlers : JobOK(h)
    /\ \A n \in notices : NoticeOK(n)
    /\ \A u \in Users, s \in SessionIds : <<u, s>> \in told => ToldOK(u, s)
    /\ OneEndWins

\* What no step takes back: rows keep their ends, an ended session stays ended
\* and answers stay on record.
Grows ==
    /\ \A r \in RequestIds :
          /\ requests[r].status # "absent" =>
                /\ requests'[r].status # "absent"
                /\ requests'[r].from = requests[r].from
                /\ requests'[r].to = requests[r].to
          /\ requests[r].status \in {"accepted", "rejected"} =>
                requests'[r].status \in {"accepted", "rejected"}
    /\ \A s \in SessionIds :
          /\ sessions[s].status # "absent" =>
                /\ sessions'[s].status # "absent"
                /\ sessions'[s].from = sessions[s].from
                /\ sessions'[s].to = sessions[s].to
                /\ sessions'[s].origin = sessions[s].origin
          /\ sessions[s].status = "ended" => sessions'[s].status = "ended"
    /\ answers \subseteq answers'

-----------------------------------------------------------------------------
(* What the growth of the rows preserves                                   *)

\* A call that does not move keeps what it knows, whatever the others do.
LEMMA JobStable ==
    ASSUME IInv, Grows, NEW h \in Handlers, pc'[h] = pc[h], job'[h] = job[h]
    PROVE  JobOK(h)'
<1> USE DEF Consented
<1>1. JobOK(h) /\ TypeOK
  BY DEF IInv
<1>2. KnowsRequest(h) => KnowsRequest(h)'
  BY DEF KnowsRequest, Grows
<1>3. KnowsSession(h) => KnowsSession(h)'
  BY DEF KnowsSession, Grows
<1>4. KnowsRequest(h) /\ Consented(job[h].req) => Consented(job[h].req)'
  BY DEF KnowsRequest, Grows
<1>5. QED
  BY <1>1, <1>2, <1>3, <1>4 DEF JobOK, Grows, Participants, KnowsSession

\* A notice that was true stays true.
LEMMA NoticeStable ==
    ASSUME IInv, Grows, NEW n \in Notice, NoticeOK(n)
    PROVE  NoticeOK(n)'
BY DEF NoticeOK, Grows, Participants

\* The ends of a session whose token was shown stay its ends.
LEMMA ToldStable ==
    ASSUME IInv, Grows, NEW u \in Users, NEW s \in SessionIds, ToldOK(u, s)
    PROVE  ToldOK(u, s)'
BY DEF ToldOK, Grows, Participants

\* A request that is not written keeps its conditions, and so does a session.
LEMMA RowStable ==
    ASSUME IInv, Grows
    PROVE  /\ \A r \in RequestIds : requests'[r] = requests[r] => RequestOK(r)'
           /\ \A s \in SessionIds : sessions'[s] = sessions[s] => SessionOK(s)'
           /\ \A a \in answers : AnswerOK(a)'
<1>1. ASSUME NEW r \in RequestIds, requests'[r] = requests[r]  PROVE RequestOK(r)'
  BY <1>1 DEF RequestOK, IInv, Grows, Consented
<1>2. ASSUME NEW s \in SessionIds, sessions'[s] = sessions[s]  PROVE SessionOK(s)'
  <2>1. SessionOK(s)
    BY DEF IInv
  <2>2. CASE sessions[s].status = "absent"
    BY <1>2, <2>1, <2>2 DEF SessionOK
  <2>3. CASE sessions[s].status # "absent"
    <3> DEFINE r == sessions[s].origin
    <3>1. r \in RequestIds /\ requests[r].status \in {"accepted", "rejected"}
      BY <2>1, <2>3 DEF SessionOK
    <3>2. /\ requests'[r].from = requests[r].from
          /\ requests'[r].to = requests[r].to
          /\ requests'[r].status \in {"accepted", "rejected"}
      BY <3>1 DEF Grows
    <3>3. QED
      BY <1>2, <2>1, <2>3, <3>1, <3>2 DEF SessionOK, Consented, Grows
  <2>4. QED
    BY <2>2, <2>3
<1>3. ASSUME NEW a \in answers  PROVE AnswerOK(a)'
  <2>1. a.req \in RequestIds
    BY DEF IInv, TypeOK, AnswerGiven
  <2>2. QED
    BY <2>1 DEF IInv, AnswerOK, Grows
<1>4. QED
  BY <1>1, <1>2, <1>3

\* The invariant after a step of one call: the rows grew, the row it wrote and
\* the facts it added are right, and it knows what its next step needs.
LEMMA Assemble ==
    ASSUME IInv, Grows, TypeOK', OneEndWins',
           NEW h \in Handlers,
           \A g \in Handlers \ {h} : pc'[g] = pc[g] /\ job'[g] = job[g],
           JobOK(h)',
           \A r \in RequestIds : requests'[r] = requests[r] \/ RequestOK(r)',
           \A s \in SessionIds : sessions'[s] = sessions[s] \/ SessionOK(s)',
           \A a \in answers' : a \in answers \/ AnswerOK(a)',
           \A n \in notices' : n \in notices \/ NoticeOK(n)',
           \A u \in Users, s \in SessionIds :
               <<u, s>> \in told' => <<u, s>> \in told \/ ToldOK(u, s)'
    PROVE  IInv'
<1>1. \A g \in Handlers : JobOK(g)'
  BY JobStable
<1>2. \A n \in notices' : NoticeOK(n)'
  BY NoticeStable DEF IInv, TypeOK
<1>3. \A u \in Users, s \in SessionIds : <<u, s>> \in told' => ToldOK(u, s)'
  BY ToldStable DEF IInv
<1>4. /\ \A r \in RequestIds : RequestOK(r)'
      /\ \A s \in SessionIds : SessionOK(s)'
      /\ \A a \in answers' : AnswerOK(a)'
  BY RowStable
<1>5. QED
  BY <1>1, <1>2, <1>3, <1>4 DEF IInv

-----------------------------------------------------------------------------
(* The control of a call                                                   *)

Others(h) == \A g \in Handlers \ {h} : pc'[g] = pc[g] /\ job'[g] = job[g]

\* The tables and the histories of answers and closings are left alone.
TablesUnchanged == UNCHANGED <<requests, sessions, answers, closings>>

LEMMA NoJobType == NoJob \in Job
BY DEF NoJob, Job

\* A call that begins, moves or returns leaves the other calls where they are.
LEMMA BeginOK ==
    ASSUME TypeOK, NEW h \in Handlers, NEW step \in Steps, NEW locals \in Job,
           Begin(h, step, locals)
    PROVE  /\ pc' \in [Handlers -> Steps] /\ job' \in [Handlers -> Job]
           /\ pc'[h] = step /\ job'[h] = locals
           /\ Others(h)
BY DEF Begin, Goto, TypeOK, Others

LEMMA ReturnOK ==
    ASSUME TypeOK, NEW h \in Handlers, Return(h)
    PROVE  /\ pc' \in [Handlers -> Steps] /\ job' \in [Handlers -> Job]
           /\ Others(h)
           /\ JobOK(h)'
<1>1. /\ pc' \in [Handlers -> Steps] /\ job' \in [Handlers -> Job]
      /\ pc'[h] = "idle" /\ Others(h)
  BY NoJobType DEF Return, Goto, TypeOK, Others, Steps
<1>2. QED
  BY <1>1 DEF JobOK

LEMMA GotoOK ==
    ASSUME TypeOK, NEW h \in Handlers, NEW step \in Steps, Goto(h, step)
    PROVE  /\ pc' \in [Handlers -> Steps]
           /\ pc'[h] = step
           /\ \A g \in Handlers \ {h} : pc'[g] = pc[g]
BY DEF Goto, TypeOK

\* A delivery adds at most the one notice.
LEMMA NotifyOK ==
    ASSUME TypeOK, NEW d \in Devices, NEW kind \in NoticeKinds,
           NEW id \in RequestIds \cup SessionIds, NotifyDevice(d, kind, id)
    PROVE  /\ notices' \subseteq Notice
           /\ \A n \in notices' : n \in notices \/ n = [to |-> d, kind |-> kind, id |-> id]
BY DEF NotifyDevice, TypeOK, Notice

LEMMA TablesStill ==
    ASSUME IInv, TablesUnchanged
    PROVE  /\ Grows /\ OneEndWins'
           /\ \A r \in RequestIds : requests'[r] = requests[r]
           /\ \A s \in SessionIds : sessions'[s] = sessions[s]
           /\ \A a \in answers' : a \in answers
BY DEF IInv, TablesUnchanged, Grows, OneEndWins

\* A step that only moves calls, adds notices and shows tokens.
LEMMA AssembleStill ==
    ASSUME IInv, TablesUnchanged, TypeOK', NEW h \in Handlers, Others(h), JobOK(h)',
           \A n \in notices' : n \in notices \/ NoticeOK(n)',
           \A u \in Users, s \in SessionIds :
               <<u, s>> \in told' => <<u, s>> \in told \/ ToldOK(u, s)'
    PROVE  IInv'
BY TablesStill, Assemble DEF Others

-----------------------------------------------------------------------------
(* Service.Request                                                         *)

LEMMA RequestCheckStep ==
    ASSUME IInv, NEW h \in Handlers, NEW u \in Users, NEW from \in Devices,
           NEW to \in Devices, RequestCheck(h, u, from, to)
    PROVE  IInv'
<1> DEFINE locals == [NoJob EXCEPT !.user = u, !.from = from, !.to = to]
<1>1. locals \in Job /\ locals.from = from /\ locals.to = to
  BY NoJobType DEF Job
<1>2. /\ pc' \in [Handlers -> Steps] /\ job' \in [Handlers -> Job]
      /\ pc'[h] = "request_insert" /\ job'[h] = locals /\ Others(h)
  <2> HIDE DEF locals
  <2>1. Begin(h, "request_insert", locals) /\ "request_insert" \in Steps
    BY DEF RequestCheck, Steps, locals
  <2>2. QED
    BY <1>1, <2>1, BeginOK DEF IInv
<1>3. TypeOK'
  BY <1>2 DEF IInv, TypeOK, RequestCheck
<1>4. JobOK(h)'
  BY <1>1, <1>2 DEF JobOK, RequestCheck
<1>5. QED
  BY <1>2, <1>3, <1>4, AssembleStill DEF RequestCheck, TablesUnchanged

LEMMA RequestInsertStep ==
    ASSUME IInv, NEW h \in Handlers, RequestInsert(h)
    PROVE  IInv'
<1> USE DEF IInv
<1>1. PICK r \in RequestIds :
        /\ requests[r].status = "absent"
        /\ requests' = [requests EXCEPT ![r] =
              [status |-> "pending", from |-> job[h].from, to |-> job[h].to]]
        /\ job' = [job EXCEPT ![h].req = r]
  BY DEF RequestInsert
<1>2. job[h].from \in Devices /\ job[h].to \in Devices /\ job[h].from # job[h].to
  BY DEF JobOK, RequestInsert
<1>3. /\ pc' \in [Handlers -> Steps] /\ pc'[h] = "request_notify"
      /\ job' \in [Handlers -> Job] /\ job'[h] = [job[h] EXCEPT !.req = r]
      /\ Others(h)
  <2>1. job[h] \in Job /\ job' = [job EXCEPT ![h].req = r]
    BY <1>1 DEF TypeOK
  <2>2. [job[h] EXCEPT !.req = r] \in Job
    BY <2>1 DEF Job
  <2>3. /\ job' \in [Handlers -> Job] /\ job'[h] = [job[h] EXCEPT !.req = r]
        /\ \A g \in Handlers \ {h} : job'[g] = job[g]
    BY <2>1, <2>2 DEF TypeOK
  <2>4. QED
    BY <2>3, GotoOK DEF RequestInsert, Steps, Others
<1>4. requests'[r] = [status |-> "pending", from |-> job[h].from, to |-> job[h].to]
  BY <1>1 DEF TypeOK
<1>5. \A q \in RequestIds \ {r} : requests'[q] = requests[q]
  BY <1>1 DEF TypeOK
<1>6. TypeOK'
  BY <1>1, <1>2, <1>3 DEF TypeOK, RequestInsert, RequestRow
<1>7. Grows
  BY <1>1, <1>4, <1>5 DEF Grows, RequestInsert
<1>8. RequestOK(r)'
  BY <1>2, <1>4 DEF RequestOK
<1>9. JobOK(h)'
  <2>1. job[h] \in Job
    BY DEF TypeOK
  <2>2. job'[h].req = r /\ job'[h].from = job[h].from /\ job'[h].to = job[h].to
    BY <1>3, <2>1 DEF Job
  <2>3. QED
    BY <1>3, <1>4, <2>2 DEF JobOK, KnowsRequest
<1>10. OneEndWins' /\ \A s \in SessionIds : sessions'[s] = sessions[s]
  BY DEF RequestInsert, OneEndWins
<1>11. QED
  BY <1>3, <1>5, <1>6, <1>7, <1>8, <1>9, <1>10, Assemble DEF RequestInsert, Others

LEMMA RequestNotifyStep ==
    ASSUME IInv, NEW h \in Handlers, RequestNotify(h)
    PROVE  IInv'
<1> USE DEF IInv
<1>1. KnowsRequest(h) /\ job[h].to \in Devices
  BY DEF RequestNotify, JobOK, KnowsRequest, RequestOK
<1>2. /\ notices' \subseteq Notice
      /\ \A n \in notices' :
            n \in notices \/ n = [to |-> job[h].to, kind |-> "session_request", id |-> job[h].req]
  BY <1>1, NotifyOK DEF RequestNotify, KnowsRequest, NoticeKinds
<1>3. /\ pc' \in [Handlers -> Steps] /\ job' \in [Handlers -> Job]
      /\ Others(h) /\ JobOK(h)'
  BY ReturnOK DEF RequestNotify
<1>4. TypeOK'
  BY <1>2, <1>3 DEF TypeOK, RequestNotify
<1>5. \A n \in notices' : n \in notices \/ NoticeOK(n)'
  BY <1>1, <1>2 DEF NoticeOK, KnowsRequest, RequestNotify
<1>6. QED
  BY <1>3, <1>4, <1>5, AssembleStill DEF RequestNotify, TablesUnchanged

-----------------------------------------------------------------------------
(* Service.Respond                                                         *)

LEMMA RespondReadStep ==
    ASSUME IInv, NEW h \in Handlers, NEW u \in Users, NEW r \in RequestIds, NEW d \in Devices,
           NEW accept \in BOOLEAN,
           RespondRead(h, u, r, d, accept)
    PROVE  IInv'
<1> DEFINE locals == [NoJob EXCEPT !.user = u, !.device = d, !.req = r, !.accept = accept,
                                 !.from = requests[r].from, !.to = requests[r].to]
<1>1. /\ requests[r].status = "pending" /\ requests[r].to = d /\ OwnerOf[d] = u
      /\ requests[r].from \in Devices /\ requests' = requests
  BY DEF RespondRead, MayRespond, BelongsToUser, IInv, RequestOK
<1>2. locals \in Job /\ locals.req = r /\ locals.user = u
      /\ locals.from = requests[r].from /\ locals.to = requests[r].to
  BY <1>1, NoJobType DEF Job
<1>3. /\ pc' \in [Handlers -> Steps] /\ job' \in [Handlers -> Job]
      /\ pc'[h] = "respond_write" /\ job'[h] = locals /\ Others(h)
  <2> HIDE DEF locals
  <2>1. Begin(h, "respond_write", locals) /\ "respond_write" \in Steps
    BY DEF RespondRead, Steps, locals
  <2>2. QED
    BY <1>2, <2>1, BeginOK DEF IInv
<1>4. TypeOK'
  BY <1>3 DEF IInv, TypeOK, RespondRead
<1>5. JobOK(h)'
  <2> HIDE DEF locals
  <2>1. QED
    BY <1>1, <1>2, <1>3 DEF JobOK, KnowsRequest
<1>6. QED
  BY <1>3, <1>4, <1>5, AssembleStill DEF RespondRead, TablesUnchanged

LEMMA RespondWriteStep ==
    ASSUME IInv, NEW h \in Handlers, RespondWrite(h)
    PROVE  IInv'
<1> USE DEF IInv
<1>1. KnowsRequest(h) /\ job[h].user = OwnerOf[job[h].to] /\ job[h] \in Job
  BY DEF RespondWrite, JobOK, TypeOK
<1>2. PICK r \in RequestIds : r = job[h].req
  BY <1>1 DEF KnowsRequest
<1>3. /\ requests[r].status # "absent"
      /\ requests[r].from \in Devices /\ requests[r].to \in Devices
      /\ requests[r].from # requests[r].to
      /\ job[h].from = requests[r].from /\ job[h].to = requests[r].to
      /\ job[h].user = OwnerOf[requests[r].to]
  BY <1>1, <1>2 DEF KnowsRequest, RequestOK
<1>4. PICK a \in AnswerGiven : /\ a = [req |-> r, user |-> job[h].user, accept |-> job[h].accept]
                               /\ a.req = r
  <2>1. job[h].user \in Users /\ job[h].accept \in BOOLEAN
    BY <1>1, <1>3, OwnerAssumption DEF Job
  <2>2. [req |-> r, user |-> job[h].user, accept |-> job[h].accept] \in AnswerGiven
    BY <2>1 DEF AnswerGiven
  <2>3. QED
    BY <2>2
<1>5. answers' = answers \cup {a}
  BY <1>2, <1>4 DEF RespondWrite
<1>6. Answer(h) \in {"accepted", "rejected"} /\ (Answer(h) = "accepted" => job[h].accept)
  BY DEF Answer
<1>7. requests' = [requests EXCEPT ![r].status = Answer(h)] /\ requests[r] \in RequestRow
  BY <1>2 DEF RespondWrite, TypeOK
<1>8. /\ requests'[r].status = Answer(h)
      /\ requests'[r].from = requests[r].from
      /\ requests'[r].to = requests[r].to
      /\ \A q \in RequestIds \ {r} : requests'[q] = requests[q]
  BY <1>7 DEF TypeOK, RequestRow
<1>9. requests' \in [RequestIds -> RequestRow]
  BY <1>6, <1>7 DEF TypeOK, RequestRow
<1>10. /\ pc' \in [Handlers -> Steps] /\ pc'[h] = "respond_notify" /\ job' = job
       /\ Others(h)
  BY GotoOK DEF RespondWrite, Steps, Others
<1>11. TypeOK'
  BY <1>5, <1>9, <1>10 DEF TypeOK, RespondWrite
<1>12. Grows
  BY <1>6, <1>8, <1>5 DEF Grows, RespondWrite
<1>13. JobOK(h)'
  <2>1. KnowsRequest(h)'
    BY <1>2, <1>3, <1>6, <1>8, <1>10 DEF KnowsRequest
  <2>2. [req |-> job'[h].req, user |-> job'[h].user, accept |-> job'[h].accept] \in answers'
    BY <1>2, <1>4, <1>5, <1>10
  <2>3. QED
    BY <1>1, <1>10, <2>1, <2>2 DEF JobOK
<1>14. RequestOK(r)'
  <2>1. ASSUME job[h].accept
        PROVE  a = [req |-> r, user |-> OwnerOf[requests'[r].to], accept |-> TRUE]
    <3>1. job[h].accept = TRUE
      BY <1>1, <2>1 DEF Job
    <3>2. QED
      BY <3>1, <1>3, <1>4, <1>8
  <2>2. requests'[r].status = "accepted" => Consented(r)'
    BY <1>5, <1>6, <1>8, <2>1 DEF Consented
  <2>3. QED
    BY <1>3, <1>6, <1>8, <2>2 DEF RequestOK
<1>15. AnswerOK(a)'
  BY <1>4, <1>6, <1>8 DEF AnswerOK
<1>16. OneEndWins' /\ \A s \in SessionIds : sessions'[s] = sessions[s]
  BY DEF RespondWrite, OneEndWins
<1>17. /\ \A q \in RequestIds : requests'[q] = requests[q] \/ RequestOK(q)'
       /\ \A b \in answers' : b \in answers \/ AnswerOK(b)'
  BY <1>5, <1>8, <1>14, <1>15
<1>18. notices' = notices /\ told' = told
  BY DEF RespondWrite
<1>19. QED
  <2> HIDE DEF IInv
  <2>1. QED
    BY <1>10, <1>11, <1>12, <1>13, <1>16, <1>17, <1>18, Assemble DEF Others

LEMMA RespondNotifyStep ==
    ASSUME IInv, NEW h \in Handlers, RespondNotify(h)
    PROVE  IInv'
<1> USE DEF IInv
<1> DEFINE kind == IF job[h].accept THEN "response_accepted" ELSE "response_rejected"
<1>1. /\ KnowsRequest(h) /\ job[h].from \in Devices
      /\ [req |-> job[h].req, user |-> job[h].user, accept |-> job[h].accept] \in answers
  BY DEF RespondNotify, JobOK, KnowsRequest, RequestOK
<1>2. job[h].accept \in BOOLEAN
  BY DEF TypeOK, Job
<1>3. /\ notices' \subseteq Notice
      /\ \A n \in notices' :
            n \in notices \/ n = [to |-> job[h].from, kind |-> kind, id |-> job[h].req]
  BY <1>1, NotifyOK DEF RespondNotify, KnowsRequest, NoticeKinds
<1>4. /\ pc' \in [Handlers -> Steps] /\ job' \in [Handlers -> Job]
      /\ Others(h) /\ JobOK(h)'
  BY ReturnOK DEF RespondNotify
<1>5. TypeOK'
  BY <1>3, <1>4 DEF TypeOK, RespondNotify
<1>6. \A n \in notices' : n \in notices \/ NoticeOK(n)'
  <2> SUFFICES ASSUME NEW n \in notices', n \notin notices  PROVE NoticeOK(n)'
    OBVIOUS
  <2>1. n.to = job[h].from /\ n.kind = kind /\ n.id = job[h].req
    BY <1>3
  <2>2. \E a \in answers' : a.req = n.id /\ a.accept = job[h].accept
    BY <1>1, <2>1 DEF RespondNotify
  <2>3. job[h].accept = (n.kind = "response_accepted")
    BY <1>2, <2>1
  <2>4. QED
    BY <1>1, <2>1, <2>2, <2>3 DEF NoticeOK, KnowsRequest, RespondNotify
<1>7. QED
  BY <1>4, <1>5, <1>6, AssembleStill DEF RespondNotify, TablesUnchanged

-----------------------------------------------------------------------------
(* Service.Start and Service.ListByUser                                    *)

LEMMA StartReadStep ==
    ASSUME IInv, NEW h \in Handlers, NEW u \in Users, NEW r \in RequestIds, NEW d \in Devices,
           StartRead(h, u, r, d)
    PROVE  IInv'
<1> DEFINE locals == [NoJob EXCEPT !.user = u, !.device = d, !.req = r, !.at = now,
                                 !.from = requests[r].from, !.to = requests[r].to]
<1>1. /\ requests[r].status = "accepted" /\ requests[r].from = d /\ OwnerOf[d] = u
      /\ requests[r].to \in Devices /\ now \in Int /\ Consented(r)
      /\ requests' = requests /\ answers' = answers
  BY DEF StartRead, MayStart, BelongsToUser, IInv, RequestOK, TypeOK
<1>2. locals \in Job /\ locals.req = r /\ locals.user = u
      /\ locals.from = requests[r].from /\ locals.to = requests[r].to
  BY <1>1, NoJobType DEF Job
<1>3. /\ pc' \in [Handlers -> Steps] /\ job' \in [Handlers -> Job]
      /\ pc'[h] = "start_insert" /\ job'[h] = locals /\ Others(h)
  <2> HIDE DEF locals
  <2>1. Begin(h, "start_insert", locals) /\ "start_insert" \in Steps
    BY DEF StartRead, Steps, locals
  <2>2. QED
    BY <1>2, <2>1, BeginOK DEF IInv
<1>4. TypeOK'
  BY <1>3 DEF IInv, TypeOK, StartRead
<1>5. JobOK(h)'
  <2> HIDE DEF locals
  <2>1. QED
    BY <1>1, <1>2, <1>3 DEF JobOK, KnowsRequest, Consented
<1>6. QED
  BY <1>3, <1>4, <1>5, AssembleStill DEF StartRead, TablesUnchanged

LEMMA StartInsertStep ==
    ASSUME IInv, NEW h \in Handlers, StartInsert(h)
    PROVE  IInv'
<1> USE DEF IInv
<1>1. PICK s \in SessionIds, t \in job[h].at .. now :
        /\ sessions[s].status = "absent"
        /\ sessions' = [sessions EXCEPT ![s] =
              [status |-> "active", from |-> job[h].from, to |-> job[h].to,
               expiry |-> t + TTL, origin |-> job[h].req]]
        /\ job' = [job EXCEPT ![h].sess = s]
  BY DEF StartInsert
<1>2. /\ job[h] \in Job /\ KnowsRequest(h) /\ Consented(job[h].req)
      /\ job[h].user = OwnerOf[job[h].from]
  BY DEF JobOK, StartInsert, TypeOK
<1>3. PICK r \in RequestIds : r = job[h].req
  BY <1>2 DEF KnowsRequest
<1>4. /\ job[h].from = requests[r].from /\ requests[r].from \in Devices
      /\ job[h].to = requests[r].to /\ requests[r].to \in Devices
      /\ Consented(r) /\ requests[r].status \in {"accepted", "rejected"}
  <2>1. PICK a \in answers : a.req = r
    BY <1>2, <1>3 DEF Consented
  <2>2. QED
    BY <1>2, <1>3, <2>1 DEF KnowsRequest, RequestOK, AnswerOK
<1>5. t + TTL \in Int
  BY <1>2, TimeAssumption DEF Job, TypeOK
<1>6. /\ sessions' \in [SessionIds -> SessionRow]
      /\ sessions'[s] = [status |-> "active", from |-> job[h].from, to |-> job[h].to,
                         expiry |-> t + TTL, origin |-> r]
      /\ \A x \in SessionIds \ {s} : sessions'[x] = sessions[x]
  BY <1>1, <1>3, <1>4, <1>5 DEF TypeOK, SessionRow
<1>7. [job[h] EXCEPT !.sess = s] \in Job
  BY <1>2 DEF Job
<1>8. /\ job' \in [Handlers -> Job] /\ job'[h] = [job[h] EXCEPT !.sess = s]
      /\ \A g \in Handlers \ {h} : job'[g] = job[g]
  BY <1>1, <1>7 DEF TypeOK
<1>9. /\ pc' \in [Handlers -> Steps] /\ pc'[h] = "start_notify_requester" /\ Others(h)
  BY <1>8, GotoOK DEF StartInsert, Steps, Others
<1>10. TypeOK'
  BY <1>6, <1>8, <1>9 DEF TypeOK, StartInsert
<1>11. Grows
  BY <1>1, <1>6 DEF Grows, StartInsert
<1>12. OneEndWins'
  BY <1>1, <1>6 DEF OneEndWins, StartInsert
<1>13. SessionOK(s)'
  <2>1. /\ sessions'[s].status = "active" /\ sessions'[s].origin = r
        /\ sessions'[s].from = job[h].from /\ sessions'[s].to = job[h].to
    BY <1>6
  <2>2. requests' = requests /\ answers' = answers
    BY DEF StartInsert
  <2>3. QED
    BY <1>4, <2>1, <2>2 DEF SessionOK, Consented
<1>14. JobOK(h)'
  <2>1. /\ job'[h].sess = s /\ job'[h].from = job[h].from /\ job'[h].to = job[h].to
        /\ job'[h].user = job[h].user
    BY <1>2, <1>8 DEF Job
  <2>2. QED
    BY <1>2, <1>6, <1>9, <2>1 DEF JobOK, KnowsSession
<1>15. requests' = requests /\ answers' = answers /\ notices' = notices /\ told' = told
  BY DEF StartInsert
<1>16. QED
  <2> HIDE DEF IInv
  <2>1. QED
    BY <1>6, <1>9, <1>10, <1>11, <1>12, <1>13, <1>14, <1>15, <1>8, Assemble DEF Others

LEMMA StartNotifyRequesterStep ==
    ASSUME IInv, NEW h \in Handlers, StartNotifyRequester(h)
    PROVE  IInv'
<1> USE DEF IInv
<1>1. /\ KnowsSession(h) /\ job[h].from \in Devices /\ job[h].to \in Devices
       /\ job[h].user = OwnerOf[job[h].from]
  BY DEF StartNotifyRequester, JobOK, KnowsSession, SessionOK
<1>2. /\ notices' \subseteq Notice
      /\ \A n \in notices' :
            n \in notices \/ n = [to |-> job[h].from, kind |-> "session_started", id |-> job[h].sess]
  BY <1>1, NotifyOK DEF StartNotifyRequester, KnowsSession, NoticeKinds
<1>3. /\ pc' \in [Handlers -> Steps] /\ job' \in [Handlers -> Job] /\ Others(h)
  BY GotoOK DEF StartNotifyRequester, Steps, Others, TypeOK
<1>4. JobOK(h)'
  BY <1>1, GotoOK DEF StartNotifyRequester, Steps, JobOK, KnowsSession
<1>5. TypeOK'
  BY <1>2, <1>3 DEF TypeOK, StartNotifyRequester
<1>6. \A n \in notices' : n \in notices \/ NoticeOK(n)'
  BY <1>1, <1>2 DEF NoticeOK, KnowsSession, Participants, StartNotifyRequester
<1>7. told' = told
  BY DEF StartNotifyRequester
<1>8. TablesUnchanged
  BY DEF StartNotifyRequester, TablesUnchanged
<1>9. QED
  <2> HIDE DEF IInv
  <2>1. QED
    BY <1>3, <1>4, <1>5, <1>6, <1>7, <1>8, AssembleStill

LEMMA StartNotifyTargetStep ==
    ASSUME IInv, NEW h \in Handlers, StartNotifyTarget(h)
    PROVE  IInv'
<1> USE DEF IInv
<1>1. /\ KnowsSession(h) /\ job[h].from \in Devices /\ job[h].to \in Devices
       /\ job[h].user = OwnerOf[job[h].from]
  BY DEF StartNotifyTarget, JobOK, KnowsSession, SessionOK
<1>2. /\ notices' \subseteq Notice
      /\ \A n \in notices' :
            n \in notices \/ n = [to |-> job[h].to, kind |-> "session_started", id |-> job[h].sess]
  BY <1>1, NotifyOK DEF StartNotifyTarget, KnowsSession, NoticeKinds
<1>3. /\ pc' \in [Handlers -> Steps] /\ job' \in [Handlers -> Job] /\ Others(h)
  BY ReturnOK DEF StartNotifyTarget
<1>4. JobOK(h)'
  BY ReturnOK DEF StartNotifyTarget
<1>5. TypeOK'
  BY <1>1, <1>2, <1>3, OwnerAssumption DEF TypeOK, KnowsSession, StartNotifyTarget
<1>6. \A n \in notices' : n \in notices \/ NoticeOK(n)'
  BY <1>1, <1>2 DEF NoticeOK, KnowsSession, Participants, StartNotifyTarget
<1>7. \A u \in Users, s \in SessionIds : <<u, s>> \in told' => <<u, s>> \in told \/ ToldOK(u, s)'
  BY <1>1 DEF ToldOK, Participants, KnowsSession, StartNotifyTarget
<1>8. TablesUnchanged
  BY DEF StartNotifyTarget, TablesUnchanged
<1>9. QED
  <2> HIDE DEF IInv
  <2>1. QED
    BY <1>3, <1>4, <1>5, <1>6, <1>7, <1>8, AssembleStill

LEMMA ListByUserStep ==
    ASSUME IInv, NEW v \in Users, ListByUser(v)
    PROVE  IInv'
<1>1. TablesUnchanged /\ pc' = pc /\ job' = job /\ notices' = notices
  BY DEF ListByUser, TablesUnchanged
<1>2. TypeOK'
  BY DEF IInv, TypeOK, ListByUser, Listed
<1>3. ASSUME NEW u \in Users, NEW s \in SessionIds, <<u, s>> \in told'
      PROVE  ToldOK(u, s)'
  <2>1. CASE <<u, s>> \in told
    BY <1>1, <2>1, TablesStill, ToldStable DEF IInv
  <2>2. CASE u = v /\ s \in Listed(v)
    BY <1>1, <2>2 DEF Listed, ToldOK, Participants, BelongsToUser, TablesUnchanged
  <2>3. QED
    BY <1>3, <2>1, <2>2 DEF ListByUser
<1>4. \A h \in Handlers : JobOK(h)'
  BY <1>1, TablesStill, JobStable
<1>5. \A n \in notices' : NoticeOK(n)'
  BY <1>1, TablesStill, NoticeStable DEF IInv, TypeOK
<1>6. QED
  BY <1>1, <1>2, <1>3, <1>4, <1>5, TablesStill, RowStable DEF IInv

-----------------------------------------------------------------------------
(* Service.End and the relay of signals                                    *)

LEMMA EndValidateStep ==
    ASSUME IInv, NEW h \in Handlers, NEW u \in Users, NEW d \in Devices, NEW s \in SessionIds,
           NEW token \in SessionIds,
           EndValidate(h, u, d, s, token)
    PROVE  IInv'
<1> DEFINE locals == [NoJob EXCEPT !.user = u, !.device = d, !.sess = s,
                                 !.from = sessions[s].from, !.to = sessions[s].to]
<1>1. /\ sessions[s].status = "active" /\ sessions[s].from \in Devices
      /\ sessions[s].to \in Devices /\ sessions' = sessions /\ d \in Participants(s)
  BY DEF EndValidate, Validate, IInv, SessionOK, TypeOK
<1>2. locals \in Job /\ locals.sess = s /\ locals.from = sessions[s].from /\ locals.to = sessions[s].to
  BY <1>1, NoJobType DEF Job
<1>3. /\ pc' \in [Handlers -> Steps] /\ job' \in [Handlers -> Job]
      /\ pc'[h] = "end_write" /\ job'[h] = locals /\ Others(h)
  <2> HIDE DEF locals
  <2>1. Begin(h, "end_write", locals) /\ "end_write" \in Steps
    BY DEF EndValidate, Steps, locals
  <2>2. QED
    BY <1>2, <2>1, BeginOK DEF IInv
<1>4. TypeOK'
  BY <1>3 DEF IInv, TypeOK, EndValidate
<1>5. JobOK(h)'
  <2> HIDE DEF locals
  <2>1. QED
    BY <1>1, <1>2, <1>3 DEF JobOK, KnowsSession
<1>6. QED
  BY <1>3, <1>4, <1>5, AssembleStill DEF EndValidate, TablesUnchanged

LEMMA EndWriteStep ==
    ASSUME IInv, NEW h \in Handlers, EndWrite(h)
    PROVE  IInv'
<1>1. CASE sessions[job[h].sess].status # "active"
  <2>1. Return(h) /\ TablesUnchanged
    BY <1>1 DEF EndWrite, TablesUnchanged
  <2>2. TypeOK'
    BY <2>1, ReturnOK DEF EndWrite, TablesUnchanged, IInv, TypeOK
  <2>3. QED
    BY <2>1, <2>2, ReturnOK, AssembleStill DEF EndWrite, IInv
<1>2. CASE sessions[job[h].sess].status = "active"
  <2> USE DEF IInv
  <2>1. KnowsSession(h)
    BY DEF EndWrite, JobOK
  <2>2. PICK s \in SessionIds : s = job[h].sess
    BY <2>1 DEF KnowsSession
  <2>3. /\ sessions' = [sessions EXCEPT ![s].status = "ended"]
        /\ closings' = [closings EXCEPT ![s] = @ + 1]
        /\ Goto(h, "end_notify_requester") /\ job' = job
    BY <1>2, <2>2 DEF EndWrite
  <2>4. /\ sessions[s] \in SessionRow /\ closings[s] = 0
    BY <1>2, <2>2 DEF TypeOK, OneEndWins
  <2>5. /\ sessions' \in [SessionIds -> SessionRow]
        /\ sessions'[s].status = "ended"
        /\ sessions'[s].from = sessions[s].from /\ sessions'[s].to = sessions[s].to
        /\ sessions'[s].origin = sessions[s].origin
        /\ \A x \in SessionIds \ {s} : sessions'[x] = sessions[x]
    BY <2>3, <2>4 DEF TypeOK, SessionRow
  <2>6. /\ closings' \in [SessionIds -> Nat] /\ closings'[s] = 1
        /\ \A x \in SessionIds \ {s} : closings'[x] = closings[x]
    BY <2>3, <2>4 DEF TypeOK
  <2>7. /\ pc' \in [Handlers -> Steps] /\ pc'[h] = "end_notify_requester" /\ Others(h)
    BY <2>3, GotoOK DEF Steps, Others
  <2>8. TypeOK'
    BY <2>3, <2>5, <2>6, <2>7 DEF TypeOK, EndWrite
  <2>9. Grows
    BY <2>5 DEF Grows, EndWrite
  <2>10. OneEndWins'
    BY <2>5, <2>6 DEF OneEndWins
  <2>11. SessionOK(s)'
    BY <1>2, <2>2, <2>5 DEF SessionOK, Consented, EndWrite
  <2>12. JobOK(h)'
    BY <2>1, <2>2, <2>3, <2>5, <2>7 DEF JobOK, KnowsSession
  <2>13. requests' = requests /\ answers' = answers /\ notices' = notices /\ told' = told
    BY DEF EndWrite
  <2>14. \A x \in SessionIds : sessions'[x] = sessions[x] \/ SessionOK(x)'
    BY <2>5, <2>11
  <2>15. QED
    <3> HIDE DEF IInv
    <3>1. QED
      BY <2>7, <2>8, <2>9, <2>10, <2>12, <2>13, <2>14, Assemble DEF Others
<1>3. QED
  BY <1>1, <1>2

LEMMA EndNotifyRequesterStep ==
    ASSUME IInv, NEW h \in Handlers, EndNotifyRequester(h)
    PROVE  IInv'
<1> USE DEF IInv
<1>1. /\ KnowsSession(h) /\ job[h].from \in Devices /\ job[h].to \in Devices
       /\ sessions[job[h].sess].status = "ended"
  BY DEF EndNotifyRequester, JobOK, KnowsSession, SessionOK
<1>2. /\ notices' \subseteq Notice
      /\ \A n \in notices' :
            n \in notices \/ n = [to |-> job[h].from, kind |-> "session_ended", id |-> job[h].sess]
  BY <1>1, NotifyOK DEF EndNotifyRequester, KnowsSession, NoticeKinds
<1>3. /\ pc' \in [Handlers -> Steps] /\ job' \in [Handlers -> Job] /\ Others(h)
  BY GotoOK DEF EndNotifyRequester, Steps, Others, TypeOK
<1>4. JobOK(h)'
  BY <1>1, GotoOK DEF EndNotifyRequester, Steps, JobOK, KnowsSession
<1>5. TypeOK'
  BY <1>2, <1>3 DEF TypeOK, EndNotifyRequester
<1>6. \A n \in notices' : n \in notices \/ NoticeOK(n)'
  BY <1>1, <1>2 DEF NoticeOK, KnowsSession, Participants, EndNotifyRequester
<1>7. told' = told
  BY DEF EndNotifyRequester
<1>8. TablesUnchanged
  BY DEF EndNotifyRequester, TablesUnchanged
<1>9. QED
  <2> HIDE DEF IInv
  <2>1. QED
    BY <1>3, <1>4, <1>5, <1>6, <1>7, <1>8, AssembleStill

LEMMA EndNotifyTargetStep ==
    ASSUME IInv, NEW h \in Handlers, EndNotifyTarget(h)
    PROVE  IInv'
<1> USE DEF IInv
<1>1. /\ KnowsSession(h) /\ job[h].from \in Devices /\ job[h].to \in Devices
       /\ sessions[job[h].sess].status = "ended"
  BY DEF EndNotifyTarget, JobOK, KnowsSession, SessionOK
<1>2. /\ notices' \subseteq Notice
      /\ \A n \in notices' :
            n \in notices \/ n = [to |-> job[h].to, kind |-> "session_ended", id |-> job[h].sess]
  BY <1>1, NotifyOK DEF EndNotifyTarget, KnowsSession, NoticeKinds
<1>3. /\ pc' \in [Handlers -> Steps] /\ job' \in [Handlers -> Job] /\ Others(h)
  BY ReturnOK DEF EndNotifyTarget
<1>4. JobOK(h)'
  BY ReturnOK DEF EndNotifyTarget
<1>5. TypeOK'
  BY <1>2, <1>3 DEF TypeOK, EndNotifyTarget
<1>6. \A n \in notices' : n \in notices \/ NoticeOK(n)'
  BY <1>1, <1>2 DEF NoticeOK, KnowsSession, Participants, EndNotifyTarget
<1>7. told' = told
  BY DEF EndNotifyTarget
<1>8. TablesUnchanged
  BY DEF EndNotifyTarget, TablesUnchanged
<1>9. QED
  <2> HIDE DEF IInv
  <2>1. QED
    BY <1>3, <1>4, <1>5, <1>6, <1>7, <1>8, AssembleStill

LEMMA SignalValidateStep ==
    ASSUME IInv, NEW h \in Handlers, NEW d \in Devices, NEW s \in SessionIds,
           NEW token \in SessionIds,
           SignalValidate(h, d, s, token)
    PROVE  IInv'
<1> DEFINE locals == [NoJob EXCEPT !.device = d, !.sess = s, !.to = Peer(s, d)]
<1>1. /\ sessions[s].status = "active" /\ sessions[s].from \in Devices
      /\ sessions[s].to \in Devices /\ sessions' = sessions /\ Peer(s, d) \in Participants(s)
      /\ Peer(s, d) \in Devices
  BY DEF SignalValidate, Peer, Participants, Validate, IInv, SessionOK, TypeOK
<1>2. locals \in Job /\ locals.sess = s /\ locals.to = Peer(s, d)
  BY <1>1, NoJobType DEF Job
<1>3. /\ pc' \in [Handlers -> Steps] /\ job' \in [Handlers -> Job]
      /\ pc'[h] = "signal_relay" /\ job'[h] = locals /\ Others(h)
  <2> HIDE DEF locals
  <2>1. Begin(h, "signal_relay", locals) /\ "signal_relay" \in Steps
    BY DEF SignalValidate, Steps, locals
  <2>2. QED
    BY <1>2, <2>1, BeginOK DEF IInv
<1>4. TypeOK'
  BY <1>3 DEF IInv, TypeOK, SignalValidate
<1>5. JobOK(h)'
  <2> HIDE DEF locals
  <2>1. QED
    BY <1>1, <1>2, <1>3 DEF JobOK, Participants
<1>6. QED
  BY <1>3, <1>4, <1>5, AssembleStill DEF SignalValidate, TablesUnchanged

LEMMA SignalRelayStep ==
    ASSUME IInv, NEW h \in Handlers, SignalRelay(h)
    PROVE  IInv'
<1> USE DEF IInv
<1>1. /\ job[h].sess \in SessionIds /\ sessions[job[h].sess].status # "absent"
      /\ job[h].to \in Participants(job[h].sess) /\ job[h].to \in Devices
  BY DEF SignalRelay, JobOK, Participants, SessionOK
<1>2. /\ notices' \subseteq Notice
      /\ \A n \in notices' :
            n \in notices \/ n = [to |-> job[h].to, kind |-> "session_signal", id |-> job[h].sess]
  BY <1>1, NotifyOK DEF SignalRelay, NoticeKinds
<1>3. /\ pc' \in [Handlers -> Steps] /\ job' \in [Handlers -> Job] /\ Others(h) /\ JobOK(h)'
  BY ReturnOK DEF SignalRelay
<1>4. TypeOK'
  BY <1>2, <1>3 DEF TypeOK, SignalRelay
<1>5. \A n \in notices' : n \in notices \/ NoticeOK(n)'
  BY <1>1, <1>2 DEF NoticeOK, Participants, SignalRelay
<1>6. QED
  BY <1>3, <1>4, <1>5, AssembleStill DEF SignalRelay, TablesUnchanged

-----------------------------------------------------------------------------
(* The environment                                                         *)

LEMMA CallFailsStep ==
    ASSUME IInv, NEW h \in Handlers, WriteFails(h) \/ NotifyPanics(h)
    PROVE  IInv'
<1>1. TypeOK'
  BY ReturnOK DEF IInv, TypeOK, WriteFails, NotifyPanics
<1>2. QED
  BY <1>1, ReturnOK, AssembleStill DEF IInv, WriteFails, NotifyPanics, TablesUnchanged

\* Time, connections and a restart touch no table; a restart forgets the calls.
LEMMA EnvironmentStep ==
    ASSUME IInv,
           \/ Tick \/ Crash
           \/ \E d \in Devices, status \in Statuses : SetStatus(d, status)
           \/ UNCHANGED vars
    PROVE  IInv'
<1>1. TablesUnchanged /\ notices' = notices /\ told' = told
  BY DEF Tick, Crash, SetStatus, vars, TablesUnchanged
<1>2. TypeOK'
  BY NoJobType, StatusAssumption DEF IInv, TypeOK, Tick, Crash, SetStatus, vars, Steps
<1>3. \A h \in Handlers : (pc'[h] = pc[h] /\ job'[h] = job[h]) \/ pc'[h] = "idle"
  BY DEF Tick, Crash, SetStatus, vars
<1>4. \A h \in Handlers : JobOK(h)'
  <2>1. \A h \in Handlers : pc'[h] = "idle" => JobOK(h)'
    BY DEF JobOK
  <2>2. QED
    BY <1>1, <1>3, <2>1, TablesStill, JobStable
<1>5. \A n \in notices' : NoticeOK(n)'
  BY <1>1, TablesStill, NoticeStable DEF IInv, TypeOK
<1>6. \A u \in Users, s \in SessionIds : <<u, s>> \in told' => ToldOK(u, s)'
  BY <1>1, TablesStill, ToldStable DEF IInv
<1>7. QED
  BY <1>1, <1>2, <1>4, <1>5, <1>6, TablesStill, RowStable DEF IInv

-----------------------------------------------------------------------------
(* The theorems                                                            *)

LEMMA InvInit == Init => IInv
<1> SUFFICES ASSUME Init  PROVE IInv
  OBVIOUS
<1>1. TypeOK
  BY NoJobType, StatusAssumption DEF Init, TypeOK, RequestRow, SessionRow, Steps
<1>2. QED
  BY <1>1 DEF Init, IInv, RequestOK, SessionOK, JobOK, OneEndWins

LEMMA InvCall ==
    ASSUME IInv, NEW h \in Handlers, Call(h)
    PROVE  IInv'
BY RequestCheckStep, RespondReadStep, StartReadStep, EndValidateStep, SignalValidateStep
   DEF Call

LEMMA InvContinue ==
    ASSUME IInv, NEW h \in Handlers, Continue(h)
    PROVE  IInv'
BY RequestInsertStep, RequestNotifyStep, RespondWriteStep, RespondNotifyStep,
   StartInsertStep, StartNotifyRequesterStep, StartNotifyTargetStep,
   EndWriteStep, EndNotifyRequesterStep, EndNotifyTargetStep,
   SignalRelayStep, CallFailsStep
   DEF Continue

LEMMA InvNext == IInv /\ [Next]_vars => IInv'
BY InvCall, InvContinue, ListByUserStep, EnvironmentStep DEF Next

\* The inductive invariant holds in every reachable state.
THEOREM Invariance == Spec => []IInv
BY InvInit, InvNext, PTL DEF Spec

\* Every variable always has its type.
THEOREM TypeCorrect == Spec => []TypeOK
<1>1. IInv => TypeOK
  BY DEF IInv
<1>2. QED
  BY <1>1, Invariance, PTL

\* However the calls interleave, fail or are cut off by a crash, a session that
\* exists stems from a request its target's owner has accepted.
THEOREM SessionsHaveConsent == Spec => []Consent
<1>1. IInv => Consent
  BY DEF IInv, SessionOK, Consent, Consented
<1>2. QED
  BY <1>1, Invariance, PTL

\* Of any number of racing calls of End exactly one succeeds.
THEOREM ExactlyOneEndWins == Spec => []OneEndWins
<1>1. IInv => OneEndWins
  BY DEF IInv
<1>2. QED
  BY <1>1, Invariance, PTL

\* No device is told anything about a session that the tables do not bear out.
THEOREM NoticesTrue == Spec => []NoticesAreTrue
<1>1. IInv => NoticesAreTrue
  BY DEF IInv, NoticeOK, NoticesAreTrue
<1>2. QED
  BY <1>1, Invariance, PTL

\* Tokens stay with the two accounts of their session.
THEOREM TokensConfined == Spec => []TokenConfined
<1>1. ASSUME IInv, NEW u \in Users, NEW s \in SessionIds, Holds(u, s)
      PROVE  \E d \in Participants(s) : d # None /\ BelongsToUser(d, u)
  <2>1. CASE <<u, s>> \in told
    <3>1. PICK d \in Participants(s) : OwnerOf[d] = u /\ sessions[s].status # "absent"
      BY <1>1, <2>1 DEF IInv, ToldOK
    <3>2. d \in Devices
      BY <1>1, <3>1 DEF IInv, SessionOK, Participants
    <3>3. QED
      BY <3>1, <3>2, NoneAssumption DEF BelongsToUser
  <2>2. CASE \E n \in notices : /\ n.kind \in {"session_started", "session_ended"}
                                /\ n.id = s
                                /\ OwnerOf[n.to] = u
    <3>1. PICK n \in notices : /\ n.kind \in {"session_started", "session_ended"}
                               /\ n.id = s
                               /\ OwnerOf[n.to] = u
      BY <2>2
    <3>2. n.to \in Devices /\ n.to \in Participants(s)
      BY <1>1, <3>1 DEF IInv, TypeOK, Notice, NoticeOK
    <3>3. QED
      BY <3>1, <3>2, NoneAssumption DEF BelongsToUser
  <2>3. QED
    BY <1>1, <2>1, <2>2 DEF Holds
<1>2. IInv => TokenConfined
  BY <1>1 DEF TokenConfined
<1>3. QED
  BY <1>2, Invariance, PTL
-----------------------------------------------------------------------------
(* A session that is over stays as it is                                   *)

Final(s) == AtRest(s)' /\ sessions'[s] = sessions[s] /\ SignalsOf(s)' = SignalsOf(s)

\* A step that writes neither the session nor a signal, and after which no
\* further call is using a session, leaves a session at rest as it is.
LEMMA RestKept ==
    ASSUME NEW s \in SessionIds, AtRest(s), TypeOK,
           sessions'[s] = sessions[s], now' = now \/ now' = now + 1,
           \A h \in Handlers : pc'[h] \in {"end_write", "signal_relay"} /\ job'[h].sess = s =>
                pc[h] \in {"end_write", "signal_relay"} /\ job[h].sess = s,
           \A n \in notices' : n \in notices \/ n.kind # "session_signal" \/ n.id # s,
           notices \subseteq notices'
    PROVE  Final(s)
<1>1. Over(s)'
  <2>1. sessions[s].expiry \in Int /\ now \in Nat
    BY DEF TypeOK, SessionRow
  <2>2. QED
    BY <2>1 DEF AtRest, Over
<1>2. ~InUse(s)'
  BY DEF AtRest, InUse
<1>3. SignalsOf(s)' = SignalsOf(s)
  BY DEF SignalsOf
<1>4. QED
  BY <1>1, <1>2, <1>3 DEF Final, AtRest

\* A call that begins on a session has validated it, so the session is not over.
LEMMA RestCall ==
    ASSUME IInv, NEW h \in Handlers, Call(h), NEW s \in SessionIds, AtRest(s)
    PROVE  Final(s)
<1>1. TypeOK
  BY DEF IInv
<1>2. sessions' = sessions /\ now' = now /\ notices' = notices
  BY DEF Call, RequestCheck, RespondRead, StartRead, EndValidate, SignalValidate
<1>3. \A g \in Handlers \ {h} : pc'[g] = pc[g] /\ job'[g] = job[g]
  BY <1>1 DEF Call, RequestCheck, RespondRead, StartRead, EndValidate, SignalValidate,
              Begin, Goto, TypeOK
<1>4. ~(pc'[h] \in {"end_write", "signal_relay"} /\ job'[h].sess = s)
  <2>1. CASE \E u \in Users, from, to \in Devices : RequestCheck(h, u, from, to)
    BY <1>1, <2>1 DEF RequestCheck, Begin, Goto, TypeOK
  <2>2. CASE \E u \in Users, r \in RequestIds, d \in Devices, accept \in BOOLEAN :
                RespondRead(h, u, r, d, accept)
    BY <1>1, <2>2 DEF RespondRead, Begin, Goto, TypeOK
  <2>3. CASE \E u \in Users, r \in RequestIds, d \in Devices : StartRead(h, u, r, d)
    BY <1>1, <2>3 DEF StartRead, Begin, Goto, TypeOK
  <2>4. CASE \E u \in Users, d \in Devices, x, token \in SessionIds : EndValidate(h, u, d, x, token)
    <3>1. PICK u \in Users, d \in Devices, x \in SessionIds, token \in SessionIds :
              EndValidate(h, u, d, x, token)
      BY <2>4
    <3>2. job'[h].sess = x
      BY <1>1, <3>1, NoJobType DEF EndValidate, Begin, TypeOK, Job
    <3>3. ~Over(x)
      BY <3>1 DEF EndValidate, Validate, Over
    <3>4. QED
      BY <3>2, <3>3 DEF AtRest
  <2>5. CASE \E d \in Devices, x, token \in SessionIds : SignalValidate(h, d, x, token)
    <3>1. PICK d \in Devices, x \in SessionIds, token \in SessionIds :
              SignalValidate(h, d, x, token)
      BY <2>5
    <3>2. job'[h].sess = x
      BY <1>1, <3>1, NoJobType DEF SignalValidate, Begin, TypeOK, Job
    <3>3. ~Over(x)
      BY <3>1 DEF SignalValidate, Validate, Over
    <3>4. QED
      BY <3>2, <3>3 DEF AtRest
  <2>6. QED
    BY <2>1, <2>2, <2>3, <2>4, <2>5 DEF Call
<1>5. QED
  BY <1>1, <1>2, <1>3, <1>4, RestKept

\* The call that continues either does not use the session, and then does not
\* write it either, or is one of those that must be done before it is at rest.
LEMMA RestContinue ==
    ASSUME IInv, NEW h \in Handlers, Continue(h), NEW s \in SessionIds, AtRest(s)
    PROVE  Final(s)
<1>1. TypeOK /\ JobOK(h)
  BY DEF IInv
<1>2. ~(pc[h] \in {"end_write", "signal_relay"} /\ job[h].sess = s)
  BY DEF AtRest, InUse
<1>3. sessions[s].status # "absent"
  BY DEF AtRest, Over
<1>4. now' = now
  BY DEF Continue, RequestInsert, RequestNotify, RespondWrite, RespondNotify, StartInsert,
         StartNotifyRequester, StartNotifyTarget, EndWrite, EndNotifyRequester,
         EndNotifyTarget, SignalRelay, WriteFails, NotifyPanics
<1>5. sessions'[s] = sessions[s]
  BY <1>1, <1>2, <1>3 DEF Continue, RequestInsert, RequestNotify, RespondWrite, RespondNotify,
         StartInsert, StartNotifyRequester, StartNotifyTarget, EndWrite, EndNotifyRequester,
         EndNotifyTarget, SignalRelay, WriteFails, NotifyPanics, TypeOK, JobOK, KnowsSession
<1>6. \A g \in Handlers : pc'[g] \in {"end_write", "signal_relay"} =>
          pc[g] = pc'[g] /\ job[g] = job'[g]
  BY <1>1 DEF Continue, RequestInsert, RequestNotify, RespondWrite, RespondNotify,
         StartInsert, StartNotifyRequester, StartNotifyTarget, EndWrite, EndNotifyRequester,
         EndNotifyTarget, SignalRelay, WriteFails, NotifyPanics, TypeOK, Goto, Return
<1>7. /\ notices \subseteq notices'
      /\ \A n \in notices' : n \in notices \/ n.kind # "session_signal" \/ n.id # s
  BY <1>1, <1>2 DEF Continue, RequestInsert, RequestNotify, RespondWrite, RespondNotify,
         StartInsert, StartNotifyRequester, StartNotifyTarget, EndWrite, EndNotifyRequester,
         EndNotifyTarget, SignalRelay, WriteFails, NotifyPanics, NotifyDevice
<1>8. QED
  BY <1>1, <1>4, <1>5, <1>6, <1>7, RestKept

LEMMA RestOther ==
    ASSUME IInv, NEW s \in SessionIds, AtRest(s),
           \/ \E u \in Users : ListByUser(u)
           \/ \E d \in Devices, status \in Statuses : SetStatus(d, status)
           \/ Tick \/ Crash \/ UNCHANGED vars
    PROVE  Final(s)
<1>1. TypeOK
  BY DEF IInv
<1>2. /\ sessions' = sessions /\ (now' = now \/ now' = now + 1) /\ notices' = notices
      /\ \A h \in Handlers : (pc'[h] = pc[h] /\ job'[h] = job[h]) \/ pc'[h] = "idle"
  BY DEF ListByUser, SetStatus, Tick, Crash, vars
<1>3. QED
  BY <1>1, <1>2, RestKept

\* Once over and at rest, a session takes no further signal and no further End.
THEOREM OverStaysFinal == Spec => OverIsFinal
<1>1. ASSUME IInv, [Next]_vars, NEW s \in SessionIds, AtRest(s)
      PROVE  Final(s)
  BY <1>1, RestCall, RestContinue, RestOther DEF Next
<1>2. IInv /\ [Next]_vars =>
        [\A s \in SessionIds : AtRest(s) =>
            AtRest(s)' /\ sessions'[s] = sessions[s] /\ SignalsOf(s)' = SignalsOf(s)]_vars
  BY <1>1 DEF Final
<1>3. QED
  BY <1>2, Invariance, PTL DEF Spec, OverIsFinal
-----------------------------------------------------------------------------
(* The tables implement the abstract life cycle                            *)

LEMMA RacingInit == Init => Racing!Init
BY DEF Init, Racing!Init, Racing!Unused, Rows, Granted

LEMMA RacingAsk ==
    ASSUME IInv, NEW h \in Handlers, RequestInsert(h)
    PROVE  \E r \in RequestIds, from, to \in Devices : Racing!Ask(r, from, to)
<1> USE DEF IInv
<1>1. PICK r \in RequestIds :
        /\ requests[r].status = "absent"
        /\ requests' = [requests EXCEPT ![r] =
              [status |-> "pending", from |-> job[h].from, to |-> job[h].to]]
  BY DEF RequestInsert
<1>2. job[h].from \in Devices /\ job[h].to \in Devices /\ job[h].from # job[h].to
  BY DEF JobOK, RequestInsert
<1>3. requests[r] = Racing!Unused
  <2>1. requests[r] \in RequestRow /\ requests[r].from = None /\ requests[r].to = None
    BY <1>1 DEF TypeOK, RequestOK
  <2>2. QED
    BY <1>1, <2>1 DEF RequestRow, Racing!Unused
<1>4. UNCHANGED <<Rows, Granted>>
  BY DEF RequestInsert, Rows, Granted
<1>5. Racing!Ask(r, job[h].from, job[h].to)
  BY <1>1, <1>2, <1>3, <1>4 DEF Racing!Ask
<1>6. QED
  BY <1>2, <1>5

LEMMA RacingAnswer ==
    ASSUME IInv, NEW h \in Handlers, RespondWrite(h)
    PROVE  job[h].req \in RequestIds /\ (Racing!Grant(job[h].req) \/ Racing!Refuse(job[h].req))
<1> USE DEF IInv
<1>1. PICK r \in RequestIds : r = job[h].req /\ requests[r].status # "absent"
  BY DEF RespondWrite, JobOK, KnowsRequest
<1>2. requests[r].status \in {"pending", "accepted", "rejected"}
  BY <1>1 DEF TypeOK, RequestRow
<1>3. UNCHANGED Rows
  BY DEF RespondWrite, Rows
<1> DEFINE given == [req |-> r, user |-> job[h].user, accept |-> job[h].accept]
<1>a. answers' = answers \cup {given}
  BY <1>1 DEF RespondWrite
<1>b. given.req = r /\ given.accept = job[h].accept
  OBVIOUS
<1>4. CASE job[h].accept
  <2>1. Granted' = Granted \cup {r}
    <3> HIDE DEF given
    <3>1. QED
      BY <1>a, <1>b, <1>4 DEF Granted
  <2>2. requests' = [requests EXCEPT ![r].status = "accepted"]
    BY <1>1, <1>4 DEF RespondWrite, Answer
  <2>3. QED
    BY <1>1, <1>2, <1>3, <2>1, <2>2 DEF Racing!Grant
<1>5. CASE ~job[h].accept
  <2>1. Granted' = Granted
    BY <1>1, <1>5 DEF RespondWrite, Granted
  <2>2. requests' = [requests EXCEPT ![r].status = "rejected"]
    BY <1>1, <1>5 DEF RespondWrite, Answer
  <2>3. QED
    BY <1>1, <1>2, <1>3, <2>1, <2>2 DEF Racing!Refuse
<1>6. QED
  BY <1>4, <1>5

LEMMA RacingOpen ==
    ASSUME IInv, NEW h \in Handlers, StartInsert(h)
    PROVE  job[h].req \in RequestIds /\ \E s \in SessionIds : Racing!Open(s, job[h].req)
<1> USE DEF IInv
<1>1. PICK s \in SessionIds, t \in job[h].at .. now :
        /\ sessions[s].status = "absent"
        /\ sessions' = [sessions EXCEPT ![s] =
              [status |-> "active", from |-> job[h].from, to |-> job[h].to,
               expiry |-> t + TTL, origin |-> job[h].req]]
  BY DEF StartInsert
<1>2. PICK r \in RequestIds : /\ r = job[h].req /\ Consented(r)
                              /\ job[h].from = requests[r].from
                              /\ job[h].to = requests[r].to
  BY DEF StartInsert, JobOK, KnowsRequest
<1>3. r \in Granted
  BY <1>2 DEF Consented, Granted
<1>4. Rows[s] = Racing!Unused
  BY <1>1 DEF SessionOK, Rows, Racing!Unused
<1>5. Rows' = [Rows EXCEPT ![s] =
          [status |-> "active", from |-> requests[r].from, to |-> requests[r].to]]
  BY <1>1, <1>2 DEF Rows, TypeOK
<1>6. UNCHANGED <<requests, Granted>>
  BY DEF StartInsert, Granted
<1>7. Racing!Open(s, r)
  BY <1>3, <1>4, <1>5, <1>6 DEF Racing!Open
<1>8. QED
  BY <1>2, <1>7

LEMMA RacingClose ==
    ASSUME IInv, NEW h \in Handlers, EndWrite(h)
    PROVE  (\E s \in SessionIds : Racing!Close(s)) \/ UNCHANGED Racing!vars
<1> USE DEF IInv
<1>1. UNCHANGED <<requests, Granted>>
  BY DEF EndWrite, Granted
<1>2. CASE sessions[job[h].sess].status # "active"
  BY <1>1, <1>2 DEF EndWrite, Rows, Racing!vars
<1>3. CASE sessions[job[h].sess].status = "active"
  <2>1. PICK s \in SessionIds : s = job[h].sess
    BY DEF EndWrite, JobOK, KnowsSession
  <2>2. sessions' = [sessions EXCEPT ![s].status = "ended"]
    BY <1>3, <2>1 DEF EndWrite
  <2>3. Rows' = [Rows EXCEPT ![s].status = "ended"] /\ Rows[s].status = "active"
    BY <1>3, <2>1, <2>2 DEF Rows, TypeOK, SessionRow
  <2>4. Racing!Close(s)
    BY <1>1, <2>3 DEF Racing!Close
  <2>5. QED
    BY <2>4
<1>4. QED
  BY <1>2, <1>3

\* Every other step leaves requests, sessions and answers alone.
LEMMA RacingStutter ==
    ASSUME UNCHANGED <<requests, sessions, answers>>
    PROVE  UNCHANGED Racing!vars
BY DEF Racing!vars, Rows, Granted

\* The steps that write what the life cycle is about.
LEMMA Writes ==
    ASSUME [Next]_vars
    PROVE  \/ \E h \in Handlers : RequestInsert(h) \/ RespondWrite(h) \/ StartInsert(h) \/ EndWrite(h)
           \/ UNCHANGED <<requests, sessions, answers>>
<1>1. ASSUME NEW h \in Handlers, Call(h)  PROVE UNCHANGED <<requests, sessions, answers>>
  BY <1>1 DEF Call, RequestCheck, RespondRead, StartRead, EndValidate, SignalValidate
<1>2. ASSUME NEW h \in Handlers, Continue(h)
      PROVE  \/ RequestInsert(h) \/ RespondWrite(h) \/ StartInsert(h) \/ EndWrite(h)
             \/ UNCHANGED <<requests, sessions, answers>>
  BY <1>2 DEF Continue, RequestNotify, RespondNotify, StartNotifyRequester,
     StartNotifyTarget, EndNotifyRequester, EndNotifyTarget, SignalRelay, WriteFails, NotifyPanics
<1>3. ASSUME \/ \E u \in Users : ListByUser(u)
             \/ \E d \in Devices, status \in Statuses : SetStatus(d, status)
             \/ Tick \/ Crash
      PROVE  UNCHANGED <<requests, sessions, answers>>
  BY <1>3 DEF ListByUser, SetStatus, Tick, Crash
<1>4. UNCHANGED vars => UNCHANGED <<requests, sessions, answers>>
  BY DEF vars
<1>5. QED
  BY <1>1, <1>2, <1>3, <1>4 DEF Next

\* The service implements the weak life cycle, whatever calls race.
THEOREM LifecycleImplemented == Spec => ImplementsLifecycle
<1>1. IInv /\ [Next]_vars => [Racing!Next]_(Racing!vars)
  <2>1. ASSUME IInv, NEW h \in Handlers, RespondWrite(h) \/ StartInsert(h)  PROVE Racing!Next
    BY <2>1, RacingAnswer, RacingOpen DEF Racing!Next
  <2>2. ASSUME IInv, NEW h \in Handlers, RequestInsert(h) \/ EndWrite(h)
        PROVE  Racing!Next \/ UNCHANGED Racing!vars
    BY <2>2, RacingAsk, RacingClose DEF Racing!Next
  <2>3. QED
    BY <2>1, <2>2, Writes, RacingStutter
<1>2. QED
  BY RacingInit, <1>1, Invariance, PTL DEF Spec, ImplementsLifecycle, Racing!Spec

-----------------------------------------------------------------------------
(* The strong life cycle.  It is lost only when two answers to one request *)
(* overlap, so that one of them is written over the other.                 *)

\* No two calls are about to write an answer to the same request.
AnswersApart ==
    \A g, h \in Handlers :
        pc[g] = "respond_write" /\ pc[h] = "respond_write" /\ job[g].req = job[h].req => g = h

\* What a call has read of its request is still so when it writes.
UpToDate ==
    \A h \in Handlers :
        /\ pc[h] = "respond_write" => requests[job[h].req].status = "pending"
        /\ pc[h] = "start_insert" => requests[job[h].req].status = "accepted"

\* A step that leaves the requests alone, and whose calls either stay where they
\* are or have just read what they know.
LEMMA UpToDateStill ==
    ASSUME UpToDate, UNCHANGED requests,
           \A h \in Handlers :
               \/ pc'[h] = pc[h] /\ job'[h] = job[h]
               \/ pc'[h] \notin {"respond_write", "start_insert"}
               \/ pc'[h] = "respond_write" /\ requests[job'[h].req].status = "pending"
               \/ pc'[h] = "start_insert" /\ requests[job'[h].req].status = "accepted"
    PROVE  UpToDate'
  BY DEF UpToDate

LEMMA UpToDateCall == ASSUME IInv, UpToDate, NEW h \in Handlers, Call(h) PROVE UpToDate'
<1>1. pc \in [Handlers -> Steps] /\ job \in [Handlers -> Job]
  BY DEF IInv, TypeOK
<1>2. CASE \E u \in Users, from, to \in Devices : RequestCheck(h, u, from, to)
  BY <1>1, <1>2, UpToDateStill DEF RequestCheck, Begin, Goto
<1>3. CASE \E u \in Users, r \in RequestIds, d \in Devices, accept \in BOOLEAN :
              RespondRead(h, u, r, d, accept)
  BY <1>1, <1>3, UpToDateStill DEF RespondRead, MayRespond, Begin, Goto, NoJob
<1>4. CASE \E u \in Users, r \in RequestIds, d \in Devices : StartRead(h, u, r, d)
  BY <1>1, <1>4, UpToDateStill DEF StartRead, MayStart, Begin, Goto, NoJob
<1>5. CASE \E u \in Users, d \in Devices, s, token \in SessionIds :
              Holds(u, token) /\ EndValidate(h, u, d, s, token)
  BY <1>1, <1>5, UpToDateStill DEF EndValidate, Begin, Goto
<1>6. CASE \E d \in Devices, s, token \in SessionIds :
              Holds(OwnerOf[d], token) /\ SignalValidate(h, d, s, token)
  BY <1>1, <1>6, UpToDateStill DEF SignalValidate, Begin, Goto
<1>7. QED
  BY <1>2, <1>3, <1>4, <1>5, <1>6 DEF Call

LEMMA UpToDateContinue ==
    ASSUME IInv, UpToDate, AnswersApart, NEW h \in Handlers, Continue(h)
    PROVE  UpToDate'
<1>1. pc \in [Handlers -> Steps] /\ job \in [Handlers -> Job] /\ requests \in [RequestIds -> RequestRow]
  BY DEF IInv, TypeOK
<1>2. CASE RequestInsert(h)
  <2>1. PICK r \in RequestIds :
           /\ requests[r].status = "absent"
           /\ requests' = [requests EXCEPT ![r] =
                 [status |-> "pending", from |-> job[h].from, to |-> job[h].to]]
           /\ job' = [job EXCEPT ![h].req = r]
    BY <1>2 DEF RequestInsert
  <2>2. pc' = [pc EXCEPT ![h] = "request_notify"]
    BY <1>2 DEF RequestInsert, Goto
  <2>3. \A g \in Handlers : g # h => pc'[g] = pc[g] /\ job'[g] = job[g]
    BY <1>1, <2>1, <2>2
  <2>4. \A q \in RequestIds : requests[q].status # "absent" => requests'[q] = requests[q]
    BY <1>1, <2>1
  <2>5. \A g \in Handlers : pc[g] \in {"respond_write", "start_insert"} => job[g].req \in RequestIds
    BY DEF IInv, JobOK, KnowsRequest
  <2>6. QED
    BY <1>1, <2>2, <2>3, <2>4, <2>5 DEF UpToDate
<1>3. CASE RespondWrite(h)
  <2>1. /\ requests' = [requests EXCEPT ![job[h].req].status = Answer(h)]
        /\ job' = job /\ pc' = [pc EXCEPT ![h] = "respond_notify"]
    BY <1>3 DEF RespondWrite, Goto
  <2>2. \A g \in Handlers : pc[g] \in {"respond_write", "start_insert"} => job[g].req \in RequestIds
    BY DEF IInv, JobOK, KnowsRequest
  <2>3. ASSUME NEW g \in Handlers, g # h, pc[g] \in {"respond_write", "start_insert"}
        PROVE  job[g].req # job[h].req
    BY <1>3, <2>3 DEF RespondWrite, AnswersApart, UpToDate
  <2>4. ASSUME NEW g \in Handlers, g # h, pc[g] \in {"respond_write", "start_insert"}
        PROVE  requests'[job[g].req].status = requests[job[g].req].status
    BY <1>1, <2>1, <2>2, <2>3, <2>4
  <2>5. QED
    BY <1>1, <2>1, <2>4 DEF UpToDate
<1>4. CASE StartInsert(h) \/ StartNotifyRequester(h) \/ StartNotifyTarget(h)
  BY <1>1, <1>4, UpToDateStill DEF StartInsert, StartNotifyRequester, StartNotifyTarget, Goto, Return
<1>5. CASE EndWrite(h) \/ EndNotifyRequester(h) \/ EndNotifyTarget(h)
  BY <1>1, <1>5, UpToDateStill DEF EndWrite, EndNotifyRequester, EndNotifyTarget, Goto, Return
<1>6. CASE RequestNotify(h) \/ RespondNotify(h) \/ SignalRelay(h) \/ WriteFails(h) \/ NotifyPanics(h)
  BY <1>1, <1>6, UpToDateStill
  DEF RequestNotify, RespondNotify, SignalRelay, WriteFails, NotifyPanics, Goto, Return
<1>7. QED
  BY <1>2, <1>3, <1>4, <1>5, <1>6 DEF Continue

LEMMA UpToDateNext == IInv /\ UpToDate /\ AnswersApart /\ [Next]_vars => UpToDate'
<1> SUFFICES ASSUME IInv, UpToDate, AnswersApart, [Next]_vars PROVE UpToDate'
  OBVIOUS
<1>1. CASE \E h \in Handlers : Call(h) \/ Continue(h)
  BY <1>1, UpToDateCall, UpToDateContinue
<1>2. CASE \E u \in Users : ListByUser(u)
  BY <1>2, UpToDateStill DEF ListByUser
<1>3. CASE \E d \in Devices, status \in Statuses : SetStatus(d, status)
  BY <1>3, UpToDateStill DEF SetStatus
<1>4. CASE Tick
  BY <1>4, UpToDateStill DEF Tick
<1>5. CASE Crash
  BY <1>5, UpToDateStill DEF Crash
<1>6. CASE UNCHANGED vars
  BY <1>6, UpToDateStill DEF vars
<1>7. QED
  BY <1>1, <1>2, <1>3, <1>4, <1>5, <1>6 DEF Next

\* What a write does is an action of the weak life cycle, and what the call still
\* knows makes it one of the strong life cycle.
LEMMA SerialNext == IInv /\ UpToDate /\ [Next]_vars => [Serial!Next]_(Serial!vars)
<1> SUFFICES ASSUME IInv, UpToDate, [Next]_vars PROVE [Serial!Next]_(Serial!vars)
  OBVIOUS
<1>1. ASSUME NEW h \in Handlers, RequestInsert(h) PROVE Serial!Next
  <2>1. \E r \in RequestIds, from, to \in Devices : Racing!Ask(r, from, to)
    BY <1>1, RacingAsk
  <2>2. QED
    BY <2>1 DEF Racing!Ask, Racing!Unused, Serial!Ask, Serial!Unused, Serial!Next
<1>2. ASSUME NEW h \in Handlers, RespondWrite(h) PROVE Serial!Next
  <2>1. requests[job[h].req].status = "pending"
    BY <1>2 DEF UpToDate, RespondWrite
  <2>2. QED
    BY <1>2, <2>1, RacingAnswer
    DEF Racing!Grant, Racing!Refuse, Serial!Grant, Serial!Refuse, Serial!Next
<1>3. ASSUME NEW h \in Handlers, StartInsert(h) PROVE Serial!Next
  <2>1. requests[job[h].req].status = "accepted"
    BY <1>3 DEF UpToDate, StartInsert
  <2>2. QED
    BY <1>3, <2>1, RacingOpen
    DEF Racing!Open, Racing!Unused, Serial!Open, Serial!Unused, Serial!Next
<1>4. ASSUME NEW h \in Handlers, EndWrite(h) PROVE Serial!Next \/ UNCHANGED Serial!vars
  <2>1. (\E s \in SessionIds : Racing!Close(s)) \/ UNCHANGED Racing!vars
    BY <1>4, RacingClose
  <2>2. QED
    BY <2>1 DEF Racing!Close, Racing!vars, Serial!Close, Serial!vars, Serial!Next
<1>5. ASSUME UNCHANGED <<requests, sessions, answers>> PROVE UNCHANGED Serial!vars
  BY <1>5 DEF Serial!vars, Rows, Granted
<1>6. QED
  BY <1>1, <1>2, <1>3, <1>4, <1>5, Writes

LEMMA SerialInit == Init => Serial!Init /\ UpToDate
  BY DEF Init, Serial!Init, Serial!Unused, Rows, Granted, UpToDate

\* As long as no two answers to one request overlap, the service implements the
\* strong life cycle: an answer is final, and only a request that is accepted at
\* that moment is opened.
THEOREM StrongLifecycleImplemented == Spec /\ []AnswersApart => SerialImplementsLifecycle
  BY SerialInit, UpToDateNext, SerialNext, Invariance, PTL
  DEF Spec, SerialImplementsLifecycle, Serial!Spec

\* In particular when there is one call at a time.
COROLLARY SerialLifecycleImplemented ==
    ASSUME \A g, h \in Handlers : g = h
    PROVE  Spec => SerialImplementsLifecycle
<1>1. AnswersApart
  BY DEF AnswersApart
<1>2. QED
  BY <1>1, StrongLifecycleImplemented, PTL

\* And as long as they do not overlap, no answer replaces another: AnswerIsFinal,
\* which SessionAnswerRace refutes, fails for no other reason.
THEOREM OverlapsReplaceAnswers == Spec /\ []AnswersApart => AnswerIsFinal
<1>1. IInv /\ UpToDate /\ [Next]_vars =>
        [\A r \in RequestIds : requests[r].status \in {"accepted", "rejected"} =>
              requests'[r].status = requests[r].status]_vars
  <2> SUFFICES ASSUME IInv, UpToDate, [Next]_vars,
                      NEW r \in RequestIds, requests[r].status \in {"accepted", "rejected"}
               PROVE  requests'[r].status = requests[r].status
    OBVIOUS
  <2>1. requests \in [RequestIds -> RequestRow]
    BY DEF IInv, TypeOK
  <2>2. CASE \E h \in Handlers : RequestInsert(h)
    BY <2>1, <2>2 DEF RequestInsert
  <2>3. CASE \E h \in Handlers : RespondWrite(h)
    BY <2>1, <2>3 DEF RespondWrite, UpToDate
  <2>4. CASE \E h \in Handlers : StartInsert(h) \/ EndWrite(h)
    BY <2>4 DEF StartInsert, EndWrite
  <2>5. QED
    BY <2>2, <2>3, <2>4, Writes
<1>2. QED
  BY <1>1, SerialInit, UpToDateNext, Invariance, PTL DEF Spec, AnswerIsFinal
=============================================================================
