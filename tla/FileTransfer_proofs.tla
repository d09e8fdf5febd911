------------------------- MODULE FileTransfer_proofs -------------------------
(***************************************************************************)
(* Proofs about FileTransfer, for all sets of accounts, devices, sessions  *)
(* and uploads and any number of attempts.  The invariant says of every    *)
(* attempt what its call has established before the step it is at; the     *)
(* attempts the client has not come to have no call, so that a new attempt *)
(* meets neither a file nor a row.                                         *)
(***************************************************************************)
EXTENDS FileTransfer, TLAPS

\* What a call has checked once it writes.
SentOK(t) ==
    /\ call[t].inTime
    /\ call[t].device = From[t[1]]
    /\ {call[t].device, To[t[1]]} = Ends[Via[t[1]]]
    /\ client[t[1]].size <= MaxFile

TransferOK(t) ==
    /\ t[2] > client[t[1]].attempt => call[t].step = "none"
    /\ call[t].step = "received" /\ Via[t[1]] \in open => call[t].inTime
    /\ call[t].step \in {"checked", "created", "copied"} => SentOK(t)
    /\ call[t].step = "copied" => disk[t] = "whole"
    /\ call[t].step \in {"inserted", "notified"} => row[t] # "absent"
    /\ call[t].step \notin {"inserted", "notified", "gone"} => row[t] = "absent"
    /\ row[t] # "absent" => SentOK(t) /\ disk[t] = "whole"
    /\ t \in notices \/ inbox[t].step # "empty" => row[t] # "absent"

ClientOK(u) ==
    /\ client[u].step = "idle" => client[u].attempt = 0
    /\ client[u].step # "idle" => client[u].attempt \in 1 .. Attempts
    /\ client[u].step = "pausing" => client[u].attempt < Attempts
    /\ client[u].step = "ok" => row[Current(u)] # "absent"

ReaderOK ==
    reader.step # "idle" => MayDownload(reader.user, reader.transfer)

IInv == /\ TypeOK
        /\ \A t \in Transfers : TransferOK(t)
        /\ \A u \in Uploads : ClientOK(u)
        /\ ReaderOK

\* The invariant contains the safety properties.
LEMMA Consequences == IInv => RowHasFile /\ SuccessIsStored /\ SentInSession /\ ServedToEnds
<1>1. SUFFICES ASSUME IInv PROVE RowHasFile /\ SuccessIsStored /\ SentInSession /\ ServedToEnds
  OBVIOUS
<1>2. RowHasFile /\ SentInSession
  BY <1>1 DEF IInv, TransferOK, SentOK, RowHasFile, SentInSession
<1>3. SuccessIsStored
  BY <1>1 DEF IInv, ClientOK, SuccessIsStored
<1>4. ASSUME reader.step = "sending"
      PROVE  /\ disk[reader.transfer] = "whole"
             /\ \E d \in Ends[Via[reader.transfer[1]]] : OwnerOf[d] = reader.user
  <2>1. reader.transfer \in Transfers /\ MayDownload(reader.user, reader.transfer)
    BY <1>1, <1>4 DEF IInv, TypeOK, ReaderOK, NoReader
  <2>2. disk[reader.transfer] = "whole" /\ SentOK(reader.transfer)
    BY <1>1, <2>1 DEF IInv, TransferOK, MayDownload
  <2>3. QED
    BY <2>1, <2>2 DEF SentOK, MayDownload
<1>5. QED
  BY <1>1, <1>2, <1>3, <1>4 DEF IInv, TransferOK, ServedToEnds

LEMMA InitOK == Init => IInv
  BY DeviceAssumption, SizeAssumption, AttemptsAssumption
  DEF Init, IInv, TypeOK, TransferOK, ClientOK, ReaderOK, Transfers, NoReader, Steps, Waiting,
      Upload, Call

\* A step that changes only the client of an upload, and not its attempt.
LEMMA ClientStep ==
    ASSUME IInv, NEW u \in Uploads, NEW c \in Upload,
           client' = [client EXCEPT ![u] = c],
           client[u].step = "sending",
           c.attempt = client[u].attempt, c.size = client[u].size,
           c.step # "idle",
           c.step = "pausing" => c.attempt < Attempts,
           c.step = "ok" => row[Current(u)] # "absent",
           UNCHANGED <<open, call, disk, row, notices, inbox, reader>>
    PROVE  IInv'
<1>1. TypeOK'
  BY DEF IInv, TypeOK
<1>2. \A v \in Uploads : /\ client'[v].attempt = client[v].attempt
                          /\ client'[v].size = client[v].size
                          /\ (v # u => client'[v] = client[v])
                          /\ (v = u => client'[v] = c)
  BY DEF IInv, TypeOK
<1>3. ASSUME NEW t \in Transfers PROVE TransferOK(t)'
  <2>1. TransferOK(t) /\ t[1] \in Uploads
    BY DEF IInv, Transfers
  <2>2. QED
    BY <1>2, <2>1 DEF TransferOK, SentOK
<1>4. ASSUME NEW v \in Uploads PROVE ClientOK(v)'
  <2>1. ClientOK(v) /\ ClientOK(u) /\ Current(v)' = Current(v)
    BY <1>2 DEF IInv, Current
  <2>2. QED
    BY <1>2, <2>1 DEF ClientOK
<1>5. ReaderOK'
  BY DEF IInv, ReaderOK, MayDownload
<1>6. QED
  BY <1>1, <1>3, <1>4, <1>5 DEF IInv

\* A step that changes only what belongs to one transfer, and keeps its row.
LEMMA TransferStep ==
    ASSUME IInv, TypeOK', NEW t \in Transfers,
           \A x \in Transfers \ {t} :
               /\ call'[x] = call[x] /\ disk'[x] = disk[x] /\ row'[x] = row[x]
               /\ (x \in notices)' => x \in notices
               /\ inbox'[x] = inbox[x],
           row[t] # "absent" => row'[t] # "absent",
           TransferOK(t)',
           UNCHANGED <<open, client>>,
           UNCHANGED reader \/ ReaderOK'
    PROVE  IInv'
<1>1. ASSUME NEW x \in Transfers, row[x] # "absent" PROVE row'[x] # "absent"
  BY <1>1
<1>2. ASSUME NEW x \in Transfers PROVE TransferOK(x)'
  <2>1. CASE x = t
    BY <2>1
  <2>2. CASE x # t
    <3>1. TransferOK(x)
      BY DEF IInv
    <3>2. x \in Transfers \ {t}
      BY <2>2
    <3>3. QED
      BY <3>1, <3>2 DEF TransferOK, SentOK
  <2>3. QED
    BY <2>1, <2>2
<1>3. ASSUME NEW v \in Uploads PROVE ClientOK(v)'
  <2>1. ClientOK(v) /\ Current(v)' = Current(v)
    BY DEF IInv, Current
  <2>2. client[v].step # "idle" => Current(v) \in Transfers
    BY <2>1 DEF ClientOK, Current, Transfers
  <2>3. QED
    BY <1>1, <2>1, <2>2 DEF ClientOK
<1>4. ReaderOK'
  BY <1>1 DEF IInv, TypeOK, ReaderOK, MayDownload, NoReader
<1>5. QED
  BY <1>2, <1>3, <1>4 DEF IInv

\* The steps of an uploading client.
LEMMA UploadingOK == ASSUME IInv, NEW u \in Uploads, Uploading(u) PROVE IInv'
<1> USE AttemptsAssumption
<1>0. client[u] \in Upload /\ ClientOK(u)
  BY DEF IInv, TypeOK
<1>1. CASE Send(u)
  <2> DEFINE n == client[u].attempt + 1
  <2>1. n \in 1 .. Attempts /\ <<u, n>> \in Transfers
    BY <1>0, <1>1 DEF Send, ClientOK, Transfers, Upload
  <2>2. TypeOK'
    BY <1>1, <2>1 DEF Send, IInv, TypeOK, Upload, Waiting, Call, Steps
  <2>3. ASSUME NEW t \in Transfers PROVE TransferOK(t)'
    <3>1. TransferOK(t) /\ t[1] \in Uploads /\ t[2] \in 1 .. Attempts
      BY DEF IInv, Transfers
    <3>2. CASE t = <<u, n>>
      BY <1>1, <2>1, <3>1, <3>2 DEF Send, TransferOK, SentOK, IInv, TypeOK, Upload
    <3>3. CASE t # <<u, n>>
      <4>1. call'[t] = call[t]
        BY <1>1, <3>3 DEF Send, IInv, TypeOK
      <4>2. client'[t[1]].size = client[t[1]].size /\ client'[t[1]].attempt >= client[t[1]].attempt
        BY <1>1, <2>1, <3>1 DEF Send, IInv, TypeOK, Upload
      <4>3. client[t[1]].attempt \in Nat /\ client'[t[1]].attempt \in Nat
        BY <2>2, <3>1 DEF IInv, TypeOK, Upload
      <4>4. QED
        BY <1>1, <3>1, <4>1, <4>2, <4>3 DEF Send, TransferOK, SentOK
    <3>4. QED
      BY <3>2, <3>3
  <2>4. ASSUME NEW v \in Uploads PROVE ClientOK(v)'
    BY <1>1, <2>1 DEF Send, IInv, TypeOK, ClientOK, Current, Upload
  <2>5. ReaderOK'
    BY <1>1 DEF Send, IInv, ReaderOK, MayDownload
  <2>6. QED
    BY <2>2, <2>3, <2>4, <2>5 DEF IInv
<1>2. CASE UploadAnswered(u)
  <2>1. ASSUME client[u].step = "sending", call[Current(u)].step = "notified"
        PROVE  row[Current(u)] # "absent"
    <3>1. Current(u) \in Transfers
      BY <1>0, <2>1 DEF ClientOK, Current, Transfers
    <3>2. QED
      BY <2>1, <3>1 DEF IInv, TransferOK
  <2> DEFINE c(s) == [client[u] EXCEPT !.step = s]
  <2>2. \A s \in {"ok", "failed"} : c(s) \in Upload /\ c(s).step = s
                                 /\ c(s).attempt = client[u].attempt /\ c(s).size = client[u].size
    BY <1>0 DEF Upload
  <2>3. CASE client' = [client EXCEPT ![u] = c("ok")] /\ call[Current(u)].step = "notified"
    BY <1>2, <2>1, <2>2, <2>3, ClientStep DEF UploadAnswered
  <2>4. CASE client' = [client EXCEPT ![u] = c("failed")]
    BY <1>2, <2>2, <2>4, ClientStep DEF UploadAnswered
  <2>5. QED
    BY <1>2, <2>3, <2>4 DEF UploadAnswered
<1>3. CASE UploadLost(u)
  <2> DEFINE c == [client[u] EXCEPT !.step = NextAttempt(u)]
  <2>1. /\ c \in Upload /\ c.step \in {"failed", "pausing"} /\ c.attempt = client[u].attempt
        /\ c.size = client[u].size /\ (c.step = "pausing" => c.attempt < Attempts)
    BY <1>0, <1>3 DEF UploadLost, ClientOK, Upload, Waiting, NextAttempt
  <2>2. client' = [client EXCEPT ![u] = c]
    BY <1>3 DEF UploadLost
  <2>3. QED
    BY <1>3, <2>1, <2>2, ClientStep DEF UploadLost
<1>4. CASE UploadUnauthorized(u)
  <2> DEFINE c(d) == [client[u] EXCEPT !.step = NextAttempt(u), !.device = d, !.recovered = TRUE]
             f == [client[u] EXCEPT !.step = "failed"]
  <2>1. CASE \E d \in {client[u].device, Renewed[u]} : client' = [client EXCEPT ![u] = c(d)]
    <3>1. PICK d \in {client[u].device, Renewed[u]} : client' = [client EXCEPT ![u] = c(d)]
      BY <2>1
    <3>2. /\ c(d) \in Upload /\ c(d).step \in {"failed", "pausing"}
          /\ c(d).attempt = client[u].attempt /\ c(d).size = client[u].size
          /\ (c(d).step = "pausing" => c(d).attempt < Attempts)
      <4>1. Renewed \in [Uploads -> Devices]
        BY DeviceAssumption
      <4>2. d \in Devices
        BY <1>0, <4>1 DEF Upload
      <4>3. /\ NextAttempt(u) \in {"failed", "pausing"}
            /\ (NextAttempt(u) = "pausing" => client[u].attempt < Attempts)
        BY <1>0, <1>4 DEF UploadUnauthorized, ClientOK, Upload, NextAttempt
      <4>4. QED
        BY <1>0, <4>2, <4>3 DEF Upload, Waiting
    <3>3. QED
      BY <1>4, <3>1, <3>2, ClientStep DEF UploadUnauthorized
  <2>2. CASE client' = [client EXCEPT ![u] = f]
    <3>1. /\ f \in Upload /\ f.step = "failed"
          /\ f.attempt = client[u].attempt /\ f.size = client[u].size
      BY <1>0 DEF Upload
    <3>2. QED
      BY <1>4, <2>2, <3>1, ClientStep DEF UploadUnauthorized
  <2>3. QED
    BY <1>4, <2>1, <2>2 DEF UploadUnauthorized
<1>5. QED
  BY <1>1, <1>2, <1>3, <1>4 DEF Uploading

LEMMA ToStepType ==
    ASSUME call \in [Transfers -> Call], NEW t \in Transfers, NEW s \in Steps, ToStep(t, s)
    PROVE  call' \in [Transfers -> Call]
  BY DEF ToStep, Call

\* The steps of a call of Upload.
LEMMA ServingOK == ASSUME IInv, NEW t \in Transfers, Serving(t) PROVE IInv'
<1>0. TransferOK(t) /\ call[t] \in Call /\ t[1] \in Uploads
  BY DEF IInv, TypeOK, Transfers
<1> USE DEF ToStep, Call, Steps
<1>1. CASE Unauthorized(t)
  <2>1. TypeOK'
    BY <1>1 DEF Unauthorized, IInv, TypeOK
  <2>2. TransferOK(t)'
    BY <1>0, <1>1 DEF Unauthorized, TransferOK, SentOK, IInv, TypeOK
  <2>3. QED
    BY <1>1, <2>1, <2>2, TransferStep DEF Unauthorized, IInv, TypeOK
<1>2. CASE UploadCheck(t)
  <2>1. TypeOK'
    BY <1>2 DEF UploadCheck, IInv, TypeOK
  <2>2. TransferOK(t)'
    BY <1>0, <1>2 DEF UploadCheck, Admits, TransferOK, SentOK, IInv, TypeOK
  <2>3. QED
    BY <1>2, <2>1, <2>2, TransferStep DEF UploadCheck, IInv, TypeOK
<1>3. CASE UploadCreate(t)
  <2>1. TypeOK'
    <3>1. call' \in [Transfers -> Call]
      BY <1>3, ToStepType DEF UploadCreate, IInv, TypeOK
    <3>2. disk' \in [Transfers -> {"absent", "partial", "whole"}]
      BY <1>3 DEF UploadCreate, IInv, TypeOK
    <3>3. row' \in [Transfers -> {"absent", "uploaded", "downloaded"}]
      BY <1>3 DEF UploadCreate, IInv, TypeOK
    <3>4. QED
      BY <1>3, <3>1, <3>2, <3>3 DEF UploadCreate, IInv, TypeOK
  <2>2. TransferOK(t)'
    BY <1>0, <1>3 DEF UploadCreate, TransferOK, SentOK, IInv, TypeOK
  <2>3. QED
    BY <1>3, <2>1, <2>2, TransferStep DEF UploadCreate, IInv, TypeOK
<1>4. CASE UploadCopy(t)
  <2>1. TypeOK'
    <3>1. call' \in [Transfers -> Call]
      BY <1>4, ToStepType DEF UploadCopy, IInv, TypeOK
    <3>2. disk' \in [Transfers -> {"absent", "partial", "whole"}]
      BY <1>4 DEF UploadCopy, IInv, TypeOK
    <3>3. row' \in [Transfers -> {"absent", "uploaded", "downloaded"}]
      BY <1>4 DEF UploadCopy, IInv, TypeOK
    <3>4. QED
      BY <1>4, <3>1, <3>2, <3>3 DEF UploadCopy, IInv, TypeOK
  <2>2. TransferOK(t)'
    BY <1>0, <1>4 DEF UploadCopy, TransferOK, SentOK, IInv, TypeOK
  <2>3. QED
    BY <1>4, <2>1, <2>2, TransferStep DEF UploadCopy, IInv, TypeOK
<1>5. CASE UploadInsert(t)
  <2>1. TypeOK'
    <3>1. call' \in [Transfers -> Call]
      BY <1>5, ToStepType DEF UploadInsert, IInv, TypeOK
    <3>2. disk' \in [Transfers -> {"absent", "partial", "whole"}]
      BY <1>5 DEF UploadInsert, IInv, TypeOK
    <3>3. row' \in [Transfers -> {"absent", "uploaded", "downloaded"}]
      BY <1>5 DEF UploadInsert, IInv, TypeOK
    <3>4. QED
      BY <1>5, <3>1, <3>2, <3>3 DEF UploadInsert, IInv, TypeOK
  <2>2. TransferOK(t)'
    BY <1>0, <1>5 DEF UploadInsert, TransferOK, SentOK, IInv, TypeOK
  <2>3. QED
    BY <1>5, <2>1, <2>2, TransferStep DEF UploadInsert, IInv, TypeOK
<1>6. CASE UploadNotify(t)
  <2>1. TypeOK'
    BY <1>6 DEF UploadNotify, IInv, TypeOK
  <2>2. TransferOK(t)'
    BY <1>0, <1>6 DEF UploadNotify, TransferOK, SentOK, IInv, TypeOK
  <2>3. QED
    BY <1>6, <2>1, <2>2, TransferStep DEF UploadNotify, IInv, TypeOK
<1>7. QED
  BY <1>1, <1>2, <1>3, <1>4, <1>5, <1>6 DEF Serving

\* The steps of a receiving client.
LEMMA FetchingOK == ASSUME IInv, NEW t \in Transfers, Fetching(t) PROVE IInv'
<1>0. TransferOK(t) /\ ReaderOK
  BY DEF IInv
<1> USE AttemptsAssumption
<1>1. CASE Receive(t)
  <2>1. TypeOK'
    BY <1>1 DEF Receive, IInv, TypeOK
  <2>2. TransferOK(t)'
    BY <1>0, <1>1 DEF Receive, TransferOK, SentOK, IInv, TypeOK
  <2>3. QED
    BY <1>1, <2>1, <2>2, TransferStep DEF Receive, IInv, TypeOK
<1>2. CASE FetchDone(t)
  <2>1. TypeOK'
    BY <1>2 DEF FetchDone, IInv, TypeOK
  <2>2. TransferOK(t)'
    BY <1>0, <1>2 DEF FetchDone, TransferOK, SentOK, IInv, TypeOK
  <2>3. ReaderOK'
    BY <1>2 DEF FetchDone, ReaderOK, NoReader
  <2>4. QED
    BY <1>2, <2>1, <2>2, <2>3, TransferStep DEF FetchDone, IInv, TypeOK
<1>3. CASE FetchLost(t)
  <2>1. TypeOK'
    BY <1>3 DEF FetchLost, IInv, TypeOK
  <2>2. TransferOK(t)'
    BY <1>0, <1>3 DEF FetchLost, TransferOK, SentOK, IInv, TypeOK
  <2>3. QED
    BY <1>3, <2>1, <2>2, TransferStep DEF FetchLost, IInv, TypeOK
<1>4. QED
  BY <1>1, <1>2, <1>3 DEF Fetching

\* The steps of a download.
LEMMA DownloadOK ==
    ASSUME IInv,
           \/ \E v \in Users, t \in Transfers : DownloadCheck(v, t)
           \/ DownloadOpen
           \/ DownloadEnd
    PROVE  IInv'
<1>1. ASSUME NEW v \in Users, NEW t \in Transfers, DownloadCheck(v, t) PROVE IInv'
  <2>1. TypeOK'
    BY <1>1 DEF DownloadCheck, IInv, TypeOK
  <2>2. TransferOK(t)'
    BY <1>1 DEF DownloadCheck, TransferOK, SentOK, IInv
  <2>3. ReaderOK'
    BY <1>1 DEF DownloadCheck, ReaderOK, MayDownload
  <2>4. QED
    BY <1>1, <2>1, <2>2, <2>3, TransferStep DEF DownloadCheck
<1>2. CASE DownloadOpen
  <2> DEFINE t == reader.transfer
  <2>1. t \in Transfers /\ reader.user \in Users /\ MayDownload(reader.user, t)
    BY <1>2 DEF DownloadOpen, IInv, TypeOK, ReaderOK, NoReader
  <2>2. /\ reader'.step = "sending" /\ reader'.transfer = t /\ reader'.user = reader.user
        /\ reader' \in [step : {"checked", "sending"}, user : Users, transfer : Transfers]
    BY <1>2, <2>1 DEF DownloadOpen, IInv, TypeOK, NoReader
  <2>3. row' \in [Transfers -> {"absent", "uploaded", "downloaded"}]
        /\ row'[t] # "absent" /\ \A x \in Transfers \ {t} : row'[x] = row[x]
    BY <1>2, <2>1 DEF DownloadOpen, IInv, TypeOK, MayDownload
  <2>4. TypeOK'
    BY <1>2, <2>2, <2>3 DEF DownloadOpen, IInv, TypeOK
  <2>5. TransferOK(t)'
    <3>1. TransferOK(t) /\ row[t] # "absent"
      BY <2>1 DEF IInv, MayDownload
    <3>2. SentOK(t)' /\ disk'[t] = "whole" /\ call'[t].step \in {"inserted", "notified", "gone"}
      BY <1>2, <3>1 DEF DownloadOpen, TransferOK, SentOK
    <3>3. QED
      BY <1>2, <2>3, <3>1, <3>2 DEF DownloadOpen, TransferOK
  <2>6. ReaderOK'
    BY <2>1, <2>2, <2>3 DEF ReaderOK, MayDownload
  <2>7. QED
    BY <1>2, <2>1, <2>3, <2>4, <2>5, <2>6, TransferStep DEF DownloadOpen
<1>3. CASE DownloadEnd
  <2>1. TypeOK' /\ ReaderOK'
    BY <1>3 DEF DownloadEnd, IInv, TypeOK, ReaderOK, NoReader
  <2>2. (\A t \in Transfers : TransferOK(t)') /\ (\A u \in Uploads : ClientOK(u)')
    BY <1>3 DEF DownloadEnd, IInv, TransferOK, SentOK, ClientOK, Current
  <2>3. QED
    BY <2>1, <2>2 DEF IInv
<1>4. QED
  BY <1>1, <1>2, <1>3

\* The end of a session and a restart.
LEMMA EnvironmentOK ==
    ASSUME IInv, (\E s \in Sessions : SessionOver(s)) \/ Crash
    PROVE  IInv'
<1>1. ASSUME NEW s \in Sessions, SessionOver(s) PROVE IInv'
  <2>1. TypeOK' /\ ReaderOK'
    BY <1>1 DEF SessionOver, IInv, TypeOK, ReaderOK, MayDownload
  <2>2. (\A t \in Transfers : TransferOK(t)') /\ (\A u \in Uploads : ClientOK(u)')
    BY <1>1 DEF SessionOver, IInv, TransferOK, SentOK, ClientOK, Current
  <2>3. QED
    BY <2>1, <2>2 DEF IInv
<1>2. CASE Crash
  <2>1. TypeOK' /\ ReaderOK'
    BY <1>2 DEF Crash, IInv, TypeOK, ReaderOK, NoReader, Call, Steps
  <2>2. ASSUME NEW t \in Transfers PROVE TransferOK(t)'
    <3>1. /\ call'[t].step = (IF call[t].step = "none" THEN "none" ELSE "gone")
          /\ call'[t].device = call[t].device /\ call'[t].inTime = call[t].inTime
      BY <1>2 DEF Crash, IInv, TypeOK, Call
    <3>2. TransferOK(t)
      BY DEF IInv
    <3>3. QED
      BY <1>2, <3>1, <3>2 DEF Crash, TransferOK, SentOK
  <2>3. \A u \in Uploads : ClientOK(u)'
    BY <1>2 DEF Crash, IInv, ClientOK, Current
  <2>4. QED
    BY <2>1, <2>2, <2>3 DEF IInv
<1>3. QED
  BY <1>1, <1>2

LEMMA NextOK == IInv /\ [Next]_vars => IInv'
<1>1. CASE UNCHANGED vars
  BY <1>1 DEF vars, IInv, TypeOK, TransferOK, SentOK, ClientOK, Current, ReaderOK, MayDownload
<1>2. QED
  BY <1>1, UploadingOK, ServingOK, FetchingOK, DownloadOK, EnvironmentOK DEF Next

\* Every reachable state has types and is described by the invariant.
THEOREM TransferTypes == Spec => []TypeOK
<1>1. IInv => TypeOK
  BY DEF IInv
<1>2. QED
  BY <1>1, InitOK, NextOK, PTL DEF Spec

\* A transfer in the table has its whole file, whatever failed or stopped.
THEOREM RowsHaveFiles == Spec => []RowHasFile
  BY InitOK, NextOK, Consequences, PTL DEF Spec

\* A client that is told of success has a transfer for its last attempt.
THEOREM SuccessesAreStored == Spec => []SuccessIsStored
  BY InitOK, NextOK, Consequences, PTL DEF Spec

\* Transfers were sent by an authenticated end of a session that was open.
THEOREM TransfersInSession == Spec => []SentInSession
  BY InitOK, NextOK, Consequences, PTL DEF Spec

\* Files are sent to the accounts of the two ends and to nobody else.
THEOREM TransfersServedToEnds == Spec => []ServedToEnds
  BY InitOK, NextOK, Consequences, PTL DEF Spec

-----------------------------------------------------------------------------
\* A row stays in the table.
LEMMA RowsStay == ASSUME IInv, [Next]_vars, NEW t \in Transfers, row[t] # "absent" PROVE row'[t] # "absent"
<1>1. CASE UNCHANGED row
  BY <1>1
<1>2. ASSUME NEW x \in Transfers, UploadInsert(x) PROVE row'[t] # "absent"
  BY <1>2 DEF UploadInsert, IInv, TypeOK
<1>3. CASE DownloadOpen
  BY <1>3 DEF DownloadOpen, IInv, TypeOK
<1>4. ASSUME NEW u \in Uploads, Uploading(u) PROVE UNCHANGED row
  BY <1>4 DEF Uploading, Send, UploadAnswered, UploadLost, UploadUnauthorized
<1>5. ASSUME NEW x \in Transfers, Serving(x), ~UploadInsert(x) PROVE UNCHANGED row
  BY <1>5 DEF Serving, Unauthorized, UploadCheck, UploadCreate, UploadCopy, UploadNotify
<1>6. ASSUME NEW x \in Transfers, Fetching(x) PROVE UNCHANGED row
  BY <1>6 DEF Fetching, Receive, FetchDone, FetchLost
<1>7. QED
  BY <1>1, <1>2, <1>3, <1>4, <1>5, <1>6
     DEF Next, DownloadCheck, DownloadEnd, SessionOver, Crash, vars

\* What is stored stays, with its whole file.
THEOREM StoredFilesStay == Spec => StoredStays
<1>1. IInv /\ [Next]_vars =>
        [\A t \in Transfers : row[t] # "absent" => row'[t] # "absent" /\ disk'[t] = "whole"]_vars
  <2>1. SUFFICES ASSUME IInv, [Next]_vars, NEW t \in Transfers, row[t] # "absent"
                 PROVE  row'[t] # "absent" /\ disk'[t] = "whole"
    OBVIOUS
  <2>2. row'[t] # "absent" /\ IInv'
    BY <2>1, RowsStay, NextOK
  <2>3. QED
    BY <2>2 DEF IInv, TransferOK
<1>2. QED
  BY <1>1, InitOK, NextOK, PTL DEF Spec, StoredStays

\* A client that moves has less before it.
LEMMA LeftLowers ==
    ASSUME IInv, [Next]_vars, NEW u \in Uploads, client'[u] # client[u] PROVE Left(client'[u]) < Left(client[u])
<1> USE AttemptsAssumption
<1>1. PICK v \in Uploads : Uploading(v)
  <2>1. ~UNCHANGED client
    OBVIOUS
  <2>2. ASSUME NEW t \in Transfers, Serving(t) \/ Fetching(t) PROVE UNCHANGED client
    BY <2>2 DEF Serving, Unauthorized, UploadCheck, UploadCreate, UploadCopy, UploadInsert, UploadNotify,
                Fetching, Receive, FetchDone, FetchLost
  <2>3. QED
    BY <2>1, <2>2 DEF Next, DownloadCheck, DownloadOpen, DownloadEnd, SessionOver, Crash, vars
<1>2. client \in [Uploads -> Upload] /\ v = u
  BY <1>1 DEF IInv, TypeOK, Uploading, Send, UploadAnswered, UploadLost, UploadUnauthorized
<1>3. PICK c : c = client[u]
  OBVIOUS
<1>4. c \in Upload /\ c.attempt \in 0 .. Attempts /\ ClientOK(u)
  BY <1>2, <1>3 DEF IInv, Upload
<1>5. CASE Send(u)
  <2>1. client'[u].step = "sending" /\ client'[u].attempt = c.attempt + 1
    BY <1>2, <1>3, <1>5 DEF Send, Upload
  <2>2. c.step = "idle" => c.attempt = 0
    BY <1>3, <1>4 DEF ClientOK
  <2>3. Left(client'[u]) = 2 * (Attempts - (c.attempt + 1)) + 1
    BY <2>1 DEF Left
  <2>4. Left(c) = 2 * (Attempts - c.attempt)
    BY <1>3, <1>5, <2>2 DEF Send, Left
  <2>5. QED
    BY <1>3, <1>4, <2>3, <2>4
<1>6. CASE ~Send(u)
  <2>1. c.step = "sending" /\ c.attempt \in 1 .. Attempts
    BY <1>1, <1>2, <1>3, <1>4, <1>6 DEF Uploading, UploadAnswered, UploadLost, UploadUnauthorized, ClientOK
  <2>2. Left(c) = 2 * (Attempts - c.attempt) + 1
    BY <2>1 DEF Left
  <2>3. /\ client'[u].step \in {"ok", "failed"} \/ (client'[u].step = "pausing" /\ c.attempt # Attempts)
        /\ client'[u].attempt = c.attempt
    <3>1. CASE UploadAnswered(u)
      <4>1. \A s : client' = [client EXCEPT ![u].step = s] => client'[u].step = s /\ client'[u].attempt = c.attempt
        BY <1>2, <1>3 DEF Upload
      <4>2. QED
        BY <3>1, <4>1 DEF UploadAnswered
    <3>2. CASE UploadLost(u)
      <4>1. client'[u].step = NextAttempt(u) /\ client'[u].attempt = c.attempt
        BY <1>2, <1>3, <3>2 DEF UploadLost, Upload
      <4>2. QED
        BY <1>3, <4>1 DEF NextAttempt
    <3>3. CASE UploadUnauthorized(u)
      <4>1. client'[u].step \in {"failed", NextAttempt(u)} /\ client'[u].attempt = c.attempt
        BY <1>2, <1>3, <3>3 DEF UploadUnauthorized, Upload
      <4>2. QED
        BY <1>3, <4>1 DEF NextAttempt
    <3>4. QED
      BY <1>1, <1>2, <1>6, <3>1, <3>2, <3>3 DEF Uploading
  <2>4. Left(client'[u]) \in {0, 2 * (Attempts - c.attempt)}
    BY <2>3 DEF Left
  <2>5. QED
    BY <1>3, <2>1, <2>2, <2>4
<1>7. QED
  BY <1>5, <1>6

\* Every step of an uploading client leaves fewer: it sends Attempts times at the most.
THEOREM UploadsEndInTime == Spec => UploadsRunDown
<1>1. IInv /\ [Next]_vars =>
        [\A u \in Uploads : client'[u] # client[u] => Left(client'[u]) < Left(client[u])]_vars
  BY LeftLowers
<1>2. QED
  BY <1>1, InitOK, NextOK, PTL DEF Spec, UploadsRunDown
=============================================================================
