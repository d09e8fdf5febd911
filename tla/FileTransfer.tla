---------------------------- MODULE FileTransfer ----------------------------
(***************************************************************************)
(* A file on its way from one end of a session to the other: the client    *)
(* that uploads it (client/src/js/modules/files.js, app.js), the handler   *)
(* and service that store it (server/internal/files), the notice to the    *)
(* other end and the download.                                             *)
(*                                                                         *)
(* An upload is tried up to Attempts times, and every attempt is a call of *)
(* its own at the server, which goes on when the client has given it up.   *)
(* A call makes at most one transfer, so the transfer is named after the   *)
(* upload and the attempt.  Each statement, system call and notice of the  *)
(* service is a step; a call the server refuses changes nothing there.     *)
(***************************************************************************)
EXTENDS Integers

CONSTANTS
    Users, Devices, OwnerOf, \* accounts, devices and devices.user_id
    Sessions, Ends,    \* sessions and the set of their two devices
    Uploads,           \* files that clients upload
    From, To, Via,     \* the devices and the session the form of an upload names
    Renewed,           \* the device the client is after it renews its identity
    Sizes,             \* bytes a file can have
    MaxFile,           \* FILE_MAX_BYTES
    Attempts           \* UPLOAD_ATTEMPTS and DOWNLOAD_ATTEMPTS

ASSUME DeviceAssumption ==
    /\ OwnerOf \in [Devices -> Users]
    /\ {From, To, Renewed} \subseteq [Uploads -> Devices]
    /\ Via \in [Uploads -> Sessions]
    /\ Ends \in [Sessions -> SUBSET Devices]
ASSUME SizeAssumption == Sizes \subseteq Nat /\ MaxFile \in Nat \ {0}
ASSUME AttemptsAssumption == Attempts \in Nat \ {0}

Transfers == Uploads \X (1 .. Attempts)

VARIABLES
    open,     \* the sessions ValidateSessionParticipant accepts
    client,   \* the upload as its client sees it
    call,     \* the call of each attempt at the server
    disk,     \* what is stored under the transfer's storage_path
    row,      \* file_transfers.status, or "absent"
    notices,  \* file_available in the connection of the target
    inbox,    \* what the target's client made of the notice
    reader    \* a call of Download

vars == <<open, client, call, disk, row, notices, inbox, reader>>

Waiting == {"sending", "pausing"}
Steps == {"none", "received", "unauthorized", "refused", "checked", "created",
          "copied", "inserted", "notified", "gone"}

Upload == [step : {"idle", "ok", "failed"} \cup Waiting, attempt : 0 .. Attempts,
           size : Sizes, device : Devices, recovered : BOOLEAN]

Call == [step : Steps, device : Devices, inTime : BOOLEAN]

NoReader == [step |-> "idle"]

Init ==
    /\ open = Sessions
    /\ \E size \in [Uploads -> Sizes] :
           client = [u \in Uploads |-> [step |-> "idle", attempt |-> 0, size |-> size[u],
                                        device |-> From[u], recovered |-> FALSE]]
    /\ call = [t \in Transfers |-> [step |-> "none", device |-> From[t[1]], inTime |-> FALSE]]
    /\ disk = [t \in Transfers |-> "absent"]
    /\ row = [t \in Transfers |-> "absent"]
    /\ notices = {}
    /\ inbox = [t \in Transfers |-> [step |-> "empty", attempt |-> 0]]
    /\ reader = NoReader

-----------------------------------------------------------------------------
(* The uploading client.                                                   *)

ToStep(t, step) == call' = [call EXCEPT ![t].step = step]

\* uploadOnce: the form names the device of the beginning, the headers the
\* device the client is now.  inTime records whether the session still was.
Send(u) ==
    LET n == client[u].attempt + 1
    IN  /\ client[u].step \in {"idle", "pausing"}
        /\ client' = [client EXCEPT ![u].step = "sending", ![u].attempt = n]
        /\ call' = [call EXCEPT ![<<u, n>>] = [step |-> "received", device |-> client[u].device,
                                               inTime |-> Via[u] \in open]]
        /\ UNCHANGED <<open, disk, row, notices, inbox, reader>>

Current(u) == <<u, client[u].attempt>>

\* Mutant: one attempt too many.
NextAttempt_OneMore(u) == IF client[u].attempt > Attempts THEN "failed" ELSE "pausing"

\* The client goes on to the next attempt, or fails after the last one.
NextAttempt(u) == IF client[u].attempt = Attempts THEN "failed" ELSE "pausing"

UploadAnswered(u) ==
    /\ client[u].step = "sending"
    /\ \/ /\ call[Current(u)].step = "notified"
          /\ client' = [client EXCEPT ![u].step = "ok"]
       \/ /\ call[Current(u)].step = "refused"
          /\ client' = [client EXCEPT ![u].step = "failed"]
    /\ UNCHANGED <<open, call, disk, row, notices, inbox, reader>>

\* The network fails, or the answer takes longer than 45 seconds.
UploadLost(u) ==
    /\ client[u].step = "sending"
    /\ client' = [client EXCEPT ![u].step = NextAttempt(u)]
    /\ UNCHANGED <<open, call, disk, row, notices, inbox, reader>>

\* Mutant: the retry after a recovery is not counted, nor the recovery noted.
UploadUnauthorized_Uncounted(u) ==
    /\ client[u].step = "sending"
    /\ call[Current(u)].step = "unauthorized"
    /\ \E d \in {client[u].device, Renewed[u]} :
           client' = [client EXCEPT ![u].step = "pausing", ![u].device = d,
                                    ![u].attempt = client[u].attempt - 1]
    /\ UNCHANGED <<open, call, disk, row, notices, inbox, reader>>

\* recoverInvalidDeviceAuth: once per upload, the client has its identity
\* renewed (which may not succeed) and goes on, without a new form.
UploadUnauthorized(u) ==
    /\ client[u].step = "sending"
    /\ call[Current(u)].step = "unauthorized"
    /\ \/ /\ ~client[u].recovered
          /\ \E d \in {client[u].device, Renewed[u]} :
                 client' = [client EXCEPT ![u].step = NextAttempt(u),
                                          ![u].device = d, ![u].recovered = TRUE]
       \/ /\ client[u].recovered
          /\ client' = [client EXCEPT ![u].step = "failed"]
    /\ UNCHANGED <<open, call, disk, row, notices, inbox, reader>>

-----------------------------------------------------------------------------
(* The handler and Service.Upload.                                         *)

\* The middleware does not take the credentials of the device.
Unauthorized(t) ==
    /\ call[t].step = "received"
    /\ ToStep(t, "unauthorized")
    /\ UNCHANGED <<open, client, disk, row, notices, inbox, reader>>

\* Mutant: the session is not validated, its ends are.
Admits_AnySession(u, d) ==
    /\ d = From[u]
    /\ client[u].size <= MaxFile
    /\ {d, To[u]} = Ends[Via[u]]

\* The form's device is the authenticated one, the file is not too large, the
\* session is open and the two devices are its ends.
Admits(u, d) ==
    /\ d = From[u]
    /\ client[u].size <= MaxFile
    /\ Via[u] \in open
    /\ {d, To[u]} = Ends[Via[u]]

UploadCheck(t) ==
    /\ call[t].step = "received"
    /\ ToStep(t, IF Admits(t[1], call[t].device) THEN "checked" ELSE "refused")
    /\ UNCHANGED <<open, client, disk, row, notices, inbox, reader>>

UploadCreate(t) ==
    /\ call[t].step = "checked"
    /\ \/ ToStep(t, "created") /\ disk' = [disk EXCEPT ![t] = "partial"]
       \/ ToStep(t, "refused") /\ UNCHANGED disk
    /\ UNCHANGED <<open, client, row, notices, inbox, reader>>

\* Mutant: the error of io.Copy is not looked at.
UploadCopy_IgnoreError(t) ==
    /\ call[t].step = "created"
    /\ \E c \in {"whole", "partial"} :
          ToStep(t, "copied") /\ disk' = [disk EXCEPT ![t] = c]
    /\ UNCHANGED <<open, client, row, notices, inbox, reader>>

\* A copy that fails leaves what it has written behind.
UploadCopy(t) ==
    /\ call[t].step = "created"
    /\ \/ ToStep(t, "copied") /\ disk' = [disk EXCEPT ![t] = "whole"]
       \/ ToStep(t, "refused") /\ UNCHANGED disk
    /\ UNCHANGED <<open, client, row, notices, inbox, reader>>

\* Mutant: the error of the statement is not looked at.
UploadInsert_IgnoreError(t) ==
    /\ call[t].step = "copied"
    /\ ToStep(t, "inserted")
    /\ row' \in {row, [row EXCEPT ![t] = "uploaded"]}
    /\ UNCHANGED <<open, client, disk, notices, inbox, reader>>

\* An insert that fails (a closed request context, a full disk) removes the
\* file; whether the removal succeeds is not looked at.
UploadInsert(t) ==
    /\ call[t].step = "copied"
    /\ \/ /\ ToStep(t, "inserted")
          /\ row' = [row EXCEPT ![t] = "uploaded"]
          /\ UNCHANGED disk
       \/ /\ ToStep(t, "refused")
          /\ disk' \in {disk, [disk EXCEPT ![t] = "absent"]}
          /\ UNCHANGED row
    /\ UNCHANGED <<open, client, notices, inbox, reader>>

\* NotifyDevice: the target is connected and its channel has room, or not.
UploadNotify(t) ==
    /\ call[t].step = "inserted"
    /\ ToStep(t, "notified")
    /\ notices' \in {notices, notices \cup {t}}
    /\ UNCHANGED <<open, client, disk, row, inbox, reader>>

-----------------------------------------------------------------------------
(* Service.Download, for any user that knows the transfer.                 *)

\* Mutant: the ends' owners are not asked for.
MayDownload_Anyone(v, t) == row[t] # "absent"

MayDownload(v, t) == row[t] # "absent" /\ v \in {OwnerOf[From[t[1]]], OwnerOf[To[t[1]]]}

DownloadCheck(v, t) ==
    /\ reader.step = "idle"
    /\ MayDownload(v, t)
    /\ reader' = [step |-> "checked", user |-> v, transfer |-> t]
    /\ UNCHANGED <<open, client, call, disk, row, notices, inbox>>

\* os.Open, then the status, whose statement may fail unnoticed.
DownloadOpen ==
    /\ reader.step = "checked"
    /\ disk[reader.transfer] # "absent"
    /\ reader' = [reader EXCEPT !.step = "sending"]
    /\ row' \in {row, [row EXCEPT ![reader.transfer] = "downloaded"]}
    /\ UNCHANGED <<open, client, call, disk, notices, inbox>>

DownloadEnd ==
    /\ reader.step # "idle"
    /\ reader' = NoReader
    /\ UNCHANGED <<open, client, call, disk, row, notices, inbox>>

-----------------------------------------------------------------------------
(* The receiving client: file_available is listed, or saved at once when   *)
(* the controller chose a folder and the session is still the client's.    *)

Receive(t) ==
    /\ t \in notices
    /\ notices' = notices \ {t}
    /\ \E s \in {"listed", "fetching"} : inbox' = [inbox EXCEPT ![t] = [step |-> s, attempt |-> 1]]
    /\ UNCHANGED <<open, client, call, disk, row, reader>>

FetchDone(t) ==
    /\ inbox[t].step = "fetching"
    /\ reader.step = "sending" /\ reader.transfer = t /\ reader.user = OwnerOf[To[t[1]]]
    /\ reader' = NoReader
    /\ inbox' = [inbox EXCEPT ![t].step = "saved"]
    /\ UNCHANGED <<open, client, call, disk, row, notices>>

\* A download that fails for good, at the latest with its last attempt, leaves
\* the file neither saved nor listed.
FetchLost(t) ==
    /\ inbox[t].step = "fetching"
    /\ \/ inbox' = [inbox EXCEPT ![t].step = "missed"]
       \/ inbox[t].attempt < Attempts /\ inbox' = [inbox EXCEPT ![t].attempt = inbox[t].attempt + 1]
    /\ UNCHANGED <<open, client, call, disk, row, notices, reader>>

-----------------------------------------------------------------------------
\* The session is ended by one of its ends, or its token expires.
SessionOver(s) ==
    /\ s \in open
    /\ open' = open \ {s}
    /\ UNCHANGED <<client, call, disk, row, notices, inbox, reader>>

\* The process stops: files and rows stay, calls and connections do not.
Crash ==
    /\ call' = [t \in Transfers |-> IF call[t].step = "none" THEN call[t]
                                    ELSE [call[t] EXCEPT !.step = "gone"]]
    /\ notices' = {}
    /\ reader' = NoReader
    /\ UNCHANGED <<open, client, disk, row, inbox>>

Uploading(u) == Send(u) \/ UploadAnswered(u) \/ UploadLost(u) \/ UploadUnauthorized(u)

Serving(t) == \/ Unauthorized(t) \/ UploadCheck(t) \/ UploadCreate(t)
              \/ UploadCopy(t) \/ UploadInsert(t) \/ UploadNotify(t)

Fetching(t) == Receive(t) \/ FetchDone(t) \/ FetchLost(t)

Next == \/ \E u \in Uploads : Uploading(u)
        \/ \E t \in Transfers : Serving(t) \/ Fetching(t)
        \/ \E v \in Users, t \in Transfers : DownloadCheck(v, t)
        \/ DownloadOpen \/ DownloadEnd
        \/ \E s \in Sessions : SessionOver(s)
        \/ Crash

\* The timers of a client run whatever the server does: XMLHttpRequest gives
\* an attempt up after 45 seconds, and the pause between attempts ends.  The
\* server owes the client nothing.
Fairness == \A u \in Uploads : WF_vars(Uploading(u))

Spec == Init /\ [][Next]_vars /\ Fairness

-----------------------------------------------------------------------------
TypeOK ==
    /\ open \subseteq Sessions
    /\ client \in [Uploads -> Upload]
    /\ call \in [Transfers -> Call]
    /\ disk \in [Transfers -> {"absent", "partial", "whole"}]
    /\ row \in [Transfers -> {"absent", "uploaded", "downloaded"}]
    /\ notices \subseteq Transfers
    /\ inbox \in [Transfers -> [step : {"empty", "listed", "fetching", "saved", "missed"},
                                attempt : 0 .. Attempts]]
    /\ reader \in {NoReader} \cup
           [step : {"checked", "sending"}, user : Users, transfer : Transfers]

\* A transfer in the table has its whole file on disk, of an allowed size,
\* whatever copies, statements and removals failed and whenever the process
\* stopped (files/service.go:114-155).
RowHasFile ==
    \A t \in Transfers : row[t] # "absent" => disk[t] = "whole" /\ client[t[1]].size <= MaxFile

\* A client that is told its upload succeeded has a transfer for its last
\* attempt, however many earlier ones were given up (files.js:32-52).
SuccessIsStored ==
    \A u \in Uploads : client[u].step = "ok" => row[Current(u)] # "absent"

\* A transfer was sent by one end of the session to the other, by the device
\* the middleware authenticated, while the session was open: an attempt sent
\* after the session's end is never stored, nor one of a client that has
\* renewed its identity since (handler.go:60-64, service.go:84-98).
SentInSession ==
    \A t \in Transfers : row[t] # "absent" =>
        call[t].inTime /\ call[t].device = From[t[1]] /\ {call[t].device, To[t[1]]} = Ends[Via[t[1]]]

\* Bytes are sent only of a whole file and to the owner of one of its ends,
\* and a receiving client saves only what it was notified of and is stored
\* (service.go:183-208, app.js:189-213).
ServedToEnds ==
    /\ reader.step = "sending" =>
           /\ disk[reader.transfer] = "whole"
           /\ \E d \in Ends[Via[reader.transfer[1]]] : OwnerOf[d] = reader.user
    /\ \A t \in Transfers : t \in notices \/ inbox[t].step # "empty" => row[t] # "absent"

\* What is stored stays whole, through later attempts of the same upload, failed
\* statements and restarts: files and rows are only removed by an insert that
\* failed, whose transfer has no row (files/service.go:114-155).
StoredStays ==
    [][\A t \in Transfers : row[t] # "absent" => row'[t] # "absent" /\ disk'[t] = "whole"]_vars

\* The sends and pauses a client has before it.
Left(c) == CASE c.step = "idle" -> 2 * Attempts
             [] c.step = "sending" -> 2 * (Attempts - c.attempt) + 1
             [] c.step = "pausing" -> 2 * (Attempts - c.attempt)
             [] OTHER -> 0

\* Whatever the server does with an upload, and whether the client recovers its
\* identity in between, each step of the client leaves it fewer (files.js:32-54).
UploadsRunDown ==
    [][\A u \in Uploads : client'[u] # client[u] => Left(client'[u]) < Left(client[u])]_vars

\* An upload ends: it succeeds or fails, whatever the server does with it
\* (files.js:32-54).
UploadEnds == \A u \in Uploads : client[u].step \in Waiting ~> client[u].step \in {"ok", "failed"}
=============================================================================
