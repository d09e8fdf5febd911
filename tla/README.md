# Z-remote: a formal model

Z-remote is a remote-desktop system: a Go server (`src/server`) that keeps
accounts, devices, session requests and sessions in SQLite and relays messages
over websockets, and a desktop client (`src/client`, JavaScript in a Tauri
shell). This directory holds TLA+ modules translated from its source, the TLC
configurations that check them on small instances, and TLAPS proofs of their
main invariants for every instance.

Status: the server's services, its start-up and the client's session flow,
bootstrap and file transfer are modelled and checked. Every safety property a
passing run checks is proved for all constants, both life cycles included, and of
each of the three findings it is proved what alone can cause it (sections 4 and 5);
what is left out is in section 6.

## 1. The system

### 1.1 Components, state, operations

| component | state | operations | interacts with |
|---|---|---|---|
| session service (`sessions/service.go`) | tables `session_requests`, `remote_sessions` | Request, Respond, Start, ListByUser, ValidateSessionParticipant, End | asks the device service who owns a device and whether it is online; notifies devices through the hub |
| websocket hub (`ws/hub.go`) | map device → connection; per connection a socket, a bounded channel, two goroutines | HandleWS, register, readPump, writePump, unregister, NotifyDevice, relay of session signals | sets the device status; validates sessions; is called by the session and file services |
| device service (`devices/service.go`) | table `devices` with `status` | Register, Authenticate, SetStatus, lists, BelongsToUser | used by everything above, and by the login |
| accounts and login (`auth/`) | table `users`; signed tokens | Register, Login, device login, middleware | creates devices |
| login rate limiter (`auth/ratelimit.go`) | counter and window per client | allow | wraps Login |
| file service (`files/service.go`) | table `file_transfers`, files on disk | Upload, Download | validates sessions, notifies the peer |
| storage (`storage/db.go`) | the database, `schema_migrations` | Open (one connection), ExecMigrations | start-up |
| server process (`cmd/server/main.go`) | – | start, seed, shut down | wires the rest |
| client (`client/src/js`) | `state`: device, tokens, pending request, active session, incoming files; the socket; screen sharing and input | bootstrap, connect/reconnect, request/respond/start/end, signals, transfers | HTTP calls and websocket messages to the server |
| native shell (`src-tauri`) | – | input injection, folders, machine identity | called by the client |

### 1.2 What is hard about it

* Every HTTP call and every websocket reader is a goroutine. The database has
  one connection (`storage/db.go:35`), so a statement is atomic, but there are
  no transactions: each call is a sequence of statements and other calls run
  between them. Several operations check a row and then write it.
* A notice is sent after the row is written, without waiting and without a
  retry; a crash, a recovered panic or a full channel loses it.
* A connection is shared by the handler that made it, its two pumps and every
  caller of NotifyDevice; the map entry, the channel, the socket and the
  `status` column change at four different moments as it ends.
* The client reacts to messages whose order with respect to HTTP replies is
  not fixed.

### 1.3 What makes the components correct

| component | correctness |
|---|---|
| session service | consent before a session; one end of a session; notices true when sent; tokens only to the two accounts; an ended or expired session is unusable |
| hub | map entries usable; one live connection per device; no leaked pumps; the status column follows the connections |
| devices, login | one owner per device for good; a key never replaced by another; no half-made accounts that block a later login |
| files | a row only for a complete file within the limit; no file of a session to a third party |
| limiter | no more than the limit per window |
| migrations | each applied once, in order, through restarts |
| client, session | a session is shown only with the consent of its target; input is captured only as the controller; no capture that cannot be stopped; the end of a session is seen |
| client, bootstrap | a device only with tokens, "connected" only with a socket, the device is the one of the identity; no chain of calls that waits for itself; reconnection |

The hazards behind these, each at its line, are in `PROJECT.json`.

## 2. Modules

| module | what it is |
|---|---|
| `SessionService` | the session service and the relay of signals, statement by statement, with any number of calls in progress |
| `SessionLifecycle` | the abstract life cycle of requests and sessions that `SessionService` implements |
| `WsHub` | the hub, step by step of each goroutine |
| `ConnectionRegistry` | what the hub promises about connections, without its goroutines |
| `FileTransfer` | a file from the uploading client over the file service to the receiving client |
| `DeviceEnrollment` | device login, device registration, accounts with passwords, and what the middleware admits |
| `LoginRateLimiter` | the limiter, with calls that read the clock before they get the lock |
| `ServerStart` | the server process: migrations, seed, listening, stops; extends `LoginRateLimiter`, which is new in every process |
| `ClientSession` | clients and the server's answers and notices between them: requests, sessions, input, screen sharing |
| `ClientBootstrap` | one client's identity, tokens and websocket, as chains of asynchronous functions |
| `MC...` | the instances of these for TLC, with values and symmetry |
| `..._proofs` | the theorems about each of these modules; those of `LoginRateLimiter` are in `ServerStart_proofs` |

### 2.1 SessionService

`requests` and `sessions` are the two tables, `online` the column
`devices.status`, `now` the clock. A call in progress occupies a handler `h`;
`pc[h]` names the statement it executes next, `job[h]` holds its local
variables. An operation of the service is a chain of actions:

| code | actions |
|---|---|
| `Request` | `RequestCheck` → `RequestInsert` → `RequestNotify` |
| `Respond` | `RespondRead` → `RespondWrite` → `RespondNotify` |
| `Start` | `StartRead` → `StartInsert` → `StartNotifyRequester` → `StartNotifyTarget` |
| `End` | `EndValidate` → `EndWrite` → `EndNotifyRequester` → `EndNotifyTarget` |
| `ListByUser` | `ListByUser` |
| `handleSessionSignal` | `SignalValidate` → `SignalRelay` |

Where a call reads several rows before its first write (the ownership, the
request, the session), the reads are one action: ownership never changes, so
only one of the rows read can be changed by others. In `RequestCheck` that is
the status of the target, in the others the request or session. A call that is
refused changes nothing and is not a step. Other actions: `SetStatus` (what the
hub does to the status), `Tick`, `WriteFails` (a statement returns an error),
`NotifyPanics` (the send panicked and `RecoverMiddleware` ended the call) and
`Crash` (every call is lost, the tables stay).

Abstractions: a token is the identifier of its session, and a caller may only
present a token that a reply, a list or a notice has shown to its account
(`Holds`). `notices` collects what was handed to connections and is a set: an
order of arrival is not recorded. Audit rows are left out; nothing reads them.
`answers` and `closings` are history variables.

### 2.2 SessionLifecycle

Requests are asked and answered, sessions opened and closed, each in one step.
The constant `OneAnswer` chooses between the promise one would expect (a
request is answered once, only an accepted request is opened) and the one the
code keeps when calls overlap (an answer may replace another; what was accepted
at some time can be opened). `SessionService` implements the weak one always
and the strong one as long as no two answers to one request overlap
(`AnswersApart` in the proofs); the run checks the latter with one call at a time.
The refinement mapping drops expiry and origin from the session rows and takes
`granted` from `answers`. The server inside `ClientSession`, which has no races of
its own, is a second instance: the clients are checked against a server that keeps
the strong life cycle.

### 2.3 WsHub

Each connection has the program counters of `HandleWS` (`handler`), `readPump`
(`reader`) and `writePump` (`writer`), a socket (`link`), a channel (`queue` is
its length, `open` whether it is closed). `clients` is the map. A step is one
access to shared state: the body of a lock, one channel operation, one socket
operation, one statement. A device may close a connection (`PeerCloses`) or
fall silent (`PeerVanishes`); the read deadline turns silence into a failure.
`NotifyDevice` is two steps, the lookup and the send, with the client kept in
`held` between them: so it can meet a channel that was closed meanwhile, and so
can any other send of a goroutine, the replies of `readPump` on its own channel
included; `panics` records who did. The panic of an HTTP handler is recovered. A
`readPump` that panics runs its deferred `unregister` like one that ends
(`Unregister`, `CloseSend`, `HangUp`, `SetOffline`), while the others go on, and then
takes the process with it (`Dies`).

`SetStatus` is written or fails (`MayFail`); no caller looks at its error and only the
next heartbeat repeats it. `blame` is a history of what went wrong with the status of
a device since it last was the truth: a late heartbeat, a failed offline, an end of the
process.

Abstractions: the content of messages; the authentication before the upgrade,
which changes nothing; the validation of a signal, which `SessionService`
models. In `WsHub` the peer of a signal is any other device.

`ConnectionRegistry` gives each connection one stage: fresh, current, replaced,
over. Under the mapping (`Registry`) a connection is current while it is the entry
of the map, and replaced while its `readPump` still runs without being that. So
`register` is `Connect`, which replaces the current connection of the device in the
same step; removing the entry, or the end of a replaced `readPump`, is `Leave`;
everything else is a stutter, save the end of the process, `Restart`.

### 2.4 FileTransfer

`client[u]` is an upload as its client sees it: where `uploadSessionFile` is, the
attempt, the device it works as. `call[t]` is the call of one attempt at the
server, which goes on when the client has given it up, so that two attempts of an
upload overlap there. `disk` and `row` are the two places a transfer is kept.

| code | actions |
|---|---|
| `uploadSessionFile`, `uploadOnce` | `Send`, `UploadAnswered`, `UploadLost`, `UploadUnauthorized` |
| `Upload`, handler and service | `UploadCheck` → `UploadCreate` → `UploadCopy` → `UploadInsert` → `UploadNotify`, each of the middle ones with its failure |
| `Download` | `DownloadCheck` → `DownloadOpen` → `DownloadEnd` |
| `file_available`, `downloadTransfer` | `Receive`, then `FetchDone` or `FetchLost` |

`SessionOver` stands for the session service, `Crash` for the end of the process.
A transfer is named after its upload and attempt, since a call makes at most one.
`inTime` records whether the session was open when an attempt was sent.
`Renewed` is the device a client is after `recoverInvalidDeviceAuth`: its further
attempts carry the old form with the new headers, and the handler refuses them.
What the model also shows and no property forbids: after a lost answer the same
file is stored and announced twice, and a file whose automatic saving failed is
neither saved nor listed (`app.js:199-208`).

### 2.5 DeviceEnrollment

`email` is `users.email`, `device` the owner and key of each row of `devices`.
Calls are chains of statements as in `SessionService`: `LoginRead` →
`LoginAuth` (the row exists) or `LoginInsert` → `LoginEmail` (it does not; the
second when the address is taken), then `RegisterRead` → `RegisterUpdate` or
`RegisterInsert` → `Reply`. `RegisterCall` enters at `RegisterRead` with a user's
token. `AccountCall` → `AccountInsert` is `auth.Service.Register`. `CallFails` is a
statement that fails anywhere. `Legacy` devices have no key at the start: they
are rows from before `002_device_identity.sql`. `issued` collects what device
logins answered. Keys and addresses are compared only; the sanitising of a device's
identifier into an address (`device_handler.go:183-196`) is `EmailsOf`, the set of
addresses a login of a device may ask for: one, or any of several when nothing of the
identifier is left and the code draws a random one. The sets need not be disjoint.

`LoginsAgree` excepts legacy devices from its last part, and would fail for them:
two registrations that both read the empty key both write theirs, and the first
one, already answered, is locked out. `UpdatesApart` excludes just that overlap; under
it a key is never replaced and every login stays admitted, legacy devices included
(`OverlapsReplaceKeys`).

### 2.6 LoginRateLimiter and ServerStart

`ReadClock` and `Allow` are the two halves of `allow`. A call takes the lock
before the clock moves twice: the reading may be old by one unit, not by more. Go does
not promise that between `ratelimit.go:45` and `46`; it is an assumption of
`AttemptsAreBounded`, which a goroutine that sleeps for a whole window between the two
lines would break.
`ServerStart` runs the migrations file by file and statement by statement
(`Check`, `Exec`, `Record`), seeds and listens. `Interrupt` stops the process
anywhere, `Deploy` installs newer files while it is down, and every start has a new
limiter. `Statements` and `Tolerant` describe the files; the instance has the
three of the repository. Two facts of the code stand out in it: a migration of
`ALTER TABLE` statements that was cut off half-way, or before its record, fails
for ever after (`cut`; `BrokenForGood` is proved, through any number of stops, starts
and releases), and the seed's devices never exist, because
`devices.Register` refuses their empty key while `ensureDevSeed` ignores the
error (`main.go:151-164`, `devices/service.go:57`; `src/README.md` section 5.2
lists them).

### 2.7 ClientSession

The server's statements are those of `SessionService` without races between them
(`ServerKeepsLifecycle`: it implements `SessionLifecycle`);
its notices and replies are steps of their own, since their order is what the client
depends on. `queue[d]` is what is on its way to the websocket of a device,
`call[d]` its calls in progress (one of the user's, one start), `pending`,
`active`, `bound` and `share` the client's state. Each handler is one step up to
its next await: `Click`/`RespondReply`, `ClickEnd`/`EndReply`, `OnResponse`/
`StartReply`, `OnRequest`, `OnStarted`, `OnEnded`. `Starting`, `ShareBegins`,
`ShareCaptures`, `ShareFallsBack` and `Stopped` are `session.js`: `timer` is the
interval `runtime.timer` names, `stray` one that nothing names any more, `shot` a
native capture that is awaited, `starts` the starts that wait. `Resend` is
`fetchWithRetry` after a lost reply, `Disconnect` loses what was on its way.

A session ends by `End` or expires. `Expire` writes nothing and tells nobody, and an
`End` that comes later is refused. A notice to a device of `Unlucky` may be dropped
(`Send`: no connection, or a full channel), and may panic (`NotifyPanics`): the call
ends there, so that after the requester's notice the target's is never attempted.
`lost[d]` holds the messages that were for `d` and never reach it, for any of these
reasons. Races between the server's statements and its end are left to
`SessionService`.

The model has these behaviours of the code, which no property forbids because no
document does: a session that is over is shown again by a late reply or
`session_started` (`app.js:146`, `157`); the reply to an end cleans up whatever is
shown by then (`app.js:699`); the reply to an answer clears a newer request
(`app.js:447`); a start sent again opens a second session; a start of sharing that
waits survives the stop, as does the fallback of a capture in flight
(`session.js:66-75`); a client that becomes the controller goes on sharing
(`app.js:163-166`). The invariants say how far that goes.

### 2.8 ClientBootstrap

`stack[t]` is a chain of asynchronous functions that await each other
(`bootstrapDeviceAuth`, `recoverDeviceIdentity`, `apiRequest`), `back[t]` what the
last awaited one returned. The flags `bootstrappingAuth` and
`recoveringDeviceIdentity` are "there is such a frame". `wires` is `ws.js`:
socket, `wsConnected`, `autoReconnect`, the reconnection timer and the count of
closes with 1006. The server is any server: a call may be answered, refused, found
with invalid device credentials, or fail. What the model also shows: a bootstrap
whose registration is refused renews the identity and then reports success with
neither (`app.js:233`, `374-378`), which is the exception `skipped` of
`MismatchIsSkipped`; closes with code 1006 throw away an identity the server knows
(`app.js:114-119`); a failed bootstrap leaves an open socket that the client calls
disconnected (`app.js:270-279`).

## 3. Runs

| run | question | result |
|---|---|---|
| `SessionRaces` | two calls at once, one request, one session, one tick with TTL 0 | `TypeOK`, `Consent`, `OneEndWins`, `NoticesAreTrue`, `OverIsFinal`, `ImplementsLifecycle` hold |
| `SessionSerial` | one call at a time, one request, two sessions | `TokenConfined`, `SerialImplementsLifecycle` hold |
| `SessionAnswerRace` | is an answer final? | violated: finding 1 |
| `HubRaces` | two connections of one device, one of another; every kind of message, restarts | `TypeOK`, `EntriesAreLive`, `ReplacedAreClosed` hold |
| `HubLiveness` | two connections of one device, one notifier; status writes that fail, restarts, fairness | `OnlineIsExplained`, `LostIsCleanedUp`, `ConnectedIsOnline` hold |
| `HubStaleOnline` | does a disconnected device end up offline? | violated: finding 2 |
| `HubPanic` | does every panic stay recoverable? | violated: finding 3 |
| `Files` | an upload of two attempts, every failure, restarts, a session that ends | `TypeOK`, `RowHasFile`, `SuccessIsStored`, `SentInSession`, `ServedToEnds`, `UploadEnds` hold |
| `Enrollment` | two calls at once on three devices, one of them without a key | `TypeOK`, `AccountsAreSound`, `LoginsAgree`, `EnrolmentIsFinal` hold |
| `Start` | three migrations, releases and stops anywhere; two logins at once | `TypeOK`, `AttemptsAreBounded`, `RecordedIsMade`, `ListensOnSchema`, `OnlyCutOnesFail` hold |
| `Client` | two clients that ask each other; notices dropped and panicking, sessions that expire | `TypeOK`, `ShownIsConsented`, `InputFollowsRole`, `StraysAreOverlaps`, `StaleWasTold` hold |
| `Bootstrap` | two chains of calls, any server, fairness | `TypeOK`, `DeviceHasToken`, `ChainsAreShort`, `MismatchIsSkipped`, `TasksEnd`, `Reconnects` hold |

### 3.1 Bounds

* Sessions: two accounts with a device each, one request. Every hazard listed
  for the service needs at most two overlapping calls on one row, which is what
  `SessionRaces` has; `SessionSerial` trades the second call for a second
  session of the same request. `TTL = 0` and `MaxTime = 1` give a session that
  is valid now and expired one tick later; the expiry may be computed before or
  after the tick. In `SessionSerial` the clock does not move.
* `Statuses`: the device status is read by `Request` only. It changes freely in
  `SessionSerial`; in the other session runs both devices stay online.
* `Droppable` names the kinds of notice the hub may drop. Only
  `session_started` is droppable, in `SessionRaces`: a token can be learnt from
  it, whereas the other kinds are never read back, so losing them gives a
  subset of what keeping them gives. `session_ended` shows the token too, but
  only after a `session_started` or a reply could have.
* Hub: each connection is used once, so a run ends when they are used up; that
  is why deadlock is not checked for the hub. Two connections of one device are
  what a replacement needs; the third belongs to the device the signals go to.
  `Capacity = 1` makes the channel full as often as possible; the code has 64.
  `MessageKinds` limits the messages of an instance, `MayStop` and `MayFail` say whether
  the process may be stopped and a status write may fail in it. `HubRaces` has no
  failing writes, since its properties do not read the status; `HubLiveness`, whose
  properties do, has them and restarts. The two runs of findings have neither, so that
  the disagreement they show has one cause.
* `Files`: one upload of two attempts; the code has three. What two attempts do to
  each other is there with two, a third only repeats it, and the theorems hold for
  any number. Files of one and two bytes are within and above the limit of one.
  Deadlock is not checked, since an upload is used once and ends.
* `Enrollment`: every race of the code is between two calls; two new devices and
  a legacy one, two keys. A login may take either of two addresses, so two devices may share
  one or not, and one device may come back with another.
* `Start`: `Limit = 2` and `Window = 1` with five units of time give several
  windows one after the other and a refusal in each; the theorem has any limit.
* `Client`: two devices, a request in either direction, two sessions, so that
  roles change between sessions. `Screens` names the device that can share, `Unlucky`
  the one whose replies and messages get lost and whose connection may be full or
  closing when a notice is sent to it, `MaxStarts` bounds the starts of
  sharing asked for by the user or by a fallback. The state constraint `OneTrouble`
  keeps losses, expiry, starts sent again and overlapping starts of sharing to the part
  of the behaviour before the second request is made: with one request all of them
  combine freely, with two there are none of them. A user makes one call at a time
  (`Slots`); the code lets one click again before the reply. Deadlock is not checked, since
  both clients are at rest when the requests are used up.
* `Bootstrap`: two chains at a time, `Limit = 2` closes instead of three, which
  leaves a close that counts and one that renews. An identity is drawn from `Fresh`,
  those that nothing refers to any more; the code draws a random one. Four identities
  are at least one more than anything refers to when one is drawn.
* Symmetry: handlers, sessions, and accounts together with their device are
  interchangeable in the session runs; the two connections of one device in
  `HubRaces`; handlers, the accounts and keys that are new, the two devices that are not
  legacy and their addresses in `Enrollment`; the calls of the limiter in `Start`.
  No run of a liveness property uses symmetry.

### 3.2 Fairness

Safety is checked without fairness. `FairSpec` of the hub assumes weak fairness
of each goroutine: the Go scheduler runs it, a statement on the local database
finishes, and a deadline (`pongWait`, `writeWait`) passes. Strong fairness of
`ReadHeartbeat` stands for the client's timer: it sends a heartbeat every 20
seconds (`client/src/js/app.js:221-223`), so a `readPump` that keeps returning
to its loop on an open socket reads one again and again. Strong fairness of a
`Heartbeat` that succeeds says that a status write that is tried again and again does
not fail every time; a write that is tried once, as that of `unregister`, may fail.
Nothing is assumed of the device closing, vanishing or connecting, nor of the HTTP calls starting.

`FileTransfer` assumes only the client's own timers: an attempt is given up after 45
seconds and a pause ends, whatever the server does (`files.js:50`, `158`).
`ClientBootstrap` assumes that a call is answered or times out
(`api.js:68-76`) and that the reconnection timer fires (`ws.js:67`).

`HubLiveness` has no `ping`: the client never sends that message, and the reply
to it is a blocking send, which can wait for ever once `writePump` has ended
(`ws/hub.go:265`). `LostIsCleanedUp` would not hold with it.

## 4. Findings

1. **Two answers** (`sessions/service.go:137`). `Respond` refuses a request
   that is not pending, but checks a copy; its UPDATE has no
   `AND status = 'pending'`. Of two overlapping answers the later replaces the
   earlier, and a session can be opened on an acceptance that was replaced.
   Nothing else replaces an answer: with answers apart `AnswerIsFinal` and the strong
   life cycle are theorems (`OverlapsReplaceAnswers`, `StrongLifecycleImplemented`).
2. **Online without a connection** (`ws/hub.go:267`). The heartbeat of a
   superseded connection can be written after the newer connection set the
   device offline. There are two more ways to the same end, both of them failures, which
   the run leaves out: the offline write of the last connection fails and is not repeated
   (`ws/hub.go:182`), or the process ends before the connections do and nothing resets the
   column at the next start. These are all: a device whose connections have come and
   gone and that is online is so for one of the three (`OnlineIsExplained`, proved as
   `StatusIsExplained`).
3. **A relay ends the process** (`ws/hub.go:200`). `NotifyDevice` may send on a
   channel that `unregister` has closed. In an HTTP handler the panic is
   recovered; in a `readPump` it is not, and ends the process once the deferred
   `unregister` has run. The unlock before the send is the whole
   cause: if the client stays in the map until it is written to, no notifier and no
   relay ever meets a closed channel (`LateWritesPanic`; what remains is the welcome
   of `HandleWS`, recovered). And the relay is the only way to end the process: every
   send of a `readPump` may meet a closed channel in the model, but only one to another
   device's connection, which has left the map since the lookup, ever does
   (`OnlyRelaysEndTheProcess`).

Not a run, because it is an intended change the document missed: `src/README.md:11`
speaks of sessions between devices of one user, the code and a test
(`sessions/service_test.go:13`) allow two users (`sessions/service.go:64`).

## 5. Proofs

All for arbitrary constants that satisfy the named assumptions of the modules.

**SessionService** (assumptions: `OwnerOf` is a function from devices to users,
`Statuses` are booleans, `TTL` and `MaxTime` are naturals, `None` is not an
identifier). `TypeOK`, `Consent`, `OneEndWins`, `NoticesAreTrue`,
`TokenConfined` and `OverIsFinal` are proved, and that the service implements
the weak `SessionLifecycle`. None of the invariants is inductive: what a call
does depends on what it checked some statements ago. `IInv` says, for each
value of `pc[h]`, what the call still knows about the rows it has read
(`JobOK`), what each row says about the history (`RequestOK`, `SessionOK`,
`AnswerOK`), and what notices and replies imply (`NoticeOK`, `ToldOK`). The
knowledge of one call survives the steps of the others because rows only grow:
an identifier is inserted once, keeps its ends, and an ended session stays
ended. `Grows` states that, the `...Stable` lemmas show that it preserves each
part of `IInv`, and each action then has one lemma about what it adds.
`OverStaysFinal` and `LifecycleImplemented` follow from `IInv` action by
action. The strong life cycle needs more: that what a call has read of the status
is still so when it writes (`UpToDate`). That is not invariant, because an answer may
be written over another; under `AnswersApart` it is, and then each step maps to the
strong life cycle (`StrongLifecycleImplemented`). With one handler `AnswersApart`
holds by itself (`SerialLifecycleImplemented`).

**WsHub** (assumptions: `DeviceOf` is a function from connections to devices,
`Capacity` is positive, `None` is no connection, connections are neither
notifiers nor the names of other goroutines, `MessageKinds` are kinds the hub knows).
`TypeOK`, `EntriesAreLive` and `ReplacedAreClosed` are proved, with and without stops
and failing writes. `IInv` adds what a goroutine may rely on: before the registration
nothing runs and the channel is open, a channel is open as long as its own `readPump`
is in its loop, and a `readPump` about to send holds a client of another device. Most
steps leave the map and the closed channels alone; one lemma (`Quiet`) serves them all,
and registration, the steps of `unregister` and the end of the process have their own.
`IInv` is also what the refinement of `ConnectionRegistry` needs
(`HubImplementsRegistry`), and, with its parts about channels and held clients, why only
a relay can panic in a `readPump` (`OnlyRelaysEndTheProcess`).
`StatusIsExplained` adds `Watched`: a device that a connection of this process has set
online, with nothing to blame, has a connection that will set it offline.

**FileTransfer** (assumptions: the constants are functions of their kinds,
`MaxFile` and `Attempts` are positive). All five invariants of the run are proved
for any number of uploads, attempts and sizes. The strengthening says, for each
step a call is at, what it knows: from `checked` on that the session admitted it,
from `copied` on that its file is whole, from `inserted` on that its row exists; a
row never goes, and a file only goes before its row exists. Two action properties
follow: what is stored stays whole (`StoredStays`), and each step of the client leaves
it fewer sends and pauses (`UploadsRunDown`), at most `2 * Attempts` of them.

**DeviceEnrollment** (assumptions: each device has a set of addresses, `None` and
`NoKey` are no identifiers). `TypeOK`, `AccountsAreSound`, `LoginsAgree` and the
action property `EnrolmentIsFinal` are proved for any number of calls at once. The
strengthening is about what a call has read: an account it is about to give a
device to exists, and a call at its update has read the owner it has now and, unless
the device is legacy, the very key it is about to write. `OverlapsReplaceKeys` adds
`KeyInv`: with updates apart the key a call is about to write, or has answered
with, is the one in the row, if there is one.

**ServerStart** (assumptions: `LimiterAssumption`, `MigrationAssumption`). `TypeOK`,
`RecordedIsMade`, `ListensOnSchema`, `OnlyCutOnesFail` and, for the limiter inside
it, `AttemptsAreBounded` for every limit, window and number of calls. The
strengthening of the first ones says how much of the file at hand is in the schema;
that of the limiter bounds, for each suffix of the grants, how many of them fall into
the current window and the one before. `BrokenStartsStayBroken` needs that `Broken`
is stable: the file at fault is never recorded, the objects it has made never go, and
a run that reaches it stops at the statement that makes one of them again.

**ClientSession** (assumptions `EndsAssumption`: a request has two different ends;
`BoundAssumption`: the bounds are naturals). `TypeOK`, `ShownIsConsented`,
`InputFollowsRole`, `StraysAreOverlaps` and `StaleWasTold` are proved for any number
of devices, requests, sessions and overlapping starts, without the state constraint
of the run. The strengthening says what every call, message and client knows of the
server's rows (`CallOK`, `MessageOK`, `ViewOK`); rows only grow (`Grows`), so that a
message late by any number of steps is still true. For `StaleWasTold` it follows the
call that ended a session: the requester is told first, the target second (`Told`),
and each one's message stays told, queued or lost, where lost is that very message for
that very device. `ServerImplementsLifecycle` shows that the server the clients meet is
one `SessionLifecycle` allows; expiry is a stutter there.

**ClientBootstrap** (assumptions `IdentityAssumption`: there is an identity, `None` is
none, the limit of closes is positive; `NoneAssumption`: `None` is not the result of a
call). `TypeOK`, `DeviceHasToken`, `ConnectedHasSocket` and `MismatchIsSkipped` are
proved for any number of chains of calls. The strengthening: over all stacks there is
at most one bootstrap; above a bootstrap that waits for a login or a registration
there is just that call, and its answer is about the current identity unless a
renewal was skipped.

`ShortChains` adds to it what a stack looks like (`ShapesOK`): a call that is not the
last frame has a recovery above it, and there is one recovery in it at the most; with
the one bootstrap that makes four frames. On it rests `ChainsEnd`: `StepsLeft` gives
each frame of a chain the steps it may still take and cause above it, and every step
of a chain lowers the sum, which is at most 25 when a chain starts. The hard case is
a call that recovers and is repeated: it pays for the recovery, the bootstrap in it
and the calls of both, while a call made within a recovery pays for its own
repetition only.

Proved and checked by no run, since a theorem for all constants says more than a small
instance: `HubImplementsRegistry`, `ServerImplementsLifecycle`, `StoredStays`,
`UploadsRunDown`, `ChainsRunDown`, `BrokenForGood`, `ConnectedHasSocket`,
`OnlyRelaysPanic`, and the theorems with a hypothesis on the behaviour
(`AnswersApart`, `HeldInPlace`, `UpdatesApart`). Each of these hypotheses holds in the behaviours where
the operations it is about do not overlap.

Only model-checked: the liveness properties, since reasoning with fairness and
ENABLED is beyond the prover here. Of `TasksEnd` and `UploadEnds` the proofs give the
measure that every step lowers; that a step is taken at all is the fairness and stays
with TLC. `LostIsCleanedUp`, `ConnectedIsOnline` and `Reconnects` rest on TLC alone.

## 6. Not modelled

See `components` in `PROJECT.json` for each part and the reason.

* Rendering (`ui.js`, `index.html`), the wording of messages, audit rows, lists that
  only read: no property depends on them.
* The native shell (`src-tauri`): each call is one call of the operating system and
  keeps nothing for the next.
* The cryptography of tokens, keys and passwords: they are compared, never computed.
* Reading the environment (`config.go`, `dotenv.go`): sequential, once, before
  anything else; its values are the constants of the models.
* The seed script: a development tool that inserts rows once.
* Frames and input events on their way (`session.js:87-130`, `165-263`, `276-293`):
  they change no state of the client; the relay and its validation are in
  `SessionService`. A client applies input it receives whatever session it shows.
* The remote folder browser (`app.js:451-468`, `514-670`): one outstanding request
  with an identifier and a timer; all it does to the rest is to choose the
  destination of an upload, which `FileTransfer` leaves open.
* Refresh tokens: issued and never used by the code.

## 7. Order of the work

The modules were written in the order of section 2, the services first because the
clients' models take their promises from them. What would come next: the folder
browser together with the destination it leaves behind when the session changes.
