-------------------------- MODULE DeviceEnrollment --------------------------
(***************************************************************************)
(* How a device gets an account and keeps it: device login                 *)
(* (auth/device_handler.go), registration of a device (devices/service.go),*)
(* accounts with a password (auth/service.go) and the middleware that      *)
(* admits the calls of a device (auth/middleware.go).                      *)
(*                                                                         *)
(* Calls run concurrently, each a sequence of single SQL statements: h is  *)
(* a call in progress, pc[h] its next statement and job[h] its variables.  *)
(* A key is represented by itself and not by its hash, and NoKey is the    *)
(* empty hash of the rows that are older than migration 002 or written by  *)
(* scripts/seed.  A call that is refused ends there and changes nothing.   *)
(***************************************************************************)
EXTENDS Integers

CONSTANTS
    Devices,   \* identifiers devices send
    Keys,      \* keys they send, which are not empty
    Emails,    \* e-mail addresses of accounts
    EmailsOf,  \* sanitizedDeviceEmailKey: the addresses a login may make the account of a
               \* device with; one, unless nothing of the identifier is left and it is random
    Personal,  \* bound: the addresses people register with
    Accounts,  \* identifiers NewID("usr") can return
    Legacy,    \* the devices whose row has no key at the start
    OldAccount, OldEmail, \* their account
    Handlers,  \* calls in progress at the same time
    NoKey, None

ASSUME EmailAssumption ==
    /\ EmailsOf \in [Devices -> SUBSET Emails]
    /\ Personal \subseteq Emails
    /\ OldEmail \in Personal
ASSUME LegacyAssumption == Legacy \subseteq Devices /\ OldAccount \in Accounts
ASSUME NoneAssumption ==
    /\ NoKey \notin Keys
    /\ None \notin Accounts \cup Devices \cup Emails \cup Keys \cup {NoKey}

VARIABLES
    email,    \* users.email of each account, None if there is no such row
    device,   \* devices.user_id and device_key_hash, of absent rows None
    pc, job,
    issued,   \* history: what device logins answered
    signedIn  \* the accounts a password login gave a token for

vars == <<email, device, pc, job, issued, signedIn>>

Steps == {"idle", "login_read", "login_auth", "login_insert", "login_email",
          "register_read", "register_update", "register_insert", "reply", "account_insert"}

Job == [device : Devices \cup {None}, key : Keys \cup {None}, account : Accounts \cup {None},
        login : BOOLEAN, email : Emails \cup {None}]

NoJob == [device |-> None, key |-> None, account |-> None, login |-> FALSE, email |-> None]

Absent == [owner |-> None, key |-> None]

Init ==
    /\ email = [a \in Accounts |-> IF a = OldAccount THEN OldEmail ELSE None]
    /\ device = [d \in Devices |-> IF d \in Legacy THEN [owner |-> OldAccount, key |-> NoKey]
                                   ELSE Absent]
    /\ pc = [h \in Handlers |-> "idle"]
    /\ job = [h \in Handlers |-> NoJob]
    /\ issued = {}
    /\ signedIn = {}

-----------------------------------------------------------------------------
\* The call of h goes on to step, with j for its variables, or is over.
Goto(h, step, j) ==
    /\ pc' = [pc EXCEPT ![h] = step]
    /\ job' = [job EXCEPT ![h] = j]

Finish(h) == Goto(h, "idle", NoJob)

Taken(e) == \E a \in Accounts : email[a] = e

\* Service.Authenticate, of a row that exists.
Authenticate(a, d, k) == device[d].owner = a /\ device[d].key = k

\* The middleware's condition on every call but the registration and /api/me.
Admits(a, d, k) == device[d] # Absent /\ Authenticate(a, d, k)

-----------------------------------------------------------------------------
(* DeviceHandler.Login: find or make the account, then register.           *)

LoginCall(h, d, k) ==
    /\ pc[h] = "idle"
    /\ Goto(h, "login_read", [NoJob EXCEPT !.device = d, !.key = k, !.login = TRUE])
    /\ UNCHANGED <<email, device, issued, signedIn>>

LoginRead(h) ==
    LET d == job[h].device
    IN  /\ pc[h] = "login_read"
        /\ \/ device[d] # Absent /\ Goto(h, "login_auth", [job[h] EXCEPT !.account = device[d].owner])
           \/ device[d] = Absent /\ Goto(h, "login_insert", job[h])
        /\ UNCHANGED <<email, device, issued, signedIn>>

\* Authenticate and Me, on the row as it is now.
LoginAuth(h) ==
    /\ pc[h] = "login_auth"
    /\ IF Authenticate(job[h].account, job[h].device, job[h].key)
       THEN Goto(h, "register_read", job[h])
       ELSE Finish(h)
    /\ UNCHANGED <<email, device, issued, signedIn>>

\* Mutant: a taken address is not looked up.
LoginInsert_NoFallback(h) ==
    /\ pc[h] = "login_insert"
    /\ \E e \in EmailsOf[job[h].device] :
        \/ /\ ~Taken(e)
           /\ \E a \in {x \in Accounts : email[x] = None} :
                 /\ email' = [email EXCEPT ![a] = e]
                 /\ Goto(h, "register_read", [job[h] EXCEPT !.account = a])
        \/ Taken(e) /\ Goto(h, "register_read", job[h]) /\ UNCHANGED email
    /\ UNCHANGED <<device, issued, signedIn>>

\* INSERT INTO users: a new account, unless its address is UNIQUE no more.
LoginInsert(h) ==
    /\ pc[h] = "login_insert"
    /\ \E e \in EmailsOf[job[h].device] :
        \/ /\ ~Taken(e)
           /\ \E a \in {x \in Accounts : email[x] = None} :
                 /\ email' = [email EXCEPT ![a] = e]
                 /\ Goto(h, "register_read", [job[h] EXCEPT !.account = a])
        \/ Taken(e) /\ Goto(h, "login_email", [job[h] EXCEPT !.email = e]) /\ UNCHANGED email
    /\ UNCHANGED <<device, issued, signedIn>>

\* The fallback: the account that has the address.
LoginEmail(h) ==
    /\ pc[h] = "login_email"
    /\ \E a \in Accounts :
          /\ email[a] = job[h].email
          /\ Goto(h, "register_read", [job[h] EXCEPT !.account = a, !.email = None])
    /\ UNCHANGED <<email, device, issued, signedIn>>

-----------------------------------------------------------------------------
(* devices.Service.Register, for a device login or with a user's token.    *)

RegisterCall(h, a, d, k) ==
    /\ pc[h] = "idle"
    /\ a \in signedIn \cup {x.account : x \in issued}
    /\ Goto(h, "register_read", [NoJob EXCEPT !.device = d, !.key = k, !.account = a])
    /\ UNCHANGED <<email, device, issued, signedIn>>

\* Mutant: the key of the row is not compared.
MayRegister_AnyKey(j) == device[j.device].owner = j.account

\* The row is the account's and has this key, or none.
MayRegister(j) == device[j.device].owner = j.account /\ device[j.device].key \in {j.key, NoKey}

\* A row without a key also needs the same machine name and MAC address, or
\* none, so such a registration may be refused.
RegisterRead(h) ==
    LET d == job[h].device
    IN  /\ pc[h] = "register_read"
        /\ \/ device[d] = Absent /\ Goto(h, "register_insert", job[h])
           \/ device[d] # Absent /\ MayRegister(job[h]) /\ Goto(h, "register_update", job[h])
           \/ /\ device[d] # Absent
              /\ ~MayRegister(job[h]) \/ device[d].key = NoKey
              /\ Finish(h)
        /\ UNCHANGED <<email, device, issued, signedIn>>

\* UPDATE devices ... WHERE id = ?: the key is written whatever it is by now.
RegisterUpdate(h) ==
    /\ pc[h] = "register_update"
    /\ device' = [device EXCEPT ![job[h].device].key = job[h].key]
    /\ Goto(h, "reply", job[h])
    /\ UNCHANGED <<email, issued, signedIn>>

\* Mutant: INSERT OR REPLACE.
RegisterInsert_OrReplace(h) ==
    LET j == job[h]
    IN  /\ pc[h] = "register_insert"
        /\ device' = [device EXCEPT ![j.device] = [owner |-> j.account, key |-> j.key]]
        /\ Goto(h, "reply", j)
        /\ UNCHANGED <<email, issued, signedIn>>

\* INSERT INTO devices: fails when the primary key is taken by now.
RegisterInsert(h) ==
    LET j == job[h]
    IN  /\ pc[h] = "register_insert"
        /\ \/ /\ device[j.device] = Absent
              /\ device' = [device EXCEPT ![j.device] = [owner |-> j.account, key |-> j.key]]
              /\ Goto(h, "reply", j)
           \/ device[j.device] # Absent /\ Finish(h) /\ UNCHANGED device
        /\ UNCHANGED <<email, issued, signedIn>>

\* Me, the tokens and the answer; a registration answers with the device.
Reply(h) ==
    LET j == job[h]
    IN  /\ pc[h] = "reply"
        /\ issued' = issued \cup
               {x \in {[device |-> j.device, key |-> j.key, account |-> j.account]} : j.login}
        /\ Finish(h)
        /\ UNCHANGED <<email, device, signedIn>>

-----------------------------------------------------------------------------
(* Accounts with a password.                                               *)

\* Register: the address is not taken when it is looked up.
AccountCall(h, e) ==
    /\ pc[h] = "idle"
    /\ ~Taken(e)
    /\ Goto(h, "account_insert", [NoJob EXCEPT !.email = e])
    /\ UNCHANGED <<email, device, issued, signedIn>>

\* Mutant: without the UNIQUE constraint.
AccountInsert_NotUnique(h) ==
    /\ pc[h] = "account_insert"
    /\ \E a \in {x \in Accounts : email[x] = None} :
          email' = [email EXCEPT ![a] = job[h].email]
    /\ Finish(h)
    /\ UNCHANGED <<device, issued, signedIn>>

\* The statement fails (ErrEmailExists) when the address is taken by now.
AccountInsert(h) ==
    /\ pc[h] = "account_insert"
    /\ \/ /\ ~Taken(job[h].email)
          /\ \E a \in {x \in Accounts : email[x] = None} :
                email' = [email EXCEPT ![a] = job[h].email]
       \/ Taken(job[h].email) /\ UNCHANGED email
    /\ Finish(h)
    /\ UNCHANGED <<device, issued, signedIn>>

\* Login, with the password of the account.
PasswordLogin(a) ==
    /\ email[a] \in Personal
    /\ signedIn' = signedIn \cup {a}
    /\ UNCHANGED <<email, device, pc, job, issued>>

-----------------------------------------------------------------------------
\* A statement of a call fails, or its request is cancelled.
CallFails(h) ==
    /\ pc[h] # "idle"
    /\ Finish(h)
    /\ UNCHANGED <<email, device, issued, signedIn>>

Call(h) == \/ \E d \in Devices, k \in Keys : LoginCall(h, d, k)
           \/ \E a \in Accounts, d \in Devices, k \in Keys : RegisterCall(h, a, d, k)
           \/ \E e \in Personal : AccountCall(h, e)

Continue(h) == \/ LoginRead(h) \/ LoginAuth(h) \/ LoginInsert(h) \/ LoginEmail(h)
               \/ RegisterRead(h) \/ RegisterUpdate(h) \/ RegisterInsert(h) \/ Reply(h)
               \/ AccountInsert(h)

Next == \/ \E h \in Handlers : Call(h) \/ Continue(h) \/ CallFails(h)
        \/ \E a \in Accounts : PasswordLogin(a)

Spec == Init /\ [][Next]_vars

-----------------------------------------------------------------------------
TypeOK ==
    /\ email \in [Accounts -> Emails \cup {None}]
    /\ device \in [Devices -> [owner : Accounts, key : Keys \cup {NoKey}] \cup {Absent}]
    /\ pc \in [Handlers -> Steps]
    /\ job \in [Handlers -> Job]
    /\ issued \subseteq [device : Devices, key : Keys, account : Accounts]
    /\ signedIn \subseteq Accounts

\* No two accounts have one address, although the look-up and the insert of a
\* registration are two statements (auth/service.go:41-75), and the account of
\* a device is one that exists.
AccountsAreSound ==
    /\ \A a, b \in Accounts : email[a] = email[b] /\ email[a] # None => a = b
    /\ \A d \in Devices : device[d] # Absent => email[device[d].owner] # None

\* Whatever two first logins, a registration and a lost answer do to each
\* other, every device login that was answered named one and the same account,
\* the one the device still belongs to, and the middleware still admits its key
\* (device_handler.go:121-181, service.go:78-143).  A device whose row had no
\* key is excepted from the last part: two registrations that both read the
\* empty key both write theirs.
LoginsAgree ==
    \A x \in issued :
        /\ device[x.device].owner = x.account
        /\ x.device \notin Legacy => Admits(x.account, x.device, x.key)

\* A device never changes hands, and its key, once set at the insert, is never
\* replaced, although no statement of Register compares what it overwrites
\* (service.go:99-110).
EnrolmentIsFinal ==
    [][\A d \in Devices : device[d] # Absent =>
          /\ device'[d].owner = device[d].owner
          /\ d \notin Legacy => device'[d].key = device[d].key
          /\ device[d].key # NoKey => device'[d].key # NoKey]_vars

\* Registrations of a device that are both about to write the key send the same one.
UpdatesApart ==
    \A g, h \in Handlers :
        pc[g] = "register_update" /\ pc[h] = "register_update" /\ job[g].device = job[h].device =>
            job[g].key = job[h].key

\* Also of a row that had no key the key is final, once it is set ...
KeyIsFinal ==
    [][\A d \in Devices : device[d] # Absent /\ device[d].key # NoKey => device'[d].key = device[d].key]_vars

\* ... and the key a login was answered with is still admitted (service.go:78-110).
LoginsStayAdmitted == \A x \in issued : Admits(x.account, x.device, x.key)
=============================================================================
