----------------------- MODULE DeviceEnrollment_proofs -----------------------
(***************************************************************************)
(* Proofs about DeviceEnrollment, for all sets of devices, keys, accounts  *)
(* and calls.  Rows of users and devices only grow (Grows), so that what a *)
(* call has read of them still holds when it writes: this is why an UPDATE *)
(* that compares nothing does not replace a key.                           *)
(***************************************************************************)
EXTENDS DeviceEnrollment, TLAPS

Grows ==
    /\ \A a \in Accounts : email[a] # None => email'[a] = email[a]
    /\ \A d \in Devices : device[d] # Absent =>
          /\ device'[d] # Absent
          /\ device'[d].owner = device[d].owner
          /\ d \notin Legacy => device'[d].key = device[d].key
          /\ device[d].key # NoKey => device'[d].key # NoKey

RowOK(d) ==
    device[d] # Absent => /\ device[d] \in [owner : Accounts, key : Keys \cup {NoKey}]
                          /\ email[device[d].owner] # None
                          /\ d \notin Legacy => device[d].key # NoKey

\* The call registers a device for an account that exists.
Names(h) ==
    /\ job[h].device \in Devices /\ job[h].key \in Keys
    /\ job[h].account \in Accounts /\ email[job[h].account] # None

\* The row the call has read or written is still the one it names.
Knows(h) ==
    /\ device[job[h].device] # Absent
    /\ device[job[h].device].owner = job[h].account
    /\ job[h].device \notin Legacy => device[job[h].device].key = job[h].key

JobOK(h) ==
    /\ pc[h] \in {"login_read", "login_insert", "login_email"} =>
          job[h].device \in Devices /\ job[h].key \in Keys
    /\ pc[h] \in {"login_auth", "register_read", "register_update", "register_insert", "reply"} => Names(h)
    /\ pc[h] \in {"register_update", "reply"} => Knows(h)
    /\ pc[h] \in {"login_email", "account_insert"} => job[h].email \in Emails

IssuedOK(x) ==
    /\ email[x.account] # None
    /\ device[x.device] # Absent
    /\ device[x.device].owner = x.account
    /\ x.device \notin Legacy => device[x.device].key = x.key

IInv ==
    /\ TypeOK
    /\ \A a, b \in Accounts : email[a] = email[b] /\ email[a] # None => a = b
    /\ \A d \in Devices : RowOK(d)
    /\ \A h \in Handlers : JobOK(h)
    /\ \A x \in issued : IssuedOK(x)
    /\ \A a \in signedIn : email[a] # None

LEMMA Consequences == IInv => AccountsAreSound /\ LoginsAgree
  BY DEF IInv, TypeOK, RowOK, IssuedOK, AccountsAreSound, LoginsAgree, Admits, Authenticate

LEMMA InitOK == Init => IInv
<1> SUFFICES ASSUME Init PROVE IInv
  OBVIOUS
<1> USE EmailAssumption, LegacyAssumption, NoneAssumption DEF Init
<1>1. TypeOK
  BY DEF TypeOK, Absent, NoJob, Job, Steps
<1>2. \A d \in Devices : RowOK(d)
  BY DEF RowOK, Absent
<1>3. \A h \in Handlers : JobOK(h)
  BY DEF JobOK
<1>4. QED
  BY <1>1, <1>2, <1>3 DEF IInv

\* A step that lets rows only grow keeps what the invariant says of the calls
\* and answers it does not touch.
LEMMA Step ==
    ASSUME IInv, NEW h \in Handlers, TypeOK', Grows,
           \A g \in Handlers \ {h} : pc'[g] = pc[g] /\ job'[g] = job[g],
           JobOK(h)',
           \A x \in issued' \ issued : IssuedOK(x)',
           signedIn' = signedIn,
           \A d \in Devices : device'[d] # device[d] => RowOK(d)',
           \A a, b \in Accounts : email'[a] = email'[b] /\ email'[a] # None => a = b
    PROVE  IInv'
<1>1. ASSUME NEW a \in Accounts, email[a] # None PROVE email'[a] # None
  BY <1>1 DEF Grows
<1>2. ASSUME NEW d \in Devices PROVE RowOK(d)'
  BY <1>1, <1>2 DEF IInv, RowOK
<1>3. ASSUME NEW g \in Handlers PROVE JobOK(g)'
  <2>1. CASE g = h
    BY <2>1
  <2>2. CASE g # h
    <3>1. JobOK(g) /\ pc'[g] = pc[g] /\ job'[g] = job[g]
      BY <2>2 DEF IInv
    <3>2. Names(g) => Names(g)'
      BY <1>1, <3>1 DEF Names
    <3>3. Names(g) /\ Knows(g) => Knows(g)'
      BY <3>1 DEF Names, Knows, Grows
    <3>4. QED
      BY <3>1, <3>2, <3>3 DEF JobOK
  <2>3. QED
    BY <2>1, <2>2
<1>4. ASSUME NEW x \in issued' PROVE IssuedOK(x)'
  <2>1. CASE x \in issued
    <3>1. IssuedOK(x) /\ x.device \in Devices /\ x.account \in Accounts
      BY <2>1 DEF IInv, TypeOK
    <3>2. QED
      BY <1>1, <3>1 DEF IssuedOK, Grows
  <2>2. QED
    BY <2>1
<1>5. \A a \in signedIn' : email'[a] # None
  BY <1>1 DEF IInv, TypeOK
<1>6. QED
  BY <1>2, <1>3, <1>4, <1>5 DEF IInv

LEMMA GotoType ==
    ASSUME TypeOK, NEW h \in Handlers, NEW s \in Steps, NEW j \in Job, Goto(h, s, j)
    PROVE  /\ pc' \in [Handlers -> Steps] /\ job' \in [Handlers -> Job]
           /\ pc'[h] = s /\ job'[h] = j
           /\ \A g \in Handlers \ {h} : pc'[g] = pc[g] /\ job'[g] = job[g]
  BY DEF TypeOK, Goto

\* A step that only moves the call of h on.
LEMMA MoveOK ==
    ASSUME IInv, NEW h \in Handlers, NEW s \in Steps, NEW j \in Job, Goto(h, s, j), JobOK(h)',
           UNCHANGED <<email, device, issued, signedIn>>
    PROVE  IInv'
<1>1. TypeOK' /\ Grows
  BY GotoType DEF IInv, TypeOK, Grows
<1>2. QED
  BY <1>1, GotoType, Step DEF IInv

LEMMA NoJobType == NoJob \in Job
  BY DEF NoJob, Job

LEMMA FinishOK ==
    ASSUME IInv, NEW h \in Handlers, Finish(h), UNCHANGED <<email, device, issued, signedIn>>
    PROVE  IInv'
<1>1. "idle" \in Steps
  BY DEF Steps
<1>2. Goto(h, "idle", NoJob)
  BY DEF Finish
<1>3. pc'[h] = "idle"
  BY <1>1, <1>2, GotoType, NoJobType DEF IInv
<1>4. JobOK(h)'
  BY <1>3 DEF JobOK
<1>5. QED
  BY <1>1, <1>2, <1>4, MoveOK, NoJobType

\* The steps that begin a call.
LEMMA CallOK == ASSUME IInv, NEW h \in Handlers, Call(h) PROVE IInv'
<1> USE DEF Steps
<1>1. ASSUME NEW d \in Devices, NEW k \in Keys, LoginCall(h, d, k) PROVE IInv'
  <2> DEFINE j == [NoJob EXCEPT !.device = d, !.key = k, !.login = TRUE]
  <2>1. j \in Job /\ j.device = d /\ j.key = k
    BY DEF NoJob, Job
  <2>2. pc'[h] = "login_read" /\ job'[h] = j
    BY <1>1, <2>1, GotoType DEF LoginCall, IInv
  <2>3. JobOK(h)'
    BY <2>1, <2>2 DEF JobOK
  <2>4. QED
    BY <1>1, <2>1, <2>3, MoveOK DEF LoginCall
<1>2. ASSUME NEW a \in Accounts, NEW d \in Devices, NEW k \in Keys, RegisterCall(h, a, d, k) PROVE IInv'
  <2> DEFINE j == [NoJob EXCEPT !.device = d, !.key = k, !.account = a]
  <2>1. j \in Job /\ j.device = d /\ j.key = k /\ j.account = a
    BY DEF NoJob, Job
  <2>2. pc'[h] = "register_read" /\ job'[h] = j
    BY <1>2, <2>1, GotoType DEF RegisterCall, IInv
  <2>3. email'[a] # None
    BY <1>2 DEF RegisterCall, IInv, IssuedOK
  <2>4. JobOK(h)'
    BY <2>1, <2>2, <2>3 DEF JobOK, Names
  <2>5. QED
    BY <1>2, <2>1, <2>4, MoveOK DEF RegisterCall
<1>3. ASSUME NEW e \in Personal, AccountCall(h, e) PROVE IInv'
  <2> DEFINE j == [NoJob EXCEPT !.email = e]
  <2>1. j \in Job /\ j.email \in Emails
    BY EmailAssumption DEF NoJob, Job
  <2>2. pc'[h] = "account_insert" /\ job'[h] = j
    BY <1>3, <2>1, GotoType DEF AccountCall, IInv
  <2>3. JobOK(h)'
    BY <2>1, <2>2 DEF JobOK
  <2>4. QED
    BY <1>3, <2>1, <2>3, MoveOK DEF AccountCall
<1>4. QED
  BY <1>1, <1>2, <1>3 DEF Call

\* The steps that read.
LEMMA ReadOK ==
    ASSUME IInv, NEW h \in Handlers,
           LoginRead(h) \/ LoginAuth(h) \/ LoginEmail(h) \/ RegisterRead(h)
    PROVE  IInv'
<1> USE DEF Steps
<1>0. job[h] \in Job /\ JobOK(h) /\ \A d \in Devices : RowOK(d)
  BY DEF IInv, TypeOK
<1>1. CASE LoginRead(h)
  <2> DEFINE d == job[h].device
             j == [job[h] EXCEPT !.account = device[d].owner]
  <2>1. d \in Devices /\ job[h].key \in Keys
    BY <1>0, <1>1 DEF LoginRead, JobOK
  <2>2. CASE device[d] # Absent /\ Goto(h, "login_auth", j)
    <3>1. j \in Job /\ j.device = d /\ j.key = job[h].key /\ j.account = device[d].owner
          /\ j.account \in Accounts /\ email[j.account] # None
      BY <1>0, <2>1, <2>2 DEF RowOK, Job
    <3>2. pc'[h] = "login_auth" /\ job'[h] = j
      BY <2>2, <3>1, GotoType DEF IInv
    <3>3. JobOK(h)'
      BY <1>1, <2>1, <3>1, <3>2 DEF JobOK, Names, LoginRead
    <3>4. QED
      BY <1>1, <2>2, <3>1, <3>3, MoveOK DEF LoginRead
  <2>3. CASE Goto(h, "login_insert", job[h])
    <3>1. pc'[h] = "login_insert" /\ job'[h] = job[h]
      BY <1>0, <2>3, GotoType DEF IInv
    <3>2. JobOK(h)'
      BY <2>1, <3>1 DEF JobOK
    <3>3. QED
      BY <1>0, <1>1, <2>3, <3>2, MoveOK DEF LoginRead
  <2>4. QED
    BY <1>1, <2>2, <2>3 DEF LoginRead
<1>2. CASE LoginAuth(h)
  <2>1. CASE Goto(h, "register_read", job[h])
    <3>1. pc'[h] = "register_read" /\ job'[h] = job[h]
      BY <1>0, <2>1, GotoType DEF IInv
    <3>2. JobOK(h)'
      BY <1>0, <1>2, <3>1 DEF JobOK, Names, LoginAuth
    <3>3. QED
      BY <1>0, <1>2, <2>1, <3>2, MoveOK DEF LoginAuth
  <2>2. QED
    BY <1>2, <2>1, FinishOK DEF LoginAuth
<1>3. CASE LoginEmail(h)
  <2>1. PICK a \in Accounts : /\ email[a] = job[h].email
                              /\ Goto(h, "register_read", [job[h] EXCEPT !.account = a, !.email = None])
    BY <1>3 DEF LoginEmail
  <2> DEFINE j == [job[h] EXCEPT !.account = a, !.email = None]
  <2>2. job[h].device \in Devices /\ job[h].key \in Keys /\ email[a] # None
    BY <1>0, <1>3, <2>1, NoneAssumption DEF LoginEmail, JobOK
  <2>3. j \in Job /\ j.device = job[h].device /\ j.key = job[h].key /\ j.account = a
    BY <1>0 DEF Job
  <2>4. pc'[h] = "register_read" /\ job'[h] = j
    BY <2>1, <2>3, GotoType DEF IInv
  <2>5. JobOK(h)'
    BY <1>3, <2>2, <2>3, <2>4 DEF JobOK, Names, LoginEmail
  <2>6. QED
    BY <1>3, <2>1, <2>3, <2>5, MoveOK DEF LoginEmail
<1>4. CASE RegisterRead(h)
  <2>1. Names(h)
    BY <1>0, <1>4 DEF RegisterRead, JobOK
  <2>2. CASE Goto(h, "register_insert", job[h])
    <3>1. pc'[h] = "register_insert" /\ job'[h] = job[h]
      BY <1>0, <2>2, GotoType DEF IInv
    <3>2. JobOK(h)'
      BY <1>4, <2>1, <3>1 DEF JobOK, Names, RegisterRead
    <3>3. QED
      BY <1>0, <1>4, <2>2, <3>2, MoveOK DEF RegisterRead
  <2>3. CASE /\ device[job[h].device] # Absent
             /\ MayRegister(job[h])
             /\ Goto(h, "register_update", job[h])
    <3>1. pc'[h] = "register_update" /\ job'[h] = job[h]
      BY <1>0, <2>3, GotoType DEF IInv
    <3>2. Knows(h)
      BY <1>0, <2>1, <2>3 DEF Names, Knows, MayRegister, RowOK
    <3>3. JobOK(h)'
      BY <1>4, <2>1, <3>1, <3>2 DEF JobOK, Names, Knows, RegisterRead
    <3>4. QED
      BY <1>0, <1>4, <2>3, <3>3, MoveOK DEF RegisterRead
  <2>4. QED
    BY <1>4, <2>2, <2>3, FinishOK DEF RegisterRead
<1>5. QED
  BY <1>1, <1>2, <1>3, <1>4

\* The steps that write to users.
LEMMA AccountOK ==
    ASSUME IInv, NEW h \in Handlers, LoginInsert(h) \/ AccountInsert(h)
    PROVE  IInv' /\ Grows
<1> USE DEF Steps
<1>0. job[h] \in Job /\ JobOK(h)
  BY DEF IInv, TypeOK
<1>1. ASSUME NEW a \in Accounts, NEW e \in Emails, email[a] = None, ~Taken(e),
             email' = [email EXCEPT ![a] = e], UNCHANGED <<device, issued, signedIn>>,
             NEW s \in Steps, NEW j \in Job, Goto(h, s, j), JobOK(h)'
      PROVE  IInv' /\ Grows
  <2>1. TypeOK' /\ Grows
    BY <1>1, GotoType DEF IInv, TypeOK, Grows
  <2>2. \A x, y \in Accounts : email'[x] = email'[y] /\ email'[x] # None => x = y
    BY <1>1 DEF IInv, TypeOK, Taken
  <2>3. QED
    BY <1>1, <2>1, <2>2, GotoType, Step DEF IInv
<1>2. CASE LoginInsert(h)
  <2>1. PICK e \in EmailsOf[job[h].device] :
           \/ /\ ~Taken(e)
              /\ \E a \in {x \in Accounts : email[x] = None} :
                    /\ email' = [email EXCEPT ![a] = e]
                    /\ Goto(h, "register_read", [job[h] EXCEPT !.account = a])
           \/ Goto(h, "login_email", [job[h] EXCEPT !.email = e]) /\ UNCHANGED email
    BY <1>2 DEF LoginInsert
  <2>2. job[h].device \in Devices /\ job[h].key \in Keys /\ e \in Emails
    BY <1>0, <1>2, <2>1, EmailAssumption DEF LoginInsert, JobOK
  <2>3. ASSUME NEW a \in Accounts, email[a] = None, ~Taken(e), email' = [email EXCEPT ![a] = e],
               Goto(h, "register_read", [job[h] EXCEPT !.account = a])
        PROVE  IInv' /\ Grows
    <3> DEFINE j == [job[h] EXCEPT !.account = a]
    <3>1. j \in Job /\ j.device = job[h].device /\ j.key = job[h].key /\ j.account = a
      BY <1>0 DEF Job
    <3>2. pc'[h] = "register_read" /\ job'[h] = j /\ email'[a] = e /\ e # None
      BY <2>2, <2>3, <3>1, GotoType, NoneAssumption DEF IInv, TypeOK
    <3>3. JobOK(h)'
      BY <2>2, <3>1, <3>2 DEF JobOK, Names
    <3>4. QED
      BY <1>1, <1>2, <2>2, <2>3, <3>1, <3>3 DEF LoginInsert
  <2>4. CASE Goto(h, "login_email", [job[h] EXCEPT !.email = e]) /\ UNCHANGED email
    <3> DEFINE j == [job[h] EXCEPT !.email = e]
    <3>1. j \in Job /\ j.device = job[h].device /\ j.key = job[h].key /\ j.email = e
      BY <1>0, <2>2 DEF Job
    <3>2. pc'[h] = "login_email" /\ job'[h] = j
      BY <2>4, <3>1, GotoType DEF IInv
    <3>3. JobOK(h)'
      BY <2>2, <3>1, <3>2 DEF JobOK
    <3>4. QED
      BY <1>2, <2>4, <3>1, <3>3, MoveOK DEF LoginInsert, Grows
  <2>5. QED
    BY <2>1, <2>3, <2>4
<1>3. CASE AccountInsert(h)
  <2>1. job[h].email \in Emails
    BY <1>0, <1>3 DEF AccountInsert, JobOK
  <2>2. Goto(h, "idle", NoJob) /\ JobOK(h)'
    BY <1>3, GotoType, NoJobType DEF AccountInsert, Finish, JobOK, IInv
  <2>3. CASE UNCHANGED email
    BY <1>3, <2>3, FinishOK DEF AccountInsert, Grows
  <2>4. QED
    BY <1>1, <1>3, <2>1, <2>2, <2>3, NoJobType DEF AccountInsert
<1>4. QED
  BY <1>2, <1>3

\* The steps that write to devices: the row is new, or it is the one the call
\* has read and, unless it had no key, it is written the key it has.
LEMMA RegisterOK ==
    ASSUME IInv, NEW h \in Handlers, RegisterUpdate(h) \/ RegisterInsert(h)
    PROVE  IInv' /\ Grows
<1> USE DEF Steps
<1>0. job[h] \in Job /\ JobOK(h) /\ Names(h)
  BY DEF IInv, TypeOK, JobOK, RegisterUpdate, RegisterInsert
<1> DEFINE d == job[h].device
           j == job[h]
<1>1. ASSUME NEW r \in [owner : Accounts, key : Keys], r.owner = j.account, r.key = j.key,
             device' = [device EXCEPT ![d] = r], Goto(h, "reply", j), Grows,
             UNCHANGED <<email, issued, signedIn>>
      PROVE  IInv'
  <2>1. device'[d] = r /\ \A x \in Devices \ {d} : device'[x] = device[x]
    BY <1>0, <1>1 DEF Names, IInv, TypeOK
  <2>2. r # Absent /\ r.key # NoKey
    BY <1>0, <1>1, NoneAssumption DEF Absent, Names
  <2>3. TypeOK'
    <3>1. r \in [owner : Accounts, key : Keys \cup {NoKey}]
      BY <1>1
    <3>2. QED
      BY <1>0, <1>1, <3>1, GotoType DEF IInv, TypeOK
  <2>4. JobOK(h)'
    <3>1. pc'[h] = "reply" /\ job'[h] = j
      BY <1>0, <1>1, GotoType DEF IInv
    <3>2. QED
      BY <1>0, <1>1, <2>1, <2>2, <3>1 DEF JobOK, Names, Knows
  <2>5. \A x \in Devices : device'[x] # device[x] => RowOK(x)'
    BY <1>0, <1>1, <2>1, <2>2 DEF RowOK, Names
  <2>6. QED
    BY <1>0, <1>1, <2>3, <2>4, <2>5, GotoType, Step DEF IInv
<1>2. CASE RegisterUpdate(h)
  <2> DEFINE r == [device[d] EXCEPT !.key = j.key]
  <2>1. RowOK(d) /\ Knows(h) /\ device[d] # Absent
    BY <1>0, <1>2 DEF RegisterUpdate, JobOK, Knows, Names, IInv
  <2>2. r \in [owner : Accounts, key : Keys] /\ r.owner = j.account /\ r.key = j.key
    BY <1>0, <2>1 DEF RowOK, Knows, Names
  <2>3. device' = [device EXCEPT ![d] = r]
    BY <1>2 DEF RegisterUpdate
  <2>4. Grows
    BY <1>0, <1>2, <2>1, <2>2, <2>3, NoneAssumption DEF RegisterUpdate, Grows, Knows, Names, IInv, TypeOK, Absent
  <2>5. QED
    BY <1>1, <1>2, <2>2, <2>3, <2>4 DEF RegisterUpdate
<1>3. CASE RegisterInsert(h)
  <2> DEFINE r == [owner |-> j.account, key |-> j.key]
  <2>1. CASE device[d] = Absent /\ device' = [device EXCEPT ![d] = r] /\ Goto(h, "reply", j)
    <3>1. r \in [owner : Accounts, key : Keys] /\ r.owner = j.account /\ r.key = j.key
      BY <1>0 DEF Names
    <3>2. Grows
      BY <1>3, <2>1 DEF RegisterInsert, Grows, IInv, TypeOK
    <3>3. QED
      BY <1>1, <1>3, <2>1, <3>1, <3>2 DEF RegisterInsert
  <2>2. CASE Finish(h) /\ UNCHANGED device
    BY <1>3, <2>2, FinishOK DEF RegisterInsert, Grows
  <2>3. QED
    BY <1>3, <2>1, <2>2 DEF RegisterInsert
<1>4. QED
  BY <1>2, <1>3

LEMMA ReplyOK == ASSUME IInv, NEW h \in Handlers, Reply(h) PROVE IInv'
<1> DEFINE j == job[h]
           x == [device |-> j.device, key |-> j.key, account |-> j.account]
<1>1. Names(h) /\ Knows(h)
  BY DEF Reply, IInv, JobOK
<1>2. Goto(h, "idle", NoJob) /\ "idle" \in Steps
  BY DEF Reply, Finish, Steps
<1>3. TypeOK' /\ Grows
  BY <1>1, <1>2, GotoType, NoJobType DEF Reply, IInv, TypeOK, Names, Grows
<1>4. JobOK(h)'
  BY <1>2, GotoType, NoJobType DEF JobOK, IInv
<1>5. ASSUME NEW y \in issued' \ issued PROVE IssuedOK(y)'
  <2>1. y = x
    BY <1>5 DEF Reply
  <2>2. email[y.account] # None /\ device[y.device] # Absent /\ device[y.device].owner = y.account
        /\ (y.device \notin Legacy => device[y.device].key = y.key)
    BY <1>1, <2>1 DEF Names, Knows
  <2>3. QED
    BY <2>2 DEF Reply, IssuedOK
<1>6. QED
  BY <1>2, <1>3, <1>4, <1>5, GotoType, NoJobType, Step DEF Reply, IInv

LEMMA NextOK == ASSUME IInv, [Next]_vars PROVE IInv' /\ Grows
<1>1. CASE UNCHANGED vars
  BY <1>1 DEF vars, IInv, TypeOK, RowOK, JobOK, Names, Knows, IssuedOK, Grows
<1>2. ASSUME NEW h \in Handlers, Call(h) PROVE IInv' /\ Grows
  BY <1>2, CallOK DEF Call, LoginCall, RegisterCall, AccountCall, Grows
<1>3. ASSUME NEW h \in Handlers, LoginRead(h) \/ LoginAuth(h) \/ LoginEmail(h) \/ RegisterRead(h)
      PROVE  IInv' /\ Grows
  BY <1>3, ReadOK DEF LoginRead, LoginAuth, LoginEmail, RegisterRead, Grows
<1>4. ASSUME NEW h \in Handlers, Reply(h) PROVE IInv' /\ Grows
  BY <1>4, ReplyOK DEF Reply, Grows
<1>5. ASSUME NEW h \in Handlers, CallFails(h) PROVE IInv' /\ Grows
  BY <1>5, FinishOK DEF CallFails, Grows
<1>6. ASSUME NEW a \in Accounts, PasswordLogin(a) PROVE IInv' /\ Grows
  <2>1. email[a] # None
    BY <1>6, EmailAssumption, NoneAssumption DEF PasswordLogin
  <2>2. QED
    BY <1>6, <2>1 DEF PasswordLogin, IInv, TypeOK, RowOK, JobOK, Names, Knows, IssuedOK, Grows
<1>7. QED
  BY <1>1, <1>2, <1>3, <1>4, <1>5, <1>6, AccountOK, RegisterOK DEF Next, Continue

\* Every reachable state has types.
THEOREM EnrollmentTypes == Spec => []TypeOK
<1>1. IInv => TypeOK
  BY DEF IInv
<1>2. QED
  BY <1>1, InitOK, NextOK, PTL DEF Spec

\* Addresses are unique and a device's account exists.
THEOREM SoundAccounts == Spec => []AccountsAreSound
  BY InitOK, NextOK, Consequences, PTL DEF Spec

\* All answers to logins of a device named the account it still belongs to.
THEOREM AgreeingLogins == Spec => []LoginsAgree
  BY InitOK, NextOK, Consequences, PTL DEF Spec

\* A device keeps its owner, and its key unless its row had none.
THEOREM FinalEnrolment == Spec => EnrolmentIsFinal
<1>1. IInv /\ [Next]_vars =>
          [\A d \in Devices : device[d] # Absent =>
              /\ device'[d].owner = device[d].owner
              /\ d \notin Legacy => device'[d].key = device[d].key
              /\ device[d].key # NoKey => device'[d].key # NoKey]_vars
  BY NextOK DEF Grows
<1>2. QED
  BY <1>1, InitOK, NextOK, PTL DEF Spec, EnrolmentIsFinal

-----------------------------------------------------------------------------
(* Rows that had no key.  Only registrations that both read the empty key  *)
(* and both write theirs can replace a key.                                *)

KeyKnown(h) ==
    /\ pc[h] = "register_update" => device[job[h].device].key \in {job[h].key, NoKey}
    /\ pc[h] = "reply" => device[job[h].device].key = job[h].key

KeyInv ==
    /\ \A h \in Handlers : KeyKnown(h)
    /\ \A x \in issued : device[x.device].key = x.key

LEMMA GotoGives ==
    ASSUME IInv, NEW h \in Handlers, NEW s, NEW j, Goto(h, s, j)
    PROVE  /\ pc'[h] = s /\ job'[h] = j
           /\ \A g \in Handlers \ {h} : pc'[g] = pc[g] /\ job'[g] = job[g]
  BY DEF IInv, TypeOK, Goto

\* The steps that write to devices.
LEMMA DevicesStay ==
    ASSUME [Next]_vars, ~\E g \in Handlers : RegisterUpdate(g) \/ RegisterInsert(g)
    PROVE  device' = device
  BY DEF Next, Call, Continue, LoginCall, RegisterCall, AccountCall, LoginRead, LoginAuth, LoginInsert, LoginEmail,
         RegisterRead, Reply, AccountInsert, CallFails, PasswordLogin, vars

\* An UPDATE writes the key of the row, or the first one.
LEMMA UpdateWrites ==
    ASSUME IInv, KeyInv, NEW g \in Handlers, RegisterUpdate(g)
    PROVE  /\ job[g].device \in Devices /\ job[g].key \in Keys
           /\ device'[job[g].device].key = job[g].key
           /\ device[job[g].device].key \in {job[g].key, NoKey}
           /\ \A d \in Devices \ {job[g].device} : device'[d] = device[d]
<1>1. Names(g) /\ Knows(g) /\ KeyKnown(g)
  BY DEF RegisterUpdate, IInv, JobOK, KeyInv
<1>2. device[job[g].device] \in [owner : Accounts, key : Keys \cup {NoKey}]
  BY <1>1 DEF Names, Knows, IInv, RowOK
<1>3. QED
  BY <1>1, <1>2 DEF RegisterUpdate, Names, KeyKnown, IInv, TypeOK

LEMMA InsertWrites ==
    ASSUME IInv, NEW g \in Handlers, RegisterInsert(g)
    PROVE  /\ job[g].device \in Devices
           /\ device'[job[g].device] = device[job[g].device] \/ device[job[g].device] = Absent
           /\ \A d \in Devices \ {job[g].device} : device'[d] = device[d]
<1>1. Names(g)
  BY DEF RegisterInsert, IInv, JobOK
<1>2. QED
  BY <1>1 DEF RegisterInsert, Names, IInv, TypeOK

LEMMA KeysStay ==
    ASSUME IInv, KeyInv, [Next]_vars, NEW d \in Devices, device[d] # Absent, device[d].key # NoKey
    PROVE  device'[d].key = device[d].key
<1>1. ASSUME NEW g \in Handlers, RegisterUpdate(g) PROVE device'[d].key = device[d].key
  BY <1>1, UpdateWrites
<1>2. ASSUME NEW g \in Handlers, RegisterInsert(g) PROVE device'[d].key = device[d].key
  BY <1>2, InsertWrites
<1>3. QED
  BY <1>1, <1>2, DevicesStay

\* What a call knows of the key stays true when the others take a step.
LEMMA OthersKeyKnown ==
    ASSUME IInv, KeyInv, UpdatesApart, [Next]_vars, NEW h \in Handlers, pc'[h] = pc[h], job'[h] = job[h],
           ~RegisterUpdate(h)
    PROVE  KeyKnown(h)'
<1>1. CASE pc[h] \in {"register_update", "reply"}
  <2> DEFINE d == job[h].device
  <2>1. /\ d \in Devices /\ job[h].key \in Keys /\ job[h].key # NoKey /\ device[d] # Absent
        /\ KeyKnown(h)
    BY <1>1, NoneAssumption DEF IInv, JobOK, Names, Knows, KeyInv
  <2>2. CASE device[d].key = job[h].key
    <3>1. device'[d].key = job[h].key
      BY <2>1, <2>2, KeysStay
    <3>2. QED
      BY <3>1 DEF KeyKnown
  <2>3. CASE pc[h] = "register_update" /\ device[d].key = NoKey
    <3>1. ASSUME NEW g \in Handlers, RegisterUpdate(g) PROVE device'[d].key \in {job[h].key, NoKey}
      <4>1. CASE job[g].device = d
        BY <2>3, <3>1, <4>1, UpdateWrites DEF UpdatesApart, RegisterUpdate
      <4>2. CASE job[g].device # d
        BY <2>1, <2>3, <3>1, <4>2, UpdateWrites
      <4>3. QED
        BY <4>1, <4>2
    <3>2. ASSUME NEW g \in Handlers, RegisterInsert(g) PROVE device'[d].key \in {job[h].key, NoKey}
      BY <2>1, <2>3, <3>2, InsertWrites
    <3>3. device'[d].key \in {job[h].key, NoKey}
      BY <2>3, <3>1, <3>2, DevicesStay
    <3>4. QED
      BY <2>3, <3>3 DEF KeyKnown
  <2>4. QED
    BY <1>1, <2>1, <2>2, <2>3 DEF KeyKnown
<1>2. CASE pc[h] \notin {"register_update", "reply"}
  BY <1>2 DEF KeyKnown
<1>3. QED
  BY <1>1, <1>2

\* The call that takes the step.
LEMMA OwnKeyKnown ==
    ASSUME IInv, KeyInv, NEW h \in Handlers, Call(h) \/ Continue(h) \/ CallFails(h)
    PROVE  /\ KeyKnown(h)'
           /\ \A g \in Handlers \ {h} : pc'[g] = pc[g] /\ job'[g] = job[g]
<1>1. ASSUME NEW s, NEW j, Goto(h, s, j), s \notin {"register_update", "reply"}
      PROVE  /\ KeyKnown(h)'
             /\ \A g \in Handlers \ {h} : pc'[g] = pc[g] /\ job'[g] = job[g]
  BY <1>1, GotoGives DEF KeyKnown
<1>2. CASE Finish(h)
  BY <1>1, <1>2 DEF Finish
<1>3. CASE Call(h)
  <2>1. \E s \in {"login_read", "register_read", "account_insert"} : \E j : Goto(h, s, j)
    BY <1>3 DEF Call, LoginCall, RegisterCall, AccountCall
  <2>2. QED
    BY <1>1, <2>1
<1>4. CASE LoginRead(h) \/ LoginAuth(h) \/ LoginInsert(h) \/ LoginEmail(h)
  <2>1. Finish(h) \/ \E s \in {"login_auth", "login_insert", "register_read", "login_email"} : \E j : Goto(h, s, j)
    BY <1>4 DEF LoginRead, LoginAuth, LoginInsert, LoginEmail
  <2>2. QED
    BY <1>1, <1>2, <2>1
<1>5. CASE RegisterRead(h)
  <2>1. CASE MayRegister(job[h]) /\ Goto(h, "register_update", job[h])
    BY <1>5, <2>1, GotoGives DEF RegisterRead, MayRegister, KeyKnown
  <2>2. QED
    BY <1>1, <1>2, <1>5, <2>1 DEF RegisterRead
<1>6. CASE RegisterUpdate(h)
  <2>1. /\ pc'[h] = "reply" /\ job'[h] = job[h]
        /\ \A g \in Handlers \ {h} : pc'[g] = pc[g] /\ job'[g] = job[g]
    BY <1>6, GotoGives DEF RegisterUpdate
  <2>2. device'[job[h].device].key = job[h].key
    BY <1>6, UpdateWrites
  <2>3. QED
    BY <2>1, <2>2 DEF KeyKnown
<1>7. CASE RegisterInsert(h)
  <2>1. CASE /\ device' = [device EXCEPT ![job[h].device] = [owner |-> job[h].account, key |-> job[h].key]]
             /\ Goto(h, "reply", job[h])
    <3>1. job[h].device \in Devices
      BY <1>7, InsertWrites
    <3>2. QED
      BY <2>1, <3>1, GotoGives DEF KeyKnown, IInv, TypeOK
  <2>2. QED
    BY <1>2, <1>7, <2>1 DEF RegisterInsert
<1>8. CASE Reply(h) \/ AccountInsert(h) \/ CallFails(h)
  BY <1>2, <1>8 DEF Reply, AccountInsert, CallFails
<1>9. QED
  BY <1>3, <1>4, <1>5, <1>6, <1>7, <1>8 DEF Continue

LEMMA KeyInvNext == IInv /\ KeyInv /\ UpdatesApart /\ [Next]_vars => KeyInv'
<1> SUFFICES ASSUME IInv, KeyInv, UpdatesApart, [Next]_vars PROVE KeyInv'
  OBVIOUS
<1>1. ASSUME NEW x \in issued PROVE device'[x.device].key = x.key
  <2>1. x.device \in Devices /\ device[x.device] # Absent /\ device[x.device].key = x.key /\ x.key # NoKey
    BY NoneAssumption DEF IInv, TypeOK, IssuedOK, KeyInv
  <2>2. QED
    BY <2>1, KeysStay
<1>2. ASSUME NEW x \in issued' \ issued PROVE device'[x.device].key = x.key
  <2>1. PICK h \in Handlers : Reply(h)
    BY <1>2 DEF Next, Call, Continue, LoginCall, RegisterCall, AccountCall, LoginRead, LoginAuth, LoginInsert, LoginEmail,
         RegisterRead, RegisterUpdate, RegisterInsert, AccountInsert, CallFails, PasswordLogin, vars
  <2>2. x.device = job[h].device /\ x.key = job[h].key /\ device' = device /\ pc[h] = "reply"
    BY <1>2, <2>1 DEF Reply
  <2>3. QED
    BY <2>2 DEF KeyInv, KeyKnown
<1>3. ASSUME NEW h \in Handlers PROVE KeyKnown(h)'
  <2>1. CASE Call(h) \/ Continue(h) \/ CallFails(h)
    BY <2>1, OwnKeyKnown
  <2>2. ASSUME NEW g \in Handlers, g # h, Call(g) \/ Continue(g) \/ CallFails(g), ~Continue(h) PROVE KeyKnown(h)'
    BY <2>2, OwnKeyKnown, OthersKeyKnown DEF Continue
  <2>3. CASE (UNCHANGED vars \/ \E a \in Accounts : PasswordLogin(a)) /\ ~Continue(h)
    BY <2>3, OthersKeyKnown DEF vars, PasswordLogin, Continue
  <2>4. QED
    BY <2>1, <2>2, <2>3 DEF Next
<1>4. QED
  BY <1>1, <1>2, <1>3 DEF KeyInv

\* A key is never replaced and a login stays admitted, of a row that had no key
\* too, unless two registrations with different keys have both found it without.
THEOREM OverlapsReplaceKeys == Spec /\ []UpdatesApart => KeyIsFinal /\ []LoginsStayAdmitted
<1>1. Init => KeyInv
  BY DEF Init, KeyInv, KeyKnown
<1>2. IInv /\ KeyInv => LoginsStayAdmitted
  BY DEF IInv, IssuedOK, KeyInv, LoginsStayAdmitted, Admits, Authenticate
<1>3. IInv /\ KeyInv /\ [Next]_vars =>
        [\A d \in Devices : device[d] # Absent /\ device[d].key # NoKey => device'[d].key = device[d].key]_vars
  BY KeysStay
<1>4. IInv /\ [Next]_vars => IInv'
  BY NextOK
<1>5. QED
  BY <1>1, <1>2, <1>3, <1>4, InitOK, KeyInvNext, PTL DEF Spec, KeyIsFinal
=============================================================================
