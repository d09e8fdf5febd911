-------------------------- MODULE LoginRateLimiter --------------------------
(***************************************************************************)
(* auth/ratelimit.go: a counter and the end of its window for each client  *)
(* address, kept in memory.  A call reads the clock before it takes the    *)
(* lock (ratelimit.go:45-46), and other calls may take the lock between.   *)
(***************************************************************************)
EXTENDS Integers, Sequences

CONSTANTS
    Addresses, \* what clientIP returns
    Calls,     \* logins in progress at the same time
    Limit,     \* LOGIN_RATE_LIMIT, which may be zero or negative
    Window,    \* LOGIN_RATE_WINDOW, in units of the clock
    MaxTime,   \* bound of the clock
    NoCall

ASSUME LimiterAssumption ==
    /\ Limit \in Int
    /\ Window \in Nat /\ MaxTime \in Nat
    /\ NoCall \notin Addresses \X Nat

VARIABLES
    now,     \* time.Now()
    entries, \* RateLimiter.entries
    call,    \* the address and the reading of the clock of each call
    grants   \* history: when each address was let through

limiter == <<now, entries, call, grants>>

\* No entry: a window that is over for every reading of the clock.
NoEntry == [count |-> 0, windowEnd |-> -1]

LimiterInit ==
    /\ entries = [a \in Addresses |-> NoEntry]
    /\ call = [c \in Calls |-> NoCall]
    /\ grants = [a \in Addresses |-> <<>>]

\* NewRateLimiter, in a new process.
NewLimiter ==
    /\ entries' = [a \in Addresses |-> NoEntry]
    /\ call' = [c \in Calls |-> NoCall]
    /\ grants' = [a \in Addresses |-> <<>>]

\* allow: the clock is read.
ReadClock(c, a) ==
    /\ call[c] = NoCall
    /\ call' = [call EXCEPT ![c] = <<a, now>>]
    /\ UNCHANGED <<now, entries, grants>>

\* Mutant: one more than the limit.
Admits_OneMore(e) == e.count <= Limit

\* The window has room.
Admits(e) == e.count < Limit

\* allow, under the lock: a new window, one more in this one, or a refusal.
Allow(c) ==
    /\ call[c] # NoCall
    /\ LET a == call[c][1]
           t == call[c][2]
           e == entries[a]
       IN  \/ /\ t > e.windowEnd
              /\ entries' = [entries EXCEPT ![a] = [count |-> 1, windowEnd |-> t + Window]]
              /\ grants' = [grants EXCEPT ![a] = Append(@, now)]
           \/ /\ t <= e.windowEnd /\ Admits(e)
              /\ entries' = [entries EXCEPT ![a].count = @ + 1]
              /\ grants' = [grants EXCEPT ![a] = Append(@, now)]
           \/ /\ t <= e.windowEnd /\ ~Admits(e)
              /\ UNCHANGED <<entries, grants>>
    /\ call' = [call EXCEPT ![c] = NoCall]
    /\ UNCHANGED now

\* The clock.  Assumed, and not guaranteed by the code: a call that has read it takes
\* the lock before it moves twice.
Tick ==
    /\ now < MaxTime
    /\ \A c \in Calls : call[c] # NoCall => call[c][2] = now
    /\ now' = now + 1
    /\ UNCHANGED <<entries, call, grants>>

LimiterTypeOK ==
    /\ now \in Nat
    /\ entries \in [Addresses -> [count : Nat, windowEnd : Int]]
    /\ call \in [Calls -> (Addresses \X Nat) \cup {NoCall}]
    /\ grants \in [Addresses -> Seq(Nat)]

\* What a window lets through: its first call is not compared with the limit.
Most == IF Limit > 1 THEN Limit ELSE 1

\* As long as a call gets the lock within a unit of reading the clock (Tick), and
\* wherever the windows begin, an address gets through at most twice the limit in any
\* span as long as a window (ratelimit.go:44-60).
AttemptsAreBounded ==
    \A a \in Addresses : \A i \in DOMAIN grants[a] :
        i + 2 * Most \in DOMAIN grants[a] => grants[a][i + 2 * Most] - grants[a][i] > Window
=============================================================================
