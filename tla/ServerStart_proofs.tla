------------------------- MODULE ServerStart_proofs -------------------------
(***************************************************************************)
(* Proofs about ServerStart and its LoginRateLimiter, for all lists of     *)
(* migrations, limits and windows.  Ran says where an object that is made  *)
(* without IF NOT EXISTS can come from; WindowOK relates the counter and   *)
(* the end of a window to the times of the calls let through.              *)
(***************************************************************************)
EXTENDS ServerStart, TLAPS

-----------------------------------------------------------------------------
(* The rate limiter.                                                       *)

\* The last count grants of g are of the window that ends at end and began at
\* end - Window; those before it were let through by then, and those of the
\* windows before the last one a whole window earlier.
WindowOK(g, count, end, t) ==
    /\ count <= Most /\ count <= Len(g)
    /\ end - Window <= t
    /\ \A i \in 1 .. Len(g) : g[i] <= end + 1
    /\ \A i \in 1 .. Len(g) - count : g[i] <= end - Window
    /\ \A i \in 1 .. Len(g) - count - Most : g[i] + Window < end - Window
    /\ \A i \in 1 .. Len(g) - 2 * Most : g[i + 2 * Most] - g[i] > Window

EntryOK(a) == WindowOK(grants[a], entries[a].count, entries[a].windowEnd, now)

CallsOK == \A c \in Calls : call[c] # NoCall => call[c][2] <= now /\ now <= call[c][2] + 1

LimiterInv == LimiterTypeOK /\ CallsOK /\ \A a \in Addresses : EntryOK(a)

LEMMA MostPositive == Most \in Nat \ {0} /\ Limit <= Most
  BY LimiterAssumption DEF Most

LEMMA LimiterNew ==
    /\ now \in Nat /\ LimiterInit => LimiterInv
    /\ LimiterInv /\ NewLimiter /\ UNCHANGED now => LimiterInv'
<1>0. ASSUME NEW t \in Nat PROVE WindowOK(<<>>, 0, -1, t)
  BY MostPositive, LimiterAssumption DEF WindowOK
<1>1. ASSUME now \in Nat, LimiterInit PROVE LimiterInv
  BY <1>0, <1>1 DEF LimiterInit, LimiterInv, LimiterTypeOK, CallsOK, EntryOK, NoEntry
<1>2. ASSUME LimiterInv, NewLimiter, UNCHANGED now PROVE LimiterInv'
  BY <1>0, <1>2 DEF NewLimiter, LimiterInv, LimiterTypeOK, CallsOK, EntryOK, NoEntry
<1>3. QED
  BY <1>1, <1>2

\* A grant at time x that opens a window at t.
LEMMA Opens ==
    ASSUME NEW g \in Seq(Nat), NEW count \in Nat, NEW end \in Int, NEW x \in Nat, NEW t \in Nat,
           WindowOK(g, count, end, x), t > end, t <= x, x <= t + 1
    PROVE  WindowOK(Append(g, x), 1, t + Window, x)
<1> DEFINE h == Append(g, x)
           n == Len(g)
<1>1. n \in Nat /\ Len(h) = n + 1 /\ h[n + 1] = x /\ \A i \in 1 .. n : h[i] = g[i] /\ g[i] \in Nat
  OBVIOUS
<1>2. Window \in Nat /\ Most \in Nat \ {0}
  BY LimiterAssumption, MostPositive
<1> HIDE DEF h, n
<1>e. PICK c \in Nat, e \in Int : c = 1 /\ e = t + Window
  BY <1>2
<1>3. count <= Most /\ count <= n
  BY DEF WindowOK, n
<1>4. \A i \in 1 .. n : g[i] <= t
  BY <1>1, <1>2 DEF WindowOK, n
<1>5. \A i \in 1 .. n - Most : g[i] + Window < t
  <2> TAKE i \in 1 .. n - Most
  <2>1. i \in 1 .. n - count
    BY <1>1, <1>2, <1>3
  <2>2. g[i] <= end - Window /\ g[i] \in Nat
    BY <1>1, <1>2, <1>3, <2>1 DEF WindowOK, n
  <2>3. QED
    BY <1>2, <2>2
<1>6. \A i \in 1 .. Len(h) - 2 * Most : h[i + 2 * Most] - h[i] > Window
  <2> TAKE i \in 1 .. Len(h) - 2 * Most
  <2>1. CASE i = n + 1 - 2 * Most
    <3>1. i \in 1 .. n - Most /\ i \in 1 .. n /\ i + 2 * Most = n + 1
      BY <1>1, <1>2, <2>1
    <3>2. g[i] + Window < t /\ h[i] = g[i] /\ g[i] \in Nat /\ h[i + 2 * Most] = x
      BY <1>1, <1>5, <3>1
    <3>3. QED
      BY <1>2, <3>2
  <2>2. CASE i # n + 1 - 2 * Most
    <3>1. i \in 1 .. n - 2 * Most /\ i \in 1 .. n /\ i + 2 * Most \in 1 .. n
      BY <1>1, <1>2, <2>2
    <3>2. g[i + 2 * Most] - g[i] > Window
      BY <3>1 DEF WindowOK, n
    <3>3. QED
      BY <1>1, <3>1, <3>2
  <2>3. QED
    BY <2>1, <2>2
<1>7. \A i \in 1 .. Len(h) : h[i] <= e + 1
  <2> TAKE i \in 1 .. Len(h)
  <2>1. CASE i = n + 1
    BY <1>e, <1>1, <1>2, <2>1
  <2>2. CASE i # n + 1
    <3>1. i \in 1 .. n
      BY <1>1, <2>2
    <3>2. h[i] = g[i] /\ g[i] <= t /\ g[i] \in Nat
      BY <1>1, <1>4, <3>1
    <3>3. QED
      BY <1>e, <1>2, <3>2
  <2>3. QED
    BY <2>1, <2>2
<1>8. /\ \A i \in 1 .. Len(h) - c : h[i] <= e - Window
      /\ \A i \in 1 .. Len(h) - c - Most : h[i] + Window < e - Window
  <2>1. ASSUME NEW i \in 1 .. Len(h) - c PROVE h[i] <= e - Window
    <3>1. i \in 1 .. n
      BY <1>e, <1>1
    <3>2. h[i] = g[i] /\ g[i] <= t /\ g[i] \in Nat
      BY <1>1, <1>4, <3>1
    <3>3. QED
      BY <1>e, <1>2, <3>2
  <2>2. ASSUME NEW i \in 1 .. Len(h) - c - Most PROVE h[i] + Window < e - Window
    <3>1. i \in 1 .. n /\ i \in 1 .. n - Most
      BY <1>e, <1>1, <1>2
    <3>2. h[i] = g[i] /\ g[i] + Window < t /\ g[i] \in Nat
      BY <1>1, <1>5, <3>1
    <3>3. QED
      BY <1>e, <1>2, <3>2
  <2>3. QED
    BY <2>1, <2>2
<1>9. c <= Most /\ c <= Len(h) /\ e - Window <= x
  BY <1>e, <1>1, <1>2
<1>10. WindowOK(h, c, e, x)
  BY <1>6, <1>7, <1>8, <1>9, Zenon DEF WindowOK
<1>11. QED
  BY <1>e, <1>10 DEF h

\* A grant at time x within a window that has room.
LEMMA Counts ==
    ASSUME NEW g \in Seq(Nat), NEW count \in Nat, NEW end \in Int, NEW x \in Nat, NEW t \in Nat,
           WindowOK(g, count, end, x), t <= end, x <= t + 1, count < Limit
    PROVE  WindowOK(Append(g, x), count + 1, end, x)
<1> DEFINE h == Append(g, x)
           n == Len(g)
<1>1. n \in Nat /\ Len(h) = n + 1 /\ h[n + 1] = x /\ \A i \in 1 .. n : h[i] = g[i] /\ g[i] \in Nat
  OBVIOUS
<1>2. Window \in Nat /\ Most \in Nat \ {0} /\ Limit \in Int /\ Limit <= Most
  BY LimiterAssumption, MostPositive
<1> HIDE DEF h, n
<1>3. count + 1 <= Most /\ count <= n /\ count + 1 <= Len(h) /\ end - Window <= x
  BY <1>1, <1>2 DEF WindowOK, n
<1>4. \A i \in 1 .. Len(h) - 2 * Most : h[i + 2 * Most] - h[i] > Window
  <2> TAKE i \in 1 .. Len(h) - 2 * Most
  <2>1. CASE i = n + 1 - 2 * Most
    <3>1. i \in 1 .. n - count - Most /\ i \in 1 .. n /\ i + 2 * Most = n + 1
      BY <1>1, <1>2, <1>3, <2>1
    <3>2. g[i] + Window < end - Window /\ h[i] = g[i] /\ g[i] \in Nat /\ h[i + 2 * Most] = x
      BY <1>1, <3>1 DEF WindowOK, n
    <3>3. QED
      BY <1>2, <1>3, <3>2
  <2>2. CASE i # n + 1 - 2 * Most
    <3>1. i \in 1 .. n - 2 * Most /\ i \in 1 .. n /\ i + 2 * Most \in 1 .. n
      BY <1>1, <1>2, <2>2
    <3>2. g[i + 2 * Most] - g[i] > Window
      BY <3>1 DEF WindowOK, n
    <3>3. QED
      BY <1>1, <3>1, <3>2
  <2>3. QED
    BY <2>1, <2>2
<1>5. \A i \in 1 .. Len(h) : h[i] <= end + 1
  <2> TAKE i \in 1 .. Len(h)
  <2>1. CASE i = n + 1
    BY <1>1, <2>1
  <2>2. CASE i # n + 1
    <3>1. i \in 1 .. n
      BY <1>1, <2>2
    <3>2. QED
      BY <1>1, <3>1 DEF WindowOK, n
  <2>3. QED
    BY <2>1, <2>2
<1>6. Len(h) - (count + 1) = n - count /\ Len(h) - (count + 1) - Most = n - count - Most
  BY <1>1, <1>2
<1>7. /\ \A i \in 1 .. Len(h) - (count + 1) : h[i] <= end - Window
      /\ \A i \in 1 .. Len(h) - (count + 1) - Most : h[i] + Window < end - Window
  <2>1. /\ \A i \in 1 .. n - count : i \in 1 .. n
        /\ \A i \in 1 .. n - count - Most : i \in 1 .. n
    BY <1>1, <1>2
  <2>2. QED
    BY <1>1, <1>6, <2>1 DEF WindowOK, n
<1>8. WindowOK(h, count + 1, end, x)
  BY <1>3, <1>4, <1>5, <1>7, Zenon DEF WindowOK
<1>9. QED
  BY <1>8 DEF h

LEMMA AllowOK == ASSUME LimiterInv, NEW c \in Calls, Allow(c) PROVE LimiterInv'
<1>0. PICK a \in Addresses, t \in Nat : call[c] = <<a, t>>
  BY DEF Allow, LimiterInv, LimiterTypeOK
<1>1. /\ call[c] # NoCall /\ call[c] = <<a, t>> /\ call[c][1] = a /\ call[c][2] = t
      /\ now' = now /\ now \in Nat /\ Window \in Nat
  BY <1>0, LimiterAssumption DEF Allow, LimiterInv, LimiterTypeOK
<1>2. CallsOK'
  BY <1>1 DEF Allow, LimiterInv, LimiterTypeOK, CallsOK
<1>3. LimiterTypeOK'
  <2>1. /\ entries[a].count + 1 \in Nat /\ t + Window \in Int
        /\ Append(grants[a], now) \in Seq(Nat)
    BY <1>1 DEF LimiterInv, LimiterTypeOK
  <2>2. entries' \in [Addresses -> [count : Nat, windowEnd : Int]]
    <3>1. CASE entries' = [entries EXCEPT ![call[c][1]] = [count |-> 1, windowEnd |-> call[c][2] + Window]]
      BY <1>1, <2>1, <3>1 DEF LimiterInv, LimiterTypeOK
    <3>2. CASE entries' = [entries EXCEPT ![call[c][1]].count = @ + 1]
      BY <1>1, <2>1, <3>2 DEF LimiterInv, LimiterTypeOK
    <3>3. CASE entries' = entries
      BY <3>3 DEF LimiterInv, LimiterTypeOK
    <3>4. QED
      BY <3>1, <3>2, <3>3 DEF Allow
  <2>3. grants' \in [Addresses -> Seq(Nat)]
    <3>1. CASE grants' = [grants EXCEPT ![call[c][1]] = Append(@, now)]
      BY <1>1, <2>1, <3>1 DEF LimiterInv, LimiterTypeOK
    <3>2. CASE grants' = grants
      BY <3>2 DEF LimiterInv, LimiterTypeOK
    <3>3. QED
      BY <3>1, <3>2 DEF Allow
  <2>4. QED
    BY <1>1, <2>2, <2>3 DEF Allow, LimiterInv, LimiterTypeOK
<1>4. EntryOK(a)'
  <2> DEFINE e == entries[a]
             g == grants[a]
  <2>1. /\ EntryOK(a) /\ e \in [count : Nat, windowEnd : Int] /\ g \in Seq(Nat)
        /\ t <= now /\ now <= t + 1
    BY <1>1 DEF LimiterInv, LimiterTypeOK, CallsOK, Allow
  <2>2. CASE t > e.windowEnd
    <3>1. entries'[a] = [count |-> 1, windowEnd |-> t + Window] /\ grants'[a] = Append(g, now)
      BY <1>1, <2>1, <2>2 DEF Allow, LimiterInv, LimiterTypeOK
    <3>2. WindowOK(Append(g, now), 1, t + Window, now)
      BY <1>1, <2>1, <2>2, Opens DEF EntryOK
    <3>3. QED
      BY <1>1, <3>1, <3>2 DEF EntryOK
  <2>3. CASE t <= e.windowEnd /\ e.count < Limit
    <3>1. /\ entries'[a].count = e.count + 1 /\ entries'[a].windowEnd = e.windowEnd
          /\ grants'[a] = Append(g, now)
      BY <1>1, <2>1, <2>3 DEF Allow, Admits, LimiterInv, LimiterTypeOK
    <3>2. WindowOK(Append(g, now), e.count + 1, e.windowEnd, now)
      BY <1>1, <2>1, <2>3, Counts DEF EntryOK
    <3>3. QED
      BY <1>1, <3>1, <3>2 DEF EntryOK
  <2>4. CASE t <= e.windowEnd /\ ~(e.count < Limit)
    <3>1. entries' = entries /\ grants' = grants
      BY <1>1, <2>1, <2>4 DEF Allow, Admits
    <3>2. QED
      BY <1>1, <2>1, <3>1 DEF EntryOK
  <2>5. QED
    BY <1>1, <2>1, <2>2, <2>3, <2>4
<1>5. ASSUME NEW b \in Addresses \ {a} PROVE EntryOK(b)'
  <2>1. entries'[b] = entries[b] /\ grants'[b] = grants[b]
    BY <1>1 DEF Allow, LimiterInv, LimiterTypeOK
  <2>2. QED
    BY <1>1, <2>1 DEF LimiterInv, EntryOK
<1>6. QED
  BY <1>2, <1>3, <1>4, <1>5 DEF LimiterInv

LEMMA LimiterSteps ==
    ASSUME LimiterInv, Tick \/ UNCHANGED limiter \/ \E c \in Calls, a \in Addresses : ReadClock(c, a)
    PROVE  LimiterInv'
<1>1. CASE UNCHANGED limiter
  BY <1>1 DEF limiter, LimiterInv, LimiterTypeOK, CallsOK, EntryOK
<1>2. CASE Tick
  <2>1. LimiterTypeOK' /\ CallsOK'
    BY <1>2 DEF Tick, LimiterInv, LimiterTypeOK, CallsOK
  <2>2. ASSUME NEW a \in Addresses PROVE EntryOK(a)'
    <3>1. EntryOK(a) /\ entries[a].windowEnd \in Int /\ now \in Nat /\ Window \in Nat
      BY LimiterAssumption DEF LimiterInv, LimiterTypeOK
    <3>2. entries' = entries /\ grants' = grants /\ now' = now + 1
      BY <1>2 DEF Tick
    <3>3. QED
      BY <3>1, <3>2 DEF EntryOK, WindowOK
  <2>3. QED
    BY <2>1, <2>2 DEF LimiterInv
<1>3. ASSUME NEW c \in Calls, NEW a \in Addresses, ReadClock(c, a) PROVE LimiterInv'
  <2>1. LimiterTypeOK' /\ CallsOK'
    BY <1>3 DEF ReadClock, LimiterInv, LimiterTypeOK, CallsOK
  <2>2. QED
    BY <1>3, <2>1 DEF ReadClock, LimiterInv, EntryOK
<1>4. QED
  BY <1>1, <1>2, <1>3

LEMMA LimiterBound == LimiterInv => AttemptsAreBounded
<1> SUFFICES ASSUME LimiterInv, NEW a \in Addresses, NEW i \in DOMAIN grants[a],
                    i + 2 * Most \in DOMAIN grants[a]
             PROVE  grants[a][i + 2 * Most] - grants[a][i] > Window
  BY DEF AttemptsAreBounded
<1>1. grants[a] \in Seq(Nat) /\ EntryOK(a)
  BY DEF LimiterInv, LimiterTypeOK
<1>2. i \in 1 .. Len(grants[a]) - 2 * Most
  BY <1>1, MostPositive
<1>3. QED
  BY <1>1, <1>2 DEF EntryOK, WindowOK
-----------------------------------------------------------------------------
(* The start of the server.                                                *)

Done(m) == \A n \in 1 .. m : n \in recorded

\* The statement i of m has run although m is not recorded.
Underway(m, i) == m = at /\ (phase = "record" \/ (phase = "exec" /\ i < stmt))

BootInv ==
    /\ TypeOK
    /\ \A m \in recorded : Made(m) /\ m <= shipped /\ Done(m)
    /\ phase = "check" => Done(at - 1)
    /\ phase \in {"exec", "record"} => at <= shipped /\ at \notin recorded /\ Done(at - 1)
    /\ phase = "exec" => \A i \in 1 .. stmt - 1 : Statements[at][i] \in schema
    /\ phase = "record" => Made(at)
    /\ phase \in {"seed", "listening"} => Done(shipped)
    /\ \A m \in Migrations : \A i \in 1 .. Len(Statements[m]) :
          Statements[m][i] \in schema \ Tolerant => m \in recorded \/ m \in cut \/ Underway(m, i)

LEMMA BootConsequences == BootInv => RecordedIsMade /\ ListensOnSchema /\ OnlyCutOnesFail
<1> SUFFICES ASSUME BootInv PROVE RecordedIsMade /\ ListensOnSchema /\ OnlyCutOnesFail
  OBVIOUS
<1>1. RecordedIsMade
  BY DEF BootInv, RecordedIsMade, Done
<1>2. ListensOnSchema
  BY DEF BootInv, ListensOnSchema, Done
<1>3. OnlyCutOnesFail
  BY DEF BootInv, TypeOK, OnlyCutOnesFail, Repeats, Underway
<1>4. QED
  BY <1>1, <1>2, <1>3

LEMMA BootInit == Init => BootInv /\ LimiterInv
<1> SUFFICES ASSUME Init PROVE BootInv /\ LimiterInv
  OBVIOUS
<1>1. LimiterInv
  BY LimiterNew DEF Init
<1>2. TypeOK
  <2>1. Last \in Nat \ {0} /\ Shipped \in Migrations
    BY MigrationAssumption
  <2>2. 1 \in 1 .. Last + 1
    BY <2>1
  <2>3. seeded \in BOOLEAN
    BY Zenon DEF Init
  <2>4. QED
    BY <1>1, <2>1, <2>2, <2>3 DEF Init, TypeOK, LimiterInv, Phases
<1>3. QED
  BY <1>1, <1>2 DEF Init, BootInv

\* What happens to the objects and records in a step, apart from types.
LEMMA ExecOK == ASSUME BootInv, Exec, LimiterTypeOK' PROVE BootInv'
<1> DEFINE o == Statements[at][stmt]
<1>1. /\ at \in Migrations /\ stmt \in 1 .. Len(Statements[at]) /\ Len(Statements[at]) \in Nat
      /\ schema' = schema \cup {o} /\ at' = at /\ recorded' = recorded /\ shipped' = shipped /\ cut' = cut
      /\ phase = "exec"
  BY MigrationAssumption DEF Exec, BootInv, TypeOK
<1>2. o \in Objects
  BY <1>1, MigrationAssumption DEF Objects
<1>3. TypeOK'
  BY <1>1, <1>2 DEF Exec, BootInv, TypeOK, Phases
<1>4. \A m \in Migrations : Made(m) => Made(m)'
  BY <1>1 DEF Made
<1>5. \A i \in 1 .. stmt : Statements[at][i] \in schema'
  BY <1>1 DEF BootInv
<1>6. CASE stmt < Len(Statements[at]) /\ stmt' = stmt + 1 /\ phase' = phase
  <2>1. ASSUME NEW m \in Migrations, NEW i \in 1 .. Len(Statements[m]), Statements[m][i] \in schema' \ Tolerant
        PROVE  m \in recorded' \/ m \in cut' \/ Underway(m, i)'
    <3>1. CASE Statements[m][i] \in schema
      BY <1>1, <1>6, <2>1, <3>1 DEF BootInv, Underway
    <3>2. CASE Statements[m][i] = o
      BY <1>1, <1>6, <2>1, <3>2, MigrationAssumption DEF Underway
    <3>3. QED
      BY <1>1, <2>1, <3>1, <3>2
  <2>2. QED
    BY <1>1, <1>3, <1>4, <1>5, <1>6, <2>1 DEF BootInv, TypeOK, Done
<1>7. CASE stmt = Len(Statements[at]) /\ phase' = "record" /\ stmt' = stmt
  <2>1. ASSUME NEW m \in Migrations, NEW i \in 1 .. Len(Statements[m]), Statements[m][i] \in schema' \ Tolerant
        PROVE  m \in recorded' \/ m \in cut' \/ Underway(m, i)'
    <3>1. CASE Statements[m][i] \in schema
      BY <1>1, <1>7, <2>1, <3>1 DEF BootInv, Underway
    <3>2. CASE Statements[m][i] = o
      BY <1>1, <1>7, <2>1, <3>2, MigrationAssumption DEF Underway
    <3>3. QED
      BY <1>1, <2>1, <3>1, <3>2
  <2>2. Made(at)'
    BY <1>1, <1>5, <1>7 DEF Made
  <2>3. QED
    BY <1>1, <1>3, <1>4, <1>7, <2>1, <2>2 DEF BootInv, TypeOK, Done
<1>8. QED
  BY <1>6, <1>7 DEF Exec

LEMMA RecordOK == ASSUME BootInv, Record, LimiterTypeOK' PROVE BootInv'
<1>1. /\ at \in Nat /\ at \in 1 .. shipped /\ shipped \in 1 .. Last /\ Last \in Nat /\ Made(at) /\ Done(at - 1)
      /\ phase = "record" /\ phase' = "check" /\ at' = at + 1 /\ recorded' = recorded \cup {at}
      /\ schema' = schema /\ shipped' = shipped /\ cut' = cut /\ stmt' = stmt
  BY MigrationAssumption DEF Record, BootInv, TypeOK, Migrations
<1>2. TypeOK'
  <2>1. at \in 1 .. Last /\ at + 1 \in 1 .. Last + 1
    BY <1>1
  <2>2. seeded' \in BOOLEAN
    BY DEF Record, BootInv, TypeOK
  <2>3. recorded' \subseteq Migrations /\ schema' \subseteq Objects /\ cut' \subseteq Migrations
    BY <1>1, <2>1 DEF BootInv, TypeOK, Migrations
  <2>4. QED
    BY <1>1, <2>1, <2>2, <2>3 DEF BootInv, TypeOK, Phases
<1>3. ASSUME NEW n \in 1 .. at PROVE n \in recorded'
  <2>1. n = at \/ n \in 1 .. at - 1
    BY <1>1
  <2>2. QED
    BY <1>1, <2>1 DEF Done
<1>4. ASSUME NEW m \in recorded' PROVE Made(m)' /\ m <= shipped' /\ Done(m)'
  <2>1. CASE m = at
    BY <1>1, <1>3, <2>1 DEF Made, Done
  <2>2. CASE m \in recorded
    BY <1>1, <2>2 DEF BootInv, Made, Done
  <2>3. QED
    BY <1>1, <2>1, <2>2
<1>5. \A n \in 1 .. at' - 1 : n \in recorded'
  BY <1>1, <1>3
<1>6. \A m \in Migrations : \A i \in 1 .. Len(Statements[m]) :
          Statements[m][i] \in schema' \ Tolerant => m \in recorded' \/ m \in cut'
  BY <1>1 DEF BootInv, Underway
<1>7. QED
  BY <1>1, <1>2, <1>4, <1>5, <1>6 DEF BootInv, Done

\* Steps that leave the files, the objects and the records as they are.
LEMMA MovesOK ==
    ASSUME BootInv, LimiterTypeOK',
           Start \/ Check \/ Seed \/ Fails \/ Interrupt \/ UNCHANGED boot
    PROVE  BootInv'
<1>0. /\ Last \in Nat /\ shipped \in 1 .. Last /\ at \in 1 .. Last + 1 /\ seeded \in BOOLEAN
      /\ Last >= 1
      /\ \A m \in Migrations : Len(Statements[m]) \in Nat \ {0}
  BY MigrationAssumption DEF BootInv, TypeOK, Migrations
<1>1. CASE UNCHANGED boot
  BY <1>1 DEF boot, BootInv, TypeOK, Made, Done, Underway
<1>2. CASE Start
  <2>1. /\ TypeOK' /\ at' = 1 /\ phase' = "check"
        /\ UNCHANGED <<schema, recorded, shipped, cut>>
    BY <1>0, <1>2 DEF Start, BootInv, TypeOK, Phases
  <2>2. \A m \in Migrations, i \in Nat : ~Underway(m, i)
    BY <1>2 DEF Start, Underway
  <2>3. QED
    BY <2>1, <2>2, MigrationAssumption DEF BootInv, TypeOK, Made, Done
<1>3. CASE Check
  <2>1. \A m \in Migrations, i \in Nat : ~Underway(m, i)
    BY <1>3 DEF Check, Underway
  <2>2. /\ phase = "check" /\ \A n \in 1 .. at - 1 : n \in recorded
        /\ UNCHANGED <<schema, recorded, shipped, cut, seeded>>
    BY <1>3 DEF Check, BootInv, Done
  <2>3. CASE at > shipped /\ phase' = "seed" /\ UNCHANGED <<at, stmt>>
    <3>1. TypeOK'
      BY <2>2, <2>3 DEF BootInv, TypeOK, Phases
    <3>2. \A n \in 1 .. shipped : n \in recorded
      BY <1>0, <2>2, <2>3
    <3>3. QED
      BY <2>1, <2>2, <2>3, <3>1, <3>2, MigrationAssumption DEF BootInv, Made, Done
  <2>4. CASE at <= shipped /\ at \in recorded /\ at' = at + 1 /\ UNCHANGED <<phase, stmt>>
    <3>1. at + 1 \in 1 .. Last + 1 /\ \A n \in 1 .. at : n = at \/ n \in 1 .. at - 1
      BY <1>0, <2>4
    <3>2. TypeOK'
      BY <2>2, <2>4, <3>1 DEF BootInv, TypeOK, Phases
    <3>3. \A n \in 1 .. at' - 1 : n \in recorded
      BY <1>0, <2>2, <2>4, <3>1
    <3>4. QED
      BY <2>1, <2>2, <2>4, <3>2, <3>3, MigrationAssumption DEF BootInv, Made, Done
  <2>5. CASE at <= shipped /\ at \notin recorded /\ phase' = "exec" /\ stmt' = 1 /\ UNCHANGED at
    <3>1. at \in Migrations /\ 1 \in 1 .. Len(Statements[at])
      BY <1>0, <2>5 DEF Migrations
    <3>2. TypeOK'
      BY <2>2, <2>5, <3>1 DEF BootInv, TypeOK, Phases
    <3>3. QED
      BY <2>1, <2>2, <2>5, <3>2, MigrationAssumption DEF BootInv, Made, Done
  <2>6. QED
    BY <1>3, <2>3, <2>4, <2>5 DEF Check
<1>4. CASE Seed
  <2>1. /\ phase = "seed" /\ phase' = "listening"
        /\ UNCHANGED <<schema, recorded, shipped, cut, at, stmt>>
    BY <1>4 DEF Seed
  <2>2. seeded' \in BOOLEAN
    <3>1. SeedDevData \in BOOLEAN /\ (seeded' = seeded \/ seeded' = (SeedDevData \/ seeded))
      BY <1>4, MigrationAssumption DEF Seed
    <3>2. QED
      BY <1>0, <3>1, Zenon
  <2>3. TypeOK'
    BY <2>1, <2>2 DEF BootInv, TypeOK, Phases
  <2>4. \A m \in Migrations, i \in Nat : ~Underway(m, i)
    BY <2>1 DEF Underway
  <2>5. QED
    BY <2>1, <2>3, <2>4, MigrationAssumption DEF BootInv, Made, Done
<1>5. CASE Fails
  <2>1. at \in cut
    BY <1>5, BootConsequences DEF Fails, OnlyCutOnesFail
  <2>2. /\ phase' = "down"
        /\ UNCHANGED <<schema, recorded, shipped, cut, at, stmt, seeded>>
    BY <1>5 DEF Fails, Down
  <2>3. TypeOK'
    BY <2>2 DEF BootInv, TypeOK, Phases
  <2>4. \A m \in Migrations, i \in Nat : Underway(m, i) => m \in cut
    BY <2>1 DEF Underway
  <2>5. QED
    BY <2>2, <2>3, <2>4, MigrationAssumption DEF BootInv, Made, Done
<1>6. CASE Interrupt
  <2>1. /\ phase' = "down"
        /\ cut' = cut \cup {m \in {at} : phase = "record" \/ (phase = "exec" /\ stmt > 1)}
        /\ UNCHANGED <<schema, recorded, shipped, at, stmt, seeded>>
    BY <1>6 DEF Interrupt, Down
  <2>2. phase \in {"exec", "record"} => at \in Migrations
    BY <1>0 DEF BootInv, Migrations
  <2>3. TypeOK'
    BY <2>1, <2>2 DEF BootInv, TypeOK, Phases
  <2>4. \A m \in Migrations, i \in Nat \ {0} : Underway(m, i) => m \in cut'
    BY <2>1 DEF Underway, BootInv, TypeOK
  <2>5. \A m \in Migrations : \A i \in 1 .. Len(Statements[m]) : i \in Nat \ {0}
    BY <1>0
  <2>6. QED
    BY <2>1, <2>3, <2>4, <2>5 DEF BootInv, Made, Done
<1>7. QED
  BY <1>1, <1>2, <1>3, <1>4, <1>5, <1>6

LEMMA DeployOK == ASSUME BootInv, Deploy, LimiterTypeOK' PROVE BootInv'
<1>1. /\ phase = "down" /\ shipped \in Nat /\ Last \in Nat /\ shipped' \in 1 .. Last /\ shipped' > shipped
      /\ UNCHANGED <<schema, recorded, seeded, phase, at, stmt, cut>>
  BY MigrationAssumption DEF Deploy, BootInv, TypeOK, Migrations
<1>2. TypeOK'
  BY <1>1 DEF BootInv, TypeOK, Migrations
<1>3. \A m \in recorded : m <= shipped'
  BY <1>1 DEF BootInv, TypeOK, Migrations
<1>4. QED
  BY <1>1, <1>2, <1>3 DEF BootInv, Made, Done, Underway

LEMMA NextOK == ASSUME BootInv, LimiterInv, [Next]_vars PROVE BootInv' /\ LimiterInv'
<1>1. LimiterInv'
  <2>1. CASE Serve
    BY <2>1, AllowOK, LimiterSteps DEF Serve
  <2>2. CASE Time
    BY <2>2, LimiterSteps DEF Time
  <2>3. CASE Seed \/ Fails \/ Interrupt
    BY <2>3, LimiterNew DEF Seed, Fails, Interrupt, Down
  <2>4. CASE UNCHANGED vars \/ Deploy \/ Start \/ Check \/ Exec \/ Record
    BY <2>4, LimiterSteps DEF vars, limiter, Deploy, Start, Check, Exec, Record
  <2>5. QED
    BY <2>1, <2>2, <2>3, <2>4 DEF Next
<1>2. LimiterTypeOK'
  BY <1>1 DEF LimiterInv
<1>3. BootInv'
  BY <1>2, MovesOK, ExecOK, RecordOK, DeployOK DEF Next, vars, Serve, Time
<1>4. QED
  BY <1>1, <1>3

\* Every reachable state has types.
THEOREM StartTypes == Spec => []TypeOK
<1>1. BootInv => TypeOK
  BY DEF BootInv
<1>2. QED
  BY <1>1, BootInit, NextOK, PTL DEF Spec

\* What is recorded is a beginning of the list and has been made.
THEOREM RecordedMigrationsAreMade == Spec => []RecordedIsMade
  BY BootInit, NextOK, BootConsequences, PTL DEF Spec

\* A server that listens has the schema of its release.
THEOREM ListeningServersHaveSchema == Spec => []ListensOnSchema
  BY BootInit, NextOK, BootConsequences, PTL DEF Spec

\* Only a migration that was cut short makes a start fail.
THEOREM OnlyCutMigrationsFail == Spec => []OnlyCutOnesFail
  BY BootInit, NextOK, BootConsequences, PTL DEF Spec

\* The limiter lets through at most twice its limit in the span of a window.
THEOREM LoginsAreLimited == Spec => []AttemptsAreBounded
  BY BootInit, NextOK, LimiterBound, PTL DEF Spec

-----------------------------------------------------------------------------
(* A database that a stop has left in the middle of a migration.           *)

\* m is one that was, at its statement i.
BrokenAt(m, i) ==
    /\ m \in 1 .. shipped \ recorded /\ i \in 1 .. Len(Statements[m])
    /\ Statements[m][i] \in schema \ Tolerant
    /\ m = at => phase # "record" /\ (phase = "exec" => stmt <= i)

LEMMA BrokenStays ==
    ASSUME BootInv, [Next]_vars, NEW m, NEW i, BrokenAt(m, i) PROVE BrokenAt(m, i)'
<1>1. /\ shipped \in Nat /\ Last \in Nat /\ m \in Nat /\ m >= 1 /\ m <= shipped /\ i \in Nat /\ i >= 1 /\ m \in Migrations
      /\ Len(Statements[m]) \in Nat /\ i <= Len(Statements[m]) /\ m \notin recorded
      /\ Statements[m][i] \in schema /\ Statements[m][i] \notin Tolerant
      /\ stmt \in Nat /\ at \in Nat
  BY MigrationAssumption DEF BootInv, TypeOK, BrokenAt, Migrations
<1>2. CASE UNCHANGED boot
  BY <1>2 DEF boot, BrokenAt
<1>3. CASE Deploy
  <2>1. shipped' \in Nat /\ shipped' > shipped
    BY <1>1, <1>3 DEF Deploy
  <2>2. m \in 1 .. shipped'
    BY <1>1, <2>1
  <2>3. QED
    BY <1>3, <2>2 DEF Deploy, BrokenAt
<1>4. CASE Start
  BY <1>4 DEF Start, BrokenAt
<1>5. CASE Check
  BY <1>1, <1>5 DEF Check, BrokenAt
<1>6. CASE Exec
  <2>1. m = at => stmt <= i /\ stmt # i
    BY <1>6 DEF Exec, Repeats, BrokenAt
  <2>2. m = at => stmt < Len(Statements[at])
    BY <1>1, <2>1
  <2>3. m = at => phase' = "exec" /\ stmt' = stmt + 1
    BY <1>1, <1>6, <2>2 DEF Exec
  <2>4. QED
    BY <1>1, <1>6, <2>1, <2>3 DEF Exec, BrokenAt
<1>7. CASE Record
  BY <1>1, <1>7 DEF Record, BrokenAt
<1>8. CASE Seed
  BY <1>8 DEF Seed, BrokenAt
<1>9. CASE Fails \/ Interrupt
  BY <1>9 DEF Fails, Interrupt, Down, BrokenAt
<1>10. QED
  BY <1>2, <1>3, <1>4, <1>5, <1>6, <1>7, <1>8, <1>9 DEF Next, Serve, Time, vars, boot

\* A stop between a statement that cannot be repeated and its record is for good.
THEOREM BrokenStartsStayBroken == Spec => BrokenForGood
<1>1. BootInv /\ Broken => phase # "listening"
  BY DEF BootInv, Done, Broken
<1>2. BootInv /\ Broken /\ [Next]_vars => Broken'
  <2>1. SUFFICES ASSUME BootInv, Broken, [Next]_vars PROVE Broken'
    OBVIOUS
  <2>2. PICK m, i : BrokenAt(m, i)
    BY <2>1 DEF Broken, BrokenAt
  <2>3. BrokenAt(m, i)'
    BY <2>1, <2>2, BrokenStays
  <2>4. QED
    BY <2>3 DEF Broken, BrokenAt
<1>3. QED
  BY <1>1, <1>2, BootInit, NextOK, PTL DEF Spec, BrokenForGood
=============================================================================
