----------------------- MODULE ClientBootstrap_proofs -----------------------
(***************************************************************************)
(* Proofs about ClientBootstrap, for any number of tasks, identities and   *)
(* closes.  The invariant says that there is at most one bootstrap, what   *)
(* lies above it on its stack, and what the answer it waits for is about.  *)
(***************************************************************************)
EXTENDS ClientBootstrap, SequenceTheorems, TLAPS

BootFrames == [op : {"boot"}, at : {"health", "me", "register", "login", "refresh"}, fresh : BOOLEAN]
RecoverFrames == [op : {"recover"}, at : {"boot", "refresh"}]
CallFrames == [op : {"call"}, at : {"login", "me", "register", "devices"}, id : Identities \cup {None}, retried : BOOLEAN]
Frames == BootFrames \cup RecoverFrames \cup CallFrames

Results == [as : {"ok", "error", "refused"}, id : Identities \cup {None}]

\* An answer about i tells of the identity there is, or the change was skipped.
Current(i) == i \in Identities /\ (skipped \/ i = ident)

\* A frame that waits for a login or a registration.
Awaits(f) == f.op = "boot" /\ f.at \in {"login", "register"}

\* What lies above such a frame, or what was returned to it.
Above(s, b, n) ==
    /\ n < Len(s) => /\ s[n + 1].op = "call" /\ s[n + 1].at = s[n].at
                     /\ Current(s[n + 1].id)
    /\ n = Len(s) /\ b # None /\ b.as = "ok" => Current(b.id)

StackOK(s, b) ==
    /\ s \in Seq(Frames)
    /\ \A n \in 1 .. Len(s) : Awaits(s[n]) => Above(s, b, n)

Open(s) == Len(s) > 0 => ~Awaits(s[Len(s)])

\* The states of the bootstraps on a stack.
Boots(s) == {s[n].at : n \in {m \in 1 .. Len(s) : s[m].op = "boot"}}

OneBoot(s) == \A m, n \in 1 .. Len(s) : s[m].op = "boot" /\ s[n].op = "boot" => m = n

ChainsOK ==
    /\ stack \in [Tasks -> Seq(Frames)]
    /\ back \in [Tasks -> Results \cup {None}]
    /\ \A t \in Tasks : StackOK(stack[t], back[t]) /\ OneBoot(stack[t])
    /\ \A t, u \in Tasks : Boots(stack[t]) # {} /\ Boots(stack[u]) # {} => t = u

ClientOK ==
    /\ device # None => tokens
    /\ connected => socket # "none"
    /\ \A t \in Tasks : "register" \in Boots(stack[t]) => tokens
    /\ skipped \/ device \in {None, ident} \/ \E t \in Tasks : Boots(stack[t]) \ {"refresh"} # {}

IInv == TypeOK /\ ChainsOK /\ ClientOK

-----------------------------------------------------------------------------
(* Stacks.                                                                 *)

LEMMA Pushed ==
    ASSUME NEW s \in Seq(Frames), NEW f \in Frames
    PROVE  /\ Append(s, f) \in Seq(Frames) /\ Append(s, f) # <<>>
           /\ Len(s) \in Nat /\ Len(Append(s, f)) = Len(s) + 1
           /\ Append(s, f)[Len(s) + 1] = f
           /\ \A n \in 1 .. Len(s) : Append(s, f)[n] = s[n]
           /\ \A n \in 1 .. Len(s) + 1 : n \in 1 .. Len(s) \/ n = Len(s) + 1
  BY AppendProperties

LEMMA Popped ==
    ASSUME NEW s \in Seq(Frames), s # <<>>
    PROVE  /\ Front(s) \in Seq(Frames)
           /\ Len(s) \in Nat /\ Len(s) >= 1 /\ Len(Front(s)) = Len(s) - 1
           /\ \A n \in 1 .. Len(s) - 1 : Front(s)[n] = s[n]
           /\ Last(s) = s[Len(s)] /\ Last(s) \in Frames
           /\ \A n \in 1 .. Len(s) : n \in 1 .. Len(s) - 1 \/ n = Len(s)
<1>1. Len(s) \in Nat /\ Len(s) >= 1
  BY EmptySeq
<1>2. Last(s) = s[Len(s)] /\ Last(s) \in Frames
  BY <1>1, ElementOfSeq DEF Last
<1>3. \A n \in 1 .. Len(s) : n \in 1 .. Len(s) - 1 \/ n = Len(s)
  BY <1>1
<1>4. 1 \in 1 .. Len(s) + 1 /\ Len(s) - 1 \in 0 .. Len(s)
  BY <1>1
<1>5. Front(s) \in Seq(Frames)
  BY <1>1 DEF Front
<1>6. Len(Front(s)) = Len(s) - 1 /\ \A n \in 1 .. Len(s) - 1 : Front(s)[n] = s[n]
  BY <1>1 DEF Front
<1>7. QED
  BY <1>1, <1>2, <1>3, <1>5, <1>6

LEMMA BootsPush ==
    ASSUME NEW s \in Seq(Frames), NEW f \in Frames
    PROVE  /\ f.op # "boot" => Boots(Append(s, f)) = Boots(s)
           /\ f.op = "boot" => Boots(Append(s, f)) = Boots(s) \cup {f.at}
           /\ OneBoot(s) /\ (f.op # "boot" \/ Boots(s) = {}) => OneBoot(Append(s, f))
<1>1. \A n \in 1 .. Len(s) : n \in 1 .. Len(Append(s, f)) /\ Append(s, f)[n] = s[n]
  BY Pushed
<1>2. /\ Len(s) + 1 \in 1 .. Len(Append(s, f)) /\ Append(s, f)[Len(s) + 1] = f
      /\ \A n \in 1 .. Len(Append(s, f)) : n \in 1 .. Len(s) \/ n = Len(s) + 1
  BY Pushed
<1>3. (f.op # "boot" => Boots(Append(s, f)) = Boots(s)) /\ (f.op = "boot" => Boots(Append(s, f)) = Boots(s) \cup {f.at})
  BY <1>1, <1>2 DEF Boots
<1>4. CASE f.op # "boot"
  BY <1>1, <1>2, <1>3, <1>4 DEF OneBoot
<1>5. CASE f.op = "boot"
  <2>1. Boots(s) = {} => \A n \in 1 .. Len(s) : s[n].op # "boot"
    BY DEF Boots
  <2>2. OneBoot(s) /\ Boots(s) = {} => OneBoot(Append(s, f))
    BY <1>1, <1>2, <2>1 DEF OneBoot
  <2>3. QED
    BY <1>3, <1>5, <2>2
<1>6. QED
  BY <1>4, <1>5

LEMMA BootsPop ==
    ASSUME NEW s \in Seq(Frames), s # <<>>, OneBoot(s)
    PROVE  /\ OneBoot(Front(s))
           /\ Last(s).op # "boot" => Boots(Front(s)) = Boots(s)
           /\ Last(s).op = "boot" => Boots(Front(s)) = {} /\ Boots(s) = {Last(s).at}
<1>1. /\ \A n \in 1 .. Len(Front(s)) : n \in 1 .. Len(s) /\ n # Len(s) /\ Front(s)[n] = s[n]
      /\ \A n \in 1 .. Len(s) : n \in 1 .. Len(Front(s)) \/ n = Len(s)
      /\ Len(s) \in 1 .. Len(s) /\ Last(s) = s[Len(s)]
  BY Popped
<1>2. OneBoot(Front(s))
  BY <1>1 DEF OneBoot
<1>3. Last(s).op # "boot" => Boots(Front(s)) = Boots(s)
  BY <1>1 DEF Boots
<1>4. Last(s).op = "boot" => Boots(Front(s)) = {} /\ Boots(s) = {Last(s).at}
  BY <1>1 DEF Boots, OneBoot
<1>5. QED
  BY <1>2, <1>3, <1>4

LEMMA StackPop ==
    ASSUME NEW s, NEW b, NEW c, StackOK(s, b), s # <<>>,
           Last(s).op = "call" => Last(s).at \notin {"login", "register"}
    PROVE  StackOK(Front(s), c) /\ Open(Front(s))
<1>1. s \in Seq(Frames)
  BY DEF StackOK
<1>2. /\ \A n \in 1 .. Len(s) - 1 : Front(s)[n] = s[n]
      /\ Len(Front(s)) = Len(s) - 1 /\ Len(s) \in Nat /\ Front(s) \in Seq(Frames) /\ Last(s) = s[Len(s)]
  BY <1>1, Popped
<1>3. ASSUME NEW n \in 1 .. Len(s) - 1, Awaits(Front(s)[n])
      PROVE  n < Len(s) - 1 /\ Above(Front(s), c, n)
  <2>1. n \in 1 .. Len(s) /\ n < Len(s) /\ Awaits(s[n])
    BY <1>2, <1>3
  <2>2. Above(s, b, n)
    BY <2>1 DEF StackOK
  <2>3. n + 1 # Len(s)
    BY <1>2, <2>1, <2>2 DEF Above, Awaits
  <2>4. n < Len(s) - 1 /\ n + 1 \in 1 .. Len(s) - 1
    BY <1>2, <2>1, <2>3
  <2>5. QED
    BY <1>2, <2>1, <2>2, <2>4 DEF Above
<1>4. StackOK(Front(s), c)
  BY <1>2, <1>3 DEF StackOK
<1>5. ASSUME Len(Front(s)) > 0 PROVE ~Awaits(Front(s)[Len(Front(s))])
  <2>1. Len(s) - 1 \in 1 .. Len(s) - 1
    BY <1>2, <1>5
  <2>2. QED
    BY <1>2, <1>3, <2>1
<1>6. QED
  BY <1>4, <1>5 DEF Open

LEMMA StackPush ==
    ASSUME NEW s, NEW b, NEW c, NEW f \in Frames, StackOK(s, b), Open(s), Awaits(f) => c = None
    PROVE  StackOK(Append(s, f), c) /\ (~Awaits(f) => Open(Append(s, f)))
<1>1. s \in Seq(Frames)
  BY DEF StackOK
<1>2. PICK q : q = Append(s, f)
  OBVIOUS
<1>3. /\ q \in Seq(Frames) /\ Len(q) = Len(s) + 1 /\ Len(s) \in Nat
      /\ q[Len(s) + 1] = f
      /\ \A n \in 1 .. Len(s) : q[n] = s[n]
      /\ \A n \in 1 .. Len(s) + 1 : n \in 1 .. Len(s) \/ n = Len(s) + 1
  BY <1>1, <1>2, Pushed
<1>4. ASSUME NEW n \in 1 .. Len(s), Awaits(q[n]) PROVE Above(q, c, n)
  <2>1. Awaits(s[n]) /\ Above(s, b, n)
    BY <1>3, <1>4 DEF StackOK
  <2>2. n # Len(s)
    BY <1>3, <2>1 DEF Open
  <2>3. n < Len(s) /\ n + 1 \in 1 .. Len(s) /\ n # Len(q)
    BY <1>3, <2>2
  <2>4. q[n] = s[n] /\ q[n + 1] = s[n + 1]
    BY <1>3, <2>3
  <2>5. QED
    BY <2>1, <2>3, <2>4 DEF Above
<1>5. ASSUME Awaits(f) PROVE Above(q, c, Len(q))
  BY <1>3, <1>5 DEF Above
<1>6. StackOK(q, c)
  BY <1>3, <1>4, <1>5 DEF StackOK
<1>7. ~Awaits(f) => Open(q)
  BY <1>3 DEF Open
<1>8. QED
  BY <1>2, <1>6, <1>7

\* A bootstrap that waits for a login or a registration, and the call it made.
LEMMA StackCall ==
    ASSUME NEW s, NEW b, NEW c, StackOK(s, b), Open(s), NEW f \in Frames, Awaits(f),
           NEW g \in Frames, g.op = "call", g.at = f.at, Current(g.id)
    PROVE  StackOK(Append(Append(s, f), g), c)
<1>1. s \in Seq(Frames)
  BY DEF StackOK
<1>2. PICK q : q = Append(s, f)
  OBVIOUS
<1>3. q \in Seq(Frames) /\ Len(q) = Len(s) + 1 /\ Len(s) \in Nat /\ q[Len(s) + 1] = f /\ StackOK(q, None)
  BY <1>1, <1>2, Pushed, StackPush
<1>4. PICK r : r = Append(q, g)
  OBVIOUS
<1>5. /\ r \in Seq(Frames) /\ Len(r) = Len(q) + 1 /\ r[Len(q) + 1] = g
      /\ \A n \in 1 .. Len(q) : r[n] = q[n]
      /\ \A n \in 1 .. Len(q) + 1 : n \in 1 .. Len(q) \/ n = Len(q) + 1
  BY <1>3, <1>4, Pushed
<1>6. ASSUME NEW n \in 1 .. Len(q), Awaits(r[n]) PROVE Above(r, c, n)
  <2>1. CASE n = Len(q)
    BY <1>3, <1>5, <2>1 DEF Above
  <2>2. CASE n # Len(q)
    <3>1. n < Len(q) /\ n + 1 \in 1 .. Len(q) /\ n # Len(r)
      BY <1>3, <1>5, <2>2
    <3>2. r[n] = q[n] /\ r[n + 1] = q[n + 1] /\ Above(q, None, n)
      BY <1>3, <1>5, <1>6, <3>1 DEF StackOK
    <3>3. QED
      BY <3>1, <3>2 DEF Above
  <2>3. QED
    BY <2>1, <2>2
<1>7. ~Awaits(g)
  BY DEF Awaits
<1>8. StackOK(r, c)
  BY <1>5, <1>6, <1>7 DEF StackOK
<1>9. QED
  BY <1>2, <1>4, <1>8

\* The answer to the call on top.
LEMMA StackAnswer ==
    ASSUME NEW s, NEW b, StackOK(s, b), s # <<>>, Last(s).op = "call",
           NEW r, r.as = "ok" /\ Last(s).at \in {"login", "register"} => r.id = Last(s).id
    PROVE  StackOK(Front(s), r)
<1>1. s \in Seq(Frames)
  BY DEF StackOK
<1>2. /\ \A n \in 1 .. Len(s) - 1 : Front(s)[n] = s[n]
      /\ Len(Front(s)) = Len(s) - 1 /\ Len(s) \in Nat /\ Front(s) \in Seq(Frames) /\ Last(s) = s[Len(s)]
  BY <1>1, Popped
<1>3. ASSUME NEW n \in 1 .. Len(s) - 1, Awaits(Front(s)[n]) PROVE Above(Front(s), r, n)
  <2>1. n \in 1 .. Len(s) /\ n < Len(s) /\ Awaits(s[n])
    BY <1>2, <1>3
  <2>2. Above(s, b, n)
    BY <2>1 DEF StackOK
  <2>3. CASE n = Len(s) - 1
    BY <1>2, <2>1, <2>2, <2>3 DEF Above, Awaits
  <2>4. CASE n # Len(s) - 1
    <3>1. n + 1 \in 1 .. Len(s) - 1 /\ n < Len(s) - 1
      BY <1>2, <2>1, <2>4
    <3>2. QED
      BY <1>2, <2>1, <2>2, <3>1 DEF Above
  <2>5. QED
    BY <2>3, <2>4
<1>4. QED
  BY <1>2, <1>3 DEF StackOK

\* What is current stays so, unless nothing waits for it.
Keeps == skipped' \/ UNCHANGED <<ident, skipped>>

LEMMA StackStable ==
    ASSUME NEW s, NEW b, StackOK(s, b), ident' \in Identities,
           Keeps \/ Boots(s) \cap {"login", "register"} = {}
    PROVE  StackOK(s, b)'
<1>1. ASSUME NEW i, Current(i), Keeps PROVE Current(i)'
  BY <1>1 DEF Current, Keeps
<1>2. CASE Keeps
  <2>1. ASSUME NEW n, Above(s, b, n) PROVE Above(s, b, n)'
    BY <1>1, <1>2, <2>1 DEF Above
  <2>2. QED
    BY <2>1 DEF StackOK
<1>3. CASE Boots(s) \cap {"login", "register"} = {}
  <2>1. \A n \in 1 .. Len(s) : ~Awaits(s[n])
    BY <1>3 DEF Boots, Awaits
  <2>2. QED
    BY <2>1 DEF StackOK
<1>4. QED
  BY <1>2, <1>3

LEMMA OpenAny == ASSUME NEW s, NEW b, NEW c, StackOK(s, b), Open(s) PROVE StackOK(s, c)
<1>1. Len(s) \in Nat
  BY DEF StackOK
<1>2. ASSUME NEW n \in 1 .. Len(s), Awaits(s[n]) PROVE Above(s, c, n)
  <2>1. n # Len(s)
    BY <1>1, <1>2 DEF Open
  <2>2. QED
    BY <1>2, <2>1 DEF StackOK, Above
<1>3. QED
  BY <1>2 DEF StackOK

LEMMA NoFrames == ASSUME NEW b PROVE StackOK(<<>>, b) /\ Open(<<>>) /\ Boots(<<>>) = {} /\ OneBoot(<<>>)
  BY EmptySeq DEF StackOK, Open, Boots, OneBoot

LEMMA BootingIs == ASSUME ChainsOK PROVE Booting <=> \E t \in Tasks : Boots(stack[t]) # {}
  BY DEF Booting, Within, Boots

LEMMA ResultsAre == Done \in Results /\ Failed \in Results /\ Refused \in Results
  BY DEF Done, Failed, Refused, Results

-----------------------------------------------------------------------------
\* A chain goes on; the others stay.
LEMMA GoStep ==
    ASSUME IInv, NEW t \in Tasks, NEW s, NEW b \in Results \cup {None}, Go(t, s, b),
           StackOK(s, b), OneBoot(s), ident' \in Identities,
           \/ Keeps
           \/ /\ Boots(s) \cap {"login", "register"} = {}
              /\ \A u \in Tasks \ {t} : Boots(stack[u]) = {},
           Boots(s) # {} => Boots(stack[t]) # {} \/ ~Booting
    PROVE  ChainsOK' /\ stack'[t] = s /\ \A u \in Tasks \ {t} : stack'[u] = stack[u]
<1>1. PICK c \in Results \cup {None} : c = IF s = <<>> THEN None ELSE b
  OBVIOUS
<1>2. stack' = [stack EXCEPT ![t] = s] /\ back' = [back EXCEPT ![t] = c]
  BY <1>1 DEF Go
<1>3. s \in Seq(Frames) /\ StackOK(s, c)
  BY <1>1, NoFrames DEF StackOK
<1>4. stack' \in [Tasks -> Seq(Frames)] /\ back' \in [Tasks -> Results \cup {None}]
  BY <1>1, <1>2, <1>3 DEF IInv, ChainsOK
<1>5. /\ stack'[t] = s /\ back'[t] = c
      /\ \A u \in Tasks \ {t} : stack'[u] = stack[u] /\ back'[u] = back[u]
  BY <1>2 DEF IInv, ChainsOK
<1>6. StackOK(s, c)'
  BY <1>3, StackStable
<1>7. ASSUME NEW u \in Tasks \ {t} PROVE StackOK(stack[u], back[u])'
  <2>1. PICK x, y : x = stack[u] /\ y = back[u]
    OBVIOUS
  <2>2. StackOK(x, y)
    BY <2>1 DEF IInv, ChainsOK
  <2>3. StackOK(x, y)'
    BY <2>1, <2>2, StackStable
  <2>4. stack'[u] = x /\ back'[u] = y
    BY <1>5, <2>1
  <2>5. QED
    BY <2>3, <2>4
<1>8. ASSUME NEW u \in Tasks PROVE StackOK(stack[u], back[u])' /\ OneBoot(stack[u])'
  <2>1. CASE u = t
    <3>1. stack'[u] = s /\ back'[u] = c
      BY <1>5, <2>1
    <3>2. QED
      BY <1>6, <3>1 DEF OneBoot
  <2>2. CASE u # t
    BY <1>5, <1>7, <2>2 DEF IInv, ChainsOK, OneBoot
  <2>3. QED
    BY <2>1, <2>2
<1>9. ASSUME NEW u \in Tasks, NEW v \in Tasks, Boots(stack'[u]) # {}, Boots(stack'[v]) # {} PROVE u = v
  BY <1>5, <1>9, BootingIs DEF IInv, ChainsOK
<1>10. QED
  BY <1>4, <1>5, <1>8, <1>9 DEF ChainsOK, Boots

Working(s) == Boots(s) \ {"refresh"} # {}

\* A chain goes on, and nothing else changes.
LEMMA QuietStep ==
    ASSUME IInv, NEW t \in Tasks, NEW s, NEW b \in Results \cup {None}, Go(t, s, b),
           StackOK(s, b), OneBoot(s), UNCHANGED <<wires, client>>,
           Boots(s) # {} => Boots(stack[t]) # {},
           "register" \in Boots(s) => tokens,
           Working(stack[t]) => Working(s) \/ skipped \/ device \in {None, ident}
    PROVE  IInv'
<1>1. ident' \in Identities /\ Keeps
  BY DEF IInv, TypeOK, Keeps, client
<1>2. ChainsOK' /\ stack'[t] = s /\ \A u \in Tasks \ {t} : stack'[u] = stack[u]
  BY <1>1, GoStep
<1>3. \A u \in Tasks : "register" \in Boots(stack'[u]) => tokens
  BY <1>2 DEF IInv, ClientOK
<1>4. skipped \/ device \in {None, ident} \/ \E u \in Tasks : Boots(stack'[u]) \ {"refresh"} # {}
  BY <1>2 DEF IInv, ClientOK, Working
<1>5. ClientOK'
  BY <1>3, <1>4 DEF IInv, ClientOK, wires, client, Boots
<1>6. TypeOK'
  BY DEF IInv, TypeOK, wires, client
<1>7. QED
  BY <1>2, <1>5, <1>6 DEF IInv

LEMMA InitOK == Init => IInv
<1>1. SUFFICES ASSUME Init PROVE IInv
  OBVIOUS
<1>2. ident \in Identities
  BY <1>1, IdentityAssumption DEF Init
<1>3. TypeOK
  <2>1. closes \in 0 .. Limit - 1
    BY <1>1, IdentityAssumption DEF Init
  <2>2. tokens \in BOOLEAN /\ {connected, auto, timer, rested, skipped} \subseteq BOOLEAN
    BY <1>1 DEF Init
  <2>3. device \in Identities \cup {None} /\ socket \in {"none", "connecting", "open"}
    BY <1>1 DEF Init
  <2>4. QED
    BY <1>2, <2>1, <2>2, <2>3 DEF TypeOK
<1>4. PICK f : f = BootFrame(FALSE, "health")
  OBVIOUS
<1>5. f \in Frames /\ f.op = "boot" /\ f.at = "health" /\ ~Awaits(f)
  BY <1>4 DEF BootFrame, Frames, BootFrames, Awaits
<1>6. PICK q : q = <<f>>
  OBVIOUS
<1>7. q \in Seq(Frames) /\ Len(q) = 1 /\ q[1] = f
  BY <1>5, <1>6
<1>8. StackOK(q, None) /\ Boots(q) = {"health"} /\ OneBoot(q)
  BY <1>5, <1>7 DEF StackOK, Boots, OneBoot
<1>9. \A t \in Tasks : stack[t] = IF t = First THEN q ELSE <<>>
  BY <1>1, <1>4, <1>6 DEF Init
<1>10. stack = [t \in Tasks |-> IF t = First THEN q ELSE <<>>] /\ back = [t \in Tasks |-> None]
  BY <1>1, <1>4, <1>6 DEF Init
<1>11. /\ stack \in [Tasks -> Seq(Frames)] /\ back \in [Tasks -> Results \cup {None}]
       /\ \A t \in Tasks : back[t] = None
  BY <1>7, <1>10, EmptySeq
<1>12. ASSUME NEW t \in Tasks
       PROVE  /\ StackOK(stack[t], back[t]) /\ OneBoot(stack[t]) /\ (Boots(stack[t]) # {} => t = First)
              /\ "register" \notin Boots(stack[t])
  <2>1. CASE t = First
    BY <1>8, <1>9, <1>11, <2>1
  <2>2. CASE t # First
    BY <1>9, <1>11, <2>2, NoFrames
  <2>3. QED
    BY <2>1, <2>2
<1>13. ChainsOK
  BY <1>11, <1>12 DEF ChainsOK
<1>14. ClientOK
  BY <1>1, <1>12 DEF Init, ClientOK
<1>15. QED
  BY <1>3, <1>13, <1>14 DEF IInv

-----------------------------------------------------------------------------
\* Only the socket and its timers change.
LEMMA WireStep ==
    ASSUME IInv, UNCHANGED <<chain, ident, tokens, device, skipped>>, TypeOK', connected' => socket' # "none"
    PROVE  IInv'
<1>1. ident' \in Identities /\ Keeps /\ UNCHANGED <<stack, back>>
  BY DEF IInv, TypeOK, Keeps, chain
<1>2. ASSUME NEW t \in Tasks PROVE StackOK(stack[t], back[t])'
  <2>1. PICK x, y : x = stack[t] /\ y = back[t]
    OBVIOUS
  <2>2. StackOK(x, y)'
    BY <1>1, <2>1, StackStable DEF IInv, ChainsOK
  <2>3. QED
    BY <1>1, <2>1, <2>2
<1>3. \A t \in Tasks : Boots(stack[t])' = Boots(stack[t]) /\ (OneBoot(stack[t]) => OneBoot(stack[t])')
  BY <1>1 DEF Boots, OneBoot
<1>4. ChainsOK'
  BY <1>1, <1>2, <1>3 DEF IInv, ChainsOK
<1>5. ClientOK'
  BY <1>1, <1>3 DEF IInv, ClientOK
<1>6. QED
  BY <1>4, <1>5 DEF IInv

LEMMA ConnectOK ==
    ASSUME IInv, NEW tok, NEW id, Connect(tok, id)
    PROVE  /\ socket' \in {"none", "connecting", "open"} /\ auto' \in BOOLEAN
           /\ socket # "none" => socket' # "none"
           /\ tok /\ id # None => socket' # "none"
  BY DEF IInv, TypeOK, Connect

LEMMA DisconnectOK == ASSUME Disconnect PROVE socket' = "none" /\ auto' \in BOOLEAN
  BY DEF Disconnect

LEMMA SocketsOK == ASSUME IInv, SocketOpens \/ SocketCloses \/ Timer \/ TwentySeconds PROVE IInv'
<1>1. CASE SocketOpens
  <2>1. TypeOK'
    BY <1>1, IdentityAssumption DEF IInv, TypeOK, SocketOpens, client
  <2>2. QED
    BY <1>1, <2>1, WireStep DEF SocketOpens, client
<1>2. CASE SocketCloses
  <2>1. closes' \in 0 .. Limit - 1
    BY <1>2, IdentityAssumption DEF IInv, TypeOK, SocketCloses
  <2>2. TypeOK'
    BY <1>2, <2>1 DEF IInv, TypeOK, SocketCloses, client
  <2>3. QED
    BY <1>2, <2>2, WireStep DEF SocketCloses, client
<1>3. CASE Timer
  <2>1. socket' \in {"none", "connecting", "open"} /\ auto' \in BOOLEAN /\ (socket # "none" => socket' # "none")
    <3>1. CASE auto /\ socket = "none"
      BY <1>3, <3>1, ConnectOK DEF Timer
    <3>2. CASE ~(auto /\ socket = "none")
      BY <1>3, <3>2 DEF IInv, TypeOK, Timer
    <3>3. QED
      BY <3>1, <3>2
  <2>2. TypeOK'
    BY <1>3, <2>1 DEF IInv, TypeOK, Timer, client
  <2>3. QED
    BY <1>3, <2>1, <2>2, WireStep DEF IInv, ClientOK, Timer, client
<1>4. CASE TwentySeconds
  <2>1. TypeOK'
    BY <1>4 DEF IInv, TypeOK, TwentySeconds, wires
  <2>2. QED
    BY <1>4, <2>1, WireStep DEF IInv, ClientOK, TwentySeconds, wires
<1>5. QED
  BY <1>1, <1>2, <1>3, <1>4

-----------------------------------------------------------------------------
(* Chains.                                                                 *)

LEMMA StackTypes ==
    ASSUME IInv, NEW t \in Tasks
    PROVE  /\ stack[t] \in Seq(Frames) /\ back[t] \in Results \cup {None}
           /\ StackOK(stack[t], back[t]) /\ OneBoot(stack[t])
           /\ ~Idle(t) => Last(stack[t]) \in Frames /\ stack[t] # <<>>
  BY Popped DEF IInv, ChainsOK, Idle

LEMMA DevicesCall ==
    \A retried \in BOOLEAN : /\ CallFrame("devices", None, retried) \in Frames
                             /\ CallFrame("devices", None, retried).op = "call"
                             /\ ~Awaits(CallFrame("devices", None, retried))
  BY DEF CallFrame, Frames, CallFrames, Awaits

\* refreshDevices leaves the bootstraps as they are.
LEMMA RefreshStep ==
    ASSUME NEW t \in Tasks, NEW s, NEW b, StackOK(s, b), Open(s), NEW tok, Refresh(t, s, tok)
    PROVE  \E q : \E c \in Results \cup {None} :
               /\ Go(t, q, c) /\ StackOK(q, c) /\ Boots(q) = Boots(s) /\ (OneBoot(s) => OneBoot(q))
<1>1. CASE tok
  <2>1. PICK f : f = CallFrame("devices", None, FALSE)
    OBVIOUS
  <2>2. f \in Frames /\ f.op = "call" /\ ~Awaits(f)
    BY <2>1, DevicesCall
  <2>3. PICK q : q = Append(s, f)
    OBVIOUS
  <2>4. s \in Seq(Frames)
    BY DEF StackOK
  <2>5. StackOK(q, None) /\ Boots(q) = Boots(s) /\ (OneBoot(s) => OneBoot(q))
    BY <2>2, <2>3, <2>4, StackPush, BootsPush
  <2>6. Go(t, q, None)
    BY <1>1, <2>1, <2>3 DEF Refresh
  <2>7. QED
    BY <2>5, <2>6
<1>2. CASE ~tok
  <2>1. Go(t, s, Done) /\ StackOK(s, Done) /\ Done \in Results
    BY <1>2, OpenAny, ResultsAre DEF Refresh
  <2>2. QED
    BY <2>1
<1>3. QED
  BY <1>1, <1>2

\* Frames of one's own that are no bootstrap go, or a recovery is at its refresh.
LEMMA RecoverOK == ASSUME IInv, NEW t \in Tasks, RecoverRefreshes(t) \/ RecoverEnds(t) PROVE IInv'
<1>1. PICK s : s = stack[t]
  OBVIOUS
<1>2. s \in Seq(Frames) /\ s # <<>> /\ OneBoot(s) /\ StackOK(s, back[t]) /\ Last(s).op = "recover"
  BY <1>1, StackTypes DEF RecoverRefreshes, RecoverEnds, At
<1>3. PICK q : q = Front(s)
  OBVIOUS
<1>4. q \in Seq(Frames) /\ Open(q) /\ StackOK(q, Done) /\ Boots(q) = Boots(s) /\ OneBoot(q)
  BY <1>2, <1>3, StackPop, BootsPop, Popped
<1>5. CASE RecoverEnds(t)
  <2>1. Go(t, q, Done) /\ Done \in Results
    BY <1>1, <1>3, <1>5, ResultsAre DEF RecoverEnds, Below
  <2>2. QED
    BY <1>1, <1>4, <1>5, <2>1, QuietStep DEF RecoverEnds, IInv, ClientOK, Working
<1>6. CASE RecoverRefreshes(t)
  <2>1. PICK f : f = RecoverFrame("refresh")
    OBVIOUS
  <2>2. f \in Frames /\ f.op # "boot" /\ ~Awaits(f)
    BY <2>1 DEF RecoverFrame, Frames, RecoverFrames, Awaits
  <2>3. PICK r : r = Append(q, f)
    OBVIOUS
  <2>4. StackOK(r, Done) /\ Open(r) /\ Boots(r) = Boots(s) /\ OneBoot(r)
    BY <1>4, <2>2, <2>3, StackPush, BootsPush
  <2>5. Refresh(t, r, tokens)
    BY <1>1, <1>3, <1>6, <2>1, <2>3 DEF RecoverRefreshes, Below
  <2>6. PICK x : \E c \in Results \cup {None} :
                     Go(t, x, c) /\ StackOK(x, c) /\ Boots(x) = Boots(r) /\ (OneBoot(r) => OneBoot(x))
    BY <2>4, <2>5, RefreshStep
  <2>7. QED
    BY <1>1, <1>6, <2>4, <2>6, QuietStep DEF RecoverRefreshes, IInv, ClientOK, Working
<1>7. QED
  BY <1>5, <1>6

LEMMA UseOK == ASSUME IInv, NEW t \in Tasks, Use(t) PROVE IInv'
<1>1. PICK s : s = <<>>
  OBVIOUS
<1>2. stack[t] = s /\ StackOK(s, Done) /\ Open(s) /\ Boots(s) = {} /\ OneBoot(s)
  BY <1>1, NoFrames DEF Use, Idle
<1>3. Refresh(t, s, tokens)
  BY <1>1 DEF Use
<1>4. PICK x : \E c \in Results \cup {None} :
                   Go(t, x, c) /\ StackOK(x, c) /\ Boots(x) = Boots(s) /\ (OneBoot(s) => OneBoot(x))
  BY <1>2, <1>3, RefreshStep
<1>5. QED
  BY <1>2, <1>4, QuietStep DEF Use, Working

LEMMA CallEndsOK == ASSUME IInv, NEW t \in Tasks, CallEnds(t) PROVE IInv'
<1>1. PICK s, c : s = stack[t] /\ c = Last(s)
  OBVIOUS
<1>2. s \in Seq(Frames) /\ s # <<>> /\ OneBoot(s) /\ StackOK(s, back[t]) /\ c.op = "call" /\ c \in Frames
  BY <1>1, StackTypes DEF CallEnds
<1>3. c \in CallFrames
  BY <1>2 DEF Frames, BootFrames, RecoverFrames
<1>4. PICK r \in Answers(c.at, c.id) : Go(t, Front(s), r)
  BY <1>1 DEF CallEnds, Below
<1>5. r \in Results /\ (r.as = "ok" /\ c.at \in {"login", "register"} => r.id = c.id)
  BY <1>3, <1>4 DEF Answers, CallFrames, Results, Done, Failed, Refused
<1>6. StackOK(Front(s), r) /\ Boots(Front(s)) = Boots(s) /\ OneBoot(Front(s))
  BY <1>1, <1>2, <1>5, StackAnswer, BootsPop
<1>7. QED
  BY <1>1, <1>4, <1>5, <1>6, QuietStep DEF CallEnds, IInv, ClientOK, Working

\* A call of the devices is repeated.
LEMMA RepeatOK ==
    ASSUME IInv, NEW t \in Tasks, ~Idle(t), Last(stack[t]).op = "call", Last(stack[t]).at = "devices",
           Repeat(t), UNCHANGED <<wires, client>>
    PROVE  IInv'
<1>1. PICK s : s = stack[t]
  OBVIOUS
<1>2. s \in Seq(Frames) /\ s # <<>> /\ OneBoot(s) /\ StackOK(s, back[t]) /\ Last(s).op = "call" /\ Last(s).at = "devices"
  BY <1>1, StackTypes
<1>3. PICK q, f : q = Front(s) /\ f = CallFrame("devices", None, TRUE)
  OBVIOUS
<1>4. q \in Seq(Frames) /\ Open(q) /\ StackOK(q, None) /\ Boots(q) = Boots(s) /\ OneBoot(q)
  BY <1>2, <1>3, StackPop, BootsPop, Popped
<1>5. f \in Frames /\ f.op = "call" /\ ~Awaits(f)
  BY <1>3, DevicesCall
<1>6. PICK r : r = Append(q, f)
  OBVIOUS
<1>7. StackOK(r, None) /\ Boots(r) = Boots(s) /\ OneBoot(r)
  BY <1>4, <1>5, <1>6, StackPush, BootsPush
<1>8. Go(t, r, None)
  BY <1>1, <1>3, <1>6 DEF Repeat, Below
<1>9. QED
  BY <1>1, <1>7, <1>8, QuietStep DEF IInv, ClientOK, Working

LEMMA CallRepeatsOK == ASSUME IInv, NEW t \in Tasks, CallRepeats(t) PROVE IInv'
  BY RepeatOK DEF CallRepeats, At

-----------------------------------------------------------------------------
(* Identities.                                                             *)

LEMMA RedrawOK == ASSUME Redraw PROVE ident' \in Identities
  BY DEF Redraw, Fresh

LEMMA CutOK ==
    ASSUME IInv, Cut
    PROVE  /\ socket' \in {"none", "connecting", "open"} /\ {connected', auto'} \subseteq BOOLEAN
           /\ connected' => socket' # "none"
<1>1. CASE Booting
  BY <1>1 DEF Cut, IInv, TypeOK, ClientOK
<1>2. CASE ~Booting
  BY <1>2, DisconnectOK DEF Cut
<1>3. QED
  BY <1>1, <1>2

LEMMA RenewOK ==
    ASSUME IInv, NEW t \in Tasks, NEW s, StackOK(s, Done), Open(s), OneBoot(s), Boots(s) = Boots(stack[t]),
           Renew(t, s),
           socket' \in {"none", "connecting", "open"}, closes' \in 0 .. Limit - 1,
           {connected', auto', timer', rested'} \subseteq BOOLEAN,
           connected' => socket' # "none"
    PROVE  IInv'
<1>1. ident' \in Identities
  BY RedrawOK DEF Renew
<1>2. CASE Booting
  <2>1. Go(t, s, Done) /\ skipped' = TRUE /\ UNCHANGED <<tokens, device>>
    BY <1>2 DEF Renew
  <2>2. ChainsOK' /\ stack'[t] = s /\ \A u \in Tasks \ {t} : stack'[u] = stack[u]
    BY <1>1, <2>1, GoStep, ResultsAre DEF Keeps
  <2>3. \A u \in Tasks : Boots(stack'[u]) = Boots(stack[u])
    BY <2>2
  <2>4. ClientOK'
    BY <2>1, <2>3 DEF IInv, ClientOK, Boots
  <2>5. TypeOK'
    BY <1>1, <2>1 DEF IInv, TypeOK
  <2>6. QED
    BY <2>2, <2>4, <2>5 DEF IInv
<1>3. CASE ~Booting
  <2>1. PICK f, q : f = BootFrame(TRUE, "health") /\ q = Append(s, f)
    OBVIOUS
  <2>2. f \in Frames /\ f.op = "boot" /\ f.at = "health" /\ ~Awaits(f)
    BY <2>1 DEF BootFrame, Frames, BootFrames, Awaits
  <2>3. \A u \in Tasks : Boots(stack[u]) = {}
    BY <1>3, BootingIs DEF IInv
  <2>4. StackOK(q, None) /\ Boots(q) = {"health"} /\ OneBoot(q)
    BY <2>1, <2>2, <2>3, StackPush, BootsPush DEF StackOK
  <2>5. Go(t, q, None) /\ skipped' = FALSE /\ tokens' = FALSE /\ device' = None
    BY <1>3, <2>1 DEF Renew
  <2>6. ChainsOK' /\ stack'[t] = q /\ \A u \in Tasks \ {t} : stack'[u] = stack[u]
    BY <1>1, <1>3, <2>3, <2>4, <2>5, GoStep
  <2>7. \A u \in Tasks : "register" \notin Boots(stack'[u])
    BY <2>3, <2>4, <2>6
  <2>8. ClientOK'
    BY <2>5, <2>7 DEF ClientOK, Boots
  <2>9. TypeOK'
    BY <1>1, <2>5 DEF TypeOK
  <2>10. QED
    BY <2>6, <2>8, <2>9 DEF IInv
<1>4. QED
  BY <1>2, <1>3

\* No frames, with a recovery on them or without.
LEMMA Bottom ==
    ASSUME NEW s, NEW b, StackOK(s, b), Open(s), OneBoot(s)
    PROVE  /\ StackOK(s, Done)
           /\ LET q == Append(s, RecoverFrame("boot"))
              IN  StackOK(q, Done) /\ Open(q) /\ OneBoot(q) /\ Boots(q) = Boots(s)
<1>1. PICK f, q : f = RecoverFrame("boot") /\ q = Append(s, f)
  OBVIOUS
<1>2. f \in Frames /\ f.op = "recover" /\ ~Awaits(f)
  BY <1>1 DEF RecoverFrame, Frames, RecoverFrames, Awaits
<1>3. StackOK(q, Done) /\ Open(q) /\ OneBoot(q) /\ Boots(q) = Boots(s)
  BY <1>1, <1>2, StackPush, BootsPush DEF StackOK
<1>4. StackOK(s, Done)
  BY OpenAny
<1>5. QED
  BY <1>1, <1>3, <1>4

LEMMA ReprovisionOK == ASSUME IInv, NEW t \in Tasks, Reprovision(t) PROVE IInv'
<1>1. PICK s : s = <<>>
  OBVIOUS
<1>2. stack[t] = s /\ StackOK(s, Done) /\ Open(s) /\ OneBoot(s)
  BY <1>1, NoFrames DEF Reprovision, Idle
<1>3. Renew(t, s) /\ Cut /\ UNCHANGED <<timer, closes, rested>>
  BY <1>1 DEF Reprovision
<1>4. closes' \in 0 .. Limit - 1 /\ {timer', rested'} \subseteq BOOLEAN
  BY <1>3 DEF IInv, TypeOK
<1>5. QED
  BY <1>2, <1>3, <1>4, CutOK, RenewOK

LEMMA ClosesAgainOK == ASSUME IInv, NEW t \in Tasks, SocketClosesAgain(t) PROVE IInv'
<1>1. /\ socket' = "none" /\ connected' = FALSE /\ timer' = TRUE /\ closes' = 0 /\ UNCHANGED auto
      /\ 0 \in 0 .. Limit - 1
  BY IdentityAssumption DEF SocketClosesAgain
<1>2. CASE Recover(t, <<>>)
  <2>1. PICK s, q : s = <<>> /\ q = Append(s, RecoverFrame("boot"))
    OBVIOUS
  <2>2. stack[t] = s /\ StackOK(s, Done) /\ Open(s) /\ OneBoot(s)
    BY <2>1, NoFrames DEF SocketClosesAgain, Idle
  <2>3. StackOK(q, Done) /\ Open(q) /\ OneBoot(q) /\ Boots(q) = Boots(s)
    BY <2>1, <2>2, Bottom
  <2>4. rested' = FALSE /\ Renew(t, q)
    BY <1>2, <2>1 DEF Recover
  <2>5. {connected', auto', timer', rested'} \subseteq BOOLEAN
    BY <1>1, <2>4 DEF IInv, TypeOK
  <2>6. QED
    BY <1>1, <2>2, <2>3, <2>4, <2>5, RenewOK
<1>3. CASE UNCHANGED <<client, chain>>
  <2>1. TypeOK'
    BY <1>1, <1>3 DEF IInv, TypeOK, client
  <2>2. QED
    BY <1>1, <1>3, <2>1, WireStep DEF client
<1>4. QED
  BY <1>2, <1>3 DEF SocketClosesAgain

LEMMA CallRecoversOK == ASSUME IInv, NEW t \in Tasks, CallRecovers(t) PROVE IInv'
<1>1. ~Idle(t) /\ Last(stack[t]).op = "call" /\ Last(stack[t]).at = "devices" /\ UNCHANGED <<timer, closes>>
  BY DEF CallRecovers, MayRepeat
<1>2. CASE Recover(t, stack[t]) /\ Cut
  <2>1. PICK s, q : s = stack[t] /\ q = Append(s, RecoverFrame("boot"))
    OBVIOUS
  <2>2. StackOK(s, back[t]) /\ OneBoot(s) /\ s \in Seq(Frames) /\ s # <<>> /\ Last(s).op = "call"
    BY <1>1, <2>1, StackTypes
  <2>3. Open(s)
    BY <2>2, Popped DEF Open, Awaits
  <2>4. StackOK(q, Done) /\ Open(q) /\ OneBoot(q) /\ Boots(q) = Boots(s)
    BY <2>1, <2>2, <2>3, Bottom
  <2>5. rested' = FALSE /\ Renew(t, q)
    BY <1>2, <2>1 DEF Recover
  <2>6. closes' \in 0 .. Limit - 1 /\ {timer', rested'} \subseteq BOOLEAN
    BY <1>1, <2>5 DEF IInv, TypeOK
  <2>7. QED
    BY <1>2, <2>1, <2>4, <2>5, <2>6, CutOK, RenewOK
<1>3. CASE Repeat(t) /\ UNCHANGED <<client, socket, connected, auto>>
  BY <1>1, <1>3, RepeatOK DEF wires
<1>4. QED
  BY <1>2, <1>3 DEF CallRecovers

LEMMA RetryOK == ASSUME IInv, NEW t \in Tasks, Retry(t) PROVE IInv'
<1>1. PICK f, s, q : f = BootFrame(FALSE, "health") /\ s = <<>> /\ q = Append(s, f)
  OBVIOUS
<1>2. f \in Frames /\ f.op = "boot" /\ f.at = "health" /\ ~Awaits(f)
  BY <1>1 DEF BootFrame, Frames, BootFrames, Awaits
<1>3. \A u \in Tasks : Boots(stack[u]) = {}
  BY BootingIs DEF IInv, Retry
<1>4. StackOK(s, Done) /\ Open(s) /\ OneBoot(s) /\ Boots(s) = {}
  BY <1>1, NoFrames
<1>5. StackOK(q, None) /\ Boots(q) = {"health"} /\ OneBoot(q)
  BY <1>1, <1>2, <1>4, StackPush, BootsPush DEF StackOK
<1>6. q = <<f>>
  BY <1>1
<1>7. Go(t, q, None) /\ skipped' = FALSE /\ UNCHANGED <<wires, ident, tokens, device, rested>>
  BY <1>1, <1>6 DEF Retry
<1>8. ident' \in Identities
  BY <1>7 DEF IInv, TypeOK
<1>9. ChainsOK' /\ stack'[t] = q /\ \A u \in Tasks \ {t} : stack'[u] = stack[u]
  BY <1>3, <1>5, <1>7, <1>8, GoStep DEF Retry
<1>10. (\A u \in Tasks : "register" \notin Boots(stack'[u])) /\ Boots(stack'[t]) \ {"refresh"} # {}
  BY <1>3, <1>5, <1>9
<1>11. ClientOK'
  BY <1>7, <1>10 DEF IInv, ClientOK, Boots, wires
<1>12. TypeOK'
  BY <1>7 DEF IInv, TypeOK, wires
<1>13. QED
  BY <1>9, <1>11, <1>12 DEF IInv

-----------------------------------------------------------------------------
(* The bootstrap.                                                          *)

\* What lies under the bootstrap that is on top, and what was returned to it.
LEMMA BootTop ==
    ASSUME IInv, NEW t \in Tasks, ~Idle(t), Last(stack[t]).op = "boot"
    PROVE  /\ Last(stack[t]) \in BootFrames
           /\ \A c : StackOK(Below(t), c)
           /\ Open(Below(t)) /\ OneBoot(Below(t)) /\ Boots(Below(t)) = {}
           /\ Boots(stack[t]) = {Last(stack[t]).at}
           /\ \A u \in Tasks \ {t} : Boots(stack[u]) = {}
           /\ Awaits(Last(stack[t])) /\ Returned(t, "ok") => Current(back[t].id)
<1>1. PICK s, f : s = stack[t] /\ f = Last(s)
  OBVIOUS
<1>2. s \in Seq(Frames) /\ s # <<>> /\ OneBoot(s) /\ StackOK(s, back[t]) /\ f \in Frames /\ f.op = "boot"
  BY <1>1, StackTypes
<1>3. f \in BootFrames
  BY <1>2 DEF Frames, RecoverFrames, CallFrames
<1>4. (\A c : StackOK(Front(s), c)) /\ Open(Front(s))
  BY <1>1, <1>2, StackPop
<1>5. OneBoot(Front(s)) /\ Boots(Front(s)) = {} /\ Boots(s) = {f.at}
  BY <1>1, <1>2, BootsPop
<1>6. \A u \in Tasks \ {t} : Boots(stack[u]) = {}
  BY <1>1, <1>5 DEF IInv, ChainsOK
<1>7. Len(s) \in 1 .. Len(s) /\ s[Len(s)] = f
  BY <1>1, <1>2, Popped
<1>8. Awaits(f) /\ Returned(t, "ok") => Current(back[t].id)
  BY <1>2, <1>7 DEF StackOK, Above, Returned
<1>9. QED
  BY <1>1, <1>3, <1>4, <1>5, <1>6, <1>8 DEF Below

\* The bootstrap at an await that is no call.
LEMMA MovedOK ==
    ASSUME IInv, NEW t \in Tasks, ~Idle(t), Last(stack[t]).op = "boot",
           NEW at \in {"me", "refresh"}
    PROVE  /\ StackOK(Moved(t, at), None) /\ Open(Moved(t, at)) /\ OneBoot(Moved(t, at))
           /\ Boots(Moved(t, at)) = {at}
<1>1. PICK q, f : q = Below(t) /\ f = BootFrame(Last(stack[t]).fresh, at)
  OBVIOUS
<1>2. f \in Frames /\ f.op = "boot" /\ f.at = at /\ ~Awaits(f)
  BY <1>1, BootTop DEF BootFrame, Frames, BootFrames, Awaits
<1>3. StackOK(q, None) /\ Open(q) /\ OneBoot(q) /\ Boots(q) = {}
  BY <1>1, BootTop
<1>4. PICK r : r = Append(q, f)
  OBVIOUS
<1>5. StackOK(r, None) /\ Open(r) /\ OneBoot(r) /\ Boots(r) = {at}
  BY <1>2, <1>3, <1>4, StackPush, BootsPush DEF StackOK
<1>6. QED
  BY <1>1, <1>4, <1>5 DEF Moved

\* The bootstrap at the call that it makes about the identity.
LEMMA WaitingOK ==
    ASSUME IInv, NEW t \in Tasks, ~Idle(t), Last(stack[t]).op = "boot",
           NEW at \in {"login", "register"},
           NEW w, w = Append(Moved(t, at), CallFrame(at, ident, FALSE))
    PROVE  StackOK(w, None) /\ OneBoot(w) /\ Boots(w) = {at}
<1>1. PICK q, f, g : q = Below(t) /\ f = BootFrame(Last(stack[t]).fresh, at) /\ g = CallFrame(at, ident, FALSE)
  OBVIOUS
<1>2. f \in Frames /\ f.op = "boot" /\ f.at = at /\ Awaits(f)
  BY <1>1, BootTop DEF BootFrame, Frames, BootFrames, Awaits
<1>3. StackOK(q, None) /\ Open(q) /\ OneBoot(q) /\ Boots(q) = {}
  BY <1>1, BootTop
<1>4. g \in Frames /\ g.op = "call" /\ g.at = at /\ Current(g.id)
  BY <1>1 DEF IInv, TypeOK, CallFrame, Frames, CallFrames, Current
<1>5. PICK r : r = Append(q, f)
  OBVIOUS
<1>6. r \in Seq(Frames) /\ OneBoot(r) /\ Boots(r) = {at}
  BY <1>2, <1>3, <1>5, Pushed, BootsPush DEF StackOK
<1>7. w = Append(r, g)
  BY <1>1, <1>5 DEF Moved
<1>8. OneBoot(w) /\ Boots(w) = {at}
  BY <1>4, <1>6, <1>7, BootsPush
<1>9. StackOK(w, None)
  BY <1>2, <1>3, <1>4, <1>5, <1>7, StackCall
<1>10. QED
  BY <1>8, <1>9

\* A step of the one bootstrap, which may change what the client holds.
LEMMA OwnStep ==
    ASSUME IInv, NEW t \in Tasks, ~Idle(t), Last(stack[t]).op = "boot",
           NEW s, NEW b \in Results \cup {None}, Go(t, s, b),
           StackOK(s, b), OneBoot(s), Keeps, TypeOK',
           device' # None => tokens', connected' => socket' # "none",
           "register" \in Boots(s) => tokens',
           skipped' \/ device' \in {None, ident'} \/ Working(s)
    PROVE  IInv'
<1>1. Boots(stack[t]) # {} /\ \A u \in Tasks \ {t} : Boots(stack[u]) = {}
  BY BootTop
<1>2. ident' \in Identities
  BY DEF TypeOK
<1>3. ChainsOK' /\ stack'[t] = s /\ \A u \in Tasks \ {t} : stack'[u] = stack[u]
  BY <1>1, <1>2, GoStep
<1>4. \A u \in Tasks : "register" \in Boots(stack'[u]) => tokens'
  BY <1>1, <1>3
<1>5. skipped' \/ device' \in {None, ident'} \/ \E u \in Tasks : Boots(stack'[u]) \ {"refresh"} # {}
  BY <1>3 DEF Working
<1>6. ClientOK'
  BY <1>4, <1>5 DEF ClientOK, Boots
<1>7. QED
  BY <1>3, <1>6 DEF IInv

LEMMA ReconnectOK ==
    ASSUME IInv, NEW tok, NEW id, Reconnect(tok, id)
    PROVE  /\ socket' \in {"none", "connecting", "open"} /\ auto' \in BOOLEAN
           /\ tok /\ id # None => socket' # "none"
  BY ConnectOK, DisconnectOK DEF Reconnect

LEMMA BootHealthOK == ASSUME IInv, NEW t \in Tasks, BootHealth(t) PROVE IInv'
<1>1. ~Idle(t) /\ Last(stack[t]).op = "boot" /\ UNCHANGED <<wires, client>>
  BY DEF BootHealth, At
<1>2. Boots(stack[t]) # {}
  BY <1>1, BootTop
<1>3. CASE Login(t)
  <2>1. PICK w : w = Append(Moved(t, "login"), CallFrame("login", ident, FALSE))
    OBVIOUS
  <2>2. StackOK(w, None) /\ OneBoot(w) /\ Boots(w) = {"login"}
    BY <1>1, <2>1, WaitingOK
  <2>3. Go(t, w, None)
    BY <1>3, <2>1 DEF Login
  <2>4. QED
    BY <1>1, <1>2, <2>2, <2>3, QuietStep DEF Working
<1>4. CASE Go(t, Append(Moved(t, "me"), CallFrame("me", None, FALSE)), None)
  <2>1. PICK m, f, w : m = Moved(t, "me") /\ f = CallFrame("me", None, FALSE) /\ w = Append(m, f)
    OBVIOUS
  <2>2. StackOK(m, None) /\ Open(m) /\ OneBoot(m) /\ Boots(m) = {"me"} /\ m \in Seq(Frames)
    BY <1>1, <2>1, MovedOK DEF StackOK
  <2>3. f \in Frames /\ f.op = "call" /\ ~Awaits(f)
    BY <2>1 DEF CallFrame, Frames, CallFrames, Awaits
  <2>4. StackOK(w, None) /\ OneBoot(w) /\ Boots(w) = {"me"}
    BY <2>1, <2>2, <2>3, StackPush, BootsPush
  <2>5. QED
    BY <1>1, <1>2, <1>4, <2>1, <2>4, QuietStep DEF Working
<1>5. QED
  BY <1>3, <1>4 DEF BootHealth

\* The bootstrap refreshes the devices; the identity there is counts.
LEMMA RefreshingOK ==
    ASSUME IInv, NEW t \in Tasks, ~Idle(t), Last(stack[t]).op = "boot",
           NEW tok, Refresh(t, Moved(t, "refresh"), tok)
    PROVE  \E q : \E c \in Results \cup {None} :
               Go(t, q, c) /\ StackOK(q, c) /\ OneBoot(q) /\ Boots(q) = {"refresh"}
<1>1. PICK m : m = Moved(t, "refresh")
  OBVIOUS
<1>2. StackOK(m, None) /\ Open(m) /\ OneBoot(m) /\ Boots(m) = {"refresh"}
  BY <1>1, MovedOK
<1>3. PICK q : \E c \in Results \cup {None} :
                   Go(t, q, c) /\ StackOK(q, c) /\ Boots(q) = Boots(m) /\ (OneBoot(m) => OneBoot(q))
  BY <1>1, <1>2, RefreshStep
<1>4. QED
  BY <1>2, <1>3

LEMMA BootMeOK == ASSUME IInv, NEW t \in Tasks, BootMe(t) PROVE IInv'
<1>1. ~Idle(t) /\ Last(stack[t]).op = "boot" /\ UNCHANGED <<wires, client>>
  BY DEF BootMe, At
<1>2. Boots(stack[t]) # {}
  BY <1>1, BootTop
<1>3. CASE tokens
  <2>1. PICK w : w = Append(Moved(t, "register"), CallFrame("register", ident, FALSE))
    OBVIOUS
  <2>2. StackOK(w, None) /\ OneBoot(w) /\ Boots(w) = {"register"}
    BY <1>1, <2>1, WaitingOK
  <2>3. Go(t, w, None)
    BY <1>3, <2>1 DEF BootMe
  <2>4. QED
    BY <1>1, <1>2, <1>3, <2>2, <2>3, QuietStep DEF Working
<1>4. CASE ~tokens
  <2>1. Refresh(t, Moved(t, "refresh"), tokens)
    BY <1>4 DEF BootMe
  <2>2. PICK q : \E c \in Results \cup {None} :
                     Go(t, q, c) /\ StackOK(q, c) /\ OneBoot(q) /\ Boots(q) = {"refresh"}
    BY <1>1, <2>1, RefreshingOK
  <2>3. device = None
    BY <1>4 DEF IInv, ClientOK
  <2>4. QED
    BY <1>1, <1>2, <2>2, <2>3, QuietStep
<1>5. QED
  BY <1>3, <1>4

\* A registration or a login was answered: the device is known.
LEMMA BootAnswered ==
    ASSUME IInv, NEW t \in Tasks, ~Idle(t), Last(stack[t]).op = "boot", Awaits(Last(stack[t])), Returned(t, "ok"),
           tokens' = TRUE, device' = back[t].id, Reconnect(TRUE, device'), Refresh(t, Moved(t, "refresh"), TRUE),
           UNCHANGED <<ident, rested, skipped, connected, timer, closes>>
    PROVE  IInv'
<1>1. PICK i : i = back[t].id
  OBVIOUS
<1>2. i \in Identities /\ i # None /\ (skipped \/ i = ident)
  BY <1>1, BootTop, IdentityAssumption DEF Current
<1>3. PICK q : \E c \in Results \cup {None} :
                   Go(t, q, c) /\ StackOK(q, c) /\ OneBoot(q) /\ Boots(q) = {"refresh"}
  BY RefreshingOK
<1>4. Reconnect(TRUE, i) /\ device' = i
  BY <1>1
<1>5. socket' \in {"connecting", "open"} /\ auto' \in BOOLEAN
  BY <1>2, <1>4, ReconnectOK
<1>6. TypeOK'
  BY <1>2, <1>4, <1>5 DEF IInv, TypeOK
<1>7. Keeps
  BY DEF Keeps
<1>8. device' # None => tokens'
  OBVIOUS
<1>9. connected' => socket' # "none"
  BY <1>5
<1>10. skipped' \/ device' \in {None, ident'}
  BY <1>2, <1>4
<1>11. QED
  BY <1>3, <1>6, <1>7, <1>8, <1>9, <1>10, OwnStep

LEMMA BootRegisterOK == ASSUME IInv, NEW t \in Tasks, BootRegister(t) PROVE IInv'
<1>1. ~Idle(t) /\ Last(stack[t]).op = "boot" /\ Last(stack[t]).at = "register" /\ Returned(t, "ok")
  BY DEF BootRegister, At
<1>2. tokens = TRUE
  BY <1>1, BootTop DEF IInv, ClientOK, TypeOK
<1>3. QED
  BY <1>1, <1>2, BootAnswered DEF BootRegister, Awaits

LEMMA BootLoginOK == ASSUME IInv, NEW t \in Tasks, BootLogin(t) PROVE IInv'
<1>1. ~Idle(t) /\ Last(stack[t]).op = "boot" /\ Last(stack[t]).at = "login" /\ Returned(t, "ok")
  BY DEF BootLogin, At
<1>2. tokens' = TRUE /\ Reconnect(TRUE, device') /\ Refresh(t, Moved(t, "refresh"), TRUE)
  BY DEF BootLogin
<1>3. QED
  BY <1>1, <1>2, BootAnswered DEF BootLogin, Awaits

LEMMA BootRegisterRefusedOK == ASSUME IInv, NEW t \in Tasks, BootRegisterRefused(t) PROVE IInv'
<1>1. ~Idle(t) /\ Last(stack[t]).op = "boot"
  BY DEF BootRegisterRefused, At
<1>2. ident' \in Identities /\ skipped' = TRUE /\ UNCHANGED <<wires, tokens, device, rested>>
  BY RedrawOK DEF BootRegisterRefused
<1>3. PICK q : \E c \in Results \cup {None} :
                   Go(t, q, c) /\ StackOK(q, c) /\ OneBoot(q) /\ Boots(q) = {"refresh"}
  BY <1>1, RefreshingOK DEF BootRegisterRefused
<1>4. TypeOK' /\ Keeps
  BY <1>2 DEF IInv, TypeOK, Keeps, wires
<1>5. (device' # None => tokens') /\ (connected' => socket' # "none")
  BY <1>2 DEF IInv, ClientOK, wires
<1>6. QED
  BY <1>1, <1>2, <1>3, <1>4, <1>5, OwnStep

LEMMA BootFallsBackOK == ASSUME IInv, NEW t \in Tasks, BootFallsBack(t) PROVE IInv'
<1>1. ~Idle(t) /\ Last(stack[t]).op = "boot"
  BY DEF BootFallsBack, At
<1>2. tokens' = FALSE /\ device' = None /\ UNCHANGED <<wires, ident, rested, skipped>>
  BY DEF BootFallsBack
<1>3. PICK w : w = Append(Moved(t, "login"), CallFrame("login", ident, FALSE))
  OBVIOUS
<1>4. StackOK(w, None) /\ OneBoot(w) /\ Boots(w) = {"login"}
  BY <1>1, <1>3, WaitingOK
<1>5. Go(t, w, None)
  BY <1>3 DEF BootFallsBack, Login
<1>6. TypeOK' /\ Keeps
  BY <1>2 DEF IInv, TypeOK, Keeps, wires
<1>7. (device' # None => tokens') /\ (connected' => socket' # "none")
  BY <1>2 DEF IInv, ClientOK, wires
<1>8. QED
  BY <1>1, <1>2, <1>4, <1>5, <1>6, <1>7, OwnStep

LEMMA BootFailsOK == ASSUME IInv, NEW t \in Tasks, BootFails(t) PROVE IInv'
<1>1. ~Idle(t) /\ Last(stack[t]).op = "boot"
  BY DEF BootFails, At
<1>2. /\ tokens' = FALSE /\ device' = None /\ connected' = FALSE
      /\ UNCHANGED <<ident, rested, skipped, socket, auto, timer, closes>>
  BY DEF BootFails
<1>3. PICK s : s = Below(t)
  OBVIOUS
<1>4. StackOK(s, Done) /\ OneBoot(s) /\ Boots(s) = {} /\ Go(t, s, Done)
  BY <1>1, <1>3, BootTop DEF BootFails
<1>5. TypeOK' /\ Keeps
  BY <1>2 DEF IInv, TypeOK, Keeps
<1>6. QED
  BY <1>1, <1>2, <1>4, <1>5, ResultsAre, OwnStep

LEMMA BootEndsOK == ASSUME IInv, NEW t \in Tasks, BootEnds(t) PROVE IInv'
<1>1. ~Idle(t) /\ Last(stack[t]).op = "boot" /\ Last(stack[t]).at = "refresh" /\ UNCHANGED <<wires, client>>
  BY DEF BootEnds, At
<1>2. PICK s : s = Below(t)
  OBVIOUS
<1>3. StackOK(s, Done) /\ OneBoot(s) /\ Boots(s) = {} /\ Go(t, s, Done) /\ Boots(stack[t]) = {"refresh"}
  BY <1>1, <1>2, BootTop DEF BootEnds
<1>4. QED
  BY <1>1, <1>3, ResultsAre, QuietStep DEF Working

-----------------------------------------------------------------------------
LEMMA NextOK == IInv /\ [Next]_vars => IInv'
<1>1. SUFFICES ASSUME IInv, [Next]_vars PROVE IInv'
  OBVIOUS
<1>2. CASE UNCHANGED vars
  <2>1. TypeOK' /\ (connected' => socket' # "none")
    BY <1>1, <1>2 DEF IInv, TypeOK, ClientOK, vars
  <2>2. QED
    BY <1>1, <1>2, <2>1, WireStep DEF vars, chain
<1>3. CASE SocketOpens \/ SocketCloses \/ Timer \/ TwentySeconds
  BY <1>1, <1>3, SocketsOK
<1>4. ASSUME NEW t \in Tasks, User(t) PROVE IInv'
  BY <1>1, <1>4, ReprovisionOK, RetryOK, UseOK DEF User
<1>5. ASSUME NEW t \in Tasks, SocketClosesAgain(t) PROVE IInv'
  BY <1>1, <1>5, ClosesAgainOK
<1>6. ASSUME NEW t \in Tasks, Boot(t) PROVE IInv'
  BY <1>1, <1>6, BootHealthOK, BootMeOK, BootRegisterOK, BootRegisterRefusedOK, BootFallsBackOK,
     BootLoginOK, BootFailsOK, BootEndsOK DEF Boot
<1>7. ASSUME NEW t \in Tasks, Progress(t) PROVE IInv'
  BY <1>1, <1>6, <1>7, RecoverOK, CallEndsOK, CallRecoversOK, CallRepeatsOK DEF Progress
<1>8. QED
  BY <1>1, <1>2, <1>3, <1>4, <1>5, <1>7 DEF Next

\* The invariant contains the safety properties.
LEMMA Consequences == IInv => TypeOK /\ DeviceHasToken /\ ConnectedHasSocket /\ MismatchIsSkipped
<1>1. SUFFICES ASSUME IInv PROVE TypeOK /\ DeviceHasToken /\ ConnectedHasSocket /\ MismatchIsSkipped
  OBVIOUS
<1>2. ASSUME \A t \in Tasks : Idle(t) PROVE \A t \in Tasks : Boots(stack[t]) = {}
  BY <1>2, NoFrames DEF Idle
<1>3. MismatchIsSkipped
  BY <1>1, <1>2 DEF IInv, ClientOK, MismatchIsSkipped
<1>4. QED
  BY <1>1, <1>3 DEF IInv, ClientOK, DeviceHasToken, ConnectedHasSocket

\* The variables of the client are well-typed.
THEOREM BootstrapTypes == Spec => []TypeOK
  BY InitOK, NextOK, Consequences, PTL DEF Spec

\* A client that has a device has tokens for it.
THEOREM DevicesHaveTokens == Spec => []DeviceHasToken
  BY InitOK, NextOK, Consequences, PTL DEF Spec

\* A client that says it is connected has a socket.
THEOREM ConnectedHaveSockets == Spec => []ConnectedHasSocket
  BY InitOK, NextOK, Consequences, PTL DEF Spec

\* A client at rest works as the device of its identity, unless a bootstrap
\* did not notice that it was renewed.
THEOREM MismatchesAreSkipped == Spec => []MismatchIsSkipped
  BY InitOK, NextOK, Consequences, PTL DEF Spec

-----------------------------------------------------------------------------
(* The length of a chain: a call that waits waits for a recovery, and there *)
(* is one recovery and one bootstrap in it at the most.                    *)

Shape(s) ==
    /\ \A m, n \in 1 .. Len(s) : s[m].op = "recover" /\ s[n].op = "recover" => m = n
    /\ \A n \in 1 .. Len(s) : s[n].op = "call" /\ n < Len(s) => s[n + 1].op = "recover"

\* Whether frame f may come on top of s.
Fits(s, f) ==
    /\ Len(s) > 0 /\ s[Len(s)].op = "call" => f.op = "recover"
    /\ f.op = "recover" => \A n \in 1 .. Len(s) : s[n].op # "recover"

LEMMA ShapePush ==
    ASSUME NEW s \in Seq(Frames), NEW f \in Frames, Shape(s), Fits(s, f)
    PROVE  Shape(Append(s, f)) /\ Append(s, f) \in Seq(Frames)
<1>1. PICK q : q = Append(s, f)
  OBVIOUS
<1>2. /\ q \in Seq(Frames) /\ Len(s) \in Nat /\ Len(q) = Len(s) + 1 /\ q[Len(s) + 1] = f
      /\ \A n \in 1 .. Len(s) : q[n] = s[n]
      /\ \A n \in 1 .. Len(s) + 1 : n \in 1 .. Len(s) \/ n = Len(s) + 1
  BY <1>1, Pushed
<1>3. ASSUME NEW m \in 1 .. Len(q), NEW n \in 1 .. Len(q), q[m].op = "recover", q[n].op = "recover" PROVE m = n
  BY <1>2, <1>3 DEF Shape, Fits
<1>4. ASSUME NEW n \in 1 .. Len(q), q[n].op = "call", n < Len(q) PROVE q[n + 1].op = "recover"
  <2>1. n \in 1 .. Len(s) /\ s[n].op = "call"
    BY <1>2, <1>4
  <2>2. CASE n = Len(s)
    BY <1>2, <2>1, <2>2 DEF Fits
  <2>3. CASE n < Len(s)
    <3>1. n + 1 \in 1 .. Len(s) /\ s[n + 1].op = "recover"
      BY <1>2, <2>1, <2>3 DEF Shape
    <3>2. QED
      BY <1>2, <3>1
  <2>4. QED
    BY <1>2, <2>1, <2>2, <2>3
<1>5. QED
  BY <1>1, <1>2, <1>3, <1>4 DEF Shape

\* The last frame goes, or another of its kind takes its place.
LEMMA ShapePop ==
    ASSUME NEW s \in Seq(Frames), s # <<>>, Shape(s)
    PROVE  /\ Shape(Front(s)) /\ Front(s) \in Seq(Frames)
           /\ \A f \in Frames : f.op = Last(s).op =>
                 Shape(Append(Front(s), f)) /\ Append(Front(s), f) \in Seq(Frames) /\ Fits(Front(s), f)
<1>1. PICK q : q = Front(s)
  OBVIOUS
<1>2. /\ q \in Seq(Frames) /\ Len(s) \in Nat /\ Len(s) >= 1 /\ Len(q) = Len(s) - 1 /\ Last(s) = s[Len(s)]
      /\ \A n \in 1 .. Len(s) - 1 : q[n] = s[n]
  BY <1>1, Popped
<1>3. Shape(q)
  <2>1. \A n \in 1 .. Len(q) : n \in 1 .. Len(s) /\ q[n] = s[n]
    BY <1>2
  <2>2. ASSUME NEW n \in 1 .. Len(q), q[n].op = "call", n < Len(q) PROVE q[n + 1].op = "recover"
    <3>1. n \in 1 .. Len(s) /\ n < Len(s) /\ n + 1 \in 1 .. Len(q)
      BY <1>2, <2>2
    <3>2. QED
      BY <2>1, <2>2, <3>1 DEF Shape
  <2>3. QED
    BY <2>1, <2>2 DEF Shape
<1>4. ASSUME NEW f \in Frames, f.op = Last(s).op PROVE Fits(q, f)
  <2>1. Len(q) > 0 /\ q[Len(q)].op = "call" => f.op = "recover"
    <3>1. Len(q) > 0 => Len(q) \in 1 .. Len(s) /\ q[Len(q)] = s[Len(q)] /\ Len(q) + 1 = Len(s) /\ Len(q) < Len(s)
      BY <1>2
    <3>2. QED
      BY <1>2, <1>4, <3>1 DEF Shape
  <2>2. ASSUME f.op = "recover", NEW n \in 1 .. Len(q) PROVE q[n].op # "recover"
    <3>1. n \in 1 .. Len(s) /\ Len(s) \in 1 .. Len(s) /\ q[n] = s[n] /\ n # Len(s) /\ s[Len(s)].op = "recover"
      BY <1>2, <1>4, <2>2
    <3>2. QED
      BY <3>1 DEF Shape
  <2>3. QED
    BY <2>1, <2>2 DEF Fits
<1>5. QED
  BY <1>1, <1>2, <1>3, <1>4, ShapePush

LEMMA ShapeIsShort == ASSUME NEW s \in Seq(Frames), Shape(s), OneBoot(s) PROVE Len(s) <= 4
<1> SUFFICES ASSUME Len(s) > 4 PROVE FALSE
  BY LenProperties
<1>1. \A n \in 1 .. 4 : n \in 1 .. Len(s) /\ n < Len(s) /\ n + 1 \in 1 .. Len(s) /\ s[n].op \in {"boot", "recover", "call"}
  <2>1. Len(s) \in Nat
    BY LenProperties
  <2>2. \A n \in 1 .. Len(s) : s[n].op \in {"boot", "recover", "call"}
    BY ElementOfSeq DEF Frames, BootFrames, RecoverFrames, CallFrames
  <2>3. QED
    BY <2>1, <2>2
<1>2. \A m, n \in 1 .. 4 : s[m].op = s[n].op => m = n
  <2>1. ASSUME NEW m \in 1 .. 4, NEW n \in 1 .. 4, s[m].op = "call", s[n].op = "call" PROVE m = n
    <3>1. s[m + 1].op = "recover" /\ s[n + 1].op = "recover"
      BY <1>1, <2>1 DEF Shape
    <3>2. m + 1 = n + 1
      BY <1>1, <3>1 DEF Shape
    <3>3. QED
      BY <3>2
  <2>2. QED
    BY <1>1, <2>1 DEF Shape, OneBoot
<1>3. /\ s[1].op # s[2].op /\ s[1].op # s[3].op /\ s[1].op # s[4].op
      /\ s[2].op # s[3].op /\ s[2].op # s[4].op /\ s[3].op # s[4].op
  BY <1>2
<1>4. QED
  BY <1>1, <1>3

ShapesOK == \A t \in Tasks : Shape(stack[t])

LEMMA ShapeEmpty ==
    /\ Shape(<<>>) /\ <<>> \in Seq(Frames) /\ ~(Len(<<>>) > 0)
    /\ \A f : Fits(<<>>, f) /\ <<f>> = Append(<<>>, f)
<1>1. PICK s : s = <<>>
  OBVIOUS
<1>2. s \in Seq(Frames) /\ Len(s) = 0
  BY <1>1, EmptySeq
<1>3. Shape(s) /\ \A f : Fits(s, f)
  BY <1>2 DEF Shape, Fits
<1>4. \A f : <<f>> = Append(<<>>, f)
  OBVIOUS
<1>5. QED
  BY <1>1, <1>2, <1>3, <1>4

LEMMA GoShape ==
    ASSUME IInv, ShapesOK, NEW t \in Tasks, NEW s, NEW b, Go(t, s, b), Shape(s) PROVE ShapesOK'
  BY DEF IInv, ChainsOK, ShapesOK, Go

LEMMA RefreshShape ==
    ASSUME IInv, ShapesOK, NEW t \in Tasks, NEW s \in Seq(Frames), Shape(s), NEW tok, Refresh(t, s, tok),
           Len(s) > 0 => s[Len(s)].op # "call"
    PROVE  ShapesOK'
<1>1. PICK f : f = CallFrame("devices", None, FALSE)
  OBVIOUS
<1>2. f \in Frames /\ Fits(s, f)
  BY <1>1, DevicesCall DEF Fits
<1>3. Go(t, Append(s, f), None) \/ Go(t, s, Done)
  BY <1>1 DEF Refresh
<1>4. QED
  BY <1>2, <1>3, GoShape, ShapePush

LEMMA FrameKinds ==
    /\ \A fresh \in BOOLEAN, at \in {"health", "me", "register", "login", "refresh"} :
          BootFrame(fresh, at) \in Frames /\ BootFrame(fresh, at).op = "boot"
    /\ \A at \in {"boot", "refresh"} : RecoverFrame(at) \in Frames /\ RecoverFrame(at).op = "recover"
    /\ \A path \in {"login", "me", "register", "devices"}, i \in Identities \cup {None}, b \in BOOLEAN :
          CallFrame(path, i, b) \in Frames /\ CallFrame(path, i, b).op = "call"
  BY DEF BootFrame, RecoverFrame, CallFrame, Frames, BootFrames, RecoverFrames, CallFrames

\* A bootstrap may come on top of a recovery, and on nothing.
LEMMA RenewShape ==
    ASSUME IInv, ShapesOK, NEW t \in Tasks, NEW s \in Seq(Frames), Shape(s), Renew(t, s),
           Len(s) > 0 => s[Len(s)].op # "call"
    PROVE  ShapesOK'
<1>1. PICK f : f = BootFrame(TRUE, "health")
  OBVIOUS
<1>2. f \in Frames /\ f.op = "boot"
  BY <1>1, FrameKinds
<1>3. Fits(s, f)
  BY <1>2 DEF Fits
<1>4. Go(t, s, Done) \/ Go(t, Append(s, f), None)
  BY <1>1 DEF Renew
<1>5. QED
  BY <1>2, <1>3, <1>4, GoShape, ShapePush

LEMMA RecoverShape ==
    ASSUME IInv, ShapesOK, NEW t \in Tasks, NEW s \in Seq(Frames), Shape(s), s \in {<<>>, stack[t]}, Recover(t, s)
    PROVE  ShapesOK'
<1>1. PICK f : f = RecoverFrame("boot")
  OBVIOUS
<1>2. f \in Frames /\ f.op = "recover"
  BY <1>1, FrameKinds
<1>3. \A n \in 1 .. Len(s) : s[n].op # "recover"
  BY ShapeEmpty DEF Recover, MayRecover, Recovering, Within
<1>4. PICK q : q = Append(s, f)
  OBVIOUS
<1>5. Shape(q) /\ q \in Seq(Frames) /\ Len(q) > 0 /\ q[Len(q)].op # "call"
  <2>1. Fits(s, f)
    BY <1>2, <1>3 DEF Fits
  <2>2. Len(q) = Len(s) + 1 /\ q[Len(s) + 1] = f /\ Len(s) \in Nat
    BY <1>2, <1>4, Pushed
  <2>3. QED
    BY <1>2, <1>4, <2>1, <2>2, ShapePush
<1>6. Renew(t, q)
  BY <1>1, <1>4 DEF Recover
<1>7. QED
  BY <1>5, <1>6, RenewShape

\* The frames under a bootstrap that is on top, and the bootstrap itself moved.
LEMMA MovedShape ==
    ASSUME IInv, ShapesOK, NEW t \in Tasks, ~Idle(t), Last(stack[t]).op = "boot",
           NEW at \in {"health", "me", "register", "login", "refresh"}
    PROVE  /\ Shape(Below(t))
           /\ Moved(t, at) \in Seq(Frames) /\ Shape(Moved(t, at))
           /\ Len(Moved(t, at)) > 0 /\ Moved(t, at)[Len(Moved(t, at))].op = "boot"
<1>1. PICK q, f : q = Below(t) /\ f = BootFrame(Last(stack[t]).fresh, at)
  OBVIOUS
<1>2. f \in Frames /\ f.op = "boot"
  BY <1>1, BootTop, FrameKinds DEF BootFrames
<1>3. stack[t] \in Seq(Frames) /\ stack[t] # <<>> /\ Shape(stack[t])
  BY StackTypes DEF ShapesOK
<1>4. q \in Seq(Frames) /\ Shape(q) /\ Shape(Append(q, f))
  BY <1>1, <1>2, <1>3, ShapePop DEF Below
<1>5. /\ Append(q, f) \in Seq(Frames) /\ Len(Append(q, f)) = Len(q) + 1 /\ Len(q) \in Nat
      /\ Append(q, f)[Len(q) + 1] = f
  BY <1>2, <1>4, Pushed
<1>6. QED
  BY <1>1, <1>2, <1>4, <1>5 DEF Moved

\* The bootstrap makes a call.
LEMMA CallShape ==
    ASSUME IInv, ShapesOK, NEW t \in Tasks, ~Idle(t), Last(stack[t]).op = "boot",
           NEW at \in {"me", "register", "login"}, NEW i \in Identities \cup {None},
           Go(t, Append(Moved(t, at), CallFrame(at, i, FALSE)), None)
    PROVE  ShapesOK'
<1>1. PICK q, f : q = Moved(t, at) /\ f = CallFrame(at, i, FALSE)
  OBVIOUS
<1>2. q \in Seq(Frames) /\ Shape(q) /\ Len(q) > 0 /\ q[Len(q)].op = "boot"
  BY <1>1, MovedShape
<1>3. f \in Frames /\ f.op = "call"
  BY <1>1, FrameKinds
<1>4. Fits(q, f)
  BY <1>2, <1>3 DEF Fits
<1>5. QED
  BY <1>1, <1>2, <1>3, <1>4, GoShape, ShapePush

LEMMA BootShape == ASSUME IInv, ShapesOK, NEW t \in Tasks, Boot(t) PROVE ShapesOK'
<1>1. ~Idle(t) /\ Last(stack[t]).op = "boot"
  BY DEF Boot, BootHealth, BootMe, BootRegister, BootRegisterRefused, BootFallsBack, BootLogin, BootFails, BootEnds, At
<1>2. ident \in Identities
  BY DEF IInv, TypeOK
<1>3. \A tok : Refresh(t, Moved(t, "refresh"), tok) => ShapesOK'
  BY <1>1, MovedShape, RefreshShape
<1>4. \A at \in {"me", "register", "login"} : \A i \in Identities \cup {None} :
          Go(t, Append(Moved(t, at), CallFrame(at, i, FALSE)), None) => ShapesOK'
  BY <1>1, CallShape
<1>5. Go(t, Below(t), Done) => ShapesOK'
  BY <1>1, MovedShape, GoShape
<1>6. QED
  BY <1>2, <1>3, <1>4, <1>5
     DEF Boot, BootHealth, BootMe, BootRegister, BootRegisterRefused, BootFallsBack, BootLogin, BootFails, BootEnds, Login

LEMMA ShapesNext == IInv /\ ShapesOK /\ [Next]_vars => ShapesOK'
<1> SUFFICES ASSUME IInv, ShapesOK, [Next]_vars PROVE ShapesOK'
  OBVIOUS
<1>1. CASE UNCHANGED stack
  BY <1>1 DEF ShapesOK
<1>2. CASE SocketOpens \/ SocketCloses \/ Timer \/ TwentySeconds
  BY <1>1, <1>2 DEF SocketOpens, SocketCloses, Timer, TwentySeconds, chain
<1>3. ASSUME NEW t \in Tasks, User(t) PROVE ShapesOK'
  <2>1. CASE Reprovision(t)
    BY <2>1, RenewShape, ShapeEmpty DEF Reprovision
  <2>2. CASE Retry(t)
    <3>1. PICK f : f = BootFrame(FALSE, "health")
      OBVIOUS
    <3>2. f \in Frames /\ <<f>> = Append(<<>>, f) /\ Fits(<<>>, f)
      BY <3>1, FrameKinds, ShapeEmpty
    <3>3. QED
      BY <2>2, <3>1, <3>2, GoShape, ShapePush, ShapeEmpty DEF Retry
  <2>3. CASE Use(t)
    BY <2>3, RefreshShape, ShapeEmpty DEF Use
  <2>4. QED
    BY <1>3, <2>1, <2>2, <2>3 DEF User
<1>4. ASSUME NEW t \in Tasks, SocketClosesAgain(t) PROVE ShapesOK'
  BY <1>1, <1>4, RecoverShape, ShapeEmpty DEF SocketClosesAgain, chain
<1>5. ASSUME NEW t \in Tasks, Progress(t) PROVE ShapesOK'
  <2>1. /\ stack[t] \in Seq(Frames) /\ stack[t] # <<>> /\ Shape(stack[t])
        /\ Below(t) \in Seq(Frames) /\ Shape(Below(t))
    BY <1>5, StackTypes, ShapePop DEF Progress, ShapesOK, Below
  <2>2. CASE RecoverEnds(t) \/ CallEnds(t)
    BY <2>1, <2>2, GoShape DEF RecoverEnds, CallEnds
  <2>3. CASE RecoverRefreshes(t)
    <3>1. PICK f : f = RecoverFrame("refresh")
      OBVIOUS
    <3>2. f \in Frames /\ f.op = "recover" /\ Last(stack[t]).op = "recover"
      BY <2>3, <3>1, FrameKinds DEF RecoverRefreshes, At
    <3>3. PICK q : q = Append(Below(t), f)
      OBVIOUS
    <3>4. q \in Seq(Frames) /\ Shape(q)
      BY <2>1, <3>2, <3>3, ShapePop DEF Below
    <3>5. Len(q) = Len(Below(t)) + 1 /\ q[Len(Below(t)) + 1] = f
      BY <2>1, <3>2, <3>3, Pushed
    <3>6. Refresh(t, q, tokens)
      BY <2>3, <3>1, <3>3 DEF RecoverRefreshes
    <3>7. q[Len(q)].op # "call"
      BY <3>2, <3>5
    <3>8. QED
      BY <3>4, <3>6, <3>7, RefreshShape
  <2>4. CASE Last(stack[t]).op = "call" /\ Repeat(t)
    <3>1. PICK f : f = CallFrame("devices", None, TRUE)
      OBVIOUS
    <3>2. f \in Frames /\ f.op = "call"
      BY <3>1, FrameKinds
    <3>3. Shape(Append(Below(t), f))
      BY <2>1, <2>4, <3>2, ShapePop DEF Below
    <3>4. QED
      BY <2>4, <3>1, <3>3, GoShape DEF Repeat
  <2>5. CASE CallRecovers(t) \/ CallRepeats(t)
    BY <2>1, <2>4, <2>5, RecoverShape DEF CallRecovers, CallRepeats, At
  <2>6. QED
    BY <1>5, <2>2, <2>3, <2>5, BootShape DEF Progress
<1>6. CASE UNCHANGED vars
  BY <1>1, <1>6 DEF vars
<1>7. QED
  BY <1>2, <1>3, <1>4, <1>5, <1>6 DEF Next

LEMMA ShapesInit == Init => ShapesOK
<1>1. PICK f : f = BootFrame(FALSE, "health")
  OBVIOUS
<1>2. f \in Frames /\ <<f>> = Append(<<>>, f) /\ Fits(<<>>, f)
  BY <1>1, FrameKinds, ShapeEmpty
<1>3. Shape(<<f>>)
  BY <1>2, ShapePush, ShapeEmpty
<1>4. QED
  BY <1>1, <1>3, ShapeEmpty DEF Init, ShapesOK

LEMMA ShapesAreShort == IInv /\ ShapesOK => ChainsAreShort
<1> SUFFICES ASSUME IInv, ShapesOK, NEW t \in Tasks
             PROVE  /\ Len(stack[t]) <= 4
                    /\ \A n \in 1 .. Len(stack[t]) : \A m \in 1 .. n - 1 :
                           stack[t][m].op = stack[t][n].op => stack[t][n].op = "call"
  BY DEF ChainsAreShort
<1>1. PICK s : s = stack[t]
  OBVIOUS
<1>2. s \in Seq(Frames) /\ Shape(s) /\ OneBoot(s) /\ Len(s) <= 4
  BY <1>1, StackTypes, ShapeIsShort DEF ShapesOK
<1>3. ASSUME NEW n \in 1 .. Len(s), NEW m \in 1 .. n - 1, s[m].op = s[n].op PROVE s[n].op = "call"
  <2>1. m \in 1 .. Len(s) /\ m # n
    BY <1>2, LenProperties
  <2>2. s[n].op \in {"boot", "recover", "call"}
    BY <1>2, ElementOfSeq DEF Frames, BootFrames, RecoverFrames, CallFrames
  <2>3. QED
    BY <1>2, <1>3, <2>1, <2>2 DEF Shape, OneBoot
<1>4. QED
  BY <1>1, <1>2, <1>3

\* However calls, recoveries and bootstraps ask for each other, a chain is never
\* longer than four and has no recovery or bootstrap within another.
THEOREM ShortChains == Spec => []ChainsAreShort
  BY InitOK, NextOK, ShapesInit, ShapesNext, ShapesAreShort, PTL DEF Spec

-----------------------------------------------------------------------------
(* Every step of a chain leaves fewer to come.  What the frames below the  *)
(* last one are worth stays, whatever takes the place of the last one.     *)

BootWorth(at, d) ==
    IF at = "refresh" THEN 1
    ELSE d + (CASE at = "login" -> 2 [] at = "register" -> 4 [] at = "me" -> 6 [] at = "health" -> 8)

LEMMA BootWorthNat ==
    ASSUME NEW at \in {"health", "me", "register", "login", "refresh"}, NEW d \in {2, 17}
    PROVE  /\ BootWorth(at, d) \in Nat \ {0}
           /\ at = "health" => BootWorth(at, d) = d + 8
           /\ at = "me" => BootWorth(at, d) = d + 6
           /\ at = "register" => BootWorth(at, d) = d + 4
           /\ at = "login" => BootWorth(at, d) = d + 2
           /\ at = "refresh" => BootWorth(at, d) = 1
<1>1. at = "health" => BootWorth(at, d) = d + 8
  BY DEF BootWorth
<1>2. at = "me" => BootWorth(at, d) = d + 6
  BY DEF BootWorth
<1>3. at = "register" => BootWorth(at, d) = d + 4
  BY DEF BootWorth
<1>4. at = "login" => BootWorth(at, d) = d + 2
  BY DEF BootWorth
<1>5. at = "refresh" => BootWorth(at, d) = 1
  BY DEF BootWorth
<1>6. QED
  BY <1>1, <1>2, <1>3, <1>4, <1>5

LEMMA WorthIs ==
    ASSUME NEW s \in Seq(Frames), NEW r, NEW n \in 1 .. Len(s)
    PROVE  /\ Refreshing(s, n) \in {2, 17}
           /\ s[n] \in BootFrames => Worth(s, r, n) = BootWorth(s[n].at, Refreshing(s, n))
           /\ s[n] \in RecoverFrames => Worth(s, r, n) = IF s[n].at = "refresh" THEN 1 ELSE 4
           /\ s[n] \in CallFrames =>
                 Worth(s, r, n) = IF s[n].at # "devices" \/ s[n].retried THEN 1
                                  ELSE IF n < Len(s) \/ r # None THEN 2 ELSE Refreshing(s, n)
           /\ s[n] \in BootFrames \cup RecoverFrames \cup CallFrames
<1>1. s[n] \in Frames /\ n <= Len(s) /\ Len(s) \in Nat
  BY ElementOfSeq, LenProperties
<1>2. ~(n > Len(s))
  BY <1>1
<1>3. CASE s[n] \in BootFrames
  BY <1>1, <1>2, <1>3 DEF Worth, BootWorth, Refreshing, BootFrames, RecoverFrames, CallFrames
<1>4. CASE s[n] \in RecoverFrames
  BY <1>1, <1>2, <1>4 DEF Worth, Refreshing, BootFrames, RecoverFrames, CallFrames
<1>5. CASE s[n] \in CallFrames
  BY <1>1, <1>2, <1>5 DEF Worth, Refreshing, BootFrames, RecoverFrames, CallFrames
<1>6. QED
  BY <1>1, <1>3, <1>4, <1>5 DEF Frames

LEMMA WorthNone == ASSUME NEW s \in Seq(Frames), NEW r, NEW n \in Nat, n > Len(s) PROVE Worth(s, r, n) = 0
  BY DEF Worth

LEMMA WorthNat ==
    ASSUME NEW s \in Seq(Frames), NEW r, NEW n \in Nat, n > 0
    PROVE  Worth(s, r, n) \in Nat /\ (n <= Len(s) => Worth(s, r, n) >= 1)
<1>1. Len(s) \in Nat
  BY LenProperties
<1>2. CASE n > Len(s)
  BY <1>1, <1>2, WorthNone
<1>3. CASE n \in 1 .. Len(s)
  <2>1. s[n] \in BootFrames => BootWorth(s[n].at, Refreshing(s, n)) \in Nat \ {0}
    <3>1. s[n] \in BootFrames => s[n].at \in {"health", "me", "register", "login", "refresh"}
      BY DEF BootFrames
    <3>2. QED
      BY <1>3, <3>1, WorthIs, BootWorthNat
  <2>2. QED
    BY <1>3, <2>1, WorthIs
<1>4. QED
  BY <1>1, <1>2, <1>3

\* What frame n is worth depends on the frames up to it, and on whether a function
\* it awaits is in progress.
LEMMA WorthSame ==
    ASSUME NEW s \in Seq(Frames), NEW r, NEW q \in Seq(Frames), NEW c, NEW n \in 1 .. Len(s), n \in 1 .. Len(q),
           \A m \in 1 .. n : s[m] = q[m], n < Len(s) \/ r # None, n < Len(q) \/ c # None
    PROVE  Worth(s, r, n) = Worth(q, c, n)
<1>1. s[n] = q[n] /\ (Inside(s, n) <=> Inside(q, n))
  BY LenProperties DEF Inside
<1>2. Refreshing(s, n) = Refreshing(q, n)
  BY <1>1 DEF Refreshing
<1>3. QED
  BY <1>1, <1>2, WorthIs

\* What the first k frames are worth together.
Base(s, r, k) ==
    (IF k > 0 THEN Worth(s, r, 1) ELSE 0) + (IF k > 1 THEN Worth(s, r, 2) ELSE 0)
    + (IF k > 2 THEN Worth(s, r, 3) ELSE 0) + (IF k > 3 THEN Worth(s, r, 4) ELSE 0)

LEMMA Split ==
    ASSUME NEW s \in Seq(Frames), NEW r, Len(s) <= 4, NEW k \in 0 .. 4
    PROVE  /\ StepsLeft(s, r) = Base(s, r, k) + Worth(s, r, k + 1) + Worth(s, r, k + 2) + Worth(s, r, k + 3) + Worth(s, r, k + 4)
           /\ Base(s, r, k) \in Nat
<1>1. Len(s) \in Nat
  BY LenProperties
<1>2. \A n \in 1 .. 8 : Worth(s, r, n) \in Nat /\ (n > 4 => Worth(s, r, n) = 0)
  BY <1>1, WorthNat, WorthNone
<1>3. k \in {0, 1, 2, 3, 4}
  OBVIOUS
<1>4. CASE k = 0
  BY <1>2, <1>4 DEF StepsLeft, Base
<1>5. CASE k = 1
  BY <1>2, <1>5 DEF StepsLeft, Base
<1>6. CASE k = 2
  BY <1>2, <1>6 DEF StepsLeft, Base
<1>7. CASE k = 3
  BY <1>2, <1>7 DEF StepsLeft, Base
<1>8. CASE k = 4
  BY <1>2, <1>8 DEF StepsLeft, Base
<1>9. QED
  BY <1>3, <1>4, <1>5, <1>6, <1>7, <1>8

LEMMA BaseSame ==
    ASSUME NEW s, NEW r, NEW q, NEW c, NEW k \in 0 .. 4, \A n \in 1 .. k : Worth(s, r, n) = Worth(q, c, n)
    PROVE  Base(s, r, k) = Base(q, c, k)
  BY DEF Base

\* Frames take the place of the last one that are worth less.
LEMMA Lower ==
    ASSUME NEW s \in Seq(Frames), NEW r, NEW q \in Seq(Frames), NEW c,
           s # <<>>, Len(s) <= 4, Len(q) <= 4, Len(q) >= Len(s) - 1, Len(q) <= Len(s) + 2,
           \A n \in 1 .. Len(s) - 1 : s[n] = q[n],
           Len(q) = Len(s) - 1 => c # None \/ Len(q) = 0,
           Worth(q, c, Len(s)) + Worth(q, c, Len(s) + 1) + Worth(q, c, Len(s) + 2) < Worth(s, r, Len(s))
    PROVE  StepsLeft(q, c) < StepsLeft(s, r)
<1>1. PICK p : p = Len(s) - 1
  OBVIOUS
<1>2. /\ Len(s) \in Nat /\ Len(q) \in Nat /\ p \in 0 .. 4 /\ Len(s) = p + 1
      /\ p + 1 \in Nat /\ p + 2 \in Nat /\ p + 3 \in Nat /\ p + 4 \in Nat
  BY <1>1, LenProperties, EmptySeq
<1>3. ASSUME NEW n \in 1 .. p PROVE Worth(s, r, n) = Worth(q, c, n)
  <2>1. n \in 1 .. Len(s) /\ n < Len(s) /\ n \in 1 .. Len(q) /\ \A m \in 1 .. n : m \in 1 .. Len(s) - 1
    BY <1>1, <1>2, <1>3
  <2>2. n < Len(q) \/ c # None
    BY <1>1, <1>2, <1>3
  <2>3. QED
    BY <2>1, <2>2, WorthSame
<1>4. Base(s, r, p) = Base(q, c, p)
  BY <1>2, <1>3, BaseSame
<1>5. /\ Worth(s, r, p + 1) \in Nat /\ Worth(s, r, p + 2) = 0 /\ Worth(s, r, p + 3) = 0 /\ Worth(s, r, p + 4) = 0
      /\ Worth(q, c, p + 1) \in Nat /\ Worth(q, c, p + 2) \in Nat /\ Worth(q, c, p + 3) \in Nat
      /\ Worth(q, c, p + 4) = 0
  BY <1>2, WorthNat, WorthNone
<1>6. Worth(q, c, p + 1) + Worth(q, c, p + 2) + Worth(q, c, p + 3) < Worth(s, r, p + 1)
  BY <1>2
<1>7. /\ StepsLeft(s, r) = Base(s, r, p) + Worth(s, r, p + 1) + Worth(s, r, p + 2) + Worth(s, r, p + 3) + Worth(s, r, p + 4)
      /\ StepsLeft(q, c) = Base(q, c, p) + Worth(q, c, p + 1) + Worth(q, c, p + 2) + Worth(q, c, p + 3) + Worth(q, c, p + 4)
      /\ Base(q, c, p) \in Nat
  BY <1>2, Split
<1>8. QED
  BY <1>4, <1>5, <1>6, <1>7

\* The last frame replaced.
LEMMA Replaced ==
    ASSUME NEW s \in Seq(Frames), s # <<>>, NEW g \in Frames
    PROVE  /\ Len(s) \in Nat /\ Len(s) >= 1 /\ Len(s) \in 1 .. Len(s) /\ s[Len(s)] = Last(s) /\ s[Len(s)] \in Frames
           /\ Append(Front(s), g) \in Seq(Frames) /\ Len(Append(Front(s), g)) = Len(s)
           /\ Append(Front(s), g)[Len(s)] = g
           /\ \A n \in 1 .. Len(s) - 1 : s[n] = Append(Front(s), g)[n]
<1>1. PICK p, b, a : p = Len(s) /\ b = Front(s) /\ a = Append(b, g)
  OBVIOUS
<1>2. /\ p \in Nat /\ p >= 1 /\ p \in 1 .. p /\ b \in Seq(Frames) /\ Len(b) = p - 1 /\ s[p] = Last(s)
      /\ \A n \in 1 .. p - 1 : b[n] = s[n]
  BY <1>1, Popped
<1>3. a \in Seq(Frames) /\ Len(a) = p /\ a[p] = g /\ \A n \in 1 .. p - 1 : a[n] = s[n]
  BY <1>1, <1>2, Pushed
<1>4. s[p] \in Frames
  BY <1>1, <1>2, ElementOfSeq
<1>5. QED
  BY <1>1, <1>2, <1>3, <1>4

\* Whether a frame is within a recovery is a matter of the frames below it.
LEMMA RefreshingSame ==
    ASSUME NEW s, NEW q, NEW n, \A m \in 1 .. n - 1 : s[m] = q[m] PROVE Refreshing(s, n) = Refreshing(q, n)
  BY DEF Refreshing, Inside

LEMMA RefreshingAbove ==
    ASSUME NEW q, NEW n \in Nat, n >= 1
    PROVE  /\ q[n].op = "recover" => Refreshing(q, n + 1) = 2
           /\ q[n].op # "recover" => Refreshing(q, n + 1) = Refreshing(q, n)
<1>1. \A m : m \in 1 .. (n + 1) - 1 <=> m \in 1 .. n - 1 \/ m = n
  OBVIOUS
<1>2. Inside(q, n + 1) <=> Inside(q, n) \/ q[n].op = "recover"
  BY <1>1 DEF Inside
<1>3. QED
  BY <1>2 DEF Refreshing

LEMMA PopLowers ==
    ASSUME NEW s \in Seq(Frames), NEW r, NEW c, s # <<>>, Len(s) <= 4, Front(s) = <<>> \/ c # None
    PROVE  StepsLeft(Front(s), c) < StepsLeft(s, r)
<1>1. PICK q, p : q = Front(s) /\ p = Len(s)
  OBVIOUS
<1>2. q \in Seq(Frames) /\ p \in Nat /\ p >= 1 /\ Len(q) = p - 1 /\ \A n \in 1 .. p - 1 : q[n] = s[n]
  BY <1>1, Popped
<1>3. Worth(q, c, p) = 0 /\ Worth(q, c, p + 1) = 0 /\ Worth(q, c, p + 2) = 0 /\ Worth(s, r, p) >= 1 /\ Worth(s, r, p) \in Nat
  BY <1>1, <1>2, WorthNone, WorthNat
<1>4. q = <<>> => Len(q) = 0
  OBVIOUS
<1>5. QED
  BY <1>1, <1>2, <1>3, <1>4, Lower

\* A call is repeated.
LEMMA RepeatLowers ==
    ASSUME NEW s \in Seq(Frames), NEW r, s # <<>>, Len(s) <= 4,
           Last(s).op = "call", Last(s).at = "devices", ~Last(s).retried
    PROVE  StepsLeft(Append(Front(s), CallFrame("devices", None, TRUE)), None) < StepsLeft(s, r)
<1>1. PICK f, p, q : f = CallFrame("devices", None, TRUE) /\ p = Len(s) /\ q = Append(Front(s), f)
  OBVIOUS
<1>2. f \in Frames /\ f \in CallFrames /\ f.op = "call" /\ f.retried
  BY <1>1, FrameKinds DEF CallFrame, CallFrames
<1>3. /\ p \in Nat /\ p >= 1 /\ p \in 1 .. p /\ s[p] = Last(s) /\ s[p] \in Frames
      /\ q \in Seq(Frames) /\ Len(q) = p /\ q[p] = f /\ \A n \in 1 .. p - 1 : s[n] = q[n]
  BY <1>1, <1>2, Replaced
<1>4. s[p] \in CallFrames
  BY <1>3 DEF Frames, BootFrames, RecoverFrames
<1>5. Worth(s, r, p) >= 2 /\ Worth(s, r, p) \in Nat
  BY <1>1, <1>3, <1>4, WorthIs
<1>6. Worth(q, None, p) = 1
  BY <1>2, <1>3, WorthIs
<1>7. Worth(q, None, p + 1) = 0 /\ Worth(q, None, p + 2) = 0
  BY <1>3, WorthNone
<1>8. StepsLeft(q, None) < StepsLeft(s, r)
  <2>1. Len(s) = p
    BY <1>1
  <2>2. Len(q) <= 4 /\ Len(q) >= p - 1 /\ Len(q) <= p + 2 /\ Len(q) # p - 1
    BY <1>3, <2>1
  <2>3. Worth(q, None, p) + Worth(q, None, p + 1) + Worth(q, None, p + 2) < Worth(s, r, p)
    BY <1>5, <1>6, <1>7
  <2>4. QED
    BY <1>3, <2>1, <2>2, <2>3, Lower
<1>9. QED
  BY <1>1, <1>8

\* A function goes on to refresh the devices.
LEMMA RefreshLowers ==
    ASSUME NEW s \in Seq(Frames), NEW r, s # <<>>, Len(s) <= 4, NEW g \in Frames, g.at = "refresh",
           \/ Last(s) \in BootFrames /\ Last(s).at \in {"me", "register", "login"} /\ g.op = "boot"
           \/ Last(s) \in RecoverFrames /\ Last(s).at = "boot" /\ g.op = "recover"
    PROVE  /\ Done # None => StepsLeft(Append(Front(s), g), Done) < StepsLeft(s, r)
           /\ Len(s) < 4 => StepsLeft(Append(Append(Front(s), g), CallFrame("devices", None, FALSE)), None) < StepsLeft(s, r)
<1>1. PICK f, p, a, q : f = CallFrame("devices", None, FALSE) /\ p = Len(s) /\ a = Append(Front(s), g) /\ q = Append(a, f)
  OBVIOUS
<1>2. f \in Frames /\ f \in CallFrames /\ f.at = "devices" /\ ~f.retried
  BY <1>1, FrameKinds DEF CallFrame, CallFrames
<1>3. /\ p \in Nat /\ p >= 1 /\ p \in 1 .. p /\ s[p] = Last(s)
      /\ a \in Seq(Frames) /\ Len(a) = p /\ a[p] = g /\ \A n \in 1 .. p - 1 : s[n] = a[n]
      /\ q \in Seq(Frames) /\ Len(q) = p + 1 /\ q[p] = g /\ q[p + 1] = f /\ \A n \in 1 .. p - 1 : s[n] = q[n]
  <2>1. /\ p \in Nat /\ p >= 1 /\ p \in 1 .. p /\ s[p] = Last(s)
        /\ a \in Seq(Frames) /\ Len(a) = p /\ a[p] = g /\ \A n \in 1 .. p - 1 : s[n] = a[n]
    BY <1>1, Replaced
  <2>2. q \in Seq(Frames) /\ Len(q) = p + 1 /\ q[p + 1] = f /\ \A n \in 1 .. p : q[n] = a[n]
    <3>1. f \in Frames /\ q = Append(a, f) /\ a \in Seq(Frames) /\ Len(a) = p
      BY <1>1, <1>2, <2>1
    <3>2. QED
      BY <3>1, Pushed
  <2>3. QED
    BY <2>1, <2>2
<1>4. g \in BootFrames \/ g \in RecoverFrames
  BY DEF Frames, BootFrames, RecoverFrames, CallFrames
<1>5. Worth(a, Done, p) = 1 /\ Worth(q, None, p) = 1
  <2>1. g \in BootFrames => BootWorth(g.at, Refreshing(a, p)) = 1 /\ BootWorth(g.at, Refreshing(q, p)) = 1
    BY DEF BootWorth
  <2>2. p \in 1 .. Len(a) /\ p \in 1 .. Len(q)
    BY <1>3
  <2>3. QED
    BY <1>3, <1>4, <2>1, <2>2, WorthIs
<1>6. Refreshing(s, p) \in {2, 17} /\ Worth(q, None, p + 1) = Refreshing(q, p + 1)
  <2>1. p \in 1 .. Len(s) /\ p + 1 \in 1 .. Len(q) /\ ~(p + 1 < Len(q))
    BY <1>1, <1>3
  <2>2. QED
    BY <1>2, <1>3, <2>1, WorthIs
<1>7. Worth(s, r, p) > 1 + Worth(q, None, p + 1) /\ Worth(s, r, p) \in Nat /\ Worth(q, None, p + 1) \in Nat
  <2>1. g.op = "recover" => Refreshing(q, p + 1) = 2
    BY <1>3, RefreshingAbove
  <2>2. g.op # "recover" => Refreshing(q, p + 1) = Refreshing(s, p)
    BY <1>3, RefreshingAbove, RefreshingSame
  <2>3. ASSUME Last(s) \in BootFrames, Last(s).at \in {"me", "register", "login"}, g.op = "boot"
        PROVE  Worth(s, r, p) >= Refreshing(s, p) + 2 /\ Worth(s, r, p) \in Nat
    <3>1. Worth(s, r, p) = BootWorth(s[p].at, Refreshing(s, p))
      BY <1>1, <1>3, <2>3, WorthIs
    <3>2. QED
      BY <1>3, <1>6, <2>3, <3>1, BootWorthNat
  <2>4. ASSUME Last(s) \in RecoverFrames, Last(s).at = "boot" PROVE Worth(s, r, p) = 4
    BY <1>1, <1>3, <2>4, WorthIs
  <2>5. CASE Last(s) \in BootFrames /\ Last(s).at \in {"me", "register", "login"} /\ g.op = "boot"
    BY <1>6, <2>2, <2>3, <2>5
  <2>6. CASE Last(s) \in RecoverFrames /\ Last(s).at = "boot" /\ g.op = "recover"
    BY <1>6, <2>1, <2>4, <2>6
  <2>7. QED
    BY <2>5, <2>6
<1>8. Worth(a, Done, p + 1) = 0 /\ Worth(a, Done, p + 2) = 0 /\ Worth(q, None, p + 2) = 0
  BY <1>3, WorthNone
<1>9. StepsLeft(a, Done) < StepsLeft(s, r)
  <2>1. Len(s) = p
    BY <1>1
  <2>2. Len(a) <= 4 /\ Len(a) >= p - 1 /\ Len(a) <= p + 2 /\ Len(a) # p - 1
    BY <1>3, <2>1
  <2>3. Worth(a, Done, p) + Worth(a, Done, p + 1) + Worth(a, Done, p + 2) < Worth(s, r, p)
    BY <1>5, <1>7, <1>8
  <2>4. QED
    BY <1>3, <2>1, <2>2, <2>3, Lower
<1>10. ASSUME Len(s) < 4 PROVE StepsLeft(q, None) < StepsLeft(s, r)
  <2>1. Len(s) = p
    BY <1>1
  <2>2. Len(q) <= 4 /\ Len(q) >= p - 1 /\ Len(q) <= p + 2 /\ Len(q) # p - 1
    BY <1>3, <2>1, <1>10
  <2>3. Worth(q, None, p) + Worth(q, None, p + 1) + Worth(q, None, p + 2) < Worth(s, r, p)
    BY <1>5, <1>7, <1>8
  <2>4. QED
    BY <1>3, <2>1, <2>2, <2>3, Lower
<1>11. QED
  BY <1>1, <1>9, <1>10

\* A bootstrap makes a call of its own.
LEMMA CallLowers ==
    ASSUME NEW s \in Seq(Frames), NEW r, s # <<>>, Len(s) < 4, Last(s) \in BootFrames,
           NEW at \in {"me", "register", "login"}, NEW i \in Identities \cup {None},
           \/ Last(s).at = "health" /\ at \in {"me", "login"}
           \/ Last(s).at = "me" /\ at \in {"register", "login"}
           \/ Last(s).at = "register" /\ at = "login"
    PROVE  StepsLeft(Append(Append(Front(s), BootFrame(Last(s).fresh, at)), CallFrame(at, i, FALSE)), None) < StepsLeft(s, r)
<1>1. PICK g, f, p, a, q : /\ g = BootFrame(Last(s).fresh, at) /\ f = CallFrame(at, i, FALSE) /\ p = Len(s)
                           /\ a = Append(Front(s), g) /\ q = Append(a, f)
  OBVIOUS
<1>2. f \in Frames /\ f \in CallFrames /\ f.at # "devices" /\ g \in Frames /\ g \in BootFrames /\ g.at = at
  <2>1. Last(s).fresh \in BOOLEAN
    BY DEF BootFrames
  <2>2. f \in CallFrames /\ f.at # "devices"
    BY <1>1 DEF CallFrame, CallFrames
  <2>3. g \in BootFrames /\ g.at = at
    BY <1>1, <2>1 DEF BootFrame, BootFrames
  <2>4. QED
    BY <2>2, <2>3 DEF Frames
<1>3. /\ p \in Nat /\ p >= 1 /\ p \in 1 .. p /\ s[p] = Last(s)
      /\ q \in Seq(Frames) /\ Len(q) = p + 1 /\ q[p] = g /\ q[p + 1] = f /\ \A n \in 1 .. p - 1 : s[n] = q[n]
  <2>1. /\ p \in Nat /\ p >= 1 /\ p \in 1 .. p /\ s[p] = Last(s)
        /\ a \in Seq(Frames) /\ Len(a) = p /\ a[p] = g /\ \A n \in 1 .. p - 1 : s[n] = a[n]
    BY <1>1, <1>2, Replaced
  <2>2. q \in Seq(Frames) /\ Len(q) = p + 1 /\ q[p + 1] = f /\ \A n \in 1 .. p : q[n] = a[n]
    <3>1. f \in Frames /\ q = Append(a, f) /\ a \in Seq(Frames) /\ Len(a) = p
      BY <1>1, <1>2, <2>1
    <3>2. QED
      BY <3>1, Pushed
  <2>3. QED
    BY <2>1, <2>2
<1>4. Len(s) = p /\ p \in 1 .. Len(q) /\ p + 1 \in 1 .. Len(q)
  BY <1>1, <1>3
<1>5. /\ Refreshing(s, p) \in {2, 17} /\ Refreshing(q, p) = Refreshing(s, p)
      /\ Worth(s, r, p) = BootWorth(Last(s).at, Refreshing(s, p))
      /\ Worth(q, None, p) = BootWorth(at, Refreshing(s, p))
      /\ Worth(q, None, p + 1) = 1
  <2>1. Refreshing(q, p) = Refreshing(s, p)
    BY <1>3, RefreshingSame
  <2>2. Refreshing(s, p) \in {2, 17} /\ Worth(s, r, p) = BootWorth(Last(s).at, Refreshing(s, p))
    BY <1>3, <1>4, WorthIs
  <2>3. Worth(q, None, p) = BootWorth(at, Refreshing(s, p))
    BY <1>2, <1>3, <1>4, <2>1, WorthIs
  <2>4. Worth(q, None, p + 1) = 1
    BY <1>2, <1>3, <1>4, WorthIs
  <2>5. QED
    BY <2>1, <2>2, <2>3, <2>4
<1>6. BootWorth(at, Refreshing(s, p)) + 1 < BootWorth(Last(s).at, Refreshing(s, p))
  BY <1>5, BootWorthNat
<1>7. Worth(q, None, p + 2) = 0
  BY <1>3, WorthNone
<1>8. BootWorth(at, Refreshing(s, p)) \in Nat /\ BootWorth(Last(s).at, Refreshing(s, p)) \in Nat
  BY <1>5, BootWorthNat DEF BootFrames
<1>9. Worth(q, None, p) + Worth(q, None, p + 1) + Worth(q, None, p + 2) < Worth(s, r, p)
  BY <1>5, <1>6, <1>7, <1>8
<1>10. Len(q) <= 4 /\ Len(q) >= p - 1 /\ Len(q) <= p + 2 /\ Len(q) # p - 1
  BY <1>3, <1>4
<1>11. StepsLeft(q, None) < StepsLeft(s, r)
  BY <1>3, <1>4, <1>9, <1>10, Lower
<1>12. QED
  BY <1>1, <1>11

\* A call starts a recovery, and this a bootstrap or none.
LEMMA RecoverLowers ==
    ASSUME NEW s \in Seq(Frames), s # <<>>, Len(s) < 4,
           Last(s).op = "call", Last(s).at = "devices", ~Last(s).retried,
           \A n \in 1 .. Len(s) : s[n].op # "recover"
    PROVE  /\ StepsLeft(Append(s, RecoverFrame("boot")), Done) < StepsLeft(s, None)
           /\ Len(s) < 3 => StepsLeft(Append(Append(s, RecoverFrame("boot")), BootFrame(TRUE, "health")), None) < StepsLeft(s, None)
<1>1. PICK g, f, p, a, q : /\ g = RecoverFrame("boot") /\ f = BootFrame(TRUE, "health") /\ p = Len(s)
                           /\ a = Append(s, g) /\ q = Append(a, f)
  OBVIOUS
<1>2. /\ g \in Frames /\ g \in RecoverFrames /\ g.op = "recover" /\ g.at = "boot"
      /\ f \in Frames /\ f \in BootFrames /\ f.at = "health"
  <2>1. g \in RecoverFrames /\ g.op = "recover" /\ g.at = "boot"
    BY <1>1 DEF RecoverFrame, RecoverFrames
  <2>2. f \in BootFrames /\ f.at = "health"
    BY <1>1 DEF BootFrame, BootFrames
  <2>3. QED
    BY <2>1, <2>2 DEF Frames
<1>3. p \in Nat /\ p >= 1 /\ p \in 1 .. p /\ Len(s) = p /\ s[p] = Last(s) /\ s[p] \in CallFrames
  <2>1. p \in Nat /\ p >= 1 /\ s[p] = Last(s) /\ Last(s) \in Frames
    BY <1>1, Popped
  <2>2. QED
    BY <1>1, <2>1 DEF Frames, BootFrames, RecoverFrames
<1>4. a \in Seq(Frames) /\ Len(a) = p + 1 /\ a[p + 1] = g /\ \A n \in 1 .. p : a[n] = s[n]
  BY <1>1, <1>2, <1>3, Pushed
<1>5. q \in Seq(Frames) /\ Len(q) = p + 2 /\ q[p + 2] = f /\ \A n \in 1 .. p + 1 : q[n] = a[n]
  <2>1. q = Append(a, f) /\ f \in Frames /\ a \in Seq(Frames) /\ Len(a) = p + 1
    BY <1>1, <1>2, <1>4
  <2>2. q \in Seq(Frames) /\ Len(q) = (p + 1) + 1 /\ q[(p + 1) + 1] = f /\ \A n \in 1 .. p + 1 : q[n] = a[n]
    BY <2>1, Pushed
  <2>3. (p + 1) + 1 = p + 2
    BY <1>3
  <2>4. QED
    BY <2>2, <2>3
<1>6. q[p + 1] = g /\ (\A n \in 1 .. p : q[n] = s[n]) /\ a[p] = s[p] /\ q[p] = s[p]
  BY <1>3, <1>4, <1>5
<1>7. Worth(s, None, p) = 17
  <2>1. ~Inside(s, p)
    BY <1>3 DEF Inside
  <2>2. QED
    BY <1>3, <2>1, WorthIs DEF Refreshing
<1>8. Worth(a, Done, p) = 2 /\ Worth(q, None, p) = 2
  <2>1. p \in 1 .. Len(a) /\ p < Len(a) /\ p \in 1 .. Len(q) /\ p < Len(q)
    BY <1>3, <1>4, <1>5
  <2>2. QED
    BY <1>3, <1>4, <1>5, <1>6, <2>1, WorthIs
<1>9. Worth(a, Done, p + 1) = 4 /\ Worth(q, None, p + 1) = 4
  <2>1. p + 1 \in 1 .. Len(a) /\ p + 1 \in 1 .. Len(q)
    BY <1>3, <1>4, <1>5
  <2>2. QED
    BY <1>2, <1>4, <1>5, <1>6, <2>1, WorthIs
<1>10. Worth(a, Done, p + 2) = 0 /\ Worth(q, None, p + 2) = 10
  <2>1. p + 2 \in 1 .. Len(q) /\ p + 1 \in Nat /\ p + 1 >= 1 /\ (p + 1) + 1 = p + 2 /\ p + 2 \in Nat /\ p + 2 > Len(a)
    BY <1>3, <1>4, <1>5
  <2>2. Refreshing(q, p + 2) = 2
    <3>1. Refreshing(q, (p + 1) + 1) = 2
      BY <1>2, <1>6, <2>1, RefreshingAbove
    <3>2. QED
      BY <2>1, <3>1
  <2>3. Worth(q, None, p + 2) = BootWorth("health", 2)
    BY <1>2, <1>5, <2>1, <2>2, WorthIs
  <2>4. QED
    BY <1>4, <2>1, <2>3, BootWorthNat, WorthNone
<1>11. StepsLeft(a, Done) < StepsLeft(s, None)
  <2>1. Worth(a, Done, p) + Worth(a, Done, p + 1) + Worth(a, Done, p + 2) < Worth(s, None, p)
    BY <1>7, <1>8, <1>9, <1>10
  <2>2. Len(a) <= 4 /\ Len(a) >= p - 1 /\ Len(a) <= p + 2 /\ Len(a) # p - 1 /\ \A n \in 1 .. p - 1 : s[n] = a[n]
    BY <1>3, <1>4
  <2>3. QED
    BY <1>3, <1>4, <2>1, <2>2, Lower
<1>12. ASSUME Len(s) < 3 PROVE StepsLeft(q, None) < StepsLeft(s, None)
  <2>1. Worth(q, None, p) + Worth(q, None, p + 1) + Worth(q, None, p + 2) < Worth(s, None, p)
    BY <1>7, <1>8, <1>9, <1>10
  <2>2. Len(q) <= 4 /\ Len(q) >= p - 1 /\ Len(q) <= p + 2 /\ Len(q) # p - 1 /\ \A n \in 1 .. p - 1 : s[n] = q[n]
    BY <1>3, <1>5, <1>6, <1>12
  <2>3. QED
    BY <1>3, <1>5, <2>1, <2>2, Lower
<1>13. QED
  BY <1>1, <1>11, <1>12

\* What a chain has before it when it starts.
LEMMA StartIsLow ==
    ASSUME NEW r
    PROVE  /\ StepsLeft(<<>>, r) = 0
           /\ \A f \in Frames : StepsLeft(Append(<<>>, f), r) <= 25
           /\ StepsLeft(Append(Append(<<>>, RecoverFrame("boot")), BootFrame(TRUE, "health")), None) <= 25
<1>1. PICK e : e = <<>>
  OBVIOUS
<1>2. e \in Seq(Frames) /\ Len(e) = 0
  BY <1>1, EmptySeq
<1>3. StepsLeft(e, r) = 0
  <2>1. \A n \in {1, 2, 3, 4} : n \in Nat /\ n > Len(e)
    BY <1>2
  <2>2. \A n \in {1, 2, 3, 4} : Worth(e, r, n) = 0
    BY <1>2, <2>1, WorthNone
  <2>3. QED
    BY <2>2 DEF StepsLeft
<1>4. ASSUME NEW s \in Seq(Frames), NEW b, NEW n \in 1 .. Len(s) PROVE Worth(s, b, n) \in 0 .. 25
  <2>1. s[n] \in BootFrames => BootWorth(s[n].at, Refreshing(s, n)) \in 0 .. 25
    <3>1. s[n] \in BootFrames => s[n].at \in {"health", "me", "register", "login", "refresh"}
      BY DEF BootFrames
    <3>2. Refreshing(s, n) \in {2, 17}
      BY WorthIs
    <3>3. \A at \in {"health", "me", "register", "login", "refresh"}, d \in {2, 17} : BootWorth(at, d) \in 0 .. 25
      <4>1. SUFFICES ASSUME NEW at \in {"health", "me", "register", "login", "refresh"}, NEW d \in {2, 17}
                     PROVE  BootWorth(at, d) \in 0 .. 25
        OBVIOUS
      <4>2. /\ at = "health" => BootWorth(at, d) = d + 8
            /\ at = "me" => BootWorth(at, d) = d + 6
            /\ at = "register" => BootWorth(at, d) = d + 4
            /\ at = "login" => BootWorth(at, d) = d + 2
            /\ at = "refresh" => BootWorth(at, d) = 1
        BY BootWorthNat
      <4>3. d + 8 \in 0 .. 25 /\ d + 6 \in 0 .. 25 /\ d + 4 \in 0 .. 25 /\ d + 2 \in 0 .. 25 /\ 1 \in 0 .. 25
        OBVIOUS
      <4>4. at = "health" \/ at = "me" \/ at = "register" \/ at = "login" \/ at = "refresh"
        OBVIOUS
      <4>5. QED
        BY <4>2, <4>3, <4>4
    <3>4. QED
      BY <3>1, <3>2, <3>3
  <2>2. PICK w : w = Worth(s, b, n)
    OBVIOUS
  <2>3. s[n] \in RecoverFrames \cup CallFrames => w \in {1, 4, 2, 17}
    BY <2>2, WorthIs
  <2>4. s[n] \in BootFrames => w \in 0 .. 25
    BY <2>1, <2>2, WorthIs
  <2>5. s[n] \in BootFrames \cup RecoverFrames \cup CallFrames
    BY WorthIs
  <2>6. QED
    BY <2>2, <2>3, <2>4, <2>5
<1>5. ASSUME NEW f \in Frames PROVE StepsLeft(Append(e, f), r) <= 25
  <2>1. PICK s : s = Append(e, f)
    OBVIOUS
  <2>2. s \in Seq(Frames) /\ Len(s) = 1
    BY <1>2, <2>1, Pushed
  <2>3. Worth(s, r, 1) \in 0 .. 25 /\ Worth(s, r, 2) = 0 /\ Worth(s, r, 3) = 0 /\ Worth(s, r, 4) = 0
    <3>1. 1 \in 1 .. Len(s) /\ \A n \in {2, 3, 4} : n \in Nat /\ n > Len(s)
      BY <2>2
    <3>2. \A n \in {2, 3, 4} : Worth(s, r, n) = 0
      BY <2>2, <3>1, WorthNone
    <3>3. QED
      BY <1>4, <2>2, <3>1, <3>2
  <2>4. QED
    BY <2>1, <2>3 DEF StepsLeft
<1>6. StepsLeft(Append(Append(e, RecoverFrame("boot")), BootFrame(TRUE, "health")), None) <= 25
  <2>1. PICK g, f, a, q : g = RecoverFrame("boot") /\ f = BootFrame(TRUE, "health") /\ a = Append(e, g) /\ q = Append(a, f)
    OBVIOUS
  <2>2. g \in Frames /\ f \in Frames /\ g \in RecoverFrames /\ g.op = "recover" /\ f \in BootFrames /\ f.at = "health"
    <3>1. g \in RecoverFrames /\ g.op = "recover"
      BY <2>1 DEF RecoverFrame, RecoverFrames
    <3>2. f \in BootFrames /\ f.at = "health"
      BY <2>1 DEF BootFrame, BootFrames
    <3>3. QED
      BY <3>1, <3>2 DEF Frames
  <2>3. a \in Seq(Frames) /\ Len(a) = 1 /\ a[1] = g
    <3>1. a = Append(e, g) /\ g \in Frames
      BY <2>1, <2>2
    <3>2. QED
      BY <1>2, <3>1, Pushed
  <2>4. q \in Seq(Frames) /\ Len(q) = 2 /\ q[1] = g /\ q[2] = f
    <3>1. q = Append(a, f) /\ f \in Frames
      BY <2>1, <2>2
    <3>2. /\ q \in Seq(Frames) /\ Len(q) = Len(a) + 1 /\ q[Len(a) + 1] = f
          /\ \A n \in 1 .. Len(a) : q[n] = a[n]
      BY <2>3, <3>1, Pushed
    <3>3. Len(a) = 1 /\ 1 \in 1 .. 1 /\ 1 + 1 = 2
      BY <2>3
    <3>4. QED
      BY <2>3, <3>2, <3>3
  <2>5. Refreshing(q, 2) = 2
    <3>1. Refreshing(q, 1 + 1) = 2
      BY <2>2, <2>4, RefreshingAbove
    <3>2. QED
      BY <3>1
  <2>6. Worth(q, None, 2) = 10
    <3>1. 2 \in 1 .. Len(q)
      BY <2>4
    <3>2. Worth(q, None, 2) = BootWorth("health", 2)
      BY <2>2, <2>4, <2>5, <3>1, WorthIs
    <3>3. QED
      BY <3>2, BootWorthNat
  <2>7. Worth(q, None, 1) \in {1, 4}
    <3>1. 1 \in 1 .. Len(q)
      BY <2>4
    <3>2. QED
      BY <2>2, <2>4, <3>1, WorthIs
  <2>8. Worth(q, None, 3) = 0 /\ Worth(q, None, 4) = 0
    <3>1. \A n \in {3, 4} : n \in Nat /\ n > Len(q)
      BY <2>4
    <3>2. QED
      BY <2>4, <3>1, WorthNone
  <2>9. StepsLeft(q, None) <= 25
    BY <2>6, <2>7, <2>8 DEF StepsLeft
  <2>10. QED
    BY <2>1, <2>9
<1>7. QED
  BY <1>1, <1>3, <1>5, <1>6

\* A step of one chain leaves the others as they are.
LEMMA OthersStay ==
    ASSUME IInv, NEW u \in Tasks, User(u) \/ SocketClosesAgain(u) \/ Progress(u), NEW t \in Tasks, t # u
    PROVE  stack'[t] = stack[t] /\ back'[t] = back[t]
<1>1. (\E s, r : Go(u, s, r)) \/ UNCHANGED chain
  <2>1. \A s : Renew(u, s) => \E q, r : Go(u, q, r)
    BY DEF Renew
  <2>2. \A s : Recover(u, s) => \E q, r : Go(u, q, r)
    BY <2>1 DEF Recover
  <2>3. \A s, tok : Refresh(u, s, tok) => \E q, r : Go(u, q, r)
    BY DEF Refresh
  <2>4. Login(u) \/ Repeat(u) => \E q, r : Go(u, q, r)
    BY DEF Login, Repeat
  <2>5. CASE User(u)
    BY <2>1, <2>3, <2>5 DEF User, Reprovision, Retry, Use
  <2>6. CASE SocketClosesAgain(u)
    BY <2>2, <2>6 DEF SocketClosesAgain
  <2>7. CASE Boot(u)
    BY <2>3, <2>4, <2>7 DEF Boot, BootHealth, BootMe, BootRegister, BootRegisterRefused, BootFallsBack, BootLogin,
                            BootFails, BootEnds
  <2>8. CASE RecoverRefreshes(u) \/ RecoverEnds(u)
    BY <2>3, <2>8 DEF RecoverRefreshes, RecoverEnds
  <2>9. CASE CallEnds(u) \/ CallRecovers(u) \/ CallRepeats(u)
    BY <2>2, <2>4, <2>9 DEF CallEnds, CallRecovers, CallRepeats
  <2>10. QED
    BY <2>5, <2>6, <2>7, <2>8, <2>9 DEF Progress
<1>2. CASE UNCHANGED chain
  BY <1>2 DEF chain
<1>3. ASSUME NEW s, NEW r, Go(u, s, r) PROVE stack'[t] = stack[t] /\ back'[t] = back[t]
  BY <1>3 DEF Go, IInv, ChainsOK
<1>4. QED
  BY <1>1, <1>2, <1>3

\* What t has after such a step.
LEMMA GoGives ==
    ASSUME IInv, NEW t \in Tasks, NEW s, NEW r, Go(t, s, r)
    PROVE  stack'[t] = s /\ back'[t] = IF s = <<>> THEN None ELSE r
  BY DEF Go, IInv, ChainsOK

LEMMA ResultIs ==
    /\ Done # None
    /\ \A path, i : i \in Identities \cup {None} => \A r \in Answers(path, i) : r # None
<1>1. Done # None /\ Failed # None /\ Refused # None
  BY NoneAssumption DEF Done, Failed, Refused
<1>2. \A i \in Identities \cup {None} : [Done EXCEPT !.id = i] # None
  BY NoneAssumption DEF Done
<1>3. QED
  BY <1>1, <1>2 DEF Answers

\* A call that was repeated awaits nothing; Settled: nor would it.
Waits(s, b) == \A n \in 1 .. Len(s) : s[n].op = "call" /\ (n < Len(s) \/ b # None) => ~s[n].retried
Settled(s) == \A n \in 1 .. Len(s) : s[n].op = "call" => ~s[n].retried

LEMMA WaitsBelow ==
    ASSUME NEW s \in Seq(Frames), s # <<>>, NEW b, Waits(s, b)
    PROVE  Settled(Front(s)) /\ (Last(s).op = "call" /\ ~Last(s).retried => Settled(s))
<1>1. PICK q, p : q = Front(s) /\ p = Len(s)
  OBVIOUS
<1>2. /\ p \in Nat /\ p >= 1 /\ Len(q) = p - 1 /\ Last(s) = s[p] /\ \A n \in 1 .. p - 1 : q[n] = s[n]
      /\ \A n \in 1 .. p : n \in 1 .. p - 1 \/ n = p
  BY <1>1, Popped
<1>3. \A n \in 1 .. p - 1 : n \in 1 .. p /\ n < p /\ (s[n].op = "call" => ~s[n].retried)
  BY <1>1, <1>2 DEF Waits
<1>4. QED
  BY <1>1, <1>2, <1>3 DEF Settled

LEMMA SettledPush ==
    ASSUME NEW s \in Seq(Frames), NEW f \in Frames, Settled(s)
    PROVE  /\ \A b : Waits(s, b)
           /\ Waits(Append(s, f), None)
           /\ f.op # "call" => Settled(Append(s, f))
<1>1. PICK q : q = Append(s, f)
  OBVIOUS
<1>2. /\ Len(s) \in Nat /\ Len(q) = Len(s) + 1 /\ q[Len(s) + 1] = f
      /\ \A n \in 1 .. Len(s) : q[n] = s[n]
      /\ \A n \in 1 .. Len(s) + 1 : n \in 1 .. Len(s) \/ n = Len(s) + 1
  BY <1>1, Pushed
<1>3. \A n \in 1 .. Len(s) : q[n].op = "call" => ~q[n].retried
  BY <1>2 DEF Settled
<1>4. \A b : Waits(s, b)
  BY DEF Waits, Settled
<1>5. Waits(q, None)
  BY <1>2, <1>3 DEF Waits
<1>6. f.op # "call" => Settled(q)
  BY <1>2, <1>3 DEF Settled
<1>7. QED
  BY <1>1, <1>4, <1>5, <1>6

\* What a step of t does to its chain.
Lowers(t) ==
    /\ StepsLeft(stack'[t], back'[t]) < StepsLeft(stack[t], back[t])
    /\ Waits(stack'[t], back'[t])

LEMMA PopStep ==
    ASSUME IInv, NEW t \in Tasks, ~Idle(t), Len(stack[t]) <= 4, Waits(stack[t], back[t]), NEW r, r # None,
           Go(t, Below(t), r)
    PROVE  Lowers(t)
<1>1. PICK s : s = stack[t]
  OBVIOUS
<1>2. s \in Seq(Frames) /\ s # <<>> /\ Len(s) <= 4
  BY <1>1, StackTypes
<1>3. stack'[t] = Front(s) /\ (Front(s) = <<>> \/ back'[t] # None)
  BY <1>1, GoGives DEF Below
<1>4. StepsLeft(stack'[t], back'[t]) < StepsLeft(stack[t], back[t])
  BY <1>1, <1>2, <1>3, PopLowers
<1>5. Waits(stack'[t], back'[t])
  BY <1>1, <1>2, <1>3, WaitsBelow DEF Waits, Settled
<1>6. QED
  BY <1>4, <1>5 DEF Lowers

LEMMA RefreshLowersStep ==
    ASSUME IInv, NEW t \in Tasks, ~Idle(t), Len(stack[t]) <= 4, Len(stack'[t]) <= 4, Waits(stack[t], back[t]),
           NEW g \in Frames, g.at = "refresh", NEW tok,
           \/ Last(stack[t]) \in BootFrames /\ Last(stack[t]).at \in {"me", "register", "login"} /\ g.op = "boot"
           \/ Last(stack[t]) \in RecoverFrames /\ Last(stack[t]).at = "boot" /\ g.op = "recover",
           Refresh(t, Append(Below(t), g), tok)
    PROVE  Lowers(t)
<1>1. PICK s, f, a, q : s = stack[t] /\ f = CallFrame("devices", None, FALSE) /\ a = Append(Front(s), g) /\ q = Append(a, f)
  OBVIOUS
<1>2. s \in Seq(Frames) /\ s # <<>> /\ Len(s) <= 4
  BY <1>1, StackTypes
<1>3. /\ Len(s) \in Nat /\ a \in Seq(Frames) /\ Len(a) = Len(s) /\ a # <<>> /\ q # <<>> /\ Len(q) = Len(s) + 1
  <2>1. Len(s) \in Nat /\ Len(s) >= 1 /\ a \in Seq(Frames) /\ Len(a) = Len(s)
    BY <1>1, <1>2, Replaced
  <2>2. f \in Frames /\ q = Append(a, f)
    BY <1>1, DevicesCall
  <2>3. q # <<>> /\ Len(q) = Len(a) + 1
    BY <2>1, <2>2, Pushed
  <2>4. a # <<>>
    BY <2>1, EmptySeq
  <2>5. QED
    BY <2>1, <2>3, <2>4
<1>w. Waits(a, Done) /\ Waits(q, None)
  <2>1. Settled(Front(s)) /\ Front(s) \in Seq(Frames) /\ f \in Frames /\ g.op # "call"
    BY <1>1, <1>2, WaitsBelow, Popped, DevicesCall
  <2>2. Settled(a)
    BY <1>1, <2>1, SettledPush
  <2>3. QED
    BY <1>1, <1>3, <2>1, <2>2, SettledPush
<1>4. Go(t, q, None) \/ Go(t, a, Done)
  BY <1>1 DEF Refresh, Below
<1>5. /\ StepsLeft(a, Done) < StepsLeft(s, back[t])
      /\ Len(s) < 4 => StepsLeft(q, None) < StepsLeft(s, back[t])
  BY <1>1, <1>2, RefreshLowers, ResultIs
<1>6. CASE Go(t, a, Done)
  <2>1. stack'[t] = a /\ back'[t] = Done
    BY <1>3, <1>6, GoGives
  <2>2. QED
    BY <1>1, <1>5, <1>w, <2>1 DEF Lowers
<1>7. CASE Go(t, q, None)
  <2>1. stack'[t] = q /\ back'[t] = None
    BY <1>3, <1>7, GoGives
  <2>2. Len(s) < 4
    BY <1>3, <2>1
  <2>3. QED
    BY <1>1, <1>5, <1>w, <2>1, <2>2 DEF Lowers
<1>8. QED
  BY <1>4, <1>6, <1>7

LEMMA CallLowersStep ==
    ASSUME IInv, NEW t \in Tasks, ~Idle(t), Len(stack[t]) <= 4, Len(stack'[t]) <= 4, Waits(stack[t], back[t]), Last(stack[t]) \in BootFrames,
           NEW at \in {"me", "register", "login"}, NEW i \in Identities \cup {None},
           \/ Last(stack[t]).at = "health" /\ at \in {"me", "login"}
           \/ Last(stack[t]).at = "me" /\ at \in {"register", "login"}
           \/ Last(stack[t]).at = "register" /\ at = "login",
           Go(t, Append(Moved(t, at), CallFrame(at, i, FALSE)), None)
    PROVE  Lowers(t)
<1>1. PICK s, g, f, a, q : /\ s = stack[t] /\ g = BootFrame(Last(s).fresh, at) /\ f = CallFrame(at, i, FALSE)
                           /\ a = Append(Front(s), g) /\ q = Append(a, f)
  OBVIOUS
<1>2. s \in Seq(Frames) /\ s # <<>> /\ Len(s) <= 4
  BY <1>1, StackTypes
<1>3. Len(s) \in Nat /\ q # <<>> /\ Len(q) = Len(s) + 1
  <2>1. g \in Frames
    BY <1>1, FrameKinds DEF BootFrames
  <2>2. Len(s) \in Nat /\ a \in Seq(Frames) /\ Len(a) = Len(s)
    BY <1>1, <1>2, <2>1, Replaced
  <2>3. f \in Frames /\ q = Append(a, f)
    BY <1>1, FrameKinds
  <2>4. QED
    BY <2>2, <2>3, Pushed
<1>4. stack'[t] = q /\ back'[t] = None
  BY <1>1, <1>3, GoGives DEF Moved, Below
<1>5. Len(s) < 4
  BY <1>1, <1>3, <1>4
<1>6. StepsLeft(q, None) < StepsLeft(s, back[t])
  BY <1>1, <1>2, <1>5, CallLowers
<1>7. Waits(q, None)
  <2>1. Settled(Front(s)) /\ Front(s) \in Seq(Frames)
    BY <1>1, <1>2, WaitsBelow, Popped
  <2>2. f \in Frames /\ g \in Frames /\ g.op # "call"
    BY <1>1, FrameKinds DEF BootFrames, BootFrame
  <2>3. Settled(a) /\ a \in Seq(Frames)
    BY <1>1, <2>1, <2>2, SettledPush, Pushed
  <2>4. QED
    BY <1>1, <2>2, <2>3, SettledPush
<1>8. QED
  BY <1>1, <1>4, <1>6, <1>7 DEF Lowers

LEMMA RepeatLowersStep ==
    ASSUME IInv, NEW t \in Tasks, ~Idle(t), Len(stack[t]) <= 4, Waits(stack[t], back[t]), Last(stack[t]).op = "call",
           Last(stack[t]).at = "devices", ~Last(stack[t]).retried, Repeat(t)
    PROVE  Lowers(t)
<1>1. PICK s, f, q : s = stack[t] /\ f = CallFrame("devices", None, TRUE) /\ q = Append(Front(s), f)
  OBVIOUS
<1>2. s \in Seq(Frames) /\ s # <<>> /\ Len(s) <= 4
  BY <1>1, StackTypes
<1>3. q # <<>>
  <2>1. f \in Frames
    BY <1>1, DevicesCall
  <2>2. Len(s) \in Nat /\ Len(s) >= 1 /\ q \in Seq(Frames) /\ Len(q) = Len(s)
    BY <1>1, <1>2, <2>1, Replaced
  <2>3. QED
    BY <2>2, EmptySeq
<1>4. stack'[t] = q /\ back'[t] = None
  BY <1>1, <1>3, GoGives DEF Repeat, Below
<1>5. Waits(q, None)
  <2>1. Settled(Front(s)) /\ Front(s) \in Seq(Frames) /\ f \in Frames
    BY <1>1, <1>2, WaitsBelow, Popped, DevicesCall
  <2>2. QED
    BY <1>1, <2>1, SettledPush
<1>6. QED
  BY <1>1, <1>2, <1>4, <1>5, RepeatLowers DEF Lowers

LEMMA RecoverLowersStep ==
    ASSUME IInv, NEW t \in Tasks, ~Idle(t), Len(stack[t]) <= 4, Len(stack'[t]) <= 4, Waits(stack[t], back[t]), Last(stack[t]).op = "call",
           Last(stack[t]).at = "devices", ~Last(stack[t]).retried, back[t] = None, Recover(t, stack[t])
    PROVE  Lowers(t)
<1>1. PICK s, g, f, a, q : /\ s = stack[t] /\ g = RecoverFrame("boot") /\ f = BootFrame(TRUE, "health")
                           /\ a = Append(s, g) /\ q = Append(a, f)
  OBVIOUS
<1>2. s \in Seq(Frames) /\ s # <<>> /\ Len(s) <= 4
  BY <1>1, StackTypes
<1>3. Len(s) \in Nat /\ a # <<>> /\ Len(a) = Len(s) + 1 /\ q # <<>> /\ Len(q) = Len(s) + 2
  <2>1. g \in Frames /\ f \in Frames /\ a = Append(s, g) /\ q = Append(a, f)
    BY <1>1, FrameKinds
  <2>2. Len(s) \in Nat /\ a # <<>> /\ a \in Seq(Frames) /\ Len(a) = Len(s) + 1
    BY <1>2, <2>1, Pushed
  <2>3. q # <<>> /\ Len(q) = Len(a) + 1
    BY <2>1, <2>2, Pushed
  <2>4. QED
    BY <2>2, <2>3
<1>4. \A n \in 1 .. Len(s) : s[n].op # "recover"
  BY <1>1 DEF Recover, MayRecover, Recovering, Within
<1>w. Waits(a, Done) /\ Waits(q, None)
  <2>1. Settled(s) /\ g \in Frames /\ f \in Frames /\ g.op # "call" /\ a = Append(s, g) /\ q = Append(a, f)
    BY <1>1, <1>2, WaitsBelow, FrameKinds
  <2>2. Settled(a) /\ a \in Seq(Frames)
    BY <1>2, <2>1, SettledPush, Pushed
  <2>3. QED
    BY <2>1, <2>2, SettledPush
<1>5. Go(t, a, Done) \/ Go(t, q, None)
  BY <1>1 DEF Recover, Renew
<1>6. CASE Go(t, a, Done)
  <2>1. stack'[t] = a /\ back'[t] = Done
    BY <1>3, <1>6, GoGives
  <2>2. Len(s) < 4
    BY <1>3, <2>1
  <2>3. StepsLeft(a, Done) < StepsLeft(s, None)
    BY <1>1, <1>2, <1>4, <2>2, RecoverLowers
  <2>4. QED
    BY <1>1, <1>w, <2>1, <2>3 DEF Lowers
<1>7. CASE Go(t, q, None)
  <2>1. stack'[t] = q /\ back'[t] = None
    BY <1>3, <1>7, GoGives
  <2>2. Len(s) < 4 /\ Len(s) < 3
    BY <1>3, <2>1
  <2>3. StepsLeft(q, None) < StepsLeft(s, None)
    BY <1>1, <1>2, <1>4, <2>2, RecoverLowers
  <2>4. QED
    BY <1>1, <1>w, <2>1, <2>3 DEF Lowers
<1>8. QED
  BY <1>5, <1>6, <1>7

\* Every step of a chain leaves less of it.
LEMMA ProgressLowers ==
    ASSUME IInv, NEW t \in Tasks, Progress(t), Len(stack[t]) <= 4, Len(stack'[t]) <= 4, Waits(stack[t], back[t])
    PROVE  Lowers(t)
<1>1. ~Idle(t) /\ Last(stack[t]) \in Frames
  BY StackTypes DEF Progress
<1>2. Last(stack[t]).op = "boot" => Last(stack[t]) \in BootFrames /\ Last(stack[t]).fresh \in BOOLEAN
  BY <1>1 DEF Frames, BootFrames, RecoverFrames, CallFrames
<1>3. Last(stack[t]).op = "recover" => Last(stack[t]) \in RecoverFrames
  BY <1>1 DEF Frames, BootFrames, RecoverFrames, CallFrames
<1>4. Last(stack[t]).op = "call" => Last(stack[t]).id \in Identities \cup {None}
  BY <1>1 DEF Frames, BootFrames, RecoverFrames, CallFrames
<1>5. ident \in Identities /\ Done # None
  BY ResultIs DEF IInv, TypeOK
<1>6. ASSUME Boot(t) PROVE Lowers(t)
  <2>1. Last(stack[t]) \in BootFrames
    BY <1>1, <1>2, <1>6 DEF Boot, BootHealth, BootMe, BootRegister, BootRegisterRefused, BootFallsBack, BootLogin,
                            BootFails, BootEnds, At
  <2>2. ASSUME NEW tok, Last(stack[t]).at \in {"me", "register", "login"}, Refresh(t, Moved(t, "refresh"), tok)
        PROVE  Lowers(t)
    <3>1. PICK g : g = BootFrame(Last(stack[t]).fresh, "refresh")
      OBVIOUS
    <3>2. g \in Frames /\ g.op = "boot" /\ g.at = "refresh"
      BY <1>2, <2>1, <3>1, FrameKinds DEF BootFrame, BootFrames
    <3>3. Refresh(t, Append(Below(t), g), tok)
      BY <2>2, <3>1 DEF Moved
    <3>4. QED
      BY <1>1, <2>1, <2>2, <3>2, <3>3, RefreshLowersStep
  <2>3. Go(t, Below(t), Done) => Lowers(t)
    BY <1>1, <1>5, PopStep
  <2>4. CASE BootHealth(t)
    BY <1>1, <1>5, <2>1, <2>4, CallLowersStep DEF BootHealth, At, Login
  <2>5. CASE BootMe(t)
    <3>1. Last(stack[t]).at = "me"
      BY <2>5 DEF BootMe, At
    <3>2. Refresh(t, Moved(t, "refresh"), tokens) => Lowers(t)
      BY <2>2, <3>1
    <3>3. Go(t, Append(Moved(t, "register"), CallFrame("register", ident, FALSE)), None) => Lowers(t)
      BY <1>1, <1>5, <2>1, <3>1, CallLowersStep
    <3>4. QED
      BY <2>5, <3>2, <3>3 DEF BootMe
  <2>6. CASE BootRegister(t) \/ BootRegisterRefused(t) \/ BootLogin(t)
    BY <2>2, <2>6 DEF BootRegister, BootRegisterRefused, BootLogin, At
  <2>7. CASE BootFallsBack(t)
    BY <1>1, <1>5, <2>1, <2>7, CallLowersStep DEF BootFallsBack, At, Login
  <2>8. CASE BootFails(t) \/ BootEnds(t)
    BY <2>3, <2>8 DEF BootFails, BootEnds
  <2>9. QED
    BY <1>6, <2>4, <2>5, <2>6, <2>7, <2>8 DEF Boot
<1>7. CASE RecoverRefreshes(t)
  <2>1. PICK g : g = RecoverFrame("refresh")
    OBVIOUS
  <2>2. g \in Frames /\ g.op = "recover" /\ g.at = "refresh"
    BY <2>1, FrameKinds DEF RecoverFrame
  <2>3. Refresh(t, Append(Below(t), g), tokens) /\ Last(stack[t]) \in RecoverFrames /\ Last(stack[t]).at = "boot"
    BY <1>3, <1>7, <2>1 DEF RecoverRefreshes, At
  <2>4. QED
    BY <1>1, <2>2, <2>3, RefreshLowersStep
<1>8. CASE RecoverEnds(t)
  BY <1>1, <1>5, <1>8, PopStep DEF RecoverEnds
<1>9. CASE CallEnds(t)
  <2>1. PICK r \in Answers(Last(stack[t]).at, Last(stack[t]).id) : Go(t, Below(t), r)
    BY <1>9 DEF CallEnds
  <2>2. r # None
    BY <1>4, <1>9, ResultIs DEF CallEnds
  <2>3. QED
    BY <1>1, <2>1, <2>2, PopStep
<1>10. CASE CallRecovers(t)
  <2>1. /\ Last(stack[t]).op = "call" /\ back[t] = None /\ Last(stack[t]).at = "devices" /\ ~Last(stack[t]).retried
        /\ Recover(t, stack[t]) \/ Repeat(t)
    BY <1>10 DEF CallRecovers, MayRepeat
  <2>2. QED
    BY <1>1, <2>1, RecoverLowersStep, RepeatLowersStep
<1>11. CASE CallRepeats(t)
  <2>1. Last(stack[t]).op = "call" /\ Last(stack[t]).at = "devices" /\ back[t] # None /\ Repeat(t)
    BY <1>11 DEF CallRepeats, At
  <2>2. ~Last(stack[t]).retried
    <3>1. Len(stack[t]) \in 1 .. Len(stack[t]) /\ Last(stack[t]) = stack[t][Len(stack[t])]
      BY <1>1, StackTypes, Popped
    <3>2. QED
      BY <2>1, <3>1 DEF Waits
  <2>3. QED
    BY <1>1, <2>1, <2>2, RepeatLowersStep
<1>12. QED
  BY <1>6, <1>7, <1>8, <1>9, <1>10, <1>11 DEF Progress

\* A chain starts.
Starts(t) == StepsLeft(stack'[t], back'[t]) <= 25 /\ Waits(stack'[t], back'[t])

LEMMA StartStep ==
    ASSUME IInv, NEW t \in Tasks, Idle(t), User(t) \/ SocketClosesAgain(t) PROVE Starts(t)
<1>1. PICK e : e = <<>>
  OBVIOUS
<1>2. e \in Seq(Frames) /\ Settled(e) /\ stack[t] = e /\ Len(e) = 0
  BY <1>1, EmptySeq DEF Settled, Idle
<1>3. (\E r : Go(t, e, r)) \/ UNCHANGED chain => Starts(t)
  <2>1. (\E r : Go(t, e, r)) \/ UNCHANGED chain => stack'[t] = e
    BY <1>1, <1>2, GoGives DEF chain
  <2>2. StepsLeft(e, back'[t]) = 0 /\ Waits(e, back'[t])
    BY <1>1, <1>2, StartIsLow DEF Waits, Settled
  <2>3. QED
    BY <2>1, <2>2 DEF Starts
<1>4. ASSUME NEW f \in Frames, NEW r, r = None \/ f.op # "call", Go(t, Append(e, f), r) PROVE Starts(t)
  <2>1. PICK q : q = Append(e, f)
    OBVIOUS
  <2>2. q # <<>> /\ StepsLeft(q, r) <= 25 /\ Waits(q, r)
    <3>1. StepsLeft(q, r) <= 25
      BY <1>1, <2>1, StartIsLow
    <3>2. q # <<>> /\ q \in Seq(Frames)
      BY <1>2, <2>1, Pushed
    <3>3. Waits(q, r)
      BY <1>2, <1>4, <2>1, <3>2, SettledPush
    <3>4. QED
      BY <3>1, <3>2, <3>3
  <2>3. stack'[t] = q /\ back'[t] = r
    BY <1>4, <2>1, <2>2, GoGives
  <2>4. QED
    BY <2>2, <2>3 DEF Starts
<1>5. ASSUME Renew(t, <<>>) PROVE Starts(t)
  <2>1. PICK f : f = BootFrame(TRUE, "health")
    OBVIOUS
  <2>2. f \in Frames /\ f.op = "boot"
    BY <2>1, FrameKinds
  <2>3. Go(t, e, Done) \/ Go(t, Append(e, f), None)
    BY <1>1, <1>5, <2>1 DEF Renew
  <2>4. QED
    BY <1>3, <1>4, <2>2, <2>3
<1>6. ASSUME Recover(t, <<>>) PROVE Starts(t)
  <2>1. PICK g, f, a, q : g = RecoverFrame("boot") /\ f = BootFrame(TRUE, "health") /\ a = Append(e, g) /\ q = Append(a, f)
    OBVIOUS
  <2>2. g \in Frames /\ g.op # "call" /\ f \in Frames
    BY <2>1, FrameKinds
  <2>3. Go(t, Append(e, g), Done) \/ Go(t, q, None)
    BY <1>1, <1>6, <2>1 DEF Recover, Renew
  <2>4. CASE Go(t, q, None)
    <3>1. a \in Seq(Frames) /\ Settled(a)
      BY <1>2, <2>1, <2>2, SettledPush, Pushed
    <3>2. q # <<>> /\ Waits(q, None)
      BY <2>1, <2>2, <3>1, SettledPush, Pushed
    <3>3. stack'[t] = q /\ back'[t] = None
      BY <2>4, <3>2, GoGives
    <3>4. StepsLeft(q, None) <= 25
      BY <1>1, <2>1, StartIsLow
    <3>5. QED
      BY <3>2, <3>3, <3>4 DEF Starts
  <2>5. QED
    BY <1>4, <2>2, <2>3, <2>4
<1>7. ASSUME NEW tok, Refresh(t, <<>>, tok) PROVE Starts(t)
  <2>1. PICK f : f = CallFrame("devices", None, FALSE)
    OBVIOUS
  <2>2. f \in Frames
    BY <2>1, DevicesCall
  <2>3. Go(t, e, Done) \/ Go(t, Append(e, f), None)
    BY <1>1, <1>7, <2>1 DEF Refresh
  <2>4. QED
    BY <1>3, <1>4, <2>2, <2>3
<1>8. ASSUME Retry(t) PROVE Starts(t)
  <2>1. PICK f : f = BootFrame(FALSE, "health")
    OBVIOUS
  <2>2. f \in Frames
    BY <2>1, FrameKinds
  <2>3. Go(t, Append(e, f), None)
    BY <1>1, <1>8, <2>1, ShapeEmpty DEF Retry
  <2>4. QED
    BY <1>4, <2>2, <2>3
<1>9. QED
  BY <1>3, <1>5, <1>6, <1>7, <1>8 DEF User, Reprovision, Use, SocketClosesAgain

\* What a step does to each chain.
Runs(t) ==
    /\ Progress(t) => StepsLeft(stack'[t], back'[t]) < StepsLeft(stack[t], back[t])
    /\ ~Idle(t) => StepsLeft(stack'[t], back'[t]) <= StepsLeft(stack[t], back[t])
    /\ Idle(t) => StepsLeft(stack'[t], back'[t]) <= 25
    /\ Waits(stack'[t], back'[t])

WaitsOK == \A t \in Tasks : Waits(stack[t], back[t])

LEMMA RunsNext ==
    ASSUME IInv, ShapesOK, WaitsOK, [Next]_vars, NEW t \in Tasks
    PROVE  Runs(t)
<1>1. Len(stack[t]) <= 4 /\ Len(stack'[t]) <= 4 /\ stack'[t] \in Seq(Frames)
  <2>1. Shape(stack[t]) /\ OneBoot(stack[t]) /\ stack[t] \in Seq(Frames)
    BY StackTypes DEF ShapesOK
  <2>2. IInv' /\ ShapesOK'
    BY NextOK, ShapesNext
  <2>3. Shape(stack'[t]) /\ OneBoot(stack'[t]) /\ stack'[t] \in Seq(Frames)
    BY <2>2 DEF ShapesOK, IInv, ChainsOK
  <2>4. QED
    BY <2>1, <2>3, ShapeIsShort
<1>2. Waits(stack[t], back[t])
  BY DEF WaitsOK
<1>3. StepsLeft(stack[t], back[t]) \in Nat /\ StepsLeft(stack'[t], back'[t]) \in Nat
  <2>1. ASSUME NEW s \in Seq(Frames), NEW r PROVE StepsLeft(s, r) \in Nat
    <3>1. Worth(s, r, 1) \in Nat /\ Worth(s, r, 2) \in Nat /\ Worth(s, r, 3) \in Nat /\ Worth(s, r, 4) \in Nat
      BY WorthNat
    <3>2. QED
      BY <3>1 DEF StepsLeft
  <2>2. QED
    BY <1>1, <2>1, StackTypes
<1>4. CASE Progress(t)
  BY <1>1, <1>2, <1>3, <1>4, ProgressLowers DEF Lowers, Runs, Progress
<1>5. CASE User(t) \/ SocketClosesAgain(t)
  <2>1. Idle(t)
    BY <1>5 DEF User, Reprovision, Retry, Use, SocketClosesAgain
  <2>2. QED
    BY <1>5, <2>1, StartStep DEF Starts, Runs, Progress
<1>6. CASE stack'[t] = stack[t] /\ back'[t] = back[t] /\ ~Progress(t)
  <2>1. Idle(t) => StepsLeft(stack[t], back[t]) = 0
    BY StartIsLow DEF Idle
  <2>2. QED
    BY <1>2, <1>3, <1>6, <2>1 DEF Runs
<1>7. CASE UNCHANGED chain
  BY <1>4, <1>6, <1>7 DEF chain
<1>8. ASSUME NEW u \in Tasks, User(u) \/ SocketClosesAgain(u) \/ Progress(u), u # t PROVE Runs(t)
  BY <1>4, <1>6, <1>8, OthersStay
<1>9. QED
  BY <1>4, <1>5, <1>7, <1>8 DEF Next, SocketOpens, SocketCloses, Timer, TwentySeconds, vars, chain

LEMMA WaitsInit == Init => WaitsOK
<1> SUFFICES ASSUME Init, NEW t \in Tasks PROVE Waits(stack[t], back[t])
  BY DEF WaitsOK
<1>1. PICK f : f = BootFrame(FALSE, "health")
  OBVIOUS
<1>2. PICK e : e = <<>>
  OBVIOUS
<1>3. f \in Frames /\ <<f>> = Append(e, f) /\ e \in Seq(Frames) /\ Len(e) = 0
  BY <1>1, <1>2, FrameKinds, ShapeEmpty, EmptySeq
<1>4. Settled(e)
  BY <1>3 DEF Settled
<1>5. Waits(Append(e, f), None) /\ Waits(e, None)
  BY <1>3, <1>4, SettledPush
<1>6. QED
  BY <1>1, <1>2, <1>3, <1>5 DEF Init

\* Every step of a chain, whatever the server answers and the other chains do,
\* leaves fewer to come; there are 25 at the most.
THEOREM ChainsEnd == Spec => ChainsRunDown
<1>1. Init => IInv /\ ShapesOK /\ WaitsOK
  BY InitOK, ShapesInit, WaitsInit
<1>2. IInv /\ ShapesOK /\ WaitsOK /\ [Next]_vars => (IInv /\ ShapesOK /\ WaitsOK)'
  BY NextOK, ShapesNext, RunsNext DEF Runs, WaitsOK
<1>3. IInv /\ ShapesOK /\ WaitsOK /\ [Next]_vars =>
        [\A t \in Tasks :
            /\ Progress(t) => StepsLeft(stack'[t], back'[t]) < StepsLeft(stack[t], back[t])
            /\ ~Idle(t) => StepsLeft(stack'[t], back'[t]) <= StepsLeft(stack[t], back[t])
            /\ Idle(t) => StepsLeft(stack'[t], back'[t]) <= 25]_vars
  BY RunsNext DEF Runs
<1>4. QED
  BY <1>1, <1>2, <1>3, PTL DEF Spec, ChainsRunDown
=============================================================================
