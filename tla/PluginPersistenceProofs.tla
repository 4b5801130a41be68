------------------------ MODULE PluginPersistenceProofs ------------------------
(***************************************************************************)
(* Proofs about PluginPersistence, for any Projects, devices, plugins and  *)
(* bounds: the state of a closing editor is not lost on its way into the   *)
(* Session, and a Project that is left has what its user gave its plugins. *)
(*                                                                         *)
(* The first part is about functions defined along a sequence, which is    *)
(* how the model collects and forgets changes: that one exists, that it is *)
(* unique, and what its last value holds.  The second says what is kept    *)
(* when changes are collected, and what closing an editor sends.  The      *)
(* third follows the types.  The fourth is about events on their way: each *)
(* step adds at most one, with an id of its own, and keeps what is owed    *)
(* where the worker finds it.  The fifth follows who has the writer, what  *)
(* the switch has asked of the worker, and what is owed to a switch that   *)
(* leaves the Project.  The sixth is about the order in which events       *)
(* arrive and are applied.  The last follows what a user gave a plugin,    *)
(* from the editor into the Session.                                       *)
(***************************************************************************)
EXTENDS PluginPersistence, WellFoundedInduction, TLAPS

\* What the actors hold is typed.
Record == [slots : [Device -> Slot], revision : Nat]

DataTypes ==
    /\ project \in [Project -> Record]
    /\ open \in Project /\ target \in Graph
    /\ graph # None => graph \in Runtime
    /\ editor # None => editor \in Editor
    /\ versions \in Nat /\ events \in Nat

QueueTypes ==
    /\ wire \in Seq(Event) /\ channel \in Seq(Event)
    /\ pending \in Seq(Event) /\ batch \in Seq(Event)
    /\ reply # None => reply.changes \in Seq(Event)

SwitchTypes ==
    /\ switch = [step |-> switch.step, to |-> switch.to, changes |-> switch.changes,
                 applied |-> switch.applied, failed |-> switch.failed]
    /\ switch.step \in Steps /\ (switch.step # "idle" => switch.to \in Project)
    /\ switch.changes \in Seq(Event)

Types == DataTypes /\ QueueTypes /\ SwitchTypes

\* The worker has stopped collecting.
Collected == worker \in {"locking", "last flush", "gone"}

\* The writer has one holder; a batch exists while the worker flushes; a switch
\* keeps the Host running, and the worker stops after everything else.
Turns ==
    /\ writer = "switch" <=> switch.step # "idle"
    /\ writer = "worker" <=> worker \in {"flushing", "last flush"}
    /\ batch # <<>> => writer = "worker"
    /\ switch.step # "idle" => lifecycle \in {"running", "requested"}
    /\ lifecycle = "stopping" => wire = <<>> /\ graph = None
    /\ Collected => lifecycle = "stopping"

\* What the switch has asked the worker, and that it has one question at a time.
Asked ==
    /\ request # None =>
          /\ reply = None
          /\ \/ switch.step \in Asking /\ request = [kind |-> "take", project |-> open]
             \/ /\ switch.step \in Acknowledging
                /\ request = [kind |-> "acknowledge", applied |-> switch.applied]
    /\ reply # None => switch.step \in Asking \union Acknowledging

\* Everything that was reported and is on its way, and where a final state that
\* is owed may be: a worker that has stopped collecting reads no channel.
Lent == IF reply = None THEN {} ELSE ToSet(reply.changes)
Around == ToSet(wire) \union ToSet(channel) \union ToSet(pending) \union ToSet(batch)
          \union ToSet(switch.changes) \union Lent

Held == ToSet(wire) \union ToSet(pending) \union ToSet(batch)
        \union IF Collected THEN {} ELSE ToSet(channel)

OwedIsHeld == owed \subseteq Held /\ \A f \in owed : f.project = open

\* An id tells a final state from everything else.
IdsTell ==
    /\ \A e \in Around : e.id <= events
    /\ \A f \in owed : f \in Event /\ f.kind = "final" /\ f.id > 0
    /\ \A f \in owed, e \in Around : e.id = f.id => e = f
    /\ \A f \in owed : f.id \notin switch.applied
    /\ switch.applied \subseteq 0 .. events

\* While a Project is left no editor is open and the final states that reached
\* the Host are the switch's: first to take, then to apply, and then there are
\* none.
Leaving == {"take closing", "apply closing", "acknowledge closing", "load", "replace"}

OwedToSwitch ==
    /\ switch.step \in Leaving => editor = None /\ owed \intersect ToSet(wire) = {}
    /\ switch.step = "take closing" /\ reply # None => owed \subseteq ToSet(reply.changes)
    /\ switch.step = "apply closing" /\ ~switch.failed => owed \subseteq ToSet(switch.changes)
    /\ switch.step = "acknowledge closing" /\ ~switch.failed => owed = {}
    /\ switch.step \in {"load", "replace"} => owed = {}

EditorIsHere == editor # None => editor.project = open

PersistenceInv ==
    Types /\ Turns /\ Asked /\ IdsTell /\ OwedToSwitch /\ EditorIsHere /\ OwedIsHeld
-----------------------------------------------------------------------------
(* Functions defined along a sequence.                                     *)

\* Induction up to N over a set.
LEMMA UpTo ==
    ASSUME NEW N \in Nat, NEW A, 0 \in A, \A n \in 1 .. N : n - 1 \in A => n \in A
    PROVE  \A n \in 0 .. N : n \in A
<1> DEFINE B == {n \in 0 .. N : n \notin A}
<1> SUFFICES ASSUME B # {} PROVE FALSE
  OBVIOUS
<1>1. B \in SUBSET Nat
  OBVIOUS
<1> DEFINE R == OpToRel(<, Nat)
<1>2. IsWellFoundedOn(R, Nat)
  BY NatLessThanWellFounded
<1>3. \A x, y \in Nat : <<y, x>> \in R <=> y < x
  BY DEF OpToRel
<1> HIDE DEF R
<1>4. PICK n \in B : \A m \in B : ~(<<m, n>> \in R)
  <2> HIDE DEF B
  <2> QED BY <1>1, <1>2, WFMin
<1>5. n # 0 /\ n \in 1 .. N
  OBVIOUS
<1>6. n - 1 \in A
  <2>1. n - 1 \in 0 .. N /\ n - 1 < n
    BY <1>5
  <2>2. n - 1 \notin B
    BY <1>1, <1>3, <1>4, <2>1
  <2> QED BY <2>1, <2>2
<1> QED BY <1>5, <1>6

\* A step function can be iterated.
Iterates(f, step, base, N) == f[0] = base /\ \A n \in 1 .. N : f[n] = step[<<f[n - 1], n>>]
StaysIn(X, step, N) == \A x \in X, n \in 1 .. N : step[<<x, n>>] \in X

LEMMA IterationExists ==
    ASSUME NEW X, NEW N \in Nat, NEW base \in X, NEW step, StaysIn(X, step, N)
    PROVE  \E f \in [0 .. N -> X] : Iterates(f, step, base, N)
<1> USE DEF Iterates, StaysIn
<1> DEFINE Good(f, m) == Iterates(f, step, base, m)
           A == {m \in 0 .. N : \E f \in [0 .. m -> X] : Good(f, m)}
<1>1. 0 \in A
  <2> DEFINE g == [i \in 0 .. 0 |-> base]
  <2>1. g \in [0 .. 0 -> X] /\ g[0] = base /\ 1 .. 0 = {}
    OBVIOUS
  <2> HIDE DEF g
  <2>2. Good(g, 0)
    BY <2>1
  <2>3. 0 \in 0 .. N
    OBVIOUS
  <2> QED BY <2>1, <2>2, <2>3
<1>2. ASSUME NEW m \in 1 .. N, m - 1 \in A PROVE m \in A
  <2>1. PICK f \in [0 .. (m - 1) -> X] : Good(f, m - 1)
    BY <1>2
  <2> DEFINE g == [i \in 0 .. m |-> IF i = m THEN step[<<f[m - 1], m>>] ELSE f[i]]
  <2>2. m - 1 \in 0 .. (m - 1) /\ f[m - 1] \in X
    BY <2>1
  <2>3. step[<<f[m - 1], m>>] \in X
    BY <2>2
  <2>4. \A i \in 0 .. m : i # m => i \in 0 .. (m - 1) /\ f[i] \in X
    BY <2>1
  <2>5. g \in [0 .. m -> X]
    BY <2>3, <2>4
  <2>6. g[0] = base
    BY <2>1
  <2>7. ASSUME NEW n \in 1 .. m PROVE g[n] = step[<<g[n - 1], n>>]
    <3>1. g[n - 1] = f[n - 1]
      OBVIOUS
    <3>2. CASE n = m
      <4>1. g[m] = step[<<f[m - 1], m>>]
        OBVIOUS
      <4> HIDE DEF g
      <4> QED BY <3>1, <3>2, <4>1
    <3>3. CASE n # m
      <4>1. n \in 1 .. (m - 1) /\ g[n] = f[n]
        BY <3>3
      <4> QED BY <2>1, <3>1, <4>1
    <3> QED BY <3>2, <3>3
  <2> HIDE DEF g
  <2>8. Good(g, m)
    BY <2>6, <2>7
  <2>9. m \in 0 .. N
    OBVIOUS
  <2> QED BY <2>5, <2>8, <2>9
<1>3. N \in A
  <2> HIDE DEF A
  <2>1. \A n \in 0 .. N : n \in A
    BY <1>1, <1>2, UpTo
  <2> QED BY <2>1
<1> QED BY <1>3

\* Two functions that go the same steps are the same.
Along(f, g, N) == f[0] = g[0] /\ \A n \in 1 .. N : f[n - 1] = g[n - 1] => f[n] = g[n]

LEMMA IterationIsOne ==
    ASSUME NEW N \in Nat, NEW f, NEW g, Along(f, g, N)
    PROVE  f[N] = g[N]
<1> USE DEF Along
<1> DEFINE A == {n \in 0 .. N : f[n] = g[n]}
<1>1. 0 \in A
  OBVIOUS
<1>2. \A n \in 1 .. N : n - 1 \in A => n \in A
  OBVIOUS
<1> HIDE DEF A
<1>3. \A n \in 0 .. N : n \in A
  BY <1>1, <1>2, UpTo
<1>4. N \in 0 .. N
  OBVIOUS
<1> QED BY <1>3, <1>4 DEF A

-----------------------------------------------------------------------------
(* The elements of a sequence.                                             *)

LEMMA ElementsOf ==
    ASSUME NEW S, NEW s \in Seq(S)
    PROVE  /\ Len(s) \in Nat /\ \A i \in 1 .. Len(s) : s[i] \in S /\ s[i] \in ToSet(s)
           /\ \A x \in ToSet(s) : x \in S /\ \E i \in 1 .. Len(s) : x = s[i]
BY DEF ToSet

LEMMA EmptyHasNone == ToSet(<<>>) = {}
BY DEF ToSet

LEMMA AppendAdds ==
    ASSUME NEW S, NEW s \in Seq(S), NEW e \in S
    PROVE  Append(s, e) \in Seq(S) /\ ToSet(Append(s, e)) = ToSet(s) \union {e}
<1>1. /\ Append(s, e) \in Seq(S) /\ Len(Append(s, e)) = Len(s) + 1
      /\ Append(s, e)[Len(s) + 1] = e
      /\ \A i \in 1 .. Len(s) : Append(s, e)[i] = s[i]
  OBVIOUS
<1> DEFINE t == Append(s, e)
<1> HIDE DEF t
<1>2. t \in Seq(S) /\ Len(t) = Len(s) + 1 /\ t[Len(s) + 1] = e /\ \A i \in 1 .. Len(s) : t[i] = s[i]
  BY <1>1 DEF t
<1>3. \A x \in ToSet(t) : x \in ToSet(s) \/ x = e
  BY <1>2, ElementsOf DEF ToSet
<1>4. \A x \in ToSet(s) : x \in ToSet(t)
  <2> TAKE x \in ToSet(s)
  <2>1. PICK i \in 1 .. Len(s) : x = s[i]
    BY ElementsOf
  <2>2. i \in 1 .. Len(t) /\ x = t[i]
    BY <1>2, <2>1, ElementsOf
  <2> QED BY <1>2, <2>2, ElementsOf
<1>5. e \in ToSet(t)
  BY <1>2, ElementsOf DEF ToSet
<1> QED BY <1>2, <1>3, <1>4, <1>5 DEF t

LEMMA HeadAndTail ==
    ASSUME NEW S, NEW s \in Seq(S), s # <<>>
    PROVE  /\ Head(s) \in S /\ Head(s) \in ToSet(s)
           /\ Tail(s) \in Seq(S) /\ ToSet(s) = {Head(s)} \union ToSet(Tail(s))
<1>1. /\ Tail(s) \in Seq(S) /\ Len(Tail(s)) = Len(s) - 1 /\ Len(s) \in Nat \ {0} /\ Head(s) = s[1]
      /\ \A i \in 1 .. (Len(s) - 1) : Tail(s)[i] = s[i + 1]
  OBVIOUS
<1> DEFINE t == Tail(s)
<1> HIDE DEF t
<1>2. /\ t \in Seq(S) /\ Len(t) = Len(s) - 1 /\ Len(s) \in Nat \ {0} /\ Head(s) = s[1]
      /\ \A i \in 1 .. (Len(s) - 1) : t[i] = s[i + 1]
  BY <1>1 DEF t
<1>3. s[1] \in S /\ s[1] \in ToSet(s)
  BY <1>2, ElementsOf
<1>4. \A x \in ToSet(t) : x \in ToSet(s)
  <2> TAKE x \in ToSet(t)
  <2>1. PICK i \in 1 .. Len(t) : x = t[i]
    BY <1>2, ElementsOf
  <2>2. i + 1 \in 1 .. Len(s) /\ x = s[i + 1]
    BY <1>2, <2>1
  <2> QED BY <2>2, ElementsOf
<1>5. \A x \in ToSet(s) : x = s[1] \/ x \in ToSet(t)
  <2> TAKE x \in ToSet(s)
  <2>1. PICK i \in 1 .. Len(s) : x = s[i]
    BY ElementsOf
  <2>2. CASE i = 1
    BY <2>1, <2>2
  <2>3. CASE i # 1
    <3>1. i - 1 \in 1 .. Len(t) /\ i - 1 \in 1 .. (Len(s) - 1) /\ (i - 1) + 1 = i
      BY <1>2, <2>3
    <3>2. x = t[i - 1]
      BY <1>2, <2>1, <3>1
    <3> QED BY <1>2, <3>1, <3>2, ElementsOf
  <2> QED BY <2>2, <2>3
<1> QED BY <1>2, <1>3, <1>4, <1>5 DEF t

LEMMA BothParts ==
    ASSUME NEW S, NEW s \in Seq(S), NEW t \in Seq(S)
    PROVE  s \o t \in Seq(S) /\ ToSet(s \o t) = ToSet(s) \union ToSet(t)
<1> DEFINE u == s \o t
<1>1. /\ u \in Seq(S) /\ Len(u) = Len(s) + Len(t) /\ Len(s) \in Nat /\ Len(t) \in Nat
      /\ \A i \in 1 .. Len(s) : u[i] = s[i]
      /\ \A i \in 1 .. Len(t) : u[Len(s) + i] = t[i]
  OBVIOUS
<1> HIDE DEF u
<1>2. \A x \in ToSet(u) : x \in ToSet(s) \/ x \in ToSet(t)
  <2> TAKE x \in ToSet(u)
  <2>1. PICK i \in 1 .. Len(u) : x = u[i]
    BY <1>1, ElementsOf
  <2>2. CASE i <= Len(s)
    <3>1. i \in 1 .. Len(s)
      BY <1>1, <2>2
    <3> QED BY <1>1, <2>1, <3>1, ElementsOf
  <2>3. CASE ~(i <= Len(s))
    <3>1. i - Len(s) \in 1 .. Len(t) /\ Len(s) + (i - Len(s)) = i
      BY <1>1, <2>3
    <3>2. x = t[i - Len(s)]
      BY <1>1, <2>1, <3>1
    <3> QED BY <3>1, <3>2, ElementsOf
  <2> QED BY <2>2, <2>3
<1>3. \A x \in ToSet(s) : x \in ToSet(u)
  <2> TAKE x \in ToSet(s)
  <2>1. PICK i \in 1 .. Len(s) : x = s[i]
    BY ElementsOf
  <2>2. i \in 1 .. Len(u) /\ x = u[i]
    BY <1>1, <2>1
  <2> QED BY <1>1, <2>2, ElementsOf
<1>4. \A x \in ToSet(t) : x \in ToSet(u)
  <2> TAKE x \in ToSet(t)
  <2>1. PICK i \in 1 .. Len(t) : x = t[i]
    BY ElementsOf
  <2>2. Len(s) + i \in 1 .. Len(u) /\ x = u[Len(s) + i]
    BY <1>1, <2>1
  <2> QED BY <1>1, <2>2, ElementsOf
<1> QED BY <1>1, <1>2, <1>3, <1>4 DEF u

\* What is sent up to n and what is left.
LEMMA CutInTwo ==
    ASSUME NEW S, NEW s \in Seq(S), NEW n \in 0 .. Len(s)
    PROVE  /\ SubSeq(s, 1, n) \in Seq(S) /\ SubSeq(s, n + 1, Len(s)) \in Seq(S)
           /\ ToSet(s) = ToSet(SubSeq(s, 1, n)) \union ToSet(SubSeq(s, n + 1, Len(s)))
           /\ \A x \in ToSet(SubSeq(s, n + 1, Len(s))) : \E i \in n + 1 .. Len(s) : x = s[i]
<1> DEFINE a == SubSeq(s, 1, n)
           b == SubSeq(s, n + 1, Len(s))
<1>1. Len(s) \in Nat /\ n \in Nat /\ n <= Len(s)
  OBVIOUS
<1>2. a \in Seq(S) /\ Len(a) = n /\ \A i \in 1 .. n : a[i] = s[i]
  BY <1>1
<1>3. b \in Seq(S) /\ Len(b) = Len(s) - n /\ \A i \in 1 .. (Len(s) - n) : b[i] = s[n + i]
  <2>1. \A i \in n + 1 .. Len(s) : s[i] \in S
    BY <1>1
  <2>2. Len(b) = Len(s) - n /\ \A i \in 1 .. (Len(s) - n) : b[i] = s[n + i]
    BY <1>1
  <2>3. b \in Seq(S)
    BY <1>1, <2>1
  <2> QED BY <2>2, <2>3
<1> HIDE DEF a, b
<1>4. \A x \in ToSet(b) : \E i \in n + 1 .. Len(s) : x = s[i]
  <2> TAKE x \in ToSet(b)
  <2>1. PICK i \in 1 .. Len(b) : x = b[i]
    BY <1>3, ElementsOf
  <2>2. n + i \in n + 1 .. Len(s) /\ x = s[n + i]
    BY <1>1, <1>3, <2>1
  <2> QED BY <2>2
<1>5. \A x \in ToSet(a) : x \in ToSet(s)
  <2> TAKE x \in ToSet(a)
  <2>1. PICK i \in 1 .. Len(a) : x = a[i]
    BY <1>2, ElementsOf
  <2>2. i \in 1 .. Len(s) /\ x = s[i]
    BY <1>1, <1>2, <2>1
  <2> QED BY <2>2, ElementsOf
<1>6. \A x \in ToSet(b) : x \in ToSet(s)
  <2> TAKE x \in ToSet(b)
  <2>1. PICK i \in n + 1 .. Len(s) : x = s[i]
    BY <1>4
  <2>2. i \in 1 .. Len(s)
    BY <1>1
  <2> QED BY <2>1, <2>2, ElementsOf
<1>7. \A x \in ToSet(s) : x \in ToSet(a) \/ x \in ToSet(b)
  <2> TAKE x \in ToSet(s)
  <2>1. PICK i \in 1 .. Len(s) : x = s[i]
    BY ElementsOf
  <2>2. CASE i <= n
    <3>1. i \in 1 .. Len(a) /\ x = a[i]
      BY <1>1, <1>2, <2>1, <2>2
    <3> QED BY <1>2, <3>1, ElementsOf
  <2>3. CASE ~(i <= n)
    <3>1. i - n \in 1 .. Len(b) /\ n + (i - n) = i
      BY <1>1, <1>3, <2>3
    <3>2. x = b[i - n]
      BY <1>3, <2>1, <3>1
    <3> QED BY <1>3, <3>1, <3>2, ElementsOf
  <2> QED BY <2>2, <2>3
<1> QED BY <1>2, <1>3, <1>4, <1>5, <1>6, <1>7 DEF a, b
-----------------------------------------------------------------------------
(* What is collected and what is kept of it.                               *)

\* Only goes through the changes one by one.
LEMMA OnlySteps ==
    ASSUME NEW S, NEW s \in Seq(S), NEW kept
    PROVE  \E f \in [0 .. Len(s) -> Seq(S)] :
               /\ Only(s, kept) = f[Len(s)] /\ f[0] = <<>>
               /\ \A n \in 1 .. Len(s) :
                      f[n] = IF s[n] \in kept THEN Append(f[n - 1], s[n]) ELSE f[n - 1]
<1> DEFINE N == Len(s)
           X == Seq(S)
           Next1(x, n) == IF s[n] \in kept THEN Append(x, s[n]) ELSE x
           step == [p \in X \X (1 .. N) |-> Next1(p[1], p[2])]
<1>1. N \in Nat /\ <<>> \in X /\ \A n \in 1 .. N : s[n] \in S
  BY ElementsOf
<1>2. \A x \in X, n \in 1 .. N : Next1(x, n) \in X
  BY <1>1, AppendAdds
<1>3. \A x \in X, n \in 1 .. N : step[<<x, n>>] = Next1(x, n)
  <2> HIDE DEF Next1, X, N
  <2> QED OBVIOUS
<1> HIDE DEF step
<1>4. StaysIn(X, step, N)
  <2> HIDE DEF X, N, Next1
  <2> QED BY <1>2, <1>3 DEF StaysIn
<1>5. PICK f \in [0 .. N -> X] : f[0] = <<>> /\ \A n \in 1 .. N : f[n] = step[<<f[n - 1], n>>]
  <2> HIDE DEF X, N, Next1
  <2>1. N \in Nat /\ <<>> \in X
    BY <1>1
  <2>2. \E f \in [0 .. N -> X] : Iterates(f, step, <<>>, N)
    BY <1>4, <2>1, IterationExists
  <2> QED BY <2>2 DEF Iterates
<1>6. \A n \in 1 .. N : f[n - 1] \in X /\ f[n] = Next1(f[n - 1], n)
  <2> TAKE n \in 1 .. N
  <2>1. n - 1 \in 0 .. N
    BY <1>1
  <2>2. f[n - 1] \in X
    BY <1>5, <2>1
  <2> QED BY <1>3, <1>5, <2>2
<1> DEFINE Is(g) == g = [n \in 0 .. Len(s) |->
                            IF n = 0 THEN <<>> ELSE Next1(g[n - 1], n)]
           h == CHOOSE g : Is(g)
<1>7. Is(f)
  <2>1. \A n \in 0 .. N : n # 0 => n \in 1 .. N
    BY <1>1
  <2> QED BY <1>5, <1>6, <2>1
<1>8. Is(h)
  <2> HIDE DEF Is
  <2> QED BY <1>7
<1>9. Only(s, kept) = h[N]
  BY DEF Only
<1> HIDE DEF h
<1>10. h[0] = f[0] /\ \A n \in 1 .. N : h[n] = Next1(h[n - 1], n)
  <2>1. h = [n \in 0 .. N |-> IF n = 0 THEN <<>> ELSE Next1(h[n - 1], n)]
    BY <1>8
  <2>2. N \in Nat
    BY <1>1
  <2> HIDE DEF Is, N, X, Next1
  <2>3. h[0] = <<>>
    BY <2>1, <2>2
  <2>4. \A n \in 1 .. N : h[n] = Next1(h[n - 1], n)
    BY <2>1, <2>2
  <2> QED BY <1>5, <2>3, <2>4
<1>11. Along(h, f, N)
  BY <1>6, <1>10 DEF Along
<1>12. h[N] = f[N]
  <2> HIDE DEF Is, N, X, Next1
  <2> QED BY <1>1, <1>11, IterationIsOne
<1> QED BY <1>5, <1>6, <1>9, <1>12

\* Only keeps what it says, and nothing else.
LEMMA OnlyIs ==
    ASSUME NEW S, NEW s \in Seq(S), NEW kept
    PROVE  /\ Only(s, kept) \in Seq(S)
           /\ \A x : x \in ToSet(Only(s, kept)) <=> x \in ToSet(s) /\ x \in kept
<1> DEFINE N == Len(s)
<1>1. PICK f \in [0 .. N -> Seq(S)] :
          /\ Only(s, kept) = f[N] /\ f[0] = <<>>
          /\ \A n \in 1 .. N : f[n] = IF s[n] \in kept THEN Append(f[n - 1], s[n]) ELSE f[n - 1]
  BY OnlySteps
<1>2. N \in Nat /\ \A n \in 1 .. N : s[n] \in S
  BY ElementsOf
<1> HIDE DEF N
<1> DEFINE A == {n \in 0 .. N :
                    \A x : x \in ToSet(f[n]) <=> \E i \in 1 .. n : x = s[i] /\ x \in kept}
<1>3. 0 \in A
  <2>1. ToSet(f[0]) = {} /\ 1 .. 0 = {} /\ 0 \in 0 .. N
    BY <1>1, <1>2, EmptyHasNone
  <2> QED BY <2>1
<1>4. ASSUME NEW n \in 1 .. N, n - 1 \in A PROVE n \in A
  <2>1. n - 1 \in 0 .. N /\ n \in 0 .. N /\ s[n] \in S /\ f[n - 1] \in Seq(S)
    BY <1>1, <1>2
  <2>2. \A x : x \in ToSet(f[n - 1]) <=> \E i \in 1 .. (n - 1) : x = s[i] /\ x \in kept
    BY <1>4
  <2>3. \A i : i \in 1 .. n <=> i \in 1 .. (n - 1) \/ i = n
    BY <1>2
  <2> HIDE DEF A
  <2>4. CASE s[n] \in kept
    <3>1. ToSet(f[n]) = ToSet(f[n - 1]) \union {s[n]}
      BY <1>1, <2>1, <2>4, AppendAdds
    <3>2. \A x : x \in ToSet(f[n]) <=> \E i \in 1 .. n : x = s[i] /\ x \in kept
      BY <2>2, <2>3, <2>4, <3>1
    <3> QED BY <2>1, <3>2 DEF A
  <2>5. CASE s[n] \notin kept
    <3>1. f[n] = f[n - 1]
      BY <1>1, <2>5
    <3>2. \A x : x \in ToSet(f[n]) <=> \E i \in 1 .. n : x = s[i] /\ x \in kept
      BY <2>2, <2>3, <2>5, <3>1
    <3> QED BY <2>1, <3>2 DEF A
  <2> QED BY <2>4, <2>5
<1>5. N \in A
  <2> HIDE DEF A
  <2>1. \A n \in 0 .. N : n \in A
    BY <1>2, <1>3, <1>4, UpTo
  <2> QED BY <1>2, <2>1
<1>6. \A x : x \in ToSet(f[N]) <=> x \in ToSet(s) /\ x \in kept
  <2>1. \A x : x \in ToSet(s) <=> \E i \in 1 .. N : x = s[i]
    BY ElementsOf DEF N
  <2>2. \A x : x \in ToSet(f[N]) <=> \E i \in 1 .. N : x = s[i] /\ x \in kept
    BY <1>5
  <2> QED BY <2>1, <2>2
<1>7. N \in 0 .. N
  BY <1>2
<1> QED BY <1>1, <1>6, <1>7

\* Collecting an event adds it or drops it, and loses no final state.
LEMMA CollectIs ==
    ASSUME NEW c \in Seq(Event), NEW e \in Event
    PROVE  /\ Collect(c, e) \in Seq(Event)
           /\ ToSet(Collect(c, e)) \subseteq ToSet(c) \union {e}
           /\ \A x \in ToSet(c) \union {e} : x.kind = "final" => x \in ToSet(Collect(c, e))
<1> DEFINE lasting == {x \in ToSet(c) : Outlasts(x, e)}
           rest == Only(c, lasting)
<1>1. \A x \in ToSet(c) : x.kind = "final" => x \in lasting
  BY DEF Outlasts
<1>2. rest \in Seq(Event) /\ \A x : x \in ToSet(rest) <=> x \in ToSet(c) /\ x \in lasting
  <2> HIDE DEF lasting
  <2> QED BY OnlyIs
<1> HIDE DEF lasting
<1>3. Collect(c, e) = IF e.kind = "restarted" THEN rest ELSE Append(rest, e)
  BY DEF Collect, lasting
<1> HIDE DEF rest
<1>4. Append(rest, e) \in Seq(Event) /\ ToSet(Append(rest, e)) = ToSet(rest) \union {e}
  BY <1>2, AppendAdds
<1>5. CASE e.kind = "restarted"
  BY <1>1, <1>2, <1>3, <1>5
<1>6. CASE e.kind # "restarted"
  BY <1>1, <1>2, <1>3, <1>4, <1>6
<1> QED BY <1>5, <1>6

\* CollectAll goes through the queue one by one.
LEMMA CollectAllSteps ==
    ASSUME NEW c \in Seq(Event), NEW q \in Seq(Event)
    PROVE  \E f \in [0 .. Len(q) -> Seq(Event)] :
               /\ CollectAll(c, q) = f[Len(q)] /\ f[0] = c
               /\ \A n \in 1 .. Len(q) : f[n] = Collect(f[n - 1], q[n])
<1> DEFINE N == Len(q)
           X == Seq(Event)
           step == [p \in X \X (1 .. N) |-> Collect(p[1], q[p[2]])]
<1>1. N \in Nat /\ c \in X /\ \A n \in 1 .. N : q[n] \in Event
  BY ElementsOf
<1>2. \A x \in X, n \in 1 .. N : step[<<x, n>>] = Collect(x, q[n])
  <2> HIDE DEF X, N
  <2> QED OBVIOUS
<1> HIDE DEF step
<1>3. StaysIn(X, step, N)
  BY <1>1, <1>2, CollectIs DEF StaysIn
<1>4. PICK f \in [0 .. N -> X] : f[0] = c /\ \A n \in 1 .. N : f[n] = step[<<f[n - 1], n>>]
  <2> HIDE DEF X, N
  <2>1. N \in Nat /\ c \in X
    BY <1>1
  <2>2. \E f \in [0 .. N -> X] : Iterates(f, step, c, N)
    BY <1>3, <2>1, IterationExists
  <2> QED BY <2>2 DEF Iterates
<1>5. \A n \in 1 .. N : f[n - 1] \in X /\ f[n] = Collect(f[n - 1], q[n])
  <2> TAKE n \in 1 .. N
  <2>1. n - 1 \in 0 .. N
    BY <1>1
  <2>2. f[n - 1] \in X
    BY <1>4, <2>1
  <2> QED BY <1>2, <1>4, <2>2
<1> DEFINE Is(g) == g = [n \in 0 .. Len(q) |-> IF n = 0 THEN c ELSE Collect(g[n - 1], q[n])]
           h == CHOOSE g : Is(g)
<1>6. Is(f)
  <2>1. \A n \in 0 .. N : n # 0 => n \in 1 .. N
    BY <1>1
  <2> QED BY <1>4, <1>5, <2>1
<1>7. Is(h)
  <2> HIDE DEF Is
  <2> QED BY <1>6
<1>8. CollectAll(c, q) = h[N]
  BY DEF CollectAll
<1> HIDE DEF h
<1>9. h[0] = f[0] /\ \A n \in 1 .. N : h[n] = Collect(h[n - 1], q[n])
  BY <1>1, <1>4, <1>7
<1>10. Along(h, f, N)
  BY <1>5, <1>9 DEF Along
<1>11. h[N] = f[N]
  <2> HIDE DEF Is, N, X
  <2> QED BY <1>1, <1>10, IterationIsOne
<1> QED BY <1>4, <1>5, <1>8, <1>11

LEMMA CollectAllIs ==
    ASSUME NEW c \in Seq(Event), NEW q \in Seq(Event)
    PROVE  /\ CollectAll(c, q) \in Seq(Event)
           /\ ToSet(CollectAll(c, q)) \subseteq ToSet(c) \union ToSet(q)
           /\ \A x \in ToSet(c) \union ToSet(q) :
                  x.kind = "final" => x \in ToSet(CollectAll(c, q))
<1> DEFINE N == Len(q)
<1>1. PICK f \in [0 .. N -> Seq(Event)] :
          /\ CollectAll(c, q) = f[N] /\ f[0] = c
          /\ \A n \in 1 .. N : f[n] = Collect(f[n - 1], q[n])
  BY CollectAllSteps
<1>2. N \in Nat /\ \A n \in 1 .. N : q[n] \in Event /\ q[n] \in ToSet(q)
  BY ElementsOf
<1>3. \A x \in ToSet(q) : \E i \in 1 .. N : x = q[i]
  BY ElementsOf
<1> HIDE DEF N
<1> DEFINE A == {n \in 0 .. N :
                    /\ ToSet(f[n]) \subseteq ToSet(c) \union ToSet(q)
                    /\ \A x \in ToSet(c) : x.kind = "final" => x \in ToSet(f[n])
                    /\ \A i \in 1 .. n : q[i].kind = "final" => q[i] \in ToSet(f[n])}
<1>4. 0 \in A
  <2>1. 0 \in 0 .. N /\ 1 .. 0 = {}
    BY <1>2
  <2> QED BY <1>1, <2>1
<1>5. ASSUME NEW n \in 1 .. N, n - 1 \in A PROVE n \in A
  <2>1. n - 1 \in 0 .. N /\ n \in 0 .. N /\ q[n] \in Event /\ f[n - 1] \in Seq(Event)
        /\ q[n] \in ToSet(q)
    BY <1>1, <1>2
  <2>2. /\ ToSet(f[n - 1]) \subseteq ToSet(c) \union ToSet(q)
        /\ \A x \in ToSet(c) : x.kind = "final" => x \in ToSet(f[n - 1])
        /\ \A i \in 1 .. (n - 1) : q[i].kind = "final" => q[i] \in ToSet(f[n - 1])
    BY <1>5
  <2>3. \A i \in 1 .. n : i \in 1 .. (n - 1) \/ i = n
    BY <1>2
  <2> HIDE DEF A
  <2>4. /\ ToSet(f[n]) \subseteq ToSet(f[n - 1]) \union {q[n]}
        /\ \A x \in ToSet(f[n - 1]) \union {q[n]} : x.kind = "final" => x \in ToSet(f[n])
    BY <1>1, <2>1, CollectIs
  <2>5. ToSet(f[n]) \subseteq ToSet(c) \union ToSet(q)
    BY <2>1, <2>2, <2>4
  <2>6. \A x \in ToSet(c) : x.kind = "final" => x \in ToSet(f[n])
    BY <2>2, <2>4
  <2>7. \A i \in 1 .. n : q[i].kind = "final" => q[i] \in ToSet(f[n])
    BY <2>2, <2>3, <2>4
  <2> QED BY <2>1, <2>5, <2>6, <2>7 DEF A
<1>6. N \in A
  <2> HIDE DEF A
  <2>1. \A n \in 0 .. N : n \in A
    BY <1>2, <1>4, <1>5, UpTo
  <2> QED BY <1>2, <2>1
<1>7. N \in 0 .. N
  BY <1>2
<1>8. f[N] \in Seq(Event)
  BY <1>1, <1>7
<1>9. \A x \in ToSet(q) : x.kind = "final" => x \in ToSet(f[N])
  BY <1>3, <1>6
<1> QED BY <1>1, <1>6, <1>8, <1>9

\* A report takes the place of an earlier one at most, which is not a final state.
LEMMA CoalescedIs ==
    ASSUME NEW q \in Seq(Event), NEW e \in Event
    PROVE  /\ Coalesced(q, e) \in Seq(Event)
           /\ ToSet(Coalesced(q, e)) \subseteq ToSet(q) \union {e}
           /\ \A x \in ToSet(q) : x.kind = "final" => x \in ToSet(Coalesced(q, e))
<1> DEFINE same == {i \in DOMAIN q :
                       /\ <<q[i].kind, q[i].project, q[i].device>> = <<e.kind, e.project, e.device>>
                       /\ \A j \in i .. Len(q) : q[j].kind # "final"}
           k == CHOOSE i \in same : TRUE
           t == [q EXCEPT ![k] = e]
<1>1. Coalesced(q, e) = IF same = {} THEN Append(q, e) ELSE t
  BY DEF Coalesced
<1>2. DOMAIN q = 1 .. Len(q) /\ Len(q) \in Nat
  OBVIOUS
<1>3. \A i \in same : i \in 1 .. Len(q) /\ q[i].kind # "final"
  BY <1>2
<1> HIDE DEF same
<1>4. CASE same = {}
  BY <1>1, <1>4, AppendAdds
<1>5. CASE same # {}
  <2>1. k \in 1 .. Len(q) /\ q[k].kind # "final"
    BY <1>3, <1>5
  <2> HIDE DEF k
  <2>2. t \in Seq(Event) /\ Len(t) = Len(q) /\ t[k] = e /\ \A i \in 1 .. Len(q) : i # k => t[i] = q[i]
    BY <1>2, <2>1
  <2> HIDE DEF t
  <2>3. \A x \in ToSet(t) : x \in ToSet(q) \/ x = e
    <3> TAKE x \in ToSet(t)
    <3>1. PICK i \in 1 .. Len(t) : x = t[i]
      BY <2>2, ElementsOf
    <3> QED BY <2>2, <3>1, ElementsOf
  <2>4. \A x \in ToSet(q) : x.kind = "final" => x \in ToSet(t)
    <3> TAKE x \in ToSet(q)
    <3>1. PICK i \in 1 .. Len(q) : x = q[i]
      BY ElementsOf
    <3>2. CASE i = k
      BY <2>1, <3>1, <3>2
    <3>3. CASE i # k
      <4>1. i \in 1 .. Len(t) /\ x = t[i]
        BY <2>2, <3>1, <3>3
      <4> QED BY <2>2, <4>1, ElementsOf
    <3> QED BY <3>2, <3>3
  <2> QED BY <1>1, <1>5, <2>2, <2>3, <2>4
<1> QED BY <1>4, <1>5
\* Waiting for the last final state that was sent leaves none behind.
Barrier(s) ==
    LET finals == {i \in DOMAIN s : s[i].kind = "final"}
    IN  IF finals = {} THEN 0 ELSE CHOOSE i \in finals : \A j \in finals : j <= i

LEMMA BarrierIs ==
    ASSUME NEW s \in Seq(Event)
    PROVE  Barrier(s) \in 0 .. Len(s) /\ \A i \in Barrier(s) + 1 .. Len(s) : s[i].kind # "final"
<1> DEFINE N == Len(s)
           b == Barrier(s)
           finals == {i \in DOMAIN s : s[i].kind = "final"}
           Latest(i) == \A j \in finals : j <= i
           A == {n \in 0 .. N : \/ \A j \in finals : j > n
                                \/ \E i \in finals : \A j \in finals : j <= n => j <= i}
<1>1. N \in Nat /\ finals \subseteq 1 .. N /\ \A i \in 1 .. N : s[i].kind = "final" => i \in finals
  OBVIOUS
<1>7. b = IF finals = {} THEN 0 ELSE CHOOSE i \in finals : Latest(i)
  BY DEF Barrier
<1> HIDE DEF N, b, finals
<1>2. 0 \in A
  <2>1. 0 \in 0 .. N /\ \A j \in finals : j > 0
    BY <1>1
  <2> QED BY <2>1
<1>3. ASSUME NEW n \in 1 .. N, n - 1 \in A PROVE n \in A
  <2>1. n \in 0 .. N /\ \A j \in finals : j \in Nat /\ (j <= n => j = n \/ j <= n - 1)
    <3>1. n \in 1 .. N /\ N \in Nat /\ \A j \in finals : j \in Nat
      BY <1>1
    <3> QED BY <3>1
  <2>2. CASE n \in finals
    <3>1. \A j \in finals : j <= n => j <= n
      OBVIOUS
    <3> QED BY <2>1, <2>2, <3>1
  <2>3. CASE n \notin finals
    <3>1. CASE \A j \in finals : j > n - 1
      <4>1. \A j \in finals : j > n
        BY <2>1, <2>3, <3>1
      <4> QED BY <2>1, <4>1
    <3>2. CASE \E i \in finals : \A j \in finals : j <= n - 1 => j <= i
      <4>1. PICK i \in finals : \A j \in finals : j <= n - 1 => j <= i
        BY <3>2
      <4>2. \A j \in finals : j <= n => j <= i
        BY <2>1, <2>3, <4>1
      <4> QED BY <2>1, <4>2
    <3> QED BY <1>3, <3>1, <3>2
  <2> QED BY <2>2, <2>3
<1>4. N \in A
  <2> HIDE DEF A
  <2>1. \A n \in 0 .. N : n \in A
    BY <1>1, <1>2, <1>3, UpTo
  <2> QED BY <1>1, <2>1
<1>5. CASE finals = {}
  <2>1. b = 0
    BY <1>5, <1>7
  <2>2. \A i \in 1 .. N : s[i].kind # "final"
    BY <1>1, <1>5
  <2> QED BY <1>1, <2>1, <2>2 DEF N, b
<1>6. CASE finals # {}
  <2>1. \E i \in finals : Latest(i)
    <3>1. \A j \in finals : j \in Nat /\ j <= N /\ ~(j > N)
      BY <1>1
    <3>2. PICK i \in finals : \A j \in finals : j <= N => j <= i
      BY <1>4, <1>6, <3>1
    <3> QED BY <3>1, <3>2
  <2>2. b \in finals /\ \A j \in finals : j <= b
    <3>1. b \in finals /\ Latest(b)
      <4> HIDE DEF Latest
      <4> QED BY <1>6, <1>7, <2>1
    <3> QED BY <3>1
  <2>3. \A i \in b + 1 .. N : i \in 1 .. N /\ i \notin finals
    BY <1>1, <2>2
  <2>4. b \in 0 .. N /\ \A i \in b + 1 .. N : s[i].kind # "final"
    BY <1>1, <2>2, <2>3
  <2> QED BY <2>4 DEF N, b
<1> QED BY <1>5, <1>6

\* The state of an editor that closes.
LEMMA FinalIs ==
    ASSUME DataTypes, editor # None, graph # None
    PROVE  /\ FinalOf(editor) \in Event
           /\ FinalOf(editor).kind = "final" /\ FinalOf(editor).id = events + 1
           /\ FinalOf(editor).project = editor.project
BY DEF DataTypes, FinalOf, Event, Kinds, Editor, Rack, Runtime

\* What an open editor says when it closes, which is nothing without one.
Closing == IF editor = None THEN {} ELSE {FinalOf(editor)}

LEMMA ClosingIs ==
    ASSUME DataTypes, graph # None
    PROVE  \A e \in Closing : /\ e \in Event /\ e.kind = "final" /\ e.id = events + 1
                              /\ e.project = editor.project /\ editor # None
BY FinalIs DEF Closing

\* Closing the editor brings every final state to the worker.
LEMMA ClosesEditorIs ==
    ASSUME DataTypes, QueueTypes, ClosesEditor
    PROVE  /\ graph # None /\ channel' \in Seq(Event) /\ wire' \in Seq(Event)
           /\ ToSet(channel') \union ToSet(wire') = ToSet(channel) \union ToSet(wire) \union Closing
           /\ ToSet(channel) \subseteq ToSet(channel')
           /\ \A e \in ToSet(wire') : e.kind # "final"
           /\ owed' = owed \union Closing
           /\ editor' = None /\ graph' = graph
           /\ IF editor = None THEN events' = events ELSE events' = events + 1
<1>1. graph # None /\ editor' = None /\ graph' = graph
      /\ IF editor = None THEN events' = events /\ owed' = owed
         ELSE events' = events + 1 /\ owed' = owed \union {FinalOf(editor)}
  BY DEF ClosesEditor, IsUp
<1> DEFINE sent == IF editor = None THEN wire ELSE Append(wire, FinalOf(editor))
           barrier == Barrier(sent)
           first == SubSeq(sent, 1, barrier)
<1>2. channel' = channel \o first /\ wire' = SubSeq(sent, barrier + 1, Len(sent))
  BY DEF ClosesEditor, Barrier
<1>3. sent \in Seq(Event) /\ ToSet(sent) = ToSet(wire) \union Closing
  <2>1. wire \in Seq(Event)
    BY DEF QueueTypes
  <2>2. CASE editor = None
    BY <2>1, <2>2 DEF Closing
  <2>3. CASE editor # None
    <3>1. FinalOf(editor) \in Event
      BY <1>1, <2>3, FinalIs
    <3> QED BY <2>1, <2>3, <3>1, AppendAdds DEF Closing
  <2> QED BY <2>2, <2>3
<1> HIDE DEF sent
<1>4. barrier \in 0 .. Len(sent) /\ \A i \in barrier + 1 .. Len(sent) : sent[i].kind # "final"
  BY <1>3, BarrierIs
<1> HIDE DEF barrier
<1>5. /\ first \in Seq(Event) /\ wire' \in Seq(Event)
      /\ ToSet(sent) = ToSet(first) \union ToSet(wire')
      /\ \A e \in ToSet(wire') : \E i \in barrier + 1 .. Len(sent) : e = sent[i]
  BY <1>2, <1>3, <1>4, CutInTwo
<1> HIDE DEF first
<1>6. channel' \in Seq(Event) /\ ToSet(channel') = ToSet(channel) \union ToSet(first)
  <2>1. channel \in Seq(Event) /\ first \in Seq(Event)
    BY <1>5 DEF QueueTypes
  <2> QED BY <1>2, <2>1, BothParts
<1>7. \A e \in ToSet(wire') : e.kind # "final"
  BY <1>4, <1>5
<1>8. owed' = owed \union Closing
  BY <1>1 DEF Closing
<1> QED BY <1>1, <1>3, <1>5, <1>6, <1>7, <1>8
-----------------------------------------------------------------------------
(* Types.                                                                  *)

LEMMA RacksTyped ==
    ASSUME NEW slots \in [Device -> Slot], NEW before \in [Device -> Rack \union {None}]
    PROVE  RacksFor(slots, before) \in [Device -> Rack \union {None}]
<1>1. \A d \in Device : before[d] \in Rack \union {None}
  OBVIOUS
<1>2. \A d \in Device : slots[d].version \in Nat /\ (slots[d].plugin # None => slots[d].plugin \in Plugin)
  BY DEF Slot
<1> QED BY <1>1, <1>2 DEF RacksFor, Rack

LEMMA NoRacksTyped == NoRacks \in [Device -> Rack \union {None}]
BY DEF NoRacks

LEMMA SnapshotTyped ==
    ASSUME NEW sessions \in [Project -> Record], NEW p \in Project
    PROVE  /\ Snapshot(p, sessions) \in Graph
           /\ Snapshot(p, sessions).project = p
           /\ Snapshot(p, sessions).slots = sessions[p].slots
           /\ Snapshot(p, sessions).revision = sessions[p].revision
           /\ sessions[p].slots \in [Device -> Slot] /\ sessions[p].revision \in Nat
BY DEF Snapshot, Graph, Record

LEMMA WithSlotTyped ==
    ASSUME DataTypes, NEW d, NEW s, d \in Device => s \in Slot
    PROVE  WithSlot(d, s) \in [Project -> Record]
<1> DEFINE slots == [project[open].slots EXCEPT ![d] = s]
           record == [slots |-> slots, revision |-> project[open].revision + 1]
<1>1. project[open].slots \in [Device -> Slot] /\ project[open].revision \in Nat
  BY DEF DataTypes, Record
<1>2. slots \in [Device -> Slot]
  BY <1>1
<1>3. record \in Record
  <2> HIDE DEF slots
  <2> QED BY <1>1, <1>2 DEF Record
<1>4. WithSlot(d, s) = [project EXCEPT ![open] = record]
  BY DEF WithSlot
<1> HIDE DEF record
<1> QED BY <1>3, <1>4 DEF DataTypes

\* What a change makes of the Session.
LEMMA AppliesTyped ==
    ASSUME DataTypes, NEW e \in Event, NEW tell \in BOOLEAN, Applies(e, tell)
    PROVE  project' \in [Project -> Record] /\ target' \in Graph /\ owed' = owed \ {e}
<1>1. CASE Settles(e)
  BY <1>1 DEF Applies, Settles, DataTypes
<1>2. CASE Commits(e, tell)
  <2> DEFINE s == [SlotOf(e) EXCEPT !.version = Captured(e)]
  <2>1. ASSUME e.device \in Device PROVE s \in Slot
    <3>1. SlotOf(e) \in Slot
      BY <2>1 DEF SlotOf, DataTypes, Record
    <3>2. Captured(e) \in Nat
      <4>1. CASE AsksRuntime(e)
        <5>1. graph # None /\ graph.racks[e.device] # None
          BY <1>2, <4>1 DEF Commits, IsApplicable, Answers, IsUp
        <5>2. graph.racks[e.device] \in Rack
          BY <2>1, <5>1 DEF DataTypes, Runtime
        <5> QED BY <4>1, <5>2 DEF Captured, Rack
      <4>2. CASE ~AsksRuntime(e)
        BY <4>2 DEF Captured, Event
      <4> QED BY <4>1, <4>2
    <3> HIDE DEF SlotOf, Captured
    <3> QED BY <3>1, <3>2 DEF Slot
  <2> HIDE DEF s
  <2>2. project' = WithSlot(e.device, s)
    BY <1>2 DEF Commits, s
  <2>3. project' \in [Project -> Record]
    BY <2>1, <2>2, WithSlotTyped
  <2>4. target' \in Graph
    BY <1>2, <2>3, SnapshotTyped DEF Commits, DataTypes
  <2> QED BY <2>3, <2>4 DEF Applies
<1> QED BY <1>1, <1>2 DEF Applies

LEMMA FailsTyped ==
    ASSUME DataTypes, NEW e, Fails(e)
    PROVE  project' \in [Project -> Record] /\ target' \in Graph /\ owed' = owed
BY DEF Fails, DataTypes

\* The head of a queue.
LEMMA HeadTyped ==
    ASSUME NEW s \in Seq(Event), s # <<>>
    PROVE  Head(s) \in Event /\ Tail(s) \in Seq(Event)
BY HeadAndTail

LEMMA UserEditsTyped ==
    ASSUME DataTypes, UserEdits
    PROVE  graph' \in Runtime /\ editor' \in Editor
<1>1. graph # None /\ editor # None /\ editor \in Editor /\ graph \in Runtime /\ versions \in Nat
  BY DEF UserEdits, IsUp, DataTypes
<1> DEFINE rack == [editor.rack EXCEPT !.version = versions + 1, !.by = editor.project]
<1>2. rack \in Rack
  <2>1. editor.rack \in Rack /\ editor.project \in Project /\ versions + 1 \in Nat
    BY <1>1 DEF Editor
  <2> QED BY <2>1 DEF Rack
<1>3. editor' = [editor EXCEPT !.rack = rack, !.dirty = TRUE]
      /\ graph' = IF editor.displaced THEN graph ELSE [graph EXCEPT !.racks[editor.device] = rack]
  BY DEF UserEdits
<1> HIDE DEF rack
<1>4. editor' \in Editor
  BY <1>1, <1>2, <1>3 DEF Editor
<1>5. graph' \in Runtime
  BY <1>1, <1>2, <1>3 DEF Runtime, Editor
<1> QED BY <1>4, <1>5

LEMMA GraphCommitsTyped ==
    ASSUME DataTypes, GraphCommits
    PROVE  graph' \in Runtime
<1> DEFINE racks == RacksFor(target.slots, graph.racks)
<1>1. graph # None /\ graph \in Runtime /\ target \in Graph
  BY DEF GraphCommits, IsUp, DataTypes
<1>2. racks \in [Device -> Rack \union {None}]
  BY <1>1, RacksTyped DEF Graph, Runtime
<1>3. graph' = [project |-> target.project, revision |-> target.revision,
                slots |-> target.slots, racks |-> racks]
  BY DEF GraphCommits
<1> HIDE DEF racks
<1> QED BY <1>1, <1>2, <1>3 DEF Graph, Runtime

LEMMA DataTypesStep ==
    ASSUME Types, Next
    PROVE  DataTypes'
<1>0. DataTypes /\ QueueTypes /\ SwitchTypes
  BY DEF Types
<1>1. CASE UserEdits
  <2>1. graph' \in Runtime /\ editor' \in Editor
    BY <1>0, <1>1, UserEditsTyped
  <2>2. versions' = versions + 1 /\ UNCHANGED <<project, open, target, events>>
    BY <1>1 DEF UserEdits, host
  <2> QED BY <1>0, <2>1, <2>2 DEF DataTypes
<1>2. CASE Reports
  <2>1. editor # None /\ editor \in Editor /\ events' = events + 1 /\ editor' = [editor EXCEPT !.dirty = FALSE]
        /\ UNCHANGED <<project, open, target, graph, versions>>
    BY <1>0, <1>2 DEF Reports, DataTypes, host
  <2>2. editor' \in Editor
    BY <2>1 DEF Editor
  <2> QED BY <1>0, <2>1, <2>2 DEF DataTypes
<1>3. CASE EditorCloses
  BY <1>0, <1>3 DEF EditorCloses, DataTypes, host
<1>4. CASE GraphCommits
  <2> DEFINE racks == RacksFor(target.slots, graph.racks)
  <2>1. UNCHANGED <<project, open, target, versions, events>>
    BY <1>4 DEF GraphCommits, host, counters
  <2>2. editor' = IF editor = None THEN None
                  ELSE [editor EXCEPT !.displaced = racks[editor.device] # graph.racks[editor.device]]
    BY <1>4 DEF GraphCommits
  <2> HIDE DEF racks
  <2>3. graph' \in Runtime
    BY <1>0, <1>4, GraphCommitsTyped
  <2>4. editor' # None => editor' \in Editor
    BY <1>0, <2>2 DEF Editor, DataTypes
  <2> QED BY <1>0, <2>1, <2>3, <2>4 DEF DataTypes
<1>5. CASE SidecarExits
  BY <1>0, <1>5 DEF SidecarExits, DataTypes, host
<1>6. CASE SidecarRestarts
  <2> DEFINE session == Snapshot(open, project)
  <2>1. project \in [Project -> Record] /\ open \in Project
    BY <1>0 DEF DataTypes
  <2>2. session \in Graph /\ session.slots \in [Device -> Slot] /\ session.revision \in Nat
    BY <2>1, SnapshotTyped
  <2>3. RacksFor(session.slots, NoRacks) \in [Device -> Rack \union {None}]
    BY <2>2, NoRacksTyped, RacksTyped
  <2>4. graph' = [project |-> open, revision |-> session.revision,
                  slots |-> session.slots, racks |-> RacksFor(session.slots, NoRacks)]
        /\ target' = session /\ UNCHANGED <<project, open, editor, versions, events>>
    BY <1>6 DEF SidecarRestarts, counters
  <2> HIDE DEF session
  <2>5. graph' \in Runtime
    BY <2>1, <2>2, <2>3, <2>4 DEF Runtime
  <2> QED BY <1>0, <2>2, <2>4, <2>5 DEF DataTypes
<1>7. CASE HostEdits
  <2>1. PICK d \in Device, plugin \in Plugin \union {None} :
            project' = WithSlot(d, [plugin |-> plugin, version |-> versions + 1])
    BY <1>7 DEF HostEdits
  <2>2. [plugin |-> plugin, version |-> versions + 1] \in Slot
    BY <1>0 DEF Slot, DataTypes
  <2>3. project' \in [Project -> Record]
    BY <1>0, <2>1, <2>2, WithSlotTyped
  <2>4. target' = Snapshot(open, project') /\ versions' = versions + 1
        /\ UNCHANGED <<open, graph, editor, events>>
    BY <1>7 DEF HostEdits, sidecar
  <2>5. target' \in Graph
    BY <1>0, <2>3, <2>4, SnapshotTyped DEF DataTypes
  <2> QED BY <1>0, <2>3, <2>4, <2>5 DEF DataTypes
<1>8. CASE EditorOpens
  <2>1. PICK d \in Device :
            /\ graph.racks[d] # None
            /\ editor' = [project |-> open, device |-> d, rack |-> graph.racks[d],
                          dirty |-> FALSE, displaced |-> FALSE]
    BY <1>8 DEF EditorOpens
  <2>2. graph # None /\ UNCHANGED <<project, open, target, graph, versions>>
        /\ events' \in {events, events + 1}
    BY <1>8 DEF EditorOpens, IsUp, host
  <2>3. graph.racks[d] \in Rack /\ open \in Project
    BY <1>0, <2>1, <2>2 DEF DataTypes, Runtime
  <2>4. editor' \in Editor
    BY <2>1, <2>3 DEF Editor
  <2> QED BY <1>0, <2>2, <2>4 DEF DataTypes
<1>9. CASE WorkerApplies
  <2>1. Head(batch) \in Event
    BY <1>0, <1>9, HeadTyped DEF WorkerApplies, QueueTypes
  <2>2. \/ Applies(Head(batch), TRUE)
        \/ Fails(Head(batch))
        \/ UNCHANGED <<project, target>>
    BY <1>9 DEF WorkerApplies
  <2>3. project' \in [Project -> Record] /\ target' \in Graph
    BY <1>0, <2>1, <2>2, AppliesTyped, FailsTyped DEF DataTypes
  <2>4. UNCHANGED <<open, graph, editor, versions, events>>
    BY <1>9 DEF WorkerApplies, sidecar, counters
  <2> QED BY <1>0, <2>3, <2>4 DEF DataTypes
<1>10. CASE SwitchApplies
  <2>1. Head(switch.changes) \in Event
    BY <1>0, <1>10, HeadTyped DEF SwitchApplies, SwitchTypes
  <2>2. \/ Applies(Head(switch.changes), switch.step = "apply")
        \/ Fails(Head(switch.changes))
    BY <1>10 DEF SwitchApplies
  <2>3. project' \in [Project -> Record] /\ target' \in Graph
    BY <1>0, <2>1, <2>2, AppliesTyped, FailsTyped DEF DataTypes
  <2>4. UNCHANGED <<open, graph, editor, versions, events>>
    BY <1>10 DEF SwitchApplies, sidecar, counters
  <2> QED BY <1>0, <2>3, <2>4 DEF DataTypes
<1>11. CASE SwitchClosesEditor \/ ShutdownClosesEditor
  <2>1. ClosesEditor /\ UNCHANGED <<project, open, target, versions>>
    BY <1>11 DEF SwitchClosesEditor, ShutdownClosesEditor
  <2>2. editor' = None /\ graph' = graph /\ events' \in {events, events + 1}
    BY <2>1 DEF ClosesEditor
  <2> QED BY <1>0, <2>1, <2>2 DEF DataTypes
<1>12. CASE SwitchTriesCandidate
  <2> DEFINE session == Snapshot(switch.to, project)
             racks == RacksFor(session.slots, graph.racks)
  <2>1. project \in [Project -> Record] /\ switch.to \in Project /\ graph # None
    BY <1>0, <1>12 DEF DataTypes, SwitchTypes, SwitchTriesCandidate, IsUp
  <2>2. session \in Graph /\ session.slots \in [Device -> Slot] /\ session.revision \in Nat
    BY <2>1, SnapshotTyped
  <2>3. graph.racks \in [Device -> Rack \union {None}]
    BY <1>0, <2>1 DEF DataTypes, Runtime
  <2>4. racks \in [Device -> Rack \union {None}]
    BY <2>2, <2>3, RacksTyped
  <2>5. target' = session /\ UNCHANGED <<project, open, editor, versions, events>>
        /\ graph' = [project |-> switch.to, revision |-> session.revision, slots |-> session.slots,
                     racks |-> racks]
    BY <1>12 DEF SwitchTriesCandidate, counters
  <2> HIDE DEF session, racks
  <2>6. graph' \in Runtime
    BY <2>1, <2>2, <2>4, <2>5 DEF Runtime
  <2> QED BY <1>0, <2>2, <2>5, <2>6 DEF DataTypes
<1>13. CASE SwitchFails
  <2>1. project \in [Project -> Record] /\ open \in Project
    BY <1>0 DEF DataTypes
  <2>2. target' = Snapshot(open, project) /\ UNCHANGED <<project, open, graph, editor, versions, events>>
    BY <1>13 DEF SwitchFails, sidecar, counters
  <2>3. target' \in Graph
    BY <2>1, <2>2, SnapshotTyped
  <2> QED BY <1>0, <2>2, <2>3 DEF DataTypes
<1>14. CASE SwitchReplaces
  <2>1. project \in [Project -> Record] /\ switch.to \in Project
    BY <1>0, <1>14 DEF DataTypes, SwitchTypes, SwitchReplaces
  <2>2. open' = switch.to /\ target' = Snapshot(switch.to, project)
        /\ UNCHANGED <<project, graph, editor, versions, events>>
    BY <1>14 DEF SwitchReplaces, sidecar, counters
  <2>3. target' \in Graph
    BY <2>1, <2>2, SnapshotTyped
  <2> QED BY <1>0, <2>1, <2>2, <2>3 DEF DataTypes
<1>15. CASE ShutdownStopsWorker
  BY <1>0, <1>15 DEF ShutdownStopsWorker, DataTypes, counters
<1>16. CASE Delivers \/ WorkerReceives \/ WorkerFlushes \/ WorkerEndsFlush \/ WorkerLends
            \/ WorkerForgets \/ WorkerStops \/ WorkerLocks
  <2>1. UNCHANGED <<project, open, target, graph, editor, versions, events>>
    BY <1>16 DEF Delivers, WorkerReceives, WorkerFlushes, WorkerEndsFlush, WorkerLends, WorkerForgets,
                 WorkerStops, WorkerLocks, host, sidecar, counters
  <2> QED BY <1>0, <2>1 DEF DataTypes
<1>17. CASE SwitchBegins \/ SwitchTakes \/ SwitchAcknowledges \/ SwitchGoesOn \/ SwitchGivesUp
            \/ ShutdownRequested \/ GateCloses
  <2>1. UNCHANGED <<project, open, target, graph, editor, versions, events>>
    BY <1>17 DEF SwitchBegins, SwitchTakes, SwitchAcknowledges, SwitchGoesOn, SwitchGivesUp,
                 ShutdownRequested, GateCloses, host, sidecar, counters
  <2> QED BY <1>0, <2>1 DEF DataTypes
<1> QED BY <1>1, <1>2, <1>3, <1>4, <1>5, <1>6, <1>7, <1>8, <1>9, <1>10, <1>11, <1>12, <1>13, <1>14,
           <1>15, <1>16, <1>17 DEF Next, Sidecar, Requests, Worker, Switch, Shutdown
-----------------------------------------------------------------------------
(* Events on their way.                                                    *)

\* A step adds nothing but new to what is on its way, and what is owed after it
\* was owed before or is a new final state, and is where the worker finds it.
Flow(new) ==
    /\ QueueTypes'
    /\ Around' \subseteq Around \union new
    /\ owed' \subseteq owed \union {e \in new : e.kind = "final"}
    /\ owed' \subseteq Held'

\* What there is to know before a step.
Before == Types /\ Turns /\ IdsTell /\ OwedToSwitch /\ OwedIsHeld

LEMMA ReportsFlow ==
    ASSUME Before, Reports
    PROVE  \E e \in Event : e.id = events + 1 /\ events' = events + 1 /\ Flow({e})
<1>1. PICK kind \in {"state", "parameter"} :
          wire' = Coalesced(wire,
              [kind |-> kind, id |-> events + 1, project |-> editor.project,
               device |-> editor.device, plugin |-> None,
               version |-> IF kind = "state" THEN editor.rack.version ELSE 0,
               revision |-> IF kind = "state" THEN graph.revision ELSE 0])
  BY DEF Reports
<1> DEFINE e == [kind |-> kind, id |-> events + 1, project |-> editor.project,
                 device |-> editor.device, plugin |-> None,
                 version |-> IF kind = "state" THEN editor.rack.version ELSE 0,
                 revision |-> IF kind = "state" THEN graph.revision ELSE 0]
<1>2. /\ editor # None /\ graph # None /\ events' = events + 1
      /\ UNCHANGED <<channel, pending, batch, reply, switch, owed, worker>>
  BY DEF Reports, IsUp, host, persistence
<1>3. editor \in Editor /\ graph \in Runtime /\ events \in Nat /\ wire \in Seq(Event)
  BY <1>2 DEF Before, Types, DataTypes, QueueTypes
<1>4. e \in Event /\ e.id = events + 1
  BY <1>3 DEF Event, Kinds, Editor, Rack, Runtime
<1>5. wire' = Coalesced(wire, e)
  BY <1>1
<1> HIDE DEF e
<1>6. /\ wire' \in Seq(Event) /\ ToSet(wire') \subseteq ToSet(wire) \union {e}
      /\ \A x \in ToSet(wire) : x.kind = "final" => x \in ToSet(wire')
  BY <1>3, <1>4, <1>5, CoalescedIs
<1>7. QueueTypes'
  BY <1>2, <1>6 DEF Before, Types, QueueTypes
<1>8. Around' \subseteq Around \union {e}
  BY <1>2, <1>6 DEF Around, Lent
<1>9. owed' \subseteq Held'
  BY <1>2, <1>6 DEF Before, IdsTell, OwedIsHeld, Held, Collected
<1> QED BY <1>2, <1>4, <1>7, <1>8, <1>9 DEF Flow

\* An editor closes, by its own window or because another one is opened.
LEMMA FinalFlow ==
    ASSUME Before, graph # None, editor # None,
           wire' = Append(wire, FinalOf(editor)), owed' = owed \union {FinalOf(editor)},
           UNCHANGED <<channel, pending, batch, reply, switch, worker>>
    PROVE  FinalOf(editor) \in Event /\ FinalOf(editor).id = events + 1 /\ Flow({FinalOf(editor)})
<1> DEFINE e == FinalOf(editor)
<1>1. e \in Event /\ e.kind = "final" /\ e.id = events + 1
  BY FinalIs DEF Before, Types
<1>2. wire' = Append(wire, e) /\ owed' = owed \union {e} /\ wire \in Seq(Event)
  BY DEF Before, Types, QueueTypes
<1> HIDE DEF e
<1>3. wire' \in Seq(Event) /\ ToSet(wire') = ToSet(wire) \union {e}
  BY <1>1, <1>2, AppendAdds
<1>4. QueueTypes'
  BY <1>3 DEF Before, Types, QueueTypes
<1>5. Around' \subseteq Around \union {e}
  BY <1>3 DEF Around, Lent
<1>6. owed' \subseteq Held'
  BY <1>2, <1>3 DEF Before, OwedIsHeld, Held, Collected
<1>7. Flow({e})
  BY <1>1, <1>2, <1>4, <1>5, <1>6 DEF Flow
<1> QED BY <1>1, <1>7 DEF e

\* The sidecar goes, and what it had queued with it.
LEMMA SidecarGoesFlow ==
    ASSUME Before, wire' = <<>>, owed' = owed \ ToSet(wire),
           UNCHANGED <<channel, pending, batch, reply, switch, worker>>
    PROVE  Flow({})
<1>1. wire' \in Seq(Event) /\ ToSet(wire') = {}
  BY EmptyHasNone
<1>2. QueueTypes'
  BY <1>1 DEF Before, Types, QueueTypes
<1>3. Around' \subseteq Around
  BY <1>1 DEF Around, Lent
<1>4. owed' \subseteq Held'
  BY <1>1 DEF Before, OwedIsHeld, Held, Collected
<1> QED BY <1>2, <1>3, <1>4 DEF Flow

LEMMA SidecarRestartsFlow ==
    ASSUME Before, SidecarRestarts
    PROVE  Restarted \in Event /\ Restarted.id = 0 /\ Restarted.kind # "final" /\ Flow({Restarted})
<1>1. Restarted \in Event /\ Restarted.id = 0 /\ Restarted.kind # "final"
  BY DEF Restarted, Event, Kinds
<1>2. /\ channel' = Append(channel, Restarted) /\ channel \in Seq(Event)
      /\ UNCHANGED <<wire, pending, batch, reply, switch, worker, owed>>
  BY DEF SidecarRestarts, Before, Types, QueueTypes
<1>3. channel' \in Seq(Event) /\ ToSet(channel') = ToSet(channel) \union {Restarted}
  BY <1>1, <1>2, AppendAdds
<1>4. QueueTypes'
  BY <1>2, <1>3 DEF Before, Types, QueueTypes
<1>5. Around' \subseteq Around \union {Restarted}
  BY <1>2, <1>3 DEF Around, Lent
<1>6. owed' \subseteq Held'
  BY <1>2, <1>3 DEF Before, OwedIsHeld, Held, Collected
<1> QED BY <1>1, <1>2, <1>4, <1>5, <1>6 DEF Flow

LEMMA DeliversFlow ==
    ASSUME Before, Delivers
    PROVE  Flow({})
<1>1. /\ wire # <<>> /\ wire \in Seq(Event) /\ channel \in Seq(Event)
      /\ channel' = Append(channel, Head(wire)) /\ wire' = Tail(wire)
      /\ UNCHANGED <<pending, batch, reply, switch, worker, owed>>
  BY DEF Delivers, Before, Types, QueueTypes, host
<1> DEFINE e == Head(wire)
<1>2. e \in Event /\ wire' \in Seq(Event) /\ ToSet(wire) = {e} \union ToSet(wire')
  BY <1>1, HeadAndTail
<1>3. channel' = Append(channel, e)
  BY <1>1
<1> HIDE DEF e
<1>4. channel' \in Seq(Event) /\ ToSet(channel') = ToSet(channel) \union {e}
  BY <1>1, <1>2, <1>3, AppendAdds
<1>5. QueueTypes'
  BY <1>1, <1>2, <1>4 DEF Before, Types, QueueTypes
<1>6. Around' \subseteq Around
  BY <1>1, <1>2, <1>4 DEF Around, Lent
<1>7. ~Collected
  BY <1>1 DEF Before, Turns
<1>8. owed' \subseteq Held'
  BY <1>1, <1>2, <1>4, <1>7 DEF Before, OwedIsHeld, Held, Collected
<1> QED BY <1>1, <1>5, <1>6, <1>8 DEF Flow

\* While the worker waits it has no batch.
LEMMA WaitingIs ==
    ASSUME Turns, worker = "waiting"
    PROVE  batch = <<>> /\ ToSet(batch) = {} /\ ~Collected
BY EmptyHasNone DEF Turns, Collected

LEMMA WorkerReceivesFlow ==
    ASSUME Before, WorkerReceives
    PROVE  Flow({})
<1> DEFINE e == Head(channel)
           changes == Collect(pending, e)
<1>1. /\ worker = "waiting" /\ channel # <<>> /\ channel \in Seq(Event) /\ pending \in Seq(Event)
      /\ channel' = Tail(channel)
      /\ \/ batch' = changes /\ pending' = <<>> /\ worker' = "flushing"
         \/ pending' = changes /\ UNCHANGED <<batch, worker>>
      /\ UNCHANGED <<wire, reply, switch, owed>>
  BY DEF WorkerReceives, Before, Types, QueueTypes, sidecar
<1>2. e \in Event /\ channel' \in Seq(Event) /\ ToSet(channel) = {e} \union ToSet(channel')
  BY <1>1, HeadAndTail
<1>3. batch = <<>> /\ ToSet(batch) = {} /\ ~Collected
  BY <1>1, WaitingIs DEF Before
<1> HIDE DEF e
<1>4. /\ changes \in Seq(Event) /\ ToSet(changes) \subseteq ToSet(pending) \union {e}
      /\ \A x \in ToSet(pending) \union {e} : x.kind = "final" => x \in ToSet(changes)
  BY <1>1, <1>2, CollectIs
<1> HIDE DEF changes
<1>5. ~Collected'
  BY <1>1, <1>3 DEF Collected
<1>6. CASE batch' = changes /\ pending' = <<>>
  <2>1. pending' \in Seq(Event) /\ ToSet(pending') = {} /\ ToSet(batch') = ToSet(changes)
    BY <1>6, EmptyHasNone
  <2>2. QueueTypes'
    BY <1>1, <1>2, <1>4, <1>6, <2>1 DEF Before, Types, QueueTypes
  <2>3. Around' \subseteq Around
    BY <1>1, <1>2, <1>4, <2>1 DEF Around, Lent
  <2>4. owed' \subseteq Held'
    BY <1>1, <1>2, <1>3, <1>4, <1>5, <2>1 DEF Before, IdsTell, OwedIsHeld, Held
  <2> QED BY <1>1, <2>2, <2>3, <2>4 DEF Flow
<1>7. CASE pending' = changes /\ UNCHANGED batch
  <2>1. QueueTypes'
    BY <1>1, <1>2, <1>4, <1>7 DEF Before, Types, QueueTypes
  <2>2. ToSet(pending') = ToSet(changes) /\ ToSet(batch') = ToSet(batch)
    BY <1>7
  <2>3. Around' \subseteq Around
    BY <1>1, <1>2, <1>4, <2>2 DEF Around, Lent
  <2>4. owed' \subseteq Held'
    BY <1>1, <1>2, <1>3, <1>4, <1>5, <2>2 DEF Before, IdsTell, OwedIsHeld, Held
  <2> QED BY <1>1, <2>1, <2>3, <2>4 DEF Flow
<1> QED BY <1>1, <1>6, <1>7

\* The worker begins a flush.
LEMMA BeginsFlushFlow ==
    ASSUME Before, WorkerFlushes \/ WorkerLocks
    PROVE  Flow({})
<1>1. /\ batch' = pending /\ pending' = <<>> /\ worker \in {"waiting", "locking"}
      /\ UNCHANGED <<wire, channel, reply, switch, owed>>
      /\ (worker = "waiting" => worker' = "flushing")
  BY DEF WorkerFlushes, WorkerLocks, sidecar
<1>2. batch = <<>> /\ ToSet(batch) = {}
  BY <1>1, EmptyHasNone DEF Before, Turns
<1>3. pending' \in Seq(Event) /\ ToSet(pending') = {} /\ ToSet(batch') = ToSet(pending)
  BY <1>1, EmptyHasNone
<1>4. QueueTypes'
  BY <1>1, <1>3 DEF Before, Types, QueueTypes
<1>5. Around' \subseteq Around
  BY <1>1, <1>3 DEF Around, Lent
<1>6. Collected' => Collected
  BY <1>1 DEF Collected
<1>7. owed' \subseteq Held'
  BY <1>1, <1>2, <1>3, <1>6 DEF Before, OwedIsHeld, Held
<1> QED BY <1>1, <1>4, <1>5, <1>7 DEF Flow

LEMMA WorkerAppliesFlow ==
    ASSUME Before, WorkerApplies
    PROVE  Flow({})
<1> DEFINE e == Head(batch)
<1>1. /\ batch # <<>> /\ batch \in Seq(Event) /\ pending \in Seq(Event) /\ batch' = Tail(batch)
      /\ UNCHANGED <<wire, channel, reply, switch, worker>>
      /\ \/ pending' = pending /\ owed' = owed \ {e}
         \/ pending' = Append(pending, e) /\ owed' = owed
  BY DEF WorkerApplies, Applies, Fails, Before, Types, QueueTypes, sidecar
<1>2. e \in Event /\ batch' \in Seq(Event) /\ ToSet(batch) = {e} \union ToSet(batch')
  BY <1>1, HeadAndTail
<1> HIDE DEF e
<1>3. Collected' <=> Collected
  BY <1>1 DEF Collected
<1>4. CASE pending' = pending /\ owed' = owed \ {e}
  <2>1. QueueTypes'
    BY <1>1, <1>2, <1>4 DEF Before, Types, QueueTypes
  <2>2. Around' \subseteq Around
    BY <1>1, <1>2, <1>4 DEF Around, Lent
  <2>3. owed' \subseteq Held'
    BY <1>1, <1>2, <1>3, <1>4 DEF Before, OwedIsHeld, Held
  <2> QED BY <1>4, <2>1, <2>2, <2>3 DEF Flow
<1>5. CASE pending' = Append(pending, e) /\ owed' = owed
  <2>1. pending' \in Seq(Event) /\ ToSet(pending') = ToSet(pending) \union {e}
    BY <1>1, <1>2, <1>5, AppendAdds
  <2>2. QueueTypes'
    BY <1>1, <1>2, <2>1 DEF Before, Types, QueueTypes
  <2>3. Around' \subseteq Around
    BY <1>1, <1>2, <2>1 DEF Around, Lent
  <2>4. owed' \subseteq Held'
    BY <1>1, <1>2, <1>3, <1>5, <2>1 DEF Before, OwedIsHeld, Held
  <2> QED BY <1>5, <2>2, <2>3, <2>4 DEF Flow
<1> QED BY <1>1, <1>4, <1>5

LEMMA WorkerEndsFlushFlow ==
    ASSUME Before, WorkerEndsFlush
    PROVE  Flow({})
<1>1. /\ batch = <<>> /\ worker \in {"flushing", "last flush"}
      /\ UNCHANGED <<wire, channel, pending, batch, reply, switch, owed>>
      /\ worker' = IF worker = "flushing" THEN "waiting" ELSE "gone"
  BY DEF WorkerEndsFlush, sidecar
<1>2. Collected' <=> Collected
  BY <1>1 DEF Collected
<1>3. QueueTypes'
  BY <1>1 DEF Before, Types, QueueTypes
<1>4. Around' \subseteq Around
  BY <1>1 DEF Around, Lent
<1>5. owed' \subseteq Held'
  BY <1>1, <1>2 DEF Before, OwedIsHeld, Held
<1> QED BY <1>1, <1>3, <1>4, <1>5 DEF Flow

\* The worker collects everything that has arrived, to lend it or because it stops.
LEMMA CollectsFlow ==
    ASSUME Before, worker = "waiting", channel' = <<>>, pending' = CollectAll(pending, channel),
           UNCHANGED <<wire, batch, switch, owed>>,
           reply' # None => reply'.changes \in Seq(Event) /\ ToSet(reply'.changes) \subseteq ToSet(pending')
    PROVE  Flow({})
<1>1. pending \in Seq(Event) /\ channel \in Seq(Event)
  BY DEF Before, Types, QueueTypes
<1>2. /\ pending' \in Seq(Event) /\ ToSet(pending') \subseteq ToSet(pending) \union ToSet(channel)
      /\ \A x \in ToSet(pending) \union ToSet(channel) : x.kind = "final" => x \in ToSet(pending')
  BY <1>1, CollectAllIs
<1>3. channel' \in Seq(Event) /\ ToSet(channel') = {}
  BY EmptyHasNone
<1>4. QueueTypes'
  BY <1>2, <1>3 DEF Before, Types, QueueTypes
<1>5. Lent' \subseteq ToSet(pending')
  BY DEF Lent
<1>6. Around' \subseteq Around
  BY <1>2, <1>3, <1>5 DEF Around
<1>7. owed' \subseteq Held'
  BY <1>2 DEF Before, IdsTell, OwedIsHeld, Held
<1> QED BY <1>4, <1>6, <1>7 DEF Flow

LEMMA WorkerLendsFlow ==
    ASSUME Before, WorkerLends
    PROVE  /\ Flow({})
           /\ \A x : x \in ToSet(reply'.changes) <=> x \in ToSet(pending') /\ x.project = request.project
<1> DEFINE lent == {c \in ToSet(pending') : c.project = request.project}
<1>1. /\ worker = "waiting" /\ channel' = <<>> /\ pending' = CollectAll(pending, channel)
      /\ UNCHANGED <<wire, batch, switch, owed>> /\ reply'.changes = Only(pending', lent)
  BY DEF WorkerLends, host, sidecar
<1>2. pending' \in Seq(Event)
  BY <1>1, CollectAllIs DEF Before, Types, QueueTypes
<1>3. \A x : x \in lent <=> x \in ToSet(pending') /\ x.project = request.project
  OBVIOUS
<1> HIDE DEF lent
<1>4. reply'.changes \in Seq(Event)
      /\ \A x : x \in ToSet(reply'.changes) <=> x \in ToSet(pending') /\ x \in lent
  BY <1>1, <1>2, OnlyIs
<1>5. Flow({})
  BY <1>1, <1>4, CollectsFlow
<1> QED BY <1>3, <1>4, <1>5

LEMMA WorkerStopsFlow ==
    ASSUME Before, Asked, WorkerStops
    PROVE  Flow({})
<1>1. /\ worker = "waiting" /\ channel' = <<>> /\ pending' = CollectAll(pending, channel)
      /\ UNCHANGED <<wire, batch, switch, owed, reply>> /\ lifecycle = "stopping"
  BY DEF WorkerStops, host, sidecar
<1>2. reply' = None
  BY <1>1 DEF Before, Turns, Asked, Types, SwitchTypes, Asking, Acknowledging
<1> QED BY <1>1, <1>2, CollectsFlow

LEMMA WorkerForgetsFlow ==
    ASSUME Before, Asked, WorkerForgets
    PROVE  Flow({})
<1> DEFINE others == {c \in ToSet(pending) : c.id \notin request.applied}
<1>1. /\ worker = "waiting" /\ pending' = Only(pending, others) /\ request # None
      /\ request.kind = "acknowledge" /\ UNCHANGED <<wire, channel, batch, worker, switch, owed>>
      /\ reply' = [changes |-> <<>>] /\ pending \in Seq(Event)
  BY DEF WorkerForgets, Retained, host, sidecar, Before, Types, QueueTypes
<1>2. request.applied = switch.applied
  BY <1>1 DEF Asked
<1>3. \A f \in owed : f \in ToSet(pending) => f \in others
  BY <1>2 DEF Before, IdsTell
<1> HIDE DEF others
<1>4. pending' \in Seq(Event)
      /\ \A x : x \in ToSet(pending') <=> x \in ToSet(pending) /\ x \in others
  BY <1>1, OnlyIs
<1>5. reply'.changes = <<>> /\ reply'.changes \in Seq(Event) /\ Lent' = {}
  BY <1>1, EmptyHasNone DEF Lent
<1>6. QueueTypes'
  BY <1>1, <1>4, <1>5 DEF Before, Types, QueueTypes
<1>7. Around' \subseteq Around
  BY <1>1, <1>4, <1>5 DEF Around
<1>8. Collected' <=> Collected
  BY <1>1 DEF Collected
<1>9. owed' \subseteq Held'
  BY <1>1, <1>3, <1>4, <1>8 DEF Before, OwedIsHeld, Held
<1> QED BY <1>1, <1>6, <1>7, <1>9 DEF Flow

\* The editor is closed for a switch or the shutdown.
LEMMA ClosesEditorFlow ==
    ASSUME Before, ClosesEditor, UNCHANGED <<pending, batch, reply, worker>>, switch'.changes = switch.changes,
           lifecycle # "stopping"
    PROVE  /\ \A e \in Closing : e \in Event /\ e.id = events + 1 /\ events' = events + 1
           /\ Closing = {} => events' = events
           /\ Flow(Closing) /\ owed' \intersect ToSet(wire') = {} /\ editor' = None
<1>1. DataTypes /\ QueueTypes
  BY DEF Before, Types
<1>2. /\ graph # None /\ channel' \in Seq(Event) /\ wire' \in Seq(Event)
      /\ ToSet(channel') \union ToSet(wire') = ToSet(channel) \union ToSet(wire) \union Closing
      /\ ToSet(channel) \subseteq ToSet(channel')
      /\ \A e \in ToSet(wire') : e.kind # "final"
      /\ owed' = owed \union Closing
      /\ editor' = None
      /\ IF editor = None THEN events' = events ELSE events' = events + 1
  BY <1>1, ClosesEditorIs
<1>3. \A e \in Closing : e \in Event /\ e.kind = "final" /\ e.id = events + 1 /\ editor # None
  BY <1>1, <1>2, ClosingIs
<1>4. Closing = {} => editor = None
  BY DEF Closing
<1>5. \A f \in owed' : f.kind = "final"
  BY <1>2, <1>3 DEF Before, IdsTell
<1>6. owed' \intersect ToSet(wire') = {}
  BY <1>2, <1>5
<1>7. QueueTypes'
  BY <1>1, <1>2 DEF QueueTypes
<1>8. Around' \subseteq Around \union Closing
  BY <1>2 DEF Around, Lent
<1>9. ~Collected /\ ~Collected'
  BY DEF Before, Turns, Collected
<1>10. owed' \subseteq Held'
  BY <1>2, <1>9 DEF Before, OwedIsHeld, Held
<1>11. Flow(Closing)
  BY <1>2, <1>3, <1>7, <1>8, <1>10 DEF Flow
<1> QED BY <1>2, <1>3, <1>4, <1>6, <1>11

\* Steps that leave the queues alone: at most the switch takes what it was lent
\* or lets go of it, and an applied change is owed no more.
LEMMA SwitchFlow ==
    ASSUME Before, UNCHANGED <<wire, channel, pending, batch, worker>>, owed' \subseteq owed,
           reply' = reply \/ reply' = None,
           ToSet(switch'.changes) \subseteq ToSet(switch.changes) \union Lent
    PROVE  Flow({})
<1>1. QueueTypes'
  BY DEF Before, Types, QueueTypes
<1>2. Lent' \subseteq Lent
  BY DEF Lent
<1>3. Around' \subseteq Around
  BY <1>2 DEF Around
<1>4. owed' \subseteq Held'
  BY DEF Before, OwedIsHeld, Held, Collected
<1> QED BY <1>1, <1>3, <1>4 DEF Flow

-----------------------------------------------------------------------------
(* The steps, part by part.                                                *)

NoSwitchIs(s) == s.step = "idle" /\ s.changes = <<>> /\ s.applied = {} /\ s.failed = FALSE

LEMMA SwitchTypesStep ==
    ASSUME Types, Asked, Next
    PROVE  SwitchTypes'
<1>0. DataTypes /\ QueueTypes /\ SwitchTypes
  BY DEF Types
<1>1. CASE SwitchBegins
  <2>1. PICK p \in Project : switch' = [NoSwitch EXCEPT !.step = "take", !.to = p]
    BY <1>1 DEF SwitchBegins
  <2>2. switch' = [step |-> "take", to |-> p, changes |-> <<>>, applied |-> {}, failed |-> FALSE]
    BY <2>1 DEF NoSwitch
  <2>3. switch'.changes \in Seq(Event)
    BY <2>2
  <2> QED BY <2>2, <2>3 DEF SwitchTypes, Steps, Asking
<1>2. CASE SwitchTakes
  <2>1. /\ switch.step \in Asking /\ reply # None
        /\ switch' = [switch EXCEPT !.step = IF @ = "take" THEN "apply" ELSE "apply closing",
                                    !.changes = reply.changes, !.applied = {}, !.failed = FALSE]
    BY <1>2 DEF SwitchTakes
  <2>2. reply.changes \in Seq(Event)
    BY <1>0, <2>1 DEF QueueTypes
  <2> QED BY <1>0, <2>1, <2>2 DEF SwitchTypes, Steps, Asking, Applying
<1>3. CASE SwitchApplies
  <2>1. switch.changes # <<>> /\ switch.step \in Applying
        /\ \/ switch' = [switch EXCEPT !.changes = Tail(@), !.applied = @ \union {Head(switch.changes).id}]
           \/ switch' = [switch EXCEPT !.changes = <<>>, !.failed = TRUE]
    BY <1>3 DEF SwitchApplies
  <2>2. Tail(switch.changes) \in Seq(Event) /\ <<>> \in Seq(Event)
    BY <1>0, <2>1, HeadTyped DEF SwitchTypes
  <2> QED BY <1>0, <2>1, <2>2 DEF SwitchTypes, Steps, Applying
<1>4. CASE SwitchAcknowledges
  <2>1. switch.step \in Applying
        /\ switch' = [switch EXCEPT !.step = IF @ = "apply" THEN "acknowledge" ELSE "acknowledge closing"]
    BY <1>4 DEF SwitchAcknowledges
  <2> QED BY <1>0, <2>1 DEF SwitchTypes, Steps, Applying, Acknowledging
<1>5. CASE SwitchGoesOn
  <2>1. switch.step \in Acknowledging
        /\ \/ switch' = NoSwitch
           \/ switch' = [switch EXCEPT !.step = IF @ = "acknowledge" THEN "close" ELSE "load", !.applied = {}]
    BY <1>5 DEF SwitchGoesOn
  <2>2. CASE switch' = NoSwitch
    <3>1. switch'.changes \in Seq(Event)
      BY <2>2 DEF NoSwitch
    <3> QED BY <2>2, <3>1 DEF SwitchTypes, Steps, NoSwitch
  <2>3. CASE switch' = [switch EXCEPT !.step = IF @ = "acknowledge" THEN "close" ELSE "load", !.applied = {}]
    BY <1>0, <2>1, <2>3 DEF SwitchTypes, Steps, Acknowledging
  <2> QED BY <2>1, <2>2, <2>3
<1>6. CASE SwitchClosesEditor
  <2>1. switch.step = "close" /\ switch' = [switch EXCEPT !.step = "take closing"]
    BY <1>6 DEF SwitchClosesEditor
  <2> QED BY <1>0, <2>1 DEF SwitchTypes, Steps, Asking
<1>7. CASE SwitchTriesCandidate
  <2>1. switch.step = "load" /\ switch' = [switch EXCEPT !.step = "replace"]
    BY <1>7 DEF SwitchTriesCandidate
  <2> QED BY <1>0, <2>1 DEF SwitchTypes, Steps
<1>8. CASE SwitchGivesUp \/ SwitchFails \/ SwitchReplaces
  <2>1. switch' = NoSwitch
    BY <1>8 DEF SwitchGivesUp, SwitchFails, SwitchReplaces
  <2> QED BY <2>1 DEF SwitchTypes, Steps, NoSwitch
<1>9. CASE switch' = switch
  BY <1>0, <1>9 DEF SwitchTypes
<1>10. CASE Sidecar \/ Delivers \/ Requests \/ Worker
  <2>1. switch' = switch
    BY <1>10 DEF Sidecar, Requests, Worker, UserEdits, Reports, EditorCloses, GraphCommits, SidecarExits,
                 SidecarRestarts, Delivers, HostEdits, EditorOpens, WorkerReceives, WorkerFlushes,
                 WorkerApplies, WorkerEndsFlush, WorkerLends, WorkerForgets, WorkerStops, WorkerLocks, host
  <2> QED BY <1>9, <2>1
<1>11. CASE ShutdownRequested \/ Shutdown
  <2>1. switch' = switch
    BY <1>11 DEF Shutdown, ShutdownRequested, GateCloses, ShutdownClosesEditor, ShutdownStopsWorker
  <2> QED BY <1>9, <2>1
<1> QED BY <1>1, <1>2, <1>3, <1>4, <1>5, <1>6, <1>7, <1>8, <1>10, <1>11 DEF Next, Switch

\* How the switch's record changes.
LEMMA SwitchIs ==
    ASSUME SwitchTypes
    PROVE  /\ SwitchTakes => switch'.step = (IF switch.step = "take" THEN "apply" ELSE "apply closing")
                             /\ switch'.changes = reply.changes /\ switch'.applied = {}
                             /\ switch'.failed = FALSE
           /\ SwitchApplies => /\ switch'.step = switch.step
                               /\ \/ /\ switch'.changes = Tail(switch.changes)
                                     /\ switch'.applied = switch.applied \union {Head(switch.changes).id}
                                     /\ switch'.failed = switch.failed
                                     /\ Applies(Head(switch.changes), switch.step = "apply")
                                  \/ /\ switch'.changes = <<>> /\ switch'.applied = switch.applied
                                     /\ switch'.failed = TRUE
                                     /\ Fails(Head(switch.changes))
           /\ SwitchAcknowledges =>
                  /\ switch'.step = (IF switch.step = "apply" THEN "acknowledge" ELSE "acknowledge closing")
                  /\ switch'.changes = switch.changes /\ switch'.applied = switch.applied
                  /\ switch'.failed = switch.failed
           /\ SwitchGoesOn =>
                  \/ switch.failed /\ NoSwitchIs(switch')
                  \/ /\ ~switch.failed
                     /\ switch'.step = (IF switch.step = "acknowledge" THEN "close" ELSE "load")
                     /\ switch'.changes = switch.changes /\ switch'.applied = {}
           /\ SwitchClosesEditor => /\ switch'.step = "take closing" /\ switch'.changes = switch.changes
                                    /\ switch'.applied = switch.applied
           /\ SwitchTriesCandidate => /\ switch'.step = "replace" /\ switch'.changes = switch.changes
                                      /\ switch'.applied = switch.applied
           /\ SwitchGivesUp \/ SwitchFails \/ SwitchReplaces => NoSwitchIs(switch')
           /\ SwitchBegins => /\ switch'.step = "take" /\ switch'.changes = <<>> /\ switch'.applied = {}
<1>1. SwitchTakes => switch'.step = (IF switch.step = "take" THEN "apply" ELSE "apply closing")
                     /\ switch'.changes = reply.changes /\ switch'.applied = {}
                     /\ switch'.failed = FALSE
  BY DEF SwitchTakes, SwitchTypes
<1>2. ASSUME SwitchApplies
      PROVE  /\ switch'.step = switch.step
             /\ \/ /\ switch'.changes = Tail(switch.changes)
                   /\ switch'.applied = switch.applied \union {Head(switch.changes).id}
                   /\ switch'.failed = switch.failed
                   /\ Applies(Head(switch.changes), switch.step = "apply")
                \/ /\ switch'.changes = <<>> /\ switch'.applied = switch.applied
                   /\ switch'.failed = TRUE
                   /\ Fails(Head(switch.changes))
  <2>1. CASE /\ Applies(Head(switch.changes), switch.step = "apply")
             /\ switch' = [switch EXCEPT !.changes = Tail(@),
                                         !.applied = @ \union {Head(switch.changes).id}]
    BY <2>1 DEF SwitchTypes
  <2>2. CASE Fails(Head(switch.changes)) /\ switch' = [switch EXCEPT !.changes = <<>>, !.failed = TRUE]
    BY <2>2 DEF SwitchTypes
  <2> QED BY <1>2, <2>1, <2>2 DEF SwitchApplies
<1>3. SwitchAcknowledges =>
          /\ switch'.step = (IF switch.step = "apply" THEN "acknowledge" ELSE "acknowledge closing")
          /\ switch'.changes = switch.changes /\ switch'.applied = switch.applied
          /\ switch'.failed = switch.failed
  BY DEF SwitchAcknowledges, SwitchTypes
<1>4. ASSUME SwitchGoesOn
      PROVE  \/ switch.failed /\ NoSwitchIs(switch')
             \/ /\ ~switch.failed
                /\ switch'.step = (IF switch.step = "acknowledge" THEN "close" ELSE "load")
                /\ switch'.changes = switch.changes /\ switch'.applied = {}
  <2>1. CASE switch.failed
    BY <1>4, <2>1 DEF SwitchGoesOn, NoSwitch, NoSwitchIs
  <2>2. CASE ~switch.failed
    BY <1>4, <2>2 DEF SwitchGoesOn, SwitchTypes
  <2> QED BY <2>1, <2>2
<1>5. SwitchClosesEditor => /\ switch'.step = "take closing" /\ switch'.changes = switch.changes
                            /\ switch'.applied = switch.applied
  BY DEF SwitchClosesEditor, SwitchTypes
<1>6. SwitchTriesCandidate => /\ switch'.step = "replace" /\ switch'.changes = switch.changes
                              /\ switch'.applied = switch.applied
  BY DEF SwitchTriesCandidate, SwitchTypes
<1>7. SwitchGivesUp \/ SwitchFails \/ SwitchReplaces => NoSwitchIs(switch')
  BY DEF SwitchGivesUp, SwitchFails, SwitchReplaces, NoSwitch, NoSwitchIs
<1>8. SwitchBegins => /\ switch'.step = "take" /\ switch'.changes = <<>> /\ switch'.applied = {}
  BY DEF SwitchBegins, NoSwitch
<1> QED BY <1>1, <1>2, <1>3, <1>4, <1>5, <1>6, <1>7, <1>8

LEMMA TurnsStep ==
    ASSUME Types, Turns, Next
    PROVE  Turns'
<1>0. SwitchTypes /\ QueueTypes
  BY DEF Types
<1>1. CASE UserEdits \/ Reports \/ EditorCloses \/ GraphCommits \/ SidecarExits \/ EditorOpens
  <2>1. /\ UNCHANGED <<writer, switch, lifecycle, worker, batch>> /\ graph # None
    BY <1>1 DEF UserEdits, Reports, EditorCloses, GraphCommits, SidecarExits, EditorOpens, host, persistence, IsUp
  <2>2. lifecycle # "stopping"
    BY <2>1 DEF Turns
  <2> QED BY <2>1, <2>2 DEF Turns, Collected
<1>2. CASE SidecarRestarts
  BY <1>2 DEF SidecarRestarts, Turns, Collected
<1>3. CASE Delivers
  <2>1. wire # <<>> /\ UNCHANGED <<writer, switch, lifecycle, worker, batch>>
    BY <1>3 DEF Delivers, host
  <2> QED BY <2>1 DEF Turns, Collected
<1>4. CASE HostEdits
  BY <1>4 DEF HostEdits, Turns, Collected, persistence, sidecar
<1>5. CASE WorkerReceives
  BY <1>5 DEF WorkerReceives, Turns, Collected, sidecar
<1>6. CASE WorkerFlushes \/ WorkerLocks
  BY <1>6 DEF WorkerFlushes, WorkerLocks, Turns, Collected, sidecar
<1>7. CASE WorkerApplies
  BY <1>7 DEF WorkerApplies, Turns, Collected, sidecar
<1>8. CASE WorkerEndsFlush
  BY <1>8 DEF WorkerEndsFlush, Turns, Collected, sidecar
<1>9. CASE WorkerLends \/ WorkerForgets
  BY <1>9 DEF WorkerLends, WorkerForgets, Turns, Collected, sidecar, host
<1>10. CASE WorkerStops
  BY <1>10 DEF WorkerStops, Turns, Collected, sidecar, host
<1>11. CASE SwitchBegins
  <2>1. switch'.step = "take"
    BY <1>0, <1>11, SwitchIs
  <2> QED BY <1>11, <2>1 DEF SwitchBegins, Turns, Collected, sidecar, Running
<1>12. CASE SwitchTakes
  <2>1. switch'.step # "idle" /\ switch.step # "idle"
    <3>1. switch.step \in Asking
      BY <1>12 DEF SwitchTakes
    <3>2. switch'.step # "idle"
      BY <1>0, <1>12, SwitchIs
    <3> QED BY <3>1, <3>2 DEF Asking
  <2> QED BY <1>12, <2>1 DEF SwitchTakes, Turns, Collected, sidecar
<1>13. CASE SwitchApplies
  <2>1. switch'.step = switch.step
    BY <1>0, <1>13, SwitchIs
  <2> QED BY <1>13, <2>1 DEF SwitchApplies, Turns, Collected, sidecar, persistence
<1>14. CASE SwitchAcknowledges
  <2>1. switch'.step # "idle" /\ switch.step # "idle"
    <3>1. switch.step \in Applying
      BY <1>14 DEF SwitchAcknowledges
    <3>2. switch'.step # "idle"
      BY <1>0, <1>14, SwitchIs
    <3> QED BY <3>1, <3>2 DEF Applying
  <2> QED BY <1>14, <2>1 DEF SwitchAcknowledges, Turns, Collected, sidecar
<1>15. CASE SwitchGoesOn
  <2>1. CASE switch.failed
    <3>1. switch'.step = "idle" /\ switch.step # "idle" /\ writer' = "free"
      <4>1. switch' = NoSwitch /\ writer' = "free" /\ switch.step \in Acknowledging
        BY <1>15, <2>1 DEF SwitchGoesOn
      <4> QED BY <4>1 DEF NoSwitch, Acknowledging
    <3> QED BY <1>15, <3>1 DEF SwitchGoesOn, Turns, Collected, sidecar
  <2>2. CASE ~switch.failed
    <3>1. switch'.step # "idle" /\ switch.step # "idle" /\ writer' = writer
      <4>1. writer' = writer /\ switch.step \in Acknowledging
        BY <1>15, <2>2 DEF SwitchGoesOn
      <4>2. switch'.step # "idle"
        BY <1>0, <1>15, <2>2, SwitchIs
      <4> QED BY <4>1, <4>2 DEF Acknowledging
    <3> QED BY <1>15, <3>1 DEF SwitchGoesOn, Turns, Collected, sidecar
  <2> QED BY <2>1, <2>2
<1>16. CASE SwitchClosesEditor
  <2>1. switch'.step # "idle" /\ switch.step # "idle"
    <3>1. switch.step # "idle"
      BY <1>16 DEF SwitchClosesEditor
    <3> QED BY <1>0, <1>16, <3>1, SwitchIs
  <2>2. lifecycle' = lifecycle /\ lifecycle # "stopping"
    BY <1>16, <2>1 DEF SwitchClosesEditor, Turns
  <2> QED BY <1>16, <2>1, <2>2 DEF SwitchClosesEditor, Turns, Collected
<1>17. CASE SwitchGivesUp \/ SwitchFails \/ SwitchReplaces
  <2>1. switch'.step = "idle" /\ switch.step # "idle" /\ writer' = "free"
    BY <1>17 DEF SwitchGivesUp, SwitchFails, SwitchReplaces, NoSwitch
  <2> QED BY <1>17, <2>1 DEF SwitchGivesUp, SwitchFails, SwitchReplaces, Turns, Collected, sidecar, persistence
<1>18. CASE SwitchTriesCandidate
  <2>1. switch'.step # "idle" /\ switch.step # "idle"
    <3>1. switch.step # "idle"
      BY <1>18 DEF SwitchTriesCandidate
    <3> QED BY <1>0, <1>18, <3>1, SwitchIs
  <2>2. lifecycle' = lifecycle /\ lifecycle # "stopping"
    BY <1>18, <2>1 DEF SwitchTriesCandidate, Turns
  <2> QED BY <1>18, <2>1, <2>2 DEF SwitchTriesCandidate, Turns, Collected, persistence
<1>19. CASE ShutdownRequested
  BY <1>19 DEF ShutdownRequested, Turns, Collected, sidecar, persistence, Running
<1>20. CASE GateCloses
  BY <1>20 DEF GateCloses, Turns, Collected, sidecar, persistence
<1>21. CASE ShutdownClosesEditor
  BY <1>21 DEF ShutdownClosesEditor, Turns, Collected
<1>22. CASE ShutdownStopsWorker
  <2>1. lifecycle \notin {"running", "requested"} /\ lifecycle' = "stopping" /\ wire' = <<>> /\ graph' = None
        /\ UNCHANGED <<writer, switch, worker, batch>>
    BY <1>22 DEF ShutdownStopsWorker, persistence
  <2> QED BY <2>1 DEF Turns, Collected
<1> QED BY <1>1, <1>2, <1>3, <1>4, <1>5, <1>6, <1>7, <1>8, <1>9, <1>10, <1>11, <1>12, <1>13, <1>14, <1>15,
           <1>16, <1>17, <1>18, <1>19, <1>20, <1>21, <1>22
        DEF Next, Sidecar, Requests, Worker, Switch, Shutdown

-----------------------------------------------------------------------------
(* What is on its way can be told apart.                                   *)

\* At most one thing is new, with an id of its own unless it is a restart.
Fresh(new) ==
    /\ new \subseteq Event /\ \A e, g \in new : e = g
    /\ events' \in Nat /\ events <= events'
    /\ \A e \in new : \/ e.id = 0 /\ e.kind # "final"
                      \/ e.id = events + 1 /\ events' = events + 1

LEMMA NothingIsFresh ==
    ASSUME DataTypes, events' \in Nat, events <= events'
    PROVE  Fresh({})
BY DEF Fresh

LEMMA OneIsFresh ==
    ASSUME DataTypes, NEW e \in Event, e.id = events + 1, events' = events + 1
    PROVE  Fresh({e})
BY DEF Fresh, DataTypes

LEMMA AroundTyped ==
    ASSUME QueueTypes, SwitchTypes
    PROVE  Around \subseteq Event /\ Held \subseteq Around
<1>1. \A x \in ToSet(wire) \union ToSet(channel) \union ToSet(pending) \union ToSet(batch) : x \in Event
  <2>1. \A x \in ToSet(wire) : x \in Event
    BY ElementsOf DEF QueueTypes
  <2>2. \A x \in ToSet(channel) : x \in Event
    BY ElementsOf DEF QueueTypes
  <2>3. \A x \in ToSet(pending) : x \in Event
    BY ElementsOf DEF QueueTypes
  <2>4. \A x \in ToSet(batch) : x \in Event
    BY ElementsOf DEF QueueTypes
  <2> QED BY <2>1, <2>2, <2>3, <2>4
<1>2. \A x \in ToSet(switch.changes) : x \in Event
  BY ElementsOf DEF SwitchTypes
<1>3. \A x \in Lent : x \in Event
  <2>1. CASE reply = None
    BY <2>1 DEF Lent
  <2>2. CASE reply # None
    <3>1. reply.changes \in Seq(Event)
      BY <2>2 DEF QueueTypes
    <3>2. \A x \in ToSet(reply.changes) : x \in Event
      BY <3>1, ElementsOf
    <3> QED BY <2>2, <3>2 DEF Lent
  <2> QED BY <2>1, <2>2
<1> QED BY <1>1, <1>2, <1>3 DEF Around, Held

\* A step that adds nothing to what the switch has applied keeps ids apart.
LEMMA IdsFlow ==
    ASSUME Before, NEW new, Flow(new), Fresh(new), switch'.applied \subseteq switch.applied
    PROVE  IdsTell'
<1>1. /\ IdsTell /\ Around \subseteq Event /\ owed \subseteq Around /\ events \in Nat
  BY AroundTyped DEF Before, Types, DataTypes, OwedIsHeld
<1>2. \A e \in Around : e.id \in Nat /\ e.id <= events
  BY <1>1 DEF IdsTell, Event
<1>3. \A e \in new : e.id \in Nat /\ e.id <= events'
  BY <1>1 DEF Fresh, Event
<1>4. \A e \in Around' : e.id <= events'
  BY <1>1, <1>2, <1>3 DEF Flow, Fresh
<1>5. \A f \in owed' : f \in owed \/ (f \in new /\ f.kind = "final")
  BY DEF Flow
<1>6. \A f \in owed' : f \in Event /\ f.kind = "final" /\ f.id > 0
  BY <1>1, <1>5 DEF IdsTell, Fresh
<1>7. \A f \in owed', e \in Around' : e.id = f.id => e = f
  <2> SUFFICES ASSUME NEW f \in owed', NEW e \in Around', e.id = f.id
               PROVE  e = f
    OBVIOUS
  <2>1. e \in Around \/ e \in new
    BY DEF Flow
  <2>2. CASE f \in owed /\ e \in Around
    BY <1>1, <2>2 DEF IdsTell
  <2>3. CASE f \in owed /\ e \in new
    <3>1. f.id <= events /\ f.id > 0 /\ f.id \in Nat
      BY <1>1, <1>2, <2>3 DEF IdsTell
    <3> QED BY <1>1, <2>3, <3>1 DEF Fresh
  <2>4. CASE f \in new /\ f.kind = "final" /\ e \in Around
    <3>1. f.id = events + 1
      BY <2>4 DEF Fresh
    <3> QED BY <1>1, <1>2, <2>4, <3>1
  <2>5. CASE f \in new /\ e \in new
    BY <2>5 DEF Fresh
  <2> QED BY <1>5, <2>1, <2>2, <2>3, <2>4, <2>5
<1>8. switch.applied \subseteq 0 .. events
  BY <1>1 DEF IdsTell
<1>9. switch'.applied \subseteq 0 .. events'
  BY <1>1, <1>8 DEF Fresh
<1>10. \A f \in owed' : f.id \notin switch'.applied
  <2>1. \A f \in owed : f.id \notin switch'.applied
    BY <1>1 DEF IdsTell
  <2>2. \A f \in new : f.kind = "final" => f.id \notin switch'.applied
    BY <1>1, <1>8 DEF Fresh
  <2> QED BY <1>5, <2>1, <2>2
<1> QED BY <1>4, <1>6, <1>7, <1>9, <1>10 DEF IdsTell

LEMMA SwitchAppliesIds ==
    ASSUME Before, SwitchApplies, Flow({})
    PROVE  IdsTell'
<1> DEFINE h == Head(switch.changes)
<1>1. /\ SwitchTypes /\ switch.changes # <<>> /\ events' = events
      /\ \/ switch'.applied = switch.applied
         \/ switch'.applied = switch.applied \union {h.id} /\ Applies(h, switch.step = "apply")
  <2>1. SwitchTypes /\ switch.changes # <<>> /\ events' = events
    BY DEF Before, Types, SwitchApplies, counters
  <2> QED BY <2>1, SwitchIs
<1>2. CASE switch'.applied = switch.applied
  <2>1. Fresh({})
    BY <1>1, NothingIsFresh DEF Before, Types, DataTypes
  <2> QED BY <1>2, <2>1, IdsFlow
<1>3. CASE switch'.applied = switch.applied \union {h.id} /\ Applies(h, switch.step = "apply")
  <2>1. owed' = owed \ {h}
    BY <1>3 DEF Applies
  <2>2. h \in ToSet(switch.changes)
    BY <1>1, HeadAndTail DEF SwitchTypes
  <2> HIDE DEF h
  <2>3. h \in Around /\ Around \subseteq Event
    BY <2>2, AroundTyped DEF Around, Before, Types
  <2>4. h.id \in 0 .. events
    BY <2>3 DEF Before, IdsTell, Event, Types, DataTypes
  <2>5. Around' \subseteq Around
    BY DEF Flow
  <2>6. \A f \in owed' : f.id # h.id
    BY <2>1, <2>3 DEF Before, IdsTell
  <2> QED BY <1>1, <1>3, <2>1, <2>4, <2>5, <2>6 DEF Before, IdsTell
<1> QED BY <1>1, <1>2, <1>3

-----------------------------------------------------------------------------
(* The steps, the rest of the parts.                                       *)

LEMMA AskedStep ==
    ASSUME Types, Turns, Asked, Next
    PROVE  Asked'
<1>0. SwitchTypes
  BY DEF Types
<1>1. CASE SwitchBegins
  <2>1. switch.step = "idle" /\ switch'.step = "take"
    BY <1>0, <1>1, SwitchIs DEF SwitchBegins, Turns
  <2>2. reply = None
    BY <2>1 DEF Asked, Asking, Acknowledging
  <2> QED BY <1>1, <2>1, <2>2 DEF SwitchBegins, Asked, Asking
<1>2. CASE SwitchTakes
  <2>1. request = None /\ request' = None /\ reply' = None
    BY <1>2 DEF SwitchTakes, Asked
  <2> QED BY <2>1 DEF Asked
<1>3. CASE SwitchApplies
  <2>1. request = None /\ reply = None
    BY <1>3 DEF SwitchApplies, Asked, Applying, Asking, Acknowledging
  <2>2. request' = None /\ reply' = None
    BY <1>3, <2>1 DEF SwitchApplies, persistence
  <2> QED BY <2>2 DEF Asked
<1>4. CASE SwitchAcknowledges
  <2>1. reply = None /\ reply' = None /\ request' = [kind |-> "acknowledge", applied |-> switch.applied]
    BY <1>4 DEF SwitchAcknowledges, Asked, Applying, Asking, Acknowledging
  <2>2. switch'.step \in Acknowledging /\ switch'.applied = switch.applied
    BY <1>0, <1>4, SwitchIs DEF Acknowledging
  <2> QED BY <2>1, <2>2 DEF Asked
<1>5. CASE SwitchGoesOn
  <2>1. request' = None /\ reply' = None
    BY <1>5 DEF SwitchGoesOn, Asked
  <2> QED BY <2>1 DEF Asked
<1>6. CASE SwitchClosesEditor
  <2>1. reply = None /\ reply' = None /\ request' = [kind |-> "take", project |-> open] /\ open' = open
    BY <1>6 DEF SwitchClosesEditor, Asked, Asking, Acknowledging
  <2>2. switch'.step = "take closing"
    BY <1>0, <1>6, SwitchIs
  <2> QED BY <2>1, <2>2 DEF Asked, Asking
<1>7. CASE SwitchGivesUp \/ SwitchTriesCandidate \/ SwitchFails \/ SwitchReplaces
  <2>1. request = None /\ reply = None
    BY <1>7 DEF SwitchGivesUp, SwitchTriesCandidate, SwitchFails, SwitchReplaces, Asked, Asking, Acknowledging
  <2>2. request' = None /\ reply' = None
    BY <1>7, <2>1 DEF SwitchGivesUp, SwitchTriesCandidate, SwitchFails, SwitchReplaces, persistence
  <2> QED BY <2>2 DEF Asked
<1>8. CASE WorkerLends
  <2>1. switch.step \in Asking /\ request' = None /\ switch' = switch
    BY <1>8 DEF WorkerLends, Asked, host
  <2> QED BY <2>1 DEF Asked
<1>9. CASE WorkerForgets
  <2>1. switch.step \in Acknowledging /\ request' = None /\ switch' = switch
    BY <1>9 DEF WorkerForgets, Asked, host
  <2> QED BY <2>1 DEF Asked
<1>10. CASE UNCHANGED <<request, reply, switch, open>>
  BY <1>10 DEF Asked
<1>11. CASE Sidecar \/ Delivers \/ Requests
  <2>1. UNCHANGED <<request, reply, switch, open>>
    BY <1>11 DEF Sidecar, Requests, UserEdits, Reports, EditorCloses, GraphCommits, SidecarExits,
                 SidecarRestarts, Delivers, HostEdits, EditorOpens, host, persistence
  <2> QED BY <1>10, <2>1
<1>12. CASE WorkerReceives \/ WorkerFlushes \/ WorkerApplies \/ WorkerEndsFlush \/ WorkerStops \/ WorkerLocks
  <2>1. UNCHANGED <<request, reply, switch, open>>
    BY <1>12 DEF WorkerReceives, WorkerFlushes, WorkerApplies, WorkerEndsFlush, WorkerStops, WorkerLocks, host
  <2> QED BY <1>10, <2>1
<1>13. CASE ShutdownRequested \/ Shutdown
  <2>1. UNCHANGED <<request, reply, switch, open>>
    BY <1>13 DEF Shutdown, ShutdownRequested, GateCloses, ShutdownClosesEditor, ShutdownStopsWorker, persistence
  <2> QED BY <1>10, <2>1
<1> QED BY <1>1, <1>2, <1>3, <1>4, <1>5, <1>6, <1>7, <1>8, <1>9, <1>11, <1>12, <1>13 DEF Next, Switch, Worker

LEMMA SwitchAppliesFlow ==
    ASSUME Before, SwitchApplies
    PROVE  Flow({})
<1>1. SwitchTypes /\ switch.changes \in Seq(Event) /\ switch.changes # <<>>
  BY DEF Before, Types, SwitchApplies, SwitchTypes
<1>2. UNCHANGED <<wire, channel, pending, batch, worker, reply>>
  BY DEF SwitchApplies, persistence, sidecar
<1>3. owed' \subseteq owed
  BY <1>1, SwitchIs DEF Applies, Fails
<1>4. ToSet(Tail(switch.changes)) \subseteq ToSet(switch.changes)
  BY <1>1, HeadAndTail
<1>5. switch'.changes = Tail(switch.changes) \/ switch'.changes = <<>>
  BY <1>1, SwitchIs
<1> QED BY <1>2, <1>3, <1>4, <1>5, EmptyHasNone, SwitchFlow

\* Every step's flow, with what is new in it.
LEMMA FlowStep ==
    ASSUME Before, Asked, Next
    PROVE  \E new : Flow(new) /\ Fresh(new)
<1>0. DataTypes /\ QueueTypes /\ SwitchTypes /\ events \in Nat
  BY DEF Before, Types, DataTypes
<1>1. ASSUME Flow({}), events' = events
      PROVE  \E new : Flow(new) /\ Fresh(new)
  BY <1>0, <1>1, NothingIsFresh
<1>2. CASE UserEdits \/ GraphCommits \/ HostEdits \/ ShutdownRequested \/ GateCloses
  <2>1. UNCHANGED <<wire, channel, pending, batch, worker, owed, reply, switch, events>>
    BY <1>2 DEF UserEdits, GraphCommits, HostEdits, ShutdownRequested, GateCloses, host, persistence, sidecar, counters
  <2>2. Flow({})
    BY <2>1, SwitchFlow
  <2> QED BY <1>1, <2>1, <2>2
<1>3. CASE Reports
  <2>1. PICK e \in Event : e.id = events + 1 /\ events' = events + 1 /\ Flow({e})
    BY <1>3, ReportsFlow
  <2> QED BY <1>0, <2>1, OneIsFresh
<1>4. CASE EditorCloses \/ (EditorOpens /\ editor # None)
  <2> DEFINE e == FinalOf(editor)
  <2>1. /\ graph # None /\ editor # None /\ wire' = Append(wire, e) /\ owed' = owed \union {e}
        /\ events' = events + 1
        /\ UNCHANGED <<channel, pending, batch, reply, switch, worker>>
    BY <1>4 DEF EditorCloses, EditorOpens, host, persistence, IsUp
  <2>2. e \in Event /\ e.id = events + 1 /\ Flow({e})
    BY <2>1, FinalFlow
  <2> HIDE DEF e
  <2> QED BY <1>0, <2>1, <2>2, OneIsFresh
<1>5. CASE EditorOpens /\ editor = None
  <2>1. UNCHANGED <<wire, channel, pending, batch, worker, owed, reply, switch, events>>
    BY <1>5 DEF EditorOpens, host, persistence
  <2>2. Flow({})
    BY <2>1, SwitchFlow
  <2> QED BY <1>1, <2>1, <2>2
<1>6. CASE SidecarExits \/ ShutdownStopsWorker
  <2>1. /\ wire' = <<>> /\ owed' = owed \ ToSet(wire) /\ events' = events
        /\ UNCHANGED <<channel, pending, batch, reply, switch, worker>>
    BY <1>6 DEF SidecarExits, ShutdownStopsWorker, host, persistence, counters
  <2>2. Flow({})
    BY <2>1, SidecarGoesFlow
  <2> QED BY <1>1, <2>1, <2>2
<1>7. CASE SidecarRestarts
  <2>1. events' = events
    BY <1>7 DEF SidecarRestarts, counters
  <2>2. Restarted \in Event /\ Restarted.id = 0 /\ Restarted.kind # "final" /\ Flow({Restarted})
    BY <1>7, SidecarRestartsFlow
  <2>3. Fresh({Restarted})
    BY <1>0, <2>1, <2>2 DEF Fresh
  <2> QED BY <2>2, <2>3
<1>8. CASE Delivers \/ WorkerReceives \/ WorkerFlushes \/ WorkerLocks \/ WorkerApplies \/ WorkerEndsFlush
           \/ WorkerLends \/ WorkerForgets \/ WorkerStops
  <2>1. events' = events
    BY <1>8 DEF Delivers, WorkerReceives, WorkerFlushes, WorkerLocks, WorkerApplies, WorkerEndsFlush,
                WorkerLends, WorkerForgets, WorkerStops, counters
  <2>2. Flow({})
    BY <1>8, DeliversFlow, WorkerReceivesFlow, BeginsFlushFlow, WorkerAppliesFlow, WorkerEndsFlushFlow,
       WorkerLendsFlow, WorkerForgetsFlow, WorkerStopsFlow
  <2> QED BY <1>1, <2>1, <2>2
<1>9. CASE SwitchClosesEditor \/ ShutdownClosesEditor
  <2>1. /\ ClosesEditor /\ UNCHANGED <<pending, batch, reply, worker>>
        /\ switch'.changes = switch.changes /\ lifecycle # "stopping"
    <3>1. CASE SwitchClosesEditor
      <4>1. switch'.changes = switch.changes
        BY <1>0, <3>1, SwitchIs
      <4>2. ClosesEditor /\ UNCHANGED <<pending, batch, reply, worker>> /\ switch.step # "idle"
        BY <3>1 DEF SwitchClosesEditor
      <4> QED BY <4>1, <4>2 DEF Before, Turns
    <3>2. CASE ShutdownClosesEditor
      BY <3>2 DEF ShutdownClosesEditor
    <3> QED BY <1>9, <3>1, <3>2
  <2>2. /\ \A e \in Closing : e \in Event /\ e.id = events + 1 /\ events' = events + 1
        /\ Closing = {} => events' = events
        /\ Flow(Closing)
    BY <2>1, ClosesEditorFlow
  <2>3. \A e, g \in Closing : e = g
    BY DEF Closing
  <2>4. Fresh(Closing)
    <3>1. CASE Closing = {}
      <4>1. events' = events
        BY <2>2, <3>1
      <4> QED BY <1>0, <3>1, <4>1 DEF Fresh
    <3>2. CASE Closing # {}
      <4>1. events' = events + 1
        BY <2>2, <3>2
      <4> QED BY <1>0, <2>2, <2>3, <4>1 DEF Fresh
    <3> QED BY <3>1, <3>2
  <2> QED BY <2>2, <2>4
<1>10. CASE SwitchApplies
  <2>1. events' = events
    BY <1>10 DEF SwitchApplies, counters
  <2> QED BY <1>1, <1>10, <2>1, SwitchAppliesFlow
<1>11. CASE SwitchBegins \/ SwitchTakes \/ SwitchAcknowledges \/ SwitchGoesOn \/ SwitchGivesUp
            \/ SwitchTriesCandidate \/ SwitchFails \/ SwitchReplaces
  <2>1. /\ UNCHANGED <<wire, channel, pending, batch, worker, owed, events>>
        /\ reply' = reply \/ reply' = None
    BY <1>11 DEF SwitchBegins, SwitchTakes, SwitchAcknowledges, SwitchGoesOn, SwitchGivesUp,
                 SwitchTriesCandidate, SwitchFails, SwitchReplaces, persistence, sidecar, counters
  <2>2. \/ switch'.changes = switch.changes
        \/ switch'.changes = <<>>
        \/ switch'.changes = reply.changes /\ reply # None
    BY <1>0, <1>11, SwitchIs DEF NoSwitchIs, SwitchTakes
  <2>3. ToSet(switch'.changes) \subseteq ToSet(switch.changes) \union Lent
    BY <2>2, EmptyHasNone DEF Lent
  <2>4. Flow({})
    BY <2>1, <2>3, SwitchFlow
  <2> QED BY <1>1, <2>1, <2>4
<1> QED BY <1>2, <1>3, <1>4, <1>5, <1>6, <1>7, <1>8, <1>9, <1>10, <1>11
        DEF Next, Sidecar, Requests, Worker, Switch, Shutdown

\* What the switch has applied only grows while it applies.
LEMMA AppliedShrinks ==
    ASSUME SwitchTypes, Next, ~SwitchApplies
    PROVE  switch'.applied \subseteq switch.applied
<1>1. CASE SwitchBegins \/ Switch
  BY <1>1, SwitchIs DEF Switch, NoSwitchIs
<1>2. CASE Sidecar \/ Delivers \/ Requests \/ Worker
  <2>1. switch' = switch
    BY <1>2 DEF Sidecar, Requests, Worker, UserEdits, Reports, EditorCloses, GraphCommits, SidecarExits,
                SidecarRestarts, Delivers, HostEdits, EditorOpens, WorkerReceives, WorkerFlushes,
                WorkerApplies, WorkerEndsFlush, WorkerLends, WorkerForgets, WorkerStops, WorkerLocks, host
  <2> QED BY <2>1
<1>3. CASE ShutdownRequested \/ Shutdown
  <2>1. switch' = switch
    BY <1>3 DEF Shutdown, ShutdownRequested, GateCloses, ShutdownClosesEditor, ShutdownStopsWorker
  <2> QED BY <2>1
<1> QED BY <1>1, <1>2, <1>3 DEF Next

LEMMA IdsTellStep ==
    ASSUME Before, Asked, Next
    PROVE  IdsTell' /\ QueueTypes' /\ owed' \subseteq Held'
<1>1. PICK new : Flow(new) /\ Fresh(new)
  BY FlowStep
<1>2. QueueTypes' /\ owed' \subseteq Held'
  BY <1>1 DEF Flow
<1>3. SwitchTypes /\ QueueTypes
  BY DEF Before, Types
<1>4. CASE ~SwitchApplies
  <2>1. switch'.applied \subseteq switch.applied
    BY <1>3, <1>4, AppliedShrinks
  <2> QED BY <1>1, <1>2, <2>1, IdsFlow
<1>5. CASE SwitchApplies
  <2> QED BY <1>2, <1>5, SwitchAppliesFlow, SwitchAppliesIds
<1> QED BY <1>4, <1>5

\* While no Project is left there is nothing to say of the switch.
LEMMA NotLeaving ==
    ASSUME switch'.step \notin Leaving
    PROVE  OwedToSwitch'
BY DEF OwedToSwitch, Leaving

\* A step that leaves the switch alone, opens no editor and adds nothing to
\* what is owed.
LEMMA StillLeaving ==
    ASSUME OwedToSwitch, UNCHANGED <<switch, reply>>, owed' \subseteq owed, editor = None => editor' = None,
           ToSet(wire') \subseteq ToSet(wire)
    PROVE  OwedToSwitch'
BY DEF OwedToSwitch

LEMMA OwedToSwitchStep ==
    ASSUME Before, Asked, Next
    PROVE  OwedToSwitch'
<1>0. DataTypes /\ QueueTypes /\ SwitchTypes /\ OwedToSwitch /\ Turns
  BY DEF Before, Types
<1>1. ASSUME switch' = switch, editor # None \/ switch.step = "idle"
      PROVE  OwedToSwitch'
  <2>1. switch'.step \notin Leaving
    BY <1>0, <1>1 DEF OwedToSwitch, Leaving
  <2> QED BY <2>1, NotLeaving
<1>2. CASE UserEdits \/ Reports \/ EditorCloses \/ EditorOpens \/ HostEdits
  <2>1. switch' = switch /\ (editor # None \/ writer = "free")
    BY <1>2 DEF UserEdits, Reports, EditorCloses, EditorOpens, HostEdits, host
  <2>2. editor # None \/ switch.step = "idle"
    BY <1>0, <2>1 DEF Turns
  <2> QED BY <1>1, <2>1, <2>2
<1>3. CASE GraphCommits \/ SidecarRestarts \/ ShutdownRequested \/ GateCloses \/ WorkerReceives
           \/ WorkerFlushes \/ WorkerEndsFlush \/ WorkerStops \/ WorkerLocks
  <2>1. UNCHANGED <<switch, reply, wire, owed>> /\ (editor = None => editor' = None)
    BY <1>3 DEF GraphCommits, SidecarRestarts, ShutdownRequested, GateCloses, WorkerReceives,
           WorkerFlushes, WorkerEndsFlush, WorkerStops, WorkerLocks, host, persistence, sidecar
  <2> QED BY <1>0, <2>1, StillLeaving
<1>4. CASE SidecarExits \/ ShutdownStopsWorker
  <2>1. UNCHANGED <<switch, reply>> /\ owed' \subseteq owed /\ editor' = None /\ wire' = <<>>
    BY <1>4 DEF SidecarExits, ShutdownStopsWorker, host, persistence
  <2> QED BY <1>0, <2>1, EmptyHasNone, StillLeaving
<1>5. CASE Delivers
  <2>1. UNCHANGED <<switch, reply, owed, editor>> /\ wire # <<>> /\ wire' = Tail(wire)
    BY <1>5 DEF Delivers, host
  <2>2. ToSet(wire') \subseteq ToSet(wire)
    BY <1>0, <2>1, HeadAndTail DEF QueueTypes
  <2> QED BY <1>0, <2>1, <2>2, StillLeaving
<1>6. CASE WorkerApplies
  <2>1. switch' = switch /\ worker \in {"flushing", "last flush"}
    BY <1>6 DEF WorkerApplies
  <2>2. switch.step = "idle"
    BY <1>0, <2>1 DEF Turns
  <2> QED BY <1>1, <2>1, <2>2
<1>7. CASE WorkerLends
  <2>1. /\ UNCHANGED <<switch, wire, owed, editor, batch>> /\ channel' = <<>> /\ switch.step \in Asking
        /\ request.project = open
    BY <1>7 DEF WorkerLends, Asked, host, sidecar
  <2>2. \A x : x \in ToSet(reply'.changes) <=> x \in ToSet(pending') /\ x.project = open
    BY <1>7, <2>1, WorkerLendsFlow
  <2>3. owed' \subseteq Held'
    BY <1>7, WorkerLendsFlow DEF Flow
  <2>4. batch = <<>>
    BY <1>0, <2>1 DEF Turns, Asking
  <2>5. ToSet(batch') = {} /\ ToSet(channel') = {}
    BY <2>1, <2>4, EmptyHasNone
  <2>6. CASE switch.step = "take closing"
    <3>1. editor = None /\ owed \intersect ToSet(wire) = {}
      BY <1>0, <2>6 DEF OwedToSwitch, Leaving
    <3>2. \A f \in owed : f \in ToSet(pending') /\ f.project = open
      BY <2>1, <2>3, <2>5, <3>1 DEF Held, Before, OwedIsHeld
    <3>3. owed \subseteq ToSet(reply'.changes)
      BY <2>2, <3>2
    <3> QED BY <2>1, <2>6, <3>1, <3>3 DEF OwedToSwitch
  <2>7. CASE switch.step = "take"
    BY <2>1, <2>7, NotLeaving DEF Leaving
  <2> QED BY <2>1, <2>6, <2>7 DEF Asking
<1>8. CASE WorkerForgets
  <2>1. UNCHANGED <<switch, wire, owed, editor>> /\ switch.step \in Acknowledging
    BY <1>8 DEF WorkerForgets, Asked, host, sidecar
  <2> QED BY <1>0, <2>1 DEF OwedToSwitch, Acknowledging
<1>9. CASE SwitchBegins \/ SwitchGivesUp \/ SwitchFails \/ SwitchReplaces
  <2>1. switch'.step \in {"idle", "take"}
    BY <1>0, <1>9, SwitchIs DEF NoSwitchIs
  <2> QED BY <2>1, NotLeaving DEF Leaving
<1>10. CASE SwitchTakes
  <2>1. UNCHANGED <<wire, owed, editor>> /\ switch.step \in Asking /\ reply # None
    BY <1>10 DEF SwitchTakes, sidecar
  <2>2. /\ switch'.step = IF switch.step = "take" THEN "apply" ELSE "apply closing"
        /\ switch'.changes = reply.changes
    BY <1>0, <1>10, SwitchIs
  <2>3. CASE switch.step = "take"
    BY <2>2, <2>3, NotLeaving DEF Leaving
  <2>4. CASE switch.step = "take closing"
    BY <1>0, <2>1, <2>2, <2>4 DEF OwedToSwitch, Leaving
  <2> QED BY <2>1, <2>3, <2>4 DEF Asking
<1>11. CASE SwitchApplies
  <2> DEFINE h == Head(switch.changes)
             rest == Tail(switch.changes)
  <2>1. /\ UNCHANGED <<wire, editor>> /\ switch.step \in Applying /\ switch.changes # <<>>
        /\ switch'.step = switch.step
    BY <1>0, <1>11, SwitchIs DEF SwitchApplies, sidecar
  <2>2. ToSet(switch.changes) = {h} \union ToSet(rest)
    BY <1>0, <2>1, HeadAndTail DEF SwitchTypes
  <2>3. \/ switch'.changes = rest /\ switch'.failed = switch.failed /\ owed' = owed \ {h}
        \/ switch'.failed = TRUE /\ owed' = owed
    BY <1>0, <1>11, SwitchIs DEF Applies, Fails
  <2> HIDE DEF h, rest
  <2>4. CASE switch.step = "apply"
    BY <2>1, <2>4, NotLeaving DEF Leaving
  <2>5. CASE switch.step = "apply closing"
    <3>1. editor' = None /\ owed' \intersect ToSet(wire') = {}
      BY <1>0, <2>1, <2>3, <2>5 DEF OwedToSwitch, Leaving
    <3>2. ~switch'.failed => owed' \subseteq ToSet(switch'.changes)
      BY <1>0, <2>2, <2>3, <2>5 DEF OwedToSwitch
    <3> QED BY <2>1, <2>5, <3>1, <3>2 DEF OwedToSwitch
  <2> QED BY <2>1, <2>4, <2>5 DEF Applying
<1>12. CASE SwitchAcknowledges
  <2>1. UNCHANGED <<wire, owed, editor>> /\ switch.step \in Applying /\ switch.changes = <<>>
    BY <1>12 DEF SwitchAcknowledges, sidecar
  <2>2. /\ switch'.step = IF switch.step = "apply" THEN "acknowledge" ELSE "acknowledge closing"
        /\ switch'.failed = switch.failed
    BY <1>0, <1>12, SwitchIs
  <2>3. CASE switch.step = "apply"
    BY <2>2, <2>3, NotLeaving DEF Leaving
  <2>4. CASE switch.step = "apply closing"
    <3>1. ~switch.failed => owed = {}
      BY <1>0, <2>1, <2>4, EmptyHasNone DEF OwedToSwitch
    <3> QED BY <1>0, <2>1, <2>2, <2>4, <3>1 DEF OwedToSwitch, Leaving
  <2> QED BY <2>1, <2>3, <2>4 DEF Applying
<1>13. CASE SwitchGoesOn
  <2>1. UNCHANGED <<wire, owed, editor>> /\ switch.step \in Acknowledging
    BY <1>13 DEF SwitchGoesOn, sidecar
  <2>2. \/ switch'.step \in {"idle", "close"}
        \/ ~switch.failed /\ switch.step # "acknowledge" /\ switch'.step = "load"
    BY <1>0, <1>13, SwitchIs DEF NoSwitchIs
  <2>3. CASE switch'.step \in {"idle", "close"}
    BY <2>3, NotLeaving DEF Leaving
  <2>4. CASE ~switch.failed /\ switch.step # "acknowledge" /\ switch'.step = "load"
    <3>1. switch.step = "acknowledge closing"
      BY <2>1, <2>4 DEF Acknowledging
    <3> QED BY <1>0, <2>1, <2>4, <3>1 DEF OwedToSwitch, Leaving
  <2> QED BY <2>2, <2>3, <2>4
<1>14. CASE SwitchClosesEditor
  <2>1. switch.step = "close" /\ ClosesEditor /\ UNCHANGED <<pending, batch, reply, worker>>
    BY <1>14 DEF SwitchClosesEditor
  <2>2. switch'.step = "take closing" /\ switch'.changes = switch.changes
    BY <1>0, <1>14, SwitchIs
  <2>3. lifecycle # "stopping" /\ reply' = None
    BY <1>0, <2>1 DEF Turns, Asked, Asking, Acknowledging
  <2>4. owed' \intersect ToSet(wire') = {} /\ editor' = None
    BY <2>1, <2>2, <2>3, ClosesEditorFlow
  <2> QED BY <2>2, <2>3, <2>4 DEF OwedToSwitch
<1>15. CASE SwitchTriesCandidate
  <2>1. switch.step = "load" /\ UNCHANGED <<wire, owed, editor>>
    BY <1>15 DEF SwitchTriesCandidate
  <2>2. switch'.step = "replace"
    BY <1>0, <1>15, SwitchIs
  <2> QED BY <1>0, <2>1, <2>2 DEF OwedToSwitch, Leaving
<1>16. CASE ShutdownClosesEditor
  <2>1. switch' = switch /\ lifecycle = "closed"
    BY <1>16 DEF ShutdownClosesEditor
  <2>2. switch.step = "idle"
    BY <1>0, <2>1 DEF Turns
  <2> QED BY <1>1, <2>1, <2>2
<1> QED BY <1>2, <1>3, <1>4, <1>5, <1>6, <1>7, <1>8, <1>9, <1>10, <1>11, <1>12, <1>13, <1>14, <1>15, <1>16
        DEF Next, Sidecar, Requests, Worker, Switch, Shutdown

\* What is owed, and the editor that may come to owe something, are the open
\* Project's.
IsHere == EditorIsHere /\ \A f \in owed : f.project = open

LEMMA IsHereStep ==
    ASSUME Before, EditorIsHere, Next
    PROVE  IsHere'
<1>0. DataTypes /\ QueueTypes /\ SwitchTypes /\ OwedToSwitch /\ IsHere
  BY DEF Before, Types, OwedIsHeld, IsHere
<1>1. ASSUME open' = open, owed' \subseteq owed, editor' = None \/ editor' = editor
      PROVE  IsHere'
  BY <1>0, <1>1 DEF IsHere, EditorIsHere
<1>2. CASE UserEdits \/ Reports \/ GraphCommits
  <2>1. /\ UNCHANGED <<open, owed>>
        /\ editor' = None \/ (editor # None /\ editor'.project = editor.project)
    <3>1. editor # None => editor \in Editor
      BY <1>0 DEF DataTypes
    <3>2. CASE UserEdits
      BY <3>1, <3>2 DEF UserEdits, host, Editor
    <3>3. CASE Reports
      BY <3>1, <3>3 DEF Reports, host, Editor
    <3>4. CASE GraphCommits
      BY <3>1, <3>4 DEF GraphCommits, host, Editor
    <3> QED BY <1>2, <3>2, <3>3, <3>4
  <2> QED BY <1>0, <2>1 DEF IsHere, EditorIsHere
<1>3. CASE EditorCloses \/ EditorOpens
  <2>1. /\ open' = open /\ graph # None
        /\ editor' = None \/ editor'.project = open
        /\ owed' = owed \/ (editor # None /\ owed' = owed \union {FinalOf(editor)})
    BY <1>3 DEF EditorCloses, EditorOpens, host, IsUp
  <2>2. editor # None => FinalOf(editor).project = editor.project
    BY <1>0, <2>1, FinalIs
  <2> QED BY <1>0, <2>1, <2>2 DEF IsHere, EditorIsHere
<1>4. CASE SidecarExits \/ SidecarRestarts \/ Delivers \/ HostEdits \/ ShutdownRequested \/ GateCloses
           \/ ShutdownStopsWorker
  <2>1. open' = open /\ owed' \subseteq owed /\ (editor' = None \/ editor' = editor)
    BY <1>4 DEF SidecarExits, SidecarRestarts, Delivers, HostEdits, ShutdownRequested, GateCloses,
                ShutdownStopsWorker, host, sidecar
  <2> QED BY <1>1, <2>1
<1>5. CASE Worker
  <2>1. open' = open /\ owed' \subseteq owed /\ editor' = editor
    BY <1>5 DEF Worker, WorkerReceives, WorkerFlushes, WorkerApplies, WorkerEndsFlush, WorkerLends, WorkerForgets,
                WorkerStops, WorkerLocks, Applies, Fails, host, sidecar
  <2> QED BY <1>1, <2>1
<1>6. CASE SwitchBegins \/ SwitchTakes \/ SwitchAcknowledges \/ SwitchGoesOn \/ SwitchGivesUp
           \/ SwitchTriesCandidate \/ SwitchFails
  <2>1. UNCHANGED <<open, owed, editor>>
    BY <1>6 DEF SwitchBegins, SwitchTakes, SwitchAcknowledges, SwitchGoesOn, SwitchGivesUp,
                SwitchTriesCandidate, SwitchFails, sidecar
  <2> QED BY <1>1, <2>1
<1>7. CASE SwitchApplies
  <2>1. open' = open /\ owed' \subseteq owed /\ editor' = editor
    BY <1>7 DEF SwitchApplies, Applies, Fails, sidecar
  <2> QED BY <1>1, <2>1
<1>8. CASE SwitchClosesEditor \/ ShutdownClosesEditor
  <2>1. open' = open /\ ClosesEditor
    BY <1>8 DEF SwitchClosesEditor, ShutdownClosesEditor
  <2>2. owed' = owed \union Closing /\ editor' = None /\ graph # None
    BY <1>0, <2>1, ClosesEditorIs
  <2>3. \A e \in Closing : editor # None /\ e.project = editor.project
    BY <1>0, <2>2, ClosingIs
  <2> QED BY <1>0, <2>1, <2>2, <2>3 DEF IsHere, EditorIsHere
<1>9. CASE SwitchReplaces
  <2>1. switch.step = "replace" /\ UNCHANGED <<owed, editor>>
    BY <1>9 DEF SwitchReplaces, sidecar
  <2>2. editor = None /\ owed = {}
    BY <1>0, <2>1 DEF OwedToSwitch, Leaving
  <2> QED BY <2>1, <2>2 DEF IsHere, EditorIsHere
<1> QED BY <1>2, <1>3, <1>4, <1>5, <1>6, <1>7, <1>8, <1>9
        DEF Next, Sidecar, Requests, Switch, Shutdown

LEMMA PersistenceInvInit == Init => PersistenceInv
<1> SUFFICES ASSUME Init PROVE PersistenceInv
  OBVIOUS
<1> USE PersistenceAssumption
<1>1. /\ switch = NoSwitch /\ owed = {} /\ editor = None /\ request = None /\ reply = None
      /\ wire = <<>> /\ channel = <<>> /\ pending = <<>> /\ batch = <<>>
      /\ worker = "waiting" /\ writer = "free" /\ lifecycle = "running"
      /\ events = 0 /\ versions = 0
  BY DEF Init
<1>2. DataTypes
  <2>1. Blank \in Record /\ Blank.slots \in [Device -> Slot] /\ Blank.revision = 0
    BY DEF Blank, Record, Slot
  <2>2. project = [p \in Project |-> Blank] /\ open = First /\ target = Snapshot(First, project)
        /\ graph = [project |-> First, revision |-> 0, slots |-> Blank.slots,
                    racks |-> RacksFor(Blank.slots, NoRacks)]
    BY DEF Init
  <2>3. project \in [Project -> Record]
    BY <2>1, <2>2
  <2>4. target \in Graph
    BY <2>2, <2>3, SnapshotTyped
  <2>5. RacksFor(Blank.slots, NoRacks) \in [Device -> Rack \union {None}]
    BY <2>1, NoRacksTyped, RacksTyped
  <2>6. graph \in Runtime
    BY <2>1, <2>2, <2>5 DEF Runtime
  <2> QED BY <1>1, <2>2, <2>3, <2>4, <2>6 DEF DataTypes
<1>3. <<>> \in Seq(Event) /\ ToSet(<<>>) = {}
  BY EmptyHasNone
<1>4. QueueTypes
  BY <1>1, <1>3 DEF QueueTypes
<1>5. /\ switch = [step |-> "idle", to |-> None, changes |-> <<>>, applied |-> {}, failed |-> FALSE]
      /\ switch.step = "idle" /\ switch.changes = <<>> /\ switch.applied = {}
  BY <1>1 DEF NoSwitch
<1>6. SwitchTypes
  BY <1>3, <1>5 DEF SwitchTypes, Steps
<1>7. Around = {}
  BY <1>1, <1>3, <1>5 DEF Around, Lent
<1>8. Turns /\ Asked
  BY <1>1, <1>5 DEF Turns, Asked, Collected
<1>9. IdsTell /\ EditorIsHere /\ OwedIsHeld
  BY <1>1, <1>5, <1>7 DEF IdsTell, EditorIsHere, OwedIsHeld
<1>10. OwedToSwitch
  BY <1>5 DEF OwedToSwitch, Leaving
<1> QED BY <1>2, <1>4, <1>6, <1>8, <1>9, <1>10 DEF PersistenceInv, Types

LEMMA PersistenceInvStep == PersistenceInv /\ [Next]_vars => PersistenceInv'
<1> SUFFICES ASSUME PersistenceInv, [Next]_vars PROVE PersistenceInv'
  OBVIOUS
<1>1. CASE Next
  <2>1. Before /\ Asked /\ EditorIsHere /\ Types /\ Turns
    BY DEF PersistenceInv, Before
  <2>2. DataTypes'
    BY <1>1, <2>1, DataTypesStep
  <2>3. SwitchTypes'
    BY <1>1, <2>1, SwitchTypesStep
  <2>4. Turns'
    BY <1>1, <2>1, TurnsStep
  <2>5. Asked'
    BY <1>1, <2>1, AskedStep
  <2>6. IdsTell' /\ QueueTypes' /\ owed' \subseteq Held'
    BY <1>1, <2>1, IdsTellStep
  <2>7. OwedToSwitch'
    BY <1>1, <2>1, OwedToSwitchStep
  <2>8. IsHere'
    BY <1>1, <2>1, IsHereStep
  <2> QED BY <2>2, <2>3, <2>4, <2>5, <2>6, <2>7, <2>8 DEF PersistenceInv, Types, IsHere, OwedIsHeld
<1>2. CASE UNCHANGED vars
  <2>1. UNCHANGED <<project, open, target, writer, switch, lifecycle, channel, request, reply, pending,
                    worker, batch, failed, graph, editor, wire, versions, events, owed>>
    BY <1>2 DEF vars, host, persistence, sidecar, counters
  <2>2. Types'
    BY <2>1 DEF PersistenceInv, Types, DataTypes, QueueTypes, SwitchTypes
  <2>3. Turns' /\ Asked'
    BY <2>1 DEF PersistenceInv, Turns, Asked, Collected
  <2>4. Around' = Around /\ Held' = Held
    BY <2>1 DEF Around, Held, Lent, Collected
  <2>5. IdsTell' /\ OwedIsHeld'
    BY <2>1, <2>4 DEF PersistenceInv, IdsTell, OwedIsHeld
  <2>6. OwedToSwitch' /\ EditorIsHere'
    BY <2>1 DEF PersistenceInv, OwedToSwitch, EditorIsHere
  <2> QED BY <2>2, <2>3, <2>5, <2>6 DEF PersistenceInv
<1> QED BY <1>1, <1>2

(* The invariant.  A final state that is owed is where the worker reads it,     *)
(* its id tells it from every other event, so that neither an acknowledgement   *)
(* nor an applied change can stand for it, and a switch that leaves a Project   *)
(* has taken, applied and acknowledged every one of them before it loads the    *)
(* other.                                                                       *)
THEOREM PersistenceInvariance == Spec => []PersistenceInv
<1>1. Init => PersistenceInv
  BY PersistenceInvInit
<1>2. PersistenceInv /\ [Next]_vars => PersistenceInv'
  BY PersistenceInvStep
<1> QED BY <1>1, <1>2, PTL DEF Spec

(* A closing editor's state that reached the Host is held by the worker until   *)
(* the Session keeps it or has no place for it, and its Project is still the    *)
(* open one: through restarts of the sidecar, failed saves, Project switches    *)
(* and the shutdown.                                                            *)
THEOREM FinalStatesAreKept == Spec => []FinalsAreKept
<1>1. PersistenceInv => FinalsAreKept
  <2> SUFFICES ASSUME PersistenceInv PROVE FinalsAreKept
    OBVIOUS
  <2>1. /\ wire \in Seq(Event) /\ pending \in Seq(Event) /\ batch \in Seq(Event)
        /\ owed \subseteq Held /\ \A f \in owed : f.project = open
    BY DEF PersistenceInv, Types, QueueTypes, OwedIsHeld
  <2>2. wire \o pending \in Seq(Event) /\ ToSet(wire \o pending) = ToSet(wire) \union ToSet(pending)
    BY <2>1, BothParts
  <2> DEFINE first == wire \o pending
  <2> HIDE DEF first
  <2>3. first \in Seq(Event) /\ ToSet(first) = ToSet(wire) \union ToSet(pending)
    BY <2>2 DEF first
  <2>4. ToSet(first \o batch) = ToSet(first) \union ToSet(batch)
    BY <2>1, <2>3, BothParts
  <2>5. ToSet(wire \o pending \o batch) = ToSet(wire) \union ToSet(pending) \union ToSet(batch)
    BY <2>3, <2>4 DEF first
  <2> QED BY <2>1, <2>5 DEF FinalsAreKept, Held, Collected
<1>2. Spec => []PersistenceInv
  BY PersistenceInvariance
<1> QED BY <1>1, <1>2, PTL
-----------------------------------------------------------------------------
(* The order in which events arrive.                                       *)

\* What is earlier was reported first where it matters: a final state after
\* everything that arrives before it, and before everything that arrives later.
\* A restart has no id.
Earlier(a, b) ==
    \/ a.kind = "restarted" \/ b.kind = "restarted"
    \/ a.id # b.id /\ (a.kind = "final" \/ b.kind = "final" => a.id < b.id)

InOrder(s) == \A i, j \in 1 .. Len(s) : i < j => Earlier(s[i], s[j])
Precede(A, B) == \A a \in A, b \in B : Earlier(a, b)

LEMMA EmptyInOrder == InOrder(<<>>)
BY DEF InOrder

LEMMA AppendInOrder ==
    ASSUME NEW S, NEW s \in Seq(S), NEW e \in S, InOrder(s), \A x \in ToSet(s) : Earlier(x, e)
    PROVE  InOrder(Append(s, e))
<1> DEFINE t == Append(s, e)
<1>1. /\ Len(s) \in Nat /\ Len(t) = Len(s) + 1 /\ t[Len(s) + 1] = e
      /\ \A i \in 1 .. Len(s) : t[i] = s[i]
  OBVIOUS
<1>2. \A i \in 1 .. Len(s) : Earlier(s[i], e)
  BY ElementsOf
<1> HIDE DEF t
<1>3. ASSUME NEW i \in 1 .. Len(t), NEW j \in 1 .. Len(t), i < j PROVE Earlier(t[i], t[j])
  <2>1. i \in 1 .. Len(s) /\ t[i] = s[i]
    BY <1>1, <1>3
  <2>2. CASE j = Len(s) + 1
    BY <1>1, <1>2, <2>1, <2>2
  <2>3. CASE j # Len(s) + 1
    <3>1. j \in 1 .. Len(s) /\ t[j] = s[j]
      BY <1>1, <2>3
    <3> QED BY <1>3, <2>1, <3>1 DEF InOrder
  <2> QED BY <2>2, <2>3
<1>4. InOrder(t)
  BY <1>3 DEF InOrder
<1> QED BY <1>4 DEF t

LEMMA TailInOrder ==
    ASSUME NEW S, NEW s \in Seq(S), s # <<>>, InOrder(s)
    PROVE  InOrder(Tail(s)) /\ \A x \in ToSet(Tail(s)) : Earlier(Head(s), x)
<1> DEFINE t == Tail(s)
<1>1. /\ Len(s) \in Nat \ {0} /\ t \in Seq(S) /\ Len(t) = Len(s) - 1 /\ Head(s) = s[1]
      /\ \A i \in 1 .. (Len(s) - 1) : t[i] = s[i + 1]
  OBVIOUS
<1> HIDE DEF t
<1>2. \A i, j \in 1 .. Len(t) : i < j => Earlier(t[i], t[j])
  <2> TAKE i, j \in 1 .. Len(t)
  <2>1. i + 1 \in 1 .. Len(s) /\ j + 1 \in 1 .. Len(s) /\ t[i] = s[i + 1] /\ t[j] = s[j + 1]
        /\ (i < j => i + 1 < j + 1)
    BY <1>1
  <2> QED BY <2>1 DEF InOrder
<1>3. \A x \in ToSet(t) : Earlier(s[1], x)
  <2> TAKE x \in ToSet(t)
  <2>1. PICK i \in 1 .. Len(t) : x = t[i]
    BY <1>1, ElementsOf
  <2>2. 1 \in 1 .. Len(s) /\ i + 1 \in 1 .. Len(s) /\ 1 < i + 1 /\ x = s[i + 1]
    BY <1>1, <2>1
  <2> QED BY <2>2 DEF InOrder
<1>4. InOrder(t)
  BY <1>2 DEF InOrder
<1> QED BY <1>1, <1>3, <1>4 DEF t

LEMMA BothInOrder ==
    ASSUME NEW S, NEW s \in Seq(S), NEW t \in Seq(S), InOrder(s), InOrder(t),
           Precede(ToSet(s), ToSet(t))
    PROVE  InOrder(s \o t)
<1> DEFINE u == s \o t
<1>1. /\ Len(u) = Len(s) + Len(t) /\ Len(s) \in Nat /\ Len(t) \in Nat
      /\ \A i \in 1 .. Len(s) : u[i] = s[i]
      /\ \A i \in 1 .. Len(t) : u[Len(s) + i] = t[i]
  OBVIOUS
<1>2. \A i \in 1 .. Len(s), j \in 1 .. Len(t) : Earlier(s[i], t[j])
  BY ElementsOf DEF Precede
<1> HIDE DEF u
<1>3. ASSUME NEW i \in 1 .. Len(u), NEW j \in 1 .. Len(u), i < j PROVE Earlier(u[i], u[j])
  <2>1. CASE j <= Len(s)
    <3>1. i \in 1 .. Len(s) /\ j \in 1 .. Len(s) /\ u[i] = s[i] /\ u[j] = s[j]
      BY <1>1, <1>3, <2>1
    <3> QED BY <1>3, <3>1 DEF InOrder
  <2>2. CASE ~(j <= Len(s))
    <3>1. j - Len(s) \in 1 .. Len(t) /\ Len(s) + (j - Len(s)) = j
      BY <1>1, <2>2
    <3>2. u[j] = t[j - Len(s)]
      BY <1>1, <3>1
    <3>3. CASE i <= Len(s)
      <4>1. i \in 1 .. Len(s) /\ u[i] = s[i]
        BY <1>1, <3>3
      <4> QED BY <1>2, <3>1, <3>2, <4>1
    <3>4. CASE ~(i <= Len(s))
      <4>1. i - Len(s) \in 1 .. Len(t) /\ Len(s) + (i - Len(s)) = i /\ i - Len(s) < j - Len(s)
        BY <1>1, <1>3, <3>4
      <4>2. u[i] = t[i - Len(s)]
        BY <1>1, <4>1
      <4> QED BY <3>1, <3>2, <4>1, <4>2 DEF InOrder
    <3> QED BY <3>3, <3>4
  <2> QED BY <2>1, <2>2
<1>4. InOrder(u)
  BY <1>3 DEF InOrder
<1> QED BY <1>4 DEF u

\* A queue in order, cut in two.
LEMMA CutInOrder ==
    ASSUME NEW S, NEW s \in Seq(S), NEW n \in 0 .. Len(s), InOrder(s)
    PROVE  /\ InOrder(SubSeq(s, 1, n)) /\ InOrder(SubSeq(s, n + 1, Len(s)))
           /\ Precede(ToSet(SubSeq(s, 1, n)), ToSet(SubSeq(s, n + 1, Len(s))))
<1> DEFINE a == SubSeq(s, 1, n)
           b == SubSeq(s, n + 1, Len(s))
<1>1. Len(s) \in Nat /\ n \in Nat /\ n <= Len(s)
  OBVIOUS
<1>2. a \in Seq(S) /\ Len(a) = n /\ \A i \in 1 .. n : a[i] = s[i]
  BY <1>1
<1>3. b \in Seq(S) /\ Len(b) = Len(s) - n /\ \A i \in 1 .. (Len(s) - n) : b[i] = s[n + i]
  <2>1. \A i \in n + 1 .. Len(s) : s[i] \in S
    BY <1>1
  <2>2. Len(b) = Len(s) - n /\ \A i \in 1 .. (Len(s) - n) : b[i] = s[n + i]
    BY <1>1
  <2>3. b \in Seq(S)
    BY <1>1, <2>1
  <2> QED BY <2>2, <2>3
<1> HIDE DEF a, b
<1>4. \A i, j \in 1 .. Len(a) : i < j => Earlier(a[i], a[j])
  <2> TAKE i, j \in 1 .. Len(a)
  <2>1. i \in 1 .. Len(s) /\ j \in 1 .. Len(s) /\ a[i] = s[i] /\ a[j] = s[j]
    BY <1>1, <1>2
  <2> QED BY <2>1 DEF InOrder
<1>5. \A i, j \in 1 .. Len(b) : i < j => Earlier(b[i], b[j])
  <2> TAKE i, j \in 1 .. Len(b)
  <2>1. n + i \in 1 .. Len(s) /\ n + j \in 1 .. Len(s) /\ b[i] = s[n + i] /\ b[j] = s[n + j]
        /\ (i < j => n + i < n + j)
    BY <1>1, <1>3
  <2> QED BY <2>1 DEF InOrder
<1>6. \A x \in ToSet(a), y \in ToSet(b) : Earlier(x, y)
  <2> TAKE x \in ToSet(a), y \in ToSet(b)
  <2>1. PICK i \in 1 .. Len(a) : x = a[i]
    BY <1>2, ElementsOf
  <2>2. PICK j \in 1 .. Len(b) : y = b[j]
    BY <1>3, ElementsOf
  <2>3. i \in 1 .. Len(s) /\ n + j \in 1 .. Len(s) /\ i < n + j /\ x = s[i] /\ y = s[n + j]
    BY <1>1, <1>2, <1>3, <2>1, <2>2
  <2> QED BY <2>3 DEF InOrder
<1>7. InOrder(a) /\ InOrder(b) /\ Precede(ToSet(a), ToSet(b))
  BY <1>4, <1>5, <1>6 DEF InOrder, Precede
<1> QED BY <1>7 DEF a, b

\* What is kept stays in order.
LEMMA OnlyInOrder ==
    ASSUME NEW S, NEW s \in Seq(S), NEW kept
    PROVE  InOrder(s) => InOrder(Only(s, kept))
<1> DEFINE N == Len(s)
<1>1. PICK f \in [0 .. N -> Seq(S)] :
          /\ Only(s, kept) = f[N] /\ f[0] = <<>>
          /\ \A n \in 1 .. N : f[n] = IF s[n] \in kept THEN Append(f[n - 1], s[n]) ELSE f[n - 1]
  BY OnlySteps
<1> SUFFICES ASSUME InOrder(s) PROVE InOrder(Only(s, kept))
  OBVIOUS
<1>2. N \in Nat /\ (\A n \in 1 .. N : s[n] \in S)
      /\ \A i, j \in 1 .. N : i < j => Earlier(s[i], s[j])
  BY ElementsOf DEF InOrder
<1> HIDE DEF N
<1> DEFINE A == {n \in 0 .. N : InOrder(f[n]) /\ \A x \in ToSet(f[n]) : \E i \in 1 .. n : x = s[i]}
<1>3. 0 \in A
  <2>1. InOrder(f[0]) /\ ToSet(f[0]) = {} /\ 0 \in 0 .. N
    BY <1>1, <1>2, EmptyHasNone, EmptyInOrder
  <2> QED BY <2>1
<1>4. ASSUME NEW n \in 1 .. N, n - 1 \in A PROVE n \in A
  <2>1. n - 1 \in 0 .. N /\ n \in 0 .. N /\ s[n] \in S /\ f[n - 1] \in Seq(S)
    BY <1>1, <1>2
  <2>2. InOrder(f[n - 1]) /\ \A x \in ToSet(f[n - 1]) : \E i \in 1 .. (n - 1) : x = s[i]
    BY <1>4
  <2>3. /\ \A i \in 1 .. (n - 1) : i \in 1 .. n /\ Earlier(s[i], s[n])
        /\ n \in 1 .. n
    <3>1. n \in Nat /\ \A i \in 1 .. (n - 1) : i \in 1 .. n /\ i \in 1 .. N /\ i < n
      BY <1>2
    <3> QED BY <1>2, <3>1
  <2> HIDE DEF A
  <2>4. CASE s[n] \in kept
    <3>1. f[n] = Append(f[n - 1], s[n])
      BY <1>1, <2>4
    <3>2. \A x \in ToSet(f[n - 1]) : Earlier(x, s[n])
      BY <2>2, <2>3
    <3>3. InOrder(f[n])
      BY <2>1, <2>2, <3>1, <3>2, AppendInOrder
    <3>4. ToSet(f[n]) = ToSet(f[n - 1]) \union {s[n]}
      BY <2>1, <3>1, AppendAdds
    <3>5. \A x \in ToSet(f[n]) : \E i \in 1 .. n : x = s[i]
      BY <2>2, <2>3, <3>4
    <3> QED BY <2>1, <3>3, <3>5 DEF A
  <2>5. CASE s[n] \notin kept
    <3>1. f[n] = f[n - 1]
      BY <1>1, <2>5
    <3>2. \A x \in ToSet(f[n]) : \E i \in 1 .. n : x = s[i]
      BY <2>2, <2>3, <3>1
    <3> QED BY <2>1, <2>2, <3>1, <3>2 DEF A
  <2> QED BY <2>4, <2>5
<1>5. N \in A
  <2> HIDE DEF A
  <2>1. \A n \in 0 .. N : n \in A
    BY <1>2, <1>3, <1>4, UpTo
  <2> QED BY <1>2, <2>1
<1> QED BY <1>1, <1>5

\* Collected events are in order, and no restart is among them.
NoRestart(A) == \A x \in A : x.kind # "restarted"

LEMMA CollectInOrder ==
    ASSUME NEW c \in Seq(Event), NEW e \in Event, InOrder(c), NoRestart(ToSet(c)),
           \A x \in ToSet(c) : Earlier(x, e)
    PROVE  InOrder(Collect(c, e)) /\ NoRestart(ToSet(Collect(c, e)))
<1> DEFINE lasting == {x \in ToSet(c) : Outlasts(x, e)}
           rest == Only(c, lasting)
<1>1. /\ rest \in Seq(Event) /\ InOrder(rest)
      /\ \A x : x \in ToSet(rest) => x \in ToSet(c)
  <2> HIDE DEF lasting
  <2> QED BY OnlyIs, OnlyInOrder
<1> HIDE DEF lasting
<1>2. Collect(c, e) = IF e.kind = "restarted" THEN rest ELSE Append(rest, e)
  BY DEF Collect, lasting
<1> HIDE DEF rest
<1>3. CASE e.kind = "restarted"
  BY <1>1, <1>2, <1>3 DEF NoRestart
<1>4. CASE e.kind # "restarted"
  <2>1. InOrder(Append(rest, e)) /\ ToSet(Append(rest, e)) = ToSet(rest) \union {e}
    BY <1>1, AppendAdds, AppendInOrder
  <2> QED BY <1>1, <1>2, <1>4, <2>1 DEF NoRestart
<1> QED BY <1>3, <1>4

LEMMA CollectAllInOrder ==
    ASSUME NEW c \in Seq(Event), NEW q \in Seq(Event), InOrder(c), NoRestart(ToSet(c)), InOrder(q),
           Precede(ToSet(c), ToSet(q))
    PROVE  InOrder(CollectAll(c, q)) /\ NoRestart(ToSet(CollectAll(c, q)))
<1> DEFINE N == Len(q)
<1>1. PICK f \in [0 .. N -> Seq(Event)] :
          /\ CollectAll(c, q) = f[N] /\ f[0] = c
          /\ \A n \in 1 .. N : f[n] = Collect(f[n - 1], q[n])
  BY CollectAllSteps
<1>2. N \in Nat /\ (\A n \in 1 .. N : q[n] \in Event /\ q[n] \in ToSet(q))
      /\ \A i, j \in 1 .. N : i < j => Earlier(q[i], q[j])
  BY ElementsOf DEF InOrder
<1> HIDE DEF N
<1> DEFINE A == {n \in 0 .. N : /\ InOrder(f[n]) /\ NoRestart(ToSet(f[n]))
                                /\ \A x \in ToSet(f[n]) : x \in ToSet(c) \/ \E i \in 1 .. n : x = q[i]}
<1>3. 0 \in A
  <2>1. 0 \in 0 .. N
    BY <1>2
  <2> QED BY <1>1, <2>1
<1>4. ASSUME NEW n \in 1 .. N, n - 1 \in A PROVE n \in A
  <2>1. n - 1 \in 0 .. N /\ n \in 0 .. N /\ q[n] \in Event /\ f[n - 1] \in Seq(Event) /\ q[n] \in ToSet(q)
    BY <1>1, <1>2
  <2>2. /\ InOrder(f[n - 1]) /\ NoRestart(ToSet(f[n - 1]))
        /\ \A x \in ToSet(f[n - 1]) : x \in ToSet(c) \/ \E i \in 1 .. (n - 1) : x = q[i]
    BY <1>4
  <2>3. /\ \A i \in 1 .. (n - 1) : i \in 1 .. n /\ Earlier(q[i], q[n])
        /\ n \in 1 .. n
    <3>1. n \in Nat /\ \A i \in 1 .. (n - 1) : i \in 1 .. n /\ i \in 1 .. N /\ i < n
      BY <1>2
    <3> QED BY <1>2, <3>1
  <2> HIDE DEF A
  <2>4. \A x \in ToSet(f[n - 1]) : Earlier(x, q[n])
    BY <2>1, <2>2, <2>3 DEF Precede
  <2>5. f[n] = Collect(f[n - 1], q[n])
    BY <1>1
  <2>6. InOrder(f[n]) /\ NoRestart(ToSet(f[n]))
    BY <2>1, <2>2, <2>4, <2>5, CollectInOrder
  <2>7. ToSet(f[n]) \subseteq ToSet(f[n - 1]) \union {q[n]}
    BY <2>1, <2>5, CollectIs
  <2>8. \A x \in ToSet(f[n]) : x \in ToSet(c) \/ \E i \in 1 .. n : x = q[i]
    BY <2>2, <2>3, <2>7
  <2> QED BY <2>1, <2>6, <2>8 DEF A
<1>5. N \in A
  <2> HIDE DEF A
  <2>1. \A n \in 0 .. N : n \in A
    BY <1>2, <1>3, <1>4, UpTo
  <2> QED BY <1>2, <2>1
<1> QED BY <1>1, <1>5

\* A report with a new id may take the place of one with no final state after it.
LEMMA CoalescedInOrder ==
    ASSUME NEW q \in Seq(Event), NEW e \in Event, InOrder(q), e.kind # "final",
           \A x \in ToSet(q) : x.id < e.id
    PROVE  InOrder(Coalesced(q, e))
<1> DEFINE same == {i \in DOMAIN q :
                       /\ <<q[i].kind, q[i].project, q[i].device>> = <<e.kind, e.project, e.device>>
                       /\ \A j \in i .. Len(q) : q[j].kind # "final"}
           k == CHOOSE i \in same : TRUE
           t == [q EXCEPT ![k] = e]
<1>1. Coalesced(q, e) = IF same = {} THEN Append(q, e) ELSE t
  BY DEF Coalesced
<1>2. DOMAIN q = 1 .. Len(q) /\ Len(q) \in Nat
  OBVIOUS
<1>3. \A i \in same : i \in 1 .. Len(q) /\ \A j \in i .. Len(q) : q[j].kind # "final"
  BY <1>2
<1> HIDE DEF same
<1>4. \A i \in 1 .. Len(q) : q[i].id < e.id /\ q[i].id \in Nat /\ e.id \in Nat
  <2>1. \A i \in 1 .. Len(q) : q[i] \in ToSet(q) /\ q[i] \in Event
    BY ElementsOf
  <2> QED BY <2>1 DEF Event
<1>5. CASE same = {}
  <2>1. \A x \in ToSet(q) : Earlier(x, e)
    <3>1. \A x \in ToSet(q) : x.id \in Nat
      <4>1. \A x \in ToSet(q) : x \in Event
        BY ElementsOf
      <4> QED BY <4>1 DEF Event
    <3>2. e.id \in Nat
      BY DEF Event
    <3> QED BY <3>1, <3>2 DEF Earlier
  <2> QED BY <1>1, <1>5, <2>1, AppendInOrder
<1>6. CASE same # {}
  <2>1. k \in 1 .. Len(q) /\ \A j \in k .. Len(q) : q[j].kind # "final"
    BY <1>3, <1>6
  <2> HIDE DEF k
  <2>2. Len(t) = Len(q) /\ t[k] = e /\ \A i \in 1 .. Len(q) : i # k => t[i] = q[i]
    BY <1>2, <2>1
  <2> HIDE DEF t
  <2>3. ASSUME NEW i \in 1 .. Len(t), NEW j \in 1 .. Len(t), i < j PROVE Earlier(t[i], t[j])
    <3>1. i \in 1 .. Len(q) /\ j \in 1 .. Len(q)
      BY <2>2
    <3>2. CASE i = k
      <4>1. t[i] = e /\ t[j] = q[j] /\ j \in k .. Len(q)
        BY <1>2, <2>2, <2>3, <3>1, <3>2
      <4>2. q[j].kind # "final" /\ q[j].id # e.id
        BY <1>4, <2>1, <3>1, <4>1
      <4> QED BY <4>1, <4>2 DEF Earlier
    <3>3. CASE j = k
      <4>1. t[j] = e /\ t[i] = q[i]
        BY <2>2, <2>3, <3>1, <3>3
      <4>2. q[i].id < e.id /\ q[i].id # e.id
        BY <1>4, <3>1
      <4> QED BY <4>1, <4>2 DEF Earlier
    <3>4. CASE i # k /\ j # k
      <4>1. t[i] = q[i] /\ t[j] = q[j]
        BY <2>2, <3>1, <3>4
      <4> QED BY <2>3, <3>1, <4>1 DEF InOrder
    <3> QED BY <3>2, <3>3, <3>4
  <2>4. InOrder(t)
    BY <2>3 DEF InOrder
  <2> QED BY <1>1, <1>6, <2>4
<1> QED BY <1>5, <1>6

-----------------------------------------------------------------------------
(* Every queue is in order, and what the worker has comes before what is on    *)
(* its way to it.                                                              *)
Taken == ToSet(pending) \union ToSet(batch) \union ToSet(switch.changes) \union Lent
ToCome == ToSet(channel) \union ToSet(wire)

Line ==
    /\ InOrder(wire) /\ InOrder(channel) /\ InOrder(pending) /\ InOrder(batch)
    /\ InOrder(switch.changes) /\ (reply # None => InOrder(reply.changes))
    /\ Precede(ToSet(channel), ToSet(wire)) /\ Precede(Taken, ToCome)
    /\ Precede(ToSet(pending), ToSet(batch))
    /\ NoRestart(Taken)

\* An event with a new id is the latest.
LEMMA LatestIs ==
    ASSUME Before, NEW e \in Event, e.id = events + 1
    PROVE  \A x \in Around : x.id < e.id /\ Earlier(x, e)
<1>1. Around \subseteq Event /\ events \in Nat
  BY AroundTyped DEF Before, Types, DataTypes
<1>2. \A x \in Around : x.id \in Nat /\ x.id <= events
  BY <1>1 DEF Before, IdsTell, Event
<1> QED BY <1>1, <1>2 DEF Earlier

\* The sidecar reports something new, or nothing.
Reported(new) == /\ \A x \in Around, e \in new : Earlier(x, e)
                 /\ InOrder(wire') /\ ToSet(wire') \subseteq ToSet(wire) \union new

LEMMA LineGrows ==
    ASSUME Line, NEW new, Reported(new), UNCHANGED <<channel, pending, batch, reply, switch>>
    PROVE  Line'
<1> USE DEF Reported
<1>1. Taken' = Taken /\ Taken \subseteq Around /\ ToSet(channel) \subseteq Around
  BY DEF Taken, Lent, Around
<1>2. Precede(ToSet(channel), ToSet(wire'))
  BY <1>1 DEF Line, Precede
<1>3. Precede(Taken, ToCome')
  BY <1>1 DEF Line, Precede, ToCome
<1> QED BY <1>1, <1>2, <1>3 DEF Line

\* The queues stay: at most the switch takes what it was lent or lets go of it.
LEMMA LineStays ==
    ASSUME Line, UNCHANGED <<wire, channel, pending, batch>>, reply' = reply \/ reply' = None,
           InOrder(switch'.changes), ToSet(switch'.changes) \subseteq ToSet(switch.changes) \union Lent
    PROVE  Line'
<1>1. Lent' \subseteq Lent
  BY DEF Lent
<1>2. Taken' \subseteq Taken /\ ToCome' = ToCome
  BY <1>1 DEF Taken, ToCome
<1>3. Precede(Taken', ToCome') /\ NoRestart(Taken')
  BY <1>2 DEF Line, Precede, NoRestart
<1> QED BY <1>3 DEF Line

LEMMA ReportsLine ==
    ASSUME Before, Line, Reports
    PROVE  Line'
<1>1. PICK kind \in {"state", "parameter"} :
          wire' = Coalesced(wire,
              [kind |-> kind, id |-> events + 1, project |-> editor.project,
               device |-> editor.device, plugin |-> None,
               version |-> IF kind = "state" THEN editor.rack.version ELSE 0,
               revision |-> IF kind = "state" THEN graph.revision ELSE 0])
  BY DEF Reports
<1> DEFINE e == [kind |-> kind, id |-> events + 1, project |-> editor.project,
                 device |-> editor.device, plugin |-> None,
                 version |-> IF kind = "state" THEN editor.rack.version ELSE 0,
                 revision |-> IF kind = "state" THEN graph.revision ELSE 0]
<1>2. /\ editor # None /\ graph # None
      /\ UNCHANGED <<channel, pending, batch, reply, switch>>
  BY DEF Reports, IsUp, host, persistence
<1>3. editor \in Editor /\ graph \in Runtime /\ events \in Nat /\ wire \in Seq(Event)
  BY <1>2 DEF Before, Types, DataTypes, QueueTypes
<1>4. e \in Event /\ e.id = events + 1 /\ e.kind # "final"
  BY <1>3 DEF Event, Kinds, Editor, Rack, Runtime
<1>5. wire' = Coalesced(wire, e)
  BY <1>1
<1> HIDE DEF e
<1>6. \A x \in Around : x.id < e.id /\ Earlier(x, e)
  BY <1>4, LatestIs
<1>7. ToSet(wire) \subseteq Around /\ InOrder(wire)
  BY DEF Around, Line
<1>8. InOrder(wire')
  BY <1>3, <1>4, <1>5, <1>6, <1>7, CoalescedInOrder
<1>9. ToSet(wire') \subseteq ToSet(wire) \union {e}
  BY <1>3, <1>4, <1>5, CoalescedIs
<1>10. Reported({e})
  BY <1>6, <1>8, <1>9 DEF Reported
<1> QED BY <1>2, <1>10, LineGrows

LEMMA FinalLine ==
    ASSUME Before, Line, graph # None, editor # None, wire' = Append(wire, FinalOf(editor)),
           UNCHANGED <<channel, pending, batch, reply, switch>>
    PROVE  Line'
<1> DEFINE e == FinalOf(editor)
<1>1. e \in Event /\ e.id = events + 1
  BY FinalIs DEF Before, Types
<1>2. wire' = Append(wire, e) /\ wire \in Seq(Event) /\ InOrder(wire) /\ ToSet(wire) \subseteq Around
  BY DEF Before, Types, QueueTypes, Line, Around
<1> HIDE DEF e
<1>3. \A x \in Around : Earlier(x, e)
  BY <1>1, LatestIs
<1>4. InOrder(wire') /\ ToSet(wire') \subseteq ToSet(wire) \union {e}
  BY <1>1, <1>2, <1>3, AppendInOrder, AppendAdds
<1>5. Reported({e})
  BY <1>3, <1>4 DEF Reported
<1> QED BY <1>5, LineGrows

LEMMA SidecarRestartsLine ==
    ASSUME Before, Line, SidecarRestarts
    PROVE  Line'
<1>1. Restarted \in Event /\ \A x : Earlier(x, Restarted) /\ Earlier(Restarted, x)
  BY DEF Restarted, Event, Kinds, Earlier
<1>2. /\ channel' = Append(channel, Restarted) /\ channel \in Seq(Event) /\ InOrder(channel)
      /\ UNCHANGED <<wire, pending, batch, reply, switch>>
  BY DEF SidecarRestarts, Before, Types, QueueTypes, Line
<1>3. InOrder(channel') /\ ToSet(channel') = ToSet(channel) \union {Restarted}
  BY <1>1, <1>2, AppendInOrder, AppendAdds
<1>4. Taken' = Taken /\ ToCome' = ToCome \union {Restarted}
  BY <1>2, <1>3 DEF Taken, ToCome, Lent
<1>5. Precede(ToSet(channel'), ToSet(wire)) /\ Precede(Taken, ToCome')
  BY <1>1, <1>3, <1>4 DEF Line, Precede
<1> QED BY <1>2, <1>3, <1>4, <1>5 DEF Line

LEMMA DeliversLine ==
    ASSUME Before, Line, Delivers
    PROVE  Line'
<1>1. /\ wire # <<>> /\ wire \in Seq(Event) /\ channel \in Seq(Event)
      /\ channel' = Append(channel, Head(wire)) /\ wire' = Tail(wire)
      /\ UNCHANGED <<pending, batch, reply, switch>>
  BY DEF Delivers, Before, Types, QueueTypes, host
<1> DEFINE e == Head(wire)
<1>2. /\ e \in Event /\ wire' \in Seq(Event) /\ ToSet(wire) = {e} \union ToSet(wire')
  BY <1>1, HeadAndTail
<1>3. InOrder(wire') /\ \A x \in ToSet(wire') : Earlier(e, x)
  BY <1>1, TailInOrder DEF Line
<1>4. channel' = Append(channel, e)
  BY <1>1
<1> HIDE DEF e
<1>5. \A x \in ToSet(channel) : Earlier(x, e)
  BY <1>2 DEF Line, Precede
<1>6. InOrder(channel') /\ ToSet(channel') = ToSet(channel) \union {e}
  BY <1>1, <1>2, <1>4, <1>5, AppendInOrder, AppendAdds DEF Line
<1>7. Taken' = Taken /\ ToCome' = ToCome
  BY <1>1, <1>2, <1>6 DEF Taken, ToCome, Lent
<1>8. Precede(ToSet(channel'), ToSet(wire'))
  BY <1>2, <1>3, <1>6 DEF Line, Precede
<1> QED BY <1>1, <1>3, <1>6, <1>7, <1>8 DEF Line

LEMMA WorkerReceivesLine ==
    ASSUME Before, Line, WorkerReceives
    PROVE  Line'
<1> DEFINE e == Head(channel)
           changes == Collect(pending, e)
<1>1. /\ worker = "waiting" /\ channel # <<>> /\ channel \in Seq(Event) /\ pending \in Seq(Event)
      /\ channel' = Tail(channel)
      /\ \/ batch' = changes /\ pending' = <<>>
         \/ pending' = changes /\ UNCHANGED batch
      /\ UNCHANGED <<wire, reply, switch>>
  BY DEF WorkerReceives, Before, Types, QueueTypes, sidecar
<1>2. e \in Event /\ channel' \in Seq(Event) /\ ToSet(channel) = {e} \union ToSet(channel')
  BY <1>1, HeadAndTail
<1>3. InOrder(channel') /\ \A x \in ToSet(channel') : Earlier(e, x)
  BY <1>1, TailInOrder DEF Line
<1>4. batch = <<>> /\ ToSet(batch) = {}
  BY <1>1, WaitingIs DEF Before
<1> HIDE DEF e
<1>5. \A x \in ToSet(pending) : Earlier(x, e)
  BY <1>2 DEF Line, Precede, Taken, ToCome
<1>6. NoRestart(ToSet(pending)) /\ InOrder(pending)
  BY DEF Line, NoRestart, Taken
<1>7. InOrder(changes) /\ NoRestart(ToSet(changes))
  BY <1>1, <1>2, <1>5, <1>6, CollectInOrder
<1>8. ToSet(changes) \subseteq ToSet(pending) \union {e}
  BY <1>1, <1>2, CollectIs
<1> HIDE DEF changes
<1>9. \A x \in ToSet(wire) : Earlier(e, x)
  BY <1>2 DEF Line, Precede
<1>10. ToCome' \subseteq ToCome /\ \A x \in ToCome' : Earlier(e, x)
  BY <1>1, <1>2, <1>3, <1>9 DEF ToCome
<1>11. ToSet(<<>>) = {} /\ InOrder(<<>>)
  BY EmptyHasNone, EmptyInOrder
<1>12. /\ InOrder(batch') /\ InOrder(pending')
       /\ ToSet(pending') \union ToSet(batch') \subseteq ToSet(changes)
       /\ ToSet(pending') = {} \/ ToSet(batch') = {}
  BY <1>1, <1>4, <1>7, <1>11
<1>13. Taken' \subseteq Taken \union ToSet(changes)
  BY <1>1, <1>12 DEF Taken, Lent
<1>14. \A x \in Taken' : x \in Taken \/ x = e
  BY <1>8, <1>13 DEF Taken
<1>15. Precede(Taken', ToCome')
  BY <1>10, <1>14 DEF Line, Precede
<1>16. NoRestart(Taken')
  BY <1>7, <1>13 DEF Line, NoRestart
<1>17. Precede(ToSet(pending'), ToSet(batch'))
  BY <1>12 DEF Precede
<1>18. Precede(ToSet(channel'), ToSet(wire'))
  BY <1>1, <1>2 DEF Line, Precede
<1> QED BY <1>1, <1>3, <1>12, <1>15, <1>16, <1>17, <1>18 DEF Line

LEMMA BeginsFlushLine ==
    ASSUME Before, Line, WorkerFlushes \/ WorkerLocks
    PROVE  Line'
<1>1. /\ batch' = pending /\ pending' = <<>>
      /\ UNCHANGED <<wire, channel, reply, switch>>
  BY DEF WorkerFlushes, WorkerLocks, sidecar
<1>2. InOrder(pending') /\ ToSet(pending') = {} /\ ToSet(batch') = ToSet(pending)
  BY <1>1, EmptyHasNone, EmptyInOrder
<1>3. Taken' \subseteq Taken /\ ToCome' = ToCome
  BY <1>1, <1>2 DEF Taken, ToCome, Lent
<1>4. Precede(Taken', ToCome') /\ NoRestart(Taken') /\ Precede(ToSet(pending'), ToSet(batch'))
  BY <1>2, <1>3 DEF Line, Precede, NoRestart
<1> QED BY <1>1, <1>2, <1>4 DEF Line

LEMMA WorkerAppliesLine ==
    ASSUME Before, Line, WorkerApplies
    PROVE  Line'
<1> DEFINE e == Head(batch)
<1>1. /\ batch # <<>> /\ batch \in Seq(Event) /\ pending \in Seq(Event) /\ batch' = Tail(batch)
      /\ UNCHANGED <<wire, channel, reply, switch>>
      /\ pending' = pending \/ pending' = Append(pending, e)
  BY DEF WorkerApplies, Applies, Fails, Before, Types, QueueTypes, sidecar
<1>2. e \in Event /\ batch' \in Seq(Event) /\ ToSet(batch) = {e} \union ToSet(batch')
  BY <1>1, HeadAndTail
<1>3. InOrder(batch') /\ \A x \in ToSet(batch') : Earlier(e, x)
  BY <1>1, TailInOrder DEF Line
<1> HIDE DEF e
<1>4. \A x \in ToSet(pending) : Earlier(x, e)
  BY <1>2 DEF Line, Precede
<1>5. InOrder(pending') /\ ToSet(pending') \subseteq ToSet(pending) \union {e}
  <2>1. CASE pending' = pending
    BY <2>1 DEF Line
  <2>2. CASE pending' = Append(pending, e)
    BY <1>1, <1>2, <1>4, <2>2, AppendInOrder, AppendAdds DEF Line
  <2> QED BY <1>1, <2>1, <2>2
<1>6. Taken' \subseteq Taken /\ ToCome' = ToCome
  BY <1>1, <1>2, <1>5 DEF Taken, ToCome, Lent
<1>7. Precede(Taken', ToCome') /\ NoRestart(Taken')
  BY <1>6 DEF Line, Precede, NoRestart
<1>8. Precede(ToSet(pending'), ToSet(batch'))
  BY <1>2, <1>3, <1>5 DEF Line, Precede
<1> QED BY <1>1, <1>3, <1>5, <1>7, <1>8 DEF Line

\* Everything that has arrived is collected, and what is lent is part of it.
LEMMA CollectsLine ==
    ASSUME Before, Line, worker = "waiting", channel' = <<>>, pending' = CollectAll(pending, channel),
           UNCHANGED <<wire, batch, switch>>,
           reply' # None => /\ InOrder(pending') => InOrder(reply'.changes)
                            /\ ToSet(reply'.changes) \subseteq ToSet(pending')
    PROVE  Line'
<1>1. pending \in Seq(Event) /\ channel \in Seq(Event)
  BY DEF Before, Types, QueueTypes
<1>2. /\ InOrder(pending) /\ NoRestart(ToSet(pending)) /\ InOrder(channel)
      /\ Precede(ToSet(pending), ToSet(channel))
  BY DEF Line, NoRestart, Precede, Taken, ToCome
<1>3. InOrder(pending') /\ NoRestart(ToSet(pending'))
  BY <1>1, <1>2, CollectAllInOrder
<1>4. ToSet(pending') \subseteq ToSet(pending) \union ToSet(channel)
  BY <1>1, CollectAllIs
<1>5. ToSet(channel') = {} /\ InOrder(channel')
  BY EmptyHasNone, EmptyInOrder
<1>6. Lent' \subseteq ToSet(pending')
  BY DEF Lent
<1>7. ToCome' = ToSet(wire) /\ ToCome' \subseteq ToCome
  BY <1>5 DEF ToCome
<1>8. \A x \in Taken' : x \in ToSet(pending') \/ x \in Taken
  BY <1>6 DEF Taken
<1>9. \A x \in Taken' : x \in Taken \/ x \in ToSet(channel)
  BY <1>4, <1>8 DEF Taken
<1>10. Precede(Taken', ToCome')
  BY <1>7, <1>9 DEF Line, Precede
<1>11. NoRestart(Taken')
  BY <1>3, <1>8 DEF Line, NoRestart
<1>12. ToSet(batch') = {}
  BY WaitingIs DEF Before
<1>13. Precede(ToSet(channel'), ToSet(wire')) /\ Precede(ToSet(pending'), ToSet(batch'))
  BY <1>5, <1>12 DEF Precede
<1> QED BY <1>3, <1>5, <1>10, <1>11, <1>13 DEF Line

LEMMA WorkerCollectsLine ==
    ASSUME Before, Asked, Line, WorkerLends \/ WorkerStops
    PROVE  Line'
<1>1. CASE WorkerLends
  <2> DEFINE lent == {c \in ToSet(pending') : c.project = request.project}
  <2>1. /\ worker = "waiting" /\ channel' = <<>> /\ pending' = CollectAll(pending, channel)
        /\ UNCHANGED <<wire, batch, switch>> /\ reply'.changes = Only(pending', lent)
    BY <1>1 DEF WorkerLends, host, sidecar
  <2>2. pending' \in Seq(Event)
    BY <2>1, CollectAllIs DEF Before, Types, QueueTypes
  <2> HIDE DEF lent
  <2>3. InOrder(pending') => InOrder(reply'.changes)
    BY <2>1, <2>2, OnlyInOrder
  <2>4. ToSet(reply'.changes) \subseteq ToSet(pending')
    BY <2>1, <2>2, OnlyIs
  <2> QED BY <2>1, <2>3, <2>4, CollectsLine
<1>2. CASE WorkerStops
  <2>1. /\ worker = "waiting" /\ channel' = <<>> /\ pending' = CollectAll(pending, channel)
        /\ UNCHANGED <<wire, batch, switch, reply>> /\ lifecycle = "stopping"
    BY <1>2 DEF WorkerStops, host, sidecar
  <2>2. reply' = None
    BY <2>1 DEF Before, Turns, Asked, Types, SwitchTypes, Asking, Acknowledging
  <2> QED BY <2>1, <2>2, CollectsLine
<1> QED BY <1>1, <1>2

LEMMA WorkerForgetsLine ==
    ASSUME Before, Line, WorkerForgets
    PROVE  Line'
<1> DEFINE others == {c \in ToSet(pending) : c.id \notin request.applied}
<1>1. /\ pending' = Only(pending, others) /\ UNCHANGED <<wire, channel, batch, switch>>
      /\ reply' = [changes |-> <<>>] /\ pending \in Seq(Event)
  BY DEF WorkerForgets, Retained, host, sidecar, Before, Types, QueueTypes
<1> HIDE DEF others
<1>2. InOrder(pending') /\ ToSet(pending') \subseteq ToSet(pending)
  BY <1>1, OnlyIs, OnlyInOrder DEF Line
<1>3. reply'.changes = <<>> /\ InOrder(reply'.changes) /\ Lent' = {}
  BY <1>1, EmptyHasNone, EmptyInOrder DEF Lent
<1>4. Taken' \subseteq Taken /\ ToCome' = ToCome
  BY <1>1, <1>2, <1>3 DEF Taken, ToCome
<1>5. Precede(Taken', ToCome') /\ NoRestart(Taken') /\ Precede(ToSet(pending'), ToSet(batch'))
  BY <1>1, <1>2, <1>4 DEF Line, Precede, NoRestart
<1> QED BY <1>1, <1>2, <1>3, <1>5 DEF Line

\* What an editor that closes sends is the latest, and the queue stays in order
\* when a part of it is brought to the worker.
LEMMA ClosesEditorLine ==
    ASSUME Before, Line, ClosesEditor, UNCHANGED <<pending, batch, reply>>, switch'.changes = switch.changes
    PROVE  Line'
<1> DEFINE sent == IF editor = None THEN wire ELSE Append(wire, FinalOf(editor))
           barrier == Barrier(sent)
           first == SubSeq(sent, 1, barrier)
<1>1. channel' = channel \o first /\ wire' = SubSeq(sent, barrier + 1, Len(sent)) /\ graph # None
  BY DEF ClosesEditor, Barrier, IsUp
<1>2. wire \in Seq(Event) /\ channel \in Seq(Event) /\ DataTypes /\ InOrder(wire) /\ InOrder(channel)
      /\ ToSet(wire) \subseteq Around /\ ToSet(channel) \subseteq Around /\ Taken \subseteq Around
  BY DEF Before, Types, QueueTypes, Line, Around, Taken
<1>3. /\ sent \in Seq(Event) /\ InOrder(sent)
      /\ Precede(ToSet(channel), ToSet(sent)) /\ Precede(Taken, ToSet(sent))
  <2>1. CASE editor = None
    BY <1>2, <2>1 DEF Line, Precede, ToCome
  <2>2. CASE editor # None
    <3> DEFINE e == FinalOf(editor)
    <3>1. e \in Event /\ e.id = events + 1
      BY <1>1, <1>2, <2>2, FinalIs
    <3>2. sent = Append(wire, e)
      BY <2>2
    <3> HIDE DEF e, sent
    <3>3. \A x \in Around : Earlier(x, e)
      BY <3>1, LatestIs
    <3>4. sent \in Seq(Event) /\ ToSet(sent) = ToSet(wire) \union {e}
      BY <1>2, <3>1, <3>2, AppendAdds
    <3>5. InOrder(sent)
      BY <1>2, <3>1, <3>2, <3>3, AppendInOrder
    <3>6. Precede(ToSet(channel), ToSet(sent)) /\ Precede(Taken, ToSet(sent))
      BY <1>2, <3>3, <3>4 DEF Line, Precede, ToCome
    <3> QED BY <3>4, <3>5, <3>6
  <2> QED BY <2>1, <2>2
<1> HIDE DEF sent
<1>4. barrier \in 0 .. Len(sent)
  BY <1>3, BarrierIs
<1> HIDE DEF barrier
<1>5. /\ first \in Seq(Event) /\ wire' \in Seq(Event)
      /\ ToSet(sent) = ToSet(first) \union ToSet(wire')
  BY <1>1, <1>3, <1>4, CutInTwo
<1>6. InOrder(first) /\ InOrder(wire') /\ Precede(ToSet(first), ToSet(wire'))
  BY <1>1, <1>3, <1>4, CutInOrder
<1> HIDE DEF first
<1>7. Precede(ToSet(channel), ToSet(first))
  BY <1>3, <1>5 DEF Precede
<1>8. InOrder(channel')
  BY <1>1, <1>2, <1>5, <1>6, <1>7, BothInOrder
<1>9. ToSet(channel') = ToSet(channel) \union ToSet(first)
  BY <1>1, <1>2, <1>5, BothParts
<1>10. Precede(ToSet(channel'), ToSet(wire'))
  BY <1>3, <1>5, <1>6, <1>9 DEF Precede
<1>11. Taken' = Taken /\ ToCome' = ToSet(channel) \union ToSet(sent)
  BY <1>5, <1>9 DEF Taken, ToCome, Lent
<1>12. Precede(Taken', ToCome')
  BY <1>3, <1>11 DEF Line, Precede, ToCome
<1> QED BY <1>6, <1>8, <1>10, <1>11, <1>12 DEF Line


LEMMA LineStep ==
    ASSUME Before, Asked, Line, Next
    PROVE  Line'
<1>0. SwitchTypes /\ InOrder(switch.changes)
  BY DEF Before, Types, Line
<1>1. CASE UserEdits \/ GraphCommits \/ HostEdits \/ ShutdownRequested \/ GateCloses \/ WorkerEndsFlush
           \/ (EditorOpens /\ editor = None)
  <2>1. UNCHANGED <<wire, channel, pending, batch, reply, switch>>
    BY <1>1 DEF UserEdits, GraphCommits, HostEdits, ShutdownRequested, GateCloses, WorkerEndsFlush,
                EditorOpens, host, persistence, sidecar
  <2> QED BY <1>0, <2>1, LineStays
<1>2. CASE EditorCloses \/ (EditorOpens /\ editor # None)
  <2>1. /\ graph # None /\ editor # None /\ wire' = Append(wire, FinalOf(editor))
        /\ UNCHANGED <<channel, pending, batch, reply, switch>>
    BY <1>2 DEF EditorCloses, EditorOpens, host, persistence, IsUp
  <2> QED BY <2>1, FinalLine
<1>3. CASE SidecarExits \/ ShutdownStopsWorker
  <2>1. wire' = <<>> /\ UNCHANGED <<channel, pending, batch, reply, switch>>
    BY <1>3 DEF SidecarExits, ShutdownStopsWorker, host, persistence
  <2>2. Reported({})
    BY <2>1, EmptyHasNone, EmptyInOrder DEF Reported
  <2> QED BY <2>1, <2>2, LineGrows
<1>4. CASE Reports \/ SidecarRestarts \/ Delivers \/ WorkerReceives \/ WorkerFlushes \/ WorkerLocks
           \/ WorkerApplies \/ WorkerLends \/ WorkerStops \/ WorkerForgets
  BY <1>4, ReportsLine, SidecarRestartsLine, DeliversLine, WorkerReceivesLine, BeginsFlushLine,
     WorkerAppliesLine, WorkerCollectsLine, WorkerForgetsLine
<1>5. CASE SwitchClosesEditor \/ ShutdownClosesEditor
  <2>1. ClosesEditor /\ UNCHANGED <<pending, batch, reply>> /\ switch'.changes = switch.changes
    <3>1. CASE SwitchClosesEditor
      <4>1. switch'.changes = switch.changes
        BY <1>0, <3>1, SwitchIs
      <4> QED BY <3>1, <4>1 DEF SwitchClosesEditor
    <3>2. CASE ShutdownClosesEditor
      BY <3>2 DEF ShutdownClosesEditor
    <3> QED BY <1>5, <3>1, <3>2
  <2> QED BY <2>1, ClosesEditorLine
<1>6. CASE SwitchApplies
  <2>1. /\ UNCHANGED <<wire, channel, pending, batch, reply>> /\ switch.changes # <<>>
        /\ switch.changes \in Seq(Event)
    BY <1>0, <1>6 DEF SwitchApplies, persistence, sidecar, SwitchTypes
  <2>2. InOrder(Tail(switch.changes)) /\ ToSet(Tail(switch.changes)) \subseteq ToSet(switch.changes)
    BY <1>0, <2>1, TailInOrder, HeadAndTail
  <2>3. switch'.changes = Tail(switch.changes) \/ switch'.changes = <<>>
    BY <1>0, <1>6, SwitchIs
  <2>4. InOrder(switch'.changes) /\ ToSet(switch'.changes) \subseteq ToSet(switch.changes)
    BY <2>2, <2>3, EmptyHasNone, EmptyInOrder
  <2> QED BY <2>1, <2>4, LineStays
<1>7. CASE SwitchBegins \/ SwitchTakes \/ SwitchAcknowledges \/ SwitchGoesOn \/ SwitchGivesUp
           \/ SwitchTriesCandidate \/ SwitchFails \/ SwitchReplaces
  <2>1. /\ UNCHANGED <<wire, channel, pending, batch>>
        /\ reply' = reply \/ reply' = None
    BY <1>7 DEF SwitchBegins, SwitchTakes, SwitchAcknowledges, SwitchGoesOn, SwitchGivesUp,
                SwitchTriesCandidate, SwitchFails, SwitchReplaces, persistence, sidecar
  <2>2. \/ switch'.changes = switch.changes
        \/ switch'.changes = <<>>
        \/ switch'.changes = reply.changes /\ reply # None
    BY <1>0, <1>7, SwitchIs DEF NoSwitchIs, SwitchTakes
  <2>3. ToSet(switch'.changes) \subseteq ToSet(switch.changes) \union Lent
    BY <2>2, EmptyHasNone DEF Lent
  <2>4. InOrder(switch'.changes)
    BY <1>0, <2>2, EmptyInOrder DEF Line
  <2> QED BY <2>1, <2>3, <2>4, LineStays
<1> QED BY <1>1, <1>2, <1>3, <1>4, <1>5, <1>6, <1>7
        DEF Next, Sidecar, Requests, Worker, Switch, Shutdown

-----------------------------------------------------------------------------
(* What is applied, by whom.                                               *)

\* A flush leaves behind the changes of the devices that failed in it.
FailedStay ==
    worker \in {"flushing", "last flush"} =>
        \A e \in ToSet(pending) : <<e.project, e.device>> \in failed

\* What the switch applies is forgotten when it has been acknowledged, has not
\* been reported again, and what arrives meanwhile comes later.
Application ==
    /\ switch.step \notin Applying => switch.changes = <<>>
    /\ switch.step \notin Applying \union Acknowledging => switch.applied = {}
    /\ \A e \in ToCome : e.kind # "restarted" => e.id \notin switch.applied
    /\ switch.step \in Acknowledging /\ reply # None =>
           \A e \in ToSet(pending) : e.id \notin switch.applied
    /\ switch.step \in Asking /\ reply # None =>
           \A e \in ToSet(pending) : e.project = open => e \in Lent \/ Precede(Lent, {e})
    /\ switch.step \in Applying =>
           \A e \in ToSet(pending) : e.project = open /\ e.id \notin switch.applied =>
                e \in ToSet(switch.changes) \/ Precede(ToSet(switch.changes), {e})

LEMMA FailedStayStep ==
    ASSUME Types, Turns, FailedStay, Next
    PROVE  FailedStay'
<1>0. pending \in Seq(Event) /\ batch \in Seq(Event) /\ ToSet(<<>>) = {}
  BY EmptyHasNone DEF Types, QueueTypes
<1>1. CASE WorkerReceives \/ WorkerFlushes \/ WorkerLocks
  <2>1. pending' = <<>> \/ worker' = "waiting"
    BY <1>1 DEF WorkerReceives, WorkerFlushes, WorkerLocks
  <2> QED BY <1>0, <2>1 DEF FailedStay
<1>2. CASE WorkerApplies
  <2> DEFINE h == Head(batch)
             device == <<h.project, h.device>>
  <2>1. /\ worker \in {"flushing", "last flush"} /\ batch # <<>>
        /\ \/ pending' = pending /\ failed' = failed
           \/ pending' = Append(pending, h) /\ failed' = failed \union {device}
           \/ device \in failed /\ pending' = Append(pending, h) /\ failed' = failed
    BY <1>2 DEF WorkerApplies
  <2>2. h \in Event
    BY <1>0, <2>1, HeadTyped
  <2> HIDE DEF h
  <2>3. ToSet(Append(pending, h)) = ToSet(pending) \union {h}
    BY <1>0, <2>2, AppendAdds
  <2>4. \A e \in ToSet(pending) : <<e.project, e.device>> \in failed
    BY <2>1 DEF FailedStay
  <2>5. \A e \in ToSet(pending') : <<e.project, e.device>> \in failed'
    <3>1. CASE pending' = pending /\ failed' = failed
      BY <2>4, <3>1
    <3>2. CASE pending' = Append(pending, h) /\ failed' = failed \union {device}
      BY <2>3, <2>4, <3>2
    <3>3. CASE device \in failed /\ pending' = Append(pending, h) /\ failed' = failed
      BY <2>3, <2>4, <3>3
    <3> QED BY <2>1, <3>1, <3>2, <3>3
  <2> QED BY <2>5 DEF FailedStay
<1>3. CASE WorkerEndsFlush \/ WorkerLends \/ WorkerForgets \/ WorkerStops
  <2>1. worker' \notin {"flushing", "last flush"}
    BY <1>3 DEF WorkerEndsFlush, WorkerLends, WorkerForgets, WorkerStops
  <2> QED BY <2>1 DEF FailedStay
<1>4. CASE Sidecar \/ Delivers \/ Requests \/ SwitchBegins \/ Switch \/ ShutdownRequested \/ Shutdown
  <2>1. UNCHANGED <<worker, pending, failed>>
    BY <1>4 DEF Sidecar, Requests, Switch, Shutdown, UserEdits, Reports, EditorCloses, GraphCommits,
                SidecarExits, SidecarRestarts, Delivers, HostEdits, EditorOpens, SwitchBegins,
                SwitchTakes, SwitchApplies, SwitchAcknowledges, SwitchGoesOn, SwitchClosesEditor,
                SwitchGivesUp, SwitchTriesCandidate, SwitchFails, SwitchReplaces, ShutdownRequested,
                GateCloses, ShutdownClosesEditor, ShutdownStopsWorker, persistence
  <2> QED BY <2>1 DEF FailedStay
<1> QED BY <1>1, <1>2, <1>3, <1>4 DEF Next, Worker

\* A switch that has nothing to apply and has not been lent anything.
LEMMA NothingToApply ==
    ASSUME switch'.step \notin Applying \union Acknowledging, switch'.step \in Asking => reply' = None,
           switch'.changes = <<>>, switch'.applied = {}
    PROVE  Application'
BY DEF Application

\* The switch stays, and what the worker gets was on its way to it.
LEMMA ApplicationStays ==
    ASSUME Line, Application, UNCHANGED <<switch, reply, open>>,
           \A x \in ToSet(pending') : x \in ToSet(pending) \/ (x \in ToCome /\ x.kind # "restarted"),
           \A x \in ToCome' : x \in ToCome \/ x.kind = "restarted" \/ x.id \notin switch.applied
    PROVE  Application'
<1>1. Lent' = Lent /\ Lent \subseteq Taken /\ ToSet(switch.changes) \subseteq Taken
  BY DEF Lent, Taken
<1>2. \A x \in ToCome : Precede(Lent, {x}) /\ Precede(ToSet(switch.changes), {x})
  BY <1>1 DEF Line, Precede
<1>3. \A e \in ToCome' : e.kind # "restarted" => e.id \notin switch.applied
  BY DEF Application
<1>4. switch.step \in Acknowledging /\ reply # None =>
          \A e \in ToSet(pending') : e.id \notin switch.applied
  BY DEF Application
<1>5. switch.step \in Asking /\ reply # None =>
           \A e \in ToSet(pending') : e.project = open => e \in Lent \/ Precede(Lent, {e})
  BY <1>2 DEF Application
<1>6. switch.step \in Applying =>
           \A e \in ToSet(pending') : e.project = open /\ e.id \notin switch.applied =>
                e \in ToSet(switch.changes) \/ Precede(ToSet(switch.changes), {e})
  BY <1>2 DEF Application
<1> QED BY <1>1, <1>3, <1>4, <1>5, <1>6 DEF Application

\* While nobody switches.
LEMMA NobodySwitches ==
    ASSUME Application, switch.step = "idle", switch' = switch
    PROVE  Application'
BY NothingToApply DEF Application, Applying, Acknowledging, Asking


LEMMA SwitchTakesApplication ==
    ASSUME Types, Asked, Application, SwitchTakes
    PROVE  Application'
<1>1. /\ switch.step \in Asking /\ reply # None /\ UNCHANGED <<pending, channel, wire, open>> /\ reply' = None
  BY DEF SwitchTakes, persistence, sidecar
<1>2. /\ switch'.step \in Applying /\ switch'.changes = reply.changes /\ switch'.applied = {}
  <2>1. SwitchTypes
    BY DEF Types
  <2> QED BY <2>1, SwitchIs DEF Applying
<1>3. Lent = ToSet(switch'.changes)
  BY <1>1, <1>2 DEF Lent
<1>4. \A e \in ToSet(pending') : e.project = open' =>
          e \in ToSet(switch'.changes) \/ Precede(ToSet(switch'.changes), {e})
  BY <1>1, <1>3 DEF Application
<1> QED BY <1>1, <1>2, <1>4 DEF Application, Applying, Asking, Acknowledging

LEMMA SwitchAppliesApplication ==
    ASSUME Types, Asked, Line, Application, SwitchApplies
    PROVE  Application'
<1> DEFINE h == Head(switch.changes)
<1>1. /\ SwitchTypes /\ switch.changes \in Seq(Event) /\ switch.changes # <<>> /\ switch.step \in Applying
      /\ UNCHANGED <<channel, wire, pending, reply, open>>
  BY DEF Types, SwitchTypes, SwitchApplies, persistence, sidecar
<1>2. /\ switch'.step = switch.step
      /\ \/ switch'.changes = Tail(switch.changes) /\ switch'.applied = switch.applied \union {h.id}
         \/ switch'.changes = <<>> /\ switch'.applied = switch.applied
  BY <1>1, SwitchIs
<1>3. ToSet(switch.changes) = {h} \union ToSet(Tail(switch.changes))
  BY <1>1, HeadAndTail
<1> HIDE DEF h
<1>4. \A e \in ToCome : e.kind # "restarted" => e.id # h.id
  <2>1. h \in Taken /\ h.kind # "restarted"
    BY <1>3 DEF Taken, Line, NoRestart
  <2> QED BY <2>1 DEF Line, Precede, Earlier
<1>5. \A e \in ToCome' : e.kind # "restarted" => e.id \notin switch'.applied
  BY <1>1, <1>2, <1>4 DEF Application, ToCome
<1>6. \A e \in ToSet(pending') : e.project = open' /\ e.id \notin switch'.applied =>
          e \in ToSet(switch'.changes) \/ Precede(ToSet(switch'.changes), {e})
  <2>1. CASE switch'.changes = Tail(switch.changes) /\ switch'.applied = switch.applied \union {h.id}
    BY <1>1, <1>3, <2>1 DEF Application, Precede
  <2>2. CASE switch'.changes = <<>>
    BY <2>2, EmptyHasNone DEF Precede
  <2> QED BY <1>2, <2>1, <2>2
<1> QED BY <1>1, <1>2, <1>5, <1>6 DEF Application, Applying, Asking, Acknowledging

LEMMA WorkerLendsApplication ==
    ASSUME Before, Asked, Application, WorkerLends
    PROVE  Application'
<1>1. /\ switch.step \in Asking /\ request.project = open /\ UNCHANGED <<switch, open, wire>> /\ channel' = <<>>
  <2>1. request # None /\ request.kind = "take" /\ UNCHANGED <<switch, open, wire>> /\ channel' = <<>>
    BY DEF WorkerLends, host, sidecar
  <2> QED BY <2>1 DEF Asked
<1>2. \A x : x \in ToSet(reply'.changes) <=> x \in ToSet(pending') /\ x.project = request.project
  BY WorkerLendsFlow
<1>3. reply' # None => \A x \in ToSet(pending') : x.project = open' => x \in Lent'
  BY <1>1, <1>2 DEF Lent
<1>4. ToCome' \subseteq ToCome
  BY <1>1, EmptyHasNone DEF ToCome
<1> QED BY <1>1, <1>3, <1>4 DEF Application, Applying, Asking, Acknowledging

LEMMA WorkerForgetsApplication ==
    ASSUME Before, Asked, Application, WorkerForgets
    PROVE  Application'
<1> DEFINE others == {c \in ToSet(pending) : c.id \notin request.applied}
<1>1. /\ pending' = Only(pending, others) /\ request # None /\ pending \in Seq(Event)
      /\ request.kind = "acknowledge" /\ UNCHANGED <<wire, channel, switch, open>>
  BY DEF WorkerForgets, Retained, host, sidecar, Before, Types, QueueTypes
<1>2. switch.step \in Acknowledging /\ request.applied = switch.applied
  BY <1>1 DEF Asked
<1>3. \A x \in others : x.id \notin switch.applied
  BY <1>2
<1> HIDE DEF others
<1>4. \A x \in ToSet(pending') : x \in others
  BY <1>1, OnlyIs
<1>5. ToCome' = ToCome
  BY <1>1 DEF ToCome
<1> QED BY <1>1, <1>2, <1>3, <1>4, <1>5 DEF Application, Applying, Asking, Acknowledging

LEMMA ApplicationStep ==
    ASSUME Before, Asked, Line, Application, Next
    PROVE  Application'
<1>0. SwitchTypes /\ QueueTypes /\ Types /\ Turns /\ events \in Nat
  BY DEF Before, Types, DataTypes
<1>1. CASE UserEdits \/ GraphCommits \/ HostEdits \/ ShutdownRequested \/ (EditorOpens /\ editor = None)
  <2>1. UNCHANGED <<switch, reply, open, pending, channel, wire>>
    BY <1>1 DEF UserEdits, GraphCommits, HostEdits, ShutdownRequested, EditorOpens, host, persistence, sidecar
  <2>2. ToCome' = ToCome
    BY <2>1 DEF ToCome
  <2> QED BY <2>1, <2>2, ApplicationStays
<1>2. CASE Reports \/ EditorCloses \/ EditorOpens \/ SidecarExits \/ SidecarRestarts \/ Delivers
  <2>1. UNCHANGED <<switch, reply, open, pending, batch>>
    BY <1>2 DEF Reports, EditorCloses, EditorOpens, SidecarExits, SidecarRestarts, Delivers, host, persistence
  <2>2. \A x \in ToCome' : x \in ToCome \/ x.kind = "restarted" \/ x.id \notin switch.applied
    <3>1. switch.applied \subseteq 0 .. events
      BY DEF Before, IdsTell
    <3>2. CASE Reports
      <4>1. PICK e \in Event : e.id = events + 1 /\ wire' = Coalesced(wire, e) /\ channel' = channel
        <5> DEFINE E(kind) == [kind |-> kind, id |-> events + 1, project |-> editor.project,
                               device |-> editor.device, plugin |-> None,
                               version |-> IF kind = "state" THEN editor.rack.version ELSE 0,
                               revision |-> IF kind = "state" THEN graph.revision ELSE 0]
        <5>1. PICK kind \in {"state", "parameter"} : wire' = Coalesced(wire, E(kind))
          BY <3>2 DEF Reports
        <5>2. editor \in Editor /\ graph \in Runtime /\ events \in Nat /\ channel' = channel
          BY <3>2 DEF Before, Types, DataTypes, Reports, IsUp, persistence
        <5>3. E(kind) \in Event /\ E(kind).id = events + 1
          BY <5>2 DEF Event, Kinds, Editor, Rack, Runtime
        <5> HIDE DEF E
        <5> QED BY <5>1, <5>2, <5>3
      <4>2. ToSet(wire') \subseteq ToSet(wire) \union {e}
        BY <1>0, <4>1, CoalescedIs DEF QueueTypes
      <4> QED BY <1>0, <3>1, <4>1, <4>2 DEF ToCome
    <3>3. CASE (EditorCloses \/ EditorOpens) /\ editor # None
      <4> DEFINE e == FinalOf(editor)
      <4>1. wire' = Append(wire, e) /\ channel' = channel /\ graph # None
        BY <3>3 DEF EditorCloses, EditorOpens, persistence, IsUp
      <4>2. e \in Event /\ e.id = events + 1
        BY <3>3, <4>1, FinalIs DEF Before, Types
      <4> HIDE DEF e
      <4>3. ToSet(wire') = ToSet(wire) \union {e}
        BY <1>0, <4>1, <4>2, AppendAdds DEF QueueTypes
      <4> QED BY <1>0, <3>1, <4>1, <4>2, <4>3 DEF ToCome
    <3>4. CASE EditorOpens /\ editor = None
      BY <3>4 DEF EditorOpens, ToCome, persistence
    <3>5. CASE SidecarExits
      BY <3>5, EmptyHasNone DEF SidecarExits, ToCome, persistence
    <3>6. CASE SidecarRestarts
      <4>1. channel' = Append(channel, Restarted) /\ wire' = wire /\ channel \in Seq(Event)
        BY <1>0, <3>6 DEF SidecarRestarts, QueueTypes
      <4>2. Restarted \in Event /\ Restarted.kind = "restarted"
        BY DEF Restarted, Event, Kinds
      <4>3. ToSet(channel') = ToSet(channel) \union {Restarted}
        BY <4>1, <4>2, AppendAdds
      <4> QED BY <4>1, <4>2, <4>3 DEF ToCome
    <3>7. CASE Delivers
      <4> DEFINE e == Head(wire)
      <4>1. channel' = Append(channel, e) /\ wire' = Tail(wire) /\ wire # <<>>
        BY <3>7 DEF Delivers
      <4>2. e \in Event /\ ToSet(wire) = {e} \union ToSet(wire')
        BY <1>0, <4>1, HeadAndTail DEF QueueTypes
      <4> HIDE DEF e
      <4>3. ToSet(channel') = ToSet(channel) \union {e}
        BY <1>0, <4>1, <4>2, AppendAdds DEF QueueTypes
      <4> QED BY <4>2, <4>3 DEF ToCome
    <3>8. EditorCloses => editor # None
      BY DEF EditorCloses
    <3> QED BY <1>2, <3>2, <3>3, <3>4, <3>5, <3>6, <3>7, <3>8
  <2> QED BY <2>1, <2>2, ApplicationStays
<1>3. CASE WorkerReceives
  <2> DEFINE e == Head(channel)
             changes == Collect(pending, e)
  <2>1. /\ channel # <<>> /\ channel' = Tail(channel) /\ (pending' = changes \/ pending' = <<>>)
        /\ UNCHANGED <<wire, switch, reply, open>>
    BY <1>3 DEF WorkerReceives, sidecar
  <2>2. e \in Event /\ ToSet(channel) = {e} \union ToSet(channel')
    BY <1>0, <2>1, HeadAndTail DEF QueueTypes
  <2> HIDE DEF e
  <2>3. ToSet(changes) \subseteq ToSet(pending) \union {e}
    BY <1>0, <2>2, CollectIs DEF QueueTypes
  <2>4. NoRestart(ToSet(changes))
    <3>1. InOrder(pending) /\ NoRestart(ToSet(pending)) /\ \A x \in ToSet(pending) : Earlier(x, e)
      BY <2>2 DEF Line, NoRestart, Taken, ToCome, Precede
    <3> QED BY <1>0, <2>2, <3>1, CollectInOrder DEF QueueTypes
  <2> HIDE DEF changes
  <2>5. \A x \in ToSet(pending') : x \in ToSet(pending) \/ (x \in ToCome /\ x.kind # "restarted")
    BY <2>1, <2>2, <2>3, <2>4, EmptyHasNone DEF NoRestart, ToCome
  <2>6. ToCome' \subseteq ToCome
    BY <2>1, <2>2 DEF ToCome
  <2> QED BY <2>1, <2>5, <2>6, ApplicationStays
<1>4. CASE WorkerFlushes \/ WorkerApplies \/ WorkerEndsFlush \/ WorkerStops \/ WorkerLocks \/ GateCloses
           \/ ShutdownClosesEditor \/ ShutdownStopsWorker
  <2>1. switch' = switch
    BY <1>4 DEF WorkerFlushes, WorkerApplies, WorkerEndsFlush, WorkerStops, WorkerLocks, GateCloses,
                ShutdownClosesEditor, ShutdownStopsWorker, host
  <2>2. switch.step = "idle"
    BY <1>0, <1>4 DEF Turns, WorkerFlushes, WorkerApplies, WorkerEndsFlush, WorkerStops, WorkerLocks,
                      GateCloses, ShutdownClosesEditor, ShutdownStopsWorker
  <2> QED BY <2>1, <2>2, NobodySwitches
<1>5. CASE WorkerLends \/ WorkerForgets \/ SwitchTakes \/ SwitchApplies
  BY <1>0, <1>5, WorkerLendsApplication, WorkerForgetsApplication, SwitchTakesApplication,
     SwitchAppliesApplication
<1>6. CASE SwitchAcknowledges
  <2>1. /\ switch.step \in Applying /\ switch.changes = <<>> /\ UNCHANGED <<channel, wire, reply>>
        /\ switch'.step \in Acknowledging /\ switch'.changes = <<>> /\ switch'.applied = switch.applied
    BY <1>0, <1>6, SwitchIs DEF SwitchAcknowledges, sidecar, Acknowledging
  <2>2. reply' = None /\ ToCome' = ToCome
    BY <2>1 DEF Asked, Applying, Asking, Acknowledging, ToCome
  <2> QED BY <2>1, <2>2 DEF Application, Applying, Asking, Acknowledging
<1>7. CASE SwitchBegins
  <2>1. switch.step = "idle" /\ switch'.step = "take" /\ switch'.changes = <<>> /\ switch'.applied = {}
        /\ reply' = reply
    BY <1>0, <1>7, SwitchIs DEF SwitchBegins, Turns
  <2>2. reply = None
    BY <2>1 DEF Asked, Asking, Acknowledging
  <2> QED BY <2>1, <2>2, NothingToApply DEF Applying, Acknowledging
<1>8. CASE SwitchClosesEditor
  <2>1. switch.step = "close" /\ switch'.step = "take closing" /\ switch'.changes = switch.changes
        /\ switch'.applied = switch.applied /\ reply' = reply
    BY <1>0, <1>8, SwitchIs DEF SwitchClosesEditor
  <2>2. reply = None /\ switch.changes = <<>> /\ switch.applied = {}
    BY <2>1 DEF Asked, Application, Applying, Asking, Acknowledging
  <2> QED BY <2>1, <2>2, NothingToApply DEF Applying, Acknowledging
<1>9. CASE SwitchGoesOn
  <2>1. /\ switch.step \in Acknowledging
        /\ \/ NoSwitchIs(switch')
           \/ /\ switch'.step \in {"close", "load"}
              /\ switch'.changes = switch.changes /\ switch'.applied = {}
    BY <1>0, <1>9, SwitchIs DEF SwitchGoesOn
  <2>2. switch.changes = <<>>
    BY <2>1 DEF Application, Applying, Acknowledging
  <2> QED BY <2>1, <2>2, NothingToApply DEF Applying, Asking, Acknowledging, NoSwitchIs
<1>10. CASE SwitchTriesCandidate
  <2>1. switch.step = "load" /\ switch'.step = "replace" /\ switch'.changes = switch.changes
        /\ switch'.applied = switch.applied
    BY <1>0, <1>10, SwitchIs DEF SwitchTriesCandidate
  <2>2. switch.changes = <<>> /\ switch.applied = {}
    BY <2>1 DEF Application, Applying, Acknowledging
  <2> QED BY <2>1, <2>2, NothingToApply DEF Applying, Asking, Acknowledging
<1>11. CASE SwitchGivesUp \/ SwitchFails \/ SwitchReplaces
  <2>1. NoSwitchIs(switch')
    BY <1>0, <1>11, SwitchIs
  <2> QED BY <2>1, NothingToApply DEF Applying, Asking, Acknowledging, NoSwitchIs
<1> QED BY <1>1, <1>2, <1>3, <1>4, <1>5, <1>6, <1>7, <1>8, <1>9, <1>10, <1>11
        DEF Next, Sidecar, Requests, Worker, Switch, Shutdown

-----------------------------------------------------------------------------
(* What a user gave a plugin in its editor.                                *)

\* What may still be applied: a change the switch has applied is pending only
\* until it is acknowledged.
Live == ToCome \union ToSet(batch) \union ToSet(switch.changes) \union Lent
        \union {e \in ToSet(pending) : e.id \notin switch.applied}

\* A final state that would give the Session what rack r of device d has; an
\* event that would give it an earlier state; and a Session that needs neither.
Covers(f, d, r) == f.device = d /\ f.project = r.by /\ f.plugin = r.plugin /\ f.version >= r.version
Stale(e, d, r) == /\ e.kind \in {"state", "final"} /\ e.device = d /\ e.project = r.by
                  /\ e.version < r.version
SlotKeeps(d, r) == r.plugin = project[r.by].slots[d].plugin => r.version <= project[r.by].slots[d].version

\* The state is kept or will be, and nothing that is still applied takes it back
\* without a later final state that gives it again.
Kept(d, r) ==
    /\ SlotKeeps(d, r) \/ \E f \in owed : Covers(f, d, r)
    /\ \A e \in Live : Stale(e, d, r) => \E f \in owed : Covers(f, d, r) /\ e.id < f.id

Edited(d) == graph.racks[d] # None /\ graph.racks[d].by # None
HasEdit(d, r) == graph # None /\ graph.racks[d] = r /\ Edited(d)
InEditor(d, r) == editor # None /\ ~editor.displaced /\ editor.device = d /\ editor.project = r.by

\* A rack a user has edited is in its editor still, or its state is kept.
EditKept(d, r) == r.version <= versions /\ (InEditor(d, r) \/ Kept(d, r))
EditsInv == \A d \in Device, r \in Rack : HasEdit(d, r) => EditKept(d, r)

\* An editor shows the rack of its device; the graph that has displaced it got
\* the rack anew.
EditorShares ==
    editor # None =>
        /\ graph # None
        /\ IF editor.displaced THEN ~Edited(editor.device)
           ELSE graph.racks[editor.device] = editor.rack

\* A rack of a new graph is the one before it or has never been edited.
LEMMA RacksForIs ==
    ASSUME NEW slots, NEW before, NEW d \in Device
    PROVE  \/ RacksFor(slots, before)[d] = None
           \/ RacksFor(slots, before)[d] = before[d]
           \/ RacksFor(slots, before)[d].by = None
BY DEF RacksFor

\* What the switch has applied is nothing, or grows.
LEMMA LiveIsAround ==
    ASSUME switch.applied = {}
    PROVE  Live = Around
BY DEF Live, Around, ToCome

LEMMA LiveQuiet ==
    ASSUME switch.applied = {}, NEW new, Flow(new)
    PROVE  Live' \subseteq Live \union new
<1>1. Live = Around
  BY LiveIsAround
<1>2. Live' \subseteq Around'
  BY DEF Live, Around, ToCome
<1> QED BY <1>1, <1>2 DEF Flow

LiveFlows(new) ==
    /\ ToCome' \subseteq ToCome \union new
    /\ ToSet(batch') \union ToSet(switch'.changes) \union Lent' \subseteq Live
    /\ ToSet(pending') \subseteq ToSet(pending) \union Live

LEMMA LiveGrows ==
    ASSUME switch.applied \subseteq switch'.applied, NEW new, LiveFlows(new)
    PROVE  Live' \subseteq Live \union new
<1>1. \A e \in ToSet(pending') : e.id \notin switch'.applied => e \in Live
  BY DEF LiveFlows, Live
<1>2. ToCome' \subseteq Live \union new
  BY DEF LiveFlows, Live
<1> QED BY <1>1, <1>2 DEF LiveFlows, Live

\* Only what comes is different.
LEMMA LiveComes ==
    ASSUME UNCHANGED <<pending, batch, reply>>, switch'.applied = switch.applied,
           switch'.changes = switch.changes, NEW new, ToCome' \subseteq ToCome \union new
    PROVE  Live' \subseteq Live \union new
<1>1. LiveFlows(new)
  BY DEF LiveFlows, Live, Lent
<1> QED BY <1>1, LiveGrows

LEMMA WorkerReceivesLive ==
    ASSUME Before, Application, WorkerReceives
    PROVE  Live' \subseteq Live
<1>1. CASE switch.applied = {}
  BY <1>1, WorkerReceivesFlow, LiveQuiet
<1>2. CASE switch.applied # {}
  <2> DEFINE e == Head(channel)
             changes == Collect(pending, e)
  <2>1. switch.step # "idle" /\ writer # "free"
    BY <1>2 DEF Application, Applying, Acknowledging, Before, Turns
  <2>2. /\ channel # <<>> /\ channel' = Tail(channel) /\ channel \in Seq(Event) /\ pending \in Seq(Event)
        /\ pending' = changes /\ UNCHANGED <<batch, wire, switch, reply>>
    BY <2>1 DEF WorkerReceives, Before, Types, QueueTypes, sidecar
  <2>3. e \in Event /\ ToSet(channel) = {e} \union ToSet(channel')
    BY <2>2, HeadAndTail
  <2> HIDE DEF e
  <2>4. ToSet(changes) \subseteq ToSet(pending) \union {e}
    BY <2>2, <2>3, CollectIs
  <2> HIDE DEF changes
  <2>5. LiveFlows({})
    BY <2>2, <2>3, <2>4 DEF LiveFlows, Live, ToCome, Lent
  <2>6. switch.applied \subseteq switch'.applied
    BY <2>2
  <2> QED BY <2>5, <2>6, LiveGrows
<1> QED BY <1>1, <1>2

LEMMA WorkerForgetsLive ==
    ASSUME Before, Asked, Application, WorkerForgets
    PROVE  Live' \subseteq Live
<1> DEFINE others == {c \in ToSet(pending) : c.id \notin request.applied}
<1>1. /\ pending' = Only(pending, others) /\ pending \in Seq(Event)
      /\ UNCHANGED <<wire, channel, batch, switch>> /\ reply' = [changes |-> <<>>]
  BY DEF WorkerForgets, Retained, host, sidecar, Before, Types, QueueTypes
<1> HIDE DEF others
<1>2. ToSet(pending') \subseteq ToSet(pending)
  BY <1>1, OnlyIs
<1>3. Lent' = {}
  BY <1>1, EmptyHasNone DEF Lent
<1>4. LiveFlows({})
  BY <1>1, <1>2, <1>3 DEF LiveFlows, Live, ToCome
<1> QED BY <1>1, <1>4, LiveGrows

LEMMA SwitchAppliesLive ==
    ASSUME Types, SwitchApplies
    PROVE  Live' \subseteq Live
<1>1. /\ SwitchTypes /\ switch.changes \in Seq(Event) /\ switch.changes # <<>>
      /\ UNCHANGED <<wire, channel, pending, batch, reply>>
  BY DEF Types, SwitchTypes, SwitchApplies, persistence, sidecar
<1>2. /\ switch'.changes = Tail(switch.changes) \/ switch'.changes = <<>>
      /\ switch.applied \subseteq switch'.applied
  BY <1>1, SwitchIs
<1>3. ToSet(switch'.changes) \subseteq ToSet(switch.changes)
  BY <1>1, <1>2, HeadAndTail, EmptyHasNone
<1>4. LiveFlows({})
  BY <1>1, <1>3 DEF LiveFlows, Live, ToCome, Lent
<1> QED BY <1>2, <1>4, LiveGrows

LEMMA SwitchGoesOnLive ==
    ASSUME Types, Application, SwitchGoesOn
    PROVE  Live' \subseteq Live
<1>1. /\ switch.step \in Acknowledging /\ reply # None /\ reply' = None
      /\ UNCHANGED <<wire, channel, pending, batch>>
  BY DEF SwitchGoesOn, sidecar
<1>2. switch'.changes = switch.changes \/ switch'.changes = <<>>
  BY SwitchIs DEF Types, SwitchGoesOn, NoSwitchIs
<1>3. ToSet(switch'.changes) \subseteq ToSet(switch.changes)
  BY <1>2, EmptyHasNone
<1>4. Lent' = {} /\ ToCome' = ToCome
  BY <1>1 DEF Lent, ToCome
<1>5. \A e \in ToSet(pending) : e.id \notin switch.applied
  BY <1>1 DEF Application
<1>6. \A e \in ToSet(pending) : e \in Live
  BY <1>5 DEF Live
<1> QED BY <1>1, <1>3, <1>4, <1>6 DEF Live

\* The steps that bring what is on its way to somebody else.
Moves == \/ Delivers \/ WorkerReceives \/ WorkerFlushes \/ WorkerEndsFlush \/ WorkerLends \/ WorkerForgets
         \/ WorkerStops \/ WorkerLocks \/ SwitchBegins \/ SwitchTakes \/ SwitchAcknowledges \/ SwitchGoesOn
         \/ SwitchGivesUp \/ SwitchFails \/ SwitchReplaces \/ ShutdownRequested \/ GateCloses

LEMMA MovesLive ==
    ASSUME Before, Asked, Application, Moves
    PROVE  Live' \subseteq Live /\ UNCHANGED <<graph, editor, project, owed, versions>>
<1>0. UNCHANGED <<graph, editor, project, owed, versions>>
  BY DEF Moves, Delivers, WorkerReceives, WorkerFlushes, WorkerEndsFlush, WorkerLends, WorkerForgets,
         WorkerStops, WorkerLocks, SwitchBegins, SwitchTakes, SwitchAcknowledges, SwitchGoesOn,
         SwitchGivesUp, SwitchFails, SwitchReplaces, ShutdownRequested, GateCloses, host, sidecar, counters
<1>1. SwitchTypes /\ QueueTypes /\ Types /\ Turns
  BY DEF Before, Types
<1>2. ASSUME switch.step \in {"idle", "close", "load", "replace"} \union Asking, Flow({})
      PROVE  Live' \subseteq Live
  <2>1. switch.applied = {}
    BY <1>2 DEF Application, Asking, Applying, Acknowledging
  <2> QED BY <1>2, <2>1, LiveQuiet
<1>3. CASE Delivers
  <2> DEFINE e == Head(wire)
  <2>1. /\ channel' = Append(channel, e) /\ wire' = Tail(wire) /\ wire # <<>>
        /\ UNCHANGED <<pending, batch, reply, switch>>
    BY <1>3 DEF Delivers, host
  <2>2. e \in Event /\ ToSet(wire) = {e} \union ToSet(wire')
    BY <1>1, <2>1, HeadAndTail DEF QueueTypes
  <2> HIDE DEF e
  <2>3. ToSet(channel') = ToSet(channel) \union {e}
    BY <1>1, <2>1, <2>2, AppendAdds DEF QueueTypes
  <2>4. ToCome' \subseteq ToCome \union {}
    BY <2>2, <2>3 DEF ToCome
  <2> QED BY <1>0, <2>1, <2>4, LiveComes
<1>4. CASE WorkerReceives
  BY <1>0, <1>4, WorkerReceivesLive
<1>5. CASE WorkerFlushes \/ WorkerEndsFlush \/ WorkerStops \/ WorkerLocks
  <2>1. switch.step = "idle"
    BY <1>1, <1>5 DEF Turns, WorkerFlushes, WorkerEndsFlush, WorkerStops, WorkerLocks
  <2>2. Flow({})
    BY <1>5, BeginsFlushFlow, WorkerEndsFlushFlow, WorkerStopsFlow
  <2> QED BY <1>0, <1>2, <2>1, <2>2
<1>6. CASE WorkerLends
  <2>1. switch.step \in Asking
    BY <1>6 DEF WorkerLends, Asked
  <2>2. Flow({})
    BY <1>6, WorkerLendsFlow
  <2> QED BY <1>0, <1>2, <2>1, <2>2
<1>7. CASE WorkerForgets
  BY <1>0, <1>7, WorkerForgetsLive
<1>8. CASE SwitchGoesOn
  BY <1>0, <1>1, <1>8, SwitchGoesOnLive
<1>9. CASE SwitchBegins \/ SwitchTakes \/ SwitchGivesUp \/ SwitchFails \/ SwitchReplaces \/ ShutdownRequested
           \/ GateCloses \/ SwitchAcknowledges
  <2>1. /\ UNCHANGED <<wire, channel, pending, batch, worker>> /\ owed' \subseteq owed
        /\ reply' = reply \/ reply' = None
    BY <1>9 DEF SwitchBegins, SwitchTakes, SwitchGivesUp, SwitchFails, SwitchReplaces, ShutdownRequested,
                GateCloses, SwitchAcknowledges, persistence, sidecar
  <2>2. \/ switch'.changes = switch.changes
        \/ switch'.changes = <<>>
        \/ switch'.changes = reply.changes /\ reply # None
    BY <1>1, <1>9, SwitchIs DEF NoSwitchIs, SwitchTakes, ShutdownRequested, GateCloses
  <2>3. ToSet(switch'.changes) \subseteq ToSet(switch.changes) \union Lent
    BY <2>2, EmptyHasNone DEF Lent
  <2>4. Flow({})
    BY <2>1, <2>3, SwitchFlow
  <2>5. CASE SwitchBegins \/ SwitchTakes \/ SwitchGivesUp \/ SwitchFails \/ SwitchReplaces \/ GateCloses
    <3>1. switch.step \in {"idle", "close", "load", "replace"} \union Asking
      BY <1>1, <2>5 DEF SwitchBegins, SwitchTakes, SwitchGivesUp, SwitchFails, SwitchReplaces, GateCloses, Turns
    <3> QED BY <1>0, <1>2, <2>4, <3>1
  <2>6. CASE ShutdownRequested \/ SwitchAcknowledges
    <3>1. switch'.applied = switch.applied /\ switch'.changes = switch.changes /\ reply' = reply
      BY <1>1, <2>6, SwitchIs DEF ShutdownRequested, SwitchAcknowledges, persistence
    <3>2. ToCome' \subseteq ToCome \union {}
      BY <2>1 DEF ToCome
    <3> QED BY <1>0, <2>1, <3>1, <3>2, LiveComes
  <2> QED BY <1>9, <2>5, <2>6
<1> QED BY <1>3, <1>4, <1>5, <1>6, <1>7, <1>8, <1>9 DEF Moves


\* The graph after a commit has a user's edits only where the one before it had.
LEMMA NewGraphIs ==
    ASSUME DataTypes, graph # None, NEW slots, graph'.racks = RacksFor(slots, graph.racks),
           NEW d \in Device, Edited(d)'
    PROVE  Edited(d) /\ graph'.racks[d] = graph.racks[d]
<1>1. \/ graph'.racks[d] = None
      \/ graph'.racks[d] = graph.racks[d]
      \/ graph'.racks[d].by = None
  BY RacksForIs
<1> QED BY <1>1 DEF Edited

LEMMA NewRacksAreNotEdited ==
    ASSUME NEW slots, NEW d \in Device, graph'.racks = RacksFor(slots, NoRacks)
    PROVE  ~Edited(d)'
<1>1. \/ graph'.racks[d] = None
      \/ graph'.racks[d] = NoRacks[d]
      \/ graph'.racks[d].by = None
  BY RacksForIs
<1> QED BY <1>1 DEF Edited, NoRacks

LEMMA EditorSharesStep ==
    ASSUME Before, EditorShares, Next
    PROVE  EditorShares'
<1>0. DataTypes /\ OwedToSwitch
  BY DEF Before, Types
<1>1. CASE UserEdits
  <2> DEFINE rack == [editor.rack EXCEPT !.version = versions + 1, !.by = editor.project]
  <2>1. /\ graph # None /\ editor # None /\ editor \in Editor /\ graph \in Runtime
        /\ editor' = [editor EXCEPT !.rack = rack, !.dirty = TRUE]
        /\ graph' = IF editor.displaced THEN graph ELSE [graph EXCEPT !.racks[editor.device] = rack]
    BY <1>0, <1>1 DEF UserEdits, IsUp, DataTypes
  <2> HIDE DEF rack
  <2>2. editor'.displaced = editor.displaced /\ editor'.device = editor.device /\ editor'.rack = rack
    BY <2>1 DEF Editor
  <2>3. CASE editor.displaced
    BY <2>1, <2>2, <2>3 DEF EditorShares, Edited
  <2>4. CASE ~editor.displaced
    <3>1. graph' = [graph EXCEPT !.racks[editor.device] = rack]
      BY <2>1, <2>4
    <3>2. graph'.racks[editor.device] = rack
      BY <2>1, <3>1 DEF Runtime, Editor
    <3>3. graph' # None
      BY <1>0, <1>1, UserEditsTyped, SidecarAssumption
    <3> QED BY <2>2, <2>4, <3>2, <3>3 DEF EditorShares
  <2> QED BY <2>3, <2>4
<1>2. CASE Reports
  <2>1. /\ editor # None /\ editor \in Editor /\ graph' = graph
        /\ editor' = [editor EXCEPT !.dirty = FALSE]
    BY <1>0, <1>2 DEF Reports, DataTypes
  <2>2. editor'.displaced = editor.displaced /\ editor'.device = editor.device /\ editor'.rack = editor.rack
    BY <2>1 DEF Editor
  <2> QED BY <2>1, <2>2 DEF EditorShares, Edited
<1>3. CASE EditorOpens
  <2>1. PICK d \in Device :
            editor' = [project |-> open, device |-> d, rack |-> graph.racks[d],
                       dirty |-> FALSE, displaced |-> FALSE]
    BY <1>3 DEF EditorOpens
  <2>2. graph # None /\ graph' = graph
    BY <1>3 DEF EditorOpens, IsUp
  <2> QED BY <2>1, <2>2 DEF EditorShares
<1>4. CASE GraphCommits
  <2> DEFINE racks == RacksFor(target.slots, graph.racks)
  <2>1. /\ graph # None /\ (editor # None => ~editor.displaced)
        /\ graph' = [project |-> target.project, revision |-> target.revision,
                     slots |-> target.slots, racks |-> racks]
        /\ editor' = IF editor = None THEN None
                     ELSE [editor EXCEPT !.displaced = racks[editor.device] # graph.racks[editor.device]]
    BY <1>4 DEF GraphCommits, IsUp
  <2>2. graph'.racks = racks
    BY <2>1
  <2> HIDE DEF racks
  <2>3. CASE editor = None
    BY <2>1, <2>3 DEF EditorShares
  <2>4. CASE editor # None
    <3>1. editor \in Editor /\ graph.racks[editor.device] = editor.rack
      BY <1>0, <2>1, <2>4 DEF DataTypes, EditorShares
    <3>2. /\ editor'.displaced <=> racks[editor.device] # graph.racks[editor.device]
          /\ editor'.device = editor.device /\ editor'.rack = editor.rack
          /\ editor.device \in Device
      BY <2>1, <2>4, <3>1 DEF Editor
    <3>3. graph' # None
      BY <1>0, <1>4, GraphCommitsTyped, SidecarAssumption
    <3>4. CASE racks[editor.device] # graph.racks[editor.device]
      <4>1. ASSUME NEW d \in Device, d = editor.device PROVE ~Edited(d)'
        <5>1. graph'.racks = RacksFor(target.slots, graph.racks)
          BY <2>2 DEF racks
        <5>2. Edited(d)' => graph'.racks[d] = graph.racks[d]
          BY <1>0, <2>1, <5>1, NewGraphIs
        <5> QED BY <2>2, <3>4, <4>1, <5>2
      <4>2. PICK d \in Device : d = editor.device /\ d = editor'.device
        BY <3>2
      <4>3. ~Edited(editor.device)'
        BY <4>1, <4>2 DEF Edited
      <4> QED BY <3>2, <3>3, <3>4, <4>3 DEF EditorShares
    <3>5. CASE racks[editor.device] = graph.racks[editor.device]
      BY <2>2, <3>1, <3>2, <3>3, <3>5 DEF EditorShares
    <3> QED BY <3>4, <3>5
  <2> QED BY <2>3, <2>4
<1>5. CASE SidecarRestarts
  <2>1. graph = None /\ editor' = editor
    BY <1>5 DEF SidecarRestarts, IsUp
  <2> QED BY <2>1 DEF EditorShares
<1>6. CASE SwitchTriesCandidate
  <2>1. editor = None /\ editor' = editor
    BY <1>0, <1>6 DEF SwitchTriesCandidate, OwedToSwitch, Leaving
  <2> QED BY <2>1 DEF EditorShares
<1>7. CASE EditorCloses \/ SidecarExits \/ SwitchClosesEditor \/ ShutdownClosesEditor \/ ShutdownStopsWorker
  <2>1. editor' = None
    BY <1>7 DEF EditorCloses, SidecarExits, SwitchClosesEditor, ShutdownClosesEditor, ShutdownStopsWorker,
                ClosesEditor
  <2> QED BY <2>1 DEF EditorShares
<1>8. CASE HostEdits \/ WorkerApplies \/ SwitchApplies \/ Moves
  <2>1. UNCHANGED <<graph, editor>>
    BY <1>8 DEF HostEdits, WorkerApplies, SwitchApplies, Moves, Delivers, WorkerReceives, WorkerFlushes,
         WorkerEndsFlush, WorkerLends, WorkerForgets, WorkerStops, WorkerLocks, SwitchBegins, SwitchTakes,
         SwitchAcknowledges, SwitchGoesOn, SwitchGivesUp, SwitchFails, SwitchReplaces, ShutdownRequested,
         GateCloses, sidecar
  <2> QED BY <2>1 DEF EditorShares, Edited
<1> QED BY <1>1, <1>2, <1>3, <1>4, <1>5, <1>6, <1>7, <1>8
        DEF Next, Sidecar, Requests, Worker, Switch, Shutdown, Moves


\* A state stays kept, in an editor or on its way, while no final state is taken
\* from what is owed, the Session keeps what it has, and what is new is not stale.
LEMMA EditStays ==
    ASSUME NEW d \in Device, NEW r \in Rack, EditKept(d, r), {versions, versions'} \subseteq Nat,
           versions <= versions', InEditor(d, r) => InEditor(d, r)', owed \subseteq owed',
           SlotKeeps(d, r) => SlotKeeps(d, r)', \A e \in Live' : e \in Live \/ ~Stale(e, d, r)
    PROVE  EditKept(d, r)'
<1>1. r.version \in Nat
  BY DEF Rack
<1>2. r.version <= versions'
  BY <1>1 DEF EditKept
<1>3. Kept(d, r) => Kept(d, r)'
  BY DEF Kept, Stale, Covers
<1> QED BY <1>2, <1>3 DEF EditKept

\* Nothing is edited or opened, and nothing is owed that was not.
LEMMA EditsStay ==
    ASSUME DataTypes, EditsInv, UNCHANGED <<graph, project, owed, versions>>,
           editor' = editor \/ editor = None, Live' \subseteq Live
    PROVE  EditsInv'
<1> SUFFICES ASSUME NEW d \in Device, NEW r \in Rack, HasEdit(d, r)'
             PROVE  EditKept(d, r)'
  BY DEF EditsInv
<1>1. EditKept(d, r)
  BY DEF EditsInv, HasEdit, Edited
<1>2. InEditor(d, r) => InEditor(d, r)'
  BY DEF InEditor
<1>3. SlotKeeps(d, r) => SlotKeeps(d, r)'
  BY DEF SlotKeeps
<1>4. {versions, versions'} \subseteq Nat /\ versions <= versions'
  BY DEF DataTypes
<1> QED BY <1>1, <1>2, <1>3, <1>4, EditStays

LEMMA UserEditsEdits ==
    ASSUME DataTypes, EditsInv, UserEdits
    PROVE  EditsInv'
<1> DEFINE rack == [editor.rack EXCEPT !.version = versions + 1, !.by = editor.project]
<1>1. /\ graph # None /\ editor # None /\ editor \in Editor /\ graph \in Runtime /\ versions \in Nat
      /\ editor' = [editor EXCEPT !.rack = rack, !.dirty = TRUE]
      /\ graph' = IF editor.displaced THEN graph ELSE [graph EXCEPT !.racks[editor.device] = rack]
      /\ versions' = versions + 1
      /\ UNCHANGED <<project, owed, wire, channel, pending, batch, reply, switch>>
  BY DEF UserEdits, IsUp, DataTypes, host, persistence
<1>2. rack.version = versions + 1 /\ rack.by = editor.project
  BY <1>1 DEF Editor, Rack
<1> HIDE DEF rack
<1>3. editor'.displaced = editor.displaced /\ editor'.device = editor.device /\ editor'.project = editor.project
  BY <1>1 DEF Editor
<1>4. editor' # None
  BY UserEditsTyped, SidecarAssumption
<1>5. Live' \subseteq Live
  <2>1. ToCome' \subseteq ToCome \union {}
    BY <1>1 DEF ToCome
  <2> QED BY <1>1, <2>1, LiveComes
<1> SUFFICES ASSUME NEW d \in Device, NEW r \in Rack, HasEdit(d, r)'
             PROVE  EditKept(d, r)'
  BY DEF EditsInv
<1>6. CASE ~editor.displaced /\ d = editor.device
  <2>1. graph' = [graph EXCEPT !.racks[editor.device] = rack]
    BY <1>1, <1>6
  <2>2. r = rack
    BY <1>1, <1>6, <2>1 DEF Runtime, HasEdit
  <2> QED BY <1>1, <1>2, <1>3, <1>4, <1>6, <2>2 DEF EditKept, InEditor
<1>7. CASE ~(~editor.displaced /\ d = editor.device)
  <2>1. graph'.racks[d] = graph.racks[d]
    BY <1>1, <1>7 DEF Runtime
  <2>2. EditKept(d, r)
    BY <1>1, <2>1 DEF EditsInv, HasEdit, Edited
  <2>3. ~InEditor(d, r)
    BY <1>7 DEF InEditor
  <2>4. SlotKeeps(d, r) => SlotKeeps(d, r)'
    BY <1>1 DEF SlotKeeps
  <2>5. {versions, versions'} \subseteq Nat /\ versions <= versions' /\ owed \subseteq owed'
    BY <1>1
  <2> QED BY <1>5, <2>2, <2>3, <2>4, <2>5, EditStays
<1> QED BY <1>6, <1>7

\* What is reported is what the rack has.
LEMMA ReportsEdits ==
    ASSUME Before, EditorShares, EditsInv, Reports
    PROVE  EditsInv'
<1>1. PICK kind \in {"state", "parameter"} :
          wire' = Coalesced(wire,
              [kind |-> kind, id |-> events + 1, project |-> editor.project,
               device |-> editor.device, plugin |-> None,
               version |-> IF kind = "state" THEN editor.rack.version ELSE 0,
               revision |-> IF kind = "state" THEN graph.revision ELSE 0])
  BY DEF Reports
<1> DEFINE e == [kind |-> kind, id |-> events + 1, project |-> editor.project,
                 device |-> editor.device, plugin |-> None,
                 version |-> IF kind = "state" THEN editor.rack.version ELSE 0,
                 revision |-> IF kind = "state" THEN graph.revision ELSE 0]
<1>2. /\ editor # None /\ ~editor.displaced /\ graph # None
      /\ editor' = [editor EXCEPT !.dirty = FALSE]
      /\ UNCHANGED <<graph, project, versions, owed, channel, pending, batch, reply, switch>>
  BY DEF Reports, IsUp, host, persistence
<1>3. /\ editor \in Editor /\ graph \in Runtime /\ events \in Nat /\ wire \in Seq(Event)
      /\ versions \in Nat
  BY <1>2 DEF Before, Types, DataTypes, QueueTypes
<1>4. e \in Event
  BY <1>3 DEF Event, Kinds, Editor, Rack, Runtime
<1>5. /\ e.kind # "final" /\ e.device = editor.device
      /\ e.kind = "state" => e.version = editor.rack.version
  OBVIOUS
<1>6. wire' = Coalesced(wire, e)
  BY <1>1
<1> HIDE DEF e
<1>7. ToSet(wire') \subseteq ToSet(wire) \union {e}
  BY <1>3, <1>4, <1>6, CoalescedIs
<1>8. ToCome' \subseteq ToCome \union {e}
  BY <1>2, <1>7 DEF ToCome
<1>9. Live' \subseteq Live \union {e}
  BY <1>2, <1>8, LiveComes
<1>10. /\ editor'.displaced = editor.displaced /\ editor'.device = editor.device
       /\ editor'.project = editor.project /\ editor' \in Editor
  BY <1>2, <1>3 DEF Editor
<1> SUFFICES ASSUME NEW d \in Device, NEW r \in Rack, HasEdit(d, r)'
             PROVE  EditKept(d, r)'
  BY DEF EditsInv
<1>11. HasEdit(d, r) /\ EditKept(d, r)
  BY <1>2 DEF EditsInv, HasEdit, Edited
<1>12. ~Stale(e, d, r)
  <2>1. d = editor.device => r = editor.rack
    BY <1>2, <1>11 DEF EditorShares, HasEdit
  <2>2. r.version \in Nat
    BY DEF Rack
  <2> QED BY <1>5, <2>1, <2>2 DEF Stale
<1>13. InEditor(d, r) => InEditor(d, r)'
  BY <1>10, SidecarAssumption DEF InEditor
<1>14. SlotKeeps(d, r) => SlotKeeps(d, r)'
  BY <1>2 DEF SlotKeeps
<1>15. {versions, versions'} \subseteq Nat /\ versions <= versions' /\ owed \subseteq owed'
  BY <1>2, <1>3
<1> QED BY <1>9, <1>11, <1>12, <1>13, <1>14, <1>15, EditStays


\* An editor that closes gives its final state: later than everything on its
\* way, and what its rack has unless a new graph has displaced it.
LEMMA ClosingEdits ==
    ASSUME Before, EditorShares, EditsInv, graph # None, editor # None,
           owed' = owed \union {FinalOf(editor)}, UNCHANGED <<graph, project, versions>>,
           Live' \subseteq Live \union {FinalOf(editor)}
    PROVE  EditsInv'
<1> DEFINE f == FinalOf(editor)
<1>1. /\ f \in Event /\ f.id = events + 1 /\ f.kind = "final"
  BY FinalIs DEF Before, Types
<1>2. /\ f.project = editor.project /\ f.device = editor.device
      /\ f.plugin = editor.rack.plugin /\ f.version = editor.rack.version
  BY DEF FinalOf
<1>3. owed' = owed \union {f} /\ Live' \subseteq Live \union {f}
  OBVIOUS
<1> HIDE DEF f
<1>4. Live \subseteq Around
  BY DEF Live, ToCome, Around
<1>5. \A x \in Live : x.id < f.id
  BY <1>1, <1>4, LatestIs
<1> SUFFICES ASSUME NEW d \in Device, NEW r \in Rack, HasEdit(d, r)'
             PROVE  EditKept(d, r)'
  BY DEF EditsInv
<1>6. HasEdit(d, r) /\ EditKept(d, r)
  BY DEF EditsInv, HasEdit, Edited
<1>7. r.version \in Nat
  BY DEF Rack
<1>8. d = editor.device => ~editor.displaced /\ r = editor.rack
  BY <1>6 DEF EditorShares, HasEdit
<1>9. ~Stale(f, d, r)
  BY <1>2, <1>7, <1>8 DEF Stale
<1>10. CASE InEditor(d, r)
  <2>1. Covers(f, d, r)
    BY <1>2, <1>7, <1>8, <1>10 DEF Covers, InEditor
  <2>2. \A x \in Live' : Stale(x, d, r) => x.id < f.id
    BY <1>3, <1>5, <1>9
  <2>3. Kept(d, r)'
    BY <1>3, <2>1, <2>2 DEF Kept, Covers, Stale
  <2> QED BY <1>6, <2>3 DEF EditKept
<1>11. CASE ~InEditor(d, r)
  <2>1. SlotKeeps(d, r) => SlotKeeps(d, r)'
    BY DEF SlotKeeps
  <2>2. {versions, versions'} \subseteq Nat /\ versions <= versions' /\ owed \subseteq owed'
    BY <1>3 DEF Before, Types, DataTypes
  <2> QED BY <1>3, <1>6, <1>9, <1>11, <2>1, <2>2, EditStays
<1> QED BY <1>10, <1>11

LEMMA EditorClosesEdits ==
    ASSUME Before, EditorShares, EditsInv, EditorCloses \/ EditorOpens
    PROVE  EditsInv'
<1>0. QueueTypes /\ DataTypes
  BY DEF Before, Types
<1>1. graph # None /\ UNCHANGED <<graph, project, versions, channel, pending, batch, reply, switch>>
  BY DEF EditorCloses, EditorOpens, IsUp, host, persistence
<1>2. CASE editor # None
  <2> DEFINE f == FinalOf(editor)
  <2>1. wire' = Append(wire, f) /\ owed' = owed \union {f}
    BY <1>2 DEF EditorCloses, EditorOpens
  <2>2. f \in Event
    BY <1>0, <1>1, <1>2, FinalIs
  <2> HIDE DEF f
  <2>3. ToSet(wire') = ToSet(wire) \union {f}
    BY <1>0, <2>1, <2>2, AppendAdds DEF QueueTypes
  <2>4. ToCome' \subseteq ToCome \union {f}
    BY <1>1, <2>3 DEF ToCome
  <2>5. Live' \subseteq Live \union {f}
    BY <1>1, <2>4, LiveComes
  <2> QED BY <1>1, <1>2, <2>1, <2>5, ClosingEdits DEF f
<1>3. CASE editor = None
  <2>1. UNCHANGED <<wire, owed>>
    BY <1>3 DEF EditorCloses, EditorOpens
  <2>2. ToCome' \subseteq ToCome \union {}
    BY <1>1, <2>1 DEF ToCome
  <2>3. Live' \subseteq Live
    BY <1>1, <2>2, LiveComes
  <2> QED BY <1>0, <1>1, <1>3, <2>1, <2>3, EditsStay
<1> QED BY <1>2, <1>3

LEMMA ClosesEditorEdits ==
    ASSUME Before, EditorShares, EditsInv, SwitchClosesEditor \/ ShutdownClosesEditor
    PROVE  EditsInv'
<1>0. DataTypes /\ QueueTypes /\ SwitchTypes
  BY DEF Before, Types
<1>1. /\ ClosesEditor
      /\ UNCHANGED <<project, versions, pending, batch, reply>>
      /\ switch'.applied = switch.applied /\ switch'.changes = switch.changes
  <2>1. ClosesEditor /\ UNCHANGED <<project, versions, pending, batch, reply>>
    BY DEF SwitchClosesEditor, ShutdownClosesEditor
  <2>2. switch'.applied = switch.applied /\ switch'.changes = switch.changes
    BY <1>0, SwitchIs DEF ShutdownClosesEditor
  <2> QED BY <2>1, <2>2
<1>2. /\ graph # None /\ graph' = graph /\ editor' = None /\ owed' = owed \union Closing
      /\ ToSet(channel') \union ToSet(wire') = ToSet(channel) \union ToSet(wire) \union Closing
  BY <1>0, <1>1, ClosesEditorIs
<1>3. ToCome' \subseteq ToCome \union Closing
  BY <1>2 DEF ToCome
<1>4. Live' \subseteq Live \union Closing
  BY <1>1, <1>3, LiveComes
<1>5. CASE editor # None
  <2>1. Closing = {FinalOf(editor)}
    BY <1>5 DEF Closing
  <2> QED BY <1>1, <1>2, <1>4, <1>5, <2>1, ClosingEdits
<1>6. CASE editor = None
  <2>1. Closing = {}
    BY <1>6 DEF Closing
  <2> QED BY <1>0, <1>1, <1>2, <1>4, <1>6, <2>1, EditsStay
<1> QED BY <1>5, <1>6

\* A new graph: what it still has of a user it shares with the one before.
LEMMA NewGraphEdits ==
    ASSUME DataTypes, EditsInv, graph # None, NEW slots, graph'.racks = RacksFor(slots, graph.racks),
           UNCHANGED <<project, owed, versions>>, Live' \subseteq Live,
           \A d \in Device, r \in Rack :
               graph'.racks[d] = graph.racks[d] /\ InEditor(d, r) => InEditor(d, r)'
    PROVE  EditsInv'
<1> SUFFICES ASSUME NEW d \in Device, NEW r \in Rack, HasEdit(d, r)'
             PROVE  EditKept(d, r)'
  BY DEF EditsInv
<1>1. Edited(d) /\ graph'.racks[d] = graph.racks[d]
  <2>1. Edited(d)'
    BY DEF HasEdit
  <2> QED BY <2>1, NewGraphIs
<1>2. EditKept(d, r)
  BY <1>1 DEF EditsInv, HasEdit
<1>3. SlotKeeps(d, r) => SlotKeeps(d, r)'
  BY DEF SlotKeeps
<1>4. {versions, versions'} \subseteq Nat /\ versions <= versions'
  BY DEF DataTypes
<1> QED BY <1>1, <1>2, <1>3, <1>4, EditStays

LEMMA GraphCommitsEdits ==
    ASSUME DataTypes, EditsInv, GraphCommits
    PROVE  EditsInv'
<1> DEFINE racks == RacksFor(target.slots, graph.racks)
<1>1. /\ graph # None /\ (editor # None => ~editor.displaced /\ editor \in Editor)
      /\ graph' = [project |-> target.project, revision |-> target.revision,
                   slots |-> target.slots, racks |-> racks]
      /\ editor' = IF editor = None THEN None
                   ELSE [editor EXCEPT !.displaced = racks[editor.device] # graph.racks[editor.device]]
      /\ UNCHANGED <<project, owed, versions, wire, channel, pending, batch, reply, switch>>
  BY DEF GraphCommits, IsUp, DataTypes, host, persistence, counters
<1>2. graph'.racks = racks
  BY <1>1
<1>3. graph'.racks = RacksFor(target.slots, graph.racks)
  BY <1>2
<1> HIDE DEF racks
<1>4. Live' \subseteq Live
  <2>1. ToCome' \subseteq ToCome \union {}
    BY <1>1 DEF ToCome
  <2> QED BY <1>1, <2>1, LiveComes
<1>5. ASSUME NEW d \in Device, NEW r \in Rack, graph'.racks[d] = graph.racks[d], InEditor(d, r)
      PROVE  InEditor(d, r)'
  <2>1. editor # None /\ editor.device = d /\ editor.project = r.by /\ editor \in Editor
    BY <1>1, <1>5 DEF InEditor
  <2>2. editor' = [editor EXCEPT !.displaced = racks[editor.device] # graph.racks[editor.device]]
    BY <1>1, <2>1
  <2>3. racks[editor.device] = graph.racks[editor.device]
    BY <1>2, <1>5, <2>1
  <2>4. editor' \in Editor /\ ~editor'.displaced /\ editor'.device = d /\ editor'.project = r.by
    BY <2>1, <2>2, <2>3 DEF Editor
  <2> QED BY <2>4, SidecarAssumption DEF InEditor
<1> QED BY <1>1, <1>3, <1>4, <1>5, NewGraphEdits

LEMMA TriesCandidateEdits ==
    ASSUME Types, EditsInv, SwitchTriesCandidate
    PROVE  EditsInv'
<1>0. DataTypes /\ SwitchTypes
  BY DEF Types
<1>1. /\ graph # None
      /\ graph' = [project |-> switch.to, revision |-> target'.revision, slots |-> target'.slots,
                   racks |-> RacksFor(target'.slots, graph.racks)]
      /\ UNCHANGED <<project, owed, versions, editor, wire, channel, pending, batch, reply>>
  BY DEF SwitchTriesCandidate, IsUp, persistence, counters
<1>2. graph'.racks = RacksFor(target'.slots, graph.racks)
  BY <1>1
<1>3. switch'.changes = switch.changes /\ switch'.applied = switch.applied
  BY <1>0, SwitchIs
<1>4. Live' \subseteq Live
  <2>1. ToCome' \subseteq ToCome \union {}
    BY <1>1 DEF ToCome
  <2> QED BY <1>1, <1>3, <2>1, LiveComes
<1>5. \A d \in Device, r \in Rack :
          graph'.racks[d] = graph.racks[d] /\ InEditor(d, r) => InEditor(d, r)'
  BY <1>1 DEF InEditor
<1> DEFINE slots == target'.slots
<1>6. graph'.racks = RacksFor(slots, graph.racks)
  BY <1>2
<1> HIDE DEF slots
<1> QED BY <1>0, <1>1, <1>4, <1>5, <1>6, NewGraphEdits

\* What a new slot makes of the Session.
LEMMA WithSlotIs ==
    ASSUME DataTypes, NEW c, NEW slot, project' = WithSlot(c, slot), NEW p \in Project, NEW d \in Device
    PROVE  project'[p].slots[d] = IF p = open /\ d = c THEN slot ELSE project[p].slots[d]
<1> DEFINE slots == [project[open].slots EXCEPT ![c] = slot]
           record == [slots |-> slots, revision |-> project[open].revision + 1]
<1>1. project' = [project EXCEPT ![open] = record]
  BY DEF WithSlot
<1>2. project[open].slots \in [Device -> Slot] /\ open \in Project
  BY DEF DataTypes, Record
<1>3. slots[d] = IF d = c THEN slot ELSE project[open].slots[d]
  BY <1>2
<1>4. record.slots = slots
  OBVIOUS
<1> HIDE DEF slots, record
<1>5. project'[p] = IF p = open THEN record ELSE project[p]
  BY <1>1 DEF DataTypes
<1> QED BY <1>3, <1>4, <1>5

\* An edit in the Host is later than what any editor gave.
LEMMA HostEditsEdits ==
    ASSUME DataTypes, EditsInv, HostEdits
    PROVE  EditsInv'
<1>1. PICK c \in Device, plugin \in Plugin \union {None} :
          project' = WithSlot(c, [plugin |-> plugin, version |-> versions + 1])
  BY DEF HostEdits
<1> DEFINE slot == [plugin |-> plugin, version |-> versions + 1]
<1>2. project' = WithSlot(c, slot) /\ slot.version = versions + 1
  BY <1>1
<1> HIDE DEF slot
<1>3. /\ versions' = versions + 1 /\ versions \in Nat
      /\ UNCHANGED <<graph, editor, owed, wire, channel, pending, batch, reply, switch>>
  BY DEF HostEdits, DataTypes, persistence, sidecar
<1>4. Live' \subseteq Live
  <2>1. ToCome' \subseteq ToCome \union {}
    BY <1>3 DEF ToCome
  <2> QED BY <1>3, <2>1, LiveComes
<1> SUFFICES ASSUME NEW d \in Device, NEW r \in Rack, HasEdit(d, r)'
             PROVE  EditKept(d, r)'
  BY DEF EditsInv
<1>5. HasEdit(d, r) /\ EditKept(d, r)
  BY <1>3 DEF EditsInv, HasEdit, Edited
<1>6. r.by \in Project /\ r.version \in Nat
  BY <1>5 DEF HasEdit, Edited, Rack
<1>7. project'[r.by].slots[d] = IF r.by = open /\ d = c THEN slot ELSE project[r.by].slots[d]
  BY <1>2, <1>6, WithSlotIs
<1>8. SlotKeeps(d, r) => SlotKeeps(d, r)'
  BY <1>2, <1>3, <1>5, <1>6, <1>7 DEF SlotKeeps, EditKept
<1>9. InEditor(d, r) => InEditor(d, r)'
  BY <1>3 DEF InEditor
<1>10. {versions, versions'} \subseteq Nat /\ versions <= versions' /\ owed \subseteq owed'
  BY <1>3
<1> QED BY <1>4, <1>5, <1>8, <1>9, <1>10, EditStays


\* What a change makes of the slot of its device.
LEMMA AppliesSlot ==
    ASSUME DataTypes, NEW h \in Event, h.kind # "restarted", NEW tell \in BOOLEAN, Applies(h, tell),
           NEW d \in Device, NEW r \in Rack, HasEdit(d, r)
    PROVE  \/ SlotKeeps(d, r)'
           \/ ~SlotKeeps(d, r) /\ ~Covers(h, d, r)
           \/ ~SlotKeeps(d, r) /\ h.kind # "final"
           \/ Stale(h, d, r)
<1>0. r.by \in Project /\ r.version \in Nat /\ open \in Project /\ graph.racks[d] = r
  BY DEF HasEdit, Edited, Rack, DataTypes
<1>1. CASE Settles(h)
  <2>1. SlotKeeps(d, r) => SlotKeeps(d, r)'
    BY <1>1 DEF Settles, SlotKeeps
  <2>2. ASSUME Covers(h, d, r), h.kind = "final" PROVE SlotKeeps(d, r)
    <3>1. h.device = d /\ h.project = r.by /\ h.plugin = r.plugin /\ h.version >= r.version
      BY <2>2 DEF Covers
    <3>2. CASE IsDiscarded(h)
      BY <2>2, <3>1, <3>2 DEF IsDiscarded, SlotOf, SlotKeeps
    <3>3. CASE IsConfirmed(h)
      BY <2>2, <3>1, <3>3 DEF IsConfirmed, IsApplicable, AsksRuntime, Captured, SlotOf, SlotKeeps
    <3> QED BY <1>1, <3>2, <3>3 DEF Settles
  <2> QED BY <2>1, <2>2
<1>2. CASE Commits(h, tell)
  <2> DEFINE slot == [SlotOf(h) EXCEPT !.version = Captured(h)]
  <2>1. project' = WithSlot(h.device, slot) /\ h.project = open
    BY <1>2 DEF Commits, IsApplicable
  <2>2. h.device = d => slot.plugin = project[open].slots[d].plugin /\ slot.version = Captured(h)
    BY DEF SlotOf, DataTypes, Record, Slot
  <2> HIDE DEF slot
  <2>3. project'[r.by].slots[d] = IF r.by = open /\ d = h.device THEN slot ELSE project[r.by].slots[d]
    BY <1>0, <2>1, WithSlotIs
  <2>4. CASE r.by = open /\ d = h.device
    <3>1. CASE AsksRuntime(h)
      BY <1>0, <2>2, <2>3, <2>4, <3>1 DEF SlotKeeps, Captured
    <3>2. CASE ~AsksRuntime(h)
      <4>1. Captured(h) = h.version /\ h.kind \in {"state", "final"} /\ h.version \in Nat
        BY <3>2 DEF Captured, AsksRuntime, Event, Kinds
      <4>2. CASE h.version < r.version
        BY <2>1, <2>4, <4>1, <4>2 DEF Stale
      <4>3. CASE h.version >= r.version
        BY <1>0, <2>2, <2>3, <2>4, <4>1, <4>3 DEF SlotKeeps
      <4> QED BY <1>0, <4>1, <4>2, <4>3
    <3> QED BY <3>1, <3>2
  <2>5. CASE ~(r.by = open /\ d = h.device)
    <3>1. SlotKeeps(d, r) => SlotKeeps(d, r)'
      BY <2>3, <2>5 DEF SlotKeeps
    <3>2. ~Covers(h, d, r)
      BY <2>1, <2>5 DEF Covers
    <3> QED BY <3>1, <3>2
  <2> QED BY <2>4, <2>5
<1> QED BY <1>1, <1>2 DEF Applies

\* Nothing a final state overtakes is applied after it.
NotOvertaken(h) ==
    \A e \in Live' : h.kind = "final" /\ e.kind \in {"state", "final"} /\ SameDevice(e, h) => h.id <= e.id

\* A change is applied: the state of a rack that was kept still is.
LEMMA AppliesEdits ==
    ASSUME Before, EditsInv, NEW h \in Live, h.kind # "restarted", NEW tell \in BOOLEAN, Applies(h, tell),
           UNCHANGED <<graph, editor, versions>>, Live' \subseteq Live, NotOvertaken(h)
    PROVE  EditsInv'
<1>1. owed' = owed \ {h} /\ DataTypes
  BY DEF Applies, Before, Types
<1>2. Live \subseteq Event /\ \A f \in owed : f \in Event /\ f.kind = "final"
  <2>1. Live \subseteq Around
    BY DEF Live, ToCome, Around
  <2> QED BY <2>1, AroundTyped DEF Before, Types, IdsTell
<1> SUFFICES ASSUME NEW d \in Device, NEW r \in Rack, HasEdit(d, r)'
             PROVE  EditKept(d, r)'
  BY DEF EditsInv
<1>3. HasEdit(d, r) /\ EditKept(d, r)
  BY DEF EditsInv, HasEdit, Edited
<1>4. CASE InEditor(d, r)
  BY <1>3, <1>4 DEF EditKept, InEditor
<1>5. CASE ~InEditor(d, r)
  <2>1. Kept(d, r)
    BY <1>3, <1>5 DEF EditKept
  <2>2. SlotKeeps(d, r)' \/ \E f \in owed' : Covers(f, d, r)
    <3>1. CASE Stale(h, d, r)
      <4>1. PICK f \in owed : Covers(f, d, r) /\ h.id < f.id
        BY <2>1, <3>1 DEF Kept
      <4>2. f # h
        BY <1>2, <4>1 DEF Event
      <4> QED BY <1>1, <4>1, <4>2
    <3>2. CASE ~SlotKeeps(d, r) /\ (~Covers(h, d, r) \/ h.kind # "final")
      <4>1. PICK f \in owed : Covers(f, d, r)
        BY <2>1, <3>2 DEF Kept
      <4> QED BY <1>1, <1>2, <3>2, <4>1
    <3> QED BY <1>1, <1>2, <1>3, <3>1, <3>2, AppliesSlot
  <2>3. ASSUME NEW e \in Live', Stale(e, d, r)
        PROVE  \E f \in owed' : Covers(f, d, r) /\ e.id < f.id
    <3>1. PICK f \in owed : Covers(f, d, r) /\ e.id < f.id
      BY <2>1, <2>3 DEF Kept
    <3>2. f # h
      <4> SUFFICES ASSUME f = h PROVE FALSE
        OBVIOUS
      <4>1. h.kind = "final" /\ SameDevice(e, h) /\ e.kind \in {"state", "final"}
        BY <1>2, <2>3, <3>1 DEF Covers, Stale, SameDevice
      <4>2. h.id <= e.id
        BY <2>3, <4>1 DEF NotOvertaken
      <4>3. h.id \in Nat /\ e.id \in Nat
        BY <1>2, <2>3 DEF Event
      <4> QED BY <3>1, <4>2, <4>3
    <3> QED BY <1>1, <3>1, <3>2
  <2>4. Kept(d, r)'
    BY <2>2, <2>3 DEF Kept, Covers, Stale
  <2> QED BY <1>3, <2>4 DEF EditKept
<1> QED BY <1>4, <1>5

\* What is applied while it is in line is not overtaken.
LEMMA EarlierIsNotLater ==
    ASSUME NEW h \in Event, NEW e \in Event, Earlier(h, e), h.kind = "final", e.kind # "restarted"
    PROVE  h.id <= e.id
BY DEF Earlier, Event

LEMMA WorkerAppliesEdits ==
    ASSUME Before, Asked, Line, FailedStay, Application, EditsInv, WorkerApplies
    PROVE  EditsInv'
<1>0. Types /\ Turns /\ DataTypes /\ QueueTypes /\ SwitchTypes
  BY DEF Before, Types
<1> DEFINE h == Head(batch)
           device == <<h.project, h.device>>
<1>1. /\ worker \in {"flushing", "last flush"} /\ batch # <<>> /\ batch' = Tail(batch)
      /\ \/ device \notin failed /\ Applies(h, TRUE) /\ pending' = pending
         \/ UNCHANGED <<project, owed>>
      /\ UNCHANGED <<graph, editor, versions, wire, channel, reply, switch>>
  BY DEF WorkerApplies, Fails, sidecar, counters
<1>2. switch.step = "idle" /\ switch.applied = {} /\ switch.changes = <<>> /\ reply = None
  BY <1>0, <1>1 DEF Turns, Application, Asked, Applying, Asking, Acknowledging
<1>3. Live' \subseteq Live
  <2>1. Flow({})
    BY WorkerAppliesFlow
  <2> QED BY <1>2, <2>1, LiveQuiet
<1>4. h \in Event /\ h \in ToSet(batch) /\ ToSet(batch) = {h} \union ToSet(batch')
      /\ \A x \in ToSet(batch') : Earlier(h, x)
  BY <1>0, <1>1, HeadAndTail, TailInOrder DEF QueueTypes, Line
<1> HIDE DEF h
<1>5. CASE UNCHANGED <<project, owed>>
  BY <1>0, <1>1, <1>3, <1>5, EditsStay
<1>6. CASE device \notin failed /\ Applies(h, TRUE) /\ pending' = pending
  <2>1. h \in Live /\ h \in Taken /\ h.kind # "restarted"
    BY <1>4 DEF Live, Taken, Line, NoRestart
  <2>2. ASSUME NEW e \in Live', h.kind = "final", e.kind \in {"state", "final"}, SameDevice(e, h)
        PROVE  Earlier(h, e)
    <3>1. CASE e \in ToCome'
      BY <1>1, <2>1, <3>1 DEF ToCome, Line, Precede
    <3>2. CASE e \in ToSet(batch')
      BY <1>4, <3>2
    <3>3. CASE e \in ToSet(pending')
      BY <1>1, <1>6, <2>2, <3>3 DEF FailedStay, SameDevice
    <3>4. ToSet(switch'.changes) = {} /\ Lent' = {}
      BY <1>1, <1>2, EmptyHasNone DEF Lent
    <3> QED BY <3>1, <3>2, <3>3, <3>4 DEF Live
  <2>3. Live' \subseteq Event
    <3>1. Live \subseteq Around
      BY DEF Live, ToCome, Around
    <3> QED BY <1>0, <1>3, <3>1, AroundTyped
  <2>4. NotOvertaken(h)
    BY <1>4, <2>2, <2>3, EarlierIsNotLater DEF NotOvertaken
  <2> QED BY <1>1, <1>3, <1>6, <2>1, <2>4, AppliesEdits
<1> QED BY <1>1, <1>5, <1>6

LEMMA SwitchAppliesEdits ==
    ASSUME Before, Asked, Line, Application, EditsInv, SwitchApplies
    PROVE  EditsInv'
<1>0. Types /\ Turns /\ DataTypes /\ QueueTypes /\ SwitchTypes
  BY DEF Before, Types
<1> DEFINE h == Head(switch.changes)
<1>1. /\ switch.step \in Applying /\ switch.changes # <<>> /\ switch.changes \in Seq(Event)
      /\ UNCHANGED <<graph, editor, versions, wire, channel, pending, batch, reply>>
  BY <1>0 DEF SwitchApplies, SwitchTypes, persistence, sidecar, counters
<1>2. \/ /\ switch'.changes = Tail(switch.changes) /\ switch'.applied = switch.applied \union {h.id}
         /\ Applies(h, switch.step = "apply")
      \/ Fails(h)
  BY <1>0, SwitchIs
<1>3. Live' \subseteq Live
  BY <1>0, SwitchAppliesLive
<1>4. h \in Event /\ h \in ToSet(switch.changes)
      /\ ToSet(switch.changes) = {h} \union ToSet(Tail(switch.changes))
      /\ \A x \in ToSet(Tail(switch.changes)) : Earlier(h, x)
  BY <1>1, HeadAndTail, TailInOrder DEF Line
<1> HIDE DEF h
<1>5. batch = <<>> /\ reply = None
  BY <1>0, <1>1 DEF Turns, Asked, Applying, Asking, Acknowledging
<1>6. CASE Fails(h)
  <2>1. UNCHANGED <<project, owed>>
    BY <1>6 DEF Fails
  <2> QED BY <1>0, <1>1, <1>3, <2>1, EditsStay
<1>7. CASE /\ switch'.changes = Tail(switch.changes) /\ switch'.applied = switch.applied \union {h.id}
           /\ Applies(h, switch.step = "apply")
  <2>1. h \in Live /\ h \in Taken /\ h.kind # "restarted"
    BY <1>4 DEF Live, Taken, Line, NoRestart
  <2>2. h.kind = "final" => h.project = open
    BY <1>7 DEF Applies, Settles, Commits, IsDiscarded, IsConfirmed, IsApplicable
  <2>3. ASSUME NEW e \in Live', h.kind = "final", e.kind \in {"state", "final"}, SameDevice(e, h)
        PROVE  Earlier(h, e)
    <3>1. CASE e \in ToCome'
      BY <1>1, <2>1, <3>1 DEF ToCome, Line, Precede
    <3>2. CASE e \in ToSet(switch'.changes)
      BY <1>4, <1>7, <3>2
    <3>3. CASE e \in ToSet(pending') /\ e.id \notin switch'.applied
      <4>1. e \in ToSet(pending) /\ e.project = open /\ e.id \notin switch.applied /\ e # h
        BY <1>1, <1>7, <2>2, <2>3, <3>3 DEF SameDevice
      <4>2. e \in ToSet(switch.changes) \/ Precede(ToSet(switch.changes), {e})
        BY <1>1, <4>1 DEF Application
      <4> QED BY <1>4, <4>1, <4>2 DEF Precede
    <3>4. ToSet(batch') = {} /\ Lent' = {}
      BY <1>1, <1>5, EmptyHasNone DEF Lent
    <3> QED BY <3>1, <3>2, <3>3, <3>4 DEF Live
  <2>4. Live' \subseteq Event
    <3>1. Live \subseteq Around
      BY DEF Live, ToCome, Around
    <3> QED BY <1>0, <1>3, <3>1, AroundTyped
  <2>5. NotOvertaken(h)
    BY <1>4, <2>3, <2>4, EarlierIsNotLater DEF NotOvertaken
  <2>6. (switch.step = "apply") \in BOOLEAN
    OBVIOUS
  <2> QED BY <1>1, <1>3, <1>7, <2>1, <2>5, <2>6, AppliesEdits
<1> QED BY <1>2, <1>6, <1>7

LEMMA EditsInvStep ==
    ASSUME Before, Asked, Line, FailedStay, Application, EditorShares, EditsInv, Next
    PROVE  EditsInv'
<1>0. Types /\ DataTypes
  BY DEF Before, Types
<1>1. CASE Moves
  <2>1. Live' \subseteq Live /\ UNCHANGED <<graph, editor, project, owed, versions>>
    BY <1>1, MovesLive
  <2> QED BY <1>0, <2>1, EditsStay
<1>2. CASE SidecarExits \/ ShutdownStopsWorker
  <2>1. graph' = None
    BY <1>2 DEF SidecarExits, ShutdownStopsWorker
  <2> QED BY <2>1 DEF EditsInv, HasEdit
<1>3. CASE SidecarRestarts
  <2>1. graph' = [project |-> open, revision |-> Snapshot(open, project).revision,
                  slots |-> Snapshot(open, project).slots,
                  racks |-> RacksFor(Snapshot(open, project).slots, NoRacks)]
    BY <1>3 DEF SidecarRestarts
  <2>2. graph'.racks = RacksFor(Snapshot(open, project).slots, NoRacks)
    BY <2>1
  <2>3. \A d \in Device : ~Edited(d)'
    BY <2>2, NewRacksAreNotEdited
  <2> QED BY <2>3 DEF EditsInv, HasEdit
<1>4. CASE UserEdits \/ Reports \/ EditorCloses \/ EditorOpens \/ SwitchClosesEditor \/ ShutdownClosesEditor
           \/ GraphCommits \/ SwitchTriesCandidate \/ HostEdits \/ WorkerApplies \/ SwitchApplies
  BY <1>0, <1>4, UserEditsEdits, ReportsEdits, EditorClosesEdits, ClosesEditorEdits, GraphCommitsEdits,
     TriesCandidateEdits, HostEditsEdits, WorkerAppliesEdits, SwitchAppliesEdits
<1> QED BY <1>1, <1>2, <1>3, <1>4 DEF Next, Sidecar, Requests, Worker, Switch, Shutdown, Moves


\* The invariant of a user's edits.
EditsInvariant == PersistenceInv /\ Line /\ FailedStay /\ Application /\ EditorShares /\ EditsInv

LEMMA EditsInvariantInit == Init => EditsInvariant
<1> SUFFICES ASSUME Init PROVE EditsInvariant
  OBVIOUS
<1>1. PersistenceInv
  BY PersistenceInvInit
<1>2. /\ wire = <<>> /\ channel = <<>> /\ pending = <<>> /\ batch = <<>> /\ reply = None /\ editor = None
      /\ worker = "waiting"
      /\ switch = [step |-> "idle", to |-> None, changes |-> <<>>, applied |-> {}, failed |-> FALSE]
  BY DEF Init, NoSwitch
<1>3. switch.step = "idle" /\ switch.changes = <<>> /\ switch.applied = {}
  BY <1>2
<1>4. /\ ToSet(pending) = {} /\ ToSet(batch) = {} /\ ToSet(switch.changes) = {} /\ Lent = {}
      /\ ToSet(channel) = {} /\ ToSet(wire) = {} /\ InOrder(<<>>)
  BY <1>2, <1>3, EmptyHasNone, EmptyInOrder DEF Lent
<1>5. Line
  BY <1>2, <1>3, <1>4 DEF Line, Taken, ToCome, Precede, NoRestart
<1>6. FailedStay /\ EditorShares
  BY <1>2 DEF FailedStay, EditorShares
<1>7. Application
  BY <1>2, <1>3, <1>4 DEF Application, ToCome, Asking, Applying, Acknowledging
<1>8. EditsInv
  <2>1. graph = [project |-> First, revision |-> 0, slots |-> Blank.slots,
                 racks |-> RacksFor(Blank.slots, NoRacks)]
    BY DEF Init
  <2>2. graph.racks = RacksFor(Blank.slots, NoRacks)
    BY <2>1
  <2>3. ASSUME NEW d \in Device PROVE ~Edited(d)
    <3>1. \/ graph.racks[d] = None
          \/ graph.racks[d] = NoRacks[d]
          \/ graph.racks[d].by = None
      BY <2>2, RacksForIs
    <3> QED BY <3>1 DEF Edited, NoRacks
  <2> QED BY <2>3 DEF EditsInv, HasEdit
<1> QED BY <1>1, <1>5, <1>6, <1>7, <1>8 DEF EditsInvariant

LEMMA EditsInvariantStep == EditsInvariant /\ [Next]_vars => EditsInvariant'
<1> SUFFICES ASSUME EditsInvariant, [Next]_vars PROVE EditsInvariant'
  OBVIOUS
<1>1. PersistenceInv'
  BY PersistenceInvStep DEF EditsInvariant
<1>2. CASE Next
  <2>1. /\ Before /\ Asked /\ Types /\ Turns
        /\ Line /\ FailedStay /\ Application /\ EditorShares /\ EditsInv
    BY DEF EditsInvariant, PersistenceInv, Before
  <2>2. Line'
    BY <1>2, <2>1, LineStep
  <2>3. FailedStay'
    BY <1>2, <2>1, FailedStayStep
  <2>4. Application'
    BY <1>2, <2>1, ApplicationStep
  <2>5. EditorShares'
    BY <1>2, <2>1, EditorSharesStep
  <2>6. EditsInv'
    BY <1>2, <2>1, EditsInvStep
  <2> QED BY <1>1, <2>2, <2>3, <2>4, <2>5, <2>6 DEF EditsInvariant
<1>3. CASE UNCHANGED vars
  <2>1. UNCHANGED <<project, open, switch, channel, reply, pending, worker, batch, failed, graph, editor,
                    wire, versions, owed>>
    BY <1>3 DEF vars, host, persistence, sidecar, counters
  <2>2. Taken' = Taken /\ ToCome' = ToCome /\ Lent' = Lent /\ Live' = Live
    BY <2>1 DEF Taken, ToCome, Lent, Live
  <2>3. Line' /\ FailedStay' /\ Application'
    BY <2>1, <2>2 DEF EditsInvariant, Line, FailedStay, Application
  <2>4. EditorShares'
    BY <2>1 DEF EditsInvariant, EditorShares, Edited
  <2>5. EditsInv'
    <3>1. DataTypes
      BY DEF EditsInvariant, PersistenceInv, Types
    <3> QED BY <2>1, <2>2, <3>1, EditsStay DEF EditsInvariant
  <2> QED BY <1>1, <2>3, <2>4, <2>5 DEF EditsInvariant
<1> QED BY <1>2, <1>3

\* The other Project's graph is tried in one step.
LEMMA CandidateIsTried ==
    ASSUME SwitchTypes, Turns, Next, switch.step = "load", switch'.step = "replace"
    PROVE  SwitchTriesCandidate
<1>1. CASE UserEdits \/ Reports \/ EditorCloses \/ GraphCommits \/ SidecarExits \/ SidecarRestarts \/ Delivers
           \/ HostEdits \/ EditorOpens \/ Worker \/ ShutdownRequested \/ Shutdown
  <2>1. switch' = switch
    BY <1>1 DEF UserEdits, Reports, EditorCloses, GraphCommits, SidecarExits, SidecarRestarts, Delivers,
         HostEdits, EditorOpens, Worker, WorkerReceives, WorkerFlushes, WorkerApplies, WorkerEndsFlush,
         WorkerLends, WorkerForgets, WorkerStops, WorkerLocks, ShutdownRequested, Shutdown, GateCloses,
         ShutdownClosesEditor, ShutdownStopsWorker, host
  <2> QED BY <2>1
<1>2. CASE SwitchBegins \/ SwitchGivesUp \/ SwitchFails \/ SwitchReplaces
  BY <1>2, SwitchIs DEF NoSwitchIs
<1>3. CASE SwitchTakes \/ SwitchApplies \/ SwitchAcknowledges \/ SwitchGoesOn \/ SwitchClosesEditor
  BY <1>3 DEF SwitchTakes, SwitchApplies, SwitchAcknowledges, SwitchGoesOn, SwitchClosesEditor,
              Asking, Applying, Acknowledging
<1> QED BY <1>1, <1>2, <1>3 DEF Next, Sidecar, Requests, Switch

(* The invariant of a user's edits, for any number of switches.  Until its       *)
(* editor closes, what a user gave a plugin is in the editor; from then on the   *)
(* Session has it, or a final state that would give it is owed.  Reports queue   *)
(* up so that whoever applies a final state has applied or dropped every report  *)
(* before it, and so nothing takes back what the final state gave.               *)
THEOREM EditsInvariance == Spec => []EditsInvariant
<1>1. Init => EditsInvariant
  BY EditsInvariantInit
<1>2. EditsInvariant /\ [Next]_vars => EditsInvariant'
  BY EditsInvariantStep
<1> QED BY <1>1, <1>2, PTL DEF Spec

(* When the runtime is given another Project, the Session of the one that is     *)
(* left has the last state its user gave, in its editors, to each plugin in the  *)
(* runtime, or one the user chose later.                                         *)
THEOREM SwitchesKeepEdits == Spec => SwitchKeepsEdits
<1> DEFINE Kept1 == \A d \in Device :
                        /\ graph.racks[d] # None
                        /\ graph.racks[d].by = open
                        /\ graph.racks[d].plugin = project[open].slots[d].plugin
                        => graph.racks[d].version <= project[open].slots[d].version
<1>1. EditsInvariant /\ [Next]_vars =>
          [switch.step = "load" /\ switch'.step = "replace" => Kept1]_vars
  <2> SUFFICES ASSUME EditsInvariant, Next, switch.step = "load", switch'.step = "replace"
               PROVE  Kept1
    OBVIOUS
  <2>1. SwitchTypes /\ Turns /\ OwedToSwitch /\ DataTypes /\ EditsInv
    BY DEF EditsInvariant, PersistenceInv, Types
  <2>2. graph # None
    BY <2>1, CandidateIsTried DEF SwitchTriesCandidate, IsUp
  <2>3. editor = None /\ owed = {}
    BY <2>1 DEF OwedToSwitch, Leaving
  <2> SUFFICES ASSUME NEW d \in Device, graph.racks[d] # None, graph.racks[d].by = open,
                      graph.racks[d].plugin = project[open].slots[d].plugin
               PROVE  graph.racks[d].version <= project[open].slots[d].version
    OBVIOUS
  <2>4. PICK r \in Rack : r = graph.racks[d]
    BY <2>1, <2>2 DEF DataTypes, Runtime
  <2>5. HasEdit(d, r)
    BY <2>1, <2>2, <2>4, PersistenceAssumption DEF HasEdit, Edited, DataTypes
  <2>6. Kept(d, r)
    BY <2>1, <2>3, <2>5 DEF EditsInv, EditKept, InEditor
  <2>7. SlotKeeps(d, r)
    BY <2>3, <2>6 DEF Kept
  <2> QED BY <2>4, <2>7 DEF SlotKeeps
<1>2. Spec => []EditsInvariant
  BY EditsInvariance
<1> QED BY <1>1, <1>2, PTL DEF Spec, SwitchKeepsEdits
================================================================================
