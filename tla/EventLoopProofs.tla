-------------------------- MODULE EventLoopProofs ---------------------------
(***************************************************************************)
(* Proofs about EventLoop, for any tasks, any depth of blocking windows    *)
(* and any number of signals.                                              *)
(*                                                                         *)
(* LoopInv ties the call stack to the stack of idle-task lists: there is   *)
(* one list more than windows are open, an idle pass at depth d works on   *)
(* the list that was current when d - 1 activations were running, and a    *)
(* task on a list was installed under at least as many windows as put that *)
(* list aside.  SignalInv says why no second pass over the signals starts  *)
(* while one is under way.                                                 *)
(***************************************************************************)
EXTENDS EventLoop, CursorLemmas, FiniteSetTheorems, WellFoundedInduction

Kinds == {"main", "window", "idle", "urgent", "signals"}

LoopPcs == {"dispatch", "between", "idle", "urgent", "end"}

Activations ==
    [kind : Kinds, pc : LoopPcs \cup {"next", "perform", "check", "connect", "test", "broadcast", "reset"},
     list : Seq(UrgentTasks), level : Nat, i : Nat]

\* An activation in order on the idle lists ids, with w windows open up to it: only
\* event loops are at the places of an event loop, and the cursor of a pass is
\* inside its list.
FrameOK(f, ids, w) ==
    /\ f \in Activations
    /\ f.kind \in {"main", "window"} <=> f.pc \in LoopPcs
    /\ f.pc \in {"check", "connect"} => f.kind = "idle"
    /\ f.pc \in {"test", "broadcast", "reset"} => f.kind = "signals"
    /\ f.kind = "idle" => f.level = w + 1 /\ f.i <= Len(ids[f.level])
    /\ f.kind = "urgent" => f.i <= Len(f.list) /\ NoRepeats(f.list)

\* Windows(d), of any stack.
WindowsOf(st, d) == Cardinality({e \in 1 .. d : st[e].kind = "window"})

StackOK(st, ids) ==
    /\ st \in Seq(Activations)
    /\ st # <<>>
    /\ Len(ids) = WindowsOf(st, Len(st)) + 1
    /\ WindowsOf(st, Len(st)) <= MaxWindows
    /\ \A d \in 1 .. Len(st) :
          /\ FrameOK(st[d], ids, WindowsOf(st, d))
          /\ st[d].kind = "main" <=> d = 1

\* Each list, and any two of them, are free of repetitions, and no task is on the
\* list that waits for a window which was already open when it was installed.
IdleOK(ids, inst) ==
    /\ ids \in Seq(Seq(IdleTasks))
    /\ inst \in [IdleTasks -> 0 .. MaxWindows]
    /\ \A l \in 1 .. Len(ids) : NoRepeats(ids[l])
    /\ \A l, m \in 1 .. Len(ids) : l # m => Range(ids[l]) \cap Range(ids[m]) = {}
    /\ \A l \in 1 .. Len(ids) : \A t \in Range(ids[l]) : inst[t] >= l - 1

\* The passes that have yet to come to t.
Passes(t, st) == {d \in 1 .. Len(st) : Awaits(st[d], t)}

\* What is owed of Perform is what the passes have before them and what waits.
UrgentOK(ur, al, ow, st) ==
    /\ ur \in Seq(UrgentTasks) /\ al \subseteq UrgentTasks
    /\ NoRepeats(ur)
    /\ ow \in [UrgentTasks -> Nat]
    /\ \A t \in UrgentTasks :
          ow[t] = Cardinality(Passes(t, st)) + IF t \in Range(ur) THEN 1 ELSE 0

LoopInv ==
    /\ StackOK(stack, idle)
    /\ IdleOK(idle, installedAt)
    /\ UrgentOK(urgent, alive, owed, stack)
    /\ hasBlockingWindow \in BOOLEAN

\* The list holds signals in the order in which they arrived.
ListOK ==
    /\ raised \in 0 .. MaxRaised
    /\ pendingSignalCount \in 0 .. SignalListSize
    /\ signalList \in [1 .. SignalListSize -> 0 .. MaxRaised]
    /\ \A k \in 1 .. pendingSignalCount :
          /\ signalList[k] <= raised
          /\ \A j \in 1 .. k - 1 : signalList[j] < signalList[k]

\* What is behind the cursor of a pass over the signals is later than all that has
\* been delivered; all there is on the list, when no pass is under way.
OrderOK(from) ==
    \A k \in from + 1 .. pendingSignalCount :
        \A j \in 1 .. Len(delivered) : delivered[j] < signalList[k]

DeliveryOK ==
    /\ delivered \in Seq(0 .. MaxRaised)
    /\ \A j \in 1 .. Len(delivered) : delivered[j] <= raised
    /\ DeliveredInOrder
    /\ \A d \in 1 .. Len(stack) : stack[d].kind = "signals" => OrderOK(stack[d].i)
    /\ (\A d \in 1 .. Len(stack) : stack[d].kind # "signals") => OrderOK(0)

\* Above a pass over the signals there is one window, whose event loop has set
\* itsHasBlockingWindowFlag before it could get to CheckForSignals.
OnePass ==
    \A d \in 1 .. Len(stack) :
        stack[d].kind = "signals" =>
            /\ \A e \in 1 .. Len(stack) : stack[e].kind = "signals" => e = d
            /\ d < Len(stack) =>
                  /\ stack[d + 1].kind = "window"
                  /\ OpenWindows = 1
                  /\ stack[d + 1].pc # "between" => hasBlockingWindow
                  /\ d + 1 < Len(stack) => stack[d + 1].pc # "between"

SignalInv == ListOK /\ DeliveryOK /\ OnePass

-----------------------------------------------------------------------------
(* Sequences of distinct tasks.                                            *)

\* Range and ElementsOf are two names of one set.
LEMMA RangeIsElements == \A s : Range(s) = ElementsOf(s)
BY DEF Range, ElementsOf

\* Without takes one task off a list, and nothing else.
LEMMA WithoutProperties ==
    ASSUME NEW S, NEW s \in Seq(S), NoRepeats(s), NEW t
    PROVE  /\ Without(s, t) \in Seq(S)
           /\ NoRepeats(Without(s, t))
           /\ Range(Without(s, t)) = Range(s) \ {t}
<1>1. CASE t \notin Range(s)
  BY <1>1 DEF Without
<1>2. CASE t \in Range(s)
  <2> DEFINE i == IndexOf(s, t)
  <2>1. i \in 1 .. Len(s) /\ s[i] = t
    BY <1>2, LenProperties DEF Range, IndexOf
  <2> HIDE DEF i
  <2>2. Without(s, t) = RemoveAt(s, i)
    BY <1>2 DEF Without, i
  <2> QED
    BY <2>1, <2>2, RemoveAtProperties, RemoveAtElements, RangeIsElements
<1> QED
  BY <1>1, <1>2

\* A cursor that is told of it stays inside the list.
LEMMA CursorWithoutInside ==
    ASSUME NEW S, NEW s \in Seq(S), NoRepeats(s), NEW t, NEW c \in 0 .. Len(s)
    PROVE  CursorWithout(s, t, c) \in 0 .. Len(Without(s, t))
<1>1. CASE t \notin Range(s)
  BY <1>1 DEF Without, CursorWithout
<1>2. CASE t \in Range(s)
  <2> DEFINE i == IndexOf(s, t)
  <2>1. i \in 1 .. Len(s) /\ s[i] = t
    BY <1>2, LenProperties DEF Range, IndexOf
  <2> HIDE DEF i
  <2>2. Without(s, t) = RemoveAt(s, i) /\ CursorWithout(s, t, c) = CursorAfterRemove(c, i, 1)
    BY <1>2 DEF Without, CursorWithout, i
  <2> QED
    BY <2>1, <2>2, RemoveAtProperties, AfterRemoval
<1> QED
  BY <1>1, <1>2

\* One after the other, tasks are taken off a list, and nothing else is.
LEMMA WithoutAllProperties ==
    ASSUME NEW S, NEW ts \in Seq(S), NEW s \in Seq(S), NoRepeats(s)
    PROVE  /\ WithoutAll(s, ts) \in Seq(S)
           /\ NoRepeats(WithoutAll(s, ts))
           /\ Range(WithoutAll(s, ts)) = Range(s) \ Range(ts)
<1> DEFINE n == Len(ts)
           run(m, f) == f = [k \in 0 .. m |-> IF k = 0 THEN s ELSE Without(f[k - 1], ts[k])]
           short == {m \in 0 .. n : ~ \E f : run(m, f)}
<1>1. n \in Nat /\ DOMAIN ts = 1 .. n
  BY LenProperties
<1> HIDE DEF n
\* By induction, there is such a function up to any number of tasks.
<1>2. short = {}
  <2> SUFFICES ASSUME short # {}
               PROVE  FALSE
    OBVIOUS
  <2>1. short \subseteq Nat
    BY <1>1
  <2>2. PICK m \in short : \A j \in short : <<j, m>> \notin OpToRel(<, Nat)
    <3> HIDE DEF short
    <3> QED
      BY <2>1, NatLessThanWellFounded, WFMin
  <2>3. \A j \in short : ~ (j < m)
    BY <2>1, <2>2 DEF OpToRel
  <2>4. CASE m = 0
    <3> DEFINE f == [k \in 0 .. 0 |-> s]
    <3>1. f = [k \in 0 .. 0 |-> IF k = 0 THEN s ELSE Without(f[k - 1], ts[k])]
      OBVIOUS
    <3> HIDE DEF f
    <3>2. run(0, f)
      BY <3>1
    <3> QED
      BY <2>2, <2>4, <3>2
  <2>5. CASE m # 0
    <3>1. m - 1 \in 0 .. n /\ m - 1 < m /\ m \in Nat /\ m - 1 \in 0 .. m
      BY <1>1, <2>5
    <3>2. PICK g : run(m - 1, g)
      BY <2>3, <3>1
    <3> DEFINE f == [k \in 0 .. m |-> IF k = m THEN Without(g[m - 1], ts[m]) ELSE g[k]]
    <3>3. \A k \in 0 .. m : k # m => k \in 0 .. m - 1 /\ f[k] = g[k]
      BY <3>1
    <3>4. \A k \in 0 .. m - 1 : g[k] = IF k = 0 THEN s ELSE Without(g[k - 1], ts[k])
      BY <3>2
    <3>5. f[m] = Without(f[m - 1], ts[m])
      BY <3>1, <3>3
    <3>6. \A k \in 0 .. m : f[k] = IF k = 0 THEN s ELSE Without(f[k - 1], ts[k])
      <4> TAKE k \in 0 .. m
      <4>1. CASE k = m
        BY <2>5, <3>5, <4>1
      <4>2. CASE k # m /\ k = 0
        BY <3>3, <3>4, <4>2
      <4>3. CASE k # m /\ k # 0
        <5>1. k - 1 \in 0 .. m /\ k - 1 # m /\ f[k - 1] = g[k - 1]
          BY <3>1, <3>3, <4>3
        <5> QED
          BY <3>3, <3>4, <4>3, <5>1
      <4> QED
        BY <4>1, <4>2, <4>3
    <3>7. f = [k \in 0 .. m |-> f[k]]
      OBVIOUS
    <3> HIDE DEF f
    <3>8. run(m, f)
      BY <3>6, <3>7
    <3> QED
      BY <2>2, <3>8
  <2> QED
    BY <2>4, <2>5
<1> DEFINE left == CHOOSE f : run(n, f)
<1>3. run(n, left)
  <2>1. \E f : run(n, f)
    BY <1>1, <1>2
  <2> HIDE DEF run
  <2> QED
    BY <2>1
<1>4. WithoutAll(s, ts) = left[n]
  BY DEF WithoutAll, n
<1> HIDE DEF left
<1>9. left = [k \in 0 .. n |-> IF k = 0 THEN s ELSE Without(left[k - 1], ts[k])]
  BY <1>3
<1> HIDE DEF run
<1>5. left[0] = s /\ \A k \in 0 .. n : k # 0 => left[k] = Without(left[k - 1], ts[k])
  <2>1. 0 \in 0 .. n
    BY <1>1
  <2>2. \A k \in 0 .. n : left[k] = IF k = 0 THEN s ELSE Without(left[k - 1], ts[k])
    BY <1>9
  <2> QED
    BY <2>1, <2>2
<1> DEFINE done(k) == {ts[j] : j \in 1 .. k}
           good(k) == /\ left[k] \in Seq(S) /\ NoRepeats(left[k])
                      /\ Range(left[k]) = Range(s) \ done(k)
           bad == {k \in 0 .. n : ~ good(k)}
<1>6. bad = {}
  <2> SUFFICES ASSUME bad # {}
               PROVE  FALSE
    OBVIOUS
  <2>1. bad \subseteq Nat
    BY <1>1
  <2>2. PICK k \in bad : \A j \in bad : <<j, k>> \notin OpToRel(<, Nat)
    <3> HIDE DEF bad
    <3> QED
      BY <2>1, NatLessThanWellFounded, WFMin
  <2>3. \A j \in bad : ~ (j < k)
    BY <2>1, <2>2 DEF OpToRel
  <2>4. k # 0
    <3>1. done(0) = {}
      OBVIOUS
    <3> QED
      BY <1>5, <2>2, <3>1
  <2>5. k - 1 \in 0 .. n /\ k - 1 < k /\ k \in 0 .. n
    BY <1>1, <2>4
  <2>6. good(k - 1)
    BY <2>3, <2>5
  <2>7. left[k] = Without(left[k - 1], ts[k])
    BY <1>5, <2>4
  <2>8. done(k) = done(k - 1) \cup {ts[k]}
    <3>1. \A j \in 1 .. k : j = k \/ j \in 1 .. k - 1
      BY <1>1
    <3>2. k \in 1 .. k /\ \A j \in 1 .. k - 1 : j \in 1 .. k
      BY <1>1, <2>4
    <3> QED
      BY <3>1, <3>2
  <2> HIDE DEF done
  <2>9. good(k)
    BY <2>6, <2>7, <2>8, WithoutProperties
  <2> QED
    BY <2>2, <2>9
<1>7. good(n)
  <2>1. n \in 0 .. n
    BY <1>1
  <2> HIDE DEF good
  <2> QED
    BY <1>6, <2>1
<1>8. done(n) = Range(ts)
  BY <1>1 DEF Range
<1> QED
  BY <1>4, <1>7, <1>8

\* Two lists without a common element, one after the other.
LEMMA JoinedLists ==
    ASSUME NEW S, NEW s \in Seq(S), NEW u \in Seq(S), NoRepeats(s), NoRepeats(u),
           Range(s) \cap Range(u) = {}
    PROVE  /\ s \o u \in Seq(S)
           /\ Len(s \o u) = Len(s) + Len(u)
           /\ NoRepeats(s \o u)
           /\ Range(s \o u) = Range(s) \cup Range(u)
<1> DEFINE m == Len(s)
           n == Len(u)
           v == s \o u
<1>1. /\ m \in Nat /\ n \in Nat
      /\ DOMAIN s = 1 .. m /\ DOMAIN u = 1 .. n
  BY LenProperties
<1>2. v \in Seq(S) /\ Len(v) = m + n /\ DOMAIN v = 1 .. m + n
  BY <1>1, ConcatProperties, LenProperties
<1>3. /\ \A k \in 1 .. m : v[k] = s[k]
      /\ \A k \in m + 1 .. m + n : v[k] = u[k - m]
  BY <1>1, ConcatProperties
<1> HIDE DEF v, m, n
<1>4. ASSUME NEW k \in 1 .. m + n
      PROVE  \/ k \in 1 .. m /\ v[k] = s[k] /\ s[k] \in Range(s)
             \/ k > m /\ k - m \in 1 .. n /\ v[k] = u[k - m] /\ u[k - m] \in Range(u)
  <2>1. CASE k \in 1 .. m
    BY <1>1, <1>3, <2>1 DEF Range
  <2>2. CASE k \in m + 1 .. m + n
    <3>1. k - m \in 1 .. n
      BY <1>1, <2>2
    <3> QED
      BY <1>1, <1>3, <2>2, <3>1 DEF Range
  <2> QED
    BY <1>1, <2>1, <2>2
<1>5. NoRepeats(v)
  <2> SUFFICES ASSUME NEW j \in 1 .. m + n, NEW k \in 1 .. m + n, v[j] = v[k]
               PROVE  j = k
    BY <1>2 DEF NoRepeats
  <2>1. CASE j \in 1 .. m /\ k \in 1 .. m
    BY <1>1, <1>3, <2>1 DEF NoRepeats
  <2>2. CASE j > m /\ k > m
    <3>1. j - m \in 1 .. n /\ k - m \in 1 .. n /\ u[j - m] = u[k - m]
      BY <1>1, <1>4, <2>2
    <3>2. j - m = k - m
      BY <1>1, <3>1 DEF NoRepeats
    <3> QED
      BY <1>1, <3>2
  <2>3. CASE j \in 1 .. m /\ k > m
    BY <1>1, <1>4, <2>3
  <2>4. CASE j > m /\ k \in 1 .. m
    BY <1>1, <1>4, <2>4
  <2> QED
    BY <1>1, <2>1, <2>2, <2>3, <2>4
<1>6. Range(v) = Range(s) \cup Range(u)
  <2>1. \A x \in Range(v) : x \in Range(s) \cup Range(u)
    BY <1>2, <1>4 DEF Range
  <2>2. ASSUME NEW x \in Range(s)
        PROVE  x \in Range(v)
    <3>1. PICK k \in 1 .. m : x = s[k]
      BY <1>1 DEF Range
    <3>2. k \in 1 .. m + n
      BY <1>1
    <3> QED
      BY <1>2, <1>3, <3>1, <3>2 DEF Range
  <2>3. ASSUME NEW x \in Range(u)
        PROVE  x \in Range(v)
    <3>1. PICK k \in 1 .. n : x = u[k]
      BY <1>1 DEF Range
    <3>2. k + m \in m + 1 .. m + n /\ k + m \in 1 .. m + n /\ (k + m) - m = k
      BY <1>1
    <3> QED
      BY <1>2, <1>3, <3>1, <3>2 DEF Range
  <2> QED
    BY <2>1, <2>2, <2>3
<1> QED
  BY <1>2, <1>5, <1>6 DEF v, m, n

-----------------------------------------------------------------------------
(* Counting windows.                                                       *)

\* The windows below a place are finitely many.
LEMMA WindowsFinite ==
    ASSUME NEW st, NEW d \in Nat
    PROVE  /\ IsFiniteSet({e \in 1 .. d : st[e].kind = "window"})
           /\ WindowsOf(st, d) \in Nat
<1>1. IsFiniteSet(1 .. d)
  BY FS_Interval
<1>2. {e \in 1 .. d : st[e].kind = "window"} \subseteq 1 .. d
  OBVIOUS
<1> QED
  BY <1>1, <1>2, FS_Subset, FS_CardinalityType DEF WindowsOf

\* One activation more is one window more, or none.
LEMMA WindowsStep ==
    ASSUME NEW st, NEW d \in Nat
    PROVE  WindowsOf(st, d + 1) = WindowsOf(st, d) + IF st[d + 1].kind = "window" THEN 1 ELSE 0
<1> DEFINE below == {e \in 1 .. d : st[e].kind = "window"}
           upto  == {e \in 1 .. d + 1 : st[e].kind = "window"}
<1>1. IsFiniteSet(below) /\ Cardinality(below) \in Nat /\ d + 1 \notin below
  BY WindowsFinite DEF WindowsOf
<1>0. WindowsOf(st, d) = Cardinality(below) /\ WindowsOf(st, d + 1) = Cardinality(upto)
  BY DEF WindowsOf
<1>2. CASE st[d + 1].kind = "window"
  <2>1. upto = below \cup {d + 1}
    BY <1>2
  <2> HIDE DEF below, upto
  <2> QED
    BY <1>0, <1>1, <1>2, <2>1, FS_AddElement
<1>3. CASE st[d + 1].kind # "window"
  <2>1. upto = below
    BY <1>3
  <2> HIDE DEF below, upto
  <2> QED
    BY <1>0, <1>1, <1>3, <2>1
<1> QED
  BY <1>2, <1>3

\* There is no window below the first activation.
LEMMA WindowsNone == \A st : WindowsOf(st, 0) = 0
BY FS_EmptySet DEF WindowsOf

\* Only the kinds of the activations count.
LEMMA WindowsLocal ==
    ASSUME NEW st, NEW su, NEW d \in Nat,
           \A e \in 1 .. d : su[e].kind = "window" <=> st[e].kind = "window"
    PROVE  WindowsOf(su, d) = WindowsOf(st, d)
BY DEF WindowsOf

\* There are no more windows below a place than below a later one.
LEMMA WindowsMonotonic ==
    ASSUME NEW st, NEW d \in Nat, NEW n \in Nat, d <= n
    PROVE  WindowsOf(st, d) <= WindowsOf(st, n)
<1>1. {e \in 1 .. d : st[e].kind = "window"} \subseteq {e \in 1 .. n : st[e].kind = "window"}
  OBVIOUS
<1> QED
  BY <1>1, WindowsFinite, FS_Subset DEF WindowsOf

-----------------------------------------------------------------------------
(* The call stack.                                                         *)

\* An activation is moved to another place, or its cursor to another element.
LEMMA MoveActivation ==
    ASSUME NEW f \in Activations, NEW p,
           p \in LoopPcs \cup {"next", "perform", "check", "connect", "test", "broadcast", "reset"}
    PROVE  /\ [f EXCEPT !.pc = p] \in Activations
           /\ [f EXCEPT !.pc = p].pc = p /\ [f EXCEPT !.pc = p].kind = f.kind
           /\ [f EXCEPT !.pc = p].list = f.list /\ [f EXCEPT !.pc = p].i = f.i
           /\ [f EXCEPT !.pc = p].level = f.level
<1>1. [f EXCEPT !.pc = p] \in Activations
  BY Zenon DEF Activations
<1> QED
  BY <1>1 DEF Activations

\* A cursor moved, and nothing else of the activation.
LEMMA MoveCursor ==
    ASSUME NEW f \in Activations, NEW k \in Nat
    PROVE  /\ [f EXCEPT !.i = k] \in Activations
           /\ [f EXCEPT !.i = k].pc = f.pc /\ [f EXCEPT !.i = k].kind = f.kind
           /\ [f EXCEPT !.i = k].list = f.list /\ [f EXCEPT !.i = k].i = k
           /\ [f EXCEPT !.i = k].level = f.level
<1>1. [f EXCEPT !.i = k] \in Activations
  BY Zenon DEF Activations
<1> QED
  BY <1>1 DEF Activations

\* A new activation is at its first element.
LEMMA NewActivation ==
    ASSUME NEW kind \in Kinds, NEW list \in Seq(UrgentTasks), NEW level \in Nat, NEW pc,
           pc \in LoopPcs \cup {"next", "perform", "check", "connect", "test", "broadcast", "reset"}
    PROVE  /\ Activation(kind, pc, list, level) \in Activations
           /\ Activation(kind, pc, list, level).kind = kind
           /\ Activation(kind, pc, list, level).pc = pc
           /\ Activation(kind, pc, list, level).list = list
           /\ Activation(kind, pc, list, level).level = level
           /\ Activation(kind, pc, list, level).i = 0
BY DEF Activation, Activations

\* What the steps need of the running activation.
LEMMA TopProperties ==
    ASSUME NEW st, NEW ids, StackOK(st, ids)
    PROVE  /\ Len(st) \in Nat /\ Len(st) >= 1 /\ DOMAIN st = 1 .. Len(st)
           /\ Last(st) = st[Len(st)] /\ Last(st) \in Activations
           /\ FrameOK(Last(st), ids, WindowsOf(st, Len(st)))
           /\ Last(st).kind = "main" <=> Len(st) = 1
           /\ Last(st).kind # "main" => Len(st) > 1
           /\ \A d \in 1 .. Len(st) : st[d] \in Activations
           /\ \A d \in 0 .. Len(st) :
                 /\ WindowsOf(st, d) \in Nat
                 /\ WindowsOf(st, d) <= WindowsOf(st, Len(st))
<1>1. /\ Len(st) \in Nat /\ Len(st) >= 1 /\ DOMAIN st = 1 .. Len(st)
      /\ \A d \in 1 .. Len(st) : st[d] \in Activations
  BY LenProperties, ElementOfSeq, EmptySeq DEF StackOK
<1>2. Len(st) \in 1 .. Len(st)
  BY <1>1
<1>3. /\ FrameOK(Last(st), ids, WindowsOf(st, Len(st)))
      /\ Last(st).kind = "main" <=> Len(st) = 1
  BY <1>2 DEF StackOK, Last
<1>4. \A d \in 0 .. Len(st) : /\ WindowsOf(st, d) \in Nat
                              /\ WindowsOf(st, d) <= WindowsOf(st, Len(st))
  <2> TAKE d \in 0 .. Len(st)
  <2>1. d \in Nat /\ d <= Len(st)
    BY <1>1
  <2> QED
    BY <1>1, <2>1, WindowsFinite, WindowsMonotonic
<1> QED
  BY <1>1, <1>2, <1>3, <1>4 DEF Last, FrameOK

\* The lower activations change, and keep their kinds; the lists may change too.
LEMMA MapStack ==
    ASSUME NEW st, NEW ids, StackOK(st, ids), NEW n \in 1 .. Len(st), NEW su, NEW it,
           su \in Seq(Activations), Len(su) = n,
           Len(it) = WindowsOf(st, n) + 1,
           \A d \in 1 .. n : /\ FrameOK(su[d], it, WindowsOf(st, d))
                             /\ su[d].kind = "window" <=> st[d].kind = "window"
                             /\ su[d].kind = "main" <=> st[d].kind = "main"
    PROVE  StackOK(su, it)
<1>1. Len(st) \in Nat /\ n \in Nat /\ n >= 1
  BY TopProperties
<1>2. \A d \in 0 .. n : WindowsOf(su, d) = WindowsOf(st, d)
  BY <1>1, WindowsLocal
<1>3. WindowsOf(st, n) <= MaxWindows
  <2>1. WindowsOf(st, n) <= WindowsOf(st, Len(st)) /\ WindowsOf(st, n) \in Nat
        /\ WindowsOf(st, Len(st)) \in Nat
    BY <1>1, TopProperties
  <2> QED
    BY <2>1, EventLoopAssumption DEF StackOK
<1> QED
  BY <1>1, <1>2, <1>3, EmptySeq DEF StackOK

\* The running activation goes on.
LEMMA ChangeTop ==
    ASSUME NEW st, NEW ids, StackOK(st, ids), NEW f,
           FrameOK(f, ids, WindowsOf(st, Len(st))),
           f.kind = "window" <=> Last(st).kind = "window",
           f.kind = "main" <=> Last(st).kind = "main"
    PROVE  StackOK(Front(st) \o <<f>>, ids)
<1> DEFINE n == Len(st)
           su == Front(st) \o <<f>>
<1>1. st \in Seq(Activations) /\ st # <<>> /\ f \in Activations
  BY DEF StackOK, FrameOK
<1>2. /\ n \in Nat /\ n >= 1 /\ su \in Seq(Activations) /\ Len(su) = n
      /\ su[n] = f /\ Last(st) = st[n]
      /\ \A d \in 1 .. n - 1 : su[d] = st[d]
  BY <1>1, FrontProperties, TopProperties
<1> HIDE DEF su
<1>3. \A d \in 1 .. n : d = n \/ d \in 1 .. n - 1
  BY <1>2
<1>4. \A d \in 1 .. n : /\ FrameOK(su[d], ids, WindowsOf(st, d))
                        /\ su[d].kind = "window" <=> st[d].kind = "window"
                        /\ su[d].kind = "main" <=> st[d].kind = "main"
  BY <1>2, <1>3 DEF StackOK
<1>5. Len(ids) = WindowsOf(st, n) + 1 /\ n \in 1 .. Len(st)
  BY <1>2 DEF StackOK
<1> HIDE DEF n
<1>6. StackOK(su, ids)
  BY <1>2, <1>4, <1>5, MapStack
<1> QED
  BY <1>6 DEF su

\* An activation that is no event loop returns.
LEMMA PopStack ==
    ASSUME NEW st, NEW ids, StackOK(st, ids), Last(st).kind \notin {"main", "window"}
    PROVE  StackOK(Front(st), ids)
<1> DEFINE n == Len(st) - 1
<1>1. st \in Seq(Activations) /\ st # <<>> /\ Last(st) \in Activations
  BY TopProperties DEF StackOK
<1>2. /\ Len(st) \in Nat /\ Len(st) > 1 /\ Last(st) = st[Len(st)]
      /\ Front(st) \in Seq(Activations) /\ Len(Front(st)) = n
      /\ \A d \in 1 .. n : Front(st)[d] = st[d]
  <2>1. /\ Len(st) \in Nat /\ Len(st) > 1 /\ Last(st) = st[Len(st)]
    BY TopProperties
  <2> QED
    BY <1>1, <2>1, FrontProperties
<1>3. n \in Nat /\ n \in 1 .. Len(st) /\ n + 1 = Len(st)
  BY <1>2
<1>4. Len(ids) = WindowsOf(st, n) + 1
  <2>1. WindowsOf(st, n + 1) = WindowsOf(st, n) + 0
    BY <1>2, <1>3, WindowsStep
  <2>2. WindowsOf(st, n) \in Nat
    BY <1>3, WindowsFinite
  <2> QED
    BY <1>3, <2>1, <2>2 DEF StackOK
<1>5. \A d \in 1 .. n : FrameOK(st[d], ids, WindowsOf(st, d))
  BY <1>2 DEF StackOK
<1> HIDE DEF n
<1> QED
  BY <1>2, <1>3, <1>4, <1>5, MapStack

\* An activation that is no event loop is called.
LEMMA PushStack ==
    ASSUME NEW st, NEW ids, StackOK(st, ids), NEW f,
           FrameOK(f, ids, WindowsOf(st, Len(st))), f.kind \notin {"main", "window"}
    PROVE  StackOK(Append(st, f), ids)
<1> DEFINE n == Len(st)
           su == Append(st, f)
<1>1. /\ st \in Seq(Activations) /\ f \in Activations /\ n \in Nat /\ n >= 1
      /\ Len(ids) = WindowsOf(st, n) + 1 /\ WindowsOf(st, n) <= MaxWindows
      /\ \A d \in 1 .. n : /\ FrameOK(st[d], ids, WindowsOf(st, d))
                           /\ st[d].kind = "main" <=> d = 1
  BY TopProperties DEF StackOK, FrameOK
<1>2. /\ su \in Seq(Activations) /\ Len(su) = n + 1 /\ su[n + 1] = f
      /\ \A d \in 1 .. n : su[d] = st[d]
  BY <1>1, AppendProperties
<1> HIDE DEF su, n
<1>3. ASSUME NEW d \in 0 .. n
      PROVE  WindowsOf(su, d) = WindowsOf(st, d)
  <2>1. d \in Nat /\ \A e \in 1 .. d : e \in 1 .. n
    BY <1>1
  <2> QED
    BY <1>2, <2>1, WindowsLocal
<1>4. WindowsOf(su, n + 1) = WindowsOf(st, n)
  <2>1. WindowsOf(su, n + 1) = WindowsOf(su, n) + 0
    BY <1>1, <1>2, WindowsStep
  <2>2. WindowsOf(su, n) \in Nat
    BY <1>1, WindowsFinite
  <2> QED
    BY <1>1, <1>3, <2>1, <2>2
<1>5. \A d \in 1 .. n + 1 : /\ FrameOK(su[d], ids, WindowsOf(su, d))
                            /\ su[d].kind = "main" <=> d = 1
  <2> TAKE d \in 1 .. n + 1
  <2>1. CASE d \in 1 .. n
    <3>1. WindowsOf(su, d) = WindowsOf(st, d)
      BY <1>1, <1>3, <2>1
    <3>2. FrameOK(st[d], ids, WindowsOf(st, d)) /\ (st[d].kind = "main" <=> d = 1)
      BY <1>1, <2>1
    <3> QED
      BY <1>2, <2>1, <3>1, <3>2
  <2>2. CASE d = n + 1
    <3>1. FrameOK(f, ids, WindowsOf(su, d))
      BY <1>4, <2>2 DEF n
    <3>2. d # 1 /\ f.kind # "main"
      BY <1>1, <2>2
    <3> QED
      BY <1>2, <2>2, <3>1, <3>2
  <2> QED
    BY <1>1, <2>1, <2>2
<1>6. StackOK(su, ids)
  BY <1>1, <1>2, <1>4, <1>5, EmptySeq DEF StackOK
<1> QED
  BY <1>6 DEF su

\* A pair is one element and another appended.
LEMMA PairIsAppend ==
    ASSUME NEW S, NEW f \in S, NEW g \in S
    PROVE  Append(<<f>>, g) = <<f, g>>
<1> DEFINE a == Append(<<f>>, g)
           b == <<f, g>>
<1>1. <<f>> \in Seq(S) /\ Len(<<f>>) = 1 /\ <<f>>[1] = f
  OBVIOUS
<1>2. b \in Seq(S) /\ Len(b) = 2 /\ b[1] = f /\ b[2] = g
  OBVIOUS
<1>3. a \in Seq(S) /\ Len(a) = 2 /\ a[1] = f /\ a[2] = g
  BY <1>1, AppendProperties
<1> HIDE DEF a, b
<1>4. a = b
  BY <1>2, <1>3, SeqEqual
<1> QED
  BY <1>4 DEF a, b

\* Two activations in the place of the running one.
LEMMA FrontAndTwo ==
    ASSUME NEW S, NEW st \in Seq(S), st # <<>>, NEW f \in S, NEW g \in S
    PROVE  Front(st) \o <<f, g>> = Append(Front(st) \o <<f>>, g)
<1>1. Front(st) \in Seq(S)
  BY FrontProperties
<1>2. Append(Front(st) \o <<f>>, g) = (Front(st) \o <<f>>) \o <<g>>
  BY <1>1, FrontProperties, AppendIsConcat
<1>3. (Front(st) \o <<f>>) \o <<g>> = Front(st) \o (<<f>> \o <<g>>)
  BY <1>1, ConcatAssociative
<1>4. <<f>> \o <<g>> = <<f, g>>
  <2>1. <<f>> \in Seq(S) /\ Append(<<f>>, g) = <<f, g>>
    BY PairIsAppend
  <2> QED
    BY <2>1, AppendIsConcat
<1> QED
  BY <1>2, <1>3, <1>4

\* The passes that have yet to come to a task are finitely many.
LEMMA PassesFinite ==
    ASSUME NEW t, NEW st, Len(st) \in Nat
    PROVE  IsFiniteSet(Passes(t, st)) /\ Cardinality(Passes(t, st)) \in Nat
<1>1. IsFiniteSet(1 .. Len(st))
  BY FS_Interval
<1>2. Passes(t, st) \subseteq 1 .. Len(st)
  BY DEF Passes
<1> QED
  BY <1>1, <1>2, FS_Subset, FS_CardinalityType

\* One activation more is one pass more, or none.
LEMMA PassesStep ==
    ASSUME NEW t, NEW st, NEW su, Len(st) \in Nat, Len(su) = Len(st) + 1,
           \A d \in 1 .. Len(st) : su[d] = st[d]
    PROVE  Cardinality(Passes(t, su)) =
              Cardinality(Passes(t, st)) + IF Awaits(su[Len(su)], t) THEN 1 ELSE 0
<1>1. IsFiniteSet(Passes(t, st)) /\ Cardinality(Passes(t, st)) \in Nat
  BY PassesFinite
<1>2. Len(su) \notin Passes(t, st)
  BY DEF Passes
<1>3. \A d \in 1 .. Len(su) : d = Len(su) \/ d \in 1 .. Len(st)
  OBVIOUS
<1>4. Len(su) \in 1 .. Len(su) /\ \A d \in 1 .. Len(st) : d \in 1 .. Len(su)
  OBVIOUS
<1>5. CASE Awaits(su[Len(su)], t)
  <2>1. Passes(t, su) = Passes(t, st) \cup {Len(su)}
    BY <1>3, <1>4, <1>5 DEF Passes
  <2> QED
    BY <1>1, <1>2, <1>5, <2>1, FS_AddElement
<1>6. CASE ~ Awaits(su[Len(su)], t)
  <2>1. Passes(t, su) = Passes(t, st)
    BY <1>3, <1>4, <1>6 DEF Passes
  <2> QED
    BY <1>1, <1>6, <2>1
<1> QED
  BY <1>5, <1>6

\* Of the running activation and of one in its place.
LEMMA PassesTop ==
    ASSUME NEW t, NEW st \in Seq(Activations), st # <<>>, NEW f \in Activations
    PROVE  /\ Cardinality(Passes(t, Front(st))) \in Nat
           /\ Cardinality(Passes(t, st)) =
                 Cardinality(Passes(t, Front(st))) + IF Awaits(Last(st), t) THEN 1 ELSE 0
           /\ Cardinality(Passes(t, Front(st) \o <<f>>)) =
                 Cardinality(Passes(t, Front(st))) + IF Awaits(f, t) THEN 1 ELSE 0
<1> DEFINE lo == Front(st)
           su == lo \o <<f>>
<1>1. Len(st) \in Nat /\ Len(st) >= 1 /\ Last(st) = st[Len(st)]
  BY EmptySeq, LenProperties DEF Last
<1>2. /\ lo \in Seq(Activations) /\ Len(lo) = Len(st) - 1
      /\ \A d \in 1 .. Len(st) - 1 : lo[d] = st[d]
      /\ Len(su) = Len(st) /\ su[Len(st)] = f
      /\ \A d \in 1 .. Len(st) - 1 : su[d] = st[d]
  BY <1>1, FrontProperties
<1> HIDE DEF lo, su
<1>3. Len(lo) \in Nat /\ Len(st) = Len(lo) + 1 /\ Len(su) = Len(lo) + 1
  BY <1>1, <1>2
<1>4. \A d \in 1 .. Len(lo) : st[d] = lo[d] /\ su[d] = lo[d]
  BY <1>2
<1>5. /\ Cardinality(Passes(t, lo)) \in Nat
      /\ Cardinality(Passes(t, st)) =
            Cardinality(Passes(t, lo)) + IF Awaits(st[Len(st)], t) THEN 1 ELSE 0
      /\ Cardinality(Passes(t, su)) =
            Cardinality(Passes(t, lo)) + IF Awaits(su[Len(su)], t) THEN 1 ELSE 0
  BY <1>3, <1>4, PassesFinite, PassesStep
<1> QED
  BY <1>1, <1>2, <1>5 DEF lo, su

\* As much is owed while the passes have the same before them.
LEMMA UrgentKept ==
    ASSUME NEW ur, NEW al, NEW ow, NEW st, NEW su, UrgentOK(ur, al, ow, st),
           Len(st) \in Nat, Len(su) \in Nat, Len(su) <= Len(st),
           \A d \in 1 .. Len(su) :
              /\ su[d].kind = st[d].kind
              /\ st[d].kind = "urgent" => su[d] = st[d],
           \A d \in Len(su) + 1 .. Len(st) : st[d].kind # "urgent"
    PROVE  UrgentOK(ur, al, ow, su)
<1>1. ASSUME NEW t
      PROVE  Passes(t, su) = Passes(t, st)
  <2>1. \A d \in 1 .. Len(st) : d \in 1 .. Len(su) \/ d \in Len(su) + 1 .. Len(st)
    OBVIOUS
  <2>2. \A d \in 1 .. Len(su) : d \in 1 .. Len(st) /\ (Awaits(su[d], t) <=> Awaits(st[d], t))
    BY DEF Awaits
  <2>3. \A d \in Len(su) + 1 .. Len(st) : ~ Awaits(st[d], t)
    BY DEF Awaits
  <2> QED
    BY <2>1, <2>2, <2>3 DEF Passes
<1> QED
  BY <1>1 DEF UrgentOK

\* The running activation goes on, with as much before it.
LEMMA TopKeepsUrgent ==
    ASSUME NEW ur, NEW al, NEW ow, NEW st \in Seq(Activations), st # <<>>,
           UrgentOK(ur, al, ow, st), NEW f \in Activations,
           \A t \in UrgentTasks : Awaits(f, t) <=> Awaits(Last(st), t)
    PROVE  UrgentOK(ur, al, ow, Front(st) \o <<f>>)
<1>1. \A t \in UrgentTasks :
         Cardinality(Passes(t, Front(st) \o <<f>>)) = Cardinality(Passes(t, st))
  BY PassesTop
<1> QED
  BY <1>1 DEF UrgentOK

\* The running activation goes on with the same tasks.
LEMMA TopKeeps ==
    ASSUME LoopInv, NEW f, FrameOK(f, idle, WindowsOf(stack, Len(stack))),
           f.kind = Top.kind, f.list = Top.list,
           f.kind = "urgent" => f.i = Top.i
    PROVE  /\ StackOK(Front(stack) \o <<f>>, idle)
           /\ UrgentOK(urgent, alive, owed, Front(stack) \o <<f>>)
<1>1. StackOK(stack, idle) /\ UrgentOK(urgent, alive, owed, stack)
      /\ stack \in Seq(Activations) /\ stack # <<>> /\ f \in Activations /\ Top = Last(stack)
  BY DEF LoopInv, StackOK, FrameOK, Top
<1>2. StackOK(Front(stack) \o <<f>>, idle)
  BY <1>1, ChangeTop
<1>3. \A t \in UrgentTasks : Awaits(f, t) <=> Awaits(Last(stack), t)
  BY <1>1 DEF Awaits
<1> QED
  BY <1>1, <1>2, <1>3, TopKeepsUrgent

\* The running activation goes on to another place.
LEMMA AtKeeps ==
    ASSUME LoopInv, NEW p,
           p \in LoopPcs \cup {"next", "perform", "check", "connect", "test", "broadcast", "reset"},
           Top.kind \in {"main", "window"} <=> p \in LoopPcs,
           p \in {"check", "connect"} => Top.kind = "idle",
           p \in {"test", "broadcast", "reset"} => Top.kind = "signals", At(p)
    PROVE  /\ StackOK(stack', idle)
           /\ UrgentOK(urgent, alive, owed, stack')
<1>1. Top \in Activations /\ FrameOK(Top, idle, WindowsOf(stack, Len(stack)))
  BY TopProperties DEF LoopInv, Top
<1> DEFINE f == [Top EXCEPT !.pc = p]
<1>2. /\ f \in Activations /\ f.kind = Top.kind /\ f.pc = p
      /\ f.list = Top.list /\ f.i = Top.i /\ f.level = Top.level
  BY <1>1, MoveActivation DEF Activations
<1>3. stack' = Front(stack) \o <<f>>
  BY DEF At
<1> HIDE DEF f
<1>4. FrameOK(f, idle, WindowsOf(stack, Len(stack)))
  BY <1>1, <1>2 DEF FrameOK
<1> QED
  BY <1>2, <1>3, <1>4, TopKeeps

\* The running pass, no event loop, returns.
LEMMA PopKeeps ==
    ASSUME LoopInv, Top.kind \notin {"main", "window"}, stack' = Front(stack),
           Top.kind = "urgent" => Top.i >= Len(Top.list)
    PROVE  /\ StackOK(stack', idle)
           /\ UrgentOK(urgent, alive, owed, stack')
<1>1. StackOK(stack, idle) /\ UrgentOK(urgent, alive, owed, stack)
      /\ stack \in Seq(Activations) /\ stack # <<>> /\ Top \in Activations /\ Top = Last(stack)
  BY TopProperties DEF LoopInv, StackOK, Top
<1>2. StackOK(stack', idle)
  BY <1>1, PopStack
<1>3. \A t : ~ Awaits(Top, t)
  <2>1. Top.i \in Nat /\ Len(Top.list) \in Nat
    BY <1>1, LenProperties DEF Activations
  <2>2. Top.kind = "urgent" => Top.i + 1 .. Len(Top.list) = {}
    BY <2>1
  <2> QED
    BY <2>2 DEF Awaits
<1> DEFINE lo == Front(stack)
<1>4. \A t \in UrgentTasks : Cardinality(Passes(t, lo)) = Cardinality(Passes(t, stack))
  <2> TAKE t \in UrgentTasks
  <2>1. /\ Cardinality(Passes(t, lo)) \in Nat
        /\ Cardinality(Passes(t, stack)) =
              Cardinality(Passes(t, lo)) + IF Awaits(Last(stack), t) THEN 1 ELSE 0
    BY <1>1, PassesTop
  <2> HIDE DEF lo
  <2>2. ~ Awaits(Last(stack), t)
    BY <1>1, <1>3
  <2> QED
    BY <2>1, <2>2
<1> HIDE DEF lo
<1>6. UrgentOK(urgent, alive, owed, lo)
  BY <1>1, <1>4 DEF UrgentOK
<1>5. UrgentOK(urgent, alive, owed, stack')
  BY <1>6 DEF lo
<1> QED
  BY <1>2, <1>5

\* A call of anything but PerformUrgentTasks takes no tasks.
LEMMA PushKeepsUrgent ==
    ASSUME NEW ur, NEW al, NEW ow, NEW st \in Seq(Activations), UrgentOK(ur, al, ow, st),
           NEW f \in Activations, f.kind # "urgent"
    PROVE  UrgentOK(ur, al, ow, Append(st, f))
<1> DEFINE su == Append(st, f)
<1>1. /\ Len(st) \in Nat /\ Len(su) = Len(st) + 1 /\ su[Len(su)] = f
      /\ \A d \in 1 .. Len(st) : su[d] = st[d]
  BY AppendProperties, LenProperties
<1> HIDE DEF su
<1>2. \A t : ~ Awaits(f, t)
  BY DEF Awaits
<1>3. \A t \in UrgentTasks : Cardinality(Passes(t, su)) = Cardinality(Passes(t, st))
  BY <1>1, <1>2, PassesStep, PassesFinite
<1> QED
  BY <1>3 DEF UrgentOK, su

-----------------------------------------------------------------------------
(* The loops keep the invariant.                                           *)

\* The main loop merges its lists, of which there is only one.
LEMMA DispatchedLoopInv ==
    ASSUME LoopInv, Dispatched
    PROVE  LoopInv'
<1>1. Top.pc = "dispatch" /\ FrameOK(Top, idle, WindowsOf(stack, Len(stack)))
  BY TopProperties DEF LoopInv, Dispatched, Top
<1>2. Top.kind \in {"main", "window"}
  BY <1>1 DEF FrameOK, LoopPcs
<1>3. StackOK(stack', idle) /\ UrgentOK(urgent, alive, owed, stack')
  BY <1>2, AtKeeps DEF Dispatched, LoopPcs
<1>4. idle' = idle
  <2>1. CASE Top.kind = "main"
    <3>1. Len(stack) = 1 /\ 1 \in 1 .. Len(stack)
      BY <2>1, TopProperties DEF LoopInv, StackOK, Top, Last
    <3>2. WindowsOf(stack, 1) = 0
      <4>1. stack[1].kind # "window"
        BY <2>1, <3>1 DEF Top, Last
      <4>2. WindowsOf(stack, 0 + 1) = WindowsOf(stack, 0) + 0
        BY <4>1, WindowsStep
      <4> QED
        BY <4>2, WindowsNone
    <3>3. Len(idle) = 1 /\ idle \in Seq(Seq(IdleTasks))
      BY <3>1, <3>2 DEF LoopInv, StackOK, IdleOK
    <3>4. idle = <<idle[1]>> /\ idle[1] \in Seq(IdleTasks)
      BY <3>3
    <3>5. FlattenSeq(<<idle[1]>>) = idle[1]
      BY <3>4 DEF FlattenSeq
    <3> QED
      BY <2>1, <3>4, <3>5 DEF Dispatched
  <2>2. CASE Top.kind # "main"
    BY <2>2 DEF Dispatched
  <2> QED
    BY <2>1, <2>2
<1> QED
  BY <1>3, <1>4 DEF LoopInv, Dispatched

\* The list of an idle pass is there.
LEMMA FrameLevel ==
    ASSUME NEW st, NEW ids, StackOK(st, ids), NEW d \in 1 .. Len(st), st[d].kind = "idle"
    PROVE  st[d].level = WindowsOf(st, d) + 1 /\ st[d].level \in 1 .. Len(ids)
<1>1. st[d].level = WindowsOf(st, d) + 1 /\ Len(ids) = WindowsOf(st, Len(st)) + 1
  BY DEF StackOK, FrameOK
<1>2. /\ WindowsOf(st, d) \in Nat /\ WindowsOf(st, Len(st)) \in Nat
      /\ WindowsOf(st, d) <= WindowsOf(st, Len(st))
  BY TopProperties
<1> QED
  BY <1>1, <1>2

\* A running idle pass works on one of the lists there are.
LEMMA TopLevel ==
    ASSUME LoopInv, Top.kind = "idle"
    PROVE  Top.level \in 1 .. Len(idle)
<1>1. Len(stack) \in 1 .. Len(stack) /\ Top = stack[Len(stack)] /\ StackOK(stack, idle)
  BY TopProperties DEF LoopInv, Top
<1> QED
  BY <1>1, FrameLevel

\* The running activation fetches its next element.
LEMMA StepKeeps ==
    ASSUME LoopInv, NEW p, p \in {"perform", "broadcast"},
           Top.kind \notin {"main", "window"}, p = "broadcast" => Top.kind = "signals",
           Top.kind = "idle" => Top.i < Len(idle[Top.level]),
           Top.kind = "urgent" => Top.i < Len(Top.list),
           stack' = Front(stack) \o <<[Top EXCEPT !.pc = p, !.i = @ + 1]>>
    PROVE  /\ StackOK(stack', idle)
           /\ Top.kind # "urgent" => UrgentOK(urgent, alive, owed, stack')
<1>1. Top \in Activations /\ FrameOK(Top, idle, WindowsOf(stack, Len(stack)))
  BY TopProperties DEF LoopInv, Top
<1> DEFINE g == [Top EXCEPT !.pc = p]
           f == [g EXCEPT !.i = Top.i + 1]
<1>2. Top.i \in Nat /\ Top.i + 1 \in Nat
  BY <1>1 DEF Activations
<1>3. p \in LoopPcs \cup {"next", "perform", "check", "connect", "test", "broadcast", "reset"}
      /\ p \notin LoopPcs
  BY DEF LoopPcs
<1>4. /\ g \in Activations /\ g.kind = Top.kind /\ g.pc = p
      /\ g.list = Top.list /\ g.i = Top.i /\ g.level = Top.level
  <2>1. g \in Activations
    BY <1>1, <1>3, MoveActivation
  <2> QED
    BY <1>1, <2>1 DEF Activations
<1>5. stack' = Front(stack) \o <<f>>
  BY <1>1 DEF Activations
<1> HIDE DEF g
<1>6. /\ f \in Activations /\ f.kind = Top.kind /\ f.pc = p
      /\ f.list = Top.list /\ f.i = Top.i + 1 /\ f.level = Top.level
  <2>1. f \in Activations
    BY <1>2, <1>4, MoveCursor
  <2> QED
    BY <1>4, <2>1 DEF Activations
<1> HIDE DEF f
<1>7. FrameOK(f, idle, WindowsOf(stack, Len(stack)))
  <2>1. f.kind = "idle" => f.level = WindowsOf(stack, Len(stack)) + 1 /\ f.i <= Len(idle[f.level])
    <3>1. Top.kind = "idle" => Top.level \in 1 .. Len(idle)
      BY <1>1, TopLevel
    <3>2. Top.kind = "idle" => Len(idle[Top.level]) \in Nat
      BY <3>1, ElementOfSeq, LenProperties DEF LoopInv, IdleOK
    <3> QED
      BY <1>1, <1>2, <1>6, <3>2 DEF FrameOK
  <2>2. f.kind = "urgent" => f.i <= Len(f.list) /\ NoRepeats(f.list)
    <3>1. Len(Top.list) \in Nat
      BY <1>1, LenProperties DEF Activations
    <3> QED
      BY <1>1, <1>2, <1>6, <3>1 DEF FrameOK
  <2> QED
    BY <1>3, <1>6, <2>1, <2>2 DEF FrameOK
<1>8. StackOK(stack', idle)
  BY <1>5, <1>6, <1>7, ChangeTop DEF LoopInv, Top
<1> QED
  BY <1>5, <1>6, <1>7, <1>8, TopKeeps

\* PerformIdle keeps the invariant of the loop.
LEMMA PerformIdleLoopInv ==
    ASSUME LoopInv, PerformIdle
    PROVE  LoopInv'
<1>1. StackOK(stack', idle) /\ UrgentOK(urgent, alive, owed, stack')
  BY StepKeeps DEF PerformIdle, Step
<1> QED
  BY <1>1 DEF LoopInv, PerformIdle, taskVars

\* The pass comes to its next task, which is before it no more: a call of Perform
\* less is owed.
LEMMA PerformUrgentLoopInv ==
    ASSUME LoopInv, PerformUrgent
    PROVE  LoopInv'
<1> DEFINE u == Top.list[Top.i + 1]
           f == [Top EXCEPT !.pc = "perform", !.i = Top.i + 1]
<1>1. StackOK(stack', idle)
  BY StepKeeps DEF PerformUrgent, Step
<1>2. /\ stack \in Seq(Activations) /\ stack # <<>> /\ Top \in Activations /\ Top = Last(stack)
      /\ FrameOK(Top, idle, WindowsOf(stack, Len(stack))) /\ Top.kind = "urgent"
      /\ UrgentOK(urgent, alive, owed, stack)
  BY TopProperties DEF LoopInv, StackOK, Top, PerformUrgent
<1>3. /\ Top.i \in Nat /\ Top.list \in Seq(UrgentTasks) /\ Len(Top.list) \in Nat
      /\ Top.i < Len(Top.list) /\ NoRepeats(Top.list)
      /\ DOMAIN Top.list = 1 .. Len(Top.list)
  BY <1>2, LenProperties DEF Activations, FrameOK, PerformUrgent
<1>4. Top.i + 1 \in 1 .. Len(Top.list) /\ u \in UrgentTasks
  <2>1. Top.i + 1 \in 1 .. Len(Top.list)
    BY <1>3
  <2> QED
    BY <1>3, <2>1, ElementOfSeq
<1>5. f \in Activations /\ f.kind = "urgent" /\ f.list = Top.list /\ f.i = Top.i + 1
  <2> DEFINE g == [Top EXCEPT !.pc = "perform"]
  <2>1. g \in Activations /\ g.kind = "urgent" /\ g.list = Top.list
    BY <1>2, MoveActivation
  <2>2. f = [g EXCEPT !.i = Top.i + 1]
    BY <1>2 DEF Activations
  <2> HIDE DEF f, g
  <2>3. Top.i + 1 \in Nat
    BY <1>3
  <2> QED
    BY <2>1, <2>2, <2>3, MoveCursor
<1>6. stack' = Front(stack) \o <<f>>
  BY DEF PerformUrgent, Step
<1> HIDE DEF f
<1>7. ASSUME NEW t \in UrgentTasks
      PROVE  /\ t = u => Awaits(Top, t) /\ ~ Awaits(f, t)
             /\ t # u => (Awaits(f, t) <=> Awaits(Top, t))
  <2>1. /\ Top.i + 1 \in Top.i + 1 .. Len(Top.list)
        /\ \A k \in Top.i + 1 .. Len(Top.list) :
              k \in 1 .. Len(Top.list) /\ (k = Top.i + 1 \/ k \in (Top.i + 1) + 1 .. Len(Top.list))
        /\ \A k \in (Top.i + 1) + 1 .. Len(Top.list) :
              k \in Top.i + 1 .. Len(Top.list) /\ k # Top.i + 1
    BY <1>3
  <2>2. \A k \in 1 .. Len(Top.list) : Top.list[k] = u => k = Top.i + 1
    BY <1>3, <1>4 DEF NoRepeats
  <2>3. Awaits(Top, t) <=> \E k \in Top.i + 1 .. Len(Top.list) : Top.list[k] = t
    BY <1>2 DEF Awaits
  <2>4. Awaits(f, t) <=> \E k \in (Top.i + 1) + 1 .. Len(Top.list) : Top.list[k] = t
    BY <1>5 DEF Awaits
  <2> HIDE DEF u
  <2>5. Top.list[Top.i + 1] = u
    BY DEF u
  <2> QED
    BY <2>1, <2>2, <2>3, <2>4, <2>5
<1>8. owed' = [owed EXCEPT ![u] = @ - 1]
  BY DEF PerformUrgent
<1>9. ASSUME NEW t \in UrgentTasks
      PROVE  /\ owed'[t] \in Nat
             /\ owed'[t] = Cardinality(Passes(t, stack')) + IF t \in Range(urgent) THEN 1 ELSE 0
  <2>1. /\ Cardinality(Passes(t, Front(stack))) \in Nat
        /\ Cardinality(Passes(t, stack)) =
              Cardinality(Passes(t, Front(stack))) + IF Awaits(Top, t) THEN 1 ELSE 0
        /\ Cardinality(Passes(t, stack')) =
              Cardinality(Passes(t, Front(stack))) + IF Awaits(f, t) THEN 1 ELSE 0
    BY <1>2, <1>5, <1>6, PassesTop
  <2>2. /\ owed \in [UrgentTasks -> Nat]
        /\ owed[t] = Cardinality(Passes(t, stack)) + IF t \in Range(urgent) THEN 1 ELSE 0
    BY <1>2 DEF UrgentOK
  <2>3. CASE t = u
    <3>1. owed'[t] = owed[t] - 1
      BY <1>8, <2>2, <2>3
    <3> QED
      BY <1>7, <2>1, <2>2, <2>3, <3>1
  <2>4. CASE t # u
    <3>1. owed'[t] = owed[t]
      BY <1>8, <2>2, <2>4
    <3> QED
      BY <1>7, <2>1, <2>2, <2>4, <3>1
  <2> QED
    BY <2>3, <2>4
<1>10. UrgentOK(urgent, alive, owed', stack')
  <2>1. owed' \in [UrgentTasks -> Nat]
    <3>1. owed' = [t \in UrgentTasks |-> owed'[t]]
      BY <1>2, <1>8 DEF UrgentOK
    <3> QED
      BY <1>9, <3>1
  <2> QED
    BY <1>2, <1>9, <2>1 DEF UrgentOK
<1> QED
  BY <1>1, <1>10 DEF LoopInv, PerformUrgent

\* BroadcastSignal keeps the invariant of the loop.
LEMMA BroadcastSignalLoopInv ==
    ASSUME LoopInv, BroadcastSignal
    PROVE  LoopInv'
<1>1. StackOK(stack', idle) /\ UrgentOK(urgent, alive, owed, stack')
  BY StepKeeps DEF BroadcastSignal
<1> QED
  BY <1>1 DEF LoopInv, BroadcastSignal, taskVars

\* EndIdle keeps the invariant of the loop.
LEMMA EndIdleLoopInv ==
    ASSUME LoopInv, EndIdle
    PROVE  LoopInv'
<1>1. StackOK(stack', idle) /\ UrgentOK(urgent, alive, owed, stack')
  <2>1. CASE hasBlockingWindow
    BY <2>1, AtKeeps DEF EndIdle, LoopPcs
  <2>2. CASE ~ hasBlockingWindow
    BY <2>2, AtKeeps DEF EndIdle, LoopPcs
  <2> QED
    BY <2>1, <2>2
<1> QED
  BY <1>1 DEF LoopInv, EndIdle, taskVars

\* LeaveSignalLoop keeps the invariant of the loop.
LEMMA LeaveSignalLoopLoopInv ==
    ASSUME LoopInv, LeaveSignalLoop
    PROVE  LoopInv'
<1>1. StackOK(stack', idle) /\ UrgentOK(urgent, alive, owed, stack')
  BY AtKeeps DEF LeaveSignalLoop, LoopPcs
<1> QED
  BY <1>1 DEF LoopInv, LeaveSignalLoop, taskVars

\* Only an event loop is at a place of an event loop.
LEMMA TopPlace ==
    ASSUME LoopInv
    PROVE  Top.kind \in {"main", "window"} <=> Top.pc \in LoopPcs
BY TopProperties DEF LoopInv, Top, FrameOK

\* ForgetSignals keeps the invariant of the loop.
LEMMA ForgetSignalsLoopInv ==
    ASSUME LoopInv, ForgetSignals
    PROVE  LoopInv'
<1>1. Top.kind = "signals"
  BY TopProperties DEF ForgetSignals, LoopInv, Top, FrameOK
<1>2. StackOK(stack', idle) /\ UrgentOK(urgent, alive, owed, stack')
  BY <1>1, PopKeeps DEF ForgetSignals
<1> QED
  BY <1>2 DEF LoopInv, ForgetSignals, taskVars

\* Return keeps the invariant of the loop.
LEMMA ReturnLoopInv ==
    ASSUME LoopInv, Return
    PROVE  LoopInv'
<1>1. Top.kind \notin {"main", "window"}
  BY TopPlace DEF Return, LoopPcs
<1>2. StackOK(stack', idle) /\ UrgentOK(urgent, alive, owed, stack')
  <2>1. CASE Top.pc = "perform"
    <3>1. At("next")
      BY <2>1 DEF Return
    <3> QED
      BY <1>1, <3>1, AtKeeps DEF LoopPcs
  <2>2. CASE Top.pc = "broadcast"
    <3>1. At("test")
      BY <2>2 DEF Return
    <3>2. Top.kind = "signals"
      BY <2>2, TopProperties DEF LoopInv, Top, FrameOK
    <3> QED
      BY <1>1, <3>1, <3>2, AtKeeps DEF LoopPcs
  <2>3. CASE Top.pc \in {"check", "connect"}
    <3>1. stack' = Front(stack)
      BY <2>3 DEF Return
    <3>2. Top.kind = "idle"
      BY <2>3, TopProperties DEF LoopInv, Top, FrameOK
    <3> QED
      BY <1>1, <3>1, <3>2, PopKeeps
  <2> QED
    BY <2>1, <2>2, <2>3 DEF Return
<1> QED
  BY <1>2 DEF LoopInv, Return, taskVars

\* EndEvent keeps the invariant of the loop.
LEMMA EndEventLoopInv ==
    ASSUME LoopInv, EndEvent
    PROVE  LoopInv'
<1> DEFINE p == IF Top.kind = "window" THEN "between" ELSE "dispatch"
<1>1. Top.kind \in {"main", "window"} /\ p \in LoopPcs
      /\ p \notin {"check", "connect", "test", "broadcast", "reset"}
  BY TopPlace DEF EndEvent, LoopPcs
<1>2. At(p)
  BY DEF EndEvent
<1> HIDE DEF p
<1>3. StackOK(stack', idle) /\ UrgentOK(urgent, alive, owed, stack')
  BY <1>1, <1>2, AtKeeps
<1> QED
  BY <1>3 DEF LoopInv, EndEvent, taskVars

\* There is a list more than windows: a window has one put aside.
LEMMA EnterWindowLoopInv ==
    ASSUME LoopInv, EnterWindow
    PROVE  LoopInv'
<1>1. StackOK(stack', idle) /\ UrgentOK(urgent, alive, owed, stack')
  BY AtKeeps DEF EnterWindow, LoopPcs
<1>2. Len(idle) # 1
  <2>1. Len(stack) \in Nat /\ Len(stack) >= 1 /\ stack[Len(stack)].kind = "window"
    BY TopProperties DEF LoopInv, EnterWindow, Top
  <2> DEFINE n == Len(stack) - 1
  <2>2. n \in Nat /\ n + 1 = Len(stack)
    BY <2>1
  <2> HIDE DEF n
  <2>3. WindowsOf(stack, n + 1) = WindowsOf(stack, n) + 1 /\ WindowsOf(stack, n) \in Nat
    BY <2>1, <2>2, WindowsStep, WindowsFinite
  <2> QED
    BY <2>2, <2>3 DEF LoopInv, StackOK
<1> QED
  BY <1>1, <1>2 DEF LoopInv, EnterWindow

-----------------------------------------------------------------------------
(* Idle and urgent passes are called, and urgent tasks come and go.        *)

\* A list of one task repeats nothing.
LEMMA OneTask ==
    ASSUME NEW S, NEW t \in S
    PROVE  <<t>> \in Seq(S) /\ Len(<<t>>) = 1 /\ NoRepeats(<<t>>) /\ Range(<<t>>) = {t}
BY DEF NoRepeats, Range

\* The empty list repeats nothing.
LEMMA NoTask ==
    ASSUME NEW S
    PROVE  <<>> \in Seq(S) /\ Len(<<>>) = 0 /\ NoRepeats(<<>>) /\ Range(<<>>) = {}
BY DEF NoRepeats, Range

\* Go keeps the invariant of the loop.
LEMMA GoLoopInv ==
    ASSUME LoopInv, NEW t \in UrgentTasks, Go(t)
    PROVE  LoopInv'
<1>1. UrgentOK(urgent, alive, owed, stack) /\ DOMAIN stack = 1 .. Len(stack)
  BY TopProperties DEF LoopInv
<1>2. urgent' = Append(urgent, t) /\ alive' = alive \cup {t} /\ t \notin Range(urgent)
      /\ urgent \in Seq(UrgentTasks)
  BY <1>1 DEF Go, UrgentOK
<1>3. urgent' = urgent \o <<t>>
  BY <1>2, AppendIsConcat
<1>4. owed' = [owed EXCEPT ![t] = @ + 1]
  BY DEF Go
<1>5. /\ urgent' \in Seq(UrgentTasks) /\ NoRepeats(urgent')
      /\ Range(urgent') = Range(urgent) \cup {t}
  <2>1. NoRepeats(urgent) /\ Range(urgent) \cap Range(<<t>>) = {}
    BY <1>1, <1>2, OneTask DEF UrgentOK
  <2> DEFINE u == <<t>>
  <2>2. u \in Seq(UrgentTasks) /\ NoRepeats(u) /\ Range(u) = {t}
    BY OneTask
  <2>3. urgent' = urgent \o u /\ Range(urgent) \cap Range(u) = {}
    BY <1>3, <2>1
  <2> HIDE DEF u
  <2>4. /\ urgent \o u \in Seq(UrgentTasks) /\ NoRepeats(urgent \o u)
        /\ Range(urgent \o u) = Range(urgent) \cup Range(u)
    BY <1>2, <2>1, <2>2, <2>3, JoinedLists
  <2> QED
    BY <2>2, <2>3, <2>4
<1>6. ASSUME NEW u \in UrgentTasks
      PROVE  /\ owed'[u] \in Nat
             /\ owed'[u] = Cardinality(Passes(u, stack)) + IF u \in Range(urgent') THEN 1 ELSE 0
  <2>1. /\ owed \in [UrgentTasks -> Nat]
        /\ owed[u] = Cardinality(Passes(u, stack)) + IF u \in Range(urgent) THEN 1 ELSE 0
    BY <1>1 DEF UrgentOK
  <2>2. Cardinality(Passes(u, stack)) \in Nat
    BY PassesFinite, TopProperties DEF LoopInv
  <2> QED
    BY <1>2, <1>4, <1>5, <2>1, <2>2
<1>7. owed' \in [UrgentTasks -> Nat]
  <2>1. owed' = [u \in UrgentTasks |-> owed'[u]]
    BY <1>1, <1>4 DEF UrgentOK
  <2> QED
    BY <1>6, <2>1
<1>8. UrgentOK(urgent', alive', owed', stack)
  BY <1>1, <1>2, <1>5, <1>6, <1>7 DEF UrgentOK
<1> QED
  BY <1>8 DEF LoopInv, Go

\* The tasks ts go: those of them that wait are owed no call of Perform any more.
LEMMA CalledOffKeeps ==
    ASSUME NEW ts, NEW ur, NEW al, NEW st, UrgentOK(urgent, alive, owed, st), Len(st) \in Nat,
           ur \in Seq(UrgentTasks), NoRepeats(ur), Range(ur) = Range(urgent) \ ts, al \subseteq alive
    PROVE  UrgentOK(ur, al, CalledOff(ts), st)
<1>1. ASSUME NEW t \in UrgentTasks
      PROVE  /\ CalledOff(ts)[t] \in Nat
             /\ CalledOff(ts)[t] =
                   Cardinality(Passes(t, st)) + IF t \in Range(ur) THEN 1 ELSE 0
  <2>1. /\ owed[t] \in Nat
        /\ owed[t] = Cardinality(Passes(t, st)) + IF t \in Range(urgent) THEN 1 ELSE 0
        /\ Cardinality(Passes(t, st)) \in Nat
    BY PassesFinite DEF UrgentOK
  <2>2. CalledOff(ts)[t] = IF t \in ts \cap Range(urgent) THEN owed[t] - 1 ELSE owed[t]
    BY DEF CalledOff
  <2> QED
    BY <2>1, <2>2
<1>2. CalledOff(ts) \in [UrgentTasks -> Nat]
  <2>1. CalledOff(ts) = [t \in UrgentTasks |-> CalledOff(ts)[t]]
    BY DEF CalledOff
  <2> QED
    BY <1>1, <2>1
<1> QED
  BY <1>1, <1>2 DEF UrgentOK

\* DeleteUrgent keeps the invariant of the loop.
LEMMA DeleteUrgentLoopInv ==
    ASSUME LoopInv, NEW t \in UrgentTasks, DeleteUrgent(t)
    PROVE  LoopInv'
<1>1. UrgentOK(urgent, alive, owed, stack)
  BY DEF LoopInv
<1>2. urgent' = Without(urgent, t) /\ alive' \subseteq alive
  BY DEF DeleteUrgent
<1>3. /\ urgent' \in Seq(UrgentTasks) /\ NoRepeats(urgent')
      /\ Range(urgent') = Range(urgent) \ {t}
  BY <1>1, <1>2, WithoutProperties DEF UrgentOK
<1>4. owed' = CalledOff({t}) /\ Len(stack) \in Nat
  BY TopProperties DEF DeleteUrgent, LoopInv
<1>5. UrgentOK(urgent', alive', owed', stack)
  BY <1>1, <1>2, <1>3, <1>4, CalledOffKeeps
<1> QED
  BY <1>5 DEF LoopInv, DeleteUrgent

\* The pass takes the tasks that wait, and none waits any more.
LEMMA TakeUrgent ==
    ASSUME NEW ur, NEW al, NEW ow, NEW st \in Seq(Activations), UrgentOK(ur, al, ow, st),
           NEW f \in Activations, f.kind = "urgent", f.list = ur, f.i = 0
    PROVE  UrgentOK(<<>>, al, ow, Append(st, f))
<1> DEFINE su == Append(st, f)
<1>1. /\ Len(st) \in Nat /\ Len(su) = Len(st) + 1 /\ su[Len(su)] = f
      /\ \A d \in 1 .. Len(st) : su[d] = st[d]
  BY AppendProperties, LenProperties
<1> HIDE DEF su
<1>2. \A t : Awaits(f, t) <=> t \in Range(ur)
  <2>1. DOMAIN ur = 1 .. Len(ur)
    BY LenProperties DEF UrgentOK
  <2> QED
    BY <2>1 DEF Awaits, Range
<1>3. \A t \in UrgentTasks :
         /\ Cardinality(Passes(t, st)) \in Nat
         /\ Cardinality(Passes(t, su)) =
               Cardinality(Passes(t, st)) + IF t \in Range(ur) THEN 1 ELSE 0
  BY <1>1, <1>2, PassesStep, PassesFinite
<1> DEFINE none == <<>>
<1>4. none \in Seq(UrgentTasks) /\ NoRepeats(none) /\ Range(none) = {}
  BY NoTask
<1> HIDE DEF none
<1>5. ASSUME NEW t \in UrgentTasks
      PROVE  ow[t] = Cardinality(Passes(t, su)) + IF t \in Range(none) THEN 1 ELSE 0
  <2>1. ow[t] = Cardinality(Passes(t, st)) + IF t \in Range(ur) THEN 1 ELSE 0
    BY DEF UrgentOK
  <2>2. Cardinality(Passes(t, su)) = ow[t] /\ ow[t] \in Nat
    BY <1>3, <2>1
  <2> QED
    BY <1>4, <2>2
<1>6. UrgentOK(none, al, ow, su)
  BY <1>4, <1>5 DEF UrgentOK
<1> QED
  BY <1>6 DEF su, none

\* CallIdle keeps the invariant of the loop.
LEMMA CallIdleLoopInv ==
    ASSUME LoopInv, CallIdle
    PROVE  LoopInv'
<1> DEFINE f == [Top EXCEPT !.pc = "urgent"]
           g == Activation("idle", "next", <<>>, Len(idle))
           su == Front(stack) \o <<f>>
<1>1. /\ stack \in Seq(Activations) /\ stack # <<>> /\ Top \in Activations
      /\ FrameOK(Top, idle, WindowsOf(stack, Len(stack)))
  BY TopProperties DEF LoopInv, StackOK, Top
<1>2. Top.kind \in {"main", "window"}
  BY TopPlace DEF CallIdle, LoopPcs
<1>3. /\ f \in Activations /\ f.kind = Top.kind /\ f.pc = "urgent"
      /\ f.list = Top.list /\ f.i = Top.i /\ f.level = Top.level
  BY <1>1, MoveActivation DEF LoopPcs, Activations
<1>4. /\ g \in Activations /\ g.kind = "idle" /\ g.pc = "next" /\ g.level = Len(idle) /\ g.i = 0
  <2>1. Len(idle) \in Nat /\ <<>> \in Seq(UrgentTasks)
    BY LenProperties DEF LoopInv, IdleOK
  <2> QED
    BY <2>1 DEF Activation, Activations, Kinds, LoopPcs
<1>5. stack' = Append(su, g)
  BY ZenonT(40), <1>1, <1>3, <1>4, FrontAndTwo DEF CallIdle
<1> HIDE DEF f, g
<1>6. StackOK(su, idle) /\ UrgentOK(urgent, alive, owed, su)
  <2>1. FrameOK(f, idle, WindowsOf(stack, Len(stack)))
    BY <1>1, <1>2, <1>3 DEF FrameOK, LoopPcs
  <2> QED
    BY <1>3, <2>1, TopKeeps
<1> HIDE DEF su
<1>7. FrameOK(g, idle, WindowsOf(su, Len(su)))
  <2>1. Len(idle) = WindowsOf(su, Len(su)) + 1 /\ Len(idle) \in 1 .. Len(idle)
    <3>1. Len(su) \in Nat /\ Len(idle) = WindowsOf(su, Len(su)) + 1
      BY <1>6, TopProperties DEF StackOK
    <3>2. WindowsOf(su, Len(su)) \in Nat
      BY <3>1, WindowsFinite
    <3> QED
      BY <3>1, <3>2
  <2>2. idle[Len(idle)] \in Seq(IdleTasks)
    BY <2>1, ElementOfSeq DEF LoopInv, IdleOK
  <2>3. Len(idle[Len(idle)]) \in Nat
    BY <2>2, LenProperties
  <2> QED
    BY <1>4, <2>1, <2>3 DEF FrameOK, LoopPcs
<1>8. StackOK(stack', idle)
  BY <1>4, <1>5, <1>6, <1>7, PushStack
<1>9. UrgentOK(urgent, alive, owed, stack')
  BY <1>4, <1>5, <1>6, PushKeepsUrgent DEF StackOK
<1> QED
  BY <1>8, <1>9 DEF LoopInv, CallIdle, taskVars

\* CallUrgent keeps the invariant of the loop.
LEMMA CallUrgentLoopInv ==
    ASSUME LoopInv, CallUrgent
    PROVE  LoopInv'
<1> DEFINE f == [Top EXCEPT !.pc = "end"]
           g == Activation("urgent", "next", urgent, 0)
           su == Front(stack) \o <<f>>
<1>1. /\ stack \in Seq(Activations) /\ stack # <<>> /\ Top \in Activations
      /\ FrameOK(Top, idle, WindowsOf(stack, Len(stack)))
      /\ urgent \in Seq(UrgentTasks) /\ NoRepeats(urgent)
  BY TopProperties DEF LoopInv, StackOK, UrgentOK, Top
<1>2. Top.kind \in {"main", "window"}
  BY TopPlace DEF CallUrgent, LoopPcs
<1>3. /\ f \in Activations /\ f.kind = Top.kind /\ f.pc = "end"
      /\ f.list = Top.list /\ f.i = Top.i /\ f.level = Top.level
  BY <1>1, MoveActivation DEF LoopPcs, Activations
<1>4. /\ g \in Activations /\ g.kind = "urgent" /\ g.pc = "next"
      /\ g.list = urgent /\ g.i = 0
  BY <1>1 DEF Activation, Activations, Kinds, LoopPcs
<1>5. stack' = Append(su, g)
  BY ZenonT(40), <1>1, <1>3, <1>4, FrontAndTwo DEF CallUrgent
<1> HIDE DEF f, g
<1>6. StackOK(su, idle) /\ UrgentOK(urgent, alive, owed, su)
  <2>1. FrameOK(f, idle, WindowsOf(stack, Len(stack)))
    BY <1>1, <1>2, <1>3 DEF FrameOK, LoopPcs
  <2> QED
    BY <1>3, <2>1, TopKeeps
<1> HIDE DEF su
<1>7. FrameOK(g, idle, WindowsOf(su, Len(su)))
  BY <1>1, <1>4, LenProperties DEF FrameOK, LoopPcs
<1>8. StackOK(stack', idle)
  BY <1>4, <1>5, <1>6, <1>7, PushStack
<1>9. UrgentOK(urgent', alive, owed, stack')
  BY <1>4, <1>5, <1>6, TakeUrgent DEF StackOK, CallUrgent
<1> QED
  BY <1>8, <1>9 DEF LoopInv, CallUrgent

\* The tasks of the pass go, and with them those that wait again; the pass itself has
\* none before it any more.
LEMMA EndUrgentLoopInv ==
    ASSUME LoopInv, EndUrgent
    PROVE  LoopInv'
<1> DEFINE f == Activation("signals", "test", <<>>, 0)
<1>1. /\ StackOK(stack, idle) /\ UrgentOK(urgent, alive, owed, stack)
      /\ stack \in Seq(Activations) /\ stack # <<>> /\ Top \in Activations
      /\ Top = Last(stack) /\ Top.kind = "urgent" /\ Top.list \in Seq(UrgentTasks)
      /\ Top.i >= Len(Top.list)
  BY TopProperties DEF LoopInv, StackOK, EndUrgent, Top, Activations
<1>2. /\ urgent' \in Seq(UrgentTasks) /\ NoRepeats(urgent')
      /\ Range(urgent') = Range(urgent) \ Range(Top.list) /\ alive' \subseteq alive
      /\ owed' = CalledOff(Range(Top.list))
  BY <1>1, WithoutAllProperties DEF EndUrgent, UrgentOK
<1>3. StackOK(stack', idle) /\ UrgentOK(urgent, alive, owed, stack')
  <2>1. CASE stack' = Front(stack)
    BY <1>1, <2>1, PopKeeps
  <2>2. CASE stack' = Front(stack) \o <<f>>
    <3>1. f \in Activations /\ f.kind = "signals" /\ f.pc = "test"
      BY NoTask DEF Activation, Activations, Kinds, LoopPcs
    <3> HIDE DEF f
    <3>2. FrameOK(f, idle, WindowsOf(stack, Len(stack)))
      BY <3>1 DEF FrameOK, LoopPcs
    <3>3. StackOK(stack', idle)
      BY <1>1, <2>2, <3>1, <3>2, ChangeTop
    <3>4. \A t : ~ Awaits(f, t) /\ ~ Awaits(Last(stack), t)
      <4>1. Top.i \in Nat /\ Len(Top.list) \in Nat
        BY <1>1, LenProperties DEF Activations
      <4>2. Top.i + 1 .. Len(Top.list) = {}
        BY <1>1, <4>1
      <4> QED
        BY <1>1, <3>1, <4>2 DEF Awaits
    <3>5. UrgentOK(urgent, alive, owed, Front(stack) \o <<f>>)
      BY <1>1, <3>1, <3>4, TopKeepsUrgent
    <3> QED
      BY <2>2, <3>3, <3>5
  <2> QED
    BY <2>1, <2>2 DEF EndUrgent
<1>4. Len(stack') \in Nat
  BY <1>3, TopProperties
<1>5. UrgentOK(urgent', alive', owed', stack')
  BY <1>2, <1>3, <1>4, CalledOffKeeps
<1> QED
  BY <1>3, <1>5 DEF LoopInv, EndUrgent

-----------------------------------------------------------------------------
(* Idle tasks come and go.                                                 *)

\* Every pass is told, and stays inside its list.
LEMMA CursorsKeep ==
    ASSUME LoopInv, NEW t, NEW inserted \in BOOLEAN, NEW ids, Len(ids) = Len(idle),
           \A l \in 1 .. Len(idle) : Len(ids[l]) \in Nat,
           \A l \in 1 .. Len(idle) : \A c \in 0 .. Len(idle[l]) :
              IF inserted /\ l = Len(idle)
              THEN TaskCursorAfterInsert(c, 1, 1) \in 0 .. Len(ids[l])
              ELSE CursorWithout(idle[l], t, c) \in 0 .. Len(ids[l])
    PROVE  /\ StackOK(CursorsAfter(t, inserted), ids)
           /\ UrgentOK(urgent, alive, owed, CursorsAfter(t, inserted))
<1> DEFINE n == Len(stack)
           su == CursorsAfter(t, inserted)
<1>1. /\ StackOK(stack, idle) /\ UrgentOK(urgent, alive, owed, stack)
      /\ n \in Nat /\ n >= 1 /\ DOMAIN stack = 1 .. n
      /\ \A d \in 1 .. n : stack[d] \in Activations
  BY TopProperties DEF LoopInv
<1>2. ASSUME NEW d \in 1 .. n
      PROVE  /\ su[d] \in Activations
             /\ su[d].kind = stack[d].kind /\ su[d].pc = stack[d].pc
             /\ su[d].list = stack[d].list /\ su[d].level = stack[d].level
             /\ stack[d].kind # "idle" => su[d] = stack[d]
             /\ stack[d].kind = "idle" => su[d].i \in 0 .. Len(ids[stack[d].level])
  <2>1. CASE stack[d].kind # "idle"
    BY <1>1, <2>1 DEF CursorsAfter
  <2>2. CASE stack[d].kind = "idle"
    <3> DEFINE l == stack[d].level
               k == IF inserted /\ l = Len(idle)
                    THEN TaskCursorAfterInsert(stack[d].i, 1, 1)
                    ELSE CursorWithout(idle[l], t, stack[d].i)
    <3>1. l \in 1 .. Len(idle)
      BY <1>1, <2>2, FrameLevel
    <3>2. stack[d].i \in 0 .. Len(idle[l])
      <4>1. stack[d].i \in Nat /\ stack[d].i <= Len(idle[l])
        BY <1>1, <2>2 DEF StackOK, FrameOK, Activations
      <4>2. Len(idle[l]) \in Nat
        BY <3>1, ElementOfSeq, LenProperties DEF LoopInv, IdleOK
      <4> QED
        BY <4>1, <4>2
    <3>3. k \in 0 .. Len(ids[l]) /\ k \in Nat
      BY <3>1, <3>2
    <3>4. su[d] = [stack[d] EXCEPT !.i = k]
      BY <1>1, <2>2 DEF CursorsAfter, Activations
    <3> HIDE DEF k
    <3>5. [stack[d] EXCEPT !.i = k] \in Activations
      BY <1>1, <3>3, MoveCursor
    <3> QED
      BY <1>1, <2>2, <3>3, <3>4, <3>5 DEF Activations
  <2> QED
    BY <2>1, <2>2
<1>3. su \in Seq(Activations) /\ Len(su) = n
  <2>1. DOMAIN su = 1 .. n /\ su = [d \in 1 .. n |-> su[d]]
    BY <1>1 DEF CursorsAfter
  <2> HIDE DEF su
  <2>2. su \in [1 .. n -> Activations]
    BY <1>2, <2>1
  <2> QED
    BY <1>1, <2>2, FunctionIsSeq
<1> HIDE DEF su
<1>4. ASSUME NEW d \in 1 .. n
      PROVE  /\ FrameOK(su[d], ids, WindowsOf(stack, d))
             /\ su[d].kind = "window" <=> stack[d].kind = "window"
             /\ su[d].kind = "main" <=> stack[d].kind = "main"
  <2>1. FrameOK(stack[d], idle, WindowsOf(stack, d))
    BY <1>1 DEF StackOK
  <2>2. stack[d].kind = "idle" => su[d].i <= Len(ids[su[d].level])
    <3>1. stack[d].kind = "idle" => Len(ids[stack[d].level]) \in Nat
      BY <1>1, FrameLevel
    <3> QED
      BY <1>2, <3>1
  <2> QED
    BY <1>2, <2>1, <2>2 DEF FrameOK
<1>5. Len(ids) = WindowsOf(stack, n) + 1 /\ n \in 1 .. Len(stack)
  BY <1>1 DEF StackOK
<1>6. StackOK(su, ids)
  BY <1>1, <1>3, <1>4, <1>5, MapStack
<1>7. UrgentOK(urgent, alive, owed, su)
  <2>1. /\ Len(su) = Len(stack) /\ Len(su) + 1 .. Len(stack) = {}
        /\ \A d \in 1 .. Len(su) :
              su[d].kind = stack[d].kind /\ (stack[d].kind = "urgent" => su[d] = stack[d])
    BY <1>1, <1>2, <1>3
  <2> QED
    BY <1>1, <2>1, UrgentKept
<1> QED
  BY <1>6, <1>7 DEF su

\* What IdleOK says of the lists.
LEMMA IdleLists ==
    ASSUME LoopInv
    PROVE  /\ DOMAIN idle = 1 .. Len(idle) /\ Len(idle) \in Nat /\ Len(idle) >= 1
           /\ Last(idle) = idle[Len(idle)]
           /\ Len(idle) = OpenWindows + 1 /\ OpenWindows \in 0 .. MaxWindows
           /\ OpenWindows = WindowsOf(stack, Len(stack))
           /\ \A l \in 1 .. Len(idle) :
                 /\ idle[l] \in Seq(IdleTasks) /\ NoRepeats(idle[l])
                 /\ Len(idle[l]) \in Nat /\ DOMAIN idle[l] = 1 .. Len(idle[l])
<1>1. DOMAIN idle = 1 .. Len(idle) /\ Len(idle) \in Nat
  BY LenProperties DEF LoopInv, IdleOK
<1>2. /\ Len(idle) = OpenWindows + 1 /\ OpenWindows <= MaxWindows
      /\ OpenWindows = WindowsOf(stack, Len(stack))
  BY DEF LoopInv, StackOK, OpenWindows, Windows, WindowsOf
<1>3. OpenWindows \in Nat
  <2>1. Len(stack) \in Nat
    BY TopProperties DEF LoopInv
  <2> QED
    BY <1>2, <2>1, WindowsFinite
<1>4. \A l \in 1 .. Len(idle) :
         /\ idle[l] \in Seq(IdleTasks) /\ NoRepeats(idle[l])
         /\ Len(idle[l]) \in Nat /\ DOMAIN idle[l] = 1 .. Len(idle[l])
  BY <1>1, ElementOfSeq, LenProperties DEF LoopInv, IdleOK
<1> QED
  BY <1>1, <1>2, <1>3, <1>4, EventLoopAssumption DEF Last

\* InstallIdle keeps the invariant of the loop.
LEMMA InstallIdleLoopInv ==
    ASSUME LoopInv, NEW t \in IdleTasks, InstallIdle(t)
    PROVE  LoopInv'
<1> DEFINE n == Len(idle)
<1>1. /\ DOMAIN idle = 1 .. n /\ n \in Nat /\ n >= 1 /\ n = OpenWindows + 1
      /\ OpenWindows \in 0 .. MaxWindows
      /\ \A l \in 1 .. n : idle[l] \in Seq(IdleTasks) /\ NoRepeats(idle[l])
      /\ \A l \in 1 .. n : Len(idle[l]) \in Nat
      /\ t \notin Range(idle[n])
  BY IdleLists DEF InstallIdle
<1>2. /\ idle' = [l \in 1 .. n |-> IF l = n THEN <<t>> \o idle[l] ELSE Without(idle[l], t)]
      /\ installedAt' = [installedAt EXCEPT ![t] = OpenWindows]
      /\ stack' = CursorsAfter(t, TRUE)
  BY <1>1 DEF InstallIdle
<1> HIDE DEF n
<1>3. ASSUME NEW l \in 1 .. n
      PROVE  /\ idle'[l] \in Seq(IdleTasks)
             /\ NoRepeats(idle'[l])
             /\ Len(idle'[l]) \in Nat
             /\ Range(idle'[l]) = IF l = n THEN Range(idle[l]) \cup {t} ELSE Range(idle[l]) \ {t}
             /\ \A c \in 0 .. Len(idle[l]) :
                   IF TRUE /\ l = n
                   THEN TaskCursorAfterInsert(c, 1, 1) \in 0 .. Len(idle'[l])
                   ELSE CursorWithout(idle[l], t, c) \in 0 .. Len(idle'[l])
  <2>1. CASE l = n
    <3>1. idle'[l] = <<t>> \o idle[l] /\ t \notin ElementsOf(idle[l])
      BY <1>1, <1>2, <2>1, RangeIsElements
    <3>2. idle'[l] \in Seq(IdleTasks) /\ Len(idle'[l]) = Len(idle[l]) + 1
      BY <1>1, <3>1, PrependProperties
    <3>3. NoRepeats(idle'[l]) /\ Range(idle'[l]) = Range(idle[l]) \cup {t}
      BY <1>1, <3>1, PrependElements, RangeIsElements
    <3>4. \A c \in 0 .. Len(idle[l]) : TaskCursorAfterInsert(c, 1, 1) = c + 1
      BY <1>1, AfterPrepending
    <3> QED
      BY <1>1, <2>1, <3>2, <3>3, <3>4
  <2>2. CASE l # n
    <3>1. idle'[l] = Without(idle[l], t)
      BY <1>2, <2>2
    <3>2. /\ idle'[l] \in Seq(IdleTasks) /\ NoRepeats(idle'[l])
          /\ Range(idle'[l]) = Range(idle[l]) \ {t}
      BY <1>1, <3>1, WithoutProperties
    <3>3. \A c \in 0 .. Len(idle[l]) : CursorWithout(idle[l], t, c) \in 0 .. Len(idle'[l])
      BY <1>1, <3>1, CursorWithoutInside
    <3> QED
      BY <2>2, <3>2, <3>3, LenProperties
  <2> QED
    BY <2>1, <2>2
<1>4. idle' \in Seq(Seq(IdleTasks)) /\ Len(idle') = n
  <2>1. idle' \in [1 .. n -> Seq(IdleTasks)]
    BY <1>2, <1>3
  <2> QED
    BY <1>1, <2>1, FunctionIsSeq
<1>5. StackOK(stack', idle') /\ UrgentOK(urgent, alive, owed, stack')
  <2>1. \A l \in 1 .. n : Len(idle'[l]) \in Nat
    BY <1>3
  <2>2. \A l \in 1 .. n : \A c \in 0 .. Len(idle[l]) :
           IF TRUE /\ l = n
           THEN TaskCursorAfterInsert(c, 1, 1) \in 0 .. Len(idle'[l])
           ELSE CursorWithout(idle[l], t, c) \in 0 .. Len(idle'[l])
    BY <1>3
  <2>3. /\ StackOK(CursorsAfter(t, TRUE), idle')
        /\ UrgentOK(urgent, alive, owed, CursorsAfter(t, TRUE))
    BY <1>4, <2>1, <2>2, CursorsKeep DEF n
  <2> QED
    BY <1>2, <2>3
<1>6. IdleOK(idle, installedAt)
  BY DEF LoopInv
<1>7. installedAt' \in [IdleTasks -> 0 .. MaxWindows]
      /\ \A u \in IdleTasks : installedAt'[u] = IF u = t THEN OpenWindows ELSE installedAt[u]
  BY <1>1, <1>2, <1>6 DEF IdleOK
<1>8. ASSUME NEW l \in 1 .. n, NEW m \in 1 .. n, l # m
      PROVE  Range(idle'[l]) \cap Range(idle'[m]) = {}
  <2>1. Range(idle[l]) \cap Range(idle[m]) = {}
    BY <1>6, <1>8 DEF IdleOK, n
  <2>2. Range(idle'[l]) = IF l = n THEN Range(idle[l]) \cup {t} ELSE Range(idle[l]) \ {t}
    BY <1>3
  <2>3. Range(idle'[m]) = IF m = n THEN Range(idle[m]) \cup {t} ELSE Range(idle[m]) \ {t}
    BY <1>3
  <2>4. CASE l = n /\ m # n
    BY <2>1, <2>2, <2>3, <2>4
  <2>5. CASE l # n
    BY <1>8, <2>1, <2>2, <2>3, <2>5
  <2> QED
    BY <1>8, <2>4, <2>5
<1>9. ASSUME NEW l \in 1 .. n, NEW u \in Range(idle'[l])
      PROVE  installedAt'[u] >= l - 1
  <2>1. u \in IdleTasks
    BY <1>3, ElementOfSeq, LenProperties DEF Range
  <2>2. CASE u = t
    <3>1. l = n
      BY <1>3, <2>2
    <3> QED
      BY <1>1, <1>7, <2>1, <2>2, <3>1
  <2>3. CASE u # t
    <3>1. u \in Range(idle[l])
      BY <1>3, <2>3
    <3>2. installedAt[u] >= l - 1
      BY <1>6, <3>1 DEF IdleOK, n
    <3> QED
      BY <1>7, <2>1, <2>3, <3>2
  <2> QED
    BY <2>2, <2>3
<1>10. IdleOK(idle', installedAt')
  BY <1>3, <1>4, <1>7, <1>8, <1>9 DEF IdleOK
<1> QED
  BY <1>5, <1>10 DEF LoopInv, InstallIdle

\* RemoveIdle keeps the invariant of the loop.
LEMMA RemoveIdleLoopInv ==
    ASSUME LoopInv, NEW t \in IdleTasks, RemoveIdle(t)
    PROVE  LoopInv'
<1> DEFINE n == Len(idle)
<1>1. /\ DOMAIN idle = 1 .. n /\ n \in Nat
      /\ \A l \in 1 .. n : idle[l] \in Seq(IdleTasks) /\ NoRepeats(idle[l])
  BY IdleLists
<1>2. /\ idle' = [l \in 1 .. n |-> Without(idle[l], t)]
      /\ stack' = CursorsAfter(t, FALSE)
  BY <1>1 DEF RemoveIdle
<1> HIDE DEF n
<1>3. ASSUME NEW l \in 1 .. n
      PROVE  /\ idle'[l] \in Seq(IdleTasks) /\ NoRepeats(idle'[l])
             /\ Len(idle'[l]) \in Nat
             /\ Range(idle'[l]) = Range(idle[l]) \ {t}
             /\ \A c \in 0 .. Len(idle[l]) : CursorWithout(idle[l], t, c) \in 0 .. Len(idle'[l])
  <2>1. idle'[l] = Without(idle[l], t)
    BY <1>2
  <2>2. /\ idle'[l] \in Seq(IdleTasks) /\ NoRepeats(idle'[l])
        /\ Range(idle'[l]) = Range(idle[l]) \ {t}
    BY <1>1, <2>1, WithoutProperties
  <2>3. \A c \in 0 .. Len(idle[l]) : CursorWithout(idle[l], t, c) \in 0 .. Len(idle'[l])
    BY <1>1, <2>1, CursorWithoutInside
  <2> QED
    BY <2>2, <2>3, LenProperties
<1>4. idle' \in Seq(Seq(IdleTasks)) /\ Len(idle') = n
  <2>1. idle' \in [1 .. n -> Seq(IdleTasks)]
    BY <1>2, <1>3
  <2> QED
    BY <1>1, <2>1, FunctionIsSeq
<1>5. StackOK(stack', idle') /\ UrgentOK(urgent, alive, owed, stack')
  <2>1. \A l \in 1 .. n : Len(idle'[l]) \in Nat
    BY <1>3
  <2>2. \A l \in 1 .. n : \A c \in 0 .. Len(idle[l]) :
           IF FALSE /\ l = n
           THEN TaskCursorAfterInsert(c, 1, 1) \in 0 .. Len(idle'[l])
           ELSE CursorWithout(idle[l], t, c) \in 0 .. Len(idle'[l])
    BY <1>3
  <2>3. /\ StackOK(CursorsAfter(t, FALSE), idle')
        /\ UrgentOK(urgent, alive, owed, CursorsAfter(t, FALSE))
    BY <1>4, <2>1, <2>2, CursorsKeep DEF n
  <2> QED
    BY <1>2, <2>3
<1>6. IdleOK(idle, installedAt)
  BY DEF LoopInv
<1>7. \A l \in 1 .. n : \A m \in 1 .. n : l # m => Range(idle'[l]) \cap Range(idle'[m]) = {}
  <2> TAKE l \in 1 .. n
  <2> TAKE m \in 1 .. n
  <2> HAVE l # m
  <2>1. Range(idle[l]) \cap Range(idle[m]) = {}
    BY <1>6 DEF IdleOK, n
  <2> QED
    BY <1>3, <2>1
<1>8. \A l \in 1 .. n : \A u \in Range(idle'[l]) : installedAt'[u] >= l - 1
  <2> TAKE l \in 1 .. n
  <2> TAKE u \in Range(idle'[l])
  <2>1. u \in Range(idle[l]) /\ u # t
    BY <1>3
  <2>2. u \in IdleTasks
    BY <1>1, <2>1, ElementOfSeq, LenProperties DEF Range
  <2>3. installedAt'[u] = installedAt[u]
    BY <1>6, <2>1, <2>2 DEF RemoveIdle, IdleOK
  <2> QED
    BY <1>6, <2>1, <2>3 DEF IdleOK, n
<1>9. installedAt' \in [IdleTasks -> 0 .. MaxWindows]
  BY <1>6, EventLoopAssumption DEF RemoveIdle, IdleOK
<1>10. IdleOK(idle', installedAt')
  BY <1>3, <1>4, <1>7, <1>8, <1>9 DEF IdleOK
<1> QED
  BY <1>5, <1>10 DEF LoopInv, RemoveIdle

-----------------------------------------------------------------------------
(* Windows open and close.                                                 *)

\* OpenWindow keeps the invariant of the loop.
LEMMA OpenWindowLoopInv ==
    ASSUME LoopInv, OpenWindow
    PROVE  LoopInv'
<1> DEFINE n == Len(stack)
           w == Len(idle)
           f == Activation("window", "between", <<>>, 0)
<1>1. /\ StackOK(stack, idle) /\ UrgentOK(urgent, alive, owed, stack) /\ IdleOK(idle, installedAt)
      /\ stack \in Seq(Activations) /\ n \in Nat /\ n >= 1
      /\ \A d \in 1 .. n : /\ FrameOK(stack[d], idle, WindowsOf(stack, d))
                           /\ stack[d].kind = "main" <=> d = 1
  BY TopProperties DEF LoopInv, StackOK
<1>2. /\ w \in Nat /\ w >= 1 /\ w = OpenWindows + 1 /\ OpenWindows \in 0 .. MaxWindows
      /\ OpenWindows = WindowsOf(stack, n) /\ idle \in Seq(Seq(IdleTasks))
  BY <1>1, IdleLists DEF IdleOK
<1>3. OpenWindows + 1 <= MaxWindows
  BY <1>2, EventLoopAssumption DEF OpenWindow, MayOpen
<1>4. /\ f \in Activations /\ f.kind = "window" /\ f.pc = "between"
  BY NoTask DEF Activation, Activations, Kinds, LoopPcs
<1>5. stack' = Append(stack, f)
  BY DEF OpenWindow, Calling
<1> HIDE DEF f
<1>6. /\ stack' \in Seq(Activations) /\ Len(stack') = n + 1 /\ stack'[n + 1] = f
      /\ \A d \in 1 .. n : stack'[d] = stack[d]
  BY <1>1, <1>4, <1>5, AppendProperties
<1> DEFINE none == <<>>
<1>0. none \in Seq(IdleTasks) /\ Len(none) = 0 /\ NoRepeats(none) /\ Range(none) = {}
  BY NoTask
<1> HIDE DEF none
<1>7. /\ idle' \in Seq(Seq(IdleTasks)) /\ Len(idle') = w + 1 /\ idle'[w + 1] = none
      /\ \A l \in 1 .. w : idle'[l] = idle[l]
  <2>1. idle' = Append(idle, none)
    BY DEF OpenWindow, none
  <2> QED
    BY <1>0, <1>2, <2>1, AppendProperties
<1>8. ASSUME NEW d \in 0 .. n
      PROVE  WindowsOf(stack', d) = WindowsOf(stack, d)
  <2>1. d \in Nat /\ \A e \in 1 .. d : e \in 1 .. n
    BY <1>1
  <2> QED
    BY <1>6, <2>1, WindowsLocal
<1>9. WindowsOf(stack', n + 1) = w
  <2>1. WindowsOf(stack', n + 1) = WindowsOf(stack', n) + 1
    BY <1>1, <1>4, <1>6, WindowsStep
  <2> QED
    BY <1>1, <1>2, <1>8, <2>1
<1>10. \A d \in 1 .. n + 1 : /\ FrameOK(stack'[d], idle', WindowsOf(stack', d))
                             /\ stack'[d].kind = "main" <=> d = 1
  <2> TAKE d \in 1 .. n + 1
  <2>1. CASE d \in 1 .. n
    <3>1. stack[d].kind = "idle" => stack[d].level \in 1 .. w
      BY <1>1, <2>1, FrameLevel
    <3>2. WindowsOf(stack', d) = WindowsOf(stack, d) /\ stack'[d] = stack[d]
      BY <1>1, <1>6, <1>8, <2>1
    <3>3. FrameOK(stack[d], idle, WindowsOf(stack, d)) /\ (stack[d].kind = "main" <=> d = 1)
      BY <1>1, <2>1
    <3> HIDE DEF w
    <3>4. FrameOK(stack[d], idle', WindowsOf(stack, d))
      BY <1>7, <3>1, <3>3 DEF FrameOK
    <3> QED
      BY <3>2, <3>3, <3>4
  <2>2. CASE d = n + 1
    <3>1. FrameOK(f, idle', WindowsOf(stack', d))
      BY <1>4 DEF FrameOK, LoopPcs
    <3>2. d # 1 /\ f.kind # "main"
      BY <1>1, <1>4, <2>2
    <3> QED
      BY <1>6, <2>2, <3>1, <3>2
  <2> QED
    BY <1>1, <2>1, <2>2
<1> HIDE DEF n, w
<1>11. StackOK(stack', idle')
  <2>1. stack' # <<>>
    BY <1>1, <1>6, EmptySeq
  <2> QED
    BY <1>2, <1>3, <1>6, <1>7, <1>9, <1>10, <2>1 DEF StackOK
<1>12. UrgentOK(urgent, alive, owed, stack')
  BY <1>1, <1>4, <1>5, PushKeepsUrgent
<1>13. IdleOK(idle', installedAt)
  <2>1. \A l \in 1 .. w + 1 : l = w + 1 \/ l \in 1 .. w
    BY <1>2
  <2>2. \A l \in 1 .. w + 1 :
           /\ NoRepeats(idle'[l])
           /\ \A t \in Range(idle'[l]) : installedAt[t] >= l - 1
    BY <1>0, <1>1, <1>7, <2>1 DEF IdleOK, w
  <2>3. \A l, m \in 1 .. w + 1 : l # m => Range(idle'[l]) \cap Range(idle'[m]) = {}
    <3> TAKE l, m \in 1 .. w + 1
    <3> HAVE l # m
    <3>1. CASE l = w + 1 \/ m = w + 1
      BY <1>0, <1>7, <3>1
    <3>2. CASE l \in 1 .. w /\ m \in 1 .. w
      BY <1>1, <1>7, <3>2 DEF IdleOK, w
    <3> QED
      BY <2>1, <3>1, <3>2
  <2> QED
    BY <1>1, <1>7, <2>2, <2>3 DEF IdleOK
<1> QED
  BY <1>11, <1>12, <1>13 DEF LoopInv, OpenWindow

\* CloseWindow keeps the invariant of the loop.
LEMMA CloseWindowLoopInv ==
    ASSUME LoopInv, CloseWindow
    PROVE  LoopInv'
<1> DEFINE n == Len(stack) - 1
           b == Len(idle) - 1
           x == idle[b] \o idle[b + 1]
           low == SubSeq(idle, 1, b - 1)
<1>1. /\ StackOK(stack, idle) /\ UrgentOK(urgent, alive, owed, stack) /\ IdleOK(idle, installedAt)
      /\ stack \in Seq(Activations) /\ stack # <<>>
      /\ Len(stack) \in Nat /\ n \in Nat /\ n + 1 = Len(stack) /\ n >= 1
      /\ stack[n + 1].kind = "window"
      /\ \A d \in 1 .. n + 1 : /\ stack[d] \in Activations
                               /\ FrameOK(stack[d], idle, WindowsOf(stack, d))
  <2>1. Len(stack) \in Nat /\ Len(stack) > 1 /\ Top = stack[Len(stack)]
    BY TopProperties DEF LoopInv, CloseWindow, Top
  <2> QED
    BY <2>1, TopProperties DEF LoopInv, StackOK, CloseWindow
<1>2. /\ Len(idle) \in Nat /\ Len(idle) = WindowsOf(stack, n + 1) + 1
      /\ idle \in Seq(Seq(IdleTasks))
  BY <1>1, IdleLists DEF IdleOK
<1>3. b \in Nat /\ b >= 1 /\ b = WindowsOf(stack, n) + 1 /\ b + 1 = Len(idle)
  <2>1. WindowsOf(stack, n + 1) = WindowsOf(stack, n) + 1 /\ WindowsOf(stack, n) \in Nat
    BY <1>1, WindowsStep, WindowsFinite
  <2> QED
    BY <1>2, <2>1
<1>4. /\ b \in 1 .. b + 1 /\ b + 1 \in 1 .. b + 1
      /\ \A l \in 1 .. b + 1 : /\ idle[l] \in Seq(IdleTasks) /\ NoRepeats(idle[l])
                               /\ Len(idle[l]) \in Nat
  BY <1>3, IdleLists
<1>5. low \in Seq(Seq(IdleTasks)) /\ Len(low) = b - 1 /\ \A l \in 1 .. b - 1 : low[l] = idle[l]
  BY <1>2, <1>3, SubSeqProperties
<1>6. idle' = low \o <<x>>
  <2>1. Len(idle) - 1 # 0 /\ idle[Len(idle)] = idle[b + 1]
    BY <1>2, <1>3
  <2>2. idle' = SubSeq(idle, 1, b - 1) \o <<idle[b] \o idle[Len(idle)]>>
    BY <2>1 DEF CloseWindow, PopIdle, Last
  <2> QED
    BY <2>1, <2>2
<1> HIDE DEF low
<1>7. /\ x \in Seq(IdleTasks) /\ NoRepeats(x) /\ Len(x) = Len(idle[b]) + Len(idle[b + 1])
      /\ Range(x) = Range(idle[b]) \cup Range(idle[b + 1])
  <2>1. b # b + 1 /\ b \in 1 .. Len(idle) /\ b + 1 \in 1 .. Len(idle)
    BY <1>2, <1>3
  <2> HIDE DEF b
  <2>2. Range(idle[b]) \cap Range(idle[b + 1]) = {}
    BY <1>1, <2>1 DEF IdleOK
  <2> QED
    BY <1>4, <2>2, JoinedLists
<1>8. stack' = [d \in DOMAIN Front(stack) |->
           IF stack[d].kind = "idle" /\ stack[d].level = b
              /\ idle[b] = <<>> /\ idle[b + 1] # <<>>
           THEN [stack[d] EXCEPT !.i = TaskCursorAfterInsert(@, 1, 1)] ELSE stack[d]]
  BY <1>2, <1>3 DEF CloseWindow, PopIdle, Last
<1>9. DOMAIN Front(stack) = 1 .. n
  <2>1. stack[n + 1] \in Activations
    BY <1>1
  <2> QED
    BY <1>1, <2>1, FrontProperties
<1> HIDE DEF x, n, b
<1>10. /\ idle' \in Seq(Seq(IdleTasks)) /\ Len(idle') = b /\ idle'[b] = x
       /\ \A l \in 1 .. b - 1 : idle'[l] = idle[l]
  <2> DEFINE k == b - 1
  <2>1. k \in Nat /\ k + 1 = b
    BY <1>3
  <2>2. idle' = Append(low, x)
    BY <1>5, <1>6, <1>7, AppendIsConcat
  <2> HIDE DEF k
  <2>3. /\ Append(low, x) \in Seq(Seq(IdleTasks)) /\ Len(Append(low, x)) = k + 1
        /\ Append(low, x)[k + 1] = x
        /\ \A l \in 1 .. k : Append(low, x)[l] = low[l]
    <3>1. Len(low) = k
      BY <1>5 DEF k
    <3> QED
      BY <1>5, <1>7, <2>1, <3>1, AppendProperties
  <2> QED
    BY <1>5, <2>1, <2>2, <2>3 DEF k
<1>11. ASSUME NEW d \in 1 .. n
       PROVE  /\ stack'[d] \in Activations
              /\ FrameOK(stack'[d], idle', WindowsOf(stack, d))
              /\ stack'[d].kind = stack[d].kind
              /\ stack'[d].list = stack[d].list
  <2>1. d \in 1 .. Len(stack) /\ d \in 1 .. n + 1 /\ d \in Nat /\ d <= n
    BY <1>1
  <2>2. stack[d] \in Activations /\ FrameOK(stack[d], idle, WindowsOf(stack, d))
    BY <1>1, <2>1
  <2>3. CASE stack[d].kind # "idle"
    <3>1. stack'[d] = stack[d]
      BY <1>8, <1>9, <2>3
    <3> QED
      BY <2>2, <2>3, <3>1 DEF FrameOK
  <2>4. CASE stack[d].kind = "idle"
    <3> DEFINE l == stack[d].level
               c == stack[d].i
    <3>1. l = WindowsOf(stack, d) + 1 /\ l \in 1 .. b
      <4>1. l = WindowsOf(stack, d) + 1 /\ l \in 1 .. Len(idle)
        BY <1>1, <2>1, <2>4, FrameLevel
      <4>2. /\ WindowsOf(stack, d) \in Nat /\ WindowsOf(stack, n) \in Nat
            /\ WindowsOf(stack, d) <= WindowsOf(stack, n)
        BY <1>1, <2>1, WindowsFinite, WindowsMonotonic
      <4> QED
        BY <1>3, <4>1, <4>2
    <3>2. c \in Nat /\ c <= Len(idle[l]) /\ Len(idle[l]) \in Nat
      <4>1. c \in Nat /\ c <= Len(idle[l])
        BY <2>2, <2>4 DEF FrameOK, Activations
      <4> QED
        BY <1>3, <1>4, <3>1, <4>1
    <3> DEFINE moves == l = b /\ idle[b] = <<>> /\ idle[b + 1] # <<>>
    <3>3. CASE moves
      <4>1. c = 0 /\ TaskCursorAfterInsert(c, 1, 1) = 1
        <5>1. Len(idle[l]) = 0
          BY <3>3, NoTask
        <5> QED
          BY <3>2, <5>1 DEF TaskCursorAfterInsert, CursorAfterInsert
      <4>2. stack'[d] = [stack[d] EXCEPT !.i = 1]
        <5>1. stack'[d] = [stack[d] EXCEPT !.i = TaskCursorAfterInsert(@, 1, 1)]
          BY <1>8, <1>9, <2>4, <3>3
        <5> QED
          BY <2>2, <4>1, <5>1 DEF Activations
      <4>3. [stack[d] EXCEPT !.i = 1] \in Activations
        BY <2>2, MoveCursor
      <4>4. 1 <= Len(idle'[l])
        <5>1. Len(idle[b + 1]) > 0
          BY <1>4, <3>3, EmptySeq
        <5> QED
          BY <1>4, <1>7, <1>10, <3>3, <5>1
      <4> QED
        BY <2>2, <2>4, <4>2, <4>3, <4>4 DEF FrameOK, Activations
    <3>4. CASE ~ moves
      <4>1. stack'[d] = stack[d]
        BY <1>8, <1>9, <2>4, <3>4
      <4>2. Len(idle[l]) <= Len(idle'[l]) /\ Len(idle'[l]) \in Nat
        <5>1. CASE l = b
          <6>1. Len(idle'[b]) = Len(idle[b]) + Len(idle[b + 1])
            BY <1>7, <1>10
          <6>2. Len(idle[b]) \in Nat /\ Len(idle[b + 1]) \in Nat
            BY <1>4
          <6>3. Len(idle[b]) <= Len(idle'[b]) /\ Len(idle'[b]) \in Nat
            <7> DEFINE p == Len(idle[b])
                       q == Len(idle[b + 1])
                       r == Len(idle'[b])
            <7>1. p \in Nat /\ q \in Nat /\ r = p + q
              BY <6>1, <6>2
            <7> HIDE DEF p, q, r
            <7>2. p <= r /\ r \in Nat
              BY <7>1
            <7> QED
              BY <7>2 DEF p, r
          <6> QED
            BY <5>1, <6>3
        <5>2. CASE l # b
          <6>1. l \in 1 .. b - 1
            BY <1>3, <3>1, <5>2
          <6> QED
            BY <1>10, <3>2, <6>1
        <5> QED
          BY <5>1, <5>2
      <4>3. c <= Len(idle'[l])
        BY <3>2, <4>2
      <4> QED
        BY <2>2, <2>4, <4>1, <4>3 DEF FrameOK
    <3> QED
      BY <3>3, <3>4
  <2> QED
    BY <2>3, <2>4
<1>12. stack' \in Seq(Activations) /\ Len(stack') = n
  <2>1. stack' \in [1 .. n -> Activations]
    BY <1>8, <1>9, <1>11
  <2> QED
    BY <1>1, <2>1, FunctionIsSeq
<1>13. StackOK(stack', idle')
  <2> DEFINE su == stack'
             it == idle'
  <2>1. n \in 1 .. Len(stack) /\ Len(it) = WindowsOf(stack, n) + 1
    BY <1>1, <1>3, <1>10
  <2>2. \A d \in 1 .. n : /\ FrameOK(su[d], it, WindowsOf(stack, d))
                          /\ su[d].kind = "window" <=> stack[d].kind = "window"
                          /\ su[d].kind = "main" <=> stack[d].kind = "main"
    BY <1>11
  <2>3. su \in Seq(Activations) /\ Len(su) = n
    BY <1>12
  <2> HIDE DEF su, it
  <2>4. StackOK(su, it)
    BY <1>1, <2>1, <2>2, <2>3, MapStack
  <2> QED
    BY <2>4 DEF su, it
<1>14. UrgentOK(urgent, alive, owed, stack')
  <2>1. \A d \in n + 1 .. Len(stack) : d = n + 1
    BY <1>1
  <2>2. \A d \in 1 .. n : stack[d].kind = "urgent" => stack'[d] = stack[d]
    BY <1>8, <1>9
  <2> DEFINE su == stack'
  <2>3. /\ Len(su) = n
        /\ \A d \in 1 .. n : su[d].kind = stack[d].kind /\ (stack[d].kind = "urgent" => su[d] = stack[d])
    BY <1>11, <1>12, <2>2
  <2> HIDE DEF su
  <2>4. \A d \in Len(su) + 1 .. Len(stack) : stack[d].kind # "urgent"
    BY <1>1, <2>1, <2>3
  <2>5. UrgentOK(urgent, alive, owed, su)
    BY <1>1, <2>3, <2>4, UrgentKept
  <2> QED
    BY <2>5 DEF su
<1>15. IdleOK(idle', installedAt')
  <2>1. \A l \in 1 .. b : /\ l \in 1 .. b + 1 /\ l # b + 1 /\ l - 1 <= b
                          /\ l = b \/ l \in 1 .. b - 1
    BY <1>3
  <2>2. /\ \A l \in 1 .. b + 1 : \A m \in 1 .. b + 1 :
              l # m => Range(idle[l]) \cap Range(idle[m]) = {}
        /\ \A l \in 1 .. b + 1 : \A t \in Range(idle[l]) : installedAt[t] >= l - 1
        /\ installedAt \in [IdleTasks -> 0 .. MaxWindows]
    BY <1>1, <1>3 DEF IdleOK
  <2>3. ASSUME NEW l \in 1 .. b
        PROVE  /\ NoRepeats(idle'[l])
               /\ Range(idle'[l]) = IF l = b THEN Range(idle[b]) \cup Range(idle[b + 1])
                                    ELSE Range(idle[l])
    BY <1>4, <1>7, <1>10, <2>1
  <2>6. b = OpenWindows
    <3>1. OpenWindows = WindowsOf(stack, n + 1)
      BY <1>1 DEF OpenWindows, Windows, WindowsOf
    <3>2. WindowsOf(stack, n + 1) \in Nat
      BY <1>1, WindowsFinite
    <3> QED
      BY <1>2, <1>3, <3>1, <3>2
  <2>7. /\ installedAt' \in [IdleTasks -> 0 .. MaxWindows]
        /\ \A t \in IdleTasks : installedAt'[t] = IF installedAt[t] = b THEN b - 1 ELSE installedAt[t]
    <3>1. installedAt' = [t \in IdleTasks |-> IF installedAt[t] = b THEN b - 1 ELSE installedAt[t]]
      BY <2>6 DEF CloseWindow
    <3>2. \A t \in IdleTasks : installedAt[t] = b => b - 1 \in 0 .. MaxWindows
      BY <1>3, <2>2, EventLoopAssumption
    <3> QED
      BY <2>2, <3>1, <3>2
  <2>4. ASSUME NEW l \in 1 .. b, NEW t \in Range(idle'[l])
        PROVE  installedAt'[t] >= l - 1
    <3>1. PICK m \in 1 .. b + 1 : t \in Range(idle[m]) /\ l <= m
      <4>1. CASE t \in Range(idle[l])
        BY <1>3, <2>1, <4>1
      <4>2. CASE t \notin Range(idle[l])
        <5>1. l = b /\ t \in Range(idle[b + 1])
          BY <2>3, <2>4, <4>2
        <5> QED
          BY <1>3, <1>4, <5>1
      <4> QED
        BY <4>1, <4>2
    <3>2. installedAt[t] >= m - 1 /\ t \in IdleTasks
      <4>1. t \in IdleTasks
        BY <1>4, <3>1, ElementOfSeq, LenProperties DEF Range
      <4> QED
        BY <2>2, <3>1, <4>1
    <3>3. installedAt[t] \in Int /\ l \in Int /\ m \in Int /\ l <= b /\ b \in Int
      BY <1>3, <2>2, <3>1, <3>2, EventLoopAssumption
    <3>4. installedAt'[t] = IF installedAt[t] = b THEN b - 1 ELSE installedAt[t]
      BY <2>7, <3>2
    <3> QED
      BY <3>1, <3>2, <3>3, <3>4
  <2>5. ASSUME NEW l \in 1 .. b, NEW m \in 1 .. b, l # m
        PROVE  Range(idle'[l]) \cap Range(idle'[m]) = {}
    <3>1. /\ Range(idle[l]) \cap Range(idle[m]) = {}
          /\ Range(idle[l]) \cap Range(idle[b + 1]) = {}
          /\ Range(idle[b + 1]) \cap Range(idle[m]) = {}
      BY <1>4, <2>1, <2>2, <2>5
    <3> QED
      BY <2>3, <2>5, <3>1
  <2> QED
    BY <1>10, <2>3, <2>4, <2>5, <2>7 DEF IdleOK
<1> QED
  BY <1>13, <1>14, <1>15 DEF LoopInv, CloseWindow

-----------------------------------------------------------------------------
(* The invariant, and what it says.                                        *)

\* The invariant of the loop holds at the start.
LEMMA InitLoopInv == Init => LoopInv
<1> SUFFICES ASSUME Init
             PROVE  LoopInv
  OBVIOUS
<1> DEFINE f == Activation("main", "dispatch", <<>>, 0)
<1>1. f \in Activations /\ f.kind = "main" /\ f.pc = "dispatch"
  BY NoTask DEF Activation, Activations, Kinds, LoopPcs
<1>2. stack = <<f>>
  BY DEF Init
<1> HIDE DEF f
<1>3. stack \in Seq(Activations) /\ Len(stack) = 1 /\ stack[1] = f
  BY <1>1, <1>2
<1>4. WindowsOf(stack, 0 + 1) = WindowsOf(stack, 0) + 0
  BY <1>1, <1>3, WindowsStep
<1>5. WindowsOf(stack, 1) = 0
  BY <1>4, WindowsNone
<1> DEFINE none == <<>>
<1>6. none \in Seq(IdleTasks) /\ NoRepeats(none) /\ Range(none) = {}
  BY NoTask
<1> HIDE DEF none
<1>7. idle = <<none>>
  BY DEF Init, none
<1>8. idle \in Seq(Seq(IdleTasks)) /\ Len(idle) = 1 /\ idle[1] = none
  BY <1>6, <1>7
<1>9. StackOK(stack, idle)
  <2>1. FrameOK(stack[1], idle, WindowsOf(stack, 1))
    BY <1>1, <1>3 DEF FrameOK, LoopPcs
  <2>2. stack # <<>>
    BY SMTT(40), <1>3, EmptySeq
  <2> QED
    BY <1>1, <1>3, <1>5, <1>8, <2>1, <2>2, EventLoopAssumption DEF StackOK
<1>10. IdleOK(idle, installedAt)
  BY <1>6, <1>8, EventLoopAssumption DEF IdleOK, Init
<1>11. UrgentOK(urgent, alive, owed, stack)
  <2>1. /\ urgent \in Seq(UrgentTasks) /\ NoRepeats(urgent) /\ Range(urgent) = {}
        /\ alive \subseteq UrgentTasks
    BY NoTask DEF Init
  <2>2. owed = [t \in UrgentTasks |-> 0]
    BY DEF Init
  <2>3. \A t : Passes(t, stack) = {}
    BY <1>1, <1>3 DEF Passes, Awaits
  <2>4. \A t : Cardinality(Passes(t, stack)) = 0
    BY <2>3, FS_EmptySet
  <2> QED
    BY <2>1, <2>2, <2>4 DEF UrgentOK
<1> QED
  BY <1>9, <1>10, <1>11 DEF LoopInv, Init

\* Every step keeps the invariant of the loop.
LEMMA NextLoopInv == LoopInv /\ [Next]_vars => LoopInv'
<1> SUFFICES ASSUME LoopInv, [Next]_vars
             PROVE  LoopInv'
  OBVIOUS
<1>1. CASE \E t \in UrgentTasks : Go(t) \/ DeleteUrgent(t)
  BY <1>1, GoLoopInv, DeleteUrgentLoopInv
<1>2. CASE \E t \in IdleTasks : InstallIdle(t) \/ RemoveIdle(t)
  BY <1>2, InstallIdleLoopInv, RemoveIdleLoopInv
<1>3. CASE OpenWindow
  BY <1>3, OpenWindowLoopInv
<1>4. CASE CloseWindow
  BY <1>4, CloseWindowLoopInv
<1>5. CASE EnterWindow
  BY <1>5, EnterWindowLoopInv
<1>6. CASE Dispatched
  BY <1>6, DispatchedLoopInv
<1>7. CASE CallIdle
  BY <1>7, CallIdleLoopInv
<1>8. CASE PerformIdle
  BY <1>8, PerformIdleLoopInv
<1>9. CASE EndIdle
  BY <1>9, EndIdleLoopInv
<1>10. CASE CallUrgent
  BY <1>10, CallUrgentLoopInv
<1>11. CASE PerformUrgent
  BY <1>11, PerformUrgentLoopInv
<1>12. CASE EndUrgent
  BY <1>12, EndUrgentLoopInv
<1>13. CASE BroadcastSignal
  BY <1>13, BroadcastSignalLoopInv
<1>14. CASE LeaveSignalLoop
  BY <1>14, LeaveSignalLoopLoopInv
<1>15. CASE ForgetSignals
  BY <1>15, ForgetSignalsLoopInv
<1>16. CASE Return
  BY <1>16, ReturnLoopInv
<1>17. CASE EndEvent
  BY <1>17, EndEventLoopInv
<1>18. CASE Raise
  BY <1>18 DEF LoopInv, Raise, taskVars
<1>19. CASE UNCHANGED vars
  BY <1>19 DEF LoopInv, vars, taskVars
<1> QED
  BY <1>1, <1>2, <1>3, <1>4, <1>5, <1>6, <1>7, <1>8, <1>9, <1>10, <1>11, <1>12, <1>13,
     <1>14, <1>15, <1>16, <1>17, <1>18, <1>19
     DEF Next, Application, Library

\* The list of signals is in order at the start.
LEMMA InitListOK == Init => ListOK
BY EventLoopAssumption DEF Init, ListOK

\* Signals are appended with numbers that grow, and forgotten all at once.
LEMMA NextListOK == ListOK /\ [Next]_vars => ListOK'
<1> SUFFICES ASSUME ListOK, [Next]_vars
             PROVE  ListOK'
  OBVIOUS
<1>1. CASE UNCHANGED <<raised, pendingSignalCount, signalList>>
  BY <1>1 DEF ListOK
<1>2. CASE ForgetSignals
  BY <1>2, EventLoopAssumption DEF ListOK, ForgetSignals
<1>3. CASE Raise
  <2> DEFINE p == pendingSignalCount
             r == raised
  <2>1. /\ r \in Nat /\ raised' = r + 1 /\ raised' \in 0 .. MaxRaised
        /\ p \in 0 .. SignalListSize /\ SignalListSize \in Nat /\ MaxRaised \in Nat
        /\ signalList \in [1 .. SignalListSize -> 0 .. MaxRaised]
        /\ \A k \in 1 .. p :
              signalList[k] <= r /\ \A j \in 1 .. k - 1 : signalList[j] < signalList[k]
    BY <1>3, EventLoopAssumption DEF ListOK, Raise
  <2>2. \A k \in 1 .. p : signalList[k] \in Int
    BY <2>1
  <2>3. CASE p < SignalListSize
    <3>1. /\ pendingSignalCount' = p + 1
          /\ signalList' = [signalList EXCEPT ![p + 1] = r + 1]
      BY <1>3, <2>1, <2>3 DEF Raise
    <3> HIDE DEF p, r
    <3>2. signalList' \in [1 .. SignalListSize -> 0 .. MaxRaised] /\ p + 1 \in 0 .. SignalListSize
      BY <2>1, <2>3, <3>1
    <3>3. signalList'[p + 1] = r + 1 /\ \A k \in 1 .. p : signalList'[k] = signalList[k]
      BY <2>1, <2>3, <3>1
    <3>4. ASSUME NEW k \in 1 .. p + 1
          PROVE  /\ signalList'[k] <= r + 1
                 /\ \A j \in 1 .. k - 1 : signalList'[j] < signalList'[k]
      <4>1. CASE k = p + 1
        BY <2>1, <2>2, <3>3, <4>1
      <4>2. CASE k # p + 1
        <5>1. k \in 1 .. p /\ \A j \in 1 .. k - 1 : j \in 1 .. p
          BY <2>1, <4>2
        <5> QED
          BY <2>1, <2>2, <3>3, <5>1
      <4> QED
        BY <4>1, <4>2
    <3> QED
      BY <2>1, <3>1, <3>2, <3>4 DEF ListOK
  <2>4. CASE ~ (p < SignalListSize)
    <3>1. pendingSignalCount' = p /\ signalList' = signalList
      BY <1>3, <2>4 DEF Raise
    <3>2. \A k \in 1 .. p : signalList[k] <= r + 1
      BY <2>1, <2>2
    <3> QED
      BY <2>1, <3>1, <3>2 DEF ListOK
  <2> QED
    BY <2>3, <2>4
<1> QED
  BY <1>1, <1>2, <1>3
     DEF Next, vars, taskVars, signalVars, Application, Library, Go, DeleteUrgent, InstallIdle,
         RemoveIdle, OpenWindow, CloseWindow, EnterWindow, Dispatched, CallIdle, PerformIdle,
         EndIdle, CallUrgent, PerformUrgent, EndUrgent, BroadcastSignal, LeaveSignalLoop, Return,
         EndEvent

\* The invariant of the loop holds throughout.
LEMMA AlwaysLoopInv == Spec => [](LoopInv /\ ListOK)
<1>1. Init => LoopInv /\ ListOK
  BY InitLoopInv, InitListOK
<1>2. (LoopInv /\ ListOK) /\ [Next]_vars => (LoopInv /\ ListOK)'
  BY NextLoopInv, NextListOK
<1> QED
  BY <1>1, <1>2, PTL DEF Spec

\* Every activation is one the loops can be in: the pass over idle tasks has a list
\* that is there and a cursor inside it, however lists are put aside and merged.
THEOREM TypeCorrect == Spec => []TypeOK
<1>1. ASSUME LoopInv, ListOK
      PROVE  TypeOK
  <2>1. DOMAIN stack = 1 .. Len(stack) /\ DOMAIN idle = 1 .. Len(idle)
    BY <1>1, TopProperties, IdleLists DEF LoopInv
  <2>2. ASSUME NEW d \in 1 .. Len(stack)
        PROVE  /\ stack[d].kind \in {"main", "window", "idle", "urgent", "signals"}
               /\ stack[d].kind = "main" <=> d = 1
               /\ stack[d].kind = "idle" =>
                     stack[d].level \in DOMAIN idle /\ stack[d].i \in 0 .. Len(idle[stack[d].level])
               /\ stack[d].kind = "urgent" => stack[d].i \in 0 .. Len(stack[d].list)
    <3>1. /\ stack[d] \in Activations /\ stack[d].i \in Nat /\ stack[d].list \in Seq(UrgentTasks)
          /\ stack[d].kind \in Kinds /\ (stack[d].kind = "main" <=> d = 1)
          /\ FrameOK(stack[d], idle, WindowsOf(stack, d))
      BY <1>1, TopProperties DEF LoopInv, StackOK, Activations
    <3>2. CASE stack[d].kind = "idle"
      <4>1. stack[d].level \in 1 .. Len(idle)
        BY <1>1, <3>2, FrameLevel DEF LoopInv
      <4>2. Len(idle[stack[d].level]) \in Nat /\ stack[d].i <= Len(idle[stack[d].level])
        BY <1>1, <3>1, <3>2, <4>1, IdleLists DEF FrameOK
      <4> QED
        BY <2>1, <3>1, <3>2, <4>1, <4>2 DEF Kinds
    <3>3. CASE stack[d].kind = "urgent"
      <4>1. Len(stack[d].list) \in Nat /\ stack[d].i <= Len(stack[d].list)
        BY <3>1, <3>3, LenProperties DEF FrameOK
      <4> QED
        BY <3>1, <3>3, <4>1 DEF Kinds
    <3> QED
      BY <3>1, <3>2, <3>3 DEF Kinds
  <2> QED
    BY <1>1, <2>1, <2>2 DEF TypeOK, LoopInv, ListOK, IdleOK, UrgentOK
<1> QED
  BY <1>1, AlwaysLoopInv, PTL

\* PopIdleTaskStack and PopAllIdleTaskStack may merge lists without looking for
\* duplicates: no idle task is ever on two, nor twice on one.
THEOREM NeverOnTwoLists == Spec => []OneListPerIdleTask
<1>1. ASSUME LoopInv
      PROVE  OneListPerIdleTask
  <2>1. DOMAIN idle = 1 .. Len(idle)
    BY <1>1, IdleLists
  <2> SUFFICES ASSUME NEW l \in 1 .. Len(idle), NEW m \in 1 .. Len(idle),
                      NEW j \in DOMAIN idle[l], NEW k \in DOMAIN idle[m],
                      idle[l][j] = idle[m][k]
               PROVE  l = m /\ j = k
    BY <2>1 DEF OneListPerIdleTask
  <2>2. idle[l][j] \in Range(idle[l]) /\ idle[m][k] \in Range(idle[m])
    BY DEF Range
  <2>3. l = m
    BY <1>1, <2>2 DEF LoopInv, IdleOK
  <2>4. DOMAIN idle[l] = 1 .. Len(idle[l]) /\ NoRepeats(idle[l])
    BY <1>1, IdleLists
  <2> QED
    BY <2>3, <2>4 DEF NoRepeats
<1> QED
  BY <1>1, AlwaysLoopInv, PTL

\* Whatever blocking window was opened after an idle task was installed is gone when
\* the task is performed, so that it may delete the objects the window works on.
THEOREM IdleTasksAreSafe == Spec => []SafeToPerform
<1>1. ASSUME LoopInv
      PROVE  SafeToPerform
  <2>1. DOMAIN stack = 1 .. Len(stack)
    BY <1>1, TopProperties DEF LoopInv
  <2> SUFFICES ASSUME NEW d \in 1 .. Len(stack), stack[d].kind = "idle",
                      stack[d].i < Len(idle[stack[d].level])
               PROVE  installedAt[idle[stack[d].level][stack[d].i + 1]] >= Windows(d)
    BY <2>1 DEF SafeToPerform
  <2> DEFINE l == stack[d].level
             k == stack[d].i + 1
  <2>2. l = WindowsOf(stack, d) + 1 /\ l \in 1 .. Len(idle)
    BY <1>1, FrameLevel DEF LoopInv
  <2>3. WindowsOf(stack, d) \in Nat
    BY <1>1, TopProperties DEF LoopInv
  <2>4. DOMAIN idle[l] = 1 .. Len(idle[l]) /\ Len(idle[l]) \in Nat
    BY <1>1, <2>2, IdleLists
  <2>5. stack[d].i \in Nat
    BY <1>1, TopProperties DEF LoopInv, Activations
  <2>6. k \in DOMAIN idle[l]
    BY <2>4, <2>5
  <2>7. idle[l][k] \in Range(idle[l])
    BY <2>6 DEF Range
  <2>8. installedAt[idle[l][k]] >= l - 1
    BY <1>1, <2>2, <2>7 DEF LoopInv, IdleOK
  <2>9. Windows(d) = WindowsOf(stack, d)
    BY DEF Windows, WindowsOf
  <2> QED
    BY <2>2, <2>3, <2>8, <2>9
<1> QED
  BY <1>1, AlwaysLoopInv, PTL

\* The places of a task on a list without repetitions are one or none.
LEMMA OnePlace ==
    ASSUME NEW S, NEW s \in Seq(S), NoRepeats(s), NEW t
    PROVE  Cardinality({k \in DOMAIN s : s[k] = t}) = IF t \in Range(s) THEN 1 ELSE 0
<1> DEFINE places == {k \in DOMAIN s : s[k] = t}
<1>1. DOMAIN s = 1 .. Len(s)
  BY LenProperties
<1>2. CASE t \in Range(s)
  <2>1. PICK k \in DOMAIN s : s[k] = t
    BY <1>2 DEF Range
  <2>2. places = {k}
    BY <1>1, <2>1 DEF NoRepeats
  <2> HIDE DEF places
  <2>3. Cardinality(places) = 1
    BY <2>2, FS_Singleton
  <2> QED
    BY <1>2, <2>3 DEF places
<1>3. CASE t \notin Range(s)
  <2>1. places = {}
    BY <1>3 DEF Range
  <2> HIDE DEF places
  <2>2. Cardinality(places) = 0
    BY <2>1, FS_EmptySet
  <2> QED
    BY <1>3, <2>2 DEF places
<1> QED
  BY <1>2, <1>3

\* However passes over urgent tasks nest, in the loops of blocking windows that urgent
\* tasks open, and also of a task that is installed again while it is performed: every
\* installation is followed by one call of Perform, unless the task is deleted before.
THEOREM PerformedOnce == Spec => []UrgentOnce
<1>1. ASSUME LoopInv
      PROVE  UrgentOnce
  <2>1. /\ DOMAIN stack = 1 .. Len(stack) /\ UrgentOK(urgent, alive, owed, stack)
        /\ Len(stack) \in Nat
        /\ \A d \in 1 .. Len(stack) : stack[d] \in Activations
    BY <1>1, TopProperties DEF LoopInv
  <2> SUFFICES ASSUME NEW t \in UrgentTasks
               PROVE  /\ Cardinality(ToPerform(t)) = owed[t]
                      /\ Cardinality({k \in DOMAIN urgent : urgent[k] = t}) <= 1
                      /\ \A d \in Taken(t) :
                            Cardinality({k \in DOMAIN stack[d].list : stack[d].list[k] = t}) = 1
    BY DEF UrgentOnce
  <2>2. Cardinality({k \in DOMAIN urgent : urgent[k] = t}) = IF t \in Range(urgent) THEN 1 ELSE 0
    BY <2>1, OnePlace DEF UrgentOK
  <2>3. ASSUME NEW d \in Taken(t)
        PROVE  Cardinality({k \in DOMAIN stack[d].list : stack[d].list[k] = t}) = 1
    <3>1. /\ d \in 1 .. Len(stack) /\ stack[d].kind = "urgent"
          /\ t \in Range(stack[d].list)
      BY <2>1 DEF Taken
    <3>2. stack[d].list \in Seq(UrgentTasks)
      BY <2>1, <3>1 DEF Activations
    <3>3. NoRepeats(stack[d].list)
      BY <1>1, <3>1 DEF LoopInv, StackOK, FrameOK
    <3> QED
      BY <3>1, <3>2, <3>3, OnePlace
  <2>4. \A d \in 0 .. Len(stack) : d = 0 \/ d \in 1 .. Len(stack)
    BY <2>1
  <2>5. 0 \in 0 .. Len(stack) /\ 0 \notin 1 .. Len(stack)
        /\ \A d \in 1 .. Len(stack) : d \in 0 .. Len(stack) /\ d # 0
    BY <2>1
  <2>6. /\ IsFiniteSet(Passes(t, stack)) /\ Cardinality(Passes(t, stack)) \in Nat
        /\ 0 \notin Passes(t, stack)
    BY <2>1, <2>5, PassesFinite DEF Passes
  <2>7. Cardinality(ToPerform(t)) = owed[t]
    <3>1. CASE t \in Range(urgent)
      <4>1. ToPerform(t) = Passes(t, stack) \cup {0}
        BY <2>4, <2>5, <3>1 DEF ToPerform, Passes
      <4>2. Cardinality(ToPerform(t)) = Cardinality(Passes(t, stack)) + 1
        BY <2>6, <4>1, FS_AddElement
      <4> QED
        BY <2>1, <3>1, <4>2 DEF UrgentOK
    <3>2. CASE t \notin Range(urgent)
      <4>1. ToPerform(t) = Passes(t, stack)
        BY <2>4, <2>5, <3>2 DEF ToPerform, Passes
      <4> QED
        BY <2>1, <2>6, <3>2, <4>1 DEF UrgentOK
    <3> QED
      BY <3>1, <3>2
  <2> QED
    BY <2>2, <2>3, <2>7
<1> QED
  BY <1>1, AlwaysLoopInv, PTL

-----------------------------------------------------------------------------
(* The order of the signals.                                               *)

\* What At leaves alone.
LEMMA AtShape ==
    ASSUME LoopInv, NEW p,
           p \in LoopPcs \cup {"next", "perform", "check", "connect", "test", "broadcast", "reset"}, At(p)
    PROVE  /\ Len(stack') = Len(stack)
           /\ \A d \in 1 .. Len(stack) :
                 /\ stack'[d].kind = stack[d].kind /\ stack'[d].i = stack[d].i
                 /\ stack'[d].pc = IF d = Len(stack) THEN p ELSE stack[d].pc
<1> DEFINE f == [Top EXCEPT !.pc = p]
           n == Len(stack)
<1>1. /\ stack \in Seq(Activations) /\ stack # <<>> /\ Top \in Activations
      /\ Top = stack[n] /\ n \in Nat /\ n >= 1
  BY TopProperties DEF LoopInv, StackOK, Top
<1>2. f \in Activations
  BY <1>1, MoveActivation
<1>3. f.kind = Top.kind /\ f.pc = p /\ f.i = Top.i
  BY <1>1, <1>2 DEF Activations
<1>4. stack' = Front(stack) \o <<f>>
  BY DEF At
<1> HIDE DEF f
<1>5. /\ Len(Front(stack) \o <<f>>) = n /\ (Front(stack) \o <<f>>)[n] = f
      /\ \A d \in 1 .. n - 1 : (Front(stack) \o <<f>>)[d] = stack[d]
  BY <1>1, <1>2, FrontProperties
<1> HIDE DEF n
<1>6. ASSUME NEW d \in 1 .. n
      PROVE  /\ stack'[d].kind = stack[d].kind /\ stack'[d].i = stack[d].i
             /\ stack'[d].pc = IF d = n THEN p ELSE stack[d].pc
  <2>1. CASE d = n
    BY <1>1, <1>3, <1>4, <1>5, <2>1
  <2>2. CASE d # n
    <3>1. d \in 1 .. n - 1
      BY <1>1, <2>2
    <3> QED
      BY <1>4, <1>5, <2>2, <3>1
  <2> QED
    BY <2>1, <2>2
<1> QED
  BY <1>4, <1>5, <1>6 DEF n

\* What the fetch of an element leaves alone.
LEMMA StepShape ==
    ASSUME LoopInv, NEW p, p \in {"perform", "broadcast"},
           stack' = Front(stack) \o <<[Top EXCEPT !.pc = p, !.i = @ + 1]>>
    PROVE  /\ Len(stack') = Len(stack)
           /\ \A d \in 1 .. Len(stack) :
                 /\ stack'[d].kind = stack[d].kind
                 /\ stack'[d].i = IF d = Len(stack) THEN stack[d].i + 1 ELSE stack[d].i
                 /\ stack'[d].pc = IF d = Len(stack) THEN p ELSE stack[d].pc
<1> DEFINE g == [Top EXCEPT !.pc = p]
           f == [g EXCEPT !.i = Top.i + 1]
           n == Len(stack)
<1>1. /\ stack \in Seq(Activations) /\ stack # <<>> /\ Top \in Activations
      /\ Top = stack[n] /\ n \in Nat /\ n >= 1
  BY TopProperties DEF LoopInv, StackOK, Top
<1>0. Top.i \in Nat /\ Top.i + 1 \in Nat
  BY <1>1 DEF Activations
<1>2. g \in Activations
  BY <1>1, MoveActivation
<1>3. g.kind = Top.kind /\ g.pc = p /\ g.i = Top.i
  BY <1>1, <1>2 DEF Activations
<1>4. stack' = Front(stack) \o <<f>>
  BY <1>1 DEF Activations
<1> HIDE DEF g
<1>5. f \in Activations
  BY <1>0, <1>2, MoveCursor
<1>6. f.kind = Top.kind /\ f.pc = p /\ f.i = Top.i + 1
  BY <1>2, <1>3, <1>5 DEF Activations
<1> HIDE DEF f
<1>7. /\ Len(Front(stack) \o <<f>>) = n /\ (Front(stack) \o <<f>>)[n] = f
      /\ \A d \in 1 .. n - 1 : (Front(stack) \o <<f>>)[d] = stack[d]
  BY <1>1, <1>5, FrontProperties
<1> HIDE DEF n
<1>8. ASSUME NEW d \in 1 .. n
      PROVE  /\ stack'[d].kind = stack[d].kind
             /\ stack'[d].i = IF d = n THEN stack[d].i + 1 ELSE stack[d].i
             /\ stack'[d].pc = IF d = n THEN p ELSE stack[d].pc
  <2>1. CASE d = n
    BY <1>1, <1>4, <1>6, <1>7, <2>1
  <2>2. CASE d # n
    <3>1. d \in 1 .. n - 1
      BY <1>1, <2>2
    <3> QED
      BY <1>4, <1>7, <2>2, <3>1
  <2> QED
    BY <2>1, <2>2
<1> QED
  BY <1>4, <1>7, <1>8 DEF n

\* What a call, in place of the running activation f and another one, leaves alone.
LEMMA CallShape ==
    ASSUME LoopInv, NEW p, p \in {"urgent", "end"}, NEW g \in Activations,
           stack' = Front(stack) \o <<[Top EXCEPT !.pc = p], g>>
    PROVE  /\ Len(stack') = Len(stack) + 1
           /\ stack'[Len(stack) + 1] = g
           /\ \A d \in 1 .. Len(stack) :
                 /\ stack'[d].kind = stack[d].kind /\ stack'[d].i = stack[d].i
                 /\ stack'[d].pc = IF d = Len(stack) THEN p ELSE stack[d].pc
<1> DEFINE f == [Top EXCEPT !.pc = p]
           n == Len(stack)
           su == Front(stack) \o <<f>>
<1>1. /\ stack \in Seq(Activations) /\ stack # <<>> /\ Top \in Activations
      /\ Top = stack[n] /\ n \in Nat /\ n >= 1
  BY TopProperties DEF LoopInv, StackOK, Top
<1>2. f \in Activations
  BY <1>1, MoveActivation DEF LoopPcs
<1>3. f.kind = Top.kind /\ f.pc = p /\ f.i = Top.i
  BY <1>1, <1>2 DEF Activations
<1>4. stack' = Append(su, g)
  BY <1>1, <1>2, FrontAndTwo
<1> HIDE DEF f
<1>5. su \in Seq(Activations) /\ Len(su) = n /\ su[n] = f /\ \A d \in 1 .. n - 1 : su[d] = stack[d]
  BY <1>1, <1>2, FrontProperties
<1> HIDE DEF n, su
<1>6. /\ Len(stack') = n + 1 /\ stack'[n + 1] = g
      /\ \A d \in 1 .. n : stack'[d] = su[d]
  <2>1. /\ Len(Append(su, g)) = n + 1 /\ Append(su, g)[n + 1] = g
        /\ \A d \in 1 .. n : Append(su, g)[d] = su[d]
    BY <1>1, <1>5, AppendProperties
  <2> QED
    BY <1>4, <2>1
<1>7. ASSUME NEW d \in 1 .. n
      PROVE  /\ stack'[d].kind = stack[d].kind /\ stack'[d].i = stack[d].i
             /\ stack'[d].pc = IF d = n THEN p ELSE stack[d].pc
  <2>1. CASE d = n
    BY <1>1, <1>3, <1>5, <1>6, <2>1
  <2>2. CASE d # n
    <3>1. d \in 1 .. n - 1
      BY <1>1, <2>2
    <3> QED
      BY <1>5, <1>6, <2>2, <3>1
  <2> QED
    BY <2>1, <2>2
<1> QED
  BY <1>6, <1>7 DEF n

\* A pass that returns.
LEMMA PopShape ==
    ASSUME LoopInv, stack' = Front(stack)
    PROVE  /\ Len(stack') = Len(stack) - 1
           /\ \A d \in 1 .. Len(stack) - 1 : stack'[d] = stack[d]
<1>1. /\ stack \in Seq(Activations) /\ stack # <<>> /\ Top \in Activations
  BY TopProperties DEF LoopInv, StackOK, Top
<1>2. /\ Len(Front(stack)) = Len(stack) - 1
      /\ \A d \in 1 .. Len(stack) - 1 : Front(stack)[d] = stack[d]
  BY <1>1, FrontProperties
<1> QED
  BY <1>2

\* What changed the cursors only.
LEMMA CursorShape ==
    ASSUME LoopInv, NEW t, NEW inserted \in BOOLEAN, stack' = CursorsAfter(t, inserted)
    PROVE  /\ Len(stack') = Len(stack)
           /\ \A d \in 1 .. Len(stack) :
                 /\ stack'[d].kind = stack[d].kind /\ stack'[d].pc = stack[d].pc
                 /\ stack[d].kind # "idle" => stack'[d] = stack[d]
<1>1. /\ DOMAIN stack = 1 .. Len(stack) /\ Len(stack) \in Nat
      /\ \A d \in 1 .. Len(stack) : stack[d] \in Activations
  BY TopProperties DEF LoopInv
<1>2. Len(stack') = Len(stack)
  <2>1. DOMAIN stack' = 1 .. Len(stack) /\ stack' = [d \in 1 .. Len(stack) |-> stack'[d]]
    BY <1>1 DEF CursorsAfter
  <2>2. stack' \in [1 .. Len(stack) -> {stack'[d] : d \in 1 .. Len(stack)}]
    BY <2>1
  <2> QED
    BY <1>1, <2>2, FunctionIsSeq
<1> QED
  BY <1>1, <1>2 DEF CursorsAfter, Activations

\* Passes over the signals neither begin nor end, nor go on.
SignalPassesStay ==
    /\ \A d \in 1 .. Len(stack') :
          stack'[d].kind = "signals" =>
             d \in 1 .. Len(stack) /\ stack[d].kind = "signals" /\ stack'[d].i = stack[d].i
    /\ \A d \in 1 .. Len(stack) :
          stack[d].kind = "signals" => d \in 1 .. Len(stack') /\ stack'[d].kind = "signals"

\* A step that leaves the passes over signals alone keeps what they have delivered.
LEMMA DeliveryStays ==
    ASSUME DeliveryOK, SignalPassesStay, UNCHANGED signalVars
    PROVE  DeliveryOK'
BY DEF DeliveryOK, OrderOK, SignalPassesStay, signalVars, DeliveredInOrder

\* No activation begins or ends, and no window gets between two events or out of there.
PlacesStay ==
    /\ Len(stack') = Len(stack)
    /\ \A d \in 1 .. Len(stack) :
          /\ stack'[d].kind = stack[d].kind
          /\ stack'[d].pc = "between" <=> stack[d].pc = "between"

\* A step that keeps what kinds the activations have keeps the windows.
LEMMA WindowsStay ==
    ASSUME NEW n \in Nat,
           \A d \in 1 .. n : stack'[d].kind = "window" <=> stack[d].kind = "window"
    PROVE  WindowsOf(stack', n) = WindowsOf(stack, n)
BY WindowsLocal

\* A step that keeps the activations where they are begins no pass over the signals.
LEMMA OnePassStays ==
    ASSUME LoopInv, OnePass, PlacesStay, hasBlockingWindow' = hasBlockingWindow
    PROVE  OnePass'
<1>1. Len(stack) \in Nat
  BY TopProperties DEF LoopInv
<1>2. OpenWindows' = OpenWindows
  <2>1. WindowsOf(stack', Len(stack')) = WindowsOf(stack, Len(stack))
    BY <1>1, WindowsStay DEF PlacesStay
  <2> QED
    BY <2>1 DEF OpenWindows, Windows, WindowsOf
<1>3. \A d \in 1 .. Len(stack) : d < Len(stack) => d + 1 \in 1 .. Len(stack)
  BY <1>1
<1> QED
  BY SMTT(40), <1>2, <1>3 DEF OnePass, PlacesStay

\* The steps that only move an activation, or its cursor in a list of tasks.
LEMMA QuietMove ==
    ASSUME LoopInv, DeliveryOK, OnePass, PlacesStay,
           \A d \in 1 .. Len(stack) : stack[d].kind = "signals" => stack'[d].i = stack[d].i,
           hasBlockingWindow' = hasBlockingWindow, UNCHANGED signalVars
    PROVE  DeliveryOK' /\ OnePass'
<1>1. SignalPassesStay
  BY DEF SignalPassesStay, PlacesStay
<1> QED
  BY <1>1, DeliveryStays, OnePassStays

\* A pass that returns opens no window and closes none.
LEMMA PopOnePass ==
    ASSUME LoopInv, OnePass, stack' = Front(stack), Top.kind \notin {"main", "window"},
           hasBlockingWindow' = hasBlockingWindow
    PROVE  OnePass'
<1> DEFINE n == Len(stack) - 1
<1>1. /\ Len(stack) \in Nat /\ n \in Nat /\ n + 1 = Len(stack)
      /\ stack[n + 1].kind \notin {"main", "window"}
  BY TopProperties DEF LoopInv, Top
<1>2. Len(stack') = n /\ \A d \in 1 .. n : stack'[d] = stack[d]
  BY PopShape
<1> HIDE DEF n
<1>3. OpenWindows' = OpenWindows
  <2>1. WindowsOf(stack', n) = WindowsOf(stack, n)
    BY <1>1, <1>2, WindowsLocal
  <2>2. WindowsOf(stack, n + 1) = WindowsOf(stack, n) + 0 /\ WindowsOf(stack, n) \in Nat
    BY <1>1, WindowsStep, WindowsFinite
  <2>3. WindowsOf(stack', Len(stack')) = WindowsOf(stack, Len(stack))
    BY <1>1, <1>2, <2>1, <2>2
  <2> QED
    BY <2>3 DEF OpenWindows, Windows, WindowsOf
<1>4. \A d \in 1 .. n : /\ d \in 1 .. Len(stack) /\ d < Len(stack)
                        /\ d < n => d + 1 \in 1 .. n /\ d + 1 < Len(stack)
  BY <1>1
<1> QED
  BY <1>2, <1>3, <1>4 DEF OnePass

\* An activation that is neither a loop nor a pass over signals can return.
LEMMA PopQuiet ==
    ASSUME LoopInv, DeliveryOK, OnePass, stack' = Front(stack),
           Top.kind \notin {"main", "window", "signals"},
           hasBlockingWindow' = hasBlockingWindow, UNCHANGED signalVars
    PROVE  DeliveryOK' /\ OnePass'
<1>1. Len(stack) \in Nat /\ stack[Len(stack)].kind # "signals"
  BY TopProperties DEF LoopInv, Top
<1>2. Len(stack') = Len(stack) - 1 /\ \A d \in 1 .. Len(stack) - 1 : stack'[d] = stack[d]
  BY PopShape
<1>3. \A d \in 1 .. Len(stack) : d = Len(stack) \/ d \in 1 .. Len(stack) - 1
  BY <1>1
<1>4. \A d \in 1 .. Len(stack) - 1 : d \in 1 .. Len(stack)
  BY <1>1
<1>5. SignalPassesStay
  BY <1>1, <1>2, <1>3, <1>4 DEF SignalPassesStay
<1> QED
  BY <1>5, DeliveryStays, PopOnePass

\* A pass over tasks that is called from an event loop.
LEMMA CallQuiet ==
    ASSUME LoopInv, DeliveryOK, OnePass, NEW p, p \in {"urgent", "end"}, NEW g \in Activations,
           g.kind \in {"idle", "urgent"},
           Top.kind \in {"main", "window"}, Top.pc # "between",
           stack' = Front(stack) \o <<[Top EXCEPT !.pc = p], g>>,
           hasBlockingWindow' = hasBlockingWindow, UNCHANGED signalVars
    PROVE  DeliveryOK' /\ OnePass'
<1> DEFINE n == Len(stack)
<1>1. /\ n \in Nat /\ n >= 1 /\ stack[n].kind \in {"main", "window"} /\ stack[n].pc # "between"
  BY TopProperties DEF LoopInv, Top
<1>2. /\ Len(stack') = n + 1 /\ stack'[n + 1] = g
      /\ \A d \in 1 .. n :
            /\ stack'[d].kind = stack[d].kind /\ stack'[d].i = stack[d].i
            /\ stack'[d].pc = IF d = n THEN p ELSE stack[d].pc
  BY CallShape
<1>3. n = Len(stack)
  OBVIOUS
<1> HIDE DEF n
<1>4. \A d \in 1 .. n + 1 : d = n + 1 \/ d \in 1 .. n
  BY <1>1
<1>5. \A d \in 1 .. n : d \in 1 .. n + 1 /\ (d < n => d + 1 \in 1 .. n) /\ (d # n => d < n)
  BY <1>1
<1>6. SignalPassesStay
  BY <1>2, <1>3, <1>4, <1>5 DEF SignalPassesStay
<1>7. OpenWindows' = OpenWindows
  <2>1. WindowsOf(stack', n) = WindowsOf(stack, n)
    BY <1>1, <1>2, WindowsStay
  <2>2. WindowsOf(stack', n) \in Nat
    BY <1>1, WindowsFinite
  <2>3. WindowsOf(stack', n + 1) = WindowsOf(stack', n) + 0
    BY <1>1, <1>2, WindowsStep
  <2>4. WindowsOf(stack', Len(stack')) = WindowsOf(stack, Len(stack))
    <3>1. WindowsOf(stack', n + 1) = WindowsOf(stack, n)
      BY <2>1, <2>2, <2>3
    <3>2. Len(stack') = n + 1 /\ Len(stack) = n
      BY <1>2, <1>3
    <3> QED
      BY <3>1, <3>2
  <2> QED
    BY <2>4 DEF OpenWindows, Windows, WindowsOf
<1>8. \A d \in 1 .. n : stack'[d].pc # "between" <=> stack[d].pc # "between"
  BY <1>1, <1>2
<1>9. ASSUME NEW d \in 1 .. n + 1, stack'[d].kind = "signals"
      PROVE  /\ d \in 1 .. n /\ d < n /\ d + 1 \in 1 .. n /\ stack[d].kind = "signals"
             /\ \A e \in 1 .. n + 1 : stack'[e].kind = "signals" => e = d
             /\ stack'[d + 1].kind = "window"
             /\ OpenWindows' = 1
             /\ stack'[d + 1].pc # "between"
             /\ hasBlockingWindow
  <2>1. d \in 1 .. n /\ stack[d].kind = "signals"
    BY <1>2, <1>4, <1>9
  <2>2. d < n /\ d + 1 \in 1 .. n
    BY <1>1, <1>5, <2>1
  <2>3. \A e \in 1 .. n + 1 : stack'[e].kind = "signals" => e = d
    BY <1>2, <1>3, <1>4, <2>1 DEF OnePass
  <2>4. /\ stack[d + 1].kind = "window" /\ OpenWindows = 1
        /\ stack[d + 1].pc # "between" => hasBlockingWindow
        /\ d + 1 < n => stack[d + 1].pc # "between"
    BY <1>3, <2>1, <2>2 DEF OnePass
  <2>5. stack[d + 1].pc # "between"
    <3>1. d + 1 = n \/ d + 1 < n
      BY <1>1, <2>1, <2>2
    <3> QED
      BY <1>1, <2>4, <3>1
  <2> QED
    BY <1>2, <1>7, <1>8, <2>1, <2>2, <2>3, <2>4, <2>5
<1>10. OnePass'
  <2>1. ASSUME NEW d \in 1 .. Len(stack'), stack'[d].kind = "signals"
        PROVE  /\ \A e \in 1 .. Len(stack') : stack'[e].kind = "signals" => e = d
               /\ stack'[d + 1].kind = "window"
               /\ OpenWindows' = 1
               /\ stack'[d + 1].pc # "between"
               /\ hasBlockingWindow'
    <3>1. d \in 1 .. n + 1
      BY <1>2, <2>1
    <3>2. hasBlockingWindow'
      BY <1>9, <2>1, <3>1, Zenon
    <3>3. /\ \A e \in 1 .. n + 1 : stack'[e].kind = "signals" => e = d
          /\ stack'[d + 1].kind = "window"
          /\ OpenWindows' = 1
          /\ stack'[d + 1].pc # "between"
      BY <1>9, <2>1, <3>1, Zenon
    <3>4. Len(stack') = n + 1
      BY <1>2
    <3> QED
      BY <3>2, <3>3, <3>4, Zenon
  <2> QED
    BY <2>1 DEF OnePass
<1> QED
  BY <1>6, <1>10, DeliveryStays

\* The only window above a pass over the signals is right above it.
LEMMA WindowAbove ==
    ASSUME LoopInv, OnePass, NEW d \in 1 .. Len(stack), stack[d].kind = "signals",
           Top.kind = "window"
    PROVE  d + 1 = Len(stack) /\ OpenWindows = 1
<1> DEFINE n == Len(stack) - 1
<1>1. /\ Len(stack) \in Nat /\ n \in Nat /\ n + 1 = Len(stack) /\ stack[n + 1].kind = "window"
  BY TopProperties DEF LoopInv, Top
<1>2. d \in Nat /\ d < Len(stack)
  BY <1>1
<1>3. stack[d + 1].kind = "window" /\ OpenWindows = 1
  BY <1>2 DEF OnePass
<1>4. OpenWindows = WindowsOf(stack, n + 1)
  BY <1>1 DEF OpenWindows, Windows, WindowsOf
<1> HIDE DEF n
<1>5. /\ WindowsOf(stack, d + 1) = WindowsOf(stack, d) + 1 /\ WindowsOf(stack, d) \in Nat
      /\ WindowsOf(stack, n + 1) = WindowsOf(stack, n) + 1 /\ WindowsOf(stack, n) \in Nat
  BY <1>1, <1>2, <1>3, WindowsStep, WindowsFinite
<1>6. ASSUME d + 1 <= n
      PROVE  FALSE
  <2>1. WindowsOf(stack, d + 1) <= WindowsOf(stack, n)
    BY <1>1, <1>2, <1>6, WindowsMonotonic
  <2> QED
    BY <1>3, <1>4, <1>5, <2>1
<1> QED
  BY <1>1, <1>2, <1>3, <1>6

\* What the proofs of the steps have in common.
LEMMA OrderlyFacts ==
    ASSUME LoopInv
    PROVE  /\ Len(stack) \in Nat /\ Len(stack) >= 1 /\ Top = stack[Len(stack)]
           /\ Top.kind \in {"main", "window"} <=> Top.pc \in LoopPcs
           /\ Top.pc \in {"check", "connect"} => Top.kind = "idle"
           /\ \A d \in 1 .. Len(stack) : stack[d].i \in Nat
BY TopProperties DEF LoopInv, Top, FrameOK, Activations

\* The steps that leave the places of event loops and signal passes alone.
LEMMA AtOrderly ==
    ASSUME LoopInv, DeliveryOK, OnePass, NEW p,
           p \in LoopPcs \cup {"next", "perform", "check", "connect", "test", "broadcast", "reset"},
           p = "between" <=> Top.pc = "between", At(p),
           hasBlockingWindow' = hasBlockingWindow, UNCHANGED signalVars
    PROVE  DeliveryOK' /\ OnePass'
<1>1. PlacesStay
  BY AtShape, OrderlyFacts DEF PlacesStay
<1>2. \A d \in 1 .. Len(stack) : stack'[d].i = stack[d].i
  BY AtShape
<1> QED
  BY <1>1, <1>2, QuietMove

\* Step keeps the order of delivery.
LEMMA StepOrderly ==
    ASSUME LoopInv, DeliveryOK, OnePass, Step, Top.kind \in {"idle", "urgent"}, Top.pc = "next",
           hasBlockingWindow' = hasBlockingWindow, UNCHANGED signalVars
    PROVE  DeliveryOK' /\ OnePass'
<1>1. /\ Len(stack') = Len(stack)
      /\ \A d \in 1 .. Len(stack) :
            /\ stack'[d].kind = stack[d].kind
            /\ stack'[d].i = IF d = Len(stack) THEN stack[d].i + 1 ELSE stack[d].i
            /\ stack'[d].pc = IF d = Len(stack) THEN "perform" ELSE stack[d].pc
  BY StepShape DEF Step
<1>2. Top = stack[Len(stack)]
  BY OrderlyFacts
<1>3. PlacesStay
  BY <1>1, <1>2 DEF PlacesStay
<1>4. \A d \in 1 .. Len(stack) : stack[d].kind = "signals" => stack'[d].i = stack[d].i
  BY <1>1, <1>2
<1> QED
  BY <1>3, <1>4, QuietMove

\* Moving the cursors keeps the order of delivery.
LEMMA CursorsOrderly ==
    ASSUME LoopInv, DeliveryOK, OnePass, NEW t, NEW inserted \in BOOLEAN,
           stack' = CursorsAfter(t, inserted),
           hasBlockingWindow' = hasBlockingWindow, UNCHANGED signalVars
    PROVE  DeliveryOK' /\ OnePass'
<1>1. PlacesStay /\ \A d \in 1 .. Len(stack) : stack[d].kind = "signals" => stack'[d].i = stack[d].i
  BY CursorShape DEF PlacesStay
<1> QED
  BY <1>1, QuietMove

\* A step that leaves signals and places alone keeps the order of delivery.
LEMMA StillOrderly ==
    ASSUME LoopInv, DeliveryOK, OnePass, stack' = stack,
           hasBlockingWindow' = hasBlockingWindow, UNCHANGED signalVars
    PROVE  DeliveryOK' /\ OnePass'
BY QuietMove DEF PlacesStay

\* EndIdle keeps the order of delivery.
LEMMA EndIdleOrderly ==
    ASSUME LoopInv, DeliveryOK, OnePass, EndIdle
    PROVE  DeliveryOK' /\ OnePass'
<1>1. Top.kind = "idle" /\ Top.pc = "next" /\ hasBlockingWindow' = hasBlockingWindow
      /\ UNCHANGED signalVars
  BY DEF EndIdle
<1> DEFINE p == IF hasBlockingWindow THEN "connect" ELSE "check"
<1>2. At(p)
  BY DEF EndIdle
<1>3. p \in {"connect", "check"}
  OBVIOUS
<1> HIDE DEF p
<1> QED
  BY <1>1, <1>2, <1>3, AtOrderly

\* Return keeps the order of delivery.
LEMMA ReturnOrderly ==
    ASSUME LoopInv, DeliveryOK, OnePass, Return
    PROVE  DeliveryOK' /\ OnePass'
<1>1. hasBlockingWindow' = hasBlockingWindow /\ UNCHANGED signalVars
  BY DEF Return
<1>2. CASE Top.pc = "perform"
  <2>1. At("next")
    BY <1>2 DEF Return
  <2> QED
    BY <1>1, <1>2, <2>1, AtOrderly
<1>3. CASE Top.pc = "broadcast"
  <2>1. At("test")
    BY <1>3 DEF Return
  <2> QED
    BY <1>1, <1>3, <2>1, AtOrderly
<1>4. CASE Top.pc \in {"check", "connect"}
  <2>1. stack' = Front(stack) /\ Top.kind = "idle"
    BY <1>4, OrderlyFacts DEF Return
  <2> QED
    BY <1>1, <2>1, PopQuiet
<1> QED
  BY <1>2, <1>3, <1>4 DEF Return

\* EnterWindow keeps the order of delivery.
LEMMA EnterWindowOrderly ==
    ASSUME LoopInv, DeliveryOK, OnePass, EnterWindow
    PROVE  DeliveryOK' /\ OnePass'
<1> DEFINE n == Len(stack)
<1>1. /\ n \in Nat /\ n >= 1 /\ Top = stack[n] /\ Top.kind = "window"
      /\ hasBlockingWindow' = TRUE /\ UNCHANGED signalVars
  BY OrderlyFacts DEF EnterWindow
<1>2. /\ Len(stack') = n
      /\ \A d \in 1 .. n :
            /\ stack'[d].kind = stack[d].kind /\ stack'[d].i = stack[d].i
            /\ stack'[d].pc = IF d = n THEN "dispatch" ELSE stack[d].pc
  BY AtShape DEF EnterWindow, LoopPcs
<1>3. DeliveryOK'
  <2>1. SignalPassesStay
    BY <1>2 DEF SignalPassesStay
  <2> QED
    BY <1>1, <2>1, DeliveryStays
<1>4. OpenWindows' = OpenWindows
  <2>1. WindowsOf(stack', Len(stack')) = WindowsOf(stack, Len(stack))
    BY <1>1, <1>2, WindowsStay
  <2> QED
    BY <2>1 DEF OpenWindows, Windows, WindowsOf
<1>5. OnePass'
  <2>1. ASSUME NEW d \in 1 .. Len(stack'), stack'[d].kind = "signals"
        PROVE  /\ \A e \in 1 .. Len(stack') : stack'[e].kind = "signals" => e = d
               /\ stack'[d + 1].kind = "window"
               /\ OpenWindows' = 1
               /\ stack'[d + 1].pc # "between"
    <3>1. d \in 1 .. n /\ stack[d].kind = "signals"
      BY <1>2, <2>1
    <3>2. d + 1 = n /\ OpenWindows = 1
      BY <1>1, <3>1, WindowAbove
    <3>3. d + 1 \in 1 .. n
      BY <1>1, <3>2
    <3>4. \A e \in 1 .. n : stack[e].kind = "signals" => e = d
      BY <3>1 DEF OnePass
    <3> QED
      BY <1>1, <1>2, <1>4, <3>2, <3>3, <3>4
  <2> QED
    BY <1>1, <2>1 DEF OnePass
<1> QED
  BY <1>3, <1>5

\* EndEvent keeps the order of delivery.
LEMMA EndEventOrderly ==
    ASSUME LoopInv, DeliveryOK, OnePass, EndEvent
    PROVE  DeliveryOK' /\ OnePass'
<1> DEFINE n == Len(stack)
<1>1. /\ n \in Nat /\ n >= 1 /\ Top = stack[n] /\ Top.pc = "end"
      /\ UNCHANGED signalVars
  BY OrderlyFacts DEF EndEvent
<1>2. CASE Top.kind # "window"
  <2>1. At("dispatch") /\ hasBlockingWindow' = hasBlockingWindow
    BY <1>2 DEF EndEvent
  <2> QED
    BY <1>1, <2>1, AtOrderly DEF LoopPcs
<1>3. CASE Top.kind = "window"
  <2>0. At("between")
    BY <1>3 DEF EndEvent
  <2>2. /\ Len(stack') = n
        /\ \A d \in 1 .. n :
              /\ stack'[d].kind = stack[d].kind /\ stack'[d].i = stack[d].i
              /\ stack'[d].pc = IF d = n THEN "between" ELSE stack[d].pc
    BY <2>0, AtShape DEF LoopPcs
  <2>3. DeliveryOK'
    <3>1. SignalPassesStay
      BY <2>2 DEF SignalPassesStay
    <3> QED
      BY <1>1, <3>1, DeliveryStays
  <2>4. OpenWindows' = OpenWindows
    <3>1. WindowsOf(stack', Len(stack')) = WindowsOf(stack, Len(stack))
      BY <1>1, <2>2, WindowsStay
    <3> QED
      BY <3>1 DEF OpenWindows, Windows, WindowsOf
  <2>5. OnePass'
    <3>1. ASSUME NEW d \in 1 .. Len(stack'), stack'[d].kind = "signals"
          PROVE  /\ \A e \in 1 .. Len(stack') : stack'[e].kind = "signals" => e = d
                 /\ stack'[d + 1].kind = "window"
                 /\ OpenWindows' = 1
                 /\ stack'[d + 1].pc = "between"
                 /\ ~ (d + 1 < Len(stack'))
      <4>1. d \in 1 .. n /\ stack[d].kind = "signals"
        BY <2>2, <3>1
      <4>2. d + 1 = n /\ OpenWindows = 1
        BY <1>1, <1>3, <4>1, WindowAbove
      <4>3. d + 1 \in 1 .. n /\ ~ (d + 1 < n)
        BY <1>1, <4>2
      <4>4. \A e \in 1 .. n : stack[e].kind = "signals" => e = d
        BY <4>1 DEF OnePass
      <4> QED
        BY <1>1, <1>3, <2>2, <2>4, <4>2, <4>3, <4>4
    <3> QED
      BY <3>1 DEF OnePass
  <2> QED
    BY <2>3, <2>5
<1> QED
  BY <1>2, <1>3

\* MayOpen, with one window at a time while a signal is being broadcast, opens one
\* above the pass over the signals and no other.
LEMMA OpenWindowOrderly ==
    ASSUME LoopInv, DeliveryOK, OnePass, MaxWindowsInSignals <= 1, OpenWindow
    PROVE  DeliveryOK' /\ OnePass'
<1> DEFINE n == Len(stack)
           f == Activation("window", "between", <<>>, 0)
<1>1. /\ n \in Nat /\ n >= 1 /\ stack \in Seq(Activations) /\ UNCHANGED signalVars
      /\ DOMAIN stack = 1 .. n
  BY TopProperties DEF LoopInv, StackOK, OpenWindow
<1>2. f \in Activations /\ f.kind = "window" /\ f.pc = "between"
  BY NoTask DEF Activation, Activations, Kinds, LoopPcs
<1>3. stack' = Append(stack, f)
  BY DEF OpenWindow, Calling
<1>0. n = Len(stack)
  OBVIOUS
<1> HIDE DEF f
<1>4. Len(stack') = n + 1 /\ stack'[n + 1] = f /\ \A d \in 1 .. n : stack'[d] = stack[d]
  <2>1. /\ Len(Append(stack, f)) = n + 1 /\ Append(stack, f)[n + 1] = f
        /\ \A d \in 1 .. n : Append(stack, f)[d] = stack[d]
    BY <1>1, <1>2, AppendProperties
  <2> QED
    BY <1>3, <2>1
<1> HIDE DEF n
<1>5. \A d \in 1 .. n + 1 : d = n + 1 \/ d \in 1 .. n
  BY <1>1
<1>6. \A d \in 1 .. n : d \in 1 .. n + 1
  BY <1>1
<1>7. DeliveryOK'
  <2>1. SignalPassesStay
    BY <1>0, <1>2, <1>4, <1>5, <1>6 DEF SignalPassesStay
  <2> QED
    BY <1>1, <2>1, DeliveryStays
<1>8. OpenWindows' = OpenWindows + 1
  <2>1. WindowsOf(stack', n) = WindowsOf(stack, n)
    BY <1>1, <1>4, WindowsStay
  <2>2. WindowsOf(stack', n + 1) = WindowsOf(stack', n) + 1
    BY <1>1, <1>2, <1>4, WindowsStep
  <2>3. WindowsOf(stack', Len(stack')) = WindowsOf(stack, Len(stack)) + 1
    BY <1>0, <1>4, <2>1, <2>2
  <2> QED
    BY <2>3 DEF OpenWindows, Windows, WindowsOf
<1>9. ASSUME NEW d \in 1 .. n, stack[d].kind = "signals"
      PROVE  d = n /\ OpenWindows' = 1
  <2>1. OpenWindows < MaxWindowsInSignals
    BY <1>1, <1>9 DEF OpenWindow, MayOpen
  <2>2. OpenWindows \in Nat
    BY IdleLists
  <2>3. OpenWindows = 0
    BY <2>1, <2>2, EventLoopAssumption
  <2>4. ~ (d < n)
    BY <1>0, <1>9, <2>3 DEF OnePass
  <2> QED
    BY <1>1, <1>8, <2>3, <2>4
<1>10. OnePass'
  <2>1. ASSUME NEW d \in 1 .. Len(stack'), stack'[d].kind = "signals"
        PROVE  /\ \A e \in 1 .. Len(stack') : stack'[e].kind = "signals" => e = d
               /\ stack'[d + 1].kind = "window"
               /\ OpenWindows' = 1
               /\ stack'[d + 1].pc = "between"
               /\ ~ (d + 1 < Len(stack'))
    <3>1. d \in 1 .. n /\ stack[d].kind = "signals"
      BY <1>2, <1>4, <1>5, <2>1
    <3>2. d = n /\ OpenWindows' = 1
      BY <1>9, <3>1
    <3>3. \A e \in 1 .. n : stack[e].kind = "signals" => e = d
      BY <1>9, <3>2
    <3>4. ~ (d + 1 < n + 1)
      BY <1>1, <3>2
    <3> QED
      BY <1>2, <1>4, <1>5, <3>2, <3>3, <3>4
  <2> QED
    BY <2>1 DEF OnePass
<1> QED
  BY <1>7, <1>10

\* CloseWindow keeps the order of delivery.
LEMMA CloseWindowOrderly ==
    ASSUME LoopInv, DeliveryOK, OnePass, CloseWindow
    PROVE  DeliveryOK' /\ OnePass'
<1> DEFINE n == Len(stack) - 1
<1>1. /\ stack \in Seq(Activations) /\ stack # <<>> /\ Top \in Activations
      /\ Len(stack) \in Nat /\ n \in Nat /\ n + 1 = Len(stack) /\ n >= 1
      /\ stack[n + 1].kind = "window" /\ Top.kind = "window"
      /\ UNCHANGED signalVars /\ hasBlockingWindow' = hasBlockingWindow
      /\ \A d \in 1 .. n + 1 : stack[d] \in Activations
  <2>1. /\ stack \in Seq(Activations) /\ stack # <<>> /\ Top \in Activations
        /\ Len(stack) \in Nat /\ Len(stack) > 1 /\ Top = stack[Len(stack)]
        /\ \A d \in 1 .. Len(stack) : stack[d] \in Activations
    BY TopProperties DEF LoopInv, StackOK, Top, CloseWindow
  <2>2. Top.kind = "window" /\ UNCHANGED signalVars /\ hasBlockingWindow' = hasBlockingWindow
    BY DEF CloseWindow
  <2>3. n \in Nat /\ n + 1 = Len(stack) /\ n >= 1
    BY <2>1
  <2> QED
    BY <2>1, <2>2, <2>3
<1>2. DOMAIN Front(stack) = 1 .. n
  BY <1>1, FrontProperties
<1>3. DOMAIN stack' = 1 .. n /\ stack' = [d \in 1 .. n |-> stack'[d]]
  BY <1>2 DEF CloseWindow, PopIdle
<1>4. ASSUME NEW d \in 1 .. n
      PROVE  /\ stack'[d].kind = stack[d].kind /\ stack'[d].pc = stack[d].pc
             /\ stack[d].kind = "signals" => stack'[d] = stack[d]
  <2>1. stack[d] \in Activations
    BY <1>1
  <2> HIDE DEF n
  <2> QED
    BY <1>2, <2>1 DEF CloseWindow, PopIdle, Activations
<1> HIDE DEF n
<1>5. Len(stack') = n
  <2>1. stack' \in [1 .. n -> {stack'[d] : d \in 1 .. n}]
    BY <1>3
  <2> QED
    BY <1>1, <2>1, FunctionIsSeq
<1>6. \A d \in 1 .. n : d \in 1 .. n + 1
  BY <1>1
<1>7. \A d \in 1 .. n + 1 : d \in 1 .. n \/ d = n + 1
  BY <1>1
<1>8. DeliveryOK'
  <2>1. SignalPassesStay
    BY <1>1, <1>4, <1>5, <1>6, <1>7 DEF SignalPassesStay
  <2> QED
    BY <1>1, <2>1, DeliveryStays
<1>9. OnePass'
  <2>1. ASSUME NEW d \in 1 .. Len(stack'), stack'[d].kind = "signals"
        PROVE  /\ \A e \in 1 .. Len(stack') : stack'[e].kind = "signals" => e = d
               /\ ~ (d < Len(stack'))
    <3>1. d \in 1 .. n /\ stack[d].kind = "signals" /\ d \in 1 .. Len(stack)
      BY <1>1, <1>4, <1>5, <1>6, <2>1
    <3>2. d + 1 = n + 1
      BY <1>1, <3>1, WindowAbove
    <3>3. \A e \in 1 .. n : stack[e].kind = "signals" => e = d
      BY <1>1, <1>6, <3>1 DEF OnePass
    <3> QED
      BY <1>1, <1>4, <1>5, <3>1, <3>2, <3>3
  <2> QED
    BY <2>1 DEF OnePass
<1> QED
  BY <1>8, <1>9

\* A pass over the signals begins only where itsHasBlockingWindowFlag is clear, so
\* that no other is under way.
LEMMA EndUrgentOrderly ==
    ASSUME LoopInv, DeliveryOK, OnePass, EndUrgent
    PROVE  DeliveryOK' /\ OnePass'
<1> DEFINE n == Len(stack)
           f == Activation("signals", "test", <<>>, 0)
<1>1. /\ stack \in Seq(Activations) /\ stack # <<>>
      /\ n \in Nat /\ n >= 1 /\ Top = stack[n] /\ Top.kind = "urgent"
      /\ hasBlockingWindow' = hasBlockingWindow /\ UNCHANGED signalVars
  BY OrderlyFacts DEF LoopInv, StackOK, EndUrgent
<1>2. CASE stack' = Front(stack)
  BY <1>1, <1>2, PopQuiet
<1>3. CASE ~ hasBlockingWindow /\ stack' = Front(stack) \o <<f>>
  <2>1. f \in Activations /\ f.kind = "signals" /\ f.i = 0
    BY NoTask DEF Activation, Activations, Kinds, LoopPcs
  <2> HIDE DEF f
  <2>2. /\ Len(stack') = n /\ stack'[n] = f
        /\ \A d \in 1 .. n - 1 : stack'[d] = stack[d]
    <3>1. /\ Len(Front(stack) \o <<f>>) = n /\ (Front(stack) \o <<f>>)[n] = f
          /\ \A d \in 1 .. n - 1 : (Front(stack) \o <<f>>)[d] = stack[d]
      BY <1>1, <2>1, FrontProperties
    <3> QED
      BY <1>3, <3>1
  <2>0. n = Len(stack)
    OBVIOUS
  <2> HIDE DEF n
  <2>3. ASSUME NEW d \in 1 .. n
        PROVE  stack[d].kind # "signals"
    <3>1. SUFFICES ASSUME stack[d].kind = "signals"
                   PROVE  FALSE
      OBVIOUS
    <3>2. d < n /\ d + 1 \in 1 .. n
      BY <1>1, <3>1
    <3>3. /\ stack[d + 1].kind = "window"
          /\ stack[d + 1].pc # "between" => hasBlockingWindow
          /\ d + 1 < n => stack[d + 1].pc # "between"
      BY <2>0, <3>1, <3>2 DEF OnePass
    <3>4. d + 1 < n
      BY <1>1, <3>2, <3>3
    <3>5. hasBlockingWindow
      BY <3>3, <3>4, Zenon
    <3> QED
      BY <1>3, <3>5
  <2>4. \A d \in 1 .. n : d = n \/ d \in 1 .. n - 1
    BY <1>1
  <2>5. \A d \in 1 .. n : stack'[d].kind = "signals" => d = n
    <3>1. \A d \in 1 .. n - 1 : d \in 1 .. n
      BY <1>1
    <3> QED
      BY <2>2, <2>3, <2>4, <3>1
  <2>6. OrderOK(0)
    BY <2>0, <2>3 DEF DeliveryOK
  <2>7. DeliveryOK'
    <3>1. UNCHANGED <<delivered, raised, pendingSignalCount, signalList>>
      BY <1>1 DEF signalVars
    <3>2. OrderOK(0)'
      BY <2>6, <3>1 DEF OrderOK
    <3>3. \A d \in 1 .. n : stack'[d].kind = "signals" => stack'[d].i = 0
      BY <2>1, <2>2, <2>5
    <3> QED
      BY <2>2, <3>1, <3>2, <3>3 DEF DeliveryOK, OrderOK, DeliveredInOrder
  <2>8. OnePass'
    <3>1. ASSUME NEW d \in 1 .. Len(stack'), stack'[d].kind = "signals"
          PROVE  /\ \A e \in 1 .. Len(stack') : stack'[e].kind = "signals" => e = d
                 /\ ~ (d < Len(stack'))
      <4>1. d = n
        BY <2>2, <2>5, <3>1
      <4> QED
        BY <1>1, <2>2, <2>5, <4>1
    <3> QED
      BY <3>1 DEF OnePass
  <2> QED
    BY <2>7, <2>8
<1> QED
  BY <1>2, <1>3 DEF EndUrgent

\* BroadcastSignal keeps the order of delivery.
LEMMA BroadcastSignalOrderly ==
    ASSUME LoopInv, SignalInv, BroadcastSignal
    PROVE  DeliveryOK' /\ OnePass'
<1> DEFINE n == Len(stack)
           i == Top.i
           m == Len(delivered)
           x == signalList[i + 1]
<1>1. /\ n \in Nat /\ n >= 1 /\ Top = stack[n] /\ Top.kind = "signals" /\ Top.pc = "test"
      /\ i \in Nat
  BY OrderlyFacts DEF BroadcastSignal
<1>2. /\ Len(stack') = n
      /\ \A d \in 1 .. n :
            /\ stack'[d].kind = stack[d].kind
            /\ stack'[d].i = IF d = n THEN stack[d].i + 1 ELSE stack[d].i
            /\ stack'[d].pc = IF d = n THEN "broadcast" ELSE stack[d].pc
  BY StepShape DEF BroadcastSignal
<1>3. OnePass'
  <2>1. PlacesStay
    BY <1>1, <1>2 DEF PlacesStay
  <2> QED
    BY <2>1, OnePassStays DEF SignalInv, BroadcastSignal
<1>4. /\ pendingSignalCount \in Nat /\ pendingSignalCount <= SignalListSize
      /\ SignalListSize \in Nat
      /\ signalList \in [1 .. SignalListSize -> 0 .. MaxRaised]
      /\ \A k \in 1 .. pendingSignalCount :
            signalList[k] <= raised /\ \A j \in 1 .. k - 1 : signalList[j] < signalList[k]
  BY EventLoopAssumption DEF SignalInv, ListOK
<1>5. /\ delivered \in Seq(0 .. MaxRaised)
      /\ \A j \in 1 .. m : delivered[j] <= raised
      /\ \A j, k \in 1 .. m : j < k => delivered[j] < delivered[k]
      /\ m \in Nat /\ DOMAIN delivered = 1 .. m
  BY LenProperties DEF SignalInv, DeliveryOK, DeliveredInOrder
<1>6. OrderOK(i)
  BY <1>1 DEF SignalInv, DeliveryOK
<1>7. i + 1 \in 1 .. pendingSignalCount /\ i + 1 \in 1 .. SignalListSize
      /\ i + 1 \in i + 1 .. pendingSignalCount
  BY SMTT(40), <1>1, <1>4 DEF BroadcastSignal
<1>8. /\ x \in 0 .. MaxRaised /\ x <= raised
      /\ \A j \in 1 .. m : delivered[j] < x
  BY <1>4, <1>6, <1>7 DEF OrderOK
<1>9. /\ delivered' = Append(delivered, x)
      /\ raised' = raised /\ signalList' = signalList /\ pendingSignalCount' = pendingSignalCount
  BY DEF BroadcastSignal
<1>0. n = Len(stack) /\ i = stack[n].i
  BY <1>1
<1> HIDE DEF n, i, m, x
<1>10. /\ delivered' \in Seq(0 .. MaxRaised) /\ Len(delivered') = m + 1
       /\ delivered'[m + 1] = x /\ \A j \in 1 .. m : delivered'[j] = delivered[j]
  <2>1. m = Len(delivered)
    BY DEF m
  <2>2. /\ Append(delivered, x) \in Seq(0 .. MaxRaised) /\ Len(Append(delivered, x)) = m + 1
        /\ Append(delivered, x)[m + 1] = x
        /\ \A j \in 1 .. m : Append(delivered, x)[j] = delivered[j]
    BY <1>5, <1>8, <2>1, AppendProperties
  <2> QED
    BY <1>9, <2>2
<1>11. \A j \in 1 .. m + 1 : j = m + 1 \/ j \in 1 .. m
  BY <1>5
<1>12. \A j \in 1 .. m + 1 : delivered'[j] <= raised'
  BY <1>5, <1>8, <1>9, <1>10, <1>11
<1>13. DeliveredInOrder'
  <2>1. DOMAIN delivered' = 1 .. m + 1
    BY <1>10, LenProperties
  <2>2. ASSUME NEW j \in 1 .. m + 1, NEW k \in 1 .. m + 1, j < k
        PROVE  delivered'[j] < delivered'[k]
    <3>1. j \in 1 .. m
      BY <1>5, <2>2
    <3>2. CASE k = m + 1
      BY <1>8, <1>10, <3>1, <3>2
    <3>3. CASE k \in 1 .. m
      BY <1>5, <1>10, <2>2, <3>1, <3>3
    <3> QED
      BY <1>11, <3>2, <3>3
  <2> QED
    BY <2>1, <2>2 DEF DeliveredInOrder
<1>14. \A k \in i + 2 .. pendingSignalCount : \A j \in 1 .. m + 1 : delivered'[j] < signalList[k]
  <2> TAKE k \in i + 2 .. pendingSignalCount
  <2>1. k \in i + 1 .. pendingSignalCount /\ k \in 1 .. pendingSignalCount /\ i + 1 \in 1 .. k - 1
    BY <1>1, <1>4
  <2>2. x < signalList[k]
    BY <1>4, <2>1 DEF x
  <2>3. \A j \in 1 .. m : delivered[j] < signalList[k]
    BY <1>6, <2>1 DEF OrderOK, m
  <2> QED
    BY <1>10, <1>11, <2>2, <2>3
<1>15. \A d \in 1 .. n : stack'[d].kind = "signals" => d = n /\ stack'[d].i = i + 1
  <2>1. n \in 1 .. n /\ stack[n].kind = "signals"
    BY <1>1
  <2> QED
    BY <1>0, <1>2, <2>1 DEF SignalInv, OnePass
<1>16. stack'[n].kind = "signals" /\ n \in 1 .. n
  BY <1>1, <1>2
<1>17. ASSUME NEW d \in 1 .. Len(stack'), stack'[d].kind = "signals"
       PROVE  \A k \in stack'[d].i + 1 .. pendingSignalCount' :
                 \A j \in 1 .. Len(delivered') : delivered'[j] < signalList'[k]
  <2>1. stack'[d].i = i + 1
    BY <1>2, <1>15, <1>17
  <2>2. (i + 1) + 1 = i + 2
    BY <1>1
  <2> QED
    BY <1>9, <1>10, <1>14, <2>1, <2>2
<1>18. DeliveryOK'
  BY <1>2, <1>10, <1>12, <1>13, <1>16, <1>17 DEF DeliveryOK, OrderOK
<1> QED
  BY <1>3, <1>18

\* ForgetSignals keeps the order of delivery.
LEMMA ForgetSignalsOrderly ==
    ASSUME LoopInv, DeliveryOK, OnePass, ForgetSignals
    PROVE  DeliveryOK' /\ OnePass'
<1> DEFINE n == Len(stack)
<1>1. /\ n \in Nat /\ n >= 1 /\ Top.kind \notin {"main", "window"}
      /\ stack' = Front(stack) /\ hasBlockingWindow' = hasBlockingWindow
      /\ delivered' = delivered /\ raised' = raised /\ pendingSignalCount' = 0
      /\ signalList' = signalList
      /\ \A d \in 1 .. n : stack[d].i \in Nat
  BY OrderlyFacts DEF ForgetSignals, LoopPcs
<1>2. Len(stack') = n - 1 /\ \A d \in 1 .. n - 1 : stack'[d] = stack[d]
  BY <1>1, PopShape
<1>3. \A d \in 1 .. n - 1 : stack'[d].i \in Nat
  BY <1>1, <1>2
<1>4. \A k \in Nat : k + 1 .. pendingSignalCount' = {}
  BY <1>1
<1>5. DeliveryOK'
  <2>1. /\ \A d \in 1 .. Len(stack') : stack'[d].i + 1 .. pendingSignalCount' = {}
        /\ 0 + 1 .. pendingSignalCount' = {}
    BY <1>2, <1>3, <1>4
  <2> QED
    BY <1>1, <2>1 DEF DeliveryOK, OrderOK, DeliveredInOrder
<1> QED
  BY <1>1, <1>5, PopOnePass

\* A signal that arrives is later than all that have been delivered.
LEMMA RaiseOrderly ==
    ASSUME LoopInv, SignalInv, Raise
    PROVE  DeliveryOK' /\ OnePass'
<1> DEFINE p == pendingSignalCount
           m == Len(delivered)
<1>1. /\ stack' = stack /\ hasBlockingWindow' = hasBlockingWindow /\ delivered' = delivered
      /\ raised' = raised + 1 /\ raised \in Nat
      /\ p \in 0 .. SignalListSize /\ SignalListSize \in Nat
      /\ signalList \in [1 .. SignalListSize -> 0 .. MaxRaised]
  BY EventLoopAssumption DEF Raise, SignalInv, ListOK
<1>2. OnePass'
  BY <1>1, OnePassStays DEF PlacesStay, SignalInv
<1>3. /\ delivered \in Seq(0 .. MaxRaised)
      /\ \A j \in 1 .. m : delivered[j] \in 0 .. MaxRaised /\ delivered[j] <= raised
  BY ElementOfSeq, LenProperties DEF SignalInv, DeliveryOK
<1>4. \A j \in 1 .. m : delivered[j] < raised + 1
  BY <1>1, <1>3
<1>5. \A j \in 1 .. m : delivered[j] <= raised'
  BY <1>1, <1>3
<1>6. ASSUME NEW from \in Nat, OrderOK(from)
      PROVE  \A k \in from + 1 .. pendingSignalCount' : \A j \in 1 .. m : delivered[j] < signalList'[k]
  <2>1. CASE p < SignalListSize
    <3>1. /\ pendingSignalCount' = p + 1
          /\ signalList' = [signalList EXCEPT ![p + 1] = raised + 1]
      BY <1>1, <2>1 DEF Raise
    <3> TAKE k \in from + 1 .. pendingSignalCount'
    <3>2. CASE k = p + 1
      <4>1. signalList'[k] = raised + 1
        BY <1>1, <2>1, <3>1, <3>2
      <4> QED
        BY <1>4, <4>1
    <3>3. CASE k # p + 1
      <4>1. k \in from + 1 .. p /\ signalList'[k] = signalList[k]
        BY <1>1, <2>1, <3>1, <3>3
      <4> QED
        BY <1>6, <4>1 DEF OrderOK
    <3> QED
      BY <3>2, <3>3
  <2>2. CASE ~ (p < SignalListSize)
    <3>1. pendingSignalCount' = p /\ signalList' = signalList
      BY <2>2 DEF Raise
    <3> QED
      BY <1>6, <3>1 DEF OrderOK
  <2> QED
    BY <2>1, <2>2
<1>7. \A d \in 1 .. Len(stack) : stack[d].i \in Nat
  BY OrderlyFacts
<1>8. /\ \A d \in 1 .. Len(stack) : stack[d].kind = "signals" => OrderOK(stack[d].i)
      /\ (\A d \in 1 .. Len(stack) : stack[d].kind # "signals") => OrderOK(0)
      /\ DeliveredInOrder
  BY DEF SignalInv, DeliveryOK
<1>9. ASSUME NEW d \in 1 .. Len(stack), stack[d].kind = "signals"
      PROVE  \A k \in stack[d].i + 1 .. pendingSignalCount' :
                \A j \in 1 .. m : delivered[j] < signalList'[k]
  BY <1>6, <1>7, <1>8, <1>9
<1>10. ASSUME \A d \in 1 .. Len(stack) : stack[d].kind # "signals"
       PROVE  \A k \in 0 + 1 .. pendingSignalCount' :
                 \A j \in 1 .. m : delivered[j] < signalList'[k]
  BY <1>6, <1>8, <1>10
<1>11. DeliveryOK'
  BY <1>1, <1>3, <1>5, <1>8, <1>9, <1>10 DEF DeliveryOK, OrderOK, DeliveredInOrder
<1> QED
  BY <1>2, <1>11

\* The invariant of the signals holds at the start.
LEMMA InitSignalInv == Init => SignalInv
<1> SUFFICES ASSUME Init
             PROVE  SignalInv
  OBVIOUS
<1>1. stack = <<Activation("main", "dispatch", <<>>, 0)>>
  BY DEF Init
<1>2. Len(stack) = 1 /\ stack[1].kind = "main"
  BY <1>1 DEF Activation
<1>3. \A d \in 1 .. Len(stack) : stack[d].kind # "signals"
  BY <1>2
<1>4. delivered = <<>> /\ pendingSignalCount = 0
  BY DEF Init
<1>5. delivered \in Seq(0 .. MaxRaised) /\ Len(delivered) = 0 /\ DOMAIN delivered = {}
  BY <1>4
<1>6. DeliveryOK
  BY <1>3, <1>4, <1>5 DEF DeliveryOK, OrderOK, DeliveredInOrder
<1>7. OnePass
  BY <1>3 DEF OnePass
<1> QED
  BY <1>6, <1>7, InitListOK DEF SignalInv

\* Every step keeps the order of delivery and the single pass.
LEMMA NextOrderly ==
    ASSUME MaxWindowsInSignals <= 1, LoopInv, SignalInv, [Next]_vars
    PROVE  DeliveryOK' /\ OnePass'
<1>0. DeliveryOK /\ OnePass
  BY DEF SignalInv
<1>1. ASSUME NEW t \in UrgentTasks, Go(t) \/ DeleteUrgent(t)
      PROVE  DeliveryOK' /\ OnePass'
  <2>1. stack' = stack /\ hasBlockingWindow' = hasBlockingWindow /\ UNCHANGED signalVars
    BY <1>1 DEF Go, DeleteUrgent
  <2> QED
    BY <1>0, <2>1, StillOrderly
<1>2. ASSUME NEW t \in IdleTasks, InstallIdle(t) \/ RemoveIdle(t)
      PROVE  DeliveryOK' /\ OnePass'
  <2>1. /\ hasBlockingWindow' = hasBlockingWindow /\ UNCHANGED signalVars
        /\ stack' = CursorsAfter(t, TRUE) \/ stack' = CursorsAfter(t, FALSE)
    BY <1>2 DEF InstallIdle, RemoveIdle
  <2> QED
    BY <1>0, <2>1, CursorsOrderly
<1>3. CASE OpenWindow
  BY <1>0, <1>3, OpenWindowOrderly
<1>4. CASE CloseWindow
  BY <1>0, <1>4, CloseWindowOrderly
<1>5. CASE EnterWindow
  BY <1>0, <1>5, EnterWindowOrderly
<1>6. CASE Dispatched
  <2>1. /\ hasBlockingWindow' = hasBlockingWindow /\ UNCHANGED signalVars
        /\ At("idle") \/ At("urgent")
        /\ Top.pc = "dispatch"
    BY <1>6 DEF Dispatched
  <2> QED
    BY <1>0, <2>1, AtOrderly DEF LoopPcs
<1>7. CASE CallIdle
  <2> DEFINE g == Activation("idle", "next", <<>>, Len(idle))
  <2>1. /\ hasBlockingWindow' = hasBlockingWindow /\ UNCHANGED signalVars
        /\ stack' = Front(stack) \o <<[Top EXCEPT !.pc = "urgent"], g>>
        /\ Top.pc = "idle"
    BY <1>7 DEF CallIdle
  <2>2. Top.kind \in {"main", "window"}
    BY <2>1, TopPlace DEF LoopPcs
  <2>3. g \in Activations /\ g.kind = "idle"
    <3>1. Len(idle) \in Nat /\ <<>> \in Seq(UrgentTasks)
      BY LenProperties DEF LoopInv, IdleOK
    <3> QED
      BY <3>1 DEF Activation, Activations, Kinds, LoopPcs
  <2> HIDE DEF g
  <2> QED
    BY <1>0, <2>1, <2>2, <2>3, CallQuiet
<1>8. CASE PerformIdle
  BY <1>0, <1>8, StepOrderly DEF PerformIdle
<1>9. CASE EndIdle
  BY <1>0, <1>9, EndIdleOrderly
<1>10. CASE CallUrgent
  <2> DEFINE g == Activation("urgent", "next", urgent, 0)
  <2>1. /\ hasBlockingWindow' = hasBlockingWindow /\ UNCHANGED signalVars
        /\ stack' = Front(stack) \o <<[Top EXCEPT !.pc = "end"], g>>
        /\ Top.pc = "urgent"
    BY <1>10 DEF CallUrgent
  <2>2. Top.kind \in {"main", "window"}
    BY <2>1, TopPlace DEF LoopPcs
  <2>3. g \in Activations /\ g.kind = "urgent"
    <3>1. urgent \in Seq(UrgentTasks)
      BY DEF LoopInv, UrgentOK
    <3> QED
      BY <3>1 DEF Activation, Activations, Kinds, LoopPcs
  <2> HIDE DEF g
  <2> QED
    BY <1>0, <2>1, <2>2, <2>3, CallQuiet
<1>11. CASE PerformUrgent
  BY <1>0, <1>11, StepOrderly DEF PerformUrgent
<1>12. CASE EndUrgent
  BY <1>0, <1>12, EndUrgentOrderly
<1>13. CASE BroadcastSignal
  BY <1>13, BroadcastSignalOrderly
<1>14. CASE LeaveSignalLoop
  <2>1. /\ hasBlockingWindow' = hasBlockingWindow /\ UNCHANGED signalVars
        /\ At("reset") /\ Top.pc = "test"
    BY <1>14 DEF LeaveSignalLoop
  <2> QED
    BY <1>0, <2>1, AtOrderly
<1>15. CASE ForgetSignals
  BY <1>0, <1>15, ForgetSignalsOrderly
<1>16. CASE Return
  BY <1>0, <1>16, ReturnOrderly
<1>17. CASE EndEvent
  BY <1>0, <1>17, EndEventOrderly
<1>18. CASE Raise
  BY <1>18, RaiseOrderly
<1>19. CASE UNCHANGED vars
  <2>1. stack' = stack /\ hasBlockingWindow' = hasBlockingWindow /\ UNCHANGED signalVars
    BY <1>19 DEF vars
  <2> QED
    BY <1>0, <2>1, StillOrderly
<1> QED
  BY <1>1, <1>2, <1>3, <1>4, <1>5, <1>6, <1>7, <1>8, <1>9, <1>10, <1>11, <1>12, <1>13,
     <1>14, <1>15, <1>16, <1>17, <1>18, <1>19
     DEF Next, Application, Library

\* Every step keeps the invariant of the signals.
LEMMA NextSignalInv ==
    ASSUME MaxWindowsInSignals <= 1
    PROVE  (LoopInv /\ SignalInv) /\ [Next]_vars => (LoopInv /\ SignalInv)'
BY NextLoopInv, NextListOK, NextOrderly DEF SignalInv

\* As long as no blocking window is opened inside another while a signal is being
\* broadcast: signals are broadcast in the order in which they arrived and none of
\* them twice, though they arrive in the middle of a pass, broadcasting one may run
\* an event loop, and that loop too comes past CheckForSignals.
THEOREM SignalsInOrder ==
    ASSUME MaxWindowsInSignals <= 1
    PROVE  Spec => []DeliveredInOrder
<1>1. Init => LoopInv /\ SignalInv
  BY InitLoopInv, InitSignalInv
<1>2. (LoopInv /\ SignalInv) /\ [Next]_vars => (LoopInv /\ SignalInv)'
  BY NextSignalInv
<1>3. LoopInv /\ SignalInv => DeliveredInOrder
  BY DEF SignalInv, DeliveryOK
<1> QED
  BY <1>1, <1>2, <1>3, PTL DEF Spec
=============================================================================
