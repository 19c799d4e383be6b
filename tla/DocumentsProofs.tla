--------------------------- MODULE DocumentsProofs ---------------------------
(***************************************************************************)
(* What holds of closing and hiding documents, for any number of documents *)
(* and calls in progress.                                                  *)
(*                                                                         *)
(* 1. For every tree and every need (Spec): BaseInv, by which the types    *)
(*    are right, ~JXDirector never finds a subdirector left, and a         *)
(*    document that is needed is not deleted.                              *)
(* 2. When subdocuments are not changed while hidden (CarefulSpec):        *)
(*    SavedInv, by which no change is thrown away unasked.                 *)
(* 3. When documents that supervise others are two levels deep, needed by  *)
(*    nobody and never let go (OrderlySpec): OrderlyInv and CoverInv, by   *)
(*    which the assertions hold and no document stays that should have     *)
(*    been closed.                                                         *)
(*                                                                         *)
(* The frames of a stack are bound in order: what a step does to the stack *)
(* is to replace its top (Swapped), to call (Pushed) or to return          *)
(* (Popped), and each invariant is proved kept by these three first, and   *)
(* then by each step.                                                      *)
(***************************************************************************)
EXTENDS OrderlyDocuments, CursorLemmas, FiniteSetTheorems

Directors == Docs \cup {App}

Hiding   == {"deactivate", "deactivateSubs", "deactivatedSub"}
Scanning == {"scan", "scanned"}
Shutting == {"close", "closable", "hidden", "assert", "subs", "gone"}
Busy     == {"subs", "gone"}
Waiting  == {"hidden", "subs", "gone", "firstClosed", "scanned", "deactivatedSub"}

Frame ==
    [pc : Hiding \cup Scanning \cup Shutting \cup {"first", "firstClosed"}, dir : Directors,
     i : Nat, first : Directors, closed : BOOLEAN, count : Nat]

Types ==
    /\ supervisor \in [Docs -> Directors] /\ supervisor \in Supervisors
    /\ needs \in NeedGraphs
    /\ subs \in [Directors -> Seq(Docs)]
    /\ docList \in Seq(Docs)
    /\ keepOpen \subseteq Docs /\ active \subseteq Docs /\ unsaved \subseteq Docs
    /\ closing \subseteq Directors
    /\ stack \in Seq(Frame)
    /\ result \in BOOLEAN /\ failed \in BOOLEAN

TreeOK(list, tree, cl, sup) ==
    /\ NoRepeats(list)
    /\ \A e \in Directors : NoRepeats(tree[e])
    /\ \A e \in Directors : \A d \in ElementsOf(tree[e]) :
          sup[d] = e /\ d \in ElementsOf(list) \cup cl
    /\ \A d \in ElementsOf(list) \cup (cl \cap Docs) : d \in ElementsOf(tree[sup[d]])

ClosingOK(st, cl) ==
    /\ \A k \in 1 .. Len(st) : st[k].pc \in Busy => st[k].dir \in cl
    /\ \A d \in cl : \E k \in 1 .. Len(st) : st[k].pc \in Busy /\ st[k].dir = d
    /\ \A k, l \in 1 .. Len(st) :
          st[k].pc \in Busy /\ st[l].pc \in Busy /\ st[k].dir = st[l].dir => k = l

Unneeded(d, list, graph) == \A e \in ElementsOf(list) : e # d => <<e, d>> \notin graph

FrameOK(f, list, tree, graph) ==
    /\ f.pc \in {"close", "closable", "hidden"} \cup Hiding => f.dir \in Docs
    /\ f.pc \in {"closable", "hidden"} => f.dir \in ElementsOf(list)
    /\ f.pc = "hidden" => ~ Unneeded(f.dir, list, graph)
    /\ f.pc \in {"assert", "subs"} /\ f.dir # App =>
          f.dir \in ElementsOf(list) /\ Unneeded(f.dir, list, graph)
    /\ f.pc = "gone" => f.dir \notin ElementsOf(list) /\ tree[f.dir] = <<>>
    /\ f.pc \in Hiding => f.i >= 1 /\ f.count = Len(tree[f.dir])
    /\ f.pc \in Scanning => f.dir = App /\ f.i >= 1

FramesOK(st, list, tree, graph) == \A k \in 1 .. Len(st) : FrameOK(st[k], list, tree, graph)

Under(f, g) ==
    /\ f.pc \in Waiting
    /\ f.pc \in {"hidden", "deactivatedSub"} => g.pc \in Hiding
    /\ f.pc = "subs" => g.pc \in {"first", "firstClosed"} /\ g.dir = f.dir
    /\ f.pc = "gone" => g.pc \in Scanning /\ f.dir # App
    /\ f.pc \in {"firstClosed", "scanned"} => g.pc \in Shutting

OrderOK(st) ==
    /\ \A k \in 1 .. Len(st) - 1 : Under(st[k], st[k + 1])
    /\ \A k, l \in 1 .. Len(st) :
          k < l /\ st[k].pc \in {"hidden", "deactivatedSub"} => st[l].pc \in Hiding

\* All subdirectors have gone.
EmptiedOK(st, res, tree) ==
    st # <<>> /\ st[Len(st)].pc = "subs" /\ res => tree[st[Len(st)].dir] = <<>>

BaseInv ==
    /\ Types
    /\ TreeOK(docList, subs, closing, supervisor)
    /\ ClosingOK(stack, closing)
    /\ FramesOK(stack, docList, subs, needs)
    /\ OrderOK(stack)
    /\ EmptiedOK(stack, result, subs)

Swapped(s, t, f) ==
    /\ t \in Seq(Frame) /\ Len(t) = Len(s) /\ t[Len(s)] = f
    /\ \A k \in 1 .. Len(s) - 1 : t[k] = s[k]

Pushed(s, t, f, g) ==
    /\ t \in Seq(Frame) /\ Len(t) = Len(s) + 1 /\ t[Len(s)] = f /\ t[Len(s) + 1] = g
    /\ \A k \in 1 .. Len(s) - 1 : t[k] = s[k]

Popped(s, t) ==
    /\ t \in Seq(Frame) /\ Len(t) = Len(s) - 1
    /\ \A k \in 1 .. Len(s) - 1 : t[k] = s[k]

Single(t, f) == t \in Seq(Frame) /\ Len(t) = 1 /\ t[1] = f

-----------------------------------------------------------------------------
\* The frame that runs is the last of the stack.
LEMMA TopFacts ==
    ASSUME NEW st \in Seq(Frame), st # <<>>
    PROVE  /\ Len(st) \in Nat /\ Len(st) >= 1
           /\ \A k \in 1 .. Len(st) : st[k] \in Frame
           /\ Last(st) = st[Len(st)] /\ Last(st) \in Frame
<1>1. /\ Len(st) \in Nat /\ Len(st) >= 1
      /\ \A k \in 1 .. Len(st) : st[k] \in Frame
  BY FrontProperties, EmptySeq, LenProperties, ElementOfSeq
<1> QED
  BY <1>1 DEF Last

\* A stack whose top is replaced.
LEMMA Swap ==
    ASSUME NEW st \in Seq(Frame), st # <<>>, NEW f \in Frame
    PROVE  Swapped(st, Front(st) \o <<f>>, f)
<1> DEFINE n == Len(st)
<1>1. /\ n \in Nat /\ n >= 1
      /\ Front(st) \in Seq(Frame) /\ Len(Front(st)) = n - 1
      /\ \A k \in 1 .. n - 1 : Front(st)[k] = st[k]
      /\ Front(st) \o <<f>> \in Seq(Frame) /\ Len(Front(st) \o <<f>>) = n
      /\ (Front(st) \o <<f>>)[n] = f
  BY FrontProperties
<1>2. ASSUME NEW k \in 1 .. n - 1 PROVE (Front(st) \o <<f>>)[k] = st[k]
  <2>1. (Front(st) \o <<f>>)[k] = Front(st)[k]
    BY <1>1
  <2> QED
    BY <1>1, <2>1
<1> QED
  BY <1>1, <1>2 DEF Swapped

\* A stack whose top makes a call.
LEMMA Push ==
    ASSUME NEW st \in Seq(Frame), st # <<>>, NEW f \in Frame, NEW g \in Frame
    PROVE  Pushed(st, Front(st) \o <<f, g>>, f, g)
<1> DEFINE n == Len(st)
           fr == Front(st)
           t == fr \o <<f, g>>
<1>1. /\ n \in Nat /\ n >= 1
      /\ fr \in Seq(Frame) /\ Len(fr) = n - 1
      /\ \A k \in 1 .. n - 1 : fr[k] = st[k]
  BY FrontProperties
<1> HIDE DEF fr, n
<1>2. <<f, g>> \in Seq(Frame) /\ Len(<<f, g>>) = 2 /\ <<f, g>>[1] = f /\ <<f, g>>[2] = g
  OBVIOUS
<1>3. /\ t \in Seq(Frame) /\ Len(t) = n - 1 + 2
      /\ \A k \in 1 .. n + 1 : t[k] = IF k <= n - 1 THEN fr[k] ELSE <<f, g>>[k - (n - 1)]
  BY <1>1, <1>2, ConcatProperties
<1>4. t[n] = f /\ t[n + 1] = g /\ \A k \in 1 .. n - 1 : t[k] = st[k]
  BY <1>1, <1>2, <1>3
<1> QED
  BY <1>1, <1>3, <1>4 DEF Pushed, n, fr

\* A stack whose top returns.
LEMMA Pop ==
    ASSUME NEW st \in Seq(Frame), st # <<>>
    PROVE  Popped(st, Front(st))
<1>1. PICK f \in Frame : f = st[Len(st)]
  BY TopFacts
<1> QED
  BY <1>1, FrontProperties DEF Popped

\* Wherever g is above another frame, f may be instead.
MayReplace(g, f) ==
    /\ f.dir = g.dir
    /\ g.pc \in Hiding => f.pc \in Hiding
    /\ g.pc \in {"first", "firstClosed"} => f.pc \in {"first", "firstClosed"}
    /\ g.pc \in Scanning => f.pc \in Scanning
    /\ g.pc \in Shutting => f.pc \in Shutting

BelowOK(st, list, tree, graph) ==
    \A k \in 1 .. Len(st) - 1 : FrameOK(st[k], list, tree, graph)

StackOK(st, cl, list, tree, graph) ==
    ClosingOK(st, cl) /\ FramesOK(st, list, tree, graph) /\ OrderOK(st)

\* A frame that replaces the top may be where the top was.
LEMMA ReplaceUnder ==
    ASSUME NEW e, NEW f, NEW g, MayReplace(g, f), Under(e, g)
    PROVE  Under(e, f)
BY DEF MayReplace, Under

\* Replacing the top keeps the stack in order.
LEMMA SwapOK ==
    ASSUME NEW st \in Seq(Frame), st # <<>>, NEW f \in Frame, NEW t, Swapped(st, t, f),
           NEW cl, NEW list, NEW tree, NEW graph,
           ClosingOK(st, cl), OrderOK(st), BelowOK(st, list, tree, graph),
           MayReplace(Last(st), f), f.pc \in Busy <=> Last(st).pc \in Busy,
           FrameOK(f, list, tree, graph)
    PROVE  StackOK(t, cl, list, tree, graph)
<1> DEFINE n == Len(st)
<1>1. n \in Nat /\ n >= 1 /\ Last(st) = st[n]
  BY TopFacts
<1>2. Len(t) = n /\ t[n] = f /\ \A k \in 1 .. n - 1 : t[k] = st[k]
  BY DEF Swapped
<1> HIDE DEF n
<1>3. f.dir = st[n].dir /\ (f.pc \in Busy <=> st[n].pc \in Busy)
  BY <1>1 DEF MayReplace
<1>4. ClosingOK(t, cl)
  <2>1. \A k \in 1 .. n : t[k].dir = st[k].dir /\ (t[k].pc \in Busy <=> st[k].pc \in Busy)
    BY <1>1, <1>2, <1>3
  <2>2. /\ \A k \in 1 .. n : st[k].pc \in Busy => st[k].dir \in cl
        /\ \A d \in cl : \E k \in 1 .. n : st[k].pc \in Busy /\ st[k].dir = d
        /\ \A k, l \in 1 .. n :
              st[k].pc \in Busy /\ st[l].pc \in Busy /\ st[k].dir = st[l].dir => k = l
    BY DEF ClosingOK, n
  <2> QED
    BY <1>2, <2>1, <2>2 DEF ClosingOK
<1>5. FramesOK(t, list, tree, graph)
  BY <1>1, <1>2 DEF FramesOK, BelowOK, n
<1>6. OrderOK(t)
  <2>1. ASSUME NEW k \in 1 .. n - 1 PROVE Under(t[k], t[k + 1])
    <3>1. Under(st[k], st[k + 1]) /\ t[k] = st[k]
      BY <1>2 DEF OrderOK, n
    <3>2. CASE k + 1 = n
      BY <1>1, <1>2, <3>1, <3>2, ReplaceUnder
    <3>3. CASE k + 1 # n
      BY <1>1, <1>2, <3>1, <3>3
    <3> QED
      BY <3>2, <3>3
  <2>2. ASSUME NEW k \in 1 .. n, NEW l \in 1 .. n, k < l,
               t[k].pc \in {"hidden", "deactivatedSub"}
        PROVE  t[l].pc \in Hiding
    <3>1. t[k] = st[k]
      BY <1>1, <1>2, <2>2
    <3>2. st[l].pc \in Hiding
      BY <2>2, <3>1 DEF OrderOK, n
    <3>3. l = n => f.pc \in Hiding
      BY <1>1, <3>2 DEF MayReplace
    <3> QED
      BY <1>1, <1>2, <3>2, <3>3
  <2> QED
    BY <1>2, <2>1, <2>2 DEF OrderOK
<1> QED
  BY <1>4, <1>5, <1>6 DEF StackOK

\* f instead of the top, and g above it; cl2 is cl, with the director of f if that is
\* only now being closed.
LEMMA PushOK ==
    ASSUME NEW st \in Seq(Frame), st # <<>>, NEW f \in Frame, NEW g \in Frame, NEW t,
           Pushed(st, t, f, g),
           NEW cl, NEW cl2, NEW list, NEW tree, NEW graph,
           ClosingOK(st, cl), OrderOK(st), BelowOK(st, list, tree, graph),
           MayReplace(Last(st), f), Under(f, g), g.pc \notin Busy,
           Last(st).pc \in Hiding => g.pc \in Hiding,
           \/ cl2 = cl /\ (f.pc \in Busy <=> Last(st).pc \in Busy)
           \/ f.pc \in Busy /\ Last(st).pc \notin Busy /\ f.dir \notin cl /\ cl2 = cl \cup {f.dir},
           FrameOK(f, list, tree, graph), FrameOK(g, list, tree, graph)
    PROVE  StackOK(t, cl2, list, tree, graph)
<1> DEFINE n == Len(st)
<1>1. n \in Nat /\ n >= 1 /\ Last(st) = st[n]
  BY TopFacts
<1>2. Len(t) = n + 1 /\ t[n] = f /\ t[n + 1] = g /\ \A k \in 1 .. n - 1 : t[k] = st[k]
  BY DEF Pushed
<1>0. Len(st) = n
  OBVIOUS
<1> HIDE DEF n
<1>3. f.dir = st[n].dir
  BY <1>1 DEF MayReplace
<1>4. ClosingOK(t, cl2)
  <2>1. \A k \in 1 .. n - 1 : t[k].dir = st[k].dir /\ (t[k].pc \in Busy <=> st[k].pc \in Busy)
    BY <1>2
  <2>2. /\ \A k \in 1 .. n : st[k].pc \in Busy => st[k].dir \in cl
        /\ \A d \in cl : \E k \in 1 .. n : st[k].pc \in Busy /\ st[k].dir = d
        /\ \A k, l \in 1 .. n :
              st[k].pc \in Busy /\ st[l].pc \in Busy /\ st[k].dir = st[l].dir => k = l
    BY <1>0 DEF ClosingOK
  <2>3. t[n].dir = st[n].dir /\ t[n + 1].pc \notin Busy
    BY <1>2, <1>3
  <2>4. CASE cl2 = cl /\ (f.pc \in Busy <=> st[n].pc \in Busy)
    <3>1. \A k \in 1 .. n : t[k].dir = st[k].dir /\ (t[k].pc \in Busy <=> st[k].pc \in Busy)
      BY <1>1, <1>2, <2>1, <2>3, <2>4
    <3>2. \A k \in 1 .. n + 1 : k \in 1 .. n \/ k = n + 1
      BY <1>1
    <3>3. \A k \in 1 .. n : k \in 1 .. n + 1
      BY <1>1
    <3> QED
      BY <1>2, <2>2, <2>3, <2>4, <3>1, <3>2, <3>3 DEF ClosingOK
  <2>5. CASE f.pc \in Busy /\ st[n].pc \notin Busy /\ f.dir \notin cl /\ cl2 = cl \cup {f.dir}
    <3>1. \A k \in 1 .. n + 1 : k \in 1 .. n - 1 \/ k = n \/ k = n + 1
      BY <1>1
    <3>2. \A k \in 1 .. n : k \in 1 .. n + 1
      BY <1>1
    <3>3. /\ \A k \in 1 .. n - 1 : st[k].pc \in Busy => st[k].dir \in cl
          /\ \A d \in cl : \E k \in 1 .. n - 1 : st[k].pc \in Busy /\ st[k].dir = d
          /\ \A k, l \in 1 .. n - 1 :
              st[k].pc \in Busy /\ st[l].pc \in Busy /\ st[k].dir = st[l].dir => k = l
      BY <1>1, <2>2, <2>5
    <3>4. /\ \A k \in 1 .. n - 1 : t[k].pc \in Busy => t[k].dir \in cl
          /\ \A d \in cl : \E k \in 1 .. n - 1 : t[k].pc \in Busy /\ t[k].dir = d
          /\ \A k, l \in 1 .. n - 1 :
              t[k].pc \in Busy /\ t[l].pc \in Busy /\ t[k].dir = t[l].dir => k = l
      BY <2>1, <3>3
    <3>5. t[n].pc \in Busy /\ t[n].dir = f.dir /\ n \in 1 .. n + 1
          /\ \A k \in 1 .. n - 1 : k \in 1 .. n + 1
      BY <1>1, <1>2, <2>5
    <3>6. \A k \in 1 .. n + 1 : t[k].pc \in Busy => t[k].dir \in cl2
      BY <2>3, <2>5, <3>1, <3>4, <3>5
    <3>7. \A d \in cl2 : \E k \in 1 .. n + 1 : t[k].pc \in Busy /\ t[k].dir = d
      BY <2>5, <3>4, <3>5
    <3>8. \A k, l \in 1 .. n + 1 :
              t[k].pc \in Busy /\ t[l].pc \in Busy /\ t[k].dir = t[l].dir => k = l
      <4>1. ASSUME NEW k \in 1 .. n - 1, t[k].pc \in Busy PROVE t[k].dir # t[n].dir
        BY <2>5, <3>4, <3>5, <4>1
      <4> QED
        BY <2>3, <3>1, <3>4, <4>1
    <3> QED
      BY <1>2, <3>6, <3>7, <3>8 DEF ClosingOK
  <2> QED
    BY <1>1, <2>4, <2>5
<1>5. FramesOK(t, list, tree, graph)
  BY <1>0, <1>1, <1>2 DEF FramesOK, BelowOK
<1>6. OrderOK(t)
  <2>1. ASSUME NEW k \in 1 .. n PROVE Under(t[k], t[k + 1])
    <3>1. CASE k = n
      BY <1>2, <3>1
    <3>2. CASE k # n
      <4>1. k \in 1 .. n - 1
        BY <1>1, <3>2
      <4>2. Under(st[k], st[k + 1]) /\ t[k] = st[k]
        BY <1>0, <1>2, <4>1 DEF OrderOK
      <4>3. CASE k + 1 = n
        <5>1. Under(st[k], f)
          BY <1>1, <4>2, <4>3, ReplaceUnder
        <5> QED
          BY <1>2, <4>2, <4>3, <5>1
      <4>4. CASE k + 1 # n
        <5>1. k + 1 \in 1 .. n - 1
          BY <1>1, <4>1, <4>4
        <5>2. t[k] = st[k] /\ t[k + 1] = st[k + 1]
          BY <1>2, <4>2, <5>1
        <5> QED
          BY <4>2, <5>2
      <4> QED
        BY <4>3, <4>4
    <3> QED
      BY <3>1, <3>2
  <2>2. ASSUME NEW k \in 1 .. n + 1, NEW l \in 1 .. n + 1, k < l,
               t[k].pc \in {"hidden", "deactivatedSub"}
        PROVE  t[l].pc \in Hiding
    <3>1. CASE k = n
      BY <1>1, <1>2, <2>2, <3>1 DEF Under
    <3>2. CASE k # n
      <4>1. k \in 1 .. n - 1 /\ t[k] = st[k]
        BY <1>1, <1>2, <2>2, <3>2
      <4>2. \A m \in 1 .. n : k < m => st[m].pc \in Hiding
        BY <1>0, <1>1, <2>2, <4>1 DEF OrderOK
      <4>3. st[n].pc \in Hiding
        BY <1>1, <4>1, <4>2
      <4>4. f.pc \in Hiding /\ g.pc \in Hiding
        BY <1>1, <4>3 DEF MayReplace
      <4> QED
        BY <1>1, <1>2, <2>2, <4>2, <4>4
    <3> QED
      BY <3>1, <3>2
  <2> QED
    BY <1>1, <1>2, <2>1, <2>2 DEF OrderOK
<1> QED
  BY <1>4, <1>5, <1>6 DEF StackOK

\* The top returns; cl2 is what is still being closed.
LEMMA PopOK ==
    ASSUME NEW st \in Seq(Frame), st # <<>>, NEW t, Popped(st, t),
           NEW cl, NEW cl2, NEW list, NEW tree, NEW graph,
           ClosingOK(st, cl), OrderOK(st), BelowOK(st, list, tree, graph),
           cl2 = IF Last(st).pc \in Busy THEN cl \ {Last(st).dir} ELSE cl
    PROVE  StackOK(t, cl2, list, tree, graph)
<1> DEFINE n == Len(st)
<1>1. n \in Nat /\ n >= 1 /\ Last(st) = st[n]
  BY TopFacts
<1>2. Len(t) = n - 1 /\ \A k \in 1 .. n - 1 : t[k] = st[k]
  BY DEF Popped
<1>0. Len(st) = n
  OBVIOUS
<1> HIDE DEF n
<1>4. ClosingOK(t, cl2)
  <2>2. /\ \A k \in 1 .. n : st[k].pc \in Busy => st[k].dir \in cl
        /\ \A d \in cl : \E k \in 1 .. n : st[k].pc \in Busy /\ st[k].dir = d
        /\ \A k, l \in 1 .. n :
              st[k].pc \in Busy /\ st[l].pc \in Busy /\ st[k].dir = st[l].dir => k = l
    BY <1>0 DEF ClosingOK
  <2>3. /\ \A k \in 1 .. n - 1 : st[k].pc \in Busy => st[k].dir \in cl2
        /\ \A d \in cl2 : \E k \in 1 .. n - 1 : st[k].pc \in Busy /\ st[k].dir = d
    BY <1>1, <2>2
  <2>4. \A k, l \in 1 .. n - 1 :
              st[k].pc \in Busy /\ st[l].pc \in Busy /\ st[k].dir = st[l].dir => k = l
    BY <1>1, <2>2
  <2> QED
    BY <1>2, <2>3, <2>4 DEF ClosingOK
<1>5. FramesOK(t, list, tree, graph)
  BY <1>0, <1>1, <1>2 DEF FramesOK, BelowOK
<1>6. OrderOK(t)
  BY <1>0, <1>1, <1>2 DEF OrderOK
<1> QED
  BY <1>4, <1>5, <1>6 DEF StackOK

\* A call made by the event loop.
LEMMA SingleOK ==
    ASSUME NEW t, NEW f, Single(t, f), f.pc \notin Busy,
           NEW list, NEW tree, NEW graph, FrameOK(f, list, tree, graph)
    PROVE  StackOK(t, {}, list, tree, graph)
BY DEF Single, StackOK, ClosingOK, FramesOK, OrderOK

\* A new element at the end repeats nothing.
LEMMA AppendOnce ==
    ASSUME NEW S, NEW s \in Seq(S), NEW e \in S, NoRepeats(s), e \notin ElementsOf(s)
    PROVE  /\ Append(s, e) \in Seq(S) /\ NoRepeats(Append(s, e))
           /\ ElementsOf(Append(s, e)) = ElementsOf(s) \cup {e}
<1> DEFINE t == Append(s, e)
           n == Len(s)
<1>1. n \in Nat /\ DOMAIN s = 1 .. n
  BY LenProperties
<1>2. /\ t \in Seq(S) /\ Len(t) = n + 1
      /\ \A i \in 1 .. n : t[i] = s[i]
      /\ t[n + 1] = e
  BY AppendProperties
<1>3. DOMAIN t = 1 .. n + 1
  BY <1>2, LenProperties
<1> HIDE DEF t, n
<1>4. \A i \in 1 .. n + 1 : i \in 1 .. n \/ i = n + 1
  BY <1>1
<1>5. n + 1 \in 1 .. n + 1 /\ \A i \in 1 .. n : i \in 1 .. n + 1
  BY <1>1
<1>6. \A i \in 1 .. n : s[i] # e
  BY <1>1 DEF ElementsOf
<1>7. NoRepeats(t)
  BY <1>1, <1>2, <1>3, <1>4, <1>6 DEF NoRepeats
<1>8. ElementsOf(t) = ElementsOf(s) \cup {e}
  BY <1>1, <1>2, <1>3, <1>4, <1>5 DEF ElementsOf
<1> QED
  BY <1>2, <1>7, <1>8 DEF t

\* The first element put at the end.
LEMMA Rotated ==
    ASSUME NEW S, NEW s \in Seq(S), s # <<>>, NoRepeats(s)
    PROVE  LET t == Append(Tail(s), Head(s))
           IN  t \in Seq(S) /\ t # <<>> /\ Len(t) = Len(s) /\ NoRepeats(t) /\ ElementsOf(t) = ElementsOf(s)
<1> DEFINE r == Tail(s)
           n == Len(s)
<1>1. n \in Nat /\ n >= 1 /\ DOMAIN s = 1 .. n /\ Head(s) = s[1]
  BY LenProperties, EmptySeq
<1>2. /\ Head(s) \in S
      /\ r \in Seq(S) /\ Len(r) = n - 1
      /\ \A i \in 1 .. n - 1 : r[i] = s[i + 1]
  BY HeadTailProperties
<1>3. DOMAIN r = 1 .. n - 1
  BY <1>2, LenProperties
<1> HIDE DEF r, n
<1>3a. \A i \in 1 .. n - 1 : i + 1 \in 1 .. n /\ i + 1 # 1 /\ r[i] = s[i + 1]
  BY <1>1, <1>2
<1>3b. \A i, j \in 1 .. n - 1 : i + 1 = j + 1 => i = j
  BY <1>1
<1>3c. 1 \in 1 .. n
  BY <1>1
<1>3d. \A i, j \in 1 .. n : s[i] = s[j] => i = j
  BY <1>1 DEF NoRepeats
<1>3e. \A i, j \in 1 .. n - 1 : r[i] = r[j] => i + 1 = j + 1
  BY <1>3a, <1>3d
<1>4. NoRepeats(r)
  BY <1>3, <1>3b, <1>3e DEF NoRepeats
<1>5. Head(s) \notin ElementsOf(r)
  <2>1. \A i \in 1 .. n - 1 : r[i] # s[1]
    BY <1>3a, <1>3c, <1>3d
  <2> QED
    BY <1>1, <1>3, <2>1 DEF ElementsOf
<1>6. ElementsOf(s) = ElementsOf(r) \cup {Head(s)}
  <2>1. \A i \in 1 .. n : i # 1 => i - 1 \in 1 .. n - 1 /\ s[i] = r[i - 1]
    BY <1>1, <1>2
  <2>2. ASSUME NEW x \in ElementsOf(s) PROVE x \in ElementsOf(r) \cup {Head(s)}
    BY <1>1, <1>3, <2>1, <2>2 DEF ElementsOf
  <2>3. ASSUME NEW x \in ElementsOf(r) PROVE x \in ElementsOf(s)
    BY <1>1, <1>3, <1>3a, <2>3 DEF ElementsOf
  <2>4. Head(s) \in ElementsOf(s)
    BY <1>1, <1>3c DEF ElementsOf
  <2> QED
    BY <2>2, <2>3, <2>4
<1>7. /\ Append(r, Head(s)) \in Seq(S)
      /\ Append(r, Head(s)) # <<>>
      /\ Len(Append(r, Head(s))) = n - 1 + 1
  BY <1>2, AppendProperties
<1>8. /\ NoRepeats(Append(r, Head(s)))
      /\ ElementsOf(Append(r, Head(s))) = ElementsOf(r) \cup {Head(s)}
  BY <1>2, <1>4, <1>5, AppendOnce
<1> QED
  BY <1>1, <1>6, <1>7, <1>8 DEF r, n

-----------------------------------------------------------------------------
Steps == Hiding \cup Scanning \cup Shutting \cup {"first", "firstClosed"}

\* A frame that goes on to another step is a frame.
LEMMA WithPc ==
    ASSUME NEW f \in Frame, NEW pc \in Steps
    PROVE  LET g == [f EXCEPT !.pc = pc]
           IN  /\ g \in Frame /\ g.pc = pc /\ g.dir = f.dir /\ g.i = f.i /\ g.first = f.first
               /\ g.closed = f.closed /\ g.count = f.count
BY DEF Frame, Steps

\* The frame of a call.
LEMMA Called ==
    ASSUME Types, docList' \in Seq(Docs), NEW pc \in Steps, NEW dir \in Directors
    PROVE  /\ Call(pc, dir) \in Frame
           /\ Call(pc, dir).pc = pc /\ Call(pc, dir).dir = dir /\ Call(pc, dir).i = 1
           /\ Call(pc, dir).closed = FALSE /\ Call(pc, dir).first = App
           /\ pc # "scan" => Call(pc, dir).count = Len(subs[dir])
           /\ pc = "scan" /\ dir = App => Call(pc, dir).count = Len(docList')
<1>1. Len(subs[dir]) \in Nat /\ Len(docList') \in Nat
  BY LenProperties DEF Types
<1>2. App \in Directors
  BY DEF Directors
<1> QED
  BY <1>1, <1>2 DEF Call, Frame, Steps

\* What is known of the frame that runs.
LEMMA TopKnown ==
    ASSUME BaseInv, stack # <<>>
    PROVE  /\ Len(stack) \in Nat /\ Len(stack) >= 1
           /\ Top = stack[Len(stack)] /\ Top = Last(stack)
           /\ Top \in Frame /\ Top.pc \in Steps /\ Top.dir \in Directors
           /\ FrameOK(Top, docList, subs, needs)
           /\ BelowOK(stack, docList, subs, needs)
           /\ ClosingOK(stack, closing) /\ OrderOK(stack)
<1>1. /\ Len(stack) \in Nat /\ Len(stack) >= 1
      /\ Top = stack[Len(stack)] /\ Top = Last(stack)
      /\ Top \in Frame
  BY TopFacts DEF BaseInv, Types, Top
<1>2. Top.pc \in Steps /\ Top.dir \in Directors
  BY <1>1 DEF Frame, Steps
<1>3. FramesOK(stack, docList, subs, needs) /\ ClosingOK(stack, closing) /\ OrderOK(stack)
  BY DEF BaseInv
<1>4. FrameOK(Top, docList, subs, needs) /\ BelowOK(stack, docList, subs, needs)
  <2>1. Len(stack) \in 1 .. Len(stack) /\ \A k \in 1 .. Len(stack) - 1 : k \in 1 .. Len(stack)
    BY <1>1
  <2> QED
    BY <1>1, <1>3, <2>1 DEF FramesOK, BelowOK
<1> QED
  BY <1>1, <1>2, <1>3, <1>4

\* The parts of BaseInv' when nothing but the stack and the data of documents changes.
DataTyped ==
    /\ UNCHANGED <<input, subs, docList, closing>>
    /\ keepOpen' \subseteq Docs /\ active' \subseteq Docs /\ unsaved' \subseteq Docs
    /\ result' \in BOOLEAN /\ failed' \in BOOLEAN

\* A step that leaves the directors alone and the stack in order keeps the base invariant.
LEMMA OnlyStack ==
    ASSUME BaseInv, DataTyped, stack' \in Seq(Frame),
           StackOK(stack', closing, docList, subs, needs), EmptiedOK(stack', result', subs)
    PROVE  BaseInv'
<1>1. /\ supervisor' = supervisor /\ needs' = needs /\ subs' = subs /\ docList' = docList
      /\ closing' = closing
  BY DEF DataTyped, input
<1>2. Types'
  BY <1>1 DEF BaseInv, Types, DataTyped
<1>3. TreeOK(docList', subs', closing', supervisor')
  BY <1>1 DEF BaseInv
<1>4. StackOK(stack', closing', docList', subs', needs') /\ EmptiedOK(stack', result', subs')
  BY <1>1
<1> QED
  BY <1>2, <1>3, <1>4 DEF BaseInv, StackOK

\* A step that only replaces the top keeps the base invariant.
LEMMA OnlySwap ==
    ASSUME BaseInv, DataTyped, stack # <<>>, NEW f \in Frame, stack' = Front(stack) \o <<f>>,
           MayReplace(Top, f), f.pc \in Busy <=> Top.pc \in Busy, f.pc # "subs",
           FrameOK(f, docList, subs, needs)
    PROVE  BaseInv'
<1>1. Swapped(stack, stack', f)
  BY Swap DEF BaseInv, Types
<1>2. stack \in Seq(Frame)
  BY DEF BaseInv, Types
<1>3. StackOK(stack', closing, docList, subs, needs)
  BY <1>1, <1>2, TopKnown, SwapOK
<1>4. stack' \in Seq(Frame) /\ EmptiedOK(stack', result', subs)
  BY <1>1 DEF Swapped, EmptiedOK
<1> QED
  BY <1>3, <1>4, OnlyStack

\* A step that only calls keeps the base invariant.
LEMMA OnlyPush ==
    ASSUME BaseInv, DataTyped, stack # <<>>, NEW f \in Frame, NEW g \in Frame,
           stack' = Front(stack) \o <<f, g>>,
           MayReplace(Top, f), f.pc \in Busy <=> Top.pc \in Busy, Under(f, g), g.pc \notin Busy,
           Top.pc \in Hiding => g.pc \in Hiding,
           FrameOK(f, docList, subs, needs), FrameOK(g, docList, subs, needs)
    PROVE  BaseInv'
<1>1. Pushed(stack, stack', f, g)
  BY Push DEF BaseInv, Types
<1>2. stack \in Seq(Frame)
  BY DEF BaseInv, Types
<1>3. StackOK(stack', closing, docList, subs, needs)
  BY <1>1, <1>2, TopKnown, PushOK
<1>4. stack' \in Seq(Frame) /\ EmptiedOK(stack', result', subs)
  BY <1>1 DEF Pushed, EmptiedOK, Busy
<1> QED
  BY <1>3, <1>4, OnlyStack

\* What a frame of CloseAllSubdirectors returns to has no subdirectors left.
LEMMA EmptiedAfter ==
    ASSUME BaseInv, stack # <<>>, NEW t, Popped(stack, t), NEW res, NEW tree,
           Top.pc \in {"first", "firstClosed"} /\ res => tree[Top.dir] = <<>>
    PROVE  EmptiedOK(t, res, tree)
<1>1. SUFFICES ASSUME t # <<>>, t[Len(t)].pc = "subs", res
               PROVE  tree[t[Len(t)].dir] = <<>>
  BY DEF EmptiedOK
<1>2. Len(stack) \in Nat /\ Top = stack[Len(stack)] /\ OrderOK(stack)
  BY TopKnown
<1>3. t \in Seq(Frame) /\ Len(t) = Len(stack) - 1
  BY DEF Popped
<1>4. Len(t) \in 1 .. Len(stack) - 1
  BY <1>1, <1>2, <1>3, EmptySeq
<1>5. t[Len(t)] = stack[Len(t)]
  BY <1>4 DEF Popped
<1>7. Under(stack[Len(t)], stack[Len(t) + 1])
  BY <1>2, <1>4 DEF OrderOK
<1>6. Under(t[Len(t)], Top)
  BY <1>2, <1>3, <1>5, <1>7
<1> QED
  BY <1>1, <1>6 DEF Under

\* A step that only returns keeps the base invariant.
LEMMA OnlyPop ==
    ASSUME BaseInv, DataTyped, stack # <<>>, stack' = Front(stack), Top.pc \notin Busy,
           Top.pc \in {"first", "firstClosed"} /\ result' => subs[Top.dir] = <<>>
    PROVE  BaseInv'
<1>1. Popped(stack, stack')
  BY Pop DEF BaseInv, Types
<1>2. stack \in Seq(Frame)
  BY DEF BaseInv, Types
<1>3. StackOK(stack', closing, docList, subs, needs)
  BY <1>1, <1>2, TopKnown, PopOK
<1>4. stack' \in Seq(Frame) /\ EmptiedOK(stack', result', subs)
  BY <1>1, EmptiedAfter DEF Popped
<1> QED
  BY <1>3, <1>4, OnlyStack

\* A step that changes only what documents hold keeps the base invariant.
LEMMA OnlyData ==
    ASSUME BaseInv, DataTyped, stack' = stack, result' = result
    PROVE  BaseInv'
<1>1. stack' \in Seq(Frame)
  BY DEF BaseInv, Types
<1>2. StackOK(stack', closing, docList, subs, needs) /\ EmptiedOK(stack', result', subs)
  BY DEF BaseInv, StackOK
<1> QED
  BY <1>1, <1>2, OnlyStack

\* A failed assertion keeps the base invariant.
LEMMA FailingStep ==
    ASSUME BaseInv, Failing
    PROVE  BaseInv'
<1>1. DataTyped
  BY DEF BaseInv, Types, Failing, DataTyped, directors, data, vars
<1> QED
  BY <1>1, OnlyData DEF Failing

\* The list of documents only shrinks or stays while calls are in progress.
LEMMA AskToCloseStep ==
    ASSUME BaseInv, AskToClose
    PROVE  BaseInv'
<1>1. stack # <<>> /\ ~ failed /\ Top.pc = "close"
  BY DEF AskToClose, Running
<1>2. CASE Top.dir \notin Listed
  BY <1>2, FailingStep DEF AskToClose
<1>3. ASSUME Top.dir \in Listed, NEW ok \in BOOLEAN, OKToClose(Top.dir, ok),
             IF ok THEN At("closable") /\ UNCHANGED result ELSE Returning(FALSE),
             UNCHANGED <<input, directors, lost, failed>>
      PROVE  BaseInv'
  <2>1. Top \in Frame /\ FrameOK(Top, docList, subs, needs)
    BY <1>1, TopKnown
  <2>2. Top.dir \in Docs /\ Top.dir \in ElementsOf(docList)
    BY <1>1, <1>3, <2>1 DEF FrameOK, Listed, Range, ElementsOf
  <2>3. DataTyped
    <3>1. active' \subseteq Docs /\ unsaved' \subseteq Docs
      BY <1>3, <2>2 DEF OKToClose, BaseInv, Types
    <3>2. result' \in BOOLEAN
      BY <1>3 DEF Returning, BaseInv, Types
    <3> QED
      BY <1>3, <3>1, <3>2 DEF DataTyped, directors, BaseInv, Types
  <2>4. CASE ok
    <3> DEFINE f == [Top EXCEPT !.pc = "closable"]
    <3>1. f \in Frame /\ f.pc = "closable" /\ f.dir = Top.dir
      BY <2>1, WithPc DEF Steps, Shutting
    <3>2. stack' = Front(stack) \o <<f>>
      BY <1>3, <2>4 DEF At
    <3> HIDE DEF f
    <3>3. FrameOK(f, docList, subs, needs)
      BY <2>2, <3>1 DEF FrameOK, Hiding, Scanning
    <3>4. MayReplace(Top, f) /\ (f.pc \in Busy <=> Top.pc \in Busy)
      BY <1>1, <3>1 DEF MayReplace, Hiding, Scanning, Shutting, Busy
    <3> QED
      BY <1>1, <2>3, <3>1, <3>2, <3>3, <3>4, OnlySwap
  <2>5. CASE ~ ok
    <3>1. stack' = Front(stack)
      BY <1>3, <2>5 DEF Returning
    <3> QED
      BY <1>1, <2>3, <3>1, OnlyPop DEF Busy
  <2> QED
    BY <2>4, <2>5
<1> QED
  BY <1>2, <1>3 DEF AskToClose

\* CheckNeeded keeps the base invariant.
LEMMA CheckNeededStep ==
    ASSUME BaseInv, CheckNeeded
    PROVE  BaseInv'
<1>1. stack # <<>> /\ Top.pc = "closable" /\ UNCHANGED <<input, directors, active, result, failed>>
  BY DEF CheckNeeded, Running
<1>2. Top \in Frame /\ FrameOK(Top, docList, subs, needs)
  BY <1>1, TopKnown
<1>3. Top.dir \in Docs /\ Top.dir \in ElementsOf(docList)
  BY <1>1, <1>2 DEF FrameOK
<1>4. OKToCloseDocument(Top.dir) <=> Unneeded(Top.dir, docList, needs)
  BY DEF OKToCloseDocument, Unneeded, Listed, Range, ElementsOf
<1>5. DataTyped
  BY <1>1 DEF CheckNeeded, DataTyped, directors, Discard, data, BaseInv, Types
<1>6. CASE OKToCloseDocument(Top.dir)
  <2> DEFINE f == [Top EXCEPT !.pc = "assert"]
  <2>1. f \in Frame /\ f.pc = "assert" /\ f.dir = Top.dir
    BY <1>2, WithPc DEF Steps, Shutting
  <2>2. stack' = Front(stack) \o <<f>>
    BY <1>6 DEF At, CheckNeeded
  <2> HIDE DEF f
  <2>3. FrameOK(f, docList, subs, needs)
    BY <1>3, <1>4, <1>6, <2>1 DEF FrameOK, Hiding, Scanning
  <2>4. MayReplace(Top, f) /\ (f.pc \in Busy <=> Top.pc \in Busy)
    BY <1>1, <2>1 DEF MayReplace, Hiding, Scanning, Shutting, Busy
  <2> QED
    BY <1>1, <1>5, <2>1, <2>2, <2>3, <2>4, OnlySwap
<1>7. CASE ~ OKToCloseDocument(Top.dir)
  <2> DEFINE f == [Top EXCEPT !.pc = "hidden"]
             g == Call("deactivate", Top.dir)
  <2>1. f \in Frame /\ f.pc = "hidden" /\ f.dir = Top.dir
    BY <1>2, WithPc DEF Steps, Shutting
  <2>2. g \in Frame /\ g.pc = "deactivate" /\ g.dir = Top.dir /\ g.i = 1
        /\ g.count = Len(subs[Top.dir])
    <3>1. docList' \in Seq(Docs) /\ Top.dir \in Directors
      BY <1>1, <1>3 DEF BaseInv, Types, directors, Directors
    <3>2. "deactivate" \in Steps /\ "deactivate" # "scan" /\ Types
      BY DEF BaseInv, Steps, Hiding
    <3> QED
      BY <3>1, <3>2, Called
  <2>3. stack' = Front(stack) \o <<f, g>>
    BY <1>7 DEF Calling, CheckNeeded
  <2> HIDE DEF f, g
  <2>4. FrameOK(f, docList, subs, needs)
    BY <1>3, <1>4, <1>7, <2>1 DEF FrameOK, Hiding, Scanning
  <2>5. FrameOK(g, docList, subs, needs)
    BY <1>3, <2>2 DEF FrameOK, Hiding, Scanning
  <2>6. /\ MayReplace(Top, f) /\ (f.pc \in Busy <=> Top.pc \in Busy) /\ Under(f, g)
        /\ g.pc \notin Busy /\ (Top.pc \in Hiding => g.pc \in Hiding)
    BY <1>1, <2>1, <2>2 DEF MayReplace, Under, Waiting, Hiding, Scanning, Shutting, Busy
  <2> QED
    BY <1>1, <1>5, <2>1, <2>2, <2>3, <2>4, <2>5, <2>6, OnlyPush
<1> QED
  BY <1>6, <1>7

\* ReturnHidden keeps the base invariant.
LEMMA ReturnHiddenStep ==
    ASSUME BaseInv, ReturnHidden
    PROVE  BaseInv'
<1>1. /\ stack # <<>> /\ Top.pc = "hidden"
      /\ stack' = Front(stack) /\ result' = (Top.dir \notin active)
      /\ UNCHANGED <<input, directors, active, data, failed>>
  BY DEF ReturnHidden, Running, Returning
<1>2. DataTyped
  BY <1>1 DEF DataTyped, directors, data, BaseInv, Types
<1> QED
  BY <1>1, <1>2, OnlyPop DEF Busy

-----------------------------------------------------------------------------
\* CloseFirst keeps the base invariant.
LEMMA CloseFirstStep ==
    ASSUME BaseInv, CloseFirst
    PROVE  BaseInv'
<1>1. stack # <<>> /\ Top.pc = "first" /\ UNCHANGED <<input, directors, active, data, failed>>
  BY DEF CloseFirst, Running
<1>2. Top \in Frame /\ Top.dir \in Directors /\ FrameOK(Top, docList, subs, needs)
  BY <1>1, TopKnown
<1>3. CASE subs[Top.dir] = <<>>
  <2>1. stack' = Front(stack) /\ result' = TRUE
    BY <1>3 DEF CloseFirst, Returning
  <2>2. DataTyped
    BY <1>1, <2>1 DEF DataTyped, directors, data, BaseInv, Types
  <2> QED
    BY <1>1, <1>3, <2>1, <2>2, OnlyPop DEF Busy
<1>4. CASE subs[Top.dir] # <<>>
  <2> DEFINE d == Head(subs[Top.dir])
             f == [Top EXCEPT !.pc = "firstClosed", !.first = d]
             g == Call("close", d)
  <2>1. stack' = Front(stack) \o <<f, g>> /\ result' = result
    BY <1>4 DEF CloseFirst
  <2>2. d \in Docs
    <3>1. subs[Top.dir] \in Seq(Docs)
      BY <1>2 DEF BaseInv, Types
    <3> QED
      BY <1>4, <3>1, HeadTailProperties
  <2>3. g \in Frame /\ g.pc = "close" /\ g.dir = d
    <3>1. docList' \in Seq(Docs) /\ d \in Directors
      BY <1>1, <2>2 DEF BaseInv, Types, directors, Directors
    <3>2. "close" \in Steps /\ "close" # "scan" /\ Types
      BY DEF BaseInv, Steps, Shutting
    <3> HIDE DEF d
    <3> QED
      BY <3>1, <3>2, Called
  <2> HIDE DEF d
  <2>4. f \in Frame /\ f.pc = "firstClosed" /\ f.dir = Top.dir
    BY <1>2, <2>2 DEF Frame, Directors
  <2> HIDE DEF f, g
  <2>5. FrameOK(f, docList, subs, needs) /\ FrameOK(g, docList, subs, needs)
    BY <2>2, <2>3, <2>4 DEF FrameOK, Hiding, Scanning
  <2>6. /\ MayReplace(Top, f) /\ (f.pc \in Busy <=> Top.pc \in Busy) /\ Under(f, g)
        /\ g.pc \notin Busy /\ (Top.pc \in Hiding => g.pc \in Hiding)
    BY <1>1, <2>3, <2>4 DEF MayReplace, Under, Waiting, Hiding, Scanning, Shutting, Busy
  <2>7. DataTyped
    BY <1>1, <2>1 DEF DataTyped, directors, data, BaseInv, Types
  <2> QED
    BY <1>1, <2>1, <2>3, <2>4, <2>5, <2>6, <2>7, OnlyPush
<1> QED
  BY <1>3, <1>4

\* ScanAgain keeps the base invariant.
LEMMA ScanAgainStep ==
    ASSUME BaseInv, ScanAgain
    PROVE  BaseInv'
<1>1. /\ stack # <<>> /\ Top.pc = "scan"
      /\ UNCHANGED <<input, directors, active, data, failed>>
      /\ result' \in BOOLEAN
  BY DEF ScanAgain, Running, Returning, BaseInv, Types
<1>2. Top \in Frame /\ FrameOK(Top, docList, subs, needs)
  BY <1>1, TopKnown
<1>3. DataTyped
  BY <1>1 DEF DataTyped, directors, data, BaseInv, Types
<1>4. CASE Top.closed
  <2> DEFINE f == [Top EXCEPT !.i = 1, !.closed = FALSE]
  <2>1. stack' = Front(stack) \o <<f>>
    BY <1>4 DEF ScanAgain
  <2>2. f \in Frame /\ f.pc = "scan" /\ f.dir = Top.dir /\ f.i = 1
    BY <1>1, <1>2 DEF Frame
  <2> HIDE DEF f
  <2>3. FrameOK(f, docList, subs, needs)
    BY <1>1, <1>2, <2>2 DEF FrameOK, Hiding, Scanning
  <2>4. MayReplace(Top, f) /\ (f.pc \in Busy <=> Top.pc \in Busy)
    BY <1>1, <2>2 DEF MayReplace, Hiding, Scanning, Shutting, Busy
  <2> QED
    BY <1>1, <1>3, <2>1, <2>2, <2>3, <2>4, OnlySwap
<1>5. CASE ~ Top.closed
  BY <1>1, <1>3, <1>5, OnlyPop DEF ScanAgain, Returning, Busy
<1> QED
  BY <1>4, <1>5

\* Scan keeps the base invariant.
LEMMA ScanStep ==
    ASSUME BaseInv, Scan
    PROVE  BaseInv'
<1>1. stack # <<>> /\ Top.pc = "scan"
  BY DEF Scan, Running
<1>2. Top \in Frame /\ FrameOK(Top, docList, subs, needs)
  BY <1>1, TopKnown
<1>3. CASE Top.i > Len(docList)
  BY <1>3, FailingStep DEF Scan
<1>4. CASE ~ (Top.i > Len(docList))
  <2> DEFINE d == docList[Top.i]
  <2>1. UNCHANGED <<input, directors, active, data, result, failed>>
    BY <1>4 DEF Scan
  <2>2. DataTyped
    BY <2>1 DEF DataTyped, directors, data, BaseInv, Types
  <2>3. Top.i \in Nat /\ Top.i >= 1
    BY <1>1, <1>2 DEF Frame, FrameOK, Scanning
  <2>4. d \in Docs
    <3>1. docList \in Seq(Docs) /\ Len(docList) \in Nat
      BY LenProperties DEF BaseInv, Types
    <3>2. Top.i \in 1 .. Len(docList)
      BY <1>4, <2>3, <3>1
    <3> QED
      BY <3>1, <3>2, ElementOfSeq
  <2>5. CASE d \notin active /\ d \notin keepOpen /\ OKToCloseDocument(d)
    <3> DEFINE f == [Top EXCEPT !.pc = "scanned"]
               g == Call("close", d)
    <3>1. stack' = Front(stack) \o <<f, g>>
      BY <1>4, <2>5 DEF Scan, Calling
    <3>2. g \in Frame /\ g.pc = "close" /\ g.dir = d
      <4>1. docList' \in Seq(Docs) /\ d \in Directors
        BY <2>1, <2>4 DEF BaseInv, Types, directors, Directors
      <4>2. "close" \in Steps /\ "close" # "scan" /\ Types
        BY DEF BaseInv, Steps, Shutting
      <4> HIDE DEF d
      <4> QED
        BY <4>1, <4>2, Called
    <3> HIDE DEF d
    <3>3. f \in Frame /\ f.pc = "scanned" /\ f.dir = Top.dir /\ f.i = Top.i
      BY <1>2, WithPc DEF Steps, Scanning
    <3> HIDE DEF f, g
    <3>4. FrameOK(f, docList, subs, needs) /\ FrameOK(g, docList, subs, needs)
      BY <1>1, <1>2, <2>4, <3>2, <3>3 DEF FrameOK, Hiding, Scanning
    <3>5. /\ MayReplace(Top, f) /\ (f.pc \in Busy <=> Top.pc \in Busy) /\ Under(f, g)
          /\ g.pc \notin Busy /\ (Top.pc \in Hiding => g.pc \in Hiding)
      BY <1>1, <3>2, <3>3 DEF MayReplace, Under, Waiting, Hiding, Scanning, Shutting, Busy
    <3> QED
      BY <1>1, <2>2, <3>1, <3>2, <3>3, <3>4, <3>5, OnlyPush
  <2>6. CASE ~ (d \notin active /\ d \notin keepOpen /\ OKToCloseDocument(d))
    <3> DEFINE f == [Top EXCEPT !.i = @ + 1]
    <3>1. stack' = Front(stack) \o <<f>>
      BY <1>4, <2>6 DEF Scan
    <3>2. f \in Frame /\ f.pc = "scan" /\ f.dir = Top.dir /\ f.i = Top.i + 1
      BY <1>1, <1>2, <2>3 DEF Frame
    <3> HIDE DEF f
    <3>3. FrameOK(f, docList, subs, needs)
      BY <1>1, <1>2, <2>3, <3>2 DEF FrameOK, Hiding, Scanning
    <3>4. MayReplace(Top, f) /\ (f.pc \in Busy <=> Top.pc \in Busy)
      BY <1>1, <3>2 DEF MayReplace, Hiding, Scanning, Shutting, Busy
    <3> QED
      BY <1>1, <2>2, <3>1, <3>2, <3>3, <3>4, OnlySwap
  <2> QED
    BY <2>5, <2>6
<1> QED
  BY <1>3, <1>4

\* Scanned keeps the base invariant.
LEMMA ScannedStep ==
    ASSUME BaseInv, Scanned
    PROVE  BaseInv'
<1> DEFINE f == [Top EXCEPT !.pc = "scan", !.i = @ + 1, !.closed = @ \/ result,
                            !.count = IF result THEN Len(docList) ELSE @]
<1>1. /\ stack # <<>> /\ Top.pc = "scanned" /\ stack' = Front(stack) \o <<f>>
      /\ UNCHANGED <<input, directors, active, data, result, failed>>
  BY DEF Scanned, Running
<1>2. Top \in Frame /\ FrameOK(Top, docList, subs, needs)
  BY <1>1, TopKnown
<1>3. DataTyped
  BY <1>1 DEF DataTyped, directors, data, BaseInv, Types
<1>4. f \in Frame /\ f.pc = "scan" /\ f.dir = Top.dir /\ f.i = Top.i + 1 /\ Top.i \in Nat
  <2> DEFINE j == Top.i + 1
             c == Top.closed \/ result
             m == IF result THEN Len(docList) ELSE Top.count
  <2>1. Top.i \in Nat /\ Top.count \in Nat /\ Top.closed \in BOOLEAN
    BY <1>2 DEF Frame
  <2>2. Len(docList) \in Nat /\ result \in BOOLEAN
    BY LenProperties DEF BaseInv, Types
  <2>3. j \in Nat /\ c \in BOOLEAN /\ m \in Nat
    BY <2>1, <2>2
  <2>4. f = [Top EXCEPT !.pc = "scan", !.i = j, !.closed = c, !.count = m]
    OBVIOUS
  <2>5. j = Top.i + 1
    OBVIOUS
  <2> HIDE DEF f, j, c, m
  <2> QED
    BY <1>2, <2>1, <2>3, <2>4, <2>5 DEF Frame, Scanning
<1> HIDE DEF f
<1>5. FrameOK(f, docList, subs, needs)
  BY <1>1, <1>2, <1>4 DEF FrameOK, Hiding, Scanning
<1>6. MayReplace(Top, f) /\ (f.pc \in Busy <=> Top.pc \in Busy)
  BY <1>1, <1>4 DEF MayReplace, Hiding, Scanning, Shutting, Busy
<1> QED
  BY <1>1, <1>3, <1>4, <1>5, <1>6, OnlySwap

-----------------------------------------------------------------------------
\* Deactivate keeps the base invariant.
LEMMA DeactivateStep ==
    ASSUME BaseInv, Deactivate
    PROVE  BaseInv'
<1>1. stack # <<>> /\ Top.pc = "deactivate" /\ UNCHANGED <<input, directors, failed>>
  BY DEF Deactivate, Running
<1>2. Top \in Frame /\ FrameOK(Top, docList, subs, needs)
  BY <1>1, TopKnown
<1>3. Top.dir \in Docs
  BY <1>1, <1>2 DEF FrameOK, Hiding
<1>4. CASE Top.dir \notin active
  <2>1. Discard(Top.dir) /\ Returning(TRUE) /\ UNCHANGED active
    BY <1>4 DEF Deactivate
  <2>2. DataTyped
    BY <1>1, <2>1 DEF DataTyped, directors, Discard, Returning, BaseInv, Types
  <2> QED
    BY <1>1, <2>1, <2>2, OnlyPop DEF Returning, Busy
<1>5. CASE Top.dir \in active
  <2>1. PICK ok \in BOOLEAN :
           /\ OKToClose(Top.dir, ok)
           /\ IF ok THEN At("deactivateSubs") /\ UNCHANGED result ELSE Returning(FALSE)
    BY <1>5 DEF Deactivate
  <2>2. DataTyped
    <3>1. active' \subseteq Docs /\ unsaved' \subseteq Docs
      BY <1>3, <2>1 DEF OKToClose, BaseInv, Types
    <3>2. result' \in BOOLEAN
      BY <2>1 DEF Returning, BaseInv, Types
    <3> QED
      BY <1>1, <3>1, <3>2 DEF DataTyped, directors, BaseInv, Types
  <2>3. CASE ok
    <3> DEFINE f == [Top EXCEPT !.pc = "deactivateSubs"]
    <3>1. f \in Frame /\ f.pc = "deactivateSubs" /\ f.dir = Top.dir /\ f.i = Top.i /\ f.count = Top.count
      BY <1>2, WithPc DEF Steps, Hiding
    <3>2. stack' = Front(stack) \o <<f>>
      BY <2>1, <2>3 DEF At
    <3> HIDE DEF f
    <3>3. FrameOK(f, docList, subs, needs)
      BY <1>1, <1>2, <3>1 DEF FrameOK, Hiding, Scanning
    <3>4. MayReplace(Top, f) /\ (f.pc \in Busy <=> Top.pc \in Busy)
      BY <1>1, <3>1 DEF MayReplace, Hiding, Scanning, Shutting, Busy
    <3> QED
      BY <1>1, <2>2, <3>1, <3>2, <3>3, <3>4, OnlySwap
  <2>4. CASE ~ ok
    <3>1. stack' = Front(stack)
      BY <2>1, <2>4 DEF Returning
    <3> QED
      BY <1>1, <2>2, <3>1, OnlyPop DEF Busy
  <2> QED
    BY <2>3, <2>4
<1> QED
  BY <1>4, <1>5

\* DeactivateSub keeps the base invariant.
LEMMA DeactivateSubStep ==
    ASSUME BaseInv, DeactivateSub
    PROVE  BaseInv'
<1> DEFINE d == subs[Top.dir][Top.i]
           f == [Top EXCEPT !.pc = "deactivatedSub"]
           g == Call("deactivate", d)
<1>1. /\ stack # <<>> /\ Top.pc = "deactivateSubs" /\ Top.i <= Top.count
      /\ stack' = Front(stack) \o <<f, g>>
      /\ UNCHANGED <<input, directors, active, data, result, failed>>
  BY DEF DeactivateSub, Running, Calling
<1>2. Top \in Frame /\ Top.dir \in Directors /\ FrameOK(Top, docList, subs, needs)
  BY <1>1, TopKnown
<1>3. DataTyped
  BY <1>1 DEF DataTyped, directors, data, BaseInv, Types
<1>4. d \in Docs
  <2>1. subs[Top.dir] \in Seq(Docs)
    BY <1>2 DEF BaseInv, Types
  <2>2. Top.i \in 1 .. Len(subs[Top.dir])
    BY <1>1, <1>2 DEF Frame, FrameOK, Hiding
  <2> QED
    BY <2>1, <2>2, ElementOfSeq
<1>5. g \in Frame /\ g.pc = "deactivate" /\ g.dir = d /\ g.i = 1 /\ g.count = Len(subs[d])
  <2>1. docList' \in Seq(Docs) /\ d \in Directors
    BY <1>1, <1>4 DEF BaseInv, Types, directors, Directors
  <2>2. "deactivate" \in Steps /\ "deactivate" # "scan" /\ Types
    BY DEF BaseInv, Steps, Hiding
  <2> HIDE DEF d
  <2> QED
    BY <2>1, <2>2, Called
<1> HIDE DEF d
<1>6. f \in Frame /\ f.pc = "deactivatedSub" /\ f.dir = Top.dir /\ f.i = Top.i /\ f.count = Top.count
  BY <1>2, WithPc DEF Steps, Hiding
<1> HIDE DEF f, g
<1>7. FrameOK(f, docList, subs, needs) /\ FrameOK(g, docList, subs, needs)
  BY <1>1, <1>2, <1>4, <1>5, <1>6 DEF FrameOK, Hiding, Scanning
<1>8. /\ MayReplace(Top, f) /\ (f.pc \in Busy <=> Top.pc \in Busy) /\ Under(f, g)
      /\ g.pc \notin Busy /\ (Top.pc \in Hiding => g.pc \in Hiding)
  BY <1>1, <1>5, <1>6 DEF MayReplace, Under, Waiting, Hiding, Scanning, Shutting, Busy
<1> QED
  BY <1>1, <1>3, <1>5, <1>6, <1>7, <1>8, OnlyPush

\* DeactivatedSub keeps the base invariant.
LEMMA DeactivatedSubStep ==
    ASSUME BaseInv, DeactivatedSub
    PROVE  BaseInv'
<1>1. /\ stack # <<>> /\ Top.pc = "deactivatedSub"
      /\ UNCHANGED <<input, directors, active, data, failed>>
      /\ result' \in BOOLEAN
  BY DEF DeactivatedSub, Running, Returning, BaseInv, Types
<1>2. Top \in Frame /\ FrameOK(Top, docList, subs, needs)
  BY <1>1, TopKnown
<1>3. DataTyped
  BY <1>1 DEF DataTyped, directors, data, BaseInv, Types
<1>4. CASE result
  <2> DEFINE f == [Top EXCEPT !.pc = "deactivateSubs", !.i = @ + 1]
  <2>1. stack' = Front(stack) \o <<f>>
    BY <1>4 DEF DeactivatedSub
  <2>2. f \in Frame /\ f.pc = "deactivateSubs" /\ f.dir = Top.dir /\ f.i = Top.i + 1
        /\ f.count = Top.count /\ Top.i \in Nat
    <3> DEFINE j == Top.i + 1
    <3>1. Top.i \in Nat /\ j \in Nat
      BY <1>2 DEF Frame
    <3>2. f = [Top EXCEPT !.pc = "deactivateSubs", !.i = j] /\ j = Top.i + 1
      OBVIOUS
    <3> HIDE DEF f, j
    <3> QED
      BY <1>2, <3>1, <3>2 DEF Frame, Hiding
  <2> HIDE DEF f
  <2>3. FrameOK(f, docList, subs, needs)
    BY <1>1, <1>2, <2>2 DEF FrameOK, Hiding, Scanning
  <2>4. MayReplace(Top, f) /\ (f.pc \in Busy <=> Top.pc \in Busy)
    BY <1>1, <2>2 DEF MayReplace, Hiding, Scanning, Shutting, Busy
  <2> QED
    BY <1>1, <1>3, <2>1, <2>2, <2>3, <2>4, OnlySwap
<1>5. CASE ~ result
  BY <1>1, <1>3, <1>5, OnlyPop DEF DeactivatedSub, Returning, Busy
<1> QED
  BY <1>4, <1>5

\* Deactivated keeps the base invariant.
LEMMA DeactivatedStep ==
    ASSUME BaseInv, Deactivated
    PROVE  BaseInv'
<1>1. /\ stack # <<>> /\ Top.pc = "deactivateSubs" /\ stack' = Front(stack) /\ result' = TRUE
      /\ active' \subseteq active /\ unsaved' \subseteq unsaved
      /\ UNCHANGED <<input, directors, failed>>
  BY DEF Deactivated, Running, Returning, Discard
<1>2. DataTyped
  BY <1>1 DEF DataTyped, directors, BaseInv, Types
<1> QED
  BY <1>1, <1>2, OnlyPop DEF Busy

-----------------------------------------------------------------------------
\* An event starts the call f.
LEMMA BeginStep ==
    ASSUME BaseInv, DataTyped, AtEventLoop, NEW f \in Frame, stack' = <<f>>,
           f.pc \notin Busy, FrameOK(f, docList, subs, needs)
    PROVE  BaseInv'
<1>1. Single(stack', f)
  BY DEF Single
<1>2. closing = {}
  BY DEF AtEventLoop, BaseInv, ClosingOK
<1>3. StackOK(stack', closing, docList, subs, needs)
  BY <1>1, <1>2, SingleOK
<1>4. stack' \in Seq(Frame) /\ EmptiedOK(stack', result', subs)
  BY <1>1 DEF Single, EmptiedOK, Busy
<1> QED
  BY <1>3, <1>4, OnlyStack

\* CloseWindow keeps the base invariant.
LEMMA CloseWindowStep ==
    ASSUME BaseInv, NEW d \in Docs, CloseWindow(d)
    PROVE  BaseInv'
<1> DEFINE f == Call("close", d)
<1>1. /\ AtEventLoop /\ stack' = <<f>>
      /\ UNCHANGED <<input, directors, active, unsaved, lost, result, failed>>
  BY DEF CloseWindow, Begin
<1>2. DataTyped
  BY <1>1 DEF DataTyped, directors, BaseInv, Types
<1>3. f \in Frame /\ f.pc = "close" /\ f.dir = d
  <2>1. docList' \in Seq(Docs) /\ d \in Directors
    BY <1>1 DEF BaseInv, Types, directors, Directors
  <2>2. "close" \in Steps /\ "close" # "scan" /\ Types
    BY DEF BaseInv, Steps, Shutting
  <2> QED
    BY <2>1, <2>2, Called
<1> HIDE DEF f
<1>4. FrameOK(f, docList, subs, needs) /\ f.pc \notin Busy
  BY <1>3 DEF FrameOK, Hiding, Scanning, Busy
<1> QED
  BY <1>1, <1>2, <1>3, <1>4, BeginStep

\* HideWindow keeps the base invariant.
LEMMA HideWindowStep ==
    ASSUME BaseInv, NEW d \in Docs, HideWindow(d)
    PROVE  BaseInv'
<1> DEFINE f == Call("deactivate", d)
<1>1. /\ AtEventLoop /\ stack' = <<f>>
      /\ UNCHANGED <<input, directors, active, unsaved, lost, result, failed>>
  BY DEF HideWindow, Begin
<1>2. DataTyped
  BY <1>1 DEF DataTyped, directors, BaseInv, Types
<1>3. f \in Frame /\ f.pc = "deactivate" /\ f.dir = d /\ f.i = 1 /\ f.count = Len(subs[d])
  <2>1. docList' \in Seq(Docs) /\ d \in Directors
    BY <1>1 DEF BaseInv, Types, directors, Directors
  <2>2. "deactivate" \in Steps /\ "deactivate" # "scan" /\ Types
    BY DEF BaseInv, Steps, Hiding
  <2> QED
    BY <2>1, <2>2, Called
<1> HIDE DEF f
<1>4. FrameOK(f, docList, subs, needs) /\ f.pc \notin Busy
  BY <1>3 DEF FrameOK, Hiding, Scanning, Busy
<1> QED
  BY <1>1, <1>2, <1>3, <1>4, BeginStep

\* Quit keeps the base invariant.
LEMMA QuitStep ==
    ASSUME BaseInv, Quit
    PROVE  BaseInv'
<1> DEFINE f == Call("assert", App)
<1>1. /\ AtEventLoop /\ stack' = <<f>>
      /\ UNCHANGED <<input, directors, active, unsaved, lost, result, failed>>
  BY DEF Quit, Begin
<1>2. DataTyped
  BY <1>1 DEF DataTyped, directors, BaseInv, Types
<1>3. f \in Frame /\ f.pc = "assert" /\ f.dir = App
  <2>1. docList' \in Seq(Docs) /\ App \in Directors
    BY <1>1 DEF BaseInv, Types, directors, Directors
  <2>2. "assert" \in Steps /\ "assert" # "scan" /\ Types
    BY DEF BaseInv, Steps, Shutting
  <2> QED
    BY <2>1, <2>2, Called
<1> HIDE DEF f
<1>4. FrameOK(f, docList, subs, needs) /\ f.pc \notin Busy
  BY <1>3 DEF FrameOK, Hiding, Scanning, Busy
<1> QED
  BY <1>1, <1>2, <1>3, <1>4, BeginStep

\* DocumentMustStayOpen keeps the base invariant.
LEMMA DocumentMustStayOpenStep ==
    ASSUME BaseInv, NEW d \in Docs, NEW stay \in BOOLEAN, DocumentMustStayOpen(d, stay)
    PROVE  BaseInv'
<1>1. /\ AtEventLoop /\ keepOpen' = IF stay THEN keepOpen \cup {d} ELSE keepOpen \ {d}
      /\ UNCHANGED <<input, subs, docList, closing, active, unsaved, lost, result, failed>>
      /\ IF stay THEN UNCHANGED <<stack, agreed>> ELSE Begin("scan", App)
  BY DEF DocumentMustStayOpen
<1>2. DataTyped
  <2>1. keepOpen' \subseteq Docs
    BY <1>1 DEF BaseInv, Types
  <2> QED
    BY <1>1, <2>1 DEF DataTyped, BaseInv, Types
<1>3. CASE stay
  BY <1>1, <1>2, <1>3, OnlyData
<1>4. CASE ~ stay
  <2> DEFINE f == Call("scan", App)
  <2>1. stack' = <<f>>
    BY <1>1, <1>4 DEF Begin
  <2>2. f \in Frame /\ f.pc = "scan" /\ f.dir = App /\ f.i = 1
    <3>1. docList' \in Seq(Docs) /\ App \in Directors
      BY <1>1 DEF BaseInv, Types, Directors
    <3>2. "scan" \in Steps /\ Types
      BY DEF BaseInv, Steps, Scanning
    <3> QED
      BY <3>1, <3>2, Called
  <2> HIDE DEF f
  <2>3. FrameOK(f, docList, subs, needs) /\ f.pc \notin Busy
    BY <2>2 DEF FrameOK, Hiding, Scanning, Busy
  <2> QED
    BY <1>1, <1>2, <2>1, <2>2, <2>3, BeginStep
<1> QED
  BY <1>3, <1>4

\* Open keeps the base invariant.
LEMMA OpenStep ==
    ASSUME BaseInv, NEW d \in Docs, Open(d)
    PROVE  BaseInv'
<1> DEFINE e == supervisor[d]
<1>1. /\ AtEventLoop /\ d \notin Listed /\ e \in Listed \cup {App}
      /\ subs' = [subs EXCEPT ![e] = Append(@, d)]
      /\ docList' = Append(docList, d) /\ active' = active \cup {d}
      /\ UNCHANGED <<input, keepOpen, closing, data, stack, result, failed>>
  BY DEF Open
<1>2. closing = {} /\ stack = <<>>
  BY <1>1 DEF AtEventLoop, BaseInv, ClosingOK
<1>3. d \notin ElementsOf(docList)
  BY <1>1 DEF Listed, Range, ElementsOf
<1>4. /\ e \in Directors /\ subs \in [Directors -> Seq(Docs)] /\ docList \in Seq(Docs)
      /\ supervisor' = supervisor /\ needs' = needs
  BY <1>1 DEF BaseInv, Types, input, Directors
<1>5. /\ NoRepeats(docList)
      /\ \A x \in Directors : NoRepeats(subs[x])
      /\ \A x \in Directors : \A y \in ElementsOf(subs[x]) :
            supervisor[y] = x /\ y \in ElementsOf(docList)
      /\ \A y \in ElementsOf(docList) : y \in ElementsOf(subs[supervisor[y]])
  BY <1>2 DEF BaseInv, TreeOK
<1>6. /\ docList' \in Seq(Docs) /\ NoRepeats(docList')
      /\ ElementsOf(docList') = ElementsOf(docList) \cup {d}
  BY <1>1, <1>3, <1>4, <1>5, AppendOnce
<1>7. /\ Append(subs[e], d) \in Seq(Docs) /\ NoRepeats(Append(subs[e], d))
      /\ ElementsOf(Append(subs[e], d)) = ElementsOf(subs[e]) \cup {d}
  <2>1. subs[e] \in Seq(Docs) /\ d \notin ElementsOf(subs[e]) /\ NoRepeats(subs[e])
    BY <1>3, <1>4, <1>5
  <2> QED
    BY <2>1, AppendOnce
<1>8. /\ subs' \in [Directors -> Seq(Docs)]
      /\ subs'[e] = Append(subs[e], d)
      /\ \A x \in Directors \ {e} : subs'[x] = subs[x]
  BY <1>1, <1>4, <1>7
<1>9. Types'
  BY <1>1, <1>4, <1>6, <1>8 DEF BaseInv, Types, data
<1>10. TreeOK(docList', subs', closing', supervisor')
  <2>1. \A x \in Directors : NoRepeats(subs'[x])
    BY <1>5, <1>7, <1>8
  <2>2. \A x \in Directors : \A y \in ElementsOf(subs'[x]) :
            supervisor[y] = x /\ y \in ElementsOf(docList')
    <3>1. ASSUME NEW y \in ElementsOf(subs'[e])
          PROVE  supervisor[y] = e /\ y \in ElementsOf(docList')
      <4>1. y \in ElementsOf(subs[e]) \/ y = d
        BY <1>7, <1>8, <3>1
      <4> QED
        BY <1>4, <1>5, <1>6, <4>1
    <3>2. ASSUME NEW x \in Directors \ {e}, NEW y \in ElementsOf(subs'[x])
          PROVE  supervisor[y] = x /\ y \in ElementsOf(docList')
      BY <1>5, <1>6, <1>8, <3>2
    <3> HIDE DEF e
    <3> QED
      BY <3>1, <3>2
  <2>3. ASSUME NEW y \in ElementsOf(docList') PROVE y \in ElementsOf(subs'[supervisor[y]])
    <3>1. CASE y = d
      BY <1>7, <1>8, <3>1
    <3>2. CASE y # d
      <4>1. y \in ElementsOf(docList) /\ y \in ElementsOf(subs[supervisor[y]])
        BY <1>5, <1>6, <2>3, <3>2
      <4>2. y \in Docs
        BY <1>4, <4>1, LenProperties, ElementOfSeq DEF ElementsOf
      <4>3. supervisor[y] \in Directors
        BY <4>2 DEF BaseInv, Types
      <4> QED
        BY <1>7, <1>8, <4>1, <4>3
    <3> QED
      BY <3>1, <3>2
  <2> QED
    BY <1>1, <1>2, <1>4, <1>6, <2>1, <2>2, <2>3 DEF TreeOK
<1>11. /\ ClosingOK(stack', closing') /\ FramesOK(stack', docList', subs', needs')
       /\ OrderOK(stack') /\ EmptiedOK(stack', result', subs')
  BY <1>1, <1>2 DEF ClosingOK, FramesOK, OrderOK, EmptiedOK
<1> QED
  BY <1>9, <1>10, <1>11 DEF BaseInv

\* Modify keeps the base invariant.
LEMMA ModifyStep ==
    ASSUME BaseInv, NEW d \in Docs, Modify(d)
    PROVE  BaseInv'
<1>1. DataTyped /\ stack' = stack /\ result' = result
  BY DEF Modify, DataTyped, directors, BaseInv, Types
<1> QED
  BY <1>1, OnlyData

\* Activate keeps the base invariant.
LEMMA ActivateStep ==
    ASSUME BaseInv, NEW d \in Docs, Activate(d)
    PROVE  BaseInv'
<1>1. DataTyped /\ stack' = stack /\ result' = result
  BY DEF Activate, DataTyped, directors, data, BaseInv, Types
<1> QED
  BY <1>1, OnlyData

-----------------------------------------------------------------------------
\* StartClosing keeps the base invariant.
LEMMA StartClosingStep ==
    ASSUME BaseInv, StartClosing
    PROVE  BaseInv'
<1>1. stack # <<>> /\ Top.pc = "assert"
  BY DEF StartClosing, Running
<1>2. /\ Top \in Frame /\ Top.dir \in Directors /\ FrameOK(Top, docList, subs, needs)
      /\ BelowOK(stack, docList, subs, needs) /\ ClosingOK(stack, closing) /\ OrderOK(stack)
      /\ Top = Last(stack)
  BY <1>1, TopKnown
<1>3. CASE Top.dir \in closing
  BY <1>3, FailingStep DEF StartClosing
<1>4. CASE Top.dir \notin closing
  <2> DEFINE f == [Top EXCEPT !.pc = "subs"]
             g == Call("first", Top.dir)
  <2>1. /\ closing' = closing \cup {Top.dir}
        /\ stack' = Front(stack) \o <<f, g>>
        /\ UNCHANGED <<input, subs, docList, keepOpen, active, data, result, failed>>
    BY <1>4 DEF StartClosing, Calling
  <2>2. f \in Frame /\ f.pc = "subs" /\ f.dir = Top.dir
    BY <1>2, WithPc DEF Steps, Shutting
  <2>3. g \in Frame /\ g.pc = "first" /\ g.dir = Top.dir
    <3>1. docList' \in Seq(Docs)
      BY <2>1 DEF BaseInv, Types
    <3>2. "first" \in Steps /\ "first" # "scan" /\ Types
      BY DEF BaseInv, Steps
    <3> QED
      BY <1>2, <3>1, <3>2, Called
  <2> HIDE DEF f, g
  <2>4. FrameOK(f, docList, subs, needs) /\ FrameOK(g, docList, subs, needs)
    BY <1>1, <1>2, <2>2, <2>3 DEF FrameOK, Hiding, Scanning
  <2>5. /\ MayReplace(Last(stack), f) /\ f.pc \in Busy /\ Last(stack).pc \notin Busy /\ Under(f, g)
        /\ g.pc \notin Busy /\ (Last(stack).pc \in Hiding => g.pc \in Hiding)
    BY <1>1, <1>2, <2>2, <2>3 DEF MayReplace, Under, Waiting, Hiding, Scanning, Shutting, Busy
  <2>6. stack \in Seq(Frame)
    BY DEF BaseInv, Types
  <2>7. Pushed(stack, stack', f, g)
    BY <1>1, <2>1, <2>2, <2>3, <2>6, Push
  <2>8. StackOK(stack', closing', docList, subs, needs)
    BY <1>1, <1>2, <1>4, <2>1, <2>2, <2>3, <2>4, <2>5, <2>6, <2>7, PushOK
  <2>9. Types'
    BY <1>2, <2>1, <2>7 DEF BaseInv, Types, Pushed, input, data
  <2>10. TreeOK(docList, subs, closing', supervisor)
    <3>1. Top.dir \in Docs => Top.dir \in ElementsOf(docList)
      BY <1>1, <1>2, DocumentsAssumption DEF FrameOK
    <3> QED
      BY <2>1, <3>1 DEF BaseInv, TreeOK
  <2>11. EmptiedOK(stack', result', subs)
    BY <2>3, <2>7 DEF Pushed, EmptiedOK
  <2>12. /\ supervisor' = supervisor /\ needs' = needs /\ subs' = subs /\ docList' = docList
    BY <2>1 DEF input
  <2> QED
    BY <2>8, <2>9, <2>10, <2>11, <2>12 DEF BaseInv, StackOK
<1> QED
  BY <1>3, <1>4

\* KeepOpen keeps the base invariant.
LEMMA KeepOpenStep ==
    ASSUME BaseInv, KeepOpen
    PROVE  BaseInv'
<1>1. /\ stack # <<>> /\ Top.pc = "subs" /\ stack' = Front(stack) /\ result' = FALSE
      /\ closing' = closing \ {Top.dir}
      /\ UNCHANGED <<input, subs, docList, keepOpen, active, data, failed>>
  BY DEF KeepOpen, Running, Returning
<1>2. /\ Top.dir \in Directors /\ FrameOK(Top, docList, subs, needs)
      /\ BelowOK(stack, docList, subs, needs) /\ ClosingOK(stack, closing) /\ OrderOK(stack)
      /\ Top = Last(stack)
  BY <1>1, TopKnown
<1>3. stack \in Seq(Frame)
  BY DEF BaseInv, Types
<1>4. Popped(stack, stack')
  BY <1>1, <1>3, Pop
<1>5. closing' = IF Last(stack).pc \in Busy THEN closing \ {Last(stack).dir} ELSE closing
  BY <1>1, <1>2 DEF Busy
<1>6. StackOK(stack', closing', docList, subs, needs)
  BY <1>1, <1>2, <1>3, <1>4, <1>5, PopOK
<1>7. Types'
  BY <1>1, <1>4 DEF BaseInv, Types, Popped, input, data
<1>8. TreeOK(docList, subs, closing', supervisor)
  <2>1. Top.dir \in Docs => Top.dir \in ElementsOf(docList)
    BY <1>1, <1>2, DocumentsAssumption DEF FrameOK
  <2>2. ASSUME NEW e \in Directors, NEW d \in ElementsOf(subs[e]) PROVE d \in Docs
    <3>1. subs[e] \in Seq(Docs)
      BY DEF BaseInv, Types
    <3> QED
      BY <2>2, <3>1, LenProperties, ElementOfSeq DEF ElementsOf
  <2>3. \A e \in Directors : \A d \in ElementsOf(subs[e]) :
           supervisor[d] = e /\ d \in ElementsOf(docList) \cup closing
    BY DEF BaseInv, TreeOK
  <2>4. \A e \in Directors : \A d \in ElementsOf(subs[e]) : d \in ElementsOf(docList) \cup closing'
    BY <1>1, <2>1, <2>2, <2>3
  <2> QED
    BY <1>1, <2>3, <2>4 DEF BaseInv, TreeOK
<1>9. EmptiedOK(stack', result', subs)
  BY <1>1 DEF EmptiedOK
<1>10. supervisor' = supervisor /\ needs' = needs /\ subs' = subs /\ docList' = docList
  BY <1>1 DEF input
<1> QED
  BY <1>6, <1>7, <1>8, <1>9, <1>10 DEF BaseInv, StackOK

\* A document that is only hidden is below nothing but frames of Deactivate, and one
\* that is asked, or about to be closed, is on top.
LEMMA BelowKnown ==
    ASSUME BaseInv, stack # <<>>, Top.pc \notin Hiding, NEW k \in 1 .. Len(stack) - 1
    PROVE  /\ stack[k] \in Frame
           /\ stack[k].pc \in {"subs", "gone", "firstClosed", "scanned"}
           /\ stack[k].pc \in Busy /\ Top.pc \in Busy => stack[k].dir # Top.dir
<1>1. /\ Len(stack) \in Nat /\ Len(stack) >= 1 /\ Top = stack[Len(stack)]
      /\ OrderOK(stack) /\ ClosingOK(stack, closing) /\ stack \in Seq(Frame)
  BY TopKnown DEF BaseInv, Types
<1>2. k \in 1 .. Len(stack) /\ k < Len(stack) /\ Len(stack) \in 1 .. Len(stack)
  BY <1>1
<1>3. stack[k] \in Frame
  BY <1>1, <1>2, ElementOfSeq
<1>4. stack[k].pc \in Waiting
  BY <1>1 DEF OrderOK, Under
<1>5. stack[k].pc \notin {"hidden", "deactivatedSub"}
  BY <1>1, <1>2 DEF OrderOK
<1>6. stack[k].pc \in Busy /\ Top.pc \in Busy => stack[k].dir # Top.dir
  BY <1>1, <1>2 DEF ClosingOK
<1> QED
  BY <1>3, <1>4, <1>5, <1>6 DEF Waiting

\* Delete keeps the base invariant.
LEMMA DeleteStep ==
    ASSUME BaseInv, Delete
    PROVE  BaseInv'
<1>1. /\ stack # <<>> /\ Top.pc = "subs" /\ result = TRUE
      /\ docList' = RemoveFirst(docList, Top.dir)
      /\ IF Top.dir = App THEN At("gone") ELSE Calling("gone", Call("scan", App))
      /\ UNCHANGED <<input, subs, keepOpen, closing, active, data, result, failed>>
  BY DEF Delete, Running, BaseInv, Types
<1>2. /\ Top \in Frame /\ Top.dir \in Directors /\ FrameOK(Top, docList, subs, needs)
      /\ BelowOK(stack, docList, subs, needs) /\ ClosingOK(stack, closing) /\ OrderOK(stack)
      /\ Top = Last(stack) /\ Top = stack[Len(stack)] /\ Len(stack) \in 1 .. Len(stack)
  BY <1>1, TopKnown
<1>3. stack \in Seq(Frame) /\ docList \in Seq(Docs) /\ NoRepeats(docList)
  BY DEF BaseInv, Types, TreeOK
<1>4. /\ docList' \in Seq(Docs) /\ NoRepeats(docList')
      /\ ElementsOf(docList') = ElementsOf(docList) \ {Top.dir}
  BY <1>1, <1>3, RemoveFirstElements
<1>5. subs[Top.dir] = <<>>
  BY <1>1, <1>2 DEF BaseInv, EmptiedOK
<1>6. Top.dir \in closing
  BY <1>1, <1>2 DEF ClosingOK, Busy
<1>7. BelowOK(stack, docList', subs, needs)
  <2>1. SUFFICES ASSUME NEW k \in 1 .. Len(stack) - 1
                 PROVE  FrameOK(stack[k], docList', subs, needs)
    BY DEF BelowOK
  <2>2. /\ stack[k].pc \in {"subs", "gone", "firstClosed", "scanned"}
        /\ stack[k].pc \in Busy => stack[k].dir # Top.dir
    BY <1>1, BelowKnown DEF Busy, Hiding
  <2>3. FrameOK(stack[k], docList, subs, needs)
    BY <1>2 DEF BelowOK
  <2> QED
    BY <1>4, <2>2, <2>3 DEF FrameOK, Unneeded, Busy, Hiding, Scanning
<1>8. TreeOK(docList', subs, closing, supervisor)
  BY <1>4, <1>6 DEF BaseInv, TreeOK
<1> DEFINE f == [Top EXCEPT !.pc = "gone"]
           g == Call("scan", App)
<1>9. f \in Frame /\ f.pc = "gone" /\ f.dir = Top.dir
  BY <1>2, WithPc DEF Steps, Shutting
<1>10. IF Top.dir = App THEN stack' = Front(stack) \o <<f>> ELSE stack' = Front(stack) \o <<f, g>>
  BY <1>1 DEF At, Calling
<1>11. g \in Frame /\ g.pc = "scan" /\ g.dir = App /\ g.i = 1
  <2>1. App \in Directors
    BY DEF Directors
  <2>2. "scan" \in Steps /\ Types
    BY DEF BaseInv, Steps, Scanning
  <2> QED
    BY <1>4, <2>1, <2>2, Called
<1> HIDE DEF f, g
<1>12. FrameOK(f, docList', subs, needs) /\ FrameOK(g, docList', subs, needs)
  BY <1>4, <1>5, <1>9, <1>11 DEF FrameOK, Hiding, Scanning
<1>13. /\ MayReplace(Last(stack), f) /\ (f.pc \in Busy <=> Last(stack).pc \in Busy)
       /\ g.pc \notin Busy /\ (Last(stack).pc \in Hiding => g.pc \in Hiding)
       /\ f.dir # App => Under(f, g)
  BY <1>1, <1>2, <1>9, <1>11 DEF MayReplace, Under, Waiting, Hiding, Scanning, Shutting, Busy
<1>14. /\ stack' \in Seq(Frame) /\ StackOK(stack', closing, docList', subs, needs)
       /\ EmptiedOK(stack', result', subs)
  <2>1. CASE Top.dir = App
    <3>1. Swapped(stack, stack', f)
      BY <1>1, <1>3, <1>9, <1>10, <2>1, Swap
    <3>2. StackOK(stack', closing, docList', subs, needs)
      BY <1>1, <1>2, <1>3, <1>7, <1>9, <1>12, <1>13, <3>1, SwapOK
    <3> QED
      BY <1>9, <3>1, <3>2 DEF Swapped, EmptiedOK
  <2>2. CASE Top.dir # App
    <3>1. Pushed(stack, stack', f, g)
      BY <1>1, <1>3, <1>9, <1>10, <1>11, <2>2, Push
    <3>2. StackOK(stack', closing, docList', subs, needs)
      BY <1>1, <1>2, <1>3, <1>7, <1>9, <1>11, <1>12, <1>13, <2>2, <3>1, PushOK
    <3> QED
      BY <1>11, <3>1, <3>2 DEF Pushed, EmptiedOK
  <2> QED
    BY <2>1, <2>2
<1>15. Types'
  BY <1>1, <1>4, <1>14 DEF BaseInv, Types, input, data
<1>16. supervisor' = supervisor /\ needs' = needs /\ subs' = subs /\ closing' = closing
  BY <1>1 DEF input
<1> QED
  BY <1>8, <1>14, <1>15, <1>16 DEF BaseInv, StackOK

\* ~JXDirector's assertions hold, whatever the tree and the needs.
LEMMA NeverFailsToDestroy ==
    ASSUME BaseInv, Running("gone")
    PROVE  subs[Top.dir] = <<>> /\ Top.dir \in closing
<1>1. stack # <<>> /\ Top.pc = "gone"
  BY DEF Running
<1>2. /\ FrameOK(Top, docList, subs, needs) /\ ClosingOK(stack, closing)
      /\ Top = stack[Len(stack)] /\ Len(stack) \in 1 .. Len(stack)
  BY <1>1, TopKnown
<1> QED
  BY <1>1, <1>2 DEF FrameOK, ClosingOK, Busy

\* Destroy keeps the base invariant.
LEMMA DestroyStep ==
    ASSUME BaseInv, Destroy
    PROVE  BaseInv'
<1> DEFINE d == Top.dir
<1>1. Running("gone") /\ stack # <<>> /\ Top.pc = "gone"
  BY DEF Destroy, Running
<1>2. /\ subs' = [e \in DOMAIN subs |-> RemoveFirst(subs[e], d)]
      /\ closing' = closing \ {d} /\ keepOpen' = keepOpen \ {d} /\ active' = active \ {d}
      /\ unsaved' = unsaved \ {d}
      /\ stack' = Front(stack) /\ result' = TRUE
      /\ UNCHANGED <<input, docList, failed>>
  BY <1>1, NeverFailsToDestroy DEF Destroy, Discard, Returning
<1>3. /\ d \in Directors /\ FrameOK(Top, docList, subs, needs)
      /\ BelowOK(stack, docList, subs, needs) /\ ClosingOK(stack, closing) /\ OrderOK(stack)
      /\ Top = Last(stack)
  BY <1>1, TopKnown
<1>4. /\ stack \in Seq(Frame) /\ subs \in [Directors -> Seq(Docs)]
      /\ \A e \in Directors : NoRepeats(subs[e])
  BY DEF BaseInv, Types, TreeOK
<1> HIDE DEF d
<1>5. \A e \in Directors :
         /\ subs'[e] = RemoveFirst(subs[e], d)
         /\ subs'[e] \in Seq(Docs) /\ NoRepeats(subs'[e])
         /\ ElementsOf(subs'[e]) = ElementsOf(subs[e]) \ {d}
  <2>1. ASSUME NEW e \in Directors
        PROVE  /\ RemoveFirst(subs[e], d) \in Seq(Docs) /\ NoRepeats(RemoveFirst(subs[e], d))
               /\ ElementsOf(RemoveFirst(subs[e], d)) = ElementsOf(subs[e]) \ {d}
    <3>1. subs[e] \in Seq(Docs) /\ NoRepeats(subs[e])
      BY <1>4
    <3> QED
      BY <3>1, RemoveFirstElements
  <2>2. \A e \in Directors : subs'[e] = RemoveFirst(subs[e], d)
    BY <1>2, <1>4
  <2> QED
    BY <2>1, <2>2
<1>6. subs' \in [Directors -> Seq(Docs)]
  <2>1. DOMAIN subs = Directors
    BY <1>4
  <2> QED
    BY <1>2, <1>5, <2>1
<1>7. \A e \in Directors : subs[e] = <<>> => subs'[e] = <<>>
  <2>1. RemoveFirst(<<>>, d) = <<>>
    BY DEF RemoveFirst
  <2> QED
    BY <1>5, <2>1
<1>8. BelowOK(stack, docList, subs', needs)
  <2>1. SUFFICES ASSUME NEW k \in 1 .. Len(stack) - 1
                 PROVE  FrameOK(stack[k], docList, subs', needs)
    BY DEF BelowOK
  <2>2. stack[k] \in Frame /\ stack[k].pc \in {"subs", "gone", "firstClosed", "scanned"}
    BY <1>1, BelowKnown DEF Hiding
  <2>3. FrameOK(stack[k], docList, subs, needs)
    BY <1>3 DEF BelowOK
  <2>4. stack[k].dir \in Directors
    BY <2>2 DEF Frame
  <2> QED
    BY <1>7, <2>2, <2>3, <2>4 DEF FrameOK, Hiding, Scanning
<1>9. Popped(stack, stack')
  BY <1>1, <1>2, <1>4, Pop
<1>10. closing' = IF Last(stack).pc \in Busy THEN closing \ {Last(stack).dir} ELSE closing
  BY <1>1, <1>2, <1>3 DEF Busy, d
<1>11. StackOK(stack', closing', docList, subs', needs)
  BY <1>1, <1>3, <1>4, <1>8, <1>9, <1>10, PopOK
<1>12. EmptiedOK(stack', result', subs')
  BY <1>1, <1>9, EmptiedAfter
<1>13. Types'
  BY <1>2, <1>6, <1>9 DEF BaseInv, Types, Popped, input
<1>14. TreeOK(docList, subs', closing', supervisor)
  <2>1. d \notin ElementsOf(docList)
    BY <1>1, <1>3 DEF FrameOK, d
  <2>2. /\ NoRepeats(docList)
        /\ \A e \in Directors : \A x \in ElementsOf(subs[e]) :
              supervisor[x] = e /\ x \in ElementsOf(docList) \cup closing
        /\ \A x \in ElementsOf(docList) \cup (closing \cap Docs) : x \in ElementsOf(subs[supervisor[x]])
    BY DEF BaseInv, TreeOK
  <2>3. \A e \in Directors : \A x \in ElementsOf(subs'[e]) :
              supervisor[x] = e /\ x \in ElementsOf(docList) \cup closing'
    BY <1>2, <1>5, <2>2
  <2>4. ASSUME NEW x \in ElementsOf(docList) \cup (closing' \cap Docs)
        PROVE  x \in ElementsOf(subs'[supervisor[x]])
    <3>1. x # d /\ x \in ElementsOf(docList) \cup (closing \cap Docs)
      BY <1>2, <2>1, <2>4
    <3>2. x \in Docs
      <4>1. docList \in Seq(Docs)
        BY DEF BaseInv, Types
      <4> QED
        BY <3>1, <4>1, LenProperties, ElementOfSeq DEF ElementsOf
    <3>3. supervisor[x] \in Directors
      BY <3>2 DEF BaseInv, Types
    <3> QED
      BY <1>5, <2>2, <3>1, <3>3
  <2> QED
    BY <1>5, <2>2, <2>3, <2>4 DEF TreeOK
<1>15. supervisor' = supervisor /\ needs' = needs /\ docList' = docList
  BY <1>2 DEF input
<1> QED
  BY <1>11, <1>12, <1>13, <1>14, <1>15 DEF BaseInv, StackOK

\* FirstClosed keeps the base invariant.
LEMMA FirstClosedStep ==
    ASSUME BaseInv, FirstClosed
    PROVE  BaseInv'
<1> DEFINE d == Top.dir
           list == subs[d]
           stays == result /\ list # <<>> /\ Head(list) = Top.first
<1>1. /\ stack # <<>> /\ Top.pc = "firstClosed"
      /\ subs' = IF stays THEN [subs EXCEPT ![d] = Append(Tail(list), Top.first)] ELSE subs
      /\ IF result THEN At("first") /\ UNCHANGED result ELSE Returning(FALSE)
      /\ UNCHANGED <<input, docList, keepOpen, closing, active, data, failed>>
  BY DEF FirstClosed, Running
<1>2. /\ Top \in Frame /\ d \in Directors /\ FrameOK(Top, docList, subs, needs)
      /\ BelowOK(stack, docList, subs, needs) /\ ClosingOK(stack, closing) /\ OrderOK(stack)
      /\ Top = Last(stack)
  BY <1>1, TopKnown
<1>3. /\ stack \in Seq(Frame) /\ subs \in [Directors -> Seq(Docs)]
      /\ \A e \in Directors : NoRepeats(subs[e])
  BY DEF BaseInv, Types, TreeOK
<1>4. /\ subs' \in [Directors -> Seq(Docs)]
      /\ \A e \in Directors :
            /\ NoRepeats(subs'[e]) /\ ElementsOf(subs'[e]) = ElementsOf(subs[e])
            /\ Len(subs'[e]) = Len(subs[e]) /\ (subs[e] = <<>> => subs'[e] = <<>>)
  <2>1. CASE stays
    <3> DEFINE t == Append(Tail(list), Head(list))
    <3>1. subs' = [subs EXCEPT ![d] = t]
      BY <1>1, <2>1
    <3>2. list \in Seq(Docs) /\ list # <<>> /\ NoRepeats(list)
      BY <1>2, <1>3, <2>1
    <3>3. t \in Seq(Docs) /\ Len(t) = Len(list) /\ NoRepeats(t) /\ ElementsOf(t) = ElementsOf(list)
      BY <3>2, Rotated
    <3> HIDE DEF t, d
    <3>4. subs' \in [Directors -> Seq(Docs)] /\ subs'[d] = t /\ \A e \in Directors \ {d} : subs'[e] = subs[e]
      BY <1>2, <1>3, <3>1, <3>3
    <3> QED
      BY <1>3, <3>2, <3>3, <3>4
  <2>2. CASE ~ stays
    BY <1>1, <1>3, <2>2
  <2> QED
    BY <2>1, <2>2
<1>5. ASSUME NEW f, f.dir \in Directors, FrameOK(f, docList, subs, needs)
      PROVE  FrameOK(f, docList, subs', needs)
  BY <1>4, <1>5 DEF FrameOK
<1>6. BelowOK(stack, docList, subs', needs)
  <2>1. \A k \in 1 .. Len(stack) - 1 : stack[k].dir \in Directors
    BY <1>1, BelowKnown DEF Hiding, Frame
  <2> QED
    BY <1>2, <1>5, <2>1 DEF BelowOK
<1>7. TreeOK(docList, subs', closing, supervisor)
  <2>1. /\ NoRepeats(docList)
        /\ \A e \in Directors : \A x \in ElementsOf(subs[e]) :
              supervisor[x] = e /\ x \in ElementsOf(docList) \cup closing
        /\ \A x \in ElementsOf(docList) \cup (closing \cap Docs) : x \in ElementsOf(subs[supervisor[x]])
    BY DEF BaseInv, TreeOK
  <2>2. \A x \in ElementsOf(docList) \cup (closing \cap Docs) : supervisor[x] \in Directors
    <3>1. docList \in Seq(Docs) /\ supervisor \in [Docs -> Directors]
      BY DEF BaseInv, Types
    <3> QED
      BY <3>1, LenProperties, ElementOfSeq DEF ElementsOf
  <2> QED
    BY <1>4, <2>1, <2>2 DEF TreeOK
<1>8. stack' \in Seq(Frame) /\ StackOK(stack', closing, docList, subs', needs)
      /\ EmptiedOK(stack', result', subs') /\ result' \in BOOLEAN
  <2>1. CASE result
    <3> DEFINE f == [Top EXCEPT !.pc = "first"]
    <3>1. f \in Frame /\ f.pc = "first" /\ f.dir = Top.dir
      BY <1>2, WithPc DEF Steps
    <3>2. stack' = Front(stack) \o <<f>> /\ result' = result
      BY <1>1, <2>1 DEF At
    <3> HIDE DEF f
    <3>3. FrameOK(f, docList, subs', needs)
      BY <3>1 DEF FrameOK, Hiding, Scanning
    <3>4. MayReplace(Last(stack), f) /\ (f.pc \in Busy <=> Last(stack).pc \in Busy)
      BY <1>1, <1>2, <3>1 DEF MayReplace, Hiding, Scanning, Shutting, Busy
    <3>5. Swapped(stack, stack', f)
      BY <1>1, <1>3, <3>1, <3>2, Swap
    <3>6. StackOK(stack', closing, docList, subs', needs)
      BY <1>1, <1>2, <1>3, <1>6, <3>1, <3>3, <3>4, <3>5, SwapOK
    <3> QED
      BY <3>1, <3>2, <3>5, <3>6 DEF Swapped, EmptiedOK, BaseInv, Types
  <2>2. CASE ~ result
    <3>1. stack' = Front(stack) /\ result' = FALSE
      BY <1>1, <2>2 DEF Returning
    <3>2. Popped(stack, stack')
      BY <1>1, <1>3, <3>1, Pop
    <3>3. StackOK(stack', closing, docList, subs', needs)
      BY <1>1, <1>2, <1>3, <1>6, <3>2, PopOK DEF Busy
    <3> QED
      BY <3>1, <3>2, <3>3 DEF Popped, EmptiedOK
  <2> QED
    BY <2>1, <2>2
<1>9. Types'
  BY <1>1, <1>4, <1>8 DEF BaseInv, Types, input, data
<1>10. supervisor' = supervisor /\ needs' = needs /\ docList' = docList /\ closing' = closing
  BY <1>1 DEF input
<1> QED
  BY <1>7, <1>8, <1>9, <1>10 DEF BaseInv, StackOK

-----------------------------------------------------------------------------
\* The base invariant holds at the start.
LEMMA InitBase ==
    ASSUME Init
    PROVE  BaseInv
<1>1. /\ supervisor \in Supervisors /\ needs \in NeedGraphs
      /\ subs = [d \in Directors |-> <<>>] /\ docList = <<>>
      /\ keepOpen = {} /\ active = {} /\ closing = {} /\ unsaved = {}
      /\ stack = <<>> /\ result = TRUE /\ failed = FALSE
  BY DEF Init, Directors
<1>2. Types
  <2>1. supervisor \in [Docs -> Directors]
    BY <1>1, DocumentsAssumption DEF Directors
  <2>2. <<>> \in Seq(Docs) /\ <<>> \in Seq(Frame)
    BY EmptySeq
  <2> QED
    BY <1>1, <2>1, <2>2 DEF Types
<1>3. TreeOK(docList, subs, closing, supervisor)
  BY <1>1 DEF TreeOK, NoRepeats, ElementsOf
<1>4. /\ ClosingOK(stack, closing) /\ FramesOK(stack, docList, subs, needs)
      /\ OrderOK(stack) /\ EmptiedOK(stack, result, subs)
  BY <1>1 DEF ClosingOK, FramesOK, OrderOK, EmptiedOK
<1> QED
  BY <1>2, <1>3, <1>4 DEF BaseInv

\* Every step keeps the base invariant.
LEMMA NextBase ==
    ASSUME BaseInv, [Next]_vars
    PROVE  BaseInv'
<1>1. CASE EventLoop
  <2>1. CASE \E d \in Docs : Open(d)
    BY <2>1, OpenStep
  <2>2. CASE \E d \in Docs : Modify(d)
    BY <2>2, ModifyStep
  <2>3. CASE \E d \in Docs : Activate(d)
    BY <2>3, ActivateStep
  <2>4. CASE \E d \in Docs : CloseWindow(d)
    BY <2>4, CloseWindowStep
  <2>5. CASE \E d \in Docs : HideWindow(d)
    BY <2>5, HideWindowStep
  <2>6. CASE \E d \in Docs : \E stay \in BOOLEAN : DocumentMustStayOpen(d, stay)
    BY <2>6, DocumentMustStayOpenStep
  <2>7. CASE Quit
    BY <2>7, QuitStep
  <2> QED
    BY <1>1, <2>1, <2>2, <2>3, <2>4, <2>5, <2>6, <2>7 DEF EventLoop
<1>2. CASE Calls
  BY <1>2, AskToCloseStep, CheckNeededStep, ReturnHiddenStep, StartClosingStep, KeepOpenStep,
     DeleteStep, DestroyStep, CloseFirstStep, FirstClosedStep, ScanAgainStep, ScanStep,
     ScannedStep, DeactivateStep, DeactivateSubStep, DeactivatedSubStep, DeactivatedStep
  DEF Calls
<1>3. CASE UNCHANGED vars
  <2>1. DataTyped /\ stack' = stack /\ result' = result
    BY <1>3 DEF vars, data, directors, DataTyped, BaseInv, Types
  <2> QED
    BY <2>1, OnlyData
<1> QED
  BY <1>1, <1>2, <1>3 DEF Next

\* Documents listed are the elements of the list.
LEMMA ListedIs == Listed = ElementsOf(docList)
BY DEF Listed, Range, ElementsOf

\* A list without repetitions has as many places as elements.
LEMMA CountOfElements ==
    ASSUME NEW S, NEW s \in Seq(S), NoRepeats(s)
    PROVE  Cardinality(ElementsOf(s)) = Len(s)
<1> DEFINE f == [i \in 1 .. Len(s) |-> s[i]]
<1>1. Len(s) \in Nat /\ DOMAIN s = 1 .. Len(s)
  BY LenProperties
<1>2. f \in Bijection(1 .. Len(s), ElementsOf(s))
  <2>1. f \in [1 .. Len(s) -> ElementsOf(s)]
    BY <1>1 DEF ElementsOf
  <2>2. \A i, j \in 1 .. Len(s) : f[i] = f[j] => i = j
    BY <1>1 DEF NoRepeats
  <2>3. \A x \in ElementsOf(s) : \E i \in 1 .. Len(s) : f[i] = x
    BY <1>1 DEF ElementsOf
  <2> HIDE DEF f
  <2> QED
    BY <2>1, <2>2, <2>3 DEF Bijection, Injection, Surjection, IsInjective
<1>3. IsFiniteSet(1 .. Len(s)) /\ Cardinality(1 .. Len(s)) = Len(s)
  BY <1>1, FS_Interval
<1>4. ExistsBijection(1 .. Len(s), ElementsOf(s))
  BY <1>2 DEF ExistsBijection
<1> QED
  BY <1>3, <1>4, FS_Bijection

\* The base invariant implies the type invariant.
LEMMA BaseTypeOK ==
    ASSUME BaseInv
    PROVE  TypeOK
<1>1. \A d \in Docs \cup {App} : subs[d] \in Seq(Docs)
  BY DEF BaseInv, Types, Directors
<1>2. ASSUME NEW d \in Docs
      PROVE  d \in UNION {Range(subs[e]) : e \in Docs \cup {App}} <=> d \in Listed \/ d \in closing
  <2>1. \A e \in Directors : Range(subs[e]) = ElementsOf(subs[e])
    BY DEF Range, ElementsOf
  <2>2. /\ \A e \in Directors : \A x \in ElementsOf(subs[e]) : x \in ElementsOf(docList) \cup closing
        /\ \A x \in ElementsOf(docList) \cup (closing \cap Docs) : x \in ElementsOf(subs[supervisor[x]])
    BY DEF BaseInv, TreeOK
  <2>3. supervisor[d] \in Directors
    BY DEF BaseInv, Types
  <2>4. d \in UNION {Range(subs[e]) : e \in Docs \cup {App}} <=> \E e \in Directors : d \in ElementsOf(subs[e])
    BY <2>1 DEF Directors
  <2> QED
    BY <2>2, <2>3, <2>4, ListedIs
<1>3. Cardinality(Listed) = Len(docList)
  BY CountOfElements, ListedIs DEF BaseInv, Types, TreeOK
<1>4. AtEventLoop => closing = {}
  BY DEF AtEventLoop, BaseInv, ClosingOK
<1> QED
  BY <1>1, <1>2, <1>3, <1>4 DEF TypeOK, BaseInv, Types

\* For every tree of documents and every need, calls wait for each other in the order
\* Close, DeleteOnly, CloseAllSubdirectors and Deactivate make them (JXDirector.cpp), and the
\* list of documents agrees with the tree and with the directors being closed.
THEOREM AlwaysBase == Spec => []BaseInv
<1>1. BaseInv /\ [Next]_vars => BaseInv'
  BY NextBase
<1> QED
  BY <1>1, InitBase, PTL DEF Spec

\* TypeOK: every variable has its type, the list of documents holds none twice, a document
\* is a subdirector of one as long as it is listed or being closed, and no closing flag is
\* left set at the event loop (JXDirector.cpp, JXDocumentManager.cpp).
THEOREM TypeCorrect == Spec => []TypeOK
BY AlwaysBase, BaseTypeOK, PTL

\* A step of Next that takes documents off the list is Delete.
LEMMA OnlyDeleteRemoves ==
    ASSUME BaseInv, [Next]_vars
    PROVE  Delete \/ ElementsOf(docList) \subseteq ElementsOf(docList')
<1>1. CASE \E d \in Docs : Open(d)
  <2>1. PICK d \in Docs : Open(d)
    BY <1>1
  <2>2. docList \in Seq(Docs) /\ docList' = Append(docList, d)
    BY <2>1 DEF Open, BaseInv, Types
  <2>3. \A i \in DOMAIN docList : i \in DOMAIN docList' /\ docList'[i] = docList[i]
    BY <2>2, LenProperties, AppendProperties
  <2> QED
    BY <2>3 DEF ElementsOf
<1>2. CASE ~ \E d \in Docs : Open(d)
  <2>1. Delete \/ docList' = docList
    BY <1>2 DEF Next, EventLoop, Calls, vars, directors, Modify, Activate, CloseWindow, HideWindow,
       DocumentMustStayOpen, Quit, AskToClose, CheckNeeded, ReturnHidden, StartClosing, KeepOpen,
       Destroy, CloseFirst, FirstClosed, ScanAgain, Scan, Scanned, Deactivate, DeactivateSub,
       DeactivatedSub, Deactivated, Failing
  <2> QED
    BY <2>1
<1> QED
  BY <1>1, <1>2

\* A document that leaves the list is needed by none.
LEMMA DeletedUnneeded ==
    ASSUME BaseInv, [Next]_vars
    PROVE  \A d \in Listed \ Range(docList') : \A e \in Range(docList') : <<e, d>> \notin needs
<1>1. Listed = ElementsOf(docList) /\ Range(docList') = ElementsOf(docList')
  BY ListedIs DEF Range, ElementsOf
<1>2. CASE Delete
  <2>1. stack # <<>> /\ Top.pc = "subs" /\ docList' = RemoveFirst(docList, Top.dir)
    BY <1>2 DEF Delete, Running
  <2>2. FrameOK(Top, docList, subs, needs)
    BY <2>1, TopKnown
  <2>3. ElementsOf(docList') = ElementsOf(docList) \ {Top.dir}
    BY <2>1, RemoveFirstElements DEF BaseInv, Types, TreeOK
  <2>4. ElementsOf(docList) \subseteq Docs
    BY LenProperties, ElementOfSeq DEF BaseInv, Types, ElementsOf
  <2>5. Top.dir \in Docs => Unneeded(Top.dir, docList, needs)
    BY <2>1, <2>2, DocumentsAssumption DEF FrameOK
  <2> QED
    BY <1>1, <2>3, <2>4, <2>5 DEF Unneeded
<1>3. CASE ElementsOf(docList) \subseteq ElementsOf(docList')
  BY <1>1, <1>3
<1> QED
  BY <1>2, <1>3, OnlyDeleteRemoves

\* NeededStayOpen: a document that an open one needs is never deleted, whatever the tree
\* (JXDocument::Close and NeedDocument hide it instead).
THEOREM NeededOutlive == Spec => NeededStayOpen
<1> DEFINE A == \A d \in Listed \ Range(docList') : \A e \in Range(docList') : <<e, d>> \notin needs
<1>1. BaseInv /\ [Next]_vars => [A]_vars
  BY DeletedUnneeded
<1> QED
  BY <1>1, AlwaysBase, PTL DEF Spec, NeededStayOpen

-----------------------------------------------------------------------------
\* f is the frame on top, with another program counter.
SameBut(f, pc) ==
    /\ f \in Frame /\ f.pc = pc /\ f.dir = Top.dir
    /\ f.i = Top.i /\ f.first = Top.first /\ f.closed = Top.closed /\ f.count = Top.count

\* g is the frame of a call that has just been made.
Fresh(g, pc, dir) ==
    /\ g \in Frame /\ g.pc = pc /\ g.dir = dir /\ g.i = 1 /\ g.closed = FALSE
    /\ pc # "scan" => g.count = Len(subs[dir])
    /\ pc = "scan" /\ dir = App => g.count = Len(docList')

Turns(pc)          == \E f \in Frame : Swapped(stack, stack', f) /\ SameBut(f, pc)
Enters(pc, new, d) == \E f, g \in Frame : Pushed(stack, stack', f, g) /\ SameBut(f, pc) /\ Fresh(g, new, d)
Leaves(value)      == Popped(stack, stack') /\ result' = value
Starts(new, d)     == \E g \in Frame : Single(stack', g) /\ Fresh(g, new, d)

\* Going on to the next step replaces the top.
LEMMA AtTurns ==
    ASSUME BaseInv, stack # <<>>, NEW pc \in Steps, At(pc)
    PROVE  Turns(pc)
<1> DEFINE f == [Top EXCEPT !.pc = pc]
<1>1. Top \in Frame
  BY TopKnown
<1>2. SameBut(f, pc)
  BY <1>1, WithPc DEF SameBut
<1>3. stack' = Front(stack) \o <<f>>
  BY DEF At
<1> HIDE DEF f
<1>4. f \in Frame
  BY <1>2 DEF SameBut
<1>5. Swapped(stack, stack', f)
  BY <1>3, <1>4, Swap DEF BaseInv, Types
<1> QED
  BY <1>2, <1>4, <1>5 DEF Turns

\* The frame of a call starts at its first step.
LEMMA CallFresh ==
    ASSUME BaseInv, BaseInv', NEW new \in Steps, NEW d \in Directors
    PROVE  Fresh(Call(new, d), new, d)
<1>1. Types /\ docList' \in Seq(Docs)
  BY DEF BaseInv, Types
<1> QED
  BY <1>1, Called DEF Fresh

\* A call replaces the top and pushes a new frame.
LEMMA CallingEnters ==
    ASSUME BaseInv, BaseInv', stack # <<>>, NEW pc \in Steps, NEW new \in Steps, NEW d \in Directors,
           Calling(pc, Call(new, d))
    PROVE  Enters(pc, new, d)
<1> DEFINE f == [Top EXCEPT !.pc = pc]
           g == Call(new, d)
<1>1. Top \in Frame
  BY TopKnown
<1>2. SameBut(f, pc)
  BY <1>1, WithPc DEF SameBut
<1>3. Fresh(g, new, d)
  BY CallFresh
<1>4. stack' = Front(stack) \o <<f, g>>
  BY DEF Calling
<1> HIDE DEF f, g
<1>5. f \in Frame /\ g \in Frame
  BY <1>2, <1>3 DEF SameBut, Fresh
<1>6. Pushed(stack, stack', f, g)
  BY <1>4, <1>5, Push DEF BaseInv, Types
<1> QED
  BY <1>2, <1>3, <1>5, <1>6 DEF Enters

\* A return pops the top.
LEMMA ReturningLeaves ==
    ASSUME BaseInv, stack # <<>>, NEW value, Returning(value)
    PROVE  Leaves(value)
BY Pop DEF BaseInv, Types, Returning, Leaves

\* An event starts a stack of one frame.
LEMMA BeginStarts ==
    ASSUME BaseInv, BaseInv', NEW new \in Steps, NEW d \in Directors, Begin(new, d)
    PROVE  Starts(new, d)
<1>1. Fresh(Call(new, d), new, d) /\ stack' = <<Call(new, d)>>
  BY CallFresh DEF Begin
<1>2. Call(new, d) \in Frame
  BY <1>1 DEF Fresh
<1> QED
  BY <1>1, <1>2 DEF Starts, Single

\* The frame of CloseAllSubdirectors that calls Close.
LEMMA CloseFirstEnters ==
    ASSUME BaseInv, BaseInv', CloseFirst, subs[Top.dir] # <<>>
    PROVE  /\ Head(subs[Top.dir]) \in Docs /\ Head(subs[Top.dir]) \in ElementsOf(subs[Top.dir])
           /\ \E f, g \in Frame :
                 /\ Pushed(stack, stack', f, g)
                 /\ f.pc = "firstClosed" /\ f.dir = Top.dir
                 /\ Fresh(g, "close", Head(subs[Top.dir]))
           /\ result' = result
<1> DEFINE d == Head(subs[Top.dir])
           f == [Top EXCEPT !.pc = "firstClosed", !.first = d]
           g == Call("close", d)
<1>1. stack # <<>> /\ stack' = Front(stack) \o <<f, g>> /\ result' = result
  BY DEF CloseFirst, Running
<1>2. Top \in Frame /\ Top.dir \in Directors
  BY <1>1, TopKnown
<1>3. d \in Docs /\ d \in ElementsOf(subs[Top.dir])
  <2>1. subs[Top.dir] \in Seq(Docs)
    BY <1>2 DEF BaseInv, Types
  <2>2. d = subs[Top.dir][1] /\ 1 \in 1 .. Len(subs[Top.dir]) /\ DOMAIN subs[Top.dir] = 1 .. Len(subs[Top.dir])
    BY <2>1, EmptySeq, LenProperties
  <2> QED
    BY <2>1, <2>2, ElementOfSeq DEF ElementsOf
<1>4. Fresh(g, "close", d)
  <2>1. "close" \in Steps /\ d \in Directors
    BY <1>3 DEF Steps, Shutting, Directors
  <2> HIDE DEF d
  <2> QED
    BY <2>1, CallFresh
<1>5. f \in Frame /\ f.pc = "firstClosed" /\ f.dir = Top.dir
  <2>1. d \in Directors
    BY <1>3 DEF Directors
  <2> HIDE DEF d
  <2> QED
    BY <1>2, <2>1 DEF Frame
<1> HIDE DEF f, g
<1>6. g \in Frame
  BY <1>4 DEF Fresh
<1>7. Pushed(stack, stack', f, g)
  BY <1>1, <1>5, <1>6, Push DEF BaseInv, Types
<1> QED
  BY <1>1, <1>3, <1>4, <1>5, <1>6, <1>7

\* A scan that starts again stays the same frame.
LEMMA ScanAgainSwaps ==
    ASSUME BaseInv, ScanAgain, Top.closed
    PROVE  \E f \in Frame :
              /\ Swapped(stack, stack', f)
              /\ f.pc = "scan" /\ f.dir = Top.dir /\ f.i = 1 /\ f.closed = FALSE /\ f.count = Top.count
<1> DEFINE f == [Top EXCEPT !.i = 1, !.closed = FALSE]
<1>1. stack # <<>> /\ Top.pc = "scan" /\ stack' = Front(stack) \o <<f>>
  BY DEF ScanAgain, Running
<1>2. Top \in Frame
  BY <1>1, TopKnown
<1>3. /\ f \in Frame
      /\ f.pc = "scan" /\ f.dir = Top.dir /\ f.i = 1 /\ f.closed = FALSE /\ f.count = Top.count
  BY <1>1, <1>2 DEF Frame
<1> HIDE DEF f
<1>4. Swapped(stack, stack', f)
  BY <1>1, <1>3, Swap DEF BaseInv, Types
<1> QED
  BY <1>3, <1>4

\* A scan that passes a document over stays the same frame.
LEMMA ScanSkips ==
    ASSUME BaseInv, stack # <<>>, stack' = Front(stack) \o <<[Top EXCEPT !.i = @ + 1]>>
    PROVE  \E f \in Frame :
              /\ Swapped(stack, stack', f)
              /\ f.pc = Top.pc /\ f.dir = Top.dir /\ f.i = Top.i + 1 /\ f.closed = Top.closed
              /\ f.count = Top.count
<1> DEFINE j == Top.i + 1
           f == [Top EXCEPT !.i = j]
<1>1. Top \in Frame
  BY TopKnown
<1>2. Top.i \in Nat /\ j \in Nat /\ j = Top.i + 1
  BY <1>1 DEF Frame
<1>3. stack' = Front(stack) \o <<f>>
  OBVIOUS
<1> HIDE DEF j
<1>4. /\ f \in Frame
      /\ f.pc = Top.pc /\ f.dir = Top.dir /\ f.i = j /\ f.closed = Top.closed /\ f.count = Top.count
  BY <1>1, <1>2 DEF Frame
<1> HIDE DEF f
<1>5. Swapped(stack, stack', f)
  BY <1>3, <1>4, Swap DEF BaseInv, Types
<1> QED
  BY <1>2, <1>4, <1>5

\* A scan that goes on after a call stays the same frame.
LEMMA ScannedSwaps ==
    ASSUME BaseInv, Scanned
    PROVE  \E f \in Frame :
              /\ Swapped(stack, stack', f)
              /\ f.pc = "scan" /\ f.dir = Top.dir /\ f.i = Top.i + 1
              /\ f.closed <=> (Top.closed \/ result)
              /\ f.count = IF result THEN Len(docList) ELSE Top.count
<1> DEFINE j == Top.i + 1
           c == Top.closed \/ result
           m == IF result THEN Len(docList) ELSE Top.count
           f == [Top EXCEPT !.pc = "scan", !.i = j, !.closed = c, !.count = m]
<1>1. stack # <<>> /\ stack' = Front(stack) \o <<f>>
  BY DEF Scanned, Running
<1>2. Top \in Frame
  BY <1>1, TopKnown
<1>3. Top.i \in Nat /\ Top.count \in Nat /\ Top.closed \in BOOLEAN
  BY <1>2 DEF Frame
<1>4. Len(docList) \in Nat /\ result \in BOOLEAN
  BY LenProperties DEF BaseInv, Types
<1>5. j \in Nat /\ c \in BOOLEAN /\ m \in Nat
  BY <1>3, <1>4
<1>6. j = Top.i + 1 /\ (c <=> (Top.closed \/ result)) /\ m = IF result THEN Len(docList) ELSE Top.count
  OBVIOUS
<1> HIDE DEF j, c, m
<1>7. /\ f \in Frame
      /\ f.pc = "scan" /\ f.dir = Top.dir /\ f.i = j /\ f.closed = c /\ f.count = m
  BY <1>2, <1>5 DEF Frame, Scanning
<1> HIDE DEF f
<1>8. Swapped(stack, stack', f)
  BY <1>1, <1>7, Swap DEF BaseInv, Types
<1> QED
  BY <1>6, <1>7, <1>8

\* Deactivate goes on to the next subdirector in the same frame.
LEMMA DeactivatedSubSwaps ==
    ASSUME BaseInv, DeactivatedSub, result
    PROVE  \E f \in Frame : /\ Swapped(stack, stack', f)
                            /\ f.pc = "deactivateSubs" /\ f.dir = Top.dir
<1> DEFINE j == Top.i + 1
           f == [Top EXCEPT !.pc = "deactivateSubs", !.i = j]
<1>1. stack # <<>> /\ stack' = Front(stack) \o <<f>>
  BY DEF DeactivatedSub, Running
<1>2. Top \in Frame
  BY <1>1, TopKnown
<1>3. j \in Nat
  BY <1>2 DEF Frame
<1> HIDE DEF j
<1>4. f \in Frame /\ f.pc = "deactivateSubs" /\ f.dir = Top.dir
  BY <1>2, <1>3 DEF Frame, Hiding
<1> HIDE DEF f
<1>5. Swapped(stack, stack', f)
  BY <1>1, <1>4, Swap DEF BaseInv, Types
<1> QED
  BY <1>4, <1>5

-----------------------------------------------------------------------------
\* No change of d is left that the user has not agreed to lose.
Settled(d, un, ag) == d \in un => d \in ag

\* The user has been asked about the director of f, or will be.
AskedOK(f, un, ag, act) ==
    /\ f.pc \in {"closable", "hidden", "assert", "subs", "gone", "deactivateSubs", "deactivatedSub"} =>
          Settled(f.dir, un, ag)
    /\ f.pc = "deactivate" => f.dir \in act \/ Settled(f.dir, un, ag)

AllAsked(st, un, ag, act) == \A k \in 1 .. Len(st) : AskedOK(st[k], un, ag, act)

\* A hidden document with changes is one of the application's.
HiddenSaved(un, act, sup) == \A d \in un : d \in act \/ sup[d] = App

SavedInv ==
    /\ lost = {}
    /\ HiddenSaved(unsaved, active, supervisor)
    /\ AllAsked(stack, unsaved, agreed, active)

\* The data while calls are in progress: nothing new is to be saved.
DataFalls == unsaved' \subseteq unsaved /\ agreed \subseteq agreed' /\ supervisor' = supervisor

\* What has been asked below the top stays asked.
LEMMA AskedBelow ==
    ASSUME BaseInv, SavedInv, stack # <<>>, DataFalls, NEW k \in 1 .. Len(stack) - 1
    PROVE  AskedOK(stack[k], unsaved', agreed', active')
<1>1. Len(stack) \in Nat /\ OrderOK(stack)
  BY TopKnown
<1>2. stack[k].pc \in Waiting
  BY <1>1 DEF OrderOK, Under
<1>3. AskedOK(stack[k], unsaved, agreed, active)
  BY <1>1 DEF SavedInv, AllAsked
<1> QED
  BY <1>2, <1>3 DEF AskedOK, Settled, DataFalls, Waiting

\* Replacing the top keeps everything asked, if the new top is.
LEMMA SavedSwap ==
    ASSUME BaseInv, SavedInv, stack # <<>>, DataFalls, NEW f, Swapped(stack, stack', f),
           AskedOK(f, unsaved', agreed', active')
    PROVE  AllAsked(stack', unsaved', agreed', active')
<1>1. Len(stack) \in Nat /\ Len(stack) >= 1
  BY TopKnown
<1>2. \A k \in 1 .. Len(stack') : k \in 1 .. Len(stack) - 1 \/ k = Len(stack)
  BY <1>1 DEF Swapped
<1> QED
  BY <1>2, AskedBelow DEF Swapped, AllAsked

\* A call keeps everything asked, if the new frames are.
LEMMA SavedPush ==
    ASSUME BaseInv, SavedInv, stack # <<>>, DataFalls, NEW f, NEW g, Pushed(stack, stack', f, g),
           AskedOK(f, unsaved', agreed', active'), AskedOK(g, unsaved', agreed', active')
    PROVE  AllAsked(stack', unsaved', agreed', active')
<1>1. Len(stack) \in Nat /\ Len(stack) >= 1
  BY TopKnown
<1>2. \A k \in 1 .. Len(stack') : k \in 1 .. Len(stack) - 1 \/ k = Len(stack) \/ k = Len(stack) + 1
  BY <1>1 DEF Pushed
<1> QED
  BY <1>2, AskedBelow DEF Pushed, AllAsked

\* A return keeps everything asked.
LEMMA SavedPop ==
    ASSUME BaseInv, SavedInv, stack # <<>>, DataFalls, Popped(stack, stack')
    PROVE  AllAsked(stack', unsaved', agreed', active')
<1>1. \A k \in 1 .. Len(stack') : k \in 1 .. Len(stack) - 1
  BY DEF Popped
<1> QED
  BY <1>1, AskedBelow DEF Popped, AllAsked

\* The top has been asked.
LEMMA TopAsked ==
    ASSUME BaseInv, SavedInv, stack # <<>>
    PROVE  AskedOK(Top, unsaved, agreed, active)
<1>1. Top = stack[Len(stack)] /\ Len(stack) \in 1 .. Len(stack)
  BY TopKnown
<1> QED
  BY <1>1 DEF SavedInv, AllAsked

\* A step that changes nothing loses nothing.
LEMMA SavedUnmoved ==
    ASSUME SavedInv, UNCHANGED <<input, active, data, stack>>
    PROVE  SavedInv'
BY DEF SavedInv, HiddenSaved, AllAsked, input, data

\* Calls that do not touch the data: the new frames need be in order.
LEMMA SavedByStack ==
    ASSUME SavedInv, UNCHANGED <<input, active, data>>,
           AllAsked(stack', unsaved', agreed', active')
    PROVE  SavedInv'
BY DEF SavedInv, HiddenSaved, input, data

\* A step that leaves the data alone saves and loses nothing.
LEMMA QuietFalls ==
    ASSUME UNCHANGED <<input, active, data>>
    PROVE  DataFalls /\ unsaved' = unsaved /\ agreed' = agreed /\ active' = active
BY DEF DataFalls, input, data

\* Once OKToClose agrees, the document is saved or the user has agreed.
LEMMA OKToCloseSettles ==
    ASSUME BaseInv, SavedInv, NEW d \in Docs, NEW ok \in BOOLEAN, OKToClose(d, ok), UNCHANGED <<input, lost>>
    PROVE  /\ DataFalls /\ active \subseteq active'
           /\ lost' = {} /\ HiddenSaved(unsaved', active', supervisor')
           /\ ok => Settled(d, unsaved', agreed')
<1>1. unsaved' \subseteq unsaved /\ agreed \subseteq agreed' /\ active \subseteq active'
  BY DEF OKToClose
<1>2. ok => Settled(d, unsaved', agreed')
  BY DEF OKToClose, Settled
<1> QED
  BY <1>1, <1>2 DEF DataFalls, SavedInv, HiddenSaved, input

\* Discarding what is settled loses nothing.
LEMMA DiscardKeeps ==
    ASSUME SavedInv, NEW d, Discard(d), Settled(d, unsaved, agreed), UNCHANGED input,
           active \ {d} \subseteq active'
    PROVE  /\ DataFalls /\ lost' = {} /\ HiddenSaved(unsaved', active', supervisor')
           /\ d \notin unsaved'
BY DEF Discard, Settled, SavedInv, HiddenSaved, DataFalls, input

\* AskToClose loses no change unasked.
LEMMA AskToCloseSaved ==
    ASSUME BaseInv, BaseInv', SavedInv, AskToClose
    PROVE  SavedInv'
<1>1. stack # <<>> /\ Top.pc = "close"
  BY DEF AskToClose, Running
<1>2. CASE Top.dir \notin Listed
  BY <1>2, SavedUnmoved DEF AskToClose, Failing
<1>3. ASSUME Top.dir \in Listed, NEW ok \in BOOLEAN, OKToClose(Top.dir, ok),
             IF ok THEN At("closable") /\ UNCHANGED result ELSE Returning(FALSE),
             UNCHANGED <<input, directors, lost, failed>>
      PROVE  SavedInv'
  <2>1. Top.dir \in Docs
    BY <1>1, TopKnown DEF FrameOK
  <2>2. /\ DataFalls /\ lost' = {} /\ HiddenSaved(unsaved', active', supervisor')
        /\ ok => Settled(Top.dir, unsaved', agreed')
    BY <1>3, <2>1, OKToCloseSettles
  <2>3. CASE ok
    <3>1. "closable" \in Steps
      BY DEF Steps, Shutting
    <3>2. PICK f \in Frame : Swapped(stack, stack', f) /\ SameBut(f, "closable")
      BY <1>1, <1>3, <2>3, <3>1, AtTurns DEF Turns
    <3>3. AskedOK(f, unsaved', agreed', active')
      BY <2>2, <2>3, <3>2 DEF AskedOK, SameBut
    <3> QED
      BY <1>1, <2>2, <3>2, <3>3, SavedSwap DEF SavedInv
  <2>4. CASE ~ ok
    <3>1. Popped(stack, stack')
      BY <1>1, <1>3, <2>4, ReturningLeaves DEF Leaves
    <3> QED
      BY <1>1, <2>2, <3>1, SavedPop DEF SavedInv
  <2> QED
    BY <2>3, <2>4
<1> QED
  BY <1>2, <1>3 DEF AskToClose

\* CheckNeeded loses no change unasked.
LEMMA CheckNeededSaved ==
    ASSUME BaseInv, BaseInv', SavedInv, CheckNeeded
    PROVE  SavedInv'
<1>1. stack # <<>> /\ Top.pc = "closable" /\ UNCHANGED <<input, directors, active, result, failed>>
  BY DEF CheckNeeded, Running
<1>2. Top.dir \in Docs /\ Top.dir \in Directors
  BY <1>1, TopKnown DEF FrameOK
<1>3. Settled(Top.dir, unsaved, agreed)
  BY <1>1, TopAsked DEF AskedOK
<1>4. CASE OKToCloseDocument(Top.dir)
  <2>1. At("assert") /\ UNCHANGED data /\ "assert" \in Steps
    BY <1>4 DEF CheckNeeded, Steps, Shutting
  <2>2. PICK f \in Frame : Swapped(stack, stack', f) /\ SameBut(f, "assert")
    BY <1>1, <2>1, AtTurns DEF Turns
  <2>3. DataFalls /\ unsaved' = unsaved /\ agreed' = agreed /\ active' = active
    BY <1>1, <2>1, QuietFalls
  <2>4. AskedOK(f, unsaved', agreed', active')
    BY <1>3, <2>2, <2>3 DEF AskedOK, SameBut
  <2> QED
    BY <1>1, <2>1, <2>2, <2>3, <2>4, SavedSwap, SavedByStack
<1>5. CASE ~ OKToCloseDocument(Top.dir)
  <2>1. Calling("hidden", Call("deactivate", Top.dir)) /\ Discard(Top.dir)
    BY <1>5 DEF CheckNeeded
  <2>2. "hidden" \in Steps /\ "deactivate" \in Steps
    BY DEF Steps, Shutting, Hiding
  <2>3. PICK f, g \in Frame : /\ Pushed(stack, stack', f, g) /\ SameBut(f, "hidden")
                              /\ Fresh(g, "deactivate", Top.dir)
    BY <1>1, <1>2, <2>1, <2>2, CallingEnters DEF Enters
  <2>4. /\ DataFalls /\ lost' = {} /\ HiddenSaved(unsaved', active', supervisor')
        /\ Top.dir \notin unsaved'
    BY <1>1, <1>3, <2>1, DiscardKeeps
  <2>5. AskedOK(f, unsaved', agreed', active') /\ AskedOK(g, unsaved', agreed', active')
    BY <2>3, <2>4 DEF AskedOK, Settled, SameBut, Fresh
  <2> QED
    BY <1>1, <2>3, <2>4, <2>5, SavedPush DEF SavedInv
<1> QED
  BY <1>4, <1>5

\* StartClosing loses no change unasked.
LEMMA StartClosingSaved ==
    ASSUME BaseInv, BaseInv', SavedInv, StartClosing
    PROVE  SavedInv'
<1>1. stack # <<>> /\ Top.pc = "assert"
  BY DEF StartClosing, Running
<1>2. CASE Top.dir \in closing
  BY <1>2, SavedUnmoved DEF StartClosing, Failing
<1>3. CASE Top.dir \notin closing
  <2>1. Calling("subs", Call("first", Top.dir)) /\ UNCHANGED <<input, active, data>>
    BY <1>3 DEF StartClosing
  <2>2. Top.dir \in Directors /\ "subs" \in Steps /\ "first" \in Steps
    BY <1>1, TopKnown DEF Steps, Shutting
  <2>3. PICK f, g \in Frame : Pushed(stack, stack', f, g) /\ SameBut(f, "subs") /\ Fresh(g, "first", Top.dir)
    BY <1>1, <2>1, <2>2, CallingEnters DEF Enters
  <2>4. DataFalls /\ unsaved' = unsaved /\ agreed' = agreed /\ active' = active
    BY <2>1, QuietFalls
  <2>5. AskedOK(Top, unsaved, agreed, active)
    BY <1>1, TopAsked
  <2>6. AskedOK(f, unsaved', agreed', active') /\ AskedOK(g, unsaved', agreed', active')
    BY <1>1, <2>3, <2>4, <2>5 DEF AskedOK, SameBut, Fresh
  <2> QED
    BY <1>1, <2>1, <2>3, <2>4, <2>6, SavedPush, SavedByStack
<1> QED
  BY <1>2, <1>3

\* Delete loses no change unasked.
LEMMA DeleteSaved ==
    ASSUME BaseInv, BaseInv', SavedInv, Delete
    PROVE  SavedInv'
<1>1. /\ stack # <<>> /\ Top.pc = "subs" /\ UNCHANGED <<input, active, data>>
      /\ IF Top.dir = App THEN At("gone") ELSE Calling("gone", Call("scan", App))
  BY DEF Delete, Running
<1>2. App \in Directors /\ "gone" \in Steps /\ "scan" \in Steps
  BY DEF Directors, Steps, Shutting, Scanning
<1>3. DataFalls /\ unsaved' = unsaved /\ agreed' = agreed /\ active' = active
  BY <1>1, QuietFalls
<1>4. AskedOK(Top, unsaved, agreed, active)
  BY <1>1, TopAsked
<1>5. CASE Top.dir = App
  <2>1. PICK f \in Frame : Swapped(stack, stack', f) /\ SameBut(f, "gone")
    BY <1>1, <1>2, <1>5, AtTurns DEF Turns
  <2>2. AskedOK(f, unsaved', agreed', active')
    BY <1>1, <1>3, <1>4, <2>1 DEF AskedOK, SameBut
  <2> QED
    BY <1>1, <1>3, <2>1, <2>2, SavedSwap, SavedByStack
<1>6. CASE Top.dir # App
  <2>1. PICK f, g \in Frame : Pushed(stack, stack', f, g) /\ SameBut(f, "gone") /\ Fresh(g, "scan", App)
    BY <1>1, <1>2, <1>6, CallingEnters DEF Enters
  <2>2. AskedOK(f, unsaved', agreed', active') /\ AskedOK(g, unsaved', agreed', active')
    BY <1>1, <1>3, <1>4, <2>1 DEF AskedOK, SameBut, Fresh
  <2> QED
    BY <1>1, <1>3, <2>1, <2>2, SavedPush, SavedByStack
<1> QED
  BY <1>5, <1>6

\* Destroy loses no change unasked.
LEMMA DestroySaved ==
    ASSUME BaseInv, BaseInv', SavedInv, Destroy
    PROVE  SavedInv'
<1>1. Running("gone") /\ stack # <<>> /\ Top.pc = "gone"
  BY DEF Destroy, Running
<1>2. /\ Discard(Top.dir) /\ active' = active \ {Top.dir} /\ Returning(TRUE) /\ UNCHANGED input
  BY <1>1, NeverFailsToDestroy DEF Destroy
<1>3. Settled(Top.dir, unsaved, agreed)
  BY <1>1, TopAsked DEF AskedOK
<1>4. DataFalls /\ lost' = {} /\ HiddenSaved(unsaved', active', supervisor')
  BY <1>2, <1>3, DiscardKeeps
<1>5. Popped(stack, stack')
  BY <1>1, <1>2, ReturningLeaves DEF Leaves
<1> QED
  BY <1>1, <1>4, <1>5, SavedPop DEF SavedInv

\* Deactivate loses no change unasked.
LEMMA DeactivateSaved ==
    ASSUME BaseInv, BaseInv', SavedInv, Deactivate
    PROVE  SavedInv'
<1>1. stack # <<>> /\ Top.pc = "deactivate" /\ UNCHANGED <<input, directors, failed>>
  BY DEF Deactivate, Running
<1>2. Top.dir \in Docs
  BY <1>1, TopKnown DEF FrameOK, Hiding
<1>3. CASE Top.dir \notin active
  <2>1. Discard(Top.dir) /\ Returning(TRUE) /\ UNCHANGED active
    BY <1>3 DEF Deactivate
  <2>2. Settled(Top.dir, unsaved, agreed)
    BY <1>1, <1>3, TopAsked DEF AskedOK
  <2>3. DataFalls /\ lost' = {} /\ HiddenSaved(unsaved', active', supervisor')
    BY <1>1, <2>1, <2>2, DiscardKeeps
  <2>4. Popped(stack, stack')
    BY <1>1, <2>1, ReturningLeaves DEF Leaves
  <2> QED
    BY <1>1, <2>3, <2>4, SavedPop DEF SavedInv
<1>4. CASE Top.dir \in active
  <2>1. PICK ok \in BOOLEAN :
           /\ OKToClose(Top.dir, ok)
           /\ IF ok THEN At("deactivateSubs") /\ UNCHANGED result ELSE Returning(FALSE)
           /\ UNCHANGED lost
    BY <1>4 DEF Deactivate
  <2>2. /\ DataFalls /\ lost' = {} /\ HiddenSaved(unsaved', active', supervisor')
        /\ ok => Settled(Top.dir, unsaved', agreed')
    BY <1>1, <1>2, <2>1, OKToCloseSettles
  <2>3. CASE ok
    <3>1. "deactivateSubs" \in Steps
      BY DEF Steps, Hiding
    <3>2. PICK f \in Frame : Swapped(stack, stack', f) /\ SameBut(f, "deactivateSubs")
      BY <1>1, <2>1, <2>3, <3>1, AtTurns DEF Turns
    <3>3. AskedOK(f, unsaved', agreed', active')
      BY <2>2, <2>3, <3>2 DEF AskedOK, SameBut
    <3> QED
      BY <1>1, <2>2, <3>2, <3>3, SavedSwap DEF SavedInv
  <2>4. CASE ~ ok
    <3>1. Popped(stack, stack')
      BY <1>1, <2>1, <2>4, ReturningLeaves DEF Leaves
    <3> QED
      BY <1>1, <2>2, <3>1, SavedPop DEF SavedInv
  <2> QED
    BY <2>3, <2>4
<1> QED
  BY <1>3, <1>4

\* The subdocument that Deactivate is called for.
LEMMA SubKnown ==
    ASSUME BaseInv, DeactivateSub
    PROVE  /\ subs[Top.dir][Top.i] \in Docs
           /\ subs[Top.dir][Top.i] \in ElementsOf(subs[Top.dir])
           /\ supervisor[subs[Top.dir][Top.i]] = Top.dir /\ Top.dir \in Docs
<1>1. stack # <<>> /\ Top.pc = "deactivateSubs" /\ Top.i <= Top.count
  BY DEF DeactivateSub, Running
<1>2. Top \in Frame /\ Top.dir \in Directors /\ FrameOK(Top, docList, subs, needs)
  BY <1>1, TopKnown
<1>3. subs[Top.dir] \in Seq(Docs)
  BY <1>2 DEF BaseInv, Types
<1>4. Top.i \in 1 .. Len(subs[Top.dir])
  BY <1>1, <1>2 DEF Frame, FrameOK, Hiding
<1>5. subs[Top.dir][Top.i] \in Docs /\ subs[Top.dir][Top.i] \in ElementsOf(subs[Top.dir])
  BY <1>3, <1>4, ElementOfSeq, LenProperties DEF ElementsOf
<1>6. Top.dir \in Docs
  BY <1>1, <1>2 DEF FrameOK, Hiding
<1> QED
  BY <1>2, <1>5, <1>6 DEF BaseInv, TreeOK

\* DeactivateSub loses no change unasked.
LEMMA DeactivateSubSaved ==
    ASSUME BaseInv, BaseInv', SavedInv, DeactivateSub
    PROVE  SavedInv'
<1> DEFINE d == subs[Top.dir][Top.i]
<1>1. /\ stack # <<>> /\ Top.pc = "deactivateSubs"
      /\ Calling("deactivatedSub", Call("deactivate", d)) /\ UNCHANGED <<input, active, data>>
  BY DEF DeactivateSub, Running
<1>2. d \in Docs /\ d \in Directors /\ supervisor[d] # App
  BY SubKnown, DocumentsAssumption DEF Directors
<1> HIDE DEF d
<1>3. "deactivatedSub" \in Steps /\ "deactivate" \in Steps
  BY DEF Steps, Hiding
<1>4. PICK f, g \in Frame : /\ Pushed(stack, stack', f, g) /\ SameBut(f, "deactivatedSub")
                            /\ Fresh(g, "deactivate", d)
  BY <1>1, <1>2, <1>3, CallingEnters DEF Enters
<1>5. DataFalls /\ unsaved' = unsaved /\ agreed' = agreed /\ active' = active
  BY <1>1, QuietFalls
<1>6. AskedOK(Top, unsaved, agreed, active)
  BY <1>1, TopAsked
<1>7. d \in active \/ d \notin unsaved
  BY <1>2 DEF SavedInv, HiddenSaved
<1>8. AskedOK(f, unsaved', agreed', active') /\ AskedOK(g, unsaved', agreed', active')
  BY <1>1, <1>4, <1>5, <1>6, <1>7 DEF AskedOK, SameBut, Fresh, Settled
<1> QED
  BY <1>1, <1>4, <1>5, <1>8, SavedPush, SavedByStack

\* Deactivated loses no change unasked.
LEMMA DeactivatedSaved ==
    ASSUME BaseInv, BaseInv', SavedInv, Deactivated
    PROVE  SavedInv'
<1>1. /\ stack # <<>> /\ Top.pc = "deactivateSubs" /\ active' = active \ {Top.dir}
      /\ Discard(Top.dir) /\ Returning(TRUE) /\ UNCHANGED <<input, directors, failed>>
  BY DEF Deactivated, Running
<1>2. Settled(Top.dir, unsaved, agreed)
  BY <1>1, TopAsked DEF AskedOK
<1>3. DataFalls /\ lost' = {} /\ HiddenSaved(unsaved', active', supervisor')
  BY <1>1, <1>2, DiscardKeeps
<1>4. Popped(stack, stack')
  BY <1>1, ReturningLeaves DEF Leaves
<1> QED
  BY <1>1, <1>3, <1>4, SavedPop DEF SavedInv

\* A step that only returns loses no change unasked.
LEMMA ReturnSaved ==
    ASSUME BaseInv, SavedInv, stack # <<>>, UNCHANGED <<input, active, data>>, stack' = Front(stack)
    PROVE  SavedInv'
<1>1. DataFalls
  BY QuietFalls
<1>2. Popped(stack, stack')
  BY Pop DEF BaseInv, Types
<1> QED
  BY <1>1, <1>2, SavedPop, SavedByStack

\* A step that only replaces the top loses no change unasked.
LEMMA SwapSaved ==
    ASSUME BaseInv, SavedInv, stack # <<>>, UNCHANGED <<input, active, data>>,
           NEW f, Swapped(stack, stack', f), f.dir = Top.dir,
           \/ f.pc \in {"first", "firstClosed", "scan", "scanned"}
           \/ f.pc = "deactivateSubs" /\ Top.pc = "deactivatedSub"
    PROVE  SavedInv'
<1>1. DataFalls /\ unsaved' = unsaved /\ agreed' = agreed /\ active' = active
  BY QuietFalls
<1>2. AskedOK(Top, unsaved, agreed, active)
  BY TopAsked
<1>3. AskedOK(f, unsaved', agreed', active')
  BY <1>1, <1>2 DEF AskedOK
<1> QED
  BY <1>1, <1>3, SavedSwap, SavedByStack

\* A step that only calls loses no change unasked.
LEMMA PushSaved ==
    ASSUME BaseInv, SavedInv, stack # <<>>, UNCHANGED <<input, active, data>>,
           NEW f, NEW g, Pushed(stack, stack', f, g),
           f.pc \in {"firstClosed", "scanned"}, g.pc = "close"
    PROVE  SavedInv'
<1>1. DataFalls
  BY QuietFalls
<1>2. AskedOK(f, unsaved', agreed', active') /\ AskedOK(g, unsaved', agreed', active')
  BY DEF AskedOK
<1> QED
  BY <1>1, <1>2, SavedPush, SavedByStack

\* CloseFirst loses no change unasked.
LEMMA CloseFirstSaved ==
    ASSUME BaseInv, BaseInv', SavedInv, CloseFirst
    PROVE  SavedInv'
<1>1. stack # <<>> /\ UNCHANGED <<input, active, data>>
  BY DEF CloseFirst, Running
<1>2. CASE subs[Top.dir] = <<>>
  BY <1>1, <1>2, ReturnSaved DEF CloseFirst, Returning
<1>3. CASE subs[Top.dir] # <<>>
  <2>1. PICK f, g \in Frame : /\ Pushed(stack, stack', f, g) /\ f.pc = "firstClosed"
                              /\ Fresh(g, "close", Head(subs[Top.dir]))
    BY <1>3, CloseFirstEnters
  <2>2. g.pc = "close"
    BY <2>1 DEF Fresh
  <2> QED
    BY <1>1, <2>1, <2>2, PushSaved
<1> QED
  BY <1>2, <1>3

\* FirstClosed loses no change unasked.
LEMMA FirstClosedSaved ==
    ASSUME BaseInv, SavedInv, FirstClosed
    PROVE  SavedInv'
<1>1. stack # <<>> /\ UNCHANGED <<input, active, data>> /\ (result => At("first"))
      /\ (~ result => Returning(FALSE))
  BY DEF FirstClosed, Running
<1>2. CASE result
  <2>1. "first" \in Steps
    BY DEF Steps
  <2>2. PICK f \in Frame : Swapped(stack, stack', f) /\ SameBut(f, "first")
    BY <1>1, <1>2, <2>1, AtTurns DEF Turns
  <2> QED
    BY <1>1, <2>2, SwapSaved DEF SameBut
<1>3. CASE ~ result
  BY <1>1, <1>3, ReturnSaved DEF Returning
<1> QED
  BY <1>2, <1>3

\* ScanAgain loses no change unasked.
LEMMA ScanAgainSaved ==
    ASSUME BaseInv, SavedInv, ScanAgain
    PROVE  SavedInv'
<1>1. stack # <<>> /\ UNCHANGED <<input, active, data>> /\ (~ Top.closed => Returning(TRUE))
  BY DEF ScanAgain, Running
<1>2. CASE Top.closed
  BY <1>1, <1>2, ScanAgainSwaps, SwapSaved
<1>3. CASE ~ Top.closed
  BY <1>1, <1>3, ReturnSaved DEF Returning
<1> QED
  BY <1>2, <1>3

\* Scan loses no change unasked.
LEMMA ScanSaved ==
    ASSUME BaseInv, BaseInv', SavedInv, Scan
    PROVE  SavedInv'
<1>1. stack # <<>> /\ Top.pc = "scan" /\ Top.dir = App
  <2>1. stack # <<>> /\ Top.pc = "scan"
    BY DEF Scan, Running
  <2> QED
    BY <2>1, TopKnown DEF FrameOK, Scanning
<1>2. CASE Top.i > Len(docList)
  BY <1>2, SavedUnmoved DEF Scan, Failing
<1>3. CASE ~ Top.i > Len(docList)
  <2>1. UNCHANGED <<input, active, data>>
        /\ \/ Calling("scanned", Call("close", docList[Top.i]))
           \/ stack' = Front(stack) \o <<[Top EXCEPT !.i = @ + 1]>>
    BY <1>3 DEF Scan
  <2>2. CASE Calling("scanned", Call("close", docList[Top.i]))
    <3>1. docList[Top.i] \in Directors
      <4>1. Top.i \in Nat /\ Top.i >= 1
        BY <1>1, TopKnown DEF FrameOK, Scanning, Frame
      <4>2. Len(docList) \in Nat
        BY LenProperties DEF BaseInv, Types
      <4>3. Top.i \in 1 .. Len(docList)
        BY <1>3, <4>1, <4>2
      <4> QED
        BY <4>3, ElementOfSeq DEF BaseInv, Types, Directors
    <3>2. "scanned" \in Steps /\ "close" \in Steps
      BY DEF Steps, Scanning, Shutting
    <3>3. PICK f, g \in Frame : /\ Pushed(stack, stack', f, g) /\ SameBut(f, "scanned")
                                /\ Fresh(g, "close", docList[Top.i])
      BY <1>1, <2>2, <3>1, <3>2, CallingEnters DEF Enters
    <3>4. f.pc = "scanned" /\ g.pc = "close"
      BY <3>3 DEF SameBut, Fresh
    <3> QED
      BY <1>1, <2>1, <3>3, <3>4, PushSaved
  <2>3. CASE stack' = Front(stack) \o <<[Top EXCEPT !.i = @ + 1]>>
    BY <1>1, <2>1, <2>3, ScanSkips, SwapSaved
  <2> QED
    BY <2>1, <2>2, <2>3
<1> QED
  BY <1>2, <1>3

\* Scanned loses no change unasked.
LEMMA ScannedSaved ==
    ASSUME BaseInv, SavedInv, Scanned
    PROVE  SavedInv'
<1>1. stack # <<>> /\ UNCHANGED <<input, active, data>>
  BY DEF Scanned, Running
<1> QED
  BY <1>1, ScannedSwaps, SwapSaved

\* DeactivatedSub loses no change unasked.
LEMMA DeactivatedSubSaved ==
    ASSUME BaseInv, SavedInv, DeactivatedSub
    PROVE  SavedInv'
<1>1. /\ stack # <<>> /\ Top.pc = "deactivatedSub" /\ UNCHANGED <<input, active, data>>
      /\ (~ result => Returning(FALSE))
  BY DEF DeactivatedSub, Running
<1>2. CASE result
  BY <1>1, <1>2, DeactivatedSubSwaps, SwapSaved
<1>3. CASE ~ result
  BY <1>1, <1>3, ReturnSaved DEF Returning
<1> QED
  BY <1>2, <1>3

\* ReturnHidden loses no change unasked.
LEMMA ReturnHiddenSaved ==
    ASSUME BaseInv, SavedInv, ReturnHidden \/ KeepOpen
    PROVE  SavedInv'
BY ReturnSaved DEF ReturnHidden, KeepOpen, Running, Returning

\* A call made by the event loop.
LEMMA BeginSaved ==
    ASSUME BaseInv, BaseInv', SavedInv, UNCHANGED <<input, active, unsaved, lost>>,
           NEW pc \in Steps, NEW d \in Directors, Begin(pc, d),
           \/ pc \in {"close", "scan"}
           \/ pc = "deactivate" /\ d \in active
           \/ pc = "assert" /\ d = App
    PROVE  SavedInv'
<1>1. PICK g \in Frame : Single(stack', g) /\ Fresh(g, pc, d)
  BY BeginStarts DEF Starts
<1>2. App \notin unsaved'
  BY DocumentsAssumption DEF BaseInv, Types
<1>3. AskedOK(g, unsaved', agreed', active')
  BY <1>1, <1>2 DEF AskedOK, Fresh, Settled
<1>4. AllAsked(stack', unsaved', agreed', active')
  BY <1>1, <1>3 DEF AllAsked, Single
<1> QED
  BY <1>4 DEF SavedInv, HiddenSaved, input

\* What the event loop does loses no change unasked.
LEMMA EventLoopSaved ==
    ASSUME BaseInv, BaseInv', SavedInv, EventLoop, CarefulNext
    PROVE  SavedInv'
<1>0. /\ \A d \in Docs : d \in Directors
      /\ App \in Directors
      /\ {"close", "scan", "deactivate", "assert"} \subseteq Steps
  BY DEF Directors, Steps, Shutting, Scanning, Hiding
<1>1. ASSUME NEW d \in Docs, Open(d) \/ Activate(d)
      PROVE  SavedInv'
  <2>1. /\ UNCHANGED <<input, data, stack>> /\ stack = <<>> /\ active \subseteq active'
    BY <1>1 DEF Open, Activate, AtEventLoop
  <2> QED
    BY <2>1 DEF SavedInv, HiddenSaved, AllAsked, input, data
<1>2. ASSUME NEW d \in Docs, Modify(d)
      PROVE  SavedInv'
  <2>1. UNCHANGED <<input, active, lost, stack>> /\ stack = <<>>
    BY <1>2 DEF Modify, AtEventLoop
  <2>2. \A e \in unsaved' \ unsaved : e \in active \/ supervisor[e] = App
    BY DEF CarefulNext
  <2> QED
    BY <2>1, <2>2 DEF SavedInv, HiddenSaved, AllAsked, input
<1>3. ASSUME NEW d \in Docs, CloseWindow(d)
      PROVE  SavedInv'
  <2>1. Begin("close", d) /\ UNCHANGED <<input, active, unsaved, lost>>
    BY <1>3 DEF CloseWindow
  <2> QED
    BY <1>0, <2>1, BeginSaved
<1>4. ASSUME NEW d \in Docs, HideWindow(d)
      PROVE  SavedInv'
  <2>1. Begin("deactivate", d) /\ UNCHANGED <<input, active, unsaved, lost>> /\ d \in active
    BY <1>4 DEF HideWindow
  <2> QED
    BY <1>0, <2>1, BeginSaved
<1>5. ASSUME NEW d \in Docs, NEW stay \in BOOLEAN, DocumentMustStayOpen(d, stay)
      PROVE  SavedInv'
  <2>1. UNCHANGED <<input, active, unsaved, lost>>
    BY <1>5 DEF DocumentMustStayOpen
  <2>2. CASE stay
    <3>1. UNCHANGED <<input, active, data, stack>>
      BY <1>5, <2>1, <2>2 DEF DocumentMustStayOpen, data
    <3> QED
      BY <3>1, SavedUnmoved
  <2>3. CASE ~ stay
    <3>1. Begin("scan", App)
      BY <1>5, <2>3 DEF DocumentMustStayOpen
    <3> QED
      BY <1>0, <2>1, <3>1, BeginSaved
  <2> QED
    BY <2>2, <2>3
<1>6. ASSUME Quit
      PROVE  SavedInv'
  <2>1. Begin("assert", App) /\ UNCHANGED <<input, active, unsaved, lost>>
    BY <1>6 DEF Quit
  <2> QED
    BY <1>0, <2>1, BeginSaved
<1> QED
  BY <1>1, <1>2, <1>3, <1>4, <1>5, <1>6 DEF EventLoop

\* No step loses a change unasked, under the condition on hidden subdocuments.
LEMMA SavedNext ==
    ASSUME BaseInv, BaseInv', SavedInv, [CarefulNext]_vars
    PROVE  SavedInv'
<1>1. CASE EventLoop /\ CarefulNext
  BY <1>1, EventLoopSaved
<1>2. CASE Calls
  BY <1>2, AskToCloseSaved, CheckNeededSaved, ReturnHiddenSaved, StartClosingSaved, DeleteSaved,
     DestroySaved, CloseFirstSaved, FirstClosedSaved, ScanAgainSaved, ScanSaved, ScannedSaved,
     DeactivateSaved, DeactivateSubSaved, DeactivatedSubSaved, DeactivatedSaved
  DEF Calls
<1>3. CASE UNCHANGED vars
  BY <1>3, SavedUnmoved DEF vars, data, directors
<1> QED
  BY <1>1, <1>2, <1>3 DEF CarefulNext, Next

\* JXDocument::Close and JXFileDocument::OKToDeactivate: if documents that others
\* supervise are not changed while they are hidden, no change is ever thrown away that
\* the user has not agreed to lose, whatever the tree, the needs, and the order in
\* which documents are closed and hidden.
THEOREM NothingLostWithCare == CarefulSpec => []NothingLost
<1>1. Init => BaseInv /\ SavedInv
  <2>1. Init => SavedInv
    BY DEF Init, SavedInv, HiddenSaved, AllAsked
  <2> QED
    BY <2>1, InitBase
<1>2. BaseInv /\ SavedInv /\ [CarefulNext]_vars => (BaseInv /\ SavedInv)'
  <2>1. [CarefulNext]_vars => [Next]_vars
    BY DEF CarefulNext
  <2> QED
    BY <2>1, NextBase, SavedNext
<1>3. SavedInv => NothingLost
  BY DEF SavedInv, NothingLost
<1> QED
  BY <1>1, <1>2, <1>3, PTL DEF CarefulSpec

-----------------------------------------------------------------------------
\* The documents that supervise none.
LeafDocs == Docs \ Supervising

\* g is somewhere above f: what a scan closes, or leads to closing, are leaves.
AboveOK(f, g, leaf) ==
    \/ g.pc \in Scanning
    \/ /\ f.dir # App => g.dir # App
       /\ f.pc \in {"scanned", "gone"} => g.dir \in leaf

\* Nothing is hidden that could be closed.
HideOK(f, keep, list, sup, graph) ==
    f.pc \in Hiding =>
        f.dir \in keep \/ sup[f.dir] \in keep \/ ~ Unneeded(f.dir, list, graph)

\* g is right above f: the document a scan closes goes.
ScanOK(f, g, list, graph, leaf) ==
    f.pc = "scanned" =>
        /\ g.pc # "hidden" /\ g.dir \in leaf
        /\ g.pc # "gone" => Unneeded(g.dir, list, graph) /\ f.count = Len(list)

\* A leaf has no subdirectors to wait for.
LeafOK(st, k, res, leaf) ==
    st[k].pc = "subs" /\ st[k].dir \in leaf =>
        \/ k = Len(st) /\ res
        \/ k = Len(st) - 1 /\ st[Len(st)].pc = "first"

PairsOK(st, res, keep, list, sup, graph, leaf) ==
    /\ \A k, l \in 1 .. Len(st) : k < l => AboveOK(st[k], st[l], leaf)
    /\ \A k \in 1 .. Len(st) : HideOK(st[k], keep, list, sup, graph)
    /\ \A k \in 1 .. Len(st) - 1 : ScanOK(st[k], st[k + 1], list, graph, leaf)
    /\ \A k \in 1 .. Len(st) : LeafOK(st, k, res, leaf)

\* The frame that runs is no second attempt to close its director, and its count is right.
RunsOK(f, n, res, list, cl) ==
    /\ f.pc \in {"close", "closable", "assert"} =>
          IF f.dir = App THEN n = 1 ELSE f.dir \in ElementsOf(list) \ cl
    /\ f.pc = "scan" => f.count = Len(list)
    /\ f.pc = "scanned" => res \/ f.count = Len(list)

TopOK(st, res, list, cl) == st # <<>> => RunsOK(st[Len(st)], Len(st), res, list, cl)

\* Documents that supervise others are invisible only if they have been told to stay.
KeptOK(act, keep, list, sups) == \A s \in sups \cap ElementsOf(list) : s \in act \cup keep

StackInv ==
    /\ PairsOK(stack, result, keepOpen, docList, supervisor, needs, LeafDocs)
    /\ TopOK(stack, result, docList, closing)

OrderlyInv ==
    /\ TwoLevels /\ NeedsFollowTree
    /\ ~ failed
    /\ KeptOK(active, keepOpen, docList, Supervising)
    /\ StackInv

\* Only the top waits for nothing.
LEMMA BelowWaits ==
    ASSUME BaseInv, stack # <<>>, NEW k \in 1 .. Len(stack), k # Len(stack)
    PROVE  stack[k].pc \in Waiting /\ Under(stack[k], stack[k + 1]) /\ k \in 1 .. Len(stack) - 1
<1>1. Len(stack) \in Nat /\ OrderOK(stack)
  BY TopKnown
<1>2. k \in 1 .. Len(stack) - 1
  BY <1>1
<1> QED
  BY <1>1, <1>2 DEF OrderOK, Under

\* Documents are hidden only above each other.
LEMMA NoneHiding ==
    ASSUME BaseInv, stack # <<>>, Top.pc \notin Hiding, NEW k \in 1 .. Len(stack)
    PROVE  stack[k].pc \notin Hiding
<1>1. Len(stack) \in Nat /\ Len(stack) >= 1 /\ OrderOK(stack) /\ Top = stack[Len(stack)]
  BY TopKnown
<1>2. CASE k = Len(stack)
  BY <1>1, <1>2
<1>3. CASE k # Len(stack)
  <2>1. stack[k].pc \in Waiting
    BY <1>3, BelowWaits
  <2>2. k < Len(stack) /\ Len(stack) \in 1 .. Len(stack)
    BY <1>1, <1>3
  <2>3. stack[k].pc # "deactivatedSub"
    BY <1>1, <2>2 DEF OrderOK
  <2> QED
    BY <2>1, <2>3 DEF Waiting, Hiding
<1> QED
  BY <1>2, <1>3

\* What a scan called has been deleted, if any other frame than the top is that of a
\* call of Close.
LEMMA ScanAwaits ==
    ASSUME BaseInv, StackInv, NEW k \in 1 .. Len(stack) - 2, stack[k].pc = "scanned"
    PROVE  stack[k + 1].pc = "gone" \/ (k = Len(stack) - 2 /\ Top.pc = "first")
<1>0. Len(stack) \in Nat
  BY LenProperties DEF BaseInv, Types
<1>1. /\ k \in 1 .. Len(stack) - 1 /\ k + 1 \in 1 .. Len(stack) /\ k + 1 # Len(stack)
      /\ k \in 1 .. Len(stack) /\ k # Len(stack) /\ stack # <<>>
  BY <1>0
<1>2. /\ stack[k + 1].pc \in Shutting /\ stack[k + 1].pc \in Waiting
  BY <1>1, BelowWaits DEF Under
<1>3. stack[k + 1].pc # "hidden" /\ stack[k + 1].dir \in LeafDocs
  BY <1>1 DEF StackInv, PairsOK, ScanOK
<1>4. stack[k + 1].pc \in {"subs", "gone"}
  BY <1>2, <1>3 DEF Shutting, Waiting
<1>5. stack[k + 1].pc = "subs" => k + 1 = Len(stack) - 1 /\ stack[Len(stack)].pc = "first"
  BY <1>1, <1>3 DEF StackInv, PairsOK, LeafOK
<1>6. Top = stack[Len(stack)]
  BY <1>1, TopKnown
<1> QED
  BY <1>0, <1>4, <1>5, <1>6

\* The list of documents is the same, or a document is being deleted.
ListKept(f) == docList' = docList \/ (Top.pc = "subs" /\ f.pc = "gone")

\* What the frames below the top keep.
LEMMA BelowPairs ==
    ASSUME BaseInv, StackInv, stack # <<>>, UNCHANGED input,
           docList' = docList \/ Top.pc = "subs",
           (keepOpen' = keepOpen /\ docList' = docList) \/ Top.pc \notin Hiding
    PROVE  /\ LeafDocs' = LeafDocs
           /\ \A k, l \in 1 .. Len(stack) : k < l => AboveOK(stack[k], stack[l], LeafDocs')
           /\ \A k \in 1 .. Len(stack) : HideOK(stack[k], keepOpen', docList', supervisor', needs')
           /\ \A k \in 1 .. Len(stack) - 2 :
                 ScanOK(stack[k], stack[k + 1], docList', needs', LeafDocs')
           /\ Top.pc # "first" =>
                 \A k \in 1 .. Len(stack) - 1 : ~ (stack[k].pc = "subs" /\ stack[k].dir \in LeafDocs')
<1>1. LeafDocs' = LeafDocs /\ supervisor' = supervisor /\ needs' = needs
  BY DEF LeafDocs, Supervising, input
<1>2. Len(stack) \in Nat /\ Len(stack) >= 1 /\ Top = stack[Len(stack)]
  BY TopKnown
<1>3. \A k, l \in 1 .. Len(stack) : k < l => AboveOK(stack[k], stack[l], LeafDocs')
  BY <1>1 DEF StackInv, PairsOK
<1>4. \A k \in 1 .. Len(stack) : HideOK(stack[k], keepOpen', docList', supervisor', needs')
  <2>1. CASE keepOpen' = keepOpen /\ docList' = docList
    BY <1>1, <2>1 DEF StackInv, PairsOK
  <2>2. CASE Top.pc \notin Hiding
    BY <2>2, NoneHiding DEF HideOK
  <2> QED
    BY <2>1, <2>2
<1>5. ASSUME NEW k \in 1 .. Len(stack) - 2
      PROVE  ScanOK(stack[k], stack[k + 1], docList', needs', LeafDocs')
  <2>1. ScanOK(stack[k], stack[k + 1], docList, needs, LeafDocs)
    BY <1>2 DEF StackInv, PairsOK
  <2>2. CASE docList' = docList
    BY <1>1, <2>1, <2>2
  <2>3. CASE Top.pc = "subs"
    <3>1. stack[k].pc = "scanned" => stack[k + 1].pc = "gone"
      BY <2>3, ScanAwaits
    <3> QED
      BY <1>1, <2>1, <3>1 DEF ScanOK
  <2> QED
    BY <2>2, <2>3
<1>6. ASSUME Top.pc # "first", NEW k \in 1 .. Len(stack) - 1
      PROVE  ~ (stack[k].pc = "subs" /\ stack[k].dir \in LeafDocs')
  <2>1. k \in 1 .. Len(stack) /\ k # Len(stack)
    BY <1>2
  <2>2. LeafOK(stack, k, result, LeafDocs)
    BY <2>1 DEF StackInv, PairsOK
  <2> QED
    BY <1>1, <1>2, <1>6, <2>1, <2>2 DEF LeafOK
<1> QED
  BY <1>1, <1>3, <1>4, <1>5, <1>6

\* Replacing the top keeps the frames in order.
LEMMA PairsSwap ==
    ASSUME BaseInv, StackInv, stack # <<>>, UNCHANGED input,
           NEW f, Swapped(stack, stack', f), MayReplace(Top, f), ListKept(f),
           (keepOpen' = keepOpen /\ docList' = docList) \/ Top.pc \notin Hiding,
           f.pc \in Hiding => Top.pc \in Hiding, f.pc \notin {"subs", "hidden"},
           Top.pc \notin {"first", "gone"}, f.pc = "scanned" => Top.pc = "scanned"
    PROVE  PairsOK(stack', result', keepOpen', docList', supervisor', needs', LeafDocs')
<1> DEFINE n == Len(stack)
           list == docList'
           keep == keepOpen'
           sup == supervisor'
           graph == needs'
           leaf == LeafDocs'
<1>1. /\ leaf = LeafDocs
      /\ \A k, l \in 1 .. n : k < l => AboveOK(stack[k], stack[l], leaf)
      /\ \A k \in 1 .. n : HideOK(stack[k], keep, list, sup, graph)
      /\ \A k \in 1 .. n - 2 : ScanOK(stack[k], stack[k + 1], list, graph, leaf)
      /\ \A k \in 1 .. n - 1 : ~ (stack[k].pc = "subs" /\ stack[k].dir \in leaf)
  BY BelowPairs DEF ListKept
<1>2. n \in Nat /\ n >= 1 /\ Top = stack[n]
  BY TopKnown
<1>3. Len(stack') = n /\ stack'[n] = f /\ \A k \in 1 .. n - 1 : stack'[k] = stack[k]
  BY DEF Swapped
<1>4. ASSUME NEW k \in 1 .. n - 1, k = n - 1
      PROVE  ScanOK(stack[k], f, list, graph, leaf)
  <2>1. ScanOK(stack[k], Top, docList, needs, LeafDocs)
    BY <1>2, <1>4 DEF StackInv, PairsOK
  <2>2. f.dir = Top.dir
    BY DEF MayReplace
  <2>3. f.pc = "gone" \/ docList' = docList
    BY DEF ListKept
  <2>4. graph = needs
    BY DEF input
  <2> QED
    BY <1>1, <2>1, <2>2, <2>3, <2>4 DEF ScanOK
<1>5. f.dir = Top.dir /\ (Top.pc \in Scanning => f.pc \in Scanning)
  BY DEF MayReplace
<1> HIDE DEF n, list, keep, sup, graph, leaf
<1>6. \A k, l \in 1 .. n : k < l => AboveOK(stack'[k], stack'[l], leaf)
  <2> SUFFICES ASSUME NEW k \in 1 .. n, NEW l \in 1 .. n, k < l
               PROVE  AboveOK(stack'[k], stack'[l], leaf)
    OBVIOUS
  <2>1. AboveOK(stack[k], stack[l], leaf) /\ stack'[k] = stack[k]
    BY <1>1, <1>2, <1>3
  <2>2. CASE l = n
    BY <1>2, <1>3, <1>5, <2>1, <2>2 DEF AboveOK
  <2>3. CASE l # n
    BY <1>2, <1>3, <2>1, <2>3
  <2> QED
    BY <2>2, <2>3
<1>7. \A k \in 1 .. n : HideOK(stack'[k], keep, list, sup, graph)
  <2>1. HideOK(f, keep, list, sup, graph)
    BY <1>1, <1>2, <1>5 DEF HideOK
  <2>2. \A k \in 1 .. n : k = n \/ k \in 1 .. n - 1
    BY <1>2
  <2> QED
    BY <1>1, <1>3, <2>1, <2>2
<1>8. \A k \in 1 .. n - 1 : ScanOK(stack'[k], stack'[k + 1], list, graph, leaf)
  <2> SUFFICES ASSUME NEW k \in 1 .. n - 1
               PROVE  ScanOK(stack'[k], stack'[k + 1], list, graph, leaf)
    OBVIOUS
  <2>1. CASE k = n - 1
    BY <1>2, <1>3, <1>4, <2>1
  <2>2. CASE k # n - 1
    <3>1. k \in 1 .. n - 2 /\ k + 1 \in 1 .. n - 1
      BY <1>2, <2>2
    <3> QED
      BY <1>1, <1>3, <3>1
  <2> QED
    BY <2>1, <2>2
<1>9. \A k \in 1 .. n : LeafOK(stack', k, result', leaf)
  <2>1. \A k \in 1 .. n : k = n \/ k \in 1 .. n - 1
    BY <1>2
  <2> QED
    BY <1>1, <1>3, <2>1 DEF LeafOK
<1> QED
  BY <1>3, <1>6, <1>7, <1>8, <1>9 DEF PairsOK, n, list, keep, sup, graph, leaf

\* A call keeps the frames in order.
LEMMA PairsPush ==
    ASSUME BaseInv, StackInv, stack # <<>>, UNCHANGED input,
           NEW f, NEW g, Pushed(stack, stack', f, g), MayReplace(Top, f), ListKept(f),
           (keepOpen' = keepOpen /\ docList' = docList) \/ Top.pc \notin Hiding,
           f.pc \in Hiding => Top.pc \in Hiding,
           HideOK(g, keepOpen', docList', supervisor', needs'),
           f.pc = "hidden" => ~ Unneeded(Top.dir, docList, needs),
           f.pc = "subs" => g.pc = "first", g.pc # "subs",
           Top.pc # "gone", Top.pc = "first" => Top.dir \notin LeafDocs,
           AboveOK(f, g, LeafDocs), ScanOK(f, g, docList', needs', LeafDocs),
           \/ g.pc \in Scanning \/ g.dir \in LeafDocs
           \/ Top.pc \notin Scanning /\ (g.dir = Top.dir \/ (g.dir \in Docs /\ Top.dir \notin LeafDocs))
    PROVE  PairsOK(stack', result', keepOpen', docList', supervisor', needs', LeafDocs')
<1> DEFINE n == Len(stack)
           list == docList'
           keep == keepOpen'
           sup == supervisor'
           graph == needs'
           leaf == LeafDocs'
<1>1. /\ leaf = LeafDocs
      /\ \A k, l \in 1 .. n : k < l => AboveOK(stack[k], stack[l], leaf)
      /\ \A k \in 1 .. n : HideOK(stack[k], keep, list, sup, graph)
      /\ \A k \in 1 .. n - 2 : ScanOK(stack[k], stack[k + 1], list, graph, leaf)
      /\ Top.pc # "first" => \A k \in 1 .. n - 1 : ~ (stack[k].pc = "subs" /\ stack[k].dir \in leaf)
  BY BelowPairs DEF ListKept
<1>2. n \in Nat /\ n >= 1 /\ Top = stack[n]
  BY TopKnown
<1>3. /\ Len(stack') = n + 1 /\ stack'[n] = f /\ stack'[n + 1] = g
      /\ \A k \in 1 .. n - 1 : stack'[k] = stack[k]
  BY DEF Pushed
<1>4. ASSUME NEW k \in 1 .. n - 1, k = n - 1
      PROVE  ScanOK(stack[k], f, list, graph, leaf)
  <2>1. ScanOK(stack[k], Top, docList, needs, LeafDocs)
    BY <1>2, <1>4 DEF StackInv, PairsOK
  <2>2. f.dir = Top.dir
    BY DEF MayReplace
  <2>3. f.pc = "gone" \/ docList' = docList
    BY DEF ListKept
  <2>4. graph = needs
    BY DEF input
  <2> QED
    BY <1>1, <2>1, <2>2, <2>3, <2>4 DEF ScanOK
<1>5. f.dir = Top.dir /\ (Top.pc \in Scanning => f.pc \in Scanning)
  BY DEF MayReplace
<1>a. \A k \in 1 .. n - 1 : ~ (stack[k].pc = "subs" /\ stack[k].dir \in leaf)
  <2> SUFFICES ASSUME Top.pc = "first", NEW k \in 1 .. n - 1, stack[k].pc = "subs", stack[k].dir \in leaf
               PROVE  FALSE
    BY <1>1
  <2>1. k \in 1 .. Len(stack) /\ k # Len(stack)
    BY <1>2
  <2>2. k = n - 1
    BY <1>1, <1>2, <2>1 DEF StackInv, PairsOK, LeafOK
  <2>3. Under(stack[k], stack[k + 1])
    BY <2>1, BelowWaits
  <2>4. Top.dir = stack[k].dir
    BY <1>2, <2>2, <2>3 DEF Under
  <2> QED
    BY <1>1, <2>4
<1>b. ScanOK(f, g, list, graph, leaf) /\ AboveOK(f, g, leaf) /\ HideOK(g, keep, list, sup, graph)
  BY <1>1
<1>c. App \notin Docs /\ leaf \subseteq Docs
  BY <1>1, DocumentsAssumption DEF LeafDocs
<1>d. \/ g.pc \in Scanning \/ g.dir \in leaf
      \/ Top.pc \notin Scanning /\ (g.dir = Top.dir \/ (g.dir \in Docs /\ Top.dir \notin leaf))
  BY <1>1
<1> HIDE DEF n, list, keep, sup, graph, leaf
<1>e. \A k \in 1 .. n + 1 : k = n + 1 \/ k = n \/ k \in 1 .. n - 1
  BY <1>2
<1>6. \A k, l \in 1 .. n + 1 : k < l => AboveOK(stack'[k], stack'[l], leaf)
  <2> SUFFICES ASSUME NEW k \in 1 .. n + 1, NEW l \in 1 .. n + 1, k < l
               PROVE  AboveOK(stack'[k], stack'[l], leaf)
    OBVIOUS
  <2>1. CASE k = n
    BY <1>2, <1>3, <1>b, <2>1
  <2>2. CASE k # n
    <3>1. k \in 1 .. n - 1 /\ stack'[k] = stack[k]
      BY <1>2, <1>3, <2>2
    <3>2. AboveOK(stack[k], Top, leaf)
      BY <1>1, <1>2, <3>1
    <3>3. CASE l = n + 1
      <4>1. AboveOK(stack[k], g, leaf)
        BY <1>c, <1>d, <3>2 DEF AboveOK
      <4> QED
        BY <1>3, <3>1, <3>3, <4>1
    <3>4. CASE l = n
      BY <1>3, <1>5, <3>1, <3>2, <3>4 DEF AboveOK
    <3>5. CASE l \in 1 .. n - 1
      BY <1>1, <1>2, <1>3, <3>1, <3>5
    <3> QED
      BY <1>e, <3>3, <3>4, <3>5
  <2> QED
    BY <2>1, <2>2
<1>7. \A k \in 1 .. n + 1 : HideOK(stack'[k], keep, list, sup, graph)
  <2>1. HideOK(f, keep, list, sup, graph)
    BY <1>1, <1>2, <1>5 DEF HideOK
  <2>2. \A k \in 1 .. n - 1 : k \in 1 .. n
    BY <1>2
  <2> QED
    BY <1>1, <1>3, <1>b, <1>e, <2>1, <2>2
<1>8. \A k \in 1 .. n : ScanOK(stack'[k], stack'[k + 1], list, graph, leaf)
  <2> SUFFICES ASSUME NEW k \in 1 .. n
               PROVE  ScanOK(stack'[k], stack'[k + 1], list, graph, leaf)
    OBVIOUS
  <2>0. CASE k = n
    BY <1>3, <1>b, <2>0
  <2>1. CASE k = n - 1
    BY <1>2, <1>3, <1>4, <2>1
  <2>2. CASE k # n - 1 /\ k # n
    <3>1. k \in 1 .. n - 2 /\ k + 1 \in 1 .. n - 1 /\ k \in 1 .. n - 1
      BY <1>2, <2>2
    <3> QED
      BY <1>1, <1>3, <3>1
  <2> QED
    BY <2>0, <2>1, <2>2
<1>9. \A k \in 1 .. n + 1 : LeafOK(stack', k, result', leaf)
  <2>1. LeafOK(stack', n, result', leaf)
    BY <1>2, <1>3 DEF LeafOK
  <2>2. LeafOK(stack', n + 1, result', leaf)
    BY <1>3 DEF LeafOK
  <2>3. \A k \in 1 .. n - 1 : LeafOK(stack', k, result', leaf)
    BY <1>3, <1>a DEF LeafOK
  <2> QED
    BY <1>e, <2>1, <2>2, <2>3
<1>f. \A k \in 1 .. Len(stack') - 1 : k \in 1 .. n
  BY <1>2, <1>3
<1> QED
  BY <1>3, <1>6, <1>7, <1>8, <1>9, <1>f DEF PairsOK, n, list, keep, sup, graph, leaf

\* A call returns, from which nothing can follow but what the call below it was waiting for.
LEMMA PairsPop ==
    ASSUME BaseInv, StackInv, stack # <<>>, UNCHANGED input, docList' = docList,
           Popped(stack, stack'), Top.pc \in {"first", "gone"} => result',
           keepOpen' = keepOpen \/ Top.pc \notin Hiding
    PROVE  StackInv'
<1> DEFINE n == Len(stack)
           list == docList'
           keep == keepOpen'
           sup == supervisor'
           graph == needs'
           leaf == LeafDocs'
<1>1. /\ leaf = LeafDocs
      /\ \A k, l \in 1 .. n : k < l => AboveOK(stack[k], stack[l], leaf)
      /\ \A k \in 1 .. n : HideOK(stack[k], keep, list, sup, graph)
      /\ \A k \in 1 .. n - 2 : ScanOK(stack[k], stack[k + 1], list, graph, leaf)
      /\ Top.pc # "first" => \A k \in 1 .. n - 1 : ~ (stack[k].pc = "subs" /\ stack[k].dir \in leaf)
  BY BelowPairs
<1>2. n \in Nat /\ n >= 1 /\ Top = stack[n]
  BY TopKnown
<1>3. Len(stack') = n - 1 /\ \A k \in 1 .. n - 1 : stack'[k] = stack[k]
  BY DEF Popped
<1>4. stack' # <<>> => n - 1 \in 1 .. n - 1
  BY <1>2, <1>3, EmptySeq DEF Popped
<1>5. \A k \in 1 .. n - 1 : LeafOK(stack', k, result', leaf)
  <2> SUFFICES ASSUME NEW k \in 1 .. n - 1 PROVE LeafOK(stack', k, result', leaf)
    OBVIOUS
  <2>1. LeafOK(stack, k, result, leaf) /\ k # n /\ stack'[k] = stack[k]
    BY <1>1, <1>2, <1>3 DEF StackInv, PairsOK
  <2> QED
    BY <1>1, <1>2, <1>3, <2>1 DEF LeafOK
<1>6. PairsOK(stack', result', keep, list, sup, graph, leaf)
  <2> HIDE DEF n, list, keep, sup, graph, leaf
  <2>1. \A k \in 1 .. n - 1 : k \in 1 .. n
    BY <1>2
  <2>2. \A k \in 1 .. n - 2 : k + 1 \in 1 .. n - 1 /\ k \in 1 .. n - 1
    BY <1>2
  <2>3. Len(stack') - 1 = n - 2
    BY <1>2, <1>3
  <2> QED
    BY <1>1, <1>3, <1>5, <2>1, <2>2, <2>3 DEF PairsOK
<1>7. TopOK(stack', result', docList', closing')
  <2> SUFFICES ASSUME stack' # <<>>
               PROVE  RunsOK(stack[n - 1], n - 1, result', docList, closing')
    BY <1>3, <1>4 DEF TopOK
  <2>1. n - 1 \in 1 .. Len(stack) /\ n - 1 # Len(stack) /\ n - 1 \in 1 .. n - 1
    BY <1>2, <1>4
  <2>2. stack[n - 1].pc \in Waiting
    BY <2>1, BelowWaits
  <2>3. ScanOK(stack[n - 1], Top, docList, needs, LeafDocs)
    BY <1>2, <2>1 DEF StackInv, PairsOK
  <2> QED
    BY <2>2, <2>3 DEF RunsOK, Waiting, ScanOK
<1> QED
  BY <1>6, <1>7 DEF StackInv

-----------------------------------------------------------------------------
\* The parts of the invariant of order that a step can disturb.
LEMMA OrderlyBy ==
    ASSUME OrderlyInv, UNCHANGED input, ~ failed',
           KeptOK(active', keepOpen', docList', Supervising'),
           PairsOK(stack', result', keepOpen', docList', supervisor', needs', LeafDocs'),
           TopOK(stack', result', docList', closing')
    PROVE  OrderlyInv'
BY DEF OrderlyInv, StackInv, TwoLevels, NeedsFollowTree, Supervising, input

\* A step that only returns keeps the invariant of order.
LEMMA OrderlyPop ==
    ASSUME BaseInv, OrderlyInv, stack # <<>>, UNCHANGED input, docList' = docList, ~ failed',
           KeptOK(active', keepOpen', docList', Supervising'),
           stack' = Front(stack), Top.pc \in {"first", "gone"} => result',
           keepOpen' = keepOpen \/ Top.pc \notin Hiding
    PROVE  OrderlyInv'
<1>1. Popped(stack, stack')
  BY Pop DEF BaseInv, Types
<1>2. StackInv'
  BY <1>1, PairsPop DEF OrderlyInv
<1> QED
  BY <1>2, OrderlyBy DEF StackInv

\* A step that only replaces the top keeps the invariant of order.
LEMMA OrderlySwap ==
    ASSUME BaseInv, OrderlyInv, stack # <<>>, UNCHANGED input, docList' = docList, ~ failed',
           keepOpen' = keepOpen, KeptOK(active', keepOpen', docList', Supervising'),
           NEW f, Swapped(stack, stack', f), MayReplace(Top, f),
           f.pc \in Hiding => Top.pc \in Hiding, f.pc \notin {"subs", "hidden"},
           Top.pc \notin {"first", "gone"}, f.pc = "scanned" => Top.pc = "scanned",
           RunsOK(f, Len(stack), result', docList', closing')
    PROVE  OrderlyInv'
<1>1. PairsOK(stack', result', keepOpen', docList', supervisor', needs', LeafDocs')
  BY PairsSwap DEF OrderlyInv, ListKept
<1>2. TopOK(stack', result', docList', closing')
  BY DEF TopOK, Swapped
<1> QED
  BY <1>1, <1>2, OrderlyBy

\* What the order says of the top.
LEMMA TopPairs ==
    ASSUME BaseInv, OrderlyInv, stack # <<>>
    PROVE  /\ HideOK(Top, keepOpen, docList, supervisor, needs)
           /\ RunsOK(Top, Len(stack), result, docList, closing)
<1>1. Top = stack[Len(stack)] /\ Len(stack) \in 1 .. Len(stack)
  BY TopKnown
<1> QED
  BY <1>1 DEF OrderlyInv, StackInv, PairsOK, TopOK

\* Showing documents leaves none hidden that may not be.
LEMMA KeptGrows ==
    ASSUME OrderlyInv, UNCHANGED input, docList' = docList, keepOpen' = keepOpen,
           active \subseteq active'
    PROVE  KeptOK(active', keepOpen', docList', Supervising')
BY DEF OrderlyInv, KeptOK, Supervising, input

\* Nobody needs a document that supervises others, and the application supervises it.
LEMMA SupervisingFree ==
    ASSUME BaseInv, OrderlyInv, NEW s \in Supervising
    PROVE  s \in Docs /\ supervisor[s] = App /\ Unneeded(s, docList, needs) /\ s \notin LeafDocs
<1>1. PICK d \in Docs : s = supervisor[d] /\ s # App
  BY DEF Supervising
<1>2. s \in Docs
  BY <1>1 DEF BaseInv, Types, Directors
<1>3. supervisor[s] = App
  BY <1>1 DEF OrderlyInv, TwoLevels
<1>4. \A e : <<e, s>> \notin needs
  BY DEF OrderlyInv, NeedsFollowTree
<1> QED
  BY <1>2, <1>3, <1>4 DEF Unneeded, LeafDocs

\* Such a document is hidden only if it has been told to stay open.
LEMMA HiddenKept ==
    ASSUME BaseInv, OrderlyInv, stack # <<>>, Top.pc \in Hiding, Top.dir \in Supervising
    PROVE  Top.dir \in keepOpen
<1>1. HideOK(Top, keepOpen, docList, supervisor, needs)
  BY TopPairs
<1>2. supervisor[Top.dir] = App /\ Unneeded(Top.dir, docList, needs)
  BY SupervisingFree
<1>3. App \notin keepOpen
  BY DocumentsAssumption DEF BaseInv, Types
<1> QED
  BY <1>1, <1>2, <1>3 DEF HideOK

\* What Deactivate hides has been told to stay open.
LEMMA HidingKeeps ==
    ASSUME BaseInv, OrderlyInv, stack # <<>>, UNCHANGED input, docList' = docList,
           keepOpen' = keepOpen, Top.pc \in Hiding, active \ {Top.dir} \subseteq active'
    PROVE  KeptOK(active', keepOpen', docList', Supervising')
<1>1. Supervising' = Supervising
  BY DEF Supervising, input
<1>2. Top.dir \in Supervising => Top.dir \in keepOpen
  BY HiddenKept
<1> QED
  BY <1>1, <1>2 DEF OrderlyInv, KeptOK

\* A leaf has no subdirectors.
LEMMA LeafEmpty ==
    ASSUME BaseInv, NEW d \in LeafDocs
    PROVE  subs[d] = <<>>
<1>1. d \in Docs /\ d \in Directors /\ d # App
  BY DocumentsAssumption DEF LeafDocs, Directors
<1>2. subs[d] \in Seq(Docs)
  BY <1>1 DEF BaseInv, Types
<1>3. SUFFICES ASSUME subs[d] # <<>> PROVE FALSE
  OBVIOUS
<1>4. 1 \in DOMAIN subs[d]
  BY <1>2, <1>3, EmptySeq, LenProperties
<1>5. subs[d][1] \in Docs /\ subs[d][1] \in ElementsOf(subs[d])
  BY <1>2, <1>4, ElementOfSeq, LenProperties DEF ElementsOf
<1>6. supervisor[subs[d][1]] = d
  BY <1>1, <1>5 DEF BaseInv, TreeOK
<1> QED
  BY <1>1, <1>5, <1>6 DEF LeafDocs, Supervising

\* Only the call that waits for its subdirectors to go closes a leaf.
LEMMA LeafNotClosing ==
    ASSUME BaseInv, OrderlyInv, NEW d \in LeafDocs, d \in ElementsOf(docList),
           stack # <<>>, Top.pc # "subs", Top.pc = "first" => Top.dir # d
    PROVE  d \notin closing
<1>1. SUFFICES ASSUME d \in closing PROVE FALSE
  OBVIOUS
<1>2. PICK k \in 1 .. Len(stack) : stack[k].pc \in Busy /\ stack[k].dir = d
  BY <1>1 DEF BaseInv, ClosingOK
<1>3. stack[k].pc = "subs"
  BY <1>2 DEF BaseInv, FramesOK, FrameOK, Busy
<1>4. Len(stack) \in Nat /\ Top = stack[Len(stack)]
  BY TopKnown
<1>5. k # Len(stack)
  BY <1>3, <1>4
<1>6. k = Len(stack) - 1 /\ Top.pc = "first"
  BY <1>2, <1>3, <1>4, <1>5 DEF OrderlyInv, StackInv, PairsOK, LeafOK
<1>7. Under(stack[k], stack[k + 1])
  BY <1>5, BelowWaits
<1>8. Top.dir = d
  BY <1>2, <1>3, <1>4, <1>6, <1>7 DEF Under
<1> QED
  BY <1>6, <1>8

\* A scan closes leaves.
LEMMA ScanFinds ==
    ASSUME BaseInv, OrderlyInv, NEW d \in ElementsOf(docList), d \notin active, d \notin keepOpen
    PROVE  d \in Docs /\ d \in LeafDocs
<1>1. d \in Docs
  BY LenProperties, ElementOfSeq DEF BaseInv, Types, ElementsOf
<1>2. d \notin Supervising
  BY DEF OrderlyInv, KeptOK
<1> QED
  BY <1>1, <1>2 DEF LeafDocs

\* What CloseAllSubdirectors closes is not being closed.
LEMMA FirstFinds ==
    ASSUME BaseInv, OrderlyInv, stack # <<>>, Top.pc = "first",
           NEW d \in ElementsOf(subs[Top.dir])
    PROVE  /\ d \in ElementsOf(docList) \ closing
           /\ Top.dir \notin LeafDocs /\ supervisor[d] = Top.dir /\ d \in Docs
<1>1. Top.dir \in Directors /\ Len(stack) \in Nat /\ Top = stack[Len(stack)]
  BY TopKnown
<1>2. subs[Top.dir] \in Seq(Docs)
  BY <1>1 DEF BaseInv, Types
<1>3. d \in Docs
  BY <1>2, LenProperties, ElementOfSeq DEF ElementsOf
<1>4. supervisor[d] = Top.dir /\ d \in ElementsOf(docList) \cup closing
  BY <1>1 DEF BaseInv, TreeOK
<1>5. Top.dir \notin LeafDocs
  BY <1>2, LeafEmpty, LenProperties DEF ElementsOf
<1>6. d \notin closing
  <2>1. SUFFICES ASSUME d \in closing PROVE FALSE
    OBVIOUS
  <2>2. PICK k \in 1 .. Len(stack) : stack[k].pc \in Busy /\ stack[k].dir = d
    BY <2>1 DEF BaseInv, ClosingOK
  <2>3. k # Len(stack)
    BY <1>1, <2>2 DEF Busy
  <2>4. AboveOK(stack[k], Top, LeafDocs)
    <3>1. k < Len(stack) /\ Len(stack) \in 1 .. Len(stack)
      BY <1>1, <2>3
    <3> QED
      BY <1>1, <3>1 DEF OrderlyInv, StackInv, PairsOK
  <2>5. Top.dir # App /\ (stack[k].pc = "gone" => Top.dir \in LeafDocs)
    BY <1>3, <2>2, <2>4, DocumentsAssumption DEF AboveOK, Scanning
  <2>6. stack[k].pc = "subs"
    BY <1>5, <2>2, <2>5 DEF Busy
  <2>7. d \in LeafDocs
    <3>1. supervisor[d] # App
      BY <1>4, <2>5
    <3>2. d \notin Supervising
      <4>1. d \in Supervising => supervisor[d] = App
        BY SupervisingFree
      <4> QED
        BY <3>1, <4>1
    <3> QED
      BY <1>3, <3>2 DEF LeafDocs
  <2>8. k = Len(stack) - 1
    BY <1>1, <2>2, <2>3, <2>6, <2>7 DEF OrderlyInv, StackInv, PairsOK, LeafOK
  <2>9. Under(stack[k], stack[k + 1])
    BY <2>3, BelowWaits
  <2>10. Top.dir = d
    BY <1>1, <2>2, <2>6, <2>8, <2>9 DEF Under
  <2> QED
    BY <1>5, <2>7, <2>10
<1> QED
  BY <1>3, <1>4, <1>5, <1>6

-----------------------------------------------------------------------------
\* A step that only calls keeps the invariant of order.
LEMMA OrderlyPush ==
    ASSUME BaseInv, OrderlyInv, stack # <<>>, UNCHANGED input, docList' = docList, ~ failed',
           keepOpen' = keepOpen, active' = active,
           NEW f, NEW g, Pushed(stack, stack', f, g), MayReplace(Top, f),
           f.pc \in Hiding => Top.pc \in Hiding, HideOK(g, keepOpen, docList, supervisor, needs),
           f.pc = "hidden" => ~ Unneeded(Top.dir, docList, needs),
           f.pc = "subs" => g.pc = "first", g.pc # "subs",
           Top.pc # "gone", Top.pc = "first" => Top.dir \notin LeafDocs,
           f.dir # App => g.dir # App, f.pc # "gone",
           f.pc = "scanned" =>
              /\ g.pc = "close" /\ g.dir \in LeafDocs
              /\ Unneeded(g.dir, docList, needs) /\ f.count = Len(docList),
           \/ g.dir \in LeafDocs
           \/ Top.pc \notin Scanning /\ (g.dir = Top.dir \/ (g.dir \in Docs /\ Top.dir \notin LeafDocs)),
           RunsOK(g, Len(stack) + 1, result', docList, closing')
    PROVE  OrderlyInv'
<1>1. needs' = needs /\ supervisor' = supervisor
  BY DEF input
<1>2. AboveOK(f, g, LeafDocs) /\ ScanOK(f, g, docList', needs', LeafDocs)
  BY <1>1 DEF AboveOK, ScanOK
<1>3. PairsOK(stack', result', keepOpen', docList', supervisor', needs', LeafDocs')
  BY <1>1, <1>2, PairsPush DEF OrderlyInv, ListKept
<1>4. TopOK(stack', result', docList', closing')
  BY DEF TopOK, Pushed
<1> QED
  BY <1>3, <1>4, OrderlyBy, KeptGrows

\* AskToClose keeps the invariant of order.
LEMMA AskToCloseOrderly ==
    ASSUME BaseInv, OrderlyInv, AskToClose
    PROVE  OrderlyInv'
<1>1. stack # <<>> /\ Top.pc = "close" /\ ~ failed
  BY DEF AskToClose, Running
<1>2. Top.dir \in Docs
  BY <1>1, TopKnown DEF FrameOK
<1>3. Top.dir \in ElementsOf(docList) \ closing
  BY <1>1, <1>2, TopPairs, DocumentsAssumption DEF RunsOK
<1>4. PICK ok \in BOOLEAN :
         /\ OKToClose(Top.dir, ok)
         /\ IF ok THEN At("closable") /\ UNCHANGED result ELSE Returning(FALSE)
         /\ UNCHANGED <<input, directors, lost, failed>>
  BY <1>3, ListedIs DEF AskToClose
<1>5. /\ UNCHANGED input /\ docList' = docList /\ closing' = closing /\ keepOpen' = keepOpen
      /\ ~ failed' /\ active \subseteq active'
  BY <1>1, <1>4 DEF directors, OKToClose
<1>6. KeptOK(active', keepOpen', docList', Supervising')
  BY <1>5, KeptGrows
<1>7. CASE ok
  <2>1. At("closable") /\ "closable" \in Steps
    BY <1>4, <1>7 DEF Steps, Shutting
  <2>2. PICK f \in Frame : Swapped(stack, stack', f) /\ SameBut(f, "closable")
    BY <1>1, <2>1, AtTurns DEF Turns
  <2>3. f.pc = "closable" /\ f.dir = Top.dir
    BY <2>2 DEF SameBut
  <2>4. RunsOK(f, Len(stack), result', docList', closing')
    BY <1>2, <1>3, <1>5, <2>3, DocumentsAssumption DEF RunsOK
  <2>5. MayReplace(Top, f)
    BY <1>1, <2>3 DEF MayReplace, Hiding, Scanning, Shutting
  <2> QED
    BY <1>1, <1>5, <1>6, <2>2, <2>3, <2>4, <2>5, OrderlySwap DEF Hiding
<1>8. CASE ~ ok
  <2>1. stack' = Front(stack)
    BY <1>4, <1>8 DEF Returning
  <2> QED
    BY <1>1, <1>5, <1>6, <2>1, OrderlyPop
<1> QED
  BY <1>7, <1>8

\* CheckNeeded keeps the invariant of order.
LEMMA CheckNeededOrderly ==
    ASSUME BaseInv, BaseInv', OrderlyInv, CheckNeeded
    PROVE  OrderlyInv'
<1>1. /\ stack # <<>> /\ Top.pc = "closable" /\ ~ failed
      /\ UNCHANGED <<input, directors, active, result, failed>>
  BY DEF CheckNeeded, Running
<1>2. Top.dir \in Docs /\ Top.dir \in Directors
  BY <1>1, TopKnown DEF FrameOK
<1>3. Top.dir \in ElementsOf(docList) \ closing
  BY <1>1, <1>2, TopPairs, DocumentsAssumption DEF RunsOK
<1>4. OKToCloseDocument(Top.dir) <=> Unneeded(Top.dir, docList, needs)
  BY ListedIs DEF OKToCloseDocument, Unneeded
<1>5. /\ UNCHANGED input /\ docList' = docList /\ closing' = closing /\ keepOpen' = keepOpen
      /\ ~ failed' /\ active' = active
  BY <1>1 DEF directors
<1>6. CASE OKToCloseDocument(Top.dir)
  <2>1. At("assert") /\ "assert" \in Steps
    BY <1>6 DEF CheckNeeded, Steps, Shutting
  <2>2. PICK f \in Frame : Swapped(stack, stack', f) /\ SameBut(f, "assert")
    BY <1>1, <2>1, AtTurns DEF Turns
  <2>3. f.pc = "assert" /\ f.dir = Top.dir
    BY <2>2 DEF SameBut
  <2>4. RunsOK(f, Len(stack), result', docList', closing')
    BY <1>2, <1>3, <1>5, <2>3, DocumentsAssumption DEF RunsOK
  <2>5. MayReplace(Top, f)
    BY <1>1, <2>3 DEF MayReplace, Hiding, Scanning, Shutting
  <2>6. KeptOK(active', keepOpen', docList', Supervising')
    BY <1>5, KeptGrows
  <2> QED
    BY <1>1, <1>5, <2>2, <2>3, <2>4, <2>5, <2>6, OrderlySwap DEF Hiding
<1>7. CASE ~ OKToCloseDocument(Top.dir)
  <2>1. Calling("hidden", Call("deactivate", Top.dir)) /\ "hidden" \in Steps /\ "deactivate" \in Steps
    BY <1>7 DEF CheckNeeded, Steps, Shutting, Hiding
  <2>2. PICK f, g \in Frame : /\ Pushed(stack, stack', f, g) /\ SameBut(f, "hidden")
                              /\ Fresh(g, "deactivate", Top.dir)
    BY <1>1, <1>2, <2>1, CallingEnters DEF Enters
  <2>3. f.pc = "hidden" /\ f.dir = Top.dir /\ g.pc = "deactivate" /\ g.dir = Top.dir
    BY <2>2 DEF SameBut, Fresh
  <2>4. RunsOK(g, Len(stack) + 1, result', docList, closing')
    BY <2>3 DEF RunsOK
  <2>5. MayReplace(Top, f)
    BY <1>1, <2>3 DEF MayReplace, Hiding, Scanning, Shutting
  <2>6. HideOK(g, keepOpen, docList, supervisor, needs) /\ ~ Unneeded(Top.dir, docList, needs)
    BY <1>4, <1>7, <2>3 DEF HideOK
  <2> QED
    BY <1>1, <1>5, <2>2, <2>3, <2>4, <2>5, <2>6, OrderlyPush DEF Hiding, Scanning
<1> QED
  BY <1>6, <1>7

\* ReturnHidden keeps the invariant of order.
LEMMA ReturnHiddenOrderly ==
    ASSUME BaseInv, OrderlyInv, ReturnHidden \/ KeepOpen
    PROVE  OrderlyInv'
<1>1. /\ stack # <<>> /\ Top.pc \in {"hidden", "subs"} /\ ~ failed'
      /\ stack' = Front(stack)
      /\ UNCHANGED <<input, docList, keepOpen, active>>
  BY DEF ReturnHidden, KeepOpen, Running, Returning, directors
<1>2. KeptOK(active', keepOpen', docList', Supervising')
  BY <1>1, KeptGrows
<1> QED
  BY <1>1, <1>2, OrderlyPop

\* StartClosing keeps the invariant of order.
LEMMA StartClosingOrderly ==
    ASSUME BaseInv, BaseInv', OrderlyInv, StartClosing
    PROVE  OrderlyInv'
<1>1. stack # <<>> /\ Top.pc = "assert" /\ ~ failed
  BY DEF StartClosing, Running
<1>2. Top.dir \in Directors /\ Len(stack) \in Nat /\ Top = stack[Len(stack)]
  BY <1>1, TopKnown
<1>3. Top.dir \notin closing
  <2>1. CASE Top.dir # App
    BY <1>1, <2>1, TopPairs DEF RunsOK
  <2>2. CASE Top.dir = App
    <3>1. Len(stack) = 1
      BY <1>1, <2>2, TopPairs DEF RunsOK
    <3>2. \A k \in 1 .. Len(stack) : stack[k].pc \notin Busy
      BY <1>1, <1>2, <3>1 DEF Busy
    <3> QED
      BY <3>2 DEF BaseInv, ClosingOK
  <2> QED
    BY <2>1, <2>2
<1>4. /\ Calling("subs", Call("first", Top.dir)) /\ "subs" \in Steps /\ "first" \in Steps
      /\ UNCHANGED <<input, subs, docList, keepOpen, active, result, failed>>
  BY <1>3 DEF StartClosing, Steps, Shutting
<1>5. PICK f, g \in Frame : Pushed(stack, stack', f, g) /\ SameBut(f, "subs") /\ Fresh(g, "first", Top.dir)
  BY <1>1, <1>2, <1>4, CallingEnters DEF Enters
<1>6. f.pc = "subs" /\ f.dir = Top.dir /\ g.pc = "first" /\ g.dir = Top.dir
  BY <1>5 DEF SameBut, Fresh
<1>7. RunsOK(g, Len(stack) + 1, result', docList, closing')
  BY <1>6 DEF RunsOK
<1>8. MayReplace(Top, f) /\ HideOK(g, keepOpen, docList, supervisor, needs)
  BY <1>1, <1>6 DEF MayReplace, Hiding, Scanning, Shutting, HideOK
<1>9. ~ failed' /\ active' = active /\ docList' = docList /\ keepOpen' = keepOpen
  BY <1>1, <1>4
<1> QED
  BY <1>1, <1>4, <1>5, <1>6, <1>7, <1>8, <1>9, OrderlyPush DEF Hiding, Scanning

\* Delete keeps the invariant of order.
LEMMA DeleteOrderly ==
    ASSUME BaseInv, BaseInv', OrderlyInv, Delete
    PROVE  OrderlyInv'
<1>1. /\ stack # <<>> /\ Top.pc = "subs" /\ ~ failed' /\ UNCHANGED <<input, active>>
      /\ docList' = RemoveFirst(docList, Top.dir) /\ keepOpen' = keepOpen
      /\ IF Top.dir = App THEN At("gone") ELSE Calling("gone", Call("scan", App))
  BY DEF Delete, Running
<1>2. App \in Directors /\ "gone" \in Steps /\ "scan" \in Steps
  BY DEF Directors, Steps, Shutting, Scanning
<1>3. KeptOK(active', keepOpen', docList', Supervising')
  <2>1. ElementsOf(docList') \subseteq ElementsOf(docList)
    BY <1>1, RemoveFirstElements DEF BaseInv, Types, TreeOK
  <2> QED
    BY <1>1, <2>1 DEF OrderlyInv, KeptOK, Supervising, input
<1>4. CASE Top.dir = App
  <2>1. PICK f \in Frame : Swapped(stack, stack', f) /\ SameBut(f, "gone")
    BY <1>1, <1>2, <1>4, AtTurns DEF Turns
  <2>2. f.pc = "gone" /\ f.dir = Top.dir
    BY <2>1 DEF SameBut
  <2>3. MayReplace(Top, f)
    BY <1>1, <2>2 DEF MayReplace, Hiding, Scanning, Shutting
  <2>4. PairsOK(stack', result', keepOpen', docList', supervisor', needs', LeafDocs')
    BY <1>1, <2>1, <2>2, <2>3, PairsSwap DEF OrderlyInv, ListKept, Hiding
  <2>5. TopOK(stack', result', docList', closing')
    BY <2>1, <2>2 DEF TopOK, RunsOK, Swapped
  <2> QED
    BY <1>1, <1>3, <2>4, <2>5, OrderlyBy
<1>5. CASE Top.dir # App
  <2>1. PICK f, g \in Frame : Pushed(stack, stack', f, g) /\ SameBut(f, "gone") /\ Fresh(g, "scan", App)
    BY <1>1, <1>2, <1>5, CallingEnters DEF Enters
  <2>2. f.pc = "gone" /\ f.dir = Top.dir /\ g.pc = "scan" /\ g.count = Len(docList')
    BY <2>1 DEF SameBut, Fresh
  <2>3. MayReplace(Top, f) /\ HideOK(g, keepOpen', docList', supervisor', needs')
    BY <1>1, <2>2 DEF MayReplace, Hiding, Scanning, Shutting, HideOK
  <2>4. AboveOK(f, g, LeafDocs) /\ ScanOK(f, g, docList', needs', LeafDocs)
    BY <2>2 DEF AboveOK, ScanOK, Scanning
  <2>5. PairsOK(stack', result', keepOpen', docList', supervisor', needs', LeafDocs')
    BY <1>1, <2>1, <2>2, <2>3, <2>4, PairsPush DEF OrderlyInv, ListKept, Hiding, Scanning
  <2>6. TopOK(stack', result', docList', closing')
    BY <2>1, <2>2 DEF TopOK, RunsOK, Pushed
  <2> QED
    BY <1>1, <1>3, <2>5, <2>6, OrderlyBy
<1> QED
  BY <1>4, <1>5

\* Destroy keeps the invariant of order.
LEMMA DestroyOrderly ==
    ASSUME BaseInv, OrderlyInv, Destroy
    PROVE  OrderlyInv'
<1>1. Running("gone") /\ stack # <<>> /\ Top.pc = "gone" /\ ~ failed
  BY DEF Destroy, Running
<1>2. /\ active' = active \ {Top.dir} /\ keepOpen' = keepOpen \ {Top.dir}
      /\ stack' = Front(stack) /\ result' /\ UNCHANGED <<input, docList, failed>>
  BY <1>1, NeverFailsToDestroy DEF Destroy, Returning
<1>3. Top.dir \notin ElementsOf(docList)
  BY <1>1, TopKnown DEF FrameOK
<1>4. KeptOK(active', keepOpen', docList', Supervising')
  BY <1>2, <1>3 DEF OrderlyInv, KeptOK, Supervising, input
<1> QED
  BY <1>1, <1>2, <1>4, OrderlyPop DEF Hiding

\* CloseFirst keeps the invariant of order.
LEMMA CloseFirstOrderly ==
    ASSUME BaseInv, BaseInv', OrderlyInv, CloseFirst
    PROVE  OrderlyInv'
<1>1. /\ stack # <<>> /\ Top.pc = "first" /\ ~ failed' /\ UNCHANGED <<input, directors, active>>
  BY DEF CloseFirst, Running
<1>2. docList' = docList /\ keepOpen' = keepOpen /\ closing' = closing /\ active' = active
  BY <1>1 DEF directors
<1>3. CASE subs[Top.dir] = <<>>
  <2>1. stack' = Front(stack) /\ result'
    BY <1>3 DEF CloseFirst, Returning
  <2> QED
    BY <1>1, <1>2, <2>1, OrderlyPop, KeptGrows
<1>4. CASE subs[Top.dir] # <<>>
  <2> DEFINE d == Head(subs[Top.dir])
  <2>1. d \in Docs /\ d \in ElementsOf(subs[Top.dir])
    BY <1>4, CloseFirstEnters
  <2>2. PICK f, g \in Frame : /\ Pushed(stack, stack', f, g) /\ f.pc = "firstClosed" /\ f.dir = Top.dir
                              /\ Fresh(g, "close", d)
    BY <1>4, CloseFirstEnters
  <2> HIDE DEF d
  <2>3. g.pc = "close" /\ g.dir = d /\ d # App
    BY <2>1, <2>2, DocumentsAssumption DEF Fresh
  <2>4. d \in ElementsOf(docList) \ closing /\ Top.dir \notin LeafDocs
    BY <1>1, <2>1, FirstFinds
  <2>5. RunsOK(g, Len(stack) + 1, result', docList, closing')
    BY <1>2, <2>3, <2>4 DEF RunsOK
  <2>6. MayReplace(Top, f) /\ HideOK(g, keepOpen, docList, supervisor, needs)
    BY <1>1, <2>2, <2>3 DEF MayReplace, Hiding, Scanning, Shutting, HideOK
  <2> QED
    BY <1>1, <1>2, <2>1, <2>2, <2>3, <2>4, <2>5, <2>6, OrderlyPush DEF Hiding, Scanning
<1> QED
  BY <1>3, <1>4

\* FirstClosed keeps the invariant of order.
LEMMA FirstClosedOrderly ==
    ASSUME BaseInv, OrderlyInv, FirstClosed
    PROVE  OrderlyInv'
<1>1. /\ stack # <<>> /\ Top.pc = "firstClosed" /\ ~ failed'
      /\ UNCHANGED <<input, docList, keepOpen, closing, active>>
      /\ (result => At("first")) /\ (~ result => Returning(FALSE))
  BY DEF FirstClosed, Running
<1>2. KeptOK(active', keepOpen', docList', Supervising')
  BY <1>1, KeptGrows
<1>3. CASE result
  <2>1. "first" \in Steps
    BY DEF Steps
  <2>2. PICK f \in Frame : Swapped(stack, stack', f) /\ SameBut(f, "first")
    BY <1>1, <1>3, <2>1, AtTurns DEF Turns
  <2>3. f.pc = "first" /\ f.dir = Top.dir
    BY <2>2 DEF SameBut
  <2>4. MayReplace(Top, f) /\ RunsOK(f, Len(stack), result', docList', closing')
    BY <1>1, <2>3 DEF MayReplace, Hiding, Scanning, Shutting, RunsOK
  <2> QED
    BY <1>1, <1>2, <2>2, <2>3, <2>4, OrderlySwap DEF Hiding
<1>4. CASE ~ result
  BY <1>1, <1>2, <1>4, OrderlyPop DEF Returning
<1> QED
  BY <1>3, <1>4

\* ScanAgain keeps the invariant of order.
LEMMA ScanAgainOrderly ==
    ASSUME BaseInv, OrderlyInv, ScanAgain
    PROVE  OrderlyInv'
<1>1. /\ stack # <<>> /\ Top.pc = "scan" /\ ~ failed' /\ UNCHANGED <<input, directors, active>>
      /\ (~ Top.closed => Returning(TRUE))
  BY DEF ScanAgain, Running
<1>2. docList' = docList /\ keepOpen' = keepOpen /\ closing' = closing /\ active' = active
  BY <1>1 DEF directors
<1>3. KeptOK(active', keepOpen', docList', Supervising')
  BY <1>1, <1>2, KeptGrows
<1>4. CASE Top.closed
  <2>1. PICK f \in Frame : /\ Swapped(stack, stack', f)
                           /\ f.pc = "scan" /\ f.dir = Top.dir /\ f.count = Top.count
    BY <1>4, ScanAgainSwaps
  <2>2. MayReplace(Top, f) /\ RunsOK(f, Len(stack), result', docList', closing')
    BY <1>1, <1>2, <2>1, TopPairs DEF MayReplace, Hiding, Scanning, Shutting, RunsOK
  <2> QED
    BY <1>1, <1>2, <1>3, <2>1, <2>2, OrderlySwap DEF Hiding
<1>5. CASE ~ Top.closed
  BY <1>1, <1>2, <1>3, <1>5, OrderlyPop DEF Returning
<1> QED
  BY <1>4, <1>5

\* The index of a scan is never past the end of the list.
LEMMA ScanAt ==
    ASSUME BaseInv, OrderlyInv, Scan
    PROVE  /\ stack # <<>> /\ Top.pc = "scan" /\ ~ failed /\ Top.dir = App /\ Top.count = Len(docList)
           /\ Top.i \in 1 .. Len(docList) /\ DOMAIN docList = 1 .. Len(docList)
           /\ docList[Top.i] \in ElementsOf(docList) /\ docList[Top.i] \in Docs
           /\ UNCHANGED <<input, directors, active, data, result, failed>>
           /\ LET d == docList[Top.i]
              IN  IF d \notin active /\ d \notin keepOpen /\ OKToCloseDocument(d)
                  THEN Calling("scanned", Call("close", d))
                  ELSE stack' = Front(stack) \o <<[Top EXCEPT !.i = @ + 1]>>
<1>1. stack # <<>> /\ Top.pc = "scan" /\ ~ failed /\ Top.i <= Top.count
  BY DEF Scan, Running
<1>2. Top.dir = App /\ Top.i >= 1 /\ Top.i \in Nat
  BY <1>1, TopKnown DEF FrameOK, Scanning, Frame
<1>3. Top.count = Len(docList) /\ Len(docList) \in Nat /\ DOMAIN docList = 1 .. Len(docList)
  BY <1>1, TopPairs, LenProperties DEF RunsOK, BaseInv, Types
<1>4. Top.i \in 1 .. Len(docList) /\ ~ Top.i > Len(docList)
  BY <1>1, <1>2, <1>3
<1>5. docList[Top.i] \in ElementsOf(docList) /\ docList[Top.i] \in Docs
  BY <1>3, <1>4, ElementOfSeq DEF ElementsOf, BaseInv, Types
<1> QED
  BY <1>1, <1>2, <1>3, <1>4, <1>5 DEF Scan

\* The frames of a scan that calls Close.
LEMMA ScanEnters ==
    ASSUME BaseInv, BaseInv', OrderlyInv, Scan, Calling("scanned", Call("close", docList[Top.i]))
    PROVE  \E f, g \in Frame : /\ Pushed(stack, stack', f, g) /\ SameBut(f, "scanned")
                               /\ Fresh(g, "close", docList[Top.i])
<1>1. stack # <<>> /\ docList[Top.i] \in Directors
  BY ScanAt DEF Directors
<1>2. "scanned" \in Steps /\ "close" \in Steps
  BY DEF Steps, Scanning, Shutting
<1> QED
  BY <1>1, <1>2, CallingEnters DEF Enters

\* Scan keeps the invariant of order.
LEMMA ScanOrderly ==
    ASSUME BaseInv, BaseInv', OrderlyInv, Scan
    PROVE  OrderlyInv'
<1> DEFINE d == docList[Top.i]
<1>1. /\ stack # <<>> /\ Top.pc = "scan" /\ ~ failed /\ Top.dir = App /\ Top.count = Len(docList)
      /\ d \in ElementsOf(docList) /\ d \in Docs
      /\ UNCHANGED <<input, directors, active, data, result, failed>>
      /\ IF d \notin active /\ d \notin keepOpen /\ OKToCloseDocument(d)
         THEN Calling("scanned", Call("close", d))
         ELSE stack' = Front(stack) \o <<[Top EXCEPT !.i = @ + 1]>>
  BY ScanAt
<1>2. docList' = docList /\ keepOpen' = keepOpen /\ closing' = closing /\ active' = active /\ ~ failed'
  BY <1>1 DEF directors
<1>3. CASE d \notin active /\ d \notin keepOpen /\ OKToCloseDocument(d)
  <2>1. PICK f, g \in Frame : /\ Pushed(stack, stack', f, g) /\ SameBut(f, "scanned")
                              /\ Fresh(g, "close", d)
    BY <1>1, <1>3, ScanEnters
  <2>2. d \in LeafDocs /\ d # App
    BY <1>1, <1>3, ScanFinds, DocumentsAssumption
  <2>3. d \notin closing
    BY <1>1, <2>2, LeafNotClosing
  <2>4. Unneeded(d, docList, needs)
    BY <1>3, ListedIs DEF OKToCloseDocument, Unneeded
  <2> HIDE DEF d
  <2>5. /\ f.pc = "scanned" /\ f.dir = Top.dir /\ f.count = Len(docList)
        /\ g.pc = "close" /\ g.dir = d
    BY <1>1, <2>1 DEF SameBut, Fresh
  <2>6. RunsOK(g, Len(stack) + 1, result', docList, closing')
    BY <1>1, <1>2, <2>2, <2>3, <2>5 DEF RunsOK
  <2>7. MayReplace(Top, f) /\ HideOK(g, keepOpen, docList, supervisor, needs)
    BY <1>1, <2>5 DEF MayReplace, Hiding, Scanning, Shutting, HideOK
  <2> QED
    BY <1>1, <1>2, <2>1, <2>2, <2>4, <2>5, <2>6, <2>7, OrderlyPush DEF Hiding
<1>4. CASE ~ (d \notin active /\ d \notin keepOpen /\ OKToCloseDocument(d))
  <2>1. PICK f \in Frame : /\ Swapped(stack, stack', f)
                           /\ f.pc = Top.pc /\ f.dir = Top.dir /\ f.count = Top.count
    BY <1>1, <1>4, ScanSkips
  <2>2. MayReplace(Top, f) /\ RunsOK(f, Len(stack), result', docList', closing')
    BY <1>1, <1>2, <2>1 DEF MayReplace, Hiding, Scanning, Shutting, RunsOK
  <2> QED
    BY <1>1, <1>2, <2>1, <2>2, OrderlySwap, KeptGrows DEF Hiding
<1> QED
  BY <1>3, <1>4

\* Scanned keeps the invariant of order.
LEMMA ScannedOrderly ==
    ASSUME BaseInv, OrderlyInv, Scanned
    PROVE  OrderlyInv'
<1>1. /\ stack # <<>> /\ Top.pc = "scanned" /\ ~ failed' /\ UNCHANGED <<input, directors, active>>
  BY DEF Scanned, Running
<1>2. docList' = docList /\ keepOpen' = keepOpen /\ closing' = closing /\ active' = active
  BY <1>1 DEF directors
<1>3. PICK f \in Frame : /\ Swapped(stack, stack', f) /\ f.pc = "scan" /\ f.dir = Top.dir
                         /\ f.count = IF result THEN Len(docList) ELSE Top.count
  BY ScannedSwaps
<1>4. RunsOK(Top, Len(stack), result, docList, closing)
  BY <1>1, TopPairs
<1>5. MayReplace(Top, f) /\ RunsOK(f, Len(stack), result', docList', closing')
  BY <1>1, <1>2, <1>3, <1>4 DEF MayReplace, Hiding, Scanning, Shutting, RunsOK
<1> QED
  BY <1>1, <1>2, <1>3, <1>5, OrderlySwap, KeptGrows DEF Hiding

\* Deactivate keeps the invariant of order.
LEMMA DeactivateOrderly ==
    ASSUME BaseInv, OrderlyInv, Deactivate
    PROVE  OrderlyInv'
<1>1. stack # <<>> /\ Top.pc = "deactivate" /\ ~ failed' /\ UNCHANGED <<input, directors>>
  BY DEF Deactivate, Running
<1>2. docList' = docList /\ keepOpen' = keepOpen /\ closing' = closing
  BY <1>1 DEF directors
<1>3. CASE Top.dir \notin active
  <2>1. stack' = Front(stack) /\ active' = active
    BY <1>3 DEF Deactivate, Returning
  <2> QED
    BY <1>1, <1>2, <2>1, OrderlyPop, KeptGrows
<1>4. CASE Top.dir \in active
  <2>1. PICK ok \in BOOLEAN :
           /\ OKToClose(Top.dir, ok)
           /\ IF ok THEN At("deactivateSubs") /\ UNCHANGED result ELSE Returning(FALSE)
    BY <1>4 DEF Deactivate
  <2>2. KeptOK(active', keepOpen', docList', Supervising')
    <3>1. active \subseteq active'
      BY <2>1 DEF OKToClose
    <3> QED
      BY <1>1, <1>2, <3>1, KeptGrows
  <2>3. CASE ok
    <3>1. "deactivateSubs" \in Steps
      BY DEF Steps, Hiding
    <3>2. PICK f \in Frame : Swapped(stack, stack', f) /\ SameBut(f, "deactivateSubs")
      BY <1>1, <2>1, <2>3, <3>1, AtTurns DEF Turns
    <3>3. f.pc = "deactivateSubs" /\ f.dir = Top.dir
      BY <3>2 DEF SameBut
    <3>4. MayReplace(Top, f) /\ RunsOK(f, Len(stack), result', docList', closing')
      BY <1>1, <3>3 DEF MayReplace, Hiding, Scanning, Shutting, RunsOK
    <3> QED
      BY <1>1, <1>2, <2>2, <3>2, <3>3, <3>4, OrderlySwap DEF Hiding
  <2>4. CASE ~ ok
    BY <1>1, <1>2, <2>1, <2>2, <2>4, OrderlyPop DEF Returning
  <2> QED
    BY <2>3, <2>4
<1> QED
  BY <1>3, <1>4

\* DeactivateSub keeps the invariant of order.
LEMMA DeactivateSubOrderly ==
    ASSUME BaseInv, BaseInv', OrderlyInv, DeactivateSub
    PROVE  OrderlyInv'
<1> DEFINE d == subs[Top.dir][Top.i]
<1>1. /\ stack # <<>> /\ Top.pc = "deactivateSubs" /\ ~ failed'
      /\ Calling("deactivatedSub", Call("deactivate", d)) /\ UNCHANGED <<input, directors, active>>
  BY DEF DeactivateSub, Running
<1>2. docList' = docList /\ keepOpen' = keepOpen /\ closing' = closing /\ active' = active
  BY <1>1 DEF directors
<1>3. d \in Docs /\ d \in Directors /\ supervisor[d] = Top.dir /\ Top.dir \in Docs /\ d # App
  BY SubKnown, DocumentsAssumption DEF Directors
<1> HIDE DEF d
<1>4. "deactivatedSub" \in Steps /\ "deactivate" \in Steps
  BY DEF Steps, Hiding
<1>5. PICK f, g \in Frame : /\ Pushed(stack, stack', f, g) /\ SameBut(f, "deactivatedSub")
                            /\ Fresh(g, "deactivate", d)
  BY <1>1, <1>3, <1>4, CallingEnters DEF Enters
<1>6. f.pc = "deactivatedSub" /\ f.dir = Top.dir /\ g.pc = "deactivate" /\ g.dir = d
  BY <1>5 DEF SameBut, Fresh
<1>7. Top.dir \in Supervising
  BY <1>3, DocumentsAssumption DEF Supervising
<1>8. Top.dir \in keepOpen /\ Top.dir \notin LeafDocs
  BY <1>1, <1>7, HiddenKept DEF Hiding, LeafDocs
<1>9. HideOK(g, keepOpen, docList, supervisor, needs)
  BY <1>3, <1>6, <1>8 DEF HideOK
<1>10. MayReplace(Top, f) /\ RunsOK(g, Len(stack) + 1, result', docList, closing')
  BY <1>1, <1>6 DEF MayReplace, Hiding, Scanning, Shutting, RunsOK
<1> QED
  BY <1>1, <1>2, <1>3, <1>5, <1>6, <1>8, <1>9, <1>10, OrderlyPush DEF Hiding, Scanning

\* DeactivatedSub keeps the invariant of order.
LEMMA DeactivatedSubOrderly ==
    ASSUME BaseInv, OrderlyInv, DeactivatedSub
    PROVE  OrderlyInv'
<1>1. /\ stack # <<>> /\ Top.pc = "deactivatedSub" /\ ~ failed' /\ UNCHANGED <<input, directors, active>>
      /\ (~ result => Returning(FALSE))
  BY DEF DeactivatedSub, Running
<1>2. docList' = docList /\ keepOpen' = keepOpen /\ closing' = closing /\ active' = active
  BY <1>1 DEF directors
<1>3. KeptOK(active', keepOpen', docList', Supervising')
  BY <1>1, <1>2, KeptGrows
<1>4. CASE result
  <2>1. PICK f \in Frame : /\ Swapped(stack, stack', f)
                           /\ f.pc = "deactivateSubs" /\ f.dir = Top.dir
    BY <1>4, DeactivatedSubSwaps
  <2>2. MayReplace(Top, f) /\ RunsOK(f, Len(stack), result', docList', closing')
    BY <1>1, <2>1 DEF MayReplace, Hiding, Scanning, Shutting, RunsOK
  <2> QED
    BY <1>1, <1>2, <1>3, <2>1, <2>2, OrderlySwap DEF Hiding
<1>5. CASE ~ result
  BY <1>1, <1>2, <1>3, <1>5, OrderlyPop DEF Returning
<1> QED
  BY <1>4, <1>5

\* Deactivated keeps the invariant of order.
LEMMA DeactivatedOrderly ==
    ASSUME BaseInv, OrderlyInv, Deactivated
    PROVE  OrderlyInv'
<1>1. /\ stack # <<>> /\ Top.pc = "deactivateSubs" /\ ~ failed' /\ active' = active \ {Top.dir}
      /\ stack' = Front(stack) /\ UNCHANGED <<input, directors>>
  BY DEF Deactivated, Running, Returning
<1>2. docList' = docList /\ keepOpen' = keepOpen /\ closing' = closing
  BY <1>1 DEF directors
<1>3. KeptOK(active', keepOpen', docList', Supervising')
  BY <1>1, <1>2, HidingKeeps DEF Hiding
<1> QED
  BY <1>1, <1>2, <1>3, OrderlyPop

\* At the event loop only the documents matter.
LEMMA OrderlyIdle ==
    ASSUME OrderlyInv, UNCHANGED <<input, failed>>, stack' = <<>>,
           KeptOK(active', keepOpen', docList', Supervising')
    PROVE  OrderlyInv'
<1>1. PairsOK(stack', result', keepOpen', docList', supervisor', needs', LeafDocs')
  BY DEF PairsOK
<1>2. TopOK(stack', result', docList', closing')
  BY DEF TopOK
<1> QED
  BY <1>1, <1>2, OrderlyBy DEF OrderlyInv

\* An event that starts a call keeps the invariant of order.
LEMMA OrderlyBegin ==
    ASSUME BaseInv, BaseInv', OrderlyInv, AtEventLoop, UNCHANGED <<input, docList, closing, failed>>,
           KeptOK(active', keepOpen', docList', Supervising'),
           NEW pc \in Steps \ Busy, NEW d \in Directors, Begin(pc, d),
           pc \in Hiding => d \in keepOpen',
           pc \in {"close", "closable", "assert"} => d = App \/ d \in ElementsOf(docList),
           pc \in Scanning => pc = "scan" /\ d = App
    PROVE  OrderlyInv'
<1>1. PICK g \in Frame : Single(stack', g) /\ Fresh(g, pc, d)
  BY BeginStarts DEF Starts
<1>2. g.pc = pc /\ g.dir = d /\ (pc = "scan" => g.count = Len(docList'))
  BY <1>1 DEF Fresh, Scanning
<1>3. closing' = {}
  BY BaseTypeOK DEF TypeOK
<1>4. RunsOK(g, 1, result', docList', closing')
  BY <1>2, <1>3 DEF RunsOK, Scanning
<1>5. TopOK(stack', result', docList', closing')
  BY <1>1, <1>4 DEF TopOK, Single
<1>6. HideOK(g, keepOpen', docList', supervisor', needs')
  BY <1>2 DEF HideOK
<1>7. PairsOK(stack', result', keepOpen', docList', supervisor', needs', LeafDocs')
  <2>1. g.pc # "subs"
    BY <1>2 DEF Busy
  <2> QED
    BY <1>1, <1>6, <2>1 DEF PairsOK, Single, LeafOK
<1> QED
  BY <1>5, <1>7, OrderlyBy DEF OrderlyInv

\* What the event loop does keeps the invariant of order.
LEMMA EventLoopOrderly ==
    ASSUME BaseInv, BaseInv', OrderlyInv, EventLoop, OrderlyNext
    PROVE  OrderlyInv'
<1>0. /\ \A d \in Docs : d \in Directors
      /\ App \in Directors
      /\ {"close", "scan", "deactivate", "assert"} \subseteq Steps \ Busy
  BY DEF Directors, Steps, Shutting, Scanning, Hiding, Busy
<1>1. ASSUME NEW d \in Docs, Open(d)
      PROVE  OrderlyInv'
  <2>1. /\ UNCHANGED <<input, failed>> /\ stack' = <<>> /\ keepOpen' = keepOpen
        /\ active' = active \cup {d} /\ docList' = Append(docList, d) /\ d \notin ElementsOf(docList)
    BY <1>1, ListedIs DEF Open, AtEventLoop
  <2>2. ElementsOf(docList') = ElementsOf(docList) \cup {d}
    BY <2>1, AppendOnce DEF BaseInv, Types, TreeOK
  <2>3. KeptOK(active', keepOpen', docList', Supervising')
    BY <2>1, <2>2 DEF OrderlyInv, KeptOK, Supervising, input
  <2> QED
    BY <2>1, <2>3, OrderlyIdle
<1>2. ASSUME NEW d \in Docs, Modify(d) \/ Activate(d)
      PROVE  OrderlyInv'
  <2>1. /\ UNCHANGED <<input, failed>> /\ stack' = <<>> /\ keepOpen' = keepOpen
        /\ docList' = docList /\ active \subseteq active'
    BY <1>2 DEF Modify, Activate, AtEventLoop, directors
  <2>2. KeptOK(active', keepOpen', docList', Supervising')
    BY <2>1, KeptGrows
  <2> QED
    BY <2>1, <2>2, OrderlyIdle
<1>3. ASSUME NEW d \in Docs, CloseWindow(d) \/ HideWindow(d)
      PROVE  OrderlyInv'
  <2>1. /\ AtEventLoop /\ UNCHANGED <<input, docList, closing, failed>> /\ keepOpen' = keepOpen
        /\ active' = active /\ d \in ElementsOf(docList)
    BY <1>3, ListedIs DEF CloseWindow, HideWindow, directors
  <2>2. KeptOK(active', keepOpen', docList', Supervising')
    BY <2>1, KeptGrows
  <2>3. CASE CloseWindow(d)
    <3>1. Begin("close", d)
      BY <2>3 DEF CloseWindow
    <3> QED
      BY <1>0, <2>1, <2>2, <3>1, OrderlyBegin DEF Hiding, Scanning
  <2>4. CASE HideWindow(d)
    <3>1. Begin("deactivate", d) /\ d \in keepOpen'
      BY <2>1, <2>4 DEF HideWindow
    <3> QED
      BY <1>0, <2>1, <2>2, <3>1, OrderlyBegin DEF Scanning
  <2> QED
    BY <1>3, <2>3, <2>4
<1>4. ASSUME NEW d \in Docs, NEW stay \in BOOLEAN, DocumentMustStayOpen(d, stay)
      PROVE  OrderlyInv'
  <2>1. AtEventLoop /\ UNCHANGED <<input, docList, closing, failed, active>>
    BY <1>4 DEF DocumentMustStayOpen
  <2>2. keepOpen \cap Supervising \subseteq keepOpen'
    BY <2>1 DEF OrderlyNext
  <2>3. KeptOK(active', keepOpen', docList', Supervising')
    BY <2>1, <2>2 DEF OrderlyInv, KeptOK, Supervising, input
  <2>4. CASE stay
    <3>1. stack' = <<>>
      BY <1>4, <2>1, <2>4 DEF DocumentMustStayOpen, AtEventLoop
    <3> QED
      BY <2>1, <2>3, <3>1, OrderlyIdle
  <2>5. CASE ~ stay
    <3>1. Begin("scan", App)
      BY <1>4, <2>5 DEF DocumentMustStayOpen
    <3> QED
      BY <1>0, <2>1, <2>3, <3>1, OrderlyBegin DEF Hiding
  <2> QED
    BY <2>4, <2>5
<1>5. ASSUME Quit
      PROVE  OrderlyInv'
  <2>1. /\ AtEventLoop /\ UNCHANGED <<input, docList, closing, failed>> /\ keepOpen' = keepOpen
        /\ active' = active /\ Begin("assert", App)
    BY <1>5 DEF Quit, directors
  <2>2. KeptOK(active', keepOpen', docList', Supervising')
    BY <2>1, KeptGrows
  <2> QED
    BY <1>0, <2>1, <2>2, OrderlyBegin DEF Hiding, Scanning
<1> QED
  BY <1>1, <1>2, <1>3, <1>4, <1>5 DEF EventLoop

\* The invariant of order holds at the start.
LEMMA StartsOrderly ==
    ASSUME OrderlyInit
    PROVE  OrderlyInv
BY DEF OrderlyInit, Init, OrderlyInv, StackInv, PairsOK, TopOK, KeptOK, ElementsOf

\* Every step keeps the invariant of order.
LEMMA OrderlyKeeps ==
    ASSUME BaseInv, BaseInv', OrderlyInv, [OrderlyNext]_vars
    PROVE  OrderlyInv'
<1>1. CASE EventLoop /\ OrderlyNext
  BY <1>1, EventLoopOrderly
<1>2. CASE Calls
  BY <1>2, AskToCloseOrderly, CheckNeededOrderly, ReturnHiddenOrderly, StartClosingOrderly,
     DeleteOrderly, DestroyOrderly, CloseFirstOrderly, FirstClosedOrderly, ScanAgainOrderly,
     ScanOrderly, ScannedOrderly, DeactivateOrderly, DeactivateSubOrderly, DeactivatedSubOrderly,
     DeactivatedOrderly
  DEF Calls
<1>3. CASE UNCHANGED vars
  BY <1>3 DEF OrderlyInv, StackInv, TwoLevels, NeedsFollowTree, LeafDocs, Supervising, vars,
     input, directors
<1> QED
  BY <1>1, <1>2, <1>3 DEF OrderlyNext, Next

\* Under the conditions of OrderlySpec, a scan of the documents closes only leaves, none of
\* which is being closed already, and only documents told to stay open are left hidden
\* above others.
THEOREM AlwaysOrderly == OrderlySpec => [](BaseInv /\ OrderlyInv)
<1>1. OrderlyInit => BaseInv /\ OrderlyInv
  BY InitBase, StartsOrderly DEF OrderlyInit
<1>2. BaseInv /\ OrderlyInv /\ [OrderlyNext]_vars => (BaseInv /\ OrderlyInv)'
  <2>1. [OrderlyNext]_vars => [Next]_vars
    BY DEF OrderlyNext
  <2> QED
    BY <2>1, NextBase, OrderlyKeeps
<1> QED
  BY <1>1, <1>2, PTL DEF OrderlySpec

\* AssertionsHold: under the conditions of OrderlySpec no assertion of JXDirector and
\* JXDocumentManager ever fails; no director is closed or deleted a second time, and no
\* scan of CloseDocuments runs past the end of the list.
THEOREM AssertionsAlwaysHold == OrderlySpec => []AssertionsHold
<1>1. OrderlyInv => AssertionsHold
  BY DEF OrderlyInv, AssertionsHold
<1> QED
  BY <1>1, AlwaysOrderly, PTL

-----------------------------------------------------------------------------
\* An invisible document that nobody needs.
Lingers(d, list, act, keep, sup, graph) ==
    /\ d \in ElementsOf(list) /\ d \notin act /\ d \notin keep /\ sup[d] \notin keep
    /\ Unneeded(d, list, graph)

Lingering(d) == Lingers(d, docList, active, keepOpen, supervisor, needs)

Ahead(d, i, list) == \E j \in i .. Len(list) : list[j] = d

\* The scan of the k-th frame will come to d, or start again.
Covers(st, k, res, list, d) ==
    \/ st[k].pc = "scan" /\ (st[k].closed \/ Ahead(d, st[k].i, list))
    \/ /\ st[k].pc = "scanned"
       /\ \/ st[k].closed \/ Ahead(d, st[k].i + 1, list)
          \/ k = Len(st) /\ res
          \/ k < Len(st) /\ (st[k + 1].pc = "gone" \/ st[k + 1].dir = d)

Covered(st, res, list, d) == \E k \in 1 .. Len(st) : Covers(st, k, res, list, d)

CoverInv == \A d \in Docs : Lingering(d) => Covered(stack, result, docList, d)

NoneMore == \A d \in Docs : Lingering(d)' => Lingering(d)

\* Replacing the top keeps lingering documents covered, if the top covers what it did.
LEMMA CoverSwap ==
    ASSUME BaseInv, CoverInv, stack # <<>>, docList' = docList, NoneMore,
           NEW f, Swapped(stack, stack', f), f.dir = Top.dir, Top.pc # "gone",
           \A d \in Docs : Lingering(d)' /\ Covers(stack, Len(stack), result, docList, d)
                              => Covers(stack', Len(stack), result', docList, d)
    PROVE  CoverInv'
<1> SUFFICES ASSUME NEW d \in Docs, Lingering(d)'
             PROVE  Covered(stack', result', docList, d)
  BY DEF CoverInv
<1>1. PICK k \in 1 .. Len(stack) : Covers(stack, k, result, docList, d)
  BY DEF CoverInv, NoneMore, Covered
<1>2. Len(stack) \in Nat /\ Len(stack) >= 1 /\ Top = stack[Len(stack)]
  BY TopKnown
<1>3. /\ Len(stack') = Len(stack) /\ stack'[Len(stack)] = f
      /\ \A l \in 1 .. Len(stack) - 1 : stack'[l] = stack[l]
  BY DEF Swapped
<1>4. CASE k = Len(stack)
  BY <1>1, <1>3, <1>4 DEF Covered
<1>5. CASE k # Len(stack)
  <2>1. /\ k \in 1 .. Len(stack) - 1 /\ stack'[k] = stack[k] /\ k < Len(stack)
        /\ (k + 1 = Len(stack) \/ k + 1 \in 1 .. Len(stack) - 1)
    BY <1>2, <1>3, <1>5
  <2>2. /\ stack'[k + 1].dir = stack[k + 1].dir
        /\ stack[k + 1].pc = "gone" => stack'[k + 1].pc = "gone"
    BY <1>2, <1>3, <2>1
  <2>3. Covers(stack', k, result', docList, d)
    BY <1>1, <1>2, <1>3, <2>1, <2>2 DEF Covers
  <2> QED
    BY <1>3, <2>3 DEF Covered
<1> QED
  BY <1>4, <1>5

\* A call keeps lingering documents covered, if the top covers what it did.
LEMMA CoverPush ==
    ASSUME BaseInv, CoverInv, stack # <<>>, docList' = docList, NoneMore,
           NEW f, NEW g, Pushed(stack, stack', f, g), f.dir = Top.dir, Top.pc # "gone",
           \A d \in Docs : Lingering(d)' /\ Covers(stack, Len(stack), result, docList, d)
                              => Covers(stack', Len(stack), result', docList, d)
    PROVE  CoverInv'
<1> SUFFICES ASSUME NEW d \in Docs, Lingering(d)'
             PROVE  Covered(stack', result', docList, d)
  BY DEF CoverInv
<1>1. PICK k \in 1 .. Len(stack) : Covers(stack, k, result, docList, d)
  BY DEF CoverInv, NoneMore, Covered
<1>2. Len(stack) \in Nat /\ Len(stack) >= 1 /\ Top = stack[Len(stack)]
  BY TopKnown
<1>3. /\ Len(stack') = Len(stack) + 1 /\ stack'[Len(stack)] = f
      /\ \A l \in 1 .. Len(stack) - 1 : stack'[l] = stack[l]
  BY DEF Pushed
<1>4. k \in 1 .. Len(stack')
  BY <1>2, <1>3
<1>5. CASE k = Len(stack)
  BY <1>1, <1>4, <1>5 DEF Covered
<1>6. CASE k # Len(stack)
  <2>1. /\ k \in 1 .. Len(stack) - 1 /\ stack'[k] = stack[k] /\ k < Len(stack')
        /\ k # Len(stack)
        /\ (k + 1 = Len(stack) \/ k + 1 \in 1 .. Len(stack) - 1)
    BY <1>2, <1>3, <1>6
  <2>2. /\ stack'[k + 1].dir = stack[k + 1].dir
        /\ stack[k + 1].pc = "gone" => stack'[k + 1].pc = "gone"
    BY <1>2, <1>3, <2>1
  <2>3. Covers(stack', k, result', docList, d)
    BY <1>1, <2>1, <2>2 DEF Covers
  <2> QED
    BY <1>4, <2>3 DEF Covered
<1> QED
  BY <1>5, <1>6

\* A return keeps lingering documents covered, if the top covered none.
LEMMA CoverPop ==
    ASSUME BaseInv, CoverInv, stack # <<>>, docList' = docList, NoneMore,
           Popped(stack, stack'),
           \A d \in Docs : Lingering(d)' => ~ Covers(stack, Len(stack), result, docList, d),
           \A k \in 1 .. Len(stack) - 1 :
              k = Len(stack) - 1 /\ stack[k].pc = "scanned" =>
                 result' \/ (Top.pc # "gone" /\ \A d \in Docs : Lingering(d)' => d # Top.dir)
    PROVE  CoverInv'
<1> SUFFICES ASSUME NEW d \in Docs, Lingering(d)'
             PROVE  Covered(stack', result', docList, d)
  BY DEF CoverInv
<1>1. PICK k \in 1 .. Len(stack) : Covers(stack, k, result, docList, d)
  BY DEF CoverInv, NoneMore, Covered
<1>2. Len(stack) \in Nat /\ Len(stack) >= 1 /\ Top = stack[Len(stack)]
  BY TopKnown
<1>3. /\ Len(stack') = Len(stack) - 1
      /\ \A l \in 1 .. Len(stack) - 1 : stack'[l] = stack[l]
  BY DEF Popped
<1>4. k # Len(stack)
  BY <1>1
<1>5. k \in 1 .. Len(stack) - 1 /\ stack'[k] = stack[k]
  BY <1>2, <1>3, <1>4
<1>6. CASE k = Len(stack) - 1
  <2>1. stack[k].pc = "scanned" => result' \/ (Top.pc # "gone" /\ Top.dir # d)
    BY <1>5, <1>6
  <2>2. Covers(stack', k, result', docList, d)
    BY <1>1, <1>2, <1>3, <1>5, <1>6, <2>1 DEF Covers
  <2> QED
    BY <1>3, <1>5, <2>2 DEF Covered
<1>7. CASE k # Len(stack) - 1
  <2>1. k + 1 \in 1 .. Len(stack) - 1 /\ k < Len(stack')
    BY <1>2, <1>3, <1>5, <1>7
  <2>2. stack'[k + 1] = stack[k + 1] /\ k # Len(stack)
    BY <1>2, <1>3, <1>5, <2>1
  <2>3. Covers(stack', k, result', docList, d)
    BY <1>1, <1>5, <2>1, <2>2 DEF Covers
  <2> QED
    BY <1>3, <1>5, <2>3 DEF Covered
<1> QED
  BY <1>6, <1>7

\* No document begins to linger by these steps.
LEMMA LingersGrowing ==
    ASSUME UNCHANGED input, docList' = docList, keepOpen' = keepOpen, active \subseteq active'
    PROVE  NoneMore
BY DEF NoneMore, Lingering, Lingers, input

\* Hiding makes no document linger.
LEMMA LingersHiding ==
    ASSUME BaseInv, OrderlyInv, stack # <<>>, UNCHANGED input, docList' = docList,
           keepOpen' = keepOpen, Top.pc \in Hiding, active \ {Top.dir} \subseteq active'
    PROVE  NoneMore
<1>1. HideOK(Top, keepOpen, docList, supervisor, needs)
  BY TopPairs
<1> QED
  BY <1>1 DEF NoneMore, Lingering, Lingers, HideOK, input

\* Scans are in progress on the top of the stack only while nothing they called is.
LEMMA NotScanning ==
    ASSUME stack # <<>>, NEW d, Top.pc \notin Scanning
    PROVE  ~ Covers(stack, Len(stack), result, docList, d)
BY DEF Covers, Scanning, Top, Last

\* What a scan waits for.
LEMMA ScanWaits ==
    ASSUME BaseInv, OrderlyInv, stack # <<>>, NEW k \in 1 .. Len(stack) - 1,
           k = Len(stack) - 1, stack[k].pc = "scanned"
    PROVE  /\ Top.pc \in {"close", "closable", "assert", "subs", "gone"} /\ Top.dir \in LeafDocs
           /\ Top.pc = "subs" => result
<1>1. Len(stack) \in Nat /\ Top = stack[Len(stack)]
  BY TopKnown
<1>2. /\ k \in 1 .. Len(stack) /\ k # Len(stack) /\ k + 1 = Len(stack)
      /\ Len(stack) \in 1 .. Len(stack) /\ Len(stack) # Len(stack) - 1
  BY <1>1
<1>3. Under(stack[k], Top)
  BY <1>1, <1>2, BelowWaits
<1>4. ScanOK(stack[k], Top, docList, needs, LeafDocs) /\ LeafOK(stack, Len(stack), result, LeafDocs)
  BY <1>1, <1>2 DEF OrderlyInv, StackInv, PairsOK
<1> QED
  BY <1>1, <1>2, <1>3, <1>4 DEF Under, Shutting, ScanOK, LeafOK

\* Everything is ahead of the first place of a list.
LEMMA AheadOfFirst ==
    ASSUME NEW S, NEW list \in Seq(S), NEW d \in ElementsOf(list)
    PROVE  Ahead(d, 1, list)
BY LenProperties DEF ElementsOf, Ahead

\* A step that changes nothing covers what was covered.
LEMMA CoverStill ==
    ASSUME CoverInv, UNCHANGED <<input, docList, keepOpen, active, stack, result>>
    PROVE  CoverInv'
BY DEF CoverInv, Lingering, Covered, input

-----------------------------------------------------------------------------
\* A step that replaces a frame other than a scan's.
LEMMA CoverTurn ==
    ASSUME BaseInv, CoverInv, stack # <<>>, docList' = docList, NoneMore,
           NEW pc \in Steps, At(pc), Top.pc \notin Scanning, Top.pc # "gone"
    PROVE  CoverInv'
<1>1. PICK f \in Frame : Swapped(stack, stack', f) /\ SameBut(f, pc)
  BY AtTurns DEF Turns
<1>2. f.dir = Top.dir
  BY <1>1 DEF SameBut
<1> QED
  BY <1>1, <1>2, CoverSwap, NotScanning

\* A call made from such a frame.
LEMMA CoverCall ==
    ASSUME BaseInv, BaseInv', CoverInv, stack # <<>>, docList' = docList, NoneMore,
           NEW pc \in Steps, NEW new \in Steps, NEW dir \in Directors, Calling(pc, Call(new, dir)),
           Top.pc \notin Scanning, Top.pc # "gone"
    PROVE  CoverInv'
<1>1. PICK f, g \in Frame : Pushed(stack, stack', f, g) /\ SameBut(f, pc)
  BY CallingEnters DEF Enters
<1>2. f.dir = Top.dir
  BY <1>1 DEF SameBut
<1> QED
  BY <1>1, <1>2, CoverPush, NotScanning

\* A return from a call that no scan has made.
LEMMA CoverReturn ==
    ASSUME BaseInv, OrderlyInv, CoverInv, stack # <<>>, docList' = docList, NoneMore,
           stack' = Front(stack), Top.pc \notin Scanning,
           Top.pc \notin {"close", "closable", "assert", "subs", "gone"} \/ result'
    PROVE  CoverInv'
<1>1. Popped(stack, stack')
  BY Pop DEF BaseInv, Types
<1>2. \A k \in 1 .. Len(stack) - 1 : k = Len(stack) - 1 /\ stack[k].pc = "scanned" => result'
  BY ScanWaits
<1> QED
  BY <1>1, <1>2, CoverPop, NotScanning

\* AskToClose keeps lingering documents covered.
LEMMA AskToCloseCovers ==
    ASSUME BaseInv, OrderlyInv, CoverInv, AskToClose
    PROVE  CoverInv'
<1>1. stack # <<>> /\ Top.pc = "close" /\ ~ failed
  BY DEF AskToClose, Running
<1>2. Top.dir \in Docs
  BY <1>1, TopKnown DEF FrameOK
<1>3. Top.dir \in Listed
  BY <1>1, <1>2, TopPairs, ListedIs, DocumentsAssumption DEF RunsOK
<1>4. PICK ok \in BOOLEAN :
         /\ OKToClose(Top.dir, ok)
         /\ IF ok THEN At("closable") /\ UNCHANGED result ELSE Returning(FALSE)
         /\ UNCHANGED <<input, directors, lost, failed>>
  BY <1>3 DEF AskToClose
<1>5. docList' = docList /\ NoneMore
  BY <1>4, LingersGrowing DEF directors, OKToClose
<1>6. CASE ok
  <2>1. At("closable") /\ "closable" \in Steps
    BY <1>4, <1>6 DEF Steps, Shutting
  <2> QED
    BY <1>1, <1>5, <2>1, CoverTurn DEF Scanning
<1>7. CASE ~ ok
  <2>1. stack' = Front(stack) /\ Top.dir \in active'
    BY <1>4, <1>7 DEF Returning, OKToClose
  <2>2. Popped(stack, stack')
    BY <1>1, <2>1, Pop DEF BaseInv, Types
  <2>3. \A d \in Docs : Lingering(d)' => d # Top.dir
    BY <2>1 DEF Lingering, Lingers
  <2>4. \A d : ~ Covers(stack, Len(stack), result, docList, d)
    BY <1>1, NotScanning DEF Scanning
  <2> QED
    BY <1>1, <1>5, <2>2, <2>3, <2>4, CoverPop
<1> QED
  BY <1>6, <1>7

\* CheckNeeded keeps lingering documents covered.
LEMMA CheckNeededCovers ==
    ASSUME BaseInv, BaseInv', CoverInv, CheckNeeded
    PROVE  CoverInv'
<1>1. stack # <<>> /\ Top.pc = "closable" /\ UNCHANGED <<input, directors, active>>
  BY DEF CheckNeeded, Running
<1>2. Top.dir \in Directors
  BY <1>1, TopKnown
<1>3. docList' = docList /\ NoneMore
  BY <1>1, LingersGrowing DEF directors
<1>4. "assert" \in Steps /\ "hidden" \in Steps /\ "deactivate" \in Steps
  BY DEF Steps, Shutting, Hiding
<1>5. CASE OKToCloseDocument(Top.dir)
  <2>1. At("assert")
    BY <1>5 DEF CheckNeeded
  <2> QED
    BY <1>1, <1>3, <1>4, <2>1, CoverTurn DEF Scanning
<1>6. CASE ~ OKToCloseDocument(Top.dir)
  <2>1. Calling("hidden", Call("deactivate", Top.dir))
    BY <1>6 DEF CheckNeeded
  <2> QED
    BY <1>1, <1>2, <1>3, <1>4, <2>1, CoverCall DEF Scanning
<1> QED
  BY <1>5, <1>6

\* ReturnHidden keeps lingering documents covered.
LEMMA ReturnHiddenCovers ==
    ASSUME BaseInv, OrderlyInv, CoverInv, ReturnHidden
    PROVE  CoverInv'
<1>1. /\ stack # <<>> /\ Top.pc = "hidden" /\ stack' = Front(stack)
      /\ UNCHANGED <<input, directors, active>>
  BY DEF ReturnHidden, Running, Returning
<1>2. docList' = docList /\ NoneMore
  BY <1>1, LingersGrowing DEF directors
<1> QED
  BY <1>1, <1>2, CoverReturn DEF Scanning

\* KeepOpen keeps lingering documents covered.
LEMMA KeepOpenCovers ==
    ASSUME BaseInv, OrderlyInv, CoverInv, KeepOpen
    PROVE  CoverInv'
<1>1. /\ stack # <<>> /\ Top.pc = "subs" /\ ~ result /\ stack' = Front(stack)
      /\ UNCHANGED <<input, docList, keepOpen, active>>
  BY DEF KeepOpen, Running, Returning
<1>2. NoneMore
  BY <1>1, LingersGrowing
<1>3. Popped(stack, stack')
  BY <1>1, Pop DEF BaseInv, Types
<1>4. \A k \in 1 .. Len(stack) - 1 : k = Len(stack) - 1 => stack[k].pc # "scanned"
  BY <1>1, ScanWaits
<1>5. \A d : ~ Covers(stack, Len(stack), result, docList, d)
  BY <1>1, NotScanning DEF Scanning
<1> QED
  BY <1>1, <1>2, <1>3, <1>4, <1>5, CoverPop

\* StartClosing keeps lingering documents covered.
LEMMA StartClosingCovers ==
    ASSUME BaseInv, BaseInv', CoverInv, StartClosing
    PROVE  CoverInv'
<1>1. stack # <<>> /\ Top.pc = "assert"
  BY DEF StartClosing, Running
<1>2. CASE Top.dir \in closing
  BY <1>2, CoverStill DEF StartClosing, Failing, directors
<1>3. CASE Top.dir \notin closing
  <2>1. /\ Calling("subs", Call("first", Top.dir)) /\ "subs" \in Steps /\ "first" \in Steps
        /\ UNCHANGED <<input, docList, keepOpen, active>>
    BY <1>3 DEF StartClosing, Steps, Shutting
  <2>2. Top.dir \in Directors
    BY <1>1, TopKnown
  <2>3. NoneMore
    BY <2>1, LingersGrowing
  <2> QED
    BY <1>1, <2>1, <2>2, <2>3, CoverCall DEF Scanning
<1> QED
  BY <1>2, <1>3

\* A scan of all documents covers all.
LEMMA NewScanCovers ==
    ASSUME BaseInv', NEW k \in 1 .. Len(stack'), stack'[k].pc = "scan", stack'[k].i = 1
    PROVE  CoverInv'
<1> SUFFICES ASSUME NEW d \in Docs, Lingering(d)'
             PROVE  Covered(stack', result', docList', d)
  BY DEF CoverInv
<1>1. d \in ElementsOf(docList') /\ docList' \in Seq(Docs)
  BY DEF Lingering, Lingers, BaseInv, Types
<1>2. Ahead(d, 1, docList')
  BY <1>1, AheadOfFirst
<1>3. Covers(stack', k, result', docList', d)
  BY <1>2 DEF Covers
<1> QED
  BY <1>3 DEF Covered

\* Delete keeps lingering documents covered.
LEMMA DeleteCovers ==
    ASSUME BaseInv, BaseInv', OrderlyInv, CoverInv, Delete
    PROVE  CoverInv'
<1>1. /\ stack # <<>> /\ Top.pc = "subs" /\ UNCHANGED <<input, keepOpen, active>>
      /\ docList' = RemoveFirst(docList, Top.dir)
      /\ IF Top.dir = App THEN At("gone") ELSE Calling("gone", Call("scan", App))
  BY DEF Delete, Running
<1>2. App \in Directors /\ "gone" \in Steps /\ "scan" \in Steps
  BY DEF Directors, Steps, Shutting, Scanning
<1>3. CASE Top.dir = App
  <2>1. \A i \in 1 .. Len(docList) : docList[i] # App
    BY LenProperties, ElementOfSeq, DocumentsAssumption DEF BaseInv, Types
  <2>2. docList' = docList
    BY <1>1, <1>3, <2>1 DEF RemoveFirst
  <2>3. NoneMore
    BY <1>1, <2>2, LingersGrowing
  <2> QED
    BY <1>1, <1>2, <1>3, <2>2, <2>3, CoverTurn DEF Scanning
<1>4. CASE Top.dir # App
  <2>1. PICK f, g \in Frame : Pushed(stack, stack', f, g) /\ Fresh(g, "scan", App)
    BY <1>1, <1>2, <1>4, CallingEnters DEF Enters
  <2>2. Len(stack) + 1 \in 1 .. Len(stack')
    BY <1>1, <2>1, TopKnown DEF Pushed
  <2>3. stack'[Len(stack) + 1].pc = "scan" /\ stack'[Len(stack) + 1].i = 1
    BY <2>1 DEF Pushed, Fresh
  <2> QED
    BY <2>2, <2>3, NewScanCovers
<1> QED
  BY <1>3, <1>4

\* Destroy keeps lingering documents covered.
LEMMA DestroyCovers ==
    ASSUME BaseInv, OrderlyInv, CoverInv, Destroy
    PROVE  CoverInv'
<1>1. Running("gone") /\ stack # <<>> /\ Top.pc = "gone"
  BY DEF Destroy, Running
<1>2. /\ active' = active \ {Top.dir} /\ keepOpen' = keepOpen \ {Top.dir}
      /\ stack' = Front(stack) /\ result' /\ UNCHANGED <<input, docList>>
  BY <1>1, NeverFailsToDestroy DEF Destroy, Returning
<1>3. Top.dir \notin ElementsOf(docList) /\ subs[Top.dir] = <<>>
  BY <1>1, TopKnown DEF FrameOK
<1>4. \A d \in ElementsOf(docList) : supervisor[d] # Top.dir
  <2>1. \A d \in ElementsOf(docList) : d \in ElementsOf(subs[supervisor[d]])
    BY DEF BaseInv, TreeOK
  <2>2. ElementsOf(<<>>) = {}
    BY DEF ElementsOf
  <2> QED
    BY <1>3, <2>1, <2>2
<1>5. NoneMore
  BY <1>2, <1>3, <1>4 DEF NoneMore, Lingering, Lingers, input
<1> QED
  BY <1>1, <1>2, <1>5, CoverReturn DEF Scanning

\* CloseFirst keeps lingering documents covered.
LEMMA CloseFirstCovers ==
    ASSUME BaseInv, BaseInv', OrderlyInv, CoverInv, CloseFirst
    PROVE  CoverInv'
<1>1. stack # <<>> /\ Top.pc = "first" /\ UNCHANGED <<input, directors, active>>
  BY DEF CloseFirst, Running
<1>2. docList' = docList /\ NoneMore
  BY <1>1, LingersGrowing DEF directors
<1>3. CASE subs[Top.dir] = <<>>
  BY <1>1, <1>2, <1>3, CoverReturn DEF CloseFirst, Returning, Scanning
<1>4. CASE subs[Top.dir] # <<>>
  <2>1. PICK f, g \in Frame : Pushed(stack, stack', f, g) /\ f.dir = Top.dir
    BY <1>4, CloseFirstEnters
  <2>2. \A d : ~ Covers(stack, Len(stack), result, docList, d)
    BY <1>1, NotScanning DEF Scanning
  <2> QED
    BY <1>1, <1>2, <2>1, <2>2, CoverPush
<1> QED
  BY <1>3, <1>4

\* FirstClosed keeps lingering documents covered.
LEMMA FirstClosedCovers ==
    ASSUME BaseInv, OrderlyInv, CoverInv, FirstClosed
    PROVE  CoverInv'
<1>1. /\ stack # <<>> /\ Top.pc = "firstClosed" /\ UNCHANGED <<input, docList, keepOpen, active>>
      /\ (result => At("first")) /\ (~ result => Returning(FALSE)) /\ "first" \in Steps
  BY DEF FirstClosed, Running, Steps
<1>2. NoneMore
  BY <1>1, LingersGrowing
<1>3. CASE result
  BY <1>1, <1>2, <1>3, CoverTurn DEF Scanning
<1>4. CASE ~ result
  BY <1>1, <1>2, <1>4, CoverReturn DEF Returning, Scanning
<1> QED
  BY <1>3, <1>4

\* At the end of the list nothing more is ahead of a scan.
LEMMA ScanAgainCovers ==
    ASSUME BaseInv, BaseInv', OrderlyInv, CoverInv, ScanAgain
    PROVE  CoverInv'
<1>1. /\ stack # <<>> /\ Top.pc = "scan" /\ UNCHANGED <<input, directors, active>>
      /\ Top.i > Top.count /\ (~ Top.closed => Returning(TRUE))
  BY DEF ScanAgain, Running
<1>2. docList' = docList /\ NoneMore
  BY <1>1, LingersGrowing DEF directors
<1>3. Len(stack) \in 1 .. Len(stack) /\ Top = stack[Len(stack)]
  BY <1>1, TopKnown
<1>4. CASE Top.closed
  <2>1. PICK f \in Frame : Swapped(stack, stack', f) /\ f.pc = "scan" /\ f.i = 1
    BY <1>4, ScanAgainSwaps
  <2>2. Len(stack) \in 1 .. Len(stack') /\ stack'[Len(stack)] = f
    BY <1>3, <2>1 DEF Swapped
  <2> QED
    BY <2>1, <2>2, NewScanCovers
<1>5. CASE ~ Top.closed
  <2>1. Top.i \in Nat /\ Top.count = Len(docList) /\ Len(docList) \in Nat
    BY <1>1, TopKnown, TopPairs, LenProperties DEF Frame, RunsOK, BaseInv, Types
  <2>2. \A d : ~ Ahead(d, Top.i, docList)
    BY <1>1, <2>1 DEF Ahead
  <2>3. \A d : ~ Covers(stack, Len(stack), result, docList, d)
    BY <1>1, <1>3, <1>5, <2>2 DEF Covers
  <2>4. stack' = Front(stack) /\ result'
    BY <1>1, <1>5 DEF Returning
  <2>5. Popped(stack, stack')
    BY <1>1, <2>4, Pop DEF BaseInv, Types
  <2> QED
    BY <1>1, <1>2, <2>3, <2>4, <2>5, CoverPop
<1> QED
  BY <1>4, <1>5

\* What is ahead of a place is ahead of the next one, or at it.
LEMMA AheadOfNext ==
    ASSUME NEW S, NEW list \in Seq(S), NEW i \in Nat, NEW d, Ahead(d, i, list)
    PROVE  Ahead(d, i + 1, list) \/ list[i] = d
<1>1. PICK j \in i .. Len(list) : list[j] = d
  BY DEF Ahead
<1>2. j = i \/ j \in i + 1 .. Len(list)
  BY LenProperties
<1> QED
  BY <1>1, <1>2 DEF Ahead

\* Scan keeps lingering documents covered.
LEMMA ScanCovers ==
    ASSUME BaseInv, BaseInv', OrderlyInv, CoverInv, Scan
    PROVE  CoverInv'
<1> DEFINE e == docList[Top.i]
<1>1. /\ stack # <<>> /\ Top.pc = "scan"
      /\ UNCHANGED <<input, directors, active, data, result, failed>>
      /\ IF e \notin active /\ e \notin keepOpen /\ OKToCloseDocument(e)
         THEN Calling("scanned", Call("close", e))
         ELSE stack' = Front(stack) \o <<[Top EXCEPT !.i = @ + 1]>>
  BY ScanAt
<1>2. docList' = docList /\ NoneMore
  BY <1>1, LingersGrowing DEF directors
<1>3. /\ Len(stack) \in Nat /\ Top = stack[Len(stack)] /\ docList \in Seq(Docs) /\ Top.i \in Nat
  BY <1>1, TopKnown DEF BaseInv, Types, Frame
<1>4. \A d : Covers(stack, Len(stack), result, docList, d) =>
                Top.closed \/ Ahead(d, Top.i + 1, docList) \/ e = d
  BY <1>1, <1>3, AheadOfNext DEF Covers
<1>5. CASE e \notin active /\ e \notin keepOpen /\ OKToCloseDocument(e)
  <2>1. PICK f, g \in Frame : Pushed(stack, stack', f, g) /\ SameBut(f, "scanned") /\ Fresh(g, "close", e)
    BY <1>1, <1>5, ScanEnters
  <2> HIDE DEF e
  <2>2. /\ stack'[Len(stack)] = f /\ stack'[Len(stack) + 1] = g /\ Len(stack) < Len(stack')
        /\ f.pc = "scanned" /\ f.dir = Top.dir /\ f.closed = Top.closed /\ f.i = Top.i /\ g.dir = e
    BY <1>3, <2>1 DEF Pushed, SameBut, Fresh
  <2>3. \A d : Covers(stack, Len(stack), result, docList, d)
                  => Covers(stack', Len(stack), result', docList, d)
    BY <1>4, <2>2 DEF Covers
  <2> QED
    BY <1>1, <1>2, <2>1, <2>2, <2>3, CoverPush
<1>6. CASE ~ (e \notin active /\ e \notin keepOpen /\ OKToCloseDocument(e))
  <2>1. PICK f \in Frame : /\ Swapped(stack, stack', f)
                           /\ f.pc = Top.pc /\ f.dir = Top.dir /\ f.i = Top.i + 1
                           /\ f.closed = Top.closed
    BY <1>1, <1>6, ScanSkips
  <2>2. stack'[Len(stack)] = f
    BY <2>1 DEF Swapped
  <2>3. \A d : Lingering(d) => d # e
    BY <1>6, ListedIs DEF Lingering, Lingers, OKToCloseDocument, Unneeded
  <2>4. \A d \in Docs : Lingering(d)' => d # e
    BY <1>2, <2>3 DEF NoneMore
  <2> HIDE DEF e
  <2>5. \A d \in Docs : Lingering(d)' /\ Covers(stack, Len(stack), result, docList, d)
                           => Covers(stack', Len(stack), result', docList, d)
    BY <1>1, <1>4, <2>1, <2>2, <2>4 DEF Covers
  <2> QED
    BY <1>1, <1>2, <2>1, <2>5, CoverSwap
<1> QED
  BY <1>5, <1>6

\* Scanned keeps lingering documents covered.
LEMMA ScannedCovers ==
    ASSUME BaseInv, CoverInv, Scanned
    PROVE  CoverInv'
<1>1. /\ stack # <<>> /\ Top.pc = "scanned" /\ UNCHANGED <<input, directors, active>>
  BY DEF Scanned, Running
<1>2. docList' = docList /\ NoneMore
  BY <1>1, LingersGrowing DEF directors
<1>3. Len(stack) \in Nat /\ Top = stack[Len(stack)]
  BY <1>1, TopKnown
<1>4. PICK f \in Frame : /\ Swapped(stack, stack', f) /\ f.pc = "scan" /\ f.dir = Top.dir
                         /\ f.i = Top.i + 1 /\ (f.closed <=> (Top.closed \/ result))
  BY ScannedSwaps
<1>5. stack'[Len(stack)] = f /\ ~ Len(stack) < Len(stack)
  BY <1>3, <1>4 DEF Swapped
<1>6. \A d : Covers(stack, Len(stack), result, docList, d)
                => Covers(stack', Len(stack), result', docList, d)
  BY <1>1, <1>3, <1>4, <1>5 DEF Covers
<1> QED
  BY <1>1, <1>2, <1>4, <1>6, CoverSwap

\* Deactivate keeps lingering documents covered.
LEMMA DeactivateCovers ==
    ASSUME BaseInv, OrderlyInv, CoverInv, Deactivate
    PROVE  CoverInv'
<1>1. stack # <<>> /\ Top.pc = "deactivate" /\ UNCHANGED <<input, directors>>
  BY DEF Deactivate, Running
<1>2. docList' = docList /\ keepOpen' = keepOpen
  BY <1>1 DEF directors
<1>3. active \subseteq active'
  BY DEF Deactivate, OKToClose
<1>4. NoneMore
  BY <1>1, <1>2, <1>3, LingersGrowing
<1>5. "deactivateSubs" \in Steps
  BY DEF Steps, Hiding
<1>6. At("deactivateSubs") \/ stack' = Front(stack)
  BY DEF Deactivate, Returning
<1> QED
  BY <1>1, <1>2, <1>4, <1>5, <1>6, CoverTurn, CoverReturn DEF Scanning

\* DeactivateSub keeps lingering documents covered.
LEMMA DeactivateSubCovers ==
    ASSUME BaseInv, BaseInv', CoverInv, DeactivateSub
    PROVE  CoverInv'
<1>1. /\ stack # <<>> /\ Top.pc = "deactivateSubs" /\ UNCHANGED <<input, directors, active>>
      /\ Calling("deactivatedSub", Call("deactivate", subs[Top.dir][Top.i]))
  BY DEF DeactivateSub, Running
<1>2. docList' = docList /\ NoneMore
  BY <1>1, LingersGrowing DEF directors
<1>3. /\ "deactivatedSub" \in Steps /\ "deactivate" \in Steps
      /\ subs[Top.dir][Top.i] \in Directors
  BY SubKnown DEF Steps, Hiding, Directors
<1> QED
  BY <1>1, <1>2, <1>3, CoverCall DEF Scanning

\* DeactivatedSub keeps lingering documents covered.
LEMMA DeactivatedSubCovers ==
    ASSUME BaseInv, OrderlyInv, CoverInv, DeactivatedSub
    PROVE  CoverInv'
<1>1. /\ stack # <<>> /\ Top.pc = "deactivatedSub" /\ UNCHANGED <<input, directors, active>>
      /\ (~ result => Returning(FALSE))
  BY DEF DeactivatedSub, Running
<1>2. docList' = docList /\ NoneMore
  BY <1>1, LingersGrowing DEF directors
<1>3. CASE result
  <2>1. PICK f \in Frame : Swapped(stack, stack', f) /\ f.dir = Top.dir
    BY <1>3, DeactivatedSubSwaps
  <2>2. \A d : ~ Covers(stack, Len(stack), result, docList, d)
    BY <1>1, NotScanning DEF Scanning
  <2> QED
    BY <1>1, <1>2, <2>1, <2>2, CoverSwap
<1>4. CASE ~ result
  BY <1>1, <1>2, <1>4, CoverReturn DEF Returning, Scanning
<1> QED
  BY <1>3, <1>4

\* Deactivated keeps lingering documents covered.
LEMMA DeactivatedCovers ==
    ASSUME BaseInv, OrderlyInv, CoverInv, Deactivated
    PROVE  CoverInv'
<1>1. /\ stack # <<>> /\ Top.pc = "deactivateSubs" /\ active' = active \ {Top.dir}
      /\ stack' = Front(stack) /\ UNCHANGED <<input, directors>>
  BY DEF Deactivated, Running, Returning
<1>2. docList' = docList /\ keepOpen' = keepOpen
  BY <1>1 DEF directors
<1>3. NoneMore
  BY <1>1, <1>2, LingersHiding DEF Hiding
<1> QED
  BY <1>1, <1>2, <1>3, CoverReturn DEF Scanning

\* At the event loop no document lingers, and none begins to but by being let go, which
\* starts a scan.
LEMMA EventLoopCovers ==
    ASSUME BaseInv, BaseInv', CoverInv, EventLoop
    PROVE  CoverInv'
<1>1. AtEventLoop
  BY DEF EventLoop, Open, Modify, Activate, CloseWindow, HideWindow, DocumentMustStayOpen, Quit
<1>2. \A d \in Docs : ~ Lingering(d)
  BY <1>1 DEF CoverInv, Covered, AtEventLoop
<1>3. SUFFICES ASSUME ~ NoneMore PROVE CoverInv'
  BY <1>2 DEF NoneMore, CoverInv
<1>4. ~ \E d \in Docs : Modify(d) \/ Activate(d) \/ CloseWindow(d) \/ HideWindow(d)
  BY <1>3, LingersGrowing DEF Modify, Activate, CloseWindow, HideWindow, directors
<1>5. ~ Quit
  BY <1>3, LingersGrowing DEF Quit, directors
<1>6. ASSUME NEW d \in Docs, Open(d) PROVE FALSE
  <2>1. /\ UNCHANGED <<input, keepOpen>> /\ active' = active \cup {d}
        /\ docList' = Append(docList, d) /\ d \notin ElementsOf(docList)
    BY <1>6, ListedIs DEF Open
  <2>2. ElementsOf(docList') = ElementsOf(docList) \cup {d}
    BY <2>1, AppendOnce DEF BaseInv, Types, TreeOK
  <2>3. NoneMore
    BY <2>1, <2>2 DEF NoneMore, Lingering, Lingers, Unneeded, input
  <2> QED
    BY <1>3, <2>3
<1>7. ASSUME NEW d \in Docs, NEW stay \in BOOLEAN, DocumentMustStayOpen(d, stay)
      PROVE  CoverInv'
  <2>1. CASE stay
    <3>1. UNCHANGED <<input, docList, active>> /\ keepOpen' = keepOpen \cup {d}
      BY <1>7, <2>1 DEF DocumentMustStayOpen
    <3>2. NoneMore
      BY <3>1 DEF NoneMore, Lingering, Lingers, input
    <3> QED
      BY <1>3, <3>2
  <2>2. CASE ~ stay
    <3>1. Begin("scan", App) /\ "scan" \in Steps /\ App \in Directors
      BY <1>7, <2>2 DEF DocumentMustStayOpen, Steps, Scanning, Directors
    <3>2. PICK g \in Frame : Single(stack', g) /\ Fresh(g, "scan", App)
      BY <3>1, BeginStarts DEF Starts
    <3>3. 1 \in 1 .. Len(stack') /\ stack'[1].pc = "scan" /\ stack'[1].i = 1
      BY <3>2 DEF Single, Fresh
    <3> QED
      BY <3>3, NewScanCovers
  <2> QED
    BY <2>1, <2>2
<1> QED
  BY <1>4, <1>5, <1>6, <1>7 DEF EventLoop

\* Every step keeps lingering documents covered.
LEMMA CoverKeeps ==
    ASSUME BaseInv, BaseInv', OrderlyInv, CoverInv, [OrderlyNext]_vars
    PROVE  CoverInv'
<1>1. CASE EventLoop
  BY <1>1, EventLoopCovers
<1>2. CASE Calls
  BY <1>2, AskToCloseCovers, CheckNeededCovers, ReturnHiddenCovers, StartClosingCovers,
     KeepOpenCovers, DeleteCovers, DestroyCovers, CloseFirstCovers, FirstClosedCovers,
     ScanAgainCovers, ScanCovers, ScannedCovers, DeactivateCovers, DeactivateSubCovers,
     DeactivatedSubCovers, DeactivatedCovers
  DEF Calls
<1>3. CASE UNCHANGED vars
  BY <1>3, CoverStill DEF vars, directors
<1> QED
  BY <1>1, <1>2, <1>3 DEF OrderlyNext, Next

\* At the event loop no scan is in progress, and so no document lingers.
LEMMA NoneIsLingering ==
    ASSUME BaseInv, CoverInv
    PROVE  NothingLingers
<1> SUFFICES ASSUME AtEventLoop, NEW d \in Listed \ active
             PROVE  d \in keepOpen \/ supervisor[d] \in keepOpen \/ ~ OKToCloseDocument(d)
  BY DEF NothingLingers
<1>1. d \in ElementsOf(docList) /\ d \in Docs
  BY ListedIs, LenProperties, ElementOfSeq DEF BaseInv, Types, ElementsOf
<1>2. ~ Lingering(d)
  BY <1>1 DEF CoverInv, Covered, AtEventLoop
<1>3. OKToCloseDocument(d) <=> Unneeded(d, docList, needs)
  BY ListedIs DEF OKToCloseDocument, Unneeded
<1> QED
  BY <1>1, <1>2, <1>3 DEF Lingering, Lingers

\* NothingLingers: under the conditions of OrderlySpec, whenever the program is back in its
\* event loop, CloseDocuments has closed every hidden document that nobody needs.
THEOREM NothingEverLingers == OrderlySpec => []NothingLingers
<1>1. OrderlyInit => CoverInv
  BY DEF OrderlyInit, Init, CoverInv, Lingering, Lingers, ElementsOf
<1>2. BaseInv /\ OrderlyInv /\ BaseInv' /\ CoverInv /\ [OrderlyNext]_vars => CoverInv'
  BY CoverKeeps
<1>3. BaseInv /\ CoverInv => NothingLingers
  BY NoneIsLingering
<1> QED
  BY <1>1, <1>2, <1>3, AlwaysOrderly, PTL DEF OrderlySpec
=============================================================================
