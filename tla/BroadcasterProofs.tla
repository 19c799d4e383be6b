-------------------------- MODULE BroadcasterProofs -------------------------
(***************************************************************************)
(* Proofs about Broadcaster, for any set of objects and any depth: its     *)
(* invariants, and that it implements Multicast.                           *)
(*                                                                         *)
(* The inductive invariant says, next to the properties themselves, that   *)
(* the cursor of an iterator stays inside the list it is attached to.      *)
(***************************************************************************)
EXTENDS Broadcaster, CursorLemmas

\* One frame is in order with respect to the recipient lists rs: an attached
\* iterator has its cursor inside the list, and what is after the cursor is what
\* the pass still owes.
FrameExact(f, rs) ==
    /\ f \in Frame
    /\ f.kind # "user" => f.obj \in Objects
    /\ f.attached => f.kind = "bcast" /\ f.cursor <= Len(rs[f.obj])
    /\ f.kind = "bcast" =>
          (IF f.attached THEN After(rs[f.obj], f.cursor) ELSE {})
            = f.start \ (f.got \cup f.gone)

\* A frame that follows a change of the lists stays the frame it was.
Alike(g, f) == g.kind = f.kind /\ g.obj = f.obj

\* The outermost frame is the event loop, and a loop has room for its callee.
StackExact(st, rs) ==
    /\ st \in Seq(Frame)
    /\ Len(st) \in 1 .. MaxDepth
    /\ st[1].kind = "user"
    /\ \A k \in 1 .. Len(st) :
          FrameExact(st[k], rs) /\ (st[k].kind # "user" => k < MaxDepth)

IInv ==
    /\ TypeOK
    /\ ConnectionsSymmetric
    /\ NoDanglingConnection
    /\ StackExact(stack, recipients)

-----------------------------------------------------------------------------
(* Frames.                                                                 *)

\* A frame depends on the one list its iterator is attached to.
LEMMA FrameLocal ==
    ASSUME NEW rs \in [Objects -> Seq(Objects)], NEW rt \in [Objects -> Seq(Objects)],
           NEW f, FrameExact(f, rs), f.attached => rt[f.obj] = rs[f.obj]
    PROVE  FrameExact(f, rt)
BY DEF FrameExact

\* Application code runs no iterator.
LEMMA UserFrameExact ==
    ASSUME NEW rs \in [Objects -> Seq(Objects)]
    PROVE  UserFrame \in Frame /\ FrameExact(UserFrame, rs)
BY DEF FrameExact, UserFrame, Frame

\* AddRecipient disturbs no pass.
LEMMA InsertExact ==
    ASSUME NEW rs \in [Objects -> Seq(Objects)], NEW s \in Objects, NEW o \in Objects,
           NEW rt \in [Objects -> Seq(Objects)], rt[s] = <<o>> \o rs[s],
           \A q \in Objects : q # s => rt[q] = rs[q],
           NEW f, FrameExact(f, rs)
    PROVE  /\ FrameExact(AfterInsert(f, s), rt)
           /\ Alike(AfterInsert(f, s), f)
<1> DEFINE g == AfterInsert(f, s)
<1>1. /\ <<o>> \o rs[s] \in Seq(Objects)
      /\ Len(<<o>> \o rs[s]) = Len(rs[s]) + 1
      /\ Len(rs[s]) \in Nat
  BY PrependProperties, LenProperties
<1>2. rt \in [Objects -> Seq(Objects)] /\ rt[s] = <<o>> \o rs[s]
  BY <1>1
<1>3. CASE ~ On(f, s)
  <2>1. g = f
    BY <1>3 DEF AfterInsert
  <2>2. f.attached => rt[f.obj] = rs[f.obj]
    BY <1>3 DEF On, FrameExact
  <2> QED
    BY <1>2, <2>1, <2>2, FrameLocal DEF Alike
<1>4. CASE On(f, s)
  <2>1. f.attached /\ f.obj = s /\ f.kind = "bcast" /\ f \in Frame /\ f.cursor \in 0 .. Len(rs[s])
    <3>1. f.attached /\ f.obj = s /\ f.kind = "bcast" /\ f \in Frame /\ f.cursor <= Len(rs[s])
      BY <1>4 DEF On, FrameExact
    <3>2. f.cursor \in Nat
      BY <3>1 DEF Frame
    <3> QED
      BY <1>1, <3>1, <3>2
  <2>2. /\ TaskCursorAfterInsert(f.cursor, 1, 1) = f.cursor + 1
        /\ After(rt[s], f.cursor + 1) = After(rs[s], f.cursor)
    BY <2>1, <1>2, AfterPrepending
  <2>3. g = [f EXCEPT !.cursor = f.cursor + 1, !.gone = f.gone]
    BY <1>4, <2>1, <2>2 DEF AfterInsert, Frame
  <2>4. /\ g \in Frame /\ g.kind = f.kind /\ g.obj = s /\ g.attached
        /\ g.cursor = f.cursor + 1
        /\ g.start = f.start /\ g.got = f.got /\ g.gone = f.gone
    <3>1. f.cursor + 1 \in Nat /\ f.gone \in SUBSET Objects
      BY <2>1 DEF Frame
    <3>2. g \in Frame
      BY <2>1, <2>3, <3>1, Zenon DEF Frame
    <3>3. /\ g.kind = f.kind /\ g.obj = f.obj
          /\ g.attached /\ g.cursor = f.cursor + 1
          /\ g.start = f.start /\ g.got = f.got /\ g.gone = f.gone
      BY <2>1, <2>3, <3>1 DEF Frame
    <3> HIDE DEF g
    <3> QED
      BY <2>1, <3>2, <3>3, Zenon
  <2> QED
    <3>1. After(rs[s], f.cursor) = f.start \ (f.got \cup f.gone)
      BY <2>1 DEF FrameExact
    <3>2. After(rt[s], g.cursor) = g.start \ (g.got \cup g.gone)
      BY <2>2, <2>4, <3>1
    <3>3. g.cursor <= Len(rt[s])
      BY <1>1, <1>2, <2>1, <2>4
    <3> HIDE DEF g
    <3>4. FrameExact(g, rt) /\ Alike(g, f)
      BY <2>1, <2>4, <3>2, <3>3 DEF FrameExact, Alike
    <3> QED
      BY <3>4 DEF g
<1> QED
  BY <1>3, <1>4

\* Taking one recipient off a list takes it off what each pass on it owes.
LEMMA RemoveExact ==
    ASSUME NEW rs \in [Objects -> Seq(Objects)], NEW s \in Objects,
           NEW i \in 1 .. Len(rs[s]), NoRepeats(rs[s]),
           NEW rt, rt = [rs EXCEPT ![s] = RemoveAt(@, i)],
           NEW f, FrameExact(f, rs)
    PROVE  /\ FrameExact(AfterRemove(f, s, i, rs[s][i]), rt)
           /\ Alike(AfterRemove(f, s, i, rs[s][i]), f)
<1> DEFINE o == rs[s][i]
           g == AfterRemove(f, s, i, o)
<1>1. /\ RemoveAt(rs[s], i) \in Seq(Objects)
      /\ Len(RemoveAt(rs[s], i)) = Len(rs[s]) - 1
      /\ Len(rs[s]) \in Nat
      /\ o \in Objects
  BY RemoveAtProperties, LenProperties, ElementOfSeq
<1>2. rt \in [Objects -> Seq(Objects)] /\ rt[s] = RemoveAt(rs[s], i)
  BY <1>1
<1>3. CASE ~ On(f, s)
  <2>1. g = f
    BY <1>3 DEF AfterRemove
  <2>2. f.attached => rt[f.obj] = rs[f.obj]
    BY <1>3 DEF On, FrameExact
  <2> QED
    BY <1>2, <2>1, <2>2, FrameLocal DEF Alike
<1>4. CASE On(f, s)
  <2> DEFINE c == CursorAfterRemove(f.cursor, i, 1)
  <2>1. f.attached /\ f.obj = s /\ f.kind = "bcast" /\ f \in Frame /\ f.cursor \in 0 .. Len(rs[s])
    <3>1. f.attached /\ f.obj = s /\ f.kind = "bcast" /\ f \in Frame /\ f.cursor <= Len(rs[s])
      BY <1>4 DEF On, FrameExact
    <3>2. f.cursor \in Nat
      BY <3>1 DEF Frame
    <3> QED
      BY <1>1, <3>1, <3>2
  <2>2. /\ c \in 0 .. Len(rt[s])
        /\ After(rt[s], c) = After(rs[s], f.cursor) \ {o}
    <3>1. rs[s] \in Seq(Objects)
      BY <1>1
    <3>2. /\ CursorAfterRemove(f.cursor, i, 1) \in 0 .. Len(rs[s]) - 1
          /\ After(RemoveAt(rs[s], i), CursorAfterRemove(f.cursor, i, 1))
               = After(rs[s], f.cursor) \ {rs[s][i]}
      BY <2>1, <3>1, AfterRemoval
    <3> QED
      BY <3>2, <1>1, <1>2
  <2>3. g = [f EXCEPT !.cursor = c, !.gone = f.gone \cup {o}]
    BY <1>4, <2>1 DEF AfterRemove, Frame
  <2> HIDE DEF c, g, o
  <2>4. /\ g \in Frame /\ g.kind = f.kind /\ g.obj = s /\ g.attached
        /\ g.cursor = c
        /\ g.start = f.start /\ g.got = f.got /\ g.gone = f.gone \cup {o}
    <3>1. c \in Nat /\ f.gone \cup {o} \in SUBSET Objects
      BY <1>1, <2>1, <2>2 DEF Frame, o
    <3>2. g \in Frame
      BY <2>1, <2>3, <3>1, Zenon DEF Frame
    <3>3. /\ g.kind = f.kind /\ g.obj = f.obj
          /\ g.attached /\ g.cursor = c
          /\ g.start = f.start /\ g.got = f.got /\ g.gone = f.gone \cup {o}
      BY <2>1, <2>3, <3>1 DEF Frame
    <3> QED
      BY <2>1, <3>2, <3>3, Zenon
  <2>5. After(rs[s], f.cursor) = f.start \ (f.got \cup f.gone)
    BY <2>1 DEF FrameExact
  <2>6. After(rt[s], g.cursor) = g.start \ (g.got \cup g.gone)
    BY <2>2, <2>4, <2>5
  <2>7. FrameExact(g, rt)
    BY <2>1, <2>2, <2>4, <2>6 DEF FrameExact
  <2> QED
    BY <2>1, <2>4, <2>7 DEF g, o, Alike
<1> QED
  BY <1>3, <1>4

\* Deleting an empty list leaves its passes owing nothing.
LEMMA GoingAwayExact ==
    ASSUME NEW rs \in [Objects -> Seq(Objects)], NEW s \in Objects, Len(rs[s]) = 0,
           NEW f, FrameExact(f, rs)
    PROVE  /\ FrameExact(AfterGoingAway(f, s), rs)
           /\ Alike(AfterGoingAway(f, s), f)
           /\ ~ On(AfterGoingAway(f, s), s)
<1>1. CASE ~ On(f, s)
  BY <1>1 DEF AfterGoingAway, On, Alike
<1>2. CASE On(f, s)
  <2> DEFINE g == AfterGoingAway(f, s)
  <2>1. f.attached /\ f.obj = s /\ f.kind = "bcast" /\ f \in Frame /\ f.cursor = 0
    BY <1>2 DEF On, FrameExact, Frame
  <2>2. After(rs[s], 0) = {}
    BY DEF After
  <2>3. /\ g \in Frame /\ g.kind = f.kind /\ g.obj = f.obj /\ ~ g.attached
        /\ g.start = f.start /\ g.got = f.got /\ g.gone = f.gone
    BY <1>2, <2>1 DEF AfterGoingAway, Frame
  <2> QED
    BY <2>1, <2>2, <2>3 DEF FrameExact, Alike, On
<1> QED
  BY <1>1, <1>2

-----------------------------------------------------------------------------
(* Stacks.                                                                 *)

\* Calling: a frame in order on top of a stack in order.
LEMMA PushExact ==
    ASSUME NEW st, NEW rs, StackExact(st, rs), NEW f, FrameExact(f, rs),
           Len(st) < MaxDepth, f.kind # "user" => Len(st) + 1 < MaxDepth
    PROVE  StackExact(Append(st, f), rs)
<1>1. /\ st \in Seq(Frame) /\ f \in Frame
      /\ Len(st) \in Nat /\ Len(st) >= 1 /\ MaxDepth \in Nat
  BY DepthAssumption, LenProperties DEF StackExact, FrameExact
<1>2. /\ Append(st, f) \in Seq(Frame)
      /\ Len(Append(st, f)) = Len(st) + 1
      /\ \A k \in 1 .. Len(st) : Append(st, f)[k] = st[k]
      /\ Append(st, f)[Len(st) + 1] = f
  BY <1>1, AppendProperties
<1> QED
  BY <1>1, <1>2 DEF StackExact

\* Changing the frames, and possibly returning from the innermost ones.
LEMMA MapExact ==
    ASSUME NEW st, NEW rs, StackExact(st, rs), NEW n \in 1 .. Len(st), NEW rt,
           NEW su, su \in [1 .. n -> Frame],
           \A k \in 1 .. n : FrameExact(su[k], rt) /\ Alike(su[k], st[k])
    PROVE  StackExact(su, rt)
<1>1. /\ st \in Seq(Frame) /\ Len(st) \in Nat /\ n \in Nat
  BY LenProperties DEF StackExact
<1>2. /\ su \in Seq(Frame) /\ Len(su) = n
  BY <1>1, FunctionIsSeq
<1> QED
  BY <1>1, <1>2, DepthAssumption DEF StackExact, Alike

\* Returning from the innermost frame.
LEMMA PopExact ==
    ASSUME NEW st, NEW rs, StackExact(st, rs), Len(st) > 1
    PROVE  StackExact(SubSeq(st, 1, Len(st) - 1), rs)
<1> DEFINE su == SubSeq(st, 1, Len(st) - 1)
<1>1. /\ st \in Seq(Frame) /\ Len(st) \in Nat
      /\ \A k \in 1 .. Len(st) - 1 : st[k] \in Frame
  BY LenProperties, ElementOfSeq DEF StackExact
<1>2. /\ su \in Seq(Frame) /\ Len(su) = Len(st) - 1
      /\ \A k \in 1 .. Len(st) - 1 : su[k] = st[k]
  BY <1>1, SubSeqProperties
<1>3. su \in [1 .. Len(st) - 1 -> Frame]
  BY <1>2, LenProperties
<1>4. \A k \in 1 .. Len(st) - 1 : FrameExact(su[k], rs) /\ Alike(su[k], st[k])
  BY <1>1, <1>2 DEF StackExact, Alike
<1> HIDE DEF su
<1>5. Len(st) - 1 \in 1 .. Len(st)
  BY <1>1
<1> QED
  BY <1>3, <1>4, <1>5, MapExact DEF su

\* What a step needs of the innermost frame.
LEMMA TopFrame ==
    ASSUME IInv
    PROVE  /\ stack \in Seq(Frame) /\ Len(stack) \in 1 .. MaxDepth
           /\ DOMAIN stack = 1 .. Len(stack)
           /\ Top \in Frame /\ FrameExact(Top, recipients)
           /\ Top.kind # "user" => /\ Top.obj \in Objects
                                   /\ Len(stack) > 1
                                   /\ Len(stack) < MaxDepth
           /\ recipients \in [Objects -> Seq(Objects)]
<1>1. /\ stack \in Seq(Frame) /\ Len(stack) \in 1 .. MaxDepth
      /\ recipients \in [Objects -> Seq(Objects)]
      /\ stack[1].kind = "user"
      /\ \A k \in 1 .. Len(stack) :
            FrameExact(stack[k], recipients) /\ (stack[k].kind # "user" => k < MaxDepth)
  BY DEF IInv, TypeOK, StackExact
<1>2. DOMAIN stack = 1 .. Len(stack) /\ Len(stack) \in Nat
  BY <1>1, LenProperties
<1>3. Len(stack) \in 1 .. Len(stack)
  BY <1>1, <1>2
<1>4. FrameExact(Top, recipients) /\ (Top.kind # "user" => Len(stack) < MaxDepth)
  BY <1>1, <1>3 DEF Top
<1>5. Top.kind # "user" => Len(stack) > 1
  BY <1>1, <1>3 DEF Top
<1> QED
  BY <1>1, <1>2, <1>4, <1>5 DEF FrameExact

\* The lists, in the vocabulary of the lemmas about sequences.
LEMMA Lists ==
    ASSUME IInv, NEW s \in Objects
    PROVE  /\ recipients[s] \in Seq(Objects)
           /\ Len(recipients[s]) \in Nat
           /\ DOMAIN recipients[s] = 1 .. Len(recipients[s])
           /\ NoRepeats(recipients[s])
           /\ Listeners(s) = ElementsOf(recipients[s])
           /\ Listeners(s) \subseteq Objects
<1>1. recipients[s] \in Seq(Objects)
  BY DEF IInv, TypeOK
<1>2. /\ Len(recipients[s]) \in Nat
      /\ DOMAIN recipients[s] = 1 .. Len(recipients[s])
      /\ recipients[s] \in [1 .. Len(recipients[s]) -> Objects]
  BY <1>1, LenProperties
<1>3. NoRepeats(recipients[s])
  BY DEF IInv, ConnectionsSymmetric, NoRepeats
<1> QED
  BY <1>1, <1>2, <1>3 DEF Listeners, ElementsOf

\* Remove finds the recipient it is asked for.
LEMMA IndexOfRecipient ==
    ASSUME IInv, NEW s \in Objects, NEW o \in Objects, s \in senders[o]
    PROVE  /\ IndexOf(s, o) \in 1 .. Len(recipients[s])
           /\ recipients[s][IndexOf(s, o)] = o
<1>1. \E i \in DOMAIN recipients[s] : recipients[s][i] = o
  BY DEF IInv, ConnectionsSymmetric, Listeners
<1> QED
  BY <1>1, Lists DEF IndexOf

\* Called: the callee's frame, if it is called at all.
LEMMA CalledExact ==
    ASSUME NEW st, NEW rs \in [Objects -> Seq(Objects)], StackExact(st, rs),
           Len(st) < MaxDepth, NEW r
    PROVE  StackExact(Called(r, st), rs)
<1>1. FrameExact(UserFrame, rs) /\ UserFrame.kind = "user"
  BY UserFrameExact DEF UserFrame
<1>2. StackExact(Append(st, UserFrame), rs)
  BY <1>1, PushExact
<1> QED
  BY <1>2 DEF Called

-----------------------------------------------------------------------------
(* The invariant holds initially and is kept by every action.              *)

\* The invariant holds at the start.
LEMMA InitIInv ==
    ASSUME Init
    PROVE  IInv
<1>0. recipients \in [Objects -> Seq(Objects)]
  BY EmptySeq DEF Init
<1>1. UserFrame \in Frame /\ UserFrame.kind = "user"
  BY <1>0, UserFrameExact DEF UserFrame
<1>3. /\ stack \in Seq(Frame) /\ Len(stack) = 1 /\ stack[1] = UserFrame
  BY <1>1 DEF Init
<1>4. TypeOK
  BY <1>0, <1>3, DepthAssumption DEF Init, TypeOK
<1>5. ConnectionsSymmetric /\ NoDanglingConnection
  BY DEF Init, ConnectionsSymmetric, NoDanglingConnection, Listeners
<1>6. StackExact(stack, recipients)
  BY <1>0, <1>1, <1>3, UserFrameExact, DepthAssumption DEF StackExact
<1> QED
  BY <1>4, <1>5, <1>6 DEF IInv

\* Actions that change the stack, or the status of an object, but no connection.
LEMMA LinksUnchanged ==
    ASSUME IInv, UNCHANGED <<recipients, senders, clearPtrs>>,
           StackExact(stack', recipients),
           status' \in [Objects -> {"free", "alive", "dying"}],
           \A o \in Objects : status'[o] = "free" => status[o] = "free"
    PROVE  IInv'
<1>1. TypeOK' /\ StackExact(stack', recipients')
  BY DEF IInv, TypeOK, StackExact
<1>2. ConnectionsSymmetric' /\ NoDanglingConnection'
  BY DEF IInv, ConnectionsSymmetric, NoDanglingConnection, Listeners
<1> QED
  BY <1>1, <1>2 DEF IInv

\* A new object is in nobody's list yet.
LEMMA CreateIInv ==
    ASSUME IInv, NEW o \in Objects, Create(o)
    PROVE  IInv'
BY LinksUnchanged DEF Create, IInv, TypeOK

\* A destructor that begins changes no list; its frame runs no iterator.
LEMMA DeleteIInv ==
    ASSUME IInv, NEW o \in Objects, Delete(o)
    PROVE  IInv'
<1>1. FrameExact(DtorFrame(o), recipients) /\ DtorFrame(o).kind = "dtor"
  BY DEF FrameExact, DtorFrame, UserFrame, Frame
<1>2. StackExact(stack', recipients)
  BY <1>1, PushExact, TopFrame, DepthAssumption DEF Delete, IInv
<1> QED
  BY <1>2, LinksUnchanged DEF Delete, IInv, TypeOK

\* A pass that begins owes the message to the whole list.
LEMMA BroadcastIInv ==
    ASSUME IInv, NEW s \in Objects, Broadcast(s)
    PROVE  IInv'
<1> DEFINE f == BcastFrame(s, Listeners(s))
<1>1. After(recipients[s], 0) = Listeners(s)
  BY Lists DEF After, ElementsOf
<1>2. /\ f \in Frame /\ f.kind = "bcast" /\ f.obj = s /\ f.cursor = 0
      /\ f.start = Listeners(s) /\ f.got = {} /\ f.gone = {}
  BY Lists DEF BcastFrame, UserFrame, Frame
<1>3. f.attached
  BY DEF BcastFrame, UserFrame
<1>4. FrameExact(f, recipients)
  BY <1>1, <1>2, <1>3, Lists DEF FrameExact
<1>5. StackExact(stack', recipients)
  BY <1>2, <1>4, PushExact, TopFrame, DepthAssumption DEF Broadcast, IInv
<1> QED
  BY <1>5, LinksUnchanged DEF Broadcast, links, IInv, TypeOK

\* Application code that returns leaves every loop as it was.
LEMMA ReturnIInv ==
    ASSUME IInv, Return
    PROVE  IInv'
<1>1. StackExact(stack', recipients)
  BY PopExact DEF Return, Pop, IInv
<1> QED
  BY <1>1, LinksUnchanged DEF Return, links, IInv, TypeOK

\* A pass that ends takes its iterator with it.
LEMMA EndBroadcastIInv ==
    ASSUME IInv, EndBroadcast
    PROVE  IInv'
<1>1. StackExact(stack', recipients)
  BY PopExact, TopFrame DEF EndBroadcast, Pop, IInv
<1> QED
  BY <1>1, LinksUnchanged DEF EndBroadcast, links, IInv, TypeOK

\* Next hands out one more recipient: it is delivered to, and not owed again.
LEMMA NextExact ==
    ASSUME IInv, Deliver
    PROVE  \E r \in Pending(Top), g \in Frame :
             /\ g.kind = "bcast" /\ g.obj = Top.obj
             /\ g.start = Top.start /\ g.got = Top.got \cup {r} /\ g.gone = Top.gone
             /\ stack' = Called(r, [stack EXCEPT ![Len(stack)] = g])
             /\ StackExact([stack EXCEPT ![Len(stack)] = g], recipients)
             /\ Len([stack EXCEPT ![Len(stack)] = g]) = Len(stack)
<1> DEFINE n == Len(stack)
           f == Top
           s == f.obj
           c == f.cursor
           r == recipients[s][c + 1]
           g == [f EXCEPT !.cursor = c + 1, !.got = f.got \cup {r}]
           st == [stack EXCEPT ![n] = g]
<1>1. /\ stack \in Seq(Frame) /\ n \in 1 .. MaxDepth /\ n < MaxDepth
      /\ DOMAIN stack = 1 .. n
      /\ f \in Frame /\ FrameExact(f, recipients) /\ f.kind = "bcast" /\ s \in Objects
      /\ recipients \in [Objects -> Seq(Objects)]
  BY TopFrame DEF Deliver
<1>2. f.attached /\ c \in Nat /\ c < Len(recipients[s])
  BY <1>1, Lists DEF Deliver, AtEnd, Frame
<1>3. /\ c \in 0 .. Len(recipients[s]) - 1
      /\ r \in Objects
  BY <1>1, <1>2, Lists, ElementOfSeq
<1>4. After(recipients[s], c + 1) = After(recipients[s], c) \ {r}
  BY <1>1, <1>3, Lists, AfterNext
<1>5. stack' = Called(r, st)
  BY <1>1 DEF Deliver, Top
<1>6. g \in Frame
  <2>1. c + 1 \in Nat /\ f.got \cup {r} \in SUBSET Objects
    BY <1>1, <1>2, <1>3 DEF Frame
  <2> QED
    BY <1>1, <2>1, Zenon DEF Frame
<1>7. /\ g.kind = f.kind /\ g.obj = s /\ g.cursor = c + 1
      /\ g.start = f.start /\ g.got = f.got \cup {r} /\ g.gone = f.gone
  BY <1>1 DEF Frame
<1>8. g.attached
  BY <1>1, <1>2 DEF Frame
<1> HIDE DEF g
<1>9. FrameExact(g, recipients)
  <2>1. After(recipients[s], c) = f.start \ (f.got \cup f.gone)
    BY <1>1, <1>2 DEF FrameExact
  <2>2. After(recipients[s], c + 1) = g.start \ (g.got \cup g.gone)
    BY <1>4, <1>7, <2>1
  <2>3. g.cursor <= Len(recipients[s])
    BY <1>3, <1>7, Lists
  <2> QED
    BY <1>1, <1>6, <1>7, <1>8, <2>2, <2>3 DEF FrameExact
<1>10. StackExact(st, recipients) /\ Len(st) = n
  <2>1. st \in [1 .. n -> Frame]
    BY <1>1, <1>6, LenProperties
  <2>2. \A k \in 1 .. n : FrameExact(st[k], recipients) /\ Alike(st[k], stack[k])
    BY <1>1, <1>7, <1>9 DEF IInv, StackExact, Top, Alike
  <2>3. n \in 1 .. n /\ n \in Nat
    BY <1>1
  <2> HIDE DEF st, n
  <2>4. Len(st) = n
    BY <2>1, <2>3, FunctionIsSeq
  <2>5. StackExact(stack, recipients) /\ n \in 1 .. Len(stack)
    BY <2>3 DEF IInv, n
  <2>6. StackExact(st, recipients)
    BY <2>1, <2>2, <2>5, MapExact
  <2> QED
    BY <2>4, <2>6
<1>11. r \in Pending(f)
  <2>1. c + 1 \in (c + 1) .. Len(recipients[s])
    BY <1>1, <1>3, Lists
  <2> QED
    BY <1>2, <2>1 DEF Pending
<1> HIDE DEF st
<1>12. st = [stack EXCEPT ![Len(stack)] = g]
  BY DEF st
<1> HIDE DEF n, r
<1> QED
  BY <1>1, <1>5, <1>6, <1>7, <1>10, <1>11, <1>12 DEF n

\* Deliver keeps the invariant.
LEMMA DeliverIInv ==
    ASSUME IInv, Deliver
    PROVE  IInv'
<1>1. PICK r \in Pending(Top), g \in Frame :
         /\ stack' = Called(r, [stack EXCEPT ![Len(stack)] = g])
         /\ StackExact([stack EXCEPT ![Len(stack)] = g], recipients)
         /\ Len([stack EXCEPT ![Len(stack)] = g]) = Len(stack)
  BY NextExact
<1>2. Len(stack) < MaxDepth /\ recipients \in [Objects -> Seq(Objects)]
  BY TopFrame DEF Deliver
<1>3. StackExact(stack', recipients)
  BY <1>1, <1>2, CalledExact
<1> QED
  BY <1>3, LinksUnchanged DEF Deliver, links, IInv, TypeOK

\* A new connection appears at both of its ends, and in no pass that is running.
LEMMA ConnectExact ==
    ASSUME IInv, NEW o \in Objects, NEW s \in Objects, s \notin senders[o], Connect(o, s)
    PROVE  /\ recipients' \in [Objects -> Seq(Objects)]
           /\ senders' \in [Objects -> SUBSET Objects]
           /\ ConnectionsSymmetric'
           /\ StackExact(stack', recipients')
           /\ \A q \in Objects : q # s => Listeners(q)' = Listeners(q)
<1>1. /\ recipients \in [Objects -> Seq(Objects)]
      /\ senders \in [Objects -> SUBSET Objects]
  BY DEF IInv, TypeOK
<1>2. /\ <<o>> \o recipients[s] \in Seq(Objects)
      /\ recipients' = [recipients EXCEPT ![s] = <<o>> \o @]
      /\ senders' = [senders EXCEPT ![o] = @ \cup {s}]
  BY <1>1, PrependProperties DEF Connect
<1>3. /\ recipients' \in [Objects -> Seq(Objects)]
      /\ senders' \in [Objects -> SUBSET Objects]
  BY <1>1, <1>2
<1>4. o \notin ElementsOf(recipients[s])
  BY Lists DEF IInv, ConnectionsSymmetric
<1>5. /\ NoRepeats(recipients'[s])
      /\ ElementsOf(recipients'[s]) = ElementsOf(recipients[s]) \cup {o}
  BY <1>1, <1>2, <1>4, Lists, PrependElements
<1>6. \A q \in Objects : q # s => recipients'[q] = recipients[q]
  BY <1>1, <1>2
<1>9. recipients'[s] = <<o>> \o recipients[s]
  BY <1>1, <1>2
<1>7. ConnectionsSymmetric'
  <2> SUFFICES ASSUME NEW p \in Objects, NEW q \in Objects
               PROVE  /\ p \in ElementsOf(recipients'[q]) <=> q \in senders'[p]
                      /\ NoRepeats(recipients'[q])
    BY DEF ConnectionsSymmetric, Listeners, ElementsOf, NoRepeats
  <2>1. /\ p \in ElementsOf(recipients[q]) <=> q \in senders[p]
        /\ NoRepeats(recipients[q])
    BY Lists DEF IInv, ConnectionsSymmetric
  <2>2. CASE q = s
    BY <1>1, <1>2, <1>5, <2>1, <2>2
  <2>3. CASE q # s
    BY <1>1, <1>2, <1>6, <2>1, <2>3
  <2> QED
    BY <2>2, <2>3
<1>8. StackExact(stack', recipients')
  <2> DEFINE n == Len(stack)
             su == [k \in 1 .. n |-> AfterInsert(stack[k], s)]
  <2>1. StackExact(stack, recipients) /\ n \in 1 .. n /\ DOMAIN stack = 1 .. n
    BY TopFrame DEF IInv
  <2>2. \A k \in 1 .. n : FrameExact(stack[k], recipients)
    BY <2>1 DEF StackExact
  <2>3. \A k \in 1 .. n : /\ FrameExact(su[k], recipients')
                          /\ Alike(su[k], stack[k])
    <3> SUFFICES ASSUME NEW k \in 1 .. n
                 PROVE  /\ FrameExact(AfterInsert(stack[k], s), recipients')
                        /\ Alike(AfterInsert(stack[k], s), stack[k])
      OBVIOUS
    <3>1. FrameExact(stack[k], recipients)
      BY <2>2
    <3> QED
      BY <1>1, <1>3, <1>6, <1>9, <3>1, InsertExact
  <2>4. su \in [1 .. n -> Frame]
    BY <2>3 DEF FrameExact
  <2>5. stack' = su
    BY <2>1 DEF Connect
  <2> HIDE DEF su
  <2> QED
    BY <2>1, <2>3, <2>4, <2>5, MapExact
<1> QED
  BY <1>3, <1>6, <1>7, <1>8 DEF Listeners

\* ListenTo keeps the invariant (JBroadcaster::ListenTo).
LEMMA ListenToIInv ==
    ASSUME IInv, NEW o \in Objects, NEW s \in Objects, ListenTo(o, s)
    PROVE  IInv'
<1>1. /\ recipients' \in [Objects -> Seq(Objects)]
      /\ senders' \in [Objects -> SUBSET Objects]
      /\ ConnectionsSymmetric'
      /\ StackExact(stack', recipients')
      /\ \A q \in Objects : q # s => Listeners(q)' = Listeners(q)
  BY ConnectExact DEF ListenTo
<1>2. TypeOK'
  BY <1>1 DEF ListenTo, IInv, TypeOK, StackExact
<1>3. NoDanglingConnection'
  <2>1. /\ senders' = [senders EXCEPT ![o] = @ \cup {s}]
        /\ status' = status /\ clearPtrs' = clearPtrs
        /\ status[o] = "alive" /\ status[s] = "alive"
        /\ senders \in [Objects -> SUBSET Objects]
        /\ NoDanglingConnection
    BY DEF ListenTo, Connect, Alive, IInv, TypeOK
  <2> SUFFICES ASSUME NEW q \in Objects
               PROVE  /\ status'[q] = "free" => Listeners(q)' = {} /\ senders'[q] = {}
                      /\ clearPtrs'[q] \subseteq senders'[q]
    BY DEF NoDanglingConnection
  <2>2. q # s => Listeners(q)' = Listeners(q)
    BY <1>1
  <2>3. /\ status[q] = "free" => Listeners(q) = {} /\ senders[q] = {}
        /\ clearPtrs[q] \subseteq senders[q]
    BY <2>1 DEF NoDanglingConnection
  <2> QED
    BY <2>1, <2>2, <2>3
<1> QED
  BY <1>1, <1>2, <1>3 DEF IInv

\* A pointer is registered only for a sender that is, or now becomes, connected.
LEMMA ClearWhenGoingAwayIInv ==
    ASSUME IInv, NEW o \in Objects, NEW s \in Objects, ClearWhenGoingAway(o, s)
    PROVE  IInv'
<1>1. /\ clearPtrs' = [clearPtrs EXCEPT ![o] = @ \cup {s}]
      /\ clearPtrs' \in [Objects -> SUBSET Objects]
      /\ status' = status /\ status[o] = "alive" /\ status[s] = "alive"
  BY DEF ClearWhenGoingAway, Alive, IInv, TypeOK
<1>2. CASE s \in senders[o]
  <2>1. UNCHANGED <<senders, recipients, stack>>
    BY <1>2 DEF ClearWhenGoingAway
  <2>2. TypeOK' /\ ConnectionsSymmetric' /\ StackExact(stack', recipients')
    BY <1>1, <2>1 DEF IInv, TypeOK, ConnectionsSymmetric, Listeners
  <2>3. \A q \in Objects : Listeners(q)' = Listeners(q)
    BY <2>1 DEF Listeners
  <2>4. NoDanglingConnection'
    BY <1>1, <1>2, <2>1, <2>3 DEF IInv, TypeOK, NoDanglingConnection
  <2> QED
    BY <2>2, <2>4 DEF IInv
<1>3. CASE s \notin senders[o]
  <2>1. Connect(o, s)
    BY <1>3 DEF ClearWhenGoingAway
  <2>2. /\ recipients' \in [Objects -> Seq(Objects)]
        /\ senders' \in [Objects -> SUBSET Objects]
        /\ ConnectionsSymmetric'
        /\ StackExact(stack', recipients')
        /\ \A q \in Objects : q # s => Listeners(q)' = Listeners(q)
    BY <1>3, <2>1, ConnectExact
  <2>3. TypeOK'
    BY <1>1, <2>2 DEF IInv, TypeOK, StackExact
  <2>4. NoDanglingConnection'
    <3>1. /\ senders' = [senders EXCEPT ![o] = @ \cup {s}]
          /\ senders \in [Objects -> SUBSET Objects]
          /\ clearPtrs \in [Objects -> SUBSET Objects]
      BY <2>1 DEF Connect, IInv, TypeOK
    <3> SUFFICES ASSUME NEW q \in Objects
                 PROVE  /\ status'[q] = "free" => Listeners(q)' = {} /\ senders'[q] = {}
                        /\ clearPtrs'[q] \subseteq senders'[q]
      BY DEF NoDanglingConnection
    <3>2. q # s => Listeners(q)' = Listeners(q)
      BY <2>2
    <3>3. /\ status[q] = "free" => Listeners(q) = {} /\ senders[q] = {}
          /\ clearPtrs[q] \subseteq senders[q]
      BY DEF IInv, NoDanglingConnection
    <3> QED
      BY <1>1, <3>1, <3>2, <3>3
  <2> QED
    BY <2>2, <2>3, <2>4 DEF IInv
<1> QED
  BY <1>2, <1>3

\* RemoveRecipient keeps every frame in order: the pass follows the removal, and
\* if the list is deleted it owed the message to nobody else.
LEMMA RemoveRecipientExact ==
    ASSUME IInv, NEW o \in Objects, NEW s \in Objects, s \in senders[o],
           NEW f, FrameExact(f, recipients)
    PROVE  /\ FrameExact(AfterRemoveRecipient(f, s, o),
                         [recipients EXCEPT ![s] = WithoutRecipient(s, o)])
           /\ Alike(AfterRemoveRecipient(f, s, o), f)
<1> DEFINE i == IndexOf(s, o)
           rt == [recipients EXCEPT ![s] = RemoveAt(@, i)]
           g == AfterRemove(f, s, i, o)
<1>1. i \in 1 .. Len(recipients[s]) /\ recipients[s][i] = o
  BY IndexOfRecipient
<1>2. recipients \in [Objects -> Seq(Objects)] /\ NoRepeats(recipients[s])
  BY Lists DEF IInv, TypeOK
<1>3. FrameExact(g, rt) /\ Alike(g, f)
  <2> DEFINE e == recipients[s][i]
             h == AfterRemove(f, s, i, e)
  <2>1. g = h
    BY <1>1
  <2> HIDE DEF i, g
  <2>2. FrameExact(h, rt) /\ Alike(h, f)
    <3>1. rt = [recipients EXCEPT ![s] = RemoveAt(@, i)]
      OBVIOUS
    <3> HIDE DEF rt
    <3> QED
      BY <1>1, <1>2, <3>1, RemoveExact
  <2> HIDE DEF h
  <2> QED
    BY <2>1, <2>2
<1>4. /\ rt \in [Objects -> Seq(Objects)]
      /\ rt[s] = RemoveAt(recipients[s], i)
      /\ Len(rt[s]) = Len(recipients[s]) - 1
      /\ rt = [recipients EXCEPT ![s] = WithoutRecipient(s, o)]
  BY <1>1, <1>2, RemoveAtProperties DEF WithoutRecipient
<1> HIDE DEF g, rt, i
<1>5. CASE Len(recipients[s]) = 1
  <2>1. AfterRemoveRecipient(f, s, o) = AfterGoingAway(g, s)
    BY <1>5 DEF AfterRemoveRecipient, g, i
  <2>2. Len(rt[s]) = 0
    BY <1>4, <1>5
  <2>3. /\ FrameExact(AfterGoingAway(g, s), rt)
        /\ Alike(AfterGoingAway(g, s), g)
    <3> HIDE DEF rt, g
    <3> QED
      BY <1>3, <1>4, <2>2, GoingAwayExact
  <2> QED
    BY <1>3, <1>4, <2>1, <2>3 DEF Alike
<1>6. CASE Len(recipients[s]) # 1
  BY <1>3, <1>4, <1>6 DEF AfterRemoveRecipient, g, i
<1> QED
  BY <1>5, <1>6

\* Breaking one connection at both ends, with the pointers registered for it.
LEMMA DisconnectExact ==
    ASSUME IInv, NEW o \in Objects, NEW s \in Objects,
           NEW i \in 1 .. Len(recipients[s]), recipients[s][i] = o,
           recipients' = [recipients EXCEPT ![s] = RemoveAt(@, i)],
           senders' = [senders EXCEPT ![o] = @ \ {s}],
           clearPtrs' = [clearPtrs EXCEPT ![o] = @ \ {s}],
           UNCHANGED status
    PROVE  /\ recipients' \in [Objects -> Seq(Objects)]
           /\ senders' \in [Objects -> SUBSET Objects]
           /\ clearPtrs' \in [Objects -> SUBSET Objects]
           /\ ConnectionsSymmetric'
           /\ NoDanglingConnection'
<1>1. /\ recipients \in [Objects -> Seq(Objects)]
      /\ senders \in [Objects -> SUBSET Objects]
      /\ clearPtrs \in [Objects -> SUBSET Objects]
  BY DEF IInv, TypeOK
<1>2. RemoveAt(recipients[s], i) \in Seq(Objects)
  BY <1>1, RemoveAtProperties
<1>3. /\ recipients' \in [Objects -> Seq(Objects)]
      /\ senders' \in [Objects -> SUBSET Objects]
      /\ clearPtrs' \in [Objects -> SUBSET Objects]
  BY <1>1, <1>2
<1>4. /\ NoRepeats(recipients'[s])
      /\ ElementsOf(recipients'[s]) = ElementsOf(recipients[s]) \ {o}
  <2>1. recipients'[s] = RemoveAt(recipients[s], i)
    BY <1>1
  <2>2. NoRepeats(recipients[s])
    BY Lists
  <2> QED
    BY <1>1, <2>1, <2>2, RemoveAtElements
<1>5. \A q \in Objects : q # s => recipients'[q] = recipients[q]
  BY <1>1
<1>6. \A p, q \in Objects : p \in ElementsOf(recipients[q]) <=> q \in senders[p]
  BY Lists DEF IInv, ConnectionsSymmetric
<1>7. \A q \in Objects : NoRepeats(recipients[q])
  BY Lists
<1>8. \A p, q \in Objects : p \in ElementsOf(recipients'[q]) <=> q \in senders'[p]
  BY <1>1, <1>4, <1>5, <1>6
<1>9. \A q \in Objects : NoRepeats(recipients'[q])
  BY <1>4, <1>5, <1>7
<1>10. ConnectionsSymmetric'
  BY <1>8, <1>9 DEF ConnectionsSymmetric, Listeners, ElementsOf, NoRepeats
<1>11. NoDanglingConnection'
  <2>1. \A q \in Objects : Listeners(q)' \subseteq Listeners(q)
    BY <1>4, <1>5 DEF Listeners, ElementsOf
  <2> QED
    BY <1>1, <2>1 DEF IInv, NoDanglingConnection
<1> QED
  BY <1>3, <1>10, <1>11

\* StopListening takes both ends of the connection away, and its registered pointers.
LEMMA StopListeningIInv ==
    ASSUME IInv, NEW o \in Objects, NEW s \in Objects, StopListening(o, s)
    PROVE  IInv'
<1>1. s \in senders[o]
  BY DEF StopListening
<1>2. IndexOf(s, o) \in 1 .. Len(recipients[s]) /\ recipients[s][IndexOf(s, o)] = o
  BY <1>1, IndexOfRecipient
<1>3. /\ recipients' \in [Objects -> Seq(Objects)]
      /\ senders' \in [Objects -> SUBSET Objects]
      /\ clearPtrs' \in [Objects -> SUBSET Objects]
      /\ ConnectionsSymmetric'
      /\ NoDanglingConnection'
  BY <1>2, DisconnectExact DEF StopListening, WithoutRecipient
<1>4. StackExact(stack', recipients')
  <2> DEFINE n == Len(stack)
             su == [k \in 1 .. n |-> AfterRemoveRecipient(stack[k], s, o)]
  <2>1. StackExact(stack, recipients) /\ n \in 1 .. n /\ DOMAIN stack = 1 .. n
    BY TopFrame DEF IInv
  <2>2. \A k \in 1 .. n : FrameExact(stack[k], recipients)
    BY <2>1 DEF StackExact
  <2>3. recipients' = [recipients EXCEPT ![s] = WithoutRecipient(s, o)]
    BY DEF StopListening
  <2>4. \A k \in 1 .. n : /\ FrameExact(su[k], recipients')
                          /\ Alike(su[k], stack[k])
    <3> SUFFICES ASSUME NEW k \in 1 .. n
                 PROVE  /\ FrameExact(AfterRemoveRecipient(stack[k], s, o), recipients')
                        /\ Alike(AfterRemoveRecipient(stack[k], s, o), stack[k])
      OBVIOUS
    <3>1. FrameExact(stack[k], recipients)
      BY <2>2
    <3>2. /\ FrameExact(AfterRemoveRecipient(stack[k], s, o),
                         [recipients EXCEPT ![s] = WithoutRecipient(s, o)])
          /\ Alike(AfterRemoveRecipient(stack[k], s, o), stack[k])
      BY <1>1, <3>1, RemoveRecipientExact
    <3> QED
      BY <2>3, <3>2
  <2>5. su \in [1 .. n -> Frame]
    BY <2>4 DEF FrameExact
  <2>6. stack' = su
    BY <2>1 DEF StopListening
  <2> HIDE DEF su
  <2> QED
    BY <2>1, <2>4, <2>5, <2>6, MapExact
<1>5. TypeOK'
  BY <1>3, <1>4 DEF StopListening, IInv, TypeOK, StackExact
<1> QED
  BY <1>3, <1>4, <1>5 DEF IInv

\* One turn of the destructor's loop: the last recipient is taken off.
LEMMA NotifyGoingAwayIInv ==
    ASSUME IInv, NotifyGoingAway
    PROVE  IInv'
<1> DEFINE o == Top.obj
           m == Len(recipients[o])
           r == recipients[o][m]
           n == Len(stack)
           st == [k \in 1 .. n |-> AfterRemove(stack[k], o, m, r)]
<1>1. /\ o \in Objects /\ n < MaxDepth /\ n \in 1 .. MaxDepth
      /\ DOMAIN stack = 1 .. n
      /\ StackExact(stack, recipients)
  BY TopFrame DEF NotifyGoingAway, IInv
<1>2. /\ recipients[o] \in Seq(Objects)
      /\ m \in 1 .. Len(recipients[o])
      /\ r \in Objects
      /\ NoRepeats(recipients[o])
  <2>1. recipients[o] \in Seq(Objects) /\ m \in Nat /\ NoRepeats(recipients[o])
    BY <1>1, Lists
  <2>2. m > 0
    BY DEF NotifyGoingAway
  <2> QED
    BY <2>1, <2>2, ElementOfSeq
<1>3. /\ recipients' = [recipients EXCEPT ![o] = RemoveAt(@, m)]
      /\ senders' = [senders EXCEPT ![r] = @ \ {o}]
      /\ clearPtrs' = [clearPtrs EXCEPT ![r] = @ \ {o}]
      /\ status' = status
      /\ stack' = Called(r, st)
  BY <1>1 DEF NotifyGoingAway
<1>4. recipients \in [Objects -> Seq(Objects)]
  BY DEF IInv, TypeOK
<1> HIDE DEF st
<1>5. /\ recipients' \in [Objects -> Seq(Objects)]
      /\ senders' \in [Objects -> SUBSET Objects]
      /\ clearPtrs' \in [Objects -> SUBSET Objects]
      /\ ConnectionsSymmetric'
      /\ NoDanglingConnection'
  <2> HIDE DEF m, o
  <2>1. recipients[o][m] = r
    OBVIOUS
  <2> HIDE DEF r
  <2> QED
    BY <1>1, <1>2, <1>3, <2>1, DisconnectExact
<1>6. StackExact(st, recipients') /\ Len(st) = n
  <2> HIDE DEF m, o, n
  <2>1. \A k \in 1 .. n : FrameExact(stack[k], recipients)
    BY <1>1 DEF StackExact, n
  <2>2. \A k \in 1 .. n : /\ FrameExact(st[k], recipients')
                          /\ Alike(st[k], stack[k])
    <3> TAKE k \in 1 .. n
    <3>1. FrameExact(stack[k], recipients)
      BY <2>1
    <3>2. /\ FrameExact(AfterRemove(stack[k], o, m, recipients[o][m]), recipients')
          /\ Alike(AfterRemove(stack[k], o, m, recipients[o][m]), stack[k])
      BY <1>1, <1>2, <1>3, <1>4, <3>1, RemoveExact
    <3> QED
      BY <3>2 DEF st
  <2>3. st \in [1 .. n -> Frame]
    BY <2>2 DEF FrameExact, st
  <2>4. n \in 1 .. n /\ n \in Nat
    BY <1>1, DepthAssumption
  <2>5. Len(st) = n
    BY <2>3, <2>4, FunctionIsSeq
  <2>6. n \in 1 .. Len(stack)
    BY <2>4 DEF n
  <2> QED
    BY <1>1, <2>2, <2>3, <2>5, <2>6, MapExact
<1>7. StackExact(stack', recipients')
  BY <1>1, <1>3, <1>5, <1>6, CalledExact
<1>8. TypeOK'
  BY <1>3, <1>5, <1>7 DEF IInv, TypeOK, StackExact
<1> QED
  BY <1>5, <1>7, <1>8 DEF IInv

\* The end of the destructor: the object leaves the lists of all its senders.
LEMMA EndDeleteIInv ==
    ASSUME IInv, EndDelete
    PROVE  IInv'
<1> DEFINE o == Top.obj
           n == Len(stack)
           after(f) == IF f.obj \in senders[o] THEN AfterRemoveRecipient(f, f.obj, o)
                                               ELSE AfterGoingAway(f, o)
<1>1. /\ o \in Objects /\ n > 1 /\ n \in 1 .. MaxDepth
      /\ StackExact(stack, recipients)
  BY TopFrame DEF EndDelete, IInv
<1>2. /\ recipients[o] = <<>>
      /\ status' = [status EXCEPT ![o] = "free"]
      /\ recipients' = [s \in Objects |->
            IF s \in senders[o] THEN WithoutRecipient(s, o) ELSE recipients[s]]
      /\ senders' = [senders EXCEPT ![o] = {}]
      /\ clearPtrs' = [clearPtrs EXCEPT ![o] = {}]
      /\ stack' = [k \in 1 .. n - 1 |-> after(stack[k])]
  BY DEF EndDelete
<1>3. /\ status \in [Objects -> {"free", "alive", "dying"}]
      /\ recipients \in [Objects -> Seq(Objects)]
      /\ senders \in [Objects -> SUBSET Objects]
      /\ clearPtrs \in [Objects -> SUBSET Objects]
  BY DEF IInv, TypeOK
<1> HIDE DEF o, n, after
<1>4. ASSUME NEW s \in Objects, s \in senders[o]
      PROVE  /\ recipients'[s] = WithoutRecipient(s, o)
             /\ WithoutRecipient(s, o) \in Seq(Objects)
             /\ NoRepeats(WithoutRecipient(s, o))
             /\ ElementsOf(WithoutRecipient(s, o)) = ElementsOf(recipients[s]) \ {o}
  <2>1. IndexOf(s, o) \in 1 .. Len(recipients[s]) /\ recipients[s][IndexOf(s, o)] = o
    BY <1>1, <1>4, IndexOfRecipient
  <2>2. recipients[s] \in Seq(Objects) /\ NoRepeats(recipients[s])
    BY Lists
  <2>3. recipients'[s] = WithoutRecipient(s, o)
    BY <1>2, <1>4
  <2> QED
    BY <2>1, <2>2, <2>3, RemoveAtProperties, RemoveAtElements DEF WithoutRecipient
<1>5. /\ status' \in [Objects -> {"free", "alive", "dying"}]
      /\ recipients' \in [Objects -> Seq(Objects)]
      /\ senders' \in [Objects -> SUBSET Objects]
      /\ clearPtrs' \in [Objects -> SUBSET Objects]
  BY <1>1, <1>2, <1>3, <1>4
<1>6. \A p, q \in Objects : p \in ElementsOf(recipients[q]) <=> q \in senders[p]
  BY Lists DEF IInv, ConnectionsSymmetric
<1>7. \A q \in Objects : /\ NoRepeats(recipients'[q])
                        /\ ElementsOf(recipients'[q]) = ElementsOf(recipients[q]) \ {o}
  <2> TAKE q \in Objects
  <2>1. CASE q \in senders[o]
    BY <1>4, <2>1
  <2>2. CASE q \notin senders[o]
    <3>1. recipients'[q] = recipients[q] /\ o \notin ElementsOf(recipients[q])
      BY <1>1, <1>2, <1>6, <2>2
    <3> QED
      BY <3>1, Lists
  <2> QED
    BY <2>1, <2>2
<1>8. ElementsOf(recipients[o]) = {}
  BY <1>2 DEF ElementsOf
<1>9. \A p, q \in Objects : p \in ElementsOf(recipients'[q]) <=> q \in senders'[p]
  BY <1>1, <1>2, <1>3, <1>6, <1>7
<1>10. ConnectionsSymmetric'
  BY <1>7, <1>9 DEF ConnectionsSymmetric, Listeners, ElementsOf, NoRepeats
<1>11. NoDanglingConnection'
  <2>1. \A q \in Objects : Listeners(q) = ElementsOf(recipients[q])
                         /\ Listeners(q)' = ElementsOf(recipients'[q])
    BY DEF Listeners, ElementsOf
  <2>2. ASSUME NEW p \in Objects, p # o
        PROVE  /\ status'[p] = status[p] /\ senders'[p] = senders[p]
               /\ clearPtrs'[p] = clearPtrs[p]
               /\ Listeners(p)' \subseteq Listeners(p)
    BY <1>2, <1>3, <1>7, <2>1, <2>2
  <2>3. ASSUME NEW p \in Objects, p = o
        PROVE  senders'[p] = {} /\ clearPtrs'[p] = {} /\ Listeners(p)' = {}
    <3>1. senders'[p] = {} /\ clearPtrs'[p] = {}
      BY <1>1, <1>2, <1>3, <2>3
    <3>2. ElementsOf(recipients'[p]) = {}
      BY <1>7, <1>8, <2>3
    <3> QED
      BY <2>1, <3>1, <3>2
  <2> QED
    BY <2>2, <2>3 DEF IInv, NoDanglingConnection
<1>12. StackExact(stack', recipients')
  <2>1. ASSUME NEW k \in 1 .. n - 1
        PROVE  /\ FrameExact(after(stack[k]), recipients')
               /\ Alike(after(stack[k]), stack[k])
    <3> DEFINE f == stack[k]
               s == f.obj
    <3>1. FrameExact(f, recipients)
      BY <1>1 DEF StackExact, n
    <3>2. CASE s \in senders[o]
      <4> DEFINE g == AfterRemoveRecipient(f, s, o)
                 rt == [recipients EXCEPT ![s] = WithoutRecipient(s, o)]
      <4>1. s \in Objects
        BY <1>1, <1>3, <3>2
      <4>2. FrameExact(g, rt) /\ Alike(g, f)
        BY <1>1, <3>1, <3>2, <4>1, RemoveRecipientExact
      <4>3. rt \in [Objects -> Seq(Objects)] /\ rt[s] = recipients'[s]
        BY <1>3, <1>4, <3>2, <4>1
      <4>4. after(f) = g
        BY <3>2 DEF after
      <4> HIDE DEF g, rt
      <4> QED
        BY <1>5, <4>2, <4>3, <4>4, FrameLocal DEF Alike
    <3>3. CASE s \notin senders[o]
      <4> DEFINE g == AfterGoingAway(f, o)
      <4>1. Len(recipients[o]) = 0
        BY <1>2
      <4>2. FrameExact(g, recipients) /\ Alike(g, f) /\ ~ On(g, o)
        BY <1>1, <1>3, <3>1, <4>1, GoingAwayExact
      <4>3. after(f) = g
        BY <3>3 DEF after
      <4> HIDE DEF g
      <4>4. g.attached => recipients'[s] = recipients[s]
        BY <1>2, <3>3, <4>2 DEF FrameExact, Alike, On
      <4> QED
        BY <1>3, <1>5, <4>2, <4>3, <4>4, FrameLocal DEF Alike
    <3> QED
      BY <3>2, <3>3
  <2>2. stack' \in [1 .. n - 1 -> Frame]
    BY <1>2, <2>1 DEF FrameExact
  <2>3. \A k \in 1 .. n - 1 : /\ FrameExact(stack'[k], recipients')
                              /\ Alike(stack'[k], stack[k])
    BY <1>2, <2>1
  <2>4. n - 1 \in 1 .. Len(stack)
    BY <1>1, DepthAssumption DEF n
  <2> QED
    BY <1>1, <2>2, <2>3, <2>4, MapExact
<1>13. TypeOK'
  BY <1>5, <1>12 DEF TypeOK, StackExact
<1> QED
  BY <1>10, <1>11, <1>12, <1>13 DEF IInv

-----------------------------------------------------------------------------
\* Every step, and every stuttering step, keeps the invariant.
LEMMA NextIInv ==
    ASSUME IInv, [Next]_vars
    PROVE  IInv'
<1>1. ASSUME NEW o \in Objects, Create(o) \/ Delete(o) \/ Broadcast(o)
      PROVE  IInv'
  BY <1>1, CreateIInv, DeleteIInv, BroadcastIInv
<1>2. ASSUME NEW o \in Objects, NEW s \in Objects,
             ListenTo(o, s) \/ ClearWhenGoingAway(o, s) \/ StopListening(o, s)
      PROVE  IInv'
  BY <1>2, ListenToIInv, ClearWhenGoingAwayIInv, StopListeningIInv
<1>3. CASE Return
  BY <1>3, ReturnIInv
<1>4. CASE Deliver
  BY <1>4, DeliverIInv
<1>5. CASE EndBroadcast
  BY <1>5, EndBroadcastIInv
<1>6. CASE NotifyGoingAway
  BY <1>6, NotifyGoingAwayIInv
<1>7. CASE EndDelete
  BY <1>7, EndDeleteIInv
<1>8. CASE UNCHANGED vars
  BY <1>8, LinksUnchanged DEF vars, IInv, TypeOK
<1> QED
  BY <1>1, <1>2, <1>3, <1>4, <1>5, <1>6, <1>7, <1>8 DEF Next

\* In every reachable state the connections agree at both ends, name live objects
\* only, and every frame of the call stack is in order.
THEOREM Invariance == Spec => []IInv
<1>1. Init => IInv
  BY InitIInv
<1>2. IInv /\ [Next]_vars => IInv'
  BY NextIInv
<1> QED
  BY <1>1, <1>2, PTL DEF Spec

\* The state has its type in every reachable state.
THEOREM TypeCorrect == Spec => []TypeOK
<1>1. IInv => TypeOK
  BY DEF IInv
<1> QED
  BY <1>1, Invariance, PTL

\* AddSender and AddRecipient, RemoveSender and RemoveRecipient, and the two
\* halves of ~JBroadcaster never leave a connection known at one end only, or
\* known twice.
THEOREM ConnectionsAreSymmetric == Spec => []ConnectionsSymmetric
<1>1. IInv => ConnectionsSymmetric
  BY DEF IInv
<1> QED
  BY <1>1, Invariance, PTL

\* After ~JBroadcaster no list of recipients or senders holds the object, and a
\* registered pointer always has a sender that will set it to NULL.
THEOREM NoConnectionDangles == Spec => []NoDanglingConnection
<1>1. IInv => NoDanglingConnection
  BY DEF IInv
<1> QED
  BY <1>1, Invariance, PTL

\* However deep the re-entrancy, the JTaskIterator of a broadcast hands out
\* exactly the recipients the pass began with, but for those that left.
THEOREM PassesAreExact == Spec => []PassIsExact
<1>1. IInv => PassIsExact
  <2> SUFFICES ASSUME IInv, NEW k \in DOMAIN stack, stack[k].kind = "bcast"
               PROVE  Pending(stack[k])
                        = stack[k].start \ (stack[k].got \cup stack[k].gone)
    BY DEF PassIsExact
  <2>1. FrameExact(stack[k], recipients)
    BY TopFrame DEF IInv, StackExact
  <2> QED
    BY <2>1 DEF FrameExact, Pending, After
<1> QED
  BY <1>1, Invariance, PTL

-----------------------------------------------------------------------------
(* Broadcaster implements Multicast.                                       *)

\* What a frame owes, by the history of its pass alone.
Debt(f) == IF f.kind = "bcast"
           THEN {<<r, f.obj>> : r \in f.start \ (f.got \cup f.gone)}
           ELSE {}

Debts(st) == [k \in DOMAIN st |-> Debt(st[k])]

\* The value that Promise gives to `owed' of Multicast.
AllOwed == [k \in DOMAIN stack |-> Owed(stack[k])]

\* The pair of a recipient and a sender.
Pair == Objects \X Objects

\* The cursor of a frame in order stands in front of what its pass owes.
LEMMA OwedExact == IInv => AllOwed = Debts(stack)
<1> SUFFICES ASSUME IInv, NEW k \in DOMAIN stack
             PROVE  Owed(stack[k]) = Debt(stack[k])
  BY DEF AllOwed, Debts
<1>1. FrameExact(stack[k], recipients)
  BY TopFrame DEF IInv, StackExact
<1>2. Pending(stack[k]) = IF stack[k].kind = "bcast"
                          THEN stack[k].start \ (stack[k].got \cup stack[k].gone)
                          ELSE {}
  BY <1>1 DEF FrameExact, Pending, After
<1> QED
  BY <1>2 DEF Owed, Debt

\* The same in the next state.
LEMMA OwedExactNext == IInv' => AllOwed' = Debts(stack')
<1>1. (IInv => AllOwed = Debts(stack))'
  BY OwedExact, PTL
<1> QED
  BY <1>1 DEF Debts, Debt

\* The connections, as the senders' side knows them.
LEMMA ConnectionsBySender == IInv => Connections = {c \in Pair : c[2] \in senders[c[1]]}
BY DEF IInv, ConnectionsSymmetric, Connections, Pair

\* The same in the next state.
LEMMA ConnectionsBySenderNext ==
    IInv' => Connections' = {c \in Pair : c[2] \in senders'[c[1]]}
<1>1. (IInv => Connections = {c \in Pair : c[2] \in senders[c[1]]})'
  BY ConnectionsBySender, PTL
<1> QED
  BY <1>1 DEF Pair

\* A stack in order owes sets of pairs, one set for each frame.
LEMMA DebtsSeq ==
    ASSUME NEW st, NEW rs, StackExact(st, rs)
    PROVE  /\ Debts(st) \in Seq(SUBSET Pair)
           /\ Len(Debts(st)) = Len(st)
           /\ DOMAIN Debts(st) = 1 .. Len(st)
           /\ DOMAIN st = 1 .. Len(st)
           /\ Len(st) \in Nat
           /\ \A k \in 1 .. Len(st) : Debts(st)[k] = Debt(st[k]) /\ Debt(st[k]) \subseteq Pair
<1>1. st \in Seq(Frame) /\ \A k \in 1 .. Len(st) : FrameExact(st[k], rs)
  BY DEF StackExact
<1>2. Len(st) \in Nat /\ DOMAIN st = 1 .. Len(st)
  BY <1>1, LenProperties
<1>3. \A k \in 1 .. Len(st) : Debt(st[k]) \in SUBSET Pair
  BY <1>1 DEF FrameExact, Frame, Debt, Pair
<1>4. Debts(st) \in [1 .. Len(st) -> SUBSET Pair]
  BY <1>2, <1>3 DEF Debts
<1> QED
  BY <1>2, <1>3, <1>4, FunctionIsSeq DEF Debts

\* Calling a frame appends what it owes.
LEMMA DebtsPush ==
    ASSUME NEW st, NEW rs, StackExact(st, rs), NEW f, FrameExact(f, rs)
    PROVE  Debts(Append(st, f)) = Append(Debts(st), Debt(f))
<1> DEFINE n == Len(st)
           d == Append(Debts(st), Debt(f))
           su == Append(st, f)
<1>1. /\ n \in Nat
      /\ Debts(st) \in Seq(SUBSET Pair) /\ Len(Debts(st)) = n
      /\ \A k \in 1 .. n : Debts(st)[k] = Debt(st[k])
  BY DebtsSeq
<1>2. Debt(f) \in SUBSET Pair /\ f \in Frame /\ st \in Seq(Frame)
  BY DEF Debt, FrameExact, Frame, Pair, StackExact
<1>3. /\ DOMAIN su = 1 .. n + 1
      /\ su[n + 1] = f
      /\ \A k \in 1 .. n : su[k] = st[k]
  BY <1>1, <1>2, AppendProperties, LenProperties
<1>4. /\ d \in Seq(SUBSET Pair) /\ Len(d) = n + 1
      /\ d[n + 1] = Debt(f)
      /\ \A k \in 1 .. n : d[k] = Debts(st)[k]
  BY <1>1, <1>2, AppendProperties
<1> HIDE DEF d, su, n
<1>5. d = [k \in 1 .. n + 1 |-> d[k]]
  BY <1>1, <1>4, LenProperties
<1>6. ASSUME NEW k \in 1 .. n + 1
      PROVE  d[k] = Debt(su[k])
  <2>1. k = n + 1 \/ k \in 1 .. n
    BY <1>1
  <2> QED
    BY <1>1, <1>3, <1>4, <2>1
<1>7. d = Debts(su)
  BY <1>3, <1>5, <1>6 DEF Debts
<1> QED
  BY <1>7 DEF d, su

\* Returning drops what the innermost frame owes.
LEMMA DebtsPop ==
    ASSUME NEW st, NEW rs, StackExact(st, rs)
    PROVE  Debts(SubSeq(st, 1, Len(st) - 1)) = SubSeq(Debts(st), 1, Len(st) - 1)
<1> DEFINE n == Len(st) - 1
<1>1. /\ Len(st) \in Nat /\ DOMAIN st = 1 .. Len(st)
      /\ Len(Debts(st)) = Len(st)
      /\ \A k \in 1 .. Len(st) : Debts(st)[k] = Debt(st[k])
  BY DebtsSeq
<1>2. Len(st) >= 1
  BY DEF StackExact
<1>3. SubSeq(st, 1, n) = [k \in 1 .. n |-> st[k]]
  BY <1>1, <1>2, SMTT(30)
<1>4. SubSeq(Debts(st), 1, n) = [k \in 1 .. n |-> Debts(st)[k]]
  BY <1>1, <1>2, SMTT(30)
<1> QED
  BY <1>1, <1>2, <1>3, <1>4 DEF Debts

\* AddRecipient changes no debt.
LEMMA DebtAfterInsert ==
    ASSUME NEW f \in Frame, NEW s
    PROVE  Debt(AfterInsert(f, s)) = Debt(f)
BY DEF AfterInsert, On, Debt, Frame

\* Nor does deleting a list.
LEMMA DebtAfterGoingAway ==
    ASSUME NEW f \in Frame, NEW s
    PROVE  Debt(AfterGoingAway(f, s)) = Debt(f)
BY DEF AfterGoingAway, On, Debt, Frame

\* Removing a recipient strikes its connection from every debt, and nothing else.
LEMMA DebtAfterRemove ==
    ASSUME NEW rs, NEW f, FrameExact(f, rs), NEW s, NEW o \in Objects, NEW i
    PROVE  Debt(AfterRemove(f, s, i, o)) = Debt(f) \ {<<o, s>>}
<1>1. f \in Frame
  BY DEF FrameExact
<1>2. CASE ~ On(f, s)
  <2>1. <<o, s>> \notin Debt(f)
    BY <1>1, <1>2 DEF On, Debt, FrameExact
  <2> QED
    BY <1>2, <2>1 DEF AfterRemove
<1>3. CASE On(f, s)
  <2> DEFINE g == AfterRemove(f, s, i, o)
  <2>1. /\ f.kind = "bcast" /\ f.obj = s
        /\ g.kind = f.kind /\ g.obj = s
        /\ g.start = f.start /\ g.got = f.got /\ g.gone = f.gone \cup {o}
    BY <1>1, <1>3 DEF AfterRemove, On, FrameExact, Frame
  <2> HIDE DEF g
  <2> QED
    BY <2>1 DEF Debt, g
<1> QED
  BY <1>2, <1>3

\* RemoveRecipient does the same, whether it deletes the list or not.
LEMMA DebtAfterRemoveRecipient ==
    ASSUME IInv, NEW f, FrameExact(f, recipients), NEW s \in Objects, NEW o \in Objects,
           s \in senders[o]
    PROVE  Debt(AfterRemoveRecipient(f, s, o)) = Debt(f) \ {<<o, s>>}
<1> DEFINE g == AfterRemove(f, s, IndexOf(s, o), o)
<1>1. Debt(g) = Debt(f) \ {<<o, s>>}
  BY DebtAfterRemove
<1>2. g \in Frame
  <2>1. IndexOf(s, o) \in 1 .. Len(recipients[s]) /\ recipients[s][IndexOf(s, o)] = o
    BY IndexOfRecipient
  <2>2. recipients \in [Objects -> Seq(Objects)] /\ NoRepeats(recipients[s])
    BY Lists DEF IInv, TypeOK
  <2>3. FrameExact(AfterRemove(f, s, IndexOf(s, o), recipients[s][IndexOf(s, o)]),
                   [recipients EXCEPT ![s] = RemoveAt(@, IndexOf(s, o))])
    BY <2>1, <2>2, RemoveExact
  <2> QED
    BY <2>1, <2>3 DEF FrameExact
<1> HIDE DEF g
<1>3. Debt(AfterGoingAway(g, s)) = Debt(g)
  BY <1>2, DebtAfterGoingAway
<1> QED
  BY <1>1, <1>3 DEF AfterRemoveRecipient, g

\* Lists that do not change leave connections that do not change.
LEMMA SameConnections ==
    ASSUME UNCHANGED recipients
    PROVE  Connections' = Connections
BY DEF Connections, Listeners

\* The variables of Multicast, as Promise gives them values.
PromiseVars == <<Connections, AllOwed>>

\* The constructor is no step of the promise.
LEMMA CreateKeeps ==
    ASSUME IInv, IInv', NEW o \in Objects, Create(o)
    PROVE  UNCHANGED PromiseVars
<1>1. UNCHANGED <<recipients, stack>>
  BY DEF Create
<1>2. AllOwed' = AllOwed
  BY <1>1, OwedExact, OwedExactNext
<1> QED
  BY <1>1, <1>2, SameConnections DEF PromiseVars

\* A destructor that begins is a call.
LEMMA DeleteKeeps ==
    ASSUME IInv, IInv', NEW o \in Objects, Delete(o)
    PROVE  Promise!Call
<1>1. StackExact(stack, recipients) /\ FrameExact(DtorFrame(o), recipients)
  BY DEF IInv, FrameExact, DtorFrame, UserFrame, Frame
<1>2. Debt(DtorFrame(o)) = {}
  BY DEF Debt, DtorFrame, UserFrame
<1>3. AllOwed' = Append(AllOwed, {})
  BY <1>1, <1>2, DebtsPush, OwedExact, OwedExactNext DEF Delete
<1>4. Connections' = Connections
  BY SameConnections DEF Delete
<1> QED
  BY <1>3, <1>4 DEF Promise!Call, AllOwed

\* Broadcast begins a pass that owes the message to all the recipients.
LEMMA BroadcastKeeps ==
    ASSUME IInv, IInv', NEW s \in Objects, Broadcast(s)
    PROVE  Promise!StartPass(s)
<1> DEFINE f == BcastFrame(s, Listeners(s))
           due == {c \in Connections : c[2] = s}
<1>0. Listeners(s) \subseteq Objects /\ Listeners(s) = ElementsOf(recipients[s])
  BY Lists
<1>1. /\ f \in Frame /\ f.kind = "bcast" /\ f.obj = s
      /\ f.start = Listeners(s) /\ f.got = {} /\ f.gone = {} /\ f.attached /\ f.cursor = 0
  BY <1>0 DEF BcastFrame, UserFrame, Frame
<1>2. After(recipients[s], 0) = Listeners(s)
  BY <1>0 DEF After, ElementsOf
<1> HIDE DEF f
<1>3. FrameExact(f, recipients)
  BY <1>1, <1>2, Lists DEF FrameExact
<1>4. Debt(f) = {<<r, s>> : r \in Listeners(s)}
  BY <1>1 DEF Debt
<1>5. Debt(f) = due
  BY <1>0, <1>4 DEF Connections
<1>6. StackExact(stack, recipients) /\ stack' = Append(stack, f)
  BY DEF IInv, Broadcast, f
<1>7. AllOwed' = Append(AllOwed, due)
  BY <1>3, <1>5, <1>6, DebtsPush, OwedExact, OwedExactNext
<1>8. Connections' = Connections
  BY SameConnections DEF Broadcast, links
<1>9. \E r \in Objects : <<r, s>> \in Connections
  <2>1. recipients[s] \in Seq(Objects) /\ recipients[s] # <<>>
    BY Lists DEF Broadcast
  <2>2. recipients[s][1] \in Listeners(s)
    BY <2>1, Lists DEF Listeners
  <2> QED
    BY <1>0, <2>2 DEF Connections
<1> QED
  BY <1>7, <1>8, <1>9 DEF Promise!StartPass, AllOwed

\* An activation that owes nothing returns.
LEMMA PopKeeps ==
    ASSUME IInv, IInv', Len(stack) > 1, Owed(Top) = {}, stack' = Pop, UNCHANGED links
    PROVE  Promise!Return
<1>1. StackExact(stack, recipients)
  BY DEF IInv
<1>2. AllOwed' = SubSeq(AllOwed, 1, Len(stack) - 1)
  BY <1>1, DebtsPop, OwedExact, OwedExactNext DEF Pop
<1>3. Len(AllOwed) = Len(stack) /\ DOMAIN stack = 1 .. Len(stack) /\ Len(stack) \in Nat
  BY <1>1, DebtsSeq, OwedExact
<1>4. AllOwed[Len(stack)] = {}
  BY <1>3 DEF AllOwed, Top
<1>5. Connections' = Connections
  BY SameConnections DEF links
<1> QED
  BY <1>2, <1>3, <1>4, <1>5 DEF Promise!Return, AllOwed

\* Application code owes nothing when it returns.
LEMMA ReturnKeeps ==
    ASSUME IInv, IInv', Return
    PROVE  Promise!Return
<1>1. ~ Top.attached
  BY TopFrame DEF Return, Running, FrameExact
<1>2. Owed(Top) = {}
  BY <1>1 DEF Owed, Pending
<1> QED
  BY <1>2, PopKeeps DEF Return

\* A pass whose iterator has no more has sent all it owed.
LEMMA EndBroadcastKeeps ==
    ASSUME IInv, IInv', EndBroadcast
    PROVE  Promise!Return
<1>1. AtEnd(Top) /\ Top.kind = "bcast" /\ Top \in Frame /\ Top.obj \in Objects /\ Len(stack) > 1
  BY TopFrame DEF EndBroadcast
<1>2. Pending(Top) = {}
  <2>1. Len(recipients[Top.obj]) \in Nat /\ Top.cursor \in Nat
    BY <1>1, Lists DEF Frame
  <2> QED
    BY <1>1, <2>1 DEF Pending, AtEnd
<1>3. Owed(Top) = {}
  BY <1>2 DEF Owed
<1> QED
  BY <1>1, <1>3, PopKeeps DEF EndBroadcast

\* The frame of a callee, if it is called at all, owes nothing.
LEMMA DebtsCalled ==
    ASSUME NEW st, NEW rs \in [Objects -> Seq(Objects)], StackExact(st, rs), NEW r
    PROVE  \/ Debts(Called(r, st)) = Debts(st)
           \/ Debts(Called(r, st)) = Append(Debts(st), {})
<1>1. FrameExact(UserFrame, rs) /\ Debt(UserFrame) = {}
  BY UserFrameExact DEF Debt, UserFrame
<1>2. Debts(Append(st, UserFrame)) = Append(Debts(st), {})
  BY <1>1, DebtsPush
<1> QED
  BY <1>2 DEF Called

\* A new connection joins, and no pass that is running owes it anything.
LEMMA ConnectKeeps ==
    ASSUME IInv, IInv', NEW o \in Objects, NEW s \in Objects, s \notin senders[o], Connect(o, s)
    PROVE  Promise!Join(<<o, s>>)
<1>1. Connections' = Connections \cup {<<o, s>>}
  <2>1. /\ senders \in [Objects -> SUBSET Objects]
        /\ senders' = [senders EXCEPT ![o] = @ \cup {s}]
    BY DEF IInv, TypeOK, Connect
  <2>2. \A c \in Pair : c[2] \in senders'[c[1]] <=> c[2] \in senders[c[1]] \/ c = <<o, s>>
    BY <2>1 DEF Pair
  <2>3. <<o, s>> \in Pair
    BY DEF Pair
  <2> QED
    BY <2>2, <2>3, ConnectionsBySender, ConnectionsBySenderNext
<1>2. <<o, s>> \notin Connections
  BY ConnectionsBySender
<1>3. AllOwed' = AllOwed
  <2>1. DOMAIN stack' = DOMAIN stack
    BY DEF Connect
  <2>2. ASSUME NEW k \in DOMAIN stack
        PROVE  Debt(stack'[k]) = Debt(stack[k])
    <3>1. stack[k] \in Frame /\ stack'[k] = AfterInsert(stack[k], s)
      BY TopFrame, ElementOfSeq DEF Connect
    <3> QED
      BY <3>1, DebtAfterInsert
  <2> QED
    BY <2>1, <2>2, OwedExact, OwedExactNext DEF Debts
<1> QED
  BY <1>1, <1>2, <1>3 DEF Promise!Join, AllOwed

\* ListenTo makes one connection.
LEMMA ListenToKeeps ==
    ASSUME IInv, IInv', NEW o \in Objects, NEW s \in Objects, ListenTo(o, s)
    PROVE  Promise!Join(<<o, s>>)
BY ConnectKeeps DEF ListenTo

\* ClearWhenGoingAway makes the connection unless there is one.
LEMMA ClearWhenGoingAwayKeeps ==
    ASSUME IInv, IInv', NEW o \in Objects, NEW s \in Objects, ClearWhenGoingAway(o, s)
    PROVE  Promise!Join(<<o, s>>) \/ UNCHANGED PromiseVars
<1>1. CASE s \notin senders[o]
  BY <1>1, ConnectKeeps DEF ClearWhenGoingAway
<1>2. CASE s \in senders[o]
  <2>1. UNCHANGED <<recipients, stack>>
    BY <1>2 DEF ClearWhenGoingAway
  <2>2. AllOwed' = AllOwed
    BY <2>1, OwedExact, OwedExactNext
  <2> QED
    BY <2>1, <2>2, SameConnections DEF PromiseVars
<1> QED
  BY <1>1, <1>2

\* The connection that breaks is the one its recipient loses a sender by.
LEMMA DisconnectKeeps ==
    ASSUME IInv, IInv', NEW o \in Objects, NEW s \in Objects, s \in senders[o],
           senders' = [senders EXCEPT ![o] = @ \ {s}]
    PROVE  /\ <<o, s>> \in Connections
           /\ Connections' = Connections \ {<<o, s>>}
<1>1. senders \in [Objects -> SUBSET Objects]
  BY DEF IInv, TypeOK
<1>2. \A c \in Pair : c[2] \in senders'[c[1]] <=> c[2] \in senders[c[1]] /\ c # <<o, s>>
  BY <1>1 DEF Pair
<1>3. <<o, s>> \in Pair
  BY DEF Pair
<1> QED
  BY <1>2, <1>3, ConnectionsBySender, ConnectionsBySenderNext

\* StopListening breaks one connection, in every pass that owes it the message.
LEMMA StopListeningKeeps ==
    ASSUME IInv, IInv', NEW o \in Objects, NEW s \in Objects, StopListening(o, s)
    PROVE  Promise!Leave(<<o, s>>)
<1>1. s \in senders[o] /\ senders' = [senders EXCEPT ![o] = @ \ {s}]
  BY DEF StopListening
<1>2. <<o, s>> \in Connections /\ Connections' = Connections \ {<<o, s>>}
  BY <1>1, DisconnectKeeps
<1>3. AllOwed' = [k \in DOMAIN AllOwed |-> AllOwed[k] \ {<<o, s>>}]
  <2>1. DOMAIN stack' = DOMAIN stack
    BY DEF StopListening
  <2>2. ASSUME NEW k \in DOMAIN stack
        PROVE  Debt(stack'[k]) = Debt(stack[k]) \ {<<o, s>>}
    <3>1. stack'[k] = AfterRemoveRecipient(stack[k], s, o)
      BY DEF StopListening
    <3>2. FrameExact(stack[k], recipients)
      BY TopFrame DEF IInv, StackExact
    <3> QED
      BY <1>1, <3>1, <3>2, DebtAfterRemoveRecipient
  <2> QED
    BY <2>1, <2>2, OwedExact, OwedExactNext DEF Debts
<1> QED
  BY <1>2, <1>3 DEF Promise!Leave, Promise!Leaving, Promise!Without, AllOwed

\* Next hands the message to a connection the pass owes it to.
LEMMA DeliverKeeps ==
    ASSUME IInv, IInv', Deliver
    PROVE  \E c \in Pair : Promise!Deliver(c)
<1> DEFINE n == Len(stack)
<1>1. /\ DOMAIN stack = 1 .. n /\ n \in DOMAIN stack
      /\ Top.kind = "bcast" /\ Top.obj \in Objects
      /\ recipients \in [Objects -> Seq(Objects)]
  BY TopFrame DEF Deliver
<1>2. PICK r \in Pending(Top), g \in Frame :
         /\ g.kind = "bcast" /\ g.obj = Top.obj
         /\ g.start = Top.start /\ g.got = Top.got \cup {r} /\ g.gone = Top.gone
         /\ stack' = Called(r, [stack EXCEPT ![n] = g])
         /\ StackExact([stack EXCEPT ![n] = g], recipients)
  BY NextExact
<1> DEFINE c == <<r, Top.obj>>
           st == [stack EXCEPT ![n] = g]
           rest == [k \in DOMAIN AllOwed |->
                       IF k = Len(AllOwed) THEN AllOwed[k] \ {c} ELSE AllOwed[k]]
<1>3. Len(AllOwed) = n /\ DOMAIN AllOwed = 1 .. n
      /\ \A k \in 1 .. n : AllOwed[k] = Debt(stack[k]) /\ Debt(stack[k]) \subseteq Pair
  BY DebtsSeq, OwedExact DEF IInv
<1>4. c \in AllOwed[Len(AllOwed)]
  BY <1>1, <1>2, <1>3 DEF AllOwed, Owed, Top
<1>5. c \in Pair
  BY <1>1, <1>3, <1>4
<1>6. Debt(g) = Debt(Top) \ {c}
  BY <1>1, <1>2 DEF Debt
<1>7. Debts(st) = rest
  BY <1>1, <1>3, <1>6 DEF Debts, Top
<1>8. AllOwed' = Debts(st) \/ AllOwed' = Append(Debts(st), {})
  BY <1>1, <1>2, DebtsCalled, OwedExactNext
<1>9. Connections' = Connections
  BY SameConnections DEF Deliver, links
<1> HIDE DEF c, st
<1>10. Promise!Deliver(c)
  BY <1>4, <1>7, <1>8, <1>9 DEF Promise!Deliver, Promise!Leaving, AllOwed
<1> QED
  BY <1>5, <1>10

\* One turn of the destructor's loop breaks one connection.
LEMMA NotifyGoingAwayKeeps ==
    ASSUME IInv, IInv', NotifyGoingAway
    PROVE  \E c \in Pair : Promise!Leave(c)
<1> DEFINE o == Top.obj
           m == Len(recipients[o])
           r == recipients[o][m]
           n == Len(stack)
           st == [k \in DOMAIN stack |-> AfterRemove(stack[k], o, m, r)]
           c == <<r, o>>
<1>1. /\ o \in Objects /\ DOMAIN stack = 1 .. n /\ n \in 1 .. n
      /\ StackExact(stack, recipients)
      /\ \A k \in 1 .. n : FrameExact(stack[k], recipients)
  BY TopFrame DEF NotifyGoingAway, IInv, StackExact
<1>2. /\ recipients[o] \in Seq(Objects) /\ NoRepeats(recipients[o])
      /\ m \in 1 .. Len(recipients[o]) /\ r \in Listeners(o)
  <2>1. recipients[o] \in Seq(Objects) /\ m \in Nat /\ m > 0 /\ NoRepeats(recipients[o])
    BY <1>1, Lists DEF NotifyGoingAway
  <2>2. m \in DOMAIN recipients[o]
    BY <1>1, <2>1, Lists
  <2> QED
    BY <2>1, <2>2 DEF Listeners
<1>3. r \in Objects /\ o \in senders[r]
  <2>1. r \in Objects
    BY <1>1, <1>2, Lists
  <2> QED
    BY <1>1, <1>2, <2>1 DEF IInv, ConnectionsSymmetric
<1>4. /\ senders' = [senders EXCEPT ![r] = @ \ {o}]
      /\ recipients' = [recipients EXCEPT ![o] = RemoveAt(@, m)]
      /\ stack' = Called(r, st)
  BY DEF NotifyGoingAway
<1>5. c \in Connections /\ Connections' = Connections \ {c}
  BY <1>1, <1>3, <1>4, DisconnectKeeps
<1>6. Debts(st) = [k \in DOMAIN AllOwed |-> AllOwed[k] \ {c}]
  <2> HIDE DEF o, m, r
  <2>1. \A k \in 1 .. n : Debt(st[k]) = Debt(stack[k]) \ {c}
    BY <1>1, <1>3, DebtAfterRemove
  <2> QED
    BY <1>1, <2>1, OwedExact DEF Debts
<1>7. /\ recipients' \in [Objects -> Seq(Objects)]
      /\ StackExact(st, recipients')
  <2>1. recipients' \in [Objects -> Seq(Objects)] /\ recipients \in [Objects -> Seq(Objects)]
    BY DEF IInv, TypeOK
  <2> HIDE DEF o, m, n
  <2>2. \A k \in 1 .. n : /\ FrameExact(AfterRemove(stack[k], o, m, recipients[o][m]), recipients')
                          /\ Alike(AfterRemove(stack[k], o, m, recipients[o][m]), stack[k])
    BY <1>1, <1>2, <1>4, <2>1, RemoveExact
  <2>3. st \in [1 .. n -> Frame]
    BY <1>1, <2>2 DEF FrameExact
  <2>4. \A k \in 1 .. n : FrameExact(st[k], recipients') /\ Alike(st[k], stack[k])
    BY <1>1, <2>2
  <2>5. n \in 1 .. Len(stack)
    BY <1>1 DEF n
  <2> HIDE DEF st
  <2> QED
    BY <1>1, <2>1, <2>3, <2>4, <2>5, MapExact
<1> HIDE DEF st, c
<1>8. AllOwed' = Debts(st) \/ AllOwed' = Append(Debts(st), {})
  BY <1>4, <1>7, DebtsCalled, OwedExactNext
<1>9. Promise!Leave(c)
  BY <1>5, <1>6, <1>8 DEF Promise!Leave, Promise!Leaving, Promise!Without, AllOwed
<1> QED
  BY <1>1, <1>3, <1>9 DEF c, Pair

\* The end of the destructor breaks the object's connections to its senders, the
\* last it had, and returns.
LEMMA EndDeleteKeeps ==
    ASSUME IInv, IInv', EndDelete
    PROVE  \E o \in Objects : Promise!Vanish(o)
<1> DEFINE o == Top.obj
           n == Len(stack)
           gone == {c \in Connections : o \in {c[1], c[2]}}
           left == [k \in DOMAIN AllOwed |-> AllOwed[k] \ gone]
<1>1. /\ o \in Objects /\ DOMAIN stack = 1 .. n /\ n \in Nat /\ n > 1
      /\ StackExact(stack, recipients)
      /\ \A k \in 1 .. n : FrameExact(stack[k], recipients)
  BY TopFrame DEF EndDelete, IInv, StackExact
<1>2. /\ recipients[o] = <<>>
      /\ senders' = [senders EXCEPT ![o] = {}]
      /\ senders \in [Objects -> SUBSET Objects]
      /\ DOMAIN stack' = 1 .. n - 1
      /\ \A k \in 1 .. n - 1 :
            stack'[k] = IF stack[k].obj \in senders[o]
                        THEN AfterRemoveRecipient(stack[k], stack[k].obj, o)
                        ELSE AfterGoingAway(stack[k], o)
  BY DEF EndDelete, IInv, TypeOK
<1>3. gone = {c \in Pair : c[1] = o /\ c[2] \in senders[o]}
  <2>1. \A r \in Objects : o \notin senders[r]
    BY <1>1, <1>2 DEF IInv, ConnectionsSymmetric, Listeners
  <2>2. gone = {c \in Pair : c[2] \in senders[c[1]] /\ o \in {c[1], c[2]}}
    BY ConnectionsBySender
  <2> QED
    BY <2>1, <2>2 DEF Pair
<1>4. Connections' = Connections \ gone
  <2>1. \A c \in Pair : c[2] \in senders'[c[1]] <=> c[2] \in senders[c[1]] /\ c[1] # o
    BY <1>1, <1>2 DEF Pair
  <2>2. \A c \in Pair : c \in gone <=> c[1] = o /\ c[2] \in senders[o]
    BY <1>3
  <2> QED
    BY <2>1, <2>2, ConnectionsBySender, ConnectionsBySenderNext
<1> HIDE DEF o, n, gone
<1>5. ASSUME NEW k \in 1 .. n - 1
      PROVE  Debt(stack'[k]) = Debt(stack[k]) \ gone
  <2> DEFINE f == stack[k]
  <2>1. FrameExact(f, recipients) /\ f \in Frame
    BY <1>1 DEF FrameExact
  <2>2. \A c \in Debt(f) : c[2] = f.obj
    BY DEF Debt
  <2>3. CASE f.obj \in senders[o]
    <3>1. f.obj \in Objects
      BY <1>1, <1>2, <2>3
    <3>2. Debt(stack'[k]) = Debt(f) \ {<<o, f.obj>>}
      BY <1>1, <1>2, <2>1, <2>3, <3>1, DebtAfterRemoveRecipient
    <3>3. Debt(f) \subseteq Pair
      BY <2>1 DEF FrameExact, Frame, Debt, Pair
    <3>4. \A c \in Debt(f) : c \in gone <=> c = <<o, f.obj>>
      BY <1>3, <2>2, <2>3, <3>3 DEF Pair
    <3> QED
      BY <3>2, <3>4
  <2>4. CASE f.obj \notin senders[o]
    <3>1. Debt(stack'[k]) = Debt(f)
      BY <1>2, <2>1, <2>4, DebtAfterGoingAway
    <3>2. \A c \in Debt(f) : c \notin gone
      BY <1>3, <2>2, <2>4
    <3> QED
      BY <3>1, <3>2
  <2> QED
    BY <2>3, <2>4
<1>6. /\ Len(AllOwed) = n /\ DOMAIN AllOwed = 1 .. n
      /\ \A k \in 1 .. n : AllOwed[k] = Debt(stack[k])
  BY <1>1, DebtsSeq, OwedExact DEF n
<1>7. AllOwed' = [k \in 1 .. n - 1 |-> left[k]]
  <2>1. AllOwed' = [k \in 1 .. n - 1 |-> Debt(stack'[k])]
    BY <1>2, OwedExactNext DEF Debts
  <2>2. ASSUME NEW k \in 1 .. n - 1
        PROVE  left[k] = Debt(stack'[k])
    <3>1. k \in 1 .. n
      BY <1>1
    <3>2. left[k] = AllOwed[k] \ gone /\ AllOwed[k] = Debt(stack[k])
      BY <1>6, <3>1
    <3> QED
      BY <1>5, <3>2
  <2> HIDE DEF left
  <2> QED
    BY <2>1, <2>2
<1>8. SubSeq(left, 1, n - 1) = [k \in 1 .. n - 1 |-> left[k]]
  BY <1>1, <1>6, SMTT(30)
<1>9. AllOwed' = SubSeq(left, 1, Len(AllOwed) - 1) /\ Len(AllOwed) > 1
  BY <1>1, <1>6, <1>7, <1>8
<1> HIDE DEF left
<1>10. Promise!Vanish(o)
  <2> USE DEF left, gone
  <2> QED
    BY <1>4, <1>9 DEF Promise!Vanish, Promise!Without, AllOwed
<1> QED
  BY <1>1, <1>10

\* Every step of the code is a step of the promise, or none.
LEMMA NextKeeps ==
    ASSUME IInv, IInv', [Next]_vars
    PROVE  [Promise!Next]_PromiseVars
<1>1. ASSUME NEW o \in Objects, Create(o) \/ Delete(o) \/ Broadcast(o)
      PROVE  [Promise!Next]_PromiseVars
  BY <1>1, CreateKeeps, DeleteKeeps, BroadcastKeeps DEF Promise!Next
<1>2. ASSUME NEW o \in Objects, NEW s \in Objects,
             ListenTo(o, s) \/ ClearWhenGoingAway(o, s) \/ StopListening(o, s)
      PROVE  [Promise!Next]_PromiseVars
  <2>1. <<o, s>> \in Promise!Connection
    BY DEF Promise!Connection
  <2>2. CASE ListenTo(o, s)
    BY <2>1, <2>2, ListenToKeeps DEF Promise!Next
  <2>3. CASE ClearWhenGoingAway(o, s)
    BY <2>1, <2>3, ClearWhenGoingAwayKeeps DEF Promise!Next
  <2>4. CASE StopListening(o, s)
    BY <2>1, <2>4, StopListeningKeeps DEF Promise!Next
  <2> QED
    BY <1>2, <2>2, <2>3, <2>4
<1>3. CASE Return
  BY <1>3, ReturnKeeps DEF Promise!Next
<1>4. CASE Deliver
  BY <1>4, DeliverKeeps DEF Promise!Next, Promise!Connection, Pair
<1>5. CASE EndBroadcast
  BY <1>5, EndBroadcastKeeps DEF Promise!Next
<1>6. CASE NotifyGoingAway
  BY <1>6, NotifyGoingAwayKeeps DEF Promise!Next, Promise!Connection, Pair
<1>7. CASE EndDelete
  BY <1>7, EndDeleteKeeps DEF Promise!Next
<1>8. CASE UNCHANGED vars
  BY <1>8 DEF vars, PromiseVars, Connections, Listeners, AllOwed, Owed, Pending
<1> QED
  BY <1>1, <1>2, <1>3, <1>4, <1>5, <1>6, <1>7, <1>8 DEF Next

\* Nobody is connected and nothing is owed when the program starts.
LEMMA InitKeeps == Init => Promise!Init
<1> SUFFICES ASSUME Init
             PROVE  Promise!Init
  OBVIOUS
<1>1. Connections = {}
  BY DEF Init, Connections, Listeners
<1>2. AllOwed = <<{}>>
  <2>1. stack = <<UserFrame>> /\ DOMAIN stack = {1} /\ Owed(stack[1]) = {}
    BY DEF Init, UserFrame, Owed, Pending
  <2>2. DOMAIN <<{}>> = {1} /\ <<{}>>[1] = {}
    OBVIOUS
  <2> QED
    BY <2>1, <2>2 DEF AllOwed
<1> QED
  BY <1>1, <1>2 DEF Promise!Init, AllOwed

\* JBroadcaster, with its lists, cursors, re-entrant calls and destructors, does what
\* Multicast promises: a pass ends when each connection its sender had at the start
\* has had the message or has broken, and no message goes anywhere else.
THEOREM ImplementsMulticast == Spec => KeepsPromise
<1>1. Init => Promise!Init
  BY InitKeeps
<1>2. IInv /\ IInv' /\ [Next]_vars
        => [Promise!Next]_<<Connections, [k \in DOMAIN stack |-> Owed(stack[k])]>>
  BY NextKeeps DEF PromiseVars, AllOwed
<1> QED
  BY <1>1, <1>2, Invariance, PTL DEF Spec, KeepsPromise, Promise!Spec
=============================================================================
