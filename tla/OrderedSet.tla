----------------------------- MODULE OrderedSet -----------------------------
(***************************************************************************)
(* JArray, as every JOrderedSet: an ordered set that keeps its listeners   *)
(* and its iterators informed (libjcore/code/JArray.tmpl, JOrderedSet.tmpl,*)
(* JOrderedSetIterator.tmpl, JTaskIterator.tmpl, JOrderedSetT.cpp).        *)
(*                                                                         *)
(* A change is made in three steps: the elements change; the message is    *)
(* broadcast, one listener after the other; then the iterators are told.   *)
(* Listeners are application code: before the iterators and the remaining  *)
(* listeners hear of one change, a listener may make another one, or use   *)
(* an iterator.  A change under way is a record on `stack', innermost      *)
(* last.                                                                   *)
(*                                                                         *)
(* Every listener keeps one index into the set up to date with             *)
(* AdjustIndex, as the tables and trees of libjx do.                       *)
(***************************************************************************)
EXTENDS Integers, SequencesExt, IteratorCursor

CONSTANTS
    Elements,      \* the values that may be in the set; no two are equal
    NoElement,
    Listeners,     \* the number of listeners, told in the order 1 .. Listeners
    Iterators,
    MaxNesting     \* bound on the changes under way at one time

ASSUME ElementsAssumption == NoElement \notin Elements
ASSUME BoundsAssumption   == Listeners \in Nat /\ MaxNesting \in Nat \ {0}

VARIABLES
    elements,  \* the elements, in order
    stack,     \* the changes that have been made but not completely announced
    tracked,   \* per listener, the index it keeps (0: its element was removed)
    watched,   \* history: the element that index stands for, NoElement once removed
    iterator   \* per iterator, its cursor, and the history of its pass

vars == <<elements, stack, tracked, watched, iterator>>

N == Len(elements)
Contents == {elements[i] : i \in 1 .. N}

\* JOrderedSetT::ElementsInserted, ElementsRemoved, ElementMoved,
\* ElementsSwapped, ElementChanged, and how far its broadcast has got: `told'
\* listeners have been called, and the last of them is still running if `busy'.
Change == [what : {"inserted", "removed", "moved", "swapped", "changed"},
           first : Nat, second : Nat, told : 0 .. Listeners, busy : BOOLEAN]

\* An iterator in use.  `start' is history: the elements that have been in the
\* set, and not moved, since the pass began; `got' are those of them that have
\* been passed.
Iterator == [on : BOOLEAN, task : BOOLEAN, cursor : Nat,
             start : SUBSET Elements, got : SUBSET Elements]

Idle == [on |-> FALSE, task |-> FALSE, cursor |-> 0, start |-> {}, got |-> {}]

TypeOK ==
    /\ elements \in Seq(Elements)
    /\ stack \in Seq(Change) /\ Len(stack) <= MaxNesting
    /\ tracked \in [1 .. Listeners -> Nat]
    /\ watched \in [1 .. Listeners -> Elements \cup {NoElement}]
    /\ iterator \in [Iterators -> Iterator]

Init ==
    /\ elements = <<>>
    /\ stack = <<>>
    /\ tracked = [l \in 1 .. Listeners |-> 0]
    /\ watched = [l \in 1 .. Listeners |-> NoElement]
    /\ iterator = [it \in Iterators |-> Idle]

-----------------------------------------------------------------------------
(* What a message does to an index and to a cursor.                        *)

\* Faulty variant: the elements in between are taken to stay where they are.
IndexAfterMoveOnly(index, from, to) == IF index = from THEN to ELSE index

IndexAfterMove(index, from, to) ==
    CASE index = from                 -> to
      [] from < index /\ index <= to  -> index - 1
      [] to <= index /\ index < from  -> index + 1
      [] OTHER                        -> index

\* AdjustIndex: an index follows its element, and is 0 once that is removed.
\* `second' is the count, or the other index.
AdjustedIndex(m, index) ==
    CASE m.what = "inserted" -> IF index >= m.first THEN index + m.second ELSE index
      [] m.what = "removed"  -> IF index < m.first THEN index
                                ELSE IF index >= m.first + m.second THEN index - m.second
                                ELSE 0
      [] m.what = "moved"    -> IndexAfterMove(index, m.first, m.second)
      [] m.what = "swapped"  -> IF index = m.first THEN m.second
                                ELSE IF index = m.second THEN m.first
                                ELSE index
      [] OTHER               -> index

\* Faulty variant: a task iterator moves like a plain one.
NotifiedPlain(it, m) ==
    CASE m.what = "inserted" ->
           [it EXCEPT !.cursor = CursorAfterInsert(@, m.first, m.second)]
      [] m.what = "removed"  ->
           [it EXCEPT !.cursor = CursorAfterRemove(@, m.first, m.second)]
      [] OTHER               -> it

\* OrderedSetChanged: only insertions and removals are sent to the iterators.
\* A plain iterator's cursor, and a task iterator's.
Notified(it, m) ==
    CASE m.what = "inserted" ->
           [it EXCEPT !.cursor = IF it.task THEN TaskCursorAfterInsert(@, m.first, m.second)
                                            ELSE CursorAfterInsert(@, m.first, m.second)]
      [] m.what = "removed"  ->
           [it EXCEPT !.cursor = CursorAfterRemove(@, m.first, m.second)]
      [] OTHER               -> it

-----------------------------------------------------------------------------
(* Changes.                                                                *)

\* Application code runs in the event loop and in the listener being told.
Running == stack # <<>> => Last(stack).busy

Send(what, first, second) ==
    /\ Running
    /\ Len(stack) < MaxNesting
    /\ stack' = Append(stack, [what |-> what, first |-> first, second |-> second,
                               told |-> 0, busy |-> FALSE])

\* The passes in progress promise nothing about these elements any more.
Forgotten(gone) ==
    [it \in Iterators |-> [iterator[it] EXCEPT !.start = @ \ gone, !.got = @ \ gone]]

\* InsertElementAtIndex: an index past the end means the end.  A task iterator
\* counts what is put at the front as passed.
Insert(e, index) ==
    LET trueIndex == IF index <= N THEN index ELSE N + 1
    IN  /\ e \notin Contents
        /\ elements' = InsertAt(elements, trueIndex, e)
        /\ Send("inserted", trueIndex, 1)
        /\ iterator' = [it \in Iterators |->
               IF iterator[it].on /\ iterator[it].task /\ trueIndex = 1
               THEN [iterator[it] EXCEPT !.start = @ \cup {e}, !.got = @ \cup {e}]
               ELSE iterator[it]]
        /\ UNCHANGED <<tracked, watched>>

\* RemoveNextElements, and RemoveAll.
RemoveNextElements(first, count) ==
    LET last == first + count - 1
    IN  /\ count >= 1 /\ last <= N
        /\ elements' = SubSeq(elements, 1, first - 1) \o SubSeq(elements, last + 1, N)
        /\ Send("removed", first, count)
        /\ LET gone == {elements[i] : i \in first .. last} IN
             /\ iterator' = Forgotten(gone)
             /\ watched' = [l \in 1 .. Listeners |->
                              IF watched[l] \in gone THEN NoElement ELSE watched[l]]
        /\ UNCHANGED tracked

\* SetElement puts another element where one was; what watched the old one
\* watches the new one.
Set(index, e) ==
    /\ e \notin Contents
    /\ elements' = [elements EXCEPT ![index] = e]
    /\ Send("changed", index, index)
    /\ watched' = [l \in 1 .. Listeners |->
                     IF watched[l] = elements[index] THEN e ELSE watched[l]]
    /\ iterator' = Forgotten({elements[index]})
    /\ UNCHANGED tracked

\* MoveElementToIndex: passes in progress are void.
Move(from, to) ==
    /\ from # to
    /\ elements' = InsertAt(RemoveAt(elements, from), to, elements[from])
    /\ Send("moved", from, to)
    /\ iterator' = Forgotten(Elements)
    /\ UNCHANGED <<tracked, watched>>

SwapElements(i, j) ==
    /\ i # j
    /\ elements' = [elements EXCEPT ![i] = elements[j], ![j] = elements[i]]
    /\ Send("swapped", i, j)
    /\ iterator' = Forgotten(Elements)
    /\ UNCHANGED <<tracked, watched>>

\* operator=: the iterators start again (kCopied); the listeners are not told, so
\* who assigns has to make them forget their indices.
Assign(s) ==
    /\ Running
    /\ elements' = s
    /\ tracked' = [l \in 1 .. Listeners |-> 0]
    /\ watched' = [l \in 1 .. Listeners |-> NoElement]
    /\ iterator' = [it \in Iterators |->
                      [iterator[it] EXCEPT !.cursor = 0, !.start = {}, !.got = {}]]
    /\ UNCHANGED stack

-----------------------------------------------------------------------------
(* The announcement of a change.                                           *)

\* The next listener's Receive: it adjusts its index, then does what it wants.
Tell ==
    LET m == Last(stack)
    IN  /\ stack # <<>> /\ ~ m.busy /\ m.told < Listeners
        /\ stack' = [stack EXCEPT ![Len(stack)].told = @ + 1, ![Len(stack)].busy = TRUE]
        /\ tracked' = [tracked EXCEPT ![m.told + 1] = AdjustedIndex(m, @)]
        /\ UNCHANGED <<elements, watched, iterator>>

Return ==
    /\ stack # <<>> /\ Last(stack).busy
    /\ stack' = [stack EXCEPT ![Len(stack)].busy = FALSE]
    /\ UNCHANGED <<elements, tracked, watched, iterator>>

\* NotifyIterators, after the last listener.
NotifyIterators ==
    LET m == Last(stack)
    IN  /\ stack # <<>> /\ ~ m.busy /\ m.told = Listeners
        /\ iterator' = [it \in Iterators |->
                          IF iterator[it].on THEN Notified(iterator[it], m) ELSE iterator[it]]
        /\ stack' = Front(stack)
        /\ UNCHANGED <<elements, tracked, watched>>

-----------------------------------------------------------------------------
(* Application code with its indices and iterators.                        *)

\* Listener l looks up the index of an element.
Watch(l, index) ==
    /\ Running
    /\ tracked' = [tracked EXCEPT ![l] = index]
    /\ watched' = [watched EXCEPT ![l] = elements[index]]
    /\ UNCHANGED <<elements, stack, iterator>>

\* The constructor and MoveTo: a cursor at the beginning, at the end, before or
\* after some element, is a cursor in 0 .. N.
MoveTo(it, task, cursor) ==
    /\ Running
    /\ iterator[it].on => iterator[it].task = task
    /\ iterator' = [iterator EXCEPT ![it] =
          [on |-> TRUE, task |-> task, cursor |-> cursor, start |-> Contents,
           got |-> {elements[i] : i \in 1 .. cursor}]]
    /\ UNCHANGED <<elements, stack, tracked, watched>>

\* ~JOrderedSetIterator
Close(it) ==
    /\ Running
    /\ iterator[it].on
    /\ iterator' = [iterator EXCEPT ![it] = Idle]
    /\ UNCHANGED <<elements, stack, tracked, watched>>

AtEnd(it) == iterator[it].cursor >= N

\* Next, and SkipNext: over `count' elements, or to the end.
Next_(it, count) ==
    LET from == iterator[it].cursor
        to   == IF from + count > N THEN N ELSE from + count
    IN  /\ Running
        /\ iterator[it].on
        /\ ~ AtEnd(it)
        /\ iterator' = [iterator EXCEPT ![it].cursor = to,
              ![it].got = @ \cup ({elements[i] : i \in from + 1 .. to} \cap iterator[it].start)]
        /\ UNCHANGED <<elements, stack, tracked, watched>>

\* Prev, and SkipPrev.  A cursor past the end fails the assertion in GetElement,
\* and the program stops.
Prev(it, count) ==
    LET from == iterator[it].cursor
        to   == IF count > from THEN 0 ELSE from - count
    IN  /\ Running
        /\ iterator[it].on
        /\ from \in 1 .. N
        /\ iterator' = [iterator EXCEPT ![it].cursor = to,
              ![it].got = @ \ {elements[i] : i \in to + 1 .. from}]
        /\ UNCHANGED <<elements, stack, tracked, watched>>

RemoveNext(it) == iterator[it].on /\ ~ AtEnd(it) /\ RemoveNextElements(iterator[it].cursor + 1, 1)

RemovePrev(it) ==
    iterator[it].on /\ iterator[it].cursor \in 1 .. N /\ RemoveNextElements(iterator[it].cursor, 1)

-----------------------------------------------------------------------------
Application ==
    \/ \E e \in Elements : (\E i \in 1 .. N + 2 : Insert(e, i)) \/ (\E i \in 1 .. N : Set(i, e))
    \/ \E i, j \in 1 .. N : RemoveNextElements(i, j) \/ Move(i, j) \/ SwapElements(i, j)
    \/ \E i \in 1 .. N : Assign(SubSeq(elements, i, N))
    \/ \E l \in 1 .. Listeners, i \in 1 .. N : Watch(l, i)
    \/ \E it \in Iterators :
          \/ \E task \in BOOLEAN, c \in 0 .. N : MoveTo(it, task, c)
          \/ \E count \in 1 .. N : Next_(it, count) \/ Prev(it, count)
          \/ Close(it) \/ RemoveNext(it) \/ RemovePrev(it)

Library == Tell \/ Return \/ NotifyIterators

Next == Application \/ Library

\* Anything may happen in a listener.
Spec == Init /\ [][Next]_vars

\* Listeners only adjust their index: they neither change the set nor use an
\* iterator on it.
PassiveNext == (stack = <<>> /\ Application) \/ Library

PassiveSpec == Init /\ [][PassiveNext]_vars

-----------------------------------------------------------------------------
(* Properties.                                                             *)

\* Once every change is announced, an iterator has passed exactly those of the
\* elements it began with that it has fetched: insertions and removals in front of
\* and behind it make it neither skip an element nor fetch one twice, and a task
\* iterator never comes to what was put at the front.
IteratorRobust ==
    stack = <<>> =>
        \A it \in Iterators :
            iterator[it].on =>
                /\ iterator[it].cursor <= N
                /\ \A i \in 1 .. N :
                      elements[i] \in iterator[it].start =>
                          (i <= iterator[it].cursor <=> elements[i] \in iterator[it].got)

\* Once every change is announced, an index kept with AdjustIndex is the index of
\* the element it was taken for, or 0 if that was removed.
IndexFollows ==
    stack = <<>> =>
        \A l \in 1 .. Listeners :
            IF watched[l] = NoElement
            THEN tracked[l] = 0
            ELSE tracked[l] \in 1 .. N /\ elements[tracked[l]] = watched[l]
=============================================================================
