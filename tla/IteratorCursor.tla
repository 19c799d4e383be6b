--------------------------- MODULE IteratorCursor ---------------------------
(***************************************************************************)
(* How the cursor of an iterator follows the ordered set it works on.      *)
(*                                                                         *)
(* libjcore/code/JOrderedSetIterator.tmpl keeps every iterator in a linked *)
(* list headed in its JOrderedSet.  When the set changes it sends the      *)
(* change to the list (OrderedSetChanged), and each iterator moves its     *)
(* cursor.  A cursor c is an ordinal in 0 .. n: it sits between element c  *)
(* and element c + 1, so Next fetches element c + 1.                       *)
(*                                                                         *)
(* These are pure operators; the modules that own sets and iterators       *)
(* (Broadcaster, OrderedSet) apply them to their own state.                *)
(***************************************************************************)
EXTENDS Integers

\* ElementsInserted(first, count): the elements from `first' on moved up, and
\* the cursor moves with the element on its left.
CursorAfterInsert(c, first, count) ==
    IF c >= first THEN c + count ELSE c

\* Faulty variant: the cursor moves down whatever was removed.
CursorDownAlways(c, first, count) == c - count

\* ElementsRemoved(first, count): a cursor past the hole moves down; a cursor
\* inside it falls to its left edge.
CursorAfterRemove(c, first, count) ==
    LET last == first + count - 1
    IN  IF c > last THEN c - count
        ELSE IF c >= first THEN first - 1
        ELSE c

\* Faulty variant: no override, the cursor of the base class.
BaseCursorAfterInsert(c, first, count) == CursorAfterInsert(c, first, count)

\* JTaskIterator::OrderedSetChanged: after the base class has moved the cursor,
\* a cursor still at the very front steps over what was put at the front, so
\* that elements prepended during a pass are not visited by it.
TaskCursorAfterInsert(c, first, count) ==
    LET moved == CursorAfterInsert(c, first, count)
    IN  IF moved = 0 /\ first = 1 THEN count ELSE moved
=============================================================================
