---------------------------- MODULE ArrayProofs ----------------------------
(***************************************************************************)
(* Proofs about arrays: OrderedSet, for any elements, and any numbers of   *)
(* listeners and iterators, and SortedSearch, for arrays of any length.    *)
(*                                                                         *)
(* Types are kept whatever the listeners of a set do.  That indices and    *)
(* iterators follow their elements is proved for listeners that only       *)
(* listen, and the proof says why they do: the inductive invariant is that *)
(* an index or cursor WILL be right once what is left of the change under  *)
(* way has been announced to it.                                           *)
(*                                                                         *)
(* The loop invariant of the search: the target does not belong in front   *)
(* of the element at the lower bound, nor behind the one at the upper      *)
(* bound; and it equals the lower one only in a search for the last match, *)
(* the upper one only in a search for the first match.                     *)
(***************************************************************************)
EXTENDS OrderedSet, SortedSearch, CursorLemmas

\* Index x into s stands for w, or for nothing.
IndexFits(s, x, w) ==
    IF w = NoElement THEN x = 0 ELSE x \in 1 .. Len(s) /\ s[x] = w

\* The cursor c has passed exactly those of start that are in got.
PassFits(s, c, start, got) ==
    /\ c <= Len(s)
    /\ \A i \in 1 .. Len(s) : s[i] \in start => (i <= c <=> s[i] \in got)

\* The cursor after a change.
CursorNext(task, c, m) ==
    CASE m.what = "inserted" -> IF task THEN TaskCursorAfterInsert(c, m.first, m.second)
                                        ELSE CursorAfterInsert(c, m.first, m.second)
      [] m.what = "removed"  -> CursorAfterRemove(c, m.first, m.second)
      [] OTHER               -> c

-----------------------------------------------------------------------------
(* Lists that change.                                                      *)

\* The list t is s with e put in at place i, and everything from there on one up.
WithOneMore(S, t, s, i, e) ==
    /\ t \in Seq(S)
    /\ Len(t) = Len(s) + 1
    /\ \A j \in 1 .. Len(s) + 1 : t[j] = IF j < i THEN s[j] ELSE IF j = i THEN e ELSE s[j - 1]

\* InsertAt makes room for one element.
LEMMA InsertAtProperties ==
    ASSUME NEW S, NEW s \in Seq(S), NEW i \in 1 .. Len(s) + 1, NEW e \in S
    PROVE  WithOneMore(S, InsertAt(s, i, e), s, i, e)
<1> DEFINE n == Len(s)
           low == SubSeq(s, 1, i - 1)
           mid == <<e>>
           high == SubSeq(s, i, n)
<1>1. n \in Nat /\ \A j \in 1 .. n : s[j] \in S
  BY LenProperties, ElementOfSeq
<1>2. /\ low \in Seq(S) /\ Len(low) = i - 1
      /\ \A j \in 1 .. i - 1 : low[j] = s[j]
  BY <1>1, SubSeqProperties
<1>3. mid \in Seq(S) /\ Len(mid) = 1 /\ mid[1] = e
  OBVIOUS
<1>4. /\ high \in Seq(S) /\ Len(high) = n - i + 1
      /\ \A j \in 1 .. n - i + 1 : high[j] = s[i + j - 1]
  <2>1. i \in Int /\ n \in Int /\ \A j \in i .. n : s[j] \in S
    BY <1>1
  <2>2. /\ high \in Seq(S) /\ Len(high) = IF i <= n THEN n - i + 1 ELSE 0
        /\ \A j \in 1 .. n - i + 1 : high[j] = s[i + j - 1]
    BY <2>1, SubSeqProperties
  <2> QED
    BY <2>2, <1>1
<1> HIDE DEF n, low, mid, high
<1>5. /\ low \o mid \in Seq(S) /\ Len(low \o mid) = i
      /\ \A j \in 1 .. i : (low \o mid)[j] = IF j < i THEN s[j] ELSE e
  <2>1. /\ low \o mid \in Seq(S) /\ Len(low \o mid) = Len(low) + Len(mid)
        /\ \A j \in 1 .. Len(low) + Len(mid) :
              (low \o mid)[j] = IF j <= Len(low) THEN low[j] ELSE mid[j - Len(low)]
    BY <1>2, <1>3, ConcatProperties
  <2> DEFINE lm == low \o mid
  <2> HIDE DEF lm
  <2>2. lm \in Seq(S) /\ Len(lm) = i
    BY <2>1, <1>1, <1>2, <1>3 DEF lm, n
  <2>3. \A j \in 1 .. i : lm[j] = IF j <= i - 1 THEN low[j] ELSE mid[j - (i - 1)]
    BY <2>1, <1>1, <1>2, <1>3 DEF lm, n
  <2>4. ASSUME NEW j \in 1 .. i
        PROVE  lm[j] = IF j < i THEN s[j] ELSE e
    <3>1. CASE j < i
      BY <3>1, <2>3, <1>2, <1>1 DEF n
    <3>2. CASE j = i
      <4>1. j - (i - 1) = 1 /\ ~(j <= i - 1)
        BY <3>2
      <4> QED
        BY <3>2, <4>1, <2>3, <1>3
    <3> QED
      BY <3>1, <3>2
  <2> QED
    BY <2>2, <2>4 DEF lm
<1> DEFINE lm == low \o mid
           t == lm \o high
<1> HIDE DEF lm
<1>c. lm \in Seq(S) /\ high \in Seq(S)
  BY <1>4, <1>5 DEF lm
<1>6. /\ t \in Seq(S) /\ Len(t) = Len(lm) + Len(high)
      /\ \A j \in 1 .. Len(lm) + Len(high) :
            t[j] = IF j <= Len(lm) THEN lm[j] ELSE high[j - Len(lm)]
  BY <1>c, ConcatProperties
<1>7. InsertAt(s, i, e) = t
  BY DEF InsertAt, low, mid, high, n, lm
<1> HIDE DEF t
<1>8. t \in Seq(S) /\ Len(t) = n + 1
  BY <1>1, <1>4, <1>5, <1>6 DEF lm, n
<1>9. ASSUME NEW j \in 1 .. n + 1
      PROVE  t[j] = IF j < i THEN s[j] ELSE IF j = i THEN e ELSE s[j - 1]
  <2>1. t[j] = IF j <= i THEN lm[j] ELSE high[j - i]
    BY <1>1, <1>4, <1>5, <1>6 DEF lm, n
  <2>2. CASE j <= i
    BY <2>1, <2>2, <1>1, <1>5 DEF lm, n
  <2>3. CASE j > i
    <3>1. j - i \in 1 .. n - i + 1 /\ i + (j - i) - 1 = j - 1
      BY <2>3, <1>1 DEF n
    <3>2. high[j - i] = s[j - 1]
      BY <3>1, <1>4
    <3> QED
      BY <3>2, <2>1, <2>3, <1>1 DEF n
  <2> QED
    BY <2>2, <2>3, <1>1 DEF n
<1> QED
  BY <1>7, <1>8, <1>9 DEF n, WithOneMore

\* Everything behind the hole moves down by its width.
LEMMA RunRemoved ==
    ASSUME NEW S, NEW s \in Seq(S), NEW f \in 1 .. Len(s), NEW k \in 1 .. Len(s),
           f + k - 1 <= Len(s)
    PROVE  LET t == SubSeq(s, 1, f - 1) \o SubSeq(s, f + k - 1 + 1, Len(s)) IN
           /\ t \in Seq(S) /\ Len(t) = Len(s) - k
           /\ \A j \in 1 .. Len(s) - k : t[j] = IF j < f THEN s[j] ELSE s[j + k]
<1> DEFINE low == SubSeq(s, 1, f - 1)
           high == SubSeq(s, f + k - 1 + 1, Len(s))
<1>1. Len(s) \in Nat /\ \A j \in 1 .. Len(s) : s[j] \in S
  BY LenProperties, ElementOfSeq
<1>2. /\ low \in Seq(S) /\ Len(low) = f - 1
      /\ \A j \in 1 .. f - 1 : low[j] = s[j]
  BY <1>1, SubSeqProperties
<1>3. /\ high \in Seq(S) /\ Len(high) = Len(s) - (f + k) + 1
      /\ \A j \in 1 .. Len(s) - (f + k) + 1 : high[j] = s[f + k + j - 1]
  <2>1. f + k \in Int /\ Len(s) \in Int /\ \A j \in f + k .. Len(s) : s[j] \in S
    BY <1>1
  <2>2. high = SubSeq(s, f + k, Len(s))
    <3>1. f + k - 1 + 1 = f + k
      BY <1>1
    <3> QED
      BY <3>1
  <2>3. /\ high \in Seq(S) /\ Len(high) = IF f + k <= Len(s) THEN Len(s) - (f + k) + 1 ELSE 0
        /\ \A j \in 1 .. Len(s) - (f + k) + 1 : high[j] = s[f + k + j - 1]
    BY <2>1, <2>2, SubSeqProperties
  <2> QED
    BY <2>3, <1>1
<1> HIDE DEF low, high
<1>4. /\ low \o high \in Seq(S) /\ Len(low \o high) = Len(low) + Len(high)
      /\ \A j \in 1 .. Len(low) + Len(high) :
            (low \o high)[j] = IF j <= Len(low) THEN low[j] ELSE high[j - Len(low)]
  BY <1>2, <1>3, ConcatProperties
<1> DEFINE t == low \o high
<1>5. /\ Len(t) = Len(low) + Len(high)
      /\ \A j \in 1 .. Len(low) + Len(high) :
            t[j] = IF j <= Len(low) THEN low[j] ELSE high[j - Len(low)]
  BY <1>4
<1> HIDE DEF t
<1>6. t \in Seq(S) /\ Len(t) = Len(s) - k
  BY <1>1, <1>2, <1>3, <1>4, <1>5 DEF t
<1>7. ASSUME NEW j \in 1 .. Len(s) - k
      PROVE  t[j] = IF j < f THEN s[j] ELSE s[j + k]
  <2>1. t[j] = IF j <= f - 1 THEN low[j] ELSE high[j - (f - 1)]
    BY <1>1, <1>2, <1>3, <1>5
  <2>2. CASE j < f
    BY <2>1, <2>2, <1>1, <1>2
  <2>3. CASE j >= f
    <3>1. j - (f - 1) \in 1 .. Len(s) - (f + k) + 1 /\ f + k + (j - (f - 1)) - 1 = j + k
      BY <2>3, <1>1
    <3>2. high[j - (f - 1)] = s[j + k]
      BY <3>1, <1>3
    <3> QED
      BY <3>2, <2>1, <2>3, <1>1
  <2> QED
    BY <2>2, <2>3, <1>1
<1> QED
  BY <1>6, <1>7 DEF t, low, high

\* The list t is s with the element at `from' moved to place `to', and the ones in
\* between one place back.
WithOneMoved(S, t, s, from, to) ==
    /\ t \in Seq(S) /\ Len(t) = Len(s)
    /\ \A j \in 1 .. Len(s) : t[j] = s[IndexAfterMove(j, to, from)]

\* Taking an element out and putting it in elsewhere moves it.
LEMMA MovedProperties ==
    ASSUME NEW S, NEW s \in Seq(S), NEW from \in 1 .. Len(s), NEW to \in 1 .. Len(s)
    PROVE  WithOneMoved(S, InsertAt(RemoveAt(s, from), to, s[from]), s, from, to)
<1> DEFINE r == RemoveAt(s, from)
           t == InsertAt(r, to, s[from])
<1>1. Len(s) \in Nat /\ s[from] \in S
  BY LenProperties, ElementOfSeq
<1>2. /\ r \in Seq(S) /\ Len(r) = Len(s) - 1
      /\ \A j \in 1 .. Len(s) - 1 : r[j] = IF j < from THEN s[j] ELSE s[j + 1]
  BY RemoveAtProperties
<1> HIDE DEF r
<1>3. to \in 1 .. Len(r) + 1
  BY <1>1, <1>2
<1>4. /\ t \in Seq(S) /\ Len(t) = Len(r) + 1
      /\ \A j \in 1 .. Len(r) + 1 :
            t[j] = IF j < to THEN r[j] ELSE IF j = to THEN s[from] ELSE r[j - 1]
  <2>1. WithOneMore(S, t, r, to, s[from])
    BY <1>1, <1>2, <1>3, InsertAtProperties
  <2> HIDE DEF t
  <2> QED
    BY <2>1 DEF WithOneMore
<1> HIDE DEF t
<1>5. ASSUME NEW j \in 1 .. Len(s)
      PROVE  t[j] = s[IndexAfterMove(j, to, from)]
  <2>1. t[j] = IF j < to THEN r[j] ELSE IF j = to THEN s[from] ELSE r[j - 1]
    BY <1>1, <1>2, <1>4
  <2>2. CASE j = to
    BY <2>1, <2>2 DEF IndexAfterMove
  <2>3. CASE j < to
    <3>1. j \in 1 .. Len(s) - 1
      BY <2>3, <1>1
    <3>2. r[j] = IF j < from THEN s[j] ELSE s[j + 1]
      BY <3>1, <1>2
    <3>3. IndexAfterMove(j, to, from) = IF j < from THEN j ELSE j + 1
      BY <2>3, <1>1 DEF IndexAfterMove
    <3> QED
      BY <2>1, <2>3, <3>2, <3>3
  <2>4. CASE j > to
    <3>1. j - 1 \in 1 .. Len(s) - 1 /\ j - 1 + 1 = j /\ (j - 1 < from <=> j <= from)
      BY <2>4, <1>1
    <3>2. r[j - 1] = IF j <= from THEN s[j - 1] ELSE s[j]
      BY <3>1, <1>2
    <3>3. IndexAfterMove(j, to, from) = IF j <= from THEN j - 1 ELSE j
      BY <2>4, <1>1 DEF IndexAfterMove
    <3>4. ~ (j < to) /\ j # to
      BY <2>4, <1>1
    <3> QED
      BY <2>1, <3>4, <3>2, <3>3
  <2> QED
    BY <2>2, <2>3, <2>4, <1>1
<1> QED
  BY <1>1, <1>2, <1>4, <1>5 DEF r, t, WithOneMoved

\* A move and the move back cancel; both stay within the list.
LEMMA MoveAndBack ==
    ASSUME NEW n \in Nat, NEW from \in 1 .. n, NEW to \in 1 .. n, NEW x \in 1 .. n
    PROVE  /\ IndexAfterMove(x, from, to) \in 1 .. n
           /\ IndexAfterMove(IndexAfterMove(x, from, to), to, from) = x
<1>1. CASE x = from
  BY <1>1 DEF IndexAfterMove
<1>2. CASE from < x /\ x <= to
  BY <1>2 DEF IndexAfterMove
<1>3. CASE to <= x /\ x < from
  BY <1>3 DEF IndexAfterMove
<1>4. CASE ~ (x = from) /\ ~ (from < x /\ x <= to) /\ ~ (to <= x /\ x < from)
  BY <1>4 DEF IndexAfterMove
<1> QED
  BY <1>1, <1>2, <1>3, <1>4

-----------------------------------------------------------------------------
(* What each change keeps: no repetitions, and what an index and a cursor  *)
(* stand for once they have been adjusted.                                 *)

\* An inserted element.
LEMMA InsertKeeps ==
    ASSUME NEW s \in Seq(Elements), NoRepeats(s), NEW f \in 1 .. Len(s) + 1,
           NEW e \in Elements, e \notin ElementsOf(s)
    PROVE  LET t == InsertAt(s, f, e) IN
           /\ t \in Seq(Elements) /\ NoRepeats(t)
           /\ ElementsOf(s) \subseteq ElementsOf(t) /\ e \in ElementsOf(t)
           /\ \A w : \A x \in Nat : IndexFits(s, x, w)
                                  => IndexFits(t, IF x >= f THEN x + 1 ELSE x, w)
           /\ \A start, got : \A c \in Nat :
                 start \subseteq ElementsOf(s) /\ PassFits(s, c, start, got)
                   => /\ PassFits(t, CursorAfterInsert(c, f, 1), start, got)
                      /\ f # 1 => PassFits(t, TaskCursorAfterInsert(c, f, 1), start, got)
                      /\ f = 1 => PassFits(t, TaskCursorAfterInsert(c, f, 1),
                                           start \cup {e}, got \cup {e})
<1> DEFINE t == InsertAt(s, f, e)
<1>1. Len(s) \in Nat /\ DOMAIN s = 1 .. Len(s)
  BY LenProperties
<1>2. /\ t \in Seq(Elements) /\ Len(t) = Len(s) + 1
      /\ \A j \in 1 .. Len(s) + 1 :
            t[j] = IF j < f THEN s[j] ELSE IF j = f THEN e ELSE s[j - 1]
  <2>1. WithOneMore(Elements, t, s, f, e)
    BY InsertAtProperties
  <2> HIDE DEF t
  <2> QED
    BY <2>1 DEF WithOneMore
<1>3. DOMAIN t = 1 .. Len(s) + 1
  BY <1>2, LenProperties
<1> HIDE DEF t
<1>4. /\ t[f] = e
      /\ \A x \in 1 .. Len(s) : t[IF x >= f THEN x + 1 ELSE x] = s[x]
  <2>1. ASSUME NEW x \in 1 .. Len(s)
        PROVE  t[IF x >= f THEN x + 1 ELSE x] = s[x]
    <3>1. CASE x >= f
      <4>1. x + 1 \in 1 .. Len(s) + 1 /\ ~(x + 1 < f) /\ x + 1 # f /\ x + 1 - 1 = x
        BY <3>1, <1>1
      <4> QED
        BY <4>1, <3>1, <1>2
    <3>2. CASE x < f
      <4>1. x \in 1 .. Len(s) + 1 /\ ~ (x >= f)
        BY <3>2, <1>1
      <4> QED
        BY <4>1, <3>2, <1>2
    <3> QED
      BY <3>1, <3>2, <1>1
  <2>2. t[f] = e
    BY <1>1, <1>2
  <2> QED
    BY <2>1, <2>2
<1>5. \* where an element of t comes from
      ASSUME NEW j \in 1 .. Len(s) + 1, j # f
      PROVE  LET x == IF j < f THEN j ELSE j - 1
             IN  /\ x \in 1 .. Len(s) /\ t[j] = s[x]
                 /\ j = IF x >= f THEN x + 1 ELSE x
  <2>1. CASE j < f
    BY <2>1, <1>1, <1>2
  <2>2. CASE j > f
    <3>1. j - 1 \in 1 .. Len(s) /\ ~ (j < f) /\ j - 1 >= f /\ j - 1 + 1 = j
      BY <2>2, <1>1
    <3> QED
      BY <3>1, <1>5, <1>2
  <2> QED
    BY <2>1, <2>2, <1>5, <1>1
<1>6. NoRepeats(t)
  <2> SUFFICES ASSUME NEW j \in 1 .. Len(s) + 1, NEW k \in 1 .. Len(s) + 1, t[j] = t[k]
               PROVE  j = k
    BY <1>3 DEF NoRepeats
  <2>0. ASSUME NEW m \in 1 .. Len(s) + 1, m # f
        PROVE  t[m] # e
    <3>1. PICK x \in 1 .. Len(s) : t[m] = s[x]
      BY <2>0, <1>5
    <3> QED
      BY <3>1, <1>1 DEF ElementsOf
  <2>1. CASE j = f \/ k = f
    BY <2>0, <2>1, <1>4
  <2>2. CASE j # f /\ k # f
    <3>1. PICK x \in 1 .. Len(s) : t[j] = s[x] /\ j = IF x >= f THEN x + 1 ELSE x
      BY <2>2, <1>5
    <3>2. PICK y \in 1 .. Len(s) : t[k] = s[y] /\ k = IF y >= f THEN y + 1 ELSE y
      BY <2>2, <1>5
    <3>3. x = y
      BY <3>1, <3>2, <1>1 DEF NoRepeats
    <3> QED
      BY <3>1, <3>2, <3>3
  <2> QED
    BY <2>1, <2>2
<1>7. ElementsOf(s) \subseteq ElementsOf(t) /\ e \in ElementsOf(t)
  <2>1. ASSUME NEW x \in 1 .. Len(s)
        PROVE  s[x] \in ElementsOf(t)
    <3>1. (IF x >= f THEN x + 1 ELSE x) \in 1 .. Len(s) + 1
      BY <1>1
    <3> QED
      BY <3>1, <1>3, <1>4 DEF ElementsOf
  <2>2. f \in DOMAIN t /\ t[f] = e
    BY <1>1, <1>3, <1>4
  <2> QED
    BY <2>1, <2>2, <1>1 DEF ElementsOf
<1>8. ASSUME NEW x \in Nat, NEW w, IndexFits(s, x, w)
      PROVE  IndexFits(t, IF x >= f THEN x + 1 ELSE x, w)
  <2>1. CASE w = NoElement
    BY <2>1, <1>8, <1>1 DEF IndexFits
  <2>2. CASE w # NoElement
    <3>1. x \in 1 .. Len(s) /\ s[x] = w
      BY <2>2, <1>8 DEF IndexFits
    <3>2. (IF x >= f THEN x + 1 ELSE x) \in 1 .. Len(t)
      BY <3>1, <1>1, <1>2
    <3> QED
      BY <3>1, <3>2, <2>2, <1>4 DEF IndexFits
  <2> QED
    BY <2>1, <2>2
<1>9. ASSUME NEW c \in Nat, NEW start, NEW got, start \subseteq ElementsOf(s),
             PassFits(s, c, start, got), NEW d \in Nat,
             d <= Len(s) + 1, \A x \in 1 .. Len(s) : x <= c <=> (IF x >= f THEN x + 1 ELSE x) <= d
      PROVE  /\ PassFits(t, d, start, got)
             /\ f <= d => PassFits(t, d, start \cup {e}, got \cup {e})
  <2>1. ASSUME NEW j \in 1 .. Len(s) + 1, j # f
        PROVE  t[j] \in start => (j <= d <=> t[j] \in got)
    <3>1. PICK x \in 1 .. Len(s) : t[j] = s[x] /\ j = IF x >= f THEN x + 1 ELSE x
      BY <2>1, <1>5
    <3>2. s[x] \in start => (x <= c <=> s[x] \in got)
      BY <1>9, <3>1 DEF PassFits
    <3>3. x <= c <=> j <= d
      BY <1>9, <3>1
    <3> QED
      BY <3>1, <3>2, <3>3
  <2>2. t[f] \notin start
    BY <1>4, <1>9
  <2>3. ASSUME NEW j \in 1 .. Len(s) + 1, j # f
        PROVE  t[j] # e
    <3>1. PICK x \in 1 .. Len(s) : t[j] = s[x]
      BY <2>3, <1>5
    <3> QED
      BY <3>1, <1>1 DEF ElementsOf
  <2>4. PassFits(t, d, start, got)
    BY <2>1, <2>2, <1>9, <1>2 DEF PassFits
  <2>5. ASSUME f <= d
        PROVE  PassFits(t, d, start \cup {e}, got \cup {e})
    <3>1. ASSUME NEW j \in 1 .. Len(s) + 1, t[j] \in start \cup {e}
          PROVE  j <= d <=> t[j] \in got \cup {e}
      <4>1. CASE j = f
        BY <4>1, <2>5, <1>4
      <4>2. CASE j # f
        BY <4>2, <3>1, <2>1, <2>3
      <4> QED
        BY <4>1, <4>2
    <3> QED
      BY <3>1, <1>9, <1>2 DEF PassFits
  <2> QED
    BY <2>4, <2>5
<1>10. ASSUME NEW c \in Nat, NEW start, NEW got, start \subseteq ElementsOf(s),
              PassFits(s, c, start, got)
       PROVE  /\ PassFits(t, CursorAfterInsert(c, f, 1), start, got)
              /\ f # 1 => PassFits(t, TaskCursorAfterInsert(c, f, 1), start, got)
              /\ f = 1 => PassFits(t, TaskCursorAfterInsert(c, f, 1),
                                   start \cup {e}, got \cup {e})
  <2> DEFINE d == IF c >= f THEN c + 1 ELSE c
  <2>1. c <= Len(s)
    BY <1>10 DEF PassFits
  <2>2. /\ d \in Nat /\ d <= Len(s) + 1
        /\ \A x \in 1 .. Len(s) : x <= c <=> (IF x >= f THEN x + 1 ELSE x) <= d
    BY <1>1, <2>1
  <2>3. PassFits(t, d, start, got)
    BY <2>2, <1>9, <1>10
  <2>4. CursorAfterInsert(c, f, 1) = d
    BY DEF CursorAfterInsert
  <2>5. ASSUME f # 1
        PROVE  TaskCursorAfterInsert(c, f, 1) = d
    BY <2>4, <2>5 DEF TaskCursorAfterInsert
  <2>6. ASSUME f = 1
        PROVE  PassFits(t, TaskCursorAfterInsert(c, f, 1), start \cup {e}, got \cup {e})
    <3>1. TaskCursorAfterInsert(c, f, 1) = c + 1
      BY <2>6 DEF TaskCursorAfterInsert, CursorAfterInsert
    <3>2. /\ c + 1 \in Nat /\ c + 1 <= Len(s) + 1 /\ f <= c + 1
          /\ \A x \in 1 .. Len(s) : x <= c <=> (IF x >= f THEN x + 1 ELSE x) <= c + 1
      BY <1>1, <2>1, <2>6
    <3> QED
      BY <3>1, <3>2, <1>9, <1>10
  <2> QED
    BY <2>3, <2>4, <2>5, <2>6
<1> QED
  BY <1>2, <1>6, <1>7, <1>8, <1>10 DEF t

\* A removed run of k elements from place f on.
LEMMA RemoveKeeps ==
    ASSUME NEW s \in Seq(Elements), NoRepeats(s), NEW f \in 1 .. Len(s), NEW k \in 1 .. Len(s),
           f + k - 1 <= Len(s)
    PROVE  LET t == SubSeq(s, 1, f - 1) \o SubSeq(s, f + k - 1 + 1, Len(s))
               gone == {s[i] : i \in f .. f + k - 1}
           IN
           /\ t \in Seq(Elements) /\ NoRepeats(t)
           /\ ElementsOf(s) \ gone \subseteq ElementsOf(t)
           /\ \A w : \A x \in Nat : IndexFits(s, x, w)
                                  => IndexFits(t, IF x < f THEN x ELSE IF x >= f + k THEN x - k ELSE 0,
                                               IF w \in gone THEN NoElement ELSE w)
           /\ \A start, got : \A c \in Nat :
                 PassFits(s, c, start, got)
                   => PassFits(t, CursorAfterRemove(c, f, k), start \ gone, got \ gone)
<1> DEFINE t == SubSeq(s, 1, f - 1) \o SubSeq(s, f + k - 1 + 1, Len(s))
           gone == {s[i] : i \in f .. f + k - 1}
           up(j) == IF j < f THEN j ELSE j + k
           down(x) == IF x < f THEN x ELSE IF x >= f + k THEN x - k ELSE 0
<1>1. Len(s) \in Nat /\ DOMAIN s = 1 .. Len(s)
  BY LenProperties
<1>2. /\ t \in Seq(Elements) /\ Len(t) = Len(s) - k
      /\ \A j \in 1 .. Len(s) - k : t[j] = IF j < f THEN s[j] ELSE s[j + k]
  BY RunRemoved
<1>3. DOMAIN t = 1 .. Len(s) - k
  BY <1>2, LenProperties
<1>4. /\ \A i \in f .. f + k - 1 : s[i] \in gone
      /\ \A w \in gone : \E i \in f .. f + k - 1 : w = s[i]
      /\ f .. f + k - 1 \subseteq 1 .. Len(s)
  BY <1>1
<1>5. NoElement \notin gone
  <2>1. \A i \in 1 .. Len(s) : s[i] \in Elements
    BY ElementOfSeq
  <2> QED
    BY <2>1, <1>4, ElementsAssumption
<1> HIDE DEF t, gone
<1>6. ASSUME NEW j \in 1 .. Len(s) - k
      PROVE  up(j) \in 1 .. Len(s) /\ up(j) \notin f .. f + k - 1 /\ t[j] = s[up(j)]
  BY <1>1, <1>2
<1>7. ASSUME NEW x \in 1 .. Len(s), s[x] \notin gone
      PROVE  down(x) \in 1 .. Len(s) - k /\ t[down(x)] = s[x]
  <2>1. x \notin f .. f + k - 1
    BY <1>4, <1>7
  <2>2. CASE x < f
    <3>1. x \in 1 .. Len(s) - k
      BY <2>2, <1>1
    <3>2. down(x) = x
      BY <2>2
    <3> QED
      BY <3>1, <3>2, <2>2, <1>2
  <2>3. CASE x >= f + k
    <3>1. x - k \in 1 .. Len(s) - k /\ ~ (x - k < f) /\ x - k + k = x
      BY <2>3, <1>1
    <3>2. down(x) = x - k
      BY <2>3, <1>1
    <3> QED
      BY <3>1, <3>2, <1>2
  <2> QED
    BY <2>1, <2>2, <2>3, <1>1
<1>8. NoRepeats(t)
  <2> SUFFICES ASSUME NEW i \in 1 .. Len(s) - k, NEW j \in 1 .. Len(s) - k, t[i] = t[j]
               PROVE  i = j
    BY <1>3 DEF NoRepeats
  <2>1. up(i) \in DOMAIN s /\ up(j) \in DOMAIN s /\ s[up(i)] = s[up(j)]
    BY <1>1, <1>6
  <2>2. up(i) = up(j)
    BY <2>1 DEF NoRepeats
  <2> QED
    BY <2>2, <1>1
<1>9. ElementsOf(s) \ gone \subseteq ElementsOf(t)
  <2> SUFFICES ASSUME NEW x \in 1 .. Len(s), s[x] \notin gone
               PROVE  s[x] \in ElementsOf(t)
    BY <1>1 DEF ElementsOf
  <2> QED
    BY <1>7, <1>3 DEF ElementsOf
<1>10. ASSUME NEW x \in Nat, NEW w, IndexFits(s, x, w)
       PROVE  IndexFits(t, down(x), IF w \in gone THEN NoElement ELSE w)
  <2>1. CASE w = NoElement
    <3>1. x = 0
      BY <2>1, <1>10 DEF IndexFits
    <3>2. down(x) = 0
      BY <3>1, <1>1
    <3> HIDE DEF down
    <3> QED
      BY <2>1, <3>2, <1>5 DEF IndexFits
  <2>2. CASE w # NoElement
    <3>1. x \in 1 .. Len(s) /\ s[x] = w
      BY <2>2, <1>10 DEF IndexFits
    <3>2. CASE w \in gone
      <4>1. PICK i \in f .. f + k - 1 : w = s[i]
        BY <3>2, <1>4
      <4>2. x = i
        BY <4>1, <3>1, <1>1, <1>4 DEF NoRepeats
      <4>3. down(x) = 0
        BY <4>2, <1>1
      <4> HIDE DEF down
      <4> QED
        BY <3>2, <4>3 DEF IndexFits
    <3>3. CASE w \notin gone
      <4>1. down(x) \in 1 .. Len(t) /\ t[down(x)] = w
        BY <3>1, <3>3, <1>7, <1>2
      <4> HIDE DEF down
      <4> QED
        BY <2>2, <3>3, <4>1 DEF IndexFits
    <3> QED
      BY <3>2, <3>3
  <2> QED
    BY <2>1, <2>2
<1>11. ASSUME NEW c \in Nat, NEW start, NEW got, PassFits(s, c, start, got)
       PROVE  PassFits(t, CursorAfterRemove(c, f, k), start \ gone, got \ gone)
  <2> DEFINE d == CursorAfterRemove(c, f, k)
  <2>1. c <= Len(s) /\ \A i \in 1 .. Len(s) : s[i] \in start => (i <= c <=> s[i] \in got)
    BY <1>11 DEF PassFits
  <2>2. d = IF c > f + k - 1 THEN c - k ELSE IF c >= f THEN f - 1 ELSE c
    BY DEF CursorAfterRemove
  <2> HIDE DEF d
  <2>3. d <= Len(s) - k
    BY <2>1, <2>2, <1>1
  <2>4. ASSUME NEW j \in 1 .. Len(s) - k, t[j] \in start \ gone
        PROVE  j <= d <=> t[j] \in got \ gone
    <3>1. /\ up(j) \in 1 .. Len(s) /\ up(j) \notin f .. f + k - 1 /\ t[j] = s[up(j)]
          /\ (j <= d <=> up(j) <= c)
      BY <1>6, <1>1, <2>1, <2>2
    <3> HIDE DEF up
    <3>2. up(j) <= c <=> s[up(j)] \in got
      BY <3>1, <2>1, <2>4
    <3> QED
      BY <3>1, <3>2, <2>4
  <2>5. PassFits(t, d, start \ gone, got \ gone)
    BY <2>3, <2>4, <1>2 DEF PassFits
  <2> QED
    BY <2>5 DEF d
<1> QED
  BY <1>2, <1>8, <1>9, <1>10, <1>11 DEF t, gone

\* An element put in another one's place.
LEMMA SetKeeps ==
    ASSUME NEW s \in Seq(Elements), NoRepeats(s), NEW f \in 1 .. Len(s),
           NEW e \in Elements, e \notin ElementsOf(s)
    PROVE  LET t == [s EXCEPT ![f] = e] IN
           /\ t \in Seq(Elements) /\ NoRepeats(t)
           /\ ElementsOf(s) \ {s[f]} \subseteq ElementsOf(t)
           /\ \A w : \A x \in Nat : IndexFits(s, x, w)
                                  => IndexFits(t, x, IF w = s[f] THEN e ELSE w)
           /\ \A start, got : \A c \in Nat :
                 start \subseteq ElementsOf(s) /\ PassFits(s, c, start, got)
                   => PassFits(t, c, start \ {s[f]}, got \ {s[f]})
<1> DEFINE t == [s EXCEPT ![f] = e]
<1>1. Len(s) \in Nat /\ DOMAIN s = 1 .. Len(s) /\ s \in [1 .. Len(s) -> Elements]
  BY LenProperties
<1>2. /\ t \in [1 .. Len(s) -> Elements] /\ t[f] = e
      /\ \A j \in 1 .. Len(s) : j # f => t[j] = s[j]
  BY <1>1
<1>3. t \in Seq(Elements) /\ Len(t) = Len(s) /\ DOMAIN t = 1 .. Len(s)
  <2> HIDE DEF t
  <2> QED
    BY <1>1, <1>2, FunctionIsSeq
<1>4. /\ e # NoElement /\ s[f] # NoElement
      /\ \A j \in 1 .. Len(s) : s[j] # e /\ (j # f => s[j] # s[f])
  BY <1>1, ElementsAssumption DEF NoRepeats, ElementsOf
<1> HIDE DEF t
<1>5. NoRepeats(t)
  <2> SUFFICES ASSUME NEW i \in 1 .. Len(s), NEW j \in 1 .. Len(s), t[i] = t[j]
               PROVE  i = j
    BY <1>3 DEF NoRepeats
  <2>1. CASE i # f /\ j # f
    BY <2>1, <1>1, <1>2 DEF NoRepeats
  <2>2. CASE i = f \/ j = f
    BY <2>2, <1>2, <1>4
  <2> QED
    BY <2>1, <2>2
<1>6. ElementsOf(s) \ {s[f]} \subseteq ElementsOf(t)
  BY <1>1, <1>2, <1>3 DEF ElementsOf
<1>7. ASSUME NEW x \in Nat, NEW w, IndexFits(s, x, w)
      PROVE  IndexFits(t, x, IF w = s[f] THEN e ELSE w)
  <2>1. CASE w = NoElement
    BY <2>1, <1>7, <1>4 DEF IndexFits
  <2>2. CASE w # NoElement
    <3>1. x \in 1 .. Len(s) /\ s[x] = w
      BY <2>2, <1>7 DEF IndexFits
    <3>2. CASE x = f
      BY <3>1, <3>2, <1>2, <1>3, <1>4 DEF IndexFits
    <3>3. CASE x # f
      <4>1. w # s[f] /\ t[x] = w
        BY <3>1, <3>3, <1>2, <1>4
      <4> QED
        BY <4>1, <3>1, <2>2, <1>3 DEF IndexFits
    <3> QED
      BY <3>2, <3>3
  <2> QED
    BY <2>1, <2>2
<1>8. ASSUME NEW c \in Nat, NEW start, NEW got, start \subseteq ElementsOf(s),
             PassFits(s, c, start, got)
      PROVE  PassFits(t, c, start \ {s[f]}, got \ {s[f]})
  <2>1. c <= Len(s) /\ \A i \in 1 .. Len(s) : s[i] \in start => (i <= c <=> s[i] \in got)
    BY <1>8 DEF PassFits
  <2>2. ASSUME NEW j \in 1 .. Len(s), t[j] \in start \ {s[f]}
        PROVE  j <= c <=> t[j] \in got \ {s[f]}
    <3>1. j # f
      BY <2>2, <1>2, <1>8
    <3>2. t[j] = s[j] /\ s[j] # s[f]
      BY <3>1, <1>2, <1>4
    <3> QED
      BY <3>2, <2>1, <2>2
  <2> QED
    BY <2>1, <2>2, <1>3 DEF PassFits
<1> QED
  BY <1>3, <1>5, <1>6, <1>7, <1>8 DEF t

\* The list t has the elements of s in another order: to[x] is the new place of
\* the element at x, and from[j] the old place of the one at j.
Rearranged(s, t, to, from) ==
    /\ t \in Seq(Elements) /\ Len(t) = Len(s)
    /\ to \in [1 .. Len(s) -> 1 .. Len(s)] /\ from \in [1 .. Len(s) -> 1 .. Len(s)]
    /\ \A j \in 1 .. Len(s) : t[j] = s[from[j]] /\ to[from[j]] = j /\ from[to[j]] = j

\* A rearrangement repeats nothing, and every element is at its new place.
LEMMA RearrangementKeeps ==
    ASSUME NEW s \in Seq(Elements), NoRepeats(s), NEW t, NEW to, NEW from,
           Rearranged(s, t, to, from)
    PROVE  /\ NoRepeats(t)
           /\ \A x \in 1 .. Len(s) : t[to[x]] = s[x]
<1>0. /\ t \in Seq(Elements) /\ Len(t) = Len(s)
      /\ to \in [1 .. Len(s) -> 1 .. Len(s)] /\ from \in [1 .. Len(s) -> 1 .. Len(s)]
      /\ \A j \in 1 .. Len(s) : t[j] = s[from[j]] /\ to[from[j]] = j /\ from[to[j]] = j
  BY DEF Rearranged
<1>1. Len(s) \in Nat /\ DOMAIN s = 1 .. Len(s) /\ DOMAIN t = 1 .. Len(s)
  BY <1>0, LenProperties
<1>2. NoRepeats(t)
  <2> SUFFICES ASSUME NEW i \in 1 .. Len(s), NEW j \in 1 .. Len(s), t[i] = t[j]
               PROVE  i = j
    BY <1>1 DEF NoRepeats
  <2>1. from[i] \in DOMAIN s /\ from[j] \in DOMAIN s /\ s[from[i]] = s[from[j]]
    BY <1>0, <1>1
  <2>2. from[i] = from[j]
    BY <2>1 DEF NoRepeats
  <2>3. to[from[i]] = i /\ to[from[j]] = j
    BY <1>0
  <2> QED
    BY <2>2, <2>3
<1>3. ASSUME NEW x \in 1 .. Len(s)
      PROVE  t[to[x]] = s[x]
  <2>1. to[x] \in 1 .. Len(s)
    BY <1>0
  <2>2. t[to[x]] = s[from[to[x]]] /\ from[to[x]] = x
    BY <1>0, <2>1
  <2> QED
    BY <2>2
<1> QED
  BY <1>2, <1>3

\* An element moved.
LEMMA MoveKeeps ==
    ASSUME NEW s \in Seq(Elements), NoRepeats(s), NEW f \in 1 .. Len(s), NEW k \in 1 .. Len(s)
    PROVE  LET t == InsertAt(RemoveAt(s, f), k, s[f]) IN
           /\ t \in Seq(Elements) /\ NoRepeats(t) /\ Len(t) = Len(s)
           /\ \A w : \A x \in Nat : IndexFits(s, x, w) => IndexFits(t, IndexAfterMove(x, f, k), w)
<1> DEFINE t == InsertAt(RemoveAt(s, f), k, s[f])
<1>1. Len(s) \in Nat
  BY LenProperties
<1>2. /\ t \in Seq(Elements) /\ Len(t) = Len(s)
      /\ \A j \in 1 .. Len(s) : t[j] = s[IndexAfterMove(j, k, f)]
  <2>1. WithOneMoved(Elements, t, s, f, k)
    BY MovedProperties
  <2> HIDE DEF t
  <2> QED
    BY <2>1 DEF WithOneMoved
<1> DEFINE to == [x \in 1 .. Len(s) |-> IndexAfterMove(x, f, k)]
           from == [x \in 1 .. Len(s) |-> IndexAfterMove(x, k, f)]
<1> HIDE DEF t
<1>3. \A x \in 1 .. Len(s) : /\ IndexAfterMove(x, f, k) \in 1 .. Len(s)
                             /\ IndexAfterMove(IndexAfterMove(x, f, k), k, f) = x
  BY <1>1, MoveAndBack
<1>4. \A x \in 1 .. Len(s) : /\ IndexAfterMove(x, k, f) \in 1 .. Len(s)
                             /\ IndexAfterMove(IndexAfterMove(x, k, f), f, k) = x
  BY <1>1, MoveAndBack
<1>5. /\ to \in [1 .. Len(s) -> 1 .. Len(s)] /\ from \in [1 .. Len(s) -> 1 .. Len(s)]
      /\ \A x \in 1 .. Len(s) : to[x] = IndexAfterMove(x, f, k) /\ from[x] = IndexAfterMove(x, k, f)
  BY <1>3, <1>4
<1> HIDE DEF to, from
<1>6. \A j \in 1 .. Len(s) : t[j] = s[from[j]] /\ to[from[j]] = j /\ from[to[j]] = j
  BY <1>2, <1>3, <1>4, <1>5
<1>7. /\ NoRepeats(t)
      /\ \A x \in 1 .. Len(s) : t[to[x]] = s[x]
  <2>1. Rearranged(s, t, to, from)
    BY <1>2, <1>5, <1>6 DEF Rearranged
  <2> QED
    BY <2>1, RearrangementKeeps
<1>8. ASSUME NEW x \in Nat, NEW w, IndexFits(s, x, w)
      PROVE  IndexFits(t, IndexAfterMove(x, f, k), w)
  <2>1. CASE w = NoElement
    <3>1. IndexAfterMove(0, f, k) = 0
      BY <1>1 DEF IndexAfterMove
    <3> QED
      BY <2>1, <3>1, <1>8 DEF IndexFits
  <2>2. CASE w # NoElement
    <3>1. x \in 1 .. Len(s) /\ s[x] = w
      BY <2>2, <1>8 DEF IndexFits
    <3>2. IndexAfterMove(x, f, k) \in 1 .. Len(t) /\ t[IndexAfterMove(x, f, k)] = w
      BY <3>1, <1>2, <1>3, <1>5, <1>7
    <3> QED
      BY <3>2, <2>2 DEF IndexFits
  <2> QED
    BY <2>1, <2>2
<1> QED
  BY <1>2, <1>7, <1>8 DEF t

\* Two elements that have changed places.
LEMMA SwapKeeps ==
    ASSUME NEW s \in Seq(Elements), NoRepeats(s), NEW f \in 1 .. Len(s), NEW k \in 1 .. Len(s)
    PROVE  LET t == [s EXCEPT ![f] = s[k], ![k] = s[f]] IN
           /\ t \in Seq(Elements) /\ NoRepeats(t) /\ Len(t) = Len(s)
           /\ \A w : \A x \in Nat : IndexFits(s, x, w)
                                  => IndexFits(t, IF x = f THEN k ELSE IF x = k THEN f ELSE x, w)
<1> DEFINE t == [s EXCEPT ![f] = s[k], ![k] = s[f]]
           to == [x \in 1 .. Len(s) |-> IF x = f THEN k ELSE IF x = k THEN f ELSE x]
<1>1. Len(s) \in Nat /\ DOMAIN s = 1 .. Len(s) /\ s \in [1 .. Len(s) -> Elements]
  BY LenProperties
<1>2. /\ t \in [1 .. Len(s) -> Elements]
      /\ \A j \in 1 .. Len(s) : t[j] = s[to[j]]
  BY <1>1
<1>3. t \in Seq(Elements) /\ Len(t) = Len(s) /\ DOMAIN t = 1 .. Len(s)
  <2> HIDE DEF t
  <2> QED
    BY <1>1, <1>2, FunctionIsSeq
<1>4. to \in [1 .. Len(s) -> 1 .. Len(s)] /\ \A j \in 1 .. Len(s) : to[to[j]] = j
  OBVIOUS
<1>5. \A x \in 1 .. Len(s) : to[x] = IF x = f THEN k ELSE IF x = k THEN f ELSE x
  OBVIOUS
<1> HIDE DEF t, to
<1>6. /\ NoRepeats(t)
      /\ \A x \in 1 .. Len(s) : t[to[x]] = s[x]
  <2>1. Rearranged(s, t, to, to)
    BY <1>2, <1>3, <1>4 DEF Rearranged
  <2> QED
    BY <2>1, RearrangementKeeps
<1>7. ASSUME NEW x \in Nat, NEW w, IndexFits(s, x, w)
      PROVE  IndexFits(t, IF x = f THEN k ELSE IF x = k THEN f ELSE x, w)
  <2>1. CASE w = NoElement
    <3>1. x # f /\ x # k
      BY <2>1, <1>7 DEF IndexFits
    <3> QED
      BY <2>1, <3>1, <1>7 DEF IndexFits
  <2>2. CASE w # NoElement
    <3>1. x \in 1 .. Len(s) /\ s[x] = w
      BY <2>2, <1>7 DEF IndexFits
    <3>2. to[x] \in 1 .. Len(t) /\ t[to[x]] = w
      BY <3>1, <1>3, <1>4, <1>6
    <3>3. IndexFits(t, to[x], w)
      BY <3>2, <2>2 DEF IndexFits
    <3> QED
      BY <3>1, <3>3, <1>5
  <2> QED
    BY <2>1, <2>2
<1> QED
  BY <1>3, <1>6, <1>7 DEF t

\* What is left from place f on.
LEMMA RestKeeps ==
    ASSUME NEW s \in Seq(Elements), NoRepeats(s), NEW f \in 1 .. Len(s)
    PROVE  SubSeq(s, f, Len(s)) \in Seq(Elements) /\ NoRepeats(SubSeq(s, f, Len(s)))
<1> DEFINE t == SubSeq(s, f, Len(s))
<1>1. Len(s) \in Nat /\ DOMAIN s = 1 .. Len(s) /\ \A j \in 1 .. Len(s) : s[j] \in Elements
  BY LenProperties, ElementOfSeq
<1>2. /\ t \in Seq(Elements) /\ Len(t) = Len(s) - f + 1
      /\ \A j \in 1 .. Len(s) - f + 1 : t[j] = s[f + j - 1]
  BY <1>1, SubSeqProperties
<1>3. DOMAIN t = 1 .. Len(s) - f + 1
  BY <1>2, LenProperties
<1> HIDE DEF t
<1>4. ASSUME NEW i \in DOMAIN t, NEW j \in DOMAIN t, t[i] = t[j]
      PROVE  i = j
  <2>0. i \in 1 .. Len(s) - f + 1 /\ j \in 1 .. Len(s) - f + 1
    BY <1>3
  <2>1. f + i - 1 \in DOMAIN s /\ f + j - 1 \in DOMAIN s
    BY <1>1, <2>0
  <2>2. s[f + i - 1] = s[f + j - 1]
    BY <1>2, <1>4, <2>0
  <2>3. f + i - 1 = f + j - 1
    BY <2>1, <2>2 DEF NoRepeats
  <2> QED
    BY <2>3, <2>0
<1> QED
  BY <1>2, <1>4 DEF t, NoRepeats

-----------------------------------------------------------------------------
(* Types.                                                                  *)

\* A change under way begins at a place, which is never 0: the cursor that falls
\* to the left edge of what was removed is first - 1.
ChangeOK(m) == m \in Change /\ m.first >= 1

StackOK == /\ stack \in Seq(Change) /\ Len(stack) <= MaxNesting
           /\ \A d \in 1 .. Len(stack) : ChangeOK(stack[d])

IndicesOK == /\ tracked \in [1 .. Listeners -> Nat]
             /\ watched \in [1 .. Listeners -> Elements \cup {NoElement}]

TypeInv == /\ elements \in Seq(Elements)
           /\ StackOK
           /\ IndicesOK
           /\ iterator \in [Iterators -> Iterator]

\* The change as it is sent.
Sent(what, first, second) ==
    [what |-> what, first |-> first, second |-> second, told |-> 0, busy |-> FALSE]

\* Contents and N, for the lemmas about sequences.
LEMMA ContentsIsElements ==
    ASSUME elements \in Seq(Elements)
    PROVE  /\ N = Len(elements) /\ N \in Nat /\ Contents = ElementsOf(elements)
           /\ DOMAIN elements = 1 .. N /\ Contents \subseteq Elements
           /\ \A i \in 1 .. N : elements[i] \in Elements /\ elements[i] \in Contents
<1>1. /\ Len(elements) \in Nat /\ DOMAIN elements = 1 .. Len(elements)
      /\ \A i \in 1 .. Len(elements) : elements[i] \in Elements
  BY LenProperties, ElementOfSeq
<1> QED
  BY <1>1 DEF N, Contents, ElementsOf

\* What an iterator is after each of the ways to change one.
LEMMA IteratorFields ==
    ASSUME NEW r \in Iterator, NEW c \in Nat, NEW A \in SUBSET Elements, NEW B \in SUBSET Elements
    PROVE  /\ [r EXCEPT !.start = A, !.got = B] \in Iterator
           /\ [r EXCEPT !.cursor = c] \in Iterator
           /\ [r EXCEPT !.cursor = c, !.got = B] \in Iterator
           /\ [r EXCEPT !.cursor = c, !.start = A, !.got = B] \in Iterator
BY DEF Iterator

\* Sending a change is pushing it.
LEMMA SendPushes ==
    ASSUME StackOK,
           NEW what \in {"inserted", "removed", "moved", "swapped", "changed"},
           NEW f \in Nat \ {0}, NEW k \in Nat, Send(what, f, k)
    PROVE  /\ StackOK' /\ ChangeOK(Sent(what, f, k))
           /\ stack = <<>> => stack' = <<Sent(what, f, k)>>
<1> DEFINE m == Sent(what, f, k)
<1>1. ChangeOK(m)
  BY BoundsAssumption DEF ChangeOK, Change, Sent
<1>2. stack' = Append(stack, m) /\ Len(stack) < MaxNesting
  BY DEF Send, Sent
<1>3. m \in Change
  BY <1>1 DEF ChangeOK
<1> HIDE DEF m
<1> DEFINE n == Len(stack)
<1>4. n \in Nat /\ n < MaxNesting /\ MaxNesting \in Nat
  BY <1>2, LenProperties, BoundsAssumption DEF StackOK
<1>5. stack \in Seq(Change) /\ \A d \in 1 .. n : ChangeOK(stack[d])
  BY DEF StackOK
<1>6. /\ stack' \in Seq(Change) /\ Len(stack') = n + 1 /\ stack'[n + 1] = m
      /\ \A d \in 1 .. n : stack'[d] = stack[d]
  BY <1>2, <1>3, <1>5, AppendProperties
<1> HIDE DEF n
<1>7. StackOK'
  <2>1. \A d \in 1 .. n + 1 : ChangeOK(stack'[d])
    <3> SUFFICES ASSUME NEW d \in 1 .. n + 1
                 PROVE  ChangeOK(stack'[d])
      OBVIOUS
    <3>1. d = n + 1 \/ d \in 1 .. n
      BY <1>4
    <3> QED
      BY <3>1, <1>1, <1>5, <1>6 DEF m
  <2>2. n + 1 <= MaxNesting
    BY <1>4
  <2>3. \A d \in 1 .. Len(stack') : ChangeOK(stack'[d])
    BY <2>1, <1>6
  <2> QED
    BY <2>2, <2>3, <1>6 DEF StackOK
<1>8. stack = <<>> => stack' = <<m>>
  BY <1>2
<1> QED
  BY <1>1, <1>7, <1>8 DEF m

\* The innermost change under way.
LEMMA LastChange ==
    ASSUME StackOK, stack # <<>>
    PROVE  /\ Len(stack) \in Nat /\ Len(stack) >= 1 /\ Last(stack) = stack[Len(stack)]
           /\ ChangeOK(Last(stack))
<1>1. Len(stack) \in Nat /\ Len(stack) >= 1
  BY LenProperties, EmptySeq DEF StackOK
<1> QED
  BY <1>1 DEF Last, StackOK

\* The change m is g, told to t listeners.
ToldTo(m, g, t, b) ==
    /\ ChangeOK(m) /\ m.what = g.what /\ m.first = g.first /\ m.second = g.second
    /\ m.told = t /\ m.busy = b

\* The list st is stack with m as its innermost change.
Innermost(st, m) ==
    /\ st \in Seq(Change) /\ Len(st) = Len(stack)
    /\ \A d \in 1 .. Len(stack) :
          ChangeOK(st[d]) /\ st[d] = IF d = Len(stack) THEN m ELSE stack[d]

\* Replacing the innermost change by one told to another number of listeners.
LEMMA LastChanged ==
    ASSUME StackOK, stack # <<>>, NEW t \in 0 .. Listeners, NEW b \in BOOLEAN,
           NEW m, m = [Last(stack) EXCEPT !.told = t, !.busy = b]
    PROVE  /\ ToldTo(m, Last(stack), t, b)
           /\ Innermost([stack EXCEPT ![Len(stack)] = m], m)
<1>1. /\ Len(stack) \in Nat /\ Len(stack) >= 1 /\ Last(stack) = stack[Len(stack)]
      /\ ChangeOK(Last(stack))
  BY LastChange
<1>2. Last(stack) \in Change /\ Last(stack).first >= 1
  BY <1>1 DEF ChangeOK
<1> DEFINE g == Last(stack)
<1> HIDE DEF g
<1>3. /\ [g EXCEPT !.told = t, !.busy = b] \in Change
      /\ [g EXCEPT !.told = t, !.busy = b].what = g.what
      /\ [g EXCEPT !.told = t, !.busy = b].first = g.first
      /\ [g EXCEPT !.told = t, !.busy = b].second = g.second
      /\ [g EXCEPT !.told = t, !.busy = b].told = t
      /\ [g EXCEPT !.told = t, !.busy = b].busy = b
  BY <1>2 DEF g, Change
<1>4. /\ m \in Change /\ m.what = Last(stack).what /\ m.first = Last(stack).first
      /\ m.second = Last(stack).second /\ m.told = t /\ m.busy = b
  BY <1>3 DEF g
<1>5. ChangeOK(m)
  BY <1>2, <1>4 DEF ChangeOK
<1>6. stack \in [1 .. Len(stack) -> Change]
  BY LenProperties DEF StackOK
<1> DEFINE n == Len(stack)
           s == [stack EXCEPT ![n] = m]
<1>7. n \in Nat /\ n \in 1 .. n
  BY <1>1
<1>8. \A d \in 1 .. n : ChangeOK(stack[d])
  BY DEF StackOK
<1>9. stack \in [1 .. n -> Change]
  BY <1>6
<1> HIDE DEF n
<1>10. s \in [1 .. n -> Change] /\ \A d \in 1 .. n : s[d] = IF d = n THEN m ELSE stack[d]
  BY <1>4, <1>9
<1>11. \A d \in 1 .. n : ChangeOK(s[d])
  BY <1>5, <1>8, <1>10
<1>12. s \in Seq(Change) /\ Len(s) = n
  <2> HIDE DEF s
  <2> QED
    BY <1>7, <1>10, FunctionIsSeq
<1> QED
  BY <1>4, <1>5, <1>10, <1>11, <1>12 DEF n, ToldTo, Innermost

\* An adjusted index is an index, or 0, and a cursor told of a change is a cursor.
LEMMA AdjustedTypes ==
    ASSUME NEW m, ChangeOK(m), NEW x \in Nat, NEW task \in BOOLEAN
    PROVE  AdjustedIndex(m, x) \in Nat /\ CursorNext(task, x, m) \in Nat
<1>1. /\ m.first \in Nat /\ m.first >= 1 /\ m.second \in Nat
      /\ m.what \in {"inserted", "removed", "moved", "swapped", "changed"}
  BY DEF ChangeOK, Change
<1>2. IndexAfterMove(x, m.first, m.second) \in Nat
  BY <1>1 DEF IndexAfterMove
<1>3. /\ CursorAfterInsert(x, m.first, m.second) \in Nat
      /\ CursorAfterRemove(x, m.first, m.second) \in Nat
      /\ TaskCursorAfterInsert(x, m.first, m.second) \in Nat
  BY <1>1 DEF CursorAfterInsert, CursorAfterRemove, TaskCursorAfterInsert
<1>4. AdjustedIndex(m, x) \in Nat
  <2>1. CASE m.what = "inserted"
    BY <2>1, <1>1 DEF AdjustedIndex
  <2>2. CASE m.what = "removed"
    BY <2>2, <1>1 DEF AdjustedIndex
  <2>3. CASE m.what = "moved"
    BY <2>3, <1>2 DEF AdjustedIndex
  <2>4. CASE m.what = "swapped"
    BY <2>4, <1>1 DEF AdjustedIndex
  <2>5. CASE m.what = "changed"
    BY <2>5 DEF AdjustedIndex
  <2> QED
    BY <1>1, <2>1, <2>2, <2>3, <2>4, <2>5
<1>5. CursorNext(task, x, m) \in Nat
  <2>1. CASE m.what = "inserted"
    BY <2>1, <1>3 DEF CursorNext
  <2>2. CASE m.what = "removed"
    BY <2>2, <1>3 DEF CursorNext
  <2>3. CASE m.what \notin {"inserted", "removed"}
    BY <2>3 DEF CursorNext
  <2> QED
    BY <2>1, <2>2, <2>3
<1> QED
  BY <1>4, <1>5

\* An iterator told of a change has another cursor, and nothing else.
LEMMA NotifiedIterator ==
    ASSUME NEW m, ChangeOK(m), NEW r \in Iterator
    PROVE  /\ Notified(r, m) \in Iterator
           /\ Notified(r, m).on = r.on /\ Notified(r, m).task = r.task
           /\ Notified(r, m).cursor = CursorNext(r.task, r.cursor, m)
           /\ Notified(r, m).start = r.start /\ Notified(r, m).got = r.got
<1>1. r.cursor \in Nat /\ r.task \in BOOLEAN /\ r.on \in BOOLEAN
      /\ r.start \in SUBSET Elements /\ r.got \in SUBSET Elements
  BY DEF Iterator
<1> DEFINE c == CursorNext(r.task, r.cursor, m)
<1>2. c \in Nat
  BY <1>1, AdjustedTypes
<1>3. /\ m.what = "inserted" \/ m.what = "removed" => Notified(r, m) = [r EXCEPT !.cursor = c]
      /\ ~ (m.what = "inserted" \/ m.what = "removed") => Notified(r, m) = r /\ c = r.cursor
  BY DEF Notified, CursorNext
<1> HIDE DEF c
<1>4. /\ [r EXCEPT !.cursor = c] \in Iterator
      /\ [r EXCEPT !.cursor = c].on = r.on
      /\ [r EXCEPT !.cursor = c].task = r.task
      /\ [r EXCEPT !.cursor = c].cursor = c
      /\ [r EXCEPT !.cursor = c].start = r.start
      /\ [r EXCEPT !.cursor = c].got = r.got
  BY <1>2 DEF Iterator
<1> QED
  BY <1>3, <1>4 DEF c

\* Forgetting elements in every pass.
LEMMA ForgottenTypes ==
    ASSUME NEW gone, iterator \in [Iterators -> Iterator]
    PROVE  Forgotten(gone) \in [Iterators -> Iterator]
<1> SUFFICES ASSUME NEW it \in Iterators
             PROVE  [iterator[it] EXCEPT !.start = @ \ gone, !.got = @ \ gone] \in Iterator
  BY DEF Forgotten
<1> DEFINE r == iterator[it]
<1>1. r \in Iterator
  OBVIOUS
<1>2. r.start \in SUBSET Elements /\ r.got \in SUBSET Elements /\ r.cursor \in Nat
  BY <1>1 DEF Iterator
<1>3. r.start \ gone \in SUBSET Elements /\ r.got \ gone \in SUBSET Elements
  BY <1>2
<1> HIDE DEF r
<1>4. [r EXCEPT !.start = r.start \ gone, !.got = r.got \ gone] \in Iterator
  BY <1>1, <1>2, <1>3, IteratorFields
<1> QED
  BY <1>4 DEF r

\* Insert keeps the types.
LEMMA InsertTypes ==
    ASSUME TypeInv, NEW e \in Elements, NEW i \in 1 .. N + 2, Insert(e, i)
    PROVE  TypeInv'
<1> DEFINE f == IF i <= N THEN i ELSE N + 1
<1>1. /\ N = Len(elements) /\ N \in Nat
  BY ContentsIsElements DEF TypeInv
<1>2. f \in 1 .. Len(elements) + 1
  BY <1>1
<1>3. /\ elements' = InsertAt(elements, f, e) /\ Send("inserted", f, 1)
      /\ iterator' = [it \in Iterators |->
               IF iterator[it].on /\ iterator[it].task /\ f = 1
               THEN [iterator[it] EXCEPT !.start = @ \cup {e}, !.got = @ \cup {e}]
               ELSE iterator[it]]
      /\ tracked' = tracked /\ watched' = watched
  BY DEF Insert
<1> HIDE DEF f
<1>4. elements' \in Seq(Elements)
  <2>1. WithOneMore(Elements, elements', elements, f, e)
    BY <1>2, <1>3, InsertAtProperties DEF TypeInv
  <2> QED
    BY <2>1 DEF WithOneMore
<1>5. StackOK'
  <2>1. f \in Nat \ {0} /\ 1 \in Nat
    BY <1>1, <1>2
  <2> QED
    BY <2>1, <1>3, SendPushes DEF TypeInv
<1>6. iterator' \in [Iterators -> Iterator]
  <2> SUFFICES ASSUME NEW it \in Iterators
               PROVE  [iterator[it] EXCEPT !.start = @ \cup {e}, !.got = @ \cup {e}] \in Iterator
    BY <1>3 DEF TypeInv
  <2> DEFINE r == iterator[it]
  <2>1. r \in Iterator
    BY DEF TypeInv
  <2>2. r.start \in SUBSET Elements /\ r.got \in SUBSET Elements /\ r.cursor \in Nat
    BY <2>1 DEF Iterator
  <2>3. r.start \cup {e} \in SUBSET Elements /\ r.got \cup {e} \in SUBSET Elements
    BY <2>2
  <2> HIDE DEF r
  <2>4. [r EXCEPT !.start = r.start \cup {e}, !.got = r.got \cup {e}] \in Iterator
    BY <2>1, <2>2, <2>3, IteratorFields
  <2> QED
    BY <2>4 DEF r
<1> QED
  BY <1>3, <1>4, <1>5, <1>6 DEF TypeInv, IndicesOK

\* Remove keeps the types.
LEMMA RemoveTypes ==
    ASSUME TypeInv, NEW i \in 1 .. N, NEW j \in 1 .. N, RemoveNextElements(i, j)
    PROVE  TypeInv'
<1> DEFINE gone == {elements[d] : d \in i .. i + j - 1}
<1>1. /\ N = Len(elements) /\ N \in Nat
  BY ContentsIsElements DEF TypeInv
<1>2. /\ i + j - 1 <= Len(elements)
      /\ elements' = SubSeq(elements, 1, i - 1) \o SubSeq(elements, i + j - 1 + 1, Len(elements))
      /\ Send("removed", i, j) /\ iterator' = Forgotten(gone) /\ tracked' = tracked
      /\ watched' = [l \in 1 .. Listeners |->
                       IF watched[l] \in gone THEN NoElement ELSE watched[l]]
  BY <1>1 DEF RemoveNextElements, N
<1> HIDE DEF gone
<1>3. elements' \in Seq(Elements)
  BY <1>1, <1>2, RunRemoved DEF TypeInv
<1>4. StackOK'
  BY <1>1, <1>2, SendPushes DEF TypeInv
<1>5. iterator' \in [Iterators -> Iterator]
  BY <1>2, ForgottenTypes DEF TypeInv
<1>6. IndicesOK'
  BY <1>2 DEF TypeInv, IndicesOK
<1> QED
  BY <1>3, <1>4, <1>5, <1>6 DEF TypeInv

\* Set keeps the types.
LEMMA SetTypes ==
    ASSUME TypeInv, NEW e \in Elements, NEW i \in 1 .. N, Set(i, e)
    PROVE  TypeInv'
<1>1. /\ N = Len(elements) /\ N \in Nat
  BY ContentsIsElements DEF TypeInv
<1>2. elements \in [1 .. N -> Elements]
  BY <1>1, LenProperties DEF TypeInv
<1>3. [elements EXCEPT ![i] = e] \in [1 .. N -> Elements]
  BY <1>2
<1>4. elements' \in Seq(Elements)
  <2>1. elements' \in [1 .. N -> Elements]
    BY <1>3 DEF Set
  <2> QED
    BY <1>1, <2>1, FunctionIsSeq
<1>5. StackOK'
  <2>1. Send("changed", i, i) /\ i \in Nat \ {0} /\ i \in Nat
    BY <1>1 DEF Set
  <2> QED
    BY <2>1, SendPushes DEF TypeInv
<1>6. iterator' \in [Iterators -> Iterator]
  BY ForgottenTypes DEF TypeInv, Set
<1>7. IndicesOK'
  BY DEF TypeInv, IndicesOK, Set
<1> QED
  BY <1>4, <1>5, <1>6, <1>7 DEF TypeInv

\* Move keeps the types.
LEMMA MoveTypes ==
    ASSUME TypeInv, NEW i \in 1 .. N, NEW j \in 1 .. N, Move(i, j)
    PROVE  TypeInv'
<1>1. /\ N = Len(elements) /\ N \in Nat
  BY ContentsIsElements DEF TypeInv
<1>2. elements' \in Seq(Elements)
  <2>1. WithOneMoved(Elements, elements', elements, i, j)
    BY <1>1, MovedProperties DEF TypeInv, Move
  <2> QED
    BY <2>1 DEF WithOneMoved
<1>3. StackOK'
  <2>1. Send("moved", i, j) /\ i \in Nat \ {0} /\ j \in Nat
    BY <1>1 DEF Move
  <2> QED
    BY <2>1, SendPushes DEF TypeInv
<1>4. iterator' \in [Iterators -> Iterator]
  BY ForgottenTypes DEF TypeInv, Move
<1> QED
  BY <1>2, <1>3, <1>4 DEF TypeInv, IndicesOK, Move

\* Swap keeps the types.
LEMMA SwapTypes ==
    ASSUME TypeInv, NEW i \in 1 .. N, NEW j \in 1 .. N, SwapElements(i, j)
    PROVE  TypeInv'
<1>1. /\ N = Len(elements) /\ N \in Nat
  BY ContentsIsElements DEF TypeInv
<1>2. elements \in [1 .. N -> Elements]
  BY <1>1, LenProperties DEF TypeInv
<1>3. elements' \in Seq(Elements)
  <2>1. elements' \in [1 .. N -> Elements]
    BY <1>2 DEF SwapElements
  <2> QED
    BY <1>1, <2>1, FunctionIsSeq
<1>4. StackOK'
  <2>1. Send("swapped", i, j) /\ i \in Nat \ {0} /\ j \in Nat
    BY <1>1 DEF SwapElements
  <2> QED
    BY <2>1, SendPushes DEF TypeInv
<1>5. iterator' \in [Iterators -> Iterator]
  BY ForgottenTypes DEF TypeInv, SwapElements
<1> QED
  BY <1>3, <1>4, <1>5 DEF TypeInv, IndicesOK, SwapElements

\* Assign keeps the types.
LEMMA AssignTypes ==
    ASSUME TypeInv, NEW i \in 1 .. N, Assign(SubSeq(elements, i, N))
    PROVE  TypeInv'
<1>1. /\ N = Len(elements) /\ N \in Nat
      /\ \A d \in 1 .. N : elements[d] \in Elements
  BY ContentsIsElements DEF TypeInv
<1>2. SubSeq(elements, i, N) \in Seq(Elements)
  BY <1>1, SubSeqProperties DEF TypeInv
<1>3. iterator' \in [Iterators -> Iterator]
  <2>1. iterator' = [it \in Iterators |->
                       [iterator[it] EXCEPT !.cursor = 0, !.start = {}, !.got = {}]]
    BY DEF Assign
  <2>2. ASSUME NEW it \in Iterators
        PROVE  [iterator[it] EXCEPT !.cursor = 0, !.start = {}, !.got = {}] \in Iterator
    <3>1. iterator[it] \in Iterator
      BY DEF TypeInv
    <3>2. {} \in SUBSET Elements
      OBVIOUS
    <3> QED
      BY <3>1, <3>2, IteratorFields
  <2> QED
    BY <2>1, <2>2
<1> QED
  BY <1>2, <1>3 DEF TypeInv, Assign, IndicesOK, StackOK

\* Tell keeps the types.
LEMMA TellTypes ==
    ASSUME TypeInv, Tell
    PROVE  TypeInv'
<1> DEFINE g == Last(stack)
           m == [g EXCEPT !.told = g.told + 1, !.busy = TRUE]
<1>1. /\ stack # <<>> /\ g.told < Listeners
      /\ tracked' = [tracked EXCEPT ![g.told + 1] = AdjustedIndex(g, @)]
      /\ elements' = elements /\ watched' = watched /\ iterator' = iterator
  BY DEF Tell
<1>2. /\ Len(stack) \in Nat /\ Len(stack) >= 1 /\ g = stack[Len(stack)] /\ ChangeOK(g)
  BY <1>1, LastChange DEF TypeInv
<1>3. g.told + 1 \in 1 .. Listeners /\ g.told + 1 \in 0 .. Listeners
  <2>1. g.told \in 0 .. Listeners
    BY <1>2 DEF ChangeOK, Change
  <2> QED
    BY <2>1, <1>1, BoundsAssumption
<1>4. stack' = [stack EXCEPT ![Len(stack)] = m]
  <2>1. stack' = [stack EXCEPT ![Len(stack)].told = @ + 1, ![Len(stack)].busy = TRUE]
    BY DEF Tell
  <2>2. stack' = [stack EXCEPT ![Len(stack)] =
                    [[stack[Len(stack)] EXCEPT !.told = @ + 1] EXCEPT !.busy = TRUE]]
    BY <2>1, <1>2 DEF TypeInv, StackOK
  <2> QED
    BY <2>2, <1>2
<1>5. StackOK'
  <2>1. Innermost([stack EXCEPT ![Len(stack)] = m], m)
    BY <1>1, <1>3, LastChanged DEF TypeInv
  <2> HIDE DEF m
  <2>2. Innermost(stack', m)
    BY <2>1, <1>4
  <2> QED
    BY <2>2 DEF TypeInv, StackOK, Innermost
<1>6. tracked' \in [1 .. Listeners -> Nat]
  <2>1. \A x \in Nat : AdjustedIndex(g, x) \in Nat
    <3> HIDE DEF g
    <3> QED
      BY <1>2, AdjustedTypes
  <2> HIDE DEF g
  <2> QED
    BY <1>1, <1>3, <2>1 DEF TypeInv, IndicesOK
<1> QED
  BY <1>1, <1>5, <1>6 DEF TypeInv, IndicesOK

\* Return keeps the types.
LEMMA ReturnTypes ==
    ASSUME TypeInv, Return
    PROVE  TypeInv'
<1> DEFINE g == Last(stack)
           m == [g EXCEPT !.told = g.told, !.busy = FALSE]
<1>1. /\ stack # <<>>
      /\ elements' = elements /\ watched' = watched /\ iterator' = iterator /\ tracked' = tracked
  BY DEF Return
<1>2. /\ Len(stack) \in Nat /\ Len(stack) >= 1 /\ g = stack[Len(stack)] /\ ChangeOK(g)
  BY <1>1, LastChange DEF TypeInv
<1>3. g.told \in 0 .. Listeners /\ m = [g EXCEPT !.busy = FALSE]
  BY <1>2 DEF ChangeOK, Change
<1>4. stack' = [stack EXCEPT ![Len(stack)] = m]
  <2>1. stack' = [stack EXCEPT ![Len(stack)].busy = FALSE]
    BY DEF Return
  <2>2. stack' = [stack EXCEPT ![Len(stack)] = [stack[Len(stack)] EXCEPT !.busy = FALSE]]
    BY <2>1
  <2> QED
    BY <2>2, <1>2, <1>3
<1>5. StackOK'
  <2>1. Innermost([stack EXCEPT ![Len(stack)] = m], m)
    BY <1>1, <1>3, LastChanged DEF TypeInv
  <2> HIDE DEF m
  <2>2. Innermost(stack', m)
    BY <2>1, <1>4
  <2> QED
    BY <2>2 DEF TypeInv, StackOK, Innermost
<1> QED
  BY <1>1, <1>5 DEF TypeInv, IndicesOK

\* Notify keeps the types.
LEMMA NotifyTypes ==
    ASSUME TypeInv, NotifyIterators
    PROVE  TypeInv'
<1> DEFINE g == Last(stack)
<1>1. /\ stack # <<>> /\ stack' = Front(stack)
      /\ iterator' = [it \in Iterators |->
                        IF iterator[it].on THEN Notified(iterator[it], g) ELSE iterator[it]]
      /\ elements' = elements /\ watched' = watched /\ tracked' = tracked
  BY DEF NotifyIterators
<1>2. ChangeOK(g)
  BY <1>1, LastChange DEF TypeInv
<1> HIDE DEF g
<1>3. iterator' \in [Iterators -> Iterator]
  <2>1. \A it \in Iterators : iterator[it] \in Iterator /\ Notified(iterator[it], g) \in Iterator
    BY <1>2, NotifiedIterator DEF TypeInv
  <2> QED
    BY <1>1, <2>1
<1>4. StackOK'
  <2>1. /\ Len(stack) \in Nat /\ Len(stack) >= 1
        /\ \A d \in 1 .. Len(stack) : ChangeOK(stack[d]) /\ stack[d] \in Change
    BY <1>1, LastChange DEF TypeInv, StackOK, ChangeOK
  <2>2. /\ stack' \in Seq(Change) /\ Len(stack') = Len(stack) - 1
        /\ \A d \in 1 .. Len(stack) - 1 : stack'[d] = stack[d]
    BY <1>1, <1>2, FrontProperties DEF TypeInv, StackOK, ChangeOK
  <2>3. Len(stack') <= MaxNesting
    BY <2>1, <2>2, BoundsAssumption DEF TypeInv, StackOK
  <2>4. \A d \in 1 .. Len(stack') : ChangeOK(stack'[d])
    BY <2>1, <2>2
  <2> QED
    BY <2>2, <2>3, <2>4 DEF StackOK
<1> QED
  BY <1>1, <1>3, <1>4 DEF TypeInv, IndicesOK

\* The uses of iterators and indices.
LEMMA UseTypes ==
    ASSUME TypeInv,
           \/ \E l \in 1 .. Listeners, i \in 1 .. N : Watch(l, i)
           \/ \E it \in Iterators :
                 \/ \E task \in BOOLEAN, c \in 0 .. N : MoveTo(it, task, c)
                 \/ \E count \in 1 .. N : Next_(it, count) \/ Prev(it, count)
                 \/ Close(it)
    PROVE  TypeInv'
<1>1. /\ N \in Nat /\ Contents \subseteq Elements
      /\ \A i \in 1 .. N : elements[i] \in Elements /\ elements[i] \in Contents
  BY ContentsIsElements DEF TypeInv
<1>2. ASSUME NEW l \in 1 .. Listeners, NEW i \in 1 .. N, Watch(l, i)
      PROVE  TypeInv'
  <2>1. IndicesOK'
    BY <1>1, <1>2 DEF Watch, TypeInv, IndicesOK
  <2> QED
    BY <1>2, <2>1 DEF Watch, TypeInv, StackOK
<1>3. ASSUME NEW it \in Iterators, NEW r \in Iterator,
             iterator' = [iterator EXCEPT ![it] = r],
             UNCHANGED <<elements, stack, tracked, watched>>
      PROVE  TypeInv'
  <2>1. iterator' \in [Iterators -> Iterator]
    BY <1>3 DEF TypeInv
  <2> QED
    BY <1>3, <2>1 DEF TypeInv, IndicesOK, StackOK
<1>4. ASSUME NEW it \in Iterators, NEW task \in BOOLEAN, NEW c \in 0 .. N, MoveTo(it, task, c)
      PROVE  TypeInv'
  <2> DEFINE B == {elements[i] : i \in 1 .. c}
             r == [on |-> TRUE, task |-> task, cursor |-> c, start |-> Contents, got |-> B]
  <2>1. B \in SUBSET Elements
    BY <1>1
  <2>2. iterator' = [iterator EXCEPT ![it] = r] /\ UNCHANGED <<elements, stack, tracked, watched>>
    BY <1>4 DEF MoveTo
  <2> HIDE DEF B
  <2>3. r \in Iterator
    BY <1>1, <2>1 DEF Iterator
  <2> HIDE DEF r
  <2> QED
    BY <1>3, <2>2, <2>3
<1>5. ASSUME NEW it \in Iterators, NEW count \in 1 .. N, Next_(it, count)
      PROVE  TypeInv'
  <2> DEFINE g == iterator[it]
             to == IF g.cursor + count > N THEN N ELSE g.cursor + count
             B == g.got \cup ({elements[i] : i \in g.cursor + 1 .. to} \cap g.start)
             r == [g EXCEPT !.cursor = to, !.got = B]
  <2>1. g \in Iterator /\ g.cursor \in Nat /\ g.start \in SUBSET Elements /\ g.got \in SUBSET Elements
    BY DEF TypeInv, Iterator
  <2>2. to \in Nat /\ B \in SUBSET Elements
    BY <1>1, <2>1
  <2>3. iterator' = [iterator EXCEPT ![it] = r] /\ UNCHANGED <<elements, stack, tracked, watched>>
    BY <1>5 DEF Next_, TypeInv
  <2> HIDE DEF g, to, B
  <2>4. r \in Iterator
    BY <2>1, <2>2, IteratorFields
  <2> HIDE DEF r
  <2> QED
    BY <1>3, <2>3, <2>4
<1>6. ASSUME NEW it \in Iterators, NEW count \in 1 .. N, Prev(it, count)
      PROVE  TypeInv'
  <2> DEFINE g == iterator[it]
             to == IF count > g.cursor THEN 0 ELSE g.cursor - count
             B == g.got \ {elements[i] : i \in to + 1 .. g.cursor}
             r == [g EXCEPT !.cursor = to, !.got = B]
  <2>1. g \in Iterator /\ g.cursor \in Nat /\ g.start \in SUBSET Elements /\ g.got \in SUBSET Elements
    BY DEF TypeInv, Iterator
  <2>2. to \in Nat /\ B \in SUBSET Elements
    BY <1>1, <2>1
  <2>3. iterator' = [iterator EXCEPT ![it] = r] /\ UNCHANGED <<elements, stack, tracked, watched>>
    BY <1>6 DEF Prev, TypeInv
  <2> HIDE DEF g, to, B
  <2>4. r \in Iterator
    BY <2>1, <2>2, IteratorFields
  <2> HIDE DEF r
  <2> QED
    BY <1>3, <2>3, <2>4
<1>7. ASSUME NEW it \in Iterators, Close(it)
      PROVE  TypeInv'
  <2>1. Idle \in Iterator
    BY DEF Idle, Iterator
  <2>2. iterator' = [iterator EXCEPT ![it] = Idle] /\ UNCHANGED <<elements, stack, tracked, watched>>
    BY <1>7 DEF Close
  <2> QED
    BY <1>3, <2>1, <2>2
<1> QED
  BY <1>2, <1>4, <1>5, <1>6, <1>7

\* Removing next to an iterator is one of the removals.
LEMMA RemovingAtCursor ==
    ASSUME TypeInv, NEW it \in Iterators, RemoveNext(it) \/ RemovePrev(it)
    PROVE  \E i, j \in 1 .. N : RemoveNextElements(i, j)
<1>1. /\ N \in Nat /\ iterator[it].cursor \in Nat
  BY ContentsIsElements DEF TypeInv, Iterator
<1>2. CASE RemoveNext(it)
  <2>1. iterator[it].cursor + 1 \in 1 .. N /\ 1 \in 1 .. N
    BY <1>1, <1>2 DEF RemoveNext, AtEnd
  <2> QED
    BY <2>1, <1>2 DEF RemoveNext
<1>3. CASE RemovePrev(it)
  <2>1. iterator[it].cursor \in 1 .. N /\ 1 \in 1 .. N
    BY <1>1, <1>3 DEF RemovePrev
  <2> QED
    BY <2>1, <1>3 DEF RemovePrev
<1> QED
  BY <1>2, <1>3

\* Every step keeps the types.
LEMMA NextKeepsTypes ==
    ASSUME TypeInv, [Next]_vars
    PROVE  TypeInv'
<1>1. CASE Application
  <2>1. ASSUME NEW e \in Elements,
               (\E i \in 1 .. N + 2 : Insert(e, i)) \/ (\E i \in 1 .. N : Set(i, e))
        PROVE  TypeInv'
    BY <2>1, InsertTypes, SetTypes
  <2>2. ASSUME NEW i \in 1 .. N, NEW j \in 1 .. N,
               RemoveNextElements(i, j) \/ Move(i, j) \/ SwapElements(i, j)
        PROVE  TypeInv'
    BY <2>2, RemoveTypes, MoveTypes, SwapTypes
  <2>3. ASSUME NEW i \in 1 .. N, Assign(SubSeq(elements, i, N))
        PROVE  TypeInv'
    BY <2>3, AssignTypes
  <2>4. ASSUME NEW it \in Iterators, RemoveNext(it) \/ RemovePrev(it)
        PROVE  TypeInv'
    <3>1. PICK i \in 1 .. N, j \in 1 .. N : RemoveNextElements(i, j)
      BY <2>4, RemovingAtCursor
    <3> QED
      BY <3>1, RemoveTypes
  <2> QED
    BY <1>1, <2>1, <2>2, <2>3, <2>4, UseTypes DEF Application
<1>2. CASE Library
  BY <1>2, TellTypes, ReturnTypes, NotifyTypes DEF Library
<1>3. CASE UNCHANGED vars
  BY <1>3 DEF vars, TypeInv, StackOK, IndicesOK
<1> QED
  BY <1>1, <1>2, <1>3 DEF Next

\* The types hold at the start.
LEMMA InitTypes ==
    ASSUME Init
    PROVE  TypeInv
<1>1. elements \in Seq(Elements) /\ stack \in Seq(Change) /\ Len(stack) = 0
  BY EmptySeq DEF Init
<1>2. StackOK
  BY <1>1, BoundsAssumption DEF StackOK
<1>3. Idle \in Iterator
  BY DEF Idle, Iterator
<1> QED
  BY <1>1, <1>2, <1>3 DEF TypeInv, IndicesOK, Init

\* Whatever listeners do, the state has its types: in particular no cursor and no
\* index falls below 0.
THEOREM TypeCorrect == Spec => []TypeOK
<1>1. Init => TypeInv
  BY InitTypes
<1>2. TypeInv /\ [Next]_vars => TypeInv'
  BY NextKeepsTypes
<1>3. TypeInv => TypeOK
  BY DEF TypeInv, TypeOK, StackOK, IndicesOK
<1> QED
  BY <1>1, <1>2, <1>3, PTL DEF Spec

-----------------------------------------------------------------------------
(* Listeners that only listen.                                             *)

\* The index of listener l, x in tracked, once the changes on st have reached it.
SoonIndex(st, l, x) ==
    IF st = <<>> \/ l <= st[1].told THEN x ELSE AdjustedIndex(st[1], x)

\* The iterator r fits the list s, or will once the changes on st have reached it.
IteratorFits(st, s, r) ==
    /\ r.start \subseteq ElementsOf(s)
    /\ r.on => PassFits(s, IF st = <<>> THEN r.cursor ELSE CursorNext(r.task, r.cursor, st[1]),
                        r.start, r.got)

\* At most one change is under way, and every index and iterator is as it was
\* before the change or as it is to be after it.
PassiveInv ==
    /\ Len(stack) <= 1
    /\ NoRepeats(elements)
    /\ \A l \in 1 .. Listeners : IndexFits(elements, SoonIndex(stack, l, tracked[l]), watched[l])
    /\ \A it \in Iterators : IteratorFits(stack, elements, iterator[it])

\* The invariant holds at the start.
LEMMA InitPassive ==
    ASSUME Init
    PROVE  PassiveInv
<1>1. NoRepeats(elements) /\ Len(stack) <= 1 /\ Len(elements) = 0
  BY DEF Init, NoRepeats
<1>2. ASSUME NEW l \in 1 .. Listeners
      PROVE  IndexFits(elements, SoonIndex(stack, l, tracked[l]), watched[l])
  BY DEF Init, SoonIndex, IndexFits
<1>3. ASSUME NEW it \in Iterators
      PROVE  IteratorFits(stack, elements, iterator[it])
  BY DEF Init, Idle, IteratorFits
<1> QED
  BY <1>1, <1>2, <1>3 DEF PassiveInv

\* A change made when none is under way: what is to be shown is what it does to
\* the indices and cursors that will be adjusted for it.
LEMMA ChangePassive ==
    ASSUME TypeInv, NEW m, ChangeOK(m), m.told = 0, stack' = <<m>>,
           NoRepeats(elements)',
           \A l \in 1 .. Listeners :
              IndexFits(elements', AdjustedIndex(m, tracked'[l]), watched'[l]),
           \A it \in Iterators :
              /\ iterator'[it].start \subseteq ElementsOf(elements')
              /\ iterator'[it].on => PassFits(elements',
                                        CursorNext(iterator'[it].task, iterator'[it].cursor, m),
                                        iterator'[it].start, iterator'[it].got)
    PROVE  PassiveInv'
<1>1. Len(stack') = 1 /\ stack' # <<>> /\ stack'[1] = m
  OBVIOUS
<1>2. \A l \in 1 .. Listeners : SoonIndex(stack', l, tracked'[l]) = AdjustedIndex(m, tracked'[l])
  <2>1. \A l \in 1 .. Listeners : ~ (l <= m.told)
    BY BoundsAssumption
  <2> QED
    BY <1>1, <2>1 DEF SoonIndex
<1>3. \A it \in Iterators : IteratorFits(stack', elements', iterator'[it])
  BY <1>1 DEF IteratorFits
<1>4. \A l \in 1 .. Listeners :
         IndexFits(elements', SoonIndex(stack', l, tracked'[l]), watched'[l])
  BY <1>2
<1> QED
  BY <1>1, <1>3, <1>4 DEF PassiveInv

\* What the invariant says when no change is under way.
LEMMA QuietPassive ==
    ASSUME TypeInv, stack = <<>>, PassiveInv
    PROVE  /\ NoRepeats(elements)
           /\ \A l \in 1 .. Listeners : /\ tracked[l] \in Nat
                                        /\ IndexFits(elements, tracked[l], watched[l])
           /\ \A it \in Iterators :
                 /\ iterator[it] \in Iterator
                 /\ iterator[it].cursor \in Nat
                 /\ iterator[it].start \subseteq ElementsOf(elements)
                 /\ iterator[it].on => PassFits(elements, iterator[it].cursor,
                                                iterator[it].start, iterator[it].got)
<1>1. \A it \in Iterators : iterator[it] \in Iterator /\ iterator[it].cursor \in Nat
  BY DEF TypeInv, Iterator
<1> QED
  BY <1>1 DEF TypeInv, IndicesOK, PassiveInv, SoonIndex, IteratorFits

\* Insert keeps the invariant.
LEMMA InsertPassive ==
    ASSUME TypeInv, PassiveInv, stack = <<>>, NEW e \in Elements, NEW i \in 1 .. N + 2,
           Insert(e, i)
    PROVE  PassiveInv'
<1> DEFINE f == IF i <= N THEN i ELSE N + 1
           m == Sent("inserted", f, 1)
           t == InsertAt(elements, f, e)
<1>1. /\ N = Len(elements) /\ N \in Nat /\ Contents = ElementsOf(elements)
      /\ elements \in Seq(Elements)
  BY ContentsIsElements DEF TypeInv
<1>2. f \in 1 .. Len(elements) + 1 /\ f \in Nat \ {0}
  BY <1>1
<1>3. /\ elements' = t /\ Send("inserted", f, 1) /\ e \notin ElementsOf(elements)
      /\ iterator' = [it \in Iterators |->
               IF iterator[it].on /\ iterator[it].task /\ f = 1
               THEN [iterator[it] EXCEPT !.start = @ \cup {e}, !.got = @ \cup {e}]
               ELSE iterator[it]]
      /\ tracked' = tracked /\ watched' = watched
  BY <1>1 DEF Insert
<1>4. ChangeOK(m) /\ stack' = <<m>> /\ m.told = 0
  <2>1. ChangeOK(m) /\ (stack = <<>> => stack' = <<m>>)
    BY <1>2, <1>3, SendPushes DEF TypeInv
  <2> QED
    BY <2>1 DEF Sent
<1>5. /\ m.what = "inserted" /\ m.first = f /\ m.second = 1
  BY DEF Sent
<1> HIDE DEF f
<1>6. NoRepeats(elements)
  BY DEF PassiveInv
<1>7. /\ NoRepeats(t)
      /\ ElementsOf(elements) \subseteq ElementsOf(t) /\ e \in ElementsOf(t)
      /\ \A w : \A x \in Nat : IndexFits(elements, x, w)
                             => IndexFits(t, IF x >= f THEN x + 1 ELSE x, w)
      /\ \A start, got : \A c \in Nat :
            start \subseteq ElementsOf(elements) /\ PassFits(elements, c, start, got)
              => /\ PassFits(t, CursorAfterInsert(c, f, 1), start, got)
                 /\ f # 1 => PassFits(t, TaskCursorAfterInsert(c, f, 1), start, got)
                 /\ f = 1 => PassFits(t, TaskCursorAfterInsert(c, f, 1),
                                      start \cup {e}, got \cup {e})
  BY <1>1, <1>2, <1>3, <1>6, InsertKeeps
<1> HIDE DEF t, m
<1>8. ASSUME NEW l \in 1 .. Listeners
      PROVE  IndexFits(t, AdjustedIndex(m, tracked[l]), watched[l])
  <2>1. tracked[l] \in Nat /\ IndexFits(elements, tracked[l], watched[l])
    BY QuietPassive
  <2>2. AdjustedIndex(m, tracked[l]) = IF tracked[l] >= f THEN tracked[l] + 1 ELSE tracked[l]
    BY <1>5 DEF AdjustedIndex
  <2> QED
    BY <2>1, <2>2, <1>7
<1>9. ASSUME NEW it \in Iterators
      PROVE  /\ iterator'[it].start \subseteq ElementsOf(t)
             /\ iterator'[it].on => PassFits(t, CursorNext(iterator'[it].task, iterator'[it].cursor, m),
                                             iterator'[it].start, iterator'[it].got)
  <2> DEFINE r == iterator[it]
  <2>1. /\ r \in Iterator /\ r.cursor \in Nat /\ r.start \subseteq ElementsOf(elements)
        /\ r.on => PassFits(elements, r.cursor, r.start, r.got)
    BY QuietPassive
  <2>2. CASE r.on /\ r.task /\ f = 1
    <3> DEFINE q == [r EXCEPT !.start = r.start \cup {e}, !.got = r.got \cup {e}]
    <3>1. iterator'[it] = q
      BY <1>3, <2>2
    <3> HIDE DEF r
    <3>2. /\ q.start = r.start \cup {e} /\ q.got = r.got \cup {e} /\ q.task = r.task
          /\ q.on = r.on /\ q.cursor = r.cursor
      BY <2>1 DEF Iterator
    <3> HIDE DEF q
    <3>3. CursorNext(q.task, q.cursor, m) = TaskCursorAfterInsert(r.cursor, f, 1)
      BY <2>2, <3>2, <1>5 DEF CursorNext
    <3>4. PassFits(t, TaskCursorAfterInsert(r.cursor, f, 1), r.start \cup {e}, r.got \cup {e})
      BY <2>1, <2>2, <1>7
    <3> QED
      BY <3>1, <3>2, <3>3, <3>4, <2>1, <1>7
  <2>3. CASE ~ (r.on /\ r.task /\ f = 1)
    <3>1. iterator'[it] = r
      BY <1>3, <2>3
    <3> HIDE DEF r
    <3>2. ASSUME r.on
          PROVE  PassFits(t, CursorNext(r.task, r.cursor, m), r.start, r.got)
      <4>1. CASE r.task
        <5>1. CursorNext(r.task, r.cursor, m) = TaskCursorAfterInsert(r.cursor, f, 1)
          BY <4>1, <1>5 DEF CursorNext
        <5>2. f # 1
          BY <4>1, <3>2, <2>3
        <5>3. PassFits(t, TaskCursorAfterInsert(r.cursor, f, 1), r.start, r.got)
          BY <5>2, <3>2, <2>1, <1>7
        <5> QED
          BY <5>1, <5>3
      <4>2. CASE ~ r.task
        <5>1. CursorNext(r.task, r.cursor, m) = CursorAfterInsert(r.cursor, f, 1)
          BY <4>2, <1>5 DEF CursorNext
        <5>2. PassFits(t, CursorAfterInsert(r.cursor, f, 1), r.start, r.got)
          BY <3>2, <2>1, <1>7
        <5> QED
          BY <5>1, <5>2
      <4> QED
        BY <4>1, <4>2
    <3> QED
      BY <3>1, <3>2, <2>1, <1>7
  <2> QED
    BY <2>2, <2>3
<1> QED
  BY <1>3, <1>4, <1>7, <1>8, <1>9, ChangePassive

\* What a pass is after elements have been forgotten.
LEMMA ForgottenFields ==
    ASSUME iterator \in [Iterators -> Iterator], NEW gone, NEW it \in Iterators
    PROVE  /\ Forgotten(gone)[it].on = iterator[it].on
           /\ Forgotten(gone)[it].task = iterator[it].task
           /\ Forgotten(gone)[it].cursor = iterator[it].cursor
           /\ Forgotten(gone)[it].start = iterator[it].start \ gone
           /\ Forgotten(gone)[it].got = iterator[it].got \ gone
<1> DEFINE r == iterator[it]
<1>1. r \in Iterator
  OBVIOUS
<1>2. Forgotten(gone)[it] = [r EXCEPT !.start = r.start \ gone, !.got = r.got \ gone]
  BY DEF Forgotten
<1> HIDE DEF r
<1> DEFINE q == [r EXCEPT !.start = r.start \ gone, !.got = r.got \ gone]
<1>3. /\ q.on = r.on /\ q.task = r.task /\ q.cursor = r.cursor
      /\ q.start = r.start \ gone /\ q.got = r.got \ gone
  BY <1>1 DEF Iterator
<1> QED
  BY <1>2, <1>3 DEF r

\* Remove keeps the invariant.
LEMMA RemovePassive ==
    ASSUME TypeInv, PassiveInv, stack = <<>>, NEW i \in 1 .. N, NEW j \in 1 .. N,
           RemoveNextElements(i, j)
    PROVE  PassiveInv'
<1> DEFINE gone == {elements[d] : d \in i .. i + j - 1}
           m == Sent("removed", i, j)
           t == SubSeq(elements, 1, i - 1) \o SubSeq(elements, i + j - 1 + 1, Len(elements))
<1>1. /\ N = Len(elements) /\ N \in Nat /\ elements \in Seq(Elements)
  BY ContentsIsElements DEF TypeInv
<1>2. /\ i + j - 1 <= Len(elements) /\ elements' = t
      /\ Send("removed", i, j) /\ iterator' = Forgotten(gone) /\ tracked' = tracked
      /\ watched' = [l \in 1 .. Listeners |->
                       IF watched[l] \in gone THEN NoElement ELSE watched[l]]
  BY <1>1 DEF RemoveNextElements, N
<1>3. ChangeOK(m) /\ stack' = <<m>> /\ m.told = 0
  <2>1. ChangeOK(m) /\ (stack = <<>> => stack' = <<m>>)
    BY <1>1, <1>2, SendPushes DEF TypeInv
  <2> QED
    BY <2>1 DEF Sent
<1>4. /\ m.what = "removed" /\ m.first = i /\ m.second = j
  BY DEF Sent
<1>5. NoRepeats(elements) /\ i \in 1 .. Len(elements) /\ j \in 1 .. Len(elements)
  BY <1>1 DEF PassiveInv
<1>6. /\ NoRepeats(t)
      /\ ElementsOf(elements) \ gone \subseteq ElementsOf(t)
      /\ \A w : \A x \in Nat : IndexFits(elements, x, w)
                             => IndexFits(t, IF x < i THEN x ELSE IF x >= i + j THEN x - j ELSE 0,
                                          IF w \in gone THEN NoElement ELSE w)
      /\ \A start, got : \A c \in Nat :
            PassFits(elements, c, start, got)
              => PassFits(t, CursorAfterRemove(c, i, j), start \ gone, got \ gone)
  BY <1>1, <1>2, <1>5, RemoveKeeps
<1> HIDE DEF t, m, gone
<1>7. ASSUME NEW l \in 1 .. Listeners
      PROVE  IndexFits(t, AdjustedIndex(m, tracked[l]), watched'[l])
  <2>1. tracked[l] \in Nat /\ IndexFits(elements, tracked[l], watched[l])
    BY QuietPassive
  <2>2. AdjustedIndex(m, tracked[l])
          = IF tracked[l] < i THEN tracked[l] ELSE IF tracked[l] >= i + j THEN tracked[l] - j ELSE 0
    BY <1>4 DEF AdjustedIndex
  <2>3. watched'[l] = IF watched[l] \in gone THEN NoElement ELSE watched[l]
    BY <1>2
  <2> QED
    BY <2>1, <2>2, <2>3, <1>6
<1>8. ASSUME NEW it \in Iterators
      PROVE  /\ iterator'[it].start \subseteq ElementsOf(t)
             /\ iterator'[it].on => PassFits(t, CursorNext(iterator'[it].task, iterator'[it].cursor, m),
                                             iterator'[it].start, iterator'[it].got)
  <2> DEFINE r == iterator[it]
             q == iterator'[it]
  <2>1. /\ r.cursor \in Nat /\ r.start \subseteq ElementsOf(elements)
        /\ r.on => PassFits(elements, r.cursor, r.start, r.got)
    BY QuietPassive
  <2>2. /\ q.on = r.on /\ q.task = r.task /\ q.cursor = r.cursor
        /\ q.start = r.start \ gone /\ q.got = r.got \ gone
    BY <1>2, ForgottenFields DEF TypeInv
  <2> HIDE DEF r, q
  <2>3. CursorNext(q.task, q.cursor, m) = CursorAfterRemove(r.cursor, i, j)
    BY <2>2, <1>4 DEF CursorNext
  <2>4. q.on => PassFits(t, CursorNext(q.task, q.cursor, m), q.start, q.got)
    BY <2>1, <2>2, <2>3, <1>6
  <2>5. q.start \subseteq ElementsOf(t)
    BY <2>1, <2>2, <1>6
  <2> QED
    BY <2>4, <2>5 DEF q
<1> QED
  BY <1>2, <1>3, <1>6, <1>7, <1>8, ChangePassive

\* Set keeps the invariant.
LEMMA SetPassive ==
    ASSUME TypeInv, PassiveInv, stack = <<>>, NEW e \in Elements, NEW i \in 1 .. N, Set(i, e)
    PROVE  PassiveInv'
<1> DEFINE m == Sent("changed", i, i)
           t == [elements EXCEPT ![i] = e]
<1>1. /\ N = Len(elements) /\ N \in Nat /\ elements \in Seq(Elements)
      /\ Contents = ElementsOf(elements)
  BY ContentsIsElements DEF TypeInv
<1>2. /\ elements' = t /\ e \notin ElementsOf(elements)
      /\ Send("changed", i, i) /\ iterator' = Forgotten({elements[i]}) /\ tracked' = tracked
      /\ watched' = [l \in 1 .. Listeners |-> IF watched[l] = elements[i] THEN e ELSE watched[l]]
  BY <1>1 DEF Set
<1>3. ChangeOK(m) /\ stack' = <<m>> /\ m.told = 0
  <2>1. ChangeOK(m) /\ (stack = <<>> => stack' = <<m>>)
    BY <1>1, <1>2, SendPushes DEF TypeInv
  <2> QED
    BY <2>1 DEF Sent
<1>4. m.what = "changed"
  BY DEF Sent
<1>5. NoRepeats(elements) /\ i \in 1 .. Len(elements)
  BY <1>1 DEF PassiveInv
<1>6. /\ NoRepeats(t)
      /\ ElementsOf(elements) \ {elements[i]} \subseteq ElementsOf(t)
      /\ \A w : \A x \in Nat : IndexFits(elements, x, w)
                             => IndexFits(t, x, IF w = elements[i] THEN e ELSE w)
      /\ \A start, got : \A c \in Nat :
            start \subseteq ElementsOf(elements) /\ PassFits(elements, c, start, got)
              => PassFits(t, c, start \ {elements[i]}, got \ {elements[i]})
  BY <1>1, <1>2, <1>5, SetKeeps
<1> HIDE DEF t, m
<1>7. ASSUME NEW l \in 1 .. Listeners
      PROVE  IndexFits(t, AdjustedIndex(m, tracked[l]), watched'[l])
  <2>1. tracked[l] \in Nat /\ IndexFits(elements, tracked[l], watched[l])
    BY QuietPassive
  <2>2. AdjustedIndex(m, tracked[l]) = tracked[l]
    BY <1>4 DEF AdjustedIndex
  <2>3. watched'[l] = IF watched[l] = elements[i] THEN e ELSE watched[l]
    BY <1>2
  <2> QED
    BY <2>1, <2>2, <2>3, <1>6
<1>8. ASSUME NEW it \in Iterators
      PROVE  /\ iterator'[it].start \subseteq ElementsOf(t)
             /\ iterator'[it].on => PassFits(t, CursorNext(iterator'[it].task, iterator'[it].cursor, m),
                                             iterator'[it].start, iterator'[it].got)
  <2> DEFINE r == iterator[it]
             q == iterator'[it]
  <2>1. /\ r.cursor \in Nat /\ r.start \subseteq ElementsOf(elements)
        /\ r.on => PassFits(elements, r.cursor, r.start, r.got)
    BY QuietPassive
  <2>2. /\ q.on = r.on /\ q.task = r.task /\ q.cursor = r.cursor
        /\ q.start = r.start \ {elements[i]} /\ q.got = r.got \ {elements[i]}
    BY <1>2, ForgottenFields DEF TypeInv
  <2> HIDE DEF r, q
  <2>3. CursorNext(q.task, q.cursor, m) = r.cursor
    BY <2>2, <1>4 DEF CursorNext
  <2>4. q.on => PassFits(t, CursorNext(q.task, q.cursor, m), q.start, q.got)
    BY <2>1, <2>2, <2>3, <1>6
  <2>5. q.start \subseteq ElementsOf(t)
    BY <2>1, <2>2, <1>6
  <2> QED
    BY <2>4, <2>5 DEF q
<1> QED
  BY <1>2, <1>3, <1>6, <1>7, <1>8, ChangePassive

\* A rearrangement ends what the passes promise, but not the indices.
LEMMA RearrangedPassive ==
    ASSUME TypeInv, PassiveInv, stack = <<>>,
           NEW m, ChangeOK(m), m.told = 0, m.what \in {"moved", "swapped"}, stack' = <<m>>,
           NoRepeats(elements)', Len(elements') = Len(elements),
           \A w : \A x \in Nat : IndexFits(elements, x, w)
                               => IndexFits(elements', AdjustedIndex(m, x), w),
           iterator' = Forgotten(Elements), tracked' = tracked, watched' = watched
    PROVE  PassiveInv'
<1>1. \A l \in 1 .. Listeners : IndexFits(elements', AdjustedIndex(m, tracked'[l]), watched'[l])
  BY QuietPassive
<1>2. ASSUME NEW it \in Iterators
      PROVE  /\ iterator'[it].start \subseteq ElementsOf(elements')
             /\ iterator'[it].on => PassFits(elements', CursorNext(iterator'[it].task,
                                                                   iterator'[it].cursor, m),
                                             iterator'[it].start, iterator'[it].got)
  <2> DEFINE r == iterator[it]
             q == iterator'[it]
  <2>1. /\ r.cursor \in Nat /\ r.start \in SUBSET Elements
        /\ r.on => r.cursor <= Len(elements)
    BY QuietPassive DEF Iterator, PassFits
  <2>2. /\ q.on = r.on /\ q.task = r.task /\ q.cursor = r.cursor
        /\ q.start = r.start \ Elements
    BY ForgottenFields DEF TypeInv
  <2> HIDE DEF r, q
  <2>3. q.start = {}
    BY <2>1, <2>2
  <2>4. CursorNext(q.task, q.cursor, m) = r.cursor
    BY <2>2 DEF CursorNext
  <2>5. q.on => PassFits(elements', CursorNext(q.task, q.cursor, m), q.start, q.got)
    BY <2>1, <2>2, <2>3, <2>4 DEF PassFits
  <2> QED
    BY <2>3, <2>5 DEF q
<1> QED
  BY <1>1, <1>2, ChangePassive

\* Move keeps the invariant.
LEMMA MovePassive ==
    ASSUME TypeInv, PassiveInv, stack = <<>>, NEW i \in 1 .. N, NEW j \in 1 .. N, Move(i, j)
    PROVE  PassiveInv'
<1> DEFINE m == Sent("moved", i, j)
           t == InsertAt(RemoveAt(elements, i), j, elements[i])
<1>1. /\ N = Len(elements) /\ N \in Nat /\ elements \in Seq(Elements)
  BY ContentsIsElements DEF TypeInv
<1>2. /\ elements' = t /\ Send("moved", i, j)
      /\ iterator' = Forgotten(Elements) /\ tracked' = tracked /\ watched' = watched
  BY DEF Move
<1>3. ChangeOK(m) /\ stack' = <<m>> /\ m.told = 0
  <2>1. ChangeOK(m) /\ (stack = <<>> => stack' = <<m>>)
    BY <1>1, <1>2, SendPushes DEF TypeInv
  <2> QED
    BY <2>1 DEF Sent
<1>4. m.what = "moved" /\ m.first = i /\ m.second = j
  BY DEF Sent
<1>5. NoRepeats(elements) /\ i \in 1 .. Len(elements) /\ j \in 1 .. Len(elements)
  BY <1>1 DEF PassiveInv
<1>6. /\ NoRepeats(t) /\ Len(t) = Len(elements)
      /\ \A w : \A x \in Nat : IndexFits(elements, x, w) => IndexFits(t, IndexAfterMove(x, i, j), w)
  BY <1>1, <1>5, MoveKeeps
<1> HIDE DEF t, m
<1>7. \A x \in Nat : AdjustedIndex(m, x) = IndexAfterMove(x, i, j)
  BY <1>4 DEF AdjustedIndex
<1>8. \A w : \A x \in Nat : IndexFits(elements, x, w) => IndexFits(elements', AdjustedIndex(m, x), w)
  BY <1>2, <1>6, <1>7
<1> QED
  BY <1>2, <1>3, <1>4, <1>6, <1>8, RearrangedPassive

\* Swap keeps the invariant.
LEMMA SwapPassive ==
    ASSUME TypeInv, PassiveInv, stack = <<>>, NEW i \in 1 .. N, NEW j \in 1 .. N,
           SwapElements(i, j)
    PROVE  PassiveInv'
<1> DEFINE m == Sent("swapped", i, j)
           t == [elements EXCEPT ![i] = elements[j], ![j] = elements[i]]
<1>1. /\ N = Len(elements) /\ N \in Nat /\ elements \in Seq(Elements)
  BY ContentsIsElements DEF TypeInv
<1>2. /\ elements' = t /\ Send("swapped", i, j)
      /\ iterator' = Forgotten(Elements) /\ tracked' = tracked /\ watched' = watched
  BY DEF SwapElements
<1>3. ChangeOK(m) /\ stack' = <<m>> /\ m.told = 0
  <2>1. ChangeOK(m) /\ (stack = <<>> => stack' = <<m>>)
    BY <1>1, <1>2, SendPushes DEF TypeInv
  <2> QED
    BY <2>1 DEF Sent
<1>4. m.what = "swapped" /\ m.first = i /\ m.second = j
  BY DEF Sent
<1>5. NoRepeats(elements) /\ i \in 1 .. Len(elements) /\ j \in 1 .. Len(elements)
  BY <1>1 DEF PassiveInv
<1>6. /\ NoRepeats(t) /\ Len(t) = Len(elements)
      /\ \A w : \A x \in Nat : IndexFits(elements, x, w)
                             => IndexFits(t, IF x = i THEN j ELSE IF x = j THEN i ELSE x, w)
  BY <1>1, <1>5, SwapKeeps
<1> HIDE DEF t, m
<1>7. \A x \in Nat : AdjustedIndex(m, x) = IF x = i THEN j ELSE IF x = j THEN i ELSE x
  BY <1>4 DEF AdjustedIndex
<1>8. \A w : \A x \in Nat : IndexFits(elements, x, w) => IndexFits(elements', AdjustedIndex(m, x), w)
  BY <1>2, <1>6, <1>7
<1> QED
  BY <1>2, <1>3, <1>4, <1>6, <1>8, RearrangedPassive

\* Assign keeps the invariant.
LEMMA AssignPassive ==
    ASSUME TypeInv, PassiveInv, stack = <<>>, NEW i \in 1 .. N, Assign(SubSeq(elements, i, N))
    PROVE  PassiveInv'
<1>1. /\ N = Len(elements) /\ N \in Nat /\ elements \in Seq(Elements) /\ NoRepeats(elements)
  BY ContentsIsElements DEF TypeInv, PassiveInv
<1>2. NoRepeats(elements') /\ elements' \in Seq(Elements)
  BY <1>1, RestKeeps DEF Assign
<1>3. stack' = <<>> /\ Len(stack') <= 1
  <2>1. stack' = <<>>
    BY DEF Assign
  <2>2. Len(<<>>) = 0
    BY EmptySeq
  <2> QED
    BY <2>1, <2>2
<1>4. \A l \in 1 .. Listeners : IndexFits(elements', SoonIndex(stack', l, tracked'[l]), watched'[l])
  BY <1>3 DEF Assign, SoonIndex, IndexFits
<1>5. ASSUME NEW it \in Iterators
      PROVE  IteratorFits(stack', elements', iterator'[it])
  <2> DEFINE r == iterator[it]
             q == iterator'[it]
  <2>1. r \in Iterator
    BY DEF TypeInv
  <2>2. q = [r EXCEPT !.cursor = 0, !.start = {}, !.got = {}]
    BY DEF Assign
  <2> HIDE DEF r, q
  <2>3. q.cursor = 0 /\ q.start = {}
    BY <2>1, <2>2 DEF Iterator
  <2>4. 0 <= Len(elements')
    BY <1>2, LenProperties
  <2>5. IteratorFits(stack', elements', q)
    BY <1>3, <2>3, <2>4 DEF IteratorFits, PassFits
  <2> QED
    BY <2>5 DEF q
<1> QED
  BY <1>2, <1>3, <1>4, <1>5 DEF PassiveInv

\* Using one iterator.
LEMMA IteratorPassive ==
    ASSUME TypeInv, PassiveInv, stack = <<>>, UNCHANGED <<elements, stack, tracked, watched>>,
           NEW it \in Iterators, NEW r \in Iterator, iterator' = [iterator EXCEPT ![it] = r],
           r.start \subseteq ElementsOf(elements),
           r.on => PassFits(elements, r.cursor, r.start, r.got)
    PROVE  PassiveInv'
<1>1. ASSUME NEW other \in Iterators
      PROVE  IteratorFits(stack, elements, iterator'[other])
  <2>1. CASE other = it
    <3>1. iterator'[other] = r
      BY <2>1 DEF TypeInv
    <3> QED
      BY <3>1 DEF IteratorFits
  <2>2. CASE other # it
    <3>1. iterator'[other] = iterator[other]
      BY <2>2 DEF TypeInv
    <3> QED
      BY <3>1 DEF PassiveInv
  <2> QED
    BY <2>1, <2>2
<1> QED
  BY <1>1 DEF PassiveInv

\* Watch keeps the invariant.
LEMMA WatchPassive ==
    ASSUME TypeInv, PassiveInv, stack = <<>>, NEW l \in 1 .. Listeners, NEW i \in 1 .. N,
           Watch(l, i)
    PROVE  PassiveInv'
<1>1. /\ N = Len(elements) /\ elements[i] \in Elements /\ elements[i] # NoElement
  BY ContentsIsElements, ElementsAssumption DEF TypeInv
<1>2. /\ elements' = elements /\ stack' = stack /\ iterator' = iterator
      /\ tracked' = [tracked EXCEPT ![l] = i]
      /\ watched' = [watched EXCEPT ![l] = elements[i]]
  BY DEF Watch
<1>3. ASSUME NEW k \in 1 .. Listeners
      PROVE  IndexFits(elements, SoonIndex(stack, k, tracked'[k]), watched'[k])
  <2>1. CASE k = l
    <3>1. tracked'[k] = i /\ watched'[k] = elements[i]
      BY <2>1, <1>2 DEF TypeInv, IndicesOK
    <3> QED
      BY <3>1, <1>1 DEF SoonIndex, IndexFits
  <2>2. CASE k # l
    <3>1. tracked'[k] = tracked[k] /\ watched'[k] = watched[k]
      BY <2>2, <1>2 DEF TypeInv, IndicesOK
    <3> QED
      BY <3>1 DEF PassiveInv
  <2> QED
    BY <2>1, <2>2
<1> QED
  BY <1>2, <1>3 DEF PassiveInv

\* MoveTo keeps the invariant.
LEMMA MoveToPassive ==
    ASSUME TypeInv, PassiveInv, stack = <<>>, NEW it \in Iterators, NEW task \in BOOLEAN,
           NEW c \in 0 .. N, MoveTo(it, task, c)
    PROVE  PassiveInv'
<1> DEFINE B == {elements[i] : i \in 1 .. c}
           r == [on |-> TRUE, task |-> task, cursor |-> c, start |-> Contents, got |-> B]
<1>1. /\ N = Len(elements) /\ N \in Nat /\ Contents \subseteq Elements
      /\ Contents = ElementsOf(elements) /\ DOMAIN elements = 1 .. N
      /\ \A i \in 1 .. N : elements[i] \in Elements
  BY ContentsIsElements DEF TypeInv
<1>2. B \in SUBSET Elements
  BY <1>1
<1>3. \A i \in 1 .. N : i <= c <=> elements[i] \in B
  <2>1. ASSUME NEW i \in 1 .. N, elements[i] \in B
        PROVE  i <= c
    <3>1. PICK j \in 1 .. c : elements[i] = elements[j]
      BY <2>1
    <3>2. i = j
      BY <3>1, <1>1 DEF PassiveInv, NoRepeats
    <3> QED
      BY <3>2, <1>1
  <2> QED
    BY <1>1, <2>1
<1>4. iterator' = [iterator EXCEPT ![it] = r] /\ UNCHANGED <<elements, stack, tracked, watched>>
  BY DEF MoveTo
<1> HIDE DEF B
<1>5. r \in Iterator
  BY <1>1, <1>2 DEF Iterator
<1>6. r.start = Contents /\ r.cursor = c /\ r.got = B /\ c <= Len(elements)
  BY <1>1
<1> HIDE DEF r
<1>7. PassFits(elements, r.cursor, r.start, r.got)
  BY <1>1, <1>3, <1>6 DEF PassFits
<1> QED
  BY <1>1, <1>4, <1>5, <1>6, <1>7, IteratorPassive

\* Next keeps the invariant.
LEMMA NextPassive ==
    ASSUME TypeInv, PassiveInv, stack = <<>>, NEW it \in Iterators, NEW count \in 1 .. N,
           Next_(it, count)
    PROVE  PassiveInv'
<1> DEFINE g == iterator[it]
           to == IF g.cursor + count > N THEN N ELSE g.cursor + count
           B == g.got \cup ({elements[i] : i \in g.cursor + 1 .. to} \cap g.start)
           r == [g EXCEPT !.cursor = to, !.got = B]
<1>1. /\ N = Len(elements) /\ N \in Nat /\ DOMAIN elements = 1 .. N
      /\ \A i \in 1 .. N : elements[i] \in Elements
  BY ContentsIsElements DEF TypeInv
<1>2. /\ g \in Iterator /\ g.cursor \in Nat /\ g.start \in SUBSET Elements /\ g.got \in SUBSET Elements
      /\ g.on /\ g.cursor < N /\ g.start \subseteq ElementsOf(elements)
      /\ PassFits(elements, g.cursor, g.start, g.got)
  <2>1. g.on /\ ~ AtEnd(it)
    BY DEF Next_
  <2>2. g \in Iterator
    BY DEF TypeInv
  <2>3. g.cursor \in Nat /\ g.start \in SUBSET Elements /\ g.got \in SUBSET Elements
    BY <2>2 DEF Iterator
  <2>4. g.start \subseteq ElementsOf(elements) /\ PassFits(elements, g.cursor, g.start, g.got)
    BY <2>1, QuietPassive
  <2>5. g.cursor < N
    BY <2>1, <2>3, <1>1 DEF AtEnd
  <2> QED
    BY <2>1, <2>2, <2>3, <2>4, <2>5
<1>3. iterator' = [iterator EXCEPT ![it] = r] /\ UNCHANGED <<elements, stack, tracked, watched>>
  BY DEF Next_, TypeInv
<1> HIDE DEF g
<1>4. to \in Nat /\ to <= N /\ to > g.cursor /\ B \in SUBSET Elements
  BY <1>1, <1>2
<1>5. \A i \in 1 .. N : elements[i] \in g.start => (i <= to <=> elements[i] \in B)
  <2>1. ASSUME NEW i \in 1 .. N, elements[i] \in g.start
        PROVE  i <= to <=> elements[i] \in B
    <3>1. i <= g.cursor <=> elements[i] \in g.got
      BY <2>1, <1>1, <1>2 DEF PassFits
    <3>2. CASE i <= g.cursor
      BY <3>1, <3>2, <1>2, <1>4
    <3>3. CASE g.cursor < i /\ i <= to
      BY <3>3, <2>1, <1>2
    <3>4. CASE i > to
      <4>1. elements[i] \notin g.got
        BY <3>1, <3>4, <1>2, <1>4
      <4>2. elements[i] \notin {elements[j] : j \in g.cursor + 1 .. to}
        <5>1. ASSUME NEW j \in g.cursor + 1 .. to, elements[i] = elements[j]
              PROVE  FALSE
          <6>1. j \in DOMAIN elements /\ i \in DOMAIN elements
            BY <1>1, <1>2, <1>4
          <6>2. i = j
            BY <5>1, <6>1 DEF PassiveInv, NoRepeats
          <6> QED
            BY <6>2, <3>4, <1>2, <1>4
        <5> QED
          BY <5>1
      <4> QED
        BY <4>1, <4>2, <3>4, <1>4
    <3> QED
      BY <3>2, <3>3, <3>4, <1>2, <1>4
  <2> QED
    BY <2>1
<1> HIDE DEF to, B
<1>6. r \in Iterator /\ r.start = g.start /\ r.cursor = to /\ r.got = B
  BY <1>2, <1>4 DEF Iterator
<1> HIDE DEF r
<1>7. PassFits(elements, r.cursor, r.start, r.got)
  BY <1>1, <1>4, <1>5, <1>6 DEF PassFits
<1>8. r.start \subseteq ElementsOf(elements)
  BY <1>2, <1>6
<1> QED
  BY <1>3, <1>6, <1>7, <1>8, IteratorPassive

\* Prev keeps the invariant.
LEMMA PrevPassive ==
    ASSUME TypeInv, PassiveInv, stack = <<>>, NEW it \in Iterators, NEW count \in 1 .. N,
           Prev(it, count)
    PROVE  PassiveInv'
<1> DEFINE g == iterator[it]
           to == IF count > g.cursor THEN 0 ELSE g.cursor - count
           B == g.got \ {elements[i] : i \in to + 1 .. g.cursor}
           r == [g EXCEPT !.cursor = to, !.got = B]
<1>1. /\ N = Len(elements) /\ N \in Nat /\ DOMAIN elements = 1 .. N
      /\ \A i \in 1 .. N : elements[i] \in Elements
  BY ContentsIsElements DEF TypeInv
<1>2. /\ g \in Iterator /\ g.cursor \in 1 .. N /\ g.got \in SUBSET Elements
      /\ g.start \subseteq ElementsOf(elements)
      /\ PassFits(elements, g.cursor, g.start, g.got)
  <2>1. g.on /\ g.cursor \in 1 .. N
    BY DEF Prev
  <2>2. g \in Iterator
    BY DEF TypeInv
  <2>3. g.got \in SUBSET Elements
    BY <2>2 DEF Iterator
  <2>4. g.start \subseteq ElementsOf(elements) /\ PassFits(elements, g.cursor, g.start, g.got)
    BY <2>1, QuietPassive
  <2> QED
    BY <2>1, <2>2, <2>3, <2>4
<1>3. iterator' = [iterator EXCEPT ![it] = r] /\ UNCHANGED <<elements, stack, tracked, watched>>
  BY DEF Prev, TypeInv
<1> HIDE DEF g
<1>4. to \in Nat /\ to < g.cursor /\ B \in SUBSET Elements
  BY <1>1, <1>2
<1>5. \A i \in 1 .. N : elements[i] \in g.start => (i <= to <=> elements[i] \in B)
  <2>1. ASSUME NEW i \in 1 .. N, elements[i] \in g.start
        PROVE  i <= to <=> elements[i] \in B
    <3>1. i <= g.cursor <=> elements[i] \in g.got
      BY <2>1, <1>1, <1>2 DEF PassFits
    <3>2. CASE i > g.cursor
      BY <3>1, <3>2, <1>2, <1>4
    <3>3. CASE to < i /\ i <= g.cursor
      <4>1. elements[i] \in {elements[j] : j \in to + 1 .. g.cursor}
        BY <3>3, <1>2, <1>4
      <4> QED
        BY <4>1, <3>3, <1>4
    <3>4. CASE i <= to
      <4>1. elements[i] \in g.got
        BY <3>1, <3>4, <1>2, <1>4
      <4>2. elements[i] \notin {elements[j] : j \in to + 1 .. g.cursor}
        <5>1. ASSUME NEW j \in to + 1 .. g.cursor, elements[i] = elements[j]
              PROVE  FALSE
          <6>1. j \in DOMAIN elements /\ i \in DOMAIN elements
            BY <1>1, <1>2, <1>4
          <6>2. i = j
            BY <5>1, <6>1 DEF PassiveInv, NoRepeats
          <6> QED
            BY <6>2, <3>4, <1>2, <1>4
        <5> QED
          BY <5>1
      <4> QED
        BY <4>1, <4>2, <3>4, <1>4
    <3> QED
      BY <3>2, <3>3, <3>4, <1>2, <1>4
  <2> QED
    BY <2>1
<1> HIDE DEF to, B
<1>6. r \in Iterator /\ r.start = g.start /\ r.cursor = to /\ r.got = B
  BY <1>2, <1>4 DEF Iterator
<1> HIDE DEF r
<1>7. PassFits(elements, r.cursor, r.start, r.got)
  <2>1. to <= Len(elements)
    BY <1>1, <1>2, <1>4
  <2> QED
    BY <1>1, <2>1, <1>5, <1>6 DEF PassFits
<1>8. r.start \subseteq ElementsOf(elements)
  BY <1>2, <1>6
<1> QED
  BY <1>3, <1>6, <1>7, <1>8, IteratorPassive

\* Close keeps the invariant.
LEMMA ClosePassive ==
    ASSUME TypeInv, PassiveInv, stack = <<>>, NEW it \in Iterators, Close(it)
    PROVE  PassiveInv'
<1>1. Idle \in Iterator /\ Idle.start = {} /\ Idle.on = FALSE
  BY DEF Idle, Iterator
<1>2. iterator' = [iterator EXCEPT ![it] = Idle] /\ UNCHANGED <<elements, stack, tracked, watched>>
  BY DEF Close
<1> QED
  BY <1>1, <1>2, IteratorPassive

\* The change under way, when there is one.
LEMMA OneChange ==
    ASSUME TypeInv, PassiveInv, stack # <<>>
    PROVE  /\ Len(stack) = 1 /\ Last(stack) = stack[1] /\ ChangeOK(stack[1])
           /\ stack[1].told \in 0 .. Listeners
<1>1. /\ Len(stack) \in Nat /\ Len(stack) >= 1 /\ Last(stack) = stack[Len(stack)]
      /\ ChangeOK(Last(stack))
  BY LastChange DEF TypeInv
<1>2. Len(stack) = 1
  BY <1>1 DEF PassiveInv
<1> QED
  BY <1>1, <1>2 DEF ChangeOK, Change

\* A change that has been told to one more listener, or to as many, as before.
LEMMA ToldPassive ==
    ASSUME TypeInv, PassiveInv, stack # <<>>, NEW k \in 0 .. Listeners, NEW b \in BOOLEAN,
           stack' = [stack EXCEPT ![Len(stack)] = [Last(stack) EXCEPT !.told = k, !.busy = b]],
           UNCHANGED <<elements, watched, iterator>>,
           \A l \in 1 .. Listeners :
              IF l <= k
              THEN tracked'[l] = IF l <= stack[1].told THEN tracked[l]
                                 ELSE AdjustedIndex(stack[1], tracked[l])
              ELSE ~ (l <= stack[1].told) /\ tracked'[l] = tracked[l]
    PROVE  PassiveInv'
<1> DEFINE g == stack[1]
           m == [Last(stack) EXCEPT !.told = k, !.busy = b]
<1>1. Len(stack) = 1 /\ Last(stack) = g /\ ChangeOK(g)
  BY OneChange
<1>2. ToldTo(m, Last(stack), k, b) /\ Innermost([stack EXCEPT ![Len(stack)] = m], m)
  BY LastChanged DEF TypeInv
<1>3. stack' = [stack EXCEPT ![Len(stack)] = m]
  OBVIOUS
<1> HIDE DEF m, g
<1>4. Innermost(stack', m) /\ ToldTo(m, g, k, b)
  BY <1>1, <1>2, <1>3
<1>5. Len(stack') = 1 /\ stack' # <<>> /\ stack'[1] = m
  BY <1>1, <1>4, EmptySeq DEF Innermost
<1>6. m.what = g.what /\ m.first = g.first /\ m.second = g.second /\ m.told = k
  BY <1>4 DEF ToldTo
<1>7. \A x : AdjustedIndex(m, x) = AdjustedIndex(g, x)
  BY <1>6 DEF AdjustedIndex
<1>8. \A task, c : CursorNext(task, c, m) = CursorNext(task, c, g)
  BY <1>6 DEF CursorNext
<1>9. ASSUME NEW l \in 1 .. Listeners
      PROVE  IndexFits(elements', SoonIndex(stack', l, tracked'[l]), watched'[l])
  <2>1. IndexFits(elements, SoonIndex(stack, l, tracked[l]), watched[l])
    BY DEF PassiveInv
  <2>2. SoonIndex(stack', l, tracked'[l]) = SoonIndex(stack, l, tracked[l])
    <3>1. SoonIndex(stack', l, tracked'[l])
            = IF l <= k THEN tracked'[l] ELSE AdjustedIndex(g, tracked'[l])
      BY <1>5, <1>6, <1>7 DEF SoonIndex
    <3>2. SoonIndex(stack, l, tracked[l])
            = IF l <= g.told THEN tracked[l] ELSE AdjustedIndex(g, tracked[l])
      BY DEF SoonIndex, g
    <3>3. IF l <= k
          THEN tracked'[l] = IF l <= g.told THEN tracked[l] ELSE AdjustedIndex(g, tracked[l])
          ELSE ~ (l <= g.told) /\ tracked'[l] = tracked[l]
      BY DEF g
    <3>4. CASE l <= k
      BY <3>1, <3>2, <3>3, <3>4
    <3>5. CASE ~ (l <= k)
      BY <3>1, <3>2, <3>3, <3>5
    <3> QED
      BY <3>4, <3>5
  <2> QED
    BY <2>1, <2>2
<1>10. ASSUME NEW it \in Iterators
       PROVE  IteratorFits(stack', elements', iterator'[it])
  <2>1. IteratorFits(stack, elements, iterator[it])
    BY DEF PassiveInv
  <2> QED
    BY <2>1, <1>5, <1>8 DEF IteratorFits, g
<1>11. Len(stack') <= 1 /\ NoRepeats(elements')
  BY <1>5 DEF PassiveInv
<1> QED
  BY <1>9, <1>10, <1>11 DEF PassiveInv

\* Tell keeps the invariant.
LEMMA TellPassive ==
    ASSUME TypeInv, PassiveInv, Tell
    PROVE  PassiveInv'
<1> DEFINE g == stack[1]
<1>1. stack # <<>>
  BY DEF Tell
<1>2. Len(stack) = 1 /\ Last(stack) = g /\ ChangeOK(g) /\ g.told \in 0 .. Listeners
  BY <1>1, OneChange
<1>3. /\ g.told < Listeners
      /\ tracked' = [tracked EXCEPT ![g.told + 1] = AdjustedIndex(g, @)]
      /\ UNCHANGED <<elements, watched, iterator>>
  BY <1>2 DEF Tell
<1>4. stack' = [stack EXCEPT ![Len(stack)] = [Last(stack) EXCEPT !.told = g.told + 1, !.busy = TRUE]]
  <2>1. stack' = [stack EXCEPT ![Len(stack)].told = @ + 1, ![Len(stack)].busy = TRUE]
    BY DEF Tell
  <2>2. stack' = [stack EXCEPT ![Len(stack)] =
                    [[stack[Len(stack)] EXCEPT !.told = @ + 1] EXCEPT !.busy = TRUE]]
    BY <2>1, <1>2 DEF TypeInv, StackOK
  <2> QED
    BY <2>2, <1>2
<1>5. g.told \in Nat /\ g.told + 1 \in 1 .. Listeners /\ g.told + 1 \in 0 .. Listeners
  BY <1>2, <1>3, BoundsAssumption
<1> HIDE DEF g
<1>6. ASSUME NEW l \in 1 .. Listeners
      PROVE  IF l <= g.told + 1
             THEN tracked'[l] = IF l <= g.told THEN tracked[l] ELSE AdjustedIndex(g, tracked[l])
             ELSE ~ (l <= g.told) /\ tracked'[l] = tracked[l]
  <2>1. tracked'[l] = IF l = g.told + 1 THEN AdjustedIndex(g, tracked[l]) ELSE tracked[l]
    BY <1>3, <1>5 DEF TypeInv, IndicesOK
  <2>2. CASE l = g.told + 1
    <3>1. l <= g.told + 1 /\ ~ (l <= g.told)
      BY <2>2, <1>5
    <3> QED
      BY <3>1, <2>1, <2>2
  <2>3. CASE l <= g.told
    <3>1. l <= g.told + 1 /\ l # g.told + 1
      BY <2>3, <1>5
    <3> QED
      BY <3>1, <2>1, <2>3
  <2>4. CASE l > g.told + 1
    <3>1. ~ (l <= g.told + 1) /\ ~ (l <= g.told) /\ l # g.told + 1
      BY <2>4, <1>5
    <3> QED
      BY <3>1, <2>1
  <2> QED
    BY <2>2, <2>3, <2>4, <1>5
<1> QED
  BY <1>1, <1>3, <1>4, <1>5, <1>6, ToldPassive DEF g

\* Return keeps the invariant.
LEMMA ReturnPassive ==
    ASSUME TypeInv, PassiveInv, Return
    PROVE  PassiveInv'
<1> DEFINE g == stack[1]
<1>1. stack # <<>> /\ UNCHANGED <<elements, tracked, watched, iterator>>
  BY DEF Return
<1>2. Len(stack) = 1 /\ Last(stack) = g /\ ChangeOK(g) /\ g.told \in 0 .. Listeners
  BY <1>1, OneChange
<1>3. stack' = [stack EXCEPT ![Len(stack)] = [Last(stack) EXCEPT !.told = g.told, !.busy = FALSE]]
  <2>1. stack' = [stack EXCEPT ![Len(stack)].busy = FALSE]
    BY DEF Return
  <2>2. stack' = [stack EXCEPT ![Len(stack)] = [stack[Len(stack)] EXCEPT !.busy = FALSE]]
    BY <2>1
  <2>3. [g EXCEPT !.told = g.told, !.busy = FALSE] = [g EXCEPT !.busy = FALSE]
    BY <1>2 DEF ChangeOK, Change
  <2> QED
    BY <2>2, <2>3, <1>2
<1>4. \A l \in 1 .. Listeners :
         IF l <= g.told
         THEN tracked'[l] = IF l <= g.told THEN tracked[l] ELSE AdjustedIndex(g, tracked[l])
         ELSE ~ (l <= g.told) /\ tracked'[l] = tracked[l]
  BY <1>1
<1> QED
  BY <1>1, <1>2, <1>3, <1>4, ToldPassive

\* Notify keeps the invariant.
LEMMA NotifyPassive ==
    ASSUME TypeInv, PassiveInv, NotifyIterators
    PROVE  PassiveInv'
<1> DEFINE g == stack[1]
<1>1. stack # <<>> /\ UNCHANGED <<elements, tracked, watched>>
  BY DEF NotifyIterators
<1>2. Len(stack) = 1 /\ Last(stack) = g /\ ChangeOK(g)
  BY <1>1, OneChange
<1>3. /\ g.told = Listeners /\ stack' = Front(stack)
      /\ iterator' = [it \in Iterators |->
                        IF iterator[it].on THEN Notified(iterator[it], g) ELSE iterator[it]]
  BY <1>2 DEF NotifyIterators
<1>4. stack' = <<>> /\ Len(stack') = 0
  <2>1. stack \in Seq(Change) /\ g \in Change
    BY <1>2 DEF TypeInv, StackOK, ChangeOK
  <2>2. stack' \in Seq(Change) /\ Len(stack') = 0
    BY <2>1, <1>1, <1>2, <1>3, FrontProperties
  <2> QED
    BY <2>2, EmptySeq
<1> HIDE DEF g
<1>5. ASSUME NEW l \in 1 .. Listeners
      PROVE  IndexFits(elements', SoonIndex(stack', l, tracked'[l]), watched'[l])
  <2>1. IndexFits(elements, SoonIndex(stack, l, tracked[l]), watched[l])
    BY DEF PassiveInv
  <2>2. l <= g.told
    BY <1>3, BoundsAssumption
  <2>3. SoonIndex(stack, l, tracked[l]) = tracked[l] /\ SoonIndex(stack', l, tracked'[l]) = tracked[l]
    BY <2>2, <1>1, <1>4 DEF SoonIndex, g
  <2> QED
    BY <2>1, <2>3, <1>1
<1>6. ASSUME NEW it \in Iterators
      PROVE  IteratorFits(stack', elements', iterator'[it])
  <2> DEFINE r == iterator[it]
             q == iterator'[it]
  <2>1. IteratorFits(stack, elements, r) /\ r \in Iterator
    BY DEF PassiveInv, TypeInv
  <2>2. q = IF r.on THEN Notified(r, g) ELSE r
    BY <1>3
  <2> HIDE DEF r, q
  <2>3. CASE r.on
    <3>1. /\ q.on = r.on /\ q.task = r.task /\ q.cursor = CursorNext(r.task, r.cursor, g)
          /\ q.start = r.start /\ q.got = r.got
      BY <2>1, <2>2, <2>3, <1>2, NotifiedIterator
    <3>2. r.start \subseteq ElementsOf(elements)
          /\ PassFits(elements, CursorNext(r.task, r.cursor, g), r.start, r.got)
      BY <2>1, <2>3, <1>1 DEF IteratorFits, g
    <3>3. IteratorFits(stack', elements', q)
      BY <3>1, <3>2, <1>1, <1>4 DEF IteratorFits
    <3> QED
      BY <3>3 DEF q
  <2>4. CASE ~ r.on
    <3>1. q = r
      BY <2>2, <2>4
    <3>2. IteratorFits(stack', elements', q)
      BY <3>1, <2>1, <2>4, <1>1 DEF IteratorFits
    <3> QED
      BY <3>2 DEF q
  <2> QED
    BY <2>3, <2>4
<1> QED
  BY <1>4, <1>5, <1>6, <1>1 DEF PassiveInv

\* Every step keeps the invariant.
LEMMA NextKeepsPassive ==
    ASSUME TypeInv, PassiveInv, [PassiveNext]_vars
    PROVE  PassiveInv'
<1>1. CASE stack = <<>> /\ Application
  <2>1. ASSUME NEW e \in Elements,
               (\E i \in 1 .. N + 2 : Insert(e, i)) \/ (\E i \in 1 .. N : Set(i, e))
        PROVE  PassiveInv'
    BY <1>1, <2>1, InsertPassive, SetPassive
  <2>2. ASSUME NEW i \in 1 .. N, NEW j \in 1 .. N,
               RemoveNextElements(i, j) \/ Move(i, j) \/ SwapElements(i, j)
        PROVE  PassiveInv'
    BY <1>1, <2>2, RemovePassive, MovePassive, SwapPassive
  <2>3. ASSUME NEW i \in 1 .. N, Assign(SubSeq(elements, i, N))
        PROVE  PassiveInv'
    BY <1>1, <2>3, AssignPassive
  <2>4. ASSUME NEW it \in Iterators, RemoveNext(it) \/ RemovePrev(it)
        PROVE  PassiveInv'
    <3>1. PICK i \in 1 .. N, j \in 1 .. N : RemoveNextElements(i, j)
      BY <2>4, RemovingAtCursor
    <3> QED
      BY <1>1, <3>1, RemovePassive
  <2>5. ASSUME NEW l \in 1 .. Listeners, NEW i \in 1 .. N, Watch(l, i)
        PROVE  PassiveInv'
    BY <1>1, <2>5, WatchPassive
  <2>6. ASSUME NEW it \in Iterators,
               \/ \E task \in BOOLEAN, c \in 0 .. N : MoveTo(it, task, c)
               \/ \E count \in 1 .. N : Next_(it, count) \/ Prev(it, count)
               \/ Close(it)
        PROVE  PassiveInv'
    BY <1>1, <2>6, MoveToPassive, NextPassive, PrevPassive, ClosePassive
  <2> QED
    BY <1>1, <2>1, <2>2, <2>3, <2>4, <2>5, <2>6 DEF Application
<1>2. CASE Library
  BY <1>2, TellPassive, ReturnPassive, NotifyPassive DEF Library
<1>3. CASE UNCHANGED vars
  BY <1>3 DEF vars, PassiveInv
<1> QED
  BY <1>1, <1>2, <1>3 DEF PassiveNext

\* When listeners only listen, the types and the invariant hold throughout.
LEMMA PassiveKept == PassiveSpec => [](TypeInv /\ PassiveInv)
<1>1. Init => TypeInv /\ PassiveInv
  BY InitTypes, InitPassive
<1>2. TypeInv /\ PassiveInv /\ [PassiveNext]_vars => (TypeInv /\ PassiveInv)'
  <2> SUFFICES ASSUME TypeInv, PassiveInv, [PassiveNext]_vars
               PROVE  TypeInv' /\ PassiveInv'
    OBVIOUS
  <2>1. [Next]_vars
    BY DEF PassiveNext, Next
  <2> QED
    BY <2>1, NextKeepsTypes, NextKeepsPassive
<1> QED
  BY <1>1, <1>2, PTL DEF PassiveSpec

\* Between changes every iterator has passed what it has fetched and nothing else,
\* whatever was inserted, removed or set around it and by whichever iterator.
THEOREM PassesAreRobust == PassiveSpec => []IteratorRobust
<1>1. ASSUME TypeInv, PassiveInv
      PROVE  IteratorRobust
  <2> SUFFICES ASSUME stack = <<>>, NEW it \in Iterators, iterator[it].on
               PROVE  PassFits(elements, iterator[it].cursor, iterator[it].start, iterator[it].got)
    BY DEF IteratorRobust, PassFits, N
  <2> QED
    BY <1>1, QuietPassive
<1> QED
  BY <1>1, PassiveKept, PTL

\* Between changes every index kept with AdjustIndex is that of its element.
THEOREM IndicesFollow == PassiveSpec => []IndexFollows
<1>1. ASSUME TypeInv, PassiveInv
      PROVE  IndexFollows
  <2> SUFFICES ASSUME stack = <<>>, NEW l \in 1 .. Listeners
               PROVE  IndexFits(elements, tracked[l], watched[l])
    BY DEF IndexFollows, IndexFits, N
  <2> QED
    BY <1>1, QuietPassive
<1> QED
  BY <1>1, PassiveKept, PTL

-----------------------------------------------------------------------------
(* The binary search: the input, the bounds, and the invariant.            *)

\* What is known of the input.
SearchInput ==
    /\ array \in Seq(Int)
    /\ sortOrder \in {"ascending", "descending"}
    /\ which \in {"firstMatch", "lastMatch", "anyMatch"}
    /\ target \in Int
    /\ InOrder(array, sortOrder)

\* r is how the target compares with element i, and it does not belong in front
\* of it; if they are equal, this is a search for the last match.
LowerBound(i, r) ==
    /\ i \in 1 .. size
    /\ r = Compare(target, array[i])
    /\ ~ InFront(r)
    /\ r = "equal" => which = "lastMatch"

UpperBound(i, r) ==
    /\ i \in 1 .. size
    /\ r = Compare(target, array[i])
    /\ ~ Behind(r)
    /\ r = "equal" => which = "firstMatch"

SearchInv ==
    /\ SearchTypeOK
    /\ SearchInput
    /\ pc \in {"first", "last"} => firstIndex = 1 /\ lastIndex = size
    /\ pc = "last" => size >= 2 /\ LowerBound(1, r1)
    /\ pc \in {"bisect", "narrowed"} =>
          LowerBound(firstIndex, r1) /\ UpperBound(lastIndex, r2) /\ firstIndex < lastIndex
    /\ AssertionsHold
    /\ AnswerCorrect

-----------------------------------------------------------------------------
(* Comparisons.                                                            *)

\* Half the sum is between the two, and below the larger one.
LEMMA MidpointBetween ==
    ASSUME NEW f \in Nat, NEW l \in Nat, f < l
    PROVE  /\ Midpoint(f, l) \in Nat
           /\ f <= Midpoint(f, l) /\ Midpoint(f, l) < l
           /\ f + 1 < l => f < Midpoint(f, l)
<1>1. /\ f = 2 * (f \div 2) + (f % 2) /\ f \div 2 \in Nat /\ f % 2 \in {0, 1}
      /\ l = 2 * (l \div 2) + (l % 2) /\ l \div 2 \in Nat /\ l % 2 \in {0, 1}
  OBVIOUS
<1>2. ((f % 2) + (l % 2)) \div 2 = IF f % 2 = 1 /\ l % 2 = 1 THEN 1 ELSE 0
  BY <1>1
<1> QED
  BY <1>1, <1>2 DEF Midpoint

\* The array holds numbers, in order.
LEMMA Numbers ==
    ASSUME SearchInput
    PROVE  /\ size \in Nat
           /\ target \in Int
           /\ \A i \in 1 .. size : array[i] \in Int
           /\ \A i, j \in 1 .. size : i < j =>
                 IF sortOrder = "ascending" THEN array[i] <= array[j] ELSE array[j] <= array[i]
BY DEF SearchInput, InOrder, size

\* What the target belongs behind, it also belongs behind of what is in front.
LEMMA BehindAll ==
    ASSUME SearchInput, NEW i \in 1 .. size, Behind(Compare(target, array[i])),
           NEW j \in 1 .. size, j <= i
    PROVE  Behind(Compare(target, array[j])) /\ array[j] # target
<1>1. /\ array[j] \in Int /\ array[i] \in Int /\ target \in Int /\ (j < i \/ j = i)
      /\ j < i => IF sortOrder = "ascending" THEN array[j] <= array[i] ELSE array[i] <= array[j]
  BY Numbers
<1> QED
  BY <1>1 DEF Behind, Compare, SearchInput

\* What the target belongs in front of, it also belongs in front of what is behind.
LEMMA InFrontAll ==
    ASSUME SearchInput, NEW i \in 1 .. size, InFront(Compare(target, array[i])),
           NEW j \in 1 .. size, i <= j
    PROVE  InFront(Compare(target, array[j])) /\ array[j] # target
<1>1. /\ array[j] \in Int /\ array[i] \in Int /\ target \in Int /\ (i < j \/ j = i)
      /\ i < j => IF sortOrder = "ascending" THEN array[i] <= array[j] ELSE array[j] <= array[i]
  BY Numbers
<1> QED
  BY <1>1 DEF InFront, Compare, SearchInput

\* A comparison has one of three results; the two others are in front and behind.
LEMMA Comparison ==
    ASSUME SearchInput, NEW i \in 1 .. size
    PROVE  LET r == Compare(target, array[i])
           IN  /\ r \in Results
               /\ r = "equal" <=> array[i] = target
               /\ ~ InFront(r) /\ r # "equal" => Behind(r)
               /\ ~ Behind(r) /\ r # "equal" => InFront(r)
               /\ r = "equal" => ~ InFront(r) /\ ~ Behind(r)
               /\ ~ (InFront(r) /\ Behind(r))
<1>1. array[i] \in Int /\ target \in Int
  BY Numbers
<1> QED
  BY <1>1 DEF Compare, Results, InFront, Behind, SearchInput

\* An answer without a match is the one place where the target belongs.
LEMMA PlaceCorrect ==
    ASSUME SearchInput, NEW i \in 1 .. size + 1,
           i > 1  => Behind(Compare(target, array[i - 1])),
           i <= size => InFront(Compare(target, array[i]))
    PROVE  \A j \in 1 .. size : IF j < i THEN Behind(Compare(target, array[j]))
                                      ELSE InFront(Compare(target, array[j]))
<1>1. size \in Nat
  BY Numbers
<1> SUFFICES ASSUME NEW j \in 1 .. size
             PROVE  IF j < i THEN Behind(Compare(target, array[j]))
                             ELSE InFront(Compare(target, array[j]))
  OBVIOUS
<1>2. CASE j < i
  <2>1. i - 1 \in 1 .. size /\ j <= i - 1 /\ Behind(Compare(target, array[i - 1]))
    BY <1>1, <1>2
  <2> QED
    BY <1>2, <2>1, BehindAll
<1>3. CASE ~ (j < i)
  <2>1. i \in 1 .. size /\ i <= j /\ InFront(Compare(target, array[i]))
    BY <1>1, <1>3
  <2> QED
    BY <1>3, <2>1, InFrontAll
<1> QED
  BY <1>2, <1>3

-----------------------------------------------------------------------------
(* The answers.                                                            *)

\* What an answer has to satisfy (AnswerCorrect, of a given answer).
Correct(f, i) ==
    IF f
    THEN /\ i \in 1 .. size /\ array[i] = target
         /\ which = "firstMatch" => \A j \in 1 .. size : j < i => array[j] # target
         /\ which = "lastMatch"  => \A j \in 1 .. size : j > i => array[j] # target
    ELSE /\ i \in 1 .. size + 1
         /\ \A j \in 1 .. size : IF j < i THEN Behind(Compare(target, array[j]))
                                       ELSE InFront(Compare(target, array[j]))

\* Giving a correct answer keeps the invariant.
LEMMA AnswerKeeps ==
    ASSUME SearchInv, NEW f \in BOOLEAN, NEW i \in Nat, Correct(f, i), Answer(f, i)
    PROVE  SearchInv'
<1>1. SearchTypeOK'
  BY DEF Answer, SearchInv, SearchTypeOK, input
<1>2. SearchInput'
  BY DEF Answer, SearchInv, SearchInput, input
<1>3. AnswerCorrect'
  BY DEF Answer, AnswerCorrect, Correct, input, size, Behind, InFront
<1> QED
  BY <1>1, <1>2, <1>3 DEF Answer, SearchInv, AssertionsHold

\* The initial states.
LEMMA SearchInitInv == SearchInit => SearchInv
<1> SUFFICES ASSUME SearchInit
             PROVE  SearchInv
  OBVIOUS
<1>1. array \in Seq(Int) /\ target \in Int
  BY ArraysAssumption DEF SearchInit
<1>2. size \in Nat
  BY <1>1 DEF size
<1>3. SearchTypeOK /\ SearchInput
  BY <1>1, <1>2 DEF SearchInit, SearchTypeOK, SearchInput, Results
<1> QED
  BY <1>3 DEF SearchInit, SearchInv, AssertionsHold, AnswerCorrect

\* The first element: an empty array, a match, a target in front, or a lower bound.
LEMMA CheckFirstKeeps ==
    ASSUME SearchInv, CheckFirst
    PROVE  SearchInv'
<1> DEFINE r == Compare(target, array[1])
<1>1. SearchInput /\ size \in Nat /\ pc = "first" /\ firstIndex = 1 /\ lastIndex = size
  BY Numbers DEF CheckFirst, SearchInv
<1>2. CASE size = 0
  <2>1. Correct(FALSE, 1)
    BY <1>1, <1>2 DEF Correct
  <2>2. Answer(FALSE, 1)
    BY <1>2 DEF CheckFirst
  <2> QED
    BY <2>1, <2>2, AnswerKeeps
<1>3. CASE size # 0
  <2>1. /\ 1 \in 1 .. size /\ r \in Results
        /\ r = "equal" <=> array[1] = target
        /\ ~ InFront(r) /\ r # "equal" => Behind(r)
    BY <1>1, <1>3, Comparison
  <2>2. CASE r = "equal" /\ (size = 1 \/ which # "lastMatch")
    <3>1. Correct(TRUE, 1)
      BY <1>1, <2>1, <2>2 DEF Correct
    <3>2. Answer(TRUE, 1)
      BY <1>3, <2>2 DEF CheckFirst
    <3> QED
      BY <3>1, <3>2, AnswerKeeps
  <2>3. CASE ~ (r = "equal" /\ (size = 1 \/ which # "lastMatch")) /\ InFront(r)
    <3>1. Correct(FALSE, 1)
      BY <1>1, <2>1, <2>3, PlaceCorrect DEF Correct
    <3>2. Answer(FALSE, 1)
      BY <1>3, <2>3 DEF CheckFirst
    <3> QED
      BY <3>1, <3>2, AnswerKeeps
  <2>4. CASE ~ (r = "equal" /\ (size = 1 \/ which # "lastMatch")) /\ ~ InFront(r) /\ size = 1
    <3>1. Behind(r)
      BY <2>1, <2>4
    <3>2. Correct(FALSE, 2)
      BY <1>1, <2>4, <3>1, PlaceCorrect DEF Correct
    <3>3. Answer(FALSE, 2)
      BY <1>3, <2>4 DEF CheckFirst
    <3> QED
      BY <3>2, <3>3, AnswerKeeps
  <2>5. CASE ~ (r = "equal" /\ (size = 1 \/ which # "lastMatch")) /\ ~ InFront(r) /\ size # 1
    <3>1. /\ r1' = r /\ pc' = "last"
          /\ UNCHANGED <<input, firstIndex, lastIndex, r2, found, index>>
      BY <1>3, <2>5 DEF CheckFirst
    <3>2. LowerBound(1, r1)' /\ size' = size /\ SearchInput'
      BY <1>1, <2>1, <2>5, <3>1 DEF LowerBound, input, size, SearchInput, InFront
    <3>3. SearchTypeOK'
      BY <1>1, <2>1, <3>1 DEF SearchInv, SearchTypeOK, input
    <3>4. size >= 2
      BY <1>1, <1>3, <2>5
    <3>5. AnswerCorrect' /\ AssertionsHold'
      BY <3>1 DEF AnswerCorrect, AssertionsHold
    <3> QED
      BY <1>1, <3>1, <3>2, <3>3, <3>4, <3>5 DEF SearchInv
  <2> QED
    BY <2>2, <2>3, <2>4, <2>5
<1> QED
  BY <1>1, <1>2, <1>3

\* The last element: a match, a target behind all, or an upper bound.
LEMMA CheckLastKeeps ==
    ASSUME SearchInv, CheckLast
    PROVE  SearchInv'
<1> DEFINE r == Compare(target, array[size])
<1>1. /\ SearchInput /\ size \in Nat /\ size >= 2 /\ pc = "last" /\ firstIndex = 1 /\ lastIndex = size
      /\ LowerBound(1, r1)
  BY Numbers DEF CheckLast, SearchInv
<1>2. /\ size \in 1 .. size /\ r \in Results
      /\ r = "equal" <=> array[size] = target
      /\ ~ Behind(r) /\ r # "equal" => InFront(r)
  BY <1>1, Comparison
<1>3. CASE r = "equal" /\ (size = 2 \/ which # "firstMatch")
  <2>1. which = "firstMatch" => size = 2 /\ array[1] # target
    <3>1. 1 \in 1 .. size /\ (array[1] = target => r1 = "equal")
      BY <1>1, Comparison DEF LowerBound
    <3> QED
      BY <1>1, <1>3, <3>1 DEF LowerBound
  <2>2. Correct(TRUE, size)
    BY <1>1, <1>2, <1>3, <2>1 DEF Correct
  <2>3. Answer(TRUE, size)
    BY <1>3 DEF CheckLast
  <2> QED
    BY <1>1, <2>2, <2>3, AnswerKeeps
<1>4. CASE ~ (r = "equal" /\ (size = 2 \/ which # "firstMatch")) /\ Behind(r)
  <2>1. size + 1 \in 1 .. size + 1 /\ size + 1 \in Nat /\ (size + 1) - 1 = size /\ ~ (size + 1 <= size)
    BY <1>1
  <2>2. Correct(FALSE, size + 1)
    BY <1>1, <1>4, <2>1, PlaceCorrect DEF Correct
  <2>3. Answer(FALSE, size + 1)
    BY <1>4 DEF CheckLast
  <2> QED
    BY <2>1, <2>2, <2>3, AnswerKeeps
<1>5. CASE ~ (r = "equal" /\ (size = 2 \/ which # "firstMatch")) /\ ~ Behind(r)
  <2>1. /\ r2' = r /\ pc' = "bisect"
        /\ UNCHANGED <<input, firstIndex, lastIndex, r1, found, index>>
    BY <1>5 DEF CheckLast
  <2>2. UpperBound(lastIndex, r2)' /\ LowerBound(firstIndex, r1)'
    BY <1>1, <1>2, <1>5, <2>1 DEF LowerBound, UpperBound, input, size, InFront, Behind
  <2>3. SearchTypeOK' /\ SearchInput'
    BY <1>1, <1>2, <2>1 DEF SearchInv, SearchTypeOK, SearchInput, input
  <2> QED
    BY <1>1, <2>1, <2>2, <2>3 DEF SearchInv, AssertionsHold, AnswerCorrect
<1> QED
  BY <1>3, <1>4, <1>5

\* A comparison in the loop: a match, or a bound that moves to the middle.
LEMMA BisectKeeps ==
    ASSUME SearchInv, Bisect
    PROVE  SearchInv'
<1> DEFINE i    == Midpoint(firstIndex, lastIndex)
           r    == Compare(target, array[i])
           down == InFront(r) \/ (r = "equal" /\ which = "firstMatch")
<1>1. /\ SearchInput /\ size \in Nat /\ pc = "bisect" /\ firstIndex < lastIndex
      /\ LowerBound(firstIndex, r1) /\ UpperBound(lastIndex, r2)
      /\ firstIndex \in 1 .. size /\ lastIndex \in 1 .. size
  BY Numbers DEF Bisect, SearchInv, LowerBound, UpperBound
<1>2. /\ i \in 1 .. size /\ i \in Nat /\ firstIndex <= i /\ i < lastIndex
      /\ r \in Results
      /\ r = "equal" <=> array[i] = target
      /\ ~ InFront(r) /\ r # "equal" => Behind(r)
      /\ r = "equal" => ~ InFront(r) /\ ~ Behind(r)
      /\ ~ (InFront(r) /\ Behind(r))
  <2>1. i \in 1 .. size /\ i \in Nat /\ firstIndex <= i /\ i < lastIndex
    BY <1>1, MidpointBetween
  <2> QED
    BY <1>1, <2>1, Comparison
<1> HIDE DEF i
<1>3. CASE r = "equal" /\ which = "anyMatch"
  <2>1. Correct(TRUE, i)
    BY <1>2, <1>3 DEF Correct
  <2>2. Answer(TRUE, i)
    BY <1>3 DEF Bisect, i
  <2> QED
    BY <1>2, <2>1, <2>2, AnswerKeeps
<1>4. CASE ~ (r = "equal" /\ which = "anyMatch") /\ down
  <2>1. /\ lastIndex' = i /\ r2' = r /\ pc' = "narrowed"
        /\ UNCHANGED <<firstIndex, r1, input, found, index>>
    BY <1>4 DEF Bisect, i
  <2>2. firstIndex < lastIndex'
    <3>1. firstIndex # i
      BY <1>1, <1>4 DEF LowerBound
    <3> QED
      BY <1>1, <1>2, <2>1, <3>1
  <2>3. LowerBound(firstIndex, r1)' /\ UpperBound(lastIndex, r2)'
    BY <1>1, <1>2, <1>4, <2>1 DEF LowerBound, UpperBound, input, size, InFront, Behind
  <2>4. SearchTypeOK' /\ SearchInput'
    BY <1>1, <1>2, <2>1 DEF SearchInv, SearchTypeOK, SearchInput, input
  <2>5. AnswerCorrect' /\ AssertionsHold'
    BY <2>1 DEF AnswerCorrect, AssertionsHold
  <2> QED
    BY <2>1, <2>2, <2>3, <2>4, <2>5 DEF SearchInv
<1>5. CASE ~ (r = "equal" /\ which = "anyMatch") /\ ~ down
  <2>1. /\ firstIndex' = i /\ r1' = r /\ pc' = "narrowed"
        /\ UNCHANGED <<lastIndex, r2, input, found, index>>
    BY <1>5 DEF Bisect, i
  <2>2. firstIndex' < lastIndex
    BY <1>1, <1>2, <2>1
  <2>3. which \in {"firstMatch", "lastMatch", "anyMatch"}
    BY <1>1 DEF SearchInput
  <2>4. LowerBound(firstIndex, r1)' /\ UpperBound(lastIndex, r2)'
    BY <1>1, <1>2, <1>5, <2>1, <2>3 DEF LowerBound, UpperBound, input, size, InFront, Behind
  <2>5. SearchTypeOK' /\ SearchInput'
    BY <1>1, <1>2, <2>1 DEF SearchInv, SearchTypeOK, SearchInput, input
  <2>6. AnswerCorrect' /\ AssertionsHold'
    BY <2>1 DEF AnswerCorrect, AssertionsHold
  <2> QED
    BY <2>1, <2>2, <2>4, <2>5, <2>6 DEF SearchInv
<1> QED
  BY <1>3, <1>4, <1>5

\* The bounds are not adjacent: the lower one is below the other, so they are apart.
LEMMA GoOnKeeps ==
    ASSUME SearchInv, GoOn
    PROVE  SearchInv'
<1>1. /\ pc = "narrowed" /\ firstIndex < lastIndex /\ firstIndex \in Nat /\ lastIndex \in Nat
      /\ lastIndex # firstIndex + 1
      /\ pc' = IF lastIndex > firstIndex + 1 THEN "bisect" ELSE "failed"
      /\ UNCHANGED <<input, firstIndex, lastIndex, r1, r2, found, index>>
  BY DEF GoOn, SearchInv, SearchTypeOK
<1>2. pc' = "bisect"
  BY <1>1
<1>3. LowerBound(firstIndex, r1)' /\ UpperBound(lastIndex, r2)'
  BY <1>1 DEF SearchInv, LowerBound, UpperBound, input, size, InFront, Behind
<1>4. SearchTypeOK' /\ SearchInput'
  BY <1>1, <1>2 DEF SearchInv, SearchTypeOK, SearchInput, input
<1> QED
  BY <1>1, <1>2, <1>3, <1>4 DEF SearchInv, AssertionsHold, AnswerCorrect

\* What is known when the bounds are adjacent.
LEMMA Adjacent ==
    ASSUME SearchInv, pc = "narrowed", lastIndex = firstIndex + 1
    PROVE  /\ SearchInput /\ size \in Nat
           /\ LowerBound(firstIndex, r1) /\ UpperBound(lastIndex, r2)
           /\ firstIndex \in 1 .. size /\ lastIndex \in 1 .. size /\ lastIndex - 1 = firstIndex
           /\ r1 # "equal" => array[firstIndex] # target /\ Behind(Compare(target, array[firstIndex]))
           /\ r2 # "equal" => array[lastIndex]  # target /\ InFront(Compare(target, array[lastIndex]))
           /\ r1 = "equal" => array[firstIndex] = target /\ which = "lastMatch"
           /\ r2 = "equal" => array[lastIndex]  = target /\ which = "firstMatch"
<1>1. /\ SearchInput /\ size \in Nat
      /\ LowerBound(firstIndex, r1) /\ UpperBound(lastIndex, r2)
      /\ firstIndex \in 1 .. size /\ lastIndex \in 1 .. size /\ lastIndex - 1 = firstIndex
  BY Numbers DEF SearchInv, LowerBound, UpperBound, SearchTypeOK
<1>2. /\ r1 # "equal" => array[firstIndex] # target /\ Behind(Compare(target, array[firstIndex]))
      /\ r1 = "equal" => array[firstIndex] = target /\ which = "lastMatch"
  BY <1>1, Comparison DEF LowerBound
<1>3. /\ r2 # "equal" => array[lastIndex]  # target /\ InFront(Compare(target, array[lastIndex]))
      /\ r2 = "equal" => array[lastIndex]  = target /\ which = "firstMatch"
  BY <1>1, Comparison DEF UpperBound
<1> QED
  BY <1>1, <1>2, <1>3

\* No match at the bounds: the target belongs between them.
LEMMA GiveUpKeeps ==
    ASSUME SearchInv, GiveUp
    PROVE  SearchInv'
<1>1. /\ pc = "narrowed" /\ lastIndex = firstIndex + 1 /\ NoMatchAtBounds
      /\ Answer(FALSE, lastIndex)
  BY DEF GiveUp
<1>2. r1 # "equal" /\ r2 # "equal"
  BY <1>1, Adjacent DEF NoMatchAtBounds
<1>3. /\ lastIndex \in 1 .. size + 1 /\ lastIndex \in Nat
      /\ Behind(Compare(target, array[lastIndex - 1])) /\ InFront(Compare(target, array[lastIndex]))
  BY <1>1, <1>2, Adjacent
<1>4. Correct(FALSE, lastIndex)
  BY <1>1, <1>3, PlaceCorrect, Adjacent DEF Correct
<1> QED
  BY <1>1, <1>3, <1>4, AnswerKeeps

\* A match at the bounds: it is the one that was asked for.
LEMMA AnswerBoundKeeps ==
    ASSUME SearchInv, AnswerBound
    PROVE  SearchInv'
<1>1. /\ pc = "narrowed" /\ lastIndex = firstIndex + 1 /\ ~ NoMatchAtBounds
  BY DEF AnswerBound
<1>2. /\ SearchInput /\ size \in Nat
      /\ firstIndex \in 1 .. size /\ lastIndex \in 1 .. size /\ lastIndex - 1 = firstIndex
      /\ firstIndex \in Nat /\ lastIndex \in Nat
  BY <1>1, Adjacent
<1>3. CASE r2 = "equal"
  <2>1. which = "firstMatch" /\ array[lastIndex] = target /\ r1 # "equal"
    BY <1>1, <1>3, Adjacent
  <2>2. Behind(Compare(target, array[firstIndex]))
    BY <1>1, <2>1, Adjacent
  <2>3. \A j \in 1 .. size : j < lastIndex => array[j] # target
    <3> TAKE j \in 1 .. size
    <3> HAVE j < lastIndex
    <3>1. j <= firstIndex
      BY <1>2
    <3> QED
      BY <1>2, <2>2, <3>1, BehindAll
  <2>4. Correct(TRUE, lastIndex)
    BY <1>2, <2>1, <2>3 DEF Correct
  <2>5. Answer(TRUE, lastIndex)
    BY <1>1, <1>3, <2>1 DEF AnswerBound
  <2> QED
    BY <1>2, <2>4, <2>5, AnswerKeeps
<1>4. CASE r2 # "equal"
  <2>1. which = "lastMatch" /\ array[firstIndex] = target /\ r1 = "equal"
    BY <1>1, <1>4, Adjacent DEF NoMatchAtBounds
  <2>2. InFront(Compare(target, array[lastIndex]))
    BY <1>1, <1>4, Adjacent
  <2>3. \A j \in 1 .. size : j > firstIndex => array[j] # target
    <3> TAKE j \in 1 .. size
    <3> HAVE j > firstIndex
    <3>1. lastIndex <= j
      BY <1>2
    <3> QED
      BY <1>2, <2>2, <3>1, InFrontAll
  <2>4. Correct(TRUE, firstIndex)
    BY <1>2, <2>1, <2>3 DEF Correct
  <2>5. Answer(TRUE, firstIndex)
    BY <1>1, <1>4, <2>1 DEF AnswerBound
  <2> QED
    BY <1>2, <2>4, <2>5, AnswerKeeps
<1> QED
  BY <1>3, <1>4

\* A stuttering step.
LEMMA SearchStutterKeeps ==
    ASSUME SearchInv, UNCHANGED searchVars
    PROVE  SearchInv'
<1>1. SearchTypeOK' /\ SearchInput'
  BY DEF SearchInv, SearchTypeOK, SearchInput, searchVars, input
<1>2. AnswerCorrect' /\ AssertionsHold'
  BY DEF SearchInv, AnswerCorrect, AssertionsHold, searchVars, input, size, Behind, InFront
<1>3. /\ pc' \in {"first", "last"} => firstIndex' = 1 /\ lastIndex' = size'
      /\ pc' = "last" => size' >= 2 /\ LowerBound(1, r1)'
      /\ pc' \in {"bisect", "narrowed"} =>
            LowerBound(firstIndex, r1)' /\ UpperBound(lastIndex, r2)' /\ firstIndex' < lastIndex'
  BY DEF SearchInv, LowerBound, UpperBound, searchVars, input, size, InFront, Behind
<1> QED
  BY <1>1, <1>2, <1>3 DEF SearchInv

-----------------------------------------------------------------------------
(* The theorems.                                                           *)

\* The loop invariant holds in every state of every search.
THEOREM SearchInvariance == SearchSpec => []SearchInv
<1>1. SearchInv /\ [SearchNext]_searchVars => SearchInv'
  BY CheckFirstKeeps, CheckLastKeeps, BisectKeeps, GoOnKeeps, GiveUpKeeps,
     AnswerBoundKeeps, SearchStutterKeeps DEF SearchNext
<1> QED
  BY <1>1, SearchInitInv, PTL DEF SearchSpec

\* The variables of JArray::SearchSorted1 keep their types.
THEOREM SearchTypeCorrect == SearchSpec => []SearchTypeOK
<1>1. SearchInv => SearchTypeOK
  BY DEF SearchInv
<1> QED
  BY <1>1, SearchInvariance, PTL

\* Neither assertion in the loop of JArray::SearchSorted1 can fail: not for an array
\* of any length, with any repeated elements, in either order.
THEOREM AssertionsNeverFail == SearchSpec => []AssertionsHold
<1>1. SearchInv => AssertionsHold
  BY DEF SearchInv
<1> QED
  BY <1>1, SearchInvariance, PTL

\* JArray::SearchSorted1 returns the match that was asked for or else the place to
\* insert the target, for every sorted array.
THEOREM SearchCorrect == SearchSpec => []AnswerCorrect
<1>1. SearchInv => AnswerCorrect
  BY DEF SearchInv
<1> QED
  BY <1>1, SearchInvariance, PTL
=============================================================================
