---------------------------- MODULE CursorLemmas ----------------------------
(***************************************************************************)
(* Facts about a sequence without repetitions and a cursor on it: what is  *)
(* left after the cursor when an element is taken out anywhere, put in at  *)
(* the front, or stepped over.  The proofs about tasks, child processes,   *)
(* sets and documents use those about elements and repetitions as well.    *)
(***************************************************************************)
EXTENDS IteratorCursor, SequencesExt, SequenceTheorems, TLAPS

ElementsOf(s) == {s[i] : i \in DOMAIN s}

After(s, c) == {s[i] : i \in (c + 1) .. Len(s)}

NoRepeats(s) == \A i, j \in DOMAIN s : s[i] = s[j] => i = j

\* A function on 1 .. n is a sequence of length n.
LEMMA FunctionIsSeq ==
    ASSUME NEW S, NEW n \in Nat, NEW f \in [1 .. n -> S]
    PROVE  f \in Seq(S) /\ Len(f) = n /\ DOMAIN f = 1 .. n
BY LenProperties, SeqDef

\* RemoveAt takes element i out and closes the gap.
LEMMA RemoveAtProperties ==
    ASSUME NEW S, NEW s \in Seq(S), NEW i \in 1 .. Len(s)
    PROVE  /\ RemoveAt(s, i) \in Seq(S)
           /\ Len(RemoveAt(s, i)) = Len(s) - 1
           /\ \A j \in 1 .. Len(s) - 1 :
                 RemoveAt(s, i)[j] = IF j < i THEN s[j] ELSE s[j + 1]
<1> DEFINE low == SubSeq(s, 1, i - 1)
           high == SubSeq(s, i + 1, Len(s))
<1>0. Len(s) \in Nat /\ \A j \in 1 .. Len(s) : s[j] \in S
  BY LenProperties, ElementOfSeq
<1>1. /\ low \in Seq(S)
      /\ Len(low) = i - 1
      /\ \A j \in 1 .. i - 1 : low[j] = s[j]
  BY <1>0, SubSeqProperties
<1>2. /\ high \in Seq(S)
      /\ Len(high) = Len(s) - i
      /\ \A j \in 1 .. Len(s) - i : high[j] = s[i + j]
  BY <1>0, SubSeqProperties
<1>3. /\ low \o high \in Seq(S)
      /\ Len(low \o high) = Len(low) + Len(high)
      /\ \A j \in 1 .. Len(low) + Len(high) :
            (low \o high)[j] = IF j <= Len(low) THEN low[j] ELSE high[j - Len(low)]
  BY <1>1, <1>2, ConcatProperties
<1>4. RemoveAt(s, i) = low \o high
  BY DEF RemoveAt
<1> DEFINE t == low \o high
<1> HIDE DEF low, high, t
<1>5. /\ t \in Seq(S)
      /\ Len(t) = Len(s) - 1
  BY <1>0, <1>1, <1>2, <1>3 DEF t
<1>6. ASSUME NEW j \in 1 .. Len(s) - 1
      PROVE  t[j] = IF j < i THEN s[j] ELSE s[j + 1]
  <2>1. t[j] = IF j <= i - 1 THEN low[j] ELSE high[j - (i - 1)]
    BY <1>0, <1>1, <1>2, <1>3 DEF t
  <2>2. CASE j < i
    BY <2>1, <2>2, <1>0, <1>1
  <2>3. CASE j >= i
    <3>1. j - (i - 1) \in 1 .. Len(s) - i
      BY <2>3, <1>0
    <3>2. high[j - (i - 1)] = s[i + (j - (i - 1))]
      BY <3>1, <1>2
    <3>3. i + (j - (i - 1)) = j + 1
      BY <1>0
    <3> QED
      BY <2>1, <2>3, <3>2, <3>3, <1>0
  <2> QED
    BY <2>2, <2>3, <1>0
<1> QED
  BY <1>4, <1>5, <1>6 DEF t

\* Putting an element at the front moves every other one up by one.
LEMMA PrependProperties ==
    ASSUME NEW S, NEW s \in Seq(S), NEW e \in S
    PROVE  /\ <<e>> \o s \in Seq(S)
           /\ Len(<<e>> \o s) = Len(s) + 1
           /\ (<<e>> \o s)[1] = e
           /\ \A j \in 1 .. Len(s) : (<<e>> \o s)[j + 1] = s[j]
<1>1. <<e>> \in Seq(S) /\ Len(<<e>>) = 1 /\ <<e>>[1] = e
  OBVIOUS
<1>2. Len(s) \in Nat
  BY LenProperties
<1> QED
  BY <1>1, <1>2, ConcatProperties, SMTT(30)

\* Removing element i of a list without repetitions removes that element and
\* nothing else, and makes no repetition.
LEMMA RemoveAtElements ==
    ASSUME NEW S, NEW s \in Seq(S), NEW i \in 1 .. Len(s), NoRepeats(s)
    PROVE  /\ NoRepeats(RemoveAt(s, i))
           /\ ElementsOf(RemoveAt(s, i)) = ElementsOf(s) \ {s[i]}
<1> DEFINE t == RemoveAt(s, i)
<1>1. /\ t \in Seq(S)
      /\ Len(t) = Len(s) - 1
      /\ \A j \in 1 .. Len(s) - 1 : t[j] = IF j < i THEN s[j] ELSE s[j + 1]
  BY RemoveAtProperties
<1>2. /\ Len(s) \in Nat
      /\ DOMAIN s = 1 .. Len(s)
      /\ DOMAIN t = 1 .. Len(s) - 1
  BY <1>1, LenProperties
<1> HIDE DEF t
<1>3. NoRepeats(t)
  <2> SUFFICES ASSUME NEW j \in 1 .. Len(s) - 1, NEW k \in 1 .. Len(s) - 1, t[j] = t[k]
               PROVE  j = k
    BY <1>2 DEF NoRepeats
  <2> DEFINE up(m) == IF m < i THEN m ELSE m + 1
  <2>1. up(j) \in DOMAIN s /\ up(k) \in DOMAIN s
    BY <1>2
  <2>2. s[up(j)] = s[up(k)]
    BY <1>1
  <2>3. up(j) = up(k)
    BY <2>1, <2>2 DEF NoRepeats
  <2> QED
    BY <2>3, <1>2
<1>4. ElementsOf(t) \subseteq ElementsOf(s) \ {s[i]}
  BY <1>1, <1>2 DEF NoRepeats, ElementsOf
<1>5. ASSUME NEW j \in 1 .. Len(s), j # i
      PROVE  s[j] \in ElementsOf(t)
  <2>1. CASE j < i
    BY <2>1, <1>1, <1>2 DEF ElementsOf
  <2>2. CASE j > i
    <3>1. j - 1 \in 1 .. Len(s) - 1 /\ t[j - 1] = s[j]
      BY <2>2, <1>1, <1>2
    <3> QED
      BY <3>1, <1>2 DEF ElementsOf
  <2> QED
    BY <1>5, <2>1, <2>2
<1> QED
  BY <1>2, <1>3, <1>4, <1>5 DEF ElementsOf, t

\* RemoveFirst takes an element out of a sequence without repetitions.
LEMMA RemoveFirstElements ==
    ASSUME NEW S, NEW s \in Seq(S), NEW e, NoRepeats(s)
    PROVE  /\ RemoveFirst(s, e) \in Seq(S)
           /\ NoRepeats(RemoveFirst(s, e))
           /\ ElementsOf(RemoveFirst(s, e)) = ElementsOf(s) \ {e}
<1>0. DOMAIN s = 1 .. Len(s) /\ Len(s) \in Nat
  BY LenProperties
<1>1. CASE e \notin ElementsOf(s)
  <2>1. RemoveFirst(s, e) = s
    BY <1>0, <1>1 DEF ElementsOf, RemoveFirst
  <2> QED
    BY <1>1, <2>1
<1>2. CASE e \in ElementsOf(s)
  <2>1. PICK i \in 1 .. Len(s) : s[i] = e
    BY <1>0, <1>2 DEF ElementsOf
  <2>2. {j \in 1 .. Len(s) : s[j] = e} = {i}
    BY <1>0, <2>1 DEF NoRepeats
  <2>3. Min({i}) = i
    BY <1>0 DEF Min
  <2>4. SelectInSeq(s, LAMBDA v : v = e) = i
    BY <2>2, <2>3 DEF SelectInSeq
  <2>5. RemoveFirst(s, e) = RemoveAt(s, i)
    BY <2>1, <2>4 DEF RemoveFirst
  <2> QED
    BY <2>1, <2>5, RemoveAtProperties, RemoveAtElements
<1> QED
  BY <1>1, <1>2

\* Prepending a new element adds that element and makes no repetition.
LEMMA PrependElements ==
    ASSUME NEW S, NEW s \in Seq(S), NEW e \in S, NoRepeats(s), e \notin ElementsOf(s)
    PROVE  /\ NoRepeats(<<e>> \o s)
           /\ ElementsOf(<<e>> \o s) = ElementsOf(s) \cup {e}
<1> DEFINE t == <<e>> \o s
<1>1. /\ t \in Seq(S)
      /\ Len(t) = Len(s) + 1
      /\ t[1] = e
      /\ \A j \in 1 .. Len(s) : t[j + 1] = s[j]
  BY PrependProperties
<1>2. /\ Len(s) \in Nat
      /\ DOMAIN s = 1 .. Len(s)
      /\ DOMAIN t = 1 .. Len(s) + 1
  BY <1>1, LenProperties
<1> HIDE DEF t
<1>3. \A j \in 2 .. Len(s) + 1 : j - 1 \in 1 .. Len(s) /\ t[j] = s[j - 1]
  BY <1>1, <1>2
<1>4. NoRepeats(t)
  <2> SUFFICES ASSUME NEW j \in 1 .. Len(s) + 1, NEW k \in 1 .. Len(s) + 1, t[j] = t[k]
               PROVE  j = k
    BY <1>2 DEF NoRepeats
  <2>1. CASE j = 1
    BY <2>1, <1>1, <1>2, <1>3 DEF ElementsOf
  <2>2. CASE k = 1
    BY <2>2, <1>1, <1>2, <1>3 DEF ElementsOf
  <2>3. CASE j # 1 /\ k # 1
    <3>1. j - 1 \in DOMAIN s /\ k - 1 \in DOMAIN s /\ s[j - 1] = s[k - 1]
      BY <2>3, <1>2, <1>3
    <3>2. j - 1 = k - 1
      BY <3>1 DEF NoRepeats
    <3> QED
      BY <3>2, <1>2
  <2> QED
    BY <2>1, <2>2, <2>3
<1>5. ElementsOf(t) \subseteq ElementsOf(s) \cup {e}
  <2> SUFFICES ASSUME NEW j \in 1 .. Len(s) + 1
               PROVE  t[j] \in ElementsOf(s) \cup {e}
    BY <1>2 DEF ElementsOf
  <2>1. CASE j = 1
    BY <2>1, <1>1
  <2>2. CASE j # 1
    BY <2>2, <1>2, <1>3 DEF ElementsOf
  <2> QED
    BY <2>1, <2>2
<1>6. ElementsOf(s) \cup {e} \subseteq ElementsOf(t)
  BY <1>1, <1>2 DEF ElementsOf
<1> QED
  BY <1>4, <1>5, <1>6 DEF t

\* An iterator that follows a removal still has before it exactly what it had,
\* but for the removed element.
LEMMA AfterRemoval ==
    ASSUME NEW S, NEW s \in Seq(S), NEW i \in 1 .. Len(s), NoRepeats(s),
           NEW c \in 0 .. Len(s)
    PROVE  /\ CursorAfterRemove(c, i, 1) \in 0 .. Len(s) - 1
           /\ After(RemoveAt(s, i), CursorAfterRemove(c, i, 1)) = After(s, c) \ {s[i]}
<1> DEFINE t == RemoveAt(s, i)
           d == CursorAfterRemove(c, i, 1)
<1>1. /\ t \in Seq(S)
      /\ Len(t) = Len(s) - 1
      /\ \A j \in 1 .. Len(s) - 1 : t[j] = IF j < i THEN s[j] ELSE s[j + 1]
  BY RemoveAtProperties
<1>2. /\ Len(s) \in Nat
      /\ DOMAIN s = 1 .. Len(s)
  BY LenProperties
<1>3. d = IF c >= i THEN c - 1 ELSE c
  BY <1>2 DEF CursorAfterRemove
<1> HIDE DEF t, d
<1>4. After(t, d) \subseteq After(s, c) \ {s[i]}
  <2> SUFFICES ASSUME NEW j \in (d + 1) .. Len(s) - 1
               PROVE  t[j] \in After(s, c) \ {s[i]}
    BY <1>1 DEF After
  <2> DEFINE m == IF j < i THEN j ELSE j + 1
  <2>1. m \in (c + 1) .. Len(s) /\ m \in DOMAIN s /\ i \in DOMAIN s /\ m # i
    BY <1>2, <1>3
  <2>2. t[j] = s[m]
    BY <1>1, <1>2, <1>3
  <2>3. s[m] # s[i]
    BY <2>1 DEF NoRepeats
  <2> QED
    BY <2>1, <2>2, <2>3 DEF After
<1>5. ASSUME NEW j \in (c + 1) .. Len(s), j # i
      PROVE  s[j] \in After(t, d)
  <2>1. CASE j < i
    BY <2>1, <1>1, <1>2, <1>3 DEF After
  <2>2. CASE j > i
    <3>1. j - 1 \in (d + 1) .. Len(t) /\ t[j - 1] = s[j]
      BY <2>2, <1>1, <1>2, <1>3
    <3> QED
      BY <3>1 DEF After
  <2> QED
    BY <1>5, <2>1, <2>2
<1>6. After(s, c) \ {s[i]} \subseteq After(t, d)
  BY <1>5 DEF After
<1>7. d \in 0 .. Len(s) - 1
  BY <1>2, <1>3
<1> QED
  BY <1>4, <1>6, <1>7 DEF t, d

\* A task iterator that follows a prepending has before it exactly what it had.
LEMMA AfterPrepending ==
    ASSUME NEW S, NEW s \in Seq(S), NEW e \in S, NEW c \in 0 .. Len(s)
    PROVE  /\ TaskCursorAfterInsert(c, 1, 1) = c + 1
           /\ After(<<e>> \o s, c + 1) = After(s, c)
<1> DEFINE t == <<e>> \o s
<1>1. /\ Len(t) = Len(s) + 1
      /\ \A j \in 1 .. Len(s) : t[j + 1] = s[j]
  BY PrependProperties
<1>2. Len(s) \in Nat
  BY LenProperties
<1> HIDE DEF t
<1>3. TaskCursorAfterInsert(c, 1, 1) = c + 1
  BY <1>2 DEF TaskCursorAfterInsert, CursorAfterInsert
<1>4. After(t, c + 1) \subseteq After(s, c)
  <2> SUFFICES ASSUME NEW j \in (c + 2) .. Len(s) + 1
               PROVE  t[j] \in After(s, c)
    BY <1>1, <1>2 DEF After
  <2>1. j - 1 \in (c + 1) .. Len(s) /\ t[j] = s[j - 1]
    BY <1>1, <1>2
  <2> QED
    BY <2>1 DEF After
<1>5. After(s, c) \subseteq After(t, c + 1)
  <2> SUFFICES ASSUME NEW j \in (c + 1) .. Len(s)
               PROVE  s[j] \in After(t, c + 1)
    BY DEF After
  <2>1. j + 1 \in (c + 2) .. Len(t) /\ t[j + 1] = s[j]
    BY <1>1, <1>2
  <2> QED
    BY <2>1, <1>2 DEF After
<1> QED
  BY <1>3, <1>4, <1>5 DEF t

\* Next takes one element away from what is before the cursor.
LEMMA AfterNext ==
    ASSUME NEW S, NEW s \in Seq(S), NoRepeats(s), NEW c \in 0 .. Len(s) - 1
    PROVE  After(s, c + 1) = After(s, c) \ {s[c + 1]}
<1>1. /\ Len(s) \in Nat
      /\ DOMAIN s = 1 .. Len(s)
  BY LenProperties
<1> QED
  BY <1>1 DEF NoRepeats, After

\* All but the last, and the last replaced.
LEMMA FrontProperties ==
    ASSUME NEW S, NEW st \in Seq(S), st # <<>>, NEW f \in S
    PROVE  /\ Len(st) \in Nat /\ Len(st) >= 1 /\ DOMAIN st = 1 .. Len(st)
           /\ \A d \in 1 .. Len(st) : st[d] \in S
           /\ Front(st) \in Seq(S) /\ Len(Front(st)) = Len(st) - 1
           /\ DOMAIN Front(st) = 1 .. Len(st) - 1
           /\ \A d \in 1 .. Len(st) - 1 : Front(st)[d] = st[d]
           /\ Front(st) \o <<f>> \in Seq(S) /\ Len(Front(st) \o <<f>>) = Len(st)
           /\ (Front(st) \o <<f>>)[Len(st)] = f
           /\ \A d \in 1 .. Len(st) - 1 : (Front(st) \o <<f>>)[d] = st[d]
<1>1. /\ Len(st) \in Nat /\ Len(st) >= 1 /\ DOMAIN st = 1 .. Len(st)
      /\ \A d \in 1 .. Len(st) : st[d] \in S
  BY LenProperties, ElementOfSeq, EmptySeq
<1>2. /\ Front(st) \in Seq(S) /\ Len(Front(st)) = Len(st) - 1
      /\ \A d \in 1 .. Len(st) - 1 : Front(st)[d] = st[d]
  BY <1>1, SubSeqProperties DEF Front
<1>3. DOMAIN Front(st) = 1 .. Len(st) - 1
  BY <1>2, LenProperties
<1>4. <<f>> \in Seq(S) /\ Len(<<f>>) = 1 /\ <<f>>[1] = f
  OBVIOUS
<1>5. Front(st) \o <<f>> = Append(Front(st), f)
  BY <1>2, AppendIsConcat
<1> DEFINE n == Len(st) - 1
<1>6. n \in Nat /\ n + 1 = Len(st)
  BY <1>1
<1> HIDE DEF n
<1>7. /\ Append(Front(st), f) \in Seq(S) /\ Len(Append(Front(st), f)) = n + 1
      /\ Append(Front(st), f)[n + 1] = f
      /\ \A d \in 1 .. n : Append(Front(st), f)[d] = Front(st)[d]
  <2>1. Front(st) \in Seq(S) /\ Len(Front(st)) = n
    BY <1>2 DEF n
  <2> QED
    BY <1>6, <2>1, AppendProperties
<1> QED
  BY <1>1, <1>2, <1>3, <1>5, <1>6, <1>7 DEF n
=============================================================================
