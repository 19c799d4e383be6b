-------------------------- MODULE FileArrayProofs --------------------------
(***************************************************************************)
(* Proofs about FileLayout and SharedPrefs: what JFileArray does with its  *)
(* file, and who may do it.                                                *)
(*                                                                         *)
(* FileLayout, for any elements, numbers of elements, data and sizes of    *)
(* the blocks that are moved, and any embedded files as long as they are   *)
(* embedded in the base file.  LayoutInv says how the disk is laid out:    *)
(* elements start with their sizes, in front of the index, and do not      *)
(* overlap; a file is as long as its elements and its index; the header    *)
(* and the index of a file that is not open are those that were written;   *)
(* and what is done inside an embedded file is done inside its element.    *)
(* An operation is seen as writes, moves of blocks and changes of the      *)
(* index, each of which has a lemma that says which cells stay the same.   *)
(* That FileLayout implements FileOfElements follows from what the lemmas  *)
(* say of each element: the data of one that is not asked about is copied  *)
(* to where the index has it next, and so is a file with all that it       *)
(* contains; and a file reads after it is opened as it did before it was   *)
(* closed.  This is for one embedded file, as there is one element that    *)
(* holds them.                                                             *)
(*                                                                         *)
(* SharedPrefs, for any set of programs, any settings, any number of       *)
(* attempts and all bounds.  The type invariant is inductive by itself.    *)
(* That nothing is torn and no file has two owners needs the lock: LockInv *)
(* says what the lock bit of a file tells about its owner, and that one    *)
(* program at most is between a look at a file and what it does on the     *)
(* strength of it.  That notices are not missed needs NoticeInv: a program *)
(* that has seen the last signal knows the setting in the file, unless the *)
(* next signal has yet to be given or the file was left by a program that  *)
(* died.                                                                   *)
(***************************************************************************)
EXTENDS FileLayout, SharedPrefs, CursorLemmas, FiniteSetTheorems, WellFoundedInduction,
        NaturalsInduction

-----------------------------------------------------------------------------
(* The cells of the disk.                                                  *)

\* One sequence behind another.
Cat(s, t) == s \o t

\* The elements of two sequences that are joined.
LEMMA Joined ==
    ASSUME NEW S, NEW s \in Seq(S), NEW t \in Seq(S)
    PROVE  LET u == Cat(s, t)
           IN  /\ u \in Seq(S) /\ Len(u) = Len(s) + Len(t)
               /\ \A i \in Nat : i >= 1 /\ i <= Len(s) => u[i] = s[i]
               /\ \A i \in Nat : i > Len(s) /\ i <= Len(s) + Len(t) => u[i] = t[i - Len(s)]
<1> DEFINE u == s \o t
<1>1. /\ u \in Seq(S) /\ Len(u) = Len(s) + Len(t)
      /\ \A i \in 1 .. Len(s) + Len(t) : u[i] = IF i <= Len(s) THEN s[i] ELSE t[i - Len(s)]
  BY ConcatProperties
<1>2. Len(s) \in Nat /\ Len(t) \in Nat
  BY LenProperties
<1> HIDE DEF u
<1>3. /\ \A i \in Nat : i >= 1 /\ i <= Len(s) => u[i] = s[i]
      /\ \A i \in Nat : i > Len(s) /\ i <= Len(s) + Len(t) => u[i] = t[i - Len(s)]
  BY <1>1, <1>2
<1>4. Cat(s, t) = u
  BY DEF u, Cat
<1> QED
  BY <1>1, <1>3, <1>4

\* A cell is of one kind, and what is not on the disk reads as zero.
LEMMA CellType ==
    ASSUME NEW d \in Disks
    PROVE  /\ Len(d.cells) \in Nat
           /\ \A k \in Nat : Cell(d, k) \in Cells
           /\ \A k \in Nat : k >= Len(d.cells) => Cell(d, k) = Zero
<1>1. d.cells \in Seq(Cells) /\ Zero \in Cells
  BY DEF Disks, Cells
<1>2. Len(d.cells) \in Nat /\ \A k \in 1 .. Len(d.cells) : d.cells[k] \in Cells
  BY <1>1, LenProperties, ElementOfSeq
<1> QED
  BY <1>1, <1>2 DEF Cell

\* Front0 keeps the cells up to n.
LEMMA FrontCells ==
    ASSUME NEW d \in Disks, NEW n \in Nat
    PROVE  /\ Front0(d, n) \in Seq(Cells) /\ Len(Front0(d, n)) = n
           /\ \A k \in 0 .. n - 1 : Front0(d, n)[k + 1] = Cell(d, k)
<1> DEFINE c == d.cells
           z == [k \in 1 .. n |-> Zero]
           t == c \o z
<1>1. c \in Seq(Cells) /\ Zero \in Cells
  BY DEF Disks, Cells
<1>2. z \in [1 .. n -> Cells]
  BY <1>1
<1>3. z \in Seq(Cells) /\ Len(z) = n /\ \A k \in 1 .. n : z[k] = Zero
  BY <1>2, FunctionIsSeq
<1>4. Len(c) \in Nat
  BY <1>1, LenProperties
<1>0. c = d.cells
  OBVIOUS
<1>t. t = Cat(c, z)
  BY DEF Cat
<1>s. Front0(d, n) = SubSeq(t, 1, n)
  BY DEF Front0
<1> HIDE DEF c, z, t
<1>c. c \in Seq(Cells)
  BY <1>1
<1>z. z \in Seq(Cells)
  BY <1>3
<1>j. /\ t \in Seq(Cells) /\ Len(t) = Len(c) + Len(z)
      /\ \A i \in Nat : i >= 1 /\ i <= Len(c) => t[i] = c[i]
      /\ \A i \in Nat : i > Len(c) /\ i <= Len(c) + Len(z) => t[i] = z[i - Len(c)]
  BY <1>t, <1>c, <1>z, Joined
<1>5. /\ t \in Seq(Cells) /\ Len(t) = Len(c) + n
      /\ \A i \in Nat : i >= 1 /\ i <= Len(c) => t[i] = c[i]
      /\ \A i \in Nat : i > Len(c) /\ i <= Len(c) + n => t[i] = z[i - Len(c)]
  BY <1>j, <1>3
<1>6. \A i \in 1 .. n : t[i] \in Cells
  BY <1>4, <1>5, ElementOfSeq
<1> HIDE DEF t
<1>7. /\ SubSeq(t, 1, n) \in Seq(Cells) /\ Len(SubSeq(t, 1, n)) = n
      /\ \A i \in 1 .. n : SubSeq(t, 1, n)[i] = t[i]
  BY <1>6, SubSeqProperties
<1>8. ASSUME NEW k \in 0 .. n - 1
      PROVE  t[k + 1] = Cell(d, k)
  <2>1. CASE k < Len(c)
    BY <1>0, <1>4, <1>5, <2>1 DEF Cell
  <2>2. CASE ~ (k < Len(c))
    <3>0. k + 1 \in Nat /\ k + 1 > Len(c) /\ k + 1 <= Len(c) + n
      BY <1>4, <2>2
    <3>1. t[k + 1] = z[k + 1 - Len(c)] /\ k + 1 - Len(c) \in 1 .. n
      BY <1>4, <1>5, <2>2, <3>0
    <3> QED
      BY <1>0, <1>3, <2>2, <3>1 DEF Cell
  <2> QED
    BY <2>1, <2>2
<1>9. \A k \in 0 .. n - 1 : SubSeq(t, 1, n)[k + 1] = t[k + 1]
  BY <1>7
<1> QED
  BY <1>s, <1>7, <1>8, <1>9

\* The disk with other cells.
LEMMA NewCells ==
    ASSUME NEW d \in Disks, NEW c \in Seq(Cells), NEW p \in BOOLEAN
    PROVE  LET e == [Asserted(d, p) EXCEPT !.cells = c]
           IN  /\ e \in Disks /\ e.cells = c /\ e.index = d.index /\ e.end = d.end
               /\ (d.ok /\ p => e.ok) /\ e.ok \in BOOLEAN
<1> DEFINE o == d.ok /\ p
<1>1. o \in BOOLEAN
  BY DEF Disks
<1> HIDE DEF o
<1>2. Asserted(d, p) = [d EXCEPT !.ok = o]
  BY DEF Asserted, o
<1>3. [Asserted(d, p) EXCEPT !.cells = c].ok = o
  BY <1>2 DEF Disks
<1>4. [Asserted(d, p) EXCEPT !.cells = c] \in Disks
  BY <1>1, <1>2 DEF Disks
<1>5. /\ [Asserted(d, p) EXCEPT !.cells = c].cells = c
      /\ [Asserted(d, p) EXCEPT !.cells = c].index = d.index
      /\ [Asserted(d, p) EXCEPT !.cells = c].end = d.end
  BY <1>2 DEF Disks
<1>6. d.ok /\ p => o
  BY DEF o
<1> QED
  BY <1>1, <1>3, <1>4, <1>5, <1>6

\* An assertion that holds changes nothing.
LEMMA Sure ==
    ASSUME NEW d \in Disks, NEW p, p = TRUE
    PROVE  Asserted(d, p) = d
<1>1. d.ok \in BOOLEAN /\ d = [d EXCEPT !.ok = d.ok]
  BY DEF Disks
<1>2. (d.ok /\ p) = d.ok
  BY <1>1
<1>3. Asserted(d, p) = [d EXCEPT !.ok = d.ok /\ p]
  BY DEF Asserted
<1> QED
  BY <1>1, <1>2, <1>3

\* WriteCells changes the cells that are written, and no others.
LEMMA WrittenCells ==
    ASSUME NEW d \in Disks, NEW f, NEW s \in Nat, StartOf(d, f) = s, NEW pos \in Nat,
           NEW data \in Seq(Cells), Marked(d, f, pos)
    PROVE  LET e == WriteCells(d, f, pos, data)
           IN  /\ e \in Disks /\ e.index = d.index /\ e.end = d.end
               /\ d.ok => e.ok
               /\ \A k \in Nat : Cell(e, k) = IF s + pos <= k /\ k < s + pos + Len(data)
                                              THEN data[k - (s + pos) + 1] ELSE Cell(d, k)
               /\ s + pos + Len(data) > Len(d.cells) => Len(e.cells) = s + pos + Len(data)
               /\ s + pos + Len(data) <= Len(d.cells) => Len(e.cells) = Len(d.cells)
<1> DEFINE from == s + pos
           to   == from + Len(data)
           rest == SubSeq(d.cells, to + 1, Len(d.cells))
           c    == Front0(d, from) \o data \o rest
           p    == Marked(d, f, pos)
           e    == [Asserted(d, p) EXCEPT !.cells = c]
<1>1. WriteCells(d, f, pos, data) = e
  BY DEF WriteCells, Asserted, Disks
<1>2. d.cells \in Seq(Cells) /\ Len(d.cells) \in Nat /\ Len(data) \in Nat
  BY LenProperties DEF Disks
<1>3. \A i \in to + 1 .. Len(d.cells) : d.cells[i] \in Cells
  BY <1>2, ElementOfSeq
<1>4. /\ rest \in Seq(Cells)
      /\ Len(rest) = IF to + 1 <= Len(d.cells) THEN Len(d.cells) - to ELSE 0
      /\ \A i \in 1 .. Len(d.cells) - to : rest[i] = d.cells[to + i]
  BY <1>2, <1>3, SubSeqProperties
<1> DEFINE h  == Front0(d, from)
           hd == h \o data
<1>5. /\ h \in Seq(Cells) /\ Len(h) = from
      /\ \A k \in 0 .. from - 1 : h[k + 1] = Cell(d, k)
  BY FrontCells
<1>8. c = Cat(hd, rest)
  BY DEF Cat
<1>h. hd = Cat(h, data)
  BY DEF Cat
<1>9. p \in BOOLEAN
  BY DEF Marked
<1>p. p
  OBVIOUS
<1>n. from \in Nat /\ to \in Nat /\ to = from + Len(data)
  BY <1>2
<1>f. from = s + pos
  OBVIOUS
<1> HIDE DEF rest, h, hd, c, p, from, to
<1>hs. h \in Seq(Cells)
  BY <1>5
<1>rs. rest \in Seq(Cells)
  BY <1>4
<1>j. /\ hd \in Seq(Cells) /\ Len(hd) = Len(h) + Len(data)
      /\ \A i \in Nat : i >= 1 /\ i <= Len(h) => hd[i] = h[i]
      /\ \A i \in Nat : i > Len(h) /\ i <= Len(h) + Len(data) => hd[i] = data[i - Len(h)]
  BY <1>h, <1>hs, Joined
<1>6. /\ hd \in Seq(Cells) /\ Len(hd) = to
      /\ \A i \in Nat : i >= 1 /\ i <= from => hd[i] = h[i]
      /\ \A i \in Nat : i > from /\ i <= to => hd[i] = data[i - from]
  BY <1>j, <1>5, <1>n
<1>ds. hd \in Seq(Cells)
  BY <1>6
<1>k. /\ c \in Seq(Cells) /\ Len(c) = Len(hd) + Len(rest)
      /\ \A i \in Nat : i >= 1 /\ i <= Len(hd) => c[i] = hd[i]
      /\ \A i \in Nat : i > Len(hd) /\ i <= Len(hd) + Len(rest) => c[i] = rest[i - Len(hd)]
  BY <1>8, <1>ds, <1>rs, Joined
<1>m. Len(rest) \in Nat
  BY <1>rs, LenProperties
<1>7. /\ c \in Seq(Cells) /\ Len(c) = to + Len(rest)
      /\ \A i \in Nat : i >= 1 /\ i <= to => c[i] = hd[i]
      /\ \A i \in Nat : i > to /\ i <= to + Len(rest) => c[i] = rest[i - to]
  BY <1>k, <1>6
<1>10. /\ e \in Disks /\ e.cells = c /\ e.index = d.index /\ e.end = d.end /\ (d.ok /\ p => e.ok)
  BY <1>7, <1>9, NewCells
<1> HIDE DEF e
<1>l. /\ to + 1 <= Len(d.cells) => Len(rest) = Len(d.cells) - to
      /\ ~ (to + 1 <= Len(d.cells)) => Len(rest) = 0
  BY <1>4
<1>11. /\ to > Len(d.cells) => Len(e.cells) = to
       /\ to <= Len(d.cells) => Len(e.cells) = Len(d.cells)
  <2>1. Len(e.cells) = to + Len(rest)
    BY <1>7, <1>10
  <2> QED
    BY <1>2, <1>l, <1>n, <2>1
<1>12. ASSUME NEW k \in Nat
       PROVE  Cell(e, k) = IF from <= k /\ k < to THEN data[k - from + 1] ELSE Cell(d, k)
  <2>1. CASE k < from
    <3>1. c[k + 1] = h[k + 1]
      BY <1>2, <1>6, <1>7, <1>n, <2>1
    <3>2. k < Len(e.cells) /\ h[k + 1] = Cell(d, k)
      BY <1>2, <1>5, <1>11, <1>n, <2>1
    <3> QED
      BY <1>10, <1>n, <2>1, <3>1, <3>2 DEF Cell
  <2>2. CASE from <= k /\ k < to
    <3>0. k + 1 \in Nat /\ k + 1 >= 1 /\ k + 1 > from /\ k + 1 <= to
      BY <1>n, <2>2
    <3>1. c[k + 1] = data[k + 1 - from] /\ k + 1 - from = k - from + 1
      BY <1>6, <1>7, <1>n, <3>0
    <3>2. k < Len(e.cells)
      BY <1>2, <1>11, <1>n, <2>2
    <3> QED
      BY <1>10, <2>2, <3>1, <3>2 DEF Cell
  <2>3. CASE to <= k /\ k < Len(d.cells)
    <3>0. k + 1 \in Nat /\ k + 1 > to /\ k + 1 <= to + Len(rest)
      BY <1>2, <1>l, <1>n, <2>3
    <3>1. k + 1 - to \in 1 .. Len(d.cells) - to /\ to + (k + 1 - to) = k + 1
      BY <1>2, <1>n, <2>3
    <3>2. c[k + 1] = rest[k + 1 - to]
      <4>1. \A i \in Nat : i > to /\ i <= to + Len(rest) => c[i] = rest[i - to]
        BY <1>7
      <4> QED
        BY <4>1, <3>0, <1>n
    <3>3. rest[k + 1 - to] = d.cells[to + (k + 1 - to)]
      BY <1>4, <3>1
    <3>4. k < Len(e.cells)
      BY <1>2, <1>11, <1>n, <2>3
    <3> QED
      BY <1>2, <1>10, <1>n, <2>3, <3>1, <3>2, <3>3, <3>4 DEF Cell
  <2>4. CASE to <= k /\ Len(d.cells) <= k
    BY <1>2, <1>10, <1>11, <1>n, <2>4 DEF Cell
  <2> QED
    BY <1>2, <1>n, <2>1, <2>2, <2>3, <2>4
<1> QED
  BY <1>1, <1>10, <1>11, <1>12, <1>p, <1>f, <1>n

\* ReadCells gives the cells from an offset on.
LEMMA ReadingCells ==
    ASSUME NEW d \in Disks, NEW f, NEW s \in Nat, StartOf(d, f) = s, NEW pos \in Nat, NEW n \in Nat
    PROVE  /\ ReadCells(d, f, pos, n) \in Seq(Cells) /\ Len(ReadCells(d, f, pos, n)) = n
           /\ \A k \in Nat : k < n => ReadCells(d, f, pos, n)[k + 1] = Cell(d, s + pos + k)
<1> DEFINE from == s + pos
           h    == Front0(d, from + n)
<1>1. /\ h \in Seq(Cells) /\ Len(h) = from + n
      /\ \A k \in 0 .. from + n - 1 : h[k + 1] = Cell(d, k)
  BY FrontCells
<1> HIDE DEF h
<1>2. \A i \in from + 1 .. from + n : h[i] \in Cells
  BY <1>1, ElementOfSeq
<1>3. /\ SubSeq(h, from + 1, from + n) \in Seq(Cells) /\ Len(SubSeq(h, from + 1, from + n)) = n
      /\ \A i \in 1 .. n : SubSeq(h, from + 1, from + n)[i] = h[from + i]
  BY <1>2, SubSeqProperties
<1>4. ASSUME NEW k \in Nat, k < n
      PROVE  SubSeq(h, from + 1, from + n)[k + 1] = Cell(d, s + pos + k)
  <2>1. k + 1 \in 1 .. n /\ from + k \in 0 .. from + n - 1 /\ from + (k + 1) = from + k + 1
    BY <1>4
  <2> QED
    BY <1>1, <1>3, <2>1
<1> QED
  BY <1>3, <1>4 DEF ReadCells, h

-----------------------------------------------------------------------------
(* Where files and elements are.                                           *)

\* Files are embedded in the base file only.
Flat == \A g \in Files \ {Base} : EnclosedBy[g] = Base

Off(d, f, i)  == d.index[f][i].offset
SizeAt(d, k)  == Cell(d, k)[2]
IsSize(d, k)  == \E n \in Nat : Cell(d, k) = <<"size", n>>

\* Elements are disjoint, in a file that starts with cell s and has its index from e on.
Laid(d, s, idx, e) ==
    /\ e >= 1
    /\ \A i \in DOMAIN idx :
          /\ idx[i].offset >= 1 /\ IsSize(d, s + idx[i].offset)
          /\ idx[i].offset + 1 + SizeAt(d, s + idx[i].offset) <= e
    /\ \A i, j \in DOMAIN idx :
          /\ idx[i].offset = idx[j].offset => i = j
          /\ idx[i].offset < idx[j].offset =>
                idx[i].offset + 1 + SizeAt(d, s + idx[i].offset) <= idx[j].offset

Named(idx) == \A i, j \in DOMAIN idx : idx[i].id = idx[j].id => i = j

FileOK(d, f) ==
    /\ Laid(d, StartOf(d, f), d.index[f], d.end[f]) /\ Named(d.index[f])
    /\ LengthOf(d, f) = d.end[f] + Len(d.index[f])

\* An open file has its place in the one around it.
Placed(d, f) == f # Base => FileOK(d, Base) /\ IDToIndex(d, Base, FileID) # {}

\* What is stored in d from k on is in e from m on.
Copied(d, k, e, m) == \A j \in Nat : j <= SizeAt(d, k) => Cell(e, m + j) = Cell(d, k + j)

\* The elements of the base file other than the one for embedded files are the same.
Around(d, e, f) ==
    /\ \A x \in Files \ {f, Base} : e.index[x] = d.index[x] /\ e.end[x] = d.end[x]
    /\ f # Base =>
          /\ Len(e.index[Base]) = Len(d.index[Base])
          /\ \A i \in 1 .. Len(d.index[Base]) :
                /\ e.index[Base][i].id = d.index[Base][i].id
                /\ e.index[Base][i].type = d.index[Base][i].type
                /\ d.index[Base][i].id # FileID => Copied(d, Off(d, Base, i), e, Off(e, Base, i))

\* e is what d becomes when something is done with file f.
Within(d, e, f) ==
    /\ e \in Disks /\ (d.ok => e.ok) /\ Placed(e, f)
    /\ StartOf(e, f) = StartOf(d, f) /\ Around(d, e, f)

\* What an index of a disk is.
LEMMA IndexType ==
    ASSUME NEW d \in Disks, NEW f \in Files
    PROVE  /\ d.index[f] \in Seq(Entries) /\ Len(d.index[f]) \in Nat /\ d.end[f] \in Nat
           /\ DOMAIN d.index[f] = 1 .. Len(d.index[f])
           /\ \A i \in DOMAIN d.index[f] :
                 /\ d.index[f][i] \in Entries
                 /\ Off(d, f, i) \in Nat /\ d.index[f][i].id \in Nat
<1>1. d.index[f] \in Seq(Entries) /\ d.end[f] \in Nat
  BY DEF Disks
<1>2. Len(d.index[f]) \in Nat /\ DOMAIN d.index[f] = 1 .. Len(d.index[f])
  BY <1>1, LenProperties
<1>3. \A i \in DOMAIN d.index[f] : d.index[f][i] \in Entries
  BY <1>1, <1>2, ElementOfSeq
<1> QED
  BY <1>1, <1>2, <1>3 DEF Entries, Off

\* A size is a number.
LEMMA SizeType ==
    ASSUME NEW d, NEW k, IsSize(d, k)
    PROVE  /\ SizeAt(d, k) \in Nat /\ Cell(d, k) = <<"size", SizeAt(d, k)>>
           /\ (IF Cell(d, k)[1] = "size" THEN Cell(d, k)[2] ELSE 0) = SizeAt(d, k)
BY DEF IsSize, SizeAt

\* The element that holds the embedded files.
LEMMA TheElement ==
    ASSUME Flat, NEW d \in Disks, NEW f \in Files, f # Base, Placed(d, f)
    PROVE  LET i == ElementOf(d, f)
           IN  /\ i \in DOMAIN d.index[Base] /\ d.index[Base][i].id = FileID
               /\ \A j \in DOMAIN d.index[Base] : d.index[Base][j].id = FileID => j = i
               /\ StartOf(d, f) = Off(d, Base, i) + 1
               /\ IsSize(d, Off(d, Base, i)) /\ LengthOf(d, f) = SizeAt(d, Off(d, Base, i))
               /\ Off(d, Base, i) \in Nat /\ SizeAt(d, Off(d, Base, i)) \in Nat
               /\ Off(d, Base, i) >= 1
               /\ Off(d, Base, i) + 1 + SizeAt(d, Off(d, Base, i)) <= Len(d.cells)
<1> DEFINE i == ElementOf(d, f)
           o == Off(d, Base, i)
<1>1. EnclosedBy[f] = Base /\ Base \in Files
  BY FileLayoutAssumption DEF Flat
<1>2. IDToIndex(d, Base, FileID) # {} /\ FileOK(d, Base)
  BY DEF Placed
<1>3. i \in IDToIndex(d, Base, FileID)
  BY <1>1, <1>2 DEF ElementOf
<1>4. i \in DOMAIN d.index[Base] /\ d.index[Base][i].id = FileID
  BY <1>3 DEF IDToIndex
<1>5. \A j \in DOMAIN d.index[Base] : d.index[Base][j].id = FileID => j = i
  BY <1>2, <1>4 DEF FileOK, Named
<1>6. o \in Nat
  BY <1>1, <1>4, IndexType
<1>7. StartOf(d, Base) = 0 /\ LengthOf(d, Base) = Len(d.cells)
  BY DEF StartOf, LengthOf
<1>8. StartOf(d, f) = o + 1
  BY <1>1 DEF StartOf, SizeLength, Off
<1> HIDE DEF i
<1>9. IsSize(d, 0 + o) /\ o >= 1 /\ o + 1 + SizeAt(d, 0 + o) <= d.end[Base]
  BY <1>2, <1>4, <1>7 DEF FileOK, Laid, Off
<1>10. 0 + o = o
  BY <1>6
<1>11. SizeOf(d, Base, i) = SizeAt(d, o)
  BY <1>7, <1>9, <1>10, SizeType DEF SizeOf, Off
<1>12. LengthOf(d, f) = SizeAt(d, o)
  BY <1>1, <1>11 DEF LengthOf, i
<1>13. SizeAt(d, o) \in Nat
  BY <1>9, <1>10, SizeType
<1>14. d.end[Base] \in Nat /\ Len(d.index[Base]) \in Nat /\ Len(d.cells) = d.end[Base] + Len(d.index[Base])
  BY <1>1, <1>2, <1>7, IndexType DEF FileOK
<1> QED
  BY <1>4, <1>5, <1>6, <1>8, <1>9, <1>10, <1>12, <1>13, <1>14 DEF i

\* A file is a part of the disk.
LEMMA PlaceType ==
    ASSUME Flat, NEW d \in Disks, NEW f \in Files, Placed(d, f)
    PROVE  /\ StartOf(d, f) \in Nat /\ LengthOf(d, f) \in Nat
           /\ StartOf(d, f) + LengthOf(d, f) <= Len(d.cells)
           /\ f = Base => StartOf(d, f) = 0 /\ LengthOf(d, f) = Len(d.cells)
<1>1. CASE f = Base
  BY <1>1, CellType DEF StartOf, LengthOf
<1>2. CASE f # Base
  <2> DEFINE i == ElementOf(d, f)
             o == Off(d, Base, i)
  <2>1. /\ StartOf(d, f) = o + 1 /\ LengthOf(d, f) = SizeAt(d, o)
        /\ o \in Nat /\ SizeAt(d, o) \in Nat /\ o + 1 + SizeAt(d, o) <= Len(d.cells)
    BY <1>2, TheElement
  <2> QED
    BY <1>2, <2>1
<1> QED
  BY <1>1, <1>2

\* A file that has its place can be reached: what is asserted on the way holds.
LEMMA Reaches ==
    ASSUME Flat, NEW d \in Disks, NEW f \in Files, Placed(d, f)
    PROVE  Reached(d, f) = TRUE
<1> DEFINE B(h, g) == g # Base =>
                         /\ IDToIndex(d, EnclosedBy[g], FileID) # {} /\ h[EnclosedBy[g]]
                         /\ Fits(d, EnclosedBy[g],
                                 d.index[EnclosedBy[g]][ElementOf(d, g)].offset, SizeLength)
           F(g) == g # Base => /\ IDToIndex(d, Base, FileID) # {}
                               /\ Fits(d, Base, d.index[Base][ElementOf(d, g)].offset, SizeLength)
           v == [g \in Files |-> IF g = Base THEN TRUE ELSE F(g)]
           w == CHOOSE h : h = [g \in Files |-> B(h, g)]
<1>1. Reached(d, f) = w[f]
  BY DEF Reached
<1>2. Base \in Files /\ \A g \in Files : g # Base => EnclosedBy[g] = Base
  BY FileLayoutAssumption DEF Flat
<1>3. v[Base] = TRUE
  BY <1>2
<1>4. ASSUME NEW g \in Files
      PROVE  v[g] = B(v, g)
  <2>1. CASE g = Base
    BY <1>3, <2>1
  <2>2. CASE g # Base
    <3>1. EnclosedBy[g] = Base /\ v[g] = F(g)
      BY <1>2, <2>2
    <3> HIDE DEF v
    <3> QED
      BY <1>3, <2>2, <3>1
  <2> QED
    BY <2>1, <2>2
<1>5. v = [g \in Files |-> B(v, g)]
  <2> DEFINE u == [g \in Files |-> B(v, g)]
  <2>1. v = [g \in Files |-> v[g]] /\ u = [g \in Files |-> u[g]]
    OBVIOUS
  <2>2. \A g \in Files : v[g] = u[g]
    BY <1>4
  <2> HIDE DEF u, v
  <2> QED
    BY <2>1, <2>2 DEF u
<1>6. w = [g \in Files |-> B(w, g)]
  BY <1>5
<1> HIDE DEF w
<1>7. w[Base] = TRUE
  BY <1>2, <1>6
<1>8. CASE f = Base
  BY <1>1, <1>7, <1>8
<1>9. CASE f # Base
  <2> DEFINE i == ElementOf(d, f)
  <2>1. /\ i \in DOMAIN d.index[Base] /\ d.index[Base][i].id = FileID
        /\ Off(d, Base, i) \in Nat /\ SizeAt(d, Off(d, Base, i)) \in Nat
        /\ Off(d, Base, i) + 1 + SizeAt(d, Off(d, Base, i)) <= Len(d.cells)
    BY <1>9, TheElement
  <2>2. IDToIndex(d, Base, FileID) # {}
    BY <1>9 DEF Placed
  <2>3. StartOf(d, Base) = 0 /\ LengthOf(d, Base) = Len(d.cells) /\ Len(d.cells) \in Nat
    BY CellType DEF StartOf, LengthOf
  <2> HIDE DEF i
  <2>4. d.index[Base][i].offset = Off(d, Base, i)
    BY DEF Off
  <2>5. Fits(d, Base, d.index[Base][i].offset, SizeLength)
    BY <2>1, <2>3, <2>4 DEF Fits, SizeLength
  <2>6. w[f] = B(w, f) /\ EnclosedBy[f] = Base
    BY <1>2, <1>6, <1>9
  <2> QED
    BY <1>1, <1>7, <1>9, <2>2, <2>5, <2>6 DEF i
<1> QED
  BY <1>8, <1>9

\* Marks inside such a file are set, and its cells can be read.
LEMMA MarksHold ==
    ASSUME Flat, NEW d \in Disks, NEW f \in Files, Placed(d, f)
    PROVE  /\ \A k \in Nat : k <= LengthOf(d, f) => Marked(d, f, k) = TRUE
           /\ \A k \in Nat, n \in Nat : k + n <= LengthOf(d, f) => Readable(d, f, k, n) = TRUE
<1>1. Reached(d, f) = TRUE
  BY Reaches
<1>2. /\ StartOf(d, f) \in Nat /\ LengthOf(d, f) \in Nat /\ Len(d.cells) \in Nat
      /\ StartOf(d, f) + LengthOf(d, f) <= Len(d.cells)
  BY PlaceType, CellType
<1>3. ASSUME NEW k \in Nat, k <= LengthOf(d, f)
      PROVE  Marked(d, f, k) = TRUE
  BY <1>1, <1>3 DEF Marked
<1>4. ASSUME NEW k \in Nat, NEW n \in Nat, k + n <= LengthOf(d, f)
      PROVE  Readable(d, f, k, n) = TRUE
  <2>1. k <= LengthOf(d, f) /\ StartOf(d, f) + k + n <= Len(d.cells)
    BY <1>2, <1>4
  <2> QED
    BY <1>1, <2>1 DEF Readable, Fits
<1> QED
  BY <1>3, <1>4

-----------------------------------------------------------------------------
(* Moving blocks.                                                          *)

\* A set with 0 that has the successor of each of its numbers has all numbers.
LEMMA SetInduction ==
    ASSUME NEW P, 0 \in P, \A n \in Nat : n \in P => n + 1 \in P
    PROVE  \A n \in Nat : n \in P
<1> SUFFICES ASSUME NEW n \in Nat, n \notin P
             PROVE  FALSE
  OBVIOUS
<1> DEFINE I == Nat \ P
<1>1. PICK x \in I : \A y \in I : ~ (<<y, x>> \in OpToRel(<, Nat))
  <2>1. I \subseteq Nat /\ I # {}
    OBVIOUS
  <2> HIDE DEF I
  <2> QED
    BY <2>1, NatLessThanWellFounded, WFMin
<1>2. \A y \in I : ~ (y < x)
  BY <1>1 DEF OpToRel
<1>3. x # 0 /\ x - 1 \in Nat
  OBVIOUS
<1>4. x - 1 \in P
  BY <1>2, <1>3
<1>5. x - 1 + 1 \in P
  BY <1>3, <1>4
<1> QED
  BY <1>3, <1>5

\* The least element of a set of numbers is one of it.
LEMMA LeastOf ==
    ASSUME NEW I \in SUBSET Nat, I # {}
    PROVE  Min(I) \in I /\ \A y \in I : Min(I) <= y
<1>1. PICK x \in I : \A y \in I : ~ (<<y, x>> \in OpToRel(<, Nat))
  BY NatLessThanWellFounded, WFMin
<1>2. \A y \in I : ~ (y < x)
  BY <1>1 DEF OpToRel
<1>3. \A y \in I : x <= y
  BY <1>2
<1> QED
  BY <1>3 DEF Min

\* m starts with a, and step leads from each value to the next.
Iterates(m, n, a, step) == m[0] = a /\ \A k \in 1 .. n : m[k] = step[<<k, m[k - 1]>>]

\* A function on 0 .. n can be defined by its first value and by a step.
LEMMA Iterated ==
    ASSUME NEW S, NEW n \in Nat, NEW a \in S, NEW step \in [(1 .. n) \X S -> S]
    PROVE  \E m \in [0 .. n -> S] : Iterates(m, n, a, step)
<1> DEFINE Upto(j, m) == m[0] = a /\ \A k \in 1 .. j : m[k] = step[<<k, m[k - 1]>>]
           P == {j \in Nat : j <= n => \E m \in [0 .. j -> S] : Upto(j, m)}
<1>1. 0 \in P
  <2> DEFINE m == [k \in 0 .. 0 |-> a]
  <2>1. m \in [0 .. 0 -> S] /\ Upto(0, m)
    OBVIOUS
  <2> QED
    BY <2>1
<1>2. ASSUME NEW j \in Nat, j \in P
      PROVE  j + 1 \in P
  <2> SUFFICES ASSUME j + 1 <= n
               PROVE  \E m \in [0 .. j + 1 -> S] : Upto(j + 1, m)
    OBVIOUS
  <2>1. PICK b \in [0 .. j -> S] : Upto(j, b)
    BY <1>2
  <2> DEFINE next == step[<<j + 1, b[j]>>]
             m == [k \in 0 .. j + 1 |-> IF k = j + 1 THEN next ELSE b[k]]
  <2>2. j + 1 \in 1 .. n /\ b[j] \in S
    OBVIOUS
  <2>3. next \in S
    BY <2>2
  <2> HIDE DEF next
  <2>4. m \in [0 .. j + 1 -> S] /\ m[j + 1] = next /\ \A k \in 0 .. j : m[k] = b[k]
    BY <2>3
  <2> HIDE DEF m
  <2>5. m[0] = a
    BY <2>1, <2>4
  <2>6. ASSUME NEW k \in 1 .. j + 1
        PROVE  m[k] = step[<<k, m[k - 1]>>]
    <3>1. CASE k = j + 1
      <4>1. k - 1 = j
        BY <3>1
      <4> QED
        BY <2>4, <3>1, <4>1 DEF next
    <3>2. CASE k \in 1 .. j
      <4>1. k - 1 \in 0 .. j /\ k \in 0 .. j
        BY <3>2
      <4> QED
        BY <2>1, <2>4, <3>2, <4>1
    <3> QED
      BY <3>1, <3>2
  <2> QED
    BY <2>4, <2>5, <2>6
<1>3. n \in P
  <2>1. \A j \in Nat : j \in P => j + 1 \in P
    BY <1>2
  <2> HIDE DEF P
  <2> QED
    BY <1>1, <2>1, SetInduction
<1> QED
  BY <1>3 DEF Iterates

\* step k moves block k.
MovesOne(step, S, f, blocks, up, down) ==
    \A k \in 1 .. Len(blocks), e \in S :
        step[<<k, e>>] = WriteCells(Asserted(e, Readable(e, f, blocks[k][1], blocks[k][2])), f,
                                    blocks[k][1] + up - down,
                                    ReadCells(e, f, blocks[k][1], blocks[k][2]))

\* What MoveBlocks gives is the last of the disks m.
MovesAlong(m, n, d, step, f, blocks, up, down) ==
    Iterates(m, n, d, step) /\ MoveBlocks(d, f, blocks, up, down) = m[n]

\* MoveBlocks goes from block to block.
LEMMA MovedBlocks ==
    ASSUME NEW S, NEW d \in S, NEW f, NEW blocks, NEW up, NEW down,
           NEW n \in Nat, Len(blocks) = n, NEW step \in [(1 .. n) \X S -> S],
           MovesOne(step, S, f, blocks, up, down)
    PROVE  \E m \in [0 .. n -> S] : MovesAlong(m, n, d, step, f, blocks, up, down)
<1> DEFINE Next1(k, e) == WriteCells(Asserted(e, Readable(e, f, blocks[k][1], blocks[k][2])), f,
                                     blocks[k][1] + up - down,
                                     ReadCells(e, f, blocks[k][1], blocks[k][2]))
<1>n. n \in Nat /\ step \in [(1 .. n) \X S -> S]
  OBVIOUS
<1>s. \A k \in 1 .. n, e \in S : step[<<k, e>>] = Next1(k, e)
  BY DEF MovesOne
<1> HIDE DEF Next1
<1>p. \E m \in [0 .. n -> S] : Iterates(m, n, d, step)
  BY <1>n, Iterated
<1>i. PICK m \in [0 .. n -> S] : Iterates(m, n, d, step)
  BY <1>p
<1>2. m[0] = d /\ \A k \in 1 .. n : m[k] = step[<<k, m[k - 1]>>]
  BY <1>i DEF Iterates
<1>3. ASSUME NEW k \in 1 .. n
      PROVE  m[k] = Next1(k, m[k - 1])
  <2>1. k - 1 \in 0 .. n
    BY <1>n
  <2>2. m[k - 1] \in S
    BY <1>i, <2>1
  <2> QED
    BY <1>2, <1>s, <2>2
<1> DEFINE Body(mv) == [k \in 0 .. n |-> IF k = 0 THEN d ELSE Next1(k, mv[k - 1])]
           moved == CHOOSE mv : mv = Body(mv)
<1>1. MoveBlocks(d, f, blocks, up, down) = moved[n]
  BY DEF MoveBlocks, Next1
<1>4. m = Body(m)
  BY <1>2, <1>3, <1>n
<1>5. moved = Body(moved)
  BY <1>4
<1> HIDE DEF moved
<1>6. moved[0] = d /\ \A k \in 1 .. n : moved[k] = Next1(k, moved[k - 1])
  BY <1>5, <1>n
<1> DEFINE P == {k \in Nat : k <= n => moved[k] = m[k]}
<1>7. 0 \in P
  BY <1>2, <1>6
<1> HIDE DEF Body
<1>8. ASSUME NEW k \in Nat, k \in P
      PROVE  k + 1 \in P
  <2>1. CASE k + 1 <= n
    <3>1. moved[k] = m[k] /\ k + 1 \in 1 .. n /\ k + 1 - 1 = k
      BY <1>8, <1>n, <2>1
    <3> QED
      BY <1>3, <1>6, <3>1
  <2> QED
    BY <2>1
<1>9. n \in P
  <2>1. \A k \in Nat : k \in P => k + 1 \in P
    BY <1>8
  <2> HIDE DEF P
  <2> QED
    BY <1>7, <1>n, <2>1, SetInduction
<1>10. MoveBlocks(d, f, blocks, up, down) = m[n]
  BY <1>1, <1>9, <1>n
<1> QED
  BY <1>i, <1>10 DEF MovesAlong

-----------------------------------------------------------------------------
(* What is done inside a file.                                             *)

\* e is what d becomes when some cells of file f are written.
Inside(d, e, f) ==
    /\ e \in Disks /\ (d.ok => e.ok) /\ e.index = d.index /\ e.end = d.end
    /\ Len(e.cells) = Len(d.cells)
    /\ \A k \in Nat : k < StartOf(d, f) \/ k >= StartOf(d, f) + LengthOf(d, f) => Cell(e, k) = Cell(d, k)

\* Elements stay in their places when their sizes are copied.
LEMMA LaidKept ==
    ASSUME NEW d, NEW e, NEW s, NEW t, NEW idx, NEW n, Laid(d, s, idx, n),
           \A i \in DOMAIN idx : Cell(e, t + idx[i].offset) = Cell(d, s + idx[i].offset)
    PROVE  Laid(e, t, idx, n)
<1>1. \A i \in DOMAIN idx : SizeAt(e, t + idx[i].offset) = SizeAt(d, s + idx[i].offset)
  BY DEF SizeAt
<1>2. \A i \in DOMAIN idx : IsSize(e, t + idx[i].offset)
  BY DEF IsSize, Laid
<1> QED
  BY <1>1, <1>2 DEF Laid

\* Elements of the base file other than the one of an embedded file are outside of that file.
LEMMA OtherElements ==
    ASSUME Flat, NEW d \in Disks, NEW f \in Files, f # Base, Placed(d, f),
           NEW i \in DOMAIN d.index[Base], NEW k \in Nat, k <= SizeAt(d, Off(d, Base, i)),
           i # ElementOf(d, f) \/ k = 0
    PROVE  LET p == Off(d, Base, i) + k
           IN  /\ p \in Nat
               /\ p < StartOf(d, f) \/ p >= StartOf(d, f) + LengthOf(d, f)
<1> DEFINE j == ElementOf(d, f)
           o == Off(d, Base, j)
           q == Off(d, Base, i)
<1>1. /\ j \in DOMAIN d.index[Base] /\ StartOf(d, f) = o + 1 /\ LengthOf(d, f) = SizeAt(d, o)
      /\ o \in Nat /\ SizeAt(d, o) \in Nat
  BY TheElement
<1>2. Base \in Files /\ q \in Nat
  BY FileLayoutAssumption, IndexType
<1>3. Laid(d, 0, d.index[Base], d.end[Base])
  BY DEF Placed, FileOK, StartOf
<1>4. 0 + q = q /\ 0 + o = o
  BY <1>1, <1>2
<1>5. SizeAt(d, q) \in Nat
  BY <1>3, <1>4, SizeType DEF Laid, Off
<1>6. /\ q = o => i = j
      /\ q < o => q + 1 + SizeAt(d, q) <= o
      /\ o < q => o + 1 + SizeAt(d, o) <= q
  BY <1>1, <1>3, <1>4 DEF Laid, Off
<1>7. i = j \/ k = 0 \/ (i # j /\ k > 0)
  BY <1>2
<1>8. i = j => q = o
  OBVIOUS
<1>9. i # j \/ k = 0
  OBVIOUS
<1> HIDE DEF j, o, q
<1>10. q + k < o + 1 \/ q + k >= o + 1 + SizeAt(d, o)
  <2>1. CASE q = o
    BY <1>1, <1>2, <1>6, <1>9, <2>1
  <2>2. CASE q < o
    BY <1>1, <1>2, <1>5, <1>6, <2>2 DEF q
  <2>3. CASE o < q
    BY <1>1, <1>2, <1>6, <2>3
  <2> QED
    BY <1>1, <1>2, <2>1, <2>2, <2>3
<1> QED
  BY <1>1, <1>2, <1>10 DEF q, o, j

\* Writing inside a file leaves all elements where they are.
LEMMA InsideKeeps ==
    ASSUME Flat, NEW d \in Disks, NEW f \in Files, Placed(d, f), NEW e, Inside(d, e, f)
    PROVE  /\ Within(d, e, f) /\ StartOf(e, f) = StartOf(d, f) /\ LengthOf(e, f) = LengthOf(d, f)
<1>1. e \in Disks /\ (d.ok => e.ok) /\ e.index = d.index /\ e.end = d.end /\ Len(e.cells) = Len(d.cells)
  BY DEF Inside
<1>2. ElementOf(e, f) = ElementOf(d, f)
  BY <1>1 DEF ElementOf, IDToIndex
<1>3. StartOf(e, f) = StartOf(d, f)
  BY <1>1, <1>2 DEF StartOf
<1>4. CASE f = Base
  <2>1. LengthOf(e, f) = LengthOf(d, f)
    BY <1>1, <1>4 DEF LengthOf
  <2> QED
    BY <1>1, <1>3, <1>4, <2>1 DEF Within, Placed, Around
<1>5. CASE f # Base
  <2>0. Base \in Files
    BY FileLayoutAssumption
  <2>1. ASSUME NEW i \in DOMAIN d.index[Base], NEW k \in Nat, k <= SizeAt(d, Off(d, Base, i)),
               i # ElementOf(d, f) \/ k = 0
        PROVE  Cell(e, Off(d, Base, i) + k) = Cell(d, Off(d, Base, i) + k)
    <3>1. LET p == Off(d, Base, i) + k
          IN  p \in Nat /\ (p < StartOf(d, f) \/ p >= StartOf(d, f) + LengthOf(d, f))
      BY <1>5, <2>1, OtherElements
    <3> QED
      BY <3>1 DEF Inside
  <2>2. \A i \in DOMAIN d.index[Base] :
           Off(d, Base, i) \in Nat /\ SizeAt(d, Off(d, Base, i)) \in Nat /\ IsSize(d, Off(d, Base, i))
    <3>1. ASSUME NEW i \in DOMAIN d.index[Base]
          PROVE  Off(d, Base, i) \in Nat /\ SizeAt(d, Off(d, Base, i)) \in Nat /\ IsSize(d, Off(d, Base, i))
      <4>1. Off(d, Base, i) \in Nat
        BY <2>0, IndexType
      <4>2. IsSize(d, 0 + Off(d, Base, i))
        BY <1>5 DEF Placed, FileOK, Laid, StartOf, Off
      <4>3. 0 + Off(d, Base, i) = Off(d, Base, i)
        BY <4>1
      <4> QED
        BY <4>1, <4>2, <4>3, SizeType
    <3> QED
      BY <3>1
  <2>3. \A i \in DOMAIN d.index[Base] : Cell(e, 0 + d.index[Base][i].offset) = Cell(d, 0 + d.index[Base][i].offset)
    <3>1. ASSUME NEW i \in DOMAIN d.index[Base]
          PROVE  Cell(e, 0 + d.index[Base][i].offset) = Cell(d, 0 + d.index[Base][i].offset)
      <4>1. Off(d, Base, i) \in Nat /\ SizeAt(d, Off(d, Base, i)) \in Nat
        BY <2>2
      <4>2. 0 <= SizeAt(d, Off(d, Base, i)) /\ Off(d, Base, i) + 0 = 0 + d.index[Base][i].offset
        BY <4>1 DEF Off
      <4>3. Cell(e, Off(d, Base, i) + 0) = Cell(d, Off(d, Base, i) + 0)
        BY <2>1, <4>2
      <4> QED
        BY <4>2, <4>3
    <3> QED
      BY <3>1
  <2>4. Laid(e, 0, d.index[Base], d.end[Base])
    <3>1. Laid(d, 0, d.index[Base], d.end[Base])
      BY <1>5 DEF Placed, FileOK, StartOf
    <3> QED
      BY <2>3, <3>1, LaidKept
  <2>5. FileOK(e, Base)
    <3>1. Named(d.index[Base]) /\ LengthOf(d, Base) = d.end[Base] + Len(d.index[Base])
      BY <1>5 DEF Placed, FileOK
    <3>2. LengthOf(e, Base) = LengthOf(d, Base)
      BY <1>1 DEF LengthOf
    <3>3. StartOf(e, Base) = 0
      BY DEF StartOf
    <3> QED
      BY <1>1, <2>4, <3>1, <3>2, <3>3 DEF FileOK
  <2>6. Placed(e, f)
    BY <1>1, <1>5, <2>5 DEF Placed, IDToIndex
  <2>7. LengthOf(e, f) = LengthOf(d, f)
    <3> DEFINE i == ElementOf(d, f)
    <3>1. /\ i \in DOMAIN d.index[Base] /\ LengthOf(d, f) = SizeAt(d, Off(d, Base, i))
          /\ LengthOf(e, f) = SizeAt(e, Off(e, Base, i))
      BY <1>1, <1>2, <1>5, <2>6, TheElement
    <3>2. Off(e, Base, i) = Off(d, Base, i)
      BY <1>1 DEF Off
    <3>3. 0 + d.index[Base][i].offset = Off(d, Base, i)
      BY <2>2, <3>1 DEF Off
    <3>4. Cell(e, Off(d, Base, i)) = Cell(d, Off(d, Base, i))
      BY <2>3, <3>1, <3>3
    <3> HIDE DEF i
    <3> QED
      BY <3>1, <3>2, <3>4 DEF SizeAt
  <2>8. ASSUME NEW i \in DOMAIN d.index[Base], d.index[Base][i].id # FileID
        PROVE  Copied(d, Off(d, Base, i), e, Off(e, Base, i))
    <3>1. i # ElementOf(d, f)
      BY <1>5, <2>8, TheElement
    <3>2. Off(e, Base, i) = Off(d, Base, i)
      BY <1>1 DEF Off
    <3> QED
      BY <2>1, <3>1, <3>2 DEF Copied
  <2>9. Around(d, e, f)
    <3>1. DOMAIN d.index[Base] = 1 .. Len(d.index[Base])
      BY <2>0, IndexType
    <3>2. \A i \in 1 .. Len(d.index[Base]) :
             d.index[Base][i].id # FileID => Copied(d, Off(d, Base, i), e, Off(e, Base, i))
      BY <2>8, <3>1
    <3> QED
      BY <1>1, <3>2 DEF Around
  <2> QED
    BY <1>1, <1>3, <2>6, <2>7, <2>9 DEF Within
<1> QED
  BY <1>4, <1>5

\* One change inside after another.
LEMMA InsideAgain ==
    ASSUME Flat, NEW d \in Disks, NEW f \in Files, Placed(d, f), NEW e, Inside(d, e, f),
           NEW w, Inside(e, w, f)
    PROVE  Inside(d, w, f)
<1>1. StartOf(e, f) = StartOf(d, f) /\ LengthOf(e, f) = LengthOf(d, f)
  BY InsideKeeps
<1> QED
  BY <1>1 DEF Inside

\* n cells of d from i on are in e from j on.
Run(d, i, e, j, n) == \A k \in Nat : k < n => Cell(e, j + k) = Cell(d, i + k)

\* The cells from i on are those of a sequence.
Filled(e, i, data) == \A k \in Nat : k < Len(data) => Cell(e, i + k) = data[k + 1]

\* The cells of a file that starts at s are the same but for those from i to j.
SameBut(d, e, s, i, j) == \A k \in Nat : k < i \/ k >= j => Cell(e, s + k) = Cell(d, s + k)

\* A write inside a file.
LEMMA WriteInside ==
    ASSUME Flat, NEW d \in Disks, NEW f \in Files, Placed(d, f), NEW s \in Nat, StartOf(d, f) = s,
           NEW pos \in Nat, NEW data \in Seq(Cells), pos + Len(data) <= LengthOf(d, f)
    PROVE  LET e == WriteCells(d, f, pos, data)
           IN  /\ Inside(d, e, f) /\ Filled(e, s + pos, data)
               /\ SameBut(d, e, s, pos, pos + Len(data))
<1> DEFINE e == WriteCells(d, f, pos, data)
           n == Len(data)
           l == LengthOf(d, f)
<1>1. n \in Nat
  BY LenProperties
<1>2. l \in Nat /\ s + l <= Len(d.cells) /\ Len(d.cells) \in Nat
  BY PlaceType, CellType
<1>l. pos + n <= l
  OBVIOUS
<1>m. Marked(d, f, pos)
  <2>1. pos <= l
    BY <1>1, <1>2, <1>l
  <2> QED
    BY <2>1, MarksHold
<1>3. /\ e \in Disks /\ e.index = d.index /\ e.end = d.end
      /\ d.ok => e.ok
      /\ \A k \in Nat : Cell(e, k) = IF s + pos <= k /\ k < s + pos + n
                                     THEN data[k - (s + pos) + 1] ELSE Cell(d, k)
      /\ s + pos + n <= Len(d.cells) => Len(e.cells) = Len(d.cells)
  BY <1>m, WrittenCells
<1> HIDE DEF e, n, l
<1>4. Len(e.cells) = Len(d.cells) /\ pos <= l
  BY <1>1, <1>2, <1>3, <1>l
<1>5. ASSUME NEW k \in Nat, k < s \/ k >= s + l
      PROVE  Cell(e, k) = Cell(d, k)
  BY <1>1, <1>2, <1>3, <1>l, <1>5
<1>6. ASSUME NEW k \in Nat, k < n
      PROVE  Cell(e, s + pos + k) = data[k + 1]
  <2>1. /\ s + pos + k \in Nat /\ s + pos + k - (s + pos) + 1 = k + 1
        /\ s + pos <= s + pos + k /\ s + pos + k < s + pos + n
    BY <1>1, <1>6
  <2> QED
    BY <1>3, <2>1
<1>8. ASSUME NEW k \in Nat, k < pos \/ k >= pos + n
      PROVE  Cell(e, s + k) = Cell(d, s + k)
  <2>1. s + k \in Nat /\ ~ (s + pos <= s + k /\ s + k < s + pos + n)
    BY <1>1, <1>8
  <2> QED
    BY <1>3, <2>1
<1>9. Filled(e, s + pos, data) /\ SameBut(d, e, s, pos, pos + n)
  BY <1>6, <1>8 DEF Filled, SameBut, n
<1>7. Inside(d, e, f)
  BY <1>3, <1>4, <1>5 DEF Inside, l
<1> QED
  BY <1>7, <1>9 DEF e, n

\* A block that is read and written to another place of the file.
LEMMA MovedBlock ==
    ASSUME Flat, NEW d \in Disks, NEW f \in Files, Placed(d, f), NEW s \in Nat, StartOf(d, f) = s,
           NEW from \in Nat, NEW to \in Nat, NEW n \in Nat,
           from + n <= LengthOf(d, f), to + n <= LengthOf(d, f)
    PROVE  LET e == WriteCells(Asserted(d, Readable(d, f, from, n)), f, to, ReadCells(d, f, from, n))
           IN  /\ Inside(d, e, f) /\ Run(d, s + from, e, s + to, n)
               /\ SameBut(d, e, s, to, to + n)
<1> DEFINE data == ReadCells(d, f, from, n)
           e == WriteCells(Asserted(d, Readable(d, f, from, n)), f, to, data)
<1>r. Asserted(d, Readable(d, f, from, n)) = d
  <2>1. Readable(d, f, from, n) = TRUE
    BY MarksHold
  <2> QED
    BY <2>1, Sure
<1>1. /\ data \in Seq(Cells) /\ Len(data) = n
      /\ \A k \in Nat : k < n => data[k + 1] = Cell(d, s + from + k)
  BY ReadingCells
<1> HIDE DEF data
<1>2. to + Len(data) <= LengthOf(d, f)
  BY <1>1
<1>t. data \in Seq(Cells)
  BY <1>1
<1>3. Inside(d, e, f) /\ Filled(e, s + to, data) /\ SameBut(d, e, s, to, to + Len(data))
  BY <1>2, <1>r, <1>t, WriteInside
<1> HIDE DEF e
<1>4. Run(d, s + from, e, s + to, n)
  BY <1>1, <1>3 DEF Run, Filled
<1> QED
  BY <1>1, <1>3, <1>4 DEF e, data

\* The n blocks follow one another: the last one first, from lo[0] down, or the first
\* one first, from hi[0] on.
GoDown(blocks, lo, n) ==
    /\ Len(blocks) = n /\ lo \in [0 .. n -> Nat]
    /\ \A k \in 1 .. n :
          lo[k] <= lo[k - 1] /\ blocks[k][1] = lo[k] /\ blocks[k][2] = lo[k - 1] - lo[k]

GoUp(blocks, hi, n) ==
    /\ Len(blocks) = n /\ hi \in [0 .. n -> Nat]
    /\ \A k \in 1 .. n :
          hi[k - 1] <= hi[k] /\ blocks[k][1] = hi[k - 1] /\ blocks[k][2] = hi[k] - hi[k - 1]

\* Blocks that follow one another, the last one first, move towards the end of the file.
LEMMA MovedUp ==
    ASSUME Flat, NEW d \in Disks, NEW f \in Files, Placed(d, f), NEW s \in Nat, StartOf(d, f) = s,
           NEW room \in Nat, NEW blocks, NEW n \in Nat, NEW lo, GoDown(blocks, lo, n),
           lo[0] + room <= LengthOf(d, f)
    PROVE  LET e == MoveBlocks(d, f, blocks, room, 0)
           IN  /\ Inside(d, e, f)
               /\ Run(d, s + lo[n], e, s + (lo[n] + room), lo[0] - lo[n])
               /\ SameBut(d, e, s, lo[n] + room, lo[0] + room)
<1> DEFINE S == {e \in Disks : Inside(d, e, f) /\ Placed(e, f)}
           Moving(k, e) == WriteCells(Asserted(e, Readable(e, f, lo[k], lo[k - 1] - lo[k])), f,
                                      lo[k] + room, ReadCells(e, f, lo[k], lo[k - 1] - lo[k]))
           step == [q \in (1 .. n) \X S |-> Moving(q[1], q[2])]
           P == {k \in Nat : k <= n => lo[k] <= lo[0]}
<1>g. /\ Len(blocks) = n /\ lo \in [0 .. n -> Nat]
      /\ \A k \in 1 .. n :
            lo[k] <= lo[k - 1] /\ blocks[k][1] = lo[k] /\ blocks[k][2] = lo[k - 1] - lo[k]
  BY DEF GoDown
<1> USE <1>g
<1>0. \A k \in 0 .. n : lo[k] <= lo[0]
  <2>1. 0 \in P
    OBVIOUS
  <2>2. \A k \in Nat : k \in P => k + 1 \in P
    <3>1. ASSUME NEW k \in Nat, k \in P, k + 1 <= n
          PROVE  lo[k + 1] <= lo[0]
      <4>1. k + 1 \in 1 .. n /\ k + 1 - 1 = k /\ k \in 0 .. n
        BY <3>1
      <4>2. lo[k + 1] <= lo[k] /\ lo[k] <= lo[0]
        BY <3>1, <4>1
      <4> QED
        BY <4>1, <4>2
    <3> QED
      BY <3>1
  <2> HIDE DEF P
  <2>3. \A k \in Nat : k \in P
    BY <2>1, <2>2, SetInduction
  <2> QED
    BY <2>3 DEF P
<1>1. ASSUME NEW k \in 1 .. n, NEW e \in S
      PROVE  /\ Moving(k, e) \in S
             /\ Run(e, s + lo[k], Moving(k, e), s + (lo[k] + room), lo[k - 1] - lo[k])
             /\ SameBut(e, Moving(k, e), s, lo[k] + room, lo[k - 1] + room)
  <2>1. StartOf(e, f) = s /\ LengthOf(e, f) = LengthOf(d, f)
    BY InsideKeeps
  <2>2. /\ lo[k] \in Nat /\ lo[k - 1] \in Nat /\ lo[k] <= lo[k - 1] /\ lo[k - 1] <= lo[0] /\ lo[0] \in Nat
    BY <1>0
  <2>3. LengthOf(e, f) \in Nat
    BY PlaceType
  <2> DEFINE m == lo[k - 1] - lo[k]
             to == lo[k] + room
             w == Moving(k, e)
  <2>4. m \in Nat /\ to \in Nat /\ to + m = lo[k - 1] + room /\ to + m <= LengthOf(e, f)
    BY <2>1, <2>2, <2>3
  <2>a. m \in Nat /\ to \in Nat
    BY <2>4
  <2>b. to + m <= LengthOf(e, f)
    BY <2>4
  <2>c. StartOf(e, f) = s /\ lo[k] \in Nat /\ e \in Disks /\ Placed(e, f) /\ Inside(d, e, f)
    BY <2>1, <2>2
  <2>d. w = WriteCells(Asserted(e, Readable(e, f, lo[k], m)), f, to, ReadCells(e, f, lo[k], m))
    OBVIOUS
  <2>r. lo[k] + m <= LengthOf(e, f)
    <3> DEFINE x == lo[k]
               y == lo[k - 1]
               z == lo[0]
               l == LengthOf(e, f)
    <3>1. x \in Nat /\ y \in Nat /\ z \in Nat /\ l \in Nat /\ y <= z /\ z + room <= l /\ m = y - x
      BY <2>1, <2>2, <2>3 DEF m
    <3> HIDE DEF x, y, z, l
    <3>2. x + m <= l
      BY <3>1
    <3> QED
      BY <3>2 DEF x, l
  <2> HIDE DEF m, to, w, S
  <2>e. /\ Inside(e, w, f) /\ Run(e, s + lo[k], w, s + to, m)
        /\ SameBut(e, w, s, to, to + m)
    BY <2>a, <2>b, <2>c, <2>d, <2>r, MovedBlock
  <2>5. Inside(d, w, f)
    BY <2>c, <2>e, InsideAgain
  <2>6. Inside(d, w, f) /\ w \in Disks
    BY <2>5 DEF Inside
  <2>7. Placed(w, f)
    BY <2>6, InsideKeeps DEF Within
  <2> QED
    BY <2>4, <2>e, <2>6, <2>7 DEF m, to, w, S
<1>2. d \in S
  BY DEF Inside
<1>3. step \in [(1 .. n) \X S -> S]
  BY <1>1
<1>4. \A k \in 1 .. Len(blocks), e \in S :
         step[<<k, e>>] = WriteCells(Asserted(e, Readable(e, f, blocks[k][1], blocks[k][2])), f,
                                    blocks[k][1] + room - 0, ReadCells(e, f, blocks[k][1], blocks[k][2]))
  <2>1. ASSUME NEW k \in 1 .. n, NEW e \in S
        PROVE  step[<<k, e>>] = WriteCells(Asserted(e, Readable(e, f, blocks[k][1], blocks[k][2])), f,
                                    blocks[k][1] + room - 0, ReadCells(e, f, blocks[k][1], blocks[k][2]))
    <3>1. step[<<k, e>>] = Moving(k, e)
      OBVIOUS
    <3>2. lo[k] \in Nat
      OBVIOUS
    <3>3. blocks[k][1] = lo[k] /\ blocks[k][2] = lo[k - 1] - lo[k] /\ lo[k] + room - 0 = lo[k] + room
      BY <3>2
    <3> QED
      BY <3>1, <3>3
  <2> QED
    BY <2>1
<1>5. \A k \in 1 .. n, e \in S : step[<<k, e>>] = Moving(k, e)
  OBVIOUS
<1> HIDE DEF step, S, Moving
<1>6. PICK m \in [0 .. n -> S] : Iterates(m, n, d, step) /\ MoveBlocks(d, f, blocks, room, 0) = m[n]
  <2>1. MovesOne(step, S, f, blocks, room, 0)
    BY <1>4 DEF MovesOne
  <2>2. \E m \in [0 .. n -> S] : MovesAlong(m, n, d, step, f, blocks, room, 0)
    BY <1>2, <1>3, <2>1, MovedBlocks
  <2> QED
    BY <2>2 DEF MovesAlong
<1>7. m[0] = d /\ \A k \in 1 .. n : m[k] = step[<<k, m[k - 1]>>]
  BY <1>6 DEF Iterates
<1>8. \A k \in 1 .. n : m[k] = Moving(k, m[k - 1]) /\ m[k - 1] \in S
  <2>1. ASSUME NEW k \in 1 .. n
        PROVE  m[k] = Moving(k, m[k - 1]) /\ m[k - 1] \in S
    <3>1. k - 1 \in 0 .. n
      OBVIOUS
    <3> QED
      BY <1>5, <1>6, <1>7, <3>1
  <2> QED
    BY <2>1
<1> DEFINE Moved(k) ==
              /\ \A j \in Nat : lo[k] <= j /\ j < lo[0] => Cell(m[k], s + j + room) = Cell(d, s + j)
              /\ \A j \in Nat : j < lo[k] + room \/ j >= lo[0] + room => Cell(m[k], s + j) = Cell(d, s + j)
           Q == {k \in Nat : k <= n => Moved(k)}
<1>9. 0 \in Q
  <2>1. lo[0] \in Nat
    OBVIOUS
  <2> QED
    BY <1>7, <2>1
<1>10. ASSUME NEW k \in Nat, k \in Q
       PROVE  k + 1 \in Q
  <2> SUFFICES ASSUME k + 1 <= n
               PROVE  Moved(k + 1)
    OBVIOUS
  <2> DEFINE e == m[k]
             w == m[k + 1]
             x == lo[k]
             y == lo[k + 1]
             z == lo[0]
  <2>1. k + 1 \in 1 .. n /\ k + 1 - 1 = k /\ k \in 0 .. n
    OBVIOUS
  <2>2. w = Moving(k + 1, e) /\ e \in S
    BY <1>8, <2>1
  <2>3. x \in Nat /\ y \in Nat /\ z \in Nat /\ y <= x /\ x <= z
    BY <1>0, <2>1
  <2>4. /\ \A j \in Nat : j < x - y => Cell(w, s + (y + room) + j) = Cell(e, s + y + j)
        /\ \A j \in Nat : j < y + room \/ j >= x + room => Cell(w, s + j) = Cell(e, s + j)
    <3>1. Run(e, s + y, w, s + (y + room), x - y) /\ SameBut(e, w, s, y + room, x + room)
      BY <1>1, <2>1, <2>2
    <3> QED
      BY <3>1 DEF Run, SameBut
  <2>5. /\ \A j \in Nat : x <= j /\ j < z => Cell(e, s + j + room) = Cell(d, s + j)
        /\ \A j \in Nat : j < x + room \/ j >= z + room => Cell(e, s + j) = Cell(d, s + j)
    <3>1. Moved(k)
      <4> HIDE DEF Moved
      <4> QED
        BY <1>10
    <3> QED
      BY <3>1
  <2> HIDE DEF e, w, x, y, z
  <2>6. ASSUME NEW j \in Nat, y <= j, j < z
        PROVE  Cell(w, s + j + room) = Cell(d, s + j)
    <3>1. CASE j < x
      <4>1. j - y \in Nat /\ j - y < x - y /\ s + (y + room) + (j - y) = s + j + room /\ s + y + (j - y) = s + j
        BY <2>3, <2>6, <3>1
      <4>2. Cell(w, s + (y + room) + (j - y)) = Cell(e, s + y + (j - y))
        BY <2>4, <4>1
      <4>3. Cell(e, s + j) = Cell(d, s + j)
        BY <2>3, <2>5, <3>1
      <4> QED
        BY <4>1, <4>2, <4>3
    <3>2. CASE x <= j
      <4>1. j + room \in Nat /\ j + room >= x + room /\ s + (j + room) = s + j + room
        BY <2>3, <3>2
      <4>2. Cell(w, s + (j + room)) = Cell(e, s + (j + room))
        BY <2>4, <4>1
      <4> QED
        BY <2>5, <2>6, <3>2, <4>1, <4>2
    <3> QED
      BY <2>3, <3>1, <3>2
  <2>7. ASSUME NEW j \in Nat, j < y + room \/ j >= z + room
        PROVE  Cell(w, s + j) = Cell(d, s + j)
    <3>1. j < y + room \/ j >= x + room
      BY <2>3, <2>7
    <3>2. j < x + room \/ j >= z + room
      BY <2>3, <2>7
    <3> QED
      BY <2>4, <2>5, <3>1, <3>2
  <2> QED
    BY <2>6, <2>7 DEF w, y, z
<1>11. Moved(n)
  <2>1. \A k \in Nat : k \in Q => k + 1 \in Q
    BY <1>10
  <2> HIDE DEF Q, Moved
  <2>2. n \in Q
    BY <1>9, <2>1, SetInduction
  <2> QED
    BY <2>2 DEF Q
<1>12. m[n] \in S
  BY <1>6
<1>13. Inside(d, m[n], f)
  BY <1>12 DEF S
<1>14. Run(d, s + lo[n], m[n], s + (lo[n] + room), lo[0] - lo[n])
  <2> DEFINE x == lo[n]
             z == lo[0]
  <2>1. x \in Nat /\ z \in Nat
    OBVIOUS
  <2>2. \A j \in Nat : x <= j /\ j < z => Cell(m[n], s + j + room) = Cell(d, s + j)
    BY <1>11
  <2> HIDE DEF x, z
  <2>3. ASSUME NEW k \in Nat, k < z - x
        PROVE  Cell(m[n], s + (x + room) + k) = Cell(d, s + x + k)
    <3>1. x + k \in Nat /\ x <= x + k /\ x + k < z /\ s + (x + k) = s + x + k
          /\ s + (x + k) + room = s + (x + room) + k
      BY <2>1, <2>3
    <3> QED
      BY <2>2, <3>1
  <2> QED
    BY <2>3 DEF Run, x, z
<1>15. SameBut(d, m[n], s, lo[n] + room, lo[0] + room)
  BY <1>11 DEF SameBut
<1> HIDE DEF Moved
<1> QED
  BY <1>6, <1>13, <1>14, <1>15

\* Blocks that follow one another, the first one first, move towards the start of the file.
LEMMA MovedDown ==
    ASSUME Flat, NEW d \in Disks, NEW f \in Files, Placed(d, f), NEW s \in Nat, StartOf(d, f) = s,
           NEW blank \in Nat, NEW blocks, NEW n \in Nat, NEW hi, GoUp(blocks, hi, n),
           blank <= hi[0], hi[n] <= LengthOf(d, f)
    PROVE  LET e == MoveBlocks(d, f, blocks, 0, blank)
           IN  /\ Inside(d, e, f)
               /\ Run(d, s + hi[0], e, s + (hi[0] - blank), hi[n] - hi[0])
               /\ SameBut(d, e, s, hi[0] - blank, hi[n] - blank)
<1> DEFINE S == {e \in Disks : Inside(d, e, f) /\ Placed(e, f)}
           Moving(k, e) == WriteCells(Asserted(e, Readable(e, f, hi[k - 1], hi[k] - hi[k - 1])), f,
                                      hi[k - 1] - blank, ReadCells(e, f, hi[k - 1], hi[k] - hi[k - 1]))
           step == [q \in (1 .. n) \X S |-> Moving(q[1], q[2])]
<1>g. /\ Len(blocks) = n /\ hi \in [0 .. n -> Nat]
      /\ \A k \in 1 .. n :
            hi[k - 1] <= hi[k] /\ blocks[k][1] = hi[k - 1] /\ blocks[k][2] = hi[k] - hi[k - 1]
  BY DEF GoUp
<1> USE <1>g
<1>a. \A k \in 0 .. n : hi[0] <= hi[k]
  <2> DEFINE P == {k \in Nat : k <= n => hi[0] <= hi[k]}
  <2>1. 0 \in P
    OBVIOUS
  <2>2. \A k \in Nat : k \in P => k + 1 \in P
    <3>1. ASSUME NEW k \in Nat, k \in P, k + 1 <= n
          PROVE  hi[0] <= hi[k + 1]
      <4>1. k + 1 \in 1 .. n /\ k + 1 - 1 = k /\ k \in 0 .. n
        BY <3>1
      <4>2. hi[k] <= hi[k + 1] /\ hi[0] <= hi[k]
        BY <3>1, <4>1
      <4> QED
        BY <4>1, <4>2
    <3> QED
      BY <3>1
  <2> HIDE DEF P
  <2>3. \A k \in Nat : k \in P
    BY <2>1, <2>2, SetInduction
  <2> QED
    BY <2>3 DEF P
<1>b. \A k \in 0 .. n : hi[k] <= hi[n]
  <2> DEFINE P == {k \in Nat : k <= n => hi[n - k] <= hi[n]}
  <2>1. 0 \in P
    OBVIOUS
  <2>2. \A k \in Nat : k \in P => k + 1 \in P
    <3>1. ASSUME NEW k \in Nat, k \in P, k + 1 <= n
          PROVE  hi[n - (k + 1)] <= hi[n]
      <4>1. n - k \in 1 .. n /\ n - k - 1 = n - (k + 1) /\ n - (k + 1) \in 0 .. n
        BY <3>1
      <4>2. hi[n - (k + 1)] <= hi[n - k] /\ hi[n - k] <= hi[n]
        BY <3>1, <4>1
      <4> QED
        BY <4>1, <4>2
    <3> QED
      BY <3>1
  <2> HIDE DEF P
  <2>3. \A k \in Nat : k \in P
    BY <2>1, <2>2, SetInduction
  <2>4. ASSUME NEW k \in 0 .. n
        PROVE  hi[k] <= hi[n]
    <3>1. n - k \in Nat /\ n - k <= n /\ n - (n - k) = k
      OBVIOUS
    <3> QED
      BY <2>3, <3>1 DEF P
  <2> QED
    BY <2>4
<1>1. ASSUME NEW k \in 1 .. n, NEW e \in S
      PROVE  /\ Moving(k, e) \in S
             /\ Run(e, s + hi[k - 1], Moving(k, e), s + (hi[k - 1] - blank), hi[k] - hi[k - 1])
             /\ SameBut(e, Moving(k, e), s, hi[k - 1] - blank, hi[k] - blank)
  <2>1. StartOf(e, f) = s /\ LengthOf(e, f) = LengthOf(d, f)
    BY InsideKeeps
  <2>2. /\ hi[k] \in Nat /\ hi[k - 1] \in Nat /\ hi[0] \in Nat /\ hi[n] \in Nat
        /\ hi[k - 1] <= hi[k] /\ hi[0] <= hi[k - 1] /\ hi[k] <= hi[n]
    <3>1. k - 1 \in 0 .. n /\ k \in 0 .. n
      OBVIOUS
    <3> QED
      BY <1>a, <1>b, <3>1
  <2>3. LengthOf(e, f) \in Nat
    BY PlaceType
  <2> DEFINE m == hi[k] - hi[k - 1]
             to == hi[k - 1] - blank
             w == Moving(k, e)
  <2>4. m \in Nat /\ to \in Nat /\ to + m = hi[k] - blank /\ to + m <= LengthOf(e, f)
    <3> DEFINE x == hi[k]
               y == hi[k - 1]
               z == hi[0]
    <3>1. x \in Nat /\ y \in Nat /\ z \in Nat /\ y <= x /\ z <= y /\ blank <= z /\ x <= LengthOf(e, f)
      BY <2>1, <2>2, <2>3
    <3> HIDE DEF x, y, z
    <3> DEFINE l == LengthOf(e, f)
    <3>2. l \in Nat /\ x <= l
      BY <2>3, <3>1
    <3> HIDE DEF l
    <3>3. x - y \in Nat /\ y - blank \in Nat
      BY <3>1
    <3>4. (y - blank) + (x - y) = x - blank
      BY <3>1
    <3>5. x - blank <= l
      BY <3>1, <3>2
    <3> QED
      BY <3>3, <3>4, <3>5 DEF x, y, l
  <2>a. m \in Nat /\ to \in Nat
    BY <2>4
  <2>b. to + m <= LengthOf(e, f)
    BY <2>4
  <2>c. StartOf(e, f) = s /\ hi[k - 1] \in Nat /\ e \in Disks /\ Placed(e, f) /\ Inside(d, e, f)
    BY <2>1, <2>2
  <2>d. w = WriteCells(Asserted(e, Readable(e, f, hi[k - 1], m)), f, to, ReadCells(e, f, hi[k - 1], m))
    OBVIOUS
  <2>r. hi[k - 1] + m <= LengthOf(e, f)
    BY <2>1, <2>2, <2>3
  <2> HIDE DEF m, to, w, S
  <2>e. /\ Inside(e, w, f) /\ Run(e, s + hi[k - 1], w, s + to, m)
        /\ SameBut(e, w, s, to, to + m)
    BY <2>a, <2>b, <2>c, <2>d, <2>r, MovedBlock
  <2>5. Inside(d, w, f)
    BY <2>c, <2>e, InsideAgain
  <2>6. Inside(d, w, f) /\ w \in Disks
    BY <2>5 DEF Inside
  <2>7. Placed(w, f)
    BY <2>6, InsideKeeps DEF Within
  <2> QED
    BY <2>4, <2>e, <2>6, <2>7 DEF m, to, w, S
<1>2. d \in S
  BY DEF Inside
<1>3. step \in [(1 .. n) \X S -> S]
  BY <1>1
<1>4. \A k \in 1 .. Len(blocks), e \in S :
         step[<<k, e>>] = WriteCells(Asserted(e, Readable(e, f, blocks[k][1], blocks[k][2])), f,
                                    blocks[k][1] + 0 - blank, ReadCells(e, f, blocks[k][1], blocks[k][2]))
  <2>1. ASSUME NEW k \in 1 .. n, NEW e \in S
        PROVE  step[<<k, e>>] = WriteCells(Asserted(e, Readable(e, f, blocks[k][1], blocks[k][2])), f,
                                    blocks[k][1] + 0 - blank, ReadCells(e, f, blocks[k][1], blocks[k][2]))
    <3>1. step[<<k, e>>] = Moving(k, e)
      OBVIOUS
    <3>2. hi[k - 1] \in Nat
      OBVIOUS
    <3>3. blocks[k][1] = hi[k - 1] /\ blocks[k][2] = hi[k] - hi[k - 1] /\ hi[k - 1] + 0 - blank = hi[k - 1] - blank
      BY <3>2
    <3> QED
      BY <3>1, <3>3
  <2> QED
    BY <2>1
<1>5. \A k \in 1 .. n, e \in S : step[<<k, e>>] = Moving(k, e)
  OBVIOUS
<1> HIDE DEF step, S, Moving
<1>6. PICK m \in [0 .. n -> S] : Iterates(m, n, d, step) /\ MoveBlocks(d, f, blocks, 0, blank) = m[n]
  <2>1. MovesOne(step, S, f, blocks, 0, blank)
    BY <1>4 DEF MovesOne
  <2>2. \E m \in [0 .. n -> S] : MovesAlong(m, n, d, step, f, blocks, 0, blank)
    BY <1>2, <1>3, <2>1, MovedBlocks
  <2> QED
    BY <2>2 DEF MovesAlong
<1>7. m[0] = d /\ \A k \in 1 .. n : m[k] = step[<<k, m[k - 1]>>]
  BY <1>6 DEF Iterates
<1>8. \A k \in 1 .. n : m[k] = Moving(k, m[k - 1]) /\ m[k - 1] \in S
  <2>1. ASSUME NEW k \in 1 .. n
        PROVE  m[k] = Moving(k, m[k - 1]) /\ m[k - 1] \in S
    <3>1. k - 1 \in 0 .. n
      OBVIOUS
    <3> QED
      BY <1>5, <1>6, <1>7, <3>1
  <2> QED
    BY <2>1
<1> DEFINE Moved(k) ==
              /\ \A j \in Nat : hi[0] <= j + blank /\ j + blank < hi[k] => Cell(m[k], s + j) = Cell(d, s + (j + blank))
              /\ \A j \in Nat : j + blank < hi[0] \/ j + blank >= hi[k] => Cell(m[k], s + j) = Cell(d, s + j)
           Q == {k \in Nat : k <= n => Moved(k)}
<1>9. 0 \in Q
  <2>1. hi[0] \in Nat
    OBVIOUS
  <2> QED
    BY <1>7, <2>1
<1>10. ASSUME NEW k \in Nat, k \in Q
       PROVE  k + 1 \in Q
  <2> SUFFICES ASSUME k + 1 <= n
               PROVE  Moved(k + 1)
    OBVIOUS
  <2> DEFINE e == m[k]
             w == m[k + 1]
             x == hi[k]
             y == hi[k + 1]
             z == hi[0]
  <2>1. k + 1 \in 1 .. n /\ k + 1 - 1 = k /\ k \in 0 .. n
    OBVIOUS
  <2>2. w = Moving(k + 1, e) /\ e \in S
    BY <1>8, <2>1
  <2>3. x \in Nat /\ y \in Nat /\ z \in Nat /\ x <= y /\ z <= x /\ blank <= z
    BY <1>a, <2>1
  <2>4. /\ \A j \in Nat : j < y - x => Cell(w, s + (x - blank) + j) = Cell(e, s + x + j)
        /\ \A j \in Nat : j < x - blank \/ j >= y - blank => Cell(w, s + j) = Cell(e, s + j)
    <3>1. Run(e, s + x, w, s + (x - blank), y - x) /\ SameBut(e, w, s, x - blank, y - blank)
      BY <1>1, <2>1, <2>2
    <3> QED
      BY <3>1 DEF Run, SameBut
  <2>5. /\ \A j \in Nat : z <= j + blank /\ j + blank < x => Cell(e, s + j) = Cell(d, s + (j + blank))
        /\ \A j \in Nat : j + blank < z \/ j + blank >= x => Cell(e, s + j) = Cell(d, s + j)
    <3>1. Moved(k)
      <4> HIDE DEF Moved
      <4> QED
        BY <1>10
    <3> QED
      BY <3>1
  <2> HIDE DEF e, w, x, y, z
  <2>6. ASSUME NEW j \in Nat, z <= j + blank, j + blank < y
        PROVE  Cell(w, s + j) = Cell(d, s + (j + blank))
    <3>1. CASE x <= j + blank
      <4> DEFINE i == j + blank - x
      <4>1. i \in Nat /\ i < y - x /\ s + (x - blank) + i = s + j /\ s + x + i = s + (j + blank)
        BY <2>3, <2>6, <3>1
      <4> HIDE DEF i
      <4>2. Cell(w, s + (x - blank) + i) = Cell(e, s + x + i)
        BY <2>4, <4>1
      <4>3. j + blank \in Nat /\ (j + blank) + blank >= x
        BY <2>3, <3>1
      <4>4. Cell(e, s + (j + blank)) = Cell(d, s + (j + blank))
        BY <2>5, <4>3
      <4> QED
        BY <4>1, <4>2, <4>4
    <3>2. CASE j + blank < x
      <4>1. j < x - blank
        BY <2>3, <3>2
      <4>2. Cell(w, s + j) = Cell(e, s + j)
        BY <2>4, <4>1
      <4> QED
        BY <2>5, <2>6, <3>2, <4>2
    <3> QED
      BY <2>3, <3>1, <3>2
  <2>7. ASSUME NEW j \in Nat, j + blank < z \/ j + blank >= y
        PROVE  Cell(w, s + j) = Cell(d, s + j)
    <3>1. j < x - blank \/ j >= y - blank
      BY <2>3, <2>7
    <3>2. j + blank < z \/ j + blank >= x
      BY <2>3, <2>7
    <3> QED
      BY <2>4, <2>5, <3>1, <3>2
  <2> QED
    BY <2>6, <2>7 DEF w, y, z
<1>11. Moved(n)
  <2>1. \A k \in Nat : k \in Q => k + 1 \in Q
    BY <1>10
  <2> HIDE DEF Q, Moved
  <2>2. n \in Q
    BY <1>9, <2>1, SetInduction
  <2> QED
    BY <2>2 DEF Q
<1>12. m[n] \in S
  BY <1>6
<1>13. Inside(d, m[n], f)
  BY <1>12 DEF S
<1> DEFINE x == hi[n]
           z == hi[0]
<1>m. x \in Nat /\ z \in Nat /\ z <= x /\ blank <= z
  BY <1>a
<1>14. Run(d, s + z, m[n], s + (z - blank), x - z)
  <2>2. \A j \in Nat : z <= j + blank /\ j + blank < x => Cell(m[n], s + j) = Cell(d, s + (j + blank))
    BY <1>11
  <2> HIDE DEF x, z
  <2>3. ASSUME NEW k \in Nat, k < x - z
        PROVE  Cell(m[n], s + (z - blank) + k) = Cell(d, s + z + k)
    <3> DEFINE j == z - blank + k
    <3>1. j \in Nat /\ z <= j + blank /\ j + blank < x /\ s + j = s + (z - blank) + k /\ s + (j + blank) = s + z + k
      BY <1>m, <2>3
    <3> HIDE DEF j
    <3>2. Cell(m[n], s + j) = Cell(d, s + (j + blank))
      BY <2>2, <3>1
    <3> QED
      BY <3>1, <3>2
  <2> QED
    BY <2>3 DEF Run
<1>15. SameBut(d, m[n], s, z - blank, x - blank)
  <2>1. \A j \in Nat : j + blank < z \/ j + blank >= x => Cell(m[n], s + j) = Cell(d, s + j)
    BY <1>11
  <2> HIDE DEF x, z
  <2>2. \A j \in Nat : j < z - blank \/ j >= x - blank => j + blank < z \/ j + blank >= x
    BY <1>m
  <2> QED
    BY <2>1, <2>2 DEF SameBut
<1> HIDE DEF Moved
<1> QED
  BY <1>6, <1>13, <1>14, <1>15 DEF x, z

-----------------------------------------------------------------------------
(* Making room and closing it.                                             *)

\* The number of blocks of some cells.
Blocks(total) == (total + MaxTempMem - 1) \div MaxTempMem

\* Multiples of the size of a block.
LEMMA Multiples ==
    ASSUME NEW k \in Nat, NEW n \in Nat, k <= n
    PROVE  /\ k * MaxTempMem \in Nat /\ (k + 1) * MaxTempMem = k * MaxTempMem + MaxTempMem
           /\ k * MaxTempMem <= n * MaxTempMem /\ 0 * MaxTempMem = 0
<1>1. MaxTempMem \in Nat
  BY FileLayoutAssumption
<1> DEFINE N == MaxTempMem
           i == n - k
<1> HIDE DEF N
<1>2. N \in Nat /\ i \in Nat /\ n = k + i
  BY <1>1 DEF N
<1> HIDE DEF i
<1>3. i * N \in Nat /\ k * N \in Nat /\ (k + i) * N = k * N + i * N /\ (k + 1) * N = k * N + N
      /\ 0 * N = 0
  BY <1>2
<1>4. k * N <= k * N + i * N
  BY <1>3
<1> QED
  BY <1>2, <1>3, <1>4 DEF N

\* The blocks are just enough.
LEMMA BlockCount ==
    ASSUME NEW total \in Nat, total > 0
    PROVE  /\ Blocks(total) \in Nat /\ Blocks(total) >= 1
           /\ total <= Blocks(total) * MaxTempMem
           /\ \A k \in Nat : k < Blocks(total) => k * MaxTempMem \in Nat /\ k * MaxTempMem < total
<1> DEFINE N == MaxTempMem
           n == Blocks(total)
<1>1. N \in Nat /\ N > 0
  BY FileLayoutAssumption
<1> HIDE DEF N
<1>2. n = (total + N - 1) \div N
  BY DEF Blocks, N
<1> HIDE DEF n
<1>3. n \in Nat /\ n * N <= total + N - 1 /\ total + N - 1 < (n + 1) * N
  BY <1>1, <1>2
<1>4. n * N \in Nat /\ (n + 1) * N = n * N + N
  BY <1>3, Multiples DEF N
<1>5. total <= n * N /\ n * N < total + N
  BY <1>1, <1>3, <1>4
<1>6. n # 0
  <2>1. 0 * N = 0
    BY <1>1
  <2> QED
    BY <1>5, <2>1
<1>7. ASSUME NEW k \in Nat, k < n
      PROVE  k * N \in Nat /\ k * N < total
  <2>1. k + 1 \in Nat /\ k + 1 <= n
    BY <1>3, <1>7
  <2>2. (k + 1) * N <= n * N /\ k * N \in Nat /\ (k + 1) * N = k * N + N
    <3>1. (k + 1) * N <= n * N
      BY <1>3, <2>1, Multiples DEF N
    <3>2. k <= k
      OBVIOUS
    <3>3. k * N \in Nat /\ (k + 1) * N = k * N + N
      BY <3>2, Multiples DEF N
    <3> QED
      BY <3>1, <3>3
  <2> QED
    BY <1>1, <1>4, <1>5, <2>2
<1> QED
  BY <1>3, <1>5, <1>6, <1>7 DEF N, n

\* Where the blocks are bounded.
Lows(pos, total) ==
    [k \in 0 .. Blocks(total - pos) |-> IF k < Blocks(total - pos) THEN total - k * MaxTempMem ELSE pos]

Highs(from, total) ==
    [k \in 0 .. Blocks(total - from) |-> IF k < Blocks(total - from) THEN from + k * MaxTempMem ELSE total]

\* The blocks of BlocksDown follow one another.
LEMMA DownInOrder ==
    ASSUME NEW pos \in Nat, NEW total \in Nat, pos < total
    PROVE  LET n == Blocks(total - pos)
           IN  /\ n \in Nat /\ GoDown(BlocksDown(pos, total), Lows(pos, total), n)
               /\ Lows(pos, total)[0] = total /\ Lows(pos, total)[n] = pos
<1> DEFINE n  == Blocks(total - pos)
           N  == MaxTempMem
           lo == [k \in 0 .. n |-> IF k < n THEN total - k * N ELSE pos]
           b  == BlocksDown(pos, total)
<1>0. N \in Nat /\ N > 0
  BY FileLayoutAssumption
<1>1. total - pos \in Nat /\ total - pos > 0
  OBVIOUS
<1>2. /\ n \in Nat /\ n >= 1
      /\ \A k \in Nat : k < n => k * N \in Nat /\ k * N < total - pos
  BY <1>1, BlockCount
<1>3. b = [k \in 1 .. n |-> IF k < n THEN <<total - k * N, N>> ELSE <<pos, total - pos - (n - 1) * N>>]
  BY DEF BlocksDown, Blocks
<1> HIDE DEF n, N, b
<1>4. Len(b) = n
  BY <1>2, <1>3
<1>5. \A k \in 0 .. n : k < n => total - k * N \in Nat /\ total - k * N > pos
  <2>1. ASSUME NEW k \in 0 .. n, k < n
        PROVE  total - k * N \in Nat /\ total - k * N > pos
    <3>1. k * N \in Nat /\ k * N < total - pos
      BY <1>2, <2>1
    <3> QED
      BY <1>1, <3>1
  <2> QED
    BY <2>1
<1>6. lo \in [0 .. n -> Nat]
  BY <1>5
<1>7. lo[0] = total /\ lo[n] = pos
  <2>1. 0 * N = 0
    BY <1>0
  <2> QED
    BY <1>2, <2>1
<1>8. ASSUME NEW k \in 1 .. n
      PROVE  lo[k] <= lo[k - 1] /\ b[k][1] = lo[k] /\ b[k][2] = lo[k - 1] - lo[k]
  <2>1. k - 1 \in 0 .. n /\ k - 1 < n /\ k \in 0 .. n /\ k - 1 \in Nat
    BY <1>2
  <2>2. lo[k - 1] = total - (k - 1) * N
    BY <2>1
  <2>3. (k - 1) * N \in Nat /\ (k - 1) * N < total - pos
    BY <1>2, <2>1
  <2>4. CASE k < n
    <3>1. lo[k] = total - k * N /\ b[k][1] = total - k * N /\ b[k][2] = N
      BY <1>3, <2>1, <2>4
    <3>2. k * N = (k - 1) * N + N /\ k * N \in Nat
      <4>1. k - 1 <= k - 1 /\ k - 1 + 1 = k
        BY <2>1
      <4>2. (k - 1 + 1) * N = (k - 1) * N + N
        BY <2>1, <4>1, Multiples DEF N
      <4> QED
        BY <1>0, <2>3, <4>1, <4>2
    <3> QED
      BY <1>0, <2>2, <2>3, <3>1, <3>2
  <2>5. CASE k = n
    <3>1. lo[k] = pos /\ b[k][1] = pos /\ b[k][2] = total - pos - (n - 1) * N
      BY <1>3, <2>1, <2>5
    <3> QED
      BY <2>2, <2>3, <2>5, <3>1
  <2> QED
    BY <1>2, <2>4, <2>5
<1> HIDE DEF lo
<1> QED
  BY <1>2, <1>4, <1>6, <1>7, <1>8 DEF n, N, b, lo, Lows, GoDown

\* And so do those of BlocksUp.
LEMMA UpInOrder ==
    ASSUME NEW from \in Nat, NEW total \in Nat, from < total
    PROVE  LET n == Blocks(total - from)
           IN  /\ n \in Nat /\ GoUp(BlocksUp(from, total), Highs(from, total), n)
               /\ Highs(from, total)[0] = from /\ Highs(from, total)[n] = total
<1> DEFINE n  == Blocks(total - from)
           N  == MaxTempMem
           hi == [k \in 0 .. n |-> IF k < n THEN from + k * N ELSE total]
           b  == BlocksUp(from, total)
<1>0. N \in Nat /\ N > 0
  BY FileLayoutAssumption
<1>1. total - from \in Nat /\ total - from > 0
  OBVIOUS
<1>2. /\ n \in Nat /\ n >= 1 /\ total - from <= n * N
      /\ \A k \in Nat : k < n => k * N \in Nat /\ k * N < total - from
  BY <1>1, BlockCount
<1>3. b = [k \in 1 .. n |-> <<from + (k - 1) * N, Min({N, total - from - (k - 1) * N})>>]
  BY DEF BlocksUp, Blocks
<1> HIDE DEF n, N, b
<1>4. Len(b) = n
  BY <1>2, <1>3
<1>5. \A k \in 0 .. n : k < n => from + k * N \in Nat /\ from + k * N < total
  <2>1. ASSUME NEW k \in 0 .. n, k < n
        PROVE  from + k * N \in Nat /\ from + k * N < total
    <3>1. k * N \in Nat /\ k * N < total - from
      BY <1>2, <2>1
    <3> QED
      BY <1>1, <3>1
  <2> QED
    BY <2>1
<1>6. hi \in [0 .. n -> Nat]
  BY <1>5
<1>7. hi[0] = from /\ hi[n] = total
  <2>1. 0 * N = 0
    BY <1>0
  <2> QED
    BY <1>2, <2>1
<1>8. ASSUME NEW k \in 1 .. n
      PROVE  hi[k - 1] <= hi[k] /\ b[k][1] = hi[k - 1] /\ b[k][2] = hi[k] - hi[k - 1]
  <2>1. k - 1 \in 0 .. n /\ k - 1 < n /\ k \in 0 .. n /\ k - 1 \in Nat
    BY <1>2
  <2> DEFINE low == (k - 1) * N
             r   == total - from - low
  <2>2. hi[k - 1] = from + low /\ b[k][1] = from + low /\ b[k][2] = Min({N, r})
    BY <1>3, <2>1
  <2>3. low \in Nat /\ low < total - from /\ r \in Nat
    <3>1. low \in Nat /\ low < total - from
      BY <1>2, <2>1
    <3> HIDE DEF low
    <3> QED
      BY <1>1, <3>1
  <2>4. k * N = low + N /\ k * N \in Nat
    <3>1. k - 1 <= k - 1 /\ k - 1 + 1 = k
      BY <2>1
    <3>2. (k - 1 + 1) * N = (k - 1) * N + N
      BY <2>1, <3>1, Multiples DEF N
    <3> HIDE DEF low
    <3> QED
      BY <1>0, <2>3, <3>1, <3>2 DEF low
  <2>5. r = total - from - low
    OBVIOUS
  <2> HIDE DEF low, r
  <2>6. {N, r} \in SUBSET Nat /\ {N, r} # {}
    BY <1>0, <2>3
  <2>7. Min({N, r}) \in {N, r} /\ \A x \in {N, r} : Min({N, r}) <= x
    BY <2>6, LeastOf
  <2>8. CASE k < n
    <3>1. k * N < total - from
      BY <1>2, <2>8
    <3>2. N <= r
      BY <1>0, <2>3, <2>4, <2>5, <3>1
    <3>3. Min({N, r}) = N
      BY <1>0, <2>3, <2>7, <3>2
    <3>4. hi[k] = from + k * N
      BY <2>1, <2>8
    <3> QED
      BY <1>0, <2>2, <2>3, <2>4, <3>3, <3>4
  <2>9. CASE k = n
    <3>1. r <= N
      BY <1>0, <1>2, <2>3, <2>4, <2>5, <2>9
    <3>2. Min({N, r}) = r
      BY <1>0, <2>3, <2>7, <3>1
    <3>3. hi[k] = total
      BY <2>1, <2>9
    <3> QED
      BY <2>2, <2>3, <2>5, <3>2, <3>3
  <2> QED
    BY <1>2, <2>8, <2>9
<1> HIDE DEF hi
<1> QED
  BY <1>2, <1>4, <1>6, <1>7, <1>8 DEF n, N, b, hi, Highs, GoUp

\* e is d with another index of file f.
Relisted(d, e, f) ==
    /\ e \in Disks /\ (d.ok => e.ok) /\ e.cells = d.cells
    /\ \A x \in Files \ {f} : e.index[x] = d.index[x] /\ e.end[x] = d.end[x]

\* Another index of a file leaves the disk as it is.
LEMMA RelistedKeeps ==
    ASSUME Flat, NEW d \in Disks, NEW f \in Files, Placed(d, f), NEW e, Relisted(d, e, f)
    PROVE  /\ Within(d, e, f) /\ StartOf(e, f) = StartOf(d, f) /\ LengthOf(e, f) = LengthOf(d, f)
           /\ \A k : Cell(e, k) = Cell(d, k)
<1>1. e \in Disks /\ (d.ok => e.ok) /\ e.cells = d.cells
  BY DEF Relisted
<1>2. \A k : Cell(e, k) = Cell(d, k)
  BY <1>1 DEF Cell
<1>3. CASE f = Base
  <2>1. StartOf(e, f) = StartOf(d, f) /\ LengthOf(e, f) = LengthOf(d, f)
    BY <1>1, <1>3 DEF StartOf, LengthOf
  <2>2. Placed(e, f)
    BY <1>3 DEF Placed
  <2>3. Around(d, e, f)
    BY <1>3 DEF Around, Relisted
  <2> QED
    BY <1>1, <1>2, <2>1, <2>2, <2>3 DEF Within
<1>4. CASE f # Base
  <2>0. EnclosedBy[f] = Base /\ Base \in Files \ {f}
    BY <1>4, FileLayoutAssumption DEF Flat
  <2>1. e.index[Base] = d.index[Base] /\ e.end[Base] = d.end[Base]
    BY <2>0 DEF Relisted
  <2>2. ElementOf(e, f) = ElementOf(d, f) /\ IDToIndex(e, Base, FileID) = IDToIndex(d, Base, FileID)
    BY <2>0, <2>1 DEF ElementOf, IDToIndex
  <2>3. StartOf(e, f) = StartOf(d, f) /\ StartOf(e, Base) = StartOf(d, Base) /\ LengthOf(e, Base) = LengthOf(d, Base)
    BY <1>1, <2>0, <2>1, <2>2 DEF StartOf, LengthOf
  <2>4. SizeOf(e, Base, ElementOf(e, f)) = SizeOf(d, Base, ElementOf(d, f))
    <3>1. Cell(e, StartOf(e, Base) + e.index[Base][ElementOf(e, f)].offset)
             = Cell(d, StartOf(d, Base) + d.index[Base][ElementOf(d, f)].offset)
      BY <1>2, <2>1, <2>2, <2>3
    <3> QED
      BY <3>1 DEF SizeOf
  <2>5. LengthOf(e, f) = LengthOf(d, f)
    BY <1>4, <2>0, <2>4 DEF LengthOf
  <2>6. FileOK(e, Base)
    <3>1. FileOK(d, Base)
      BY <1>4 DEF Placed
    <3>2. \A i \in DOMAIN d.index[Base] : Cell(e, StartOf(e, Base) + d.index[Base][i].offset)
                                             = Cell(d, StartOf(d, Base) + d.index[Base][i].offset)
      BY <1>2, <2>3
    <3>3. Laid(d, StartOf(d, Base), d.index[Base], d.end[Base])
      BY <3>1 DEF FileOK
    <3>4. Laid(e, StartOf(e, Base), d.index[Base], d.end[Base])
      BY <3>2, <3>3, LaidKept
    <3> QED
      BY <2>1, <2>3, <3>1, <3>4 DEF FileOK
  <2>7. Placed(e, f)
    BY <1>4, <2>2, <2>6 DEF Placed
  <2>8. \A x \in Files \ {f, Base} : e.index[x] = d.index[x] /\ e.end[x] = d.end[x]
    BY DEF Relisted
  <2>9. \A i : Off(e, Base, i) = Off(d, Base, i) /\ Copied(d, Off(d, Base, i), e, Off(e, Base, i))
    BY <1>2, <2>1 DEF Copied, Off
  <2>10. Around(d, e, f)
    BY <2>1, <2>8, <2>9 DEF Around
  <2> QED
    BY <1>1, <1>2, <2>3, <2>5, <2>7, <2>10 DEF Within
<1> QED
  BY <1>3, <1>4

\* What is copied again is a copy.
LEMMA CopiedAgain ==
    ASSUME NEW d, NEW i \in Nat, NEW e, NEW j \in Nat, NEW w, NEW k \in Nat, SizeAt(d, i) \in Nat,
           Copied(d, i, e, j), Copied(e, j, w, k)
    PROVE  Copied(d, i, w, k) /\ SizeAt(e, j) = SizeAt(d, i) /\ Cell(e, j) = Cell(d, i)
<1>1. 0 <= SizeAt(d, i) /\ i + 0 = i /\ j + 0 = j
  OBVIOUS
<1>2. Cell(e, j) = Cell(d, i)
  BY <1>1 DEF Copied
<1>3. SizeAt(e, j) = SizeAt(d, i)
  BY <1>2 DEF SizeAt
<1> QED
  BY <1>2, <1>3 DEF Copied

\* The sizes of the base file's elements are numbers.
LEMMA BaseSizes ==
    ASSUME NEW d \in Disks, FileOK(d, Base), NEW i \in DOMAIN d.index[Base]
    PROVE  /\ Off(d, Base, i) \in Nat /\ Off(d, Base, i) >= 1
           /\ SizeAt(d, Off(d, Base, i)) \in Nat /\ IsSize(d, Off(d, Base, i))
           /\ Off(d, Base, i) + 1 + SizeAt(d, Off(d, Base, i)) <= d.end[Base]
<1>1. Off(d, Base, i) \in Nat
  BY IndexType, FileLayoutAssumption
<1>2. Laid(d, 0, d.index[Base], d.end[Base])
  BY DEF FileOK, StartOf
<1>3. 0 + Off(d, Base, i) = Off(d, Base, i)
  BY <1>1
<1>4. /\ Off(d, Base, i) >= 1 /\ IsSize(d, 0 + Off(d, Base, i))
      /\ Off(d, Base, i) + 1 + SizeAt(d, 0 + Off(d, Base, i)) <= d.end[Base]
  BY <1>2 DEF Laid, Off
<1> QED
  BY <1>1, <1>3, <1>4, SizeType

\* One thing is done with a file after another.
LEMMA WithinAgain ==
    ASSUME Flat, NEW d \in Disks, NEW f \in Files, Placed(d, f), NEW e, Within(d, e, f), NEW w, Within(e, w, f)
    PROVE  Within(d, w, f)
<1>1. /\ w \in Disks /\ (d.ok => w.ok) /\ Placed(w, f) /\ StartOf(w, f) = StartOf(d, f)
      /\ Around(d, e, f) /\ Around(e, w, f) /\ e \in Disks /\ Placed(e, f)
  BY DEF Within
<1>2. \A x \in Files \ {f, Base} : w.index[x] = d.index[x] /\ w.end[x] = d.end[x]
  BY <1>1 DEF Around
<1>3. ASSUME f # Base
      PROVE  /\ Len(w.index[Base]) = Len(d.index[Base])
             /\ \A i \in 1 .. Len(d.index[Base]) :
                   /\ w.index[Base][i].id = d.index[Base][i].id
                   /\ w.index[Base][i].type = d.index[Base][i].type
                   /\ d.index[Base][i].id # FileID => Copied(d, Off(d, Base, i), w, Off(w, Base, i))
  <2>1. Len(w.index[Base]) = Len(d.index[Base]) /\ Len(e.index[Base]) = Len(d.index[Base])
    BY <1>1, <1>3 DEF Around
  <2>2. ASSUME NEW i \in 1 .. Len(d.index[Base])
        PROVE  /\ w.index[Base][i].id = d.index[Base][i].id
               /\ w.index[Base][i].type = d.index[Base][i].type
               /\ d.index[Base][i].id # FileID => Copied(d, Off(d, Base, i), w, Off(w, Base, i))
    <3>1. /\ e.index[Base][i].id = d.index[Base][i].id
          /\ e.index[Base][i].type = d.index[Base][i].type
          /\ w.index[Base][i].id = e.index[Base][i].id
          /\ w.index[Base][i].type = e.index[Base][i].type
      BY <1>1, <1>3, <2>1 DEF Around
    <3>2. ASSUME d.index[Base][i].id # FileID
          PROVE  Copied(d, Off(d, Base, i), w, Off(w, Base, i))
      <4>0. Base \in Files
        BY FileLayoutAssumption
      <4>1. i \in DOMAIN d.index[Base] /\ i \in DOMAIN e.index[Base] /\ i \in DOMAIN w.index[Base]
        BY <1>1, <2>1, <4>0, IndexType
      <4>2. FileOK(d, Base) /\ FileOK(e, Base) /\ FileOK(w, Base)
        BY <1>1, <1>3 DEF Placed
      <4>3. /\ Off(d, Base, i) \in Nat /\ SizeAt(d, Off(d, Base, i)) \in Nat
            /\ Off(e, Base, i) \in Nat /\ Off(w, Base, i) \in Nat
        BY <1>1, <4>1, <4>2, BaseSizes
      <4>4. Copied(d, Off(d, Base, i), e, Off(e, Base, i))
        BY <1>1, <1>3, <3>2 DEF Around
      <4>5. Copied(e, Off(e, Base, i), w, Off(w, Base, i))
        BY <1>1, <1>3, <2>1, <3>1, <3>2 DEF Around
      <4> QED
        BY <4>3, <4>4, <4>5, CopiedAgain
    <3> QED
      BY <3>1, <3>2
  <2> QED
    BY <2>1, <2>2
<1>4. Around(d, w, f)
  BY <1>2, <1>3 DEF Around
<1> QED
  BY <1>1, <1>4 DEF Within

\* ExpandData makes room.
LEMMA Expanded ==
    ASSUME Flat, NEW d \in Disks, NEW f \in Files, Placed(d, f), NEW s \in Nat, StartOf(d, f) = s,
           NEW pos \in Nat, NEW room \in Nat, pos <= d.end[f], d.end[f] + room <= LengthOf(d, f)
    PROVE  LET e == ExpandData(d, f, pos, room)
           IN  /\ Within(d, e, f) /\ LengthOf(e, f) = LengthOf(d, f)
               /\ e.index = d.index /\ e.end[f] = d.end[f] + room
               /\ Run(d, s + pos, e, s + (pos + room), d.end[f] - pos)
               /\ SameBut(d, e, s, pos + room, d.end[f] + room)
<1> DEFINE total == d.end[f]
           r == [Asserted(d, pos <= total) EXCEPT !.end[f] = total + room]
           b == BlocksDown(pos, total)
           w == MoveBlocks(r, f, b, room, 0)
<1>1. total \in Nat
  BY IndexType
<1>2. /\ r \in Disks /\ (d.ok => r.ok) /\ r.cells = d.cells /\ r.index = d.index /\ r.end[f] = total + room
      /\ \A x \in Files \ {f} : r.end[x] = d.end[x]
  <2>1. Asserted(d, pos <= total) = [d EXCEPT !.ok = @ /\ pos <= total]
    BY DEF Asserted
  <2>2. pos <= total
    OBVIOUS
  <2>3. (d.ok /\ pos <= total) \in BOOLEAN
    BY DEF Disks
  <2>4. total + room \in Nat
    BY <1>1
  <2> HIDE DEF total
  <2> QED
    BY <2>1, <2>2, <2>3, <2>4 DEF Disks
<1>3. ExpandData(d, f, pos, room) = IF pos = total \/ room = 0 THEN r ELSE w
  BY DEF ExpandData
<1> HIDE DEF r
<1>4. Relisted(d, r, f)
  BY <1>2 DEF Relisted
<1>5. /\ Within(d, r, f) /\ StartOf(r, f) = s /\ LengthOf(r, f) = LengthOf(d, f)
      /\ \A k : Cell(r, k) = Cell(d, k)
  BY <1>4, RelistedKeeps
<1>6. Placed(r, f)
  BY <1>5 DEF Within
<1>7. CASE pos = total \/ room = 0
  <2>1. ExpandData(d, f, pos, room) = r
    BY <1>3, <1>7
  <2>2. Run(d, s + pos, r, s + (pos + room), total - pos)
    <3>1. CASE pos = total
      <4>1. \A k \in Nat : ~ (k < total - pos)
        BY <1>1, <3>1
      <4> QED
        BY <4>1 DEF Run
    <3>2. CASE room = 0
      <4>1. pos + room = pos
        BY <3>2
      <4> QED
        BY <1>5, <4>1 DEF Run
    <3> QED
      BY <1>7, <3>1, <3>2
  <2>3. SameBut(d, r, s, pos + room, total + room)
    BY <1>5 DEF SameBut
  <2> QED
    BY <1>2, <1>5, <2>1, <2>2, <2>3
<1>8. CASE ~ (pos = total \/ room = 0)
  <2> DEFINE n  == Blocks(total - pos)
             lo == Lows(pos, total)
  <2>0. pos < total
    BY <1>1, <1>8
  <2>1. n \in Nat /\ GoDown(b, lo, n) /\ lo[0] = total /\ lo[n] = pos
    BY <1>1, <2>0, DownInOrder
  <2> HIDE DEF n, lo, b, total
  <2>2. lo[0] + room <= LengthOf(r, f)
    BY <1>5, <2>1 DEF total
  <2>3. StartOf(r, f) = s /\ r \in Disks
    BY <1>2, <1>5
  <2>4. /\ Inside(r, w, f) /\ Run(r, s + lo[n], w, s + (lo[n] + room), lo[0] - lo[n])
        /\ SameBut(r, w, s, lo[n] + room, lo[0] + room)
    BY <1>6, <2>1, <2>2, <2>3, MovedUp
  <2> HIDE DEF w
  <2>5. Within(r, w, f) /\ LengthOf(w, f) = LengthOf(r, f)
    BY <1>6, <2>3, <2>4, InsideKeeps
  <2>6. Within(d, w, f)
    BY <1>5, <2>5, WithinAgain
  <2>7. w.index = d.index /\ w.end[f] = total + room
    BY <1>2, <2>4 DEF Inside
  <2>8. Run(d, s + pos, w, s + (pos + room), total - pos) /\ SameBut(d, w, s, pos + room, total + room)
    BY <1>5, <2>1, <2>4 DEF Run, SameBut
  <2>9. ExpandData(d, f, pos, room) = w
    BY <1>3, <1>8
  <2> QED
    BY <1>5, <2>5, <2>6, <2>7, <2>8, <2>9 DEF total
<1> QED
  BY <1>7, <1>8

\* CompactData closes it.
LEMMA Compacted ==
    ASSUME Flat, NEW d \in Disks, NEW f \in Files, Placed(d, f), NEW s \in Nat, StartOf(d, f) = s,
           NEW pos \in Nat, NEW blank \in Nat, pos < d.end[f], pos + blank <= d.end[f],
           d.end[f] <= LengthOf(d, f)
    PROVE  LET e == CompactData(d, f, pos, blank)
           IN  /\ Within(d, e, f) /\ LengthOf(e, f) = LengthOf(d, f)
               /\ e.index = d.index /\ e.end[f] = d.end[f] - blank
               /\ Run(d, s + (pos + blank), e, s + pos, d.end[f] - (pos + blank))
               /\ SameBut(d, e, s, pos, d.end[f] - blank)
<1> DEFINE total == d.end[f]
           from == pos + blank
           r == [Asserted(d, pos < total /\ from <= total) EXCEPT !.end[f] = total - blank]
           b == BlocksUp(from, total)
           w == MoveBlocks(r, f, b, 0, blank)
<1>1. total \in Nat /\ from \in Nat /\ blank <= from /\ from - blank = pos
  BY IndexType
<1>2. /\ r \in Disks /\ (d.ok => r.ok) /\ r.cells = d.cells /\ r.index = d.index /\ r.end[f] = total - blank
      /\ \A x \in Files \ {f} : r.end[x] = d.end[x]
  <2>1. Asserted(d, pos < total /\ from <= total) = [d EXCEPT !.ok = @ /\ (pos < total /\ from <= total)]
    BY DEF Asserted
  <2>2. pos < total /\ from <= total
    OBVIOUS
  <2>3. (d.ok /\ (pos < total /\ from <= total)) \in BOOLEAN
    BY DEF Disks
  <2>4. total - blank \in Nat
    BY <1>1
  <2> HIDE DEF total
  <2> QED
    BY <2>1, <2>2, <2>3, <2>4 DEF Disks
<1>3. CompactData(d, f, pos, blank) = IF from = total \/ blank = 0 THEN r ELSE w
  BY DEF CompactData
<1> HIDE DEF r
<1>4. Relisted(d, r, f)
  BY <1>2 DEF Relisted
<1>5. /\ Within(d, r, f) /\ StartOf(r, f) = s /\ LengthOf(r, f) = LengthOf(d, f)
      /\ \A k : Cell(r, k) = Cell(d, k)
  BY <1>4, RelistedKeeps
<1>6. Placed(r, f)
  BY <1>5 DEF Within
<1>7. CASE from = total \/ blank = 0
  <2>1. CompactData(d, f, pos, blank) = r
    BY <1>3, <1>7
  <2>2. Run(d, s + from, r, s + pos, total - from)
    <3>1. CASE from = total
      <4>1. \A k \in Nat : ~ (k < total - from)
        BY <1>1, <3>1
      <4> QED
        BY <4>1 DEF Run
    <3>2. CASE blank = 0
      <4>1. from = pos
        BY <3>2
      <4> HIDE DEF from
      <4> QED
        BY <1>5, <4>1 DEF Run
    <3> QED
      BY <1>7, <3>1, <3>2
  <2>3. SameBut(d, r, s, pos, total - blank)
    BY <1>5 DEF SameBut
  <2> QED
    BY <1>2, <1>5, <2>1, <2>2, <2>3
<1>8. CASE ~ (from = total \/ blank = 0)
  <2> DEFINE n  == Blocks(total - from)
             hi == Highs(from, total)
  <2>0. from < total
    BY <1>1, <1>8
  <2>f. from <= total
    OBVIOUS
  <2> HIDE DEF from
  <2>1. n \in Nat /\ GoUp(b, hi, n) /\ hi[0] = from /\ hi[n] = total
    BY <1>1, <2>0, UpInOrder
  <2> HIDE DEF n, hi, b, total
  <2>2. hi[n] <= LengthOf(r, f) /\ blank <= hi[0]
    BY <1>1, <1>5, <2>1 DEF total
  <2>3. StartOf(r, f) = s /\ r \in Disks
    BY <1>2, <1>5
  <2>4. /\ Inside(r, w, f) /\ Run(r, s + hi[0], w, s + (hi[0] - blank), hi[n] - hi[0])
        /\ SameBut(r, w, s, hi[0] - blank, hi[n] - blank)
    BY <1>6, <2>1, <2>2, <2>3, MovedDown
  <2> HIDE DEF w
  <2>5. Within(r, w, f) /\ LengthOf(w, f) = LengthOf(r, f)
    BY <1>6, <2>3, <2>4, InsideKeeps
  <2>6. Within(d, w, f)
    BY <1>5, <2>5, WithinAgain
  <2>7. w.index = d.index /\ w.end[f] = total - blank
    BY <1>2, <2>4 DEF Inside
  <2>8. Run(d, s + from, w, s + pos, total - from) /\ SameBut(d, w, s, pos, total - blank)
    BY <1>1, <1>5, <2>1, <2>4 DEF Run, SameBut
  <2>9. CompactData(d, f, pos, blank) = w
    BY <1>3, <1>8
  <2> QED
    BY <1>5, <2>5, <2>6, <2>7, <2>8, <2>9 DEF total, from
<1> QED
  BY <1>7, <1>8

-----------------------------------------------------------------------------
(* Elements that grow and shrink.                                          *)

\* An element of a file.
LEMMA FileElement ==
    ASSUME Flat, NEW d \in Disks, NEW f \in Files, Placed(d, f), NEW s \in Nat, StartOf(d, f) = s, FileOK(d, f),
           NEW i \in DOMAIN d.index[f]
    PROVE  LET o == Off(d, f, i)
           IN  /\ o \in Nat /\ o >= 1 /\ IsSize(d, s + o) /\ SizeAt(d, s + o) \in Nat
               /\ SizeOf(d, f, i) = SizeAt(d, s + o) /\ o + 1 + SizeAt(d, s + o) <= d.end[f]
               /\ d.end[f] \in Nat /\ LengthOf(d, f) \in Nat /\ d.end[f] <= LengthOf(d, f)
               /\ d.end[f] >= 1
<1> DEFINE o == Off(d, f, i)
<1>1. o \in Nat /\ d.end[f] \in Nat /\ Len(d.index[f]) \in Nat
  BY IndexType
<1>2. Laid(d, s, d.index[f], d.end[f]) /\ LengthOf(d, f) = d.end[f] + Len(d.index[f])
  BY DEF FileOK
<1>3. o >= 1 /\ IsSize(d, s + o) /\ o + 1 + SizeAt(d, s + o) <= d.end[f] /\ d.end[f] >= 1
  BY <1>2 DEF Laid, Off
<1>4. SizeAt(d, s + o) \in Nat /\ (IF Cell(d, s + o)[1] = "size" THEN Cell(d, s + o)[2] ELSE 0) = SizeAt(d, s + o)
  BY <1>3, SizeType
<1>5. SizeOf(d, f, i) = SizeAt(d, s + o)
  BY <1>4 DEF SizeOf, Off
<1>6. LengthOf(d, f) \in Nat /\ d.end[f] <= LengthOf(d, f)
  BY <1>1, <1>2
<1> QED
  BY <1>1, <1>3, <1>4, <1>5, <1>6, Zenon

\* Its size and what is stored in it can be read.
LEMMA ElementReadable ==
    ASSUME Flat, NEW d \in Disks, NEW f \in Files, Placed(d, f), FileOK(d, f), NEW i \in DOMAIN d.index[f]
    PROVE  /\ SizeReadable(d, f, i) = TRUE
           /\ Readable(d, f, d.index[f][i].offset, SizeLength + SizeOf(d, f, i)) = TRUE
           /\ Asserted(d, SizeReadable(d, f, i)) = d
<1> DEFINE s == StartOf(d, f)
           o == Off(d, f, i)
           z == SizeAt(d, s + o)
           l == LengthOf(d, f)
<1>1. s \in Nat /\ StartOf(d, f) = s
  BY PlaceType
<1> HIDE DEF s
<1>2. o \in Nat /\ z \in Nat /\ SizeOf(d, f, i) = z /\ o + 1 + z <= d.end[f] /\ d.end[f] <= l
      /\ d.end[f] \in Nat /\ l \in Nat
  BY <1>1, FileElement
<1>3. d.index[f][i].offset = o
  BY DEF Off
<1> HIDE DEF o, z, l
<1>4. o + 1 <= l /\ o + (1 + z) <= l /\ 1 + z \in Nat
  BY <1>2
<1>5. Readable(d, f, o, 1) = TRUE /\ Readable(d, f, o, 1 + z) = TRUE
  BY <1>2, <1>4, MarksHold DEF l
<1>6. SizeReadable(d, f, i) = TRUE
  BY <1>3, <1>5 DEF SizeReadable, SizeLength
<1> QED
  BY <1>2, <1>3, <1>5, <1>6, Sure DEF SizeLength

\* e is d with another length of file f.
LengthSet(d, e, f, n) ==
    /\ Within(d, e, f) /\ LengthOf(e, f) = n /\ e.index[f] = d.index[f] /\ e.end[f] = d.end[f]
    /\ \A k \in Nat : k < LengthOf(d, f) /\ k < n => Cell(e, StartOf(d, f) + k) = Cell(d, StartOf(d, f) + k)

\* A function that sets the length of a file.
SetsLength(SetLength, f) ==
    \A d \in Disks, n \in Nat : Placed(d, f) => LengthSet(d, SetLength[d][n], f, n)

\* r is d with room for n bytes in element i of f, but the index is as it was.
Roomy(d, r, f, i, n) ==
    LET s   == StartOf(d, f)
        old == SizeOf(d, f, i)
        o   == Off(d, f, i)
    IN  /\ Within(d, r, f) /\ r.index[f] = d.index[f]
        /\ r.end[f] = d.end[f] + n - old /\ LengthOf(r, f) = LengthOf(d, f) + n - old
        /\ \A k \in Nat : k <= o + old /\ k <= o + n => Cell(r, s + k) = Cell(d, s + k)
        /\ Run(d, s + (o + 1 + old), r, s + (o + 1 + n), d.end[f] - (o + 1 + old))

\* SetElementSize of a larger size: the elements behind the room have moved.
LEMMA RoomMade ==
    ASSUME Flat, NEW d \in Disks, NEW f \in Files, Placed(d, f), FileOK(d, f),
           NEW SetLength, SetsLength(SetLength, f),
           NEW i \in DOMAIN d.index[f], NEW n \in Nat, n > SizeOf(d, f, i)
    PROVE  Roomy(d, ExpandData(SetLength[Asserted(d, Reached(d, f))][LengthOf(d, f) + n - SizeOf(d, f, i)], f,
                               d.index[f][i].offset + SizeLength + SizeOf(d, f, i), n - SizeOf(d, f, i)), f, i, n)
<1> DEFINE s   == StartOf(d, f)
           old == SizeOf(d, f, i)
           o   == Off(d, f, i)
           l   == LengthOf(d, f)
           t   == d.end[f]
           p   == o + 1 + old
           m   == n - old
           c   == SetLength[d][l + n - old]
           r   == ExpandData(c, f, p, m)
<1>1. s \in Nat
  BY PlaceType
<1>2. o \in Nat /\ old \in Nat /\ t \in Nat /\ l \in Nat /\ o + 1 + old <= t /\ t <= l
  BY <1>1, FileElement
<1>x. n > old
  OBVIOUS
<1>y. d.index[f][i].offset + SizeLength + SizeOf(d, f, i) = p
  BY DEF Off, SizeLength
<1> HIDE DEF o, old, l, t, s
<1>3. l + n - old \in Nat /\ m \in Nat /\ p \in Nat /\ p <= t
  BY <1>2, <1>x
<1>4. LengthSet(d, c, f, l + n - old)
  BY <1>3 DEF SetsLength
<1> HIDE DEF c
<1>5. Within(d, c, f) /\ LengthOf(c, f) = l + n - old /\ c.index[f] = d.index[f] /\ c.end[f] = t
  BY <1>4 DEF LengthSet, t
<1>6. \A k \in Nat : k < l => Cell(c, s + k) = Cell(d, s + k)
  <2>1. l <= l + n - old
    BY <1>2, <1>3, <1>x
  <2>2. \A k \in Nat : k < l /\ k < l + n - old => Cell(c, s + k) = Cell(d, s + k)
    BY <1>4 DEF LengthSet, s, l
  <2> QED
    BY <1>2, <1>3, <2>1, <2>2
<1>7. c \in Disks /\ Placed(c, f) /\ StartOf(c, f) = s
  BY <1>5 DEF Within, s
<1>8. t + m <= l + n - old
  BY <1>2, <1>x
<1>a. p \in Nat
  BY <1>3
<1>b. m \in Nat
  BY <1>3
<1>c. p <= c.end[f]
  BY <1>3, <1>5
<1>d. c.end[f] + m <= LengthOf(c, f)
  BY <1>5, <1>8
<1> HIDE DEF p, m
<1>9. /\ Within(c, r, f) /\ LengthOf(r, f) = LengthOf(c, f)
      /\ r.index = c.index /\ r.end[f] = c.end[f] + m
      /\ Run(c, s + p, r, s + (p + m), c.end[f] - p)
      /\ SameBut(c, r, s, p + m, c.end[f] + m)
  BY <1>1, <1>7, <1>a, <1>b, <1>c, <1>d, Expanded
<1>10. Within(d, r, f)
  BY <1>5, <1>9, WithinAgain
<1> HIDE DEF r
<1>11. p = o + 1 + old /\ m = n - old
  BY DEF p, m
<1>12. r.end[f] = t + n - old /\ LengthOf(r, f) = l + n - old
  BY <1>2, <1>5, <1>9, <1>11
<1>13. ASSUME NEW k \in Nat, k <= o + old
       PROVE  Cell(r, s + k) = Cell(d, s + k)
  <2>1. k < p + m /\ k < l
    BY <1>2, <1>11, <1>x, <1>13
  <2> QED
    BY <1>6, <1>9, <2>1 DEF SameBut
<1>14. Run(d, s + p, r, s + (o + 1 + n), t - p)
  <2>1. p + m = o + 1 + n
    BY <1>2, <1>11
  <2>2. ASSUME NEW k \in Nat, k < t - p
        PROVE  Cell(r, s + (o + 1 + n) + k) = Cell(d, s + p + k)
    <3>1. p + k \in Nat /\ p + k < l /\ s + (p + k) = s + p + k
      BY <1>1, <1>2, <1>a, <2>2
    <3>2. Cell(r, s + (p + m) + k) = Cell(c, s + p + k)
      BY <1>5, <1>9, <2>2 DEF Run
    <3>3. Cell(c, s + p + k) = Cell(d, s + p + k)
      BY <1>6, <3>1
    <3> QED
      BY <2>1, <3>2, <3>3
  <2> QED
    BY <2>2 DEF Run
<1>15. r.index[f] = d.index[f]
  BY <1>5, <1>9
<1>16. Roomy(d, r, f, i, n)
  BY <1>10, <1>12, <1>13, <1>14, <1>15 DEF Roomy, s, old, o, l, t, p
<1>17. Asserted(d, Reached(d, f)) = d
  BY Reaches, Sure
<1> QED
  BY <1>16, <1>17, <1>y DEF r, c, m, l, old

\* SetElementSize of a smaller size: they have moved the other way.
LEMMA RoomClosed ==
    ASSUME Flat, NEW d \in Disks, NEW f \in Files, Placed(d, f), FileOK(d, f),
           NEW SetLength, SetsLength(SetLength, f),
           NEW i \in DOMAIN d.index[f], NEW n \in Nat, n < SizeOf(d, f, i)
    PROVE  LET c == CompactData(d, f, d.index[f][i].offset + SizeLength + n, SizeOf(d, f, i) - n)
           IN  Roomy(d, SetLength[Asserted(c, Reached(c, f))][LengthOf(c, f) - (SizeOf(d, f, i) - n)], f, i, n)
<1> DEFINE s   == StartOf(d, f)
           old == SizeOf(d, f, i)
           o   == Off(d, f, i)
           l   == LengthOf(d, f)
           t   == d.end[f]
           p   == o + 1 + n
           m   == old - n
           c   == CompactData(d, f, p, m)
           r   == SetLength[c][LengthOf(c, f) - m]
<1>1. s \in Nat
  BY PlaceType
<1>2. o \in Nat /\ old \in Nat /\ t \in Nat /\ l \in Nat /\ o + 1 + old <= t /\ t <= l
  BY <1>1, FileElement
<1>x. n < old
  OBVIOUS
<1>y. d.index[f][i].offset + SizeLength + n = p
  BY DEF Off, SizeLength
<1>z. StartOf(d, f) = s /\ d.end[f] = t /\ LengthOf(d, f) = l
  OBVIOUS
<1> HIDE DEF o, old, l, t, s
<1>3. p \in Nat /\ m \in Nat /\ p < t /\ p + m = o + 1 + old /\ p + m <= t
  BY <1>2, <1>x
<1>a. p \in Nat
  BY <1>3
<1>b. m \in Nat
  BY <1>3
<1>c. p < d.end[f]
  BY <1>3, <1>z
<1>d. p + m <= d.end[f]
  BY <1>3, <1>z
<1>e. d.end[f] <= LengthOf(d, f)
  BY <1>2, <1>z
<1> HIDE DEF p, m
<1>4. /\ Within(d, c, f) /\ LengthOf(c, f) = LengthOf(d, f)
      /\ c.index = d.index /\ c.end[f] = d.end[f] - m
      /\ Run(d, s + (p + m), c, s + p, d.end[f] - (p + m))
      /\ SameBut(d, c, s, p, d.end[f] - m)
  BY <1>1, <1>z, <1>a, <1>b, <1>c, <1>d, <1>e, Compacted
<1>5. c \in Disks /\ Placed(c, f) /\ StartOf(c, f) = s
  BY <1>4 DEF Within, s
<1> HIDE DEF c
<1>6. LengthOf(c, f) = l /\ c.end[f] = t - m
  BY <1>4, <1>z
<1>11. p = o + 1 + n /\ m = old - n
  BY DEF p, m
<1>7. l - m \in Nat /\ t - m <= l - m /\ l - m <= l
  BY <1>2, <1>11, <1>x
<1>8. LengthSet(c, r, f, l - m)
  BY <1>5, <1>6, <1>7 DEF SetsLength
<1> HIDE DEF r
<1>9. Within(c, r, f) /\ LengthOf(r, f) = l - m /\ r.index[f] = d.index[f] /\ r.end[f] = t - m
  BY <1>4, <1>6, <1>8 DEF LengthSet
<1>10. \A k \in Nat : k < l - m => Cell(r, s + k) = Cell(c, s + k)
  <2>1. \A k \in Nat : k < l /\ k < l - m => Cell(r, s + k) = Cell(c, s + k)
    BY <1>5, <1>6, <1>8 DEF LengthSet
  <2> QED
    BY <1>2, <1>7, <2>1
<1>12. Within(d, r, f)
  BY <1>4, <1>9, WithinAgain
<1>13. r.end[f] = t + n - old /\ LengthOf(r, f) = l + n - old
  BY <1>2, <1>9, <1>11
<1>14. ASSUME NEW k \in Nat, k <= o + n
       PROVE  Cell(r, s + k) = Cell(d, s + k)
  <2>1. k < p /\ k < l - m
    BY <1>2, <1>7, <1>11, <1>x, <1>14
  <2> QED
    BY <1>4, <1>10, <2>1 DEF SameBut
<1>15. Run(d, s + (o + 1 + old), r, s + p, t - (o + 1 + old))
  <2>1. p + m = o + 1 + old
    BY <1>2, <1>11
  <2>2. ASSUME NEW k \in Nat, k < t - (p + m)
        PROVE  Cell(r, s + p + k) = Cell(d, s + (p + m) + k)
    <3>1. p + k \in Nat /\ p + k < l - m /\ s + (p + k) = s + p + k
      BY <1>1, <1>2, <1>a, <1>b, <2>2
    <3>2. Cell(c, s + p + k) = Cell(d, s + (p + m) + k)
      BY <1>4, <1>z, <2>2 DEF Run
    <3>3. Cell(r, s + p + k) = Cell(c, s + p + k)
      BY <1>10, <3>1
    <3> QED
      BY <3>2, <3>3
  <2> QED
    BY <2>1, <2>2 DEF Run
<1>16. Roomy(d, r, f, i, n)
  BY <1>9, <1>12, <1>13, <1>14, <1>15 DEF Roomy, s, old, o, l, t, p
<1>17. Asserted(c, Reached(c, f)) = c
  BY <1>5, Reaches, Sure
<1> QED
  BY <1>16, <1>17, <1>y DEF r, c, m, old

\* e is d with n bytes in element i of f.
Sized(d, e, f, i, n) ==
    LET s == StartOf(d, f)
        o == Off(d, f, i)
    IN  /\ FileOK(e, f) /\ LengthOf(e, f) = LengthOf(d, f) + n - SizeOf(d, f, i)
        /\ Len(e.index[f]) = Len(d.index[f])
        /\ \A j \in DOMAIN d.index[f] :
              /\ e.index[f][j].id = d.index[f][j].id /\ e.index[f][j].type = d.index[f][j].type
              /\ j # i => Copied(d, s + Off(d, f, j), e, s + Off(e, f, j))
        /\ Off(e, f, i) = o /\ Cell(e, s + o) = <<"size", n>>
        /\ \A k \in Nat : 1 <= k /\ k <= SizeOf(d, f, i) /\ k <= n => Cell(e, s + o + k) = Cell(d, s + o + k)

\* The index after the elements behind o have moved.
MovedIndex(idx, o, old, n) ==
    <<>> \o [j \in DOMAIN idx |->
                IF idx[j].offset > o THEN [idx[j] EXCEPT !.offset = @ + n - old] ELSE idx[j]]

Behind(idx, o, old) == \A j \in DOMAIN idx : idx[j].offset > o => idx[j].offset >= old

ShiftedTo(idx, nx, o, old, n) ==
    /\ nx \in Seq(Entries) /\ Len(nx) = Len(idx) /\ DOMAIN nx = DOMAIN idx
    /\ \A j \in DOMAIN idx :
          /\ nx[j].id = idx[j].id /\ nx[j].type = idx[j].type
          /\ idx[j].offset > o => nx[j].offset = idx[j].offset + n - old
          /\ ~ (idx[j].offset > o) => nx[j].offset = idx[j].offset

\* ElementSizeChanged changes the offsets of what is behind the element.
LEMMA ShiftedIndex ==
    ASSUME NEW idx \in Seq(Entries), NEW o \in Nat, NEW old \in Nat, NEW n \in Nat, Behind(idx, o, old)
    PROVE  ShiftedTo(idx, MovedIndex(idx, o, old, n), o, old, n)
<1> DEFINE g == [j \in DOMAIN idx |->
                    IF idx[j].offset > o THEN [idx[j] EXCEPT !.offset = @ + n - old] ELSE idx[j]]
<1>1. DOMAIN idx = 1 .. Len(idx) /\ Len(idx) \in Nat /\ \A j \in DOMAIN idx : idx[j] \in Entries
  BY LenProperties, ElementOfSeq
<1>2. ASSUME NEW j \in DOMAIN idx
      PROVE  /\ g[j] \in Entries
             /\ g[j].id = idx[j].id /\ g[j].type = idx[j].type
             /\ idx[j].offset > o => g[j].offset = idx[j].offset + n - old
             /\ ~ (idx[j].offset > o) => g[j].offset = idx[j].offset
  <2>1. idx[j] \in Entries /\ idx[j].offset \in Nat
    BY <1>1 DEF Entries
  <2>2. CASE idx[j].offset > o
    <3>1. g[j] = [idx[j] EXCEPT !.offset = @ + n - old]
      BY <2>2
    <3>2. idx[j].offset + n - old \in Nat
      BY <2>1, <2>2 DEF Behind
    <3> HIDE DEF g
    <3> QED
      BY <2>1, <2>2, <3>1, <3>2 DEF Entries
  <2>3. CASE ~ (idx[j].offset > o)
    BY <2>1, <2>3
  <2> QED
    BY <2>2, <2>3
<1>3. g \in [1 .. Len(idx) -> Entries]
  BY <1>1, <1>2
<1> DEFINE nx == MovedIndex(idx, o, old, n)
<1>d. nx = <<>> \o g
  BY DEF MovedIndex
<1> HIDE DEF g
<1>4. g \in Seq(Entries) /\ Len(g) = Len(idx) /\ DOMAIN g = 1 .. Len(idx)
  BY <1>1, <1>3, FunctionIsSeq
<1>5. nx = g
  BY <1>d, <1>4, ConcatEmptySeq
<1> HIDE DEF nx
<1>6. ShiftedTo(idx, nx, o, old, n)
  BY <1>1, <1>2, <1>4, <1>5 DEF ShiftedTo
<1> QED
  BY <1>6 DEF nx

\* SetElementSize makes the room and adjusts the index to it.
LEMMA ResizedRoom ==
    ASSUME Flat, NEW d \in Disks, NEW f \in Files, Placed(d, f), FileOK(d, f),
           NEW i \in DOMAIN d.index[f], NEW n \in Nat, NEW r, Roomy(d, r, f, i, n)
    PROVE  LET e == ElementResized(WriteCells(r, f, Off(d, f, i), <<<<"size", n>>>>), f, i, SizeOf(d, f, i), n)
           IN  Within(d, e, f) /\ Sized(d, e, f, i, n)
<1> DEFINE s   == StartOf(d, f)
           old == SizeOf(d, f, i)
           o   == Off(d, f, i)
           l   == LengthOf(d, f)
           t   == d.end[f]
           idx == d.index[f]
           q   == <<<<"size", n>>>>
           w   == WriteCells(r, f, o, q)
           e   == ElementResized(w, f, i, old, n)
<1>1. s \in Nat /\ idx \in Seq(Entries) /\ DOMAIN idx = 1 .. Len(idx) /\ Len(idx) \in Nat
  BY PlaceType, IndexType
<1>s. s \in Nat
  BY <1>1
<1>2. /\ o \in Nat /\ o >= 1 /\ old \in Nat /\ t \in Nat /\ l \in Nat
      /\ o + 1 + old <= t /\ t <= l /\ old = SizeAt(d, s + o)
  BY <1>s, FileElement
<1>3. /\ Within(d, r, f) /\ r.index[f] = idx
      /\ r.end[f] = t + n - old /\ LengthOf(r, f) = l + n - old
      /\ \A k \in Nat : k <= o + old /\ k <= o + n => Cell(r, s + k) = Cell(d, s + k)
      /\ Run(d, s + (o + 1 + old), r, s + (o + 1 + n), t - (o + 1 + old))
  BY DEF Roomy
<1>4. r \in Disks /\ Placed(r, f) /\ StartOf(r, f) = s
  BY <1>3 DEF Within
\* Where the elements are.
<1>5. ASSUME NEW j \in DOMAIN idx
      PROVE  LET p == Off(d, f, j)
                 m == SizeAt(d, s + p)
             IN  /\ p = idx[j].offset /\ p \in Nat /\ m \in Nat /\ p >= 1 /\ p + 1 + m <= t /\ IsSize(d, s + p)
                 /\ (p = o => j = i) /\ (p < o => p + 1 + m <= o) /\ (p > o => o + 1 + old <= p)
  <2>1. Laid(d, s, idx, t)
    BY DEF FileOK
  <2>2. LET p == Off(d, f, j)
            m == SizeAt(d, s + p)
        IN  p \in Nat /\ m \in Nat /\ p >= 1 /\ p + 1 + m <= t /\ IsSize(d, s + p)
    BY <1>1, FileElement
  <2>3. /\ idx[j].offset = idx[i].offset => j = i
        /\ idx[j].offset < idx[i].offset => idx[j].offset + 1 + SizeAt(d, s + idx[j].offset) <= idx[i].offset
        /\ idx[i].offset < idx[j].offset => idx[i].offset + 1 + SizeAt(d, s + idx[i].offset) <= idx[j].offset
    BY <2>1 DEF Laid
  <2> QED
    BY <1>2, <2>2, <2>3 DEF Off
<1>o. o = idx[i].offset
  BY DEF Off
<1>p. \A j \in DOMAIN idx : Off(d, f, j) = idx[j].offset
  BY DEF Off
<1>id. Named(idx) /\ l = t + Len(idx)
  BY DEF FileOK
<1>iii. i \in DOMAIN idx
  OBVIOUS
<1> HIDE DEF s, old, o, l, t, idx
\* The size is written.
<1>6. /\ Inside(r, w, f) /\ Cell(w, s + o) = <<"size", n>>
      /\ \A k \in Nat : k # o => Cell(w, s + k) = Cell(r, s + k)
  <2>1. q \in Seq(Cells) /\ Len(q) = 1 /\ q[1] = <<"size", n>>
    BY DEF Cells
  <2> HIDE DEF q
  <2>2. o + Len(q) <= LengthOf(r, f)
    BY <1>2, <1>3, <2>1
  <2>3. Inside(r, w, f) /\ Filled(w, s + o, q) /\ SameBut(r, w, s, o, o + Len(q))
    BY <1>1, <1>2, <1>4, <2>1, <2>2, WriteInside
  <2> HIDE DEF w
  <2>4. Cell(w, s + o) = <<"size", n>>
    <3>1. 0 < Len(q) /\ s + o + 0 = s + o /\ 0 + 1 = 1
      BY <1>1, <1>2, <2>1
    <3>2. Cell(w, s + o + 0) = q[0 + 1]
      BY <2>3, <3>1 DEF Filled
    <3> QED
      BY <2>1, <3>1, <3>2
  <2>5. \A k \in Nat : k # o => k < o \/ k >= o + Len(q)
    BY <1>2, <2>1
  <2> QED
    BY <2>3, <2>4, <2>5 DEF SameBut
<1> HIDE DEF q, w
<1>7. /\ Within(r, w, f) /\ StartOf(w, f) = s /\ LengthOf(w, f) = l + n - old
      /\ w \in Disks /\ w.index[f] = idx /\ w.end = r.end /\ Placed(w, f)
  <2>1. Within(r, w, f) /\ StartOf(w, f) = StartOf(r, f) /\ LengthOf(w, f) = LengthOf(r, f)
    BY <1>4, <1>6, InsideKeeps
  <2> QED
    BY <1>3, <1>4, <1>6, <2>1 DEF Inside, Within
\* The index is changed.
<1> DEFINE nx == MovedIndex(idx, o, old, n)
<1>b. Behind(idx, o, old)
  <2>1. ASSUME NEW j \in DOMAIN idx, idx[j].offset > o
        PROVE  idx[j].offset >= old
    <3>1. idx[j].offset \in Nat /\ o + 1 + old <= idx[j].offset
      BY <1>5, <1>p, <2>1
    <3> QED
      BY <1>2, <3>1
  <2> QED
    BY <2>1 DEF Behind
<1>8. e = [w EXCEPT !.index[f] = nx]
  <2> DEFINE p == \A j \in StoredBehind(w, f, i) : w.index[f][j].offset + n >= old
  <2>1. ASSUME NEW j \in StoredBehind(w, f, i)
        PROVE  w.index[f][j].offset + n >= old
    <3>1. j \in DOMAIN idx /\ idx[j].offset > o
      BY <1>7, <1>o, <2>1 DEF StoredBehind
    <3>2. idx[j].offset >= old /\ idx[j].offset \in Nat
      BY <1>5, <1>b, <1>p, <3>1 DEF Behind
    <3> QED
      BY <1>2, <1>7, <3>2
  <2>2. p = TRUE
    BY <2>1
  <2> HIDE DEF p
  <2>3. Asserted(w, p) = w
    BY <1>7, <2>2, Sure
  <2> QED
    BY <1>7, <1>o, <2>3 DEF ElementResized, MovedIndex, p
<1>9. /\ nx \in Seq(Entries) /\ Len(nx) = Len(idx) /\ DOMAIN nx = DOMAIN idx
      /\ \A j \in DOMAIN idx :
            /\ nx[j].id = idx[j].id /\ nx[j].type = idx[j].type
            /\ idx[j].offset > o => nx[j].offset = idx[j].offset + n - old
            /\ ~ (idx[j].offset > o) => nx[j].offset = idx[j].offset
  <2>2. o \in Nat /\ old \in Nat /\ idx \in Seq(Entries)
    BY <1>1, <1>2
  <2>3. ShiftedTo(idx, nx, o, old, n)
    BY <1>b, <2>2, ShiftedIndex
  <2> HIDE DEF nx
  <2> QED
    BY <2>3 DEF ShiftedTo
<1> HIDE DEF nx
<1>10. /\ e \in Disks /\ (w.ok => e.ok) /\ e.cells = w.cells /\ e.index[f] = nx /\ e.end = w.end
       /\ \A x \in Files \ {f} : e.index[x] = w.index[x]
  <2>1. w \in Disks /\ nx \in Seq(Entries)
    BY <1>7, <1>9
  <2> HIDE DEF e
  <2>2. e.index = [w.index EXCEPT ![f] = nx] /\ w.index \in [Files -> Seq(Entries)]
    BY <1>8, <2>1 DEF Disks
  <2>3. e.index \in [Files -> Seq(Entries)]
    BY <2>1, <2>2
  <2>4. e \in Disks /\ e.ok = w.ok /\ e.cells = w.cells /\ e.end = w.end
    BY <1>8, <2>1, <2>3 DEF Disks
  <2> QED
    BY <2>2, <2>4
<1> HIDE DEF e
<1>11. Relisted(w, e, f)
  BY <1>10 DEF Relisted
<1>12. /\ Within(w, e, f) /\ StartOf(e, f) = s /\ LengthOf(e, f) = l + n - old
       /\ \A k : Cell(e, k) = Cell(w, k)
  BY <1>7, <1>11, RelistedKeeps
<1>13. Within(d, e, f)
  <2>1. Within(d, w, f)
    BY <1>3, <1>7, WithinAgain
  <2> QED
    BY <1>12, <2>1, WithinAgain
\* The cells.
<1>14. Cell(e, s + o) = <<"size", n>>
  BY <1>6, <1>12
<1>15. ASSUME NEW k \in Nat, k <= o + old, k <= o + n, k # o
       PROVE  Cell(e, s + k) = Cell(d, s + k)
  BY <1>3, <1>6, <1>12, <1>15
<1>16. ASSUME NEW k \in Nat, o + 1 + old <= k, k < t
       PROVE  k + n - old \in Nat /\ Cell(e, s + (k + n - old)) = Cell(d, s + k)
  <2> DEFINE j == k - (o + 1 + old)
  <2>1. j \in Nat /\ j < t - (o + 1 + old)
    BY <1>2, <1>16
  <2>2. s + (o + 1 + old) + j = s + k /\ s + (o + 1 + n) + j = s + (k + n - old)
    BY <1>1, <1>2
  <2> HIDE DEF j
  <2>3. Cell(r, s + (k + n - old)) = Cell(d, s + k)
    BY <1>3, <2>1, <2>2 DEF Run
  <2>4. k + n - old \in Nat /\ k + n - old # o
    BY <1>2, <1>16
  <2> QED
    BY <1>6, <1>12, <2>3, <2>4
\* The elements.
<1>17. ASSUME NEW j \in DOMAIN idx, j # i
       PROVE  /\ Copied(d, s + idx[j].offset, e, s + nx[j].offset) /\ nx[j].offset \in Nat
              /\ Cell(e, s + nx[j].offset) = Cell(d, s + idx[j].offset)
  <2> DEFINE p == idx[j].offset
             m == SizeAt(d, s + p)
             v == nx[j].offset
  <2>1. /\ p \in Nat /\ m \in Nat /\ p >= 1 /\ p + 1 + m <= t
        /\ p # o /\ (p < o => p + 1 + m <= o) /\ (p > o => o + 1 + old <= p)
    BY <1>5, <1>17, <1>p
  <2>2. (p > o => v = p + n - old) /\ (~ (p > o) => v = p)
    BY <1>9
  <2>m. m = SizeAt(d, s + p)
    OBVIOUS
  <2> HIDE DEF p, m, v
  <2>3. ASSUME NEW k \in Nat, k <= m
        PROVE  Cell(e, s + v + k) = Cell(d, s + p + k)
    <3>1. CASE p < o
      <4>1. v = p /\ p + k \in Nat /\ p + k < o
        BY <1>2, <2>1, <2>2, <2>3, <3>1
      <4>2. Cell(e, s + (p + k)) = Cell(d, s + (p + k))
        BY <1>2, <1>15, <4>1
      <4>3. s + (p + k) = s + p + k
        BY <1>1, <2>1
      <4> QED
        BY <4>1, <4>2, <4>3
    <3>2. CASE p > o
      <4>1. p + k \in Nat /\ o + 1 + old <= p + k /\ p + k < t /\ v = p + n - old
        BY <1>2, <2>1, <2>2, <2>3, <3>2
      <4>2. Cell(e, s + (p + k + n - old)) = Cell(d, s + (p + k))
        BY <1>16, <4>1
      <4>3. s + (p + k) = s + p + k
        BY <1>s, <2>1
      <4>4. s + (p + k + n - old) = s + v + k
        BY <1>s, <1>2, <2>1, <4>1
      <4> QED
        BY <4>2, <4>3, <4>4
    <3> QED
      BY <1>2, <2>1, <3>1, <3>2
  <2>4. v \in Nat
    BY <1>2, <2>1, <2>2
  <2>5. Cell(e, s + v) = Cell(d, s + p)
    <3>1. 0 <= m /\ s + v + 0 = s + v /\ s + p + 0 = s + p
      BY <1>1, <2>1, <2>4
    <3>2. Cell(e, s + v + 0) = Cell(d, s + p + 0)
      BY <2>3, <3>1
    <3> QED
      BY <3>1, <3>2
  <2>6. Copied(d, s + p, e, s + v)
    BY <2>3, <2>m DEF Copied
  <2> QED
    BY <2>4, <2>5, <2>6 DEF p, v
<1>18. nx[i].offset = o
  BY <1>2, <1>9, <1>o, <1>iii
<1> DEFINE N(j) == IF j = i THEN n ELSE SizeAt(d, s + idx[j].offset)
<1>19. ASSUME NEW j \in DOMAIN idx
       PROVE  IsSize(e, s + nx[j].offset) /\ SizeAt(e, s + nx[j].offset) = N(j) /\ N(j) \in Nat
  <2>1. CASE j = i
    BY <1>14, <1>18, <2>1 DEF IsSize, SizeAt
  <2>2. CASE j # i
    <3>1. Cell(e, s + nx[j].offset) = Cell(d, s + idx[j].offset)
      BY <1>17, <2>2
    <3>2. IsSize(d, s + idx[j].offset) /\ SizeAt(d, s + idx[j].offset) \in Nat
      BY <1>5, <1>p
    <3> QED
      BY <2>2, <3>1, <3>2 DEF IsSize, SizeAt
  <2> QED
    BY <2>1, <2>2
<1>20. ASSUME NEW j \in DOMAIN idx
       PROVE  /\ nx[j].offset \in Nat /\ nx[j].offset >= 1 /\ nx[j].offset + 1 + N(j) <= t + n - old
              /\ (j # i => nx[j].offset # o)
              /\ (j # i /\ nx[j].offset < o => nx[j].offset + 1 + N(j) <= o)
              /\ (j # i /\ nx[j].offset > o => o + 1 + n <= nx[j].offset)
  <2> DEFINE p == idx[j].offset
             m == SizeAt(d, s + p)
             v == nx[j].offset
  <2>1. /\ p \in Nat /\ m \in Nat /\ p >= 1 /\ p + 1 + m <= t
        /\ (p = o => j = i) /\ (p < o => p + 1 + m <= o) /\ (p > o => o + 1 + old <= p)
    BY <1>5, <1>p
  <2>2. (p > o => v = p + n - old) /\ (~ (p > o) => v = p)
    BY <1>9
  <2>3. CASE j = i
    <3>1. v = o /\ N(j) = n
      BY <1>18, <2>3
    <3> HIDE DEF v, N
    <3> QED
      BY <1>2, <2>3, <3>1 DEF v
  <2>4. CASE j # i
    <3>1. N(j) = m
      BY <2>4
    <3> HIDE DEF p, m, v, N
    <3> QED
      BY <1>2, <2>1, <2>2, <2>4, <3>1 DEF v
  <2> QED
    BY <2>3, <2>4
<1>21. ASSUME NEW j \in DOMAIN idx, NEW k \in DOMAIN idx
       PROVE  /\ nx[j].offset = nx[k].offset => j = k
              /\ nx[j].offset < nx[k].offset => nx[j].offset + 1 + N(j) <= nx[k].offset
  <2>1. CASE j = i
    <3>1. N(j) = n
      BY <2>1
    <3> HIDE DEF N
    <3> QED
      BY <1>2, <1>18, <1>20, <2>1, <3>1
  <2>2. CASE k = i
    <3> HIDE DEF N
    <3> QED
      BY <1>2, <1>18, <1>20, <2>2
  <2>3. CASE j # i /\ k # i
    <3> DEFINE a == idx[j].offset
               b == idx[k].offset
               m == SizeAt(d, s + a)
               u == nx[j].offset
               v == nx[k].offset
    <3>1. /\ a \in Nat /\ b \in Nat /\ m \in Nat /\ N(j) = m
          /\ (a < o => a + 1 + m <= o) /\ (a > o => o + 1 + old <= a) /\ a # o
          /\ (b > o => o + 1 + old <= b) /\ b # o
      BY <1>5, <1>p, <2>3
    <3>2. (a = b => j = k) /\ (a < b => a + 1 + m <= b)
      <4>1. Laid(d, s, idx, t)
        BY DEF FileOK, s, idx, t
      <4> QED
        BY <4>1 DEF Laid
    <3>3. /\ (a > o => u = a + n - old) /\ (~ (a > o) => u = a)
          /\ (b > o => v = b + n - old) /\ (~ (b > o) => v = b)
      BY <1>9
    <3> HIDE DEF a, b, m, u, v, N
    <3>4. (u = v => j = k) /\ (u < v => u + 1 + m <= v)
      BY <1>2, <3>1, <3>2, <3>3
    <3> QED
      BY <3>1, <3>4 DEF u, v
  <2> QED
    BY <2>1, <2>2, <2>3
<1> HIDE DEF N
<1>22. t + n - old >= 1
  BY <1>2
<1>23. Laid(e, s, nx, t + n - old)
  BY <1>9, <1>19, <1>20, <1>21, <1>22 DEF Laid
<1>24. Named(nx)
  BY <1>9, <1>id DEF Named
<1>25. e.end[f] = t + n - old
  BY <1>3, <1>7, <1>10
<1>26. FileOK(e, f)
  <2>1. l + n - old = t + n - old + Len(nx)
    <3> DEFINE c == Len(idx)
    <3>1. c \in Nat /\ l = t + c /\ Len(nx) = c
      BY <1>1, <1>9, <1>id
    <3> HIDE DEF c
    <3> QED
      BY <1>2, <3>1
  <2> QED
    BY <1>10, <1>12, <1>23, <1>24, <1>25, <2>1 DEF FileOK
<1>27. \A j \in DOMAIN idx :
          /\ nx[j].id = idx[j].id /\ nx[j].type = idx[j].type
          /\ j # i => Copied(d, s + Off(d, f, j), e, s + Off(e, f, j))
  <2>1. \A j \in DOMAIN idx : Off(d, f, j) = idx[j].offset /\ Off(e, f, j) = nx[j].offset
    BY <1>10, <1>p DEF Off
  <2> QED
    BY <1>9, <1>17, <2>1
<1>28. \A k \in Nat : 1 <= k /\ k <= old /\ k <= n => Cell(e, s + o + k) = Cell(d, s + o + k)
  <2>1. ASSUME NEW k \in Nat, 1 <= k, k <= old, k <= n
        PROVE  Cell(e, s + o + k) = Cell(d, s + o + k)
    <3>1. o + k \in Nat /\ o + k <= o + old /\ o + k <= o + n /\ o + k # o /\ s + (o + k) = s + o + k
      BY <1>1, <1>2, <2>1
    <3> QED
      BY <1>15, <3>1
  <2> QED
    BY <2>1
<1>29. Off(e, f, i) = o
  BY <1>10, <1>18 DEF Off
<1>30. Sized(d, e, f, i, n)
  BY <1>9, <1>10, <1>12, <1>14, <1>26, <1>27, <1>28, <1>29 DEF Sized, s, o, old, l, idx
<1> QED
  BY <1>13, <1>30 DEF e, w, q, o, old

\* SetElementSize gives element i room for n bytes and keeps all others.
LEMMA ResizedElement ==
    ASSUME Flat, NEW d \in Disks, NEW f \in Files, Placed(d, f), FileOK(d, f),
           NEW SetLength, SetsLength(SetLength, f),
           NEW i \in DOMAIN d.index[f], NEW n \in Nat
    PROVE  LET e == Resized(d, f, i, n, SetLength)
           IN  Within(d, e, f) /\ Sized(d, e, f, i, n)
<1> DEFINE s   == StartOf(d, f)
           old == SizeOf(d, f, i)
           o   == Off(d, f, i)
           x   == ExpandData(SetLength[Asserted(d, Reached(d, f))][LengthOf(d, f) + n - old], f,
                             d.index[f][i].offset + SizeLength + old, n - old)
           c   == CompactData(d, f, d.index[f][i].offset + SizeLength + n, old - n)
           y   == SetLength[Asserted(c, Reached(c, f))][LengthOf(c, f) - (old - n)]
           r   == RoomFor(d, f, i, n, SetLength)
           e   == Resized(d, f, i, n, SetLength)
<1>1. s \in Nat
  BY PlaceType
<1>2. /\ o \in Nat /\ old \in Nat /\ old = SizeAt(d, s + o) /\ IsSize(d, s + o) /\ LengthOf(d, f) \in Nat
  BY <1>1, FileElement
<1>3. /\ n > old => r = x
      /\ ~ (n > old) => r = y
  BY DEF RoomFor
<1>4. /\ n = old => e = d
      /\ n # old => e = ElementResized(WriteCells(r, f, o, <<<<"size", n>>>>), f, i, old, n)
  BY DEF Resized, Off
<1>5. CASE n = old
  <2>1. e = d
    BY <1>4, <1>5
  <2>2. Relisted(d, d, f)
    BY DEF Relisted
  <2>3. Within(d, d, f)
    BY <2>2, RelistedKeeps
  <2>4. \A k : Copied(d, k, d, k)
    BY DEF Copied
  <2>5. Cell(d, s + o) = <<"size", n>>
    BY <1>2, <1>5, SizeType
  <2>6. LengthOf(d, f) + n - old = LengthOf(d, f)
    BY <1>2, <1>5
  <2>7. Sized(d, d, f, i, n)
    BY <2>4, <2>5, <2>6 DEF Sized
  <2> QED
    BY <2>1, <2>3, <2>7
<1>6. CASE n # old
  <2>1. Roomy(d, r, f, i, n)
    <3>1. CASE n > old
      <4>1. Roomy(d, x, f, i, n)
        BY <3>1, RoomMade
      <4>2. r = x
        BY <1>3, <3>1
      <4> QED
        BY <4>1, <4>2
    <3>2. CASE n < old
      <4>1. Roomy(d, y, f, i, n)
        BY <3>2, RoomClosed
      <4>2. r = y
        BY <1>2, <1>3, <3>2
      <4> QED
        BY <4>1, <4>2
    <3> QED
      BY <1>2, <1>6, <3>1, <3>2
  <2> HIDE DEF r
  <2> DEFINE w == ElementResized(WriteCells(r, f, o, <<<<"size", n>>>>), f, i, old, n)
  <2>2. Within(d, w, f) /\ Sized(d, w, f, i, n)
    BY <2>1, ResizedRoom
  <2>3. e = w
    BY <1>4, <1>6
  <2> HIDE DEF w, e
  <2> QED
    BY <2>2, <2>3 DEF e
<1> QED
  BY <1>5, <1>6

\* The length of the base file is how many cells there are.
LEMMA BaseLength ==
    ASSUME NEW d \in Disks, NEW n \in Nat
    PROVE  LengthSet(d, [d EXCEPT !.cells = Front0(d, n)], Base, n)
<1> DEFINE e == [d EXCEPT !.cells = Front0(d, n)]
           c == Front0(d, n)
<1>1. c \in Seq(Cells) /\ Len(c) = n /\ \A k \in 0 .. n - 1 : c[k + 1] = Cell(d, k)
  BY FrontCells
<1>2. e = [d EXCEPT !.cells = c]
  OBVIOUS
<1>c. c \in Seq(Cells)
  BY <1>1
<1> HIDE DEF c, e
<1>3. e \in Disks /\ e.cells = c /\ e.index = d.index /\ e.end = d.end /\ e.ok = d.ok
  BY <1>2, <1>c DEF Disks
<1>4. LengthOf(e, Base) = n /\ StartOf(e, Base) = 0 /\ StartOf(d, Base) = 0
  BY <1>1, <1>3 DEF LengthOf, StartOf
<1>5. \A k \in Nat : k < n => Cell(e, k) = Cell(d, k)
  BY <1>1, <1>3 DEF Cell
<1>6. \A k \in Nat : 0 + k = k
  OBVIOUS
<1>7. Within(d, e, Base)
  BY <1>3, <1>4 DEF Within, Placed, Around
<1> QED
  BY <1>3, <1>4, <1>5, <1>6, <1>7 DEF LengthSet, e, c

\* The length of an embedded file is the size of its element in the base file.
LEMMA EmbeddedLength ==
    ASSUME Flat, NEW d \in Disks, NEW f \in Files \ {Base}, Placed(d, f), NEW n \in Nat,
           NEW SetLength, SetsLength(SetLength, Base)
    PROVE  LengthSet(d, Resized(d, Base, ElementOf(d, f), n, SetLength), f, n)
<1> DEFINE i == ElementOf(d, f)
           o == Off(d, Base, i)
           e == Resized(d, Base, i, n, SetLength)
<1>1. Base \in Files /\ EnclosedBy[f] = Base /\ f \in Files /\ f # Base
  BY FileLayoutAssumption DEF Flat
<1>2. /\ i \in DOMAIN d.index[Base] /\ d.index[Base][i].id = FileID
      /\ \A j \in DOMAIN d.index[Base] : d.index[Base][j].id = FileID => j = i
      /\ StartOf(d, f) = o + 1 /\ IsSize(d, o) /\ LengthOf(d, f) = SizeAt(d, o)
      /\ o \in Nat /\ SizeAt(d, o) \in Nat
  BY <1>1, TheElement
<1>3. Placed(d, Base) /\ FileOK(d, Base) /\ IDToIndex(d, Base, FileID) # {}
  BY <1>1 DEF Placed
<1>i. i \in DOMAIN d.index[Base]
  BY <1>2
<1> HIDE DEF i, e
<1>4. Within(d, e, Base) /\ Sized(d, e, Base, i, n)
  BY <1>1, <1>3, <1>i, ResizedElement DEF e
<1>5. StartOf(d, Base) = 0
  BY DEF StartOf
<1>6. /\ e \in Disks /\ (d.ok => e.ok)
      /\ \A g \in Files \ {Base} : e.index[g] = d.index[g] /\ e.end[g] = d.end[g]
  BY <1>4 DEF Within, Around
<1>7. DOMAIN e.index[Base] = DOMAIN d.index[Base] /\ Len(e.index[Base]) = Len(d.index[Base])
      /\ DOMAIN d.index[Base] = 1 .. Len(d.index[Base])
  <2>1. Len(e.index[Base]) = Len(d.index[Base])
    BY <1>4 DEF Sized
  <2> QED
    BY <1>1, <1>6, <2>1, IndexType
<1>8. \A j \in DOMAIN d.index[Base] :
         e.index[Base][j].id = d.index[Base][j].id /\ e.index[Base][j].type = d.index[Base][j].type
  BY <1>4 DEF Sized
<1>9. IDToIndex(e, Base, FileID) = IDToIndex(d, Base, FileID)
  BY <1>7, <1>8 DEF IDToIndex
<1>10. FileOK(e, Base)
  BY <1>4 DEF Sized
<1>11. Placed(e, f)
  BY <1>3, <1>9, <1>10 DEF Placed
<1>12. ElementOf(e, f) = i
  BY <1>1, <1>9 DEF ElementOf, i
<1>13. Off(e, Base, i) = o /\ 0 + o = o
  BY <1>2, <1>4 DEF Sized
<1> HIDE DEF o
<1>14. Cell(e, o) = <<"size", n>>
  BY <1>4, <1>5, <1>13 DEF Sized, o
<1>15. StartOf(e, f) = StartOf(d, f) /\ LengthOf(e, f) = n
  <2>1. StartOf(e, f) = Off(e, Base, i) + 1 /\ LengthOf(e, f) = SizeAt(e, Off(e, Base, i))
    BY <1>1, <1>6, <1>11, <1>12, TheElement
  <2> QED
    BY <1>2, <1>13, <1>14, <2>1 DEF SizeAt
<1>16. Around(d, e, f)
  <2>1. ASSUME NEW j \in 1 .. Len(d.index[Base]), d.index[Base][j].id # FileID
        PROVE  Copied(d, Off(d, Base, j), e, Off(e, Base, j))
    <3>1. j # i /\ j \in DOMAIN d.index[Base] /\ j \in DOMAIN e.index[Base]
      BY <1>2, <1>7, <2>1
    <3>2. Copied(d, 0 + Off(d, Base, j), e, 0 + Off(e, Base, j))
      BY <1>4, <1>5, <3>1 DEF Sized
    <3>3. Off(d, Base, j) \in Nat /\ Off(e, Base, j) \in Nat
      BY <1>1, <1>6, <3>1, IndexType
    <3>4. 0 + Off(d, Base, j) = Off(d, Base, j) /\ 0 + Off(e, Base, j) = Off(e, Base, j)
      BY <3>3
    <3> QED
      BY <3>2, <3>4
  <2> QED
    BY <1>6, <1>7, <1>8, <2>1 DEF Around
<1>17. Within(d, e, f)
  BY <1>6, <1>11, <1>15, <1>16 DEF Within
<1>18. ASSUME NEW k \in Nat, k < LengthOf(d, f), k < n
       PROVE  Cell(e, StartOf(d, f) + k) = Cell(d, StartOf(d, f) + k)
  <2>1. SizeOf(d, Base, i) = SizeAt(d, o)
    <3>1. StartOf(d, Base) + d.index[Base][i].offset = o
      BY <1>5, <1>13 DEF o, Off
    <3> QED
      BY <1>2, <3>1, SizeType DEF SizeOf
  <2>2. k + 1 \in Nat /\ 1 <= k + 1 /\ k + 1 <= SizeAt(d, o) /\ k + 1 <= n /\ o + 1 + k = 0 + o + (k + 1)
    BY <1>2, <1>18
  <2>3. Cell(e, 0 + o + (k + 1)) = Cell(d, 0 + o + (k + 1))
    BY <1>4, <1>5, <2>1, <2>2 DEF Sized, o
  <2> QED
    BY <1>2, <2>2, <2>3
<1>19. e.index[f] = d.index[f] /\ e.end[f] = d.end[f]
  BY <1>1, <1>6
<1>20. LengthSet(d, e, f, n)
  BY <1>15, <1>17, <1>18, <1>19 DEF LengthSet
<1> QED
  BY <1>20 DEF e, i

\* SetFileLength, unfolded.
LEMMA LengthFunctions ==
    ASSUME Flat
    PROVE  \A f \in Files : \A d \in Disks, n \in Nat :
              /\ f = Base => SetFileLength[f][d][n] = [d EXCEPT !.cells = Front0(d, n)]
              /\ f # Base => SetFileLength[f][d][n] =
                                Resized(Asserted(d, Reached(d, f)), Base, ElementOf(d, f), n, SetFileLength[Base])
<1> DEFINE Body(h) == [f \in Files |-> [d \in Disks |-> [n \in Nat |->
                          IF f = Base THEN [d EXCEPT !.cells = Front0(d, n)]
                          ELSE Resized(Asserted(d, Reached(d, f)), EnclosedBy[f], ElementOf(d, f), n, h[EnclosedBy[f]])]]]
           b == [d \in Disks |-> [n \in Nat |-> [d EXCEPT !.cells = Front0(d, n)]]]
           g == [f \in Files |-> IF f = Base THEN b
                    ELSE [d \in Disks |-> [n \in Nat |-> Resized(Asserted(d, Reached(d, f)), Base, ElementOf(d, f), n, b)]]]
<1>1. SetFileLength = CHOOSE h : h = Body(h)
  BY DEF SetFileLength
<1>2. \A f \in Files : f # Base => EnclosedBy[f] = Base
  BY DEF Flat
<1>3. g[Base] = b
  BY FileLayoutAssumption
<1> HIDE DEF b
<1>4. ASSUME NEW f \in Files
      PROVE  g[f] = Body(g)[f]
  <2>1. CASE f = Base
    BY <1>3, <2>1 DEF b
  <2>2. CASE f # Base
    <3>1. g[f] = [d \in Disks |-> [n \in Nat |-> Resized(Asserted(d, Reached(d, f)), Base, ElementOf(d, f), n, b)]]
      BY <2>2
    <3> HIDE DEF g
    <3> QED
      BY <1>2, <1>3, <2>2, <3>1
  <2> QED
    BY <2>1, <2>2
<1>5. g = Body(g)
  <2> DEFINE B == Body(g)
  <2>1. B = [f \in Files |-> B[f]] /\ g = [f \in Files |-> g[f]]
    OBVIOUS
  <2>2. \A f \in Files : g[f] = B[f]
    BY <1>4
  <2> HIDE DEF g, B
  <2>3. g = B
    BY <2>1, <2>2
  <2> QED
    BY <2>3 DEF B
<1> HIDE DEF g
<1>6. SetFileLength = Body(SetFileLength)
  <2> HIDE DEF Body
  <2> QED
    BY <1>1, <1>5
<1>7. ASSUME NEW h, h = Body(h), NEW f \in Files, NEW d \in Disks, NEW n \in Nat
      PROVE  /\ f = Base => h[f][d][n] = [d EXCEPT !.cells = Front0(d, n)]
             /\ f # Base => h[f][d][n] = Resized(Asserted(d, Reached(d, f)), Base, ElementOf(d, f), n, h[Base])
  <2>1. h[f] = [dd \in Disks |-> [nn \in Nat |->
                  IF f = Base THEN [dd EXCEPT !.cells = Front0(dd, nn)]
                  ELSE Resized(Asserted(dd, Reached(dd, f)), EnclosedBy[f], ElementOf(dd, f), nn, h[EnclosedBy[f]])]]
    <3>1. h = [ff \in Files |-> [dd \in Disks |-> [nn \in Nat |->
                  IF ff = Base THEN [dd EXCEPT !.cells = Front0(dd, nn)]
                  ELSE Resized(Asserted(dd, Reached(dd, ff)), EnclosedBy[ff], ElementOf(dd, ff), nn, h[EnclosedBy[ff]])]]]
      BY <1>7
    <3> QED
      BY <3>1, Zenon
  <2>2. h[f][d] = [nn \in Nat |->
                  IF f = Base THEN [d EXCEPT !.cells = Front0(d, nn)]
                  ELSE Resized(Asserted(d, Reached(d, f)), EnclosedBy[f], ElementOf(d, f), nn, h[EnclosedBy[f]])]
    BY <2>1
  <2>3. h[f][d][n] = IF f = Base THEN [d EXCEPT !.cells = Front0(d, n)]
                     ELSE Resized(Asserted(d, Reached(d, f)), EnclosedBy[f], ElementOf(d, f), n, h[EnclosedBy[f]])
    BY <2>2
  <2>4. f # Base => EnclosedBy[f] = Base
    BY <1>2
  <2> QED
    BY <2>3, <2>4
<1> HIDE DEF Body
<1> QED
  BY <1>6, <1>7

\* SetFileLength sets the length of any file.
LEMMA LengthsSet ==
    ASSUME Flat, NEW f \in Files
    PROVE  SetsLength(SetFileLength[f], f)
<1>1. Base \in Files
  BY FileLayoutAssumption
<1>2. SetsLength(SetFileLength[Base], Base)
  <2>1. ASSUME NEW d \in Disks, NEW n \in Nat
        PROVE  LengthSet(d, SetFileLength[Base][d][n], Base, n)
    <3>1. SetFileLength[Base][d][n] = [d EXCEPT !.cells = Front0(d, n)]
      BY <1>1, LengthFunctions
    <3> QED
      BY <3>1, BaseLength
  <2> QED
    BY <2>1 DEF SetsLength
<1>3. CASE f # Base
  <2>1. ASSUME NEW d \in Disks, NEW n \in Nat, Placed(d, f)
        PROVE  LengthSet(d, SetFileLength[f][d][n], f, n)
    <3> DEFINE g == SetFileLength[Base]
    <3>r. Asserted(d, Reached(d, f)) = d
      BY <2>1, Reaches, Sure
    <3>1. SetFileLength[f][d][n] = Resized(d, Base, ElementOf(d, f), n, g)
      BY <1>3, <3>r, LengthFunctions
    <3>2. SetsLength(g, Base)
      BY <1>2
    <3> HIDE DEF g
    <3>3. LengthSet(d, Resized(d, Base, ElementOf(d, f), n, g), f, n)
      BY <1>3, <2>1, <3>2, EmbeddedLength
    <3> QED
      BY <3>1, <3>3
  <2> QED
    BY <2>1 DEF SetsLength
<1> QED
  BY <1>2, <1>3

-----------------------------------------------------------------------------
(* Lists of entries.                                                       *)

\* Every entry of nx but x is in idx.
Lists(nx, idx, x) == \A j \in DOMAIN nx : nx[j] = x \/ (\E k \in DOMAIN idx : nx[j] = idx[k])

\* nx is idx with x somewhere in it.
OneAdded(idx, nx, x) ==
    /\ nx \in Seq(Entries) /\ Len(nx) = Len(idx) + 1 /\ Named(nx)
    /\ Lists(nx, idx, x) /\ Lists(idx, nx, x) /\ \E j \in DOMAIN nx : nx[j] = x

\* x is no longer in it.
OneRemoved(idx, nx, x) ==
    /\ nx \in Seq(Entries) /\ Len(nx) = Len(idx) - 1 /\ Named(nx)
    /\ Lists(idx, nx, x)
    /\ \A j \in DOMAIN nx : nx[j] # x /\ (\E k \in DOMAIN idx : nx[j] = idx[k])

\* The entries are in another order.
Reordered(idx, nx) ==
    /\ nx \in Seq(Entries) /\ Len(nx) = Len(idx) /\ Named(nx)
    /\ \A j \in DOMAIN nx : \E k \in DOMAIN idx : nx[j] = idx[k]
    /\ \A k \in DOMAIN idx : \E j \in DOMAIN nx : nx[j] = idx[k]

\* nx is idx with x in position i.
HasInserted(idx, nx, i, x) ==
    /\ Len(nx) = Len(idx) + 1 /\ nx[i] = x
    /\ \A j \in Nat : 1 <= j /\ j < i => nx[j] = idx[j]
    /\ \A j \in Nat : i < j /\ j <= Len(idx) + 1 => nx[j] = idx[j - 1]

\* InsertAt makes room for one element.
LEMMA InsertAtProperties ==
    ASSUME NEW S, NEW idx \in Seq(S), NEW i \in 1 .. Len(idx) + 1, NEW x \in S
    PROVE  InsertAt(idx, i, x) \in Seq(S) /\ HasInserted(idx, InsertAt(idx, i, x), i, x)
<1> DEFINE n == Len(idx)
           a == SubSeq(idx, 1, i - 1)
           b == <<x>>
           c == SubSeq(idx, i, n)
           ab == Cat(a, b)
           nx == Cat(ab, c)
<1>1. n \in Nat /\ \A j \in 1 .. n : idx[j] \in S
  BY LenProperties, ElementOfSeq
<1>2. a \in Seq(S) /\ Len(a) = i - 1 /\ \A j \in 1 .. i - 1 : a[j] = idx[j]
  BY <1>1, SubSeqProperties
<1>3. c \in Seq(S) /\ Len(c) = n + 1 - i /\ \A j \in 1 .. n + 1 - i : c[j] = idx[i + j - 1]
  BY <1>1, SubSeqProperties
<1>4. b \in Seq(S) /\ Len(b) = 1 /\ b[1] = x
  OBVIOUS
<1>a. a \in Seq(S)
  BY <1>2
<1>b. b \in Seq(S)
  BY <1>4
<1>c. c \in Seq(S)
  BY <1>3
<1>5. InsertAt(idx, i, x) = nx
  BY DEF InsertAt, Cat
<1> HIDE DEF a, b, c
<1>6. /\ ab \in Seq(S) /\ Len(ab) = Len(a) + Len(b)
      /\ \A j \in Nat : j >= 1 /\ j <= Len(a) => ab[j] = a[j]
      /\ \A j \in Nat : j > Len(a) /\ j <= Len(a) + Len(b) => ab[j] = b[j - Len(a)]
  BY <1>a, <1>b, Joined
<1>ab. ab \in Seq(S)
  BY <1>6
<1> HIDE DEF ab
<1>7. /\ nx \in Seq(S) /\ Len(nx) = Len(ab) + Len(c)
      /\ \A j \in Nat : j >= 1 /\ j <= Len(ab) => nx[j] = ab[j]
      /\ \A j \in Nat : j > Len(ab) /\ j <= Len(ab) + Len(c) => nx[j] = c[j - Len(ab)]
  BY <1>ab, <1>c, Joined
<1>i. i \in Nat /\ i >= 1 /\ i <= n + 1
  BY <1>1
<1> HIDE DEF nx, n
<1>8. Len(ab) = i /\ i \in Nat /\ i >= 1 /\ i <= n + 1
  BY <1>i, <1>2, <1>4, <1>6
<1>9. nx[i] = x
  <2>1. nx[i] = ab[i]
    BY <1>7, <1>8
  <2>2. ab[i] = b[i - Len(a)]
    BY <1>2, <1>4, <1>6, <1>8
  <2>3. i - Len(a) = 1
    BY <1>2, <1>8
  <2> QED
    BY <1>4, <2>1, <2>2, <2>3
<1>10. ASSUME NEW j \in Nat, 1 <= j, j < i
       PROVE  nx[j] = idx[j]
  <2>1. nx[j] = ab[j]
    BY <1>7, <1>8, <1>10
  <2>2. ab[j] = a[j]
    BY <1>2, <1>6, <1>8, <1>10
  <2>3. a[j] = idx[j]
    BY <1>2, <1>8, <1>10
  <2> QED
    BY <2>1, <2>2, <2>3
<1>11. ASSUME NEW j \in Nat, i < j, j <= n + 1
       PROVE  nx[j] = idx[j - 1]
  <2>1. nx[j] = c[j - i]
    <3>1. j > Len(ab) /\ j <= Len(ab) + Len(c)
      BY <1>1, <1>3, <1>8, <1>11
    <3>2. nx[j] = c[j - Len(ab)]
      BY <1>7, <3>1
    <3> QED
      BY <1>8, <3>2
  <2>2. j - i \in 1 .. n + 1 - i /\ i + (j - i) - 1 = j - 1
    BY <1>1, <1>8, <1>11
  <2>3. c[j - i] = idx[i + (j - i) - 1]
    BY <1>3, <2>2
  <2> QED
    BY <2>1, <2>2, <2>3
<1>12. Len(nx) = n + 1
  BY <1>1, <1>3, <1>7, <1>8
<1> QED
  BY <1>5, <1>7, <1>9, <1>10, <1>11, <1>12 DEF n, HasInserted

\* An entry that is inserted anywhere.
LEMMA AddedEntry ==
    ASSUME NEW idx \in Seq(Entries), Named(idx), NEW i \in 1 .. Len(idx) + 1, NEW x \in Entries,
           \A k \in DOMAIN idx : idx[k].id # x.id
    PROVE  OneAdded(idx, InsertAt(idx, i, x), x)
<1> DEFINE n  == Len(idx)
           nx == InsertAt(idx, i, x)
<1>1. /\ nx \in Seq(Entries) /\ Len(nx) = n + 1 /\ nx[i] = x
      /\ \A j \in Nat : 1 <= j /\ j < i => nx[j] = idx[j]
      /\ \A j \in Nat : i < j /\ j <= n + 1 => nx[j] = idx[j - 1]
  <2>1. nx \in Seq(Entries) /\ HasInserted(idx, nx, i, x)
    BY InsertAtProperties
  <2> QED
    BY <2>1 DEF HasInserted
<1>2. n \in Nat /\ DOMAIN idx = 1 .. n
  BY LenProperties
<1> HIDE DEF nx
<1>3. DOMAIN nx = 1 .. n + 1
  BY <1>1, LenProperties
<1>4. i \in Nat /\ i >= 1 /\ i <= n + 1
  BY <1>2
<1> HIDE DEF n
<1> DEFINE down(j) == IF j < i THEN j ELSE j - 1
<1>5. ASSUME NEW j \in DOMAIN nx, j # i
      PROVE  down(j) \in DOMAIN idx /\ nx[j] = idx[down(j)]
  <2>1. j \in Nat /\ 1 <= j /\ j <= n + 1
    BY <1>2, <1>3
  <2>2. CASE j < i
    BY <1>1, <1>2, <1>4, <2>1, <2>2
  <2>3. CASE j > i
    BY <1>1, <1>2, <1>4, <2>1, <2>3
  <2> QED
    BY <1>4, <1>5, <2>1, <2>2, <2>3
<1>6. Lists(nx, idx, x)
  BY <1>1, <1>5 DEF Lists
<1>7. Lists(idx, nx, x)
  <2>1. ASSUME NEW k \in DOMAIN idx
        PROVE  \E j \in DOMAIN nx : idx[k] = nx[j]
    <3>1. k \in Nat /\ 1 <= k /\ k <= n
      BY <1>2
    <3>2. CASE k < i
      <4>1. nx[k] = idx[k] /\ k \in DOMAIN nx
        BY <1>1, <1>2, <1>3, <3>1, <3>2
      <4> QED
        BY <4>1
    <3>3. CASE k >= i
      <4>1. k + 1 \in Nat /\ i < k + 1 /\ k + 1 <= n + 1 /\ k + 1 - 1 = k /\ k + 1 \in DOMAIN nx
        BY <1>2, <1>3, <1>4, <3>1, <3>3
      <4>2. nx[k + 1] = idx[k]
        BY <1>1, <4>1
      <4> QED
        BY <4>1, <4>2
    <3> QED
      BY <1>4, <3>1, <3>2, <3>3
  <2> QED
    BY <2>1 DEF Lists
<1>8. \E j \in DOMAIN nx : nx[j] = x
  <2>1. i \in DOMAIN nx
    BY <1>2, <1>3, <1>4
  <2> QED
    BY <1>1, <2>1
<1>9. Named(nx)
  <2>1. ASSUME NEW j \in DOMAIN nx, NEW k \in DOMAIN nx, nx[j].id = nx[k].id
        PROVE  j = k
    <3>1. j = i => k = i
      BY <1>1, <1>5, <2>1
    <3>2. k = i => j = i
      BY <1>1, <1>5, <2>1
    <3>3. CASE j # i /\ k # i
      <4>1. down(j) = down(k)
        BY <1>5, <2>1, <3>3 DEF Named
      <4>2. j \in Nat /\ k \in Nat
        BY <1>2, <1>3
      <4> QED
        BY <1>4, <3>3, <4>1, <4>2
    <3> QED
      BY <3>1, <3>2, <3>3
  <2> QED
    BY <2>1 DEF Named
<1> QED
  BY <1>1, <1>6, <1>7, <1>8, <1>9 DEF OneAdded, n, nx

\* An entry that is removed.
LEMMA RemovedEntry ==
    ASSUME NEW idx \in Seq(Entries), Named(idx), NEW i \in DOMAIN idx
    PROVE  OneRemoved(idx, RemoveAt(idx, i), idx[i])
<1> DEFINE n  == Len(idx)
           nx == RemoveAt(idx, i)
<1>1. n \in Nat /\ DOMAIN idx = 1 .. n
  BY LenProperties
<1>2. i \in 1 .. Len(idx)
  BY <1>1
<1>3. nx \in Seq(Entries) /\ Len(nx) = n - 1 /\ \A j \in 1 .. n - 1 : nx[j] = IF j < i THEN idx[j] ELSE idx[j + 1]
  BY <1>2, RemoveAtProperties
<1>i. i \in Nat /\ 1 <= i /\ i <= n
  BY <1>1
<1> HIDE DEF n, nx
<1>4. DOMAIN nx = 1 .. n - 1
  BY <1>3, LenProperties
<1> DEFINE up(j) == IF j < i THEN j ELSE j + 1
<1>5. ASSUME NEW j \in DOMAIN nx
      PROVE  up(j) \in DOMAIN idx /\ nx[j] = idx[up(j)] /\ up(j) # i
  BY <1>1, <1>3, <1>4, <1>i
<1>6. \A j \in DOMAIN nx : nx[j] # idx[i] /\ (\E k \in DOMAIN idx : nx[j] = idx[k])
  <2>1. ASSUME NEW j \in DOMAIN nx, nx[j] = idx[i]
        PROVE  FALSE
    BY <1>5, <2>1 DEF Named
  <2> QED
    BY <1>5, <2>1
<1>7. Lists(idx, nx, idx[i])
  <2>1. ASSUME NEW k \in DOMAIN idx, k # i
        PROVE  \E j \in DOMAIN nx : idx[k] = nx[j]
    <3>1. k \in Nat /\ 1 <= k /\ k <= n
      BY <1>1
    <3>2. CASE k < i
      <4>1. k \in 1 .. n - 1 /\ nx[k] = idx[k]
        BY <1>1, <1>3, <1>i, <3>1, <3>2
      <4> QED
        BY <1>4, <4>1
    <3>3. CASE k > i
      <4>1. k - 1 \in 1 .. n - 1 /\ ~ (k - 1 < i) /\ k - 1 + 1 = k
        BY <1>1, <1>i, <3>1, <3>3
      <4>2. nx[k - 1] = idx[k]
        BY <1>3, <4>1
      <4> QED
        BY <1>4, <4>1, <4>2
    <3> QED
      BY <1>i, <2>1, <3>1, <3>2, <3>3
  <2> QED
    BY <2>1 DEF Lists
<1>8. Named(nx)
  <2>1. ASSUME NEW j \in DOMAIN nx, NEW k \in DOMAIN nx, nx[j].id = nx[k].id
        PROVE  j = k
    <3>1. up(j) = up(k)
      BY <1>5, <2>1 DEF Named
    <3>2. j \in Nat /\ k \in Nat
      BY <1>1, <1>4
    <3> QED
      BY <1>i, <3>1, <3>2
  <2> QED
    BY <2>1 DEF Named
<1> QED
  BY <1>3, <1>6, <1>7, <1>8 DEF OneRemoved, n, nx

\* MoveElementToIndex only changes the order.
LEMMA MovedEntry ==
    ASSUME NEW idx \in Seq(Entries), Named(idx), NEW i \in DOMAIN idx, NEW j \in DOMAIN idx
    PROVE  Reordered(idx, InsertAt(RemoveAt(idx, i), j, idx[i]))
<1> DEFINE x  == idx[i]
           rx == RemoveAt(idx, i)
           nx == InsertAt(rx, j, x)
<1>1. OneRemoved(idx, rx, x)
  BY RemovedEntry
<1>2. Len(idx) \in Nat /\ DOMAIN idx = 1 .. Len(idx) /\ x \in Entries
  BY LenProperties, ElementOfSeq
<1> HIDE DEF rx
<1>3. rx \in Seq(Entries) /\ Named(rx) /\ Len(rx) = Len(idx) - 1
  BY <1>1 DEF OneRemoved
<1>4. j \in 1 .. Len(rx) + 1
  BY <1>2, <1>3
<1>5. \A k \in DOMAIN rx : rx[k].id # x.id
  <2>1. ASSUME NEW k \in DOMAIN rx, rx[k].id = x.id
        PROVE  FALSE
    <3>1. PICK m \in DOMAIN idx : rx[k] = idx[m] /\ rx[k] # x
      BY <1>1 DEF OneRemoved
    <3> QED
      BY <2>1, <3>1 DEF Named
  <2> QED
    BY <2>1
<1>6. OneAdded(rx, nx, x)
  <2>1. x \in Entries
    BY <1>2
  <2> HIDE DEF x
  <2> QED
    BY <1>3, <1>4, <1>5, <2>1, AddedEntry
<1>x. i \in DOMAIN idx /\ x = idx[i]
  OBVIOUS
<1> HIDE DEF nx, x
<1>7. nx \in Seq(Entries) /\ Named(nx) /\ Len(nx) = Len(idx)
  BY <1>2, <1>3, <1>6 DEF OneAdded
<1>8. \A k \in DOMAIN nx : \E m \in DOMAIN idx : nx[k] = idx[m]
  <2>1. ASSUME NEW k \in DOMAIN nx
        PROVE  \E m \in DOMAIN idx : nx[k] = idx[m]
    <3>1. nx[k] = x \/ (\E m \in DOMAIN rx : nx[k] = rx[m])
      BY <1>6 DEF OneAdded, Lists
    <3> QED
      BY <1>1, <1>x, <3>1 DEF OneRemoved
  <2> QED
    BY <2>1
<1>9. \A k \in DOMAIN idx : \E m \in DOMAIN nx : nx[m] = idx[k]
  <2>1. ASSUME NEW k \in DOMAIN idx
        PROVE  \E m \in DOMAIN nx : nx[m] = idx[k]
    <3>1. idx[k] = x \/ (\E m \in DOMAIN rx : idx[k] = rx[m])
      BY <1>1 DEF OneRemoved, Lists
    <3>2. CASE idx[k] = x
      BY <1>6, <3>2 DEF OneAdded
    <3>3. ASSUME NEW m \in DOMAIN rx, idx[k] = rx[m]
          PROVE  \E l \in DOMAIN nx : nx[l] = idx[k]
      BY <1>6, <3>3 DEF OneAdded, Lists
    <3> QED
      BY <3>1, <3>2, <3>3
  <2> QED
    BY <2>1
<1> QED
  BY <1>7, <1>8, <1>9 DEF Reordered, nx, rx, x

\* SwapElements only changes the order.
LEMMA SwappedEntries ==
    ASSUME NEW idx \in Seq(Entries), Named(idx), NEW i \in DOMAIN idx, NEW j \in DOMAIN idx, i # j,
           NEW nx, nx = [idx EXCEPT ![i] = idx[j], ![j] = idx[i]]
    PROVE  Reordered(idx, nx)
<1>1. Len(idx) \in Nat /\ DOMAIN idx = 1 .. Len(idx) /\ \A k \in DOMAIN idx : idx[k] \in Entries
  BY LenProperties, ElementOfSeq
<1>2. DOMAIN nx = DOMAIN idx /\ nx \in [1 .. Len(idx) -> Entries]
  BY <1>1
<1>3. nx \in Seq(Entries) /\ Len(nx) = Len(idx)
  BY <1>1, <1>2, FunctionIsSeq
<1>4. nx[i] = idx[j] /\ nx[j] = idx[i] /\ \A k \in DOMAIN idx : k # i /\ k # j => nx[k] = idx[k]
  OBVIOUS
<1>5. Named(nx)
  BY <1>2, <1>4 DEF Named
<1> QED
  BY <1>2, <1>3, <1>4, <1>5 DEF Reordered

-----------------------------------------------------------------------------
(* Operations on the elements of a file.                                   *)

\* Element j of e is element i of d.
SameElement(d, e, f, i, j) ==
    /\ e.index[f][j].id = d.index[f][i].id /\ e.index[f][j].type = d.index[f][i].type
    /\ Copied(d, StartOf(d, f) + Off(d, f, i), e, StartOf(e, f) + Off(e, f, j))

\* Every element of e that holds a file is one of d.
Descends(d, e, f) ==
    \A j \in DOMAIN e.index[f] : e.index[f][j].type = "file" =>
        \E i \in DOMAIN d.index[f] : SameElement(d, e, f, i, j)

\* Every element of d but x is in e.
Remains(d, e, f, x) ==
    \A i \in DOMAIN d.index[f] : i # x => \E j \in DOMAIN e.index[f] : SameElement(d, e, f, i, j)

\* e is what an operation on the elements of f that changes or removes x makes of d.
Made(d, e, f, x) == Within(d, e, f) /\ FileOK(e, f) /\ Descends(d, e, f) /\ Remains(d, e, f, x)

\* An element that is the same after two operations.
LEMMA SameAgain ==
    ASSUME Flat, NEW d \in Disks, NEW f \in Files, Placed(d, f), FileOK(d, f),
           NEW e \in Disks, Placed(e, f), FileOK(e, f), NEW w \in Disks, Placed(w, f),
           NEW i \in DOMAIN d.index[f], NEW j \in DOMAIN e.index[f], NEW k \in DOMAIN w.index[f],
           SameElement(d, e, f, i, j), SameElement(e, w, f, j, k)
    PROVE  SameElement(d, w, f, i, k)
<1> DEFINE a == StartOf(d, f) + Off(d, f, i)
           b == StartOf(e, f) + Off(e, f, j)
           c == StartOf(w, f) + Off(w, f, k)
<1>1. StartOf(d, f) \in Nat /\ StartOf(e, f) \in Nat /\ StartOf(w, f) \in Nat
  BY PlaceType
<1>2. /\ Off(d, f, i) \in Nat /\ SizeAt(d, a) \in Nat /\ Off(e, f, j) \in Nat
  <2> DEFINE s == StartOf(d, f)
             t == StartOf(e, f)
  <2>1. s \in Nat /\ t \in Nat
    BY <1>1
  <2> QED
    BY <2>1, FileElement
<1>3. Off(w, f, k) \in Nat
  BY IndexType
<1>4. a \in Nat /\ b \in Nat /\ c \in Nat
  BY <1>1, <1>2, <1>3
<1>5. Copied(d, a, e, b) /\ Copied(e, b, w, c)
  BY DEF SameElement
<1>6. SizeAt(d, a) \in Nat
  BY <1>2
<1> HIDE DEF a, b, c
<1>7. Copied(d, a, w, c)
  BY <1>4, <1>5, <1>6, CopiedAgain
<1> QED
  BY <1>7 DEF SameElement, a, c

\* One operation after another.
LEMMA MadeAgain ==
    ASSUME Flat, NEW d \in Disks, NEW f \in Files, Placed(d, f), FileOK(d, f), NEW x,
           NEW e, Made(d, e, f, x), NEW w, Made(e, w, f, 0)
    PROVE  Made(d, w, f, x)
<1>1. /\ Within(d, e, f) /\ FileOK(e, f) /\ Descends(d, e, f) /\ Remains(d, e, f, x)
      /\ Within(e, w, f) /\ FileOK(w, f) /\ Descends(e, w, f) /\ Remains(e, w, f, 0)
  BY DEF Made
<1>2. Within(d, w, f)
  BY <1>1, WithinAgain
<1>3. e \in Disks /\ Placed(e, f) /\ w \in Disks /\ Placed(w, f)
  BY <1>1 DEF Within
<1>4. Descends(d, w, f)
  <2>1. ASSUME NEW k \in DOMAIN w.index[f], w.index[f][k].type = "file"
        PROVE  \E i \in DOMAIN d.index[f] : SameElement(d, w, f, i, k)
    <3>1. PICK j \in DOMAIN e.index[f] : SameElement(e, w, f, j, k)
      BY <1>1, <2>1 DEF Descends
    <3>2. e.index[f][j].type = "file"
      BY <2>1, <3>1 DEF SameElement
    <3>3. PICK i \in DOMAIN d.index[f] : SameElement(d, e, f, i, j)
      BY <1>1, <3>2 DEF Descends
    <3>4. SameElement(d, w, f, i, k)
      BY <1>1, <1>3, <3>1, <3>3, SameAgain
    <3> QED
      BY <3>4
  <2> QED
    BY <2>1 DEF Descends
<1>5. Remains(d, w, f, x)
  <2>1. ASSUME NEW i \in DOMAIN d.index[f], i # x
        PROVE  \E k \in DOMAIN w.index[f] : SameElement(d, w, f, i, k)
    <3>1. PICK j \in DOMAIN e.index[f] : SameElement(d, e, f, i, j)
      BY <1>1, <2>1 DEF Remains
    <3>2. j # 0
      BY <1>3, IndexType
    <3>3. PICK k \in DOMAIN w.index[f] : SameElement(e, w, f, j, k)
      BY <1>1, <3>2 DEF Remains
    <3>4. SameElement(d, w, f, i, k)
      BY <1>1, <1>3, <3>1, <3>3, SameAgain
    <3> QED
      BY <3>4
  <2> QED
    BY <2>1 DEF Remains
<1> QED
  BY <1>1, <1>2, <1>4, <1>5 DEF Made

\* A list of laid elements is laid.
LEMMA LaidList ==
    ASSUME NEW d, NEW s, NEW idx, NEW n, Laid(d, s, idx, n), NEW nx, Named(nx),
           \A j \in DOMAIN nx : \E k \in DOMAIN idx : nx[j] = idx[k]
    PROVE  Laid(d, s, nx, n)
<1>1. n >= 1
  BY DEF Laid
<1>2. ASSUME NEW i \in DOMAIN nx
      PROVE  /\ nx[i].offset >= 1 /\ IsSize(d, s + nx[i].offset)
             /\ nx[i].offset + 1 + SizeAt(d, s + nx[i].offset) <= n
  <2>1. PICK k \in DOMAIN idx : nx[i] = idx[k]
    OBVIOUS
  <2> QED
    BY <2>1 DEF Laid
<1>3. ASSUME NEW i \in DOMAIN nx, NEW j \in DOMAIN nx
      PROVE  /\ nx[i].offset = nx[j].offset => i = j
             /\ nx[i].offset < nx[j].offset =>
                   nx[i].offset + 1 + SizeAt(d, s + nx[i].offset) <= nx[j].offset
  <2>1. PICK k \in DOMAIN idx : nx[i] = idx[k]
    OBVIOUS
  <2>2. PICK l \in DOMAIN idx : nx[j] = idx[l]
    OBVIOUS
  <2>3. /\ idx[k].offset = idx[l].offset => k = l
        /\ idx[k].offset < idx[l].offset => idx[k].offset + 1 + SizeAt(d, s + idx[k].offset) <= idx[l].offset
    BY DEF Laid
  <2>4. k = l => i = j
    BY <2>1, <2>2 DEF Named
  <2> QED
    BY <2>1, <2>2, <2>3, <2>4
<1> QED
  BY <1>1, <1>2, <1>3 DEF Laid

\* A disk with another index and end of a file.
Indexed(d, f, nx, n) == [d EXCEPT !.index[f] = nx, !.end[f] = n]

\* Only the index and its place are new.
LEMMA NewIndex ==
    ASSUME NEW d \in Disks, NEW f \in Files, NEW nx \in Seq(Entries), NEW n \in Nat
    PROVE  LET e == Indexed(d, f, nx, n)
           IN  Relisted(d, e, f) /\ e.index[f] = nx /\ e.end[f] = n /\ e.ok = d.ok
<1> DEFINE e == Indexed(d, f, nx, n)
<1>e. e = [d EXCEPT !.index[f] = nx, !.end[f] = n]
  BY DEF Indexed
<1> HIDE DEF e
<1>1. e.index = [d.index EXCEPT ![f] = nx] /\ e.end = [d.end EXCEPT ![f] = n]
  BY <1>e DEF Disks
<1>2. e.cells = d.cells /\ e.ok = d.ok
  BY <1>e DEF Disks
<1>3. d.index \in [Files -> Seq(Entries)] /\ d.end \in [Files -> Nat]
  BY DEF Disks
<1>4. e.index \in [Files -> Seq(Entries)] /\ e.end \in [Files -> Nat]
  BY <1>1, <1>3
<1>5. e \in Disks
  BY <1>e, <1>2, <1>4 DEF Disks
<1> QED
  BY <1>1, <1>2, <1>3, <1>5 DEF Relisted, e

\* MoveElementToIndex and SwapElements.
LEMMA ReorderedMade ==
    ASSUME Flat, NEW d \in Disks, NEW f \in Files, Placed(d, f), FileOK(d, f),
           NEW nx, Reordered(d.index[f], nx), NEW e, e = [d EXCEPT !.index[f] = nx]
    PROVE  Made(d, e, f, 0)
<1> DEFINE s == StartOf(d, f)
<1>1. nx \in Seq(Entries) /\ Named(nx) /\ Len(nx) = Len(d.index[f])
  BY DEF Reordered
<1>2. d.end[f] \in Nat
  BY IndexType
<1>3. e = [d EXCEPT !.index[f] = nx, !.end[f] = d.end[f]]
  <2>1. d.end = [d.end EXCEPT ![f] = d.end[f]]
    BY DEF Disks
  <2>2. [d EXCEPT !.index[f] = nx, !.end[f] = d.end[f]] = [e EXCEPT !.end = [d.end EXCEPT ![f] = d.end[f]]]
    BY DEF Disks
  <2>3. e = [e EXCEPT !.end = d.end]
    BY DEF Disks
  <2> QED
    BY <2>1, <2>2, <2>3
<1>4. Relisted(d, e, f) /\ e.index[f] = nx /\ e.end[f] = d.end[f]
  <2> DEFINE n == d.end[f]
  <2>1. nx \in Seq(Entries) /\ n \in Nat /\ e = Indexed(d, f, nx, n)
    BY <1>1, <1>2, <1>3 DEF Indexed
  <2> HIDE DEF n
  <2> DEFINE w == Indexed(d, f, nx, n)
  <2>3. Relisted(d, w, f) /\ w.index[f] = nx /\ w.end[f] = n
    BY <2>1, NewIndex
  <2> HIDE DEF w
  <2>2. Relisted(d, e, f) /\ e.index[f] = nx /\ e.end[f] = n
    BY <2>1, <2>3 DEF w
  <2> QED
    BY <2>2 DEF n
<1>5. /\ Within(d, e, f) /\ StartOf(e, f) = s /\ LengthOf(e, f) = LengthOf(d, f)
      /\ \A k : Cell(e, k) = Cell(d, k)
  BY <1>4, RelistedKeeps
<1> HIDE DEF s
<1>6. Laid(d, s, d.index[f], d.end[f]) /\ LengthOf(d, f) = d.end[f] + Len(d.index[f])
  BY DEF FileOK, s
<1>7. Laid(d, s, nx, d.end[f])
  <2>1. \A j \in DOMAIN nx : \E k \in DOMAIN d.index[f] : nx[j] = d.index[f][k]
    BY DEF Reordered
  <2> QED
    BY <1>1, <1>6, <2>1, LaidList
<1>8. Laid(e, s, nx, d.end[f])
  BY <1>5, <1>7, LaidKept
<1>9. FileOK(e, f)
  BY <1>1, <1>4, <1>5, <1>6, <1>8 DEF FileOK
<1>10. ASSUME NEW i \in DOMAIN d.index[f], NEW j \in DOMAIN nx, nx[j] = d.index[f][i]
       PROVE  SameElement(d, e, f, i, j)
  BY <1>4, <1>5, <1>10 DEF SameElement, Off, Copied, s
<1>11. Descends(d, e, f)
  BY <1>4, <1>10 DEF Descends, Reordered
<1>12. Remains(d, e, f, 0)
  BY <1>4, <1>10 DEF Remains, Reordered
<1> QED
  BY <1>5, <1>9, <1>11, <1>12 DEF Made

\* A file with index idx behind its elements, which end at n.
Formed(d, s, idx, n) ==
    /\ Cell(d, s) = <<"header", Len(idx), n>>
    /\ \A k \in Nat : k < Len(idx) => Cell(d, s + n + k) = <<"entry", idx[k + 1]>>

\* FlushChanges writes the header and the index and changes nothing else.
LEMMA FlushMade ==
    ASSUME Flat, NEW d \in Disks, NEW f \in Files, Placed(d, f), FileOK(d, f)
    PROVE  LET e == Flush(d, f)
           IN  /\ Made(d, e, f, 0) /\ Inside(d, e, f)
               /\ Formed(e, StartOf(d, f), d.index[f], d.end[f])
<1> DEFINE s   == StartOf(d, f)
           idx == d.index[f]
           n   == d.end[f]
           h   == <<<<"header", Len(idx), n>>>>
           b   == [i \in DOMAIN idx |-> <<"entry", idx[i]>>]
           w   == WriteCells(d, f, 0, h)
           e   == WriteCells(w, f, n, b)
<1>1. /\ s \in Nat /\ idx \in Seq(Entries) /\ Len(idx) \in Nat /\ DOMAIN idx = 1 .. Len(idx) /\ n \in Nat
      /\ \A i \in DOMAIN idx : idx[i] \in Entries
  BY PlaceType, IndexType
<1>2. Flush(d, f) = e
  BY DEF Flush
<1>3. /\ Laid(d, s, idx, n) /\ Named(idx) /\ LengthOf(d, f) = n + Len(idx)
  BY DEF FileOK
<1>4. n >= 1
  BY <1>3 DEF Laid
<1>5. h \in Seq(Cells) /\ Len(h) = 1 /\ h[1] = <<"header", Len(idx), n>>
  <2>1. <<"header", Len(idx), n>> \in Cells
    BY <1>1 DEF Cells
  <2> QED
    BY <2>1
<1>6. b \in Seq(Cells) /\ Len(b) = Len(idx) /\ \A i \in DOMAIN idx : b[i] = <<"entry", idx[i]>>
  <2>1. \A i \in DOMAIN idx : <<"entry", idx[i]>> \in Cells
    BY <1>1 DEF Cells
  <2>2. b \in [1 .. Len(idx) -> Cells]
    BY <1>1, <2>1
  <2>3. \A i \in DOMAIN idx : b[i] = <<"entry", idx[i]>>
    OBVIOUS
  <2> HIDE DEF b, idx
  <2>4. b \in Seq(Cells) /\ Len(b) = Len(idx)
    BY <1>1, <2>2, FunctionIsSeq
  <2> QED
    BY <2>3, <2>4
<1>s. StartOf(d, f) = s
  OBVIOUS
<1> HIDE DEF s, h, b
<1>7. Inside(d, w, f) /\ Filled(w, s + 0, h) /\ SameBut(d, w, s, 0, 0 + Len(h))
  <2>1. 0 \in Nat /\ 0 + Len(h) <= LengthOf(d, f) /\ h \in Seq(Cells)
    BY <1>1, <1>3, <1>4, <1>5
  <2> QED
    BY <1>1, <1>s, <2>1, WriteInside
<1> HIDE DEF w
<1>8. /\ w \in Disks /\ Placed(w, f) /\ StartOf(w, f) = s /\ LengthOf(w, f) = LengthOf(d, f)
  <2>1. Within(d, w, f) /\ StartOf(w, f) = StartOf(d, f) /\ LengthOf(w, f) = LengthOf(d, f)
    BY <1>7, InsideKeeps
  <2> QED
    BY <1>s, <2>1 DEF Within
<1>9. Inside(w, e, f) /\ Filled(e, s + n, b) /\ SameBut(w, e, s, n, n + Len(b))
  <2>1. n \in Nat /\ n + Len(b) <= LengthOf(w, f) /\ b \in Seq(Cells)
    BY <1>1, <1>3, <1>6, <1>8
  <2> HIDE DEF n
  <2> QED
    BY <1>1, <1>8, <2>1, WriteInside
<1> HIDE DEF e
<1>10. Inside(d, e, f)
  BY <1>7, <1>9, InsideAgain
<1>11. /\ Within(d, e, f) /\ StartOf(e, f) = s /\ LengthOf(e, f) = LengthOf(d, f)
  BY <1>s, <1>10, InsideKeeps
<1>12. e.index = d.index /\ e.end = d.end
  BY <1>10 DEF Inside
\* The header and the index.
<1>13. Cell(e, s) = <<"header", Len(idx), n>>
  <2>1. Cell(w, s + 0) = h[0 + 1]
    <3>1. 0 \in Nat /\ 0 < Len(h)
      BY <1>5
    <3>2. Cell(w, s + 0 + 0) = h[0 + 1]
      BY <1>7, <3>1 DEF Filled
    <3>3. s + 0 + 0 = s + 0
      BY <1>1
    <3> QED
      BY <3>2, <3>3
  <2>2. Cell(e, s + 0) = Cell(w, s + 0)
    BY <1>1, <1>4, <1>9 DEF SameBut
  <2>3. s + 0 = s /\ 0 + 1 = 1
    BY <1>1
  <2> QED
    BY <1>5, <2>1, <2>2, <2>3
<1>14. ASSUME NEW k \in Nat, k < Len(idx)
       PROVE  Cell(e, s + n + k) = <<"entry", idx[k + 1]>>
  <2>1. k + 1 \in DOMAIN idx
    BY <1>1, <1>14
  <2> QED
    BY <1>6, <1>9, <1>14, <2>1 DEF Filled
<1>15. Formed(e, s, idx, n)
  BY <1>13, <1>14 DEF Formed
\* The elements.
<1>16. ASSUME NEW k \in Nat, 1 <= k, k < n
       PROVE  Cell(e, s + k) = Cell(d, s + k)
  <2>1. Cell(w, s + k) = Cell(d, s + k)
    BY <1>5, <1>7, <1>16 DEF SameBut
  <2>2. Cell(e, s + k) = Cell(w, s + k)
    BY <1>9, <1>16 DEF SameBut
  <2> QED
    BY <2>1, <2>2
<1>17. ASSUME NEW i \in DOMAIN idx
       PROVE  /\ Copied(d, s + idx[i].offset, e, s + idx[i].offset)
              /\ Cell(e, s + idx[i].offset) = Cell(d, s + idx[i].offset)
  <2> DEFINE p == idx[i].offset
             m == SizeAt(d, s + p)
  <2>1. p \in Nat /\ p >= 1 /\ p + 1 + m <= n /\ m \in Nat
    <3>1. p \in Nat
      BY <1>1 DEF Entries
    <3>2. p >= 1 /\ IsSize(d, s + p) /\ p + 1 + m <= n
      BY <1>3 DEF Laid
    <3> QED
      BY <3>1, <3>2, SizeType
  <2>m. m = SizeAt(d, s + p)
    OBVIOUS
  <2> HIDE DEF p, m
  <2>2. ASSUME NEW k \in Nat, k <= m
        PROVE  Cell(e, s + p + k) = Cell(d, s + p + k)
    <3>1. p + k \in Nat /\ 1 <= p + k /\ p + k < n /\ s + (p + k) = s + p + k
      BY <1>1, <2>1, <2>2
    <3> QED
      BY <1>16, <3>1
  <2>3. Copied(d, s + p, e, s + p)
    BY <2>2, <2>m DEF Copied
  <2>4. 1 <= p /\ p < n
    BY <1>1, <2>1
  <2>5. Cell(e, s + p) = Cell(d, s + p)
    BY <1>16, <2>1, <2>4
  <2> QED
    BY <2>3, <2>5 DEF p
<1>18. Laid(e, s, idx, n)
  BY <1>3, <1>17, LaidKept
<1>19. FileOK(e, f)
  BY <1>3, <1>11, <1>12, <1>18 DEF FileOK
<1>20. \A i \in DOMAIN idx : SameElement(d, e, f, i, i)
  BY <1>11, <1>12, <1>17, <1>s DEF SameElement, Off
<1>21. Descends(d, e, f) /\ Remains(d, e, f, 0)
  BY <1>12, <1>20 DEF Descends, Remains
<1>22. Made(d, e, f, 0)
  BY <1>11, <1>19, <1>21 DEF Made
<1> QED
  BY <1>2, <1>10, <1>15, <1>22 DEF s

\* GetUniqueID gives an ID that no element has.
LEMMA UniqueIDs ==
    ASSUME NEW d \in Disks, NEW f \in Files
    PROVE  UniqueID(d, f) \in Nat /\ \A i \in DOMAIN d.index[f] : d.index[f][i].id # UniqueID(d, f)
<1> DEFINE idx == d.index[f]
           n   == Len(idx)
           I   == {id \in n + 1 .. 2 * n + 1 : IDToIndex(d, f, id) = {}}
<1>1. n \in Nat /\ DOMAIN idx = 1 .. n /\ \A i \in DOMAIN idx : idx[i].id \in Nat
  BY IndexType
<1>2. UniqueID(d, f) = IF idx = <<>> THEN 1 ELSE Min(I)
  BY DEF UniqueID
<1>3. CASE idx = <<>>
  <2>1. n = 0
    BY <1>3
  <2>2. DOMAIN idx = {}
    BY <1>1, <2>1
  <2> QED
    BY <1>2, <1>3, <2>2
<1>4. CASE idx # <<>>
  <2>1. I \in SUBSET Nat
    BY <1>1
  <2>2. I # {}
    <3> SUFFICES ASSUME \A id \in n + 1 .. 2 * n + 1 : IDToIndex(d, f, id) # {}
                 PROVE  FALSE
      OBVIOUS
    <3> DEFINE S == n + 1 .. 2 * n + 1
               T == 1 .. n
               g == [id \in S |-> CHOOSE i \in IDToIndex(d, f, id) : TRUE]
    <3>1. ASSUME NEW id \in S
          PROVE  g[id] \in T /\ idx[g[id]].id = id
      <4>1. g[id] \in IDToIndex(d, f, id)
        OBVIOUS
      <4> QED
        BY <1>1, <4>1 DEF IDToIndex
    <3>2. IsFiniteSet(T) /\ Cardinality(T) = IF 1 > n THEN 0 ELSE n - 1 + 1
      <4>1. 1 \in Int /\ n \in Int
        BY <1>1
      <4> HIDE DEF n
      <4> QED
        BY <4>1, FS_Interval
    <3>3. IsFiniteSet(S) /\ Cardinality(S) = IF n + 1 > 2 * n + 1 THEN 0 ELSE 2 * n + 1 - (n + 1) + 1
      <4> DEFINE lo == n + 1
                 hi == 2 * n + 1
      <4>1. lo \in Int /\ hi \in Int
        BY <1>1
      <4> HIDE DEF lo, hi
      <4>2. IsFiniteSet(lo .. hi) /\ Cardinality(lo .. hi) = IF lo > hi THEN 0 ELSE hi - lo + 1
        BY <4>1, FS_Interval
      <4> QED
        BY <4>2 DEF lo, hi
    <3>4. Cardinality(T) < Cardinality(S)
      <4> HIDE DEF S, T, n
      <4> QED
        BY <1>1, <3>2, <3>3
    <3>5. g \in [S -> T]
      BY <3>1
    <3> HIDE DEF g, S, T
    <3>6. \E x, y \in S : x # y /\ g[x] = g[y]
      BY <3>2, <3>3, <3>4, <3>5, FS_PigeonHole
    <3> QED
      BY <3>1, <3>6
  <2> HIDE DEF I
  <2>3. Min(I) \in I
    BY <2>1, <2>2, LeastOf
  <2>4. UniqueID(d, f) \in I
    BY <1>2, <1>4, <2>3
  <2>5. IDToIndex(d, f, UniqueID(d, f)) = {}
    BY <2>4 DEF I
  <2> QED
    BY <2>1, <2>4, <2>5 DEF IDToIndex
<1> QED
  BY <1>3, <1>4

\* Data that can be stored.
Storable(x) == Len(x) \in Nat /\ Bytes(x) \in Seq(Cells) /\ Len(Bytes(x)) = Len(x)

\* Sequences of bytes can be stored.
LEMMA StorableBytes ==
    ASSUME NEW S, NEW x \in Seq(S), \A y \in S : <<"byte", y>> \in Cells
    PROVE  Storable(x)
<1> DEFINE g == [k \in DOMAIN x |-> <<"byte", x[k]>>]
<1>1. Len(x) \in Nat /\ DOMAIN x = 1 .. Len(x) /\ \A k \in DOMAIN x : x[k] \in S
  BY LenProperties, ElementOfSeq
<1>2. g \in [1 .. Len(x) -> Cells]
  BY <1>1
<1>3. Bytes(x) = <<>> \o g
  BY DEF Bytes
<1> HIDE DEF g
<1>4. g \in Seq(Cells) /\ Len(g) = Len(x)
  BY <1>1, <1>2, FunctionIsSeq
<1>5. Bytes(x) = g
  BY <1>3, <1>4, ConcatEmptySeq
<1> QED
  BY <1>1, <1>4, <1>5 DEF Storable

\* So can the data, and the byte of a new embedded file.
LEMMA StorableData ==
    /\ \A x \in Data : Storable(x)
    /\ Storable(<<0>>)
<1>1. ASSUME NEW x \in Data
      PROVE  Storable(x)
  <2>1. x \in Seq(Range(x))
    BY FileLayoutAssumption
  <2>2. \A y \in Range(x) : <<"byte", y>> \in Cells
    <3>1. Range(x) \subseteq UNION {Range(z) : z \in Data}
      OBVIOUS
    <3> QED
      BY <3>1 DEF Cells
  <2> QED
    BY <2>1, <2>2, StorableBytes
<1>2. Storable(<<0>>)
  <2> DEFINE S == {0}
             x == <<0>>
  <2>1. x \in Seq(S) /\ \A y \in S : <<"byte", y>> \in Cells
    BY DEF Cells
  <2> HIDE DEF S, x
  <2>2. Storable(x)
    BY <2>1, StorableBytes
  <2> QED
    BY <2>2 DEF x
<1> QED
  BY <1>1, <1>2

\* What is written for an element: its size and its data.
ElementCells(x) == <<<<"size", Len(x)>>>> \o Bytes(x)

\* An element is its size and its data.
LEMMA StoredCells ==
    ASSUME NEW x, Storable(x)
    PROVE  /\ ElementCells(x) \in Seq(Cells) /\ Len(ElementCells(x)) = 1 + Len(x) /\ ElementCells(x)[1] = <<"size", Len(x)>>
<1> DEFINE h == <<<<"size", Len(x)>>>>
           b == Bytes(x)
<1>1. Len(x) \in Nat /\ b \in Seq(Cells) /\ Len(b) = Len(x)
  BY DEF Storable
<1>2. h \in Seq(Cells) /\ Len(h) = 1 /\ h[1] = <<"size", Len(x)>>
  <2>1. <<"size", Len(x)>> \in Cells
    BY <1>1 DEF Cells
  <2> QED
    BY <2>1
<1>3. ElementCells(x) = Cat(h, b)
  BY DEF ElementCells, Cat
<1> HIDE DEF h, b
<1> DEFINE u == Cat(h, b)
<1>4. /\ u \in Seq(Cells) /\ Len(u) = Len(h) + Len(b)
      /\ \A i \in Nat : i >= 1 /\ i <= Len(h) => u[i] = h[i]
  BY <1>1, <1>2, Joined
<1> HIDE DEF u
<1>5. u[1] = h[1]
  BY <1>2, <1>4
<1> QED
  BY <1>1, <1>2, <1>3, <1>4, <1>5 DEF u

\* A disk where element i has been written and which is otherwise as before.
LEMMA WrittenElement ==
    ASSUME Flat, NEW d \in Disks, NEW f \in Files, Placed(d, f), FileOK(d, f),
           NEW i \in DOMAIN d.index[f], NEW s \in Nat, s = StartOf(d, f),
           NEW x, Storable(x), Len(x) = SizeOf(d, f, i)
    PROVE  LET e == WriteCells(d, f, Off(d, f, i), ElementCells(x))
           IN  /\ Inside(d, e, f) /\ FileOK(e, f) /\ Filled(e, s + Off(d, f, i), ElementCells(x))
               /\ \A j \in DOMAIN d.index[f] : j # i => SameElement(d, e, f, j, j)
               /\ \A j \in DOMAIN d.index[f] : Cell(e, s + Off(d, f, j)) = Cell(d, s + Off(d, f, j))
<1> DEFINE idx == d.index[f]
           o   == Off(d, f, i)
           n   == Len(x)
           q   == ElementCells(x)
           e   == WriteCells(d, f, o, q)
<1>1. q \in Seq(Cells) /\ Len(q) = 1 + n /\ q[1] = <<"size", n>>
  BY StoredCells
<1>2. /\ o \in Nat /\ o >= 1 /\ n \in Nat /\ n = SizeAt(d, s + o) /\ o + 1 + n <= d.end[f]
      /\ d.end[f] \in Nat /\ LengthOf(d, f) \in Nat /\ d.end[f] <= LengthOf(d, f)
      /\ Cell(d, s + o) = <<"size", n>>
  <2>1. /\ o \in Nat /\ o >= 1 /\ IsSize(d, s + o) /\ SizeAt(d, s + o) \in Nat
        /\ SizeOf(d, f, i) = SizeAt(d, s + o) /\ o + 1 + SizeAt(d, s + o) <= d.end[f]
        /\ d.end[f] \in Nat /\ LengthOf(d, f) \in Nat /\ d.end[f] <= LengthOf(d, f)
    BY FileElement
  <2> QED
    BY <2>1, SizeType
<1>3. Laid(d, s, idx, d.end[f])
  BY DEF FileOK
<1>e. e = WriteCells(d, f, o, q)
  OBVIOUS
<1>o. o = idx[i].offset /\ \A j \in DOMAIN idx : Off(d, f, j) = idx[j].offset
  BY DEF Off
<1>x. \A j \in DOMAIN idx : idx[j].offset \in Nat
  BY IndexType DEF Off
<1> HIDE DEF o, n, q, e
<1>4. Inside(d, e, f) /\ Filled(e, s + o, q) /\ SameBut(d, e, s, o, o + Len(q))
  <2>1. o + Len(q) <= LengthOf(d, f)
    BY <1>1, <1>2
  <2> QED
    BY <1>1, <1>2, <1>e, <2>1, WriteInside
<1>5. Within(d, e, f) /\ StartOf(e, f) = s /\ LengthOf(e, f) = LengthOf(d, f) /\ e.index = d.index /\ e.end = d.end
  <2>1. Within(d, e, f) /\ StartOf(e, f) = StartOf(d, f) /\ LengthOf(e, f) = LengthOf(d, f)
    BY <1>4, InsideKeeps
  <2> QED
    BY <1>4, <2>1 DEF Inside
<1>6. Cell(e, s + o) = Cell(d, s + o)
  <2>1. 0 \in Nat /\ 0 < Len(q)
    BY <1>1, <1>2
  <2>2. Cell(e, s + o + 0) = q[0 + 1]
    BY <1>4, <2>1 DEF Filled
  <2>3. s + o + 0 = s + o /\ 0 + 1 = 1
    BY <1>2
  <2> QED
    BY <1>1, <1>2, <2>2, <2>3
<1>7. ASSUME NEW j \in DOMAIN idx, j # i
      PROVE  /\ Copied(d, s + idx[j].offset, e, s + idx[j].offset)
             /\ Cell(e, s + idx[j].offset) = Cell(d, s + idx[j].offset)
  <2> DEFINE p == idx[j].offset
             m == SizeAt(d, s + p)
  <2>1. /\ p \in Nat /\ m \in Nat /\ p # o
        /\ (p < o => p + 1 + m <= o) /\ (o < p => o + 1 + n <= p)
    <3>1. IsSize(d, s + p)
      BY <1>3 DEF Laid
    <3>2. m \in Nat
      BY <3>1, SizeType
    <3>3. /\ idx[j].offset # idx[i].offset
          /\ idx[j].offset < idx[i].offset => idx[j].offset + 1 + SizeAt(d, s + idx[j].offset) <= idx[i].offset
          /\ idx[i].offset < idx[j].offset => idx[i].offset + 1 + SizeAt(d, s + idx[i].offset) <= idx[j].offset
      BY <1>3, <1>7 DEF Laid
    <3> QED
      BY <1>2, <1>o, <1>x, <3>2, <3>3
  <2>m. m = SizeAt(d, s + p)
    OBVIOUS
  <2> HIDE DEF p, m
  <2>2. ASSUME NEW k \in Nat, k <= m
        PROVE  Cell(e, s + p + k) = Cell(d, s + p + k)
    <3>0. p + k \in Nat /\ s + (p + k) = s + p + k /\ o + Len(q) = o + 1 + n
      <4>1. o + Len(q) = o + 1 + n
        BY <1>1, <1>2
      <4>2. p + k \in Nat /\ s + (p + k) = s + p + k
        BY <2>1
      <4> QED
        BY <4>1, <4>2
    <3>1. p + k < o \/ p + k >= o + 1 + n
      BY <1>2, <2>1, <2>2
    <3> QED
      BY <1>4, <3>0, <3>1 DEF SameBut
  <2>3. Copied(d, s + p, e, s + p)
    BY <2>2, <2>m DEF Copied
  <2>4. p < o \/ p >= o + Len(q)
    BY <1>1, <1>2, <2>1
  <2>5. Cell(e, s + p) = Cell(d, s + p)
    BY <1>4, <2>1, <2>4 DEF SameBut
  <2> QED
    BY <2>3, <2>5 DEF p
<1>8. \A j \in DOMAIN idx : Cell(e, s + idx[j].offset) = Cell(d, s + idx[j].offset)
  BY <1>6, <1>7, <1>o
<1>9. Laid(e, s, idx, d.end[f])
  BY <1>3, <1>8, LaidKept
<1>10. FileOK(e, f)
  <2>1. Named(d.index[f]) /\ LengthOf(d, f) = d.end[f] + Len(d.index[f])
    BY DEF FileOK
  <2> QED
    BY <1>5, <1>9, <2>1 DEF FileOK
<1>11. \A j \in DOMAIN idx : j # i => SameElement(d, e, f, j, j)
  BY <1>5, <1>7 DEF SameElement, Off
<1> QED
  BY <1>4, <1>8, <1>10, <1>11, <1>o DEF e, o, q

\* The elements are those of idx, in the same order.
SameNames(idx, nx) ==
    /\ Len(nx) = Len(idx) /\ DOMAIN nx = DOMAIN idx
    /\ \A j \in DOMAIN idx : nx[j].id = idx[j].id /\ nx[j].type = idx[j].type

\* SetElement changes one element.
LEMMA ChangedMade ==
    ASSUME Flat, NEW d \in Disks, NEW f \in Files, Placed(d, f), FileOK(d, f),
           NEW i \in DOMAIN d.index[f], d.index[f][i].type # "file", NEW x, Storable(x)
    PROVE  LET e == Changed(d, f, i, x)
           IN  /\ Made(d, e, f, i) /\ SameNames(d.index[f], e.index[f])
               /\ Filled(e, StartOf(e, f) + Off(e, f, i), ElementCells(x))
<1> DEFINE n == Len(x)
           e == SetElementSize(d, f, i, n)
           w == WriteCells(e, f, Off(e, f, i), ElementCells(x))
           t == StartOf(e, f)
<1>1. Changed(d, f, i, x) = w
  BY DEF Changed, ElementCells, Off
<1>2. n \in Nat
  BY DEF Storable
<1>3. Within(d, e, f) /\ Sized(d, e, f, i, n)
  <2> DEFINE g == SetFileLength[f]
  <2>1. e = Resized(d, f, i, n, g)
    <3>1. Asserted(d, SizeReadable(d, f, i)) = d
      BY ElementReadable
    <3> QED
      BY <3>1 DEF SetElementSize
  <2>2. SetsLength(g, f)
    BY LengthsSet
  <2> HIDE DEF g, e, n
  <2> QED
    BY <1>2, <2>1, <2>2, ResizedElement
<1> HIDE DEF e
<1>4. /\ e \in Disks /\ Placed(e, f) /\ FileOK(e, f) /\ StartOf(e, f) = StartOf(d, f)
      /\ Len(e.index[f]) = Len(d.index[f])
      /\ \A j \in DOMAIN d.index[f] :
            /\ e.index[f][j].id = d.index[f][j].id /\ e.index[f][j].type = d.index[f][j].type
            /\ j # i => Copied(d, StartOf(d, f) + Off(d, f, j), e, StartOf(d, f) + Off(e, f, j))
      /\ Off(e, f, i) = Off(d, f, i) /\ Cell(e, StartOf(d, f) + Off(e, f, i)) = <<"size", n>>
  BY <1>3 DEF Within, Sized
<1>5. DOMAIN e.index[f] = DOMAIN d.index[f]
  BY <1>4, IndexType
<1>6. t \in Nat /\ StartOf(e, f) = t
  BY <1>4, PlaceType
<1>7. SizeOf(e, f, i) = n
  BY <1>4 DEF SizeOf, Off
<1>8. i \in DOMAIN e.index[f]
  BY <1>5
<1> HIDE DEF n, t
<1>9. /\ Inside(e, w, f) /\ FileOK(w, f) /\ Filled(w, t + Off(e, f, i), ElementCells(x))
      /\ \A j \in DOMAIN e.index[f] : j # i => SameElement(e, w, f, j, j)
  BY <1>4, <1>6, <1>7, <1>8, WrittenElement DEF n
<1> HIDE DEF w
<1>10. Within(d, w, f) /\ w \in Disks /\ Placed(w, f) /\ w.index = e.index
  <2>1. Within(e, w, f)
    BY <1>4, <1>9, InsideKeeps
  <2>2. Within(d, w, f)
    BY <1>3, <2>1, WithinAgain
  <2> QED
    BY <1>9, <2>2 DEF Within, Inside
<1>11. ASSUME NEW j \in DOMAIN d.index[f], j # i
       PROVE  SameElement(d, w, f, j, j)
  <2>1. SameElement(d, e, f, j, j)
    BY <1>4, <1>11 DEF SameElement
  <2>2. SameElement(e, w, f, j, j)
    BY <1>5, <1>9, <1>11
  <2>3. j \in DOMAIN e.index[f] /\ j \in DOMAIN w.index[f]
    BY <1>5, <1>10
  <2> QED
    BY <1>4, <1>10, <2>1, <2>2, <2>3, SameAgain
<1>12. Descends(d, w, f)
  <2>1. ASSUME NEW j \in DOMAIN w.index[f], w.index[f][j].type = "file"
        PROVE  \E k \in DOMAIN d.index[f] : SameElement(d, w, f, k, j)
    <3>1. j \in DOMAIN d.index[f] /\ d.index[f][j].type = "file"
      BY <1>4, <1>5, <1>10, <2>1
    <3> QED
      BY <1>11, <3>1
  <2> QED
    BY <2>1 DEF Descends
<1>13. Remains(d, w, f, i)
  BY <1>5, <1>10, <1>11 DEF Remains
<1>14. SameNames(d.index[f], w.index[f])
  BY <1>4, <1>5, <1>10 DEF SameNames
<1>15. Filled(w, StartOf(w, f) + Off(w, f, i), ElementCells(x))
  <2>1. StartOf(w, f) = t /\ Off(w, f, i) = Off(e, f, i)
    BY <1>4, <1>6, <1>10 DEF Within, Off
  <2> QED
    BY <1>9, <2>1
<1> QED
  BY <1>1, <1>9, <1>10, <1>12, <1>13, <1>14, <1>15 DEF Made

\* The list nx is laid when one more element has been written at the end.
LEMMA LaidAdded ==
    ASSUME NEW d, NEW w, NEW s \in Nat, NEW idx \in Seq(Entries), NEW t \in Nat, Laid(d, s, idx, t),
           \A k \in Nat : k < t => Cell(w, s + k) = Cell(d, s + k),
           NEW m \in Nat, Cell(w, s + t) = <<"size", m>>,
           NEW nx, NEW x \in Entries, x.offset = t, OneAdded(idx, nx, x)
    PROVE  /\ Laid(w, s, nx, t + 1 + m)
           /\ \A k \in DOMAIN idx : Copied(d, s + idx[k].offset, w, s + idx[k].offset)
<1>1. \A k \in DOMAIN idx : idx[k].offset \in Nat
  <2>1. \A k \in DOMAIN idx : idx[k] \in Entries
    BY ElementOfSeq, LenProperties
  <2> QED
    BY <2>1 DEF Entries
<1>2. t >= 1
  BY DEF Laid
<1>3. ASSUME NEW k \in DOMAIN idx
      PROVE  LET p == idx[k].offset
                 c == SizeAt(d, s + p)
             IN  /\ p \in Nat /\ p >= 1 /\ c \in Nat /\ p + 1 + c <= t
                 /\ Copied(d, s + p, w, s + p) /\ IsSize(w, s + p) /\ SizeAt(w, s + p) = c
  <2> DEFINE p == idx[k].offset
             c == SizeAt(d, s + p)
  <2>1. p >= 1 /\ IsSize(d, s + p) /\ p + 1 + c <= t
    BY DEF Laid
  <2>2. p \in Nat /\ c \in Nat
    BY <1>1, <2>1, SizeType
  <2>c. c = SizeAt(d, s + p)
    OBVIOUS
  <2> HIDE DEF p, c
  <2>3. ASSUME NEW j \in Nat, j <= c
        PROVE  Cell(w, s + p + j) = Cell(d, s + p + j)
    <3>1. p + j \in Nat /\ p + j < t /\ s + (p + j) = s + p + j
      BY <2>1, <2>2, <2>3
    <3> QED
      BY <3>1
  <2>4. Copied(d, s + p, w, s + p)
    BY <2>3, <2>c DEF Copied
  <2>5. Cell(w, s + p) = Cell(d, s + p)
    <3>1. p < t
      BY <2>1, <2>2
    <3> QED
      BY <2>2, <3>1
  <2>6. IsSize(w, s + p) /\ SizeAt(w, s + p) = c
    BY <2>1, <2>5, <2>c DEF IsSize, SizeAt
  <2> QED
    BY <2>1, <2>2, <2>4, <2>6 DEF p, c
<1>4. IsSize(w, s + t) /\ SizeAt(w, s + t) = m
  BY DEF IsSize, SizeAt
<1>5. ASSUME NEW j \in DOMAIN nx
      PROVE  nx[j] = x \/ (\E k \in DOMAIN idx : nx[j] = idx[k])
  BY DEF OneAdded, Lists
<1>6. ASSUME NEW j \in DOMAIN nx
      PROVE  /\ nx[j].offset >= 1 /\ IsSize(w, s + nx[j].offset)
             /\ nx[j].offset + 1 + SizeAt(w, s + nx[j].offset) <= t + 1 + m
  <2>1. CASE nx[j] = x
    <3>1. nx[j].offset = t
      BY <2>1
    <3>2. t + 1 + m <= t + 1 + m
      OBVIOUS
    <3> QED
      BY <1>2, <1>4, <3>1, <3>2
  <2>2. ASSUME NEW k \in DOMAIN idx, nx[j] = idx[k]
        PROVE  /\ nx[j].offset >= 1 /\ IsSize(w, s + nx[j].offset)
               /\ nx[j].offset + 1 + SizeAt(w, s + nx[j].offset) <= t + 1 + m
    <3> DEFINE p == idx[k].offset
               c == SizeAt(d, s + p)
    <3>1. /\ p \in Nat /\ p >= 1 /\ c \in Nat /\ p + 1 + c <= t
          /\ IsSize(w, s + p) /\ SizeAt(w, s + p) = c
      BY <1>3
    <3>2. nx[j].offset = p
      BY <2>2
    <3> HIDE DEF p, c
    <3>3. p + 1 + c <= t + 1 + m
      BY <3>1
    <3> QED
      BY <3>1, <3>2, <3>3
  <2> QED
    BY <1>5, <2>1, <2>2
<1>7. ASSUME NEW i \in DOMAIN nx, NEW j \in DOMAIN nx
      PROVE  /\ nx[i].offset = nx[j].offset => i = j
             /\ nx[i].offset < nx[j].offset =>
                   nx[i].offset + 1 + SizeAt(w, s + nx[i].offset) <= nx[j].offset
  <2>0. nx[i] = nx[j] => i = j
    BY DEF OneAdded, Named
  <2>1. CASE nx[i] = x /\ nx[j] = x
    BY <2>0, <2>1
  <2>2. ASSUME NEW k \in DOMAIN idx, nx[i] = idx[k], nx[j] = x
        PROVE  /\ nx[i].offset = nx[j].offset => i = j
               /\ nx[i].offset < nx[j].offset =>
                     nx[i].offset + 1 + SizeAt(w, s + nx[i].offset) <= nx[j].offset
    <3> DEFINE p == idx[k].offset
               c == SizeAt(d, s + p)
    <3>1. p \in Nat /\ p >= 1 /\ c \in Nat /\ p + 1 + c <= t /\ SizeAt(w, s + p) = c
      BY <1>3
    <3>2. nx[i].offset = p /\ nx[j].offset = t
      BY <2>2
    <3> HIDE DEF p, c
    <3> QED
      BY <3>1, <3>2
  <2>3. ASSUME NEW k \in DOMAIN idx, nx[j] = idx[k], nx[i] = x
        PROVE  /\ nx[i].offset = nx[j].offset => i = j
               /\ nx[i].offset < nx[j].offset =>
                     nx[i].offset + 1 + SizeAt(w, s + nx[i].offset) <= nx[j].offset
    <3> DEFINE p == idx[k].offset
               c == SizeAt(d, s + p)
    <3>1. p \in Nat /\ p >= 1 /\ c \in Nat /\ p + 1 + c <= t
      BY <1>3
    <3>2. nx[j].offset = p /\ nx[i].offset = t
      BY <2>3
    <3> HIDE DEF p, c
    <3>3. p < t
      BY <3>1
    <3> QED
      BY <3>1, <3>2, <3>3
  <2>4. ASSUME NEW k \in DOMAIN idx, nx[i] = idx[k], NEW l \in DOMAIN idx, nx[j] = idx[l]
        PROVE  /\ nx[i].offset = nx[j].offset => i = j
               /\ nx[i].offset < nx[j].offset =>
                     nx[i].offset + 1 + SizeAt(w, s + nx[i].offset) <= nx[j].offset
    <3>1. /\ idx[k].offset = idx[l].offset => k = l
          /\ idx[k].offset < idx[l].offset => idx[k].offset + 1 + SizeAt(d, s + idx[k].offset) <= idx[l].offset
      BY DEF Laid
    <3>2. SizeAt(w, s + idx[k].offset) = SizeAt(d, s + idx[k].offset)
      BY <1>3
    <3> QED
      BY <2>0, <2>4, <3>1, <3>2
  <2> QED
    BY <1>5, <2>1, <2>2, <2>3, <2>4
<1>8. t + 1 + m >= 1
  BY <1>2
<1> QED
  BY <1>3, <1>6, <1>7, <1>8 DEF Laid

\* InsertElementAtIndex adds one element.
LEMMA InsertedMade ==
    ASSUME Flat, NEW d \in Disks, NEW f \in Files, Placed(d, f), FileOK(d, f),
           NEW i \in 1 .. Len(d.index[f]) + 1, NEW x, Storable(x)
    PROVE  LET e == Inserted(d, f, i, x)
           IN  /\ Made(d, e, f, 0)
               /\ e.index[f] = InsertAt(d.index[f], i, Entry(d.end[f], UniqueID(d, f), "data"))
               /\ Filled(e, StartOf(e, f) + d.end[f], ElementCells(x))
<1> DEFINE s   == StartOf(d, f)
           idx == d.index[f]
           t   == d.end[f]
           y   == Entry(t, UniqueID(d, f), "data")
           nx  == InsertAt(idx, i, y)
           n   == t + SizeLength + Len(x)
           e   == Indexed(d, f, nx, n)
           m   == e.end[f] + IndexLength(e, f)
           l   == SetFileLength[f][e][m]
           w   == WriteCells(l, f, t, ElementCells(x))
<1>1. Inserted(d, f, i, x) = w
  BY DEF Inserted, Indexed, ElementCells
<1>2. s \in Nat /\ idx \in Seq(Entries) /\ t \in Nat /\ Len(idx) \in Nat /\ Len(x) \in Nat
  BY PlaceType, IndexType DEF Storable
<1>3. Laid(d, s, idx, t) /\ Named(idx) /\ LengthOf(d, f) = t + Len(idx)
  BY DEF FileOK
<1>4. y \in Entries /\ y.offset = t /\ y.type = "data" /\ \A k \in DOMAIN idx : idx[k].id # y.id
  BY <1>2, UniqueIDs DEF Entry, Entries
<1>5. OneAdded(idx, nx, y)
  <2>1. y \in Entries /\ idx \in Seq(Entries)
    BY <1>2, <1>4
  <2>2. i \in 1 .. Len(idx) + 1
    OBVIOUS
  <2>3. \A k \in DOMAIN idx : idx[k].id # y.id
    BY <1>4
  <2> HIDE DEF y, idx
  <2> QED
    BY <1>3, <2>1, <2>2, <2>3, AddedEntry
<1>6. nx \in Seq(Entries) /\ Len(nx) = Len(idx) + 1
  BY <1>5 DEF OneAdded
<1>7. n \in Nat /\ n = t + 1 + Len(x)
  BY <1>2 DEF SizeLength
<1>s. StartOf(d, f) = s
  OBVIOUS
<1>8. Relisted(d, e, f) /\ e.index[f] = nx /\ e.end[f] = n
  <2> HIDE DEF nx, n
  <2> QED
    BY <1>6, <1>7, NewIndex
<1> HIDE DEF e
<1>9. m \in Nat /\ m = n + Len(nx)
  BY <1>2, <1>6, <1>7, <1>8 DEF IndexLength
<1>i. idx = d.index[f] /\ t = d.end[f]
  OBVIOUS
<1> HIDE DEF m, n, nx, y, s, idx, t
<1>10. /\ Within(d, e, f) /\ StartOf(e, f) = s /\ LengthOf(e, f) = t + Len(idx)
       /\ e \in Disks /\ Placed(e, f)
       /\ \A k : Cell(e, k) = Cell(d, k)
  <2>1. /\ Within(d, e, f) /\ StartOf(e, f) = StartOf(d, f) /\ LengthOf(e, f) = LengthOf(d, f)
        /\ \A k : Cell(e, k) = Cell(d, k)
    BY <1>8, RelistedKeeps
  <2> QED
    BY <1>3, <1>s, <2>1 DEF Within
<1>11. LengthSet(e, l, f, m)
  <2>1. SetsLength(SetFileLength[f], f)
    BY LengthsSet
  <2> QED
    BY <1>9, <1>10, <2>1 DEF SetsLength
<1> HIDE DEF l
<1>12. /\ Within(e, l, f) /\ LengthOf(l, f) = m /\ l.index[f] = nx /\ l.end[f] = n
       /\ l \in Disks /\ Placed(l, f) /\ StartOf(l, f) = s
       /\ \A k \in Nat : k < t + Len(idx) /\ k < m => Cell(l, s + k) = Cell(e, s + k)
  BY <1>8, <1>10, <1>11 DEF LengthSet, Within
<1>13. ElementCells(x) \in Seq(Cells) /\ Len(ElementCells(x)) = 1 + Len(x) /\ ElementCells(x)[1] = <<"size", Len(x)>>
  BY StoredCells
<1>14. t + Len(ElementCells(x)) <= m /\ t + Len(ElementCells(x)) = n
  BY <1>2, <1>6, <1>7, <1>9, <1>13
<1>15. Inside(l, w, f) /\ Filled(w, s + t, ElementCells(x)) /\ SameBut(l, w, s, t, t + Len(ElementCells(x)))
  BY <1>2, <1>12, <1>13, <1>14, WriteInside
<1> HIDE DEF w
<1>16. Within(l, w, f) /\ StartOf(w, f) = s /\ LengthOf(w, f) = m /\ w.index[f] = nx /\ w.end[f] = n
  <2>1. Within(l, w, f) /\ StartOf(w, f) = StartOf(l, f) /\ LengthOf(w, f) = LengthOf(l, f)
    BY <1>12, <1>15, InsideKeeps
  <2> QED
    BY <1>12, <1>15, <2>1 DEF Inside
<1>17. Within(d, w, f)
  <2>1. Within(d, l, f)
    BY <1>10, <1>12, WithinAgain
  <2> QED
    BY <1>16, <2>1, WithinAgain
<1>18. ASSUME NEW k \in Nat, k < t
       PROVE  Cell(w, s + k) = Cell(d, s + k)
  <2>1. k < t + Len(idx) /\ k < m
    BY <1>2, <1>6, <1>7, <1>9, <1>18
  <2>2. Cell(l, s + k) = Cell(e, s + k)
    BY <1>12, <2>1
  <2>3. Cell(w, s + k) = Cell(l, s + k)
    BY <1>15, <1>18 DEF SameBut
  <2> QED
    BY <1>10, <2>2, <2>3
<1>19. Cell(w, s + t) = <<"size", Len(x)>>
  <2>1. 0 \in Nat /\ 0 < Len(ElementCells(x))
    BY <1>2, <1>13
  <2>2. Cell(w, s + t + 0) = ElementCells(x)[0 + 1]
    BY <1>15, <2>1 DEF Filled
  <2>3. s + t + 0 = s + t /\ 0 + 1 = 1
    BY <1>2
  <2> QED
    BY <1>13, <2>2, <2>3
<1>20. /\ Laid(w, s, nx, t + 1 + Len(x))
       /\ \A k \in DOMAIN idx : Copied(d, s + idx[k].offset, w, s + idx[k].offset)
  BY <1>2, <1>3, <1>4, <1>5, <1>18, <1>19, LaidAdded
<1>21. FileOK(w, f)
  BY <1>5, <1>7, <1>9, <1>16, <1>20 DEF FileOK, OneAdded
<1>22. ASSUME NEW k \in DOMAIN idx, NEW j \in DOMAIN nx, nx[j] = idx[k]
       PROVE  SameElement(d, w, f, k, j)
  BY <1>16, <1>20, <1>22, <1>s, <1>i DEF SameElement, Off
<1>23. Descends(d, w, f)
  BY <1>4, <1>5, <1>16, <1>22, <1>i DEF Descends, OneAdded, Lists
<1>24. Remains(d, w, f, 0)
  <2>1. ASSUME NEW k \in DOMAIN idx
        PROVE  \E j \in DOMAIN nx : SameElement(d, w, f, k, j)
    <3>1. idx[k] # y
      BY <1>4
    <3>2. PICK j \in DOMAIN nx : idx[k] = nx[j]
      BY <1>5, <3>1 DEF OneAdded, Lists
    <3> QED
      BY <1>22, <3>2
  <2> QED
    BY <1>16, <2>1, <1>i DEF Remains
<1> QED
  BY <1>1, <1>15, <1>16, <1>17, <1>21, <1>23, <1>24, <1>i DEF Made, nx, y

\* Of the first t cells of a file, those from o on are gone, as many as size.
ClosedUp(d, w, s, o, size, t) ==
    /\ \A k \in Nat : k < o => Cell(w, s + k) = Cell(d, s + k)
    /\ \A k \in Nat : o + size <= k /\ k < t => Cell(w, s + (k - size)) = Cell(d, s + k)

\* Where an element goes when those behind another one move up.
LEMMA ShiftedUp ==
    ASSUME NEW o \in Nat, NEW size \in Nat, NEW t \in Nat, o >= 1, o + size <= t, size >= 1,
           NEW p \in Nat, p >= 1, NEW c \in Nat, p + 1 + c <= t, p # o,
           p < o => p + 1 + c <= o, o < p => o + size <= p,
           NEW v, p > o => v = p - size, ~ (p > o) => v = p
    PROVE  v \in Nat /\ v >= 1 /\ v + 1 + c <= t - size
<1>1. CASE p < o
  BY <1>1
<1>2. CASE p > o
  BY <1>2
<1> QED
  BY <1>1, <1>2

\* An element at a goes to u, and is in front of the removed one or behind it.
MovesUp(o, size, a, c, u) ==
    /\ a # o /\ (a < o => a + 1 + c <= o) /\ (a > o => o + size <= a)
    /\ (a > o => u = a - size) /\ (~ (a > o) => u = a)

\* An element that is in front of another one ends there.
InFront(a, c, b) == a < b => a + 1 + c <= b

Numbers(o, size, a, b, c, e) == {o, size, a, b, c, e} \subseteq Nat

\* Elements keep their order when one is removed.
LEMMA ShiftedOrder ==
    ASSUME NEW o, NEW size, NEW a, NEW b, NEW c, NEW e, Numbers(o, size, a, b, c, e), InFront(a, c, b),
           NEW u, NEW v, MovesUp(o, size, a, c, u), MovesUp(o, size, b, e, v)
    PROVE  InFront(u, c, v) /\ (u = v => a = b)
<1>n. o \in Nat /\ size \in Nat /\ a \in Nat /\ b \in Nat /\ c \in Nat /\ e \in Nat
  BY DEF Numbers
<1>1. CASE a < o /\ b < o
  BY <1>n, <1>1 DEF MovesUp, InFront
<1>2. CASE a < o /\ b > o
  BY <1>n, <1>2 DEF MovesUp, InFront
<1>3. CASE a > o /\ b < o
  BY <1>n, <1>3 DEF MovesUp, InFront
<1>4. CASE a > o /\ b > o
  BY <1>n, <1>4 DEF MovesUp, InFront
<1> QED
  BY <1>n, <1>1, <1>2, <1>3, <1>4 DEF MovesUp

\* Element i starts at o and takes up size cells.
Takes(d, s, idx, i, o, size) == o = idx[i].offset /\ size = 1 + SizeAt(d, s + o)

\* The elements other than i, when those behind i have moved up by its size.
LEMMA LaidRemoved ==
    ASSUME NEW d, NEW w, NEW s \in Nat, NEW idx \in Seq(Entries), NEW t \in Nat, Laid(d, s, idx, t), Named(idx),
           NEW i \in DOMAIN idx, NEW o \in Nat, NEW size \in Nat, Takes(d, s, idx, i, o, size),
           ClosedUp(d, w, s, o, size, t),
           NEW mx, ShiftedTo(idx, mx, o, size, 0),
           NEW nx, OneRemoved(mx, nx, mx[i])
    PROVE  /\ Laid(w, s, nx, t - size) /\ t - size \in Nat
           /\ \A k \in DOMAIN idx : k # i => Copied(d, s + idx[k].offset, w, s + mx[k].offset)
<1>t. o = idx[i].offset /\ size = 1 + SizeAt(d, s + o)
  BY DEF Takes
<1>1. \A k \in DOMAIN idx : idx[k].offset \in Nat
  <2>1. \A k \in DOMAIN idx : idx[k] \in Entries
    BY ElementOfSeq, LenProperties
  <2> QED
    BY <2>1 DEF Entries
<1>2. o >= 1 /\ o + size <= t /\ size >= 1
  <2>1. idx[i].offset >= 1 /\ IsSize(d, s + idx[i].offset) /\ idx[i].offset + 1 + SizeAt(d, s + idx[i].offset) <= t
    BY DEF Laid
  <2>2. SizeAt(d, s + idx[i].offset) \in Nat
    BY <2>1, SizeType
  <2> QED
    BY <2>1, <2>2, <1>t
<1>3. t - size \in Nat /\ t - size >= 1
  BY <1>2
<1>4. ASSUME NEW k \in DOMAIN idx
      PROVE  LET p == idx[k].offset
                 c == SizeAt(d, s + p)
             IN  /\ p \in Nat /\ p >= 1 /\ c \in Nat /\ p + 1 + c <= t /\ IsSize(d, s + p)
                 /\ (p = o => k = i) /\ (p < o => p + 1 + c <= o) /\ (o < p => o + size <= p)
  <2>1. /\ idx[k].offset >= 1 /\ IsSize(d, s + idx[k].offset)
        /\ idx[k].offset + 1 + SizeAt(d, s + idx[k].offset) <= t
        /\ idx[k].offset = idx[i].offset => k = i
        /\ idx[k].offset < idx[i].offset => idx[k].offset + 1 + SizeAt(d, s + idx[k].offset) <= idx[i].offset
        /\ idx[i].offset < idx[k].offset => idx[i].offset + 1 + SizeAt(d, s + idx[i].offset) <= idx[k].offset
    BY DEF Laid
  <2>2. SizeAt(d, s + idx[k].offset) \in Nat /\ SizeAt(d, s + idx[i].offset) = size - 1
    <3>1. SizeAt(d, s + idx[k].offset) \in Nat
      BY <2>1, SizeType
    <3>2. SizeAt(d, s + o) \in Nat
      <4>1. IsSize(d, s + idx[i].offset)
        BY DEF Laid
      <4> QED
        BY <4>1, SizeType, <1>t
    <3> QED
      BY <3>1, <3>2, <1>t
  <2>3. o + 1 + (size - 1) = o + size
    BY <1>2
  <2> QED
    BY <1>1, <2>1, <2>2, <2>3, <1>t
<1>5. /\ DOMAIN mx = DOMAIN idx
      /\ \A k \in DOMAIN idx :
            /\ mx[k].id = idx[k].id /\ mx[k].type = idx[k].type
            /\ idx[k].offset > o => mx[k].offset = idx[k].offset - size
            /\ ~ (idx[k].offset > o) => mx[k].offset = idx[k].offset
  <2>1. \A k \in DOMAIN idx : idx[k].offset + 0 - size = idx[k].offset - size
    BY <1>1
  <2> QED
    BY <2>1 DEF ShiftedTo
<1> DEFINE N(k) == SizeAt(d, s + idx[k].offset)
<1>6. ASSUME NEW k \in DOMAIN idx, k # i
      PROVE  /\ Copied(d, s + idx[k].offset, w, s + mx[k].offset)
             /\ mx[k].offset \in Nat /\ mx[k].offset >= 1 /\ N(k) \in Nat
             /\ IsSize(w, s + mx[k].offset) /\ SizeAt(w, s + mx[k].offset) = N(k)
             /\ mx[k].offset + 1 + N(k) <= t - size
  <2> DEFINE p == idx[k].offset
             c == SizeAt(d, s + p)
             v == mx[k].offset
  <2>1. /\ p \in Nat /\ p >= 1 /\ c \in Nat /\ p + 1 + c <= t /\ IsSize(d, s + p)
        /\ p # o /\ (p < o => p + 1 + c <= o) /\ (o < p => o + size <= p)
    BY <1>4, <1>6
  <2>2. (p > o => v = p - size) /\ (~ (p > o) => v = p)
    BY <1>5
  <2>c. c = SizeAt(d, s + p) /\ c = N(k)
    OBVIOUS
  <2> HIDE DEF p, c, v, N
  <2>3. v \in Nat /\ v >= 1 /\ v + 1 + c <= t - size
    BY <1>2, <2>1, <2>2, ShiftedUp
  <2>4. ASSUME NEW j \in Nat, j <= c
        PROVE  Cell(w, s + v + j) = Cell(d, s + p + j)
    <3>1. CASE p < o
      <4>1. p + j \in Nat /\ p + j < o
        BY <2>1, <2>4, <3>1
      <4>2. s + (p + j) = s + p + j
        BY <2>1
      <4>3. v = p
        BY <2>1, <2>2, <3>1
      <4> QED
        BY <4>1, <4>2, <4>3 DEF ClosedUp
    <3>2. CASE p > o
      <4>1. p + j \in Nat /\ o + size <= p + j /\ p + j < t
        BY <2>1, <2>4, <3>2
      <4> DEFINE g == p + j
      <4>h. g \in Nat /\ o + size <= g /\ g < t
        BY <4>1
      <4>i. \A q \in Nat : o + size <= q /\ q < t => Cell(w, s + (q - size)) = Cell(d, s + q)
        BY DEF ClosedUp
      <4> HIDE DEF g
      <4>g. Cell(w, s + (g - size)) = Cell(d, s + g)
        BY <4>h, <4>i
      <4>3. s + g = s + p + j /\ s + (g - size) = s + v + j
        BY <2>1, <2>2, <2>4, <3>2, <4>h DEF g
      <4> QED
        BY <4>g, <4>3
    <3> QED
      BY <2>1, <3>1, <3>2
  <2>5. Copied(d, s + p, w, s + v)
    BY <2>4, <2>c DEF Copied
  <2>6. Cell(w, s + v) = Cell(d, s + p)
    <3>1. 0 \in Nat /\ 0 <= c /\ s + v + 0 = s + v /\ s + p + 0 = s + p
      BY <2>1, <2>3
    <3>2. Cell(w, s + v + 0) = Cell(d, s + p + 0)
      BY <2>4, <3>1
    <3> QED
      BY <3>1, <3>2
  <2>7. IsSize(w, s + v) /\ SizeAt(w, s + v) = c
    BY <2>1, <2>6, <2>c DEF IsSize, SizeAt
  <2> QED
    BY <2>1, <2>3, <2>5, <2>7, <2>c DEF p, v
<1>7. ASSUME NEW k \in DOMAIN idx, k # i, NEW l \in DOMAIN idx, l # i
      PROVE  /\ mx[k].offset = mx[l].offset => k = l
             /\ mx[k].offset < mx[l].offset => mx[k].offset + 1 + N(k) <= mx[l].offset
  <2> DEFINE a == idx[k].offset
             b == idx[l].offset
             c == SizeAt(d, s + a)
             e == SizeAt(d, s + b)
             u == mx[k].offset
             v == mx[l].offset
  <2>1. /\ a \in Nat /\ b \in Nat /\ c \in Nat /\ N(k) = c
        /\ (a < o => a + 1 + c <= o) /\ (a > o => o + size <= a) /\ a # o
        /\ (b < o => b + 1 + e <= o) /\ (b > o => o + size <= b) /\ b # o /\ e \in Nat
    BY <1>4, <1>7
  <2>2. (a = b => k = l) /\ (a < b => a + 1 + c <= b)
    BY DEF Laid
  <2>3. /\ (a > o => u = a - size) /\ (~ (a > o) => u = a)
        /\ (b > o => v = b - size) /\ (~ (b > o) => v = b)
    BY <1>5
  <2> HIDE DEF a, b, c, e, u, v, N
  <2>4. InFront(u, c, v) /\ (u = v => a = b)
    <3>1. MovesUp(o, size, a, c, u)
      BY <2>1, <2>3 DEF MovesUp
    <3>2. MovesUp(o, size, b, e, v)
      BY <2>1, <2>3 DEF MovesUp
    <3>3. Numbers(o, size, a, b, c, e)
      BY <2>1 DEF Numbers
    <3>4. InFront(a, c, b)
      BY <2>2 DEF InFront
    <3> QED
      BY <3>1, <3>2, <3>3, <3>4, ShiftedOrder
  <2> QED
    BY <2>1, <2>2, <2>4 DEF u, v, InFront
<1>8. ASSUME NEW j \in DOMAIN nx
      PROVE  \E k \in DOMAIN idx : k # i /\ nx[j] = mx[k]
  BY <1>5 DEF OneRemoved
<1> HIDE DEF N
<1>9. ASSUME NEW j \in DOMAIN nx
      PROVE  /\ nx[j].offset >= 1 /\ IsSize(w, s + nx[j].offset)
             /\ nx[j].offset + 1 + SizeAt(w, s + nx[j].offset) <= t - size
  <2>1. PICK k \in DOMAIN idx : k # i /\ nx[j] = mx[k]
    BY <1>8
  <2> QED
    BY <1>6, <2>1
<1>10. ASSUME NEW j \in DOMAIN nx, NEW h \in DOMAIN nx
       PROVE  /\ nx[j].offset = nx[h].offset => j = h
              /\ nx[j].offset < nx[h].offset => nx[j].offset + 1 + SizeAt(w, s + nx[j].offset) <= nx[h].offset
  <2>1. PICK k \in DOMAIN idx : k # i /\ nx[j] = mx[k]
    BY <1>8
  <2>2. PICK l \in DOMAIN idx : l # i /\ nx[h] = mx[l]
    BY <1>8
  <2>3. nx[j] = nx[h] => j = h
    BY DEF OneRemoved, Named
  <2>4. /\ mx[k].offset = mx[l].offset => k = l
        /\ mx[k].offset < mx[l].offset => mx[k].offset + 1 + N(k) <= mx[l].offset
        /\ SizeAt(w, s + mx[k].offset) = N(k)
    BY <1>6, <1>7, <2>1, <2>2
  <2> QED
    BY <2>1, <2>2, <2>3, <2>4
<1> QED
  BY <1>3, <1>6, <1>9, <1>10 DEF Laid

\* RemoveElementFile removes one element.
LEMMA RemovedMade ==
    ASSUME Flat, NEW d \in Disks, NEW f \in Files, Placed(d, f), FileOK(d, f), NEW i \in DOMAIN d.index[f]
    PROVE  LET e == Removed(d, f, i)
           IN  /\ Made(d, e, f, i)
               /\ \E mx \in Seq(Entries) : SameNames(d.index[f], mx) /\ e.index[f] = RemoveAt(mx, i)
<1> DEFINE s    == StartOf(d, f)
           idx  == d.index[f]
           t    == d.end[f]
           o    == Off(d, f, i)
           size == SizeLength + SizeOf(d, f, i)
           c    == CompactData(d, f, o, size)
           mx   == MovedIndex(idx, o, size, 0)
           nx   == RemoveAt(mx, i)
           e    == ElementResized(c, f, i, size, 0)
           r    == [e EXCEPT !.index[f] = RemoveAt(@, i)]
           m    == r.end[f] + IndexLength(r, f)
           w    == SetFileLength[f][r][m]
<1>1. Removed(d, f, i) = w
  BY DEF Removed, Off
<1>2. s \in Nat /\ idx \in Seq(Entries) /\ DOMAIN idx = 1 .. Len(idx) /\ Len(idx) \in Nat /\ t \in Nat
  BY PlaceType, IndexType
<1>s. StartOf(d, f) = s /\ s \in Nat
  BY <1>2
<1>3. /\ o \in Nat /\ o >= 1 /\ IsSize(d, s + o) /\ SizeAt(d, s + o) \in Nat
      /\ SizeOf(d, f, i) = SizeAt(d, s + o) /\ o + 1 + SizeAt(d, s + o) <= t
      /\ LengthOf(d, f) \in Nat /\ t <= LengthOf(d, f)
  <2> HIDE DEF s
  <2> QED
    BY <1>s, FileElement
<1>i. idx = d.index[f] /\ t = d.end[f] /\ i \in DOMAIN idx
  OBVIOUS
<1>5. Laid(d, s, idx, t) /\ Named(idx) /\ LengthOf(d, f) = t + Len(idx)
  BY DEF FileOK
<1>6. o = idx[i].offset /\ \A k \in DOMAIN idx : Off(d, f, k) = idx[k].offset
  BY DEF Off
<1> HIDE DEF s, idx, t, o
<1>4. size \in Nat /\ size = 1 + SizeAt(d, s + o) /\ o + size <= t /\ o < t
  <2> DEFINE z == SizeAt(d, s + o)
  <2>1. size = 1 + z
    BY <1>3 DEF SizeLength
  <2>2. z \in Nat /\ o + 1 + z <= t
    BY <1>3
  <2> HIDE DEF z, size
  <2> QED
    BY <1>2, <1>3, <2>1, <2>2 DEF z
<1> HIDE DEF size
<1>7. /\ Within(d, c, f) /\ LengthOf(c, f) = LengthOf(d, f)
      /\ c.index = d.index /\ c.end[f] = t - size
      /\ Run(d, s + (o + size), c, s + o, t - (o + size))
      /\ SameBut(d, c, s, o, t - size)
  BY <1>3, <1>4, <1>s, <1>i, Compacted
<1> HIDE DEF c
<1>8. c \in Disks /\ Placed(c, f) /\ StartOf(c, f) = s
  BY <1>7, <1>s DEF Within
\* The index.
<1>b. Behind(idx, o, size) /\ \A k \in DOMAIN idx : idx[k].offset \in Nat
  <2>1. ASSUME NEW k \in DOMAIN idx
        PROVE  idx[k].offset \in Nat /\ (idx[k].offset > o => idx[k].offset >= size)
    <3>1. idx[i].offset < idx[k].offset => idx[i].offset + 1 + SizeAt(d, s + idx[i].offset) <= idx[k].offset
      BY <1>5, <1>i DEF Laid
    <3>2. idx[k].offset \in Nat
      BY <1>6, <1>i, IndexType
    <3> QED
      BY <1>3, <1>4, <1>6, <3>1, <3>2
  <2> QED
    BY <2>1 DEF Behind
<1>9. ShiftedTo(idx, mx, o, size, 0)
  <2> HIDE DEF mx
  <2> QED
    BY <1>2, <1>3, <1>4, <1>b, ShiftedIndex DEF mx
<1> DEFINE q == mx[i]
<1>10. OneRemoved(mx, nx, q)
  <2>1. mx \in Seq(Entries) /\ i \in DOMAIN mx
    BY <1>9, <1>i DEF ShiftedTo
  <2>2. Named(mx)
    BY <1>5, <1>9 DEF Named, ShiftedTo
  <2> HIDE DEF mx
  <2> QED
    BY <2>1, <2>2, RemovedEntry
<1>11. nx \in Seq(Entries) /\ Len(nx) = Len(idx) - 1
  BY <1>9, <1>10 DEF OneRemoved, ShiftedTo
<1>12. e = [c EXCEPT !.index[f] = mx]
  <2> DEFINE p == \A j \in StoredBehind(c, f, i) : c.index[f][j].offset + 0 >= size
  <2>1. ASSUME NEW j \in StoredBehind(c, f, i)
        PROVE  c.index[f][j].offset + 0 >= size
    <3>1. j \in DOMAIN idx /\ idx[j].offset > o /\ c.index[f][j] = idx[j]
      BY <1>6, <1>7, <1>i, <2>1 DEF StoredBehind
    <3>2. idx[j].offset >= size /\ idx[j].offset \in Nat
      BY <1>b, <3>1 DEF Behind
    <3> QED
      BY <1>4, <3>1, <3>2
  <2>2. p = TRUE
    BY <2>1
  <2> HIDE DEF p
  <2>3. Asserted(c, p) = c
    BY <1>8, <2>2, Sure
  <2> QED
    BY <1>6, <1>7, <1>i, <2>3 DEF ElementResized, MovedIndex, p
<1> HIDE DEF mx, nx, e
<1>13. Relisted(c, r, f) /\ r.index[f] = nx /\ r.end[f] = t - size
  <2>1. /\ c.index \in [Files -> Seq(Entries)] /\ c.end \in [Files -> Nat]
        /\ c = [cells |-> c.cells, index |-> c.index, end |-> c.end, ok |-> c.ok]
    BY <1>8 DEF Disks
  <2>2. e.index = [c.index EXCEPT ![f] = mx] /\ e.cells = c.cells /\ e.end = c.end /\ e.ok = c.ok
    BY <1>12, <2>1
  <2>3. e.index[f] = mx
    BY <2>1, <2>2
  <2>4. r = [e EXCEPT !.index[f] = nx]
    BY <2>3 DEF nx
  <2>e. e = [cells |-> c.cells, index |-> [c.index EXCEPT ![f] = mx], end |-> c.end, ok |-> c.ok]
    BY <1>12, <2>1
  <2>5. r.index = [e.index EXCEPT ![f] = nx] /\ r.cells = c.cells /\ r.end = c.end /\ r.ok = c.ok
    BY <2>2, <2>4, <2>e
  <2>6. r.index = [c.index EXCEPT ![f] = nx]
    BY <2>1, <2>2, <2>5
  <2>7. r = [cells |-> c.cells, index |-> [c.index EXCEPT ![f] = nx], end |-> c.end, ok |-> c.ok]
    BY <2>2, <2>4, <2>6, <2>e
  <2>8. r.index \in [Files -> Seq(Entries)]
    BY <1>11, <2>1, <2>6
  <2> HIDE DEF r
  <2>9. r \in Disks
    BY <1>8, <2>1, <2>6, <2>7, <2>8 DEF Disks
  <2> QED
    BY <1>7, <2>1, <2>5, <2>6, <2>9 DEF Relisted
<1> HIDE DEF r
<1>14. /\ Within(c, r, f) /\ StartOf(r, f) = s /\ LengthOf(r, f) = LengthOf(d, f)
       /\ r \in Disks /\ Placed(r, f)
       /\ \A k : Cell(r, k) = Cell(c, k)
  <2>1. /\ Within(c, r, f) /\ StartOf(r, f) = StartOf(c, f) /\ LengthOf(r, f) = LengthOf(c, f)
        /\ \A k : Cell(r, k) = Cell(c, k)
    BY <1>8, <1>13, RelistedKeeps
  <2> QED
    BY <1>7, <1>8, <2>1 DEF Within
<1>15. m = t - size + Len(nx) /\ m \in Nat /\ t - size \in Nat /\ m >= t - size /\ m <= LengthOf(d, f)
  <2>1. m = t - size + Len(nx)
    BY <1>13 DEF IndexLength
  <2>2. i \in 1 .. Len(idx)
    BY <1>2, <1>i
  <2>3. Len(idx) >= 1
    BY <1>2, <2>2
  <2>4. t - size \in Nat
    BY <1>2, <1>3, <1>4
  <2> DEFINE c1 == Len(idx)
             v  == t - size
  <2>5. c1 \in Nat /\ c1 >= 1 /\ Len(nx) = c1 - 1 /\ LengthOf(d, f) = t + c1 /\ v \in Nat /\ v <= t
    BY <1>2, <1>3, <1>4, <1>5, <1>11, <2>3, <2>4
  <2>6. m = v + Len(nx)
    BY <2>1
  <2> HIDE DEF m, c1, v
  <2>7. m \in Nat /\ m >= v /\ m <= LengthOf(d, f)
    BY <1>2, <2>5, <2>6
  <2> QED
    BY <2>1, <2>4, <2>7 DEF v
<1> HIDE DEF m
<1> DEFINE L == LengthOf(d, f)
<1>n. /\ L \in Nat /\ o \in Nat /\ size \in Nat /\ t \in Nat /\ m \in Nat
      /\ o + size <= t /\ t <= L /\ m >= t - size /\ m <= L /\ size >= 1
  <2>1. size >= 1
    <3> DEFINE z == SizeAt(d, s + o)
    <3>1. z \in Nat /\ size = 1 + z
      BY <1>3, <1>4
    <3> HIDE DEF z
    <3> QED
      BY <3>1
  <2> QED
    BY <1>2, <1>3, <1>4, <1>15, <2>1
<1>l. L = LengthOf(d, f)
  OBVIOUS
<1> HIDE DEF L
\* The length.
<1>16. LengthSet(r, w, f, m)
  <2>1. SetsLength(SetFileLength[f], f)
    BY LengthsSet
  <2> QED
    BY <1>14, <1>15, <2>1 DEF SetsLength
<1> HIDE DEF w
<1>17. /\ Within(r, w, f) /\ LengthOf(w, f) = m /\ w.index[f] = nx /\ w.end[f] = t - size
       /\ w \in Disks /\ StartOf(w, f) = s
       /\ \A k \in Nat : k < LengthOf(d, f) /\ k < m => Cell(w, s + k) = Cell(r, s + k)
  BY <1>13, <1>14, <1>16 DEF LengthSet, Within
<1>18. Within(d, w, f)
  <2>1. Within(d, r, f)
    BY <1>7, <1>8, <1>14, WithinAgain
  <2> QED
    BY <1>17, <2>1, WithinAgain
<1>19. ASSUME NEW k \in Nat, k < o
       PROVE  Cell(w, s + k) = Cell(d, s + k)
  <2>1. k < LengthOf(d, f) /\ k < m
    BY <1>n, <1>l, <1>19
  <2>2. Cell(c, s + k) = Cell(d, s + k)
    BY <1>7, <1>19 DEF SameBut
  <2> QED
    BY <1>14, <1>17, <2>1, <2>2
<1>20. ASSUME NEW k \in Nat, o + size <= k, k < t
       PROVE  Cell(w, s + (k - size)) = Cell(d, s + k)
  <2> DEFINE j == k - (o + size)
  <2>1. j \in Nat /\ j < t - (o + size)
    BY <1>n, <1>20
  <2>2. s + (o + size) + j = s + k /\ s + o + j = s + (k - size)
    BY <1>s, <1>n, <1>20
  <2> HIDE DEF j
  <2>3. Cell(c, s + (k - size)) = Cell(d, s + k)
    BY <1>7, <2>1, <2>2 DEF Run
  <2>4. k - size \in Nat /\ k - size < LengthOf(d, f) /\ k - size < m
    BY <1>n, <1>l, <1>20
  <2> QED
    BY <1>14, <1>17, <2>3, <2>4
<1>c. ClosedUp(d, w, s, o, size, t)
  BY <1>19, <1>20 DEF ClosedUp
<1>21. /\ Laid(w, s, nx, t - size)
       /\ \A k \in DOMAIN idx : k # i => Copied(d, s + idx[k].offset, w, s + mx[k].offset)
  <2>1. d \in Disks /\ s \in Nat /\ idx \in Seq(Entries) /\ t \in Nat /\ o \in Nat /\ size \in Nat
    BY <1>2, <1>3, <1>4
  <2>2. Laid(d, s, idx, t) /\ Named(idx) /\ i \in DOMAIN idx
    BY <1>5, <1>i
  <2>3. Takes(d, s, idx, i, o, size)
    BY <1>4, <1>6 DEF Takes
  <2>4. OneRemoved(mx, nx, mx[i])
    BY <1>10 DEF q
  <2> QED
    BY <2>1, <2>2, <2>3, <2>4, <1>9, <1>c, LaidRemoved
<1>22. FileOK(w, f)
  BY <1>10, <1>15, <1>17, <1>21 DEF FileOK, OneRemoved
<1>23. ASSUME NEW k \in DOMAIN idx, k # i, NEW j \in DOMAIN nx, nx[j] = mx[k]
       PROVE  SameElement(d, w, f, k, j)
  <2>1. mx[k].id = idx[k].id /\ mx[k].type = idx[k].type
    BY <1>9 DEF ShiftedTo
  <2> QED
    BY <1>17, <1>21, <1>23, <1>s, <1>i, <2>1 DEF SameElement, Off
<1>24. Descends(d, w, f)
  <2>1. ASSUME NEW j \in DOMAIN nx
        PROVE  \E k \in DOMAIN idx : SameElement(d, w, f, k, j)
    <3>1. PICK k \in DOMAIN mx : nx[j] # q /\ nx[j] = mx[k]
      BY <1>10 DEF OneRemoved
    <3>2. k # i /\ k \in DOMAIN idx
      BY <1>9, <3>1 DEF ShiftedTo
    <3> QED
      BY <1>23, <3>1, <3>2
  <2> QED
    BY <1>17, <1>i, <2>1 DEF Descends
<1>25. Remains(d, w, f, i)
  <2>1. ASSUME NEW k \in DOMAIN idx, k # i
        PROVE  \E j \in DOMAIN nx : SameElement(d, w, f, k, j)
    <3>1. k \in DOMAIN mx /\ mx[k] # q
      <4>1. idx[k].id # idx[i].id
        BY <1>5, <1>i, <2>1 DEF Named
      <4> QED
        BY <1>9, <1>i, <4>1 DEF ShiftedTo
    <3>2. PICK j \in DOMAIN nx : mx[k] = nx[j]
      BY <1>10, <3>1 DEF OneRemoved, Lists
    <3> QED
      BY <1>23, <2>1, <3>2
  <2> QED
    BY <1>17, <1>i, <2>1 DEF Remains
<1>26. mx \in Seq(Entries) /\ SameNames(d.index[f], mx) /\ w.index[f] = RemoveAt(mx, i)
  BY <1>9, <1>17, <1>i DEF ShiftedTo, SameNames, nx
<1> QED
  BY <1>1, <1>18, <1>22, <1>24, <1>25, <1>26 DEF Made

-----------------------------------------------------------------------------
(* Files that are opened and closed.                                       *)

\* FileArrayX makes an empty file.
LEMMA NewFileMade ==
    ASSUME Flat, NEW d \in Disks, NEW f \in Files, Placed(d, f)
    PROVE  LET w == NewFile(d, f)
           IN  /\ Within(d, w, f) /\ FileOK(w, f) /\ w.index[f] = <<>> /\ w.end[f] = 1
               /\ Formed(w, StartOf(w, f), <<>>, 1)
<1> DEFINE e == Indexed(d, f, <<>>, 1)
           l == SetFileLength[f][e][1]
           w == Flush(l, f)
<1>1. NewFile(d, f) = w
  BY DEF NewFile, Indexed, HeaderLength
<1>2. Relisted(d, e, f) /\ e.index[f] = <<>> /\ e.end[f] = 1
  <2> DEFINE z == <<>>
             m == 1
             r == Indexed(d, f, z, m)
  <2>1. z \in Seq(Entries) /\ m \in Nat
    OBVIOUS
  <2> HIDE DEF z, m
  <2>2. Relisted(d, r, f) /\ r.index[f] = z /\ r.end[f] = m
    BY <2>1, NewIndex
  <2> QED
    BY <2>2 DEF z, m
<1> HIDE DEF e
<1>3. Within(d, e, f) /\ e \in Disks /\ Placed(e, f)
  BY <1>2, RelistedKeeps DEF Within
<1>4. LengthSet(e, l, f, 1)
  <2>1. SetsLength(SetFileLength[f], f)
    BY LengthsSet
  <2>2. 1 \in Nat
    OBVIOUS
  <2> QED
    BY <1>3, <2>1, <2>2 DEF SetsLength
<1> HIDE DEF l
<1>5. /\ Within(e, l, f) /\ LengthOf(l, f) = 1 /\ l.index[f] = <<>> /\ l.end[f] = 1
      /\ l \in Disks /\ Placed(l, f)
  BY <1>2, <1>4 DEF LengthSet, Within
<1>6. FileOK(l, f)
  <2>1. Len(<<>>) = 0 /\ DOMAIN <<>> = {}
    OBVIOUS
  <2>2. \A s : Laid(l, s, <<>>, 1)
    BY <2>1 DEF Laid
  <2>3. Named(<<>>)
    BY <2>1 DEF Named
  <2> QED
    BY <1>5, <2>1, <2>2, <2>3 DEF FileOK
<1>7. Made(l, w, f, 0) /\ Inside(l, w, f) /\ Formed(w, StartOf(l, f), l.index[f], l.end[f])
  BY <1>5, <1>6, FlushMade
<1> HIDE DEF w
<1>8. Within(l, w, f) /\ FileOK(w, f) /\ w.index = l.index /\ w.end = l.end /\ StartOf(w, f) = StartOf(l, f)
  BY <1>7 DEF Made, Inside, Within
<1>9. Within(d, w, f)
  <2>1. Within(d, l, f)
    BY <1>3, <1>5, WithinAgain
  <2> QED
    BY <1>8, <2>1, WithinAgain
<1> QED
  BY <1>1, <1>5, <1>7, <1>8, <1>9

\* What is read of the header and of the index, where a file is stored.
LEMMA HeaderCells ==
    ASSUME Flat, NEW d \in Disks, NEW f \in Files, Placed(d, f),
           NEW idx \in Seq(Entries), NEW n \in Nat, Formed(d, StartOf(d, f), idx, n)
    PROVE  /\ ReadCells(d, f, 0, 1)[1] = <<"header", Len(idx), n>>
           /\ \A k \in Nat : k < Len(idx) => ReadCells(d, f, n, Len(idx))[k + 1] = <<"entry", idx[k + 1]>>
<1> DEFINE s == StartOf(d, f)
           c == Len(idx)
<1>1. s \in Nat /\ c \in Nat
  BY PlaceType, LenProperties
<1>2. /\ Cell(d, s) = <<"header", c, n>>
      /\ \A k \in Nat : k < c => Cell(d, s + n + k) = <<"entry", idx[k + 1]>>
  BY DEF Formed
<1>s. StartOf(d, f) = s
  OBVIOUS
<1> HIDE DEF s, c
<1>3. ReadCells(d, f, 0, 1)[1] = <<"header", c, n>>
  <2> DEFINE r == ReadCells(d, f, 0, 1)
  <2>1. \A k \in Nat : k < 1 => r[k + 1] = Cell(d, s + 0 + k)
    <3>1. 0 \in Nat /\ 1 \in Nat
      OBVIOUS
    <3> QED
      BY <1>1, <1>s, <3>1, ReadingCells
  <2> HIDE DEF r
  <2>2. 0 \in Nat /\ 0 < 1 /\ 0 + 1 = 1 /\ s + 0 + 0 = s
    BY <1>1
  <2>3. r[1] = Cell(d, s)
    BY <2>1, <2>2
  <2> QED
    BY <1>2, <2>3 DEF r
<1>4. \A k \in Nat : k < c => ReadCells(d, f, n, c)[k + 1] = Cell(d, s + n + k)
  BY <1>1, <1>s, ReadingCells
<1>5. \A k \in Nat : k < c => ReadCells(d, f, n, c)[k + 1] = <<"entry", idx[k + 1]>>
  BY <1>2, <1>4
<1> QED
  BY <1>3, <1>5 DEF c

\* ReadIndex gives the index that was written.
LEMMA HeaderRead ==
    ASSUME Flat, NEW d \in Disks, NEW f \in Files, Placed(d, f),
           NEW idx \in Seq(Entries), NEW n \in Nat, Formed(d, StartOf(d, f), idx, n)
    PROVE  LET e == ReadHeader(d, f)
           IN  Relisted(d, e, f) /\ e.index[f] = idx /\ e.end[f] = n /\ e.ok = d.ok
<1> DEFINE h == ReadCells(d, f, 0, 1)[1]
           b == ReadCells(d, f, h[3], h[2])
           x == [i \in 1 .. h[2] |-> b[i][2]]
<1>1. Len(idx) \in Nat /\ DOMAIN idx = 1 .. Len(idx)
  BY LenProperties
<1>3. h = <<"header", Len(idx), n>>
  BY HeaderCells
<1>4. h[2] = Len(idx) /\ h[3] = n
  BY <1>3
<1> HIDE DEF h
<1>5. \A k \in Nat : k < Len(idx) => b[k + 1] = <<"entry", idx[k + 1]>>
  BY <1>4, HeaderCells
<1> HIDE DEF b
<1>6. x = idx
  <2>1. x = [i \in 1 .. Len(idx) |-> x[i]] /\ idx = [i \in 1 .. Len(idx) |-> idx[i]]
    BY <1>1, <1>4
  <2>2. ASSUME NEW i \in 1 .. Len(idx)
        PROVE  x[i] = idx[i]
    <3>1. i - 1 \in Nat /\ i - 1 < Len(idx) /\ i - 1 + 1 = i
      BY <1>1
    <3>2. b[i] = <<"entry", idx[i]>>
      BY <1>5, <3>1
    <3>3. x[i] = b[i][2]
      BY <1>4
    <3> QED
      BY <3>2, <3>3
  <2> HIDE DEF x
  <2> QED
    BY <2>1, <2>2
<1>7. ReadHeader(d, f) = [d EXCEPT !.end[f] = n, !.index[f] = idx]
  <2>1. ReadHeader(d, f) = [d EXCEPT !.end[f] = h[3], !.index[f] = x]
    BY DEF ReadHeader, h, b
  <2> HIDE DEF x
  <2> QED
    BY <1>4, <1>6, <2>1
<1> HIDE DEF x
<1> DEFINE e == ReadHeader(d, f)
<1>e. e = [d EXCEPT !.end[f] = n, !.index[f] = idx]
  BY <1>7
<1> HIDE DEF e
<1>8. e.index = [d.index EXCEPT ![f] = idx] /\ e.end = [d.end EXCEPT ![f] = n]
  BY <1>e DEF Disks
<1>9. e.cells = d.cells /\ e.ok = d.ok
  BY <1>e DEF Disks
<1>10. d.index \in [Files -> Seq(Entries)] /\ d.end \in [Files -> Nat]
  BY DEF Disks
<1>11. e.index \in [Files -> Seq(Entries)] /\ e.end \in [Files -> Nat]
  BY <1>8, <1>10
<1>12. e \in Disks
  BY <1>e, <1>9, <1>11 DEF Disks
<1> QED
  BY <1>8, <1>9, <1>10, <1>12 DEF Relisted, e

\* Its reading does not leave the file, and finds entries.
LEMMA HeaderThere ==
    ASSUME Flat, NEW d \in Disks, NEW f \in Files, Placed(d, f),
           NEW idx \in Seq(Entries), NEW n \in Nat, Formed(d, StartOf(d, f), idx, n),
           n >= 1, n + Len(idx) <= LengthOf(d, f)
    PROVE  HeaderReadable(d, f) = TRUE
<1> DEFINE h == ReadCells(d, f, 0, 1)[1]
           c == Len(idx)
           b == ReadCells(d, f, h[3], h[2])
<1>1. c \in Nat /\ LengthOf(d, f) \in Nat /\ n + c <= LengthOf(d, f)
  BY PlaceType, LenProperties
<1>2. h[1] = "header" /\ h[2] = c /\ h[3] = n
  <2>1. h = <<"header", c, n>>
    BY HeaderCells
  <2> QED
    BY <2>1
<1> HIDE DEF h
<1>3. \A k \in Nat : k < c => b[k + 1] = <<"entry", idx[k + 1]>>
  BY <1>2, HeaderCells
<1> HIDE DEF b, c
<1>4. ASSUME NEW i \in 1 .. h[2]
      PROVE  b[i][1] = "entry"
  <2>1. i - 1 \in Nat /\ i - 1 < c /\ i - 1 + 1 = i
    BY <1>1, <1>2
  <2>2. b[i] = <<"entry", idx[i]>>
    BY <1>3, <2>1
  <2> QED
    BY <2>2
<1>5. Readable(d, f, 0, HeaderLength) /\ Readable(d, f, h[3], h[2])
  <2>1. 0 + 1 <= LengthOf(d, f) /\ 0 \in Nat /\ 1 \in Nat
    BY <1>1
  <2>2. Readable(d, f, 0, 1) /\ Readable(d, f, n, c)
    BY <1>1, <2>1, MarksHold
  <2> QED
    BY <1>2, <2>2 DEF HeaderLength
<1>6. HeaderReadable(d, f) =
         /\ Readable(d, f, 0, HeaderLength)
         /\ h[1] = "header" /\ Readable(d, f, h[3], h[2])
         /\ \A i \in 1 .. h[2] : b[i][1] = "entry"
  BY DEF HeaderReadable, h, b
<1> QED
  BY <1>2, <1>4, <1>5, <1>6

\* A file is stored in the cells from s on, as many as l.
Image(d, s, l) ==
    \E idx \in Seq(Entries), n \in Nat :
        Formed(d, s, idx, n) /\ Laid(d, s, idx, n) /\ Named(idx) /\ l = n + Len(idx)

\* The header, the index and the sizes of the elements are the same elsewhere.
LEMMA StoredElsewhere ==
    ASSUME NEW d, NEW e, NEW s \in Nat, NEW t \in Nat, NEW idx \in Seq(Entries), NEW n \in Nat,
           Laid(d, s, idx, n),
           Run(d, s, e, t, n + Len(idx))
    PROVE  Laid(e, t, idx, n) /\ (Formed(d, s, idx, n) => Formed(e, t, idx, n))
<1>r. \A j \in Nat : j < n + Len(idx) => Cell(e, t + j) = Cell(d, s + j)
  BY DEF Run
<1>1. Len(idx) \in Nat /\ n >= 1 /\ \A i \in DOMAIN idx : idx[i] \in Entries
  BY LenProperties, ElementOfSeq DEF Laid
<1>2. ASSUME NEW i \in DOMAIN idx
      PROVE  Cell(e, t + idx[i].offset) = Cell(d, s + idx[i].offset)
  <2>1. idx[i].offset \in Nat
    BY <1>1 DEF Entries
  <2>2. IsSize(d, s + idx[i].offset) /\ idx[i].offset + 1 + SizeAt(d, s + idx[i].offset) <= n
    BY DEF Laid
  <2>3. SizeAt(d, s + idx[i].offset) \in Nat
    BY <2>2, SizeType
  <2>4. idx[i].offset < n + Len(idx)
    BY <1>1, <2>1, <2>2, <2>3
  <2> QED
    BY <1>r, <2>1, <2>4
<1>3. Laid(e, t, idx, n)
  BY <1>2, LaidKept
<1>4. ASSUME Formed(d, s, idx, n)
      PROVE  Formed(e, t, idx, n)
  <2>1. Cell(e, t) = Cell(d, s)
    <3>1. 0 \in Nat /\ 0 < n + Len(idx) /\ t + 0 = t /\ s + 0 = s
      BY <1>1
    <3>2. Cell(e, t + 0) = Cell(d, s + 0)
      BY <1>r, <3>1
    <3> QED
      BY <3>1, <3>2
  <2>2. ASSUME NEW k \in Nat, k < Len(idx)
        PROVE  Cell(e, t + n + k) = Cell(d, s + n + k)
    <3>1. n + k \in Nat /\ n + k < n + Len(idx) /\ t + (n + k) = t + n + k /\ s + (n + k) = s + n + k
      BY <1>1, <2>2
    <3>2. Cell(e, t + (n + k)) = Cell(d, s + (n + k))
      BY <1>r, <3>1
    <3> QED
      BY <3>1, <3>2
  <2> QED
    BY <1>4, <2>1, <2>2 DEF Formed
<1> QED
  BY <1>3, <1>4

\* What was copied starts again one cell further.
LEMMA CopiedData ==
    ASSUME NEW d, NEW e, NEW k \in Nat, NEW m \in Nat, SizeAt(d, k) \in Nat, Copied(d, k, e, m)
    PROVE  /\ SizeAt(e, m) = SizeAt(d, k)
           /\ Run(d, k + 1, e, m + 1, SizeAt(d, k))
<1>1. Cell(e, m) = Cell(d, k)
  <2>1. 0 \in Nat /\ 0 <= SizeAt(d, k) /\ m + 0 = m /\ k + 0 = k
    OBVIOUS
  <2>2. Cell(e, m + 0) = Cell(d, k + 0)
    BY <2>1 DEF Copied
  <2> QED
    BY <2>1, <2>2
<1>2. ASSUME NEW j \in Nat, j < SizeAt(d, k)
      PROVE  Cell(e, m + 1 + j) = Cell(d, k + 1 + j)
  <2>1. 1 + j \in Nat /\ 1 + j <= SizeAt(d, k) /\ m + (1 + j) = m + 1 + j /\ k + (1 + j) = k + 1 + j
    BY <1>2
  <2>2. Cell(e, m + (1 + j)) = Cell(d, k + (1 + j))
    BY <2>1 DEF Copied
  <2> QED
    BY <2>1, <2>2
<1> QED
  BY <1>1, <1>2 DEF SizeAt, Run

\* A file that is copied as an element of another one is still a file.
LEMMA ImageCopied ==
    ASSUME NEW d, NEW e, NEW k \in Nat, NEW m \in Nat, SizeAt(d, k) \in Nat, Copied(d, k, e, m),
           Image(d, k + 1, SizeAt(d, k))
    PROVE  Image(e, m + 1, SizeAt(e, m))
<1> DEFINE s == k + 1
           t == m + 1
           l == SizeAt(d, k)
<1>1. PICK idx \in Seq(Entries), n \in Nat :
         Formed(d, s, idx, n) /\ Laid(d, s, idx, n) /\ Named(idx) /\ l = n + Len(idx)
  BY DEF Image
<1>2. SizeAt(e, m) = l /\ Run(d, s, e, t, l)
  BY CopiedData
<1>3. s \in Nat /\ t \in Nat
  OBVIOUS
<1> HIDE DEF s, t, l
<1>4. Run(d, s, e, t, n + Len(idx))
  BY <1>1, <1>2
<1>5. Laid(e, t, idx, n) /\ (Formed(d, s, idx, n) => Formed(e, t, idx, n))
  BY <1>1, <1>3, <1>4, StoredElsewhere
<1>6. Image(e, t, l)
  BY <1>1, <1>5 DEF Image
<1> QED
  BY <1>2, <1>6 DEF t

-----------------------------------------------------------------------------
(* The state of the files.                                                 *)

\* An element that holds a file has its ID, and when it is not open the file is there.
KeptIn(d, idx, opened) ==
    \A i \in DOMAIN idx : idx[i].type = "file" =>
        idx[i].id = FileID /\ (opened \/ Image(d, idx[i].offset + 1, SizeAt(d, idx[i].offset)))

HoldsFile(d) == \E i \in DOMAIN d.index[Base] : d.index[Base][i].id = FileID /\ d.index[Base][i].type = "file"

NoIndex(d, S) == \A f \in Files \ S : d.index[f] = <<>>

\* The base file is open, and no other.
BaseState(d) ==
    /\ d \in Disks /\ d.ok /\ NoIndex(d, {Base})
    /\ FileOK(d, Base) /\ KeptIn(d, d.index[Base], FALSE)

\* There is an element for file g in it.
InnerPlace(d, g) ==
    /\ d \in Disks /\ d.ok /\ NoIndex(d, {Base, g})
    /\ FileOK(d, Base) /\ KeptIn(d, d.index[Base], TRUE) /\ HoldsFile(d)

\* File g is open, too.
InnerState(d, g) == InnerPlace(d, g) /\ FileOK(d, g)

\* The base file starts where the disk does.
LEMMA BasePlaced ==
    \A d : Placed(d, Base) /\ StartOf(d, Base) = 0 /\ Base \in Files
BY FileLayoutAssumption DEF Placed, StartOf

\* The element for an embedded file is its place.
LEMMA InnerPlaced ==
    ASSUME NEW d, NEW g, FileOK(d, Base), HoldsFile(d)
    PROVE  Placed(d, g)
BY DEF Placed, HoldsFile, IDToIndex

\* An element of the base file starts with its size.
LEMMA BaseElement ==
    ASSUME NEW d \in Disks, FileOK(d, Base), NEW i \in DOMAIN d.index[Base]
    PROVE  /\ d.index[Base][i].offset \in Nat /\ SizeAt(d, d.index[Base][i].offset) \in Nat
           /\ Off(d, Base, i) = d.index[Base][i].offset
           /\ StartOf(d, Base) + Off(d, Base, i) = d.index[Base][i].offset
<1>1. Off(d, Base, i) \in Nat /\ SizeAt(d, Off(d, Base, i)) \in Nat
  BY BaseSizes
<1>2. Off(d, Base, i) = d.index[Base][i].offset
  BY DEF Off
<1> QED
  BY <1>1, <1>2, BasePlaced

\* A copied element holds the same file.
LEMMA SameImage ==
    ASSUME NEW d \in Disks, FileOK(d, Base), NEW e \in Disks, FileOK(e, Base),
           NEW i \in DOMAIN d.index[Base], NEW j \in DOMAIN e.index[Base], SameElement(d, e, Base, i, j),
           Image(d, d.index[Base][i].offset + 1, SizeAt(d, d.index[Base][i].offset))
    PROVE  Image(e, e.index[Base][j].offset + 1, SizeAt(e, e.index[Base][j].offset))
<1> DEFINE k == d.index[Base][i].offset
           m == e.index[Base][j].offset
<1>1. k \in Nat /\ SizeAt(d, k) \in Nat /\ m \in Nat /\ Copied(d, k, e, m)
  BY BaseElement DEF SameElement
<1>2. Image(d, k + 1, SizeAt(d, k))
  OBVIOUS
<1> HIDE DEF k, m
<1>3. Image(e, m + 1, SizeAt(e, m))
  BY <1>1, <1>2, ImageCopied
<1> QED
  BY <1>3 DEF m

\* The elements that hold files still hold them.
LEMMA KeptAgain ==
    ASSUME NEW d \in Disks, FileOK(d, Base), NEW e \in Disks, FileOK(e, Base),
           Descends(d, e, Base), NEW opened \in BOOLEAN, KeptIn(d, d.index[Base], opened)
    PROVE  KeptIn(e, e.index[Base], opened)
<1>1. ASSUME NEW j \in DOMAIN e.index[Base], e.index[Base][j].type = "file"
      PROVE  /\ e.index[Base][j].id = FileID
             /\ opened \/ Image(e, e.index[Base][j].offset + 1, SizeAt(e, e.index[Base][j].offset))
  <2>1. PICK i \in DOMAIN d.index[Base] : SameElement(d, e, Base, i, j)
    BY <1>1 DEF Descends
  <2>2. d.index[Base][i].type = "file" /\ d.index[Base][i].id = e.index[Base][j].id
    BY <1>1, <2>1 DEF SameElement
  <2>3. /\ d.index[Base][i].id = FileID
        /\ opened \/ Image(d, d.index[Base][i].offset + 1, SizeAt(d, d.index[Base][i].offset))
    BY <2>2 DEF KeptIn
  <2> QED
    BY <2>1, <2>2, <2>3, SameImage
<1> QED
  BY <1>1 DEF KeptIn

\* Something is done with the base file alone.
LEMMA BaseChanged ==
    ASSUME Flat, NEW d, BaseState(d), NEW e, NEW x, Made(d, e, Base, x)
    PROVE  BaseState(e)
<1>1. /\ d \in Disks /\ d.ok /\ NoIndex(d, {Base}) /\ FileOK(d, Base) /\ KeptIn(d, d.index[Base], FALSE)
  BY DEF BaseState
<1>2. /\ e \in Disks /\ (d.ok => e.ok) /\ Around(d, e, Base) /\ FileOK(e, Base) /\ Descends(d, e, Base)
  BY DEF Made, Within
<1>3. NoIndex(e, {Base})
  BY <1>1, <1>2 DEF Around, NoIndex
<1>4. KeptIn(e, e.index[Base], FALSE)
  BY <1>1, <1>2, KeptAgain
<1> QED
  BY <1>1, <1>2, <1>3, <1>4 DEF BaseState

\* The element with the embedded file, when one is open.
LEMMA TheFile ==
    ASSUME Flat, NEW d \in Disks, NEW g \in Files \ {Base}, FileOK(d, Base), HoldsFile(d)
    PROVE  LET i == ElementOf(d, g)
           IN  /\ i \in DOMAIN d.index[Base] /\ d.index[Base][i].id = FileID /\ d.index[Base][i].type = "file"
               /\ \A j \in DOMAIN d.index[Base] : d.index[Base][j].id = FileID => j = i
               /\ StartOf(d, g) = d.index[Base][i].offset + 1
               /\ LengthOf(d, g) = SizeAt(d, d.index[Base][i].offset)
<1> DEFINE i == ElementOf(d, g)
<1>1. Placed(d, g)
  BY InnerPlaced
<1>2. /\ i \in DOMAIN d.index[Base] /\ d.index[Base][i].id = FileID
      /\ \A j \in DOMAIN d.index[Base] : d.index[Base][j].id = FileID => j = i
      /\ StartOf(d, g) = Off(d, Base, i) + 1
      /\ LengthOf(d, g) = SizeAt(d, Off(d, Base, i))
  BY <1>1, TheElement
<1>3. PICK j \in DOMAIN d.index[Base] : d.index[Base][j].id = FileID /\ d.index[Base][j].type = "file"
  BY DEF HoldsFile
<1> QED
  BY <1>2, <1>3 DEF Off

\* What is asserted of it holds.
LEMMA PlaceThere ==
    ASSUME Flat, NEW d \in Disks, NEW g \in Files \ {Base}, FileOK(d, Base), HoldsFile(d)
    PROVE  HasPlace(d, g) = TRUE
<1>1. EnclosedBy[g] = Base
  BY DEF Flat
<1>2. /\ ElementOf(d, g) \in DOMAIN d.index[Base] /\ d.index[Base][ElementOf(d, g)].id = FileID
      /\ d.index[Base][ElementOf(d, g)].type = "file"
      /\ \A j \in DOMAIN d.index[Base] : d.index[Base][j].id = FileID => j = ElementOf(d, g)
  BY TheFile
<1>3. IDToIndex(d, Base, FileID) = {ElementOf(d, g)}
  BY <1>2 DEF IDToIndex
<1> QED
  BY <1>1, <1>2, <1>3 DEF HasPlace

\* Something is done with the base file while file g is open.
LEMMA AroundInner ==
    ASSUME Flat, NEW d, NEW g \in Files \ {Base}, InnerState(d, g), NEW e, NEW x, Made(d, e, Base, x),
           x \in DOMAIN d.index[Base] => d.index[Base][x].type # "file"
    PROVE  InnerState(e, g)
<1>1. /\ d \in Disks /\ d.ok /\ NoIndex(d, {Base, g}) /\ FileOK(d, Base) /\ KeptIn(d, d.index[Base], TRUE)
      /\ HoldsFile(d) /\ FileOK(d, g)
  BY DEF InnerState, InnerPlace
<1>2. /\ e \in Disks /\ (d.ok => e.ok) /\ Around(d, e, Base) /\ FileOK(e, Base)
      /\ Descends(d, e, Base) /\ Remains(d, e, Base, x)
  BY DEF Made, Within
<1>3. NoIndex(e, {Base, g}) /\ e.index[g] = d.index[g] /\ e.end[g] = d.end[g]
  BY <1>1, <1>2 DEF Around, NoIndex
<1>4. KeptIn(e, e.index[Base], TRUE)
  BY <1>1, <1>2, KeptAgain
<1> DEFINE i == ElementOf(d, g)
           k == d.index[Base][i].offset
<1>5. /\ i \in DOMAIN d.index[Base] /\ d.index[Base][i].id = FileID /\ d.index[Base][i].type = "file"
      /\ StartOf(d, g) = k + 1 /\ LengthOf(d, g) = SizeAt(d, k)
  BY <1>1, TheFile
<1>6. PICK j \in DOMAIN e.index[Base] : SameElement(d, e, Base, i, j)
  BY <1>2, <1>5 DEF Remains
<1>7. e.index[Base][j].id = FileID /\ e.index[Base][j].type = "file"
  BY <1>5, <1>6 DEF SameElement
<1>8. HoldsFile(e)
  BY <1>7 DEF HoldsFile
<1>9. Placed(e, g)
  BY <1>2, <1>8, InnerPlaced
<1> DEFINE m == e.index[Base][j].offset
<1>10. StartOf(e, g) = m + 1 /\ LengthOf(e, g) = SizeAt(e, m)
  <2>1. j = ElementOf(e, g)
    BY <1>2, <1>7, <1>8, TheFile
  <2> QED
    BY <1>2, <1>8, <2>1, TheFile
<1>11. k \in Nat /\ SizeAt(d, k) \in Nat /\ m \in Nat /\ Copied(d, k, e, m)
  BY <1>1, <1>2, <1>5, <1>6, BaseElement DEF SameElement
<1> HIDE DEF i, k, m
<1>12. SizeAt(e, m) = SizeAt(d, k) /\ Run(d, k + 1, e, m + 1, SizeAt(d, k))
  BY <1>11, CopiedData
<1> DEFINE idx == d.index[g]
           n   == d.end[g]
<1>13. idx \in Seq(Entries) /\ n \in Nat
  BY <1>1, IndexType
<1>14. Laid(d, k + 1, idx, n) /\ Named(idx) /\ SizeAt(d, k) = n + Len(idx)
  BY <1>1, <1>5 DEF FileOK
<1> HIDE DEF idx, n
<1> DEFINE s == k + 1
           t == m + 1
<1>15. s \in Nat /\ t \in Nat /\ Laid(d, s, idx, n) /\ Run(d, s, e, t, n + Len(idx))
  BY <1>11, <1>12, <1>14
<1> HIDE DEF s, t
<1>16. Laid(e, t, idx, n)
  BY <1>13, <1>15, StoredElsewhere
<1>17. FileOK(e, g)
  BY <1>3, <1>10, <1>12, <1>14, <1>16 DEF FileOK, idx, n, t
<1> QED
  BY <1>1, <1>2, <1>3, <1>4, <1>8, <1>17 DEF InnerState, InnerPlace

\* Something is done with the embedded file.
LEMMA InnerChanged ==
    ASSUME Flat, NEW d, NEW g \in Files \ {Base}, InnerPlace(d, g), NEW e, Within(d, e, g), FileOK(e, g)
    PROVE  InnerState(e, g)
<1>1. /\ d \in Disks /\ d.ok /\ NoIndex(d, {Base, g}) /\ FileOK(d, Base) /\ KeptIn(d, d.index[Base], TRUE)
      /\ HoldsFile(d)
  BY DEF InnerPlace
<1>2. /\ e \in Disks /\ (d.ok => e.ok) /\ Around(d, e, g) /\ Placed(e, g)
  BY DEF Within
<1>3. FileOK(e, Base)
  BY <1>2 DEF Placed
<1>4. NoIndex(e, {Base, g})
  BY <1>1, <1>2 DEF Around, NoIndex
<1>5. /\ DOMAIN e.index[Base] = DOMAIN d.index[Base]
      /\ \A i \in DOMAIN d.index[Base] :
            e.index[Base][i].id = d.index[Base][i].id /\ e.index[Base][i].type = d.index[Base][i].type
  <2>1. Base \in Files
    BY FileLayoutAssumption
  <2>2. /\ Len(e.index[Base]) = Len(d.index[Base])
        /\ \A i \in 1 .. Len(d.index[Base]) :
              e.index[Base][i].id = d.index[Base][i].id /\ e.index[Base][i].type = d.index[Base][i].type
    BY <1>2 DEF Around
  <2>3. DOMAIN e.index[Base] = 1 .. Len(e.index[Base]) /\ DOMAIN d.index[Base] = 1 .. Len(d.index[Base])
    BY <1>1, <1>2, <2>1, IndexType
  <2> QED
    BY <2>2, <2>3
<1>6. KeptIn(e, e.index[Base], TRUE) /\ HoldsFile(e)
  BY <1>1, <1>5 DEF KeptIn, HoldsFile
<1> QED
  BY <1>1, <1>2, <1>3, <1>4, <1>6 DEF InnerState, InnerPlace

\* No file is open.
ClosedBase(d, idx, n) ==
    /\ Formed(d, 0, idx, n) /\ Laid(d, 0, idx, n) /\ Named(idx)
    /\ Len(d.cells) = n + Len(idx) /\ KeptIn(d, idx, FALSE)

ClosedState(d) ==
    /\ d \in Disks /\ d.ok /\ NoIndex(d, {})
    /\ d.cells = <<>> \/ \E idx \in Seq(Entries), n \in Nat : ClosedBase(d, idx, n)

\* What is said of the cells only.
LEMMA SameDisk ==
    ASSUME NEW d, NEW e, e.cells = d.cells
    PROVE  /\ \A k : Cell(e, k) = Cell(d, k)
           /\ \A s, idx, n : (Laid(d, s, idx, n) => Laid(e, s, idx, n)) /\ (Formed(d, s, idx, n) => Formed(e, s, idx, n))
           /\ \A s, l : Image(d, s, l) => Image(e, s, l)
           /\ \A idx, opened : KeptIn(d, idx, opened) => KeptIn(e, idx, opened)
<1>1. \A k : Cell(e, k) = Cell(d, k)
  BY DEF Cell
<1>2. \A k : SizeAt(e, k) = SizeAt(d, k) /\ (IsSize(d, k) => IsSize(e, k))
  BY <1>1 DEF SizeAt, IsSize
<1>3. ASSUME NEW s, NEW idx, NEW n, Laid(d, s, idx, n)
      PROVE  Laid(e, s, idx, n)
  BY <1>2, <1>3 DEF Laid
<1>4. ASSUME NEW s, NEW idx, NEW n, Formed(d, s, idx, n)
      PROVE  Formed(e, s, idx, n)
  BY <1>1, <1>4 DEF Formed
<1>5. ASSUME NEW s, NEW l, Image(d, s, l)
      PROVE  Image(e, s, l)
  <2>1. PICK idx \in Seq(Entries), n \in Nat :
           Formed(d, s, idx, n) /\ Laid(d, s, idx, n) /\ Named(idx) /\ l = n + Len(idx)
    BY <1>5 DEF Image
  <2> QED
    BY <1>3, <1>4, <2>1 DEF Image
<1>6. ASSUME NEW idx, NEW opened, KeptIn(d, idx, opened)
      PROVE  KeptIn(e, idx, opened)
  BY <1>2, <1>5, <1>6 DEF KeptIn
<1> QED
  BY <1>1, <1>3, <1>4, <1>5, <1>6

\* The index in memory is given up when the file is closed.
Shut(d, f) == [Flush(d, f) EXCEPT !.index[f] = <<>>, !.end[f] = 0]

\* Giving the index up changes nothing on the disk.
LEMMA ShutIndex ==
    ASSUME Flat, NEW d \in Disks, NEW f \in Files, Flush(d, f) \in Disks
    PROVE  /\ Relisted(Flush(d, f), Shut(d, f), f) /\ Shut(d, f).index[f] = <<>>
           /\ Shut(d, f).ok = Flush(d, f).ok
<1> DEFINE e == Flush(d, f)
           z == <<>>
           n == 0
           w == Indexed(e, f, z, n)
<1>1. e \in Disks /\ z \in Seq(Entries) /\ n \in Nat
  OBVIOUS
<1>2. Shut(d, f) = w
  BY DEF Shut, Indexed
<1> HIDE DEF e, z, n
<1>3. Relisted(e, w, f) /\ w.index[f] = z /\ w.ok = e.ok
  BY <1>1, NewIndex
<1> HIDE DEF w
<1> QED
  BY <1>2, <1>3 DEF e, z

\* An embedded file is closed.
LEMMA InnerShut ==
    ASSUME Flat, NEW d, NEW g \in Files \ {Base}, InnerState(d, g)
    PROVE  BaseState(Shut(d, g)) /\ HoldsFile(Shut(d, g))
<1>1. /\ d \in Disks /\ d.ok /\ NoIndex(d, {Base, g}) /\ FileOK(d, Base) /\ KeptIn(d, d.index[Base], TRUE)
      /\ HoldsFile(d) /\ FileOK(d, g) /\ Placed(d, g)
  BY InnerPlaced DEF InnerState, InnerPlace
<1> DEFINE e == Flush(d, g)
           w == Shut(d, g)
           i == ElementOf(d, g)
           k == d.index[Base][i].offset
<1>2. /\ i \in DOMAIN d.index[Base]
      /\ \A j \in DOMAIN d.index[Base] : d.index[Base][j].id = FileID => j = i
      /\ StartOf(d, g) = k + 1
  BY <1>1, TheFile
<1>3. Made(d, e, g, 0) /\ Inside(d, e, g) /\ Formed(e, StartOf(d, g), d.index[g], d.end[g])
  BY <1>1, FlushMade
<1>4. /\ e \in Disks /\ e.ok /\ e.index = d.index /\ e.end = d.end /\ FileOK(e, g) /\ StartOf(e, g) = k + 1
      /\ FileOK(e, Base)
  BY <1>1, <1>2, <1>3 DEF Made, Within, Inside, Placed
<1>5. LengthOf(e, g) = SizeAt(e, k)
  <2>1. HoldsFile(e) /\ ElementOf(e, g) = i
    BY <1>1, <1>4 DEF HoldsFile, ElementOf, IDToIndex
  <2>2. LengthOf(e, g) = SizeAt(e, e.index[Base][ElementOf(e, g)].offset)
    BY <1>4, <2>1, TheFile
  <2> QED
    BY <1>4, <2>1, <2>2
<1>6. Image(e, k + 1, SizeAt(e, k))
  <2>1. d.index[g] \in Seq(Entries) /\ d.end[g] \in Nat
    BY <1>1, IndexType
  <2>2. Laid(e, k + 1, d.index[g], d.end[g]) /\ Named(d.index[g]) /\ SizeAt(e, k) = d.end[g] + Len(d.index[g])
    BY <1>4, <1>5 DEF FileOK
  <2>3. Formed(e, k + 1, d.index[g], d.end[g])
    BY <1>2, <1>3
  <2> HIDE DEF e, i, k
  <2> QED
    BY <2>1, <2>2, <2>3 DEF Image
<1>7. KeptIn(e, d.index[Base], FALSE)
  <2>1. ASSUME NEW j \in DOMAIN d.index[Base], d.index[Base][j].type = "file"
        PROVE  /\ d.index[Base][j].id = FileID
               /\ Image(e, d.index[Base][j].offset + 1, SizeAt(e, d.index[Base][j].offset))
    <3>1. d.index[Base][j].id = FileID
      BY <1>1, <2>1 DEF KeptIn
    <3>2. j = i
      BY <1>2, <3>1
    <3> QED
      BY <1>6, <3>1, <3>2
  <2> HIDE DEF e
  <2> QED
    BY <2>1 DEF KeptIn
<1> HIDE DEF e, i, k
<1>8. Relisted(e, w, g) /\ w.index[g] = <<>> /\ w.ok = e.ok
  BY <1>1, <1>4, ShutIndex DEF e
<1> HIDE DEF w
<1>9. /\ w \in Disks /\ w.cells = e.cells /\ w.ok
      /\ \A x \in Files \ {g} : w.index[x] = d.index[x] /\ w.end[x] = d.end[x]
  BY <1>4, <1>8 DEF Relisted
<1>10. NoIndex(w, {Base})
  BY <1>1, <1>8, <1>9 DEF NoIndex
<1>11. w.index[Base] = d.index[Base] /\ w.end[Base] = d.end[Base] /\ Base \in Files
  BY <1>9, BasePlaced
<1>12. KeptIn(w, w.index[Base], FALSE)
  BY <1>7, <1>9, <1>11, SameDisk
<1>13. FileOK(w, Base)
  <2>1. Laid(e, 0, d.index[Base], d.end[Base]) /\ Named(d.index[Base]) /\ LengthOf(e, Base) = d.end[Base] + Len(d.index[Base])
    BY <1>4, BasePlaced DEF FileOK
  <2>2. Laid(w, 0, d.index[Base], d.end[Base])
    BY <1>9, <2>1, SameDisk
  <2>3. LengthOf(w, Base) = LengthOf(e, Base)
    BY <1>9 DEF LengthOf
  <2> QED
    BY <1>11, <2>1, <2>2, <2>3, BasePlaced DEF FileOK
<1>14. HoldsFile(w)
  BY <1>1, <1>11 DEF HoldsFile
<1> QED
  BY <1>9, <1>10, <1>12, <1>13, <1>14 DEF BaseState, w

\* The base file is closed.
LEMMA BaseShut ==
    ASSUME Flat, NEW d, BaseState(d)
    PROVE  ClosedState(Shut(d, Base))
<1>1. /\ d \in Disks /\ d.ok /\ NoIndex(d, {Base}) /\ FileOK(d, Base) /\ KeptIn(d, d.index[Base], FALSE)
  BY DEF BaseState
<1> DEFINE e == Flush(d, Base)
           w == Shut(d, Base)
           idx == d.index[Base]
           n == d.end[Base]
<1>2. Made(d, e, Base, 0) /\ Inside(d, e, Base) /\ Formed(e, StartOf(d, Base), d.index[Base], d.end[Base])
  BY <1>1, BasePlaced, FlushMade
<1>3. /\ e.index = d.index /\ e.end = d.end /\ FileOK(e, Base) /\ e \in Disks /\ e.ok
  BY <1>1, <1>2 DEF Made, Inside
<1>4. KeptIn(e, idx, FALSE)
  <2>1. KeptIn(e, e.index[Base], FALSE)
    BY <1>1, <1>2, <1>3, KeptAgain DEF Made
  <2> QED
    BY <1>3, <2>1
<1>5. Formed(e, 0, idx, n) /\ Laid(e, 0, idx, n) /\ Named(idx) /\ LengthOf(e, Base) = n + Len(idx)
  BY <1>2, <1>3, BasePlaced DEF FileOK
<1>6. idx \in Seq(Entries) /\ n \in Nat
  BY <1>1, BasePlaced, IndexType
<1>7. Relisted(e, w, Base) /\ w.index[Base] = <<>> /\ w.ok = e.ok
  BY <1>1, <1>3, BasePlaced, ShutIndex
<1>n. \A x \in Files \ {Base} : d.index[x] = <<>> /\ e.index[x] = d.index[x]
  BY <1>1, <1>3 DEF NoIndex
<1> HIDE DEF w, e, idx, n
<1>8. w \in Disks /\ w.cells = e.cells /\ w.ok /\ \A x \in Files \ {Base} : w.index[x] = <<>>
  BY <1>3, <1>7, <1>n DEF Relisted
<1>9. NoIndex(w, {})
  BY <1>7, <1>8 DEF NoIndex
<1>10. Len(w.cells) = n + Len(idx)
  BY <1>5, <1>8 DEF LengthOf
<1>11. ClosedBase(w, idx, n)
  BY <1>4, <1>5, <1>8, <1>10, SameDisk DEF ClosedBase
<1> QED
  BY <1>6, <1>8, <1>9, <1>11 DEF ClosedState, w

\* The base file is opened.
LEMMA BaseOpened ==
    ASSUME Flat, NEW d, ClosedState(d), d.cells # <<>>
    PROVE  LET e == ReadHeader(d, Base)
           IN  /\ BaseState(e) /\ Formed(e, 0, e.index[Base], e.end[Base])
               /\ Asserted(d, HeaderReadable(d, Base)) = d
<1> DEFINE e == ReadHeader(d, Base)
<1>1. d \in Disks /\ d.ok /\ NoIndex(d, {})
  BY DEF ClosedState
<1>2. PICK idx \in Seq(Entries), n \in Nat : ClosedBase(d, idx, n)
  BY DEF ClosedState
<1>3. /\ Formed(d, 0, idx, n) /\ Laid(d, 0, idx, n) /\ Named(idx)
      /\ Len(d.cells) = n + Len(idx) /\ KeptIn(d, idx, FALSE)
  BY <1>2 DEF ClosedBase
<1>4. Relisted(d, e, Base) /\ e.index[Base] = idx /\ e.end[Base] = n /\ e.ok = d.ok
  <2>1. Formed(d, StartOf(d, Base), idx, n)
    BY <1>3, BasePlaced
  <2> QED
    BY <1>1, <2>1, BasePlaced, HeaderRead
<1>a. Asserted(d, HeaderReadable(d, Base)) = d
  <2>1. Formed(d, StartOf(d, Base), idx, n) /\ n >= 1 /\ LengthOf(d, Base) = n + Len(idx)
    BY <1>3, BasePlaced DEF Laid, LengthOf
  <2>2. n + Len(idx) <= LengthOf(d, Base)
    <3>1. Len(idx) \in Nat
      BY LenProperties
    <3> QED
      BY <2>1, <3>1
  <2>3. HeaderReadable(d, Base) = TRUE
    BY <1>1, <2>1, <2>2, BasePlaced, HeaderThere
  <2> QED
    BY <1>1, <2>3, Sure
<1> HIDE DEF e
<1>5. /\ e \in Disks /\ e.ok /\ e.cells = d.cells
      /\ \A x \in Files \ {Base} : e.index[x] = d.index[x]
  BY <1>1, <1>4 DEF Relisted
<1>6. NoIndex(e, {Base})
  BY <1>1, <1>5 DEF NoIndex
<1>7. Formed(e, 0, idx, n) /\ Laid(e, 0, idx, n) /\ KeptIn(e, idx, FALSE)
  BY <1>3, <1>5, SameDisk
<1>8. LengthOf(e, Base) = n + Len(idx)
  BY <1>3, <1>5 DEF LengthOf
<1>9. FileOK(e, Base)
  BY <1>3, <1>4, <1>7, <1>8, BasePlaced DEF FileOK
<1> QED
  BY <1>4, <1>5, <1>6, <1>7, <1>9, <1>a DEF BaseState, e

\* Or made.
LEMMA BaseCreated ==
    ASSUME Flat, NEW d, ClosedState(d)
    PROVE  LET e == NewFile(d, Base)
           IN  BaseState(e) /\ Formed(e, 0, e.index[Base], e.end[Base])
<1> DEFINE e == NewFile(d, Base)
<1>1. d \in Disks /\ d.ok /\ NoIndex(d, {})
  BY DEF ClosedState
<1>2. /\ Within(d, e, Base) /\ FileOK(e, Base) /\ e.index[Base] = <<>> /\ e.end[Base] = 1
      /\ Formed(e, StartOf(e, Base), <<>>, 1)
  BY <1>1, BasePlaced, NewFileMade
<1> HIDE DEF e
<1>3. e \in Disks /\ e.ok /\ Around(d, e, Base)
  BY <1>1, <1>2 DEF Within
<1>4. NoIndex(e, {Base})
  BY <1>1, <1>3 DEF Around, NoIndex
<1>5. DOMAIN <<>> = {}
  OBVIOUS
<1>6. KeptIn(e, e.index[Base], FALSE)
  BY <1>2, <1>5 DEF KeptIn
<1>7. Formed(e, 0, e.index[Base], e.end[Base])
  BY <1>2, BasePlaced
<1> QED
  BY <1>2, <1>3, <1>4, <1>6, <1>7 DEF BaseState, e

\* An embedded file that is there is opened.
LEMMA InnerOpened ==
    ASSUME Flat, NEW d, BaseState(d), NEW g \in Files \ {Base}, HoldsFile(d)
    PROVE  /\ InnerState(ReadHeader(d, g), g)
           /\ Asserted(d, HasPlace(d, g) /\ HeaderReadable(d, g)) = d
<1> DEFINE e == ReadHeader(d, g)
           i == ElementOf(d, g)
           k == d.index[Base][i].offset
<1>1. /\ d \in Disks /\ d.ok /\ NoIndex(d, {Base}) /\ FileOK(d, Base) /\ KeptIn(d, d.index[Base], FALSE)
  BY DEF BaseState
<1>2. /\ i \in DOMAIN d.index[Base] /\ d.index[Base][i].id = FileID /\ d.index[Base][i].type = "file"
      /\ StartOf(d, g) = k + 1 /\ LengthOf(d, g) = SizeAt(d, k)
  BY <1>1, TheFile
<1>3. Placed(d, g)
  BY <1>1, InnerPlaced
<1>4. Image(d, k + 1, SizeAt(d, k))
  BY <1>1, <1>2 DEF KeptIn
<1> HIDE DEF i, k
<1>5. PICK idx \in Seq(Entries), n \in Nat :
         Formed(d, k + 1, idx, n) /\ Laid(d, k + 1, idx, n) /\ Named(idx) /\ SizeAt(d, k) = n + Len(idx)
  BY <1>4 DEF Image
<1>6. Relisted(d, e, g) /\ e.index[g] = idx /\ e.end[g] = n /\ e.ok = d.ok
  <2>1. Formed(d, StartOf(d, g), idx, n)
    BY <1>2, <1>5
  <2> QED
    BY <1>1, <1>3, <2>1, HeaderRead
<1>a. Asserted(d, HasPlace(d, g) /\ HeaderReadable(d, g)) = d
  <2>1. Formed(d, StartOf(d, g), idx, n) /\ n >= 1 /\ LengthOf(d, g) = n + Len(idx)
    BY <1>2, <1>5 DEF Laid
  <2>2. n + Len(idx) <= LengthOf(d, g)
    <3>1. Len(idx) \in Nat
      BY LenProperties
    <3> QED
      BY <2>1, <3>1
  <2>3. HeaderReadable(d, g) = TRUE
    BY <1>1, <1>3, <2>1, <2>2, HeaderThere
  <2>4. HasPlace(d, g) = TRUE
    BY <1>1, PlaceThere
  <2> QED
    BY <1>1, <2>3, <2>4, Sure
<1> HIDE DEF e
<1>7. Within(d, e, g) /\ StartOf(e, g) = StartOf(d, g) /\ LengthOf(e, g) = LengthOf(d, g) /\ e.cells = d.cells
  BY <1>1, <1>3, <1>6, RelistedKeeps DEF Relisted
<1>8. FileOK(e, g)
  <2>1. Laid(e, k + 1, idx, n)
    BY <1>5, <1>7, SameDisk
  <2> QED
    BY <1>2, <1>5, <1>6, <1>7, <2>1 DEF FileOK
<1>9. InnerPlace(d, g)
  <2>1. NoIndex(d, {Base, g})
    BY <1>1 DEF NoIndex
  <2>2. KeptIn(d, d.index[Base], TRUE)
    BY <1>1 DEF KeptIn
  <2> QED
    BY <1>1, <2>1, <2>2 DEF InnerPlace
<1> QED
  BY <1>7, <1>8, <1>9, <1>a, InnerChanged DEF e

\* What is in memory is lost in a crash.
Lost(d) == [d EXCEPT !.index = [f \in Files |-> <<>>], !.end = [f \in Files |-> 0]]

\* The disk is then as if the base file had been closed.
LEMMA BaseLost ==
    ASSUME Flat, NEW d, BaseState(d), Formed(d, 0, d.index[Base], d.end[Base])
    PROVE  ClosedState(Lost(d))
<1> DEFINE e == Lost(d)
           idx == d.index[Base]
           n == d.end[Base]
<1>1. /\ d \in Disks /\ d.ok /\ FileOK(d, Base) /\ KeptIn(d, idx, FALSE) /\ Formed(d, 0, idx, n)
  BY DEF BaseState
<1>2. e.cells = d.cells /\ e.ok = d.ok /\ e.index = [f \in Files |-> <<>>] /\ e.end = [f \in Files |-> 0]
  BY <1>1 DEF Lost, Disks
<1>3. e \in Disks
  <2>1. e.index \in [Files -> Seq(Entries)] /\ e.end \in [Files -> Nat]
    BY <1>2
  <2>2. e = [d EXCEPT !.index = e.index, !.end = e.end]
    BY <1>2 DEF Lost
  <2> HIDE DEF e
  <2> QED
    BY <1>1, <1>2, <2>1, <2>2 DEF Disks
<1>4. idx \in Seq(Entries) /\ n \in Nat
  BY <1>1, BasePlaced, IndexType
<1>5. Laid(d, 0, idx, n) /\ Named(idx) /\ Len(d.cells) = n + Len(idx)
  BY <1>1, BasePlaced DEF FileOK, LengthOf
<1> HIDE DEF e, idx, n
<1>6. NoIndex(e, {})
  BY <1>2 DEF NoIndex
<1>7. ClosedBase(e, idx, n)
  BY <1>1, <1>2, <1>5, SameDisk DEF ClosedBase
<1> QED
  BY <1>1, <1>2, <1>3, <1>4, <1>6, <1>7 DEF ClosedState, e

\* Where elements are does not depend on their IDs and types.
LEMMA LaidOffsets ==
    ASSUME NEW d, NEW s, NEW idx, NEW n, Laid(d, s, idx, n),
           NEW nx, DOMAIN nx = DOMAIN idx, \A i \in DOMAIN idx : nx[i].offset = idx[i].offset
    PROVE  Laid(d, s, nx, n)
BY DEF Laid

\* SetElementType and the ID of an embedded file.
AsFile(d, n) == [d EXCEPT !.index[Base][n] = [@ EXCEPT !.id = FileID, !.type = "file"]]

\* The last element can become the one for embedded files, if there was none.
LEMMA MarkedAsFile ==
    ASSUME Flat, NEW d, BaseState(d), NEW n \in DOMAIN d.index[Base],
           \A i \in DOMAIN d.index[Base] :
               i # n => d.index[Base][i].id # FileID /\ d.index[Base][i].type # "file"
    PROVE  \A g \in Files \ {Base} : InnerPlace(AsFile(d, n), g)
<1> DEFINE e   == AsFile(d, n)
           idx == d.index[Base]
           x   == [idx[n] EXCEPT !.id = FileID, !.type = "file"]
           nx  == [idx EXCEPT ![n] = x]
<1>1. /\ d \in Disks /\ d.ok /\ NoIndex(d, {Base}) /\ FileOK(d, Base) /\ KeptIn(d, d.index[Base], FALSE)
      /\ Base \in Files
  BY BasePlaced DEF BaseState
<1>2. idx \in Seq(Entries) /\ DOMAIN idx = 1 .. Len(idx) /\ Len(idx) \in Nat /\ idx[n] \in Entries
  BY <1>1, IndexType
<1>3. x \in Entries /\ x.id = FileID /\ x.type = "file" /\ x.offset = idx[n].offset
  BY <1>2, FileLayoutAssumption DEF Entries
<1>i. idx = d.index[Base]
  OBVIOUS
<1>e. e = [d EXCEPT !.index = [d.index EXCEPT ![Base] = nx]]
  BY DEF AsFile
<1> HIDE DEF x, idx
<1>4. nx \in Seq(Entries) /\ Len(nx) = Len(idx) /\ DOMAIN nx = DOMAIN idx
  <2>1. idx \in [1 .. Len(idx) -> Entries]
    BY <1>2
  <2>2. nx \in [1 .. Len(idx) -> Entries]
    BY <1>3, <2>1
  <2> HIDE DEF nx
  <2> QED
    BY <1>2, <2>2, LenProperties
<1>5. nx[n] = x /\ \A i \in DOMAIN idx : i # n => nx[i] = idx[i]
  BY <1>2, <1>i
<1> HIDE DEF e, nx
<1>6. /\ e.index = [d.index EXCEPT ![Base] = nx] /\ e.end = d.end /\ e.cells = d.cells /\ e.ok = d.ok
      /\ e \in Disks
  <2>1. d.index \in [Files -> Seq(Entries)]
    BY <1>1 DEF Disks
  <2>2. [d.index EXCEPT ![Base] = nx] \in [Files -> Seq(Entries)]
    BY <1>4, <2>1
  <2> QED
    BY <1>1, <1>e, <2>2 DEF Disks
<1>7. e.index[Base] = nx /\ \A f \in Files \ {Base} : e.index[f] = d.index[f]
  BY <1>1, <1>6 DEF Disks
<1>8. FileOK(e, Base)
  <2>1. Laid(d, 0, idx, d.end[Base]) /\ Named(idx) /\ LengthOf(d, Base) = d.end[Base] + Len(idx)
    BY <1>1, <1>i, BasePlaced DEF FileOK
  <2>2. \A i \in DOMAIN idx : nx[i].offset = idx[i].offset
    BY <1>3, <1>5
  <2>3. Laid(d, 0, nx, d.end[Base])
    BY <1>4, <2>1, <2>2, LaidOffsets
  <2>4. Laid(e, 0, nx, d.end[Base])
    BY <1>6, <2>3, SameDisk
  <2>5. Named(nx)
    BY <1>3, <1>4, <1>5, <1>i, <2>1 DEF Named
  <2>6. LengthOf(e, Base) = LengthOf(d, Base)
    BY <1>6 DEF LengthOf
  <2> QED
    BY <1>4, <1>6, <1>7, <2>1, <2>4, <2>5, <2>6, BasePlaced DEF FileOK
<1>9. KeptIn(e, e.index[Base], TRUE) /\ HoldsFile(e)
  BY <1>3, <1>4, <1>5, <1>7, <1>i DEF KeptIn, HoldsFile
<1>10. \A g : NoIndex(e, {Base, g})
  BY <1>1, <1>7 DEF NoIndex
<1> QED
  BY <1>1, <1>6, <1>8, <1>9, <1>10 DEF InnerPlace, e

\* With itsFlushChangesFlag the header and the index of the base file are on the disk, as
\* far as it never had an embedded file.
OnDisk(d) ==
    FlushChanges /\ (\A i \in DOMAIN d.index[Base] : d.index[Base][i].type = "data") =>
        Formed(d, 0, d.index[Base], d.end[Base])

\* What an operation leaves is made of the disk before it.
LEMMA FinishedMade ==
    ASSUME Flat, NEW d \in Disks, NEW f \in Files, Placed(d, f), FileOK(d, f), NEW x,
           NEW e, Made(d, e, f, x)
    PROVE  LET w == Finished(e, f)
           IN  /\ Made(d, w, f, x) /\ w.index = e.index
               /\ FlushChanges /\ f = Base => OnDisk(w)
<1>1. CASE ~FlushChanges
  BY <1>1 DEF Finished
<1>2. CASE FlushChanges
  <2> DEFINE w == Flush(e, f)
  <2>1. e \in Disks /\ Placed(e, f) /\ FileOK(e, f)
    BY DEF Made, Within
  <2>2. Made(e, w, f, 0) /\ Inside(e, w, f) /\ Formed(w, StartOf(e, f), e.index[f], e.end[f])
    BY <2>1, FlushMade
  <2> HIDE DEF w
  <2>3. Made(d, w, f, x)
    BY <2>2, MadeAgain
  <2>4. f = Base => OnDisk(w)
    BY <2>2, BasePlaced DEF OnDisk, Inside
  <2> QED
    BY <1>2, <2>2, <2>3, <2>4 DEF Finished, Inside, w
<1> QED
  BY <1>1, <1>2

\* An embedded file that is not there is made.
LEMMA InnerCreated ==
    ASSUME Flat, NEW d, BaseState(d), NEW g \in Files \ {Base}, IDToIndex(d, Base, FileID) = {}
    PROVE  LET m == Len(d.index[Base]) + 1
               e == AsFile(Finished(Inserted(d, Base, m, << 0 >>), Base), m)
           IN  /\ InnerPlace(e, g) /\ InnerState(NewFile(e, g), g)
               /\ Asserted(e, HasPlace(e, g)) = e
<1> DEFINE w   == Finished(Inserted(d, Base, Len(d.index[Base]) + 1, <<0>>), Base)
           idx == d.index[Base]
           m   == Len(idx) + 1
           y   == Entry(d.end[Base], UniqueID(d, Base), "data")
           nx  == InsertAt(idx, m, y)
           e   == AsFile(w, m)
<1>1. /\ d \in Disks /\ NoIndex(d, {Base}) /\ FileOK(d, Base) /\ KeptIn(d, d.index[Base], FALSE)
      /\ Base \in Files /\ Placed(d, Base)
  BY BasePlaced DEF BaseState
<1>2. idx \in Seq(Entries) /\ DOMAIN idx = 1 .. Len(idx) /\ Len(idx) \in Nat
  BY <1>1, IndexType
<1>3. y \in Entries
  BY <1>1, IndexType, UniqueIDs DEF Entry, Entries
<1>4. m \in 1 .. Len(idx) + 1
  BY <1>2
<1>5. Made(d, w, Base, 0) /\ w.index[Base] = nx
  <2> DEFINE x == <<0>>
             v == Inserted(d, Base, m, x)
  <2>1. Storable(x)
    BY StorableData
  <2> HIDE DEF x
  <2>2. m \in 1 .. Len(d.index[Base]) + 1
    BY <1>4
  <2> HIDE DEF m
  <2>3. Made(d, v, Base, 0) /\ v.index[Base] = InsertAt(d.index[Base], m, Entry(d.end[Base], UniqueID(d, Base), "data"))
    BY <1>1, <2>1, <2>2, InsertedMade
  <2>v. v = Inserted(d, Base, m, x)
    OBVIOUS
  <2> HIDE DEF v
  <2>4. Made(d, Finished(v, Base), Base, 0) /\ Finished(v, Base).index = v.index
    BY <1>1, <2>3, FinishedMade
  <2>5. w = Finished(v, Base)
    BY <2>v DEF m, x
  <2> HIDE DEF w
  <2> QED
    BY <2>3, <2>4, <2>5 DEF m
<1>6. BaseState(w)
  BY <1>5, BaseChanged
<1> HIDE DEF w, y
<1>7. HasInserted(idx, nx, m, y) /\ nx \in Seq(Entries)
  <2> HIDE DEF idx, m
  <2> QED
    BY <1>2, <1>3, <1>4, InsertAtProperties
<1> HIDE DEF nx
<1>8. Len(nx) = m /\ m \in Nat /\ DOMAIN nx = 1 .. m
  BY <1>2, <1>7, LenProperties DEF HasInserted
<1>9. ASSUME NEW i \in DOMAIN nx, i # m
      PROVE  nx[i].id # FileID /\ nx[i].type # "file"
  <2>1. i \in DOMAIN idx /\ i \in Nat /\ 1 <= i /\ i < m
    BY <1>2, <1>8, <1>9
  <2>2. nx[i] = idx[i]
    BY <1>7, <2>1 DEF HasInserted
  <2>3. idx[i].id # FileID
    BY <2>1 DEF IDToIndex
  <2> QED
    BY <1>1, <2>1, <2>2, <2>3 DEF KeptIn
<1>10. m \in DOMAIN w.index[Base] /\ \A i \in DOMAIN w.index[Base] :
           i # m => w.index[Base][i].id # FileID /\ w.index[Base][i].type # "file"
  BY <1>2, <1>5, <1>8, <1>9
<1>11. InnerPlace(e, g)
  <2> HIDE DEF m
  <2>1. \A h \in Files \ {Base} : InnerPlace(AsFile(w, m), h)
    BY <1>6, <1>10, MarkedAsFile
  <2> QED
    BY <2>1
<1> HIDE DEF e
<1>12. e \in Disks /\ Placed(e, g)
  BY <1>11, InnerPlaced DEF InnerPlace
<1>13. Within(e, NewFile(e, g), g) /\ FileOK(NewFile(e, g), g)
  BY <1>12, NewFileMade
<1>14. InnerState(NewFile(e, g), g)
  BY <1>11, <1>13, InnerChanged
<1>15. Asserted(e, HasPlace(e, g)) = e
  <2>1. HasPlace(e, g) = TRUE
    BY <1>11, PlaceThere DEF InnerPlace
  <2> QED
    BY <1>12, <2>1, Sure
<1> QED
  BY <1>11, <1>14, <1>15 DEF e, w

-----------------------------------------------------------------------------
(* The invariant.                                                          *)

StateOK(d, o) ==
    \/ o = <<>> /\ ClosedState(d)
    \/ o = <<Base>> /\ BaseState(d) /\ OnDisk(d)
    \/ \E g \in Files \ {Base} : o = <<Base, g>> /\ InnerState(d, g)

LayoutInv == StateOK(disk, open)

\* An operation on an open file finds it in order.
LEMMA OpenFile ==
    ASSUME Flat, NEW d, NEW o, StateOK(d, o), NEW f \in Range(o)
    PROVE  d \in Disks /\ f \in Files /\ Placed(d, f) /\ FileOK(d, f)
<1>1. CASE o = <<>> /\ ClosedState(d)
  BY <1>1 DEF Range
<1>2. CASE o = <<Base>> /\ BaseState(d) /\ OnDisk(d)
  <2>1. f = Base
    BY <1>2 DEF Range
  <2> QED
    BY <1>2, <2>1, BasePlaced DEF BaseState
<1>3. ASSUME NEW g \in Files \ {Base}, o = <<Base, g>>, InnerState(d, g)
      PROVE  d \in Disks /\ f \in Files /\ Placed(d, f) /\ FileOK(d, f)
  <2>1. f = Base \/ f = g
    BY <1>3 DEF Range
  <2>2. d \in Disks /\ FileOK(d, Base) /\ FileOK(d, g) /\ HoldsFile(d)
    BY <1>3 DEF InnerState, InnerPlace
  <2> QED
    BY <2>1, <2>2, BasePlaced, InnerPlaced
<1> QED
  BY <1>1, <1>2, <1>3 DEF StateOK

\* The element with an embedded file is left alone while one is open.
LeftAlone(d, o, f, x) == f = Base /\ x \in DOMAIN d.index[Base] /\ d.index[Base][x].type = "file" => o = <<Base>>

\* The invariant holds after an operation.
LEMMA OperationKeeps ==
    ASSUME Flat, NEW d, NEW o, StateOK(d, o), NEW f \in Range(o),
           NEW e, NEW x, Made(d, e, f, x), LeftAlone(d, o, f, x)
    PROVE  StateOK(Finished(e, f), o)
<1> DEFINE w == Finished(e, f)
<1>1. d \in Disks /\ f \in Files /\ Placed(d, f) /\ FileOK(d, f)
  BY OpenFile
<1>2. Made(d, w, f, x) /\ (FlushChanges /\ f = Base => OnDisk(w))
  BY <1>1, FinishedMade
<1> HIDE DEF w
<1>3. CASE o = <<>> /\ ClosedState(d)
  BY <1>3 DEF Range
<1>4. CASE o = <<Base>> /\ BaseState(d) /\ OnDisk(d)
  <2>1. f = Base
    BY <1>4 DEF Range
  <2>2. BaseState(w)
    BY <1>2, <1>4, <2>1, BaseChanged
  <2>3. OnDisk(w)
    BY <1>2, <2>1 DEF OnDisk
  <2> QED
    BY <1>4, <2>2, <2>3 DEF StateOK, w
<1>5. ASSUME NEW g \in Files \ {Base}, o = <<Base, g>>, InnerState(d, g)
      PROVE  InnerState(w, g)
  <2>1. CASE f = Base
    <3>1. o # <<Base>>
      BY <1>5
    <3>2. x \in DOMAIN d.index[Base] => d.index[Base][x].type # "file"
      BY <2>1, <3>1 DEF LeftAlone
    <3>3. Made(d, w, Base, x)
      BY <1>2, <2>1
    <3> QED
      BY <1>5, <3>2, <3>3, AroundInner
  <2>2. CASE f = g
    <3>1. Within(d, w, g) /\ FileOK(w, g) /\ InnerPlace(d, g)
      BY <1>2, <1>5, <2>2 DEF Made, InnerState
    <3> QED
      BY <3>1, InnerChanged
  <2> QED
    BY <1>5, <2>1, <2>2 DEF Range
<1>6. CASE \E g \in Files \ {Base} : o = <<Base, g>> /\ InnerState(d, g)
  BY <1>5, <1>6 DEF StateOK, w
<1> QED
  BY <1>3, <1>4, <1>6 DEF StateOK

\* The operations on the elements of an open file.
LEMMA InsertKeeps ==
    ASSUME Flat, LayoutInv, NEW f \in Range(open), NEW x \in Data, NEW i \in 1 .. Len(disk.index[f]) + 1,
           InsertElement(f, i, x)
    PROVE  LayoutInv'
<1> DEFINE d == disk
           o == open
           e == Inserted(d, f, i, x)
<1>1. StateOK(d, o) /\ f \in Range(o) /\ i \in 1 .. Len(d.index[f]) + 1
  BY DEF LayoutInv
<1>2. disk' = Finished(e, f) /\ open' = o
  BY DEF InsertElement, Done
<1>3. Storable(x)
  BY StorableData
<1> HIDE DEF d, o
<1>4. d \in Disks /\ f \in Files /\ Placed(d, f) /\ FileOK(d, f)
  BY <1>1, OpenFile
<1>5. Made(d, e, f, 0)
  BY <1>1, <1>3, <1>4, InsertedMade
<1> HIDE DEF e
<1>6. LeftAlone(d, o, f, 0)
  <2>1. f = Base => DOMAIN d.index[Base] = 1 .. Len(d.index[Base])
    BY <1>4, IndexType
  <2> QED
    BY <2>1 DEF LeftAlone
<1>7. StateOK(Finished(e, f), o)
  BY <1>1, <1>5, <1>6, OperationKeeps
<1> QED
  BY <1>2, <1>7 DEF LayoutInv

\* SetElement keeps the invariant.
LEMMA SetKeeps ==
    ASSUME Flat, LayoutInv, NEW f \in Range(open), NEW x \in Data, NEW i \in DOMAIN disk.index[f],
           SetElement(f, i, x)
    PROVE  LayoutInv'
<1> DEFINE d == disk
           o == open
           e == Changed(d, f, i, x)
<1>1. StateOK(d, o) /\ f \in Range(o) /\ i \in DOMAIN d.index[f]
  BY DEF LayoutInv
<1>2. disk' = Finished(e, f) /\ open' = o /\ d.index[f][i].type = "data"
  BY DEF SetElement, Done
<1>3. Storable(x)
  BY StorableData
<1> HIDE DEF d, o
<1>4. d \in Disks /\ f \in Files /\ Placed(d, f) /\ FileOK(d, f)
  BY <1>1, OpenFile
<1>5. Made(d, e, f, i)
  <2>1. d.index[f][i].type # "file"
    BY <1>2
  <2> QED
    BY <1>1, <1>3, <1>4, <2>1, ChangedMade
<1> HIDE DEF e
<1>6. LeftAlone(d, o, f, i)
  BY <1>2 DEF LeftAlone
<1>7. StateOK(Finished(e, f), o)
  BY <1>1, <1>5, <1>6, OperationKeeps
<1> QED
  BY <1>2, <1>7 DEF LayoutInv

\* RemoveElement keeps the invariant.
LEMMA RemoveKeeps ==
    ASSUME Flat, LayoutInv, NEW f \in Range(open), NEW i \in DOMAIN disk.index[f], RemoveElement(f, i)
    PROVE  LayoutInv'
<1> DEFINE d == disk
           o == open
           e == Removed(d, f, i)
<1>1. StateOK(d, o) /\ f \in Range(o) /\ i \in DOMAIN d.index[f]
  BY DEF LayoutInv
<1>2. disk' = Finished(e, f) /\ open' = o
  <2>1. d \in Disks /\ f \in Files /\ Placed(d, f) /\ FileOK(d, f)
    BY <1>1, OpenFile
  <2>2. Asserted(d, SizeReadable(d, f, i)) = d
    BY <1>1, <2>1, ElementReadable
  <2> QED
    BY <2>2 DEF RemoveElement, Done
<1>3. \/ d.index[f][i].type = "data"
      \/ \A g \in Files \ {Base} : EnclosedBy[g] = f => g \notin Range(o)
  BY DEF RemoveElement, IsOpen
<1> HIDE DEF d, o
<1>4. d \in Disks /\ f \in Files /\ Placed(d, f) /\ FileOK(d, f)
  BY <1>1, OpenFile
<1>5. Made(d, e, f, i)
  BY <1>1, <1>4, RemovedMade
<1> HIDE DEF e
<1>6. LeftAlone(d, o, f, i)
  <2>1. ASSUME f = Base, d.index[f][i].type = "file"
        PROVE  o = <<Base>>
    <3>1. \A g \in Files \ {Base} : g \notin Range(o)
      BY <1>3, <2>1 DEF Flat
    <3>2. ~ \E g \in Files \ {Base} : o = <<Base, g>>
      <4>1. ASSUME NEW g \in Files \ {Base}, o = <<Base, g>>
            PROVE  g \in Range(o)
        <5>1. 2 \in DOMAIN o /\ o[2] = g
          BY <4>1
        <5> QED
          BY <5>1 DEF Range
      <4> QED
        BY <3>1, <4>1
    <3>3. o # <<>>
      BY <1>1 DEF Range
    <3> QED
      BY <1>1, <3>2, <3>3 DEF StateOK
  <2> QED
    BY <2>1 DEF LeftAlone
<1>7. StateOK(Finished(e, f), o)
  BY <1>1, <1>5, <1>6, OperationKeeps
<1> QED
  BY <1>2, <1>7 DEF LayoutInv

\* The entries of a file are put into another order.
LEMMA ReorderKeeps ==
    ASSUME Flat, LayoutInv, NEW f \in Range(open), NEW nx, Reordered(disk.index[f], nx),
           disk' = Finished([disk EXCEPT !.index[f] = nx], f), open' = open
    PROVE  LayoutInv'
<1> DEFINE d == disk
           o == open
           e == [d EXCEPT !.index[f] = nx]
<1>1. StateOK(d, o) /\ f \in Range(o) /\ Reordered(d.index[f], nx)
  BY DEF LayoutInv
<1>2. disk' = Finished(e, f) /\ open' = o
  OBVIOUS
<1> HIDE DEF d, o
<1>4. d \in Disks /\ f \in Files /\ Placed(d, f) /\ FileOK(d, f)
  BY <1>1, OpenFile
<1>e. e = [d EXCEPT !.index[f] = nx]
  OBVIOUS
<1> HIDE DEF e
<1>5. Made(d, e, f, 0)
  BY <1>1, <1>4, <1>e, ReorderedMade
<1>6. LeftAlone(d, o, f, 0)
  <2>1. f = Base => DOMAIN d.index[Base] = 1 .. Len(d.index[Base])
    BY <1>4, IndexType
  <2> QED
    BY <2>1 DEF LeftAlone
<1>7. StateOK(Finished(e, f), o)
  BY <1>1, <1>5, <1>6, OperationKeeps
<1> QED
  BY <1>2, <1>7 DEF LayoutInv

\* The index of an open file has no ID twice.
LEMMA OpenIndex ==
    ASSUME Flat, LayoutInv, NEW f \in Range(open)
    PROVE  disk \in Disks /\ f \in Files /\ disk.index[f] \in Seq(Entries) /\ Named(disk.index[f])
<1>1. disk \in Disks /\ f \in Files /\ FileOK(disk, f)
  BY OpenFile DEF LayoutInv
<1> QED
  BY <1>1, IndexType DEF FileOK

\* MoveElementToIndex keeps the invariant.
LEMMA MoveKeeps ==
    ASSUME Flat, LayoutInv, NEW f \in Range(open), NEW i \in DOMAIN disk.index[f],
           NEW j \in DOMAIN disk.index[f], MoveElementToIndex(f, i, j)
    PROVE  LayoutInv'
<1> DEFINE idx == disk.index[f]
           nx  == InsertAt(RemoveAt(idx, i), j, idx[i])
<1>1. idx \in Seq(Entries) /\ Named(idx) /\ i \in DOMAIN idx /\ j \in DOMAIN idx
  BY OpenIndex
<1>2. disk' = Finished([disk EXCEPT !.index[f] = nx], f) /\ open' = open
  BY DEF MoveElementToIndex, Done
<1>3. Reordered(idx, nx)
  <2> HIDE DEF idx
  <2> QED
    BY <1>1, MovedEntry
<1>4. Reordered(disk.index[f], nx)
  BY <1>3
<1> HIDE DEF nx, idx
<1> QED
  BY <1>2, <1>4, ReorderKeeps

\* SwapElements keeps the invariant.
LEMMA SwapKeeps ==
    ASSUME Flat, LayoutInv, NEW f \in Range(open), NEW i \in DOMAIN disk.index[f],
           NEW j \in DOMAIN disk.index[f], SwapElements(f, i, j)
    PROVE  LayoutInv'
<1> DEFINE idx == disk.index[f]
           nx  == [idx EXCEPT ![i] = idx[j], ![j] = idx[i]]
           e   == [disk EXCEPT !.index[f][i] = disk.index[f][j], !.index[f][j] = disk.index[f][i]]
<1>1. idx \in Seq(Entries) /\ Named(idx) /\ i \in DOMAIN idx /\ j \in DOMAIN idx /\ disk \in Disks /\ f \in Files
  BY OpenIndex
<1>2. disk' = Finished(e, f) /\ open' = open /\ i # j
  BY DEF SwapElements, Done
<1>3. Reordered(idx, nx)
  <2>1. nx = [idx EXCEPT ![i] = idx[j], ![j] = idx[i]]
    OBVIOUS
  <2> HIDE DEF idx, nx
  <2> QED
    BY <1>1, <1>2, <2>1, SwappedEntries
<1>4. e = [disk EXCEPT !.index[f] = nx]
  BY <1>1 DEF Disks
<1>5. disk' = Finished([disk EXCEPT !.index[f] = nx], f)
  BY <1>2, <1>4
<1>6. Reordered(disk.index[f], nx)
  BY <1>3
<1> HIDE DEF nx, idx, e
<1> QED
  BY <1>2, <1>5, <1>6, ReorderKeeps

\* A list of two files.
LEMMA TwoFiles ==
    ASSUME NEW S, NEW a \in S, NEW b \in S
    PROVE  /\ Append(<<a>>, b) = <<a, b>>
           /\ Last(<<a, b>>) = b /\ Front(<<a, b>>) = <<a>>
<1> DEFINE o == <<a, b>>
           p == <<a>>
           r == Append(p, b)
           q == SubSeq(o, 1, 1)
<1>1. o \in Seq(S) /\ Len(o) = 2 /\ o[1] = a /\ o[2] = b
  OBVIOUS
<1>2. p \in Seq(S) /\ Len(p) = 1 /\ p[1] = a
  OBVIOUS
<1>3. Last(o) = b /\ Front(o) = q
  BY <1>1 DEF Last, Front
<1> HIDE DEF o, p
<1>4. r = o
  <2> DEFINE t == <<b>>
             u == Cat(p, t)
  <2>p. p \in Seq(S)
    BY <1>2
  <2>t. t \in Seq(S) /\ Len(t) = 1 /\ t[1] = b
    OBVIOUS
  <2>r. r = u
    BY <2>p, AppendIsConcat DEF Cat
  <2>s. t \in Seq(S)
    BY <2>t
  <2> HIDE DEF t
  <2>u. /\ u \in Seq(S) /\ Len(u) = Len(p) + Len(t)
        /\ \A i \in Nat : i >= 1 /\ i <= Len(p) => u[i] = p[i]
        /\ \A i \in Nat : i > Len(p) /\ i <= Len(p) + Len(t) => u[i] = t[i - Len(p)]
    BY <2>p, <2>s, Joined
  <2> HIDE DEF u
  <2>1. r \in Seq(S) /\ Len(r) = 2 /\ r[1] = a /\ r[2] = b
    BY <1>2, <2>t, <2>r, <2>u
  <2> HIDE DEF r
  <2>2. \A i \in 1 .. Len(r) : r[i] = o[i]
    BY <1>1, <2>1
  <2> QED
    BY <1>1, <2>1, <2>2, SeqEqual
<1>5. q = p
  <2>1. q \in Seq(S) /\ Len(q) = 1 /\ q[1] = a
    BY <1>1, SubSeqProperties
  <2> HIDE DEF q
  <2>2. \A i \in 1 .. Len(q) : q[i] = p[i]
    BY <1>2, <2>1
  <2> QED
    BY <1>2, <2>1, <2>2, SeqEqual
<1> QED
  BY <1>3, <1>4, <1>5 DEF o, p

\* Opening the base file keeps the invariant.
LEMMA OpenBaseKeeps ==
    ASSUME Flat, LayoutInv, OpenBase
    PROVE  LayoutInv'
<1> DEFINE d == disk
           e == IF d.cells = <<>> THEN NewFile(d, Base) ELSE ReadHeader(d, Base)
<1>2. ClosedState(d)
  BY DEF OpenBase, LayoutInv, StateOK
<1>1. open = <<>> /\ disk' = e /\ open' = <<Base>>
  <2>1. d.cells # <<>> => Asserted(d, HeaderReadable(d, Base)) = d
    BY <1>2, BaseOpened
  <2> QED
    BY <2>1 DEF OpenBase
<1> HIDE DEF d
<1>3. BaseState(e) /\ Formed(e, 0, e.index[Base], e.end[Base])
  <2>1. CASE d.cells = <<>>
    BY <1>2, <2>1, BaseCreated
  <2>2. CASE d.cells # <<>>
    BY <1>2, <2>2, BaseOpened
  <2> QED
    BY <2>1, <2>2
<1> HIDE DEF e
<1>4. StateOK(e, <<Base>>)
  BY <1>3 DEF StateOK, OnDisk
<1> QED
  BY <1>1, <1>4 DEF LayoutInv

\* Opening an embedded file keeps the invariant.
LEMMA OpenEmbeddedKeeps ==
    ASSUME Flat, LayoutInv, NEW g \in Files \ {Base}, OpenEmbedded(g)
    PROVE  LayoutInv'
<1> DEFINE d == disk
           o == open
           n == Len(d.index[Base]) + 1
           e == AsFile(Finished(Inserted(d, Base, n, <<0>>), Base), n)
<1>1. EnclosedBy[g] = Base
  BY DEF Flat
<1>2. /\ o # <<>> /\ Last(o) = Base /\ open' = Append(o, g)
      /\ \A i \in IDToIndex(d, Base, FileID) : d.index[Base][i].type = "file"
      /\ IF IDToIndex(d, Base, FileID) # {}
         THEN disk' = ReadHeader(Asserted(d, HasPlace(d, g) /\ HeaderReadable(d, g)), g)
         ELSE disk' = NewFile(Asserted(e, HasPlace(e, g)), g)
  BY <1>1 DEF OpenEmbedded, OKToCreateEmbedded, AsFile
<1>3. StateOK(d, o)
  BY DEF LayoutInv
<1> HIDE DEF d, o, n, e
<1>4. o = <<Base>> /\ BaseState(d)
  <2>1. ASSUME NEW h \in Files \ {Base}, o = <<Base, h>>
        PROVE  FALSE
    BY <1>2, <2>1 DEF Last
  <2> QED
    BY <1>2, <1>3, <2>1 DEF StateOK
<1>5. open' = <<Base, g>>
  <2>1. open' = Append(<<Base>>, g)
    BY <1>2, <1>4
  <2>2. Base \in Files /\ g \in Files
    BY BasePlaced
  <2> QED
    BY <2>1, <2>2, TwoFiles
<1>6. InnerState(disk', g)
  <2>1. CASE IDToIndex(d, Base, FileID) # {}
    <3>1. HoldsFile(d)
      BY <1>2, <2>1 DEF HoldsFile, IDToIndex
    <3>2. /\ InnerState(ReadHeader(d, g), g)
          /\ Asserted(d, HasPlace(d, g) /\ HeaderReadable(d, g)) = d
      BY <1>4, <3>1, InnerOpened
    <3> QED
      BY <1>2, <2>1, <3>2
  <2>2. CASE IDToIndex(d, Base, FileID) = {}
    <3>1. InnerState(NewFile(e, g), g) /\ Asserted(e, HasPlace(e, g)) = e
      BY <1>4, <2>2, InnerCreated DEF e, n
    <3> QED
      BY <1>2, <2>2, <3>1
  <2> QED
    BY <2>1, <2>2
<1> QED
  BY <1>5, <1>6 DEF LayoutInv, StateOK

\* What is asserted when the last of the open files is closed.
LEMMA ShutPlace ==
    ASSUME Flat, NEW d, NEW o, StateOK(d, o), o # <<>>
    PROVE  Asserted(Shut(d, Last(o)), Last(o) # Base => HasPlace(Shut(d, Last(o)), Last(o))) = Shut(d, Last(o))
<1> DEFINE w == Shut(d, Last(o))
           p == Last(o) # Base => HasPlace(w, Last(o))
<1>1. w \in Disks /\ p = TRUE
  <2>1. CASE o = <<Base>> /\ BaseState(d)
    <3>1. Last(o) = Base
      BY <2>1 DEF Last
    <3>2. Shut(d, Base) \in Disks
      BY <2>1, BaseShut DEF ClosedState
    <3> QED
      BY <3>1, <3>2
  <2>2. ASSUME NEW g \in Files \ {Base}, o = <<Base, g>>, InnerState(d, g)
        PROVE  w \in Disks /\ p = TRUE
    <3>1. Last(o) = g
      <4>1. Base \in Files /\ g \in Files
        BY BasePlaced
      <4> QED
        BY <2>2, <4>1, TwoFiles
    <3>2. Shut(d, g) \in Disks /\ FileOK(Shut(d, g), Base) /\ HoldsFile(Shut(d, g))
      BY <2>2, InnerShut DEF BaseState
    <3>3. HasPlace(Shut(d, g), g) = TRUE
      <4> DEFINE v == Shut(d, g)
      <4>1. v \in Disks /\ FileOK(v, Base) /\ HoldsFile(v)
        BY <3>2
      <4> HIDE DEF v
      <4>2. HasPlace(v, g) = TRUE
        BY <4>1, PlaceThere
      <4> QED
        BY <4>2 DEF v
    <3> QED
      BY <3>1, <3>2, <3>3
  <2> QED
    BY <2>1, <2>2 DEF StateOK
<1> HIDE DEF w, p
<1>2. Asserted(w, p) = w
  BY <1>1, Sure
<1> QED
  BY <1>2 DEF w, p

\* Closing a file keeps the invariant.
LEMMA CloseKeeps ==
    ASSUME Flat, LayoutInv, CloseFile
    PROVE  LayoutInv'
<1> DEFINE d == disk
           o == open
<1>2. StateOK(d, o)
  BY DEF LayoutInv
<1>1. o # <<>> /\ disk' = Shut(d, Last(o)) /\ open' = Front(o)
  <2>1. o # <<>> /\ disk' = Asserted(Shut(d, Last(o)), Last(o) # Base => HasPlace(Shut(d, Last(o)), Last(o)))
    BY DEF CloseFile, Shut
  <2> HIDE DEF d, o
  <2>2. Asserted(Shut(d, Last(o)), Last(o) # Base => HasPlace(Shut(d, Last(o)), Last(o))) = Shut(d, Last(o))
    BY <1>2, <2>1, ShutPlace
  <2> QED
    BY <2>1, <2>2 DEF CloseFile, d, o
<1> HIDE DEF d, o
<1>3. CASE o = <<Base>> /\ BaseState(d)
  <2>1. Last(o) = Base /\ Front(o) = <<>>
    BY <1>3 DEF Last, Front
  <2>2. ClosedState(Shut(d, Base))
    BY <1>3, BaseShut
  <2> QED
    BY <1>1, <2>1, <2>2 DEF LayoutInv, StateOK
<1>4. ASSUME NEW g \in Files \ {Base}, o = <<Base, g>>, InnerState(d, g)
      PROVE  LayoutInv'
  <2> DEFINE w == Shut(d, g)
  <2>1. Last(o) = g /\ Front(o) = <<Base>>
    <3>1. Base \in Files /\ g \in Files
      BY BasePlaced
    <3> QED
      BY <1>4, <3>1, TwoFiles
  <2>2. BaseState(w) /\ HoldsFile(w)
    BY <1>4, InnerShut
  <2>3. disk' = w /\ open' = <<Base>>
    BY <1>1, <2>1
  <2> HIDE DEF w
  <2>4. OnDisk(w)
    BY <2>2 DEF OnDisk, HoldsFile
  <2> QED
    BY <2>2, <2>3, <2>4 DEF LayoutInv, StateOK
<1> QED
  BY <1>1, <1>2, <1>3, <1>4 DEF StateOK

\* A crash keeps the invariant.
LEMMA CrashKeeps ==
    ASSUME Flat, ~EmbeddedCrash, LayoutInv, Crash
    PROVE  LayoutInv'
<1> DEFINE d == disk
           o == open
<1>1. /\ FlushChanges /\ o # <<>> /\ \A i \in DOMAIN d.index[Base] : d.index[Base][i].type = "data"
      /\ disk' = Lost(d) /\ open' = <<>>
  BY DEF Crash, Lost
<1>2. StateOK(d, o)
  BY DEF LayoutInv
<1> HIDE DEF d, o
<1>3. ASSUME NEW g \in Files \ {Base}, InnerState(d, g)
      PROVE  FALSE
  BY <1>1, <1>3 DEF InnerState, InnerPlace, HoldsFile
<1>4. BaseState(d) /\ OnDisk(d)
  BY <1>1, <1>2, <1>3 DEF StateOK
<1>5. ClosedState(Lost(d))
  BY <1>1, <1>4, BaseLost DEF OnDisk
<1> QED
  BY <1>1, <1>5 DEF LayoutInv, StateOK

\* The invariant holds at the start.
LEMMA InitLayout == ASSUME Flat, LayoutInit PROVE LayoutInv
<1>1. /\ disk = [cells |-> <<>>, index |-> [f \in Files |-> <<>>], end |-> [f \in Files |-> 0], ok |-> TRUE]
      /\ open = <<>>
  BY DEF LayoutInit
<1>2. disk \in Disks
  BY <1>1 DEF Disks
<1>3. ClosedState(disk)
  BY <1>1, <1>2 DEF ClosedState, NoIndex
<1> QED
  BY <1>1, <1>3 DEF LayoutInv, StateOK

\* An element that is read is there.
LEMMA GetChangesNothing ==
    ASSUME Flat, LayoutInv, NEW f \in Range(open), NEW i \in DOMAIN disk.index[f], GetElement(f, i)
    PROVE  UNCHANGED layoutVars
<1> DEFINE d == disk
           p == SizeReadable(d, f, i) /\ Readable(d, f, d.index[f][i].offset, SizeLength + SizeOf(d, f, i))
<1>1. disk' = Asserted(d, p) /\ open' = open /\ d = disk
  BY DEF GetElement
<1>2. d \in Disks /\ f \in Files /\ Placed(d, f) /\ FileOK(d, f) /\ i \in DOMAIN d.index[f]
  BY OpenFile DEF LayoutInv
<1> HIDE DEF d
<1>3. p = TRUE
  BY <1>2, ElementReadable
<1> HIDE DEF p
<1>4. Asserted(d, p) = d
  BY <1>2, <1>3, Sure
<1> QED
  BY <1>1, <1>4 DEF layoutVars

\* Every step keeps the invariant.
LEMMA NextLayout ==
    ASSUME Flat, ~EmbeddedCrash, LayoutInv, [LayoutNext]_layoutVars
    PROVE  LayoutInv'
<1>1. CASE OpenBase
  BY <1>1, OpenBaseKeeps
<1>2. ASSUME NEW g \in Files \ {Base}, OpenEmbedded(g)
      PROVE  LayoutInv'
  BY <1>2, OpenEmbeddedKeeps
<1>3. CASE CloseFile
  BY <1>3, CloseKeeps
<1>4. CASE Crash
  BY <1>4, CrashKeeps
<1>5. ASSUME NEW f \in Range(open)
      PROVE  /\ \A x \in Data : \A i \in 1 .. Len(disk.index[f]) + 1 : InsertElement(f, i, x) => LayoutInv'
             /\ \A x \in Data : \A i \in DOMAIN disk.index[f] : SetElement(f, i, x) => LayoutInv'
             /\ \A i \in DOMAIN disk.index[f] : GetElement(f, i) \/ RemoveElement(f, i) => LayoutInv'
             /\ \A i, j \in DOMAIN disk.index[f] :
                   MoveElementToIndex(f, i, j) \/ SwapElements(f, i, j) => LayoutInv'
  <2>1. ASSUME NEW x \in Data, NEW i \in 1 .. Len(disk.index[f]) + 1, InsertElement(f, i, x)
        PROVE  LayoutInv'
    BY <2>1, InsertKeeps
  <2>2. ASSUME NEW x \in Data, NEW i \in DOMAIN disk.index[f], SetElement(f, i, x)
        PROVE  LayoutInv'
    BY <2>2, SetKeeps
  <2>3. ASSUME NEW i \in DOMAIN disk.index[f], RemoveElement(f, i)
        PROVE  LayoutInv'
    BY <2>3, RemoveKeeps
  <2>4. ASSUME NEW i \in DOMAIN disk.index[f], NEW j \in DOMAIN disk.index[f], MoveElementToIndex(f, i, j)
        PROVE  LayoutInv'
    BY <2>4, MoveKeeps
  <2>5. ASSUME NEW i \in DOMAIN disk.index[f], NEW j \in DOMAIN disk.index[f], SwapElements(f, i, j)
        PROVE  LayoutInv'
    BY <2>5, SwapKeeps
  <2>6. ASSUME NEW i \in DOMAIN disk.index[f], GetElement(f, i)
        PROVE  LayoutInv'
    <3>1. UNCHANGED layoutVars
      BY <2>6, GetChangesNothing
    <3> QED
      BY <3>1 DEF layoutVars, LayoutInv
  <2> QED
    BY <2>1, <2>2, <2>3, <2>4, <2>5, <2>6
<1>6. CASE UNCHANGED layoutVars
  BY <1>6 DEF layoutVars, LayoutInv
<1> QED
  BY <1>1, <1>2, <1>3, <1>4, <1>5, <1>6 DEF LayoutNext

\* The open files are the base file and at most one in it, and no other has an index.
LEMMA InvTypes == ASSUME Flat, LayoutInv PROVE LayoutTypeOK
<1>1. ASSUME NEW S \in SUBSET Files, \A f \in S : Named(disk.index[f]), NoIndex(disk, S)
      PROVE  \A f \in Files : \A i, j \in DOMAIN disk.index[f] :
                disk.index[f][i].id = disk.index[f][j].id => i = j
  <2>1. ASSUME NEW f \in Files
        PROVE  Named(disk.index[f])
    <3>1. CASE f \in S
      BY <1>1, <3>1
    <3>2. CASE f \notin S
      <4>1. disk.index[f] = <<>> /\ DOMAIN <<>> = {}
        BY <1>1, <3>2 DEF NoIndex
      <4> QED
        BY <4>1 DEF Named
    <3> QED
      BY <3>1, <3>2
  <2> QED
    BY <2>1 DEF Named
<1>2. CASE open = <<>> /\ ClosedState(disk)
  <2>1. IsPrefix(open, <<Base>>)
    BY <1>2 DEF IsPrefix
  <2>2. NoIndex(disk, {})
    BY <1>2 DEF ClosedState
  <2>3. \A f \in Files : disk.index[f] = <<>>
    BY <2>2 DEF NoIndex
  <2> QED
    BY <1>1, <2>1, <2>2, <2>3 DEF LayoutTypeOK
<1>3. CASE open = <<Base>> /\ BaseState(disk)
  <2>1. NoIndex(disk, {Base}) /\ Named(disk.index[Base]) /\ Base \in Files
    BY <1>3, BasePlaced DEF BaseState, FileOK
  <2>2. Head(open) = Base /\ \A k \in 2 .. Len(open) : EnclosedBy[open[k]] = open[k - 1]
    BY <1>3
  <2>3. \A f \in Files : ~IsOpen(f) => disk.index[f] = <<>>
    <3>1. IsOpen(Base)
      <4>1. 1 \in DOMAIN open /\ open[1] = Base
        BY <1>3
      <4> QED
        BY <4>1 DEF IsOpen, Range
    <3> QED
      BY <2>1, <3>1 DEF NoIndex
  <2> QED
    BY <1>1, <2>1, <2>2, <2>3 DEF LayoutTypeOK
<1>4. ASSUME NEW g \in Files \ {Base}, open = <<Base, g>>, InnerState(disk, g)
      PROVE  LayoutTypeOK
  <2>1. NoIndex(disk, {Base, g}) /\ Named(disk.index[Base]) /\ Named(disk.index[g]) /\ Base \in Files
    BY <1>4, BasePlaced DEF InnerState, InnerPlace, FileOK
  <2>2. Head(open) = Base /\ \A k \in 2 .. Len(open) : EnclosedBy[open[k]] = open[k - 1]
    BY <1>4 DEF Flat
  <2>3. \A f \in Files : ~IsOpen(f) => disk.index[f] = <<>>
    <3>1. IsOpen(Base) /\ IsOpen(g)
      <4>1. 1 \in DOMAIN open /\ open[1] = Base /\ 2 \in DOMAIN open /\ open[2] = g
        BY <1>4
      <4> QED
        BY <4>1 DEF IsOpen, Range
    <3> QED
      BY <2>1, <3>1 DEF NoIndex
  <2> QED
    BY <1>1, <2>1, <2>2, <2>3 DEF LayoutTypeOK
<1> QED
  BY <1>2, <1>3, <1>4 DEF LayoutInv, StateOK

\* The assertions of AssertionsHold hold whenever the files are as the invariant says.
LEMMA InvAssertions == ASSUME LayoutInv PROVE AssertionsHold
BY DEF LayoutInv, StateOK, ClosedState, BaseState, InnerState, InnerPlace, AssertionsHold

\* Files are opened from the outside in, have an index only while they are open, and no
\* two elements of one have an ID in common (GetUniqueID), for any number and any lengths
\* of elements.
THEOREM LayoutTypesCorrect ==
    ASSUME Flat, ~EmbeddedCrash
    PROVE  LayoutSpec => []LayoutTypeOK
<1>1. LayoutInit => LayoutInv
  BY InitLayout
<1>2. LayoutInv /\ [LayoutNext]_layoutVars => LayoutInv'
  BY NextLayout
<1>3. LayoutInv => LayoutTypeOK
  BY InvTypes
<1> QED
  BY <1>1, <1>2, <1>3, PTL DEF LayoutSpec

\* Marks stay inside the file before each write and each read (SetReadWriteMark), no read
\* runs into the end of the disk, what ExpandData and CompactData move is data, no offset
\* becomes negative (ElementSizeChanged), what ReadIndex reads are entries, and an
\* embedded file that is opened or closed has its element: whatever is done with the
\* elements of a file and of one embedded in it.
THEOREM NoAssertionFails ==
    ASSUME Flat, ~EmbeddedCrash
    PROVE  LayoutSpec => []AssertionsHold
<1>1. LayoutInit => LayoutInv
  BY InitLayout
<1>2. LayoutInv /\ [LayoutNext]_layoutVars => LayoutInv'
  BY NextLayout
<1>3. LayoutInv => AssertionsHold
  BY InvAssertions
<1> QED
  BY <1>1, <1>2, <1>3, PTL DEF LayoutSpec

-----------------------------------------------------------------------------
(* What a file contains.                                                   *)

\* u is the data of the element that starts at cell k.
HasData(d, k, u) ==
    /\ u \in Seq(Cells) /\ Len(u) = SizeAt(d, k)
    /\ \A j \in Nat : j < SizeAt(d, k) => u[j + 1] = Cell(d, k + 1 + j)

\* There is only one.
LEMMA OneData ==
    ASSUME NEW d, NEW k \in Nat, NEW e, NEW m \in Nat, SizeAt(d, k) \in Nat, Copied(d, k, e, m),
           NEW u, HasData(d, k, u), NEW v, HasData(e, m, v)
    PROVE  u = v
<1> DEFINE n == SizeAt(d, k)
<1>1. SizeAt(e, m) = n /\ Run(d, k + 1, e, m + 1, n)
  BY CopiedData
<1>2. u \in Seq(Cells) /\ v \in Seq(Cells) /\ Len(u) = n /\ Len(v) = n /\ n \in Nat
  BY <1>1 DEF HasData
<1>3. ASSUME NEW i \in 1 .. n
      PROVE  u[i] = v[i]
  <2>1. i - 1 \in Nat /\ i - 1 < n /\ (i - 1) + 1 = i
    BY <1>2
  <2>2. u[(i - 1) + 1] = Cell(d, k + 1 + (i - 1)) /\ v[(i - 1) + 1] = Cell(e, m + 1 + (i - 1))
    BY <1>1, <2>1 DEF HasData
  <2>3. Cell(e, m + 1 + (i - 1)) = Cell(d, k + 1 + (i - 1))
    BY <1>1, <2>1 DEF Run
  <2> QED
    BY <2>1, <2>2, <2>3
<1> QED
  BY <1>2, <1>3, SeqEqual

\* GetElement reads it.
LEMMA DataRead ==
    ASSUME NEW d \in Disks, NEW f, NEW s \in Nat, StartOf(d, f) = s, NEW x \in Entries, x.type # "file",
           IsSize(d, s + x.offset)
    PROVE  HasData(d, s + x.offset, DataOf(d, f, x))
<1> DEFINE o == x.offset
           k == s + o
           n == SizeAt(d, k)
           p == o + 1
           u == ReadCells(d, f, p, n)
<1>1. o \in Nat /\ n \in Nat
  BY SizeType DEF Entries
<1>2. DataOf(d, f, x) = u
  BY DEF DataOf, SizeLength, SizeAt
<1> HIDE DEF o, n, u
<1>3. p \in Nat
  BY <1>1
<1> HIDE DEF p
<1>4. /\ u \in Seq(Cells) /\ Len(u) = n
      /\ \A j \in Nat : j < n => u[j + 1] = Cell(d, s + p + j)
  BY <1>1, <1>3, ReadingCells DEF u
<1>5. \A j \in Nat : s + p + j = k + 1 + j
  BY <1>1 DEF p
<1>6. HasData(d, k, u)
  BY <1>4, <1>5 DEF HasData, n
<1> QED
  BY <1>2, <1>6 DEF o

\* What was written is the data.
LEMMA DataWritten ==
    ASSUME NEW d, NEW k \in Nat, NEW x, Storable(x), Filled(d, k, ElementCells(x))
    PROVE  HasData(d, k, Bytes(x)) /\ Cell(d, k) = <<"size", Len(x)>>
<1> DEFINE h == <<<<"size", Len(x)>>>>
           b == Bytes(x)
           u == Cat(h, b)
           n == Len(x)
<1>1. n \in Nat /\ b \in Seq(Cells) /\ Len(b) = n
  BY DEF Storable
<1>2. h \in Seq(Cells) /\ Len(h) = 1 /\ h[1] = <<"size", n>>
  <2>1. <<"size", n>> \in Cells
    BY <1>1 DEF Cells
  <2> QED
    BY <2>1
<1>3. Filled(d, k, u)
  BY DEF ElementCells, Cat
<1> HIDE DEF h, b, n
<1>4. /\ Len(u) = 1 + n
      /\ \A i \in Nat : i >= 1 /\ i <= 1 => u[i] = h[i]
      /\ \A i \in Nat : i > 1 /\ i <= 1 + n => u[i] = b[i - 1]
  <2>1. /\ Len(u) = Len(h) + Len(b)
        /\ \A i \in Nat : i >= 1 /\ i <= Len(h) => u[i] = h[i]
        /\ \A i \in Nat : i > Len(h) /\ i <= Len(h) + Len(b) => u[i] = b[i - Len(h)]
    BY <1>1, <1>2, Joined
  <2> QED
    BY <1>1, <1>2, <2>1
<1> HIDE DEF u
<1>5. \A i \in Nat : i < 1 + n => Cell(d, k + i) = u[i + 1]
  BY <1>3, <1>4 DEF Filled
<1>6. Cell(d, k) = <<"size", n>>
  <2>1. 0 \in Nat /\ 0 < 1 + n /\ k + 0 = k /\ 0 + 1 = 1 /\ 1 \in Nat /\ 1 >= 1 /\ 1 <= 1
    BY <1>1
  <2>2. Cell(d, k + 0) = u[0 + 1]
    BY <1>5, <2>1
  <2>3. u[1] = h[1]
    BY <1>4, <2>1
  <2> QED
    BY <1>2, <2>1, <2>2, <2>3
<1>7. SizeAt(d, k) = n
  BY <1>6 DEF SizeAt
<1>8. ASSUME NEW j \in Nat, j < n
      PROVE  b[j + 1] = Cell(d, k + 1 + j)
  <2>1. j + 1 \in Nat /\ j + 1 < 1 + n /\ k + (j + 1) = k + 1 + j
    BY <1>1, <1>8
  <2>2. (j + 1) + 1 \in Nat /\ (j + 1) + 1 > 1 /\ (j + 1) + 1 <= 1 + n /\ ((j + 1) + 1) - 1 = j + 1
    BY <1>1, <1>8
  <2>3. Cell(d, k + (j + 1)) = u[(j + 1) + 1]
    BY <1>5, <2>1
  <2>4. u[(j + 1) + 1] = b[((j + 1) + 1) - 1]
    BY <1>4, <2>2
  <2> QED
    BY <2>1, <2>2, <2>3, <2>4
<1> QED
  BY <1>1, <1>6, <1>7, <1>8 DEF HasData, b, n

\* What is listed of an element.
Items == Nat \X Seq(Cells)

Item(d, f, i) == <<d.index[f][i].id, DataOf(d, f, d.index[f][i])>>

\* The list of the elements of a file.
LEMMA ListedItems ==
    ASSUME Flat, NEW d \in Disks, NEW f \in Files, Placed(d, f), FileOK(d, f)
    PROVE  /\ Listed(d, f) \in Seq(Items) /\ Len(Listed(d, f)) = Len(d.index[f])
           /\ DOMAIN Listed(d, f) = DOMAIN d.index[f]
           /\ \A i \in DOMAIN d.index[f] : Listed(d, f)[i] = Item(d, f, i) /\ Item(d, f, i) \in Items
<1> DEFINE s   == StartOf(d, f)
           idx == d.index[f]
           g   == [i \in DOMAIN idx |-> <<idx[i].id, DataOf(d, f, idx[i])>>]
<1>1. /\ s \in Nat /\ Len(idx) \in Nat /\ DOMAIN idx = 1 .. Len(idx) /\ \A i \in DOMAIN idx : idx[i] \in Entries
  BY PlaceType, IndexType
<1>2. Laid(d, s, idx, d.end[f])
  BY DEF FileOK
<1>3. Listed(d, f) = <<>> \o g
  BY DEF Listed
<1>g. \A i \in DOMAIN idx : g[i] = Item(d, f, i)
  BY DEF Item
<1>4. ASSUME NEW i \in DOMAIN idx
      PROVE  Item(d, f, i) \in Items
  <2>1. idx[i] \in Entries /\ idx[i].id \in Nat
    BY <1>1 DEF Entries
  <2>2. DataOf(d, f, idx[i]) \in Seq(Cells)
    <3>1. CASE idx[i].type = "file"
      BY <3>1, StorableData DEF DataOf, Storable
    <3>2. CASE idx[i].type # "file"
      <4>1. IsSize(d, s + idx[i].offset)
        BY <1>2 DEF Laid
      <4>2. s \in Nat /\ StartOf(d, f) = s
        BY <1>1
      <4> DEFINE x == idx[i]
      <4>3. x \in Entries /\ x.type # "file" /\ IsSize(d, s + x.offset)
        BY <2>1, <3>2, <4>1
      <4> HIDE DEF s, x
      <4>4. HasData(d, s + x.offset, DataOf(d, f, x))
        BY <4>2, <4>3, DataRead
      <4> QED
        BY <4>4 DEF HasData, x
    <3> QED
      BY <3>1, <3>2
  <2> QED
    BY <2>1, <2>2 DEF Item, Items
<1>5. g \in [1 .. Len(idx) -> Items]
  <2>1. g = [i \in DOMAIN idx |-> g[i]]
    OBVIOUS
  <2> HIDE DEF g
  <2> QED
    BY <1>1, <1>4, <1>g, <2>1
<1>d. DOMAIN g = DOMAIN idx
  OBVIOUS
<1> HIDE DEF g
<1>6. g \in Seq(Items) /\ Len(g) = Len(idx)
  BY <1>1, <1>5, FunctionIsSeq
<1>7. Listed(d, f) = g
  BY <1>3, <1>6, ConcatEmptySeq
<1> QED
  BY <1>4, <1>6, <1>7, <1>g, <1>d

\* The same element is listed in the same way.
LEMMA SameItem ==
    ASSUME Flat, NEW d \in Disks, NEW e \in Disks, NEW f \in Files,
           Placed(d, f), FileOK(d, f), Placed(e, f), FileOK(e, f),
           NEW i \in DOMAIN d.index[f], NEW j \in DOMAIN e.index[f], SameElement(d, e, f, i, j)
    PROVE  Item(e, f, j) = Item(d, f, i)
<1> DEFINE s == StartOf(d, f)
           t == StartOf(e, f)
           x == d.index[f][i]
           y == e.index[f][j]
           k == s + x.offset
           m == t + y.offset
<1>1. s \in Nat /\ t \in Nat /\ x \in Entries /\ y \in Entries
  BY PlaceType, IndexType
<1>2. x.offset \in Nat /\ y.offset \in Nat
  BY <1>1 DEF Entries
<1>3. IsSize(d, k) /\ IsSize(e, m)
  BY DEF FileOK, Laid
<1>4. y.id = x.id /\ y.type = x.type /\ Copied(d, k, e, m)
  BY DEF SameElement, Off
<1>5. k \in Nat /\ m \in Nat /\ StartOf(d, f) = s /\ StartOf(e, f) = t
  BY <1>1, <1>2
<1>i. Item(d, f, i) = <<x.id, DataOf(d, f, x)>> /\ Item(e, f, j) = <<y.id, DataOf(e, f, y)>>
  BY DEF Item
<1> HIDE DEF s, t, x, y
<1>6. CASE x.type = "file"
  BY <1>4, <1>6, <1>i DEF DataOf
<1>7. CASE x.type # "file"
  <2>1. HasData(d, k, DataOf(d, f, x))
    BY <1>1, <1>3, <1>5, <1>7, DataRead
  <2>2. HasData(e, m, DataOf(e, f, y))
    BY <1>1, <1>3, <1>4, <1>5, <1>7, DataRead
  <2>3. SizeAt(d, k) \in Nat
    BY <1>3, SizeType
  <2> HIDE DEF k, m
  <2>4. DataOf(d, f, x) = DataOf(e, f, y)
    BY <1>4, <1>5, <2>1, <2>2, <2>3, OneData
  <2> QED
    BY <1>4, <1>i, <2>4
<1> QED
  BY <1>6, <1>7

\* Files with the same elements are listed in the same way.
LEMMA SameList ==
    ASSUME Flat, NEW d \in Disks, NEW e \in Disks, NEW f \in Files,
           Placed(d, f), FileOK(d, f), Placed(e, f), FileOK(e, f),
           Len(e.index[f]) = Len(d.index[f]),
           \A i \in DOMAIN d.index[f] : SameElement(d, e, f, i, i)
    PROVE  Listed(e, f) = Listed(d, f)
<1> DEFINE u == Listed(d, f)
           v == Listed(e, f)
           n == Len(d.index[f])
<1>1. n \in Nat /\ DOMAIN d.index[f] = 1 .. n /\ DOMAIN e.index[f] = 1 .. n
  BY IndexType
<1>2. /\ u \in Seq(Items) /\ Len(u) = n /\ \A i \in 1 .. n : u[i] = Item(d, f, i)
      /\ v \in Seq(Items) /\ Len(v) = n /\ \A i \in 1 .. n : v[i] = Item(e, f, i)
  BY <1>1, ListedItems
<1>3. \A i \in 1 .. n : Item(e, f, i) = Item(d, f, i)
  BY <1>1, SameItem
<1> HIDE DEF u, v, n
<1>4. u = v
  BY <1>2, <1>3, SeqEqual
<1> QED
  BY <1>4 DEF u, v

\* After an operation, an element that has an ID from before is that element.
LEMMA FollowedItem ==
    ASSUME Flat, NEW d \in Disks, NEW f \in Files, Placed(d, f), FileOK(d, f),
           NEW e, NEW x, Made(d, e, f, x), NEW i \in DOMAIN d.index[f], i # x,
           NEW j \in DOMAIN e.index[f], e.index[f][j].id = d.index[f][i].id
    PROVE  SameElement(d, e, f, i, j) /\ Listed(e, f)[j] = Listed(d, f)[i]
<1>1. /\ e \in Disks /\ Placed(e, f) /\ FileOK(e, f) /\ Remains(d, e, f, x)
  BY DEF Made, Within
<1>2. PICK k \in DOMAIN e.index[f] : SameElement(d, e, f, i, k)
  BY <1>1 DEF Remains
<1>3. k = j
  <2>1. e.index[f][k].id = e.index[f][j].id
    BY <1>2 DEF SameElement
  <2> QED
    BY <1>1, <2>1 DEF FileOK, Named
<1>4. Item(e, f, j) = Item(d, f, i)
  BY <1>1, <1>2, <1>3, SameItem
<1> QED
  BY <1>1, <1>2, <1>3, <1>4, ListedItems

-----------------------------------------------------------------------------
(* What is done to a list of elements.                                     *)

\* The operators of FileOfElements are those of this module.
LEMMA SameOperators ==
    /\ \A s, i : Contents!RemoveAt(s, i) = RemoveAt(s, i)
    /\ \A s, i, x : Contents!InsertAt(s, i, x) = InsertAt(s, i, x)
BY DEF Contents!RemoveAt, RemoveAt, Contents!InsertAt, InsertAt

\* An element is added.
LEMMA InsertsOne ==
    ASSUME NEW s \in Seq(Items), NEW t \in Seq(Items), NEW i \in 1 .. Len(s) + 1, Len(t) = Len(s) + 1,
           \A j \in Nat : 1 <= j /\ j < i => t[j] = s[j],
           \A j \in Nat : i < j /\ j <= Len(s) + 1 => t[j] = s[j - 1],
           \A j \in DOMAIN s : s[j][1] # t[i][1],
           t[i][2] \in {Bytes(x) : x \in Data} \cup {Bytes(<< 0 >>)}
    PROVE  Contents!InsertOne(s, t)
<1> DEFINE n == Len(s)
           r == RemoveAt(t, i)
<1>1. n \in Nat /\ DOMAIN s = 1 .. n /\ DOMAIN t = 1 .. n + 1
  BY LenProperties
<1>2. i \in 1 .. Len(t)
  BY <1>1
<1>3. r \in Seq(Items) /\ Len(r) = Len(t) - 1 /\ \A j \in 1 .. Len(t) - 1 : r[j] = IF j < i THEN t[j] ELSE t[j + 1]
  BY <1>2, RemoveAtProperties
<1>l. Len(t) - 1 = n /\ i \in Nat
  BY <1>1
<1> HIDE DEF r
<1>4. ASSUME NEW j \in 1 .. n
      PROVE  r[j] = s[j]
  <2>1. CASE j < i
    BY <1>1, <1>3, <1>l, <2>1
  <2>2. CASE ~ (j < i)
    <3>1. i < j + 1 /\ j + 1 <= Len(s) + 1 /\ j + 1 \in Nat /\ (j + 1) - 1 = j
      BY <1>1, <1>l, <2>2
    <3>2. t[j + 1] = s[(j + 1) - 1]
      BY <3>1
    <3>3. r[j] = t[j + 1]
      BY <1>3, <1>l, <2>2
    <3> QED
      BY <3>1, <3>2, <3>3
  <2> QED
    BY <2>1, <2>2
<1>5. r = s
  BY <1>1, <1>3, <1>4, <1>l, SeqEqual
<1>6. i \in DOMAIN t
  BY <1>1
<1>7. t[i][1] \notin Contents!IDs(s)
  BY DEF Contents!IDs
<1>8. Contents!RemoveAt(t, i) = s
  BY <1>5, SameOperators DEF r
<1> QED
  BY <1>6, <1>7, <1>8 DEF Contents!InsertOne

\* An element is removed.
LEMMA RemovesOne ==
    ASSUME NEW s \in Seq(Items), NEW t \in Seq(Items), NEW i \in 1 .. Len(s), Len(t) = Len(s) - 1,
           \A j \in 1 .. Len(s) - 1 : t[j] = IF j < i THEN s[j] ELSE s[j + 1]
    PROVE  Contents!RemoveOne(s, t)
<1> DEFINE n == Len(s)
           r == RemoveAt(s, i)
<1>1. n \in Nat /\ DOMAIN s = 1 .. n
  BY LenProperties
<1>3. r \in Seq(Items) /\ Len(r) = n - 1 /\ \A j \in 1 .. n - 1 : r[j] = IF j < i THEN s[j] ELSE s[j + 1]
  BY RemoveAtProperties
<1> HIDE DEF r
<1>4. Len(t) = n - 1 /\ \A j \in 1 .. n - 1 : t[j] = r[j]
  BY <1>3
<1>5. t = r
  BY <1>3, <1>4, SeqEqual
<1>6. t = Contents!RemoveAt(s, i)
  BY <1>5, SameOperators DEF r
<1>7. Len(t) + 1 = Len(s)
  BY <1>1
<1> QED
  BY <1>1, <1>6, <1>7 DEF Contents!RemoveOne

\* An element gets other data.
LEMMA SetsOne ==
    ASSUME NEW s \in Seq(Items), NEW t \in Seq(Items), NEW i \in 1 .. Len(s), Len(t) = Len(s),
           \A j \in 1 .. Len(s) : j # i => t[j] = s[j],
           t[i][1] = s[i][1], t[i][2] \in {Bytes(x) : x \in Data}
    PROVE  Contents!SetOne(s, t)
<1> DEFINE n == Len(s)
           v == t[i][2]
           u == [s EXCEPT ![i][2] = v]
<1>1. /\ n \in Nat /\ DOMAIN s = 1 .. n /\ DOMAIN t = 1 .. n
      /\ (\A j \in 1 .. n : s[j] \in Items /\ t[j] \in Items)
  BY LenProperties, ElementOfSeq
<1>2. /\ s[i] = <<s[i][1], s[i][2]>> /\ t[i] = <<t[i][1], t[i][2]>> /\ s[i][1] \in Nat /\ v \in Seq(Cells)
  BY <1>1 DEF Items
<1>3. [s[i] EXCEPT ![2] = v] = t[i]
  <2> DEFINE a == s[i][1]
             b == s[i][2]
  <2>1. s[i] = <<a, b>> /\ t[i] = <<a, v>>
    BY <1>2
  <2> HIDE DEF a, b, v
  <2>2. [<<a, b>> EXCEPT ![2] = v] = <<a, v>>
    OBVIOUS
  <2> QED
    BY <2>1, <2>2
<1>4. u = [s EXCEPT ![i] = t[i]]
  BY <1>3
<1> HIDE DEF v, u
<1>5. DOMAIN u = 1 .. n /\ u[i] = t[i] /\ \A j \in 1 .. n : j # i => u[j] = s[j]
  BY <1>1, <1>4
<1>6. u \in [1 .. n -> Items]
  <2>1. \A j \in 1 .. n : u[j] \in Items
    BY <1>1, <1>5
  <2>2. u = [j \in 1 .. n |-> u[j]]
    BY <1>1, <1>4
  <2> QED
    BY <2>1, <2>2
<1>7. u \in Seq(Items) /\ Len(u) = n
  BY <1>1, <1>6, FunctionIsSeq
<1>8. \A j \in 1 .. n : t[j] = u[j]
  BY <1>5
<1>9. t = u
  BY <1>7, <1>8, SeqEqual
<1> QED
  BY <1>1, <1>9 DEF Contents!SetOne, u, v

\* t is s in the order that nx has of idx.
SameOrder(idx, nx, s, t) ==
    \A a \in DOMAIN idx, b \in DOMAIN nx : nx[b] = idx[a] => t[b] = s[a]

\* What MoveOne says of the two places.
LEMMA MovesHere ==
    ASSUME NEW s, NEW t, Len(t) = Len(s), NEW i \in DOMAIN s, NEW j \in DOMAIN s,
           t = Contents!InsertAt(Contents!RemoveAt(s, i), j, s[i])
    PROVE  Contents!MoveOne(s, t)
BY DEF Contents!MoveOne

\* An element gets another place.
LEMMA MovesToPlace ==
    ASSUME NEW idx \in Seq(Entries), NEW s \in Seq(Items), Len(s) = Len(idx),
           NEW i \in DOMAIN idx, NEW j \in DOMAIN idx,
           NEW t \in Seq(Items), Len(t) = Len(idx),
           SameOrder(idx, InsertAt(RemoveAt(idx, i), j, idx[i]), s, t)
    PROVE  Contents!MoveOne(s, t)
<1> DEFINE n  == Len(idx)
           rx == RemoveAt(idx, i)
           nx == InsertAt(rx, j, idx[i])
           rs == RemoveAt(s, i)
           u  == InsertAt(rs, j, s[i])
<1>1. n \in Nat /\ DOMAIN idx = 1 .. n /\ DOMAIN s = 1 .. n /\ i \in 1 .. n /\ j \in 1 .. n /\ n >= 1
  <2>1. n \in Nat /\ DOMAIN idx = 1 .. n /\ DOMAIN s = 1 .. n
    BY LenProperties
  <2> QED
    BY <2>1
<1>2. s[i] \in Items /\ idx[i] \in Entries
  BY <1>1, ElementOfSeq
<1>3. rx \in Seq(Entries) /\ Len(rx) = n - 1 /\ \A k \in 1 .. n - 1 : rx[k] = IF k < i THEN idx[k] ELSE idx[k + 1]
  BY <1>1, RemoveAtProperties
<1>4. rs \in Seq(Items) /\ Len(rs) = n - 1 /\ \A k \in 1 .. n - 1 : rs[k] = IF k < i THEN s[k] ELSE s[k + 1]
  BY <1>1, RemoveAtProperties
<1> HIDE DEF rx, rs, n
<1>l. j \in 1 .. Len(rx) + 1 /\ j \in 1 .. Len(rs) + 1
  BY <1>1, <1>3, <1>4
<1>5. nx \in Seq(Entries) /\ HasInserted(rx, nx, j, idx[i])
  BY <1>2, <1>3, <1>l, InsertAtProperties
<1>6. u \in Seq(Items) /\ HasInserted(rs, u, j, s[i])
  <2> DEFINE x == s[i]
  <2>1. x \in Items
    BY <1>2
  <2> HIDE DEF x
  <2>2. InsertAt(rs, j, x) \in Seq(Items) /\ HasInserted(rs, InsertAt(rs, j, x), j, x)
    BY <1>4, <1>l, <2>1, InsertAtProperties
  <2> QED
    BY <2>2 DEF x
<1>o. SameOrder(idx, nx, s, t)
  BY DEF rx
<1> HIDE DEF nx, u
<1>7. /\ Len(nx) = n /\ Len(u) = n /\ nx[j] = idx[i] /\ u[j] = s[i]
      /\ \A k \in Nat : 1 <= k /\ k < j => nx[k] = rx[k] /\ u[k] = rs[k]
      /\ \A k \in Nat : j < k /\ k <= n => nx[k] = rx[k - 1] /\ u[k] = rs[k - 1]
  BY <1>1, <1>3, <1>4, <1>5, <1>6 DEF HasInserted
<1>8. DOMAIN nx = 1 .. n
  BY <1>5, <1>7, LenProperties
<1>9. ASSUME NEW k \in 1 .. n - 1
      PROVE  \E a \in DOMAIN idx : rx[k] = idx[a] /\ rs[k] = s[a]
  <2>1. CASE k < i
    <3>1. k \in DOMAIN idx /\ rx[k] = idx[k] /\ rs[k] = s[k]
      BY <1>1, <1>3, <1>4, <2>1
    <3> QED
      BY <3>1
  <2>2. CASE ~ (k < i)
    <3>1. k + 1 \in DOMAIN idx /\ rx[k] = idx[k + 1] /\ rs[k] = s[k + 1]
      BY <1>1, <1>3, <1>4, <2>2
    <3> QED
      BY <3>1
  <2> QED
    BY <2>1, <2>2
<1>10. ASSUME NEW b \in 1 .. n
       PROVE  t[b] = u[b]
  <2>1. \E a \in DOMAIN idx : nx[b] = idx[a] /\ u[b] = s[a]
    <3>1. CASE b = j
      BY <1>7, <3>1
    <3>2. CASE b < j
      <4>1. b \in 1 .. n - 1 /\ nx[b] = rx[b] /\ u[b] = rs[b]
        BY <1>1, <1>7, <3>2
      <4> QED
        BY <1>9, <4>1
    <3>3. CASE j < b
      <4>1. b - 1 \in 1 .. n - 1 /\ nx[b] = rx[b - 1] /\ u[b] = rs[b - 1]
        BY <1>1, <1>7, <3>3
      <4> QED
        BY <1>9, <4>1
    <3> QED
      BY <1>1, <3>1, <3>2, <3>3
  <2>2. PICK a \in DOMAIN idx : nx[b] = idx[a] /\ u[b] = s[a]
    BY <2>1
  <2> QED
    BY <1>8, <1>o, <2>2 DEF SameOrder
<1>t. Len(t) = n
  BY DEF n
<1>11. t = u
  BY <1>6, <1>7, <1>10, <1>t, SeqEqual
<1>12. t = Contents!InsertAt(Contents!RemoveAt(s, i), j, s[i])
  BY <1>11, SameOperators DEF u, rs
<1>13. i \in DOMAIN s /\ j \in DOMAIN s /\ Len(t) = Len(s)
  BY <1>1
<1>14. Contents!MoveOne(s, t)
  BY <1>12, <1>13, MovesHere
<1> QED
  BY <1>14

\* Two elements get each other's places.
LEMMA SwapsTwo ==
    ASSUME NEW idx \in Seq(Entries), NEW s \in Seq(Items), Len(s) = Len(idx),
           NEW i \in DOMAIN idx, NEW j \in DOMAIN idx, i # j,
           NEW t \in Seq(Items), Len(t) = Len(idx),
           SameOrder(idx, [idx EXCEPT ![i] = idx[j], ![j] = idx[i]], s, t)
    PROVE  Contents!SwapTwo(s, t)
<1> DEFINE n  == Len(idx)
           nx == [idx EXCEPT ![i] = idx[j], ![j] = idx[i]]
           u  == [s EXCEPT ![i] = s[j], ![j] = s[i]]
<1>1. /\ n \in Nat /\ DOMAIN idx = 1 .. n /\ DOMAIN s = 1 .. n /\ i \in 1 .. n /\ j \in 1 .. n
      /\ \A k \in 1 .. n : s[k] \in Items
  <2>1. n \in Nat /\ DOMAIN idx = 1 .. n /\ DOMAIN s = 1 .. n /\ \A k \in 1 .. n : s[k] \in Items
    BY LenProperties, ElementOfSeq
  <2> QED
    BY <2>1
<1>2. /\ DOMAIN nx = 1 .. n /\ nx[i] = idx[j] /\ nx[j] = idx[i]
      /\ \A k \in 1 .. n : k # i /\ k # j => nx[k] = idx[k]
  BY <1>1
<1>3. /\ DOMAIN u = 1 .. n /\ u[i] = s[j] /\ u[j] = s[i] /\ u = [k \in 1 .. n |-> u[k]]
      /\ \A k \in 1 .. n : k # i /\ k # j => u[k] = s[k]
  BY <1>1
<1>o. SameOrder(idx, nx, s, t)
  OBVIOUS
<1> HIDE DEF nx, u
<1>4. u \in Seq(Items) /\ Len(u) = n
  <2>1. \A k \in 1 .. n : u[k] \in Items
    BY <1>1, <1>3
  <2>2. u \in [1 .. n -> Items]
    BY <1>3, <2>1
  <2> QED
    BY <1>1, <2>2, FunctionIsSeq
<1>5. ASSUME NEW b \in 1 .. n
      PROVE  t[b] = u[b]
  <2>1. \E a \in DOMAIN idx : nx[b] = idx[a] /\ u[b] = s[a]
    BY <1>1, <1>2, <1>3
  <2> QED
    BY <1>2, <1>o, <2>1 DEF SameOrder
<1>6. t = u
  BY <1>4, <1>5, SeqEqual
<1> QED
  BY <1>1, <1>6 DEF Contents!SwapTwo, u

-----------------------------------------------------------------------------
(* What can be read of the files.                                          *)

\* There is at most one embedded file; FileID stands for one element of the base file.
OneInner == \A g, h \in Files \ {Base} : g = h

\* The only member of a set of one.
LEMMA OnlyOne == \A x : Only({x}) = x
BY DEF Only

\* Opened, unfolded: each file is read where the one around it says that it is.
LEMMA OpenedFiles ==
    ASSUME Flat, NEW d, NEW o, NEW b,
           b = IF Base \in Range(o) \/ d.cells = <<>> THEN d ELSE ReadHeader(d, Base)
    PROVE  /\ Opened(d, o)[Base] = b
           /\ \A g \in Files \ {Base} : Opened(d, o)[g] =
                 IF g \in Range(o) THEN d ELSE IF HasFile(b, Base) THEN ReadHeader(b, g) ELSE b
<1> DEFINE H(g) == IF g \in Range(o) THEN d ELSE IF HasFile(b, Base) THEN ReadHeader(b, g) ELSE b
           Body(h) == [f \in Files |->
                          IF f \in Range(o) \/ (f = Base /\ d.cells = <<>>) THEN d
                          ELSE IF f = Base THEN ReadHeader(d, f)
                          ELSE Only({IF HasFile(e, EnclosedBy[f]) THEN ReadHeader(e, f) ELSE e :
                                     e \in {h[EnclosedBy[f]]}})]
           v == [f \in Files |-> IF f = Base THEN b ELSE H(f)]
           w == Opened(d, o)
<1>1. w = CHOOSE h : h = Body(h)
  BY DEF Opened
<1>2. Base \in Files /\ \A f \in Files : f # Base => EnclosedBy[f] = Base
  BY FileLayoutAssumption DEF Flat
<1>3. v[Base] = b
  BY <1>2
<1>4. ASSUME NEW h, h[Base] = b, NEW f \in Files, f # Base
      PROVE  Body(h)[f] = H(f)
  <2> DEFINE S == {IF HasFile(e, EnclosedBy[f]) THEN ReadHeader(e, f) ELSE e : e \in {h[EnclosedBy[f]]}}
             r == IF HasFile(b, Base) THEN ReadHeader(b, f) ELSE b
  <2>1. S = {r}
    BY <1>2, <1>4
  <2>2. Only(S) = r
    BY <2>1, OnlyOne
  <2>3. Body(h)[f] = IF f \in Range(o) THEN d ELSE Only(S)
    BY <1>4
  <2> QED
    BY <2>2, <2>3
<1>5. ASSUME NEW h
      PROVE  Body(h)[Base] = b
  BY <1>2
<1>6. v = Body(v)
  <2>1. \A f \in Files : v[f] = Body(v)[f]
    <3>1. ASSUME NEW f \in Files
          PROVE  v[f] = Body(v)[f]
      <4>1. CASE f = Base
        BY <1>3, <1>5, <4>1
      <4>2. CASE f # Base
        <5>1. v[f] = H(f)
          BY <4>2
        <5> HIDE DEF v, Body
        <5> QED
          BY <1>3, <1>4, <4>2, <5>1
      <4> QED
        BY <4>1, <4>2
    <3> QED
      BY <3>1
  <2> DEFINE B == Body(v)
  <2>2. v = [f \in Files |-> v[f]] /\ B = [f \in Files |-> B[f]]
    OBVIOUS
  <2> HIDE DEF v, Body
  <2> QED
    BY <2>1, <2>2
<1> HIDE DEF v, w, Body
<1>7. w = Body(w)
  BY <1>1, <1>6
<1>8. w[Base] = b
  BY <1>5, <1>7
<1>9. \A f \in Files \ {Base} : w[f] = H(f)
  BY <1>4, <1>7, <1>8
<1> QED
  BY <1>8, <1>9 DEF w

\* What is listed is what is in the opened file.
LEMMA ContentsOf ==
    \A d, o : /\ ContentsIn(d, o) = [f \in Files |-> Listed(Opened(d, o)[f], f)]
              /\ \A f \in Files : ContentsIn(d, o)[f] = Listed(Opened(d, o)[f], f)
<1>1. ASSUME NEW d, NEW o
      PROVE  ContentsIn(d, o) = [f \in Files |-> Listed(Opened(d, o)[f], f)]
  <2>1. \A f : {Listed(e, f) : e \in {Opened(d, o)[f]}} = {Listed(Opened(d, o)[f], f)}
    OBVIOUS
  <2> QED
    BY <2>1, OnlyOne DEF ContentsIn
<1> QED
  BY <1>1

\* A file without elements is an empty list.
LEMMA NothingListed ==
    ASSUME NEW d, NEW f, d.index[f] = <<>>
    PROVE  Listed(d, f) = <<>>
<1> DEFINE g == [i \in DOMAIN <<>> |-> <<d.index[f][i].id, DataOf(d, f, d.index[f][i])>>]
<1>1. Listed(d, f) = <<>> \o g
  BY DEF Listed
<1>2. g = <<>>
  OBVIOUS
<1>3. <<>> \in Seq({})
  OBVIOUS
<1> QED
  BY <1>1, <1>2, <1>3, ConcatEmptySeq

\* HasFile of the base file.
LEMMA HoldsOne == \A d : HasFile(d, Base) = HoldsFile(d)
BY DEF HasFile, HoldsFile, IDToIndex

\* What is in an embedded file that is not open.
StoredList(d, g) == IF HoldsFile(d) THEN Listed(ReadHeader(d, g), g) ELSE <<>>

\* What is in the files when the base file is open, and no other.
LEMMA BaseContents ==
    ASSUME Flat, NEW d, NoIndex(d, {Base})
    PROVE  ContentsIn(d, <<Base>>) = [f \in Files |-> IF f = Base THEN Listed(d, Base) ELSE StoredList(d, f)]
<1> DEFINE o == <<Base>>
<1>1. Range(o) = {Base}
  BY DEF Range
<1> HIDE DEF o
<1>2. /\ Opened(d, o)[Base] = d
      /\ \A g \in Files \ {Base} : Opened(d, o)[g] =
            IF g \in Range(o) THEN d ELSE IF HasFile(d, Base) THEN ReadHeader(d, g) ELSE d
  <2>1. d = IF Base \in Range(o) \/ d.cells = <<>> THEN d ELSE ReadHeader(d, Base)
    BY <1>1
  <2> QED
    BY <2>1, OpenedFiles
<1>3. ASSUME NEW g \in Files \ {Base}
      PROVE  Listed(Opened(d, o)[g], g) = StoredList(d, g)
  <2>1. Opened(d, o)[g] = IF HoldsFile(d) THEN ReadHeader(d, g) ELSE d
    BY <1>1, <1>2, HoldsOne
  <2>2. Listed(d, g) = <<>>
    BY NothingListed DEF NoIndex
  <2> QED
    BY <2>1, <2>2 DEF StoredList
<1>4. \A f \in Files : Listed(Opened(d, o)[f], f) = IF f = Base THEN Listed(d, Base) ELSE StoredList(d, f)
  BY <1>2, <1>3
<1> QED
  BY <1>4, ContentsOf DEF o

\* When the embedded file is open, too.
LEMMA InnerContents ==
    ASSUME Flat, OneInner, NEW d, NEW g \in Files \ {Base}
    PROVE  ContentsIn(d, <<Base, g>>) = [f \in Files |-> Listed(d, f)]
<1> DEFINE o == <<Base, g>>
<1>1. Range(o) = {Base, g}
  BY DEF Range
<1> HIDE DEF o
<1>2. /\ Opened(d, o)[Base] = d
      /\ \A h \in Files \ {Base} : Opened(d, o)[h] =
            IF h \in Range(o) THEN d ELSE IF HasFile(d, Base) THEN ReadHeader(d, h) ELSE d
  <2>1. d = IF Base \in Range(o) \/ d.cells = <<>> THEN d ELSE ReadHeader(d, Base)
    BY <1>1
  <2> QED
    BY <2>1, OpenedFiles
<1>3. \A f \in Files : Opened(d, o)[f] = d
  BY <1>1, <1>2 DEF OneInner
<1> QED
  BY <1>3, ContentsOf DEF o

\* When nothing has been stored.
LEMMA NoContents ==
    ASSUME Flat, NEW d, NoIndex(d, {}), d.cells = <<>>
    PROVE  ContentsIn(d, <<>>) = [f \in Files |-> <<>>]
<1> DEFINE o == <<>>
<1>1. Range(o) = {}
  BY DEF Range
<1>2. \A f \in Files : d.index[f] = <<>>
  BY DEF NoIndex
<1> HIDE DEF o
<1>3. ~HasFile(d, Base)
  <2>1. d.index[Base] = <<>> /\ DOMAIN <<>> = {}
    BY <1>2, BasePlaced
  <2> QED
    BY <2>1 DEF HasFile, IDToIndex
<1>4. /\ Opened(d, o)[Base] = d
      /\ \A h \in Files \ {Base} : Opened(d, o)[h] =
            IF h \in Range(o) THEN d ELSE IF HasFile(d, Base) THEN ReadHeader(d, h) ELSE d
  <2>1. d = IF Base \in Range(o) \/ d.cells = <<>> THEN d ELSE ReadHeader(d, Base)
    OBVIOUS
  <2> QED
    BY <2>1, OpenedFiles
<1>5. \A f \in Files : Opened(d, o)[f] = d
  BY <1>1, <1>3, <1>4
<1>6. \A f \in Files : Listed(d, f) = <<>>
  BY <1>2, NothingListed
<1> QED
  BY <1>5, <1>6, ContentsOf DEF o

\* When no file is open, what would be read.
LEMMA ClosedContents ==
    ASSUME Flat, NEW d, d.cells # <<>>, NEW b, b = ReadHeader(d, Base), NoIndex(b, {Base})
    PROVE  ContentsIn(d, <<>>) = ContentsIn(b, <<Base>>)
<1> DEFINE o == <<>>
<1>1. Range(o) = {}
  BY DEF Range
<1> HIDE DEF o
<1>2. /\ Opened(d, o)[Base] = b
      /\ \A h \in Files \ {Base} : Opened(d, o)[h] =
            IF h \in Range(o) THEN d ELSE IF HasFile(b, Base) THEN ReadHeader(b, h) ELSE b
  <2>1. b = IF Base \in Range(o) \/ d.cells = <<>> THEN d ELSE ReadHeader(d, Base)
    BY <1>1
  <2> QED
    BY <2>1, OpenedFiles
<1>3. ASSUME NEW g \in Files \ {Base}
      PROVE  Listed(Opened(d, o)[g], g) = StoredList(b, g)
  <2>1. Opened(d, o)[g] = IF HoldsFile(b) THEN ReadHeader(b, g) ELSE b
    BY <1>1, <1>2, HoldsOne
  <2>2. Listed(b, g) = <<>>
    BY NothingListed DEF NoIndex
  <2> QED
    BY <2>1, <2>2 DEF StoredList
<1>4. \A f \in Files : Listed(Opened(d, o)[f], f) = IF f = Base THEN Listed(b, Base) ELSE StoredList(b, f)
  BY <1>2, <1>3
<1>5. ContentsIn(b, <<Base>>) = [f \in Files |-> IF f = Base THEN Listed(b, Base) ELSE StoredList(b, f)]
  BY BaseContents
<1> QED
  BY <1>4, <1>5, ContentsOf DEF o

-----------------------------------------------------------------------------
(* Lists that stay as they are.                                            *)

\* What is listed only depends on the cells and the index, and on where the file is.
LEMMA SameCells ==
    ASSUME Flat, NEW d, NEW e, e.cells = d.cells, e.index[Base] = d.index[Base], NEW f \in Files,
           e.index[f] = d.index[f]
    PROVE  Listed(e, f) = Listed(d, f) /\ StartOf(e, f) = StartOf(d, f)
<1>1. StartOf(e, f) = StartOf(d, f)
  <2>1. CASE f = Base
    BY <2>1 DEF StartOf
  <2>2. CASE f # Base
    <3>1. EnclosedBy[f] = Base
      BY <2>2 DEF Flat
    <3>2. IDToIndex(e, Base, FileID) = IDToIndex(d, Base, FileID)
      BY DEF IDToIndex
    <3>3. ElementOf(e, f) = ElementOf(d, f)
      BY <3>1, <3>2 DEF ElementOf
    <3> QED
      BY <2>2, <3>1, <3>3 DEF StartOf
  <2> QED
    BY <2>1, <2>2
<1>2. \A k : Cell(e, k) = Cell(d, k)
  BY DEF Cell
<1>3. \A to : Front0(e, to) = Front0(d, to)
  BY DEF Front0
<1>4. \A i, n : ReadCells(e, f, i, n) = ReadCells(d, f, i, n)
  BY <1>1, <1>3 DEF ReadCells
<1>5. \A x : DataOf(e, f, x) = DataOf(d, f, x)
  BY <1>1, <1>2, <1>4 DEF DataOf
<1> QED
  BY <1>1, <1>5 DEF Listed

\* A base file whose elements are the same but for what the one for embedded files holds.
LEMMA AroundListed ==
    ASSUME Flat, NEW d \in Disks, NEW e \in Disks, FileOK(d, Base), FileOK(e, Base), HoldsFile(d),
           NEW g \in Files \ {Base}, Around(d, e, g)
    PROVE  Listed(e, Base) = Listed(d, Base)
<1> DEFINE u == Listed(d, Base)
           v == Listed(e, Base)
           n == Len(d.index[Base])
<1>1. Placed(d, Base) /\ Placed(e, Base) /\ Base \in Files
  BY BasePlaced
<1>2. /\ n \in Nat /\ DOMAIN d.index[Base] = 1 .. n /\ DOMAIN e.index[Base] = 1 .. Len(e.index[Base])
  BY <1>1, IndexType
<1>3. /\ Len(e.index[Base]) = n
      /\ \A i \in 1 .. n :
            /\ e.index[Base][i].id = d.index[Base][i].id
            /\ e.index[Base][i].type = d.index[Base][i].type
            /\ d.index[Base][i].id # FileID => Copied(d, Off(d, Base, i), e, Off(e, Base, i))
  BY DEF Around
<1>4. /\ u \in Seq(Items) /\ Len(u) = n /\ \A i \in 1 .. n : u[i] = Item(d, Base, i)
      /\ v \in Seq(Items) /\ Len(v) = n /\ \A i \in 1 .. n : v[i] = Item(e, Base, i)
  BY <1>1, <1>2, <1>3, ListedItems
<1>5. ASSUME NEW i \in 1 .. n
      PROVE  Item(e, Base, i) = Item(d, Base, i)
  <2>1. CASE d.index[Base][i].id = FileID
    <3>1. d.index[Base][i].type = "file"
      BY <1>2, <2>1 DEF HoldsFile, FileOK, Named
    <3> QED
      BY <1>3, <3>1 DEF Item, DataOf
  <2>2. CASE d.index[Base][i].id # FileID
    <3>1. i \in DOMAIN d.index[Base] /\ i \in DOMAIN e.index[Base]
      BY <1>2, <1>3
    <3>2. StartOf(d, Base) + Off(d, Base, i) = Off(d, Base, i) /\ StartOf(e, Base) + Off(e, Base, i) = Off(e, Base, i)
      BY <3>1, BaseElement
    <3>3. SameElement(d, e, Base, i, i)
      BY <1>3, <2>2, <3>2 DEF SameElement
    <3> QED
      BY <1>1, <3>1, <3>3, SameItem
  <2> QED
    BY <2>1, <2>2
<1> HIDE DEF u, v, n
<1>6. u = v
  BY <1>4, <1>5, SeqEqual
<1> QED
  BY <1>6 DEF u, v

\* A file that is copied with all that is in it.
LEMMA CarriedList ==
    ASSUME Flat, NEW d \in Disks, NEW e \in Disks, NEW f \in Files,
           Placed(d, f), FileOK(d, f), Placed(e, f), FileOK(e, f), e.index[f] = d.index[f],
           Run(d, StartOf(d, f), e, StartOf(e, f), d.end[f])
    PROVE  Listed(e, f) = Listed(d, f)
<1> DEFINE s == StartOf(d, f)
           t == StartOf(e, f)
           n == d.end[f]
<1>1. s \in Nat /\ t \in Nat /\ n \in Nat
  BY PlaceType, IndexType
<1>2. ASSUME NEW i \in DOMAIN d.index[f]
      PROVE  SameElement(d, e, f, i, i)
  <2> DEFINE o == Off(d, f, i)
  <2>1. IsSize(d, s + o) /\ o + 1 + SizeAt(d, s + o) <= n
    BY DEF FileOK, Laid, Off
  <2>2. o \in Nat /\ SizeAt(d, s + o) \in Nat
    BY <2>1, IndexType, SizeType
  <2>3. Off(e, f, i) = o
    BY DEF Off
  <2> DEFINE l == SizeAt(d, s + o)
  <2>r. \A k \in Nat : k < n => Cell(e, t + k) = Cell(d, s + k)
    BY DEF Run
  <2>l. l \in Nat /\ o + 1 + l <= n /\ l = SizeAt(d, s + o)
    BY <2>1, <2>2
  <2> HIDE DEF o, s, t, n, l
  <2>4. ASSUME NEW j \in Nat, j <= l
        PROVE  Cell(e, t + o + j) = Cell(d, s + o + j)
    <3>1. o + j \in Nat /\ o + j < n /\ t + (o + j) = t + o + j /\ s + (o + j) = s + o + j
      BY <1>1, <2>2, <2>l, <2>4
    <3>2. Cell(e, t + (o + j)) = Cell(d, s + (o + j))
      BY <2>r, <3>1
    <3> QED
      BY <3>1, <3>2
  <2>5. Copied(d, s + o, e, t + o)
    BY <2>4, <2>l DEF Copied
  <2>6. Copied(d, StartOf(d, f) + Off(d, f, i), e, StartOf(e, f) + Off(e, f, i))
    BY <2>3, <2>5 DEF s, t, o
  <2> QED
    BY <2>6 DEF SameElement
<1> QED
  BY <1>2, SameList

\* Flushing a file changes nothing in it.
LEMMA FlushedList ==
    ASSUME Flat, NEW e \in Disks, NEW f \in Files, Placed(e, f), FileOK(e, f)
    PROVE  Listed(Flush(e, f), f) = Listed(e, f) /\ Listed(Finished(e, f), f) = Listed(e, f)
<1> DEFINE w == Flush(e, f)
           u == Listed(e, f)
           v == Listed(w, f)
           n == Len(e.index[f])
<1>1. Made(e, w, f, 0) /\ w.index = e.index
  BY FlushMade DEF Inside
<1>2. w \in Disks /\ Placed(w, f) /\ FileOK(w, f)
  BY <1>1 DEF Made, Within
<1>w. w.index = e.index
  BY <1>1
<1> HIDE DEF w
<1>3. n \in Nat /\ DOMAIN e.index[f] = 1 .. n
  BY IndexType
<1>4. u \in Seq(Items) /\ Len(u) = n /\ v \in Seq(Items) /\ Len(v) = n
  BY <1>2, <1>w, ListedItems
<1>5. ASSUME NEW i \in 1 .. n
      PROVE  v[i] = u[i]
  <2>1. i \in DOMAIN e.index[f] /\ i # 0 /\ i \in DOMAIN w.index[f] /\ w.index[f][i].id = e.index[f][i].id
    BY <1>3, <1>w
  <2> QED
    BY <1>1, <2>1, FollowedItem
<1> HIDE DEF u, v, n
<1>6. v = u
  BY <1>4, <1>5, SeqEqual
<1> QED
  BY <1>6 DEF u, v, w, Finished

\* Two disks are the same when their parts are.
LEMMA SameParts ==
    ASSUME NEW d \in Disks, NEW e \in Disks, e.cells = d.cells, e.ok = d.ok,
           \A f \in Files : e.index[f] = d.index[f] /\ e.end[f] = d.end[f]
    PROVE  e = d
<1>1. /\ d.index \in [Files -> Seq(Entries)] /\ e.index \in [Files -> Seq(Entries)]
      /\ d.end \in [Files -> Nat] /\ e.end \in [Files -> Nat]
  BY DEF Disks
<1>2. e.index = d.index /\ e.end = d.end
  <2>1. /\ d.index = [f \in Files |-> d.index[f]] /\ e.index = [f \in Files |-> e.index[f]]
        /\ d.end = [f \in Files |-> d.end[f]] /\ e.end = [f \in Files |-> e.end[f]]
    BY <1>1
  <2> QED
    BY <2>1
<1>3. /\ d = [cells |-> d.cells, index |-> d.index, end |-> d.end, ok |-> d.ok]
      /\ e = [cells |-> e.cells, index |-> e.index, end |-> e.end, ok |-> e.ok]
  BY DEF Disks
<1> QED
  BY <1>2, <1>3

\* What a file leaves on the disk when it is closed is read when it is opened.
LEMMA ReadAgain ==
    ASSUME Flat, NEW d \in Disks, NEW f \in Files, Placed(d, f), FileOK(d, f)
    PROVE  ReadHeader(Shut(d, f), f) = Flush(d, f)
<1> DEFINE e == Flush(d, f)
           w == Shut(d, f)
           r == ReadHeader(w, f)
           idx == d.index[f]
           n == d.end[f]
<1>1. Made(d, e, f, 0) /\ Inside(d, e, f) /\ Formed(e, StartOf(d, f), idx, n)
  BY FlushMade
<1>2. /\ e \in Disks /\ e.index = d.index /\ e.end = d.end /\ StartOf(e, f) = StartOf(d, f)
      /\ Placed(e, f)
  BY <1>1 DEF Made, Within, Inside
<1>3. Relisted(e, w, f) /\ w.ok = e.ok
  BY <1>2, ShutIndex
<1>i. idx \in Seq(Entries) /\ n \in Nat /\ e.index[f] = idx /\ e.end[f] = n
  BY <1>2, IndexType
<1>f. Formed(e, StartOf(e, f), idx, n)
  BY <1>1, <1>2
<1> HIDE DEF e, w, idx, n
<1>4. /\ Placed(w, f) /\ w \in Disks /\ StartOf(w, f) = StartOf(e, f) /\ w.cells = e.cells
      /\ \A x \in Files \ {f} : w.index[x] = e.index[x] /\ w.end[x] = e.end[x]
  BY <1>2, <1>3, RelistedKeeps DEF Within, Relisted
<1>5. Formed(w, StartOf(w, f), idx, n)
  BY <1>4, <1>f, SameDisk
<1>6. Relisted(w, r, f) /\ r.index[f] = idx /\ r.end[f] = n /\ r.ok = w.ok
  BY <1>4, <1>5, <1>i, HeaderRead
<1> HIDE DEF r
<1>7. /\ r \in Disks /\ r.cells = e.cells /\ r.ok = e.ok
      /\ \A x \in Files : r.index[x] = e.index[x] /\ r.end[x] = e.end[x]
  BY <1>3, <1>4, <1>6, <1>i DEF Relisted
<1>8. r = e
  BY <1>2, <1>7, SameParts
<1> QED
  BY <1>8 DEF r, w, e

-----------------------------------------------------------------------------
(* An embedded file while something is done with the one around it.        *)

\* The element that holds an open file is copied.
LEMMA CarriedInner ==
    ASSUME Flat, NEW d, NEW e, NEW g \in Files \ {Base}, InnerState(d, g), InnerState(e, g),
           e.index[g] = d.index[g],
           NEW i \in DOMAIN d.index[Base], d.index[Base][i].id = FileID, NEW j \in DOMAIN e.index[Base],
           SameElement(d, e, Base, i, j)
    PROVE  Listed(e, g) = Listed(d, g)
<1> DEFINE k == d.index[Base][i].offset
           m == e.index[Base][j].offset
           n == d.end[g]
           l == Len(d.index[g])
<1>1. /\ d \in Disks /\ FileOK(d, Base) /\ HoldsFile(d) /\ FileOK(d, g) /\ Placed(d, g)
      /\ e \in Disks /\ FileOK(e, Base) /\ HoldsFile(e) /\ FileOK(e, g) /\ Placed(e, g)
  BY InnerPlaced DEF InnerState, InnerPlace
<1>2. StartOf(d, g) = k + 1 /\ LengthOf(d, g) = SizeAt(d, k)
  <2>1. i = ElementOf(d, g)
    BY <1>1, TheFile
  <2> QED
    BY <1>1, <2>1, TheFile
<1>3. StartOf(e, g) = m + 1
  <2>1. e.index[Base][j].id = FileID
    BY DEF SameElement
  <2>2. j = ElementOf(e, g)
    BY <1>1, <2>1, TheFile
  <2> QED
    BY <1>1, <2>2, TheFile
<1>4. k \in Nat /\ SizeAt(d, k) \in Nat /\ m \in Nat /\ Copied(d, k, e, m)
  BY <1>1, BaseElement DEF SameElement
<1>5. n \in Nat /\ l \in Nat /\ SizeAt(d, k) = n + l
  BY <1>1, <1>2, IndexType DEF FileOK
<1>6. Run(d, k + 1, e, m + 1, SizeAt(d, k))
  <2> HIDE DEF k, m
  <2> QED
    BY <1>4, CopiedData
<1> HIDE DEF k, m, n, l
<1>7. Run(d, k + 1, e, m + 1, n)
  BY <1>5, <1>6 DEF Run
<1>8. Run(d, StartOf(d, g), e, StartOf(e, g), d.end[g])
  BY <1>2, <1>3, <1>7 DEF n
<1> QED
  BY <1>1, <1>8, CarriedList

\* The element that holds a file that is not open is copied.
LEMMA CarriedStored ==
    ASSUME Flat, NEW d, BaseState(d), NEW e, BaseState(e), NEW g \in Files \ {Base},
           NEW i \in DOMAIN d.index[Base], d.index[Base][i].type = "file", NEW j \in DOMAIN e.index[Base],
           SameElement(d, e, Base, i, j)
    PROVE  StoredList(e, g) = StoredList(d, g)
<1> DEFINE k == d.index[Base][i].offset
           m == e.index[Base][j].offset
           r == ReadHeader(d, g)
           q == ReadHeader(e, g)
<1>1. /\ d \in Disks /\ FileOK(d, Base) /\ KeptIn(d, d.index[Base], FALSE)
      /\ e \in Disks /\ FileOK(e, Base)
  BY DEF BaseState
<1>2. /\ d.index[Base][i].id = FileID /\ Image(d, k + 1, SizeAt(d, k))
  BY <1>1 DEF KeptIn
<1>3. e.index[Base][j].id = FileID /\ e.index[Base][j].type = "file"
  BY <1>2 DEF SameElement
<1>4. HoldsFile(d) /\ HoldsFile(e)
  BY <1>2, <1>3 DEF HoldsFile
<1>5. InnerState(r, g) /\ InnerState(q, g) /\ Placed(d, g) /\ Placed(e, g)
  BY <1>1, <1>4, InnerOpened, InnerPlaced
<1>6. StartOf(d, g) = k + 1 /\ StartOf(e, g) = m + 1
  <2>1. i = ElementOf(d, g) /\ j = ElementOf(e, g)
    BY <1>1, <1>2, <1>3, <1>4, TheFile
  <2> QED
    BY <1>1, <1>4, <2>1, TheFile
<1>7. k \in Nat /\ SizeAt(d, k) \in Nat /\ m \in Nat /\ Copied(d, k, e, m)
  BY <1>1, BaseElement DEF SameElement
<1> HIDE DEF k, m, r, q
<1>8. PICK idx \in Seq(Entries), n \in Nat :
         Formed(d, k + 1, idx, n) /\ Laid(d, k + 1, idx, n) /\ SizeAt(d, k) = n + Len(idx)
  BY <1>2 DEF Image
<1>9. Run(d, k + 1, e, m + 1, n + Len(idx))
  BY <1>7, <1>8, CopiedData
<1>10. Formed(e, m + 1, idx, n)
  <2>1. k + 1 \in Nat /\ m + 1 \in Nat
    BY <1>7
  <2> QED
    BY <1>8, <1>9, <2>1, StoredElsewhere
<1>11. Relisted(d, r, g) /\ r.index[g] = idx /\ r.end[g] = n
  <2>1. Formed(d, StartOf(d, g), idx, n)
    BY <1>6, <1>8
  <2> QED
    BY <1>1, <1>5, <2>1, HeaderRead DEF r
<1>12. Relisted(e, q, g) /\ q.index[g] = idx /\ q.end[g] = n
  <2>1. Formed(e, StartOf(e, g), idx, n)
    BY <1>6, <1>10
  <2> QED
    BY <1>1, <1>5, <2>1, HeaderRead DEF q
<1>13. r.cells = d.cells /\ StartOf(r, g) = k + 1 /\ q.cells = e.cells /\ StartOf(q, g) = m + 1
  BY <1>1, <1>5, <1>6, <1>11, <1>12, RelistedKeeps DEF Relisted
<1>14. Run(r, k + 1, q, m + 1, n)
  <2>1. \A a : Cell(r, a) = Cell(d, a) /\ Cell(q, a) = Cell(e, a)
    BY <1>13, SameDisk
  <2>2. Len(idx) \in Nat
    BY LenProperties
  <2> QED
    BY <1>9, <2>1, <2>2 DEF Run
<1>15. /\ r \in Disks /\ FileOK(r, g) /\ Placed(r, g) /\ q \in Disks /\ FileOK(q, g) /\ Placed(q, g)
  BY <1>5, InnerPlaced DEF InnerState, InnerPlace
<1>16. Listed(q, g) = Listed(r, g)
  BY <1>11, <1>12, <1>13, <1>14, <1>15, CarriedList
<1> QED
  BY <1>4, <1>16 DEF StoredList, r, q

\* An operation on the base file leaves the file in it alone, but for removing it.
LEMMA StoredAgain ==
    ASSUME Flat, NEW d, BaseState(d), NEW e, BaseState(e), NEW g \in Files \ {Base}, NEW x, Made(d, e, Base, x),
           x \in DOMAIN d.index[Base] => d.index[Base][x].type # "file"
    PROVE  StoredList(e, g) = StoredList(d, g)
<1>1. Descends(d, e, Base) /\ Remains(d, e, Base, x)
  BY DEF Made
<1>2. CASE HoldsFile(d)
  <2>1. PICK i \in DOMAIN d.index[Base] : d.index[Base][i].id = FileID /\ d.index[Base][i].type = "file"
    BY <1>2 DEF HoldsFile
  <2>2. PICK j \in DOMAIN e.index[Base] : SameElement(d, e, Base, i, j)
    BY <1>1, <2>1 DEF Remains
  <2> QED
    BY <2>1, <2>2, CarriedStored
<1>3. CASE ~HoldsFile(d)
  <2>1. ~HoldsFile(e)
    <3>1. ASSUME NEW j \in DOMAIN e.index[Base], e.index[Base][j].id = FileID, e.index[Base][j].type = "file"
          PROVE  HoldsFile(d)
      <4>1. PICK i \in DOMAIN d.index[Base] : SameElement(d, e, Base, i, j)
        BY <1>1, <3>1 DEF Descends
      <4> QED
        BY <3>1, <4>1 DEF SameElement, HoldsFile
    <3> QED
      BY <1>3, <3>1 DEF HoldsFile
  <2> QED
    BY <1>3, <2>1 DEF StoredList
<1> QED
  BY <1>2, <1>3

-----------------------------------------------------------------------------
(* Operations on what files contain.                                       *)

\* Something is done with the list s.
DoneTo(s, t) ==
    \/ Contents!InsertOne(s, t) \/ Contents!RemoveOne(s, t) \/ Contents!SetOne(s, t)
    \/ Contents!MoveOne(s, t) \/ Contents!SwapTwo(s, t)

\* From c to w by one operation on file f.
OneStep(c, w, f) ==
    /\ DoneTo(c[f], w[f])
    /\ \A h \in Files \ {f} :
          \/ w[h] = c[h]
          \/ w[h] = <<>> /\ ~(Contents!Enclosing(c[f]) \subseteq Contents!Enclosing(w[f]))

\* Element x holds a file and is removed.
FileRemoved(d, e, f, x) ==
    /\ x \in DOMAIN d.index[f] /\ d.index[f][x].type = "file"
    /\ \A j \in DOMAIN e.index[f] : e.index[f][j].id # d.index[f][x].id

\* The other files stay as they are, but for one that was in element x.
LEMMA OthersStay ==
    ASSUME Flat, OneInner, NEW d, NEW o, StateOK(d, o), NEW f \in Range(o),
           NEW e, NEW x, Made(d, e, f, x), LeftAlone(d, o, f, x),
           x \in DOMAIN d.index[f] /\ d.index[f][x].type = "file" => FileRemoved(d, e, f, x)
    PROVE  LET c == ContentsIn(d, o)
               w == ContentsIn(e, o)
           IN  /\ c[f] = Listed(d, f) /\ w[f] = Listed(e, f)
               /\ \A h \in Files \ {f} : w[h] = c[h] \/ (w[h] = <<>> /\ FileRemoved(d, e, f, x))
<1> DEFINE c == ContentsIn(d, o)
           w == ContentsIn(e, o)
<1>1. d \in Disks /\ f \in Files /\ Placed(d, f) /\ FileOK(d, f)
  BY OpenFile
<1>2. CASE o = <<>> /\ ClosedState(d)
  BY <1>2 DEF Range
<1>3. CASE o = <<Base>> /\ BaseState(d)
  <2>1. f = Base
    BY <1>3 DEF Range
  <2>2. BaseState(e)
    BY <1>3, <2>1, BaseChanged
  <2>3. NoIndex(d, {Base}) /\ NoIndex(e, {Base})
    BY <1>3, <2>2 DEF BaseState
  <2>4. /\ c = [h \in Files |-> IF h = Base THEN Listed(d, Base) ELSE StoredList(d, h)]
        /\ w = [h \in Files |-> IF h = Base THEN Listed(e, Base) ELSE StoredList(e, h)]
    BY <1>3, <2>3, BaseContents
  <2> HIDE DEF c, w
  <2>5. c[f] = Listed(d, f) /\ w[f] = Listed(e, f)
    BY <1>1, <2>1, <2>4
  <2>6. ASSUME NEW h \in Files \ {f}
        PROVE  w[h] = c[h] \/ (w[h] = <<>> /\ FileRemoved(d, e, f, x))
    <3>1. w[h] = StoredList(e, h) /\ c[h] = StoredList(d, h)
      BY <2>1, <2>4
    <3>2. CASE x \in DOMAIN d.index[Base] /\ d.index[Base][x].type = "file"
      <4>1. FileRemoved(d, e, f, x)
        BY <2>1, <3>2
      <4>2. d.index[Base][x].id = FileID
        BY <1>3, <3>2 DEF BaseState, KeptIn
      <4>3. ~HoldsFile(e)
        BY <2>1, <4>1, <4>2 DEF HoldsFile, FileRemoved
      <4> QED
        BY <3>1, <4>1, <4>3 DEF StoredList
    <3>3. CASE ~(x \in DOMAIN d.index[Base] /\ d.index[Base][x].type = "file")
      <4>1. Made(d, e, Base, x) /\ h \in Files \ {Base}
        BY <2>1
      <4>2. StoredList(e, h) = StoredList(d, h)
        BY <1>3, <2>2, <3>3, <4>1, StoredAgain
      <4> QED
        BY <3>1, <4>2
    <3> QED
      BY <3>2, <3>3
  <2> QED
    BY <2>5, <2>6 DEF c, w
<1>4. ASSUME NEW g \in Files \ {Base}, o = <<Base, g>>, InnerState(d, g)
      PROVE  /\ c[f] = Listed(d, f) /\ w[f] = Listed(e, f)
             /\ \A h \in Files \ {f} : w[h] = c[h]
  <2>1. c = [h \in Files |-> Listed(d, h)] /\ w = [h \in Files |-> Listed(e, h)]
    BY <1>4, InnerContents
  <2> HIDE DEF c, w
  <2>2. c[f] = Listed(d, f) /\ w[f] = Listed(e, f)
    BY <1>1, <2>1
  <2>3. CASE f = Base
    <3>1. Made(d, e, Base, x) /\ (x \in DOMAIN d.index[Base] => d.index[Base][x].type # "file")
      <4>1. o # <<Base>>
        BY <1>4
      <4> QED
        BY <2>3, <4>1 DEF LeftAlone
    <3>2. InnerState(e, g)
      BY <1>4, <3>1, AroundInner
    <3>3. e.index[g] = d.index[g] /\ Remains(d, e, Base, x)
      BY <3>1 DEF Made, Within, Around
    <3>4. PICK i \in DOMAIN d.index[Base] : d.index[Base][i].id = FileID /\ d.index[Base][i].type = "file"
      BY <1>4 DEF InnerState, InnerPlace, HoldsFile
    <3>5. PICK j \in DOMAIN e.index[Base] : SameElement(d, e, Base, i, j)
      BY <3>1, <3>3, <3>4 DEF Remains
    <3>6. Listed(e, g) = Listed(d, g)
      BY <1>4, <3>2, <3>3, <3>4, <3>5, CarriedInner
    <3>7. \A h \in Files \ {f} : h = g
      BY <1>4, <2>3 DEF OneInner
    <3> QED
      BY <2>1, <2>2, <3>6, <3>7
  <2>4. CASE f = g
    <3>1. Within(d, e, g) /\ FileOK(e, g) /\ InnerPlace(d, g)
      BY <1>4, <2>4 DEF Made, InnerState
    <3>2. InnerState(e, g)
      BY <3>1, InnerChanged
    <3>3. d \in Disks /\ e \in Disks /\ FileOK(d, Base) /\ FileOK(e, Base) /\ HoldsFile(d) /\ Around(d, e, g)
      BY <3>1, <3>2 DEF InnerState, InnerPlace, Within
    <3>4. Listed(e, Base) = Listed(d, Base)
      BY <3>3, AroundListed
    <3>5. \A h \in Files \ {f} : h = Base
      BY <1>4, <2>4 DEF OneInner
    <3> QED
      BY <2>1, <2>2, <3>4, <3>5
  <2> QED
    BY <1>4, <2>3, <2>4 DEF Range
<1> QED
  BY <1>2, <1>3, <1>4 DEF StateOK

\* An element that is removed encloses no file any longer.
LEMMA EnclosesNoMore ==
    ASSUME Flat, NEW d \in Disks, NEW e \in Disks, NEW f \in Files,
           Placed(d, f), FileOK(d, f), Placed(e, f), FileOK(e, f), NEW x, FileRemoved(d, e, f, x)
    PROVE  ~(Contents!Enclosing(Listed(d, f)) \subseteq Contents!Enclosing(Listed(e, f)))
<1> DEFINE s == Listed(d, f)
           t == Listed(e, f)
           id == d.index[f][x].id
<1>1. /\ x \in DOMAIN d.index[f] /\ d.index[f][x].type = "file"
      /\ \A j \in DOMAIN e.index[f] : e.index[f][j].id # id
  BY DEF FileRemoved
<1>2. DOMAIN s = DOMAIN d.index[f] /\ s[x] = Item(d, f, x)
  BY <1>1, ListedItems
<1>3. DOMAIN t = DOMAIN e.index[f] /\ \A j \in DOMAIN e.index[f] : t[j] = Item(e, f, j)
  BY ListedItems
<1>4. x \in DOMAIN s /\ s[x][1] = id /\ s[x][2] = Bytes(<<0>>)
  BY <1>1, <1>2 DEF Item, DataOf
<1>5. \A j \in DOMAIN t : t[j][1] # id
  BY <1>1, <1>3 DEF Item
<1> HIDE DEF s, t, id
<1>6. id \in Contents!Enclosing(s) /\ id \notin Contents!Enclosing(t)
  BY <1>4, <1>5 DEF Contents!Enclosing
<1> QED
  BY <1>6 DEF s, t

\* An operation on the elements of a file is one on its list.
LEMMA OperationContents ==
    ASSUME Flat, OneInner, NEW d, NEW o, StateOK(d, o), NEW f \in Range(o),
           NEW e, NEW x, Made(d, e, f, x), LeftAlone(d, o, f, x),
           x \in DOMAIN d.index[f] /\ d.index[f][x].type = "file" => FileRemoved(d, e, f, x),
           DoneTo(Listed(d, f), Listed(e, f))
    PROVE  OneStep(ContentsIn(d, o), ContentsIn(Finished(e, f), o), f)
<1> DEFINE w == Finished(e, f)
           u == ContentsIn(d, o)
           v == ContentsIn(w, o)
<1>1. d \in Disks /\ f \in Files /\ Placed(d, f) /\ FileOK(d, f)
  BY OpenFile
<1>2. e \in Disks /\ Placed(e, f) /\ FileOK(e, f)
  BY DEF Made, Within
<1>3. Made(d, w, f, x)
  BY <1>1, FinishedMade
<1>4. Listed(w, f) = Listed(e, f)
  BY <1>1, <1>2, FlushedList
<1>5. w.index = e.index
  BY <1>1, <1>2, FlushMade DEF Inside, Finished
<1> HIDE DEF w
<1>6. w \in Disks /\ Placed(w, f) /\ FileOK(w, f)
  BY <1>3 DEF Made, Within
<1>7. x \in DOMAIN d.index[f] /\ d.index[f][x].type = "file" => FileRemoved(d, w, f, x)
  BY <1>5 DEF FileRemoved
<1>8. /\ u[f] = Listed(d, f) /\ v[f] = Listed(w, f)
      /\ \A h \in Files \ {f} : v[h] = u[h] \/ (v[h] = <<>> /\ FileRemoved(d, w, f, x))
  BY <1>3, <1>7, OthersStay
<1> HIDE DEF u, v
<1>9. DoneTo(u[f], v[f])
  BY <1>4, <1>8
<1>10. FileRemoved(d, w, f, x) => ~(Contents!Enclosing(u[f]) \subseteq Contents!Enclosing(v[f]))
  BY <1>1, <1>6, <1>8, EnclosesNoMore
<1> QED
  BY <1>8, <1>9, <1>10 DEF OneStep, u, v, w

\* InsertElementAtIndex.
LEMMA InsertedList ==
    ASSUME Flat, NEW d \in Disks, NEW f \in Files, Placed(d, f), FileOK(d, f),
           NEW i \in 1 .. Len(d.index[f]) + 1, NEW x, Storable(x)
    PROVE  LET s == Listed(d, f)
               t == Listed(Inserted(d, f, i, x), f)
           IN  /\ s \in Seq(Items) /\ t \in Seq(Items) /\ Len(t) = Len(s) + 1 /\ Len(s) = Len(d.index[f])
               /\ \A j \in Nat : 1 <= j /\ j < i => t[j] = s[j]
               /\ \A j \in Nat : i < j /\ j <= Len(s) + 1 => t[j] = s[j - 1]
               /\ t[i] = <<UniqueID(d, f), Bytes(x)>>
               /\ \A j \in DOMAIN s : s[j][1] # UniqueID(d, f)
<1> DEFINE s == Listed(d, f)
           e == Inserted(d, f, i, x)
           t == Listed(e, f)
           idx == d.index[f]
           u == UniqueID(d, f)
           p == d.end[f]
           y == Entry(p, u, "data")
           n == Len(idx)
<1>1. /\ Made(d, e, f, 0) /\ e.index[f] = InsertAt(idx, i, y)
      /\ Filled(e, StartOf(e, f) + p, ElementCells(x))
  BY InsertedMade
<1>2. e \in Disks /\ Placed(e, f) /\ FileOK(e, f)
  BY <1>1 DEF Made, Within
<1>3. /\ idx \in Seq(Entries) /\ n \in Nat /\ DOMAIN idx = 1 .. n /\ p \in Nat
      /\ u \in Nat /\ \A j \in DOMAIN idx : idx[j].id # u
  BY IndexType, UniqueIDs
<1> HIDE DEF e, u, p
<1>4. y \in Entries /\ y.id = u /\ y.offset = p /\ y.type = "data"
  BY <1>3 DEF Entry, Entries
<1> HIDE DEF y
<1>5. HasInserted(idx, e.index[f], i, y)
  <2> HIDE DEF idx, n
  <2>1. i \in 1 .. Len(idx) + 1
    BY DEF idx
  <2> QED
    BY <1>1, <1>3, <1>4, <2>1, InsertAtProperties
<1>6. Len(e.index[f]) = n + 1 /\ DOMAIN e.index[f] = 1 .. n + 1
  BY <1>2, <1>3, <1>5, IndexType DEF HasInserted
<1>7. /\ s \in Seq(Items) /\ Len(s) = n /\ DOMAIN s = 1 .. n /\ \A j \in 1 .. n : s[j] = Item(d, f, j)
      /\ t \in Seq(Items) /\ Len(t) = n + 1 /\ \A j \in 1 .. n + 1 : t[j] = Item(e, f, j)
  BY <1>2, <1>3, <1>6, ListedItems
<1>8. ASSUME NEW j \in DOMAIN idx, NEW k \in DOMAIN e.index[f], e.index[f][k] = idx[j]
      PROVE  t[k] = s[j]
  <2>1. j # 0 /\ e.index[f][k].id = d.index[f][j].id
    BY <1>3, <1>8
  <2> QED
    BY <1>1, <2>1, FollowedItem
<1> HIDE DEF s, t
<1>9. ASSUME NEW j \in Nat, 1 <= j, j < i
      PROVE  t[j] = s[j]
  <2>1. j \in DOMAIN idx /\ j \in DOMAIN e.index[f]
    BY <1>3, <1>6, <1>9
  <2>2. e.index[f][j] = idx[j]
    BY <1>5, <1>9 DEF HasInserted
  <2> QED
    BY <1>8, <2>1, <2>2
<1>10. ASSUME NEW j \in Nat, i < j, j <= n + 1
       PROVE  t[j] = s[j - 1]
  <2>1. j - 1 \in DOMAIN idx /\ j \in DOMAIN e.index[f]
    BY <1>3, <1>6, <1>10
  <2>2. e.index[f][j] = idx[j - 1]
    BY <1>5, <1>10 DEF HasInserted
  <2> QED
    BY <1>8, <2>1, <2>2
<1>11. t[i] = <<u, Bytes(x)>>
  <2>1. i \in 1 .. n + 1 /\ e.index[f][i] = y
    BY <1>5 DEF HasInserted
  <2>2. t[i] = <<u, DataOf(e, f, y)>>
    BY <1>4, <1>7, <2>1 DEF Item
  <2> DEFINE a == StartOf(e, f)
  <2>3. a \in Nat /\ StartOf(e, f) = a
    BY <1>2, PlaceType
  <2>4. Filled(e, a + p, ElementCells(x))
    BY <1>1
  <2> HIDE DEF a
  <2>5. a + p \in Nat
    BY <1>3, <2>3
  <2>6. HasData(e, a + p, Bytes(x)) /\ Cell(e, a + p) = <<"size", Len(x)>>
    BY <2>4, <2>5, DataWritten
  <2>7. IsSize(e, a + p)
    BY <2>6 DEF IsSize, Storable
  <2>8. HasData(e, a + p, DataOf(e, f, y))
    <3>1. y.type # "file"
      BY <1>4
    <3>2. IsSize(e, a + y.offset)
      BY <1>4, <2>7
    <3>3. HasData(e, a + y.offset, DataOf(e, f, y))
      BY <1>2, <1>4, <2>3, <3>1, <3>2, DataRead
    <3> QED
      BY <1>4, <3>3
  <2>9. DataOf(e, f, y) = Bytes(x)
    <3>1. Copied(e, a + p, e, a + p) /\ SizeAt(e, a + p) \in Nat
      BY <2>7, SizeType DEF Copied
    <3> QED
      BY <2>5, <2>6, <2>8, <3>1, OneData
  <2> QED
    BY <2>2, <2>9
<1>12. \A j \in DOMAIN s : s[j][1] # u
  BY <1>3, <1>7 DEF Item
<1> QED
  BY <1>7, <1>9, <1>10, <1>11, <1>12 DEF s, t, e, u

\* It adds an element.
LEMMA InsertDone ==
    ASSUME Flat, NEW d \in Disks, NEW f \in Files, Placed(d, f), FileOK(d, f),
           NEW i \in 1 .. Len(d.index[f]) + 1, NEW x \in Data
    PROVE  DoneTo(Listed(d, f), Listed(Inserted(d, f, i, x), f))
<1> DEFINE s == Listed(d, f)
           t == Listed(Inserted(d, f, i, x), f)
           u == UniqueID(d, f)
<1>1. Storable(x)
  BY StorableData
<1>2. /\ s \in Seq(Items) /\ t \in Seq(Items) /\ Len(t) = Len(s) + 1 /\ Len(s) = Len(d.index[f])
      /\ \A j \in Nat : 1 <= j /\ j < i => t[j] = s[j]
      /\ \A j \in Nat : i < j /\ j <= Len(s) + 1 => t[j] = s[j - 1]
      /\ t[i] = <<u, Bytes(x)>>
      /\ \A j \in DOMAIN s : s[j][1] # u
  BY <1>1, InsertedList
<1> HIDE DEF s, t, u
<1>3. i \in 1 .. Len(s) + 1
  BY <1>2
<1>4. \A j \in DOMAIN s : s[j][1] # t[i][1]
  BY <1>2
<1>5. t[i][2] \in {Bytes(z) : z \in Data} \cup {Bytes(<<0>>)}
  BY <1>2
<1>6. Contents!InsertOne(s, t)
  BY <1>2, <1>3, <1>4, <1>5, InsertsOne
<1> QED
  BY <1>6 DEF DoneTo, s, t

\* SetElement stores other data.
LEMMA SetDone ==
    ASSUME Flat, NEW d \in Disks, NEW f \in Files, Placed(d, f), FileOK(d, f),
           NEW i \in DOMAIN d.index[f], d.index[f][i].type # "file", NEW x \in Data
    PROVE  DoneTo(Listed(d, f), Listed(Changed(d, f, i, x), f))
<1> DEFINE s == Listed(d, f)
           e == Changed(d, f, i, x)
           t == Listed(e, f)
           idx == d.index[f]
           n == Len(idx)
           y == e.index[f][i]
<1>0. Storable(x)
  BY StorableData
<1>1. /\ Made(d, e, f, i) /\ SameNames(idx, e.index[f])
      /\ Filled(e, StartOf(e, f) + Off(e, f, i), ElementCells(x))
  BY <1>0, ChangedMade
<1>2. e \in Disks /\ Placed(e, f) /\ FileOK(e, f)
  BY <1>1 DEF Made, Within
<1>3. n \in Nat /\ DOMAIN idx = 1 .. n /\ i \in 1 .. n
  BY IndexType
<1> HIDE DEF e
<1>4. Len(e.index[f]) = n /\ DOMAIN e.index[f] = 1 .. n
  BY <1>1, <1>3 DEF SameNames
<1>5. y \in Entries /\ y.offset \in Nat /\ y.offset = Off(e, f, i) /\ y.type # "file" /\ y.id = idx[i].id
  BY <1>1, <1>2, <1>3, <1>4, IndexType DEF SameNames, Off
<1>6. /\ s \in Seq(Items) /\ Len(s) = n /\ DOMAIN s = 1 .. n /\ \A j \in 1 .. n : s[j] = Item(d, f, j)
      /\ t \in Seq(Items) /\ Len(t) = n /\ \A j \in 1 .. n : t[j] = Item(e, f, j)
  BY <1>2, <1>3, <1>4, ListedItems
<1>7. ASSUME NEW j \in 1 .. n, j # i
      PROVE  t[j] = s[j]
  <2>1. j \in DOMAIN d.index[f] /\ j \in DOMAIN e.index[f] /\ e.index[f][j].id = d.index[f][j].id
    BY <1>1, <1>3, <1>4 DEF SameNames
  <2> QED
    BY <1>1, <1>7, <2>1, FollowedItem
<1> HIDE DEF s, t
<1>8. t[i][1] = s[i][1] /\ t[i][2] = DataOf(e, f, y)
  BY <1>3, <1>5, <1>6 DEF Item
<1> DEFINE a == StartOf(e, f)
           k == a + y.offset
<1>9. a \in Nat /\ StartOf(e, f) = a
  BY <1>2, PlaceType
<1>10. Filled(e, k, ElementCells(x))
  BY <1>1, <1>5
<1> HIDE DEF a, y
<1>11. k \in Nat
  BY <1>5, <1>9
<1>12. HasData(e, k, Bytes(x)) /\ Cell(e, k) = <<"size", Len(x)>>
  <2> HIDE DEF k
  <2> QED
    BY <1>0, <1>10, <1>11, DataWritten
<1>13. IsSize(e, k)
  BY <1>0, <1>12 DEF IsSize, Storable
<1>14. HasData(e, k, DataOf(e, f, y))
  BY <1>2, <1>5, <1>9, <1>13, DataRead
<1> HIDE DEF k
<1>15. DataOf(e, f, y) = Bytes(x)
  <2>1. Copied(e, k, e, k) /\ SizeAt(e, k) \in Nat
    BY <1>13, SizeType DEF Copied
  <2> QED
    BY <1>11, <1>12, <1>14, <2>1, OneData
<1>16. i \in 1 .. Len(s) /\ Len(t) = Len(s) /\ \A j \in 1 .. Len(s) : j # i => t[j] = s[j]
  BY <1>3, <1>6, <1>7
<1>17. t[i][2] \in {Bytes(z) : z \in Data}
  BY <1>8, <1>15
<1>18. Contents!SetOne(s, t)
  BY <1>6, <1>8, <1>16, <1>17, SetsOne
<1> QED
  BY <1>18 DEF DoneTo, s, t, e

\* RemoveElement takes one out.
LEMMA RemoveDone ==
    ASSUME Flat, NEW d \in Disks, NEW f \in Files, Placed(d, f), FileOK(d, f), NEW i \in DOMAIN d.index[f]
    PROVE  LET e == Removed(d, f, i)
           IN  /\ DoneTo(Listed(d, f), Listed(e, f))
               /\ \A j \in DOMAIN e.index[f] : e.index[f][j].id # d.index[f][i].id
<1> DEFINE s == Listed(d, f)
           e == Removed(d, f, i)
           t == Listed(e, f)
           idx == d.index[f]
           n == Len(idx)
<1>1. Made(d, e, f, i) /\ \E mx \in Seq(Entries) : SameNames(idx, mx) /\ e.index[f] = RemoveAt(mx, i)
  BY RemovedMade
<1>2. e \in Disks /\ Placed(e, f) /\ FileOK(e, f)
  BY <1>1 DEF Made, Within
<1>3. n \in Nat /\ DOMAIN idx = 1 .. n /\ i \in 1 .. n /\ Named(idx)
  BY IndexType DEF FileOK
<1> HIDE DEF e
<1>4. PICK mx \in Seq(Entries) : SameNames(idx, mx) /\ e.index[f] = RemoveAt(mx, i)
  BY <1>1
<1>5. Len(mx) = n /\ i \in 1 .. Len(mx) /\ \A j \in 1 .. n : mx[j].id = idx[j].id
  BY <1>3, <1>4 DEF SameNames
<1>6. Len(e.index[f]) = n - 1 /\ \A j \in 1 .. n - 1 : e.index[f][j] = IF j < i THEN mx[j] ELSE mx[j + 1]
  BY <1>4, <1>5, RemoveAtProperties
<1>7. DOMAIN e.index[f] = 1 .. n - 1
  BY <1>2, <1>6, IndexType
<1>8. /\ s \in Seq(Items) /\ Len(s) = n /\ DOMAIN s = 1 .. n
      /\ t \in Seq(Items) /\ Len(t) = n - 1
  BY <1>2, <1>3, <1>6, ListedItems
<1>9. ASSUME NEW j \in 1 .. n - 1
      PROVE  /\ t[j] = IF j < i THEN s[j] ELSE s[j + 1]
             /\ e.index[f][j].id # idx[i].id
  <2>1. CASE j < i
    <3>1. j \in DOMAIN idx /\ j \in DOMAIN e.index[f] /\ j # i /\ e.index[f][j].id = idx[j].id
      <4>1. j \in 1 .. n /\ j # i
        BY <1>3, <2>1
      <4>2. e.index[f][j] = mx[j]
        BY <1>6, <2>1
      <4> QED
        BY <1>3, <1>5, <1>7, <4>1, <4>2
    <3>2. t[j] = s[j]
      BY <1>1, <3>1, FollowedItem
    <3> QED
      BY <1>3, <2>1, <3>1, <3>2 DEF Named
  <2>2. CASE ~(j < i)
    <3>1. j + 1 \in DOMAIN idx /\ j \in DOMAIN e.index[f] /\ j + 1 # i /\ e.index[f][j].id = idx[j + 1].id
      BY <1>3, <1>5, <1>6, <1>7, <2>2
    <3> DEFINE k == j + 1
    <3>2. k \in DOMAIN d.index[f] /\ k # i /\ j \in DOMAIN e.index[f] /\ e.index[f][j].id = d.index[f][k].id
      BY <3>1
    <3> HIDE DEF k
    <3>3. t[j] = s[k]
      BY <1>1, <3>2, FollowedItem
    <3>4. e.index[f][j].id # idx[i].id
      BY <1>3, <3>2 DEF Named
    <3> QED
      BY <2>2, <3>3, <3>4 DEF k
  <2> QED
    BY <2>1, <2>2
<1> HIDE DEF s, t
<1>10. i \in 1 .. Len(s) /\ Len(t) = Len(s) - 1
       /\ \A j \in 1 .. Len(s) - 1 : t[j] = IF j < i THEN s[j] ELSE s[j + 1]
  BY <1>3, <1>8, <1>9
<1>11. Contents!RemoveOne(s, t)
  BY <1>8, <1>10, RemovesOne
<1> QED
  BY <1>7, <1>9, <1>11 DEF DoneTo, s, t, e

\* The elements are listed in their new order.
LEMMA OrderFollowed ==
    ASSUME Flat, NEW d \in Disks, NEW f \in Files, Placed(d, f), FileOK(d, f),
           NEW e, Made(d, e, f, 0), Len(e.index[f]) = Len(d.index[f])
    PROVE  LET s == Listed(d, f)
               t == Listed(e, f)
           IN  /\ s \in Seq(Items) /\ t \in Seq(Items)
               /\ Len(s) = Len(d.index[f]) /\ Len(t) = Len(d.index[f])
               /\ SameOrder(d.index[f], e.index[f], s, t)
<1> DEFINE s == Listed(d, f)
           t == Listed(e, f)
           idx == d.index[f]
<1>2. e \in Disks /\ Placed(e, f) /\ FileOK(e, f)
  BY DEF Made, Within
<1>4. s \in Seq(Items) /\ Len(s) = Len(idx) /\ t \in Seq(Items) /\ Len(t) = Len(idx)
  BY <1>2, ListedItems
<1>5. ASSUME NEW a \in DOMAIN idx, NEW b \in DOMAIN e.index[f], e.index[f][b] = idx[a]
      PROVE  t[b] = s[a]
  <2>1. a # 0
    BY IndexType
  <2>2. a \in DOMAIN d.index[f] /\ e.index[f][b].id = d.index[f][a].id
    BY <1>5
  <2> QED
    BY <2>1, <2>2, FollowedItem
<1> HIDE DEF s, t
<1> QED
  BY <1>4, <1>5 DEF SameOrder, s, t

\* MoveElementToIndex and SwapElements put them in another order.
LEMMA OrderDone ==
    ASSUME Flat, NEW d \in Disks, NEW f \in Files, Placed(d, f), FileOK(d, f),
           NEW nx, Reordered(d.index[f], nx), NEW e, e = [d EXCEPT !.index[f] = nx]
    PROVE  LET s == Listed(d, f)
               t == Listed(e, f)
           IN  /\ Made(d, e, f, 0) /\ s \in Seq(Items) /\ t \in Seq(Items)
               /\ Len(s) = Len(d.index[f]) /\ Len(t) = Len(d.index[f])
               /\ SameOrder(d.index[f], nx, s, t)
<1>1. Made(d, e, f, 0)
  BY ReorderedMade
<1>2. e.index[f] = nx /\ Len(nx) = Len(d.index[f])
  BY DEF Disks, Reordered
<1> QED
  BY <1>1, <1>2, OrderFollowed

-----------------------------------------------------------------------------
(* What each action does to what files contain.                            *)

\* InsertElementAtIndex.
LEMMA InsertStep ==
    ASSUME Flat, OneInner, LayoutInv, NEW f \in Range(open), NEW x \in Data,
           NEW i \in 1 .. Len(disk.index[f]) + 1, InsertElement(f, i, x)
    PROVE  OneStep(ContentsIn(disk, open), ContentsIn(disk', open'), f)
<1> DEFINE d == disk
           o == open
           e == Inserted(d, f, i, x)
<1>1. StateOK(d, o) /\ f \in Range(o) /\ i \in 1 .. Len(d.index[f]) + 1
  BY DEF LayoutInv
<1>2. disk' = Finished(e, f) /\ open' = o
  BY DEF InsertElement, Done
<1>3. Storable(x)
  BY StorableData
<1>d. d = disk /\ o = open
  OBVIOUS
<1> HIDE DEF d, o
<1>4. d \in Disks /\ f \in Files /\ Placed(d, f) /\ FileOK(d, f)
  BY <1>1, OpenFile
<1>5. Made(d, e, f, 0) /\ DoneTo(Listed(d, f), Listed(e, f))
  BY <1>1, <1>3, <1>4, InsertedMade, InsertDone
<1> HIDE DEF e
<1>6. 0 \notin DOMAIN d.index[f]
  BY <1>4, IndexType
<1>7. LeftAlone(d, o, f, 0)
  BY <1>6 DEF LeftAlone
<1>8. OneStep(ContentsIn(d, o), ContentsIn(Finished(e, f), o), f)
  BY <1>1, <1>5, <1>6, <1>7, OperationContents
<1> QED
  BY <1>2, <1>8, <1>d

\* SetElement.
LEMMA SetStep ==
    ASSUME Flat, OneInner, LayoutInv, NEW f \in Range(open), NEW x \in Data,
           NEW i \in DOMAIN disk.index[f], SetElement(f, i, x)
    PROVE  OneStep(ContentsIn(disk, open), ContentsIn(disk', open'), f)
<1> DEFINE d == disk
           o == open
           e == Changed(d, f, i, x)
<1>1. StateOK(d, o) /\ f \in Range(o) /\ i \in DOMAIN d.index[f]
  BY DEF LayoutInv
<1>2. disk' = Finished(e, f) /\ open' = o /\ d.index[f][i].type = "data"
  BY DEF SetElement, Done
<1>3. Storable(x)
  BY StorableData
<1>d. d = disk /\ o = open
  OBVIOUS
<1> HIDE DEF d, o
<1>4. d \in Disks /\ f \in Files /\ Placed(d, f) /\ FileOK(d, f)
  BY <1>1, OpenFile
<1>t. d.index[f][i].type # "file"
  BY <1>2
<1>5. Made(d, e, f, i) /\ DoneTo(Listed(d, f), Listed(e, f))
  BY <1>1, <1>3, <1>4, <1>t, ChangedMade, SetDone
<1> HIDE DEF e
<1>7. LeftAlone(d, o, f, i)
  BY <1>t DEF LeftAlone
<1>8. OneStep(ContentsIn(d, o), ContentsIn(Finished(e, f), o), f)
  BY <1>1, <1>5, <1>t, <1>7, OperationContents
<1> QED
  BY <1>2, <1>8, <1>d

\* The file in an element is not open when the element is removed.
LEMMA RemovedAlone ==
    ASSUME Flat, NEW d, NEW o, StateOK(d, o), NEW f \in Range(o), NEW i \in DOMAIN d.index[f],
           d.index[f][i].type = "data" \/ \A g \in Files \ {Base} : EnclosedBy[g] = f => g \notin Range(o)
    PROVE  LeftAlone(d, o, f, i)
<1>1. ASSUME f = Base, d.index[f][i].type = "file"
      PROVE  o = <<Base>>
  <2>1. \A g \in Files \ {Base} : g \notin Range(o)
    BY <1>1 DEF Flat
  <2>2. ~ \E g \in Files \ {Base} : o = <<Base, g>>
    <3>1. ASSUME NEW g \in Files \ {Base}, o = <<Base, g>>
          PROVE  g \in Range(o)
      <4>1. 2 \in DOMAIN o /\ o[2] = g
        BY <3>1
      <4> QED
        BY <4>1 DEF Range
    <3> QED
      BY <2>1, <3>1
  <2>3. o # <<>>
    BY DEF Range
  <2> QED
    BY <2>2, <2>3 DEF StateOK
<1> QED
  BY <1>1 DEF LeftAlone

\* RemoveElement.
LEMMA RemoveStep ==
    ASSUME Flat, OneInner, LayoutInv, NEW f \in Range(open), NEW i \in DOMAIN disk.index[f], RemoveElement(f, i)
    PROVE  OneStep(ContentsIn(disk, open), ContentsIn(disk', open'), f)
<1> DEFINE d == disk
           o == open
           e == Removed(d, f, i)
<1>1. StateOK(d, o) /\ f \in Range(o) /\ i \in DOMAIN d.index[f]
  BY DEF LayoutInv
<1>2. disk' = Finished(e, f) /\ open' = o
  <2>1. d \in Disks /\ f \in Files /\ Placed(d, f) /\ FileOK(d, f)
    BY <1>1, OpenFile
  <2>2. Asserted(d, SizeReadable(d, f, i)) = d
    BY <1>1, <2>1, ElementReadable
  <2> QED
    BY <2>2 DEF RemoveElement, Done
<1>3. d.index[f][i].type = "data" \/ \A g \in Files \ {Base} : EnclosedBy[g] = f => g \notin Range(o)
  BY DEF RemoveElement, IsOpen
<1>d. d = disk /\ o = open
  OBVIOUS
<1> HIDE DEF d, o
<1>4. d \in Disks /\ f \in Files /\ Placed(d, f) /\ FileOK(d, f)
  BY <1>1, OpenFile
<1>5. /\ Made(d, e, f, i) /\ DoneTo(Listed(d, f), Listed(e, f))
      /\ \A j \in DOMAIN e.index[f] : e.index[f][j].id # d.index[f][i].id
  BY <1>1, <1>4, RemovedMade, RemoveDone
<1> HIDE DEF e
<1>6. d.index[f][i].type = "file" => FileRemoved(d, e, f, i)
  BY <1>1, <1>5 DEF FileRemoved
<1>7. LeftAlone(d, o, f, i)
  BY <1>1, <1>3, RemovedAlone
<1>8. OneStep(ContentsIn(d, o), ContentsIn(Finished(e, f), o), f)
  BY <1>1, <1>5, <1>6, <1>7, OperationContents
<1> QED
  BY <1>2, <1>8, <1>d

\* A new order of the elements.
LEMMA OrderStep ==
    ASSUME Flat, OneInner, NEW d, NEW o, StateOK(d, o), NEW f \in Range(o),
           NEW nx, Reordered(d.index[f], nx), NEW e, e = [d EXCEPT !.index[f] = nx],
           \A s, t \in Seq(Items) : Len(s) = Len(d.index[f]) /\ Len(t) = Len(d.index[f])
               /\ SameOrder(d.index[f], nx, s, t) => DoneTo(s, t)
    PROVE  OneStep(ContentsIn(d, o), ContentsIn(Finished(e, f), o), f)
<1>1. d \in Disks /\ f \in Files /\ Placed(d, f) /\ FileOK(d, f)
  BY OpenFile
<1> DEFINE s == Listed(d, f)
           t == Listed(e, f)
<1>2. /\ Made(d, e, f, 0) /\ s \in Seq(Items) /\ t \in Seq(Items)
      /\ Len(s) = Len(d.index[f]) /\ Len(t) = Len(d.index[f])
      /\ SameOrder(d.index[f], nx, s, t)
  BY <1>1, OrderDone
<1> HIDE DEF s, t
<1>3. DoneTo(s, t)
  BY <1>2
<1>4. 0 \notin DOMAIN d.index[f]
  BY <1>1, IndexType
<1>5. LeftAlone(d, o, f, 0)
  BY <1>4 DEF LeftAlone
<1>6. DoneTo(Listed(d, f), Listed(e, f))
  BY <1>3 DEF s, t
<1> QED
  BY <1>2, <1>4, <1>5, <1>6, OperationContents

\* MoveElementToIndex.
LEMMA MoveStep ==
    ASSUME Flat, OneInner, LayoutInv, NEW f \in Range(open), NEW i \in DOMAIN disk.index[f],
           NEW j \in DOMAIN disk.index[f], MoveElementToIndex(f, i, j)
    PROVE  OneStep(ContentsIn(disk, open), ContentsIn(disk', open'), f)
<1> DEFINE d == disk
           o == open
           idx == d.index[f]
           nx  == InsertAt(RemoveAt(idx, i), j, idx[i])
           e == [d EXCEPT !.index[f] = nx]
<1>1. idx \in Seq(Entries) /\ Named(idx) /\ i \in DOMAIN idx /\ j \in DOMAIN idx
  BY OpenIndex
<1>2. disk' = Finished(e, f) /\ open' = o
  BY DEF MoveElementToIndex, Done
<1>3. StateOK(d, o) /\ f \in Range(o) /\ d = disk /\ o = open
  BY DEF LayoutInv
<1> HIDE DEF d, o
<1>i. idx = d.index[f]
  OBVIOUS
<1>e. e = [d EXCEPT !.index[f] = nx]
  OBVIOUS
<1> HIDE DEF e
<1>4. Reordered(idx, nx)
  <2> HIDE DEF idx
  <2> QED
    BY <1>1, MovedEntry
<1>5. ASSUME NEW s \in Seq(Items), NEW t \in Seq(Items), Len(s) = Len(idx), Len(t) = Len(idx),
             SameOrder(idx, nx, s, t)
      PROVE  DoneTo(s, t)
  <2> HIDE DEF idx
  <2>1. Contents!MoveOne(s, t)
    BY <1>1, <1>5, MovesToPlace
  <2> QED
    BY <2>1 DEF DoneTo
<1> HIDE DEF nx, idx
<1>6. OneStep(ContentsIn(d, o), ContentsIn(Finished(e, f), o), f)
  BY <1>3, <1>4, <1>5, <1>i, <1>e, OrderStep
<1> QED
  BY <1>2, <1>3, <1>6

\* SwapElements.
LEMMA SwapStep ==
    ASSUME Flat, OneInner, LayoutInv, NEW f \in Range(open), NEW i \in DOMAIN disk.index[f],
           NEW j \in DOMAIN disk.index[f], SwapElements(f, i, j)
    PROVE  OneStep(ContentsIn(disk, open), ContentsIn(disk', open'), f)
<1> DEFINE d == disk
           o == open
           idx == d.index[f]
           nx  == [idx EXCEPT ![i] = idx[j], ![j] = idx[i]]
           w   == [disk EXCEPT !.index[f][i] = disk.index[f][j], !.index[f][j] = disk.index[f][i]]
           e   == [d EXCEPT !.index[f] = nx]
<1>1. idx \in Seq(Entries) /\ Named(idx) /\ i \in DOMAIN idx /\ j \in DOMAIN idx /\ d \in Disks /\ f \in Files
  BY OpenIndex
<1>w. disk' = Finished(w, f) /\ open' = o /\ i # j
  BY DEF SwapElements, Done
<1>e. w = e
  BY <1>1 DEF Disks
<1>2. disk' = Finished(e, f) /\ open' = o /\ i # j
  BY <1>w, <1>e
<1>3. StateOK(d, o) /\ f \in Range(o) /\ d = disk /\ o = open
  BY DEF LayoutInv
<1> HIDE DEF d, o, w
<1>i. idx = d.index[f] /\ e = [d EXCEPT !.index[f] = nx]
  OBVIOUS
<1> HIDE DEF e
<1>n. nx = [idx EXCEPT ![i] = idx[j], ![j] = idx[i]]
  OBVIOUS
<1> HIDE DEF nx
<1>4. Reordered(idx, nx)
  <2> HIDE DEF idx
  <2> QED
    BY <1>1, <1>2, <1>n, SwappedEntries
<1>5. ASSUME NEW s \in Seq(Items), NEW t \in Seq(Items), Len(s) = Len(idx), Len(t) = Len(idx),
             SameOrder(idx, nx, s, t)
      PROVE  DoneTo(s, t)
  <2> HIDE DEF idx
  <2>1. SameOrder(idx, [idx EXCEPT ![i] = idx[j], ![j] = idx[i]], s, t)
    BY <1>5, <1>n
  <2>2. Contents!SwapTwo(s, t)
    BY <1>1, <1>2, <1>5, <2>1, SwapsTwo
  <2> QED
    BY <2>2 DEF DoneTo
<1> HIDE DEF idx
<1>6. OneStep(ContentsIn(d, o), ContentsIn(Finished(e, f), o), f)
  BY <1>3, <1>4, <1>5, <1>i, OrderStep
<1> QED
  BY <1>2, <1>3, <1>6

\* Opening the base file.
LEMMA OpenBaseStep ==
    ASSUME Flat, LayoutInv, OpenBase
    PROVE  ContentsIn(disk', open') = ContentsIn(disk, open)
<1> DEFINE d == disk
           e == IF d.cells = <<>> THEN NewFile(d, Base) ELSE ReadHeader(d, Base)
<1>2. ClosedState(d)
  BY DEF OpenBase, LayoutInv, StateOK
<1>1. open = <<>> /\ disk' = e /\ open' = <<Base>> /\ d = disk
  <2>1. d.cells # <<>> => Asserted(d, HeaderReadable(d, Base)) = d
    BY <1>2, BaseOpened
  <2> QED
    BY <2>1 DEF OpenBase
<1> HIDE DEF d
<1>3. CASE d.cells = <<>>
  <2> DEFINE w == NewFile(d, Base)
  <2>1. BaseState(w)
    BY <1>2, BaseCreated
  <2>2. w.index[Base] = <<>>
    <3>1. d \in Disks /\ Placed(d, Base) /\ Base \in Files
      BY <1>2, BasePlaced DEF ClosedState
    <3> QED
      BY <3>1, NewFileMade
  <2> HIDE DEF w
  <2>3. NoIndex(w, {Base}) /\ NoIndex(d, {})
    BY <1>2, <2>1 DEF BaseState, ClosedState
  <2>4. Listed(w, Base) = <<>>
    BY <2>2, NothingListed
  <2>5. ~HoldsFile(w)
    <3>1. DOMAIN <<>> = {}
      OBVIOUS
    <3> QED
      BY <2>2, <3>1 DEF HoldsFile
  <2>6. ContentsIn(w, <<Base>>) = [f \in Files |-> IF f = Base THEN Listed(w, Base) ELSE StoredList(w, f)]
    BY <2>3, BaseContents
  <2>7. ContentsIn(w, <<Base>>) = [f \in Files |-> <<>>]
    BY <2>4, <2>5, <2>6 DEF StoredList
  <2>8. ContentsIn(d, <<>>) = [f \in Files |-> <<>>]
    BY <1>3, <2>3, NoContents
  <2> QED
    BY <1>1, <1>3, <2>7, <2>8 DEF w
<1>4. CASE d.cells # <<>>
  <2> DEFINE w == ReadHeader(d, Base)
  <2>1. NoIndex(w, {Base})
    BY <1>2, <1>4, BaseOpened DEF BaseState
  <2>2. w = ReadHeader(d, Base)
    OBVIOUS
  <2> HIDE DEF w
  <2>3. ContentsIn(d, <<>>) = ContentsIn(w, <<Base>>)
    BY <1>4, <2>1, <2>2, ClosedContents
  <2> QED
    BY <1>1, <1>4, <2>2, <2>3
<1> QED
  BY <1>3, <1>4

\* Closing an embedded file.
LEMMA CloseInner ==
    ASSUME Flat, OneInner, NEW d, NEW g \in Files \ {Base}, InnerState(d, g)
    PROVE  ContentsIn(Shut(d, g), <<Base>>) = ContentsIn(d, <<Base, g>>)
<1> DEFINE e == Flush(d, g)
           w == Shut(d, g)
<1>1. /\ d \in Disks /\ FileOK(d, Base) /\ HoldsFile(d) /\ FileOK(d, g) /\ Placed(d, g)
  BY InnerPlaced DEF InnerState, InnerPlace
<1>2. Made(d, e, g, 0) /\ e.index = d.index
  BY <1>1, FlushMade DEF Inside
<1>3. Listed(e, g) = Listed(d, g)
  BY <1>1, FlushedList
<1>4. ReadHeader(w, g) = e
  BY <1>1, ReadAgain
<1>5. e \in Disks /\ FileOK(e, Base) /\ Around(d, e, g)
  BY <1>2 DEF Made, Within, Placed
<1>6. Listed(e, Base) = Listed(d, Base)
  BY <1>1, <1>5, AroundListed
<1>7. BaseState(w) /\ HoldsFile(w)
  BY InnerShut
<1>8. w.cells = e.cells /\ w.index[Base] = e.index[Base]
  BY <1>1, <1>5, BasePlaced, ShutIndex DEF Relisted
<1> HIDE DEF e, w
<1>9. Listed(w, Base) = Listed(e, Base)
  BY <1>8, BasePlaced, SameCells
<1>10. NoIndex(w, {Base})
  BY <1>7 DEF BaseState
<1>11. ContentsIn(w, <<Base>>) = [f \in Files |-> IF f = Base THEN Listed(w, Base) ELSE StoredList(w, f)]
  BY <1>10, BaseContents
<1>12. ContentsIn(d, <<Base, g>>) = [f \in Files |-> Listed(d, f)]
  BY InnerContents
<1>13. StoredList(w, g) = Listed(d, g)
  BY <1>3, <1>4, <1>7 DEF StoredList
<1>14. \A f \in Files : (IF f = Base THEN Listed(w, Base) ELSE StoredList(w, f)) = Listed(d, f)
  BY <1>6, <1>9, <1>13 DEF OneInner
<1> QED
  BY <1>11, <1>12, <1>14 DEF w

\* Closing the base file.
LEMMA CloseOuter ==
    ASSUME Flat, NEW d, BaseState(d)
    PROVE  ContentsIn(Shut(d, Base), <<>>) = ContentsIn(d, <<Base>>)
<1> DEFINE e == Flush(d, Base)
           w == Shut(d, Base)
<1>1. d \in Disks /\ FileOK(d, Base) /\ Placed(d, Base) /\ Base \in Files
  BY BasePlaced DEF BaseState
<1>2. Made(d, e, Base, 0)
  BY <1>1, FlushMade
<1>3. Listed(e, Base) = Listed(d, Base)
  BY <1>1, FlushedList
<1>4. ReadHeader(w, Base) = e
  BY <1>1, ReadAgain
<1>5. BaseState(e)
  BY <1>2, BaseChanged
<1>6. w.cells # <<>>
  <2>1. w.cells = e.cells
    BY <1>1, <1>5, ShutIndex DEF Relisted, BaseState
  <2>2. FileOK(e, Base) /\ e \in Disks
    BY <1>5 DEF BaseState
  <2> HIDE DEF e, w
  <2>3. e.end[Base] >= 1 /\ Len(e.cells) = e.end[Base] + Len(e.index[Base])
    BY <2>2 DEF FileOK, Laid, LengthOf
  <2>4. e.end[Base] \in Nat /\ Len(e.index[Base]) \in Nat
    BY <1>1, <2>2, IndexType
  <2>5. Len(e.cells) # 0
    BY <2>3, <2>4
  <2> QED
    BY <2>1, <2>5
<1>7. \A g \in Files \ {Base} : StoredList(e, g) = StoredList(d, g)
  <2> HIDE DEF e
  <2>1. 0 \notin DOMAIN d.index[Base]
    BY <1>1, IndexType
  <2> QED
    BY <1>2, <1>5, <2>1, StoredAgain
<1> HIDE DEF e, w
<1>8. NoIndex(e, {Base}) /\ NoIndex(d, {Base})
  BY <1>5 DEF BaseState
<1>9. ContentsIn(w, <<>>) = ContentsIn(e, <<Base>>)
  BY <1>4, <1>6, <1>8, ClosedContents
<1>10. /\ ContentsIn(e, <<Base>>) = [f \in Files |-> IF f = Base THEN Listed(e, Base) ELSE StoredList(e, f)]
       /\ ContentsIn(d, <<Base>>) = [f \in Files |-> IF f = Base THEN Listed(d, Base) ELSE StoredList(d, f)]
  BY <1>8, BaseContents
<1>11. \A f \in Files : (IF f = Base THEN Listed(e, Base) ELSE StoredList(e, f))
                      = (IF f = Base THEN Listed(d, Base) ELSE StoredList(d, f))
  BY <1>3, <1>7
<1> QED
  BY <1>9, <1>10, <1>11 DEF w

\* The destructor.
LEMMA CloseStep ==
    ASSUME Flat, OneInner, LayoutInv, CloseFile
    PROVE  ContentsIn(disk', open') = ContentsIn(disk, open)
<1> DEFINE d == disk
           o == open
<1>2. StateOK(d, o)
  BY DEF LayoutInv
<1>1. o # <<>> /\ disk' = Shut(d, Last(o)) /\ open' = Front(o) /\ d = disk /\ o = open
  <2>1. o # <<>> /\ disk' = Asserted(Shut(d, Last(o)), Last(o) # Base => HasPlace(Shut(d, Last(o)), Last(o)))
    BY DEF CloseFile, Shut
  <2> HIDE DEF d, o
  <2>2. Asserted(Shut(d, Last(o)), Last(o) # Base => HasPlace(Shut(d, Last(o)), Last(o))) = Shut(d, Last(o))
    BY <1>2, <2>1, ShutPlace
  <2> QED
    BY <2>1, <2>2 DEF CloseFile, d, o
<1> HIDE DEF d, o
<1>3. CASE o = <<Base>> /\ BaseState(d)
  <2>1. Last(o) = Base /\ Front(o) = <<>>
    BY <1>3 DEF Last, Front
  <2>2. ContentsIn(Shut(d, Base), <<>>) = ContentsIn(d, <<Base>>)
    BY <1>3, CloseOuter
  <2> QED
    BY <1>1, <1>3, <2>1, <2>2
<1>4. ASSUME NEW g \in Files \ {Base}, o = <<Base, g>>, InnerState(d, g)
      PROVE  ContentsIn(disk', open') = ContentsIn(disk, open)
  <2>1. Last(o) = g /\ Front(o) = <<Base>>
    <3>1. Base \in Files /\ g \in Files
      BY BasePlaced
    <3> QED
      BY <1>4, <3>1, TwoFiles
  <2>2. ContentsIn(Shut(d, g), <<Base>>) = ContentsIn(d, <<Base, g>>)
    BY <1>4, CloseInner
  <2> QED
    BY <1>1, <1>4, <2>1, <2>2
<1> QED
  BY <1>1, <1>2, <1>3, <1>4 DEF StateOK

\* With itsFlushChangesFlag a crash loses nothing.
LEMMA CrashStep ==
    ASSUME Flat, ~EmbeddedCrash, LayoutInv, Crash
    PROVE  ContentsIn(disk', open') = ContentsIn(disk, open)
<1> DEFINE d == disk
           o == open
           w == Lost(d)
           b == ReadHeader(w, Base)
<1>1. /\ FlushChanges /\ o # <<>> /\ \A i \in DOMAIN d.index[Base] : d.index[Base][i].type = "data"
      /\ disk' = w /\ open' = <<>> /\ d = disk /\ o = open
  BY DEF Crash, Lost
<1>2. StateOK(d, o)
  BY DEF LayoutInv
<1> HIDE DEF d, o
<1>3. ~HoldsFile(d)
  BY <1>1 DEF HoldsFile
<1>4. o = <<Base>> /\ BaseState(d) /\ Formed(d, 0, d.index[Base], d.end[Base])
  BY <1>1, <1>2, <1>3 DEF StateOK, InnerState, InnerPlace, OnDisk
<1>5. ClosedState(w)
  BY <1>4, BaseLost
<1>6. w.cells = d.cells
  BY DEF Lost
<1>7. d \in Disks /\ FileOK(d, Base) /\ d.index[Base] \in Seq(Entries) /\ d.end[Base] \in Nat
  BY <1>4, BasePlaced, IndexType DEF BaseState
<1> HIDE DEF w
<1>8. b.cells = d.cells /\ b.index[Base] = d.index[Base]
  <2>1. w \in Disks
    BY <1>5 DEF ClosedState
  <2>2. Formed(w, StartOf(w, Base), d.index[Base], d.end[Base])
    BY <1>4, <1>6, BasePlaced, SameDisk
  <2>3. Relisted(w, b, Base) /\ b.index[Base] = d.index[Base]
    BY <1>7, <2>1, <2>2, BasePlaced, HeaderRead
  <2> QED
    BY <1>6, <2>3 DEF Relisted
<1>9. d.cells # <<>>
  <2>1. d.end[Base] >= 1 /\ Len(d.cells) = d.end[Base] + Len(d.index[Base])
    BY <1>7 DEF FileOK, Laid, LengthOf
  <2>2. Len(d.index[Base]) \in Nat
    BY <1>7, BasePlaced, IndexType
  <2>3. Len(d.cells) # 0
    BY <1>7, <2>1, <2>2
  <2> QED
    BY <2>3
<1>10. BaseState(b)
  BY <1>5, <1>6, <1>9, BaseOpened
<1>b. b = ReadHeader(w, Base)
  OBVIOUS
<1> HIDE DEF b
<1>11. NoIndex(b, {Base}) /\ NoIndex(d, {Base})
  BY <1>4, <1>10 DEF BaseState
<1>12. ContentsIn(w, <<>>) = ContentsIn(b, <<Base>>)
  BY <1>6, <1>9, <1>11, <1>b, ClosedContents
<1>13. Listed(b, Base) = Listed(d, Base)
  BY <1>8, BasePlaced, SameCells
<1>14. ~HoldsFile(b)
  BY <1>3, <1>8 DEF HoldsFile
<1>15. /\ ContentsIn(b, <<Base>>) = [f \in Files |-> IF f = Base THEN Listed(b, Base) ELSE StoredList(b, f)]
       /\ ContentsIn(d, <<Base>>) = [f \in Files |-> IF f = Base THEN Listed(d, Base) ELSE StoredList(d, f)]
  BY <1>11, BaseContents
<1>16. \A f \in Files : StoredList(b, f) = <<>> /\ StoredList(d, f) = <<>>
  BY <1>3, <1>14 DEF StoredList
<1> QED
  BY <1>1, <1>4, <1>12, <1>13, <1>15, <1>16

\* Opening an embedded file that is there.
LEMMA OpenThere ==
    ASSUME Flat, OneInner, NEW d, BaseState(d), NEW g \in Files \ {Base}, HoldsFile(d)
    PROVE  ContentsIn(ReadHeader(d, g), <<Base, g>>) = ContentsIn(d, <<Base>>)
<1> DEFINE e == ReadHeader(d, g)
<1>1. d \in Disks /\ FileOK(d, Base) /\ NoIndex(d, {Base}) /\ KeptIn(d, d.index[Base], FALSE)
  BY DEF BaseState
<1> DEFINE i == ElementOf(d, g)
           k == d.index[Base][i].offset
<1>2. /\ i \in DOMAIN d.index[Base] /\ d.index[Base][i].type = "file" /\ StartOf(d, g) = k + 1
  BY <1>1, TheFile
<1>3. Image(d, k + 1, SizeAt(d, k)) /\ Placed(d, g)
  BY <1>1, <1>2, InnerPlaced DEF KeptIn
<1> HIDE DEF k, i
<1>4. PICK idx \in Seq(Entries), n \in Nat : Formed(d, k + 1, idx, n)
  BY <1>3 DEF Image
<1>5. Relisted(d, e, g)
  <2>1. Formed(d, StartOf(d, g), idx, n)
    BY <1>2, <1>4
  <2> QED
    BY <1>1, <1>3, <2>1, HeaderRead
<1>e. e = ReadHeader(d, g)
  OBVIOUS
<1> HIDE DEF e
<1>6. e.cells = d.cells /\ e.index[Base] = d.index[Base]
  BY <1>5, BasePlaced DEF Relisted
<1>7. Listed(e, Base) = Listed(d, Base)
  BY <1>6, BasePlaced, SameCells
<1>8. ContentsIn(d, <<Base>>) = [f \in Files |-> IF f = Base THEN Listed(d, Base) ELSE StoredList(d, f)]
  BY <1>1, BaseContents
<1>9. ContentsIn(e, <<Base, g>>) = [f \in Files |-> Listed(e, f)]
  BY InnerContents
<1>10. StoredList(d, g) = Listed(e, g)
  BY <1>e DEF StoredList
<1>11. \A f \in Files : (IF f = Base THEN Listed(d, Base) ELSE StoredList(d, f)) = Listed(e, f)
  BY <1>7, <1>10 DEF OneInner
<1> QED
  BY <1>8, <1>9, <1>11, <1>e

\* A new element for an embedded file is one more element of the base file.
LEMMA OpenNew ==
    ASSUME Flat, OneInner, NEW d, BaseState(d), NEW g \in Files \ {Base}, IDToIndex(d, Base, FileID) = {}
    PROVE  LET m == Len(d.index[Base]) + 1
               v == NewFile(AsFile(Finished(Inserted(d, Base, m, << 0 >>), Base), m), g)
           IN  OneStep(ContentsIn(d, <<Base>>), ContentsIn(v, <<Base, g>>), Base)
<1> DEFINE idx == d.index[Base]
           m == Len(idx) + 1
           x == <<0>>
           y == Inserted(d, Base, m, x)
           w == Finished(y, Base)
           e == AsFile(w, m)
           v == NewFile(e, g)
           s == Listed(d, Base)
           u == Listed(w, Base)
           t == Listed(v, Base)
<1>1. /\ d \in Disks /\ FileOK(d, Base) /\ NoIndex(d, {Base}) /\ Placed(d, Base) /\ Base \in Files
  BY BasePlaced DEF BaseState
<1>2. idx \in Seq(Entries) /\ DOMAIN idx = 1 .. Len(idx) /\ Len(idx) \in Nat
  BY <1>1, IndexType
<1>3. m \in 1 .. Len(idx) + 1 /\ m \in Nat /\ Storable(x) /\ m - 1 = Len(idx)
  BY <1>2, StorableData
<1>4. InnerPlace(e, g) /\ InnerState(v, g)
  BY InnerCreated
<1>v. v = NewFile(e, g) /\ Bytes(x) = Bytes(<<0>>)
  OBVIOUS
<1>w. e = AsFile(w, m)
  OBVIOUS
<1> HIDE DEF x, m
<1>y. Made(d, y, Base, 0)
  BY <1>1, <1>3, InsertedMade
<1>6. /\ s \in Seq(Items) /\ u \in Seq(Items) /\ Len(u) = Len(s) + 1 /\ Len(s) = m - 1
      /\ \A j \in Nat : 1 <= j /\ j < m => u[j] = s[j]
  <2>1. /\ Listed(y, Base) \in Seq(Items) /\ Len(Listed(y, Base)) = Len(s) + 1 /\ Len(s) = m - 1
        /\ s \in Seq(Items) /\ \A j \in Nat : 1 <= j /\ j < m => Listed(y, Base)[j] = s[j]
    BY <1>1, <1>3, InsertedList
  <2>2. y \in Disks /\ FileOK(y, Base)
    BY <1>y DEF Made, Within
  <2> HIDE DEF y
  <2>3. Listed(w, Base) = Listed(y, Base)
    BY <1>1, <2>2, BasePlaced, FlushedList
  <2> HIDE DEF w
  <2> QED
    BY <2>1, <2>3
<1>5. Made(d, w, Base, 0)
  <2> HIDE DEF y
  <2> QED
    BY <1>1, <1>y, FinishedMade
<1> HIDE DEF w
<1>7. w \in Disks /\ FileOK(w, Base) /\ Placed(w, Base)
  BY <1>5, BasePlaced DEF Made, Within
<1>8. /\ e.cells = w.cells /\ e.index[Base] = [w.index[Base] EXCEPT ![m] =
                                                   [@ EXCEPT !.id = FileID, !.type = "file"]]
  BY <1>1, <1>7, <1>w DEF AsFile, Disks
<1> HIDE DEF e
<1>9. /\ e \in Disks /\ FileOK(e, Base) /\ Placed(e, Base) /\ v \in Disks /\ FileOK(v, Base) /\ Placed(v, Base)
      /\ HoldsFile(v)
  BY <1>4, BasePlaced DEF InnerState, InnerPlace
<1>10. Around(e, v, g) /\ v.index[g] = <<>>
  <2>1. Placed(e, g) /\ g \in Files
    BY <1>4, InnerPlaced DEF InnerPlace
  <2> QED
    BY <1>9, <2>1, NewFileMade DEF Within
<1> HIDE DEF v
<1>11. Len(w.index[Base]) = m /\ DOMAIN w.index[Base] = 1 .. m
  BY <1>1, <1>3, <1>6, <1>7, ListedItems, IndexType
<1>12. /\ Len(e.index[Base]) = m /\ DOMAIN e.index[Base] = 1 .. m
       /\ e.index[Base][m].id = FileID /\ e.index[Base][m].type = "file"
       /\ \A j \in 1 .. m : j # m => e.index[Base][j] = w.index[Base][j]
  <2>1. DOMAIN e.index[Base] = 1 .. m
    BY <1>8, <1>11
  <2>2. Len(e.index[Base]) = m
    BY <1>1, <1>3, <1>9, <2>1, IndexType
  <2>3. w.index[Base][m] \in Entries /\ m \in 1 .. m
    BY <1>1, <1>2, <1>3, <1>7, <1>11, IndexType
  <2>4. e.index[Base][m] = [w.index[Base][m] EXCEPT !.id = FileID, !.type = "file"]
    BY <1>8, <1>11, <2>3
  <2>5. e.index[Base][m].id = FileID /\ e.index[Base][m].type = "file"
    BY <2>3, <2>4 DEF Entries
  <2> QED
    BY <1>8, <1>11, <2>1, <2>2, <2>5
<1>13. /\ Len(v.index[Base]) = m /\ DOMAIN v.index[Base] = 1 .. m
       /\ \A j \in 1 .. m :
             /\ v.index[Base][j].id = e.index[Base][j].id /\ v.index[Base][j].type = e.index[Base][j].type
             /\ e.index[Base][j].id # FileID => Copied(e, Off(e, Base, j), v, Off(v, Base, j))
  BY <1>1, <1>9, <1>10, <1>12, IndexType DEF Around
<1>14. /\ \A j \in 1 .. m : u[j] = Item(w, Base, j)
       /\ t \in Seq(Items) /\ Len(t) = m /\ \A j \in 1 .. m : t[j] = Item(v, Base, j)
  BY <1>1, <1>7, <1>9, <1>11, <1>13, ListedItems
<1>15. ASSUME NEW j \in 1 .. m, j # m
       PROVE  t[j] = u[j]
  <2>1. j \in DOMAIN w.index[Base] /\ j \in DOMAIN e.index[Base] /\ j \in DOMAIN v.index[Base]
    BY <1>11, <1>12, <1>13
  <2>2. Off(e, Base, j) = Off(w, Base, j)
    BY <1>12, <1>15 DEF Off
  <2>3. SameElement(w, e, Base, j, j)
    <3>1. \A k : Cell(e, k) = Cell(w, k)
      BY <1>8, SameDisk
    <3> QED
      BY <1>12, <1>15, <2>2, <3>1, BasePlaced DEF SameElement, Copied
  <2>4. Item(e, Base, j) = Item(w, Base, j)
    BY <1>1, <1>7, <1>9, <2>1, <2>3, SameItem
  <2>5. e.index[Base][j].id # FileID
    BY <1>3, <1>9, <1>12, <1>15, <2>1 DEF FileOK, Named
  <2>6. SameElement(e, v, Base, j, j)
    <3>1. /\ StartOf(e, Base) + Off(e, Base, j) = Off(e, Base, j)
          /\ StartOf(v, Base) + Off(v, Base, j) = Off(v, Base, j)
      BY <1>9, <2>1, BaseElement
    <3> QED
      BY <1>13, <2>5, <3>1 DEF SameElement
  <2>7. Item(v, Base, j) = Item(e, Base, j)
    BY <1>1, <1>9, <2>1, <2>6, SameItem
  <2> QED
    BY <1>14, <2>4, <2>7
<1>16. t[m] = <<FileID, Bytes(x)>>
  <2>1. m \in 1 .. m
    BY <1>2, <1>3
  <2> QED
    BY <1>12, <1>13, <1>14, <1>v, <2>1 DEF Item, DataOf
<1>17. \A j \in DOMAIN s : s[j][1] # FileID
  <2>1. DOMAIN s = DOMAIN idx /\ \A j \in DOMAIN idx : s[j] = Item(d, Base, j)
    BY <1>1, ListedItems
  <2> QED
    BY <2>1 DEF Item, IDToIndex
<1>t. t = Listed(v, Base) /\ s = Listed(d, Base)
  OBVIOUS
<1> HIDE DEF s, t, u
<1>18. m \in 1 .. Len(s) + 1 /\ Len(t) = Len(s) + 1
  BY <1>2, <1>3, <1>6, <1>14
<1>19. \A j \in Nat : 1 <= j /\ j < m => t[j] = s[j]
  <2>1. ASSUME NEW j \in Nat, 1 <= j, j < m
        PROVE  t[j] = s[j]
    <3>1. j \in 1 .. m /\ j # m
      BY <1>3, <2>1
    <3> QED
      BY <1>6, <1>15, <2>1, <3>1
  <2> QED
    BY <2>1
<1>20. \A j \in Nat : m < j /\ j <= Len(s) + 1 => t[j] = s[j - 1]
  BY <1>3, <1>6
<1>21. Contents!InsertOne(s, t)
  <2>1. t[m][2] \in {Bytes(z) : z \in Data} \cup {Bytes(<<0>>)} /\ \A j \in DOMAIN s : s[j][1] # t[m][1]
    BY <1>16, <1>17, <1>v
  <2> QED
    BY <1>6, <1>14, <1>18, <1>19, <1>20, <2>1, InsertsOne
<1>22. ContentsIn(d, <<Base>>) = [f \in Files |-> IF f = Base THEN Listed(d, Base) ELSE StoredList(d, f)]
  BY <1>1, BaseContents
<1>23. ContentsIn(v, <<Base, g>>) = [f \in Files |-> Listed(v, f)]
  BY InnerContents
<1>24. \A f \in Files \ {Base} : StoredList(d, f) = <<>> /\ Listed(v, f) = <<>>
  <2>1. ~HoldsFile(d)
    BY DEF HoldsFile, IDToIndex
  <2>2. Listed(v, g) = <<>>
    BY <1>10, NothingListed
  <2> QED
    BY <2>1, <2>2 DEF StoredList, OneInner
<1>25. OneStep(ContentsIn(d, <<Base>>), ContentsIn(v, <<Base, g>>), Base)
  BY <1>1, <1>21, <1>22, <1>23, <1>24, <1>t DEF OneStep, DoneTo
<1> QED
  BY <1>25 DEF v, e, w, y, x, m

\* Opening an embedded file.
LEMMA OpenEmbeddedStep ==
    ASSUME Flat, OneInner, LayoutInv, NEW g \in Files \ {Base}, OpenEmbedded(g)
    PROVE  \/ ContentsIn(disk', open') = ContentsIn(disk, open)
           \/ OneStep(ContentsIn(disk, open), ContentsIn(disk', open'), Base)
<1> DEFINE d == disk
           o == open
           n == Len(d.index[Base]) + 1
           e == AsFile(Finished(Inserted(d, Base, n, <<0>>), Base), n)
<1>1. EnclosedBy[g] = Base
  BY DEF Flat
<1>2. /\ o # <<>> /\ Last(o) = Base /\ open' = Append(o, g) /\ d = disk /\ o = open
      /\ \A i \in IDToIndex(d, Base, FileID) : d.index[Base][i].type = "file"
      /\ IF IDToIndex(d, Base, FileID) # {}
         THEN disk' = ReadHeader(Asserted(d, HasPlace(d, g) /\ HeaderReadable(d, g)), g)
         ELSE disk' = NewFile(Asserted(e, HasPlace(e, g)), g)
  BY <1>1 DEF OpenEmbedded, OKToCreateEmbedded, AsFile
<1>3. StateOK(d, o)
  BY DEF LayoutInv
<1> HIDE DEF d, o, n, e
<1>4. o = <<Base>> /\ BaseState(d)
  <2>1. ASSUME NEW h \in Files \ {Base}, o = <<Base, h>>
        PROVE  FALSE
    BY <1>2, <2>1 DEF Last
  <2> QED
    BY <1>2, <1>3, <2>1 DEF StateOK
<1>5. open' = <<Base, g>>
  <2>1. open' = Append(<<Base>>, g)
    BY <1>2, <1>4
  <2>2. Base \in Files /\ g \in Files
    BY BasePlaced
  <2> QED
    BY <2>1, <2>2, TwoFiles
<1>6. CASE IDToIndex(d, Base, FileID) # {}
  <2>1. HoldsFile(d)
    BY <1>2, <1>6 DEF HoldsFile, IDToIndex
  <2>2. /\ ContentsIn(ReadHeader(d, g), <<Base, g>>) = ContentsIn(d, <<Base>>)
        /\ Asserted(d, HasPlace(d, g) /\ HeaderReadable(d, g)) = d
    BY <1>4, <2>1, InnerOpened, OpenThere
  <2> QED
    BY <1>2, <1>4, <1>5, <1>6, <2>2
<1>7. CASE IDToIndex(d, Base, FileID) = {}
  <2>1. /\ OneStep(ContentsIn(d, <<Base>>), ContentsIn(NewFile(e, g), <<Base, g>>), Base)
        /\ Asserted(e, HasPlace(e, g)) = e
    BY <1>4, <1>7, InnerCreated, OpenNew DEF e, n
  <2> QED
    BY <1>2, <1>4, <1>5, <1>7, <2>1
<1> QED
  BY <1>6, <1>7

\* Every step leaves what the files contain as it is, or is one operation on one of them.
LEMMA StepContents ==
    ASSUME Flat, ~EmbeddedCrash, OneInner, LayoutInv, [LayoutNext]_layoutVars
    PROVE  \/ ContentsIn(disk', open') = ContentsIn(disk, open)
           \/ \E f \in Files : OneStep(ContentsIn(disk, open), ContentsIn(disk', open'), f)
<1> DEFINE Goal == \/ ContentsIn(disk', open') = ContentsIn(disk, open)
                   \/ \E f \in Files : OneStep(ContentsIn(disk, open), ContentsIn(disk', open'), f)
<1> SUFFICES Goal
  OBVIOUS
<1>1. CASE OpenBase
  BY <1>1, OpenBaseStep
<1>2. ASSUME NEW g \in Files \ {Base}, OpenEmbedded(g)
      PROVE  Goal
  <2>1. \/ ContentsIn(disk', open') = ContentsIn(disk, open)
        \/ OneStep(ContentsIn(disk, open), ContentsIn(disk', open'), Base)
    BY <1>2, OpenEmbeddedStep
  <2>2. Base \in Files
    BY BasePlaced
  <2> QED
    BY <2>1, <2>2
<1>3. CASE CloseFile
  BY <1>3, CloseStep
<1>4. CASE Crash
  BY <1>4, CrashStep
<1>5. ASSUME NEW f \in Range(open)
      PROVE  /\ \A x \in Data : \A i \in 1 .. Len(disk.index[f]) + 1 : InsertElement(f, i, x) => Goal
             /\ \A x \in Data : \A i \in DOMAIN disk.index[f] : SetElement(f, i, x) => Goal
             /\ \A i \in DOMAIN disk.index[f] : GetElement(f, i) \/ RemoveElement(f, i) => Goal
             /\ \A i, j \in DOMAIN disk.index[f] :
                   MoveElementToIndex(f, i, j) \/ SwapElements(f, i, j) => Goal
  <2>0. f \in Files
    BY OpenIndex
  <2>1. ASSUME NEW x \in Data, NEW i \in 1 .. Len(disk.index[f]) + 1, InsertElement(f, i, x)
        PROVE  Goal
    BY <2>0, <2>1, InsertStep
  <2>2. ASSUME NEW x \in Data, NEW i \in DOMAIN disk.index[f], SetElement(f, i, x)
        PROVE  Goal
    BY <2>0, <2>2, SetStep
  <2>3. ASSUME NEW i \in DOMAIN disk.index[f], RemoveElement(f, i)
        PROVE  Goal
    BY <2>0, <2>3, RemoveStep
  <2>4. ASSUME NEW i \in DOMAIN disk.index[f], NEW j \in DOMAIN disk.index[f], MoveElementToIndex(f, i, j)
        PROVE  Goal
    BY <2>0, <2>4, MoveStep
  <2>5. ASSUME NEW i \in DOMAIN disk.index[f], NEW j \in DOMAIN disk.index[f], SwapElements(f, i, j)
        PROVE  Goal
    BY <2>0, <2>5, SwapStep
  <2>6. ASSUME NEW i \in DOMAIN disk.index[f], GetElement(f, i)
        PROVE  Goal
    <3>1. UNCHANGED layoutVars
      BY <2>6, GetChangesNothing
    <3> QED
      BY <3>1 DEF layoutVars
  <2> HIDE DEF Goal
  <2> QED
    BY <2>1, <2>2, <2>3, <2>4, <2>5, <2>6
<1>6. CASE UNCHANGED layoutVars
  BY <1>6 DEF layoutVars
<1> HIDE DEF Goal
<1> QED
  BY <1>1, <1>2, <1>3, <1>4, <1>5, <1>6 DEF LayoutNext

\* Nothing is stored at the start.
LEMMA InitContents ==
    ASSUME Flat, LayoutInit
    PROVE  Contents!Init
<1>1. /\ disk.cells = <<>> /\ disk.index = [f \in Files |-> <<>>] /\ open = <<>>
  BY DEF LayoutInit
<1>2. NoIndex(disk, {})
  BY <1>1 DEF NoIndex
<1>3. ContentsIn(disk, <<>>) = [f \in Files |-> <<>>]
  BY <1>1, <1>2, NoContents
<1> QED
  BY <1>1, <1>3 DEF Contents!Init

\* What is done to the files is what FileOfElements says.
LEMMA StepImplements ==
    ASSUME Flat, ~EmbeddedCrash, OneInner, LayoutInv, [LayoutNext]_layoutVars
    PROVE  [Contents!Next]_(ContentsIn(disk, open))
<1> DEFINE c == ContentsIn(disk, open)
           w == ContentsIn(disk', open')
<1>1. w = c \/ \E f \in Files : OneStep(c, w, f)
  BY StepContents
<1>2. ContentsIn(disk, open)' = w
  OBVIOUS
<1>3. ASSUME NEW f \in Files, OneStep(c, w, f)
      PROVE  Contents!Next
  <2>1. /\ DoneTo(c[f], w[f])
        /\ \A h \in Files \ {f} :
              \/ w[h] = c[h]
              \/ w[h] = <<>> /\ ~(Contents!Enclosing(c[f]) \subseteq Contents!Enclosing(w[f]))
    BY <1>3 DEF OneStep
  <2>2. Contents!Operation(f, c[f], w[f])
    BY <2>1 DEF Contents!Operation, DoneTo
  <2> QED
    BY <2>2 DEF Contents!Next
<1> QED
  BY <1>1, <1>2, <1>3

\* The bytes on the disk are the lists of elements that were asked for, whatever grows,
\* shrinks or goes in a file and around it, and after it is closed and opened; with
\* itsFlushChangesFlag also after a crash, as long as there is no embedded file.
THEOREM FilesKeepContents ==
    ASSUME Flat, ~EmbeddedCrash, OneInner
    PROVE  LayoutSpec => KeepsContents
<1>1. LayoutInit => LayoutInv /\ Contents!Init
  BY InitLayout, InitContents
<1>2. LayoutInv /\ [LayoutNext]_layoutVars => LayoutInv' /\ [Contents!Next]_(ContentsIn(disk, open))
  BY NextLayout, StepImplements
<1> QED
  BY <1>1, <1>2, PTL DEF LayoutSpec, KeepsContents, Contents!Spec

-----------------------------------------------------------------------------
(* Shared preferences.                                                     *)

FileType == [locked : BOOLEAN, torn : BOOLEAN, value : Values \cup {NoValue}]

\* NoFile is none of the files.
LEMMA NoFileIsNoInode == NoFile \notin Inodes
<1>1. Cardinality(Programs) \in Nat
  BY SharedPrefsAssumption, FS_CardinalityType
<1> QED
  BY <1>1 DEF NoFile, Inodes

\* A file just made is a file.
LEMMA EmptyIsFile == Empty \in FileType
  BY DEF Empty, FileType

\* What is in use stays as it is; the rest is gone.
LEMMA KeptFiles ==
    ASSUME NEW files \in [Inodes -> FileType], NEW name, NEW taken
    PROVE  /\ Kept(files, name, taken) \in [Inodes -> FileType]
           /\ \A i \in Inodes : i \in InUse(name, taken) => Kept(files, name, taken)[i] = files[i]
           /\ \A i \in Inodes : i \notin InUse(name, taken) => Kept(files, name, taken)[i] = Empty
  BY EmptyIsFile DEF Kept

\* One file changes: it is locked; it is written; it is given back.
Locked(files, i)        == [files EXCEPT ![i].locked = TRUE]
Written(files, i, v, b) == [files EXCEPT ![i].value = v, ![i].torn = b]
Returned(files, i)      == [files EXCEPT ![i].locked = FALSE, ![i].torn = FALSE]

\* Taking the lock of a file changes nothing else.
LEMMA LockedFile ==
    ASSUME NEW files \in [Inodes -> FileType], NEW i \in Inodes
    PROVE  LET g == Locked(files, i)
           IN  /\ g \in [Inodes -> FileType]
               /\ g[i].locked /\ g[i].torn = files[i].torn /\ g[i].value = files[i].value
               /\ \A j \in Inodes : j # i => g[j] = files[j]
<1> DEFINE g == Locked(files, i)
<1>g. g = [files EXCEPT ![i].locked = TRUE]
  BY DEF Locked
<1> HIDE DEF g
<1>1. files[i] \in FileType
  OBVIOUS
<1>2. g[i] = [files[i] EXCEPT !.locked = TRUE] /\ \A j \in Inodes : j # i => g[j] = files[j]
  BY <1>g
<1>3. g[i] \in FileType /\ g[i].locked /\ g[i].torn = files[i].torn /\ g[i].value = files[i].value
  BY <1>1, <1>2 DEF FileType
<1>4. g \in [Inodes -> FileType]
  BY <1>g, <1>2, <1>3
<1> QED
  BY <1>2, <1>3, <1>4 DEF g

\* Writing a file changes its contents and not its lock.
LEMMA WrittenFile ==
    ASSUME NEW files \in [Inodes -> FileType], NEW i \in Inodes,
           NEW v \in Values \cup {NoValue}, NEW b \in BOOLEAN
    PROVE  LET g == Written(files, i, v, b)
           IN  /\ g \in [Inodes -> FileType]
               /\ g[i].locked = files[i].locked /\ g[i].torn = b /\ g[i].value = v
               /\ \A j \in Inodes : j # i => g[j] = files[j]
<1> DEFINE g == Written(files, i, v, b)
<1>1. files[i] \in FileType
  OBVIOUS
<1> DEFINE h == [files EXCEPT ![i].value = v]
<1>2. /\ h[i] = [files[i] EXCEPT !.value = v]
      /\ h \in [Inodes -> FileType] /\ \A j \in Inodes : j # i => h[j] = files[j]
  <2>1. [files[i] EXCEPT !.value = v] \in FileType
    BY <1>1 DEF FileType
  <2> QED
    BY <2>1
<1>3. h[i] \in FileType /\ h[i].locked = files[i].locked /\ h[i].value = v
  BY <1>1, <1>2 DEF FileType
<1>4. g = [h EXCEPT ![i].torn = b]
  BY DEF Written
<1> HIDE DEF g, h
<1>5. g[i] = [h[i] EXCEPT !.torn = b] /\ \A j \in Inodes : j # i => g[j] = h[j]
  BY <1>2, <1>4
<1>6. /\ g[i] \in FileType
      /\ g[i].locked = h[i].locked /\ g[i].torn = b /\ g[i].value = h[i].value
  BY <1>3, <1>5 DEF FileType
<1>7. g \in [Inodes -> FileType]
  BY <1>2, <1>4, <1>5, <1>6
<1> QED
  BY <1>2, <1>3, <1>5, <1>6, <1>7 DEF g

\* Giving the lock back leaves a file that can be read.
LEMMA GivenBack ==
    ASSUME NEW files \in [Inodes -> FileType], NEW i \in Inodes
    PROVE  LET g == Returned(files, i)
           IN  /\ g \in [Inodes -> FileType]
               /\ ~g[i].locked /\ ~g[i].torn /\ g[i].value = files[i].value
               /\ \A j \in Inodes : j # i => g[j] = files[j]
<1> DEFINE g == Returned(files, i)
<1>1. files[i] \in FileType
  OBVIOUS
<1> DEFINE h == [files EXCEPT ![i].locked = FALSE]
<1>2. /\ h[i] = [files[i] EXCEPT !.locked = FALSE]
      /\ h \in [Inodes -> FileType] /\ \A j \in Inodes : j # i => h[j] = files[j]
  <2>1. [files[i] EXCEPT !.locked = FALSE] \in FileType
    BY <1>1 DEF FileType
  <2> QED
    BY <2>1
<1>3. h[i] \in FileType /\ ~h[i].locked /\ h[i].value = files[i].value
  BY <1>1, <1>2 DEF FileType
<1>4. g = [h EXCEPT ![i].torn = FALSE]
  BY DEF Returned
<1> HIDE DEF g, h
<1>5. g[i] = [h[i] EXCEPT !.torn = FALSE] /\ \A j \in Inodes : j # i => g[j] = h[j]
  BY <1>2, <1>4
<1>6. g[i] \in FileType /\ ~g[i].locked /\ ~g[i].torn /\ g[i].value = h[i].value
  BY <1>3, <1>5 DEF FileType
<1>7. g \in [Inodes -> FileType]
  BY <1>2, <1>4, <1>5, <1>6
<1> QED
  BY <1>2, <1>3, <1>5, <1>6, <1>7 DEF g

-----------------------------------------------------------------------------
(* Types.                                                                  *)

\* The types hold at the start.
LEMMA TypeInit == Init => TypeOK
<1> SUFFICES ASSUME Init PROVE TypeOK
  OBVIOUS
<1> USE SharedPrefsAssumption
<1>1. file \in [Inodes -> FileType]
  BY EmptyIsFile DEF Init
<1>2. Inodes = Inodes /\ NoFile \notin {1}
  BY DEF NoFile
<1> QED
  BY <1>1, <1>2 DEF Init, TypeOK, FileType

\* What the ways to leave OKToCreateBase do to a program's own variables.
ProgramType ==
    /\ pc \in [Programs -> {"dead", "idle", "checking", "waiting", "found",
                            "open", "used", "closing", "signalled"}]
    /\ why \in [Programs -> {"read", "write"}]
    /\ at \in [Programs -> Inodes \cup {NoFile}]
    /\ \A p \in Programs : at[p] # NoFile <=> pc[p] \in {"open", "used"}
    /\ tries \in [Programs -> 0 .. MaxAttempts - 1] /\ sure \in [Programs -> BOOLEAN]
    /\ mem \in [Programs -> Values \cup {NoValue}] /\ orig \in [Programs -> Values \cup {NoValue}]
    /\ \A p \in Programs : mem[p] = NoValue => pc[p] = "dead"
    /\ seen \in [Programs -> BOOLEAN] /\ changed \in [Programs -> BOOLEAN]

FilesType == path \in Inodes \cup {NoFile} /\ file \in [Inodes -> FileType]
CountType ==
    /\ changes \in 0 .. MaxChanges /\ deaths \in 0 .. MaxDeaths
    /\ evictions \in 0 .. MaxEvictions /\ lost \in [Programs -> BOOLEAN]

\* The type invariant, in parts.
LEMMA TypeParts == TypeOK <=> ProgramType /\ FilesType /\ CountType
  BY DEF TypeOK, ProgramType, FilesType, FileType, CountType

\* Dead keeps the types of the programs.
LEMMA DeadType == ASSUME ProgramType, NEW p \in Programs, Dead(p) PROVE ProgramType'
  BY SharedPrefsAssumption DEF ProgramType, Dead, Goto

\* Failed keeps the types of the programs.
LEMMA FailedType ==
    ASSUME ProgramType, NEW p \in Programs, pc[p] \in {"checking", "waiting"}, Failed(p)
    PROVE  ProgramType'
  BY SharedPrefsAssumption DEF ProgramType, Failed, Goto

\* Found keeps the types of the programs.
LEMMA FoundType ==
    ASSUME ProgramType, NEW p \in Programs, pc[p] \in {"checking", "waiting"}, Found(p)
    PROVE  ProgramType'
  BY SharedPrefsAssumption DEF ProgramType, Found, Goto, memVars

\* Wait keeps the types of the programs.
LEMMA WaitType ==
    ASSUME ProgramType, NEW p \in Programs, pc[p] \in {"checking", "found"},
           NEW b \in BOOLEAN, Wait(p, b)
    PROVE  ProgramType'
  BY SharedPrefsAssumption DEF ProgramType, Wait, Goto, memVars

\* Reading and writing in one form: the setting becomes v, in the program and the file.
Used(p, v, b) ==
    /\ mem' = [mem EXCEPT ![p] = v] /\ orig' = [orig EXCEPT ![p] = v]
    /\ file' = Written(file, at[p], v, b)
    /\ changed' = [changed EXCEPT ![p] = b]

\* Using the settings either writes them or has read them.
LEMMA UseUses ==
    ASSUME ProgramType, FilesType, NEW p \in Programs, Use(p)
    PROVE  \E v \in Values, b \in BOOLEAN :
               /\ Used(p, v, b)
               /\ b \/ (why[p] = "read" /\ v = file[at[p]].value)
<1>1. mem[p] \in Values /\ at[p] \in Inodes /\ mem = [mem EXCEPT ![p] = mem[p]]
  BY DEF ProgramType, Use
<1>2. file[at[p]] \in FileType
  BY <1>1 DEF FilesType
<1>3. CASE why[p] = "read"
  <2> DEFINE stored == file[at[p]].value
             v == IF stored = NoValue THEN mem[p] ELSE stored
             b == stored = NoValue
  <2>1. v \in Values /\ b \in BOOLEAN /\ (b \/ v = stored)
    BY <1>1, <1>2 DEF FileType
  <2>2. Used(p, v, b)
    BY <1>3 DEF Use, Read, Used, Written
  <2> QED
    BY <1>3, <2>1, <2>2
<1>4. CASE why[p] # "read"
  <2>1. Used(p, mem[p], TRUE)
    BY <1>1, <1>4 DEF Use, Write, Used, Written
  <2> QED
    BY <1>1, <2>1
<1> QED
  BY <1>3, <1>4

\* Every step keeps the types.
LEMMA TypeStep == TypeOK /\ [Next]_vars => TypeOK'
<1> SUFFICES ASSUME ProgramType, FilesType, CountType, [Next]_vars
             PROVE  ProgramType' /\ FilesType' /\ CountType'
  BY TypeParts DEF TypeOK, ProgramType, FilesType, FileType, CountType
<1> USE SharedPrefsAssumption
<1>1. ASSUME NEW p \in Programs, Start(p) PROVE ProgramType' /\ FilesType' /\ CountType'
  BY <1>1 DEF ProgramType, FilesType, CountType, Start, Goto, fileVars, counters
<1>2. ASSUME NEW p \in Programs, Die(p) PROVE ProgramType' /\ FilesType' /\ CountType'
  BY <1>2, DeadType, KeptFiles DEF FilesType, CountType, Die
<1>3. ASSUME NEW p \in Programs, Change(p) PROVE ProgramType' /\ FilesType' /\ CountType'
  BY <1>3 DEF ProgramType, FilesType, CountType, Change, Goto, fileVars, pcVars
<1>4. ASSUME NEW p \in Programs, Update(p) PROVE ProgramType' /\ FilesType' /\ CountType'
  BY <1>4 DEF ProgramType, FilesType, CountType, Update, Goto, fileVars, memVars, counters
<1>5. ASSUME NEW p \in Programs, Check(p) PROVE ProgramType' /\ FilesType' /\ CountType'
  <2>1. ProgramType'
    BY <1>5, FoundType, FailedType, WaitType DEF Check
  <2> QED
    BY <1>5, <2>1 DEF FilesType, CountType, Check, fileVars, counters
<1>6. ASSUME NEW p \in Programs, Retry(p) PROVE ProgramType' /\ FilesType' /\ CountType'
  <2>1. CountType'
    <3>1. changes' = changes /\ deaths' = deaths
      BY <1>6 DEF Retry
    <3>2. CASE UNCHANGED <<lost, evictions>>
      BY <3>1, <3>2 DEF CountType
    <3>3. CASE Timeout(p)
      BY <3>1, <3>3 DEF CountType, Timeout
    <3> QED
      BY <1>6, <3>2, <3>3 DEF Retry
  <2>2. CASE Found(p) /\ UNCHANGED fileVars
    BY <1>6, <2>1, <2>2, FoundType DEF FilesType, fileVars, Retry
  <2>3. CASE /\ tries[p] + 1 < MaxAttempts
             /\ tries' = [tries EXCEPT ![p] = @ + 1]
             /\ UNCHANGED <<fileVars, pc, why, at, sure, memVars>>
    BY <2>1, <2>3 DEF ProgramType, FilesType, fileVars, memVars
  <2>4. CASE Timeout(p)
    <3>1. ProgramType'
      BY <1>6, <2>4, DeadType, FailedType, FoundType DEF Retry, Timeout
    <3>2. FilesType'
      BY <2>4, KeptFiles DEF FilesType, Timeout
    <3> QED
      BY <2>1, <3>1, <3>2
  <2> QED
    BY <1>6, <2>2, <2>3, <2>4 DEF Retry
<1>7. ASSUME NEW p \in Programs, Build(p) PROVE ProgramType' /\ FilesType' /\ CountType'
  <2>1. CountType'
    <3>1. UNCHANGED counters /\ (lost' = lost \/ lost' = [lost EXCEPT ![p] = FALSE])
      BY <1>7 DEF Build, Open
    <3> QED
      BY <3>1 DEF CountType, counters
  <2>2. ASSUME NEW i \in Inodes, Open(p, i) PROVE ProgramType' /\ FilesType'
    <3>1. ProgramType'
      <4>1. pc[p] = "found"
        BY <1>7 DEF Build
      <4> QED
        BY <2>2, <4>1, NoFileIsNoInode DEF ProgramType, Open, Goto, memVars
    <3>2. FilesType'
      BY <2>2, LockedFile DEF FilesType, Open, Locked
    <3> QED
      BY <3>1, <3>2
  <2>3. CASE Dead(p) /\ UNCHANGED fileVars
    BY <2>1, <2>3, DeadType DEF FilesType, fileVars
  <2>4. CASE Wait(p, TRUE) /\ UNCHANGED fileVars
    BY <1>7, <2>1, <2>4, WaitType DEF FilesType, fileVars, Build
  <2> QED
    BY <1>7, <2>1, <2>2, <2>3, <2>4 DEF Build, FilesType
<1>8. ASSUME NEW p \in Programs, Use(p) PROVE ProgramType' /\ FilesType' /\ CountType'
  <2>1. mem[p] \in Values /\ at[p] \in Inodes
    BY <1>8 DEF ProgramType, Use
  <2>2. PICK v \in Values, b \in BOOLEAN : Used(p, v, b)
    BY <1>8, UseUses
  <2>3. FilesType'
    BY <1>8, <2>1, <2>2, WrittenFile DEF FilesType, Used, Use
  <2>4. ProgramType' /\ CountType'
    BY <1>8, <2>1, <2>2 DEF ProgramType, CountType, Used, Use, Goto, counters
  <2> QED
    BY <2>3, <2>4
<1>9. ASSUME NEW p \in Programs, Close(p) PROVE ProgramType' /\ FilesType' /\ CountType'
  <2>1. ProgramType' /\ CountType'
    BY <1>9 DEF ProgramType, CountType, Close, Goto, memVars, counters
  <2>2. file' = Kept(Returned(file, at[p]), path, at') /\ path' = path
    BY <1>9 DEF Close, Returned
  <2>3. Returned(file, at[p]) \in [Inodes -> FileType]
    <3>1. file \in [Inodes -> FileType] /\ at[p] \in Inodes
      BY <1>9 DEF ProgramType, FilesType, Close
    <3> QED
      BY <3>1, GivenBack
  <2> QED
    BY <2>1, <2>2, <2>3, KeptFiles DEF FilesType
<1>10. ASSUME NEW p \in Programs, Signal(p) PROVE ProgramType' /\ FilesType' /\ CountType'
  BY <1>10 DEF ProgramType, FilesType, CountType, Signal, Goto, fileVars, counters
<1>11. ASSUME NEW p \in Programs, Save(p) PROVE ProgramType' /\ FilesType' /\ CountType'
  BY <1>11 DEF ProgramType, FilesType, CountType, Save, Goto, fileVars, counters
<1>12. CASE UNCHANGED vars
  BY <1>12 DEF ProgramType, FilesType, CountType, vars, fileVars, pcVars, memVars, counters
<1> QED
  BY <1>1, <1>2, <1>3, <1>4, <1>5, <1>6, <1>7, <1>8, <1>9, <1>10, <1>11, <1>12 DEF Next, Program

\* Every variable keeps its type; a program has a file open exactly where the code has
\* itsFile set, and counts no more than kMaxAttemptCount attempts.
THEOREM TypeCorrect == Spec => []TypeOK
  BY TypeInit, TypeStep, PTL DEF Spec
-----------------------------------------------------------------------------
(* The lock.                                                               *)

CriticalAlone == \A p, q \in Programs : Critical(p) /\ Critical(q) => p = q
OwnedLocked   == \A p \in Programs : at[p] # NoFile => file[at[p]].locked
NeverSure     == \A p \in Programs : ~sure[p]
FoundFree     == \A p \in Programs : pc[p] = "found" => path = NoFile \/ ~file[path].locked
TornLocked    == \A i \in Inodes : file[i].torn => file[i].locked
UnusedEmpty   == \A i \in Inodes : i \notin InUse(path, at) => file[i] = Empty

LockInv ==
    /\ TypeOK
    /\ CriticalAlone /\ NeverSure /\ FoundFree
    /\ OwnedLocked /\ OneOwner
    /\ TornLocked /\ UnusedEmpty /\ NothingTorn

\* The invariant of the lock holds at the start.
LEMMA LockInit == Init => LockInv
<1> SUFFICES ASSUME Init PROVE LockInv
  OBVIOUS
<1>1. TypeOK
  BY TypeInit
<1>2. /\ CriticalAlone /\ NeverSure /\ FoundFree
      /\ OwnedLocked /\ OneOwner /\ UnusedEmpty /\ NothingTorn
  BY DEF Init, CriticalAlone, Critical, NeverSure, FoundFree, OwnedLocked, OneOwner,
         UnusedEmpty, NothingTorn
<1>3. TornLocked
  BY DEF Init, TornLocked, Empty
<1> QED
  BY <1>1, <1>2, <1>3 DEF LockInv

\* A step of p that leaves the files alone keeps the invariant, unless p comes to where
\* nothing may come between, and something else is there.
LEMMA FilesAlone ==
    ASSUME LockInv, TypeOK', NEW p \in Programs, UNCHANGED <<path, file, at>>,
           \A q \in Programs \ {p} : pc'[q] = pc[q],
           NeverSure',
           pc'[p] \in {"found", "closing", "signalled"} =>
               \A q \in Programs \ {p} : ~Critical(q),
           pc'[p] = "found" => path = NoFile \/ ~file[path].locked,
           pc'[p] # "open"
    PROVE  LockInv'
<1>1. CriticalAlone'
  BY DEF LockInv, CriticalAlone, Critical
<1>2. FoundFree'
  BY DEF LockInv, FoundFree
<1>3. OwnedLocked' /\ OneOwner' /\ TornLocked' /\ UnusedEmpty' /\ NothingTorn'
  BY DEF LockInv, OwnedLocked, OneOwner, TornLocked, UnusedEmpty, NothingTorn, InUse
<1> QED
  BY <1>1, <1>2, <1>3 DEF LockInv

\* A program gives its file up without giving it back, and perhaps the name is removed.
LEMMA FilesLeft ==
    ASSUME LockInv, TypeOK', NEW p \in Programs, NEW name \in {path, NoFile},
           path' = name, at' = [at EXCEPT ![p] = NoFile], file' = Kept(file, name, at'),
           \A q \in Programs \ {p} : pc'[q] = pc[q],
           NeverSure',
           pc'[p] = "found" => path' = NoFile /\ \A q \in Programs \ {p} : ~Critical(q),
           pc'[p] \notin {"open", "closing", "signalled"}
    PROVE  LockInv'
<1> USE DEF LockInv
<1>1. CriticalAlone'
  BY DEF CriticalAlone, Critical
<1>2. at \in [Programs -> Inodes \cup {NoFile}] /\ file \in [Inodes -> FileType]
  BY TypeParts DEF ProgramType, FilesType
<1>3. /\ \A i \in Inodes : i \in InUse(name, at') => file'[i] = file[i]
      /\ \A i \in Inodes : i \notin InUse(name, at') => file'[i] = Empty
  BY <1>2, KeptFiles
<1>4. \A q \in Programs : at'[q] # NoFile =>
          at[q] # NoFile /\ at'[q] = at[q] /\ file'[at'[q]] = file[at[q]]
  BY <1>2, <1>3 DEF InUse
<1>5. path' # NoFile => path' = path /\ path \in Inodes /\ file'[path] = file[path]
  BY <1>3, TypeParts DEF FilesType, InUse
<1>6. FoundFree'
  BY <1>5 DEF FoundFree
<1>7. OwnedLocked' /\ OneOwner'
  <2>1. OwnedLocked'
    BY <1>4 DEF OwnedLocked
  <2>2. OneOwner'
    BY <1>4 DEF OneOwner
  <2> QED
    BY <2>1, <2>2
<1>8. NothingTorn'
  <2> SUFFICES ASSUME NEW q \in Programs, pc'[q] = "open" PROVE ~file'[at'[q]].torn
    BY DEF NothingTorn
  <2>1. at'[q] # NoFile /\ pc[q] = "open"
    BY DEF TypeOK
  <2> QED
    BY <1>4, <2>1 DEF NothingTorn
<1>9. TornLocked'
  <2>1. ~Empty.torn
    BY DEF Empty
  <2> QED
    BY <1>3, <2>1 DEF TornLocked
<1>10. UnusedEmpty'
  BY <1>3 DEF UnusedEmpty, InUse
<1> QED
  BY <1>1, <1>6, <1>7, <1>8, <1>9, <1>10

\* A file is taken that nobody has, and that is complete.
LEMMA FileTaken ==
    ASSUME LockInv, TypeOK', NEW p \in Programs, NEW i \in Inodes, Open(p, i),
           pc[p] = "found", Alone(p), ~Interrupted,
           i = path \/ (path = NoFile /\ i \notin InUse(path, at))
    PROVE  LockInv'
<1> USE DEF LockInv
<1>1. /\ at \in [Programs -> Inodes \cup {NoFile}] /\ file \in [Inodes -> FileType]
      /\ sure \in [Programs -> BOOLEAN]
  BY TypeParts DEF ProgramType, FilesType
<1>2. /\ path' = i /\ at' = [at EXCEPT ![p] = i] /\ sure' = [sure EXCEPT ![p] = FALSE]
      /\ pc'[p] = "open" /\ \A q \in Programs \ {p} : pc'[q] = pc[q]
  BY DEF Open, Goto, TypeOK
<1>3. /\ file'[i].locked /\ file'[i].torn = file[i].torn
      /\ \A j \in Inodes : j # i => file'[j] = file[j]
  BY <1>1, LockedFile DEF Open, Locked
<1>4. i # NoFile
  BY NoFileIsNoInode
<1>5. ~file[i].locked
  <2>1. CASE i = path
    BY <1>4, <2>1 DEF FoundFree
  <2>2. CASE i \notin InUse(path, at)
    BY <2>2 DEF UnusedEmpty, Empty
  <2> QED
    BY <2>1, <2>2
<1>6. ~file[i].torn
  BY <1>5 DEF TornLocked
<1>7. \A q \in Programs : at[q] # i
  BY <1>4, <1>5 DEF OwnedLocked
<1>8. \A q \in Programs \ {p} : at'[q] = at[q] /\ pc'[q] = pc[q] /\ (at[q] # NoFile => file'[at[q]] = file[at[q]])
  BY <1>1, <1>2, <1>3, <1>7
<1>9. at'[p] = i /\ pc'[p] = "open"
  BY <1>1, <1>2
<1>10. CriticalAlone' /\ NeverSure'
  BY <1>1, <1>2, <1>8, <1>9 DEF CriticalAlone, Critical, NeverSure
<1>11. FoundFree'
  BY <1>8, <1>9 DEF FoundFree, Alone, Critical
<1>12. OwnedLocked'
  <2>1. ASSUME NEW q \in Programs \ {p}, at'[q] # NoFile PROVE file'[at'[q]].locked
    BY <1>8, <2>1 DEF OwnedLocked
  <2> QED
    BY <1>3, <1>9, <2>1 DEF OwnedLocked
<1>13. OneOwner'
  BY <1>7, <1>8, <1>9 DEF OneOwner
<1>14. NothingTorn'
  <2>1. ASSUME NEW q \in Programs \ {p}, pc'[q] = "open" PROVE ~file'[at'[q]].torn
    <3>1. pc[q] = "open" /\ at[q] # NoFile /\ ~file[at[q]].torn
      BY <1>8, <2>1 DEF NothingTorn, TypeOK
    <3> QED
      BY <1>8, <3>1
  <2> QED
    BY <1>3, <1>6, <1>9, <2>1 DEF NothingTorn
<1>15. TornLocked'
  BY <1>3 DEF TornLocked
<1>16. UnusedEmpty'
  <2> SUFFICES ASSUME NEW j \in Inodes, j \notin InUse(path, at)' PROVE file'[j] = Empty
    BY DEF UnusedEmpty
  <2>1. j # i /\ j \notin InUse(path, at)
    <3>1. j # i /\ j # NoFile
      BY <1>2, NoFileIsNoInode DEF InUse
    <3>2. j # path
      BY <3>1
    <3>3. at[p] = NoFile
      BY DEF TypeOK
    <3>4. \A q \in Programs : j # at[q]
      BY <1>8, <3>1, <3>3 DEF InUse
    <3> QED
      BY <3>1, <3>2, <3>4 DEF InUse
  <2> QED
    BY <1>3, <2>1 DEF UnusedEmpty
<1> QED
  BY <1>10, <1>11, <1>12, <1>13, <1>14, <1>15, <1>16

\* The owner of a file reads or writes it.
LEMMA FileUsed ==
    ASSUME LockInv, TypeOK', NEW p \in Programs, Use(p)
    PROVE  LockInv'
<1> USE DEF LockInv
<1>1. /\ at \in [Programs -> Inodes \cup {NoFile}] /\ file \in [Inodes -> FileType]
      /\ at[p] \in Inodes /\ at[p] # NoFile /\ file[at[p]].locked
  BY TypeParts DEF ProgramType, FilesType, Use, OwnedLocked
<1>2. PICK v \in Values, b \in BOOLEAN : Used(p, v, b)
  BY UseUses, TypeParts
<1>3. /\ file'[at[p]].locked
      /\ \A j \in Inodes : j # at[p] => file'[j] = file[j]
  BY <1>1, <1>2, WrittenFile DEF Used
<1>4. /\ path' = path /\ at' = at /\ sure' = sure
      /\ pc'[p] = "used" /\ \A q \in Programs \ {p} : pc'[q] = pc[q]
  BY DEF Use, Goto, TypeOK
<1>5. \A q \in Programs \ {p} : at[q] # NoFile => file'[at[q]] = file[at[q]]
  BY <1>1, <1>3 DEF OneOwner
<1>6. CriticalAlone' /\ NeverSure' /\ OneOwner'
  BY <1>4 DEF CriticalAlone, Critical, NeverSure, OneOwner
<1>7. FoundFree'
  <2> SUFFICES ASSUME NEW q \in Programs, pc'[q] = "found", path # NoFile
               PROVE  ~file'[path].locked
    BY <1>4 DEF FoundFree
  <2>1. path \in Inodes /\ ~file[path].locked
    BY <1>4, TypeParts DEF FoundFree, FilesType
  <2> QED
    BY <1>1, <1>3, <2>1
<1>8. OwnedLocked'
  BY <1>3, <1>4, <1>5 DEF OwnedLocked
<1>9. TornLocked'
  BY <1>3 DEF TornLocked
<1>10. UnusedEmpty'
  BY <1>3, <1>4 DEF UnusedEmpty, InUse
<1>11. NothingTorn'
  <2> SUFFICES ASSUME NEW q \in Programs, pc'[q] = "open" PROVE ~file'[at[q]].torn
    BY <1>4 DEF NothingTorn
  <2>1. q # p /\ pc[q] = "open" /\ at[q] # NoFile /\ ~file[at[q]].torn
    BY <1>4 DEF NothingTorn, TypeOK
  <2> QED
    BY <1>5, <2>1
<1> QED
  BY <1>6, <1>7, <1>8, <1>9, <1>10, <1>11

\* The owner of a file gives it back.
LEMMA FileClosed ==
    ASSUME LockInv, TypeOK', NEW p \in Programs, Close(p), ~Interrupted
    PROVE  LockInv'
<1> USE DEF LockInv
<1> DEFINE g == Returned(file, at[p])
<1>1. /\ at \in [Programs -> Inodes \cup {NoFile}] /\ file \in [Inodes -> FileType]
      /\ at[p] \in Inodes /\ at[p] # NoFile /\ file[at[p]].locked
  BY TypeParts DEF ProgramType, FilesType, Close, OwnedLocked
<1>2. /\ g \in [Inodes -> FileType] /\ ~g[at[p]].torn
      /\ \A j \in Inodes : j # at[p] => g[j] = file[j]
  BY <1>1, GivenBack
<1>3. /\ path' = path /\ at' = [at EXCEPT ![p] = NoFile] /\ sure' = sure
      /\ pc'[p] = "closing" /\ \A q \in Programs \ {p} : pc'[q] = pc[q]
      /\ file' = Kept(g, path, at') /\ \A q \in Programs \ {p} : ~Critical(q)
  BY DEF Close, Goto, TypeOK, Alone, Returned
<1> HIDE DEF g
<1>4. /\ \A i \in Inodes : i \in InUse(path, at') => file'[i] = g[i]
      /\ \A i \in Inodes : i \notin InUse(path, at') => file'[i] = Empty
  BY <1>2, <1>3, KeptFiles
<1>5. \A q \in Programs : at'[q] # NoFile =>
          at[q] # NoFile /\ at'[q] = at[q] /\ file'[at'[q]] = file[at[q]]
  <2> SUFFICES ASSUME NEW q \in Programs, at'[q] # NoFile
               PROVE  at[q] # NoFile /\ at'[q] = at[q] /\ file'[at'[q]] = file[at[q]]
    OBVIOUS
  <2>1. q # p /\ at'[q] = at[q] /\ at[q] \in Inodes /\ at[q] # at[p]
    BY <1>1, <1>3 DEF OneOwner
  <2>2. at[q] \in InUse(path, at')
    BY <2>1 DEF InUse
  <2> QED
    BY <1>2, <1>4, <2>1, <2>2
<1>6. CriticalAlone' /\ NeverSure'
  BY <1>3 DEF CriticalAlone, Critical, NeverSure
<1>7. FoundFree'
  BY <1>3 DEF FoundFree, Critical
<1>8. OwnedLocked'
  BY <1>5 DEF OwnedLocked
<1>9. OneOwner'
  BY <1>5 DEF OneOwner
<1>10. TornLocked'
  <2>1. ~Empty.torn
    BY DEF Empty
  <2>2. \A i \in Inodes : g[i].torn => i # at[p] /\ file[i].torn /\ g[i].locked
    BY <1>2 DEF TornLocked
  <2> QED
    BY <1>4, <2>1, <2>2 DEF TornLocked
<1>11. UnusedEmpty'
  BY <1>3, <1>4 DEF UnusedEmpty, InUse
<1>12. NothingTorn'
  <2> SUFFICES ASSUME NEW q \in Programs, pc'[q] = "open" PROVE ~file'[at'[q]].torn
    BY DEF NothingTorn
  <2>1. at'[q] # NoFile /\ pc[q] = "open"
    BY <1>3 DEF TypeOK
  <2> QED
    BY <1>5, <2>1 DEF NothingTorn
<1> QED
  BY <1>6, <1>7, <1>8, <1>9, <1>10, <1>11, <1>12

\* Every step keeps the invariant of the lock.
LEMMA LockStep == ASSUME ~Interrupted PROVE LockInv /\ [Next]_vars => LockInv'
<1> SUFFICES ASSUME LockInv, [Next]_vars PROVE LockInv'
  OBVIOUS
<1>1. TypeOK /\ TypeOK' /\ NeverSure
  BY TypeStep DEF LockInv
<1>2. \A p \in Programs : \A x : Goto(p, x) =>
          pc'[p] = x /\ \A q \in Programs \ {p} : pc'[q] = pc[q]
  BY <1>1 DEF TypeOK, Goto
<1>3. \A p, q \in Programs : ~([sure EXCEPT ![p] = FALSE])[q]
  BY <1>1 DEF TypeOK, NeverSure
<1>4. ASSUME NEW p \in Programs, Start(p) \/ Change(p) \/ Update(p) PROVE LockInv'
  <2>1. /\ UNCHANGED <<path, file, at, sure>> /\ pc'[p] \notin {"found", "closing", "signalled", "open"}
        /\ \A q \in Programs \ {p} : pc'[q] = pc[q]
    BY <1>2, <1>4 DEF Start, Change, Update, fileVars, pcVars, memVars
  <2> QED
    BY <1>1, <2>1, FilesAlone DEF NeverSure
<1>5. ASSUME NEW p \in Programs, Die(p) PROVE LockInv'
  <2>1. path' = path /\ at' = [at EXCEPT ![p] = NoFile] /\ file' = Kept(file, path, at')
    BY <1>5 DEF Die, Dead
  <2>2. NeverSure'
    BY <1>3, <1>5 DEF Die, Dead, NeverSure
  <2>3. pc'[p] = "dead" /\ \A q \in Programs \ {p} : pc'[q] = pc[q]
    BY <1>2, <1>5 DEF Die, Dead
  <2> QED
    BY <1>1, <2>1, <2>2, <2>3, FilesLeft
<1>6. ASSUME NEW p \in Programs, Check(p) PROVE LockInv'
  <2>1. /\ UNCHANGED <<path, file, at>> /\ \A q \in Programs \ {p} : pc'[q] = pc[q] /\ ~Critical(q)
        /\ pc'[p] \in {"found", "idle", "waiting"}
        /\ pc'[p] = "found" => path = NoFile \/ ~file[path].locked
        /\ NeverSure'
    BY <1>1, <1>2, <1>3, <1>6
       DEF Check, Found, Failed, Wait, fileVars, memVars, Alone, NeverSure, TypeOK
  <2> QED
    BY <1>1, <2>1, FilesAlone
<1>7. ASSUME NEW p \in Programs, Retry(p) PROVE LockInv'
  <2>1. \A q \in Programs \ {p} : ~Critical(q)
    BY <1>7 DEF Retry, Alone
  <2>2. ASSUME NEW l \in FoundLocked, ~l, Found(p), UNCHANGED fileVars PROVE LockInv'
    <3>1. /\ UNCHANGED <<path, file, at, sure>> /\ pc'[p] = "found"
          /\ \A q \in Programs \ {p} : pc'[q] = pc[q]
          /\ path = NoFile \/ ~file[path].locked
      BY <1>2, <2>2 DEF Found, FoundLocked, fileVars
    <3> QED
      BY <1>1, <2>1, <3>1, FilesAlone DEF NeverSure
  <2>3. CASE UNCHANGED <<fileVars, pc, why, at, sure, memVars>>
    BY <1>1, <1>7, <2>1, <2>3, FilesAlone DEF NeverSure, fileVars, Retry
  <2>4. CASE Timeout(p)
    <3>1. /\ path' = NoFile /\ file' = Kept(file, NoFile, at) /\ at' = at
          /\ pc'[p] \in {"idle", "found"} /\ \A q \in Programs \ {p} : pc'[q] = pc[q]
      BY <1>1, <1>2, <2>4 DEF Timeout, Failed, Found, NeverSure
    <3>2. at = [at EXCEPT ![p] = NoFile]
      <4>1. at[p] = NoFile
        BY <1>1, <1>7 DEF Retry, TypeOK
      <4> QED
        BY <1>1, <4>1 DEF TypeOK
    <3>3. NeverSure'
      BY <1>1, <1>3, <2>4 DEF Timeout, Failed, Found, NeverSure
    <3> QED
      <4>1. at' = [at EXCEPT ![p] = NoFile] /\ file' = Kept(file, NoFile, at')
        BY <3>1, <3>2
      <4> QED
        BY <1>1, <2>1, <3>1, <3>3, <4>1, FilesLeft
  <2> QED
    BY <1>7, <2>2, <2>3, <2>4 DEF Retry
<1>8. ASSUME NEW p \in Programs, Build(p) PROVE LockInv'
  <2>1. pc[p] = "found" /\ Alone(p) /\ ~sure[p] /\ (path = NoFile \/ ~file[path].locked)
    BY <1>1, <1>8 DEF Build, NeverSure, LockInv, FoundFree
  <2>2. CASE path = NoFile
    <3>1. PICK i \in Inodes \ InUse(path, at) : Open(p, i)
      BY <1>8, <2>1, <2>2 DEF Build
    <3> QED
      BY <1>1, <2>1, <2>2, <3>1, FileTaken
  <2>3. CASE path # NoFile
    <3>1. Open(p, path) /\ path \in Inodes
      BY <1>1, <1>8, <2>1, <2>3 DEF Build, TypeOK
    <3> QED
      BY <1>1, <2>1, <3>1, FileTaken
  <2> QED
    BY <2>2, <2>3
<1>9. ASSUME NEW p \in Programs, Signal(p) \/ Save(p) PROVE LockInv'
  <2>1. /\ UNCHANGED <<path, file, at, sure>> /\ \A q \in Programs \ {p} : pc'[q] = pc[q] /\ ~Critical(q)
        /\ pc'[p] \in {"idle", "signalled"}
    BY <1>2, <1>9 DEF Signal, Save, fileVars, Alone
  <2> QED
    BY <1>1, <2>1, FilesAlone DEF NeverSure
<1>10. CASE UNCHANGED vars
  <2>1. UNCHANGED <<path, file, pc, at, sure>>
    BY <1>10 DEF vars, fileVars, pcVars
  <2>2. CriticalAlone' /\ NeverSure' /\ FoundFree' /\ OwnedLocked' /\ OneOwner'
    BY <2>1 DEF LockInv, CriticalAlone, Critical, NeverSure, FoundFree, OwnedLocked, OneOwner
  <2>3. TornLocked' /\ UnusedEmpty' /\ NothingTorn'
    BY <2>1 DEF LockInv, TornLocked, UnusedEmpty, InUse, NothingTorn
  <2> QED
    BY <1>1, <2>2, <2>3 DEF LockInv
<1> QED
  BY <1>1, <1>4, <1>5, <1>6, <1>7, <1>8, <1>9, <1>10, FileUsed, FileClosed DEF Next, Program

\* One program at most has a file open, whoever dies with it open and whoever gives up
\* waiting, if nothing comes between the look at the lock bit and its being set.
THEOREM OneOwnerAlways == ASSUME ~Interrupted PROVE Spec => []OneOwner
<1>1. Spec => []LockInv
  BY LockInit, LockStep, PTL DEF Spec
<1>2. LockInv => OneOwner
  BY DEF LockInv
<1> QED
  BY <1>1, <1>2, PTL

\* What a dead program left half written is never read.
THEOREM NothingTornAlways == ASSUME ~Interrupted PROVE Spec => []NothingTorn
<1>1. Spec => []LockInv
  BY LockInit, LockStep, PTL DEF Spec
<1>2. LockInv => NothingTorn
  BY DEF LockInv
<1> QED
  BY <1>1, <1>2, PTL
-----------------------------------------------------------------------------
(* What a program that has seen the last signal knows of the file.         *)

Stored == file[path].value

AtPath  == \A p \in Programs : at[p] # NoFile => (at[p] = path <=> ~lost[p])
Awaited == \A p \in Programs : pc[p] = "waiting" => path # NoFile \/ \E q \in Programs : pc[q] = "found"

\* The file was left by a program that died; the next signal has yet to be given.
Orphan  == file[path].locked /\ \A q \in Programs : at[q] # path
Pending == \E q \in Programs : ~lost[q] /\ changed[q] /\ pc[q] \in {"used", "closing"}

Noticed ==
    \A p \in Programs :
        seen[p] /\ ~lost[p] /\ pc[p] # "open" /\ path # NoFile =>
            Stored = NoValue \/ Stored = orig[p] \/ Orphan \/ Pending

SavedAt(p) == path # NoFile /\ Stored = orig[p] /\ Stored # NoValue
Saved ==
    \A p \in Programs :
        pc[p] \in {"used", "closing", "signalled"} /\ ~lost[p] => SavedAt(p)
MissingLocked == path # NoFile /\ Stored = NoValue => file[path].locked
DeadUnseen    == \A p \in Programs : pc[p] = "dead" => ~seen[p]

NoticeInv ==
    LockInv /\ AtPath /\ Awaited /\ Noticed /\ Saved /\ MissingLocked /\ DeadUnseen

\* The invariant of the notices holds at the start.
LEMMA NoticeInit == Init => NoticeInv
<1> SUFFICES ASSUME Init PROVE NoticeInv
  OBVIOUS
<1>1. LockInv
  BY LockInit
<1>2. AtPath /\ Awaited /\ Noticed /\ Saved /\ MissingLocked /\ DeadUnseen
  BY DEF Init, AtPath, Awaited, Noticed, Saved, MissingLocked, DeadUnseen
<1> QED
  BY <1>1, <1>2 DEF NoticeInv

\* Who has not lost its file has the one with the name, and is the only one.
LEMMA OneOwnerAtPath ==
    ASSUME NoticeInv, NEW p \in Programs, pc[p] \in {"open", "used"}, ~lost[p]
    PROVE  /\ at[p] = path /\ path # NoFile /\ path \in Inodes /\ file[path].locked
           /\ \A q \in Programs \ {p} :
                 at[q] # path /\ (pc[q] \in {"open", "used"} => lost[q])
<1>1. at[p] # NoFile /\ TypeOK
  BY DEF NoticeInv, LockInv, TypeOK
<1>2. at[p] = path /\ file[at[p]].locked
  BY <1>1 DEF NoticeInv, AtPath, LockInv, OwnedLocked
<1>3. path \in Inodes
  BY <1>1, <1>2 DEF TypeOK
<1>4. \A q \in Programs \ {p} : at[q] # at[p]
  BY <1>1 DEF NoticeInv, LockInv, OneOwner
<1>5. \A q \in Programs \ {p} : pc[q] \in {"open", "used"} => lost[q]
  BY <1>1, <1>2, <1>4 DEF NoticeInv, AtPath, TypeOK
<1> QED
  BY <1>1, <1>2, <1>3, <1>4, <1>5

\* A step of p, which has nothing open, that leaves files, settings and notices alone.
LEMMA NoticeQuiet ==
    ASSUME NoticeInv, LockInv', NEW p \in Programs,
           UNCHANGED <<path, file, at, seen, orig, changed>>,
           lost' = lost \/ (pc[p] = "dead" /\ lost' = [lost EXCEPT ![p] = FALSE]),
           pc[p] \in {"dead", "idle", "checking", "waiting"},
           pc'[p] \in {"idle", "checking", "waiting", "found"},
           pc'[p] = "waiting" => pc[p] = "waiting" \/ path # NoFile,
           \A q \in Programs \ {p} : pc'[q] = pc[q]
    PROVE  NoticeInv'
<1> USE DEF NoticeInv
<1>1. TypeOK
  BY DEF LockInv
<1>2. /\ \A q \in Programs \ {p} : lost'[q] = lost[q]
      /\ at[p] = NoFile /\ (~lost'[p] => ~lost[p] \/ ~seen[p])
  BY <1>1 DEF TypeOK, DeadUnseen
<1>3. AtPath' /\ MissingLocked' /\ DeadUnseen'
  BY <1>2 DEF AtPath, MissingLocked, DeadUnseen, Stored
<1>4. Awaited'
  BY DEF Awaited
<1>5. Orphan' = Orphan /\ (Pending => Pending')
  BY <1>2 DEF Orphan, Pending
<1>6. Noticed'
  BY <1>2, <1>5 DEF Noticed, Stored
<1>7. Saved'
  BY <1>2 DEF Saved, SavedAt, Stored
<1> QED
  BY <1>3, <1>4, <1>6, <1>7

\* A step of p, which has lost its file, that leaves the file with the name as it is.
LEMMA NoticeLost ==
    ASSUME NoticeInv, LockInv', NEW p \in Programs, pc[p] \in {"open", "used"}, lost[p],
           UNCHANGED <<path, seen, lost>>, path # NoFile => file'[path] = file[path],
           at'[p] \in {at[p], NoFile}, pc'[p] \notin {"dead", "waiting"},
           \A q \in Programs \ {p} : /\ at'[q] = at[q] /\ pc'[q] = pc[q]
                                     /\ orig'[q] = orig[q] /\ changed'[q] = changed[q]
    PROVE  NoticeInv'
<1> USE DEF NoticeInv
<1>1. TypeOK /\ at[p] # path
  BY DEF LockInv, TypeOK, AtPath
<1>2. AtPath' /\ MissingLocked' /\ DeadUnseen'
  BY DEF AtPath, MissingLocked, DeadUnseen, Stored
<1>3. Awaited'
  BY DEF Awaited
<1>4. path # NoFile => (Orphan => Orphan') /\ (Pending => Pending')
  BY <1>1 DEF Orphan, Pending
<1>5. Noticed'
  BY <1>4 DEF Noticed, Stored
<1>6. Saved'
  BY DEF Saved, SavedAt, Stored
<1> QED
  BY <1>2, <1>3, <1>5, <1>6

\* Die keeps the invariant of the notices.
LEMMA NoticeDie ==
    ASSUME NoticeInv, LockInv', NEW p \in Programs, Die(p), ~Interrupted PROVE NoticeInv'
<1> USE DEF NoticeInv
<1>1. /\ path' = path /\ at' = [at EXCEPT ![p] = NoFile] /\ file' = Kept(file, path, at')
      /\ seen' = [seen EXCEPT ![p] = FALSE] /\ changed' = [changed EXCEPT ![p] = FALSE]
      /\ orig' = [orig EXCEPT ![p] = NoValue] /\ lost' = lost
  BY DEF Die, Dead
<1>2. TypeOK /\ ~Critical(p)
  BY DEF LockInv, Die
<1>3. /\ pc'[p] = "dead" /\ ~seen'[p] /\ at'[p] = NoFile
      /\ \A q \in Programs \ {p} : /\ pc'[q] = pc[q] /\ seen'[q] = seen[q] /\ at'[q] = at[q]
                                    /\ changed'[q] = changed[q] /\ orig'[q] = orig[q]
  BY <1>1, <1>2 DEF Die, Dead, Goto, TypeOK
<1>4. path # NoFile => file'[path] = file[path]
  <2>1. file \in [Inodes -> FileType] /\ path \in Inodes \cup {NoFile}
    BY <1>2, TypeParts DEF FilesType
  <2> QED
    BY <1>1, <2>1, KeptFiles DEF InUse
<1>5. AtPath' /\ Awaited' /\ MissingLocked' /\ DeadUnseen'
  BY <1>1, <1>2, <1>3, <1>4 DEF AtPath, Awaited, MissingLocked, DeadUnseen, Stored, Critical
<1>6. Saved'
  BY <1>1, <1>3, <1>4 DEF Saved, SavedAt, Stored
<1>7. path # NoFile /\ (Orphan \/ Pending) => Orphan' \/ Pending'
  <2> SUFFICES ASSUME path # NoFile, Orphan \/ Pending PROVE Orphan' \/ Pending'
    OBVIOUS
  <2>1. CASE Orphan
    BY <1>1, <1>3, <1>4, <2>1 DEF Orphan
  <2>2. ASSUME NEW q \in Programs \ {p}, ~lost[q] /\ changed[q] /\ pc[q] \in {"used", "closing"}
        PROVE  Pending'
    BY <1>1, <1>3, <2>2 DEF Pending
  <2>3. CASE ~lost[p] /\ changed[p] /\ pc[p] \in {"used", "closing"}
    <3>1. pc[p] = "used"
      BY <1>2, <2>3 DEF Critical
    <3> QED
      BY <1>1, <1>3, <1>4, <2>3, <3>1, OneOwnerAtPath DEF Orphan
  <2> QED
    BY <2>1, <2>2, <2>3 DEF Pending
<1>8. Noticed'
  BY <1>1, <1>3, <1>4, <1>7 DEF Noticed, Stored
<1> QED
  BY <1>5, <1>6, <1>8

\* Whoever has the file that is removed has lost it.
LEMMA NoticeTimeout ==
    ASSUME NoticeInv, LockInv', NEW p \in Programs, pc[p] = "waiting", Alone(p), Timeout(p),
           ~Interrupted
    PROVE  NoticeInv'
<1> USE DEF NoticeInv
<1>1. TypeOK /\ ~sure[p] /\ \A q \in Programs \ {p} : ~Critical(q)
  BY DEF LockInv, NeverSure, Alone
<1>2. path # NoFile
  BY <1>1 DEF Awaited, Critical
<1>3. /\ path' = NoFile /\ UNCHANGED <<at, seen>>
      /\ pc'[p] = "found" /\ \A q \in Programs \ {p} : pc'[q] = pc[q]
  BY <1>1, <1>2 DEF Timeout, Found, Goto, TypeOK, memVars
<1>4. \A q \in Programs : lost'[q] = (lost[q] \/ at[q] = path)
  BY <1>2 DEF Timeout, Owners
<1>5. \A q \in Programs : at[q] # NoFile => lost'[q]
  BY <1>4 DEF AtPath
<1>6. \A q \in Programs : pc[q] \in {"used", "closing", "signalled"} => lost'[q]
  BY <1>1, <1>5 DEF TypeOK, Critical
<1>7. AtPath' /\ Noticed' /\ MissingLocked' /\ Saved' /\ Awaited' /\ DeadUnseen'
  BY <1>3, <1>5, <1>6 DEF AtPath, Noticed, MissingLocked, Saved, Awaited, DeadUnseen
<1> QED
  BY <1>7

\* Open keeps the invariant of the notices.
LEMMA NoticeOpen ==
    ASSUME NoticeInv, LockInv', NEW p \in Programs, NEW i \in Inodes, Open(p, i),
           pc[p] = "found", Alone(p), ~Interrupted,
           i = path \/ (path = NoFile /\ i \notin InUse(path, at))
    PROVE  NoticeInv'
<1> USE DEF NoticeInv
<1>1. /\ TypeOK /\ i # NoFile /\ \A q \in Programs \ {p} : ~Critical(q)
      /\ path = NoFile \/ ~file[path].locked
  BY NoFileIsNoInode DEF LockInv, Alone, FoundFree
<1>2. /\ path' = i /\ at'[p] = i /\ pc'[p] = "open" /\ UNCHANGED <<orig, seen, changed>>
      /\ ~lost'[p]
      /\ \A q \in Programs \ {p} : pc'[q] = pc[q] /\ at'[q] = at[q] /\ lost'[q] = lost[q]
  BY <1>1 DEF Open, Goto, TypeOK, memVars
<1>3. file'[i].locked /\ file'[i].value = file[i].value
  <2>1. file \in [Inodes -> FileType]
    BY <1>1, TypeParts DEF FilesType
  <2> QED
    BY <2>1, LockedFile DEF Open, Locked
<1>4. \A q \in Programs : pc[q] \in {"open", "used"} => lost[q]
  BY <1>1, OneOwnerAtPath
<1>5. \A q \in Programs : /\ at[q] # NoFile => lost[q] /\ at[q] # i
                          /\ q # p => pc[q] \notin {"closing", "signalled"}
  <2>1. \A q \in Programs : at[q] # NoFile => lost[q] /\ at[q] # path
    BY <1>1, <1>4 DEF TypeOK, AtPath
  <2> QED
    BY <1>1, <2>1 DEF Critical, InUse
<1>6. AtPath' /\ Awaited' /\ MissingLocked' /\ Saved' /\ DeadUnseen'
  <2>1. AtPath'
    BY <1>2, <1>5 DEF AtPath
  <2>2. Awaited' /\ MissingLocked' /\ DeadUnseen'
    BY <1>1, <1>2, <1>3 DEF Awaited, MissingLocked, DeadUnseen, Stored
  <2>3. Saved'
    BY <1>2, <1>4, <1>5 DEF Saved
  <2> QED
    BY <2>1, <2>2, <2>3
<1>7. Noticed'
  <2>1. CASE path # NoFile
    <3>1. i = path /\ ~Orphan /\ ~Pending /\ Stored' = Stored
      BY <1>1, <1>2, <1>3, <1>4, <1>5, <2>1 DEF Orphan, Pending, Stored
    <3> QED
      BY <1>1, <1>2, <2>1, <3>1 DEF Noticed
  <2>2. CASE path = NoFile
    <3>1. file[i] = Empty
      BY <1>1, <2>2 DEF LockInv, UnusedEmpty
    <3>2. Stored' = NoValue
      BY <1>2, <1>3, <3>1 DEF Stored, Empty
    <3> QED
      BY <3>2 DEF Noticed
  <2> QED
    BY <2>1, <2>2
<1> QED
  BY <1>6, <1>7

\* Use keeps the invariant of the notices.
LEMMA NoticeUse ==
    ASSUME NoticeInv, LockInv', NEW p \in Programs, Use(p), ~Interrupted PROVE NoticeInv'
<1> USE DEF NoticeInv
<1>1. TypeOK /\ pc[p] = "open" /\ \A q \in Programs \ {p} : ~Critical(q)
  BY DEF LockInv, Use, Alone
<1>2. at[p] \in Inodes /\ file \in [Inodes -> FileType]
  BY <1>1, TypeParts DEF ProgramType, FilesType
<1>3. PICK v \in Values, b \in BOOLEAN : Used(p, v, b) /\ (b \/ v = file[at[p]].value)
  BY <1>1, UseUses, TypeParts
<1>4. /\ UNCHANGED <<path, at, seen, lost>> /\ pc'[p] = "used" /\ orig'[p] = v /\ changed'[p] = b
      /\ \A q \in Programs \ {p} : /\ pc'[q] = pc[q] /\ orig'[q] = orig[q]
                                    /\ changed'[q] = changed[q]
  BY <1>1, <1>3 DEF Use, Used, Goto, TypeOK
<1>5. /\ file'[at[p]].value = v /\ file'[at[p]].locked = file[at[p]].locked
      /\ \A j \in Inodes : j # at[p] => file'[j] = file[j]
  BY <1>2, <1>3, WrittenFile DEF Used
<1>6. CASE lost[p]
  <2>1. path # NoFile => file'[path] = file[path]
    BY <1>1, <1>2, <1>5, <1>6, NoFileIsNoInode DEF AtPath, TypeOK
  <2> QED
    BY <1>1, <1>4, <1>6, <2>1, NoticeLost
<1>7. CASE ~lost[p]
  <2>1. /\ at[p] = path /\ path # NoFile
        /\ \A q \in Programs \ {p} :
              pc[q] \in {"open", "used", "closing", "signalled"} => lost[q]
    BY <1>1, <1>7, OneOwnerAtPath DEF Critical
  <2>2. v # NoValue /\ Stored' = v
    BY <1>4, <1>5, <2>1, SharedPrefsAssumption DEF Stored
  <2>3. AtPath' /\ Awaited' /\ MissingLocked' /\ DeadUnseen'
    BY <1>4, <2>1, <2>2 DEF AtPath, Awaited, MissingLocked, DeadUnseen
  <2>4. Saved'
    BY <1>4, <2>1, <2>2 DEF Saved, SavedAt
  <2>5. Noticed'
    <3>1. CASE b
      <4>1. Pending'
        BY <1>4, <1>7, <3>1 DEF Pending
      <4> QED
        BY <4>1 DEF Noticed
    <3>2. CASE v = file[at[p]].value
      <4>1. ~Orphan /\ ~Pending /\ v = Stored
        BY <1>1, <2>1, <3>2 DEF Orphan, Pending, Stored
      <4> QED
        BY <1>4, <2>1, <2>2, <4>1 DEF Noticed
    <3> QED
      BY <1>3, <3>1, <3>2
  <2> QED
    BY <2>3, <2>4, <2>5
<1> QED
  BY <1>6, <1>7

\* Close keeps the invariant of the notices.
LEMMA NoticeClose ==
    ASSUME NoticeInv, LockInv', NEW p \in Programs, Close(p), ~Interrupted PROVE NoticeInv'
<1> USE DEF NoticeInv
<1> DEFINE g == Returned(file, at[p])
<1>1. TypeOK /\ pc[p] = "used" /\ \A q \in Programs \ {p} : ~Critical(q)
  BY DEF LockInv, Close, Alone
<1>2. at[p] \in Inodes /\ file \in [Inodes -> FileType] /\ path \in Inodes \cup {NoFile}
  BY <1>1, TypeParts DEF ProgramType, FilesType
<1>3. /\ UNCHANGED <<path, seen, orig, changed, lost>> /\ pc'[p] = "closing" /\ at'[p] = NoFile
      /\ \A q \in Programs \ {p} : pc'[q] = pc[q] /\ at'[q] = at[q]
      /\ file' = Kept(g, path, at')
  BY <1>1 DEF Close, Goto, TypeOK, memVars, Returned
<1>4. /\ g \in [Inodes -> FileType] /\ g[at[p]].value = file[at[p]].value
      /\ \A j \in Inodes : j # at[p] => g[j] = file[j]
  BY <1>2, GivenBack
<1> HIDE DEF g
<1>5. path # NoFile => file'[path] = g[path]
  BY <1>2, <1>3, <1>4, KeptFiles DEF InUse
<1>6. CASE lost[p]
  <2>1. path # NoFile => file'[path] = file[path]
    BY <1>1, <1>2, <1>4, <1>5, <1>6, NoFileIsNoInode DEF AtPath, TypeOK
  <2> QED
    BY <1>1, <1>3, <1>6, <2>1, NoticeLost
<1>7. CASE ~lost[p]
  <2>1. /\ at[p] = path /\ path # NoFile
        /\ \A q \in Programs \ {p} :
              /\ at[q] # path
              /\ pc[q] \in {"open", "used", "closing", "signalled"} => lost[q]
    BY <1>1, <1>7, OneOwnerAtPath DEF Critical
  <2>2. Stored' = Stored
    BY <1>3, <1>4, <1>5, <2>1 DEF Stored
  <2>3. AtPath' /\ Awaited' /\ DeadUnseen'
    BY <1>3, <2>1 DEF AtPath, Awaited, DeadUnseen
  <2>4. Saved' /\ MissingLocked'
    BY <1>1, <1>3, <1>7, <2>1, <2>2 DEF Saved, SavedAt, MissingLocked
  <2>5. Noticed'
    <3>1. ~Orphan /\ (Pending => Pending')
      BY <1>1, <1>3, <2>1 DEF Orphan, Pending
    <3> QED
      BY <1>1, <1>3, <2>1, <2>2, <3>1 DEF Noticed
  <2> QED
    BY <2>3, <2>4, <2>5
<1> QED
  BY <1>6, <1>7

\* Signal keeps the invariant of the notices.
LEMMA NoticeSignal ==
    ASSUME NoticeInv, LockInv', NEW p \in Programs, Signal(p), ~SameSecond PROVE NoticeInv'
<1> USE DEF NoticeInv
<1>1. /\ UNCHANGED <<path, file, at, orig, lost>> /\ pc[p] = "closing" /\ pc'[p] = "signalled"
      /\ \A q \in Programs \ {p} : pc'[q] = pc[q] /\ changed'[q] = changed[q]
  BY DEF Signal, Goto, fileVars, LockInv, TypeOK
<1>2. (\A q \in Programs : ~seen'[q]) \/ (~changed[p] /\ seen' = seen)
  BY DEF Signal
<1>3. AtPath' /\ Awaited' /\ MissingLocked' /\ Saved' /\ DeadUnseen'
  BY <1>1, <1>2 DEF AtPath, Awaited, MissingLocked, Saved, SavedAt, Stored, DeadUnseen
<1>4. ~changed[p] => (Pending => Pending') /\ Orphan' = Orphan
  BY <1>1 DEF Pending, Orphan
<1>5. Noticed'
  BY <1>1, <1>2, <1>4 DEF Noticed, Stored
<1> QED
  BY <1>3, <1>5

\* Save keeps the invariant of the notices.
LEMMA NoticeSave ==
    ASSUME NoticeInv, LockInv', NEW p \in Programs, Save(p) PROVE NoticeInv'
<1> USE DEF NoticeInv
<1>1. /\ UNCHANGED <<path, file, at, orig, changed, lost>> /\ pc[p] = "signalled" /\ pc'[p] = "idle"
      /\ \A q \in Programs \ {p} : pc'[q] = pc[q] /\ seen'[q] = seen[q]
  BY DEF Save, Goto, fileVars, LockInv, TypeOK
<1>2. AtPath' /\ Awaited' /\ MissingLocked' /\ Saved' /\ DeadUnseen'
  BY <1>1 DEF AtPath, Awaited, MissingLocked, Saved, SavedAt, Stored, DeadUnseen
<1>3. (Pending => Pending') /\ Orphan' = Orphan
  BY <1>1 DEF Pending, Orphan
<1>4. lost[p] \/ SavedAt(p)
  BY <1>1 DEF Saved
<1>5. Noticed'
  BY <1>1, <1>3, <1>4 DEF Noticed, SavedAt, Stored
<1> QED
  BY <1>2, <1>5

\* What is assumed of the programs' timing, and how the settings' file is opened.
InTime == ~Interrupted /\ ~SameSecond /\ Action # "kFailIfOpen"

\* Every step keeps the invariant of the notices.
LEMMA NoticeStep == ASSUME InTime PROVE NoticeInv /\ [Next]_vars => NoticeInv'
<1> SUFFICES ASSUME NoticeInv, [Next]_vars PROVE NoticeInv'
  OBVIOUS
<1>1. ~Interrupted /\ ~SameSecond /\ Action # "kFailIfOpen"
  BY DEF InTime
<1>2. LockInv /\ LockInv' /\ TypeOK /\ NeverSure
  BY <1>1, LockStep DEF NoticeInv, LockInv
<1>3. \A p \in Programs : \A x : Goto(p, x) =>
          pc'[p] = x /\ \A q \in Programs \ {p} : pc'[q] = pc[q]
  BY <1>2 DEF TypeOK, Goto
<1>4. ASSUME NEW p \in Programs, Start(p) PROVE NoticeInv'
  <2>1. /\ UNCHANGED <<path, file, at, seen, orig, changed>> /\ pc[p] = "dead"
        /\ lost' = [lost EXCEPT ![p] = FALSE]
        /\ pc'[p] = "checking" /\ \A q \in Programs \ {p} : pc'[q] = pc[q]
    BY <1>3, <1>4 DEF Start, fileVars
  <2> QED
    BY <1>2, <2>1, NoticeQuiet
<1>5. ASSUME NEW p \in Programs, Change(p) PROVE NoticeInv'
  BY <1>2, <1>5, NoticeQuiet DEF Change, fileVars, pcVars
<1>6. ASSUME NEW p \in Programs, Update(p) PROVE NoticeInv'
  <2>1. /\ UNCHANGED <<path, file, at, seen, orig, changed, lost>> /\ pc[p] = "idle"
        /\ pc'[p] \in {"idle", "checking"} /\ \A q \in Programs \ {p} : pc'[q] = pc[q]
    BY <1>3, <1>6 DEF Update, fileVars, memVars
  <2> QED
    BY <1>2, <2>1, NoticeQuiet
<1>7. ASSUME NEW p \in Programs, Check(p) PROVE NoticeInv'
  <2>1. /\ UNCHANGED <<path, file, at, seen, orig, changed, lost>> /\ pc[p] = "checking"
        /\ pc'[p] = "found" \/ (pc'[p] = "waiting" /\ path # NoFile)
        /\ \A q \in Programs \ {p} : pc'[q] = pc[q]
    BY <1>1, <1>3, <1>7 DEF Check, Found, Wait, fileVars, memVars
  <2> QED
    BY <1>2, <2>1, NoticeQuiet
<1>8. ASSUME NEW p \in Programs, Retry(p) PROVE NoticeInv'
  <2>1. pc[p] = "waiting" /\ Alone(p)
    BY <1>8 DEF Retry
  <2>2. CASE Found(p) /\ UNCHANGED <<fileVars, lost>>
    <3>1. /\ UNCHANGED <<path, file, at, seen, orig, changed, lost>>
          /\ pc'[p] = "found" /\ \A q \in Programs \ {p} : pc'[q] = pc[q]
      BY <1>3, <2>2 DEF Found, fileVars, memVars
    <3> QED
      BY <1>2, <2>1, <3>1, NoticeQuiet
  <2>3. CASE UNCHANGED <<fileVars, pc, why, at, sure, memVars, lost>>
    BY <1>2, <2>1, <2>3, NoticeQuiet DEF fileVars, memVars
  <2>4. CASE Timeout(p)
    BY <1>1, <1>2, <2>1, <2>4, NoticeTimeout
  <2> QED
    BY <1>8, <2>2, <2>3, <2>4 DEF Retry
<1>9. ASSUME NEW p \in Programs, Build(p) PROVE NoticeInv'
  <2>1. pc[p] = "found" /\ Alone(p) /\ ~sure[p] /\ (path = NoFile \/ ~file[path].locked)
    BY <1>2, <1>9 DEF Build, NeverSure, LockInv, FoundFree
  <2>2. CASE path = NoFile
    <3>1. PICK i \in Inodes \ InUse(path, at) : Open(p, i)
      BY <1>9, <2>1, <2>2 DEF Build
    <3> QED
      BY <1>1, <1>2, <2>1, <2>2, <3>1, NoticeOpen
  <2>3. CASE path # NoFile
    <3>1. Open(p, path) /\ path \in Inodes
      BY <1>2, <1>9, <2>1, <2>3 DEF Build, TypeOK
    <3> QED
      BY <1>1, <1>2, <2>1, <3>1, NoticeOpen
  <2> QED
    BY <2>2, <2>3
<1>10. CASE UNCHANGED vars
  BY <1>2, <1>10 DEF vars, fileVars, pcVars, memVars, NoticeInv, AtPath, Awaited, Noticed,
       Orphan, Pending, Saved, SavedAt, MissingLocked, Stored, DeadUnseen
<1> QED
  BY <1>1, <1>2, <1>4, <1>5, <1>6, <1>7, <1>8, <1>9, <1>10,
     NoticeDie, NoticeUse, NoticeClose, NoticeSignal, NoticeSave DEF Next, Program

\* A program that is up to date has the settings that are stored.
LEMMA NoticeEnough == NoticeInv => UpToDate
<1> SUFFICES ASSUME NoticeInv, NEW p \in Programs, pc[p] = "idle", seen[p], mem[p] = orig[p], ~lost[p],
                    path # NoFile, ~file[path].locked, \A q \in Programs : ~Critical(q)
             PROVE  Stored = mem[p]
  BY DEF UpToDate, Stored
<1>1. Stored # NoValue /\ ~Orphan
  BY DEF NoticeInv, MissingLocked, Orphan
<1>2. ~Pending
  BY OneOwnerAtPath DEF Pending, Critical
<1> QED
  BY <1>1, <1>2 DEF NoticeInv, Noticed

\* A program that has seen the last signal and has written what it changed uses the
\* setting in the file: notices are neither missed nor given too early, whoever
\* loses the file to one that waited too long.
THEOREM UpToDateAlways == ASSUME InTime PROVE Spec => []UpToDate
<1>1. Spec => []NoticeInv
  BY NoticeInit, NoticeStep, PTL DEF Spec
<1>2. NoticeInv => UpToDate
  BY NoticeEnough
<1> QED
  BY <1>1, <1>2, PTL
=============================================================================
