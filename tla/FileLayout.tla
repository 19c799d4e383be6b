----------------------------- MODULE FileLayout -----------------------------
(***************************************************************************)
(* JFileArray and JFileArrayIndex (libjcore/code/JFileArray.cpp,           *)
(* JFileArrayIndex.cpp): an array kept in a file.                          *)
(*                                                                         *)
(*   header | size data | size data | ...  | index                         *)
(*                                                                         *)
(* The header and the index are in memory while the file is open; on disk  *)
(* there is only room for them.  An element can hold a whole file of the   *)
(* same kind: an embedded file, which uses the stream of the base file and *)
(* has its length changed by changing the size of its element.             *)
(*                                                                         *)
(* The disk is a sequence of cells.  A cell is the header, an entry of the *)
(* index, the size of an element or a byte of its data.  Offsets count     *)
(* from 0, from the start of the file that they are about.                 *)
(***************************************************************************)
EXTENDS Naturals, Sequences, SequencesExt, FiniteSetsExt

CONSTANTS
    Files, Base,       \* the files; Base is the one on disk
    EnclosedBy,        \* in which file each other file is embedded
    FileID,            \* in the element with this ID
    Data,              \* what is stored in elements: sequences of bytes
    MaxElements,       \* bound: elements of a file
    FlushChanges,      \* itsFlushChangesFlag
    EmbeddedCrash,     \* may the program die when there have been embedded files?
    MaxTempMem         \* maxTempMem: how much is moved at a time

ASSUME FileLayoutAssumption ==
    /\ Base \in Files /\ EnclosedBy \in [Files \ {Base} -> Files]
    /\ FileID \in Nat /\ MaxElements \in Nat
    /\ \A x \in Data : Len(x) > 0 /\ x \in Seq(Range(x))
    /\ MaxTempMem \in Nat \ {0} /\ {FlushChanges, EmbeddedCrash} \subseteq BOOLEAN

HeaderLength == 1      \* kFileHeaderLength
SizeLength   == 1      \* kElementSizeLength

VARIABLES
    disk,       \* [cells: the disk, index: itsFileIndex and end: itsIndexOffset of
                \*  each open file, ok: no assertion has failed]
    open        \* the open files, and those embedded in them, in this order

layoutVars == <<disk, open>>

Zero    == <<"zero">>
Bytes(x) == <<>> \o [k \in DOMAIN x |-> <<"byte", x[k]>>]
Entry(offset, id, type) == [offset |-> offset, id |-> id, type |-> type]

Entries == [offset : Nat, id : Nat, type : {"data", "file"}]
Cells   == {Zero} \cup {"byte"} \X ({0} \cup UNION {Range(x) : x \in Data}) \cup {"size"} \X Nat
                \cup {"header"} \X Nat \X Nat \cup {"entry"} \X Entries
Disks   == [cells : Seq(Cells), index : [Files -> Seq(Entries)], end : [Files -> Nat], ok : BOOLEAN]

IDToIndex(d, f, id) == {i \in DOMAIN d.index[f] : d.index[f][i].id = id}
ElementOf(d, g)     == CHOOSE i \in IDToIndex(d, EnclosedBy[g], FileID) : TRUE
IsOpen(f) == f \in Range(open)
Asserted(d, p) == [d EXCEPT !.ok = @ /\ p]

-----------------------------------------------------------------------------
(* The stream.                                                             *)

Cell(d, at) == IF at < Len(d.cells) THEN d.cells[at + 1] ELSE Zero

\* GetStartOfFile
StartOf(d, f) ==
    IF f = Base THEN 0 ELSE d.index[EnclosedBy[f]][ElementOf(d, f)].offset + SizeLength

\* GetElementSize
SizeOf(d, f, i) ==
    LET c == Cell(d, StartOf(d, f) + d.index[f][i].offset)
    IN  IF c[1] = "size" THEN c[2] ELSE 0

\* GetFileLength
LengthOf(d, f) == IF f = Base THEN Len(d.cells) ELSE SizeOf(d, EnclosedBy[f], ElementOf(d, f))

\* The cells of the disk in front of "to"; what was never written is zero.
Front0(d, to) == SubSeq(d.cells \o [k \in 1 .. to |-> Zero], 1, to)

\* Offset "at" is in file f, and the next n cells are on the disk.
Fits(d, f, at, n) == at <= LengthOf(d, f) /\ StartOf(d, f) + at + n <= Len(d.cells)

\* What GetStartOfFile and GetFileLength assert: the element of f is there and its
\* size can be read, and so on for the files around it.
Reached(d, f) ==
    LET reached[g \in Files] ==
            g # Base =>
                /\ IDToIndex(d, EnclosedBy[g], FileID) # {} /\ reached[EnclosedBy[g]]
                /\ Fits(d, EnclosedBy[g],
                        d.index[EnclosedBy[g]][ElementOf(d, g)].offset, SizeLength)
    IN  reached[f]

\* What SetReadWriteMark asserts, before a write and before a read; and that the read
\* does not run into the end of the disk.
Marked(d, f, at)      == Reached(d, f) /\ at <= LengthOf(d, f)
Readable(d, f, at, n) == Reached(d, f) /\ Fits(d, f, at, n)

SizeReadable(d, f, i) == Readable(d, f, d.index[f][i].offset, SizeLength)

ReadCells(d, f, at, n) ==
    LET from == StartOf(d, f) + at IN SubSeq(Front0(d, from + n), from + 1, from + n)

\* SetReadWriteMark and write.
WriteCells(d, f, at, data) ==
    LET from == StartOf(d, f) + at
        to   == from + Len(data)
    IN  [Asserted(d, Marked(d, f, at)) EXCEPT !.cells =
            Front0(d, from) \o data \o SubSeq(@, to + 1, Len(@))]

-----------------------------------------------------------------------------
(* Making room and closing it.                                             *)

\* The blocks that ExpandData moves to make room at offset "at", the last one
\* first: where each starts and how long it is.
BlocksDown(at, total) ==
    LET n == (total - at + MaxTempMem - 1) \div MaxTempMem
    IN  [k \in 1 .. n |-> IF k < n THEN <<total - k * MaxTempMem, MaxTempMem>>
                          ELSE <<at, total - at - (n - 1) * MaxTempMem>>]

\* Faulty variant: the last block is moved first, as in ExpandData.
BlocksUpBackwards(from, total) ==
    LET n == (total - from + MaxTempMem - 1) \div MaxTempMem
    IN  [k \in 1 .. n |->
            <<from + (n - k) * MaxTempMem, Min({MaxTempMem, total - from - (n - k) * MaxTempMem})>>]

\* The blocks that CompactData moves, the first one first.
BlocksUp(from, total) ==
    [k \in 1 .. (total - from + MaxTempMem - 1) \div MaxTempMem |->
        <<from + (k - 1) * MaxTempMem, Min({MaxTempMem, total - from - (k - 1) * MaxTempMem})>>]

\* Read each block, and write it farther up or down.
MoveBlocks(d, f, blocks, up, down) ==
    LET moved[k \in 0 .. Len(blocks)] ==
            IF k = 0 THEN d
            ELSE LET e == moved[k - 1]
                     b == blocks[k]
                 IN  WriteCells(Asserted(e, Readable(e, f, b[1], b[2])), f, b[1] + up - down,
                                ReadCells(e, f, b[1], b[2]))
    IN  moved[Len(blocks)]

ExpandData(d, f, at, room) ==
    LET total == d.end[f]
        e     == [Asserted(d, at <= total) EXCEPT !.end[f] = total + room]
    IN  IF at = total \/ room = 0 THEN e ELSE MoveBlocks(e, f, BlocksDown(at, total), room, 0)

CompactData(d, f, at, blank) ==
    LET total == d.end[f]
        e     == [Asserted(d, at < total /\ at + blank <= total) EXCEPT !.end[f] = total - blank]
    IN  IF at + blank = total \/ blank = 0 THEN e
        ELSE MoveBlocks(e, f, BlocksUp(at + blank, total), 0, blank)

\* The elements that are stored behind element i.
StoredBehind(d, f, i) == {j \in DOMAIN d.index[f] : d.index[f][j].offset > d.index[f][i].offset}

\* ElementSizeChanged: they have moved.  No offset may become negative.
ElementResized(d, f, i, old, new) ==
    [Asserted(d, \A j \in StoredBehind(d, f, i) : d.index[f][j].offset + new >= old)
        EXCEPT !.index[f] = <<>> \o [j \in DOMAIN @ |->
        IF d.index[f][j].offset > d.index[f][i].offset
        THEN [d.index[f][j] EXCEPT !.offset = @ + new - old] ELSE d.index[f][j]]]

\* The space behind the size of element i is made longer or shorter; SetLength is the
\* function that sets the length of the file.
RoomFor(d, f, i, new, SetLength) ==
    LET old == SizeOf(d, f, i)
        at  == d.index[f][i].offset + SizeLength
        c   == CompactData(d, f, at + new, old - new)
    IN  IF new > old
        THEN ExpandData(SetLength[Asserted(d, Reached(d, f))][LengthOf(d, f) + new - old],
                        f, at + old, new - old)
        ELSE SetLength[Asserted(c, Reached(c, f))][LengthOf(c, f) - (old - new)]

\* SetElementSize, but for the assertion of GetElementSize
Resized(d, f, i, new, SetLength) ==
    IF new = SizeOf(d, f, i) THEN d
    ELSE LET e == WriteCells(RoomFor(d, f, i, new, SetLength), f, d.index[f][i].offset,
                             <<<<"size", new>>>>)
         IN  ElementResized(e, f, i, SizeOf(d, f, i), new)

\* The length of an embedded file is the size of its element.
SetFileLength[f \in Files] ==
    [d \in Disks |-> [n \in Nat |->
        IF f = Base THEN [d EXCEPT !.cells = Front0(d, n)]
        ELSE Resized(Asserted(d, Reached(d, f)), EnclosedBy[f], ElementOf(d, f), n,
                     SetFileLength[EnclosedBy[f]])]]

SetElementSize(d, f, i, new) ==
    Resized(Asserted(d, SizeReadable(d, f, i)), f, i, new, SetFileLength[f])

-----------------------------------------------------------------------------
(* The header and the index.                                               *)

IndexLength(d, f) == Len(d.index[f])

\* FlushChanges: the header, and the index behind the elements.
Flush(d, f) ==
    WriteCells(WriteCells(d, f, 0, <<<<"header", Len(d.index[f]), d.end[f]>>>>),
          f, d.end[f], [i \in DOMAIN d.index[f] |-> <<"entry", d.index[f][i]>>])

\* What the reading of the header and of the index asserts at its end: that no read
\* ran into the end of the disk, and that what was read are entries.
HeaderReadable(d, f) ==
    /\ Readable(d, f, 0, HeaderLength)
    /\ LET h == ReadCells(d, f, 0, 1)[1]
       IN  /\ h[1] = "header" /\ Readable(d, f, h[3], h[2])
           /\ \A i \in 1 .. h[2] : ReadCells(d, f, h[3], h[2])[i][1] = "entry"

\* ReadElementCount, ReadIndexOffset and ReadIndex.
ReadHeader(d, f) ==
    LET h == ReadCells(d, f, 0, 1)[1]
        e == ReadCells(d, f, h[3], h[2])
    IN  [d EXCEPT !.end[f] = h[3], !.index[f] = [i \in 1 .. h[2] |-> e[i][2]]]

\* FileArrayX for a new file.  The header is written, and there is no index.
NewFile(d, f) ==
    LET e == [d EXCEPT !.index[f] = <<>>, !.end[f] = HeaderLength]
    IN  Flush(SetFileLength[f][e][HeaderLength], f)

-----------------------------------------------------------------------------
(* The operations on an open file.                                         *)

\* Faulty variant: the number of elements so far is not looked up.
UniqueIDCounted(d, f) == Len(d.index[f]) + 1

\* GetUniqueID
UniqueID(d, f) ==
    IF d.index[f] = <<>> THEN 1
    ELSE Min({id \in Len(d.index[f]) + 1 .. 2 * Len(d.index[f]) + 1 : IDToIndex(d, f, id) = {}})

\* InsertElementAtIndex: the data goes to the end, wherever the element is in the list.
Inserted(d, f, i, x) ==
    LET at == d.end[f]
        e  == [d EXCEPT !.index[f] = InsertAt(@, i, Entry(at, UniqueID(d, f), "data")),
                        !.end[f]   = @ + SizeLength + Len(x)]
    IN  WriteCells(SetFileLength[f][e][e.end[f] + IndexLength(e, f)], f, at,
              <<<<"size", Len(x)>>>> \o Bytes(x))

Changed(d, f, i, x) ==
    LET e == SetElementSize(d, f, i, Len(x))
    IN  WriteCells(e, f, e.index[f][i].offset,
              <<<<"size", Len(x)>>>> \o Bytes(x))

\* Faulty variant: the file is shortened before the elements are moved.
RemovedEarly(d, f, i) ==
    LET size == SizeLength + SizeOf(d, f, i)
        c    == CompactData(SetFileLength[f][d][LengthOf(d, f) - size - 1], f, d.index[f][i].offset, size)
        e    == ElementResized(c, f, i, size, 0)
    IN  [e EXCEPT !.index[f] = RemoveAt(@, i)]

Removed(d, f, i) ==
    LET size == SizeLength + SizeOf(d, f, i)
        c    == CompactData(d, f, d.index[f][i].offset, size)
        e    == ElementResized(c, f, i, size, 0)
        r    == [e EXCEPT !.index[f] = RemoveAt(@, i)]
    IN  SetFileLength[f][r][r.end[f] + IndexLength(r, f)]

\* After an operation the file is flushed if the application wants it.
Finished(d, f) == IF FlushChanges THEN Flush(d, f) ELSE d
Done(d, f)     == disk' = Finished(d, f) /\ UNCHANGED open

\* The size and the data are read; this changes nothing, if they are there.
GetElement(f, i) ==
    /\ disk.index[f][i].type = "data"
    /\ disk' = Asserted(disk, SizeReadable(disk, f, i) /\
                    Readable(disk, f, disk.index[f][i].offset, SizeLength + SizeOf(disk, f, i)))
    /\ UNCHANGED open

InsertElement(f, i, x) ==
    /\ Len(disk.index[f]) < MaxElements
    /\ Done(Inserted(disk, f, i, x), f)

SetElement(f, i, x) ==
    /\ disk.index[f][i].type = "data"
    /\ Done(Changed(disk, f, i, x), f)

\* Not an element whose file is open.
RemoveElement(f, i) ==
    /\ disk.index[f][i].type = "data"
          \/ \A g \in Files \ {Base} : EnclosedBy[g] = f => ~IsOpen(g)
    /\ Done(Removed(Asserted(disk, SizeReadable(disk, f, i)), f, i), f)

MoveElementToIndex(f, i, j) ==
    /\ i # j
    /\ Done([disk EXCEPT !.index[f] = InsertAt(RemoveAt(disk.index[f], i), j, disk.index[f][i])], f)

SwapElements(f, i, j) ==
    /\ i # j
    /\ Done([disk EXCEPT !.index[f][i] = disk.index[f][j], !.index[f][j] = disk.index[f][i]], f)

-----------------------------------------------------------------------------
(* Opening and closing.                                                    *)

OpenBase ==
    /\ open = <<>>
    /\ disk' = IF disk.cells = <<>> THEN NewFile(disk, Base)
             ELSE ReadHeader(Asserted(disk, HeaderReadable(disk, Base)), Base)
    /\ open' = <<Base>>

\* The element of file g is there and is a file (asserted by EmbeddedFileOpened and
\* EmbeddedFileClosed); no other element has its ID (asserted by SetElementID).
HasPlace(d, g) == /\ IDToIndex(d, EnclosedBy[g], FileID) = {ElementOf(d, g)}
                  /\ d.index[EnclosedBy[g]][ElementOf(d, g)].type = "file"

\* An element that holds something else is not opened.
OKToCreateEmbedded(g) ==
    \A i \in IDToIndex(disk, EnclosedBy[g], FileID) : disk.index[EnclosedBy[g]][i].type = "file"

\* OpenEmbeddedFile: the element is appended, of one byte, if it is not there, and is
\* made a file afterwards.
OpenEmbedded(g) ==
    LET f == EnclosedBy[g]
        n == Len(disk.index[f]) + 1
        d == Finished(Inserted(disk, f, n, <<0>>), f)
        e == [d EXCEPT !.index[f][n] = [@ EXCEPT !.id = FileID, !.type = "file"]]
    IN  /\ open # <<>> /\ Last(open) = f
        /\ OKToCreateEmbedded(g)
        /\ IF IDToIndex(disk, f, FileID) # {}
           THEN disk' = ReadHeader(Asserted(disk, HasPlace(disk, g) /\ HeaderReadable(disk, g)), g)
           ELSE /\ Len(disk.index[f]) < MaxElements
                /\ disk' = NewFile(Asserted(e, HasPlace(e, g)), g)
        /\ open' = Append(open, g)

\* The destructor; embedded files are closed first.
CloseFile ==
    /\ open # <<>>
    /\ LET f == Last(open)
           d == [Flush(disk, f) EXCEPT !.index[f] = <<>>, !.end[f] = 0]
       IN  disk' = Asserted(d, f # Base => HasPlace(d, f))
    /\ open' = Front(open)

\* The program dies between two operations; the header and index in memory are lost.
Crash ==
    /\ FlushChanges /\ open # <<>>
    /\ EmbeddedCrash \/ \A i \in DOMAIN disk.index[Base] : disk.index[Base][i].type = "data"
    /\ disk' = [disk EXCEPT !.index = [f \in Files |-> <<>>], !.end = [f \in Files |-> 0]]
    /\ open' = <<>>

LayoutInit ==
    /\ disk = [cells |-> <<>>, index |-> [f \in Files |-> <<>>],
               end |-> [f \in Files |-> 0], ok |-> TRUE]
    /\ open = <<>>

LayoutNext ==
    \/ OpenBase
    \/ \E g \in Files \ {Base} : OpenEmbedded(g)
    \/ CloseFile
    \/ Crash
    \/ \E f \in Range(open) :
          \/ \E x \in Data : \E i \in 1 .. Len(disk.index[f]) + 1 : InsertElement(f, i, x)
          \/ \E i \in DOMAIN disk.index[f] :
                \/ \E x \in Data : SetElement(f, i, x)
                \/ GetElement(f, i) \/ RemoveElement(f, i)
                \/ \E j \in DOMAIN disk.index[f] : MoveElementToIndex(f, i, j) \/ SwapElements(f, i, j)

LayoutSpec == LayoutInit /\ [][LayoutNext]_layoutVars

-----------------------------------------------------------------------------
(* Properties.                                                             *)

LayoutTypeOK ==
    /\ IsPrefix(open, <<Base>>) \/ (Head(open) = Base /\ \A k \in 2 .. Len(open) : EnclosedBy[open[k]] = open[k - 1])
    /\ \A f \in Files : ~IsOpen(f) => disk.index[f] = <<>>
    /\ \A f \in Files : \A i, j \in DOMAIN disk.index[f] :
          disk.index[f][i].id = disk.index[f][j].id => i = j

\* None of these assertions fails: the marks stay inside the file, for writes and for
\* reads, in the file and in those around it; no read runs into the end of the disk;
\* the room that is made and closed is inside the data, and no offset becomes
\* negative; a header and an index are read where they were written; and an embedded
\* file that is opened or closed has its element.
AssertionsHold == disk.ok

\* What can be read: the files that are not open are opened for it.
\* (Quantifying over sets of one member makes TLC evaluate it once.)
Only(S) == CHOOSE x \in S : TRUE

HasFile(d, f) == \E i \in IDToIndex(d, f, FileID) : d.index[f][i].type = "file"

Opened(d, o) ==
    LET file[f \in Files] ==
            IF f \in Range(o) \/ (f = Base /\ d.cells = <<>>) THEN d
            ELSE IF f = Base THEN ReadHeader(d, f)
            ELSE Only({IF HasFile(e, EnclosedBy[f]) THEN ReadHeader(e, f) ELSE e :
                       e \in {file[EnclosedBy[f]]}})
    IN  file

\* What is stored in element x, but for files.
DataOf(d, f, x) ==
    IF x.type = "file" THEN Bytes(<<0>>)
    ELSE ReadCells(d, f, x.offset + SizeLength, Cell(d, StartOf(d, f) + x.offset)[2])

Listed(d, f) ==
    <<>> \o [i \in DOMAIN d.index[f] |-> <<d.index[f][i].id, DataOf(d, f, d.index[f][i])>>]

ContentsIn(d, o) ==
    [f \in Files |-> Only({Listed(e, f) : e \in {Opened(d, o)[f]}})]

\* The bytes on the disk are the lists of elements that were asked for: every
\* element reads as it was last stored, also when others have grown, shrunk or gone
\* before it, in its file or around it, and after the file was closed and opened; and,
\* with itsFlushChangesFlag, after a crash.
Contents == INSTANCE FileOfElements WITH contents <- ContentsIn(disk, open),
                                         Data <- {Bytes(x) : x \in Data},
                                         Enclosed <- Bytes(<<0>>)
KeepsContents == Contents!Spec
=============================================================================
