--------------------------- MODULE FileOfElements ---------------------------
(***************************************************************************)
(* What JFileArray (libjcore/code/JFileArray.h) promises: files that are   *)
(* lists of elements, each with an ID that no other element of the file    *)
(* has.  The data of an element is whatever was stored last, and a file    *)
(* that is kept in an element of another one is part of that element.      *)
(***************************************************************************)
EXTENDS Naturals, Sequences, SequencesExt

CONSTANTS
    Files,
    Data,       \* what can be stored in an element
    Enclosed    \* what is in an element that holds a file

VARIABLE contents   \* of a file: its elements, each an ID and the data

IDs(s)      == {s[i][1] : i \in DOMAIN s}
Enclosing(s) == {s[i][1] : i \in {j \in DOMAIN s : s[j][2] = Enclosed}}

Init == contents = [f \in Files |-> <<>>]

\* One file changes, from s to t, by one operation on its elements.
InsertOne(s, t) == /\ Len(t) = Len(s) + 1
                   /\ \E i \in DOMAIN t : /\ RemoveAt(t, i) = s
                                          /\ t[i][1] \notin IDs(s)
                                          /\ t[i][2] \in Data \cup {Enclosed}
RemoveOne(s, t) == /\ Len(t) + 1 = Len(s)
                   /\ \E i \in DOMAIN s : t = RemoveAt(s, i)
SetOne(s, t)    == /\ Len(t) = Len(s)
                   /\ \E i \in DOMAIN s : /\ t[i][2] \in Data
                                          /\ t = [s EXCEPT ![i][2] = t[i][2]]
MoveOne(s, t)   == /\ Len(t) = Len(s)
                   /\ \E i, j \in DOMAIN s : t = InsertAt(RemoveAt(s, i), j, s[i])
SwapTwo(s, t)   == /\ Len(t) = Len(s)
                   /\ \E i, j \in DOMAIN s : t = [s EXCEPT ![i] = s[j], ![j] = s[i]]

\* The other files stay as they are, but for one in an element that is removed.
Operation(f, s, t) ==
    /\ InsertOne(s, t) \/ RemoveOne(s, t) \/ SetOne(s, t) \/ MoveOne(s, t) \/ SwapTwo(s, t)
    /\ \A g \in Files \ {f} :
          \/ contents'[g] = contents[g]
          \/ contents'[g] = <<>> /\ ~(Enclosing(s) \subseteq Enclosing(t))

Next == \E f \in Files : \E s \in {contents[f]}, t \in {contents'[f]} : Operation(f, s, t)

Spec == Init /\ [][Next]_contents
=============================================================================
