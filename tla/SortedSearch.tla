---------------------------- MODULE SortedSearch ----------------------------
(***************************************************************************)
(* JArray::SearchSorted1 (libjcore/code/JArray.tmpl): the binary search    *)
(* under InsertSorted, SearchSorted and Sort of every sorted array.        *)
(*                                                                         *)
(* The array may have repeated elements.  The caller asks for the first    *)
(* match, the last match or any match, in ascending or descending order;   *)
(* when there is no match the answer is where the target would have to be  *)
(* inserted.  Each comparison with an element of the array is a step.      *)
(***************************************************************************)
EXTENDS Integers, Sequences

CONSTANTS
    Arrays,   \* the arrays to search; the elements are numbers
    Targets   \* what to search for

ASSUME ArraysAssumption == Arrays \subseteq Seq(Int) /\ Targets \subseteq Int

VARIABLES
    array,      \* the array, sorted in the given order
    sortOrder,  \* itsSortOrder
    which,      \* the match to be returned
    target,
    firstIndex, lastIndex,  \* the bounds of the search
    r1, r2,     \* how the target compares with the elements at these two
    pc,         \* "first", "last", "bisect", "narrowed", "done", or "failed"
    found,      \* the result
    index

input      == <<array, sortOrder, which, target>>
searchVars == <<input, firstIndex, lastIndex, r1, r2, pc, found, index>>

size == Len(array)

Results == {"less", "equal", "greater"}

\* The comparison function.
Compare(x, y) == IF x < y THEN "less" ELSE IF x = y THEN "equal" ELSE "greater"

\* A target that compares so belongs in front of the element.
InFront(r) == (sortOrder = "ascending" /\ r = "less") \/ (sortOrder = "descending" /\ r = "greater")

\* A target that compares so belongs behind the element.
Behind(r) == (sortOrder = "ascending" /\ r = "greater") \/ (sortOrder = "descending" /\ r = "less")

InOrder(s, ord) ==
    \A i, j \in 1 .. Len(s) :
        i < j => IF ord = "ascending" THEN s[i] <= s[j] ELSE s[j] <= s[i]

\* Faulty variant: the low bits are lost.
MidpointEven(f, l) == (f \div 2) + (l \div 2)

\* Half of the sum without the sum, which could overflow.
Midpoint(f, l) == (f \div 2) + (l \div 2) + ((f % 2) + (l % 2)) \div 2

-----------------------------------------------------------------------------
SearchTypeOK ==
    /\ array \in Seq(Int)
    /\ sortOrder \in {"ascending", "descending"}
    /\ which \in {"firstMatch", "lastMatch", "anyMatch"}
    /\ target \in Int
    /\ pc \in {"first", "last", "bisect", "narrowed", "done", "failed"}
    /\ firstIndex \in Nat /\ lastIndex \in Nat /\ index \in Nat
    /\ r1 \in Results /\ r2 \in Results
    /\ found \in BOOLEAN

SearchInit ==
    /\ array \in Arrays
    /\ sortOrder \in {"ascending", "descending"}
    /\ InOrder(array, sortOrder)
    /\ which \in {"firstMatch", "lastMatch", "anyMatch"}
    /\ target \in Targets
    /\ pc = "first"
    /\ firstIndex = 1 /\ lastIndex = size /\ index = 0
    /\ r1 = "equal" /\ r2 = "equal"
    /\ found = FALSE

Answer(f, i) ==
    /\ pc' = "done"
    /\ found' = f
    /\ index' = i
    /\ UNCHANGED <<input, firstIndex, lastIndex, r1, r2>>

\* Faulty variant: any match at the front will do.
CheckFirstAny ==
    /\ pc = "first"
    /\ IF size = 0 THEN Answer(FALSE, 1)
       ELSE LET r == Compare(target, array[1]) IN
            IF r = "equal" THEN Answer(TRUE, 1)
            ELSE IF InFront(r) THEN Answer(FALSE, 1)
            ELSE IF size = 1 THEN Answer(FALSE, 2)
            ELSE /\ r1' = r
                 /\ pc' = "last"
                 /\ UNCHANGED <<input, firstIndex, lastIndex, r2, found, index>>

\* Check the first element.
CheckFirst ==
    /\ pc = "first"
    /\ IF size = 0 THEN Answer(FALSE, 1)
       ELSE LET r == Compare(target, array[1]) IN
            IF r = "equal" /\ (size = 1 \/ which # "lastMatch") THEN Answer(TRUE, 1)
            ELSE IF InFront(r) THEN Answer(FALSE, 1)
            ELSE IF size = 1 THEN Answer(FALSE, 2)
            ELSE /\ r1' = r
                 /\ pc' = "last"
                 /\ UNCHANGED <<input, firstIndex, lastIndex, r2, found, index>>

\* Check the last element.
CheckLast ==
    /\ pc = "last"
    /\ LET r == Compare(target, array[size]) IN
         IF r = "equal" /\ (size = 2 \/ which # "firstMatch") THEN Answer(TRUE, size)
         ELSE IF Behind(r) THEN Answer(FALSE, size + 1)
         ELSE /\ r2' = r
              /\ pc' = "bisect"
              /\ UNCHANGED <<input, firstIndex, lastIndex, r1, found, index>>

\* One comparison inside the loop moves one of the bounds to the middle.
Bisect ==
    /\ pc = "bisect"
    /\ LET i    == Midpoint(firstIndex, lastIndex)
           r    == Compare(target, array[i])
           down == InFront(r) \/ (r = "equal" /\ which = "firstMatch")
       IN  IF r = "equal" /\ which = "anyMatch" THEN Answer(TRUE, i)
           ELSE /\ IF down THEN lastIndex' = i /\ r2' = r /\ UNCHANGED <<firstIndex, r1>>
                           ELSE firstIndex' = i /\ r1' = r /\ UNCHANGED <<lastIndex, r2>>
                /\ pc' = "narrowed"
                /\ UNCHANGED <<input, found, index>>

NoMatchAtBounds == which = "anyMatch" \/ (r1 # "equal" /\ r2 # "equal")

\* The end of the loop's body.  The assertions are in the code.
GoOn ==
    /\ pc = "narrowed"
    /\ lastIndex # firstIndex + 1
    /\ pc' = IF lastIndex > firstIndex + 1 THEN "bisect" ELSE "failed"
    /\ UNCHANGED <<input, firstIndex, lastIndex, r1, r2, found, index>>

GiveUp ==
    /\ pc = "narrowed"
    /\ lastIndex = firstIndex + 1
    /\ NoMatchAtBounds
    /\ Answer(FALSE, lastIndex)

AnswerBound ==
    /\ pc = "narrowed"
    /\ lastIndex = firstIndex + 1
    /\ ~ NoMatchAtBounds
    /\ IF which = "firstMatch" /\ r2 = "equal" THEN Answer(TRUE, lastIndex)
       ELSE IF which = "lastMatch" /\ r1 = "equal" THEN Answer(TRUE, firstIndex)
       ELSE pc' = "failed" /\ UNCHANGED <<input, firstIndex, lastIndex, r1, r2, found, index>>

SearchNext == CheckFirst \/ CheckLast \/ Bisect \/ GoOn \/ GiveUp \/ AnswerBound

SearchSpec == SearchInit /\ [][SearchNext]_searchVars

\* The loop runs on.
FairSearch == SearchSpec /\ WF_searchVars(SearchNext)

-----------------------------------------------------------------------------
(* Properties.                                                             *)

\* Neither assertion of the loop can fail, with any number of equal elements, in
\* either order, for any kind of match.
AssertionsHold == pc # "failed"

\* The answer is the match that was asked for or, if there is none, the one place
\* where the target can be inserted.
AnswerCorrect ==
    pc = "done" =>
        IF found
        THEN /\ index \in 1 .. size /\ array[index] = target
             /\ which = "firstMatch" => \A i \in 1 .. size : i < index => array[i] # target
             /\ which = "lastMatch"  => \A i \in 1 .. size : i > index => array[i] # target
        ELSE /\ index \in 1 .. size + 1
             /\ \A i \in 1 .. size : IF i < index THEN Behind(Compare(target, array[i]))
                                                   ELSE InFront(Compare(target, array[i]))

\* The interval between the bounds shrinks until the search ends.
Terminates == <>(pc = "done")
=============================================================================
