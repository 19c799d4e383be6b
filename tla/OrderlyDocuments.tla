-------------------------- MODULE OrderlyDocuments --------------------------
(***************************************************************************)
(* What a program must observe when one of its documents supervises        *)
(* another, for closing to work: the library does not say so.  Without it  *)
(* documents are closed twice or lose changes, as the run                  *)
(* documents_nested shows.                                                 *)
(***************************************************************************)
EXTENDS Documents

Supervising == {supervisor[d] : d \in Docs} \ {App}

\* A document that another one supervises supervises none.
TwoLevels ==
    \A d \in Docs : supervisor[d] # App => supervisor[supervisor[d]] = App

\* A document that supervises others is needed by nobody, and one that another
\* document supervises is needed by nobody but the documents beside it.
NeedsFollowTree ==
    \A pair \in needs :
        /\ pair[2] \notin Supervising
        /\ supervisor[pair[2]] \in {App, supervisor[pair[1]]}

OrderlyInit == Init /\ TwoLevels /\ NeedsFollowTree

\* A document that supervises others and is told to stay open is never let go.
OrderlyNext == Next /\ (AtEventLoop => keepOpen \cap Supervising \subseteq keepOpen')

OrderlySpec == OrderlyInit /\ [][OrderlyNext]_vars

\* A document that another one supervises is not changed while it is hidden.
CarefulNext == Next /\ \A d \in unsaved' \ unsaved : d \in active \/ supervisor[d] = App

CarefulSpec == Init /\ [][CarefulNext]_vars
=============================================================================
