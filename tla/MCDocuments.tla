---------------------------- MODULE MCDocuments ----------------------------
(***************************************************************************)
(* Instances of Documents for TLC: trees of two levels of documents, and   *)
(* every acyclic relation of need, as JXDocument.cpp requires.             *)
(***************************************************************************)
EXTENDS OrderlyDocuments

CONSTANTS
    Outer,        \* the documents that may supervise others
    Modifiable,   \* those that may be changed
    Keepable      \* those that may be told to stay open

ASSUME OuterAssumption == Outer \subseteq Docs

\* Who needs whom, in at most Cardinality(Docs) steps.
Ranked(graph) ==
    \E rank \in [Docs -> 1 .. Cardinality(Docs)] :
        \A pair \in graph : rank[pair[1]] < rank[pair[2]]

MCNeedGraphs == {graph \in SUBSET (Docs \X Docs) : Ranked(graph)}

\* The outer documents are the application's, the others anybody's.
MCSupervisors ==
    {s \in [Docs -> Outer \cup {App}] : \A d \in Outer : s[d] = App}

\* The conditions of OrderlyDocuments, and only some documents are ever changed or told
\* to stay open.
LimitedNext ==
    /\ OrderlyNext
    /\ unsaved' \subseteq Modifiable
    /\ keepOpen' \subseteq Keepable

LimitedFairSpec == OrderlyInit /\ [][LimitedNext]_vars /\ WF_vars(Calls)
=============================================================================
