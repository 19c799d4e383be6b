---------------------------- MODULE MCSelections ----------------------------
(***************************************************************************)
(* Instances of Selections for TLC.                                        *)
(***************************************************************************)
EXTENDS Selections

\* The list of types fits into one chunk; a text of three units needs INCR, and its last
\* chunk is not full.
MCLength == [types |-> 1, text |-> 3]
=============================================================================
