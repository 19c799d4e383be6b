--------------------------- MODULE MCFileLayout ----------------------------
(* Small instances of FileLayout. *)
EXTENDS FileLayout

TwoFiles   == {"base", "inner"}
InBase     == [f \in {"inner"} |-> "base"]
ThreeFiles == {"base", "middle", "inner"}
InMiddle   == [f \in {"middle", "inner"} |-> IF f = "inner" THEN "middle" ELSE "base"]

\* Data of two lengths; one and three cells, to be moved two at a time.
MCData == {<<1>>, <<2, 3, 4>>}
=============================================================================
