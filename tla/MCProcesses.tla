---------------------------- MODULE MCProcesses ----------------------------
(***************************************************************************)
(* The instance of Processes for TLC.                                      *)
(***************************************************************************)
EXTENDS Processes

CONSTANTS o1, o2, c1, c2

MCObjects  == {o1, o2}
MCChildren == {c1, c2}
MCPids     == {1, 2}
=============================================================================
