--------------------------- MODULE MCBroadcaster ----------------------------
(***************************************************************************)
(* Instances of Broadcaster for TLC.                                       *)
(*                                                                         *)
(* With every object free to listen to every other the state space is      *)
(* large at two objects.  The hub instances let application code connect   *)
(* only to one sender, Hub; any object, the hub included, may still be a   *)
(* recipient, so that three objects make lists of three recipients.        *)
(***************************************************************************)
EXTENDS Broadcaster, TLC

CONSTANT Hub

ASSUME HubAssumption == Hub \in Objects

Symmetry == Permutations(Objects \ {Hub})

HubNext == Next /\ \A o \in Objects : senders'[o] \subseteq {Hub}

HubSpec == Init /\ [][HubNext]_vars

HubFairSpec == HubSpec /\ Fairness
=============================================================================
