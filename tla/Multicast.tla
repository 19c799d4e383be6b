----------------------------- MODULE Multicast ------------------------------
(***************************************************************************)
(* What JBroadcaster promises, without its lists, cursors and destructors. *)
(*                                                                         *)
(* Objects are connected in pairs <<recipient, sender>>.  Control is a     *)
(* stack of activations; a pass of a broadcast is an activation that owes  *)
(* the message to the connections its sender had when it began.  The       *)
(* message goes to an owed connection once, in no promised order.  A       *)
(* connection that breaks is owed nothing any more, in any pass; one that  *)
(* is made is owed nothing until the next pass; and a pass ends only when  *)
(* it owes nothing.  Broadcaster implements this (Broadcaster!Promise).    *)
(***************************************************************************)
EXTENDS Integers, Sequences

CONSTANT Objects

VARIABLES
    connections,  \* the pairs <<recipient, sender>> that are connected
    owed          \* per activation, the connections it owes the message to

Connection == Objects \X Objects

TypeOK ==
    /\ connections \subseteq Connection
    /\ owed \in Seq(SUBSET Connection)

Init ==
    /\ connections = {}
    /\ owed = <<{}>>

\* An operation leaves the activations as `rest'; it may call application code,
\* an activation that owes nothing.
Leaving(rest) == owed' = rest \/ owed' = Append(rest, {})

Without(gone) == [k \in DOMAIN owed |-> owed[k] \ gone]

Join(c) ==
    /\ c \notin connections
    /\ connections' = connections \cup {c}
    /\ UNCHANGED owed

Leave(c) ==
    /\ c \in connections
    /\ connections' = connections \ {c}
    /\ Leaving(Without({c}))

\* An object goes away, and its connections with it; the activation that
\* destroyed it returns.
Vanish(o) ==
    LET gone == {c \in connections : o \in {c[1], c[2]}}
    IN  /\ Len(owed) > 1
        /\ connections' = connections \ gone
        /\ owed' = SubSeq(Without(gone), 1, Len(owed) - 1)

StartPass(s) ==
    /\ \E r \in Objects : <<r, s>> \in connections
    /\ owed' = Append(owed, {c \in connections : c[2] = s})
    /\ UNCHANGED connections

Call ==
    /\ owed' = Append(owed, {})
    /\ UNCHANGED connections

Deliver(c) ==
    /\ c \in owed[Len(owed)]
    /\ Leaving([k \in DOMAIN owed |-> IF k = Len(owed) THEN owed[k] \ {c} ELSE owed[k]])
    /\ UNCHANGED connections

\* An activation returns only when it owes nothing.
Return ==
    /\ Len(owed) > 1
    /\ owed[Len(owed)] = {}
    /\ owed' = SubSeq(owed, 1, Len(owed) - 1)
    /\ UNCHANGED connections

Next ==
    \/ \E c \in Connection : Join(c) \/ Leave(c) \/ Deliver(c)
    \/ \E o \in Objects : Vanish(o) \/ StartPass(o)
    \/ Call \/ Return

Spec == Init /\ [][Next]_<<connections, owed>>
=============================================================================
