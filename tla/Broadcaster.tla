---------------------------- MODULE Broadcaster -----------------------------
(***************************************************************************)
(* JBroadcaster (libjcore/code/JBroadcaster.cpp): the publish/subscribe     *)
(* mixin every JX object derives from.                                      *)
(*                                                                         *)
(* An object keeps the list of its recipients and of its senders.          *)
(* Broadcast calls Receive on each recipient, in list order, through a     *)
(* JTaskIterator, and "anything could happen while calling Receive": the   *)
(* callee may connect and disconnect anybody, broadcast again (from the    *)
(* same sender too), and delete any object, itself and the sender          *)
(* included.  ~JBroadcaster calls ReceiveGoingAway on the recipients one   *)
(* by one, with the same freedom.                                          *)
(*                                                                         *)
(* The program is single threaded: the hard part is re-entrancy.  The call *)
(* stack is therefore explicit.  A "user" frame is application code (the   *)
(* event loop, a Receive, a ReceiveGoingAway) and may take any step; a     *)
(* "bcast" frame is the loop in BroadcastPrivate; a "dtor" frame is        *)
(* ~JBroadcaster.  An action is the code between two calls into            *)
(* application code.                                                       *)
(***************************************************************************)
EXTENDS Integers, FiniteSets, SequencesExt, IteratorCursor

CONSTANTS
    Objects,    \* addresses of JBroadcaster objects; a freed one can be reused
    NoObject,   \* the `obj' of a frame that is not about one object
    MaxDepth    \* bound on the depth of the call stack

ASSUME ObjectsAssumption == NoObject \notin Objects
ASSUME DepthAssumption   == MaxDepth \in Nat /\ MaxDepth >= 1

VARIABLES
    status,      \* per object: "free", "alive", or "dying" (inside ~JBroadcaster)
    recipients,  \* itsRecipients: a sequence, <<>> also when it is NULL
    senders,     \* itsSenders, as a set: its order is never observed
    clearPtrs,   \* itsClearPointers: the senders a member pointer is registered for
    stack        \* the call stack, innermost frame last

vars  == <<status, recipients, senders, clearPtrs, stack>>
links == <<status, recipients, senders, clearPtrs>>

\* A "dtor" frame is about the object being destroyed, a "bcast" frame about the
\* sender, and holds the JTaskIterator: its cursor, and whether the list it was
\* made for still exists (itsConstOrderedSet is not NULL).  `start', `got' and
\* `gone' are history: the recipients when the pass began, those the message was
\* delivered to, and those that left the list since.
Frame == [kind : {"user", "bcast", "dtor"}, obj : Objects \cup {NoObject},
          cursor : Nat, attached : BOOLEAN,
          start : SUBSET Objects, got : SUBSET Objects, gone : SUBSET Objects]

UserFrame == [kind |-> "user", obj |-> NoObject, cursor |-> 0, attached |-> FALSE,
              start |-> {}, got |-> {}, gone |-> {}]

DtorFrame(o) == [UserFrame EXCEPT !.kind = "dtor", !.obj = o]

BcastFrame(s, rs) == [UserFrame EXCEPT !.kind = "bcast", !.obj = s,
                                       !.attached = TRUE, !.start = rs]

Top == stack[Len(stack)]
Pop == SubSeq(stack, 1, Len(stack) - 1)

Listeners(s) == {recipients[s][i] : i \in DOMAIN recipients[s]}

\* The elements Next has still to fetch.
Pending(f) == IF f.attached
              THEN {recipients[f.obj][i] : i \in (f.cursor + 1) .. Len(recipients[f.obj])}
              ELSE {}

AtEnd(f) == ~ f.attached \/ f.cursor >= Len(recipients[f.obj])

TypeOK ==
    /\ status \in [Objects -> {"free", "alive", "dying"}]
    /\ recipients \in [Objects -> Seq(Objects)]
    /\ senders \in [Objects -> SUBSET Objects]
    /\ clearPtrs \in [Objects -> SUBSET Objects]
    /\ stack \in Seq(Frame)
    /\ Len(stack) \in 1 .. MaxDepth

Init ==
    /\ status = [o \in Objects |-> "free"]
    /\ recipients = [o \in Objects |-> <<>>]
    /\ senders = [o \in Objects |-> {}]
    /\ clearPtrs = [o \in Objects |-> {}]
    /\ stack = <<UserFrame>>

-----------------------------------------------------------------------------
(* What a change of recipient lists does to an iterator on them            *)
(* (NotifyIterators, at once: nobody listens to a JBroadcasterList).       *)

On(f, s) == f.attached /\ f.obj = s

\* AddRecipient: one element came in at the front of the list of s.
AfterInsert(f, s) ==
    IF On(f, s) THEN [f EXCEPT !.cursor = TaskCursorAfterInsert(@, 1, 1)] ELSE f

\* Faulty variant: the iterators are not told of the removal.
UntouchedByRemove(f, s, i, o) ==
    IF On(f, s) THEN [f EXCEPT !.gone = @ \cup {o}] ELSE f

\* Element i of the list of s, which is o, was removed.
AfterRemove(f, s, i, o) ==
    IF On(f, s) THEN [f EXCEPT !.cursor = CursorAfterRemove(@, i, 1), !.gone = @ \cup {o}]
                ELSE f

\* kGoingAway: the list of s is deleted and the cursor is fixed at 0.
AfterGoingAway(f, s) ==
    IF On(f, s) THEN [f EXCEPT !.attached = FALSE, !.cursor = 0] ELSE f

IndexOf(s, o) == CHOOSE i \in DOMAIN recipients[s] : recipients[s][i] = o

\* RemoveRecipient: o leaves the list of s, which is deleted when left empty.
WithoutRecipient(s, o) == RemoveAt(recipients[s], IndexOf(s, o))

AfterRemoveRecipient(f, s, o) ==
    LET moved == AfterRemove(f, s, IndexOf(s, o), o)
    IN  IF Len(recipients[s]) = 1 THEN AfterGoingAway(moved, s) ELSE moved

-----------------------------------------------------------------------------
(* Application code.                                                       *)

Running == Top.kind = "user"

Alive(o) == status[o] = "alive"

\* JBroadcaster::JBroadcaster
Create(o) ==
    /\ Running
    /\ status[o] = "free"
    /\ status' = [status EXCEPT ![o] = "alive"]
    /\ UNCHANGED <<recipients, senders, clearPtrs, stack>>

\* Faulty variant: the new recipient goes to the end of the list.
ConnectAtEnd(o, s) ==
    /\ senders' = [senders EXCEPT ![o] = @ \cup {s}]
    /\ recipients' = [recipients EXCEPT ![s] = Append(@, o)]
    /\ UNCHANGED stack

\* AddSender and AddRecipient: the new recipient goes to the front of the list,
\* "so it gets the -next- message".
Connect(o, s) ==
    /\ senders' = [senders EXCEPT ![o] = @ \cup {s}]
    /\ recipients' = [recipients EXCEPT ![s] = <<o>> \o @]
    /\ stack' = [k \in DOMAIN stack |-> AfterInsert(stack[k], s)]

ListenTo(o, s) ==
    /\ Running
    /\ Alive(o) /\ Alive(s)
    /\ s \notin senders[o]
    /\ Connect(o, s)
    /\ UNCHANGED <<status, clearPtrs>>

ClearWhenGoingAway(o, s) ==
    /\ Running
    /\ Alive(o) /\ Alive(s)
    /\ clearPtrs' = [clearPtrs EXCEPT ![o] = @ \cup {s}]
    /\ IF s \in senders[o] THEN UNCHANGED <<senders, recipients, stack>>
                           ELSE Connect(o, s)
    /\ UNCHANGED status

\* Faulty variant: the pointers registered for s stay registered.
StopListeningOnly(o, s) ==
    /\ Running
    /\ Alive(o)
    /\ s \in senders[o]
    /\ senders' = [senders EXCEPT ![o] = @ \ {s}]
    /\ recipients' = [recipients EXCEPT ![s] = WithoutRecipient(s, o)]
    /\ stack' = [k \in DOMAIN stack |-> AfterRemoveRecipient(stack[k], s, o)]
    /\ UNCHANGED <<status, clearPtrs>>

\* RemoveSender, RemoveRecipient, and the pointers registered for s.
StopListening(o, s) ==
    /\ Running
    /\ Alive(o)
    /\ s \in senders[o]
    /\ senders' = [senders EXCEPT ![o] = @ \ {s}]
    /\ recipients' = [recipients EXCEPT ![s] = WithoutRecipient(s, o)]
    /\ clearPtrs' = [clearPtrs EXCEPT ![o] = @ \ {s}]
    /\ stack' = [k \in DOMAIN stack |-> AfterRemoveRecipient(stack[k], s, o)]
    /\ UNCHANGED status

\* Broadcast and BroadcastWithFeedback: nothing happens without recipients.
Broadcast(s) ==
    /\ Running
    /\ Alive(s)
    /\ recipients[s] # <<>>
    /\ Len(stack) + 2 <= MaxDepth
    /\ stack' = Append(stack, BcastFrame(s, Listeners(s)))
    /\ UNCHANGED links

\* delete o: the destructor has begun.
Delete(o) ==
    /\ Running
    /\ Alive(o)
    /\ Len(stack) + 2 <= MaxDepth
    /\ status' = [status EXCEPT ![o] = "dying"]
    /\ stack' = Append(stack, DtorFrame(o))
    /\ UNCHANGED <<recipients, senders, clearPtrs>>

\* Application code returns to the loop that called it.
Return ==
    /\ Running
    /\ Len(stack) > 1
    /\ stack' = Pop
    /\ UNCHANGED links

-----------------------------------------------------------------------------
\* A call on an object inside ~JBroadcaster reaches the empty base-class method:
\* its derived classes are already destroyed.
Called(r, frames) == IF Alive(r) THEN Append(frames, UserFrame) ELSE frames

(* BroadcastPrivate: while (iterator.Next(&recipient)) recipient->Receive. *)

Deliver ==
    /\ Top.kind = "bcast"
    /\ ~ AtEnd(Top)
    /\ LET r == recipients[Top.obj][Top.cursor + 1] IN
         stack' = Called(r, [stack EXCEPT ![Len(stack)].cursor = @ + 1,
                                          ![Len(stack)].got = @ \cup {r}])
    /\ UNCHANGED links

EndBroadcast ==
    /\ Top.kind = "bcast"
    /\ AtEnd(Top)
    /\ stack' = Pop
    /\ UNCHANGED links

(* ~JBroadcaster.                                                          *)

\* One turn of the loop over the recipients: the last one is taken off the list
\* (which is not deleted when it becomes empty), forgets this sender, has its
\* registered pointers set to NULL, and is told last, "in case they die".
NotifyGoingAway ==
    /\ Top.kind = "dtor"
    /\ LET o == Top.obj
           n == Len(recipients[o])
           r == recipients[o][n]
       IN  /\ n > 0
           /\ recipients' = [recipients EXCEPT ![o] = RemoveAt(@, n)]
           /\ senders' = [senders EXCEPT ![r] = @ \ {o}]
           /\ clearPtrs' = [clearPtrs EXCEPT ![r] = @ \ {o}]
           /\ stack' = Called(r, [k \in DOMAIN stack |-> AfterRemove(stack[k], o, n, r)])
    /\ UNCHANGED status

\* Faulty variant: the senders keep the object in their lists.
EndDeleteStillListed ==
    /\ Top.kind = "dtor"
    /\ recipients[Top.obj] = <<>>
    /\ status' = [status EXCEPT ![Top.obj] = "free"]
    /\ senders' = [senders EXCEPT ![Top.obj] = {}]
    /\ clearPtrs' = [clearPtrs EXCEPT ![Top.obj] = {}]
    /\ stack' = [k \in 1 .. Len(stack) - 1 |-> AfterGoingAway(stack[k], Top.obj)]
    /\ UNCHANGED recipients

\* No recipient is left: delete the list, leave the lists of all the senders,
\* and free the object.
EndDelete ==
    /\ Top.kind = "dtor"
    /\ LET o == Top.obj IN
         /\ recipients[o] = <<>>
         /\ status' = [status EXCEPT ![o] = "free"]
         /\ recipients' = [s \in Objects |->
                 IF s \in senders[o] THEN WithoutRecipient(s, o) ELSE recipients[s]]
         /\ senders' = [senders EXCEPT ![o] = {}]
         /\ clearPtrs' = [clearPtrs EXCEPT ![o] = {}]
         /\ stack' = [k \in 1 .. Len(stack) - 1 |->
                 IF stack[k].obj \in senders[o]
                 THEN AfterRemoveRecipient(stack[k], stack[k].obj, o)
                 ELSE AfterGoingAway(stack[k], o)]

-----------------------------------------------------------------------------
Next ==
    \/ \E o \in Objects : Create(o) \/ Delete(o) \/ Broadcast(o)
    \/ \E o, s \in Objects :
          ListenTo(o, s) \/ ClearWhenGoingAway(o, s) \/ StopListening(o, s)
    \/ Return
    \/ Deliver \/ EndBroadcast
    \/ NotifyGoingAway \/ EndDelete

Spec == Init /\ [][Next]_vars

\* The loops run on, and every Receive and ReceiveGoingAway returns: application
\* code may make any number of calls before it does, but not for ever.
Fairness ==
    /\ WF_vars(Deliver \/ EndBroadcast \/ NotifyGoingAway \/ EndDelete)
    /\ \A d \in 2 .. MaxDepth : SF_vars(Return /\ Len(stack) = d)

FairSpec == Spec /\ Fairness

-----------------------------------------------------------------------------
(* Properties.                                                             *)

\* The two ends of a connection agree: an object has s among its senders
\* exactly when s has it among its recipients, once.  AddSender and AddRecipient
\* (RemoveSender and RemoveRecipient) are two calls on two objects, and
\* ~JBroadcaster takes the two ends apart one by one.
ConnectionsSymmetric ==
    \A o, s \in Objects :
        /\ o \in Listeners(s) <=> s \in senders[o]
        /\ \A i, j \in DOMAIN recipients[s] :
              recipients[s][i] = recipients[s][j] => i = j

\* No list holds the address of an object whose destructor has finished, and a
\* pointer is registered for clearing only while its target will clear it.
NoDanglingConnection ==
    \A o \in Objects :
        /\ status[o] = "free" => Listeners(o) = {} /\ senders[o] = {}
        /\ clearPtrs[o] \subseteq senders[o]

\* Whatever the callees did to the list, a pass still owes the message to exactly
\* those who were recipients when it began, have not had it, and have not left:
\* nobody is skipped, nobody gets it twice, and who joins (or leaves and joins
\* again) during the pass waits for the next message.
PassIsExact ==
    \A k \in DOMAIN stack :
        stack[k].kind = "bcast" =>
            Pending(stack[k]) = stack[k].start \ (stack[k].got \cup stack[k].gone)

\* Broadcaster implements Multicast: the recipients an iterator has still to
\* fetch are the connections its pass owes the message to.
Connections == {c \in Objects \X Objects : c[1] \in Listeners(c[2])}

Owed(f) == {<<r, f.obj>> : r \in Pending(f)}

Promise == INSTANCE Multicast WITH
    connections <- Connections,
    owed <- [k \in DOMAIN stack |-> Owed(stack[k])]

KeepsPromise == Promise!Spec

\* Every broadcast and every destructor ends, however the callees rearrange the
\* lists they run through (a recipient may leave and join again each time it is
\* called): control always comes back to the event loop.
ReturnsToEventLoop == []<>(Len(stack) = 1)
=============================================================================
