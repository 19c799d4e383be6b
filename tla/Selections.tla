----------------------------- MODULE Selections -----------------------------
(***************************************************************************)
(* JXSelectionManager (libjx/code/JXSelectionManager.cpp): how one program *)
(* gets the data of a selection, such as the clipboard, from another one   *)
(* through the X server.                                                   *)
(*                                                                         *)
(* Each program has one thread and one data window with one property.  The *)
(* program that asks waits, in a loop that looks only for the event it     *)
(* needs, until the owner has put the data there: all of it, or INCR and   *)
(* then one chunk after the other, each as soon as the last is deleted.    *)
(* The owner waits in the same way.  Every wait ends after five seconds.   *)
(*                                                                         *)
(* Requests take effect, and events are queued, when they are sent; what   *)
(* the server does is part of the action of the program that asks for it.  *)
(* Events that nobody looks for and the event loop ignores are left out.   *)
(***************************************************************************)
EXTENDS Naturals, Sequences, SequencesExt

CONSTANTS
    Programs, Selections,
    Askers,          \* the programs that ask for data
    Owners,          \* those that put data into a selection
    None,            \* no program
    Length,          \* how many units of data there are of each type
    TypeList,        \* TARGETS, the type of the list of types
    MaxChunk,        \* the units that fit into one chunk, to begin with
    Overlaps,        \* may a program ask while somebody still answers an earlier
                     \* request, on which it gave up?
    MaxQueue,        \* bound: events in each queue when a program asks
    MaxDeaths,       \* bound: programs that die
    MaxAllocErrors   \* bound: times the server has no memory for a property

ASSUME SelectionsAssumption ==
    /\ Askers \subseteq Programs /\ Owners \subseteq Programs /\ None \notin Programs
    /\ TypeList \in DOMAIN Length
    /\ \A t \in DOMAIN Length : Length[t] \in Nat
    /\ MaxChunk \in Nat \ {0}
    /\ Overlaps \in BOOLEAN
    /\ MaxQueue \in Nat /\ MaxDeaths \in Nat /\ MaxAllocErrors \in Nat

VARIABLES
    owner,      \* the X server's owner of each selection
    prop,       \* the property of each data window
    selected,   \* what each program wants to hear of each other's window
    queue,      \* the events that a program has not looked at
    act,        \* what it is doing, and its local variables
    maxChunk,   \* itsMaxDataChunkSize
    alive,
    asked,      \* who owned the selection when the program asked for it
    excused,    \* is there a reason for its request to fail?
    faults      \* how many deaths and allocation errors there have been

server  == <<owner, prop, selected>>
history == <<asked, excused, faults>>
vars    == <<server, queue, act, maxChunk, alive, history>>

\* peer: the window it watches; data: received so far; left: still to be sent;
\* failed: an allocation error has occurred in this transfer.
Idle == [pc |-> "idle", peer |-> None, sel |-> None, type |-> TypeList, data |-> <<>>,
         left |-> 0, chunk |-> 0, ok |-> FALSE, failed |-> FALSE]

Asking  == {"asked", "discard", "fetch", "sender", "select", "receive", "read"}
Sending == {"whole", "notify", "announce", "invite", "invited", "sent", "send"}

Units(p, t, from, count) == [k \in 1 .. count |-> <<p, t, from + k>>]
Contents(p, t)           == Units(p, t, 0, Length[t])

NoProperty       == [kind |-> "none", units |-> <<>>]
Incr(p, t)       == [kind |-> "INCR", units |-> <<<<p, t, 0>>>>]   \* the length
Data(units)      == [kind |-> "data", units |-> units]

SelectionRequest(p, s, t)  == [is |-> "SelectionRequest", from |-> p, sel |-> s, type |-> t]
SelectionNotify(s, t, ok)  == [is |-> "SelectionNotify", sel |-> s, type |-> t, ok |-> ok]
NewValue                   == [is |-> "NewValue"]                  \* of the own property
Deleted(w)                 == [is |-> "Deleted", window |-> w]
Destroyed(w)               == [is |-> "DestroyNotify", window |-> w]

Post(queues, to, e) ==
    [p \in Programs |-> IF p \in to /\ alive[p] THEN Append(queues[p], e) ELSE queues[p]]

\* The place of the first event for which Is holds, or 0.
Place(p, Is(_)) == SelectInSeq(queue[p], Is)
Take(p, k)      == queue' = [queue EXCEPT ![p] = RemoveAt(@, k)]

Go(p, pc) == act' = [act EXCEPT ![p].pc = pc]

\* Somebody still answers a request of p, or has answered it unheard.
Answering(p) ==
    \/ \E q \in Programs :
          \/ act[q].peer = p /\ act[q].pc \in Sending
          \/ \E k \in DOMAIN queue[q] : queue[q][k].is = "SelectionRequest" /\ queue[q][k].from = p
    \/ \E k \in DOMAIN queue[p] : queue[p][k].is = "SelectionNotify"

Init ==
    /\ owner = [s \in Selections |-> None]
    /\ prop = [p \in Programs |-> NoProperty]
    /\ selected = [p \in Programs |-> [q \in Programs |-> {}]]
    /\ queue = [p \in Programs |-> <<>>]
    /\ act = [p \in Programs |-> Idle]
    /\ maxChunk = [p \in Programs |-> MaxChunk]
    /\ alive = [p \in Programs |-> TRUE]
    /\ asked = [p \in Programs |-> None]
    /\ excused = [p \in Programs |-> FALSE]
    /\ faults = [deaths |-> 0, allocErrors |-> 0]

-----------------------------------------------------------------------------
(* The X server.                                                           *)

\* XChangeProperty on the window of w.
ChangeProperty(w, value) ==
    IF alive[w] THEN prop' = [prop EXCEPT ![w] = value] /\ queue' = Post(queue, {w}, NewValue)
                ELSE UNCHANGED <<prop, queue>>

\* XGetWindowProperty with delete = True, by its own program.
DeleteProperty(w) ==
    /\ prop' = [prop EXCEPT ![w] = NoProperty]
    /\ queue' = IF prop[w] = NoProperty THEN queue
                ELSE Post(queue, {q \in Programs : "property" \in selected[q][w]}, Deleted(w))

\* XSelectInput on the window of another program; BadWindow is ignored.
SelectInput(p, w, mask) ==
    selected' = IF alive[w] THEN [selected EXCEPT ![p][w] = mask] ELSE selected

-----------------------------------------------------------------------------
(* GetData and GetAvailableTypes: a program asks for data.                 *)

\* RequestData.  It does not own the selection itself.
Request(p, s, t) ==
    /\ act[p].pc = "idle" /\ alive[p]
    /\ owner[s] # p
    /\ Overlaps \/ ~ Answering(p)
    /\ \A q \in Programs : Len(queue[q]) < MaxQueue
    /\ act' = [act EXCEPT ![p] = [Idle EXCEPT !.pc = "asked", !.sel = s, !.type = t]]
    /\ queue' = IF owner[s] = None THEN Post(queue, {p}, SelectionNotify(s, t, FALSE))
                ELSE Post(queue, {owner[s]}, SelectionRequest(p, s, t))
    /\ asked' = [asked EXCEPT ![p] = owner[s]]
    /\ excused' = [excused EXCEPT ![p] = owner[s] = None]
    /\ UNCHANGED <<server, maxChunk, alive, faults>>

\* The SelectionNotify event, whosever answer it is; its time is not compared.
Notified(p) ==
    LET k == Place(p, LAMBDA e : e.is = "SelectionNotify")
        e == queue[p][k]
    IN  /\ act[p].pc = "asked" /\ k > 0
        /\ Take(p, k)
        /\ Go(p, IF ~ (e.ok /\ e.sel = act[p].sel /\ e.type = act[p].type) THEN "return"
                 ELSE IF e.type = TypeList THEN "fetch" ELSE "discard")
        /\ UNCHANGED <<server, maxChunk, alive, history>>

\* Faulty variant: events that tell of earlier values of the property are kept.
DiscardNothing(p) ==
    /\ act[p].pc = "discard"
    /\ Go(p, "fetch")
    /\ UNCHANGED <<queue, server, maxChunk, alive, history>>

\* Events that tell of earlier values of the property are thrown away, one by one, ...
Discard(p) ==
    LET k == Place(p, LAMBDA e : e = NewValue)
    IN  /\ act[p].pc = "discard"
        /\ IF k > 0 THEN Take(p, k) /\ UNCHANGED act
                    ELSE Go(p, "fetch") /\ UNCHANGED queue
        /\ UNCHANGED <<server, maxChunk, alive, history>>

\* ... and its present value is read and deleted.  GetAvailableTypes asks for a list of
\* types: a property of another kind, INCR for one, stays as it is.  What
\* GetAvailableTypes then makes of a failure is left out here: if the selection is the
\* clipboard and somebody owns it, it returns kJTrue with XA_STRING for a list.
Fetch(p) ==
    LET mismatch == prop[p].kind = "INCR" /\ act[p].type = TypeList
    IN  /\ act[p].pc = "fetch"
        /\ IF mismatch THEN UNCHANGED <<prop, queue>> ELSE DeleteProperty(p)
        /\ CASE prop[p].kind = "INCR" /\ ~ mismatch -> Go(p, "sender")
             [] prop[p].kind = "data" ->
                    act' = [act EXCEPT ![p].pc = "return", ![p].ok = TRUE, ![p].data = prop[p].units]
             [] OTHER -> Go(p, "return")
        /\ UNCHANGED <<owner, selected, maxChunk, alive, history>>

\* ReceiveDataIncr: who owns the selection by now is taken for the sender, ...
FindSender(p) ==
    /\ act[p].pc = "sender"
    /\ act' = IF owner[act[p].sel] = None THEN [act EXCEPT ![p].pc = "return"]
              ELSE [act EXCEPT ![p].pc = "select", ![p].peer = owner[act[p].sel]]
    /\ UNCHANGED <<server, queue, maxChunk, alive, history>>

\* ... and p wants to hear of its end.
SelectSender(p) ==
    /\ act[p].pc = "select"
    /\ SelectInput(p, act[p].peer, {"structure"})
    /\ Go(p, "receive")
    /\ UNCHANGED <<owner, prop, queue, maxChunk, alive, history>>

\* WaitForPropertyCreated looks for the end of the sender first, ...
SenderGone(p) ==
    LET k == Place(p, LAMBDA e : e = Destroyed(act[p].peer))
    IN  /\ act[p].pc = "receive" /\ k > 0
        /\ Take(p, k)
        /\ Go(p, "unselect")
        /\ UNCHANGED <<server, maxChunk, alive, history>>

\* ... and then for a chunk.
ChunkThere(p) ==
    LET k == Place(p, LAMBDA e : e = NewValue)
    IN  /\ act[p].pc = "receive" /\ k > 0
        /\ Place(p, LAMBDA e : e = Destroyed(act[p].peer)) = 0
        /\ Take(p, k)
        /\ Go(p, "read")
        /\ UNCHANGED <<server, maxChunk, alive, history>>

\* An empty chunk is the last one.  What kind of value it is is not looked at.
ReadChunk(p) ==
    /\ act[p].pc = "read"
    /\ DeleteProperty(p)
    /\ act' = IF prop[p] = NoProperty THEN [act EXCEPT ![p].pc = "unselect"]
              ELSE IF prop[p].units = <<>>
              THEN [act EXCEPT ![p].pc = "unselect", ![p].ok = act[p].data # <<>>]
              ELSE [act EXCEPT ![p].pc = "receive", ![p].data = @ \o prop[p].units]
    /\ UNCHANGED <<owner, selected, maxChunk, alive, history>>

\* The end of ReceiveDataIncr.
Unselect(p) ==
    /\ act[p].pc = "unselect"
    /\ SelectInput(p, act[p].peer, {})
    /\ Go(p, "return")
    /\ UNCHANGED <<owner, prop, queue, maxChunk, alive, history>>

Return(p) ==
    /\ act[p].pc = "return"
    /\ act' = [act EXCEPT ![p] = Idle]
    /\ asked' = [asked EXCEPT ![p] = None]
    /\ excused' = [excused EXCEPT ![p] = FALSE]
    /\ UNCHANGED <<server, queue, maxChunk, alive, faults>>

\* Five seconds have passed.
GiveUpAsking(p) ==
    /\ act[p].pc \in {"asked", "receive"}
    /\ Go(p, IF act[p].pc = "asked" THEN "return" ELSE "unselect")
    /\ excused' = [excused EXCEPT ![p] = TRUE]
    /\ UNCHANGED <<server, queue, maxChunk, alive, asked, faults>>

-----------------------------------------------------------------------------
(* HandleSelectionRequest: a program answers.                              *)

\* SetData.
BecomeOwner(p, s) ==
    /\ act[p].pc = "idle" /\ alive[p]
    /\ owner' = [owner EXCEPT ![s] = p]
    /\ UNCHANGED <<prop, selected, queue, act, maxChunk, alive, history>>

\* The event loop ignores what is not a request.  It may refuse one because the data
\* cannot be converted, or were not there at the time of the request.
Dispatch(p) ==
    /\ act[p].pc = "idle" /\ queue[p] # <<>>
    /\ LET e == Head(queue[p])
           rest == [queue EXCEPT ![p] = Tail(@)]
       IN  \/ /\ e.is # "SelectionRequest"
              /\ queue' = rest
              /\ UNCHANGED <<act, excused>>
           \/ /\ e.is = "SelectionRequest"
              /\ queue' = Post(rest, {e.from}, SelectionNotify(e.sel, e.type, FALSE))
              /\ excused' = [excused EXCEPT ![e.from] = TRUE]
              /\ UNCHANGED act
           \/ /\ e.is = "SelectionRequest"
              /\ queue' = rest
              /\ act' = [act EXCEPT ![p] =
                    [Idle EXCEPT !.pc = IF Length[e.type] <= maxChunk[p] THEN "whole" ELSE "announce",
                                 !.peer = e.from, !.sel = e.sel, !.type = e.type,
                                 !.left = Length[e.type], !.chunk = maxChunk[p]]]
              /\ UNCHANGED excused
    /\ UNCHANGED <<server, maxChunk, alive, asked, faults>>

\* SendData1: the property is set, or the window is gone, or there is no memory.
SendData1(p, units, sent, gone, failed) ==
    LET w == act[p].peer
    IN  \/ /\ alive[w]
           /\ ChangeProperty(w, Data(units))
           /\ act' = [act EXCEPT ![p] = sent]
           /\ UNCHANGED <<excused, faults>>
        \/ /\ ~ alive[w]
           /\ act' = [act EXCEPT ![p] = gone]
           /\ UNCHANGED <<prop, queue, excused, faults>>
        \/ /\ alive[w] /\ faults.allocErrors < MaxAllocErrors
           /\ act' = [act EXCEPT ![p] = failed]
           /\ excused' = [excused EXCEPT ![w] = TRUE]
           /\ faults' = [faults EXCEPT !.allocErrors = @ + 1]
           /\ UNCHANGED <<prop, queue>>

\* All at once.  If that does not work, in chunks.
SendWhole(p) ==
    /\ act[p].pc = "whole"
    /\ SendData1(p, Contents(p, act[p].type), [act[p] EXCEPT !.pc = "notify"],
                 [act[p] EXCEPT !.pc = "announce"], [act[p] EXCEPT !.pc = "announce"])
    /\ UNCHANGED <<owner, selected, maxChunk, alive, asked>>

SendNotify(p) ==
    /\ act[p].pc \in {"notify", "invite"}
    /\ queue' = Post(queue, {act[p].peer}, SelectionNotify(act[p].sel, act[p].type, TRUE))
    /\ act' = [act EXCEPT ![p] = IF act[p].pc = "notify" THEN Idle
                                 ELSE [act[p] EXCEPT !.pc = "invited"]]
    /\ UNCHANGED <<server, maxChunk, alive, history>>

\* Faulty variant: p does not ask to hear of the deletion.
AnnounceOnly(p) ==
    /\ act[p].pc = "announce"
    /\ ChangeProperty(act[p].peer, Incr(p, act[p].type))
    /\ Go(p, "invite")
    /\ UNCHANGED <<owner, selected, maxChunk, alive, history>>

Announce(p) ==
    /\ act[p].pc = "announce"
    /\ SelectInput(p, act[p].peer, {"property", "structure"})
    /\ ChangeProperty(act[p].peer, Incr(p, act[p].type))
    /\ Go(p, "invite")
    /\ UNCHANGED <<owner, maxChunk, alive, history>>

\* Faulty variant: p does not wait for the chunk to be deleted.
WaitForNothing(p) ==
    /\ act[p].pc \in {"invited", "sent"}
    /\ act' = [act EXCEPT ![p].pc = "send",
                          ![p].left = IF act[p].pc = "sent" THEN @ - act[p].chunk ELSE @]
    /\ UNCHANGED <<server, queue, maxChunk, alive, history>>

\* WaitForPropertyDeleted, which takes the first of the two events.
WaitForPropertyDeleted(p) ==
    LET w == act[p].peer
        k == Place(p, LAMBDA e : e \in {Deleted(w), Destroyed(w)})
    IN  /\ act[p].pc \in {"invited", "sent"} /\ k > 0
        /\ Take(p, k)
        /\ act' = IF queue[p][k] = Destroyed(w) THEN [act EXCEPT ![p] = Idle]
                  ELSE [act EXCEPT ![p].pc = "send",
                                   ![p].left = IF act[p].pc = "sent" THEN @ - act[p].chunk ELSE @]
        /\ UNCHANGED <<server, maxChunk, alive, history>>

\* Faulty variant: the last chunk is as large as the others.
ChunkAlways(p) == act[p].chunk

ChunkSize(p) == IF act[p].chunk > act[p].left THEN act[p].left ELSE act[p].chunk

\* The next chunk.  Without memory for it, smaller ones are tried, if it can be.
SendChunk(p) ==
    LET size == ChunkSize(p)
        from == Length[act[p].type] - act[p].left
        half == maxChunk[p] \div 2
        less == maxChunk[p] > 1
    IN  /\ act[p].pc = "send" /\ act[p].left > 0
        /\ SendData1(p, Units(p, act[p].type, from, size),
                     [act[p] EXCEPT !.pc = "sent", !.chunk = size],
                     Idle,
                     IF less THEN [act[p] EXCEPT !.pc = "sent", !.chunk = half, !.failed = TRUE] ELSE Idle)
        /\ IF faults' = faults
           THEN UNCHANGED <<maxChunk, selected>>
           ELSE IF less THEN maxChunk' = [maxChunk EXCEPT ![p] = half] /\ UNCHANGED selected
                        ELSE SelectInput(p, act[p].peer, {}) /\ UNCHANGED maxChunk
        /\ UNCHANGED <<owner, alive, asked>>

\* An empty chunk, ...
SendEnd(p) ==
    /\ act[p].pc = "send" /\ act[p].left = 0
    /\ SendData1(p, <<>>, [act[p] EXCEPT !.pc = "finish"], Idle, [act[p] EXCEPT !.pc = "finish"])
    /\ UNCHANGED <<owner, selected, maxChunk, alive, asked>>

\* ... and p has heard enough.
Finish(p) ==
    /\ act[p].pc = "finish"
    /\ SelectInput(p, act[p].peer, {})
    /\ act' = [act EXCEPT ![p] = Idle]
    /\ UNCHANGED <<owner, prop, queue, maxChunk, alive, history>>

\* Five seconds have passed.
GiveUpSending(p) ==
    /\ act[p].pc \in {"invited", "sent"}
    /\ SelectInput(p, act[p].peer, {})
    /\ act' = [act EXCEPT ![p] = Idle]
    /\ excused' = [excused EXCEPT ![act[p].peer] = TRUE]
    /\ UNCHANGED <<owner, prop, queue, maxChunk, alive, asked, faults>>

-----------------------------------------------------------------------------
\* A program ends, in whatever it is doing, and its window with it.
Die(p) ==
    /\ alive[p] /\ faults.deaths < MaxDeaths
    /\ faults' = [faults EXCEPT !.deaths = @ + 1]
    /\ alive' = [alive EXCEPT ![p] = FALSE]
    /\ queue' = [Post(queue, {q \in Programs : "structure" \in selected[q][p]}, Destroyed(p))
                    EXCEPT ![p] = <<>>]
    /\ owner' = [s \in Selections |-> IF owner[s] = p THEN None ELSE owner[s]]
    /\ prop' = [prop EXCEPT ![p] = NoProperty]
    /\ selected' = [q \in Programs |-> [r \in Programs |->
                        IF p \in {q, r} THEN {} ELSE selected[q][r]]]
    /\ act' = [act EXCEPT ![p] = Idle]
    /\ asked' = [asked EXCEPT ![p] = None]
    /\ excused' = [q \in Programs |->
          /\ q # p
          /\ \/ excused[q] \/ p \in {asked[q], act[q].peer}
             \/ act[q].pc \in Asking /\ owner[act[q].sel] = p]
    /\ UNCHANGED maxChunk

Ask(p) ==
    \/ Notified(p) \/ Discard(p) \/ Fetch(p)
    \/ FindSender(p) \/ SelectSender(p)
    \/ SenderGone(p) \/ ChunkThere(p) \/ ReadChunk(p)
    \/ Unselect(p) \/ Return(p)

Answer(p) ==
    \/ SendWhole(p) \/ SendNotify(p) \/ Announce(p)
    \/ WaitForPropertyDeleted(p) \/ SendChunk(p) \/ SendEnd(p) \/ Finish(p)

GiveUp(p) == GiveUpAsking(p) \/ GiveUpSending(p)

Next ==
    \/ \E p \in Askers, s \in Selections, t \in DOMAIN Length : Request(p, s, t)
    \/ \E p \in Owners, s \in Selections : BecomeOwner(p, s)
    \/ \E p \in Programs :
          \/ Ask(p) \/ Dispatch(p) \/ Answer(p)
          \/ GiveUp(p)
          \/ Die(p)

Spec == Init /\ [][Next]_vars

\* What p waits for cannot come: nobody answers; or the program it sends to is not
\* there, or not waiting for p; or there was no memory for what it would wait for.
Hopeless(p) ==
    \/ act[p].pc \in {"asked", "receive"} /\ ~ Answering(p)
    \/ act[p].pc \in {"invited", "sent"}
         /\ \/ act[p].failed
            \/ asked[act[p].peer] # p \/ act[act[p].peer].pc \notin Asking

\* Programs go on, each returns to its event loop again and again, and a wait ends by
\* its time if by nothing else.
FairSpec ==
    /\ Spec
    /\ \A p \in Programs :
          /\ WF_vars(Ask(p) \/ Answer(p))
          /\ SF_vars(Dispatch(p))
          /\ WF_vars(Hopeless(p) /\ GiveUp(p))

-----------------------------------------------------------------------------
(* Properties.                                                             *)

TypeOK ==
    /\ owner \in [Selections -> Programs \cup {None}]
    /\ \A p \in Programs :
          /\ prop[p].kind \in {"none", "INCR", "data"}
          /\ act[p].left \in Nat /\ act[p].chunk \in 0 .. MaxChunk
          /\ maxChunk[p] \in 1 .. MaxChunk
          /\ act[p].pc \notin {"idle", "asked", "discard", "fetch", "sender", "return"}
                => act[p].peer \in Programs \ {p}
          /\ \A q \in Programs : selected[p][q] \subseteq {"property", "structure"}
          /\ ~ alive[p] => act[p] = Idle /\ queue[p] = <<>> /\ prop[p] = NoProperty

\* GetData and GetAvailableTypes return all the data of the program that owned the
\* selection when it was asked, in order, or none; whoever else dies, runs out of time
\* or becomes the owner in the meantime.  This is about what comes from an owner, and not
\* about the XA_STRING that GetAvailableTypes makes up for a clipboard when the request
\* for the list of types has failed (JXSelectionManager.cpp:185-196).
WholeOrNothing ==
    \A p \in Programs :
        act[p].pc = "return" /\ act[p].ok => act[p].data = Contents(asked[p], act[p].type)

\* They fail only if nobody owned the selection, the owner refused, it or a later owner
\* died, there was no memory, or one side ran out of time.
NoNeedlessFailure ==
    \A p \in Programs : act[p].pc = "return" /\ ~ act[p].ok => excused[p]

\* Every request returns, and does not need its five seconds for it unless the answer
\* cannot come any more: the two sides never both wait for the other.
EachReturns == \A p \in Programs : act[p].pc = "asked" ~> act[p].pc = "idle"
=============================================================================
