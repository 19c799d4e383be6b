----------------------------- MODULE EventLoop -----------------------------
(***************************************************************************)
(* The event loop of JXApplication (libjx/code/JXApplication.cpp) and the  *)
(* signals of JThisProcess (libjcore/code/JThisProcess.cpp).               *)
(*                                                                         *)
(* There is one thread.  Its call stack is what matters: the main loop     *)
(* calls application code, which opens a blocking window, which runs an    *)
(* event loop of its own, and so on.  `stack' holds the activations of     *)
(*   "main"     Run and HandleOneEvent                                     *)
(*   "window"   a window that blocks: HandleOneEventForWindow, repeatedly  *)
(*   "idle"     PerformIdleTasks                                           *)
(*   "urgent"   PerformUrgentTasks                                         *)
(*   "signals"  the same, once it is in JThisProcess::CheckForSignals      *)
(* Signals alone arrive at any time; their handler only appends to a list. *)
(***************************************************************************)
EXTENDS IteratorCursor, Sequences, SequencesExt, FiniteSetsExt

CONSTANTS
    UrgentTasks, IdleTasks,   \* the task objects
    MaxWindows,               \* bound: blocking windows open at a time
    MaxWindowsInSignals,      \* the same, while a signal is being broadcast
    SignalListSize,           \* kSignalListSize
    MaxRaised,                \* bound: signals that arrive
    OwnersDelete              \* may owners delete urgent tasks a pass has taken?

ASSUME EventLoopAssumption ==
    /\ MaxWindows \in Nat /\ MaxWindowsInSignals \in 0 .. MaxWindows
    /\ MaxRaised \in Nat
    /\ SignalListSize \in Nat \ {0}
    /\ OwnersDelete \in BOOLEAN

VARIABLES
    stack,        \* the activations, the running one last
    urgent,       \* itsUrgentTasks
    alive,        \* the urgent tasks that exist
    owed,         \* history: calls of Go for which Perform is still to be called
    idle,         \* itsIdleTaskStack and, last, itsIdleTasks
    installedAt,  \* history: of the windows open when an idle task was installed,
                  \* how many are open still; 0 when it is not installed
    hasBlockingWindow,   \* itsHasBlockingWindowFlag
    pendingSignalCount, signalList,
    raised,       \* how many signals have arrived; they are numbered
    accepted,     \* the signals that found room in the list
    delivered     \* the signals broadcast, in this order

taskVars   == <<urgent, alive, owed, idle, installedAt>>
signalVars == <<pendingSignalCount, signalList, raised, accepted, delivered>>
vars       == <<stack, taskVars, hasBlockingWindow, signalVars>>

\* list and i: the tasks an urgent pass has taken, and the one it is at;
\* level and i: the list an idle pass is on, and its cursor; i: the signal.
Activation(kind, pc, list, level) ==
    [kind |-> kind, pc |-> pc, list |-> list, level |-> level, i |-> 0]

Top        == Last(stack)
Calling(f) == stack' = Append(stack, f)
At(pc)     == stack' = Front(stack) \o <<[Top EXCEPT !.pc = pc]>>
Windows(d) == Cardinality({e \in 1 .. d : stack[e].kind = "window"})
OpenWindows == Windows(Len(stack))

\* Application code is running.
Busy == Top.pc \in {"dispatch", "between", "perform", "check", "connect", "broadcast"}

InLists(t) == {l \in DOMAIN idle : t \in Range(idle[l])}
Taken(t)   == {d \in DOMAIN stack : stack[d].kind = "urgent" /\ t \in Range(stack[d].list)}

\* An urgent pass has yet to come to t.
Awaits(f, t) == f.kind = "urgent" /\ \E k \in f.i + 1 .. Len(f.list) : f.list[k] = t

-----------------------------------------------------------------------------
TypeOK ==
    /\ \A d \in DOMAIN stack :
          /\ stack[d].kind \in {"main", "window", "idle", "urgent", "signals"}
          /\ stack[d].kind = "main" <=> d = 1
          /\ stack[d].kind = "idle" =>
                stack[d].level \in DOMAIN idle /\ stack[d].i \in 0 .. Len(idle[stack[d].level])
          /\ stack[d].kind = "urgent" => stack[d].i \in 0 .. Len(stack[d].list)
    /\ urgent \in Seq(UrgentTasks) /\ alive \subseteq UrgentTasks
    /\ owed \in [UrgentTasks -> Nat]
    /\ idle \in Seq(Seq(IdleTasks))
    /\ installedAt \in [IdleTasks -> 0 .. MaxWindows]
    /\ hasBlockingWindow \in BOOLEAN
    /\ pendingSignalCount \in 0 .. SignalListSize
    /\ signalList \in [1 .. SignalListSize -> 0 .. MaxRaised]

Init ==
    /\ stack = <<Activation("main", "dispatch", <<>>, 0)>>
    /\ urgent = <<>> /\ alive = {} /\ owed = [t \in UrgentTasks |-> 0]
    /\ idle = <<<<>>>>
    /\ installedAt = [t \in IdleTasks |-> 0]
    /\ hasBlockingWindow = FALSE
    /\ pendingSignalCount = 0
    /\ signalList = [k \in 1 .. SignalListSize |-> 0]
    /\ raised = 0 /\ accepted = {} /\ delivered = <<>>

-----------------------------------------------------------------------------
(* Lists of tasks.                                                         *)

IndexOf(list, t) == CHOOSE k \in DOMAIN list : list[k] = t

Without(list, t) == IF t \in Range(list) THEN RemoveAt(list, IndexOf(list, t)) ELSE list

\* One after the other, the tasks ts are taken off the list.
WithoutAll(list, ts) ==
    LET left[k \in 0 .. Len(ts)] == IF k = 0 THEN list ELSE Without(left[k - 1], ts[k])
    IN  left[Len(ts)]

-----------------------------------------------------------------------------
(* What application code may call.                                         *)

\* Go (InstallUrgentTask), of a new task or of one there is: also of one that a pass
\* has taken, and that is being performed.
Go(t) ==
    /\ Busy
    /\ t \notin Range(urgent)
    /\ urgent' = Append(urgent, t)
    /\ alive' = alive \cup {t}
    /\ owed' = [owed EXCEPT ![t] = @ + 1]
    /\ UNCHANGED <<stack, idle, installedAt, hasBlockingWindow, signalVars>>

\* The tasks ts go: those of them that wait will not be performed.
CalledOff(ts) == [t \in UrgentTasks |-> IF t \in ts \cap Range(urgent) THEN owed[t] - 1 ELSE owed[t]]

\* An owner deletes its task: the destructor takes it off itsUrgentTasks.  The
\* owner's pointer is cleared when the task is performed.
DeleteUrgent(t) ==
    /\ Busy
    /\ t \in alive
    /\ \A d \in Taken(t) : OwnersDelete /\ Awaits(stack[d], t)
    /\ urgent' = Without(urgent, t)
    /\ alive' = alive \ {t}
    /\ owed' = CalledOff({t})
    /\ UNCHANGED <<stack, idle, installedAt, hasBlockingWindow, signalVars>>

\* What a cursor on a list becomes when t is taken off it.
CursorWithout(list, t, c) ==
    IF t \in Range(list) THEN CursorAfterRemove(c, IndexOf(list, t), 1) ELSE c

\* Faulty variant: the iterators are not told.
CursorsStay(t, inserted) == stack

\* Every pass whose list has t is told that it goes; the current list may get it.
CursorsAfter(t, inserted) ==
    [d \in DOMAIN stack |->
        IF stack[d].kind # "idle" THEN stack[d]
        ELSE [stack[d] EXCEPT !.i =
                 IF inserted /\ stack[d].level = Len(idle)
                 THEN TaskCursorAfterInsert(@, 1, 1)
                 ELSE CursorWithout(idle[stack[d].level], t, @)]]

\* Faulty variant: the task goes to the end of the list.
InstallIdleLast(t) ==
    /\ Busy
    /\ t \notin Range(Last(idle))
    /\ idle' = [l \in DOMAIN idle |->
                   IF l = Len(idle) THEN Append(idle[l], t) ELSE Without(idle[l], t)]
    /\ stack' = CursorsAfter(t, FALSE)
    /\ installedAt' = [installedAt EXCEPT ![t] = OpenWindows]
    /\ UNCHANGED <<urgent, alive, owed, hasBlockingWindow, signalVars>>

\* Faulty variant: the task is left on the lists that wait.
InstallIdleTwice(t) ==
    /\ Busy
    /\ t \notin Range(Last(idle))
    /\ idle' = [idle EXCEPT ![Len(idle)] = <<t>> \o @]
    /\ stack' = CursorsAfter(t, TRUE)
    /\ installedAt' = [installedAt EXCEPT ![t] = OpenWindows]
    /\ UNCHANGED <<urgent, alive, owed, hasBlockingWindow, signalVars>>

\* InstallIdleTask (JXIdleTask::Start): in front of the current list and nowhere else.
InstallIdle(t) ==
    /\ Busy
    /\ t \notin Range(Last(idle))
    /\ idle' = [l \in DOMAIN idle |->
                   IF l = Len(idle) THEN <<t>> \o idle[l] ELSE Without(idle[l], t)]
    /\ stack' = CursorsAfter(t, TRUE)
    /\ installedAt' = [installedAt EXCEPT ![t] = OpenWindows]
    /\ UNCHANGED <<urgent, alive, owed, hasBlockingWindow, signalVars>>

\* RemoveIdleTask (JXIdleTask::Stop, or its destructor).
RemoveIdle(t) ==
    /\ Busy
    /\ InLists(t) # {}
    /\ idle' = [l \in DOMAIN idle |-> Without(idle[l], t)]
    /\ stack' = CursorsAfter(t, FALSE)
    /\ installedAt' = [installedAt EXCEPT ![t] = 0]
    /\ UNCHANGED <<urgent, alive, owed, hasBlockingWindow, signalVars>>

\* A bound, not code: another window may be opened.
MayOpen ==
    OpenWindows < IF \E d \in DOMAIN stack : stack[d].kind = "signals"
                  THEN MaxWindowsInSignals ELSE MaxWindows

\* Faulty variant: the idle tasks go on running.
OpenWindowOnly ==
    /\ Busy
    /\ MayOpen
    /\ Calling(Activation("window", "between", <<>>, 0))
    /\ UNCHANGED <<taskVars, hasBlockingWindow, signalVars>>

\* PrepareForBlockingWindow: the idle tasks are put aside.
OpenWindow ==
    /\ Busy
    /\ MayOpen
    /\ Calling(Activation("window", "between", <<>>, 0))
    /\ idle' = Append(idle, <<>>)
    /\ UNCHANGED <<urgent, alive, owed, installedAt, hasBlockingWindow, signalVars>>

\* PopIdleTaskStack: what is still on the current list joins the one below.  An
\* idle pass on that one sees the tasks appended, one at a time.
PopIdle ==
    LET below == Len(idle) - 1
    IN  /\ idle' = IF below = 0 THEN idle
                   ELSE SubSeq(idle, 1, below - 1) \o <<idle[below] \o Last(idle)>>
        /\ stack' = [d \in DOMAIN Front(stack) |->
              IF stack[d].kind = "idle" /\ stack[d].level = below
                 /\ idle[below] = <<>> /\ Last(idle) # <<>>
              THEN [stack[d] EXCEPT !.i = TaskCursorAfterInsert(@, 1, 1)] ELSE stack[d]]

\* The window is dismissed: BlockingWindowFinished.
CloseWindow ==
    /\ Top.kind = "window" /\ Top.pc = "between"
    /\ PopIdle
    /\ installedAt' = [t \in IdleTasks |-> IF installedAt[t] = OpenWindows THEN OpenWindows - 1
                                                                           ELSE installedAt[t]]
    /\ UNCHANGED <<urgent, alive, owed, hasBlockingWindow, signalVars>>

Application ==
    \/ \E t \in UrgentTasks : Go(t) \/ DeleteUrgent(t)
    \/ \E t \in IdleTasks : InstallIdle(t) \/ RemoveIdle(t)
    \/ OpenWindow
    \/ CloseWindow

-----------------------------------------------------------------------------
(* The loops.                                                              *)

\* The head of HandleOneEventForWindow.
EnterWindow ==
    /\ Top.kind = "window" /\ Top.pc = "between"
    /\ hasBlockingWindow' = TRUE
    /\ idle' = IF Len(idle) = 1 THEN Append(idle, <<>>) ELSE idle
    /\ At("dispatch")
    /\ UNCHANGED <<urgent, alive, owed, installedAt, signalVars>>

\* The events have been dispatched.  HandleOneEvent calls PopAllIdleTaskStack; then
\* PerformTasks has idle tasks performed unless there is too much else to do.
Dispatched ==
    /\ Top.pc = "dispatch"
    /\ At("idle") \/ At("urgent")
    /\ idle' = IF Top.kind = "main" THEN <<FlattenSeq(idle)>> ELSE idle
    /\ UNCHANGED <<urgent, alive, owed, installedAt, hasBlockingWindow, signalVars>>

\* PerformIdleTasks is called; it returns to "urgent".
CallIdle ==
    /\ Top.pc = "idle"
    /\ stack' = Front(stack) \o <<[Top EXCEPT !.pc = "urgent"],
                                  Activation("idle", "next", <<>>, Len(idle))>>
    /\ UNCHANGED <<taskVars, hasBlockingWindow, signalVars>>

Step == stack' = Front(stack) \o <<[Top EXCEPT !.pc = "perform", !.i = @ + 1]>>

\* The JTaskIterator fetches the next task, which is performed.
PerformIdle ==
    /\ Top.kind = "idle" /\ Top.pc = "next"
    /\ Top.i < Len(idle[Top.level])
    /\ Step
    /\ UNCHANGED <<taskVars, hasBlockingWindow, signalVars>>

\* Behind the last task: sockets and child processes broadcast, but only if there
\* is no blocking window.  Then CheckForConnections, blocking window or not; after
\* "check" it is more of the same, some application code.
EndIdle ==
    /\ Top.kind = "idle" /\ Top.pc = "next"
    /\ Top.i >= Len(idle[Top.level])
    /\ At(IF hasBlockingWindow THEN "connect" ELSE "check")
    /\ UNCHANGED <<taskVars, hasBlockingWindow, signalVars>>

\* Faulty variant: the tasks taken stay on itsUrgentTasks.
CallUrgentKeep ==
    /\ Top.pc = "urgent"
    /\ stack' = Front(stack) \o <<[Top EXCEPT !.pc = "end"],
                                  Activation("urgent", "next", urgent, 0)>>
    /\ UNCHANGED <<taskVars, hasBlockingWindow, signalVars>>

\* PerformUrgentTasks is called: it takes all the tasks there are.
CallUrgent ==
    /\ Top.pc = "urgent"
    /\ stack' = Front(stack) \o <<[Top EXCEPT !.pc = "end"],
                                  Activation("urgent", "next", urgent, 0)>>
    /\ urgent' = <<>>
    /\ UNCHANGED <<alive, owed, idle, installedAt, hasBlockingWindow, signalVars>>

PerformUrgent ==
    /\ Top.kind = "urgent" /\ Top.pc = "next"
    /\ Top.i < Len(Top.list)
    /\ Step
    /\ owed' = [owed EXCEPT ![Top.list[Top.i + 1]] = @ - 1]
    /\ UNCHANGED <<urgent, alive, idle, installedAt, hasBlockingWindow, signalVars>>

\* All are performed, and deleted with taskList: the destructor of each takes it off
\* itsUrgentTasks.  Then CheckForSignals.
EndUrgent ==
    /\ Top.kind = "urgent" /\ Top.pc = "next"
    /\ Top.i >= Len(Top.list)
    /\ alive' = alive \ Range(Top.list)
    /\ urgent' = WithoutAll(urgent, Top.list)
    /\ owed' = CalledOff(Range(Top.list))
    /\ stack' = IF ~ hasBlockingWindow /\ pendingSignalCount > 0
                THEN Front(stack) \o <<Activation("signals", "test", <<>>, 0)>>
                ELSE Front(stack)
    /\ UNCHANGED <<idle, installedAt, hasBlockingWindow, signalVars>>

\* BroadcastSignal; the test reads the count again every time around.
BroadcastSignal ==
    /\ Top.kind = "signals" /\ Top.pc = "test"
    /\ Top.i < pendingSignalCount
    /\ stack' = Front(stack) \o <<[Top EXCEPT !.pc = "broadcast", !.i = @ + 1]>>
    /\ delivered' = Append(delivered, signalList[Top.i + 1])
    /\ UNCHANGED <<taskVars, hasBlockingWindow, pendingSignalCount, signalList, raised, accepted>>

\* The loop has seen the end of the list, ...
LeaveSignalLoop ==
    /\ Top.kind = "signals" /\ Top.pc = "test"
    /\ Top.i >= pendingSignalCount
    /\ At("reset")
    /\ UNCHANGED <<taskVars, hasBlockingWindow, signalVars>>

\* Faulty variant: the list is not reset.
ForgetNoSignals ==
    /\ Top.pc = "reset"
    /\ stack' = Front(stack)
    /\ UNCHANGED <<taskVars, hasBlockingWindow, signalVars>>

\* ... and the list is emptied, by another instruction.
ForgetSignals ==
    /\ Top.pc = "reset"
    /\ stack' = Front(stack)
    /\ pendingSignalCount' = 0
    /\ UNCHANGED <<taskVars, hasBlockingWindow, signalList, raised, accepted, delivered>>

\* Application code returns: from Perform, from a Receive, from the reactor, from
\* what a connection of another instance has asked for.
Return ==
    /\ Top.pc \in {"perform", "broadcast", "check", "connect"}
    /\ CASE Top.pc = "perform"   -> At("next")
         [] Top.pc = "broadcast" -> At("test")
         [] OTHER                -> stack' = Front(stack)
    /\ UNCHANGED <<taskVars, hasBlockingWindow, signalVars>>

\* The tail of HandleOneEventForWindow; or around again in Run.
EndEvent ==
    /\ Top.pc = "end"
    /\ At(IF Top.kind = "window" THEN "between" ELSE "dispatch")
    /\ hasBlockingWindow' = IF Top.kind = "window" THEN FALSE ELSE hasBlockingWindow
    /\ UNCHANGED <<taskVars, signalVars>>

\* Every step of the thread that is not application code's choice.
Library ==
    \/ Dispatched
    \/ CallIdle \/ PerformIdle \/ EndIdle
    \/ CallUrgent \/ PerformUrgent \/ EndUrgent
    \/ BroadcastSignal \/ LeaveSignalLoop \/ ForgetSignals
    \/ Return
    \/ EndEvent

\* handle_signal, at any time.
Raise ==
    /\ raised < MaxRaised
    /\ raised' = raised + 1
    /\ IF pendingSignalCount < SignalListSize
       THEN /\ signalList' = [signalList EXCEPT ![pendingSignalCount + 1] = raised']
            /\ pendingSignalCount' = pendingSignalCount + 1
            /\ accepted' = accepted \cup {raised'}
       ELSE UNCHANGED <<signalList, pendingSignalCount, accepted>>
    /\ UNCHANGED <<stack, taskVars, hasBlockingWindow, delivered>>

Next == Application \/ EnterWindow \/ Library \/ Raise

Spec == Init /\ [][Next]_vars

\* The thread runs on, and application code returns.  Nothing makes a user dismiss
\* a window.
FairSpec == Spec /\ WF_vars(Library)

-----------------------------------------------------------------------------
(* Properties.                                                             *)

\* No idle task is on two lists, nor twice on one, so that PopIdleTaskStack need
\* not look for duplicates; however windows open, close and nest in the meantime.
OneListPerIdleTask ==
    \A l, m \in DOMAIN idle : \A j \in DOMAIN idle[l], k \in DOMAIN idle[m] :
        idle[l][j] = idle[m][k] => l = m /\ j = k

\* An idle task may delete an object because whatever blocking window was opened
\* after the task was installed is gone when the task is performed.
SafeToPerform ==
    \A d \in DOMAIN stack :
        stack[d].kind = "idle" /\ d = Len(stack) /\ stack[d].pc = "next"
            /\ stack[d].i < Len(idle[stack[d].level])
        => installedAt[idle[stack[d].level][stack[d].i + 1]] >= Windows(d)

\* Where t is still to be performed: by the passes at the depths d that have not come
\* to it, and, which is place 0, by whatever pass takes what waits.
ToPerform(t) ==
    {d \in 0 .. Len(stack) : IF d = 0 THEN t \in Range(urgent) ELSE Awaits(stack[d], t)}

\* Each call of Go that had an effect has the task performed once, unless the task is
\* deleted while it waits; although the task may call Go again while it is performed,
\* any number of nested passes take it again, and each deletes it in the end.
UrgentOnce ==
    \A t \in UrgentTasks :
        /\ Cardinality(ToPerform(t)) = owed[t]
        /\ Cardinality({k \in DOMAIN urgent : urgent[k] = t}) <= 1
        /\ \A d \in Taken(t) : Cardinality({k \in DOMAIN stack[d].list : stack[d].list[k] = t}) = 1

\* What a pass has taken still exists when the pass comes to it and deletes it.
TakenTasksExist ==
    \A d \in DOMAIN stack :
        stack[d].kind = "urgent" => Range(stack[d].list) \subseteq alive

\* The reactor, child processes and signals run arbitrary code, so they must not be
\* looked at by an event loop inside a blocking window.
ChecksOutsideWindows ==
    \A d \in DOMAIN stack :
        stack[d].kind = "signals" \/ stack[d].pc = "check" => Windows(d) = 0

\* Signals are broadcast in the order in which they arrived, none of them twice.
DeliveredInOrder ==
    \A j, k \in DOMAIN delivered : j < k => delivered[j] < delivered[k]

\* A signal that found room in the list is broadcast or still in the list.
SignalsKept ==
    accepted \subseteq Range(delivered) \cup {signalList[k] : k \in 1 .. pendingSignalCount}

\* While no window blocks, every pass over idle tasks, urgent tasks and signals ends,
\* although the tasks performed may install and remove any others.
PassEnds ==
    Len(stack) > 1 ~> \/ Len(stack) = 1
                      \/ \E d \in DOMAIN stack : stack[d].kind = "window"
=============================================================================
