----------------------------- MODULE Processes -----------------------------
(***************************************************************************)
(* Child processes and the JProcess objects that stand for them            *)
(* (libjcore/code/JProcess.cpp), with the lists of JThisProcess that say   *)
(* what happens to them when the program ends (JThisProcess.cpp), and the  *)
(* fork of JExecute (jProcessUtil.cpp).                                    *)
(*                                                                         *)
(* Three parties act: the kernel and the children; the application, which  *)
(* makes and deletes objects, also while one of them broadcasts Finished;  *)
(* and the interrupt (SIGINT), which ends the program at any moment.       *)
(***************************************************************************)
EXTENDS Naturals, Sequences, SequencesExt

CONSTANTS
    Objects,        \* JProcess objects; each lives once
    Children,       \* child processes; each is forked once
    Pids,           \* the numbers the kernel gives them
    MaxDepth,       \* bound: nested calls that broadcast Finished
    OwnGroup,       \* may a signal be sent while its target is our own group?
    DeleteTaken,    \* may a listener delete an object that is yet to broadcast?
    SharedWait      \* may one of several objects for a child wait for it?

Nobody == "nobody"    \* no child: waitpid failed, or fork did

ASSUME ProcessesAssumption ==
    /\ IsFiniteSet(Objects) /\ Nobody \notin Children
    /\ Pids \subseteq Nat \ {0} /\ MaxDepth \in Nat
    /\ {OwnGroup, DeleteTaken, SharedWait} \subseteq BOOLEAN

VARIABLES
    state, number,     \* of a child: its life in the kernel, and its pid
    life,              \* of an object; theProcessList holds the "alive" ones
    pid, autoDelete,   \* itsPID, itsAutoDeleteFlag
    of,                \* the child an object was made for
    heard,             \* whose status it has broadcast with Finished; it is
                       \* finished (itsIsFinishedFlag) once it has
    quitList, killList,  \* theQuitList, theKillList
    stack,             \* the calls that are telling objects, the running one last
    over,              \* the program has ended
    stray,             \* a signal has gone to somebody else than the object's child
    dangling           \* a deleted object has been used

kernelVars == <<state, number>>
listVars   == <<quitList, killList>>
objectVars == <<life, pid, autoDelete, of, heard>>
vars == <<kernelVars, objectVars, listVars, stack, over, stray, dangling>>

Top      == Last(stack)
Alive    == {o \in Objects : life[o] = "alive"}
Finished(o) == heard[o] # <<>>

Has(c)   == state[c] \in {"starting", "running", "zombie"}    \* has a pid
Named(n) == {c \in Children : Has(c) /\ number[c] = n}
Named1(n) == IF Named(n) = {} THEN Nobody ELSE CHOOSE c \in Named(n) : TRUE

Running == ~over /\ ~dangling
\* Application code is running: nothing broadcasts, or a listener was called.
Busy    == Running /\ (stack # <<>> => Top.pc = "telling")

\* Objects that a call has taken, and that are yet to broadcast.
ToCome    == UNION {Range(SubSeq(stack[d].list, stack[d].i + 1, Len(stack[d].list)))
                       : d \in DOMAIN stack}
\* Objects that will be deleted when their listeners return.
Deleting  == {stack[d].list[stack[d].i] : d \in {e \in DOMAIN stack : stack[e].auto}}

TypeOK ==
    /\ state \in [Children -> {"unborn", "starting", "running", "zombie", "gone"}]
    /\ life \in [Objects -> {"unborn", "alive", "deleted"}]
    /\ pid \in [Objects -> Pids \cup {0}] /\ of \in [Objects -> Children \cup {Nobody}]
    /\ heard \in [Objects -> Seq(Children \cup {Nobody})]
    /\ quitList \subseteq Objects /\ killList \subseteq Objects
    /\ quitList \cap killList = {}
    /\ Len(stack) <= MaxDepth
    /\ \A d \in DOMAIN stack : stack[d].i \in 0 .. Len(stack[d].list)
    \* a pid belongs to one child at a time
    /\ \A c, d \in Children : Has(c) /\ Has(d) /\ number[c] = number[d] => c = d

Init ==
    /\ state = [c \in Children |-> "unborn"] /\ number = [c \in Children |-> 0]
    /\ life = [o \in Objects |-> "unborn"]
    /\ pid = [o \in Objects |-> 0]
    /\ autoDelete = [o \in Objects |-> FALSE]
    /\ of = [o \in Objects |-> Nobody] /\ heard = [o \in Objects |-> <<>>]
    /\ quitList = {} /\ killList = {}
    /\ stack = <<>>
    /\ over = FALSE /\ stray = FALSE /\ dangling = FALSE

-----------------------------------------------------------------------------
(* The kernel and the children.                                            *)

\* The kernel is assumed not to reuse a number that some object still holds.
Free(n) == Named(n) = {} /\ \A o \in Alive : pid[o] # n

\* Fork, for every child in f, a function to pids.  The children are in our group.
Fork(f) ==
    /\ \A c \in DOMAIN f : state[c] = "unborn" /\ Free(f[c])
    /\ state' = [c \in Children |-> IF c \in DOMAIN f THEN "starting" ELSE state[c]]
    /\ number' = [c \in Children |-> IF c \in DOMAIN f THEN f[c] ELSE number[c]]

\* The child makes a group of its own.
Lead(c) ==
    /\ ~over /\ state[c] = "starting"
    /\ state' = [state EXCEPT ![c] = "running"]
    /\ UNCHANGED <<number, objectVars, listVars, stack, over, stray, dangling>>

Exit(c) ==
    /\ ~over /\ state[c] \in {"starting", "running"}
    /\ state' = [state EXCEPT ![c] = "zombie"]
    /\ UNCHANGED <<number, objectVars, listVars, stack, over, stray, dangling>>

-----------------------------------------------------------------------------
(* Making, deleting and configuring objects.                               *)

\* The constructor, for the child c whose pid is n.
Construct(o, c, n) ==
    /\ life[o] = "unborn"
    /\ life' = [life EXCEPT ![o] = "alive"]
    /\ pid' = [pid EXCEPT ![o] = n] /\ of' = [of EXCEPT ![o] = c]
    /\ UNCHANGED <<autoDelete, heard>>

\* Create: JExecute, and an object for the child.
Create(o, c, n) ==
    /\ Busy
    /\ Fork([x \in {c} |-> n])
    /\ Construct(o, c, n)
    /\ quitList' = quitList \cup {o}
    /\ UNCHANGED <<killList, stack, over, stray, dangling>>

\* JExecute with kJForceNonblockingPipe forks a helper too, and makes an object
\* for it that is killed at exit; *pid is 0 when that fork fails.
CreateWithHelper(o, c, n, h, d, m) ==
    /\ Busy
    /\ c # d /\ n # m /\ o # h
    /\ life[o] = "unborn" /\ life[h] = "unborn"
    /\ life' = [life EXCEPT ![o] = "alive", ![h] = "alive"]
    /\ \/ /\ Fork([x \in {c, d} |-> IF x = c THEN n ELSE m])
          /\ pid' = [pid EXCEPT ![o] = n, ![h] = m]
          /\ of' = [of EXCEPT ![o] = c, ![h] = d]
       \/ /\ Fork([x \in {c} |-> n])
          /\ pid' = [pid EXCEPT ![o] = n]
          /\ of' = [of EXCEPT ![o] = c]
    /\ quitList' = quitList \cup {o} /\ killList' = killList \cup {h}
    /\ UNCHANGED <<autoDelete, heard, stack, over, stray, dangling>>

\* new JProcess(pid), for a child that is known from another object.
Attach(o, p) ==
    /\ Busy
    /\ p \in Alive /\ Named(pid[p]) # {}
    /\ Construct(o, Named1(pid[p]), pid[p])
    /\ quitList' = quitList \cup {o}
    /\ UNCHANGED <<kernelVars, killList, stack, over, stray, dangling>>

\* Faulty variant: the destructor leaves the lists alone.
DestroyedListed(o) ==
    /\ life' = [life EXCEPT ![o] = "deleted"]
    /\ UNCHANGED listVars

\* The destructor.
Destroyed(o) ==
    /\ life' = [life EXCEPT ![o] = "deleted"]
    /\ quitList' = quitList \ {o} /\ killList' = killList \ {o}

\* The application deletes an object, but not one that is about to be deleted.
Delete(o) ==
    /\ Busy
    /\ o \in Alive \ Deleting /\ (DeleteTaken \/ o \notin ToCome)
    /\ Destroyed(o)
    /\ UNCHANGED <<kernelVars, pid, autoDelete, of, heard, stack, over, stray, dangling>>

ShouldDeleteWhenFinished(o) ==
    /\ Busy
    /\ o \in Alive
    /\ autoDelete' = [autoDelete EXCEPT ![o] = ~@]
    /\ UNCHANGED <<kernelVars, life, pid, of, heard, listVars, stack, over, stray, dangling>>

\* Faulty variant: the object stays on the other list.
QuitAtExitToo(o) ==
    /\ Busy
    /\ o \in Alive
    /\ quitList' = quitList \cup {o}
    /\ UNCHANGED <<kernelVars, killList, objectVars, stack, over, stray, dangling>>

\* QuitAtExit and KillAtExit: an object is on one of the lists, or (Ignore) on none.
QuitAtExit(o) ==
    /\ Busy
    /\ o \in Alive
    /\ quitList' = quitList \cup {o} /\ killList' = killList \ {o}
    /\ UNCHANGED <<kernelVars, objectVars, stack, over, stray, dangling>>

KillAtExit(o) ==
    /\ Busy
    /\ o \in Alive
    /\ quitList' = quitList \ {o} /\ killList' = killList \cup {o}
    /\ UNCHANGED <<kernelVars, objectVars, stack, over, stray, dangling>>

Ignore(o) ==
    /\ Busy
    /\ o \in Alive
    /\ quitList' = quitList \ {o} /\ killList' = killList \ {o}
    /\ UNCHANGED <<kernelVars, objectVars, stack, over, stray, dangling>>

-----------------------------------------------------------------------------
(* Signals.                                                                *)

\* The group whose id JGetPGID finds: that of the child with the pid, or our own.
Group(n) ==
    IF n = 0 \/ \E c \in Named(n) : state[c] = "starting" THEN {"own group"} ELSE Named(n)

\* SendSignalToGroup, by every object in S.
Signal(S) ==
    /\ OwnGroup \/ \A o \in S : Group(pid[o]) # {"own group"}
    /\ stray' = (stray \/ \E o \in S : ~(Group(pid[o]) \subseteq {of[o]}))
    /\ dangling' = (dangling \/ ~(S \subseteq Alive))

\* Quit or Kill.
SendSignal(o) ==
    /\ Busy
    /\ o \in Alive
    /\ Signal({o})
    /\ UNCHANGED <<kernelVars, objectVars, listVars, stack, over>>

\* CleanUpProcesses.  Exit is called by the handler of SIGINT at any moment, and
\* by atexit.  The lists are walked one object after the other, but no code of the
\* application and no wait() runs in between: a child that exits meanwhile stays a
\* zombie, and its number is given to no other one.
CleanUp ==
    /\ Running
    /\ Signal(quitList \cup killList)
    /\ quitList' = {} /\ killList' = {}
    /\ over' = TRUE
    /\ UNCHANGED <<kernelVars, objectVars, stack>>

-----------------------------------------------------------------------------
(* Children that have finished.                                            *)

Telling(list, status) ==
    stack' = Append(stack, [list |-> list, i |-> 0, status |-> status,
                            auto |-> FALSE, pc |-> "next"])

Reap(c) == state' = [state EXCEPT ![c] = "gone"] /\ UNCHANGED number

\* Faulty variant: every object behind the first one is collected.
SamePidAll(n, status) ==
    \E list \in SetToSeqs({o \in Alive : pid[o] >= n}) : Telling(list, status)

\* Faulty variant: only one object is collected.
SamePidOne(n, status) ==
    \E o \in {p \in Alive : pid[p] = n} : Telling(<<o>>, status)

\* The objects for pid n are collected, in the order of theProcessList.
SamePid(n, status) ==
    \E list \in SetToSeqs({o \in Alive : pid[o] = n}) : Telling(list, status)

\* CheckForFinishedChild: waitpid reports one child that has exited.
CheckForFinishedChild ==
    /\ Busy /\ Len(stack) < MaxDepth
    /\ \E c \in Children :
          /\ state[c] = "zombie"
          /\ Reap(c)
          /\ SamePid(number[c], c)
    /\ UNCHANGED <<objectVars, listVars, over, stray, dangling>>

\* WaitUntilFinished returns when the child has exited, and at once, with a status
\* that was not set, when there is none: JWaitForChild never fails.
WaitUntilFinished(o) ==
    /\ Busy /\ Len(stack) < MaxDepth
    /\ o \in Alive /\ ~Finished(o)
    /\ SharedWait \/ (o \notin ToCome /\ \A p \in Alive \ {o} : pid[p] # pid[o])
    /\ LET c == Named1(pid[o])
       IN  /\ IF c = Nobody THEN UNCHANGED kernelVars ELSE state[c] = "zombie" /\ Reap(c)
           /\ Telling(<<o>>, c)
    /\ UNCHANGED <<objectVars, listVars, over, stray, dangling>>

\* The next object is told: it broadcasts, and the listeners are called.
Tell ==
    /\ Running /\ stack # <<>> /\ Top.pc = "next" /\ Top.i < Len(Top.list)
    /\ LET o == Top.list[Top.i + 1]
       IN  /\ dangling' = (o \notin Alive)
           /\ heard' = [heard EXCEPT ![o] = Append(@, Top.status)]
           /\ stack' = Front(stack) \o
                 <<[Top EXCEPT !.i = @ + 1, !.auto = autoDelete[o], !.pc = "telling"]>>
    /\ UNCHANGED <<kernelVars, life, pid, autoDelete, of, listVars, over, stray>>

\* Faulty variant: whether to delete it is only looked up now.
ToldLate ==
    /\ Running /\ stack # <<>> /\ Top.pc = "telling"
    /\ LET o == Top.list[Top.i]
       IN  /\ dangling' = (o \notin Alive)
           /\ IF autoDelete[o] THEN Destroyed(o) ELSE UNCHANGED <<life, listVars>>
    /\ stack' = Front(stack) \o <<[Top EXCEPT !.auto = FALSE, !.pc = "next"]>>
    /\ UNCHANGED <<kernelVars, pid, autoDelete, of, heard, over, stray>>

\* The listeners have returned.
Told ==
    /\ Running /\ stack # <<>> /\ Top.pc = "telling"
    /\ IF Top.auto THEN Destroyed(Top.list[Top.i]) ELSE UNCHANGED <<life, listVars>>
    /\ stack' = Front(stack) \o <<[Top EXCEPT !.auto = FALSE, !.pc = "next"]>>
    /\ UNCHANGED <<kernelVars, pid, autoDelete, of, heard, over, stray, dangling>>

AllTold ==
    /\ Running /\ stack # <<>> /\ Top.pc = "next" /\ Top.i = Len(Top.list)
    /\ stack' = Front(stack)
    /\ UNCHANGED <<kernelVars, objectVars, listVars, over, stray, dangling>>

-----------------------------------------------------------------------------
Environment == \E c \in Children : Lead(c) \/ Exit(c)

Application ==
    \/ \E o \in Objects, c \in Children, n \in Pids :
          \/ Create(o, c, n)
          \/ \E h \in Objects, d \in Children, m \in Pids : CreateWithHelper(o, c, n, h, d, m)
    \/ \E o, p \in Objects : Attach(o, p)
    \/ \E o \in Objects :
          \/ Delete(o) \/ ShouldDeleteWhenFinished(o)
          \/ QuitAtExit(o) \/ KillAtExit(o) \/ Ignore(o)
          \/ SendSignal(o) \/ WaitUntilFinished(o)

Loop == CheckForFinishedChild \/ Tell \/ Told \/ AllTold

Next == Environment \/ Application \/ Loop \/ CleanUp

\* The event loop calls CheckForFinishedChild again and again; listeners return.
Fairness ==
    /\ WF_vars(stack = <<>> /\ CheckForFinishedChild)
    /\ WF_vars(Tell) /\ WF_vars(Told) /\ WF_vars(AllTold)

Spec     == Init /\ [][Next]_vars
FairSpec == Spec /\ Fairness

-----------------------------------------------------------------------------
(* Properties.                                                             *)

\* No deleted object is used: not by the loop that tells the objects of a child
\* that it has finished, whatever their listeners delete, and not at exit by the
\* two lists.
NoDangling == ~dangling

\* An object says at most once that its child has finished, and it is the status
\* of that child: never that of another one, never one that was not set.
HeardOnce ==
    \A o \in Objects : Len(heard[o]) <= 1 /\ Range(heard[o]) \subseteq {of[o]}

\* A signal that an object sends, by itself or at exit, reaches the group of the
\* child it was made for or nobody; above all not the program's own group.
NoStray == ~stray

\* When a child has exited, every object for it says so, unless it is deleted or
\* the program ends first: there can be several, and all are told.
ExitIsHeard ==
    \A o \in Objects :
        (o \in Alive /\ of[o] # Nobody /\ \E c \in Children : c = of[o] /\ state[c] = "zombie")
            ~> (Finished(o) \/ o \notin Alive \/ over)
=============================================================================
