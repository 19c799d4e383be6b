---------------------------- MODULE SharedPrefs ----------------------------
(***************************************************************************)
(* The preferences that all JX programs share: a file of which one program *)
(* at a time is the owner (JFileArray::OKToCreateBase and the lock bit in  *)
(* its header, libjcore/code/JFileArray.cpp), and a signal file whose time *)
(* of modification tells the other running programs to read it again       *)
(* (libjx/code/JXSharedPrefsManager.cpp).                                  *)
(*                                                                         *)
(* Programs start, run and die at any point.  A file that is removed while *)
(* a program has it open lives on without a name.  Of the signal file only *)
(* this matters: is the time that a program has saved still its time?      *)
(***************************************************************************)
EXTENDS Naturals, FiniteSets

CONSTANTS
    Programs, Values,
    NoValue,          \* of a setting whose ID is not in the file
    Action,           \* the CreateAction with which the file is opened
    MaxAttempts,      \* kMaxAttemptCount
    Interrupted,      \* may others act, or the program die, where it looks at a
                      \* file and takes it, and where it gives it back and signals?
    SameSecond,       \* may the signal file be written twice in a second?
    MaxChanges, MaxDeaths, MaxEvictions    \* bounds: changes of a setting; deaths of
                      \* programs; removals of a file that a running program has open

ASSUME SharedPrefsAssumption ==
    /\ NoValue \notin Values /\ Values # {}
    /\ IsFiniteSet(Programs)
    /\ Action \in {"kFailIfOpen", "kTryWaitUntilCanOpen", "kDeleteIfWaitTimeout"}
    /\ MaxAttempts \in Nat \ {0}
    /\ {Interrupted, SameSecond} \subseteq BOOLEAN
    /\ MaxChanges \in Nat /\ MaxDeaths \in Nat /\ MaxEvictions \in Nat

VARIABLES
    path,        \* the file that has the name, or NoFile
    file,        \* the files: the lock bit; whether it is written in part (its header
                 \* and index are stale); and the setting in it
    pc, why,     \* of a program: where it is, and what it opens the file for
    at,          \* the file it has open: its itsFile, or NoFile
    tries,       \* how often it has found the file locked
    sure,        \* it is in the assertion that it may open the file
    mem, orig,   \* the setting as it uses it, and itsOrig... (NoValue: not set)
    seen,        \* itsSignalModTime is the time of the signal file
    changed,     \* it has to signal that it has written
    lost,        \* history: its file was removed under it; it has opened none since
    changes, deaths, evictions

fileVars == <<path, file>>
memVars  == <<mem, orig, seen, changed>>
pcVars   == <<pc, why, at, tries, sure>>
counters == <<changes, deaths, evictions>>
vars     == <<fileVars, pcVars, memVars, lost, counters>>

NoFile == 0
Inodes == 1 .. Cardinality(Programs) + 1
Empty  == [locked |-> FALSE, torn |-> FALSE, value |-> NoValue]

\* The files that are there: they have the name, or a program has them open.
InUse(name, open) == {name} \cup {open[p] : p \in Programs}

\* Where nothing may come between unless Interrupted.
Critical(p) == pc[p] \in {"found", "closing", "signalled"}
Alone(p)    == Interrupted \/ \A q \in Programs \ {p} : ~Critical(q)
Owners(i)   == {p \in Programs : at[p] = i}

TypeOK ==
    /\ path \in Inodes \cup {NoFile}
    /\ file \in [Inodes -> [locked : BOOLEAN, torn : BOOLEAN, value : Values \cup {NoValue}]]
    /\ pc \in [Programs -> {"dead", "idle", "checking", "waiting", "found",
                            "open", "used", "closing", "signalled"}]
    /\ why \in [Programs -> {"read", "write"}]
    /\ at \in [Programs -> Inodes \cup {NoFile}]
    /\ \A p \in Programs : at[p] # NoFile <=> pc[p] \in {"open", "used"}
    /\ tries \in [Programs -> 0 .. MaxAttempts - 1] /\ sure \in [Programs -> BOOLEAN]
    /\ mem \in [Programs -> Values \cup {NoValue}] /\ orig \in [Programs -> Values \cup {NoValue}]
    /\ \A p \in Programs : mem[p] = NoValue => pc[p] = "dead"
    /\ seen \in [Programs -> BOOLEAN] /\ changed \in [Programs -> BOOLEAN]
    /\ lost \in [Programs -> BOOLEAN]
    /\ changes \in 0 .. MaxChanges /\ deaths \in 0 .. MaxDeaths /\ evictions \in 0 .. MaxEvictions

Init ==
    /\ path = NoFile
    /\ file = [i \in Inodes |-> Empty]
    /\ pc = [p \in Programs |-> "dead"] /\ why = [p \in Programs |-> "read"]
    /\ at = [p \in Programs |-> NoFile]
    /\ tries = [p \in Programs |-> 0] /\ sure = [p \in Programs |-> FALSE]
    /\ mem = [p \in Programs |-> NoValue] /\ orig = mem
    /\ seen = [p \in Programs |-> FALSE] /\ changed = [p \in Programs |-> FALSE]
    /\ lost = [p \in Programs |-> FALSE]
    /\ changes = 0 /\ deaths = 0 /\ evictions = 0

Goto(p, l) == pc' = [pc EXCEPT ![p] = l]

\* A file that nothing refers to any more is gone.
Kept(files, name, open) ==
    [i \in Inodes |-> IF i \in InUse(name, open) THEN files[i] ELSE Empty]

-----------------------------------------------------------------------------
(* The life of a program.                                                  *)

\* The constructor; it calls GetAll.
Start(p) ==
    /\ pc[p] = "dead"
    /\ Goto(p, "checking")
    /\ \E v \in Values : mem' = [mem EXCEPT ![p] = v]
    /\ lost' = [lost EXCEPT ![p] = FALSE]
    /\ UNCHANGED <<fileVars, why, at, tries, sure, orig, seen, changed, counters>>

\* The program is no more.  What it had open stays as it is.
Dead(p) ==
    /\ Goto(p, "dead") /\ why' = [why EXCEPT ![p] = "read"]
    /\ at' = [at EXCEPT ![p] = NoFile]
    /\ tries' = [tries EXCEPT ![p] = 0] /\ sure' = [sure EXCEPT ![p] = FALSE]
    /\ mem' = [mem EXCEPT ![p] = NoValue] /\ orig' = [orig EXCEPT ![p] = NoValue]
    /\ seen' = [seen EXCEPT ![p] = FALSE] /\ changed' = [changed EXCEPT ![p] = FALSE]

\* The program ends or crashes.
Die(p) ==
    /\ pc[p] # "dead" /\ (Interrupted \/ ~Critical(p))
    /\ deaths < MaxDeaths /\ deaths' = deaths + 1
    /\ Dead(p)
    /\ file' = Kept(file, path, at')
    /\ UNCHANGED <<path, lost, changes, evictions>>

\* The file cannot be opened.  The members that only GetAll sets have any value if it
\* has never been called with success.
Failed(p) ==
    /\ Goto(p, "idle") /\ why' = [why EXCEPT ![p] = "read"]
    /\ tries' = [tries EXCEPT ![p] = 0] /\ sure' = [sure EXCEPT ![p] = FALSE]
    /\ IF orig[p] # NoValue THEN UNCHANGED <<orig, seen>>
       ELSE \E v \in Values, b \in BOOLEAN :
               orig' = [orig EXCEPT ![p] = v] /\ seen' = [seen EXCEPT ![p] = b]
    /\ UNCHANGED <<at, mem, changed>>

\* The user changes the setting in one program.
Change(p) ==
    /\ pc[p] = "idle"
    /\ changes < MaxChanges /\ changes' = changes + 1
    /\ \E v \in Values \ {mem[p]} : mem' = [mem EXCEPT ![p] = v]
    /\ UNCHANGED <<fileVars, pcVars, orig, seen, changed, lost, deaths, evictions>>

\* Update, every second: the settings are read if others have signalled, or else
\* written if they have changed here.
Update(p) ==
    /\ pc[p] = "idle"
    /\ IF seen[p] /\ mem[p] = orig[p] THEN UNCHANGED <<pc, why>>
       ELSE /\ Goto(p, "checking")
            /\ why' = [why EXCEPT ![p] = IF seen[p] THEN "write" ELSE "read"]
    /\ UNCHANGED <<fileVars, at, tries, sure, memVars, lost, counters>>

-----------------------------------------------------------------------------
(* JFileArray::Create.                                                     *)

\* FileIsOpen; when the file has gone the bytes that it reads are not set.
FoundLocked == IF path = NoFile THEN BOOLEAN ELSE {file[path].locked}

Found(p) ==
    /\ Goto(p, "found")
    /\ tries' = [tries EXCEPT ![p] = 0]
    /\ UNCHANGED <<why, at, sure, memVars>>

Wait(p, asserting) ==
    /\ Goto(p, "waiting")
    /\ tries' = [tries EXCEPT ![p] = 0] /\ sure' = [sure EXCEPT ![p] = asserting]
    /\ UNCHANGED <<why, at, memVars>>

\* OKToCreateBase, until it waits for the first time.
Check(p) ==
    /\ pc[p] = "checking" /\ Alone(p)
    /\ IF path = NoFile \/ ~file[path].locked THEN Found(p)
       ELSE IF Action = "kFailIfOpen" THEN Failed(p) ELSE Wait(p, FALSE)
    /\ UNCHANGED <<fileVars, lost, counters>>

\* Faulty variant: when the time is up the file is opened although it is locked.
TimeoutKeeping(p) ==
    /\ path = NoFile \/ Owners(path) = {}
    /\ Found(p)
    /\ file' = [file EXCEPT ![path].locked = FALSE]
    /\ UNCHANGED <<path, lost, evictions>>

\* The last attempt has failed.  "if (kDeleteIfWaitTimeout)" tests a constant, so that
\* whatever the action is the file is removed, whoever has it open and however briefly;
\* and that fails if it is not there.  In the assertion the constructor then fails to
\* open the file.
Timeout(p) ==
    LET owners == IF path = NoFile THEN {} ELSE Owners(path)
    IN  /\ owners # {} => evictions < MaxEvictions
        /\ evictions' = evictions + (IF owners = {} THEN 0 ELSE 1)
        /\ lost' = [q \in Programs |-> lost[q] \/ q \in owners]
        /\ IF sure[p] THEN Dead(p) ELSE IF path = NoFile THEN Failed(p) ELSE Found(p)
        /\ path' = NoFile
        /\ file' = Kept(file, NoFile, at)

\* Faulty variant: one attempt too many.
RetryOnceMore(p) ==
    /\ pc[p] = "waiting" /\ Alone(p)
    /\ \E l \in FoundLocked :
          \/ ~l /\ Found(p) /\ UNCHANGED <<fileVars, lost, evictions>>
          \/ /\ l /\ tries[p] < MaxAttempts
             /\ tries' = [tries EXCEPT ![p] = @ + 1]
             /\ UNCHANGED <<fileVars, pc, why, at, sure, memVars, lost, evictions>>
          \/ l /\ tries[p] = MaxAttempts /\ Timeout(p)
    /\ UNCHANGED <<changes, deaths>>

\* An attempt, after a delay.
Retry(p) ==
    /\ pc[p] = "waiting" /\ Alone(p)
    /\ \E l \in FoundLocked :
          \/ ~l /\ Found(p) /\ UNCHANGED <<fileVars, lost, evictions>>
          \/ /\ l /\ tries[p] + 1 < MaxAttempts
             /\ tries' = [tries EXCEPT ![p] = @ + 1]
             /\ UNCHANGED <<fileVars, pc, why, at, sure, memVars, lost, evictions>>
          \/ l /\ tries[p] + 1 = MaxAttempts /\ Timeout(p)
    /\ UNCHANGED <<changes, deaths>>

Open(p, i) ==
    /\ path' = i /\ lost' = [lost EXCEPT ![p] = FALSE]
    /\ at' = [at EXCEPT ![p] = i]
    /\ file' = [file EXCEPT ![i].locked = TRUE]
    /\ Goto(p, "open") /\ sure' = [sure EXCEPT ![p] = FALSE]
    /\ UNCHANGED <<why, tries, memVars>>

\* Faulty variant: a file that was there is not locked.
BuildUnlocked(p) ==
    /\ pc[p] = "found" /\ Alone(p)
    /\ \E i \in IF path = NoFile THEN Inodes \ InUse(path, at) ELSE {path} :
          /\ path' = i
          /\ at' = [at EXCEPT ![p] = i]
          /\ file' = [file EXCEPT ![i].locked = (path = NoFile)]
    /\ Goto(p, "open") /\ sure' = [sure EXCEPT ![p] = FALSE]
    /\ UNCHANGED <<why, tries, memVars, lost, counters>>

\* The constructor: a new file is made if there is none.  Else it asserts OKToCreateBase
\* once more, which waits again if somebody else has locked the file, and opens it.
\* The file is locked.
Build(p) ==
    /\ pc[p] = "found" /\ Alone(p)
    /\ IF path = NoFile
       THEN IF sure[p] THEN Dead(p) /\ UNCHANGED <<fileVars, lost>>
                       ELSE \E i \in Inodes \ InUse(path, at) : Open(p, i)
       ELSE IF sure[p] \/ ~file[path].locked THEN Open(p, path)
            ELSE /\ IF Action = "kFailIfOpen" THEN Dead(p) ELSE Wait(p, TRUE)
                 /\ UNCHANGED <<fileVars, lost>>
    /\ UNCHANGED counters

-----------------------------------------------------------------------------
(* The file is open.                                                       *)

\* Faulty variant: it is not signalled that what was missing has been written.
ReadQuietly(p) ==
    LET stored == file[at[p]].value
        v      == IF stored = NoValue THEN mem[p] ELSE stored
    IN  /\ mem' = [mem EXCEPT ![p] = v] /\ orig' = [orig EXCEPT ![p] = v]
        /\ file' = [file EXCEPT ![at[p]].value = v, ![at[p]].torn = TRUE]
        /\ changed' = [changed EXCEPT ![p] = FALSE]

\* Faulty variant: itsOrig... is not set to what is read.
ReadStale(p) ==
    LET stored == file[at[p]].value
        v      == IF stored = NoValue THEN mem[p] ELSE stored
    IN  /\ mem' = [mem EXCEPT ![p] = v]
        /\ orig' = [orig EXCEPT ![p] = IF @ = NoValue \/ stored = NoValue THEN v ELSE @]
        /\ file' = [file EXCEPT ![at[p]].value = v, ![at[p]].torn = (stored = NoValue)]
        /\ changed' = [changed EXCEPT ![p] = (stored = NoValue)]

\* GetAll: a setting that is missing is written.
Read(p) ==
    LET stored == file[at[p]].value
        v      == IF stored = NoValue THEN mem[p] ELSE stored
    IN  /\ mem' = [mem EXCEPT ![p] = v] /\ orig' = [orig EXCEPT ![p] = v]
        /\ file' = [file EXCEPT ![at[p]].value = v, ![at[p]].torn = (stored = NoValue)]
        /\ changed' = [changed EXCEPT ![p] = (stored = NoValue)]

\* PrivateSet..., of everything.
Write(p) ==
    /\ orig' = [orig EXCEPT ![p] = mem[p]]
    /\ file' = [file EXCEPT ![at[p]].value = mem[p], ![at[p]].torn = TRUE]
    /\ changed' = [changed EXCEPT ![p] = TRUE]
    /\ UNCHANGED mem

Use(p) ==
    /\ pc[p] = "open" /\ Alone(p)
    /\ IF why[p] = "read" THEN Read(p) ELSE Write(p)
    /\ Goto(p, "used")
    /\ UNCHANGED <<path, why, at, tries, sure, seen, lost, counters>>

\* Close: the file is deleted, that is, its header and index are written, and the
\* lock bit with them; ...
Close(p) ==
    /\ pc[p] = "used" /\ Alone(p)
    /\ at' = [at EXCEPT ![p] = NoFile]
    /\ file' = Kept([file EXCEPT ![at[p]].locked = FALSE, ![at[p]].torn = FALSE], path, at')
    /\ Goto(p, "closing")
    /\ UNCHANGED <<path, why, tries, sure, memVars, lost, counters>>

\* ... if something was written, NotifyChanged writes the signal file ...
Signal(p) ==
    /\ pc[p] = "closing" /\ Alone(p)
    /\ \/ changed[p] /\ seen' = [q \in Programs |-> FALSE]
       \/ (changed[p] => SameSecond) /\ UNCHANGED seen
    /\ changed' = [changed EXCEPT ![p] = FALSE]
    /\ Goto(p, "signalled")
    /\ UNCHANGED <<fileVars, why, at, tries, sure, mem, orig, lost, counters>>

\* ... and SaveSignalModTime remembers its time.
Save(p) ==
    /\ pc[p] = "signalled" /\ Alone(p)
    /\ seen' = [seen EXCEPT ![p] = TRUE]
    /\ Goto(p, "idle") /\ why' = [why EXCEPT ![p] = "read"]
    /\ UNCHANGED <<fileVars, at, tries, sure, mem, orig, changed, lost, counters>>

-----------------------------------------------------------------------------
Program(p) ==
    \/ Update(p)
    \/ Check(p) \/ Retry(p) \/ Build(p)
    \/ Use(p) \/ Close(p) \/ Signal(p) \/ Save(p)

Next == \E p \in Programs : Start(p) \/ Die(p) \/ Change(p) \/ Program(p)

Spec     == Init /\ [][Next]_vars
\* Every program runs on, and its timer goes off again and again.
FairSpec == Spec /\ \A p \in Programs : WF_vars(Program(p))

-----------------------------------------------------------------------------
(* Properties.                                                             *)

\* "Only one process at a time can open the disk file": the lock bit is a look and
\* a write, programs die with it set, and those who waited remove the file.
OneOwner ==
    \A p, q \in Programs : p # q /\ at[p] # NoFile => at[p] # at[q]

\* What a program has opened and not written to yet was complete: it was closed by
\* the one who wrote it, and is not what a program left that died.
NothingTorn ==
    \A p \in Programs : pc[p] = "open" => ~file[at[p]].torn

\* A program that waits for the timer, has seen the last signal and has nothing to
\* write uses the setting that is in the file, unless that is open; or it lost the
\* file that it had read or written, to one that waited too long.
UpToDate ==
    \A p \in Programs :
        pc[p] = "idle" /\ seen[p] /\ mem[p] = orig[p] /\ ~lost[p] /\ path # NoFile
            /\ ~file[path].locked /\ (\A q \in Programs : ~Critical(q))
        => file[path].value = mem[p]

\* When nobody changes a setting, dies or removes a file in use any more, all running
\* programs leave the file alone, and use the same setting, if they have not lost it.
Settled == \A p \in Programs : pc[p] = "dead" \/ (pc[p] = "idle" /\ seen[p])
Agreed  ==
    \A p, q \in Programs :
        pc[p] # "dead" /\ pc[q] # "dead" /\ ~lost[p] /\ ~lost[q] => mem[p] = mem[q]
Converges == <>[](\A p \in Programs : pc[p] = "dead") \/ <>[](Settled /\ Agreed)

\* The file is not removed, unless the program has asked for that: "If somebody else
\* never closes the file, Create() will fail."
FileKept == [][Action # "kDeleteIfWaitTimeout" /\ path # NoFile => path' # NoFile]_vars
=============================================================================
