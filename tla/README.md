# Verification of the JX application framework

TLA+ models of the core of JX (`src/libjcore`, `src/libjx`), configurations that
model-check them with TLC, and theorems about them that TLAPS has proved.

JX is a C++ framework for X11 applications.  `libjcore` is the part without user
interface (broadcasting, containers, strings, files, processes, undo); `libjx` is
the user interface (event loop, windows, widgets, documents).  A JX program has one
thread.  What makes it hard is not parallelism but **re-entrancy**: practically
every library operation ends in a call of application code (a `Receive`, a
`Perform`, a virtual `Close`, a destructor), and "anything could happen" in it
(`JBroadcaster.cpp`), the deletion of the object that made the call included.  The
only asynchronous actors are signal handlers, child processes and other X clients.

The models therefore share one shape: a `stack` variable holds the activations of
the library code that are in progress, and one action is the code between two
points where control may pass to application code.  Where application code runs, the
next step is any operation it could call.

## 1. Inventory

| Component | State | Operations | Who it calls | Module |
|---|---|---|---|---|
| Broadcaster (`JBroadcaster`) | recipients, senders, registered pointers of each object | `ListenTo`, `StopListening`, `ClearWhenGoingAway`, `Broadcast`, destruction | `Receive`, `ReceiveGoingAway` of other objects | `Broadcaster` |
| Ordered sets and iterators (`JOrderedSet`, `JArray`, `JOrderedSetIterator`, `JTaskIterator`) | the elements, the iterators attached to the set | insert, remove, replace, move, swap, assign; iterator moves | listeners, then iterators | `OrderedSet` |
| Sorted search (`JArray::SearchSorted1`) | bounds and last comparisons | binary search for the first, last or any match | the comparison function | `SortedSearch` |
| Event loop and tasks (`JXApplication`, `JXIdleTask`, `JXUrgentTask`) | urgent list, idle list and stack of idle lists, blocking-window flag | install, remove, perform; open and close a blocking window | `Perform`, the reactor, menus and mouse handlers | `EventLoop` |
| Signals (`JThisProcess`) | list of pending signals and its count | signal handler, `CheckForSignals` | listeners of the signal | `EventLoop` |
| Director tree and documents (`JXDirector`, `JXWindowDirector`, `JXDocument`, `JXDocumentManager`) | subdirectors, active and closing flags, document list, who must stay open | open, show, hide, close, quit | each other, recursively; the user | `Documents` |
| Child processes (`JProcess`, lists of `JThisProcess`, `JExecute`) | list of live objects, their pids and flags, lists to quit and to kill | create, attach, signal, reap, wait, delete, end of the program | listeners of `Finished`; the kernel | `Processes` |
| File archive (`JFileArray`, `JFileArrayIndex`) | bytes on the disk, index and its offset in memory | set, insert, remove, move, swap, embed, flush, close, open | the file system; the file around an embedded one | `FileOfElements`, `FileLayout` |
| Shared preferences and the lock of a file (`JXSharedPrefsManager`, `JFileArray::Create`) | lock bit, settings in the file and in each program, the time of the signal file | open and wait for the lock, read, write, signal, notice | other programs, through files | `SharedPrefs` |
| Selections (`JXSelectionManager`) | the property, the owner, the queues of events; where each side of a transfer is | ask, answer whole or in chunks, wait, give up, become the owner | other programs, through the X server | `Selections` |
| Suspension, quitting (`JXDirector`, `JXApplication`) | suspend counts, quit flag | | each other | planned |
| Hash tables (`JHashTable`) | slots, with their "empty", "removed" marks | set, remove, cursors | | planned |
| Run arrays (`JRunArray`) | runs | insert, remove, set | listeners | planned |
| MDI server, message protocols | sockets, messages received in pieces | | other processes | planned |
| Undo chain of `JTextEditor` | undo list, first-redo index, the saved position | | | planned |
| Drag-and-drop (`JXDNDManager`) | the target, pending answers, time-outs | | other X clients | planned |
| Windows, widgets, menus, tables, strings, regular expressions, plot, 3D, `libjexpr`, `libjfs`, applications, vendored code | | | | not planned, section 8 |

How they interact: everything derives from `JBroadcaster`.  The list of recipients
is itself a `JPtrArray`, and a broadcast runs over it with a `JTaskIterator`; the
urgent and idle task lists are too.  Containers are broadcasters: a change of a
`JArray` is announced to its listeners by a broadcast and to its iterators by
`NotifyIterators`.  The event loop calls tasks, which close documents, whose
destructors broadcast.  Child processes are reaped from the event loop, and their
objects broadcast.  Other programs are met in three places: a file that several of them
keep preferences in, the X server that hands selections around, and signals.  The idle tasks defer deletion (`JXDeleteObjectTask`,
`JXCloseDirectorTask`), which is why they must not run beneath a blocking window that
some code on the stack has opened.

### What must be right

* *Broadcaster*: the two ends of every connection agree; nothing refers to an object
  that is gone; a pass reaches exactly the recipients it began with that have not left.
* *Ordered set*: iterators and saved indices stay with their elements.
* *Search*: the answer is the match asked for, or the one place to insert.
* *Event loop*: a task is on one list; one that was installed before a blocking window
  was opened does not run until the window is gone; an urgent task is performed once; a
  pass ends; a signal is broadcast once, in order, and not beneath a blocking window.
* *Child processes*: each object hears once, of its own child; a signal goes to that child or
  to nobody; nothing deleted is used, whatever listeners delete.
* *File archive*: the bytes are always the list of elements that was asked for, an embedded file
  included, after closing, opening and a crash between two operations.
* *Shared preferences*: one program owns the file; what a dead one left is neither read nor waited for
  without end; all programs come to agree.
* *Selections*: all the data of one owner, or none; no failure without a reason; the two sides never
  wait for each other.
* *Documents*: a needed document outlives those that need it; an invisible document
  that nobody needs is closed; changes are not lost without a question; recursive
  closing neither trips on itself nor goes on for ever.

`PROJECT.json` lists, under "hazards", the lines where each of these could go wrong.

## 2. Modules

| Module | Is |
|---|---|
| `IteratorCursor` | what an insertion or removal does to the cursor of a `JOrderedSetIterator` and of a `JTaskIterator`, as operators |
| `Broadcaster` | `JBroadcaster` with its lists, its iterators and the call stack |
| `Multicast` | the abstract specification of a broadcaster: connections, and who is still owed a message |
| `CursorLemmas` | lemmas on lists without repetitions and on cursors, which the other proofs use |
| `BroadcasterProofs` | the proofs for `Broadcaster`, the refinement of `Multicast` included |
| `OrderedSet` | `JArray` as a `JOrderedSet`: changes, messages, iterators |
| `SortedSearch` | the binary search of a sorted `JArray` |
| `ArrayProofs` | the proofs for `OrderedSet` and `SortedSearch` |
| `EventLoop`, `EventLoopProofs` | tasks, blocking windows and signals; the proofs |
| `Documents` | the tree of documents and the document manager |
| `OrderlyDocuments`, `DocumentsProofs` | what a program must observe when documents supervise others; the proofs |
| `Processes`, `ProcessesProofs` | child processes, their objects and the two lists for the end of the program; the proofs |
| `FileOfElements` | the abstract specification of a file archive: lists of elements with IDs |
| `FileLayout` | `JFileArray` as bytes: header, elements, index, embedded files |
| `SharedPrefs` | the shared preferences and the lock they rest on |
| `FileArrayProofs` | the proofs for `FileLayout`, the refinement of `FileOfElements` included, and for `SharedPrefs`: what is done with the file of an array, and by whom |
| `Selections`, `SelectionsProofs` | a selection's way from one program to another; the proofs |
| `MC...` | instances: symmetry, sets of inputs, restricted next-state relations |

`IteratorCursor` is shared by `Broadcaster`, `OrderedSet` and `EventLoop`: all three
run over lists that change under them, and the cursor arithmetic is the same code.

Definitions called *Faulty variant* are not part of a model.  Each changes one
definition the way a plausible mistake in the code would, and one property of the
module is known to fail with it; `PROJECT.json` pairs them under "mutants".

### Broadcaster

`recipients[s]` and `senders[o]` are `itsRecipients` and `itsSenders` (the order of the
latter is never observed, so it is a set), `clearPtrs[o]` the senders with an entry in
`itsClearPointers`.  `status` tells a freed address from an object and from one inside its
destructor; freed addresses are reused by `Create`.  Frames of the stack are application
code ("user"), the loop of `BroadcastPrivate` ("bcast") and `~JBroadcaster` ("dtor").
`BroadcastWithFeedback` has the same loop, and is the same action.  A call on an object in
its destructor ends in the empty method of the base class (`Called`).  An emptied list is
deleted by `RemoveRecipient` and its iterators end, but not in `~JBroadcaster`'s own loop;
both are in `AfterRemoveRecipient` and `NotifyGoingAway`.

### OrderedSet

A change is made, broadcast to the listeners one by one (`Tell`, `Return`), then told to the
iterators (`NotifyIterators`), as in `JArray`.  Elements are distinct, so that "the same
element" has a meaning.  Each listener keeps one index with `AdjustIndex`.  Iterators carry
the history of a pass (`start`, `got`).  A replaced element counts as another element.

### SortedSearch

One action per comparison.  Elements are integers with the usual order: the code sees only
the result of the comparison function, which is assumed to be a total order on the
elements.  `Midpoint` is the code's expression.  Integers are unbounded here; the model
says that the expression is the middle, not that it does not overflow.

### EventLoop

`idle` is the stack of idle lists with the current one last, `urgent` is `itsUrgentTasks`.
A pass over urgent tasks takes the whole list; a pass over idle tasks runs over the current
list with a `JTaskIterator`, and ends in the reactor and `CheckForConnections`, which run application code.
`Go` looks at `itsUrgentTasks` only, as `InstallUrgentTask` does: a task that passes have taken may be installed again, while it is
performed and before, and is then taken again by a pass of a nested loop.  The history variable `owed` counts the calls of `Go` that
have not been answered by a call of `Perform`, nor called off by the task's deletion.  `installedAt` counts, of the windows
that were open when an idle task was installed, those that are open still.  `EnterWindow` to `CloseWindow` is the loop of
`JXUserNotification::WaitForResponse`, over `HandleOneEventForWindow`.  The handler `Raise` may
run between any two steps of the thread; the reading of the count and its reset at the end of
`CheckForSignals` are two steps.  A handler runs as a whole (see section 8).  The time between
two calls of an idle task is abstracted away: it may be performed in any pass.

### Documents

`supervisor` and `needs` are inputs, fixed in each behaviour: who supervises a document, and the
relation `NeedDocument` computes.  The header of `JXDocument` requires the latter to be acyclic, and
`MCNeedGraphs` are all the acyclic ones.  `Open` is the constructor, with `AddDirector` and
`DocumentCreated`.  The recursion is on the stack: `close`, `closable` ... are the steps of
`JXDocument::Close` and `JXDirector::Close`, `first` of `CloseAllSubdirectors`, `scan` of
`CloseDocuments`, `deactivate` of `Deactivate`.  `OKToClose` chooses the user's answer, the failure of
the save included.  A violated assertion, an index past the end, or a call of a pure virtual
function from a destructor sets `failed`.

### Processes

Three parties: the kernel and the children (`Lead` makes the group, `Exit`), the application, and the
interrupt that ends the program at any moment (`CleanUp`).  The frames of the stack are the loops over the
objects of a finished child; application code runs where a listener was called.  `heard[o]` is what `o` has
broadcast, `of[o]` the child it was made for, so that a pid given to another child shows.  A `dangling` use
ends the behaviour, as everything may happen after it.

### FileLayout

The disk is a sequence of cells: the header, an index entry, a size, or a byte of data.  An element that holds a
file is an element whose data are such cells again, and each file's operations go through the stream of the
one around it, so the arithmetic of offsets is all there is to state.  Moves go in blocks of `MaxTempMem` cells in
the order of the code (`BlocksDown` is its loop in closed form: all blocks are full but the last).  `SetFileLength` and `SetElementSize` call each other in
the code, one level of embedding after the other; here `SetFileLength` is a function on files, and `Resized` takes it as an argument.  An element with the
right ID that holds data is not opened as a file (`OKToCreateEmbedded`).  `KeepsContents` is a refinement: the contents that a program would read if it opened
the files now (`ContentsIn`, which opens the closed ones with `ReadHeader`) change only as `FileOfElements` says: as one
operation on the list of one file; that it is the operation that was called, with its arguments, is in the actions and not in that property.

`disk.ok` says that no assertion has failed (`Asserted`).  It stands for: the mark of `SetReadWriteMark` (`JFileArray.cpp:1669`), before each
write (`Marked`) and before each read, of blocks that are moved, sizes, headers, indices and elements (`Readable`); the elements of the enclosing files that
`GetStartOfFile` and `GetFileLength` look up (`Reached`); that no read runs into the end of the disk, which the code tests after the index (:1491) and
the model after every read that an operation makes; the offsets of `ExpandData` and `CompactData`; no negative offset (`JFileArrayIndex.cpp:145`); the type of
entries read (:520); and the element of an embedded file that is opened or closed, whose ID no other one has (:192, :374, :401; `HasPlace`).
That an embedded file is not opened twice and that the inner files are closed first (:375, `JFileArray.cpp:491`) are guards here, since they are
rules for the application.  An embedded file that is not there is first appended as an element, which is flushed, and then made a file (`OpenEmbedded`).

The program dies between two operations (`Crash`).  If it dies inside one, after data has been moved and before `FlushChanges`, the header and
the index on the disk are those from before and point to what has moved; the code has nothing to repair that, and the model does not have this case.

### SharedPrefs

A file that is removed while it is open lives on without a name, hence `path` and `file`.  `OKToCreateBase` is the
steps `Check`, `Wait`, `Retry`, `Timeout`, and `Found` and `Open` are `Create` and the constructor.  Of the signal file only
this matters: is the time that a program saved still its time (`seen`)?  There is one setting; several would
be read and written together.  `Timeout` removes the file after the last attempt, whoever has it open and however
briefly, as the code does.  The history variable `lost` says that this has happened to the file that a program had open,
until it opens one again: what it then writes, or what it has just read, is not in the file that the others see (section 5).

### Selections

Each program has one thread, which waits for the X server in a loop that looks only for the events it needs; so
where it is (`act[p].pc`), its queue, and its window's property are its whole state.  The server has no actions: what
it does on a request is part of the action that makes the request.  The data of a type are `Length` numbered units of
the program that owned the selection, so that missing, doubled and mixed chunks show.  `asked` and `excused` are history:
who owned the selection then, and whether something has happened that excuses a failure.  Whether a request is refused is left open, as
the times of ownership are not modelled.  `GetAvailableTypes` and `GetData` are the same transfer, of the list of types and of the data
of a type.  When the request for the list fails, for a clipboard that has an owner, `GetAvailableTypes` still returns `kJTrue`, with `XA_STRING` as the only
type (`JXSelectionManager.cpp:185-196`, for terminals that do not know the list).  That guess is not in the model: `WholeOrNothing` and `NoNeedlessFailure` are about the transfer before it.

## 3. Runs

"D" is the number of distinct states.

| Run | Instance | D | Shows |
|---|---|---|---|
| `broadcaster_hub` | 2 objects, connections to one of them (itself included), 7 frames | 74,000 | `TypeOK`, `ConnectionsSymmetric`, `NoDanglingConnection`, `PassIsExact`; the abstract `Multicast` is implemented (`KeepsPromise`); every broadcast and destructor ends (`ReturnsToEventLoop`) |
| `ordered_set_passive` | 5 elements, 2 listeners that only adjust their index, 1 iterator | 585,000 | `TypeOK`, `IteratorRobust`, `IndexFollows` |
| `sorted_search` | every sorted array of length 0 to 6 over 3 values, targets on, between and beside them | 13,000 | `AnswerCorrect`, `Terminates` |
| `event_loop` | 2 urgent, 1 idle task, 2 nested windows (1 from a signal's listener), 3 signals, list of 2 | 1,301,000 | `TypeOK`, `OneListPerIdleTask`, `SafeToPerform`, `UrgentOnce`, `DeliveredInOrder`, `PassEnds` |
| `event_loop_signal_lost` | 2 signals | | `SignalsKept` **fails** |
| `documents_tree` | 3 documents, of which one may supervise the others; the relations of need that follow the tree | 296,000 | `TypeOK`, `AssertionsHold`, `NothingLingers`, `NothingLost`, `NeededStayOpen`, `CallsReturn` |
| `documents_nested` | 2 documents, one may supervise the other | | `AssertionsHold` **fails** |
| `processes` | 2 children, 2 objects, 2 pids, calls nested twice | 59,000 | `TypeOK`, `NoDangling`, `HeardOnce`, `NoStray`, `ExitIsHeard` |
| `file_layout` | a file of up to 2 elements with a file of up to 2 elements embedded, data of 1 and 3 cells, moved 2 at a time, changes flushed | 23,000 | `LayoutTypeOK`, `AssertionsHold`, `KeepsContents` |
| `shared_prefs` | 2 programs, 2 values, `kDeleteIfWaitTimeout`, 2 attempts, 2 changes, 2 deaths, 1 removal of a file in use | 306,000 | `TypeOK`, `OneOwner`, `NothingTorn`, `UpToDate`, `Converges` |
| `shared_prefs_wait` | the same with `kTryWaitUntilCanOpen` | | `FileKept` **fails** |
| `selections` | 1 program asks, 2 own, 1 selection; a type of 1 and one of 3 units, chunks of 2; 1 death, 1 allocation error | 74,000 | `TypeOK`, `WholeOrNothing`, `NoNeedlessFailure`, `EachReturns` |

### Why the bounds are enough

* `MaxDepth` 7 holds three library activations and the application code in each (loop within loop,
  destructor within loop, loop within destructor).  Two objects are enough for an object to be on both ends, and for a
  removal at and beside the cursor.  The theorems of section 6 are for every number of objects and every depth.
* Five elements leave two on each side of a removed run; one change at a time is all there is when
  listeners are passive.  The theorems of section 6 are for every number of elements, listeners and iterators.
* Six elements make the bisection run at least twice from either side, and three values make runs of
  equal elements that begin, end and lie inside the array.  The theorems are for every array.
* Two windows nest; of two urgent tasks, one can be waiting, and taken by a nested pass, while an outer pass has it before it.  A list of two
  with three signals overflows, and is emptied and filled again.  A second idle task, which lets one be moved by the removal of the other, makes
  the run too long; with two of them it passes with one urgent task (3 signals, list of 2; 527,000 states), and with two urgent tasks and one
  signal (1,124,000).  The theorems are for any tasks, windows and signals.
* Three documents are the shortest chain in which a document is kept open by one that is itself
  kept open.  Changes and the flag to stay open are limited to one document, which is the one that may
  supervise others: since all relations of need are tried, it plays every role in them.  The theorems need
  neither these limits nor that the relation of need has no cycles, and are for any number of documents.
* `documents_tree` also leaves out the situations of section 5: a document that supervises others is needed by
  nobody and, once told to stay open, stays so as long as the program runs (`OrderlyNext`); a document with
  another supervisor than the application is needed only by documents with the same one (`NeedsFollowTree`).
  These are the conditions of `OrderlyDocuments`, under which the theorems hold as well.
  Documents of the application may need one another in every acyclic way.
* Two objects can be for one child or for two, and either can be told inside the other's listener; two pids let one be
  given to another child.  The theorems are for any number of both.
* Two elements around or inside an embedded file put something in front of and behind each change, at both levels;
  three cells moved two at a time need two blocks, one short.
* Two programs with two deaths: one may die and start again while the other waits, writes or dies; or start again and wait as well for what it
  left, so that one removes it and the other looks, for the last time, while the new owner has the new one.  Three programs with
  two changes, one death and two removals were checked once with the invariants (3.7 million states up to symmetry).
* Three units in chunks of two make a full chunk, one that is not full and the empty one.  Two owners are needed for a change of
  owner between the announcement and the transfer.  Two programs that both ask and own were checked once with all four
  properties (207,000 states), and two that ask with two that own, one of them both, with the invariants (7.4 million).
  The theorems are for any number of programs, and data and chunks of any length.

`MCBroadcaster`'s `HubNext` and `MCDocuments`' `LimitedNext` restrict only what application code
and the user do, never the library.  Bounds in guards are `MaxDepth`, `MaxNesting`, `MaxWindows`, `MaxWindowsInSignals`,
`MaxRaised`, `MaxElements`, `MaxChanges`, `MaxDeaths`, `MaxEvictions`, `MaxQueue` and `MaxAllocErrors`; each is a bound on how far application code, users or mishaps go,
declared where the module begins.  `MaxEvictions` bounds how often the file is removed while a running program has it open; two programs that always wait too long could do that to each other for ever.

`SortedSearch` and `Processes` stop (the search is over, the program has ended): their runs do not look for
deadlocks.  `documents_nested` does not either, since a failed assertion ends the program.

## 4. Fairness

* `Broadcaster`: weak fairness of the library's loops (nothing else can run meanwhile), strong
  fairness of `Return` at each depth: application code may make any number of calls before it
  returns, but does return.  Without the last assumption nothing ends, in the code either.
* `EventLoop`: weak fairness of the library's steps, a task's return included.  Nothing makes the
  user dismiss a window: `PassEnds` promises nothing while one is open.  Signals may go on arriving up
  to `MaxRaised`; a loop that is fed signals for ever need not end, in the code either.
* `Documents`: weak fairness of the calls in progress; the user answers each dialog.
* `SortedSearch`: weak fairness of the loop.
* `Processes`: weak fairness of the loop's steps: the event loop looks for finished children again and again, and listeners
  return.  Nothing makes a child exit.
* `SharedPrefs`: weak fairness of each program's own steps: the operating system schedules it, its timer goes off.  Starting, changing a
  setting and dying are not fair; nor is the removal of a file in use assumed to end by itself, but `MaxEvictions` bounds it: `Converges` says what
  comes after the last one.
* `Selections`: weak fairness of the steps of a transfer; strong fairness of the dispatch of requests, as a program may ask
  for something itself each time before it comes to its events.  A wait is certain to end by its time only if what it waits for
  cannot come any more (`Hopeless`), so that `EachReturns` shows that nothing else makes it wait.  It would be true of any protocol, and say
  nothing, if the five seconds ended every wait.

## 5. Where the code and its documentation disagree

Three are the violated property of a run.

* `documents_nested` (`JXDirector.cpp:82`).  A document is told it need not stay open any more while it is
  invisible; `CloseDocuments` closes it, which closes its subdocument, whose destructor calls
  `CloseDocuments` again.  The supervisor is still listed, so it is closed again inside its own `Close`, and
  `assert( !itsClosingFlag )` fails.
* `event_loop_signal_lost` (`JThisProcess.cpp:373`).  A signal that arrives between the last test of the loop and
  the reset of the count is dropped, though there was room for it.
* `shared_prefs_wait` (`JFileArray.cpp:260`).  `if (kDeleteIfWaitTimeout)` tests the constant, not the action: a program that
  only wants to wait removes the file of the owner when its time is up (doc: lines 174-177).

The others are states that the runs exclude by a constant, which says what it takes for granted.  Each was found with TLC by
giving the constant the other value, in the run's instance if nothing else is said.

| Instance | Fails | Because |
|---|---|---|
| `event_loop`, with `ChecksOutsideWindows` checked | `ChecksOutsideWindows` | `JXApplication.cpp:695`: the flag "a window blocks" is cleared, not restored.  After a window opened inside another one is dismissed, the outer one's loop runs the reactor, child processes and signals, of which the comment at :1020 says they must not run there.  It holds with `MaxWindows = 1` |
| `MaxWindowsInSignals = 2` | `DeliveredInOrder` | the same; signals are then taken from the list by two loops at once |
| 1 urgent task, 1 window, `OwnersDelete = FALSE` | `TakenTasksExist` | `JXApplication.cpp:1047`: a task that calls `Go` again while it is performed and then opens a window is taken, performed and deleted by the pass of the window's loop, and deleted again by the pass that performed it.  `UrgentOnce` is about installation and performance and holds; who installs a task twice must not rely on its deletion.  In `src/` every `Go` is called once, on a new task |
| `OwnersDelete = TRUE`, 2 urgent tasks | `TakenTasksExist` | `JXApplication.cpp:1066`: a pass takes the urgent tasks into a list of its own; the destructor of a task (`JXUrgentTask.cpp:4`) takes it off `itsUrgentTasks` only.  Tasks with owners that delete them are in `JXScrollableWidget.cpp:403` and `JXCSFSelectPrevDirTask.cpp:59` |
| `MCOrderedSet` with `ChangingSpec`, 3 elements, 1 listener, nesting 2 | `IteratorRobust` | `JArray.tmpl:193`: iterators hear of a change after the listeners.  If a listener changes the set again, they hear of the two in the opposite order, and a cursor may end outside the set (`JOrderedSetIterator.tmpl:22` promises otherwise) |
| `documents_nested` with `FairSpec` and `CallsReturn` | `CallsReturn` | a document cannot be closed when another one needs one of its subdocuments, or when it does so itself: the subdocument hides itself, returns `kJTrue` and is moved to the end of the list, of which it may be the only element, again and again (`JXDirector.cpp:121`) |
| `documents_nested` with `NothingLost` | `NothingLost` | `JXDirector::Deactivate` deactivates hidden subdirectors too.  `JXWindowDirector::Deactivate` returns `kJTrue` for these without asking, and `JXDocument::Deactivate` discards their changes, with the comment "OKToDeactivate() returned kJTrue" (`JXDocument.cpp:143`) |
| `processes`, `DeleteTaken = TRUE` | `NoDangling` | a listener deletes another object for the same child, which the loop comes to (`JProcess.cpp:393`; the comment at :372-374 says the list is copied because objects may be deleted) |
| `processes`, `OwnGroup = TRUE` | `NoStray` | the child makes a group of its own only after the fork, and a helper whose fork failed has pid 0 (`jProcessUtil.cpp:659-680`): signals go to the program's own group (`JThisProcess.cpp:556`) |
| `processes`, `SharedWait = TRUE` | `HeardOnce`, `ExitIsHeard` | of several objects for one child, one waits for it (`JProcess.cpp:329`, `jProcessUtil.cpp:757`) and the others never hear |
| `file_layout`, `ThreeFiles` and `InMiddle`, `MaxElements = 1` | `AssertionsHold` | `GetStartOfFile` (`JFileArray.cpp:1521-1539`) takes the offset in the enclosing file for an offset on the disk.  Lines 17-18 allow files in files in files |
| `file_layout`, `EmbeddedCrash = TRUE` | the index is read from bytes that are none | a change of an embedded file moves the elements behind it, and the enclosing file does not write its index then, with `ShouldFlushChanges(kJTrue)` on both (lines 53-58, 170-173) |
| `shared_prefs`, `Interrupted = TRUE` | `OneOwner`, `NothingTorn`, `UpToDate`, `Converges` | looking at the lock bit and setting it are two system calls (`JFileArray.cpp:316`); signalling and saving the time of the signal are two as well (`JXSharedPrefsManager.cpp:641`) |
| `shared_prefs`, `SameSecond = TRUE` | `UpToDate`, `Converges` | times of modification are in seconds |
| `shared_prefs`, `UpToDate` and `Converges` without `lost` | both | attempts are counted (`JFileArray.cpp:249-263`): whoever has the file at the last one loses it, after however short a time, e.g. the first of two that waited for a dead program's lock.  What it writes is in no file; its signal is given and it saves the time of it, so that it goes on with a setting that the others do not have, until one of them changes it.  The comment at 179-181 says there is a race |
| `selections`, 1 program asks, 1 owns, `Overlaps = TRUE` | `WholeOrNothing`, `NoNeedlessFailure` | an answer that comes after the five seconds is taken for the answer to the next request, as `RequestData` does not compare its time (`JXSelectionManager.cpp:427`); its chunks mix with the new ones, since there is one property |
| `selections`, 2 programs that both ask and own, 2 selections | `EachReturns` | each asks the other; neither dispatches events while it waits (`JXSelectionManager.cpp:410`); only the five seconds end it |

Read in the code while modelling, without a run:

* `JXSelectionManager.cpp:637-645`: after an allocation error with a chunk the program waits for the deletion of a property that was
  never set, so the smaller chunks are never sent, and `remainingLength -= chunkSize` would subtract the new size.
* `JThisProcess.cpp:430` says that by default processes are not terminated when the program quits; `JProcess.cpp:231` lists each new one for
  just that.
* `JFileArray::FlushChanges()` does nothing while the flag is off, though lines 1266-1267 offer it for that case.
* `JPrefsFile::SetData` (`JPrefsFile.cpp:171-203`) sets the ID of a new element after its data were flushed.

The passing runs show that none of this happens in the instances they allow: `documents_tree`, for one, while needs follow the tree,
supervisors are not hidden and then allowed to go (`OrderlyNext`), and subdocuments are not changed while hidden
(`CarefulNext`, which holds there as only a document of the application is ever changed).

## 6. Proofs

All theorems hold for every value of the constants that satisfies the `ASSUME`s of the module.

**BroadcasterProofs** proves, for any set of objects and any depth of re-entrancy, `TypeCorrect`,
`ConnectionsAreSymmetric`, `NoConnectionDangles` and `PassesAreExact`: the four invariants of
`broadcaster_hub`.  The inductive invariant is

    IInv == TypeOK /\ ConnectionsSymmetric /\ NoDanglingConnection /\ StackExact(stack, recipients)

`PassIsExact` alone is not inductive.  `FrameExact` adds, for each frame, that only a broadcast's iterator is
attached to a list and that its cursor lies inside the list, without which an insertion at the front or a removal could
not be shown to move the cursor with the elements; `StackExact` adds that the outermost frame is application
code and that a loop always has room for its callee, which bounds the depth.  Symmetry has its part too: it says
that a recipient is in a list once, without which removing the element at one index would not
remove the recipient.  The proof has one lemma for each kind of change of a list (insertion at the
front, removal of any element, deletion of the list) and shows that it keeps every frame exact;
each action is then one such change for each list it touches.  `EndDelete` changes many
lists at once, and is the longest step.  Lemmas on removal from a sequence and on cursors are in
`CursorLemmas`.

`ImplementsMulticast` is `Spec => KeepsPromise`: each step of the detailed broadcaster is a step of `Multicast` or leaves it
alone.  What `Multicast` says is still owed by a frame is computed from the place of the cursor (`Owed`); by `IInv` it is
`Debt`, the history of the pass: those it began with who have neither got the message nor left.  History changes in
one place of the stack at a time, so each action is matched with `Multicast`'s on the debts, and no reasoning on indices is left.

**ArrayProofs** proves of `OrderedSet` `TypeCorrect` for whatever listeners do, and `PassesAreRobust` and `IndicesFollow`
(`IteratorRobust`, `IndexFollows`) for listeners that do not change the set (`PassiveSpec`); for others they are false, as
section 5 says.  The two properties are about states between changes, so the invariant has to speak of a change that
is under way: `PassiveInv` says that a cursor or an index *will be* right once its owner has been told (`SoonIndex`, `IteratorFits`), with
one lemma for each kind of message, on what it makes of an index and of the elements a pass has been over.

Of `SortedSearch` it proves `SearchTypeCorrect`, `AssertionsNeverFail` and `SearchCorrect` (`AnswerCorrect`) for arrays of any
length.  The inductive invariant adds what the code's comments leave
unsaid: inside the loop `first < last`, both are indices, `r1` and `r2` are the comparisons with the elements there,
the target does not belong in front of the one nor behind the other, and it equals the lower one only in a
search for the last match, the upper one only in a search for the first.  The lemmas are that the middle of two bounds
lies between them, and that in a sorted array a comparison with one element decides all on one side of it.

**EventLoopProofs** proves `TypeCorrect`, `NeverOnTwoLists` (`OneListPerIdleTask`), `IdleTasksAreSafe` (`SafeToPerform`),
`PerformedOnce` (`UrgentOnce`), and, if `MaxWindowsInSignals <= 1`, `SignalsInOrder` (`DeliveredInOrder`), for any tasks, any
nesting of windows and any number of signals.  `LoopInv` has three parts.  `StackOK`: which activation may be above which, and that the
windows on the stack are as many as the idle lists put aside.  `IdleOK`: the lists together repeat nothing, and no
task is on a list that waits for a window which was already open when it was installed.  `UrgentOK`: the calls of
`Perform` that are owed for a task are as many as the passes that have yet to come to it, and one more if it waits.  `SignalInv` has `ListOK` (the list has signals in the order of their arrival), `DeliveryOK` (what a
pass has yet to broadcast is later than all that has been broadcast), and `OnePass`: there is at most one pass over the signals.  With a second window inside a signal's listener there may be two, and then the theorem is false (section 5).

**ProcessesProofs** proves `TypeCorrect`; `NoSignalStrays` (`NoStray`) if `~OwnGroup`; `ExitHeardOnce` (`HeardOnce`) if `~SharedWait`;
and `NoDeletedObjectUsed` (`NoDangling`) if `~SharedWait` and `~DeleteTaken`; for any number of children, pids, objects and calls.
`BaseInv` relates the kernel to the objects: a pid is one child's from its fork until it is reaped, and whoever
holds it is for that child.  `ToldInv` is about the calls in progress: who is still to be told has not been
told and is so in one place only (`WaitingOK`), whoever is behind the cursor of a call has been told (`ToldOK`), objects have said at most once what
became of their child (`HeardOK`), and a child is gone once one of its objects has been told or is about to be, of whom none is then forgotten (`GoneOK`).
`AliveInv` is what a listener that deletes another object breaks: whoever is still to be told is alive.

**DocumentsProofs** proves, for any number of documents and any depth of calls within calls,

* for every tree and every relation of need (`Spec`): `TypeCorrect`, and `NeededOutlive` (`NeededStayOpen`);
* if documents that another one supervises are not changed while they are hidden (`CarefulSpec`): `NothingLostWithCare` (`NothingLost`);
* if supervisors of documents are two levels deep, are needed by nobody, and once told to stay open are not let go (`OrderlySpec`):
  `AssertionsAlwaysHold` (`AssertionsHold`) and `NothingEverLingers` (`NothingLingers`).

The invariants are about the stack of nested calls of `Close`, `CloseAllSubdirectors`, `CloseDocuments` and `Deactivate`.  `BaseInv`: the
lists agree with the tree (`TreeOK`); a closing flag is set for just the directors that have a frame between setting and clearing it
(`ClosingOK`); which call waits for which (`OrderOK`); what a director is when its frame is at a step (`FramesOK`); and whose subdirectors are
gone (`EmptiedOK`).  So the assertions of `~JXDirector` hold without any condition.  `SavedInv`: whoever is past `OKToClose` has been
saved or given up by the user (`AllAsked`), and so has a hidden document (`HiddenSaved`); this is where a change made while
hidden breaks it.  `OrderlyInv`: a document that supervises others is needed by nobody and invisible only if told to stay (`KeptOK`), so that a scan of the documents
closes leaves only (`AboveOK`, `ScanOK`); closing a leaf waits for nothing (`LeafOK`), so that only the call on top can begin to close something, and that is not
being closed (`RunsOK`).  `CoverInv`: an invisible document that nobody needs is *ahead* of a scan in progress, or that scan will start over because something was
closed; at the event loop there is no scan, hence no such document.  The conditions are sufficient; with a third level a scan can close
something that is not a leaf, and without the others TLC finds the behaviours of section 5.

**FileArrayProofs** proves, for `FileLayout`, if files are embedded in the base file only (`Flat`) and the program does not die when there is an
embedded file (`~EmbeddedCrash`), `LayoutTypesCorrect` (`LayoutTypeOK`) and `NoAssertionFails` (`AssertionsHold`: the assertions that section 2 lists for `FileLayout`, for reads as well as writes); for any number of elements of any
lengths, any size of the blocks that are moved, and with or without `FlushChanges`.  Section 5 shows that both
conditions are needed.  An assertion about an offset cannot be proved from offsets alone: the length of an embedded file and of an element, and after
a restart the index itself, are read from the disk.  So the invariant `LayoutInv` is about the cells:

* `Laid`: each element of an open file starts with its size, between the header and the index, and ends before the next one; `FileOK`: and
  the file is just as long as its elements and its index;
* `Placed`: the file that is open inside another one is the data of one of its elements, wherever that is at the moment;
* `KeptIn`, `Image`: the element of an embedded file that is closed holds a header and an index that fit what is laid out in front of it, so that
  `ReadHeader` gives what was written (`HeaderRead`);
* `ClosedState`: so does the disk when no file is open; `OnDisk`: and also while the base file is open, with `FlushChanges`, which is what a crash needs.

Each operation is put together from a write inside a file (`Inside`), a move of blocks (`MovedUp`, `MovedDown`: after each block the cells that have been
passed are in place and those ahead are untouched, which is where the order of the blocks counts), another index (`Relisted`) and another length
(`LengthsSet`, for the base file and then for those embedded in it).  `Within` says what each leaves of the file around it and `Made` what an operation leaves
of the other elements: `Copied` cell for cell, wherever they are now.

With one more hypothesis, that there is at most one file to embed (`OneInner`), it proves `FilesKeepContents`: `LayoutSpec => KeepsContents`, the
refinement of `FileOfElements`, for any data, numbers of elements and block sizes.  The code can embed several files
under different IDs; the model has one ID for all of them (`FileID`), so two embedded in the base file would be the same element under two names.  The argument:

* what a program reads depends on the cells of the elements only (`SameCells`, `AroundListed`), so each operation's lemma says of each element not asked about
  that it reads as before where the index has it now (`FollowedItem`), and of the one asked about that it reads as the data given;
* an embedded file goes with its element, whether it is open (`CarriedInner`) or only stored (`CarriedStored`), and is lost just when the element is;
* what has been flushed reads the same once it is opened again (`ReadAgain`), hence closing, opening and a crash between two operations change nothing.

`StepContents` puts them together: a step of `LayoutNext` leaves all contents as they are, or is one operation on one file; this is a step of
`FileOfElements`.  TLC checks the same on the run `file_layout`, whose constants satisfy the three hypotheses.

It proves for `SharedPrefs`, for any programs, settings and bounds: `TypeCorrect` without any further assumption;
`OneOwnerAlways` and `NothingTornAlways` if `~Interrupted`, with every `CreateAction`;
`UpToDateAlways` if `InTime` (not interrupted, no two signals in one second, and
programs that do wait: not `kFailIfOpen`).  All of them however long owners take and whoever removes the file under them.  There are two inductive invariants.
`LockInv` carries the lock: programs are alone where nothing may come between, who has a file open
has its bit set, a half-written file is locked, a file nobody can reach is empty (so that a new one is), and what was found
unlocked still is.  `NoticeInv` adds the notices: who has seen the last signal has the setting of the file as its
original, unless the file was left by a dead program, a signal is still to come or it has lost its file; who has a file open
has the one with the name just if it has not lost it; who waits knows that the file has
a name; a file without the setting is locked by the one who will write it.  Without the exception for a dead program's file it is not
true, and without `MissingLocked` a reader that finds no setting could not be told from one that missed a notice.

**SelectionsProofs** proves, if `~Overlaps`, `TypesCorrect` and `AllOrNothing` (`WholeOrNothing`); and, if also
`Length[TypeList] <= 1`, `FailsForAReason` (`NoNeedlessFailure`); for any number of programs that ask, own or do both, any selections, data
and chunks of any length, and any deaths, changes of owner, time-outs and allocation errors.  The invariant `Inv` says of each program `p` that asks

* whose turn it is (`Turn`): its request is in one place, on its way, in the hands of one sender, or answered (`Lone`); who
  watches its property is that sender, and has at most one deletion to hear of (`Listens`); what the sender has done, and whether `p` has taken
  it, by the step the sender is at (`Phases`); and that what is on its way is what `p` asked for last (`Mine`), which is what an overlap breaks;
* where the data are (`Transfer`): what `p` has received, the chunk in the property and what is left to be sent are together all of the data, in
  order (`Partly`); and there is an event for each new chunk and none for one that has been read (`News`), which is what
  `Discard` and `WaitForPropertyDeleted` are for.

`Reasons`, on top of `Inv`, says of a request that nothing excuses yet: there is an owner, it has not refused, only data that need it are sent in chunks, and
the program that `p` watches is alive (`Excuses`).  An action puts at most one event at the end of a queue and may take others out, so
each is first shown to be such a step (`From`, `Sends`), from which lemmas on queues give what each part of `Inv` says of them.  The list of
types must fit into any chunk because `GetAvailableTypes` does not take it in several (`JXSelectionManager.cpp:129-190`), and each
allocation error halves the chunks.

Otherwise the assumptions of these theorems are the constants and the restricted specifications of section 5, and the table there shows that each is needed.

Only model-checked is every liveness property (`ReturnsToEventLoop`, `Terminates`, `PassEnds`, `CallsReturn`, `ExitIsHeard`, `Converges`, `EachReturns`): liveness under fairness and `ENABLED` are
out of the prover's reach.

Induction rules that take an operator as a parameter are out of its reach too.  Where a proof needs induction over a number (the windows below a
place of the stack, in `EventLoopProofs`) it takes the least counterexample instead.

## 7. Plan

Done in this order: `Broadcaster` with `Multicast`, since all else rests on it; `OrderedSet`; `SortedSearch`;
`EventLoop`; `Documents`; then what meets other processes: `Processes`, `FileLayout` with `FileOfElements`, `SharedPrefs`
with their proofs, `Selections` with its own.

Theorems came after the models they are about, in the order of section 6; now every invariant and every refinement that a run finds to hold is stated by one.

Models to come: suspension and quitting, composed with `EventLoop`; `JXDNDManager` on top of `Selections`; `JHashTable` against a
finite map and `JRunArray` against the array it stands for, as refinements; the undo chain of `JTextEditor`; message protocols over a
stream and the retries of the MDI client; the safety save of `JXFileDocument`.

## 8. Not modelled

* Inside the modelled components: growth and block size of arrays, ownership of elements in
  `JPtrArray`, and `Sort`; the period of idle tasks, dispatch of X events, quitting, and what a deleted task does when a pass performs it (it counts as application code) in `EventLoop`; in `Documents`
  suspension, iconified windows, directors that are not documents, the safety save, menus, shortcuts, the search
  for files, and the event loop inside the dialog of `OKToClose`; pipes, the text of errors and suspended children in
  `Processes`; signature, version, messages, `JPrefsFile`'s own IDs and the end of the program inside an operation in `FileLayout`; `JXSharedPrefObject` with its versions, and
  `kIgnoreIfOpen` and `kDeleteIfOpen` in `SharedPrefs`; the times and the history of ownership, `MULTIPLE` and `DELETE`
  requests, one's own data and the guess of `XA_STRING` in `Selections`.
* Handlers of two signals that interrupt each other: whether they can depends on the signal mask that the ACE library
  sets, and that is not in the repository.
* Memory exhaustion, X errors, and the contents of messages.
* Drawing and geometry of widgets and tables, plot and 3D: little protocol and no hard ordering.
* Strings, regular expressions, file name utilities, `libjexpr`: sequential functions on data that unit tests reach well.
* The applications under `programs/` and the vendored code under `misc/`: clients and dependencies of the framework.
