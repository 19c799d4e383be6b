----------------------------- MODULE Documents -----------------------------
(***************************************************************************)
(* Closing and hiding documents: JXDirector, JXWindowDirector, JXDocument, *)
(* JXFileDocument::OKToClose and JXDocumentManager (libjx/code).           *)
(*                                                                         *)
(* Directors form a tree with the application at its root.  A document may *)
(* need others to stay open; closed, those are merely hidden, and closed   *)
(* when nobody needs them any more.  Closing is recursive: it closes the   *)
(* subdirectors, and the destructor of each document looks for documents   *)
(* that can now be closed.  `stack' holds the calls in progress,           *)
(*   close           JXDocument::Close and, for the application, its own    *)
(*   closeAll        JXDirector::CloseAllSubdirectors                      *)
(*   closeDocuments  JXDocumentManager::CloseDocuments                     *)
(*   deactivate      JXDocument::Deactivate                                *)
(* and `result' what the last one returned.                                *)
(***************************************************************************)
EXTENDS Integers, Sequences, SequencesExt, FiniteSets

CONSTANTS
    Docs, App,
    Supervisors,   \* the trees: who supervises each document
    NeedGraphs     \* the relations: <<e, d>> says that e needs d

ASSUME DocumentsAssumption ==
    /\ App \notin Docs
    /\ Supervisors \subseteq [Docs -> Docs \cup {App}]
    /\ NeedGraphs \subseteq SUBSET (Docs \X Docs)

VARIABLES
    supervisor, needs,
    subs,       \* itsSubdirectors
    docList,    \* itsDocList: the documents, but not those in their destructor
    keepOpen,   \* those with the flag of the same name
    active,     \* itsActiveFlag
    closing,    \* itsClosingFlag
    unsaved,    \* NeedsSave
    agreed,     \* the user has agreed to lose the changes
    lost,       \* changes were lost without that
    stack, result,
    failed      \* an assertion has failed

input     == <<supervisor, needs>>
data      == <<unsaved, agreed, lost>>
directors == <<subs, docList, keepOpen, closing>>
vars      == <<input, directors, active, data, stack, result, failed>>

Listed  == Range(docList)
Top     == Last(stack)
AtEventLoop == stack = <<>> /\ ~ failed

\* i, count and closed are the variables of CloseDocuments' loops, i and count those
\* of Deactivate's; first is theDirector in CloseAllSubdirectors.
Call(pc, dir) == [pc |-> pc, dir |-> dir, i |-> 1, first |-> App, closed |-> FALSE,
                  count |-> IF dir = App /\ pc = "scan" THEN Len(docList')
                            ELSE Len(subs[dir])]

At(pc)           == stack' = Front(stack) \o <<[Top EXCEPT !.pc = pc]>>
Calling(pc, f)   == stack' = Front(stack) \o <<[Top EXCEPT !.pc = pc], f>>
Returning(value) == stack' = Front(stack) /\ result' = value
Running(pc)      == stack # <<>> /\ ~ failed /\ Top.pc = pc
Failing          == failed' = TRUE /\ UNCHANGED <<input, directors, active, data, stack, result>>

-----------------------------------------------------------------------------
TypeOK ==
    /\ supervisor \in Supervisors /\ needs \in NeedGraphs
    /\ \A d \in Docs \cup {App} : subs[d] \in Seq(Docs)
    /\ \A d \in Docs : d \in UNION {Range(subs[e]) : e \in Docs \cup {App}}
                          <=> d \in Listed \/ d \in closing
    /\ docList \in Seq(Docs) /\ Cardinality(Listed) = Len(docList)
    /\ keepOpen \subseteq Docs /\ active \subseteq Docs /\ unsaved \subseteq Docs
    /\ AtEventLoop => closing = {}

Init ==
    /\ supervisor \in Supervisors /\ needs \in NeedGraphs
    /\ subs = [d \in Docs \cup {App} |-> <<>>]
    /\ docList = <<>>
    /\ keepOpen = {} /\ active = {} /\ closing = {}
    /\ unsaved = {} /\ agreed = {} /\ lost = {}
    /\ stack = <<>> /\ result = TRUE /\ failed = FALSE

\* Faulty variant: nobody asks the other documents.
OKToCloseAny(d) == TRUE

\* Nobody needs it.
OKToCloseDocument(d) == \A e \in Listed : e # d => <<e, d>> \notin needs

\* Faulty variant: a save that failed counts as one.
OKToCloseUnsaved(d, ok) ==
    /\ ok \/ d \in unsaved
    /\ active' = active \cup ({d} \cap unsaved)
    /\ UNCHANGED <<unsaved, agreed>>

\* JXFileDocument::OKToClose, which OKToDeactivate calls too: the user has the
\* changes saved, which may fail, agrees to lose them, or refuses.  Without
\* itsAskOKToCloseFlag they are saved unasked.  With itsAutosaveBeforeCloseFlag the
\* file is written even if nothing was changed: that changes none of these variables,
\* and if it fails the document counts as saved as before.
OKToClose(d, ok) ==
    \/ d \notin unsaved /\ ok /\ UNCHANGED <<active, unsaved, agreed>>
    \/ /\ d \in unsaved
       /\ active' = active \cup {d}
       /\ \/ ok /\ unsaved' = unsaved \ {d} /\ UNCHANGED agreed
          \/ ok /\ agreed' = agreed \cup {d} /\ UNCHANGED unsaved
          \/ ~ ok /\ UNCHANGED <<unsaved, agreed>>

\* DiscardChanges.
Discard(d) ==
    /\ unsaved' = unsaved \ {d}
    /\ lost' = lost \cup (({d} \cap unsaved) \ agreed)
    /\ UNCHANGED agreed

-----------------------------------------------------------------------------
(* What happens at the event loop.                                         *)

Begin(pc, dir) == stack' = <<Call(pc, dir)>> /\ agreed' = {}

Open(d) ==
    /\ AtEventLoop
    /\ d \notin Listed
    /\ supervisor[d] \in Listed \cup {App}
    /\ subs' = [subs EXCEPT ![supervisor[d]] = Append(@, d)]
    /\ docList' = Append(docList, d)
    /\ active' = active \cup {d}
    /\ UNCHANGED <<input, keepOpen, closing, data, stack, result, failed>>

Modify(d) ==
    /\ AtEventLoop
    /\ d \in Listed
    /\ unsaved' = unsaved \cup {d}
    /\ agreed' = {}
    /\ UNCHANGED <<input, directors, active, lost, stack, result, failed>>

Activate(d) ==
    /\ AtEventLoop
    /\ d \in Listed
    /\ active' = active \cup {d}
    /\ UNCHANGED <<input, directors, data, stack, result, failed>>

\* JXWindow::Close of a window that closes its director, ...
CloseWindow(d) ==
    /\ AtEventLoop
    /\ d \in Listed \cap active
    /\ Begin("close", d)
    /\ UNCHANGED <<input, directors, active, unsaved, lost, result, failed>>

\* ... and of one that deactivates it; its document has been told to stay open.
HideWindow(d) ==
    /\ AtEventLoop
    /\ d \in Listed \cap active \cap keepOpen
    /\ Begin("deactivate", d)
    /\ UNCHANGED <<input, directors, active, unsaved, lost, result, failed>>

DocumentMustStayOpen(d, stayOpen) ==
    /\ AtEventLoop
    /\ d \in Listed
    /\ keepOpen' = IF stayOpen THEN keepOpen \cup {d} ELSE keepOpen \ {d}
    /\ UNCHANGED docList
    /\ IF stayOpen THEN UNCHANGED <<stack, agreed>> ELSE Begin("scan", App)
    /\ UNCHANGED <<input, subs, closing, active, unsaved, lost, result, failed>>

\* JXApplication::Close, from Run.
Quit ==
    /\ AtEventLoop
    /\ docList # <<>>
    /\ Begin("assert", App)
    /\ UNCHANGED <<input, directors, active, unsaved, lost, result, failed>>

-----------------------------------------------------------------------------
(* JXDocument::Close.                                                      *)

\* A call of the pure virtual function from within the destructor is an error too.
AskToClose ==
    /\ Running("close")
    /\ IF Top.dir \notin Listed THEN Failing
       ELSE \E ok \in BOOLEAN :
              /\ OKToClose(Top.dir, ok)
              /\ IF ok THEN At("closable") /\ UNCHANGED result ELSE Returning(FALSE)
              /\ UNCHANGED <<input, directors, lost, failed>>

CheckNeeded ==
    /\ Running("closable")
    /\ IF OKToCloseDocument(Top.dir)
       THEN At("assert") /\ UNCHANGED data
       ELSE Calling("hidden", Call("deactivate", Top.dir)) /\ Discard(Top.dir)
    /\ UNCHANGED <<input, directors, active, result, failed>>

\* It was needed, so it is only hidden.
ReturnHidden ==
    /\ Running("hidden")
    /\ Returning(Top.dir \notin active)
    /\ UNCHANGED <<input, directors, active, data, failed>>

\* JXDirector::Close.
StartClosing ==
    /\ Running("assert")
    /\ IF Top.dir \in closing THEN Failing
       ELSE /\ closing' = closing \cup {Top.dir}
            /\ Calling("subs", Call("first", Top.dir))
            /\ UNCHANGED <<input, subs, docList, keepOpen, active, data, result, failed>>

\* Faulty variant: the flag stays set.
KeepOpenClosing ==
    /\ Running("subs")
    /\ ~ result
    /\ Returning(FALSE)
    /\ UNCHANGED <<input, directors, active, data, failed>>

\* Not all subdirectors have gone.
KeepOpen ==
    /\ Running("subs")
    /\ ~ result
    /\ closing' = closing \ {Top.dir}
    /\ Returning(FALSE)
    /\ UNCHANGED <<input, subs, docList, keepOpen, active, data, failed>>

\* Faulty variant: the documents it needed are forgotten.
DeleteOnly ==
    /\ Running("subs")
    /\ result
    /\ docList' = RemoveFirst(docList, Top.dir)
    /\ At("gone")
    /\ UNCHANGED <<input, subs, keepOpen, closing, active, data, result, failed>>

\* delete this: ~JXDocument comes first, with DocumentDeleted, ...
Delete ==
    /\ Running("subs")
    /\ result
    /\ docList' = RemoveFirst(docList, Top.dir)
    /\ IF Top.dir = App THEN At("gone") ELSE Calling("gone", Call("scan", App))
    /\ UNCHANGED <<input, subs, keepOpen, closing, active, data, result, failed>>

\* ... then ~JXDirector.  After the application's, the program starts anew.
Destroy ==
    /\ Running("gone")
    /\ LET d == Top.dir
       IN  IF subs[d] # <<>> \/ d \notin closing THEN Failing
           ELSE /\ subs' = [e \in DOMAIN subs |-> RemoveFirst(subs[e], d)]
                /\ closing' = closing \ {d}
                /\ keepOpen' = keepOpen \ {d} /\ active' = active \ {d}
                /\ Discard(d)
                /\ Returning(TRUE)
                /\ UNCHANGED <<input, docList, failed>>

-----------------------------------------------------------------------------
(* JXDirector::CloseAllSubdirectors.                                       *)

CloseFirst ==
    /\ Running("first")
    /\ IF subs[Top.dir] = <<>> THEN Returning(TRUE)
       ELSE LET d == Head(subs[Top.dir])
            IN  /\ stack' = Front(stack) \o
                            <<[Top EXCEPT !.pc = "firstClosed", !.first = d], Call("close", d)>>
                /\ UNCHANGED result
    /\ UNCHANGED <<input, directors, active, data, failed>>

\* Faulty variant: a document that stays open stays in front.
FirstClosedStay ==
    /\ Running("firstClosed")
    /\ IF result THEN At("first") /\ UNCHANGED result ELSE Returning(FALSE)
    /\ UNCHANGED <<input, directors, active, data, failed>>

\* A document that stays open because another one needs it goes to the end.
FirstClosed ==
    /\ Running("firstClosed")
    /\ LET list == subs[Top.dir]
           stays == result /\ list # <<>> /\ Head(list) = Top.first
       IN  subs' = IF stays THEN [subs EXCEPT ![Top.dir] = Append(Tail(list), Top.first)]
                            ELSE subs
    /\ IF result THEN At("first") /\ UNCHANGED result ELSE Returning(FALSE)
    /\ UNCHANGED <<input, docList, keepOpen, closing, active, data, failed>>

-----------------------------------------------------------------------------
(* JXDocumentManager::CloseDocuments.                                      *)

\* The end of the inner loop: again, until nothing more is closed.
ScanAgain ==
    /\ Running("scan")
    /\ Top.i > Top.count
    /\ IF Top.closed
       THEN /\ stack' = Front(stack) \o <<[Top EXCEPT !.i = 1, !.closed = FALSE]>>
            /\ UNCHANGED result
       ELSE Returning(TRUE)
    /\ UNCHANGED <<input, directors, active, data, failed>>

\* An invisible document that nobody needs is closed.
Scan ==
    /\ Running("scan")
    /\ Top.i <= Top.count
    /\ IF Top.i > Len(docList) THEN Failing
       ELSE LET d == docList[Top.i]
            IN  /\ IF d \notin active /\ d \notin keepOpen /\ OKToCloseDocument(d)
                   THEN Calling("scanned", Call("close", d))
                   ELSE stack' = Front(stack) \o <<[Top EXCEPT !.i = @ + 1]>>
                /\ UNCHANGED <<input, directors, active, data, result, failed>>

\* Faulty variant: the count is the one from before.
ScannedStale ==
    /\ Running("scanned")
    /\ stack' = Front(stack) \o <<[Top EXCEPT !.pc = "scan", !.i = @ + 1,
                                   !.closed = @ \/ result]>>
    /\ UNCHANGED <<input, directors, active, data, result, failed>>

Scanned ==
    /\ Running("scanned")
    /\ stack' = Front(stack) \o <<[Top EXCEPT !.pc = "scan", !.i = @ + 1,
                                   !.closed = @ \/ result,
                                   !.count = IF result THEN Len(docList) ELSE @]>>
    /\ UNCHANGED <<input, directors, active, data, result, failed>>

-----------------------------------------------------------------------------
(* JXDocument::Deactivate and what it inherits.                            *)

Deactivate ==
    /\ Running("deactivate")
    /\ LET d == Top.dir
       IN  IF d \notin active
           THEN Discard(d) /\ Returning(TRUE) /\ UNCHANGED active
           ELSE \E ok \in BOOLEAN :
                  /\ OKToClose(d, ok)
                  /\ IF ok THEN At("deactivateSubs") /\ UNCHANGED result
                           ELSE Returning(FALSE)
                  /\ UNCHANGED lost
    /\ UNCHANGED <<input, directors, failed>>

DeactivateSub ==
    /\ Running("deactivateSubs")
    /\ Top.i <= Top.count
    /\ Calling("deactivatedSub", Call("deactivate", subs[Top.dir][Top.i]))
    /\ UNCHANGED <<input, directors, active, data, result, failed>>

DeactivatedSub ==
    /\ Running("deactivatedSub")
    /\ IF result
       THEN /\ stack' = Front(stack) \o <<[Top EXCEPT !.pc = "deactivateSubs", !.i = @ + 1]>>
            /\ UNCHANGED result
       ELSE Returning(FALSE)
    /\ UNCHANGED <<input, directors, active, data, failed>>

Deactivated ==
    /\ Running("deactivateSubs")
    /\ Top.i > Top.count
    /\ active' = active \ {Top.dir}
    /\ Discard(Top.dir)
    /\ Returning(TRUE)
    /\ UNCHANGED <<input, directors, failed>>

-----------------------------------------------------------------------------
EventLoop ==
    \/ \E d \in Docs : \/ Open(d) \/ Modify(d) \/ Activate(d)
                       \/ CloseWindow(d) \/ HideWindow(d)
                       \/ \E stay \in BOOLEAN : DocumentMustStayOpen(d, stay)
    \/ Quit

Calls ==
    \/ AskToClose \/ CheckNeeded \/ ReturnHidden
    \/ StartClosing \/ KeepOpen \/ Delete \/ Destroy
    \/ CloseFirst \/ FirstClosed
    \/ ScanAgain \/ Scan \/ Scanned
    \/ Deactivate \/ DeactivateSub \/ DeactivatedSub \/ Deactivated

Next == EventLoop \/ Calls

Spec == Init /\ [][Next]_vars

\* The program runs on, and the user answers.
FairSpec == Spec /\ WF_vars(Calls)

-----------------------------------------------------------------------------
(* Properties.                                                             *)

\* No assertion fails: nothing is closed that is being closed already, no director
\* goes while it has subdirectors, and no index is past the end of the list.
AssertionsHold == ~ failed

\* A document that another one needs is not deleted before that one.
NeededStayOpen ==
    [][\A d \in Listed \ Range(docList') : \A e \in Range(docList') : <<e, d>> \notin needs]_vars

\* When all calls have returned no invisible document is left that nobody needs, in
\* whatever order they were opened, hidden and closed, and whatever the user refused.
\* Hiding a document that stays open hides those it supervises, and these stay too.
NothingLingers ==
    AtEventLoop =>
        \A d \in Listed \ active :
            d \in keepOpen \/ supervisor[d] \in keepOpen \/ ~ OKToCloseDocument(d)

\* Changes are lost only if the user has agreed.
NothingLost == lost = {}

\* Closing ends, though a document may refuse to go before another one.
CallsReturn == stack # <<>> ~> (stack = <<>> \/ failed)
=============================================================================
