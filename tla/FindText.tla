------------------------------ MODULE FindText ------------------------------
(***************************************************************************)
(* One page's FindTextHelper (core/find_text_helper.cpp): requests are     *)
(* numbered from a counter all pages share, the renderer answers them      *)
(* asynchronously, and a result is delivered twice over: the synchronous   *)
(* signal findTextFinished and the callback registered for the request.    *)
(* Both run application code in the middle of the helper, which may call   *)
(* the helper again; stack holds the suspended C++ frames, innermost first.*)
(***************************************************************************)
EXTENDS Integers, Sequences, FiniteSets, Functions

CONSTANTS Texts,    \* the nonempty search strings with their case flag
          NoText,   \* the empty string
          MaxId,    \* bound on the shared request counter
          MaxAsks,  \* bound on the findText calls of this page
          MaxDepth  \* how deep application code re-enters the helper

ASSUME FindConstants == /\ NoText \notin Texts
                        /\ {MaxId, MaxAsks, MaxDepth} \subseteq Nat

VARIABLES counter,        \* m_findRequestIdCounter
          current,        \* m_currentFindRequestId
          lastCompleted,  \* m_lastCompletedFindRequestId
          prevText,       \* m_previousFindText, m_previousCaseSensitively
          callbacks,      \* m_widgetCallbacks or m_quickCallbacks: id -> call
          stack,          \* suspended frames of the helper, innermost first
          alive,          \* the helper is not destroyed yet
          session,        \* the renderer's find session (external)
          inFlight,       \* requests the renderer may still answer (external)
          asked,          \* number of findText calls made
          calls,          \* how often each call's callback has run
          nested,         \* application code has called the helper in a call
          stopped         \* ids abandoned by stopFinding

helper == <<counter, current, lastCompleted, prevText, callbacks>>
world  == <<session, inFlight, asked, calls, nested, stopped>>
vars   == <<helper, world, stack, alive>>

Asks == 1..MaxAsks
Ids  == -1..MaxId

User == [at |-> "user"]
Frames ==
  {User}
    \cup [at : {"reply"}, id : Ids]
    \cup [at : {"empty"}, ask : Asks]
    \cup [at : {"supersede", "issue"}, text : Texts, next : BOOLEAN, ask : Asks]

IsFindTextInProgress == current # lastCompleted

\* The application may call the helper from its event loop, or from a slot
\* or callback the helper is running.
Idle == alive /\ stack = <<>>
Depth == Cardinality({i \in DOMAIN stack : stack[i] = User})
UserRuns == \/ Idle
            \/ stack # <<>> /\ Head(stack) = User /\ Depth <= MaxDepth

Running(at) == stack # <<>> /\ Head(stack).at = at

KeepCompleted == lastCompleted' = lastCompleted
CompleteCurrent == lastCompleted' = current

ForgetText == prevText' = NoText

(* stopFinding, also run by the destructor while a search is in progress. *)
StopSession ==
  /\ CompleteCurrent
  /\ ForgetText
  /\ session' = NoText
  /\ inFlight' = {}
  /\ stopped' = IF IsFindTextInProgress THEN stopped \cup {current} ELSE stopped

InvokeResultCallback(id, then) ==
  IF id \in DOMAIN callbacks
  THEN /\ calls' = [calls EXCEPT ![callbacks[id]] = @ + 1]
       /\ callbacks' = Restrict(callbacks, DOMAIN callbacks \ {id})
       /\ stack' = <<User>> \o then
  ELSE /\ stack' = then
       /\ UNCHANGED <<calls, callbacks>>

Init ==
  /\ counter = 0 /\ current = -1 /\ lastCompleted = -1
  /\ prevText = NoText /\ session = NoText
  /\ callbacks = <<>> /\ stack = <<>> /\ alive = TRUE
  /\ inFlight = {} /\ stopped = {}
  /\ asked = 0 /\ calls = [a \in Asks |-> 0] /\ nested = FALSE

(* startFinding up to the point where it leaves the helper. *)
StartFinding(text) ==
  LET next == prevText = text
      frame(at) == [at |-> at, text |-> text, next |-> next, ask |-> asked + 1]
  IN /\ IF IsFindTextInProgress
        THEN /\ CompleteCurrent
             /\ IF next THEN UNCHANGED <<session, inFlight>>
                        ELSE session' = NoText /\ inFlight' = {}
             /\ stack' = <<User, frame("supersede")>> \o stack
        ELSE /\ stack' = <<frame("issue")>> \o stack
             /\ UNCHANGED <<lastCompleted, session, inFlight>>
     /\ UNCHANGED <<prevText, stopped>>

FindEmpty ==
  /\ StopSession
  /\ stack' = <<User, [at |-> "empty", ask |-> asked + 1]>> \o stack

FindText ==
  /\ UserRuns /\ asked < MaxAsks /\ counter + Len(stack) <= MaxId
  /\ asked' = asked + 1
  /\ nested' = (nested \/ ~Idle)
  /\ FindEmpty \/ \E text \in Texts : StartFinding(text)
  /\ UNCHANGED <<counter, current, callbacks, alive, calls>>

StopFinding ==
  /\ UserRuns
  /\ StopSession
  /\ nested' = (nested \/ ~Idle)
  /\ UNCHANGED <<counter, current, callbacks, stack, alive, asked, calls>>

UserReturns ==
  /\ Running("user")
  /\ stack' = Tail(stack)
  /\ UNCHANGED <<helper, world, alive>>

ReportEmpty ==
  /\ Running("empty")
  /\ calls' = [calls EXCEPT ![Head(stack).ask] = @ + 1]
  /\ stack' = <<User>> \o Tail(stack)
  /\ UNCHANGED <<helper, session, inFlight, asked, nested, stopped, alive>>

SupersedeSilently ==
  /\ Running("supersede")
  /\ stack' = <<[Head(stack) EXCEPT !.at = "issue"]>> \o Tail(stack)
  /\ UNCHANGED <<helper, world, alive>>

(* startFinding reads m_currentFindRequestId again after findTextFinished. *)
Supersede ==
  /\ Running("supersede")
  /\ InvokeResultCallback(current,
       <<[Head(stack) EXCEPT !.at = "issue"]>> \o Tail(stack))
  /\ UNCHANGED <<counter, current, lastCompleted, prevText, session, inFlight,
                 asked, nested, stopped, alive>>

Issue ==
  LET frame == Head(stack) IN
  /\ Running("issue")
  /\ current' = counter
  /\ counter' = counter + 1
  /\ prevText' = frame.text
  /\ session' = IF frame.next THEN session ELSE frame.text
  /\ inFlight' = inFlight \cup {counter}
  /\ callbacks' = [i \in DOMAIN callbacks \cup {counter} |->
                     IF i = counter THEN frame.ask ELSE callbacks[i]]
  /\ stack' = Tail(stack)
  /\ UNCHANGED <<lastCompleted, asked, calls, nested, stopped, alive>>

IssuedAlready(id) == id <= current
CompletedAlready(id) == id <= lastCompleted

(* A final reply; earlier, partial ones leave the helper unchanged. *)
HandleFindReply(id) ==
  /\ Idle /\ id \in inFlight
  /\ inFlight' = inFlight \ {id}
  /\ IF CompletedAlready(id) THEN UNCHANGED <<lastCompleted, stack>>
     ELSE /\ lastCompleted' = id
          /\ stack' = <<User, [at |-> "reply", id |-> id]>>
  /\ UNCHANGED <<counter, current, prevText, callbacks, session, asked, calls,
                 nested, stopped, alive>>

ReportReply ==
  /\ Running("reply")
  /\ InvokeResultCallback(Head(stack).id, Tail(stack))
  /\ UNCHANGED <<counter, current, lastCompleted, prevText, session, inFlight,
                 asked, nested, stopped, alive>>

HandleLoadCommitted ==
  /\ Idle
  /\ ForgetText
  /\ session' = NoText
  /\ UNCHANGED <<counter, current, lastCompleted, callbacks, stack, alive,
                 inFlight, asked, calls, nested, stopped>>

(* The counter is static: the finds of other pages advance it. *)
OtherPageFinds ==
  /\ Idle /\ counter < MaxId
  /\ counter' = counter + 1
  /\ UNCHANGED <<current, lastCompleted, prevText, callbacks, world, stack, alive>>

Destroy ==
  /\ Idle
  /\ alive' = FALSE
  /\ IF IsFindTextInProgress THEN StopSession
     ELSE UNCHANGED <<lastCompleted, prevText, session, inFlight, stopped>>
  /\ callbacks' = <<>>
  /\ UNCHANGED <<counter, current, stack, asked, calls, nested>>

Resume == UserReturns \/ ReportEmpty \/ Supersede \/ Issue \/ ReportReply

Next == \/ FindText \/ StopFinding \/ HandleLoadCommitted \/ OtherPageFinds
        \/ Destroy \/ Resume
        \/ \E id \in 0..MaxId : HandleFindReply(id)

Spec == Init /\ [][Next]_vars

(* Slots and callbacks return, the helper runs on, and the renderer answers *)
(* the request it is working on.                                            *)
FairSpec == Spec /\ WF_vars(Resume)
                 /\ WF_vars(HandleFindReply(current))

-----------------------------------------------------------------------------
(* Every variable has its type; ids grow with the counter, and the last one *)
(* completed is not newer than the current one.                             *)
TypeOK ==
  /\ counter \in Nat /\ current \in -1 .. counter - 1 /\ lastCompleted \in -1 .. current
  /\ prevText \in Texts \cup {NoText} /\ session \in Texts \cup {NoText}
  /\ callbacks \in [DOMAIN callbacks -> Asks] /\ DOMAIN callbacks \subseteq 0 .. current
  /\ stack \in Seq(Frames)
  /\ alive \in BOOLEAN /\ nested \in BOOLEAN
  /\ inFlight \subseteq 0 .. current
  /\ asked \in 0 .. MaxAsks /\ calls \in [Asks -> Nat]

(* Whatever reply arrives next, handleFindReply either ignores it or finds  *)
(* it to be for the current request: Q_ASSERT(m_currentFindRequestId ==     *)
(* requestId) never fires, although older requests may still be answered.   *)
RepliesMatchCurrent ==
  Idle => \A id \in inFlight : id > lastCompleted => id = current

(* The same as long as no slot and no callback calls the helper again.      *)
RepliesMatchUnlessNested == ~nested => RepliesMatchCurrent

(* A search is reported to its caller once, however replies, newer searches *)
(* and callbacks that search again overlap.                                 *)
CallbackAtMostOnce == \A a \in Asks : calls[a] <= 1

(* Without such calls, a callback still owed between events belongs to the  *)
(* search in progress or to one stopFinding abandoned: superseding a search *)
(* never loses one.                                                         *)
NoCallbackLost ==
  Idle /\ ~nested =>
    \A a \in 1..asked : calls[a] = 0 =>
      \E id \in DOMAIN callbacks :
        /\ callbacks[id] = a
        /\ id \in stopped \/ (IsFindTextInProgress /\ id = current)

(* Each callback runs once, and is owed until then.                         *)
CallbackOnce == CallbackAtMostOnce /\ NoCallbackLost

(* Without them, the text remembered for "find next" is the text of the     *)
(* session the renderer has: a request never continues a session that a     *)
(* load or a stop has ended.                                                *)
FindNextContinuesSession ==
  Idle /\ ~nested /\ prevText # NoText => session = prevText

(* A search is eventually reported unless it is stopped, the page goes, or  *)
(* a slot or a callback calls the helper again.                             *)
SearchIsReported ==
  \A a \in Asks : asked >= a ~>
    \/ calls[a] > 0 \/ ~alive \/ nested
    \/ \E id \in stopped \cap DOMAIN callbacks : callbacks[id] = a

(* The documentation of QWebEnginePage::findText: the callback is always    *)
(* called, at the latest while the page is destroyed.                       *)
CallbackGuaranteed == ~alive => \A a \in 1..asked : calls[a] > 0
=============================================================================
