---------------------------- MODULE MediaRequests ----------------------------
(***************************************************************************)
(* Requests for microphone and camera (MediaCaptureDevicesDispatcher) and  *)
(* for other permissions, over PermissionManager.  A media request waits   *)
(* in the queue of its page while the permission manager waits for the     *)
(* application; every answer takes the front of the queue, whichever       *)
(* request it was for, and the next one is asked for again.  Desktop       *)
(* capture and mouse lock are left out.                                    *)
(***************************************************************************)
EXTENDS PermissionManager

CONSTANTS MaxRequests,  \* bound of requests
          MaxDecisions  \* bound of decisions that no prompt asked for

ASSUME MediaConstants ==
  /\ MaxRequests \in Nat /\ MaxDecisions \in Nat /\ NoFrame \notin Frames
  /\ \A f \in Frames : f \in DOMAIN OriginOf /\ f \in DOMAIN PageOf

Requests == 1 .. MaxRequests  \* in the order in which they are made

VARIABLES
  persistent, transient, multi, prompts, alive,  \* see PermissionManager
  queue,      \* [pages -> m_pendingRequests of the page]
  tasks,      \* [pages -> posted calls of ProcessQueuedAccessRequest()]
  asked,      \* [Requests -> its frame and types]
  state,      \* [Requests -> what became of it]
  given,      \* [Requests -> the types it was given]
  decisions,  \* decisions without a prompt so far
  allowed     \* history: <<origin, type>> the application has ever granted

vars == <<persistent, transient, multi, prompts, alive, queue, tasks, asked, state, given,
          decisions, allowed>>

NotAsked == [frame |-> NoFrame, types |-> <<>>]
Nothing == [t \in Types |-> "ask"]

Init ==
  /\ persistent = [o \in Origins |-> Nothing] /\ transient = [f \in Frames |-> Nothing]
  /\ multi = <<>> /\ prompts = {} /\ alive = ThePages
  /\ queue = [p \in ThePages |-> <<>>] /\ tasks = [p \in ThePages |-> 0]
  /\ asked = [r \in Requests |-> NotAsked]
  /\ state = [r \in Requests |-> "new"] /\ given = [r \in Requests |-> {}]
  /\ decisions = 0 /\ allowed = {}

Now == [persistent |-> persistent, transient |-> transient, multi |-> multi,
        prompts |-> prompts, alive |-> alive, queue |-> queue, tasks |-> tasks,
        asked |-> asked, state |-> state, given |-> given, answers |-> <<>>]

Becomes(s) ==
  /\ persistent' = s.persistent /\ transient' = s.transient /\ multi' = s.multi
  /\ prompts' = s.prompts /\ alive' = s.alive /\ queue' = s.queue /\ tasks' = s.tasks
  /\ asked' = s.asked /\ state' = s.state /\ given' = s.given
-----------------------------------------------------------------------------
IsMedia(types) == ToSet(types) \subseteq TransientTypes

\* handleMediaAccessPermissionResponse(): the front of the queue gets what it
\* asked for and was authorised, or an error.
AnyOrigin(f, o) == TRUE  \* for a mutant
OriginsMatch(f, o) == OriginOf[f] = o
Granting(q, o, flags) ==
  IF OriginsMatch(q.frame, o) THEN ToSet(q.types) \intersect flags ELSE {}
Result(got) == IF got = {} THEN "refused" ELSE "answered"
NotPosted(q, n) == n  \* for a mutant
Posted(q, n) == IF Len(q) > 1 THEN n + 1 ELSE n
HandleResponse(s, p, o, flags) ==
  IF s.queue[p] = <<>> THEN s
  ELSE LET r   == Head(s.queue[p])
           got == Granting(s.asked[r], o, flags)
       IN [s EXCEPT !.queue[p] = Tail(@),
                    !.tasks[p] = Posted(s.queue[p], @), !.state[r] = Result(got),
                    !.given[r] = got]

\* The callback of a request: of a media request, the response to its page.
NoResponse(s, m, granted) == s  \* for a mutant
Callback(s, m, granted) ==
  IF IsMedia(m.types)
  THEN HandleResponse(s, PageOf[m.frame], OriginOf[m.frame], granted)
  ELSE [s EXCEPT !.state[m.req] = Result(granted), !.given[m.req] = granted]

Delivered(s) ==
  LET after[n \in 0 .. Len(s.answers)] ==
        IF n = 0 THEN s ELSE Callback(after[n - 1], s.answers[n].m, s.answers[n].granted)
  IN after[Len(s.answers)]

Asking(s, f, types, r) ==
  Delivered(RequestPermissions(s, [frame |-> f, types |-> types, req |-> r]))

\* A page asks: processMediaAccessRequest(), or RequestPermissions() itself.
Request(r, f, types) ==
  /\ state[r] = "new" /\ (r > 1 => state[r - 1] # "new") /\ PageOf[f] \in alive
  /\ LET s == [Now EXCEPT !.asked[r] = [frame |-> f, types |-> types], !.state[r] = "waiting",
                          !.queue[PageOf[f]] = IF IsMedia(types) THEN Append(@, r) ELSE @]
     IN Becomes(Asking(s, f, types, r))
  /\ UNCHANGED <<decisions, allowed>>

\* ProcessQueuedAccessRequest(): the front is asked for again.
ProcessQueued(p) ==
  /\ tasks[p] > 0
  /\ LET s == [Now EXCEPT !.tasks[p] = @ - 1]
         r == Head(queue[p])
     IN Becomes(IF queue[p] = <<>> THEN s ELSE Asking(s, asked[r].frame, asked[r].types, r))
  /\ UNCHANGED <<decisions, allowed>>

\* MEDIA_REQUEST_STATE_CLOSING: only the queue forgets the request.
StillQueued(q, r) == q  \* for a mutant
Removed(q, r) == RemoveFirst(q, r)
Cancel(r) ==
  /\ \E p \in ThePages : r \in ToSet(queue[p])
                         /\ Becomes([Now EXCEPT !.queue[p] = Removed(@, r), !.state[r] = "closed"])
  /\ UNCHANGED <<decisions, allowed>>

\* WebContentsDestroyed(): the queue goes, callbacks and all.
DestroyPage(p) ==
  /\ p \in alive
  /\ Becomes([Now EXCEPT !.alive = @ \ {p}, !.queue[p] = <<>>,
       !.state = [r \in Requests |-> IF r \in ToSet(queue[p]) THEN "closed" ELSE @[r]]])
  /\ UNCHANGED <<decisions, allowed>>

Allow(o, types, status) ==
  allowed' = IF status = "granted" THEN allowed \union {<<o, t>> : t \in ToSet(types)} ELSE allowed

Flags(types, status) == IF status = "granted" THEN ToSet(types) ELSE {}

\* grant(), deny() or reset() of the permission a prompt brought, through the
\* page of its frame while that exists.
Decide(q, status) ==
  /\ q \in prompts
  /\ LET o == OriginOf[q.frame]
         s == Delivered(setPermission([Now EXCEPT !.prompts = @ \ {q}], o, q.types, status, q.frame))
     IN Becomes(IF IsMedia(q.types) /\ AliveFrame(Now, q.frame)
                THEN HandleResponse(s, PageOf[q.frame], o, Flags(q.types, status)) ELSE s)
  /\ Allow(OriginOf[q.frame], q.types, status)
  /\ UNCHANGED decisions

\* The same without a prompt: of a permission from the profile, or by
\* setFeaturePermission() of a page.
DecideInAdvance(o, types, status) ==
  /\ decisions < MaxDecisions /\ decisions' = decisions + 1
  /\ LET s == Delivered(setPermission(Now, o, types, status, NoFrame))
     IN \/ Becomes(s)
        \/ \E p \in alive : IsMedia(types) /\ Becomes(HandleResponse(s, p, o, Flags(types, status)))
  /\ Allow(o, types, status)

Next ==
  \/ \E r \in Requests : \/ \E f \in Frames, types \in Asked : Request(r, f, types)
                         \/ Cancel(r)
  \/ \E p \in ThePages : ProcessQueued(p) \/ DestroyPage(p)
  \/ \E q \in prompts, status \in Statuses : Decide(q, status)
  \/ \E o \in Origins, types \in Decidable, status \in Statuses : DecideInAdvance(o, types, status)

\* Posted tasks run; nothing makes the application decide.
Fairness == \A p \in ThePages : WF_vars(ProcessQueued(p))

Spec == Init /\ [][Next]_vars /\ Fairness
-----------------------------------------------------------------------------
(* Properties.                                                             *)

FrameTypes == [frame : Frames, types : Asked]

\* Every variable has values of its type; a request is answered with something.
TypeOK ==
  /\ persistent \in [Origins -> [Types -> Statuses]]
  /\ transient \in [Frames -> [Types -> Statuses]]
  /\ multi \in Seq([frame : Frames, types : Asked, req : Requests])
  /\ prompts \in SUBSET FrameTypes /\ alive \in SUBSET ThePages
  /\ queue \in [ThePages -> Seq(Requests)] /\ tasks \in [ThePages -> Nat]
  /\ asked \in [Requests -> FrameTypes \union {NotAsked}]
  /\ state \in [Requests -> {"new", "waiting", "answered", "refused", "closed"}]
  /\ given \in [Requests -> SUBSET Types]
  /\ \A r \in Requests : given[r] # {} <=> state[r] = "answered"
  /\ decisions \in 0 .. MaxDecisions /\ allowed \in SUBSET (Origins \X Types)

\* Whichever request an answer reaches, a request is given only what it asked
\* for and what the application has granted to its origin.
GivenWasAllowed ==
  \A r \in Requests : \A t \in given[r] :
    t \in ToSet(asked[r].types) /\ <<OriginOf[asked[r].frame], t>> \in allowed

\* Nobody is stranded: a request that waits for media is in the queue of its
\* page, and as long as one is there some request for a media permission of the
\* page is before the permission manager or the front is going to be asked for
\* again; any other request is itself before the permission manager.
NobodyStranded ==
  /\ \A r \in Requests : state[r] = "waiting" =>
       IF IsMedia(asked[r].types) THEN r \in ToSet(queue[PageOf[asked[r].frame]])
       ELSE \E i \in DOMAIN multi : multi[i].req = r
  /\ \A p \in ThePages : queue[p] # <<>> =>
       \/ tasks[p] > 0
       \/ \E i \in DOMAIN multi : IsMedia(multi[i].types) /\ PageOf[multi[i].frame] = p

\* A request is answered once: whatever answers come for others, or late, or
\* again, what became of one that was answered, refused or closed stays so.
AnswersStay ==
  \A r \in Requests : state[r] \in {"answered", "refused", "closed"} =>
    state'[r] = state[r] /\ given'[r] = given[r]
AnsweredOnce == [][AnswersStay]_vars

\* If the application decides every permission it is asked for, no media request
\* waits for ever.
QueuesDrain ==
  []<>(prompts = {}) => \A p \in ThePages : []<>(queue[p] = <<>>)
=============================================================================
