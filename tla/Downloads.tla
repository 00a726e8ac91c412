------------------------------ MODULE Downloads ------------------------------
(***************************************************************************)
(* Downloads and saved pages: DownloadManagerDelegateQt between Chromium's *)
(* items and the profile, and QWebEngineDownloadRequest for the            *)
(* application.  Requests and updates reach the profile through timers of  *)
(* zero, with a copy of the item's state; what the application says        *)
(* reaches the items at once.  Chromium numbers its items; a saved page    *)
(* has no item before it is accepted, so the delegate guesses its number.  *)
(* The operators from Post to Delete map a state (Now) to a state.         *)
(***************************************************************************)
EXTENDS Naturals, Sequences, SequencesExt

CONSTANTS MaxLinks,  \* bound of downloads that Chromium starts
          MaxSaves,  \* bound of pages saved
          MaxQueue   \* bound of waiting timers for an item to add one

ASSUME DownloadConstants == MaxLinks \in Nat /\ MaxSaves \in Nat /\ MaxQueue \in Nat

Items == 1 .. MaxLinks + MaxSaves

VARIABLES
  client,     \* clients() of the profile adapter is not empty
  items,      \* Chromium's items, by number
  links, pages,  \* downloads and saved pages so far
  currentId,  \* m_currentId
  downloads,  \* keys of m_pendingDownloads
  saves,      \* keys of m_pendingSaves
  queue,      \* timers that wait
  requests,   \* every QWebEngineDownloadRequest so far
  ongoing,    \* m_ongoingDownloads, 0 where it has no key
  given, clash  \* history: ids given to requests; one was given twice or was wrong

vars == <<client, items, links, pages, currentId, downloads, saves, queue, requests, ongoing,
          given, clash>>

NewItem == [kind |-> "link", state |-> "in_progress", target |-> "none", observers |-> 0]
GoneItem == [NewItem EXCEPT !.state = "gone"]
NewRequest(id, state, callback) ==
  [id |-> id, state |-> state, callback |-> callback,  \* useDownloadTargetCallback
   answered |-> FALSE, finished |-> FALSE, alive |-> TRUE]
GoneRequest(id) == [NewRequest(id, "cancelled", FALSE) EXCEPT !.alive = FALSE]

Init ==
  /\ client = FALSE /\ items = <<>> /\ links = 0 /\ pages = 0 /\ currentId = 0
  /\ downloads = {} /\ saves = {} /\ queue = <<>> /\ requests = <<>>
  /\ ongoing = [i \in Items |-> 0] /\ given = {} /\ clash = FALSE

Now(dir) ==
  [client |-> client, items |-> items, currentId |-> currentId, downloads |-> downloads,
   saves |-> saves, queue |-> queue, requests |-> requests, ongoing |-> ongoing,
   given |-> given, clash |-> clash,
   dir |-> dir]  \* whether the directory of the target can be made

Becomes(state) ==
  \E s \in {state} :  \* evaluated once
  /\ items' = s.items /\ currentId' = s.currentId /\ downloads' = s.downloads
  /\ saves' = s.saves /\ queue' = s.queue /\ requests' = s.requests
  /\ ongoing' = s.ongoing /\ given' = s.given /\ clash' = s.clash
-----------------------------------------------------------------------------
(***************************************************************************)
(* The delegate.                                                           *)
(***************************************************************************)
PostedFirst(q, m) == <<m>> \o q  \* for a mutant
Posted(q, m) == Append(q, m)
Post(s, m) == IF s.client THEN [s EXCEPT !.queue = Posted(@, m)] ELSE s

\* OnDownloadUpdated(), once per observer.
Notify(s, i) ==
  LET it == s.items[i]
  IN IF it.observers = 0 THEN s
     ELSE Post(s, [type |-> "updated", id |-> i, state |-> it.state,
                   done |-> it.state \in {"complete", "cancelled"} \/ it.target = "lost"])

Found(s, id) == id \in DOMAIN s.items /\ s.items[id].state # "gone"
CancelItem(s, i) ==
  IF s.items[i].state \in {"in_progress", "interrupted"}
  THEN Notify([s EXCEPT !.items[i].state = "cancelled", !.items[i].target = "none"], i)
  ELSE s
Erase(s, id) == [s EXCEPT !.downloads = @ \ {id}, !.saves = @ \ {id}]

\* A target callback, run.
CancelTarget(s, i) == CancelItem(s, i)
ProvideTarget(s, i) == Notify([s EXCEPT !.items[i].target = "set"], i)

cancelDownload(s, id) == IF Found(s, id) THEN CancelItem(Erase(s, id), id) ELSE Erase(s, id)
removeDownload(s, id) ==
  IF Found(s, id) THEN [CancelItem(Erase(s, id), id) EXCEPT !.items[id] = GoneItem]
  ELSE Erase(s, id)

\* A request on its way to the profile.
PostRequest(s, id, accepted, save, targetCallback) ==
  [Post(s, [type |-> "requested", id |-> id, accepted |-> accepted, save |-> save,
            callback |-> targetCallback])
   EXCEPT !.given = @ \union {id}, !.clash = @ \/ id \in s.given]

\* DetermineDownloadTarget(), auto if savePage() was called for what is no text.
AnotherRound(s, i) == s.currentId >= i /\ s.items[i].target = "set"
DetermineDownloadTarget(s, i, auto) ==
  IF AnotherRound(s, i) THEN ProvideTarget(s, i)
  ELSE LET t == [s EXCEPT !.currentId = i, !.items[i].observers = @ + 1,
                          !.items[i].target = "asking"]
       IN IF s.client
          THEN PostRequest([t EXCEPT !.downloads = @ \union {i}], i, auto, auto, TRUE)
          ELSE CancelTarget(t, i)

DropTarget(s, i) == s  \* for a mutant
NoTarget(s, i) == CancelTarget(s, i)
downloadTargetDetermined(s, id, accepted) ==
  IF id \notin s.downloads THEN s
  ELSE LET t == [s EXCEPT !.downloads = @ \ {id}]
       IN IF accepted /\ Found(s, id) /\ s.dir THEN ProvideTarget(t, id) ELSE NoTarget(t, id)

\* The item of a saved page: Chromium numbers it, the delegate watches it.
NotObserved == 0  \* for a mutant
Observed == 1
savePackageDownloadCreated(s, id) ==
  LET i == Len(s.items) + 1
      page == [NewItem EXCEPT !.kind = "page", !.target = "set", !.observers = 1]
      t == Notify([s EXCEPT !.items = Append(@, page), !.clash = @ \/ i # id], i)
  IN [t EXCEPT !.items[i].observers = Observed]

savePathDetermined(s, id, accepted) ==
  IF accepted /\ id \in s.saves
  THEN savePackageDownloadCreated([s EXCEPT !.saves = @ \ {id}], id)
  ELSE [s EXCEPT !.saves = @ \ {id}]

acceptDownload(s, id, accepted, targetCallback) ==
  IF targetCallback THEN downloadTargetDetermined(s, id, accepted)
  ELSE savePathDetermined(s, id, accepted)
-----------------------------------------------------------------------------
(***************************************************************************)
(* QWebEngineDownloadRequest.                                              *)
(***************************************************************************)
answer(s, n) ==
  LET r == s.requests[n]
  IN IF r.answered THEN s
     ELSE [acceptDownload(s, r.id, r.state \notin {"cancelled", "requested"}, r.callback)
           EXCEPT !.requests[n].answered = TRUE]

accept(s, n) ==
  IF s.requests[n].state # "requested" THEN s
  ELSE answer([s EXCEPT !.requests[n].state = "in_progress"], n)

cancel(s, n) ==
  LET r == s.requests[n]
      started == r.state = "in_progress"
      t == IF started THEN cancelDownload(s, r.id) ELSE s
  IN IF r.state \in {"complete", "cancelled"} THEN s
     ELSE answer(IF started /\ Found(s, r.id) THEN t
                 ELSE [t EXCEPT !.requests[n].state = "cancelled",
                                !.requests[n].finished = TRUE], n)

\* update()
Undecided(r) == ~r.answered /\ r.state = "requested"
Update(s, n, m) ==
  IF Undecided(s.requests[n]) THEN s
  ELSE [s EXCEPT !.requests[n].state = m.state, !.requests[n].finished = @ \/ m.done]

\* The destructor, and downloadDestroyed() of the profile.
Delete(s, n) ==
  LET r == s.requests[n]
      t == IF r.finished THEN s ELSE cancel(s, n)
  IN removeDownload([t EXCEPT !.requests[n] = GoneRequest(r.id), !.ongoing[r.id] = 0], r.id)
-----------------------------------------------------------------------------
(***************************************************************************)
(* The profile takes the next timer.                                       *)
(***************************************************************************)
Slot(s, n, does) ==
  CASE does = "accept" -> accept(s, n) [] does = "cancel" -> cancel(s, n) [] OTHER -> s

downloadRequested(s, m, does) ==
  LET n == Len(s.requests) + 1
      r == NewRequest(m.id, IF m.accepted THEN "in_progress" ELSE "requested", m.callback)
      t == Slot([s EXCEPT !.requests = Append(@, r), !.ongoing[m.id] = n], n, does)
  IN IF does = "none" THEN acceptDownload(s, m.id, m.accepted, m.callback)
     ELSE IF m.save /\ m.accepted THEN answer(t, n) ELSE t

downloadUpdated(s, m) ==
  IF s.ongoing[m.id] = 0 THEN s ELSE Update(s, s.ongoing[m.id], m)

\* Without a receiver of the signal the profile answers; a slot may answer.
Deliver ==
  /\ queue # <<>>
  /\ \E does \in {"none", "nothing", "accept", "cancel"}, dir \in BOOLEAN :
       LET m == Head(queue)
           s == [Now(dir) EXCEPT !.queue = Tail(@)]
       IN \/ m.type = "requested" /\ Becomes(downloadRequested(s, m, does))
          \/ m.type = "updated" /\ does = "none" /\ dir /\ Becomes(downloadUpdated(s, m))
  /\ UNCHANGED <<client, links, pages>>

OpenProfile == ~client /\ client' = TRUE /\ Becomes(Now(TRUE)) /\ UNCHANGED <<links, pages>>

StartDownload(auto) ==
  /\ links < MaxLinks
  /\ LET i == Len(items) + 1
         s == [Now(TRUE) EXCEPT !.items = Append(@, NewItem)]
     IN Becomes(DetermineDownloadTarget(s, i, auto))
  /\ links' = links + 1 /\ UNCHANGED <<client, pages>>

\* ChooseSavePath(); auto if the application called savePage() with a path.
ChooseSavePath(auto) ==
  /\ pages < MaxSaves
  /\ LET id == currentId + 1
         s == [Now(TRUE) EXCEPT !.currentId = id, !.saves = @ \union {id}]
     IN Becomes(IF client THEN PostRequest(s, id, auto, TRUE, FALSE) ELSE Now(TRUE))
  /\ pages' = pages + 1 /\ UNCHANGED <<client, links>>

Active(i) == i \in DOMAIN items /\ items[i].state = "in_progress"

\* Progress before the target is known, or after.
Progress(i) ==
  /\ Active(i) /\ Len(queue) < MaxQueue
  /\ Becomes(Notify(Now(TRUE), i)) /\ UNCHANGED <<client, links, pages>>

Stop(i) ==
  /\ Active(i) /\ items[i].target = "set" /\ Len(queue) < MaxQueue
  /\ \E st \in {"complete", "interrupted"}, lost \in BOOLEAN :
       /\ lost => st = "interrupted"
       /\ items[i].kind = "page" /\ st = "interrupted" => lost
       /\ Becomes(Notify([Now(TRUE) EXCEPT !.items[i].state = st,
                            !.items[i].target = IF lost THEN "lost" ELSE @], i))
  /\ UNCHANGED <<client, links, pages>>

\* The application, with a request that it has.
Accept(n) == \E dir \in BOOLEAN : Undecided(requests[n]) /\ Becomes(accept(Now(dir), n))
Cancel(n) == Becomes(cancel(Now(TRUE), n))
DeleteRequest(n) == Becomes(Delete(Now(TRUE), n))
Resume(n) ==
  LET r == requests[n]
  IN /\ ~r.finished /\ r.state \in {"in_progress", "interrupted"} /\ Found(Now(TRUE), r.id)
     /\ items[r.id].state = "interrupted" /\ items[r.id].target = "set"
     /\ Becomes(DetermineDownloadTarget(
          Notify([Now(TRUE) EXCEPT !.items[r.id].state = "in_progress"], r.id), r.id, FALSE))

Application ==
  /\ \E n \in DOMAIN requests :
       /\ requests[n].alive
       /\ Accept(n) \/ Cancel(n) \/ DeleteRequest(n) \/ Resume(n)
  /\ UNCHANGED <<client, links, pages>>

Next ==
  \/ OpenProfile \/ Deliver \/ Application
  \/ \E auto \in BOOLEAN : StartDownload(auto) \/ ChooseSavePath(auto)
  \/ \E i \in Items : Progress(i) \/ Stop(i)

Spec == Init /\ [][Next]_vars /\ WF_vars(Deliver)
-----------------------------------------------------------------------------
States == {"in_progress", "complete", "cancelled", "interrupted"}

\* Type invariant.
TypeOK ==
  /\ client \in BOOLEAN /\ clash \in BOOLEAN /\ links \in 0 .. MaxLinks /\ pages \in 0 .. MaxSaves
  /\ items \in Seq([kind : {"link", "page"}, state : States \union {"gone"},
                    target : {"none", "asking", "set", "lost"}, observers : Nat])
  /\ Len(items) <= links + pages /\ currentId \in 0 .. MaxLinks + MaxSaves
  /\ downloads \subseteq DOMAIN items /\ \A i \in downloads : items[i].target = "asking"
  /\ saves \subseteq Items
  /\ given \subseteq Items /\ ongoing \in [Items -> 0 .. Len(requests)]
  /\ requests \in Seq([id : Items, state : States \union {"requested"}, callback : BOOLEAN,
                       answered : BOOLEAN, finished : BOOLEAN, alive : BOOLEAN])
  /\ \A k \in DOMAIN queue : queue[k].id \in Items /\ queue[k].type \in {"requested", "updated"}

\* A request that can still answer for id.
AnswerComes(id) ==
  \/ \E k \in DOMAIN queue : queue[k].type = "requested" /\ queue[k].id = id
  \/ \E n \in DOMAIN requests : requests[n].alive /\ requests[n].id = id /\ ~requests[n].answered

\* Chromium never waits in vain: the callback of an item that waits for its
\* target is kept, and every callback that is kept belongs to a request that
\* is on its way to the application or has not been answered. An item is asked
\* about and observed once, however often its target is determined again.
EveryCallbackAnswered ==
  /\ \A i \in DOMAIN items : items[i].observers <= 1
  /\ \A i \in DOMAIN items : Active(i) /\ items[i].target = "asking" => i \in downloads
  /\ \A id \in downloads \union saves : AnswerComes(id)

\* Where no id was given twice, a request whose timers have all run shows what
\* its item is, unless it was cancelled while it was interrupted; and one that
\* is deleted leaves no item and no callback behind.
Agree(n) ==
  LET r == requests[n]
  IN Found(Now(TRUE), r.id) =>
       \/ r.state = items[r.id].state
       \/ r.state = "cancelled" /\ items[r.id].state = "interrupted"
LeftNothing(id) == ~Found(Now(TRUE), id) /\ id \notin downloads \union saves
AgreeWhenQuiet ==
  ~clash => \A n \in DOMAIN requests :
    /\ requests[n].alive /\ requests[n].answered /\ queue = <<>> => Agree(n)
    /\ ~requests[n].alive => LeftNothing(requests[n].id)

\* Again and again the application sees as completed and finished every item
\* it has a request for that is completed: no last update is lost, and
\* none that waited with it, nor a cancel() that crosses it, hides it.
Completed(r) == r.alive /\ r.answered /\ Found(Now(TRUE), r.id)
                /\ items[r.id].state = "complete"
Shown(r) == r.state = "complete" /\ r.finished
CompletionsArrive ==
  []<>(clash \/ \A n \in DOMAIN requests : Completed(requests[n]) => Shown(requests[n]))
=============================================================================
