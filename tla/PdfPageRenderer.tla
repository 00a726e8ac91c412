--------------------------- MODULE PdfPageRenderer ---------------------------
(***************************************************************************)
(* QPdfPageRenderer (pdf/qpdfpagerenderer.cpp) in its multi-threaded mode: *)
(* requests of the GUI thread are queued to a worker, whose images come    *)
(* back as queued signals.  m_requests is always empty between calls and   *)
(* left out; the id of a request is left out, since no two pending         *)
(* requests have the same parameters (RequestsAccounted).  In the          *)
(* single-threaded mode the worker's steps are events of the GUI thread.   *)
(*                                                                         *)
(* A document (PdfDocument) is what it holds: 0 when its status is not     *)
(* Ready, otherwise the number of the load that filled it.  Documents are  *)
(* not destroyed.                                                          *)
(***************************************************************************)
EXTENDS Integers, Sequences, FiniteSets, SequencesExt

CONSTANTS Docs, NPages, Sizes,
          MaxLoads    \* bound of the number of loads

ASSUME RendererConstants == NPages \in Nat \ {0} /\ MaxLoads \in Nat /\ "none" \notin Docs

Pages == 0 .. NPages - 1
Request == [page : Pages, size : Sizes]
NoRequest == [page |-> -1]

VARIABLES
  content,   \* [Docs -> what the document holds]
  loads,     \* loads so far
  document,  \* m_document of the renderer and of its worker, or "none"
  pending,   \* m_pendingRequests
  queue,     \* calls of requestPage() queued to the worker
  current,   \* what the worker is rendering
  results,   \* images on their way to the GUI thread
  lost       \* history: requests the worker dropped

renderer == <<document, pending, queue, current, results, lost>>
documents == <<content, loads>>

RendererInit ==
  /\ content = [d \in Docs |-> 0] /\ loads = 0 /\ document = "none"
  /\ pending = {} /\ queue = <<>> /\ current = NoRequest /\ results = <<>> /\ lost = {}

Holds == IF document = "none" THEN 0 ELSE content[document]
Ready == Holds # 0
-----------------------------------------------------------------------------
(* The GUI thread.                                                         *)

Loaded(d) ==
  /\ content[d] = 0 /\ loads < MaxLoads
  /\ loads' = loads + 1 /\ content' = [content EXCEPT ![d] = loads']

Closed(d) == content[d] # 0 /\ content' = [content EXCEPT ![d] = 0] /\ UNCHANGED loads

\* setDocument() waits for the lock that the worker holds while it renders.
setDocument(d) == current = NoRequest /\ document # d /\ document' = d

\* requestPage() for each request of a set, in any order.
EvenIfPending(S) == S  \* for a mutant
AsNew(S) == S \ pending
requestPages(S) ==
  LET new == IF Ready THEN AsNew(S) ELSE {}
  IN /\ \E order \in SetToSeqs(new) : queue' = queue \o order
     /\ pending' = pending \union new

\* The lambda connected to the worker's pageRendered(), as far as the renderer
\* goes; the slots of its own pageRendered() follow.
NotErased(r) == UNCHANGED pending  \* for a mutant
requestFinished(r) == pending' = pending \ {r}
Deliver ==
  /\ results # <<>> /\ results' = Tail(results)
  /\ requestFinished(Head(results).request)
-----------------------------------------------------------------------------
(* The worker.                                                             *)

WorkerTakes ==
  /\ current = NoRequest /\ queue # <<>> /\ queue' = Tail(queue)
  /\ IF Ready THEN current' = Head(queue) /\ UNCHANGED lost
     ELSE lost' = lost \union {Head(queue)} /\ UNCHANGED current
  /\ UNCHANGED <<documents, document, pending, results>>

\* The image is of what the document holds now: 0 is the null image.
WorkerRenders ==
  /\ current # NoRequest /\ current' = NoRequest
  /\ results' = Append(results, [request |-> current, image |-> Holds])
  /\ UNCHANGED <<documents, document, pending, queue, lost>>
=============================================================================
