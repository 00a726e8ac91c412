------------------------------- MODULE PdfView -------------------------------
(***************************************************************************)
(* QPdfView (pdfwidgets/qpdfview.cpp) over PdfPageRenderer: the layout,    *)
(* the cache of page images with its order of eviction, and the painting   *)
(* that requests the pages the cache lacks.                                *)
(*                                                                         *)
(* Zoom factor, zoom mode, spacing, margins and a resize in a fitting mode *)
(* are one size of the pages; a change of spacing keeps it.  All documents *)
(* have NPages pages.  A viewport shows at most Window of them.            *)
(***************************************************************************)
EXTENDS PdfPageRenderer

CONSTANTS Window,         \* pages a viewport shows at most
          PageCacheLimit, \* m_pageCacheLimit
          MaxChanges      \* bound of the user's actions

ASSUME ViewConstants ==
  /\ Window \in Nat \ {0} /\ PageCacheLimit \in Nat /\ MaxChanges \in Nat
  /\ Sizes # {} /\ 0 \notin Sizes

VARIABLES
  pageMode,
  page,        \* SinglePage: current page; MultiPage: first page in the viewport
  size,        \* of the pages, by zoom and mode
  layout,      \* the size m_documentLayout has the pages in, 0: it is empty
  pageCache,   \* m_pageCache: [pages -> [size, image]]
  lru,         \* m_cachedPagesLRU
  dirty,       \* viewport()->update() was called
  changes,     \* user's actions so far
  overtaken    \* history: requests pending when the cache was last cleared

view == <<pageMode, page, size, layout, pageCache, lru, dirty, changes, overtaken>>
vars == <<documents, renderer, view>>

DefaultSize == CHOOSE s \in Sizes : TRUE
NoImages == [p \in {} |-> 0]

Init ==
  /\ RendererInit
  /\ pageMode \in {"single", "multi"} /\ page = 0 /\ size = DefaultSize /\ layout = 0
  /\ pageCache = NoImages /\ lru = <<>> /\ dirty = TRUE /\ changes = 0 /\ overtaken = {}
-----------------------------------------------------------------------------
updateDocumentLayout(s) == layout' = IF Holds' = 0 THEN 0 ELSE s

invalidatePageCache == pageCache' = NoImages /\ dirty' = TRUE /\ overtaken' = pending
KeepsCache(s) == updateDocumentLayout(s) /\ dirty' = TRUE /\ UNCHANGED <<pageCache, overtaken>>  \* for a mutant
invalidateDocumentLayout(s) == updateDocumentLayout(s) /\ invalidatePageCache

documentStatusChanged ==
  /\ IF Holds' # 0 THEN updateDocumentLayout(size) ELSE UNCHANGED layout
  /\ invalidatePageCache

\* A document becomes Ready, or ceases to be; the view is connected to its own.
StatusChanges ==
  /\ UNCHANGED <<renderer, pageMode, page, size, lru, changes>>
  /\ \E d \in Docs : /\ Loaded(d) \/ Closed(d)
                     /\ IF d = document THEN documentStatusChanged
                        ELSE UNCHANGED <<layout, pageCache, dirty, overtaken>>

UserActs == changes < MaxChanges /\ changes' = changes + 1

SetDocument ==
  /\ UserActs
  /\ UNCHANGED <<documents, pending, queue, current, results, lost, pageMode, page, size, lru>>
  /\ \E d \in Docs : setDocument(d)
  /\ documentStatusChanged

SetSize ==
  /\ UserActs /\ UNCHANGED <<documents, renderer, pageMode, page, lru>>
  /\ size' \in Sizes /\ invalidateDocumentLayout(size')

SetPageMode ==
  /\ UserActs /\ UNCHANGED <<documents, renderer, page, size, lru>>
  /\ pageMode' \in {"single", "multi"} \ {pageMode} /\ invalidateDocumentLayout(size)

\* Another current page, or scrolling.
GoTo ==
  /\ UserActs /\ UNCHANGED <<documents, renderer, pageMode, size, lru>>
  /\ page' \in Pages \ {page}
  /\ IF pageMode = "single" THEN invalidateDocumentLayout(size)
     ELSE dirty' = TRUE /\ UNCHANGED <<layout, pageCache, overtaken>>

InViewport == {p \in Pages : page <= p /\ p < page + Window}
Visible == CASE layout = 0 -> {}
             [] layout # 0 /\ pageMode = "single" -> {page}
             [] OTHER -> InViewport
Missing == Visible \ DOMAIN pageCache

Paint ==
  /\ dirty /\ dirty' = FALSE
  /\ requestPages({[page |-> p, size |-> layout] : p \in Missing})
  /\ UNCHANGED <<documents, document, current, results, lost, pageMode, page, size, layout,
                 pageCache, lru, changes, overtaken>>

Evicted == IF Len(lru) > PageCacheLimit THEN {Head(lru)} ELSE {}
Kept == IF Len(lru) > PageCacheLimit THEN Tail(lru) ELSE lru

PageRendered ==
  /\ Deliver
  /\ LET p    == Head(results).request.page
         gone == IF p \in ToSet(lru) THEN {} ELSE Evicted
         img  == [size |-> Head(results).request.size, image |-> Head(results).image]
     IN /\ lru' = IF p \in ToSet(lru) THEN lru ELSE Append(Kept, p)
        /\ pageCache' = [q \in (DOMAIN pageCache \ gone) \union {p} |->
                           IF q = p THEN img ELSE pageCache[q]]
  /\ dirty' = TRUE
  /\ UNCHANGED <<documents, document, queue, current, lost, pageMode, page, size, layout, changes,
                 overtaken>>

Idle == results = <<>> /\ queue = <<>> /\ current = NoRequest /\ ~dirty /\ UNCHANGED vars

Next ==
  \/ StatusChanges \/ SetDocument \/ SetSize \/ SetPageMode \/ GoTo
  \/ Paint \/ PageRendered
  \/ (WorkerTakes \/ WorkerRenders) /\ UNCHANGED view
  \/ Idle

\* Both event loops run; the application need not do anything.
Fairness ==
  /\ WF_vars(Paint) /\ WF_vars(PageRendered)
  /\ WF_vars(WorkerTakes /\ UNCHANGED view) /\ WF_vars(WorkerRenders /\ UNCHANGED view)

Spec == Init /\ [][Next]_vars /\ Fairness
-----------------------------------------------------------------------------
(* Properties.                                                             *)

Image == [size : Sizes, image : 0 .. MaxLoads]

\* Every variable has values of its type.
TypeOK ==
  /\ content \in [Docs -> 0 .. MaxLoads] /\ loads \in 0 .. MaxLoads
  /\ document \in Docs \union {"none"}
  /\ pending \in SUBSET Request /\ queue \in Seq(Request)
  /\ current \in Request \union {NoRequest} /\ lost \in SUBSET Request
  /\ results \in Seq([request : Request, image : 0 .. MaxLoads])
  /\ pageMode \in {"single", "multi"} /\ page \in Pages /\ size \in Sizes
  /\ layout \in Sizes \union {0} /\ lru \in Seq(Pages)
  /\ DOMAIN pageCache \in SUBSET Pages /\ \A p \in DOMAIN pageCache : pageCache[p] \in Image
  /\ dirty \in BOOLEAN /\ changes \in 0 .. MaxChanges /\ overtaken \in SUBSET Request

UnderWay == queue \o (IF current = NoRequest THEN <<>> ELSE <<current>>)
                  \o [i \in DOMAIN results |-> results[i].request]

\* Every pending request is in exactly one place: on its way to the worker, in
\* its hands, on its way back, or dropped by it; and nothing else is there.
RequestsAccounted ==
  /\ IsInjective(UnderWay)
  /\ ToSet(UnderWay) \intersect lost = {}
  /\ pending = ToSet(UnderWay) \union lost

\* The cache never holds more than m_pageCacheLimit + 1 images, all of pages in
\* the list that decides what goes, which has no page twice.
CacheBounded ==
  /\ DOMAIN pageCache \subseteq ToSet(lru)
  /\ IsInjective(lru) /\ Len(lru) <= PageCacheLimit + 1

\* So it is, and what the view shows is of the document, of what it holds now
\* and of the size of its layout, unless the request was pending when the cache
\* was last cleared: whatever changes one of the three clears the cache.
CacheCurrentOrOvertaken ==
  /\ CacheBounded
  /\ \A p \in DOMAIN pageCache :
       \/ pageCache[p].size = layout /\ pageCache[p].image = Holds
       \/ [page |-> p, size |-> pageCache[p].size] \in overtaken

\* A view left alone settles: it comes to have an image of every page it shows,
\* however small the cache is, if the viewport fits into it; except for pages
\* whose request was dropped, which are never requested again in that size.
Settled == Missing = {} \/ ~Ready \/ \E p \in Missing : [page |-> p, size |-> layout] \in lost
ViewSettles == (Window <= PageCacheLimit + 1) => []<>Settled
=============================================================================
