----------------------------- MODULE LoadSignals -----------------------------
(***************************************************************************)
(* The load signals of a page: WebContentsDelegateQt condenses what        *)
(* Chromium reports of the navigations and documents of the main frame     *)
(* (core/web_contents_delegate_qt.cpp) into loadStarted, loadProgress and  *)
(* loadFinished.  The signals are posted to the application in order.      *)
(*                                                                         *)
(* Chromium is external: at most one navigation of the main frame is       *)
(* pending; the document it replaces goes on loading until it commits, so  *)
(* the reports of two loads interleave; a new navigation cancels the       *)
(* pending one; DidStopLoading comes at once when no navigation is left    *)
(* and the renderer has stopped.                                           *)
(***************************************************************************)
EXTENDS Integers

CONSTANT Full  \* 100%

ASSUME LoadConstants == Full \in Nat \ {0}

VARIABLES
  info,       \* m_loadingInfo
  empty,      \* m_isDocumentEmpty
  errorPages, \* the ErrorPageEnabled setting
  tab,        \* the tab is loading, the main frame or a subframe
  pending,    \* the navigation in progress: "none", "shows" or "ignores" errors
  document,   \* the document committed since the tab began to load
  rendering,  \* a renderer has not stopped loading
  httpOk,     \* the status of the active entry is below 400
  seen, ends, \* the progress and the number modulo 2 of ends reported
  report,     \* the last loadFinished
  bypassed    \* a custom scheme job has replied without a device

chromium == <<tab, pending, document, rendering, httpOk>>
signals  == <<seen, ends, report, bypassed>>
loadVars == <<info, empty, errorPages, chromium, signals>>

LoadingInfo == [progress |-> -1, success |-> FALSE, isErrorPage |-> FALSE,
                error |-> "none", triggersErrorPage |-> FALSE, isDownload |-> FALSE]

NoReport == [status |-> "none", isErrorPage |-> FALSE, isDownload |-> FALSE]

LoadInit ==
  /\ info = LoadingInfo /\ empty = TRUE /\ errorPages \in BOOLEAN
  /\ tab = FALSE /\ pending = "none" /\ document = "none"
  /\ rendering = FALSE /\ httpOk = TRUE
  /\ seen = -1 /\ ends = 0 /\ report = NoReport /\ bypassed = FALSE

isLoading == info.progress >= 0

(* "Only report first ever load start": a mutated form forgets the check. *)
StartsAgain == TRUE
StartsLoad == ~isLoading

(* What ends with DidStopLoading; a mutated form waits for the error page. *)
EndsAfterErrorPage == isLoading /\ (info.triggersErrorPage => info.isErrorPage)
EndsLoad == isLoading

-----------------------------------------------------------------------------
(* The parts of the handlers *)

(* emitLoadStarted, with its report of 0%, from m_loadingInfo = i. *)
emitLoadStarted(i, isErrorPage) ==
  LET starts == ~isErrorPage /\ StartsLoad
  IN /\ empty' = (isErrorPage \/ starts \/ empty)
     /\ info' = IF starts THEN [i EXCEPT !.progress = 0] ELSE i
     /\ seen' = IF starts THEN 0 ELSE seen
     /\ UNCHANGED <<ends, report, bypassed>>

LoadStatus == CASE info.success                            -> "Succeeded"
                [] ~info.success /\ info.error = "aborted" -> "Stopped"
                [] ~info.success /\ info.error # "aborted" -> "Failed"

(* emitLoadFinished() of a load and clear(). *)
emitLoadFinished ==
  /\ info' = LoadingInfo
  /\ IF EndsLoad
     THEN /\ seen' = -1 /\ ends' = 1 - ends
          /\ report' = [status |-> LoadStatus, isErrorPage |-> info.isErrorPage,
                        isDownload |-> info.isDownload]
          /\ UNCHANGED bypassed
     ELSE UNCHANGED signals

triggersErrorPage(error) == errorPages /\ error # "aborted"

didFailLoad(i, error) ==
  [i EXCEPT !.success = FALSE, !.error = error,
            !.triggersErrorPage = triggersErrorPage(error)]

(* A mutated form keeps the success of the document before. *)
didFailKeepingSuccess(i, error) ==
  [i EXCEPT !.error = error, !.triggersErrorPage = triggersErrorPage(error)]

didFailNavigation(i, error) == didFailLoad(i, error)

(* emitLoadFinished(true): the error page of a failed load is there; a      *)
(* mutated form takes it for the document.                                 *)
ErrorPageSucceeds == [info EXCEPT !.success = isLoading \/ @]
ErrorPageLoaded == [info EXCEPT !.isErrorPage = isLoading \/ @]

-----------------------------------------------------------------------------
(* Navigations *)

(* Nothing of the main frame loads any more. *)
Stopped == tab /\ pending = "none" /\ ~rendering

(* DidStartNavigation, after DidFinishNavigation of one it cancels. *)
DidStartNavigation ==
  /\ ~Stopped
  /\ pending' = IF errorPages THEN "shows" ELSE "ignores"
  /\ tab' = TRUE
  /\ LET i == IF pending = "none" THEN info ELSE didFailNavigation(info, "aborted")
     IN \E entry \in BOOLEAN : emitLoadStarted(i, i.triggersErrorPage /\ ~entry)
  /\ UNCHANGED <<errorPages, document, rendering, httpOk>>

FinishNavigation(doc) ==
  /\ pending # "none" /\ pending' = "none"
  /\ document' = doc
  /\ UNCHANGED <<empty, errorPages, tab, signals>>

(* DidFinishNavigation, in its cases: a document, ... *)
DocumentCommitted ==
  /\ FinishNavigation("loading") /\ rendering' = TRUE
  /\ httpOk' \in BOOLEAN
  /\ UNCHANGED info

(* ... an error page in place of a document that could not be loaded, ... *)
ErrorPageCommitted ==
  /\ pending = "shows" /\ FinishNavigation("error") /\ rendering' = TRUE
  /\ info' = didFailNavigation(info, "failed")
  /\ UNCHANGED httpOk

(* ... a failure that keeps the current document, when errors are ignored, *)
(* ... and an aborted navigation, which may go on as a download.           *)
NotCommitted ==
  /\ FinishNavigation(document)
  /\ \/ pending = "ignores" /\ info' = didFailNavigation(info, "failed")
     \/ info' = didFailNavigation(info, "aborted")
     \/ info' = didFailNavigation([info EXCEPT !.isDownload = TRUE], "aborted")
  /\ UNCHANGED <<rendering, httpOk>>

-----------------------------------------------------------------------------
(* Documents *)

ResourceLoadComplete ==
  /\ document = "loading"
  /\ empty' \in BOOLEAN
  /\ UNCHANGED <<info, errorPages, chromium, signals>>

(* GetActiveEntry() is that of the pending navigation, if it has one. *)
EntryOk == IF pending = "none" THEN {httpOk} ELSE {httpOk, TRUE}

DidFinishLoad ==
  /\ \/ /\ document = "loading" /\ document' = "loaded"
        /\ \E ok \in EntryOk :
             info' = [info EXCEPT !.success = ok, !.error = "http",
                                  !.triggersErrorPage = errorPages /\ ~ok /\ empty]
     \/ /\ document = "error" /\ document' = "errorPage"
        /\ info' = ErrorPageLoaded
  /\ UNCHANGED <<empty, errorPages, tab, pending, rendering, httpOk, signals>>

DidFailLoad ==
  /\ \/ document = "loading" /\ document' = "stopped" /\ info' = didFailLoad(info, "aborted")
     \/ document = "error" /\ document' = "errorPage" /\ info' = ErrorPageLoaded
  /\ UNCHANGED <<empty, errorPages, tab, pending, rendering, httpOk, signals>>

(* A subframe of a loaded page loads; none of its reports is looked at. *)
SubframeLoads ==
  /\ ~tab /\ tab' = TRUE /\ rendering' = TRUE
  /\ UNCHANGED <<info, empty, errorPages, pending, document, httpOk, signals>>

RendererStopped ==
  /\ rendering /\ document \notin {"loading", "error"}
  /\ rendering' = FALSE
  /\ UNCHANGED <<info, empty, errorPages, tab, pending, document, httpOk, signals>>

(* The delegate's load state does not look at the crash. *)
RenderProcessGone ==
  /\ document \in {"loading", "error"}
  /\ document' = "gone" /\ rendering' = FALSE
  /\ UNCHANGED <<info, empty, errorPages, tab, pending, httpOk, signals>>

LoadProgressChanged ==
  /\ tab /\ isLoading
  /\ \E p \in info.progress + 1 .. Full :
       info' = [info EXCEPT !.progress = p] /\ seen' = p
  /\ UNCHANGED <<empty, errorPages, chromium, ends, report, bypassed>>

DidStopLoading ==
  /\ Stopped
  /\ tab' = FALSE /\ document' = "none"
  /\ emitLoadFinished
  /\ UNCHANGED <<empty, errorPages, pending, rendering, httpOk>>

(* emitLoadSucceeded, for a pending navigation of a custom scheme. *)
emitLoadSucceeded ==
  /\ pending # "none" /\ bypassed' = TRUE
  /\ seen' = -1 /\ ends' = 1 - ends
  /\ report' = [NoReport EXCEPT !.status = "Succeeded"]
  /\ UNCHANGED <<info, empty, errorPages, chromium>>

SetErrorPageEnabled ==
  /\ errorPages' = ~errorPages
  /\ UNCHANGED <<info, empty, chromium, signals>>

LoadNext ==
  \/ DidStartNavigation \/ DocumentCommitted \/ ErrorPageCommitted \/ NotCommitted
  \/ SubframeLoads \/ ResourceLoadComplete \/ DidFinishLoad \/ DidFailLoad \/ RendererStopped
  \/ RenderProcessGone \/ LoadProgressChanged \/ DidStopLoading \/ emitLoadSucceeded \/ SetErrorPageEnabled

LoadSpec == LoadInit /\ [][LoadNext]_loadVars

-----------------------------------------------------------------------------

Errors   == {"none", "aborted", "failed", "http"}
Statuses == {"none", "Succeeded", "Stopped", "Failed"}

(* Every variable has its type, and only a failure that is no abort         *)
(* triggers an error page.                                                  *)
LoadTypeOK ==
  /\ info \in [progress : -1 .. Full, success : BOOLEAN, isErrorPage : BOOLEAN,
               error : Errors, triggersErrorPage : BOOLEAN, isDownload : BOOLEAN]
  /\ info.triggersErrorPage => info.error \in {"failed", "http"}
  /\ seen \in -1 .. Full /\ ends \in {0, 1} /\ pending \in {"none", "shows", "ignores"}
  /\ {empty, errorPages, tab, rendering, httpOk, bypassed} \subseteq BOOLEAN
  /\ document \in {"none", "loading", "error", "loaded", "errorPage", "stopped", "gone"}
  /\ report \in [status : Statuses, isErrorPage : BOOLEAN, isDownload : BOOLEAN]

(* However the reports of overlapping loads interleave, the application    *)
(* sees loads that start once, progress only while they run, and finish    *)
(* once (the comments of LoadProgressChanged and emitLoadStarted), until a *)
(* custom scheme job bypasses the load state.                              *)
Stream == INSTANCE LoadStream
SignalsInOrder == Stream!Init /\ [][Stream!Next \/ bypassed']_<<seen, ends>>

(* A load the application was told of does not outlive that of the tab.    *)
EveryLoadFinishes == ~tab => seen = -1

(* DidStopLoading reports the end of a load. *)
Finishing == Stopped /\ ends' # ends
Finishes(status) == Finishing /\ report'.status = status

(* loadFinished reports success only of a document that was loaded to its  *)
(* end, whatever failed or was aborted before, or of one that crashed.     *)
SuccessIsALoadedDocument ==
  [][Finishes("Succeeded") => document = "gone" \/ (document = "loaded" /\ httpOk)]_loadVars

(* A load that ends in an error page is reported as such, and loading the  *)
(* error page itself does not turn the failure into a success.             *)
ErrorPageIsAFailure ==
  [][Finishing /\ document = "errorPage"
       => ~Finishes("Succeeded") /\ report'.isErrorPage]_loadVars

(* The inductive invariant of the proofs.  The application has seen the    *)
(* progress of the load state, or nothing after a bypass; nothing is left  *)
(* of a load when none runs; and success is only remembered of a document  *)
(* that may still be taken back before the load ends.                      *)
SeenIsProgress ==
  /\ seen \in {-1, info.progress}
  /\ ~bypassed => seen = info.progress

IdleIsClear ==
  /\ ~isLoading => info = LoadingInfo /\ pending = "none" /\ document = "none"
  /\ isLoading => tab
  /\ document \in {"loading", "error"} => rendering

SuccessOfDocument ==
  info.success => \/ document \in {"loading", "gone"}
                  \/ document = "loaded" /\ (httpOk \/ pending # "none")

ErrorPageRemembered ==
  /\ document \in {"error", "errorPage"} => ~info.success
  /\ document = "errorPage" => info.isErrorPage

LoadInv == LoadTypeOK /\ SeenIsProgress /\ IdleIsClear /\ SuccessOfDocument /\ ErrorPageRemembered
=============================================================================
