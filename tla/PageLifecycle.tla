---------------------------- MODULE PageLifecycle ----------------------------
(***************************************************************************)
(* The lifecycle of a page: WebContentsAdapter::setLifecycleState,         *)
(* setVisible and updateRecommendedState (core/web_contents_adapter.cpp)   *)
(* with what calls them: the page and view API, loads, the observer        *)
(* callbacks of WebContentsDelegateQt, capture streams and DevTools.       *)
(*                                                                         *)
(* All of it runs on one thread, but lifecycleStateChanged and             *)
(* visibleChanged are emitted in the middle of the functions, and a slot   *)
(* may call back.  What is left to do of the calls in progress is a        *)
(* sequence of steps, the next one first; a call puts its body in front.   *)
(* recommendedStateChanged is posted (QTimer::singleShot).                 *)
(***************************************************************************)
EXTENDS Naturals, Sequences

CONSTANTS MaxStreams, MaxNotices, MaxSteps  \* bounds

ASSUME PageConstants == {MaxStreams, MaxNotices, MaxSteps} \subseteq Nat

LifecycleState == {"Active", "Frozen", "Discarded"}
Visibility     == {"shown", "hidden"}

VARIABLES
  state,        \* m_lifecycleState
  recommended,  \* m_recommendedState
  visibility,   \* of m_webContents
  view,         \* whether the widget is shown; "none" for a page without one
  fetching,     \* m_webContents->IsLoading()
  loadingState, \* m_loadingState of the delegate
  committed,    \* a navigation was committed
  streams,      \* capture streams the delegate counts
  inspected,    \* m_devToolsFrontend is set
  crashed,      \* m_webContents->IsCrashed()
  busy,         \* recently audible, or related to other active contents
  kept,         \* form interaction, or a PDF
  notices,      \* recommendedStateChanged signals posted
  announced,    \* the last value of visibleChanged
  past,         \* "slot": one has called; "silent": an input of the recommended
                \* state has changed since the last update, which nobody signals
  todo          \* steps of the calls in progress

loads    == <<fetching, loadingState, committed>>
activity == <<streams, inspected, crashed, busy, kept>>
told     == <<notices, announced, past>>
vars == <<state, recommended, visibility, view, loads, activity, told, todo>>

(* determineLoadingState() of contents that load, or not, with a response  *)
(* to show, and have an entry that was committed, or not.                  *)
determineLoadingState(shows, entry) ==
  IF shows THEN "Loading" ELSE IF entry THEN "Loaded" ELSE "Unloaded"

(* initialize() with contents of its own, by load() or with nothing to load. *)
Init ==
  /\ state = "Active" /\ recommended = "Active" /\ visibility = "hidden"
  /\ view \in {"none", "hidden"} /\ fetching \in BOOLEAN
  /\ loadingState = determineLoadingState(FALSE, FALSE) /\ committed = FALSE
  /\ streams = 0 /\ inspected = FALSE /\ crashed = FALSE
  /\ busy = FALSE /\ kept = FALSE
  /\ notices = <<>> /\ announced = "hidden" /\ past = {} /\ todo = <<>>

Step(op, arg) == [op |-> op, arg |-> arg]
Steps ==
  [op : {"setLifecycleState", "lifecycleStateChanged"}, arg : LifecycleState]
    \cup [op : {"setVisible", "visibleChanged"}, arg : Visibility]
    \cup [op : {"updateRecommendedState", "wasShown", "inspect", "fetch", "hidden"}, arg : {"none"}]
SetLifecycleState(s) == Step("setLifecycleState", s)
SetVisible(v)        == Step("setVisible", v)
Update               == Step("updateRecommendedState", "none")

visible == visibility = "shown"
HasView == view # "none"

Idle == todo = <<>>
Do(op) == ~Idle /\ Head(todo).op = op
Arg == Head(todo).arg
Then(steps) == todo' = steps \o Tail(todo)

-----------------------------------------------------------------------------
(* setLifecycleState *)

HeldVisible == visible

HeldActive == visible \/ inspected

Accepts(to) ==
  /\ to # state
  /\ state = "Active" => ~HeldActive
  /\ state = "Discarded" => to = "Active"

EmittedOnly(to) == <<Step("lifecycleStateChanged", to)>>

Emitted(to) == <<Step("lifecycleStateChanged", to), Update>>

Refuse ==
  /\ Do("setLifecycleState") /\ ~Accepts(Arg)
  /\ Then(<<>>)
  /\ UNCHANGED <<state, recommended, visibility, view, loads, activity, told>>

(* freeze() and unfreeze(). *)
FreezeOrUnfreeze ==
  /\ Do("setLifecycleState") /\ Accepts(Arg)
  /\ {state, Arg} = {"Active", "Frozen"}
  /\ state' = Arg
  /\ Then(Emitted(Arg))
  /\ UNCHANGED <<recommended, visibility, view, loads, activity, told>>

(* discard(): a load is aborted, which DidStopLoading reports through the  *)
(* old delegate; then hidden contents and a new delegate take their place. *)
(* The delegate looks at the contents before their history is copied.      *)
Discard ==
  /\ Do("setLifecycleState") /\ Accepts(Arg) /\ Arg = "Discarded"
  /\ state' = "Discarded"
  /\ visibility' = "hidden" /\ fetching' = FALSE
  /\ loadingState' = determineLoadingState(FALSE, FALSE)
  /\ streams' = 0 /\ crashed' = FALSE /\ busy' = FALSE /\ kept' = FALSE
  /\ Then((IF fetching /\ loadingState # "Loaded" THEN <<Update>> ELSE <<>>)
          \o Emitted("Discarded"))
  /\ UNCHANGED <<recommended, view, committed, inspected, told>>

(* initializationFinished() of the page. *)
SyncShown == IF HasView THEN <<SetVisible("shown")>> ELSE <<>>

SyncWithView == IF HasView THEN <<SetVisible(view)>> ELSE <<>>

(* undiscard(): the page is loaded again, if there was one. *)
Undiscard ==
  /\ Do("setLifecycleState") /\ Accepts(Arg) /\ state = "Discarded"
  /\ state' = "Active"
  /\ fetching' = (fetching \/ committed)
  /\ Then(SyncWithView \o Emitted("Active"))
  /\ UNCHANGED <<recommended, visibility, view, loadingState, committed, activity, told>>

-----------------------------------------------------------------------------
(* setVisible *)

ChangesVisibility(v) == visibility # v

ShowFirst == <<SetLifecycleState("Active"), Step("wasShown", "none")>>

Show ==
  /\ Do("setVisible") /\ Arg = "shown" /\ ChangesVisibility(Arg)
  /\ Then(ShowFirst)
  /\ UNCHANGED <<state, recommended, visibility, view, loads, activity, told>>

WasShown ==
  /\ Do("wasShown")
  /\ visibility' = "shown"
  /\ Then(<<Step("visibleChanged", "shown"), Update>>)
  /\ UNCHANGED <<state, recommended, view, loads, activity, told>>

Hide ==
  /\ Do("setVisible") /\ Arg = "hidden" /\ ChangesVisibility(Arg)
  /\ visibility' = "hidden"
  /\ Then(<<Step("visibleChanged", "hidden"), Update>>)
  /\ UNCHANGED <<state, recommended, view, loads, activity, told>>

SameVisibility ==
  /\ Do("setVisible") /\ ~ChangesVisibility(Arg)
  /\ Then(<<>>)
  /\ UNCHANGED <<state, recommended, visibility, view, loads, activity, told>>

-----------------------------------------------------------------------------
(* updateRecommendedState, and the slots *)

Active ==
  visible \/ loadingState # "Loaded" \/ busy \/ inspected \/ streams > 0 \/ crashed

determineRecommendedState ==
  CASE state = "Discarded"           -> "Discarded"
    [] state # "Discarded" /\ Active -> "Active"
    [] state = "Active" /\ ~Active   -> "Frozen"
    [] state = "Frozen" /\ ~Active   -> IF kept THEN "Frozen" ELSE "Discarded"

updateRecommendedState ==
  LET new == determineRecommendedState
  IN /\ Do("updateRecommendedState")
     /\ recommended' = new
     /\ notices' = IF new = recommended THEN notices ELSE Append(notices, new)
     /\ past' = past \ {"silent"}
     /\ Then(<<>>)
     /\ UNCHANGED <<state, visibility, view, loads, activity, announced>>

ApplicationCalls ==
  {SetLifecycleState(s) : s \in LifecycleState} \cup {SetVisible(v) : v \in Visibility}

Emit ==
  /\ Do("lifecycleStateChanged") \/ Do("visibleChanged")
  /\ announced' = IF Do("visibleChanged") THEN Arg ELSE announced
  /\ \/ Then(<<>>) /\ UNCHANGED past
     \/ /\ Len(todo) < MaxSteps /\ Len(notices) < MaxNotices
        /\ \E c \in ApplicationCalls : Then(<<c>>)
        /\ past' = past \cup {"slot"}
  /\ UNCHANGED <<state, recommended, visibility, view, loads, activity, notices>>

(* Between the steps of openDevToolsFrontend, load and closeEvent. *)
OtherStep ==
  /\ Do("inspect") \/ Do("fetch") \/ Do("hidden")
  /\ inspected' = (inspected \/ Do("inspect"))
  /\ fetching'  = (fetching \/ Do("fetch"))
  /\ view'      = IF Do("hidden") THEN "hidden" ELSE view
  /\ Then(<<>>)
  /\ UNCHANGED <<state, recommended, visibility, loadingState, committed,
                 streams, crashed, busy, kept, told>>

-----------------------------------------------------------------------------
(* The event loop: what starts when no call is in progress *)

Starts(steps) == Idle /\ Len(notices) < MaxNotices /\ todo' = steps

Call ==
  /\ \E c \in ApplicationCalls :
       /\ HasView => c.op = "setLifecycleState"
       /\ Starts(<<c>>)
  /\ UNCHANGED <<state, recommended, visibility, view, loads, activity, told>>

(* load(); reload() and reloadAndBypassCache() of a page that is not       *)
(* discarded, which for a discarded one only wake it up (Call).            *)
Load ==
  /\ Starts(<<SetLifecycleState("Active"), Step("fetch", "none")>>)
  /\ UNCHANGED <<state, recommended, visibility, view, loads, activity, told>>

(* showEvent; hideEvent; and closeEvent, after which QWidget hides. *)
ViewEvent ==
  /\ HasView
  /\ \/ view = "hidden" /\ view' = "shown" /\ Starts(<<SetVisible("shown")>>)
     \/ view = "shown" /\ view' = "hidden" /\ Starts(<<SetVisible("hidden")>>)
     \/ /\ UNCHANGED view
        /\ Starts(<<SetVisible("hidden"), SetLifecycleState("Discarded"),
                    Step("hidden", "none"), SetVisible("hidden")>>)
  /\ UNCHANGED <<state, recommended, visibility, loads, activity, told>>

(* setLoadingState. *)
LoadingStateQuietly(s) == loadingState' = s /\ Starts(<<>>)

LoadingStateIs(s) ==
  /\ loadingState' = s
  /\ Starts(IF loadingState = s THEN <<>> ELSE <<Update>>)

(* A commit: of a load that the user is to see, or not (ShouldShowLoadingUI). *)
PrimaryPageChanged ==
  /\ \/ fetching /\ LoadingStateIs("Loading") /\ UNCHANGED past
     \/ Starts(<<>>) /\ UNCHANGED loadingState /\ past' = past \cup {"silent"}
  /\ committed' = TRUE /\ crashed' = FALSE
  /\ kept' \in BOOLEAN
  /\ UNCHANGED <<state, recommended, visibility, view, fetching, streams, inspected, busy,
                 notices, announced>>

DidStopLoading ==
  /\ fetching /\ fetching' = FALSE
  /\ LoadingStateIs("Loaded")
  /\ UNCHANGED <<state, recommended, visibility, view, committed, activity, told>>

(* A load fails after its commit, in whichever frame; the others go on.    *)
DidFailLoad ==
  /\ fetching /\ ~crashed
  /\ LoadingStateIs("Loaded")
  /\ UNCHANGED <<state, recommended, visibility, view, fetching, committed, activity, told>>

RenderProcessGone ==
  /\ state # "Discarded" /\ ~crashed /\ crashed' = TRUE
  /\ LoadingStateIs("Unloaded")
  /\ UNCHANGED <<state, recommended, visibility, view, fetching, committed,
                 streams, inspected, busy, kept, told>>

AddDevices ==
  /\ state # "Discarded" /\ ~crashed /\ committed
  /\ streams < MaxStreams /\ streams' = streams + 1
  /\ Starts(<<Update>>)
  /\ UNCHANGED <<state, recommended, visibility, view, loads, inspected, crashed, busy, kept, told>>

DelegateStreams == streams > 0

RemoveDevices ==
  /\ DelegateStreams /\ streams' = streams - 1
  /\ Starts(<<Update>>)
  /\ UNCHANGED <<state, recommended, visibility, view, loads, inspected, crashed, busy, kept, told>>

OpenDevTools ==
  /\ ~inspected
  /\ Starts(<<SetLifecycleState("Active"), Step("inspect", "none"), Update>>)
  /\ UNCHANGED <<state, recommended, visibility, view, loads, activity, told>>

(* devToolsFrontendDestroyed. *)
CloseDevTools ==
  /\ inspected /\ inspected' = FALSE
  /\ Starts(<<Update>>)
  /\ UNCHANGED <<state, recommended, visibility, view, loads, streams, crashed, busy, kept, told>>

(* A form is edited; sound starts or ends, or related contents come and go. *)
SilentActivity ==
  /\ state = "Active" /\ committed /\ ~crashed /\ Idle
  /\ \/ kept' = TRUE /\ UNCHANGED <<busy, past>>
     \/ busy' = ~busy /\ past' = past \cup {"silent"} /\ UNCHANGED kept
  /\ UNCHANGED <<state, recommended, visibility, view, loads, streams, inspected, crashed, notices, announced, todo>>

(* The application applies the recommendation. *)
Deliver ==
  /\ Idle /\ notices # <<>>
  /\ notices' = Tail(notices)
  /\ todo' = <<SetLifecycleState(Head(notices))>>
  /\ UNCHANGED <<state, recommended, visibility, view, loads, activity, announced, past>>

Proceed == Refuse \/ FreezeOrUnfreeze \/ Discard \/ Undiscard \/ Show \/ WasShown
             \/ Hide \/ SameVisibility \/ updateRecommendedState \/ Emit \/ OtherStep

Next ==
  \/ Proceed
  \/ Call \/ Load \/ ViewEvent \/ PrimaryPageChanged \/ DidStopLoading \/ DidFailLoad
  \/ RenderProcessGone \/ AddDevices \/ RemoveDevices
  \/ OpenDevTools \/ CloseDevTools \/ SilentActivity \/ Deliver

(* A function runs to its end, and what is posted is delivered, whatever   *)
(* else the event loop has to do.                                          *)
Spec == Init /\ [][Next]_vars /\ WF_vars(Proceed) /\ SF_vars(Deliver)

-----------------------------------------------------------------------------

(* Every variable has its type; no stream is counted below zero.            *)
TypeOK ==
  /\ state \in LifecycleState /\ recommended \in LifecycleState
  /\ visibility \in Visibility /\ announced \in Visibility /\ view \in Visibility \cup {"none"}
  /\ past \subseteq {"slot", "silent"}
  /\ {fetching, committed, inspected, crashed, busy, kept} \subseteq BOOLEAN
  /\ loadingState \in {"Unloaded", "Loading", "Loaded"}
  /\ streams \in 0 .. MaxStreams
  /\ notices \in Seq(LifecycleState) /\ todo \in Seq(Steps)

(* Between calls, a page that is visible or inspected is active: showing   *)
(* a page or opening DevTools wakes it up, and neither setLifecycleState   *)
(* nor a recommendation that is delivered late puts it to sleep again (the *)
(* documentation of lifecycleState), if no slot does in the middle.        *)
AwakeWhileHeld == "slot" \notin past /\ Idle /\ (visible \/ inspected) => state = "Active"

(* Whenever no call is in progress the recommended state is the one that   *)
(* the page's activity calls for, also when slots call back, unless sound  *)
(* or a commit without loading UI has changed that since the last update.  *)
RecommendationCurrent ==
  "silent" \notin past /\ Idle => recommended = determineRecommendedState

(* visibleChanged announces a change, while no slot calls back (the tests  *)
(* count one signal for showing a discarded page).                         *)
NoVisibleRepeat == "slot" \notin past /\ Do("visibleChanged") => Arg # announced

(* It does so at least for a page without a view.                          *)
VisibleChangedOnce == ~HasView => NoVisibleRepeat

(* And with one, the page is visible exactly while its view is shown,      *)
(* through discarding, reloading and closing, if no slot hides it.         *)
VisibleWithView == HasView /\ "slot" \notin past /\ Idle => (visible <=> view = "shown")

(* Both: the visibility is announced once and follows the view.            *)
VisibleAsShown == VisibleChangedOnce /\ VisibleWithView

(* An application that applies every recommendation, even a late one, does *)
(* not get stuck: a page that nothing holds, loaded, hidden and quiet, ends *)
(* up discarded for good (unless something ever changed silently, or slots *)
(* decide).                                                                *)
Quiet == state = "Discarded" \/ ~(Active \/ kept \/ fetching)
FollowerSettles == [](past = {}) /\ <>[]Quiet => <>[](state = "Discarded")
=============================================================================
