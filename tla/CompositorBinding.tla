------------------------- MODULE CompositorBinding -------------------------
(***************************************************************************)
(* How a view item (Compositor::Observer, GUI thread) and an output device *)
(* (Compositor, GPU thread) of one compositor id find and leave each other *)
(* through the global g_bindings (core/compositor/compositor.cpp), and the *)
(* CleanupJob that releases graphics resources on the render thread        *)
(* (core/render_widget_host_view_qt_delegate_item.cpp).  Code under the    *)
(* write lock is one action, guarded by there being no Handle, for a       *)
(* Handle is the read lock; waiting on the condition gives the lock up.    *)
(***************************************************************************)
EXTENDS Naturals, FiniteSets

CONSTANTS MaxBindings,  \* bound on the Binding objects created
          MaxJobs       \* bound on the clean-up jobs scheduled in all

ASSUME BindingConstants == MaxBindings \in Nat /\ MaxJobs \in Nat

VARIABLES
  created,       \* Binding objects created so far
  freed,         \* those deleted
  entry,         \* the Binding g_bindings maps the id to, 0 if none
  compositorOf,  \* bindings whose compositor pointer is set
  observerOf,    \* bindings whose observer pointer is set
  waitForRelease,\* bindings with waitForRelease set
  observer,      \* Observer::m_binding, 0 if null
  compositor,    \* Compositor::m_binding, 0 if null
  gui, gpu,      \* where the two threads are
  waitSet,       \* threads asleep in QWaitCondition::wait
  handles,       \* threads that hold a Handle
  resources,     \* Compositor::hasResources()
  scheduled,     \* clean-up jobs scheduled so far
  jobs, jobRan,  \* those not finished; the first one's run() returned
  failed         \* the first illegal access, "no" if none

tables == <<created, freed, entry, compositorOf, observerOf, waitForRelease>>
ends   == <<observer, compositor, gui, gpu>>
work   == <<resources, scheduled, jobs, jobRan>>
vars   == <<tables, ends, waitSet, handles, work, failed>>

Bindings == 1..MaxBindings

CanWrite == handles = {}

Init ==
  /\ created = 0 /\ freed = {} /\ entry = 0
  /\ compositorOf = {} /\ observerOf = {} /\ waitForRelease = {}
  /\ observer = 0 /\ compositor = 0 /\ gui = "none" /\ gpu = "none"
  /\ waitSet = {} /\ handles = {}
  /\ resources = FALSE /\ scheduled = 0 /\ jobs = 0 /\ jobRan = FALSE
  /\ failed = "no"

Fail(why) ==
  /\ failed' = why
  /\ UNCHANGED <<tables, ends, waitSet, handles, work>>

FindOrCreate ==
  IF entry # 0
  THEN UNCHANGED <<created, entry>>
  ELSE /\ created < MaxBindings
       /\ created' = created + 1
       /\ entry' = created + 1

KeepBinding(b) == UNCHANGED <<freed, entry>>
\* ~Binding takes the entry out of the map.
Delete(b) == freed' = freed \cup {b} /\ entry' = 0

NeverWaits(b) == FALSE
MustWait(b) == b \in waitForRelease

-----------------------------------------------------------------------------
(* GUI thread: the item, an Observer. *)

ObserverBind ==
  /\ gui = "none" /\ CanWrite
  /\ FindOrCreate
  /\ observer' = entry'
  /\ observerOf' = observerOf \cup {entry'}
  /\ gui' = "idle"
  /\ UNCHANGED <<freed, compositorOf, waitForRelease, compositor, gpu, waitSet,
                 handles, work, failed>>

(* The second half of Observer::unbind, past the loop. *)
FinishObserverUnbind ==
  /\ IF observer \notin compositorOf THEN Delete(observer)
                                     ELSE UNCHANGED <<freed, entry>>
  /\ observer' = 0
  /\ gui' = "none"

ObserverUnbind ==
  /\ gui = "idle" /\ CanWrite
  /\ observerOf' = observerOf \ {observer}
  /\ IF MustWait(observer)
     THEN /\ gui' = "waiting" /\ waitSet' = waitSet \cup {"gui"}
          /\ UNCHANGED <<freed, entry, observer>>
     ELSE FinishObserverUnbind /\ UNCHANGED waitSet
  /\ UNCHANGED <<created, compositorOf, waitForRelease, compositor, gpu,
                 handles, work, failed>>

ObserverWakes ==
  /\ gui = "waiting" /\ "gui" \notin waitSet /\ CanWrite
  /\ IF observer \in freed THEN Fail("freedBinding")
     ELSE /\ IF MustWait(observer)
             THEN /\ waitSet' = waitSet \cup {"gui"}
                  /\ UNCHANGED <<freed, entry, observer, gui>>
             ELSE FinishObserverUnbind /\ UNCHANGED waitSet
          /\ UNCHANGED <<created, compositorOf, observerOf, waitForRelease,
                         compositor, gpu, handles, work, failed>>

(* releaseResources of the item, run by its destructor and when it leaves a *)
(* window: under a Handle, then the choice of how to release.               *)
ReleaseResources ==
  /\ gui = "idle"
  /\ observer \in compositorOf /\ resources
  /\ handles' = handles \cup {"gui"}
  /\ gui' = "releasing"
  /\ UNCHANGED <<tables, observer, compositor, gpu, waitSet, work, failed>>

ReleaseChoice ==
  /\ gui = "releasing"
  /\ handles' = handles \ {"gui"}
  /\ \/ resources' = FALSE /\ gui' = "idle"       \* created on this thread
     \/ gui' = "schedule" /\ scheduled < MaxJobs /\ UNCHANGED resources  \* window exposed
     \/ gui' = "idle" /\ UNCHANGED resources      \* not exposed: only a warning
  /\ UNCHANGED <<tables, observer, compositor, gpu, waitSet, scheduled, jobs,
                 jobRan, failed>>

(* CleanupJob's constructor, lockForRelease, and scheduleRenderJob. *)
ScheduleCleanup ==
  /\ gui = "schedule" /\ CanWrite
  /\ waitForRelease' = waitForRelease \cup {observer}
  /\ jobs' = jobs + 1 /\ scheduled' = scheduled + 1
  /\ gui' = "idle"
  /\ UNCHANGED <<created, freed, entry, compositorOf, observerOf, observer,
                 compositor, gpu, waitSet, handles, resources, jobRan, failed>>

-----------------------------------------------------------------------------
(* GPU thread: the output device, a Compositor. *)

CompositorBind ==
  /\ gpu = "none" /\ CanWrite
  /\ FindOrCreate
  /\ compositor' = entry'
  /\ compositorOf' = compositorOf \cup {entry'}
  /\ gpu' = "idle"
  /\ UNCHANGED <<freed, observerOf, waitForRelease, observer, gui, waitSet,
                 handles, work, failed>>

NoLockNeeded == TRUE
UnbindLocked == CanWrite

CompositorUnbind ==
  /\ gpu \in {"idle", "waiting"} /\ "gpu" \notin waitSet /\ UnbindLocked
  /\ IF MustWait(compositor)
     THEN /\ gpu' = "waiting" /\ waitSet' = waitSet \cup {"gpu"}
          /\ UNCHANGED <<compositorOf, freed, entry, compositor, resources>>
     ELSE /\ compositorOf' = compositorOf \ {compositor}
          /\ IF compositor \notin observerOf THEN Delete(compositor)
                                             ELSE UNCHANGED <<freed, entry>>
          /\ compositor' = 0 /\ gpu' = "none"
          /\ resources' = FALSE
          /\ UNCHANGED waitSet
  /\ UNCHANGED <<created, observerOf, waitForRelease, observer, gui, handles,
                 scheduled, jobs, jobRan, failed>>

-----------------------------------------------------------------------------
(* Render thread: painting under a Handle, and the clean-up jobs. *)

PaintBegin ==
  /\ "render" \notin handles /\ ~jobRan
  /\ observer \in compositorOf
  /\ handles' = handles \cup {"render"}
  /\ UNCHANGED <<tables, ends, waitSet, work, failed>>

(* Only updatePaintNode makes resources, while the GUI thread waits in its *)
(* event loop; the signals of the window come at any time and make none.   *)
PaintEnd ==
  /\ "render" \in handles
  /\ resources' \in {resources, resources \/ gui = "idle"}
  /\ handles' = handles \ {"render"}
  /\ UNCHANGED <<tables, ends, waitSet, scheduled, jobs, jobRan, failed>>

RunCleanup ==
  /\ jobs > 0 /\ ~jobRan /\ "render" \notin handles
  /\ IF observer = 0 THEN Fail("noObserver")
     ELSE IF observer \notin compositorOf THEN Fail("noCompositor")
     ELSE /\ resources' = FALSE
          /\ jobRan' = TRUE
          /\ UNCHANGED <<tables, ends, waitSet, handles, scheduled, jobs, failed>>

WakeNobody == UNCHANGED waitSet
WakeAll == waitSet' = {}

JobDone == jobRan' = FALSE /\ jobs' = jobs - 1

(* CleanupJob's destructor: the assertion, then unlockForRelease. *)
FinishCleanup ==
  /\ jobRan /\ CanWrite
  /\ IF observer \notin compositorOf THEN Fail("noObserver")
     ELSE /\ IF observer \in waitForRelease THEN WakeAll ELSE UNCHANGED waitSet
          /\ waitForRelease' = waitForRelease \ {observer}
          /\ JobDone
          /\ UNCHANGED <<created, freed, entry, compositorOf, observerOf, ends,
                         handles, resources, scheduled, failed>>

-----------------------------------------------------------------------------
Gui == ObserverBind \/ ObserverUnbind \/ ObserverWakes \/ ReleaseResources
       \/ ReleaseChoice \/ ScheduleCleanup
Gpu == CompositorBind \/ CompositorUnbind
Render == PaintBegin \/ PaintEnd \/ RunCleanup \/ FinishCleanup

Next == failed = "no" /\ (Gui \/ Gpu \/ Render)

Spec == Init /\ [][Next]_vars

(* QReadWriteLock lets no reader in while a writer is blocked, so the lock is *)
(* free again and again and every blocked writer gets it.  Threads finish     *)
(* what they are in the middle of; whether the two ends leave is up to them.  *)
FairSpec == Spec
  /\ []<>(handles = {})
  /\ WF_vars(failed = "no" /\ ReleaseChoice) /\ WF_vars(failed = "no" /\ PaintEnd)
  /\ SF_vars(failed = "no" /\ RunCleanup) /\ SF_vars(failed = "no" /\ FinishCleanup)
  /\ SF_vars(failed = "no" /\ ObserverWakes)
  /\ SF_vars(failed = "no" /\ gpu = "waiting" /\ CompositorUnbind)

-----------------------------------------------------------------------------
(* Every variable has its type. *)
TypeOK ==
  /\ created \in 0..MaxBindings /\ entry \in 0..MaxBindings
  /\ observer \in 0..MaxBindings /\ compositor \in 0..MaxBindings
  /\ freed \subseteq Bindings /\ waitForRelease \subseteq Bindings
  /\ compositorOf \subseteq Bindings /\ observerOf \subseteq Bindings
  /\ gui \in {"none", "idle", "releasing", "schedule", "waiting"}
  /\ gpu \in {"none", "idle", "waiting"}
  /\ waitSet \subseteq {"gui", "gpu"} /\ handles \subseteq {"gui", "render"}
  /\ resources \in BOOLEAN /\ jobRan \in BOOLEAN
  /\ scheduled \in 0..MaxJobs /\ jobs \in 0..MaxJobs
  /\ failed \in {"no", "freedBinding", "noObserver", "noCompositor"}

(* While a thread holds a Handle neither end of the binding goes away.      *)
HandleProtects ==
  handles # {} => observer # 0 /\ observer = compositor /\ observer \notin freed

(* A binding exists as long as one end is bound to it, and no longer: the   *)
(* two unbinds, in either order and whatever they wait for, leave none.     *)
NoBindingLeaks ==
  \A b \in 1..created : b \notin freed =>
    b = entry /\ b \in {observer, compositor}

(* The only clean-up job finds in its destructor the output device that it  *)
(* released, still bound and without resources, however the device and the  *)
(* item try to leave meanwhile.                                             *)
CleanupStaysDone ==
  jobRan /\ scheduled = 1 => observer \in compositorOf /\ ~resources

(* A thread that waits for a clean-up job in unbind gets out of it.         *)
UnbindReturns ==
  /\ gui = "waiting" ~> gui # "waiting" \/ failed # "no"
  /\ gpu = "waiting" ~> gpu # "waiting" \/ failed # "no"
=============================================================================
