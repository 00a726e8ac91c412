--------------------------- MODULE CompositorProofs ---------------------------
(***************************************************************************)
(* Proofs that a Handle protects both ends of the binding, that no binding *)
(* leaks and that a clean-up job finds what it released, for any number of *)
(* bindings and jobs.                                                      *)
(* And that the software output device keeps the painting and the copying  *)
(* thread apart, shows whole pictures, and implements the safety part of   *)
(* the frame stream, for any tiles, sizes and number of frames.            *)
(***************************************************************************)
EXTENDS CompositorBinding, SoftwareOutputDevice, TLAPS

USE DEF vars, tables, ends, work, Bindings

(* TypeOK in two parts: its numbers, sets and names, and its Booleans.     *)
Values ==
  /\ created \in 0..MaxBindings /\ entry \in 0..MaxBindings
  /\ observer \in 0..MaxBindings /\ compositor \in 0..MaxBindings
  /\ freed \subseteq Bindings /\ waitForRelease \subseteq Bindings
  /\ compositorOf \subseteq Bindings /\ observerOf \subseteq Bindings
  /\ gui \in {"none", "idle", "releasing", "schedule", "waiting"}
  /\ gpu \in {"none", "idle", "waiting"}
  /\ waitSet \subseteq {"gui", "gpu"} /\ handles \subseteq {"gui", "render"}
  /\ scheduled \in 0..MaxJobs /\ jobs \in 0..MaxJobs
  /\ failed \in {"no", "freedBinding", "noObserver", "noCompositor"}

Booleans == resources \in BOOLEAN /\ jobRan \in BOOLEAN

Bound == {"idle", "releasing", "schedule"}

(* What a thread is doing says what it points to and what points to it.    *)
EndsInv ==
  /\ gui = "none" <=> observer = 0
  /\ gpu = "none" <=> compositor = 0
  /\ compositorOf = {compositor} \ {0}
  /\ observerOf = IF gui \in Bound THEN {observer} ELSE {}

(* The entry is the only binding there is; an end that has not begun to    *)
(* leave points to it.                                                     *)
TableInv ==
  /\ observer <= created /\ compositor <= created /\ entry <= created
  /\ freed \subseteq 1 .. created
  /\ entry # 0 => entry \notin freed /\ entry \in {observer, compositor}
  /\ \A b \in 1 .. created : b \notin freed => b = entry
  /\ compositor # 0 => compositor = entry
  /\ gui \in Bound => observer = entry

(* Who holds a Handle, and that both ends are there.                       *)
HandleInv ==
  /\ "gui" \in handles <=> gui = "releasing"
  /\ handles # {} => observer \in compositorOf

(* The only job keeps its binding locked for release until it is done, and *)
(* nothing is painted between its run() and its end.                       *)
JobInv ==
  /\ jobs <= scheduled /\ (gui = "schedule" => scheduled < MaxJobs)
  /\ (jobRan => jobs > 0 /\ "render" \notin handles)
  /\ scheduled = 1 /\ jobs > 0 => observer # 0 /\ observer \in waitForRelease
  /\ jobRan /\ scheduled = 1 => observer \in compositorOf /\ ~resources

BindingInv == Values /\ Booleans /\ EndsInv /\ TableInv /\ HandleInv /\ JobInv

(* The table stays in order when nothing in it changes and no end joins.   *)
LEMMA TableKept ==
  ASSUME TableInv, UNCHANGED <<created, freed, entry, observer, compositor>>,
         gui' \in Bound => gui \in Bound
  PROVE  TableInv'
  BY DEF TableInv

(* ... when one end goes and the other keeps the binding.                   *)
LEMMA TableLeft ==
  ASSUME Values, TableInv, UNCHANGED <<created, freed, entry>>,
         \/ observer' = 0 /\ gui' \notin Bound /\ compositor' = compositor /\ compositor # 0
         \/ compositor' = 0 /\ UNCHANGED <<observer, gui>> /\ gui \in Bound
  PROVE  TableInv'
  BY DEF TableInv, Values

(* ... and when the last end that points to the binding deletes it.         *)
LEMMA TableDeleted ==
  ASSUME Values, TableInv, created' = created, entry # 0,
         freed' = freed \cup {entry}, entry' = 0, compositor' = 0,
         observer' \in {0, observer}, gui' \notin Bound
  PROVE  TableInv'
<1>1. freed' \subseteq 1 .. created' /\ observer' <= created' /\ compositor' <= created'
  BY DEF TableInv, Values
<1>2. \A b \in 1 .. created' : b \in freed'
  BY DEF TableInv, Values
<1> QED
  BY <1>1, <1>2 DEF TableInv, Values

(* An access that fails is recorded and changes nothing else.               *)
LEMMA FailInv ==
  ASSUME NEW why \in {"freedBinding", "noObserver", "noCompositor"}, BindingInv, Fail(why)
  PROVE  BindingInv'
<1> USE DEF BindingInv, Fail
<1>1. Values' /\ EndsInv' /\ HandleInv'
  BY DEF Values, EndsInv, HandleInv, Bound
<1>2. Booleans' /\ TableInv' /\ JobInv'
  BY DEF Booleans, TableInv, JobInv
<1> QED
  BY <1>1, <1>2

(* An item that has to wait is out of the table's reach.                    *)
LEMMA ObserverWaitsInv ==
  ASSUME BindingInv, gui \in {"idle", "waiting"}, gui' = "waiting",
         waitSet' = waitSet \cup {"gui"}, observerOf' = observerOf \ {observer},
         UNCHANGED <<created, freed, entry, observer, compositorOf, waitForRelease,
                     compositor, gpu, handles, work, failed>>
  PROVE  BindingInv'
<1> USE DEF BindingInv
<1>1. Values'
  BY DEF Values
<1>2. EndsInv'
  BY DEF EndsInv, Bound
<1>3. TableInv'
  BY TableKept DEF Bound
<1>4. Booleans'
  BY DEF Booleans
<1>5. HandleInv'
  BY DEF HandleInv
<1>6. JobInv'
  BY DEF JobInv
<1> QED
  BY <1>1, <1>2, <1>3, <1>4, <1>5, <1>6

(* An item that leaves a binding that is not locked for release deletes it  *)
(* exactly when the device has left, too.                                   *)
LEMMA FinishObserverUnbindInv ==
  ASSUME BindingInv, gui \in {"idle", "waiting"}, handles = {}, observer \notin freed,
         observer \notin waitForRelease, observerOf' = observerOf \ {observer},
         FinishObserverUnbind,
         UNCHANGED <<created, compositorOf, waitForRelease, compositor, gpu, waitSet,
                     handles, work, failed>>
  PROVE  BindingInv'
<1> USE BindingConstants DEF BindingInv
<1>1. observer \in 1 .. created /\ observer = entry /\ observer' = 0 /\ gui' = "none"
  BY DEF EndsInv, TableInv, Values, FinishObserverUnbind
<1>2. observer \in compositorOf <=> compositor # 0
  BY <1>1 DEF EndsInv, TableInv
<1>3. \/ UNCHANGED <<freed, entry>> /\ compositor # 0
      \/ freed' = freed \cup {entry} /\ entry' = 0 /\ compositor' = 0
  BY <1>1, <1>2 DEF FinishObserverUnbind, Delete
<1>4. Values'
  <2>1. freed' \subseteq Bindings
    <3>1. entry \in Bindings /\ freed \subseteq Bindings
      BY <1>1 DEF Values
    <3> HIDE DEF Bindings
    <3> QED
      BY <1>3, <3>1, Zenon
  <2>2. entry' \in 0 .. MaxBindings
    BY <1>1, <1>3 DEF Values
  <2> QED
    BY <1>1, <2>1, <2>2 DEF Values
<1>5. TableInv'
  BY <1>1, <1>3, TableLeft, TableDeleted DEF Bound, Values
<1>6. EndsInv'
  BY <1>1 DEF EndsInv, Bound
<1>7. JobInv'
  BY <1>1 DEF JobInv
<1>8. Booleans' /\ HandleInv'
  BY <1>1 DEF Booleans, HandleInv
<1> QED
  BY <1>4, <1>5, <1>6, <1>7, <1>8

(* The invariant holds before either end has come.                          *)
LEMMA InitInv == Init => BindingInv
<1> SUFFICES ASSUME Init PROVE BindingInv
  OBVIOUS
<1> USE BindingConstants DEF Init, Bound
<1>1. Values
  BY DEF Values
<1>2. Booleans
  BY Zenon DEF Booleans
<1>3. EndsInv
  BY DEF EndsInv
<1>4. TableInv
  BY DEF TableInv
<1>5. HandleInv
  BY DEF HandleInv
<1>6. JobInv
  BY DEF JobInv
<1> QED
  BY <1>1, <1>2, <1>3, <1>4, <1>5, <1>6 DEF BindingInv

(* The first end to come finds or creates the only binding.                 *)
LEMMA ObserverBindInv == BindingInv /\ ObserverBind => BindingInv'
<1> SUFFICES ASSUME BindingInv, ObserverBind PROVE BindingInv'
  OBVIOUS
<1> USE BindingConstants DEF BindingInv, ObserverBind, CanWrite
<1>1. observer = 0 /\ observerOf = {} /\ handles = {}
  BY DEF EndsInv, Bound
<1>2. /\ created' \in 0 .. MaxBindings /\ created <= created'
      /\ entry' \in 1 .. created' /\ entry' \notin freed
      /\ entry # 0 => entry' = entry /\ created' = created
  BY DEF FindOrCreate, Values, TableInv
<1>3. observer' = entry' /\ observerOf' = {entry'}
  BY <1>1
<1>4. UNCHANGED <<freed, waitForRelease, compositor, compositorOf, gpu, waitSet, handles, failed>>
      /\ UNCHANGED <<resources, scheduled, jobs, jobRan>>
  OBVIOUS
<1>5. Values'
  BY <1>2, <1>3, <1>4 DEF Values
<1>6. Booleans'
  BY <1>4, Zenon DEF Booleans
<1>7. EndsInv'
  BY <1>1, <1>2, <1>3, <1>4 DEF EndsInv, Bound
<1>8. TableInv'
  <2>1. \A b \in 1 .. created' : b \notin freed => b = entry'
    BY <1>2 DEF FindOrCreate, TableInv, Values
  <2> QED
    BY <1>1, <1>2, <1>3, <1>4, <2>1 DEF TableInv, Values, EndsInv, Bound
<1>9. HandleInv'
  BY <1>1, <1>4 DEF HandleInv, EndsInv
<1>10. JobInv'
  BY <1>1, <1>2, <1>3, <1>4 DEF JobInv, EndsInv, Values, Bound
<1> QED
  BY <1>5, <1>6, <1>7, <1>8, <1>9, <1>10

(* An item leaves at once or waits for the clean-up job.                    *)
LEMMA ObserverUnbindInv == BindingInv /\ ObserverUnbind => BindingInv'
<1> SUFFICES ASSUME BindingInv, ObserverUnbind PROVE BindingInv'
  OBVIOUS
<1> USE DEF ObserverUnbind, CanWrite, MustWait
<1>1. CASE observer \in waitForRelease
  BY <1>1, ObserverWaitsInv
<1>2. CASE observer \notin waitForRelease
  <2>1. observer \notin freed
    BY DEF BindingInv, EndsInv, TableInv, Bound
  <2> QED
    BY <1>2, <2>1, FinishObserverUnbindInv
<1> QED
  BY <1>1, <1>2

(* It may wake to a deleted binding, to a lock that is taken again, or leaves.*)
LEMMA ObserverWakesInv == BindingInv /\ ObserverWakes => BindingInv'
<1> SUFFICES ASSUME BindingInv, ObserverWakes PROVE BindingInv'
  OBVIOUS
<1> USE DEF ObserverWakes, CanWrite, MustWait
<1>1. CASE observer \in freed
  BY <1>1, FailInv
<1>2. CASE observer \notin freed
  <2>1. observerOf = {}
    BY DEF BindingInv, EndsInv, Bound
  <2>2. observerOf' = observerOf \ {observer}
    BY <1>2, <2>1
  <2>3. CASE observer \in waitForRelease
    BY <1>2, <2>2, <2>3, ObserverWaitsInv
  <2>4. CASE observer \notin waitForRelease
    BY <1>2, <2>2, <2>4, FinishObserverUnbindInv
  <2> QED
    BY <2>3, <2>4
<1> QED
  BY <1>1, <1>2

(* A Handle is taken only when both ends are there.                         *)
LEMMA ReleaseResourcesInv == BindingInv /\ ReleaseResources => BindingInv'
<1> SUFFICES ASSUME BindingInv, ReleaseResources PROVE BindingInv'
  OBVIOUS
<1> USE BindingConstants DEF BindingInv, ReleaseResources
<1>1. Values'
  BY DEF Values, EndsInv, TableInv, HandleInv, JobInv, Bound
<1>2. Booleans'
  BY Zenon DEF Booleans
<1>3. EndsInv'
  BY DEF Values, EndsInv, TableInv, HandleInv, JobInv, Bound
<1>4. TableInv'
  BY DEF Values, EndsInv, TableInv, HandleInv, JobInv, Bound
<1>5. HandleInv'
  BY DEF Values, EndsInv, TableInv, HandleInv, JobInv, Bound
<1>6. JobInv'
  BY DEF Values, EndsInv, TableInv, HandleInv, JobInv, Bound
<1> QED
  BY <1>1, <1>2, <1>3, <1>4, <1>5, <1>6

(* The Handle is given up before a clean-up job is made.                    *)
LEMMA ReleaseChoiceInv == BindingInv /\ ReleaseChoice => BindingInv'
<1> SUFFICES ASSUME BindingInv, ReleaseChoice PROVE BindingInv'
  OBVIOUS
<1> USE BindingConstants DEF BindingInv, ReleaseChoice
<1>1. Values'
  BY DEF Values, EndsInv, TableInv, HandleInv, JobInv, Bound
<1>2. Booleans'
  BY Zenon DEF Booleans
<1>3. EndsInv'
  BY DEF Values, EndsInv, TableInv, HandleInv, JobInv, Bound
<1>4. TableInv'
  BY DEF Values, EndsInv, TableInv, HandleInv, JobInv, Bound
<1>5. HandleInv'
  BY DEF Values, EndsInv, TableInv, HandleInv, JobInv, Bound
<1>6. JobInv'
  BY DEF Values, EndsInv, TableInv, HandleInv, JobInv, Bound
<1> QED
  BY <1>1, <1>2, <1>3, <1>4, <1>5, <1>6

(* A scheduled job locks the binding for release.                           *)
LEMMA ScheduleCleanupInv == BindingInv /\ ScheduleCleanup => BindingInv'
<1> SUFFICES ASSUME BindingInv, ScheduleCleanup PROVE BindingInv'
  OBVIOUS
<1> USE BindingConstants DEF BindingInv, ScheduleCleanup, CanWrite
<1>1. Values'
  BY DEF Values, EndsInv, TableInv, HandleInv, JobInv, Bound
<1>2. Booleans'
  BY Zenon DEF Booleans
<1>3. EndsInv'
  BY DEF Values, EndsInv, TableInv, HandleInv, JobInv, Bound
<1>4. TableInv'
  BY DEF Values, EndsInv, TableInv, HandleInv, JobInv, Bound
<1>5. HandleInv'
  BY DEF Values, EndsInv, TableInv, HandleInv, JobInv, Bound
<1>6. JobInv'
  BY DEF Values, EndsInv, TableInv, HandleInv, JobInv, Bound
<1> QED
  BY <1>1, <1>2, <1>3, <1>4, <1>5, <1>6

(* The same for the device.                                                 *)
LEMMA CompositorBindInv == BindingInv /\ CompositorBind => BindingInv'
<1> SUFFICES ASSUME BindingInv, CompositorBind PROVE BindingInv'
  OBVIOUS
<1> USE BindingConstants DEF BindingInv, CompositorBind, CanWrite
<1>1. compositor = 0 /\ compositorOf = {} /\ handles = {}
  BY DEF EndsInv, Bound
<1>2. /\ created' \in 0 .. MaxBindings /\ created <= created'
      /\ entry' \in 1 .. created' /\ entry' \notin freed
      /\ entry # 0 => entry' = entry /\ created' = created
  BY DEF FindOrCreate, Values, TableInv
<1>3. compositor' = entry' /\ compositorOf' = {entry'}
  BY <1>1
<1>4. UNCHANGED <<freed, waitForRelease, observer, observerOf, gui, waitSet, handles, failed>>
      /\ UNCHANGED <<resources, scheduled, jobs, jobRan>>
  OBVIOUS
<1>5. Values'
  BY <1>2, <1>3, <1>4 DEF Values
<1>6. Booleans'
  BY <1>4, Zenon DEF Booleans
<1>7. EndsInv'
  BY <1>1, <1>2, <1>3, <1>4 DEF EndsInv, Bound
<1>8. TableInv'
  <2>1. \A b \in 1 .. created' : b \notin freed => b = entry'
    BY <1>2 DEF FindOrCreate, TableInv, Values
  <2> QED
    BY <1>1, <1>2, <1>3, <1>4, <2>1 DEF TableInv, Values, EndsInv, Bound
<1>9. HandleInv'
  BY <1>1, <1>4 DEF HandleInv, EndsInv
<1>10. JobInv'
  BY <1>1, <1>2, <1>3, <1>4 DEF JobInv, EndsInv, Values, Bound
<1> QED
  BY <1>5, <1>6, <1>7, <1>8, <1>9, <1>10

(* A device waits or leaves; the last end deletes the binding.              *)
LEMMA CompositorUnbindInv == BindingInv /\ CompositorUnbind => BindingInv'
<1> SUFFICES ASSUME BindingInv, CompositorUnbind PROVE BindingInv'
  OBVIOUS
<1> USE BindingConstants DEF BindingInv, MustWait, UnbindLocked, CanWrite
<1>1. /\ gpu \in {"idle", "waiting"} /\ handles = {}
      /\ UNCHANGED <<created, observerOf, waitForRelease, observer, gui, handles,
                     scheduled, jobs, jobRan, failed>>
  BY DEF CompositorUnbind
<1>2. compositor \in 1 .. created /\ compositor = entry /\ compositor \notin freed
  BY <1>1 DEF EndsInv, TableInv, Values
<1>3. CASE compositor \in waitForRelease
  <2>1. /\ gpu' = "waiting" /\ waitSet' = waitSet \cup {"gpu"}
        /\ UNCHANGED <<compositorOf, freed, entry, compositor, resources>>
    BY <1>3 DEF CompositorUnbind
  <2>2. Values' /\ EndsInv'
    BY <1>1, <2>1 DEF Values, EndsInv
  <2>3. TableInv'
    BY <1>1, <2>1, TableKept
  <2>4. Booleans' /\ HandleInv' /\ JobInv'
    BY <1>1, <2>1 DEF Booleans, HandleInv, JobInv
  <2> QED
    BY <2>2, <2>3, <2>4
<1>4. CASE compositor \notin waitForRelease
  <2>1. /\ compositorOf' = compositorOf \ {compositor} /\ compositor' = 0
        /\ gpu' = "none" /\ waitSet' = waitSet
    BY <1>4 DEF CompositorUnbind
  <2>2. resources' = FALSE
    BY <1>4 DEF CompositorUnbind
  <2>3. compositor \in observerOf <=> gui \in Bound
    BY <1>2 DEF EndsInv, TableInv
  <2>4. \/ UNCHANGED <<freed, entry>> /\ gui \in Bound
        \/ freed' = freed \cup {entry} /\ entry' = 0 /\ gui \notin Bound
    BY <1>2, <1>4, <2>3 DEF CompositorUnbind, Delete
  <2>5. Values'
    <3>1. freed' \subseteq Bindings
      <4>1. entry \in Bindings /\ freed \subseteq Bindings
        BY <1>2 DEF Values
      <4> HIDE DEF Bindings
      <4> QED
        BY <2>4, <4>1, Zenon
    <3>2. entry' \in 0 .. MaxBindings
      BY <1>2, <2>4 DEF Values
    <3> QED
      BY <1>1, <2>1, <3>1, <3>2 DEF Values
  <2>6. TableInv'
    BY <1>1, <1>2, <2>1, <2>4, TableLeft, TableDeleted
  <2>7. EndsInv'
    BY <1>1, <2>1 DEF EndsInv
  <2>8. HandleInv' /\ JobInv'
    BY <1>1, <1>2, <1>4, <2>1, <2>2 DEF HandleInv, JobInv, EndsInv, TableInv
  <2>9. Booleans'
    BY <1>1, <2>2, Zenon DEF Booleans
  <2> QED
    BY <2>5, <2>6, <2>7, <2>8, <2>9
<1> QED
  BY <1>3, <1>4

(* Painting takes a Handle, too.                                            *)
LEMMA PaintBeginInv == BindingInv /\ PaintBegin => BindingInv'
<1> SUFFICES ASSUME BindingInv, PaintBegin PROVE BindingInv'
  OBVIOUS
<1> USE BindingConstants DEF BindingInv, PaintBegin
<1>1. Values'
  BY DEF Values, EndsInv, TableInv, HandleInv, JobInv, Bound
<1>2. Booleans'
  BY Zenon DEF Booleans
<1>3. EndsInv'
  BY DEF Values, EndsInv, TableInv, HandleInv, JobInv, Bound
<1>4. TableInv'
  BY DEF Values, EndsInv, TableInv, HandleInv, JobInv, Bound
<1>5. HandleInv'
  BY DEF Values, EndsInv, TableInv, HandleInv, JobInv, Bound
<1>6. JobInv'
  BY DEF Values, EndsInv, TableInv, HandleInv, JobInv, Bound
<1> QED
  BY <1>1, <1>2, <1>3, <1>4, <1>5, <1>6

(* Painting may leave resources behind.                                     *)
LEMMA PaintEndInv == BindingInv /\ PaintEnd => BindingInv'
<1> SUFFICES ASSUME BindingInv, PaintEnd PROVE BindingInv'
  OBVIOUS
<1> USE BindingConstants DEF BindingInv, PaintEnd
<1>1. Values'
  BY DEF Values, EndsInv, TableInv, HandleInv, JobInv, Bound
<1>2. Booleans'
  BY Zenon DEF Booleans
<1>3. EndsInv'
  BY DEF Values, EndsInv, TableInv, HandleInv, JobInv, Bound
<1>4. TableInv'
  BY DEF Values, EndsInv, TableInv, HandleInv, JobInv, Bound
<1>5. HandleInv'
  BY DEF Values, EndsInv, TableInv, HandleInv, JobInv, Bound
<1>6. JobInv'
  BY DEF Values, EndsInv, TableInv, HandleInv, JobInv, Bound
<1> QED
  BY <1>1, <1>2, <1>3, <1>4, <1>5, <1>6

(* A clean-up job releases the resources of the device it finds.            *)
LEMMA RunCleanupInv == BindingInv /\ RunCleanup => BindingInv'
<1> SUFFICES ASSUME BindingInv, RunCleanup PROVE BindingInv'
  OBVIOUS
<1>1. CASE observer = 0 \/ observer \notin compositorOf
  BY <1>1, FailInv DEF RunCleanup
<1>2. CASE observer # 0 /\ observer \in compositorOf
  <2> USE DEF BindingInv
  <2>1. /\ jobs > 0 /\ "render" \notin handles
        /\ resources' = FALSE /\ jobRan' = TRUE
        /\ UNCHANGED <<tables, ends, waitSet, handles, scheduled, jobs, failed>>
    BY <1>2 DEF RunCleanup
  <2>2. Values' /\ EndsInv' /\ HandleInv'
    BY <2>1 DEF Values, EndsInv, HandleInv, Bound
  <2>3. TableInv'
    BY <2>1, TableKept
  <2>4. Booleans'
    BY <2>1, Zenon DEF Booleans
  <2>5. JobInv'
    BY <1>2, <2>1 DEF JobInv
  <2> QED
    BY <2>2, <2>3, <2>4, <2>5
<1> QED
  BY <1>1, <1>2

(* It unlocks the binding and wakes who waits.                              *)
LEMMA FinishCleanupInv == BindingInv /\ FinishCleanup => BindingInv'
<1> SUFFICES ASSUME BindingInv, FinishCleanup PROVE BindingInv'
  OBVIOUS
<1>1. CASE observer \notin compositorOf
  BY <1>1, FailInv DEF FinishCleanup
<1>2. CASE observer \in compositorOf
  <2> USE BindingConstants DEF BindingInv
  <2>1. /\ jobRan /\ jobs' = jobs - 1 /\ jobRan' = FALSE
        /\ waitSet' \in {waitSet, {}} /\ waitForRelease' = waitForRelease \ {observer}
        /\ UNCHANGED <<created, freed, entry, compositorOf, observerOf, ends,
                       handles, resources, scheduled, failed>>
    BY <1>2 DEF FinishCleanup, WakeAll, JobDone
  <2>2. jobs > 0
    BY <2>1 DEF JobInv
  <2>3. Values'
    BY <2>1, <2>2 DEF Values
  <2>4. EndsInv' /\ HandleInv'
    BY <2>1 DEF EndsInv, HandleInv, Bound
  <2>5. TableInv'
    BY <2>1, TableKept
  <2>6. Booleans'
    BY <2>1, Zenon DEF Booleans
  <2>7. JobInv'
    BY <2>1, <2>2 DEF JobInv, Values
  <2> QED
    BY <2>3, <2>4, <2>5, <2>6, <2>7
<1> QED
  BY <1>1, <1>2

-----------------------------------------------------------------------------
(* Every step of the three threads keeps the invariant.                     *)
LEMMA NextInv == BindingInv /\ [Next]_vars => BindingInv'
<1> SUFFICES ASSUME BindingInv, [Next]_vars PROVE BindingInv'
  OBVIOUS
<1>1. CASE ObserverBind
  BY <1>1, ObserverBindInv
<1>2. CASE ObserverUnbind
  BY <1>2, ObserverUnbindInv
<1>3. CASE ObserverWakes
  BY <1>3, ObserverWakesInv
<1>4. CASE ReleaseResources
  BY <1>4, ReleaseResourcesInv
<1>5. CASE ReleaseChoice
  BY <1>5, ReleaseChoiceInv
<1>6. CASE ScheduleCleanup
  BY <1>6, ScheduleCleanupInv
<1>7. CASE CompositorBind
  BY <1>7, CompositorBindInv
<1>8. CASE CompositorUnbind
  BY <1>8, CompositorUnbindInv
<1>9. CASE PaintBegin
  BY <1>9, PaintBeginInv
<1>10. CASE PaintEnd
  BY <1>10, PaintEndInv
<1>11. CASE RunCleanup
  BY <1>11, RunCleanupInv
<1>12. CASE FinishCleanup
  BY <1>12, FinishCleanupInv
<1>13. CASE UNCHANGED vars
  <2>1. Values' /\ EndsInv' /\ HandleInv'
    BY <1>13 DEF BindingInv, Values, EndsInv, HandleInv, Bound
  <2>2. Booleans' /\ JobInv' /\ TableInv'
    BY <1>13 DEF BindingInv, Booleans, JobInv, TableInv, Bound
  <2> QED
    BY <2>1, <2>2 DEF BindingInv
<1> QED
  BY <1>1, <1>2, <1>3, <1>4, <1>5, <1>6, <1>7, <1>8, <1>9, <1>10, <1>11, <1>12, <1>13 DEF Next, Gui, Gpu, Render

(* BindingInv is an invariant of the item, the device and the clean-up jobs *)
(* of one compositor id.                                                    *)
THEOREM BindingInvariant == Spec => []BindingInv
  BY InitInv, NextInv, PTL DEF Spec

(* Every variable has its type.                                             *)
THEOREM BindingTypes == Spec => []TypeOK
<1>1. BindingInv => TypeOK
  BY DEF BindingInv, Values, Booleans, TypeOK
<1> QED
  BY <1>1, BindingInvariant, PTL

(* While a thread holds a Handle (core/compositor/compositor.h) neither end *)
(* of the binding goes away.                                                *)
THEOREM HandlesProtect == Spec => []HandleProtects
<1>1. BindingInv => HandleProtects
  BY DEF BindingInv, Values, EndsInv, TableInv, HandleInv, HandleProtects
<1> QED
  BY <1>1, BindingInvariant, PTL

(* The two unbinds, in either order and whatever they wait for, leave no    *)
(* binding behind, and a binding has an end as long as it exists.           *)
THEOREM NoBindingLeft == Spec => []NoBindingLeaks
<1>1. BindingInv => NoBindingLeaks
  BY DEF BindingInv, Values, TableInv, NoBindingLeaks
<1> QED
  BY <1>1, BindingInvariant, PTL

(* The only clean-up job finds at its end the device it has released, still *)
(* bound and without resources.                                             *)
THEOREM CleanupFindsDevice == Spec => []CleanupStaysDone
<1>1. BindingInv => CleanupStaysDone
  BY DEF BindingInv, JobInv, CleanupStaysDone
<1> QED
  BY <1>1, BindingInvariant, PTL
-----------------------------------------------------------------------------
(* The software output device. *)
USE DEF softwareVars, viewport, picture, stamps

(* The invariant holds of a device that was just created. *)
LEMMA SoftwareInitInv == SoftwareInit => SoftwareInv
<1> SUFFICES ASSUME SoftwareInit PROVE SoftwareInv
  OBVIOUS
<1>1. SoftwareTypeOK
  BY DEF SoftwareInit, SoftwareTypeOK
<1>2. SwapInOnePlace
  BY DEF SoftwareInit, SwapInOnePlace
<1>3. DamageCoversChanges
  BY DEF SoftwareInit, DamageCoversChanges
<1> QED
  BY <1>1, <1>2, <1>3 DEF SoftwareInv

(* Drawing starts on a picture that was copied, so its damage is all that   *)
(* the image lacks.                                                         *)
LEMMA DrawInv == SoftwareInv /\ Draw => SoftwareInv'
<1> SUFFICES ASSUME SoftwareInv, Draw PROVE SoftwareInv'
  OBVIOUS
<1> USE DEF SoftwareInv
<1>1. /\ damage' \subseteq Tiles
      /\ <<size', ratio'>> # <<size, ratio>> => damage' = Tiles
      /\ surface' = [t \in Tiles |-> IF t \in damage' THEN swapped + 1 ELSE surface[t]]
  BY DEF Draw
<1>2. ~callback /\ posted = 0
  BY DEF Draw, SwapInOnePlace, SoftwareTypeOK
<1>3. SoftwareTypeOK'
  BY <1>1 DEF Draw, SoftwareTypeOK
<1>4. SwapInOnePlace'
  BY <1>2 DEF Draw, SwapInOnePlace
<1>5. DamageCoversChanges'
  <2>1. image = surface /\ display' = "painting" /\ image' = image
    BY <1>2 DEF Draw, DamageCoversChanges
  <2>2. ASSUME NEW t \in Tiles, image'[t] # surface'[t] PROVE t \in damage'
    BY <1>1, <2>1, <2>2
  <2> QED
    BY <2>1, <2>2 DEF DamageCoversChanges
<1> QED
  BY <1>3, <1>4, <1>5

(* Copying the damage makes the image the surface, and moves the swap from  *)
(* the callback to the task queue.                                          *)
LEMMA SwapFrameInv == SoftwareInv /\ SwapFrame => SoftwareInv'
<1> SUFFICES ASSUME SoftwareInv, SwapFrame PROVE SoftwareInv'
  OBVIOUS
<1> USE DEF SoftwareInv
<1>1. callback /\ posted = 0
  BY DEF SwapFrame, SwapInOnePlace, SoftwareTypeOK
<1>2. image' = surface
  <2>1. CASE imageSize = size
    <3>1. \A t \in Tiles : (IF t \in damage THEN surface[t] ELSE image[t]) = surface[t]
      BY <2>1 DEF DamageCoversChanges
    <3>2. image' = [t \in Tiles |-> IF t \in damage THEN surface[t] ELSE image[t]]
      BY <2>1 DEF SwapFrame, Copied, CopyDamageOnly
    <3>3. surface = [t \in Tiles |-> surface[t]]
      BY DEF SoftwareTypeOK
    <3> QED
      BY <3>1, <3>2, <3>3
  <2>2. CASE imageSize # size
    BY <2>2 DEF SwapFrame, Copied
  <2> QED
    BY <2>1, <2>2
<1>3. SoftwareTypeOK'
  <2>1. posted' = 1 /\ callback' = FALSE /\ imageRatio' = ratio
    BY <1>1 DEF SwapFrame, TakeCallback, TakeRatio
  <2>2. UNCHANGED <<size, ratio, surface, damage, display, updateRequested, swapped, acked>>
        /\ imageSize' = size /\ shown' = swapped /\ render' = "idle"
    BY DEF SwapFrame
  <2> QED
    BY <1>2, <2>1, <2>2 DEF SoftwareTypeOK
<1>4. SwapInOnePlace'
  BY <1>1 DEF SwapFrame, SwapInOnePlace, TakeCallback, SoftwareTypeOK
<1>5. DamageCoversChanges'
  BY <1>2 DEF SwapFrame, DamageCoversChanges, TakeRatio
<1> QED
  BY <1>3, <1>4, <1>5

(* The other steps move a swap along without touching any picture. *)
LEMMA QuietInv ==
  ASSUME SoftwareInv,
         OnSwapBuffers \/ ReadyToSwap \/ SwapCompleted \/ UpdatePaintNode
         \/ UNCHANGED softwareVars
  PROVE  SoftwareInv'
<1> USE DEF SoftwareInv
<1>1. CASE OnSwapBuffers
  <2>1. ~callback /\ posted = 0
    BY <1>1 DEF OnSwapBuffers, SwapInOnePlace, SoftwareTypeOK
  <2>2. SoftwareTypeOK'
    BY <1>1 DEF OnSwapBuffers, SoftwareTypeOK
  <2>3. SwapInOnePlace'
    BY <1>1, <2>1 DEF OnSwapBuffers, SwapInOnePlace, SoftwareTypeOK
  <2>4. DamageCoversChanges'
    BY <1>1 DEF OnSwapBuffers, DamageCoversChanges
  <2> QED
    BY <2>2, <2>3, <2>4
<1>2. CASE ReadyToSwap
  BY <1>2 DEF ReadyToSwap, SoftwareTypeOK, SwapInOnePlace, DamageCoversChanges
<1>3. CASE SwapCompleted
  <2>1. posted = 1 /\ ~callback
    BY <1>3 DEF SwapCompleted, SwapInOnePlace, SoftwareTypeOK
  <2>2. SoftwareTypeOK'
    BY <1>3, <2>1 DEF SwapCompleted, SoftwareTypeOK
  <2>3. SwapInOnePlace'
    BY <1>3, <2>1 DEF SwapCompleted, SwapInOnePlace, SoftwareTypeOK
  <2>4. DamageCoversChanges'
    BY <1>3 DEF SwapCompleted, DamageCoversChanges
  <2> QED
    BY <2>2, <2>3, <2>4
<1>4. CASE UpdatePaintNode
  BY <1>4 DEF UpdatePaintNode, SwapPending, SoftwareTypeOK, SwapInOnePlace, DamageCoversChanges
<1>5. CASE UNCHANGED softwareVars
  BY <1>5 DEF SoftwareTypeOK, SwapInOnePlace, DamageCoversChanges
<1> QED
  BY <1>1, <1>2, <1>3, <1>4, <1>5

(* SoftwareInv holds in every reachable state of the device. *)
THEOREM SoftwareInvariant == SoftwareSpec => []SoftwareInv
<1>1. SoftwareInv /\ [SoftwareNext]_softwareVars => SoftwareInv'
  BY DrawInv, SwapFrameInv, QuietInv DEF SoftwareNext
<1> QED
  BY SoftwareInitInv, <1>1, PTL DEF SoftwareSpec

(* Every variable of the device has its type: one acknowledgement at most   *)
(* is posted.                                                               *)
THEOREM SoftwareTypes == SoftwareSpec => []SoftwareTypeOK
<1>1. SoftwareInv => SoftwareTypeOK
  BY DEF SoftwareInv
<1> QED
  BY <1>1, SoftwareInvariant, PTL

(* The scene graph never copies a surface that is being painted, though the *)
(* two threads share no lock for it.                                        *)
THEOREM NoTornCopy == SoftwareSpec => []CopiesNoPaintedSurface
<1>1. SoftwareInv => CopiesNoPaintedSurface
  BY DEF SoftwareInv, SoftwareTypeOK, SwapInOnePlace, CopiesNoPaintedSurface
<1> QED
  BY <1>1, SoftwareInvariant, PTL

(* Copying only the damage of each frame shows the whole of it.             *)
THEOREM WholePictures == SoftwareSpec => []AcknowledgedPictureIsWhole
<1>1. SoftwareInv => AcknowledgedPictureIsWhole
  BY DEF SoftwareInv, DamageCoversChanges, AcknowledgedPictureIsWhole
<1> QED
  BY <1>1, SoftwareInvariant, PTL

(* The software device implements the safety part of the frame stream.      *)
THEOREM SoftwareImplementsStream == SoftwareSpec => Stream!SafeSpec
<1>1. SoftwareInit => Stream!Init
  BY DEF SoftwareInit, Stream!Init
<1>2. SoftwareInv /\ [SoftwareNext]_softwareVars => [Stream!Next]_(Stream!frames)
  <2> SUFFICES ASSUME SoftwareInv, [SoftwareNext]_softwareVars
               PROVE  [Stream!Next]_(Stream!frames)
    OBVIOUS
  <2> USE DEF SoftwareInv, Stream!frames
  <2>1. CASE OnSwapBuffers
    <3>1. Stream!Submit
      BY <2>1 DEF OnSwapBuffers, SwapInOnePlace, SoftwareTypeOK, Stream!Submit
    <3> QED
      BY <3>1 DEF Stream!Next
  <2>2. CASE SwapFrame
    <3>1. shown < swapped
      BY <2>2 DEF SwapFrame, SwapInOnePlace, SoftwareTypeOK
    <3>2. Stream!Show
      BY <2>2, <3>1 DEF SwapFrame, Stream!Show
    <3> QED
      BY <3>2 DEF Stream!Next
  <2>3. CASE SwapCompleted
    <3>1. acked < shown
      BY <2>3 DEF SwapCompleted, SwapInOnePlace, SoftwareTypeOK
    <3>2. Stream!Ack
      BY <2>3, <3>1 DEF SwapCompleted, Stream!Ack
    <3> QED
      BY <3>2 DEF Stream!Next
  <2>4. CASE Draw \/ ReadyToSwap \/ UpdatePaintNode \/ UNCHANGED softwareVars
    BY <2>4 DEF Draw, ReadyToSwap, UpdatePaintNode
  <2> QED
    BY <2>1, <2>2, <2>3, <2>4 DEF SoftwareNext
<1> QED
  BY <1>1, <1>2, SoftwareInvariant, PTL DEF SoftwareSpec, Stream!SafeSpec
=============================================================================
