------------------------- MODULE PageLifecycleProofs -------------------------
(***************************************************************************)
(* Proofs that the recommended state is current whenever no call is in     *)
(* progress, that a visible or inspected page is active, and that a page   *)
(* is visible as its view is shown and announces it once; for any number   *)
(* of streams, notices and nested calls.                                   *)
(***************************************************************************)
EXTENDS PageLifecycle, SequenceTheorems, TLAPS

Places == 1 .. Len(todo)
Op(i)  == todo[i].op

(* Whatever changes an input of the recommended state has an update in     *)
(* front of it, and the update is still to come.                           *)
Updates(i) == Op(i) = "updateRecommendedState"
UpdateInv ==
  /\ \A i \in Places : Op(i) = "inspect" => \E j \in Places : j > i /\ Updates(j)
  /\ "silent" \notin past =>
       recommended = determineRecommendedState \/ \E i \in Places : Updates(i)

(* Before a page is shown or inspected it is woken up, and nothing in      *)
(* between puts it to sleep.                                               *)
Wakes(i)  == Op(i) = "setLifecycleState" /\ todo[i].arg = "Active"
Sleeps(i) == Op(i) = "setLifecycleState" /\ todo[i].arg # "Active"
WakeInv == "slot" \notin past =>
  /\ visible \/ inspected => state = "Active"
  /\ \A i \in Places : Op(i) \in {"wasShown", "inspect"} =>
       /\ state = "Active" \/ \E j \in Places : j < i /\ Wakes(j)
       /\ \A j \in Places : j < i => ~Sleeps(j)

(* The last step that shows or hides the page does what the view will be.  *)
Shows(i)    == Op(i) \in {"setVisible", "wasShown"}
Shown(i)    == IF Op(i) = "wasShown" THEN "shown" ELSE todo[i].arg
LastShow(i) == Shows(i) /\ \A j \in Places : j > i => ~Shows(j)
WillBe      == IF \E i \in Places : Op(i) = "hidden" THEN "hidden" ELSE view
ViewInv ==
  /\ \A i \in Places : Op(i) = "hidden" => HasView /\ \E j \in Places : j > i /\ Shows(j)
  /\ "slot" \notin past /\ HasView =>
       /\ \A i \in Places : LastShow(i) => Shown(i) = WillBe
       /\ (\A i \in Places : ~Shows(i)) => visibility = view

(* Without a view, one step at a time is on its way to a change that is    *)
(* announced.                                                              *)
Tells(i) == Op(i) \in {"setVisible", "wasShown", "visibleChanged"}
AnnounceInv == "slot" \notin past /\ ~HasView =>
  /\ \A i, j \in Places : Tells(i) /\ Tells(j) => i = j
  /\ \A i \in Places : Op(i) = "wasShown" => visibility = "hidden"
  /\ \A i \in Places : Op(i) = "visibleChanged" => announced # visibility /\ todo[i].arg = visibility
  /\ (\A i \in Places : Op(i) # "visibleChanged") => announced = visibility

PageInv == TypeOK /\ UpdateInv /\ WakeInv /\ ViewInv /\ AnnounceInv
-----------------------------------------------------------------------------
(* k steps in front of the sequence give way to d others.                  *)
Moved(d, k) ==
  /\ todo' \in Seq(Steps) /\ Len(todo') = Len(todo) + d - k
  /\ \A i \in Places' : i > d => i - d + k \in Places /\ i - d + k > k /\ todo'[i] = todo[i - d + k]
  /\ \A j \in Places : j > k => j + d - k \in Places' /\ j + d - k > d /\ todo'[j + d - k] = todo[j]

\* The step in front is replaced by a sequence of steps.
LEMMA Rewritten ==
  ASSUME TypeOK, ~Idle, NEW s \in Seq(Steps), Then(s)
  PROVE  /\ Moved(Len(s), 1) /\ \A i \in 1 .. Len(s) : i \in Places' /\ todo'[i] = s[i]
         /\ 1 \in Places /\ Head(todo) = todo[1] /\ todo[1] \in Steps
<1> DEFINE q == Tail(todo)
<1>1. /\ todo \in Seq(Steps) /\ todo # <<>> /\ todo' = s \o q
  BY DEF TypeOK, Then, Idle
<1>2. /\ q \in Seq(Steps) /\ Len(q) = Len(todo) - 1 /\ 1 \in 1 .. Len(todo) /\ Head(todo) = todo[1]
      /\ todo[1] \in Steps /\ \A i \in 1 .. Len(q) : q[i] = todo[i + 1]
  BY <1>1
<1> HIDE DEF q
<1>3. /\ todo' \in Seq(Steps) /\ Len(todo') = Len(s) + Len(q)
      /\ \A i \in 1 .. Len(s) : todo'[i] = s[i]
      /\ \A i \in 1 .. Len(todo') : i > Len(s) => todo'[i] = q[i - Len(s)]
  BY <1>1, <1>2
<1>4. Len(s) \in Nat /\ Len(q) \in Nat /\ Len(todo) \in Nat
  BY <1>1, <1>2
<1>5. \A i \in 1 .. Len(todo') : i > Len(s) =>
        /\ i - Len(s) + 1 \in 1 .. Len(todo) /\ i - Len(s) + 1 > 1
        /\ todo'[i] = todo[i - Len(s) + 1]
  <2> SUFFICES ASSUME NEW i \in 1 .. Len(todo'), i > Len(s)
               PROVE  /\ i - Len(s) + 1 \in 1 .. Len(todo) /\ i - Len(s) + 1 > 1
                      /\ todo'[i] = todo[i - Len(s) + 1]
    OBVIOUS
  <2>1. i - Len(s) \in 1 .. Len(q)
    BY <1>3, <1>4
  <2>2. todo'[i] = q[i - Len(s)]
    BY <1>3
  <2>3. q[i - Len(s)] = todo[i - Len(s) + 1]
    BY <1>2, <2>1
  <2>4. i - Len(s) + 1 \in 1 .. Len(todo) /\ i - Len(s) + 1 > 1
    BY <1>2, <1>4, <2>1
  <2> QED
    BY <2>2, <2>3, <2>4
<1>6. \A j \in 1 .. Len(todo) : j > 1 =>
        /\ j + Len(s) - 1 \in 1 .. Len(todo') /\ j + Len(s) - 1 > Len(s)
        /\ todo'[j + Len(s) - 1] = todo[j]
  <2> SUFFICES ASSUME NEW j \in 1 .. Len(todo), j > 1
               PROVE  /\ j + Len(s) - 1 \in 1 .. Len(todo') /\ j + Len(s) - 1 > Len(s)
                      /\ todo'[j + Len(s) - 1] = todo[j]
    OBVIOUS
  <2>1. j + Len(s) - 1 \in 1 .. Len(todo') /\ j + Len(s) - 1 > Len(s)
    BY <1>2, <1>3, <1>4
  <2>2. todo'[j + Len(s) - 1] = q[j + Len(s) - 1 - Len(s)]
    BY <1>3, <2>1
  <2>3. j + Len(s) - 1 - Len(s) = j - 1 /\ j - 1 \in 1 .. Len(q) /\ j - 1 + 1 = j
    BY <1>2, <1>4
  <2> QED
    BY <1>2, <2>1, <2>2, <2>3
<1>7. Moved(Len(s), 1)
  BY <1>2, <1>3, <1>4, <1>5, <1>6 DEF Moved, Places
<1> QED
  BY <1>2, <1>3, <1>4, <1>7 DEF Places

\* The step in front goes away.
LEMMA Popped ==
  ASSUME TypeOK, ~Idle, Then(<<>>)
  PROVE  /\ Moved(0, 1) /\ 1 \in Places /\ Head(todo) = todo[1] /\ todo[1] \in Steps
<1>1. <<>> \in Seq(Steps) /\ Len(<<>>) = 0
  OBVIOUS
<1> QED
  BY <1>1, Rewritten

\* One step in its place.
LEMMA OneInstead ==
  ASSUME TypeOK, ~Idle, NEW a \in Steps, Then(<<a>>)
  PROVE  /\ Moved(1, 1) /\ 1 \in Places' /\ todo'[1] = a
         /\ 1 \in Places /\ Head(todo) = todo[1] /\ todo[1] \in Steps
<1> DEFINE s == <<a>>
<1>1. s \in Seq(Steps) /\ Len(s) = 1 /\ s[1] = a
  OBVIOUS
<1>2. Then(s)
  OBVIOUS
<1> HIDE DEF s
<1>3. /\ Moved(1, 1) /\ \A i \in 1 .. 1 : i \in Places' /\ todo'[i] = s[i]
      /\ 1 \in Places /\ Head(todo) = todo[1] /\ todo[1] \in Steps
  BY <1>1, <1>2, Rewritten
<1> QED
  BY <1>1, <1>3

\* Two steps in its place.
LEMMA TwoInstead ==
  ASSUME TypeOK, ~Idle, NEW a \in Steps, NEW b \in Steps, Then(<<a, b>>)
  PROVE  /\ Moved(2, 1) /\ {1, 2} \subseteq Places' /\ todo'[1] = a /\ todo'[2] = b
         /\ 1 \in Places /\ Head(todo) = todo[1] /\ todo[1] \in Steps
<1> DEFINE s == <<a, b>>
<1>1. s \in Seq(Steps) /\ Len(s) = 2 /\ s[1] = a /\ s[2] = b
  OBVIOUS
<1>2. Then(s)
  OBVIOUS
<1> HIDE DEF s
<1>3. /\ Moved(2, 1) /\ \A i \in 1 .. 2 : i \in Places' /\ todo'[i] = s[i]
      /\ 1 \in Places /\ Head(todo) = todo[1] /\ todo[1] \in Steps
  BY <1>1, <1>2, Rewritten
<1> QED
  BY <1>1, <1>3

\* Three steps in its place.
LEMMA ThreeInstead ==
  ASSUME TypeOK, ~Idle, NEW a \in Steps, NEW b \in Steps, NEW c \in Steps, Then(<<a, b, c>>)
  PROVE  /\ Moved(3, 1) /\ {1, 2, 3} \subseteq Places'
         /\ todo'[1] = a /\ todo'[2] = b /\ todo'[3] = c
         /\ 1 \in Places /\ Head(todo) = todo[1] /\ todo[1] \in Steps
<1> DEFINE s == <<a, b, c>>
<1>1. s \in Seq(Steps) /\ Len(s) = 3 /\ s[1] = a /\ s[2] = b /\ s[3] = c
  OBVIOUS
<1>2. Then(s)
  OBVIOUS
<1> HIDE DEF s
<1>3. /\ Moved(3, 1) /\ \A i \in 1 .. 3 : i \in Places' /\ todo'[i] = s[i]
      /\ 1 \in Places /\ Head(todo) = todo[1] /\ todo[1] \in Steps
  BY <1>1, <1>2, Rewritten
<1> QED
  BY <1>1, <1>3

-----------------------------------------------------------------------------
(* What keeps each part when the step in front gives way to d others.      *)
LEMMA UpdatesKept ==
  ASSUME TypeOK, UpdateInv, NEW d \in 0 .. 3, Moved(d, 1), 1 \in Places,
         \A i \in Places' : i <= d => Op(i)' # "inspect",
         "silent" \notin past' =>
           "silent" \notin past \/ recommended' = determineRecommendedState',
         \/ \E i \in Places' : i <= d /\ Updates(i)'
         \/ ~Updates(1) /\ recommended' = recommended
              /\ determineRecommendedState' = determineRecommendedState
         \/ recommended' = determineRecommendedState'
         \/ \E i \in Places : i > 1 /\ Updates(i)
  PROVE  UpdateInv'
<1>0. Len(todo) \in Nat
  BY DEF TypeOK
<1>1. ASSUME NEW i \in Places, i > 1, Updates(i)
      PROVE  i + d - 1 \in Places' /\ i + d - 1 > d /\ Updates(i + d - 1)'
  BY <1>1 DEF Moved, Updates, Op
<1>2. ASSUME NEW i \in Places', Op(i)' = "inspect"
      PROVE  \E j \in Places' : j > i /\ Updates(j)'
  <2>1. i \in Nat /\ i > d
    BY <1>2 DEF Places, Moved
  <2>2. i - d + 1 \in Places /\ i - d + 1 > 1 /\ Op(i - d + 1) = "inspect"
    BY <1>2, <2>1 DEF Moved, Op
  <2>3. PICK j \in Places : j > i - d + 1 /\ Updates(j)
    BY <2>2 DEF UpdateInv
  <2>4. j \in Nat /\ j > 1
    BY <2>1, <2>3 DEF Places
  <2>5. j + d - 1 \in Places' /\ Updates(j + d - 1)'
    BY <1>1, <2>3, <2>4
  <2>6. j + d - 1 > i
    BY <2>1, <2>3, <2>4
  <2> QED
    BY <2>5, <2>6
<1>3. ASSUME "silent" \notin past', recommended' # determineRecommendedState'
      PROVE  \E i \in Places' : Updates(i)'
  <2>1. recommended = determineRecommendedState \/ \E i \in Places : Updates(i)
    BY <1>3 DEF UpdateInv
  <2>2. ASSUME NEW i \in Places, Updates(i), ~Updates(1) PROVE i > 1
    BY <2>2 DEF Places
  <2>3. CASE \E i \in Places' : i <= d /\ Updates(i)'
    BY <2>3
  <2>4. CASE \E i \in Places : i > 1 /\ Updates(i)
    BY <1>1, <2>4
  <2>5. CASE /\ ~Updates(1) /\ recommended' = recommended
             /\ determineRecommendedState' = determineRecommendedState
    <3>1. PICK i \in Places : Updates(i)
      BY <1>3, <2>1, <2>5
    <3> QED
      BY <1>1, <2>2, <2>5, <3>1
  <2> QED
    BY <1>3, <2>3, <2>4, <2>5
<1> QED
  BY <1>2, <1>3 DEF UpdateInv

\* When replacing the front step keeps WakeInv.
LEMMA WakesKept ==
  ASSUME TypeOK, WakeInv, NEW d \in 0 .. 3, Moved(d, 1), 1 \in Places,
         "slot" \notin past' =>
           /\ "slot" \notin past
           /\ visible' \/ inspected' => state' = "Active"
           /\ \A i \in Places' : i <= d => ~Sleeps(i)'
           /\ \A i \in Places' : i <= d /\ Op(i)' \in {"wasShown", "inspect"} =>
                \E j \in Places' : j < i /\ Wakes(j)'
           /\ (state' = state /\ ~Wakes(1)) \/ state' = "Active" \/ Sleeps(1)
  PROVE  WakeInv'
<1> SUFFICES ASSUME "slot" \notin past', NEW i \in Places', Op(i)' \in {"wasShown", "inspect"}
             PROVE  /\ state' = "Active" \/ \E j \in Places' : j < i /\ Wakes(j)'
                    /\ \A j \in Places' : j < i => ~Sleeps(j)'
  BY DEF WakeInv
<1>0. /\ i \in Nat /\ Len(todo) \in Nat
      /\ \A j \in Places' : j <= d => ~Sleeps(j)'
  BY DEF Places, TypeOK, Moved
<1>a. CASE i <= d
  <2>1. \A j \in Places' : j < i => j <= d
    BY <1>0, <1>a DEF Places
  <2> QED
    BY <1>0, <1>a, <2>1
<1>b. CASE i > d
  <2>1. i \in Nat /\ i > d /\ Len(todo) \in Nat
    BY <1>0, <1>b
  <2> DEFINE o == i - d + 1
  <2>2. o \in Places /\ o > 1 /\ Op(o) \in {"wasShown", "inspect"} /\ o \in Nat
    <3>1. o \in Places /\ o > 1 /\ todo'[i] = todo[o]
      BY <2>1 DEF Moved
    <3> QED
      BY <3>1 DEF Op, Places
  <2>3. state = "Active" \/ \E j \in Places : j < o /\ Wakes(j)
    BY <2>2 DEF WakeInv
  <2>4. \A j \in Places : j < o => ~Sleeps(j)
    BY <2>2 DEF WakeInv
  <2>5. ~Sleeps(1)
    BY <2>2, <2>4
  <2>6. state' = "Active" \/ \E j \in Places' : j < i /\ Wakes(j)'
    <3> SUFFICES ASSUME state' # "Active" PROVE \E j \in Places' : j < i /\ Wakes(j)'
      OBVIOUS
    <3>1. state' = state /\ ~Wakes(1)
      BY <2>5
    <3>2. PICK j \in Places : j < o /\ Wakes(j)
      BY <2>3, <3>1
    <3>3. j \in Nat /\ j > 1
      BY <3>1, <3>2 DEF Places
    <3>4. j + d - 1 \in Places' /\ Wakes(j + d - 1)' /\ j + d - 1 < i
      BY <2>1, <3>2, <3>3 DEF Moved, Wakes, Op
    <3> QED
      BY <3>4
  <2>7. ASSUME NEW j \in Places', j < i PROVE ~Sleeps(j)'
    <3>1. CASE j <= d
      BY <3>1
    <3>2. CASE j > d
      <4>1. j \in Nat /\ j - d + 1 \in Places /\ todo'[j] = todo[j - d + 1] /\ j - d + 1 < o
        <5>1. j - d + 1 \in Places /\ todo'[j] = todo[j - d + 1]
          BY <3>2 DEF Moved
        <5>2. j \in Nat /\ j - d + 1 < i - d + 1
          BY <2>1, <2>7 DEF Places
        <5> QED
          BY <5>1, <5>2
      <4>2. ~Sleeps(j - d + 1)
        BY <2>4, <4>1
      <4> QED
        BY <4>1, <4>2 DEF Sleeps, Op
    <3>3. j \in Nat
      BY DEF Places
    <3> QED
      BY <3>1, <3>2, <3>3
  <2> QED
    BY <2>6, <2>7
<1> QED
  BY <1>0, <1>a, <1>b

\* When it keeps ViewInv.
LEMMA ViewKept ==
  ASSUME TypeOK, ViewInv, NEW d \in 0 .. 3, Moved(d, 1), 1 \in Places, HasView' = HasView,
         \A i \in Places' : i <= d => Op(i)' # "hidden",
         "slot" \notin past' /\ HasView =>
           /\ "slot" \notin past
           /\ IF Op(1) = "hidden" THEN view' = "hidden" ELSE view' = view
           /\ \/ /\ ~Shows(1) /\ \A i \in Places' : i <= d => ~Shows(i)'
                 /\ Op(1) # "hidden" => visibility' = visibility
              \/ /\ Shows(1) /\ \A i \in Places' : i <= d => ~Shows(i)'
                 /\ visibility' = Shown(1)
              \/ /\ Op(1) # "hidden" /\ \E k \in Places' : k <= d /\ Shows(k)'
                 /\ \A i \in Places' : i <= d /\ Shows(i)' =>
                      Shown(i)' = IF Shows(1) THEN Shown(1) ELSE view
  PROVE  ViewInv'
<1>0. Len(todo) \in Nat
  BY DEF TypeOK
<1>1. \A i \in Places : i > 1 => i + d - 1 \in Places' /\ i + d - 1 > d /\ todo'[i + d - 1] = todo[i]
  BY DEF Moved
<1>2. \A i \in Places' : i > d =>
        i - d + 1 \in Places /\ i - d + 1 > 1 /\ todo'[i] = todo[i - d + 1]
  BY DEF Moved
<1>3. \A i \in Places : i > 1 /\ Shows(i) => Shows(i + d - 1)'
  BY <1>1 DEF Shows, Op
<1>4. \A i \in Places' : i > d => /\ Op(i)' = Op(i - d + 1) /\ Shows(i)' = Shows(i - d + 1)
                                /\ Shown(i)' = Shown(i - d + 1)
  BY <1>2 DEF Op, Shows, Shown
<1>5. /\ \A i \in Places : i \in Nat /\ (i = 1 \/ i > 1)
      /\ \A i \in Places' : i \in Nat /\ (i <= d \/ i > d)
  BY DEF Places
<1>6. ASSUME NEW i \in Places', Op(i)' = "hidden"
      PROVE  HasView' /\ \E j \in Places' : j > i /\ Shows(j)'
  <2>1. i > d
    BY <1>5, <1>6
  <2>2. i - d + 1 \in Places /\ i - d + 1 > 1 /\ Op(i - d + 1) = "hidden"
    BY <1>2, <1>4, <1>6, <2>1
  <2>3. HasView /\ \E j \in Places : j > i - d + 1 /\ Shows(j)
    BY <2>2 DEF ViewInv
  <2>4. PICK j \in Places : j > i - d + 1 /\ Shows(j)
    BY <2>3
  <2>5. j \in Nat /\ j > 1 /\ j + d - 1 > i
    BY <1>5, <2>2, <2>4
  <2>6. j + d - 1 \in Places' /\ Shows(j + d - 1)'
    BY <1>1, <1>3, <2>4, <2>5
  <2> QED
    BY <2>3, <2>5, <2>6
<1>7. ASSUME "slot" \notin past', HasView'
      PROVE  /\ \A i \in Places' : LastShow(i)' => Shown(i)' = WillBe'
             /\ (\A i \in Places' : ~Shows(i)') => visibility' = view'
  <2>1. /\ \A i \in Places : LastShow(i) => Shown(i) = WillBe
        /\ (\A i \in Places : ~Shows(i)) => visibility = view
    BY <1>7 DEF ViewInv
  <2>2. \A i \in Places : Op(i) = "hidden" => \E j \in Places : j > i /\ Shows(j)
    BY DEF ViewInv
  <2>3. IF Op(1) = "hidden" THEN view' = "hidden" ELSE view' = view
    BY <1>7
  <2>4. (\E i \in Places' : Op(i)' = "hidden") <=> \E i \in Places : i > 1 /\ Op(i) = "hidden"
    <3>1. ASSUME NEW i \in Places, i > 1, Op(i) = "hidden" PROVE \E j \in Places' : Op(j)' = "hidden"
      <4>1. i + d - 1 \in Places' /\ Op(i + d - 1)' = "hidden"
        BY <1>1, <3>1 DEF Op
      <4> QED
        BY <4>1
    <3>2. ASSUME NEW i \in Places', Op(i)' = "hidden" PROVE \E j \in Places : j > 1 /\ Op(j) = "hidden"
      <4>1. i > d
        BY <1>5, <3>2
      <4> QED
        BY <1>2, <1>4, <3>2, <4>1
    <3> QED
      BY <3>1, <3>2
  <2>5. WillBe' = WillBe
    BY <1>5, <2>3, <2>4 DEF WillBe
  <2>6. (\A j \in Places : j > 1 => ~Shows(j)) => WillBe = view /\ (Op(1) # "hidden")
    BY <1>5, <2>2 DEF WillBe
  <2>7. (\A j \in Places : j > 1 => ~Shows(j)) /\ Shows(1) => Shown(1) = view
    <3> SUFFICES ASSUME \A j \in Places : j > 1 => ~Shows(j), Shows(1) PROVE Shown(1) = view
      OBVIOUS
    <3>1. LastShow(1)
      BY DEF LastShow
    <3> QED
      BY <2>1, <2>6, <3>1
  <2>8. ASSUME NEW i \in Places', LastShow(i)' PROVE Shown(i)' = WillBe'
    <3>1. Shows(i)' /\ \A j \in Places' : j > i => ~Shows(j)'
      BY <2>8 DEF LastShow
    <3>2. CASE i > d
      <4>1. i - d + 1 \in Places /\ i - d + 1 > 1 /\ Shows(i - d + 1) /\ Shown(i)' = Shown(i - d + 1)
        BY <1>2, <1>4, <3>1, <3>2
      <4>2. ASSUME NEW j \in Places, j > i - d + 1 PROVE ~Shows(j)
        <5>1. j \in Nat /\ j > 1 /\ j + d - 1 > i
          BY <1>5, <4>1, <4>2
        <5> QED
          BY <1>1, <1>3, <3>1, <5>1
      <4>3. LastShow(i - d + 1)
        BY <4>1, <4>2 DEF LastShow
      <4> QED
        BY <2>1, <2>5, <4>1, <4>3
    <3>3. CASE i <= d
      <4>1. \A j \in Places : j > 1 => ~Shows(j)
        <5> SUFFICES ASSUME NEW j \in Places, j > 1 PROVE ~Shows(j)
          OBVIOUS
        <5>1. j + d - 1 \in Places' /\ j + d - 1 > i
          BY <1>1, <1>5, <3>3
        <5> QED
          BY <1>3, <3>1, <5>1
      <4>2. Shown(i)' = IF Shows(1) THEN Shown(1) ELSE view
        BY <1>7, <3>1, <3>3
      <4> QED
        BY <2>5, <2>6, <2>7, <4>1, <4>2
    <3> QED
      BY <1>5, <3>2, <3>3
  <2>9. ASSUME \A i \in Places' : ~Shows(i)' PROVE visibility' = view'
    <3>1. \A j \in Places : j > 1 => ~Shows(j)
      BY <1>1, <1>3, <2>9
    <3>2. Op(1) # "hidden" /\ view' = view
      BY <2>3, <2>6, <3>1
    <3>3. CASE Shows(1)
      BY <1>7, <2>7, <2>9, <3>1, <3>2, <3>3
    <3>4. CASE ~Shows(1)
      <4>1. visibility = view
        BY <1>5, <2>1, <3>1, <3>4
      <4> QED
        BY <1>7, <2>9, <3>2, <3>4, <4>1
    <3> QED
      BY <3>3, <3>4
  <2> QED
    BY <2>8, <2>9
<1> QED
  BY <1>6, <1>7 DEF ViewInv

\* When it keeps AnnounceInv.
LEMMA AnnounceKept ==
  ASSUME TypeOK, AnnounceInv, NEW d \in 0 .. 3, Moved(d, 1), 1 \in Places, HasView' = HasView,
         "slot" \notin past' /\ ~HasView =>
           /\ "slot" \notin past
           /\ \/ /\ ~Tells(1) /\ visibility' = visibility /\ announced' = announced
                 /\ \A i \in Places' : i <= d => ~Tells(i)'
              \/ /\ Tells(1)
                 /\ \A i, j \in Places' : i <= d /\ j <= d /\ Tells(i)' /\ Tells(j)' => i = j
                 /\ \A i \in Places' : i <= d /\ Op(i)' = "wasShown" => visibility' = "hidden"
                 /\ \A i \in Places' : i <= d /\ Op(i)' = "visibleChanged" =>
                      announced' # visibility' /\ (todo[i].arg)' = visibility'
                 /\ \/ announced' = visibility'
                    \/ \E i \in Places' : i <= d /\ Op(i)' = "visibleChanged"
  PROVE  AnnounceInv'
<1> SUFFICES ASSUME "slot" \notin past', ~HasView'
             PROVE  /\ \A i, j \in Places' : Tells(i)' /\ Tells(j)' => i = j
                    /\ \A i \in Places' : Op(i)' = "wasShown" => visibility' = "hidden"
                    /\ \A i \in Places' : Op(i)' = "visibleChanged" =>
                         announced' # visibility' /\ (todo[i].arg)' = visibility'
                    /\ (\A i \in Places' : Op(i)' # "visibleChanged") => announced' = visibility'
  BY DEF AnnounceInv
<1>1. /\ \A i \in Places' : i \in Nat /\ (i <= d \/ i > d)
      /\ \A i \in Places : i \in Nat /\ (i = 1 \/ i > 1)
  BY DEF Places
<1>2. \A i \in Places' : i > d =>
        /\ i - d + 1 \in Places /\ i - d + 1 > 1 /\ Op(i)' = Op(i - d + 1)
        /\ Tells(i)' = Tells(i - d + 1) /\ (todo[i].arg)' = todo[i - d + 1].arg
  BY DEF Moved, Op, Tells
<1>3. /\ \A i, j \in Places : Tells(i) /\ Tells(j) => i = j
      /\ \A i \in Places : Op(i) = "wasShown" => visibility = "hidden"
      /\ \A i \in Places : Op(i) = "visibleChanged" => announced # visibility /\ todo[i].arg = visibility
      /\ (\A i \in Places : Op(i) # "visibleChanged") => announced = visibility
  BY DEF AnnounceInv
<1>4. CASE Tells(1)
  <2>1. \A i \in Places' : i > d => ~Tells(i)'
    BY <1>2, <1>3, <1>4
  <2>2. \A i \in Places' : Op(i)' \in {"wasShown", "visibleChanged"} => i <= d
    BY <1>1, <2>1 DEF Tells
  <2>3. \A i, j \in Places' : Tells(i)' /\ Tells(j)' => i = j
    BY <1>1, <1>4, <2>1
  <2> QED
    BY <1>4, <2>2, <2>3
<1>5. CASE ~Tells(1)
  <2>1. /\ visibility' = visibility /\ announced' = announced
        /\ \A i \in Places' : Tells(i)' => i > d
    BY <1>1, <1>5
  <2>2. \A i \in Places' : Op(i)' \in {"wasShown", "visibleChanged"} => i > d
    BY <2>1 DEF Tells
  <2>3. ASSUME NEW i \in Places', NEW j \in Places', Tells(i)', Tells(j)' PROVE i = j
    <3>1. i - d + 1 = j - d + 1
      BY <1>2, <1>3, <2>1, <2>3
    <3> QED
      BY <1>1, <3>1
  <2>4. ASSUME \A i \in Places' : Op(i)' # "visibleChanged" PROVE \A i \in Places : Op(i) # "visibleChanged"
    <3> SUFFICES ASSUME NEW i \in Places, Op(i) = "visibleChanged" PROVE FALSE
      OBVIOUS
    <3>1. i > 1
      BY <1>1, <1>5 DEF Tells
    <3>2. i + d - 1 \in Places' /\ Op(i + d - 1)' = "visibleChanged"
      BY <3>1 DEF Moved, Op
    <3> QED
      BY <2>4, <3>2
  <2>5. ASSUME NEW i \in Places', Op(i)' = "wasShown" PROVE visibility' = "hidden"
    BY <1>2, <1>3, <2>1, <2>2, <2>5
  <2>6. ASSUME NEW i \in Places', Op(i)' = "visibleChanged"
        PROVE  announced' # visibility' /\ (todo[i].arg)' = visibility'
    BY <1>2, <1>3, <2>1, <2>2, <2>6
  <2> QED
    BY <1>3, <2>1, <2>3, <2>4, <2>5, <2>6
<1> QED
  BY <1>4, <1>5

-----------------------------------------------------------------------------
(* The steps of setLifecycleState. *)
LEMMA StepTypes ==
  /\ \A s \in LifecycleState : {SetLifecycleState(s), Step("lifecycleStateChanged", s)} \subseteq Steps
  /\ \A v \in Visibility : {SetVisible(v), Step("visibleChanged", v)} \subseteq Steps
  /\ \A op \in {"updateRecommendedState", "wasShown", "inspect", "fetch", "hidden"} :
       Step(op, "none") \in Steps
  /\ \A e \in Steps :
       /\ e.op \in {"setLifecycleState", "lifecycleStateChanged"} => e.arg \in LifecycleState
       /\ e.op \in {"setVisible", "visibleChanged"} => e.arg \in Visibility
<1> DEFINE L == [op : {"setLifecycleState", "lifecycleStateChanged"}, arg : LifecycleState]
           V == [op : {"setVisible", "visibleChanged"}, arg : Visibility]
           N == [op : {"updateRecommendedState", "wasShown", "inspect", "fetch", "hidden"}, arg : {"none"}]
<1>1. \A s \in LifecycleState : SetLifecycleState(s) \in L /\ Step("lifecycleStateChanged", s) \in L
  BY DEF SetLifecycleState, Step
<1>2. \A v \in Visibility : SetVisible(v) \in V /\ Step("visibleChanged", v) \in V
  BY DEF SetVisible, Step
<1>3. \A op \in {"updateRecommendedState", "wasShown", "inspect", "fetch", "hidden"} :
        Step(op, "none") \in N
  BY DEF Step
<1>4. ASSUME NEW e \in Steps
      PROVE  /\ e.op \in {"setLifecycleState", "lifecycleStateChanged"} => e.arg \in LifecycleState
             /\ e.op \in {"setVisible", "visibleChanged"} => e.arg \in Visibility
  BY DEF Steps
<1>5. L \subseteq Steps /\ V \subseteq Steps /\ N \subseteq Steps
  BY DEF Steps
<1> HIDE DEF L, V, N
<1> QED
  BY <1>1, <1>2, <1>3, <1>4, <1>5

\* The fields of a step.
LEMMA StepFields == \A op, arg : Step(op, arg).op = op /\ Step(op, arg).arg = arg
BY DEF Step

\* A call that is refused changes nothing.
LEMMA RefuseKeeps == ASSUME PageInv, Refuse PROVE PageInv'
<1>1. /\ Moved(0, 1) /\ 1 \in Places /\ Op(1) = "setLifecycleState" /\ Arg = todo[1].arg
      /\ todo[1] \in Steps
  BY Popped DEF PageInv, Refuse, Do, Arg, Op
<1>2. /\ UNCHANGED <<state, recommended, visibility, view, loads, activity, told>>
      /\ ~Accepts(Arg)
  BY DEF Refuse
<1>3. \A i \in Places' : ~(i <= 0)
  BY DEF Places
<1>4. TypeOK'
  BY <1>1, <1>2 DEF PageInv, TypeOK, Moved, loads, activity, told
<1>5. /\ determineRecommendedState' = determineRecommendedState /\ ~Updates(1)
      /\ recommended' = recommended /\ past' = past
  BY <1>1, <1>2 DEF determineRecommendedState, Active, visible, loads, activity, told, Updates
<1>6. UpdateInv'
  BY <1>1, <1>3, <1>5, UpdatesKept DEF PageInv
<1>7. WakeInv'
  <2>1. Wakes(1) => state' = "Active"
    BY <1>1, <1>2, StepTypes DEF Wakes, Accepts, PageInv, TypeOK, LifecycleState
  <2>2. "slot" \notin past /\ (visible' \/ inspected') => state' = "Active"
    BY <1>2 DEF PageInv, WakeInv, visible, activity
  <2> QED
    BY <1>1, <1>2, <1>3, <1>5, <2>1, <2>2, WakesKept DEF PageInv
<1>8. HasView' = HasView /\ ~Shows(1) /\ ~Tells(1) /\ view' = view /\ visibility' = visibility /\ announced' = announced
  BY <1>1, <1>2 DEF HasView, Shows, Tells, told
<1>9. ViewInv'
  BY <1>1, <1>3, <1>5, <1>8, ViewKept DEF PageInv
<1>10. AnnounceInv'
  BY <1>1, <1>3, <1>5, <1>8, AnnounceKept DEF PageInv
<1> QED
  BY <1>4, <1>6, <1>7, <1>9, <1>10 DEF PageInv

\* Freeze keeps the invariant.
LEMMA FreezeKeeps == ASSUME PageInv, FreezeOrUnfreeze PROVE PageInv'
<1>0. /\ Do("setLifecycleState") /\ Accepts(Arg) /\ {state, Arg} = {"Active", "Frozen"} /\ state' = Arg
      /\ Then(<<Step("lifecycleStateChanged", Arg), Update>>) /\ ~Idle
      /\ UNCHANGED <<recommended, visibility, view, loads, activity, told>>
  BY DEF FreezeOrUnfreeze, Emitted, Do
<1>a. Arg \in LifecycleState /\ Step("lifecycleStateChanged", Arg) \in Steps /\ Update \in Steps
  BY <1>0, StepTypes DEF LifecycleState, Update
<1>1. /\ Moved(2, 1) /\ {1, 2} \subseteq Places' /\ 1 \in Places /\ Op(1) = "setLifecycleState"
      /\ Arg = todo[1].arg /\ Op(1)' = "lifecycleStateChanged" /\ Op(2)' = "updateRecommendedState"
  BY <1>0, <1>a, TwoInstead, StepFields DEF PageInv, Do, Arg, Op, Update
<1>3. \A i \in Places' : i <= 2 => Op(i)' \in {"lifecycleStateChanged", "updateRecommendedState"}
  <2>1. \A i \in Places' : i <= 2 => i = 1 \/ i = 2
    BY DEF Places
  <2> QED
    BY <1>1, <2>1
<1>4. TypeOK'
  BY <1>0, <1>1, <1>a DEF PageInv, TypeOK, Moved, loads, activity, told
<1>5. past' = past
  BY <1>0 DEF told
<1>6. UpdateInv'
  BY <1>1, <1>3, <1>5, UpdatesKept DEF PageInv, Updates
<1>7. WakeInv'
  <2>1. visible' \/ inspected' => state' = "Active"
    BY <1>0 DEF Accepts, HeldActive, visible, activity
  <2>2. state' = "Active" \/ Sleeps(1)
    BY <1>0, <1>1 DEF Sleeps
  <2>3. \A i \in Places' : i <= 2 => ~Sleeps(i)' /\ Op(i)' \notin {"wasShown", "inspect"}
    BY <1>3 DEF Sleeps
  <2> QED
    BY <1>1, <1>5, <2>1, <2>2, <2>3, WakesKept DEF PageInv
<1>8. HasView' = HasView /\ ~Shows(1) /\ ~Tells(1) /\ view' = view /\ visibility' = visibility /\ announced' = announced
  BY <1>0, <1>1 DEF HasView, Shows, Tells, told
<1>9. \A i \in Places' : i <= 2 => ~Shows(i)' /\ ~Tells(i)' /\ Op(i)' # "hidden"
  BY <1>3 DEF Shows, Tells
<1>10. ViewInv'
  BY <1>1, <1>5, <1>8, <1>9, ViewKept DEF PageInv
<1>11. AnnounceInv'
  BY <1>1, <1>5, <1>8, <1>9, AnnounceKept DEF PageInv
<1> QED
  BY <1>4, <1>6, <1>7, <1>10, <1>11 DEF PageInv

\* Steps put in front of two others.
LEMMA Joined ==
  ASSUME NEW a \in Steps, NEW b \in Steps, NEW c \in Steps
  PROVE  <<a>> \o <<b, c>> = <<a, b, c>> /\ <<>> \o <<b, c>> = <<b, c>>
<1> DEFINE u == <<a>>
           v == <<b, c>>
           w == <<a, b, c>>
<1>1. /\ u \in Seq(Steps) /\ Len(u) = 1 /\ u[1] = a
      /\ v \in Seq(Steps) /\ Len(v) = 2 /\ v[1] = b /\ v[2] = c
      /\ w \in Seq(Steps) /\ Len(w) = 3 /\ w[1] = a /\ w[2] = b /\ w[3] = c
  OBVIOUS
<1>2. <<>> \o v = v
  OBVIOUS
<1> HIDE DEF u, v, w
<1>3. /\ u \o v \in Seq(Steps) /\ Len(u \o v) = Len(u) + Len(v)
      /\ \A i \in 1 .. Len(u) + Len(v) :
           (u \o v)[i] = IF i <= Len(u) THEN u[i] ELSE v[i - Len(u)]
  BY <1>1, ConcatProperties
<1>4. Len(u \o v) = 3 /\ \A i \in 1 .. 3 : (u \o v)[i] = IF i <= 1 THEN u[i] ELSE v[i - 1]
  BY <1>1, <1>3
<1>5. \A i \in 1 .. 3 : (u \o v)[i] = w[i]
  <2>1. (u \o v)[1] = w[1] /\ (u \o v)[2] = w[2] /\ (u \o v)[3] = w[3]
    BY <1>1, <1>4
  <2>2. \A i \in 1 .. 3 : i = 1 \/ i = 2 \/ i = 3
    OBVIOUS
  <2> QED
    BY <2>1, <2>2
<1>6. u \o v = w
  BY <1>1, <1>3, <1>4, <1>5, SeqEqual
<1> QED
  BY <1>2, <1>6 DEF u, v, w

\* Discard keeps the invariant.
LEMMA DiscardKeeps == ASSUME PageInv, Discard PROVE PageInv'
<1> DEFINE a == Step("lifecycleStateChanged", "Discarded")
<1>0. /\ Do("setLifecycleState") /\ Accepts(Arg) /\ Arg = "Discarded" /\ ~Idle
      /\ state' = "Discarded" /\ visibility' = "hidden" /\ fetching' = FALSE
      /\ loadingState' = determineLoadingState(FALSE, FALSE)
      /\ streams' = 0 /\ crashed' = FALSE /\ busy' = FALSE /\ kept' = FALSE
      /\ UNCHANGED <<recommended, view, committed, inspected, told>>
      /\ Then(<<Update, a, Update>>) \/ Then(<<a, Update>>)
  <2>1. Then((IF fetching /\ loadingState # "Loaded" THEN <<Update>> ELSE <<>>) \o <<a, Update>>)
    BY DEF Discard, Emitted
  <2>2. <<Update>> \o <<a, Update>> = <<Update, a, Update>> /\ <<>> \o <<a, Update>> = <<a, Update>>
    BY Joined, StepTypes DEF LifecycleState, Update
  <2>3. Then(<<Update, a, Update>>) \/ Then(<<a, Update>>)
    BY <2>1, <2>2
  <2> QED
    BY <2>3 DEF Discard, Do
<1>a. a \in Steps /\ Update \in Steps /\ a.op = "lifecycleStateChanged" /\ Update.op = "updateRecommendedState"
  BY StepTypes, StepFields DEF LifecycleState, Update
<1> HIDE DEF a
<1>1. \E d \in {2, 3} :
        /\ Moved(d, 1) /\ d \in Places' /\ Op(d)' = "updateRecommendedState"
        /\ \A i \in Places' : i <= d => Op(i)' \in {"lifecycleStateChanged", "updateRecommendedState"}
  <2>1. CASE Then(<<Update, a, Update>>)
    <3>1. Moved(3, 1) /\ 3 \in Places' /\ Op(1)' = Update.op /\ Op(2)' = a.op /\ Op(3)' = Update.op
      BY <1>0, <1>a, <2>1, ThreeInstead DEF PageInv, Op
    <3>2. \A i \in Places' : i <= 3 => i = 1 \/ i = 2 \/ i = 3
      BY DEF Places
    <3> QED
      BY <1>a, <3>1, <3>2
  <2>2. CASE Then(<<a, Update>>)
    <3>1. Moved(2, 1) /\ 2 \in Places' /\ Op(1)' = a.op /\ Op(2)' = Update.op
      BY <1>0, <1>a, <2>2, TwoInstead DEF PageInv, Op
    <3>2. \A i \in Places' : i <= 2 => i = 1 \/ i = 2
      BY DEF Places
    <3> QED
      BY <1>a, <3>1, <3>2
  <2> QED
    BY <1>0, <2>1, <2>2
<1>2. PICK d \in {2, 3} :
        /\ Moved(d, 1) /\ d \in Places' /\ Op(d)' = "updateRecommendedState"
        /\ \A i \in Places' : i <= d => Op(i)' \in {"lifecycleStateChanged", "updateRecommendedState"}
  BY <1>1
<1>3. 1 \in Places /\ Op(1) = "setLifecycleState" /\ todo[1].arg = "Discarded" /\ d \in 0 .. 3
  <2>1. 1 \in Places /\ Head(todo) = todo[1]
    BY <1>0 DEF PageInv, TypeOK, Idle, Places
  <2> QED
    BY <1>0, <2>1 DEF Do, Arg, Op
<1>4. TypeOK'
  <2>1. loadingState' \in {"Unloaded", "Loading", "Loaded"}
    BY <1>0 DEF determineLoadingState
  <2>2. streams' \in 0 .. MaxStreams
    BY <1>0, PageConstants
  <2>3. {fetching, committed, inspected, crashed, busy, kept}' \subseteq BOOLEAN
    BY <1>0, Zenon DEF PageInv, TypeOK
  <2>4. state' \in LifecycleState /\ visibility' \in Visibility /\ todo' \in Seq(Steps)
    BY <1>0, <1>2 DEF LifecycleState, Visibility, Moved
  <2> QED
    BY <1>0, <2>1, <2>2, <2>3, <2>4 DEF PageInv, TypeOK, told
<1>5. past' = past /\ d <= d
  BY <1>0 DEF told
<1>6. UpdateInv'
  BY <1>2, <1>3, <1>5, UpdatesKept DEF PageInv, Updates
<1>7. "slot" \notin past => ~visible /\ ~inspected
  <2>1. "slot" \notin past => (visible \/ inspected => state = "Active")
    BY DEF PageInv, WakeInv
  <2> QED
    BY <1>0, <2>1 DEF Accepts, HeldActive
<1>8. WakeInv'
  <2>1. "slot" \notin past => ~(visible' \/ inspected')
    BY <1>0, <1>7 DEF visible
  <2>2. Sleeps(1)
    BY <1>3 DEF Sleeps
  <2>3. \A i \in Places' : i <= d => ~Sleeps(i)' /\ Op(i)' \notin {"wasShown", "inspect"}
    BY <1>2 DEF Sleeps
  <2> QED
    BY <1>2, <1>3, <1>5, <2>1, <2>2, <2>3, WakesKept DEF PageInv
<1>9. HasView' = HasView /\ ~Shows(1) /\ ~Tells(1) /\ view' = view /\ announced' = announced
  BY <1>0, <1>3 DEF HasView, Shows, Tells, told
<1>10. "slot" \notin past => visibility' = visibility
  BY <1>0, <1>7 DEF PageInv, TypeOK, Visibility, visible
<1>11. \A i \in Places' : i <= d => ~Shows(i)' /\ ~Tells(i)' /\ Op(i)' # "hidden"
  BY <1>2 DEF Shows, Tells
<1>12. ViewInv'
  BY <1>2, <1>3, <1>5, <1>9, <1>10, <1>11, ViewKept DEF PageInv
<1>13. AnnounceInv'
  BY <1>2, <1>3, <1>5, <1>9, <1>10, <1>11, AnnounceKept DEF PageInv
<1> QED
  BY <1>4, <1>6, <1>8, <1>12, <1>13 DEF PageInv

\* Undiscard keeps the invariant.
LEMMA UndiscardKeeps == ASSUME PageInv, Undiscard PROVE PageInv'
<1> DEFINE a == Step("lifecycleStateChanged", "Active")
           b == SetVisible(view)
<1>0. /\ Do("setLifecycleState") /\ Accepts(Arg) /\ ~Idle /\ state = "Discarded"
      /\ state' = "Active" /\ fetching' = (fetching \/ committed)
      /\ UNCHANGED <<recommended, visibility, view, loadingState, committed, activity, told>>
      /\ IF HasView THEN Then(<<b, a, Update>>) ELSE Then(<<a, Update>>)
  <2>1. Then((IF HasView THEN <<b>> ELSE <<>>) \o <<a, Update>>)
    BY DEF Undiscard, Emitted, SyncWithView
  <2>2. a \in Steps /\ Update \in Steps /\ (HasView => b \in Steps)
    BY StepTypes DEF LifecycleState, Update, HasView, PageInv, TypeOK
  <2>3. IF HasView THEN Then(<<b, a, Update>>) ELSE Then(<<a, Update>>)
    <3>1. HasView => <<b>> \o <<a, Update>> = <<b, a, Update>>
      BY <2>2, Joined
    <3>2. <<>> \o <<a, Update>> = <<a, Update>>
      BY <2>2, Joined
    <3> QED
      BY <2>1, <3>1, <3>2
  <2> QED
    BY <2>3 DEF Undiscard, Do
<1>a. a \in Steps /\ Update \in Steps /\ a.op = "lifecycleStateChanged" /\ Update.op = "updateRecommendedState"
  BY StepTypes, StepFields DEF LifecycleState, Update
<1>b. HasView => b \in Steps /\ b.op = "setVisible" /\ b.arg = view
  BY StepTypes, StepFields DEF HasView, PageInv, TypeOK, SetVisible
<1> HIDE DEF a, b
<1>1. \E d \in {2, 3} :
        /\ Moved(d, 1) /\ d \in Places' /\ Op(d)' = "updateRecommendedState"
        /\ \A i \in Places' : i <= d =>
             \/ Op(i)' \in {"lifecycleStateChanged", "updateRecommendedState"}
             \/ HasView /\ Op(i)' = "setVisible" /\ (todo[i].arg)' = view
        /\ HasView => 1 \in Places' /\ 1 <= d /\ Op(1)' = "setVisible"
  <2>1. CASE HasView
    <3>1. /\ Moved(3, 1) /\ {1, 3} \subseteq Places' /\ Op(1)' = b.op /\ Op(2)' = a.op /\ Op(3)' = Update.op
          /\ (todo[1].arg)' = b.arg
      BY <1>0, <1>a, <1>b, <2>1, ThreeInstead DEF PageInv, Op
    <3>2. \A i \in Places' : i <= 3 => i = 1 \/ i = 2 \/ i = 3
      BY DEF Places
    <3> QED
      BY <1>a, <1>b, <2>1, <3>1, <3>2
  <2>2. CASE ~HasView
    <3>1. Moved(2, 1) /\ 2 \in Places' /\ Op(1)' = a.op /\ Op(2)' = Update.op
      BY <1>0, <1>a, <2>2, TwoInstead DEF PageInv, Op
    <3>2. \A i \in Places' : i <= 2 => i = 1 \/ i = 2
      BY DEF Places
    <3> QED
      BY <1>a, <2>2, <3>1, <3>2
  <2> QED
    BY <2>1, <2>2
<1>2. PICK d \in {2, 3} :
        /\ Moved(d, 1) /\ d \in Places' /\ Op(d)' = "updateRecommendedState"
        /\ \A i \in Places' : i <= d =>
             \/ Op(i)' \in {"lifecycleStateChanged", "updateRecommendedState"}
             \/ HasView /\ Op(i)' = "setVisible" /\ (todo[i].arg)' = view
        /\ HasView => 1 \in Places' /\ 1 <= d /\ Op(1)' = "setVisible"
  BY <1>1
<1>3. 1 \in Places /\ Op(1) = "setLifecycleState" /\ d \in 0 .. 3 /\ d <= d
  <2>1. 1 \in Places /\ Head(todo) = todo[1]
    BY <1>0 DEF PageInv, TypeOK, Idle, Places
  <2> QED
    BY <1>0, <2>1 DEF Do, Op
<1>4. TypeOK'
  <2>1. {fetching, committed, inspected, crashed, busy, kept}' \subseteq BOOLEAN
    BY <1>0, Zenon DEF PageInv, TypeOK, activity
  <2>2. state' \in LifecycleState /\ todo' \in Seq(Steps)
    BY <1>0, <1>2 DEF LifecycleState, Moved
  <2> QED
    BY <1>0, <2>1, <2>2 DEF PageInv, TypeOK, told, activity
<1>5. past' = past
  BY <1>0 DEF told
<1>6. UpdateInv'
  <2>1. \A i \in Places' : i <= d => Op(i)' # "inspect"
    BY <1>2
  <2> QED
    BY <1>2, <1>3, <1>5, <2>1, UpdatesKept DEF PageInv, Updates
<1>8. WakeInv'
  <2>1. \A i \in Places' : i <= d => ~Sleeps(i)' /\ Op(i)' \notin {"wasShown", "inspect"}
    BY <1>2 DEF Sleeps
  <2> QED
    BY <1>0, <1>2, <1>3, <1>5, <2>1, WakesKept DEF PageInv
<1>9. /\ HasView' = HasView /\ ~Shows(1) /\ Op(1) # "hidden" /\ ~Tells(1) /\ view' = view
      /\ announced' = announced /\ visibility' = visibility
  BY <1>0, <1>3 DEF HasView, Shows, Tells, told
<1>10. \A i \in Places' : i <= d => Op(i)' # "hidden"
  BY <1>2
<1>11. ViewInv'
  <2>1. CASE HasView
    <3>1. 1 \in Places' /\ 1 <= d /\ Shows(1)'
      BY <1>2, <2>1 DEF Shows
    <3>2. \A i \in Places' : i <= d /\ Shows(i)' => Shown(i)' = view
      BY <1>2 DEF Shows, Shown
    <3> QED
      BY <1>2, <1>3, <1>5, <1>9, <1>10, <3>1, <3>2, ViewKept DEF PageInv
  <2>2. CASE ~HasView
    BY <1>2, <1>3, <1>5, <1>9, <1>10, <2>2, ViewKept DEF PageInv
  <2> QED
    BY <2>1, <2>2
<1>12. AnnounceInv'
  <2>1. ~HasView => \A i \in Places' : i <= d => ~Tells(i)'
    BY <1>2 DEF Tells
  <2> QED
    BY <1>2, <1>3, <1>5, <1>9, <2>1, AnnounceKept DEF PageInv
<1> QED
  BY <1>4, <1>6, <1>8, <1>11, <1>12 DEF PageInv

-----------------------------------------------------------------------------
(* The steps of setVisible. *)
LEMMA ShowKeeps == ASSUME PageInv, Show PROVE PageInv'
<1> DEFINE a == SetLifecycleState("Active")
           b == Step("wasShown", "none")
<1>0. /\ Do("setVisible") /\ Arg = "shown" /\ visibility # "shown" /\ ~Idle /\ Then(<<a, b>>)
      /\ UNCHANGED <<state, recommended, visibility, view, loads, activity, told>>
  BY DEF Show, ShowFirst, Do, ChangesVisibility
<1>a. /\ a \in Steps /\ b \in Steps /\ a.op = "setLifecycleState" /\ a.arg = "Active"
      /\ b.op = "wasShown"
  BY StepTypes, StepFields DEF LifecycleState, SetLifecycleState
<1> HIDE DEF a, b
<1>1. /\ Moved(2, 1) /\ {1, 2} \subseteq Places' /\ 1 \in Places
      /\ Op(1) = "setVisible" /\ todo[1].arg = "shown"
      /\ Op(1)' = "setLifecycleState" /\ (todo[1].arg)' = "Active" /\ Op(2)' = "wasShown"
  BY <1>0, <1>a, TwoInstead DEF PageInv, Do, Arg, Op
<1>2. \A i \in Places' : i <= 2 => i = 1 \/ i = 2
  BY DEF Places
<1>4. TypeOK'
  BY <1>0, <1>1 DEF PageInv, TypeOK, Moved, loads, activity, told
<1>5. /\ determineRecommendedState' = determineRecommendedState /\ ~Updates(1)
      /\ recommended' = recommended /\ past' = past
  BY <1>0, <1>1 DEF determineRecommendedState, Active, visible, loads, activity, told, Updates
<1>6. UpdateInv'
  <2>1. \A i \in Places' : i <= 2 => Op(i)' # "inspect"
    BY <1>1, <1>2
  <2> QED
    BY <1>1, <1>5, <2>1, UpdatesKept DEF PageInv
<1>7. WakeInv'
  <2>1. "slot" \notin past /\ (visible' \/ inspected') => state' = "Active"
    BY <1>0 DEF PageInv, WakeInv, visible, activity
  <2>2. Wakes(1)' /\ ~Sleeps(1)' /\ ~Sleeps(2)'
    BY <1>1 DEF Wakes, Sleeps
  <2>3. \A i \in Places' : i <= 2 => ~Sleeps(i)'
    BY <1>2, <2>2
  <2>4. \A i \in Places' : i <= 2 /\ Op(i)' \in {"wasShown", "inspect"} =>
          \E j \in Places' : j < i /\ Wakes(j)'
    BY <1>1, <1>2, <2>2
  <2>5. state' = state /\ ~Wakes(1)
    BY <1>0, <1>1 DEF Wakes
  <2> QED
    BY <1>1, <1>5, <2>1, <2>3, <2>4, <2>5, WakesKept DEF PageInv
<1>8. /\ HasView' = HasView /\ Shows(1) /\ Shown(1) = "shown" /\ Tells(1) /\ Op(1) # "hidden"
      /\ view' = view /\ visibility' = visibility /\ announced' = announced
  BY <1>0, <1>1 DEF HasView, Shows, Shown, Tells, told
<1>9. ViewInv'
  <2>1. Shows(2)' /\ Shown(2)' = "shown" /\ ~Shows(1)'
    BY <1>1 DEF Shows, Shown
  <2>2. \A i \in Places' : i <= 2 => Op(i)' # "hidden"
    BY <1>1, <1>2
  <2>3. \A i \in Places' : i <= 2 /\ Shows(i)' => Shown(i)' = Shown(1)
    BY <1>2, <1>8, <2>1
  <2>4. \E k \in Places' : k <= 2 /\ Shows(k)'
    BY <1>1, <2>1
  <2> QED
    BY <1>1, <1>5, <1>8, <2>2, <2>3, <2>4, ViewKept DEF PageInv
<1>10. AnnounceInv'
  <2>1. ~Tells(1)'
    BY <1>1 DEF Tells
  <2>2. \A i, j \in Places' : i <= 2 /\ j <= 2 /\ Tells(i)' /\ Tells(j)' => i = j
    BY <1>2, <2>1
  <2>3. \A i \in Places' : i <= 2 => Op(i)' # "visibleChanged"
    BY <1>1, <1>2
  <2>4. visibility' = "hidden"
    BY <1>0, <1>8 DEF PageInv, TypeOK, Visibility
  <2>5. "slot" \notin past /\ ~HasView => announced' = visibility'
    <3> SUFFICES ASSUME "slot" \notin past, ~HasView PROVE announced' = visibility'
      OBVIOUS
    <3>1. \A i \in Places : Tells(i) => i = 1
      BY <1>1, <1>8 DEF PageInv, AnnounceInv
    <3>2. \A i \in Places : Op(i) # "visibleChanged"
      BY <1>1, <3>1 DEF Tells
    <3> QED
      BY <1>8, <3>2 DEF PageInv, AnnounceInv
  <2> QED
    BY <1>1, <1>5, <1>8, <2>2, <2>3, <2>4, <2>5, AnnounceKept DEF PageInv
<1> QED
  BY <1>4, <1>6, <1>7, <1>9, <1>10 DEF PageInv

(* WasShown and Hide: the visibility changes, and is to be announced.      *)
LEMMA VisibilityKeeps ==
  ASSUME PageInv, NEW v \in Visibility, Then(<<Step("visibleChanged", v), Update>>),
         \/ Do("wasShown") /\ v = "shown"
         \/ Do("setVisible") /\ Arg = v /\ visibility # v /\ v = "hidden",
         visibility' = v,
         UNCHANGED <<state, recommended, view, loads, activity, told>>
  PROVE  PageInv'
<1> DEFINE a == Step("visibleChanged", v)
<1>a. /\ a \in Steps /\ Update \in Steps /\ a.op = "visibleChanged" /\ a.arg = v
      /\ Update.op = "updateRecommendedState" /\ Then(<<a, Update>>) /\ ~Idle
  BY StepTypes, StepFields DEF Update, Do
<1> HIDE DEF a
<1>1. /\ Moved(2, 1) /\ {1, 2} \subseteq Places' /\ 1 \in Places
      /\ \/ Op(1) = "wasShown" /\ v = "shown"
         \/ Op(1) = "setVisible" /\ todo[1].arg = v /\ visibility # v /\ v = "hidden"
      /\ Op(1)' = "visibleChanged" /\ (todo[1].arg)' = v /\ Op(2)' = "updateRecommendedState"
  BY <1>a, TwoInstead DEF PageInv, Do, Arg, Op
<1>2. \A i \in Places' : i <= 2 => i = 1 \/ i = 2
  BY DEF Places
<1>3. \A i \in Places' : i <= 2 => Op(i)' \in {"visibleChanged", "updateRecommendedState"}
  BY <1>1, <1>2
<1>4. TypeOK'
  BY <1>1 DEF PageInv, TypeOK, Moved, loads, activity, told
<1>5. past' = past
  BY DEF told
<1>6. UpdateInv'
  <2>1. 2 \in Places' /\ 2 <= 2 /\ Updates(2)' /\ \A i \in Places' : i <= 2 => Op(i)' # "inspect"
    BY <1>1, <1>3 DEF Updates
  <2> QED
    BY <1>1, <1>5, <2>1, UpdatesKept DEF PageInv
<1>7. WakeInv'
  <2>1. "slot" \notin past /\ (visible' \/ inspected') => state' = "Active"
    <3> SUFFICES ASSUME "slot" \notin past, visible' \/ inspected' PROVE state' = "Active"
      OBVIOUS
    <3>1. CASE Op(1) = "wasShown"
      <4>1. state = "Active" \/ \E j \in Places : j < 1 /\ Wakes(j)
        BY <1>1, <3>1 DEF PageInv, WakeInv
      <4>2. \A j \in Places : ~(j < 1)
        BY DEF Places
      <4> QED
        BY <4>1, <4>2
    <3>2. CASE v = "hidden"
      <4>1. inspected
        BY <3>2 DEF visible, activity
      <4> QED
        BY <4>1 DEF PageInv, WakeInv
    <3> QED
      BY <1>1, <3>1, <3>2
  <2>2. \A i \in Places' : i <= 2 => ~Sleeps(i)' /\ Op(i)' \notin {"wasShown", "inspect"}
    BY <1>3 DEF Sleeps
  <2>3. state' = state /\ ~Wakes(1)
    BY <1>1 DEF Wakes
  <2> QED
    BY <1>1, <1>5, <2>1, <2>2, <2>3, WakesKept DEF PageInv
<1>8. /\ HasView' = HasView /\ Shows(1) /\ Shown(1) = v /\ Tells(1) /\ Op(1) # "hidden"
      /\ view' = view /\ announced' = announced
  BY <1>1 DEF HasView, Shows, Shown, Tells, told
<1>9. ViewInv'
  <2>1. \A i \in Places' : i <= 2 => ~Shows(i)' /\ Op(i)' # "hidden"
    BY <1>3 DEF Shows
  <2> QED
    BY <1>1, <1>5, <1>8, <2>1, ViewKept DEF PageInv
<1>10. AnnounceInv'
  <2>1. ~Tells(2)' /\ Op(1)' # "wasShown" /\ Op(2)' \notin {"wasShown", "visibleChanged"}
    BY <1>1 DEF Tells
  <2>2. \A i, j \in Places' : i <= 2 /\ j <= 2 /\ Tells(i)' /\ Tells(j)' => i = j
    BY <1>2, <2>1
  <2>3. \A i \in Places' : i <= 2 => Op(i)' # "wasShown"
    BY <1>2, <2>1
  <2>4. "slot" \notin past /\ ~HasView => announced' # visibility'
    <3> SUFFICES ASSUME "slot" \notin past, ~HasView PROVE announced # v
      BY <1>8
    <3>1. \A i \in Places : Tells(i) => i = 1
      BY <1>1, <1>8 DEF PageInv, AnnounceInv
    <3>2. \A i \in Places : Op(i) # "visibleChanged"
      BY <1>1, <3>1 DEF Tells
    <3>3. announced = visibility
      BY <3>2 DEF PageInv, AnnounceInv
    <3>4. Op(1) = "wasShown" => visibility = "hidden"
      BY <1>1 DEF PageInv, AnnounceInv
    <3> QED
      BY <1>1, <3>3, <3>4
  <2>5. \A i \in Places' : i <= 2 /\ Op(i)' = "visibleChanged" => (todo[i].arg)' = visibility'
    BY <1>1, <1>2, <2>1
  <2>6. 1 \in Places' /\ 1 <= 2 /\ Op(1)' = "visibleChanged"
    BY <1>1
  <2> QED
    BY <1>1, <1>5, <1>8, <2>2, <2>3, <2>4, <2>5, <2>6, AnnounceKept DEF PageInv
<1> QED
  BY <1>4, <1>6, <1>7, <1>9, <1>10 DEF PageInv

\* WasShown keeps the invariant.
LEMMA WasShownKeeps == ASSUME PageInv, WasShown PROVE PageInv'
<1>1. /\ Then(<<Step("visibleChanged", "shown"), Update>>) /\ Do("wasShown") /\ visibility' = "shown"
      /\ UNCHANGED <<state, recommended, view, loads, activity, told>>
  BY DEF WasShown
<1> DEFINE v == "shown"
<1>2. /\ v \in Visibility /\ Then(<<Step("visibleChanged", v), Update>>)
      /\ Do("wasShown") /\ v = "shown" /\ visibility' = v
  BY <1>1 DEF Visibility
<1> HIDE DEF v
<1> QED
  BY <1>1, <1>2, VisibilityKeeps

\* Hide keeps the invariant.
LEMMA HideKeeps == ASSUME PageInv, Hide PROVE PageInv'
<1>1. /\ Then(<<Step("visibleChanged", "hidden"), Update>>) /\ Do("setVisible")
      /\ Arg = "hidden" /\ visibility # "hidden" /\ visibility' = "hidden"
      /\ UNCHANGED <<state, recommended, view, loads, activity, told>>
  BY DEF Hide, ChangesVisibility
<1> DEFINE v == "hidden"
<1>2. /\ v \in Visibility /\ Then(<<Step("visibleChanged", v), Update>>)
      /\ Do("setVisible") /\ Arg = v /\ visibility # v /\ v = "hidden" /\ visibility' = v
  BY <1>1 DEF Visibility
<1> HIDE DEF v
<1> QED
  BY <1>1, <1>2, VisibilityKeeps

\* Showing what is shown or hiding what is hidden.
LEMMA SameVisibilityKeeps == ASSUME PageInv, SameVisibility PROVE PageInv'
<1>1. /\ Moved(0, 1) /\ 1 \in Places /\ Op(1) = "setVisible" /\ todo[1].arg = visibility
  BY Popped DEF PageInv, SameVisibility, Do, Arg, Op, ChangesVisibility
<1>2. UNCHANGED <<state, recommended, visibility, view, loads, activity, told>>
  BY DEF SameVisibility
<1>3. \A i \in Places' : ~(i <= 0)
  BY DEF Places
<1>4. TypeOK'
  BY <1>1, <1>2 DEF PageInv, TypeOK, Moved, loads, activity, told
<1>5. /\ determineRecommendedState' = determineRecommendedState /\ ~Updates(1)
      /\ recommended' = recommended /\ past' = past
  BY <1>1, <1>2 DEF determineRecommendedState, Active, visible, loads, activity, told, Updates
<1>6. UpdateInv'
  BY <1>1, <1>3, <1>5, UpdatesKept DEF PageInv
<1>7. WakeInv'
  <2>1. state' = state /\ ~Wakes(1)
    BY <1>1, <1>2 DEF Wakes
  <2>2. "slot" \notin past /\ (visible' \/ inspected') => state' = "Active"
    BY <1>2 DEF PageInv, WakeInv, visible, activity
  <2> QED
    BY <1>1, <1>3, <1>5, <2>1, <2>2, WakesKept DEF PageInv
<1>8. /\ HasView' = HasView /\ Shows(1) /\ Shown(1) = visibility /\ Tells(1) /\ Op(1) # "hidden"
      /\ view' = view /\ visibility' = visibility /\ announced' = announced
  BY <1>1, <1>2 DEF HasView, Shows, Shown, Tells, told
<1>9. ViewInv'
  BY <1>1, <1>3, <1>5, <1>8, ViewKept DEF PageInv
<1>10. AnnounceInv'
  <2>1. "slot" \notin past /\ ~HasView => announced' = visibility'
    <3> SUFFICES ASSUME "slot" \notin past, ~HasView PROVE announced = visibility
      BY <1>8
    <3>1. \A i \in Places : Tells(i) => i = 1
      BY <1>1, <1>8 DEF PageInv, AnnounceInv
    <3>2. \A i \in Places : Op(i) # "visibleChanged"
      BY <1>1, <3>1 DEF Tells
    <3> QED
      BY <3>2 DEF PageInv, AnnounceInv
  <2> QED
    BY <1>1, <1>3, <1>5, <1>8, <2>1, AnnounceKept DEF PageInv
<1> QED
  BY <1>4, <1>6, <1>7, <1>9, <1>10 DEF PageInv

-----------------------------------------------------------------------------
(* updateRecommendedState, the slots and the other steps. *)
LEMMA Recommends == ASSUME TypeOK PROVE determineRecommendedState \in LifecycleState
BY DEF TypeOK, determineRecommendedState, LifecycleState

\* Update keeps the invariant.
LEMMA UpdateKeeps == ASSUME PageInv, updateRecommendedState PROVE PageInv'
<1>0. /\ Do("updateRecommendedState") /\ recommended' = determineRecommendedState /\ Then(<<>>)
      /\ notices' = IF determineRecommendedState = recommended THEN notices
                    ELSE Append(notices, determineRecommendedState)
      /\ UNCHANGED <<state, visibility, view, loads, activity, announced>>
      /\ past' = past \ {"silent"}
  BY DEF updateRecommendedState
<1>1. Moved(0, 1) /\ 1 \in Places /\ Op(1) = "updateRecommendedState"
  BY <1>0, Popped DEF PageInv, Do, Op
<1>3. \A i \in Places' : ~(i <= 0)
  BY DEF Places
<1>4. TypeOK'
  <2>1. determineRecommendedState \in LifecycleState /\ notices \in Seq(LifecycleState)
    BY Recommends DEF PageInv, TypeOK
  <2>2. notices' \in Seq(LifecycleState) /\ recommended' \in LifecycleState
    BY <1>0, <2>1
  <2> QED
    BY <1>0, <1>1, <2>2 DEF PageInv, TypeOK, Moved, loads, activity
<1>5. /\ determineRecommendedState' = determineRecommendedState
      /\ recommended' = determineRecommendedState'
      /\ "slot" \notin past' => "slot" \notin past
  BY <1>0 DEF determineRecommendedState, Active, visible, loads, activity
<1>6. UpdateInv'
  BY <1>0, <1>1, <1>3, <1>5, UpdatesKept DEF PageInv
<1>7. WakeInv'
  <2>1. state' = state /\ ~Wakes(1)
    BY <1>0, <1>1 DEF Wakes
  <2>2. "slot" \notin past /\ (visible' \/ inspected') => state' = "Active"
    BY <1>0 DEF PageInv, WakeInv, visible, activity
  <2> QED
    BY <1>1, <1>3, <1>5, <2>1, <2>2, WakesKept DEF PageInv
<1>8. /\ HasView' = HasView /\ ~Shows(1) /\ ~Tells(1) /\ Op(1) # "hidden"
      /\ view' = view /\ visibility' = visibility /\ announced' = announced
  BY <1>0, <1>1 DEF HasView, Shows, Tells
<1>9. ViewInv'
  BY <1>1, <1>3, <1>5, <1>8, ViewKept DEF PageInv
<1>10. AnnounceInv'
  BY <1>1, <1>3, <1>5, <1>8, AnnounceKept DEF PageInv
<1> QED
  BY <1>4, <1>6, <1>7, <1>9, <1>10 DEF PageInv

\* A signal, whose slot may start a call.
LEMMA EmitKeeps == ASSUME PageInv, Emit PROVE PageInv'
<1>0. /\ Do("lifecycleStateChanged") \/ Do("visibleChanged")
      /\ ~Idle /\ announced' = IF Do("visibleChanged") THEN Arg ELSE announced
      /\ UNCHANGED <<state, recommended, visibility, view, loads, activity, notices>>
  BY DEF Emit, Do
<1>1. /\ 1 \in Places /\ Head(todo) = todo[1] /\ Op(1) \in {"lifecycleStateChanged", "visibleChanged"}
      /\ announced' = (IF Op(1) = "visibleChanged" THEN todo[1].arg ELSE announced)
      /\ todo[1] \in Steps
  <2>1. 1 \in Places /\ Head(todo) = todo[1] /\ todo[1] \in Steps
    BY <1>0 DEF PageInv, TypeOK, Idle, Places
  <2> QED
    BY <1>0, <2>1 DEF Do, Arg, Op
<1>2. \E d \in {0, 1} :
        /\ Moved(d, 1) /\ past' = IF d = 0 THEN past ELSE past \cup {"slot"}
        /\ \A i \in Places' : i <= d => d = 1 /\ Op(i)' \in {"setLifecycleState", "setVisible"}
  <2>1. CASE Then(<<>>) /\ UNCHANGED past
    <3>1. Moved(0, 1) /\ \A i \in Places' : ~(i <= 0)
      BY <1>0, <2>1, Popped DEF PageInv, Places
    <3> QED
      BY <2>1, <3>1
  <2>2. CASE past' = past \cup {"slot"} /\ \E c \in ApplicationCalls : Then(<<c>>)
    <3>1. PICK c \in ApplicationCalls : Then(<<c>>)
      BY <2>2
    <3>2. c \in Steps /\ c.op \in {"setLifecycleState", "setVisible"}
      BY StepTypes, StepFields DEF ApplicationCalls, SetLifecycleState, SetVisible
    <3>3. Moved(1, 1) /\ Op(1)' = c.op
      BY <1>0, <3>1, <3>2, OneInstead DEF PageInv, Op
    <3>4. \A i \in Places' : i <= 1 => i = 1
      BY DEF Places
    <3> QED
      BY <2>2, <3>2, <3>3, <3>4
  <2> QED
    BY <2>1, <2>2 DEF Emit
<1>3. PICK d \in {0, 1} :
        /\ Moved(d, 1) /\ past' = IF d = 0 THEN past ELSE past \cup {"slot"}
        /\ \A i \in Places' : i <= d => d = 1 /\ Op(i)' \in {"setLifecycleState", "setVisible"}
  BY <1>2
<1>a. d \in 0 .. 3 /\ ("slot" \notin past' => d = 0 /\ past' = past)
  BY <1>3
<1>b. \A i \in Places' : i <= d => d = 1
  BY <1>3
<1>4. TypeOK'
  <2>1. announced' \in Visibility
    <3>1. Op(1) = "visibleChanged" => todo[1].arg \in Visibility
      BY <1>1, StepTypes DEF Op
    <3> QED
      BY <1>1, <3>1 DEF PageInv, TypeOK
  <2>2. past' \subseteq {"slot", "silent"}
    BY <1>3 DEF PageInv, TypeOK
  <2> QED
    BY <1>0, <1>3, <2>1, <2>2 DEF PageInv, TypeOK, Moved, loads, activity
<1>5. /\ determineRecommendedState' = determineRecommendedState /\ ~Updates(1)
      /\ recommended' = recommended
  BY <1>0, <1>1 DEF determineRecommendedState, Active, visible, loads, activity, Updates
<1>6. UpdateInv'
  <2>1. \A i \in Places' : i <= d => Op(i)' # "inspect"
    BY <1>3
  <2>2. "silent" \notin past' => "silent" \notin past
    BY <1>3
  <2> QED
    BY <1>1, <1>3, <1>a, <1>5, <2>1, <2>2, UpdatesKept DEF PageInv
<1>7. WakeInv'
  <2>1. state' = state /\ ~Wakes(1)
    BY <1>0, <1>1 DEF Wakes
  <2>2. "slot" \notin past /\ (visible' \/ inspected') => state' = "Active"
    BY <1>0 DEF PageInv, WakeInv, visible, activity
  <2>3. \A i \in Places' : ~(i <= 0)
    BY DEF Places
  <2> QED
    BY <1>1, <1>3, <1>a, <2>1, <2>2, <2>3, WakesKept DEF PageInv
<1>8. /\ HasView' = HasView /\ ~Shows(1) /\ Op(1) # "hidden"
      /\ view' = view /\ visibility' = visibility
  BY <1>0, <1>1 DEF HasView, Shows
<1>9. ViewInv'
  <2>1. \A i \in Places' : i <= d => Op(i)' # "hidden"
    BY <1>3
  <2> QED
    BY <1>1, <1>3, <1>a, <1>b, <1>8, <2>1, ViewKept DEF PageInv
<1>10. AnnounceInv'
  <2>1. CASE Op(1) = "visibleChanged"
    <3>1. Tells(1)
      BY <2>1 DEF Tells
    <3>2. "slot" \notin past /\ ~HasView => announced' = visibility'
      BY <1>1, <1>8, <2>1 DEF PageInv, AnnounceInv
    <3> QED
      BY <1>1, <1>3, <1>a, <1>b, <1>8, <3>1, <3>2, AnnounceKept DEF PageInv
  <2>2. CASE Op(1) = "lifecycleStateChanged"
    <3>1. ~Tells(1) /\ announced' = announced
      BY <1>1, <2>2 DEF Tells
    <3> QED
      BY <1>1, <1>3, <1>a, <1>b, <1>8, <3>1, AnnounceKept DEF PageInv
  <2> QED
    BY <1>1, <2>1, <2>2
<1> QED
  BY <1>4, <1>6, <1>7, <1>9, <1>10 DEF PageInv

\* The steps that change an input of the recommendation.
LEMMA OtherStepKeeps == ASSUME PageInv, OtherStep PROVE PageInv'
<1>0. /\ Do("inspect") \/ Do("fetch") \/ Do("hidden")
      /\ inspected' = (inspected \/ Do("inspect")) /\ fetching' = (fetching \/ Do("fetch"))
      /\ view' = (IF Do("hidden") THEN "hidden" ELSE view) /\ Then(<<>>) /\ ~Idle
      /\ UNCHANGED <<state, recommended, visibility, loadingState, committed,
                     streams, crashed, busy, kept, told>>
  BY DEF OtherStep, Do
<1>1. /\ Moved(0, 1) /\ 1 \in Places /\ Head(todo) = todo[1]
      /\ Op(1) \in {"inspect", "fetch", "hidden"}
  BY <1>0, Popped DEF PageInv, Do, Op
<1>2. Do("inspect") <=> Op(1) = "inspect"
  BY <1>0, <1>1 DEF Do, Op
<1>a. Do("hidden") <=> Op(1) = "hidden"
  BY <1>0, <1>1 DEF Do, Op
<1>3. \A i \in Places' : ~(i <= 0)
  BY DEF Places
<1>4. TypeOK'
  <2>1. inspected' \in BOOLEAN /\ fetching' \in BOOLEAN
    BY <1>0, Zenon
  <2>2. {fetching, committed, inspected, crashed, busy, kept}' \subseteq BOOLEAN
    BY <1>0, <2>1, Zenon DEF PageInv, TypeOK
  <2>3. view' \in Visibility \cup {"none"}
    BY <1>0 DEF PageInv, TypeOK, Visibility
  <2>4. todo' \in Seq(Steps)
    BY <1>1 DEF Moved
  <2> QED
    BY <1>0, <2>2, <2>3, <2>4 DEF PageInv, TypeOK, told
<1>5. recommended' = recommended /\ past' = past /\ ~Updates(1)
  BY <1>0, <1>1 DEF told, Updates
<1>6. UpdateInv'
  <2>1. CASE Op(1) = "inspect"
    <3>1. \E i \in Places : i > 1 /\ Updates(i)
      BY <1>1, <2>1 DEF PageInv, UpdateInv
    <3> QED
      BY <1>1, <1>3, <1>5, <3>1, UpdatesKept DEF PageInv
  <2>2. CASE Op(1) # "inspect"
    <3>1. inspected' <=> inspected
      BY <1>0, <1>2, <2>2, Zenon
    <3>2. Active' <=> Active
      BY <1>0, <3>1 DEF Active, visible
    <3>3. determineRecommendedState' = determineRecommendedState
      BY <1>0, <3>2 DEF determineRecommendedState
    <3> QED
      BY <1>1, <1>3, <1>5, <3>3, UpdatesKept DEF PageInv
  <2> QED
    BY <2>1, <2>2
<1>7. WakeInv'
  <2>1. state' = state /\ ~Wakes(1)
    BY <1>0, <1>1 DEF Wakes
  <2>2. ASSUME "slot" \notin past, visible' \/ inspected' PROVE state' = "Active"
    <3>1. visible \/ inspected \/ Op(1) = "inspect"
      <4>1. visible' <=> visible
        BY <1>0 DEF visible
      <4> QED
        BY <1>0, <1>2, <2>2, <4>1, Zenon
    <3>2. visible \/ inspected => state = "Active"
      BY <2>2 DEF PageInv, WakeInv
    <3>3. Op(1) = "inspect" => state = "Active"
      <4>1. \A j \in Places : ~(j < 1)
        BY DEF Places
      <4> QED
        BY <1>1, <2>2, <4>1 DEF PageInv, WakeInv
    <3> QED
      BY <2>1, <3>1, <3>2, <3>3
  <2> QED
    BY <1>1, <1>3, <1>5, <2>1, <2>2, WakesKept DEF PageInv
<1>8. /\ ~Shows(1) /\ ~Tells(1) /\ visibility' = visibility /\ announced' = announced
      /\ view' = IF Op(1) = "hidden" THEN "hidden" ELSE view
  BY <1>0, <1>1, <1>a DEF Shows, Tells, told
<1>9. HasView' = HasView
  <2>1. Op(1) = "hidden" => HasView
    BY <1>1 DEF PageInv, ViewInv
  <2> QED
    BY <1>8, <2>1 DEF HasView
<1>10. ViewInv'
  BY <1>1, <1>3, <1>5, <1>8, <1>9, ViewKept DEF PageInv
<1>11. AnnounceInv'
  BY <1>1, <1>3, <1>5, <1>8, <1>9, AnnounceKept DEF PageInv
<1> QED
  BY <1>4, <1>6, <1>7, <1>10, <1>11 DEF PageInv

-----------------------------------------------------------------------------
(* What starts when no call is in progress. *)
LEMMA AtRest ==
  ASSUME PageInv, Idle
  PROVE  /\ "silent" \notin past => recommended = determineRecommendedState
         /\ "slot" \notin past => /\ visible \/ inspected => state = "Active"
                                  /\ HasView => visibility = view
                                  /\ ~HasView => announced = visibility
<1>1. Places = {}
  BY DEF Places, Idle
<1> QED
  BY <1>1 DEF PageInv, UpdateInv, WakeInv, ViewInv, AnnounceInv

(* A change that is followed by an update, or needs none. *)
LEMMA ChangeKeeps ==
  ASSUME PageInv, Idle, TypeOK', UNCHANGED <<state, recommended, visibility, view, announced>>,
         inspected' => inspected, past \subseteq past',
         \/ todo' = <<Update>>
         \/ /\ todo' = <<>>
            /\ "silent" \notin past' => determineRecommendedState' = determineRecommendedState
  PROVE  PageInv'
<1>1. /\ \A i \in Places' : Op(i)' = "updateRecommendedState"
      /\ Places' = {} =>
           ("silent" \notin past' => determineRecommendedState' = determineRecommendedState)
  <2>1. CASE todo' = <<Update>>
    <3>1. Places' = {1} /\ Op(1)' = Update.op
      BY <2>1 DEF Places, Op
    <3>2. Update.op = "updateRecommendedState"
      BY StepFields DEF Update
    <3> QED
      BY <3>1, <3>2
  <2>2. CASE /\ todo' = <<>>
             /\ "silent" \notin past' => determineRecommendedState' = determineRecommendedState
    <3>1. Places' = {}
      BY <2>2 DEF Places
    <3> QED
      BY <2>2, <3>1
  <2> QED
    BY <2>1, <2>2
<1>2. UpdateInv'
  <2>1. "silent" \notin past' => recommended = determineRecommendedState
    BY AtRest
  <2>2. \A i \in Places' : Updates(i)' /\ Op(i)' # "inspect"
    BY <1>1 DEF Updates
  <2> QED
    BY <1>1, <2>1, <2>2 DEF UpdateInv
<1>3. WakeInv'
  <2>1. "slot" \notin past' => (visible' \/ inspected' => state' = "Active")
    BY AtRest DEF visible
  <2> QED
    BY <1>1, <2>1 DEF WakeInv
<1>4. ViewInv'
  <2>1. "slot" \notin past' /\ HasView' => visibility' = view'
    BY AtRest DEF HasView
  <2>2. \A i \in Places' : ~Shows(i)' /\ Op(i)' # "hidden"
    BY <1>1 DEF Shows
  <2> QED
    BY <2>1, <2>2 DEF ViewInv, LastShow
<1>5. AnnounceInv'
  <2>1. "slot" \notin past' /\ ~HasView' => announced' = visibility'
    BY AtRest DEF HasView
  <2>2. \A i \in Places' : ~Tells(i)' /\ Op(i)' \notin {"wasShown", "visibleChanged"}
    BY <1>1 DEF Tells
  <2> QED
    BY <2>1, <2>2 DEF AnnounceInv
<1> QED
  BY <1>2, <1>3, <1>4, <1>5 DEF PageInv

(* A call that does not show or hide a page with a view. *)
LEMMA CallKeeps ==
  ASSUME PageInv, Idle,
         UNCHANGED <<state, recommended, visibility, view, loads, activity, announced, past>>,
         notices' \in Seq(LifecycleState), todo' \in Seq(Steps),
         \A i \in Places' :
           \/ Op(i)' \in {"setLifecycleState", "fetch", "inspect", "updateRecommendedState"}
           \/ ~HasView /\ Op(i)' = "setVisible" /\ Len(todo') = 1,
         \A i \in Places' : Op(i)' = "inspect" =>
           /\ \E j \in Places' : j > i /\ Updates(j)'
           /\ \E j \in Places' : j < i /\ Wakes(j)'
           /\ \A j \in Places' : j < i => ~Sleeps(j)'
  PROVE  PageInv'
<1>1. TypeOK'
  BY DEF PageInv, TypeOK, loads, activity
<1>2. UpdateInv'
  <2>1. determineRecommendedState' = determineRecommendedState
    BY DEF determineRecommendedState, Active, visible, loads, activity
  <2>2. "silent" \notin past' => recommended' = determineRecommendedState'
    BY <2>1, AtRest
  <2> QED
    BY <2>2 DEF UpdateInv
<1>3. WakeInv'
  <2>1. "slot" \notin past' => (visible' \/ inspected' => state' = "Active")
    BY AtRest DEF visible, activity
  <2>2. \A i \in Places' : Op(i)' # "wasShown"
    OBVIOUS
  <2> QED
    BY <2>1, <2>2 DEF WakeInv
<1>4. ViewInv'
  <2>1. "slot" \notin past' /\ HasView' => visibility' = view'
    BY AtRest DEF HasView
  <2>2. \A i \in Places' : (HasView' => ~Shows(i)') /\ Op(i)' # "hidden"
    BY DEF Shows, HasView
  <2> QED
    BY <2>1, <2>2 DEF ViewInv, LastShow
<1>5. AnnounceInv'
  <2>1. "slot" \notin past' /\ ~HasView' => announced' = visibility'
    BY AtRest DEF HasView
  <2>2. \A i \in Places' : Op(i)' \notin {"wasShown", "visibleChanged"}
    OBVIOUS
  <2>3. ASSUME NEW i \in Places', NEW j \in Places', Tells(i)', Tells(j)' PROVE i = j
    <3>1. Len(todo') = 1
      BY <2>3 DEF Tells
    <3> QED
      BY <3>1 DEF Places
  <2> QED
    BY <2>1, <2>2, <2>3 DEF AnnounceInv
<1> QED
  BY <1>1, <1>2, <1>3, <1>4, <1>5 DEF PageInv

\* The application starts a call.
LEMMA OneCallKeeps ==
  ASSUME PageInv, Idle,
         UNCHANGED <<state, recommended, visibility, view, loads, activity, announced, past>>,
         notices' \in Seq(LifecycleState), NEW c \in ApplicationCalls, todo' = <<c>>,
         HasView => c.op = "setLifecycleState"
  PROVE  PageInv'
<1>1. c \in Steps /\ c.op \in {"setLifecycleState", "setVisible"}
  BY StepTypes, StepFields DEF ApplicationCalls, SetLifecycleState, SetVisible
<1>2. todo' \in Seq(Steps) /\ Len(todo') = 1 /\ todo'[1] = c
  BY <1>1
<1>3. \A i \in Places' : Op(i)' = c.op
  BY <1>2 DEF Places, Op
<1>4. \A i \in Places' :
        \/ Op(i)' \in {"setLifecycleState", "fetch", "inspect", "updateRecommendedState"}
        \/ ~HasView /\ Op(i)' = "setVisible" /\ Len(todo') = 1
  BY <1>1, <1>2, <1>3
<1>5. \A i \in Places' : Op(i)' # "inspect"
  BY <1>1, <1>3
<1> QED
  BY <1>2, <1>4, <1>5, CallKeeps

(* Call, Load, Deliver and OpenDevTools. *)
LEMMA CallsKeep ==
  ASSUME PageInv, Call \/ Load \/ Deliver \/ OpenDevTools
  PROVE  PageInv'
<1> DEFINE w == SetLifecycleState("Active")
           f == Step("fetch", "none")
           n == Step("inspect", "none")
<1>0. /\ w \in Steps /\ w.op = "setLifecycleState" /\ w.arg = "Active"
      /\ f \in Steps /\ f.op = "fetch" /\ n \in Steps /\ n.op = "inspect"
      /\ Update \in Steps /\ Update.op = "updateRecommendedState"
  BY StepTypes, StepFields DEF LifecycleState, SetLifecycleState, Update
<1>1. CASE Call
  <2>1. PICK c \in ApplicationCalls : (HasView => c.op = "setLifecycleState") /\ Starts(<<c>>)
    BY <1>1 DEF Call
  <2>2. /\ UNCHANGED <<state, recommended, visibility, view, loads, activity, announced, past>>
        /\ notices' \in Seq(LifecycleState) /\ Idle /\ todo' = <<c>>
    BY <1>1, <2>1 DEF Call, Starts, told, PageInv, TypeOK
  <2> QED
    BY <2>1, <2>2, OneCallKeeps
<1>2. CASE Deliver
  <2> DEFINE c == SetLifecycleState(Head(notices))
  <2>1. notices \in Seq(LifecycleState) /\ notices # <<>>
    BY <1>2 DEF Deliver, PageInv, TypeOK
  <2>2. Head(notices) \in LifecycleState /\ Tail(notices) \in Seq(LifecycleState)
    BY <2>1
  <2>3. c \in ApplicationCalls /\ c.op = "setLifecycleState"
    BY <2>2, StepFields DEF ApplicationCalls, SetLifecycleState
  <2>4. /\ UNCHANGED <<state, recommended, visibility, view, loads, activity, announced, past>>
        /\ notices' \in Seq(LifecycleState) /\ Idle /\ todo' = <<c>>
    BY <1>2, <2>2 DEF Deliver
  <2> HIDE DEF c
  <2> QED
    BY <2>3, <2>4, OneCallKeeps
<1>3. CASE Load
  <2>1. /\ UNCHANGED <<state, recommended, visibility, view, loads, activity, announced, past>>
        /\ notices' \in Seq(LifecycleState) /\ Idle /\ todo' = <<w, f>>
    BY <1>3 DEF Load, Starts, told, PageInv, TypeOK
  <2> HIDE DEF w, f
  <2>2. todo' \in Seq(Steps) /\ Len(todo') = 2 /\ todo'[1] = w /\ todo'[2] = f
    BY <1>0, <2>1
  <2>3. \A i \in Places' : Op(i)' \in {"setLifecycleState", "fetch"}
    <3>1. \A i \in Places' : i = 1 \/ i = 2
      BY <2>2 DEF Places
    <3> QED
      BY <1>0, <2>2, <3>1 DEF Op
  <2> QED
    BY <2>1, <2>2, <2>3, CallKeeps
<1>4. CASE OpenDevTools
  <2>1. /\ UNCHANGED <<state, recommended, visibility, view, loads, activity, announced, past>>
        /\ notices' \in Seq(LifecycleState) /\ Idle /\ todo' = <<w, n, Update>>
    BY <1>4 DEF OpenDevTools, Starts, told, PageInv, TypeOK
  <2> HIDE DEF w, n
  <2>2. todo' \in Seq(Steps) /\ Len(todo') = 3 /\ todo'[1] = w /\ todo'[2] = n /\ todo'[3] = Update
    BY <1>0, <2>1
  <2>3. \A i \in Places' : i = 1 \/ i = 2 \/ i = 3
    BY <2>2 DEF Places
  <2>4. {1, 2, 3} \subseteq Places' /\ Wakes(1)' /\ ~Sleeps(1)' /\ Updates(3)'
        /\ Op(1)' = "setLifecycleState" /\ Op(2)' = "inspect" /\ Op(3)' = "updateRecommendedState"
    BY <1>0, <2>2 DEF Places, Wakes, Sleeps, Updates, Op
  <2>5. \A i \in Places' : Op(i)' \in {"setLifecycleState", "inspect", "updateRecommendedState"}
    BY <2>3, <2>4
  <2>6. \A i \in Places' : Op(i)' = "inspect" => i = 2
    BY <2>3, <2>4
  <2>7. /\ \E j \in Places' : j > 2 /\ Updates(j)'
        /\ \E j \in Places' : j < 2 /\ Wakes(j)'
        /\ \A j \in Places' : j < 2 => ~Sleeps(j)'
    <3>1. \A j \in Places' : j < 2 => j = 1
      BY <2>3
    <3> QED
      BY <2>4, <3>1
  <2> QED
    BY <2>1, <2>2, <2>5, <2>6, <2>7, CallKeeps
<1> QED
  BY <1>1, <1>2, <1>3, <1>4

\* The view is shown, hidden or closed.
LEMMA ViewEventKeeps == ASSUME PageInv, ViewEvent PROVE PageInv'
<1> DEFINE h == SetVisible("hidden")
           d == SetLifecycleState("Discarded")
           m == Step("hidden", "none")
<1>0. /\ HasView /\ Idle /\ HasView'
      /\ UNCHANGED <<state, recommended, visibility, loads, activity, told>>
      /\ \/ view' \in Visibility /\ todo' = <<SetVisible(view')>>
         \/ view' = view /\ todo' = <<h, d, m, h>>
  BY DEF ViewEvent, Starts, HasView, Visibility
<1>a. /\ h \in Steps /\ h.op = "setVisible" /\ h.arg = "hidden"
      /\ d \in Steps /\ d.op = "setLifecycleState" /\ m \in Steps /\ m.op = "hidden"
  BY StepTypes, StepFields DEF LifecycleState, Visibility, SetLifecycleState, SetVisible
<1> HIDE DEF h, d, m
<1>1. /\ todo' \in Seq(Steps) /\ \A i \in Places' : Op(i)' \in {"setVisible", "setLifecycleState", "hidden"}
      /\ \A i \in Places' : Op(i)' = "hidden" => \E j \in Places' : j > i /\ Shows(j)'
      /\ \A i \in Places' : LastShow(i)' => Shown(i)' = WillBe'
      /\ \E i \in Places' : Shows(i)'
  <2>1. CASE view' \in Visibility /\ todo' = <<SetVisible(view')>>
    <3> DEFINE s == SetVisible(view')
    <3>1. s \in Steps /\ s.op = "setVisible" /\ s.arg = view' /\ todo' = <<s>>
      BY <2>1, StepTypes, StepFields DEF SetVisible
    <3> HIDE DEF s
    <3>2. todo' \in Seq(Steps) /\ Len(todo') = 1 /\ todo'[1] = s
      BY <3>1
    <3>3. 1 \in Places' /\ \A i \in Places' : i = 1
      BY <3>2 DEF Places
    <3>4. Op(1)' = "setVisible" /\ Shows(1)' /\ Shown(1)' = view'
      BY <3>1, <3>2 DEF Op, Shows, Shown
    <3>5. \A i \in Places' : Op(i)' = "setVisible"
      BY <3>3, <3>4
    <3>6. WillBe' = view'
      BY <3>5 DEF WillBe
    <3> QED
      BY <3>2, <3>3, <3>4, <3>5, <3>6
  <2>2. CASE todo' = <<h, d, m, h>>
    <3>1. /\ todo' \in Seq(Steps) /\ Len(todo') = 4
          /\ todo'[1] = h /\ todo'[2] = d /\ todo'[3] = m /\ todo'[4] = h
      BY <1>a, <2>2
    <3>2. {1, 2, 3, 4} \subseteq Places' /\ \A i \in Places' : i = 1 \/ i = 2 \/ i = 3 \/ i = 4
      BY <3>1 DEF Places
    <3>3. /\ Op(1)' = "setVisible" /\ Op(2)' = "setLifecycleState" /\ Op(3)' = "hidden"
          /\ Op(4)' = "setVisible" /\ Shown(1)' = "hidden" /\ Shown(4)' = "hidden" /\ Shows(4)'
      BY <1>a, <3>1 DEF Op, Shows, Shown
    <3>4. \A i \in Places' : Op(i)' \in {"setVisible", "setLifecycleState", "hidden"}
      BY <3>2, <3>3
    <3>5. \A i \in Places' : Op(i)' = "hidden" => i = 3
      BY <3>2, <3>3
    <3>6. \E j \in Places' : j > 3 /\ Shows(j)'
      BY <3>2, <3>3
    <3>7. WillBe' = "hidden"
      BY <3>2, <3>3 DEF WillBe
    <3>8. \A i \in Places' : Shows(i)' => Shown(i)' = "hidden"
      <4>1. ~Shows(2)' /\ ~Shows(3)'
        BY <3>3 DEF Shows
      <4> QED
        BY <3>2, <3>3, <4>1
    <3>9. \A i \in Places' : LastShow(i)' => Shown(i)' = WillBe'
      BY <3>7, <3>8 DEF LastShow
    <3> QED
      BY <3>1, <3>2, <3>3, <3>4, <3>5, <3>6, <3>9
  <2> QED
    BY <1>0, <2>1, <2>2
<1>2. TypeOK'
  <2>1. view' \in Visibility \cup {"none"}
    BY <1>0 DEF PageInv, TypeOK
  <2> QED
    BY <1>0, <1>1, <2>1 DEF PageInv, TypeOK, loads, activity, told
<1>3. UpdateInv'
  <2>1. determineRecommendedState' = determineRecommendedState /\ past' = past /\ recommended' = recommended
    BY <1>0 DEF determineRecommendedState, Active, visible, loads, activity, told
  <2>2. "silent" \notin past' => recommended' = determineRecommendedState'
    BY <1>0, <2>1, AtRest
  <2>3. \A i \in Places' : Op(i)' # "inspect"
    BY <1>1
  <2> QED
    BY <2>2, <2>3 DEF UpdateInv
<1>4. WakeInv'
  <2>1. "slot" \notin past' => (visible' \/ inspected' => state' = "Active")
    BY <1>0, AtRest DEF visible, activity, told
  <2>2. \A i \in Places' : Op(i)' \notin {"wasShown", "inspect"}
    BY <1>1
  <2> QED
    BY <2>1, <2>2 DEF WakeInv
<1>5. ViewInv'
  BY <1>0, <1>1 DEF ViewInv
<1>6. AnnounceInv'
  BY <1>0 DEF AnnounceInv
<1> QED
  BY <1>2, <1>3, <1>4, <1>5, <1>6 DEF PageInv

(* Loads, renderers, streams, DevTools that close, and silent activity.    *)
LEMMA ChangesKeep ==
  ASSUME PageInv,
         \/ PrimaryPageChanged \/ DidStopLoading \/ DidFailLoad \/ RenderProcessGone
         \/ AddDevices \/ RemoveDevices \/ CloseDevTools \/ SilentActivity
  PROVE  PageInv'
<1> USE DEF PageInv
<1>1. CASE PrimaryPageChanged
  <2>1. /\ Idle /\ committed' = TRUE /\ crashed' = FALSE /\ kept' \in BOOLEAN
        /\ UNCHANGED <<state, recommended, visibility, view, fetching, streams, inspected, busy,
                       notices, announced>>
        /\ \/ /\ loadingState' = "Loading" /\ past' = past
              /\ todo' = (IF loadingState = "Loading" THEN <<>> ELSE <<Update>>)
           \/ loadingState' = loadingState /\ past' = past \cup {"silent"} /\ todo' = <<>>
    BY <1>1 DEF PrimaryPageChanged, LoadingStateIs, Starts
  <2>2. loadingState = "Loading" /\ loadingState' = "Loading" =>
          determineRecommendedState' = determineRecommendedState
    <3>1. loadingState = "Loading" /\ loadingState' = "Loading" => Active /\ Active'
      BY DEF Active
    <3> QED
      BY <2>1, <3>1 DEF determineRecommendedState
  <2>3. TypeOK'
    <3>1. {fetching, committed, inspected, crashed, busy, kept}' \subseteq BOOLEAN
      BY <2>1, Zenon DEF TypeOK
    <3>2. todo' \in Seq(Steps)
      <4>1. Update \in Steps
        BY StepTypes DEF Update
      <4>2. <<>> \in Seq(Steps) /\ <<Update>> \in Seq(Steps)
        BY <4>1
      <4>3. todo' = <<>> \/ todo' = <<Update>>
        BY <2>1
      <4> QED
        BY <4>2, <4>3
    <3>3. past' \subseteq {"slot", "silent"} /\ loadingState' \in {"Unloaded", "Loading", "Loaded"}
      BY <2>1 DEF TypeOK
    <3> QED
      BY <2>1, <3>1, <3>2, <3>3 DEF TypeOK
  <2>4. (inspected' => inspected) /\ past \subseteq past' /\ announced' = announced
    BY <2>1
  <2>5. \/ todo' = <<Update>>
        \/ /\ todo' = <<>>
           /\ "silent" \notin past' => determineRecommendedState' = determineRecommendedState
    BY <2>1, <2>2
  <2> QED
    BY <2>1, <2>3, <2>4, <2>5, ChangeKeeps
<1>2. CASE DidStopLoading \/ DidFailLoad
  <2>1. /\ Idle /\ loadingState' = "Loaded" /\ todo' = (IF loadingState = "Loaded" THEN <<>> ELSE <<Update>>)
        /\ fetching' \in BOOLEAN
        /\ UNCHANGED <<state, recommended, visibility, view, committed, activity, told>>
    BY <1>2, Zenon DEF DidStopLoading, DidFailLoad, LoadingStateIs, Starts, TypeOK
  <2>2. loadingState = "Loaded" => determineRecommendedState' = determineRecommendedState
    BY <2>1 DEF determineRecommendedState, Active, visible, activity
  <2>3. TypeOK'
    <3>1. {fetching, committed, inspected, crashed, busy, kept}' \subseteq BOOLEAN
      BY <2>1, Zenon DEF TypeOK, activity
    <3>2. todo' \in Seq(Steps)
      BY <2>1, StepTypes DEF Update
    <3> QED
      BY <2>1, <3>1, <3>2 DEF TypeOK, told, activity
  <2>4. (inspected' => inspected) /\ past' = past /\ announced' = announced
    BY <2>1 DEF told, activity
  <2>5. \/ todo' = <<Update>>
        \/ todo' = <<>> /\ determineRecommendedState' = determineRecommendedState
    BY <2>1, <2>2
  <2> QED
    BY <2>1, <2>3, <2>4, <2>5, ChangeKeeps
<1>3. CASE RenderProcessGone
  <2>1. /\ Idle /\ loadingState' = "Unloaded" /\ todo' = (IF loadingState = "Unloaded" THEN <<>> ELSE <<Update>>)
        /\ crashed' = TRUE
        /\ UNCHANGED <<state, recommended, visibility, view, fetching, committed,
                       streams, inspected, busy, kept, told>>
    BY <1>3 DEF RenderProcessGone, LoadingStateIs, Starts
  <2>2. loadingState = "Unloaded" => determineRecommendedState' = determineRecommendedState
    <3>1. loadingState = "Unloaded" => Active /\ Active'
      BY <2>1 DEF Active
    <3> QED
      BY <2>1, <3>1 DEF determineRecommendedState
  <2>3. TypeOK'
    <3>1. {fetching, committed, inspected, crashed, busy, kept}' \subseteq BOOLEAN
      BY <2>1, Zenon DEF TypeOK
    <3>2. todo' \in Seq(Steps)
      BY <2>1, StepTypes DEF Update
    <3> QED
      BY <2>1, <3>1, <3>2 DEF TypeOK, told
  <2>4. (inspected' => inspected) /\ past' = past /\ announced' = announced
    BY <2>1 DEF told
  <2>5. \/ todo' = <<Update>>
        \/ todo' = <<>> /\ determineRecommendedState' = determineRecommendedState
    BY <2>1, <2>2
  <2> QED
    BY <2>1, <2>3, <2>4, <2>5, ChangeKeeps
<1>4. CASE AddDevices \/ RemoveDevices
  <2>1. /\ Idle /\ todo' = <<Update>>
        /\ UNCHANGED <<state, recommended, visibility, view, loads, inspected, crashed, busy, kept, told>>
    BY <1>4 DEF AddDevices, RemoveDevices, Starts
  <2>2. streams' \in 0 .. MaxStreams
    <3>1. streams \in 0 .. MaxStreams /\ MaxStreams \in Nat
      BY PageConstants DEF TypeOK
    <3> QED
      BY <1>4, <3>1 DEF AddDevices, RemoveDevices, DelegateStreams
  <2>3. TypeOK'
    <3>1. todo' \in Seq(Steps)
      BY <2>1, StepTypes DEF Update
    <3> QED
      BY <2>1, <2>2, <3>1 DEF TypeOK, told, loads
  <2>4. (inspected' => inspected) /\ past' = past /\ announced' = announced
    BY <2>1 DEF told
  <2> QED
    BY <2>1, <2>3, <2>4, ChangeKeeps
<1>5. CASE CloseDevTools
  <2>1. /\ Idle /\ todo' = <<Update>> /\ inspected' = FALSE
        /\ UNCHANGED <<state, recommended, visibility, view, loads, streams, crashed, busy, kept, told>>
    BY <1>5 DEF CloseDevTools, Starts
  <2>2. TypeOK'
    <3>1. {fetching, committed, inspected, crashed, busy, kept}' \subseteq BOOLEAN
      BY <2>1, Zenon DEF TypeOK, loads
    <3>2. todo' \in Seq(Steps)
      BY <2>1, StepTypes DEF Update
    <3> QED
      BY <2>1, <3>1, <3>2 DEF TypeOK, told, loads
  <2>3. (inspected' => inspected) /\ past' = past /\ announced' = announced
    BY <2>1 DEF told
  <2> QED
    BY <2>1, <2>2, <2>3, ChangeKeeps
<1>6. CASE SilentActivity
  <2>1. /\ Idle /\ state = "Active"
        /\ \/ kept' = TRUE /\ UNCHANGED <<busy, past>>
           \/ busy' = ~busy /\ past' = past \cup {"silent"} /\ UNCHANGED kept
        /\ UNCHANGED <<state, recommended, visibility, view, loads, streams, inspected, crashed,
                       notices, announced, todo>>
    BY <1>6 DEF SilentActivity
  <2>2. "silent" \notin past' => determineRecommendedState' = determineRecommendedState
    BY <2>1 DEF determineRecommendedState, Active, visible, loads
  <2>3. TypeOK'
    <3>1. busy' \in BOOLEAN /\ kept' \in BOOLEAN
      BY <2>1, Zenon DEF TypeOK
    <3>2. {fetching, committed, inspected, crashed, busy, kept}' \subseteq BOOLEAN
      BY <2>1, <3>1, Zenon DEF TypeOK, loads
    <3>3. past' \subseteq {"slot", "silent"}
      BY <2>1 DEF TypeOK
    <3> QED
      BY <2>1, <3>2, <3>3 DEF TypeOK, loads
  <2>4. (inspected' => inspected) /\ past \subseteq past' /\ todo' = <<>>
    BY <2>1 DEF Idle
  <2> QED
    BY <2>1, <2>2, <2>3, <2>4, ChangeKeeps
<1> QED
  BY <1>1, <1>2, <1>3, <1>4, <1>5, <1>6

-----------------------------------------------------------------------------
\* No call is in progress.
LEMMA InitiallyInv == Init => PageInv
<1> SUFFICES ASSUME Init PROVE PageInv
  OBVIOUS
<1>1. TypeOK
  <2>1. {fetching, committed, inspected, crashed, busy, kept} \subseteq BOOLEAN
    BY Zenon DEF Init
  <2> QED
    BY <2>1, PageConstants DEF Init, TypeOK, LifecycleState, Visibility, determineLoadingState
<1>2. Places = {}
  BY DEF Places, Init
<1>3. UpdateInv
  BY <1>2 DEF UpdateInv, Init, determineRecommendedState, Active, determineLoadingState
<1>4. WakeInv
  BY <1>2 DEF WakeInv, Init
<1>5. ViewInv
  BY <1>2 DEF ViewInv, Init, HasView
<1>6. AnnounceInv
  BY <1>2 DEF AnnounceInv, Init
<1> QED
  BY <1>1, <1>3, <1>4, <1>5, <1>6 DEF PageInv

\* Every step keeps the invariant.
LEMMA StepKeepsInv == PageInv /\ [Next]_vars => PageInv'
<1> SUFFICES ASSUME PageInv, [Next]_vars PROVE PageInv'
  OBVIOUS
<1>1. CASE Proceed
  BY <1>1, RefuseKeeps, FreezeKeeps, DiscardKeeps, UndiscardKeeps, ShowKeeps, WasShownKeeps,
     HideKeeps, SameVisibilityKeeps, UpdateKeeps, EmitKeeps, OtherStepKeeps DEF Proceed
<1>2. CASE Call \/ Load \/ Deliver \/ OpenDevTools
  BY <1>2, CallsKeep
<1>3. CASE ViewEvent
  BY <1>3, ViewEventKeeps
<1>4. CASE \/ PrimaryPageChanged \/ DidStopLoading \/ DidFailLoad \/ RenderProcessGone
           \/ AddDevices \/ RemoveDevices \/ CloseDevTools \/ SilentActivity
  BY <1>4, ChangesKeep
<1>5. CASE UNCHANGED vars
  <2>1. UNCHANGED <<state, recommended, visibility, view, fetching, loadingState, committed,
                    streams, inspected, crashed, busy, kept, notices, announced, past, todo>>
    BY <1>5 DEF vars, loads, activity, told
  <2>2. TypeOK'
    BY <2>1 DEF PageInv, TypeOK
  <2>3. Places' = Places /\ \A i : Op(i)' = Op(i) /\ (todo[i].arg)' = todo[i].arg
    BY <2>1 DEF Places, Op
  <2>4. determineRecommendedState' = determineRecommendedState
    BY <2>1 DEF determineRecommendedState, Active, visible
  <2>5. UpdateInv'
    BY <2>1, <2>3, <2>4 DEF PageInv, UpdateInv, Updates
  <2>6. WakeInv'
    BY <2>1, <2>3 DEF PageInv, WakeInv, Wakes, Sleeps, visible
  <2>7. ViewInv'
    BY <2>1, <2>3 DEF PageInv, ViewInv, LastShow, Shows, Shown, WillBe, HasView
  <2>8. AnnounceInv'
    BY <2>1, <2>3 DEF PageInv, AnnounceInv, Tells, HasView
  <2> QED
    BY <2>2, <2>5, <2>6, <2>7, <2>8 DEF PageInv
<1> QED
  BY <1>1, <1>2, <1>3, <1>4, <1>5 DEF Next

(* The strengthening is an invariant. *)
THEOREM PageInvariant == Spec => []PageInv
<1>1. Init => PageInv
  BY InitiallyInv
<1>2. PageInv /\ [Next]_vars => PageInv'
  BY StepKeepsInv
<1> QED
  BY <1>1, <1>2, PTL DEF Spec

(* Every variable keeps its type: streams never become negative or exceed  *)
(* their bound, and each step in progress carries the argument of its kind.*)
THEOREM PageTypes == Spec => []TypeOK
<1>1. PageInv => TypeOK
  BY DEF PageInv
<1> QED
  BY <1>1, PageInvariant, PTL

(* Whenever no call is in progress the recommended state is the one that   *)
(* the page's activity calls for, whatever slots call, if none of it has   *)
(* changed silently since the last update.                                 *)
THEOREM RecommendationIsCurrent == Spec => []RecommendationCurrent
<1>1. PageInv => RecommendationCurrent
  BY AtRest DEF RecommendationCurrent
<1> QED
  BY <1>1, PageInvariant, PTL

(* A visible or inspected page is active whenever no call is in progress,  *)
(* if no slot has called.                                                  *)
THEOREM AwakeWhenHeld == Spec => []AwakeWhileHeld
<1>1. PageInv => AwakeWhileHeld
  BY AtRest DEF AwakeWhileHeld
<1> QED
  BY <1>1, PageInvariant, PTL

(* visibleChanged announces a change for a page without a view, and a page *)
(* with one is visible exactly while the view is shown.                    *)
THEOREM ShownAsAnnounced == Spec => []VisibleAsShown
<1>1. ASSUME PageInv PROVE VisibleChangedOnce
  <2> SUFFICES ASSUME ~HasView, "slot" \notin past, Do("visibleChanged") PROVE Arg # announced
    BY DEF VisibleChangedOnce, NoVisibleRepeat
  <2>1. todo \in Seq(Steps) /\ todo # <<>>
    BY <1>1 DEF PageInv, TypeOK, Do, Idle
  <2>2. 1 \in Places /\ Head(todo) = todo[1]
    BY <2>1 DEF Places
  <2>3. Op(1) = "visibleChanged" /\ Arg = todo[1].arg
    BY <2>2 DEF Do, Arg, Op
  <2> QED
    BY <1>1, <2>2, <2>3 DEF PageInv, AnnounceInv
<1>2. ASSUME PageInv PROVE VisibleWithView
  <2> SUFFICES ASSUME HasView, "slot" \notin past, Idle PROVE visible <=> view = "shown"
    BY DEF VisibleWithView
  <2>1. visibility = view
    BY <1>2, AtRest
  <2> QED
    BY <2>1 DEF visible
<1>3. PageInv => VisibleAsShown
  BY <1>1, <1>2 DEF VisibleAsShown
<1> QED
  BY <1>3, PageInvariant, PTL
=============================================================================
