---------------------- MODULE NativeOutputDeviceProofs ----------------------
(***************************************************************************)
(* The invariants of NativeOutputDevice for every set of buffers and       *)
(* shapes and any number of frames, and that the device implements the     *)
(* safety part of FrameStream.                                             *)
(***************************************************************************)
EXTENDS NativeOutputDevice, TLAPS

USE DEF vars, threads, roles, access, stamps, scene, flags, data

(* The four task queues the render thread can leave differ, and have the    *)
(* heads and tails their names say.                                         *)
LEMMA TaskQueues ==
  ASSUME NEW x, NEW y, NEW z
  PROVE  /\ <<>> # <<x>> /\ <<>> # <<x, y>> /\ <<z>> # <<x, y>>
         /\ Head(<<x>>) = x /\ Tail(<<x>>) = <<>>
         /\ Head(<<x, y>>) = x /\ Tail(<<x, y>>) = <<y>>
         /\ <<>> \o <<x, y>> = <<x, y>> /\ <<>> \o <<x>> = <<x>>
  OBVIOUS

(* The invariant holds of a device that was just created. *)
LEMMA InitInv == Init => DeviceInv
<1> SUFFICES ASSUME Init PROVE DeviceInv
  OBVIOUS
<1>1. TypeOK
  <2>1. tasks \in Seq(Buffers \cup {"ack"})
    BY DEF Init
  <2>2. bufferShape \in [Buffers -> Shapes]
    BY DEF Init
  <2>3. content \in [Buffers -> Nat] /\ presentCount \in [Buffers -> Nat]
    BY DEF Init
  <2> QED
    BY <2>1, <2>2, <2>3 DEF Init, TypeOK
<1>2. RolesDistinct
  BY DeviceConstants DEF Init, RolesDistinct
<1>3. WriterOwnsBack
  BY DeviceConstants DEF Init, WriterOwnsBack
<1>4. ReaderOwnsFront
  BY DeviceConstants DEF Init, ReaderOwnsFront
<1>5. OneSwapOutstanding
  BY DeviceConstants, TaskQueues DEF Init, OneSwapOutstanding
<1>6. FrontIsLatest
  BY DeviceConstants DEF Init, FrontIsLatest
<1>7. TexturesFreed /\ NodeWrapsFront /\ FenceConsumed
  BY DeviceConstants DEF Init, TexturesFreed, NodeWrapsFront, FenceConsumed
<1> QED
  BY <1>1, <1>2, <1>3, <1>4, <1>5, <1>6, <1>7 DEF DeviceInv

(* A new shape disturbs no buffer that exists.                              *)
LEMMA ReshapeInv == DeviceInv /\ Reshape => DeviceInv'
<1> SUFFICES ASSUME DeviceInv, Reshape PROVE DeviceInv'
  OBVIOUS
<1> USE DeviceConstants DEF DeviceInv, Reshape, GpuIdle
<1>1. TypeOK'
  BY DEF TypeOK
<1>2. RolesDistinct'
  BY DEF TypeOK, RolesDistinct, WriterOwnsBack, OneSwapOutstanding
<1>3. WriterOwnsBack'
  BY DEF TypeOK, RolesDistinct, WriterOwnsBack, OneSwapOutstanding
<1>4. ReaderOwnsFront'
  BY DEF TypeOK, ReaderOwnsFront, OneSwapOutstanding
<1>5. OneSwapOutstanding'
  BY TaskQueues DEF TypeOK, ReaderOwnsFront, WriterOwnsBack, OneSwapOutstanding
<1>6. FrontIsLatest'
  BY TaskQueues DEF TypeOK, RolesDistinct, OneSwapOutstanding, FrontIsLatest
<1>7. TexturesFreed'
  BY DEF TexturesFreed, RolesDistinct
<1>8. NodeWrapsFront'
  BY DEF NodeWrapsFront, ReaderOwnsFront
<1>9. FenceConsumed'
  BY DEF FenceConsumed, RolesDistinct, ReaderOwnsFront, WriterOwnsBack
<1> QED
  BY <1>1, <1>2, <1>3, <1>4, <1>5, <1>6, <1>7, <1>8, <1>9

(* Painting starts on a buffer of the GPU thread alone, new or reused.      *)
LEMMA BeginPaintInv == DeviceInv /\ BeginPaint => DeviceInv'
<1> SUFFICES ASSUME DeviceInv, BeginPaint PROVE DeviceInv'
  OBVIOUS
<1> USE DeviceConstants DEF DeviceInv, BeginPaint, GpuIdle, MayDraw, Live
<1>1. TypeOK'
  <2>1. back' \in Buffers
    BY DEF TypeOK
  <2>0. bufferShape' \in [Buffers -> Shapes]
    <3>1. \/ bufferShape' = bufferShape
          \/ \E b \in Buffers : bufferShape' = [bufferShape EXCEPT ![b] = mshape]
      OBVIOUS
    <3>2. bufferShape \in [Buffers -> Shapes] /\ mshape \in Shapes
      BY DEF TypeOK
    <3> QED
      BY <3>1, <3>2, Zenon
  <2>2. content' \in [Buffers -> Nat] /\ writing' \subseteq Buffers
    BY <2>1 DEF TypeOK
  <2> QED
    BY <2>0, <2>1, <2>2 DEF TypeOK
<1>2. RolesDistinct'
  BY DEF TypeOK, RolesDistinct, WriterOwnsBack, OneSwapOutstanding
<1>3. WriterOwnsBack'
  BY DEF TypeOK, RolesDistinct, WriterOwnsBack, OneSwapOutstanding
<1>4. ReaderOwnsFront'
  BY DEF TypeOK, ReaderOwnsFront, OneSwapOutstanding
<1>5. OneSwapOutstanding'
  BY TaskQueues DEF TypeOK, ReaderOwnsFront, WriterOwnsBack, OneSwapOutstanding
<1>6. FrontIsLatest'
  BY TaskQueues DEF TypeOK, RolesDistinct, OneSwapOutstanding, FrontIsLatest
<1>7. TexturesFreed'
  BY DEF TexturesFreed, RolesDistinct
<1>8. NodeWrapsFront'
  BY DEF NodeWrapsFront, ReaderOwnsFront
<1>9. FenceConsumed'
  BY DEF FenceConsumed, RolesDistinct, ReaderOwnsFront, WriterOwnsBack
<1> QED
  BY <1>1, <1>2, <1>3, <1>4, <1>5, <1>6, <1>7, <1>8, <1>9

(* A failed BeginPaint changes where the GPU thread is and nothing else.    *)
LEMMA BeginPaintFailsInv == DeviceInv /\ BeginPaintFails => DeviceInv'
<1> SUFFICES ASSUME DeviceInv, BeginPaintFails PROVE DeviceInv'
  OBVIOUS
<1> USE DeviceConstants DEF DeviceInv, BeginPaintFails, GpuIdle, MayDraw
<1>1. TypeOK'
  BY DEF TypeOK
<1>2. RolesDistinct'
  BY DEF TypeOK, RolesDistinct, WriterOwnsBack, OneSwapOutstanding
<1>3. WriterOwnsBack'
  BY DEF TypeOK, RolesDistinct, WriterOwnsBack, OneSwapOutstanding
<1>4. ReaderOwnsFront'
  BY DEF TypeOK, ReaderOwnsFront, OneSwapOutstanding
<1>5. OneSwapOutstanding'
  BY TaskQueues DEF TypeOK, ReaderOwnsFront, WriterOwnsBack, OneSwapOutstanding
<1>6. FrontIsLatest'
  BY TaskQueues DEF TypeOK, RolesDistinct, OneSwapOutstanding, FrontIsLatest
<1>7. TexturesFreed'
  BY DEF TexturesFreed, RolesDistinct
<1>8. NodeWrapsFront'
  BY DEF NodeWrapsFront, ReaderOwnsFront
<1>9. FenceConsumed'
  BY DEF FenceConsumed, RolesDistinct, ReaderOwnsFront, WriterOwnsBack
<1> QED
  BY <1>1, <1>2, <1>3, <1>4, <1>5, <1>6, <1>7, <1>8, <1>9

(* EndPaint ends the only write access there is.                            *)
LEMMA EndPaintInv == DeviceInv /\ EndPaint => DeviceInv'
<1> SUFFICES ASSUME DeviceInv, EndPaint PROVE DeviceInv'
  OBVIOUS
<1> USE DeviceConstants DEF DeviceInv, EndPaint
<1>1. TypeOK'
  BY DEF TypeOK
<1>2. RolesDistinct'
  BY DEF TypeOK, RolesDistinct, WriterOwnsBack, OneSwapOutstanding
<1>3. WriterOwnsBack'
  BY DEF TypeOK, RolesDistinct, WriterOwnsBack, OneSwapOutstanding
<1>4. ReaderOwnsFront'
  BY DEF TypeOK, ReaderOwnsFront, OneSwapOutstanding
<1>5. OneSwapOutstanding'
  BY TaskQueues DEF TypeOK, ReaderOwnsFront, WriterOwnsBack, OneSwapOutstanding
<1>6. FrontIsLatest'
  BY TaskQueues DEF TypeOK, RolesDistinct, OneSwapOutstanding, FrontIsLatest
<1>7. TexturesFreed'
  BY DEF TexturesFreed, RolesDistinct
<1>8. NodeWrapsFront'
  BY DEF NodeWrapsFront, ReaderOwnsFront
<1>9. FenceConsumed'
  BY DEF FenceConsumed, RolesDistinct, ReaderOwnsFront, WriterOwnsBack
<1> QED
  BY <1>1, <1>2, <1>3, <1>4, <1>5, <1>6, <1>7, <1>8, <1>9

(* Present moves the painted buffer to the middle, where it waits.          *)
LEMMA PresentInv == DeviceInv /\ Present => DeviceInv'
<1> SUFFICES ASSUME DeviceInv, Present PROVE DeviceInv'
  OBVIOUS
<1> USE DeviceConstants DEF DeviceInv, Present
<1>1. TypeOK'
  BY DEF TypeOK, WriterOwnsBack
<1>2. RolesDistinct'
  BY DEF TypeOK, RolesDistinct, WriterOwnsBack, OneSwapOutstanding
<1>3. WriterOwnsBack'
  BY DEF TypeOK, RolesDistinct, WriterOwnsBack, OneSwapOutstanding
<1>4. ReaderOwnsFront'
  BY DEF TypeOK, ReaderOwnsFront, OneSwapOutstanding
<1>5. OneSwapOutstanding'
  BY TaskQueues DEF TypeOK, ReaderOwnsFront, WriterOwnsBack, OneSwapOutstanding
<1>6. FrontIsLatest'
  BY TaskQueues DEF TypeOK, RolesDistinct, OneSwapOutstanding, FrontIsLatest
<1>7. TexturesFreed'
  BY DEF TexturesFreed, RolesDistinct
<1>8. NodeWrapsFront'
  BY DEF NodeWrapsFront, ReaderOwnsFront
<1>9. FenceConsumed'
  BY DEF FenceConsumed, RolesDistinct, ReaderOwnsFront, WriterOwnsBack
<1> QED
  BY <1>1, <1>2, <1>3, <1>4, <1>5, <1>6, <1>7, <1>8, <1>9

(* Telling the item about a frame touches no buffer.                        *)
LEMMA ReadyToSwapInv == DeviceInv /\ ReadyToSwap => DeviceInv'
<1> SUFFICES ASSUME DeviceInv, ReadyToSwap PROVE DeviceInv'
  OBVIOUS
<1> USE DeviceConstants DEF DeviceInv, ReadyToSwap
<1>1. TypeOK'
  BY DEF TypeOK
<1>2. RolesDistinct'
  BY DEF TypeOK, RolesDistinct, WriterOwnsBack, OneSwapOutstanding
<1>3. WriterOwnsBack'
  BY DEF TypeOK, RolesDistinct, WriterOwnsBack, OneSwapOutstanding
<1>4. ReaderOwnsFront'
  BY DEF TypeOK, ReaderOwnsFront, OneSwapOutstanding
<1>5. OneSwapOutstanding'
  BY TaskQueues DEF TypeOK, ReaderOwnsFront, WriterOwnsBack, OneSwapOutstanding
<1>6. FrontIsLatest'
  BY TaskQueues DEF TypeOK, RolesDistinct, OneSwapOutstanding, FrontIsLatest
<1>7. TexturesFreed'
  BY DEF TexturesFreed, RolesDistinct
<1>8. NodeWrapsFront'
  BY DEF NodeWrapsFront, ReaderOwnsFront
<1>9. FenceConsumed'
  BY DEF FenceConsumed, RolesDistinct, ReaderOwnsFront, WriterOwnsBack
<1> QED
  BY <1>1, <1>2, <1>3, <1>4, <1>5, <1>6, <1>7, <1>8, <1>9

(* While an acknowledgement is posted, its swap is the one outstanding.     *)
LEMMA AckPosted ==
  ASSUME DeviceInv, tasks # <<>>, Head(tasks) = "ack"
  PROVE  /\ tasks = <<"ack">> \/ (readyWithTexture /\ tasks = <<"ack", front>>)
         /\ presented = acked + 1 /\ ~readyToUpdate
<1>1. front # "ack" /\ Head(<<front>>) = front
  BY DeviceConstants DEF DeviceInv, TypeOK
<1>2. tasks # <<front>>
  BY <1>1
<1>3. OneSwapOutstanding
  BY DEF DeviceInv
<1>4. tasks = <<"ack">> \/ (readyWithTexture /\ tasks = <<"ack", front>>)
  BY <1>2, <1>3 DEF OneSwapOutstanding
<1> QED
  BY <1>3, <1>4 DEF OneSwapOutstanding

(* The acknowledgement swaps middle and back while neither is in use.       *)
LEMMA SwapBuffersFinishedInv == DeviceInv /\ SwapBuffersFinished => DeviceInv'
<1> SUFFICES ASSUME DeviceInv, SwapBuffersFinished PROVE DeviceInv'
  OBVIOUS
<1> USE DeviceConstants DEF DeviceInv, SwapBuffersFinished, GpuIdle
<1>1. TypeOK'
  BY DEF TypeOK
<1>2. RolesDistinct'
  BY DEF TypeOK, RolesDistinct, WriterOwnsBack, OneSwapOutstanding
<1>3. WriterOwnsBack'
  BY DEF TypeOK, RolesDistinct, WriterOwnsBack, OneSwapOutstanding
<1>4. ReaderOwnsFront'
  BY DEF TypeOK, ReaderOwnsFront, OneSwapOutstanding
<1>5. OneSwapOutstanding'
  <2>1. front \in Buffers \cup {NoBuffer} /\ front # "ack"
    BY DEF TypeOK
  <2>2. tasks = <<"ack">> \/ (readyWithTexture /\ tasks = <<"ack", front>>)
    BY AckPosted
  <2>3. CASE tasks = <<"ack">>
    <3>1. tasks' = <<>> /\ imageLocked = {} /\ presented = acked + 1 /\ ~readyToUpdate
      BY <2>1, <2>3, TaskQueues DEF OneSwapOutstanding
    <3>2. tasks' \notin {<<"ack">>, <<front'>>, <<"ack", front'>>}
      BY <3>1, TaskQueues
    <3>3. presented' = acked' /\ imageLocked' = {} /\ ~readyToUpdate'
      BY <3>1 DEF TypeOK
    <3> QED
      BY <3>1, <3>2, <3>3 DEF OneSwapOutstanding
  <2>4. CASE readyWithTexture /\ tasks = <<"ack", front>>
    <3>1. tasks' = <<front>> /\ imageLocked = {front} /\ presented = acked + 1 /\ ~readyToUpdate
      BY <2>1, <2>4, TaskQueues DEF OneSwapOutstanding
    <3> QED
      BY <3>1, <2>1, <2>4, TaskQueues DEF OneSwapOutstanding, TypeOK
  <2> QED
    BY <2>2, <2>3, <2>4
<1>6. FrontIsLatest'
  BY TaskQueues DEF TypeOK, RolesDistinct, OneSwapOutstanding, FrontIsLatest
<1>7. TexturesFreed'
  BY DEF TexturesFreed, RolesDistinct
<1>8. NodeWrapsFront'
  BY DEF NodeWrapsFront, ReaderOwnsFront
<1>9. FenceConsumed'
  BY DEF FenceConsumed, RolesDistinct, ReaderOwnsFront, WriterOwnsBack
<1> QED
  BY <1>1, <1>2, <1>3, <1>4, <1>5, <1>6, <1>7, <1>8, <1>9

(* The image task unlocks the mutex of the front buffer it was posted for.  *)
LEMMA CreateSkImageOnGPUThreadInv == DeviceInv /\ CreateSkImageOnGPUThread => DeviceInv'
<1> SUFFICES ASSUME DeviceInv, CreateSkImageOnGPUThread PROVE DeviceInv'
  OBVIOUS
<1> USE DeviceConstants DEF DeviceInv, CreateSkImageOnGPUThread, GpuIdle
<1>1. TypeOK'
  BY DEF TypeOK
<1>2. RolesDistinct'
  BY DEF TypeOK, RolesDistinct, WriterOwnsBack, OneSwapOutstanding
<1>3. WriterOwnsBack'
  BY DEF TypeOK, RolesDistinct, WriterOwnsBack, OneSwapOutstanding
<1>4. ReaderOwnsFront'
  BY DEF TypeOK, ReaderOwnsFront, OneSwapOutstanding
<1>5. OneSwapOutstanding'
  <2>1. front \in Buffers \cup {NoBuffer} /\ front # "ack"
    BY DEF TypeOK
  <2>2. tasks = <<front>>
    BY <2>1, TaskQueues DEF OneSwapOutstanding
  <2>3. tasks' = <<>> /\ imageLocked' = {}
    BY <2>2, TaskQueues DEF OneSwapOutstanding
  <2>4. tasks \notin {<<"ack">>, <<"ack", front>>}
    BY <2>1, <2>2, TaskQueues
  <2> QED
    BY <2>3, <2>4, TaskQueues DEF OneSwapOutstanding
<1>6. FrontIsLatest'
  BY TaskQueues DEF TypeOK, RolesDistinct, OneSwapOutstanding, FrontIsLatest
<1>7. TexturesFreed'
  BY DEF TexturesFreed, RolesDistinct
<1>8. NodeWrapsFront'
  BY DEF NodeWrapsFront, ReaderOwnsFront
<1>9. FenceConsumed'
  BY DEF FenceConsumed, RolesDistinct, ReaderOwnsFront, WriterOwnsBack
<1> QED
  BY <1>1, <1>2, <1>3, <1>4, <1>5, <1>6, <1>7, <1>8, <1>9

(* swapFrame moves the waiting buffer to the front and begins its only      *)
(* present.                                                                 *)
LEMMA UpdatePaintNodeInv == DeviceInv /\ UpdatePaintNode => DeviceInv'
<1> SUFFICES ASSUME DeviceInv, UpdatePaintNode PROVE DeviceInv'
  OBVIOUS
<1> USE DeviceConstants DEF DeviceInv, UpdatePaintNode
<1>1. /\ ~readyWithTexture /\ reading = {}
      /\ presentCount = [b \in Buffers |-> 0]
  BY DEF ReaderOwnsFront
<1>2. CASE ~readyToUpdate
  <2>1. UNCHANGED <<front, middle, flags, presentCount, reading, imageLocked,
                    tasks, textured>>
    BY <1>2 DEF SwapFrame
  <2>2. TypeOK'
    BY <2>1 DEF TypeOK
  <2>3. RolesDistinct' /\ WriterOwnsBack'
    BY <2>1 DEF RolesDistinct, WriterOwnsBack
  <2>4. ReaderOwnsFront'
    BY <1>1, <2>1 DEF ReaderOwnsFront
  <2>5. OneSwapOutstanding' /\ FrontIsLatest'
    BY <2>1 DEF OneSwapOutstanding, FrontIsLatest
  <2>6. TexturesFreed' /\ NodeWrapsFront' /\ FenceConsumed'
    BY <1>1, <2>1 DEF TexturesFreed, NodeWrapsFront, FenceConsumed
  <2> QED
    BY <2>2, <2>3, <2>4, <2>5, <2>6
<1>3. CASE readyToUpdate
  <2>1. middle \in Buffers /\ middle # front /\ tasks = <<>> /\ imageLocked = {}
    BY <1>1, <1>3, TaskQueues DEF OneSwapOutstanding, TypeOK, RolesDistinct
  <2>2. /\ front' = middle /\ middle' = front /\ readyToUpdate' = FALSE
        /\ readyWithTexture' = TRUE /\ BeginPresent(middle)
        /\ textured' = textured \ {front}
    BY <1>3, <2>1 DEF SwapFrame, ClearReadyToUpdate, FreeTexture
  <2>3. /\ presentCount' = [presentCount EXCEPT ![middle] = @ + 1]
        /\ reading' = {middle}
        /\ imageLocked' = IF overlay THEN {} ELSE {middle}
        /\ tasks' = <<>> \o (IF ~overlay THEN <<"ack", middle>> ELSE <<"ack">>)
    BY <1>1, <2>1, <2>2 DEF BeginPresent
  <2>4. tasks' = IF ~overlay THEN <<"ack", middle>> ELSE <<"ack">>
    BY <2>3, TaskQueues
  <2>5. presentCount' = [b \in Buffers |-> IF b \in reading' THEN 1 ELSE 0]
    BY <1>1, <2>1, <2>3
  <2>6. TypeOK'
    <3>1. tasks' \in Seq(Buffers \cup {"ack"})
      <4>1. CASE overlay
        BY <2>4, <4>1
      <4>2. CASE ~overlay
        BY <2>1, <2>4, <4>2
      <4> QED
        BY <4>1, <4>2
    <3>2. presentCount' \in [Buffers -> Nat]
      BY <2>5
    <3> QED
      BY <2>1, <2>2, <2>3, <3>1, <3>2 DEF TypeOK
  <2>7. RolesDistinct' /\ WriterOwnsBack' /\ TexturesFreed' /\ NodeWrapsFront'
        /\ FenceConsumed'
    BY <2>1, <2>2 DEF RolesDistinct, WriterOwnsBack, TexturesFreed,
       NodeWrapsFront, FenceConsumed, TypeOK
  <2>8. ReaderOwnsFront'
    BY <2>1, <2>2, <2>3, <2>5 DEF ReaderOwnsFront
  <2>9. OneSwapOutstanding' /\ FrontIsLatest'
    <3>1. presented = acked + 1 /\ content[middle] = presented
      BY <1>3 DEF OneSwapOutstanding
    <3>2. tasks' \in {<<"ack">>, <<"ack", front'>>}
      BY <2>2, <2>4
    <3>3. imageLocked' = IF tasks' \in {<<front'>>, <<"ack", front'>>}
                         THEN {front'} ELSE {}
      BY <2>1, <2>2, <2>3, <2>4, TaskQueues
    <3> QED
      BY <2>1, <2>2, <3>1, <3>2, <3>3 DEF OneSwapOutstanding, FrontIsLatest
  <2> QED
    BY <2>6, <2>7, <2>8, <2>9
<1> QED
  BY <1>2, <1>3

(* texture() wraps the front buffer or leaves the node as it was.           *)
LEMMA TextureInv == DeviceInv /\ Texture => DeviceInv'
<1> SUFFICES ASSUME DeviceInv, Texture PROVE DeviceInv'
  OBVIOUS
<1> USE DeviceConstants DEF DeviceInv, Texture
<1>1. TypeOK'
  BY DEF TypeOK, ReaderOwnsFront
<1>2. RolesDistinct'
  BY DEF TypeOK, RolesDistinct, WriterOwnsBack, OneSwapOutstanding
<1>3. WriterOwnsBack'
  BY DEF TypeOK, RolesDistinct, WriterOwnsBack, OneSwapOutstanding
<1>4. ReaderOwnsFront'
  BY DEF TypeOK, ReaderOwnsFront, OneSwapOutstanding
<1>5. OneSwapOutstanding'
  BY TaskQueues DEF TypeOK, ReaderOwnsFront, WriterOwnsBack, OneSwapOutstanding
<1>6. FrontIsLatest'
  BY TaskQueues DEF TypeOK, RolesDistinct, OneSwapOutstanding, FrontIsLatest
<1>7. TexturesFreed'
  BY DEF TexturesFreed, RolesDistinct
<1>8. NodeWrapsFront'
  BY DEF NodeWrapsFront, ReaderOwnsFront
<1>9. FenceConsumed'
  BY DEF FenceConsumed, RolesDistinct, ReaderOwnsFront, WriterOwnsBack
<1> QED
  BY <1>1, <1>2, <1>3, <1>4, <1>5, <1>6, <1>7, <1>8, <1>9

(* Before rendering the fence of the front buffer is consumed.              *)
LEMMA WaitForTextureInv == DeviceInv /\ WaitForTexture => DeviceInv'
<1> SUFFICES ASSUME DeviceInv, WaitForTexture PROVE DeviceInv'
  OBVIOUS
<1> USE DeviceConstants DEF DeviceInv, WaitForTexture, ConsumeFence
<1>1. TypeOK'
  BY DEF TypeOK
<1>2. RolesDistinct'
  BY DEF TypeOK, RolesDistinct, WriterOwnsBack, OneSwapOutstanding
<1>3. WriterOwnsBack'
  BY DEF TypeOK, RolesDistinct, WriterOwnsBack, OneSwapOutstanding
<1>4. ReaderOwnsFront'
  BY DEF TypeOK, ReaderOwnsFront, OneSwapOutstanding
<1>5. OneSwapOutstanding'
  BY TaskQueues DEF TypeOK, ReaderOwnsFront, WriterOwnsBack, OneSwapOutstanding
<1>6. FrontIsLatest'
  BY TaskQueues DEF TypeOK, RolesDistinct, OneSwapOutstanding, FrontIsLatest
<1>7. TexturesFreed'
  BY DEF TexturesFreed, RolesDistinct
<1>8. NodeWrapsFront'
  BY DEF NodeWrapsFront, ReaderOwnsFront
<1>9. FenceConsumed'
  BY DEF FenceConsumed, RolesDistinct, ReaderOwnsFront, WriterOwnsBack
<1> QED
  BY <1>1, <1>2, <1>3, <1>4, <1>5, <1>6, <1>7, <1>8, <1>9

(* After rendering the present of the front buffer is ended.                *)
LEMMA ReleaseTextureInv == DeviceInv /\ ReleaseTexture => DeviceInv'
<1> SUFFICES ASSUME DeviceInv, ReleaseTexture PROVE DeviceInv'
  OBVIOUS
<1> USE DeviceConstants DEF DeviceInv, ReleaseTexture, EndPresent
<1>0. /\ reading' = {}
      /\ presentCount' = [b \in Buffers |-> 0]
  <2>1. CASE readyWithTexture
    <3>1. /\ front \in Buffers /\ reading = {front}
          /\ presentCount = [b \in Buffers |-> IF b = front THEN 1 ELSE 0]
      BY <2>1 DEF ReaderOwnsFront, TypeOK
    <3>2. EndPresent(front) /\ presentCount[front] = 1
      BY <2>1, <3>1
    <3>3. /\ presentCount' = [presentCount EXCEPT ![front] = @ - 1]
          /\ reading' = {}
      BY <3>1, <3>2
    <3> QED
      BY <3>1, <3>3
  <2>2. CASE ~readyWithTexture
    BY <2>2 DEF ReaderOwnsFront
  <2> QED
    BY <2>1, <2>2
<1>1. TypeOK'
  BY <1>0 DEF TypeOK
<1>2. RolesDistinct'
  BY DEF TypeOK, RolesDistinct, WriterOwnsBack, OneSwapOutstanding
<1>3. WriterOwnsBack'
  BY DEF TypeOK, RolesDistinct, WriterOwnsBack, OneSwapOutstanding
<1>4. ReaderOwnsFront'
  BY <1>0 DEF TypeOK, ReaderOwnsFront
<1>5. OneSwapOutstanding'
  BY TaskQueues DEF TypeOK, ReaderOwnsFront, WriterOwnsBack, OneSwapOutstanding
<1>6. FrontIsLatest'
  BY TaskQueues DEF TypeOK, RolesDistinct, OneSwapOutstanding, FrontIsLatest
<1>7. TexturesFreed'
  BY DEF TexturesFreed, RolesDistinct
<1>8. NodeWrapsFront'
  BY DEF NodeWrapsFront, ReaderOwnsFront
<1>9. FenceConsumed'
  BY DEF FenceConsumed, RolesDistinct, ReaderOwnsFront, WriterOwnsBack
<1> QED
  BY <1>1, <1>2, <1>3, <1>4, <1>5, <1>6, <1>7, <1>8, <1>9

-----------------------------------------------------------------------------
(* Every step of the GPU and the render thread preserves the invariant.     *)
LEMMA NextInv == DeviceInv /\ [Next]_vars => DeviceInv'
<1> SUFFICES ASSUME DeviceInv, [Next]_vars PROVE DeviceInv'
  OBVIOUS
<1>1. CASE GpuNext
  BY <1>1, ReshapeInv, BeginPaintInv, BeginPaintFailsInv, EndPaintInv,
     PresentInv, ReadyToSwapInv, SwapBuffersFinishedInv,
     CreateSkImageOnGPUThreadInv DEF GpuNext, RunTask
<1>2. CASE UpdatePaintNode
  BY <1>2, UpdatePaintNodeInv
<1>3. CASE RenderFrame
  BY <1>3, TextureInv, WaitForTextureInv, ReleaseTextureInv DEF RenderFrame
<1>4. CASE UNCHANGED vars
  BY <1>4 DEF DeviceInv, TypeOK, RolesDistinct, WriterOwnsBack,
     ReaderOwnsFront, OneSwapOutstanding, FrontIsLatest, TexturesFreed,
     NodeWrapsFront, FenceConsumed
<1> QED
  BY <1>1, <1>2, <1>3, <1>4 DEF Next

(* DeviceInv holds in every reachable state of the device. *)
THEOREM DeviceInvariant == Spec => []DeviceInv
<1>1. Init => DeviceInv
  BY InitInv
<1>2. DeviceInv /\ [Next]_vars => DeviceInv'
  BY NextInv
<1> QED
  BY <1>1, <1>2, PTL DEF Spec

(* Every variable of the device has its type. *)
THEOREM DeviceTypes == Spec => []TypeOK
<1>1. DeviceInv => TypeOK
  BY DEF DeviceInv
<1> QED
  BY <1>1, DeviceInvariant, PTL

(* The DCHECKs of beginWriteSkia: the GPU thread never writes a buffer that *)
(* is presented to or drawn by the scene graph.                             *)
THEOREM WriterExcludesReaders == Spec => []NoWriteWhileRead
<1>1. DeviceInv => NoWriteWhileRead
  BY DeviceConstants DEF DeviceInv, TypeOK, RolesDistinct, WriterOwnsBack,
     ReaderOwnsFront, NodeWrapsFront, NoWriteWhileRead
<1> QED
  BY <1>1, DeviceInvariant, PTL

(* Every present begun for a frame is ended with it, and a texture's        *)
(* resources are freed before its buffer leaves the front.                  *)
THEOREM PresentsAndTexturesReleased == Spec => [](PresentsBalanced /\ TexturesFreed)
<1>1. DeviceInv => PresentsBalanced /\ TexturesFreed
  BY DEF DeviceInv, TypeOK, ReaderOwnsFront, PresentsBalanced
<1> QED
  BY <1>1, DeviceInvariant, PTL

(* The image task posted with an unretained buffer finds the buffer alive   *)
(* and its mutex locked.                                                    *)
THEOREM ImageTaskSafe == Spec => []ImageTaskFindsBuffer
<1>1. ASSUME DeviceInv, NEW i \in DOMAIN tasks, tasks[i] # "ack"
      PROVE  tasks[i] \in Live \cap imageLocked
  <2>1. tasks \in {<<>>, <<"ack">>} => tasks[i] = "ack"
    BY <1>1
  <2>2. readyWithTexture /\ tasks \in {<<front>>, <<"ack", front>>}
    BY <1>1, <2>1 DEF DeviceInv, OneSwapOutstanding
  <2>3. tasks[i] = front
    BY <1>1, <2>2
  <2>4. front # NoBuffer /\ imageLocked = {front}
    BY <1>1, <2>2 DEF DeviceInv, OneSwapOutstanding, ReaderOwnsFront
  <2> QED
    BY <2>3, <2>4 DEF Live
<1>2. DeviceInv => ImageTaskFindsBuffer
  BY <1>1 DEF ImageTaskFindsBuffer
<1> QED
  BY <1>2, DeviceInvariant, PTL

(* A frame is drawn only after the fence of its painting was consumed.      *)
THEOREM FencesConsumed == Spec => []DrawnAfterFence
<1>1. DeviceInv => DrawnAfterFence
  BY DEF DeviceInv, NodeWrapsFront, FenceConsumed, DrawnAfterFence
<1> QED
  BY <1>1, DeviceInvariant, PTL

-----------------------------------------------------------------------------
(* Steps that neither present, swap nor acknowledge leave the stream alone. *)
LEMMA StreamStutters ==
  ASSUME DeviceInv, UNCHANGED <<front, stamps>>,
         content' = content \/ \E b \in Buffers, n \in Nat :
                                 b # front /\ content' = [content EXCEPT ![b] = n]
  PROVE  UNCHANGED <<presented, Shown, acked>>
BY DEF Shown, DeviceInv, TypeOK

(* The device implements the safety part of the frame stream: frames are    *)
(* shown in order, and acknowledged once each and only after that.          *)
THEOREM ImplementsStreamSafely == Spec => Stream!SafeSpec
<1>1. Init => Stream!Init
  BY DEF Init, Stream!Init, Shown
<1>2. DeviceInv /\ DeviceInv' /\ [Next]_vars => [Stream!Next]_(Stream!frames)
  <2> SUFFICES ASSUME DeviceInv, DeviceInv', [Next]_vars
               PROVE  [Stream!Next]_(Stream!frames)
    OBVIOUS
  <2> USE DEF Stream!frames
  <2>1. CASE BeginPaint
    <3>1. back' \in Buffers /\ back' # front /\ presented + 1 \in Nat
      BY <2>1, DeviceConstants DEF BeginPaint, MayDraw, GpuIdle, Live, DeviceInv, TypeOK, RolesDistinct
    <3> QED
      BY <2>1, <3>1, StreamStutters DEF BeginPaint
  <2>2. CASE Present
    <3>1. Stream!Submit
      BY <2>2 DEF Present, Stream!Submit, Shown
    <3> QED
      BY <3>1 DEF Stream!Next
  <2>3. CASE SwapBuffersFinished
    <3>1. Shown' = Shown /\ presented' = presented /\ acked' = acked + 1
      BY <2>3 DEF SwapBuffersFinished, Shown
    <3>2. Shown' = presented' /\ presented' = acked'
      BY <2>3, <3>1, AckPosted
         DEF SwapBuffersFinished, Shown, DeviceInv, FrontIsLatest, TypeOK
    <3>3. Stream!Ack
      BY <3>1, <3>2 DEF Stream!Ack, DeviceInv, TypeOK
    <3> QED
      BY <3>3 DEF Stream!Next
  <2>4. CASE UpdatePaintNode
    <3>1. CASE readyToUpdate
      <4>1. front' = middle /\ UNCHANGED <<content, stamps>>
        BY <2>4, <3>1 DEF UpdatePaintNode, SwapFrame
      <4>2. Shown' = presented /\ Shown = acked /\ presented = acked + 1
        BY <3>1, <4>1 DEF Shown, DeviceInv, FrontIsLatest, OneSwapOutstanding
      <4>3. Stream!Show
        BY <4>1, <4>2 DEF Stream!Show, DeviceInv, TypeOK
      <4> QED
        BY <4>3 DEF Stream!Next
    <3>2. CASE ~readyToUpdate
      BY <2>4, <3>2, StreamStutters DEF UpdatePaintNode, SwapFrame
    <3> QED
      BY <3>1, <3>2
  <2>5. CASE \/ Reshape \/ BeginPaintFails \/ EndPaint \/ ReadyToSwap
             \/ CreateSkImageOnGPUThread \/ RenderFrame \/ UNCHANGED vars
    <3>1. UNCHANGED <<front, stamps, content>>
      BY <2>5 DEF Reshape, BeginPaintFails, EndPaint, ReadyToSwap,
         CreateSkImageOnGPUThread, RenderFrame, Texture, WaitForTexture,
         ReleaseTexture
    <3> QED
      BY <3>1, StreamStutters
  <2> QED
    BY <2>1, <2>2, <2>3, <2>4, <2>5 DEF Next, GpuNext, RunTask
<1> QED
  BY <1>1, <1>2, DeviceInvariant, PTL DEF Spec, Stream!SafeSpec
=============================================================================
