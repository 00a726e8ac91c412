------------------------- MODULE NativeOutputDevice -------------------------
(***************************************************************************)
(* NativeSkiaOutputDevice (core/compositor/native_skia_output_device.cpp): *)
(* the GPU thread paints into the back buffer and presents it, the render  *)
(* thread of the scene graph swaps it to the front, wraps it in a texture  *)
(* and draws it, and posts the acknowledgement to the GPU thread.  Actions *)
(* are the critical sections of m_mutex, and the code between them that    *)
(* one thread runs on buffers it owns.  The display compositor, which      *)
(* calls the device with one swap outstanding at most, and Qt Quick's      *)
(* frame loop are external.                                                *)
(***************************************************************************)
EXTENDS Naturals, Sequences

CONSTANTS Buffers,    \* identities of Buffer objects, reused once destroyed
          NoBuffer,   \* the null pointer
          Shapes,     \* size, scale, color space and sample count
          MaxFrames   \* bound on the frames presented

ASSUME DeviceConstants == /\ NoBuffer \notin Buffers
                          /\ "ack" \notin Buffers \cup {NoBuffer}
                          /\ MaxFrames \in Nat

VARIABLES
  overlay,          \* m_isNativeBufferSupported
  mshape,           \* m_shape
  front, middle, back,  \* m_frontBuffer, m_middleBuffer, m_backBuffer
  readyToUpdate,    \* m_readyToUpdate
  readyWithTexture, \* m_readyWithTexture
  bufferShape,      \* Buffer::m_shape
  content,          \* the frame a buffer holds
  writing,          \* buffers with m_scopedSkiaWriteAccess
  reading,          \* buffers with a scoped read access, overlay or Skia
  presentCount,     \* Buffer::m_presentCount
  fenced,           \* buffers whose fence is not consumed yet
  textured,         \* buffers with a textureCleanupCallback
  imageLocked,      \* buffers with m_skImageMutex locked for the GPU thread
  tasks,            \* tasks the render thread posted to the GPU thread
  gpu,              \* where the GPU thread is
  render,           \* where the render thread is
  node,             \* the buffer the scene graph node's texture wraps
  textureFailed,    \* the last texture() returned null
  updateRequested,  \* an update() of the item is queued
  presented, acked  \* swaps begun and finished

threads == <<tasks, gpu, render>>
roles   == <<front, middle, back>>
access  == <<writing, reading, presentCount>>
stamps  == <<presented, acked>>
scene   == <<node, textureFailed, updateRequested>>
flags   == <<readyToUpdate, readyWithTexture>>
data    == <<bufferShape, content, fenced, textured, imageLocked>>
vars == <<overlay, mshape, roles, flags, data, access, threads, scene, stamps>>

Live == {front, middle, back} \ {NoBuffer}

Init ==
  /\ overlay \in BOOLEAN /\ mshape \in Shapes
  /\ front = NoBuffer /\ middle = NoBuffer /\ back = NoBuffer
  /\ readyToUpdate = FALSE /\ readyWithTexture = FALSE
  /\ bufferShape = [b \in Buffers |-> mshape]
  /\ content = [b \in Buffers |-> 0]
  /\ presentCount = [b \in Buffers |-> 0]
  /\ writing = {} /\ reading = {}
  /\ fenced = {} /\ textured = {} /\ imageLocked = {}
  /\ tasks = <<>> /\ gpu = "idle" /\ render = "idle"
  /\ node = NoBuffer /\ textureFailed = FALSE /\ updateRequested = FALSE
  /\ presented = 0 /\ acked = 0

-----------------------------------------------------------------------------
(* Buffer. *)

FreeTexture(b) == textured' = textured \ {b}

BeginPresentUnlocked(b) ==
  LET first == presentCount[b] = 0 IN
  /\ presentCount' = [presentCount EXCEPT ![b] = @ + 1]
  /\ reading' = reading \cup {b}
  /\ tasks' = tasks \o (IF first /\ ~overlay THEN <<"ack", b>> ELSE <<"ack">>)
  /\ UNCHANGED imageLocked

(* The swap's SwapBuffersFinished task is posted first, see SwapFrame. *)
BeginPresent(b) ==
  LET first == presentCount[b] = 0 IN
  /\ presentCount' = [presentCount EXCEPT ![b] = @ + 1]
  /\ reading' = IF first THEN reading \cup {b} ELSE reading
  /\ imageLocked' = IF first /\ ~overlay THEN imageLocked \cup {b}
                                         ELSE imageLocked
  /\ tasks' = tasks \o (IF first /\ ~overlay THEN <<"ack", b>> ELSE <<"ack">>)

ForgetPresent(b) == UNCHANGED <<presentCount, reading>>

(* Ending a Skia read access takes m_skImageMutex. *)
EndPresent(b) ==
  IF presentCount[b] = 0 THEN UNCHANGED <<presentCount, reading>>
  ELSE /\ b \notin imageLocked
       /\ presentCount' = [presentCount EXCEPT ![b] = @ - 1]
       /\ reading' = IF presentCount[b] = 1 THEN reading \ {b} ELSE reading

KeepFence(b) == fenced' = fenced
ConsumeFence(b) == fenced' = fenced \ {b}

-----------------------------------------------------------------------------
(* GPU thread. *)

GpuIdle == gpu \in {"idle", "painted"}

Reshape ==
  /\ GpuIdle
  /\ mshape' \in Shapes
  /\ UNCHANGED <<overlay, roles, flags, data, access, threads, scene, stamps>>

(* The display compositor draws when no swap is outstanding. *)
MayDraw == GpuIdle /\ acked = presented /\ presented < MaxFrames

BeginPaint ==
  /\ MayDraw
  /\ IF back = NoBuffer \/ bufferShape[back] # mshape
     THEN \E b \in Buffers \ Live :
            /\ back' = b
            /\ bufferShape' = [bufferShape EXCEPT ![b] = mshape]
            /\ fenced' = fenced \ {b}
            /\ textured' = textured \ {b}
     ELSE UNCHANGED <<back, bufferShape, fenced, textured>>
  /\ writing' = writing \cup {back'}
  /\ content' = [content EXCEPT ![back'] = presented + 1]
  /\ gpu' = "painting"
  /\ UNCHANGED <<overlay, mshape, front, middle, flags, reading, presentCount,
                 imageLocked, tasks, render, scene, stamps>>

(* BeginPaint returned null: the display compositor gives the device up. *)
BeginPaintFails ==
  /\ MayDraw
  /\ gpu' = "lost"
  /\ UNCHANGED <<overlay, mshape, roles, flags, data, access, tasks, render,
                 scene, stamps>>

EndPaint ==
  /\ gpu = "painting"
  /\ writing' = writing \ {back}
  /\ gpu' = "painted"
  /\ UNCHANGED <<overlay, mshape, roles, flags, data, reading, presentCount,
                 tasks, render, scene, stamps>>

Present ==
  /\ gpu = "painted" /\ acked = presented
  /\ presented' = presented + 1
  /\ fenced' = fenced \cup {back}
  /\ middle' = back
  /\ back' = middle
  /\ readyToUpdate' = TRUE
  /\ gpu' = "notify"
  /\ UNCHANGED <<overlay, mshape, front, readyWithTexture, bufferShape, content,
                 textured, imageLocked, access, tasks, render, scene, acked>>

(* The end of Present, after m_mutex is released. *)
ReadyToSwap ==
  /\ gpu = "notify"
  /\ updateRequested' = TRUE
  /\ gpu' = "idle"
  /\ UNCHANGED <<overlay, mshape, roles, flags, data, access, tasks, render,
                 node, textureFailed, stamps>>

SwapBuffersFinished ==
  /\ GpuIdle /\ tasks # <<>> /\ Head(tasks) = "ack"
  /\ tasks' = Tail(tasks)
  /\ back' = middle
  /\ middle' = back
  /\ acked' = acked + 1
  /\ UNCHANGED <<overlay, mshape, front, flags, data, access, gpu, render,
                 scene, presented>>

CreateSkImageOnGPUThread ==
  /\ GpuIdle /\ tasks # <<>> /\ Head(tasks) # "ack"
  /\ imageLocked' = imageLocked \ {Head(tasks)}
  /\ tasks' = Tail(tasks)
  /\ UNCHANGED <<overlay, mshape, roles, flags, bufferShape, content, fenced,
                 textured, access, gpu, render, scene, stamps>>

-----------------------------------------------------------------------------
(* Render thread: updatePaintNode, beforeRendering and afterFrameEnd. *)

KeepReadyToUpdate == readyToUpdate' = readyToUpdate
ClearReadyToUpdate == readyToUpdate' = FALSE

SwapFrame ==
  IF readyToUpdate
  THEN /\ front' = middle
       /\ middle' = front
       /\ ClearReadyToUpdate
       /\ IF middle # NoBuffer
          THEN BeginPresent(middle) /\ readyWithTexture' = TRUE
          ELSE /\ tasks' = Append(tasks, "ack")
               /\ UNCHANGED <<readyWithTexture, presentCount, reading, imageLocked>>
       /\ FreeTexture(front)
  ELSE UNCHANGED <<front, middle, flags, presentCount, reading, imageLocked,
                   tasks, textured>>

UpdatePaintNode ==
  /\ render = "idle"
  /\ SwapFrame
  /\ updateRequested' = FALSE
  /\ render' = "synced"
  /\ UNCHANGED <<overlay, mshape, back, bufferShape, content, fenced, writing,
                 gpu, node, textureFailed, stamps>>

(* texture(), which waits for the Skia image where there is no overlay, or  *)
(* fails and returns null; then the node keeps the texture it had.          *)
Texture ==
  /\ render = "synced"
  /\ \/ /\ readyWithTexture /\ front \notin imageLocked
        /\ node' = front /\ textureFailed' = FALSE
        /\ textured' = textured \cup {front}
     \/ /\ readyWithTexture
        /\ textureFailed' = TRUE
        /\ UNCHANGED <<node, textured>>
     \/ /\ ~readyWithTexture
        /\ UNCHANGED <<node, textureFailed, textured>>
  /\ render' = "textured"
  /\ UNCHANGED <<overlay, mshape, roles, flags, bufferShape, content, fenced,
                 imageLocked, access, tasks, gpu, updateRequested, stamps>>

(* A window frame may also be rendered without the item being synced. *)
WaitForTexture ==
  /\ render \in {"idle", "textured"}
  /\ IF readyWithTexture THEN ConsumeFence(front) ELSE UNCHANGED fenced
  /\ render' = "drawing"
  /\ UNCHANGED <<overlay, mshape, roles, flags, bufferShape, content, textured,
                 imageLocked, access, tasks, gpu, scene, stamps>>

ReleaseTexture ==
  /\ render = "drawing"
  /\ IF readyWithTexture THEN EndPresent(front)
                         ELSE UNCHANGED <<presentCount, reading>>
  /\ readyWithTexture' = FALSE
  /\ render' = "idle"
  /\ UNCHANGED <<overlay, mshape, roles, readyToUpdate, data, writing, tasks,
                 gpu, scene, stamps>>

-----------------------------------------------------------------------------
RunTask == SwapBuffersFinished \/ CreateSkImageOnGPUThread

GpuNext == Reshape \/ BeginPaint \/ BeginPaintFails \/ EndPaint \/ Present
           \/ ReadyToSwap \/ RunTask
RenderFrame == Texture \/ WaitForTexture \/ ReleaseTexture
Next == GpuNext \/ UpdatePaintNode \/ RenderFrame

Spec == Init /\ [][Next]_vars

(* The GPU thread returns from Present and runs its tasks; a frame that was *)
(* begun is finished, and Qt Quick syncs an item that asked for an update.  *)
FairSpec == Spec /\ WF_vars(ReadyToSwap) /\ WF_vars(RunTask)
                 /\ WF_vars(Texture) /\ WF_vars(ReleaseTexture)
                 /\ WF_vars(render = "textured" /\ WaitForTexture)
                 /\ SF_vars(updateRequested /\ UpdatePaintNode)

-----------------------------------------------------------------------------
(* Every variable has its type. *)
TypeOK ==
  /\ overlay \in BOOLEAN /\ mshape \in Shapes
  /\ front \in Buffers \cup {NoBuffer}
  /\ middle \in Buffers \cup {NoBuffer}
  /\ back \in Buffers \cup {NoBuffer}
  /\ node \in Buffers \cup {NoBuffer}
  /\ readyToUpdate \in BOOLEAN /\ readyWithTexture \in BOOLEAN
  /\ textureFailed \in BOOLEAN /\ updateRequested \in BOOLEAN
  /\ bufferShape \in [Buffers -> Shapes]
  /\ content \in [Buffers -> Nat] /\ presentCount \in [Buffers -> Nat]
  /\ writing \subseteq Buffers /\ reading \subseteq Buffers
  /\ fenced \subseteq Buffers /\ textured \subseteq Buffers
  /\ imageLocked \subseteq Buffers
  /\ tasks \in Seq(Buffers \cup {"ack"})
  /\ gpu \in {"idle", "painting", "painted", "notify", "lost"}
  /\ render \in {"idle", "synced", "textured", "drawing"}
  /\ presented \in Nat /\ acked \in Nat

(* The GPU thread never writes a buffer that is presented or that the scene *)
(* graph is drawing: the DCHECKs of beginWriteSkia.  (A node left with the  *)
(* texture of an earlier frame because texture() failed is the exception.)  *)
NoWriteWhileRead ==
  \A b \in writing :
    /\ presentCount[b] = 0 /\ b \notin reading
    /\ render = "drawing" /\ node = b => textureFailed

(* Every read access begun for a frame is ended with it: outside a frame no *)
(* buffer is presented, so none goes back to the GPU thread still counted.  *)
PresentsBalanced ==
  /\ \A b \in Buffers : presentCount[b] = (IF b \in reading THEN 1 ELSE 0)
  /\ render = "idle" => reading = {}

(* Only the front buffer holds graphics resources of a texture: a buffer is *)
(* neither reused nor destroyed ("Leaking graphics resources") with them.   *)
TexturesFreed == textured \subseteq {front}

(* The task posted with base::Unretained(buffer) finds the buffer alive and *)
(* its mutex still locked on its behalf.                                    *)
ImageTaskFindsBuffer ==
  \A i \in DOMAIN tasks : tasks[i] # "ack" => tasks[i] \in Live \cap imageLocked

(* The scene graph draws a frame after the fence of its painting.           *)
DrawnAfterFence ==
  render = "drawing" /\ node # NoBuffer /\ ~textureFailed => node \notin fenced

Shown == IF front = NoBuffer THEN 0 ELSE content[front]

(* The device implements the frame stream: frames become visible in order,  *)
(* every swap is acknowledged once and after that, and every swap is.       *)
Stream == INSTANCE FrameStream WITH submitted <- presented, shown <- Shown
ImplementsStream == Stream!Spec

(* The inductive invariant.  Buffer roles are distinct; the GPU thread writes *)
(* the back buffer and the render thread reads the front one; a swap is either *)
(* waiting to be shown or posted for acknowledgement; the image task is that   *)
(* of the frame being rendered; the node wraps the front buffer between frames.*)
RolesDistinct == /\ front # NoBuffer => front # middle /\ front # back
                 /\ middle # NoBuffer => middle # back

WriterOwnsBack ==
  /\ gpu \in {"painting", "painted"} =>
       back # NoBuffer /\ presented = acked /\ content[back] = presented + 1
  /\ writing = IF gpu = "painting" THEN {back} ELSE {}

ReaderOwnsFront ==
  /\ readyWithTexture => front # NoBuffer /\ render # "idle"
  /\ reading = IF readyWithTexture THEN {front} ELSE {}
  /\ presentCount = [b \in Buffers |-> IF b \in reading THEN 1 ELSE 0]

OneSwapOutstanding ==
  /\ \/ tasks \in {<<>>, <<"ack">>}
     \/ readyWithTexture /\ tasks \in {<<front>>, <<"ack", front>>}
  /\ imageLocked = IF tasks \in {<<front>>, <<"ack", front>>} THEN {front} ELSE {}
  /\ presented = IF readyToUpdate \/ tasks \in {<<"ack">>, <<"ack", front>>}
                 THEN acked + 1 ELSE acked
  /\ readyToUpdate => /\ tasks \notin {<<"ack">>, <<"ack", front>>}
                      /\ middle # NoBuffer /\ content[middle] = presented

FrontIsLatest ==
  LET latest == IF readyToUpdate THEN acked ELSE presented
  IN IF front = NoBuffer THEN latest = 0 ELSE content[front] = latest

NodeWrapsFront ==
  render # "synced" \/ ~readyWithTexture => textureFailed \/ node \in {front, NoBuffer}

FenceConsumed == ~readyWithTexture \/ render = "drawing" => front \notin fenced

DeviceInv == /\ TypeOK /\ RolesDistinct /\ WriterOwnsBack /\ ReaderOwnsFront
             /\ OneSwapOutstanding /\ FrontIsLatest /\ TexturesFreed
             /\ NodeWrapsFront /\ FenceConsumed

=============================================================================
