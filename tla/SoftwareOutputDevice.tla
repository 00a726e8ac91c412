------------------------ MODULE SoftwareOutputDevice ------------------------
(***************************************************************************)
(* DisplaySoftwareOutputSurface::Device                                    *)
(* (core/compositor/display_software_output_surface.cpp): the display      *)
(* compositor paints damaged tiles of a raster surface; when the scene     *)
(* graph syncs the item, the render thread copies them into the image it   *)
(* shows and posts the acknowledgement of the swap.  The display           *)
(* compositor is external: it draws when no swap is outstanding, swaps     *)
(* what it drew, and damages all of a surface it has just reshaped.        *)
(***************************************************************************)
EXTENDS Naturals

CONSTANTS Tiles,     \* parts of the picture damage is told apart by
          Sizes,     \* sizes in pixels
          Ratios,    \* device pixel ratios
          NoSize,    \* the size of the null image
          MaxFrames  \* bound on the frames swapped

ASSUME SoftwareConstants == NoSize \notin Sizes /\ MaxFrames \in Nat

VARIABLES
  size, ratio,    \* viewport_pixel_size_, m_devicePixelRatio
  surface,        \* the frame each tile of surface_ was last painted in
  damage,         \* damage_rect_
  callback,       \* m_swapCompletionCallback is set
  imageSize, imageRatio, image,  \* m_image and m_imageDevicePixelRatio
  shown,          \* the frame that was last copied
  posted,         \* acknowledgements posted to the display compositor
  display, render, \* where the two threads are
  updateRequested,\* an update() of the item is queued
  swapped, acked  \* swaps begun and finished

viewport == <<size, ratio, surface, damage>>
picture  == <<imageSize, imageRatio, image, shown>>
stamps   == <<swapped, acked>>
softwareVars == <<viewport, callback, picture, posted, display, render, updateRequested, stamps>>

SoftwareInit ==
  /\ size = NoSize /\ ratio \in Ratios
  /\ surface = [t \in Tiles |-> 0] /\ damage = {}
  /\ callback = FALSE
  /\ imageSize = NoSize /\ imageRatio = ratio /\ image = [t \in Tiles |-> 0]
  /\ shown = 0 /\ posted = 0 /\ display = "idle" /\ render = "idle"
  /\ updateRequested = FALSE /\ swapped = 0 /\ acked = 0

-----------------------------------------------------------------------------
(* The thread of the display compositor. *)

(* Resize, unless nothing changed, and BeginPaint with the damage. *)
Draw ==
  /\ display = "idle" /\ acked = swapped /\ swapped < MaxFrames
  /\ size' \in Sizes /\ ratio' \in Ratios
  /\ LET reshaped == <<size', ratio'>> # <<size, ratio>>
     IN /\ damage' \in SUBSET Tiles
        /\ reshaped => damage' = Tiles
        /\ surface' = [t \in Tiles |-> IF t \in damage' THEN swapped + 1
                                                        ELSE surface[t]]
  /\ display' = "painting"
  /\ UNCHANGED <<callback, picture, posted, render, updateRequested, stamps>>

(* EndPaint and OnSwapBuffers up to the release of m_mutex. *)
OnSwapBuffers ==
  /\ display = "painting" /\ render # "copying"
  /\ callback' = TRUE
  /\ swapped' = swapped + 1
  /\ display' = "notify"
  /\ UNCHANGED <<viewport, picture, posted, render, updateRequested, acked>>

ReadyToSwap ==
  /\ display = "notify"
  /\ updateRequested' = TRUE
  /\ display' = "idle"
  /\ UNCHANGED <<viewport, callback, picture, posted, render, stamps>>

SwapCompleted ==
  /\ display = "idle" /\ posted > 0
  /\ posted' = posted - 1
  /\ acked' = acked + 1
  /\ UNCHANGED <<viewport, callback, picture, display, render, updateRequested, swapped>>

-----------------------------------------------------------------------------
(* The render thread, in updatePaintNode. *)

SwapAlways == TRUE
SwapPending == callback

(* swapFrame takes m_mutex and returns early without a swap to complete. *)
UpdatePaintNode ==
  /\ render = "idle"
  /\ render' = IF SwapPending THEN "copying" ELSE "idle"
  /\ updateRequested' = FALSE
  /\ UNCHANGED <<viewport, callback, picture, posted, display, stamps>>

CopyDamageOnly == [t \in Tiles |-> IF t \in damage THEN surface[t] ELSE image[t]]
Copied == IF imageSize = size THEN CopyDamageOnly ELSE surface

KeepRatio == UNCHANGED imageRatio
TakeRatio == imageRatio' = ratio

KeepCallback == UNCHANGED callback
TakeCallback == callback' = FALSE

SwapFrame ==
  /\ render = "copying"
  /\ image' = Copied
  /\ imageSize' = size
  /\ TakeRatio
  /\ shown' = swapped
  /\ posted' = posted + 1
  /\ TakeCallback
  /\ render' = "idle"
  /\ UNCHANGED <<viewport, display, updateRequested, stamps>>

-----------------------------------------------------------------------------
SoftwareNext == Draw \/ OnSwapBuffers \/ ReadyToSwap \/ SwapCompleted
        \/ UpdatePaintNode \/ SwapFrame

SoftwareSpec == SoftwareInit /\ [][SoftwareNext]_softwareVars

(* The compositor thread returns from OnSwapBuffers and runs its tasks; the *)
(* scene graph syncs an item that asked for it and finishes the copy.       *)
SoftwareFairSpec == SoftwareSpec /\ WF_softwareVars(ReadyToSwap) /\ WF_softwareVars(SwapCompleted)
                 /\ WF_softwareVars(updateRequested /\ UpdatePaintNode) /\ WF_softwareVars(SwapFrame)

-----------------------------------------------------------------------------
(* Every variable has its type. *)
SoftwareTypeOK ==
  /\ size \in Sizes \cup {NoSize} /\ imageSize \in Sizes \cup {NoSize}
  /\ ratio \in Ratios /\ imageRatio \in Ratios
  /\ surface \in [Tiles -> Nat] /\ image \in [Tiles -> Nat]
  /\ damage \subseteq Tiles
  /\ callback \in BOOLEAN /\ updateRequested \in BOOLEAN
  /\ shown \in Nat /\ posted \in {0, 1} /\ swapped \in Nat /\ acked \in Nat
  /\ display \in {"idle", "painting", "notify"} /\ render \in {"idle", "copying"}

(* surface_ is painted and replaced without m_mutex and copied with it: the *)
(* deferred acknowledgement alone keeps the two threads apart.              *)
CopiesNoPaintedSurface == ~(display = "painting" /\ render = "copying")

(* Copying the damage of one frame is enough: an acknowledged picture is,   *)
(* tile by tile and in size and ratio, the one that was painted.            *)
AcknowledgedPictureIsWhole ==
  display # "painting" /\ swapped > 0 /\ ~callback =>
    image = surface /\ imageSize = size /\ imageRatio = ratio

(* The device implements the frame stream, like the native one.             *)
Stream == INSTANCE FrameStream WITH submitted <- swapped
ImplementsStream == Stream!Spec

(* The inductive invariant: a swap is in exactly one place, to be copied or *)
(* posted, and what is not copied yet is in the damage.                     *)
SwapInOnePlace ==
  /\ ~(callback /\ posted = 1)
  /\ swapped = acked + (IF callback \/ posted = 1 THEN 1 ELSE 0)
  /\ shown = IF callback THEN acked ELSE swapped
  /\ render = "copying" => callback
  /\ display = "painting" => acked = swapped

DamageCoversChanges ==
  /\ imageSize = size =>
       \A t \in Tiles : image[t] # surface[t] => t \in damage
  /\ ~callback /\ display # "painting" =>
       image = surface /\ imageSize = size /\ imageRatio = ratio

SoftwareInv == SoftwareTypeOK /\ SwapInOnePlace /\ DamageCoversChanges
=============================================================================
