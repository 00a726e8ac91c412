---------------------------- MODULE FrameStream ----------------------------
(***************************************************************************)
(* What an output surface promises to the display compositor and to the    *)
(* scene graph (core/compositor/compositor.h): frames are submitted one at *)
(* a time, the scene graph moves on to the newest one when it swaps, and   *)
(* each swap is acknowledged once, after the frame has become visible.     *)
(***************************************************************************)
EXTENDS Naturals

VARIABLES submitted,  \* frames handed over with readyToSwap()
          shown,      \* the frame the scene graph uses, 0 before the first
          acked       \* swaps acknowledged to the display compositor

frames == <<submitted, shown, acked>>

Init == submitted = 0 /\ shown = 0 /\ acked = 0

Submit ==
  /\ submitted = acked
  /\ submitted' = submitted + 1
  /\ UNCHANGED <<shown, acked>>

Show ==
  /\ shown < submitted
  /\ shown' = submitted
  /\ UNCHANGED <<submitted, acked>>

Ack ==
  /\ acked < shown
  /\ acked' = acked + 1
  /\ UNCHANGED <<submitted, shown>>

Next == Submit \/ Show \/ Ack

SafeSpec == Init /\ [][Next]_frames
Spec == SafeSpec /\ WF_frames(Show) /\ WF_frames(Ack)
=============================================================================
