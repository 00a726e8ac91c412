----------------------------- MODULE LoadStream -----------------------------
(***************************************************************************)
(* What a page promises of its load signals: a load starts when none runs  *)
(* and reports 0%, its progress only grows, it finishes once, and there is *)
(* no progress outside a load.                                             *)
(***************************************************************************)
EXTENDS Integers

CONSTANT Full  \* 100%

VARIABLES seen,  \* the progress last reported, -1 when no load runs
          ends   \* flips at each loadFinished

Start    == seen = -1 /\ seen' = 0 /\ UNCHANGED ends
Progress == seen >= 0 /\ seen' \in seen + 1 .. Full /\ UNCHANGED ends
Finish   == seen >= 0 /\ seen' = -1 /\ ends' = 1 - ends

Init == seen = -1 /\ ends = 0
Next == Start \/ Progress \/ Finish

Spec == Init /\ [][Next]_<<seen, ends>>
=============================================================================
