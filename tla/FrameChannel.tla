---------------------------- MODULE FrameChannel ----------------------------
(***************************************************************************)
(* What the two processors rely on their UART link for: frames arrive      *)
(* whole, in the order in which they were sent, each at most once, and     *)
(* what disturbs the line costs a bounded number of frames each time.      *)
(* A frame that was never sent can only come of a disturbed line.          *)
(***************************************************************************)
EXTENDS Naturals

CONSTANT Cost     \* frames a disturbance may cost

VARIABLES
  sent,      \* frames sent so far, numbered from 1
  taken,     \* the last frame that was delivered
  lost,      \* frames passed over
  hurts,     \* disturbances of the line
  invented   \* frames delivered that nobody sent

vars == <<sent, taken, lost, hurts, invented>>

Init == sent = 0 /\ taken = 0 /\ lost = 0 /\ hurts = 0 /\ invented = 0

Send == sent' = sent + 1 /\ UNCHANGED <<taken, lost, hurts, invented>>

Disturb == hurts' = hurts + 1 /\ UNCHANGED <<sent, taken, lost, invented>>

Deliver ==
  \E frame \in taken + 1..sent :
    /\ taken' = frame
    /\ lost' = lost + (frame - taken - 1)
    /\ lost' <= Cost * hurts
    /\ UNCHANGED <<sent, hurts, invented>>

Invent ==
  /\ hurts > 0
  /\ hurts' = hurts + 1
  /\ invented' = invented + 1
  /\ UNCHANGED <<sent, taken, lost>>

Next == Send \/ Disturb \/ Deliver \/ Invent

Spec == Init /\ [][Next]_vars
=============================================================================
