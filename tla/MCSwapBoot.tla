----------------------------- MODULE MCSwapBoot -----------------------------
(***************************************************************************)
(* Instances of SwapBoot for TLC: three-page partitions and four images,   *)
(* small and full, both working, early, which stops before it confirms its *)
(* boot, and stuck, which hangs in init.  Sizes differ so that a slot may  *)
(* hold pages past its image.                                              *)
(***************************************************************************)
EXTENDS SwapBoot, TLC

CONSTANTS small, full, early, stuck

MCImages == {small, full, early, stuck}
MCSize == (small :> 1) @@ (full :> 3) @@ (early :> 2) @@ (stuck :> 1)

\* Failures while DFU still holds the page being installed: the old page is lost.
LossKeepsNew == SafePoints \cup ({"swap"} \X {"installing", "giveback"})

\* One point more, each in turn.
LossInstalling == SafePoints \cup {<<"swap", "installing">>}
LossGivingback == SafePoints \cup {<<"swap", "givingback">>}
LossBeforeMark == SafePoints \cup {<<"swap", "mark">>}
LossMarking == SafePoints \cup {<<"swap", "marking">>}
=============================================================================
