---------------------------- MODULE AtomicUpdate ----------------------------
(***************************************************************************)
(* What a firmware update of the WIO-E5 promises to the field: the image   *)
(* that runs changes as a whole, from one complete image to another, and a *)
(* new image that does not confirm its boot gives way to the image it      *)
(* replaced.  Flash pages, the scratch page and the boot-state page do not *)
(* appear here; SwapBoot is the mechanism that has to implement this.      *)
(***************************************************************************)

CONSTANTS
  Images,   \* application images
  NoImage   \* not one of them

VARIABLES
  phase,    \* "confirmed", "installing", "trial" or "failed"
  current,  \* the image a boot would run, NoImage before there is any
  other,    \* installing: the image to install; trial, failed: the one to fall back to
  running   \* the image that runs, NoImage while none does

vars == <<phase, current, other, running>>

Init ==
  /\ phase = "confirmed"
  /\ current \in Images \cup {NoImage}
  /\ other = NoImage
  /\ running = NoImage

\* The boot loader hands over to the image.
Boot ==
  /\ phase \in {"confirmed", "trial"}
  /\ current # NoImage
  /\ running = NoImage
  /\ running' = current
  /\ UNCHANGED <<phase, current, other>>

\* A reset or a power failure; an image on trial has failed by it, whether it
\* had started to run or not.
Stop ==
  /\ running # NoImage \/ phase = "trial"
  /\ running' = NoImage
  /\ phase' = IF phase = "trial" THEN "failed" ELSE phase
  /\ UNCHANGED <<current, other>>

Request(v) ==
  /\ phase = "confirmed"
  /\ running = current /\ running # NoImage
  /\ phase' = "installing"
  /\ other' = v
  /\ running' = NoImage
  /\ UNCHANGED current

Install ==
  /\ phase = "installing"
  /\ phase' = "trial"
  /\ current' = other
  /\ other' = current
  /\ UNCHANGED running

Confirm ==
  /\ phase = "trial"
  /\ running = current
  /\ phase' = "confirmed"
  /\ other' = NoImage
  /\ UNCHANGED <<current, running>>

Revert ==
  /\ phase = "failed"
  /\ phase' = "confirmed"
  /\ current' = other
  /\ other' = NoImage
  /\ UNCHANGED running

Next ==
  \/ Boot \/ Stop \/ Install \/ Confirm \/ Revert
  \/ \E v \in Images : Request(v)

Spec == Init /\ [][Next]_vars
=============================================================================
