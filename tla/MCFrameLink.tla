---------------------------- MODULE MCFrameLink -----------------------------
(***************************************************************************)
(* The instance of FrameLink for TLC: payloads of no byte, of one, and of  *)
(* one more than the longest, which the builder cuts; a ring that holds no *)
(* frame but the shortest.                                                 *)
(***************************************************************************)
EXTENDS FrameLink
=============================================================================
