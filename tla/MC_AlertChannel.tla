-------------------------- MODULE MC_AlertChannel --------------------------
(* Model-checking instance of AlertChannel: the sender writes up to three  *)
(* alerts (a reader alert, the close_notify and one more after a flush),   *)
(* delivered in records of one or two bytes, so that alerts are split and  *)
(* coalesced.                                                              *)
EXTENDS AlertChannel

MCMaxSent == 3
MCMaxRecord == 2
=============================================================================
