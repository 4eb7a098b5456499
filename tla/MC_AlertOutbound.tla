-------------------------- MODULE MC_AlertOutbound --------------------------
(* Model-checking instance of AlertOutbound: four alerts written, enough   *)
(* for a reader alert, a close_notify, and a second round of both.         *)
EXTENDS AlertOutbound

MCMaxSent == 4
=============================================================================
