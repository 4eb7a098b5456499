--------------------------- MODULE MC_ErrorAlert ---------------------------
(* Model-checking instance of ErrorAlert: every error enum s2n_error       *)
(* declares is raised, and passed to s2n_error_get_alert.                  *)
EXTENDS ErrorAlert
=============================================================================
