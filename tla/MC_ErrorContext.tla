-------------------------- MODULE MC_ErrorContext --------------------------
(* Model-checking instance of ErrorContext: two threads raising at two     *)
(* sites of src/tls/s2n_alerts.c, one given with its directory and one as  *)
(* a bare file name (a __FILE__ with no '/').                              *)
EXTENDS ErrorContext

MCSites ==
  { [path |-> <<"s2n", "tls", "s2n_alerts.c">>, line |-> 201],
    [path |-> <<"s2n_alerts.c">>, line |-> 237] }
=============================================================================
