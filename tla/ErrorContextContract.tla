------------------------- MODULE ErrorContextContract -------------------------
(***************************************************************************)
(* What the error context promises (spec section 4.2), with no macro steps *)
(* and no storage: each thread owns a context of the current error code,   *)
(* the "raised at file:line" string (file name only) and an optional stack *)
(* trace.  A raise replaces the code and the string at once, and captures  *)
(* a trace only while the process-wide toggle is on.  Reset clears the     *)
(* string; freeing the trace drops it.  No operation of one thread changes *)
(* another thread's context.  ErrorContext implements this specification.  *)
(***************************************************************************)
CONSTANTS Threads, Sites, Errors, S2N_ERR_OK, NOSTR, NOTRACE

VARIABLES
  ctx,                \* per thread: [errno, line, trace]
  enabled             \* the process-wide stack-trace toggle

cvars == <<ctx, enabled>>

\* "raised at file:line" of a site, as the implementation derives it.
CONSTANT RaisedAt(_)

Init ==
  /\ ctx = [t \in Threads |-> [errno |-> S2N_ERR_OK, line |-> NOSTR, trace |-> NOTRACE]]
  /\ enabled = FALSE

Raise(t, s, x) ==
  /\ ctx' = [ctx EXCEPT ![t] = [errno |-> x, line |-> RaisedAt(s),
                                trace |-> IF enabled THEN s ELSE @.trace]]
  /\ UNCHANGED enabled

Reset(t) ==
  /\ ctx' = [ctx EXCEPT ![t].line = NOSTR]
  /\ UNCHANGED enabled

FreeTrace(t) ==
  /\ ctx' = [ctx EXCEPT ![t].trace = NOTRACE]
  /\ UNCHANGED enabled

SetEnabled(b) ==
  /\ enabled' = b
  /\ UNCHANGED ctx

Next ==
  \/ \E t \in Threads, s \in Sites, x \in Errors : Raise(t, s, x)
  \/ \E t \in Threads : Reset(t) \/ FreeTrace(t)
  \/ \E b \in BOOLEAN : SetEnabled(b)

Spec == Init /\ [][Next]_cvars
=============================================================================
