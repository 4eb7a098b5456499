---------------------------- MODULE ErrorContext ----------------------------
(***************************************************************************)
(* The error context of src/error/s2n_errno.h: what a raise records for    *)
(* the thread that raised.  _S2N_ERROR(x) takes four steps: it stores the  *)
(* debug line "Error encountered in <__FILE__>:<__LINE__>" in              *)
(* _s2n_debug_info.debug_str, points _s2n_debug_info.source at the         *)
(* basename part of what debug_str now holds, sets s2n_errno, and calls    *)
(* s2n_calculate_stacktrace, which captures a trace only while the         *)
(* process-wide toggle is on.  Several threads raise concurrently; any     *)
(* thread may switch the toggle, reset its debug info or free its trace.  *)
(*                                                                         *)
(* The debug line is the raise site, a record of the path of __FILE__ as a *)
(* sequence of path components and the line number.                       *)
(***************************************************************************)
EXTENDS Sequences, SequencesExt

CONSTANTS
  Threads,            \* threads that raise errors
  Sites,              \* raise sites: [path: Seq(component), line: Nat]
  Errors,             \* error codes passed to the macro
  S2N_ERR_OK,         \* s2n_errno before any raise
  NOSTR,              \* a debug_str or source that holds no debug line
  NOTRACE             \* no stack trace captured

VARIABLES
  s2n_errno,          \* per thread (api/s2n.h declares it __thread)
  debug_str,          \* per storage cell of _s2n_debug_info
  source,             \* per storage cell of _s2n_debug_info
  trace,              \* per thread: the site the captured trace was taken at
  stack_traces_enabled,  \* process-wide toggle
  pc,                 \* per thread: the next step of _S2N_ERROR, or "idle"
  raising,            \* per thread: site and code of its latest raise
  saved               \* per thread: its context as it was before the raise in progress

vars == <<s2n_errno, debug_str, source, trace, stack_traces_enabled, pc, raising, saved>>

\* Bug variant: strrchr's result used without the + 1, keeping the '/'.
Basename_keep_slash(d) ==
  IF d = NOSTR THEN NOSTR
  ELSE [file |-> IF Len(d.path) > 1 THEN "/" \o Last(d.path) ELSE Last(d.path),
        line |-> d.line]

\* _S2N_EXTRACT_BASENAME: skip the prefix, then keep what follows the last
\* '/' (strrchr), or everything when the path has no '/'.  The result is
\* "<file>:<line>".  A cleared debug_str yields no debug line either.
Basename(d) == IF d = NOSTR THEN NOSTR ELSE [file |-> Last(d.path), line |-> d.line]

NoRaise == [site |-> NOSTR, code |-> S2N_ERR_OK]

\* The context of a thread that never raised.
NoContext == [errno |-> S2N_ERR_OK, line |-> NOSTR, trace |-> NOTRACE]

TypeOK ==
  /\ s2n_errno \in [Threads -> Errors \cup {S2N_ERR_OK}]
  /\ debug_str \in [Threads -> Sites \cup {NOSTR}]
  /\ source \in [Threads -> [file: {Last(s.path) : s \in Sites}, line: Nat] \cup {NOSTR}]
  /\ trace \in [Threads -> Sites \cup {NOTRACE}]
  /\ stack_traces_enabled \in BOOLEAN
  /\ pc \in [Threads -> {"idle", "source", "errno", "trace"}]
  /\ raising \in [Threads -> [site: Sites, code: Errors] \cup {NoRaise}]
  /\ saved \in [Threads -> [errno: Errors \cup {S2N_ERR_OK},
                            line: [file: {Last(s.path) : s \in Sites}, line: Nat] \cup {NOSTR},
                            trace: Sites \cup {NOTRACE}]]

\* The storage _s2n_debug_info of thread t refers to: __thread gives every
\* thread its own.
DebugInfoCell(t) == t

\* The context thread t reads once its raise has returned.
Context(t) == [errno |-> s2n_errno[t], line |-> source[DebugInfoCell(t)], trace |-> trace[t]]

-----------------------------------------------------------------------------
(* The four steps of _S2N_ERROR(x), raised at site s by thread t.          *)

\* _s2n_debug_info.debug_str = _S2N_DEBUG_LINE
S2N_ERROR(t, s, x) ==
  /\ pc[t] = "idle"
  /\ debug_str' = [debug_str EXCEPT ![DebugInfoCell(t)] = s]
  /\ raising' = [raising EXCEPT ![t] = [site |-> s, code |-> x]]
  /\ pc' = [pc EXCEPT ![t] = "source"]
  /\ saved' = [saved EXCEPT ![t] = Context(t)]
  /\ UNCHANGED <<s2n_errno, source, trace, stack_traces_enabled>>

\* _s2n_debug_info.source = _S2N_EXTRACT_BASENAME(_s2n_debug_info.debug_str):
\* debug_str is read back from storage.
ExtractBasename(t) ==
  /\ pc[t] = "source"
  /\ source' = [source EXCEPT ![DebugInfoCell(t)] =
                  Basename(debug_str[DebugInfoCell(t)])]
  /\ pc' = [pc EXCEPT ![t] = "errno"]
  /\ UNCHANGED <<s2n_errno, debug_str, trace, stack_traces_enabled, raising, saved>>

\* s2n_errno = (x)
SetErrno(t) ==
  /\ pc[t] = "errno"
  /\ s2n_errno' = [s2n_errno EXCEPT ![t] = raising[t].code]
  /\ pc' = [pc EXCEPT ![t] = "trace"]
  /\ UNCHANGED <<debug_str, source, trace, stack_traces_enabled, raising, saved>>

\* Bug variant: the toggle not consulted, a trace captured on every raise.
s2n_calculate_stacktrace_always(t) ==
  /\ pc[t] = "trace"
  /\ trace' = [trace EXCEPT ![t] = raising[t].site]
  /\ pc' = [pc EXCEPT ![t] = "idle"]
  /\ saved' = [saved EXCEPT ![t] = NoContext]
  /\ UNCHANGED <<s2n_errno, debug_str, source, stack_traces_enabled, raising>>

\* s2n_calculate_stacktrace(), then return -1: a trace of the raise is
\* captured when the toggle is on, else the function returns at once.
s2n_calculate_stacktrace(t) ==
  /\ pc[t] = "trace"
  /\ trace' = IF stack_traces_enabled
              THEN [trace EXCEPT ![t] = raising[t].site] ELSE trace
  /\ pc' = [pc EXCEPT ![t] = "idle"]
  /\ saved' = [saved EXCEPT ![t] = NoContext]
  /\ UNCHANGED <<s2n_errno, debug_str, source, stack_traces_enabled, raising>>

-----------------------------------------------------------------------------
(* The other operations on the context.                                    *)

\* s2n_debug_info_reset: clears the calling thread's debug info.
s2n_debug_info_reset(t) ==
  /\ pc[t] = "idle"
  /\ debug_str' = [debug_str EXCEPT ![DebugInfoCell(t)] = NOSTR]
  /\ source' = [source EXCEPT ![DebugInfoCell(t)] = NOSTR]
  /\ UNCHANGED <<s2n_errno, trace, stack_traces_enabled, pc, raising, saved>>

\* s2n_free_stacktrace: drops the calling thread's trace.
s2n_free_stacktrace(t) ==
  /\ pc[t] = "idle"
  /\ trace' = [trace EXCEPT ![t] = NOTRACE]
  /\ UNCHANGED <<s2n_errno, debug_str, source, stack_traces_enabled, pc, raising, saved>>

\* s2n_stack_traces_enabled_set: any thread, at any time.
s2n_stack_traces_enabled_set(b) ==
  /\ stack_traces_enabled' = b
  /\ UNCHANGED <<s2n_errno, debug_str, source, trace, pc, raising, saved>>

Init ==
  /\ s2n_errno = [t \in Threads |-> S2N_ERR_OK]
  /\ debug_str = [t \in Threads |-> NOSTR]
  /\ source = [t \in Threads |-> NOSTR]
  /\ trace = [t \in Threads |-> NOTRACE]
  /\ stack_traces_enabled = FALSE
  /\ pc = [t \in Threads |-> "idle"]
  /\ raising = [t \in Threads |-> NoRaise]
  /\ saved = [t \in Threads |-> NoContext]

Next ==
  \/ \E t \in Threads, s \in Sites, x \in Errors : S2N_ERROR(t, s, x)
  \/ \E t \in Threads :
       \/ ExtractBasename(t)
       \/ SetErrno(t)
       \/ s2n_calculate_stacktrace(t)
       \/ s2n_debug_info_reset(t)
       \/ s2n_free_stacktrace(t)
  \/ \E b \in BOOLEAN : s2n_stack_traces_enabled_set(b)

Spec == Init /\ [][Next]_vars

-----------------------------------------------------------------------------
(* Properties.                                                             *)

\* A thread inside _S2N_ERROR still has, to the contract, the context it had
\* before the raise; the raise takes effect at its last step.
ContractView(t) == IF pc[t] = "idle" THEN Context(t) ELSE saved[t]

ABS == INSTANCE ErrorContextContract
         WITH ctx <- [t \in Threads |-> ContractView(t)],
              enabled <- stack_traces_enabled, RaisedAt <- Basename

\* Spec section 4.2: the four steps of _S2N_ERROR, interleaved with any
\* steps of other threads, act on the raising thread's context as one
\* atomic raise that records code and "file:line" and captures a trace only
\* while the toggle is on; reset, freeing the trace and the toggle act as
\* the contract says, and no thread's step changes another's context.
Refinement == ABS!Spec

\* Spec section 3: the error context, captured stack trace included, is
\* "overwritten on every raise".  s2n_calculate_stacktrace captures only
\* while the process-wide toggle is on, so a trace a thread holds may be
\* one taken at an earlier raise.
SpecTraceOfLastRaise ==
  \A t \in Threads :
    pc[t] = "idle" /\ trace[t] # NOTRACE => trace[t] = raising[t].site
=============================================================================
