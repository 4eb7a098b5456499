----------------------------- MODULE ErrorAlert -----------------------------
(***************************************************************************)
(* The error registry of src/error/s2n_errno.h and the error-to-alert      *)
(* translation s2n_error_get_alert of src/tls/s2n_alerts.c.                *)
(*                                                                         *)
(* An s2n error is a 32-bit int: the category in bits 31-26, the value     *)
(* within the category in bits 25-0.  The enum s2n_error numbers the       *)
(* errors of each category consecutively from the category's start; the    *)
(* model keeps each category's size and the offsets of the protocol errors *)
(* the translation table names, not the 250 names themselves.              *)
(*                                                                         *)
(* State: the thread's s2n_errno, set by the raise macro and by the        *)
(* failures of s2n_error_get_alert itself, and the outcome of the          *)
(* application's last call s2n_error_get_alert(error, &alert): the         *)
(* argument, the return code and the caller's alert byte, which the call   *)
(* may leave as the caller declared it (uninitialised).                    *)
(***************************************************************************)
EXTENDS Integers, TlsAlertWire

CONSTANT
  UNINIT              \* the caller's alert byte before the call wrote it

\* enum s2n_error_type of api/s2n.h, in the order spec section 3 gives.
S2N_ERR_T_OK == 0
S2N_ERR_T_IO == 1
S2N_ERR_T_CLOSED == 2
S2N_ERR_T_BLOCKED == 3
S2N_ERR_T_ALERT == 4
S2N_ERR_T_PROTO == 5
S2N_ERR_T_INTERNAL == 6
S2N_ERR_T_USAGE == 7
ErrorTypes == S2N_ERR_T_OK..S2N_ERR_T_USAGE

S2N_ERR_NUM_VALUE_BITS == 26

\* S2N_ERR_T_<type>_START: the category shifted into the top bits.
TypeStart(t) == t * 2^S2N_ERR_NUM_VALUE_BITS

\* How many errors enum s2n_error declares in each category, _END excluded.
TypeSize == [t \in ErrorTypes |->
               CASE t = S2N_ERR_T_BLOCKED  -> 4
                 [] t = S2N_ERR_T_PROTO    -> 76
                 [] t = S2N_ERR_T_INTERNAL -> 87
                 [] t = S2N_ERR_T_USAGE    -> 86
                 [] OTHER                  -> 1]

\* The values enum s2n_error gives the errors of category t.
TypeErrors(t) == TypeStart(t)..(TypeStart(t) + TypeSize[t] - 1)
DefinedErrors == UNION {TypeErrors(t) : t \in ErrorTypes}

\* Protocol errors by their place in the S2N_ERR_T_PROTO block.
Proto(i) == TypeStart(S2N_ERR_T_PROTO) + i
S2N_ERR_BAD_MESSAGE == Proto(2)
S2N_ERR_MISSING_EXTENSION == Proto(69)
S2N_ERR_NO_RENEGOTIATION == Proto(74)
S2N_ERR_ALERT == TypeStart(S2N_ERR_T_ALERT)
S2N_ERR_UNIMPLEMENTED == TypeStart(S2N_ERR_T_INTERNAL) + 47
S2N_ERR_NO_ALERT == TypeStart(S2N_ERR_T_USAGE)

\* The protocol errors listed with S2N_NO_ALERT, lines 67-130.
NoAlertProtoErrors ==
  {Proto(i) : i \in {0, 1} \cup 4..26 \cup 28..43 \cup 45..48 \cup 50..53
                     \cup 58..68 \cup 70..73}

\* Ints an application may pass that are no s2n error: negative, and the
\* first and last int past S2N_ERR_T_USAGE.
Int32Max == 2147483647   \* 2^31 - 1, INT_MAX
OutOfRangeInts == {-1, TypeStart(S2N_ERR_T_USAGE + 1), Int32Max}

VARIABLES
  s2n_errno,          \* the thread-local s2n_errno
  arg,                \* the error passed to the last s2n_error_get_alert
  rc,                 \* what that call returned
  call_errno,         \* s2n_errno when that call returned
  alert               \* the caller's alert byte after that call

vars == <<s2n_errno, arg, rc, call_errno, alert>>

TypeOK ==
  /\ s2n_errno \in DefinedErrors
  /\ arg \in DefinedErrors \cup OutOfRangeInts \cup {UNINIT}
  /\ rc \in {"NONE", "S2N_SUCCESS", "S2N_FAILURE"}
  /\ call_errno \in DefinedErrors \cup {UNINIT}
  /\ alert \in {UNINIT, S2N_TLS_ALERT_UNEXPECTED_MESSAGE,
                S2N_TLS_ALERT_HANDSHAKE_FAILURE, S2N_TLS_ALERT_INTERNAL_ERROR,
                S2N_TLS_ALERT_MISSING_EXTENSION}

-----------------------------------------------------------------------------

\* s2n_error_get_type: error >> S2N_ERR_NUM_VALUE_BITS, an arithmetic shift
\* of an int (floor division also for negative ints).
s2n_error_get_type(error) == error \div 2^S2N_ERR_NUM_VALUE_BITS

\* Outcome of a call: the return code, the error it bails with, and the
\* alert byte it writes (UNINIT when it writes none).
Outcome(code, err, a) == [rc |-> code, err |-> err, alert |-> a]
Bail(err) == Outcome("S2N_FAILURE", err, UNINIT)
Alert(a) == Outcome("S2N_SUCCESS", UNINIT, a)

\* Bug variant: the fix the TODO of lines 49-54 considers, bad_message sent
\* as illegal_parameter (47).
s2n_translate_protocol_error_to_alert_illegal(error_code) ==
  CASE error_code = S2N_ERR_MISSING_EXTENSION -> Alert(S2N_TLS_ALERT_MISSING_EXTENSION)
    [] error_code = S2N_ERR_BAD_MESSAGE -> Alert(47)
    [] error_code = S2N_ERR_NO_RENEGOTIATION -> Alert(S2N_TLS_ALERT_HANDSHAKE_FAILURE)
    [] error_code \in NoAlertProtoErrors -> Bail(S2N_ERR_NO_ALERT)
    [] OTHER -> Bail(S2N_ERR_UNIMPLEMENTED)

\* s2n_translate_protocol_error_to_alert: the switch of lines 46-133.
s2n_translate_protocol_error_to_alert(error_code) ==
  CASE error_code = S2N_ERR_MISSING_EXTENSION -> Alert(S2N_TLS_ALERT_MISSING_EXTENSION)
    [] error_code = S2N_ERR_BAD_MESSAGE -> Alert(S2N_TLS_ALERT_UNEXPECTED_MESSAGE)
    [] error_code = S2N_ERR_NO_RENEGOTIATION -> Alert(S2N_TLS_ALERT_HANDSHAKE_FAILURE)
    [] error_code \in NoAlertProtoErrors -> Bail(S2N_ERR_NO_ALERT)
    [] OTHER -> Bail(S2N_ERR_UNIMPLEMENTED)

\* Bug variant: S2N_ERR_T_ALERT grouped with the internal errors.
s2n_error_get_alert_alert_internal(error) ==
  LET error_type == s2n_error_get_type(error) IN
  CASE error_type \in {S2N_ERR_T_OK, S2N_ERR_T_CLOSED, S2N_ERR_T_BLOCKED,
                       S2N_ERR_T_USAGE} -> Bail(S2N_ERR_NO_ALERT)
    [] error_type = S2N_ERR_T_PROTO -> s2n_translate_protocol_error_to_alert(error)
    [] error_type \in {S2N_ERR_T_IO, S2N_ERR_T_INTERNAL, S2N_ERR_T_ALERT} -> Alert(S2N_TLS_ALERT_INTERNAL_ERROR)
    [] OTHER -> Outcome("S2N_SUCCESS", UNINIT, UNINIT)

\* s2n_error_get_alert: the switch on the category has no default, so a
\* category outside the enum falls through to return S2N_SUCCESS.
s2n_error_get_alert(error) ==
  LET error_type == s2n_error_get_type(error) IN
  CASE error_type \in {S2N_ERR_T_OK, S2N_ERR_T_CLOSED, S2N_ERR_T_BLOCKED,
                       S2N_ERR_T_USAGE, S2N_ERR_T_ALERT} -> Bail(S2N_ERR_NO_ALERT)
    [] error_type = S2N_ERR_T_PROTO -> s2n_translate_protocol_error_to_alert(error)
    [] error_type \in {S2N_ERR_T_IO, S2N_ERR_T_INTERNAL} -> Alert(S2N_TLS_ALERT_INTERNAL_ERROR)
    [] OTHER -> Outcome("S2N_SUCCESS", UNINIT, UNINIT)

-----------------------------------------------------------------------------

Init ==
  /\ s2n_errno = TypeStart(S2N_ERR_T_OK)
  /\ arg = UNINIT
  /\ rc = "NONE"
  /\ call_errno = UNINIT
  /\ alert = UNINIT

\* _S2N_ERROR(x), the raise behind every BAIL: a subsystem fails with x.
S2N_ERROR(x) ==
  /\ s2n_errno' = x
  /\ UNCHANGED <<arg, rc, call_errno, alert>>

\* The application asks which alert an error calls for, with a fresh,
\* uninitialised alert byte; a failing call sets s2n_errno.
CallGetAlert(error) ==
  LET out == s2n_error_get_alert(error) IN
  /\ arg' = error
  /\ rc' = out.rc
  /\ alert' = out.alert
  /\ s2n_errno' = IF out.rc = "S2N_FAILURE" THEN out.err ELSE s2n_errno
  /\ call_errno' = s2n_errno'

Next ==
  \/ \E x \in DefinedErrors : S2N_ERROR(x)
  \/ CallGetAlert(s2n_errno)
  \/ \E i \in OutOfRangeInts : CallGetAlert(i)

Spec == Init /\ [][Next]_vars

-----------------------------------------------------------------------------
(* Properties.                                                             *)

\* The category an error is declared in: the block of enum s2n_error whose
\* range holds it.
DeclaredType(e) == CHOOSE t \in ErrorTypes : e \in TypeErrors(t)

\* Spec section 4.3, written from the spec's words: IO and INTERNAL errors
\* become internal_error, the three documented protocol errors their
\* alerts, and nothing else becomes an alert.
SpecAlertFor(e) ==
  LET t == DeclaredType(e) IN
  CASE t \in {S2N_ERR_T_IO, S2N_ERR_T_INTERNAL} -> S2N_TLS_ALERT_INTERNAL_ERROR
    [] e = S2N_ERR_MISSING_EXTENSION -> S2N_TLS_ALERT_MISSING_EXTENSION
    [] e = S2N_ERR_BAD_MESSAGE -> S2N_TLS_ALERT_UNEXPECTED_MESSAGE
    [] e = S2N_ERR_NO_RENEGOTIATION -> S2N_TLS_ALERT_HANDSHAKE_FAILURE
    [] OTHER -> UNINIT

\* The translation s2n_error_get_alert makes of every s2n error the
\* application passes is the one spec section 4.3 gives: success with the
\* right alert exactly for translatable errors, failure with S2N_ERR_NO_ALERT
\* or S2N_ERR_UNIMPLEMENTED in s2n_errno otherwise.
GetAlertMatchesSpec ==
  arg \in DefinedErrors =>
    IF SpecAlertFor(arg) # UNINIT
    THEN rc = "S2N_SUCCESS" /\ alert = SpecAlertFor(arg)
    ELSE rc = "S2N_FAILURE" /\ call_errno \in {S2N_ERR_NO_ALERT, S2N_ERR_UNIMPLEMENTED}

\* Spec section 8: "every PROTOCOL error constant must appear in either the
\* mapped table or an explicit unmapped list", so that no protocol error
\* reaches the S2N_ERR_UNIMPLEMENTED default of line 133.
SpecEveryProtoErrorDecided ==
  ~(arg \in TypeErrors(S2N_ERR_T_PROTO) /\ call_errno = S2N_ERR_UNIMPLEMENTED)

\* Spec section 4.1 asks for defensive handling of ints that are no error;
\* a caller of s2n_error_get_alert reads the alert byte whenever it
\* returns S2N_SUCCESS, so success must mean the byte was written.
SuccessWritesAlert ==
  rc = "S2N_SUCCESS" => alert # UNINIT
=============================================================================
