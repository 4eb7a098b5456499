---------------------------- MODULE TlsAlertWire ----------------------------
(***************************************************************************)
(* Wire values shared by the alert modules: the two alert levels defined  *)
(* in src/tls/s2n_alerts.c, and the alert descriptions and protocol        *)
(* versions s2n takes from tls/s2n_tls_parameters.h and api/s2n.h (RFC     *)
(* 8446 section 6 and RFC 5246 values).  An alert is the pair              *)
(* <<level, description>> of its two bytes.                                *)
(***************************************************************************)
EXTENDS Integers, Sequences

S2N_TLS_ALERT_LEVEL_WARNING == 1
S2N_TLS_ALERT_LEVEL_FATAL == 2

S2N_TLS_ALERT_CLOSE_NOTIFY == 0
S2N_TLS_ALERT_UNEXPECTED_MESSAGE == 10
S2N_TLS_ALERT_HANDSHAKE_FAILURE == 40
S2N_TLS_ALERT_PROTOCOL_VERSION == 70
S2N_TLS_ALERT_INTERNAL_ERROR == 80
S2N_TLS_ALERT_USER_CANCELED == 90
S2N_TLS_ALERT_NO_RENEGOTIATION == 100
S2N_TLS_ALERT_MISSING_EXTENSION == 109

S2N_SSLv3 == 30
S2N_TLS12 == 33
S2N_TLS13 == 34

S2N_ALERT_LENGTH == 2

\* The macro MIN of sys/param.h used when reading alert bytes.
MIN(a, b) == IF a < b THEN a ELSE b

\* The alerts carried by a byte sequence of even length, in order.
Alerts(bytes) == [i \in 1..(Len(bytes) \div 2) |-> <<bytes[2*i - 1], bytes[2*i]>>]
=============================================================================
