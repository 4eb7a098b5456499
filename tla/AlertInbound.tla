---------------------------- MODULE AlertInbound ----------------------------
(***************************************************************************)
(* The inbound half of the TLS alert protocol, s2n_process_alert_fragment  *)
(* of src/tls/s2n_alerts.c, with its environment.                          *)
(*                                                                         *)
(* The peer writes 2-byte alerts to the wire; the record layer cuts the    *)
(* byte stream into alert records of any length and hands one record at a  *)
(* time to the connection as conn->in; the caller invokes                  *)
(* s2n_process_alert_fragment at any time.  The function moves bytes from  *)
(* conn->in into the 2-byte reassembly stuffer conn->alert_in and, once it *)
(* holds a whole alert, handles it: close_notify closes the connection, a  *)
(* tolerated warning is wiped, anything else evicts the cached session and *)
(* fails with S2N_ERR_ALERT.                                               *)
(***************************************************************************)
EXTENDS TlsAlertWire

CONSTANTS
  MaxAlerts,          \* how many alerts the peer sends at most
  MaxRecord,          \* longest alert record the record layer delivers
  Levels,             \* level bytes the peer may send
  Descriptions        \* description bytes the peer may send

ASSUME MaxAlerts \in Nat /\ MaxRecord \in Nat \ {0}

VARIABLES
  config,             \* version, QUIC mode, alert_behavior, session cache
  wire,               \* bytes the peer sent that no record carried yet
  sent,               \* how many alerts the peer has sent
  in,                 \* conn->in: unread bytes of the current alert record
  alert_in,           \* conn->alert_in: bytes of the alert being reassembled
  closed,             \* conn->closed
  close_notify_received,
  evictions,          \* calls of conn->config->cache_delete
  result              \* what the last call of s2n_process_alert_fragment returned

vars == <<config, wire, sent, in, alert_in, closed, close_notify_received,
          evictions, result>>

Configs ==
  [version: {S2N_SSLv3, S2N_TLS12, S2N_TLS13},
   quic: BOOLEAN,
   ignore_warnings: BOOLEAN,   \* alert_behavior = S2N_ALERT_IGNORE_WARNINGS
   caching_allowed: BOOLEAN,   \* s2n_allowed_to_cache_connection(conn)
   session_id_len: {0, 32}]

Results == {"NONE", "OK", "BAD_MESSAGE", "ALERT_PRESENT", "ALERT"}

Bytes == Levels \cup Descriptions

TypeOK ==
  /\ config \in Configs
  /\ wire \in Seq(Bytes)
  /\ sent \in 0..MaxAlerts
  /\ in \in Seq(Bytes)
  /\ alert_in \in Seq(Bytes) /\ Len(alert_in) <= S2N_ALERT_LENGTH
  /\ closed \in BOOLEAN
  /\ close_notify_received \in BOOLEAN
  /\ evictions \in Nat
  /\ result \in Results

-----------------------------------------------------------------------------
(* The helpers of s2n_process_alert_fragment.                              *)

\* s2n_alerts_supported: under QUIC, QUIC does the alerting.
s2n_alerts_supported == ~config.quic

\* Bug variant: TLS1.3 taken for a version that still reads the level byte.
s2n_process_as_warning_tls13_level(level, type) ==
  IF config.version <= S2N_TLS13
  THEN level = S2N_TLS_ALERT_LEVEL_WARNING /\ config.ignore_warnings
  ELSE type = S2N_TLS_ALERT_USER_CANCELED

\* s2n_process_as_warning: only TLS1.2 and below look at the level byte.
s2n_process_as_warning(level, type) ==
  IF config.version < S2N_TLS13
  THEN level = S2N_TLS_ALERT_LEVEL_WARNING /\ config.ignore_warnings
  ELSE type = S2N_TLS_ALERT_USER_CANCELED

\* Bug variant: always asks for two bytes, also to complete a half alert.
BytesRequired_always_two(buf) == 2

\* bytes_required of the read loop: complete a half-read alert, else read two.
BytesRequired(buf) == IF Len(buf) = 1 THEN 1 ELSE 2

\* The while loop of s2n_process_alert_fragment, up to the point where
\* alert_in holds a whole alert or conn->in is drained: the pair of what is
\* left of conn->in and the bytes in alert_in.
RECURSIVE ReadAlertBytes(_, _)
ReadAlertBytes(inb, buf) ==
  IF Len(inb) = 0 \/ Len(buf) = S2N_ALERT_LENGTH
  THEN <<inb, buf>>
  ELSE LET n == MIN(BytesRequired(buf), Len(inb))
       IN ReadAlertBytes(SubSeq(inb, n + 1, Len(inb)), buf \o SubSeq(inb, 1, n))

\* Bug variant: evicts without checking that there is a session id.
HandleAlert_no_session_id_check(a) ==
  \/ /\ a[2] = S2N_TLS_ALERT_CLOSE_NOTIFY
     /\ closed' = TRUE
     /\ close_notify_received' = TRUE
     /\ alert_in' = a
     /\ result' = "OK"
     /\ UNCHANGED evictions
  \/ /\ a[2] # S2N_TLS_ALERT_CLOSE_NOTIFY
     /\ s2n_process_as_warning(a[1], a[2])
     /\ alert_in' = <<>>
     /\ result' = "OK"
     /\ UNCHANGED <<closed, close_notify_received, evictions>>
  \/ /\ a[2] # S2N_TLS_ALERT_CLOSE_NOTIFY
     /\ ~s2n_process_as_warning(a[1], a[2])
     /\ evictions' = IF config.caching_allowed THEN evictions + 1 ELSE evictions
     /\ closed' = TRUE
     /\ alert_in' = a
     /\ result' = "ALERT"
     /\ UNCHANGED close_notify_received

\* The whole alert in alert_in is handled (lines 217-240).
HandleAlert(a) ==
  \/ /\ a[2] = S2N_TLS_ALERT_CLOSE_NOTIFY
     /\ closed' = TRUE
     /\ close_notify_received' = TRUE
     /\ alert_in' = a
     /\ result' = "OK"
     /\ UNCHANGED evictions
  \/ /\ a[2] # S2N_TLS_ALERT_CLOSE_NOTIFY
     /\ s2n_process_as_warning(a[1], a[2])
     /\ alert_in' = <<>>
     /\ result' = "OK"
     /\ UNCHANGED <<closed, close_notify_received, evictions>>
  \/ /\ a[2] # S2N_TLS_ALERT_CLOSE_NOTIFY
     /\ ~s2n_process_as_warning(a[1], a[2])
     /\ evictions' = IF config.caching_allowed /\ config.session_id_len # 0
                     THEN evictions + 1 ELSE evictions
     /\ closed' = TRUE
     /\ alert_in' = a
     /\ result' = "ALERT"
     /\ UNCHANGED close_notify_received

Rejected(err) ==
  /\ result' = err
  /\ UNCHANGED <<in, alert_in, closed, close_notify_received, evictions>>

s2n_process_alert_fragment ==
  /\ \/ /\ Len(in) = 0
        /\ Rejected("BAD_MESSAGE")
     \/ /\ Len(in) # 0
        /\ Len(alert_in) = S2N_ALERT_LENGTH
        /\ Rejected("ALERT_PRESENT")
     \/ /\ Len(in) # 0
        /\ Len(alert_in) # S2N_ALERT_LENGTH
        /\ ~s2n_alerts_supported
        /\ Rejected("BAD_MESSAGE")
     \/ /\ Len(in) # 0
        /\ Len(alert_in) # S2N_ALERT_LENGTH
        /\ s2n_alerts_supported
        /\ LET r == ReadAlertBytes(in, alert_in) IN
           /\ in' = r[1]
           /\ \/ /\ Len(r[2]) # S2N_ALERT_LENGTH
                 /\ alert_in' = r[2]
                 /\ result' = "OK"
                 /\ UNCHANGED <<closed, close_notify_received, evictions>>
              \/ /\ Len(r[2]) = S2N_ALERT_LENGTH
                 /\ HandleAlert(r[2])
  /\ UNCHANGED <<config, wire, sent>>

-----------------------------------------------------------------------------
(* The environment: the peer and the record layer.                         *)

PeerSendAlert(l, d) ==
  /\ sent < MaxAlerts
  /\ wire' = wire \o <<l, d>>
  /\ sent' = sent + 1
  /\ UNCHANGED <<config, in, alert_in, closed, close_notify_received,
                 evictions, result>>

\* The record layer reads the next alert record, of any length the peer
\* chose, once the previous one is consumed.
RecvAlertRecord(n) ==
  /\ in = <<>>
  /\ n <= Len(wire)
  /\ in' = SubSeq(wire, 1, n)
  /\ wire' = SubSeq(wire, n + 1, Len(wire))
  /\ UNCHANGED <<config, sent, alert_in, closed, close_notify_received,
                 evictions, result>>

Init ==
  /\ config \in Configs
  /\ wire = <<>>
  /\ sent = 0
  /\ in = <<>>
  /\ alert_in = <<>>
  /\ closed = FALSE
  /\ close_notify_received = FALSE
  /\ evictions = 0
  /\ result = "NONE"

Next ==
  \/ \E l \in Levels, d \in Descriptions : PeerSendAlert(l, d)
  \/ \E n \in 1..MaxRecord : RecvAlertRecord(n)
  \/ s2n_process_alert_fragment

\* The caller's I/O loop keeps reading records and processing them.
Fairness ==
  /\ WF_vars(\E n \in 1..MaxRecord : RecvAlertRecord(n))
  /\ WF_vars(s2n_process_alert_fragment)

Spec == Init /\ [][Next]_vars /\ Fairness

-----------------------------------------------------------------------------
(* Properties.                                                             *)

\* The bytes of alerts not handled yet: a whole alert left in alert_in has
\* been handled already.
PendingBytes ==
  (IF Len(alert_in) = S2N_ALERT_LENGTH THEN <<>> ELSE alert_in) \o in \o wire

ABS == INSTANCE AlertReceive WITH pending <- Alerts(PendingBytes)

\* Fragmentation equivalence (spec section 8): whatever records the peer's
\* bytes arrive in, s2n_process_alert_fragment handles the alerts as whole
\* alerts, in the order sent, with the outcome of the tie-break rule, and
\* handles every alert sent to an open connection eventually.
Refinement == ABS!Spec

\* RFC 5077 5.1 as done at line 233: the session cache is asked to delete
\* the session exactly when a connection that may cache, and has a session
\* id, is closed by an alert other than close_notify, and at most once.
EvictionOnlyOnFatalAlert ==
  evictions = IF closed /\ ~close_notify_received
                 /\ config.caching_allowed /\ config.session_id_len # 0
              THEN 1 ELSE 0

(* Two statements of spec.md that the code does not meet; each is checked  *)
(* by a run that expects TLC to find it violated.                          *)

\* Spec section 4.4: "a correctly-leveled no_renegotiation alert never
\* triggers connection closure regardless of version or configuration".
\* s2n_process_alert_fragment has no such exception (the check it refers to
\* is in s2n_alerts_close_if_fatal, which looks at alerts being sent).
SpecNoRenegotiationWarningKeepsOpen ==
  ~(result = "ALERT"
    /\ alert_in = <<S2N_TLS_ALERT_LEVEL_WARNING, S2N_TLS_ALERT_NO_RENEGOTIATION>>)

\* Spec section 3: once alert_in holds two bytes they are "immediately
\* interpreted and cleared before further input is consumed".  After a
\* close_notify the code returns at line 223 without wiping alert_in.
SpecAlertBufferClearedAfterHandling ==
  result = "OK" => Len(alert_in) < S2N_ALERT_LENGTH
=============================================================================
