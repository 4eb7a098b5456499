---------------------------- MODULE AlertOutbound ----------------------------
(***************************************************************************)
(* The outbound half of the TLS alert protocol of src/tls/s2n_alerts.c:    *)
(* the two single-alert slots of a connection, conn->reader_alert_out      *)
(* (alerts for protocol errors found while reading) and                    *)
(* conn->writer_alert_out (the close_notify of a graceful shutdown), the   *)
(* functions that queue into them, and s2n_alerts_close_if_fatal, which    *)
(* decides whether an alert that was sent closes the connection.           *)
(*                                                                         *)
(* The slots are drained by s2n_flush (tls/s2n_send.c, not under src/),    *)
(* modelled from the spec: it writes the reader alert first, then the      *)
(* writer alert, to the peer and calls s2n_alerts_close_if_fatal on it.    *)
(***************************************************************************)
EXTENDS TlsAlertWire

CONSTANT
  MaxSent             \* how many alerts the connection writes at most

ASSUME MaxSent \in Nat \ {0}

VARIABLES
  config,             \* negotiated version and QUIC mode
  reader_alert_out,   \* conn->reader_alert_out
  writer_alert_out,   \* conn->writer_alert_out
  close_notify_queued,
  closing,            \* conn->closing
  to_peer,            \* the alerts written to the peer, in order
  flush_rc            \* what s2n_alerts_close_if_fatal returned last

vars == <<config, reader_alert_out, writer_alert_out, close_notify_queued,
          closing, to_peer, flush_rc>>

Configs == [version: {S2N_SSLv3, S2N_TLS12, S2N_TLS13}, quic: BOOLEAN]

AlertBytes == {S2N_TLS_ALERT_LEVEL_WARNING, S2N_TLS_ALERT_LEVEL_FATAL}
                \X {S2N_TLS_ALERT_CLOSE_NOTIFY, S2N_TLS_ALERT_HANDSHAKE_FAILURE,
                    S2N_TLS_ALERT_PROTOCOL_VERSION, S2N_TLS_ALERT_NO_RENEGOTIATION}

\* A slot is an s2n_stuffer of two bytes: empty or holding one alert.
Slot == {<<>>} \cup AlertBytes

TypeOK ==
  /\ config \in Configs
  /\ reader_alert_out \in Slot
  /\ writer_alert_out \in Slot
  /\ close_notify_queued \in BOOLEAN
  /\ closing \in BOOLEAN
  /\ to_peer \in Seq(AlertBytes) /\ Len(to_peer) <= MaxSent
  /\ flush_rc \in {"NONE", "OK", "ERR"}

s2n_alerts_supported == ~config.quic

Unchanged == UNCHANGED vars

-----------------------------------------------------------------------------
(* The queueing functions.                                                 *)

\* Bug variant: forgets that a close_notify was already queued and sent.
s2n_queue_writer_close_alert_warning_requeue ==
  \/ /\ writer_alert_out # <<>> \/ ~s2n_alerts_supported
     /\ Unchanged
  \/ /\ writer_alert_out = <<>> /\ s2n_alerts_supported
     /\ writer_alert_out' = <<S2N_TLS_ALERT_LEVEL_WARNING, S2N_TLS_ALERT_CLOSE_NOTIFY>>
     /\ close_notify_queued' = TRUE
     /\ UNCHANGED <<config, reader_alert_out, closing, to_peer, flush_rc>>

s2n_queue_writer_close_alert_warning ==
  \/ /\ writer_alert_out # <<>> \/ close_notify_queued \/ ~s2n_alerts_supported
     /\ Unchanged
  \/ /\ writer_alert_out = <<>> /\ ~close_notify_queued /\ s2n_alerts_supported
     /\ writer_alert_out' = <<S2N_TLS_ALERT_LEVEL_WARNING, S2N_TLS_ALERT_CLOSE_NOTIFY>>
     /\ close_notify_queued' = TRUE
     /\ UNCHANGED <<config, reader_alert_out, closing, to_peer, flush_rc>>

\* Bug variant: no pending check, the new alert is appended to the slot.
s2n_queue_reader_alert_append(level, error_code) ==
  \/ /\ ~s2n_alerts_supported
     /\ Unchanged
  \/ /\ s2n_alerts_supported
     /\ reader_alert_out' = reader_alert_out \o <<level, error_code>>
     /\ UNCHANGED <<config, writer_alert_out, close_notify_queued, closing,
                    to_peer, flush_rc>>

\* Bug variant: a later alert replaces the pending one (last one wins).
s2n_queue_reader_alert_overwrite(level, error_code) ==
  \/ /\ ~s2n_alerts_supported
     /\ Unchanged
  \/ /\ s2n_alerts_supported
     /\ reader_alert_out' = <<level, error_code>>
     /\ UNCHANGED <<config, writer_alert_out, close_notify_queued, closing,
                    to_peer, flush_rc>>

s2n_queue_reader_alert(level, error_code) ==
  \/ /\ reader_alert_out # <<>> \/ ~s2n_alerts_supported
     /\ Unchanged
  \/ /\ reader_alert_out = <<>> /\ s2n_alerts_supported
     /\ reader_alert_out' = <<level, error_code>>
     /\ UNCHANGED <<config, writer_alert_out, close_notify_queued, closing,
                    to_peer, flush_rc>>

s2n_queue_reader_unsupported_protocol_version_alert ==
  s2n_queue_reader_alert(S2N_TLS_ALERT_LEVEL_FATAL, S2N_TLS_ALERT_PROTOCOL_VERSION)

s2n_queue_reader_handshake_failure_alert ==
  s2n_queue_reader_alert(S2N_TLS_ALERT_LEVEL_FATAL, S2N_TLS_ALERT_HANDSHAKE_FAILURE)

\* Bug variant: tests for TLS1.0 (31) instead of SSLv3.
s2n_queue_reader_no_renegotiation_alert_tls10 ==
  IF config.version = S2N_SSLv3 + 1
  THEN s2n_queue_reader_alert(S2N_TLS_ALERT_LEVEL_FATAL, S2N_TLS_ALERT_HANDSHAKE_FAILURE)
  ELSE s2n_queue_reader_alert(S2N_TLS_ALERT_LEVEL_WARNING, S2N_TLS_ALERT_NO_RENEGOTIATION)

\* RFC 5746 4.5: SSLv3 has no no_renegotiation alert.
s2n_queue_reader_no_renegotiation_alert ==
  IF config.version = S2N_SSLv3
  THEN s2n_queue_reader_alert(S2N_TLS_ALERT_LEVEL_FATAL, S2N_TLS_ALERT_HANDSHAKE_FAILURE)
  ELSE s2n_queue_reader_alert(S2N_TLS_ALERT_LEVEL_WARNING, S2N_TLS_ALERT_NO_RENEGOTIATION)

\* Bug variant: treats every warning-level alert as not closing.
s2n_alerts_close_if_fatal_by_level(alert) ==
  IF alert[1] = S2N_TLS_ALERT_LEVEL_WARNING
  THEN [rc |-> "OK", closing |-> closing]
  ELSE [rc |-> "OK", closing |-> TRUE]

\* Bug variant: the no_renegotiation exception dropped, every alert closes.
s2n_alerts_close_if_fatal_always(alert) ==
  IF alert[2] = S2N_TLS_ALERT_NO_RENEGOTIATION
  THEN [rc |-> IF alert[1] = S2N_TLS_ALERT_LEVEL_WARNING THEN "OK" ELSE "ERR",
        closing |-> TRUE]
  ELSE [rc |-> "OK", closing |-> TRUE]

\* s2n_alerts_close_if_fatal on an alert that was just sent: the outcome and
\* whether the connection is closing afterwards.
s2n_alerts_close_if_fatal(alert) ==
  IF alert[2] = S2N_TLS_ALERT_NO_RENEGOTIATION
  THEN [rc |-> IF alert[1] = S2N_TLS_ALERT_LEVEL_WARNING THEN "OK" ELSE "ERR",
        closing |-> closing]
  ELSE [rc |-> "OK", closing |-> TRUE]

-----------------------------------------------------------------------------
(* s2n_flush, from the spec: write the pending alert of one slot, reader   *)
(* slot first, then apply s2n_alerts_close_if_fatal to it.                 *)

SendAlert(alert) ==
  LET out == s2n_alerts_close_if_fatal(alert) IN
  /\ Len(to_peer) < MaxSent
  /\ to_peer' = Append(to_peer, alert)
  /\ closing' = out.closing
  /\ flush_rc' = out.rc

FlushAlerts ==
  \/ /\ reader_alert_out # <<>>
     /\ SendAlert(reader_alert_out)
     /\ reader_alert_out' = <<>>
     /\ UNCHANGED <<config, writer_alert_out, close_notify_queued>>
  \/ /\ reader_alert_out = <<>>
     /\ writer_alert_out # <<>>
     /\ SendAlert(writer_alert_out)
     /\ writer_alert_out' = <<>>
     /\ UNCHANGED <<config, reader_alert_out, close_notify_queued>>

-----------------------------------------------------------------------------

Init ==
  /\ config \in Configs
  /\ reader_alert_out = <<>>
  /\ writer_alert_out = <<>>
  /\ close_notify_queued = FALSE
  /\ closing = FALSE
  /\ to_peer = <<>>
  /\ flush_rc = "NONE"

\* The handshake queues alerts on errors, s2n_shutdown queues the
\* close_notify, and s2n_flush drains the slots, in any order.
Next ==
  \/ s2n_queue_writer_close_alert_warning
  \/ s2n_queue_reader_unsupported_protocol_version_alert
  \/ s2n_queue_reader_handshake_failure_alert
  \/ s2n_queue_reader_no_renegotiation_alert
  \/ FlushAlerts

Spec == Init /\ [][Next]_vars

-----------------------------------------------------------------------------
(* Properties.                                                             *)

\* Count of the alerts written to the peer that satisfy P.
SentCount(P(_)) == Len(SelectSeq(to_peer, P))

IsCloseNotify(a) == a[2] = S2N_TLS_ALERT_CLOSE_NOTIFY

\* However often s2n_shutdown is retried, and whatever is flushed in between,
\* the connection writes at most one close_notify (close_notify_queued at
\* line 257 stays set after the slot is drained).
CloseNotifySentOnce == SentCount(IsCloseNotify) <= 1

IsWarningNoRenegotiation(a) ==
  a = <<S2N_TLS_ALERT_LEVEL_WARNING, S2N_TLS_ALERT_NO_RENEGOTIATION>>

\* After the connection has written any alert other than a warning-level
\* no_renegotiation (a refusal to renegotiate that keeps the connection up),
\* s2n_alerts_close_if_fatal has marked it closing.
ClosingAfterClosingAlert ==
  SentCount(IsWarningNoRenegotiation) < Len(to_peer) => closing

IsNoRenegotiation(a) == a[2] = S2N_TLS_ALERT_NO_RENEGOTIATION

\* RFC 5746 4.5 and line 165: no_renegotiation is written only at warning
\* level and never on an SSLv3 connection, which does not define it, so
\* s2n_alerts_close_if_fatal never fails on an alert the connection sent.
NoRenegotiationOnlyAsWarning ==
  /\ flush_rc # "ERR"
  /\ config.version = S2N_SSLv3 => SentCount(IsNoRenegotiation) = 0

\* The reader slot holds one alert (line 282): while an alert is pending, a
\* later s2n_queue_reader_alert is dropped, so the pending alert is never
\* replaced or extended, and it leaves the slot only by being written to the
\* peer by the flush.
ReaderSlotKeepsFirstAlert ==
  [][reader_alert_out # <<>> =>
       \/ reader_alert_out' = reader_alert_out
       \/ reader_alert_out' = <<>> /\ to_peer' = Append(to_peer, reader_alert_out)]_vars
=============================================================================
