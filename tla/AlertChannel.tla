---------------------------- MODULE AlertChannel ----------------------------
(***************************************************************************)
(* Two s2n endpoints of one TLS connection, seen in one direction: the     *)
(* sender's outbound alert engine (AlertOutbound) writes its alerts to the *)
(* byte stream the receiver's inbound engine (AlertInbound) reads.  Both   *)
(* endpoints negotiated the same version and QUIC mode; the receiver's     *)
(* alert_behavior and session cache are its own.  s2n_flush appends the    *)
(* two bytes of each alert it writes to the receiver's wire, and the       *)
(* receiver's record layer cuts that stream into records of any length.    *)
(***************************************************************************)
EXTENDS TlsAlertWire

CONSTANTS
  MaxSent,            \* how many alerts the sender writes at most
  MaxRecord           \* longest alert record the receiver's record layer delivers

VARIABLES
  \* The sender's connection.
  sconfig, reader_alert_out, writer_alert_out, close_notify_queued, closing,
  to_peer, flush_rc,
  \* The receiver's connection.
  rconfig, wire, sent, in, alert_in, closed, close_notify_received,
  evictions, result

svars == <<sconfig, reader_alert_out, writer_alert_out, close_notify_queued,
           closing, to_peer, flush_rc>>
rvars == <<rconfig, wire, sent, in, alert_in, closed, close_notify_received,
           evictions, result>>
vars == <<svars, rvars>>

\* The alerts the sender's code can write.
SentLevels == {S2N_TLS_ALERT_LEVEL_WARNING, S2N_TLS_ALERT_LEVEL_FATAL}
SentDescriptions == {S2N_TLS_ALERT_CLOSE_NOTIFY, S2N_TLS_ALERT_HANDSHAKE_FAILURE,
                     S2N_TLS_ALERT_PROTOCOL_VERSION, S2N_TLS_ALERT_NO_RENEGOTIATION}

S == INSTANCE AlertOutbound WITH config <- sconfig

R == INSTANCE AlertInbound
       WITH config <- rconfig, MaxAlerts <- MaxSent,
            Levels <- SentLevels, Descriptions <- SentDescriptions

Init ==
  /\ S!Init
  /\ R!Init
  /\ rconfig.version = sconfig.version
  /\ rconfig.quic = sconfig.quic

\* The sender's handshake and s2n_shutdown queue alerts.
SenderQueue ==
  /\ \/ S!s2n_queue_writer_close_alert_warning
     \/ S!s2n_queue_reader_unsupported_protocol_version_alert
     \/ S!s2n_queue_reader_handshake_failure_alert
     \/ S!s2n_queue_reader_no_renegotiation_alert
  /\ UNCHANGED rvars

\* The sender's s2n_flush writes one alert, which travels to the receiver.
SenderFlush ==
  /\ S!FlushAlerts
  /\ wire' = wire \o to_peer'[Len(to_peer')]
  /\ sent' = Len(to_peer')
  /\ UNCHANGED <<rconfig, in, alert_in, closed, close_notify_received,
                 evictions, result>>

ReceiverStep ==
  /\ \/ \E n \in 1..MaxRecord : R!RecvAlertRecord(n)
     \/ R!s2n_process_alert_fragment
  /\ UNCHANGED svars

Next == SenderQueue \/ SenderFlush \/ ReceiverStep

\* The receiver's I/O loop keeps reading records and processing them; the
\* sender's application is under no obligation to queue or flush.
Fairness ==
  /\ WF_vars(\E n \in 1..MaxRecord : R!RecvAlertRecord(n) /\ UNCHANGED svars)
  /\ WF_vars(R!s2n_process_alert_fragment /\ UNCHANGED svars)

Spec == Init /\ [][Next]_vars /\ Fairness

-----------------------------------------------------------------------------
(* Properties.                                                             *)

\* Once s2n_alerts_close_if_fatal has marked the sender closing because of
\* an alert it wrote, the receiver's s2n_process_alert_fragment eventually
\* closes its side too: every alert the sender treats as ending the
\* connection is one the receiver's tie-break never tolerates, whatever the
\* receiver's alert_behavior and however the records split the bytes.
SenderClosingClosesReceiver == closing ~> closed
=============================================================================
