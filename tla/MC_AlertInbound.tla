-------------------------- MODULE MC_AlertInbound --------------------------
(* Model-checking instance of AlertInbound: the peer sends up to three     *)
(* alerts, so that a warning can precede a fatal alert or a close_notify,  *)
(* and records of up to three bytes split and coalesce alerts.             *)
EXTENDS AlertInbound

MCMaxAlerts == 3
MCMaxRecord == 3
\* Both levels; close_notify, an ordinary alert, user_canceled and
\* no_renegotiation, the descriptions the code treats differently.
MCLevels == {S2N_TLS_ALERT_LEVEL_WARNING, S2N_TLS_ALERT_LEVEL_FATAL}
MCDescriptions == {S2N_TLS_ALERT_CLOSE_NOTIFY, S2N_TLS_ALERT_HANDSHAKE_FAILURE,
                   S2N_TLS_ALERT_USER_CANCELED, S2N_TLS_ALERT_NO_RENEGOTIATION}
=============================================================================
