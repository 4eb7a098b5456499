---------------------------- MODULE AlertReceive ----------------------------
(***************************************************************************)
(* What the inbound alert protocol promises (spec section 4.4), with no    *)
(* bytes and no records: the alerts the peer sent are handled one whole    *)
(* alert at a time, in the order they were sent.  close_notify closes the  *)
(* connection gracefully, a tolerated warning is dropped, anything else    *)
(* closes the connection and evicts its cached session when it has one.    *)
(* Once closed, or when alerts are handled by QUIC, nothing is handled.    *)
(* AlertInbound, which reassembles the alerts from arbitrarily split       *)
(* records, implements this specification.                                 *)
(***************************************************************************)
EXTENDS TlsAlertWire

CONSTANTS
  MaxAlerts,          \* how many alerts the peer sends at most
  Levels,             \* level bytes the peer may send
  Descriptions        \* description bytes the peer may send

VARIABLES
  config,             \* connection settings, fixed for the connection
  pending,            \* alerts sent by the peer and not yet handled
  sent,               \* how many alerts the peer has sent
  closed,             \* conn->closed
  close_notify_received,
  evictions           \* sessions the connection asked the cache to delete

avars == <<config, pending, sent, closed, close_notify_received, evictions>>

Configs ==
  [version: {S2N_SSLv3, S2N_TLS12, S2N_TLS13},
   quic: BOOLEAN,
   ignore_warnings: BOOLEAN,
   caching_allowed: BOOLEAN,
   session_id_len: {0, 32}]

\* The tie-break rule of spec section 4.4: before TLS1.3 the level decides
\* (and only when warnings are ignored); from TLS1.3 on only user_canceled.
Tolerated(a) ==
  IF config.version < S2N_TLS13
  THEN a[1] = S2N_TLS_ALERT_LEVEL_WARNING /\ config.ignore_warnings
  ELSE a[2] = S2N_TLS_ALERT_USER_CANCELED

HasCachedSession == config.caching_allowed /\ config.session_id_len > 0

Init ==
  /\ config \in Configs
  /\ pending = <<>>
  /\ sent = 0
  /\ closed = FALSE
  /\ close_notify_received = FALSE
  /\ evictions = 0

Send(l, d) ==
  /\ sent < MaxAlerts
  /\ pending' = Append(pending, <<l, d>>)
  /\ sent' = sent + 1
  /\ UNCHANGED <<config, closed, close_notify_received, evictions>>

Handle ==
  LET a == Head(pending) IN
  /\ pending # <<>>
  /\ ~closed
  /\ ~config.quic
  /\ pending' = Tail(pending)
  /\ \/ /\ a[2] = S2N_TLS_ALERT_CLOSE_NOTIFY
        /\ closed' = TRUE
        /\ close_notify_received' = TRUE
        /\ UNCHANGED evictions
     \/ /\ a[2] # S2N_TLS_ALERT_CLOSE_NOTIFY
        /\ Tolerated(a)
        /\ UNCHANGED <<closed, close_notify_received, evictions>>
     \/ /\ a[2] # S2N_TLS_ALERT_CLOSE_NOTIFY
        /\ ~Tolerated(a)
        /\ closed' = TRUE
        /\ evictions' = IF HasCachedSession THEN evictions + 1 ELSE evictions
        /\ UNCHANGED close_notify_received
  /\ UNCHANGED <<config, sent>>

Next ==
  \/ \E l \in Levels, d \in Descriptions : Send(l, d)
  \/ Handle

\* Every alert sent to an open connection that speaks TLS alerts is handled.
Spec == Init /\ [][Next]_avars /\ WF_avars(Handle)
=============================================================================
