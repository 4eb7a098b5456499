# TLA+ models of the s2n error and alert layer

This directory holds TLA+ models of the s2n error taxonomy and the TLS Alert
sub-protocol, the code in `src/error/s2n_errno.h` and `src/tls/s2n_alerts.c`.
The models are checked with TLC. `PROJECT.json` lists the components, the
runs, the mutants, the map from definitions to source lines, the findings and
the hazards.

## 1. Inventory

### Components

| Component | Source | State | Operations |
|---|---|---|---|
| Error code registry | `s2n_errno.h` 25-327 | none. Compile-time constants: 8 categories in bits 31-26, values in bits 25-0 | `s2n_error_get_type` (in `s2n_errno.c`, not under `src/`), `S2N_ERROR_IS_BLOCKING` |
| Error context capture | `s2n_errno.h` 329-403 | per thread: `s2n_errno`, `_s2n_debug_info` (debug string, source basename), stack trace. Process-wide: the stack-trace toggle | `_S2N_ERROR` and the `S2N_ERROR*` macros, `s2n_debug_info_reset`, `s2n_stack_traces_enabled_set`, `s2n_calculate_stacktrace` |
| Error-to-alert translator | `s2n_alerts.c` 33-134, 172-196 | none | `s2n_translate_protocol_error_to_alert`, `s2n_error_get_alert` |
| Alert engine, inbound | `s2n_alerts.c` 136-156, 198-244 | per connection: `conn->in`, `conn->alert_in` (0-2 bytes), `closed`, `close_notify_received`. It reads the version, QUIC mode, `alert_behavior`, the session id and the cache callback | `s2n_process_alert_fragment` |
| Alert engine, outbound | `s2n_alerts.c` 158-170, 246-321 | per connection: `reader_alert_out` and `writer_alert_out` (one alert each), `close_notify_queued`, `closing` | `s2n_queue_writer_close_alert_warning`, `s2n_queue_reader_alert` and its three wrappers, `s2n_alerts_close_if_fatal` |
| KEM fuzz harness | `src/tests/fuzz/...kyber_r3...c` | none | `s2n_fuzz_test`. Not modelled: it only feeds bytes to KEM code outside this source set |

### How the components interact

* Every failing call raises through the `_S2N_ERROR` macro. The macro sets the
  thread's `s2n_errno` and its debug info.
* The application or the library asks `s2n_error_get_alert` which alert an
  error calls for. The answer is `internal_error` for IO and INTERNAL errors,
  a table lookup for PROTO errors, and a failure for the other categories.
  A failing call sets `s2n_errno` itself.
* The record layer gives each alert record to `s2n_process_alert_fragment` in
  `conn->in`. That function reassembles the 2-byte alert in `conn->alert_in`.
  It then closes the connection (on close_notify), drops a tolerated warning,
  or evicts the cached session through the `cache_delete` callback, closes the
  connection and fails with `S2N_ERR_ALERT`.
* The handshake queues reader alerts and `s2n_shutdown` queues the
  close_notify. `s2n_flush` (in `s2n_send.c`, not under `src/`) writes them to
  the peer. For each written alert it calls `s2n_alerts_close_if_fatal`, which
  sets `closing` for every alert except a warning-level no_renegotiation.

### What is hard

There are no threads inside one connection: spec section 5 says the engine is
driven synchronously. Threads matter only for the error context. Many threads
raise errors at once, each into its own `__thread` debug info, while the
stack-trace toggle is shared by all of them. The rest of the hard behaviour
comes from what the peer and the caller may do:

* the peer's bytes may arrive in records of any length, so an alert may be
  split over two records or share a record with the next alert;
* the caller may call `s2n_process_alert_fragment` with an empty record, again
  after the connection closed, or under QUIC;
* the outcome of an alert depends on the version, the level, the description
  and `alert_behavior` together;
* shutdown may be retried after the close_notify was already flushed, and
  queueing and flushing may interleave in any order;
* callbacks may fail, and the application may pass any int as an error.

### The properties that make each component correct

* Error context: whatever other threads do, a thread's debug info and
  `s2n_errno` describe its own latest raise. The four steps of the raise
  macro act as one atomic raise on the thread's own context.
* Registry: every declared error is classified into the block it is declared
  in.
* Translator: the translation agrees with spec section 4.3. No protocol error
  reaches the `S2N_ERR_UNIMPLEMENTED` default. Success always means an alert
  was written.
* Inbound engine: whatever the record boundaries, alerts are handled whole, in
  order, with the tie-break rule, and every alert sent to an open connection is
  eventually handled. The session is evicted exactly on a fatal close.
* Outbound engine: a pending reader alert is never replaced and leaves its
  slot only by being written. At most one close_notify is written. The connection is
  closing after every closing alert. no_renegotiation is written only as a
  warning and never on SSLv3.
* Both engines together: an alert that makes the sender closing eventually
  closes the receiver. The pair behaves as the abstract receiver fed with
  exactly the alerts the sender writes.

## 2. Modules

| Module | Models | Source |
|---|---|---|
| `TlsAlertWire` | the level constants, alert descriptions, versions, `MIN`, and the alert pairs of a byte sequence | `s2n_alerts.c` 30-31, 213 |
| `AlertInbound` | `s2n_process_alert_fragment` with a peer and a record layer | `s2n_alerts.c` 136-156, 198-244 |
| `AlertReceive` | the abstract receiver: whole alerts are handled atomically and in order (spec 4.4) | spec |
| `AlertOutbound` | the two alert slots, the queueing functions, `s2n_alerts_close_if_fatal`, and `s2n_flush` from the spec | `s2n_alerts.c` 158-170, 246-321 |
| `ErrorAlert` | the error enum layout, `s2n_error_get_type`, the raise macro's write of `s2n_errno`, and the translation | `s2n_errno.h` 25-327, 354-372; `s2n_alerts.c` 33-134, 172-196 |
| `ErrorContext` | the four steps of `_S2N_ERROR`, the `__thread` debug info, reset, freeing the trace and the stack-trace toggle, for concurrent threads | `s2n_errno.h` 329-387; the bodies in `s2n_errno.c` from spec 4.2 |
| `ErrorContextContract` | the abstract error context: per thread, an atomic raise of code, "file:line" and optional trace (spec 4.2) | spec |
| `AlertChannel` | the outbound engine of one endpoint writing to the inbound engine of its peer | composes `AlertOutbound` and `AlertInbound` |
| `MC_*` | constants for TLC | |

### How the code maps to the models

* **AlertInbound.**
  * Variables: `in` and `alert_in` are the two stuffers, as byte sequences.
  * `config` holds the connection settings the code reads. It is chosen in
    `Init` from all combinations and never changes: version (SSLv3, TLS1.2,
    TLS1.3), QUIC mode, ignore-warnings, caching allowed, session id length
    (0 or 32).
  * `evictions` counts `cache_delete` calls. `result` is the return value of
    the last call.
  * Actions: `s2n_process_alert_fragment` is the whole function. Its
    disjuncts are the three early returns of lines 201-203 and the read loop.
    The loop is the recursive `ReadAlertBytes`, with `bytes_required` and
    `MIN` as in the code. `HandleAlert` has the three outcomes of lines
    217-240.
  * Environment: `PeerSendAlert` appends an alert to `wire`.
    `RecvAlertRecord(n)` moves the next `n` bytes into `in` once the previous
    record is consumed.
* **AlertOutbound.**
  * Each slot is empty or holds one alert. `to_peer` is the sequence of
    alerts written to the peer.
  * Each `s2n_queue_*` function is an action, with its early returns as
    disjuncts.
  * `FlushAlerts` is `s2n_flush` as the spec describes it: it drains the
    reader slot, then the writer slot, and calls `s2n_alerts_close_if_fatal`
    on the alert it wrote.
* **ErrorAlert.**
  * The enum is kept as the size of each category block (1, 1, 1, 4, 1, 76,
    87, 86) and as the offsets the translation table names.
    `NoAlertProtoErrors` is the `S2N_NO_ALERT` list.
  * `s2n_error_get_type` is the arithmetic shift, written as floor division.
  * Actions: `S2N_ERROR(x)` is a raise. `CallGetAlert(e)` is a call of
    `s2n_error_get_alert` with a fresh, uninitialised alert byte (`UNINIT`).
    The argument is either the current `s2n_errno` or an int outside the
    enum.

* **ErrorContext.**
  * Per-thread state is a function over `Threads`, and `pc[t]` is the next
    step of the macro. `S2N_ERROR(t, s, x)` is line 356 at site `s`.
    `ExtractBasename` (357) reads `debug_str` back from storage.
    `SetErrno` is 358 and `s2n_calculate_stacktrace` is 359.
  * `debug_str` and `source` are indexed by `DebugInfoCell(t)`, the storage
    that `_s2n_debug_info` names in thread `t`. Because of `__thread` (line
    336) this is `t` itself.
  * A debug line is its site: the path of `__FILE__` as a sequence of
    components, and the line number. `Basename` keeps the last component
    and the line, as `_S2N_RSPLIT` does with `strrchr`.
  * `trace[t]` is the site where the thread's trace was captured.
    `raising[t]` records the site and code of its latest raise, for the
    properties. `saved[t]` is a history variable: the thread's context at
    the start of the raise in progress.
  * Refinement mapping: an idle thread's contract context is its
    `s2n_errno`, `source` and `trace`. A thread inside the macro shows
    `saved[t]`. The raise takes effect at the capture step, the only step
    that reads the toggle.
* **AlertChannel.**
  * Both connections are instances: `S` (`AlertOutbound`) and `R`
    (`AlertInbound`). Each flush appends the written alert's two bytes to
    `R`'s wire.
  * The two endpoints share version and QUIC mode. The receiver's
    `alert_behavior` and session cache vary freely.

## 3. Runs

| Run | Checks | Shows |
|---|---|---|
| `inbound` (pass) | `TypeOK`, `EvictionOnlyOnFatalAlert`, `Refinement` | Fragmentation equivalence. `AlertInbound` implements `AlertReceive` (`INSTANCE ... WITH pending <- Alerts(PendingBytes)`), fairness included. Eviction happens exactly on a fatal close. |
| `inbound_norenego` (violation) | `SpecNoRenegotiationWarningKeepsOpen` | A warning-level no_renegotiation closes the connection (finding). |
| `inbound_buffer` (violation) | `SpecAlertBufferClearedAfterHandling` | `alert_in` stays full after close_notify (finding). |
| `outbound` (pass) | `TypeOK`, `CloseNotifySentOnce`, `ClosingAfterClosingAlert`, `NoRenegotiationOnlyAsWarning`, `ReaderSlotKeepsFirstAlert` | The queue-and-flush safety properties hold. The action property shows the first queued reader alert wins and is the one written. |
| `error_alert` (pass) | `TypeOK`, `GetAlertMatchesSpec` | Every declared error is translated as spec section 4.3 says, or fails. The classification by shift is not checked on its own: the blocks are built from the same shift, so it holds by construction. |
| `error_alert_unimplemented` (violation) | `SpecEveryProtoErrorDecided` | 9 protocol errors fall through to `S2N_ERR_UNIMPLEMENTED` (finding). |
| `error_context` (pass) | `TypeOK`, `Refinement` | Two threads interleave raises, resets, trace frees and toggle switches. `ErrorContext` implements `ErrorContextContract`, so the four-step raise acts atomically on the raising thread's context, with the toggle read at the capture step. With `__thread` storage no other thread can touch that context, so this run is mainly about the order of the steps within one thread. |
| `error_context_trace` (violation) | `SpecTraceOfLastRaise` | Another thread switches the toggle off between two raises, and the older trace survives next to the newer debug info (finding). |
| `channel` (pass) | `SenderClosingClosesReceiver` | `closing ~> closed`: every alert that makes the sender closing eventually closes the receiver, under the receiver's I/O-loop fairness. The refinement of the receiver to `AlertReceive` is checked in `inbound`, for a peer sending any alert, so it is not repeated here. |
| `error_alert_outofrange` (violation) | `SuccessWritesAlert` | An int outside the enum gets `S2N_SUCCESS` with no alert written (finding). |

Each property of a passing run has a mutant in `PROJECT.json`: a plausible
bug in the mapped definition that TLC must catch.

The refinement mapping works as follows. A whole alert left in `alert_in` has
already been handled. The pending alerts are therefore the pairs of
`alert_in` (when it holds 0 or 1 byte), then `in`, then `wire`.

### Bounds

* **Inbound.** The peer sends 3 alerts and records hold 1 to 3 bytes. Three
  alerts are enough for a tolerated warning followed by a fatal alert or a
  close_notify in the same record, and for an alert split across two records
  while the next one is coalesced.
  * Levels: warning and fatal.
  * Descriptions: close_notify, handshake_failure (an ordinary alert),
    user_canceled and no_renegotiation. These are the descriptions the code
    treats differently.
  * All 48 configurations are covered. The run has about 477,000 states and
    takes about 70 s.
* **Outbound.** Four alerts written. This allows a reader alert, a
  close_notify, and a second round of both after a flush.
* **ErrorAlert.** Every declared error (257) and three ints outside the enum:
  -1, `8 << 26` and `INT_MAX`.

* **ErrorContext.** Two threads, two sites, two codes. One site's path has
  no `/`, so both branches of `_S2N_RSPLIT` are taken. Two threads are
  enough for one thread to interleave with another's raise at each step
  boundary. About 128,000 states, 12 s.
* **Channel.** The sender writes 3 alerts, in records of 1 or 2 bytes, over
  all 48 pairs of configurations. About 166,000 states, about 1 minute with
  both temporal properties. Four alerts
  in records of up to 3 bytes also pass, with 749,000 states in about
  2 minutes. That larger run shows no new case, so it is not kept.

### Fairness

`AlertInbound` assumes weak fairness of `RecvAlertRecord` and
`s2n_process_alert_fragment`. This is the I/O loop of spec section 5: the
caller keeps reading records and processing them while bytes are available.
The peer has no fairness, because it may stop sending. `AlertReceive`
promises weak fairness of `Handle`. `AlertChannel` has the same fairness for
the receiver and none for the sender, whose application may stop queueing
and flushing. The outbound, error and error-context models check only
safety, so they need no fairness.

## 4. Not modelled, and why

* `s2n_recv`, `s2n_flush` and `s2n_shutdown` are not under `src/`. `s2n_flush`
  is modelled from the spec. The record layer is modelled as a caller that
  calls again while bytes remain (spec 4.4). A record layer that discards the
  rest of a record after one call is not modelled; see the ordering hazard.
  How the real caller treats the rest of a record is in `s2n_recv`, which
  is neither under `src/` nor described by the spec, so a model of it could
  not be checked against anything.
* The text of the debug string and of stack traces is formatting, and is
  abstracted to the raise site. `s2n_print_stacktrace` and
  `s2n_get_stacktrace` only read. The CBMC build, in which the basename is
  the whole path, is not modelled.
* The toggle is a plain process-wide flag. A read racing a write is modelled
  as interleaving: the capture step sees the value before or after the
  write.
* Only one direction of `AlertChannel` is modelled. An endpoint's reaction
  to a received alert (for example answering close_notify) is in
  `s2n_shutdown` and `s2n_recv`, which are not under `src/`.
* The KEM fuzz harness (see above).
* No fault model is added, because none applies to this code. Nothing is
  persisted, so there is no crash and restart. The record layer is a
  reliable byte stream, so bytes are not lost or reordered. No operation
  waits, so there are no timeouts. The only retry the code meets,
  `s2n_shutdown` called again, is covered by `CloseNotifySentOnce`.
* `S2N_ERROR_IS_BLOCKING` and `S2N_ERROR_PRESERVE_ERRNO` (lines 361-365)
  change no state. The first is a comparison of `s2n_error_get_type`, whose
  classification holds by construction of the blocks. The second is a plain
  `return -1`.

With these exceptions, every state-changing operation under `src/` is an
action of some module.

## 5. Plan

1. Done: `AlertInbound` with its abstract `AlertReceive` and the refinement,
   `AlertOutbound`, and `ErrorAlert`.
2. Done: `AlertChannel`, one direction of a connection between two
   endpoints, with liveness and the end-to-end refinement to
   `AlertReceive`.
3. Done: `ErrorContext`, and its contract `ErrorContextContract` with the
   refinement.
4. Dropped: the caller variant that wipes `conn->in` after one call (see
   section 4).
