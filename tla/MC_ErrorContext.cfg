CONSTANTS
  Threads = {t1, t2}
  Sites <- MCSites
  Errors = {S2N_ERR_BAD_MESSAGE, S2N_ERR_ALERT}
  S2N_ERR_OK = S2N_ERR_OK
  NOSTR = NOSTR
  NOTRACE = NOTRACE
SPECIFICATION Spec
INVARIANTS
  TypeOK
PROPERTY
  Refinement
