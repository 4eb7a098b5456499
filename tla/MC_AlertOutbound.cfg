CONSTANT MaxSent <- MCMaxSent
SPECIFICATION Spec
INVARIANTS
  TypeOK
  CloseNotifySentOnce
  ClosingAfterClosingAlert
  NoRenegotiationOnlyAsWarning
PROPERTY
  ReaderSlotKeepsFirstAlert
