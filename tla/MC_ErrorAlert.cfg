CONSTANT UNINIT = UNINIT
SPECIFICATION Spec
INVARIANTS
  TypeOK
  GetAlertMatchesSpec
