CONSTANT UNINIT = UNINIT
SPECIFICATION Spec
INVARIANTS
  SpecEveryProtoErrorDecided
