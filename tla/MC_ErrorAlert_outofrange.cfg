CONSTANT UNINIT = UNINIT
SPECIFICATION Spec
INVARIANTS
  SuccessWritesAlert
