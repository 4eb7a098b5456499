CONSTANTS
  MaxAlerts <- MCMaxAlerts
  MaxRecord <- MCMaxRecord
  Levels <- MCLevels
  Descriptions <- MCDescriptions
SPECIFICATION Spec
INVARIANTS
  TypeOK
  EvictionOnlyOnFatalAlert
PROPERTIES
  Refinement
