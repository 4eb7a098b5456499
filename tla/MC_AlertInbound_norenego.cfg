CONSTANTS
  MaxAlerts <- MCMaxAlerts
  MaxRecord <- MCMaxRecord
  Levels <- MCLevels
  Descriptions <- MCDescriptions
SPECIFICATION Spec
INVARIANT SpecNoRenegotiationWarningKeepsOpen
