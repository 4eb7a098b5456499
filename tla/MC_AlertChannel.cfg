CONSTANTS
  MaxSent <- MCMaxSent
  MaxRecord <- MCMaxRecord
SPECIFICATION Spec
PROPERTY
  SenderClosingClosesReceiver
