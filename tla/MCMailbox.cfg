CONSTANTS
  Doc = {a, b, bad}
  Valid = {a, b}
  Empty = empty
  BootDoc = a
  MAX = 4
  LAST = 3
  MaxRequests = 4
  MaxGiveUps = 1
  Named = {2, 3}
  Recorded = {2}
SPECIFICATION MCSpec
INVARIANTS DecidedAsAsked BelievedIsDecided ConfirmedStays
PROPERTIES Numbered RequestIsServed
