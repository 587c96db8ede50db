CONSTANTS
  Doc = {a, b, bad}
  Valid = {a, b}
  Empty = empty
  BootDoc = a
  MAX = 7
  MIN_CONFIRM_SECONDS = 1
  MAX_CONFIRM_SECONDS = 1
  Asked = {0, 1, 2}
  MaxReboots = 1
  CONFIRM = 1
  Conn = {c1, c2}
  MaxRows = 2
  SLOT_COUNT = 3
  Document = {a, b}
  MaxVersion = 4
  MaxGen = 6
  IDS = 2
SPECIFICATION MCSpec
INVARIANTS ConfirmedIsHeld ProvisionalIsArmed ConfirmedIsDurable
INVARIANTS PromisedSurvives RunningIsWhole
PROPERTY ReplacedWhole
