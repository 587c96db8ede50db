CONSTANTS
  Doc = {a, b, bad}
  Valid = {a, b}
  Empty = empty
  BootDoc = a
  MAX = 7
  MIN_CONFIRM_SECONDS = 1
  MAX_CONFIRM_SECONDS = 1
  Asked = {1}
  MaxReboots = 1
  CONFIRM = 1
  Conn = {c1, c2}
  MaxRows = 2
SPECIFICATION TransactionSpec
INVARIANT RecordedIsItsOwn
