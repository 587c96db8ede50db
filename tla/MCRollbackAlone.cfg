CONSTANTS
  Doc = {a, b}
  Valid = {a, b}
  Empty = empty
  BootDoc = a
  MAX = 3
  MIN_CONFIRM_SECONDS = 1
  MAX_CONFIRM_SECONDS = 1
  Asked = {1}
  MaxReboots = 0
SPECIFICATION AloneSpec
PROPERTY ProvisionalSettles
