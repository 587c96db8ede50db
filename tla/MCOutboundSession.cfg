CONSTANTS
  SEQ = 16
  MSS = 2
  MAX_UNACKED = 2
  MAX_RETRANSMITS = 1
  SEND_CAPACITY = 2
  RECEIVE_CAPACITY = 1
  INBOUND_CAPACITY = 2
  OUTBOUND_CAPACITY = 3
  MAX_REQUESTS = 1
  MaxAccepts = 1
  Courses <- MCCourses
SPECIFICATION FairSpec
INVARIANTS StreamsAreWhole RangeIsHeld
PROPERTY DialSettles
\* A session that has ended is not opened again.
CHECK_DEADLOCK FALSE
