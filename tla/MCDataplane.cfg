CONSTANTS
  CAP = 4
  NF = 2
  MaxDrain = 2
  MaxSent = 9
  N = 2
  RxQ = 1
  TxQ = 2
  RING_SLOTS = 3
  MaxFaults = 1
  StrayIndices = {0, 2}
  StrayIds = {0, 2}
SPECIFICATION MCSpec
INVARIANTS DeliveredInOrder SingleOwner PathsAgree LoanIsExact
PROPERTIES Drained LoanIsReturned
