SPECIFICATION Spec
CONSTANTS
  NoJob = NoJob
  Process = {n1, n2}
  Device = {sda}
  Host = {n1, n2}
  Member = {}
  Wanting = {n1}
  MaxMishaps = 1
  MaxRequests = 0
INVARIANT MountsAtHome
CHECK_DEADLOCK FALSE
