SPECIFICATION FairSpec
CONSTANTS
  NoJob = NoJob
  Process = {n1, n2}
  Device = {sda}
  Host = {n1}
  Member = {n1}
  Wanting = {n1}
  MaxMishaps = 1
  MaxRequests = 2
INVARIANT IInv
PROPERTIES NodeRemovalCascades DeletionCompletes
CHECK_DEADLOCK FALSE
