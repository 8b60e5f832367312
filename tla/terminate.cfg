SPECIFICATION FairSpec
CONSTANTS
  sda = sda  sda1 = sda1  a = a  b = b  w1 = w1  w2 = w2  start = start
  NoDevice = NoDevice  NoDir = NoDir  NoObj = NoObj
  Device <- MCDevice
  Parent <- MCParent
  Holder <- MCHolder
  Boot = start
  Longhorn = {}
  FsOnDisk <- Ext4Everywhere
  Dir = {a, b}
  MaxSlashes = 1
  MaxLag = 2
  MaxFaults = 1
  Faulty = {"delete"}
  Worker = {w1}
  Untyped = {}
  Garbled = {sda1}
  MaxDepth = 2
  MaxEvents = 1
  InitiallyPlugged = {sda}
  InitialMtab <- NotMounted
  Requests = {}
  Signals = {"offline"}
  Budget <- BudgetTerminate
PROPERTIES TerminationCompletes FinalizerArrives AddedHasObject HotRemoveRecorded
