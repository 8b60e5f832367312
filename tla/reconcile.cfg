SPECIFICATION Spec
CONSTANTS
  sda = sda  sda1 = sda1  a = a  b = b  w1 = w1  w2 = w2  start = start
  NoDevice = NoDevice  NoDir = NoDir  NoObj = NoObj
  Device <- MCDevice
  Parent <- MCParent
  Holder <- MCHolder
  Boot = start
  Longhorn = {}
  FsOnDisk <- Ext4Everywhere
  Dir = {a, b}
  MaxSlashes = 1
  MaxLag = 2
  MaxFaults = 1
  Faulty = {"update", "create", "delete", "mount"}
  Worker = {w1, w2}
  Untyped = {}
  Garbled = {}
  MaxDepth = 1
  MaxEvents = 0
  InitiallyPlugged = {sda, sda1}
  InitialMtab <- NotMounted
  Requests <- AskA
  Signals = {}
  Budget <- BudgetReconcile
SYMMETRY WorkerSymmetry
INVARIANTS TypeOK CopiesAreCurrent CacheCatchesUp NothingForgotten
PROPERTIES UsersOwnSpec DeletionIsFinal ReconcileKeepsTheRest CascadeBeforeGone
