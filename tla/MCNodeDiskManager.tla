-------------------------- MODULE MCNodeDiskManager --------------------------
(***************************************************************************)
(* The instances TLC checks: a disk sda with one partition sda1, and the   *)
(* budgets of the runs.                                                    *)
(***************************************************************************)
EXTENDS NodeDiskManagerProperties, TLC

CONSTANTS sda, sda1, a, b, w1, w2, start

MCDevice == {sda, sda1}
MCParent == [d \in MCDevice |-> IF d = sda1 THEN sda ELSE NoDevice]
MCHolder == {w1, w2, start} \cup (1..2)

Ext4Everywhere == [d \in MCDevice |-> "ext4"]
VfatPartition  == [d \in MCDevice |-> IF d = sda1 THEN "vfat" ELSE "ext4"]

NotMounted  == [d \in MCDevice |-> <<>>]
MountedOnA == [d \in MCDevice |-> IF d = sda1 THEN <<a>> ELSE <<>>]

Request(dir, slashes, force) ==
  [mountPoint |-> [dir |-> dir, slashes |-> slashes], forceFormatted |-> force]

AskA      == {Request(a, 1, TRUE)}
AskB      == {Request(b, 0, FALSE)}

Limits(edits, deletes, plugs, mounts, crashes) ==
  [edits |-> edits, deletes |-> deletes, plugs |-> plugs, mounts |-> mounts,
   crashes |-> crashes]

WorkerSymmetry == Permutations({w1, w2})

\*                  edits deletes plugs mounts crashes
BudgetMonitor   == Limits(1, 1, 2, 0, 0)
BudgetReconcile == Limits(1, 1, 0, 0, 1)
BudgetTerminate == Limits(0, 1, 2, 0, 1)
BudgetMount     == Limits(1, 0, 0, 1, 1)
BudgetDetach    == Limits(0, 0, 1, 0, 0)
BudgetRemount   == Limits(1, 0, 0, 0, 0)
BudgetOffline   == Limits(0, 0, 1, 0, 0)
=============================================================================
