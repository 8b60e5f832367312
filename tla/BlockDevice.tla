----------------------------- MODULE BlockDevice -----------------------------
(***************************************************************************)
(* The BlockDevice custom resource, the objects a scan of the host builds  *)
(* from it, and the file system check the controller bases its decisions   *)
(* on.  Pure data: no variables.                                           *)
(*                                                                         *)
(* One node is modelled, so a device name ("sda", "sda1") also names its   *)
(* custom resource: util.GetBlockDeviceName appends the node's name.       *)
(***************************************************************************)
EXTENDS Naturals, Sequences

CONSTANTS
  Device,      \* block devices the node may have: disks and their partitions
  NoDevice,    \* "no parent", the empty parent-device label
  Parent,      \* Parent[d] is the disk that partition d belongs to
  Longhorn,    \* devices whose ID_PATH names a Longhorn volume
  FsOnDisk,    \* the file system blkid finds on the device
  Dir,         \* mount directories, written as the kernel writes them
  NoDir,       \* the empty mount point
  MaxSlashes,  \* bound: trailing slashes a user may type after a directory
  NoObj        \* "no such object" in the API server or in a cache

FsType == {"", "ext4", "vfat"}

ASSUME DeviceAssumption ==
  /\ NoDevice \notin Device
  /\ Parent \in [Device -> Device \cup {NoDevice}]
  /\ \A d \in Device : Parent[d] # NoDevice => Parent[Parent[d]] = NoDevice
  /\ Longhorn \subseteq Device
  /\ FsOnDisk \in [Device -> FsType]

ASSUME PathAssumption ==
  /\ NoDir \notin Dir
  /\ MaxSlashes \in Nat

-----------------------------------------------------------------------------
(* Mount points.  What a user types may end in slashes; /proc/mounts never *)
(* shows them.                                                             *)

Path == [dir : Dir \cup {NoDir}, slashes : 0..MaxSlashes]

Plain(dir) == [dir |-> dir, slashes |-> 0]

\* strings.TrimSuffix(p, "/") takes one slash off, not all of them.
TrimSuffix(p) ==
  IF p.slashes > 0 THEN [p EXCEPT !.slashes = @ - 1] ELSE p

-----------------------------------------------------------------------------
(* The resource.  A message is kept as the error it is formatted from, so  *)
(* that two messages are equal exactly when the strings would be.          *)

FilesystemInfo == [mountPoint : Path, forceFormatted : BOOLEAN]

FilesystemStatus ==
  [mountPoint : Dir \cup {NoDir}, type : FsType, lastFormattedAt : BOOLEAN]

NoError == <<>>

\* How a mount can fail: no such device, no ext4 on it, mounted there already,
\* or something outside the process.
Errno == {"ENOENT", "EINVAL", "EBUSY", "EIO"}

Error ==
  {NoError}
    \cup ({"mismatch"} \X (Dir \cup {NoDir}) \X Path)
    \cup ({"unsupported"} \X FsType)
    \cup ({"mount"} \X Path \X Errno)

Condition == [status : {"absent", "True", "False"}, message : Error]

DeviceStatus ==
  [deviceType : {"disk", "partition"},
   parentDevice : Device \cup {NoDevice},
   fileSystem : FilesystemStatus]

BD ==
  [parentLabel : Device \cup {NoDevice},
   finalizer : BOOLEAN,
   deleting : BOOLEAN,            \* DeletionTimestamp is set
   spec : FilesystemInfo,
   state : {"Active", "Inactive"},
   deviceStatus : DeviceStatus,
   mounted : Condition]

ASSUME NoObjAssumption == NoObj \notin BD

-----------------------------------------------------------------------------
(* What a scan sees: entries are the device's lines of /proc/mounts, oldest *)
(* first, and present says whether the kernel has the device.              *)

Children(d) == {p \in Device : Parent[p] = d}

MountPointOf(entries) == IF entries = <<>> THEN NoDir ELSE Head(entries)

PartitionFileSystem(d, entries) ==
  [mountPoint |-> MountPointOf(entries),
   type |-> IF entries = <<>> THEN "" ELSE FsOnDisk[d],
   lastFormattedAt |-> FALSE]

\* blkid reads the device itself.
GetFileSystemType(d, present) == IF present THEN FsOnDisk[d] ELSE ""

\* getDisk falls back to it when the device is not mounted.
DiskFileSystem(d, entries, present) ==
  [PartitionFileSystem(d, entries) EXCEPT
     !.type = IF entries = <<>> THEN GetFileSystemType(d, present) ELSE FsOnDisk[d]]

NewObject(label, type, fs) ==
  [parentLabel |-> label,
   finalizer |-> FALSE,
   deleting |-> FALSE,
   spec |-> [mountPoint |-> Plain(fs.mountPoint), forceFormatted |-> FALSE],
   state |-> "Active",
   deviceStatus |-> [deviceType |-> type, parentDevice |-> label, fileSystem |-> fs],
   mounted |-> [status |-> "absent", message |-> NoError]]

NewDisk(d, entries, present) ==
  NewObject(NoDevice, "disk", DiskFileSystem(d, entries, present))

NewPartition(d, entries) ==
  NewObject(Parent[d], "partition", PartitionFileSystem(d, entries))

\* The objects GetNewBlockDevices returns for the disk named d: d itself and
\* the partitions the kernel has for it.  A partition's name may be passed as
\* well; it is then reported as a disk of its own, without a parent.
GetNewBlockDevices(d, mtab, present) ==
  [x \in {d} \cup (Children(d) \cap present) |->
     IF x = d THEN NewDisk(d, mtab[d], d \in present)
              ELSE NewPartition(x, mtab[x])]

-----------------------------------------------------------------------------
(* The check of OnBlockDeviceChange.                                       *)

IsSupportedFileSystem(type) == type = "ext4"

isValidFileSystem(fs, fsStatus) ==
  LET want == IF fs.mountPoint.dir = NoDir THEN fs.mountPoint
              ELSE TrimSuffix(fs.mountPoint)
  IN  IF want # Plain(fsStatus.mountPoint)
        THEN <<"mismatch", fsStatus.mountPoint, want>>
      ELSE IF ~IsSupportedFileSystem(fsStatus.type)
        THEN <<"unsupported", fsStatus.type>>
      ELSE NoError

\* DeviceMounted.SetError: the condition is True exactly when there is no error.
SetMounted(bd, err) ==
  [bd EXCEPT !.mounted =
     [status |-> IF err = NoError THEN "True" ELSE "False", message |-> err]]

=============================================================================
