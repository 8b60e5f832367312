----------------------------- MODULE BlockScanner -----------------------------
(***************************************************************************)
(* getDisk (pkg/block): the scan of one device, file by file, while the    *)
(* host goes on: udevd writes its record, file systems are mounted,        *)
(* unmounted and made read-only, and the device may be pulled out.  The    *)
(* other modules take a scan as one step; here is what that step hides.    *)
(***************************************************************************)
EXTENDS Integers, Sequences

CONSTANTS
  Specimen,     \* the devices to scan; see Device
  Dir,          \* names of mount directories, as sequences of characters
  NoFile,       \* what reading a file that is not there gives
  Junk,         \* a text that is no number
  Unread,       \* a field of the result the scan has not come to
  MaxMounts,    \* bound: mounts at a time
  MaxChanges    \* bound: changes of the host

VARIABLES
  device,     \* the specimen
  present,    \* the kernel has it
  recorded,   \* udevd has written its record
  mtab,       \* mounts of the disk and its partitions, oldest first
  changes,
  disk,       \* the result so far, by field
  next,       \* the field to be read next
  fs,         \* its FileSystemInfo
  parts,      \* its partitions' FileSystemInfo
  pc

hostVars == <<device, present, recorded, mtab, changes>>
scanVars == <<disk, next, fs, parts, pc>>
vars == <<hostVars, scanVars>>

-----------------------------------------------------------------------------
(* The files.                                                              *)

UNKNOWN == "unknown"

Sysfs(attr) == IF present THEN device.sysfs[attr] ELSE NoFile

UdevKeys == IF present /\ recorded THEN DOMAIN device.udev ELSE {}

\* blkid fails when it does not find the tag.
Blkid(name, tag) ==
  IF present /\ tag \in DOMAIN device.tags[name] THEN device.tags[name][tag] ELSE ""

TypeOf(name) == IF "TYPE" \in DOMAIN device.tags[name] THEN device.tags[name]["TYPE"] ELSE ""

Escape == [c \in {" ", "\t", "\n", "\\", "#"} |->
  CASE c = " " -> "\\040" [] c = "\t" -> "\\011" [] c = "\n" -> "\\012"
    [] c = "\\" -> "\\134" [] c = "#" -> "\\043"]

\* How the kernel shows a mount in /proc/mounts.
Line(m) ==
  [source |-> m.name,
   dir |-> [i \in DOMAIN m.dir |->
              IF m.dir[i] \in DOMAIN Escape THEN Escape[m.dir[i]] ELSE m.dir[i]],
   type |-> TypeOf(m.name),
   options |-> <<IF m.readonly THEN "ro" ELSE "rw", "relatime", "errors=remount-ro">>]

ProcMounts == [i \in DOMAIN mtab |-> Line(mtab[i])]

-----------------------------------------------------------------------------
(* The readers.                                                            *)

\* Mutant: a number that cannot be read is passed on.
ReadUintUnchecked(attr, unit) ==
  IF Sysfs(attr) \in {NoFile, Junk} THEN Sysfs(attr) ELSE Sysfs(attr) * unit

ReadUint(attr, unit) ==
  IF Sysfs(attr) \in {NoFile, Junk} THEN 0 ELSE Sysfs(attr) * unit

\* The name's prefix tells the controller, and the drive's type.
diskTypes(prefix) ==
  CASE prefix = "fd"   -> <<"FDD", "Unknown">>
    [] prefix = "sd"   -> <<"HDD", "SCSI">>
    [] prefix = "hd"   -> <<"HDD", "IDE">>
    [] prefix = "vd"   -> <<"HDD", "virtio">>
    [] prefix = "nvme" -> <<"SSD", "NVMe">>
    [] prefix = "sr"   -> <<"ODD", "SCSI">>
    [] prefix = "xvd"  -> <<"HDD", "SCSI">>
    [] prefix = "mmc"  -> <<"SSD", "MMC">>
    [] OTHER           -> <<"Unknown", "Unknown">>

diskIsRotational == Sysfs("rotational") = 1

DriveType == IF diskIsRotational THEN diskTypes(device.prefix)[1] ELSE "SSD"

\* The number is read when the file cannot be, and returned when it is none.
diskNUMANodeID ==
  IF ~present THEN -1
  ELSE IF Sysfs("numa_node") = NoFile THEN 0 ELSE -1

diskVendor == IF Sysfs("vendor") = NoFile THEN UNKNOWN ELSE Sysfs("vendor")

\* Mutant: the first key alone is looked up.
FirstUdevOnly(keys) ==
  IF keys[1] \in UdevKeys THEN device.udev[keys[1]] ELSE UNKNOWN

FirstOf(numbers) == CHOOSE i \in numbers : \A j \in numbers : i <= j

\* The value of the first of the keys that a record of udev has.
FirstIn(record, keys, known) ==
  LET found == {i \in DOMAIN keys : keys[i] \in known}
  IN  IF found = {} THEN UNKNOWN ELSE record[keys[FirstOf(found)]]

FirstUdev(keys) == FirstIn(device.udev, keys, UdevKeys)

diskModel == FirstUdev(<<"ID_MODEL">>)
diskSerialNumber == FirstUdev(<<"ID_SERIAL_SHORT", "ID_SERIAL">>)
diskBusPath == FirstUdev(<<"ID_PATH">>)
diskWWN == FirstUdev(<<"ID_WWN_WITH_EXTENSION", "ID_WWN">>)

\* Mutant: a space is left as the kernel writes it.
DecodeTabs(text) ==
  [i \in DOMAIN text |->
     CASE text[i] = "\\011" -> "\t" [] text[i] = "\\012" -> "\n" [] OTHER -> text[i]]

\* parseMountEntry's Replacer.  It does not know \134, nor \043; a backslash
\* on its own, which it replaces as well, does not occur.
Decode(text) ==
  [i \in DOMAIN text |->
     CASE text[i] = "\\011" -> "\t" [] text[i] = "\\012" -> "\n"
       [] text[i] = "\\040" -> " " [] OTHER -> text[i]]

IsLonghorn(path) == path = "longhorn"

NotMounted == [mountPoint |-> <<>>, type |-> "", readonly |-> TRUE]

\* The first line of /proc/mounts for the device; others are passed over.
partitionInfo(name) ==
  LET found == {i \in DOMAIN ProcMounts : ProcMounts[i].source = name}
      line  == ProcMounts[FirstOf(found)]
  IN  IF found = {} THEN NotMounted
      ELSE [mountPoint |-> Decode(line.dir), type |-> line.type,
            readonly |-> \A i \in DOMAIN line.options : line.options[i] # "rw"]

-----------------------------------------------------------------------------
(* The scan.                                                               *)

\* What getDisk reads first, in this order.
Field == <<"driveType", "sizeBytes", "physicalBlockSizeBytes", "busPath", "numaNodeID",
           "vendor", "model", "serialNumber", "wwn", "removable", "uuid", "ptUUID">>

Read(f) ==
  CASE f = "driveType" -> DriveType
    [] f = "sizeBytes" -> ReadUint("size", 512)
    [] f = "physicalBlockSizeBytes" -> ReadUint("physical_block_size", 1)
    [] f = "busPath" -> diskBusPath
    [] f = "numaNodeID" -> diskNUMANodeID
    [] f = "vendor" -> diskVendor
    [] f = "model" -> diskModel
    [] f = "serialNumber" -> diskSerialNumber
    [] f = "wwn" -> diskWWN
    [] f = "removable" -> Sysfs("removable") = 1
    [] f = "uuid" -> Blkid("disk", "UUID")
    [] f = "ptUUID" -> Blkid("disk", "PTUUID")

Nothing == [f \in {Field[i] : i \in DOMAIN Field} |-> Unread]

\* The scan begins: for disks(), which passes over loop devices, or for
\* GetDiskByName, which is asked for any device.
Begin ==
  /\ pc = "idle"
  /\ pc' = "fields"
  /\ disk' = Nothing /\ next' = 1 /\ fs' = NotMounted /\ parts' = <<>>
  /\ UNCHANGED hostVars

ReadField ==
  /\ pc = "fields"
  /\ disk' = [disk EXCEPT ![Field[next]] = Read(Field[next])]
  /\ next' = next + 1
  /\ pc' = IF next = Len(Field) THEN "mounts" ELSE "fields"
  /\ UNCHANGED <<hostVars, fs, parts>>

ReadMounts ==
  /\ pc = "mounts"
  /\ fs' = partitionInfo("disk")
  /\ pc' = "type"
  /\ UNCHANGED <<hostVars, disk, next, parts>>

\* Mutant: blkid is not asked.
SkipType ==
  /\ pc = "type"
  /\ pc' = "partitions"
  /\ UNCHANGED <<hostVars, disk, next, fs, parts>>

\* A disk that is not mounted has its type from blkid.
ReadType ==
  /\ pc = "type"
  /\ fs' = IF fs.type = "" THEN [fs EXCEPT !.type = Blkid("disk", "TYPE")] ELSE fs
  /\ pc' = "partitions"
  /\ UNCHANGED <<hostVars, disk, next, parts>>

\* diskPartitions lists the directory of a disk that is still there.  The
\* partitions are read in one step.
ReadPartitions ==
  /\ pc = "partitions"
  /\ parts' = IF present
                THEN [n \in DOMAIN device.partitions |->
                        [size |-> device.partitions[n] * 512, uuid |-> Blkid(n, "PARTUUID"),
                         fs |-> partitionInfo(n)]]
                ELSE <<>>
  /\ pc' = "done"
  /\ UNCHANGED <<hostVars, disk, next, fs>>

Done ==
  /\ pc = "done"
  /\ pc' = "idle"
  /\ UNCHANGED <<hostVars, disk, next, fs, parts>>

-----------------------------------------------------------------------------
(* The host.                                                               *)

Names == {"disk"} \cup DOMAIN device.partitions

Change == changes < MaxChanges /\ changes' = changes + 1

Unplug ==
  /\ Change
  /\ present /\ present' = FALSE
  /\ recorded' = FALSE
  /\ UNCHANGED <<device, mtab, scanVars>>

UdevRecords ==
  /\ Change
  /\ present /\ ~recorded /\ recorded' = TRUE
  /\ UNCHANGED <<device, present, mtab, scanVars>>

Mount ==
  /\ Change
  /\ present /\ Len(mtab) < MaxMounts
  /\ \E n \in Names, d \in Dir, r \in BOOLEAN :
       /\ TypeOf(n) # ""
       /\ mtab' = Append(mtab, [name |-> n, dir |-> d, readonly |-> r])
  /\ UNCHANGED <<device, present, recorded, scanVars>>

Unmount ==
  /\ Change
  /\ \E i \in DOMAIN mtab :
       mtab' = SubSeq(mtab, 1, i - 1) \o SubSeq(mtab, i + 1, Len(mtab))
  /\ UNCHANGED <<device, present, recorded, scanVars>>

\* errors=remount-ro.
FailReadOnly ==
  /\ Change
  /\ \E i \in DOMAIN mtab :
       /\ ~mtab[i].readonly
       /\ mtab' = [j \in DOMAIN mtab |->
            IF mtab[j].name = mtab[i].name THEN [mtab[j] EXCEPT !.readonly = TRUE] ELSE mtab[j]]
  /\ UNCHANGED <<device, present, recorded, scanVars>>

-----------------------------------------------------------------------------
(* The devices.                                                            *)

ASSUME FileAssumption == NoFile \notin {UNKNOWN, ""}

\* What is in the files of a device.  Its identity is what a record of udev
\* says, and the path of a Longhorn volume in it says that it is one.
ASSUME SpecimenAssumption ==
  \A d \in Specimen :
    /\ \A attr \in {"size", "physical_block_size"} : d.sysfs[attr] \in Nat \cup {NoFile, Junk}
    /\ \A tags \in {d.tags[name] : name \in {"disk"} \cup DOMAIN d.partitions} :
         \A tag \in DOMAIN tags : tags[tag] # NoFile
    /\ LET Says(keys) == FirstIn(d.udev, keys, DOMAIN d.udev)
       IN  /\ d.identity.model = Says(<<"ID_MODEL">>)
           /\ d.identity.serial = Says(<<"ID_SERIAL_SHORT", "ID_SERIAL">>)
           /\ d.identity.wwn = Says(<<"ID_WWN_WITH_EXTENSION", "ID_WWN">>)
    /\ d.identity.longhorn /\ "ID_PATH" \in DOMAIN d.udev => IsLonghorn(d.udev["ID_PATH"])

\* Names of directories are spelled with single characters.
ASSUME DirAssumption ==
  /\ Dir \subseteq Seq(STRING)
  /\ \A d \in Dir : \A i \in DOMAIN d : d[i] \notin {"\\011", "\\012", "\\040"}

-----------------------------------------------------------------------------

Init ==
  /\ device \in Specimen
  /\ present = TRUE /\ recorded \in BOOLEAN
  /\ mtab = <<>> /\ changes = 0
  /\ disk = Nothing /\ next = 1 /\ fs = NotMounted /\ parts = <<>> /\ pc = "idle"

Scan ==
  Begin \/ ReadField \/ ReadMounts \/ ReadType \/ ReadPartitions \/ Done

Next == Scan \/ Unplug \/ UdevRecords \/ Mount \/ Unmount \/ FailReadOnly

Spec == Init /\ [][Next]_vars

-----------------------------------------------------------------------------
(* What is promised.                                                       *)

\* What the resource's schema requires of a complete record, from files that
\* may be missing or hold no number.
TypeOK ==
  pc = "done" =>
    /\ disk["driveType"] \in {"HDD", "FDD", "ODD", "SSD", "Unknown"}
    /\ {disk["sizeBytes"], disk["physicalBlockSizeBytes"]} \subseteq Nat
    /\ disk["numaNodeID"] \in Int /\ disk["removable"] \in BOOLEAN
    /\ NoFile \notin {disk["vendor"], disk["uuid"], disk["ptUUID"], fs.type}

\* Udev's record is read four times, and may appear in between.  A device whose
\* bus path was read, and that is still there, has the model, the serial number
\* and the WWN that were read after it; the Longhorn filter, which goes by the
\* bus path, therefore passes a Longhorn device only before udev has seen it.
Identified ==
  pc = "done" /\ present =>
    /\ disk["busPath"] # UNKNOWN =>
         /\ disk["model"] = device.identity.model
         /\ disk["serialNumber"] = device.identity.serial
         /\ disk["wwn"] = device.identity.wwn
    /\ device.identity.longhorn /\ ~IsLonghorn(disk["busPath"]) => disk["busPath"] = UNKNOWN

\* A disk that has a file system is reported with its type, whether it is
\* mounted or not, and mounted or unmounted while it is scanned.
FileSystemSeen == pc = "done" /\ present => fs.type = TypeOf("disk")

\* Names the decoding restores.
Plain(dir) == \A i \in DOMAIN dir : dir[i] \notin {"\\", "#"}

\* Of the mounts of a device the scan reports the oldest: its directory, as the
\* user named it, and whether it can be written.
Oldest(name) ==
  LET mounts == {i \in DOMAIN mtab : mtab[i].name = name}
  IN  IF mounts = {} THEN [dir |-> <<>>, readonly |-> TRUE] ELSE mtab[FirstOf(mounts)]

Reports(info, m) ==
  /\ Plain(m.dir) => info.mountPoint = m.dir
  /\ info.readonly = m.readonly

MountsReadBack ==
  [][/\ pc = "mounts" /\ pc' = "type" => Reports(fs', Oldest("disk"))
     /\ pc = "partitions" /\ pc' = "done" =>
          \A n \in DOMAIN parts' : Reports(parts'[n].fs, Oldest(n))]_vars

=============================================================================
