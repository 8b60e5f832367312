------------------------- MODULE BlockScannerProofs -------------------------
(***************************************************************************)
(* The scan of a device, for any device, any names of mount directories    *)
(* and any changes of the host: what is read fits the schema, udev's       *)
(* fields agree, and mount points read back.                               *)
(***************************************************************************)
EXTENDS BlockScanner, WellFoundedInduction, SequenceTheorems, TLAPS

-----------------------------------------------------------------------------
(* The operators.                                                          *)

Less == OpToRel(<, Nat)

\* There is a first one among numbers, and FirstOf is it.
LEMMA FirstOfIsFirst ==
  ASSUME NEW S, S \subseteq Nat, S # {}
  PROVE  FirstOf(S) \in S /\ \A j \in S : FirstOf(S) <= j
<1>1. \A x, y \in Nat : <<x, y>> \in Less <=> x < y
  BY DEF Less, OpToRel
<1>2. IsWellFoundedOn(Less, Nat)
  BY NatLessThanWellFounded DEF Less
<1>3. PICK x \in S : \A y \in S : ~(<<y, x>> \in Less)
  BY <1>2, WFMin
<1>4. ASSUME NEW y \in S PROVE x <= y
  <2>1. x \in Nat /\ y \in Nat /\ ~(<<y, x>> \in Less)
    BY <1>3
  <2>2. ~(y < x)
    BY <1>1, <2>1
  <2> QED BY <2>1, <2>2
<1> QED BY <1>3, <1>4 DEF FirstOf

\* The fields, in the order in which they are read.
LEMMA Fields ==
  /\ DOMAIN Field = 1..12 /\ Len(Field) = 12
  /\ \A i \in 1..12 :
       /\ Field[i] = "driveType" <=> i = 1
       /\ Field[i] = "sizeBytes" <=> i = 2
       /\ Field[i] = "physicalBlockSizeBytes" <=> i = 3
       /\ Field[i] = "busPath" <=> i = 4
       /\ Field[i] = "numaNodeID" <=> i = 5
       /\ Field[i] = "vendor" <=> i = 6
       /\ Field[i] = "model" <=> i = 7
       /\ Field[i] = "serialNumber" <=> i = 8
       /\ Field[i] = "wwn" <=> i = 9
       /\ Field[i] = "removable" <=> i = 10
       /\ Field[i] = "uuid" <=> i = 11
       /\ Field[i] = "ptUUID" <=> i = 12
BY DEF Field

\* With all keys of udev's record known, the identity is read; without any,
\* nothing is.
LEMMA RecordRead ==
  ASSUME device \in Specimen
  PROVE  /\ present /\ recorded => /\ diskModel = device.identity.model
                                   /\ diskSerialNumber = device.identity.serial
                                   /\ diskWWN = device.identity.wwn
         /\ ~(present /\ recorded) => diskBusPath = UNKNOWN
         /\ device.identity.longhorn => diskBusPath = UNKNOWN \/ IsLonghorn(diskBusPath)
<1>1. present /\ recorded => UdevKeys = DOMAIN device.udev
  BY DEF UdevKeys
<1>2. ~(present /\ recorded) => UdevKeys = {}
  BY DEF UdevKeys
<1>3. diskBusPath = IF "ID_PATH" \in UdevKeys THEN device.udev["ID_PATH"] ELSE UNKNOWN
  <2> DEFINE keys == <<"ID_PATH">>
             found == {i \in DOMAIN keys : keys[i] \in UdevKeys}
  <2>1. found = IF "ID_PATH" \in UdevKeys THEN {1} ELSE {}
    OBVIOUS
  <2>2. FirstOf({1}) = 1
    BY FirstOfIsFirst
  <2> QED BY <2>1, <2>2 DEF diskBusPath, FirstUdev, FirstIn
<1>4. "ID_PATH" \in UdevKeys => "ID_PATH" \in DOMAIN device.udev
  BY <1>1, <1>2
<1> QED BY <1>1, <1>2, <1>3, <1>4, SpecimenAssumption
      DEF diskModel, diskSerialNumber, diskWWN, FirstUdev

MountOf == [name : Names, dir : Dir, readonly : BOOLEAN]

\* What a line of /proc/mounts was written from is read back from it.
LEMMA LineReadsBack ==
  ASSUME NEW m \in MountOf
  PROVE  /\ Line(m).source = m.name /\ Line(m).type = TypeOf(m.name)
         /\ Plain(m.dir) => Decode(Line(m).dir) = m.dir
         /\ (\A i \in DOMAIN Line(m).options : Line(m).options[i] # "rw") = m.readonly
<1>1. m.readonly \in BOOLEAN /\ m.dir \in Dir
  BY DEF MountOf
<1>2. m.dir \in Seq(STRING) /\ \A i \in DOMAIN m.dir : m.dir[i] \notin {"\\011", "\\012", "\\040"}
  BY <1>1, DirAssumption
<1>3. Plain(m.dir) => Decode(Line(m).dir) = m.dir
  <2> DEFINE shown == [i \in DOMAIN m.dir |->
                 IF m.dir[i] \in DOMAIN Escape THEN Escape[m.dir[i]] ELSE m.dir[i]]
  <2>1. Line(m).dir = shown
    BY DEF Line
  <2>2. ASSUME Plain(m.dir), NEW i \in DOMAIN m.dir
        PROVE  (CASE shown[i] = "\\011" -> "\t" [] shown[i] = "\\012" -> "\n"
                  [] shown[i] = "\\040" -> " " [] OTHER -> shown[i]) = m.dir[i]
    BY <1>2, <2>2 DEF Plain, Escape
  <2>3. Decode(shown) = [i \in DOMAIN m.dir |->
          CASE shown[i] = "\\011" -> "\t" [] shown[i] = "\\012" -> "\n"
            [] shown[i] = "\\040" -> " " [] OTHER -> shown[i]]
    BY DEF Decode
  <2>4. m.dir = [i \in DOMAIN m.dir |-> m.dir[i]]
    BY <1>2
  <2> HIDE DEF shown
  <2> QED BY <2>1, <2>2, <2>3, <2>4
<1>4. (\A i \in DOMAIN Line(m).options : Line(m).options[i] # "rw") = m.readonly
  <2>1. Line(m).options = <<IF m.readonly THEN "ro" ELSE "rw", "relatime", "errors=remount-ro">>
    BY DEF Line
  <2>2. CASE m.readonly
    BY <2>1, <2>2
  <2>3. CASE ~m.readonly
    <3>1. 1 \in DOMAIN Line(m).options /\ Line(m).options[1] = "rw"
      BY <2>1, <2>3
    <3> QED BY <1>1, <2>3, <3>1
  <2> QED BY <1>1, <2>2, <2>3
<1> QED BY <1>3, <1>4 DEF Line

\* partitionInfo has the type of the device's file system, or none, and reads
\* the oldest mount back.
LEMMA PartitionInfoReads ==
  ASSUME mtab \in Seq(MountOf), NEW name
  PROVE  /\ "type" \in DOMAIN partitionInfo(name)
         /\ partitionInfo(name).type \in {"", TypeOf(name)}
         /\ Reports(partitionInfo(name), Oldest(name))
<1> DEFINE found == {i \in DOMAIN mtab : mtab[i].name = name}
           line == Line(mtab[FirstOf(found)])
<1>1. /\ ProcMounts = [i \in DOMAIN mtab |-> Line(mtab[i])]
      /\ \A i \in DOMAIN mtab : i \in Nat /\ mtab[i] \in MountOf
  BY LenProperties, ElementOfSeq DEF ProcMounts
<1>2. {i \in DOMAIN ProcMounts : ProcMounts[i].source = name} = found
  BY <1>1, LineReadsBack
<1>3. CASE found = {}
  <2>1. partitionInfo(name) = NotMounted
    BY <1>2, <1>3 DEF partitionInfo
  <2>2. Oldest(name) = [dir |-> <<>>, readonly |-> TRUE]
    BY <1>3 DEF Oldest
  <2>3. "type" \in DOMAIN NotMounted /\ NotMounted.type = "" /\ NotMounted.mountPoint = <<>>
    BY DEF NotMounted
  <2>4. /\ NotMounted.readonly = TRUE
        /\ [dir |-> <<>>, readonly |-> TRUE].dir = <<>>
        /\ [dir |-> <<>>, readonly |-> TRUE].readonly = TRUE
    BY Zenon DEF NotMounted
  <2> QED BY <2>1, <2>2, <2>3, <2>4, Zenon DEF Reports
<1>4. CASE found # {}
  <2>1. FirstOf(found) \in found
    BY <1>1, <1>4, FirstOfIsFirst
  <2>2. FirstOf(found) \in DOMAIN mtab /\ mtab[FirstOf(found)] \in MountOf
        /\ mtab[FirstOf(found)].name = name
    BY <1>1, <2>1
  <2>3. ProcMounts[FirstOf(found)] = line
    BY <1>1, <2>2
  <2>4. partitionInfo(name) =
          [mountPoint |-> Decode(line.dir), type |-> line.type,
           readonly |-> \A i \in DOMAIN line.options : line.options[i] # "rw"]
    BY <1>2, <1>4, <2>3 DEF partitionInfo
  <2>5. Oldest(name) = mtab[FirstOf(found)]
    BY <1>4 DEF Oldest
  <2>6. /\ line.type = TypeOf(name)
        /\ Plain(Oldest(name).dir) => Decode(line.dir) = Oldest(name).dir
        /\ (\A i \in DOMAIN line.options : line.options[i] # "rw") = Oldest(name).readonly
    BY <2>2, <2>5, LineReadsBack
  <2> HIDE DEF line
  <2>7. /\ "type" \in DOMAIN partitionInfo(name)
        /\ partitionInfo(name).type = line.type /\ partitionInfo(name).mountPoint = Decode(line.dir)
        /\ partitionInfo(name).readonly = (\A i \in DOMAIN line.options : line.options[i] # "rw")
    BY <2>4
  <2>8. partitionInfo(name).readonly = Oldest(name).readonly
    BY <2>6, <2>7
  <2>9. Plain(Oldest(name).dir) => partitionInfo(name).mountPoint = Oldest(name).dir
    BY <2>6, <2>7
  <2> QED BY <2>6, <2>7, <2>8, <2>9, Zenon DEF Reports
<1> QED BY <1>3, <1>4

\* What the schema requires of a field.
FieldOK(f, v) ==
  /\ f = "driveType" => v \in {"HDD", "FDD", "ODD", "SSD", "Unknown"}
  /\ f \in {"sizeBytes", "physicalBlockSizeBytes"} => v \in Nat
  /\ f = "numaNodeID" => v \in Int
  /\ f = "removable" => v \in BOOLEAN
  /\ f \in {"vendor", "uuid", "ptUUID"} => v # NoFile

\* blkid's answer is no missing file.
LEMMA BlkidType ==
  ASSUME device \in Specimen, NEW tag PROVE Blkid("disk", tag) # NoFile /\ TypeOf("disk") # NoFile
<1>1. \A t \in DOMAIN device.tags["disk"] : device.tags["disk"][t] # NoFile
  BY SpecimenAssumption
<1> QED BY <1>1, FileAssumption DEF Blkid, TypeOf

\* Every field fits, whatever files are missing.
LEMMA ReadFits ==
  ASSUME device \in Specimen, NEW i \in 1..12 PROVE FieldOK(Field[i], Read(Field[i]))
<1>1. ASSUME NEW attr \in {"size", "physical_block_size"}, NEW unit \in Nat
      PROVE  ReadUint(attr, unit) \in Nat
  <2>1. device.sysfs[attr] \in Nat \cup {NoFile, Junk}
    BY SpecimenAssumption
  <2>2. Sysfs(attr) \notin {NoFile, Junk} => Sysfs(attr) \in Nat
    BY <2>1 DEF Sysfs
  <2> QED BY <2>2 DEF ReadUint
<1>2. DriveType \in {"HDD", "FDD", "ODD", "SSD", "Unknown"}
  <2>1. diskTypes(device.prefix)[1] \in {"HDD", "FDD", "ODD", "SSD", "Unknown"}
    BY DEF diskTypes
  <2> QED BY <2>1 DEF DriveType
<1>3. diskNUMANodeID \in Int /\ diskVendor # NoFile
  <2>1. diskNUMANodeID \in Int
    BY DEF diskNUMANodeID
  <2>2. diskVendor # NoFile
    BY FileAssumption DEF diskVendor, UNKNOWN
  <2> QED BY <2>1, <2>2
<1>4. Blkid("disk", "UUID") # NoFile /\ Blkid("disk", "PTUUID") # NoFile
  BY BlkidType
<1>5. CASE Field[i] \in {"sizeBytes", "physicalBlockSizeBytes"}
  BY <1>1, <1>5 DEF Read, FieldOK
<1>6. CASE Field[i] \in {"driveType", "numaNodeID", "removable"}
  BY <1>2, <1>3, <1>6 DEF Read, FieldOK
<1>7. CASE Field[i] \in {"vendor", "uuid", "ptUUID"}
  BY <1>3, <1>4, <1>7 DEF Read, FieldOK
<1> QED BY <1>5, <1>6, <1>7 DEF FieldOK

-----------------------------------------------------------------------------
(* The inductive invariant.                                                *)

\* Where the scan is: the fields before next have been read.
ScanTypeOK ==
  /\ device \in Specimen /\ present \in BOOLEAN /\ recorded \in BOOLEAN
  /\ mtab \in Seq(MountOf)
  /\ DOMAIN disk = {Field[i] : i \in DOMAIN Field}
  /\ next \in 1..13
  /\ pc \in {"idle", "fields", "mounts", "type", "partitions", "done"}
  /\ pc = "fields" => next # 13
  /\ pc \in {"mounts", "type", "partitions", "done"} => next = 13

\* The fields that have been read fit the schema ...
FieldsFit == \A i \in 1..12 : i < next => FieldOK(Field[i], disk[Field[i]])

\* ... a bus path that was read came from a record that is still there, and so
\* did what was read after it ...
RecordAgrees ==
  present /\ 4 < next =>
    /\ device.identity.longhorn => disk["busPath"] = UNKNOWN \/ IsLonghorn(disk["busPath"])
    /\ disk["busPath"] # UNKNOWN =>
         /\ recorded
         /\ 7 < next => disk["model"] = device.identity.model
         /\ 8 < next => disk["serialNumber"] = device.identity.serial
         /\ 9 < next => disk["wwn"] = device.identity.wwn

\* ... and the type is that of the file system, unless blkid is still to be asked.
TypeSeen ==
  /\ "type" \in DOMAIN fs /\ fs.type # NoFile
  /\ present /\ pc = "type" => fs.type \in {"", TypeOf("disk")}
  /\ present /\ pc \in {"partitions", "done"} => fs.type = TypeOf("disk")

IInv == ScanTypeOK /\ FieldsFit /\ RecordAgrees /\ TypeSeen

\* The initial state.
LEMMA InitInv == Init => IInv
<1> SUFFICES ASSUME Init PROVE IInv
  OBVIOUS
<1>1. DOMAIN disk = {Field[i] : i \in DOMAIN Field}
  BY DEF Init, Nothing
<1>2. ScanTypeOK
  BY <1>1, EmptySeq DEF Init, ScanTypeOK
<1>3. FieldsFit /\ RecordAgrees
  BY DEF Init, FieldsFit, RecordAgrees
<1>4. TypeSeen
  BY FileAssumption DEF Init, TypeSeen, NotMounted
<1> QED BY <1>2, <1>3, <1>4 DEF IInv

\* The host does not touch the scan, and what the host has is there to stay
\* until the device goes for good.
LEMMA HostSteps ==
  ASSUME ScanTypeOK, Unplug \/ UdevRecords \/ Mount \/ Unmount \/ FailReadOnly
  PROVE  /\ UNCHANGED <<device, scanVars>>
         /\ present' \in BOOLEAN /\ recorded' \in BOOLEAN /\ mtab' \in Seq(MountOf)
         /\ present' => present /\ (recorded => recorded')
<1>0. mtab \in Seq(MountOf) /\ present \in BOOLEAN /\ recorded \in BOOLEAN
  BY DEF ScanTypeOK
<1>1. CASE Unplug \/ UdevRecords
  BY <1>0, <1>1 DEF Unplug, UdevRecords
<1>2. CASE Mount
  <2>1. PICK m \in MountOf : mtab' = Append(mtab, m)
    BY <1>2 DEF Mount, MountOf
  <2> QED BY <1>0, <1>2, <2>1, AppendProperties DEF Mount
<1>3. CASE Unmount
  <2>1. PICK i \in DOMAIN mtab :
          mtab' = SubSeq(mtab, 1, i - 1) \o SubSeq(mtab, i + 1, Len(mtab))
    BY <1>3 DEF Unmount
  <2>2. i \in 1..Len(mtab) /\ Len(mtab) \in Nat
    BY <1>0, <2>1, LenProperties
  <2>3. SubSeq(mtab, 1, i - 1) \in Seq(MountOf) /\ SubSeq(mtab, i + 1, Len(mtab)) \in Seq(MountOf)
    BY <1>0, <2>2, SubSeqProperties
  <2> QED BY <1>0, <1>3, <2>1, <2>3, ConcatProperties DEF Unmount
<1>4. CASE FailReadOnly
  <2>1. PICK i \in DOMAIN mtab : mtab' = [j \in DOMAIN mtab |->
          IF mtab[j].name = mtab[i].name THEN [mtab[j] EXCEPT !.readonly = TRUE] ELSE mtab[j]]
    BY <1>4 DEF FailReadOnly
  <2>2. Len(mtab) \in Nat /\ DOMAIN mtab = 1..Len(mtab) /\ \A j \in DOMAIN mtab : mtab[j] \in MountOf
    BY <1>0, LenProperties, ElementOfSeq
  <2>3. \A j \in DOMAIN mtab : [mtab[j] EXCEPT !.readonly = TRUE] \in MountOf
    BY <2>2 DEF MountOf
  <2>4. mtab' \in [1..Len(mtab) -> MountOf]
    BY <2>1, <2>2, <2>3
  <2>5. mtab' \in Seq(MountOf)
    BY <2>2, <2>4, IsASeq
  <2> QED BY <1>0, <1>4, <2>5 DEF FailReadOnly
<1> QED BY <1>1, <1>2, <1>3, <1>4

\* Everything but reading a field leaves the fields read so far as they are.
LEMMA FieldsStand ==
  ASSUME IInv, device' = device, disk' = disk, next' = next, present' => present,
         recorded => recorded' \/ ~present'
  PROVE  FieldsFit' /\ RecordAgrees'
<1>1. FieldsFit'
  BY DEF IInv, FieldsFit
<1>2. RecordAgrees'
  BY DEF IInv, RecordAgrees
<1> QED BY <1>1, <1>2

\* Reading the next field.
LEMMA ReadFieldInv ==
  ASSUME IInv, ReadField PROVE IInv'
<1> USE DEF IInv
<1>0. /\ next \in 1..12 /\ Field[next] \in DOMAIN disk /\ device \in Specimen
      /\ next' = next + 1 /\ UNCHANGED <<hostVars, fs, parts>>
      /\ disk' = [disk EXCEPT ![Field[next]] = Read(Field[next])]
  BY Fields DEF ReadField, ScanTypeOK
<1>1. /\ disk'[Field[next]] = Read(Field[next])
      /\ \A f \in DOMAIN disk : f # Field[next] => disk'[f] = disk[f]
      /\ DOMAIN disk' = DOMAIN disk
  BY <1>0
<1>2. ScanTypeOK'
  <2>1. device' = device /\ present' = present /\ recorded' = recorded /\ mtab' = mtab
    BY <1>0 DEF hostVars
  <2>2. MountOf' = MountOf
    BY <2>1 DEF MountOf, Names
  <2>3. pc' = IF next = 12 THEN "mounts" ELSE "fields"
    BY Fields DEF ReadField
  <2> QED BY <1>0, <1>1, <2>1, <2>2, <2>3 DEF ScanTypeOK
<1>3. FieldsFit'
  <2> SUFFICES ASSUME NEW i \in 1..12, i < next + 1 PROVE FieldOK(Field[i], disk'[Field[i]])
    BY <1>0 DEF FieldsFit, FieldOK
  <2>1. CASE i = next
    BY <1>0, <1>1, <2>1, ReadFits
  <2>2. CASE i < next
    <3>1. Field[i] # Field[next] /\ Field[i] \in DOMAIN disk
      BY <1>0, <2>2, Fields DEF ScanTypeOK
    <3> QED BY <1>1, <2>2, <3>1 DEF FieldsFit
  <2> QED BY <1>0, <2>1, <2>2
<1>4. RecordAgrees'
  <2>1. /\ device' = device /\ present' = present /\ recorded' = recorded
        /\ UNKNOWN' = UNKNOWN
    BY <1>0 DEF hostVars
  <2>2. /\ {"busPath", "model", "serialNumber", "wwn"} \subseteq DOMAIN disk
        /\ Field[4] = "busPath" /\ Field[7] = "model" /\ Field[8] = "serialNumber" /\ Field[9] = "wwn"
    BY Fields DEF ScanTypeOK
  <2>3. /\ next # 4 => disk'["busPath"] = disk["busPath"]
        /\ next # 7 => disk'["model"] = disk["model"]
        /\ next # 8 => disk'["serialNumber"] = disk["serialNumber"]
        /\ next # 9 => disk'["wwn"] = disk["wwn"]
    BY <1>0, <1>1, <2>2, Fields
  <2>4. /\ next = 4 => disk'["busPath"] = diskBusPath
        /\ next = 7 => disk'["model"] = diskModel
        /\ next = 8 => disk'["serialNumber"] = diskSerialNumber
        /\ next = 9 => disk'["wwn"] = diskWWN
    BY <1>1, <2>2 DEF Read
  <2> QED BY <1>0, <2>1, <2>3, <2>4, RecordRead DEF RecordAgrees
<1>5. TypeSeen'
  <2>1. fs' = fs /\ pc' \in {"mounts", "fields"}
    BY <1>0 DEF ReadField
  <2> QED BY <2>1 DEF TypeSeen
<1> QED BY <1>2, <1>3, <1>4, <1>5

\* The other steps of the scan.
LEMMA ScanInv ==
  ASSUME IInv, Begin \/ ReadMounts \/ ReadType \/ ReadPartitions \/ Done PROVE IInv'
<1> USE DEF IInv
<1>0. /\ device' = device /\ present' = present /\ recorded' = recorded /\ mtab' = mtab
      /\ device \in Specimen /\ MountOf' = MountOf
  BY DEF Begin, ReadMounts, ReadType, ReadPartitions, Done, hostVars, ScanTypeOK, MountOf, Names
<1>1. CASE Begin
  <2>1. /\ disk' = Nothing /\ next' = 1 /\ fs' = NotMounted /\ pc' = "fields"
        /\ DOMAIN Nothing = {Field[i] : i \in DOMAIN Field}
    BY <1>1 DEF Begin, Nothing
  <2>2. ScanTypeOK'
    BY <1>0, <2>1 DEF ScanTypeOK
  <2>3. FieldsFit' /\ RecordAgrees'
    BY <2>1 DEF FieldsFit, RecordAgrees
  <2>4. TypeSeen'
    BY <2>1, FileAssumption DEF TypeSeen, NotMounted
  <2> QED BY <2>2, <2>3, <2>4
<1>2. CASE ReadMounts \/ ReadType \/ ReadPartitions \/ Done
  <2>1. disk' = disk /\ next' = next
    BY <1>2 DEF ReadMounts, ReadType, ReadPartitions, Done
  <2>2. FieldsFit' /\ RecordAgrees'
    BY <1>0, <2>1, FieldsStand
  <2>3. /\ pc' \in {"idle", "type", "partitions", "done"}
        /\ next = 13
    BY <1>2 DEF ReadMounts, ReadType, ReadPartitions, Done, ScanTypeOK
  <2>4. ScanTypeOK'
    BY <1>0, <2>1, <2>3 DEF ScanTypeOK
  <2>5. TypeSeen'
    <3>0. TypeOf("disk")' = TypeOf("disk")
      BY <1>0 DEF TypeOf
    <3>1. CASE ReadMounts
      <4>1. fs'.type \in {"", TypeOf("disk")} /\ "type" \in DOMAIN fs'
        BY <3>1, PartitionInfoReads DEF ReadMounts, ScanTypeOK
      <4>2. fs'.type # NoFile /\ pc' = "type"
        BY <1>0, <3>1, <4>1, BlkidType, FileAssumption DEF ReadMounts
      <4> QED BY <1>0, <3>0, <4>1, <4>2 DEF TypeSeen
    <3>2. CASE ReadType
      <4>1. /\ pc = "type" /\ pc' = "partitions"
            /\ fs' = IF fs.type = "" THEN [fs EXCEPT !.type = Blkid("disk", "TYPE")] ELSE fs
        BY <3>2 DEF ReadType
      <4>2. present => Blkid("disk", "TYPE") = TypeOf("disk")
        BY DEF Blkid, TypeOf
      <4>3. fs'.type = IF fs.type = "" THEN Blkid("disk", "TYPE") ELSE fs.type
        BY <4>1 DEF TypeSeen
      <4>4. DOMAIN fs' = DOMAIN fs
        BY <4>1
      <4> QED BY <1>0, <3>0, <4>1, <4>2, <4>3, <4>4, BlkidType DEF TypeSeen
    <3>3. CASE ReadPartitions \/ Done
      <4>1. fs' = fs /\ (pc' = "idle" \/ (pc' = "done" /\ pc = "partitions"))
        BY <3>3 DEF ReadPartitions, Done
      <4> QED BY <1>0, <3>0, <4>1 DEF TypeSeen
    <3> QED BY <1>2, <3>1, <3>2, <3>3
  <2> QED BY <2>2, <2>4, <2>5
<1> QED BY <1>1, <1>2

\* The steps of the host, of which only the loss of the device can make what
\* was read untrue, and then nothing is claimed of it.
LEMMA HostInv ==
  ASSUME IInv, Unplug \/ UdevRecords \/ Mount \/ Unmount \/ FailReadOnly PROVE IInv'
<1> USE DEF IInv
<1>0. /\ device' = device /\ disk' = disk /\ next' = next /\ fs' = fs /\ pc' = pc
      /\ present' \in BOOLEAN /\ recorded' \in BOOLEAN /\ mtab' \in Seq(MountOf)
      /\ present' => present /\ (recorded => recorded')
  BY HostSteps DEF scanVars
<1>1. MountOf' = MountOf /\ TypeOf("disk")' = TypeOf("disk")
  BY <1>0 DEF MountOf, Names, TypeOf
<1>2. ScanTypeOK'
  BY <1>0, <1>1 DEF ScanTypeOK
<1>3. FieldsFit' /\ RecordAgrees'
  BY <1>0, FieldsStand
<1>4. TypeSeen'
  BY <1>0, <1>1 DEF TypeSeen
<1> QED BY <1>2, <1>3, <1>4

\* Every step keeps the inductive invariant.
LEMMA StepInv == ASSUME IInv, [Next]_vars PROVE IInv'
<1>1. CASE UNCHANGED vars
  <2>1. /\ device' = device /\ disk' = disk /\ next' = next /\ fs' = fs /\ pc' = pc
        /\ present' = present /\ recorded' = recorded /\ mtab' = mtab
    BY <1>1 DEF vars, hostVars, scanVars
  <2>2. MountOf' = MountOf /\ TypeOf("disk")' = TypeOf("disk")
    BY <2>1 DEF MountOf, Names, TypeOf
  <2>3. FieldsFit' /\ RecordAgrees'
    BY <2>1, FieldsStand
  <2>4. ScanTypeOK'
    BY <2>1, <2>2 DEF IInv, ScanTypeOK
  <2>5. TypeSeen'
    BY <2>1, <2>2 DEF IInv, TypeSeen
  <2> QED BY <2>3, <2>4, <2>5 DEF IInv
<1>2. CASE ReadField
  BY <1>2, ReadFieldInv
<1>3. CASE Begin \/ ReadMounts \/ ReadType \/ ReadPartitions \/ Done
  BY <1>3, ScanInv
<1>4. CASE Unplug \/ UdevRecords \/ Mount \/ Unmount \/ FailReadOnly
  BY <1>4, HostInv
<1> QED BY <1>1, <1>2, <1>3, <1>4 DEF Next, Scan

-----------------------------------------------------------------------------
(* What is promised.                                                       *)

\* The scan of a device (getDisk) keeps the inductive invariant.
LEMMA ScanInvariant == Spec => []IInv
<1>1. Init => IInv
  BY InitInv
<1>2. IInv /\ [Next]_vars => IInv'
  BY StepInv
<1> QED BY <1>1, <1>2, PTL DEF Spec

\* Whatever files of sysfs, of udev and of blkid are missing or hold no number,
\* and whenever the device is pulled out, a complete record has what the
\* resource's schema requires (getDisk, and the readers under it).
THEOREM RecordsFitTheSchema == Spec => []TypeOK
<1>1. IInv => TypeOK
  <2> SUFFICES ASSUME IInv, pc = "done" PROVE TypeOK
    BY DEF TypeOK
  <2>1. next = 13
    BY DEF IInv, ScanTypeOK
  <2>2. \A i \in 1..12 : FieldOK(Field[i], disk[Field[i]])
    BY <2>1 DEF IInv, FieldsFit
  <2>3. /\ FieldOK("driveType", disk["driveType"])
        /\ FieldOK("sizeBytes", disk["sizeBytes"])
        /\ FieldOK("physicalBlockSizeBytes", disk["physicalBlockSizeBytes"])
        /\ FieldOK("numaNodeID", disk["numaNodeID"])
        /\ FieldOK("vendor", disk["vendor"])
        /\ FieldOK("removable", disk["removable"])
        /\ FieldOK("uuid", disk["uuid"])
        /\ FieldOK("ptUUID", disk["ptUUID"])
    BY <2>2, Fields
  <2>4. fs.type # NoFile
    BY DEF IInv, TypeSeen
  <2> QED BY <2>3, <2>4 DEF TypeOK, FieldOK
<1> QED BY <1>1, ScanInvariant, PTL

\* A device whose bus path was read and that is still there is described by one
\* record of udev, though the record is read four times and may appear in
\* between; and only a device without a bus path can pass the Longhorn filter
\* that ought not to (diskModel, diskSerialNumber, diskBusPath, diskWWN).
THEOREM OneRecordIdentifies == Spec => []Identified
<1>1. IInv => Identified
  <2> SUFFICES ASSUME IInv, pc = "done", present PROVE Identified
    BY DEF Identified
  <2>1. next = 13
    BY DEF IInv, ScanTypeOK
  <2> QED BY <2>1 DEF IInv, RecordAgrees, Identified
<1> QED BY <1>1, ScanInvariant, PTL

\* A disk's file system is reported, whether the disk is mounted, unmounted or
\* one becomes the other between the reading of /proc/mounts and the call of
\* blkid (getDisk, getPartitionInfo).
THEOREM FileSystemIsSeen == Spec => []FileSystemSeen
<1>1. IInv => FileSystemSeen
  BY DEF IInv, TypeSeen, FileSystemSeen
<1> QED BY <1>1, ScanInvariant, PTL

\* The oldest mount is reported as the user made it: its directory, from the
\* kernel's escapes, and whether it can be written (partitionInfo,
\* parseMountEntry).
THEOREM OldestMountReadsBack == Spec => MountsReadBack
<1>1. ASSUME IInv, [Next]_vars, pc = "mounts", pc' = "type" PROVE Reports(fs', Oldest("disk"))
  <2>1. ReadMounts
    <3>1. pc' # pc
      BY <1>1
    <3>2. ~(Unplug \/ UdevRecords \/ Mount \/ Unmount \/ FailReadOnly) /\ ~UNCHANGED vars
      BY <1>1, <3>1, HostSteps DEF IInv, vars, scanVars
    <3> QED BY <1>1, <3>2 DEF Next, Scan, Begin, ReadField, ReadType, ReadPartitions, Done
  <2> QED BY <1>1, <2>1, PartitionInfoReads DEF ReadMounts, IInv, ScanTypeOK
<1>2. ASSUME IInv, [Next]_vars, pc = "partitions", pc' = "done", NEW n \in DOMAIN parts'
      PROVE  Reports(parts'[n].fs, Oldest(n))
  <2>1. ReadPartitions
    <3>1. pc' # pc
      BY <1>2
    <3>2. ~(Unplug \/ UdevRecords \/ Mount \/ Unmount \/ FailReadOnly) /\ ~UNCHANGED vars
      BY <1>2, <3>1, HostSteps DEF IInv, vars, scanVars
    <3> QED BY <1>2, <3>2 DEF Next, Scan, Begin, ReadField, ReadMounts, ReadType, Done
  <2>2. CASE present
    <3>1. parts'[n].fs = partitionInfo(n)
      BY <1>2, <2>1, <2>2 DEF ReadPartitions
    <3> QED BY <1>2, <3>1, PartitionInfoReads DEF IInv, ScanTypeOK
  <2>3. CASE ~present
    BY <1>2, <2>1, <2>3 DEF ReadPartitions
  <2> QED BY <2>2, <2>3
<1>3. IInv /\ [Next]_vars =>
        [/\ pc = "mounts" /\ pc' = "type" => Reports(fs', Oldest("disk"))
         /\ pc = "partitions" /\ pc' = "done" =>
              \A n \in DOMAIN parts' : Reports(parts'[n].fs, Oldest(n))]_vars
  BY <1>1, <1>2
<1> QED BY <1>3, ScanInvariant, PTL DEF Spec, MountsReadBack

=============================================================================
