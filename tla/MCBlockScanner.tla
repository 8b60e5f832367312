---------------------------- MODULE MCBlockScanner ----------------------------
(* Devices of different kinds, for BlockScanner. *)
EXTENDS BlockScanner, TLC

Sys(rotational, size, removable, vendor) ==
  [attr \in {"rotational", "size", "physical_block_size", "removable", "vendor", "numa_node"} |->
     CASE attr = "rotational" -> rotational
       [] attr = "size" -> size
       [] attr = "physical_block_size" -> 4096
       [] attr = "removable" -> removable
       [] attr = "vendor" -> vendor
       [] attr = "numa_node" -> NoFile]

Identity(model, serial, wwn, longhorn) ==
  [model |-> model, serial |-> serial, wwn |-> wwn, longhorn |-> longhorn]

\* A hard disk with one partition; udev has both keys of every pair.
HardDisk ==
  [prefix |-> "sd", sysfs |-> Sys(1, 8, 0, "ATA"),
   udev |-> "ID_PATH" :> "pci" @@ "ID_MODEL" :> "M" @@ "ID_SERIAL" :> "ATA_M_S"
              @@ "ID_SERIAL_SHORT" :> "S" @@ "ID_WWN" :> "W" @@ "ID_WWN_WITH_EXTENSION" :> "WX",
   identity |-> Identity("M", "S", "WX", FALSE),
   tags |-> "disk" :> ("PTUUID" :> "t") @@ "part" :> ("PARTUUID" :> "u" @@ "TYPE" :> "ext4"),
   partitions |-> "part" :> 4]

\* A virtual disk with a file system on the whole of it, and hardly any record.
VirtualDisk ==
  [prefix |-> "vd", sysfs |-> Sys(1, 8, 0, NoFile),
   udev |-> "ID_PATH" :> "pci" @@ "ID_SERIAL" :> "V",
   identity |-> Identity(UNKNOWN, "V", UNKNOWN, FALSE),
   tags |-> "disk" :> ("UUID" :> "f" @@ "TYPE" :> "ext4"), partitions |-> <<>>]

\* A Longhorn volume, attached over iSCSI.
Volume ==
  [prefix |-> "sd", sysfs |-> Sys(1, 8, 0, "IET"),
   udev |-> "ID_PATH" :> "longhorn" @@ "ID_MODEL" :> "VIRTUAL-DISK" @@ "ID_SERIAL" :> "L"
              @@ "ID_WWN" :> "W",
   identity |-> Identity("VIRTUAL-DISK", "L", "W", TRUE),
   tags |-> "disk" :> ("UUID" :> "f" @@ "TYPE" :> "ext4"), partitions |-> <<>>]

\* A card reader without a card, and a loop device.
Empty ==
  [prefix |-> "mmc", sysfs |-> Sys(0, Junk, 1, NoFile), udev |-> <<>>,
   identity |-> Identity(UNKNOWN, UNKNOWN, UNKNOWN, FALSE),
   tags |-> "disk" :> <<>>, partitions |-> <<>>]

MCSpecimen == {HardDisk, VirtualDisk, Volume, Empty, [Empty EXCEPT !.prefix = "loop"]}

MCDir == {<<"a">>, <<"a", " ", "b">>, <<"\t", "\n">>, <<"a", "\\">>}

=============================================================================
