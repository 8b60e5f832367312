SPECIFICATION Spec
CONSTANTS
  NoFile = NoFile  Junk = Junk  Unread = Unread
  Specimen <- MCSpecimen
  Dir <- MCDir
  MaxMounts = 2
  MaxChanges = 3
INVARIANTS TypeOK Identified FileSystemSeen
PROPERTY MountsReadBack
