SPECIFICATION Spec
CONSTANTS
  BlockSize = 52
  NameLen <- Lengths
  FileName = {"f", "readme"}
  DirName = {"d"}
  Mnt = "mnt"
  Hda = "hda"
  LastIno <- Inodes
INVARIANTS
  TreeAndDiskAgree
PROPERTIES
  OnlyRemovedMountsMislead
  OnlyUnlistedLeave
CHECK_DEADLOCK FALSE
