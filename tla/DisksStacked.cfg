\* An LVM volume on a disk without partitions.
SPECIFICATION DevicesSpec
CONSTANTS
  Interfaces = {"net0"}
  Disks = {"sda", "dm-0"}
  Longer = {}
  Partitions = {}
  Stacked <- VolumePair
  Loops = {}
  Within = {}
  Word = 3
INVARIANT CompletedOnce
