\* Overlays, views, hidden fields and the sort column, with a VM that has two
\* devices and one that has none.
SPECIFICATION Spec
CONSTANTS
  DomainFields <- TableFields
  HostFields <- CpuHost
  PerDisk <- TablePerDisk
  NetDevFields <- OverlayNetDev
  DiskDevFields <- OverlayDiskDev
  HiddenByDefault <- VerboseFields
  Devices <- SomeDevices
  Lines = 2
  Keys = {"all", "net", "disk", "lvm", "esc", "help", "fields", "sortLeft", "sortRight", "up", "down", "toggle", "q", "ctrlC"}
  MaxInterval = 1
  MaxSort = 3
INVARIANTS TypeOK TerminalCurrent PlainViewsAligned TailHiddenAligned EveryVMListed
PROPERTIES HighlightToggled
