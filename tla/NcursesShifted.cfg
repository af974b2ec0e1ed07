\* A leading network field is hidden.
SPECIFICATION Spec
CONSTANTS
  DomainFields <- TableFields
  HostFields <- CpuHost
  PerDisk <- TablePerDisk
  NetDevFields <- OverlayNetDev
  DiskDevFields <- OverlayDiskDev
  HiddenByDefault <- VerboseFields
  Devices <- SomeDevices
  Lines = 8
  Keys = {"net", "disk", "esc", "fields", "sortLeft", "sortRight", "up", "down", "toggle"}
  MaxInterval = 1
  MaxSort = 5
INVARIANT DeviceViewsAligned
