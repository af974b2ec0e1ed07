\* Two overlapping rounds over two domains with two metrics each; three VMs
\* coming and going under a print over two collectors; two interfaces, one
\* named like the end of the other, and a partitioned disk with a loop device.
SPECIFICATION SideSpec
CONSTANTS
  Domains = {d1, d2}
  Metrics = {times, runqueues}
  Rounds = 2
  UUIDs = {u1, u2, u3}
  Pids = {1}
  Collectors <- TwoCollectors
  Interfaces = {"net0", "vnet0"}
  Within <- InterfacePair
  Disks = {"sda", "sda1", "loop1"}
  Longer <- PartitionPair
  Partitions <- PartitionPair
  Stacked <- LoopPair
  Loops = {"loop1"}
  Word = 2
INVARIANTS
  DomainSeriesOrdered HostOrderedUnlessOverlap DomainSnapshot
  RowsFit SteadyRowsAligned
  DevicesTypeOK SumOfParts TotalIsIO
