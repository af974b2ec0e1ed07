------------------------------ MODULE Devices ------------------------------
(***************************************************************************)
(* Totals over devices and the series of each device: the interfaces of a  *)
(* VM (collectors/netcollector, domainLookup and domainCollect) and the    *)
(* block devices of the host (collectors/diskcollector, diskHostLookup).   *)
(* Devices are plugged, unplugged and used between any two readings.       *)
(*                                                                         *)
(* One counter stands for the sixteen of an interface and the eleven of a  *)
(* block device, which are treated alike.  Counters are modulo Word, 2^64  *)
(* in the code: a rate is the difference of two measurements modulo Word.  *)
(***************************************************************************)
EXTENDS FiniteSets, Measurable

CONSTANTS
  Interfaces, \* network interfaces of the VM
  Within,     \* pairs of interfaces: the second name ends with the first
  Disks,      \* block devices of the host
  Longer,     \* pairs of disks: the second name starts with the first
  Partitions, \* pairs of disks: the second is a partition of the first
  Stacked,    \* pairs of disks: the second (LVM, multipath, md, loop) passes
              \* I/O on to the first
  Loops,      \* loop and ram devices
  Word        \* counters are modulo Word

Names == Interfaces \cup Disks

ASSUME DevicesAssumption ==
  /\ Within \subseteq Interfaces \X Interfaces
  /\ Longer \subseteq Disks \X Disks /\ Partitions \subseteq Longer
  /\ Stacked \subseteq Disks \X Disks /\ Loops \subseteq Disks
  /\ Word \in Nat \ {0}

VARIABLES
  collector, \* "net" or "disk": whose series these are
  present,   \* the devices that exist
  count,     \* their counters
  ios,       \* history: all I/O ever done on the devices of the collector
  calm,      \* history: totals added since a device came or went, at most 2
  plain,     \* history: totals added since I/O that was not Plain, at most 2
  listed,    \* metric net_interfaces
  unread, sum, \* domainCollect: the interfaces still to read, and statsSum
  stage,        \* "idle", "reading" (net) or "devices" (disk)
  perDevice,    \* net_ReceivedBytes_<name>, disk_physdev_<name>_reads
  total      \* net_ReceivedBytes, disk_device_reads, each with the list of
             \* interfaces it is the total of and the I/O done when it was added

deviceVars == <<collector, present, count, ios, calm, plain, listed, unread, sum, stage, perDevice, total>>

DevicesInit ==
  /\ collector \in {"net", "disk"}
  /\ present = {} /\ count = [d \in Names |-> 0] /\ ios = 0
  /\ calm = 0 /\ plain = 0
  /\ listed = {} /\ unread = {} /\ sum = 0 /\ stage = "idle"
  /\ perDevice = [d \in Names |-> <<>>] /\ total = <<>>

----------------------------------------------------------------------------
(* The host.  A partition comes after its whole device and goes before it. *)
(* A stacked device needs one of those below it only to come.  I/O may be  *)
(* on any device, and counts on every device on its way.                   *)

Own == IF collector = "net" THEN Interfaces ELSE Disks
Whole(d) == {e \in Names : <<e, d>> \in Partitions}
Parts(d) == {e \in present : <<d, e>> \in Partitions}
Below(d) == {e \in present : <<e, d>> \in Stacked}

Plug(d) ==
  /\ d \notin present /\ Whole(d) \subseteq present
  /\ (\E e \in Disks : <<e, d>> \in Stacked) => Below(d) # {}
  /\ present' = present \cup {d} /\ count' = [count EXCEPT ![d] = 0]
  /\ calm' = 0
  /\ UNCHANGED <<collector, ios, plain, listed, unread, sum, stage, perDevice, total>>

Unplug(d) ==
  /\ d \in present /\ Parts(d) = {}
  /\ present' = present \ {d} /\ count' = [count EXCEPT ![d] = 0]
  /\ calm' = 0
  /\ UNCHANGED <<collector, ios, plain, listed, unread, sum, stage, perDevice, total>>

\* The sets of devices on which I/O on d may count: with a partition its
\* whole device, with a stacked device some of those below it.
Routes(d) ==
  {route \in SUBSET present :
     /\ d \in route
     /\ \A e \in route :
          /\ Whole(e) \subseteq route
          /\ Below(e) # {} => Below(e) \cap route # {}
     /\ \A e \in route \ {d} : \E f \in route : e \in Whole(f) \cup Below(f)}

\* I/O on a disk or a partition that is not stacked on other devices, and
\* with whose name no other device's begins.
Plain(d, route) ==
  /\ route \subseteq {d} \cup Whole(d)
  /\ \A e \in present : <<d, e>> \notin Longer

IO(d) ==
  /\ d \in present
  /\ \E route \in Routes(d) :
       /\ count' = [e \in Names |-> IF e \in route THEN (count[e] + 1) % Word
                                                  ELSE count[e]]
       /\ plain' = IF Plain(d, route) THEN plain ELSE 0
  /\ ios' = (ios + 1) % Word
  /\ UNCHANGED <<collector, present, calm, listed, unread, sum, stage, perDevice, total>>

DeviceStep == \E d \in Own : Plug(d) \/ Unplug(d) \/ IO(d)

\* The sum of f over S: a value v counts as the pairs with 1, ..., v.
SumOf(f, S) == Cardinality({p \in S \X (1..Word - 1) : p[2] <= f[p[1]]})

Counters(devices) == SumOf(count, devices) % Word

AddTotal(value) ==
  /\ total' = AddMeasurement(total, [value |-> value, of |-> listed, at |-> ios])
  /\ calm' = IF calm < 2 THEN calm + 1 ELSE 2
  /\ plain' = IF plain < 2 THEN plain + 1 ELSE 2

----------------------------------------------------------------------------
(* The interfaces of a VM.                                                 *)

\* The targets in the XML of the guest, or in the configuration of the VM.
NetLookup ==
  /\ collector = "net" /\ stage = "idle"
  /\ listed' = present
  /\ UNCHANGED <<collector, present, count, ios, calm, plain, unread, sum, stage, perDevice, total>>

\* Faulty variant: the sum of the last collect is carried on.
NetCollectStartKept ==
  /\ collector = "net" /\ stage = "idle" /\ stage' = "reading"
  /\ unread' = listed
  /\ UNCHANGED <<collector, present, count, ios, calm, plain, listed, sum, perDevice, total>>

NetCollectStart ==
  /\ collector = "net" /\ stage = "idle" /\ stage' = "reading"
  /\ unread' = listed /\ sum' = 0
  /\ UNCHANGED <<collector, present, count, ios, calm, plain, listed, perDevice, total>>

\* GetProcPIDNetDev: zeros for an interface that is gone, and for one whose
\* name ends that of another, since the other's line matches and then does
\* not parse.
ReadCounter(d) ==
  IF d \notin present \/ \E e \in present : <<d, e>> \in Within THEN 0 ELSE count[d]

NetRead(d) ==
  /\ stage = "reading" /\ d \in unread
  /\ perDevice' = [perDevice EXCEPT ![d] = AddMeasurement(@, ReadCounter(d))]
  /\ sum' = (sum + ReadCounter(d)) % Word
  /\ unread' = unread \ {d}
  /\ UNCHANGED <<collector, present, count, ios, calm, plain, listed, stage, total>>

NetCollectEnd ==
  /\ stage = "reading" /\ unread = {} /\ stage' = "idle"
  /\ AddTotal(sum)
  /\ UNCHANGED <<collector, present, count, ios, listed, unread, sum, perDevice>>

----------------------------------------------------------------------------
(* The block devices of the host.                                          *)

\* Faulty variant: a partitioned device counts beside its partitions.
ConsideredAll == present

\* clearDuplicateDevices, "remove duplicates like sda and sda1", by names
\* alone; no devices are configured (config.Options.StorageDevice).
Considered == {d \in present : \A e \in present : <<d, e>> \notin Longer}

DiskTotals ==
  /\ collector = "disk" /\ stage = "idle" /\ stage' = "devices"
  /\ AddTotal(Counters(Considered))
  /\ UNCHANGED <<collector, present, count, ios, listed, unread, sum, perDevice>>

\* From a second reading of /proc/diskstats, without loop and ram devices.
DiskDevices ==
  /\ stage = "devices" /\ stage' = "idle"
  /\ perDevice' = [d \in Names |-> IF d \in present \ Loops
                                THEN AddMeasurement(perDevice[d], count[d]) ELSE perDevice[d]]
  /\ UNCHANGED <<collector, present, count, ios, calm, plain, listed, unread, sum, total>>

DevicesNext == \/ DeviceStep
        \/ NetLookup \/ NetCollectStart \/ NetCollectEnd
        \/ \E d \in Interfaces : NetRead(d)
        \/ DiskTotals \/ DiskDevices

DevicesSpec == DevicesInit /\ [][DevicesNext]_deviceVars

----------------------------------------------------------------------------
(* Properties.                                                             *)

DevicesTypeOK ==
  /\ collector \in {"net", "disk"} /\ stage \in {"idle", "reading", "devices"}
  /\ present \subseteq Own /\ IsFiniteSet(present)
  /\ listed \subseteq Interfaces /\ IsFiniteSet(listed) /\ unread \subseteq listed
  /\ count \in [Names -> 0..Word - 1] /\ {ios, sum} \subseteq 0..Word - 1
  /\ {calm, plain} \subseteq 0..2
  /\ perDevice \in [Names -> Seq(0..Word - 1)]
  /\ \A d \in Names : Len(perDevice[d]) <= 2
  /\ total \in Seq([value : 0..Word - 1, of : SUBSET Interfaces, at : 0..Word - 1])
  /\ Len(total) <= 2

\* GetMetricDiffUint64AsFloat of two measurements.
Diff(new, old) == (new - old) % Word

Rate(d) == Diff(perDevice[d][1], perDevice[d][2])

(* The line of the VM and the lines of its interfaces agree: as long as    *)
(* the list stays the same from one collect to the next, the total's rate  *)
(* is the sum of the interfaces' rates, even when an interface goes, comes *)
(* back with its counters at zero, or was gone for some collects before.   *)
SumOfParts ==
  collector = "net" /\ stage = "idle" /\ Len(total) = 2 =>
    LET devices == total[1].of
    IN total[2].of = devices =>
         Diff(total[1].value, total[2].value) =
           SumOf([d \in devices |-> Rate(d)], devices) % Word

(* The host's disk rates count every I/O once when no device came or went  *)
(* between the two measurements and all I/O was on plain disks and         *)
(* partitions, whatever other devices there are: an I/O on a partition is  *)
(* taken from its own counter and not from that of the whole disk.         *)
TotalIsIO ==
  collector = "disk" /\ calm = 2 /\ plain = 2 /\ Len(total) = 2 =>
    Diff(total[1].value, total[2].value) = Diff(total[1].at, total[2].at)

(* What the comments say, and the code does not do: with "all available    *)
(* devices" considered and "duplicates" cleared the rates of the host are  *)
(* those of its "completed read operations".  A device of LVM or multipath *)
(* and the disks below it all count, so I/O on it counts more than once.   *)
CompletedOnce ==
  collector = "disk" /\ calm = 2 /\ Len(total) = 2 =>
    Diff(total[1].value, total[2].value) = Diff(total[1].at, total[2].at)

=============================================================================
