----------------------------- MODULE MCDevices -----------------------------
(* Constants for model checking Devices.                                   *)
EXTENDS Devices, FiniteSetsExt

\* A partitioned disk.
PartitionPair == {<<"sda", "sda1">>}

\* A loop device on a file in the partition, and an LVM volume on the disk.
LoopPair == {<<"sda1", "loop1">>}
VolumePair == {<<"sda", "dm-0">>}

\* Two interfaces, one named like the end of the other.
InterfacePair == {<<"net0", "vnet0">>}

\* The sum is the usual one.
ASSUME SumAssumption ==
  \A S \in SUBSET Names : \A f \in [S -> 0..Word - 1] :
    SumOf(f, S) = SumFunctionOnSet(f, S)
=============================================================================
