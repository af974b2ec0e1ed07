-------------------------- MODULE MCLibvirtLookup --------------------------
(* Constants for model checking LibvirtLookup.                             *)
EXTENDS LibvirtLookup

\* No command line contains the name of another guest.
DistinctNames == [v \in VMs |-> {v}]
=============================================================================
