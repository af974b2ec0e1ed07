---------------------------- MODULE DomainCache ----------------------------
(***************************************************************************)
(* models.Collection.Domains: the map of known domains behind one mutex,   *)
(* and the measurement series of a domain (models/domains.go,              *)
(* models/measurable.go).  Each operation below runs under the mutex, so   *)
(* it is one step.  A domain is a record [pid, samples]: the QEMU process  *)
(* found by the last lookup, and the at most two newest measurements of a  *)
(* per-process counter, newest first.  A measurement is represented by the *)
(* process it was read from; names are left out.                           *)
(***************************************************************************)
EXTENDS Measurable

VARIABLE domains \* a function from the known UUIDs to their domains

Cached == DOMAIN domains

\* Domains.Store, which overwrites or adds.
StoreDomain(uuid, domain) ==
  domains' = [u \in Cached \cup {uuid} |->
                IF u = uuid THEN domain ELSE domains[u]]

\* Domains.Delete.
DeleteDomain(uuid) == domains' = [u \in Cached \ {uuid} |-> domains[u]]

\* The domain to store for a process found by a lookup: a cached one keeps
\* its Measurable, a new one starts with an empty Measurable.
UpdatedDomain(uuid, pid) ==
  [pid |-> pid,
   samples |-> IF uuid \in Cached THEN domains[uuid].samples ELSE <<>>]

\* A collector's Collect: one Domains.Range, the mutex held throughout.
CollectDomains ==
  domains' = [u \in Cached |->
                [pid |-> domains[u].pid,
                 samples |-> AddMeasurement(domains[u].samples,
                                            domains[u].pid)]]

\* One operation of a lookup or collect round on the cache, for a domain
\* among ids found as a process among pids.
CacheStep(ids, pids) ==
  \/ \E u \in ids, p \in pids : StoreDomain(u, UpdatedDomain(u, p))
  \/ \E u \in Cached : DeleteDomain(u)
  \/ CollectDomains

=============================================================================
