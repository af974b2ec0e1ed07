--------------------------- MODULE ProxmoxLookup ---------------------------
(***************************************************************************)
(* Discovery on a Proxmox VE host: runners/lookup.go lookupProxmox with    *)
(* connector/proxmox.go ListVMs, against VMs that start, stop and restart  *)
(* and configurations that cannot always be read, while collect rounds     *)
(* sample the cached domains.                                              *)
(***************************************************************************)
EXTENDS DomainCache, FiniteSets

CONSTANTS
  VMs,      \* the virtual machines configured on the host
  Pids,     \* process ids of QEMU processes
  Unstable, \* the VMs whose configuration may become unreadable
  MaxPending \* bound: collect rounds due and not made

ASSUME ProxmoxAssumption ==
  /\ Pids \subseteq Nat \ {0}
  /\ Unstable \subseteq VMs
  /\ MaxPending \in Nat \ {0}

VARIABLES
  running, \* host: the pid of each VM's pid file, 0 for a VM that is off
  conf,    \* host: the UUID a VM's configuration yields now
  store,   \* ProxmoxVMStore: the listing entry of each UUID
  lookup,  \* where lookupProxmox stands
  toRead,  \* the pid files ListVMs has still to read
  vms,     \* the VM infos listed and not yet handled
  listed,  \* history: all infos of this listing
  domIDs,  \* cached UUIDs not listed so far
  before,  \* history: the UUIDs cached when the update began
  pending  \* tokens sent to the collector: collect rounds due

hostVars  == <<running, conf>>
localVars == <<toRead, vms, listed, domIDs, before>>
cacheVars == <<domains, store>>
vars == <<hostVars, localVars, cacheVars, lookup, pending>>

\* A VM is identified by the uuid of its smbios1 line, or by "proxmox-<vmid>"
\* when the configuration cannot be read or has no such line.
UuidForms == {"smbios", "vmid"}
UUIDs == VMs \X UuidForms
UuidOf(v) == <<v, conf[v]>>

UuidsOf(infos) == {i.uuid : i \in infos}

Init ==
  /\ running \in [VMs -> Pids \cup {0}]
  /\ \A v, w \in VMs : running[v] = running[w] => v = w \/ running[v] = 0
  /\ conf = [v \in VMs |-> "smbios"]
  /\ domains = <<>> /\ store = <<>>
  /\ lookup = "idle"
  /\ toRead = {} /\ vms = {} /\ listed = {}
  /\ domIDs = {} /\ before = {}
  /\ pending = 0

----------------------------------------------------------------------------
(* The host.                                                               *)

\* A VM starts, or restarts, with a pid no VM uses; or it stops.
SetPid(v, p) ==
  /\ p = 0 \/ \A w \in VMs : running[w] # p
  /\ running' = [running EXCEPT ![v] = p]
  /\ UNCHANGED conf

SetConf(v) ==
  /\ v \in Unstable
  /\ \E f \in UuidForms : conf' = [conf EXCEPT ![v] = f]
  /\ UNCHANGED running

Host ==
  /\ \E v \in VMs : SetConf(v) \/ \E p \in Pids \cup {0} : SetPid(v, p)
  /\ UNCHANGED <<localVars, cacheVars, lookup, pending>>

----------------------------------------------------------------------------
(* The lookup thread.                                                      *)

\* filepath.Glob of the pid files.
ListStart ==
  /\ lookup = "idle"
  /\ lookup' = "list"
  /\ toRead' = {v \in VMs : running[v] # 0}
  /\ vms' = {} /\ listed' = {}
  /\ UNCHANGED <<hostVars, cacheVars, domIDs, before, pending>>

\* getVMInfoByVMID: a VM whose pid file is gone by now is skipped.
ListVM ==
  /\ lookup = "list"
  /\ \E v \in toRead :
       /\ toRead' = toRead \ {v}
       /\ vms' = IF running[v] = 0 THEN vms
                 ELSE vms \cup {[uuid |-> UuidOf(v), pid |-> running[v]]}
  /\ listed' = vms'
  /\ UNCHANGED <<hostVars, cacheVars, domIDs, before, lookup, pending>>

\* Faulty variant: the domain cache is rebuilt as the VM store is.
UpdateStartCleared ==
  /\ lookup = "list" /\ toRead = {}
  /\ lookup' = "update"
  /\ domIDs' = Cached /\ before' = Cached
  /\ store' = <<>> /\ domains' = <<>>
  /\ UNCHANGED <<hostVars, toRead, vms, listed, pending>>

\* The cached UUIDs are noted and the VM store is emptied.
UpdateStart ==
  /\ lookup = "list" /\ toRead = {}
  /\ lookup' = "update"
  /\ domIDs' = Cached /\ before' = Cached
  /\ store' = <<>>
  /\ UNCHANGED <<hostVars, toRead, vms, listed, domains, pending>>

\* Faulty variant: every listed VM gets a new Measurable.
UpdateVMFresh ==
  /\ lookup = "update"
  /\ \E i \in vms :
       /\ vms' = vms \ {i}
       /\ store' = [u \in DOMAIN store \cup {i.uuid} |->
                      IF u = i.uuid THEN i ELSE store[u]]
       /\ StoreDomain(i.uuid, [pid |-> i.pid, samples |-> <<>>])
       /\ domIDs' = domIDs \ {i.uuid}
  /\ UNCHANGED <<hostVars, toRead, listed, before, lookup, pending>>

\* One VM of the listing: VM store, domain cache, and off the delete list.
UpdateVM ==
  /\ lookup = "update"
  /\ \E i \in vms :
       /\ vms' = vms \ {i}
       /\ store' = [u \in DOMAIN store \cup {i.uuid} |->
                      IF u = i.uuid THEN i ELSE store[u]]
       /\ StoreDomain(i.uuid, UpdatedDomain(i.uuid, i.pid))
       /\ domIDs' = domIDs \ {i.uuid}
  /\ UNCHANGED <<hostVars, toRead, listed, before, lookup, pending>>

\* Faulty variant: a domain that vanished stays in the cache.
DeleteVMForgotten ==
  /\ lookup = "update" /\ vms = {}
  /\ \E u \in domIDs : domIDs' = domIDs \ {u}
  /\ UNCHANGED <<hostVars, toRead, vms, listed, before, store, domains,
                 lookup, pending>>

\* A cached domain that was not listed.
DeleteVM ==
  /\ lookup = "update" /\ vms = {}
  /\ \E u \in domIDs : domIDs' = domIDs \ {u} /\ DeleteDomain(u)
  /\ UNCHANGED <<hostVars, toRead, vms, listed, before, store, lookup,
                 pending>>

\* lookupProxmox returns; the collectors' Lookup functions run and are
\* waited for: they read the cache and the store, and change neither.
UpdateEnd ==
  /\ lookup = "update" /\ vms = {} /\ domIDs = {}
  /\ lookup' = "collectors"
  /\ UNCHANGED <<hostVars, localVars, cacheVars, pending>>

\* initialLookupDone <- true.
LookupEnd ==
  /\ lookup = "collectors" /\ pending < MaxPending
  /\ lookup' = "idle" /\ pending' = pending + 1
  /\ UNCHANGED <<hostVars, localVars, cacheVars>>

Lookup == ListStart \/ ListVM \/ UpdateStart \/ UpdateVM \/ DeleteVM
          \/ UpdateEnd \/ LookupEnd

\* A collect round of one collector.
Collect ==
  /\ pending > 0 /\ pending' = pending - 1
  /\ CollectDomains
  /\ UNCHANGED <<hostVars, localVars, store, lookup>>

Next == Host \/ Lookup \/ Collect

\* The lookup and collect goroutines keep running; the host owes nothing.
Spec == Init /\ [][Next]_vars /\ WF_vars(Lookup) /\ WF_vars(Collect)

----------------------------------------------------------------------------
(* Properties.                                                             *)

Info == [uuid : UUIDs, pid : Pids]

\* Metrics keep at most the current and the previous measurement.
Domain == [pid : Pids, samples : {s \in Seq(Pids) : Len(s) <= 2}]

(* The type invariant of discovery and of the caches it maintains.         *)
TypeOK ==
  /\ running \in [VMs -> Pids \cup {0}] /\ conf \in [VMs -> UuidForms]
  /\ lookup \in {"idle", "list", "update", "collectors"}
  /\ toRead \subseteq VMs
  /\ vms \subseteq listed /\ listed \subseteq Info
  /\ domIDs \subseteq before /\ before \subseteq UUIDs
  /\ Cached \subseteq UUIDs /\ DOMAIN store \subseteq UUIDs
  /\ \A u \in Cached : domains[u] \in Domain
  /\ \A u \in DOMAIN store : store[u] \in Info
  /\ pending \in 0..MaxPending

(* When the collectors' Lookup functions run, the domain cache and the VM  *)
(* store both hold exactly the VMs of the listing, with the listed pids:   *)
(* no collector finds a domain without its VM info, or with an old one.    *)
MirrorsListing ==
  lookup = "collectors" =>
    /\ Cached = UuidsOf(listed) /\ DOMAIN store = Cached
    /\ \A i \in listed : store[i.uuid] = i /\ domains[i.uuid].pid = i.pid

(* The update happens in place: a domain that was cached and is listed     *)
(* again is in the cache at every moment of it, so no print or collect     *)
(* round, whenever it runs, misses a VM that never stopped.                *)
NeverFlickers ==
  lookup = "update" => before \cap UuidsOf(listed) \subseteq Cached

(* A lookup round never costs a domain its measurements: while it stays in *)
(* the cache its series only grows to two values and stays there.          *)
HistoryKept ==
  [][\A u \in Cached \cap Cached' :
       Len(domains'[u].samples) >= Len(domains[u].samples)]_vars

(* A VM that stays up under one identity ends up with current and previous *)
(* measurements for good, whatever the other VMs do.                       *)
RatesAppear ==
  \A v \in VMs :
    <>[](running[v] # 0 /\ conf[v] = "smbios")
      => <>[](/\ <<v, "smbios">> \in Cached
              /\ Len(domains[<<v, "smbios">>].samples) = 2)

(* A VM that stays off disappears from the cache for good.                 *)
VanishedForgotten ==
  \A v \in VMs :
    <>[](running[v] = 0)
      => <>[](\A f \in UuidForms : <<v, f>> \notin Cached)

=============================================================================
