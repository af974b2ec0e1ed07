--------------------------- MODULE LibvirtLookup ---------------------------
(***************************************************************************)
(* Discovery on a libvirt host: runners/lookup.go lookupLibvirt and        *)
(* handleDomain, against guests that start, stop and restart.  libvirt     *)
(* gives the active guests; the QEMU process of each is searched in /proc  *)
(* by name.  Collect rounds touch only the series of the domains and are   *)
(* left to ProxmoxLookup, whose cache operations are the same.             *)
(***************************************************************************)
EXTENDS DomainCache, FiniteSetsExt

CONSTANTS
  VMs,    \* the guests defined on the host; also their UUIDs
  Pids,   \* process ids, numbered as ReadDir orders their names
  NamedIn \* for each guest, the guests whose command line contains its name

NoUuid  == "" \* the UUID in the Domain handleDomain returns with an error
NoGuest == "none"

ASSUME LibvirtAssumption ==
  /\ Pids \subseteq Nat \ {0}
  /\ NamedIn \in [VMs -> SUBSET VMs]
  /\ \A v \in VMs : v \in NamedIn[v]
  /\ {NoUuid, NoGuest} \cap VMs = {}

VARIABLES
  running, \* host: the pid of each guest, 0 for a guest that is off
  handles, \* LibvirtDomains: the guest behind the handle stored per UUID
  lookup,  \* where lookupLibvirt stands
  doms,    \* the active guests listed and not yet handled
  domIDs,  \* cached UUIDs not handled so far
  processes, \* the process list
  guest,   \* the guest handleDomain works on, or NoGuest
  toScan,  \* the processes its search has still to look at
  handled, \* history: the guests of the last listing handled without error
  before,  \* history: the UUIDs cached when the listing succeeded
  steady   \* history: the guests that kept their process since the listing

searchVars  == <<guest, toScan>>
historyVars == <<handled, before>>
vars == <<running, domains, handles, lookup, doms, domIDs, processes,
          searchVars, historyVars, steady>>

Init ==
  /\ running \in [VMs -> Pids \cup {0}]
  /\ \A v, w \in VMs : running[v] = running[w] => v = w \/ running[v] = 0
  /\ domains = <<>> /\ handles = <<>>
  /\ lookup = "idle"
  /\ doms = {} /\ domIDs = {} /\ processes = {}
  /\ guest = NoGuest /\ toScan = {}
  /\ handled = {} /\ before = {} /\ steady = {}

----------------------------------------------------------------------------
(* The host: a guest starts, restarts or stops.                            *)

Host ==
  /\ \E v \in VMs, p \in Pids \cup {0} :
       /\ p = 0 \/ \A w \in VMs : running[w] # p
       /\ running' = [running EXCEPT ![v] = p]
       /\ steady' = steady \ {v}
  /\ UNCHANGED <<domains, handles, lookup, doms, domIDs, processes,
                 searchVars, historyVars>>

----------------------------------------------------------------------------
(* The lookup thread.                                                      *)

\* ListAllDomains returns an error: the cache stays as it is.
ListError ==
  /\ lookup = "idle"
  /\ lookup' = "collectors"
  /\ UNCHANGED <<running, domains, handles, doms, domIDs, processes,
                 searchVars, historyVars, steady>>

\* ListAllDomains(ACTIVE), and the list of cached domains.
ListDomains ==
  /\ lookup = "idle"
  /\ lookup' = "processes"
  /\ doms' = {v \in VMs : running[v] # 0}
  /\ steady' = doms'
  /\ domIDs' = Cached /\ before' = Cached /\ handled' = {}
  /\ UNCHANGED <<running, domains, handles, processes, searchVars>>

\* Faulty variants: the list of the first round is used in all rounds, or
\* the folders of /proc that are no processes are in it, as process 0.
ListProcessesOnce ==
  /\ lookup = "processes"
  /\ lookup' = "update"
  /\ processes' = IF processes # {} THEN processes
                  ELSE {running[v] : v \in VMs} \ {0}
  /\ UNCHANGED <<running, domains, handles, doms, domIDs, searchVars,
                 historyVars, steady>>

ListProcessesUnfiltered ==
  /\ lookup = "processes"
  /\ lookup' = "update"
  /\ processes' = {running[v] : v \in VMs} \cup {0}
  /\ UNCHANGED <<running, domains, handles, doms, domIDs, searchVars,
                 historyVars, steady>>

\* util.GetProcessList
ListProcesses ==
  /\ lookup = "processes"
  /\ lookup' = "update"
  /\ processes' = {running[v] : v \in VMs} \ {0}
  /\ UNCHANGED <<running, domains, handles, doms, domIDs, searchVars,
                 historyVars, steady>>

StoreHandle(uuid, v) ==
  handles' = [u \in DOMAIN handles \cup {uuid} |->
                IF u = uuid THEN v ELSE handles[u]]

\* Faulty variant: a guest that cannot be read is kept in the cache.
HandleErrorKept ==
  /\ lookup = "update" /\ guest = NoGuest
  /\ \E v \in doms : /\ doms' = doms \ {v}
                     /\ domIDs' = domIDs \ {v}
                     /\ StoreHandle(NoUuid, v)
  /\ UNCHANGED <<running, domains, lookup, processes, searchVars,
                 historyVars, steady>>

\* GetUUIDString or GetName fails: the handle is stored without a UUID.
HandleError ==
  /\ lookup = "update" /\ guest = NoGuest
  /\ \E v \in doms : doms' = doms \ {v} /\ StoreHandle(NoUuid, v)
  /\ UNCHANGED <<running, domains, lookup, domIDs, processes, searchVars,
                 historyVars, steady>>

\* handleDomain begins the search for the process of a guest.
HandleStart ==
  /\ lookup = "update" /\ guest = NoGuest
  /\ \E v \in doms : doms' = doms \ {v} /\ guest' = v
  /\ toScan' = processes
  /\ UNCHANGED <<running, domains, handles, lookup, domIDs, processes,
                 historyVars, steady>>

\* GetCmdLine of process p, now, contains the name of guest v.
Matches(p, v) == \E w \in NamedIn[v] : running[w] = p

\* The first process in the list, if any, is not the guest's.
ScanNext ==
  /\ guest # NoGuest /\ toScan # {}
  /\ ~Matches(Min(toScan), guest)
  /\ toScan' = toScan \ {Min(toScan)}
  /\ UNCHANGED <<running, domains, handles, lookup, doms, domIDs, processes,
                 guest, historyVars, steady>>

\* Faulty variant: the guest stays on the list of vanished ones.
HandleEndDeleted ==
  /\ guest # NoGuest
  /\ toScan # {} => Matches(Min(toScan), guest)
  /\ LET pid == IF toScan = {} THEN 0 ELSE Min(toScan)
     IN StoreDomain(guest, UpdatedDomain(guest, pid))
  /\ StoreHandle(guest, guest)
  /\ handled' = handled \cup {guest}
  /\ guest' = NoGuest /\ toScan' = {}
  /\ UNCHANGED <<running, lookup, doms, domIDs, processes, before, steady>>

\* The search ends, with a match or with no process left (pid 0).
HandleEnd ==
  /\ guest # NoGuest
  /\ toScan # {} => Matches(Min(toScan), guest)
  /\ LET pid == IF toScan = {} THEN 0 ELSE Min(toScan)
     IN StoreDomain(guest, UpdatedDomain(guest, pid))
  /\ StoreHandle(guest, guest)
  /\ handled' = handled \cup {guest}
  /\ guest' = NoGuest /\ toScan' = {}
  /\ domIDs' = domIDs \ {guest}
  /\ UNCHANGED <<running, lookup, doms, processes, before, steady>>

\* Faulty variant: a guest that vanished stays in the cache.
DeleteVanishedForgotten ==
  /\ lookup = "update" /\ doms = {} /\ guest = NoGuest
  /\ \E u \in domIDs : domIDs' = domIDs \ {u}
  /\ UNCHANGED <<running, domains, handles, lookup, doms, processes,
                 searchVars, historyVars, steady>>

\* A cached domain that was not handled.  Its handle stays.
DeleteVanished ==
  /\ lookup = "update" /\ doms = {} /\ guest = NoGuest
  /\ \E u \in domIDs : domIDs' = domIDs \ {u} /\ DeleteDomain(u)
  /\ UNCHANGED <<running, handles, lookup, doms, processes, searchVars,
                 historyVars, steady>>

\* The collectors' Lookup functions read the cache and the handles.
UpdateEnd ==
  /\ lookup = "update" /\ doms = {} /\ guest = NoGuest /\ domIDs = {}
  /\ lookup' = "collectors"
  /\ UNCHANGED <<running, domains, handles, doms, domIDs, processes,
                 searchVars, historyVars, steady>>

LookupEnd ==
  /\ lookup = "collectors"
  /\ lookup' = "idle"
  /\ steady' = {}
  /\ UNCHANGED <<running, domains, handles, doms, domIDs, processes,
                 searchVars, historyVars>>

Lookup ==
  \/ ListError \/ ListDomains \/ ListProcesses \/ HandleError \/ HandleStart
  \/ ScanNext \/ HandleEnd \/ DeleteVanished \/ UpdateEnd \/ LookupEnd

Next == Host \/ Lookup

Spec == Init /\ [][Next]_vars /\ WF_vars(Lookup)

----------------------------------------------------------------------------
(* Properties.                                                             *)

(* The type invariant of discovery and of the maps it maintains.           *)
TypeOK ==
  /\ running \in [VMs -> Pids \cup {0}]
  /\ lookup \in {"idle", "processes", "update", "collectors"}
  /\ Cached \subseteq VMs
  /\ \A u \in Cached : domains[u].pid \in Pids \cup {0}
  /\ DOMAIN handles \subseteq VMs \cup {NoUuid}
  /\ doms \subseteq VMs /\ domIDs \subseteq before
  /\ guest \in VMs \cup {NoGuest}
  /\ toScan \subseteq processes /\ processes \subseteq Pids
  /\ handled \subseteq VMs /\ steady \subseteq VMs

(* When the collectors' Lookup functions run, the cache holds exactly the  *)
(* guests of the last successful listing that could be read, and there is  *)
(* a libvirt handle, the guest's own, for each of them: no collector calls *)
(* libvirt with the zero handle, which it would after a failed Load.       *)
HandlesCover ==
  lookup = "collectors" =>
    /\ Cached = handled
    /\ \A u \in Cached : u \in DOMAIN handles /\ handles[u] = u

(* A cached guest that is active and readable is in the cache at every     *)
(* moment of the update.                                                   *)
StaysCached ==
  before \cap (doms \cup handled \cup {guest}) \subseteq Cached

(* "Process ID of the QEMU process": a guest that kept its process all     *)
(* through the lookup round, and was read, is cached with the pid of its   *)
(* own process.  It holds when no command line contains the name of        *)
(* another guest, and is violated when one does ("vm1", "vm10").           *)
OwnPid ==
  lookup = "collectors" =>
    \A v \in steady \cap handled :
      v \in Cached /\ domains[v].pid = running[v]

(* A guest that stays off is forgotten for good, provided the listing      *)
(* succeeds again and again, whatever errors come in between.              *)
VanishedForgotten ==
  []<><<ListDomains>>_vars =>
    \A v \in VMs : <>[](running[v] = 0) => <>[](v \notin Cached)

=============================================================================
