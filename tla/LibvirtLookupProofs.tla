------------------------ MODULE LibvirtLookupProofs ------------------------
(***************************************************************************)
(* Discovery on a libvirt host, for any guests and process ids.            *)
(***************************************************************************)
EXTENDS LibvirtLookup, TLAPS

(* The inductive invariant, by parts.                                      *)

\* What is cached is handled already, or still to be handled or deleted.
Accounted ==
  /\ Cached = handled \cup domIDs /\ handled \cap domIDs = {}
  /\ lookup \in {"idle", "collectors"} => domIDs = {}

\* The guest at work is off the list, and neither it nor what is on the list
\* has been taken off the UUIDs to delete; no search is left unfinished.
Underway ==
  /\ lookup \in {"idle", "collectors"} => doms = {}
  /\ lookup # "update" => guest = NoGuest
  /\ guest = NoGuest => toScan = {}
  /\ guest \notin doms /\ before \subseteq VMs
  /\ before \cap (doms \cup {guest}) \subseteq domIDs

Handles == \A u \in Cached : u \in DOMAIN handles /\ handles[u] = u

IInv == TypeOK /\ Accounted /\ Underway /\ Handles

LEMMA EmptyDomain == DOMAIN <<>> = {}
OBVIOUS

LEMMA InitInv == ASSUME Init PROVE IInv
BY EmptyDomain, LibvirtAssumption
DEF Init, IInv, TypeOK, Accounted, Underway, Handles, Cached

(* Steps that touch neither map nor the lists of the round.                *)
LEMMA QuietInv ==
  ASSUME IInv, Host \/ ListError \/ ListProcesses \/ ScanNext \/ UpdateEnd \/ LookupEnd
  PROVE  IInv'
<1> USE DEF IInv, TypeOK, Accounted, Underway, Handles, Cached, searchVars, historyVars
<1>1. CASE Host
  <2>1. running' \in [VMs -> Pids \cup {0}] /\ steady' \subseteq VMs
    BY <1>1 DEF Host
  <2> QED
    BY <1>1, <2>1 DEF Host
<1>2. CASE ListError
  BY <1>2 DEF ListError
<1>3. CASE ListProcesses
  BY <1>3 DEF ListProcesses
<1>4. CASE ScanNext
  BY <1>4 DEF ScanNext
<1>5. CASE UpdateEnd
  BY <1>5 DEF UpdateEnd
<1>6. CASE LookupEnd
  BY <1>6 DEF LookupEnd
<1> QED
  BY <1>1, <1>2, <1>3, <1>4, <1>5, <1>6

LEMMA ListInv == ASSUME IInv, ListDomains PROVE IInv'
BY LibvirtAssumption
DEF ListDomains, IInv, TypeOK, Accounted, Underway, Handles, Cached, searchVars

LEMMA StartInv == ASSUME IInv, HandleStart PROVE IInv'
BY LibvirtAssumption
DEF HandleStart, IInv, TypeOK, Accounted, Underway, Handles, Cached, historyVars

(* The handle without a UUID is nobody's.                                  *)
LEMMA ErrorInv == ASSUME IInv, HandleError PROVE IInv'
<1>1. PICK v \in doms : doms' = doms \ {v} /\ StoreHandle(NoUuid, v)
  BY DEF HandleError
<1>2. /\ DOMAIN handles' = DOMAIN handles \cup {NoUuid}
      /\ \A u \in DOMAIN handles \ {NoUuid} : handles'[u] = handles[u]
  BY <1>1 DEF StoreHandle
<1> QED
  BY <1>1, <1>2, LibvirtAssumption
  DEF HandleError, IInv, TypeOK, Accounted, Underway, Handles, Cached, searchVars, historyVars

(* The search yields a process id, or 0 when it finds none.                *)
LEMMA ProcessFound ==
  ASSUME IInv, HandleEnd
  PROVE  (IF toScan = {} THEN 0 ELSE Min(toScan)) \in Pids \cup {0}
<1>1. CASE toScan = {}
  BY <1>1
<1>2. CASE toScan # {}
  <2>1. Matches(Min(toScan), guest) /\ guest \in VMs
    BY <1>2 DEF HandleEnd, IInv, TypeOK
  <2>2. PICK w \in NamedIn[guest] : running[w] = Min(toScan)
    BY <2>1 DEF Matches
  <2>3. w \in VMs
    BY <2>1, <2>2, LibvirtAssumption
  <2> QED
    BY <1>2, <2>2, <2>3 DEF IInv, TypeOK
<1> QED
  BY <1>1, <1>2

LEMMA EndInv == ASSUME IInv, HandleEnd PROVE IInv'
<1> DEFINE pid == IF toScan = {} THEN 0 ELSE Min(toScan)
<1>1. /\ guest # NoGuest /\ guest' = NoGuest /\ toScan' = {}
      /\ toScan # {} => Matches(Min(toScan), guest)
      /\ StoreDomain(guest, UpdatedDomain(guest, pid)) /\ StoreHandle(guest, guest)
      /\ handled' = handled \cup {guest} /\ domIDs' = domIDs \ {guest}
      /\ UNCHANGED <<running, lookup, doms, processes, before, steady>>
  BY DEF HandleEnd
<1>2. pid \in Pids \cup {0}
  BY ProcessFound
<1> HIDE DEF pid
<1>3. /\ Cached' = Cached \cup {guest} /\ domains'[guest].pid = pid
      /\ \A u \in Cached \ {guest} : domains'[u] = domains[u]
  BY <1>1 DEF StoreDomain, UpdatedDomain, Cached
<1>4. /\ DOMAIN handles' = DOMAIN handles \cup {guest} /\ handles'[guest] = guest
      /\ \A u \in DOMAIN handles \ {guest} : handles'[u] = handles[u]
  BY <1>1 DEF StoreHandle
<1>5. TypeOK'
  BY <1>1, <1>2, <1>3, <1>4 DEF IInv, TypeOK
<1>6. Accounted' /\ Handles'
  BY <1>1, <1>3, <1>4 DEF IInv, Accounted, Handles
<1>7. Underway'
  <2>1. NoGuest \notin VMs
    BY LibvirtAssumption
  <2>2. NoGuest \notin before
    BY <2>1 DEF IInv, Underway
  <2>3. before \cap doms \subseteq domIDs \ {guest}
    BY DEF IInv, Underway
  <2>4. /\ lookup' \in {"idle", "collectors"} => doms' = {}
        /\ guest' \notin doms' /\ before' \subseteq VMs
    BY <1>1, <2>1 DEF IInv, TypeOK, Underway
  <2> QED
    BY <1>1, <2>2, <2>3, <2>4 DEF Underway
<1> QED
  BY <1>5, <1>6, <1>7 DEF IInv

LEMMA DeleteInv == ASSUME IInv, DeleteVanished PROVE IInv'
<1>1. PICK u \in domIDs : domIDs' = domIDs \ {u} /\ DeleteDomain(u)
  BY DEF DeleteVanished
<1>2. Cached' = Cached \ {u} /\ \A w \in Cached' : domains'[w] = domains[w]
  BY <1>1 DEF DeleteDomain, Cached
<1>3. /\ lookup = "update" /\ doms = {} /\ guest = NoGuest
      /\ UNCHANGED <<running, handles, lookup, doms, processes, guest, toScan,
                     handled, before, steady>>
  BY DEF DeleteVanished, searchVars, historyVars
<1>4. TypeOK'
  BY <1>1, <1>2, <1>3 DEF IInv, TypeOK
<1> QED
  BY <1>1, <1>2, <1>3, <1>4, LibvirtAssumption DEF IInv, Accounted, Underway, Handles

LEMMA NextInv == ASSUME IInv, [Next]_vars PROVE IInv'
<1>1. CASE UNCHANGED vars
  BY <1>1 DEF vars, searchVars, historyVars, IInv, TypeOK, Accounted, Underway, Handles, Cached
<1> QED
  BY <1>1, QuietInv, ListInv, StartInv, ErrorInv, EndInv, DeleteInv DEF Next, Lookup

(* The inductive invariant, for any guests that come and go.               *)
THEOREM Invariance == Spec => []IInv
BY InitInv, NextInv, PTL DEF Spec

(* The maps are about guests, and the pids are process ids or 0.           *)
THEOREM TypeCorrect == Spec => []TypeOK
<1>1. IInv => TypeOK
  BY DEF IInv
<1> QED
  BY <1>1, Invariance, PTL

(* lookupLibvirt leaves in the cache exactly what it handled, and a handle *)
(* for each; collectors that run after an error see the round before.      *)
THEOREM Covered == Spec => []HandlesCover
<1>1. IInv => HandlesCover
  BY DEF IInv, Accounted, Handles, HandlesCover
<1> QED
  BY <1>1, Invariance, PTL

(* An update in progress takes no active and readable guest away.          *)
THEOREM Continuous == Spec => []StaysCached
<1>1. IInv => StaysCached
  BY DEF IInv, Accounted, Underway, StaysCached
<1> QED
  BY <1>1, Invariance, PTL

----------------------------------------------------------------------------
(* The process found for a guest, if no name contains another.             *)

\* A guest that kept its process is in the list of processes once that is
\* made, and is not passed over by the search.
Steadfast ==
  /\ lookup = "idle" => steady = {}
  /\ \A v \in steady : running[v] # 0
  /\ lookup = "update" => \A v \in steady : running[v] \in processes
  /\ guest \in steady => running[guest] \in toScan
  /\ \A v \in steady \cap handled : domains[v].pid = running[v]

LEMMA SteadfastInit == ASSUME Init PROVE Steadfast
BY DEF Init, Steadfast

LEMMA SteadfastNext ==
  ASSUME \A v \in VMs : NamedIn[v] = {v}, IInv, Steadfast, [Next]_vars
  PROVE  Steadfast'
<1> USE DEF IInv, TypeOK, Accounted, Underway, Steadfast, searchVars, historyVars
<1>1. CASE Host
  BY <1>1 DEF Host
<1>2. CASE ListError \/ ListDomains \/ UpdateEnd \/ LookupEnd
  BY <1>2, LibvirtAssumption DEF ListError, ListDomains, UpdateEnd, LookupEnd
<1>3. CASE ListProcesses
  BY <1>3, LibvirtAssumption DEF ListProcesses
<1>4. CASE HandleError \/ HandleStart
  BY <1>4 DEF HandleError, HandleStart
<1>5. CASE ScanNext
  BY <1>5 DEF ScanNext, Matches
<1>6. CASE HandleEnd
  <2> DEFINE pid == IF toScan = {} THEN 0 ELSE Min(toScan)
  <2>1. /\ guest \in VMs /\ guest' = NoGuest
        /\ toScan # {} => Matches(Min(toScan), guest)
        /\ StoreDomain(guest, UpdatedDomain(guest, pid))
        /\ handled' = handled \cup {guest}
        /\ UNCHANGED <<running, lookup, processes, steady>>
    BY <1>6 DEF HandleEnd
  <2>2. guest \in steady => pid = running[guest]
    BY <2>1 DEF Matches
  <2> HIDE DEF pid
  <2>3. /\ domains'[guest].pid = pid
        /\ \A u \in Cached \ {guest} : domains'[u] = domains[u]
    BY <2>1 DEF StoreDomain, UpdatedDomain, Cached
  <2>4. \A v \in steady' \cap handled' : domains'[v].pid = running'[v]
    BY <2>1, <2>2, <2>3
  <2> QED
    BY <2>1, <2>4, LibvirtAssumption
<1>7. CASE DeleteVanished
  <2>1. PICK u \in domIDs : DeleteDomain(u)
    BY <1>7 DEF DeleteVanished
  <2>2. \A v \in handled : domains'[v] = domains[v]
    BY <2>1 DEF DeleteDomain, Cached
  <2> QED
    BY <1>7, <2>2 DEF DeleteVanished
<1>8. CASE UNCHANGED vars
  BY <1>8 DEF vars
<1> QED
  BY <1>1, <1>2, <1>3, <1>4, <1>5, <1>6, <1>7, <1>8 DEF Next, Lookup

(* handleDomain's search by name finds the guest's own process whenever no *)
(* other command line contains its name.                                   *)
THEOREM OwnProcess ==
  ASSUME \A v \in VMs : NamedIn[v] = {v}
  PROVE  Spec => []OwnPid
<1>1. IInv /\ Steadfast => OwnPid
  BY DEF IInv, Accounted, Steadfast, OwnPid
<1>2. IInv /\ Steadfast /\ [Next]_vars => Steadfast'
  BY SteadfastNext
<1>3. Init => Steadfast
  BY SteadfastInit
<1> QED
  BY <1>1, <1>2, <1>3, Invariance, PTL DEF Spec

----------------------------------------------------------------------------
(* What the printer may assume of discovery.                               *)

LEMMA StepIsCacheStep ==
  ASSUME IInv, [Next]_vars
  PROVE  [CacheStep(VMs, Pids \cup {0})]_domains
<1>1. CASE HandleEnd
  <2> DEFINE pid == IF toScan = {} THEN 0 ELSE Min(toScan)
  <2>1. StoreDomain(guest, UpdatedDomain(guest, pid)) /\ guest \in VMs
    BY <1>1 DEF HandleEnd, IInv, TypeOK
  <2>2. pid \in Pids \cup {0}
    BY <1>1, ProcessFound
  <2> HIDE DEF pid
  <2> QED
    BY <2>1, <2>2 DEF CacheStep
<1>2. CASE DeleteVanished
  <2>1. PICK u \in domIDs : DeleteDomain(u)
    BY <1>2 DEF DeleteVanished
  <2> QED
    BY <2>1 DEF CacheStep, IInv, Accounted
<1>3. CASE ~(HandleEnd \/ DeleteVanished)
  BY <1>3 DEF Next, Lookup, Host, ListError, ListDomains, ListProcesses,
              HandleError, HandleStart, ScanNext, UpdateEnd, LookupEnd, vars
<1> QED
  BY <1>1, <1>2, <1>3

(* All that lookupLibvirt ever does to the cache is what PrintCycle lets   *)
(* happen between two passes of Print, with 0 for a process not found.     *)
THEOREM OnlyCacheSteps == Spec => [][CacheStep(VMs, Pids \cup {0})]_domains
<1>1. IInv /\ [Next]_vars => [CacheStep(VMs, Pids \cup {0})]_domains
  BY StepIsCacheStep
<1> QED
  BY <1>1, Invariance, PTL DEF Spec

=============================================================================
