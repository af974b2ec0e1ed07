------------------------ MODULE ProxmoxLookupProofs ------------------------
(***************************************************************************)
(* Proofs about discovery on a Proxmox host, for any set of VMs and of     *)
(* process ids, and any configurations that come and go.                   *)
(***************************************************************************)
EXTENDS ProxmoxLookup, MeasurableProofs, TLAPS

(* The listing entries already handled by the update loop.                 *)
Done == listed \ vms

(* The inductive invariant, by the phases of a lookup round.               *)

\* A VM has at most one entry in a listing: its pid file is read once.
OneEntry == \A i, j \in listed : i.uuid[1] = j.uuid[1] => i = j

Listing ==
  lookup = "list" =>
    vms = listed /\ \A i \in listed : i.uuid[1] \notin toRead

\* The cache is what is handled and what may still be deleted, and the two
\* are disjoint; the VM store is what is handled.
Updating ==
  lookup = "update" =>
    /\ vms \subseteq listed
    /\ Cached = domIDs \cup UuidsOf(Done)
    /\ domIDs \cap UuidsOf(Done) = {}
    /\ DOMAIN store = UuidsOf(Done)
    /\ \A i \in Done : store[i.uuid] = i /\ domains[i.uuid].pid = i.pid

IInv == OneEntry /\ Listing /\ Updating /\ MirrorsListing /\ NeverFlickers

(* The cache in the initial state, and after ListStart, is a function with *)
(* an empty domain.                                                        *)
LEMMA EmptyDomain == DOMAIN <<>> = {}
OBVIOUS

(* The first state satisfies the invariant.                                *)
LEMMA InitInv == Init => IInv
<1> SUFFICES ASSUME Init PROVE IInv
  OBVIOUS
<1> USE DEF Init
<1>1. OneEntry
  BY DEF OneEntry
<1>2. Listing /\ Updating /\ MirrorsListing /\ NeverFlickers
  BY DEF Listing, Updating, MirrorsListing, NeverFlickers
<1> QED
  BY <1>1, <1>2 DEF IInv

(* The host, and a round that ends, leave all the invariant reads alone.   *)
LEMMA QuietInv == IInv /\ (Host \/ LookupEnd) => IInv'
<1> SUFFICES ASSUME IInv, Host \/ LookupEnd PROVE IInv'
  OBVIOUS
<1>1. UNCHANGED <<localVars, cacheVars>> /\ (lookup' = lookup \/ lookup' = "idle")
  BY DEF Host, LookupEnd, localVars, cacheVars
<1> QED
  BY <1>1 DEF IInv, OneEntry, Listing, Updating, MirrorsListing,
              NeverFlickers, Done, Cached, UuidsOf, localVars, cacheVars

(* A new listing is empty, and its reading adds one entry per pid file.    *)
LEMMA ListInv == IInv /\ (ListStart \/ ListVM) => IInv'
<1> SUFFICES ASSUME IInv, ListStart \/ ListVM PROVE IInv'
  OBVIOUS
<1>1. CASE ListStart
  BY <1>1 DEF ListStart, IInv, OneEntry, Listing, Updating, MirrorsListing,
              NeverFlickers
<1>2. CASE ListVM
  <2>1. PICK v \in toRead :
          /\ toRead' = toRead \ {v}
          /\ vms' = IF running[v] = 0 THEN vms
                    ELSE vms \cup {[uuid |-> UuidOf(v), pid |-> running[v]]}
    BY <1>2 DEF ListVM
  <2>2. UuidOf(v)[1] = v
    BY DEF UuidOf
  <2>3. lookup = "list" /\ lookup' = "list" /\ listed' = vms' /\ vms = listed
    BY <1>2 DEF ListVM, IInv, Listing
  <2>4. \A i \in listed' : i \in listed \/ i.uuid[1] = v
    BY <2>1, <2>2, <2>3
  <2>5. OneEntry'
    BY <2>1, <2>2, <2>3 DEF IInv, OneEntry, Listing
  <2>6. Listing'
    BY <2>1, <2>2, <2>3, <2>4 DEF IInv, Listing
  <2> QED
    BY <2>3, <2>5, <2>6 DEF IInv, Updating, MirrorsListing, NeverFlickers
<1> QED
  BY <1>1, <1>2

(* The update begins with nothing handled.                                 *)
LEMMA StartInv == IInv /\ UpdateStart => IInv'
<1> SUFFICES ASSUME IInv, UpdateStart PROVE IInv'
  OBVIOUS
<1>1. /\ lookup = "list" /\ lookup' = "update" /\ vms = listed
      /\ UNCHANGED <<vms, listed, domains>>
      /\ domIDs' = Cached /\ before' = Cached /\ store' = <<>>
  BY DEF UpdateStart, IInv, Listing
<1>2. Done' = {} /\ UuidsOf(Done)' = {}
  BY <1>1 DEF Done, UuidsOf
<1>3. Updating'
  BY <1>1, <1>2, EmptyDomain DEF Updating, Cached
<1> QED
  BY <1>1, <1>3 DEF IInv, OneEntry, Listing, MirrorsListing, NeverFlickers,
                    Cached

(* One more listing entry handled: no other entry has its UUID.            *)
LEMMA UpdateInv == IInv /\ UpdateVM => IInv'
<1> SUFFICES ASSUME IInv, UpdateVM PROVE IInv'
  OBVIOUS
<1>1. PICK i \in vms :
        /\ vms' = vms \ {i}
        /\ store' = [u \in DOMAIN store \cup {i.uuid} |->
                       IF u = i.uuid THEN i ELSE store[u]]
        /\ StoreDomain(i.uuid, UpdatedDomain(i.uuid, i.pid))
        /\ domIDs' = domIDs \ {i.uuid}
  BY DEF UpdateVM
<1>2. /\ lookup = "update" /\ UNCHANGED <<lookup, listed, before>>
      /\ i \in listed /\ vms \subseteq listed
  BY <1>1 DEF UpdateVM, IInv, Updating
<1>3. Done' = Done \cup {i} /\ UuidsOf(Done)' = UuidsOf(Done) \cup {i.uuid}
  BY <1>1, <1>2 DEF Done, UuidsOf
<1>4. \A j \in Done : j.uuid # i.uuid
  BY <1>1, <1>2 DEF Done, IInv, OneEntry
<1>5. /\ Cached' = Cached \cup {i.uuid}
      /\ domains'[i.uuid].pid = i.pid
      /\ \A u \in Cached : u # i.uuid => domains'[u] = domains[u]
  BY <1>1 DEF StoreDomain, UpdatedDomain, Cached
<1>6. Updating'
  <2>1. Cached' = domIDs' \cup UuidsOf(Done)'
    BY <1>1, <1>2, <1>3, <1>5 DEF IInv, Updating
  <2>2. domIDs' \cap UuidsOf(Done)' = {}
    BY <1>1, <1>2, <1>3 DEF IInv, Updating
  <2>3. DOMAIN store' = UuidsOf(Done)'
    BY <1>1, <1>2, <1>3 DEF IInv, Updating
  <2>4. \A j \in Done' : store'[j.uuid] = j /\ domains'[j.uuid].pid = j.pid
    <3> SUFFICES ASSUME NEW j \in Done'
                 PROVE  store'[j.uuid] = j /\ domains'[j.uuid].pid = j.pid
      OBVIOUS
    <3>1. CASE j = i
      BY <3>1, <1>1, <1>5
    <3>2. CASE j \in Done
      <4>1. j.uuid \in DOMAIN store /\ j.uuid \in Cached /\ j.uuid # i.uuid
        BY <3>2, <1>2, <1>4 DEF IInv, Updating, UuidsOf
      <4> QED
        BY <4>1, <3>2, <1>1, <1>2, <1>5 DEF IInv, Updating
    <3> QED
      BY <3>1, <3>2, <1>3
  <2> QED
    BY <2>1, <2>2, <2>3, <2>4, <1>1, <1>2 DEF Updating
<1>7. NeverFlickers'
  BY <1>2, <1>5 DEF IInv, NeverFlickers, UuidsOf
<1> QED
  BY <1>2, <1>6, <1>7 DEF IInv, OneEntry, Listing, MirrorsListing

(* A deletion hits no listed UUID.                                         *)
LEMMA DeleteInv == IInv /\ DeleteVM => IInv'
<1> SUFFICES ASSUME IInv, DeleteVM PROVE IInv'
  OBVIOUS
<1>1. PICK u \in domIDs : domIDs' = domIDs \ {u} /\ DeleteDomain(u)
  BY DEF DeleteVM
<1>2. /\ lookup = "update" /\ vms = {} /\ Done = listed
      /\ UNCHANGED <<lookup, vms, listed, before, store>>
  BY DEF DeleteVM, Done
<1>3. u \notin UuidsOf(listed) /\ UuidsOf(Done)' = UuidsOf(Done) /\ Done' = Done
  BY <1>1, <1>2 DEF IInv, Updating, Done, UuidsOf
<1>4. Cached' = Cached \ {u} /\ \A w \in Cached \ {u} : domains'[w] = domains[w]
  BY <1>1 DEF DeleteDomain, Cached
<1>5. Updating'
  <2>1. /\ Cached' = domIDs' \cup UuidsOf(Done)'
        /\ domIDs' \cap UuidsOf(Done)' = {}
        /\ DOMAIN store' = UuidsOf(Done)'
    BY <1>1, <1>2, <1>3, <1>4 DEF IInv, Updating
  <2>2. \A i \in Done' : i.uuid \in Cached \ {u}
    BY <1>2, <1>3 DEF IInv, Updating, UuidsOf
  <2>3. \A i \in Done' : store'[i.uuid] = i /\ domains'[i.uuid].pid = i.pid
    BY <1>2, <1>3, <1>4, <2>2 DEF IInv, Updating
  <2> QED
    BY <2>1, <2>3, <1>2 DEF Updating
<1>6. NeverFlickers'
  BY <1>2, <1>3, <1>4 DEF IInv, NeverFlickers, UuidsOf
<1> QED
  BY <1>2, <1>5, <1>6 DEF IInv, OneEntry, Listing, MirrorsListing

(* When nothing is left to handle and to delete, the listing is mirrored.  *)
LEMMA EndInv == IInv /\ UpdateEnd => IInv'
<1> SUFFICES ASSUME IInv, UpdateEnd PROVE IInv'
  OBVIOUS
<1>1. /\ lookup = "update" /\ lookup' = "collectors" /\ vms = {}
      /\ domIDs = {} /\ UNCHANGED <<localVars, cacheVars>> /\ Done = listed
  BY DEF UpdateEnd, Done
<1>2. MirrorsListing'
  BY <1>1 DEF IInv, Updating, MirrorsListing, Cached, UuidsOf, localVars,
              cacheVars
<1> QED
  BY <1>1, <1>2 DEF IInv, OneEntry, Listing, Updating, NeverFlickers,
                    localVars

(* A collect round adds to the series and changes nothing else.            *)
LEMMA CollectInv == IInv /\ Collect => IInv'
<1> SUFFICES ASSUME IInv, Collect PROVE IInv'
  OBVIOUS
<1>1. UNCHANGED <<localVars, store, lookup>>
  BY DEF Collect
<1>2. Cached' = Cached /\ \A u \in Cached : domains'[u].pid = domains[u].pid
  BY DEF Collect, CollectDomains, Cached
<1>3. Updating'
  <2> SUFFICES ASSUME lookup = "update"
               PROVE  \A i \in Done : i.uuid \in Cached
    BY <1>1, <1>2 DEF IInv, Updating, Done, UuidsOf, localVars
  <2> QED
    BY DEF IInv, Updating, UuidsOf
<1>4. MirrorsListing'
  <2> SUFFICES ASSUME lookup = "collectors"
               PROVE  \A i \in listed : i.uuid \in Cached
    BY <1>1, <1>2 DEF IInv, MirrorsListing, UuidsOf, localVars
  <2> QED
    BY DEF IInv, MirrorsListing, UuidsOf
<1> QED
  BY <1>1, <1>2, <1>3, <1>4 DEF IInv, OneEntry, Listing, NeverFlickers,
                                UuidsOf, localVars

(* Every step keeps the invariant.                                         *)
LEMMA NextInv == IInv /\ [Next]_vars => IInv'
<1> SUFFICES ASSUME IInv, [Next]_vars PROVE IInv'
  OBVIOUS
<1>1. CASE Host \/ LookupEnd
  BY <1>1, QuietInv
<1>2. CASE ListStart \/ ListVM
  BY <1>2, ListInv
<1>3. CASE UpdateStart
  BY <1>3, StartInv
<1>4. CASE UpdateVM
  BY <1>4, UpdateInv
<1>5. CASE DeleteVM
  BY <1>5, DeleteInv
<1>6. CASE UpdateEnd
  BY <1>6, EndInv
<1>7. CASE Collect
  BY <1>7, CollectInv
<1>8. CASE UNCHANGED vars
  BY <1>8 DEF IInv, OneEntry, Listing, Updating, MirrorsListing,
              NeverFlickers, Done, Cached, UuidsOf, vars, localVars, cacheVars
<1> QED
  BY <1>1, <1>2, <1>3, <1>4, <1>5, <1>6, <1>7, <1>8 DEF Next, Lookup

(* The invariant holds in every reachable state.                           *)
THEOREM Invariance == Spec => []IInv
  BY InitInv, NextInv, PTL DEF Spec

(* When the collectors look their data up, cache and store are exactly the *)
(* listing, for any number of VMs that start, stop and restart meanwhile.  *)
THEOREM Mirror == Spec => []MirrorsListing
  BY Invariance, PTL DEF IInv

(* A VM that is cached and listed again never leaves the cache during the  *)
(* update.                                                                 *)
THEOREM InPlace == Spec => []NeverFlickers
  BY Invariance, PTL DEF IInv

----------------------------------------------------------------------------
(* The series of a domain.                                                 *)

(* The type invariant, split so that each step is about one variable.      *)
LEMMA TypeNext == TypeOK /\ [Next]_vars => TypeOK'
<1> SUFFICES ASSUME TypeOK, [Next]_vars PROVE TypeOK'
  OBVIOUS
<1> USE DEF TypeOK
<1>1. CASE Host
  <2>1. UNCHANGED <<localVars, cacheVars, lookup, pending>>
    BY <1>1 DEF Host
  <2>2. running' \in [VMs -> Pids \cup {0}] /\ conf' \in [VMs -> UuidForms]
    BY <1>1 DEF Host, SetPid, SetConf
  <2> QED
    BY <2>1, <2>2 DEF localVars, cacheVars, Cached
<1>2. CASE ListStart
  BY <1>2 DEF ListStart, hostVars, cacheVars, Cached
<1>3. CASE ListVM
  <2>1. PICK v \in toRead :
          vms' = IF running[v] = 0 THEN vms
                 ELSE vms \cup {[uuid |-> UuidOf(v), pid |-> running[v]]}
    BY <1>3 DEF ListVM
  <2>2. running[v] # 0 => [uuid |-> UuidOf(v), pid |-> running[v]] \in Info
    BY <2>1 DEF UuidOf, UUIDs, Info
  <2>3. vms' \subseteq listed' /\ listed' \subseteq Info /\ toRead' \subseteq VMs
    BY <1>3, <2>1, <2>2 DEF ListVM
  <2> QED
    BY <1>3, <2>3 DEF ListVM, hostVars, cacheVars, Cached
<1>4. CASE UpdateStart
  BY <1>4, EmptyDomain DEF UpdateStart, hostVars, Cached
<1>5. CASE UpdateVM
  <2>1. PICK i \in vms :
          /\ vms' = vms \ {i}
          /\ store' = [u \in DOMAIN store \cup {i.uuid} |->
                         IF u = i.uuid THEN i ELSE store[u]]
          /\ StoreDomain(i.uuid, UpdatedDomain(i.uuid, i.pid))
          /\ domIDs' = domIDs \ {i.uuid}
    BY <1>5 DEF UpdateVM
  <2>2. i \in Info /\ i.uuid \in UUIDs /\ i.pid \in Pids
    BY <2>1 DEF Info
  <2>3. UpdatedDomain(i.uuid, i.pid) \in Domain
    BY <2>2 DEF UpdatedDomain, Domain, Cached
  <2>4. /\ Cached' \subseteq UUIDs
        /\ \A u \in Cached' : domains'[u] \in Domain
    BY <2>1, <2>2, <2>3 DEF StoreDomain, Cached
  <2>5. DOMAIN store' \subseteq UUIDs /\ \A u \in DOMAIN store' : store'[u] \in Info
    BY <2>1, <2>2
  <2> QED
    BY <1>5, <2>1, <2>4, <2>5 DEF UpdateVM, hostVars
<1>6. CASE DeleteVM
  BY <1>6 DEF DeleteVM, DeleteDomain, hostVars, Cached
<1>7. CASE UpdateEnd
  BY <1>7 DEF UpdateEnd, hostVars, localVars, cacheVars, Cached
<1>8. CASE LookupEnd
  BY <1>8, ProxmoxAssumption DEF LookupEnd, hostVars, localVars, cacheVars, Cached
<1>9. CASE Collect
  <2>1. Cached' = Cached /\ \A u \in Cached : domains'[u] \in Domain
    <3> SUFFICES ASSUME NEW u \in Cached
                 PROVE  AddMeasurement(domains[u].samples, domains[u].pid)
                          \in {s \in Seq(Pids) : Len(s) <= 2}
      BY <1>9 DEF Collect, CollectDomains, Cached, Domain
    <3>1. /\ domains[u].samples \in Seq(Pids) /\ Len(domains[u].samples) <= 2
          /\ domains[u].pid \in Pids
      BY DEF Domain
    <3> QED
      BY <3>1, AddMeasurementValues
  <2> QED
    BY <1>9, <2>1, ProxmoxAssumption DEF Collect, hostVars, localVars
<1>10. CASE UNCHANGED vars
  BY <1>10 DEF vars, hostVars, localVars, cacheVars, Cached
<1> QED
  BY <1>1, <1>2, <1>3, <1>4, <1>5, <1>6, <1>7, <1>8, <1>9, <1>10
     DEF Next, Lookup

(* Every reachable state is well typed: in particular no metric ever holds *)
(* more than the current and the previous measurement.                     *)
THEOREM TypeCorrect == Spec => []TypeOK
<1>1. Init => TypeOK
  BY EmptyDomain, ProxmoxAssumption DEF Init, TypeOK, Cached, UuidForms
<1> QED
  BY <1>1, TypeNext, PTL DEF Spec

(* No step of a lookup or collect round takes measurements from a domain   *)
(* that stays in the cache.                                                *)
LEMMA StepKeepsHistory ==
  TypeOK /\ [Next]_vars =>
    \A u \in Cached \cap Cached' :
      Len(domains'[u].samples) >= Len(domains[u].samples)
<1> SUFFICES ASSUME TypeOK, [Next]_vars, NEW u \in Cached \cap Cached'
             PROVE  Len(domains'[u].samples) >= Len(domains[u].samples)
  OBVIOUS
<1>1. domains[u].samples \in Seq(Pids) /\ Len(domains[u].samples) <= 2
      /\ domains[u].pid \in Pids /\ Len(domains[u].samples) \in Nat
  BY DEF TypeOK, Domain
<1>2. CASE UpdateVM
  <2>1. PICK i \in vms : StoreDomain(i.uuid, UpdatedDomain(i.uuid, i.pid))
    BY <1>2 DEF UpdateVM
  <2>2. domains'[u].samples = domains[u].samples
    BY <2>1 DEF StoreDomain, UpdatedDomain, Cached
  <2> QED
    BY <2>2, <1>1
<1>3. CASE DeleteVM
  <2>1. domains'[u] = domains[u]
    BY <1>3 DEF DeleteVM, DeleteDomain, Cached
  <2> QED
    BY <2>1, <1>1
<1>4. CASE Collect
  <2>1. domains'[u].samples = AddMeasurement(domains[u].samples, domains[u].pid)
    BY <1>4 DEF Collect, CollectDomains
  <2>2. Len(AddMeasurement(domains[u].samples, domains[u].pid)) >= Len(domains[u].samples)
    BY <1>1, AddMeasurementValues
  <2> QED
    BY <2>1, <2>2
<1>5. CASE ~(UpdateVM \/ DeleteVM \/ Collect)
  <2>1. domains' = domains
    BY <1>5 DEF Next, Lookup, Host, ListStart, ListVM, UpdateStart, UpdateEnd,
                LookupEnd, vars, cacheVars
  <2> QED
    BY <2>1, <1>1
<1> QED
  BY <1>2, <1>3, <1>4, <1>5

(* Lookup rounds never cost a domain its measurements.                     *)
THEOREM History == Spec => HistoryKept
<1>1. TypeOK /\ [Next]_vars =>
        [\A u \in Cached \cap Cached' :
           Len(domains'[u].samples) >= Len(domains[u].samples)]_vars
  BY StepKeepsHistory
<1> QED
  BY <1>1, TypeCorrect, PTL DEF Spec, HistoryKept

----------------------------------------------------------------------------
(* What the printer may assume of discovery and collection.                *)

LEMMA StepIsCacheStep ==
  ASSUME TypeOK, IInv, [Next]_vars
  PROVE  [CacheStep(UUIDs, Pids)]_domains
<1>1. CASE UpdateVM
  <2>1. PICK i \in vms : StoreDomain(i.uuid, UpdatedDomain(i.uuid, i.pid))
    BY <1>1 DEF UpdateVM
  <2>2. i.uuid \in UUIDs /\ i.pid \in Pids
    BY <2>1 DEF TypeOK, Info
  <2> QED
    BY <2>1, <2>2 DEF CacheStep
<1>2. CASE DeleteVM
  <2>1. PICK u \in domIDs : DeleteDomain(u)
    BY <1>2 DEF DeleteVM
  <2>2. u \in Cached
    BY <1>2, <2>1 DEF DeleteVM, IInv, Updating
  <2> QED
    BY <2>1, <2>2 DEF CacheStep
<1>3. CASE Collect
  BY <1>3 DEF Collect, CacheStep
<1>4. CASE ~(UpdateVM \/ DeleteVM \/ Collect)
  BY <1>4 DEF Next, Lookup, Host, ListStart, ListVM, UpdateStart, UpdateEnd,
              LookupEnd, vars, cacheVars
<1> QED
  BY <1>1, <1>2, <1>3, <1>4

(* All that lookupProxmox and the collect rounds ever do to the cache is   *)
(* what PrintCycle lets happen between two passes of Print: they store a   *)
(* VM under its UUID with its series kept, delete one that is cached, or   *)
(* add a measurement to every domain.                                      *)
THEOREM OnlyCacheSteps == Spec => [][CacheStep(UUIDs, Pids)]_domains
<1>1. TypeOK /\ IInv /\ [Next]_vars => [CacheStep(UUIDs, Pids)]_domains
  BY StepIsCacheStep
<1> QED
  BY <1>1, TypeCorrect, Invariance, PTL DEF Spec

=============================================================================
