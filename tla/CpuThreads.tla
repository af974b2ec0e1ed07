----------------------------- MODULE CpuThreads -----------------------------
(***************************************************************************)
(* The threads of one VM as the CPU collector sees them                    *)
(* (collectors/cpucollector/worker.go): a lookup sorts the threads of the  *)
(* VM's process into vCPUs and others and forgets the series of those that *)
(* ended, a collect reads one counter file per listed thread, and both     *)
(* hold the mutex of Domains throughout.  Threads start and end, and their *)
(* ids are used again, between any two readings.                           *)
(*                                                                         *)
(* A reading is the number of the thread it was read from, or 0 when the   *)
(* file is gone.  A thread's two series, of times and of run queues, are   *)
(* treated alike and stand here for one.                                   *)
(***************************************************************************)
EXTENDS Integers, Sequences, Measurable

CONSTANTS
  Tids,      \* thread ids
  MaxThreads \* bound on the threads ever started

ASSUME ThreadsAssumption == MaxThreads \in Nat

VARIABLES
  thread,     \* the number of the thread that has an id, or 0
  kind,       \* what that thread is to this VM
  born,       \* how many threads have started
  vcpus,      \* metric cpu_threadIDs
  others,     \* metric cpu_otherThreadIDs
  times,      \* metrics cpu_times_<id> (and cpu_runqueues_<id>)
  otherTimes, \* metrics cpu_other_times_<id> (and cpu_other_runqueues_<id>)
  holder,     \* who holds the mutex of Domains: "free", "lookup" or "collect"
  old,        \* oldThreadIds of the lookup under way
  left        \* the threads that the collect under way has still to read

host    == <<thread, kind, born>>
lists   == <<vcpus, others>>
series  == <<times, otherTimes>>
vars == <<host, lists, series, holder, old, left>>

Init ==
  /\ thread = [t \in Tids |-> 0] /\ kind = [t \in Tids |-> "none"] /\ born = 0
  /\ vcpus = {} /\ others = {}
  /\ times = [t \in Tids |-> <<>>] /\ otherTimes = [t \in Tids |-> <<>>]
  /\ holder = "free" /\ old = {} /\ left = {}

----------------------------------------------------------------------------
(* The host.                                                               *)

\* The thread may also be of another process, which got a free id.
ThreadStart(t) ==
  /\ thread[t] = 0 /\ born < MaxThreads
  /\ born' = born + 1 /\ thread' = [thread EXCEPT ![t] = born']
  /\ \E k \in {"vcpu", "other", "foreign"} : kind' = [kind EXCEPT ![t] = k]
  /\ UNCHANGED <<lists, series, holder, old, left>>

ThreadEnd(t) ==
  /\ thread[t] # 0
  /\ thread' = [thread EXCEPT ![t] = 0] /\ kind' = [kind EXCEPT ![t] = "none"]
  /\ UNCHANGED <<born, lists, series, holder, old, left>>

Host == \E t \in Tids : ThreadStart(t) \/ ThreadEnd(t)

----------------------------------------------------------------------------
(* Lookup.                                                                 *)

VcpuThreads == {t \in Tids : kind[t] = "vcpu"}

\* /proc/<pid>/task
Tasks == {t \in Tids : kind[t] \in {"vcpu", "other"}}

\* cpuLookup asks libvirt, whose "info cpus" names every vCPU, and which may
\* give no answer: then everything stays.  cpuLookupProxmox goes by the names
\* of the threads, which may not have got theirs yet.
CoreThreads == SUBSET VcpuThreads

LookupCores ==
  /\ holder = "free" /\ holder' = "lookup"
  /\ \E cores \in CoreThreads :
       vcpus' = cores /\ old' = (vcpus \cup others) \ cores
  /\ UNCHANGED <<host, others, series, left>>

\* Faulty variant: the vCPUs are not skipped.
OtherThreadsAll == Tasks

\* "taskID is for vCPU core. skip."
OtherThreads == Tasks \ vcpus

\* Faulty variant: the series of the other threads are left.
CleanUpTimes(gone) ==
  /\ times' = [t \in Tids |-> IF t \in gone THEN <<>> ELSE times[t]]
  /\ UNCHANGED otherTimes

\* DelMetricMeasurement of every series of the threads.
CleanUp(gone) ==
  /\ times' = [t \in Tids |-> IF t \in gone THEN <<>> ELSE times[t]]
  /\ otherTimes' = [t \in Tids |-> IF t \in gone THEN <<>> ELSE otherTimes[t]]

LookupTasks ==
  /\ holder = "lookup" /\ holder' = "free"
  /\ others' = OtherThreads
  /\ CleanUp(old \ others')
  /\ old' = {}
  /\ UNCHANGED <<host, vcpus, left>>

----------------------------------------------------------------------------
(* Collect.                                                                *)

CollectStart ==
  /\ holder = "free" /\ holder' = "collect"
  /\ left' = vcpus \cup others /\ left' # {}
  /\ UNCHANGED <<host, lists, series, old>>

Reading(s, t) == [s EXCEPT ![t] = AddMeasurement(@, thread[t])]

\* cpuCollectMeasurements, for one thread of either list; the mutex is held
\* until the last.
CollectThread ==
  /\ holder = "collect"
  /\ \E t \in left :
       /\ left' = left \ {t}
       /\ holder' = IF left' = {} THEN "free" ELSE holder
       /\ times' = IF t \in vcpus THEN Reading(times, t) ELSE times
       /\ otherTimes' = IF t \in others THEN Reading(otherTimes, t) ELSE otherTimes
  /\ UNCHANGED <<host, lists, old>>

Next == \/ Host
        \/ LookupCores \/ LookupTasks
        \/ CollectStart \/ CollectThread

\* Rounds go on, and libvirt answers again and again.
Spec ==
  /\ Init /\ [][Next]_vars
  /\ SF_vars(LookupCores) /\ WF_vars(LookupTasks)
  /\ SF_vars(CollectStart) /\ WF_vars(CollectThread)

----------------------------------------------------------------------------
(* Printing: the series that CpuPrintThreadMetric reads.                   *)

\* It asks GetMetricDiffUint64 for a rate, which takes two measurements.
Rated(list, s) == {t \in list : Len(s[t]) = 2}

----------------------------------------------------------------------------
(* Properties.                                                             *)

TypeOK ==
  /\ born \in 0..MaxThreads
  /\ thread \in [Tids -> 0..MaxThreads]
  /\ kind \in [Tids -> {"none", "vcpu", "other", "foreign"}]
  /\ \A ids \in {vcpus, others, old, left} : ids \subseteq Tids
  /\ \A s \in {times, otherTimes} :
       /\ s \in [Tids -> Seq(0..MaxThreads)]
       /\ \A t \in Tids : Len(s[t]) <= 2
  /\ holder \in {"free", "lookup", "collect"}

\* The ids with measurements of either kind.
Measured == {t \in Tids : times[t] # <<>> \/ otherTimes[t] # <<>>}

(* Threads come and go for as long as the VM runs, and the worker threads  *)
(* of QEMU do so all the time: whatever ended, failed or changed its kind  *)
(* between the two readings of a lookup, no series is left of a thread     *)
(* that is not listed, so that memory does not grow and no thread inherits *)
(* the measurements of one that a lookup found to be gone.                 *)
NothingInherited == holder # "lookup" => Measured \subseteq vcpus \cup others

(* No thread counts twice: not in the VM's %used and in its %sys, although *)
(* the two lists are read one after the other.                             *)
CountedOnce == holder # "lookup" => Rated(vcpus, times) \cap Rated(others, otherTimes) = {}

\* The rate shown for the thread is from readings of two threads, or of a
\* thread and a missing file, and wraps around.
Mixed(t) ==
  \/ t \in Rated(vcpus, times) /\ times[t][1] # times[t][2]
  \/ t \in Rated(others, otherTimes) /\ otherTimes[t][1] # otherTimes[t][2]

Steady(t) == /\ thread'[t] = thread[t]
             /\ (t \in vcpus') = (t \in vcpus) /\ (t \in others') = (t \in others)

(* A thread that ends between a lookup and a collect, and one whose id is  *)
(* used again between two lookups, give a wrong rate, but not for ever:    *)
(* once its id stays with a thread, or free, its rate becomes and stays    *)
(* that of one thread.                                                     *)
RatesSettle == \A t \in Tids : <>[][Steady(t)]_vars => <>[]~Mixed(t)

=============================================================================
