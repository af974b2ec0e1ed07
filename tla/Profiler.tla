------------------------------ MODULE Profiler ------------------------------
(***************************************************************************)
(* proxprofiler (cmd/proxprofiler/main.go, profiler/profiler.go): the      *)
(* lookup and collect threads of runners/, and in place of the printer a   *)
(* profiler thread that feeds the measurements of each cached domain to a  *)
(* profiler of the library tsprofiler.                                     *)
(*                                                                         *)
(* The channel between lookup and collect is made by InitializeRunners,    *)
(* which this program does not call.                                       *)
(***************************************************************************)
EXTENDS Integers

CONSTANTS
  VMs,
  Runs \* config.Options.Runs

VARIABLES
  running,   \* the VMs that run on the host
  domains,   \* the cached domains
  samples,   \* measurements of each domain, at most two
  channel,   \* initialLookupDone: whether it was made, and its tokens
  lpc, n,    \* the lookup thread and its loop counter
  cpc,       \* the collect thread
  ppc, k,    \* the profiler thread and its loop counter
  profilers, \* domainProfiler
  measured,  \* the domains whose profiler ever got a rate
  wg,        \* the WaitGroup
  main       \* "running", then "exited"

caches == <<domains, samples>>
lookup == <<lpc, n>>
profiler == <<ppc, k, profilers, measured>>
vars == <<running, caches, channel, lookup, cpc, profiler, wg, main>>

\* var initialLookupDone chan bool
Unmade == [made |-> FALSE, tokens |-> 0]

Has(tokens) == channel.made /\ channel.tokens = tokens

\* wg.Add(1): "terminate when first thread terminates"
Threads == 1

Init ==
  /\ running \in SUBSET VMs
  /\ domains = {} /\ samples = [v \in VMs |-> 0]
  /\ channel = Unmade
  /\ lpc = "check" /\ n = -1 /\ cpc = "receive" /\ ppc = "check" /\ k = -1
  /\ profilers = {} /\ measured = {}
  /\ wg = Threads /\ main = "running"

MoreRuns(i) == Runs = -1 \/ i < Runs
Counted(i) == IF Runs = -1 THEN i ELSE i + 1

Host ==
  /\ running' \in SUBSET VMs
  /\ UNCHANGED <<caches, channel, lookup, cpc, profiler, wg, main>>

----------------------------------------------------------------------------
(* The lookup and the collect thread.                                      *)

Lookup ==
  /\ lpc = "check" /\ MoreRuns(n)
  /\ lpc' = "send"
  /\ domains' = running
  /\ samples' = [v \in VMs |-> IF v \in running THEN samples[v] ELSE 0]
  /\ UNCHANGED <<channel, n, cpc, wg>>

\* A send to a nil channel blocks for ever.
LookupSend ==
  /\ lpc = "send" /\ Has(0)
  /\ channel' = [channel EXCEPT !.tokens = 1] /\ lpc' = "check" /\ n' = Counted(n)
  /\ UNCHANGED <<caches, cpc, wg>>

LookupEnd ==
  /\ lpc = "check" /\ ~MoreRuns(n)
  /\ lpc' = "done" /\ wg' = wg - 1
  /\ UNCHANGED <<caches, channel, n, cpc>>

\* So does a receive from one.
CollectReceive ==
  /\ cpc = "receive" /\ Has(1)
  /\ channel' = [channel EXCEPT !.tokens = 0] /\ cpc' = "collect"
  /\ UNCHANGED <<caches, lookup, wg>>

Collect ==
  /\ cpc = "collect" /\ cpc' = "receive"
  /\ samples' = [v \in VMs |-> IF v \in domains /\ samples[v] < 2
                               THEN samples[v] + 1 ELSE samples[v]]
  /\ UNCHANGED <<domains, channel, lookup, wg>>

CollectEnd ==
  /\ cpc = "receive" /\ Has(0) /\ lpc = "done"
  /\ cpc' = "done" /\ wg' = wg - 1
  /\ UNCHANGED <<caches, channel, lookup>>

LookupThread == Lookup \/ LookupSend \/ LookupEnd
CollectThread == CollectReceive \/ Collect \/ CollectEnd

----------------------------------------------------------------------------
(* The profiler thread.                                                    *)

\* pickup, under the mutex of Domains: a profiler for each cached domain gets
\* its utilisation; the profilers of other domains are terminated.
Pickup ==
  /\ ppc = "check" /\ MoreRuns(k) /\ k' = Counted(k)
  /\ profilers' = domains
  /\ measured' = measured \cup {v \in domains : samples[v] = 2}
  /\ UNCHANGED <<ppc, wg>>

ProfilerEnd ==
  /\ ppc = "check" /\ ~MoreRuns(k)
  /\ ppc' = "done" /\ wg' = wg - 1
  /\ UNCHANGED <<k, profilers, measured>>

ProfilerThread == Pickup \/ ProfilerEnd

----------------------------------------------------------------------------
Threading ==
  /\ main = "running"
  /\ \/ (LookupThread \/ CollectThread) /\ UNCHANGED profiler
     \/ ProfilerThread /\ UNCHANGED <<caches, channel, lookup, cpc>>
  /\ UNCHANGED <<running, main>>

MainExit ==
  /\ main = "running" /\ wg = 0
  /\ main' = "exited"
  /\ UNCHANGED <<running, caches, channel, lookup, cpc, profiler, wg>>

Next == Host \/ Threading \/ MainExit

\* Go schedules every goroutine that can run, and every sleep ends.
Spec ==
  /\ Init /\ [][Next]_vars
  /\ WF_vars(main = "running" /\ LookupThread /\ UNCHANGED <<running, profiler, main>>)
  /\ WF_vars(main = "running" /\ CollectThread /\ UNCHANGED <<running, profiler, main>>)
  /\ WF_vars(main = "running" /\ ProfilerThread
             /\ UNCHANGED <<running, caches, channel, lookup, cpc, main>>)
  /\ WF_vars(MainExit)

----------------------------------------------------------------------------
(* Properties.                                                             *)

\* What the program does: it discovers once, and collects nothing.
NothingCollected == samples = [v \in VMs |-> 0] /\ measured = {} /\ n = -1

(* What the documentation says, "creates statistical profiles from         *)
(* monitoring data", and the code does not do: a VM that runs for good is  *)
(* profiled from measurements, in a program without a bound on its runs.   *)
ProfilesMeasured ==
  Runs = -1 => \A v \in VMs : <>[](v \in running) => <>(v \in measured)

=============================================================================
