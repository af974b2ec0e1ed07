--------------------------- MODULE CollectRounds ---------------------------
(***************************************************************************)
(* Collect rounds of one collector.  runners/collect.go Collect starts a   *)
(* goroutine per collector and round and waits for none, so rounds of the  *)
(* same collector may overlap.  A round first passes over the domains in   *)
(* one Domains.Range, which holds the mutex of the domain cache; then it   *)
(* measures the host, with no lock but that of each single metric.  The    *)
(* order is that of collectors/cpucollector (cpuCollect, cpuCollectHost):  *)
(* a counter is read, and each measurement made of it is stamped with the  *)
(* time it is created, and then added to its series.                       *)
(*                                                                         *)
(* Every counter is represented by the time: its value is the number of    *)
(* clock readings so far, so a later reading is always a larger one.       *)
(***************************************************************************)
EXTENDS Measurable, FiniteSets

CONSTANTS
  Domains, \* the cached domains
  Metrics, \* the metrics measured from one reading of a domain
  Rounds   \* bound: the collect rounds are numbered 1..Rounds

ASSUME CollectAssumption ==
  /\ Domains # {} /\ Metrics # {}
  /\ Rounds \in Nat \ {0}

Round == 1..Rounds
Free == 0

VARIABLES
  now,     \* the clock
  started, \* rounds started
  pc,      \* where each round stands
  holder,  \* the round that holds the mutex of Domains, or Free
  todo,    \* the domains its Range has still to visit
  metrics, \* the metrics it has still to add for the domain it visits
  visited, \* the domains it has visited, or is visiting last
  reading, \* per round: the counter read last
  stamp,   \* per round: the timestamp of the host measurement not yet added
  series,  \* per domain and metric: the measurements, the current one first
  host,    \* the measurements of a host metric
  overlap  \* history: two rounds have been measuring the host at once

vars == <<now, started, pc, holder, todo, metrics, visited, reading, stamp,
          series, host, overlap>>
passVars == <<holder, todo, metrics, visited>>

Measurement(r, value, time) == [round |-> r, value |-> value, time |-> time]

Init ==
  /\ now = 0 /\ started = 0
  /\ pc = [r \in Round |-> "new"]
  /\ holder = Free /\ todo = {} /\ metrics = {} /\ visited = {}
  /\ reading = [r \in Round |-> 0] /\ stamp = [r \in Round |-> 0]
  /\ series = [d \in Domains |-> [x \in Metrics |-> <<>>]]
  /\ host = <<>>
  /\ overlap = FALSE

Goto(r, from, to) == pc[r] = from /\ pc' = [pc EXCEPT ![r] = to]

\* go collector.Collect(), for the next token.
Start(r) ==
  /\ r = started + 1
  /\ started' = r
  /\ Goto(r, "new", "lock")
  /\ UNCHANGED <<now, passVars, reading, stamp, series, host, overlap>>

\* Domains.Range begins when the mutex is free.
RangeBegin(r) ==
  /\ holder = Free
  /\ Goto(r, "lock", "range")
  /\ holder' = r /\ todo' = Domains /\ metrics' = {} /\ visited' = {}
  /\ UNCHANGED <<now, started, reading, stamp, series, host, overlap>>

\* Faulty variant: the counters are not read again.
DomainReadCached(r) ==
  /\ pc[r] = "range" /\ metrics = {}
  /\ \E d \in todo : todo' = todo \ {d} /\ visited' = {d}
  /\ metrics' = Metrics
  /\ now' = now + 1
  /\ UNCHANGED <<started, pc, holder, reading, stamp, series, host, overlap>>

\* The counters of the next domain are read from /proc.
DomainRead(r) ==
  /\ pc[r] = "range" /\ metrics = {}
  /\ \E d \in todo : todo' = todo \ {d} /\ visited' = {d}
  /\ metrics' = Metrics
  /\ now' = now + 1 /\ reading' = [reading EXCEPT ![r] = now']
  /\ UNCHANGED <<started, pc, holder, stamp, series, host, overlap>>

\* AddMetricMeasurement(name, CreateMeasurement(value)).
DomainAdd(r) ==
  /\ pc[r] = "range"
  /\ now' = now + 1
  /\ \E x \in metrics, d \in visited :
       /\ metrics' = metrics \ {x}
       /\ series' = [series EXCEPT ![d][x] =
                       AddMeasurement(@, Measurement(r, reading[r], now'))]
  /\ UNCHANGED <<started, pc, holder, todo, visited, reading, stamp, host,
                 overlap>>

\* Faulty variant: the first domain ends the pass.
RangeEndEarly(r) ==
  /\ metrics = {} /\ todo # Domains
  /\ Goto(r, "range", "host")
  /\ holder' = Free
  /\ UNCHANGED <<now, started, todo, metrics, visited, reading, stamp,
                 series, host, overlap>>

RangeEnd(r) ==
  /\ metrics = {} /\ todo = {}
  /\ Goto(r, "range", "host")
  /\ holder' = Free
  /\ UNCHANGED <<now, started, todo, metrics, visited, reading, stamp,
                 series, host, overlap>>

MeasuringHost == {r \in Round : pc[r] \in {"stamp", "add"}}

\* GetProcStatCPU
HostRead(r) ==
  /\ Goto(r, "host", "stamp")
  /\ now' = now + 1 /\ reading' = [reading EXCEPT ![r] = now']
  /\ overlap' = (overlap \/ MeasuringHost # {})
  /\ UNCHANGED <<started, passVars, stamp, series, host>>

\* CreateMeasurement takes the time ...
HostStamp(r) ==
  /\ Goto(r, "stamp", "add")
  /\ now' = now + 1 /\ stamp' = [stamp EXCEPT ![r] = now']
  /\ UNCHANGED <<started, passVars, reading, series, host, overlap>>

\* ... and AddMetricMeasurement adds the measurement.
HostAdd(r) ==
  /\ Goto(r, "add", "done")
  /\ host' = AddMeasurement(host, Measurement(r, reading[r], stamp[r]))
  /\ UNCHANGED <<now, started, passVars, reading, stamp, series, overlap>>

Step(r) ==
  \/ Start(r)
  \/ RangeBegin(r) \/ DomainRead(r) \/ DomainAdd(r) \/ RangeEnd(r)
  \/ HostRead(r) \/ HostStamp(r) \/ HostAdd(r)

Next == \E r \in Round : Step(r)

Spec == Init /\ [][Next]_vars

----------------------------------------------------------------------------
(* Properties.                                                             *)

Ordered(s) ==
  \A i, j \in DOMAIN s :
    i < j => s[i].value > s[j].value /\ s[i].time > s[j].time

(* Overlapping rounds, in whatever order they get the mutex, keep every    *)
(* domain series ordered: the current measurement is read and stamped      *)
(* after the previous one, so the difference of two counters does not wrap *)
(* around (GetMetricDiffUint64AsFloat) and the elapsed time is positive.   *)
DomainSeriesOrdered ==
  \A d \in Domains, x \in Metrics : Ordered(series[d][x])

(* Whoever takes the mutex, as a collector's Print does, finds the metrics *)
(* of all domains measured by the same rounds: no row mixes a current      *)
(* value of one round with a current value of another.                     *)
DomainSnapshot ==
  holder = Free =>
    \A d, e \in Domains, x, y \in Metrics :
      /\ Len(series[d][x]) = Len(series[e][y])
      /\ \A i \in DOMAIN series[d][x] :
           series[d][x][i].round = series[e][y][i].round

(* The host series is ordered as long as rounds have not overlapped in the *)
(* part that measures the host.                                            *)
HostOrderedUnlessOverlap == ~overlap => Ordered(host)

=============================================================================
