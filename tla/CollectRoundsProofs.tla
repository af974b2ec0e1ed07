------------------------ MODULE CollectRoundsProofs ------------------------
(***************************************************************************)
(* Proof that domain series stay ordered and are seen in one round, and    *)
(* that the host's is ordered unless rounds overlapped, for any number of  *)
(* domains, metrics and collect rounds.                                    *)
(***************************************************************************)
EXTENDS CollectRounds, MeasurableProofs, TLAPS

Measure == [round : Round, value : Nat, time : Nat]

Places == {"new", "lock", "range", "host", "stamp", "add", "done"}

(* The inductive invariant, by parts.                                      *)

\* The mutex: the round that passes over the domains is the one holding it.
Exclusion ==
  /\ holder \in Round \cup {Free}
  /\ \A r \in Round : pc[r] = "range" <=> holder = r

\* Nothing was read or stamped in the future.
Past ==
  /\ now \in Nat
  /\ reading \in [Round -> Nat] /\ \A r \in Round : reading[r] <= now
  /\ \A d \in Domains, x \in Metrics : \A i \in DOMAIN series[d][x] :
       series[d][x][i].value <= now /\ series[d][x][i].time <= now

SeriesType ==
  /\ pc \in [Round -> Places]
  /\ metrics \subseteq Metrics /\ todo \subseteq Domains
  /\ visited \subseteq Domains
  /\ series \in [Domains -> [Metrics -> Seq(Measure)]]
  /\ \A d \in Domains, x \in Metrics : Len(series[d][x]) <= 2

\* What is still to be added was read after all that has been added.
Pending ==
  holder # Free =>
    \A d \in visited, x \in metrics : \A i \in DOMAIN series[d][x] :
      series[d][x][i].value < reading[holder]

IInv == Exclusion /\ Past /\ SeriesType /\ Pending /\ DomainSeriesOrdered

(* A new measurement comes first and the one that was current second, so a *)
(* series stays ordered if the new one is later than the current one.      *)
LEMMA AddMeasurementOrdered ==
  ASSUME NEW values \in Seq(Measure), Len(values) <= 2, NEW new \in Measure,
         1 \in DOMAIN values =>
           values[1].value < new.value /\ values[1].time < new.time
  PROVE  /\ AddMeasurement(values, new) \in Seq(Measure)
         /\ Len(AddMeasurement(values, new)) <= 2
         /\ Ordered(AddMeasurement(values, new))
         /\ \A i \in DOMAIN AddMeasurement(values, new) :
              \/ AddMeasurement(values, new)[i] = new
              \/ /\ 1 \in DOMAIN values
                 /\ AddMeasurement(values, new)[i] = values[1]
<1> DEFINE added == AddMeasurement(values, new)
<1>1. /\ added \in Seq(Measure) /\ Len(added) >= 1 /\ Len(added) <= 2
      /\ added[1] = new
      /\ Len(added) = 2 => 1 \in DOMAIN values /\ added[2] = values[1]
  BY AddMeasurementValues
<1> HIDE DEF added
<1>2. DOMAIN added = 1..Len(added) /\ Len(added) \in Nat
  BY <1>1
<1>3. Ordered(added)
  BY <1>1, <1>2 DEF Ordered
<1> QED
  BY <1>1, <1>2, <1>3 DEF added

LEMMA InitInv == Init => IInv
<1> SUFFICES ASSUME Init PROVE IInv
  OBVIOUS
<1>1. SeriesType
  BY DEF Init, SeriesType, Places
<1>2. \A d \in Domains, x \in Metrics : series[d][x] = <<>>
  BY DEF Init
<1>3. \A d \in Domains, x \in Metrics : DOMAIN series[d][x] = {}
  BY <1>2
<1>4. Exclusion /\ Past
  BY <1>3, CollectAssumption DEF Init, Exclusion, Past, Round, Free
<1>5. Pending /\ DomainSeriesOrdered
  BY <1>3 DEF Init, Pending, DomainSeriesOrdered, Ordered
<1> QED
  BY <1>1, <1>4, <1>5 DEF IInv

(* The steps outside the pass over the domains: the clock may advance, and *)
(* no series changes.                                                      *)
LEMMA OutsideInv ==
  ASSUME IInv, NEW r \in Round,
         Start(r) \/ HostRead(r) \/ HostStamp(r) \/ HostAdd(r)
  PROVE  IInv'
<1>1. /\ UNCHANGED <<passVars, series>> /\ now' \in {now, now + 1}
      /\ pc' \in [Round -> Places]
      /\ pc[r] # "range" /\ pc'[r] # "range"
      /\ \A q \in Round \ {r} : pc'[q] = pc[q]
  BY DEF IInv, SeriesType, Places, Start, HostRead, HostStamp, HostAdd, Goto
<1>2. reading' = reading \/ reading' = [reading EXCEPT ![r] = now']
  BY DEF Start, HostRead, HostStamp, HostAdd
<1>3. holder # r
  BY <1>1 DEF IInv, Exclusion
<1>4. Exclusion'
  BY <1>1 DEF IInv, Exclusion, passVars
<1>5. Past'
  <2>1. now' \in Nat /\ now <= now'
    BY <1>1 DEF IInv, Past
  <2>2. reading' \in [Round -> Nat] /\ \A q \in Round : reading'[q] <= now'
    BY <1>2, <2>1 DEF IInv, Past
  <2>3. ASSUME NEW d \in Domains, NEW x \in Metrics, NEW i \in DOMAIN series[d][x]
        PROVE  series[d][x][i].value <= now' /\ series[d][x][i].time <= now'
    <3>1. series[d][x][i] \in Measure
      BY DEF IInv, SeriesType
    <3> QED
      BY <3>1, <2>1 DEF IInv, Past, Measure
  <2> QED
    BY <1>1, <2>1, <2>2, <2>3 DEF Past
<1>6. Pending'
  <2>1. holder # Free => reading'[holder] = reading[holder]
    BY <1>2, <1>3 DEF IInv, Exclusion, Past
  <2> QED
    BY <1>1, <2>1 DEF IInv, Pending, passVars
<1> QED
  BY <1>1, <1>4, <1>5, <1>6 DEF IInv, SeriesType, DomainSeriesOrdered, passVars

(* The mutex is taken and released; the clock stands still.                *)
LEMMA LockInv ==
  ASSUME IInv, NEW r \in Round, RangeBegin(r) \/ RangeEnd(r)
  PROVE  IInv'
<1>1. /\ UNCHANGED <<now, reading, series>>
      /\ metrics' = {} /\ todo' \subseteq Domains /\ visited' \subseteq Domains
      /\ pc' \in [Round -> Places]
      /\ \A q \in Round \ {r} : pc'[q] = pc[q]
  BY DEF IInv, SeriesType, Places, RangeBegin, RangeEnd, Goto
<1>2. Free \notin Round
  BY CollectAssumption DEF Free, Round
<1>3. Exclusion'
  <2>1. CASE RangeBegin(r)
    BY <2>1, <1>1, <1>2 DEF RangeBegin, Goto, IInv, Exclusion, SeriesType
  <2>2. CASE RangeEnd(r)
    BY <2>2, <1>1, <1>2 DEF RangeEnd, Goto, IInv, Exclusion, SeriesType
  <2> QED
    BY <2>1, <2>2
<1>4. Past' /\ SeriesType' /\ Pending' /\ DomainSeriesOrdered'
  BY <1>1 DEF IInv, Past, SeriesType, Pending, DomainSeriesOrdered
<1> QED
  BY <1>3, <1>4 DEF IInv

(* A reading of the counters is later than everything measured so far.     *)
LEMMA ReadInv ==
  ASSUME IInv, NEW r \in Round, DomainRead(r)
  PROVE  IInv'
<1>1. /\ UNCHANGED <<pc, holder, series>> /\ holder = r
      /\ now' = now + 1 /\ reading' = [reading EXCEPT ![r] = now']
      /\ metrics' = Metrics
      /\ todo' \subseteq Domains /\ visited' \subseteq Domains
  BY DEF DomainRead, IInv, Exclusion, SeriesType
<1>2. now \in Nat /\ reading'[r] = now + 1
  BY <1>1 DEF IInv, Past
<1>3. ASSUME NEW d \in Domains, NEW x \in Metrics, NEW i \in DOMAIN series[d][x]
      PROVE  /\ series[d][x][i].value < now + 1
             /\ series[d][x][i].time < now + 1
  <2>1. series[d][x][i] \in Measure
    BY DEF IInv, SeriesType
  <2> QED
    BY <2>1, <1>2 DEF IInv, Past, Measure
<1>4. Past'
  <2>1. reading' \in [Round -> Nat] /\ \A q \in Round : reading'[q] <= now'
    BY <1>1 DEF IInv, Past
  <2>2. ASSUME NEW d \in Domains, NEW x \in Metrics, NEW i \in DOMAIN series[d][x]
        PROVE  series[d][x][i].value <= now' /\ series[d][x][i].time <= now'
    <3>1. series[d][x][i] \in Measure
      BY DEF IInv, SeriesType
    <3> QED
      BY <3>1, <1>1, <1>2, <1>3 DEF Measure
  <2> QED
    BY <1>1, <1>2, <2>1, <2>2 DEF Past
<1>5. Pending'
  <2> SUFFICES ASSUME NEW d \in visited', NEW x \in metrics',
                      NEW i \in DOMAIN series[d][x]
               PROVE  series[d][x][i].value < reading'[r]
    BY <1>1 DEF Pending
  <2> QED
    BY <1>1, <1>2, <1>3
<1> QED
  BY <1>1, <1>4, <1>5 DEF IInv, Exclusion, SeriesType, DomainSeriesOrdered

(* The measurement added is newer than the ones it is put before.          *)
LEMMA AddInv ==
  ASSUME IInv, NEW r \in Round, DomainAdd(r)
  PROVE  IInv'
<1>1. /\ UNCHANGED <<pc, holder, todo, visited, reading>>
      /\ holder = r /\ holder # Free /\ now' = now + 1
  BY CollectAssumption DEF DomainAdd, IInv, Exclusion, Free, Round
<1>2. PICK x \in metrics, d \in visited :
        /\ metrics' = metrics \ {x}
        /\ series' = [series EXCEPT ![d][x] =
                        AddMeasurement(@, Measurement(r, reading[r], now'))]
  BY DEF DomainAdd
<1> DEFINE s == series[d][x]
           new == Measurement(r, reading[r], now')
           added == AddMeasurement(s, new)
<1>3. /\ d \in Domains /\ x \in Metrics /\ s \in Seq(Measure) /\ Len(s) <= 2
      /\ now \in Nat /\ reading[r] \in Nat /\ reading[r] <= now
  BY <1>2 DEF IInv, SeriesType, Past
<1>4. new \in Measure /\ new.value = reading[r] /\ new.time = now + 1
  BY <1>1, <1>3 DEF Measurement, Measure
<1>5. 1 \in DOMAIN s =>
        /\ s[1] \in Measure /\ s[1].value < new.value /\ s[1].time < new.time
  <2> SUFFICES ASSUME 1 \in DOMAIN s
               PROVE  /\ s[1] \in Measure
                      /\ s[1].value < reading[r] /\ s[1].time <= now
    BY <1>3, <1>4 DEF Measure
  <2> QED
    BY <1>1, <1>2, <1>3 DEF IInv, Pending, Past
<1>6. /\ added \in Seq(Measure) /\ Len(added) <= 2 /\ Ordered(added)
      /\ \A i \in DOMAIN added :
           added[i] = new \/ (1 \in DOMAIN s /\ added[i] = s[1])
  BY <1>3, <1>4, <1>5, AddMeasurementOrdered
<1> HIDE DEF s, new, added
<1>7. \A i \in DOMAIN added : added[i].value <= now' /\ added[i].time <= now'
  BY <1>1, <1>3, <1>4, <1>5, <1>6 DEF Measure
<1>8. /\ series'[d][x] = added
      /\ series' \in [Domains -> [Metrics -> Seq(Measure)]]
      /\ \A e \in Domains, y \in Metrics :
           e # d \/ y # x => series'[e][y] = series[e][y]
  BY <1>2, <1>3, <1>6 DEF IInv, SeriesType, s, new, added
<1>9. Past'
  <2>1. \A q \in Round : reading[q] <= now'
    BY <1>1, <1>3 DEF IInv, Past
  <2>2. ASSUME NEW e \in Domains, NEW y \in Metrics, NEW i \in DOMAIN series'[e][y]
        PROVE  series'[e][y][i].value <= now' /\ series'[e][y][i].time <= now'
    <3>1. CASE e = d /\ y = x
      BY <3>1, <1>7, <1>8
    <3>2. CASE e # d \/ y # x
      <4>1. series'[e][y] = series[e][y] /\ series[e][y][i] \in Measure
        BY <3>2, <1>8 DEF IInv, SeriesType
      <4> QED
        BY <4>1, <1>1, <1>3 DEF IInv, Past, Measure
    <3> QED
      BY <3>1, <3>2
  <2> QED
    BY <1>1, <1>3, <2>1, <2>2 DEF IInv, Past
<1>10. SeriesType'
  <2>1. \A e \in Domains, y \in Metrics : Len(series'[e][y]) <= 2
    BY <1>6, <1>8 DEF IInv, SeriesType
  <2> QED
    BY <1>1, <1>2, <1>8, <2>1 DEF IInv, SeriesType
<1>11. Pending'
  <2> SUFFICES ASSUME NEW e \in visited, NEW y \in metrics \ {x},
                      NEW i \in DOMAIN series'[e][y]
               PROVE  series'[e][y][i].value < reading[r]
    BY <1>1, <1>2 DEF Pending
  <2>1. e \in Domains /\ y \in Metrics /\ y \in metrics /\ y # x
    BY DEF IInv, SeriesType
  <2>2. series'[e][y] = series[e][y]
    BY <2>1, <1>8
  <2> QED
    BY <2>1, <2>2, <1>1 DEF IInv, Pending
<1>12. DomainSeriesOrdered'
  BY <1>6, <1>8 DEF IInv, DomainSeriesOrdered
<1> QED
  BY <1>1, <1>9, <1>10, <1>11, <1>12 DEF IInv, Exclusion

LEMMA NextInv == IInv /\ [Next]_vars => IInv'
<1> SUFFICES ASSUME IInv, [Next]_vars PROVE IInv'
  OBVIOUS
<1>1. ASSUME NEW r \in Round, Step(r) PROVE IInv'
  BY <1>1, OutsideInv, LockInv, ReadInv, AddInv DEF Step
<1>2. CASE UNCHANGED vars
  BY <1>2 DEF vars, passVars, IInv, Exclusion, Past, SeriesType, Pending,
              DomainSeriesOrdered
<1> QED
  BY <1>1, <1>2 DEF Next

(* However many rounds overlap, the current measurement of a domain was    *)
(* read and stamped after the previous one.                                *)
THEOREM SeriesOrdered == Spec => []DomainSeriesOrdered
<1>1. Spec => []IInv
  BY InitInv, NextInv, PTL DEF Spec
<1> QED
  BY <1>1, PTL DEF IInv

----------------------------------------------------------------------------
(* One round at a time: the measurements that domains and metrics have in  *)
(* the middle of a pass.                                                   *)

\* What the pass has not added yet.
Unmeasured(d, x) == holder # Free /\ (d \in todo \/ (d \in visited /\ x \in metrics))

SameRounds(s, t) ==
  Len(s) = Len(t) /\ \A i \in DOMAIN s : s[i].round = t[i].round

\* s is what t becomes when the round r adds its measurement.
OneAhead(s, t, r) ==
  /\ Len(s) = (IF Len(t) = 0 THEN 1 ELSE 2)
  /\ s[1].round = r
  /\ Len(s) = 2 => s[2].round = t[1].round

Snapshots ==
  /\ visited \cap todo = {} /\ \A d, e \in visited : d = e
  /\ \A d, e \in Domains, x, y \in Metrics :
       /\ (Unmeasured(d, x) <=> Unmeasured(e, y)) =>
            SameRounds(series[d][x], series[e][y])
       /\ ~Unmeasured(d, x) /\ Unmeasured(e, y) =>
            OneAhead(series[d][x], series[e][y], holder)

LEMMA OneAheadOfOne ==
  ASSUME NEW s \in Seq(Measure), NEW t \in Seq(Measure), NEW u \in Seq(Measure),
         NEW r, OneAhead(s, u, r), OneAhead(t, u, r)
  PROVE  SameRounds(s, t)
BY DEF OneAhead, SameRounds

LEMMA OneAheadOfSame ==
  ASSUME NEW s \in Seq(Measure), NEW t \in Seq(Measure), NEW u \in Seq(Measure),
         NEW r, OneAhead(s, t, r), SameRounds(t, u)
  PROVE  OneAhead(s, u, r)
BY DEF OneAhead, SameRounds

LEMMA AddMeasurementAhead ==
  ASSUME NEW values \in Seq(Measure), Len(values) <= 2, NEW new \in Measure
  PROVE  /\ AddMeasurement(values, new) \in Seq(Measure)
         /\ OneAhead(AddMeasurement(values, new), values, new.round)
<1> DEFINE added == AddMeasurement(values, new)
<1>1. /\ added \in Seq(Measure)
      /\ Len(added) = (IF Len(values) = 0 THEN 1 ELSE 2)
      /\ added[1] = new
      /\ Len(added) = 2 => added[2] = values[1]
  BY AddMeasurementValues
<1> HIDE DEF added
<1>2. Len(added) = 2 => added[2].round = values[1].round
  BY <1>1
<1>3. added[1].round = new.round
  BY <1>1
<1> QED
  BY <1>1, <1>2, <1>3 DEF OneAhead, added

LEMMA SnapshotsInit == ASSUME Init PROVE Snapshots
<1>1. \A d \in Domains, x \in Metrics : series[d][x] = <<>> /\ ~Unmeasured(d, x)
  BY DEF Init, Unmeasured
<1> QED
  BY <1>1 DEF Init, Snapshots, SameRounds

(* Starting and ending a pass, or reading a domain's counters, adds        *)
(* nothing: all or none is measured, or the same as before.                *)
LEMMA SnapshotsQuiet ==
  ASSUME IInv, Snapshots, UNCHANGED series, NEW r \in Round,
         RangeBegin(r) \/ DomainRead(r) \/ RangeEnd(r)
  PROVE  Snapshots'
<1>1. CASE RangeBegin(r) \/ RangeEnd(r)
  <2>1. Free \notin Round
    BY CollectAssumption DEF Free, Round
  <2>2. \A d, e \in Domains, x, y \in Metrics : Unmeasured(d, x) <=> Unmeasured(e, y)
    BY <1>1, <2>1 DEF RangeBegin, RangeEnd, Unmeasured, IInv, Exclusion, SeriesType, Goto
  <2>3. visited' \cap todo' = {} /\ \A d, e \in visited' : d = e
    BY <1>1 DEF RangeBegin, RangeEnd, Snapshots
  <2>4. \A d, e \in Domains, x, y \in Metrics : Unmeasured(d, x)' <=> Unmeasured(e, y)'
    BY <1>1, <2>1 DEF RangeBegin, RangeEnd, Unmeasured
  <2> QED
    BY <2>2, <2>3, <2>4 DEF Snapshots, SameRounds
<1>2. CASE DomainRead(r)
  <2>1. /\ metrics = {} /\ metrics' = Metrics /\ UNCHANGED holder /\ holder # Free
        /\ \E d \in todo : todo' = todo \ {d} /\ visited' = {d}
    BY <1>2, CollectAssumption DEF DomainRead, IInv, Exclusion, Round, Free
  <2>2. \A d \in Domains, x \in Metrics : Unmeasured(d, x)' <=> Unmeasured(d, x)
    BY <2>1 DEF Unmeasured, Snapshots
  <2> QED
    BY <2>1, <2>2 DEF Snapshots, SameRounds, OneAhead
<1> QED
  BY <1>1, <1>2

(* One more series is measured, and is ahead of those that are not, like   *)
(* those that were measured before.                                        *)
LEMMA SnapshotsAdd ==
  ASSUME IInv, Snapshots, NEW r \in Round, DomainAdd(r)
  PROVE  Snapshots'
<1>1. UNCHANGED <<holder, todo, visited>> /\ holder = r /\ holder # Free
  BY CollectAssumption DEF DomainAdd, IInv, Exclusion, Free, Round
<1>2. PICK x \in metrics, d \in visited :
        /\ metrics' = metrics \ {x}
        /\ series' = [series EXCEPT ![d][x] =
                        AddMeasurement(@, Measurement(r, reading[r], now'))]
  BY DEF DomainAdd
<1> DEFINE s == series[d][x]
           new == Measurement(r, reading[r], now')
           added == AddMeasurement(s, new)
<1>3. /\ d \in Domains /\ x \in Metrics /\ s \in Seq(Measure) /\ Len(s) <= 2
      /\ \A e \in Domains, y \in Metrics :
           series[e][y] \in Seq(Measure) /\ Len(series[e][y]) <= 2
  BY <1>2 DEF IInv, SeriesType
<1>4. new \in Measure /\ new.round = r
  BY DEF DomainAdd, IInv, Past, Measurement, Measure
<1>5. added \in Seq(Measure) /\ OneAhead(added, s, r)
  BY <1>3, <1>4, AddMeasurementAhead
<1> HIDE DEF new, added
<1>6. /\ series'[d][x] = added
      /\ \A e \in Domains, y \in Metrics :
           e # d \/ y # x => series'[e][y] = series[e][y]
  BY <1>2, <1>3 DEF IInv, SeriesType, new, added
<1> HIDE DEF s
<1>7. /\ Unmeasured(d, x) /\ ~Unmeasured(d, x)'
      /\ \A e \in Domains, y \in Metrics :
           e # d \/ y # x => (Unmeasured(e, y)' <=> Unmeasured(e, y))
  BY <1>1, <1>2 DEF Unmeasured, Snapshots
<1>8. visited' \cap todo' = {} /\ \A e, f \in visited' : e = f
  BY <1>1 DEF Snapshots
<1>9. ASSUME NEW e \in Domains, NEW f \in Domains, NEW y \in Metrics, NEW z \in Metrics
      PROVE  /\ (Unmeasured(e, y)' <=> Unmeasured(f, z)') =>
                  SameRounds(series'[e][y], series'[f][z])
             /\ ~Unmeasured(e, y)' /\ Unmeasured(f, z)' =>
                  OneAhead(series'[e][y], series'[f][z], holder')
  <2> DEFINE t == series[e][y]
             u == series[f][z]
  <2>1. t \in Seq(Measure) /\ u \in Seq(Measure)
    BY <1>3
  <2>2. /\ (Unmeasured(e, y) <=> Unmeasured(f, z)) => SameRounds(t, u)
        /\ ~Unmeasured(e, y) => OneAhead(t, s, r)
        /\ Unmeasured(f, z) => SameRounds(s, u)
        /\ ~Unmeasured(f, z) => OneAhead(u, s, r)
        /\ ~Unmeasured(e, y) /\ Unmeasured(f, z) => OneAhead(t, u, r)
    BY <1>1, <1>3, <1>7 DEF Snapshots, s
  <2> HIDE DEF t, u
  <2>3. CASE e = d /\ y = x
    <3>1. CASE f = d /\ z = x
      BY <2>3, <3>1, <1>6, <1>7 DEF SameRounds
    <3>2. CASE f # d \/ z # x
      <4>1. series'[e][y] = added /\ series'[f][z] = u
        BY <2>3, <3>2, <1>6 DEF u
      <4>2. ~Unmeasured(f, z) => SameRounds(added, u)
        BY <2>1, <2>2, <1>3, <1>5, OneAheadOfOne
      <4>3. Unmeasured(f, z) => OneAhead(added, u, r)
        BY <2>1, <2>2, <1>3, <1>5, OneAheadOfSame
      <4> QED
        BY <2>3, <3>2, <4>1, <4>2, <4>3, <1>1, <1>7
    <3> QED
      BY <3>1, <3>2
  <2>4. CASE (e # d \/ y # x) /\ f = d /\ z = x
    <3>1. series'[e][y] = t /\ series'[f][z] = added
      BY <2>4, <1>6 DEF t
    <3>2. ~Unmeasured(e, y) => SameRounds(t, added)
      BY <2>1, <2>2, <1>3, <1>5, OneAheadOfOne
    <3> QED
      BY <2>4, <3>1, <3>2, <1>7
  <2>5. CASE (e # d \/ y # x) /\ (f # d \/ z # x)
    <3>1. series'[e][y] = t /\ series'[f][z] = u
      BY <2>5, <1>6 DEF t, u
    <3> QED
      BY <2>2, <2>5, <3>1, <1>1, <1>7
  <2> QED
    BY <2>3, <2>4, <2>5
<1> QED
  BY <1>8, <1>9 DEF Snapshots

LEMMA SnapshotsNext == ASSUME IInv, Snapshots, [Next]_vars PROVE Snapshots'
<1>1. ASSUME NEW r \in Round, Step(r) PROVE Snapshots'
  <2>1. CASE Start(r) \/ HostRead(r) \/ HostStamp(r) \/ HostAdd(r)
    <3>1. UNCHANGED <<passVars, series>>
      BY <2>1 DEF Start, HostRead, HostStamp, HostAdd
    <3> QED
      BY <3>1 DEF Snapshots, Unmeasured, SameRounds, OneAhead, passVars
  <2>2. CASE RangeBegin(r) \/ DomainRead(r) \/ RangeEnd(r)
    <3>1. UNCHANGED series
      BY <2>2 DEF RangeBegin, DomainRead, RangeEnd
    <3> QED
      BY <2>2, <3>1, SnapshotsQuiet
  <2>3. CASE DomainAdd(r)
    BY <2>3, SnapshotsAdd
  <2> QED
    BY <1>1, <2>1, <2>2, <2>3 DEF Step
<1>2. CASE UNCHANGED vars
  BY <1>2 DEF vars, Snapshots, Unmeasured, SameRounds, OneAhead, passVars
<1> QED
  BY <1>1, <1>2 DEF Next

(* Whoever takes the mutex finds all metrics of all domains measured by    *)
(* the same rounds, however many overlap.                                  *)
THEOREM Snapshot == Spec => []DomainSnapshot
<1>1. IInv /\ Snapshots => DomainSnapshot
  BY DEF Snapshots, Unmeasured, SameRounds, DomainSnapshot
<1>2. Spec => [](IInv /\ Snapshots)
  BY InitInv, NextInv, SnapshotsInit, SnapshotsNext, PTL DEF Spec
<1> QED
  BY <1>1, <1>2, PTL

----------------------------------------------------------------------------
(* The host.                                                               *)

\* Between its reading and its addition, a round that measures alone is later
\* than everything added.
Late(r) ==
  /\ pc[r] \in {"stamp", "add"} => \A i \in DOMAIN host : host[i].value < reading[r]
  /\ pc[r] = "add" => \A i \in DOMAIN host : host[i].time < stamp[r]

HostPast ==
  /\ host \in Seq(Measure) /\ Len(host) <= 2
  /\ stamp \in [Round -> Nat] /\ \A r \in Round : stamp[r] <= now
  /\ \A i \in DOMAIN host : host[i].value <= now /\ host[i].time <= now

Alone ==
  ~overlap =>
    /\ \A q, r \in MeasuringHost : q = r
    /\ \A r \in Round : Late(r)
    /\ Ordered(host)

HostInv == HostPast /\ Alone

LEMMA HostInit == ASSUME Init PROVE HostInv
BY DEF Init, HostInv, HostPast, Alone, Late, MeasuringHost, Ordered

(* The steps that add nothing to the host's series, and let the clock run. *)
LEMMA HostQuiet ==
  ASSUME IInv, HostInv, NEW r \in Round,
         Start(r) \/ RangeBegin(r) \/ DomainRead(r) \/ DomainAdd(r) \/ RangeEnd(r)
         \/ HostRead(r) \/ HostStamp(r)
  PROVE  HostInv'
<1>1. /\ UNCHANGED host /\ now \in Nat /\ now' \in {now, now + 1}
      /\ reading \in [Round -> Nat] /\ stamp \in [Round -> Nat] /\ pc \in [Round -> Places]
  BY DEF Start, RangeBegin, DomainRead, DomainAdd, RangeEnd, HostRead, HostStamp,
         IInv, Past, HostInv, HostPast, SeriesType
<1>2. \A i \in DOMAIN host :
        host[i] \in Measure /\ host[i].value <= now /\ host[i].time <= now
  BY DEF HostInv, HostPast
<1>3. /\ \A q \in Round \ {r} :
           pc'[q] = pc[q] /\ reading'[q] = reading[q] /\ stamp'[q] = stamp[q]
      /\ stamp' = stamp \/ stamp' = [stamp EXCEPT ![r] = now']
  BY <1>1 DEF Start, RangeBegin, DomainRead, DomainAdd, RangeEnd, HostRead, HostStamp, Goto
<1>4. HostPast'
  <2>1. stamp' \in [Round -> Nat] /\ \A q \in Round : stamp'[q] <= now'
    <3>1. now' \in Nat /\ now <= now' /\ \A q \in Round : stamp[q] \in Nat /\ stamp[q] <= now
      BY <1>1 DEF HostInv, HostPast
    <3>2. CASE stamp' = stamp
      BY <1>1, <3>1, <3>2
    <3>3. CASE stamp' = [stamp EXCEPT ![r] = now']
      BY <1>1, <3>1, <3>3
    <3> QED
      BY <1>3, <3>2, <3>3
  <2>2. \A i \in DOMAIN host : host[i].value <= now' /\ host[i].time <= now'
    BY <1>1, <1>2 DEF Measure
  <2> QED
    BY <1>1, <2>1, <2>2 DEF HostInv, HostPast
<1>5. ASSUME ~overlap' PROVE Alone'
  <2>1. ~overlap
    BY <1>5 DEF Start, RangeBegin, DomainRead, DomainAdd, RangeEnd, HostRead, HostStamp
  <2>2. /\ \A q, p \in MeasuringHost : q = p
        /\ \A q \in Round : Late(q)
        /\ Ordered(host)
    BY <2>1 DEF HostInv, Alone
  <2>3. \A q \in Round \ {r} : Late(q)'
    BY <1>1, <1>3, <2>2 DEF Late
  <2>4. CASE HostRead(r)
    <3>1. /\ MeasuringHost = {} /\ pc'[r] = "stamp" /\ reading'[r] = now + 1
      BY <1>1, <1>5, <2>4 DEF HostRead, Goto
    <3>2. MeasuringHost' = {r}
      BY <1>3, <3>1 DEF MeasuringHost
    <3>3. Late(r)'
      BY <1>1, <1>2, <3>1 DEF Late, Measure
    <3> QED
      BY <1>1, <2>2, <2>3, <3>2, <3>3 DEF Alone, Ordered
  <2>5. CASE HostStamp(r)
    <3>1. /\ pc[r] = "stamp" /\ pc'[r] = "add" /\ stamp'[r] = now + 1 /\ UNCHANGED reading
      BY <1>1, <2>5 DEF HostStamp, Goto
    <3>2. MeasuringHost' = MeasuringHost
      BY <1>3, <3>1 DEF MeasuringHost
    <3>3. Late(r)'
      BY <1>1, <1>2, <2>2, <3>1 DEF Late, Measure
    <3> QED
      BY <1>1, <2>2, <2>3, <3>2, <3>3 DEF Alone, Ordered
  <2>6. CASE Start(r) \/ RangeBegin(r) \/ DomainRead(r) \/ DomainAdd(r) \/ RangeEnd(r)
    <3>1. pc[r] \notin {"stamp", "add"} /\ pc'[r] \notin {"stamp", "add"}
      BY <1>1, <2>6 DEF Start, RangeBegin, DomainRead, DomainAdd, RangeEnd, Goto, IInv, Exclusion
    <3>2. MeasuringHost' = MeasuringHost /\ Late(r)'
      BY <1>3, <3>1 DEF MeasuringHost, Late
    <3> QED
      BY <1>1, <2>2, <2>3, <3>2 DEF Alone, Ordered
  <2> QED
    BY <2>4, <2>5, <2>6
<1> QED
  BY <1>4, <1>5 DEF HostInv, Alone

(* A round that measures alone adds a measurement later than all others.   *)
LEMMA HostAddInv == ASSUME IInv, HostInv, NEW r \in Round, HostAdd(r) PROVE HostInv'
<1> DEFINE new == Measurement(r, reading[r], stamp[r])
           added == AddMeasurement(host, new)
<1>1. /\ UNCHANGED <<now, stamp, reading, overlap>> /\ host' = added
      /\ pc[r] = "add" /\ pc' = [pc EXCEPT ![r] = "done"]
      /\ pc \in [Round -> Places]
  BY DEF HostAdd, Goto, IInv, SeriesType
<1>2. /\ host \in Seq(Measure) /\ Len(host) <= 2
      /\ new \in Measure /\ new.value = reading[r] /\ new.time = stamp[r]
      /\ now \in Nat /\ new.value <= now /\ new.time <= now
  BY DEF IInv, Past, HostInv, HostPast, Measurement, Measure
<1>3. /\ added \in Seq(Measure) /\ Len(added) <= 2
      /\ \A i \in DOMAIN added : added[i] = new \/ (1 \in DOMAIN host /\ added[i] = host[1])
  <2> HIDE DEF new
  <2>1. /\ added \in Seq(Measure) /\ Len(added) >= 1 /\ Len(added) <= 2 /\ added[1] = new
        /\ Len(added) = 2 => 1 \in DOMAIN host /\ added[2] = host[1]
    BY <1>2, AddMeasurementValues
  <2> HIDE DEF added
  <2>2. DOMAIN added = 1..Len(added) /\ Len(added) \in Nat
    BY <2>1
  <2> QED
    BY <2>1, <2>2
<1>4. ASSUME ~overlap
      PROVE  /\ 1 \in DOMAIN host =>
                  host[1].value < new.value /\ host[1].time < new.time
             /\ \A q, p \in MeasuringHost : q = p
  BY <1>1, <1>2, <1>4 DEF HostInv, Alone, Late
<1>5. ~overlap => Ordered(added)
  BY <1>2, <1>4, AddMeasurementOrdered
<1> HIDE DEF new, added
<1>6. HostPast'
  BY <1>1, <1>2, <1>3 DEF HostInv, HostPast
<1>7. Alone'
  <2> SUFFICES ASSUME ~overlap
               PROVE  /\ \A q, p \in MeasuringHost' : q = p
                      /\ \A q \in Round : Late(q)'
                      /\ Ordered(host')
    BY <1>1 DEF Alone
  <2>1. MeasuringHost' = {}
    BY <1>1, <1>4 DEF MeasuringHost
  <2> QED
    BY <1>1, <1>5, <2>1 DEF MeasuringHost, Late
<1> QED
  BY <1>6, <1>7 DEF HostInv

LEMMA HostNext == ASSUME IInv, HostInv, [Next]_vars PROVE HostInv'
<1>1. ASSUME NEW r \in Round, Step(r) PROVE HostInv'
  BY <1>1, HostQuiet, HostAddInv DEF Step
<1>2. CASE UNCHANGED vars
  BY <1>2 DEF vars, HostInv, HostPast, Alone, Late, MeasuringHost, Ordered
<1> QED
  BY <1>1, <1>2 DEF Next

(* The host's series is ordered as long as no two rounds measured the host *)
(* at once, whatever they did to the domains.                              *)
THEOREM HostOrdered == Spec => []HostOrderedUnlessOverlap
<1>1. HostInv => HostOrderedUnlessOverlap
  BY DEF HostInv, Alone, HostOrderedUnlessOverlap
<1>2. Spec => [](IInv /\ HostInv)
  BY InitInv, NextInv, HostInit, HostNext, PTL DEF Spec
<1> QED
  BY <1>1, <1>2, PTL

=============================================================================
