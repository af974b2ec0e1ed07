---------------------------- MODULE SeriesProofs ----------------------------
(***************************************************************************)
(* The series of the threads of a VM, for any thread ids, and the series   *)
(* and totals of interfaces and disks, for any devices and any width of    *)
(* the counters.                                                           *)
(***************************************************************************)
EXTENDS CpuThreads, Devices, MeasurableProofs, FiniteSetTheorems,
        FunctionTheorems, TLAPS

\* Only a lookup that is under way may have series of threads in no list,
\* and it remembers those; while it is, the second list is that of the lookup
\* before, so that the two may overlap.
Remembered == Measured \subseteq vcpus \cup others \cup old

Disjoint == holder # "lookup" => old = {} /\ vcpus \cap others = {}

\* The second list is replaced, and does not count.
Covered == holder = "lookup" => others \subseteq vcpus \cup old

\* A collect measures listed threads only.
Listed == holder = "collect" => left \subseteq vcpus \cup others

IInv == TypeOK /\ Remembered /\ Disjoint /\ Covered /\ Listed

LEMMA InitInv == ASSUME Init PROVE IInv
BY ThreadsAssumption DEF Init, IInv, TypeOK, Remembered, Measured, Disjoint, Covered, Listed

LEMMA HostInv == ASSUME IInv, Host PROVE IInv'
<1>1. PICK t \in Tids : ThreadStart(t) \/ ThreadEnd(t)
  BY DEF Host
<1>2. UNCHANGED <<lists, series, holder, old, left>>
  BY <1>1 DEF ThreadStart, ThreadEnd
<1>3. /\ born \in 0..MaxThreads
      /\ thread \in [Tids -> 0..MaxThreads]
      /\ kind \in [Tids -> {"none", "vcpu", "other", "foreign"}]
  BY DEF IInv, TypeOK
<1>4. /\ born' \in 0..MaxThreads
      /\ thread' \in [Tids -> 0..MaxThreads]
      /\ kind' \in [Tids -> {"none", "vcpu", "other", "foreign"}]
  <2>1. CASE ThreadStart(t)
    <3>1. born' \in 0..MaxThreads
      BY <1>3, <2>1, ThreadsAssumption DEF ThreadStart
    <3> QED
      BY <1>3, <2>1, <3>1 DEF ThreadStart
  <2>2. CASE ThreadEnd(t)
    BY <1>3, <2>2, ThreadsAssumption DEF ThreadEnd
  <2> QED
    BY <1>1, <2>1, <2>2
<1>5. TypeOK'
  BY <1>2, <1>4 DEF IInv, TypeOK, lists, series
<1> QED
  BY <1>2, <1>5 DEF IInv, Remembered, Measured, Disjoint, Covered, Listed, lists, series

(* The first half: the old threads are those of both lists but the vCPUs.  *)
LEMMA CoresInv == ASSUME IInv, LookupCores PROVE IInv'
<1>1. PICK cores \in CoreThreads : vcpus' = cores /\ old' = (vcpus \cup others) \ cores
  BY DEF LookupCores
<1>2. cores \subseteq Tids
  BY DEF CoreThreads, VcpuThreads
<1>3. holder = "free" /\ holder' = "lookup" /\ UNCHANGED <<host, others, series, left>>
  BY DEF LookupCores
<1>4. TypeOK'
  BY <1>1, <1>2, <1>3 DEF IInv, TypeOK, host, series
<1> QED
  BY <1>1, <1>3, <1>4 DEF IInv, Remembered, Measured, Disjoint, Covered, Listed, series

(* The second half: what is in neither list is forgotten.                  *)
LEMMA TasksInv == ASSUME IInv, LookupTasks PROVE IInv'
<1>1. /\ holder = "lookup" /\ holder' = "free" /\ others' = Tasks \ vcpus /\ old' = {}
      /\ CleanUp(old \ others') /\ UNCHANGED <<host, vcpus, left>>
  BY DEF LookupTasks, OtherThreads
<1>2. others' \subseteq Tids
  BY <1>1 DEF Tasks
<1>3. \A t \in Tids :
        /\ times'[t] = IF t \in old \ others' THEN <<>> ELSE times[t]
        /\ otherTimes'[t] = IF t \in old \ others' THEN <<>> ELSE otherTimes[t]
  BY <1>1 DEF CleanUp
<1>4. TypeOK'
  <2>1. times' \in [Tids -> Seq(0..MaxThreads)] /\ otherTimes' \in [Tids -> Seq(0..MaxThreads)]
    <3>1. <<>> \in Seq(0..MaxThreads)
      OBVIOUS
    <3>2. times \in [Tids -> Seq(0..MaxThreads)] /\ otherTimes \in [Tids -> Seq(0..MaxThreads)]
      BY DEF IInv, TypeOK
    <3> QED
      BY <1>1, <3>1, <3>2 DEF CleanUp
  <2>2. \A t \in Tids : Len(times'[t]) <= 2 /\ Len(otherTimes'[t]) <= 2
    BY <1>3 DEF IInv, TypeOK
  <2> QED
    BY <1>1, <1>2, <2>1, <2>2 DEF IInv, TypeOK, host
<1>5. Remembered'
  BY <1>1, <1>3 DEF IInv, Remembered, Measured, Covered
<1> QED
  BY <1>1, <1>4, <1>5 DEF IInv, Disjoint, Covered, Listed

LEMMA CollectStartInv == ASSUME IInv, CollectStart PROVE IInv'
<1>1. /\ holder = "free" /\ holder' = "collect" /\ left' = vcpus \cup others
      /\ UNCHANGED <<host, lists, series, old>>
  BY DEF CollectStart
<1>2. TypeOK'
  BY <1>1 DEF IInv, TypeOK, host, lists, series
<1> QED
  BY <1>1, <1>2 DEF IInv, Remembered, Measured, Disjoint, Covered, Listed, lists, series

(* A reading adds to the series of its thread and to no other.             *)
LEMMA ReadingType ==
  ASSUME NEW s \in [Tids -> Seq(0..MaxThreads)], \A t \in Tids : Len(s[t]) <= 2,
         NEW t \in Tids, thread[t] \in 0..MaxThreads
  PROVE  /\ Reading(s, t) \in [Tids -> Seq(0..MaxThreads)]
         /\ \A u \in Tids : Len(Reading(s, t)[u]) <= 2
         /\ \A u \in Tids \ {t} : Reading(s, t)[u] = s[u]
<1> DEFINE added == AddMeasurement(s[t], thread[t])
<1>1. added \in Seq(0..MaxThreads) /\ Len(added) <= 2
  <2>1. s[t] \in Seq(0..MaxThreads) /\ Len(s[t]) <= 2
    OBVIOUS
  <2> QED
    BY <2>1, AddMeasurementValues
<1>2. Reading(s, t) = [s EXCEPT ![t] = added]
  BY DEF Reading
<1> HIDE DEF added
<1> QED
  BY <1>1, <1>2

LEMMA CollectInv == ASSUME IInv, CollectThread PROVE IInv'
<1>1. PICK t \in left :
        /\ left' = left \ {t}
        /\ holder' = IF left' = {} THEN "free" ELSE holder
        /\ times' = IF t \in vcpus THEN Reading(times, t) ELSE times
        /\ otherTimes' = IF t \in others THEN Reading(otherTimes, t) ELSE otherTimes
  BY DEF CollectThread
<1>2. holder = "collect" /\ UNCHANGED <<host, lists, old>> /\ t \in vcpus \cup others /\ t \in Tids
  BY DEF CollectThread, IInv, TypeOK, Listed
<1>3. /\ {times', otherTimes'} \subseteq [Tids -> Seq(0..MaxThreads)]
      /\ \A u \in Tids : Len(times'[u]) <= 2 /\ Len(otherTimes'[u]) <= 2
      /\ \A u \in Tids \ {t} : times'[u] = times[u] /\ otherTimes'[u] = otherTimes[u]
  <2>1. /\ times \in [Tids -> Seq(0..MaxThreads)] /\ \A u \in Tids : Len(times[u]) <= 2
        /\ otherTimes \in [Tids -> Seq(0..MaxThreads)] /\ \A u \in Tids : Len(otherTimes[u]) <= 2
        /\ thread[t] \in 0..MaxThreads
    BY <1>2 DEF IInv, TypeOK
  <2>2. /\ times' \in [Tids -> Seq(0..MaxThreads)]
        /\ \A u \in Tids : Len(times'[u]) <= 2
        /\ \A u \in Tids \ {t} : times'[u] = times[u]
    BY <1>1, <1>2, <2>1, ReadingType
  <2>3. /\ otherTimes' \in [Tids -> Seq(0..MaxThreads)]
        /\ \A u \in Tids : Len(otherTimes'[u]) <= 2
        /\ \A u \in Tids \ {t} : otherTimes'[u] = otherTimes[u]
    BY <1>1, <1>2, <2>1, ReadingType
  <2> QED
    BY <2>2, <2>3
<1>4. TypeOK'
  BY <1>1, <1>2, <1>3 DEF IInv, TypeOK, host, lists
<1>5. Remembered'
  BY <1>2, <1>3 DEF IInv, Remembered, Measured, lists
<1> QED
  BY <1>1, <1>2, <1>4, <1>5 DEF IInv, Disjoint, Covered, Listed, lists

LEMMA NextInv == ASSUME IInv, [Next]_vars PROVE IInv'
<1>1. CASE UNCHANGED vars
  BY <1>1 DEF vars, host, lists, series, IInv, TypeOK, Remembered, Measured, Disjoint, Covered, Listed
<1> QED
  BY <1>1, HostInv, CoresInv, TasksInv, CollectStartInv, CollectInv DEF Next

(* The inductive invariant, for any ids and any number of threads.         *)
THEOREM Invariance == Spec => []IInv
BY InitInv, NextInv, PTL DEF Spec

(* Lists hold thread ids, and series at most two measurements.             *)
THEOREM TypeCorrect == Spec => []TypeOK
<1>1. IInv => TypeOK
  BY DEF IInv
<1> QED
  BY <1>1, Invariance, PTL

(* cpuLookup leaves no series of a thread that is not listed, so their     *)
(* number is bounded by that of the listed threads.                        *)
THEOREM Forgotten == Spec => []NothingInherited
<1>1. IInv => NothingInherited
  BY DEF IInv, Remembered, Disjoint, NothingInherited
<1> QED
  BY <1>1, Invariance, PTL

(* Outside a lookup no thread is in both lists, so none counts twice.      *)
THEOREM Once == Spec => []CountedOnce
<1>1. IInv => CountedOnce
  BY DEF IInv, Disjoint, Rated, CountedOnce
<1> QED
  BY <1>1, Invariance, PTL

----------------------------------------------------------------------------
(* Counters modulo Word.                                                   *)

Congruent(a, b) == \E k \in Int : a = b + k * Word

LEMMA CongruentRefl == ASSUME NEW a \in Int PROVE Congruent(a, a)
<1>1. a = a + 0 * Word
  BY DevicesAssumption
<1> QED
  BY <1>1 DEF Congruent

LEMMA CongruentSym ==
  ASSUME NEW a \in Int, NEW b \in Int, Congruent(a, b) PROVE Congruent(b, a)
<1>1. PICK k \in Int : a = b + k * Word
  BY DEF Congruent
<1>2. b = a + (-k) * Word /\ -k \in Int
  BY <1>1, DevicesAssumption
<1> QED
  BY <1>2 DEF Congruent

LEMMA CongruentTrans ==
  ASSUME NEW a \in Int, NEW b \in Int, NEW c \in Int, Congruent(a, b), Congruent(b, c)
  PROVE  Congruent(a, c)
<1>1. PICK k \in Int : a = b + k * Word
  BY DEF Congruent
<1>2. PICK l \in Int : b = c + l * Word
  BY DEF Congruent
<1>3. a = c + (k + l) * Word /\ k + l \in Int
  BY <1>1, <1>2, DevicesAssumption
<1> QED
  BY <1>3 DEF Congruent

LEMMA CongruentAdd ==
  ASSUME NEW a \in Int, NEW b \in Int, NEW c \in Int, NEW d \in Int,
         Congruent(a, b), Congruent(c, d)
  PROVE  Congruent(a + c, b + d) /\ Congruent(a - c, b - d)
<1>1. PICK k \in Int : a = b + k * Word
  BY DEF Congruent
<1>2. PICK l \in Int : c = d + l * Word
  BY DEF Congruent
<1>3. a + c = (b + d) + (k + l) * Word /\ k + l \in Int
  BY <1>1, <1>2, DevicesAssumption
<1>4. a - c = (b - d) + (k - l) * Word /\ k - l \in Int
  BY <1>1, <1>2, DevicesAssumption
<1> QED
  BY <1>3, <1>4 DEF Congruent

LEMMA ModCongruent ==
  ASSUME NEW a \in Int
  PROVE  a % Word \in 0..Word - 1 /\ Congruent(a % Word, a)
<1> DEFINE q == a \div Word
<1>1. Word \in Int /\ Word > 0
  BY DevicesAssumption
<1>2. q \in Int
  BY <1>1
<1>3. a % Word \in 0..Word - 1
  BY <1>1
<1>4. a = Word * q + (a % Word)
  BY <1>1
<1> HIDE DEF q
<1>5. a % Word = a + (-q) * Word /\ -q \in Int
  BY <1>1, <1>2, <1>3, <1>4
<1> QED
  BY <1>3, <1>5 DEF Congruent

LEMMA CongruentSmall ==
  ASSUME NEW a \in 0..Word - 1, NEW b \in 0..Word - 1, Congruent(a, b)
  PROVE  a = b
<1>1. PICK k \in Int : a = b + k * Word
  BY DEF Congruent
<1>2. CASE k >= 1
  <2>1. k * Word >= Word
    BY <1>2, DevicesAssumption
  <2> QED
    BY <1>1, <2>1, DevicesAssumption
<1>3. CASE k <= -1
  <2>1. k * Word <= -Word
    BY <1>3, DevicesAssumption
  <2> QED
    BY <1>1, <2>1, DevicesAssumption
<1>4. CASE k = 0
  BY <1>1, <1>4, DevicesAssumption
<1> QED
  BY <1>2, <1>3, <1>4

LEMMA CongruentMod ==
  ASSUME NEW a \in Int, NEW b \in Int
  PROVE  Congruent(a, b) <=> a % Word = b % Word
<1>1. /\ a % Word \in 0..Word - 1 /\ Congruent(a % Word, a)
      /\ b % Word \in 0..Word - 1 /\ Congruent(b % Word, b)
  BY ModCongruent
<1>2. a % Word \in Int /\ b % Word \in Int
  BY <1>1, DevicesAssumption
<1>3. ASSUME Congruent(a, b) PROVE a % Word = b % Word
  <2>1. Congruent(a % Word, b)
    BY <1>1, <1>2, <1>3, CongruentTrans
  <2>2. Congruent(b, b % Word)
    BY <1>1, <1>2, CongruentSym
  <2>3. Congruent(a % Word, b % Word)
    BY <1>2, <2>1, <2>2, CongruentTrans
  <2> QED
    BY <1>1, <2>3, CongruentSmall
<1>4. ASSUME a % Word = b % Word PROVE Congruent(a, b)
  <2>1. Congruent(a, a % Word)
    BY <1>1, <1>2, CongruentSym
  <2>2. Congruent(a % Word, b)
    BY <1>1, <1>4
  <2> QED
    BY <1>2, <2>1, <2>2, CongruentTrans
<1> QED
  BY <1>3, <1>4

----------------------------------------------------------------------------
(* Sums.                                                                   *)

Values == 0..Word - 1

Units(f, S) == {p \in S \X (1..Word - 1) : p[2] <= f[p[1]]}

LEMMA SumEmpty == \A f : SumOf(f, {}) = 0
BY FS_EmptySet DEF SumOf

LEMMA SumType ==
  ASSUME NEW f, NEW S, IsFiniteSet(S)
  PROVE  IsFiniteSet(Units(f, S)) /\ SumOf(f, S) \in Nat
<1>1. Word - 1 \in Int
  BY DevicesAssumption
<1>2. IsFiniteSet(1..Word - 1)
  BY <1>1, FS_Interval
<1>3. IsFiniteSet(S \X (1..Word - 1))
  BY <1>2, FS_Product
<1>4. Units(f, S) \in SUBSET (S \X (1..Word - 1))
  BY DEF Units
<1>5. IsFiniteSet(Units(f, S))
  BY <1>3, <1>4, FS_Subset
<1> QED
  BY <1>5, FS_CardinalityType DEF Units, SumOf

LEMMA SumSame ==
  ASSUME NEW f, NEW g, NEW S, \A d \in S : f[d] = g[d]
  PROVE  SumOf(f, S) = SumOf(g, S)
<1>1. \A p \in S \X (1..Word - 1) : f[p[1]] = g[p[1]]
  OBVIOUS
<1>2. Units(f, S) = Units(g, S)
  BY <1>1 DEF Units
<1> QED
  BY <1>2 DEF SumOf, Units

LEMMA SumAdd ==
  ASSUME NEW f, NEW S, IsFiniteSet(S), NEW d, d \notin S, f[d] \in Values
  PROVE  SumOf(f, S \cup {d}) = SumOf(f, S) + f[d]
<1> DEFINE column == {p \in {d} \X (1..Word - 1) : p[2] <= f[d]}
           at == [k \in 1..f[d] |-> <<d, k>>]
<1>1. f[d] \in Int /\ f[d] >= 0 /\ f[d] <= Word - 1 /\ Word - 1 \in Int
  BY DevicesAssumption DEF Values
<1>2. \A k \in 1..f[d] : k \in 1..Word - 1 /\ k <= f[d]
  BY <1>1
<1>3. at \in [1..f[d] -> column]
  BY <1>2
<1>4. \A j, k \in 1..f[d] : at[j] = at[k] => j = k
  OBVIOUS
<1>5. \A p \in column : \E k \in 1..f[d] : at[k] = p
  <2> SUFFICES ASSUME NEW p \in column PROVE \E k \in 1..f[d] : at[k] = p
    OBVIOUS
  <2>1. p = <<d, p[2]>> /\ p[2] \in 1..Word - 1 /\ p[2] <= f[d]
    OBVIOUS
  <2>2. p[2] \in 1..f[d]
    BY <1>1, <2>1
  <2> QED
    BY <2>1, <2>2
<1>6. at \in Bijection(1..f[d], column)
  BY <1>3, <1>4, <1>5, Fun_IsBij
<1>7. IsFiniteSet(1..f[d]) /\ Cardinality(1..f[d]) = f[d]
  BY <1>1, FS_Interval
<1>8. IsFiniteSet(column) /\ Cardinality(column) = f[d]
  BY <1>6, <1>7, FS_Bijection DEF ExistsBijection
<1>9. Units(f, S \cup {d}) = Units(f, S) \cup column
  BY DEF Units
<1>10. Units(f, S) \cap column = {}
  BY DEF Units
<1> HIDE DEF column
<1>11. /\ IsFiniteSet(Units(f, S)) /\ Cardinality(Units(f, S)) \in Nat
       /\ Cardinality({}) = 0
  BY SumType, FS_CardinalityType, FS_EmptySet
<1>12. Cardinality(Units(f, S) \cup column) =
         Cardinality(Units(f, S)) + Cardinality(column) - Cardinality(Units(f, S) \cap column)
  BY <1>8, <1>11, FS_Union
<1>13. Cardinality(Units(f, S) \cup column) = Cardinality(Units(f, S)) + f[d] - 0
  BY <1>8, <1>10, <1>11, <1>12, Zenon
<1>14. SumOf(f, S) = Cardinality(Units(f, S)) /\ SumOf(f, S) \in Nat
       /\ SumOf(f, S \cup {d}) = Cardinality(Units(f, S \cup {d}))
  BY SumType DEF SumOf, Units
<1>15. SumOf(f, S \cup {d}) = SumOf(f, S) + f[d] - 0
  BY <1>9, <1>13, <1>14, Zenon
<1> QED
  BY <1>1, <1>14, <1>15

\* The value of one element may change.
LEMMA SumChange ==
  ASSUME NEW f, NEW g, NEW S, IsFiniteSet(S), NEW d \in S,
         f[d] \in Values, g[d] \in Values, \A e \in S \ {d} : f[e] = g[e]
  PROVE  SumOf(f, S) = SumOf(g, S) - g[d] + f[d]
<1>1. S = (S \ {d}) \cup {d} /\ d \notin S \ {d} /\ IsFiniteSet(S \ {d})
  BY FS_RemoveElement
<1>2. SumOf(f, S \ {d}) = SumOf(g, S \ {d}) /\ SumOf(g, S \ {d}) \in Nat
  BY <1>1, SumSame, SumType
<1>3. SumOf(f, (S \ {d}) \cup {d}) = SumOf(f, S \ {d}) + f[d]
  BY <1>1, SumAdd
<1>4. SumOf(g, (S \ {d}) \cup {d}) = SumOf(g, S \ {d}) + g[d]
  BY <1>1, SumAdd
<1>5. SumOf(f, S) = SumOf(f, S \ {d}) + f[d] /\ SumOf(g, S) = SumOf(g, S \ {d}) + g[d]
  BY <1>1, <1>3, <1>4, Zenon
<1>6. f[d] \in Int /\ g[d] \in Int
  BY DevicesAssumption DEF Values
<1> QED
  BY <1>2, <1>5, <1>6

\* The differences of two values add up to the difference of the sums: else
\* there were a smallest set of devices where they do not.
LEMMA SumOfDifferences ==
  ASSUME NEW f, NEW g, NEW h, NEW S, IsFiniteSet(S),
         \A d \in S : f[d] \in Values /\ g[d] \in Values /\ h[d] = (f[d] - g[d]) % Word
  PROVE  Congruent(SumOf(h, S), SumOf(f, S) - SumOf(g, S))
<1> DEFINE Adds(T) == Congruent(SumOf(h, T), SumOf(f, T) - SumOf(g, T))
           wrong == {T \in SUBSET S : ~Adds(T)}
<1>1. Adds({})
  BY SumEmpty, CongruentRefl
<1>2. ASSUME NEW T \in SUBSET S, NEW d \in T, Adds(T \ {d})
      PROVE  Adds(T)
  <2>1. IsFiniteSet(T) /\ IsFiniteSet(T \ {d})
    BY FS_Subset, FS_RemoveElement
  <2>2. T = (T \ {d}) \cup {d} /\ d \notin T \ {d}
    OBVIOUS
  <2>3. /\ f[d] \in Values /\ g[d] \in Values /\ f[d] - g[d] \in Int
        /\ h[d] = (f[d] - g[d]) % Word /\ f[d] \in Int /\ g[d] \in Int
    BY DevicesAssumption DEF Values
  <2>4. h[d] \in Values /\ h[d] \in Int /\ Congruent(h[d], f[d] - g[d])
    BY <2>3, ModCongruent, DevicesAssumption DEF Values
  <2>5. /\ SumOf(f, (T \ {d}) \cup {d}) = SumOf(f, T \ {d}) + f[d]
        /\ SumOf(g, (T \ {d}) \cup {d}) = SumOf(g, T \ {d}) + g[d]
        /\ SumOf(h, (T \ {d}) \cup {d}) = SumOf(h, T \ {d}) + h[d]
    BY <2>1, <2>2, <2>3, <2>4, SumAdd
  <2>6. /\ SumOf(f, T) = SumOf(f, T \ {d}) + f[d]
        /\ SumOf(g, T) = SumOf(g, T \ {d}) + g[d]
        /\ SumOf(h, T) = SumOf(h, T \ {d}) + h[d]
    BY <2>2, <2>5, Zenon
  <2>7. /\ SumOf(f, T \ {d}) \in Int /\ SumOf(g, T \ {d}) \in Int
        /\ SumOf(h, T \ {d}) \in Int
    BY <2>1, SumType
  <2>8. Congruent(SumOf(h, T \ {d}) + h[d],
                  (SumOf(f, T \ {d}) - SumOf(g, T \ {d})) + (f[d] - g[d]))
    BY <1>2, <2>3, <2>4, <2>7, CongruentAdd
  <2>9. (SumOf(f, T \ {d}) - SumOf(g, T \ {d})) + (f[d] - g[d]) = SumOf(f, T) - SumOf(g, T)
    BY <2>3, <2>6, <2>7
  <2> QED
    BY <2>6, <2>8, <2>9
<1>3. IsWellFoundedOn(StrictSubsetOrdering(S), SUBSET S)
  BY FS_StrictSubsetOrderingWellFounded, FS_FiniteSubsetsOfFinite, Zenon
<1> HIDE DEF Adds
<1>4. wrong = {}
  <2> SUFFICES ASSUME wrong # {} PROVE FALSE
    OBVIOUS
  <2>1. wrong \subseteq SUBSET S
    OBVIOUS
  <2> HIDE DEF wrong
  <2>2. PICK T \in wrong : \A U \in wrong : ~(<<U, T>> \in StrictSubsetOrdering(S))
    BY <1>3, <2>1, WFMin, Zenon
  <2>3. T \in SUBSET S /\ ~Adds(T)
    BY <2>1 DEF wrong
  <2>4. PICK d \in T : TRUE
    BY <1>1, <2>3
  <2>5. <<T \ {d}, T>> \in StrictSubsetOrdering(S)
    BY <2>3, <2>4 DEF StrictSubsetOrdering
  <2>6. T \ {d} \in SUBSET S
    BY <2>3
  <2>7. Adds(T \ {d})
    BY <2>2, <2>5, <2>6 DEF wrong
  <2> QED
    BY <1>2, <2>3, <2>4, <2>7
<1> QED
  BY <1>4 DEF Adds

----------------------------------------------------------------------------
(* The inductive invariant.                                                *)

\* The interfaces that the collect under way has read.
Reread == IF stage = "reading" THEN listed \ unread ELSE {}

Latest == [d \in Names |-> perDevice[d][1]]
Previous == [d \in Names |-> perDevice[d][2]]

\* The measurement of each interface that the last total counts.
Counted == [d \in Names |-> IF d \in Reread THEN perDevice[d][2] ELSE perDevice[d][1]]

Stages ==
  /\ collector = "net" => stage \in {"idle", "reading"}
  /\ collector = "disk" => stage \in {"idle", "devices"}
  /\ stage # "reading" => unread = {}

SumInv ==
  stage = "reading" =>
    /\ \A d \in Reread : Len(perDevice[d]) >= 1
    /\ sum = SumOf(Latest, Reread) % Word

LastInv ==
  Len(total) >= 1 =>
    /\ IsFiniteSet(total[1].of)
    /\ \A d \in total[1].of : Len(perDevice[d]) >= (IF d \in Reread THEN 2 ELSE 1)
    /\ total[1].value = SumOf(Counted, total[1].of) % Word

BothInv ==
  stage = "idle" /\ Len(total) = 2 /\ total[2].of = total[1].of =>
    /\ \A d \in total[1].of : Len(perDevice[d]) = 2
    /\ total[2].value = SumOf(Previous, total[1].of) % Word

NetInv == collector = "net" => SumInv /\ LastInv /\ BothInv

\* What the counters of the disks that count lack of all I/O is what they
\* lacked when the last totals were added.
Lag(t) == t.value - t.at

DiskInv ==
  collector = "disk" =>
    /\ calm >= 1 /\ plain >= 1 =>
         /\ Len(total) >= 1
         /\ Congruent(Counters(Considered) - ios, Lag(total[1]))
    /\ calm = 2 /\ plain = 2 /\ Len(total) = 2 =>
         Congruent(Lag(total[1]), Lag(total[2]))

DevicesInv == DevicesTypeOK /\ Stages /\ NetInv /\ DiskInv

Totals == [value : Values, of : SUBSET Interfaces, at : Values]

LEMMA ValuesType == 0 \in Values /\ Values \subseteq Int /\ \A a \in Int : a % Word \in Values
BY ModCongruent, DevicesAssumption DEF Values

LEMMA CountersType == \A devices : IsFiniteSet(devices) => Counters(devices) \in Values
<1> SUFFICES ASSUME NEW devices, IsFiniteSet(devices) PROVE Counters(devices) \in Values
  OBVIOUS
<1>1. SumOf(count, devices) \in Int
  BY SumType
<1> QED
  BY <1>1, ValuesType DEF Counters

\* AddMeasurementValues, without its local name.
LEMMA Added ==
  ASSUME NEW S, NEW values \in Seq(S), Len(values) <= 2, NEW new \in S
  PROVE  /\ AddMeasurement(values, new) \in Seq(S)
         /\ Len(AddMeasurement(values, new)) <= 2
         /\ Len(AddMeasurement(values, new)) >= 1
         /\ Len(AddMeasurement(values, new)) >= Len(values)
         /\ Len(AddMeasurement(values, new)) = (IF Len(values) = 0 THEN 1 ELSE 2)
         /\ AddMeasurement(values, new)[1] = new
         /\ Len(AddMeasurement(values, new)) = 2 =>
              Len(values) >= 1 /\ AddMeasurement(values, new)[2] = values[1]
<1> DEFINE added == AddMeasurement(values, new)
<1>1. /\ added \in Seq(S) /\ Len(added) >= 1 /\ Len(added) >= Len(values)
      /\ Len(added) <= 2 /\ added[1] = new
      /\ Len(added) = 2 => 1 \in DOMAIN values /\ added[2] = values[1]
      /\ Len(added) = (IF Len(values) = 0 THEN 1 ELSE 2)
  BY AddMeasurementValues
<1>2. 1 \in DOMAIN values => Len(values) >= 1
  OBVIOUS
<1> HIDE DEF added
<1>3. /\ added \in Seq(S) /\ Len(added) <= 2 /\ Len(added) >= 1
      /\ Len(added) >= Len(values)
      /\ Len(added) = (IF Len(values) = 0 THEN 1 ELSE 2)
      /\ added[1] = new
      /\ Len(added) = 2 => Len(values) >= 1 /\ added[2] = values[1]
  BY <1>1, <1>2
<1> QED
  BY <1>3 DEF added

LEMMA AddTotalType ==
  ASSUME DevicesTypeOK, NEW v \in Values, AddTotal(v)
  PROVE  /\ total' \in Seq(Totals) /\ Len(total') <= 2 /\ Len(total') >= 1
         /\ Len(total') = (IF Len(total) = 0 THEN 1 ELSE 2)
         /\ total'[1] = [value |-> v, of |-> listed, at |-> ios]
         /\ Len(total') = 2 => Len(total) >= 1 /\ total'[2] = total[1]
         /\ calm' \in 0..2 /\ calm' = (IF calm < 2 THEN calm + 1 ELSE 2)
         /\ plain' \in 0..2 /\ plain' = (IF plain < 2 THEN plain + 1 ELSE 2)
<1> DEFINE t == [value |-> v, of |-> listed, at |-> ios]
<1>1. total \in Seq(Totals) /\ Len(total) <= 2 /\ calm \in 0..2 /\ plain \in 0..2
  BY DEF DevicesTypeOK, Totals, Values
<1>2. t \in Totals
  BY DEF DevicesTypeOK, Totals, Values
<1>3. /\ total' = AddMeasurement(total, t)
      /\ calm' = (IF calm < 2 THEN calm + 1 ELSE 2)
      /\ plain' = (IF plain < 2 THEN plain + 1 ELSE 2)
  BY DEF AddTotal
<1> HIDE DEF t
<1> DEFINE added == AddMeasurement(total, t)
<1>4. /\ added \in Seq(Totals)
      /\ Len(added) <= 2
      /\ Len(added) >= 1
      /\ Len(added) >= Len(total)
      /\ Len(added) = (IF Len(total) = 0 THEN 1 ELSE 2)
      /\ added[1] = t
      /\ Len(added) = 2 => Len(total) >= 1 /\ added[2] = total[1]
  BY <1>1, <1>2, Added, Zenon
<1> HIDE DEF added
<1>5. total' = added
  BY <1>3 DEF added
<1>6. /\ total' \in Seq(Totals) /\ Len(total') <= 2 /\ Len(total') >= 1
      /\ Len(total') = (IF Len(total) = 0 THEN 1 ELSE 2)
      /\ total'[1] = t
      /\ Len(total') = 2 => Len(total) >= 1 /\ total'[2] = total[1]
  BY <1>4, <1>5
<1>7. calm' \in 0..2 /\ plain' \in 0..2
  BY <1>1, <1>3
<1> QED
  BY <1>3, <1>6, <1>7 DEF t

LEMMA DevicesInitInv == ASSUME DevicesInit PROVE DevicesInv
<1>1. DevicesTypeOK
  BY DevicesAssumption, FS_EmptySet DEF DevicesInit, DevicesTypeOK
<1> QED
  BY <1>1 DEF DevicesInit, DevicesInv, Stages, NetInv, SumInv, LastInv, BothInv, DiskInv

\* The devices come and go and are used.
LEMMA DeviceStepType ==
  ASSUME DevicesTypeOK, Stages, DeviceStep
  PROVE  DevicesTypeOK' /\ Stages'
<1>1. PICK d \in Own : Plug(d) \/ Unplug(d) \/ IO(d)
  BY DEF DeviceStep
<1>2. d \in Names /\ 0 \in 0..Word - 1
  BY <1>1, DevicesAssumption DEF Own, Names
<1>3. /\ UNCHANGED <<collector, listed, unread, sum, stage, perDevice, total>>
      /\ Own' = Own
  BY <1>1 DEF Plug, Unplug, IO, Own
<1>4. present' \subseteq Own /\ IsFiniteSet(present')
  <2>1. present' = present \cup {d} \/ present' = present \ {d} \/ present' = present
    BY <1>1 DEF Plug, Unplug, IO
  <2>2. present \subseteq Own /\ IsFiniteSet(present)
    BY DEF DevicesTypeOK
  <2>3. IsFiniteSet(present \cup {d}) /\ IsFiniteSet(present \ {d})
    BY <2>2, FS_AddElement, FS_RemoveElement
  <2>4. CASE present' = present \cup {d}
    BY <1>1, <2>2, <2>3, <2>4, Zenon
  <2>5. CASE present' = present \ {d}
    BY <2>2, <2>3, <2>5, Zenon
  <2> QED
    BY <2>1, <2>2, <2>4, <2>5
<1>5. count' \in [Names -> 0..Word - 1] /\ ios' \in 0..Word - 1
      /\ calm' \in 0..2 /\ plain' \in 0..2
  <2>1. CASE Plug(d) \/ Unplug(d)
    <3>1. /\ count' = [count EXCEPT ![d] = 0] /\ calm' = 0
          /\ UNCHANGED <<ios, plain>>
      BY <2>1 DEF Plug, Unplug
    <3> QED
      BY <1>2, <3>1 DEF DevicesTypeOK
  <2>2. CASE IO(d)
    <3>0. PICK route \in Routes(d) :
               count' = [e \in Names |-> IF e \in route THEN (count[e] + 1) % Word
                                                         ELSE count[e]]
      BY <2>2 DEF IO
    <3>1. ios' = (ios + 1) % Word /\ calm' = calm /\ (plain' = plain \/ plain' = 0)
      BY <2>2 DEF IO
    <3>2. \A e \in Names : count[e] \in Int /\ count[e] + 1 \in Int /\ count[e] \in 0..Word - 1
      BY DevicesAssumption DEF DevicesTypeOK
    <3>3. \A e \in Names : (count[e] + 1) % Word \in 0..Word - 1
      BY <3>2, ModCongruent
    <3>4. ios + 1 \in Int
      BY DevicesAssumption DEF DevicesTypeOK
    <3>5. ios' \in 0..Word - 1
      BY <3>1, <3>4, ModCongruent
    <3>6. count' \in [Names -> 0..Word - 1]
      BY <3>0, <3>2, <3>3
    <3>7. calm' \in 0..2 /\ plain' \in 0..2
      BY <3>1 DEF DevicesTypeOK
    <3> QED
      BY <3>5, <3>6, <3>7
  <2> QED
    BY <1>1, <2>1, <2>2
<1> QED
  BY <1>3, <1>4, <1>5 DEF DevicesTypeOK, Stages

LEMMA ReadCounterType ==
  ASSUME DevicesTypeOK, NEW d \in Names
  PROVE  ReadCounter(d) \in Values
BY ValuesType DEF ReadCounter, DevicesTypeOK, Values

\* The series of one device.
LEMMA SeriesAdded ==
  ASSUME DevicesTypeOK, NEW d \in Names, NEW v \in Values
  PROVE  /\ AddMeasurement(perDevice[d], v) \in Seq(Values)
         /\ Len(AddMeasurement(perDevice[d], v)) <= 2
         /\ Len(AddMeasurement(perDevice[d], v)) >= 1
         /\ Len(AddMeasurement(perDevice[d], v)) >= Len(perDevice[d])
         /\ Len(AddMeasurement(perDevice[d], v)) = (IF Len(perDevice[d]) = 0 THEN 1 ELSE 2)
         /\ AddMeasurement(perDevice[d], v)[1] = v
         /\ Len(AddMeasurement(perDevice[d], v)) = 2 =>
              Len(perDevice[d]) >= 1 /\ AddMeasurement(perDevice[d], v)[2] = perDevice[d][1]
<1>1. perDevice[d] \in Seq(Values) /\ Len(perDevice[d]) <= 2
  BY DEF DevicesTypeOK, Values
<1> QED
  BY <1>1, Added, Zenon

LEMMA CollectType ==
  ASSUME DevicesTypeOK, Stages,
         \/ NetLookup \/ NetCollectStart \/ NetCollectEnd
         \/ \E d \in Interfaces : NetRead(d)
         \/ DiskTotals \/ DiskDevices
  PROVE  DevicesTypeOK' /\ Stages'
<1>1. CASE NetLookup
  <2>1. /\ UNCHANGED <<collector, present, count, ios, calm, plain, unread, sum, stage, perDevice, total>>
        /\ listed' = present /\ Own' = Own /\ Own = Interfaces /\ unread = {}
    BY <1>1 DEF NetLookup, Own, Stages
  <2> QED
    BY <2>1 DEF DevicesTypeOK, Stages
<1>2. CASE NetCollectStart
  <2>1. /\ UNCHANGED <<collector, present, count, ios, calm, plain, listed, perDevice, total>>
        /\ unread' = listed /\ sum' = 0 /\ stage' = "reading" /\ collector = "net" /\ Own' = Own
    BY <1>2 DEF NetCollectStart, Own
  <2> QED
    BY <2>1, ValuesType DEF DevicesTypeOK, Stages, Values
<1>3. CASE NetCollectEnd
  <2>1. /\ UNCHANGED <<collector, present, count, ios, listed, unread, sum, perDevice>>
        /\ unread = {} /\ stage' = "idle" /\ Own' = Own /\ AddTotal(sum)
    BY <1>3 DEF NetCollectEnd, Own
  <2>2. sum \in Values
    BY DEF DevicesTypeOK, Values
  <2>3. total' \in Seq(Totals) /\ Len(total') <= 2 /\ calm' \in 0..2 /\ plain' \in 0..2
    BY <2>1, <2>2, AddTotalType
  <2> QED
    BY <2>1, <2>3 DEF DevicesTypeOK, Stages, Totals, Values
<1>4. CASE \E d \in Interfaces : NetRead(d)
  <2>1. PICK d \in Interfaces : NetRead(d)
    BY <1>4
  <2>2. /\ UNCHANGED <<collector, present, count, ios, calm, plain, listed, stage, total>>
        /\ perDevice' = [perDevice EXCEPT ![d] = AddMeasurement(@, ReadCounter(d))]
        /\ sum' = (sum + ReadCounter(d)) % Word
        /\ unread' = unread \ {d} /\ Own' = Own /\ d \in Names
    BY <2>1 DEF NetRead, Own, Names
  <2>3. ReadCounter(d) \in Values
    BY <2>2, ReadCounterType
  <2>4. /\ AddMeasurement(perDevice[d], ReadCounter(d)) \in Seq(Values)
        /\ Len(AddMeasurement(perDevice[d], ReadCounter(d))) <= 2
    BY <2>2, <2>3, SeriesAdded
  <2>5. sum + ReadCounter(d) \in Int
    BY <2>3, ValuesType DEF DevicesTypeOK, Values
  <2>6. sum' \in Values
    BY <2>2, <2>5, ValuesType
  <2>7. perDevice' \in [Names -> Seq(Values)] /\ \A e \in Names : Len(perDevice'[e]) <= 2
    BY <2>2, <2>4 DEF DevicesTypeOK, Values
  <2> QED
    BY <2>2, <2>6, <2>7 DEF DevicesTypeOK, Stages, Values
<1>5. CASE DiskTotals
  <2>1. /\ UNCHANGED <<collector, present, count, ios, listed, unread, sum, perDevice>>
        /\ collector = "disk" /\ stage' = "devices" /\ unread = {} /\ Own' = Own
        /\ AddTotal(Counters(Considered))
    BY <1>5 DEF DiskTotals, Own, Stages
  <2>2. Considered \in SUBSET present
    BY DEF Considered
  <2>3. Counters(Considered) \in Values
    BY <2>2, FS_Subset, CountersType DEF DevicesTypeOK
  <2>4. total' \in Seq(Totals) /\ Len(total') <= 2 /\ calm' \in 0..2 /\ plain' \in 0..2
    BY <2>1, <2>3, AddTotalType
  <2> QED
    BY <2>1, <2>4 DEF DevicesTypeOK, Stages, Totals, Values
<1>6. CASE DiskDevices
  <2>1. /\ UNCHANGED <<collector, present, count, ios, calm, plain, listed, unread, sum, total>>
        /\ perDevice' = [d \in Names |-> IF d \in present \ Loops
                           THEN AddMeasurement(perDevice[d], count[d]) ELSE perDevice[d]]
        /\ stage' = "idle" /\ unread = {} /\ Own' = Own
    BY <1>6 DEF DiskDevices, Own, Stages
  <2>2. \A d \in Names :
          /\ AddMeasurement(perDevice[d], count[d]) \in Seq(Values)
          /\ Len(AddMeasurement(perDevice[d], count[d])) <= 2
    <3>1. \A d \in Names : count[d] \in Values
      BY DEF DevicesTypeOK, Values
    <3> QED
      BY <3>1, SeriesAdded
  <2>3. perDevice' \in [Names -> Seq(Values)] /\ \A e \in Names : Len(perDevice'[e]) <= 2
    BY <2>1, <2>2 DEF DevicesTypeOK, Values
  <2> QED
    BY <2>1, <2>3 DEF DevicesTypeOK, Stages, Values
<1> QED
  BY <1>1, <1>2, <1>3, <1>4, <1>5, <1>6

----------------------------------------------------------------------------
(* The interfaces.                                                         *)

netVars == <<collector, listed, unread, sum, stage, perDevice, total>>

LEMMA NetUnchanged == ASSUME NetInv, UNCHANGED netVars PROVE NetInv'
BY DEF NetInv, netVars, SumInv, LastInv, BothInv, Reread, Latest, Previous, Counted

\* The part of the type invariant that the steps need.
LEMMA NetTypes ==
  ASSUME DevicesTypeOK
  PROVE  /\ listed \subseteq Names /\ IsFiniteSet(listed) /\ unread \subseteq listed
         /\ sum \in Values
         /\ \A d \in Names : perDevice[d] \in Seq(Values) /\ Len(perDevice[d]) <= 2
         /\ total \in Seq(Totals) /\ Len(total) <= 2
         /\ Len(total) >= 1 => total[1].of \subseteq Names
         /\ Len(total) = 2 => total[2].of \subseteq Names
<1>1. total \in Seq(Totals) /\ Len(total) <= 2
  BY DEF DevicesTypeOK, Totals, Values
<1>2. Len(total) >= 1 => total[1] \in Totals
  BY <1>1
<1>3. Len(total) = 2 => total[2] \in Totals
  BY <1>1
<1> QED
  BY <1>1, <1>2, <1>3 DEF DevicesTypeOK, Names, Values, Totals

LEMMA NetLookupInv == ASSUME NetInv, NetLookup PROVE NetInv'
<1>1. /\ UNCHANGED <<collector, sum, stage, perDevice, total>> /\ stage = "idle"
      /\ Reread' = {} /\ Reread = {}
  BY DEF NetLookup, Reread
<1> QED
  BY <1>1 DEF NetInv, SumInv, LastInv, BothInv, Latest, Previous, Counted

LEMMA NetCollectStartInv == ASSUME NetInv, NetCollectStart PROVE NetInv'
<1>1. /\ UNCHANGED <<collector, listed, perDevice, total>>
      /\ stage = "idle" /\ stage' = "reading" /\ sum' = 0
      /\ Reread' = {} /\ Reread = {}
  BY DEF NetCollectStart, Reread
<1>2. SumInv'
  <2>1. SumOf(Latest', {}) = 0
    BY SumEmpty
  <2>2. 0 % Word = 0
    <3>1. Congruent(0 % Word, 0) /\ 0 % Word \in Values
      BY ModCongruent DEF Values
    <3> QED
      BY <3>1, ValuesType, CongruentSmall DEF Values
  <2> QED
    BY <1>1, <2>1, <2>2 DEF SumInv
<1>3. LastInv => LastInv'
  BY <1>1 DEF LastInv, Counted
<1>4. BothInv'
  BY <1>1 DEF BothInv
<1> QED
  BY <1>1, <1>2, <1>3, <1>4 DEF NetInv

\* The reading of one interface: its last measurement becomes the previous one.
LEMMA NetReadInv ==
  ASSUME DevicesTypeOK, NetInv, NEW d \in Interfaces, NetRead(d)
  PROVE  NetInv'
<1> DEFINE r == ReadCounter(d)
<1>1. /\ UNCHANGED <<collector, listed, stage, total>> /\ stage = "reading" /\ d \in unread
      /\ perDevice' = [perDevice EXCEPT ![d] = AddMeasurement(perDevice[d], r)]
      /\ sum' = (sum + r) % Word /\ unread' = unread \ {d} /\ d \in Names
      /\ perDevice \in [Names -> Seq(Values)]
  BY DEF NetRead, Names, DevicesTypeOK, Values
<1>2. Reread' = Reread \cup {d} /\ d \notin Reread /\ Reread \subseteq listed
      /\ Reread \subseteq Names
  BY <1>1, NetTypes DEF Reread
<1>3. r \in Values
  BY <1>1, ReadCounterType
<1> HIDE DEF r
<1>4. /\ Len(perDevice'[d]) <= 2 /\ Len(perDevice'[d]) >= 1
      /\ Len(perDevice'[d]) = (IF Len(perDevice[d]) = 0 THEN 1 ELSE 2)
      /\ perDevice'[d][1] = r
      /\ Len(perDevice'[d]) = 2 => perDevice'[d][2] = perDevice[d][1]
  <2>1. perDevice'[d] = AddMeasurement(perDevice[d], r)
    BY <1>1
  <2> QED
    BY <1>1, <1>3, <2>1, SeriesAdded
<1>5. \A e \in Names : e # d => perDevice'[e] = perDevice[e]
  BY <1>1
<1> SUFFICES ASSUME collector = "net" PROVE SumInv' /\ LastInv' /\ BothInv'
  BY <1>1 DEF NetInv
<1>6. SumInv'
  <2>1. /\ \A e \in Reread : Len(perDevice[e]) >= 1
        /\ sum = SumOf(Latest, Reread) % Word
    BY <1>1 DEF NetInv, SumInv
  <2>2. \A e \in Reread' : Len(perDevice'[e]) >= 1
    BY <1>2, <1>4, <1>5, <2>1
  <2>3. IsFiniteSet(Reread)
    BY <1>2, NetTypes, FS_Subset
  <2>4. SumOf(Latest', Reread) = SumOf(Latest, Reread)
    <3>1. \A e \in Reread : Latest'[e] = Latest[e]
      BY <1>2, <1>5 DEF Latest
    <3> QED
      BY <3>1, SumSame
  <2>5. Latest'[d] = r
    BY <1>1, <1>4 DEF Latest
  <2>6. SumOf(Latest', Reread \cup {d}) = SumOf(Latest, Reread) + r
    BY <1>2, <1>3, <2>3, <2>4, <2>5, SumAdd
  <2>7. SumOf(Latest, Reread) \in Int /\ r \in Int /\ sum \in Int
    <3>1. SumOf(Latest, Reread) \in Int
      BY <2>3, SumType
    <3>2. sum \in Values
      BY NetTypes
    <3> QED
      BY <1>3, <3>1, <3>2, ValuesType
  <2>8. Congruent(sum, SumOf(Latest, Reread))
    BY <2>1, <2>7, ModCongruent
  <2>9. Congruent(sum + r, SumOf(Latest, Reread) + r)
    BY <2>7, <2>8, CongruentRefl, CongruentAdd
  <2>10. (sum + r) % Word = (SumOf(Latest, Reread) + r) % Word
    BY <2>7, <2>9, CongruentMod
  <2>11. sum' = SumOf(Latest', Reread') % Word
    BY <1>1, <1>2, <2>6, <2>10
  <2> QED
    BY <1>1, <2>2, <2>11 DEF SumInv
<1>7. LastInv'
  <2> SUFFICES ASSUME Len(total) >= 1 PROVE LastInv'
    BY <1>1 DEF LastInv
  <2>1. /\ IsFiniteSet(total[1].of)
        /\ \A e \in total[1].of : Len(perDevice[e]) >= (IF e \in Reread THEN 2 ELSE 1)
        /\ total[1].value = SumOf(Counted, total[1].of) % Word
    BY DEF NetInv, LastInv
  <2>2. total[1].of \subseteq Names
    BY NetTypes
  <2>3. ASSUME NEW e \in total[1].of
        PROVE  /\ Len(perDevice'[e]) >= (IF e \in Reread' THEN 2 ELSE 1)
               /\ Counted'[e] = Counted[e]
    <3>1. e \in Names /\ Len(perDevice[e]) \in Nat
      BY <2>2, NetTypes
    <3>2. CASE e = d
      <4>1. Len(perDevice[d]) >= 1
        BY <1>2, <2>1, <3>2
      <4>2. Len(perDevice'[d]) = 2
        BY <1>4, <4>1
      <4> QED
        BY <1>1, <1>2, <1>4, <3>2, <4>2 DEF Counted
    <3>3. CASE e # d
      BY <1>2, <1>5, <2>1, <3>1, <3>3 DEF Counted
    <3> QED
      BY <3>2, <3>3
  <2>4. SumOf(Counted', total[1].of) = SumOf(Counted, total[1].of)
    BY <2>3, SumSame
  <2> QED
    BY <1>1, <2>1, <2>3, <2>4 DEF LastInv
<1>8. BothInv'
  BY <1>1 DEF BothInv
<1> QED
  BY <1>6, <1>7, <1>8

\* The end of a collect: every interface has been read, and what the total
\* before counted are the previous measurements.
LEMMA NetCollectEndInv ==
  ASSUME DevicesTypeOK, NetInv, NetCollectEnd
  PROVE  NetInv'
<1> SUFFICES ASSUME collector = "net" PROVE SumInv' /\ LastInv' /\ BothInv'
  BY DEF NetInv, NetCollectEnd
<1>1. /\ UNCHANGED <<collector, listed, unread, sum, perDevice>> /\ AddTotal(sum)
      /\ stage = "reading" /\ stage' = "idle" /\ Reread = listed /\ Reread' = {}
  BY DEF NetCollectEnd, Reread
<1>2. sum \in Values /\ IsFiniteSet(listed) /\ listed \subseteq Names
  BY NetTypes
<1>3. /\ Len(total') = (IF Len(total) = 0 THEN 1 ELSE 2)
      /\ total'[1] = [value |-> sum, of |-> listed, at |-> ios]
      /\ Len(total') = 2 => Len(total) >= 1 /\ total'[2] = total[1]
  BY <1>1, <1>2, AddTotalType
<1>4. total'[1].value = sum /\ total'[1].of = listed
  BY <1>3
<1>5. SumInv /\ LastInv
  BY DEF NetInv
<1>6. (\A d \in listed : Len(perDevice[d]) >= 1) /\ sum = SumOf(Latest, listed) % Word
  BY <1>1, <1>5 DEF SumInv
<1>7. SumInv'
  BY <1>1 DEF SumInv
<1>8. LastInv'
  <2>1. \A d \in listed : Counted'[d] = Latest[d]
    BY <1>1, <1>2 DEF Counted, Latest
  <2>2. SumOf(Counted', listed) = SumOf(Latest, listed)
    BY <2>1, SumSame
  <2> QED
    BY <1>1, <1>2, <1>4, <1>6, <2>2 DEF LastInv
<1>9. BothInv'
  <2> SUFFICES ASSUME Len(total') = 2, total'[2].of = total'[1].of
               PROVE  /\ \A d \in listed : Len(perDevice[d]) = 2
                      /\ total'[2].value = SumOf(Previous, listed) % Word
    BY <1>1, <1>4 DEF BothInv, Previous
  <2>1. Len(total) >= 1 /\ total'[2] = total[1] /\ total[1].of = listed
    BY <1>3, <1>4
  <2>2. /\ \A d \in listed : Len(perDevice[d]) >= 2
        /\ total[1].value = SumOf(Counted, listed) % Word
    BY <1>1, <1>5, <2>1 DEF LastInv
  <2>3. \A d \in listed : Len(perDevice[d]) <= 2 /\ Len(perDevice[d]) \in Nat
    BY <1>2, NetTypes
  <2>4. \A d \in listed : Counted[d] = Previous[d]
    BY <1>1, <1>2 DEF Counted, Previous
  <2>5. SumOf(Counted, listed) = SumOf(Previous, listed)
    BY <2>4, SumSame
  <2>6. ASSUME NEW d \in listed PROVE Len(perDevice[d]) = 2
    <3>1. Len(perDevice[d]) <= 2 /\ Len(perDevice[d]) >= 2 /\ Len(perDevice[d]) \in Nat
      BY <2>2, <2>3
    <3>2. \A n \in Nat : n <= 2 /\ n >= 2 => n = 2
      OBVIOUS
    <3> QED
      BY <3>1, <3>2, Zenon
  <2>7. total'[2].value = SumOf(Previous, listed) % Word
    BY <2>1, <2>2, <2>5
  <2> QED
    BY <2>6, <2>7
<1> QED
  BY <1>7, <1>8, <1>9

----------------------------------------------------------------------------
(* The disks.                                                              *)

LEMMA DiskUnchanged ==
  ASSUME DiskInv, UNCHANGED <<collector, present, count, ios, calm, plain, total>>
  PROVE  DiskInv'
BY DEF DiskInv, Counters, Considered, Lag

LEMMA LagType ==
  ASSUME DevicesTypeOK
  PROVE  /\ Len(total) >= 1 => Lag(total[1]) \in Int
         /\ Len(total) = 2 => Lag(total[2]) \in Int
         /\ Counters(Considered) \in Int /\ ios \in Int
         /\ Considered \subseteq Names /\ IsFiniteSet(Considered)
<1>1. total \in Seq(Totals)
  BY DEF DevicesTypeOK, Totals, Values
<1>2. \A t \in Totals : Lag(t) \in Int
  BY DevicesAssumption DEF Totals, Lag, Values
<1>3. Len(total) >= 1 => total[1] \in Totals
  BY <1>1
<1>4. Len(total) = 2 => total[2] \in Totals
  BY <1>1
<1>5. Considered \in SUBSET present /\ present \subseteq Names /\ IsFiniteSet(present)
  BY DEF Considered, DevicesTypeOK, Own, Names
<1>6. IsFiniteSet(Considered)
  BY <1>5, FS_Subset
<1>7. Counters(Considered) \in Int /\ ios \in Int
  BY <1>6, CountersType, ValuesType DEF DevicesTypeOK, Values
<1> QED
  BY <1>2, <1>3, <1>4, <1>5, <1>6, <1>7

\* Plain I/O is counted on one disk of those that count, and on the whole
\* device of a partition, which does not count.
LEMMA IOCounted ==
  ASSUME DevicesTypeOK, NEW d \in Names, IO(d), plain' # 0
  PROVE  Congruent(Counters(Considered)' - ios', Counters(Considered) - ios)
<1>0. PICK route \in Routes(d) :
        /\ count' = [e \in Names |-> IF e \in route THEN (count[e] + 1) % Word
                                                  ELSE count[e]]
        /\ plain' = IF Plain(d, route) THEN plain ELSE 0
  BY DEF IO
<1>1. /\ d \in present /\ UNCHANGED present /\ ios' = (ios + 1) % Word
      /\ d \in route /\ Plain(d, route)
  BY <1>0 DEF IO, Routes
<1>2. Considered' = Considered /\ d \in Considered
  BY <1>1 DEF Considered, Plain
<1>3. \A e \in Considered \ {d} : count'[e] = count[e]
  <2>1. \A e \in Considered \ {d} : e \in Names /\ <<e, d>> \notin Longer
    BY <1>1, LagType DEF Considered
  <2>2. \A e \in Considered \ {d} : e \notin route
    BY <1>1, <2>1, DevicesAssumption DEF Plain, Whole
  <2> QED
    BY <1>0, <2>1, <2>2
<1>4. count[d] \in Values /\ count[d] \in Int /\ count[d] + 1 \in Int
  BY ValuesType DEF DevicesTypeOK, Values
<1>5. count'[d] = (count[d] + 1) % Word
  BY <1>0, <1>1
<1>6. count'[d] \in Values /\ count'[d] \in Int /\ Congruent(count'[d], count[d] + 1)
  BY <1>4, <1>5, ModCongruent, ValuesType
<1>7. IsFiniteSet(Considered)
  BY LagType
<1>8. SumOf(count', Considered) = SumOf(count, Considered) - count[d] + count'[d]
  BY <1>2, <1>3, <1>4, <1>6, <1>7, SumChange
<1>9. SumOf(count', Considered) \in Int /\ SumOf(count, Considered) \in Int
  BY <1>7, SumType
<1> DEFINE s == SumOf(count, Considered)
           t == SumOf(count', Considered)
<1>9a. s \in Int /\ t \in Int /\ t = s - count[d] + count'[d]
  BY <1>8, <1>9
<1> HIDE DEF s, t
<1>10. Congruent(t, s + 1)
  <2>0. s - count[d] \in Int /\ Congruent(s - count[d], s - count[d])
    BY <1>4, <1>9a, CongruentRefl
  <2>1. Congruent((s - count[d]) + count'[d], (s - count[d]) + (count[d] + 1))
    BY <1>4, <1>6, <2>0, CongruentAdd
  <2>2. (s - count[d]) + count'[d] = t /\ (s - count[d]) + (count[d] + 1) = s + 1
    BY <1>4, <1>6, <1>9a
  <2> QED
    BY <2>1, <2>2
<1>11. /\ Counters(Considered)' = t % Word /\ Counters(Considered) = s % Word
       /\ t \in Int /\ s \in Int
  BY <1>2, <1>9a DEF Counters, s, t
<1>12. ios \in Int /\ ios' \in Int /\ Congruent(ios', ios + 1)
  <2>1. ios \in Int /\ ios + 1 \in Int
    BY LagType
  <2> QED
    BY <1>1, <2>1, ModCongruent, ValuesType
<1>13. t % Word \in Int /\ s % Word \in Int
  BY <1>11, ValuesType
<1>14. Congruent(t % Word, (s % Word) + 1)
  <2>1. Congruent(t % Word, t) /\ Congruent(s % Word, s)
    BY <1>11, ModCongruent
  <2>2. Congruent(t % Word, s + 1)
    BY <1>10, <1>11, <1>13, <2>1, CongruentTrans
  <2>3. Congruent((s % Word) + 1, s + 1)
    BY <1>11, <1>13, <2>1, CongruentRefl, CongruentAdd
  <2>4. Congruent(s + 1, (s % Word) + 1)
    BY <1>11, <1>13, <2>3, CongruentSym
  <2> QED
    BY <1>11, <1>13, <2>2, <2>4, CongruentTrans
<1>15. Congruent((t % Word) - ios', ((s % Word) + 1) - (ios + 1))
  BY <1>12, <1>13, <1>14, CongruentAdd
<1>16. ((s % Word) + 1) - (ios + 1) = (s % Word) - ios
  BY <1>12, <1>13
<1> QED
  BY <1>11, <1>15, <1>16


LEMMA DiskTotalsInv ==
  ASSUME DevicesTypeOK, DiskInv, DiskTotals
  PROVE  DiskInv'
<1> DEFINE now == Counters(Considered)
<1>1. /\ UNCHANGED <<collector, present, count, ios>> /\ AddTotal(now)
      /\ collector = "disk" /\ Counters(Considered)' = now
  BY DEF DiskTotals, Counters, Considered
<1>2. IsFiniteSet(Considered) /\ now \in Int /\ ios \in Int
  BY LagType
<1>3. now \in Values
  BY <1>2, CountersType
<1> HIDE DEF now
<1>4. /\ Len(total') >= 1
      /\ total'[1] = [value |-> now, of |-> listed, at |-> ios]
      /\ Len(total') = 2 => Len(total) >= 1 /\ total'[2] = total[1]
      /\ calm' = (IF calm < 2 THEN calm + 1 ELSE 2) /\ calm \in 0..2
      /\ plain' = (IF plain < 2 THEN plain + 1 ELSE 2) /\ plain \in 0..2
  BY <1>1, <1>3, AddTotalType DEF DevicesTypeOK
<1>5. Lag(total'[1]) = now - ios
  BY <1>4 DEF Lag
<1>6. Congruent(now - ios', Lag(total'[1]))
  BY <1>1, <1>2, <1>5, CongruentRefl
<1>7. ASSUME calm' = 2, plain' = 2, Len(total') = 2
      PROVE  Congruent(Lag(total'[1]), Lag(total'[2]))
  <2>1. calm >= 1 /\ plain >= 1 /\ Len(total) >= 1 /\ total'[2] = total[1]
    BY <1>4, <1>7
  <2>2. Congruent(Counters(Considered) - ios, Lag(total[1]))
    BY <1>1, <2>1 DEF DiskInv
  <2> QED
    BY <1>5, <2>1, <2>2 DEF now
<1>8. Congruent(Counters(Considered)' - ios', Lag(total[1])')
  BY <1>1, <1>6 DEF Lag
<1>9. calm' = 2 /\ plain' = 2 /\ Len(total') = 2 => Congruent(Lag(total[1])', Lag(total[2])')
  BY <1>7 DEF Lag
<1> QED
  BY <1>4, <1>8, <1>9 DEF DiskInv

\* After a device came or went nothing is known.
LEMMA PluggedInv ==
  ASSUME DiskInv, NEW d, Plug(d) \/ Unplug(d)
  PROVE  DiskInv'
BY DEF Plug, Unplug, DiskInv

LEMMA IOInv ==
  ASSUME DevicesTypeOK, DevicesTypeOK', DiskInv, NEW d \in Names, IO(d)
  PROVE  DiskInv'
<1>1. UNCHANGED <<collector, calm, total>> /\ (plain' = plain \/ plain' = 0)
  BY DEF IO
<1>0. CASE plain' = 0
  BY <1>0 DEF DiskInv
<1> SUFFICES ASSUME collector = "disk", plain' = plain, plain' # 0
             PROVE  /\ calm >= 1 /\ plain >= 1 =>
                         /\ Len(total) >= 1
                         /\ Congruent(Counters(Considered)' - ios', Lag(total[1]))
                    /\ calm = 2 /\ plain = 2 /\ Len(total) = 2 =>
                         Congruent(Lag(total[1]), Lag(total[2]))
  BY <1>0, <1>1 DEF DiskInv, Lag
<1>2. Congruent(Counters(Considered)' - ios', Counters(Considered) - ios)
  BY IOCounted
<1>3. /\ Counters(Considered) - ios \in Int
      /\ Len(total) >= 1 => Lag(total[1]) \in Int
  BY LagType
<1>4. Counters(Considered)' - ios' \in Int
  <2>1. Considered' \subseteq present' /\ IsFiniteSet(present') /\ ios' \in Int
    BY DevicesAssumption DEF Considered, DevicesTypeOK
  <2>2. IsFiniteSet(Considered')
    BY <2>1, FS_Subset
  <2>3. SumOf(count', Considered') \in Int
    BY <2>2, SumType
  <2>4. Counters(Considered)' \in Int
    BY <2>3, ValuesType DEF Counters
  <2> QED
    BY <2>1, <2>4
<1>5. ASSUME calm >= 1, plain >= 1
      PROVE  /\ Len(total) >= 1
             /\ Congruent(Counters(Considered)' - ios', Lag(total[1]))
  <2>1. Len(total) >= 1 /\ Congruent(Counters(Considered) - ios, Lag(total[1]))
    BY <1>5 DEF DiskInv
  <2> QED
    BY <1>2, <1>3, <1>4, <2>1, CongruentTrans
<1>6. calm = 2 /\ plain = 2 /\ Len(total) = 2 => Congruent(Lag(total[1]), Lag(total[2]))
  BY DEF DiskInv
<1> QED
  BY <1>5, <1>6

----------------------------------------------------------------------------
(* The theorems.                                                           *)

LEMMA DevicesNextInv == DevicesInv /\ [DevicesNext]_deviceVars => DevicesInv'
<1> SUFFICES ASSUME DevicesInv, [DevicesNext]_deviceVars PROVE DevicesInv'
  OBVIOUS
<1>1. DevicesTypeOK /\ Stages /\ NetInv /\ DiskInv
  BY DEF DevicesInv
<1>2. CASE DeviceStep
  <2>1. DevicesTypeOK' /\ Stages'
    BY <1>1, <1>2, DeviceStepType
  <2>2. PICK d \in Own : Plug(d) \/ Unplug(d) \/ IO(d)
    BY <1>2 DEF DeviceStep
  <2>3. NetInv'
    BY <1>1, <2>2, NetUnchanged DEF Plug, Unplug, IO, netVars
  <2>4. d \in Names
    BY DEF Own, Names
  <2>5. DiskInv'
    BY <1>1, <2>1, <2>2, <2>4, PluggedInv, IOInv
  <2> QED
    BY <2>1, <2>3, <2>5 DEF DevicesInv
<1>3. CASE \/ NetLookup \/ NetCollectStart \/ NetCollectEnd
           \/ \E d \in Interfaces : NetRead(d)
  <2>1. DevicesTypeOK' /\ Stages'
    BY <1>1, <1>3, CollectType
  <2>2. NetInv'
    BY <1>1, <1>3, NetLookupInv, NetCollectStartInv, NetCollectEndInv, NetReadInv
  <2>3. DiskInv'
    <3>1. CASE NetCollectEnd
      <4>1. collector' = "net"
        BY <1>1, <3>1 DEF NetCollectEnd, Stages, DevicesTypeOK
      <4> QED
        BY <4>1 DEF DiskInv
    <3>2. CASE ~NetCollectEnd
      <4>1. UNCHANGED <<collector, present, count, ios, calm, plain, total>>
        BY <1>3, <3>2 DEF NetLookup, NetCollectStart, NetRead
      <4> QED
        BY <1>1, <4>1, DiskUnchanged
    <3> QED
      BY <3>1, <3>2
  <2> QED
    BY <2>1, <2>2, <2>3 DEF DevicesInv
<1>4. CASE DiskTotals \/ DiskDevices
  <2>1. DevicesTypeOK' /\ Stages'
    BY <1>1, <1>4, CollectType
  <2>2. collector' = "disk"
    BY <1>1, <1>4 DEF DiskTotals, DiskDevices, Stages, DevicesTypeOK
  <2>3. NetInv'
    BY <2>2 DEF NetInv
  <2>4. DiskInv'
    <3>1. CASE DiskTotals
      BY <1>1, <3>1, DiskTotalsInv
    <3>2. CASE DiskDevices
      BY <1>1, <3>2, DiskUnchanged DEF DiskDevices
    <3> QED
      BY <1>4, <3>1, <3>2
  <2> QED
    BY <2>1, <2>3, <2>4 DEF DevicesInv
<1>5. CASE UNCHANGED deviceVars
  <2>1. DevicesTypeOK' /\ Stages'
    BY <1>1, <1>5 DEF deviceVars, DevicesTypeOK, Stages, Own
  <2>2. NetInv' /\ DiskInv'
    BY <1>1, <1>5, NetUnchanged, DiskUnchanged DEF deviceVars, netVars
  <2> QED
    BY <2>1, <2>2 DEF DevicesInv
<1> QED
  BY <1>2, <1>3, <1>4, <1>5 DEF DevicesNext

(* The totals, the sum under way and the series fit together in every      *)
(* state, for any devices and any width of the counters.                   *)
THEOREM DevicesInvariant == DevicesSpec => []DevicesInv
BY DevicesInitInv, DevicesNextInv, PTL DEF DevicesSpec

(* Every series has at most two measurements, every counter stays in its   *)
(* width, and a collect reads interfaces of the list only.                 *)
THEOREM DevicesTyped == DevicesSpec => []DevicesTypeOK
<1>1. DevicesInv => DevicesTypeOK
  BY DEF DevicesInv
<1> QED
  BY <1>1, DevicesInvariant, PTL

(* The total's rate is the sum of the interfaces' rates, for any number of *)
(* interfaces and whichever of them come, go and start again from zero.    *)
THEOREM TotalIsSum == DevicesSpec => []SumOfParts
<1>1. DevicesInv => SumOfParts
  <2> SUFFICES ASSUME DevicesInv, collector = "net", stage = "idle", Len(total) = 2,
                      total[2].of = total[1].of
               PROVE  Diff(total[1].value, total[2].value) =
                        SumOf([d \in total[1].of |-> Rate(d)], total[1].of) % Word
    BY DEF SumOfParts
  <2> DEFINE S == total[1].of
             rates == [d \in S |-> Rate(d)]
             new == SumOf(Latest, S)
             last == SumOf(Previous, S)
  <2>1. DevicesTypeOK /\ LastInv /\ BothInv /\ Reread = {}
    BY DEF DevicesInv, NetInv, Reread
  <2>2. S \subseteq Names /\ IsFiniteSet(S)
    BY <2>1, NetTypes DEF LastInv
  <2>3. total[1].value = SumOf(Counted, S) % Word
    BY <2>1 DEF LastInv
  <2>4. (\A d \in S : Len(perDevice[d]) = 2) /\ total[2].value = last % Word
    BY <2>1 DEF BothInv
  <2>5. SumOf(Counted, S) = new
    <3>1. \A d \in S : Counted[d] = Latest[d]
      BY <2>1, <2>2 DEF Counted, Latest
    <3> QED
      BY <3>1, SumSame
  <2>6. new \in Int /\ last \in Int /\ SumOf(rates, S) \in Int
    BY <2>2, SumType
  <2>7. \A d \in S : /\ Latest[d] \in Values /\ Previous[d] \in Values
                     /\ rates[d] = (Latest[d] - Previous[d]) % Word
    <3> SUFFICES ASSUME NEW d \in S
                 PROVE  /\ Latest[d] \in Values /\ Previous[d] \in Values
                        /\ rates[d] = (Latest[d] - Previous[d]) % Word
      OBVIOUS
    <3>1. d \in Names /\ perDevice[d] \in Seq(Values) /\ Len(perDevice[d]) = 2
      BY <2>1, <2>2, <2>4, NetTypes
    <3>2. perDevice[d][1] \in Values /\ perDevice[d][2] \in Values
      BY <3>1
    <3> QED
      BY <3>1, <3>2 DEF Latest, Previous, Rate, Diff
  <2> HIDE DEF rates
  <2>8. Congruent(SumOf(rates, S), new - last)
    BY <2>2, <2>7, SumOfDifferences
  <2> HIDE DEF new, last
  <2>9. /\ new % Word \in Int /\ last % Word \in Int
        /\ Congruent(new % Word, new) /\ Congruent(last % Word, last)
    BY <2>6, ModCongruent, ValuesType
  <2>10. Congruent((new % Word) - (last % Word), new - last)
    BY <2>6, <2>9, CongruentAdd
  <2>11. Congruent(new - last, SumOf(rates, S))
    BY <2>6, <2>8, CongruentSym
  <2>12. Congruent((new % Word) - (last % Word), SumOf(rates, S))
    BY <2>6, <2>9, <2>10, <2>11, CongruentTrans
  <2>13. ((new % Word) - (last % Word)) % Word = SumOf(rates, S) % Word
    BY <2>6, <2>9, <2>12, CongruentMod
  <2> QED
    BY <2>3, <2>4, <2>5, <2>13 DEF Diff, rates
<1> QED
  BY <1>1, DevicesInvariant, PTL

(* As long as no device comes or goes, the host's disk rates count every   *)
(* I/O once if all I/O is on disks and partitions that no other device is  *)
(* named after and that are not stacked on others, whichever devices there *)
(* are besides, and when the counters wrap around.                         *)
THEOREM EveryIOOnce == DevicesSpec => []TotalIsIO
<1>1. DevicesInv => TotalIsIO
  <2> SUFFICES ASSUME DevicesInv, collector = "disk", calm = 2, plain = 2, Len(total) = 2
               PROVE  Diff(total[1].value, total[2].value) = Diff(total[1].at, total[2].at)
    BY DEF TotalIsIO
  <2>1. DevicesTypeOK /\ Congruent(Lag(total[1]), Lag(total[2]))
    BY DEF DevicesInv, DiskInv
  <2>2. total[1] \in Totals /\ total[2] \in Totals
    <3>1. total \in Seq(Totals) /\ Len(total) = 2
      BY <2>1, NetTypes
    <3> QED
      BY <3>1
  <2>3. /\ total[1].value \in Int /\ total[1].at \in Int
        /\ total[2].value \in Int /\ total[2].at \in Int
    BY <2>2, ValuesType DEF Totals
  <2> DEFINE v == total[1].value
             w == total[2].value
             a == total[1].at
             b == total[2].at
  <2>4. Congruent(v - a, w - b)
    BY <2>1 DEF Lag
  <2> HIDE DEF v, w, a, b
  <2>5. v \in Int /\ w \in Int /\ a \in Int /\ b \in Int
    BY <2>3 DEF v, w, a, b
  <2>6. a - w \in Int /\ Congruent(a - w, a - w)
    BY <2>5, CongruentRefl
  <2>7. Congruent((v - a) + (a - w), (w - b) + (a - w))
    BY <2>4, <2>5, <2>6, CongruentAdd
  <2>8. (v - a) + (a - w) = v - w /\ (w - b) + (a - w) = a - b
    BY <2>5
  <2>9. Congruent(v - w, a - b)
    BY <2>7, <2>8
  <2>10. (v - w) % Word = (a - b) % Word
    BY <2>5, <2>9, CongruentMod
  <2> QED
    BY <2>10 DEF Diff, v, w, a, b
<1> QED
  BY <1>1, DevicesInvariant, PTL

=============================================================================
