--------------------------- MODULE PrintingProofs ---------------------------
(***************************************************************************)
(* Printing: the ncurses printer, for any fields, VMs and keys, and the    *)
(* rows of a printing cycle, for any VMs and any sequence of collectors.   *)
(***************************************************************************)
EXTENDS NcursesUI, PrintCycle, FiniteSetTheorems, SequenceTheorems, TLAPS

----------------------------------------------------------------------------
(* Places: the members of a finite set of indices, in order.               *)

LEMMA PlaceType ==
  ASSUME NEW K, IsFiniteSet(K), K \subseteq Nat, NEW i \in K
  PROVE  Place(i, K) \in 1..Cardinality(K)
<1> DEFINE low == {j \in K : j <= i}
<1>1. IsFiniteSet(low) /\ Cardinality(low) <= Cardinality(K)
  BY FS_Subset
<1>2. Cardinality(low) \in Nat /\ Cardinality(K) \in Nat
  BY <1>1, FS_CardinalityType
<1>3. i \in low
  OBVIOUS
<1>4. Cardinality(low) # 0
  BY <1>1, <1>3, FS_EmptySet
<1> QED
  BY <1>1, <1>2, <1>4 DEF Place

LEMMA PlaceMonotone ==
  ASSUME NEW K, IsFiniteSet(K), K \subseteq Nat,
         NEW i \in K, NEW j \in K, i < j
  PROVE  Place(i, K) < Place(j, K)
<1> DEFINE low == {k \in K : k <= i}
           high == {k \in K : k <= j}
<1>1. IsFiniteSet(high)
  BY FS_Subset
<1>2. low \subseteq high /\ j \in high /\ j \notin low
  <2>1. i \in Nat /\ j \in Nat /\ \A k \in K : k \in Nat
    OBVIOUS
  <2>2. \A k \in K : k <= i => k <= j
    <3> SUFFICES ASSUME NEW k \in K, k <= i PROVE k <= j
      OBVIOUS
    <3>1. k \in Nat
      OBVIOUS
    <3> QED
      BY <2>1, <3>1
  <2>3. j <= j /\ ~(j <= i)
    BY <2>1
  <2> QED
    BY <2>2, <2>3
<1>3. /\ IsFiniteSet(low) /\ Cardinality(low) <= Cardinality(high)
      /\ Cardinality(low) = Cardinality(high) => low = high
  BY <1>1, <1>2, FS_Subset
<1>4. Cardinality(low) \in Nat /\ Cardinality(high) \in Nat
  BY <1>1, <1>3, FS_CardinalityType
<1> QED
  BY <1>2, <1>3, <1>4 DEF Place

(* Each place is that of exactly one member.                               *)
LEMMA PlaceOnto ==
  ASSUME NEW K, IsFiniteSet(K), K \subseteq Nat
  PROVE  /\ \A i, j \in K : Place(i, K) = Place(j, K) => i = j
         /\ \A n \in 1..Cardinality(K) : \E i \in K : Place(i, K) = n
<1>1. \A i, j \in K : Place(i, K) = Place(j, K) => i = j
  <2> SUFFICES ASSUME NEW i \in K, NEW j \in K, i # j
               PROVE  Place(i, K) # Place(j, K)
    OBVIOUS
  <2>1. Place(i, K) \in Int /\ Place(j, K) \in Int
    <3>1. Cardinality(K) \in Nat
      BY FS_CardinalityType
    <3>2. \A k \in K : Place(k, K) \in 1..Cardinality(K)
      BY PlaceType
    <3> QED
      BY <3>1, <3>2
  <2>2. i < j \/ j < i
    <3>1. i \in Nat /\ j \in Nat
      OBVIOUS
    <3> QED
      BY <3>1
  <2> QED
    <3>1. \A k, l \in K : k < l => Place(k, K) < Place(l, K)
      BY PlaceMonotone
    <3> QED
      BY <2>1, <2>2, <3>1
<1> DEFINE places == 1..Cardinality(K)
           f == [i \in K |-> Place(i, K)]
<1>2. IsFiniteSet(places) /\ Cardinality(places) = Cardinality(K)
  BY FS_CardinalityType, FS_Interval
<1>3. f \in [K -> places]
  BY PlaceType
<1>4. f \in Injection(K, places)
  BY <1>1, <1>3 DEF Injection, IsInjective
<1>5. f \in Surjection(K, places)
  BY <1>2, <1>4, FS_Injection
<1> QED
  BY <1>1, <1>5 DEF Surjection

LEMMA IntervalSize ==
  ASSUME NEW n \in Nat
  PROVE  IsFiniteSet(1..n) /\ Cardinality(1..n) = n
BY FS_Interval

LEMMA SomeIndices ==
  ASSUME NEW s, s \in Seq(ToSet(s)), NEW indices, indices \subseteq DOMAIN s
  PROVE  /\ DOMAIN s = 1..Len(s) /\ Len(s) \in Nat
         /\ IsFiniteSet(indices) /\ indices \subseteq Nat
         /\ Cardinality(indices) \in 0..Len(s)
<1>1. DOMAIN s = 1..Len(s) /\ Len(s) \in Nat
  OBVIOUS
<1>2. IsFiniteSet(1..Len(s)) /\ Cardinality(1..Len(s)) = Len(s)
  BY <1>1, IntervalSize
<1>3. IsFiniteSet(indices) /\ Cardinality(indices) <= Len(s)
  BY <1>1, <1>2, FS_Subset
<1>4. Cardinality(indices) \in Nat
  BY <1>3, FS_CardinalityType
<1> QED
  BY <1>1, <1>3, <1>4

(* What Pick gives: the elements at the indices, each at its place.        *)
LEMMA PickSpec ==
  ASSUME NEW s, s \in Seq(ToSet(s)), NEW indices, indices \subseteq DOMAIN s
  PROVE  /\ DOMAIN Pick(s, indices) = 1..Cardinality(indices)
         /\ Len(Pick(s, indices)) = Cardinality(indices)
         /\ \A i \in indices :
              /\ Place(i, indices) \in 1..Cardinality(indices)
              /\ Pick(s, indices)[Place(i, indices)] = s[i]
         /\ \A n \in 1..Cardinality(indices) :
              \E i \in indices : Place(i, indices) = n /\ Pick(s, indices)[n] = s[i]
         /\ Pick(s, indices) \in Seq(ToSet(s))
         /\ Pick(s, indices) \in Seq(ToSet(Pick(s, indices)))
<1> DEFINE t == Pick(s, indices)
           chosen(n) == CHOOSE i \in indices : Place(i, indices) = n
<1>1. /\ IsFiniteSet(indices) /\ indices \subseteq Nat /\ Cardinality(indices) \in Nat
  BY SomeIndices
<1>2. t = [n \in 1..Cardinality(indices) |-> s[chosen(n)]]
  BY DEF Pick
<1>3. \A n \in 1..Cardinality(indices) :
        chosen(n) \in indices /\ Place(chosen(n), indices) = n
  BY <1>1, PlaceOnto
<1>4. \A i \in indices : Place(i, indices) \in 1..Cardinality(indices)
                         /\ chosen(Place(i, indices)) = i
  BY <1>1, <1>3, PlaceOnto, PlaceType
<1> HIDE DEF t, chosen
<1>5. DOMAIN t = 1..Cardinality(indices)
  BY <1>2
<1>6. \A i \in indices : Place(i, indices) \in 1..Cardinality(indices)
                         /\ t[Place(i, indices)] = s[i]
  BY <1>2, <1>4
<1>7. \A n \in 1..Cardinality(indices) :
        \E i \in indices : Place(i, indices) = n /\ t[n] = s[i]
  BY <1>2, <1>3
<1>8. \A n \in DOMAIN t : t[n] \in ToSet(s)
  BY <1>5, <1>7 DEF ToSet
<1>9. t \in Seq(ToSet(s)) /\ t \in Seq(ToSet(t)) /\ Len(t) = Cardinality(indices)
  <2>1. t \in [1..Cardinality(indices) -> ToSet(s)]
    BY <1>2, <1>5, <1>8
  <2>2. t \in [1..Cardinality(indices) -> ToSet(t)]
    BY <1>2, <1>5 DEF ToSet
  <2> QED
    BY <1>1, <2>1, <2>2
<1> QED
  BY <1>1, <1>5, <1>6, <1>7, <1>9 DEF t

(* Picking the first indices takes a prefix.                               *)
LEMMA PickPrefix ==
  ASSUME NEW s, s \in Seq(ToSet(s)), NEW m \in 0..Len(s)
  PROVE  /\ DOMAIN Pick(s, 1..m) = 1..m /\ Len(Pick(s, 1..m)) = m
         /\ \A i \in 1..m : Pick(s, 1..m)[i] = s[i]
         /\ Pick(s, 1..m) \in Seq(ToSet(s))
<1>1. DOMAIN s = 1..Len(s) /\ Len(s) \in Nat /\ m \in Nat
  OBVIOUS
<1>2. \A i \in 1..m : Place(i, 1..m) = i
  <2> SUFFICES ASSUME NEW i \in 1..m PROVE Place(i, 1..m) = i
    OBVIOUS
  <2>1. {j \in 1..m : j <= i} = 1..i
    BY <1>1
  <2>2. i \in Nat /\ i > 0
    BY <1>1
  <2>3. Cardinality(1..i) = i
    BY <2>2, IntervalSize
  <2> QED
    BY <2>1, <2>3 DEF Place
<1>3. Cardinality(1..m) = m
  BY <1>1, IntervalSize
<1>4. 1..m \subseteq DOMAIN s
  BY <1>1
<1>5. /\ DOMAIN Pick(s, 1..m) = 1..Cardinality(1..m)
      /\ Len(Pick(s, 1..m)) = Cardinality(1..m)
      /\ Pick(s, 1..m) \in Seq(ToSet(s))
  BY <1>4, PickSpec
<1>6. \A i \in 1..m : Pick(s, 1..m)[Place(i, 1..m)] = s[i]
  <2>1. PICK K : K = 1..m
    OBVIOUS
  <2>2. \A i \in K : Pick(s, K)[Place(i, K)] = s[i]
    <3>1. K \subseteq DOMAIN s
      BY <1>4, <2>1
    <3> QED
      BY <3>1, PickSpec
  <2> QED
    BY <2>1, <2>2
<1> QED
  BY <1>2, <1>3, <1>5, <1>6

(* Picking every index changes nothing.                                    *)
LEMMA PickAll ==
  ASSUME NEW s, s \in Seq(ToSet(s))
  PROVE  Pick(s, DOMAIN s) = s
<1>1. DOMAIN s = 1..Len(s) /\ Len(s) \in 0..Len(s)
  OBVIOUS
<1>2. /\ DOMAIN Pick(s, 1..Len(s)) = 1..Len(s)
      /\ \A i \in 1..Len(s) : Pick(s, 1..Len(s))[i] = s[i]
      /\ Pick(s, 1..Len(s)) \in Seq(ToSet(s))
  BY <1>1, PickPrefix
<1> QED
  BY <1>1, <1>2

LEMMA FirstPlaces ==
  ASSUME NEW K, K \subseteq Nat \ {0}, 1 \in K, 2 \in K
  PROVE  Place(1, K) = 1 /\ Place(2, K) = 2
<1>1. {j \in K : j <= 1} = 1..1 /\ {j \in K : j <= 2} = 1..2
  <2>1. \A j \in K : j \in Nat /\ j # 0
    OBVIOUS
  <2>2. \A j : j \in 1..1 <=> j = 1
    OBVIOUS
  <2>3. \A j : j \in 1..2 <=> j = 1 \/ j = 2
    OBVIOUS
  <2>4. \A j \in K : (j <= 1 <=> j = 1) /\ (j <= 2 <=> j = 1 \/ j = 2)
    <3> SUFFICES ASSUME NEW j \in K
                 PROVE  (j <= 1 <=> j = 1) /\ (j <= 2 <=> j = 1 \/ j = 2)
      OBVIOUS
    <3>1. j \in Nat /\ j # 0
      BY <2>1
    <3> QED
      BY <3>1
  <2> QED
    BY <2>2, <2>3, <2>4, Zenon
<1>2. Cardinality(1..1) = 1 /\ Cardinality(1..2) = 2
  BY IntervalSize
<1> QED
  BY <1>1, <1>2 DEF Place

----------------------------------------------------------------------------
(* Columns.                                                                *)

LEMMA Tables ==
  /\ DomainFields \in Seq(ToSet(DomainFields)) /\ HostFields \in Seq(ToSet(HostFields))
  /\ NetDevFields \in Seq(ToSet(NetDevFields)) /\ DiskDevFields \in Seq(ToSet(DiskDevFields))
  /\ PerDisk \in Seq(ToSet(PerDisk))
BY FieldsAssumption

LEMMA WithDeviceShape ==
  ASSUME NEW S, NEW s \in Seq(S), Len(s) >= 2, Device \in S
  PROVE  /\ DOMAIN WithDevice(s) = 1..Len(s) + 1 /\ Len(WithDevice(s)) = Len(s) + 1
         /\ WithDevice(s)[1] = s[1] /\ WithDevice(s)[2] = s[2]
         /\ WithDevice(s)[3] = Device
         /\ \A i \in 4..Len(s) + 1 : WithDevice(s)[i] = s[i - 1]
         /\ WithDevice(s) \in Seq(S)
<1>1. Len(s) \in Nat /\ \A i \in 1..Len(s) : s[i] \in S
  OBVIOUS
<1>2. /\ SubSeq(s, 1, 2) \in Seq(S) /\ Len(SubSeq(s, 1, 2)) = 2
      /\ SubSeq(s, 1, 2)[1] = s[1] /\ SubSeq(s, 1, 2)[2] = s[2]
  BY <1>1
<1>3. /\ SubSeq(s, 3, Len(s)) \in Seq(S)
      /\ Len(SubSeq(s, 3, Len(s))) = Len(s) - 2
      /\ \A i \in 1..Len(s) - 2 : SubSeq(s, 3, Len(s))[i] = s[i + 2]
  <2>1. CASE Len(s) = 2
    <3>1. SubSeq(s, 3, Len(s)) = <<>>
      BY <1>1, <2>1, SubSeqEmpty
    <3> QED
      BY <2>1, <3>1
  <2>2. CASE Len(s) >= 3
    BY <1>1, <2>2
  <2>3. Len(s) = 2 \/ Len(s) >= 3
    <3>1. \A n \in Nat : n >= 2 => n = 2 \/ n >= 3
      OBVIOUS
    <3> QED
      BY <1>1, <3>1
  <2> QED
    BY <2>1, <2>2, <2>3, Zenon
<1>4. <<Device>> \in Seq(S) /\ Len(<<Device>>) = 1 /\ <<Device>>[1] = Device
  OBVIOUS
<1> QED
  BY <1>1, <1>2, <1>3, <1>4 DEF WithDevice

LEMMA VisibleShape ==
  ASSUME NEW u
  PROVE  /\ VisibleIndices(u) \subseteq DOMAIN DomainFields
         /\ 1 \in VisibleIndices(u) /\ 2 \in VisibleIndices(u)
         /\ Len(VisibleFields(u)) = Cardinality(VisibleIndices(u))
         /\ Cardinality(VisibleIndices(u)) \in 2..Len(DomainFields)
         /\ VisibleFields(u) \in Seq(ToSet(DomainFields))
         /\ VisibleFields(u) \in Seq(ToSet(VisibleFields(u)))
         /\ VisibleValues(u) = VisibleFields(u)
<1>1. /\ VisibleIndices(u) \subseteq DOMAIN DomainFields
      /\ 1 \in VisibleIndices(u) /\ 2 \in VisibleIndices(u)
  BY NcursesAssumption, Tables DEF VisibleIndices
<1>2. /\ Len(VisibleFields(u)) = Cardinality(VisibleIndices(u))
      /\ VisibleFields(u) \in Seq(ToSet(DomainFields))
      /\ VisibleFields(u) \in Seq(ToSet(VisibleFields(u)))
  BY <1>1, Tables, PickSpec DEF VisibleFields
<1>3. /\ IsFiniteSet(VisibleIndices(u)) /\ VisibleIndices(u) \subseteq Nat
      /\ Cardinality(VisibleIndices(u)) \in 0..Len(DomainFields)
  BY <1>1, Tables, SomeIndices
<1>4. Cardinality(VisibleIndices(u)) >= 2
  <2>1. Cardinality(1..2) <= Cardinality(VisibleIndices(u))
    BY <1>1, <1>3, FS_Subset
  <2>2. Cardinality(1..2) = 2
    BY IntervalSize
  <2> QED
    BY <2>1, <2>2
<1> QED
  BY <1>1, <1>2, <1>3, <1>4 DEF VisibleFields, VisibleValues

(* The header of an expanded view is not filtered any further: its fields  *)
(* are visible ones already.                                               *)
LEMMA HeaderWhole ==
  ASSUME NEW u, Expanded(u)
  PROVE  /\ KeepIndices(WithDevice(VisibleFields(u)), u.hidden)
              = 1..Len(VisibleFields(u)) + 1
         /\ Header(u) = WithDevice(VisibleFields(u))
<1> DEFINE V == VisibleIndices(u)
           f == VisibleFields(u)
<1>1. /\ V \subseteq DOMAIN DomainFields /\ 1 \in V /\ 2 \in V
      /\ f \in Seq(ToSet(f)) /\ Len(f) >= 2 /\ Len(f) = Cardinality(V)
  BY VisibleShape
<1>2. V \subseteq Nat \ {0} /\ Place(1, V) = 1 /\ Place(2, V) = 2
  <2>1. V \subseteq Nat \ {0}
    BY <1>1, Tables
  <2> QED
    BY <1>1, <2>1, FirstPlaces
<1>3. \A n \in 1..Cardinality(V) : \E i \in V : Place(i, V) = n /\ f[n] = DomainFields[i]
  <2>1. f = Pick(DomainFields, V)
    BY DEF VisibleFields
  <2>2. DomainFields \in Seq(ToSet(DomainFields)) /\ V \subseteq DOMAIN DomainFields
    BY <1>1, Tables
  <2> HIDE DEF f, V
  <2>3. \A n \in 1..Cardinality(V) :
          \E i \in V : Place(i, V) = n /\ Pick(DomainFields, V)[n] = DomainFields[i]
    BY <2>2, PickSpec
  <2> QED
    BY <2>1, <2>3
<1>4. \A n \in 3..Len(f) : f[n] \notin u.hidden
  <2> SUFFICES ASSUME NEW n \in 3..Len(f) PROVE f[n] \notin u.hidden
    OBVIOUS
  <2>1. PICK i \in V : Place(i, V) = n /\ f[n] = DomainFields[i]
    BY <1>1, <1>3
  <2>2. i # 1 /\ i # 2
    BY <1>2, <2>1
  <2>3. ~(i <= 2)
    BY <1>2, <2>2
  <2> QED
    BY <2>1, <2>3 DEF VisibleIndices
<1> HIDE DEF f, V
<1>5. /\ DOMAIN WithDevice(f) = 1..Len(f) + 1
      /\ \A i \in 4..Len(f) + 1 : WithDevice(f)[i] = f[i - 1]
      /\ WithDevice(f) \in Seq(ToSet(f) \cup {Device})
  <2>1. f \in Seq(ToSet(f) \cup {Device}) /\ Device \in ToSet(f) \cup {Device}
    BY <1>1
  <2> QED
    BY <1>1, <2>1, WithDeviceShape
<1>6. KeepIndices(WithDevice(f), u.hidden) = 1..Len(f) + 1
  <2>1. \A i \in 4..Len(f) + 1 : WithDevice(f)[i] \notin u.hidden
    BY <1>1, <1>4, <1>5
  <2>2. \A i \in 1..Len(f) + 1 : i <= 3 \/ i \in 4..Len(f) + 1
    BY <1>1
  <2> QED
    BY <1>5, <2>1, <2>2 DEF KeepIndices
<1>7. Pick(WithDevice(f), 1..Len(f) + 1) = WithDevice(f)
  <2>1. WithDevice(f) \in Seq(ToSet(WithDevice(f)))
    BY <1>5 DEF ToSet
  <2> QED
    BY <1>5, <2>1, PickAll
<1> QED
  BY <1>6, <1>7 DEF f, Header

----------------------------------------------------------------------------
(* The inductive invariant.                                                *)

Columns   == 0..MaxSort
Intervals == 1..MaxInterval
Cursors   == Nat
Lists     == Seq(Fields)
Hideable  == SUBSET (Fields \cup HiddenByDefault)

Settings ==
  [view : Views, sortColumn : Columns, ascending : BOOLEAN,
   interval : Intervals, human : BOOLEAN,
   help : BOOLEAN, helpDrawn : BOOLEAN,
   selector : BOOLEAN, selectorDrawn : BOOLEAN,
   cursor : Cursors, available : Lists, hidden : Hideable]

(* Between two calls of Screen an overlay is drawn exactly when it is the  *)
(* one on top, and the list the cursor moves in is then that of the view.  *)
Overlays(u) ==
  /\ u.helpDrawn <=> u.help
  /\ u.selectorDrawn <=> u.selector /\ ~u.help
  /\ u.selectorDrawn => u.available = SelectorFields(u)
  /\ u.cursor < Len(u.available) \/ u.cursor = 0
  /\ Len(u.available) <= Len(DomainFields) + Len(NetDevFields) + Len(DiskDevFields)

OnDomains(u) == ~u.help /\ ~u.selector /\ u.view \notin DeviceViews

(* The terminal is blank before the first call and after the last one; in  *)
(* between it shows the settings, and a domain table is sorted by one of   *)
(* its columns.                                                            *)
Shown ==
  \/ /\ terminal = Blank
     /\ running => ~ui.help /\ ~ui.selector
  \/ /\ terminal = Picture(ui)
     /\ paused = (ui.help \/ ui.selector)
     /\ OnDomains(ui) => ui.sortColumn < Len(Header(ui))

Inductive ==
  /\ ui \in Settings /\ paused \in BOOLEAN /\ running \in BOOLEAN
  /\ Overlays(ui) /\ Shown

LEMMA SelectorFieldsType ==
  ASSUME NEW u
  PROVE  /\ SelectorFields(u) \in Seq(Fields)
         /\ Len(SelectorFields(u))
              <= Len(DomainFields) + Len(NetDevFields) + Len(DiskDevFields)
<1>1. /\ Len(DomainFields) \in Nat /\ Len(NetDevFields) \in Nat
      /\ Len(DiskDevFields) \in Nat
  BY Tables
<1>2. /\ DomainFields \in Seq(ToSet(DomainFields)) /\ ToSet(DomainFields) \subseteq Fields
      /\ NetDevFields \in Seq(Fields) /\ DiskDevFields \in Seq(Fields)
  BY Tables DEF Fields
<1>3. CASE u.view = "physNet"
  <2>1. SelectorFields(u) = Tail(NetDevFields)
    BY <1>3 DEF SelectorFields
  <2>2. Tail(NetDevFields) \in Seq(Fields) /\ Len(Tail(NetDevFields)) = Len(NetDevFields) - 1
    BY <1>2, NcursesAssumption
  <2> QED
    BY <1>1, <2>1, <2>2
<1>4. CASE u.view \in DeviceViews \ {"physNet"}
  <2>1. SelectorFields(u) = Tail(DiskDevFields)
    BY <1>4 DEF SelectorFields
  <2>2. Tail(DiskDevFields) \in Seq(Fields) /\ Len(Tail(DiskDevFields)) = Len(DiskDevFields) - 1
    BY <1>2, NcursesAssumption
  <2> QED
    BY <1>1, <2>1, <2>2
<1>5. CASE u.view \notin DeviceViews
  <2> DEFINE mine == Members(DomainFields, u.view)
  <2>1. SelectorFields(u) = Pick(DomainFields, mine)
    BY <1>5 DEF SelectorFields, DeviceViews
  <2>2. mine \subseteq DOMAIN DomainFields
    BY DEF Members
  <2> HIDE DEF mine
  <2>3. /\ Pick(DomainFields, mine) \in Seq(ToSet(DomainFields))
        /\ Len(Pick(DomainFields, mine)) = Cardinality(mine)
    BY <1>2, <2>2, PickSpec
  <2>4. Cardinality(mine) \in 0..Len(DomainFields)
    BY <1>2, <2>2, SomeIndices
  <2>5. Pick(DomainFields, mine) \in Seq(Fields)
    BY <1>2, <2>3
  <2> QED
    BY <1>1, <2>1, <2>3, <2>4, <2>5
<1> QED
  BY <1>3, <1>4, <1>5

(* The updates of the handlers, one by one.                                *)
LEMMA SettingsUpdates ==
  ASSUME NEW u \in Settings
  PROVE  /\ \A x \in Columns : [u EXCEPT !.sortColumn = x] \in Settings
         /\ \A x \in Lists : [u EXCEPT !.available = x] \in Settings
         /\ \A x \in Cursors :
              /\ [u EXCEPT !.selectorDrawn = FALSE, !.cursor = x] \in Settings
              /\ [u EXCEPT !.cursor = x, !.selectorDrawn = TRUE] \in Settings
              /\ [u EXCEPT !.selector = TRUE, !.selectorDrawn = FALSE, !.cursor = x]
                   \in Settings
         /\ \A x \in Hideable :
              [u EXCEPT !.selectorDrawn = FALSE, !.hidden = x] \in Settings
         /\ [u EXCEPT !.helpDrawn = TRUE] \in Settings
         /\ [u EXCEPT !.helpDrawn = FALSE] \in Settings
         /\ [u EXCEPT !.help = ~@, !.helpDrawn = FALSE] \in Settings
         /\ [u EXCEPT !.helpDrawn = FALSE, !.selectorDrawn = FALSE] \in Settings
BY DEF Settings

LEMMA SelectorKeyCases ==
  ASSUME NEW u, NEW k
  PROVE  \/ SelectorKey(u, k) = [u EXCEPT !.selectorDrawn = FALSE, !.selector = FALSE]
         \/ /\ k = "up" /\ u.cursor > 0
            /\ SelectorKey(u, k)
                 = [u EXCEPT !.selectorDrawn = FALSE, !.cursor = @ - 1]
         \/ /\ k = "down" /\ u.cursor < Len(u.available) - 1
            /\ SelectorKey(u, k)
                 = [u EXCEPT !.selectorDrawn = FALSE, !.cursor = @ + 1]
         \/ /\ k = "toggle" /\ u.cursor < Len(u.available)
            /\ SelectorKey(u, k)
                 = [u EXCEPT !.selectorDrawn = FALSE,
                             !.hidden = ToggleMember(u.available[u.cursor + 1], u.hidden)]
         \/ SelectorKey(u, k) = [u EXCEPT !.selectorDrawn = FALSE]
         \/ SelectorKey(u, k) = u
BY DEF SelectorKey

LEMMA GlobalKeyCases ==
  ASSUME NEW u, NEW k
  PROVE  \/ /\ k \in Views
            /\ GlobalKey(u, k) = [u EXCEPT !.view = k, !.help = FALSE, !.helpDrawn = FALSE]
         \/ GlobalKey(u, k) = [u EXCEPT !.help = FALSE, !.helpDrawn = FALSE]
         \/ GlobalKey(u, k) = [u EXCEPT !.help = ~@, !.helpDrawn = FALSE]
         \/ GlobalKey(u, k)
              = [u EXCEPT !.selector = TRUE, !.selectorDrawn = FALSE, !.cursor = 0]
         \/ /\ u.sortColumn > 0
            /\ GlobalKey(u, k) = [u EXCEPT !.sortColumn = @ - 1]
         \/ /\ k = "sortRight"
            /\ GlobalKey(u, k) = [u EXCEPT !.sortColumn = @ + 1]
         \/ GlobalKey(u, k) = [u EXCEPT !.ascending = ~@]
         \/ /\ u.interval < MaxInterval
            /\ GlobalKey(u, k) = [u EXCEPT !.interval = @ + 1]
         \/ /\ u.interval > 1
            /\ GlobalKey(u, k) = [u EXCEPT !.interval = @ - 1]
         \/ GlobalKey(u, k) = [u EXCEPT !.human = ~@]
         \/ GlobalKey(u, k) = u
BY DEF GlobalKey, Views, DeviceViews

(* A key leaves the settings well-typed, and an overlay that it changes or *)
(* puts on top is not drawn any more.                                      *)
LEMMA PressedType ==
  ASSUME ui \in Settings, Overlays(ui), NEW k \in Pressable
  PROVE  /\ Pressed(k) \in Settings
         /\ Pressed(k).helpDrawn => Pressed(k).help /\ ui.help
         /\ Pressed(k).cursor < Len(Pressed(k).available) \/ Pressed(k).cursor = 0
         /\ Pressed(k).available = ui.available
         /\ Pressed(k).selectorDrawn => ui.selectorDrawn /\ Pressed(k) = ui
<1>0. MaxInterval \in Nat /\ MaxSort \in Nat
  BY NcursesAssumption
<1>1. CASE k = "none"
  BY <1>1 DEF Pressed, Overlays
<1>2. CASE k # "none" /\ ui.selector
  <2>1. Pressed(k) = SelectorKey(ui, k)
    BY <1>2 DEF Pressed
  <2>2. Len(ui.available) \in Nat /\ ui.cursor \in Nat
    BY DEF Settings, Cursors, Lists
  <2>3. ASSUME ui.cursor < Len(ui.available)
        PROVE  ui.available[ui.cursor + 1] \in Fields
    BY <2>2, <2>3 DEF Settings, Lists
  <2>4. ASSUME ui.cursor < Len(ui.available)
        PROVE  ToggleMember(ui.available[ui.cursor + 1], ui.hidden)
                 \in Hideable
    BY <2>3, <2>4 DEF Settings, Hideable, ToggleMember
  <2>5. CASE SelectorKey(ui, k) = [ui EXCEPT !.selectorDrawn = FALSE, !.selector = FALSE]
    BY <2>1, <2>5 DEF Overlays, Settings
  <2>6. CASE /\ k = "up" /\ ui.cursor > 0
             /\ SelectorKey(ui, k) = [ui EXCEPT !.selectorDrawn = FALSE, !.cursor = @ - 1]
    <3>1. ui.cursor - 1 \in Cursors
      BY <2>2, <2>6 DEF Cursors
    <3>2. Pressed(k) \in Settings
      BY <2>1, <2>6, <3>1 DEF Settings
    <3>3. /\ Pressed(k).available = ui.available /\ Pressed(k).cursor = ui.cursor - 1
          /\ Pressed(k).helpDrawn = ui.helpDrawn /\ Pressed(k).help = ui.help
          /\ ~Pressed(k).selectorDrawn
      BY <2>1, <2>6 DEF Settings
    <3>4. ui.cursor - 1 < Len(ui.available)
      BY <2>2, <2>6 DEF Overlays
    <3> QED
      BY <3>2, <3>3, <3>4 DEF Overlays
  <2>7. CASE /\ k = "down" /\ ui.cursor < Len(ui.available) - 1
             /\ SelectorKey(ui, k) = [ui EXCEPT !.selectorDrawn = FALSE, !.cursor = @ + 1]
    <3>1. ui.cursor + 1 \in Cursors
      BY <2>2 DEF Cursors
    <3>2. Pressed(k) \in Settings
      BY <2>1, <2>7, <3>1 DEF Settings
    <3>3. /\ Pressed(k).available = ui.available /\ Pressed(k).cursor = ui.cursor + 1
          /\ Pressed(k).helpDrawn = ui.helpDrawn /\ Pressed(k).help = ui.help
          /\ ~Pressed(k).selectorDrawn
      BY <2>1, <2>7 DEF Settings
    <3>4. ui.cursor + 1 < Len(ui.available)
      BY <2>2, <2>7
    <3> QED
      BY <3>2, <3>3, <3>4 DEF Overlays
  <2>8. CASE /\ k = "toggle" /\ ui.cursor < Len(ui.available)
             /\ SelectorKey(ui, k)
                  = [ui EXCEPT !.selectorDrawn = FALSE,
                               !.hidden = ToggleMember(ui.available[ui.cursor + 1], ui.hidden)]
    <3>0. ToggleMember(ui.available[ui.cursor + 1], ui.hidden) \in Hideable
      BY <2>4, <2>8
    <3>1. Pressed(k) \in Settings
      <4> DEFINE shown == ToggleMember(ui.available[ui.cursor + 1], ui.hidden)
      <4>1. \A x \in Hideable : [ui EXCEPT !.selectorDrawn = FALSE, !.hidden = x] \in Settings
        BY SettingsUpdates
      <4> HIDE DEF shown
      <4>2. [ui EXCEPT !.selectorDrawn = FALSE, !.hidden = shown] \in Settings
        BY <3>0, <4>1 DEF shown
      <4> QED
        BY <2>1, <2>8, <4>2, Zenon DEF shown
    <3>2. /\ Pressed(k).available = ui.available /\ Pressed(k).cursor = ui.cursor
          /\ Pressed(k).helpDrawn = ui.helpDrawn /\ Pressed(k).help = ui.help
          /\ ~Pressed(k).selectorDrawn
      BY <2>1, <2>8 DEF Settings
    <3> QED
      BY <3>1, <3>2 DEF Overlays
  <2>9. CASE SelectorKey(ui, k) = [ui EXCEPT !.selectorDrawn = FALSE]
    BY <2>1, <2>9 DEF Overlays, Settings
  <2>10. CASE SelectorKey(ui, k) = ui
    BY <2>1, <2>10 DEF Overlays, Settings
  <2> QED
    BY <2>5, <2>6, <2>7, <2>8, <2>9, <2>10, SelectorKeyCases
<1>3. CASE k # "none" /\ ~ui.selector
  <2>1. Pressed(k) = GlobalKey(ui, k)
    BY <1>3 DEF Pressed
  <2>2. k = "sortRight" => ui.sortColumn < MaxSort
    BY DEF Pressable
  <2>3. ~ui.selectorDrawn
    BY <1>3 DEF Overlays
  <2>4. CASE k \in Views /\ GlobalKey(ui, k) = [ui EXCEPT !.view = k, !.help = FALSE, !.helpDrawn = FALSE]
    BY <2>1, <2>3, <2>4 DEF Overlays, Settings
  <2>5. CASE GlobalKey(ui, k) = [ui EXCEPT !.help = FALSE, !.helpDrawn = FALSE]
    BY <2>1, <2>3, <2>5 DEF Overlays, Settings
  <2>6. CASE GlobalKey(ui, k) = [ui EXCEPT !.help = ~@, !.helpDrawn = FALSE]
    <3>2. Pressed(k) \in Settings
      BY <2>1, <2>6, SettingsUpdates
    <3>3. /\ Pressed(k).available = ui.available /\ Pressed(k).cursor = ui.cursor
          /\ ~Pressed(k).helpDrawn /\ Pressed(k).selectorDrawn = ui.selectorDrawn
      BY <2>1, <2>6 DEF Settings
    <3> QED
      BY <2>3, <3>2, <3>3 DEF Overlays
  <2>7. CASE GlobalKey(ui, k)
               = [ui EXCEPT !.selector = TRUE, !.selectorDrawn = FALSE, !.cursor = 0]
    <3>0. 0 \in Cursors
      BY DEF Cursors
    <3>1. Pressed(k) \in Settings
      <4>1. [ui EXCEPT !.selector = TRUE, !.selectorDrawn = FALSE, !.cursor = 0] \in Settings
        BY <3>0, SettingsUpdates
      <4> QED
        BY <2>1, <2>7, <4>1, Zenon
    <3>2. /\ Pressed(k).available = ui.available /\ Pressed(k).cursor = 0
          /\ Pressed(k).helpDrawn = ui.helpDrawn /\ Pressed(k).help = ui.help
          /\ ~Pressed(k).selectorDrawn
      BY <2>1, <2>7 DEF Settings
    <3> QED
      BY <3>1, <3>2 DEF Overlays
  <2>8. CASE ui.sortColumn > 0 /\ GlobalKey(ui, k) = [ui EXCEPT !.sortColumn = @ - 1]
    <3>1. ui.sortColumn - 1 \in Columns
      BY <1>0, <2>8 DEF Settings, Columns
    <3> QED
      BY <2>1, <2>3, <2>8, <3>1 DEF Overlays, Settings
  <2>9. CASE k = "sortRight" /\ GlobalKey(ui, k) = [ui EXCEPT !.sortColumn = @ + 1]
    <3>1. ui.sortColumn + 1 \in Columns
      BY <1>0, <2>2, <2>9 DEF Settings, Columns
    <3> QED
      BY <2>1, <2>3, <2>9, <3>1 DEF Overlays, Settings
  <2>10. CASE GlobalKey(ui, k) = [ui EXCEPT !.ascending = ~@]
    BY <2>1, <2>3, <2>10 DEF Overlays, Settings
  <2>11. CASE ui.interval < MaxInterval /\ GlobalKey(ui, k) = [ui EXCEPT !.interval = @ + 1]
    <3>1. ui.interval + 1 \in Intervals
      BY <1>0, <2>11 DEF Settings, Intervals
    <3> QED
      BY <2>1, <2>3, <2>11, <3>1 DEF Overlays, Settings
  <2>12. CASE ui.interval > 1 /\ GlobalKey(ui, k) = [ui EXCEPT !.interval = @ - 1]
    <3>1. ui.interval - 1 \in Intervals
      BY <1>0, <2>12 DEF Settings, Intervals
    <3> QED
      BY <2>1, <2>3, <2>12, <3>1 DEF Overlays, Settings
  <2>13. CASE GlobalKey(ui, k) = [ui EXCEPT !.human = ~@]
    BY <2>1, <2>3, <2>13 DEF Overlays, Settings
  <2>14. CASE GlobalKey(ui, k) = ui
    BY <2>1, <2>3, <2>14 DEF Overlays, Settings
  <2> QED
    BY <2>4, <2>5, <2>6, <2>7, <2>8, <2>9, <2>10, <2>11, <2>12, <2>13, <2>14,
       GlobalKeyCases
<1> QED
  BY <1>1, <1>2, <1>3

LEMMA PictureCases ==
  ASSUME NEW u
  PROVE  /\ u.help => Picture(u) = HelpPicture
         /\ ~u.help /\ u.selector => Picture(u) = SelectorPicture(u)
         /\ ~u.help /\ ~u.selector /\ u.view \in DeviceViews
              => Picture(u) = DevicePicture(u)
         /\ ~u.help /\ ~u.selector /\ u.view \notin DeviceViews
              => Picture(u) = DomainPicture(u)
BY DEF Picture

LEMMA PictureModes ==
  ASSUME NEW u
  PROVE  Picture(u).mode = IF u.help THEN "help"
                           ELSE IF u.selector THEN "selector"
                           ELSE IF u.view \in DeviceViews THEN "devices"
                           ELSE "domains"
<1>1. \A all : DeviceTable(u, all).mode = "devices"
  BY DEF DeviceTable
<1>2. DevicePicture(u).mode = "devices"
  BY <1>1 DEF DevicePicture, NetDevices, DiskDevices
<1>3. HelpPicture.mode = "help"
  BY DEF HelpPicture
<1>4. SelectorPicture(u).mode = "selector"
  BY DEF SelectorPicture
<1>5. DomainPicture(u).mode = "domains"
  BY DEF DomainPicture
<1> QED
  BY <1>2, <1>3, <1>4, <1>5, PictureCases

(* The header depends on the view and on the hidden fields only.           *)
LEMMA HeaderShape ==
  ASSUME NEW u
  PROVE  /\ Len(Header(u)) \in Nat /\ Len(Header(u)) >= 2
         /\ \A v : v.view = u.view /\ v.hidden = u.hidden => Header(v) = Header(u)
<1>1. \A v : v.view = u.view /\ v.hidden = u.hidden => Header(v) = Header(u)
  <2> SUFFICES ASSUME NEW v, v.view = u.view, v.hidden = u.hidden
               PROVE  Header(v) = Header(u)
    OBVIOUS
  <2>1. VisibleIndices(v) = VisibleIndices(u)
    BY DEF VisibleIndices
  <2>2. VisibleFields(v) = VisibleFields(u) /\ (Expanded(v) <=> Expanded(u))
    BY <2>1 DEF VisibleFields, Expanded
  <2> QED
    BY <2>2 DEF Header
<1>2. /\ VisibleFields(u) \in Seq(ToSet(VisibleFields(u)))
      /\ Len(VisibleFields(u)) \in Nat /\ Len(VisibleFields(u)) >= 2
  <2>1. /\ VisibleFields(u) \in Seq(ToSet(VisibleFields(u)))
        /\ Len(VisibleFields(u)) \in 2..Len(DomainFields) /\ Len(DomainFields) \in Nat
    BY VisibleShape, Tables
  <2> QED
    BY <2>1
<1>3. CASE Expanded(u)
  <2> DEFINE f == VisibleFields(u)
  <2>1. /\ f \in Seq(ToSet(f) \cup {Device}) /\ Device \in ToSet(f) \cup {Device}
        /\ Len(f) >= 2
    BY <1>2
  <2>2. Len(WithDevice(f)) = Len(f) + 1
    BY <2>1, WithDeviceShape
  <2>3. Header(u) = WithDevice(f)
    BY <1>3, HeaderWhole
  <2> HIDE DEF f
  <2> QED
    BY <1>1, <1>2, <2>2, <2>3 DEF f
<1>4. CASE ~Expanded(u)
  BY <1>1, <1>2, <1>4 DEF Header
<1> QED
  BY <1>3, <1>4

LEMMA InitInductive == Init => Inductive
<1> SUFFICES ASSUME Init PROVE Inductive
  OBVIOUS
<1>1. ui \in Settings
  <2>1. /\ "cpu" \in Views /\ 3 \in Columns /\ 1 \in Intervals /\ 0 \in Cursors
        /\ <<>> \in Lists /\ HiddenByDefault \in Hideable
    BY NcursesAssumption DEF Views, Columns, Intervals, Cursors, Lists, Hideable
  <2> QED
    BY <2>1 DEF Init, Settings
<1>2. Overlays(ui)
  <2>1. /\ ~ui.help /\ ~ui.helpDrawn /\ ~ui.selectorDrawn /\ ~ui.selector
        /\ ui.cursor = 0 /\ ui.available = <<>>
    BY DEF Init
  <2>2. /\ Len(DomainFields) \in Nat /\ Len(NetDevFields) \in Nat
        /\ Len(DiskDevFields) \in Nat
    BY Tables
  <2>3. Len(ui.available) <= Len(DomainFields) + Len(NetDevFields) + Len(DiskDevFields)
    BY <2>1, <2>2
  <2> QED
    BY <2>1, <2>3 DEF Overlays
<1>3. terminal = Blank /\ ~ui.help /\ ~ui.selector /\ paused \in BOOLEAN /\ running \in BOOLEAN
  BY DEF Init
<1> QED
  BY <1>1, <1>2, <1>3 DEF Inductive, Shown

LEMMA HelpStep ==
  ASSUME Inductive, running, NEW k \in Pressable, ScreenHelp(k)
  PROVE  Inductive'
<1> DEFINE u == Pressed(k)
<1>0. ui \in Settings /\ Overlays(ui) /\ Shown /\ running \in BOOLEAN
  BY DEF Inductive
<1>1. /\ u \in Settings /\ u.available = ui.available
      /\ u.helpDrawn => ui.help
      /\ u.cursor < Len(u.available) \/ u.cursor = 0
      /\ u.selectorDrawn => ui.selectorDrawn /\ u = ui
  BY <1>0, PressedType
<1>2. u.help /\ ui' = [u EXCEPT !.helpDrawn = TRUE]
  BY DEF ScreenHelp
<1>3. ~u.selectorDrawn
  BY <1>0, <1>1, <1>2 DEF Overlays
<1> HIDE DEF u
<1>4. ui' \in Settings
  BY <1>1, <1>2, SettingsUpdates
<1>5. /\ ui'.help /\ ui'.helpDrawn /\ ~ui'.selectorDrawn
      /\ ui'.cursor = u.cursor /\ ui'.available = u.available
  BY <1>1, <1>2, <1>3 DEF Settings
<1>6. Overlays(ui')
  BY <1>0, <1>1, <1>5 DEF Overlays
<1>7. terminal' = Picture(ui')
  <2>1. terminal' = HelpPicture
    <3>1. CASE u.helpDrawn
      <4>1. ui.help /\ terminal' = terminal
        BY <1>1, <3>1 DEF ScreenHelp, u
      <4> QED
        BY <1>0, <4>1, PictureCases DEF Shown
    <3>2. CASE ~u.helpDrawn
      BY <3>2 DEF ScreenHelp, u
    <3> QED
      BY <3>1, <3>2
  <2> QED
    BY <1>5, <2>1, PictureCases
<1>8. /\ paused' = (ui'.help \/ ui'.selector) /\ paused' \in BOOLEAN
      /\ running' \in BOOLEAN
  BY <1>0, <1>1, <1>2 DEF ScreenHelp, Input, Settings, u
<1>9. ~OnDomains(ui')
  BY <1>5 DEF OnDomains
<1> QED
  BY <1>4, <1>6, <1>7, <1>8, <1>9 DEF Inductive, Shown

LEMMA SelectorStep ==
  ASSUME Inductive, running, NEW k \in Pressable, ScreenSelector(k)
  PROVE  Inductive'
<1> DEFINE p == Pressed(k)
           u == [p EXCEPT !.helpDrawn = FALSE]
           v == [u EXCEPT !.available = SelectorFields(u)]
           w == [v EXCEPT !.cursor = ClampCursor(v), !.selectorDrawn = TRUE]
<1>0. ui \in Settings /\ Overlays(ui) /\ Shown /\ running \in BOOLEAN
  BY DEF Inductive
<1>1. /\ p \in Settings /\ p.available = ui.available
      /\ p.selectorDrawn => ui.selectorDrawn /\ p = ui
  BY <1>0, PressedType
<1>2. /\ ~u.help /\ u.selector
      /\ IF u.selectorDrawn THEN ui' = u /\ UNCHANGED terminal
                            ELSE ui' = w /\ terminal' = SelectorPicture(w)
      /\ paused' = (p.help \/ p.selector) /\ running' = running
  BY DEF ScreenSelector, Input
<1> HIDE DEF p
<1>3. /\ u \in Settings /\ ~u.helpDrawn /\ u.selectorDrawn = p.selectorDrawn
      /\ u.help = p.help /\ u.selector = p.selector /\ u.available = p.available
  <2>1. u \in Settings
    BY <1>1, SettingsUpdates
  <2> QED
    BY <1>1, <2>1 DEF Settings
<1>4. CASE u.selectorDrawn
  <2>1. p = ui /\ ui.selectorDrawn
    BY <1>1, <1>3, <1>4
  <2>2. ~ui.helpDrawn
    BY <1>0, <2>1 DEF Overlays
  <2>3. u = ui
    BY <1>0, <2>1, <2>2 DEF Settings
  <2>4. ui' = ui /\ terminal' = terminal /\ ui.selector /\ ~ui.help
    BY <1>0, <1>2, <1>4, <2>1, <2>3 DEF Overlays
  <2>5. terminal' = Picture(ui')
    BY <1>0, <2>4 DEF Shown
  <2>6. paused' = (ui'.help \/ ui'.selector) /\ paused' \in BOOLEAN
    BY <1>0, <1>2, <2>1, <2>4 DEF Settings
  <2> QED
    BY <1>0, <1>2, <2>4, <2>5, <2>6 DEF Inductive, Shown, OnDomains
<1>5. CASE ~u.selectorDrawn
  <2> HIDE DEF u
  <2>1. SelectorFields(u) \in Lists
    BY SelectorFieldsType DEF Lists
  <2>2. /\ v \in Settings /\ v.available = SelectorFields(u) /\ v.view = u.view
        /\ ~v.helpDrawn /\ ~v.help /\ v.selector
    <3>1. v \in Settings
      BY <1>3, <2>1, SettingsUpdates
    <3> QED
      BY <1>2, <1>3, <3>1 DEF Settings
  <2> HIDE DEF v
  <2>3. /\ ClampCursor(v) \in Nat
        /\ ClampCursor(v) < Len(v.available) \/ ClampCursor(v) = 0
    <3>1. v.cursor \in Nat /\ v.available \in Seq(Fields)
      BY <2>2 DEF Settings, Cursors, Lists
    <3>2. PICK n \in Nat : n = Len(v.available)
      BY <3>1
    <3>3. v.available # <<>> => n > 0
      BY <3>1, <3>2
    <3> QED
      BY <3>1, <3>2, <3>3 DEF ClampCursor
  <2>4. /\ w \in Settings /\ w.available = SelectorFields(u) /\ w.view = u.view
        /\ ~w.helpDrawn /\ ~w.help /\ w.selector /\ w.selectorDrawn
        /\ w.cursor = ClampCursor(v)
    <3>1. w \in Settings
      BY <2>2, <2>3, SettingsUpdates DEF Cursors
    <3> QED
      BY <2>2, <3>1 DEF Settings
  <2> HIDE DEF w
  <2>5. ui' = w /\ terminal' = SelectorPicture(w)
    BY <1>2, <1>5
  <2>6. SelectorFields(w) = SelectorFields(u)
    BY <2>4 DEF SelectorFields
  <2>7. Overlays(w)
    BY <2>2, <2>3, <2>4, <2>6, SelectorFieldsType DEF Overlays
  <2>8. terminal' = Picture(ui')
    BY <2>4, <2>5, PictureCases
  <2>9. paused' = (ui'.help \/ ui'.selector) /\ paused' \in BOOLEAN
    BY <1>2, <1>3, <2>4, <2>5
  <2> QED
    BY <1>0, <1>2, <2>4, <2>5, <2>7, <2>8, <2>9 DEF Inductive, Shown, OnDomains
<1> QED
  BY <1>4, <1>5

(* What both ways of drawing without an overlay share.                     *)
LEMMA UncoveredType ==
  ASSUME Inductive, NEW k \in Pressable, ~Uncovered(k).help, ~Uncovered(k).selector
  PROVE  /\ Uncovered(k) \in Settings /\ Overlays(Uncovered(k))
         /\ (Pressed(k).help \/ Pressed(k).selector) = FALSE
<1> DEFINE p == Pressed(k)
           u == [p EXCEPT !.helpDrawn = FALSE, !.selectorDrawn = FALSE]
<1>0. ui \in Settings /\ Overlays(ui)
  BY DEF Inductive
<1>1. /\ p \in Settings /\ p.available = ui.available
      /\ p.cursor < Len(p.available) \/ p.cursor = 0
  BY <1>0, PressedType
<1>2. Uncovered(k) = u
  BY DEF Uncovered
<1> HIDE DEF p
<1>3. /\ u \in Settings /\ ~u.helpDrawn /\ ~u.selectorDrawn
      /\ u.help = p.help /\ u.selector = p.selector
      /\ u.available = p.available /\ u.cursor = p.cursor
  <2>1. u \in Settings
    BY <1>1, SettingsUpdates
  <2> QED
    BY <1>1, <2>1 DEF Settings
<1> HIDE DEF u
<1>4. Overlays(u)
  BY <1>0, <1>1, <1>2, <1>3 DEF Overlays
<1> QED
  BY <1>2, <1>3, <1>4 DEF p

LEMMA DevicesStep ==
  ASSUME Inductive, running, NEW k \in Pressable, ScreenDevices(k)
  PROVE  Inductive'
<1> DEFINE u == Uncovered(k)
<1>1. /\ ~u.help /\ ~u.selector /\ u.view \in DeviceViews
      /\ ui' = u /\ terminal' = DevicePicture(u)
      /\ paused' = (Pressed(k).help \/ Pressed(k).selector) /\ running' = running
  BY DEF ScreenDevices, Input
<1>2. u \in Settings /\ Overlays(u) /\ paused' = FALSE
  BY <1>1, UncoveredType
<1> HIDE DEF u
<1>3. terminal' = Picture(ui')
  BY <1>1, PictureCases
<1>4. running' \in BOOLEAN
  BY <1>1 DEF Inductive
<1> QED
  BY <1>1, <1>2, <1>3, <1>4 DEF Inductive, Shown, OnDomains

LEMMA DomainsStep ==
  ASSUME Inductive, running, NEW k \in Pressable, ScreenDomains(k)
  PROVE  Inductive'
<1> DEFINE u == Uncovered(k)
           v == [u EXCEPT !.sortColumn = ClampSort(u)]
<1>1. /\ ~u.help /\ ~u.selector /\ u.view \notin DeviceViews
      /\ ui' = v /\ terminal' = DomainPicture(v)
      /\ paused' = (Pressed(k).help \/ Pressed(k).selector) /\ running' = running
  BY DEF ScreenDomains, Input
<1>2. u \in Settings /\ Overlays(u) /\ paused' = FALSE
  BY <1>1, UncoveredType
<1> HIDE DEF u
<1>3. ClampSort(u) \in Columns /\ ClampSort(u) < Len(Header(u))
  <2>1. MaxSort \in Nat
    BY NcursesAssumption
  <2>2. Len(Header(u)) \in Nat /\ Len(Header(u)) >= 2
    BY HeaderShape
  <2>3. u.sortColumn \in 0..MaxSort
    BY <1>2 DEF Settings, Columns
  <2> QED
    BY <2>1, <2>2, <2>3 DEF ClampSort, Columns
<1>4. /\ v \in Settings /\ ~v.help /\ ~v.selector /\ v.view = u.view
      /\ v.hidden = u.hidden /\ v.sortColumn = ClampSort(u)
      /\ v.helpDrawn = u.helpDrawn /\ v.selectorDrawn = u.selectorDrawn
      /\ v.cursor = u.cursor /\ v.available = u.available
  <2>1. v \in Settings
    BY <1>2, <1>3, SettingsUpdates
  <2> QED
    BY <1>1, <1>2, <2>1 DEF Settings
<1> HIDE DEF v
<1>5. Overlays(v)
  BY <1>1, <1>2, <1>4 DEF Overlays
<1>6. v.sortColumn < Len(Header(v))
  <2>1. Header(v) = Header(u)
    BY <1>4, HeaderShape
  <2> QED
    BY <1>3, <1>4, <2>1
<1>7. terminal' = Picture(ui')
  BY <1>1, <1>4, PictureCases
<1>8. running' \in BOOLEAN
  BY <1>1 DEF Inductive
<1> QED
  BY <1>1, <1>2, <1>4, <1>5, <1>6, <1>7, <1>8 DEF Inductive, Shown

THEOREM UIInvariant == Spec => []Inductive
<1>1. Init => Inductive
  BY InitInductive
<1>2. Inductive /\ [Next]_vars => Inductive'
  <2> SUFFICES ASSUME Inductive, [Next]_vars PROVE Inductive'
    OBVIOUS
  <2>1. CASE Screen
    <3>1. PICK k \in Pressable : \/ ScreenHelp(k) \/ ScreenSelector(k)
                                 \/ ScreenDevices(k) \/ ScreenDomains(k)
      BY <2>1 DEF Screen
    <3>2. running
      BY <2>1 DEF Screen
    <3> QED
      BY <3>1, <3>2, HelpStep, SelectorStep, DevicesStep, DomainsStep
  <2>2. CASE Quit
    BY <2>2 DEF Quit, Inductive, Shown
  <2>3. CASE UNCHANGED vars
    BY <2>3 DEF vars, Inductive, Shown
  <2> QED
    BY <2>1, <2>2, <2>3 DEF Next, Exited
<1> QED
  BY <1>1, <1>2, PTL DEF Spec

(* The state of the printer is well-typed; in particular the cursor stays  *)
(* in the lists of fields it moves in.                                     *)
THEOREM UITyped == Spec => []TypeOK
<1>1. Inductive => TypeOK
  <2> SUFFICES ASSUME Inductive PROVE TypeOK
    OBVIOUS
  <2>1. /\ ui \in Settings /\ Overlays(ui) /\ paused \in BOOLEAN /\ running \in BOOLEAN
    BY DEF Inductive
  <2>2. ui.cursor \in 0..Len(DomainFields \o NetDevFields \o DiskDevFields)
    <3>1. /\ Len(DomainFields) \in Nat /\ Len(NetDevFields) \in Nat
          /\ Len(DiskDevFields) \in Nat
      BY Tables
    <3>2. Len(DomainFields \o NetDevFields \o DiskDevFields)
            = Len(DomainFields) + Len(NetDevFields) + Len(DiskDevFields)
      <4>1. /\ DomainFields \in Seq(Fields) /\ NetDevFields \in Seq(Fields)
            /\ DiskDevFields \in Seq(Fields)
        BY Tables DEF Fields
      <4>2. /\ DomainFields \o NetDevFields \in Seq(Fields)
            /\ Len(DomainFields \o NetDevFields) = Len(DomainFields) + Len(NetDevFields)
        BY <4>1, ConcatProperties
      <4> QED
        BY <4>1, <4>2, ConcatProperties
    <3>3. Len(ui.available) \in Nat /\ ui.cursor \in Nat
      BY <2>1 DEF Settings, Cursors, Lists
    <3>4. \/ ui.cursor = 0
          \/ /\ ui.cursor < Len(ui.available)
             /\ Len(ui.available)
                  <= Len(DomainFields) + Len(NetDevFields) + Len(DiskDevFields)
      BY <2>1 DEF Overlays
    <3> QED
      BY <3>1, <3>2, <3>3, <3>4
  <2>3. ToSet(ui.available) \subseteq Fields
    BY <2>1 DEF Settings, Lists, ToSet
  <2>4. {ui.ascending, ui.human, ui.help, ui.helpDrawn, ui.selector,
         ui.selectorDrawn, paused, running} \subseteq BOOLEAN
    BY <2>1 DEF Settings
  <2> QED
    BY <2>1, <2>2, <2>3, <2>4 DEF TypeOK, Settings, Columns, Intervals, Hideable
<1> QED
  BY <1>1, UIInvariant, PTL

(* After each call of Screen the terminal shows what the settings, the     *)
(* cursor and the hidden fields now are, although an overlay is drawn only *)
(* when its drawn flag is FALSE.                                           *)
THEOREM TerminalAlwaysCurrent == Spec => []TerminalCurrent
<1>1. Inductive => TerminalCurrent
  <2> SUFFICES ASSUME Inductive, terminal # Blank
               PROVE  /\ terminal = Picture(ui)
                      /\ paused = (terminal.mode \in {"help", "selector"})
    BY DEF TerminalCurrent
  <2>1. /\ terminal = Picture(ui) /\ paused = (ui.help \/ ui.selector)
    BY DEF Inductive, Shown
  <2>2. (terminal.mode \in {"help", "selector"}) = (ui.help \/ ui.selector)
    BY <2>1, PictureModes
  <2> QED
    BY <2>1, <2>2
<1> QED
  BY <1>1, UIInvariant, PTL

(* The list is scrolled so that the field under the cursor is in it.       *)
LEMMA HighlightShown ==
  ASSUME NEW u \in Settings, u.cursor < Len(u.available)
  PROVE  SelectorPicture(u).highlight = {u.available[u.cursor + 1]}
<1> DEFINE first == FirstLine(u)
           last == IF first + Lines < Len(u.available)
                   THEN first + Lines ELSE Len(u.available)
           lines == SubSeq(u.available, first + 1, last)
<1>1. u.available \in Seq(Fields) /\ u.cursor \in Nat /\ Lines \in Nat /\ Lines > 0
  BY NcursesAssumption DEF Settings, Lists, Cursors
<1>2. PICK n \in Nat : n = Len(u.available)
  BY <1>1
<1>3. /\ first \in Nat /\ last \in Nat /\ first <= u.cursor /\ u.cursor < last /\ last <= n
  BY <1>1, <1>2 DEF FirstLine
<1>4. SelectorPicture(u).highlight
        = {lines[i] : i \in {j \in DOMAIN lines : first + j = u.cursor + 1}}
  BY DEF SelectorPicture
<1> HIDE DEF first, last
<1>5. /\ DOMAIN lines = 1..last - first
      /\ \A i \in 1..last - first : lines[i] = u.available[first + i]
  <2>1. /\ first + 1 \in Int /\ last \in Int
        /\ \A i \in first + 1..last : u.available[i] \in Fields
    BY <1>1, <1>2, <1>3
  <2>2. /\ lines \in Seq(Fields)
        /\ Len(lines) = IF first + 1 <= last THEN last - (first + 1) + 1 ELSE 0
        /\ \A i \in 1..last - (first + 1) + 1 : lines[i] = u.available[first + 1 + i - 1]
    BY <2>1, SubSeqProperties
  <2>3. Len(lines) = last - first
    <3>1. first + 1 <= last /\ last - (first + 1) + 1 = last - first
      BY <1>1, <1>3
    <3> QED
      BY <2>2, <3>1
  <2>4. \A i \in 1..last - first : lines[i] = u.available[first + i]
    BY <1>3, <2>2
  <2> QED
    BY <2>2, <2>3, <2>4
<1> HIDE DEF lines
<1>6. {j \in DOMAIN lines : first + j = u.cursor + 1} = {u.cursor + 1 - first}
  <2>1. u.cursor + 1 - first \in 1..last - first
    BY <1>1, <1>3
  <2>2. \A j \in 1..last - first : first + j = u.cursor + 1 <=> j = u.cursor + 1 - first
    BY <1>1, <1>3
  <2> QED
    BY <1>5, <2>1, <2>2, Zenon
<1>7. lines[u.cursor + 1 - first] = u.available[u.cursor + 1]
  <2>1. u.cursor + 1 - first \in 1..last - first /\ first + (u.cursor + 1 - first) = u.cursor + 1
    BY <1>1, <1>3
  <2> QED
    BY <1>5, <2>1
<1> QED
  BY <1>4, <1>6, <1>7

(* The only key that changes a field's visibility is the toggle, in the    *)
(* field selector.                                                         *)
LEMMA OnlyToggleHides ==
  ASSUME Inductive, NEW k \in Pressable, Pressed(k).hidden # ui.hidden
  PROVE  /\ ui.selector /\ ui.cursor < Len(ui.available)
         /\ Pressed(k).hidden = ToggleMember(ui.available[ui.cursor + 1], ui.hidden)
<1>1. ui \in Settings
  BY DEF Inductive
<1>2. CASE k = "none"
  BY <1>2 DEF Pressed
<1>3. CASE k # "none" /\ ui.selector
  <2>1. Pressed(k) = SelectorKey(ui, k)
    BY <1>3 DEF Pressed
  <2> QED
    <3>1. \/ /\ ui.cursor < Len(ui.available)
             /\ Pressed(k) = [ui EXCEPT !.selectorDrawn = FALSE,
                    !.hidden = ToggleMember(ui.available[ui.cursor + 1], ui.hidden)]
          \/ Pressed(k).hidden = ui.hidden
      BY <1>1, <2>1 DEF SelectorKey, Settings
    <3> QED
      BY <1>1, <1>3, <3>1 DEF Settings
<1>4. CASE k # "none" /\ ~ui.selector
  <2>1. Pressed(k) = GlobalKey(ui, k)
    BY <1>4 DEF Pressed
  <2> QED
    BY <1>1, <2>1 DEF GlobalKey, Settings
<1> QED
  BY <1>2, <1>3, <1>4

LEMMA DrawingHidesNothing ==
  ASSUME Inductive, NEW k \in Pressable,
         ScreenHelp(k) \/ ScreenSelector(k) \/ ScreenDevices(k) \/ ScreenDomains(k)
  PROVE  ui'.hidden = Pressed(k).hidden
<1>1. Pressed(k) \in Settings
  BY PressedType DEF Inductive
<1> QED
  BY <1>1 DEF ScreenHelp, ScreenSelector, ScreenDevices, ScreenDomains, Uncovered, Settings

(* Without the help overlay, a step that changes the visibility of fields  *)
(* changes that of the one field highlighted on the terminal, a field of   *)
(* the view.                                                               *)
THEOREM OnlyHighlightToggled == Spec => HighlightToggled
<1>1. ASSUME Inductive, [Next]_vars, ~ui.help, ui'.hidden # ui.hidden
      PROVE  /\ terminal.mode = "selector" /\ Flipped = terminal.highlight
             /\ terminal.view = ui.view /\ Flipped \subseteq ToSet(SelectorFields(ui))
  <2> DEFINE x == ui.available[ui.cursor + 1]
  <2>0. ui \in Settings /\ Overlays(ui) /\ Shown
    BY <1>1 DEF Inductive
  <2>1. Screen
    BY <1>1 DEF Next, Quit, Exited, vars
  <2>2. PICK k \in Pressable : \/ ScreenHelp(k) \/ ScreenSelector(k)
                               \/ ScreenDevices(k) \/ ScreenDomains(k)
    BY <2>1 DEF Screen
  <2>3. ui'.hidden = Pressed(k).hidden
    BY <1>1, <2>2, DrawingHidesNothing
  <2>4. /\ ui.selector /\ ui.cursor < Len(ui.available)
        /\ ui'.hidden = ToggleMember(x, ui.hidden)
    BY <1>1, <2>3, OnlyToggleHides
  <2>5. terminal = SelectorPicture(ui)
    <3>1. terminal = Picture(ui)
      BY <2>0, <2>1, <2>4 DEF Shown, Screen
    <3> QED
      BY <1>1, <2>4, <3>1, PictureCases
  <2>6. Flipped = {x}
    BY <2>4 DEF Flipped, ToggleMember
  <2>7. terminal.highlight = {x}
    BY <2>0, <2>4, <2>5, HighlightShown
  <2>8. ui.available = SelectorFields(ui)
    BY <1>1, <2>0, <2>4 DEF Overlays
  <2>9. x \in ToSet(ui.available)
    <3>1. ui.available \in Seq(Fields) /\ ui.cursor \in Nat
      BY <2>0 DEF Settings, Lists, Cursors
    <3>2. ui.cursor + 1 \in DOMAIN ui.available
      BY <2>4, <3>1
    <3> QED
      BY <3>2 DEF ToSet
  <2>10. terminal.mode = "selector" /\ terminal.view = ui.view
    BY <2>5 DEF SelectorPicture
  <2> QED
    BY <2>6, <2>7, <2>8, <2>9, <2>10
<1> QED
  BY <1>1, UIInvariant, PTL DEF Spec, HighlightToggled

----------------------------------------------------------------------------
(* Values and headers.                                                     *)

(* The members of an initial part of a set have the same places in it.     *)
LEMMA PlaceInitial ==
  ASSUME NEW M, M \subseteq Nat, NEW S, S \subseteq M,
         \A i \in S, j \in M : j < i => j \in S
  PROVE  \A i \in S : Place(i, S) = Place(i, M)
<1> SUFFICES ASSUME NEW i \in S PROVE Place(i, S) = Place(i, M)
  OBVIOUS
<1>1. \A j \in M : j <= i => j \in S
  <2> SUFFICES ASSUME NEW j \in M, j <= i PROVE j \in S
    OBVIOUS
  <2>1. i \in Nat /\ j \in Nat
    OBVIOUS
  <2>2. j = i \/ j < i
    BY <2>1
  <2> QED
    BY <2>2
<1>2. {j \in S : j <= i} = {j \in M : j <= i}
  BY <1>1, Zenon
<1> QED
  BY <1>2 DEF Place

(* Two more columns before a set of indices.                               *)
LEMMA PlaceAfter ==
  ASSUME NEW S, S \subseteq Nat, IsFiniteSet(S), \A i \in S : i > 2
  PROVE  /\ Cardinality({1, 2} \cup S) = 2 + Cardinality(S)
         /\ \A i \in S : Place(i, {1, 2} \cup S) = 2 + Place(i, S)
<1>1. ASSUME NEW T, T \subseteq S
      PROVE  Cardinality({1, 2} \cup T) = 2 + Cardinality(T)
  <2>1. IsFiniteSet(T)
    BY <1>1, FS_Subset
  <2>2. IsFiniteSet({1, 2}) /\ Cardinality({1, 2}) = 2
    <3>1. {1, 2} = 1..2
      OBVIOUS
    <3> QED
      BY <3>1, IntervalSize
  <2>3. {1, 2} \cap T = {}
    <3>1. 1 \notin S /\ 2 \notin S
      OBVIOUS
    <3> QED
      BY <1>1, <3>1
  <2>4. Cardinality({1, 2} \cap T) = 0
    BY <2>3, FS_EmptySet
  <2>5. Cardinality({1, 2} \cup T)
          = Cardinality({1, 2}) + Cardinality(T) - Cardinality({1, 2} \cap T)
    BY <2>1, <2>2, FS_Union
  <2>6. Cardinality(T) \in Nat
    BY <2>1, FS_CardinalityType
  <2> QED
    BY <2>2, <2>4, <2>5, <2>6
<1>2. ASSUME NEW i \in S
      PROVE  Place(i, {1, 2} \cup S) = 2 + Place(i, S)
  <2> DEFINE T == {j \in S : j <= i}
  <2>1. {j \in {1, 2} \cup S : j <= i} = {1, 2} \cup T
    <3>1. i \in Nat /\ i > 2
      BY <1>2
    <3>2. 1 <= i /\ 2 <= i
      BY <3>1
    <3> QED
      BY <3>2, Zenon
  <2>2. T \subseteq S
    OBVIOUS
  <2> HIDE DEF T
  <2>3. Cardinality({1, 2} \cup T) = 2 + Cardinality(T)
    BY <1>1, <2>2
  <2> QED
    BY <2>1, <2>3 DEF Place, T
<1> QED
  BY <1>1, <1>2

(* Two columns, the device and more.                                       *)
LEMMA RowShape ==
  ASSUME NEW S, Device \in S, NEW base \in Seq(S), Len(base) >= 2, NEW rest \in Seq(S)
  PROVE  LET row == SubSeq(base, 1, 2) \o <<Device>> \o rest
         IN /\ row \in Seq(S) /\ Len(row) = 3 + Len(rest)
            /\ row[1] = base[1] /\ row[2] = base[2] /\ row[3] = Device
            /\ \A j \in 1..Len(rest) : row[3 + j] = rest[j]
<1>1. Len(base) \in Nat /\ Len(rest) \in Nat /\ \A i \in 1..Len(base) : base[i] \in S
  OBVIOUS
<1>2. /\ SubSeq(base, 1, 2) \in Seq(S) /\ Len(SubSeq(base, 1, 2)) = 2
      /\ SubSeq(base, 1, 2)[1] = base[1] /\ SubSeq(base, 1, 2)[2] = base[2]
  BY <1>1
<1>3. <<Device>> \in Seq(S) /\ Len(<<Device>>) = 1 /\ <<Device>>[1] = Device
  OBVIOUS
<1> QED
  BY <1>1, <1>2, <1>3

(* A row cut to the length of the header.                                  *)
LEMMA CutRow ==
  ASSUME NEW s, s \in Seq(ToSet(s)), NEW h \in Nat
  PROVE  LET cut == Pick(s, (1..h) \cap DOMAIN s)
         IN /\ \A i \in DOMAIN cut : i \in 1..h /\ i \in DOMAIN s /\ cut[i] = s[i]
            /\ Len(s) >= h => Len(cut) = h
<1> DEFINE m == IF Len(s) >= h THEN h ELSE Len(s)
<1>1. DOMAIN s = 1..Len(s) /\ Len(s) \in Nat
  OBVIOUS
<1>2. m \in 0..Len(s) /\ (1..h) \cap DOMAIN s = 1..m /\ m <= h
  BY <1>1
<1>3. Len(s) >= h => m = h
  OBVIOUS
<1> HIDE DEF m
<1>4. /\ DOMAIN Pick(s, 1..m) = 1..m /\ Len(Pick(s, 1..m)) = m
      /\ \A i \in 1..m : Pick(s, 1..m)[i] = s[i]
  BY <1>2, PickPrefix
<1> QED
  BY <1>1, <1>2, <1>3, <1>4

Mine(u) == Members(DomainFields, u.view)
Seen(u) == {i \in Mine(u) : DomainFields[i] \notin u.hidden}

LEMMA SeenIndices ==
  ASSUME NEW u, Expanded(u)
  PROVE  /\ Mine(u) \subseteq DOMAIN DomainFields /\ Seen(u) \subseteq Mine(u)
         /\ Mine(u) \subseteq Nat /\ \A i \in Mine(u) : i > 2
         /\ IsFiniteSet(Mine(u)) /\ IsFiniteSet(Seen(u))
         /\ Cardinality(Mine(u)) \in Nat /\ Cardinality(Seen(u)) \in Nat
         /\ Cardinality(Seen(u)) <= Cardinality(Mine(u))
         /\ VisibleIndices(u) = {1, 2} \cup Seen(u)
         /\ Len(VisibleFields(u)) = 2 + Cardinality(Seen(u))
<1>1. /\ DOMAIN DomainFields = 1..Len(DomainFields) /\ Len(DomainFields) \in Nat
      /\ Len(DomainFields) >= 2
  BY Tables, NcursesAssumption
<1>2. Mine(u) \subseteq DOMAIN DomainFields /\ Seen(u) \subseteq Mine(u)
  BY DEF Mine, Seen, Members
<1>3. Mine(u) \subseteq Nat /\ \A i \in Mine(u) : i > 2
  <2>1. 1 \notin Mine(u) /\ 2 \notin Mine(u)
    BY FieldsAssumption DEF Expanded, Mine
  <2>2. \A i \in DOMAIN DomainFields : i # 1 /\ i # 2 => i \in Nat /\ i > 2
    BY <1>1
  <2> QED
    BY <1>2, <2>1, <2>2
<1>4. IsFiniteSet(Mine(u)) /\ Cardinality(Mine(u)) \in Nat
  BY <1>1, <1>2, Tables, SomeIndices
<1>5. /\ IsFiniteSet(Seen(u)) /\ Cardinality(Seen(u)) \in Nat
      /\ Cardinality(Seen(u)) <= Cardinality(Mine(u))
  BY <1>2, <1>4, FS_Subset, FS_CardinalityType
<1>6. VisibleIndices(u) = {1, 2} \cup Seen(u)
  <2>1. \A i \in DOMAIN DomainFields : i <= 2 <=> i \in {1, 2}
    BY <1>1
  <2>2. 1 \in DOMAIN DomainFields /\ 2 \in DOMAIN DomainFields
    BY <1>1
  <2> QED
    BY <1>2, <2>1, <2>2 DEF VisibleIndices, Seen, Mine, Members
<1>7. Len(VisibleFields(u)) = 2 + Cardinality(Seen(u))
  <2>1. Seen(u) \subseteq Nat /\ \A i \in Seen(u) : i > 2
    BY <1>2, <1>3
  <2>2. Cardinality({1, 2} \cup Seen(u)) = 2 + Cardinality(Seen(u))
    BY <1>5, <2>1, PlaceAfter
  <2> QED
    BY <1>6, <2>2, VisibleShape
<1> QED
  BY <1>2, <1>3, <1>4, <1>5, <1>6, <1>7

TailHidden(u) ==
  /\ \A i \in Seen(u), j \in Mine(u) : j < i => j \in Seen(u)
  /\ u.view = "disk" => Seen(u) = {} \/ Cardinality(Seen(u)) >= 3

(* When only the last fields are hidden, the j-th column after UUID and    *)
(* name is that of the j-th field of the view.                             *)
LEMMA SeenColumns ==
  ASSUME NEW u, Expanded(u), TailHidden(u)
  PROVE  \A j \in 1..Cardinality(Seen(u)) :
           \E i \in Seen(u) : Place(i, Mine(u)) = j
                              /\ VisibleFields(u)[2 + j] = DomainFields[i]
<1> SUFFICES ASSUME NEW j \in 1..Cardinality(Seen(u))
             PROVE  \E i \in Seen(u) : Place(i, Mine(u)) = j
                              /\ VisibleFields(u)[2 + j] = DomainFields[i]
  OBVIOUS
<1> DEFINE V == VisibleIndices(u)
<1>1. /\ Seen(u) \subseteq Nat /\ IsFiniteSet(Seen(u)) /\ \A i \in Seen(u) : i > 2
      /\ Mine(u) \subseteq Nat /\ Seen(u) \subseteq Mine(u)
      /\ V = {1, 2} \cup Seen(u) /\ Cardinality(Seen(u)) \in Nat
  BY SeenIndices
<1>2. PICK i \in Seen(u) : Place(i, Seen(u)) = j
  BY <1>1, PlaceOnto
<1>3. Place(i, Mine(u)) = j
  <2>1. \A k \in Seen(u), l \in Mine(u) : l < k => l \in Seen(u)
    BY DEF TailHidden
  <2> QED
    BY <1>1, <1>2, <2>1, PlaceInitial
<1>4. Place(i, V) = 2 + j
  BY <1>1, <1>2, PlaceAfter
<1>5. VisibleFields(u)[2 + j] = DomainFields[i]
  <2>1. V \subseteq DOMAIN DomainFields /\ i \in V
    BY <1>1, VisibleShape
  <2> HIDE DEF V
  <2>2. Pick(DomainFields, V)[Place(i, V)] = DomainFields[i]
    BY <2>1, Tables, PickSpec
  <2>3. VisibleFields(u) = Pick(DomainFields, V)
    BY DEF VisibleFields, V
  <2> QED
    BY <1>4, <2>2, <2>3
<1> QED
  BY <1>3, <1>5

(* What DomainPrintPerInterface gives has one value for each network       *)
(* field, hidden or not.                                                   *)
LEMMA PerInterfaceShape ==
  ASSUME NEW u, u.view = "net"
  PROVE  /\ PerInterface \in Seq(ToSet(DomainFields))
         /\ Len(PerInterface) = Cardinality(Mine(u))
         /\ \A i \in Mine(u) : PerInterface[Place(i, Mine(u))] = DomainFields[i]
<1>1. Mine(u) \subseteq DOMAIN DomainFields
  BY DEF Mine, Members
<1>2. PerInterface = Pick(DomainFields, Mine(u))
  BY DEF PerInterface, Mine
<1> QED
  BY <1>1, <1>2, Tables, PickSpec

Cells == ToSet(DomainFields) \cup ToSet(PerDisk) \cup {Device}

LEMMA BaseType ==
  ASSUME NEW u
  PROVE  /\ VisibleFields(u) \in Seq(Cells) /\ Device \in Cells
         /\ Len(VisibleFields(u)) \in Nat /\ Len(VisibleFields(u)) >= 2
         /\ VisibleValues(u) = VisibleFields(u)
         /\ PerDisk \in Seq(Cells)
<1>1. /\ VisibleFields(u) \in Seq(ToSet(DomainFields))
      /\ Len(VisibleFields(u)) \in 2..Len(DomainFields)
      /\ VisibleValues(u) = VisibleFields(u) /\ Len(DomainFields) \in Nat
  BY VisibleShape, Tables
<1>2. PerDisk \in Seq(ToSet(PerDisk))
  BY Tables
<1>3. /\ ToSet(DomainFields) \subseteq Cells /\ ToSet(PerDisk) \subseteq Cells
      /\ Device \in Cells
  BY DEF Cells
<1> HIDE DEF Cells
<1> QED
  BY <1>1, <1>2, <1>3

LEMMA HeaderType ==
  ASSUME NEW u, Expanded(u)
  PROVE  LET base == VisibleFields(u)
         IN /\ Header(u) = WithDevice(base) /\ Header(u) \in Seq(Cells)
            /\ DOMAIN Header(u) = 1..Len(base) + 1 /\ Len(Header(u)) = Len(base) + 1
            /\ Header(u)[1] = base[1] /\ Header(u)[2] = base[2] /\ Header(u)[3] = Device
            /\ \A i \in 4..Len(base) + 1 : Header(u)[i] = base[i - 1]
BY HeaderWhole, BaseType, WithDeviceShape

LEMMA NetRow ==
  ASSUME NEW u, u.view = "net"
  PROVE  LET base == VisibleFields(u)
             row == DeviceRow(base, "net")
         IN /\ row \in Seq(Cells) /\ Len(row) = 3 + Cardinality(Mine(u))
            /\ row[1] = base[1] /\ row[2] = base[2] /\ row[3] = Device
            /\ \A j \in 1..Cardinality(Mine(u)) : row[3 + j] = PerInterface[j]
<1> DEFINE base == VisibleFields(u)
           row == DeviceRow(base, "net")
<1>1. base \in Seq(Cells) /\ Len(base) >= 2 /\ Device \in Cells
  BY BaseType
<1>2. PerInterface \in Seq(Cells) /\ Len(PerInterface) = Cardinality(Mine(u))
  <2>1. ToSet(DomainFields) \subseteq Cells
    BY DEF Cells
  <2> HIDE DEF Cells
  <2> QED
    BY <2>1, PerInterfaceShape
<1>3. row = SubSeq(base, 1, 2) \o <<Device>> \o PerInterface
  BY DEF DeviceRow
<1> HIDE DEF base, row
<1>4. /\ row \in Seq(Cells) /\ Len(row) = 3 + Len(PerInterface)
      /\ row[1] = base[1] /\ row[2] = base[2] /\ row[3] = Device
      /\ \A j \in 1..Len(PerInterface) : row[3 + j] = PerInterface[j]
  BY <1>1, <1>2, <1>3, RowShape
<1> QED
  BY <1>2, <1>4 DEF base, row

LEMMA DiskRow ==
  ASSUME NEW u, u.view = "disk"
  PROVE  LET base == VisibleFields(u)
             row == DeviceRow(base, "disk")
             totals == IF Len(base) >= 5 THEN 3 ELSE 0
         IN /\ row \in Seq(Cells) /\ Len(row) = 3 + totals + Len(PerDisk)
            /\ row[1] = base[1] /\ row[2] = base[2] /\ row[3] = Device
            /\ \A j \in 1..totals : row[3 + j] = base[2 + j]
            /\ \A j \in 1..Len(PerDisk) : row[3 + totals + j] = PerDisk[j]
<1> DEFINE base == VisibleFields(u)
           row == DeviceRow(base, "disk")
           totals == IF Len(base) >= 5 THEN 3 ELSE 0
           three == SubSeq(base, 3, IF Len(base) >= 5 THEN 5 ELSE 2)
           rest == three \o PerDisk
<1>1. /\ base \in Seq(Cells) /\ Len(base) \in Nat /\ Len(base) >= 2
      /\ Device \in Cells /\ PerDisk \in Seq(Cells)
  BY BaseType
<1>2. row = SubSeq(base, 1, 2) \o <<Device>> \o rest
  BY DEF DeviceRow
<1> HIDE DEF base, row
<1>3. /\ three \in Seq(Cells) /\ Len(three) = totals
      /\ \A j \in 1..totals : three[j] = base[2 + j]
  <2>1. CASE Len(base) >= 5
    <3>1. /\ SubSeq(base, 3, 5) \in Seq(Cells) /\ Len(SubSeq(base, 3, 5)) = 3
          /\ \A j \in 1..3 : SubSeq(base, 3, 5)[j] = base[2 + j]
      BY <1>1, <2>1
    <3> QED
      BY <2>1, <3>1
  <2>2. CASE ~(Len(base) >= 5)
    <3>1. SubSeq(base, 3, 2) = <<>>
      BY SubSeqEmpty
    <3>2. three = <<>> /\ totals = 0
      BY <2>2, <3>1
    <3> QED
      BY <3>2
  <2> QED
    BY <2>1, <2>2
<1>4. totals \in Nat /\ Len(PerDisk) \in Nat
  BY <1>1
<1> HIDE DEF three, totals
<1>5. /\ rest \in Seq(Cells) /\ Len(rest) = totals + Len(PerDisk)
      /\ \A j \in 1..totals : rest[j] = three[j]
      /\ \A j \in 1..Len(PerDisk) : rest[totals + j] = PerDisk[j]
  <2>1. /\ rest \in Seq(Cells) /\ Len(rest) = Len(three) + Len(PerDisk)
        /\ \A j \in 1..Len(three) + Len(PerDisk) :
             rest[j] = IF j <= Len(three) THEN three[j] ELSE PerDisk[j - Len(three)]
    BY <1>1, <1>3, ConcatProperties
  <2> HIDE DEF rest
  <2>2. \A j \in 1..totals : rest[j] = three[j]
    BY <1>3, <1>4, <2>1
  <2>3. \A j \in 1..Len(PerDisk) : rest[totals + j] = PerDisk[j]
    <3> SUFFICES ASSUME NEW j \in 1..Len(PerDisk) PROVE rest[totals + j] = PerDisk[j]
      OBVIOUS
    <3>1. /\ totals + j \in 1..totals + Len(PerDisk) /\ ~(totals + j <= totals)
          /\ totals + j - totals = j
      BY <1>4
    <3> QED
      BY <1>3, <2>1, <3>1
  <2> QED
    BY <1>3, <2>1, <2>2, <2>3
<1> HIDE DEF rest
<1>6. /\ row \in Seq(Cells) /\ Len(row) = 3 + Len(rest)
      /\ row[1] = base[1] /\ row[2] = base[2] /\ row[3] = Device
      /\ \A j \in 1..Len(rest) : row[3 + j] = rest[j]
  BY <1>1, <1>2, <1>5, RowShape
<1>7. /\ \A j \in 1..totals : row[3 + j] = base[2 + j]
      /\ \A j \in 1..Len(PerDisk) : row[3 + totals + j] = PerDisk[j]
  <2>1. \A j \in 1..totals : row[3 + j] = base[2 + j]
    BY <1>3, <1>4, <1>5, <1>6
  <2>2. \A j \in 1..Len(PerDisk) : row[3 + totals + j] = PerDisk[j]
    <3> SUFFICES ASSUME NEW j \in 1..Len(PerDisk)
                 PROVE  row[3 + totals + j] = PerDisk[j]
      OBVIOUS
    <3>1. totals + j \in 1..Len(rest) /\ 3 + totals + j = 3 + (totals + j)
      BY <1>4, <1>5
    <3> QED
      BY <1>5, <1>6, <3>1
  <2> QED
    BY <2>1, <2>2
<1>8. Len(row) = 3 + totals + Len(PerDisk)
  BY <1>4, <1>5, <1>6
<1> QED
  BY <1>6, <1>7, <1>8 DEF base, row, totals

(* While only trailing fields are hidden, the row of a device agrees with  *)
(* the header as far as both reach.                                        *)
LEMMA NetRowAligned ==
  ASSUME NEW u, u.view = "net", TailHidden(u)
  PROVE  \A i \in 1..Len(Header(u)) :
           i <= Len(DeviceRow(VisibleFields(u), "net"))
             => DeviceRow(VisibleFields(u), "net")[i] = Header(u)[i]
<1> DEFINE base == VisibleFields(u)
           row == DeviceRow(base, "net")
           head == Header(u)
           n == Cardinality(Seen(u))
           m == Cardinality(Mine(u))
<1>0. Expanded(u)
  BY DEF Expanded
<1>1. /\ Len(base) = 2 + n /\ n \in Nat /\ m \in Nat /\ n <= m
      /\ Seen(u) \subseteq Mine(u) /\ Mine(u) \subseteq Nat
  BY <1>0, SeenIndices
<1>2. \A j \in 1..n : \E i \in Seen(u) : Place(i, Mine(u)) = j
                                         /\ base[2 + j] = DomainFields[i]
  BY <1>0, SeenColumns
<1>3. \A i \in Mine(u) : PerInterface[Place(i, Mine(u))] = DomainFields[i]
  BY PerInterfaceShape
<1>4. \A j \in 1..n : PerInterface[j] = base[2 + j]
  BY <1>1, <1>2, <1>3
<1>5. /\ row[1] = base[1] /\ row[2] = base[2] /\ row[3] = Device
      /\ \A j \in 1..m : row[3 + j] = PerInterface[j]
  BY NetRow
<1>6. /\ Len(head) = Len(base) + 1
      /\ head[1] = base[1] /\ head[2] = base[2] /\ head[3] = Device
      /\ \A i \in 4..Len(base) + 1 : head[i] = base[i - 1]
  BY <1>0, HeaderType
<1> HIDE DEF base, row, head, n, m
<1>7. \A j \in 1..n : row[3 + j] = head[3 + j]
  <2> SUFFICES ASSUME NEW j \in 1..n PROVE row[3 + j] = head[3 + j]
    OBVIOUS
  <2>1. 3 + j \in 4..Len(base) + 1 /\ (3 + j) - 1 = 2 + j /\ j \in 1..m
    BY <1>1
  <2> QED
    BY <1>4, <1>5, <1>6, <2>1
<1>8. \A i \in 1..Len(head) : i = 1 \/ i = 2 \/ i = 3 \/ (\E j \in 1..n : i = 3 + j)
  <2> SUFFICES ASSUME NEW i \in 1..Len(head), i # 1, i # 2, i # 3
               PROVE  \E j \in 1..n : i = 3 + j
    OBVIOUS
  <2>1. Len(head) = n + 3 /\ n \in Nat
    BY <1>1, <1>6
  <2>2. i - 3 \in 1..n /\ i = 3 + (i - 3)
    BY <2>1
  <2> QED
    BY <2>2
<1>9. \A i \in 1..Len(head) : row[i] = head[i]
  BY <1>5, <1>6, <1>7, <1>8
<1> QED
  BY <1>9 DEF base, row, head

LEMMA DiskRowAligned ==
  ASSUME NEW u, u.view = "disk", TailHidden(u)
  PROVE  \A i \in 1..Len(Header(u)) :
           i <= Len(DeviceRow(VisibleFields(u), "disk"))
             => DeviceRow(VisibleFields(u), "disk")[i] = Header(u)[i]
<1> DEFINE base == VisibleFields(u)
           row == DeviceRow(base, "disk")
           head == Header(u)
           n == Cardinality(Seen(u))
           totals == IF Len(base) >= 5 THEN 3 ELSE 0
<1>0. Expanded(u)
  BY DEF Expanded
<1>1. /\ Len(base) = 2 + n /\ n \in Nat /\ IsFiniteSet(Seen(u))
      /\ Seen(u) \subseteq Mine(u) /\ Mine(u) \subseteq Nat
  BY <1>0, SeenIndices
<1>2. \A j \in 1..n : \E i \in Seen(u) : Place(i, Mine(u)) = j
                                         /\ base[2 + j] = DomainFields[i]
  BY <1>0, SeenColumns
<1>3. \A i \in Mine(u) : Place(i, Mine(u)) - 3 \in DOMAIN PerDisk
        => PerDisk[Place(i, Mine(u)) - 3] = DomainFields[i]
  BY FieldsAssumption DEF Mine
<1>4. /\ Len(row) = 3 + totals + Len(PerDisk)
      /\ row[1] = base[1] /\ row[2] = base[2] /\ row[3] = Device
      /\ \A j \in 1..totals : row[3 + j] = base[2 + j]
      /\ \A j \in 1..Len(PerDisk) : row[3 + totals + j] = PerDisk[j]
  BY DiskRow
<1>5. /\ Len(head) = Len(base) + 1
      /\ head[1] = base[1] /\ head[2] = base[2] /\ head[3] = Device
      /\ \A i \in 4..Len(base) + 1 : head[i] = base[i - 1]
  BY <1>0, HeaderType
<1>6. n = 0 \/ n >= 3
  <2>1. Seen(u) = {} => n = 0
    BY FS_EmptySet
  <2> QED
    BY <2>1 DEF TailHidden
<1>7. DOMAIN PerDisk = 1..Len(PerDisk) /\ Len(PerDisk) \in Nat
  BY Tables
<1>8. totals = 3 \/ n = 0
  BY <1>1, <1>6
<1> HIDE DEF base, row, head, n, totals
<1>9. ASSUME NEW j \in 1..n, 3 + j <= Len(row)
      PROVE  row[3 + j] = head[3 + j]
  <2>1. head[3 + j] = base[2 + j]
    <3>1. 3 + j \in 4..Len(base) + 1 /\ (3 + j) - 1 = 2 + j
      BY <1>1
    <3> QED
      BY <1>5, <3>1
  <2>2. totals = 3
    BY <1>1, <1>8
  <2>3. CASE j <= 3
    BY <1>1, <1>4, <2>1, <2>2, <2>3
  <2>4. CASE j > 3
    <3>1. PICK i \in Seen(u) : Place(i, Mine(u)) = j /\ base[2 + j] = DomainFields[i]
      BY <1>2
    <3>2. j - 3 \in 1..Len(PerDisk) /\ 3 + totals + (j - 3) = 3 + j
      BY <1>1, <1>4, <1>7, <1>9, <2>2, <2>4
    <3>3. PerDisk[j - 3] = DomainFields[i]
      BY <1>1, <1>3, <1>7, <3>1, <3>2
    <3>4. row[3 + j] = PerDisk[j - 3]
      BY <1>4, <3>2
    <3> QED
      BY <2>1, <3>1, <3>3, <3>4
  <2> QED
    BY <1>1, <2>3, <2>4
<1>10. \A i \in 1..Len(head) : i = 1 \/ i = 2 \/ i = 3 \/ (\E j \in 1..n : i = 3 + j)
  <2> SUFFICES ASSUME NEW i \in 1..Len(head), i # 1, i # 2, i # 3
               PROVE  \E j \in 1..n : i = 3 + j
    OBVIOUS
  <2>1. Len(head) = n + 3 /\ n \in Nat
    BY <1>1, <1>5
  <2>2. i - 3 \in 1..n /\ i = 3 + (i - 3)
    BY <2>1
  <2> QED
    BY <2>2
<1>11. \A i \in 1..Len(head) : i <= Len(row) => row[i] = head[i]
  BY <1>4, <1>5, <1>9, <1>10
<1> QED
  BY <1>11 DEF base, row, head

(* The rows of an expanded view: cut, of a VM and one of its devices.      *)
Listed(d, view) ==
  IF view = "net" /\ Devices[d] # {} THEN Devices[d] ELSE {"-"}

Cut(full, u) ==
  Pick(full, (1..Len(Header(u))) \cap DOMAIN full)

LEMMA ExpandedRow ==
  ASSUME NEW u, Expanded(u), NEW r \in Rows(u)
  PROVE  \E d \in VMs, full \in {DeviceRow(VisibleFields(u), u.view), Header(u)} :
           /\ r.vm = d /\ r.values = Cut(full, u)
           /\ r.device \in IF Devices[d] # {} THEN Devices[d] ELSE {"-"}
<1>1. /\ Header(u) = WithDevice(VisibleFields(u))
      /\ KeepIndices(WithDevice(VisibleFields(u)), u.hidden) = 1..Len(Header(u))
      /\ VisibleValues(u) = VisibleFields(u)
  BY HeaderWhole, HeaderType, BaseType
<1>2. PICK q \in ExpandedRows(VisibleFields(u), u.view) :
        r = [q EXCEPT !.values = Pick(@, (1..Len(Header(u))) \cap DOMAIN @)]
  BY <1>1 DEF Rows
<1>3. PICK d \in VMs : q \in RowsOf(d, VisibleFields(u), u.view)
  BY <1>2 DEF ExpandedRows
<1>4. CASE Devices[d] = {}
  <2>1. q = [vm |-> d, device |-> "-", values |-> Header(u)]
    BY <1>1, <1>3, <1>4 DEF RowsOf
  <2>2. r.vm = d /\ r.device = "-" /\ r.values = Cut(Header(u), u)
    BY <1>2, <2>1 DEF Cut
  <2> QED
    BY <1>4, <2>2
<1>5. CASE Devices[d] # {}
  <2>1. PICK e \in Devices[d] : q = [vm |-> d, device |-> e,
                          values |-> DeviceRow(VisibleFields(u), u.view)]
    BY <1>3, <1>5 DEF RowsOf
  <2>2. /\ r.vm = d /\ r.device = e
        /\ r.values = Cut(DeviceRow(VisibleFields(u), u.view), u)
    BY <1>2, <2>1 DEF Cut
  <2> QED
    BY <1>5, <2>2
<1> QED
  BY <1>4, <1>5

LEMMA CutValues ==
  ASSUME NEW u, NEW full, full \in Seq(ToSet(full))
  PROVE  /\ \A i \in DOMAIN Cut(full, u) :
              i \in 1..Len(Header(u)) /\ i \in 1..Len(full) /\ Cut(full, u)[i] = full[i]
         /\ Len(full) >= Len(Header(u)) => Len(Cut(full, u)) = Len(Header(u))
BY HeaderShape, CutRow DEF Cut

LEMMA FullRowType ==
  ASSUME NEW u, Expanded(u),
         NEW full \in {DeviceRow(VisibleFields(u), u.view), Header(u)}
  PROVE  full \in Seq(ToSet(full))
<1>1. full \in Seq(Cells)
  <2>1. CASE u.view = "net"
    BY <2>1, NetRow, HeaderType
  <2>2. CASE u.view = "disk"
    BY <2>2, DiskRow, HeaderType
  <2> QED
    BY <2>1, <2>2 DEF Expanded
<1> QED
  BY <1>1 DEF ToSet

(* A terminal that shows domains shows them for the settings.              *)
LEMMA DomainsTerminal ==
  ASSUME Inductive, terminal.mode = "domains"
  PROVE  /\ OnDomains(ui) /\ terminal = DomainPicture(ui)
         /\ ui.sortColumn < Len(Header(ui)) /\ ui.sortColumn \in Nat
         /\ terminal.view = ui.view /\ terminal.fields = Header(ui)
         /\ terminal.rows = {r \in Rows(ui) : Len(r.values) > ui.sortColumn}
<1>1. terminal # Blank
  BY DEF Blank
<1>2. terminal = Picture(ui) /\ (OnDomains(ui) => ui.sortColumn < Len(Header(ui)))
  BY <1>1 DEF Inductive, Shown
<1>3. OnDomains(ui)
  BY <1>2, PictureModes DEF OnDomains
<1>4. terminal = DomainPicture(ui)
  BY <1>2, <1>3, PictureCases DEF OnDomains
<1>5. ui.sortColumn \in Nat
  BY NcursesAssumption DEF Inductive, Settings, Columns
<1> QED
  BY <1>2, <1>3, <1>4, <1>5 DEF DomainPicture, ListedRows

(* In the other views a row has the values of the visible fields.          *)
LEMMA PlainRow ==
  ASSUME NEW u, ~Expanded(u)
  PROVE  /\ Rows(u) = {[vm |-> d, device |-> "-", values |-> Header(u)] : d \in VMs}
         /\ Header(u) \in Seq(Cells)
BY BaseType DEF Rows, Header

(* Whichever fields are hidden, every value of a view that is not expanded *)
(* stands in the column of its field.                                      *)
THEOREM PlainValuesAligned == Spec => []PlainViewsAligned
<1>1. Inductive => PlainViewsAligned
  <2> SUFFICES ASSUME Inductive, terminal.mode = "domains",
                      terminal.view \notin {"net", "disk"}, NEW r \in terminal.rows
               PROVE  RowAligned(r)
    BY DEF PlainViewsAligned, AllAligned
  <2>1. ~Expanded(ui) /\ terminal.fields = Header(ui) /\ r \in Rows(ui)
    BY DomainsTerminal DEF Expanded
  <2>2. r.values = Header(ui)
    BY <2>1, PlainRow
  <2> QED
    BY <2>1, <2>2 DEF RowAligned
<1> QED
  BY <1>1, UIInvariant, PTL

(* In the views expanded per device, values stand in the columns of their  *)
(* fields while only trailing fields are hidden.                           *)
THEOREM DeviceValuesAligned == Spec => []TailHiddenAligned
<1>1. Inductive => TailHiddenAligned
  <2> SUFFICES ASSUME Inductive, terminal.mode = "domains", OnlyTailHidden,
                      NEW r \in terminal.rows
               PROVE  RowAligned(r)
    BY DEF TailHiddenAligned, AllAligned
  <2>1. /\ terminal.fields = Header(ui) /\ r \in Rows(ui) /\ TailHidden(ui)
        /\ DOMAIN Header(ui) = 1..Len(Header(ui))
    <3>1. TailHidden(ui)
      BY DEF OnlyTailHidden, TailHidden, Seen, Mine
    <3>2. Header(ui) \in Seq(Cells)
      BY PlainRow, HeaderType
    <3>3. DOMAIN Header(ui) = 1..Len(Header(ui))
      BY <3>2
    <3> QED
      BY <3>1, <3>3, DomainsTerminal
  <2>2. CASE ~Expanded(ui)
    <3>1. r.values = Header(ui)
      BY <2>1, <2>2, PlainRow
    <3> QED
      BY <2>1, <3>1 DEF RowAligned
  <2>3. CASE Expanded(ui)
    <3>1. PICK full \in {DeviceRow(VisibleFields(ui), ui.view), Header(ui)} :
            r.values = Cut(full, ui)
      BY <2>1, <2>3, ExpandedRow
    <3>2. \A i \in DOMAIN Cut(full, ui) :
            i \in 1..Len(Header(ui)) /\ i \in 1..Len(full) /\ Cut(full, ui)[i] = full[i]
      BY <2>3, CutValues, FullRowType
    <3>3. \A i \in 1..Len(Header(ui)) : i \in 1..Len(full) => full[i] = Header(ui)[i]
      <4>1. CASE full = Header(ui)
        BY <4>1
      <4>2. CASE full = DeviceRow(VisibleFields(ui), ui.view)
        <5>1. \A i \in 1..Len(Header(ui)) : i <= Len(full) => full[i] = Header(ui)[i]
          BY <2>1, <2>3, <4>2, NetRowAligned, DiskRowAligned DEF Expanded
        <5>2. \A i \in 1..Len(full) : i <= Len(full)
          <6>1. full \in Seq(ToSet(full))
            BY <2>3, FullRowType
          <6>2. Len(full) \in Nat
            BY <6>1
          <6> QED
            BY <6>2
        <5> QED
          BY <5>1, <5>2
      <4> QED
        BY <4>1, <4>2
    <3> QED
      BY <2>1, <3>1, <3>2, <3>3 DEF RowAligned
  <2> QED
    BY <2>2, <2>3
<1> QED
  BY <1>1, UIInvariant, PTL

(* Outside the disk view no row is shorter than the header.                *)
LEMMA RowsComplete ==
  ASSUME NEW u, u.view # "disk", NEW r \in Rows(u)
  PROVE  Len(r.values) = Len(Header(u))
<1>1. CASE ~Expanded(u)
  BY <1>1, PlainRow
<1>2. CASE Expanded(u)
  <2>1. u.view = "net"
    BY <1>2 DEF Expanded
  <2>2. PICK full \in {DeviceRow(VisibleFields(u), "net"), Header(u)} :
          r.values = Cut(full, u)
    BY <1>2, <2>1, ExpandedRow
  <2>3. Len(full) >= Len(Header(u))
    <3>1. Len(Header(u)) \in Nat
      BY HeaderShape
    <3>2. CASE full = Header(u)
      BY <3>1, <3>2
    <3>3. CASE full = DeviceRow(VisibleFields(u), "net")
      <4>1. Len(full) = 3 + Cardinality(Mine(u))
        BY <2>1, <3>3, NetRow
      <4>2. Len(Header(u)) = 2 + Cardinality(Seen(u)) + 1
        BY <1>2, HeaderType, SeenIndices
      <4>3. /\ Cardinality(Mine(u)) \in Nat /\ Cardinality(Seen(u)) \in Nat
            /\ Cardinality(Seen(u)) <= Cardinality(Mine(u))
        BY <1>2, SeenIndices
      <4> QED
        BY <4>1, <4>2, <4>3
    <3> QED
      BY <3>2, <3>3
  <2>4. Len(Cut(full, u)) = Len(Header(u))
    BY <1>2, <2>1, <2>2, <2>3, CutValues, FullRowType
  <2> QED
    BY <2>2, <2>4
<1> QED
  BY <1>1, <1>2

(* Each VM and each of its devices has a row.                              *)
LEMMA RowOfDevice ==
  ASSUME NEW u, NEW d \in VMs, NEW e \in Listed(d, u.view), u.view # "disk"
  PROVE  \E r \in Rows(u) : r.vm = d /\ r.device = e
<1>1. CASE ~Expanded(u)
  <2>1. e = "-"
    BY <1>1 DEF Listed, Expanded
  <2> DEFINE r == [vm |-> d, device |-> "-", values |-> Header(u)]
  <2>2. r \in Rows(u)
    BY <1>1, PlainRow
  <2>3. r.vm = d /\ r.device = "-"
    OBVIOUS
  <2> QED
    BY <2>1, <2>2, <2>3
<1>2. CASE Expanded(u)
  <2>1. u.view = "net" /\ VisibleValues(u) = VisibleFields(u)
    BY <1>2, BaseType DEF Expanded
  <2>2. PICK q \in RowsOf(d, VisibleFields(u), "net") :
          q.vm = d /\ q.device = e /\ q = [vm |-> d, device |-> e, values |-> q.values]
    <3>1. CASE Devices[d] = {}
      BY <2>1, <3>1 DEF Listed, RowsOf
    <3>2. CASE Devices[d] # {}
      <4> DEFINE q == [vm |-> d, device |-> e,
                       values |-> DeviceRow(VisibleFields(u), "net")]
      <4>1. e \in Devices[d]
        BY <2>1, <3>2 DEF Listed
      <4>2. q \in RowsOf(d, VisibleFields(u), "net")
        BY <3>2, <4>1 DEF RowsOf
      <4>3. q.vm = d /\ q.device = e /\ q = [vm |-> d, device |-> e, values |-> q.values]
        OBVIOUS
      <4> QED
        BY <4>2, <4>3
    <3> QED
      BY <3>1, <3>2
  <2>3. q \in ExpandedRows(VisibleValues(u), u.view)
    BY <2>1, <2>2 DEF ExpandedRows
  <2> DEFINE keep == KeepIndices(WithDevice(VisibleFields(u)), u.hidden)
             r == [q EXCEPT !.values = Pick(@, keep \cap DOMAIN @)]
  <2>4. r \in Rows(u)
    BY <1>2, <2>3 DEF Rows
  <2>5. r.vm = d /\ r.device = e
    BY <2>2
  <2> QED
    BY <2>4, <2>5
<1> QED
  BY <1>1, <1>2

(* Whatever column the rows are sorted by and whatever is hidden, no VM    *)
(* and none of its interfaces is missing outside the disk view.            *)
THEOREM NoVMMissing == Spec => []EveryVMListed
<1>1. Inductive => EveryVMListed
  <2> SUFFICES ASSUME Inductive, terminal.mode = "domains", terminal.view # "disk",
                      NEW d \in VMs
               PROVE  {r.device : r \in {x \in terminal.rows : x.vm = d}}
                        = Listed(d, terminal.view)
    BY DEF EveryVMListed, Listed
  <2>1. /\ terminal.view = ui.view /\ ui.view # "disk"
        /\ terminal.rows = {r \in Rows(ui) : Len(r.values) > ui.sortColumn}
        /\ ui.sortColumn < Len(Header(ui)) /\ ui.sortColumn \in Nat
        /\ Len(Header(ui)) \in Nat
    BY DomainsTerminal, HeaderShape
  <2>2. terminal.rows = Rows(ui)
    <3>1. \A r \in Rows(ui) : Len(r.values) > ui.sortColumn
      <4> SUFFICES ASSUME NEW r \in Rows(ui) PROVE Len(r.values) > ui.sortColumn
        OBVIOUS
      <4>1. Len(r.values) = Len(Header(ui))
        BY <2>1, RowsComplete
      <4> QED
        BY <2>1, <4>1
    <3> QED
      BY <2>1, <3>1
  <2>3. \A r \in Rows(ui) : r.vm = d => r.device \in Listed(d, ui.view)
    <3> SUFFICES ASSUME NEW r \in Rows(ui), r.vm = d
                 PROVE  r.device \in Listed(d, ui.view)
      OBVIOUS
    <3>1. CASE ~Expanded(ui)
      <4>1. r.device = "-"
        BY <3>1, PlainRow
      <4> QED
        BY <3>1, <4>1 DEF Listed, Expanded
    <3>2. CASE Expanded(ui)
      <4>1. r.device \in IF Devices[d] # {} THEN Devices[d] ELSE {"-"}
        BY <3>2, ExpandedRow
      <4>2. ui.view = "net"
        BY <2>1, <3>2 DEF Expanded
      <4> QED
        BY <4>1, <4>2 DEF Listed
    <3> QED
      BY <3>1, <3>2
  <2>4. \A e \in Listed(d, ui.view) : \E r \in Rows(ui) : r.vm = d /\ r.device = e
    BY <2>1, RowOfDevice
  <2> QED
    BY <2>1, <2>2, <2>3, <2>4
<1> QED
  BY <1>1, UIInvariant, PTL

----------------------------------------------------------------------------
(* The rows of one printing cycle.                                         *)

Groups == ToSet(Collectors) \cup {"general"}

\* While Print runs the fields are the general ones and then those of the
\* collectors merged so far, in their order.
FieldsMerged ==
  print # "idle" =>
    /\ Len(fields) = merged + 1 /\ merged <= Len(Collectors)
    /\ fields[1] = "general"
    /\ \A i \in 1..merged : fields[i + 1] = Collectors[i]

\* Every row is a part of the fields in their order.  Who is steady has been
\* cached all along, and has had a value appended with every field.
PrintInv ==
  /\ fields \in Seq(Groups) /\ merged \in Nat
  /\ FieldsMerged
  /\ \A u \in DOMAIN rows : rows[u] \in Seq(Groups) /\ IsSubsequence(rows[u], fields)
  /\ steady \subseteq Cached
  /\ \A u \in steady : u \in DOMAIN rows /\ rows[u] = fields

LEMMA PrintInitInv == ASSUME PrintInit PROVE PrintInv
BY DEF PrintInit, PrintInv, FieldsMerged

LEMMA EmptySubsequence ==
  ASSUME NEW S, NEW t \in Seq(S)
  PROVE  IsSubsequence(<<>>, t)
<1> DEFINE at == [i \in {} |-> 1]
<1>1. at \in [DOMAIN <<>> -> DOMAIN t]
  OBVIOUS
<1> QED
  BY <1>1 DEF IsSubsequence

\* The sequence may grow at its end, and the part may do without.
LEMMA SubsequenceOfLonger ==
  ASSUME NEW S, NEW s \in Seq(S), NEW t \in Seq(S), NEW x \in S, IsSubsequence(s, t)
  PROVE  IsSubsequence(s, Append(t, x))
<1>1. PICK at \in [DOMAIN s -> DOMAIN t] :
         /\ \A i \in DOMAIN s : s[i] = t[at[i]]
         /\ \A i, j \in DOMAIN s : i < j => at[i] < at[j]
  BY DEF IsSubsequence
<1>2. DOMAIN t \subseteq DOMAIN Append(t, x)
  OBVIOUS
<1>3. at \in [DOMAIN s -> DOMAIN Append(t, x)]
  BY <1>2
<1>4. \A i \in DOMAIN s : s[i] = Append(t, x)[at[i]]
  BY <1>1
<1> QED
  BY <1>1, <1>3, <1>4 DEF IsSubsequence

\* An element appended to both is at the end of both.
LEMMA SubsequenceAppended ==
  ASSUME NEW S, NEW s \in Seq(S), NEW t \in Seq(S), NEW x \in S, IsSubsequence(s, t)
  PROVE  IsSubsequence(Append(s, x), Append(t, x))
<1>1. PICK at \in [DOMAIN s -> DOMAIN t] :
         /\ \A i \in DOMAIN s : s[i] = t[at[i]]
         /\ \A i, j \in DOMAIN s : i < j => at[i] < at[j]
  BY DEF IsSubsequence
<1>2. PICK n \in Nat : n = Len(s) /\ DOMAIN s = 1..n /\ DOMAIN Append(s, x) = 1..(n + 1)
  OBVIOUS
<1>3. PICK m \in Nat : m = Len(t) /\ DOMAIN t = 1..m /\ DOMAIN Append(t, x) = 1..(m + 1)
  OBVIOUS
<1> DEFINE grown == [i \in 1..(n + 1) |-> IF i <= n THEN at[i] ELSE m + 1]
<1>4. \A i \in 1..n : at[i] \in 1..m
  BY <1>1, <1>2, <1>3
<1>5. grown \in [1..(n + 1) -> 1..(m + 1)]
  BY <1>4
<1>6. grown[n + 1] = m + 1 /\ \A i \in 1..n : i \in 1..(n + 1) /\ grown[i] = at[i]
  OBVIOUS
<1> HIDE DEF grown
<1>7. \A i \in 1..(n + 1) : Append(s, x)[i] = Append(t, x)[grown[i]]
  <2>1. \A i \in 1..n : Append(s, x)[i] = s[i]
    BY <1>2
  <2>2. \A i \in 1..m : Append(t, x)[i] = t[i]
    BY <1>3
  <2>3. Append(s, x)[n + 1] = x /\ Append(t, x)[m + 1] = x
    BY <1>2, <1>3
  <2>4. \A i \in 1..n : s[i] = t[at[i]]
    BY <1>1, <1>2
  <2>5. \A i \in 1..n : Append(s, x)[i] = Append(t, x)[at[i]]
    BY <1>4, <2>1, <2>2, <2>4
  <2> SUFFICES ASSUME NEW i \in 1..(n + 1)
               PROVE  Append(s, x)[i] = Append(t, x)[grown[i]]
    OBVIOUS
  <2>6. CASE i \in 1..n
    BY <1>6, <2>5, <2>6
  <2>7. CASE i = n + 1
    BY <1>6, <2>3, <2>7
  <2>8. i \in 1..n \/ i = n + 1
    OBVIOUS
  <2> QED
    BY <2>6, <2>7, <2>8
<1>8. \A i, j \in 1..(n + 1) : i < j => grown[i] < grown[j]
  <2> SUFFICES ASSUME NEW i \in 1..(n + 1), NEW j \in 1..(n + 1), i < j
               PROVE  grown[i] < grown[j]
    OBVIOUS
  <2>1. i \in 1..n /\ grown[i] = at[i]
    BY <1>6
  <2>2. CASE j \in 1..n
    BY <1>1, <1>2, <1>6, <2>1, <2>2
  <2>3. CASE j = n + 1
    BY <1>4, <1>6, <2>1, <2>3
  <2> QED
    BY <2>2, <2>3
<1> QED
  BY <1>2, <1>3, <1>5, <1>7, <1>8 DEF IsSubsequence

\* The pass of a collector.
LEMMA MergePreserves == ASSUME PrintInv, MergeCollector PROVE PrintInv'
<1> DEFINE c == Collectors[merged + 1]
           begun(u) == IF u \in DOMAIN rows THEN rows[u] ELSE <<>>
<1>1. c \in Groups
  <2>1. merged + 1 \in 1..Len(Collectors)
    BY PrintAssumption DEF MergeCollector, PrintInv
  <2> QED
    BY <2>1, PrintAssumption DEF Groups
<1>2. /\ fields' = Append(fields, c) /\ merged' = merged + 1
      /\ steady' = steady \cap Cached /\ domains' = domains
      /\ rows' = [u \in DOMAIN rows \cup Cached |->
                    begun(u) \o (IF u \in Cached THEN <<c>> ELSE <<>>)]
  BY DEF MergeCollector
<1>3. FieldsMerged'
  <2>1. /\ print # "idle" /\ merged < Len(Collectors) /\ fields[1] = "general"
        /\ Len(fields) = merged + 1 /\ fields \in Seq(Groups) /\ merged \in Nat
        /\ \A i \in 1..merged : fields[i + 1] = Collectors[i]
    BY DEF MergeCollector, PrintInv, FieldsMerged
  <2>2. Len(fields') = merged' + 1 /\ merged' <= Len(Collectors)
    BY <1>1, <1>2, <2>1, PrintAssumption
  <2>3. \A i \in 1..(merged + 1) : fields'[i] = fields[i]
    BY <1>1, <1>2, <2>1
  <2>4. fields'[merged + 2] = Collectors[merged + 1]
    BY <1>1, <1>2, <2>1
  <2>5. \A i \in 1..merged' : fields'[i + 1] = Collectors[i]
    <3> SUFFICES ASSUME NEW i \in 1..(merged + 1) PROVE fields'[i + 1] = Collectors[i]
      BY <1>2
    <3>1. CASE i \in 1..merged
      BY <2>1, <2>3, <3>1
    <3>2. CASE i = merged + 1
      BY <2>1, <2>4, <3>2
    <3> QED
      BY <2>1, <3>1, <3>2
  <2> QED
    BY <2>1, <2>2, <2>3, <2>5 DEF FieldsMerged
<1> HIDE DEF c
<1>4. ASSUME NEW u \in DOMAIN rows'
      PROVE  rows'[u] \in Seq(Groups) /\ IsSubsequence(rows'[u], fields')
  <2>1. begun(u) \in Seq(Groups) /\ IsSubsequence(begun(u), fields) /\ fields \in Seq(Groups)
    BY EmptySubsequence DEF PrintInv
  <2>2. u \in DOMAIN rows \cup Cached
    BY <1>2
  <2> HIDE DEF begun
  <2>3. CASE u \in Cached
    <3>1. rows'[u] = begun(u) \o <<c>>
      BY <1>2, <2>2, <2>3
    <3>2. begun(u) \o <<c>> = Append(begun(u), c) /\ Append(begun(u), c) \in Seq(Groups)
      BY <1>1, <2>1
    <3>3. IsSubsequence(Append(begun(u), c), Append(fields, c))
      BY <1>1, <2>1, SubsequenceAppended
    <3> QED
      BY <1>2, <3>1, <3>2, <3>3
  <2>4. CASE u \notin Cached
    <3>1. rows'[u] = begun(u) \o <<>>
      BY <1>2, <2>2, <2>4
    <3>2. begun(u) \o <<>> = begun(u)
      BY <2>1
    <3>3. IsSubsequence(begun(u), Append(fields, c))
      BY <1>1, <2>1, SubsequenceOfLonger
    <3> QED
      BY <1>2, <2>1, <3>1, <3>2, <3>3
  <2> QED
    BY <2>3, <2>4
<1>5. ASSUME NEW u \in steady' PROVE u \in DOMAIN rows' /\ rows'[u] = fields'
  <2>1. u \in steady /\ u \in Cached
    BY <1>2
  <2>2. rows'[u] = fields \o <<c>>
    BY <1>2, <2>1 DEF PrintInv
  <2>3. fields \o <<c>> = Append(fields, c)
    BY <1>1 DEF PrintInv
  <2> QED
    BY <1>2, <2>1, <2>2, <2>3
<1>6. fields' \in Seq(Groups) /\ merged' \in Nat
  BY <1>1, <1>2 DEF PrintInv
<1>7. steady' \subseteq Cached'
  BY <1>2 DEF Cached
<1> QED
  BY <1>3, <1>4, <1>5, <1>6, <1>7 DEF PrintInv

\* A value is its own part of the fields.
LEMMA WholeSubsequence ==
  ASSUME NEW S, NEW t \in Seq(S)
  PROVE  IsSubsequence(t, t)
<1> DEFINE at == [i \in DOMAIN t |-> i]
<1>1. at \in [DOMAIN t -> DOMAIN t]
  OBVIOUS
<1>2. \A i \in DOMAIN t : t[i] = t[at[i]]
  OBVIOUS
<1>3. \A i, j \in DOMAIN t : i < j => at[i] < at[j]
  OBVIOUS
<1> QED
  BY <1>1, <1>2, <1>3 DEF IsSubsequence

LEMMA PrintNextInv == PrintInv /\ [PrintNext]_cycleVars => PrintInv'
<1> SUFFICES ASSUME PrintInv, [PrintNext]_cycleVars PROVE PrintInv'
  OBVIOUS
<1>1. CASE PrintGeneral
  <2>1. fields' = <<"general">> /\ merged' = 0 /\ steady' = Cached /\ Cached' = Cached
        /\ rows' = [u \in Cached |-> <<"general">>]
    BY <1>1 DEF PrintGeneral, Cached
  <2>2. <<"general">> \in Seq(Groups)
    BY DEF Groups
  <2>3. IsSubsequence(<<"general">>, <<"general">>)
    BY <2>2, WholeSubsequence
  <2>4. FieldsMerged'
    BY <2>1, PrintAssumption DEF FieldsMerged
  <2> QED
    BY <2>1, <2>2, <2>3, <2>4 DEF PrintInv
<1>2. CASE MergeCollector
  BY <1>2, MergePreserves
<1>3. CASE PrintScreen
  <2>1. FieldsMerged'
    BY <1>3 DEF PrintScreen, PrintInv, FieldsMerged
  <2> QED
    BY <1>3, <2>1 DEF PrintScreen, PrintInv, Cached
<1>4. CASE PrintEnd
  BY <1>4 DEF PrintEnd, PrintInv, FieldsMerged
<1>5. CASE Background
  <2>1. UNCHANGED <<print, merged, fields, rows>> /\ steady' \subseteq steady
        /\ steady' \subseteq Cached'
    BY <1>5 DEF Background, printVars, Cached
  <2>2. FieldsMerged'
    BY <2>1 DEF PrintInv, FieldsMerged
  <2> QED
    BY <2>1, <2>2 DEF PrintInv
<1>6. CASE UNCHANGED cycleVars
  BY <1>6 DEF cycleVars, printVars, PrintInv, FieldsMerged, Cached
<1> QED
  BY <1>1, <1>2, <1>3, <1>4, <1>5, <1>6 DEF PrintNext

LEMMA PrintInvariant == PrintSpec => []PrintInv
BY PrintInitInv, PrintNextInv, PTL DEF PrintSpec

(* A VM that stays in the cache while Print runs has a complete row, each  *)
(* value under its own field, whatever lookups and collects do to others.  *)
THEOREM SteadyRows == PrintSpec => []SteadyRowsAligned
<1>1. PrintInv => SteadyRowsAligned
  BY DEF PrintInv, SteadyRowsAligned
<1> QED
  BY <1>1, PrintInvariant, PTL

(* No row on the screen has a value without a field or a value twice, for  *)
(* any VMs that appear and disappear between the passes of the collectors. *)
THEOREM NoValueTwice == PrintSpec => []RowsFit
<1>1. PrintInv => RowsFit
  <2> SUFFICES ASSUME PrintInv, print = "screen"
               PROVE  IsInjective(fields)
    BY DEF PrintInv, RowsFit
  <2>1. /\ Len(fields) = merged + 1 /\ merged <= Len(Collectors) /\ merged \in Nat
        /\ fields[1] = "general" /\ fields \in Seq(Groups)
        /\ \A i \in 1..merged : fields[i + 1] = Collectors[i]
    BY DEF PrintInv, FieldsMerged
  <2>2. DOMAIN fields = 1..(merged + 1)
    BY <2>1
  <2>3. \A k \in 1..merged : Collectors[k] # "general"
    BY <2>1, PrintAssumption
  <2>4. \A k, l \in 1..merged : Collectors[k] = Collectors[l] => k = l
    BY <2>1, PrintAssumption DEF IsInjective
  <2>5. \A i \in 2..(merged + 1) : i - 1 \in 1..merged /\ fields[i] = Collectors[i - 1]
    <3> SUFFICES ASSUME NEW i \in 2..(merged + 1)
                 PROVE  i - 1 \in 1..merged /\ fields[i] = Collectors[i - 1]
      OBVIOUS
    <3>1. i - 1 \in 1..merged /\ (i - 1) + 1 = i
      BY <2>1
    <3> QED
      BY <2>1, <3>1
  <2>6. ASSUME NEW i \in 1..(merged + 1), NEW j \in 1..(merged + 1), fields[i] = fields[j]
        PROVE  i = j
    <3>1. CASE i = 1 /\ j # 1
      BY <2>1, <2>3, <2>5, <2>6, <3>1
    <3>2. CASE i # 1 /\ j = 1
      BY <2>1, <2>3, <2>5, <2>6, <3>2
    <3>3. CASE i # 1 /\ j # 1
      <4>1. i - 1 = j - 1
        BY <2>1, <2>4, <2>5, <2>6, <3>3
      <4> QED
        BY <2>1, <4>1
    <3> QED
      BY <3>1, <3>2, <3>3
  <2> QED
    BY <2>2, <2>6 DEF IsInjective
<1> QED
  BY <1>1, PrintInvariant, PTL

=============================================================================
