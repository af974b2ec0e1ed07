-------------------------- MODULE MeasurableProofs --------------------------
(***************************************************************************)
(* What AddMetricMeasurement does to any metric that has at most two       *)
(* measurements.                                                           *)
(***************************************************************************)
EXTENDS Measurable, TLAPS

(* The metric has at most two measurements again, and not fewer than it    *)
(* had: the new one, and after it the one that was current, if any.        *)
LEMMA AddMeasurementValues ==
  ASSUME NEW S, NEW values \in Seq(S), Len(values) <= 2, NEW new \in S
  PROVE  LET added == AddMeasurement(values, new) IN
         /\ added \in Seq(S)
         /\ Len(added) >= 1 /\ Len(added) >= Len(values) /\ Len(added) <= 2
         /\ added[1] = new
         /\ Len(added) = 2 => 1 \in DOMAIN values /\ added[2] = values[1]
         /\ Len(added) = (IF Len(values) = 0 THEN 1 ELSE 2)
<1> DEFINE last == Len(values) - 1
           end == IF last <= 0 THEN Len(values) ELSE last
           head == SubSeq(values, 1, end)
<1>1. Len(values) \in Nat /\ DOMAIN values = 1..Len(values)
  OBVIOUS
<1>2. end \in {0, 1} /\ end <= Len(values) /\ end + 1 >= Len(values)
      /\ end = (IF Len(values) = 0 THEN 0 ELSE 1)
  BY <1>1
<1>3. head \in Seq(S) /\ Len(head) = end /\ (end = 1 => head[1] = values[1])
  BY <1>1, <1>2
<1>4. AddMeasurement(values, new) = <<new>> \o head
  BY DEF AddMeasurement
<1> HIDE DEF end, head
<1> QED
  BY <1>1, <1>2, <1>3, <1>4

=============================================================================
