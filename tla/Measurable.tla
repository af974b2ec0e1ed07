----------------------------- MODULE Measurable -----------------------------
(***************************************************************************)
(* models/measurable.go: a metric is a sequence of at most two             *)
(* measurements, the current one first and the previous one second.  Every *)
(* operation runs under the mutex of its Measurable, so it is one step of  *)
(* the modules that use it.                                                *)
(***************************************************************************)
EXTENDS Integers, Sequences

\* Faulty variants: one value is kept, all of them, or the new one last.
AddMeasurementOne(values, new) ==
  LET last == Len(values) - 1
      end  == IF last < 0 THEN Len(values) ELSE last
  IN <<new>> \o SubSeq(values, 1, end)

AddMeasurementAll(values, new) == <<new>> \o values

AddMeasurementLast(values, new) ==
  LET last == Len(values) - 1
      end  == IF last <= 0 THEN Len(values) ELSE last
  IN SubSeq(values, 1, end) \o <<new>>

\* AddMetricMeasurement: the new value first, and the one it follows.
AddMeasurement(values, new) ==
  LET last == Len(values) - 1
      end  == IF last <= 0 THEN Len(values) ELSE last
  IN <<new>> \o SubSeq(values, 1, end)

=============================================================================
