\* Ids used again, by a thread of any kind, during lookups and collects.
SPECIFICATION Spec
CONSTANTS
  Tids = {t1, t2}
  MaxThreads = 3
INVARIANTS NothingInherited CountedOnce
PROPERTIES RatesSettle
