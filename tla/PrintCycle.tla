----------------------------- MODULE PrintCycle -----------------------------
(***************************************************************************)
(* runners/printer.go Print: the rows of one printing cycle are merged     *)
(* from several passes over the domain cache, one for the general fields   *)
(* and one per collector, while the lookup thread keeps changing it.  Of   *)
(* the lookup thread (on Proxmox or libvirt) only its operations on the    *)
(* cache are kept, in any order, so the result holds for both: that every  *)
(* step of theirs is a CacheStep is proved with those modules.             *)
(***************************************************************************)
EXTENDS DomainCache, SequencesExt

CONSTANTS
  UUIDs,     \* the UUIDs lookups may find
  Pids,      \* process ids of QEMU processes
  Collectors \* the collectors in the order the printer took them

ASSUME PrintAssumption ==
  /\ Collectors \in Seq(ToSet(Collectors))
  /\ IsInjective(Collectors) /\ "general" \notin ToSet(Collectors)

VARIABLES
  print,  \* "idle", or "merge" while Print runs, or "screen"
  merged, \* how many collectors have been merged
  fields, \* printable.DomainFields, one entry per group of columns
  rows,   \* printable.DomainValues, the groups of values of each UUID
  steady  \* history: the UUIDs cached in every state since Print began

printVars == <<print, merged, fields, rows>>
cycleVars == <<domains, printVars, steady>>

PrintInit ==
  /\ \E known \in SUBSET UUIDs :
       domains \in [known -> [pid : Pids, samples : {<<>>}]]
  /\ print = "idle" /\ merged = 0
  /\ fields = <<>> /\ rows = <<>> /\ steady = {}

\* The first pass: one row with the UUID and the name for each domain.
PrintGeneral ==
  /\ print = "idle"
  /\ print' = "merge" /\ merged' = 0
  /\ fields' = <<"general">>
  /\ rows' = [u \in Cached |-> <<"general">>]
  /\ steady' = Cached
  /\ UNCHANGED domains

\* Faulty variant: the values of a collector are appended once more.
MergeCollectorTwice ==
  /\ print = "merge" /\ merged < Len(Collectors)
  /\ merged' = merged + 1
  /\ LET c == Collectors[merged + 1] IN
       /\ fields' = Append(fields, c)
       /\ rows' = [u \in DOMAIN rows \cup Cached |->
                     (IF u \in DOMAIN rows THEN rows[u] ELSE <<>>)
                       \o (IF u \in Cached THEN <<c, c>> ELSE <<>>)]
  /\ steady' = steady \cap Cached
  /\ UNCHANGED <<domains, print>>

\* Faulty variant: a collector replaces the row instead of extending it.
MergeCollectorReplaced ==
  /\ print = "merge" /\ merged < Len(Collectors)
  /\ merged' = merged + 1
  /\ LET c == Collectors[merged + 1] IN
       /\ fields' = Append(fields, c)
       /\ rows' = [u \in DOMAIN rows \cup Cached |->
                     IF u \in Cached THEN <<c>> ELSE rows[u]]
  /\ steady' = steady \cap Cached
  /\ UNCHANGED <<domains, print>>

\* One collector's Print, over the cache as it is now; its values are
\* appended to the rows, and a row is begun for a UUID that has none.
MergeCollector ==
  /\ print = "merge" /\ merged < Len(Collectors)
  /\ merged' = merged + 1
  /\ LET c == Collectors[merged + 1] IN
       /\ fields' = Append(fields, c)
       /\ rows' = [u \in DOMAIN rows \cup Cached |->
                     (IF u \in DOMAIN rows THEN rows[u] ELSE <<>>)
                       \o (IF u \in Cached THEN <<c>> ELSE <<>>)]
  /\ steady' = steady \cap Cached
  /\ UNCHANGED <<domains, print>>

\* Printer.Screen(printable).
PrintScreen ==
  /\ print = "merge" /\ merged = Len(Collectors)
  /\ print' = "screen"
  /\ UNCHANGED <<domains, merged, fields, rows, steady>>

PrintEnd ==
  /\ print = "screen"
  /\ print' = "idle" /\ merged' = 0
  /\ fields' = <<>> /\ rows' = <<>> /\ steady' = {}
  /\ UNCHANGED domains

\* A step of a lookup round or a collect round.
Background ==
  /\ CacheStep(UUIDs, Pids)
  /\ steady' = steady \cap DOMAIN domains'
  /\ UNCHANGED printVars

PrintNext ==
  PrintGeneral \/ MergeCollector \/ PrintScreen \/ PrintEnd \/ Background

PrintSpec == PrintInit /\ [][PrintNext]_cycleVars

----------------------------------------------------------------------------
(* Properties.                                                             *)

\* s is t without some of its elements.
IsSubsequence(s, t) ==
  \E at \in [DOMAIN s -> DOMAIN t] :
    /\ \A i \in DOMAIN s : s[i] = t[at[i]]
    /\ \A i, j \in DOMAIN s : i < j => at[i] < at[j]

(* No row has a value without a field, or a value twice: the row is a      *)
(* subsequence of the fields, all different (json.go indexes the fields by *)
(* the position of the value, text and ncurses print them side by side).   *)
RowsFit ==
  print = "screen" =>
    /\ IsInjective(fields)
    /\ \A u \in DOMAIN rows : IsSubsequence(rows[u], fields)

(* A VM that stays in the cache while Print runs has a complete row, each  *)
(* value under its own field, whatever happens to the other VMs.           *)
SteadyRowsAligned ==
  print = "screen" => \A u \in steady : u \in DOMAIN rows /\ rows[u] = fields

=============================================================================
