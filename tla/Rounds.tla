------------------------------- MODULE Rounds -------------------------------
(***************************************************************************)
(* What the lookup and collect runners of proxtop promise together,        *)
(* without threads, channel or WaitGroup: discovery rounds and collect     *)
(* rounds alternate, collection never overtakes discovery and discovery    *)
(* never runs further ahead than MaxAhead rounds, and the program finishes *)
(* only when every discovery round has had its collect round.              *)
(***************************************************************************)
EXTENDS Integers

CONSTANTS
  Runs,     \* -1 for no bound, or a natural number: config.Options.Runs
  MaxAhead, \* how many rounds discovery may be ahead of collection
  CanQuit   \* a Boolean: whether the user can end the program at any time

VARIABLES
  looked,    \* discovery rounds completed
  collected, \* collect rounds started
  ending     \* "none", "finished" (all rounds made) or "quit" (by the user)

vars == <<looked, collected, ending>>

Init == looked = 0 /\ collected = 0 /\ ending = "none"

\* Rounds are numbered from -1 to Runs - 1: there is one more than the option
\* says (RunsExact of Runners is what the documentation says).
Discover ==
  /\ ending = "none"
  /\ Runs = -1 \/ looked < Runs + 1
  /\ looked < collected + MaxAhead
  /\ looked' = looked + 1
  /\ UNCHANGED <<collected, ending>>

Collect ==
  /\ ending = "none"
  /\ collected < looked
  /\ collected' = collected + 1
  /\ UNCHANGED <<looked, ending>>

Finish ==
  /\ ending = "none"
  /\ Runs # -1
  /\ looked = Runs + 1 /\ collected = looked
  /\ ending' = "finished"
  /\ UNCHANGED <<looked, collected>>

Quit ==
  /\ ending = "none" /\ CanQuit
  /\ ending' = "quit"
  /\ UNCHANGED <<looked, collected>>

Next == Discover \/ Collect \/ Finish \/ Quit

Spec == Init /\ [][Next]_vars /\ WF_vars(Collect)

=============================================================================
