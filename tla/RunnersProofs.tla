--------------------------- MODULE RunnersProofs ---------------------------
(***************************************************************************)
(* Proofs about the runner threads, for every value of Runs, every set of  *)
(* keys and either outcome of the printer's first wait.                    *)
(***************************************************************************)
EXTENDS Runners, TLAPS

(* The flags stay Boolean, whatever the other variables do.                *)
LEMMA FlagsInit == Init => FlagTypes
  BY DEF Init, FlagTypes

LEMMA FlagsNext == FlagTypes /\ [Next]_vars => FlagTypes'
<1> SUFFICES ASSUME FlagTypes, [Next]_vars PROVE FlagTypes'
  OBVIOUS
<1> USE DEF FlagTypes, vars, lookupVars, channelVars, collectVars, printerVars,
            uiVars
<1>1. CASE LookupThread
  BY <1>1, Zenon DEF LookupThread, LookupSkip, LookupWake, LookupStart,
     LookupDiscover, LookupCollectors, LookupSend, LookupClose, LookupDone
<1>2. CASE CollectThread
  BY <1>2, Zenon DEF CollectThread, CollectReceive, CollectRound, CollectDone
<1>3. ASSUME NEW next, NEW count, Screen(next, count)
      PROVE  /\ help' \in BOOLEAN /\ selector' \in BOOLEAN
             /\ paused' \in BOOLEAN /\ force' \in BOOLEAN
  BY <1>3, Zenon DEF Screen, HandleInput
<1>4. CASE PrinterThread
  BY <1>3, <1>4, Zenon DEF PrinterThread, PrinterAwait, WaitForced, WaitPaused,
     WaitElapsed, PrintForced, PrintOverlay, PrintRound, PrinterClose
<1>5. CASE MainExit
  BY <1>5 DEF MainExit
<1>6. CASE UNCHANGED vars
  BY <1>6
<1>7. QED
  BY <1>1, <1>2, <1>4, <1>5, <1>6 DEF Next, Exited

(* The initial state of InitializeRunners satisfies the invariant.         *)
LEMMA InitInv == Init => IInv
  BY RunnersAssumption
  DEF Init, IInv, StateTypes, Conserved, Closing, LoopCount, WaitCount, PauseMark,
        Capacity, Threads, MoreRuns

(* A step of InitializeLookup preserves the invariant.                     *)
LEMMA LookupInv == IInv /\ LookupThread => IInv'
<1> SUFFICES ASSUME IInv, LookupThread PROVE IInv'
  OBVIOUS
<1> USE RunnersAssumption
    DEF IInv, StateTypes, Conserved, Closing, LoopCount, WaitCount, PauseMark,
        Capacity, Threads, LookupThread, MoreRuns, CanSend, collectVars,
        printerVars, uiVars, channelVars
<1>1. CASE LookupSkip
  BY <1>1 DEF LookupSkip
<1>2. CASE LookupWake
  BY <1>2 DEF LookupWake
<1>3. CASE LookupStart
  BY <1>3 DEF LookupStart
<1>4. CASE LookupDiscover
  BY <1>4 DEF LookupDiscover
<1>5. CASE LookupCollectors
  BY <1>5 DEF LookupCollectors
<1>6. CASE LookupSend
  BY <1>6 DEF LookupSend
<1>7. CASE LookupClose
  BY <1>7 DEF LookupClose
<1>8. CASE LookupDone
  BY <1>8 DEF LookupDone
<1>9. QED
  BY <1>1, <1>2, <1>3, <1>4, <1>5, <1>6, <1>7, <1>8

(* A step of InitializeCollect preserves the invariant.                    *)
LEMMA CollectInv == IInv /\ CollectThread => IInv'
<1> SUFFICES ASSUME IInv, CollectThread PROVE IInv'
  OBVIOUS
<1> USE RunnersAssumption
    DEF IInv, StateTypes, Conserved, Closing, LoopCount, WaitCount, PauseMark,
        Capacity, Threads, CollectThread, MoreRuns, lookupVars,
        printerVars, uiVars, channelVars
<1>1. CASE CollectReceive
  BY <1>1 DEF CollectReceive
<1>2. CASE CollectRound
  BY <1>2 DEF CollectRound
<1>3. CASE CollectDone
  BY <1>3 DEF CollectDone
<1>4. QED
  BY <1>1, <1>2, <1>3

(* What any step of InitializePrinter leaves alone, and what it can do to  *)
(* the pause flag: it records the round count whenever it sets the flag.   *)
LEMMA PrinterStep ==
  ASSUME IInv, PrinterThread
  PROVE  /\ UNCHANGED <<lpc, n, looked, tokens, closed, cpc, collected,
                        domains>>
         /\ ppc' \in {"await", "wait", "refresh", "redraw", "print", "close",
                      "done"}
         /\ ppc # "done" /\ m' \in Nat
         /\ mark' = IF paused' /\ ~paused THEN looked ELSE mark
         /\ wg' = IF ppc' = "done" THEN wg - 1 ELSE wg
         /\ main' \in {"running", "exited"}
<1> USE DEF PrinterThread, lookupVars, channelVars, collectVars, printerVars,
            uiVars, IInv, StateTypes
<1>1. ASSUME NEW next \in {"print", "wait", "close"}, NEW count \in Nat,
             Screen(next, count), ppc \in {"refresh", "redraw", "print"}
      PROVE  /\ ppc' \in {"refresh", "redraw", "print", "wait", "close"}
             /\ m' \in Nat
             /\ mark' = IF paused' /\ ~paused THEN looked ELSE mark
             /\ wg' = wg
             /\ main' \in {"running", "exited"}
  BY <1>1 DEF Screen
<1>2. CASE PrinterAwait
  BY <1>2 DEF PrinterAwait, NextRound
<1>3. CASE WaitForced
  BY <1>3 DEF WaitForced
<1>4. CASE WaitPaused
  BY <1>4 DEF WaitPaused
<1>5. CASE WaitElapsed
  BY <1>5 DEF WaitElapsed
<1>6. CASE PrintForced
  BY <1>1, <1>6 DEF PrintForced
<1>7. CASE PrintOverlay
  BY <1>1, <1>7 DEF PrintOverlay
<1>8. CASE PrintRound
  BY <1>1, <1>8 DEF PrintRound, NextRound
<1>9. CASE PrinterClose
  BY <1>9 DEF PrinterClose
<1>10. QED
  BY <1>2, <1>3, <1>4, <1>5, <1>6, <1>7, <1>8, <1>9

(* A step of InitializePrinter preserves the invariant.                    *)
LEMMA PrinterInv == IInv /\ PrinterThread => IInv'
  BY PrinterStep
  DEF IInv, StateTypes, Conserved, Closing, LoopCount, WaitCount, PauseMark,
        Capacity, Threads, MoreRuns

(* The invariant is inductive.                                             *)
LEMMA NextInv == IInv /\ [Next]_vars => IInv'
<1> SUFFICES ASSUME IInv, [Next]_vars PROVE IInv'
  OBVIOUS
<1>1. CASE MainExit
  BY <1>1 DEF MainExit, IInv, StateTypes, Conserved, Closing, LoopCount, WaitCount,
              PauseMark, MoreRuns, lookupVars, channelVars, collectVars,
              printerVars, uiVars
<1>2. CASE UNCHANGED vars
  BY <1>2 DEF vars, IInv, StateTypes, Conserved, Closing, LoopCount, WaitCount,
              PauseMark, MoreRuns, lookupVars, channelVars, collectVars,
              printerVars, uiVars
<1>3. QED
  BY <1>1, <1>2, LookupInv, CollectInv, PrinterInv DEF Next, Exited

(* The inductive invariant holds throughout every behaviour.               *)
THEOREM Invariance == Spec => []IInv
  BY InitInv, NextInv, PTL DEF Spec

(* Type correctness of the runner threads.                                 *)
THEOREM TypeCorrect == Spec => []TypeOK
<1>1. Spec => []FlagTypes
  BY FlagsInit, FlagsNext, PTL DEF Spec
<1>2. IInv /\ FlagTypes => TypeOK
  BY DEF IInv, TypeOK
<1>3. QED
  BY Invariance, <1>1, <1>2, PTL

(* Collection never overtakes discovery, and discovery is never more than  *)
(* three rounds ahead: the back-pressure of initialLookupDone.             *)
THEOREM LagBound == Spec => []CollectLag
<1>1. IInv => CollectLag
  BY DEF IInv, StateTypes, Conserved, CollectLag, MaxAhead, Capacity
<1>2. QED
  BY Invariance, <1>1, PTL

(* When the collect thread ends, every discovery round has been collected: *)
(* close() drops no buffered token.                                        *)
THEOREM Drained == Spec => []NothingDropped
<1>1. IInv => NothingDropped
  BY DEF IInv, StateTypes, Conserved, Closing, NothingDropped
<1>2. QED
  BY Invariance, <1>1, PTL

(* When the collect thread ends it has made one round more than the option *)
(* says, whatever the option and however often the user paused: RunsExact  *)
(* is violated for every number of runs.                                   *)
THEOREM OneTooMany == Spec => [](cpc = "done" => collected = Runs + 1)
<1>1. IInv => (cpc = "done" => collected = Runs + 1)
  BY DEF IInv, StateTypes, Conserved, Closing, LoopCount
<1>2. QED
  BY Invariance, <1>1, PTL

(* An open overlay lets at most one more discovery round complete.         *)
THEOREM PauseBound == Spec => []PauseLatency
<1>1. IInv => PauseLatency
  BY DEF IInv, PauseLatency
<1>2. QED
  BY Invariance, <1>1, PTL

(* wg.Wait() returns only when all three threads are done.                 *)
THEOREM MainIsLast == Spec => []MainWaitsForAll
<1>1. IInv => MainWaitsForAll
  BY DEF IInv, WaitCount, MainWaitsForAll
<1>2. QED
  BY Invariance, <1>1, PTL

(* A step of the runner threads is a step of Rounds, or changes neither    *)
(* the round counts nor the way the program ends.                          *)
LEMMA StepRefines == IInv /\ IInv' /\ [Next]_vars => [R!Next]_(R!vars)
<1> SUFFICES ASSUME IInv, IInv', [Next]_vars PROVE [R!Next]_(R!vars)
  OBVIOUS
<1> USE RunnersAssumption DEF R!vars, ending
<1>1. CASE LookupThread
  <2> USE DEF LookupThread, collectVars, printerVars, uiVars
  <2>1. CASE LookupCollectors
    <3>1. /\ ending = "none" /\ looked' = looked + 1
          /\ UNCHANGED <<collected, ending>>
      BY <1>1, <2>1 DEF LookupCollectors
    <3>2. looked \in Nat /\ collected \in Nat /\ looked < collected + 3
      BY <2>1 DEF LookupCollectors, IInv, StateTypes, Conserved, Capacity
    <3>3. Runs = -1 \/ looked < Runs + 1
      BY <2>1 DEF LookupCollectors, IInv, StateTypes, LoopCount, MoreRuns
    <3>4. QED
      BY <3>1, <3>2, <3>3 DEF R!Next, R!Discover, MaxAhead
  <2>2. CASE LookupDone
    <3>1. wg' # 0 \/ main' = "running"
      BY <1>1
    <3>2. QED
      BY <1>1, <2>2, <3>1 DEF LookupDone
  <2>3. QED
    BY <1>1, <2>1, <2>2 DEF LookupSkip, LookupWake, LookupStart,
       LookupDiscover, LookupSend, LookupClose
<1>2. CASE CollectThread
  <2> USE DEF CollectThread, lookupVars, printerVars, uiVars
  <2>1. CASE CollectRound
    <3>1. /\ ending = "none" /\ collected' = collected + 1
          /\ UNCHANGED <<looked, ending>>
      BY <1>2, <2>1 DEF CollectRound
    <3>2. collected < looked
      BY <2>1 DEF CollectRound, IInv, StateTypes, Conserved, Capacity
    <3>3. QED
      BY <3>1, <3>2 DEF R!Next, R!Collect
  <2>2. QED
    BY <1>2, <2>1 DEF CollectReceive, CollectDone
<1>3. CASE PrinterThread
  <2>1. UNCHANGED <<looked, collected>> /\ main = "running"
    BY <1>3 DEF PrinterThread, lookupVars, collectVars
  <2>2. CASE main' = "running"
    BY <2>1, <2>2
  <2>3. CASE main' # "running"
    <3>1. PICK k \in Keys : Quits(k) /\ UNCHANGED wg /\ UNCHANGED ppc
      BY <1>3, <2>1, <2>3 DEF PrinterThread, PrinterAwait, WaitForced,
         WaitPaused, WaitElapsed, PrintForced, PrintOverlay, PrintRound,
         PrinterClose, Screen, printerVars, uiVars
    <3>2. Keys \cap {"q", "ctrlC"} # {}
      BY <3>1 DEF Quits
    <3>3. ppc # "done"
      BY <1>3, <2>1, <2>3 DEF PrinterThread, PrinterAwait, WaitForced,
         WaitPaused, WaitElapsed, PrintForced, PrintOverlay, PrintRound,
         PrinterClose
    <3>4. wg # 0
      BY <3>3 DEF IInv, StateTypes, WaitCount
    <3>5. ending = "none" /\ ending' = "quit"
      BY <2>1, <2>3, <3>1, <3>4
    <3>6. QED
      BY <2>1, <3>2, <3>5 DEF R!Next, R!Quit
  <2>4. QED
    BY <2>2, <2>3
<1>4. CASE MainExit
  <2>1. /\ UNCHANGED <<looked, collected>> /\ ending = "none"
        /\ ending' = "finished"
    BY <1>4 DEF MainExit, lookupVars, collectVars
  <2>2. lpc = "done" /\ cpc = "done"
    BY <1>4 DEF MainExit, IInv, WaitCount
  <2>3. Runs # -1 /\ looked = Runs + 1 /\ collected = looked
    BY <2>2 DEF IInv, StateTypes, Conserved, Closing, LoopCount
  <2>4. QED
    BY <2>1, <2>3 DEF R!Next, R!Finish
<1>5. CASE UNCHANGED vars
  BY <1>5 DEF vars, lookupVars, collectVars
<1>6. QED
  BY <1>1, <1>2, <1>3, <1>4, <1>5 DEF Next, Exited

(* The safety part of ImplementsRounds: whatever Runs and the keys are,    *)
(* the threads, the channel and the WaitGroup implement the alternation    *)
(* of rounds, and a finished program has collected all Runs + 1 of them.   *)
THEOREM RefinesRounds == Spec => R!Init /\ [][R!Next]_(R!vars)
<1>1. Init => R!Init
  BY DEF Init, R!Init, ending
<1>2. QED
  BY <1>1, Invariance, StepRefines, PTL DEF Spec

=============================================================================
