------------------------------ MODULE Runners ------------------------------
(***************************************************************************)
(* The three runner threads of proxtop (runners/*.go) and the main thread  *)
(* that waits for them:                                                    *)
(*                                                                         *)
(*   InitializeLookup   discovers the domains round by round and sends one *)
(*                      token per round into initialLookupDone;            *)
(*   InitializeCollect  receives a token and starts one collect round;     *)
(*   InitializePrinter  prints, handles the keyboard (ncurses) and pauses  *)
(*                      discovery while an overlay is shown.               *)
(*                                                                         *)
(* They share the channel initialLookupDone, the flag CollectionPaused and *)
(* the WaitGroup; ForceRefresh and the overlay flags belong to the printer *)
(* thread, which runs handleInput inside Screen.  Time is abstracted: a    *)
(* sleep ends whenever the thread takes its next step.                     *)
(***************************************************************************)
EXTENDS Integers

CONSTANTS
  Runs,         \* config.Options.Runs: -1 for no bound, or the --runs value
  Keys,         \* the kinds of keys the user may press; {} for text and json
  AwaitTimesOut \* whether the printer's 5s wait for a first domain may expire

KeyKinds == {"help", "view", "esc", "fields", "setting", "q", "ctrlC"}

ASSUME RunnersAssumption ==
  /\ Runs \in Nat \cup {-1}
  /\ Keys \subseteq KeyKinds
  /\ AwaitTimesOut \in BOOLEAN

VARIABLES
  lpc,       \* where InitializeLookup stands
  n,         \* its loop counter, which starts at -1
  looked,    \* history: the discovery rounds completed
  tokens,    \* tokens buffered in initialLookupDone
  closed,    \* initialLookupDone has been closed
  cpc,       \* where InitializeCollect stands
  collected, \* history: the collect rounds started
  ppc,       \* where InitializePrinter stands
  m,         \* its loop counter
  domains,   \* models.Collection.Domains is not empty
  help,      \* showHelpOverlay
  selector,  \* showFieldSelector
  paused,    \* CollectionPaused
  force,     \* ForceRefresh
  mark,      \* history: the value of looked when paused last became TRUE
  wg,        \* the counter of the WaitGroup
  main       \* "running" until the process exits

lookupVars  == <<lpc, n, looked>>
channelVars == <<tokens, closed>>
collectVars == <<cpc, collected>>
uiVars      == <<help, selector, paused, force, mark>>
printerVars == <<ppc, m>>
vars == <<lookupVars, channelVars, collectVars, printerVars, uiVars,
          domains, wg, main>>

----------------------------------------------------------------------------
(* Initial state: InitializeRunners before its three go statements.        *)

\* Faulty variants, for comparison: a larger buffer, a send that never
\* blocks, and the WaitGroup started at 1 (as proxprofiler does).
CapacityTwo == 2
CanSendAlways == TRUE
ThreadsOne == 1

\* make(chan bool, 1)
Capacity == 1

\* A token can be sent: the channel has room.
CanSend == tokens < Capacity

\* wg.Add(3)
Threads == 3

Init ==
  /\ lpc = "check" /\ n = -1 /\ looked = 0
  /\ tokens = 0 /\ closed = FALSE
  /\ cpc = "receive" /\ collected = 0
  /\ ppc = "await" /\ m = 0
  /\ domains = FALSE
  /\ help = FALSE /\ selector = FALSE
  /\ paused = FALSE /\ force = FALSE /\ mark = 0
  /\ wg = Threads
  /\ main = "running"

----------------------------------------------------------------------------
(* The lookup thread.                                                      *)

\* The loop condition shared by the lookup (n) and printer (m) loops.
MoreRuns(k) == Runs = -1 \/ k < Runs

\* An overlay is shown: sleep, and n-- against the n++ of the loop.
LookupSkip ==
  /\ lpc = "check" /\ MoreRuns(n) /\ paused
  /\ lpc' = "nap" /\ n' = n - 1
  /\ UNCHANGED <<looked, channelVars, domains, wg>>

LookupWake ==
  /\ lpc = "nap"
  /\ lpc' = "check" /\ n' = n + 1
  /\ UNCHANGED <<looked, channelVars, domains, wg>>

\* Faulty variant: CollectionPaused is not looked at.
LookupStartPaused ==
  /\ lpc = "check" /\ MoreRuns(n)
  /\ lpc' = "discover"
  /\ UNCHANGED <<n, looked, channelVars, domains, wg>>

LookupStart ==
  /\ lpc = "check" /\ MoreRuns(n) /\ ~paused
  /\ lpc' = "discover"
  /\ UNCHANGED <<n, looked, channelVars, domains, wg>>

\* lookupProxmox or lookupLibvirt: the domain cache now mirrors the host,
\* which may run no domain; a listing error leaves the cache as it was.
LookupDiscover ==
  /\ lpc = "discover"
  /\ lpc' = "collectors"
  /\ domains' \in BOOLEAN
  /\ UNCHANGED <<n, looked, channelVars, wg>>

\* lookupWg.Wait() returns: every collector's Lookup is done.
LookupCollectors ==
  /\ lpc = "collectors"
  /\ lpc' = "send" /\ looked' = looked + 1
  /\ UNCHANGED <<n, channelVars, domains, wg>>

\* Faulty variant: a token that finds no room is dropped (select, default).
LookupSendOrDrop ==
  /\ lpc = "send"
  /\ tokens' = IF CanSend THEN tokens + 1 ELSE tokens
  /\ lpc' = "check" /\ n' = n + 1
  /\ UNCHANGED <<looked, closed, domains, wg>>

\* initialLookupDone <- true, the sleep, and n++.
LookupSend ==
  /\ lpc = "send" /\ CanSend
  /\ tokens' = tokens + 1
  /\ lpc' = "check" /\ n' = n + 1
  /\ UNCHANGED <<looked, closed, domains, wg>>

\* Faulty variant: the channel is never closed.
LookupCloseForgotten ==
  /\ lpc = "check" /\ ~MoreRuns(n)
  /\ lpc' = "closed"
  /\ UNCHANGED <<n, looked, channelVars, domains, wg>>

LookupClose ==
  /\ lpc = "check" /\ ~MoreRuns(n)
  /\ closed' = TRUE
  /\ lpc' = "closed"
  /\ UNCHANGED <<n, looked, tokens, domains, wg>>

LookupDone ==
  /\ lpc = "closed"
  /\ lpc' = "done" /\ wg' = wg - 1
  /\ UNCHANGED <<n, looked, channelVars, domains>>

LookupThread ==
  /\ main = "running"
  /\ \/ LookupSkip \/ LookupWake \/ LookupStart \/ LookupDiscover
     \/ LookupCollectors \/ LookupSend \/ LookupClose \/ LookupDone
  /\ UNCHANGED <<collectVars, printerVars, uiVars, main>>

----------------------------------------------------------------------------
(* The collect thread.                                                     *)

\* A receive succeeds while a token is buffered, closed or not.
CollectReceive ==
  /\ cpc = "receive" /\ tokens > 0
  /\ tokens' = tokens - 1
  /\ cpc' = "collect"
  /\ UNCHANGED <<collected, closed, wg>>

\* Collect() starts one goroutine per collector and waits for none.
CollectRound ==
  /\ cpc = "collect"
  /\ cpc' = "receive" /\ collected' = collected + 1
  /\ UNCHANGED <<channelVars, wg>>

\* Faulty variant: the thread ends on close without draining the channel.
CollectDoneUndrained ==
  /\ cpc = "receive" /\ closed
  /\ cpc' = "done" /\ wg' = wg - 1
  /\ UNCHANGED <<collected, channelVars>>

\* !ok: the channel is closed and drained.
CollectDone ==
  /\ cpc = "receive" /\ tokens = 0 /\ closed
  /\ cpc' = "done" /\ wg' = wg - 1
  /\ UNCHANGED <<collected, channelVars>>

CollectThread ==
  /\ main = "running"
  /\ CollectReceive \/ CollectRound \/ CollectDone
  /\ UNCHANGED <<lookupVars, printerVars, uiVars, domains, main>>

----------------------------------------------------------------------------
(* The printer thread.                                                     *)

\* Where the printer loop goes with counter k: close, wait, or print at once.
NextRound(k) ==
  IF ~MoreRuns(k) THEN "close" ELSE IF k > 0 THEN "wait" ELSE "print"

\* Domains.Length() is polled until it is not 0, for at most 5 seconds.
PrinterAwait ==
  /\ ppc = "await"
  /\ domains \/ AwaitTimesOut
  /\ ppc' = NextRound(0)
  /\ UNCHANGED <<m, uiVars, wg, main>>

\* Faulty variant: an overlay takes precedence over ForceRefresh.
WaitForcedUnpaused ==
  /\ ppc = "wait" /\ force /\ ~paused
  /\ force' = FALSE
  /\ ppc' = "refresh"
  /\ UNCHANGED <<m, help, selector, paused, mark, wg, main>>

\* ForceRefresh is reset before the extra Print.
WaitForced ==
  /\ ppc = "wait" /\ force
  /\ force' = FALSE
  /\ ppc' = "refresh"
  /\ UNCHANGED <<m, help, selector, paused, mark, wg, main>>

WaitPaused ==
  /\ ppc = "wait" /\ ~force /\ paused
  /\ ppc' = "redraw"
  /\ UNCHANGED <<m, uiVars, wg, main>>

\* nextDataRun is reached.
WaitElapsed ==
  /\ ppc = "wait" /\ ~force /\ ~paused
  /\ ppc' = "print"
  /\ UNCHANGED <<m, uiVars, wg, main>>

\* handleInput for a key k other than the ones that quit.  An open field
\* selector takes every key and asks for no refresh.
HandleInput(k) ==
  IF selector
  THEN /\ selector' = (k \notin {"q", "esc", "fields"})
       /\ UNCHANGED <<help, force>>
  ELSE /\ help' = CASE k \in {"view", "esc"} -> FALSE
                    [] k = "help" -> ~help
                    [] OTHER -> help
       /\ selector' = (k = "fields")
       /\ force' = (force \/ k # "none")

Quits(k) == ~selector /\ k \in {"q", "ctrlC"}

\* One Print(): Screen handles at most one key, then sets CollectionPaused;
\* the quit keys call os.Exit(0) from within it.
Screen(next, count) ==
  \/ \E k \in Keys \cup {"none"} :
       /\ ~Quits(k)
       /\ HandleInput(k)
       /\ paused' = (help' \/ selector')
       /\ mark' = IF paused' /\ ~paused THEN looked ELSE mark
       /\ ppc' = next /\ m' = count
       /\ UNCHANGED <<wg, main>>
  \/ \E k \in Keys :
       /\ Quits(k)
       /\ main' = "exited"
       /\ UNCHANGED <<printerVars, uiVars, wg>>

PrintForced == ppc = "refresh" /\ Screen("print", m)

PrintOverlay == ppc = "redraw" /\ Screen("wait", m)

PrintRound == ppc = "print" /\ Screen(NextRound(m + 1), m + 1)

PrinterClose ==
  /\ ppc = "close"
  /\ ppc' = "done" /\ wg' = wg - 1
  /\ UNCHANGED <<m, uiVars, main>>

PrinterThread ==
  /\ main = "running"
  /\ \/ PrinterAwait \/ WaitForced \/ WaitPaused \/ WaitElapsed
     \/ PrintForced \/ PrintOverlay \/ PrintRound \/ PrinterClose
  /\ UNCHANGED <<lookupVars, channelVars, collectVars, domains>>

----------------------------------------------------------------------------
(* The main thread: wg.Wait(), then shutdown(0).                           *)

MainExit ==
  /\ main = "running" /\ wg = 0
  /\ main' = "exited"
  /\ UNCHANGED <<lookupVars, channelVars, collectVars, printerVars, uiVars,
                 domains, wg>>

\* The process is gone: nothing moves any more.
Exited == main = "exited" /\ UNCHANGED vars

Next == LookupThread \/ CollectThread \/ PrinterThread \/ MainExit \/ Exited

\* Go schedules every goroutine that can run, and every sleep ends.
Fairness ==
  /\ WF_vars(LookupThread) /\ WF_vars(CollectThread)
  /\ WF_vars(PrinterThread) /\ WF_vars(MainExit)

Spec == Init /\ [][Next]_vars /\ Fairness

----------------------------------------------------------------------------
(* Properties.                                                             *)

FlagTypes ==
  /\ closed \in BOOLEAN /\ domains \in BOOLEAN
  /\ help \in BOOLEAN /\ selector \in BOOLEAN
  /\ paused \in BOOLEAN /\ force \in BOOLEAN

StateTypes ==
  /\ lpc \in {"check", "nap", "discover", "collectors", "send", "closed",
              "done"}
  /\ n \in Int
  /\ looked \in Nat
  /\ tokens \in 0..Capacity
  /\ cpc \in {"receive", "collect", "done"}
  /\ collected \in Nat
  /\ ppc \in {"await", "wait", "refresh", "redraw", "print", "close", "done"}
  /\ m \in Nat
  /\ mark \in Nat
  /\ wg \in 0..Threads
  /\ main \in {"running", "exited"}

(* The type invariant of the runner threads and what they share.           *)
TypeOK == StateTypes /\ FlagTypes

(* The inductive strengthening of the properties below, by parts.          *)
(* Every completed discovery round is a round collected, the token the     *)
(* collector holds, a buffered token, or the token about to be sent.       *)
Conserved ==
  looked = collected + tokens + (IF lpc = "send" THEN 1 ELSE 0)
                              + (IF cpc = "collect" THEN 1 ELSE 0)

\* The lookup thread alone closes the channel, after its loop, and the
\* collector ends only when the channel is closed and empty.
Closing ==
  /\ closed <=> lpc \in {"closed", "done"}
  /\ cpc = "done" => closed /\ tokens = 0

\* The loop counter and the rounds made, with the skipped iterations undone.
LoopCount ==
  /\ n = IF lpc \in {"send", "nap"} THEN looked - 2 ELSE looked - 1
  /\ Runs # -1 => n <= Runs
  /\ lpc \in {"discover", "collectors", "send"} => MoreRuns(n)
  /\ lpc = "nap" => MoreRuns(n + 1)
  /\ lpc \in {"closed", "done"} => Runs # -1 /\ n = Runs

WaitCount ==
  wg = (IF lpc = "done" THEN 0 ELSE 1) + (IF cpc = "done" THEN 0 ELSE 1)
                                       + (IF ppc = "done" THEN 0 ELSE 1)

PauseMark ==
  /\ mark <= looked
  /\ paused /\ lpc \in {"discover", "collectors"} => looked = mark

IInv ==
  /\ StateTypes /\ Conserved /\ Closing /\ LoopCount /\ WaitCount
  /\ PauseMark /\ (paused => looked <= mark + 1)

(* Back-pressure of the one-slot channel: a collect round never starts     *)
(* before its discovery round is complete, and discovery is never more     *)
(* than three rounds ahead of collection (one token held by the collector, *)
(* one buffered, one waiting to be sent).                                  *)
MaxAhead == 3

CollectLag == collected <= looked /\ looked <= collected + MaxAhead

(* Closing the channel drops nothing: when the collect thread ends, every  *)
(* discovery round has been collected and no further one will be made.     *)
NothingDropped ==
  cpc = "done" => collected = looked /\ tokens = 0 /\ lpc \in {"closed", "done"}

(* Opening an overlay stops discovery: at most the one round already past  *)
(* the check of CollectionPaused completes while it stays open.            *)
PauseLatency == paused => looked <= mark + 1

(* wg.Wait() returns only after all three threads have called wg.Done.     *)
MainWaitsForAll ==
  wg = 0 => lpc = "done" /\ cpc = "done" /\ ppc = "done"

(* A completed discovery round gets its collect round, whatever overlays   *)
(* the user opens, unless the process exits.                               *)
EveryRoundCollected ==
  \A k \in 1..(Runs + 1) :
    looked >= k ~> collected >= k \/ main = "exited"

(* A refresh requested by a key is served even while an overlay is shown.  *)
RefreshServed == (force /\ ppc = "wait") ~> (~force \/ main = "exited")

(* A bounded run ends once no overlay keeps it paused: the lookup loop runs *)
(* out, closes the channel, and the others drain it and call wg.Done.      *)
EndsUnlessPaused == <>[]~paused => <>(main = "exited")

(* The threads implement the alternation of rounds that Rounds specifies.  *)
ending ==
  IF main = "running" THEN "none" ELSE IF wg = 0 THEN "finished" ELSE "quit"

R == INSTANCE Rounds WITH CanQuit <- Keys \cap {"q", "ctrlC"} # {}

ImplementsRounds == R!Spec

(* What the documentation and the comments say, and the code does not do.  *)

(* "Run for exactly 10 collection cycles", for --runs=10: as many collect  *)
(* rounds are made as the option says.  The lookup loop counts from -1.    *)
RunsExact == cpc = "done" => collected = Runs

(* "Terminate when all threads terminate": once the printer has made its   *)
(* last round and is closed, the other threads end and so does main.       *)
EndsAfterPrinter == ppc = "done" ~> main = "exited"

=============================================================================
