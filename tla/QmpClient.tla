----------------------------- MODULE QmpClient -----------------------------
(***************************************************************************)
(* What the memory and disk collectors ask of one Proxmox VM in a lookup   *)
(* (connector/proxmox.go, memcollector, diskcollector): queryQMP sends its *)
(* commands to QEMU's monitor socket one after the other and takes each    *)
(* next line for the answer, qm status is the fallback, and the answers of *)
(* both are cached for a time.  The two collectors run in either order but *)
(* one at a time, since a Lookup holds the mutex of Domains.               *)
(*                                                                         *)
(* A line is its kind and the moment at which QEMU wrote it; every counter *)
(* of the VM has the moment as its value.  Which disk a counter is of, and *)
(* the sizes of the disks, are left out.                                   *)
(***************************************************************************)
EXTENDS Integers, Sequences

CONSTANTS
  QmpTTL,    \* qmpCacheTTL
  StatusTTL, \* statusCacheTTL
  Timeout,   \* the deadline of a connection, from its dialling
  MaxClock,  \* bound: the end of time, by which every deadline has passed
  MaxLines   \* bound on the lines unread, beyond which no event is sent

ASSUME QmpAssumption == {QmpTTL, StatusTTL, Timeout, MaxClock, MaxLines} \subseteq Nat \ {0}

VARIABLES
  clock,    \* the time
  todo,     \* the collectors still to run in this lookup
  call,     \* whose question is answered: "mem", "totals", "disks" or "none"
  pc,       \* where the calling thread stands
  asked,    \* "now" in queryQMP and getCachedVMStatus
  deadline, \* of the connection
  commands, \* sent and not yet answered
  wire,     \* lines sent by QEMU and not yet read
  answer,   \* what queryQMP returns
  qmp,      \* qmpCacheMap, for this VM
  status,   \* statusCache, for this VM
  totals,   \* what GetDiskStats returned
  total,    \* the current measurement of the VM's disk counters
  disk,     \* that of one of its disks
  ram       \* the kind of line its current memory measurements are from

round   == <<todo, call>>
wires   == <<deadline, commands, wire>>
caches  == <<qmp, status>>
metrics == <<total, disk, ram>>
vars == <<clock, round, pc, asked, wires, answer, caches, totals, metrics>>

Kinds == {"greeting", "capabilities", "balloon", "blockstats", "error",
          "event", "status", "config", "nothing"}

\* A nil pointer or slice.
Nothing == [kind |-> "nothing", at |-> 0]
Failed  == [ok |-> FALSE, balloon |-> Nothing, block |-> Nothing]

\* An entry that was never fresh stands for a missing one.
NoQmp    == [balloon |-> Nothing, block |-> Nothing, time |-> 0 - QmpTTL]
NoStatus == [at |-> 0, time |-> 0 - StatusTTL]

Init ==
  /\ clock = 1
  /\ todo = {} /\ call = "none" /\ pc = "idle" /\ asked = 0
  /\ deadline = 0 /\ commands = <<>> /\ wire = <<>>
  /\ answer = Failed /\ qmp = NoQmp /\ status = NoStatus
  /\ totals = Nothing /\ total = 0 /\ disk = 0 /\ ram = "nothing"

Fresh(entry, ttl) == clock - entry.time < ttl

----------------------------------------------------------------------------
(* The lookups of the two collectors.                                      *)

LookupStart ==
  /\ todo = {} /\ call = "none"
  /\ todo' = {"mem", "disk"}
  /\ UNCHANGED <<clock, call, pc, asked, wires, answer, caches, totals, metrics>>

\* GetExtendedMemoryStats, or GetDiskStats, calls queryQMP.
Collector(c) ==
  /\ call = "none" /\ c \in todo
  /\ todo' = todo \ {c}
  /\ call' = IF c = "mem" THEN "mem" ELSE "totals"
  /\ pc' = "start"
  /\ UNCHANGED <<clock, asked, wires, answer, caches, totals, metrics>>

MemStore(line) ==
  /\ call' = "none" /\ pc' = "idle" /\ ram' = line.kind
  /\ UNCHANGED <<totals, total, disk>>

\* GetDiskStats returns, and GetPerDiskStats calls queryQMP.
TotalsStore(line) ==
  /\ call' = "disks" /\ pc' = "start" /\ totals' = line
  /\ UNCHANGED metrics

MemAnswered ==
  /\ call = "mem" /\ pc = "return"
  /\ answer.ok /\ answer.balloon # Nothing
  /\ MemStore(answer.balloon)
  /\ answer' = Failed
  /\ UNCHANGED <<clock, todo, asked, wires, caches>>

TotalsAnswered ==
  /\ call = "totals" /\ pc = "return"
  /\ answer.ok /\ answer.block # Nothing
  /\ TotalsStore(answer.block)
  /\ answer' = Failed
  /\ UNCHANGED <<clock, todo, asked, wires, caches>>

\* "Fallback to qm status if QMP fails"
FallBack ==
  /\ pc = "return"
  /\ \/ call = "mem" /\ answer.balloon = Nothing
     \/ call = "totals" /\ answer.block = Nothing
  /\ pc' = "status" /\ answer' = Failed
  /\ UNCHANGED <<clock, round, asked, wires, caches, totals, metrics>>

\* Faulty variant: the parser gets past the first line of a disk.
CountParsed(line) == line.at

\* The counters in what GetDiskStats returns.  Its parser of the blockstat
\* section stops at the first line that is not a disk's name, so that the
\* counters of a status are all 0.
Count(line) == IF line.kind = "status" THEN 0 ELSE line.at

\* GetPerDiskStats returns, with no disks if the query failed, and
\* diskLookupProxmox adds the measurements.
DisksAnswered ==
  /\ call = "disks" /\ pc = "return"
  /\ disk' = IF answer.block # Nothing THEN Count(answer.block) ELSE disk
  /\ total' = Count(totals)
  /\ totals' = Nothing /\ call' = "none" /\ pc' = "idle"
  /\ answer' = Failed
  /\ UNCHANGED <<clock, todo, asked, wires, caches, ram>>

----------------------------------------------------------------------------
(* getCachedVMStatus.                                                      *)

\* What the caller makes of the output of qm status.
Output(at) ==
  LET line == [kind |-> "status", at |-> at] IN
  \/ call = "mem" /\ MemStore(line)
  \/ call = "totals" /\ TotalsStore(line)

StatusCached ==
  /\ pc = "status" /\ Fresh(status, StatusTTL)
  /\ asked' = clock
  /\ Output(status.at)
  /\ UNCHANGED <<clock, todo, wires, answer, caches>>

StatusStart ==
  /\ pc = "status" /\ ~Fresh(status, StatusTTL)
  /\ asked' = clock /\ pc' = "qm"
  /\ UNCHANGED <<clock, round, wires, answer, caches, totals, metrics>>

\* Faulty variant: the output counts as fresh from when it was stored.
StatusAnsweredStamped ==
  /\ pc = "qm"
  /\ \E at \in asked..clock :
       status' = [at |-> at, time |-> clock] /\ Output(at)
  /\ UNCHANGED <<clock, todo, asked, wires, answer, qmp>>

\* qm status printed what it found at some moment since it was started.
StatusAnswered ==
  /\ pc = "qm"
  /\ \E at \in asked..clock :
       status' = [at |-> at, time |-> asked] /\ Output(at)
  /\ UNCHANGED <<clock, todo, asked, wires, answer, qmp>>

\* qm failed: the configured memory, or no disk measurements at all.
StatusFailed ==
  /\ pc = "qm"
  /\ \/ call = "mem" /\ MemStore([kind |-> "config", at |-> 0])
     \/ /\ call = "totals"
        /\ call' = "none" /\ pc' = "idle"
        /\ UNCHANGED <<totals, metrics>>
  /\ UNCHANGED <<clock, todo, asked, wires, answer, caches>>

----------------------------------------------------------------------------
(* queryQMP.                                                               *)

QueryCached ==
  /\ pc = "start" /\ Fresh(qmp, QmpTTL)
  /\ asked' = clock /\ pc' = "return"
  /\ answer' = [ok |-> TRUE, balloon |-> qmp.balloon, block |-> qmp.block]
  /\ UNCHANGED <<clock, round, wires, caches, totals, metrics>>

QueryStart ==
  /\ pc = "start" /\ ~Fresh(qmp, QmpTTL)
  /\ asked' = clock /\ pc' = "dial"
  /\ UNCHANGED <<clock, round, wires, answer, caches, totals, metrics>>

\* QEMU greets a new client as if asked to, once it has no other.
Dial ==
  /\ pc = "dial"
  /\ deadline' = IF clock + Timeout < MaxClock THEN clock + Timeout ELSE MaxClock
  /\ commands' = <<"greeting">> /\ wire' = <<>>
  /\ pc' = "greeting"
  /\ UNCHANGED <<clock, round, asked, answer, caches, totals, metrics>>

Waiting == pc \in {"greeting", "capabilities", "balloon", "blockstats"}

\* ReadBytes('\n'); a line that has been received is read before the deadline.
Readable == wire # <<>> /\ clock < deadline

\* conn.Close(): what was not read, or not answered, is lost.
Close == deadline' = 0 /\ commands' = <<>> /\ wire' = <<>>

\* The line is read and the next command written.
Step(here, next) ==
  /\ pc = here /\ Readable /\ wire' = Tail(wire)
  /\ commands' = Append(commands, next) /\ pc' = next
  /\ UNCHANGED <<clock, round, asked, deadline, caches, totals, metrics>>

\* Faulty variant: query-balloon is sent at once.
ReadGreetingPipelined ==
  /\ pc = "greeting" /\ Readable /\ wire' = Tail(wire)
  /\ commands' = commands \o <<"capabilities", "balloon">> /\ pc' = "balloon"
  /\ UNCHANGED <<clock, round, asked, deadline, answer, caches, totals, metrics>>

ReadGreeting == Step("greeting", "capabilities") /\ UNCHANGED answer

ReadCapabilities == Step("capabilities", "balloon") /\ UNCHANGED answer

\* An object in "return" becomes balloon statistics, whatever its fields.
AsBalloon(line) == IF line.kind \in {"capabilities", "balloon"} THEN line ELSE Nothing

\* Only a list becomes block statistics.
AsBlock(line) == IF line.kind = "blockstats" THEN line ELSE Nothing

ReadBalloon ==
  /\ Step("balloon", "blockstats")
  /\ answer' = [Failed EXCEPT !.balloon = AsBalloon(Head(wire))]

\* Faulty variant: the answer counts as fresh from when it was stored.
ReadBlockstatsStamped ==
  LET block == AsBlock(Head(wire)) IN
  /\ pc = "blockstats" /\ Readable
  /\ answer' = [answer EXCEPT !.ok = TRUE, !.block = block]
  /\ qmp' = [balloon |-> answer.balloon, block |-> block, time |-> clock]
  /\ pc' = "return" /\ Close
  /\ UNCHANGED <<clock, round, asked, status, totals, metrics>>

\* The answer is cached as of the time of the call, and the socket closed.
ReadBlockstats ==
  LET block == AsBlock(Head(wire)) IN
  /\ pc = "blockstats" /\ Readable
  /\ answer' = [answer EXCEPT !.ok = TRUE, !.block = block]
  /\ qmp' = [balloon |-> answer.balloon, block |-> block, time |-> asked]
  /\ pc' = "return" /\ Close
  /\ UNCHANGED <<clock, round, asked, status, totals, metrics>>

GiveUp ==
  /\ answer' = Failed
  /\ pc' = "return" /\ Close
  /\ UNCHANGED <<clock, round, asked, caches, totals, metrics>>

\* No QEMU, no free place in its backlog, or a connection that broke.
QueryFailed == (pc = "dial" \/ Waiting) /\ GiveUp

\* Faulty variant: the deadline is set for the greeting only.
DeadlineGreeting == pc = "greeting" /\ clock >= deadline /\ GiveUp

Deadline == Waiting /\ clock >= deadline /\ GiveUp

----------------------------------------------------------------------------
(* QEMU, and time.                                                         *)

\* QEMU answers its commands in order, at any time or never.
Reply ==
  /\ Waiting /\ commands # <<>>
  /\ LET c == Head(commands) IN
     \E kind \in {c} \cup (IF c = "balloon" THEN {"error"} ELSE {}) :
       wire' = Append(wire, [kind |-> kind, at |-> clock])
  /\ commands' = Tail(commands)
  /\ UNCHANGED <<clock, round, pc, asked, deadline, answer, caches, totals, metrics>>

\* The client has negotiated its capabilities.
Negotiated ==
  /\ Waiting /\ pc # "greeting"
  /\ \A i \in DOMAIN commands : commands[i] # "capabilities"

\* Something happens to the VM, and QEMU tells its client.
Event ==
  /\ Negotiated /\ Len(wire) < MaxLines
  /\ wire' = Append(wire, [kind |-> "event", at |-> clock])
  /\ UNCHANGED <<clock, round, pc, asked, deadline, commands, answer, caches, totals, metrics>>

Tick ==
  /\ clock < MaxClock
  /\ clock' = clock + 1
  /\ UNCHANGED <<round, pc, asked, wires, answer, caches, totals, metrics>>

Query == QueryCached \/ QueryStart \/ ReadGreeting \/ ReadCapabilities
         \/ ReadBalloon \/ ReadBlockstats \/ Deadline

Lookup == \/ \E c \in {"mem", "disk"} : Collector(c)
          \/ MemAnswered \/ TotalsAnswered \/ FallBack \/ DisksAnswered

Connect == Dial \/ QueryFailed

Status == StatusCached \/ StatusStart \/ StatusAnswered \/ StatusFailed

Next == LookupStart \/ Lookup \/ Query \/ Connect \/ Status \/ Reply \/ Event \/ Tick

\* QEMU owes nothing; qm status is assumed to end.
Spec ==
  /\ Init /\ [][Next]_vars
  /\ WF_vars(Lookup) /\ WF_vars(Query) /\ WF_vars(pc = "dial" /\ Connect)
  /\ WF_vars(Status) /\ WF_vars(Tick)

----------------------------------------------------------------------------
(* Properties.                                                             *)

CommandNames == {"greeting", "capabilities", "balloon", "blockstats"}
Lines == [kind : Kinds, at : Nat]

(* The type invariant; what was not read ends with its connection.         *)
TypeOK ==
  /\ ~Waiting => commands = <<>> /\ wire = <<>>
  /\ {clock, asked, deadline, total, disk} \subseteq Nat
  /\ todo \subseteq {"mem", "disk"}
  /\ call \in {"none", "mem", "totals", "disks"}
  /\ pc \in {"idle", "start", "dial", "greeting", "capabilities", "balloon",
             "blockstats", "return", "status", "qm"}
  /\ commands \in Seq(CommandNames)
  /\ wire \in Seq(Lines)
  /\ answer \in [ok : BOOLEAN, balloon : Lines, block : Lines]
  /\ qmp \in [balloon : Lines, block : Lines, time : Int]
  /\ status \in [at : Nat, time : Int]
  /\ totals \in Lines /\ ram \in Kinds

(* An event that arrives between the replies, an error or a connection     *)
(* that breaks may leave an answer out, but no reply is ever taken for the *)
(* answer to another command, in this lookup or from the cache: what is    *)
(* shown as memory are balloon statistics of the VM, and not zeroes        *)
(* decoded from the reply to qmp_capabilities.                             *)
AnswersOwn ==
  \A a \in {answer, qmp} : /\ a.balloon.kind \in {"balloon", "nothing"}
                           /\ a.block.kind \in {"blockstats", "nothing"}

\* The line is from the question now asked, or from before it by less than
\* the time limit of its cache.
Recent(line, now) ==
  line.kind \in {"config", "nothing"}
  \/ now - line.at < (IF line.kind = "status" THEN StatusTTL ELSE QmpTTL)

(* However slowly QEMU and qm answer, no lookup uses an answer that was    *)
(* already as old as the cache's time limit when it was asked for.         *)
AnswersRecent ==
  [][/\ totals' # totals => Recent(totals', asked')
     /\ answer' # answer => Recent(answer'.balloon, asked') /\ Recent(answer'.block, asked')]_vars

(* Although totals and disks come from queries, caches and commands of     *)
(* different moments, a counter never falls below its previous value (and  *)
(* its rate never wraps) but to the 0 that stands for a status.            *)
CountersGrow == [][(total' # 0 => total' >= total) /\ disk' >= disk]_vars

(* A collector does not hold the domains for ever: whatever QEMU does with *)
(* the socket, its questions come to an end.                               *)
LookupEnds == call # "none" ~> call = "none"

=============================================================================
