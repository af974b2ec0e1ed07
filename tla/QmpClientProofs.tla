-------------------------- MODULE QmpClientProofs --------------------------
(***************************************************************************)
(* Safety of the QMP client for every choice of its time limits: no answer *)
(* is another command's, none is older than its cache allows, and no       *)
(* counter goes backwards.                                                 *)
(***************************************************************************)
EXTENDS QmpClient, SequenceTheorems, TLAPS

\* Where the conversation stands.  No event comes before the reply to
\* qmp_capabilities, so that reply is the line after the greeting; from then
\* on neither of the two can be in the way.
Greeting ==
  pc = "greeting" =>
    \/ commands = <<"greeting">> /\ wire = <<>>
    \/ commands = <<>> /\ Len(wire) = 1

Negotiation ==
  pc = "capabilities" =>
    \/ commands = <<"capabilities">> /\ wire = <<>>
    \/ commands = <<>> /\ \A i \in 2..Len(wire) : wire[i].kind = "event"

Conversation ==
  pc \in {"balloon", "blockstats"} =>
    /\ \A i \in 1..Len(commands) : commands[i] \in {"balloon", "blockstats"}
    /\ \A i \in 1..Len(wire) : wire[i].kind # "capabilities"

Protocol == Greeting /\ Negotiation /\ Conversation

\* A missing answer is exactly Nothing.
OwnBalloon(a) == a.balloon = Nothing \/ a.balloon.kind = "balloon"
OwnBlock(a) == a.block = Nothing \/ a.block.kind = "blockstats"

Own == OwnBalloon(answer) /\ OwnBlock(answer) /\ OwnBalloon(qmp) /\ OwnBlock(qmp)

\* No line, and no cached answer, is older than the question it answers.
Lately ==
  /\ asked <= clock
  /\ \A i \in 1..Len(wire) : asked <= wire[i].at /\ wire[i].at <= clock
  /\ status.time <= status.at
  /\ qmp.balloon = Nothing \/ qmp.time <= qmp.balloon.at
  /\ qmp.block = Nothing \/ (qmp.time <= qmp.block.at /\ qmp.block.at <= clock)

Answering ==
  /\ call = "none" => pc = "idle"
  /\ pc \notin {"blockstats", "return"} => answer = Failed
  /\ pc = "blockstats" =>
       answer.block = Nothing /\ (answer.balloon = Nothing \/ asked <= answer.balloon.at)
  /\ answer.balloon = Nothing \/ asked - answer.balloon.at < QmpTTL
  /\ answer.block = Nothing \/ (answer.block = qmp.block /\ asked - answer.block.at < QmpTTL)

\* x is a floor of every counter that will be read from now on.
Floor(x) ==
  /\ x <= clock
  /\ pc = "dial" \/ Waiting => x <= asked
  /\ qmp.block = Nothing \/ x <= qmp.block.at

Counters ==
  /\ Floor(total) /\ Floor(disk)
  /\ \/ totals = Nothing \/ totals.kind = "status"
     \/ (totals.kind = "blockstats" /\ Floor(totals.at) /\ total <= totals.at)

IInv == TypeOK /\ Protocol /\ Own /\ Lately /\ Answering /\ Counters

(* The collectors' own steps do not touch the connection.                   *)
LEMMA LookupInv == ASSUME IInv, LookupStart \/ Lookup PROVE IInv'
<1> USE QmpAssumption DEF IInv, TypeOK, CommandNames, Lines, Kinds, Protocol, Greeting,
        Negotiation, Conversation, Own, OwnBalloon, OwnBlock, Lately, Answering,
        Counters, Floor, Failed, Nothing, Waiting, round, wires, caches, metrics
<1>1. CASE LookupStart
  BY <1>1, SMTT(30) DEF LookupStart
<1>2. CASE \E c \in {"mem", "disk"} : Collector(c)
  BY <1>2, SMTT(30) DEF Collector
<1>3. CASE MemAnswered
  BY <1>3, SMTT(30) DEF MemAnswered, MemStore
<1>4. CASE TotalsAnswered
  BY <1>4, SMTT(30) DEF TotalsAnswered, TotalsStore
<1>5. CASE FallBack
  BY <1>5, SMTT(30) DEF FallBack
<1>6. CASE DisksAnswered
  BY <1>6, SMTT(30) DEF DisksAnswered, Count
<1> QED
  BY <1>1, <1>2, <1>3, <1>4, <1>5, <1>6 DEF Lookup

(* Neither does the fallback to qm status.                                   *)
LEMMA StatusInv == ASSUME IInv, Status PROVE IInv'
<1> USE QmpAssumption DEF IInv, TypeOK, CommandNames, Lines, Kinds, Protocol, Greeting,
        Negotiation, Conversation, Own, OwnBalloon, OwnBlock, Lately, Answering,
        Counters, Floor, Failed, Nothing, Waiting, round, wires, caches, metrics
<1>1. CASE StatusCached
  BY <1>1, SMTT(30) DEF StatusCached, Output, MemStore, TotalsStore, Fresh
<1>2. CASE StatusStart
  BY <1>2, SMTT(30) DEF StatusStart
<1>3. CASE StatusAnswered
  BY <1>3, SMTT(30) DEF StatusAnswered, Output, MemStore, TotalsStore
<1>4. CASE StatusFailed
  BY <1>4, SMTT(30) DEF StatusFailed, MemStore
<1> QED
  BY <1>1, <1>2, <1>3, <1>4 DEF Status

(* A query begins with nothing read, and ends with nothing left to read.     *)
LEMMA QueryInv == ASSUME IInv, QueryCached \/ QueryStart \/ Deadline \/ Connect PROVE IInv'
<1> USE QmpAssumption DEF IInv, TypeOK, CommandNames, Lines, Kinds, Protocol, Greeting,
        Negotiation, Conversation, Own, OwnBalloon, OwnBlock, Lately, Answering,
        Counters, Floor, Failed, Nothing, Waiting, round, wires, caches, metrics
<1>1. CASE QueryCached
  BY <1>1, SMTT(30) DEF QueryCached, Fresh
<1>2. CASE QueryStart
  BY <1>2, SMTT(30) DEF QueryStart
<1>3. CASE Dial
  BY <1>3, SMTT(30) DEF Dial
<1>4. CASE Deadline
  BY <1>4, SMTT(30) DEF Deadline, GiveUp, Close
<1>5. CASE QueryFailed
  BY <1>5, SMTT(30) DEF QueryFailed, GiveUp, Close
<1> QED
  BY <1>1, <1>2, <1>3, <1>4, <1>5 DEF Connect

(* What is left of a sequence without its first element.                     *)
LEMMA Rest ==
  ASSUME NEW S, NEW s \in Seq(S), s # <<>>
  PROVE  /\ Len(s) \in Nat \ {0} /\ Head(s) = s[1] /\ s[1] \in S
         /\ Tail(s) \in Seq(S) /\ Len(Tail(s)) = Len(s) - 1
         /\ Len(s) = 1 => Tail(s) = <<>>
         /\ \A i \in 1..Len(Tail(s)) : i + 1 \in 2..Len(s) /\ Tail(s)[i] = s[i + 1]
<1>1. Len(s) \in Nat \ {0} /\ s \in [1..Len(s) -> S]
  BY EmptySeq, LenProperties
<1>2. /\ Tail(s) \in Seq(S) /\ Len(Tail(s)) = Len(s) - 1
      /\ \A i \in 1..Len(Tail(s)) : Tail(s)[i] = s[i + 1]
  BY HeadTailProperties
<1>3. Tail(s) # <<>> => Len(Tail(s)) \in Nat \ {0}
  BY <1>2, EmptySeq
<1> QED
  BY <1>1, <1>2, <1>3

(* The same for a new last element.                                          *)
LEMMA More ==
  ASSUME NEW S, NEW s \in Seq(S), NEW e \in S
  PROVE  /\ Append(s, e) \in Seq(S) /\ Len(Append(s, e)) = Len(s) + 1
         /\ s = <<>> => Append(s, e) = <<e>>
         /\ \A i \in 1..Len(Append(s, e)) :
              \/ i \in 1..Len(s) /\ Append(s, e)[i] = s[i]
              \/ i = Len(s) + 1 /\ Append(s, e)[i] = e
<1>1. Len(s) \in Nat
  BY LenProperties
<1>2. /\ Append(s, e) \in Seq(S) /\ Len(Append(s, e)) = Len(s) + 1
      /\ \A i \in 1..Len(s) : Append(s, e)[i] = s[i]
      /\ Append(s, e)[Len(s) + 1] = e
  BY AppendProperties
<1>3. s = <<>> => Append(s, e) = <<e>>
  OBVIOUS
<1> QED
  BY <1>1, <1>2, <1>3

(* A read takes the line that came first, and leaves the others.             *)
LEMMA ReadLine ==
  ASSUME IInv, Readable, wire' = Tail(wire)
  PROVE  /\ Len(wire) \in Nat \ {0} /\ Head(wire) = wire[1] /\ wire[1] \in Lines
         /\ asked <= wire[1].at /\ wire[1].at <= clock
         /\ wire' \in Seq(Lines) /\ Len(wire') = Len(wire) - 1 /\ (Len(wire) = 1 => wire' = <<>>)
         /\ \A i \in 1..Len(wire') :
              /\ i + 1 \in 2..Len(wire) /\ wire'[i] = wire[i + 1]
              /\ asked <= wire'[i].at /\ wire'[i].at <= clock
<1>1. wire \in Seq(Lines) /\ wire # <<>>
  BY DEF IInv, TypeOK, Readable
<1>2. /\ Len(wire) \in Nat \ {0} /\ Head(wire) = wire[1] /\ wire[1] \in Lines
      /\ wire' \in Seq(Lines) /\ Len(wire') = Len(wire) - 1 /\ (Len(wire) = 1 => wire' = <<>>)
      /\ \A i \in 1..Len(wire') : i + 1 \in 2..Len(wire) /\ wire'[i] = wire[i + 1]
  BY <1>1, Rest
<1>3. \A i \in 1..Len(wire) : asked <= wire[i].at /\ wire[i].at <= clock
  BY DEF IInv, Lately
<1> QED
  BY <1>2, <1>3

(* A read that goes on to the next command disturbs no cache, no counter and *)
(* no earlier answer.                                                        *)
LEMMA StepInv ==
  ASSUME IInv, NEW here \in CommandNames, NEW next \in CommandNames, Step(here, next)
  PROVE  /\ commands' \in Seq(CommandNames) /\ (commands = <<>> => commands' = <<next>>)
         /\ \A j \in 1..Len(commands') :
              \/ j \in 1..Len(commands) /\ commands'[j] = commands[j]
              \/ commands'[j] = next
         /\ Lately' /\ Counters'
<1>1. Readable /\ wire' = Tail(wire) /\ commands' = Append(commands, next)
  BY DEF Step
<1>2. commands \in Seq(CommandNames)
  BY DEF IInv, TypeOK
<1>3. /\ commands' \in Seq(CommandNames) /\ (commands = <<>> => commands' = <<next>>)
      /\ \A j \in 1..Len(commands') :
           \/ j \in 1..Len(commands) /\ commands'[j] = commands[j]
           \/ commands'[j] = next
  BY <1>1, <1>2, More
<1>4. \A j \in 1..Len(wire') : asked <= wire'[j].at /\ wire'[j].at <= clock
  BY <1>1, ReadLine
<1>5. Lately'
  BY <1>4 DEF IInv, Lately, Step, Nothing, caches
<1>6. Counters'
  BY DEF IInv, Counters, Floor, Step, Waiting, CommandNames, Nothing, caches, metrics
<1> QED
  BY <1>3, <1>5, <1>6

(* Each read leaves the next phase in its first state.                       *)
LEMMA ReadInv ==
  ASSUME IInv, ReadGreeting \/ ReadCapabilities \/ ReadBalloon
  PROVE  IInv'
<1>1. CASE ReadGreeting
  <2>1. Step("greeting", "capabilities") /\ Readable /\ wire' = Tail(wire)
    BY <1>1 DEF ReadGreeting, Step
  <2>2. /\ commands' \in Seq(CommandNames) /\ (commands = <<>> => commands' = <<"capabilities">>)
        /\ \A j \in 1..Len(commands') :
             \/ j \in 1..Len(commands) /\ commands'[j] = commands[j]
             \/ commands'[j] = "capabilities"
        /\ Lately' /\ Counters'
    BY <2>1, StepInv DEF CommandNames
  <2>3. /\ Len(wire) # 0 /\ Head(wire) = wire[1] /\ wire[1] \in Lines
        /\ asked <= wire[1].at /\ wire[1].at <= clock
        /\ wire' \in Seq(Lines) /\ Len(wire') = Len(wire) - 1 /\ (Len(wire) = 1 => wire' = <<>>)
    BY <2>1, ReadLine
  <2>4. \A j \in 1..Len(wire') : j + 1 \in 2..Len(wire) /\ wire'[j] = wire[j + 1]
    BY <2>1, ReadLine
  <2>6. TypeOK'
    BY <1>1, <2>2, <2>3 DEF ReadGreeting, Step, IInv, TypeOK, Waiting, round, caches, metrics
  <2>7. Protocol'
    BY <1>1, <2>2, <2>3 DEF ReadGreeting, Step, IInv, Protocol, Greeting, Negotiation, Conversation
  <2>8. Own'
    BY <1>1 DEF ReadGreeting, Step, IInv, Own, OwnBalloon, OwnBlock, Nothing, caches
  <2>9. Answering'
    BY <1>1, QmpAssumption DEF ReadGreeting, Step, IInv, Answering, Failed, Nothing, round, caches
  <2> QED
    BY <2>2, <2>6, <2>7, <2>8, <2>9 DEF IInv
<1>2. CASE ReadCapabilities
  <2>1. Step("capabilities", "balloon") /\ Readable /\ wire' = Tail(wire)
    BY <1>2 DEF ReadCapabilities, Step
  <2>2. /\ commands' \in Seq(CommandNames) /\ (commands = <<>> => commands' = <<"balloon">>)
        /\ \A j \in 1..Len(commands') :
             \/ j \in 1..Len(commands) /\ commands'[j] = commands[j]
             \/ commands'[j] = "balloon"
        /\ Lately' /\ Counters'
    BY <2>1, StepInv DEF CommandNames
  <2>3. /\ Len(wire) # 0 /\ Head(wire) = wire[1] /\ wire[1] \in Lines
        /\ asked <= wire[1].at /\ wire[1].at <= clock
        /\ wire' \in Seq(Lines) /\ Len(wire') = Len(wire) - 1 /\ (Len(wire) = 1 => wire' = <<>>)
    BY <2>1, ReadLine
  <2>4. \A j \in 1..Len(wire') : j + 1 \in 2..Len(wire) /\ wire'[j] = wire[j + 1]
    BY <2>1, ReadLine
  <2>6. TypeOK'
    BY <1>2, <2>2, <2>3 DEF ReadCapabilities, Step, IInv, TypeOK, Waiting, round, caches, metrics
  <2>7. Protocol'
    <3>1. commands = <<>> /\ \A j \in 2..Len(wire) : wire[j].kind = "event"
      BY <1>2, <2>1 DEF ReadCapabilities, Step, Readable, IInv, Protocol, Negotiation
    <3>2. pc' = "balloon" /\ commands' = <<"balloon">>
      BY <1>2, <2>2, <3>1 DEF ReadCapabilities, Step
    <3>3. \A j \in 1..Len(wire') : wire'[j].kind = "event"
      BY <2>4, <3>1
    <3> QED
      BY <3>2, <3>3 DEF Protocol, Greeting, Negotiation, Conversation
  <2>8. Own'
    BY <1>2 DEF ReadCapabilities, Step, IInv, Own, OwnBalloon, OwnBlock, Nothing, caches
  <2>9. Answering'
    BY <1>2, QmpAssumption DEF ReadCapabilities, Step, IInv, Answering, Failed, Nothing, round, caches
  <2> QED
    BY <2>2, <2>6, <2>7, <2>8, <2>9 DEF IInv
<1>3. CASE ReadBalloon
  <2>1. Step("balloon", "blockstats") /\ Readable /\ wire' = Tail(wire)
    BY <1>3 DEF ReadBalloon, Step
  <2>2. /\ commands' \in Seq(CommandNames) /\ (commands = <<>> => commands' = <<"blockstats">>)
        /\ \A j \in 1..Len(commands') :
             \/ j \in 1..Len(commands) /\ commands'[j] = commands[j]
             \/ commands'[j] = "blockstats"
        /\ Lately' /\ Counters'
    BY <2>1, StepInv DEF CommandNames
  <2>3. /\ Len(wire) # 0 /\ Head(wire) = wire[1] /\ wire[1] \in Lines
        /\ asked <= wire[1].at /\ wire[1].at <= clock
        /\ wire' \in Seq(Lines) /\ Len(wire') = Len(wire) - 1 /\ (Len(wire) = 1 => wire' = <<>>)
    BY <2>1, ReadLine
  <2>4. \A j \in 1..Len(wire') : j + 1 \in 2..Len(wire) /\ wire'[j] = wire[j + 1]
    BY <2>1, ReadLine
  <2> DEFINE balloon == AsBalloon(wire[1])
  <2>5. /\ balloon \in Lines /\ (balloon = Nothing \/ (balloon.kind = "balloon" /\ asked <= balloon.at))
        /\ answer' = [ok |-> FALSE, balloon |-> balloon, block |-> Nothing]
    <3>1. wire[1].kind # "capabilities"
      BY <1>3, <2>3, ReadLine, <2>1 DEF ReadBalloon, Step, IInv, Protocol, Conversation
    <3>2. balloon \in Lines /\ (balloon = Nothing \/ (balloon.kind = "balloon" /\ asked <= balloon.at))
      BY <2>3, <3>1 DEF AsBalloon, Lines, Nothing, Kinds
    <3>3. answer' = [ok |-> FALSE, balloon |-> balloon, block |-> Nothing]
      BY <1>3, <2>3 DEF ReadBalloon, Failed
    <3> QED
      BY <3>2, <3>3
  <2> HIDE DEF balloon
  <2>10. /\ pc = "balloon" /\ pc' = "blockstats"
         /\ UNCHANGED <<clock, todo, call, asked, deadline, qmp, status, totals, total, disk, ram>>
    BY <2>1 DEF Step, round, caches, metrics
  <2>6. TypeOK'
    BY <2>2, <2>3, <2>5, <2>10 DEF IInv, TypeOK, Waiting, Lines, Kinds, Nothing
  <2>7. Protocol'
    <3>1. /\ \A j \in 1..Len(commands) : commands[j] \in {"balloon", "blockstats"}
          /\ \A j \in 1..Len(wire) : wire[j].kind # "capabilities"
      BY <2>10 DEF IInv, Protocol, Conversation
    <3>2. \A j \in 1..Len(commands') : commands'[j] \in {"balloon", "blockstats"}
      BY <2>2, <3>1
    <3>3. \A j \in 1..Len(wire') : wire'[j].kind # "capabilities"
      <4>1. Len(wire) \in Nat
        BY DEF IInv, TypeOK
      <4> QED
        BY <2>4, <3>1, <4>1
    <3> QED
      BY <2>10, <3>2, <3>3 DEF Protocol, Greeting, Negotiation, Conversation
  <2>8. Own'
    BY <2>5, <2>10 DEF IInv, Own, OwnBalloon, OwnBlock, Nothing
  <2>9. Answering'
    BY <2>5, <2>10, QmpAssumption, SMTT(30) DEF IInv, TypeOK, Answering, Lines, Nothing
  <2> QED
    BY <2>2, <2>6, <2>7, <2>8, <2>9 DEF IInv
<1> QED
  BY <1>1, <1>2, <1>3

(* The last read closes the connection, and caches what it answered.         *)
LEMMA LastReadInv == ASSUME IInv, ReadBlockstats PROVE IInv'
<1> DEFINE block == AsBlock(wire[1])
<1>1. /\ Head(wire) = wire[1] /\ wire[1] \in Lines
      /\ asked <= wire[1].at /\ wire[1].at <= clock
  <2>1. wire \in Seq(Lines) /\ wire # <<>>
    BY DEF IInv, TypeOK, ReadBlockstats, Readable
  <2>2. Len(wire) \in Nat \ {0} /\ Head(wire) = wire[1] /\ wire[1] \in Lines
    BY <2>1, Rest
  <2> QED
    BY <2>2 DEF IInv, Lately
<1>2. /\ block \in Lines
      /\ \/ block = Nothing
         \/ block.kind = "blockstats" /\ asked <= block.at /\ block.at <= clock
  BY <1>1 DEF AsBlock, Lines, Nothing, Kinds
<1>3. /\ answer' = [answer EXCEPT !.ok = TRUE, !.block = block]
      /\ qmp' = [balloon |-> answer.balloon, block |-> block, time |-> asked]
  BY <1>1 DEF ReadBlockstats
<1> HIDE DEF block
<1>4. answer' = [ok |-> TRUE, balloon |-> answer.balloon, block |-> block]
  BY <1>3 DEF IInv, TypeOK
<1>5. /\ pc = "blockstats" /\ pc' = "return" /\ deadline' = 0 /\ commands' = <<>> /\ wire' = <<>>
      /\ UNCHANGED <<clock, todo, call, asked, status, totals, total, disk, ram>>
  BY DEF ReadBlockstats, Close, round, metrics
<1> DEFINE balloon == answer.balloon
<1>6. /\ balloon \in Lines /\ answer.block = Nothing
      /\ balloon = Nothing \/ (asked <= balloon.at /\ asked - balloon.at < QmpTTL)
      /\ balloon = Nothing \/ balloon.kind = "balloon"
  BY <1>5 DEF IInv, TypeOK, Answering, Own, OwnBalloon
<1>7. /\ answer' = [ok |-> TRUE, balloon |-> balloon, block |-> block]
      /\ qmp' = [balloon |-> balloon, block |-> block, time |-> asked]
  BY <1>3, <1>4
<1>8. /\ clock \in Nat /\ asked \in Nat /\ total \in Nat /\ disk \in Nat /\ totals \in Lines
      /\ QmpTTL \in Nat \ {0}
  BY QmpAssumption DEF IInv, TypeOK
<1> HIDE DEF balloon
<1>9. TypeOK'
  <2>1. answer' \in [ok : BOOLEAN, balloon : Lines, block : Lines]
    BY <1>2, <1>6, <1>7
  <2>2. qmp' \in [balloon : Lines, block : Lines, time : Int]
    BY <1>2, <1>6, <1>7, <1>8
  <2>3. commands' \in Seq(CommandNames) /\ wire' \in Seq(Lines)
    BY <1>5
  <2> QED
    BY <1>5, <2>1, <2>2, <2>3 DEF IInv, TypeOK, Waiting
<1>10. Protocol'
  BY <1>5 DEF Protocol, Greeting, Negotiation, Conversation
<1>11. Own'
  BY <1>2, <1>6, <1>7 DEF Own, OwnBalloon, OwnBlock
<1>12. Lately'
  BY <1>2, <1>5, <1>6, <1>7 DEF IInv, Lately
<1>13. Answering'
  BY <1>2, <1>5, <1>6, <1>7, <1>8 DEF IInv, Answering, Lines
<1>14. Counters'
  <2>1. ASSUME NEW x \in Nat, Floor(x) PROVE Floor(x)'
    BY <1>2, <1>5, <1>7, <1>8, <2>1 DEF Floor, Waiting, Lines
  <2>2. Floor(total)' /\ Floor(disk)'
    BY <1>5, <1>8, <2>1 DEF IInv, Counters
  <2>3. totals.kind = "blockstats" /\ Floor(totals.at) => Floor(totals.at)'
    BY <1>5, <1>8, <2>1 DEF Lines
  <2> QED
    BY <1>5, <2>2, <2>3 DEF IInv, Counters, Nothing
<1> QED
  BY <1>9, <1>10, <1>11, <1>12, <1>13, <1>14 DEF IInv

(* QEMU writes lines of now, and no event before it has answered             *)
(* qmp_capabilities.                                                         *)
LEMMA WriteInv ==
  ASSUME IInv, NEW line \in Lines, wire' = Append(wire, line), line.at = clock,
         UNCHANGED <<clock, round, pc, asked, deadline, answer, caches, totals, metrics>>
  PROVE  /\ wire' \in Seq(Lines) /\ Len(wire') = Len(wire) + 1
         /\ \A i \in 1..Len(wire') :
              \/ i \in 1..Len(wire) /\ wire'[i] = wire[i]
              \/ i = Len(wire) + 1 /\ wire'[i] = line
         /\ Own' /\ Lately' /\ Answering' /\ Counters'
<1>1. wire \in Seq(Lines)
  BY DEF IInv, TypeOK
<1>2. /\ wire' \in Seq(Lines) /\ Len(wire') = Len(wire) + 1
      /\ \A i \in 1..Len(wire') :
           \/ i \in 1..Len(wire) /\ wire'[i] = wire[i]
           \/ i = Len(wire) + 1 /\ wire'[i] = line
  BY <1>1, More
<1>3. Lately'
  <2>1. asked <= clock /\ \A i \in 1..Len(wire) : asked <= wire[i].at /\ wire[i].at <= clock
    BY DEF IInv, Lately
  <2>2. clock \in Nat
    BY DEF IInv, TypeOK
  <2>3. \A i \in 1..Len(wire') : asked <= wire'[i].at /\ wire'[i].at <= clock
    BY <1>2, <2>1, <2>2
  <2> QED
    BY <2>1, <2>3 DEF IInv, Lately, Nothing, caches
<1>4. Own' /\ Answering'
  BY DEF IInv, Own, OwnBalloon, OwnBlock, Answering, Failed, Nothing, round, caches
<1>5. Counters'
  BY DEF IInv, Counters, Floor, Waiting, Nothing, caches, metrics
<1> QED
  BY <1>2, <1>3, <1>4, <1>5

LEMMA ReplyInv == ASSUME IInv, Reply PROVE IInv'
<1> DEFINE c == Head(commands)
<1>1. commands \in Seq(CommandNames) /\ commands # <<>>
  BY DEF IInv, TypeOK, Reply
<1>2. /\ Len(commands) \in Nat \ {0} /\ c = commands[1] /\ c \in CommandNames
      /\ commands' \in Seq(CommandNames) /\ Len(commands') = Len(commands) - 1
      /\ Len(commands) = 1 => commands' = <<>>
      /\ \A i \in 1..Len(commands') : i + 1 \in 2..Len(commands) /\ commands'[i] = commands[i + 1]
  <2>1. commands' = Tail(commands)
    BY DEF Reply
  <2> QED
    BY <1>1, <2>1, Rest
<1>3. PICK kind \in {c} \cup (IF c = "balloon" THEN {"error"} ELSE {}) :
        wire' = Append(wire, [kind |-> kind, at |-> clock])
  BY DEF Reply
<1>4. [kind |-> kind, at |-> clock] \in Lines
  BY <1>2 DEF IInv, TypeOK, Lines, Kinds, CommandNames
<1>5. UNCHANGED <<clock, round, pc, asked, deadline, answer, caches, totals, metrics>> /\ Waiting
  BY DEF Reply
<1>6. /\ wire' \in Seq(Lines) /\ Len(wire') = Len(wire) + 1
      /\ \A i \in 1..Len(wire') :
           \/ i \in 1..Len(wire) /\ wire'[i] = wire[i]
           \/ i = Len(wire) + 1 /\ wire'[i] = [kind |-> kind, at |-> clock]
      /\ Own' /\ Lately' /\ Answering' /\ Counters'
  BY <1>3, <1>4, <1>5, WriteInv
<1> HIDE DEF c
<1>7. TypeOK'
  BY <1>2, <1>5, <1>6 DEF IInv, TypeOK, Waiting, round, caches, metrics
<1>8. Greeting' /\ Negotiation'
  BY <1>1, <1>2, <1>5, <1>6 DEF IInv, Protocol, Greeting, Negotiation
<1>9. Conversation'
  <2>1. SUFFICES ASSUME pc \in {"balloon", "blockstats"}
                 PROVE  /\ \A i \in 1..Len(commands') : commands'[i] \in {"balloon", "blockstats"}
                        /\ \A i \in 1..Len(wire') : wire'[i].kind # "capabilities"
    BY <1>5 DEF Conversation
  <2>2. /\ \A i \in 1..Len(commands) : commands[i] \in {"balloon", "blockstats"}
        /\ \A i \in 1..Len(wire) : wire[i].kind # "capabilities"
    BY <2>1 DEF IInv, Protocol, Conversation
  <2>3. kind # "capabilities"
    BY <1>2, <2>2
  <2>4. \A i \in 1..Len(commands') : commands'[i] \in {"balloon", "blockstats"}
    BY <1>2, <2>2
  <2> QED
    BY <1>6, <2>2, <2>3, <2>4
<1> QED
  BY <1>6, <1>7, <1>8, <1>9 DEF IInv, Protocol

LEMMA EventInv == ASSUME IInv, Event PROVE IInv'
<1> DEFINE line == [kind |-> "event", at |-> clock]
<1>1. line \in Lines /\ line.kind = "event" /\ line.at = clock
  BY DEF IInv, TypeOK, Lines, Kinds
<1>2. /\ UNCHANGED <<clock, round, pc, asked, deadline, commands, answer, caches, totals, metrics>>
      /\ Negotiated /\ wire' = Append(wire, line)
  BY DEF Event
<1> HIDE DEF line
<1>3. /\ wire' \in Seq(Lines) /\ Len(wire') = Len(wire) + 1
      /\ \A i \in 1..Len(wire') :
           \/ i \in 1..Len(wire) /\ wire'[i] = wire[i]
           \/ i = Len(wire) + 1 /\ wire'[i] = line
      /\ Own' /\ Lately' /\ Answering' /\ Counters'
  BY <1>1, <1>2, WriteInv
<1>4. TypeOK'
  BY <1>2, <1>3 DEF IInv, TypeOK, Negotiated, Waiting, round, caches, metrics
<1>5. Greeting' /\ Conversation'
  BY <1>1, <1>2, <1>3 DEF IInv, Protocol, Greeting, Conversation, Negotiated
<1>6. Negotiation'
  <2>1. SUFFICES ASSUME pc = "capabilities"
                 PROVE  commands' = <<>> /\ \A i \in 2..Len(wire') : wire'[i].kind = "event"
    BY <1>2 DEF Negotiation
  <2>2. commands # <<"capabilities">>
    BY <1>2 DEF Negotiated
  <2>3. commands = <<>> /\ \A i \in 2..Len(wire) : wire[i].kind = "event"
    BY <2>1, <2>2 DEF IInv, Protocol, Negotiation
  <2>4. Len(wire) \in Nat
    BY DEF IInv, TypeOK
  <2> QED
    BY <1>1, <1>2, <1>3, <2>3, <2>4
<1> QED
  BY <1>3, <1>4, <1>5, <1>6 DEF IInv, Protocol

LEMMA TickInv == ASSUME IInv, Tick PROVE IInv'
<1>1. clock \in Nat /\ clock' = clock + 1 /\ UNCHANGED <<round, pc, asked, wires, answer, caches, totals, metrics>>
  BY DEF IInv, TypeOK, Tick
<1>2. TypeOK'
  BY <1>1 DEF IInv, TypeOK, Waiting, round, wires, caches, metrics
<1>3. Protocol' /\ Own'
  BY <1>1 DEF IInv, Protocol, Greeting, Negotiation, Conversation, Own, OwnBalloon, OwnBlock,
              Nothing, wires, caches
<1>4. Lately'
  <2>1. asked <= clock' /\ asked \in Nat
    BY <1>1 DEF IInv, Lately, TypeOK
  <2>2. \A i \in 1..Len(wire) : wire[i].at \in Nat /\ wire[i].at <= clock
    <3>1. \A i \in 1..Len(wire) : wire[i] \in Lines
      BY ElementOfSeq DEF IInv, TypeOK
    <3> QED
      BY <3>1 DEF IInv, Lately, Lines
  <2>3. \A i \in 1..Len(wire) : wire[i].at <= clock'
    BY <1>1, <2>2
  <2>4. qmp.block = Nothing \/ qmp.block.at <= clock'
    BY <1>1 DEF IInv, Lately, TypeOK, Lines
  <2> QED
    BY <1>1, <2>1, <2>3, <2>4 DEF IInv, Lately, Nothing, wires, caches
<1>5. Answering' /\ Counters'
  BY <1>1 DEF IInv, TypeOK, Lines, Answering, Counters, Floor, Failed, Nothing, Waiting,
              round, wires, caches, metrics
<1> QED
  BY <1>2, <1>3, <1>4, <1>5 DEF IInv

LEMMA InitInv == ASSUME Init PROVE IInv
BY QmpAssumption
DEF Init, IInv, TypeOK, CommandNames, Lines, Kinds, Protocol, Greeting, Negotiation, Conversation,
    Own, OwnBalloon, OwnBlock, Lately, Answering, Counters, Floor, Failed, Nothing, NoQmp,
    NoStatus, Waiting

LEMMA NextInv == ASSUME IInv, [Next]_vars PROVE IInv'
<1>1. CASE LookupStart \/ Lookup
  BY <1>1, LookupInv
<1>2. CASE Status
  BY <1>2, StatusInv
<1>3. CASE Query \/ Connect
  BY <1>3, QueryInv, ReadInv, LastReadInv DEF Query
<1>4. CASE Reply \/ Event \/ Tick
  BY <1>4, ReplyInv, EventInv, TickInv
<1>5. CASE UNCHANGED vars
  BY <1>5 DEF vars, IInv, TypeOK, Protocol, Greeting, Negotiation, Conversation,
              Own, OwnBalloon, OwnBlock, Lately, Answering, Counters, Floor, Failed, Nothing,
              Waiting, round, wires, caches, metrics
<1> QED
  BY <1>1, <1>2, <1>3, <1>4, <1>5 DEF Next

(* The inductive invariant, for every choice of the constants.               *)
THEOREM Invariance == Spec => []IInv
BY InitInv, NextInv, PTL DEF Spec

(* Nothing is left on a connection that no query waits on, and every field   *)
(* stays what the Go types say.                                              *)
THEOREM TypeCorrect == Spec => []TypeOK
<1>1. IInv => TypeOK
  BY DEF IInv
<1> QED
  BY <1>1, Invariance, PTL

(* However QEMU's events interleave with its replies, queryQMP's successive  *)
(* ReadBytes never take the reply to one command for that to another.        *)
THEOREM OwnAnswers == Spec => []AnswersOwn
<1>1. IInv => AnswersOwn
  BY DEF IInv, Own, OwnBalloon, OwnBlock, AnswersOwn, Nothing
<1> QED
  BY <1>1, Invariance, PTL

(* The time limits of qmpCacheMap and statusCache are kept, however slow the *)
(* answers are.                                                              *)
THEOREM RecentAnswers == Spec => AnswersRecent
<1> DEFINE A == /\ totals' # totals => Recent(totals', asked')
                /\ answer' # answer => Recent(answer'.balloon, asked') /\ Recent(answer'.block, asked')
<1>1. ASSUME IInv, [Next]_vars PROVE [A]_vars
  <2>1. IInv'
    BY <1>1, NextInv
  <2>2. Recent(answer'.balloon, asked') /\ Recent(answer'.block, asked')
    BY <2>1 DEF IInv, Own, OwnBalloon, OwnBlock, Answering, Recent, Nothing
  <2>3. totals' # totals => Recent(totals', asked')
    <3>1. CASE TotalsAnswered
      BY <1>1, <3>1 DEF IInv, TypeOK, Own, OwnBlock, Answering, Recent, Nothing, TotalsAnswered, TotalsStore
    <3>2. CASE StatusCached
      BY <1>1, <3>2, QmpAssumption DEF IInv, TypeOK, Lately, Recent, StatusCached, Output, Fresh, MemStore, TotalsStore
    <3>3. CASE StatusAnswered
      BY <1>1, <3>3, QmpAssumption DEF IInv, TypeOK, Lately, Recent, StatusAnswered, Output, MemStore, TotalsStore
    <3>4. CASE DisksAnswered
      BY <3>4 DEF DisksAnswered, Recent, Nothing
    <3>5. CASE totals' = totals
      BY <3>5
    <3>6. TotalsAnswered \/ StatusCached \/ StatusAnswered \/ DisksAnswered \/ totals' = totals
      BY <1>1
      DEF Next, LookupStart, Lookup, Collector, MemAnswered, MemStore, FallBack, Query, QueryCached,
          QueryStart, ReadGreeting, ReadCapabilities, ReadBalloon, ReadBlockstats, Step, Deadline,
          Connect, Dial, QueryFailed, GiveUp, Status, StatusStart, StatusFailed, Reply, Event, Tick, vars
    <3> QED
      BY <3>1, <3>2, <3>3, <3>4, <3>5, <3>6
  <2> QED
    BY <2>2, <2>3
<1> QED
  BY <1>1, Invariance, PTL DEF Spec, AnswersRecent

(* No rate computed from GetDiskStats or GetPerDiskStats wraps, but after a  *)
(* fallback to qm status.                                                    *)
THEOREM GrowingCounters == Spec => CountersGrow
<1> DEFINE A == (total' # 0 => total' >= total) /\ disk' >= disk
<1>1. ASSUME IInv, [Next]_vars PROVE [A]_vars
  <2>1. CASE DisksAnswered
    <3>1. total' # 0 => total' >= total
      BY <1>1, <2>1 DEF IInv, TypeOK, Lines, Counters, Floor, DisksAnswered, Count, Nothing
    <3>2. disk' >= disk
      <4>1. CASE answer.block = Nothing
        BY <1>1, <2>1, <4>1 DEF IInv, TypeOK, DisksAnswered
      <4>2. CASE answer.block # Nothing
        BY <1>1, <2>1, <4>2
        DEF IInv, TypeOK, Lines, Own, OwnBlock, Answering, Counters, Floor, DisksAnswered, Count
      <4> QED
        BY <4>1, <4>2
    <3> QED
      BY <3>1, <3>2
  <2>2. CASE UNCHANGED <<total, disk>>
    BY <1>1, <2>2 DEF IInv, TypeOK
  <2>3. DisksAnswered \/ UNCHANGED <<total, disk>>
    BY <1>1
    DEF Next, LookupStart, Lookup, Collector, MemAnswered, MemStore, TotalsAnswered, TotalsStore,
        FallBack, Query, QueryCached, QueryStart, ReadGreeting, ReadCapabilities, ReadBalloon,
        ReadBlockstats, Step, Deadline, Connect, Dial, QueryFailed, GiveUp, Status, StatusCached,
        StatusStart, StatusAnswered, StatusFailed, Output, Reply, Event, Tick, vars, metrics
  <2> QED
    BY <2>1, <2>2, <2>3
<1> QED
  BY <1>1, Invariance, PTL DEF Spec, CountersGrow

=============================================================================
