---------------------------- MODULE MCSideBySide ----------------------------
(***************************************************************************)
(* One run for three small models that share no state: CollectRounds,      *)
(* Devices and PrintCycle.  A behaviour is one of one of the models, with  *)
(* the variables of the others at initial values.                          *)
(***************************************************************************)
EXTENDS CollectRounds, PrintCycle, MCDevices

\* --cpu --net, in the order the printer's Range over them gave.
TwoCollectors == <<"cpu", "net">>

VARIABLE part \* the model a behaviour is of

SideInit ==
  /\ part \in {"rounds", "devices", "prints"}
  /\ Init /\ DevicesInit /\ PrintInit
  /\ part # "devices" => collector = "disk"
  /\ part # "prints" => Cached = {}

RoundsStep ==
  \E r \in Round :
    /\ part = "rounds" /\ Step(r)
    /\ UNCHANGED <<part, deviceVars, cycleVars>>

\* The end of the last round, the only place where a model stops.
RoundsOver ==
  /\ part = "rounds" /\ \A r \in Round : pc[r] = "done"
  /\ UNCHANGED <<part, vars, deviceVars, cycleVars>>

DevicesStep ==
  part = "devices" /\ DevicesNext /\ UNCHANGED <<part, vars, cycleVars>>

PrintStep ==
  part = "prints" /\ PrintNext /\ UNCHANGED <<part, vars, deviceVars>>

SideNext == RoundsStep \/ RoundsOver \/ DevicesStep \/ PrintStep

SideSpec == SideInit /\ [][SideNext]_<<part, vars, deviceVars, cycleVars>>

=============================================================================
