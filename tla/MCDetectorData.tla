-------------------------- MODULE MCDetectorData --------------------------
(***************************************************************************)
(* One channel whose runs are of mapping mode 0 and of list mode in turn,  *)
(* and the list mode buffer of the SINC library, on small instances.  They *)
(* share no state, so one of them is run at a time.                        *)
(*                                                                         *)
(* List mode packets of every type, with counts that need their second     *)
(* word, a signed value and a parameter too long for a line; between them  *)
(* half a word, a word of no type, the second word of a pulse alone, a     *)
(* packet without its end, and an alignment word that is not the one.      *)
(***************************************************************************)
EXTENDS RunData, ListPackets

StatsPacket(type, samples) ==
  [typ |-> type, sampleCount |-> samples, counts |-> 1, veto |-> 6, timestamp |-> 7]
MCPackets ==
  {[typ |-> "streamAlign"], [typ |-> "sync", timestamp |-> 3],
   [typ |-> "overflow", timestamp |-> 4], [typ |-> "gateState", gate |-> TRUE, timestamp |-> 4],
   [typ |-> "pulse", invalid |-> TRUE, amplitude |-> -2,
    hasTimeOfArrival |-> FALSE, timeOfArrival |-> 0],
   [typ |-> "pulse", invalid |-> FALSE, amplitude |-> 2,
    hasTimeOfArrival |-> TRUE, timeOfArrival |-> 5],
   [typ |-> "spatialPosition", axis |-> -1, timestamp |-> 7],
   StatsPacket("gatedStats", 5000), StatsPacket("spatialStats", 300),
   StatsPacket("periodicStats", 30)}
MCBreaks == {<<32>>, <<0, 32>>, <<0, 16>>, <<3, 160>>, <<0, 112>>}
MCParameters == <<20, 300>>

VARIABLE part  \* what is run

Init ==
  /\ DataInit /\ PacketsInit
  /\ \/ part = "channel" /\ version = Version_0_9_0 /\ header = "none"
     \/ part = "packets" /\ settings = CHOOSE s \in Settings : TRUE

Next ==
  /\ \/ part = "channel" /\ ChannelNext /\ UNCHANGED packetsVars
     \/ part = "packets" /\ PacketsNext /\ UNCHANGED vars
  /\ UNCHANGED part

Spec == Init /\ [][Next]_<<part, vars, packetsVars>>
===========================================================================
