--------------------------- MODULE DetectorData ---------------------------
(***************************************************************************)
(* One channel's data between the device and the mapping mode control that *)
(* is open for it (fDetector->mmc).  A run opens the control in its mode   *)
(* and starts the channel; from then on what the device sends is taken by  *)
(* the mode that is open when the receiver thread comes to it, which need  *)
(* not be the one it was sent for.  MappingMode0 and ListMode add what     *)
(* each mode does with the data and what the user reads.                   *)
(***************************************************************************)
EXTENDS MappingBuffers

CONSTANTS
  Bins,         \* values of number_mca_channels
  StatsWords,   \* 32 bit words in SincHistogramCountStats
  ListWords,    \* XMAP_LISTMODE_BUFFER
  PacketSizes,  \* words a list mode packet may have
  MaxSets,      \* bound: data sets the device sends
  MaxRuns,      \* bound: runs
  MaxChanges,   \* bound: changes of the histogram settings
  MaxWire       \* bound: data messages on their way to the receiver

ASSUME DataAssumption ==
  /\ Bins # {}
  /\ Bins \cup PacketSizes \cup {StatsWords, ListWords} \subseteq Nat \ {0}
  /\ {MaxSets, MaxRuns, MaxChanges, MaxWire} \subseteq Nat

Modes == {"MCA", "LIST"}
Settings == [mapping_mode : Modes, accepted : BOOLEAN, rejected : BOOLEAN, bins : Bins]

VARIABLES
  settings,      \* mapping_mode, mca_spectrum_accepted, mca_spectrum_rejected,
                 \* number_mca_channels
  device,        \* what the channel does
  wire,          \* messages from the device the receiver has not taken
  channelState,  \* the state the receiver last heard of
  runActive,     \* Handel's module->state->runActive
  mode,          \* the mode of the open control
  mmb,           \* its buffers
  numBins,       \* MMC0_Data.numMCAChannels
  latest,        \* mode 0: history: the histogram received last
  spectrum,      \* mode 0: what the last read of the mca returned
  statistics,    \* fDetector->stats: the data set they are of, 0 once cleared
  sent,          \* list mode: history: words received in this run, in order
  handed,        \* list mode: history: words of the buffers the user is done with
  lost,          \* list mode: history: words that found no room
  warned,        \* list mode: history: the user has seen buffer_overrun
  sets, runs, changes   \* history: counts for the bounds

history  == <<sets, runs, changes>>
listData == <<sent, handed, lost, warned>>
mcaData  == <<numBins, latest, spectrum, statistics>>
channel  == <<settings, device, channelState, runActive, mode>>
vars     == <<settings, device, wire, channelState, runActive, mode, mmb, mcaData,
              listData, history>>

RunStates == [MCA |-> "Histogram", LIST |-> "ListMode"]
NoHistogram == [set |-> 0, accepted |-> 0, rejected |-> 0]
NoSpectrum  == [from |-> NoHistogram, asked |-> [accepted |-> 0, rejected |-> 0],
                accepted |-> << >>, rejected |-> << >>, stats |-> << >>]

DataInit ==
  /\ settings \in Settings
  /\ device = "Ready" /\ wire = << >> /\ channelState = "Ready"
  /\ runActive = FALSE /\ mode = "NIL" /\ mmb = Buffers_Open(0, 0)
  /\ numBins = 0 /\ latest = NoHistogram /\ spectrum = NoSpectrum /\ statistics = 0
  /\ sent = << >> /\ handed = << >> /\ lost = 0 /\ warned = FALSE
  /\ sets = 0 /\ runs = 0 /\ changes = 0

(* The words of a data set, each known by where it comes from.             *)
Words(part, set, n) == [i \in 1..n |-> [part |-> part, set |-> set, at |-> i]]

---------------------------------------------------------------------------
(* The Handel user starts and stops runs, and may set acquisition values   *)
(* at any time.                                                            *)

OpenedFor(m) ==
  IF m = "MCA" THEN Buffers_Open(2 * settings.bins + StatsWords, 0)
               ELSE Buffers_Open(ListWords, 0)

(* The channel goes to the state of the mode and says so; one that is not  *)
(* ready is left as it is, without an error.                               *)
StartAcquisition(m) ==
  IF channelState = "Ready" /\ device = "Ready"
  THEN /\ device' = RunStates[m]
       /\ wire' = Append(wire, [type |-> "state", state |-> RunStates[m]])
  ELSE UNCHANGED <<device, wire>>

(* The control of the last run is closed and the one of the mapping mode   *)
(* opened; the channel is started if it is calibrated.  The statistics     *)
(* stay those of the last run.                                             *)
StartRun(m, calibrated) ==
  /\ ~runActive /\ runs < MaxRuns /\ m = settings.mapping_mode
  /\ mode' = m /\ mmb' = OpenedFor(m)
  /\ numBins' = IF m = "MCA" THEN settings.bins ELSE 0
  /\ latest' = NoHistogram /\ spectrum' = NoSpectrum /\ UNCHANGED statistics
  /\ sent' = << >> /\ handed' = << >> /\ lost' = 0 /\ warned' = FALSE
  /\ runActive' = TRUE /\ runs' = runs + 1
  /\ IF calibrated THEN StartAcquisition(m) ELSE UNCHANGED <<device, wire>>
  /\ UNCHANGED <<settings, channelState, sets, changes>>

(* A stop that fails or times out leaves the run active.  The buffers are  *)
(* not told of it in these modes.                                          *)
StopRun(ok, stops) ==
  /\ runActive
  /\ runActive' = ~ok
  /\ IF stops /\ device # "Ready"
     THEN /\ device' = "Ready"
          /\ wire' = Append(wire, [type |-> "state", state |-> "Ready"])
     ELSE UNCHANGED <<device, wire>>
  /\ UNCHANGED <<settings, channelState, mode, mmb, mcaData, listData, history>>

ChangeSettings(s) ==
  /\ changes < MaxChanges /\ s # settings
  /\ settings' = s /\ changes' = changes + 1
  /\ UNCHANGED <<device, wire, channelState, runActive, mode, mmb, mcaData, listData, sets, runs>>

---------------------------------------------------------------------------
(* The device.                                                             *)

Histogram(n) ==
  [type |-> "histogram", set |-> n,
   accepted |-> IF settings.accepted THEN settings.bins ELSE 0,
   rejected |-> IF settings.rejected THEN settings.bins ELSE 0]

Packet(n, w) == [type |-> "list", set |-> n, words |-> w]

DeviceSends ==
  /\ Len(wire) < MaxWire /\ sets < MaxSets
  /\ sets' = sets + 1
  /\ \/ device = "Histogram" /\ wire' = Append(wire, Histogram(sets'))
     \/ device = "ListMode" /\ \E w \in PacketSizes : wire' = Append(wire, Packet(sets', w))
  /\ UNCHANGED <<channel, mmb, mcaData, listData, runs, changes>>

RunEnds ==
  /\ device # "Ready"
  /\ device' = "Ready"
  /\ wire' = Append(wire, [type |-> "state", state |-> "Ready"])
  /\ UNCHANGED <<settings, channelState, runActive, mode, mmb, mcaData, listData, history>>

---------------------------------------------------------------------------
(* The receiver thread.                                                    *)

Receiving(type) == wire # << >> /\ Head(wire).type = type /\ wire' = Tail(wire)

ReceiveState ==
  /\ Receiving("state")
  /\ channelState' = Head(wire).state
  /\ UNCHANGED <<settings, device, runActive, mode, mmb, mcaData, listData, history>>

(* Data for a mode that is not open is dropped.                            *)
ReceiveElse ==
  /\ \/ Receiving("histogram") /\ mode # "MCA"
     \/ Receiving("list") /\ mode # "LIST"
  /\ UNCHANGED <<channel, mmb, mcaData, listData, history>>

(* Run data is refused unless the channel is in the state of the mode or   *)
(* ready, and the control is still open in the mode.                       *)
RunningOrReady(m) == mode = m /\ channelState \in {RunStates[m], "Ready"}

DataNext ==
  \/ \E m \in Modes, calibrated \in BOOLEAN : StartRun(m, calibrated)
  \/ \E ok, stops \in BOOLEAN : StopRun(ok, stops)
  \/ \E s \in Settings : ChangeSettings(s)
  \/ DeviceSends
  \/ RunEnds
  \/ ReceiveState
  \/ ReceiveElse
===========================================================================
