-------------------------- MODULE AcquisitionValues --------------------------
(***************************************************************************)
(* The acquisition values of one detector channel.  A value the user sets  *)
(* is kept in the list of defaults, which xiaSaveSystem saves, and in      *)
(* parameters of the device.  Few values are one parameter: some share     *)
(* one, some are two, the parameter of some depends on another value, and  *)
(* some are only sent when a run starts.  AcqHandlers has the handlers.    *)
(*                                                                         *)
(* The values offered in one behaviour are a group of those that share     *)
(* parameters or are used together.  A value its handler refuses changes   *)
(* nothing; what such a value does at set-up, where it may have been saved *)
(* of another device, is here.                                             *)
(***************************************************************************)
EXTENDS AcqHandlers

CONSTANTS
  Groups,       \* sets of pairs of a value's name and what the user sets it to
  Devices,      \* the devices there are, each the set of features it has
  Gains,        \* what the user multiplies the scale factor by
  MaxAcqCalls,  \* bound: calls
  MaxRefused    \* bound: parameters refused or not answered in time

ASSUME AcqAssumption ==
  /\ \A group \in Groups : \A o \in group :
       o[1] \in Names /\ o[2] \in Int /\ (o[1] = "number_of_scas" => o[2] >= 0)
  /\ Devices \subseteq SUBSET Features /\ Devices # {} /\ Gains \subseteq Nat
  /\ MaxAcqCalls \in Nat /\ MaxRefused \in Nat

VARIABLES
  offered,    \* the group of values that is used
  device,     \* the features of the device
  defaults,   \* the channel's list of defaults
  n_sca,      \* module->ch[].n_sca
  polarity,   \* detector->polarity of the channel
  params,     \* the device's parameters
  running,    \* none or the mapping mode of the run
  up,         \* the last xiaStartSystem succeeded
  saved,      \* the saved file: defaults and polarity; history: the device, no refusal yet
  settled,    \* history: values last set or read without error
  started,    \* history: the defaults when the run started
  restarted,  \* history: nothing was called since the last start
  misfit,     \* history: a start refused a value saved of that device
  refreshSet, \* history: mca_refresh was set after the run started
  acqCalls, refused

acqVars == <<offered, device, defaults, n_sca, polarity, params, running, up, saved, settled,
             started, restarted, misfit, refreshSet, acqCalls, refused>>

-----------------------------------------------------------------------------
(* pslSetNumberSCAs drops the limits of the SCAs that go.                  *)
Dropped(list, name, value, old) ==
  IF name # "number_of_scas" THEN list
  ELSE [n \in DOMAIN list \ {Sca(i) : i \in value .. old - 1} |-> list[n]]

(* psl__UpdateDefault: set the entry or add it.                            *)
Updated(list, name, value, old) ==
  Put(Dropped(list, name, value, old), name, Kept(name, value))

Scas(name, value, old) == IF name = "number_of_scas" THEN value ELSE old
Polarity(name, value, old) == IF name = "detector_polarity" THEN value ELSE old

(* psl__UserSetup: the values that are missing, the polarity of the        *)
(* detector, and then every value of the list, in its order.               *)
Fault_Completed(kept) ==
  Put(Over(DEFAULT_ACQ_VALUES, kept.list), "detector_polarity", kept.polarity)
Completed(kept) == Put(Over(kept.list, DEFAULT_ACQ_VALUES), "detector_polarity", kept.polarity)

(* The values of the list that the device has, sent in the order of the    *)
(* saved file, which may be any.                                           *)
Orders == {Order, Reverse(Order)}
Present(list, dev) == {n \in DOMAIN list : Supported(n, dev)}

SetupWrites(list, order, dev) ==
  FlattenSeq([k \in DOMAIN order |->
    IF order[k] \in Present(list, dev) THEN Writes(order[k], list[order[k]], list, 0, dev)
    ELSE << >>])

(* The values before the first whose handler refuses it.                   *)
AcceptedPart(list, order, dev) ==
  LET refuses(n) == n \in Present(list, dev) /\ ~Accepted(n, list[n], dev)
      bad == {k \in DOMAIN order : refuses(order[k])}
  IN  IF bad = {} THEN order ELSE SubSeq(order, 1, Min(bad) - 1)

(* Then the digital pins, and a calculation of the DC offset if asked for. *)
DigitalConf == <<<<"digitalConfig", "8in-24out">>>>
Calculated == 99  \* what the device finds: external
CalculatedOffset(list) ==
  IF list["auto_dc_offset"] > 0 THEN <<<<"dc_offset", Calculated>>>> ELSE << >>

AcqInit ==
  /\ offered \in Groups /\ device \in Devices
  /\ defaults = DEFAULT_ACQ_VALUES /\ n_sca = 0 /\ polarity = 0
  /\ \E order \in Orders :
       params = AfterWrites(Factory, SetupWrites(DEFAULT_ACQ_VALUES, order, device) \o DigitalConf)
  /\ running = "none" /\ up = TRUE
  /\ saved = [list |-> DEFAULT_ACQ_VALUES, polarity |-> 0, device |-> device, clean |-> TRUE]
  /\ settled = DOMAIN DEFAULT_ACQ_VALUES /\ started = DEFAULT_ACQ_VALUES
  /\ restarted = TRUE /\ misfit = FALSE /\ refreshSet = FALSE
  /\ acqCalls = 0 /\ refused = 0

-----------------------------------------------------------------------------
Called ==
  /\ acqCalls < MaxAcqCalls /\ acqCalls' = acqCalls + 1 /\ restarted' = FALSE
  /\ UNCHANGED <<offered, device, misfit>>

(* A parameter is refused or its answer is late: the handler gives up, the *)
(* device has taken the writes before it and perhaps that one.             *)
Refused == refused < MaxRefused /\ refused' = refused + 1

(* What a handler that gave up may have changed besides: the start of the  *)
(* spectrum without its end, some of the limits that were to go.           *)
Disturbed(name) ==
  {name} \cup CASE name = "mca_start_channel" -> {"number_mca_channels"}
                [] name = "number_of_scas" -> ScaNames
                [] OTHER -> {}

(* What a value that is set unsettles: a preset belongs to its type, and   *)
(* the end of the spectrum is sent relative to the start last accepted,    *)
(* which may not be the device's.                                          *)
Unsettled(name) ==
  CASE name = "preset_type" -> {"preset_value"}
    [] name = "number_mca_channels" /\ "mca_start_channel" \notin settled -> {name}
    [] OTHER -> {}

(* psl__SetAcquisitionValues.                                              *)
Settable(name, value) ==
  up /\ Supported(name, device) /\ Exists(name, defaults) /\ Accepted(name, value, device)

SetValue(name, value) ==
  LET writes == Writes(name, value, defaults, n_sca, device)
  IN  /\ Settable(name, value) /\ Called
      /\ params' = AfterWrites(params, writes)
      /\ n_sca' = Scas(name, value, n_sca)
      /\ polarity' = Polarity(name, value, polarity)
      /\ defaults' = Updated(defaults, name, value, n_sca)
      /\ settled' = ((settled \cup {name}) \ Unsettled(name)) \cap DOMAIN defaults'
      /\ refreshSet' = (refreshSet \/ name = "mca_refresh")
      /\ UNCHANGED <<running, up, saved, started, refused>>

SetValueFails(name, value) ==
  LET writes == Writes(name, value, defaults, n_sca, device)
  IN  /\ Settable(name, value) /\ Called /\ Refused
      /\ writes # << >>
      /\ params' \in Range(Stages(params, writes))
      /\ settled' = settled \ Disturbed(name)
      /\ refreshSet' = (refreshSet \/ name = "mca_refresh")
      /\ UNCHANGED <<defaults, n_sca, polarity, running, up, saved, started>>

(* psl__GainCalibrate sets the scale factor relative to the default.       *)
GainCalibrate(gain) == SetValue("scale_factor", gain * AcqValue(defaults, "scale_factor"))

(* xiaGainOperation knows one operation.                                   *)
GainOperation(name, gain) == name = "calibrate" /\ GainCalibrate(gain)

(* psl__GetAcquisitionValues puts the answer in the list.                  *)
GetValue(name) ==
  /\ up /\ Supported(name, device) /\ Exists(name, defaults) /\ Called
  /\ defaults' = Put(defaults, name, Reading(name, params, defaults, device))
  /\ settled' = IF name \in ReadFromDevice THEN settled \cup {name} ELSE settled
  /\ UNCHANGED <<n_sca, polarity, params, running, up, saved, started, refreshSet, refused>>

-----------------------------------------------------------------------------
(* What a run of a mapping mode configures first.                          *)

ModeOfPreset(list) ==
  <<"continuous", "fixedTime", "none", "fixedOutputCount", "fixedInputCount">>
    [AcqValue(list, "preset_type") + 1]

(* The level of the gate input at which data is collected.                 *)
ActiveLevel(list) == IF AcqValue(list, "input_logic_polarity") = 1 THEN "whenLow" ELSE "whenHigh"
Opposite(level) == IF level = "whenLow" THEN "whenHigh" ELSE "whenLow"

Fault_Veto(list) == IF AcqValue(list, "gate_ignore") = 1 THEN "off" ELSE ActiveLevel(list)
Veto(list) == IF AcqValue(list, "gate_ignore") = 1 THEN "off" ELSE Opposite(ActiveLevel(list))

Collection(list) ==
  IF AcqValue(list, "gate_ignore") = 0 THEN ActiveLevel(list)
  ELSE IF ActiveLevel(list) = "whenLow" THEN "risingEdge" ELSE "fallingEdge"

VetoWrites(veto, dev) == IF "mcaGateVeto" \in dev THEN <<<<"veto", veto>>>> ELSE << >>

Gated(list) == AcqValue(list, "pixel_advance_mode") = 1
AdvanceMode(list) == IF Gated(list) THEN "gated" ELSE "continuous"

RefreshOf(md, list) == IF md = 1 /\ Gated(list) THEN 0 ELSE AcqValue(list, "mca_refresh")

RefreshWrites(period) == <<<<"refreshRate", period>>>>
CollectionCleared == <<<<"statsCollection", "off">>>>

RunWrites(md, list, dev) ==
  CASE md = 0 -> <<<<"mode", ModeOfPreset(list)>>>> \o RefreshWrites(RefreshOf(0, list))
                   \o CollectionCleared \o VetoWrites(Veto(list), dev)
    [] md = 1 -> <<<<"mode", AdvanceMode(list)>>>> \o VetoWrites("off", dev)
                   \o RefreshWrites(RefreshOf(1, list))
                   \o (IF Gated(list) THEN <<<<"statsCollection", Collection(list)>>>> ELSE << >>)
    [] md = 3 -> <<<<"mode", ModeOfPreset(list)>>>> \o RefreshWrites(RefreshOf(3, list))
                   \o VetoWrites(Veto(list), dev)

StartRun(md) ==
  /\ up /\ running = "none" /\ Called
  /\ params' = AfterWrites(params, RunWrites(md, defaults, device))
  /\ running' = <<"0", "1", "2", "3">>[md + 1]
  /\ started' = defaults /\ refreshSet' = FALSE
  /\ settled' = settled \ {"mca_refresh"}
  /\ UNCHANGED <<defaults, n_sca, polarity, up, saved, refused>>

StartRunFails(md) ==
  LET writes == RunWrites(md, defaults, device)
  IN  /\ up /\ running = "none" /\ Called /\ Refused
      /\ params' \in Range(Stages(params, writes))
      /\ settled' = settled \ {"mca_refresh"}
      /\ UNCHANGED <<defaults, n_sca, polarity, running, up, saved, started, refreshSet>>

StopRun ==
  /\ running # "none" /\ Called
  /\ running' = "none"
  /\ UNCHANGED <<defaults, n_sca, polarity, params, up, saved, settled, started, refreshSet,
                 refused>>

-----------------------------------------------------------------------------
SaveValues ==
  /\ up /\ Called
  /\ saved' = [list |-> defaults, polarity |-> polarity, device |-> device,
               clean |-> refused = 0]
  /\ UNCHANGED <<defaults, n_sca, polarity, params, running, up, settled, started, refreshSet,
                 refused>>

(* The saved system is loaded and started, in a new process; the device    *)
(* may have been off in between, or be another.                            *)
SetupDone(list, dev, writes, before) ==
  /\ params' = AfterWrites(before, writes \o DigitalConf \o CalculatedOffset(list))
  /\ defaults' = [n \in DOMAIN list |-> Kept(n, list[n])]
  /\ n_sca' = list["number_of_scas"]
  /\ up' = TRUE /\ restarted' = TRUE
  /\ settled' = {n \in Present(list, dev) : n = "dc_offset" => list["auto_dc_offset"] = 0}
  /\ UNCHANGED <<refused, misfit>>

SetupFails(list, then) ==
  /\ params' = then
  /\ defaults' = list
  /\ n_sca' = 0
  /\ up' = FALSE /\ restarted' = FALSE
  /\ settled' = {}

Setup(list, order, before, dev) ==
  LET fine == AcceptedPart(list, order, dev)
      writes == SetupWrites(list, fine, dev)
  IN  \/ fine = order /\ SetupDone(list, dev, writes, before)
      \/ /\ Refused
         /\ \E then \in Range(Stages(before, writes)) : SetupFails(list, then)
         /\ UNCHANGED misfit
      \/ /\ fine # order
         /\ SetupFails(list, AfterWrites(before, writes))
         /\ misfit' = (misfit \/ (saved.device = dev /\ saved.clean))
         /\ UNCHANGED refused

Restart(off) ==
  LET list == Completed(saved)
  IN  /\ running = "none" /\ acqCalls < MaxAcqCalls /\ acqCalls' = acqCalls + 1
      /\ \E dev \in (IF off THEN Devices ELSE {device}) :
           /\ device' = dev
           /\ \E order \in Orders :
                Setup(list, order, IF off THEN Factory ELSE params, dev)
      /\ polarity' = saved.polarity
      /\ UNCHANGED <<offered, running, saved, started, refreshSet>>

AcqNext ==
  \/ \E o \in offered : \/ SetValue(o[1], o[2])
                        \/ SetValueFails(o[1], o[2])
                        \/ GetValue(o[1])
                        \/ o[1] = "scale_factor" /\ \E gain \in Gains : GainOperation("calibrate", gain)
  \/ \E md \in {0, 1, 3} : StartRun(md) \/ StartRunFails(md)
  \/ StopRun \/ SaveValues
  \/ \E off \in BOOLEAN : Restart(off)

AcqSpec == AcqInit /\ [][AcqNext]_acqVars
-----------------------------------------------------------------------------
(* A value last set or read without error is what the device works with,   *)
(* whatever was set, refused or read of the values that share parameters   *)
(* with it.  The refresh rate is the run's once one was started.           *)
InForce(name) ==
  IF name \in {"number_mca_channels", "mca_start_channel"}
  THEN Reading(name, params, defaults, device) = defaults[name]
  ELSE \A w \in Range(Writes(name, defaults[name], defaults, n_sca, device)) :
         params[w[1]] = w[2]

ValuesInForce == up => \A n \in settled \ {"mca_refresh"} : InForce(n)

(* A restart from the saved file changes no value, and where no parameter  *)
(* was refused before it was saved, no value of it is refused by a device  *)
(* like the one it was saved of.                                           *)
RestartRestores ==
  /\ restarted => \A n \in DOMAIN saved.list :
                    (n = "detector_polarity" => saved.polarity = saved.list[n])
                       => defaults[n] = saved.list[n]
  /\ ~misfit

(* Whatever runs and failed starts came before: a gated mapping run gets   *)
(* histograms at gate transitions only and any other at its refresh rate,  *)
(* a mode 0 run does not collect statistics by gate, only a gated mapping  *)
(* run is in the gated mode, and mapping by gate does not veto events.  A  *)
(* run that obeys the gate vetoes the level a mapping run does not collect *)
(* at.  The refresh rate can be set anew while the run lasts.              *)
RunConfigured ==
  LET gated == running = "1" /\ Gated(started)
      obeys == running \in {"0", "3"} /\ started["gate_ignore"] = 0 /\ "mcaGateVeto" \in device
  IN  running # "none" =>
        /\ refreshSet \/ params.refreshRate = IF gated THEN 0 ELSE started["mca_refresh"]
        /\ running = "0" => params.statsCollection = "off"
        /\ gated <=> params.mode = "gated"
        /\ gated => params.veto = "off" /\ params.statsCollection # "off"
        /\ obeys => params.veto \in {"whenLow", "whenHigh"} \ {Collection(started)}
        /\ ~obeys => params.veto = "off"
=============================================================================
