------------------------------ MODULE MCHandel ------------------------------
(***************************************************************************)
(* The calls of Handel's API in which no thread but the caller's has a     *)
(* part: the system's lists, the text of its file, the firmware sets, the  *)
(* acquisition values, and the data of characterizations.  They share no   *)
(* state, so a call of one means nothing to another and it is enough to    *)
(* make the calls of one of them in every order.                           *)
(***************************************************************************)
EXTENDS FirmwareSets, SystemConfig, AcquisitionValues, CharData

Input ==
  {<<"analog_gain", GainMin>>, <<"analog_gain", 40>>, <<"analog_offset", -5>>,
   <<"detector_polarity", 1>>, <<"dc_offset", 3>>, <<"auto_dc_offset", 1>>}

Analog ==
  {<<"termination", 1>>, <<"attenuation", 2>>, <<"coupling", 1>>, <<"decay_time", 3>>,
   <<"detector_polarity", 1>>}

Pulses ==
  {<<"reset_blanking_enable", 2>>, <<"reset_blanking_presamples", 7>>,
   <<"detection_threshold", 2>>, <<"min_pulse_pair_separation", 9>>,
   <<"risetime_optimization", 5>>, <<"detection_filter", 4>>}

Storage ==
  {<<"mca_spectrum_rejected", 1>>, <<"num_map_pixels_per_buffer", -1>>,
   <<"num_map_pixels_per_buffer", 2000>>, <<"detection_threshold", 2>>}

Spectrum ==
  {<<"number_mca_channels", 6>>, <<"mca_start_channel", 2>>, <<"scale_factor", 6>>,
   <<"preset_type", 4>>, <<"preset_type", 0>>, <<"preset_value", 3>>}

Runs ==
  {<<"preset_type", 3>>, <<"mca_refresh", 2>>, <<"pixel_advance_mode", 1>>,
   <<"pixel_advance_mode", 0>>, <<"gate_ignore", 0>>, <<"input_logic_polarity", 1>>}

ScaLimits ==
  {<<"number_of_scas", 0>>, <<"number_of_scas", 2>>, <<"sca0", 5>>, <<"sca1", 5>>,
   <<"sca_trigger_mode", 1>>}

MCGroups == {Input, Analog, Pulses, Storage, Spectrum, Runs, ScaLimits}
MCDevices == {{}, Features}

(* Samples that are less than, between and beyond the decimals, evenly     *)
(* spaced or not; an x that is no index and a y out of range; and more     *)
(* lines than fit in the buffer.                                           *)
Pulse(y) == [x |-> [i \in DOMAIN y |-> (i - 1) * PrintUnit], y |-> y]
Char(data, example, model, final) ==
  [data |-> data, plots |-> ("example" :> example @@ "model" :> model @@ "final" :> final)]
MCCharacterizations ==
  {Char(<<1, 255, 7>>, Pulse(<<0, 14, 6, -13>>), Pulse(<<1, 4, 7>>), Pulse(<<5>>)),
   Char(<<9>>, Pulse(<<3, 3>>), Pulse(<<10, 1, 12>>), Pulse(<<2, 4>>)),
   Char(<<2>>, [x |-> <<4, 0>>, y |-> <<0, 0>>], Pulse(<<0>>), Pulse(<<0>>)),
   Char(<<3>>, Pulse(<<0, 3>>), Pulse(<<0>>), Pulse(<<SampleLimit + 1, 0>>)),
   Char(<<4, 5>>, Pulse(<<0, 3, 1, 5, 2, 8>>), Pulse(<<0, 7, 2, 1, 3>>), Pulse(<<4, 9, 1, 3>>))}

(* Detectors, firmware sets and modules to save: complete, or without what *)
(* may be absent, and some that cannot be read again.                      *)
MCDetectors ==
  <<[alias |-> "d1", type |-> "reset", type_value |-> 10, gain |-> <<<<1500000>>, <<12345678>>>>,
     polarity |-> <<<<"+">>, <<"-">>>>]>>
MCPtrr(p, user, dsp) ==
  [ptrr |-> p, min |-> p, max |-> p + 1, fippi |-> <<"fippi">>, user_fippi |-> user, dsp |-> dsp,
   filter |-> <<p, 7>>]
MCSet(filename, tmpPath, keywords, ptrrs) ==
  [alias |-> "f1", mmu |-> tmpPath, filename |-> filename, tmpPath |-> tmpPath,
   keywords |-> keywords, ptrrs |-> ptrrs]
MCFirmware ==
  <<MCSet(<<"file">>, <<"tmp">>, <<<<"fast", 1>>, <<"slow", 2>>>>, << >>),
   MCSet(<< >>, << >>, << >>, <<MCPtrr(0, << >>, <<"dsp">>), MCPtrr(1, <<"user">>, <<"dsp">>)>>),
   MCSet(<< >>, << >>, << >>, <<MCPtrr(0, << >>, <<"dsp">>), MCPtrr(1, << >>, << >>)>>),
   MCSet(<< >>, << >>, << >>, << >>)>>
MCChannel(id, k, list, data) ==
  [alias |-> id, detector |-> <<<<"d1", k>>>>, firmware |-> <<"f1">>, default |-> <<list>>, data |-> data]
MCModule(a, channels) ==
  [alias |-> a, type |-> "falconxn", address |-> "host", port |-> 8756, timeout |-> 1000,
   channels |-> channels]
MCModules ==
  <<<<MCModule("m1", <<MCChannel(0, 0, "defaults 1", <<3>>), MCChannel(1, 1, "defaults 2", << >>)>>)>>,
    << >>,
    <<MCModule("m1", <<MCChannel(0, 0, "defaults 1", << >>)>>),
      MCModule("m2", <<MCChannel(1, 1, "defaults 2", <<5>>)>>)>>,
    <<MCModule("m1", <<[MCChannel(0, 0, "defaults 1", << >>) EXCEPT !.detector = << >>]>>)>>>>
MCDefaults ==
  <<[alias |-> "defaults 1", entries |-> <<IniLine(<<"gain">>, 1), IniLine(<<"threshold">>, 2)>>],
    [alias |-> "defaults 2", entries |-> <<IniLine(<<"gain">>, 2)>>]>>
MCOlder == [detectors |-> MCDetectors, firmware |-> << >>, defaults |-> << >>, modules |-> << >>]
MCSaved(f, m) == [detectors |-> MCDetectors, firmware |-> <<f>>, defaults |-> MCDefaults, modules |-> m]
MCConfigurations ==
  {MCSaved(f, MCModules[1]) : f \in ToSet(MCFirmware)} \cup {MCSaved(MCFirmware[1], m) : m \in ToSet(MCModules)}
MCOlderLists == {MCOlder}

VARIABLE part  \* the part the calls are made to

(* A channel that is not set up, where the calls are made to other parts.  *)
ValuesIdle ==
  /\ offered = {} /\ device = {} /\ defaults = << >> /\ n_sca = 0 /\ polarity = 0
  /\ params = << >> /\ running = "none" /\ up = FALSE
  /\ saved = [list |-> << >>, polarity |-> 0, device |-> {}, clean |-> TRUE]
  /\ settled = {} /\ started = << >> /\ restarted = FALSE /\ misfit = FALSE
  /\ refreshSet = FALSE /\ acqCalls = 0 /\ refused = 0

(* Nothing to save.                                                        *)
IniIdle ==
  /\ given = NoLists /\ disk = << >> /\ iniStep = ToWrite /\ lists = NoLists /\ endOfLast = ""
  /\ iniStatus = "ok" /\ edits = {} /\ saves = 0

(* No channel, so nothing to characterize.                                 *)
CharIdle ==
  /\ enabled = {} /\ calibState = << >> /\ calib = << >> /\ box = << >> /\ chData = << >>
  /\ charFile = << >> /\ charUp = FALSE /\ kept = << >> /\ damaged = {} /\ refusing = {}
  /\ asLoaded = FALSE /\ charCalls = 0

HandelInit ==
  /\ part \in {"firmware", "config", "values", "characterization", "text"}
  /\ FwInit /\ (part # "firmware" => fw = << >>)
  /\ ConfigInit /\ (part # "config" => file = Empty)
  /\ IF part = "values" THEN AcqInit ELSE ValuesIdle
  /\ IF part = "characterization" THEN CharInit ELSE CharIdle
  /\ IF part = "text" THEN IniInit ELSE IniIdle

HandelNext ==
  /\ \/ part = "firmware" /\ FwNext /\ UNCHANGED <<configVars, acqVars, charVars, iniVars>>
     \/ part = "config" /\ ConfigNext /\ UNCHANGED <<fwVars, acqVars, charVars, iniVars>>
     \/ part = "values" /\ AcqNext /\ UNCHANGED <<fwVars, configVars, charVars, iniVars>>
     \/ part = "characterization" /\ CharNext /\ UNCHANGED <<fwVars, configVars, acqVars, iniVars>>
     \/ part = "text" /\ IniNext /\ UNCHANGED <<fwVars, configVars, acqVars, charVars>>
  /\ UNCHANGED part

HandelSpec == HandelInit /\ [][HandelNext]_<<part, fwVars, configVars, acqVars, charVars, iniVars>>
=============================================================================
