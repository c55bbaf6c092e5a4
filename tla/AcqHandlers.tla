---------------------------- MODULE AcqHandlers ----------------------------
(***************************************************************************)
(* The acquisition values of a detector channel and what the handler of    *)
(* each does: the values it accepts, the parameters it sends to the        *)
(* device, what it keeps in the list of defaults, and what it makes of the *)
(* device's answer when the value is read.                                 *)
(*                                                                         *)
(* Gains are counted in tenths and spectra have a few bins.  A parameter   *)
(* that belongs to one value has the value's name.                         *)
(***************************************************************************)
EXTENDS Integers, Sequences, SequencesExt

CONSTANTS
  Tick,     \* ns of a sample clock tick
  GainStep  \* what a step of the device's gain DAC amounts to at the least gain

ASSUME HandlersAssumption == Tick \in Nat \ {0} /\ GainStep \in 1 .. 9

(* What a device may lack, found in the list of its parameters.            *)
Features == {"mcaGateVeto", "termination50ohm", "attenuationGround", "risetimeOptimization"}

MaxScas == 2
Sca(i) == <<"sca0", "sca1">>[i + 1]
Region(i) == <<"region_01", "region_02">>[i + 1]
ScaNames == {Sca(i) : i \in 0 .. MaxScas - 1}

(* f where it is defined, g elsewhere; and f with one value put in.        *)
Over(f, g) ==
  [n \in DOMAIN f \cup DOMAIN g |-> IF n \in DOMAIN f THEN f[n] ELSE g[n]]
Put(f, name, value) == Over([n \in {name} |-> value], f)

(* The values that have a default, and it.                                 *)
DEFAULT_ACQ_VALUES ==
  [analog_gain |-> 30, analog_offset |-> 0, detector_polarity |-> 0, termination |-> 0,
   attenuation |-> 0, coupling |-> 0, decay_time |-> 2, dc_offset |-> 0,
   reset_blanking_enable |-> 1, reset_blanking_threshold |-> -1,
   reset_blanking_presamples |-> 50, reset_blanking_postsamples |-> 50,
   detection_threshold |-> 1, min_pulse_pair_separation |-> 25, detection_filter |-> 2,
   mapping_mode |-> 0, number_mca_channels |-> 4, mca_spectrum_accepted |-> 1,
   mca_spectrum_rejected |-> 0, mca_start_channel |-> 0, mca_refresh |-> 1,
   preset_type |-> 0, preset_value |-> 0, scale_factor |-> 2, mca_bin_width |-> 10,
   sca_trigger_mode |-> 3, sca_pulse_duration |-> 400, number_of_scas |-> 0,
   num_map_pixels_per_buffer |-> 1024, num_map_pixels |-> 0, pixel_advance_mode |-> 0,
   input_logic_polarity |-> 0, gate_ignore |-> 1, sync_count |-> 0, auto_dc_offset |-> 0]

(* The table's order, and then the values without a default.               *)
Order ==
  <<"analog_gain", "analog_offset", "detector_polarity", "termination", "attenuation",
    "coupling", "decay_time", "dc_offset", "reset_blanking_enable",
    "reset_blanking_threshold", "reset_blanking_presamples", "reset_blanking_postsamples",
    "detection_threshold", "min_pulse_pair_separation", "detection_filter", "mapping_mode",
    "number_mca_channels", "mca_spectrum_accepted", "mca_spectrum_rejected",
    "mca_start_channel", "mca_refresh", "preset_type", "preset_value", "scale_factor",
    "mca_bin_width", "sca_trigger_mode", "sca_pulse_duration", "number_of_scas",
    "num_map_pixels_per_buffer", "num_map_pixels", "pixel_advance_mode",
    "input_logic_polarity", "gate_ignore", "sync_count", "auto_dc_offset",
    "risetime_optimization", "sca0", "sca1">>

Names == DOMAIN DEFAULT_ACQ_VALUES \cup {"risetime_optimization"} \cup ScaNames

(* A value some devices do not have: refused, and left out at set-up.      *)
Supported(name, device) ==
  name = "risetime_optimization" => "risetimeOptimization" \in device

-----------------------------------------------------------------------------
(* The values that choose an option of the device's, counted from 0.       *)
FromZero(options) == [v \in 0 .. Len(options) - 1 |-> options[v + 1]]

Termination(device) ==
  FromZero(IF "termination50ohm" \in device THEN <<"1kohm", "50ohm">> ELSE <<"1kohm">>)

Attenuation(device) ==
  FromZero(<<"0dB", "-6dB", IF "attenuationGround" \in device THEN "ground" ELSE "-12dB">>)

Coupling == FromZero(<<"ac", "dc">>)

DecayTime == FromZero(<<"long", "medium", "short", "very-short">>)

DetectionFilter ==
  FromZero(<<"lowEnergy", "lowRate", "midRate", "highRate", "maxThroughput">>)

ScaTrigger == FromZero(<<"off", "whenHigh", "whenLow", "always">>)

OptionNames ==
  {"termination", "attenuation", "coupling", "decay_time", "detection_filter",
   "sca_trigger_mode"}

(* The options of a value on each kind of device.                          *)
Options ==
  [device \in SUBSET Features |->
     [termination |-> Termination(device), attenuation |-> Attenuation(device),
      coupling |-> Coupling, decay_time |-> DecayTime,
      detection_filter |-> DetectionFilter, sca_trigger_mode |-> ScaTrigger]]

-----------------------------------------------------------------------------
(* The values that are one number of the device's.                         *)

BlankingValues ==
  {"reset_blanking_enable", "reset_blanking_threshold", "reset_blanking_presamples",
   "reset_blanking_postsamples"}
PulseValues == {"detection_threshold", "min_pulse_pair_separation"}
SpectrumValues == {"mca_spectrum_accepted", "mca_spectrum_rejected"}
OffsetValues == {"dc_offset"}
OutputValues == {"sca_pulse_duration"}
Plain == BlankingValues \cup PulseValues \cup SpectrumValues \cup OffsetValues \cup OutputValues

(* What is not zero is true to the device, and kept as it was set.         *)
Sent(name, value) ==
  IF name \in SpectrumValues \cup {"reset_blanking_enable"} /\ value # 0 THEN 1 ELSE value

-----------------------------------------------------------------------------
(* The others.                                                             *)

GainMin == 10
GainMax == 160

(* The device keeps whole steps of its DAC: external.                      *)
DacGain(gain) == (gain \div GainStep) * GainStep

(* A reading that rounding took below the least gain is put back to it;    *)
(* the tolerance, 0.001, is more than a step there, 0.00085.               *)
GainTolerance == GainStep + 1
GainReading(gain) ==
  IF gain < GainMin /\ GainMin - gain < GainTolerance THEN GainMin ELSE gain

DacOffsetMin == -2048
DacOffsetMax == 2047

Inverted(polarity) == IF polarity = 0 THEN 1 ELSE 0

(* The rise time is floored to clock ticks.                                *)
Rounded(ns) == (ns \div Tick) * Tick

PresetParam(preset_type) ==
  CASE preset_type \in {0, 1} -> "fixedTime"
    [] preset_type = 3        -> "fixedOutputCount"
    [] preset_type = 4        -> "fixedInputCount"

(* SyncNumberMCAChannels gets the value being set and looks up the other.  *)
HighIndex(number, start) == <<"highIndex", start + number - 1>>
Fault_StartWrites(number, start) == <<<<"lowIndex", start>>>>
StartWrites(number, start) == <<<<"lowIndex", start>>, HighIndex(number, start)>>

(* Coarse: the nearest power of two; fine: what is left as a fraction.     *)
Coarse(factor) == CHOOSE c \in {2, 4, 8} : IF factor < 3 THEN c = 2
                                          ELSE IF factor < 6 THEN c = 4 ELSE c = 8
ScaleWrites(factor) ==
  <<<<"coarseBinScaling", Coarse(factor)>>, <<"scaleFactor", <<factor, Coarse(factor)>>>>>>

(* SCAs that go have their limits cleared.                                 *)
Cleared == [i \in 1 .. MaxScas |-> <<Region(i - 1), 0>>]
ScasRemoved(number, old) == SubSeq(Cleared, number + 1, old)

MaxPixelsPerBuffer == 1024
PixelsPerBuffer(value) ==
  CASE value \in {-1, 0}           -> 0
    [] value > MaxPixelsPerBuffer  -> MaxPixelsPerBuffer
    [] OTHER                       -> value

-----------------------------------------------------------------------------
(* The values a handler accepts; the others it does not check itself.      *)
MinMca == 2
MaxMca == 6
ScaleMax == 200

AnalogLimits ==
  [analog_gain |-> GainMin .. GainMax, analog_offset |-> DacOffsetMin .. DacOffsetMax]
ModeLimits == [mapping_mode |-> 0 .. 3, preset_type |-> {0, 1, 3, 4}]
SpectrumLimits == [number_mca_channels |-> MinMca .. MaxMca, scale_factor |-> 1 .. ScaleMax]
GateLimits ==
  [pixel_advance_mode |-> {0, 1}, input_logic_polarity |-> {0, 1}, gate_ignore |-> {0, 1}]
Accepted(name, value, device) ==
  CASE name \in OptionNames               -> value \in DOMAIN Options[device][name]
    [] name \in DOMAIN AnalogLimits       -> value \in AnalogLimits[name]
    [] name \in DOMAIN ModeLimits         -> value \in ModeLimits[name]
    [] name \in DOMAIN SpectrumLimits     -> value \in SpectrumLimits[name]
    [] name \in DOMAIN GateLimits         -> value \in GateLimits[name]
    [] name = "number_of_scas"            -> value <= MaxScas
    [] name = "num_map_pixels"            -> value >= 0
    [] name = "num_map_pixels_per_buffer" -> value >= -1
    [] OTHER                              -> TRUE

(* psl__GetAcqValue: a value another handler or a run looks up always has  *)
(* a default, or an assertion fails.                                       *)
AcqValue(list, name) == list[name]

(* A limit can only be set and read of an SCA there is.                    *)
Exists(name, list) ==
  \A i \in 0 .. MaxScas - 1 : name = Sca(i) => i < AcqValue(list, "number_of_scas")

(* What is sent, in order, given the defaults and the SCAs there were.     *)
Writes(name, value, list, old, device) ==
  CASE name \in OptionNames             -> <<<<name, Options[device][name][value]>>>>
    [] name \in Plain                   -> <<<<name, Sent(name, value)>>>>
    [] name = "analog_gain"             -> <<<<"dacGain", DacGain(value)>>>>
    [] name = "analog_offset"           -> <<<<"dacOffset", value - DacOffsetMin>>>>
    [] name = "detector_polarity"       -> <<<<"invert", Inverted(value)>>>>
    [] name = "risetime_optimization"   -> <<<<"riseTime", Rounded(value)>>>>
    [] name = "preset_value"            -> <<<<PresetParam(AcqValue(list, "preset_type")), value>>>>
    [] name = "number_mca_channels"     -> <<HighIndex(value, AcqValue(list, "mca_start_channel"))>>
    [] name = "mca_start_channel"       -> StartWrites(AcqValue(list, "number_mca_channels"), value)
    [] name = "scale_factor"            -> ScaleWrites(value)
    [] name = "mca_refresh"             -> <<<<"refreshRate", value>>>>
    [] name = "number_of_scas"          -> ScasRemoved(value, old)
    [] name \in ScaNames ->
         LET i == CHOOSE i \in 0 .. MaxScas - 1 : Sca(i) = name IN <<<<Region(i), value>>>>
    [] OTHER -> << >>  \* kept for the next run or the reader

(* The parameters after a number of writes, each the last that was sent,   *)
(* and after each of the writes.                                           *)
AfterWrites(p, writes) ==
  [x \in DOMAIN p |->
     LET sent == {k \in DOMAIN writes : writes[k][1] = x}
     IN  IF sent = {} THEN p[x] ELSE writes[Max(sent)][2]]
Stages(p, writes) == [n \in 0 .. Len(writes) |-> AfterWrites(p, SubSeq(writes, 1, n))]

(* What is kept of a value that was set.                                   *)
Kept(name, value) ==
  CASE name = "risetime_optimization"      -> Rounded(value)
    [] name = "num_map_pixels_per_buffer"  -> PixelsPerBuffer(value)
    [] OTHER                               -> value

-----------------------------------------------------------------------------
(* Reading a value asks the device for it where it is a parameter.         *)
ReadFromDevice ==
  OptionNames \cup Plain
    \cup {"analog_gain", "analog_offset", "detector_polarity", "risetime_optimization",
          "preset_value", "number_mca_channels", "mca_start_channel"}

(* The value whose option the device has.                                  *)
OptionReading(options, option) == CHOOSE v \in DOMAIN options : options[v] = option

Reading(name, p, list, device) ==
  CASE name \in OptionNames            -> OptionReading(Options[device][name], p[name])
    [] name \in Plain                  -> p[name]
    [] name = "analog_gain"            -> GainReading(p.dacGain)
    [] name = "analog_offset"          -> p.dacOffset + DacOffsetMin
    [] name = "detector_polarity"      -> 1 - p.invert
    [] name = "risetime_optimization"  -> p.riseTime
    [] name = "preset_value"           -> p[PresetParam(AcqValue(list, "preset_type"))]
    [] name = "number_mca_channels"    -> p.highIndex - p.lowIndex + 1
    [] name = "mca_start_channel"      -> p.lowIndex
    [] OTHER -> IF name \in DOMAIN list THEN list[name] ELSE 0

(* The parameters of a device that was switched on: external.              *)
Factory ==
  Over([n \in {"dc_offset", "sca_pulse_duration", "dacGain", "dacOffset", "invert", "riseTime",
               "fixedTime", "fixedInputCount", "fixedOutputCount", "lowIndex", "highIndex",
               "refreshRate", "region_01", "region_02"}
             \cup BlankingValues \cup PulseValues \cup SpectrumValues |-> 0],
       [termination |-> "1kohm", attenuation |-> "0dB", coupling |-> "ac",
        decay_time |-> "long", detection_filter |-> "midRate", sca_trigger_mode |-> "off",
        coarseBinScaling |-> 2, scaleFactor |-> <<2, 2>>, mode |-> "continuous",
        statsCollection |-> "off", veto |-> "off", digitalConfig |-> "none"])
=============================================================================
