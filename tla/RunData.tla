------------------------------ MODULE RunData ------------------------------
(***************************************************************************)
(* What xiaGetRunData answers about a run of mapping mode 0 or of list     *)
(* mode (psl__GetRunData).  The name asked for is looked up among the      *)
(* handlers of the mapping_mode of the moment, which the user may have     *)
(* changed since the run started; the handler looks at the control that is *)
(* open.  Every handler reads under the detector lock.  The names that     *)
(* read or release a buffer are actions of MappingMode0 and ListMode.      *)
(***************************************************************************)
EXTENDS MappingMode0, ListMode

CONSTANTS
  HeaderWords,  \* XMAP_BUFFER_HEADER_SIZE_U32
  LongWords     \* 32 bit words in an unsigned long of the build

ASSUME RunDataAssumption == HeaderWords \in Nat /\ LongWords \in {1, 2}

Answer(value) == [status |-> "SUCCESS", value |-> value]
Refusal(status) == [status |-> status, value |-> 0]
Flag(condition) == Answer(IF condition THEN 1 ELSE 0)

-----------------------------------------------------------------------------
(* Mapping mode 0.  A statistic is known by the histogram it is of.        *)

mm0_mca_length == Answer(settings.bins)
Statistic == Answer(statistics)
mm0_runtime == Statistic
mm0_realtime == mm0_runtime
mm0_input_count_rate == Statistic
mm0_output_count_rate == Statistic

(* Of every channel of the module that is not disabled.                    *)
mm0_module_statistics_2 == Statistic

Fault_mm0_run_active == Flag(runActive /\ mode = "MCA")
mm0_run_active == Flag(channelState = "Histogram" /\ mode = "MCA")

(* Not counted by the device.                                              *)
mm0_unimplemented == Refusal("UNIMPLEMENTED")

(* The words summed for an SCA: those the read put at the longs lo to      *)
(* hi - 1 of the memory it was given, if hi is a channel of the spectrum.  *)
mm0_sca(lo, hi) ==
  LET first == LongWords * lo + 1
      last  == LongWords * hi
      read  == spectrum.accepted \o spectrum.rejected
  IN  IF hi < settings.bins /\ last <= Len(read) THEN SubSeq(read, first, last) ELSE << >>

-----------------------------------------------------------------------------
(* List mode.                                                              *)

mm3_run_active == Flag(channelState = "ListMode" /\ mode = "LIST")

IfRunningOrReady(answer) == IF RunningOrReady("LIST") THEN answer ELSE Refusal("NOT_ACTIVE")
mm3_buffer_full_a == IfRunningOrReady(Flag(Buffers_Full(mmb, 0)))
mm3_buffer_full_b == IfRunningOrReady(Flag(Buffers_Full(mmb, 1)))

(* The size of the open control, else the one a control would have.        *)
MM3BufferSize(size) == HeaderWords + size
mm3_buffer_len == Answer(MM3BufferSize(IF RunningOrReady("LIST") THEN mmb.size ELSE ListWords))

(* The level of the buffer the user does not read.                         *)
mm3_list_buffer_len(b) ==
  CASE ~(channelState = "ListMode" /\ mode = "LIST") -> Refusal("NOT_ACTIVE")
    [] mmb.active = b                                -> Refusal("NOT_IDLE")
    [] OTHER                                         -> Answer(mmb.buffer[b].level)
mm3_list_buffer_len_a == mm3_list_buffer_len(0)
mm3_list_buffer_len_b == mm3_list_buffer_len(1)

-----------------------------------------------------------------------------
(* getRunDataHandlers.                                                     *)
Handlers ==
  [MCA |->
     [mca_length |-> mm0_mca_length, runtime |-> mm0_runtime, realtime |-> mm0_realtime,
      input_count_rate |-> mm0_input_count_rate, output_count_rate |-> mm0_output_count_rate,
      module_statistics_2 |-> mm0_module_statistics_2, run_active |-> mm0_run_active,
      livetime |-> mm0_unimplemented, trigger_livetime |-> mm0_unimplemented,
      mca_events |-> mm0_unimplemented],
   LIST |->
     [run_active |-> mm3_run_active, buffer_len |-> mm3_buffer_len,
      buffer_full_a |-> mm3_buffer_full_a, buffer_full_b |-> mm3_buffer_full_b,
      list_buffer_len_a |-> mm3_list_buffer_len_a,
      list_buffer_len_b |-> mm3_list_buffer_len_b]]

GetRunData(name) ==
  LET handlers == Handlers[settings.mapping_mode]
  IN  IF name \in DOMAIN handlers THEN handlers[name] ELSE Refusal("INVALID_VALUE")

-----------------------------------------------------------------------------
(* One channel, whose runs are of the two modes in turn.                   *)
ChannelNext == DataNext \/ Mm0Next \/ ListNext
ChannelSpec == DataInit /\ [][ChannelNext]_vars

-----------------------------------------------------------------------------
(* Properties.                                                             *)

(* A user who waits until run_active answers 0 has all the data there will *)
(* be: none is under way, unless the run has yet to be seen to start.      *)
(* What it then asks for the statistics agrees with the spectrum it would  *)
(* read, and memory of the length it was told takes what is read of a      *)
(* list mode buffer.  All of it as long as mapping_mode is the run's.      *)
Idle == GetRunData("run_active").value = 0
DataOf == [MCA |-> "histogram", LIST |-> "list"]
AnswersAgree ==
  mode = settings.mapping_mode =>
    /\ \A i \in DOMAIN wire :
         Idle /\ wire[i].type = DataOf[mode] =>
           \E j \in 1 .. i - 1 : wire[j] = [type |-> "state", state |-> RunStates[mode]]
    /\ mode = "MCA" /\ ActiveBuffer(mmb).level > 0 =>
         \A i \in DOMAIN ActiveBuffer(mmb).data :
           ActiveBuffer(mmb).data[i].set = GetRunData("module_statistics_2").value
    /\ mode = "LIST" =>
         /\ ActiveBuffer(mmb).level + HeaderWords <= GetRunData("buffer_len").value
         /\ \A b \in BufferIds :
              LET len == IF b = 0 THEN "list_buffer_len_a" ELSE "list_buffer_len_b"
              IN  GetRunData(len).value + HeaderWords <= GetRunData("buffer_len").value

(* What the comment on psl__mm0_sca says, "Emulate SCA readout by summing  *)
(* the MCA bins": each bin of the region is summed once.  It is not where  *)
(* an unsigned long is two words, and the last bin of a region, which      *)
(* hd-sca.c takes to belong to it, is left out in any build.               *)
ScaSumsItsBins ==
  \A lo, hi \in 0 .. Len(spectrum.accepted) - 1 :
    lo <= hi /\ hi < settings.bins /\ spectrum.accepted # << >> =>
      mm0_sca(lo, hi) = SubSeq(spectrum.accepted, lo + 1, hi + 1)
===========================================================================
