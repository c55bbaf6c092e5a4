--------------------------- MODULE MappingMode1 ---------------------------
(***************************************************************************)
(* Mapping mode 1 (pixel mapping) of one FalconXN channel: the receiver    *)
(* thread turns every histogram of the detector into a pixel of the double *)
(* buffer, the Handel user starts and stops runs, reads the buffers and    *)
(* signals buffer_done.  Each handler runs under the detector lock and is  *)
(* one action; starting and stopping span several messages and are split   *)
(* where the code waits.                                                   *)
(***************************************************************************)
EXTENDS MappingBuffers

CONSTANTS
  HeaderWords,      \* XMAP_BUFFER_HEADER_SIZE_U32
  PixelWords,       \* XMAP_PIXEL_HEADER_SIZE_U32
  McaWords,         \* number_mca_channels
  PixelsPerBuffer,  \* num_map_pixels_per_buffer
  RunLengths,       \* the values of num_map_pixels a run may have, 0: no limit
  Punctual,         \* does every wait for a channel state end by its arrival?
  MaxSets,          \* bound: data sets the device makes in one run
  MaxDrop,          \* bound: data sets lost in one "data dropped" error
  MaxAdvance,       \* bound: pixel advances the user is ahead
  MaxCommands,      \* bound: stops sent while earlier commands are pending
  MaxRuns           \* bound: runs

ASSUME Mm1Assumption ==
  /\ {HeaderWords, PixelWords, McaWords, PixelsPerBuffer} \subseteq Nat \ {0}
  /\ RunLengths \subseteq Nat
  /\ Punctual \in BOOLEAN
  /\ {MaxSets, MaxDrop, MaxAdvance, MaxCommands, MaxRuns} \subseteq Nat

VARIABLES
  channelState,   \* the state the receiver last heard of
  commands,       \* start and stop commands the channel has not acted on
  runActive,      \* Handel's module->state->runActive
  stopping,       \* StopHistogram is waiting for the ready state
  mode,           \* MM_Control: NIL until a run has opened the buffers
  mmb,            \* MMC1_Data.buffers
  header,         \* the XMAP buffer header written into each buffer
  pixelAdvance,   \* MMC1_Data.pixelAdvanceCounter, -1 when the gate advances
  setId,          \* the device's next data set
  delivered,      \* history: the pixels the user copied out, in order
  released,       \* history: pixels in the buffers the user is done with
  overrun,        \* history: pixels lost because both buffers were in use
  dropped,        \* history: data sets the device reported as dropped
  skipped,        \* history: histograms the receiver ignored
  runs            \* history: number of runs

vars == <<channelState, commands, runActive, stopping, mode, mmb, header,
          pixelAdvance, setId, delivered, released, overrun, dropped, skipped, runs>>

control == <<channelState, commands, runActive, stopping, mode, runs>>

PixelBlock == PixelWords + McaWords
BufferSize == HeaderWords + PixelsPerBuffer * PixelBlock
Pixel      == [number : Nat, set : Nat]
NoHeader   == [buffer |-> 0, start |-> 0, count |-> 0, drops |-> 0, words |-> 0]

Mm1Init ==
  /\ channelState = "Ready" /\ commands = << >>
  /\ runActive = FALSE /\ stopping = FALSE
  /\ mode = "NIL" /\ mmb = Buffers_Open(BufferSize, 0)
  /\ header = [b \in BufferIds |-> NoHeader]
  /\ pixelAdvance = 0 /\ setId = 0
  /\ delivered = << >>
  /\ released = 0 /\ overrun = 0 /\ dropped = 0 /\ skipped = 0 /\ runs = 0

---------------------------------------------------------------------------
(* The Handel user.                                                        *)

(* psl__Start_MappingMode_1: close the last run's buffers, open new ones,  *)
(* start the channel unless it is uncalibrated or still taking histograms, *)
(* and on an error stop it again.  A start is refused by the device, or    *)
(* lost when the answer to it comes too late.                              *)
Successes == {"started", "uncalibrated"}

Fault_OpenKeepsBuffers(numPixels) == [mmb EXCEPT !.numPixels = numPixels]
Opened(numPixels) == Buffers_Open(BufferSize, numPixels)

StartRun(numPixels, advance, outcome) ==
  /\ ~runActive /\ ~stopping /\ runs < MaxRuns
  /\ Punctual => commands = << >> /\ outcome # "lost"
  /\ mode' = "MCA_FSM"
  /\ mmb' = IF outcome \in Successes THEN Opened(numPixels)
             ELSE Buffers_Stop(Opened(numPixels))
  /\ header' = [b \in BufferIds |-> NoHeader]
  /\ pixelAdvance' = IF advance = "user" THEN 0 ELSE -1
  /\ commands' = commands
       \o (IF channelState = "Ready" /\ outcome \in {"started", "lost"}
           THEN <<"start">> ELSE << >>)
       \o (IF outcome \in Successes THEN << >> ELSE <<"stop">>)
  /\ runActive' = (outcome \in Successes)
  /\ delivered' = << >>
  /\ released' = 0 /\ overrun' = 0 /\ dropped' = 0 /\ skipped' = 0
  /\ runs' = runs + 1
  /\ UNCHANGED <<channelState, stopping, setId>>

(* A setting of the run is refused before the buffers are opened: the      *)
(* channel, and the buffers of the last run, are stopped.                  *)
StartRun_NotSet ==
  /\ ~runActive /\ ~stopping
  /\ IF Punctual THEN commands = << >> ELSE Len(commands) < MaxCommands
  /\ mmb' = IF mode = "MCA_FSM" THEN Buffers_Stop(mmb) ELSE mmb
  /\ commands' = Append(commands, "stop")
  /\ UNCHANGED <<channelState, runActive, stopping, mode, header, pixelAdvance, setId,
                 delivered, released, overrun, dropped, skipped, runs>>

(* psl__StopAcquisition up to the wait for the ready state; there is none  *)
(* when the stop cannot be sent.                                           *)
StopRun_Send(sent) ==
  /\ runActive /\ ~stopping
  /\ IF Punctual THEN sent /\ commands = << >> ELSE Len(commands) < MaxCommands
  /\ stopping' = TRUE
  /\ commands' = IF sent THEN Append(commands, "stop") ELSE commands
  /\ UNCHANGED <<channelState, runActive, mode, mmb, header, pixelAdvance, setId,
                 delivered, released, overrun, dropped, skipped, runs>>

(* The stop ends, by the ready state, by an event left over from an        *)
(* earlier wait, by a timeout or because it was not sent (ok is FALSE); in *)
(* every case the buffers are told that the run has stopped.               *)
StopRun_End(ok) ==
  /\ stopping
  /\ Punctual => ok /\ channelState = "Ready" /\ commands = << >>
  /\ stopping' = FALSE
  /\ mmb' = Buffers_Stop(mmb)
  /\ runActive' = ~ok
  /\ UNCHANGED <<channelState, commands, mode, header, pixelAdvance, setId,
                 delivered, released, overrun, dropped, skipped, runs>>

(* Run data buffer_a and buffer_b: only the Active buffer can be copied.   *)
ReadBuffer(b) ==
  /\ mode = "MCA_FSM" /\ b = mmb.active
  /\ mmb' = Buffers_CopyOut(mmb)
  /\ delivered' = delivered \o
       (IF ActiveBuffer(mmb).next = 0 THEN ActiveBuffer(mmb).data ELSE << >>)
  /\ UNCHANGED <<control, header, pixelAdvance, setId, released, overrun, dropped, skipped>>

(* Board operation buffer_done, for the right or the wrong buffer.         *)
BufferDone(b) ==
  /\ mode = "MCA_FSM"
  /\ mmb' = Buffers_BufferDone(mmb, b)
  /\ released' = released + (IF b = mmb.active THEN Len(ActiveBuffer(mmb).data) ELSE 0)
  /\ UNCHANGED <<control, header, pixelAdvance, setId, delivered, overrun, dropped, skipped>>

(* Run data buffer_overrun: read and clear.                                *)
BufferOverrun ==
  /\ channelState = "Histogram" /\ mode = "MCA_FSM"
  /\ mmb' = Buffers_ClearOverruns(mmb)
  /\ UNCHANGED <<control, header, pixelAdvance, setId, delivered, released, overrun,
                 dropped, skipped>>

(* Board operation mapping_pixel_next, allowed in every advance mode.      *)
MappingPixelNext ==
  /\ channelState = "Histogram" /\ mode = "MCA_FSM"
  /\ pixelAdvance < MaxAdvance
  /\ pixelAdvance' = pixelAdvance + 1
  /\ UNCHANGED <<control, mmb, header, setId, delivered, released, overrun, dropped, skipped>>

---------------------------------------------------------------------------
(* The receiver thread.                                                    *)

(* The channel acts on a command and reports its new state.                *)
ReceiveChannelState ==
  /\ commands # << >>
  /\ commands' = Tail(commands)
  /\ channelState' = IF Head(commands) = "start" THEN "Histogram" ELSE "Ready"
  /\ setId' = IF Head(commands) = "start" THEN 0 ELSE setId
  /\ UNCHANGED <<runActive, stopping, mode, mmb, header, pixelAdvance,
                 delivered, released, overrun, dropped, skipped, runs>>

(* psl__XMAP_WriteBufferHeader_MM1: the first pixel of a buffer finds it   *)
(* empty and writes the header.                                            *)
WithBufferHeader(m) ==
  IF NextBuffer(m).level = 0
  THEN [Buffers_Next_MoveLevel(m, HeaderWords) EXCEPT !.bufferNumber = @ + 1] ELSE m

BufferHeader(m, h) ==
  IF NextBuffer(m).level = 0
  THEN [NoHeader EXCEPT !.buffer = m.bufferNumber, !.start = m.pixel] ELSE h

(* The pixel header carries the pixel number the count is then moved past; *)
(* the spectrum follows it.                                                *)
WithPixel(m) ==
  Buffers_CopyIn(Buffers_Pixel_Inc(Buffers_Next_MoveLevel(m, PixelWords)),
                 [number |-> m.pixel, set |-> setId], McaWords)

(* psl__XMAP_UpdateBufferHeader_MM1                                        *)
Fault_HeaderOfRun(m, h) ==
  [h EXCEPT !.count = m.pixel,
            !.drops = NextBuffer(m).drops,
            !.words = HeaderWords + PixelBlock * NextBuffer(m).bufferPixel]
UpdatedHeader(m, h) ==
  [h EXCEPT !.count = NextBuffer(m).bufferPixel,
            !.drops = NextBuffer(m).drops,
            !.words = HeaderWords + PixelBlock * NextBuffer(m).bufferPixel]

(* A pixel uses up one of the user's advances; -1 stays.                   *)
AdvanceUsed(counter) == IF counter > 0 THEN counter - 1 ELSE counter

Accepting ==
  mode = "MCA_FSM" /\ ~Buffers_PixelsReceived(mmb) /\ pixelAdvance # 0

DeviceSends ==
  /\ channelState = "Histogram" /\ setId < MaxSets
  /\ setId' = setId + 1

(* A histogram of the wrong length, of a channel with no mapping mode, or  *)
(* one that comes after the last pixel or before the user has advanced.    *)
SkipHistogram(wellFormed) ==
  /\ DeviceSends
  /\ ~wellFormed \/ ~Accepting
  /\ skipped' = skipped + 1
  /\ UNCHANGED <<control, mmb, header, pixelAdvance, delivered, released, overrun, dropped>>

(* Both buffers are in use: the pixel is counted and lost.                 *)
OverrunHistogram ==
  /\ DeviceSends
  /\ Accepting /\ Buffers_Next_Full(mmb)
  /\ mmb' = Buffers_Pixel_Inc(Buffers_Overrun(mmb))
  /\ overrun' = overrun + 1
  /\ UNCHANGED <<control, header, pixelAdvance, delivered, released, dropped, skipped>>

StoreHistogram ==
  /\ DeviceSends
  /\ Accepting /\ ~Buffers_Next_Full(mmb)
  /\ LET b == Buffers_Next(mmb)
         m == WithPixel(WithBufferHeader(mmb))
     IN  /\ header' = [header EXCEPT ![b] = UpdatedHeader(m, BufferHeader(mmb, @))]
         /\ mmb' = Buffers_Update(m)
  /\ pixelAdvance' = AdvanceUsed(pixelAdvance)
  /\ UNCHANGED <<control, delivered, released, overrun, dropped, skipped>>

(* "%u Gated Histogram data dropped": the pixel count moves on, and the    *)
(* drops are those of the Next buffer.                                     *)
DroppedHistograms(drops) ==
  /\ channelState = "Histogram" /\ setId + drops <= MaxSets
  /\ setId' = setId + drops
  /\ mode = "MCA_FSM"
  /\ mmb' = Buffers_Drop(mmb, drops)
  /\ dropped' = dropped + drops
  /\ UNCHANGED <<control, header, pixelAdvance, delivered, released, overrun, skipped>>

---------------------------------------------------------------------------
ReceiverNext ==
  \/ ReceiveChannelState
  \/ \E wellFormed \in BOOLEAN : SkipHistogram(wellFormed)
  \/ OverrunHistogram
  \/ StoreHistogram
  \/ \E drops \in 1 .. MaxDrop : DroppedHistograms(drops)

UserNext ==
  \/ \E numPixels \in RunLengths, advance \in {"gate", "user"},
        outcome \in Successes \union {"refused", "lost"} :
       StartRun(numPixels, advance, outcome)
  \/ StartRun_NotSet
  \/ \E sent \in BOOLEAN : StopRun_Send(sent)
  \/ \E ok \in BOOLEAN : StopRun_End(ok)
  \/ \E b \in BufferIds : ReadBuffer(b) \/ BufferDone(b)
  \/ BufferOverrun
  \/ MappingPixelNext

Mm1Next == ReceiverNext \/ UserNext

Mm1Spec == Mm1Init /\ [][Mm1Next]_vars

---------------------------------------------------------------------------
(* Properties.                                                             *)

Header == [buffer : Nat, start : Nat, count : Nat, drops : Nat, words : Nat]

(* Type invariant of the channel, its buffers and the history.             *)
Mm1TypeOK ==
  /\ channelState \in {"Ready", "Histogram"}
  /\ commands \in Seq({"start", "stop"})
  /\ runActive \in BOOLEAN /\ stopping \in BOOLEAN
  /\ mode \in {"NIL", "MCA_FSM"}
  /\ mmb \in Buffers(Pixel)
  /\ header \in [BufferIds -> Header]
  /\ pixelAdvance \in Int /\ pixelAdvance >= -1
  /\ delivered \in Seq(Pixel)
  /\ {setId, released, overrun, dropped, skipped, runs} \subseteq Nat

(* A buffer never holds more than was allocated for it: the pixel header   *)
(* is written before any check of the room left, so the check that Next is *)
(* not full must imply that a whole pixel fits.                            *)
NeverOverfull == \A b \in BufferIds : mmb.buffer[b].level <= mmb.size

(* The XMAP header in a buffer describes what is in it, whatever overruns  *)
(* and drops came in between: as many pixels and words as are stored, and  *)
(* the number of the first one.                                            *)
HeaderMatchesData ==
  \A b \in BufferIds :
    LET buf == mmb.buffer[b]
    IN  IF buf.level = 0 THEN buf.data = << >>
        ELSE /\ Len(buf.data) > 0
             /\ header[b].count = Len(buf.data)
             /\ header[b].words = buf.level
             /\ header[b].start = buf.data[1].number

(* Every pixel the run has counted is in a buffer, or was in one the user  *)
(* is done with, or is an overrun, or a drop the device reported.          *)
PixelsAccounted ==
  mmb.pixel = Len(mmb.buffer[0].data) + Len(mmb.buffer[1].data)
                + released + overrun + dropped

(* Whatever the receiver does, and whatever done or stop comes, a buffer   *)
(* the user has been given stays Active and unchanged until it is done     *)
(* with it (or a new run replaces the buffers).                            *)
ActiveKept ==
  \/ Buffers_Active_Done(mmb)
  \/ released' > released \/ runs' > runs
  \/ /\ mmb'.active = mmb.active
     /\ ActiveBuffer(mmb').data = ActiveBuffer(mmb).data
     /\ ActiveBuffer(mmb').level = ActiveBuffer(mmb).level
     /\ header'[mmb.active] = header[mmb.active]
UserOwnsActive == [][ActiveKept]_vars

(* psl__Start_MappingMode_1, "Flag to disable waiting for user pixel       *)
(* advance for GATE or SYNC advance": a run that does not wait for the     *)
(* user never comes to wait.                                               *)
GateRunNeverWaits == [][pixelAdvance = -1 /\ runs' = runs => pixelAdvance' # 0]_vars

(* The inductive strengthening of the invariants above.  A buffer is empty *)
(* or holds its header and whole pixels; the user holds the Active buffer  *)
(* exactly when something is in it; and the pixels of a Next buffer that   *)
(* still has room have all been stored in it.                              *)
BufferShape(buf) ==
  IF buf.level = 0 THEN buf.data = << >> /\ buf.bufferPixel = 0
  ELSE /\ Len(buf.data) \in 1 .. PixelsPerBuffer
       /\ buf.level = HeaderWords + Len(buf.data) * PixelBlock

WellFilled(m) ==
  /\ m.size = BufferSize
  /\ \A b \in BufferIds : BufferShape(m.buffer[b])
  /\ Buffers_Active_Done(m) <=> ActiveBuffer(m).level = 0
  /\ ~Buffers_Next_Full(m) => NextBuffer(m).bufferPixel = Len(NextBuffer(m).data)

BuffersInv == WellFilled(mmb)

(* The two buffers implement a first-in first-out stream of pixels: those  *)
(* of the Active buffer that were not read yet, then those of the other.   *)
Unread == IF ActiveBuffer(mmb).next = 0 THEN ActiveBuffer(mmb).data ELSE << >>
Stream == INSTANCE PixelStream WITH
  Capacity <- 2 * PixelsPerBuffer,
  pending <- Unread \o NextBuffer(mmb).data, taken <- delivered
StreamSafety == Stream!StreamSpec
===========================================================================
