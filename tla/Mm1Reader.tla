---------------------------- MODULE Mm1Reader -----------------------------
(***************************************************************************)
(* The acquisition loop of src/tests/c/hd-mm1.c on one detector channel:   *)
(* poll run_active, buffer_full and buffer_overrun, read the buffer that   *)
(* is full, signal buffer_done, go on with the other buffer, and stop when *)
(* all pixels are in.  Every Handel call locks the detector for itself, so *)
(* the receiver thread runs between any two calls and what the loop has    *)
(* read may be stale when it is used.                                      *)
(***************************************************************************)
EXTENDS MappingMode1

CONSTANTS
  PollLimit      \* 10 / wait_period: polls before a buffer must be full

ASSUME ReaderAssumption ==
  PollLimit \in Nat \ {0} /\ Punctual

VARIABLES
  pc,            \* the next call of the loop
  current,       \* the buffer the loop waits for
  anyRunning,    \* run_active when it was last read
  anyFull,       \* buffer_full when it was last read
  polls

readerVars == <<pc, current, anyRunning, anyFull, polls>>
allVars == <<vars, readerVars>>

Failures == {"overrun", "unreadable", "never full", "full after last"}

ReaderInit ==
  /\ Mm1Init
  /\ pc = "start" /\ current = 0
  /\ anyRunning = FALSE /\ anyFull = FALSE /\ polls = 0

Goto(label) == pc' = label

(* -P: the pixels to capture, 0 when the capture is timed; -s: external    *)
(* sync, no manual pixel advance.                                          *)
Start ==
  /\ pc = "start" /\ Goto("loop")
  /\ \E numPixels \in RunLengths, advance \in {"gate", "user"} :
       StartRun(numPixels, advance, "started")
  /\ UNCHANGED <<current, anyRunning, anyFull, polls>>

(* A timed capture may be over; xiaStartRun has waited for the channel.    *)
Loop ==
  /\ pc = "loop" /\ commands = << >>
  /\ Goto("run_active") \/ (mmb.numPixels = 0 /\ Goto("stop"))
  /\ polls' = 0
  /\ UNCHANGED <<vars, current, anyRunning, anyFull>>

RunActive ==
  /\ pc = "run_active"
  /\ anyRunning' = (/\ channelState = "Histogram" /\ mode = "MCA_FSM"
                    /\ ~Buffers_PixelsReceived(mmb))
  /\ Goto(IF anyRunning' /\ pixelAdvance \in 0 .. MaxAdvance - 1
          THEN "pixel_next" ELSE "buffer_full")
  /\ UNCHANGED <<vars, current, anyFull, polls>>

PixelNext ==
  /\ pc = "pixel_next" /\ Goto("buffer_full")
  /\ MappingPixelNext
  /\ UNCHANGED <<current, anyRunning, anyFull, polls>>

BufferFull ==
  /\ pc = "buffer_full" /\ Goto("buffer_overrun")
  /\ anyFull' = Buffers_Full(mmb, current)
  /\ UNCHANGED <<vars, current, anyRunning, polls>>

Fault_PollsForgotten(n) == 1
PollsAfter(n) == n + 1

(* The last call of a poll; then read, poll again or give up.              *)
CheckOverrun ==
  /\ pc = "buffer_overrun"
  /\ BufferOverrun
  /\ polls' = PollsAfter(polls)
  /\ Goto(IF mmb.bufferOverruns > 0 THEN "overrun"
          ELSE IF anyFull THEN "buffer"
          ELSE IF anyRunning /\ polls' < PollLimit THEN "run_active"
          ELSE "never full")
  /\ UNCHANGED <<current, anyRunning, anyFull>>

(* Run data buffer_a or buffer_b fails unless that buffer is the Active.   *)
Read ==
  /\ pc = "buffer"
  /\ \/ ReadBuffer(current) /\ Goto("buffer_done")
     \/ current # mmb.active /\ Goto("unreadable") /\ UNCHANGED vars
  /\ UNCHANGED <<current, anyRunning, anyFull, polls>>

(* buffer_done, then the swap to the other buffer and, when the run was    *)
(* not active in the last poll, the end of the loop.                       *)
Release ==
  /\ pc = "buffer_done"
  /\ BufferDone(current)
  /\ current' = 1 - current
  /\ Goto(IF anyRunning THEN "loop" ELSE "last_full")
  /\ UNCHANGED <<anyRunning, anyFull, polls>>

LastFull ==
  /\ pc = "last_full"
  /\ Goto(IF mmb.numPixels > 0 /\ Buffers_Full(mmb, current) THEN "full after last"
          ELSE "stop")
  /\ UNCHANGED <<vars, current, anyRunning, anyFull, polls>>

Stop ==
  /\ UNCHANGED <<current, anyRunning, anyFull, polls>>
  /\ \/ pc = "stop" /\ StopRun_Send(TRUE) /\ Goto("stopping")
     \/ pc = "stopping" /\ StopRun_End(TRUE) /\ Goto("finished")

Finished == pc \in Failures \union {"finished"}

ReaderStep ==
  \/ Start \/ Loop \/ RunActive \/ PixelNext \/ BufferFull \/ CheckOverrun
  \/ Read \/ Release \/ LastFull \/ Stop

Exited == Finished /\ UNCHANGED allVars

ReaderNext ==
  \/ ReaderStep
  \/ ReceiverNext /\ UNCHANGED readerVars
  \/ Exited

(* The loop runs on the user's thread and the receiver thread hands on the *)
(* channel's answers; nothing is assumed of the pace of the histograms.    *)
ReaderSpec ==
  /\ ReaderInit /\ [][ReaderNext]_allVars
  /\ WF_allVars(ReaderStep)
  /\ WF_allVars(ReceiveChannelState /\ UNCHANGED readerVars)

---------------------------------------------------------------------------

(* A capture of a given number of pixels that ends without an error has    *)
(* read them all.                                                          *)
FileComplete ==
  pc = "finished" /\ mmb.numPixels > 0 /\ dropped = 0 =>
    Len(delivered) = mmb.numPixels

(* The loop ends: it reads its pixels or reports an error.                 *)
LoopTerminates == <>Finished

(* hd-mm1.c, "Error reading 'buffer_a'": whatever the device reports, a    *)
(* buffer that buffer_full says is full can be read.                       *)
FullAlwaysReadable == pc # "unreadable"
===========================================================================
