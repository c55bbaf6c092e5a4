----------------------------- MODULE ListMode -----------------------------
(***************************************************************************)
(* Mapping mode 3, list mode: the channel sends packets of event words     *)
(* that the receiver copies into the double buffer one after the other.  A *)
(* packet longer than what is left of the Next buffer is split.            *)
(***************************************************************************)
EXTENDS DetectorData

NoRoom(m, left) == [m |-> Buffers_Overrun(m), left |-> 0, lost |-> left]

(* One pass of the loop over a packet with left words to go.  Every pass   *)
(* copies from the first word of the packet.                               *)
PassRoom(m, set, left) ==
  LET room == Buffers_Next_Remaining(m)
      n    == IF left > room THEN room ELSE left
      copied == Buffers_Update(Buffers_CopyInWords(m, Words("list", set, n)))
      swapped == copied.active # m.active
  IN  IF ~swapped /\ left > n
      THEN NoRoom(copied, left - n)
      ELSE [m |-> copied, left |-> left - n, lost |-> 0]
Fault_PassSilent(m, set, left) ==
  IF Buffers_Next_Full(m) THEN [NoRoom(m, left) EXCEPT !.m = m] ELSE PassRoom(m, set, left)
Fault_PassEndsAtSwap(m, set, left) ==
  IF Buffers_Next_Full(m) THEN NoRoom(m, left)
                          ELSE [PassRoom(m, set, left) EXCEPT !.left = 0]
Pass(m, set, left) ==
  IF Buffers_Next_Full(m) THEN NoRoom(m, left) ELSE PassRoom(m, set, left)

(* The loop.  The buffers swap at most once in it, as the buffer they swap *)
(* to belongs to the user, so that it ends in its second pass.             *)
Stored3(m, set, words) ==
  LET first == Pass(m, set, words)
  IN  IF first.left > 0 THEN Pass(first.m, set, first.left) ELSE first

ReceiveList ==
  /\ mode = "LIST" /\ Receiving("list")
  /\ LET packet == Head(wire)
         stored == Stored3(mmb, packet.set, packet.words)
     IN  /\ mmb' = stored.m
         /\ lost' = lost + stored.lost
         /\ sent' = sent \o Words("list", packet.set, packet.words)
  /\ UNCHANGED <<channel, mcaData, handed, warned, history>>

(* Run data buffer_a and buffer_b.                                         *)
ReadListBuffer(b) ==
  /\ RunningOrReady("LIST") /\ b = mmb.active
  /\ mmb' = Buffers_CopyOut(mmb)
  /\ UNCHANGED <<channel, wire, mcaData, listData, history>>

(* Board operation buffer_done.                                            *)
ListBufferDone(b) ==
  /\ RunningOrReady("LIST")
  /\ mmb' = Buffers_BufferDone(mmb, b)
  /\ handed' = IF b = mmb.active THEN handed \o ActiveBuffer(mmb).data ELSE handed
  /\ UNCHANGED <<channel, wire, mcaData, sent, lost, warned, history>>

(* Run data buffer_overrun: read and clear, while the run goes on only.    *)
ListBufferOverrun ==
  /\ channelState = "ListMode" /\ mode = "LIST"
  /\ warned' = (warned \/ mmb.bufferOverruns > 0)
  /\ mmb' = Buffers_ClearOverruns(mmb)
  /\ UNCHANGED <<channel, wire, mcaData, sent, handed, lost, history>>

ListNext ==
  \/ ReceiveList
  \/ \E b \in BufferIds : ReadListBuffer(b) \/ ListBufferDone(b)
  \/ ListBufferOverrun

---------------------------------------------------------------------------
(* Properties.                                                             *)

(* What the user was or can be handed, and what waits behind it.           *)
Stream ==
  IF mode = "LIST" THEN handed \o ActiveBuffer(mmb).data \o NextBuffer(mmb).data ELSE << >>
SetsOf(words) == [i \in DOMAIN words |-> words[i].set]

(* Every word of a packet is in a buffer, was handed over or found no      *)
(* room: none is counted twice, none is forgotten when a packet is split   *)
(* (psl__ReceiveListMode_MM3).  As long as none was lost the packets are   *)
(* handed over in order and each with its own length.                      *)
WordsAccounted ==
  /\ Len(sent) = Len(Stream) + lost
  /\ lost = 0 => SetsOf(Stream) = SetsOf(sent)

(* No loss is silent: the overrun count that buffer_overrun reports is     *)
(* set until the user has seen it.                                         *)
LossIsReported == lost > 0 => warned \/ mmb.bufferOverruns > 0

(* What the code is meant to do: the user gets the words that were sent.   *)
(* It does not, for a packet that is split: the second part starts with    *)
(* the first words of the packet again.                                    *)
StreamUnbroken == lost = 0 => Stream = sent
===========================================================================
