-------------------------- MODULE MappingBuffers --------------------------
(***************************************************************************)
(* The double buffer of the mapping modes (src/src/falconx_mm.c).  The     *)
(* receiver thread fills the Next buffer, the Handel user reads the Active *)
(* one; the two swap roles (Toggle) when Next is full and the user has     *)
(* signalled that it is done with Active.                                  *)
(*                                                                         *)
(* Every operator takes the MM_Buffers record m and returns the new one,   *)
(* so that each mapping mode uses them inside its own actions.  What a     *)
(* buffer holds is the sequence data of the blocks copied into it; level   *)
(* and next count 32 bit words, as in the code.  Memory above level is not *)
(* represented: no operation reads it.                                     *)
(*                                                                         *)
(* An operator named Fault_ is the definition that follows it with a bug   *)
(* in it: put in its place, it makes a property of some run fail.          *)
(***************************************************************************)
EXTENDS Integers, Sequences

BufferIds == {0, 1}        \* psl__MappingModeBuffer_A, psl__MappingModeBuffer_B

Buffer(Item) ==
  [done : BOOLEAN, bufferPixel : Nat, drops : Nat, next : Nat, level : Nat,
   data : Seq(Item)]

Buffers(Item) ==
  [active : BufferIds, bufferNumber : Nat, pixel : Nat, numPixels : Nat,
   bufferOverruns : Nat, stopped : BOOLEAN, size : Nat,
   buffer : [BufferIds -> Buffer(Item)]]

EmptyBuffer ==
  [done |-> TRUE, bufferPixel |-> 0, drops |-> 0, next |-> 0, level |-> 0,
   data |-> << >>]

(* psl__MappingModeBuffers_Open: B is active and done, so that the first   *)
(* buffer the user sees is A.                                              *)
Buffers_Open(size, numPixels) ==
  [active |-> 1, bufferNumber |-> 0, pixel |-> 0, numPixels |-> numPixels,
   bufferOverruns |-> 0, stopped |-> FALSE, size |-> size,
   buffer |-> [b \in BufferIds |-> EmptyBuffer]]

Buffers_Next(m) == IF m.active = 0 THEN 1 ELSE 0

ActiveBuffer(m) == m.buffer[m.active]
NextBuffer(m)   == m.buffer[Buffers_Next(m)]

Fault_PixelsReceivedEarly(m) == m.numPixels > 0 /\ m.pixel >= m.numPixels - 1
Buffers_PixelsReceived(m) == m.numPixels > 0 /\ m.pixel >= m.numPixels

Buffers_Full(m, b) ==
  /\ m.buffer[b].level > 0
  /\ \/ m.buffer[b].level >= m.size
     \/ Buffers_PixelsReceived(m)
     \/ m.stopped

Buffers_Next_Full(m)   == Buffers_Full(m, Buffers_Next(m))
Buffers_Active_Done(m) == ActiveBuffer(m).done

WithBuffer(m, b, buf) == [m EXCEPT !.buffer[b] = buf]

(* The new Active buffer belongs to the user until buffer_done.            *)
Buffers_Toggle(m) ==
  LET n == Buffers_Next(m)
  IN  WithBuffer([m EXCEPT !.active = n], n,
                 [m.buffer[n] EXCEPT !.done = FALSE, !.next = 0])

Buffers_Next_Clear(m)     == WithBuffer(m, Buffers_Next(m), EmptyBuffer)
Buffers_Active_Clear(m)   == WithBuffer(m, m.active, EmptyBuffer)
Buffers_Active_Reset(m)   == WithBuffer(m, m.active, [ActiveBuffer(m) EXCEPT !.next = 0])
Buffers_Overrun(m)        == [m EXCEPT !.bufferOverruns = @ + 1]
Buffers_ClearOverruns(m)  == [m EXCEPT !.bufferOverruns = 0]

Buffers_Next_MoveLevel(m, words) ==
  WithBuffer(m, Buffers_Next(m), [NextBuffer(m) EXCEPT !.level = @ + words])

Fault_DropUncounted(m, drops) ==
  WithBuffer(m, Buffers_Next(m), [NextBuffer(m) EXCEPT !.drops = @ + drops])
Buffers_Drop(m, drops) ==
  WithBuffer([m EXCEPT !.pixel = @ + drops], Buffers_Next(m),
             [NextBuffer(m) EXCEPT !.drops = @ + drops])

Buffers_Pixel_Inc(m) ==
  WithBuffer([m EXCEPT !.pixel = @ + 1], Buffers_Next(m),
             [NextBuffer(m) EXCEPT !.bufferPixel = @ + 1])

(* A block that does not fit is refused and leaves the buffer as it was.   *)
Buffers_CopyIn(m, item, words) ==
  IF NextBuffer(m).level + words > m.size
  THEN m
  ELSE WithBuffer(m, Buffers_Next(m),
         [NextBuffer(m) EXCEPT !.level = @ + words, !.data = Append(@, item)])

(* The same where each word is an item of its own.                         *)
Buffers_CopyInWords(m, words) ==
  IF NextBuffer(m).level + Len(words) > m.size
  THEN m
  ELSE WithBuffer(m, Buffers_Next(m),
         [NextBuffer(m) EXCEPT !.level = @ + Len(words), !.data = @ \o words])

Buffers_Next_Remaining(m) == m.size - NextBuffer(m).level

(* A read of some words ends at the level; what it returns and leaves.     *)
CopyOutEnd(m, words) ==
  IF ActiveBuffer(m).next + words > ActiveBuffer(m).level
  THEN ActiveBuffer(m).level ELSE ActiveBuffer(m).next + words
CopiedOut(m, words) ==
  SubSeq(ActiveBuffer(m).data, ActiveBuffer(m).next + 1, CopyOutEnd(m, words))
Buffers_CopyOutWords(m, words) ==
  WithBuffer(m, m.active, [ActiveBuffer(m) EXCEPT !.next = CopyOutEnd(m, words)])

(* size 0: everything not read yet.                                        *)
Buffers_CopyOut(m) ==
  WithBuffer(m, m.active, [ActiveBuffer(m) EXCEPT !.next = ActiveBuffer(m).level])

Fault_UpdateUnguarded(m) ==
  IF Buffers_Next_Full(m) THEN Buffers_Toggle(m) ELSE m
Buffers_Update(m) ==
  IF Buffers_Next_Full(m) /\ Buffers_Active_Done(m) THEN Buffers_Toggle(m) ELSE m

Buffers_Stop(m) ==
  LET s == [m EXCEPT !.stopped = TRUE]
  IN  IF NextBuffer(m).bufferPixel > 0 /\ Buffers_Active_Done(m)
      THEN Buffers_Toggle(s) ELSE s

(* psl_mm_BufferDone: a done for the wrong buffer is an error, yet the     *)
(* buffers are updated either way.                                         *)
Buffers_BufferDone(m, b) ==
  Buffers_Update(IF b = m.active THEN Buffers_Active_Clear(m) ELSE m)
===========================================================================
