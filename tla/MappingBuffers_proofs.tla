----------------------- MODULE MappingBuffers_proofs ----------------------
(***************************************************************************)
(* What the double buffer's operations preserve, for every kind of item    *)
(* and every size.  The mapping modes' proofs cite these by name.          *)
(***************************************************************************)
EXTENDS MappingBuffers, SequenceTheorems, TLAPS

(* Buffers_Next names the other buffer.                                    *)
LEMMA NextBufferId ==
  ASSUME NEW Item, NEW m \in Buffers(Item)
  PROVE  /\ m.active \in BufferIds /\ Buffers_Next(m) \in BufferIds
         /\ Buffers_Next(m) # m.active
         /\ \A b \in BufferIds : b = m.active \/ b = Buffers_Next(m)
BY DEF Buffers, BufferIds, Buffers_Next

(* Opening, toggling, clearing, copying and counting keep the buffers well *)
(* formed.                                                                 *)
LEMMA WithBufferType ==
  ASSUME NEW Item, NEW m \in Buffers(Item), NEW b \in BufferIds,
         NEW buf \in Buffer(Item)
  PROVE  WithBuffer(m, b, buf) \in Buffers(Item)
BY DEF WithBuffer, Buffers

LEMMA BufferFieldsType ==
  ASSUME NEW Item, NEW buf \in Buffer(Item), NEW k \in Nat
  PROVE  /\ [buf EXCEPT !.level = @ + k] \in Buffer(Item)
         /\ [buf EXCEPT !.drops = @ + k] \in Buffer(Item)
         /\ [buf EXCEPT !.bufferPixel = @ + 1] \in Buffer(Item)
         /\ [buf EXCEPT !.next = buf.level] \in Buffer(Item)
<1>1. [buf EXCEPT !.level = @ + k] \in Buffer(Item)
  BY DEF Buffer
<1>2. [buf EXCEPT !.drops = @ + k] \in Buffer(Item)
  BY DEF Buffer
<1>3. [buf EXCEPT !.bufferPixel = @ + 1] \in Buffer(Item)
  BY DEF Buffer
<1>4. [buf EXCEPT !.next = buf.level] \in Buffer(Item)
  BY DEF Buffer
<1>5. QED BY <1>1, <1>2, <1>3, <1>4

LEMMA FilledBufferType ==
  ASSUME NEW Item, NEW buf \in Buffer(Item), NEW k \in Nat, NEW item \in Item
  PROVE  [buf EXCEPT !.level = @ + k, !.data = Append(@, item)] \in Buffer(Item)
<1>1. buf.level + k \in Nat /\ Append(buf.data, item) \in Seq(Item)
  BY DEF Buffer
<1>2. \A l \in Nat, d \in Seq(Item) :
        [buf EXCEPT !.level = l, !.data = d] \in Buffer(Item)
  BY DEF Buffer
<1>3. QED BY <1>1, <1>2

LEMMA OpenType ==
  ASSUME NEW Item, NEW size \in Nat, NEW numPixels \in Nat
  PROVE  Buffers_Open(size, numPixels) \in Buffers(Item)
BY DEF Buffers_Open, Buffers, Buffer, BufferIds, EmptyBuffer

LEMMA ToggleType ==
  ASSUME NEW Item, NEW m \in Buffers(Item)
  PROVE  Buffers_Toggle(m) \in Buffers(Item)
<1> DEFINE n == Buffers_Next(m)
<1>1. n \in BufferIds /\ [m EXCEPT !.active = n] \in Buffers(Item)
  BY NextBufferId DEF Buffers
<1>2. [m.buffer[n] EXCEPT !.done = FALSE, !.next = 0] \in Buffer(Item)
  BY <1>1, ZenonT(40) DEF Buffers, Buffer
<1>3. QED BY <1>1, <1>2, WithBufferType DEF Buffers_Toggle

LEMMA ClearType ==
  ASSUME NEW Item, NEW m \in Buffers(Item)
  PROVE  Buffers_Active_Clear(m) \in Buffers(Item)
<1>1. EmptyBuffer \in Buffer(Item)
  BY DEF EmptyBuffer, Buffer
<1>2. QED BY <1>1, NextBufferId, WithBufferType DEF Buffers_Active_Clear

LEMMA CountersType ==
  ASSUME NEW Item, NEW m \in Buffers(Item), NEW k \in Nat
  PROVE  /\ Buffers_Overrun(m) \in Buffers(Item)
         /\ Buffers_ClearOverruns(m) \in Buffers(Item)
         /\ Buffers_Drop(m, k) \in Buffers(Item)
         /\ Buffers_Pixel_Inc(m) \in Buffers(Item)
         /\ Buffers_Next_MoveLevel(m, k) \in Buffers(Item)
         /\ Buffers_CopyOut(m) \in Buffers(Item)
<1>1. /\ Buffers_Next(m) \in BufferIds /\ m.active \in BufferIds
      /\ NextBuffer(m) \in Buffer(Item) /\ ActiveBuffer(m) \in Buffer(Item)
  BY NextBufferId DEF NextBuffer, ActiveBuffer, Buffers
<1>2. Buffers_Overrun(m) \in Buffers(Item) /\ Buffers_ClearOverruns(m) \in Buffers(Item)
  BY DEF Buffers_Overrun, Buffers_ClearOverruns, Buffers
<1>3. /\ [NextBuffer(m) EXCEPT !.level = @ + k] \in Buffer(Item)
      /\ [NextBuffer(m) EXCEPT !.drops = @ + k] \in Buffer(Item)
      /\ [NextBuffer(m) EXCEPT !.bufferPixel = @ + 1] \in Buffer(Item)
      /\ [ActiveBuffer(m) EXCEPT !.next = ActiveBuffer(m).level] \in Buffer(Item)
  BY <1>1, BufferFieldsType
<1>4. [m EXCEPT !.pixel = @ + k] \in Buffers(Item)
      /\ [m EXCEPT !.pixel = @ + 1] \in Buffers(Item)
  BY DEF Buffers
<1>5. Buffers_Drop(m, k) \in Buffers(Item)
  BY <1>1, <1>3, <1>4, WithBufferType DEF Buffers_Drop
<1>6. Buffers_Pixel_Inc(m) \in Buffers(Item)
  BY <1>1, <1>3, <1>4, WithBufferType DEF Buffers_Pixel_Inc
<1>7. Buffers_Next_MoveLevel(m, k) \in Buffers(Item)
  BY <1>1, <1>3, WithBufferType DEF Buffers_Next_MoveLevel
<1>8. Buffers_CopyOut(m) \in Buffers(Item)
  BY <1>1, <1>3, WithBufferType DEF Buffers_CopyOut
<1>9. QED BY <1>2, <1>5, <1>6, <1>7, <1>8

LEMMA CopyInType ==
  ASSUME NEW Item, NEW m \in Buffers(Item), NEW item \in Item, NEW words \in Nat
  PROVE  Buffers_CopyIn(m, item, words) \in Buffers(Item)
<1>1. Buffers_Next(m) \in BufferIds /\ NextBuffer(m) \in Buffer(Item)
  BY NextBufferId DEF NextBuffer, Buffers
<1>2. [NextBuffer(m) EXCEPT !.level = @ + words, !.data = Append(@, item)] \in Buffer(Item)
  BY <1>1, FilledBufferType
<1>3. QED BY <1>1, <1>2, WithBufferType DEF Buffers_CopyIn

LEMMA UpdateType ==
  ASSUME NEW Item, NEW m \in Buffers(Item)
  PROVE  Buffers_Update(m) \in Buffers(Item)
BY ToggleType DEF Buffers_Update

LEMMA StopType ==
  ASSUME NEW Item, NEW m \in Buffers(Item)
  PROVE  Buffers_Stop(m) \in Buffers(Item)
<1> DEFINE s == [m EXCEPT !.stopped = TRUE]
<1>1. s \in Buffers(Item)
  BY DEF Buffers
<1>2. QED BY <1>1, ToggleType DEF Buffers_Stop

LEMMA BufferDoneType ==
  ASSUME NEW Item, NEW m \in Buffers(Item), NEW b
  PROVE  Buffers_BufferDone(m, b) \in Buffers(Item)
BY ClearType, UpdateType DEF Buffers_BufferDone

---------------------------------------------------------------------------
(* Toggle, Update and Stop move no data: they change the roles of the two  *)
(* buffers, the ownership flag and the read position only.                 *)
SameContents(m, n) ==
  /\ n.size = m.size /\ n.pixel = m.pixel /\ n.numPixels = m.numPixels
  /\ n.bufferNumber = m.bufferNumber
  /\ \A b \in BufferIds :
       /\ n.buffer[b].level = m.buffer[b].level
       /\ n.buffer[b].data = m.buffer[b].data
       /\ n.buffer[b].bufferPixel = m.buffer[b].bufferPixel

LEMMA ToggleContents ==
  ASSUME NEW Item, NEW m \in Buffers(Item)
  PROVE  SameContents(m, Buffers_Toggle(m))
BY NextBufferId DEF SameContents, Buffers_Toggle, WithBuffer, Buffers, Buffer

LEMMA UpdateContents ==
  ASSUME NEW Item, NEW m \in Buffers(Item)
  PROVE  SameContents(m, Buffers_Update(m))
BY ToggleContents DEF Buffers_Update, SameContents

LEMMA StopContents ==
  ASSUME NEW Item, NEW m \in Buffers(Item)
  PROVE  SameContents(m, Buffers_Stop(m))
<1> DEFINE s == [m EXCEPT !.stopped = TRUE]
<1>1. s \in Buffers(Item) /\ SameContents(m, s)
  BY DEF Buffers, SameContents
<1>2. SameContents(s, Buffers_Toggle(s))
  BY <1>1, ToggleContents
<1>3. QED BY <1>1, <1>2 DEF Buffers_Stop, SameContents

(* While the user holds the Active buffer, Update and Stop leave the roles *)
(* of the buffers alone.                                                   *)
LEMMA NoToggleWhileHeld ==
  ASSUME NEW Item, NEW m \in Buffers(Item), ~Buffers_Active_Done(m)
  PROVE  /\ Buffers_Update(m) = m
         /\ Buffers_Stop(m) = [m EXCEPT !.stopped = TRUE]
BY DEF Buffers_Update, Buffers_Stop

(* Done for any buffer leaves every buffer as it was, or empty when it is  *)
(* the Active one that the user is done with.                              *)
LEMMA BufferDoneContents ==
  ASSUME NEW Item, NEW m \in Buffers(Item), NEW b \in BufferIds
  PROVE  SameContents(IF b = m.active THEN Buffers_Active_Clear(m) ELSE m,
                      Buffers_BufferDone(m, b))
BY ClearType, UpdateContents DEF Buffers_BufferDone

---------------------------------------------------------------------------
(* What the receiver does to the Next buffer touches neither the roles nor *)
(* the user's buffer.                                                      *)
OnlyNext(m, n) ==
  /\ n.active = m.active /\ n.size = m.size /\ n.numPixels = m.numPixels
  /\ n.stopped = m.stopped
  /\ ActiveBuffer(n) = ActiveBuffer(m)

LEMMA WithNextBuffer ==
  ASSUME NEW Item, NEW m \in Buffers(Item), NEW buf \in Buffer(Item)
  PROVE  LET n == WithBuffer(m, Buffers_Next(m), buf)
         IN  OnlyNext(m, n) /\ NextBuffer(n) = buf /\ n.pixel = m.pixel
BY NextBufferId
   DEF OnlyNext, WithBuffer, ActiveBuffer, NextBuffer, Buffers, Buffers_Next, BufferIds

LEMMA MoveLevelContents ==
  ASSUME NEW Item, NEW m \in Buffers(Item), NEW k \in Nat
  PROVE  LET n == Buffers_Next_MoveLevel(m, k)
         IN  /\ OnlyNext(m, n) /\ n.pixel = m.pixel
             /\ NextBuffer(n) = [NextBuffer(m) EXCEPT !.level = @ + k]
<1>1. NextBuffer(m) \in Buffer(Item)
  BY NextBufferId DEF NextBuffer, Buffers
<1>2. [NextBuffer(m) EXCEPT !.level = @ + k] \in Buffer(Item)
  BY <1>1, BufferFieldsType
<1>3. QED BY <1>2, WithNextBuffer DEF Buffers_Next_MoveLevel

LEMMA PixelIncContents ==
  ASSUME NEW Item, NEW m \in Buffers(Item)
  PROVE  LET n == Buffers_Pixel_Inc(m)
         IN  /\ OnlyNext(m, n) /\ n.pixel = m.pixel + 1
             /\ NextBuffer(n) = [NextBuffer(m) EXCEPT !.bufferPixel = @ + 1]
<1> DEFINE p == [m EXCEPT !.pixel = @ + 1]
<1>1. NextBuffer(m) \in Buffer(Item)
  BY NextBufferId DEF NextBuffer, Buffers
<1>2. [NextBuffer(m) EXCEPT !.bufferPixel = @ + 1] \in Buffer(Item)
  BY <1>1, BufferFieldsType
<1>3. /\ p \in Buffers(Item) /\ p.pixel = m.pixel + 1 /\ OnlyNext(m, p)
      /\ Buffers_Next(p) = Buffers_Next(m)
  BY DEF Buffers, OnlyNext, ActiveBuffer, Buffers_Next
<1>4. Buffers_Pixel_Inc(m) =
        WithBuffer(p, Buffers_Next(p), [NextBuffer(m) EXCEPT !.bufferPixel = @ + 1])
  BY <1>3 DEF Buffers_Pixel_Inc
<1> HIDE DEF p
<1>5. QED BY <1>2, <1>3, <1>4, WithNextBuffer DEF OnlyNext

(* Toggle: Next becomes Active and is the user's, Active becomes Next.     *)
LEMMA ToggleRoles ==
  ASSUME NEW Item, NEW m \in Buffers(Item)
  PROVE  LET t == Buffers_Toggle(m)
         IN  /\ NextBuffer(t) = ActiveBuffer(m) /\ t.size = m.size
             /\ ActiveBuffer(t) = [NextBuffer(m) EXCEPT !.done = FALSE, !.next = 0]
             /\ t.active = Buffers_Next(m)
<1> DEFINE n == Buffers_Next(m)
           x == [m EXCEPT !.active = n]
           buf == [m.buffer[n] EXCEPT !.done = FALSE, !.next = 0]
           t == WithBuffer(x, n, buf)
<1>1. /\ n \in BufferIds /\ m.active \in BufferIds /\ n # m.active
      /\ \A b \in BufferIds : b = m.active \/ b = n
  BY NextBufferId
<1>2. x \in Buffers(Item) /\ x.active = n /\ x.size = m.size /\ x.buffer = m.buffer
  BY <1>1 DEF Buffers
<1> HIDE DEF n, x, buf
<1>3. /\ t.active = n /\ t.size = m.size /\ t.buffer[n] = buf
      /\ t.buffer[m.active] = m.buffer[m.active]
  BY <1>1, <1>2 DEF WithBuffer, Buffers
<1> HIDE DEF t
<1>4. Buffers_Next(t) = m.active
  BY <1>1, <1>3 DEF Buffers_Next, BufferIds
<1>5. NextBuffer(t) = ActiveBuffer(m) /\ ActiveBuffer(t) = buf
  BY <1>3, <1>4 DEF NextBuffer, ActiveBuffer
<1>6. Buffers_Toggle(m) = t
  BY DEF Buffers_Toggle, t, x, buf, n
<1>7. buf = [NextBuffer(m) EXCEPT !.done = FALSE, !.next = 0]
  BY DEF buf, n, NextBuffer
<1>8. QED BY <1>3, <1>5, <1>6, <1>7 DEF n

(* Drops change counters only.                                             *)
LEMMA DropContents ==
  ASSUME NEW Item, NEW m \in Buffers(Item), NEW k \in Nat
  PROVE  LET n == Buffers_Drop(m, k)
         IN  /\ OnlyNext(m, n) /\ n.pixel = m.pixel + k
             /\ NextBuffer(n) = [NextBuffer(m) EXCEPT !.drops = @ + k]
<1> DEFINE p == [m EXCEPT !.pixel = @ + k]
<1>1. NextBuffer(m) \in Buffer(Item)
  BY NextBufferId DEF NextBuffer, Buffers
<1>2. [NextBuffer(m) EXCEPT !.drops = @ + k] \in Buffer(Item)
  BY <1>1, BufferFieldsType
<1>3. /\ p \in Buffers(Item) /\ p.pixel = m.pixel + k /\ OnlyNext(m, p)
      /\ Buffers_Next(p) = Buffers_Next(m)
  BY DEF Buffers, OnlyNext, ActiveBuffer, Buffers_Next
<1>4. Buffers_Drop(m, k) =
        WithBuffer(p, Buffers_Next(p), [NextBuffer(m) EXCEPT !.drops = @ + k])
  BY <1>3 DEF Buffers_Drop
<1> HIDE DEF p
<1>5. QED BY <1>2, <1>3, <1>4, WithNextBuffer DEF OnlyNext

(* A block that fits is appended.                                          *)
LEMMA CopyInContents ==
  ASSUME NEW Item, NEW m \in Buffers(Item), NEW item \in Item, NEW words \in Nat,
         NextBuffer(m).level + words <= m.size
  PROVE  LET n == Buffers_CopyIn(m, item, words)
         IN  /\ OnlyNext(m, n) /\ n.pixel = m.pixel
             /\ NextBuffer(n) = [NextBuffer(m) EXCEPT !.level = @ + words,
                                                      !.data = Append(@, item)]
<1> DEFINE f == [NextBuffer(m) EXCEPT !.level = @ + words, !.data = Append(@, item)]
<1>1. NextBuffer(m) \in Buffer(Item)
  BY NextBufferId DEF NextBuffer, Buffers
<1>2. f \in Buffer(Item)
  BY <1>1, FilledBufferType
<1>3. ~(NextBuffer(m).level + words > m.size)
  BY <1>1, SMTT(20) DEF Buffer, Buffers
<1>4. Buffers_CopyIn(m, item, words) = WithBuffer(m, Buffers_Next(m), f)
  BY <1>3 DEF Buffers_CopyIn
<1> HIDE DEF f
<1>5. OnlyNext(m, Buffers_CopyIn(m, item, words))
      /\ NextBuffer(Buffers_CopyIn(m, item, words)) = f
      /\ Buffers_CopyIn(m, item, words).pixel = m.pixel
  BY <1>2, <1>4, WithNextBuffer
<1>6. QED BY <1>5 DEF f

---------------------------------------------------------------------------
(* Counters the roles do not depend on.                                    *)
LEMMA WithBufferOverruns ==
  ASSUME NEW Item, NEW m \in Buffers(Item), NEW b \in BufferIds, NEW buf
  PROVE  WithBuffer(m, b, buf).bufferOverruns = m.bufferOverruns
BY DEF WithBuffer, Buffers

LEMMA ToggleFlags ==
  ASSUME NEW Item, NEW m \in Buffers(Item)
  PROVE  LET t == Buffers_Toggle(m)
         IN  /\ t.bufferOverruns = m.bufferOverruns
             /\ t.numPixels = m.numPixels /\ t.stopped = m.stopped
BY NextBufferId DEF Buffers_Toggle, WithBuffer, Buffers

(* Words that fit are appended.                                            *)
LEMMA CopyInWordsContents ==
  ASSUME NEW Item, NEW m \in Buffers(Item), NEW words \in Seq(Item),
         NextBuffer(m).level + Len(words) <= m.size
  PROVE  LET n == Buffers_CopyInWords(m, words)
         IN  /\ n \in Buffers(Item) /\ OnlyNext(m, n)
             /\ n.bufferOverruns = m.bufferOverruns
             /\ NextBuffer(n) = [NextBuffer(m) EXCEPT !.level = @ + Len(words),
                                                      !.data = @ \o words]
<1> DEFINE f == [NextBuffer(m) EXCEPT !.level = @ + Len(words), !.data = @ \o words]
           n == Buffers_CopyInWords(m, words)
<1>1. /\ NextBuffer(m) \in Buffer(Item) /\ Buffers_Next(m) \in BufferIds
      /\ Len(words) \in Nat
  BY NextBufferId DEF NextBuffer, Buffers
<1>2. f \in Buffer(Item)
  <2>1. NextBuffer(m).level + Len(words) \in Nat /\ NextBuffer(m).data \o words \in Seq(Item)
    BY <1>1, ConcatProperties DEF Buffer
  <2>2. \A l \in Nat, d \in Seq(Item) :
          [NextBuffer(m) EXCEPT !.level = l, !.data = d] \in Buffer(Item)
    BY <1>1 DEF Buffer
  <2>3. QED BY <2>1, <2>2
<1>3. n = WithBuffer(m, Buffers_Next(m), f)
  <2>1. NextBuffer(m).level \in Nat /\ m.size \in Nat
    BY <1>1 DEF Buffer, Buffers
  <2>2. \A l, k, z \in Nat : l + k <= z => ~(l + k > z)
    OBVIOUS
  <2>3. ~(NextBuffer(m).level + Len(words) > m.size)
    BY <1>1, <2>1, <2>2
  <2>4. QED BY <2>3 DEF Buffers_CopyInWords
<1> HIDE DEF f, n
<1>4. n \in Buffers(Item) /\ OnlyNext(m, n) /\ n.bufferOverruns = m.bufferOverruns
      /\ NextBuffer(n) = f
  BY <1>1, <1>2, <1>3, WithBufferType, WithNextBuffer, WithBufferOverruns
<1>5. QED BY <1>4 DEF f, n

(* Whatever replaces the Active buffer leaves the rest alone.              *)
LEMMA WithActiveBuffer ==
  ASSUME NEW Item, NEW m \in Buffers(Item), NEW buf \in Buffer(Item)
  PROVE  LET n == WithBuffer(m, m.active, buf)
         IN  /\ n \in Buffers(Item) /\ ActiveBuffer(n) = buf
             /\ NextBuffer(n) = NextBuffer(m) /\ n.active = m.active /\ n.size = m.size
             /\ n.numPixels = m.numPixels /\ n.stopped = m.stopped /\ n.pixel = m.pixel
             /\ n.bufferOverruns = m.bufferOverruns
<1> DEFINE n == WithBuffer(m, m.active, buf)
<1>1. m.active \in BufferIds /\ n \in Buffers(Item)
  BY NextBufferId, WithBufferType
<1>2. ActiveBuffer(n) = buf /\ NextBuffer(n) = NextBuffer(m)
  BY NextBufferId
     DEF WithBuffer, ActiveBuffer, NextBuffer, Buffers, Buffers_Next, BufferIds
<1>3. /\ n.active = m.active /\ n.size = m.size
      /\ n.numPixels = m.numPixels /\ n.stopped = m.stopped /\ n.pixel = m.pixel
      /\ n.bufferOverruns = m.bufferOverruns
  BY DEF WithBuffer, Buffers
<1>4. QED BY <1>1, <1>2, <1>3

(* A sequence is taken apart where it was put together.                    *)
LEMMA SplitConcat ==
  ASSUME NEW S, NEW s \in Seq(S), NEW t \in Seq(S)
  PROVE  /\ SubSeq(s \o t, 1, Len(s)) = s
         /\ SubSeq(s \o t, Len(s) + 1, Len(s \o t)) = t
<1>1. Len(s) \in Nat /\ Len(t) \in Nat /\ Len(s \o t) = Len(s) + Len(t)
      /\ s \o t \in Seq(S)
  BY ConcatProperties
<1>2. SubSeq(s \o t, 1, Len(s)) = s
  <2>1. CASE Len(s) = 0
    BY <1>1, <2>1, SubSeqEmpty, EmptySeq
  <2>2. CASE Len(s) # 0
    BY <1>1, <2>2, SubSeqOfConcat1, SubSeqFull
  <2>3. QED BY <2>1, <2>2
<1>3. SubSeq(s \o t, Len(s) + 1, Len(s \o t)) = t
  <2>1. CASE Len(t) = 0
    BY <1>1, <2>1, SubSeqEmpty, EmptySeq
  <2>2. CASE Len(t) # 0
    <3>1. /\ Len(s) + 1 \in Len(s) + 1 .. Len(s) + Len(t)
          /\ Len(s) + Len(t) \in Len(s) + 1 .. Len(s) + Len(t)
      BY <1>1, <2>2
    <3>2. SubSeq(s \o t, Len(s) + 1, Len(s) + Len(t))
            = SubSeq(t, Len(s) + 1 - Len(s), Len(s) + Len(t) - Len(s))
      BY <3>1, SubSeqOfConcat2
    <3>3. Len(s) + 1 - Len(s) = 1 /\ Len(s) + Len(t) - Len(s) = Len(t)
      BY <1>1
    <3>4. QED BY <1>1, <3>2, <3>3, SubSeqFull
  <2>3. QED BY <2>1, <2>2
<1>4. QED BY <1>2, <1>3
===========================================================================
