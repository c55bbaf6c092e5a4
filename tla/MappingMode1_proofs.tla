------------------------ MODULE MappingMode1_proofs -----------------------
(***************************************************************************)
(* Proofs about MappingMode1 for every buffer size, every run length and   *)
(* every bound: type correctness, that no buffer is ever overfilled, that  *)
(* every pixel is accounted for, that the user owns the Active buffer,     *)
(* that the headers fit the data, and that the buffers are a stream; and   *)
(* about the loop of Mm1Reader, that the file it writes is complete.       *)
(***************************************************************************)
EXTENDS Mm1Reader, MappingBuffers_proofs

LEMMA ConstantsType ==
  /\ HeaderWords \in Nat \ {0} /\ PixelWords \in Nat \ {0} /\ McaWords \in Nat \ {0}
  /\ PixelsPerBuffer \in Nat \ {0} /\ PixelBlock \in Nat \ {0} /\ BufferSize \in Nat
BY Mm1Assumption DEF PixelBlock, BufferSize

(* A histogram that is stored keeps the buffers well formed.               *)
LEMMA StoreType ==
  ASSUME Mm1TypeOK
  PROVE  WithPixel(WithBufferHeader(mmb)) \in Buffers(Pixel)
<1>1. mmb \in Buffers(Pixel) /\ mmb.pixel \in Nat /\ setId \in Nat
  BY DEF Mm1TypeOK, Buffers
<1>2. WithBufferHeader(mmb) \in Buffers(Pixel)
  <2> DEFINE m == Buffers_Next_MoveLevel(mmb, HeaderWords)
  <2>1. m \in Buffers(Pixel)
    BY <1>1, ConstantsType, CountersType
  <2>2. [m EXCEPT !.bufferNumber = @ + 1] \in Buffers(Pixel)
    BY <2>1 DEF Buffers
  <2>3. QED BY <1>1, <2>2 DEF WithBufferHeader
<1>3. ASSUME NEW m \in Buffers(Pixel)
      PROVE  WithPixel(m) \in Buffers(Pixel)
  <2>1. m.pixel \in Nat
    BY <1>3 DEF Buffers
  <2>2. [number |-> m.pixel, set |-> setId] \in Pixel
    BY <2>1, <1>1 DEF Pixel
  <2>3. Buffers_Pixel_Inc(Buffers_Next_MoveLevel(m, PixelWords)) \in Buffers(Pixel)
    BY <1>3, ConstantsType, CountersType
  <2>4. QED BY <2>2, <2>3, ConstantsType, CopyInType DEF WithPixel
<1>4. QED BY <1>2, <1>3

(* The XMAP buffer header stays a header when it is written and updated.   *)
LEMMA HeaderType ==
  ASSUME Mm1TypeOK, NEW b \in BufferIds, NEW m \in Buffers(Pixel)
  PROVE  UpdatedHeader(m, BufferHeader(mmb, header[b])) \in Header
<1>1. NextBuffer(m) \in Buffer(Pixel)
  BY NextBufferId DEF NextBuffer, Buffers
<1>2. NextBuffer(m).bufferPixel \in Nat /\ NextBuffer(m).drops \in Nat
  BY <1>1 DEF Buffer
<1>3. HeaderWords + PixelBlock * NextBuffer(m).bufferPixel \in Nat
  BY <1>2, ConstantsType
<1>4. mmb.bufferNumber \in Nat /\ mmb.pixel \in Nat /\ header[b] \in Header
  BY DEF Mm1TypeOK, Buffers
<1>5. BufferHeader(mmb, header[b]) \in Header
  BY <1>4 DEF BufferHeader, NoHeader, Header
<1>6. QED
  BY <1>2, <1>3, <1>5 DEF UpdatedHeader, Header

LEMMA InitType == Mm1Init => Mm1TypeOK
<1> SUFFICES ASSUME Mm1Init PROVE Mm1TypeOK
  OBVIOUS
<1>1. mmb \in Buffers(Pixel)
  BY ConstantsType, OpenType DEF Mm1Init
<1>2. header \in [BufferIds -> Header]
  BY DEF Mm1Init, NoHeader, Header
<1>3. commands \in Seq({"start", "stop"}) /\ delivered \in Seq(Pixel)
  BY DEF Mm1Init
<1>4. pixelAdvance \in Int /\ pixelAdvance >= -1
  BY DEF Mm1Init
<1>5. {setId, released, overrun, dropped, skipped, runs} \subseteq Nat
  BY DEF Mm1Init
<1>6. QED BY <1>1, <1>2, <1>3, <1>4, <1>5 DEF Mm1Init, Mm1TypeOK

LEMMA StepType == Mm1TypeOK /\ [Mm1Next]_vars => Mm1TypeOK'
<1> SUFFICES ASSUME Mm1TypeOK, [Mm1Next]_vars PROVE Mm1TypeOK'
  OBVIOUS
<1> USE DEF Mm1TypeOK
<1>1. ASSUME NEW numPixels \in RunLengths, NEW advance, NEW outcome,
             StartRun(numPixels, advance, outcome)
      PROVE  Mm1TypeOK'
  <2>1. numPixels \in Nat
    BY Mm1Assumption
  <2>2. Buffers_Open(BufferSize, numPixels) \in Buffers(Pixel)
    BY <2>1, ConstantsType, OpenType
  <2>3. Buffers_Stop(Buffers_Open(BufferSize, numPixels)) \in Buffers(Pixel)
    BY <2>2, StopType
  <2>4. mmb' \in Buffers(Pixel)
    BY <1>1, <2>2, <2>3 DEF StartRun, Opened
  <2>5. header' \in [BufferIds -> Header]
    BY <1>1 DEF StartRun, NoHeader, Header
  <2>6. commands' \in Seq({"start", "stop"})
    <3> DEFINE a == IF channelState = "Ready" /\ outcome \in {"started", "lost"}
                    THEN <<"start">> ELSE << >>
               z == IF outcome \in Successes THEN << >> ELSE <<"stop">>
    <3>1. /\ << >> \in Seq({"start", "stop"}) /\ <<"start">> \in Seq({"start", "stop"})
          /\ <<"stop">> \in Seq({"start", "stop"})
          /\ commands \in Seq({"start", "stop"})
      OBVIOUS
    <3>2. a \in Seq({"start", "stop"}) /\ z \in Seq({"start", "stop"})
      BY <3>1
    <3> HIDE DEF a, z
    <3>3. commands \o a \o z \in Seq({"start", "stop"})
      BY <3>1, <3>2
    <3>4. QED BY <1>1, <3>3 DEF StartRun, a, z
  <2>7. QED BY <1>1, <2>4, <2>5, <2>6 DEF StartRun
<1>1a. CASE StartRun_NotSet
  <2>1. mmb' \in Buffers(Pixel)
    BY <1>1a, StopType DEF StartRun_NotSet
  <2>2. commands' \in Seq({"start", "stop"})
    BY <1>1a DEF StartRun_NotSet
  <2>3. QED BY <1>1a, <2>1, <2>2 DEF StartRun_NotSet
<1>2. ASSUME NEW sent \in BOOLEAN, StopRun_Send(sent)
      PROVE  Mm1TypeOK'
  <2>1. commands' \in Seq({"start", "stop"})
    BY <1>2 DEF StopRun_Send
  <2>2. QED BY <1>2, <2>1 DEF StopRun_Send
<1>3. ASSUME NEW ok \in BOOLEAN, StopRun_End(ok)
      PROVE  Mm1TypeOK'
  BY <1>3, StopType DEF StopRun_End
<1>4. ASSUME NEW b \in BufferIds, ReadBuffer(b)
      PROVE  Mm1TypeOK'
  <2>1. mmb' \in Buffers(Pixel)
    BY <1>4, CountersType DEF ReadBuffer
  <2>2. ActiveBuffer(mmb).data \in Seq(Pixel)
    BY DEF ActiveBuffer, Buffers, Buffer
  <2>3. delivered' \in Seq(Pixel)
    BY <1>4, <2>2 DEF ReadBuffer
  <2>4. QED BY <1>4, <2>1, <2>3 DEF ReadBuffer, control
<1>5. ASSUME NEW b \in BufferIds, BufferDone(b)
      PROVE  Mm1TypeOK'
  <2>1. mmb' \in Buffers(Pixel)
    BY <1>5, BufferDoneType DEF BufferDone
  <2>2. ActiveBuffer(mmb).data \in Seq(Pixel)
    BY DEF ActiveBuffer, Buffers, Buffer
  <2>3. Len(ActiveBuffer(mmb).data) \in Nat
    BY <2>2
  <2>4. released' \in Nat
    BY <1>5, <2>3 DEF BufferDone
  <2>5. QED BY <1>5, <2>1, <2>4 DEF BufferDone, control
<1>6. CASE BufferOverrun
  BY <1>6, CountersType DEF BufferOverrun, control
<1>7. CASE MappingPixelNext
  BY <1>7 DEF MappingPixelNext, control
<1>8. CASE ReceiveChannelState
  BY <1>8 DEF ReceiveChannelState
<1>9. ASSUME NEW wellFormed \in BOOLEAN, SkipHistogram(wellFormed)
      PROVE  Mm1TypeOK'
  BY <1>9 DEF SkipHistogram, DeviceSends, control
<1>10. CASE OverrunHistogram
  <2>1. mmb' \in Buffers(Pixel)
    BY <1>10, CountersType DEF OverrunHistogram
  <2>2. QED BY <1>10, <2>1 DEF OverrunHistogram, DeviceSends, control
<1>11. CASE StoreHistogram
  <2>1. WithPixel(WithBufferHeader(mmb)) \in Buffers(Pixel)
    BY StoreType
  <2>2. mmb' \in Buffers(Pixel)
    BY <1>11, <2>1, UpdateType DEF StoreHistogram
  <2>3. header' \in [BufferIds -> Header]
    BY <1>11, <2>1, HeaderType DEF StoreHistogram
  <2>4. pixelAdvance' \in Int /\ pixelAdvance' >= -1
    BY <1>11 DEF StoreHistogram, AdvanceUsed
  <2>5. QED BY <1>11, <2>2, <2>3, <2>4 DEF StoreHistogram, DeviceSends, control
<1>12. ASSUME NEW drops \in 1 .. MaxDrop, DroppedHistograms(drops)
       PROVE  Mm1TypeOK'
  <2>1. drops \in Nat
    BY Mm1Assumption
  <2>2. mmb' \in Buffers(Pixel)
    BY <1>12, <2>1, CountersType DEF DroppedHistograms
  <2>3. QED BY <1>12, <2>1, <2>2 DEF DroppedHistograms, control
<1>13. CASE UNCHANGED vars
  BY <1>13 DEF vars
<1>14. QED
  BY <1>1, <1>1a, <1>2, <1>3, <1>4, <1>5, <1>6, <1>7, <1>8, <1>9, <1>10, <1>11,
     <1>12, <1>13 DEF Mm1Next, UserNext, ReceiverNext

(* Every reachable state of a channel in mapping mode 1 is well formed.    *)
THEOREM Mm1TypeCorrect == Mm1Spec => []Mm1TypeOK
<1>1. QED BY InitType, StepType, PTL DEF Mm1Spec

---------------------------------------------------------------------------
(* What a buffer of n pixels occupies, and that it fits while n is at most *)
(* PixelsPerBuffer.                                                        *)
LEMMA Occupied ==
  ASSUME NEW n \in Nat
  PROVE  /\ HeaderWords + n * PixelBlock \in Nat \ {0}
         /\ (n + 1) * PixelBlock = n * PixelBlock + PixelBlock
         /\ n <= PixelsPerBuffer => HeaderWords + n * PixelBlock <= BufferSize
         /\ n > PixelsPerBuffer => HeaderWords + n * PixelBlock > BufferSize
         /\ n = PixelsPerBuffer => HeaderWords + n * PixelBlock = BufferSize
<1>1. \A p, q, r \in Nat : p <= q => p * r <= q * r
  OBVIOUS
<1>2. \A p, q \in Nat, r \in Nat \ {0} : p < q => p * r < q * r
  OBVIOUS
<1>3. \A p, r \in Nat : p * r \in Nat /\ (p + 1) * r = p * r + r
  OBVIOUS
<1> DEFINE u == n * PixelBlock
           w == PixelsPerBuffer * PixelBlock
<1>4. u \in Nat /\ w \in Nat
  BY <1>3, ConstantsType
<1>5. n <= PixelsPerBuffer => u <= w
  BY <1>1, ConstantsType
<1>6. n > PixelsPerBuffer => u > w
  BY <1>2, ConstantsType
<1>7. (n + 1) * PixelBlock = u + PixelBlock
  BY <1>3, ConstantsType
<1>8. n = PixelsPerBuffer => u = w
  OBVIOUS
<1> HIDE DEF u, w
<1>9. BufferSize = HeaderWords + w
  BY DEF BufferSize, w
<1>10. /\ HeaderWords + u \in Nat \ {0}
       /\ n <= PixelsPerBuffer => HeaderWords + u <= BufferSize
       /\ n > PixelsPerBuffer => HeaderWords + u > BufferSize
       /\ n = PixelsPerBuffer => HeaderWords + u = BufferSize
  BY <1>4, <1>5, <1>6, <1>8, <1>9, ConstantsType
<1>11. QED BY <1>7, <1>10 DEF u

(* A pixel stored in a Next buffer that is not full fits behind those that *)
(* are there, the header of the buffer included.                           *)
LEMMA StoreContents ==
  ASSUME Mm1TypeOK, BuffersInv, ~Buffers_Next_Full(mmb)
  PROVE  LET n == WithPixel(WithBufferHeader(mmb))
             k == Len(NextBuffer(mmb).data)
         IN  /\ OnlyNext(mmb, n) /\ n.pixel = mmb.pixel + 1
             /\ NextBuffer(n).data =
                  Append(NextBuffer(mmb).data, [number |-> mmb.pixel, set |-> setId])
             /\ NextBuffer(n).bufferPixel = NextBuffer(mmb).bufferPixel + 1
             /\ NextBuffer(n).level = HeaderWords + (k + 1) * PixelBlock
             /\ k + 1 \in 1 .. PixelsPerBuffer
<1> DEFINE old == NextBuffer(mmb)
           k == Len(old.data)
           item == [number |-> mmb.pixel, set |-> setId]
           h == WithBufferHeader(mmb)
           v == Buffers_Next_MoveLevel(h, PixelWords)
           p == Buffers_Pixel_Inc(v)
<1>1. /\ mmb \in Buffers(Pixel) /\ old \in Buffer(Pixel) /\ BufferShape(old)
      /\ mmb.size = BufferSize /\ item \in Pixel
  <2>1. mmb \in Buffers(Pixel) /\ mmb.pixel \in Nat /\ setId \in Nat
    BY DEF Mm1TypeOK, Buffers
  <2>2. old \in Buffer(Pixel) /\ BufferShape(old)
    BY <2>1, NextBufferId DEF NextBuffer, Buffers, BuffersInv, WellFilled
  <2>3. QED BY <2>1, <2>2 DEF BuffersInv, WellFilled, Pixel
<1>2. old.level \in Nat /\ old.data \in Seq(Pixel) /\ k \in Nat /\ old.bufferPixel \in Nat
  BY <1>1 DEF Buffer
<1>3. k < PixelsPerBuffer /\ (old.level = 0 => k = 0)
      /\ (old.level # 0 => old.level = HeaderWords + k * PixelBlock)
  <2>1. CASE old.level = 0
    BY <2>1, <1>1, ConstantsType DEF BufferShape
  <2>2. CASE old.level # 0
    <3>1. k \in 1 .. PixelsPerBuffer /\ old.level = HeaderWords + k * PixelBlock
      BY <2>2, <1>1 DEF BufferShape
    <3>2. ~(old.level >= BufferSize)
      BY <2>2, <1>1, <1>2 DEF Buffers_Next_Full, Buffers_Full, NextBuffer
    <3>3. k # PixelsPerBuffer
      BY <3>1, <3>2, <1>2, Occupied, ConstantsType
    <3>4. QED BY <2>2, <3>1, <3>3, ConstantsType
  <2>3. QED BY <2>1, <2>2
<1>4. /\ h \in Buffers(Pixel) /\ OnlyNext(mmb, h) /\ h.pixel = mmb.pixel
      /\ NextBuffer(h).data = old.data /\ NextBuffer(h).bufferPixel = old.bufferPixel
      /\ NextBuffer(h).level = HeaderWords + k * PixelBlock
  <2> DEFINE g == Buffers_Next_MoveLevel(mmb, HeaderWords)
  <2>1. CASE old.level = 0
    <3>1. /\ g \in Buffers(Pixel) /\ OnlyNext(mmb, g) /\ g.pixel = mmb.pixel
          /\ NextBuffer(g) = [old EXCEPT !.level = @ + HeaderWords]
      BY <1>1, ConstantsType, CountersType, MoveLevelContents
    <3>2. h = [g EXCEPT !.bufferNumber = @ + 1]
      BY <2>1 DEF WithBufferHeader
    <3> HIDE DEF g, h
    <3>3. /\ h \in Buffers(Pixel) /\ OnlyNext(mmb, h) /\ h.pixel = mmb.pixel
          /\ NextBuffer(h) = NextBuffer(g)
      BY <3>1, <3>2 DEF Buffers, OnlyNext, ActiveBuffer, NextBuffer, Buffers_Next
    <3>4. k * PixelBlock = 0
      BY <2>1, <1>3, ConstantsType
    <3>5. QED BY <2>1, <3>1, <3>3, <3>4, <1>1, ConstantsType DEF Buffer
  <2>2. CASE old.level # 0
    BY <2>2, <1>1, <1>3 DEF WithBufferHeader, OnlyNext
  <2>3. QED BY <2>1, <2>2
<1> HIDE DEF h
<1>5. /\ v \in Buffers(Pixel) /\ OnlyNext(h, v) /\ v.pixel = h.pixel
      /\ NextBuffer(v) = [NextBuffer(h) EXCEPT !.level = @ + PixelWords]
  BY <1>4, ConstantsType, CountersType, MoveLevelContents
<1> HIDE DEF v
<1>6. /\ p \in Buffers(Pixel) /\ OnlyNext(v, p) /\ p.pixel = v.pixel + 1
      /\ NextBuffer(p) = [NextBuffer(v) EXCEPT !.bufferPixel = @ + 1]
  BY <1>5, ConstantsType, CountersType, PixelIncContents
<1> HIDE DEF p
<1>7. NextBuffer(h) \in Buffer(Pixel) /\ NextBuffer(v) \in Buffer(Pixel)
      /\ NextBuffer(p) \in Buffer(Pixel)
  BY <1>4, <1>5, <1>6, NextBufferId DEF NextBuffer, Buffers
<1>8. /\ NextBuffer(p).data = old.data
      /\ NextBuffer(p).bufferPixel = old.bufferPixel + 1
      /\ NextBuffer(p).level = HeaderWords + k * PixelBlock + PixelWords
      /\ p.size = BufferSize /\ p.pixel = mmb.pixel + 1 /\ OnlyNext(mmb, p)
  BY <1>1, <1>4, <1>5, <1>6, <1>7 DEF Buffer, OnlyNext
<1>9. /\ NextBuffer(p).level + McaWords = HeaderWords + (k + 1) * PixelBlock
      /\ HeaderWords + (k + 1) * PixelBlock <= BufferSize
      /\ k + 1 \in 1 .. PixelsPerBuffer
  <2> DEFINE u == k * PixelBlock
  <2>1. u \in Nat /\ (k + 1) * PixelBlock = u + PixelBlock
    BY <1>2, Occupied, ConstantsType
  <2>2. k + 1 \in Nat /\ k + 1 \in 1 .. PixelsPerBuffer
    BY <1>2, <1>3, ConstantsType
  <2>3. HeaderWords + (k + 1) * PixelBlock <= BufferSize
    BY <2>2, Occupied
  <2> HIDE DEF u
  <2>4. NextBuffer(p).level = HeaderWords + u + PixelWords
    BY <1>8 DEF u
  <2>5. HeaderWords + u + PixelWords + McaWords = HeaderWords + (u + PixelBlock)
    BY <2>1, ConstantsType DEF PixelBlock
  <2>6. QED BY <2>1, <2>2, <2>3, <2>4, <2>5
<1> DEFINE n == Buffers_CopyIn(p, item, McaWords)
<1>10. /\ OnlyNext(p, n) /\ n.pixel = p.pixel
       /\ NextBuffer(n) = [NextBuffer(p) EXCEPT !.level = @ + McaWords,
                                                !.data = Append(@, item)]
  <2>1. NextBuffer(p).level + McaWords <= p.size
    BY <1>8, <1>9
  <2>2. item \in Pixel /\ McaWords \in Nat /\ p \in Buffers(Pixel)
    BY <1>1, <1>6, ConstantsType
  <2> HIDE DEF item
  <2>3. QED BY <2>1, <2>2, CopyInContents
<1>11. WithPixel(h) = n
  <2>1. h.pixel = mmb.pixel
    BY <1>4
  <2>2. QED BY <2>1 DEF WithPixel, p, v
<1> HIDE DEF n
<1>12. /\ OnlyNext(mmb, n) /\ n.pixel = mmb.pixel + 1
       /\ NextBuffer(n).data = Append(old.data, item)
       /\ NextBuffer(n).bufferPixel = old.bufferPixel + 1
       /\ NextBuffer(n).level = HeaderWords + (k + 1) * PixelBlock
  BY <1>7, <1>8, <1>9, <1>10 DEF Buffer, OnlyNext
<1>13. QED BY <1>9, <1>11, <1>12 DEF h

---------------------------------------------------------------------------
(* WellFilled, restated for the two roles instead of the two buffers.      *)
LEMMA FilledRoles ==
  ASSUME NEW m \in Buffers(Pixel)
  PROVE  /\ ActiveBuffer(m) \in Buffer(Pixel) /\ NextBuffer(m) \in Buffer(Pixel)
         /\ WellFilled(m) <=>
              /\ m.size = BufferSize
              /\ BufferShape(ActiveBuffer(m)) /\ BufferShape(NextBuffer(m))
              /\ ActiveBuffer(m).done <=> ActiveBuffer(m).level = 0
              /\ \/ NextBuffer(m).bufferPixel = Len(NextBuffer(m).data)
                 \/ Buffers_Next_Full(m)
<1>1. m.active \in BufferIds /\ Buffers_Next(m) \in BufferIds
      /\ \A b \in BufferIds : b = m.active \/ b = Buffers_Next(m)
  BY NextBufferId
<1>2. ActiveBuffer(m) \in Buffer(Pixel) /\ NextBuffer(m) \in Buffer(Pixel)
  BY <1>1 DEF ActiveBuffer, NextBuffer, Buffers
<1>3. (\A b \in BufferIds : BufferShape(m.buffer[b]))
      <=> BufferShape(ActiveBuffer(m)) /\ BufferShape(NextBuffer(m))
  BY <1>1 DEF ActiveBuffer, NextBuffer
<1>4. QED BY <1>2, <1>3 DEF WellFilled, Buffers_Active_Done

(* Next is full exactly when it holds something and is filled up, or       *)
(* nothing more will come.                                                 *)
LEMMA NextFull ==
  ASSUME NEW m
  PROVE  Buffers_Next_Full(m) <=>
           /\ NextBuffer(m).level > 0
           /\ \/ NextBuffer(m).level >= m.size
              \/ m.numPixels > 0 /\ m.pixel >= m.numPixels
              \/ m.stopped
BY DEF Buffers_Next_Full, Buffers_Full, NextBuffer, Buffers_PixelsReceived

LEMMA ToggleFilled ==
  ASSUME NEW m \in Buffers(Pixel), WellFilled(m), Buffers_Active_Done(m),
         NextBuffer(m).level # 0
  PROVE  WellFilled(Buffers_Toggle(m))
<1> DEFINE t == Buffers_Toggle(m)
<1>1. t \in Buffers(Pixel)
  BY ToggleType
<1>2. /\ NextBuffer(t) = ActiveBuffer(m) /\ t.size = m.size
      /\ ActiveBuffer(t) = [NextBuffer(m) EXCEPT !.done = FALSE, !.next = 0]
  BY ToggleRoles
<1>3. /\ ActiveBuffer(t).done = FALSE
      /\ ActiveBuffer(t).level = NextBuffer(m).level
      /\ ActiveBuffer(t).data = NextBuffer(m).data
      /\ ActiveBuffer(t).bufferPixel = NextBuffer(m).bufferPixel
  BY <1>2, FilledRoles DEF Buffer
<1> HIDE DEF t
<1>4. /\ m.size = BufferSize /\ BufferShape(ActiveBuffer(m))
      /\ BufferShape(NextBuffer(m)) /\ ActiveBuffer(m).level = 0
  BY FilledRoles DEF Buffers_Active_Done
<1>5. BufferShape(ActiveBuffer(t)) /\ BufferShape(NextBuffer(t))
  BY <1>2, <1>3, <1>4 DEF BufferShape
<1>6. NextBuffer(t).bufferPixel = Len(NextBuffer(t).data)
  BY <1>2, <1>4 DEF BufferShape
<1>7. WellFilled(t)
  BY <1>1, <1>2, <1>3, <1>4, <1>5, <1>6, FilledRoles
<1>8. QED BY <1>7 DEF t

LEMMA UpdateFilled ==
  ASSUME NEW m \in Buffers(Pixel), WellFilled(m)
  PROVE  WellFilled(Buffers_Update(m))
<1>1. NextBuffer(m).level \in Nat
  BY FilledRoles DEF Buffer
<1>2. Buffers_Next_Full(m) => NextBuffer(m).level # 0
  BY <1>1, NextFull
<1>3. QED BY <1>2, ToggleFilled DEF Buffers_Update

LEMMA StopFilled ==
  ASSUME NEW m \in Buffers(Pixel), WellFilled(m)
  PROVE  WellFilled(Buffers_Stop(m))
<1> DEFINE s == [m EXCEPT !.stopped = TRUE]
<1>1. /\ s \in Buffers(Pixel) /\ s.size = m.size /\ s.stopped
      /\ ActiveBuffer(s) = ActiveBuffer(m) /\ NextBuffer(s) = NextBuffer(m)
  BY DEF Buffers, ActiveBuffer, NextBuffer, Buffers_Next
<1>2. Buffers_Stop(m) = IF NextBuffer(m).bufferPixel > 0 /\ Buffers_Active_Done(m)
                        THEN Buffers_Toggle(s) ELSE s
  BY DEF Buffers_Stop
<1> HIDE DEF s
<1>3. NextBuffer(m).level \in Nat /\ BufferShape(NextBuffer(m))
  BY FilledRoles DEF Buffer
<1>4. \/ NextBuffer(s).bufferPixel = Len(NextBuffer(s).data)
      \/ Buffers_Next_Full(s)
  <2>1. CASE NextBuffer(m).level = 0
    BY <2>1, <1>1, <1>3 DEF BufferShape
  <2>2. CASE NextBuffer(m).level # 0
    BY <2>2, <1>1, <1>3, NextFull
  <2>3. QED BY <2>1, <2>2
<1>5. WellFilled(s)
  BY <1>1, <1>4, FilledRoles
<1>6. NextBuffer(m).bufferPixel > 0 => NextBuffer(s).level # 0
  BY <1>1, <1>3 DEF BufferShape
<1>7. Buffers_Active_Done(m) <=> Buffers_Active_Done(s)
  BY <1>1 DEF Buffers_Active_Done
<1>8. QED BY <1>1, <1>2, <1>5, <1>6, <1>7, ToggleFilled

(* Handing the Active buffer back: it is empty and nobody's.               *)
LEMMA BufferDoneFilled ==
  ASSUME NEW m \in Buffers(Pixel), WellFilled(m), NEW b
  PROVE  WellFilled(Buffers_BufferDone(m, b))
<1> DEFINE c == Buffers_Active_Clear(m)
<1>1. c \in Buffers(Pixel)
  BY ClearType
<1>2. /\ NextBuffer(c) = NextBuffer(m) /\ ActiveBuffer(c) = EmptyBuffer
      /\ c.size = m.size /\ c.numPixels = m.numPixels /\ c.pixel = m.pixel
      /\ c.stopped = m.stopped
  BY NextBufferId DEF Buffers_Active_Clear, WithBuffer, NextBuffer, ActiveBuffer,
                      Buffers_Next, Buffers, BufferIds
<1> HIDE DEF c
<1>3. Buffers_Next_Full(c) <=> Buffers_Next_Full(m)
  BY <1>2, NextFull
<1>4. BufferShape(EmptyBuffer) /\ (EmptyBuffer.done <=> EmptyBuffer.level = 0)
  BY DEF BufferShape, EmptyBuffer
<1>5. WellFilled(c)
  BY <1>1, <1>2, <1>3, <1>4, FilledRoles
<1>6. QED BY <1>1, <1>5, UpdateFilled DEF Buffers_BufferDone, c

(* Reading and counting change neither contents nor ownership.             *)
LEMMA CopyOutFilled ==
  ASSUME NEW m \in Buffers(Pixel), WellFilled(m)
  PROVE  /\ WellFilled(Buffers_CopyOut(m))
         /\ WellFilled(Buffers_ClearOverruns(m)) /\ WellFilled(Buffers_Overrun(m))
<1>1. WellFilled(Buffers_CopyOut(m))
  <2> DEFINE c == Buffers_CopyOut(m)
  <2>1. c \in Buffers(Pixel)
    BY CountersType, ConstantsType
  <2>2. /\ NextBuffer(c) = NextBuffer(m)
        /\ ActiveBuffer(c) = [ActiveBuffer(m) EXCEPT !.next = ActiveBuffer(m).level]
        /\ c.size = m.size /\ c.numPixels = m.numPixels /\ c.pixel = m.pixel
        /\ c.stopped = m.stopped
    BY NextBufferId DEF Buffers_CopyOut, WithBuffer, NextBuffer, ActiveBuffer,
                        Buffers_Next, Buffers, BufferIds
  <2> HIDE DEF c
  <2>3. /\ ActiveBuffer(c).done = ActiveBuffer(m).done
        /\ ActiveBuffer(c).level = ActiveBuffer(m).level
        /\ ActiveBuffer(c).data = ActiveBuffer(m).data
        /\ ActiveBuffer(c).bufferPixel = ActiveBuffer(m).bufferPixel
    BY <2>2, FilledRoles DEF Buffer
  <2>4. Buffers_Next_Full(c) <=> Buffers_Next_Full(m)
    BY <2>2, NextFull
  <2>5. BufferShape(ActiveBuffer(c))
    BY <2>3, FilledRoles DEF BufferShape
  <2>6. WellFilled(c)
    BY <2>1, <2>2, <2>3, <2>4, <2>5, FilledRoles
  <2>7. QED BY <2>6 DEF c
<1>2. ASSUME NEW k \in Nat
      PROVE  WellFilled([m EXCEPT !.bufferOverruns = k])
  <2> DEFINE c == [m EXCEPT !.bufferOverruns = k]
  <2>1. /\ c \in Buffers(Pixel)
        /\ NextBuffer(c) = NextBuffer(m) /\ ActiveBuffer(c) = ActiveBuffer(m)
        /\ c.size = m.size /\ c.numPixels = m.numPixels /\ c.pixel = m.pixel
        /\ c.stopped = m.stopped
    BY DEF Buffers, NextBuffer, ActiveBuffer, Buffers_Next
  <2> HIDE DEF c
  <2>2. Buffers_Next_Full(c) <=> Buffers_Next_Full(m)
    BY <2>1, NextFull
  <2>3. WellFilled(c)
    BY <2>1, <2>2, FilledRoles
  <2>4. QED BY <2>3 DEF c
<1>3. m.bufferOverruns + 1 \in Nat
  BY DEF Buffers
<1>4. QED BY <1>1, <1>2, <1>3 DEF Buffers_ClearOverruns, Buffers_Overrun

(* A dropped pixel leaves the data alone; it can only make Next full.      *)
LEMMA DropFilled ==
  ASSUME NEW m \in Buffers(Pixel), WellFilled(m), NEW k \in Nat
  PROVE  WellFilled(Buffers_Drop(m, k))
<1> DEFINE c == Buffers_Drop(m, k)
<1>1. /\ c \in Buffers(Pixel) /\ OnlyNext(m, c) /\ c.pixel = m.pixel + k
      /\ NextBuffer(c) = [NextBuffer(m) EXCEPT !.drops = @ + k]
  BY CountersType, DropContents
<1> HIDE DEF c
<1>2. /\ NextBuffer(c).level = NextBuffer(m).level
      /\ NextBuffer(c).data = NextBuffer(m).data
      /\ NextBuffer(c).bufferPixel = NextBuffer(m).bufferPixel
  BY <1>1, FilledRoles DEF Buffer
<1>3. Buffers_Next_Full(m) => Buffers_Next_Full(c)
  <2>1. m.pixel \in Nat /\ m.numPixels \in Nat
    BY DEF Buffers
  <2>2. m.pixel >= m.numPixels => m.pixel + k >= m.numPixels
    BY <2>1
  <2>3. QED BY <1>1, <1>2, <2>2, NextFull DEF OnlyNext
<1>4. BufferShape(NextBuffer(c))
  BY <1>2, FilledRoles DEF BufferShape
<1>5. WellFilled(c)
  BY <1>1, <1>2, <1>3, <1>4, FilledRoles DEF OnlyNext
<1>6. QED BY <1>5 DEF c

(* An overrun is counted in a Next buffer that is, and stays, full.        *)
LEMMA OverrunFilled ==
  ASSUME NEW m \in Buffers(Pixel), WellFilled(m), Buffers_Next_Full(m)
  PROVE  WellFilled(Buffers_Pixel_Inc(m))
<1> DEFINE c == Buffers_Pixel_Inc(m)
<1>1. /\ c \in Buffers(Pixel) /\ OnlyNext(m, c) /\ c.pixel = m.pixel + 1
      /\ NextBuffer(c) = [NextBuffer(m) EXCEPT !.bufferPixel = @ + 1]
  BY CountersType, ConstantsType, PixelIncContents
<1> HIDE DEF c
<1>2. /\ NextBuffer(c).level = NextBuffer(m).level
      /\ NextBuffer(c).data = NextBuffer(m).data
  BY <1>1, FilledRoles DEF Buffer
<1>3. Buffers_Next_Full(c)
  <2>1. m.pixel \in Nat /\ m.numPixels \in Nat
    BY DEF Buffers
  <2>2. m.pixel >= m.numPixels => m.pixel + 1 >= m.numPixels
    BY <2>1
  <2>3. QED BY <1>1, <1>2, <2>2, NextFull DEF OnlyNext
<1>4. BufferShape(NextBuffer(c))
  <2>1. NextBuffer(m).level # 0
    BY NextFull, FilledRoles DEF Buffer
  <2>2. QED BY <1>2, <2>1, FilledRoles DEF BufferShape
<1>5. WellFilled(c)
  BY <1>1, <1>3, <1>4, FilledRoles DEF OnlyNext
<1>6. QED BY <1>5 DEF c

(* A stored pixel fills Next by exactly one pixel.                         *)
LEMMA StoreFilled ==
  ASSUME Mm1TypeOK, BuffersInv, ~Buffers_Next_Full(mmb)
  PROVE  /\ WellFilled(WithPixel(WithBufferHeader(mmb)))
         /\ NextBuffer(mmb).bufferPixel = Len(NextBuffer(mmb).data)
<1> DEFINE n == WithPixel(WithBufferHeader(mmb))
           k == Len(NextBuffer(mmb).data)
           item == [number |-> mmb.pixel, set |-> setId]
<1>1. mmb \in Buffers(Pixel) /\ n \in Buffers(Pixel) /\ WellFilled(mmb)
      /\ mmb.pixel \in Nat /\ setId \in Nat
  BY StoreType DEF Mm1TypeOK, BuffersInv, Buffers
<1>2. /\ OnlyNext(mmb, n)
      /\ NextBuffer(n).data = Append(NextBuffer(mmb).data, item)
      /\ NextBuffer(n).bufferPixel = NextBuffer(mmb).bufferPixel + 1
      /\ NextBuffer(n).level = HeaderWords + (k + 1) * PixelBlock
      /\ k + 1 \in 1 .. PixelsPerBuffer
  BY StoreContents
<1>3. NextBuffer(mmb).bufferPixel = k
  BY <1>1, FilledRoles
<1>4. NextBuffer(mmb).data \in Seq(Pixel) /\ item \in Pixel
  BY <1>1, FilledRoles DEF Buffer, Pixel
<1> HIDE DEF n, item
<1>5. Len(NextBuffer(n).data) = k + 1
  BY <1>2, <1>4
<1>6. NextBuffer(n).level # 0
  <2>1. k + 1 \in Nat
    BY <1>2, ConstantsType
  <2>2. QED BY <1>2, <2>1, Occupied
<1>7. BufferShape(NextBuffer(n))
  BY <1>2, <1>5, <1>6 DEF BufferShape
<1>8. NextBuffer(n).bufferPixel = Len(NextBuffer(n).data)
  BY <1>2, <1>3, <1>5
<1>9. WellFilled(n)
  BY <1>1, <1>2, <1>7, <1>8, FilledRoles DEF OnlyNext
<1>10. QED BY <1>3, <1>9 DEF n

LEMMA OpenFilled ==
  ASSUME NEW numPixels \in Nat
  PROVE  WellFilled(Buffers_Open(BufferSize, numPixels))
<1> DEFINE m == Buffers_Open(BufferSize, numPixels)
<1>1. m \in Buffers(Pixel)
  BY ConstantsType, OpenType
<1>2. m.size = BufferSize /\ ActiveBuffer(m) = EmptyBuffer /\ NextBuffer(m) = EmptyBuffer
  BY DEF Buffers_Open, ActiveBuffer, NextBuffer, Buffers_Next, BufferIds
<1>3. /\ BufferShape(EmptyBuffer) /\ (EmptyBuffer.done <=> EmptyBuffer.level = 0)
      /\ EmptyBuffer.bufferPixel = Len(EmptyBuffer.data)
  BY DEF BufferShape, EmptyBuffer
<1> HIDE DEF m
<1>4. WellFilled(m)
  BY <1>1, <1>2, <1>3, FilledRoles
<1>5. QED BY <1>4 DEF m

LEMMA BuffersStep ==
  Mm1TypeOK /\ BuffersInv /\ [Mm1Next]_vars => BuffersInv'
<1> SUFFICES ASSUME Mm1TypeOK, BuffersInv, [Mm1Next]_vars PROVE WellFilled(mmb')
  BY DEF BuffersInv
<1>1. mmb \in Buffers(Pixel) /\ WellFilled(mmb)
  BY DEF Mm1TypeOK, BuffersInv
<1>2. ASSUME NEW numPixels \in RunLengths, NEW advance, NEW outcome,
             StartRun(numPixels, advance, outcome)
      PROVE  WellFilled(mmb')
  <2>1. numPixels \in Nat
    BY Mm1Assumption
  <2>2. /\ WellFilled(Buffers_Open(BufferSize, numPixels))
        /\ Buffers_Open(BufferSize, numPixels) \in Buffers(Pixel)
    BY <2>1, OpenFilled, OpenType, ConstantsType
  <2>3. WellFilled(Buffers_Stop(Buffers_Open(BufferSize, numPixels)))
    BY <2>2, StopFilled
  <2>4. QED BY <1>2, <2>2, <2>3 DEF StartRun, Opened
<1>2a. CASE StartRun_NotSet
  BY <1>1, <1>2a, StopFilled DEF StartRun_NotSet
<1>3. ASSUME NEW sent \in BOOLEAN, StopRun_Send(sent)
      PROVE  WellFilled(mmb')
  BY <1>1, <1>3 DEF StopRun_Send
<1>4. ASSUME NEW ok \in BOOLEAN, StopRun_End(ok)
      PROVE  WellFilled(mmb')
  BY <1>1, <1>4, StopFilled DEF StopRun_End
<1>5. ASSUME NEW b \in BufferIds, ReadBuffer(b)
      PROVE  WellFilled(mmb')
  BY <1>1, <1>5, CopyOutFilled DEF ReadBuffer
<1>6. ASSUME NEW b \in BufferIds, BufferDone(b)
      PROVE  WellFilled(mmb')
  BY <1>1, <1>6, BufferDoneFilled DEF BufferDone
<1>7. CASE BufferOverrun
  BY <1>1, <1>7, CopyOutFilled DEF BufferOverrun
<1>8. CASE MappingPixelNext
  BY <1>1, <1>8 DEF MappingPixelNext
<1>9. CASE ReceiveChannelState
  BY <1>1, <1>9 DEF ReceiveChannelState
<1>10. ASSUME NEW wellFormed \in BOOLEAN, SkipHistogram(wellFormed)
       PROVE  WellFilled(mmb')
  BY <1>1, <1>10 DEF SkipHistogram
<1>11. CASE OverrunHistogram
  <2> DEFINE o == Buffers_Overrun(mmb)
  <2>1. o \in Buffers(Pixel) /\ WellFilled(o)
    BY <1>1, ConstantsType, CountersType, CopyOutFilled
  <2>2. Buffers_Next_Full(o) <=> Buffers_Next_Full(mmb)
    BY <1>1 DEF Buffers_Overrun, Buffers, Buffers_Next_Full, Buffers_Full,
                Buffers_Next, Buffers_PixelsReceived
  <2> HIDE DEF o
  <2>3. WellFilled(Buffers_Pixel_Inc(o))
    BY <1>11, <2>1, <2>2, OverrunFilled DEF OverrunHistogram
  <2>4. QED BY <1>11, <2>3 DEF OverrunHistogram, o
<1>12. CASE StoreHistogram
  <2>1. /\ WithPixel(WithBufferHeader(mmb)) \in Buffers(Pixel)
        /\ WellFilled(WithPixel(WithBufferHeader(mmb)))
    BY <1>12, StoreType, StoreFilled DEF StoreHistogram
  <2>2. QED BY <1>12, <2>1, UpdateFilled DEF StoreHistogram
<1>13. ASSUME NEW drops \in 1 .. MaxDrop, DroppedHistograms(drops)
       PROVE  WellFilled(mmb')
  <2>1. drops \in Nat
    BY Mm1Assumption
  <2>2. QED BY <1>1, <1>13, <2>1, DropFilled DEF DroppedHistograms
<1>14. CASE UNCHANGED vars
  BY <1>1, <1>14 DEF vars
<1>15. QED
  BY <1>2, <1>2a, <1>3, <1>4, <1>5, <1>6, <1>7, <1>8, <1>9, <1>10, <1>11, <1>12,
     <1>13, <1>14 DEF Mm1Next, UserNext, ReceiverNext

(* In every reachable state a buffer is empty or holds its header and at   *)
(* most PixelsPerBuffer whole pixels, and the user holds the Active buffer *)
(* exactly while there is something in it.                                 *)
THEOREM BuffersWellFilled == Mm1Spec => []BuffersInv
<1>1. Mm1Init => BuffersInv
  BY OpenFilled DEF Mm1Init, BuffersInv
<1>2. QED BY <1>1, InitType, StepType, BuffersStep, PTL DEF Mm1Spec

(* No buffer is ever written past its end, although the pixel header is    *)
(* written before any check of the room that is left.                      *)
THEOREM BuffersNeverOverfull == Mm1Spec => []NeverOverfull
<1>1. Mm1TypeOK /\ BuffersInv => NeverOverfull
  <2> SUFFICES ASSUME Mm1TypeOK, BuffersInv, NEW b \in BufferIds
               PROVE  mmb.buffer[b].level <= mmb.size
    BY DEF NeverOverfull
  <2> DEFINE buf == mmb.buffer[b]
  <2>1. buf \in Buffer(Pixel) /\ BufferShape(buf) /\ mmb.size = BufferSize
    BY DEF Mm1TypeOK, Buffers, BuffersInv, WellFilled
  <2> HIDE DEF buf
  <2>2. CASE buf.level = 0
    BY <2>1, <2>2, ConstantsType DEF buf
  <2>3. CASE buf.level # 0
    <3>1. Len(buf.data) \in Nat /\ Len(buf.data) <= PixelsPerBuffer
          /\ buf.level = HeaderWords + Len(buf.data) * PixelBlock
      BY <2>1, <2>3, ConstantsType DEF BufferShape, Buffer
    <3>2. QED BY <2>1, <3>1, Occupied DEF buf
  <2>4. QED BY <2>2, <2>3
<1>2. QED BY <1>1, Mm1TypeCorrect, BuffersWellFilled, PTL

LEMMA ActiveKeptStep ==
  Mm1TypeOK /\ BuffersInv /\ [Mm1Next]_vars => ActiveKept \/ UNCHANGED vars
<1> DEFINE Kept == /\ mmb'.active = mmb.active
                   /\ ActiveBuffer(mmb').data = ActiveBuffer(mmb).data
                   /\ ActiveBuffer(mmb').level = ActiveBuffer(mmb).level
                   /\ header'[mmb.active] = header[mmb.active]
<1> SUFFICES ASSUME Mm1TypeOK, BuffersInv, [Mm1Next]_vars, ~Buffers_Active_Done(mmb)
             PROVE  \/ released' > released \/ runs' > runs
                    \/ Kept
                    \/ UNCHANGED vars
  BY DEF ActiveKept
<1>1. /\ mmb \in Buffers(Pixel) /\ WellFilled(mmb) /\ ~ActiveBuffer(mmb).done
      /\ runs \in Nat /\ released \in Nat /\ header \in [BufferIds -> Header]
  BY DEF Mm1TypeOK, BuffersInv, Buffers_Active_Done
<1>2. /\ ActiveBuffer(mmb) \in Buffer(Pixel) /\ ActiveBuffer(mmb).level # 0
      /\ BufferShape(ActiveBuffer(mmb))
  BY <1>1, FilledRoles
<1>3. ASSUME NEW numPixels, NEW advance, NEW outcome,
             StartRun(numPixels, advance, outcome)
      PROVE  runs' > runs
  BY <1>1, <1>3 DEF StartRun
<1>3a. CASE StartRun_NotSet
  <2>1. header' = header /\ (mmb' = mmb \/ mmb' = [mmb EXCEPT !.stopped = TRUE])
    BY <1>1, <1>3a, NoToggleWhileHeld DEF StartRun_NotSet
  <2>2. QED BY <1>1, <2>1 DEF Buffers, ActiveBuffer
<1>4. ASSUME NEW sent \in BOOLEAN, StopRun_Send(sent)
      PROVE  Kept
  BY <1>4 DEF StopRun_Send
<1>5. ASSUME NEW ok, StopRun_End(ok)
      PROVE  Kept
  <2>1. mmb' = [mmb EXCEPT !.stopped = TRUE] /\ header' = header
    BY <1>1, <1>5, NoToggleWhileHeld DEF StopRun_End
  <2>2. QED BY <1>1, <2>1 DEF Buffers, ActiveBuffer
<1>6. ASSUME NEW b \in BufferIds, ReadBuffer(b)
      PROVE  Kept
  <2>1. /\ mmb'.active = mmb.active
        /\ ActiveBuffer(mmb') = [ActiveBuffer(mmb) EXCEPT !.next = ActiveBuffer(mmb).level]
    BY <1>1, <1>6, NextBufferId
       DEF ReadBuffer, Buffers_CopyOut, WithBuffer, ActiveBuffer, Buffers
  <2>2. header' = header
    BY <1>6 DEF ReadBuffer
  <2>3. QED BY <1>2, <2>1, <2>2 DEF Buffer
<1>7. ASSUME NEW b \in BufferIds, BufferDone(b)
      PROVE  released' > released \/ Kept
  <2>1. CASE b = mmb.active
    <3>1. Len(ActiveBuffer(mmb).data) \in Nat \ {0}
      BY <1>2, ConstantsType DEF BufferShape, Buffer
    <3>2. QED BY <1>1, <1>7, <2>1, <3>1 DEF BufferDone
  <2>2. CASE b # mmb.active
    BY <1>1, <1>7, <2>2, NoToggleWhileHeld DEF BufferDone, Buffers_BufferDone
  <2>3. QED BY <2>1, <2>2
<1>8. CASE BufferOverrun
  BY <1>1, <1>8 DEF BufferOverrun, Buffers_ClearOverruns, Buffers, ActiveBuffer
<1>9. CASE MappingPixelNext
  BY <1>9 DEF MappingPixelNext
<1>10. CASE ReceiveChannelState
  BY <1>10 DEF ReceiveChannelState
<1>11. ASSUME NEW wellFormed, SkipHistogram(wellFormed)
       PROVE  Kept
  BY <1>11 DEF SkipHistogram
<1>12. CASE OverrunHistogram
  <2> DEFINE o == Buffers_Overrun(mmb)
  <2>1. /\ o \in Buffers(Pixel) /\ o.active = mmb.active
        /\ ActiveBuffer(o) = ActiveBuffer(mmb)
    BY <1>1 DEF Buffers_Overrun, Buffers, ActiveBuffer
  <2> HIDE DEF o
  <2>2. OnlyNext(o, Buffers_Pixel_Inc(o))
    BY <2>1, PixelIncContents
  <2>3. mmb' = Buffers_Pixel_Inc(o) /\ header' = header
    BY <1>12 DEF OverrunHistogram, o
  <2>4. QED BY <2>1, <2>2, <2>3 DEF OnlyNext
<1>13. CASE StoreHistogram
  <2> DEFINE n == WithPixel(WithBufferHeader(mmb))
  <2>1. ~Buffers_Next_Full(mmb)
    BY <1>13 DEF StoreHistogram
  <2>2. n \in Buffers(Pixel) /\ OnlyNext(mmb, n)
    BY <2>1, StoreType, StoreContents
  <2>3. mmb' = Buffers_Update(n)
    BY <1>13 DEF StoreHistogram
  <2>4. header'[mmb.active] = header[mmb.active]
    BY <1>1, <1>13, NextBufferId DEF StoreHistogram
  <2> HIDE DEF n
  <2>5. ~Buffers_Active_Done(n)
    BY <1>1, <2>2 DEF OnlyNext, Buffers_Active_Done
  <2>6. mmb' = n
    BY <2>2, <2>3, <2>5, NoToggleWhileHeld
  <2>7. QED BY <2>2, <2>4, <2>6 DEF OnlyNext
<1>14. ASSUME NEW drops \in 1 .. MaxDrop, DroppedHistograms(drops)
       PROVE  Kept
  <2>1. drops \in Nat
    BY Mm1Assumption
  <2>2. mmb' = Buffers_Drop(mmb, drops) /\ header' = header
    BY <1>14 DEF DroppedHistograms
  <2>3. OnlyNext(mmb, mmb')
    BY <1>1, <2>1, <2>2, DropContents
  <2>4. QED BY <2>2, <2>3 DEF OnlyNext
<1>15. QED
  BY <1>3, <1>3a, <1>4, <1>5, <1>6, <1>7, <1>8, <1>9, <1>10, <1>11, <1>12, <1>13, <1>14
     DEF Mm1Next, UserNext, ReceiverNext

(* A buffer handed to the user stays Active and unchanged until buffer_done *)
(* or a new run, whatever the receiver thread does in between.             *)
THEOREM ActiveBelongsToUser == Mm1Spec => UserOwnsActive
<1>1. Mm1TypeOK /\ BuffersInv /\ [Mm1Next]_vars => [ActiveKept]_vars
  BY ActiveKeptStep
<1>2. QED BY <1>1, Mm1TypeCorrect, BuffersWellFilled, PTL DEF Mm1Spec, UserOwnsActive

---------------------------------------------------------------------------
(* The pixels in the two buffers, counted by buffer and by role.           *)
Stored(m) == Len(m.buffer[0].data) + Len(m.buffer[1].data)

LEMMA StoredByRole ==
  ASSUME NEW m \in Buffers(Pixel)
  PROVE  /\ Len(ActiveBuffer(m).data) \in Nat /\ Len(NextBuffer(m).data) \in Nat
         /\ Stored(m) = Len(ActiveBuffer(m).data) + Len(NextBuffer(m).data)
         /\ Stored(m) \in Nat
<1>1. m.buffer[0].data \in Seq(Pixel) /\ m.buffer[1].data \in Seq(Pixel)
  BY DEF Buffers, Buffer, BufferIds
<1>2. Len(m.buffer[0].data) \in Nat /\ Len(m.buffer[1].data) \in Nat
  BY <1>1
<1> DEFINE x == Len(m.buffer[0].data)
           y == Len(m.buffer[1].data)
<1>3. m.active = 0 \/ m.active = 1
  BY DEF Buffers, BufferIds
<1>4. \/ Len(ActiveBuffer(m).data) = x /\ Len(NextBuffer(m).data) = y
      \/ Len(ActiveBuffer(m).data) = y /\ Len(NextBuffer(m).data) = x
  BY <1>3 DEF ActiveBuffer, NextBuffer, Buffers_Next
<1>5. Stored(m) = x + y
  BY DEF Stored
<1>6. x \in Nat /\ y \in Nat
  BY <1>2 DEF x, y
<1> DEFINE a == Len(ActiveBuffer(m).data)
           n == Len(NextBuffer(m).data)
           s == Stored(m)
<1>7. (a = x /\ n = y) \/ (a = y /\ n = x)
  BY <1>4
<1>8. s = x + y
  BY <1>5
<1> HIDE DEF x, y, a, n, s
<1>9. a \in Nat /\ n \in Nat /\ s = a + n /\ s \in Nat
  BY <1>6, <1>7, <1>8
<1>10. QED BY <1>9 DEF a, n, s

LEMMA StoredSame ==
  ASSUME NEW m, NEW n, SameContents(m, n)
  PROVE  Stored(n) = Stored(m) /\ n.pixel = m.pixel
BY DEF SameContents, Stored, BufferIds

LEMMA StoredOnlyNext ==
  ASSUME NEW m \in Buffers(Pixel), NEW n \in Buffers(Pixel), OnlyNext(m, n),
         NEW k \in Nat, Len(NextBuffer(n).data) = Len(NextBuffer(m).data) + k
  PROVE  Stored(n) = Stored(m) + k
<1> DEFINE x == Len(ActiveBuffer(m).data)
           y == Len(NextBuffer(m).data)
<1>1. x \in Nat /\ y \in Nat /\ Stored(m) = x + y
  BY StoredByRole
<1>2. Stored(n) = Len(ActiveBuffer(n).data) + Len(NextBuffer(n).data)
  BY StoredByRole
<1>3. Len(ActiveBuffer(n).data) = x /\ Len(NextBuffer(n).data) = y + k
  BY DEF OnlyNext
<1> HIDE DEF x, y
<1>4. QED BY <1>1, <1>2, <1>3

LEMMA StoredOpen ==
  ASSUME NEW numPixels \in Nat
  PROVE  Stored(Buffers_Open(BufferSize, numPixels)) = 0
BY DEF Stored, Buffers_Open, EmptyBuffer, BufferIds

LEMMA StoredClear ==
  ASSUME NEW m \in Buffers(Pixel)
  PROVE  LET c == Buffers_Active_Clear(m)
         IN  /\ c \in Buffers(Pixel) /\ c.pixel = m.pixel
             /\ Stored(m) = Stored(c) + Len(ActiveBuffer(m).data)
<1> DEFINE c == Buffers_Active_Clear(m)
<1>1. c \in Buffers(Pixel)
  BY ClearType
<1>2. /\ c.pixel = m.pixel /\ ActiveBuffer(c) = EmptyBuffer
      /\ NextBuffer(c) = NextBuffer(m)
  BY NextBufferId
     DEF Buffers_Active_Clear, WithBuffer, ActiveBuffer, NextBuffer, Buffers_Next, Buffers
<1> HIDE DEF c
<1>3. Len(ActiveBuffer(c).data) = 0
  BY <1>2 DEF EmptyBuffer
<1>4. Stored(m) = Stored(c) + Len(ActiveBuffer(m).data)
  <2> DEFINE x == Len(ActiveBuffer(m).data)
             y == Len(NextBuffer(m).data)
  <2>1. x \in Nat /\ y \in Nat /\ Stored(m) = x + y
    BY StoredByRole
  <2>2. Stored(c) = 0 + y
    BY <1>1, <1>2, <1>3, StoredByRole
  <2> HIDE DEF x, y
  <2>3. Stored(m) = Stored(c) + x
    BY <2>1, <2>2
  <2>4. QED BY <2>3 DEF x
<1>5. QED BY <1>1, <1>2, <1>4 DEF c

(* Every action keeps the pixel count equal to what is stored and what has *)
(* left the buffers.                                                       *)
LEMMA AccountsStep ==
  Mm1TypeOK /\ BuffersInv /\ PixelsAccounted /\ [Mm1Next]_vars => PixelsAccounted'
<1> SUFFICES ASSUME Mm1TypeOK, BuffersInv, PixelsAccounted, [Mm1Next]_vars
             PROVE  mmb'.pixel = Stored(mmb') + released' + overrun' + dropped'
  BY DEF PixelsAccounted, Stored
<1>1. /\ mmb \in Buffers(Pixel)
      /\ released \in Nat /\ overrun \in Nat /\ dropped \in Nat
      /\ mmb.pixel \in Nat /\ Stored(mmb) \in Nat
      /\ mmb.pixel = Stored(mmb) + released + overrun + dropped
  <2>1. mmb \in Buffers(Pixel) /\ mmb.pixel \in Nat
    BY DEF Mm1TypeOK, Buffers
  <2>2. Stored(mmb) \in Nat
    BY <2>1, StoredByRole
  <2>3. mmb.pixel = Stored(mmb) + released + overrun + dropped
    BY DEF PixelsAccounted, Stored
  <2>4. QED BY <2>1, <2>2, <2>3 DEF Mm1TypeOK
<1>2. ASSUME NEW m, SameContents(mmb, m), mmb' = m,
             UNCHANGED <<released, overrun, dropped>>
      PROVE  mmb'.pixel = Stored(mmb') + released' + overrun' + dropped'
  BY <1>1, <1>2, StoredSame
<1>3. ASSUME NEW numPixels \in RunLengths, NEW advance, NEW outcome,
             StartRun(numPixels, advance, outcome)
      PROVE  mmb'.pixel = Stored(mmb') + released' + overrun' + dropped'
  <2> DEFINE m == Buffers_Open(BufferSize, numPixels)
  <2>1. numPixels \in Nat
    BY Mm1Assumption
  <2>2. m \in Buffers(Pixel) /\ m.pixel = 0 /\ Stored(m) = 0
    BY <2>1, ConstantsType, OpenType, StoredOpen DEF Buffers_Open
  <2> HIDE DEF m
  <2>3. Stored(Buffers_Stop(m)) = 0 /\ Buffers_Stop(m).pixel = 0
    BY <2>2, StopContents, StoredSame
  <2>4. mmb' = m \/ mmb' = Buffers_Stop(m)
    BY <1>3 DEF StartRun, Opened, m
  <2>5. released' = 0 /\ overrun' = 0 /\ dropped' = 0
    BY <1>3 DEF StartRun
  <2>6. QED BY <2>2, <2>3, <2>4, <2>5
<1>4. CASE StartRun_NotSet
  <2>1. SameContents(mmb, mmb) /\ SameContents(mmb, Buffers_Stop(mmb))
    BY <1>1, StopContents DEF SameContents
  <2>2. QED BY <1>2, <1>4, <2>1 DEF StartRun_NotSet
<1>5. ASSUME NEW sent \in BOOLEAN, StopRun_Send(sent)
      PROVE  mmb'.pixel = Stored(mmb') + released' + overrun' + dropped'
  BY <1>1, <1>5 DEF StopRun_Send
<1>6. ASSUME NEW ok \in BOOLEAN, StopRun_End(ok)
      PROVE  mmb'.pixel = Stored(mmb') + released' + overrun' + dropped'
  <2>1. SameContents(mmb, Buffers_Stop(mmb))
    BY <1>1, StopContents
  <2>2. QED BY <1>2, <1>6, <2>1 DEF StopRun_End
<1>7. ASSUME NEW b \in BufferIds, ReadBuffer(b)
      PROVE  mmb'.pixel = Stored(mmb') + released' + overrun' + dropped'
  <2>1. SameContents(mmb, Buffers_CopyOut(mmb))
    BY <1>1, NextBufferId
       DEF SameContents, Buffers_CopyOut, WithBuffer, ActiveBuffer, Buffers, Buffer
  <2>2. QED BY <1>2, <1>7, <2>1 DEF ReadBuffer
<1>8. ASSUME NEW b \in BufferIds, BufferDone(b)
      PROVE  mmb'.pixel = Stored(mmb') + released' + overrun' + dropped'
  <2> DEFINE c == IF b = mmb.active THEN Buffers_Active_Clear(mmb) ELSE mmb
             r == IF b = mmb.active THEN Len(ActiveBuffer(mmb).data) ELSE 0
  <2>1. SameContents(c, mmb')
    BY <1>1, <1>8, BufferDoneContents DEF BufferDone
  <2>2. r \in Nat /\ c.pixel = mmb.pixel /\ Stored(mmb) = Stored(c) + r
        /\ Stored(c) \in Nat
    <3>1. CASE b = mmb.active
      <4>1. c = Buffers_Active_Clear(mmb) /\ r = Len(ActiveBuffer(mmb).data)
        BY <3>1
      <4>2. r \in Nat
        BY <1>1, <4>1, StoredByRole
      <4>3. c \in Buffers(Pixel) /\ c.pixel = mmb.pixel /\ Stored(mmb) = Stored(c) + r
        BY <1>1, <4>1, StoredClear
      <4>4. Stored(c) \in Nat
        BY <4>3, StoredByRole
      <4>5. QED BY <4>2, <4>3, <4>4
    <3>2. CASE b # mmb.active
      BY <1>1, <3>2
    <3>3. QED BY <3>1, <3>2
  <2>3. released' = released + r /\ overrun' = overrun /\ dropped' = dropped
    BY <1>8 DEF BufferDone
  <2> HIDE DEF c, r
  <2>4. Stored(mmb') = Stored(c) /\ mmb'.pixel = c.pixel
    BY <2>1, StoredSame
  <2>5. QED BY <1>1, <2>2, <2>3, <2>4
<1>9. CASE BufferOverrun
  <2>1. SameContents(mmb, Buffers_ClearOverruns(mmb))
    BY <1>1 DEF SameContents, Buffers_ClearOverruns, Buffers
  <2>2. QED BY <1>2, <1>9, <2>1 DEF BufferOverrun
<1>10. CASE MappingPixelNext
  BY <1>1, <1>10 DEF MappingPixelNext
<1>11. CASE ReceiveChannelState
  BY <1>1, <1>11 DEF ReceiveChannelState
<1>12. ASSUME NEW wellFormed \in BOOLEAN, SkipHistogram(wellFormed)
       PROVE  mmb'.pixel = Stored(mmb') + released' + overrun' + dropped'
  BY <1>1, <1>12 DEF SkipHistogram
<1>13. CASE OverrunHistogram
  <2> DEFINE o == Buffers_Overrun(mmb)
             n == Buffers_Pixel_Inc(o)
  <2>1. o \in Buffers(Pixel) /\ SameContents(mmb, o)
    BY <1>1, CountersType DEF SameContents, Buffers_Overrun, Buffers
  <2>2. Stored(o) = Stored(mmb) /\ o.pixel = mmb.pixel
    BY <2>1, StoredSame
  <2>3. n = mmb' /\ overrun' = overrun + 1 /\ released' = released /\ dropped' = dropped
    BY <1>13 DEF OverrunHistogram
  <2> HIDE DEF o
  <2>4. /\ n \in Buffers(Pixel) /\ OnlyNext(o, n) /\ n.pixel = o.pixel + 1
        /\ NextBuffer(n) = [NextBuffer(o) EXCEPT !.bufferPixel = @ + 1]
    BY <2>1, CountersType, PixelIncContents
  <2> HIDE DEF n
  <2>5. NextBuffer(n).data = NextBuffer(o).data
    <3>1. NextBuffer(o) \in Buffer(Pixel)
      BY <2>1, FilledRoles
    <3>2. QED BY <2>4, <3>1 DEF Buffer
  <2>6. Stored(n) = Stored(o)
    BY <2>1, <2>4, <2>5, StoredByRole DEF OnlyNext
  <2>7. QED BY <1>1, <2>2, <2>3, <2>4, <2>6
<1>14. CASE StoreHistogram
  <2> DEFINE n == WithPixel(WithBufferHeader(mmb))
  <2>1. ~Buffers_Next_Full(mmb) /\ mmb' = Buffers_Update(n)
        /\ released' = released /\ overrun' = overrun /\ dropped' = dropped
    BY <1>14 DEF StoreHistogram
  <2>2. n \in Buffers(Pixel)
    BY StoreType
  <2>3. /\ OnlyNext(mmb, n) /\ n.pixel = mmb.pixel + 1
        /\ NextBuffer(n).data =
             Append(NextBuffer(mmb).data, [number |-> mmb.pixel, set |-> setId])
    BY <2>1, StoreContents
  <2> HIDE DEF n
  <2>4. Len(NextBuffer(n).data) = Len(NextBuffer(mmb).data) + 1
    <3>1. NextBuffer(mmb).data \in Seq(Pixel)
      BY <1>1, FilledRoles DEF Buffer
    <3>2. QED BY <2>3, <3>1
  <2>5. Stored(n) = Stored(mmb) + 1
    BY <1>1, <2>2, <2>3, <2>4, StoredOnlyNext
  <2>6. Stored(mmb') = Stored(n) /\ mmb'.pixel = n.pixel
    BY <2>1, <2>2, UpdateContents, StoredSame
  <2>7. QED BY <1>1, <2>1, <2>3, <2>5, <2>6
<1>15. ASSUME NEW drops \in 1 .. MaxDrop, DroppedHistograms(drops)
       PROVE  mmb'.pixel = Stored(mmb') + released' + overrun' + dropped'
  <2>1. drops \in Nat
    BY Mm1Assumption
  <2>2. /\ mmb' \in Buffers(Pixel) /\ OnlyNext(mmb, mmb') /\ mmb'.pixel = mmb.pixel + drops
        /\ NextBuffer(mmb') = [NextBuffer(mmb) EXCEPT !.drops = @ + drops]
    BY <1>1, <1>15, <2>1, CountersType, DropContents DEF DroppedHistograms
  <2>3. NextBuffer(mmb').data = NextBuffer(mmb).data
    <3>1. NextBuffer(mmb) \in Buffer(Pixel)
      BY <1>1, FilledRoles
    <3>2. QED BY <2>2, <3>1 DEF Buffer
  <2>4. Stored(mmb') = Stored(mmb)
    BY <1>1, <2>2, <2>3, StoredByRole DEF OnlyNext
  <2>5. dropped' = dropped + drops /\ released' = released /\ overrun' = overrun
    BY <1>15 DEF DroppedHistograms
  <2>6. QED BY <1>1, <2>1, <2>2, <2>4, <2>5
<1>16. CASE UNCHANGED vars
  BY <1>1, <1>16 DEF vars
<1>17. QED
  BY <1>3, <1>4, <1>5, <1>6, <1>7, <1>8, <1>9, <1>10, <1>11, <1>12, <1>13, <1>14, <1>15,
     <1>16 DEF Mm1Next, UserNext, ReceiverNext

(* No pixel is lost uncounted: every pixel the run has counted is in a     *)
(* buffer, was in one the user is done with, is an overrun or is a drop    *)
(* the device reported, whatever the sizes and the order of the calls.     *)
THEOREM AllPixelsAccounted == Mm1Spec => []PixelsAccounted
<1>1. Mm1Init => PixelsAccounted
  BY DEF Mm1Init, PixelsAccounted, Buffers_Open, EmptyBuffer, BufferIds
<1>2. QED
  BY <1>1, Mm1TypeCorrect, BuffersWellFilled, AccountsStep, PTL DEF Mm1Spec

---------------------------------------------------------------------------
(* What HeaderMatchesData asks of one buffer and its header.               *)
HeaderFits(buf, h) ==
  IF buf.level = 0 THEN buf.data = << >>
  ELSE /\ Len(buf.data) > 0
       /\ h.count = Len(buf.data)
       /\ h.words = buf.level
       /\ h.start = buf.data[1].number

LEMMA OpenEmpty ==
  ASSUME NEW size, NEW numPixels, NEW b \in BufferIds
  PROVE  /\ Buffers_Open(size, numPixels).buffer[b].level = 0
         /\ Buffers_Open(size, numPixels).buffer[b].data = << >>
BY DEF Buffers_Open, EmptyBuffer

(* Whatever leaves the contents of the buffers and the headers alone keeps *)
(* the headers fitting.                                                    *)
LEMMA HeaderSame ==
  ASSUME HeaderMatchesData, SameContents(mmb, mmb'), header' = header
  PROVE  HeaderMatchesData'
BY DEF HeaderMatchesData, SameContents

LEMMA HeaderOnlyNext ==
  ASSUME Mm1TypeOK, HeaderMatchesData, mmb' \in Buffers(Pixel), OnlyNext(mmb, mmb'),
         header'[mmb.active] = header[mmb.active],
         HeaderFits(NextBuffer(mmb'), header'[Buffers_Next(mmb)])
  PROVE  HeaderMatchesData'
<1>1. /\ mmb \in Buffers(Pixel) /\ mmb'.active = mmb.active
      /\ Buffers_Next(mmb') = Buffers_Next(mmb)
  BY DEF Mm1TypeOK, OnlyNext, Buffers_Next
<1>2. /\ mmb.active \in BufferIds
      /\ \A b \in BufferIds : b = mmb.active \/ b = Buffers_Next(mmb)
  BY <1>1, NextBufferId
<1>3. mmb'.buffer[mmb.active] = mmb.buffer[mmb.active]
      /\ mmb'.buffer[Buffers_Next(mmb)] = NextBuffer(mmb')
  BY <1>1 DEF OnlyNext, ActiveBuffer, NextBuffer
<1>4. HeaderFits(mmb.buffer[mmb.active], header[mmb.active])
  BY <1>2 DEF HeaderMatchesData, HeaderFits
<1>5. \A b \in BufferIds : HeaderFits(mmb'.buffer[b], header'[b])
  BY <1>2, <1>3, <1>4
<1>6. QED BY <1>5 DEF HeaderMatchesData, HeaderFits

(* The header that is written with a pixel counts it, and the words of its *)
(* buffer; it keeps the number of the first pixel, or is that pixel's.     *)
LEMMA StoredHeaderFits ==
  ASSUME Mm1TypeOK, BuffersInv, HeaderMatchesData, ~Buffers_Next_Full(mmb)
  PROVE  LET n == WithPixel(WithBufferHeader(mmb))
             h == header[Buffers_Next(mmb)]
         IN  HeaderFits(NextBuffer(n), UpdatedHeader(n, BufferHeader(mmb, h)))
<1> DEFINE n == WithPixel(WithBufferHeader(mmb))
           old == NextBuffer(mmb)
           k == Len(old.data)
           item == [number |-> mmb.pixel, set |-> setId]
           h == header[Buffers_Next(mmb)]
           g == BufferHeader(mmb, h)
           u == UpdatedHeader(n, g)
<1>1. /\ mmb \in Buffers(Pixel) /\ mmb.pixel \in Nat /\ setId \in Nat
      /\ Buffers_Next(mmb) \in BufferIds /\ header \in [BufferIds -> Header]
  BY NextBufferId DEF Mm1TypeOK, Buffers
<1>2. old \in Buffer(Pixel) /\ k \in Nat /\ item \in Pixel /\ item.number = mmb.pixel
      /\ BufferShape(old) /\ HeaderFits(old, h)
  BY <1>1, FilledRoles
     DEF Buffer, Pixel, BuffersInv, HeaderMatchesData, HeaderFits, NextBuffer
<1>3. /\ NextBuffer(n).data = Append(old.data, item)
      /\ NextBuffer(n).bufferPixel = old.bufferPixel + 1
      /\ NextBuffer(n).level = HeaderWords + (k + 1) * PixelBlock
  BY StoreContents
<1>4. old.bufferPixel = k
  BY StoreFilled
<1>5. h \in Header
  BY <1>1
<1>6. g \in Header /\ g.start = IF old.level = 0 THEN mmb.pixel ELSE h.start
  <2> HIDE DEF h
  <2>1. CASE old.level = 0
    <3>1. g = [NoHeader EXCEPT !.buffer = mmb.bufferNumber, !.start = mmb.pixel]
      BY <2>1 DEF BufferHeader
    <3>2. mmb.bufferNumber \in Nat
      BY <1>1 DEF Buffers
    <3> HIDE DEF g, old
    <3>3. QED BY <1>1, <2>1, <3>1, <3>2 DEF NoHeader, Header
  <2>2. CASE old.level # 0
    <3>1. g = h
      BY <2>2 DEF BufferHeader
    <3>2. QED BY <1>5, <2>2, <3>1
  <2>3. QED BY <2>1, <2>2
<1> HIDE DEF g, h
<1>7. /\ u.count = NextBuffer(n).bufferPixel /\ u.start = g.start
      /\ u.words = HeaderWords + PixelBlock * NextBuffer(n).bufferPixel
  BY <1>6 DEF UpdatedHeader, Header
<1> HIDE DEF n, item, u
<1>8. /\ Len(NextBuffer(n).data) = k + 1
      /\ NextBuffer(n).data[1] = IF k = 0 THEN item ELSE old.data[1]
  BY <1>2, <1>3 DEF Buffer
<1>9. k = 0 <=> old.level = 0
  BY <1>2, ConstantsType DEF BufferShape, Buffer
<1>10. u.start = NextBuffer(n).data[1].number
  BY <1>2, <1>6, <1>7, <1>8, <1>9 DEF HeaderFits
<1>11. u.count = Len(NextBuffer(n).data) /\ Len(NextBuffer(n).data) > 0
  BY <1>2, <1>3, <1>4, <1>7, <1>8
<1>12. u.words = NextBuffer(n).level
  <2>1. \A p, q \in Nat : p * q = q * p
    OBVIOUS
  <2>2. k + 1 \in Nat
    BY <1>2
  <2>3. PixelBlock * (k + 1) = (k + 1) * PixelBlock
    BY <2>1, <2>2, ConstantsType
  <2>4. QED BY <2>3, <1>3, <1>4, <1>7
<1>13. NextBuffer(n).level # 0
  <2>1. k + 1 \in Nat
    BY <1>2
  <2>2. HeaderWords + (k + 1) * PixelBlock \in Nat \ {0}
    BY <2>1, Occupied
  <2>3. QED BY <2>2, <1>3
<1>14. HeaderFits(NextBuffer(n), u)
  BY <1>10, <1>11, <1>12, <1>13 DEF HeaderFits
<1>15. QED BY <1>14 DEF n, u, g, h

LEMMA HeaderStep ==
  Mm1TypeOK /\ BuffersInv /\ HeaderMatchesData /\ [Mm1Next]_vars => HeaderMatchesData'
<1> SUFFICES ASSUME Mm1TypeOK, BuffersInv, HeaderMatchesData, [Mm1Next]_vars
             PROVE  HeaderMatchesData'
  OBVIOUS
<1>1. /\ mmb \in Buffers(Pixel) /\ mmb' \in Buffers(Pixel)
      /\ header \in [BufferIds -> Header]
      /\ Buffers_Next(mmb) \in BufferIds /\ Buffers_Next(mmb) # mmb.active
  BY StepType, NextBufferId DEF Mm1TypeOK
<1>2. HeaderFits(NextBuffer(mmb), header[Buffers_Next(mmb)])
  BY <1>1 DEF HeaderMatchesData, HeaderFits, NextBuffer
<1>3. ASSUME NEW numPixels \in RunLengths, NEW advance, NEW outcome,
             StartRun(numPixels, advance, outcome)
      PROVE  HeaderMatchesData'
  <2> DEFINE m == Buffers_Open(BufferSize, numPixels)
  <2>1. m \in Buffers(Pixel)
    BY Mm1Assumption, ConstantsType, OpenType
  <2>2. \A b \in BufferIds : m.buffer[b].level = 0 /\ m.buffer[b].data = << >>
    BY OpenEmpty
  <2>3. mmb' = m \/ mmb' = Buffers_Stop(m)
    BY <1>3 DEF StartRun, Opened
  <2> HIDE DEF m
  <2>4. \A b \in BufferIds : mmb'.buffer[b].level = 0 /\ mmb'.buffer[b].data = << >>
    BY <2>1, <2>2, <2>3, StopContents DEF SameContents
  <2>5. QED BY <2>4 DEF HeaderMatchesData
<1>4. CASE StartRun_NotSet
  <2>1. SameContents(mmb, mmb') /\ header' = header
    BY <1>1, <1>4, StopContents DEF StartRun_NotSet, SameContents
  <2>2. QED BY <2>1, HeaderSame
<1>5. ASSUME NEW sent \in BOOLEAN, StopRun_Send(sent)
      PROVE  HeaderMatchesData'
  BY <1>5 DEF StopRun_Send, HeaderMatchesData
<1>6. ASSUME NEW ok \in BOOLEAN, StopRun_End(ok)
      PROVE  HeaderMatchesData'
  BY <1>1, <1>6, StopContents, HeaderSame DEF StopRun_End
<1>7. ASSUME NEW b \in BufferIds, ReadBuffer(b)
      PROVE  HeaderMatchesData'
  <2>1. SameContents(mmb, Buffers_CopyOut(mmb))
    BY <1>1, NextBufferId
       DEF SameContents, Buffers_CopyOut, WithBuffer, ActiveBuffer, Buffers, Buffer
  <2>2. QED BY <1>7, <2>1, HeaderSame DEF ReadBuffer
<1>8. ASSUME NEW b \in BufferIds, BufferDone(b)
      PROVE  HeaderMatchesData'
  <2> DEFINE c == IF b = mmb.active THEN Buffers_Active_Clear(mmb) ELSE mmb
  <2>1. SameContents(c, mmb') /\ header' = header
    BY <1>1, <1>8, BufferDoneContents DEF BufferDone
  <2>2. \A d \in BufferIds : HeaderFits(c.buffer[d], header[d])
    <3>1. \A d \in BufferIds : \/ c.buffer[d] = mmb.buffer[d]
                               \/ c.buffer[d] = EmptyBuffer
      BY <1>1, NextBufferId DEF Buffers_Active_Clear, WithBuffer, Buffers
    <3>2. \A d \in BufferIds : HeaderFits(mmb.buffer[d], header[d])
      BY DEF HeaderMatchesData, HeaderFits
    <3>3. \A h : HeaderFits(EmptyBuffer, h)
      BY DEF HeaderFits, EmptyBuffer
    <3> HIDE DEF c
    <3>4. QED BY <3>1, <3>2, <3>3
  <2> HIDE DEF c
  <2>3. QED BY <2>1, <2>2 DEF SameContents, HeaderFits, HeaderMatchesData
<1>9. CASE BufferOverrun
  <2>1. SameContents(mmb, Buffers_ClearOverruns(mmb))
    BY <1>1 DEF SameContents, Buffers_ClearOverruns, Buffers
  <2>2. QED BY <1>9, <2>1, HeaderSame DEF BufferOverrun
<1>10. CASE MappingPixelNext
  BY <1>10 DEF MappingPixelNext, HeaderMatchesData
<1>11. CASE ReceiveChannelState
  BY <1>11 DEF ReceiveChannelState, HeaderMatchesData
<1>12. ASSUME NEW wellFormed \in BOOLEAN, SkipHistogram(wellFormed)
       PROVE  HeaderMatchesData'
  BY <1>12 DEF SkipHistogram, HeaderMatchesData
<1>13. CASE OverrunHistogram
  <2> DEFINE o == Buffers_Overrun(mmb)
  <2>1. /\ o \in Buffers(Pixel) /\ OnlyNext(mmb, o)
        /\ NextBuffer(o) = NextBuffer(mmb) /\ NextBuffer(o) \in Buffer(Pixel)
    BY <1>1, FilledRoles
       DEF Buffers_Overrun, Buffers, OnlyNext, ActiveBuffer, NextBuffer, Buffers_Next
  <2>2. mmb' = Buffers_Pixel_Inc(o) /\ header' = header
    BY <1>13 DEF OverrunHistogram
  <2> HIDE DEF o
  <2>3. /\ OnlyNext(o, mmb')
        /\ NextBuffer(mmb') = [NextBuffer(o) EXCEPT !.bufferPixel = @ + 1]
    BY <2>1, <2>2, PixelIncContents
  <2>4. OnlyNext(mmb, mmb')
    BY <2>1, <2>3 DEF OnlyNext
  <2>5. HeaderFits(NextBuffer(mmb'), header'[Buffers_Next(mmb)])
    BY <1>2, <2>1, <2>2, <2>3 DEF HeaderFits, Buffer
  <2>6. QED BY <1>1, <2>2, <2>4, <2>5, HeaderOnlyNext
<1>14. CASE StoreHistogram
  <2> DEFINE n == WithPixel(WithBufferHeader(mmb))
             nx == Buffers_Next(mmb)
             u == UpdatedHeader(n, BufferHeader(mmb, header[nx]))
  <2>1. ~Buffers_Next_Full(mmb) /\ mmb' = Buffers_Update(n)
        /\ header' = [header EXCEPT ![nx] = u]
    BY <1>14 DEF StoreHistogram
  <2>2. n \in Buffers(Pixel) /\ OnlyNext(mmb, n)
    BY <2>1, StoreType, StoreContents
  <2>3. HeaderFits(NextBuffer(n), u)
    BY <2>1, StoredHeaderFits
  <2> HIDE DEF n, u
  <2>4. header'[nx] = u /\ header'[mmb.active] = header[mmb.active]
    BY <1>1, <2>1
  <2>5. \A b \in BufferIds : HeaderFits(n.buffer[b], header'[b])
    <3>1. n.buffer[nx] = NextBuffer(n) /\ n.buffer[mmb.active] = mmb.buffer[mmb.active]
      BY <2>2 DEF OnlyNext, ActiveBuffer, NextBuffer, Buffers_Next
    <3>2. HeaderFits(mmb.buffer[mmb.active], header[mmb.active])
      BY <1>1, NextBufferId DEF HeaderMatchesData, HeaderFits
    <3>3. \A b \in BufferIds : b = mmb.active \/ b = nx
      BY <1>1, NextBufferId
    <3>4. QED BY <2>3, <2>4, <3>1, <3>2, <3>3
  <2>6. SameContents(n, mmb')
    BY <2>1, <2>2, UpdateContents
  <2>7. QED BY <2>5, <2>6 DEF SameContents, HeaderFits, HeaderMatchesData
<1>15. ASSUME NEW drops \in 1 .. MaxDrop, DroppedHistograms(drops)
       PROVE  HeaderMatchesData'
  <2>1. drops \in Nat
    BY Mm1Assumption
  <2>2. /\ header' = header /\ OnlyNext(mmb, mmb')
        /\ NextBuffer(mmb') = [NextBuffer(mmb) EXCEPT !.drops = @ + drops]
    BY <1>1, <1>15, <2>1, DropContents DEF DroppedHistograms
  <2>3. NextBuffer(mmb) \in Buffer(Pixel)
    BY <1>1, FilledRoles
  <2>4. HeaderFits(NextBuffer(mmb'), header'[Buffers_Next(mmb)])
    BY <1>2, <2>2, <2>3 DEF HeaderFits, Buffer
  <2>5. QED BY <1>1, <2>2, <2>4, HeaderOnlyNext
<1>16. CASE UNCHANGED vars
  BY <1>16 DEF vars, HeaderMatchesData
<1>17. QED
  BY <1>3, <1>4, <1>5, <1>6, <1>7, <1>8, <1>9, <1>10, <1>11, <1>12, <1>13, <1>14, <1>15,
     <1>16 DEF Mm1Next, UserNext, ReceiverNext

(* The XMAP header the user reads in a buffer always counts the pixels and *)
(* words that are stored there and names the first one, whatever overruns  *)
(* and drops came while the buffer was filled.                             *)
THEOREM HeadersMatchData == Mm1Spec => []HeaderMatchesData
<1>1. Mm1Init => HeaderMatchesData
  <2> DEFINE m == Buffers_Open(BufferSize, 0)
  <2>1. \A b \in BufferIds : m.buffer[b].level = 0 /\ m.buffer[b].data = << >>
    BY OpenEmpty
  <2>2. Mm1Init => mmb = m
    BY DEF Mm1Init
  <2> HIDE DEF m
  <2>3. QED BY <2>1, <2>2 DEF HeaderMatchesData
<1>2. QED
  BY <1>1, Mm1TypeCorrect, BuffersWellFilled, HeaderStep, PTL DEF Mm1Spec

---------------------------------------------------------------------------
(* The double buffer implements the first-in first-out stream.  What the   *)
(* stream calls pending depends on the roles of the buffers only, so that  *)
(* exchanging them is a stuttering step.                                   *)
UnreadOf(m)  == IF ActiveBuffer(m).next = 0 THEN ActiveBuffer(m).data ELSE << >>
PendingOf(m) == UnreadOf(m) \o NextBuffer(m).data

LEMMA PendingType ==
  ASSUME NEW m \in Buffers(Pixel), WellFilled(m)
  PROVE  /\ UnreadOf(m) \in Seq(Pixel) /\ NextBuffer(m).data \in Seq(Pixel)
         /\ PendingOf(m) \in Seq(Pixel)
         /\ Len(UnreadOf(m)) \in 0 .. PixelsPerBuffer
         /\ Len(PendingOf(m)) = Len(UnreadOf(m)) + Len(NextBuffer(m).data)
<1>1. /\ ActiveBuffer(m) \in Buffer(Pixel) /\ NextBuffer(m) \in Buffer(Pixel)
      /\ BufferShape(ActiveBuffer(m))
  BY FilledRoles
<1>2. UnreadOf(m) \in Seq(Pixel) /\ NextBuffer(m).data \in Seq(Pixel)
  BY <1>1 DEF UnreadOf, Buffer
<1>3. UnreadOf(m) = << >> \/ Len(UnreadOf(m)) \in 1 .. PixelsPerBuffer
  BY <1>1 DEF UnreadOf, BufferShape
<1>4. Len(UnreadOf(m)) \in 0 .. PixelsPerBuffer
  BY <1>3, ConstantsType
<1>5. QED BY <1>2, <1>4, ConcatProperties DEF PendingOf

LEMMA PendingToggle ==
  ASSUME NEW m \in Buffers(Pixel), WellFilled(m), Buffers_Active_Done(m)
  PROVE  /\ UnreadOf(m) = << >> /\ PendingOf(Buffers_Toggle(m)) = PendingOf(m)
<1> DEFINE t == Buffers_Toggle(m)
<1>1. /\ NextBuffer(t) = ActiveBuffer(m)
      /\ ActiveBuffer(t) = [NextBuffer(m) EXCEPT !.done = FALSE, !.next = 0]
  BY ToggleRoles
<1>2. ActiveBuffer(t).next = 0 /\ ActiveBuffer(t).data = NextBuffer(m).data
  BY <1>1, FilledRoles DEF Buffer
<1> HIDE DEF t
<1>3. ActiveBuffer(m).data = << >>
  BY FilledRoles DEF Buffers_Active_Done, BufferShape
<1>4. UnreadOf(m) = << >>
  BY <1>3 DEF UnreadOf
<1>5. NextBuffer(m).data \in Seq(Pixel)
  BY FilledRoles DEF Buffer
<1>6. PendingOf(m) = << >> \o NextBuffer(m).data
  BY <1>4 DEF PendingOf
<1>7. PendingOf(t) = NextBuffer(m).data \o << >>
  BY <1>1, <1>2, <1>3 DEF PendingOf, UnreadOf
<1>8. PendingOf(t) = PendingOf(m)
  BY <1>5, <1>6, <1>7, ConcatEmptySeq
<1>9. QED BY <1>4, <1>8 DEF t

LEMMA PendingUpdate ==
  ASSUME NEW m \in Buffers(Pixel), WellFilled(m)
  PROVE  PendingOf(Buffers_Update(m)) = PendingOf(m)
BY PendingToggle DEF Buffers_Update

LEMMA PendingStop ==
  ASSUME NEW m \in Buffers(Pixel), WellFilled(m)
  PROVE  PendingOf(Buffers_Stop(m)) = PendingOf(m)
<1> DEFINE s == [m EXCEPT !.stopped = TRUE]
<1>1. /\ s \in Buffers(Pixel) /\ s.size = m.size /\ s.stopped
      /\ s.numPixels = m.numPixels /\ s.pixel = m.pixel
      /\ ActiveBuffer(s) = ActiveBuffer(m) /\ NextBuffer(s) = NextBuffer(m)
  BY DEF Buffers, ActiveBuffer, NextBuffer, Buffers_Next
<1>2. Buffers_Stop(m) = IF NextBuffer(m).bufferPixel > 0 /\ Buffers_Active_Done(m)
                        THEN Buffers_Toggle(s) ELSE s
  BY DEF Buffers_Stop
<1> HIDE DEF s
<1>3. PendingOf(s) = PendingOf(m)
  BY <1>1 DEF PendingOf, UnreadOf
<1>4. WellFilled(s)
  <2>1. Buffers_Next_Full(m) => Buffers_Next_Full(s)
    BY <1>1, NextFull
  <2>2. QED BY <1>1, <2>1, FilledRoles
<1>5. Buffers_Active_Done(m) => Buffers_Active_Done(s)
  BY <1>1 DEF Buffers_Active_Done
<1>6. QED BY <1>1, <1>2, <1>3, <1>4, <1>5, PendingToggle

(* A stored pixel joins the end of what is pending.                        *)
LEMMA PendingStore ==
  ASSUME Mm1TypeOK, BuffersInv, ~Buffers_Next_Full(mmb)
  PROVE  LET n == WithPixel(WithBufferHeader(mmb))
             item == [number |-> mmb.pixel, set |-> setId]
         IN  /\ PendingOf(Buffers_Update(n)) = Append(PendingOf(mmb), item)
             /\ Len(PendingOf(mmb)) < 2 * PixelsPerBuffer
<1> DEFINE n == WithPixel(WithBufferHeader(mmb))
           item == [number |-> mmb.pixel, set |-> setId]
           d == NextBuffer(mmb).data
           a == UnreadOf(mmb)
<1>1. mmb \in Buffers(Pixel) /\ WellFilled(mmb) /\ item \in Pixel
  BY DEF Mm1TypeOK, BuffersInv, Buffers, Pixel
<1>2. /\ OnlyNext(mmb, n) /\ NextBuffer(n).data = Append(d, item)
      /\ Len(d) + 1 \in 1 .. PixelsPerBuffer
  BY StoreContents
<1>3. n \in Buffers(Pixel) /\ WellFilled(n)
  BY StoreType, StoreFilled
<1>4. /\ a \in Seq(Pixel) /\ d \in Seq(Pixel) /\ Len(a) \in 0 .. PixelsPerBuffer
      /\ Len(PendingOf(mmb)) = Len(a) + Len(d)
  BY <1>1, PendingType
<1> HIDE DEF n, item
<1>5. UnreadOf(n) = a
  BY <1>2 DEF OnlyNext, UnreadOf
<1> HIDE DEF a, d
<1>6. PendingOf(n) = a \o Append(d, item) /\ PendingOf(mmb) = a \o d
  BY <1>2, <1>5 DEF PendingOf, a, d
<1>7. a \o Append(d, item) = Append(a \o d, item)
  <2>1. Append(d, item) = d \o <<item>> /\ <<item>> \in Seq(Pixel)
    BY <1>1, <1>4, AppendIsConcat
  <2>2. a \o d \in Seq(Pixel)
    BY <1>4, ConcatProperties
  <2>3. Append(a \o d, item) = (a \o d) \o <<item>>
    BY <1>1, <2>2, AppendIsConcat
  <2>4. QED BY <1>4, <2>1, <2>3, ConcatAssociative
<1>8. PendingOf(Buffers_Update(n)) = Append(PendingOf(mmb), item)
  BY <1>3, <1>6, <1>7, PendingUpdate
<1>9. Len(PendingOf(mmb)) < 2 * PixelsPerBuffer
  <2>1. Len(d) \in Nat
    BY <1>4
  <2>2. QED BY <1>2, <1>4, <2>1, ConstantsType
<1>10. QED BY <1>8, <1>9 DEF n, item

(* A reading hands over all that is unread; buffer_done for the Active     *)
(* buffer discards it.                                                     *)
LEMMA PendingRead ==
  ASSUME NEW m \in Buffers(Pixel), WellFilled(m)
  PROVE  PendingOf(Buffers_CopyOut(m)) = NextBuffer(m).data
<1> DEFINE c == Buffers_CopyOut(m)
<1>1. /\ NextBuffer(c) = NextBuffer(m)
      /\ ActiveBuffer(c) = [ActiveBuffer(m) EXCEPT !.next = ActiveBuffer(m).level]
  BY NextBufferId DEF Buffers_CopyOut, WithBuffer, NextBuffer, ActiveBuffer,
                      Buffers_Next, Buffers, BufferIds
<1> HIDE DEF c
<1>2. /\ ActiveBuffer(c).next = ActiveBuffer(m).level
      /\ ActiveBuffer(c).data = ActiveBuffer(m).data
  BY <1>1, FilledRoles DEF Buffer
<1>3. UnreadOf(c) = << >>
  BY <1>2, FilledRoles DEF UnreadOf, BufferShape
<1>4. NextBuffer(m).data \in Seq(Pixel)
  BY FilledRoles DEF Buffer
<1>5. PendingOf(c) = NextBuffer(m).data
  BY <1>1, <1>3, <1>4, ConcatEmptySeq DEF PendingOf
<1>6. QED BY <1>5 DEF c

LEMMA PendingDone ==
  ASSUME NEW m \in Buffers(Pixel), WellFilled(m), NEW b
  PROVE  PendingOf(Buffers_BufferDone(m, b)) =
           IF b = m.active THEN NextBuffer(m).data ELSE PendingOf(m)
<1> DEFINE c == Buffers_Active_Clear(m)
<1>1. c \in Buffers(Pixel)
  BY ClearType
<1>2. /\ NextBuffer(c) = NextBuffer(m) /\ ActiveBuffer(c) = EmptyBuffer
      /\ c.size = m.size /\ c.numPixels = m.numPixels /\ c.pixel = m.pixel
      /\ c.stopped = m.stopped
  BY NextBufferId DEF Buffers_Active_Clear, WithBuffer, NextBuffer, ActiveBuffer,
                      Buffers_Next, Buffers, BufferIds
<1> HIDE DEF c
<1>3. WellFilled(c)
  <2>1. Buffers_Next_Full(c) <=> Buffers_Next_Full(m)
    BY <1>2, NextFull
  <2>2. BufferShape(EmptyBuffer) /\ (EmptyBuffer.done <=> EmptyBuffer.level = 0)
    BY DEF BufferShape, EmptyBuffer
  <2>3. QED BY <1>1, <1>2, <2>1, <2>2, FilledRoles
<1>4. UnreadOf(c) = << >>
  BY <1>2 DEF UnreadOf, EmptyBuffer
<1>5. NextBuffer(m).data \in Seq(Pixel)
  BY FilledRoles DEF Buffer
<1>6. PendingOf(c) = NextBuffer(m).data
  BY <1>2, <1>4, <1>5, ConcatEmptySeq DEF PendingOf
<1>7. QED BY <1>1, <1>3, <1>6, PendingUpdate DEF Buffers_BufferDone, c

(* What each abstract step takes, in terms of the buffers.                 *)
LEMMA StreamStutter ==
  ASSUME PendingOf(mmb') = PendingOf(mmb), delivered' = delivered
  PROVE  UNCHANGED Stream!streamVars
BY DEF Stream!streamVars, PendingOf, UnreadOf, Unread

(* Everything that is unread leaves the stream at once: to the user, or,   *)
(* when the buffer is given back unread, to nobody.                        *)
LEMMA StreamTakes ==
  ASSUME Mm1TypeOK, BuffersInv, PendingOf(mmb') = NextBuffer(mmb).data,
         delivered' = delivered \o UnreadOf(mmb) \/ delivered' = delivered
  PROVE  [Stream!StreamNext]_(Stream!streamVars)
<1> DEFINE u == UnreadOf(mmb)
           d == NextBuffer(mmb).data
           k == Len(u)
<1>1. mmb \in Buffers(Pixel) /\ WellFilled(mmb) /\ delivered \in Seq(Pixel)
  BY DEF Mm1TypeOK, BuffersInv
<1>2. u \in Seq(Pixel) /\ d \in Seq(Pixel) /\ k \in Nat
      /\ PendingOf(mmb) = u \o d /\ Len(u \o d) = k + Len(d)
  BY <1>1, PendingType, ConcatProperties DEF PendingOf
<1> HIDE DEF u, d
<1>3. CASE k = 0
  <2>1. u = << >>
    BY <1>2, <1>3, EmptySeq
  <2>2. u \o d = d /\ delivered \o u = delivered
    BY <1>1, <1>2, <2>1, ConcatEmptySeq
  <2>3. PendingOf(mmb') = PendingOf(mmb) /\ delivered' = delivered
    BY <1>2, <2>2 DEF u, d
  <2>4. QED BY <2>3, StreamStutter
<1>4. CASE k # 0
  <2>1. SubSeq(u \o d, 1, k) = u /\ SubSeq(u \o d, k + 1, Len(u \o d)) = d
    BY <1>2, SplitConcat
  <2>2. k \in 1 .. Len(u \o d)
    BY <1>2, <1>4
  <2>3. Unread \o NextBuffer(mmb).data = u \o d
        /\ (Unread \o NextBuffer(mmb).data)' = d
    BY <1>2 DEF PendingOf, UnreadOf, Unread, u, d
  <2>4. CASE delivered' = delivered \o u
    <3>1. Stream!HandOver(k)
      BY <2>1, <2>3, <2>4 DEF Stream!HandOver, Stream!Rest
    <3>2. QED BY <2>2, <2>3, <3>1 DEF Stream!StreamNext
  <2>5. CASE delivered' = delivered
    <3>1. Stream!Discard(k)
      BY <2>1, <2>3, <2>5 DEF Stream!Discard, Stream!Rest
    <3>2. QED BY <2>2, <2>3, <3>1 DEF Stream!StreamNext
  <2>6. QED BY <2>4, <2>5 DEF u
<1>5. QED BY <1>3, <1>4

(* Every step of the channel is a step of the stream, or none.             *)
LEMMA StreamStep ==
  Mm1TypeOK /\ BuffersInv /\ [Mm1Next]_vars => [Stream!StreamNext]_(Stream!streamVars)
<1> SUFFICES ASSUME Mm1TypeOK, BuffersInv, [Mm1Next]_vars
             PROVE  [Stream!StreamNext]_(Stream!streamVars)
  OBVIOUS
<1>1. mmb \in Buffers(Pixel) /\ WellFilled(mmb) /\ delivered \in Seq(Pixel)
  BY DEF Mm1TypeOK, BuffersInv
<1>2. ASSUME NEW numPixels \in RunLengths, NEW advance, NEW outcome,
             StartRun(numPixels, advance, outcome)
      PROVE  [Stream!StreamNext]_(Stream!streamVars)
  <2> DEFINE m == Buffers_Open(BufferSize, numPixels)
  <2>1. m \in Buffers(Pixel) /\ WellFilled(m)
    BY Mm1Assumption, ConstantsType, OpenType, OpenFilled
  <2>2. PendingOf(m) = << >>
    BY OpenEmpty
       DEF PendingOf, UnreadOf, ActiveBuffer, NextBuffer, Buffers_Next, Buffers_Open,
           EmptyBuffer, BufferIds
  <2>3. (mmb' = m \/ mmb' = Buffers_Stop(m)) /\ delivered' = << >>
    BY <1>2 DEF StartRun, Opened
  <2> HIDE DEF m
  <2>4. PendingOf(mmb') = << >>
    BY <2>1, <2>2, <2>3, PendingStop
  <2>5. Stream!NewRun
    BY <2>3, <2>4 DEF Stream!NewRun, PendingOf, UnreadOf, Unread
  <2>6. QED BY <2>5 DEF Stream!StreamNext
<1>3. CASE StartRun_NotSet
  BY <1>1, <1>3, PendingStop, StreamStutter DEF StartRun_NotSet
<1>4. ASSUME NEW sent \in BOOLEAN, StopRun_Send(sent)
      PROVE  UNCHANGED Stream!streamVars
  BY <1>4, StreamStutter DEF StopRun_Send
<1>5. ASSUME NEW ok \in BOOLEAN, StopRun_End(ok)
      PROVE  UNCHANGED Stream!streamVars
  BY <1>1, <1>5, PendingStop, StreamStutter DEF StopRun_End
<1>6. ASSUME NEW b \in BufferIds, ReadBuffer(b)
      PROVE  [Stream!StreamNext]_(Stream!streamVars)
  BY <1>1, <1>6, PendingRead, StreamTakes DEF ReadBuffer, UnreadOf
<1>7. ASSUME NEW b \in BufferIds, BufferDone(b)
      PROVE  [Stream!StreamNext]_(Stream!streamVars)
  BY <1>1, <1>7, PendingDone, StreamTakes, StreamStutter DEF BufferDone
<1>8. CASE BufferOverrun
  <2>1. PendingOf(Buffers_ClearOverruns(mmb)) = PendingOf(mmb)
    BY <1>1 DEF Buffers_ClearOverruns, PendingOf, UnreadOf, ActiveBuffer, NextBuffer,
                Buffers_Next, Buffers
  <2>2. QED BY <1>8, <2>1, StreamStutter DEF BufferOverrun
<1>9. CASE MappingPixelNext
  BY <1>9, StreamStutter DEF MappingPixelNext
<1>10. CASE ReceiveChannelState
  BY <1>10, StreamStutter DEF ReceiveChannelState
<1>11. ASSUME NEW wellFormed \in BOOLEAN, SkipHistogram(wellFormed)
       PROVE  UNCHANGED Stream!streamVars
  BY <1>11, StreamStutter DEF SkipHistogram
<1>12. CASE OverrunHistogram
  <2> DEFINE o == Buffers_Overrun(mmb)
  <2>0. /\ o \in Buffers(Pixel)
        /\ ActiveBuffer(o) = ActiveBuffer(mmb) /\ NextBuffer(o) = NextBuffer(mmb)
    BY <1>1 DEF Buffers_Overrun, ActiveBuffer, NextBuffer, Buffers_Next, Buffers
  <2>1. PendingOf(o) = PendingOf(mmb)
    BY <2>0 DEF PendingOf, UnreadOf
  <2>2. mmb' = Buffers_Pixel_Inc(o) /\ delivered' = delivered
    BY <1>12 DEF OverrunHistogram
  <2> HIDE DEF o
  <2>3. PendingOf(mmb') = PendingOf(o)
    <3>1. OnlyNext(o, mmb') /\ NextBuffer(mmb').data = NextBuffer(o).data
      BY <2>0, <2>2, PixelIncContents, FilledRoles DEF Buffer
    <3>2. QED BY <3>1 DEF OnlyNext, PendingOf, UnreadOf
  <2>4. QED BY <2>1, <2>2, <2>3, StreamStutter
<1>13. CASE StoreHistogram
  <2> DEFINE item == [number |-> mmb.pixel, set |-> setId]
             p == PendingOf(mmb)
  <2>1. /\ PendingOf(mmb') = Append(p, item)
        /\ Len(p) < 2 * PixelsPerBuffer /\ delivered' = delivered
    BY <1>13, PendingStore DEF StoreHistogram
  <2>2. p \in Seq(Pixel) /\ item \in Pixel
    BY <1>1, PendingType DEF Mm1TypeOK, Pixel, Buffers
  <2>3. /\ Unread \o NextBuffer(mmb).data = p
        /\ (Unread \o NextBuffer(mmb).data)' = Append(p, item)
    BY <2>1 DEF PendingOf, UnreadOf, Unread
  <2> HIDE DEF p, item
  <2>4. Append(p, item) # << >> /\ Append(p, item)[Len(Append(p, item))] = item
    BY <2>2, AppendProperties
  <2>5. Stream!Store
    BY <2>1, <2>3, <2>4 DEF Stream!Store
  <2>6. QED BY <2>5 DEF Stream!StreamNext
<1>14. ASSUME NEW drops \in 1 .. MaxDrop, DroppedHistograms(drops)
       PROVE  UNCHANGED Stream!streamVars
  <2>1. drops \in Nat
    BY Mm1Assumption
  <2>2. mmb' = Buffers_Drop(mmb, drops) /\ delivered' = delivered
    BY <1>14 DEF DroppedHistograms
  <2>3. OnlyNext(mmb, mmb') /\ NextBuffer(mmb').data = NextBuffer(mmb).data
    BY <1>1, <2>1, <2>2, DropContents, FilledRoles DEF Buffer
  <2>4. PendingOf(mmb') = PendingOf(mmb)
    BY <2>3 DEF OnlyNext, PendingOf, UnreadOf
  <2>5. QED BY <2>2, <2>4, StreamStutter
<1>15. CASE UNCHANGED vars
  BY <1>15, StreamStutter DEF vars
<1>16. QED
  BY <1>2, <1>3, <1>4, <1>5, <1>6, <1>7, <1>8, <1>9, <1>10, <1>11, <1>12, <1>13, <1>14,
     <1>15 DEF Mm1Next, UserNext, ReceiverNext

(* The two buffers, for every size, are a bounded first-in first-out       *)
(* stream: a stored pixel is handed to the user at most once, in the order *)
(* of arrival, and is lost only when the user gives a buffer back unread   *)
(* or starts a new run.                                                    *)
THEOREM BuffersAreAStream == Mm1Spec => StreamSafety
<1>1. Mm1Init => Stream!StreamInit
  <2> SUFFICES ASSUME Mm1Init PROVE Stream!StreamInit
    OBVIOUS
  <2>1. ActiveBuffer(mmb).data = << >> /\ NextBuffer(mmb).data = << >>
    BY DEF Mm1Init, ActiveBuffer, NextBuffer, Buffers_Next, Buffers_Open, EmptyBuffer,
           BufferIds
  <2>2. Unread \o NextBuffer(mmb).data = << >>
    BY <2>1 DEF Unread
  <2>3. delivered = << >>
    BY DEF Mm1Init
  <2>4. QED BY <2>2, <2>3 DEF Stream!StreamInit
<1>2. QED
  BY <1>1, Mm1TypeCorrect, BuffersWellFilled, StreamStep, PTL
     DEF Mm1Spec, StreamSafety, Stream!StreamSpec

---------------------------------------------------------------------------
(* The read-out loop of hd-mm1.c.  What it asks of the channel at each     *)
(* call, what it has read, and when the pixels are all in.                 *)

Polling == {"run_active", "pixel_next", "buffer_full", "buffer_overrun", "buffer",
            "buffer_done", "last_full"}
Ending  == {"stop", "stopping", "finished"}

ReaderTypes ==
  /\ pc \in {"start", "loop"} \union Polling \union Ending \union Failures
  /\ current \in BufferIds /\ anyRunning \in BOOLEAN /\ anyFull \in BOOLEAN

(* The channel is in the run from the loop's second call on.               *)
LoopInRun ==
  /\ pc = "start" => channelState = "Ready" /\ commands = << >>
  /\ pc = "loop" =>
       /\ mode = "MCA_FSM" /\ commands \in {<< >>, <<"start">>}
       /\ commands = << >> => channelState = "Histogram"
  /\ pc \in Polling =>
       mode = "MCA_FSM" /\ commands = << >> /\ channelState = "Histogram"

(* What was read was given back, but for the buffer in hand; and the loop  *)
(* holds the buffer it was told is full.                                   *)
ReadReleased ==
  pc \notin Failures =>
    /\ IF pc = "buffer_done"
       THEN /\ current = mmb.active /\ ActiveBuffer(mmb).level # 0
            /\ Len(delivered) = released + Len(ActiveBuffer(mmb).data)
       ELSE ActiveBuffer(mmb).next = 0 /\ Len(delivered) = released
    /\ pc = "buffer" \/ (pc = "buffer_overrun" /\ anyFull) =>
         mmb.buffer[current].level # 0

(* Every overrun is still to be reported.                                  *)
LossSeen == pc \notin Failures => overrun = mmb.bufferOverruns

NotPastEnd == mmb.numPixels > 0 /\ dropped = 0 => mmb.pixel <= mmb.numPixels

(* Once the run is found over, the loop goes through the buffers that are  *)
(* left and loses no pixel.                                                *)
LastPolls ==
  mmb.numPixels > 0 /\ dropped = 0 =>
    /\ pc \in {"last_full"} \union Ending => ~anyRunning
    /\ ~anyRunning =>
         /\ pc \in (Polling \ {"run_active"}) \union Ending => Buffers_PixelsReceived(mmb)
         /\ pc \in {"buffer", "buffer_done", "last_full"} \union Ending => overrun = 0
         /\ pc = "last_full" => mmb.buffer[1 - current].level = 0
         /\ pc \in Ending => \A b \in BufferIds : mmb.buffer[b].level = 0

ReaderInv ==
  /\ ReaderTypes /\ LoopInRun /\ ReadReleased /\ LossSeen /\ NotPastEnd /\ LastPolls

(* A step of the loop, or of the receiver beside it, is one of mapping     *)
(* mode 1 or leaves the channel alone.                                     *)
LEMMA ReaderStepsChannel == ReaderTypes /\ [ReaderNext]_allVars => [Mm1Next]_vars
<1> SUFFICES ASSUME ReaderTypes, [ReaderNext]_allVars PROVE [Mm1Next]_vars
  OBVIOUS
<1>1. CASE Start
  <2>1. PICK numPixels \in RunLengths, advance \in {"gate", "user"} :
          StartRun(numPixels, advance, "started")
    BY <1>1 DEF Start
  <2>2. QED BY <2>1 DEF Mm1Next, UserNext, Successes
<1>2. CASE Stop
  BY <1>2 DEF Stop, Mm1Next, UserNext
<1>3. CASE PixelNext \/ CheckOverrun
  BY <1>3 DEF PixelNext, CheckOverrun, Mm1Next, UserNext
<1>4. CASE Read \/ Release
  BY <1>4 DEF Read, Release, Mm1Next, UserNext, ReaderTypes
<1>5. CASE Loop \/ RunActive \/ BufferFull \/ LastFull
  BY <1>5 DEF Loop, RunActive, BufferFull, LastFull
<1>6. CASE ReceiverNext
  BY <1>6 DEF Mm1Next
<1>7. CASE UNCHANGED vars
  BY <1>7
<1>8. QED
  BY <1>1, <1>2, <1>3, <1>4, <1>5, <1>6, <1>7 DEF ReaderNext, ReaderStep, Exited, allVars

(* No step but the start of a run and buffer_overrun changes the count of  *)
(* the overruns, or else they are counted.                                 *)
LEMMA StoreOverruns ==
  ASSUME Mm1TypeOK
  PROVE  WithPixel(WithBufferHeader(mmb)).bufferOverruns = mmb.bufferOverruns
<1> DEFINE g == Buffers_Next_MoveLevel(mmb, HeaderWords)
           h == WithBufferHeader(mmb)
           v == Buffers_Next_MoveLevel(h, PixelWords)
           p == Buffers_Pixel_Inc(v)
<1>1. mmb \in Buffers(Pixel) /\ mmb.pixel \in Nat /\ setId \in Nat
  BY DEF Mm1TypeOK, Buffers
<1>2. g \in Buffers(Pixel) /\ g.bufferOverruns = mmb.bufferOverruns
  BY <1>1, CountersType, ConstantsType DEF Buffers_Next_MoveLevel, WithBuffer, Buffers
<1>3. h \in Buffers(Pixel) /\ h.bufferOverruns = mmb.bufferOverruns
  <2>1. [g EXCEPT !.bufferNumber = @ + 1] \in Buffers(Pixel)
    BY <1>2 DEF Buffers
  <2>2. [g EXCEPT !.bufferNumber = @ + 1].bufferOverruns = g.bufferOverruns
    BY <1>2 DEF Buffers
  <2>3. QED BY <1>1, <1>2, <2>1, <2>2 DEF WithBufferHeader
<1> HIDE DEF h, g
<1>4. v \in Buffers(Pixel) /\ v.bufferOverruns = mmb.bufferOverruns
  BY <1>3, CountersType, ConstantsType DEF Buffers_Next_MoveLevel, WithBuffer, Buffers
<1> HIDE DEF v
<1>5. p \in Buffers(Pixel) /\ p.bufferOverruns = mmb.bufferOverruns
  BY <1>4, CountersType, ConstantsType DEF Buffers_Pixel_Inc, WithBuffer, Buffers
<1> HIDE DEF p
<1>6. \A item : Buffers_CopyIn(p, item, McaWords).bufferOverruns = p.bufferOverruns
  BY <1>5 DEF Buffers_CopyIn, WithBuffer, Buffers
<1>7. WithPixel(h) = Buffers_CopyIn(p, [number |-> h.pixel, set |-> setId], McaWords)
  BY DEF WithPixel, p, v
<1>8. QED BY <1>5, <1>6, <1>7 DEF h

(* Beside the loop the receiver leaves the user's buffer alone, empties    *)
(* none, and after the last pixel leaves all of them as they are.          *)
Received ==
  /\ mode' = mode /\ delivered' = delivered /\ released' = released
  /\ mmb'.numPixels = mmb.numPixels
  /\ commands = << >> => commands' = << >> /\ channelState' = channelState
  /\ commands = <<"start">> =>
       \/ commands' = commands
       \/ commands' = << >> /\ channelState' = "Histogram"
  /\ dropped' = 0 => dropped = 0
  /\ overrun = mmb.bufferOverruns => overrun' = mmb'.bufferOverruns
  /\ ActiveBuffer(mmb).next = 0 => ActiveBuffer(mmb').next = 0
  /\ ~Buffers_Active_Done(mmb) =>
       mmb'.active = mmb.active /\ ActiveBuffer(mmb') = ActiveBuffer(mmb)
  /\ \A b \in BufferIds : mmb.buffer[b].level # 0 => mmb'.buffer[b].level # 0
  /\ dropped' = 0 =>
       IF Buffers_PixelsReceived(mmb) THEN mmb' = mmb /\ overrun' = overrun
       ELSE mmb'.pixel \in {mmb.pixel, mmb.pixel + 1}

LEMMA ReceivedSame ==
  ASSUME mmb' = mmb, UNCHANGED <<mode, delivered, released, dropped, overrun>>,
         \/ UNCHANGED <<commands, channelState>>
         \/ ReceiveChannelState
  PROVE  Received
<1>1. CASE UNCHANGED <<commands, channelState>>
  BY <1>1 DEF Received
<1>2. CASE ReceiveChannelState
  BY <1>2 DEF Received, ReceiveChannelState
<1> QED BY <1>1, <1>2

LEMMA LevelsByRole ==
  ASSUME NEW m \in Buffers(Pixel), NEW n \in Buffers(Pixel), n.active = m.active,
         ActiveBuffer(n).level = ActiveBuffer(m).level,
         NextBuffer(n).level = NextBuffer(m).level
  PROVE  \A b \in BufferIds : n.buffer[b].level = m.buffer[b].level
BY NextBufferId DEF ActiveBuffer, NextBuffer, Buffers_Next

LEMMA ReceivedOverrun ==
  ASSUME Mm1TypeOK, BuffersInv, OverrunHistogram
  PROVE  Received
<1> DEFINE o == Buffers_Overrun(mmb)
<1>1. /\ mmb \in Buffers(Pixel) /\ mmb.bufferOverruns \in Nat /\ overrun \in Nat
      /\ o \in Buffers(Pixel)
  BY CountersType, ConstantsType DEF Mm1TypeOK, Buffers
<1>2. /\ ActiveBuffer(o) = ActiveBuffer(mmb) /\ NextBuffer(o) = NextBuffer(mmb)
      /\ o.active = mmb.active /\ o.size = mmb.size /\ o.stopped = mmb.stopped /\ o.pixel = mmb.pixel /\ o.numPixels = mmb.numPixels
      /\ o.bufferOverruns = mmb.bufferOverruns + 1
  BY <1>1 DEF Buffers_Overrun, ActiveBuffer, NextBuffer, Buffers_Next, Buffers
<1>3. /\ mmb' = Buffers_Pixel_Inc(o) /\ overrun' = overrun + 1
      /\ UNCHANGED <<mode, delivered, released, dropped, commands, channelState>>
      /\ ~Buffers_PixelsReceived(mmb)
  BY DEF OverrunHistogram, Accepting, control
<1> HIDE DEF o
<1>4. /\ OnlyNext(o, mmb') /\ mmb'.pixel = o.pixel + 1
      /\ NextBuffer(mmb') = [NextBuffer(o) EXCEPT !.bufferPixel = @ + 1]
      /\ mmb' \in Buffers(Pixel)
  BY <1>1, <1>3, PixelIncContents, CountersType, ConstantsType
<1>5. mmb'.bufferOverruns = o.bufferOverruns
  BY <1>1, <1>3 DEF Buffers_Pixel_Inc, WithBuffer, Buffers
<1>6. /\ OnlyNext(mmb, mmb')
      /\ ActiveBuffer(mmb').level = ActiveBuffer(mmb).level
      /\ NextBuffer(mmb').level = NextBuffer(mmb).level
  BY <1>1, <1>2, <1>4, FilledRoles DEF OnlyNext, Buffer
<1>7. \A b \in BufferIds : mmb'.buffer[b].level = mmb.buffer[b].level
  BY <1>1, <1>4, <1>6, LevelsByRole DEF OnlyNext
<1>8. QED
  BY <1>1, <1>2, <1>3, <1>4, <1>5, <1>7 DEF Received, OnlyNext

LEMMA ReceivedDrop ==
  ASSUME Mm1TypeOK, NEW drops \in 1 .. MaxDrop, DroppedHistograms(drops)
  PROVE  Received
<1>1. mmb \in Buffers(Pixel) /\ dropped \in Nat /\ drops \in Nat \ {0}
  BY Mm1Assumption, SMTT(20) DEF Mm1TypeOK
<1>2. /\ mmb' = Buffers_Drop(mmb, drops) /\ dropped' = dropped + drops
      /\ UNCHANGED <<mode, delivered, released, overrun, commands, channelState>>
  BY DEF DroppedHistograms, control
<1>3. /\ OnlyNext(mmb, mmb') /\ mmb' \in Buffers(Pixel)
      /\ NextBuffer(mmb') = [NextBuffer(mmb) EXCEPT !.drops = @ + drops]
  BY <1>1, <1>2, DropContents, CountersType
<1>4. mmb'.bufferOverruns = mmb.bufferOverruns
  BY <1>1, <1>2 DEF Buffers_Drop, WithBuffer, Buffers
<1>5. ActiveBuffer(mmb').level = ActiveBuffer(mmb).level
      /\ NextBuffer(mmb').level = NextBuffer(mmb).level
  BY <1>1, <1>3, FilledRoles DEF OnlyNext, Buffer
<1>6. \A b \in BufferIds : mmb'.buffer[b].level = mmb.buffer[b].level
  BY <1>1, <1>3, <1>5, LevelsByRole DEF OnlyNext
<1>7. QED
  BY <1>1, <1>2, <1>3, <1>4, <1>6 DEF Received, OnlyNext

LEMMA ReceivedStore ==
  ASSUME Mm1TypeOK, BuffersInv, StoreHistogram
  PROVE  Received
<1> DEFINE n == WithPixel(WithBufferHeader(mmb))
           k == Len(NextBuffer(mmb).data)
<1>1. /\ mmb \in Buffers(Pixel) /\ n \in Buffers(Pixel) /\ ~Buffers_Next_Full(mmb)
      /\ k \in Nat /\ mmb.pixel \in Nat
  <2>1. mmb \in Buffers(Pixel) /\ n \in Buffers(Pixel) /\ ~Buffers_Next_Full(mmb)
    BY StoreType DEF Mm1TypeOK, StoreHistogram
  <2>2. NextBuffer(mmb).data \in Seq(Pixel) /\ mmb.pixel \in Nat
    BY <2>1, FilledRoles DEF Buffers, Buffer
  <2>3. QED BY <2>1, <2>2
<1>2. /\ OnlyNext(mmb, n) /\ n.pixel = mmb.pixel + 1
      /\ NextBuffer(n).level = HeaderWords + (k + 1) * PixelBlock
      /\ n.bufferOverruns = mmb.bufferOverruns
  BY <1>1, StoreContents, StoreOverruns
<1>3. /\ mmb' = Buffers_Update(n) /\ ~Buffers_PixelsReceived(mmb)
      /\ UNCHANGED <<mode, delivered, released, dropped, overrun, commands, channelState>>
  BY DEF StoreHistogram, Accepting, control
<1>4. NextBuffer(n).level # 0
  BY <1>1, <1>2, Occupied
<1> HIDE DEF n, k
<1>5. SameContents(n, mmb') /\ mmb'.bufferOverruns = n.bufferOverruns
  BY <1>1, <1>3, UpdateContents, ToggleFlags DEF Buffers_Update
<1>6. \A b \in BufferIds : mmb.buffer[b].level # 0 => mmb'.buffer[b].level # 0
  BY <1>1, <1>2, <1>4, <1>5, NextBufferId
     DEF OnlyNext, SameContents, ActiveBuffer, NextBuffer, Buffers_Next
<1>7. ActiveBuffer(mmb).next = 0 => ActiveBuffer(mmb').next = 0
  <2>1. CASE mmb' = n
    BY <2>1, <1>2 DEF OnlyNext
  <2>2. CASE mmb' = Buffers_Toggle(n)
    <3>1. ActiveBuffer(mmb') = [NextBuffer(n) EXCEPT !.done = FALSE, !.next = 0]
      BY <1>1, <2>2, ToggleRoles
    <3>2. QED BY <1>1, <3>1, FilledRoles DEF Buffer
  <2>3. QED BY <1>3, <2>1, <2>2 DEF Buffers_Update
<1>8. ~Buffers_Active_Done(mmb) =>
        mmb'.active = mmb.active /\ ActiveBuffer(mmb') = ActiveBuffer(mmb)
  BY <1>2, <1>3 DEF OnlyNext, Buffers_Update, Buffers_Active_Done
<1>9. mmb'.numPixels = mmb.numPixels /\ mmb'.pixel = mmb.pixel + 1
  BY <1>2, <1>5 DEF OnlyNext, SameContents
<1>10. QED BY <1>2, <1>3, <1>5, <1>6, <1>7, <1>8, <1>9 DEF Received

LEMMA ReceiverFrame ==
  ASSUME Mm1TypeOK, BuffersInv, ReceiverNext
  PROVE  Received
<1>1. CASE ReceiveChannelState
  BY <1>1, ReceivedSame DEF ReceiveChannelState
<1>2. ASSUME NEW wellFormed \in BOOLEAN, SkipHistogram(wellFormed)
      PROVE  Received
  BY <1>2, ReceivedSame DEF SkipHistogram, control
<1>3. QED
  BY <1>1, <1>2, ReceivedOverrun, ReceivedStore, ReceivedDrop DEF ReceiverNext

(* The receiver's steps beside the loop.                                   *)
LEMMA ReaderReceives ==
  ASSUME Mm1TypeOK, BuffersInv, ReaderInv, Received, UNCHANGED readerVars
  PROVE  ReaderInv'
<1> USE DEF ReaderInv, readerVars
<1>1. ReaderTypes'
  BY DEF ReaderTypes
<1>2. pc = "start" => channelState' = "Ready" /\ commands' = << >>
  BY DEF LoopInRun, Received
<1>3. LoopInRun'
  BY <1>2 DEF LoopInRun, Received
<1>4. mmb \in Buffers(Pixel) /\ current \in BufferIds
  BY DEF Mm1TypeOK, ReaderTypes
<1>5. ReadReleased'
  <2>1. CASE pc = "buffer_done"
    <3>1. ~Buffers_Active_Done(mmb) \/ pc \in Failures
      BY <2>1, <1>4, FilledRoles DEF ReadReleased, BuffersInv, Buffers_Active_Done
    <3>2. QED BY <2>1, <3>1 DEF ReadReleased, Received
  <2>2. CASE pc # "buffer_done"
    BY <2>2, <1>4 DEF ReadReleased, Received
  <2>3. QED BY <2>1, <2>2
<1>6. LossSeen'
  BY DEF LossSeen, Received
<1>7. NotPastEnd' /\ LastPolls'
  <2> SUFFICES ASSUME mmb'.numPixels > 0, dropped' = 0
               PROVE  mmb'.pixel <= mmb'.numPixels /\ LastPolls'
    BY DEF NotPastEnd, LastPolls
  <2>1. /\ mmb.numPixels > 0 /\ dropped = 0 /\ mmb'.numPixels = mmb.numPixels
        /\ mmb.pixel \in Nat /\ mmb.numPixels \in Nat /\ mmb.pixel <= mmb.numPixels
    BY <1>4 DEF Received, NotPastEnd, Buffers
  <2>2. CASE Buffers_PixelsReceived(mmb)
    BY <2>1, <2>2 DEF Received, LastPolls
  <2>3. CASE ~Buffers_PixelsReceived(mmb)
    <3>1. mmb'.pixel <= mmb.numPixels
      BY <2>1, <2>3 DEF Received, Buffers_PixelsReceived
    <3>2. anyRunning \/ pc \notin (Polling \ {"run_active"}) \union Ending
      BY <2>1, <2>3 DEF LastPolls
    <3>3. LastPolls'
      BY <2>1, <3>2 DEF LastPolls, Polling, Ending
    <3>4. QED BY <2>1, <3>1, <3>3
  <2>4. QED BY <2>2, <2>3
<1>8. QED BY <1>1, <1>3, <1>5, <1>6, <1>7

(* Polls that change nothing in the buffers.                               *)
LEMMA ReaderPolls ==
  ASSUME Mm1TypeOK, ReaderInv, RunActive \/ PixelNext \/ BufferFull
  PROVE  ReaderInv'
<1> USE DEF ReaderInv, Goto, Polling, Ending, Failures
<1>1. mmb \in Buffers(Pixel) /\ current \in BufferIds
  BY DEF Mm1TypeOK, ReaderTypes
<1>2. /\ UNCHANGED <<mmb, commands, channelState, mode, delivered, released, overrun,
                     dropped, current>>
      /\ NotPastEnd'
  BY DEF RunActive, PixelNext, BufferFull, MappingPixelNext, vars, control, NotPastEnd
<1>3. CASE RunActive
  <2>1. /\ pc = "run_active" /\ pc' \in {"pixel_next", "buffer_full"}
        /\ anyRunning' = ~Buffers_PixelsReceived(mmb) /\ anyFull' = anyFull
    BY <1>3 DEF RunActive, LoopInRun
  <2>2. ReaderTypes' /\ LoopInRun'
    BY <1>2, <2>1 DEF ReaderTypes, LoopInRun, Buffers_PixelsReceived
  <2>3. ReadReleased' /\ LossSeen'
    BY <1>2, <2>1 DEF ReadReleased, LossSeen
  <2>4. LastPolls'
    BY <1>2, <2>1 DEF LastPolls
  <2>5. QED BY <1>2, <2>2, <2>3, <2>4
<1>4. CASE PixelNext
  <2>1. /\ pc = "pixel_next" /\ pc' = "buffer_full"
        /\ anyRunning' = anyRunning /\ anyFull' = anyFull
    BY <1>4 DEF PixelNext
  <2>2. ReaderTypes' /\ LoopInRun'
    BY <1>2, <2>1 DEF ReaderTypes, LoopInRun
  <2>3. ReadReleased' /\ LossSeen'
    BY <1>2, <2>1 DEF ReadReleased, LossSeen
  <2>4. LastPolls'
    BY <1>2, <2>1 DEF LastPolls
  <2>5. QED BY <1>2, <2>2, <2>3, <2>4
<1>5. CASE BufferFull
  <2>1. /\ pc = "buffer_full" /\ pc' = "buffer_overrun"
        /\ anyRunning' = anyRunning /\ anyFull' = Buffers_Full(mmb, current)
    BY <1>5 DEF BufferFull
  <2>2. ReaderTypes' /\ LoopInRun'
    BY <1>2, <2>1 DEF ReaderTypes, LoopInRun, Buffers_Full
  <2>3. ReadReleased' /\ LossSeen'
    BY <1>1, <1>2, <2>1 DEF ReadReleased, LossSeen, Buffers_Full
  <2>4. LastPolls'
    BY <1>2, <2>1 DEF LastPolls
  <2>5. QED BY <1>2, <2>2, <2>3, <2>4
<1>6. QED BY <1>3, <1>4, <1>5

(* The last call of a poll loses no pixel but by giving up.                *)
LEMMA ReaderChecks ==
  ASSUME Mm1TypeOK, ReaderInv, CheckOverrun
  PROVE  ReaderInv'
<1> USE DEF ReaderInv, Goto, Polling, Ending, Failures
<1>1. mmb \in Buffers(Pixel) /\ mmb.bufferOverruns \in Nat /\ current \in BufferIds
  BY DEF Mm1TypeOK, ReaderTypes, Buffers
<1>2. /\ pc = "buffer_overrun" /\ mmb' = Buffers_ClearOverruns(mmb)
      /\ UNCHANGED <<commands, channelState, mode, delivered, released, overrun,
                     dropped, current, anyRunning, anyFull>>
      /\ pc' \in Failures \union {"buffer", "run_active"}
      /\ pc' \notin Failures => mmb.bufferOverruns = 0
      /\ pc' = "buffer" => anyFull
      /\ pc' = "run_active" => anyRunning
  <2>1. /\ pc = "buffer_overrun" /\ mmb' = Buffers_ClearOverruns(mmb)
        /\ UNCHANGED <<commands, channelState, mode, delivered, released, overrun,
                       dropped, current, anyRunning, anyFull>>
    BY DEF CheckOverrun, BufferOverrun, control
  <2>2. pc' = IF mmb.bufferOverruns > 0 THEN "overrun"
              ELSE IF anyFull THEN "buffer"
              ELSE IF anyRunning /\ polls' < PollLimit THEN "run_active"
              ELSE "never full"
    BY DEF CheckOverrun
  <2>3. CASE mmb.bufferOverruns > 0
    BY <2>1, <2>2, <2>3
  <2>4. CASE mmb.bufferOverruns = 0
    BY <2>1, <2>2, <2>4
  <2>5. mmb.bufferOverruns > 0 \/ mmb.bufferOverruns = 0
    BY <1>1
  <2>6. QED BY <2>3, <2>4, <2>5, Zenon
<1>3. /\ mmb'.bufferOverruns = 0 /\ ActiveBuffer(mmb') = ActiveBuffer(mmb)
      /\ mmb'.buffer = mmb.buffer /\ mmb'.numPixels = mmb.numPixels
      /\ mmb'.pixel = mmb.pixel
  BY <1>1, <1>2 DEF Buffers_ClearOverruns, ActiveBuffer, Buffers
<1>4. ReaderTypes' /\ LoopInRun' /\ NotPastEnd'
  BY <1>2, <1>3 DEF ReaderTypes, LoopInRun, NotPastEnd
<1>5. ReadReleased' /\ LossSeen'
  BY <1>2, <1>3 DEF ReadReleased, LossSeen
<1>6. LastPolls'
  BY <1>2, <1>3 DEF LastPolls, LossSeen, Buffers_PixelsReceived
<1>7. QED BY <1>4, <1>5, <1>6

LEMMA ReaderReads ==
  ASSUME Mm1TypeOK, ReaderInv, Read
  PROVE  ReaderInv'
<1> USE DEF ReaderInv, Goto, Polling, Ending, Failures
<1>1. /\ mmb \in Buffers(Pixel) /\ ActiveBuffer(mmb) \in Buffer(Pixel)
      /\ delivered \in Seq(Pixel) /\ mmb.active \in BufferIds
  BY FilledRoles DEF Mm1TypeOK, Buffers
<1>2. pc = "buffer" /\ UNCHANGED <<current, anyRunning, anyFull>>
  BY DEF Read
<1>3. CASE pc' = "unreadable" /\ UNCHANGED vars
  BY <1>2, <1>3 DEF vars, ReaderTypes, LoopInRun, ReadReleased, LossSeen, NotPastEnd,
                    LastPolls
<1>4. CASE pc' = "buffer_done" /\ ReadBuffer(current)
  <2>1. /\ current = mmb.active /\ mmb' = Buffers_CopyOut(mmb)
        /\ ActiveBuffer(mmb).next = 0 /\ Len(delivered) = released
        /\ delivered' = delivered \o ActiveBuffer(mmb).data
        /\ mmb.buffer[current].level # 0
        /\ UNCHANGED <<commands, channelState, mode, released, overrun, dropped>>
    BY <1>2, <1>4 DEF ReadBuffer, ReadReleased, control
  <2>2. [ActiveBuffer(mmb) EXCEPT !.next = ActiveBuffer(mmb).level] \in Buffer(Pixel)
    BY <1>1 DEF Buffer
  <2>3. /\ ActiveBuffer(mmb') = [ActiveBuffer(mmb) EXCEPT !.next = ActiveBuffer(mmb).level]
        /\ mmb'.active = mmb.active /\ mmb'.numPixels = mmb.numPixels
        /\ mmb'.pixel = mmb.pixel /\ mmb'.bufferOverruns = mmb.bufferOverruns
    BY <1>1, <2>1, <2>2, WithActiveBuffer DEF Buffers_CopyOut
  <2>4. /\ ActiveBuffer(mmb').level # 0
        /\ ActiveBuffer(mmb').data = ActiveBuffer(mmb).data
    BY <1>1, <2>1, <2>3 DEF ActiveBuffer, Buffer
  <2>5. Len(delivered') = released' + Len(ActiveBuffer(mmb').data)
    <3>1. ActiveBuffer(mmb).data \in Seq(Pixel)
      BY <1>1 DEF Buffer
    <3>2. QED BY <1>1, <2>1, <2>4, <3>1, ConcatProperties
  <2>6. ReaderTypes' /\ LoopInRun'
    BY <1>2, <1>4, <2>1 DEF ReaderTypes, LoopInRun
  <2>7. ReadReleased' /\ LossSeen' /\ NotPastEnd'
    BY <1>2, <1>4, <2>1, <2>3, <2>4, <2>5 DEF ReadReleased, LossSeen, NotPastEnd
  <2>8. LastPolls'
    BY <1>2, <1>4, <2>1, <2>3 DEF LastPolls, Buffers_PixelsReceived
  <2>9. QED BY <2>6, <2>7, <2>8
<1>5. QED BY <1>3, <1>4 DEF Read

(* The buffer that is given back is empty, and the other is the Active one *)
(* if it can be read.                                                      *)
LEMMA ReaderReleases ==
  ASSUME Mm1TypeOK, BuffersInv, ReaderInv, Release
  PROVE  ReaderInv'
<1> USE DEF ReaderInv, Goto, Polling, Ending, Failures
<1> DEFINE c == Buffers_Active_Clear(mmb)
<1>1. /\ mmb \in Buffers(Pixel) /\ c \in Buffers(Pixel)
      /\ current \in BufferIds /\ 1 - current \in BufferIds /\ 1 - (1 - current) = current
  <2>1. mmb \in Buffers(Pixel) /\ current \in BufferIds
    BY DEF Mm1TypeOK, ReaderTypes
  <2>2. 1 - current \in BufferIds /\ 1 - (1 - current) = current
    BY <2>1 DEF BufferIds
  <2>3. QED BY <2>1, <2>2, ClearType
<1>2. /\ pc = "buffer_done" /\ current = mmb.active /\ current' = 1 - current
      /\ mmb' = Buffers_Update(c)
      /\ released' = released + Len(ActiveBuffer(mmb).data)
      /\ Len(delivered) = released + Len(ActiveBuffer(mmb).data)
      /\ pc' = IF anyRunning THEN "loop" ELSE "last_full"
      /\ UNCHANGED <<commands, channelState, mode, delivered, overrun, dropped,
                     anyRunning, anyFull>>
  BY DEF Release, BufferDone, Buffers_BufferDone, ReadReleased, control
<1>3. /\ c.buffer[current] = EmptyBuffer /\ ActiveBuffer(c) = EmptyBuffer
      /\ c.numPixels = mmb.numPixels /\ c.pixel = mmb.pixel
      /\ c.bufferOverruns = mmb.bufferOverruns
  BY <1>1, <1>2 DEF Buffers_Active_Clear, WithBuffer, ActiveBuffer, Buffers
<1> HIDE DEF c
<1>4. SameContents(c, mmb') /\ mmb'.bufferOverruns = c.bufferOverruns
  BY <1>1, <1>2, UpdateContents, ToggleFlags DEF Buffers_Update
<1>5. ActiveBuffer(mmb').next = 0
  <2>1. CASE mmb' = c
    BY <2>1, <1>3 DEF EmptyBuffer
  <2>2. CASE mmb' = Buffers_Toggle(c)
    <3>1. ActiveBuffer(mmb') = [NextBuffer(c) EXCEPT !.done = FALSE, !.next = 0]
      BY <1>1, <2>2, ToggleRoles
    <3>2. QED BY <1>1, <3>1, FilledRoles DEF Buffer
  <2>3. QED BY <1>2, <2>1, <2>2 DEF Buffers_Update
<1>6. /\ mmb'.buffer[current].level = 0 /\ mmb'.numPixels = mmb.numPixels
      /\ mmb'.pixel = mmb.pixel /\ mmb'.bufferOverruns = mmb.bufferOverruns
  BY <1>1, <1>3, <1>4 DEF SameContents, EmptyBuffer
<1>7. ReaderTypes' /\ LoopInRun' /\ NotPastEnd'
  BY <1>1, <1>2, <1>6 DEF ReaderTypes, LoopInRun, NotPastEnd
<1>8. ReadReleased' /\ LossSeen'
  BY <1>2, <1>5, <1>6 DEF ReadReleased, LossSeen
<1>9. LastPolls'
  BY <1>1, <1>2, <1>6 DEF LastPolls, Buffers_PixelsReceived
<1>10. QED BY <1>7, <1>8, <1>9

LEMMA ReaderStarts ==
  ASSUME ReaderInv, Start
  PROVE  ReaderInv'
<1> USE DEF ReaderInv, Goto, Polling, Ending, Failures
<1>1. PICK numPixels \in RunLengths, advance \in {"gate", "user"} :
        StartRun(numPixels, advance, "started")
  BY DEF Start
<1>2. /\ pc = "start" /\ pc' = "loop" /\ commands = << >> /\ channelState = "Ready"
      /\ UNCHANGED <<current, anyRunning, anyFull>>
  BY DEF Start, LoopInRun
<1>3. /\ mmb' = Buffers_Open(BufferSize, numPixels) /\ mode' = "MCA_FSM"
      /\ delivered' = << >> /\ released' = 0 /\ overrun' = 0 /\ dropped' = 0
      /\ channelState' = channelState
  BY <1>1 DEF StartRun, Successes, Opened
<1>4. commands' = <<"start">>
  BY <1>1, <1>2 DEF StartRun, Successes
<1>5. /\ ActiveBuffer(mmb').next = 0 /\ mmb'.bufferOverruns = 0
      /\ mmb'.pixel = 0 /\ mmb'.numPixels \in Nat
  BY <1>3, Mm1Assumption DEF Buffers_Open, ActiveBuffer, EmptyBuffer, BufferIds
<1>6. ReaderTypes' /\ LoopInRun' /\ NotPastEnd'
  BY <1>2, <1>3, <1>4, <1>5 DEF ReaderTypes, LoopInRun, NotPastEnd
<1>7. ReadReleased' /\ LossSeen' /\ LastPolls'
  BY <1>2, <1>3, <1>5 DEF ReadReleased, LossSeen, LastPolls
<1>8. QED BY <1>6, <1>7

LEMMA ReaderLoops ==
  ASSUME ReaderInv, Loop
  PROVE  ReaderInv'
<1> USE DEF ReaderInv, Goto, Polling, Ending, Failures
<1>1. /\ pc = "loop" /\ commands = << >>
      /\ pc' = "run_active" \/ (mmb.numPixels = 0 /\ pc' = "stop")
      /\ UNCHANGED <<vars, current, anyRunning, anyFull>>
  BY DEF Loop
<1>2. ReaderTypes' /\ LoopInRun' /\ NotPastEnd'
  BY <1>1 DEF vars, ReaderTypes, LoopInRun, NotPastEnd
<1>3. ReadReleased' /\ LossSeen'
  BY <1>1 DEF vars, ReadReleased, LossSeen
<1>4. LastPolls'
  <2>1. mmb' = mmb /\ (mmb.numPixels > 0 => pc' = "run_active")
    BY <1>1 DEF vars
  <2>2. QED BY <2>1 DEF LastPolls
<1>5. QED BY <1>2, <1>3, <1>4

(* A buffer that is not full after the last pixel is empty.                *)
LEMMA ReaderLeaves ==
  ASSUME Mm1TypeOK, ReaderInv, LastFull
  PROVE  ReaderInv'
<1> USE DEF ReaderInv, Goto, Polling, Ending, Failures
<1>1. /\ pc = "last_full" /\ UNCHANGED <<vars, current, anyRunning, anyFull>>
      /\ pc' = IF mmb.numPixels > 0 /\ Buffers_Full(mmb, current) THEN "full after last"
               ELSE "stop"
  BY DEF LastFull
<1>2. ReaderTypes' /\ LoopInRun' /\ NotPastEnd' /\ ReadReleased' /\ LossSeen'
  BY <1>1 DEF vars, ReaderTypes, LoopInRun, NotPastEnd, ReadReleased, LossSeen
<1>3. ASSUME mmb.numPixels > 0, dropped = 0, pc' = "stop"
      PROVE  \A b \in BufferIds : mmb.buffer[b].level = 0
  <2>1. ~anyRunning /\ Buffers_PixelsReceived(mmb) /\ mmb.buffer[1 - current].level = 0
    BY <1>1, <1>3 DEF LastPolls
  <2>2. current \in BufferIds /\ mmb.buffer[current].level \in Nat
    BY DEF Mm1TypeOK, ReaderTypes, Buffers, Buffer
  <2>3. mmb.buffer[current].level = 0
    BY <1>1, <1>3, <2>1, <2>2 DEF Buffers_Full
  <2>4. \A b \in BufferIds : b = current \/ b = 1 - current
    BY <2>2 DEF BufferIds
  <2>5. QED BY <2>1, <2>3, <2>4
<1>4. LastPolls'
  BY <1>1, <1>3 DEF vars, LastPolls
<1>5. QED BY <1>2, <1>4

LEMMA ReaderStops ==
  ASSUME Mm1TypeOK, ReaderInv, Stop
  PROVE  ReaderInv'
<1> USE DEF ReaderInv, Goto, Polling, Ending, Failures
<1>1. mmb \in Buffers(Pixel) /\ UNCHANGED <<current, anyRunning, anyFull>>
  BY DEF Stop, Mm1TypeOK
<1>2. CASE pc = "stop" /\ StopRun_Send(TRUE) /\ pc' = "stopping"
  <2>1. UNCHANGED <<mmb, mode, delivered, released, overrun, dropped>>
    BY <1>2 DEF StopRun_Send
  <2>2. ReaderTypes' /\ LoopInRun' /\ NotPastEnd' /\ ReadReleased' /\ LossSeen'
    BY <1>1, <1>2, <2>1
       DEF ReaderTypes, LoopInRun, NotPastEnd, ReadReleased, LossSeen
  <2>3. LastPolls'
    BY <1>1, <1>2, <2>1 DEF LastPolls
  <2>4. QED BY <2>2, <2>3
<1>3. CASE pc = "stopping" /\ StopRun_End(TRUE) /\ pc' = "finished"
  <2> DEFINE s == [mmb EXCEPT !.stopped = TRUE]
  <2>1. /\ mmb' = Buffers_Stop(mmb)
        /\ UNCHANGED <<mode, delivered, released, overrun, dropped>>
    BY <1>3 DEF StopRun_End
  <2>2. SameContents(mmb, mmb')
    BY <1>1, <2>1, StopContents
  <2>3. /\ s \in Buffers(Pixel) /\ ActiveBuffer(s) = ActiveBuffer(mmb)
        /\ s.bufferOverruns = mmb.bufferOverruns
        /\ mmb' = s \/ mmb' = Buffers_Toggle(s)
    BY <1>1, <2>1 DEF Buffers_Stop, Buffers, ActiveBuffer
  <2> HIDE DEF s
  <2>4. mmb'.bufferOverruns = mmb.bufferOverruns
    BY <2>3, ToggleFlags
  <2>5. ActiveBuffer(mmb).next = 0 => ActiveBuffer(mmb').next = 0
    <3>1. CASE mmb' = s
      BY <3>1, <2>3
    <3>2. CASE mmb' = Buffers_Toggle(s)
      <4>1. ActiveBuffer(mmb') = [NextBuffer(s) EXCEPT !.done = FALSE, !.next = 0]
        BY <2>3, <3>2, ToggleRoles
      <4>2. QED BY <2>3, <4>1, FilledRoles DEF Buffer
    <3>3. QED BY <2>3, <3>1, <3>2
  <2>6. ReaderTypes' /\ LoopInRun' /\ NotPastEnd'
    BY <1>1, <1>3, <2>1, <2>2
       DEF ReaderTypes, LoopInRun, NotPastEnd, SameContents
  <2>7. ReadReleased' /\ LossSeen'
    BY <1>1, <1>3, <2>1, <2>4, <2>5 DEF ReadReleased, LossSeen
  <2>8. LastPolls'
    BY <1>1, <1>3, <2>1, <2>2 DEF LastPolls, SameContents, Buffers_PixelsReceived
  <2>9. QED BY <2>6, <2>7, <2>8
<1>4. QED BY <1>2, <1>3 DEF Stop

LEMMA ReaderInvStep ==
  Mm1TypeOK /\ BuffersInv /\ ReaderInv /\ [ReaderNext]_allVars => ReaderInv'
<1> SUFFICES ASSUME Mm1TypeOK, BuffersInv, ReaderInv, [ReaderNext]_allVars
             PROVE  ReaderInv'
  OBVIOUS
<1>1. CASE ReaderStep
  BY <1>1, ReaderStarts, ReaderLoops, ReaderPolls, ReaderChecks, ReaderReads,
     ReaderReleases, ReaderLeaves, ReaderStops DEF ReaderStep
<1>2. CASE ReceiverNext /\ UNCHANGED readerVars
  BY <1>2, ReceiverFrame, ReaderReceives
<1>3. CASE UNCHANGED allVars
  BY <1>3 DEF allVars, vars, readerVars, ReaderInv, ReaderTypes, LoopInRun, ReadReleased,
              LossSeen, NotPastEnd, LastPolls
<1>4. QED BY <1>1, <1>2, <1>3 DEF ReaderNext, Exited

(* hd-mm1.c: a capture of a given number of pixels that ends without an    *)
(* error has written every one of them, however the histograms, overruns   *)
(* and swaps fall between the calls of its loop, unless the device dropped *)
(* some.                                                                   *)
THEOREM CaptureIsComplete == ReaderSpec => []FileComplete
<1> DEFINE Inv == Mm1TypeOK /\ BuffersInv /\ PixelsAccounted /\ ReaderInv
<1>1. ReaderInit => Inv
  <2> SUFFICES ASSUME ReaderInit PROVE Inv
    OBVIOUS
  <2>0. Mm1TypeOK
    BY InitType DEF ReaderInit
  <2>1. BuffersInv /\ PixelsAccounted
    <3>1. mmb = Buffers_Open(BufferSize, 0)
      BY DEF ReaderInit, Mm1Init
    <3>0. released = 0 /\ overrun = 0 /\ dropped = 0
      BY DEF ReaderInit, Mm1Init
    <3>2. /\ Len(mmb.buffer[0].data) = 0 /\ Len(mmb.buffer[1].data) = 0
          /\ mmb.pixel = 0
      BY <3>1, OpenEmpty DEF Buffers_Open, BufferIds
    <3>3. PixelsAccounted
      BY <3>0, <3>2 DEF PixelsAccounted
    <3>4. QED BY <3>1, <3>3, OpenFilled DEF BuffersInv
  <2>2. /\ pc = "start" /\ current = 0 /\ anyRunning = FALSE /\ anyFull = FALSE
        /\ channelState = "Ready" /\ commands = << >> /\ delivered = << >>
        /\ released = 0 /\ overrun = 0 /\ mmb = Buffers_Open(BufferSize, 0)
    BY DEF ReaderInit, Mm1Init
  <2>3. /\ ActiveBuffer(mmb).next = 0 /\ mmb.bufferOverruns = 0 /\ mmb.numPixels = 0
    BY <2>2 DEF Buffers_Open, ActiveBuffer, EmptyBuffer, BufferIds
  <2>4. ReaderTypes /\ LoopInRun /\ NotPastEnd
    <3>1. ReaderTypes
      BY <2>2 DEF ReaderTypes, BufferIds
    <3>2. LoopInRun /\ NotPastEnd
      BY <2>2, <2>3 DEF LoopInRun, NotPastEnd, Polling
    <3>3. QED BY <3>1, <3>2
  <2>5. ReadReleased
    BY <2>2, <2>3 DEF ReadReleased
  <2>6. LossSeen /\ LastPolls
    BY <2>2, <2>3 DEF LossSeen, LastPolls
  <2>7. QED BY <2>0, <2>1, <2>4, <2>5, <2>6 DEF ReaderInv
<1>2. Inv /\ [ReaderNext]_allVars => Inv'
  <2>1. ReaderInv => ReaderTypes
    BY DEF ReaderInv
  <2>2. QED
    BY <2>1, ReaderStepsChannel, StepType, BuffersStep, AccountsStep, ReaderInvStep
<1>3. Inv => FileComplete
  <2> SUFFICES ASSUME Inv, pc = "finished", mmb.numPixels > 0, dropped = 0
               PROVE  Len(delivered) = mmb.numPixels
    BY DEF FileComplete
  <2>1. /\ Buffers_PixelsReceived(mmb) /\ overrun = 0
        /\ \A b \in BufferIds : mmb.buffer[b].level = 0
    BY DEF ReaderInv, LastPolls, Ending
  <2>2. Len(delivered) = released /\ mmb.pixel <= mmb.numPixels
    BY DEF ReaderInv, ReadReleased, NotPastEnd, Failures
  <2>3. Len(mmb.buffer[0].data) = 0 /\ Len(mmb.buffer[1].data) = 0
    BY <2>1 DEF BuffersInv, WellFilled, BufferShape, BufferIds
  <2>4. mmb.pixel \in Nat /\ mmb.numPixels \in Nat /\ released \in Nat
    BY DEF Mm1TypeOK, Buffers
  <2>5. mmb.pixel = released
    BY <2>1, <2>3, <2>4 DEF PixelsAccounted
  <2>6. QED BY <2>1, <2>2, <2>4, <2>5 DEF Buffers_PixelsReceived
<1>4. QED BY <1>1, <1>2, <1>3, PTL DEF ReaderSpec
===========================================================================
