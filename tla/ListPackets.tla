----------------------------- MODULE ListPackets -----------------------------
(***************************************************************************)
(* The list mode buffer of the SINC library: packets are encoded into      *)
(* words, the words arrive in pieces of any size, and the buffer finds the *)
(* packets in them again, after a header of JSON if there is one.  Once    *)
(* the data makes no sense it looks for the next stream alignment word.    *)
(*                                                                         *)
(* A word of four bytes is two units, the low half first.  The first unit  *)
(* stands for the word's value, which has Width values; the second one is  *)
(* sixteen times the event type and the subtype.                           *)
(***************************************************************************)
EXTENDS Integers, Sequences, SequencesExt

CONSTANTS
  Versions,    \* formats the packets may be encoded to
  Packets,     \* the packets that are sent
  Breaks,      \* what a line that loses or damages data puts between them
  Parameters,  \* the channel's parameters: the length each has as a line
  MaxItems,    \* bound: packets and breaks sent
  MaxBreaks,   \* bound: breaks
  MaxUnits,    \* bound: units sent, the header's included
  LongestRun   \* words a numbered packet may have, sixteen in the code

ASSUME PacketsAssumption ==
  MaxItems \in Nat /\ MaxBreaks \in Nat /\ MaxUnits \in Nat /\ LongestRun \in 2..16

(* LmVersion, in the order of the formats, and LmEventType.                *)
Version_0_7_1 == 1
Version_0_8_7 == 3
Version_0_9_0 == 4

EventTypes ==
  [pulse |-> 0, pulseToa |-> 1, streamAlign |-> 7, sync |-> 8, gatedStats |-> 10,
   spatialStats |-> 11, spatialPosition |-> 12, gateState |-> 13, periodicStats |-> 14,
   overflow |-> 15]

Stats == {"gatedStats", "spatialStats", "periodicStats"}
Numbered == Stats \cup {"spatialPosition"}

Width == 256       \* 2^24 in the code
CountWidth == 4096 \* 2^32 in the code

Word(name, subtype, value) == <<value % Width, 16 * EventTypes[name] + subtype>>
AlignWord == <<114, 112>>
WordUnits == 2

VARIABLES
  version,  \* the format the packets are encoded to
  toAdd,     \* encoded and not yet added to the buffer
  lm,       \* LmBuf: the units from tail to head, scanStreamAlign, srcTailPos
  header,   \* none, wanted, read, invalid
  asked,    \* history: a header was asked for before it was complete
  items,    \* history: the packets and breaks sent, with their places
  packets   \* history: the packets found, with their places

packetsVars == <<version, toAdd, lm, header, asked, items, packets>>

-----------------------------------------------------------------------------
(* LmBufEncodePacket.  The fields of numbered packets that are alike have  *)
(* one for all of them.                                                    *)
EncodedStats(p, format) ==
  Word(p.typ, 0, p.sampleCount)
    \o (IF p.typ = "periodicStats" THEN <<>> ELSE Word(p.typ, 1, p.sampleCount \div Width))
    \o Word(p.typ, 2, p.counts)
    \o (IF format >= Version_0_8_7 THEN Word(p.typ, 10, p.veto) ELSE <<>>)
    \o Word(p.typ, 15, p.timestamp)

PulseWords(p) ==
  Word("pulse", IF p.invalid THEN 8 ELSE 0, p.amplitude)
    \o (IF p.hasTimeOfArrival THEN Word("pulseToa", 0, p.timeOfArrival) ELSE <<>>)

EncodePacket(p, format) ==
  CASE p.typ = "streamAlign" -> IF format >= Version_0_9_0 THEN AlignWord ELSE <<>>
    [] p.typ = "pulse" -> PulseWords(p)
    [] p.typ = "gateState" -> Word(p.typ, IF p.gate THEN 1 ELSE 0, p.timestamp)
    [] p.typ = "sync" -> Word(p.typ, 0, p.timestamp)
    [] p.typ = "overflow" -> Word(p.typ, 1, p.timestamp)
    [] p.typ = "spatialPosition" -> Word(p.typ, 0, p.axis) \o Word(p.typ, 15, p.timestamp)
    [] p.typ \in Stats -> EncodedStats(p, format)
    [] p.typ = "analogStatus" ->
         IF format <= Version_0_7_1 THEN Word("overflow", 0, p.saturation) ELSE <<>>

(* SincListModeEncodeHeader: a line, the length of the JSON, its end, and  *)
(* the JSON.  A parameter whose line is too long is left out.              *)
HeaderLine == 1000
EndOfLine == 1001
Digits(n) == 2000 + n
LongestLine == 255
MaxJson == 900

Json(lines) == <<3000>> \o SelectSeq(lines, LAMBDA l : l < LongestLine) \o <<3001>>
EncodeHeader(lines) == <<HeaderLine, Digits(Len(Json(lines))), EndOfLine>> \o Json(lines)

-----------------------------------------------------------------------------
(* LmBufClear, LmBufAddData and the buffer's tail.                         *)
Clear == [buf |-> <<>>, srcTailPos |-> 0, scanStreamAlign |-> FALSE]
Added(b, data) == [b EXCEPT !.buf = @ \o data]
Skip(b, n) == [b EXCEPT !.buf = SubSeq(@, n + 1, Len(@)), !.srcTailPos = @ + n]

(* LMBUF_CHECK_WORD_AVAILABLE: there has to be more than the word itself.  *)
Available(buf, offset) == Len(buf) > (offset + 1) * WordUnits

WordAt(buf, offset) == SubSeq(buf, offset * WordUnits + 1, (offset + 1) * WordUnits)
EventType(buf, offset) == WordAt(buf, offset)[2] \div 16
Subtype(buf, offset) == WordAt(buf, offset)[2] % 16
Value(buf, offset) == WordAt(buf, offset)[1]
SignExtended(value) == IF value >= Width \div 2 THEN value - Width ELSE value

(* What a decoder returns: a packet of some words, a corrupted one, or     *)
(* nothing as long as it is not complete.                                  *)
Found(p, words) == [packet |-> <<p>>, size |-> words * WordUnits]
Corrupted(words) == Found([typ |-> "error"], words)
Incomplete == [packet |-> <<>>, size |-> 0]

(* LmBufGetPulsePacket: the next word tells whether the pulse has a time.  *)
GetPulsePacket(buf) ==
  LET timed == EventType(buf, 1) = EventTypes["pulseToa"]
  IN  IF ~Available(buf, 1) THEN Incomplete
      ELSE Found([typ |-> "pulse", invalid |-> Subtype(buf, 0) >= 8,
                  amplitude |-> SignExtended(Value(buf, 0)), hasTimeOfArrival |-> timed,
                  timeOfArrival |-> IF timed THEN Value(buf, 1) ELSE 0],
                 IF timed THEN 2 ELSE 1)

GetStreamAlignPacket(buf) ==
  IF WordAt(buf, 0) # AlignWord THEN Corrupted(1) ELSE Found([typ |-> "streamAlign"], 1)

GetGateStatePacket(buf) ==
  Found([typ |-> "gateState", gate |-> Subtype(buf, 0) % 2 = 1, timestamp |-> Value(buf, 0)], 1)

(* A sync packet and the one that reports an overflow of the device.       *)
GetStampPacket(name, buf) == Found([typ |-> name, timestamp |-> Value(buf, 0)], 1)

(* LmBufGetNumberedPacket: the words may come in any order, and the one of *)
(* subtype 15 ends the packet.                                             *)
Field(buf, last, subtype) ==
  LET having == {n \in 0..last : Subtype(buf, n) = subtype}
  IN  IF having = {} THEN 0 ELSE Value(buf, CHOOSE n \in having : \A m \in having : m <= n)

NumberedPacket(name, buf, last) ==
  LET field(subtype) == Field(buf, last, subtype)
      count == field(1) * Width + field(0)
  IN  IF name = "spatialPosition"
      THEN [typ |-> name, axis |-> SignExtended(field(0)), timestamp |-> field(15)]
      ELSE [typ |-> name, counts |-> field(2), veto |-> field(10), timestamp |-> field(15),
            sampleCount |-> CASE name = "gatedStats" -> count
                              [] name = "spatialStats" -> count % CountWidth
                              [] name = "periodicStats" -> field(0)]

GetNumberedPacket(name, buf) ==
  LET mismatch(n) == EventType(buf, n) # EventTypes[name]
      ends == {n \in 0..LongestRun - 1 :
                 Available(buf, n) /\ (mismatch(n) \/ Subtype(buf, n) = 15)}
      last == CHOOSE n \in ends : \A m \in ends : n <= m
  IN  IF ends # {}
      THEN IF mismatch(last) THEN Corrupted(last)
           ELSE Found(NumberedPacket(name, buf, last), last + 1)
      ELSE IF Available(buf, LongestRun - 1) THEN Corrupted(LongestRun) ELSE Incomplete

Decode(buf) ==
  LET is(name) == EventType(buf, 0) = EventTypes[name]
  IN  CASE is("pulse") -> GetPulsePacket(buf)
        [] is("streamAlign") -> GetStreamAlignPacket(buf)
        [] is("gateState") -> GetGateStatePacket(buf)
        [] is("sync") -> GetStampPacket("sync", buf)
        [] is("overflow") -> GetStampPacket("overflow", buf)
        [] \E name \in Numbered : is(name) ->
             GetNumberedPacket(CHOOSE name \in Numbered : is(name), buf)
        [] OTHER -> Corrupted(1)

(* LmBufScanStreamAlign: up to the first alignment word at any place, or   *)
(* all but what may be the start of one.                                   *)
AlignPlaces(buf) ==
  {n \in 0..Len(buf) - WordUnits : SubSeq(buf, n + 1, n + WordUnits) = AlignWord}

Fault_ScanStreamAlign(b) ==
  LET places == AlignPlaces(b.buf)
  IN  IF places = {} THEN Skip(b, Len(b.buf))
      ELSE Skip(b, CHOOSE n \in places : \A m \in places : n <= m)
ScanStreamAlign(b) ==
  LET places == AlignPlaces(b.buf)
  IN  IF places = {} THEN Skip(b, Len(b.buf) - WordUnits + 1)
      ELSE Skip(b, CHOOSE n \in places : \A m \in places : n <= m)

(* LmBufGetNextPacket: the buffer afterwards and the packet, if any.       *)
Took(b, decoded) ==
  [packet |-> decoded.packet, size |-> decoded.size,
   buffer |-> IF decoded.packet = <<>> THEN b
              ELSE [Skip(b, decoded.size) EXCEPT
                      !.scanStreamAlign = CASE decoded.packet[1].typ = "error" -> TRUE
                                            [] decoded.packet[1].typ = "streamAlign" -> FALSE
                                            [] OTHER -> @]]

GetNextPacket(b) ==
  LET scanned == IF b.scanStreamAlign THEN ScanStreamAlign(b) ELSE b
  IN  IF ~Available(b.buf, 0) THEN Took(b, Incomplete)
      ELSE IF b.scanStreamAlign /\ AlignPlaces(b.buf) = {} THEN Took(scanned, Incomplete)
      ELSE Took(scanned, Decode(scanned.buf))

(* LmBufGetJsonHeader.  What it has taken stays taken when the rest of the *)
(* header is not there yet, so that it does not find it the next time.     *)
GetJsonHeader(b) ==
  LET length == b.buf[2] - Digits(0)
      rest == Len(b.buf) - 3
  IN  IF Len(b.buf) < 2 THEN [answer |-> "incomplete", buffer |-> b]
      ELSE IF b.buf[1] # HeaderLine THEN [answer |-> "invalid", buffer |-> b]
      ELSE IF rest < 0 THEN [answer |-> "incomplete", buffer |-> Skip(b, 2)]
      ELSE IF length > MaxJson THEN [answer |-> "invalid", buffer |-> Skip(b, 3)]
      ELSE IF rest < length THEN [answer |-> "incomplete", buffer |-> Skip(b, 3)]
      ELSE [answer |-> "read", buffer |-> Skip(b, 3 + length)]

-----------------------------------------------------------------------------
PacketsInit ==
  /\ version \in Versions
  /\ \/ header = "none" /\ toAdd = <<>>
     \/ header = "wanted" /\ toAdd = EncodeHeader(Parameters)
  /\ lm = Clear /\ asked = FALSE
  /\ items = <<>> /\ packets = <<>>

Length == lm.srcTailPos + Len(lm.buf) + Len(toAdd)

Sends(p, units) ==
  /\ units # <<>> /\ Len(items) < MaxItems /\ Length + Len(units) <= MaxUnits
  /\ items' = Append(items, [at |-> Length, end |-> Length + Len(units), packet |-> p])
  /\ toAdd' = toAdd \o units
  /\ UNCHANGED <<version, lm, header, asked, packets>>

SendsPacket == \E p \in Packets : Sends(p, EncodePacket(p, version))
LineBreaks ==
  /\ Len(SelectSeq(items, LAMBDA i : i.packet.typ = "break")) < MaxBreaks
  /\ \E units \in Breaks : Sends([typ |-> "break"], units)

AddData ==
  /\ \E n \in 1..Len(toAdd) :
       /\ lm' = Added(lm, SubSeq(toAdd, 1, n))
       /\ toAdd' = SubSeq(toAdd, n + 1, Len(toAdd))
  /\ UNCHANGED <<version, header, asked, items, packets>>

(* Whoever reads gives up on a header that is refused.                     *)
ReadHeader ==
  /\ header = "wanted"
  /\ LET result == GetJsonHeader(lm)
     IN  /\ lm' = result.buffer
         /\ header' = IF result.answer = "incomplete" THEN header ELSE result.answer
         /\ asked' = (asked \/ result.answer = "incomplete")
  /\ UNCHANGED <<version, toAdd, items, packets>>

NextPacket ==
  /\ header \in {"none", "read"}
  /\ \E result \in {GetNextPacket(lm)} :
       /\ lm' = result.buffer
       /\ packets' = IF result.packet = <<>> THEN packets
                     ELSE Append(packets, [packet |-> result.packet[1],
                                           at |-> lm'.srcTailPos - result.size,
                                           end |-> lm'.srcTailPos])
  /\ UNCHANGED <<version, toAdd, header, asked, items>>

PacketsNext == SendsPacket \/ LineBreaks \/ AddData \/ ReadHeader \/ NextPacket
-----------------------------------------------------------------------------
(* What a stream of this format carries of a packet.                       *)
Carried(p) ==
  IF p.typ \in Stats /\ version < Version_0_8_7 THEN [p EXCEPT !.veto = 0] ELSE p

IsBreak(i) == items[i].packet.typ = "break"

(* The reader is in step at an item: nothing was lost before it, or an     *)
(* alignment word was sent since, none of which was taken for the end of a *)
(* damaged packet that began before it.  An item that data is lost next to *)
(* may be taken together with what follows the loss.                       *)
InStep(i) ==
  LET since == {j \in 1..i : \A k \in j..i : ~IsBreak(k)}
      swallowed(j) == \E g \in DOMAIN packets :
                        packets[g].at < items[j].at /\ items[j].at < packets[g].end
  IN  /\ since # {}
      /\ \/ 1 \in since
         \/ \E j \in since : items[j].packet.typ = "streamAlign" /\ ~swallowed(j)
      /\ i < Len(items) => ~IsBreak(i + 1)

(* In step, the reader finds the packets that were sent, each at its place *)
(* and with its values, whatever pieces they arrive in, and no others; it  *)
(* keeps back only the last two until more arrives.  A header is refused   *)
(* only when it was asked for too early.                                   *)
PacketsFound ==
  /\ \A i \in DOMAIN items :
       InStep(i) =>
         LET found(g) == packets[g] = [items[i] EXCEPT !.packet = Carried(@)]
             settled == toAdd = <<>> /\ GetNextPacket(lm).packet = <<>>
         IN  /\ \A g \in DOMAIN packets :
                  (packets[g].at < items[i].end /\ items[i].at < packets[g].end) => found(g)
             /\ (\/ items[i].end <= lm.srcTailPos
                 \/ settled /\ header \in {"none", "read"} /\ i < Len(items) - 1)
                  => \E g \in DOMAIN packets : found(g)
  /\ header = "invalid" => asked
=============================================================================
