----------------------------- MODULE SincStream -----------------------------
(***************************************************************************)
(* The byte stream from a FalconXN module and the reader that cuts it into *)
(* messages.  A packet is a marker, the length of its payload and the      *)
(* payload: a code, and for a protobuf message its type and its content.   *)
(* The stream arrives in pieces of any size; the reader keeps what it has  *)
(* in a buffer of its own between two calls.                               *)
(*                                                                         *)
(* A unit stands for one or more bytes: the marker is two units here and   *)
(* four bytes in the code, the length one unit and four bytes.             *)
(***************************************************************************)
EXTENDS Integers, Sequences, SequencesExt

CONSTANTS
  Contents,  \* contents of messages
  Noise,     \* what the line may carry between packets
  MaxSent    \* bound: packets and pieces of noise sent

Marker == <<8, 9>>
MaxPayload == 7
Protobuf == 3
ShortHeader == Len(Marker) + 1

StreamMessage == {1} \X Contents
Packet(message) == Marker \o <<Len(message[2]) + 2, Protobuf, message[1]>> \o message[2]

ASSUME StreamAssumption ==
  /\ \A c \in Contents : Len(c) + 2 <= MaxPayload
  /\ MaxSent \in Nat

VARIABLES
  line,     \* sent and not yet read from the socket
  readBuf,  \* sc->readBuf
  reading,  \* SincReadMessage: idle, drain, wait
  fresh,    \* readSomeData
  sent,     \* history: the messages sent
  count,    \* packets and pieces of noise sent
  got       \* history: the messages returned

streamVars == <<line, readBuf, reading, fresh, sent, count, got>>

StreamInit ==
  /\ line = <<>> /\ readBuf = <<>>
  /\ reading = "idle" /\ fresh = FALSE
  /\ sent = <<>> /\ count = 0 /\ got = <<>>

(***************************************************************************)
(* SincDecodePacketEncapsulation, from the unit after the first `used' of  *)
(* the buffer.  The result says how many units to drop and which messages, *)
(* none or one, they held.                                                 *)
(***************************************************************************)
Nothing(used) == [used |-> used, message |-> <<>>]

MarksAfter(buf, used) ==
  {i \in used .. Len(buf) - Len(Marker) : SubSeq(buf, i + 1, i + Len(Marker)) = Marker}

(* With no marker in sight all but the last units go, as they may be the   *)
(* start of one.  The code sets the count here where it adds elsewhere: of *)
(* the packets skipped before, a part stays in the buffer.                 *)
Fault_Unmarked(buf, used) == Nothing(Len(buf) - used)
Unmarked(buf, used) == Nothing(Len(buf) - used - Len(Marker))

Fault_Whole(buf, start) == buf[start + ShortHeader] < Len(buf) - start - ShortHeader
Whole(buf, start) == buf[start + ShortHeader] <= Len(buf) - start - ShortHeader

Decoded[buf \in Seq(Nat), used \in Nat] ==
  LET marks == MarksAfter(buf, used)
      start == CHOOSE i \in marks : \A j \in marks : i <= j
      length == buf[start + ShortHeader]
      end == start + ShortHeader + length
  IN  IF Len(buf) - used < ShortHeader THEN Nothing(used)
      ELSE IF marks = {} THEN Unmarked(buf, used)
      ELSE IF Len(buf) - start < ShortHeader THEN Nothing(used)
      ELSE IF length \notin 1 .. MaxPayload THEN Decoded[buf, start + Len(Marker)]
      ELSE IF ~Whole(buf, start) THEN Nothing(start)
      ELSE IF buf[start + ShortHeader + 1] # Protobuf THEN Decoded[buf, end]
      ELSE [used |-> end,
            message |-> <<<<buf[start + ShortHeader + 2],
                            SubSeq(buf, start + ShortHeader + 3, end)>>>>]

(* SincGetNextPacketFromBufferGeneric: again as long as units were dropped *)
(* and no message was found.                                               *)
Again(found) == found.used > 0 /\ found.message = <<>>

Extracted[buf \in Seq(Nat)] ==
  LET found == Decoded[buf, 0]
      rest == SubSeq(buf, found.used + 1, Len(buf))
  IN  IF Again(found) THEN Extracted[rest]
      ELSE [message |-> found.message, rest |-> rest]

(* The reader looks in its buffer: with a message it returns, without one  *)
(* it goes on as `otherwise'.                                              *)
Look(otherwise) ==
  LET next == Extracted[readBuf]
  IN  /\ readBuf' = next.rest
      /\ got' = got \o next.message
      /\ reading' = IF next.message # <<>> THEN "idle" ELSE otherwise
      /\ UNCHANGED <<line, sent, count>>

(***************************************************************************)
(* SincReadMessage.  The socket has something whenever the line does; a    *)
(* read takes any part of it, the rest being still on its way.             *)
(***************************************************************************)
Call == reading = "idle" /\ Look("drain") /\ fresh' = FALSE

Read ==
  /\ reading = "drain" /\ line # <<>>
  /\ \E n \in 1 .. Len(line) :
       /\ readBuf' = readBuf \o SubSeq(line, 1, n)
       /\ line' = SubSeq(line, n + 1, Len(line))
  /\ fresh' = TRUE
  /\ UNCHANGED <<reading, sent, count, got>>

(* Nothing more is available for now: what is left on the line is later.   *)
Drained ==
  /\ reading = "drain"
  /\ IF fresh THEN Look("wait")
     ELSE reading' = "wait" /\ UNCHANGED <<line, readBuf, sent, count, got>>
  /\ fresh' = FALSE

Arrives ==
  /\ reading = "wait" /\ line # <<>>
  /\ reading' = "drain"
  /\ UNCHANGED <<line, readBuf, fresh, sent, count, got>>

(* The wait is 100 ms; the receiver thread calls again.                    *)
TimesOut ==
  /\ reading = "wait"
  /\ reading' = "idle"
  /\ UNCHANGED <<line, readBuf, fresh, sent, count, got>>

(***************************************************************************)
(* The module, at the other end.                                           *)
(***************************************************************************)
Puts(units) ==
  /\ count < MaxSent
  /\ count' = count + 1
  /\ line' = line \o units
  /\ UNCHANGED <<readBuf, reading, fresh, got>>

SendsMessage == \E m \in StreamMessage : Puts(Packet(m)) /\ sent' = Append(sent, m)
SendsNoise == \E n \in Noise : Puts(n) /\ UNCHANGED sent

Reader == Call \/ Read \/ Drained \/ Arrives \/ TimesOut

StreamNext == Reader \/ SendsMessage \/ SendsNoise

(* The receiver thread keeps calling until the module is closed, and what  *)
(* is on the line arrives.                                                 *)
StreamSpec ==
  StreamInit /\ [][StreamNext]_streamVars /\ WF_streamVars(Reader) /\ SF_streamVars(Read)
-----------------------------------------------------------------------------
(* The reader is a queue of messages: whatever the pieces the stream       *)
(* arrives in and whatever lies between two packets, it returns the        *)
(* messages sent, each once, whole and in order.                           *)
Messages ==
  INSTANCE MessageQueue
    WITH Message <- StreamMessage,
         queue <- SubSeq(sent, Len(got) + 1, Len(sent)),
         taken <- IF got = <<>> THEN <<>> ELSE <<Last(got)>>

Delivers == Messages!QueueSpec

(* It returns every one of them in the end, also when nothing follows it.  *)
EveryMessageReturned ==
  \A n \in 1 .. MaxSent : Len(sent) >= n ~> Len(got) >= n
=============================================================================
