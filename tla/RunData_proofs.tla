--------------------------- MODULE RunData_proofs ---------------------------
(***************************************************************************)
(* Proofs about one channel's data in mapping mode 0 and in list mode, for *)
(* any settings, buffer size and packets, and for any number of runs, data *)
(* sets and changes: what a read returns is the histogram received last,   *)
(* every list mode word is in a buffer, handed over or reported lost, and  *)
(* the answers about a run agree with what is read of it.                  *)
(***************************************************************************)
EXTENDS RunData, MappingBuffers_proofs

States == {"Ready", "Histogram", "ListMode"}
StateMessage == [type : {"state"}, state : States]
HistogramMessage ==
  [type : {"histogram"}, set : Nat \ {0}, accepted : Nat, rejected : Nat]
ListMessage == [type : {"list"}, set : Nat, words : Nat \ {0}]
Message == StateMessage \cup HistogramMessage \cup ListMessage

Parts == {"accepted", "rejected", "stats", "list"}
Word == [part : Parts, set : Nat, at : Nat]

DataTypeOK ==
  /\ settings \in Settings /\ device \in States /\ channelState \in States
  /\ wire \in Seq(Message) /\ mode \in Modes \cup {"NIL"}
  /\ mmb \in Buffers(Word) /\ numBins \in Nat
  /\ latest \in HistogramMessage \cup {NoHistogram} /\ statistics \in Nat
  /\ sent \in Seq(Word) /\ handed \in Seq(Word) /\ lost \in Nat /\ warned \in BOOLEAN
  /\ sets \in Nat

---------------------------------------------------------------------------
(* The constants and what is made of them.                                 *)
LEMMA ConstantsType ==
  /\ StatsWords \in Nat \ {0} /\ ListWords \in Nat \ {0} /\ HeaderWords \in Nat
  /\ \A b \in Bins : b \in Nat \ {0}
  /\ \A w \in PacketSizes : w \in Nat \ {0}
BY DataAssumption, RunDataAssumption

LEMMA WordsType ==
  ASSUME NEW part \in Parts, NEW set \in Nat, NEW n \in Nat
  PROVE  /\ Words(part, set, n) \in Seq(Word) /\ Len(Words(part, set, n)) = n
         /\ \A i \in 1 .. n : Words(part, set, n)[i].set = set
<1>1. \A i \in 1 .. n : [part |-> part, set |-> set, at |-> i] \in Word
  BY DEF Word
<1>2. Words(part, set, n) \in [1 .. n -> Word]
  BY <1>1 DEF Words
<1>3. Words(part, set, n) \in Seq(Word) /\ Len(Words(part, set, n)) = n
  BY <1>2, SeqDef, LenProperties
<1>4. \A i \in 1 .. n : Words(part, set, n)[i].set = set
  BY DEF Words
<1>5. QED BY <1>3, <1>4

LEMMA WordsConcat ==
  ASSUME NEW s \in Seq(Word), NEW t \in Seq(Word), NEW u \in Seq(Word)
  PROVE  s \o t \in Seq(Word) /\ (s \o t) \o u = s \o (t \o u)
BY ConcatProperties, ConcatAssociative

(* Where the words of a concatenation come from.                           *)
LEMMA ConcatSets ==
  ASSUME NEW s \in Seq(Word), NEW t \in Seq(Word), NEW set,
         \A i \in 1 .. Len(s) : s[i].set = set,
         \A i \in 1 .. Len(t) : t[i].set = set
  PROVE  \A i \in 1 .. Len(s \o t) : (s \o t)[i].set = set
<1> SUFFICES ASSUME NEW i \in 1 .. Len(s \o t) PROVE (s \o t)[i].set = set
  OBVIOUS
<1>1. Len(s) \in Nat /\ Len(t) \in Nat /\ Len(s \o t) = Len(s) + Len(t)
  BY ConcatProperties
<1>2. CASE i <= Len(s)
  BY <1>1, <1>2, ConcatProperties
<1>3. CASE i > Len(s)
  <2>1. i - Len(s) \in 1 .. Len(t) /\ (s \o t)[i] = t[i - Len(s)]
    BY <1>1, <1>3, ConcatProperties
  <2>2. QED BY <2>1
<1>4. QED BY <1>1, <1>2, <1>3

---------------------------------------------------------------------------
(* The double buffer as these modes use it: no pixel count ends a buffer   *)
(* and no stop is told to it, and the words in a buffer are its level.     *)
Fits(buf, size) == buf.level = Len(buf.data) /\ buf.level <= size
Counted(m) ==
  /\ m \in Buffers(Word) /\ m.numPixels = 0 /\ ~m.stopped
  /\ Fits(ActiveBuffer(m), m.size) /\ Fits(NextBuffer(m), m.size)

HeldData(m) == ActiveBuffer(m).data \o NextBuffer(m).data

LEMMA BuffersType ==
  ASSUME NEW m \in Buffers(Word)
  PROVE  /\ ActiveBuffer(m) \in Buffer(Word) /\ NextBuffer(m) \in Buffer(Word)
         /\ ActiveBuffer(m).level \in Nat /\ NextBuffer(m).level \in Nat
         /\ ActiveBuffer(m).data \in Seq(Word) /\ NextBuffer(m).data \in Seq(Word)
         /\ ActiveBuffer(m).next \in Nat /\ ActiveBuffer(m).done \in BOOLEAN
         /\ m.size \in Nat /\ m.bufferOverruns \in Nat /\ HeldData(m) \in Seq(Word)
<1>1. ActiveBuffer(m) \in Buffer(Word) /\ NextBuffer(m) \in Buffer(Word)
  BY NextBufferId DEF ActiveBuffer, NextBuffer, Buffers
<1>2. m.size \in Nat /\ m.bufferOverruns \in Nat
  BY DEF Buffers
<1>3. QED BY <1>1, <1>2, ConcatProperties DEF Buffer, HeldData

LEMMA OpenCounted ==
  ASSUME NEW size \in Nat
  PROVE  LET m == Buffers_Open(size, 0)
         IN  /\ Counted(m) /\ m.size = size
             /\ ActiveBuffer(m).level = 0 /\ ActiveBuffer(m).data = << >>
             /\ NextBuffer(m).data = << >>
<1> DEFINE m == Buffers_Open(size, 0)
<1>1. m \in Buffers(Word)
  BY OpenType
<1>2. m.size = size /\ m.numPixels = 0 /\ ~m.stopped
  BY DEF Buffers_Open
<1>3. ActiveBuffer(m) = EmptyBuffer /\ NextBuffer(m) = EmptyBuffer
  BY DEF Buffers_Open, ActiveBuffer, NextBuffer, Buffers_Next, BufferIds
<1> HIDE DEF m
<1>4. EmptyBuffer.level = 0 /\ EmptyBuffer.data = << >> /\ Len(<< >>) = 0
  BY DEF EmptyBuffer
<1>5. QED BY <1>1, <1>2, <1>3, <1>4 DEF Counted, Fits, m

LEMMA ToggleCounted ==
  ASSUME NEW m, Counted(m)
  PROVE  LET t == Buffers_Toggle(m)
         IN  /\ Counted(t) /\ t.size = m.size
             /\ ActiveBuffer(t).level = NextBuffer(m).level
             /\ ActiveBuffer(t).data = NextBuffer(m).data
             /\ NextBuffer(t) = ActiveBuffer(m)
             /\ ~ActiveBuffer(t).done /\ t.active # m.active
             /\ t.bufferOverruns = m.bufferOverruns
<1> DEFINE t == Buffers_Toggle(m)
<1>1. m \in Buffers(Word)
  BY DEF Counted
<1>2. t \in Buffers(Word)
  BY <1>1, ToggleType
<1>3. /\ NextBuffer(t) = ActiveBuffer(m) /\ t.size = m.size
      /\ ActiveBuffer(t) = [NextBuffer(m) EXCEPT !.done = FALSE, !.next = 0]
      /\ t.active # m.active
  BY <1>1, ToggleRoles, NextBufferId
<1>4. t.bufferOverruns = m.bufferOverruns /\ t.numPixels = m.numPixels
      /\ t.stopped = m.stopped
  BY <1>1, ToggleFlags
<1> HIDE DEF t
<1>5. /\ ActiveBuffer(t).level = NextBuffer(m).level
      /\ ActiveBuffer(t).data = NextBuffer(m).data /\ ~ActiveBuffer(t).done
  BY <1>1, <1>3, BuffersType DEF Buffer
<1>6. QED BY <1>2, <1>3, <1>4, <1>5 DEF Counted, Fits, t

(* Words that fit.                                                         *)
LEMMA CopyCounted ==
  ASSUME NEW m, Counted(m), NEW words \in Seq(Word),
         NextBuffer(m).level + Len(words) <= m.size
  PROVE  LET n == Buffers_CopyInWords(m, words)
         IN  /\ Counted(n) /\ OnlyNext(m, n) /\ n.bufferOverruns = m.bufferOverruns
             /\ NextBuffer(n).data = NextBuffer(m).data \o words
             /\ NextBuffer(n).level = NextBuffer(m).level + Len(words)
<1> DEFINE n == Buffers_CopyInWords(m, words)
<1>1. m \in Buffers(Word)
  BY DEF Counted
<1>2. /\ n \in Buffers(Word) /\ OnlyNext(m, n) /\ n.bufferOverruns = m.bufferOverruns
      /\ NextBuffer(n) = [NextBuffer(m) EXCEPT !.level = @ + Len(words), !.data = @ \o words]
  BY <1>1, CopyInWordsContents
<1> HIDE DEF n
<1>3. /\ NextBuffer(n).data = NextBuffer(m).data \o words
      /\ NextBuffer(n).level = NextBuffer(m).level + Len(words)
  BY <1>1, <1>2, BuffersType DEF Buffer
<1>4. Len(NextBuffer(n).data) = Len(NextBuffer(m).data) + Len(words)
  BY <1>1, <1>3, BuffersType, ConcatProperties
<1>5. QED BY <1>2, <1>3, <1>4 DEF Counted, Fits, OnlyNext, n

(* What an operation on the Active buffer that keeps its words does.       *)
LEMMA ActiveCounted ==
  ASSUME NEW m, Counted(m), NEW buf \in Buffer(Word), Fits(buf, m.size)
  PROVE  LET n == WithBuffer(m, m.active, buf)
         IN  /\ Counted(n) /\ n.size = m.size /\ n.active = m.active
             /\ ActiveBuffer(n) = buf /\ NextBuffer(n) = NextBuffer(m)
             /\ n.bufferOverruns = m.bufferOverruns
<1>1. m \in Buffers(Word)
  BY DEF Counted
<1>2. QED BY <1>1, WithActiveBuffer DEF Counted

LEMMA CopyOutCounted ==
  ASSUME NEW m, Counted(m), NEW k \in Nat
  PROVE  LET n == WithBuffer(m, m.active, [ActiveBuffer(m) EXCEPT !.next = k])
         IN  /\ Counted(n) /\ n.size = m.size /\ n.active = m.active
             /\ ActiveBuffer(n).level = ActiveBuffer(m).level
             /\ ActiveBuffer(n).data = ActiveBuffer(m).data
             /\ ActiveBuffer(n).done = ActiveBuffer(m).done
             /\ ActiveBuffer(n).next = k
             /\ NextBuffer(n) = NextBuffer(m)
             /\ n.bufferOverruns = m.bufferOverruns
<1> DEFINE buf == [ActiveBuffer(m) EXCEPT !.next = k]
<1>1. ActiveBuffer(m) \in Buffer(Word)
  BY BuffersType DEF Counted
<1>2. /\ buf \in Buffer(Word) /\ buf.next = k /\ buf.level = ActiveBuffer(m).level
      /\ buf.data = ActiveBuffer(m).data /\ buf.done = ActiveBuffer(m).done
  BY <1>1 DEF Buffer
<1> HIDE DEF buf
<1>3. Fits(buf, m.size)
  BY <1>2 DEF Counted, Fits
<1>4. QED BY <1>2, <1>3, ActiveCounted DEF buf

---------------------------------------------------------------------------
(* The state that is in force for the message at i: what the state message *)
(* before it that is the last one said, or what the receiver last heard.   *)
InForce(w, heard, i, s) ==
  \E j \in 0 .. i - 1 :
    /\ \/ j = 0 /\ heard = s
       \/ j > 0 /\ w[j] = [type |-> "state", state |-> s]
    /\ \A k \in j + 1 .. i - 1 : w[k].type # "state"

LEMMA ForceKept ==
  ASSUME NEW w \in Seq(Message), NEW msg \in Message, NEW heard, NEW s,
         NEW i \in 1 .. Len(w) + 1, InForce(w, heard, i, s)
  PROVE  InForce(Append(w, msg), heard, i, s)
<1>1. \A k \in 1 .. i - 1 : Append(w, msg)[k] = w[k]
  BY AppendProperties
<1>2. QED BY <1>1 DEF InForce

LEMMA ForceSet ==
  ASSUME NEW w \in Seq(Message), NEW heard, NEW s \in States
  PROVE  InForce(Append(w, [type |-> "state", state |-> s]), heard, Len(w) + 2, s)
<1> DEFINE msg == [type |-> "state", state |-> s]
<1>1. msg \in Message
  BY DEF Message, StateMessage
<1>2. Len(w) \in Nat /\ Append(w, msg)[Len(w) + 1] = msg
  BY <1>1, AppendProperties
<1>3. Len(w) + 1 \in 0 .. Len(w) + 2 - 1 /\ Len(w) + 1 > 0
      /\ Len(w) + 1 + 1 .. Len(w) + 2 - 1 = {}
  BY <1>2
<1>4. QED BY <1>2, <1>3 DEF InForce

LEMMA ForcePasses ==
  ASSUME NEW w \in Seq(Message), NEW msg \in Message, msg.type # "state", NEW heard, NEW s,
         InForce(w, heard, Len(w) + 1, s)
  PROVE  InForce(Append(w, msg), heard, Len(w) + 2, s)
<1>1. /\ Len(w) \in Nat
      /\ \A k \in 1 .. Len(w) : Append(w, msg)[k] = w[k]
      /\ Append(w, msg)[Len(w) + 1] = msg
  BY AppendProperties
<1>2. PICK j \in 0 .. Len(w) + 1 - 1 :
        /\ \/ j = 0 /\ heard = s
           \/ j > 0 /\ w[j] = [type |-> "state", state |-> s]
        /\ \A k \in j + 1 .. Len(w) + 1 - 1 : w[k].type # "state"
  BY DEF InForce
<1>3. j \in 0 .. Len(w) + 2 - 1
  BY <1>1
<1>4. j > 0 => Append(w, msg)[j] = w[j]
  BY <1>1
<1>5. \A k \in j + 1 .. Len(w) + 2 - 1 : Append(w, msg)[k].type # "state"
  <2>1. \A k \in j + 1 .. Len(w) + 2 - 1 :
          k = Len(w) + 1 \/ (k \in j + 1 .. Len(w) + 1 - 1 /\ k \in 1 .. Len(w))
    BY <1>1
  <2>2. QED BY <1>1, <1>2, <2>1
<1>6. QED BY <1>2, <1>3, <1>4, <1>5 DEF InForce

(* The receiver takes the first message.                                   *)
LEMMA ForceTail ==
  ASSUME NEW w \in Seq(Message), w # << >>, NEW heard, NEW s, NEW i \in 2 .. Len(w) + 1,
         InForce(w, heard, i, s), NEW now,
         now = IF Head(w).type = "state" THEN Head(w).state ELSE heard
  PROVE  InForce(Tail(w), now, i - 1, s)
<1>1. /\ Len(w) \in Nat /\ Head(w) = w[1]
      /\ \A k \in 2 .. Len(w) : k - 1 \in 1 .. Len(Tail(w)) /\ Tail(w)[k - 1] = w[k]
  BY HeadTailProperties, EmptySeq
<1>2. PICK j \in 0 .. i - 1 :
        /\ \/ j = 0 /\ heard = s
           \/ j > 0 /\ w[j] = [type |-> "state", state |-> s]
        /\ \A k \in j + 1 .. i - 1 : w[k].type # "state"
  BY DEF InForce
<1>3. \A k \in 1 .. i - 1 - 1 : k + 1 \in 2 .. Len(w) /\ Tail(w)[k] = w[k + 1]
  <2>1. \A k \in 1 .. i - 1 - 1 : k + 1 \in 2 .. Len(w) /\ k + 1 - 1 = k
    BY <1>1
  <2>2. QED BY <1>1, <2>1
<1>4. CASE j <= 1
  <2>1. now = s
    <3>1. CASE j = 0
      <4>1. 1 \in j + 1 .. i - 1
        BY <3>1
      <4>2. Head(w).type # "state"
        BY <1>1, <1>2, <4>1
      <4>3. QED BY <1>2, <3>1, <4>2
    <3>2. CASE j = 1
      BY <1>1, <1>2, <3>2
    <3>3. QED BY <1>4, <3>1, <3>2
  <2>2. \A k \in 1 .. i - 1 - 1 : k + 1 \in j + 1 .. i - 1
    BY <1>4
  <2>3. \A k \in 1 .. i - 1 - 1 : Tail(w)[k].type # "state"
    BY <1>2, <1>3, <2>2
  <2>4. 0 \in 0 .. i - 1 - 1 /\ 0 + 1 = 1
    OBVIOUS
  <2>5. QED BY <2>1, <2>3, <2>4 DEF InForce
<1>5. CASE j > 1
  <2>1. j - 1 \in 0 .. i - 1 - 1 /\ j - 1 \in 1 .. i - 1 - 1 /\ j - 1 > 0 /\ j > 0 /\ j - 1 + 1 = j
        /\ j # 0
    BY <1>5
  <2>2. Tail(w)[j - 1] = [type |-> "state", state |-> s]
    BY <1>2, <1>3, <2>1
  <2>3. \A k \in j - 1 + 1 .. i - 1 - 1 : k \in 1 .. i - 1 - 1 /\ k + 1 \in j + 1 .. i - 1
    BY <1>5
  <2>4. \A k \in j - 1 + 1 .. i - 1 - 1 : Tail(w)[k].type # "state"
    BY <1>2, <1>3, <2>3
  <2>5. QED BY <2>1, <2>2, <2>4 DEF InForce
<1>6. QED BY <1>4, <1>5

(* Data of a mode is on its way only after the word that the channel went  *)
(* to the state of that mode.                                              *)
WireInv ==
  /\ InForce(wire, channelState, Len(wire) + 1, device)
  /\ \A i \in DOMAIN wire, m \in Modes :
       wire[i].type = DataOf[m] => InForce(wire, channelState, i, RunStates[m])

LEMMA WireSent ==
  ASSUME DataTypeOK, WireInv, NEW msg \in Message, wire' = Append(wire, msg),
         channelState' = channelState, device' \in States,
         \/ msg = [type |-> "state", state |-> device']
         \/ /\ msg.type # "state" /\ device' = device
            /\ \A m \in Modes : msg.type = DataOf[m] => device = RunStates[m]
  PROVE  WireInv'
<1> USE DEF DataTypeOK
<1>1. /\ Len(wire) \in Nat /\ Len(wire') = Len(wire) + 1 /\ DOMAIN wire = 1 .. Len(wire)
      /\ DOMAIN wire' = 1 .. Len(wire) + 1 /\ wire'[Len(wire) + 1] = msg
      /\ \A i \in DOMAIN wire : wire'[i] = wire[i]
  BY AppendProperties
<1>2. InForce(wire', channelState, Len(wire') + 1, device')
  <2>1. Len(wire') + 1 = Len(wire) + 2
    BY <1>1
  <2>2. CASE msg = [type |-> "state", state |-> device']
    BY <2>1, <2>2, ForceSet
  <2>3. CASE msg.type # "state" /\ device' = device
    BY <2>1, <2>3, ForcePasses DEF WireInv
  <2>4. QED BY <2>2, <2>3
<1>3. ASSUME NEW i \in DOMAIN wire', NEW m \in Modes, wire'[i].type = DataOf[m]
      PROVE  InForce(wire', channelState, i, RunStates[m])
  <2>1. i \in DOMAIN wire \/ i = Len(wire) + 1
    BY <1>1
  <2>2. i \in 1 .. Len(wire) + 1
    BY <1>1
  <2>3. CASE i \in DOMAIN wire
    <3>1. InForce(wire, channelState, i, RunStates[m])
      BY <1>1, <1>3, <2>3 DEF WireInv
    <3>2. QED BY <2>2, <3>1, ForceKept
  <2>4. CASE i = Len(wire) + 1
    <3>1. msg.type = DataOf[m] /\ DataOf[m] # "state"
      BY <1>1, <1>3, <2>4 DEF DataOf, Modes
    <3>2. device = RunStates[m]
      BY <3>1
    <3>3. InForce(wire, channelState, i, RunStates[m])
      BY <2>4, <3>2 DEF WireInv
    <3>4. QED BY <2>2, <3>3, ForceKept
  <2>5. QED BY <2>1, <2>3, <2>4
<1>4. QED BY <1>2, <1>3 DEF WireInv

LEMMA WireTaken ==
  ASSUME DataTypeOK, WireInv, wire # << >>, wire' = Tail(wire), device' = device,
         channelState' = IF Head(wire).type = "state" THEN Head(wire).state ELSE channelState
  PROVE  WireInv'
<1> USE DEF DataTypeOK
<1>1. /\ Len(wire) \in Nat \ {0} /\ Len(wire') = Len(wire) - 1
      /\ DOMAIN wire = 1 .. Len(wire) /\ DOMAIN wire' = 1 .. Len(wire) - 1
      /\ \A k \in 2 .. Len(wire) : wire'[k - 1] = wire[k]
  BY HeadTailProperties, EmptySeq
<1>2. InForce(wire', channelState', Len(wire') + 1, device')
  <2>1. Len(wire) + 1 \in 2 .. Len(wire) + 1 /\ Len(wire') + 1 = Len(wire) + 1 - 1
    BY <1>1
  <2>2. QED BY <2>1, ForceTail DEF WireInv
<1>3. ASSUME NEW i \in DOMAIN wire', NEW m \in Modes, wire'[i].type = DataOf[m]
      PROVE  InForce(wire', channelState', i, RunStates[m])
  <2>1. /\ i + 1 \in 2 .. Len(wire) /\ i + 1 \in 2 .. Len(wire) + 1 /\ i + 1 - 1 = i
        /\ i + 1 \in DOMAIN wire
    BY <1>1
  <2>2. InForce(wire, channelState, i + 1, RunStates[m])
    <3>1. wire'[i] = wire[i + 1]
      BY <1>1, <2>1
    <3>2. QED BY <1>3, <2>1, <3>1 DEF WireInv
  <2>3. QED BY <2>1, <2>2, ForceTail
<1>4. QED BY <1>2, <1>3 DEF WireInv

---------------------------------------------------------------------------
(* Mapping mode 0.  What the Active buffer holds of a histogram: the parts *)
(* that have the length the run was opened with, then the statistics.      *)
PartOf(name, h, n) == IF n = numBins THEN Words(name, h.set, n) ELSE << >>
SpectrumOf(h) ==
  PartOf("accepted", h, h.accepted) \o PartOf("rejected", h, h.rejected)
    \o Words("stats", h.set, StatsWords)

LEMMA PartType ==
  ASSUME NEW h \in HistogramMessage, NEW name \in {"accepted", "rejected"}, NEW n \in Nat,
         numBins \in Nat
  PROVE  /\ PartOf(name, h, n) \in Seq(Word) /\ Len(PartOf(name, h, n)) <= numBins
         /\ \A i \in 1 .. Len(PartOf(name, h, n)) : PartOf(name, h, n)[i].set = h.set
<1>1. h.set \in Nat
  BY DEF HistogramMessage
<1>2. CASE n = numBins
  <2>1. PartOf(name, h, n) = Words(name, h.set, n)
    BY <1>2 DEF PartOf
  <2>2. /\ Words(name, h.set, n) \in Seq(Word) /\ Len(Words(name, h.set, n)) = n
        /\ \A i \in 1 .. n : Words(name, h.set, n)[i].set = h.set
    <3>1. name \in Parts
      BY DEF Parts
    <3>2. \A k \in Nat : /\ Words(name, k, n) \in Seq(Word) /\ Len(Words(name, k, n)) = n
                         /\ \A i \in 1 .. n : Words(name, k, n)[i].set = k
      BY <3>1, WordsType
    <3>3. QED BY <1>1, <3>2
  <2>3. QED BY <1>2, <2>1, <2>2
<1>3. CASE n # numBins
  <2>1. PartOf(name, h, n) = << >>
    BY <1>3 DEF PartOf
  <2>2. Len(<< >>) = 0 /\ << >> \in Seq(Word)
    OBVIOUS
  <2>3. QED BY <2>1, <2>2
<1>4. QED BY <1>2, <1>3

LEMMA SpectrumOfOneSet ==
  ASSUME NEW h \in HistogramMessage, numBins \in Nat
  PROVE  /\ SpectrumOf(h) \in Seq(Word)
         /\ \A i \in 1 .. Len(SpectrumOf(h)) : SpectrumOf(h)[i].set = h.set
<1> DEFINE a == PartOf("accepted", h, h.accepted)
           r == PartOf("rejected", h, h.rejected)
           t == Words("stats", h.set, StatsWords)
<1>1. h.set \in Nat /\ h.accepted \in Nat /\ h.rejected \in Nat
  BY DEF HistogramMessage
<1>2. /\ a \in Seq(Word) /\ r \in Seq(Word) /\ t \in Seq(Word)
      /\ \A i \in 1 .. Len(a) : a[i].set = h.set
      /\ \A i \in 1 .. Len(r) : r[i].set = h.set
      /\ \A i \in 1 .. Len(t) : t[i].set = h.set
  <2>1. /\ a \in Seq(Word) /\ \A i \in 1 .. Len(a) : a[i].set = h.set
        /\ r \in Seq(Word) /\ \A i \in 1 .. Len(r) : r[i].set = h.set
    BY <1>1, PartType
  <2>2. t \in Seq(Word) /\ Len(t) = StatsWords /\ \A i \in 1 .. StatsWords : t[i].set = h.set
    <3>1. "stats" \in Parts
      BY DEF Parts
    <3>2. \A k, n \in Nat : /\ Words("stats", k, n) \in Seq(Word)
                            /\ Len(Words("stats", k, n)) = n
                            /\ \A i \in 1 .. n : Words("stats", k, n)[i].set = k
      BY <3>1, WordsType
    <3>3. QED BY <1>1, <3>2, ConstantsType
  <2>3. QED BY <2>1, <2>2
<1> HIDE DEF a, r, t
<1>3. a \o r \in Seq(Word) /\ a \o r \o t \in Seq(Word)
  BY <1>2, ConcatProperties
<1>4. \A i \in 1 .. Len(a \o r) : (a \o r)[i].set = h.set
  BY <1>2, ConcatSets
<1>5. \A i \in 1 .. Len(a \o r \o t) : (a \o r \o t)[i].set = h.set
  BY <1>2, <1>3, <1>4, ConcatSets
<1>6. QED BY <1>3, <1>5 DEF SpectrumOf, a, r, t

(* A histogram always has room, and is Active once it is received.         *)
LEMMA HistogramStored ==
  ASSUME NEW m, Counted(m), NEW h \in HistogramMessage, numBins \in Nat,
         m.size = 2 * numBins + StatsWords
  PROVE  LET n == WithHistogram(m, h)
         IN  Counted(n) /\ n.size = m.size /\ ActiveBuffer(n).data = SpectrumOf(h)
<1> DEFINE a == PartOf("accepted", h, h.accepted)
           r == PartOf("rejected", h, h.rejected)
           t == Words("stats", h.set, StatsWords)
           c  == Buffers_Next_Clear(m)
           m1 == Buffers_CopyInWords(c, a)
           m2 == Buffers_CopyInWords(m1, r)
           m3 == Buffers_CopyInWords(m2, t)
<1>1. h.set \in Nat /\ h.accepted \in Nat /\ h.rejected \in Nat /\ StatsWords \in Nat
  BY ConstantsType DEF HistogramMessage
<1>2. /\ a \in Seq(Word) /\ r \in Seq(Word) /\ t \in Seq(Word)
      /\ Len(a) \in Nat /\ Len(a) <= numBins /\ Len(r) \in Nat /\ Len(r) <= numBins
      /\ Len(t) = StatsWords
  <2>1. "stats" \in Parts
    BY DEF Parts
  <2>2. QED BY <1>1, <2>1, PartType, WordsType, LenProperties
<1>3. WithHistogram(m, h) = Buffers_Toggle(m3)
  BY DEF WithHistogram, Stored, PartOf
<1>4. SpectrumOf(h) = a \o r \o t
  BY DEF SpectrumOf
<1>5. Counted(c) /\ c.size = m.size /\ NextBuffer(c).level = 0 /\ NextBuffer(c).data = << >>
  <2>1. EmptyBuffer \in Buffer(Word) /\ Fits(EmptyBuffer, m.size)
        /\ EmptyBuffer.level = 0 /\ EmptyBuffer.data = << >>
    BY <1>1 DEF EmptyBuffer, Buffer, Fits
  <2>2. m \in Buffers(Word) /\ Buffers_Next(m) \in BufferIds
    BY NextBufferId DEF Counted
  <2>3. c \in Buffers(Word) /\ OnlyNext(m, c) /\ NextBuffer(c) = EmptyBuffer
    BY <2>1, <2>2, WithBufferType, WithNextBuffer DEF Buffers_Next_Clear
  <2>4. QED BY <2>1, <2>3 DEF Counted, OnlyNext
<1> HIDE DEF a, r, t, c
<1>6. /\ Counted(m1) /\ m1.size = m.size /\ NextBuffer(m1).level = Len(a)
      /\ NextBuffer(m1).data = a
  <2>1. NextBuffer(c).level + Len(a) <= c.size /\ 0 + Len(a) = Len(a)
    BY <1>1, <1>2, <1>5
  <2>2. << >> \o a = a
    BY <1>2, ConcatEmptySeq
  <2>3. QED BY <1>2, <1>5, <2>1, <2>2, CopyCounted, ZenonT(40) DEF OnlyNext
<1> HIDE DEF m1
<1>7. /\ Counted(m2) /\ m2.size = m.size /\ NextBuffer(m2).level = Len(a) + Len(r)
      /\ NextBuffer(m2).data = a \o r
  <2>1. NextBuffer(m1).level + Len(r) <= m1.size
    BY <1>1, <1>2, <1>6
  <2>2. /\ Counted(m2) /\ OnlyNext(m1, m2)
        /\ NextBuffer(m2).data = NextBuffer(m1).data \o r
        /\ NextBuffer(m2).level = NextBuffer(m1).level + Len(r)
    BY <1>2, <1>6, <2>1, CopyCounted
  <2>3. QED BY <1>6, <2>2 DEF OnlyNext
<1> HIDE DEF m2
<1>8. Counted(m3) /\ m3.size = m.size /\ NextBuffer(m3).data = a \o r \o t
  <2>1. NextBuffer(m2).level + Len(t) <= m2.size
    BY <1>1, <1>2, <1>7
  <2>2. QED BY <1>2, <1>7, <2>1, CopyCounted, ZenonT(40) DEF OnlyNext
<1> HIDE DEF m3
<1>9. QED BY <1>3, <1>4, <1>8, ToggleCounted

---------------------------------------------------------------------------
(* List mode.  A buffer the user is done with is empty.                    *)
Owned(m) == Buffers_Active_Done(m) => ActiveBuffer(m).level = 0

LEMMA NoLevelNoData ==
  ASSUME NEW buf \in Buffer(Word), NEW size, Fits(buf, size), buf.level = 0
  PROVE  buf.data = << >>
BY EmptySeq DEF Fits, Buffer

(* Update hands the words of Next over to the user or does nothing.        *)
LEMMA UpdateHeld ==
  ASSUME NEW m, Counted(m), Owned(m)
  PROVE  LET u == Buffers_Update(m)
         IN  /\ Counted(u) /\ Owned(u) /\ u.size = m.size
             /\ HeldData(u) = HeldData(m) /\ u.bufferOverruns = m.bufferOverruns
             /\ u.active = m.active => u = m
             /\ u.active # m.active => ~Buffers_Active_Done(u)
             /\ ~Buffers_Active_Done(m) => u = m
<1> DEFINE t == Buffers_Toggle(m)
<1>1. CASE Buffers_Next_Full(m) /\ Buffers_Active_Done(m)
  <2>1. Buffers_Update(m) = t
    BY <1>1 DEF Buffers_Update
  <2>2. /\ Counted(t) /\ t.size = m.size
        /\ ActiveBuffer(t).data = NextBuffer(m).data
        /\ NextBuffer(t) = ActiveBuffer(m)
        /\ ~ActiveBuffer(t).done /\ t.active # m.active
        /\ t.bufferOverruns = m.bufferOverruns
    BY ToggleCounted
  <2> HIDE DEF t
  <2>3. m \in Buffers(Word) /\ ActiveBuffer(m).data = << >>
    BY <1>1, BuffersType, NoLevelNoData DEF Counted, Owned
  <2>4. HeldData(t) = HeldData(m)
    <3>1. NextBuffer(m).data \in Seq(Word)
      BY <2>3, BuffersType
    <3>2. HeldData(t) = NextBuffer(m).data \o << >> /\ HeldData(m) = << >> \o NextBuffer(m).data
      BY <2>2, <2>3 DEF HeldData
    <3>3. QED BY <3>1, <3>2, ConcatEmptySeq
  <2>5. QED BY <1>1, <2>1, <2>2, <2>4 DEF Owned, Buffers_Active_Done
<1>2. CASE ~(Buffers_Next_Full(m) /\ Buffers_Active_Done(m))
  BY <1>2 DEF Buffers_Update
<1>3. QED BY <1>1, <1>2

(* What one pass of the loop over a packet does with the words to go.      *)
LEMMA PassAccounts ==
  ASSUME NEW m, Counted(m), Owned(m), m.size # 0, NEW set \in Nat, NEW left \in Nat \ {0}
  PROVE  LET p == Pass(m, set, left)
         IN  /\ Counted(p.m) /\ Owned(p.m) /\ p.m.size = m.size
             /\ p.left \in Nat /\ p.lost \in Nat /\ p.left + p.lost <= left
             /\ p.left > 0 => p.lost = 0 /\ ~Buffers_Active_Done(p.m)
             /\ ~Buffers_Active_Done(m) => p.left = 0
             /\ p.m.bufferOverruns >= m.bufferOverruns
             /\ p.lost > 0 => p.m.bufferOverruns > 0
             /\ HeldData(p.m) = HeldData(m) \o Words("list", set, left - p.left - p.lost)
<1> DEFINE p == Pass(m, set, left)
           room == Buffers_Next_Remaining(m)
           n == IF left > room THEN room ELSE left
           w == Words("list", set, n)
           c == Buffers_CopyInWords(m, w)
           u == Buffers_Update(c)
<1>0. "list" \in Parts
  BY DEF Parts
<1>1. /\ m \in Buffers(Word) /\ m.size \in Nat /\ NextBuffer(m).level \in Nat
      /\ m.bufferOverruns \in Nat /\ HeldData(m) \in Seq(Word)
      /\ NextBuffer(m).level <= m.size
  BY BuffersType DEF Counted, Fits
(* The overrun is counted and leaves the rest alone.                       *)
<1>2. ASSUME NEW x, Counted(x), Owned(x)
      PROVE  LET o == Buffers_Overrun(x)
             IN  /\ Counted(o) /\ Owned(o) /\ o.size = x.size /\ HeldData(o) = HeldData(x)
                 /\ o.bufferOverruns = x.bufferOverruns + 1
  <2> DEFINE o == Buffers_Overrun(x)
  <2>1. x \in Buffers(Word) /\ o \in Buffers(Word)
    BY <1>2, CountersType DEF Counted
  <2>2. /\ o.size = x.size /\ o.bufferOverruns = x.bufferOverruns + 1
        /\ o.numPixels = x.numPixels /\ o.stopped = x.stopped
        /\ ActiveBuffer(o) = ActiveBuffer(x) /\ NextBuffer(o) = NextBuffer(x)
    BY <2>1 DEF Buffers_Overrun, Buffers, ActiveBuffer, NextBuffer, Buffers_Next
  <2> HIDE DEF o
  <2>3. QED BY <1>2, <2>1, <2>2 DEF Counted, Owned, HeldData, Buffers_Active_Done, o
<1>3. CASE Buffers_Next_Full(m)
  <2> DEFINE o == Buffers_Overrun(m)
  <2>1. p = [m |-> o, left |-> 0, lost |-> left]
    BY <1>3 DEF Pass, NoRoom
  <2>2. /\ Counted(o) /\ Owned(o) /\ o.size = m.size /\ HeldData(o) = HeldData(m)
        /\ o.bufferOverruns = m.bufferOverruns + 1
    BY <1>2
  <2> HIDE DEF o, p
  <2>3. p.m = o /\ p.left = 0 /\ p.lost = left
    BY <2>1
  <2>4. left - p.left - p.lost = 0
    BY <2>3
  <2>5. HeldData(m) \o Words("list", set, 0) = HeldData(m)
    <3>1. Words("list", set, 0) = << >>
      BY <1>0, WordsType, EmptySeq
    <3>2. QED BY <1>1, <3>1, ConcatEmptySeq
  <2>6. p.m.bufferOverruns >= m.bufferOverruns /\ p.m.bufferOverruns > 0
    BY <1>1, <2>2, <2>3
  <2>7. QED BY <2>2, <2>3, <2>4, <2>5, <2>6 DEF p
<1>4. CASE ~Buffers_Next_Full(m)
  <2>1. NextBuffer(m).level < m.size
    BY <1>1, <1>4 DEF Buffers_Next_Full, Buffers_Full, NextBuffer
  <2>2. room \in Nat /\ n \in Nat /\ n <= left /\ n <= room
        /\ room = m.size - NextBuffer(m).level
    BY <1>1, <2>1 DEF Buffers_Next_Remaining
  <2> HIDE DEF n, room
  <2>3. w \in Seq(Word) /\ Len(w) = n
    BY <1>0, <2>2, WordsType
  <2> HIDE DEF w
  <2>4. NextBuffer(m).level + Len(w) <= m.size
    BY <1>1, <2>2, <2>3
  <2>5. /\ Counted(c) /\ OnlyNext(m, c) /\ c.bufferOverruns = m.bufferOverruns
        /\ NextBuffer(c).data = NextBuffer(m).data \o w
    BY <2>3, <2>4, CopyCounted
  <2> HIDE DEF c
  <2>6. Owned(c) /\ c.active = m.active /\ c.size = m.size
        /\ Buffers_Active_Done(c) = Buffers_Active_Done(m)
    BY <2>5 DEF Owned, OnlyNext, Buffers_Active_Done
  <2>7. HeldData(c) = HeldData(m) \o w
    <3>1. ActiveBuffer(m).data \in Seq(Word) /\ NextBuffer(m).data \in Seq(Word)
      BY <1>1, BuffersType
    <3>2. HeldData(c) = ActiveBuffer(m).data \o (NextBuffer(m).data \o w)
      BY <2>5 DEF HeldData, OnlyNext
    <3>3. ActiveBuffer(m).data \o (NextBuffer(m).data \o w)
            = (ActiveBuffer(m).data \o NextBuffer(m).data) \o w
      BY <2>3, <3>1, WordsConcat, ZenonT(40)
    <3>4. QED BY <3>2, <3>3 DEF HeldData
  <2>8. /\ Counted(u) /\ Owned(u) /\ u.size = m.size
        /\ HeldData(u) = HeldData(m) \o w /\ u.bufferOverruns = m.bufferOverruns
        /\ u.active # m.active => ~Buffers_Active_Done(u)
        /\ ~Buffers_Active_Done(m) => u.active = m.active
    BY <2>5, <2>6, <2>7, UpdateHeld
  <2> HIDE DEF u
  <2>9. p = IF u.active = m.active /\ left > n
            THEN NoRoom(u, left - n)
            ELSE [m |-> u, left |-> left - n, lost |-> 0]
    BY <1>4 DEF Pass, PassRoom, u, c, w, n, room
  <2> HIDE DEF p
  <2>10. CASE u.active = m.active /\ left > n
    <3> DEFINE o == Buffers_Overrun(u)
    <3>1. p = [m |-> o, left |-> 0, lost |-> left - n]
      BY <2>9, <2>10 DEF NoRoom
    <3>2. /\ Counted(o) /\ Owned(o) /\ o.size = m.size /\ HeldData(o) = HeldData(m) \o w
          /\ o.bufferOverruns = m.bufferOverruns + 1
      BY <1>2, <2>8
    <3> HIDE DEF o
    <3>3. p.m = o /\ p.left = 0 /\ p.lost = left - n
      BY <3>1
    <3>4. left - p.left - p.lost = n /\ p.lost \in Nat /\ p.left + p.lost <= left
      BY <2>2, <2>10, <3>3
    <3>5. p.m.bufferOverruns >= m.bufferOverruns /\ p.m.bufferOverruns > 0
      BY <1>1, <3>2, <3>3
    <3>6. QED BY <3>2, <3>3, <3>4, <3>5 DEF w, p
  <2>11. CASE ~(u.active = m.active /\ left > n)
    <3>1. p.m = u /\ p.left = left - n /\ p.lost = 0
      BY <2>9, <2>11
    <3>2. left - p.left - p.lost = n /\ p.left \in Nat /\ p.left + p.lost <= left
          /\ ~(p.lost > 0) /\ p.lost \in Nat
      BY <2>2, <3>1
    <3>3. p.left > 0 => u.active # m.active
      BY <2>2, <2>11, <3>1
    <3>4. u.active = m.active => p.left = 0
      BY <2>2, <2>11, <3>1
    <3>5. p.m.bufferOverruns >= m.bufferOverruns
      BY <1>1, <2>8, <3>1
    <3>6. QED BY <2>8, <3>1, <3>2, <3>3, <3>4, <3>5 DEF w, p
  <2>12. QED BY <2>10, <2>11
<1>5. QED BY <1>3, <1>4

(* Every word of a packet is stored behind the words held before, or is    *)
(* counted as lost together with an overrun.                               *)
LEMMA PacketAccounts ==
  ASSUME NEW m, Counted(m), Owned(m), m.size # 0, NEW set \in Nat, NEW words \in Nat \ {0}
  PROVE  LET s == Stored3(m, set, words)
         IN  /\ Counted(s.m) /\ Owned(s.m) /\ s.m.size = m.size
             /\ s.lost \in Nat /\ s.m.bufferOverruns >= m.bufferOverruns
             /\ s.lost > 0 => s.m.bufferOverruns > 0
             /\ \E w \in Seq(Word) :
                  /\ HeldData(s.m) = HeldData(m) \o w /\ Len(w) + s.lost = words
                  /\ \A i \in 1 .. Len(w) : w[i].set = set
<1> DEFINE p == Pass(m, set, words)
           q == Pass(p.m, set, p.left)
           s == Stored3(m, set, words)
           v == Words("list", set, words - p.left - p.lost)
<1>1. /\ Counted(p.m) /\ Owned(p.m) /\ p.m.size = m.size
      /\ p.left \in Nat /\ p.lost \in Nat /\ p.left + p.lost <= words
      /\ p.left > 0 => p.lost = 0 /\ ~Buffers_Active_Done(p.m)
      /\ p.m.bufferOverruns >= m.bufferOverruns
      /\ p.lost > 0 => p.m.bufferOverruns > 0
      /\ HeldData(p.m) = HeldData(m) \o v
  BY PassAccounts
<1>2. s = IF p.left > 0 THEN q ELSE p
  BY DEF Stored3
<1>3. \A k \in Nat : /\ Words("list", set, k) \in Seq(Word) /\ Len(Words("list", set, k)) = k
                     /\ \A i \in 1 .. k : Words("list", set, k)[i].set = set
  BY WordsType DEF Parts
<1>4. words - p.left - p.lost \in Nat
  BY <1>1
<1>5. v \in Seq(Word) /\ Len(v) = words - p.left - p.lost
      /\ \A i \in 1 .. Len(v) : v[i].set = set
  BY <1>3, <1>4
<1>6. CASE p.left = 0
  <2>1. s = p
    BY <1>2, <1>6
  <2> HIDE DEF p, s, v
  <2>2. Len(v) + p.lost = words
    BY <1>1, <1>5, <1>6
  <2>3. QED BY <1>1, <1>5, <2>1, <2>2 DEF s
<1>7. CASE p.left # 0
  <2> DEFINE w == Words("list", set, p.left - q.left - q.lost)
  <2>1. s = q /\ p.left \in Nat \ {0} /\ p.lost = 0 /\ ~Buffers_Active_Done(p.m)
        /\ p.m.size # 0
    BY <1>1, <1>2, <1>7
  <2> HIDE DEF p, s, v
  <2>2. /\ Counted(q.m) /\ Owned(q.m) /\ q.m.size = p.m.size
        /\ q.left \in Nat /\ q.lost \in Nat /\ q.left + q.lost <= p.left
        /\ q.left = 0
        /\ q.m.bufferOverruns >= p.m.bufferOverruns
        /\ q.lost > 0 => q.m.bufferOverruns > 0
        /\ HeldData(q.m) = HeldData(p.m) \o w
    <3>1. ASSUME NEW x, Counted(x), Owned(x), x.size # 0, ~Buffers_Active_Done(x),
                 NEW k \in Nat \ {0}
          PROVE  LET y == Pass(x, set, k)
                 IN  /\ Counted(y.m) /\ Owned(y.m) /\ y.m.size = x.size
                     /\ y.left \in Nat /\ y.lost \in Nat /\ y.left + y.lost <= k
                     /\ y.left = 0
                     /\ y.m.bufferOverruns >= x.bufferOverruns
                     /\ y.lost > 0 => y.m.bufferOverruns > 0
                     /\ HeldData(y.m) = HeldData(x) \o Words("list", set, k - y.left - y.lost)
      BY <3>1, PassAccounts
    <3>2. QED BY <1>1, <2>1, <3>1
  <2> HIDE DEF q
  <2>3. p.left - q.left - q.lost \in Nat
    BY <2>1, <2>2
  <2>4. w \in Seq(Word) /\ Len(w) = p.left - q.left - q.lost
        /\ \A i \in 1 .. Len(w) : w[i].set = set
    BY <1>3, <2>3
  <2> HIDE DEF w
  <2>5. HeldData(m) \in Seq(Word)
    BY BuffersType DEF Counted
  <2>6. v \o w \in Seq(Word) /\ HeldData(q.m) = HeldData(m) \o (v \o w)
    <3>1. HeldData(q.m) = (HeldData(m) \o v) \o w
      BY <1>1, <2>2
    <3> DEFINE held == HeldData(m)
    <3> HIDE DEF held
    <3>2. v \o w \in Seq(Word) /\ (held \o v) \o w = held \o (v \o w)
      BY <1>5, <2>4, <2>5, WordsConcat DEF held
    <3>3. QED BY <3>1, <3>2 DEF held
  <2>7. \A i \in 1 .. Len(v \o w) : (v \o w)[i].set = set
    BY <1>5, <2>4, ConcatSets
  <2>8. Len(v \o w) = Len(v) + Len(w)
    BY <1>5, <2>4, ConcatProperties
  <2>9. Len(v \o w) + q.lost = words
    BY <1>1, <1>5, <2>1, <2>2, <2>4, <2>8, SMTT(20)
  <2>10. m.bufferOverruns \in Nat /\ p.m.bufferOverruns \in Nat /\ q.m.bufferOverruns \in Nat
    BY <1>1, <2>2, BuffersType DEF Counted
  <2>11. q.m.bufferOverruns >= m.bufferOverruns
    BY <1>1, <2>2, <2>10
  <2>12. \E x \in Seq(Word) :
           /\ HeldData(q.m) = HeldData(m) \o x /\ Len(x) + q.lost = words
           /\ \A i \in 1 .. Len(x) : x[i].set = set
    BY <2>6, <2>7, <2>9
  <2>13. QED BY <1>1, <2>1, <2>2, <2>11, <2>12 DEF s
<1>8. QED BY <1>6, <1>7

LEMMA SameInterval ==
  ASSUME NEW j \in Nat, NEW k \in Nat, 1 .. j = 1 .. k
  PROVE  j = k
<1>1. CASE j < k
  <2>1. k \in 1 .. k /\ k \notin 1 .. j
    BY <1>1
  <2>2. QED BY <2>1
<1>2. CASE k < j
  <2>1. j \in 1 .. j /\ j \notin 1 .. k
    BY <1>2
  <2>2. QED BY <2>1
<1>3. QED BY <1>1, <1>2

LEMMA SetsOfConcat ==
  ASSUME NEW s \in Seq(Word), NEW t \in Seq(Word), SetsOf(s) = SetsOf(t),
         NEW v \in Seq(Word), NEW w \in Seq(Word), Len(v) = Len(w),
         \A i \in 1 .. Len(v) : v[i].set = w[i].set
  PROVE  SetsOf(s \o v) = SetsOf(t \o w)
<1>1. DOMAIN s = 1 .. Len(s) /\ DOMAIN t = 1 .. Len(t) /\ DOMAIN s = DOMAIN t
      /\ Len(s) \in Nat /\ Len(t) \in Nat /\ Len(v) \in Nat
  BY DEF SetsOf
<1>2. Len(s) = Len(t) /\ \A i \in 1 .. Len(s) : s[i].set = t[i].set
  <2>1. Len(s) = Len(t)
    BY <1>1, SameInterval
  <2>2. \A i \in 1 .. Len(s) : s[i].set = SetsOf(s)[i] /\ t[i].set = SetsOf(t)[i]
    BY <1>1 DEF SetsOf
  <2>3. QED BY <2>1, <2>2
<1>3. /\ s \o v \in Seq(Word) /\ t \o w \in Seq(Word)
      /\ Len(s \o v) = Len(s) + Len(v) /\ Len(t \o w) = Len(s) + Len(v)
  <2>1. Len(s \o v) = Len(s) + Len(v) /\ Len(t \o w) = Len(t) + Len(w)
    BY ConcatProperties
  <2>2. QED BY <1>2, <2>1, WordsConcat
<1>4. DOMAIN (s \o v) = 1 .. Len(s) + Len(v) /\ DOMAIN (t \o w) = 1 .. Len(s) + Len(v)
  BY <1>3
<1>5. ASSUME NEW i \in 1 .. Len(s) + Len(v)
      PROVE  (s \o v)[i].set = (t \o w)[i].set
  <2>1. CASE i <= Len(s)
    <3>1. i \in 1 .. Len(s)
      BY <1>1, <2>1
    <3>2. (s \o v)[i] = s[i] /\ (t \o w)[i] = t[i]
      BY <1>2, <1>3, <3>1, ConcatProperties
    <3>3. QED BY <1>2, <3>1, <3>2
  <2>2. CASE i > Len(s)
    <3>1. i - Len(s) \in 1 .. Len(v)
      BY <1>1, <2>2
    <3>2. (s \o v)[i] = v[i - Len(s)] /\ (t \o w)[i] = w[i - Len(s)]
      BY <1>1, <1>2, <1>3, <2>2, ConcatProperties
    <3>3. QED BY <3>1, <3>2
  <2>3. QED BY <1>1, <2>1, <2>2
<1>6. QED BY <1>4, <1>5 DEF SetsOf

---------------------------------------------------------------------------
(* The invariant.  In mapping mode 0 the Active buffer holds the histogram *)
(* received last, in list mode both hold what is on its way to the user.   *)
McaInv ==
  mode = "MCA" =>
    /\ numBins # 0 /\ mmb.size = 2 * numBins + StatsWords
    /\ ActiveBuffer(mmb).level > 0 =>
         /\ latest \in HistogramMessage /\ statistics = latest.set
         /\ ActiveBuffer(mmb).data = SpectrumOf(latest)

ListInv ==
  IF mode = "LIST" THEN mmb.size = ListWords /\ Owned(mmb) ELSE sent = << >> /\ lost = 0

BufferInv == Counted(mmb) /\ McaInv /\ ListInv /\ WordsAccounted /\ LossIsReported

LEMMA HeldInOrder ==
  ASSUME NEW m \in Buffers(Word), NEW h \in Seq(Word)
  PROVE  /\ h \o ActiveBuffer(m).data \o NextBuffer(m).data = h \o HeldData(m)
         /\ h \o HeldData(m) \in Seq(Word)
<1> DEFINE a == ActiveBuffer(m).data
           n == NextBuffer(m).data
<1>1. a \in Seq(Word) /\ n \in Seq(Word) /\ HeldData(m) = a \o n
  BY BuffersType DEF HeldData
<1> HIDE DEF a, n
<1>2. (h \o a) \o n = h \o (a \o n) /\ a \o n \in Seq(Word)
  BY <1>1, WordsConcat
<1>3. h \o (a \o n) \in Seq(Word)
  BY <1>2, WordsConcat
<1>4. QED BY <1>1, <1>2, <1>3 DEF a, n

LEMMA QuietStep ==
  ASSUME DataTypeOK, BufferInv, UNCHANGED <<mode, mmb, numBins, latest, statistics, listData>>
  PROVE  BufferInv'
<1>1. mode' = mode /\ mmb' = mmb /\ numBins' = numBins /\ latest' = latest
      /\ statistics' = statistics /\ sent' = sent /\ handed' = handed /\ lost' = lost
      /\ warned' = warned
  BY DEF listData
<1>2. SpectrumOf(latest)' = SpectrumOf(latest)
  BY <1>1 DEF SpectrumOf, PartOf
<1>3. McaInv' /\ ListInv' /\ Counted(mmb')
  BY <1>1, <1>2 DEF BufferInv, McaInv, ListInv
<1>4. WordsAccounted' /\ LossIsReported'
  BY <1>1 DEF BufferInv, WordsAccounted, LossIsReported, Stream
<1>5. QED BY <1>3, <1>4 DEF BufferInv

LEMMA OpenedType ==
  ASSUME DataTypeOK, NEW m \in Modes
  PROVE  /\ settings.bins \in Nat \ {0}
         /\ OpenedFor("MCA") = Buffers_Open(2 * settings.bins + StatsWords, 0)
         /\ OpenedFor("LIST") = Buffers_Open(ListWords, 0)
         /\ 2 * settings.bins + StatsWords \in Nat
BY ConstantsType DEF DataTypeOK, Settings, OpenedFor

LEMMA StartRunStep ==
  ASSUME DataTypeOK, BufferInv, NEW m \in Modes, NEW calibrated \in BOOLEAN,
         StartRun(m, calibrated)
  PROVE  BufferInv'
<1>1. /\ mode' = m /\ mmb' = OpenedFor(m) /\ numBins' = IF m = "MCA" THEN settings.bins ELSE 0
      /\ sent' = << >> /\ handed' = << >> /\ lost' = 0
  BY DEF StartRun
<1>2. PICK size \in Nat :
        /\ mmb' = Buffers_Open(size, 0)
        /\ size = IF m = "MCA" THEN 2 * settings.bins + StatsWords ELSE ListWords
  BY <1>1, OpenedType, ConstantsType DEF Modes
<1> DEFINE o == Buffers_Open(size, 0)
<1>3. /\ Counted(o) /\ o.size = size /\ ActiveBuffer(o).level = 0
      /\ ActiveBuffer(o).data = << >> /\ NextBuffer(o).data = << >>
  BY OpenCounted
<1>4. mmb' = o
  BY <1>2
<1> HIDE DEF o
<1>5. McaInv'
  BY <1>1, <1>2, <1>3, <1>4, OpenedType DEF McaInv
<1>6. ListInv'
  BY <1>1, <1>2, <1>3, <1>4 DEF ListInv, Owned, Modes
<1>7. Stream' = << >>
  <2>1. << >> \o << >> = << >>
    OBVIOUS
  <2>2. QED BY <1>1, <1>3, <1>4, <2>1 DEF Stream
<1>8. WordsAccounted' /\ LossIsReported'
  <2>1. Len(sent') = Len(Stream') + lost' /\ SetsOf(Stream') = SetsOf(sent')
    <3>1. Len(<< >>) = 0 /\ 0 = 0 + 0
      OBVIOUS
    <3>2. QED BY <1>1, <1>7, <3>1
  <2>2. QED BY <1>1, <2>1 DEF WordsAccounted, LossIsReported
<1>9. QED BY <1>3, <1>4, <1>5, <1>6, <1>8 DEF BufferInv

LEMMA ReceivedType ==
  ASSUME DataTypeOK, NEW type, Receiving(type)
  PROVE  /\ wire # << >> /\ wire' = Tail(wire) /\ Head(wire) \in Message
         /\ Head(wire).type = type /\ wire' \in Seq(Message)
         /\ type = "state" => Head(wire).state \in States
         /\ type = "histogram" => Head(wire) \in HistogramMessage
         /\ type = "list" => Head(wire).set \in Nat /\ Head(wire).words \in Nat \ {0}
<1>1. /\ wire # << >> /\ wire' = Tail(wire) /\ Head(wire) \in Message
      /\ Head(wire).type = type /\ wire' \in Seq(Message)
  BY HeadTailProperties DEF Receiving, DataTypeOK
<1>2. QED BY <1>1 DEF Message, StateMessage, HistogramMessage, ListMessage

LEMMA ReceiveHistogramStep ==
  ASSUME DataTypeOK, BufferInv, ReceiveHistogram
  PROVE  BufferInv'
<1> DEFINE h == Head(wire)
           n == WithHistogram(mmb, h)
<1>1. h \in HistogramMessage
  BY ReceivedType DEF ReceiveHistogram
<1>2. /\ mode = "MCA" /\ mode' = mode /\ mmb' = n /\ latest' = h /\ statistics' = h.set
      /\ numBins' = numBins /\ sent' = sent /\ lost' = lost
  BY DEF ReceiveHistogram, channel, listData
<1>3. numBins \in Nat /\ numBins # 0 /\ mmb.size = 2 * numBins + StatsWords
      /\ sent = << >> /\ lost = 0
  BY <1>2 DEF BufferInv, McaInv, ListInv, DataTypeOK
<1> HIDE DEF h
<1>4. Counted(n) /\ n.size = mmb.size /\ ActiveBuffer(n).data = SpectrumOf(h)
  BY <1>1, <1>3, HistogramStored DEF BufferInv
<1> HIDE DEF n
<1>5. SpectrumOf(latest)' = SpectrumOf(h)
  BY <1>2 DEF SpectrumOf, PartOf
<1>6. McaInv' /\ ListInv'
  BY <1>1, <1>2, <1>3, <1>4, <1>5 DEF McaInv, ListInv
<1>7. WordsAccounted' /\ LossIsReported'
  BY <1>2, <1>3 DEF BufferInv, WordsAccounted, LossIsReported, Stream
<1>8. QED BY <1>2, <1>4, <1>6, <1>7 DEF BufferInv

(* A read of the Active buffer moves its read position only.               *)
LEMMA ReadPositionStep ==
  ASSUME DataTypeOK, BufferInv, NEW k \in Nat,
         mmb' = WithBuffer(mmb, mmb.active, [ActiveBuffer(mmb) EXCEPT !.next = k]),
         UNCHANGED <<mode, numBins, latest, statistics, listData>>
  PROVE  BufferInv'
<1>1. mode' = mode /\ numBins' = numBins /\ latest' = latest
      /\ statistics' = statistics /\ sent' = sent /\ handed' = handed /\ lost' = lost
      /\ warned' = warned
  BY DEF listData
<1>2. /\ Counted(mmb') /\ mmb'.size = mmb.size
      /\ ActiveBuffer(mmb').level = ActiveBuffer(mmb).level
      /\ ActiveBuffer(mmb').data = ActiveBuffer(mmb).data
      /\ ActiveBuffer(mmb').done = ActiveBuffer(mmb).done
      /\ NextBuffer(mmb') = NextBuffer(mmb)
      /\ mmb'.bufferOverruns = mmb.bufferOverruns
  BY CopyOutCounted DEF BufferInv
<1>3. SpectrumOf(latest)' = SpectrumOf(latest)
  BY <1>1 DEF SpectrumOf, PartOf
<1>4. McaInv' /\ ListInv'
  BY <1>1, <1>2, <1>3 DEF BufferInv, McaInv, ListInv, Owned, Buffers_Active_Done
<1>5. Stream' = Stream
  BY <1>1, <1>2 DEF Stream
<1>6. WordsAccounted' /\ LossIsReported'
  BY <1>1, <1>2, <1>5 DEF BufferInv, WordsAccounted, LossIsReported
<1>7. QED BY <1>2, <1>4, <1>6 DEF BufferInv

LEMMA ReceiveListStep ==
  ASSUME DataTypeOK, BufferInv, ReceiveList
  PROVE  BufferInv' /\ sent' \in Seq(Word) /\ lost' \in Nat
<1> DEFINE set == Head(wire).set
           words == Head(wire).words
           s == Stored3(mmb, set, words)
           v == Words("list", set, words)
<1>1. set \in Nat /\ words \in Nat \ {0}
  BY ReceivedType DEF ReceiveList
<1>2. /\ mode = "LIST" /\ mode' = mode /\ mmb' = s.m /\ lost' = lost + s.lost
      /\ sent' = sent \o v /\ handed' = handed /\ warned' = warned
  BY DEF ReceiveList, channel
<1>3. /\ Counted(mmb) /\ mmb.size = ListWords /\ Owned(mmb) /\ mmb.size # 0
      /\ mmb \in Buffers(Word) /\ lost \in Nat /\ sent \in Seq(Word) /\ handed \in Seq(Word)
      /\ HeldData(mmb) \in Seq(Word)
  BY <1>2, ConstantsType, BuffersType DEF BufferInv, ListInv, DataTypeOK
<1> HIDE DEF set, words
<1>4. v \in Seq(Word) /\ Len(v) = words /\ \A i \in 1 .. Len(v) : v[i].set = set
  BY <1>1, WordsType DEF Parts
<1>5. /\ Counted(s.m) /\ Owned(s.m) /\ s.m.size = mmb.size
      /\ s.lost \in Nat /\ s.m.bufferOverruns >= mmb.bufferOverruns
      /\ s.lost > 0 => s.m.bufferOverruns > 0
      /\ \E w \in Seq(Word) :
           /\ HeldData(s.m) = HeldData(mmb) \o w /\ Len(w) + s.lost = words
           /\ \A i \in 1 .. Len(w) : w[i].set = set
  BY <1>1, <1>3, PacketAccounts
<1> HIDE DEF s, v
<1>6. PICK w \in Seq(Word) :
        /\ HeldData(s.m) = HeldData(mmb) \o w /\ Len(w) + s.lost = words
        /\ \A i \in 1 .. Len(w) : w[i].set = set
  BY <1>5
<1>7. s.m \in Buffers(Word) /\ mmb.bufferOverruns \in Nat /\ s.m.bufferOverruns \in Nat
  BY <1>3, <1>5, BuffersType DEF Counted
<1>8. Stream \in Seq(Word) /\ Stream' = Stream \o w
  <2>1. Stream = handed \o HeldData(mmb) /\ handed \o HeldData(mmb) \in Seq(Word)
    BY <1>2, <1>3, HeldInOrder DEF Stream
  <2>2. Stream' = handed \o HeldData(s.m)
    BY <1>2, <1>3, <1>7, HeldInOrder DEF Stream
  <2> DEFINE held == HeldData(mmb)
  <2> HIDE DEF held
  <2>3. (handed \o held) \o w = handed \o (held \o w)
    BY <1>3, WordsConcat, SMTT(20) DEF held
  <2>4. QED BY <1>6, <2>1, <2>2, <2>3 DEF held
<1>9. Len(sent') = Len(sent) + Len(v) /\ Len(Stream') = Len(Stream) + Len(w)
      /\ sent' \in Seq(Word)
  BY <1>2, <1>3, <1>4, <1>8, ConcatProperties
<1>10. Len(sent') = Len(Stream') + lost'
  <2>1. Len(sent) = Len(Stream) + lost
    BY DEF BufferInv, WordsAccounted
  <2>2. Len(Stream) \in Nat /\ Len(w) \in Nat
    BY <1>8
  <2>3. Len(w) + s.lost = Len(v) /\ s.lost \in Nat /\ lost \in Nat /\ lost' = lost + s.lost
    BY <1>2, <1>3, <1>4, <1>5, <1>6
  <2>4. Len(sent') = Len(Stream) + lost + (Len(w) + s.lost)
    BY <1>9, <2>1, <2>3
  <2>5. \A i, j, k, l \in Nat : i + j + (k + l) = i + k + (j + l)
    OBVIOUS
  <2>6. Len(Stream) + lost + (Len(w) + s.lost) = Len(Stream) + Len(w) + (lost + s.lost)
    BY <2>2, <2>3, <2>5
  <2>7. QED BY <1>9, <2>3, <2>4, <2>6
<1>11. ASSUME lost' = 0
       PROVE  SetsOf(Stream') = SetsOf(sent')
  <2>1. lost = 0 /\ s.lost = 0
    BY <1>2, <1>3, <1>5, <1>11
  <2>2. SetsOf(Stream) = SetsOf(sent)
    BY <2>1 DEF BufferInv, WordsAccounted
  <2>3. Len(w) = Len(v)
    BY <1>4, <1>6, <2>1
  <2>4. SetsOf(Stream \o w) = SetsOf(sent \o v)
    <3>1. /\ Stream \in Seq(Word) /\ sent \in Seq(Word)
          /\ \A i \in 1 .. Len(w) : w[i].set = set
      BY <1>3, <1>6, <1>8
    <3> DEFINE str == Stream
    <3> HIDE DEF str
    <3>2. str \in Seq(Word) /\ SetsOf(str) = SetsOf(sent)
      BY <2>2, <3>1 DEF str
    <3>3. \A i \in 1 .. Len(w) : w[i].set = v[i].set
      BY <1>4, <2>3, <3>1
    <3>4. SetsOf(str \o w) = SetsOf(sent \o v)
      BY <1>4, <2>3, <3>1, <3>2, <3>3, SetsOfConcat
    <3>5. QED BY <3>4 DEF str
  <2>5. QED BY <1>2, <1>8, <2>4
<1>12. LossIsReported'
  BY <1>2, <1>3, <1>5, <1>7 DEF BufferInv, LossIsReported
<1>13. WordsAccounted'
  BY <1>10, <1>11 DEF WordsAccounted
<1>14. McaInv' /\ ListInv'
  BY <1>2, <1>3, <1>5 DEF McaInv, ListInv
<1>15. lost' \in Nat
  BY <1>2, <1>3, <1>5
<1>16. QED BY <1>2, <1>5, <1>9, <1>12, <1>13, <1>14, <1>15 DEF BufferInv

LEMMA ListBufferDoneStep ==
  ASSUME DataTypeOK, BufferInv, NEW b \in BufferIds, ListBufferDone(b)
  PROVE  BufferInv' /\ handed' \in Seq(Word)
<1> DEFINE a == ActiveBuffer(mmb).data
           n == NextBuffer(mmb).data
           x == IF b = mmb.active THEN Buffers_Active_Clear(mmb) ELSE mmb
           u == Buffers_Update(x)
<1>1. /\ mode = "LIST" /\ mode' = mode /\ mmb' = u
      /\ handed' = IF b = mmb.active THEN handed \o a ELSE handed
      /\ sent' = sent /\ lost' = lost /\ warned' = warned
  BY DEF ListBufferDone, RunningOrReady, channel, Buffers_BufferDone
<1>2. /\ Counted(mmb) /\ mmb.size = ListWords /\ Owned(mmb)
      /\ mmb \in Buffers(Word) /\ handed \in Seq(Word) /\ a \in Seq(Word) /\ n \in Seq(Word)
  BY <1>1, BuffersType DEF BufferInv, ListInv, DataTypeOK
(* What is cleared was handed over.                                        *)
<1>3. /\ Counted(x) /\ Owned(x) /\ x.size = mmb.size
      /\ x.bufferOverruns = mmb.bufferOverruns /\ handed' \in Seq(Word)
      /\ handed' \o HeldData(x) = handed \o HeldData(mmb)
  <2>1. CASE b = mmb.active
    <3>1. EmptyBuffer \in Buffer(Word) /\ Fits(EmptyBuffer, mmb.size)
          /\ EmptyBuffer.level = 0 /\ EmptyBuffer.data = << >>
      BY <1>2, BuffersType DEF EmptyBuffer, Buffer, Fits
    <3>2. x = WithBuffer(mmb, mmb.active, EmptyBuffer)
      BY <2>1 DEF Buffers_Active_Clear
    <3> HIDE DEF x
    <3>3. /\ Counted(x) /\ x.size = mmb.size /\ ActiveBuffer(x) = EmptyBuffer
          /\ NextBuffer(x) = NextBuffer(mmb) /\ x.bufferOverruns = mmb.bufferOverruns
      BY <1>2, <3>1, <3>2, ActiveCounted
    <3>4. HeldData(x) = n
      <4>1. HeldData(x) = << >> \o n
        BY <3>1, <3>3 DEF HeldData
      <4>2. QED BY <1>2, <4>1, ConcatEmptySeq
    <3>5. HeldData(mmb) = a \o n
      BY DEF HeldData
    <3> HIDE DEF a, n
    <3>6. (handed \o a) \o n = handed \o (a \o n) /\ handed \o a \in Seq(Word)
      BY <1>2, WordsConcat
    <3>7. QED BY <1>1, <2>1, <3>1, <3>3, <3>4, <3>5, <3>6 DEF Owned
  <2>2. CASE b # mmb.active
    BY <1>1, <1>2, <2>2
  <2>3. QED BY <2>1, <2>2
<1> HIDE DEF x
<1>4. /\ Counted(u) /\ Owned(u) /\ u.size = x.size /\ HeldData(u) = HeldData(x)
      /\ u.bufferOverruns = x.bufferOverruns
  BY <1>3, UpdateHeld
<1> HIDE DEF u, a, n
<1>5. Stream' = Stream
  <2>1. Stream = handed \o HeldData(mmb)
    BY <1>1, <1>2, HeldInOrder DEF Stream
  <2>2. u \in Buffers(Word)
    BY <1>4 DEF Counted
  <2>3. Stream' = handed' \o HeldData(u)
    BY <1>1, <1>3, <2>2, HeldInOrder DEF Stream
  <2>4. QED BY <1>3, <1>4, <2>1, <2>3
<1>6. WordsAccounted' /\ LossIsReported'
  BY <1>1, <1>3, <1>4, <1>5 DEF BufferInv, WordsAccounted, LossIsReported
<1>7. McaInv' /\ ListInv'
  BY <1>1, <1>2, <1>3, <1>4 DEF McaInv, ListInv
<1>8. QED BY <1>1, <1>3, <1>4, <1>6, <1>7 DEF BufferInv

LEMMA ListBufferOverrunStep ==
  ASSUME DataTypeOK, BufferInv, ListBufferOverrun
  PROVE  BufferInv' /\ warned' \in BOOLEAN
<1>1. /\ mode = "LIST" /\ mode' = mode /\ mmb' = Buffers_ClearOverruns(mmb)
      /\ warned' = (warned \/ mmb.bufferOverruns > 0)
      /\ sent' = sent /\ lost' = lost /\ handed' = handed
  BY DEF ListBufferOverrun, channel
<1>2. Counted(mmb) /\ mmb.size = ListWords /\ Owned(mmb) /\ mmb \in Buffers(Word)
  BY <1>1 DEF BufferInv, ListInv, DataTypeOK
<1>3. /\ mmb' \in Buffers(Word) /\ mmb'.size = mmb.size
      /\ mmb'.numPixels = mmb.numPixels /\ mmb'.stopped = mmb.stopped
      /\ ActiveBuffer(mmb') = ActiveBuffer(mmb) /\ NextBuffer(mmb') = NextBuffer(mmb)
  <2>1. mmb' \in Buffers(Word)
    BY <1>1, <1>2, CountersType
  <2>2. QED
    BY <1>1, <1>2, <2>1
       DEF Buffers_ClearOverruns, Buffers, ActiveBuffer, NextBuffer, Buffers_Next
<1>4. Counted(mmb') /\ Owned(mmb')
  BY <1>2, <1>3 DEF Counted, Owned, Buffers_Active_Done
<1>5. Stream' = Stream
  BY <1>1, <1>3 DEF Stream
<1>6. WordsAccounted' /\ LossIsReported'
  BY <1>1, <1>5 DEF BufferInv, WordsAccounted, LossIsReported
<1>7. McaInv' /\ ListInv'
  BY <1>1, <1>2, <1>3, <1>4 DEF McaInv, ListInv
<1>8. QED BY <1>1, <1>4, <1>6, <1>7 DEF BufferInv, DataTypeOK

LEMMA ReadListBufferStep ==
  ASSUME DataTypeOK, BufferInv, NEW b \in BufferIds, ReadListBuffer(b)
  PROVE  BufferInv'
<1>1. ActiveBuffer(mmb).level \in Nat
  BY BuffersType DEF DataTypeOK
<1>2. QED
  BY <1>1, ReadPositionStep DEF ReadListBuffer, Buffers_CopyOut, channel, mcaData

(* The three parts of a spectrum are read one after the other.             *)
LEMMA ReadPosition ==
  ASSUME NEW m \in Buffers(Word), NEW j, NEW k
  PROVE  LET n == WithBuffer(m, m.active, [ActiveBuffer(m) EXCEPT !.next = j])
         IN  WithBuffer(n, n.active, [ActiveBuffer(n) EXCEPT !.next = k])
               = WithBuffer(m, m.active, [ActiveBuffer(m) EXCEPT !.next = k])
<1> DEFINE n == WithBuffer(m, m.active, [ActiveBuffer(m) EXCEPT !.next = j])
<1>1. m.active \in BufferIds /\ ActiveBuffer(m) \in Buffer(Word)
  BY NextBufferId, BuffersType
<1>2. n.active = m.active /\ ActiveBuffer(n) = [ActiveBuffer(m) EXCEPT !.next = j]
  BY <1>1 DEF WithBuffer, ActiveBuffer, Buffers
<1>3. [ActiveBuffer(n) EXCEPT !.next = k] = [ActiveBuffer(m) EXCEPT !.next = k]
  BY <1>1, <1>2 DEF Buffer
<1> DEFINE buf == [ActiveBuffer(m) EXCEPT !.next = k]
<1> HIDE DEF buf
<1>4. WithBuffer(n, m.active, buf) = WithBuffer(m, m.active, buf)
  BY <1>1 DEF WithBuffer, Buffers
<1>5. QED BY <1>2, <1>3, <1>4 DEF buf

(* The Active buffer read up to k, and what a read of n words from there   *)
(* returns and leaves.                                                     *)
ReadUpTo(m, k) == WithBuffer(m, m.active, [ActiveBuffer(m) EXCEPT !.next = k])
ReadEnd(m, k, n) == IF k + n > ActiveBuffer(m).level THEN ActiveBuffer(m).level ELSE k + n

LEMMA ReadOn ==
  ASSUME NEW m, Counted(m), NEW k \in Nat, NEW n \in Nat
  PROVE  /\ Buffers_CopyOutWords(ReadUpTo(m, k), n) = ReadUpTo(m, ReadEnd(m, k, n))
         /\ CopiedOut(ReadUpTo(m, k), n)
              = SubSeq(ActiveBuffer(m).data, k + 1, ReadEnd(m, k, n))
<1> DEFINE x == ReadUpTo(m, k)
           e == ReadEnd(m, k, n)
<1>1. m \in Buffers(Word)
  BY DEF Counted
<1>2. /\ ActiveBuffer(x).level = ActiveBuffer(m).level
      /\ ActiveBuffer(x).data = ActiveBuffer(m).data /\ ActiveBuffer(x).next = k
  BY CopyOutCounted DEF ReadUpTo
<1>3. WithBuffer(x, x.active, [ActiveBuffer(x) EXCEPT !.next = e]) = ReadUpTo(m, e)
  BY <1>1, ReadPosition DEF ReadUpTo
<1> HIDE DEF x
<1>4. CopyOutEnd(x, n) = e
  BY <1>2 DEF CopyOutEnd, ReadEnd
<1> HIDE DEF e
<1>5. Buffers_CopyOutWords(x, n) = ReadUpTo(m, e)
  BY <1>3, <1>4 DEF Buffers_CopyOutWords
<1>6. CopiedOut(x, n) = SubSeq(ActiveBuffer(m).data, k + 1, e)
  BY <1>2, <1>4 DEF CopiedOut
<1>7. QED BY <1>5, <1>6 DEF x, e

(* The first and the last of three parts.                                  *)
LEMMA ThreeParts ==
  ASSUME NEW a \in Seq(Word), NEW r \in Seq(Word), NEW t \in Seq(Word),
         NEW d \in Seq(Word), d = a \o r \o t,
         NEW i \in Nat, Len(a) = i, NEW j \in Nat, Len(r) = j, NEW k \in Nat, Len(t) = k
  PROVE  /\ SubSeq(d, 1, i) = a
         /\ SubSeq(d, i + j + 1, i + j + k) = t
<1> DEFINE ar == a \o r
<1>1. /\ ar \in Seq(Word) /\ Len(ar) = i + j /\ d = ar \o t
      /\ i \in Nat /\ j \in Nat /\ k \in Nat
  BY ConcatProperties
<1>2. Len(d) = i + j + k
  <2>1. Len(ar \o t) = Len(ar) + Len(t)
    BY <1>1, ConcatProperties
  <2>2. QED BY <1>1, <2>1
<1>3. SubSeq(d, 1, i) = a
  <2>1. r \o t \in Seq(Word) /\ d = a \o (r \o t)
    BY WordsConcat, SMTT(20)
  <2>2. QED BY <2>1, SplitConcat
<1>4. SubSeq(d, i + j + 1, i + j + k) = t
  <2>1. SubSeq(ar \o t, Len(ar) + 1, Len(ar \o t)) = t
    BY <1>1, SplitConcat
  <2>2. QED BY <1>1, <1>2, <2>1
<1>5. QED BY <1>3, <1>4

LEMMA SubSeqSets ==
  ASSUME NEW d \in Seq(Word), NEW set, \A i \in 1 .. Len(d) : d[i].set = set,
         NEW k \in Nat, NEW e \in Nat, e <= Len(d)
  PROVE  \A i \in DOMAIN SubSeq(d, k + 1, e) : SubSeq(d, k + 1, e)[i].set = set
<1> DEFINE s == SubSeq(d, k + 1, e)
<1>1. \A i \in k + 1 .. e : d[i] \in Word /\ i \in 1 .. Len(d)
  BY ElementOfSeq
<1>2. /\ s \in Seq(Word) /\ Len(s) = IF k + 1 <= e THEN e - (k + 1) + 1 ELSE 0
      /\ \A i \in 1 .. e - (k + 1) + 1 : s[i] = d[k + 1 + i - 1]
  BY <1>1, SubSeqProperties
<1>3. DOMAIN s = 1 .. Len(s)
  BY <1>2
<1>4. ASSUME NEW i \in 1 .. Len(s)
      PROVE  s[i].set = set
  <2>1. i \in 1 .. e - (k + 1) + 1 /\ k + 1 + i - 1 \in 1 .. Len(d)
    BY <1>2
  <2>2. QED BY <1>2, <2>1
<1>5. QED BY <1>3, <1>4

(* What a read of the mca returns, by the positions the parts end at.      *)
LEMMA SpectrumRead ==
  ASSUME DataTypeOK, BufferInv, ReadMca
  PROVE  LET d  == ActiveBuffer(mmb).data
             a  == IF settings.accepted THEN numBins ELSE 0
             r  == IF settings.rejected THEN numBins ELSE 0
             e1 == ReadEnd(mmb, 0, a)
             e2 == ReadEnd(mmb, e1, r)
             e3 == ReadEnd(mmb, e2, StatsWords)
         IN  /\ a \in Nat /\ r \in Nat /\ e1 \in Nat /\ e2 \in Nat /\ e3 \in Nat
             /\ mmb' = ReadUpTo(mmb, e3)
             /\ spectrum' = [from     |-> latest,
                             asked    |-> [accepted |-> a, rejected |-> r],
                             accepted |-> IF a = 0 THEN << >> ELSE SubSeq(d, 1, e1),
                             rejected |-> IF r = 0 THEN << >> ELSE SubSeq(d, e1 + 1, e2),
                             stats    |-> SubSeq(d, e2 + 1, e3)]
<1> DEFINE d  == ActiveBuffer(mmb).data
           a  == IF settings.accepted THEN numBins ELSE 0
           r  == IF settings.rejected THEN numBins ELSE 0
           e1 == ReadEnd(mmb, 0, a)
           e2 == ReadEnd(mmb, e1, r)
           e3 == ReadEnd(mmb, e2, StatsWords)
           m0 == Rewound(mmb)
           m1 == Buffers_CopyOutWords(m0, a)
           m2 == Buffers_CopyOutWords(m1, r)
<1>1. Counted(mmb) /\ ActiveBuffer(mmb).level \in Nat /\ StatsWords \in Nat
  BY BuffersType, ConstantsType DEF BufferInv, Counted
<1>2. a \in Nat /\ r \in Nat
  BY DEF DataTypeOK
<1>3. /\ mmb' = Buffers_CopyOutWords(m2, StatsWords)
      /\ spectrum' = [from     |-> latest,
                      asked    |-> [accepted |-> a, rejected |-> r],
                      accepted |-> IF a = 0 THEN << >> ELSE CopiedOut(m0, a),
                      rejected |-> IF r = 0 THEN << >> ELSE CopiedOut(m1, r),
                      stats    |-> CopiedOut(m2, StatsWords)]
  BY DEF ReadMca
<1>4. m0 = ReadUpTo(mmb, 0)
  BY DEF Rewound, Buffers_Active_Reset, ReadUpTo
<1> HIDE DEF a, r, m0
<1>5. \A k, n \in Nat : ReadEnd(mmb, k, n) \in Nat
  BY <1>1 DEF ReadEnd
<1>6. e1 \in Nat /\ m1 = ReadUpTo(mmb, e1) /\ CopiedOut(m0, a) = SubSeq(d, 0 + 1, e1)
  BY <1>1, <1>2, <1>4, <1>5, ReadOn
<1> HIDE DEF e1, m1
<1>7. e2 \in Nat /\ m2 = ReadUpTo(mmb, e2) /\ CopiedOut(m1, r) = SubSeq(d, e1 + 1, e2)
  BY <1>1, <1>2, <1>5, <1>6, ReadOn
<1> HIDE DEF e2, m2
<1>8. e3 \in Nat /\ mmb' = ReadUpTo(mmb, e3)
      /\ CopiedOut(m2, StatsWords) = SubSeq(d, e2 + 1, e3)
  BY <1>1, <1>3, <1>5, <1>7, ReadOn
<1> HIDE DEF e3
<1>9. 0 + 1 = 1
  OBVIOUS
<1>10. spectrum' = [from     |-> latest,
                    asked    |-> [accepted |-> a, rejected |-> r],
                    accepted |-> IF a = 0 THEN << >> ELSE SubSeq(d, 1, e1),
                    rejected |-> IF r = 0 THEN << >> ELSE SubSeq(d, e1 + 1, e2),
                    stats    |-> SubSeq(d, e2 + 1, e3)]
  BY <1>3, <1>6, <1>7, <1>8, <1>9
<1>11. QED BY <1>2, <1>6, <1>7, <1>8, <1>10 DEF a, r, e1, e2, e3

LEMMA ReadMcaStep ==
  ASSUME DataTypeOK, BufferInv, ReadMca
  PROVE  BufferInv'
<1>1. PICK k \in Nat : mmb' = ReadUpTo(mmb, k)
  BY SpectrumRead
<1>2. UNCHANGED <<mode, numBins, latest, statistics, listData>>
  BY DEF ReadMca, channel
<1>3. QED BY <1>1, <1>2, ReadPositionStep DEF ReadUpTo

(* A part that was asked for as it was sent is a part of the buffer.       *)
LEMMA PartAsked ==
  ASSUME NEW h \in HistogramMessage, NEW name \in Parts, NEW n \in {0, numBins},
         numBins \in Nat \ {0}
  PROVE  PartOf(name, h, n) = Words(name, h.set, n)
<1>1. CASE n = numBins
  BY <1>1 DEF PartOf
<1>2. CASE n = 0
  <2>1. PartOf(name, h, n) = << >>
    BY <1>2 DEF PartOf
  <2>2. \A k \in Nat : Words(name, k, 0) \in Seq(Word) /\ Len(Words(name, k, 0)) = 0
    BY WordsType
  <2>3. \A k \in Nat : Words(name, k, 0) = << >>
    BY <2>2, EmptySeq
  <2>4. h.set \in Nat
    BY DEF HistogramMessage
  <2>5. QED BY <1>2, <2>1, <2>3, <2>4
<1>3. QED BY <1>1, <1>2

LEMMA ReadMcaIsLatest ==
  ASSUME DataTypeOK, BufferInv, ReadMca
  PROVE  SpectrumIsLatest'
<1> DEFINE d  == ActiveBuffer(mmb).data
           l  == ActiveBuffer(mmb).level
           a  == IF settings.accepted THEN numBins ELSE 0
           r  == IF settings.rejected THEN numBins ELSE 0
           e1 == ReadEnd(mmb, 0, a)
           e2 == ReadEnd(mmb, e1, r)
           e3 == ReadEnd(mmb, e2, StatsWords)
<1>1. /\ a \in Nat /\ r \in Nat /\ e1 \in Nat /\ e2 \in Nat /\ e3 \in Nat
      /\ spectrum' = [from     |-> latest,
                      asked    |-> [accepted |-> a, rejected |-> r],
                      accepted |-> IF a = 0 THEN << >> ELSE SubSeq(d, 1, e1),
                      rejected |-> IF r = 0 THEN << >> ELSE SubSeq(d, e1 + 1, e2),
                      stats    |-> SubSeq(d, e2 + 1, e3)]
  BY SpectrumRead
<1>2. /\ mode = "MCA" /\ l > 0 /\ numBins \in Nat \ {0} /\ latest \in HistogramMessage
      /\ d = SpectrumOf(latest)
  BY DEF ReadMca, BufferInv, McaInv, DataTypeOK
<1>3. l = Len(d) /\ d \in Seq(Word) /\ l \in Nat /\ StatsWords \in Nat
  BY BuffersType, ConstantsType DEF BufferInv, Counted, Fits
<1>4. \A i \in 1 .. Len(d) : d[i].set = latest.set
  BY <1>2, SpectrumOfOneSet
<1>5. a \in {0, numBins} /\ r \in {0, numBins}
  OBVIOUS
<1>6. e1 = (IF 0 + a > l THEN l ELSE 0 + a) /\ e2 = (IF e1 + r > l THEN l ELSE e1 + r)
      /\ e3 = (IF e2 + StatsWords > l THEN l ELSE e2 + StatsWords)
  BY DEF ReadEnd
<1> HIDE DEF d, l, a, r, e1, e2, e3
<1>7. e1 <= Len(d) /\ e2 <= Len(d) /\ e3 <= Len(d)
  BY <1>1, <1>3, <1>6
<1>8. /\ spectrum'.from = latest /\ spectrum'.asked = [accepted |-> a, rejected |-> r]
      /\ spectrum'.accepted = IF a = 0 THEN << >> ELSE SubSeq(d, 1, e1)
      /\ spectrum'.rejected = IF r = 0 THEN << >> ELSE SubSeq(d, e1 + 1, e2)
      /\ spectrum'.stats = SubSeq(d, e2 + 1, e3)
  BY <1>1
<1>9. ASSUME NEW part \in {"accepted", "rejected", "stats"}
      PROVE  \A i \in DOMAIN spectrum'[part] : spectrum'[part][i].set = latest.set
  <2>1. \A i \in DOMAIN << >> : << >>[i].set = latest.set
    OBVIOUS
  <2>2. \A i \in DOMAIN SubSeq(d, 0 + 1, e1) : SubSeq(d, 0 + 1, e1)[i].set = latest.set
    BY <1>1, <1>3, <1>4, <1>7, SubSeqSets
  <2>3. \A i \in DOMAIN SubSeq(d, e1 + 1, e2) : SubSeq(d, e1 + 1, e2)[i].set = latest.set
    BY <1>1, <1>3, <1>4, <1>7, SubSeqSets
  <2>4. \A i \in DOMAIN SubSeq(d, e2 + 1, e3) : SubSeq(d, e2 + 1, e3)[i].set = latest.set
    BY <1>1, <1>3, <1>4, <1>7, SubSeqSets
  <2>5. 0 + 1 = 1
    OBVIOUS
  <2>6. CASE part = "accepted"
    BY <1>8, <2>1, <2>2, <2>5, <2>6
  <2>7. CASE part = "rejected"
    BY <1>8, <2>1, <2>3, <2>7
  <2>8. CASE part = "stats"
    BY <1>8, <2>4, <2>8
  <2>9. QED BY <2>6, <2>7, <2>8
<1>10. ASSUME [accepted |-> a, rejected |-> r]
                = [accepted |-> latest.accepted, rejected |-> latest.rejected]
       PROVE  /\ spectrum'.accepted = Words("accepted", latest.set, latest.accepted)
              /\ spectrum'.rejected = Words("rejected", latest.set, latest.rejected)
              /\ spectrum'.stats = Words("stats", latest.set, StatsWords)
  <2> DEFINE wa == Words("accepted", latest.set, a)
             wr == Words("rejected", latest.set, r)
             ws == Words("stats", latest.set, StatsWords)
  <2>1. a = latest.accepted /\ r = latest.rejected
    BY <1>10
  <2>2. d = wa \o wr \o ws
    <3>1. PartOf("accepted", latest, a) = wa /\ PartOf("rejected", latest, r) = wr
      BY <1>2, <1>5, PartAsked DEF Parts
    <3>2. QED BY <1>2, <2>1, <3>1 DEF SpectrumOf
  <2>3. /\ wa \in Seq(Word) /\ Len(wa) = a /\ wr \in Seq(Word) /\ Len(wr) = r
        /\ ws \in Seq(Word) /\ Len(ws) = StatsWords
    <3>1. \A part \in Parts, k, n \in Nat :
            Words(part, k, n) \in Seq(Word) /\ Len(Words(part, k, n)) = n
      BY WordsType
    <3>2. latest.set \in Nat /\ {"accepted", "rejected", "stats"} \subseteq Parts
      BY <1>2 DEF HistogramMessage, Parts
    <3>3. QED BY <1>1, <1>3, <3>1, <3>2
  <2> HIDE DEF wa, wr, ws
  <2>4. /\ Len(d) = a + r + StatsWords
        /\ SubSeq(d, 1, a) = wa
        /\ r > 0 => SubSeq(d, a + 1, a + r) = wr
        /\ SubSeq(d, a + r + 1, a + r + StatsWords) = ws
    <3>1. /\ wa \in Seq(Word) /\ wr \in Seq(Word) /\ ws \in Seq(Word) /\ d \in Seq(Word)
          /\ Len(wa) = a /\ Len(wr) = r /\ Len(ws) = StatsWords
          /\ a \in Nat /\ r \in Nat /\ StatsWords \in Nat
      BY <1>1, <1>3, <2>3
    <3>2. Len(d) = a + r + StatsWords
      <4>1. wa \o wr \in Seq(Word) /\ Len(wa \o wr) = Len(wa) + Len(wr)
        BY <3>1, ConcatProperties
      <4>2. Len((wa \o wr) \o ws) = Len(wa \o wr) + Len(ws)
        BY <3>1, <4>1, ConcatProperties
      <4>3. QED BY <2>2, <3>1, <4>1, <4>2
    <3>3. SubSeq(d, 1, a) = wa
      BY <2>2, <3>1, ThreeParts
    <3>4. ASSUME r > 0 PROVE SubSeq(d, a + 1, a + r) = wr
      <4>1. /\ wa \o wr \in Seq(Word) /\ Len(wa \o wr) = a + r
            /\ a + 1 \in 1 .. Len(wa \o wr) /\ a + r \in 1 .. Len(wa \o wr)
        <5>1. wa \o wr \in Seq(Word) /\ Len(wa \o wr) = Len(wa) + Len(wr)
          BY <3>1, ConcatProperties
        <5>2. QED BY <3>1, <3>4, <5>1
      <4>2. SubSeq((wa \o wr) \o ws, a + 1, a + r) = SubSeq(wa \o wr, a + 1, a + r)
        BY <3>1, <4>1, SubSeqOfConcat1
      <4>3. SubSeq(wa \o wr, Len(wa) + 1, Len(wa \o wr)) = wr
        BY <3>1, SplitConcat
      <4>4. QED BY <2>2, <3>1, <4>1, <4>2, <4>3
    <3>5. SubSeq(d, a + r + 1, a + r + StatsWords) = ws
      BY <2>2, <3>1, ThreeParts
    <3>6. QED BY <3>2, <3>3, <3>4, <3>5
  <2>5. e1 = a /\ e2 = a + r /\ e3 = a + r + StatsWords
    BY <1>1, <1>3, <1>6, <2>4
  <2>6. (a = 0 => wa = << >>) /\ (r = 0 => wr = << >>)
    BY <2>3, EmptySeq
  <2>7. spectrum'.accepted = wa /\ spectrum'.rejected = wr /\ spectrum'.stats = ws
    <3>1. r = 0 \/ r > 0
      BY <1>1
    <3>2. QED BY <1>8, <2>4, <2>5, <2>6, <3>1
  <2>8. QED BY <2>1, <2>7 DEF wa, wr, ws
<1>11. QED BY <1>8, <1>9, <1>10 DEF SpectrumIsLatest

---------------------------------------------------------------------------
(* Every step keeps the invariant.                                         *)
DataInv == DataTypeOK /\ WireInv /\ BufferInv

LEMMA BufferStep ==
  ASSUME DataTypeOK, BufferInv, [ChannelNext]_vars
  PROVE  BufferInv'
<1>1. ASSUME NEW m \in Modes, NEW calibrated \in BOOLEAN, StartRun(m, calibrated)
      PROVE  BufferInv'
  BY <1>1, StartRunStep
<1>2. ASSUME NEW ok \in BOOLEAN, NEW stops \in BOOLEAN, StopRun(ok, stops)
      PROVE  BufferInv'
  BY <1>2, QuietStep DEF StopRun, mcaData
<1>3. ASSUME NEW s \in Settings, ChangeSettings(s)
      PROVE  BufferInv'
  BY <1>3, QuietStep DEF ChangeSettings, mcaData
<1>4. CASE DeviceSends
  BY <1>4, QuietStep DEF DeviceSends, channel, mcaData
<1>5. CASE RunEnds
  BY <1>5, QuietStep DEF RunEnds, mcaData
<1>6. CASE ReceiveState
  BY <1>6, QuietStep DEF ReceiveState, mcaData
<1>7. CASE ReceiveElse
  BY <1>7, QuietStep DEF ReceiveElse, channel, mcaData
<1>8. CASE Mm0Next
  BY <1>8, ReceiveHistogramStep, ReadMcaStep DEF Mm0Next
<1>9. CASE ListNext
  BY <1>9, ReceiveListStep, ReadListBufferStep, ListBufferDoneStep, ListBufferOverrunStep
     DEF ListNext
<1>10. CASE UNCHANGED vars
  BY <1>10, QuietStep DEF vars, mcaData
<1>11. QED
  BY <1>1, <1>2, <1>3, <1>4, <1>5, <1>6, <1>7, <1>8, <1>9, <1>10 DEF ChannelNext, DataNext

LEMMA StateMessageType ==
  ASSUME NEW s \in States
  PROVE  [type |-> "state", state |-> s] \in Message
BY DEF Message, StateMessage

LEMMA SentType ==
  ASSUME DataTypeOK, DeviceSends
  PROVE  /\ sets' \in Nat /\ device' = device /\ channelState' = channelState
         /\ \E msg \in Message :
              /\ wire' = Append(wire, msg) /\ msg.type # "state"
              /\ \A m \in Modes : msg.type = DataOf[m] => device = RunStates[m]
<1>1. sets' \in Nat \ {0} /\ device' = device /\ channelState' = channelState
  BY DEF DeviceSends, DataTypeOK, channel
<1>2. CASE device = "Histogram" /\ wire' = Append(wire, Histogram(sets'))
  <2>1. settings.bins \in Nat
    BY ConstantsType DEF DataTypeOK, Settings
  <2>2. Histogram(sets') \in HistogramMessage /\ Histogram(sets').type = "histogram"
    BY <1>1, <2>1 DEF Histogram, HistogramMessage
  <2>3. QED BY <1>1, <1>2, <2>2 DEF Message, Modes, DataOf, RunStates
<1>3. ASSUME device = "ListMode", NEW w \in PacketSizes, wire' = Append(wire, Packet(sets', w))
      PROVE  \E msg \in Message :
               /\ wire' = Append(wire, msg) /\ msg.type # "state"
               /\ \A m \in Modes : msg.type = DataOf[m] => device = RunStates[m]
  <2>1. Packet(sets', w) \in ListMessage /\ Packet(sets', w).type = "list"
    BY <1>1, ConstantsType DEF Packet, ListMessage
  <2>2. QED BY <1>3, <2>1 DEF Message, Modes, DataOf, RunStates
<1>4. QED BY <1>1, <1>2, <1>3 DEF DeviceSends

(* What is put on the wire or taken from it.                               *)
LEMMA WireStep ==
  ASSUME DataTypeOK, WireInv, [ChannelNext]_vars
  PROVE  WireInv' /\ wire' \in Seq(Message) /\ device' \in States /\ channelState' \in States
<1> USE DEF DataTypeOK
<1>1. ASSUME UNCHANGED <<wire, device, channelState>>
      PROVE  WireInv' /\ wire' \in Seq(Message) /\ device' \in States /\ channelState' \in States
  BY <1>1 DEF WireInv
<1>2. ASSUME NEW s \in States, device' = s, channelState' = channelState,
             wire' = Append(wire, [type |-> "state", state |-> s])
      PROVE  WireInv' /\ wire' \in Seq(Message) /\ device' \in States /\ channelState' \in States
  <2>1. [type |-> "state", state |-> s] \in Message
    BY StateMessageType
  <2>2. wire' \in Seq(Message)
    BY <1>2, <2>1, AppendProperties
  <2>3. QED BY <1>2, <2>1, <2>2, WireSent
<1>3. ASSUME NEW type, Receiving(type), device' = device,
             channelState' = IF type = "state" THEN Head(wire).state ELSE channelState
      PROVE  WireInv' /\ wire' \in Seq(Message) /\ device' \in States /\ channelState' \in States
  BY <1>3, ReceivedType, WireTaken
<1>4. ASSUME NEW m \in Modes, NEW calibrated \in BOOLEAN, StartRun(m, calibrated)
      PROVE  WireInv' /\ wire' \in Seq(Message) /\ device' \in States /\ channelState' \in States
  <2>1. RunStates[m] \in States /\ channelState' = channelState
    BY <1>4 DEF RunStates, Modes, States, StartRun
  <2>2. QED BY <1>1, <1>2, <1>4, <2>1 DEF StartRun, StartAcquisition
<1>5. ASSUME NEW ok \in BOOLEAN, NEW stops \in BOOLEAN, StopRun(ok, stops)
      PROVE  WireInv' /\ wire' \in Seq(Message) /\ device' \in States /\ channelState' \in States
  BY <1>1, <1>2, <1>5 DEF StopRun, States
<1>6. ASSUME NEW s \in Settings, ChangeSettings(s)
      PROVE  WireInv' /\ wire' \in Seq(Message) /\ device' \in States /\ channelState' \in States
  BY <1>1, <1>6 DEF ChangeSettings
<1>7. CASE DeviceSends
  <2>1. PICK msg \in Message :
          /\ wire' = Append(wire, msg) /\ msg.type # "state"
          /\ \A m \in Modes : msg.type = DataOf[m] => device = RunStates[m]
    BY <1>7, SentType
  <2>2. device' = device /\ channelState' = channelState /\ wire' \in Seq(Message)
    BY <1>7, <2>1, SentType, AppendProperties
  <2>3. QED BY <2>1, <2>2, WireSent
<1>8. CASE RunEnds
  BY <1>2, <1>8 DEF RunEnds, States
<1>9. CASE ReceiveState
  BY <1>3, <1>9 DEF ReceiveState
<1>10. CASE ReceiveElse
  BY <1>3, <1>10 DEF ReceiveElse, channel
<1>11. CASE Mm0Next
  BY <1>1, <1>3, <1>11 DEF Mm0Next, ReceiveHistogram, ReadMca, channel
<1>12. CASE ListNext
  <2>1. CASE ReceiveList
    BY <1>3, <2>1 DEF ReceiveList, channel
  <2>2. ASSUME NEW b \in BufferIds, ReadListBuffer(b) \/ ListBufferDone(b)
        PROVE  WireInv' /\ wire' \in Seq(Message) /\ device' \in States /\ channelState' \in States
    BY <1>1, <2>2 DEF ReadListBuffer, ListBufferDone, channel
  <2>3. CASE ListBufferOverrun
    BY <1>1, <2>3 DEF ListBufferOverrun, channel
  <2>4. QED BY <1>12, <2>1, <2>2, <2>3 DEF ListNext
<1>13. CASE UNCHANGED vars
  BY <1>1, <1>13 DEF vars
<1>14. QED
  BY <1>4, <1>5, <1>6, <1>7, <1>8, <1>9, <1>10, <1>11, <1>12, <1>13
     DEF ChannelNext, DataNext

LEMMA DataInvStep == DataInv /\ [ChannelNext]_vars => DataInv'
<1> SUFFICES ASSUME DataInv, [ChannelNext]_vars PROVE DataInv'
  OBVIOUS
<1>1. DataTypeOK /\ WireInv /\ BufferInv
  BY DEF DataInv
<1>2. BufferInv'
  BY <1>1, BufferStep
<1>3. WireInv' /\ wire' \in Seq(Message) /\ device' \in States /\ channelState' \in States
  BY <1>1, WireStep
<1>4. mmb' \in Buffers(Word)
  BY <1>2 DEF BufferInv, Counted
<1> DEFINE Rest ==
      /\ settings \in Settings /\ mode \in Modes \cup {"NIL"} /\ numBins \in Nat
      /\ latest \in HistogramMessage \cup {NoHistogram} /\ statistics \in Nat
      /\ sent \in Seq(Word) /\ handed \in Seq(Word) /\ lost \in Nat /\ warned \in BOOLEAN
      /\ sets \in Nat
<1>5. Rest
  BY <1>1 DEF DataTypeOK
<1>6. Rest'
  <2>1. ASSUME NEW m \in Modes, NEW calibrated \in BOOLEAN, StartRun(m, calibrated)
        PROVE  Rest'
    <3>1. settings.bins \in Nat /\ << >> \in Seq(Word)
      BY <1>1, OpenedType
    <3>2. /\ settings' = settings /\ mode' = m /\ latest' = NoHistogram
          /\ numBins' = IF m = "MCA" THEN settings.bins ELSE 0
          /\ sent' = << >> /\ handed' = << >> /\ lost' = 0 /\ warned' = FALSE
          /\ statistics' = statistics /\ sets' = sets
      BY <2>1 DEF StartRun
    <3>3. QED BY <1>5, <3>1, <3>2
  <2>2. ASSUME NEW ok \in BOOLEAN, NEW stops \in BOOLEAN, StopRun(ok, stops)
        PROVE  Rest'
    BY <1>5, <2>2 DEF StopRun, mcaData, listData, history
  <2>3. ASSUME NEW s \in Settings, ChangeSettings(s)
        PROVE  Rest'
    BY <1>5, <2>3 DEF ChangeSettings, mcaData, listData
  <2>4. CASE DeviceSends
    BY <1>1, <1>5, <2>4, SentType DEF DeviceSends, channel, mcaData, listData
  <2>5. CASE RunEnds
    BY <1>5, <2>5 DEF RunEnds, mcaData, listData, history
  <2>6. CASE ReceiveState
    BY <1>5, <2>6 DEF ReceiveState, mcaData, listData, history
  <2>7. CASE ReceiveElse
    BY <1>5, <2>7 DEF ReceiveElse, channel, mcaData, listData, history
  <2>8. CASE ReceiveHistogram
    <3>1. Head(wire) \in HistogramMessage /\ Head(wire).set \in Nat
      BY <1>1, <2>8, ReceivedType DEF ReceiveHistogram, HistogramMessage
    <3>2. QED BY <1>5, <2>8, <3>1 DEF ReceiveHistogram, channel, listData, history
  <2>9. CASE ReadMca
    BY <1>5, <2>9 DEF ReadMca, channel, listData, history
  <2>10. CASE ReceiveList
    <3>1. sent' \in Seq(Word) /\ lost' \in Nat
      BY <1>1, <2>10, ReceiveListStep
    <3>2. QED BY <1>5, <2>10, <3>1 DEF ReceiveList, channel, mcaData, history
  <2>11. ASSUME NEW b \in BufferIds, ReadListBuffer(b)
         PROVE  Rest'
    BY <1>5, <2>11 DEF ReadListBuffer, channel, mcaData, listData, history
  <2>12. ASSUME NEW b \in BufferIds, ListBufferDone(b)
         PROVE  Rest'
    <3>1. handed' \in Seq(Word)
      BY <1>1, <2>12, ListBufferDoneStep
    <3>2. QED BY <1>5, <2>12, <3>1 DEF ListBufferDone, channel, mcaData, history
  <2>13. CASE ListBufferOverrun
    <3>1. warned' \in BOOLEAN
      BY <1>1, <2>13, ListBufferOverrunStep
    <3>2. QED BY <1>5, <2>13, <3>1 DEF ListBufferOverrun, channel, mcaData, history
  <2>14. CASE UNCHANGED vars
    BY <1>5, <2>14 DEF vars, mcaData, listData, history
  <2>15. QED
    BY <2>1, <2>2, <2>3, <2>4, <2>5, <2>6, <2>7, <2>8, <2>9, <2>10, <2>11, <2>12, <2>13,
       <2>14 DEF ChannelNext, DataNext, Mm0Next, ListNext
<1>7. DataTypeOK'
  BY <1>3, <1>4, <1>6 DEF DataTypeOK
<1>8. QED BY <1>2, <1>3, <1>7 DEF DataInv

LEMMA DataInvInit == DataInit => DataInv
<1> SUFFICES ASSUME DataInit PROVE DataInv
  OBVIOUS
<1> DEFINE o == Buffers_Open(0, 0)
<1>1. /\ settings \in Settings /\ device = "Ready" /\ wire = << >> /\ channelState = "Ready"
      /\ mode = "NIL" /\ mmb = o /\ numBins = 0 /\ latest = NoHistogram /\ statistics = 0
      /\ sent = << >> /\ handed = << >> /\ lost = 0 /\ warned = FALSE /\ sets = 0
  BY DEF DataInit
<1>2. Counted(o)
  BY OpenCounted
<1> HIDE DEF o
<1>3. DataTypeOK
  <2>1. << >> \in Seq(Message) /\ << >> \in Seq(Word)
    OBVIOUS
  <2>2. "Ready" \in States /\ o \in Buffers(Word)
    BY <1>2 DEF States, Counted
  <2>3. QED BY <1>1, <2>1, <2>2 DEF DataTypeOK
<1>4. WireInv
  <2>1. Len(wire) = 0 /\ DOMAIN wire = {} /\ 0 \in 0 .. 0 + 1 - 1 /\ 0 + 1 .. 0 + 1 - 1 = {}
    BY <1>1
  <2>2. InForce(wire, channelState, 0 + 1, device)
    BY <1>1, <2>1 DEF InForce
  <2>3. QED BY <2>1, <2>2 DEF WireInv
<1>5. WordsAccounted
  <2>1. Stream = << >> /\ Len(<< >>) = 0 /\ 0 = 0 + 0
    BY <1>1 DEF Stream
  <2>2. QED BY <1>1, <2>1 DEF WordsAccounted
<1>6. BufferInv
  BY <1>1, <1>2, <1>5 DEF BufferInv, McaInv, ListInv, LossIsReported
<1>7. QED BY <1>3, <1>4, <1>6 DEF DataInv

LEMMA DataInvCorrect == ChannelSpec => []DataInv
BY DataInvInit, DataInvStep, PTL DEF ChannelSpec

(* List mode, psl__ReceiveListMode_MM3 and psl_mm_BufferDone: no word of a *)
(* packet is counted twice or forgotten, whatever the packet's length, the *)
(* buffer's and the moment the user is done with a buffer.                 *)
THEOREM EveryWordAccounted == ChannelSpec => []WordsAccounted
<1>1. DataInv => WordsAccounted
  BY DEF DataInv, BufferInv
<1>2. QED BY <1>1, DataInvCorrect, PTL

(* List mode, psl__mm3_buffer_overrun: words that found no room show in    *)
(* the overrun count until the user has read it.                           *)
THEOREM EveryLossReported == ChannelSpec => []LossIsReported
<1>1. DataInv => LossIsReported
  BY DEF DataInv, BufferInv
<1>2. QED BY <1>1, DataInvCorrect, PTL

(* Mapping mode 0, psl__mm0_mca: whatever the acquisition values are when  *)
(* the spectrum is read, all of it is of the histogram received last, and  *)
(* it is whole and in its place when the values are the histogram's.       *)
THEOREM SpectrumOfTheLatest == ChannelSpec => []SpectrumIsLatest
<1>1. DataInit => SpectrumIsLatest
  BY DEF DataInit, SpectrumIsLatest, NoSpectrum, NoHistogram
<1>2. DataInv /\ SpectrumIsLatest /\ [ChannelNext]_vars => SpectrumIsLatest'
  <2> SUFFICES ASSUME DataInv, SpectrumIsLatest, [ChannelNext]_vars PROVE SpectrumIsLatest'
    OBVIOUS
  <2>1. CASE ReadMca
    BY <2>1, ReadMcaIsLatest DEF DataInv
  <2>2. ASSUME NEW m \in Modes, NEW calibrated \in BOOLEAN, StartRun(m, calibrated)
        PROVE  SpectrumIsLatest'
    BY <2>2 DEF StartRun, SpectrumIsLatest, NoSpectrum, NoHistogram
  <2>3. ASSUME spectrum' = spectrum
        PROVE  SpectrumIsLatest'
    BY <2>3 DEF SpectrumIsLatest
  <2>4. CASE ReceiveHistogram \/ ListNext \/ UNCHANGED vars
    BY <2>3, <2>4
       DEF ReceiveHistogram, ListNext, ReceiveList, ReadListBuffer, ListBufferDone,
           ListBufferOverrun, vars, mcaData
  <2>5. ASSUME NEW ok, NEW stops, StopRun(ok, stops)
        PROVE  SpectrumIsLatest'
    BY <2>3, <2>5 DEF StopRun, mcaData
  <2>6. ASSUME NEW s, ChangeSettings(s)
        PROVE  SpectrumIsLatest'
    BY <2>3, <2>6 DEF ChangeSettings, mcaData
  <2>7. CASE DeviceSends \/ RunEnds \/ ReceiveState \/ ReceiveElse
    BY <2>3, <2>7 DEF DeviceSends, RunEnds, ReceiveState, ReceiveElse, mcaData
  <2>8. QED
    BY <2>1, <2>2, <2>4, <2>5, <2>6, <2>7 DEF ChannelNext, DataNext, Mm0Next
<1>3. QED BY <1>1, <1>2, DataInvCorrect, PTL DEF ChannelSpec

---------------------------------------------------------------------------
(* What the handlers of the two modes answer.                              *)
LEMMA McaAnswers ==
  ASSUME settings.mapping_mode = "MCA"
  PROVE  /\ GetRunData("run_active") = mm0_run_active
         /\ GetRunData("module_statistics_2") = Statistic
<1> DEFINE handlers == Handlers["MCA"]
<1>1. /\ {"run_active", "module_statistics_2"} \subseteq DOMAIN handlers
      /\ handlers["run_active"] = mm0_run_active
      /\ handlers["module_statistics_2"] = mm0_module_statistics_2
  BY DEF Handlers
<1> HIDE DEF handlers
<1>2. \A name \in {"run_active", "module_statistics_2"} : GetRunData(name) = handlers[name]
  BY <1>1 DEF GetRunData, handlers
<1>3. QED BY <1>1, <1>2 DEF mm0_module_statistics_2

LEMMA ListAnswers ==
  ASSUME settings.mapping_mode = "LIST"
  PROVE  /\ GetRunData("run_active") = mm3_run_active
         /\ GetRunData("buffer_len") = mm3_buffer_len
         /\ GetRunData("list_buffer_len_a") = mm3_list_buffer_len(0)
         /\ GetRunData("list_buffer_len_b") = mm3_list_buffer_len(1)
<1> DEFINE handlers == Handlers["LIST"]
           names == {"run_active", "buffer_len", "list_buffer_len_a", "list_buffer_len_b"}
<1>1. /\ names \subseteq DOMAIN handlers
      /\ handlers["run_active"] = mm3_run_active
      /\ handlers["buffer_len"] = mm3_buffer_len
      /\ handlers["list_buffer_len_a"] = mm3_list_buffer_len_a
      /\ handlers["list_buffer_len_b"] = mm3_list_buffer_len_b
  BY DEF Handlers
<1> HIDE DEF handlers
<1>2. \A name \in names : GetRunData(name) = handlers[name]
  BY <1>1 DEF GetRunData, handlers
<1>3. QED BY <1>1, <1>2 DEF mm3_list_buffer_len_a, mm3_list_buffer_len_b

LEMMA DataIsAnnounced ==
  ASSUME DataInv, mode = settings.mapping_mode, mode \in Modes,
         NEW i \in DOMAIN wire, Idle, wire[i].type = DataOf[mode]
  PROVE  \E j \in 1 .. i - 1 : wire[j] = [type |-> "state", state |-> RunStates[mode]]
<1>1. channelState # RunStates[mode]
  <2>1. CASE mode = "MCA"
    <3>1. Flag(channelState = "Histogram" /\ mode = "MCA").value = 0
      BY <2>1, McaAnswers DEF Idle, mm0_run_active
    <3>2. ~(channelState = "Histogram" /\ mode = "MCA")
      BY <3>1 DEF Flag, Answer
    <3>3. QED BY <2>1, <3>2 DEF RunStates
  <2>2. CASE mode = "LIST"
    <3>1. Flag(channelState = "ListMode" /\ mode = "LIST").value = 0
      BY <2>2, ListAnswers DEF Idle, mm3_run_active
    <3>2. ~(channelState = "ListMode" /\ mode = "LIST")
      BY <3>1 DEF Flag, Answer
    <3>3. QED BY <2>2, <3>2 DEF RunStates
  <2>3. QED BY <2>1, <2>2 DEF Modes
<1>2. InForce(wire, channelState, i, RunStates[mode])
  BY DEF DataInv, WireInv
<1>3. PICK j \in 0 .. i - 1 :
        \/ j = 0 /\ channelState = RunStates[mode]
        \/ j > 0 /\ wire[j] = [type |-> "state", state |-> RunStates[mode]]
  BY <1>2 DEF InForce
<1>4. i \in Nat
  BY DEF DataInv, DataTypeOK
<1>5. j \in 1 .. i - 1 /\ wire[j] = [type |-> "state", state |-> RunStates[mode]]
  BY <1>1, <1>3, <1>4
<1>6. QED BY <1>5

(* psl__GetRunData: a run that is answered to be over has sent all it will *)
(* send, the statistics answered are those of the spectrum that would be   *)
(* read, and a list mode buffer and its header fit the length answered.    *)
THEOREM AnswersAgreeWithData == ChannelSpec => []AnswersAgree
<1>1. DataInv => AnswersAgree
  <2> SUFFICES ASSUME DataInv, mode = settings.mapping_mode
               PROVE  /\ \A i \in DOMAIN wire :
                           Idle /\ wire[i].type = DataOf[mode] =>
                             \E j \in 1 .. i - 1 :
                               wire[j] = [type |-> "state", state |-> RunStates[mode]]
                      /\ mode = "MCA" /\ ActiveBuffer(mmb).level > 0 =>
                           \A i \in DOMAIN ActiveBuffer(mmb).data :
                             ActiveBuffer(mmb).data[i].set
                               = GetRunData("module_statistics_2").value
                      /\ mode = "LIST" =>
                           /\ ActiveBuffer(mmb).level + HeaderWords
                                <= GetRunData("buffer_len").value
                           /\ \A b \in BufferIds :
                                LET len == IF b = 0 THEN "list_buffer_len_a"
                                                    ELSE "list_buffer_len_b"
                                IN  GetRunData(len).value + HeaderWords
                                      <= GetRunData("buffer_len").value
    BY DEF AnswersAgree
  <2>1. mode \in Modes /\ DataTypeOK /\ BufferInv
    BY DEF DataInv, DataTypeOK, Settings
  <2>2. \A i \in DOMAIN wire :
          Idle /\ wire[i].type = DataOf[mode] =>
            \E j \in 1 .. i - 1 : wire[j] = [type |-> "state", state |-> RunStates[mode]]
    BY <2>1, DataIsAnnounced
  <2>3. ASSUME mode = "MCA", ActiveBuffer(mmb).level > 0,
               NEW i \in DOMAIN ActiveBuffer(mmb).data
        PROVE  ActiveBuffer(mmb).data[i].set = GetRunData("module_statistics_2").value
    <3>1. /\ latest \in HistogramMessage /\ statistics = latest.set
          /\ ActiveBuffer(mmb).data = SpectrumOf(latest) /\ numBins \in Nat
      BY <2>1, <2>3 DEF BufferInv, McaInv, DataTypeOK
    <3>2. GetRunData("module_statistics_2").value = statistics
      BY <2>3, McaAnswers DEF Statistic, Answer
    <3> DEFINE d == SpectrumOf(latest)
    <3>3. d \in Seq(Word) /\ \A k \in 1 .. Len(d) : d[k].set = latest.set
      BY <3>1, SpectrumOfOneSet
    <3> HIDE DEF d
    <3>4. i \in 1 .. Len(d)
      BY <2>3, <3>1, <3>3 DEF d
    <3>5. QED BY <3>1, <3>2, <3>3, <3>4 DEF d
  <2>4. ASSUME mode = "LIST"
        PROVE  /\ ActiveBuffer(mmb).level + HeaderWords <= GetRunData("buffer_len").value
               /\ \A b \in BufferIds :
                    LET len == IF b = 0 THEN "list_buffer_len_a" ELSE "list_buffer_len_b"
                    IN  GetRunData(len).value + HeaderWords <= GetRunData("buffer_len").value
    <3>1. /\ mmb.size = ListWords /\ mmb \in Buffers(Word)
          /\ ActiveBuffer(mmb).level \in Nat /\ ActiveBuffer(mmb).level <= ListWords
          /\ NextBuffer(mmb).level \in Nat /\ NextBuffer(mmb).level <= ListWords
          /\ ListWords \in Nat /\ HeaderWords \in Nat
      BY <2>1, <2>4, ConstantsType, BuffersType DEF BufferInv, ListInv, Counted, Fits
    <3>2. GetRunData("buffer_len").value = HeaderWords + ListWords
      <4>1. mm3_buffer_len = Answer(HeaderWords + ListWords)
        BY <3>1 DEF mm3_buffer_len, MM3BufferSize
      <4>2. QED BY <2>4, <4>1, ListAnswers DEF Answer
    <3>3. ASSUME NEW b \in BufferIds
          PROVE  mm3_list_buffer_len(b).value + HeaderWords <= HeaderWords + ListWords
      <4>1. mmb.buffer[b].level \in Nat /\ mmb.buffer[b].level <= ListWords
        BY <3>1, NextBufferId DEF ActiveBuffer, NextBuffer
      <4>2. mm3_list_buffer_len(b).value \in {0, mmb.buffer[b].level}
        BY DEF mm3_list_buffer_len, Refusal, Answer
      <4>3. QED BY <3>1, <4>1, <4>2
    <3>4. \A b \in BufferIds :
            LET len == IF b = 0 THEN "list_buffer_len_a" ELSE "list_buffer_len_b"
            IN  GetRunData(len) = mm3_list_buffer_len(b)
      BY <2>4, ListAnswers DEF BufferIds
    <3>5. ActiveBuffer(mmb).level + HeaderWords <= HeaderWords + ListWords
      BY <3>1
    <3>6. QED BY <3>2, <3>3, <3>4, <3>5
  <2>5. QED BY <2>2, <2>3, <2>4
<1>2. QED BY <1>1, DataInvCorrect, PTL
=============================================================================
