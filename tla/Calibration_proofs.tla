------------------------ MODULE Calibration_proofs ------------------------
(***************************************************************************)
(* Proofs about characterization and DC offset: whoever waits for the DC   *)
(* offset is woken, the receiver finds the request its result answers, and *)
(* the calibration state of a ready channel is the one of the device.      *)
(***************************************************************************)
EXTENDS Calibration, SequenceTheorems, TLAPS

(* What travels.                                                           *)
Requests == {"calc", "set", "characterize", "stop", "getParam", "getCalibration", "setCalibration"}
Messages ==
  [type : {"success", "error", "calibration", "dcResult", "progress"}]
    \cup [type : {"state"}, state : {"ready", "calibrate"}]
    \cup [type : {"param"}, calibrated : BOOLEAN]

Kind(m)     == IF m.type = "state" THEN m.state ELSE m.type
IsAnswer(k) == k \in {"success", "param", "calibration"}
IsState(k)  == k \in {"ready", "calibrate"}
IsEnd(k)    == k \in {"ready", "dcResult"}

(* All that the receiver is not through with, in order.                    *)
Stream == IF rx = NoMessage THEN wire ELSE <<rx>> \o wire
Todo   == DOMAIN Stream
K(i)   == Kind(Stream[i])
Has(k) == \E i \in Todo : K(i) = k

(* Where the user is in a call.                                            *)
Waiting     == pc \in {"await", "take"}
In(l)       == pc = l \/ (Waiting /\ after = l)
At(l, type) == pc = l \/ (Waiting /\ after = l /\ want = type)
Refreshers  == {"detSuccessful", "startRun", "save"}
Places ==
  \/ call = "none" /\ pc = "idle" /\ depth = 0
  \/ call = "calc" /\ At("calculated", "success") /\ depth = 0
  \/ call = "dcGet" /\ pc \in {"dcWait", "dcRead"} /\ depth = 0
  \/ call = "detStart" /\ At("configured", "success") /\ depth = 0
  \/ call = "detStart" /\ At("characterizing", "success") /\ depth = 0
  \/ call \in {"detStop", "load"} /\ At("done", "success") /\ depth = 0
  \/ call = "load" /\ At("loaded", "success") /\ depth = 0
  \/ call \in Refreshers /\ At("refreshed", "param") /\ depth \in 1 .. 2
  \/ call \in Refreshers /\ At("calibrated", "calibration") /\ depth \in 0 .. 1

Suits(r, l) ==
  \/ r = "calc" /\ l = "calculated"
  \/ r = "set" /\ l = "configured"
  \/ r = "characterize" /\ l = "characterizing"
  \/ r = "stop" /\ l = "done"
  \/ r = "getParam" /\ l = "refreshed"
  \/ r = "getCalibration" /\ l = "calibrated"
  \/ r = "setCalibration" /\ l = "loaded"

BoxTypes ==
  /\ device \in {"ready", "dcOffset", "calibrate"} /\ calibrated \in BOOLEAN
  /\ pending \in Seq(Requests) /\ wire \in Seq(Messages)
  /\ rx \in Messages \cup {NoMessage} /\ slot \in Messages \cup {NoMessage}
  /\ calls \in Nat

CalTypeOK == Places /\ BoxTypes

---------------------------------------------------------------------------
(* Unless a request was refused or timed out.                              *)

(* The answer to the user's request is in one place at most: asked for, on *)
(* its way, or in the slot.                                                *)
NoErrors == ok /\ sendStatus /\ \A i \in Todo : K(i) # "error"
Conversation ==
  /\ pending # << >> => Waiting /\ Len(pending) = 1 /\ Suits(pending[1], after)
  /\ \A i \in Todo : IsAnswer(K(i)) =>
       Waiting /\ pending = << >> /\ K(i) = want /\ ~IsAnswer(slot.type)
  /\ \A i, j \in Todo : IsAnswer(K(i)) /\ IsAnswer(K(j)) => i = j
  /\ IsAnswer(slot.type) => Waiting /\ pending = << >> /\ slot.type = want

(* The end of what the channel did before is handled before the success    *)
(* that tells the user of what it does now.                                *)
Accepted(j, i, l) == \E k \in Todo : j < k /\ k < i /\ K(k) = "success" /\ after = l
Followed(j, l)    == \E k \in Todo : j < k /\ K(k) = "success" /\ after = l

(* There is one result for every request, its ready state comes after it,  *)
(* and the state of the channel has been set by hand meanwhile.            *)
Outstanding == device = "dcOffset" \/ Has("dcResult")
ResultOnce ==
  /\ dcOffset = "requested" <=> pending = <<"calc">> \/ Outstanding
  /\ pending = <<"calc">> => ~Outstanding
  /\ device = "dcOffset" => \A i \in Todo : K(i) # "dcResult"
  /\ \A i, j \in Todo : K(i) = "dcResult" /\ K(j) = "dcResult" => i = j
ResultOrder ==
  /\ \A i, j \in Todo : j < i /\ K(i) = "dcResult" /\ IsState(K(j)) => Accepted(j, i, "calculated")
  /\ device = "dcOffset" => \A j \in Todo : IsState(K(j)) => Followed(j, "calculated")
  /\ \A i \in Todo : K(i) = "dcResult" => \E k \in Todo : i < k /\ K(k) = "ready"
StateByHand == Outstanding /\ call # "calc" => channelState = "dcOffset"
AssertionsHold == asserts = {}

ReadyToCome == device # "ready" \/ Has("ready")
Woken ==
  /\ channelState = "dcOffset" => ReadyToCome
  /\ pc = "dcWait" => asyncEvent \/ (asyncReady /\ ReadyToCome)

(* The event is set once for a wait, by the ready state after the result.  *)
WokenOnce ==
  /\ asyncReady \/ asyncEvent => pc = "dcWait"
  /\ ~(asyncReady /\ asyncEvent)
  /\ asyncEvent \/ pc = "dcRead" => dcOffset # "requested"

(* A channel that characterizes says so before it says anything else.      *)
CharacterizeOrder ==
  /\ device = "calibrate" => \A j \in Todo : IsEnd(K(j)) => Followed(j, "characterizing")
  /\ \A i, j \in Todo : j < i /\ K(i) = "calibrate" /\ IsEnd(K(j)) =>
       Accepted(j, i, "characterizing")
CharacterizeByHand ==
  /\ (device = "calibrate" \/ Has("calibrate")) /\ call # "detStart" =>
       channelState = "calibrate"
  /\ In("characterizing") /\ pending = << >> => device = "calibrate"

(* A characterization has not ended, as far as the driver has heard.       *)
EndsNext(i) ==
  /\ K(i) = "ready" /\ \A j \in Todo : j < i => ~IsEnd(K(j))
  /\ channelState = "calibrate" \/ \E j \in Todo : j < i /\ K(j) = "calibrate"
Ending   == device = "calibrate" \/ \E i \in Todo : EndsNext(i)
Reads(m) == (m.calibrated => calibrated) /\ (calibrated => m.calibrated \/ Ending)

DataKept ==
  /\ calibrationState = "Ready" /\ ~calibData => Waiting /\ want = "calibration"
  /\ slot.type = "calibration" => calibData
Loads ==
  /\ calls = 0 => device = "ready" /\ call = "none"
  /\ In("loaded") => calibData /\ fromFile /\ device = "ready" /\ (pending = << >> => calibrated)
StateKept ==
  /\ device = "calibrate" => ~calibrated
  /\ calibrationState = "Ready" /\ ~calibrated => device = "calibrate" /\ call = "detStart"
  /\ calibrationState = "None" /\ ~fromFile /\ calibrated => Ending \/ In("refreshed")
ReadsKept ==
  /\ pc = "refreshed" => answer.type = "param" /\ Reads(answer)
  /\ slot.type = "param" => Reads(slot)
  /\ \A i \in Todo : K(i) = "param" => Reads(Stream[i])

CalmInv ==
  /\ NoErrors /\ Conversation
  /\ ResultOnce /\ ResultOrder /\ StateByHand /\ AssertionsHold /\ Woken /\ WokenOnce
  /\ CharacterizeOrder /\ CharacterizeByHand
  /\ DataKept /\ Loads /\ StateKept /\ ReadsKept

CalInv == CalTypeOK /\ (~disturbed => CalmInv)

---------------------------------------------------------------------------
(* What is on its way: it is read, appended to, and handled from its head. *)

LEMMA StreamType ==
  ASSUME BoxTypes
  PROVE  /\ Stream \in Seq(Messages) /\ Len(Stream) \in Nat /\ Todo = 1 .. Len(Stream)
         /\ \A i \in Todo : Stream[i] \in Messages
<1>1. Stream \in Seq(Messages)
  <2>1. CASE rx = NoMessage
    BY <2>1 DEF BoxTypes, Stream
  <2>2. CASE rx # NoMessage
    <3>1. <<rx>> \in Seq(Messages)
      BY <2>2 DEF BoxTypes
    <3> QED
      BY <2>2, <3>1 DEF BoxTypes, Stream
  <2> QED
    BY <2>1, <2>2
<1> QED
  BY <1>1 DEF Todo

LEMMA Reading ==
  ASSUME BoxTypes, Read
  PROVE  Stream' = Stream
<1>1. /\ rx = NoMessage /\ wire # << >> /\ rx' = Head(wire) /\ wire' = Tail(wire)
      /\ wire \in Seq(Messages)
  BY DEF Read, BoxTypes
<1>2. Head(wire) \in Messages /\ wire = <<Head(wire)>> \o Tail(wire)
  BY <1>1, HeadTailProperties
<1>3. Head(wire) # NoMessage
  BY <1>2 DEF Messages, NoMessage
<1> QED
  BY <1>1, <1>2, <1>3 DEF Stream

LEMMA Handling ==
  ASSUME BoxTypes, rx # NoMessage, rx' = NoMessage, UNCHANGED wire
  PROVE  /\ Len(Stream) \in Nat \ {0} /\ Stream[1] = rx /\ Len(Stream') = Len(Stream) - 1
         /\ Todo' = 1 .. Len(Stream) - 1
         /\ \A i \in Todo' : i + 1 \in Todo /\ Stream'[i] = Stream[i + 1] /\ K(i)' = K(i + 1)
         /\ 1 \in Todo /\ K(1) = Kind(rx)
         /\ \A i \in Todo : i # 1 => i - 1 \in Todo' /\ K(i - 1)' = K(i)
<1>1. Stream = <<rx>> \o wire /\ Stream' = wire /\ wire \in Seq(Messages)
  BY DEF Stream, BoxTypes
<1>2. Len(Stream) = Len(wire) + 1 /\ Stream[1] = rx
        /\ \A i \in 1 .. Len(wire) : Stream[i + 1] = wire[i]
  BY <1>1
<1>3. Todo = 1 .. Len(Stream) /\ Todo' = 1 .. Len(wire) /\ Len(wire) \in Nat
  BY <1>1, <1>2, StreamType DEF Todo
<1> QED
  BY <1>1, <1>2, <1>3 DEF K

LEMMA Sending ==
  ASSUME BoxTypes, NEW ms \in Seq(Messages), wire' = wire \o ms, UNCHANGED rx
  PROVE  /\ Len(Stream) \in Nat /\ Len(Stream') = Len(Stream) + Len(ms)
         /\ Todo = 1 .. Len(Stream) /\ Todo' = 1 .. Len(Stream) + Len(ms)
         /\ \A i \in Todo : i \in Todo' /\ Stream'[i] = Stream[i] /\ K(i)' = K(i)
         /\ \A i \in Todo' : i \notin Todo => /\ i - Len(Stream) \in 1 .. Len(ms)
                                              /\ Stream'[i] = ms[i - Len(Stream)]
                                              /\ K(i)' = Kind(ms[i - Len(Stream)])
<1>1. Stream \in Seq(Messages) /\ Todo = 1 .. Len(Stream) /\ Len(Stream) \in Nat
  BY StreamType
<1>2. Stream' = Stream \o ms
  BY DEF Stream, BoxTypes
<1>3. /\ Len(Stream') = Len(Stream) + Len(ms) /\ Len(ms) \in Nat
      /\ \A i \in 1 .. Len(Stream) : Stream'[i] = Stream[i]
      /\ \A i \in 1 .. Len(ms) : Stream'[Len(Stream) + i] = ms[i]
  BY <1>1, <1>2
<1>4. Todo' = 1 .. Len(Stream) + Len(ms)
  BY <1>1, <1>2, <1>3 DEF Todo
<1>5. ASSUME NEW i \in Todo
      PROVE  i \in Todo' /\ Stream'[i] = Stream[i] /\ K(i)' = K(i)
  BY <1>1, <1>3, <1>4 DEF K
<1>6. ASSUME NEW i \in Todo', i \notin Todo
      PROVE  i - Len(Stream) \in 1 .. Len(ms) /\ Stream'[i] = ms[i - Len(Stream)]
  <2>1. i - Len(Stream) \in 1 .. Len(ms) /\ i = Len(Stream) + (i - Len(Stream))
    BY <1>1, <1>3, <1>4, <1>6
  <2> QED
    BY <2>1, <1>3
<1>7. \A i \in Todo' : i \notin Todo => K(i)' = Kind(ms[i - Len(Stream)])
  BY <1>6 DEF K
<1> QED
  BY <1>1, <1>3, <1>4, <1>5, <1>6, <1>7

LEMMA SendingOne ==
  ASSUME BoxTypes, NEW m \in Messages, wire' = Append(wire, m)
      \/ wire' = wire \o <<m>>, UNCHANGED rx
  PROVE  /\ Len(Stream) \in Nat /\ Len(Stream') = Len(Stream) + 1
         /\ Todo = 1 .. Len(Stream) /\ Todo' = 1 .. Len(Stream) + 1
         /\ \A i \in Todo : i \in Todo' /\ Stream'[i] = Stream[i] /\ K(i)' = K(i)
         /\ \A i \in Todo' : i \notin Todo =>
              i = Len(Stream) + 1 /\ Stream'[i] = m /\ K(i)' = Kind(m)
<1> DEFINE ms == <<m>>
<1>1. ms \in Seq(Messages) /\ Len(ms) = 1 /\ ms[1] = m
  OBVIOUS
<1>2. wire' = wire \o ms
  BY DEF BoxTypes
<1> HIDE DEF ms
<1>3. /\ Len(Stream) \in Nat /\ Len(Stream') = Len(Stream) + 1
      /\ Todo = 1 .. Len(Stream) /\ Todo' = 1 .. Len(Stream) + 1
      /\ \A i \in Todo : i \in Todo' /\ Stream'[i] = Stream[i] /\ K(i)' = K(i)
      /\ \A i \in Todo' : i \notin Todo => /\ i - Len(Stream) \in 1 .. 1
                                           /\ Stream'[i] = ms[i - Len(Stream)]
                                           /\ K(i)' = Kind(ms[i - Len(Stream)])
  BY <1>1, <1>2, Sending
<1> QED
  BY <1>1, <1>3

LEMMA SendingTwo ==
  ASSUME BoxTypes, NEW m \in Messages, NEW n \in Messages, wire' = wire \o <<m, n>>, UNCHANGED rx
  PROVE  /\ Len(Stream) \in Nat /\ Len(Stream') = Len(Stream) + 2
         /\ Todo = 1 .. Len(Stream) /\ Todo' = 1 .. Len(Stream) + 2
         /\ \A i \in Todo : i \in Todo' /\ Stream'[i] = Stream[i] /\ K(i)' = K(i)
         /\ \A i \in Todo' : i \notin Todo =>
              \/ i = Len(Stream) + 1 /\ Stream'[i] = m /\ K(i)' = Kind(m)
              \/ i = Len(Stream) + 2 /\ Stream'[i] = n /\ K(i)' = Kind(n)
<1> DEFINE ms == <<m, n>>
<1>1. ms \in Seq(Messages) /\ Len(ms) = 2 /\ ms[1] = m /\ ms[2] = n
  OBVIOUS
<1>2. wire' = wire \o ms
  OBVIOUS
<1> HIDE DEF ms
<1>3. /\ Len(Stream) \in Nat /\ Len(Stream') = Len(Stream) + 2
      /\ Todo = 1 .. Len(Stream) /\ Todo' = 1 .. Len(Stream) + 2
      /\ \A i \in Todo : i \in Todo' /\ Stream'[i] = Stream[i] /\ K(i)' = K(i)
      /\ \A i \in Todo' : i \notin Todo => /\ i - Len(Stream) \in 1 .. 2
                                           /\ Stream'[i] = ms[i - Len(Stream)]
                                           /\ K(i)' = Kind(ms[i - Len(Stream)])
  BY <1>1, <1>2, Sending
<1> QED
  BY <1>1, <1>3

---------------------------------------------------------------------------
(* Types.                                                                  *)

LEMMA MessageTypes ==
  /\ \A t \in {"success", "error", "calibration", "dcResult", "progress"} :
       [type |-> t] \in Messages /\ Kind([type |-> t]) = t
  /\ \A s \in {"ready", "calibrate"} : State(s) \in Messages /\ Kind(State(s)) = s
  /\ \A b \in BOOLEAN : /\ [type |-> "param", calibrated |-> b] \in Messages
                        /\ Kind([type |-> "param", calibrated |-> b]) = "param"
BY DEF Messages, State, Kind

LEMMA KindOfMessage ==
  ASSUME NEW m \in Messages
  PROVE  /\ m.type = "state" => m = State(m.state) /\ Kind(m) = m.state /\ IsState(m.state)
         /\ m.type # "state" => Kind(m) = m.type /\ ~IsState(m.type)
         /\ m.type = "param" => m.calibrated \in BOOLEAN
         /\ Kind(m) = "ready" <=> m = State("ready")
         /\ m # NoMessage /\ m.type # "none"
BY DEF Messages, State, Kind, IsState, NoMessage

LEMMA Idle ==
  ASSUME CalTypeOK, call = "none"
  PROVE  pc = "idle" /\ depth = 0 /\ ~Waiting
BY DEF CalTypeOK, Places, Refreshers, Waiting

(* What the device answers with, and what it does then.                    *)
LEMMA AnswersOf ==
  ASSUME BoxTypes, DeviceAnswers
  PROVE  /\ pending # << >> /\ pending' = Tail(pending)
         /\ \/ /\ pending[1] \in {"set", "stop"} /\ UNCHANGED <<device, calibrated>>
               /\ wire' = wire \o <<[type |-> "success"]>>
            \/ /\ pending[1] = "calc" /\ device = "ready" /\ device' = "dcOffset"
               /\ UNCHANGED calibrated /\ wire' = wire \o <<[type |-> "success"]>>
            \/ /\ pending[1] = "characterize" /\ device = "ready" /\ device' = "calibrate"
               /\ calibrated' = FALSE
               /\ wire' = wire \o <<[type |-> "success"], State("calibrate")>>
            \/ /\ pending[1] = "stop" /\ device = "calibrate" /\ device' = "ready"
               /\ calibrated' \in BOOLEAN
               /\ wire' = wire \o <<[type |-> "success"], State("ready")>>
            \/ /\ pending[1] = "getParam" /\ UNCHANGED <<device, calibrated>>
               /\ wire' = Append(wire, [type |-> "param", calibrated |-> calibrated])
            \/ /\ pending[1] = "getCalibration" /\ UNCHANGED <<device, calibrated>>
               /\ wire' = Append(wire, [type |-> "calibration"])
            \/ /\ pending[1] = "setCalibration" /\ device = "ready" /\ UNCHANGED device
               /\ calibrated' = TRUE /\ wire' = wire \o <<[type |-> "success"]>>
<1>1. pending # << >> /\ pending' = Tail(pending) /\ Head(pending) = pending[1]
  BY DEF DeviceAnswers, BoxTypes, Answers, Answer, Becomes
<1>2. ASSUME NEW m \in Messages, NEW n \in Messages
      PROVE  (wire \o <<m>>) \o <<n>> = wire \o <<m, n>>
  <2>1. wire \in Seq(Messages) /\ <<m>> \in Seq(Messages) /\ <<n>> \in Seq(Messages)
    BY DEF BoxTypes
  <2>2. (wire \o <<m>>) \o <<n>> = wire \o (<<m>> \o <<n>>)
    BY <2>1, ConcatAssociative
  <2>3. <<m>> \o <<n>> = <<m, n>>
    <3>1. /\ <<m>> \o <<n>> \in Seq(Messages) /\ Len(<<m>> \o <<n>>) = 2
          /\ (<<m>> \o <<n>>)[1] = m /\ (<<m>> \o <<n>>)[2] = n
      BY <2>1, ConcatProperties
    <3>2. /\ <<m, n>> \in Seq(Messages) /\ Len(<<m, n>>) = 2
          /\ <<m, n>>[1] = m /\ <<m, n>>[2] = n
      OBVIOUS
    <3>3. \A i \in 1 .. 2 : i = 1 \/ i = 2
      OBVIOUS
    <3> QED
      BY <3>1, <3>2, <3>3, SeqEqual
  <2> QED
    BY <2>2, <2>3
<1>3. \A m \in Messages : (wire \o <<m>>) \o << >> = wire \o <<m>>
  BY DEF BoxTypes
<1> QED
  BY <1>1, <1>2, <1>3, MessageTypes DEF DeviceAnswers, Answers, Answer, Becomes

LEMMA AskTypes ==
  ASSUME BoxTypes, NEW r \in Requests, NEW type, NEW next, Ask(r, type, next)
  PROVE  pending' \in Seq(Requests)
BY DEF BoxTypes, Ask

LEMMA PlacesStep ==
  ASSUME CalTypeOK, CalNext
  PROVE  Places'
<1> USE DEF CalTypeOK, Places, At, Waiting, Refreshers, Begin, Ask, GoOn, Return
<1>1. CASE CalculateDCOffset
  BY <1>1 DEF CalculateDCOffset, LockInRequest
<1>2. CASE GetDCOffset
  BY <1>2 DEF GetDCOffset
<1>3. CASE DetCharacterizeStart
  BY <1>3 DEF DetCharacterizeStart
<1>4. CASE DetCharacterizeStop
  BY <1>4 DEF DetCharacterizeStop
<1>5. ASSUME NEW c \in Refreshers, GetCalibrated(c)
      PROVE  Places'
  BY <1>5 DEF GetCalibrated
<1>6. ASSUME NEW inFile \in BOOLEAN, LoadChanData(inFile)
      PROVE  Places'
  BY <1>6 DEF LoadChanData
<1>7. CASE Awake
  BY <1>7 DEF Awake
<1>8. CASE Take
  BY <1>8 DEF Take
<1>9. CASE TimeOut
  BY <1>9 DEF TimeOut
<1>10. CASE DCOffsetAccepted
  BY <1>10 DEF DCOffsetAccepted
<1>11. CASE DCOffsetWaited
  BY <1>11 DEF DCOffsetWaited
<1>12. CASE DCOffsetTimeOut \/ DCOffsetRead
  BY <1>12 DEF DCOffsetTimeOut, DCOffsetRead
<1>13. CASE DetCharacterizeConfigured
  BY <1>13 DEF DetCharacterizeConfigured
<1>14. CASE DetCharacterizeStarted
  BY <1>14 DEF DetCharacterizeStarted
<1>15. CASE Done
  BY <1>15 DEF Done
<1>16. CASE Refreshed
  BY <1>16 DEF Refreshed
<1>17. CASE Calibrated
  BY <1>17 DEF Calibrated
<1>18. CASE Loaded
  BY <1>18 DEF Loaded
<1>19. CASE DeviceStep \/ ReceiverStep
  BY <1>19 DEF DeviceStep, ReceiverStep, DeviceAnswers, DeviceRefuses, DeviceBusy, DeviceFinishes,
               DeviceReports, Read, HandleAnswer, HandleError, HandleDCOffset, HandleProgress,
               HandleState, user
<1> QED
  BY <1>1, <1>2, <1>3, <1>4, <1>5, <1>6, <1>7, <1>8, <1>9, <1>10, <1>11, <1>12, <1>13, <1>14,
     <1>15,
     <1>16, <1>17, <1>18, <1>19 DEF CalNext, UserBegins, UserGoesOn

(* The user's steps leave what is on its way alone.                        *)
UserStep == UserBegins \/ UserGoesOn
UserFrame ==
  UNCHANGED <<rx, wire, device, calibrated>>

LEMMA UserLeaves ==
  ASSUME UserStep
  PROVE  UserFrame /\ Stream' = Stream /\ Todo' = Todo /\ \A i : K(i)' = K(i)
<1>1. UserFrame
  BY DEF UserStep, UserFrame, UserBegins, UserGoesOn, CalculateDCOffset, GetDCOffset,
         DetCharacterizeStart, DetCharacterizeStop, GetCalibrated, LoadChanData, Awake, Take,
         TimeOut,
         DCOffsetAccepted, DCOffsetWaited, DCOffsetTimeOut, DCOffsetRead,
         DetCharacterizeConfigured,
         DetCharacterizeStarted, Done, Refreshed, Calibrated, Loaded, Begin, Return, box
<1> QED
  BY <1>1 DEF UserFrame, Stream, Todo, K

LEMMA BoxTypesStep ==
  ASSUME CalTypeOK, CalNext
  PROVE  BoxTypes'
<1> USE DEF CalTypeOK, BoxTypes
<1>1. CASE UserStep
  <2>1. UserFrame
    BY <1>1, UserLeaves
  <2>2. pending' \in Seq(Requests)
    <3>1. \A r \in Requests : Append(pending, r) \in Seq(Requests)
      OBVIOUS
    <3> QED
      BY <1>1, <3>1
      DEF UserStep, UserFrame, UserBegins, UserGoesOn, CalculateDCOffset, GetDCOffset,
          DetCharacterizeStart, DetCharacterizeStop, GetCalibrated, LoadChanData, Awake, Take,
          TimeOut,
          DCOffsetAccepted, DCOffsetWaited, DCOffsetTimeOut, DCOffsetRead,
          DetCharacterizeConfigured,
          DetCharacterizeStarted, Done, Refreshed, Calibrated, Loaded, Begin, Return, box, Ask,
          Requests
  <2>3. slot' \in Messages \cup {NoMessage}
    BY <1>1
    DEF UserStep, UserBegins, UserGoesOn, CalculateDCOffset, GetDCOffset, response,
        DetCharacterizeStart, DetCharacterizeStop, GetCalibrated, LoadChanData, Awake, Take,
        TimeOut,
        DCOffsetAccepted, DCOffsetWaited, DCOffsetTimeOut, DCOffsetRead, DetCharacterizeConfigured,
        DetCharacterizeStarted, Done, Refreshed, Calibrated, Loaded, Begin
  <2>4. calls' \in Nat
    <3>1. CASE UserBegins
      <4>1. PICK c : Begin(c)
        BY <3>1
        DEF UserBegins, CalculateDCOffset, GetDCOffset, DetCharacterizeStart, DetCharacterizeStop,
            GetCalibrated, LoadChanData
      <4> QED
        BY <4>1 DEF Begin
    <3>2. CASE UserGoesOn
      BY <3>2
      DEF UserGoesOn, history, Awake, Take, TimeOut, DCOffsetAccepted, DCOffsetWaited,
          DCOffsetTimeOut, DCOffsetRead, DetCharacterizeConfigured, DetCharacterizeStarted, Done,
          Refreshed, Calibrated, Loaded
    <3> QED
      BY <1>1, <3>1, <3>2 DEF UserStep
  <2> QED
    BY <2>1, <2>2, <2>3, <2>4 DEF UserFrame
<1>2. CASE DeviceAnswers
  <2>1. UNCHANGED <<rx, slot, calls>>
    BY <1>2 DEF DeviceAnswers, response, history
  <2>2. pending' \in Seq(Requests)
    <3>1. pending # << >> => Tail(pending) \in Seq(Requests)
      OBVIOUS
    <3> QED
      BY <1>2, <3>1, AnswersOf
  <2>3. \A m \in Messages : Append(wire, m) \in Seq(Messages) /\ wire \o <<m>> \in Seq(Messages)
    OBVIOUS
  <2>4. \A m \in Messages, n \in Messages : wire \o <<m, n>> \in Seq(Messages)
    OBVIOUS
  <2>5. wire' \in Seq(Messages)
    BY <1>2, AnswersOf, <2>3, <2>4, MessageTypes
  <2>6. device' \in {"ready", "dcOffset", "calibrate"} /\ calibrated' \in BOOLEAN
    BY <1>2, AnswersOf
  <2> QED
    BY <2>1, <2>2, <2>5, <2>6
<1>3. CASE DeviceRefuses \/ DeviceBusy
  <2>1. \A m \in Messages : Append(wire, m) \in Seq(Messages)
    OBVIOUS
  <2>2. pending # << >> => Tail(pending) \in Seq(Requests)
    OBVIOUS
  <2>3. pending' \in Seq(Requests) /\ wire' \in Seq(Messages)
    BY <1>3, <2>1, <2>2, MessageTypes DEF DeviceRefuses, DeviceBusy, Answer
  <2> QED
    BY <1>3, <2>3 DEF DeviceRefuses, DeviceBusy, response, history
<1>4. CASE DeviceFinishes
  <2>1. \A m \in Messages : Append(wire, m) \in Seq(Messages)
    OBVIOUS
  <2>2. \A m \in Messages, n \in Messages : wire \o <<m, n>> \in Seq(Messages)
    OBVIOUS
  <2>3. wire' \in Seq(Messages)
    BY <1>4, <2>1, <2>2, MessageTypes DEF DeviceFinishes
  <2> QED
    BY <1>4, <2>3 DEF DeviceFinishes, response, history
<1>5. CASE DeviceReports
  <2>1. \A m \in Messages : Append(wire, m) \in Seq(Messages)
    OBVIOUS
  <2> QED
    BY <1>5, <2>1, MessageTypes DEF DeviceReports, response, box
<1>6. CASE Read
  <2>1. Head(wire) \in Messages /\ Tail(wire) \in Seq(Messages)
    BY <1>6 DEF Read
  <2> QED
    BY <1>6, <2>1 DEF Read, response, box, history
<1>7. CASE HandleAnswer \/ HandleDCOffset \/ HandleError \/ HandleProgress \/ HandleState
  BY <1>7
  DEF HandleAnswer, HandleDCOffset, HandleError, HandleProgress, HandleState, Handles, Respond,
              response, box, history
<1> QED
  BY <1>1, <1>2, <1>3, <1>4, <1>5, <1>6, <1>7 DEF CalNext, UserStep, DeviceStep, ReceiverStep

LEMMA CalTypesStep ==
  ASSUME CalTypeOK, CalNext
  PROVE  CalTypeOK'
BY PlacesStep, BoxTypesStep DEF CalTypeOK

---------------------------------------------------------------------------
(* Steps that disturb nothing.                                             *)

Calm == CalTypeOK /\ CalmInv /\ CalNext /\ ~disturbed'

LEMMA CalmStays ==
  ASSUME CalNext, ~disturbed'
  PROVE  ~disturbed /\ ~TimeOut /\ ~DeviceRefuses /\ ~DeviceBusy
<1>1. ~TimeOut /\ ~DeviceRefuses /\ ~DeviceBusy
  BY DEF TimeOut, DeviceRefuses, DeviceBusy
<1>2. CASE UserBegins
  <2>1. PICK c : Begin(c)
    BY <1>2
    DEF UserBegins, CalculateDCOffset, GetDCOffset, DetCharacterizeStart, DetCharacterizeStop,
        GetCalibrated, LoadChanData
  <2> QED
    BY <1>1, <2>1 DEF Begin
<1>3. CASE UserGoesOn
  <2>1. UNCHANGED history \/ TimeOut
    BY <1>3
    DEF UserGoesOn, Awake, Take, DCOffsetAccepted, DCOffsetWaited,
        DCOffsetTimeOut, DCOffsetRead, DetCharacterizeConfigured, DetCharacterizeStarted, Done,
        Refreshed, Calibrated, Loaded
  <2> QED
    BY <1>1, <2>1 DEF history
<1>4. CASE DeviceStep \/ ReceiverStep
  BY <1>1, <1>4
  DEF DeviceStep, ReceiverStep, DeviceAnswers, DeviceFinishes, DeviceReports, Read, HandleAnswer,
      HandleError, HandleDCOffset, HandleProgress, HandleState, history
<1> QED
  BY <1>1, <1>2, <1>3, <1>4 DEF CalNext

(* The receiver is through with the first message.                         *)
HandlerStep == HandleAnswer \/ HandleError \/ HandleDCOffset \/ HandleProgress \/ HandleState
Shrinks ==
  /\ Len(Stream) \in Nat \ {0} /\ Len(Stream') = Len(Stream) - 1 /\ Stream[1] = rx
  /\ Todo = 1 .. Len(Stream) /\ Todo' = 1 .. Len(Stream) - 1
  /\ \A i \in Todo' : i + 1 \in Todo /\ Stream'[i] = Stream[i + 1] /\ K(i)' = K(i + 1)
  /\ \A i \in Todo : i # 1 => i - 1 \in Todo' /\ K(i - 1)' = K(i)
  /\ 1 \in Todo

LEMMA Handled ==
  ASSUME CalTypeOK, HandlerStep
  PROVE  /\ Shrinks /\ UNCHANGED <<user, wire, box, history>>
         /\ HandleAnswer => K(1) = rx.type /\ IsAnswer(K(1))
         /\ HandleError => K(1) = "error"
         /\ HandleDCOffset => K(1) = "dcResult" /\ rx.type = "dcResult"
         /\ HandleProgress => K(1) = "progress"
         /\ HandleState => K(1) = rx.state /\ IsState(rx.state) /\ depth = 0
<1> USE DEF CalTypeOK
<1>1. rx \in Messages /\ rx # NoMessage /\ rx' = NoMessage
        /\ UNCHANGED <<user, wire, box, history>>
  <2>1. rx' = NoMessage /\ UNCHANGED <<user, wire, box, history>>
    BY DEF HandlerStep, HandleAnswer, HandleError, HandleDCOffset, HandleProgress, HandleState,
           Handles, history
  <2>2. rx.type # "none"
    BY DEF HandlerStep, HandleAnswer, HandleError, HandleDCOffset, HandleProgress, HandleState,
       Handles
  <2> QED
    BY <2>1, <2>2 DEF BoxTypes, NoMessage
<1>2. Shrinks /\ K(1) = Kind(rx)
  <2>1. Todo = 1 .. Len(Stream)
    BY StreamType
  <2> QED
    BY <1>1, <2>1, Handling DEF Shrinks
<1>3. HandleAnswer => rx.type \in {"success", "param", "calibration"}
  BY DEF HandleAnswer, Handles
<1>4. HandleState => depth = 0 /\ rx.type = "state"
  <2>1. HandleState => rx.type = "state" /\ ~(depth > 0)
    BY DEF HandleState, Handles, ReceiverBlocked, NeedsDetector
  <2>2. depth \in 0 .. 2
    BY DEF CalTypeOK, Places
  <2> QED
    BY <2>1, <2>2
<1> QED
  BY <1>1, <1>2, <1>3, <1>4, KindOfMessage
  DEF HandleError, HandleDCOffset, HandleProgress, Handles, IsAnswer

(* The device sends one message, or two.                                   *)
Grows(n) ==
  /\ Len(Stream) \in Nat /\ Len(Stream') = Len(Stream) + n
  /\ Todo = 1 .. Len(Stream) /\ Todo' = 1 .. Len(Stream) + n
  /\ \A i \in Todo : i \in Todo' /\ Stream'[i] = Stream[i] /\ K(i)' = K(i)
NextIs(k) == \A i \in Todo' : i = Len(Stream) + 1 => K(i)' = k
ThenIs(k) == \A i \in Todo' : i = Len(Stream) + 2 => K(i)' = k

LEMMA GrowsByOne ==
  ASSUME BoxTypes, NEW m \in Messages, wire' = Append(wire, m)
      \/ wire' = wire \o <<m>>, UNCHANGED rx
  PROVE  Grows(1) /\ NextIs(Kind(m)) /\ Len(Stream) + 1 \in Todo'
         /\ \A i \in Todo' : i = Len(Stream) + 1 => Stream'[i] = m
<1>1. /\ Len(Stream) \in Nat /\ Len(Stream') = Len(Stream) + 1
      /\ Todo = 1 .. Len(Stream) /\ Todo' = 1 .. Len(Stream) + 1
      /\ \A i \in Todo : i \in Todo' /\ Stream'[i] = Stream[i] /\ K(i)' = K(i)
      /\ \A i \in Todo' : i \notin Todo =>
           i = Len(Stream) + 1 /\ Stream'[i] = m /\ K(i)' = Kind(m)
  BY SendingOne
<1> QED
  BY <1>1 DEF Grows, NextIs

LEMMA GrowsByTwo ==
  ASSUME BoxTypes, NEW m \in Messages, NEW n \in Messages, wire' = wire \o <<m, n>>, UNCHANGED rx
  PROVE  Grows(2) /\ NextIs(Kind(m)) /\ ThenIs(Kind(n))
<1>1. /\ Len(Stream) \in Nat /\ Len(Stream') = Len(Stream) + 2
      /\ Todo = 1 .. Len(Stream) /\ Todo' = 1 .. Len(Stream) + 2
      /\ \A i \in Todo : i \in Todo' /\ Stream'[i] = Stream[i] /\ K(i)' = K(i)
      /\ \A i \in Todo' : i \notin Todo =>
           \/ i = Len(Stream) + 1 /\ Stream'[i] = m /\ K(i)' = Kind(m)
           \/ i = Len(Stream) + 2 /\ Stream'[i] = n /\ K(i)' = Kind(n)
  BY SendingTwo
<1> QED
  BY <1>1 DEF Grows, NextIs, ThenIs

LEMMA Answered ==
  ASSUME CalTypeOK, Conversation, DeviceAnswers
  PROVE  /\ pending # << >> /\ pending' = << >> /\ Waiting /\ IsAnswer(want)
         /\ pending = <<"calc">> <=> after = "calculated"
         /\ UNCHANGED <<user, response, detector, asserts, history>>
         /\ (\A i \in Todo : ~IsAnswer(K(i))) /\ ~IsAnswer(slot.type)
         /\ NextIs(want)
         /\ \/ after \in {"configured", "done"} /\ UNCHANGED <<device, calibrated>> /\ Grows(1)
            \/ /\ after = "calculated" /\ pending = <<"calc">> /\ device = "ready"
               /\ device' = "dcOffset" /\ UNCHANGED calibrated /\ Grows(1)
            \/ /\ after = "characterizing" /\ device = "ready" /\ device' = "calibrate"
               /\ calibrated' = FALSE /\ Grows(2) /\ ThenIs("calibrate")
            \/ /\ after = "done" /\ device = "calibrate" /\ device' = "ready"
               /\ calibrated' \in BOOLEAN /\ Grows(2) /\ ThenIs("ready")
            \/ /\ after = "refreshed" /\ UNCHANGED <<device, calibrated>> /\ Grows(1)
               /\ \A i \in Todo' : i = Len(Stream) + 1 => Stream'[i].calibrated = calibrated
            \/ after = "calibrated" /\ UNCHANGED <<device, calibrated>> /\ Grows(1)
            \/ /\ after = "loaded" /\ device = "ready" /\ UNCHANGED device
               /\ calibrated' = TRUE /\ Grows(1)
<1>1. /\ pending # << >> /\ Waiting /\ Len(pending) = 1 /\ Suits(pending[1], after)
      /\ UNCHANGED <<user, rx, response, detector, asserts, history>>
      /\ pending' = Tail(pending)
  BY AnswersOf DEF Conversation, DeviceAnswers, CalTypeOK
<1>2. pending' = << >>
  BY <1>1 DEF CalTypeOK, BoxTypes
<1>3. (\A i \in Todo : ~IsAnswer(K(i))) /\ ~IsAnswer(slot.type)
  BY <1>1 DEF Conversation
<1>4. /\ after \in {"calculated", "configured", "characterizing", "done", "loaded"}
             => want = "success"
      /\ after = "refreshed" => want = "param"
      /\ after = "calibrated" => want = "calibration"
  BY <1>1 DEF CalTypeOK, Places, At, Waiting
<1>5. IsAnswer(want)
  BY <1>1, <1>4 DEF Suits, IsAnswer
<1>6. /\ pending[1] = "calc" => pending = <<"calc">>
      /\ pending = <<"calc">> <=> after = "calculated"
  <2>1. pending[1] = "calc" <=> pending = <<"calc">>
    BY <1>1 DEF CalTypeOK, BoxTypes
  <2> QED
    BY <1>1, <2>1 DEF Suits
<1>7. CASE /\ pending[1] \in {"set", "stop"} /\ UNCHANGED <<device, calibrated>>
           /\ wire' = wire \o <<[type |-> "success"]>>
  <2>1. NextIs("success") /\ Grows(1)
    BY <1>1, <1>7, GrowsByOne, MessageTypes DEF CalTypeOK
  <2> QED
    BY <1>1, <1>2, <1>3, <1>4, <1>5, <1>6, <1>7, <2>1 DEF Suits
<1>8. CASE /\ pending[1] = "calc" /\ device = "ready" /\ device' = "dcOffset"
           /\ UNCHANGED calibrated /\ wire' = wire \o <<[type |-> "success"]>>
  <2>1. NextIs("success") /\ Grows(1)
    BY <1>1, <1>8, GrowsByOne, MessageTypes DEF CalTypeOK
  <2> QED
    BY <1>1, <1>2, <1>3, <1>4, <1>5, <1>6, <1>8, <2>1 DEF Suits
<1>9. CASE /\ pending[1] = "characterize" /\ device = "ready" /\ device' = "calibrate"
           /\ calibrated' = FALSE
           /\ wire' = wire \o <<[type |-> "success"], State("calibrate")>>
  <2>1. NextIs("success") /\ Grows(2) /\ ThenIs("calibrate")
    BY <1>1, <1>9, GrowsByTwo, MessageTypes DEF CalTypeOK
  <2> QED
    BY <1>1, <1>2, <1>3, <1>4, <1>5, <1>6, <1>9, <2>1 DEF Suits
<1>10. CASE /\ pending[1] = "stop" /\ device = "calibrate" /\ device' = "ready"
            /\ calibrated' \in BOOLEAN
            /\ wire' = wire \o <<[type |-> "success"], State("ready")>>
  <2>1. NextIs("success") /\ Grows(2) /\ ThenIs("ready")
    BY <1>1, <1>10, GrowsByTwo, MessageTypes DEF CalTypeOK
  <2> QED
    BY <1>1, <1>2, <1>3, <1>4, <1>5, <1>6, <1>10, <2>1 DEF Suits
<1>11. CASE /\ pending[1] = "getParam" /\ UNCHANGED <<device, calibrated>>
            /\ wire' = Append(wire, [type |-> "param", calibrated |-> calibrated])
  <2>1. /\ [type |-> "param", calibrated |-> calibrated] \in Messages
        /\ Kind([type |-> "param", calibrated |-> calibrated]) = "param"
    BY MessageTypes DEF CalTypeOK, BoxTypes
  <2>2. /\ NextIs("param") /\ Grows(1)
        /\ \A i \in Todo' : i = Len(Stream) + 1 =>
             Stream'[i] = [type |-> "param", calibrated |-> calibrated]
    BY <1>1, <1>11, <2>1, GrowsByOne DEF CalTypeOK
  <2> QED
    BY <1>1, <1>2, <1>3, <1>4, <1>5, <1>6, <1>11, <2>2 DEF Suits
<1>12. CASE /\ pending[1] = "getCalibration" /\ UNCHANGED <<device, calibrated>>
            /\ wire' = Append(wire, [type |-> "calibration"])
  <2>1. NextIs("calibration") /\ Grows(1)
    BY <1>1, <1>12, GrowsByOne, MessageTypes DEF CalTypeOK
  <2> QED
    BY <1>1, <1>2, <1>3, <1>4, <1>5, <1>6, <1>12, <2>1 DEF Suits
<1>13. CASE /\ pending[1] = "setCalibration" /\ device = "ready" /\ UNCHANGED device
            /\ calibrated' = TRUE /\ wire' = wire \o <<[type |-> "success"]>>
  <2>1. NextIs("success") /\ Grows(1)
    BY <1>1, <1>13, GrowsByOne, MessageTypes DEF CalTypeOK
  <2> QED
    BY <1>1, <1>2, <1>3, <1>4, <1>5, <1>6, <1>13, <2>1 DEF Suits
<1> QED
  BY <1>7, <1>8, <1>9, <1>10, <1>11, <1>12, <1>13, AnswersOf DEF CalTypeOK

LEMMA AnsweredKinds ==
  ASSUME CalTypeOK, Conversation, DeviceAnswers
  PROVE  /\ \A i \in Todo : i \in Todo' /\ Stream'[i] = Stream[i] /\ K(i)' = K(i)
         /\ \A i \in Todo' : i \notin Todo =>
              \/ i = Len(Stream) + 1 /\ K(i)' = want
              \/ i = Len(Stream) + 2 /\ IsState(K(i)')
         /\ Len(Stream) \in Nat /\ Todo = 1 .. Len(Stream) /\ Len(Stream) + 1 \in Todo'
<1>1. Grows(1) \/ (Grows(2) /\ (ThenIs("calibrate") \/ ThenIs("ready")))
  BY Answered
<1>2. NextIs(want)
  BY Answered
<1>3. CASE Grows(1)
  <2>1. ASSUME NEW i \in Todo', i \notin Todo
        PROVE  i = Len(Stream) + 1
    BY <1>3, <2>1 DEF Grows
  <2>2. Len(Stream) + 1 \in Todo'
    BY <1>3 DEF Grows
  <2> QED
    BY <1>2, <1>3, <2>1, <2>2 DEF Grows, NextIs
<1>4. CASE Grows(2) /\ (ThenIs("calibrate") \/ ThenIs("ready"))
  <2>1. ASSUME NEW i \in Todo', i \notin Todo
        PROVE  i = Len(Stream) + 1 \/ i = Len(Stream) + 2
    BY <1>4, <2>1 DEF Grows
  <2>2. Len(Stream) + 1 \in Todo'
    BY <1>4 DEF Grows
  <2>3. ASSUME NEW i \in Todo', i = Len(Stream) + 2
        PROVE  IsState(K(i)')
    <3>1. K(i)' \in {"calibrate", "ready"}
      BY <1>4, <2>3 DEF ThenIs
    <3> QED
      BY <3>1 DEF IsState
  <2> QED
    BY <1>2, <1>4, <2>1, <2>2, <2>3 DEF Grows, NextIs
<1> QED
  BY <1>1, <1>3, <1>4

LEMMA Finished ==
  ASSUME CalTypeOK, DeviceFinishes
  PROVE  /\ device' = "ready" /\ UNCHANGED <<user, response, detector, pending, asserts, history>>
         /\ \/ /\ device = "dcOffset" /\ UNCHANGED calibrated
               /\ Grows(2) /\ NextIs("dcResult") /\ ThenIs("ready")
            \/ /\ device = "calibrate" /\ call # "detStart" /\ calibrated' \in BOOLEAN
               /\ Grows(1) /\ NextIs("ready")
<1>1. device' = "ready" /\ UNCHANGED <<user, rx, response, detector, pending, asserts, history>>
  BY DEF DeviceFinishes
<1>2. CASE /\ device = "dcOffset" /\ UNCHANGED calibrated
           /\ wire' = wire \o <<[type |-> "dcResult"], State("ready")>>
  <2>1. Grows(2) /\ NextIs("dcResult") /\ ThenIs("ready")
    BY <1>1, <1>2, GrowsByTwo, MessageTypes DEF CalTypeOK
  <2> QED
    BY <1>1, <1>2, <2>1
<1>3. CASE /\ device = "calibrate" /\ call # "detStart" /\ calibrated' \in BOOLEAN
           /\ wire' = Append(wire, State("ready"))
  <2>1. Grows(1) /\ NextIs("ready")
    BY <1>1, <1>3, GrowsByOne, MessageTypes DEF CalTypeOK
  <2> QED
    BY <1>1, <1>3, <2>1
<1> QED
  BY <1>2, <1>3 DEF DeviceFinishes

LEMMA Reported ==
  ASSUME CalTypeOK, DeviceReports
  PROVE  /\ UNCHANGED <<user, response, detector, box, asserts, disturbed, fromFile, calls>>
         /\ Grows(1) /\ NextIs("progress")
<1>1. UNCHANGED <<user, rx, response, detector, box, asserts, disturbed, fromFile, calls>>
  BY DEF DeviceReports
<1> QED
  BY <1>1, GrowsByOne, MessageTypes DEF CalTypeOK, DeviceReports

---------------------------------------------------------------------------
(* The conversation.                                                       *)

(* The user asks; goes on without asking; takes its answer; or waits on.   *)
Asks ==
  /\ ~Waiting /\ Waiting' /\ pending' = Append(pending, pending'[Len(pending) + 1])
  /\ Suits(pending'[Len(pending) + 1], after') /\ UNCHANGED <<slot, ok, sendStatus>>
GoesOn == ~Waiting /\ ~Waiting' /\ UNCHANGED <<pending, slot, ok, sendStatus>>
Takes  == /\ Waiting /\ ~Waiting' /\ slot.type = want /\ slot' = NoMessage /\ ok' = TRUE
          /\ answer' = slot /\ pc' = after /\ UNCHANGED <<pending, sendStatus, after, want>>
WaitsOn == /\ Waiting /\ Waiting' /\ UNCHANGED <<pending, after, want, ok, sendStatus>>
           /\ slot' = slot \/ (slot.type # want /\ slot' = NoMessage)

LEMMA Asked ==
  ASSUME BoxTypes, ~Waiting, NEW r \in Requests, NEW type, NEW next, Ask(r, type, next), Suits(r, next),
         UNCHANGED <<slot, ok, sendStatus>>
  PROVE  Asks
<1>1. pending' = Append(pending, r) /\ pending'[Len(pending) + 1] = r
  BY DEF Ask, BoxTypes
<1> QED
  BY <1>1 DEF Asks, Ask, Waiting

LEMMA UserMoves ==
  ASSUME CalTypeOK, sendStatus, UserStep, ~TimeOut
  PROVE  Asks \/ GoesOn \/ Takes \/ WaitsOn
<1> USE DEF CalTypeOK
<1>1. CASE CalculateDCOffset
  <2>1. ~Waiting /\ UNCHANGED <<slot, ok, sendStatus>> /\ Ask("calc", "success", "calculated")
    BY <1>1, Idle DEF CalculateDCOffset, Begin, Waiting, response
  <2> QED
    BY <2>1, Asked DEF Suits, Requests
<1>2. CASE GetDCOffset
  BY <1>2, Idle DEF GetDCOffset, Begin, Waiting, response, box, GoesOn
<1>3. CASE DetCharacterizeStart
  <2>1. ~Waiting /\ UNCHANGED <<slot, ok, sendStatus>> /\ Ask("set", "success", "configured")
    BY <1>3, Idle DEF DetCharacterizeStart, Begin, Waiting, response
  <2> QED
    BY <2>1, Asked DEF Suits, Requests
<1>4. CASE DetCharacterizeStop
  <2>1. ~Waiting /\ UNCHANGED <<slot, ok, sendStatus>> /\ Ask("stop", "success", "done")
    BY <1>4, Idle DEF DetCharacterizeStop, Begin, Waiting, response
  <2> QED
    BY <2>1, Asked DEF Suits, Requests
<1>5. ASSUME NEW c \in Refreshers, GetCalibrated(c)
      PROVE  Asks \/ GoesOn
  <2>1. ~Waiting /\ UNCHANGED <<slot, ok, sendStatus>>
    BY <1>5, Idle DEF GetCalibrated, Begin, Waiting, response
  <2>2. CASE calibrationState = "NeedRefresh"
    <3>1. Ask("getParam", "param", "refreshed")
      BY <1>5, <2>2 DEF GetCalibrated
    <3> QED
      BY <2>1, <3>1, Asked DEF Suits, Requests
  <2>3. CASE calibrationState # "NeedRefresh"
    BY <1>5, <2>1, <2>3 DEF GetCalibrated, GoesOn, Waiting
  <2> QED
    BY <2>2, <2>3
<1>6. ASSUME NEW inFile \in BOOLEAN, LoadChanData(inFile)
      PROVE  Asks \/ GoesOn
  <2>1. ~Waiting /\ UNCHANGED <<slot, ok, sendStatus>>
    BY <1>6, Idle DEF LoadChanData, Begin, Waiting, response
  <2>2. CASE inFile
    <3>1. Ask("setCalibration", "success", "loaded")
      BY <1>6, <2>2 DEF LoadChanData
    <3> QED
      BY <2>1, <3>1, Asked DEF Suits, Requests
  <2>3. CASE ~inFile
    BY <1>6, <2>1, <2>3 DEF LoadChanData, GoesOn, Waiting
  <2> QED
    BY <2>2, <2>3
<1>7. CASE Awake
  BY <1>7 DEF Awake, Waiting, WaitsOn, box
<1>8. CASE Take
  <2>1. Waiting /\ ~(after \in {"await", "take"})
    BY <1>8 DEF Take, Places, At, Waiting
  <2> QED
    BY <1>8, <2>1 DEF Take, Waiting, GoOn, Takes, WaitsOn, box
<1>9. CASE DCOffsetAccepted
  BY <1>9 DEF DCOffsetAccepted, GoesOn, Waiting, Return, response, box
<1>10. CASE DCOffsetWaited
  BY <1>10 DEF DCOffsetWaited, GoesOn, Waiting, response, box
<1>11. CASE DCOffsetTimeOut \/ DCOffsetRead
  BY <1>11 DEF DCOffsetTimeOut, DCOffsetRead, GoesOn, Waiting, Return, response, box
<1>12. CASE DetCharacterizeConfigured
  <2>1. ~Waiting /\ UNCHANGED <<slot, sendStatus>>
    BY <1>12 DEF DetCharacterizeConfigured, Waiting, response
  <2>2. CASE ok
    <3>1. Ask("characterize", "success", "characterizing") /\ UNCHANGED ok
      BY <1>12, <2>2 DEF DetCharacterizeConfigured
    <3> QED
      BY <2>1, <3>1, Asked DEF Suits, Requests
  <2>3. CASE ~ok
    BY <1>12, <2>1, <2>3 DEF DetCharacterizeConfigured, GoesOn, Waiting, Return
  <2> QED
    BY <2>2, <2>3
<1>13. CASE DetCharacterizeStarted
  BY <1>13 DEF DetCharacterizeStarted, GoesOn, Waiting, Return, response, box
<1>14. CASE Done
  BY <1>14 DEF Done, GoesOn, Waiting, Return, response, box
<1>15. CASE Refreshed
  <2>1. ~Waiting /\ UNCHANGED <<slot, sendStatus, ok>>
    BY <1>15 DEF Refreshed, Waiting, response
  <2>2. CASE calibrationState' = "Ready"
    <3>1. Ask("getCalibration", "calibration", "calibrated")
      BY <1>15, <2>2 DEF Refreshed
    <3> QED
      BY <2>1, <3>1, Asked DEF Suits, Requests
  <2>3. CASE calibrationState' # "Ready"
    BY <1>15, <2>1, <2>3 DEF Refreshed, GoesOn, Waiting
  <2> QED
    BY <2>2, <2>3
<1>16. CASE Calibrated
  BY <1>16 DEF Calibrated, GoesOn, Waiting, Return, response, box
<1>17. CASE Loaded
  BY <1>17 DEF Loaded, GoesOn, Waiting, Return, response, box
<1> QED
  BY <1>1, <1>2, <1>3, <1>4, <1>5, <1>6, <1>7, <1>8, <1>9, <1>10, <1>11, <1>12, <1>13, <1>14,
     <1>15,
     <1>16, <1>17 DEF UserStep, UserBegins, UserGoesOn, Refreshers

LEMMA NoErrorsStep ==
  ASSUME Calm
  PROVE  NoErrors'
<1> USE DEF Calm, CalmInv, NoErrors
<1>1. CASE UserStep
  <2>1. Asks \/ GoesOn \/ Takes \/ WaitsOn
    BY <1>1, UserMoves, CalmStays
  <2> QED
    BY <1>1, <2>1, UserLeaves DEF Asks, GoesOn, Takes, WaitsOn
<1>2. CASE DeviceAnswers
  <2>1. want # "error" /\ UNCHANGED <<ok, sendStatus>>
    BY <1>2, Answered DEF IsAnswer, user, response
  <2>2. ASSUME NEW i \in Todo'
        PROVE  K(i)' # "error"
    BY <1>2, <2>1, <2>2, AnsweredKinds DEF IsState
  <2> QED
    BY <2>1, <2>2
<1>3. CASE DeviceFinishes
  <2>1. UNCHANGED <<ok, sendStatus>>
    BY <1>3, Finished DEF user, response
  <2>2. ASSUME NEW i \in Todo'
        PROVE  K(i)' # "error"
    BY <1>3, <2>2, Finished DEF Grows, NextIs, ThenIs
  <2> QED
    BY <2>1, <2>2
<1>4. CASE DeviceReports
  <2>1. UNCHANGED <<ok, sendStatus>>
    BY <1>4, Reported DEF user, response
  <2>2. ASSUME NEW i \in Todo'
        PROVE  K(i)' # "error"
    BY <1>4, <2>2, Reported DEF Grows, NextIs
  <2> QED
    BY <2>1, <2>2
<1>5. CASE Read
  BY <1>5, Reading DEF CalTypeOK, Read, user, response, Todo, K
<1>6. CASE HandlerStep
  <2>1. Shrinks /\ UNCHANGED user /\ ~HandleError
    BY <1>6, Handled DEF Shrinks
  <2>2. sendStatus'
    BY <1>6, <2>1
    DEF HandlerStep, HandleAnswer, HandleDCOffset, HandleProgress, HandleState, Respond,
                      response
  <2> QED
    BY <2>1, <2>2 DEF Shrinks, user
<1> QED
  BY <1>1, <1>2, <1>3, <1>4, <1>5, <1>6, CalmStays
  DEF CalNext, UserStep, DeviceStep, ReceiverStep, HandlerStep

LEMMA ConversationStep ==
  ASSUME Calm
  PROVE  Conversation'
<1> USE DEF Calm, CalmInv
<1>1. CASE UserStep
  <2>1. Asks \/ GoesOn \/ Takes \/ WaitsOn
    BY <1>1, UserMoves, CalmStays DEF NoErrors
  <2>2. Stream' = Stream /\ Todo' = Todo /\ \A i : K(i)' = K(i)
    BY <1>1, UserLeaves
  <2>3. CASE Asks
    <3>1. pending = << >> /\ (\A i \in Todo : ~IsAnswer(K(i))) /\ ~IsAnswer(slot.type)
      BY <2>3 DEF Asks, Conversation
    <3>2. pending' = <<pending'[1]>> /\ Suits(pending'[1], after')
      BY <2>3, <3>1 DEF Asks
    <3>3. Len(pending') = 1
      BY <3>2
    <3> QED
      BY <2>2, <2>3, <3>1, <3>2, <3>3 DEF Asks, Conversation
  <2>4. CASE GoesOn
    BY <2>2, <2>4 DEF GoesOn, Conversation
  <2>5. CASE Takes
    <3>1. IsAnswer(slot.type)
      BY <2>5 DEF Takes, CalTypeOK, Places, At, Waiting, IsAnswer
    <3>2. ~IsAnswer(slot'.type)
      BY <2>5 DEF Takes, NoMessage, IsAnswer
    <3> QED
      BY <2>2, <2>5, <3>1, <3>2 DEF Takes, Conversation
  <2>6. CASE WaitsOn
    <3>1. slot' = slot \/ ~IsAnswer(slot'.type)
      BY <2>6 DEF WaitsOn, NoMessage, IsAnswer
    <3> QED
      BY <2>2, <2>6, <3>1 DEF WaitsOn, Conversation
  <2> QED
    BY <2>1, <2>3, <2>4, <2>5, <2>6
<1>2. CASE DeviceAnswers
  <2>1. /\ pending' = << >> /\ Waiting /\ UNCHANGED <<user, response>> /\ ~IsAnswer(slot.type)
        /\ \A i \in Todo : ~IsAnswer(K(i))
    BY <1>2, Answered
  <2>2. Waiting' /\ want' = want /\ after' = after /\ slot' = slot
    BY <2>1 DEF Waiting, user, response
  <2>3. ASSUME NEW i \in Todo', IsAnswer(K(i)')
        PROVE  i = Len(Stream) + 1 /\ K(i)' = want
    BY <1>2, <2>1, <2>3, AnsweredKinds DEF IsState, IsAnswer
  <2> QED
    BY <2>1, <2>2, <2>3 DEF Conversation
<1>3. CASE DeviceFinishes
  <2>1. UNCHANGED <<user, response, pending>>
    BY <1>3, Finished
  <2>2. UNCHANGED <<Waiting, want, after, slot, pending>>
    BY <2>1 DEF Waiting, user, response
  <2>3. ASSUME NEW i \in Todo', IsAnswer(K(i)')
        PROVE  i \in Todo /\ IsAnswer(K(i)) /\ K(i)' = K(i)
    BY <1>3, <2>3, Finished DEF IsAnswer, Grows, NextIs, ThenIs
  <2> QED
    BY <2>2, <2>3 DEF Conversation
<1>4. CASE DeviceReports
  <2>1. UNCHANGED <<user, response, pending>>
    BY <1>4, Reported DEF box
  <2>2. UNCHANGED <<Waiting, want, after, slot, pending>>
    BY <2>1 DEF Waiting, user, response
  <2>3. ASSUME NEW i \in Todo', IsAnswer(K(i)')
        PROVE  i \in Todo /\ IsAnswer(K(i)) /\ K(i)' = K(i)
    BY <1>4, <2>3, Reported DEF IsAnswer, Grows, NextIs
  <2> QED
    BY <2>2, <2>3 DEF Conversation
<1>5. CASE Read
  <2>1. Stream' = Stream /\ UNCHANGED <<user, response, box>>
    BY <1>5, Reading DEF CalTypeOK, Read
  <2> QED
    BY <2>1 DEF Conversation, user, response, box, Waiting, Todo, K
<1>6. CASE HandlerStep
  <2>1. Shrinks /\ UNCHANGED <<user, box>> /\ ~HandleError
    BY <1>6, Handled DEF Shrinks, NoErrors
  <2>2. UNCHANGED <<Waiting, want, after, pending>>
    BY <2>1 DEF Waiting, user, box
  <2>3. ASSUME NEW i \in Todo', IsAnswer(K(i)')
        PROVE  /\ i + 1 \in Todo /\ IsAnswer(K(i + 1)) /\ K(i)' = K(i + 1) /\ i + 1 # 1
          /\ i \in Nat
               /\ Waiting /\ pending = << >> /\ K(i)' = want /\ ~IsAnswer(slot.type)
                    /\ ~IsAnswer(K(1))
    <3>1. /\ i + 1 \in Todo /\ IsAnswer(K(i + 1)) /\ K(i)' = K(i + 1) /\ i + 1 # 1 /\ i \in Nat
          /\ 1 \in Todo
      BY <2>1, <2>3 DEF Shrinks
    <3> QED
      BY <3>1 DEF Conversation
  <2>4. CASE HandleAnswer
    <3>1. slot'.type = K(1) /\ IsAnswer(K(1)) /\ 1 \in Todo
      BY <1>6, <2>1, <2>4, Handled DEF HandleAnswer, Respond, Shrinks
    <3> QED
      BY <2>2, <2>3, <3>1 DEF Conversation
  <2>5. CASE HandleDCOffset
    <3>1. ~IsAnswer(slot'.type)
      BY <2>5, Handled DEF HandleDCOffset, Respond, HandlerStep, IsAnswer
    <3> QED
      BY <2>2, <2>3, <3>1 DEF Conversation
  <2>6. CASE HandleProgress \/ HandleState
    <3>1. slot' = slot
      BY <2>6 DEF HandleProgress, HandleState, response
    <3> QED
      BY <2>2, <2>3, <3>1 DEF Conversation
  <2> QED
    BY <1>6, <2>1, <2>4, <2>5, <2>6 DEF HandlerStep
<1> QED
  BY <1>1, <1>2, <1>3, <1>4, <1>5, <1>6, CalmStays
  DEF CalNext, UserStep, DeviceStep, ReceiverStep, HandlerStep

---------------------------------------------------------------------------
(* The DC offset.                                                          *)

LEMMA HasShrinks ==
  ASSUME Shrinks, NEW k
  PROVE  /\ K(1) # k => (Has(k)' <=> Has(k))
         /\ Has(k)' => Has(k)
<1>1. ASSUME NEW i \in Todo', K(i)' = k
      PROVE  Has(k)
  BY <1>1 DEF Shrinks, Has
<1>2. ASSUME NEW i \in Todo, K(i) = k, K(1) # k
      PROVE  Has(k)'
  <2>1. i - 1 \in Todo' /\ K(i - 1)' = k
    BY <1>2 DEF Shrinks
  <2>2. i - 1 \in Todo' /\ Kind(Stream'[i - 1]) = k
    BY <2>1 DEF K
  <2> QED
    BY <2>2 DEF Has, K
<1> QED
  BY <1>1, <1>2 DEF Has

LEMMA HasSame ==
  ASSUME Stream' = Stream, NEW k
  PROVE  /\ Has(k)' <=> Has(k)
         /\ Todo' = Todo /\ Len(Stream') = Len(Stream)
         /\ \A i : K(i)' = K(i)
BY DEF Has, Todo, K

LEMMA HasGrows ==
  ASSUME NEW n \in {1, 2}, Grows(n), NEW k
  PROVE  /\ Has(k) => Has(k)'
         /\ Has(k)' => Has(k) \/ \E i \in Todo' : i \notin Todo /\ K(i)' = k
BY DEF Has, Grows

(* Only the request of the DC offset marks it, and only its result unmarks *)
(* it.                                                                     *)
LEMMA MarkKept ==
  ASSUME CalTypeOK, sendStatus, Conversation, UserStep, ~TimeOut, ~CalculateDCOffset
  PROVE  /\ dcOffset' = dcOffset
         /\ pending' = <<"calc">> <=> pending = <<"calc">>
<1>1. dcOffset' = dcOffset
  BY DEF UserStep, UserBegins, UserGoesOn, GetDCOffset, DetCharacterizeStart, DetCharacterizeStop,
         GetCalibrated, LoadChanData, Awake, Take, DCOffsetAccepted, DCOffsetWaited,
         DCOffsetTimeOut,
         DCOffsetRead, DetCharacterizeConfigured, DetCharacterizeStarted, Done, Refreshed,
         Calibrated,
         Loaded, detector
<1>2. Asks \/ GoesOn \/ Takes \/ WaitsOn
  BY UserMoves
<1>3. CASE Asks
  <2>1. pending = << >>
    BY <1>3 DEF Asks, Conversation
  <2>2. \A r : Append(<< >>, r) = <<r>> /\ <<r>>[1] = r /\ <<r>> # << >>
    OBVIOUS
  <2>3. pending' = <<pending'[1]>> /\ Suits(pending'[1], after')
    BY <1>3, <2>1, <2>2 DEF Asks
  <2>4. after' # "calculated"
    BY <1>3, CalTypeOK
    DEF Asks, UserStep, UserBegins, UserGoesOn, GetDCOffset, DetCharacterizeStart,
        DetCharacterizeStop,
        GetCalibrated, LoadChanData, Awake, Take, DCOffsetAccepted, DCOffsetWaited,
        DCOffsetTimeOut,
        DCOffsetRead, DetCharacterizeConfigured, DetCharacterizeStarted, Done, Refreshed,
        Calibrated,
        Loaded, Ask, Waiting, Return
  <2>5. pending'[1] # "calc"
    BY <2>3, <2>4 DEF Suits
  <2> QED
    BY <1>1, <2>1, <2>2, <2>3, <2>5
<1> QED
  BY <1>1, <1>2, <1>3 DEF GoesOn, Takes, WaitsOn

LEMMA ResultOnceStep ==
  ASSUME Calm
  PROVE  ResultOnce'
<1> USE DEF Calm, CalmInv
<1>1. CASE CalculateDCOffset
  <2>1. /\ Stream' = Stream /\ UNCHANGED device /\ call = "none" /\ channelState # "dcOffset"
        /\ dcOffset' = "requested" /\ pending' = Append(pending, "calc") /\ ~Waiting
    BY <1>1, UserLeaves, Idle
    DEF CalculateDCOffset, Begin, Ask, UserStep, UserBegins, UserFrame, RequestMark
  <2>2. pending = << >>
    BY <2>1 DEF Conversation
  <2>3. pending' = <<"calc">>
    BY <2>1, <2>2
  <2>4. ~Outstanding
    BY <2>1 DEF StateByHand
  <2> QED
    BY <2>1, <2>3, <2>4, HasSame DEF ResultOnce, Outstanding
<1>2. CASE UserStep /\ ~CalculateDCOffset
  <2>1. dcOffset' = dcOffset /\ (pending' = <<"calc">> <=> pending = <<"calc">>)
    BY <1>2, MarkKept, CalmStays DEF NoErrors
  <2>2. Stream' = Stream /\ UNCHANGED device
    BY <1>2, UserLeaves DEF UserFrame
  <2> QED
    BY <2>1, <2>2, HasSame DEF ResultOnce, Outstanding
<1>3. CASE DeviceAnswers
  <2>1. /\ pending' = << >> /\ dcOffset' = dcOffset
             /\ (pending = <<"calc">> <=> after = "calculated")
        /\ pending' # <<"calc">>
    BY <1>3, Answered DEF detector
  <2>2. ASSUME NEW i \in Todo', K(i)' = "dcResult"
        PROVE  i \in Todo /\ K(i) = "dcResult"
    BY <1>3, <2>2, Answered, AnsweredKinds DEF IsAnswer, IsState
  <2>3. Has("dcResult")' <=> Has("dcResult")
    BY <1>3, <2>2, AnsweredKinds DEF Has
  <2>4. device' = "dcOffset" <=> (device = "dcOffset" \/ pending = <<"calc">>)
    BY <1>3, <2>1, Answered
  <2> QED
    BY <2>1, <2>2, <2>3, <2>4 DEF ResultOnce, Outstanding, Has
<1>4. CASE DeviceFinishes
  <2>1. device' = "ready" /\ UNCHANGED <<dcOffset, pending>>
    BY <1>4, Finished DEF detector
  <2>2. CASE device = "dcOffset"
    <3>1. Grows(2) /\ NextIs("dcResult") /\ ThenIs("ready")
      BY <1>4, <2>2, Finished
    <3>2. ASSUME NEW i \in Todo'
          PROVE  K(i)' = "dcResult" <=> i = Len(Stream) + 1
      BY <2>2, <3>1 DEF Grows, NextIs, ThenIs, ResultOnce
    <3>3. Len(Stream) + 1 \in Todo'
      BY <3>1 DEF Grows
    <3>4. Has("dcResult")'
      BY <3>2, <3>3 DEF Has
    <3> QED
      BY <2>1, <2>2, <3>2, <3>4 DEF ResultOnce, Outstanding
  <2>3. CASE device # "dcOffset"
    <3>1. Grows(1) /\ NextIs("ready")
      BY <1>4, <2>3, Finished
    <3>2. ASSUME NEW i \in Todo', K(i)' = "dcResult"
          PROVE  i \in Todo /\ K(i) = "dcResult"
      BY <3>1, <3>2 DEF Grows, NextIs
    <3>3. Has("dcResult")' <=> Has("dcResult")
      BY <3>1, <3>2, HasGrows DEF Has
    <3> QED
      BY <2>1, <2>3, <3>2, <3>3 DEF ResultOnce, Outstanding
  <2> QED
    BY <2>2, <2>3
<1>5. CASE DeviceReports
  <2>1. Grows(1) /\ NextIs("progress") /\ UNCHANGED <<device, pending, dcOffset>>
    BY <1>5, Reported DEF detector, box
  <2>2. ASSUME NEW i \in Todo', K(i)' = "dcResult"
        PROVE  i \in Todo /\ K(i) = "dcResult"
    BY <2>1, <2>2 DEF Grows, NextIs
  <2>3. Has("dcResult")' <=> Has("dcResult")
    BY <2>1, <2>2, HasGrows DEF Has
  <2> QED
    BY <2>1, <2>2, <2>3 DEF ResultOnce, Outstanding
<1>6. CASE Read
  <2>1. Stream' = Stream /\ UNCHANGED <<device, pending, dcOffset>>
    BY <1>6, Reading DEF CalTypeOK, Read, detector, box
  <2> QED
    BY <2>1, HasSame DEF ResultOnce, Outstanding
<1>7. CASE HandlerStep
  <2>1. Shrinks /\ UNCHANGED <<device, pending>>
    BY <1>7, Handled DEF box
  <2>2. ASSUME NEW i \in Todo', K(i)' = "dcResult"
        PROVE  i + 1 \in Todo /\ K(i + 1) = "dcResult" /\ i + 1 # 1 /\ i \in Nat
    BY <2>1, <2>2 DEF Shrinks
  <2>3. CASE HandleDCOffset
    <3>1. K(1) = "dcResult" /\ 1 \in Todo /\ dcOffset' = "value"
      BY <1>7, <2>1, <2>3, Handled DEF HandleDCOffset, Shrinks
    <3>2. \A i \in Todo' : K(i)' # "dcResult"
      BY <2>2, <3>1 DEF ResultOnce
    <3>3. ~Outstanding' /\ pending # <<"calc">>
      BY <2>1, <3>1, <3>2 DEF ResultOnce, Outstanding, Has
    <3> QED
      BY <2>1, <3>1, <3>2, <3>3 DEF ResultOnce
  <2>4. CASE ~HandleDCOffset
    <3>1. K(1) # "dcResult" /\ UNCHANGED dcOffset
      BY <1>7, <2>4, Handled
      DEF HandlerStep, HandleAnswer, HandleError, HandleProgress, HandleState, IsAnswer, IsState,
          detector
    <3>2. Has("dcResult")' <=> Has("dcResult")
      BY <2>1, <3>1, HasShrinks
    <3>3. \A i, j \in Todo' : K(i)' = "dcResult" /\ K(j)' = "dcResult" => i = j
      BY <2>2 DEF ResultOnce
    <3> QED
      BY <2>1, <2>2, <3>1, <3>2, <3>3 DEF ResultOnce, Outstanding
  <2> QED
    BY <2>3, <2>4
<1> QED
  BY <1>1, <1>2, <1>3, <1>4, <1>5, <1>6, <1>7, CalmStays
  DEF CalNext, UserStep, DeviceStep, ReceiverStep, HandlerStep

(* What follows a message still does after a step, until it is handled.    *)
LEMMA FollowedByUser ==
  ASSUME CalTypeOK, sendStatus, Conversation, UserStep, ~TimeOut, NEW j, NEW l
  PROVE  /\ Followed(j, l) => Followed(j, l)'
         /\ \A i : Accepted(j, i, l) => Accepted(j, i, l)'
<1>1. Todo' = Todo /\ \A k : K(k)' = K(k)
  BY UserLeaves
<1>2. ASSUME NEW k \in Todo, K(k) = "success"
      PROVE  after' = after
  <2>1. Waiting
    BY <1>2 DEF Conversation, IsAnswer
  <2> QED
    BY <2>1, UserMoves DEF Asks, GoesOn, Takes, WaitsOn
<1> QED
  BY <1>1, <1>2 DEF Followed, Accepted

LEMMA FollowedGrows ==
  ASSUME UNCHANGED after, \A k \in Todo : k \in Todo' /\ K(k)' = K(k), NEW j, NEW l
  PROVE  /\ Followed(j, l) => Followed(j, l)'
         /\ \A i : Accepted(j, i, l) => Accepted(j, i, l)'
BY DEF Followed, Accepted

LEMMA FollowedShrinks ==
  ASSUME UNCHANGED after, Shrinks, NEW j \in Nat, NEW l
  PROVE  /\ Followed(j + 1, l) => Followed(j, l)'
         /\ \A i \in Nat : Accepted(j + 1, i + 1, l) => Accepted(j, i, l)'
<1>1. ASSUME NEW k \in Todo, j + 1 < k, K(k) = "success"
      PROVE  k - 1 \in Todo' /\ Kind(Stream'[k - 1]) = "success" /\ j < k - 1 /\ k \in Nat
  <2>1. k # 1 /\ k \in Nat
    BY <1>1 DEF Shrinks
  <2>2. k - 1 \in Todo' /\ K(k - 1)' = "success"
    BY <1>1, <2>1 DEF Shrinks
  <2> QED
    BY <1>1, <2>1, <2>2 DEF K
<1>2. Followed(j + 1, l) => Followed(j, l)'
  BY <1>1 DEF Followed, K
<1>3. ASSUME NEW i \in Nat, Accepted(j + 1, i + 1, l)
      PROVE  Accepted(j, i, l)'
  <2>1. PICK k \in Todo : j + 1 < k /\ k < i + 1 /\ K(k) = "success" /\ after = l
    BY <1>3 DEF Accepted
  <2>2. /\ k - 1 \in Todo' /\ Kind(Stream'[k - 1]) = "success" /\ j < k - 1 /\ k - 1 < i
        /\ after' = l
    BY <1>1, <2>1
  <2> QED
    BY <2>2 DEF Accepted, K
<1> QED
  BY <1>2, <1>3

LEMMA ResultOrderStep ==
  ASSUME Calm
  PROVE  ResultOrder'
<1> USE DEF Calm, CalmInv
<1>1. CASE UserStep
  <2>1. Todo' = Todo /\ (\A k : K(k)' = K(k)) /\ UNCHANGED device
    BY <1>1, UserLeaves DEF UserFrame
  <2>2. ASSUME NEW j \in Todo
        PROVE  /\ Followed(j, "calculated") => Followed(j, "calculated")'
               /\ \A i : Accepted(j, i, "calculated") => Accepted(j, i, "calculated")'
    BY <1>1, FollowedByUser, CalmStays DEF NoErrors
  <2> QED
    BY <2>1, <2>2 DEF ResultOrder
<1>2. CASE DeviceAnswers
  <2>1. /\ \A i \in Todo : i \in Todo' /\ K(i)' = K(i)
        /\ Len(Stream) \in Nat /\ Todo = 1 .. Len(Stream) /\ Len(Stream) + 1 \in Todo'
    BY <1>2, AnsweredKinds
  <2>2. after' = after
    BY <1>2, Answered DEF user
  <2>3. ASSUME NEW j \in Todo
        PROVE  /\ Followed(j, "calculated") => Followed(j, "calculated")'
               /\ \A i : Accepted(j, i, "calculated") => Accepted(j, i, "calculated")'
    BY <2>1, <2>2, FollowedGrows
  <2>4. ASSUME NEW i \in Todo', K(i)' = "dcResult"
        PROVE  i \in Todo /\ K(i) = "dcResult"
    BY <1>2, <2>4, Answered, AnsweredKinds DEF IsAnswer, IsState
  <2>5. ASSUME NEW i \in Todo', NEW j \in Todo', j < i, K(i)' = "dcResult", IsState(K(j))'
        PROVE  Accepted(j, i, "calculated")'
    <3>1. i \in Todo /\ K(i) = "dcResult" /\ j \in Todo
      BY <1>2, <2>1, <2>4, <2>5, AnsweredKinds
    <3>2. K(j)' = K(j) /\ IsState(K(j))
      BY <2>1, <2>5, <3>1 DEF IsState
    <3> QED
      BY <2>3, <2>5, <3>1, <3>2 DEF ResultOrder
  <2>6. ASSUME device' = "dcOffset", NEW j \in Todo', IsState(K(j))'
        PROVE  Followed(j, "calculated")'
    <3>1. Grows(1) /\ NextIs(want) /\ IsAnswer(want)
            /\ (device = "dcOffset" \/ after = "calculated")
      BY <1>2, <2>6, Answered
    <3>2. j \in Todo
      BY <2>6, <3>1 DEF Grows, NextIs, IsState, IsAnswer
    <3>3. CASE device = "dcOffset"
      <4>1. IsState(K(j))
        BY <2>1, <2>6, <3>2 DEF IsState
      <4> QED
        BY <2>3, <3>2, <3>3, <4>1 DEF ResultOrder
    <3>4. CASE after = "calculated"
      <4>1. want = "success"
        BY <1>2, <3>4, Answered DEF CalTypeOK, Places, At, Waiting
      <4>2. j < Len(Stream) + 1 /\ K(Len(Stream) + 1)' = K(Len(Stream) + 1)'
        BY <2>1, <3>2
      <4>3. PICK k \in Todo' : k = Len(Stream) + 1
        BY <2>1
      <4>4. K(k)' = "success" /\ j < k /\ after' = "calculated"
        BY <2>2, <3>1, <3>4, <4>1, <4>2, <4>3 DEF NextIs
      <4> QED
        BY <4>4 DEF Followed
    <3> QED
      BY <3>1, <3>3, <3>4
  <2>7. ASSUME NEW i \in Todo', K(i)' = "dcResult"
        PROVE  \E k \in Todo' : i < k /\ K(k)' = "ready"
    BY <2>1, <2>4, <2>7 DEF ResultOrder
  <2> QED
    BY <2>5, <2>6, <2>7 DEF ResultOrder
<1>3. CASE DeviceFinishes
  <2>1. device' = "ready" /\ UNCHANGED after
    BY <1>3, Finished DEF user
  <2>2. CASE device = "dcOffset"
    <3>1. Grows(2) /\ NextIs("dcResult") /\ ThenIs("ready")
      BY <1>3, <2>2, Finished
    <3>2. ASSUME NEW i \in Todo', K(i)' = "dcResult"
          PROVE  i = Len(Stream) + 1
      BY <2>2, <3>1, <3>2 DEF Grows, NextIs, ThenIs, ResultOnce
    <3>3. ASSUME NEW i \in Todo', NEW j \in Todo', j < i, K(i)' = "dcResult", IsState(K(j))'
          PROVE  Accepted(j, i, "calculated")'
      <4>1. i = Len(Stream) + 1 /\ j \in Todo /\ IsState(K(j))
        BY <3>1, <3>2, <3>3 DEF Grows, IsState
      <4>2. PICK k \in Todo : j < k /\ K(k) = "success" /\ after = "calculated"
        BY <2>2, <4>1 DEF ResultOrder, Followed
      <4>3. k \in Todo' /\ K(k)' = "success" /\ k < i /\ after' = "calculated"
        BY <2>1, <3>1, <4>1, <4>2 DEF Grows
      <4> QED
        BY <4>2, <4>3 DEF Accepted
    <3>4. PICK k \in Todo' : k = Len(Stream) + 2
      BY <3>1 DEF Grows
    <3>5. ASSUME NEW i \in Todo', K(i)' = "dcResult"
          PROVE  i < k /\ K(k)' = "ready"
      BY <3>1, <3>2, <3>4, <3>5 DEF Grows, ThenIs
    <3> QED
      BY <2>1, <3>3, <3>5 DEF ResultOrder
  <2>3. CASE device # "dcOffset"
    <3>1. Grows(1) /\ NextIs("ready")
      BY <1>3, <2>3, Finished
    <3>2. ASSUME NEW i \in Todo', K(i)' = "dcResult"
          PROVE  i \in Todo /\ K(i) = "dcResult" /\ \A j \in Todo' : j < i => j \in Todo
      BY <3>1, <3>2 DEF Grows, NextIs
    <3>3. \A j : \A i : Accepted(j, i, "calculated") => Accepted(j, i, "calculated")'
      BY <2>1, <3>1, FollowedGrows DEF Grows
    <3>4. ASSUME NEW i \in Todo', NEW j \in Todo', j < i, K(i)' = "dcResult", IsState(K(j))'
          PROVE  Accepted(j, i, "calculated")'
      <4>1. i \in Todo /\ K(i) = "dcResult" /\ j \in Todo /\ IsState(K(j))
        BY <3>1, <3>2, <3>4 DEF Grows, IsState
      <4> QED
        BY <3>3, <3>4, <4>1 DEF ResultOrder
    <3> QED
      BY <2>1, <3>1, <3>2, <3>4 DEF ResultOrder, Grows
  <2> QED
    BY <2>2, <2>3
<1>4. CASE DeviceReports
  <2>1. Grows(1) /\ NextIs("progress") /\ UNCHANGED <<device, after>>
    BY <1>4, Reported DEF user, box
  <2>2. ASSUME NEW i \in Todo', K(i)' = "dcResult" \/ IsState(K(i))'
        PROVE  i \in Todo /\ K(i)' = K(i) /\ \A j \in Todo' : j < i => j \in Todo
    BY <2>1, <2>2 DEF Grows, NextIs, IsState
  <2>3. \A j : /\ Followed(j, "calculated") => Followed(j, "calculated")'
               /\ \A i : Accepted(j, i, "calculated") => Accepted(j, i, "calculated")'
    BY <2>1, FollowedGrows DEF Grows
  <2>4. ASSUME NEW j \in Todo', IsState(K(j))'
        PROVE  j \in Todo /\ IsState(K(j))
    BY <2>2, <2>4 DEF IsState
  <2>5. ASSUME NEW i \in Todo', NEW j \in Todo', j < i, K(i)' = "dcResult", IsState(K(j))'
        PROVE  Accepted(j, i, "calculated")'
    BY <2>2, <2>3, <2>4, <2>5 DEF ResultOrder
  <2>6. ASSUME device' = "dcOffset", NEW j \in Todo', IsState(K(j))'
        PROVE  Followed(j, "calculated")'
    BY <2>1, <2>3, <2>4, <2>6 DEF ResultOrder
  <2>7. ASSUME NEW i \in Todo', K(i)' = "dcResult"
        PROVE  \E k \in Todo' : i < k /\ K(k)' = "ready"
    BY <2>1, <2>2, <2>7 DEF ResultOrder, Grows
  <2> QED
    BY <2>5, <2>6, <2>7 DEF ResultOrder
<1>5. CASE Read
  <2>1. Stream' = Stream /\ UNCHANGED <<device, after>>
    BY <1>5, Reading DEF CalTypeOK, Read, user, box
  <2>2. Todo' = Todo /\ (\A k : K(k)' = K(k))
    BY <2>1 DEF Todo, K
  <2> QED
    BY <2>1, <2>2 DEF ResultOrder, Followed, Accepted
<1>6. CASE HandlerStep
  <2>1. Shrinks /\ UNCHANGED <<device, after>>
    BY <1>6, Handled DEF user, box
  <2>2. ASSUME NEW i \in Todo'
        PROVE  i + 1 \in Todo /\ K(i)' = K(i + 1) /\ i \in Nat
    BY <2>1 DEF Shrinks
  <2>3. ASSUME NEW i \in Todo', NEW j \in Todo', j < i, K(i)' = "dcResult", IsState(K(j))'
        PROVE  Accepted(j, i, "calculated")'
    <3>1. K(i + 1) = "dcResult" /\ IsState(K(j + 1)) /\ j + 1 < i + 1
      BY <2>2, <2>3 DEF IsState
    <3>2. Accepted(j + 1, i + 1, "calculated")
      BY <2>2, <3>1 DEF ResultOrder
    <3> QED
      BY <2>1, <2>2, <3>2, FollowedShrinks
  <2>4. ASSUME device = "dcOffset", NEW j \in Todo', IsState(K(j))'
        PROVE  Followed(j, "calculated")'
    <3>1. IsState(K(j + 1))
      BY <2>2, <2>4 DEF IsState
    <3>2. Followed(j + 1, "calculated")
      BY <2>2, <2>4, <3>1 DEF ResultOrder
    <3> QED
      BY <2>1, <2>2, <3>2, FollowedShrinks
  <2>5. ASSUME NEW i \in Todo', K(i)' = "dcResult"
        PROVE  \E k \in Todo' : i < k /\ K(k)' = "ready"
    <3>1. PICK k \in Todo : i + 1 < k /\ K(k) = "ready"
      BY <2>2, <2>5 DEF ResultOrder
    <3>2. k # 1 /\ k \in Nat
      BY <2>1, <2>2, <3>1 DEF Shrinks
    <3>3. k - 1 \in Todo' /\ K(k - 1)' = "ready" /\ i < k - 1
      BY <2>1, <2>2, <3>1, <3>2 DEF Shrinks
    <3>4. k - 1 \in Todo' /\ Kind(Stream'[k - 1]) = "ready" /\ i < k - 1
      BY <3>3 DEF K
    <3> QED
      BY <3>4 DEF K
  <2> QED
    BY <2>1, <2>3, <2>4, <2>5 DEF ResultOrder
<1> QED
  BY <1>1, <1>2, <1>3, <1>4, <1>5, <1>6, CalmStays
  DEF CalNext, UserStep, DeviceStep, ReceiverStep, HandlerStep

(* What the answer to a request of the user says of its call.              *)
LEMMA FollowedCall ==
  ASSUME CalTypeOK, Conversation, NEW j, NEW l, Followed(j, l) \/ \E i : Accepted(j, i, l)
  PROVE  /\ Waiting /\ after = l
         /\ l = "calculated" => call = "calc"
         /\ l = "characterizing" => call = "detStart"
<1>1. PICK k \in Todo : K(k) = "success" /\ after = l
  BY DEF Followed, Accepted
<1>2. Waiting
  BY <1>1 DEF Conversation, IsAnswer
<1> QED
  BY <1>1, <1>2 DEF CalTypeOK, Places, At, Waiting

LEMMA StateByHandStep ==
  ASSUME Calm
  PROVE  StateByHand'
<1> USE DEF Calm, CalmInv
<1>1. CASE UserStep
  <2>1. Outstanding' <=> Outstanding
    BY <1>1, UserLeaves, HasSame DEF UserFrame, Outstanding
  <2>2. CASE DCOffsetAccepted
    <3>1. Outstanding => dcOffset = "requested"
      BY DEF ResultOnce
    <3> QED
      BY <2>1, <2>2, <3>1 DEF DCOffsetAccepted, CalculatedState, NoErrors, StateByHand
  <2>3. CASE DetCharacterizeStarted
    <3>1. pending = << >> /\ ~Waiting /\ In("characterizing")
      BY <2>3 DEF DetCharacterizeStarted, Waiting, In, Conversation
    <3>2. device = "calibrate"
      BY <3>1 DEF CharacterizeByHand
    <3>3. ASSUME NEW i \in Todo, K(i) = "dcResult"
          PROVE  FALSE
      <4>1. Followed(i, "characterizing")
        BY <3>2, <3>3 DEF CharacterizeOrder, IsEnd
      <4> QED
        BY <3>1, <4>1, FollowedCall
    <3> QED
      BY <2>1, <3>2, <3>3 DEF Outstanding, Has, StateByHand
  <2>4. CASE UserBegins
    <3>1. PICK c : Begin(c)
      BY <2>4
      DEF UserBegins, CalculateDCOffset, GetDCOffset, DetCharacterizeStart, DetCharacterizeStop,
          GetCalibrated, LoadChanData
    <3>2. UNCHANGED channelState
      BY <2>4
      DEF UserBegins, CalculateDCOffset, GetDCOffset, DetCharacterizeStart, DetCharacterizeStop,
          GetCalibrated, LoadChanData, detector
    <3> QED
      BY <2>1, <3>1, <3>2 DEF Begin, StateByHand
  <2>5. CASE UserGoesOn /\ ~DCOffsetAccepted /\ ~DetCharacterizeStarted
    <3>1. UNCHANGED channelState
      BY <2>5
      DEF UserGoesOn, Awake, Take, TimeOut, DCOffsetWaited, DCOffsetTimeOut, DCOffsetRead,
          DetCharacterizeConfigured, Done, Refreshed, Calibrated, Loaded, detector
    <3>2. call = "calc" => call' = "calc"
      BY <2>5
      DEF UserGoesOn, Awake, Take, TimeOut, DCOffsetWaited, DCOffsetTimeOut, DCOffsetRead,
          DetCharacterizeConfigured, Done, Refreshed, Calibrated, Loaded, CalTypeOK, Places, At,
          Waiting, GoOn, Refreshers
    <3> QED
      BY <2>1, <3>1, <3>2 DEF StateByHand
  <2> QED
    BY <1>1, <2>2, <2>3, <2>4, <2>5 DEF UserStep
<1>2. CASE DeviceAnswers
  <2>1. UNCHANGED <<call, channelState>> /\ Waiting
    BY <1>2, Answered DEF user, detector
  <2>2. ASSUME NEW i \in Todo', K(i)' = "dcResult"
        PROVE  i \in Todo /\ K(i) = "dcResult"
    BY <1>2, <2>2, Answered, AnsweredKinds DEF IsAnswer, IsState
  <2>3. Has("dcResult")' => Has("dcResult")
    BY <2>2 DEF Has
  <2>4. device' = "dcOffset" => device = "dcOffset" \/ after = "calculated"
    BY <1>2, Answered
  <2>5. after = "calculated" => call = "calc"
    BY <2>1 DEF CalTypeOK, Places, At, Waiting
  <2> QED
    BY <2>1, <2>3, <2>4, <2>5 DEF StateByHand, Outstanding
<1>3. CASE DeviceFinishes
  <2>1. UNCHANGED <<call, channelState>> /\ device' = "ready"
    BY <1>3, Finished DEF user, detector
  <2>2. device # "dcOffset" => Grows(1) /\ NextIs("ready")
    BY <1>3, Finished
  <2>3. device # "dcOffset" /\ Has("dcResult")' => Has("dcResult")
    BY <2>2 DEF Grows, NextIs, Has
  <2> QED
    BY <2>1, <2>3 DEF StateByHand, Outstanding
<1>4. CASE DeviceReports
  <2>1. Grows(1) /\ NextIs("progress") /\ UNCHANGED <<device, call, channelState>>
    BY <1>4, Reported DEF user, detector, box
  <2>2. Has("dcResult")' => Has("dcResult")
    BY <2>1 DEF Grows, NextIs, Has
  <2> QED
    BY <2>1, <2>2 DEF StateByHand, Outstanding
<1>5. CASE Read
  <2>1. Stream' = Stream /\ UNCHANGED <<device, call, channelState>>
    BY <1>5, Reading DEF CalTypeOK, Read, user, box, detector
  <2> QED
    BY <2>1, HasSame DEF StateByHand, Outstanding
<1>6. CASE HandlerStep
  <2>1. Shrinks /\ UNCHANGED <<device, call>>
    BY <1>6, Handled DEF user, box
  <2>2. Outstanding' => Outstanding
    BY <2>1, HasShrinks DEF Outstanding
  <2>3. CASE HandleState
    <3>1. IsState(K(1)) /\ 1 \in Todo /\ K(1) # "dcResult"
      BY <1>6, <2>1, <2>3, Handled DEF Shrinks, IsState
    <3>2. device = "dcOffset" => call = "calc"
      BY <3>1, FollowedCall DEF ResultOrder
    <3>3. ASSUME NEW i \in Todo, K(i) = "dcResult"
          PROVE  call = "calc"
      <4>1. 1 < i
        BY <2>1, <3>1, <3>3 DEF Shrinks
      <4>2. Accepted(1, i, "calculated")
        BY <3>1, <3>3, <4>1 DEF ResultOrder
      <4> QED
        BY <4>2, FollowedCall
    <3> QED
      BY <2>1, <2>2, <3>2, <3>3 DEF StateByHand, Outstanding, Has
  <2>4. CASE ~HandleState
    <3>1. UNCHANGED channelState
      BY <1>6, <2>4
      DEF HandlerStep, HandleAnswer, HandleError, HandleDCOffset, HandleProgress, detector
    <3> QED
      BY <2>1, <2>2, <3>1 DEF StateByHand
  <2> QED
    BY <2>3, <2>4
<1> QED
  BY <1>1, <1>2, <1>3, <1>4, <1>5, <1>6, CalmStays
  DEF CalNext, UserStep, DeviceStep, ReceiverStep, HandlerStep

LEMMA AssertionsHoldStep ==
  ASSUME Calm
  PROVE  AssertionsHold'
<1> USE DEF Calm, CalmInv, AssertionsHold
<1>1. CASE HandleDCOffset
  <2>1. K(1) = "dcResult" /\ 1 \in Todo
    BY <1>1, Handled DEF HandlerStep, Shrinks
  <2>2. dcOffset = "requested"
    BY <2>1 DEF ResultOnce, Outstanding, Has
  <2> QED
    BY <1>1, <2>2 DEF HandleDCOffset
<1>2. CASE DCOffsetRead
  BY <1>2 DEF DCOffsetRead, WokenOnce
<1>3. CASE Calibrated
  BY <1>3 DEF Calibrated, DataKept, Waiting
<1>4. CASE UserStep /\ ~DCOffsetRead /\ ~Calibrated
  BY <1>4
  DEF UserStep, UserBegins, UserGoesOn, CalculateDCOffset, GetDCOffset, DetCharacterizeStart,
      DetCharacterizeStop, GetCalibrated, LoadChanData, Awake, Take, TimeOut, DCOffsetAccepted,
      DCOffsetWaited, DCOffsetTimeOut, DetCharacterizeConfigured, DetCharacterizeStarted, Done,
      Refreshed, Loaded
<1>5. CASE DeviceStep \/ (ReceiverStep /\ ~HandleDCOffset)
  BY <1>5
  DEF DeviceStep, ReceiverStep, DeviceAnswers, DeviceRefuses, DeviceBusy, DeviceFinishes,
      DeviceReports, Read, HandleAnswer, HandleError, HandleProgress, HandleState
<1> QED
  BY <1>1, <1>2, <1>3, <1>4, <1>5 DEF CalNext, UserStep

LEMMA ReadyToComeKept ==
  ASSUME Calm, DeviceStep \/ Read \/ (HandlerStep /\ K(1) # "ready"), ReadyToCome
  PROVE  ReadyToCome'
<1> USE DEF Calm, CalmInv
<1>1. CASE DeviceAnswers
  <2>1. Has("ready") => Has("ready")'
    BY <1>1, AnsweredKinds DEF Has
  <2>2. CASE Grows(2) /\ ThenIs("ready")
    <3>1. PICK i \in Todo' : i = Len(Stream) + 2
      BY <2>2 DEF Grows
    <3> QED
      BY <2>2, <3>1 DEF ThenIs, ReadyToCome, Has
  <2>3. CASE device # "ready" => device' # "ready"
    BY <2>1, <2>3 DEF ReadyToCome
  <2> QED
    BY <1>1, <2>2, <2>3, Answered
<1>2. CASE DeviceFinishes
  <2>1. (Grows(2) /\ ThenIs("ready")) \/ (Grows(1) /\ NextIs("ready"))
    BY <1>2, Finished
  <2>2. \E i \in Todo' : K(i)' = "ready"
    <3>1. CASE Grows(2) /\ ThenIs("ready")
      <4>1. Len(Stream) + 2 \in Todo'
        BY <3>1 DEF Grows
      <4> QED
        BY <3>1, <4>1 DEF ThenIs
    <3>2. CASE Grows(1) /\ NextIs("ready")
      <4>1. Len(Stream) + 1 \in Todo'
        BY <3>2 DEF Grows
      <4> QED
        BY <3>2, <4>1 DEF NextIs
    <3> QED
      BY <2>1, <3>1, <3>2
  <2> QED
    BY <2>2 DEF ReadyToCome, Has
<1>3. CASE DeviceReports
  <2>1. Grows(1) /\ UNCHANGED device
    BY <1>3, Reported DEF box
  <2> QED
    BY <2>1, HasGrows DEF ReadyToCome
<1>4. CASE Read
  <2>1. Stream' = Stream /\ UNCHANGED device
    BY <1>4, Reading DEF CalTypeOK, Read, box
  <2> QED
    BY <2>1, HasSame DEF ReadyToCome
<1>5. CASE HandlerStep /\ K(1) # "ready"
  <2>1. Shrinks /\ UNCHANGED device
    BY <1>5, Handled DEF box
  <2> QED
    BY <1>5, <2>1, HasShrinks DEF ReadyToCome
<1> QED
  BY <1>1, <1>2, <1>3, <1>4, <1>5, CalmStays DEF DeviceStep

LEMMA WokenStep ==
  ASSUME Calm
  PROVE  Woken'
<1> USE DEF Calm, CalmInv
<1>1. CASE UserStep
  <2>1. ReadyToCome' <=> ReadyToCome
    BY <1>1, UserLeaves, HasSame DEF UserFrame, ReadyToCome
  <2>2. CASE DCOffsetAccepted
    <3>1. pending = << >>
      BY <2>2 DEF DCOffsetAccepted, Waiting, Conversation
    <3>2. pending # <<"calc">>
      BY <3>1
    <3>3. dcOffset = "requested" => ReadyToCome
      BY <3>2 DEF ResultOnce, Outstanding, ReadyToCome, ResultOrder, Has
    <3> QED
      BY <2>1, <2>2, <3>3 DEF DCOffsetAccepted, CalculatedState, Woken, Return
  <2>3. CASE DetCharacterizeStarted
    BY <2>1, <2>3 DEF DetCharacterizeStarted, Woken, Return
  <2>4. CASE GetDCOffset
    BY <2>1, <2>4 DEF GetDCOffset, Woken, Primed
  <2>5. CASE UserBegins /\ ~GetDCOffset
    <3>1. UNCHANGED channelState /\ pc' # "dcWait"
      BY <2>5
      DEF UserBegins, CalculateDCOffset, DetCharacterizeStart, DetCharacterizeStop,
          GetCalibrated, LoadChanData, detector, Ask
    <3> QED
      BY <2>1, <3>1 DEF Woken
  <2>6. CASE DCOffsetWaited
    BY <2>1, <2>6 DEF DCOffsetWaited, Woken
  <2>7. CASE UserGoesOn /\ ~DCOffsetAccepted /\ ~DetCharacterizeStarted /\ ~DCOffsetWaited
    <3>1. UNCHANGED channelState /\ pc' # "dcWait"
      BY <2>7
      DEF UserGoesOn, Awake, Take, TimeOut, DCOffsetTimeOut, DCOffsetRead, Waiting, Return, GoOn,
          DetCharacterizeConfigured, Done, Refreshed, Calibrated, Loaded, detector, Ask, CalTypeOK,
          Places, At
    <3> QED
      BY <2>1, <3>1 DEF Woken
  <2> QED
    BY <1>1, <2>2, <2>3, <2>4, <2>5, <2>6, <2>7 DEF UserStep
<1>2. CASE DeviceStep \/ Read
  <2>1. UNCHANGED <<channelState, pc, asyncEvent, asyncReady>>
    BY <1>2
    DEF DeviceStep, DeviceAnswers, DeviceRefuses, DeviceBusy, DeviceFinishes, DeviceReports, Read,
        detector, user
  <2> QED
    BY <1>2, <2>1, ReadyToComeKept DEF Woken
<1>3. CASE HandlerStep
  <2>1. UNCHANGED pc
    BY <1>3, Handled DEF user
  <2>2. CASE HandleState
    <3>1. /\ K(1) = rx.state /\ IsState(rx.state) /\ channelState' = rx.state
          /\ asyncEvent' = (asyncEvent \/ (rx.state = "ready" /\ asyncReady))
          /\ asyncReady' = (asyncReady /\ rx.state # "ready")
      BY <1>3, <2>2, Handled DEF HandleState
    <3>2. CASE rx.state = "ready"
      BY <2>1, <3>1, <3>2 DEF Woken
    <3>3. CASE rx.state # "ready"
      <4>1. ReadyToCome => ReadyToCome'
        BY <1>3, <3>1, <3>3, ReadyToComeKept
      <4> QED
        BY <2>1, <3>1, <3>3, <4>1 DEF Woken, IsState
    <3> QED
      BY <3>2, <3>3
  <2>3. CASE ~HandleState
    <3>1. UNCHANGED <<channelState, asyncEvent, asyncReady>>
      BY <1>3, <2>3
      DEF HandlerStep, HandleAnswer, HandleError, HandleDCOffset, HandleProgress, detector
    <3>2. K(1) # "ready"
      BY <1>3, <2>3, Handled DEF HandlerStep, IsAnswer
    <3>3. ReadyToCome => ReadyToCome'
      BY <1>3, <3>2, ReadyToComeKept
    <3> QED
      BY <2>1, <3>1, <3>3 DEF Woken
  <2> QED
    BY <2>2, <2>3
<1> QED
  BY <1>1, <1>2, <1>3 DEF CalNext, UserStep, ReceiverStep, HandlerStep

---------------------------------------------------------------------------
(* The characterization.                                                   *)

LEMMA CharacterizeOrderStep ==
  ASSUME Calm
  PROVE  CharacterizeOrder'
<1> USE DEF Calm, CalmInv
<1>1. CASE UserStep
  <2>1. Todo' = Todo /\ (\A k : K(k)' = K(k)) /\ UNCHANGED device
    BY <1>1, UserLeaves DEF UserFrame
  <2>2. ASSUME NEW j \in Todo
        PROVE  /\ Followed(j, "characterizing") => Followed(j, "characterizing")'
               /\ \A i : Accepted(j, i, "characterizing") => Accepted(j, i, "characterizing")'
    BY <1>1, FollowedByUser, CalmStays DEF NoErrors
  <2> QED
    BY <2>1, <2>2 DEF CharacterizeOrder
<1>2. CASE DeviceAnswers
  <2>1. /\ \A i \in Todo : i \in Todo' /\ K(i)' = K(i)
        /\ Len(Stream) \in Nat /\ Todo = 1 .. Len(Stream) /\ Len(Stream) + 1 \in Todo'
    BY <1>2, AnsweredKinds
  <2>2. after' = after /\ NextIs(want) /\ IsAnswer(want) /\ Waiting
    BY <1>2, Answered DEF user
  <2>3. ASSUME NEW j \in Todo
        PROVE  /\ Followed(j, "characterizing") => Followed(j, "characterizing")'
               /\ \A i : Accepted(j, i, "characterizing") => Accepted(j, i, "characterizing")'
    BY <2>1, <2>2, FollowedGrows
  <2>4. CASE after = "characterizing" /\ device' = "calibrate" /\ Grows(2) /\ ThenIs("calibrate")
    <3>1. want = "success"
      BY <2>2, <2>4 DEF CalTypeOK, Places, At, Waiting
    <3>2. PICK k \in Todo' : k = Len(Stream) + 1
      BY <2>1
    <3>3. K(k)' = "success" /\ ~IsEnd(K(k)')
      BY <2>2, <3>1, <3>2 DEF NextIs, IsEnd
    <3>4. ASSUME NEW j \in Todo', IsEnd(K(j))'
          PROVE  j \in Todo /\ j < k
      <4>1. j \in Todo \/ j = k \/ j = Len(Stream) + 2
        BY <2>4, <3>2 DEF Grows
      <4>2. j = Len(Stream) + 2 => ~IsEnd(K(j)')
        BY <2>4, <3>4 DEF ThenIs, IsEnd
      <4> QED
        BY <2>1, <3>2, <3>3, <3>4, <4>1, <4>2
    <3>5. \A j \in Todo' : IsEnd(K(j))' => Followed(j, "characterizing")'
      BY <2>2, <2>4, <3>3, <3>4 DEF Followed
    <3>6. ASSUME NEW i \in Todo', NEW j \in Todo', j < i, K(i)' = "calibrate", IsEnd(K(j))'
          PROVE  Accepted(j, i, "characterizing")'
      <4>1. j \in Todo /\ j < k
        BY <3>4, <3>6
      <4>2. CASE i \in Todo
        <5>1. K(i) = "calibrate" /\ IsEnd(K(j))
          BY <2>1, <3>6, <4>1, <4>2 DEF IsEnd
        <5> QED
          BY <2>3, <3>6, <4>1, <4>2, <5>1 DEF CharacterizeOrder
      <4>3. CASE i \notin Todo
        <5>1. k < i
          BY <2>4, <3>2, <3>3, <3>6, <4>3 DEF Grows
        <5> QED
          BY <2>2, <2>4, <3>3, <4>1, <5>1 DEF Accepted
      <4> QED
        BY <4>2, <4>3
    <3> QED
      BY <3>5, <3>6 DEF CharacterizeOrder
  <2>5. CASE Grows(1) /\ (device' = "calibrate" => device = "calibrate")
    <3>1. ASSUME NEW i \in Todo', K(i)' = "calibrate" \/ IsEnd(K(i))'
          PROVE  i \in Todo /\ K(i)' = K(i)
      BY <2>2, <2>5, <3>1 DEF Grows, NextIs, IsEnd, IsAnswer
    <3>2. ASSUME NEW i \in Todo', IsEnd(K(i))'
          PROVE  i \in Todo /\ IsEnd(K(i))
      BY <3>1, <3>2 DEF IsEnd
    <3> QED
      BY <2>3, <2>5, <3>1, <3>2 DEF CharacterizeOrder
  <2>6. CASE Grows(2) /\ ThenIs("ready") /\ device = "calibrate" /\ device' = "ready"
    <3>1. ASSUME NEW i \in Todo', K(i)' = "calibrate"
          PROVE  i \in Todo /\ K(i) = "calibrate" /\ \A j \in Todo' : j < i => j \in Todo
      BY <2>2, <2>6, <3>1 DEF Grows, NextIs, ThenIs, IsAnswer
    <3>2. ASSUME NEW i \in Todo', NEW j \in Todo', j < i, K(i)' = "calibrate", IsEnd(K(j))'
          PROVE  Accepted(j, i, "characterizing")'
      <4>1. i \in Todo /\ K(i) = "calibrate" /\ j \in Todo /\ IsEnd(K(j))
        BY <2>1, <3>1, <3>2 DEF IsEnd
      <4> QED
        BY <2>3, <3>2, <4>1 DEF CharacterizeOrder
    <3> QED
      BY <2>6, <3>2 DEF CharacterizeOrder
  <2> QED
    BY <1>2, <2>4, <2>5, <2>6, Answered
<1>3. CASE DeviceFinishes
  <2>1. device' = "ready" /\ UNCHANGED after
    BY <1>3, Finished DEF user
  <2>2. /\ \A i \in Todo : i \in Todo' /\ K(i)' = K(i)
        /\ \A i \in Todo' : K(i)' = "calibrate" => i \in Todo
                              /\ \A j \in Todo' : j < i => j \in Todo
    BY <1>3, Finished DEF Grows, NextIs, ThenIs
  <2>3. \A j : \A i : Accepted(j, i, "characterizing") => Accepted(j, i, "characterizing")'
    BY <2>1, <2>2, FollowedGrows
  <2>4. ASSUME NEW i \in Todo', NEW j \in Todo', j < i, K(i)' = "calibrate", IsEnd(K(j))'
        PROVE  Accepted(j, i, "characterizing")'
    <3>1. i \in Todo /\ K(i) = "calibrate" /\ j \in Todo /\ IsEnd(K(j))
      BY <2>2, <2>4 DEF IsEnd
    <3> QED
      BY <2>3, <2>4, <3>1 DEF CharacterizeOrder
  <2> QED
    BY <2>1, <2>4 DEF CharacterizeOrder
<1>4. CASE DeviceReports
  <2>1. Grows(1) /\ NextIs("progress") /\ UNCHANGED <<device, after>>
    BY <1>4, Reported DEF user, box
  <2>2. ASSUME NEW i \in Todo', K(i)' = "calibrate" \/ IsEnd(K(i))'
        PROVE  i \in Todo /\ K(i)' = K(i)
    BY <2>1, <2>2 DEF Grows, NextIs, IsEnd
  <2>3. ASSUME NEW i \in Todo', IsEnd(K(i))'
        PROVE  i \in Todo /\ IsEnd(K(i))
    BY <2>2, <2>3 DEF IsEnd
  <2>4. \A j : /\ Followed(j, "characterizing") => Followed(j, "characterizing")'
               /\ \A i : Accepted(j, i, "characterizing") => Accepted(j, i, "characterizing")'
    BY <2>1, FollowedGrows DEF Grows
  <2> QED
    BY <2>1, <2>2, <2>3, <2>4 DEF CharacterizeOrder
<1>5. CASE Read
  <2>1. Stream' = Stream /\ UNCHANGED <<device, after>>
    BY <1>5, Reading DEF CalTypeOK, Read, user, box
  <2>2. Todo' = Todo /\ (\A k : K(k)' = K(k))
    BY <2>1 DEF Todo, K
  <2> QED
    BY <2>1, <2>2 DEF CharacterizeOrder, Followed, Accepted
<1>6. CASE HandlerStep
  <2>1. Shrinks /\ UNCHANGED <<device, after>>
    BY <1>6, Handled DEF user, box
  <2>2. ASSUME NEW i \in Todo'
        PROVE  i + 1 \in Todo /\ K(i)' = K(i + 1) /\ i \in Nat
    BY <2>1 DEF Shrinks
  <2>3. ASSUME NEW i \in Todo', NEW j \in Todo', j < i, K(i)' = "calibrate", IsEnd(K(j))'
        PROVE  Accepted(j, i, "characterizing")'
    <3>1. K(i + 1) = "calibrate" /\ IsEnd(K(j + 1)) /\ j + 1 < i + 1
      BY <2>2, <2>3 DEF IsEnd
    <3>2. Accepted(j + 1, i + 1, "characterizing")
      BY <2>2, <3>1 DEF CharacterizeOrder
    <3> QED
      BY <2>1, <2>2, <3>2, FollowedShrinks
  <2>4. ASSUME device = "calibrate", NEW j \in Todo', IsEnd(K(j))'
        PROVE  Followed(j, "characterizing")'
    <3>1. IsEnd(K(j + 1))
      BY <2>2, <2>4 DEF IsEnd
    <3>2. Followed(j + 1, "characterizing")
      BY <2>2, <2>4, <3>1 DEF CharacterizeOrder
    <3> QED
      BY <2>1, <2>2, <3>2, FollowedShrinks
  <2> QED
    BY <2>1, <2>3, <2>4 DEF CharacterizeOrder
<1> QED
  BY <1>1, <1>2, <1>3, <1>4, <1>5, <1>6, CalmStays
  DEF CalNext, UserStep, DeviceStep, ReceiverStep, HandlerStep

(* While a DC offset is calculated, nothing else is, nor has it just been. *)
LEMMA RequestAlone ==
  ASSUME CalTypeOK, CalmInv, ~Waiting, dcOffset = "requested"
  PROVE  /\ device # "calibrate" /\ ~Has("calibrate")
         /\ \A i \in Todo : K(i) = "ready" => \E j \in Todo : j < i /\ K(j) = "dcResult"
<1> USE DEF CalmInv
<1>1. \A j, l : ~Followed(j, l) /\ \A i : ~Accepted(j, i, l)
  BY FollowedCall
<1>2. CASE device = "dcOffset"
  BY <1>1, <1>2 DEF ResultOrder, Has, IsState
<1>3. CASE Has("dcResult")
  <2>1. PICK i \in Todo : K(i) = "dcResult"
    BY <1>3 DEF Has
  <2>2. device # "calibrate"
    BY <1>1, <2>1 DEF CharacterizeOrder, IsEnd
  <2>3. ASSUME NEW j \in Todo, IsState(K(j))
        PROVE  i < j /\ K(j) # "calibrate"
    <3>1. j < i \/ i < j
      <4>1. i \in Nat /\ j \in Nat /\ i # j
        BY <2>1, <2>3, StreamType DEF CalTypeOK, IsState
      <4> QED
        BY <4>1
    <3> QED
      BY <1>1, <2>1, <2>3, <3>1 DEF ResultOrder, CharacterizeOrder, IsEnd, IsState
  <2> QED
    BY <2>1, <2>2, <2>3 DEF Has, IsState
<1> QED
  <2>1. pending = << >>
    BY DEF Conversation
  <2>2. pending # <<"calc">>
    BY <2>1
  <2> QED
    BY <1>2, <1>3, <2>2 DEF ResultOnce, Outstanding

LEMMA ReadyStillComing ==
  ASSUME BoxTypes, ReadyToCome
  PROVE  ReadyComing
<1>1. CASE device # "ready"
  BY <1>1 DEF ReadyComing
<1>2. CASE Has("ready")
  <2>1. PICK i \in Todo : K(i) = "ready"
    BY <1>2 DEF Has
  <2>2. Stream[i] = State("ready") /\ i \in 1 .. Len(Stream)
    BY <2>1, StreamType, KindOfMessage DEF K
  <2>3. CASE rx = NoMessage
    BY <2>2, <2>3 DEF Stream, ReadyComing, BoxTypes
  <2>4. CASE rx # NoMessage
    <3>1. /\ Stream[1] = rx /\ Len(Stream) = Len(wire) + 1 /\ Len(wire) \in Nat
          /\ \A k \in 1 .. Len(wire) : Stream[k + 1] = wire[k]
      BY <2>4 DEF Stream, BoxTypes
    <3>2. CASE i = 1
      BY <2>2, <3>1, <3>2 DEF ReadyComing
    <3>3. CASE i # 1
      <4>1. PICK k \in 1 .. Len(wire) : i = k + 1
        BY <2>2, <3>1, <3>3
      <4>2. wire[k] = State("ready") /\ k \in DOMAIN wire
        BY <2>2, <3>1, <4>1 DEF BoxTypes
      <4> QED
        BY <4>2 DEF ReadyComing
    <3> QED
      BY <3>2, <3>3
  <2> QED
    BY <2>3, <2>4
<1> QED
  BY <1>1, <1>2 DEF ReadyToCome

LEMMA WokenOnceStep ==
  ASSUME Calm
  PROVE  WokenOnce'
<1> USE DEF Calm, CalmInv
<1>1. CASE GetDCOffset
  <2>1. call = "none" /\ ~Waiting /\ pc = "idle"
    BY <1>1, Idle DEF GetDCOffset, Begin
  <2>2. pending = << >>
    BY <2>1 DEF Conversation
  <2>3. pending # <<"calc">>
    BY <2>2
  <2>4. dcOffset = "requested" => channelState = "dcOffset"
    BY <2>1, <2>3 DEF ResultOnce, StateByHand
  <2> QED
    BY <1>1, <2>1, <2>4 DEF GetDCOffset, WokenOnce
<1>2. CASE UserBegins /\ ~GetDCOffset
  <2>1. PICK c : Begin(c)
    BY <1>2
    DEF UserBegins, CalculateDCOffset, GetDCOffset, DetCharacterizeStart, DetCharacterizeStop,
        GetCalibrated, LoadChanData
  <2>2. pc # "dcWait"
    BY <2>1, Idle DEF Begin
  <2>3. UNCHANGED <<asyncReady, asyncEvent>> /\ pc' # "dcRead"
    BY <1>2
    DEF UserBegins, CalculateDCOffset, DetCharacterizeStart, DetCharacterizeStop,
        GetCalibrated, LoadChanData, detector, Ask
  <2> QED
    BY <2>2, <2>3 DEF WokenOnce
<1>3. CASE DCOffsetWaited
  BY <1>3 DEF DCOffsetWaited, WokenOnce
<1>4. CASE DCOffsetTimeOut
  BY <1>4, ReadyStillComing DEF DCOffsetTimeOut, Woken, CalTypeOK
<1>5. CASE UserGoesOn /\ ~DCOffsetWaited /\ ~DCOffsetTimeOut
  <2>1. UNCHANGED <<asyncReady, asyncEvent, dcOffset>> /\ pc # "dcWait" /\ pc' # "dcRead"
    BY <1>5, CalmStays
    DEF UserGoesOn, Awake, Take, DCOffsetAccepted, DCOffsetRead, Waiting, Return, GoOn,
        DetCharacterizeConfigured, DetCharacterizeStarted, Done, Refreshed, Calibrated, Loaded,
        detector,
        Ask, CalTypeOK, Places, At
  <2> QED
    BY <2>1 DEF WokenOnce
<1>6. CASE DeviceStep \/ Read
  <2>1. UNCHANGED <<dcOffset, pc, asyncEvent, asyncReady>>
    BY <1>6
    DEF DeviceStep, DeviceAnswers, DeviceRefuses, DeviceBusy, DeviceFinishes, DeviceReports, Read,
        detector, user
  <2> QED
    BY <2>1 DEF WokenOnce
<1>7. CASE HandlerStep
  <2>1. UNCHANGED pc
    BY <1>7, Handled DEF user
  <2>2. CASE HandleState
    <3>1. asyncReady /\ rx.state = "ready" => dcOffset # "requested"
      <4>1. /\ K(1) = rx.state /\ 1 \in Todo /\ \A j \in Todo : ~(j < 1)
        BY <1>7, <2>2, Handled DEF Shrinks
      <4>2. asyncReady => ~Waiting
        BY DEF WokenOnce, Waiting
      <4> QED
        BY <4>1, <4>2, RequestAlone
    <3> QED
      BY <2>1, <2>2, <3>1 DEF HandleState, WokenOnce
  <2>3. CASE ~HandleState
    BY <1>7, <2>1, <2>3
    DEF HandlerStep, HandleAnswer, HandleError, HandleDCOffset, HandleProgress, detector, WokenOnce
  <2> QED
    BY <2>2, <2>3
<1> QED
  BY <1>1, <1>2, <1>3, <1>4, <1>5, <1>6, <1>7 DEF CalNext, ReceiverStep, HandlerStep

LEMMA CharacterizeByHandStep ==
  ASSUME Calm
  PROVE  CharacterizeByHand'
<1> USE DEF Calm, CalmInv
<1>0. In("characterizing") => call = "detStart"
  BY DEF In, CalTypeOK, Places, At, Waiting
<1>1. CASE UserStep
  <2>1. (device' = device) /\ (Has("calibrate")' <=> Has("calibrate"))
    BY <1>1, UserLeaves, HasSame DEF UserFrame
  <2>2. CASE DCOffsetAccepted
    <3>1. pending = << >> /\ ~Waiting /\ ~In("characterizing")' /\ pending # <<"calc">>
      <4>1. pending = << >> /\ ~Waiting /\ ~In("characterizing")'
        BY <2>2 DEF DCOffsetAccepted, Waiting, Conversation, Return, In
      <4> QED
        BY <4>1
    <3>2. \A j, l : ~Followed(j, l) /\ \A i : ~Accepted(j, i, l)
      BY <3>1, FollowedCall
    <3>3. dcOffset = "requested" => device # "calibrate" /\ ~Has("calibrate")
      BY <3>1, RequestAlone
    <3>4. call = "calc"
      BY <2>2 DEF DCOffsetAccepted, CalTypeOK, Places, At, Waiting
    <3> QED
      BY <2>1, <2>2, <3>1, <3>3, <3>4 DEF DCOffsetAccepted, CalculatedState, CharacterizeByHand
  <2>3. CASE DetCharacterizeStarted
    BY <2>1, <2>3 DEF DetCharacterizeStarted, CharacterizeByHand, Return, In, Waiting, NoErrors
  <2>4. CASE UserBegins
    <3>1. PICK c : Begin(c)
      BY <2>4
      DEF UserBegins, CalculateDCOffset, GetDCOffset, DetCharacterizeStart, DetCharacterizeStop,
          GetCalibrated, LoadChanData
    <3>2. UNCHANGED channelState
      BY <2>4
      DEF UserBegins, CalculateDCOffset, GetDCOffset, DetCharacterizeStart, DetCharacterizeStop,
          GetCalibrated, LoadChanData, detector
    <3>3. ~In("characterizing")'
      BY <2>4
      DEF UserBegins, CalculateDCOffset, GetDCOffset, DetCharacterizeStart, DetCharacterizeStop,
          GetCalibrated, LoadChanData, Ask, In, Waiting
    <3> QED
      BY <2>1, <3>1, <3>2, <3>3 DEF Begin, CharacterizeByHand
  <2>5. CASE DetCharacterizeConfigured
    <3>1. pending' = Append(pending, "characterize") /\ UNCHANGED <<call, channelState>>
      BY <2>5 DEF DetCharacterizeConfigured, NoErrors, Ask, detector
    <3>2. pending' # << >>
      BY <3>1 DEF CalTypeOK, BoxTypes
    <3> QED
      BY <2>1, <3>1, <3>2 DEF CharacterizeByHand
  <2>6. CASE Awake \/ Take
    <3>1. UNCHANGED <<call, channelState, pending, after>> /\ Waiting
      BY <2>6 DEF Awake, Take, GoOn, detector, box, Waiting
    <3>2. In("characterizing")' => In("characterizing")
      BY <2>6, <3>1 DEF Awake, Take, GoOn, In, Waiting
    <3> QED
      BY <2>1, <3>1, <3>2 DEF CharacterizeByHand
  <2>7. CASE /\ UserGoesOn /\ ~DCOffsetAccepted /\ ~DetCharacterizeStarted /\ ~Awake /\ ~Take
             /\ ~DetCharacterizeConfigured
    <3>1. UNCHANGED channelState /\ ~In("characterizing")'
      BY <2>7, CalmStays
      DEF UserGoesOn, DCOffsetWaited, DCOffsetTimeOut, DCOffsetRead, Done, Refreshed, Calibrated,
          Loaded, detector, Return, In, Waiting, Ask
    <3>2. call # "detStart"
      BY <2>7, CalmStays
      DEF UserGoesOn, DCOffsetWaited, DCOffsetTimeOut, DCOffsetRead, Done, Refreshed, Calibrated,
          Loaded, CalTypeOK, Places, At, Waiting, Refreshers
    <3> QED
      BY <2>1, <3>1, <3>2 DEF CharacterizeByHand
  <2> QED
    BY <1>1, <2>2, <2>3, <2>4, <2>5, <2>6, <2>7 DEF UserStep
<1>2. CASE DeviceAnswers
  <2>1. UNCHANGED <<call, channelState, after, pc>> /\ Waiting /\ IsAnswer(want) /\ NextIs(want)
    BY <1>2, Answered DEF user, detector
  <2>2. In("characterizing") <=> after = "characterizing"
    BY <2>1 DEF In, Waiting
  <2>3. In("characterizing")' <=> after = "characterizing"
    BY <2>1 DEF In, Waiting
  <2>4. CASE after = "characterizing"
    <3>1. call = "detStart" /\ device' = "calibrate"
      BY <1>0, <1>2, <2>2, <2>4, Answered
    <3> QED
      BY <2>1, <3>1 DEF CharacterizeByHand
  <2>5. CASE after # "characterizing"
    <3>1. Grows(1) \/ (Grows(2) /\ ThenIs("ready"))
      BY <1>2, <2>5, Answered
    <3>2. ASSUME NEW i \in Todo', K(i)' = "calibrate"
          PROVE  i \in Todo /\ K(i) = "calibrate"
      BY <2>1, <3>1, <3>2 DEF Grows, NextIs, ThenIs, IsAnswer
    <3>3. Has("calibrate")' => Has("calibrate")
      BY <3>2 DEF Has
    <3>4. device' = "calibrate" => device = "calibrate"
      BY <1>2, <2>5, Answered
    <3> QED
      BY <2>1, <2>3, <2>5, <3>3, <3>4 DEF CharacterizeByHand
  <2> QED
    BY <2>4, <2>5
<1>3. CASE DeviceFinishes
  <2>1. /\ UNCHANGED <<call, channelState, pending, after, pc>> /\ device' = "ready"
        /\ device # "calibrate" \/ call # "detStart"
    BY <1>3, Finished DEF user, detector
  <2>2. \A i \in Todo' : K(i)' = "calibrate" => i \in Todo /\ K(i) = "calibrate"
    BY <1>3, Finished DEF Grows, NextIs, ThenIs
  <2>3. Has("calibrate")' => Has("calibrate")
    BY <2>2 DEF Has
  <2>4. In("characterizing")' <=> In("characterizing")
    BY <2>1 DEF In, Waiting
  <2> QED
    BY <1>0, <2>1, <2>3, <2>4 DEF CharacterizeByHand
<1>4. CASE DeviceReports
  <2>1. /\ UNCHANGED <<call, channelState, pending, after, pc, device>>
        /\ Grows(1) /\ NextIs("progress")
    BY <1>4, Reported DEF user, detector, box
  <2>2. \A i \in Todo' : K(i)' = "calibrate" => i \in Todo /\ K(i) = "calibrate"
    BY <2>1 DEF Grows, NextIs
  <2>3. Has("calibrate")' => Has("calibrate")
    BY <2>2 DEF Has
  <2>4. In("characterizing")' <=> In("characterizing")
    BY <2>1 DEF In, Waiting
  <2> QED
    BY <2>1, <2>3, <2>4 DEF CharacterizeByHand
<1>5. CASE Read
  <2>1. Stream' = Stream /\ UNCHANGED <<call, channelState, pending, after, pc, device>>
    BY <1>5, Reading DEF CalTypeOK, Read, user, detector, box
  <2> QED
    BY <2>1, HasSame DEF CharacterizeByHand, In, Waiting
<1>6. CASE HandlerStep
  <2>1. Shrinks /\ UNCHANGED <<call, pending, after, pc, device>>
    BY <1>6, Handled DEF user, box
  <2>2. Has("calibrate")' => Has("calibrate")
    BY <2>1, HasShrinks
  <2>3. CASE HandleState /\ K(1) # "calibrate"
    <3>1. IsEnd(K(1)) /\ 1 \in Todo
      BY <1>6, <2>1, <2>3, Handled DEF Shrinks, IsState, IsEnd
    <3>2. device = "calibrate" => call = "detStart"
      BY <3>1, FollowedCall DEF CharacterizeOrder
    <3>3. ASSUME NEW i \in Todo, K(i) = "calibrate"
          PROVE  call = "detStart"
      <4>1. 1 < i
        BY <2>1, <2>3, <3>3 DEF Shrinks
      <4>2. Accepted(1, i, "characterizing")
        BY <3>1, <3>3, <4>1 DEF CharacterizeOrder
      <4> QED
        BY <4>2, FollowedCall
    <3> QED
      BY <2>1, <2>2, <3>2, <3>3 DEF CharacterizeByHand, Has, In, Waiting
  <2>4. CASE HandleState /\ K(1) = "calibrate"
    <3>1. channelState' = "calibrate"
      BY <1>6, <2>4, Handled DEF HandleState
    <3> QED
      BY <2>1, <3>1 DEF CharacterizeByHand, In, Waiting
  <2>5. CASE ~HandleState
    <3>1. UNCHANGED channelState
      BY <1>6, <2>5
      DEF HandlerStep, HandleAnswer, HandleError, HandleDCOffset, HandleProgress, detector
    <3> QED
      BY <2>1, <2>2, <3>1 DEF CharacterizeByHand, In, Waiting
  <2> QED
    BY <2>3, <2>4, <2>5
<1> QED
  BY <1>1, <1>2, <1>3, <1>4, <1>5, <1>6, CalmStays
  DEF CalNext, UserStep, DeviceStep, ReceiverStep, HandlerStep

---------------------------------------------------------------------------
(* The calibration.                                                        *)

LEMMA DataKeptStep ==
  ASSUME Calm
  PROVE  DataKept'
<1> USE DEF Calm, CalmInv
<1>1. CASE UserStep
  <2>1. Asks \/ GoesOn \/ Takes \/ WaitsOn
    BY <1>1, UserMoves, CalmStays DEF NoErrors
  <2>2. ~Waiting => ~IsAnswer(slot.type)
    BY DEF Conversation
  <2>3. CASE Refreshed
    <3>1. UNCHANGED <<calibData, slot>> /\ ~Waiting
      BY <2>3 DEF Refreshed, response, Waiting
    <3>2. calibrationState' = "Ready" => Waiting' /\ want' = "calibration"
      BY <2>3 DEF Refreshed, Ask, Waiting
    <3> QED
      BY <2>2, <3>1, <3>2 DEF DataKept, IsAnswer
  <2>4. CASE Loaded
    BY <2>2, <2>4 DEF Loaded, Loads, In, DataKept, response
  <2>5. CASE DetCharacterizeStarted
    <3>1. calibrationState' = "NeedRefresh" /\ slot' = slot /\ ~Waiting
      BY <2>5 DEF DetCharacterizeStarted, response, Waiting, NoErrors
    <3> QED
      BY <2>2, <3>1 DEF DataKept, IsAnswer
  <2>6. CASE UserBegins
    <3>1. ~Waiting /\ slot' = slot
      <4>1. PICK c : Begin(c)
        BY <2>6
        DEF UserBegins, CalculateDCOffset, GetDCOffset, DetCharacterizeStart, DetCharacterizeStop,
            GetCalibrated, LoadChanData
      <4> QED
        BY <4>1, Idle DEF Begin, response
    <3>2. /\ calibData => calibData'
          /\ calibrationState' = calibrationState \/ calibrationState' \in {"None", "NeedRefresh"}
      BY <2>6
      DEF UserBegins, CalculateDCOffset, GetDCOffset, DetCharacterizeStart, DetCharacterizeStop,
          GetCalibrated, LoadChanData, detector
    <3> QED
      BY <2>2, <3>1, <3>2 DEF DataKept, IsAnswer
  <2>7. CASE UserGoesOn /\ ~Refreshed /\ ~Loaded /\ ~DetCharacterizeStarted
    <3>1. UNCHANGED <<calibrationState, calibData>>
      BY <2>7
      DEF UserGoesOn, Awake, Take, TimeOut, DCOffsetAccepted, DCOffsetWaited, DCOffsetTimeOut,
          DCOffsetRead, DetCharacterizeConfigured, Done, Calibrated, detector
    <3>2. CASE Asks \/ GoesOn
      BY <2>2, <3>1, <3>2 DEF Asks, GoesOn, DataKept, IsAnswer
    <3>3. CASE Takes
      BY <3>1, <3>3 DEF Takes, DataKept, NoMessage
    <3>4. CASE WaitsOn
      BY <3>1, <3>4 DEF WaitsOn, DataKept, NoMessage
    <3> QED
      BY <2>1, <3>2, <3>3, <3>4
  <2> QED
    BY <1>1, <2>3, <2>4, <2>5, <2>6, <2>7 DEF UserStep
<1>2. CASE DeviceStep \/ Read
  <2>1. UNCHANGED <<user, response, detector>>
    BY <1>2
    DEF DeviceStep, DeviceAnswers, DeviceRefuses, DeviceBusy, DeviceFinishes, DeviceReports, Read
  <2> QED
    BY <2>1 DEF DataKept, Waiting, user, response, detector
<1>3. CASE HandlerStep
  <2>1. UNCHANGED user /\ ~HandleError
    <3>1. K(1) # "error"
      BY <1>3, Handled DEF NoErrors, Shrinks
    <3> QED
      BY <1>3, <3>1, Handled
  <2>2. /\ calibrationState' = "Ready" => calibrationState = "Ready"
        /\ calibData => calibData'
        /\ slot'.type = "calibration" => slot.type = "calibration" \/ calibData'
    <3>1. CASE HandleAnswer
      BY <3>1 DEF HandleAnswer, Respond
    <3>2. CASE HandleDCOffset
      BY <3>2 DEF HandleDCOffset, Respond, Handles
    <3>3. CASE HandleProgress
      BY <3>3 DEF HandleProgress, detector, response
    <3>4. CASE HandleState
      <4>1. calibrationState' = calibrationState \/ calibrationState' = "NeedRefresh"
        BY <3>4 DEF HandleState, CalibrationAfter
      <4> QED
        BY <3>4, <4>1 DEF HandleState, response
    <3> QED
      BY <1>3, <2>1, <3>1, <3>2, <3>3, <3>4 DEF HandlerStep
  <2> QED
    BY <2>1, <2>2 DEF DataKept, Waiting, user
<1> QED
  BY <1>1, <1>2, <1>3 DEF CalNext, UserStep, ReceiverStep, HandlerStep

LEMMA LoadsStep ==
  ASSUME Calm
  PROVE  Loads'
<1> USE DEF Calm, CalmInv
<1>1. CASE UserBegins
  <2>1. PICK c : Begin(c)
    BY <1>1
    DEF UserBegins, CalculateDCOffset, GetDCOffset, DetCharacterizeStart, DetCharacterizeStop,
        GetCalibrated, LoadChanData
  <2>2. calls' # 0 /\ UNCHANGED device
    BY <1>1, <2>1, UserLeaves DEF Begin, CalTypeOK, BoxTypes, UserStep, UserFrame
  <2>3. ASSUME NEW inFile \in BOOLEAN, LoadChanData(inFile), In("loaded")'
        PROVE  calibData' /\ fromFile' /\ device = "ready" /\ pending' # << >>
    <3>1. inFile /\ calls = 0
      BY <2>3 DEF LoadChanData, In, Waiting
    <3>2. pending' = Append(pending, "setCalibration")
      BY <2>3, <3>1 DEF LoadChanData, Ask
    <3>3. pending' # << >>
      BY <3>2 DEF CalTypeOK, BoxTypes
    <3> QED
      BY <2>3, <3>1, <3>3 DEF LoadChanData, Loads
  <2>4. (\A inFile \in BOOLEAN : ~LoadChanData(inFile)) => ~In("loaded")'
    BY <1>1
    DEF UserBegins, CalculateDCOffset, GetDCOffset, DetCharacterizeStart, DetCharacterizeStop,
        GetCalibrated, In, Waiting, Ask
  <2> QED
    BY <2>2, <2>3, <2>4 DEF Loads
<1>2. CASE UserGoesOn
  <2>1. UNCHANGED <<device, calibrated>>
    BY <1>2, UserLeaves DEF UserStep, UserFrame
  <2>2. calls' = 0 => FALSE
    <3>1. UNCHANGED calls
      BY <1>2, CalmStays
      DEF UserGoesOn, Awake, Take, DCOffsetAccepted, DCOffsetWaited, DCOffsetTimeOut, DCOffsetRead,
          DetCharacterizeConfigured, DetCharacterizeStarted, Done, Refreshed, Calibrated, Loaded,
          history
    <3>2. pc # "idle"
      BY <1>2
      DEF UserGoesOn, Awake, Take, TimeOut, DCOffsetAccepted, DCOffsetWaited, DCOffsetTimeOut,
          DCOffsetRead, DetCharacterizeConfigured, DetCharacterizeStarted, Done, Refreshed,
          Calibrated,
          Loaded
    <3> QED
      BY <3>1, <3>2, Idle DEF Loads
  <2>3. CASE Awake \/ Take
    <3>1. UNCHANGED <<calibData, fromFile, pending>> /\ (In("loaded")' => In("loaded"))
      BY <2>3 DEF Awake, Take, GoOn, In, Waiting, detector, box, history
    <3> QED
      BY <2>1, <2>2, <3>1 DEF Loads
  <2>4. CASE ~Awake /\ ~Take
    <3>1. ~In("loaded")'
      BY <1>2, <2>4, CalmStays
      DEF UserGoesOn, DCOffsetAccepted, DCOffsetWaited, DCOffsetTimeOut, DCOffsetRead,
          DetCharacterizeConfigured, DetCharacterizeStarted, Done, Refreshed, Calibrated, Loaded,
          In, Waiting, Ask, Return
    <3> QED
      BY <2>2, <3>1 DEF Loads
  <2> QED
    BY <2>3, <2>4
<1>3. CASE DeviceAnswers
  <2>1. Waiting /\ UNCHANGED <<calls, calibData, fromFile, pc, after>>
    BY <1>3, Answered DEF history, detector, user
  <2>2. calls # 0
    BY <2>1, Idle DEF Loads
  <2>3. In("loaded")' => In("loaded") /\ after = "loaded"
    BY <2>1 DEF In, Waiting
  <2>4. after = "loaded" => device' = "ready" /\ calibrated' = TRUE
    BY <1>3, Answered
  <2> QED
    BY <2>1, <2>2, <2>3, <2>4 DEF Loads
<1>4. CASE DeviceFinishes
  <2>1. device # "ready" /\ UNCHANGED <<calls, pc, after>>
    BY <1>4, Finished DEF history, user
  <2> QED
    BY <2>1 DEF Loads, In, Waiting
<1>5. CASE DeviceReports \/ Read \/ HandlerStep
  <2>1. UNCHANGED <<calls, call, pc, after, fromFile, device, calibrated, pending>>
    BY <1>5, Handled, Reported DEF Read, history, user, box
  <2>2. calibData => calibData'
    BY <1>5
    DEF DeviceReports, Read, HandlerStep, HandleAnswer, HandleError, HandleDCOffset,
        HandleProgress,
        HandleState, detector
  <2> QED
    BY <2>1, <2>2 DEF Loads, In, Waiting
<1> QED
  BY <1>1, <1>2, <1>3, <1>4, <1>5, CalmStays DEF CalNext, DeviceStep, ReceiverStep, HandlerStep

(* The end of a characterization stays to be heard of, whatever the user   *)
(* does and the device sends.                                              *)
LEMMA EndingByUser ==
  ASSUME Calm, UserStep, Ending
  PROVE  Ending'
<1> USE DEF Calm
<1>1. device' = device /\ Todo' = Todo /\ \A k : K(k)' = K(k)
  BY UserLeaves DEF UserFrame
<1>2. CASE device = "calibrate"
  BY <1>1, <1>2 DEF Ending
<1>3. ASSUME NEW i \in Todo, EndsNext(i)
      PROVE  EndsNext(i)'
  <2>1. channelState = "calibrate" => channelState' = "calibrate"
    <3>1. CASE DCOffsetAccepted
      <4>1. ~Waiting
        BY <3>1 DEF DCOffsetAccepted, Waiting
      <4>2. dcOffset # "requested"
        BY <1>3, <4>1, RequestAlone DEF EndsNext, IsEnd
      <4> QED
        BY <3>1, <4>2 DEF DCOffsetAccepted, CalculatedState
    <3>2. CASE DetCharacterizeStarted
      BY <3>2 DEF DetCharacterizeStarted
    <3>3. CASE ~DCOffsetAccepted /\ ~DetCharacterizeStarted
      BY <3>3, CalmStays
      DEF UserStep, UserBegins, UserGoesOn, CalculateDCOffset, GetDCOffset, DetCharacterizeStart,
          DetCharacterizeStop, GetCalibrated, LoadChanData, Awake, Take, DCOffsetWaited,
          DCOffsetTimeOut, DCOffsetRead, DetCharacterizeConfigured, Done, Refreshed, Calibrated,
          Loaded,
          detector
    <3> QED
      BY <3>1, <3>2, <3>3
  <2> QED
    BY <1>1, <1>3, <2>1 DEF EndsNext, IsEnd
<1> QED
  BY <1>1, <1>2, <1>3 DEF Ending

LEMMA EndingGrows ==
  ASSUME NEW n \in {1, 2}, Grows(n), UNCHANGED channelState, Ending,
         device = "calibrate" => device' = "calibrate"
  PROVE  Ending'
<1>1. ASSUME NEW i \in Todo, EndsNext(i)
      PROVE  i \in Todo' /\ EndsNext(i)'
  <2>1. i \in Todo' /\ K(i)' = "ready"
    BY <1>1 DEF Grows, EndsNext
  <2>2. \A j \in Todo' : j < i => j \in Todo /\ K(j)' = K(j)
    BY <1>1 DEF Grows
  <2>3. \A j \in Todo' : j < i => ~IsEnd(K(j))'
    BY <1>1, <2>2 DEF EndsNext, IsEnd
  <2>4. channelState' = "calibrate" \/ \E j \in Todo' : j < i /\ K(j)' = "calibrate"
    BY <1>1 DEF EndsNext, Grows
  <2> QED
    BY <2>1, <2>3, <2>4 DEF EndsNext
<1> QED
  BY <1>1 DEF Ending

(* When a characterization ends, its ready state is what the driver hears  *)
(* next of an end, in the state the user or the device has set.            *)
LEMMA EndingComes ==
  ASSUME CalTypeOK, CalmInv, device = "calibrate", call # "detStart", UNCHANGED channelState,
         \/ Grows(1) /\ NextIs("ready")
         \/ Grows(2) /\ NextIs("success") /\ ThenIs("ready")
  PROVE  Ending'
<1> USE DEF CalmInv
<1>1. channelState' = "calibrate"
  BY DEF CharacterizeByHand
<1>2. \A j \in Todo : ~IsEnd(K(j))
  BY FollowedCall DEF CharacterizeOrder
<1>3. CASE Grows(1) /\ NextIs("ready")
  <2>1. PICK i \in Todo' : i = Len(Stream) + 1
    BY <1>3 DEF Grows
  <2>2. K(i)' = "ready"
    BY <1>3, <2>1 DEF NextIs
  <2>3. \A j \in Todo' : j < i => ~IsEnd(K(j))'
    BY <1>2, <1>3, <2>1 DEF Grows, IsEnd
  <2> QED
    BY <1>1, <2>2, <2>3 DEF EndsNext, Ending
<1>4. CASE Grows(2) /\ NextIs("success") /\ ThenIs("ready")
  <2>1. PICK i \in Todo' : i = Len(Stream) + 2
    BY <1>4 DEF Grows
  <2>2. K(i)' = "ready"
    BY <1>4, <2>1 DEF ThenIs
  <2>3. ASSUME NEW j \in Todo', j < i
        PROVE  ~IsEnd(K(j))'
    <3>1. j \in Todo \/ j = Len(Stream) + 1
      BY <1>4, <2>1, <2>3 DEF Grows
    <3> QED
      BY <1>2, <1>4, <3>1 DEF Grows, NextIs, IsEnd
  <2> QED
    BY <1>1, <2>2, <2>3 DEF EndsNext, Ending
<1> QED
  BY <1>3, <1>4

(* Only the ready state itself ends it, and the calibration is then to be  *)
(* refreshed.                                                              *)
LEMMA EndingHandled ==
  ASSUME CalTypeOK, HandlerStep, Ending
  PROVE  Ending' \/ (HandleState /\ calibrationState' = "NeedRefresh")
<1>1. Shrinks /\ UNCHANGED device
  BY Handled DEF box
<1>2. CASE device = "calibrate"
  BY <1>1, <1>2 DEF Ending
<1>3. ASSUME NEW i \in Todo, EndsNext(i), i = 1
      PROVE  HandleState /\ calibrationState' = "NeedRefresh"
  <2>1. K(1) = "ready" /\ channelState = "calibrate"
    BY <1>1, <1>3 DEF EndsNext, Shrinks
  <2>2. HandleState /\ rx.state = "ready"
    BY <2>1, Handled DEF HandlerStep, IsAnswer
  <2> QED
    BY <2>1, <2>2 DEF HandleState, CalibrationAfter
<1>4. ASSUME NEW i \in Todo, EndsNext(i), i # 1
      PROVE  Ending'
  <2>1. PICK h \in Todo' : h = i - 1
    BY <1>1, <1>4 DEF Shrinks
  <2>2. h + 1 = i /\ 1 < i /\ 1 \in Todo /\ i \in Nat /\ h \in Nat
    BY <1>1, <1>4, <2>1 DEF Shrinks
  <2>3. K(h)' = "ready"
    BY <1>1, <1>4, <2>2 DEF Shrinks, EndsNext
  <2>4. ASSUME NEW j \in Todo', j < h
        PROVE  ~IsEnd(K(j))'
    <3>1. j + 1 \in Todo /\ K(j)' = K(j + 1) /\ j + 1 < i
      BY <1>1, <2>2, <2>4 DEF Shrinks
    <3> QED
      BY <1>4, <3>1 DEF EndsNext, IsEnd
  <2>5. channelState = "calibrate" \/ K(1) = "calibrate" => channelState' = "calibrate"
    <3>1. CASE HandleState
      <4>1. K(1) = rx.state /\ IsState(K(1)) /\ ~IsEnd(K(1))
        BY <1>4, <2>2, <3>1, Handled DEF EndsNext
      <4> QED
        BY <3>1, <4>1 DEF HandleState, IsState, IsEnd
    <3>2. CASE ~HandleState
      <4>1. K(1) # "calibrate"
        BY <3>2, Handled DEF HandlerStep, IsAnswer
      <4> QED
        BY <3>2, <4>1
        DEF HandlerStep, HandleAnswer, HandleError, HandleDCOffset, HandleProgress, detector
    <3> QED
      BY <3>1, <3>2
  <2>6. ASSUME NEW j \in Todo, j < i, K(j) = "calibrate", j # 1
        PROVE  \E k \in Todo' : k < h /\ K(k)' = "calibrate"
    <3>1. PICK k \in Todo' : k = j - 1
      BY <1>1, <2>6 DEF Shrinks
    <3>2. k + 1 = j /\ k < h
      BY <1>1, <2>2, <2>6, <3>1 DEF Shrinks
    <3> QED
      BY <1>1, <2>6, <3>2 DEF Shrinks
  <2>7. channelState' = "calibrate" \/ \E j \in Todo' : j < h /\ K(j)' = "calibrate"
    BY <1>4, <2>5, <2>6 DEF EndsNext
  <2> QED
    BY <2>3, <2>4, <2>7 DEF EndsNext, Ending
<1> QED
  BY <1>2, <1>3, <1>4 DEF Ending

LEMMA StateKeptStep ==
  ASSUME Calm
  PROVE  StateKept'
<1> USE DEF Calm, CalmInv
<1>0. In("refreshed") => depth > 0
  BY DEF In, CalTypeOK, Places, At, Waiting
<1>1. CASE UserStep
  <2>1. UNCHANGED <<device, calibrated>> /\ (Ending => Ending')
    BY <1>1, UserLeaves, EndingByUser DEF UserFrame
  <2>2. CASE DetCharacterizeStarted
    BY <2>1, <2>2 DEF DetCharacterizeStarted, StateKept, NoErrors
  <2>3. ASSUME NEW c \in Refreshers, GetCalibrated(c)
        PROVE  StateKept'
    <3>1. call = "none" /\ ~In("refreshed")
      BY <2>3, Idle DEF GetCalibrated, Begin, In
    <3>2. CASE calibrationState = "NeedRefresh"
      <4>1. calibrationState' = "None" /\ In("refreshed")'
        BY <2>3, <3>2 DEF GetCalibrated, Ask, In, Waiting
      <4> QED
        BY <2>1, <4>1 DEF StateKept
    <3>3. CASE calibrationState # "NeedRefresh"
      <4>1. UNCHANGED <<calibrationState, fromFile>>
        BY <2>3, <3>3 DEF GetCalibrated
      <4> QED
        BY <2>1, <3>1, <4>1 DEF StateKept
    <3> QED
      BY <3>2, <3>3
  <2>4. ASSUME NEW inFile \in BOOLEAN, LoadChanData(inFile)
        PROVE  StateKept'
    BY <2>1, <2>4 DEF LoadChanData, StateKept
  <2>5. CASE Loaded
    <3>1. calibrated
      BY <2>5 DEF Loaded, Loads, In, Waiting, Conversation
    <3> QED
      BY <2>1, <2>5, <3>1 DEF Loaded, StateKept
  <2>6. CASE Refreshed
    <3>1. calibrationState' = RefreshedBy(answer.calibrated) /\ Reads(answer)
      BY <2>6 DEF Refreshed, NoErrors, ReadsKept
    <3> QED
      BY <2>1, <3>1 DEF RefreshedBy, Reads, StateKept
  <2>7. CASE Awake \/ Take \/ DetCharacterizeConfigured
    <3>1. UNCHANGED <<calibrationState, fromFile, call>>
      BY <2>7 DEF Awake, Take, GoOn, DetCharacterizeConfigured, NoErrors, detector, history
    <3>2. In("refreshed") => In("refreshed")'
      BY <2>7 DEF Awake, Take, GoOn, DetCharacterizeConfigured, In, Waiting
    <3> QED
      BY <2>1, <3>1, <3>2 DEF StateKept
  <2>8. CASE CalculateDCOffset \/ GetDCOffset \/ DetCharacterizeStart \/ DetCharacterizeStop
    <3>1. call = "none" /\ ~In("refreshed")
      BY <2>8, Idle
      DEF CalculateDCOffset, GetDCOffset, DetCharacterizeStart, DetCharacterizeStop, Begin, In
    <3>2. UNCHANGED <<calibrationState, fromFile>>
      BY <2>8
      DEF CalculateDCOffset, GetDCOffset, DetCharacterizeStart, DetCharacterizeStop, detector
    <3> QED
      BY <2>1, <3>1, <3>2 DEF StateKept
  <2>9. CASE DCOffsetAccepted \/ DCOffsetWaited \/ DCOffsetTimeOut \/ DCOffsetRead \/ Done
            \/ Calibrated
    <3>1. call # "detStart" /\ ~In("refreshed")
      BY <2>9
      DEF DCOffsetAccepted, DCOffsetWaited, DCOffsetTimeOut, DCOffsetRead, Done, Calibrated,
          CalTypeOK,
          Places, At, In, Waiting, Refreshers
    <3>2. UNCHANGED <<calibrationState, fromFile>>
      BY <2>9
      DEF DCOffsetAccepted, DCOffsetWaited, DCOffsetTimeOut, DCOffsetRead, Done, Calibrated,
          detector,
          history
    <3> QED
      BY <2>1, <3>1, <3>2 DEF StateKept
  <2> QED
    BY <1>1, <2>2, <2>3, <2>4, <2>5, <2>6, <2>7, <2>8, <2>9, CalmStays
    DEF UserStep, UserBegins, UserGoesOn, Refreshers
<1>2. CASE DeviceAnswers
  <2>1. /\ UNCHANGED <<call, calibrationState, fromFile, channelState, In("refreshed")>>
        /\ Waiting /\ IsAnswer(want) /\ NextIs(want)
    BY <1>2, Answered DEF user, detector, history, In, Waiting
  <2>2. CASE /\ UNCHANGED <<device, calibrated>> /\ Grows(1)
    <3>1. Ending => Ending'
      BY <2>1, <2>2, EndingGrows
    <3> QED
      BY <2>1, <2>2, <3>1 DEF StateKept
  <2>3. CASE device = "ready" /\ device' = "dcOffset" /\ UNCHANGED calibrated /\ Grows(1)
    <3>1. Ending => Ending'
      BY <2>1, <2>3, EndingGrows
    <3> QED
      BY <2>1, <2>3, <3>1 DEF StateKept
  <2>4. CASE after = "characterizing" /\ device' = "calibrate" /\ calibrated' = FALSE
    <3>1. call = "detStart"
      BY <2>1, <2>4 DEF CalTypeOK, Places, At, Waiting
    <3> QED
      BY <2>1, <2>4, <3>1 DEF StateKept
  <2>5. CASE /\ after = "done" /\ device = "calibrate" /\ device' = "ready"
             /\ calibrated' \in BOOLEAN /\ Grows(2) /\ ThenIs("ready")
    <3>1. call # "detStart" /\ want = "success"
      BY <2>1, <2>5 DEF CalTypeOK, Places, At, Waiting
    <3>2. Ending'
      BY <2>1, <2>5, <3>1, EndingComes
    <3>3. calibrationState # "Ready"
      BY <2>5, <3>1 DEF StateKept
    <3> QED
      BY <2>1, <2>5, <3>2, <3>3 DEF StateKept
  <2>6. CASE /\ after = "loaded" /\ device = "ready" /\ UNCHANGED device /\ calibrated' = TRUE
    <3>1. fromFile
      BY <2>1, <2>6 DEF Loads, In
    <3> QED
      BY <2>1, <2>6, <3>1 DEF StateKept
  <2> QED
    BY <1>2, Answered, <2>2, <2>3, <2>4, <2>5, <2>6
<1>3. CASE DeviceFinishes
  <2>1. device' = "ready"
          /\ UNCHANGED <<call, calibrationState, fromFile, channelState, In("refreshed")>>
    BY <1>3, Finished DEF user, detector, history, In, Waiting
  <2>2. CASE device = "dcOffset"
    <3>1. UNCHANGED calibrated /\ Grows(2)
      BY <1>3, <2>2, Finished
    <3>2. Ending => Ending'
      BY <2>1, <2>2, <3>1, EndingGrows
    <3> QED
      BY <2>1, <2>2, <3>1, <3>2 DEF StateKept
  <2>3. CASE device # "dcOffset"
    <3>1. device = "calibrate" /\ call # "detStart" /\ Grows(1) /\ NextIs("ready")
      BY <1>3, <2>3, Finished
    <3>2. Ending'
      BY <2>1, <3>1, EndingComes
    <3> QED
      BY <2>1, <3>1, <3>2 DEF StateKept
  <2> QED
    BY <2>2, <2>3
<1>4. CASE DeviceReports
  <2>1. /\ UNCHANGED <<call, calibrationState, fromFile, channelState, In("refreshed")>>
        /\ UNCHANGED <<device, calibrated>> /\ Grows(1)
    BY <1>4, Reported DEF user, detector, box, In, Waiting
  <2>2. Ending => Ending'
    BY <2>1, EndingGrows
  <2> QED
    BY <2>1, <2>2 DEF StateKept
<1>5. CASE Read
  <2>1. /\ Stream' = Stream
        /\ UNCHANGED <<call, calibrationState, fromFile, channelState, In("refreshed"), device, calibrated>>
    BY <1>5, Reading DEF CalTypeOK, Read, user, detector, box, history, In, Waiting
  <2>2. Ending => Ending'
    BY <2>1 DEF Ending, EndsNext, Todo, K
  <2> QED
    BY <2>1, <2>2 DEF StateKept
<1>6. CASE HandlerStep
  <2>1. UNCHANGED <<call, fromFile, In("refreshed"), device, calibrated>>
    BY <1>6, Handled DEF user, box, history, In, Waiting
  <2>2. calibrationState' = calibrationState \/ calibrationState' = "NeedRefresh"
    BY <1>6
    DEF HandlerStep, HandleAnswer, HandleError, HandleDCOffset, HandleProgress, HandleState,
        CalibrationAfter, detector
  <2>3. Ending => Ending' \/ calibrationState' = "NeedRefresh"
    BY <1>6, EndingHandled
  <2> QED
    BY <2>1, <2>2, <2>3 DEF StateKept
<1> QED
  BY <1>1, <1>2, <1>3, <1>4, <1>5, <1>6, CalmStays
  DEF CalNext, UserStep, DeviceStep, ReceiverStep, HandlerStep

LEMMA ReadsKeptStep ==
  ASSUME Calm
  PROVE  ReadsKept'
<1> USE DEF Calm, CalmInv
<1>1. CASE UserStep
  <2>1. UNCHANGED <<Stream, Todo, calibrated>> /\ (Ending => Ending') /\ \A i : K(i)' = K(i)
    BY <1>1, UserLeaves, EndingByUser DEF UserFrame
  <2>2. slot' = slot \/ slot'.type # "param"
    <3>1. Asks \/ GoesOn \/ Takes \/ WaitsOn
      BY <1>1, UserMoves, CalmStays DEF NoErrors
    <3> QED
      BY <3>1 DEF Asks, GoesOn, Takes, WaitsOn, NoMessage
  <2>3. ASSUME pc' = "refreshed"
        PROVE  answer'.type = "param" /\ (answer' = slot \/ (answer' = answer /\ pc = "refreshed"))
    <3>1. Take
      BY <1>1, <2>3, CalmStays
      DEF UserStep, UserBegins, UserGoesOn, CalculateDCOffset, GetDCOffset, DetCharacterizeStart,
          DetCharacterizeStop, GetCalibrated, LoadChanData, Awake, DCOffsetAccepted,
          DCOffsetWaited,
          DCOffsetTimeOut, DCOffsetRead, DetCharacterizeConfigured, DetCharacterizeStarted, Done,
          Refreshed, Calibrated, Loaded, Ask, Return
    <3>2. after = "refreshed" /\ answer' = slot /\ slot.type = want /\ Waiting
      BY <2>3, <3>1 DEF Take, GoOn, NoErrors, Waiting
    <3>3. want = "param"
      BY <3>2 DEF CalTypeOK, Places, At, Waiting
    <3> QED
      BY <3>2, <3>3
  <2>4. slot'.type = "param" => slot' = slot
    BY <2>2
  <2> QED
    BY <2>1, <2>3, <2>4 DEF ReadsKept, Reads
<1>2. CASE DeviceAnswers
  <2>1. /\ UNCHANGED <<pc, slot>> /\ Waiting /\ ~IsAnswer(slot.type)
        /\ \A i \in Todo : ~IsAnswer(K(i))
    BY <1>2, Answered DEF user, response
  <2>2. ASSUME NEW i \in Todo', K(i)' = "param"
        PROVE  Reads(Stream[i])'
    <3>1. i = Len(Stream) + 1 /\ want = "param"
      BY <1>2, <2>1, <2>2, AnsweredKinds DEF IsState, IsAnswer
    <3>2. after = "refreshed"
      BY <2>1, <3>1 DEF CalTypeOK, Places, At, Waiting
    <3>3. calibrated' = calibrated /\ Stream'[i].calibrated = calibrated
      BY <1>2, <2>2, <3>1, <3>2, Answered
    <3> QED
      BY <3>3 DEF Reads
  <2> QED
    BY <2>1, <2>2 DEF ReadsKept, Waiting, IsAnswer
<1>3. CASE DeviceFinishes
  <2>1. UNCHANGED <<pc, slot, answer, channelState, call>> /\ device' = "ready"
    BY <1>3, Finished DEF user, response, detector
  <2>2. \A i \in Todo' : K(i)' = "param" => i \in Todo /\ K(i) = "param" /\ Stream'[i] = Stream[i]
    BY <1>3, Finished DEF Grows, NextIs, ThenIs
  <2>3. CASE device = "dcOffset"
    <3>1. UNCHANGED calibrated /\ Grows(2)
      BY <1>3, <2>3, Finished
    <3>2. Ending => Ending'
      BY <2>1, <2>3, <3>1, EndingGrows
    <3> QED
      BY <2>1, <2>2, <3>1, <3>2 DEF ReadsKept, Reads
  <2>4. CASE device # "dcOffset"
    <3>1. device = "calibrate" /\ call # "detStart" /\ Grows(1) /\ NextIs("ready")
      BY <1>3, <2>4, Finished
    <3>2. Ending' /\ ~calibrated
      BY <2>1, <3>1, EndingComes DEF StateKept
    <3> QED
      BY <2>1, <2>2, <3>2 DEF ReadsKept, Reads
  <2> QED
    BY <2>3, <2>4
<1>4. CASE DeviceReports
  <2>1. UNCHANGED <<pc, slot, answer, channelState, device, calibrated>> /\ Grows(1)
          /\ NextIs("progress")
    BY <1>4, Reported DEF user, response, detector, box
  <2>2. \A i \in Todo' : K(i)' = "param" => i \in Todo /\ K(i) = "param" /\ Stream'[i] = Stream[i]
    BY <2>1 DEF Grows, NextIs
  <2>3. Ending => Ending'
    BY <2>1, EndingGrows
  <2> QED
    BY <2>1, <2>2, <2>3 DEF ReadsKept, Reads
<1>5. CASE Read
  <2>1. Stream' = Stream /\ UNCHANGED <<pc, slot, answer, channelState, device, calibrated>>
    BY <1>5, Reading DEF CalTypeOK, Read, user, response, detector, box
  <2>2. (Ending => Ending') /\ Todo' = Todo /\ \A i : K(i)' = K(i)
    BY <2>1 DEF Ending, EndsNext, Todo, K
  <2> QED
    BY <2>1, <2>2 DEF ReadsKept, Reads
<1>6. CASE HandlerStep
  <2>1. Shrinks /\ UNCHANGED <<pc, answer, after, depth, calibrated>> /\ ~HandleError
    BY <1>6, Handled DEF user, box, NoErrors, Shrinks
  <2>2. ASSUME \/ pc = "refreshed" \/ slot.type = "param" \/ \E i \in Todo : K(i) = "param"
        PROVE  Ending => Ending'
    <3>1. pc = "refreshed" \/ (Waiting /\ want = "param")
      BY <2>2 DEF Conversation, IsAnswer
    <3>2. depth \in 1 .. 2
      BY <3>1 DEF CalTypeOK, Places, At, Waiting
    <3>3. ~HandleState
      BY <1>6, <3>2, Handled
    <3> QED
      BY <1>6, <3>3, EndingHandled
  <2>3. ASSUME NEW i \in Todo', K(i)' = "param"
        PROVE  i + 1 \in Todo /\ K(i + 1) = "param" /\ Stream'[i] = Stream[i + 1]
    BY <2>1, <2>3 DEF Shrinks
  <2>4. ASSUME slot'.type = "param"
        PROVE  slot' = slot \/ (slot' = Stream[1] /\ 1 \in Todo /\ K(1) = "param")
    <3>1. CASE HandleAnswer
      BY <1>6, <2>1, <2>4, <3>1, Handled DEF HandleAnswer, Respond, Shrinks
    <3>2. CASE HandleDCOffset
      BY <2>4, <3>2 DEF HandleDCOffset, Respond, Handles
    <3>3. CASE HandleProgress \/ HandleState
      BY <3>3 DEF HandleProgress, HandleState, response
    <3> QED
      BY <1>6, <2>1, <3>1, <3>2, <3>3 DEF HandlerStep
  <2>5. ASSUME pc' = "refreshed"
        PROVE  answer'.type = "param" /\ Reads(answer)'
    BY <2>1, <2>2, <2>5 DEF ReadsKept, Reads
  <2>6. ASSUME slot'.type = "param"
        PROVE  Reads(slot)'
    BY <2>1, <2>2, <2>4, <2>6 DEF ReadsKept, Reads
  <2>7. ASSUME NEW i \in Todo', K(i)' = "param"
        PROVE  Reads(Stream[i])'
    BY <2>1, <2>2, <2>3, <2>7 DEF ReadsKept, Reads
  <2> QED
    BY <2>5, <2>6, <2>7 DEF ReadsKept
<1> QED
  BY <1>1, <1>2, <1>3, <1>4, <1>5, <1>6, CalmStays
  DEF CalNext, UserStep, DeviceStep, ReceiverStep, HandlerStep

---------------------------------------------------------------------------
(* The invariant, and what it says of the properties.                      *)

(* Unless a request was refused or timed out, the answer to the user's     *)
(* request is in one place, the stages of the DC offset and of a           *)
(* characterization are handled in order, and what the driver knows of the *)
(* calibration is what the device will be found to have.                   *)
THEOREM CalInvariant == CalSpec => []CalInv
<1>1. CalInit => CalInv
  <2> SUFFICES ASSUME CalInit
               PROVE  CalInv
    OBVIOUS
  <2> USE DEF CalInit
  <2>1. CalTypeOK
    BY DEF CalTypeOK, Places, BoxTypes
  <2>2. Todo = {} /\ ~Waiting /\ NoMessage.type = "none"
    BY DEF Todo, Stream, NoMessage, Waiting
  <2>3. NoErrors /\ Conversation
    BY <2>2 DEF NoErrors, Conversation, IsAnswer
  <2>4. ResultOnce /\ ResultOrder /\ StateByHand /\ AssertionsHold /\ Woken /\ WokenOnce
    BY <2>2
    DEF ResultOnce, ResultOrder, StateByHand, AssertionsHold, Woken, WokenOnce, Outstanding, Has
  <2>5. CharacterizeOrder /\ CharacterizeByHand
    BY <2>2 DEF CharacterizeOrder, CharacterizeByHand, Has, In, Waiting
  <2>6. DataKept /\ Loads /\ StateKept /\ ReadsKept
    BY <2>2 DEF DataKept, Loads, StateKept, ReadsKept, In, Waiting
  <2> QED
    BY <2>1, <2>3, <2>4, <2>5, <2>6 DEF CalInv, CalmInv
<1>2. CalInv /\ [CalNext]_vars => CalInv'
  <2> SUFFICES ASSUME CalInv, [CalNext]_vars
               PROVE  CalInv'
    OBVIOUS
  <2>1. CASE CalNext
    <3>1. CalTypeOK'
      BY <2>1, CalTypesStep DEF CalInv
    <3>2. CASE ~disturbed'
      <4>1. Calm
        BY <2>1, <3>2, CalmStays DEF CalInv, Calm
      <4>2. /\ NoErrors' /\ Conversation'
            /\ ResultOnce' /\ ResultOrder' /\ StateByHand' /\ AssertionsHold' /\ Woken'
                 /\ WokenOnce'
        BY <4>1, NoErrorsStep, ConversationStep, ResultOnceStep, ResultOrderStep, StateByHandStep,
           AssertionsHoldStep, WokenStep, WokenOnceStep
      <4>3. /\ CharacterizeOrder' /\ CharacterizeByHand'
            /\ DataKept' /\ Loads' /\ StateKept' /\ ReadsKept'
        BY <4>1, CharacterizeOrderStep, CharacterizeByHandStep, DataKeptStep, LoadsStep,
           StateKeptStep,
           ReadsKeptStep
      <4> QED
        BY <3>1, <4>2, <4>3 DEF CalInv, CalmInv
    <3> QED
      BY <3>1, <3>2 DEF CalInv
  <2>2. CASE UNCHANGED vars
    <3>1. UNCHANGED <<user, rx, wire, response, detector, box, asserts, history>>
      BY <2>2 DEF vars
    <3>2. CalTypeOK'
      BY <3>1 DEF CalInv, CalTypeOK, Places, At, Waiting, BoxTypes, user, response, box, history
    <3>3. /\ Stream' = Stream /\ Todo' = Todo /\ (\A k : K(k)' = K(k)) /\ \A k : Has(k)' = Has(k)
          /\ Waiting' = Waiting /\ \A l : In(l)' = In(l)
      BY <3>1 DEF Stream, Todo, K, Has, Waiting, In, user
    <3>4. /\ \A j, l : Followed(j, l)' = Followed(j, l)
          /\ \A j, i, l : Accepted(j, i, l)' = Accepted(j, i, l)
          /\ Ending' = Ending /\ Outstanding' = Outstanding /\ ReadyToCome' = ReadyToCome
      BY <3>1, <3>3
      DEF Followed, Accepted, Ending, EndsNext, Outstanding, ReadyToCome, user, detector, box
    <3>5. ASSUME CalmInv
          PROVE  /\ NoErrors' /\ Conversation'
                 /\ ResultOnce' /\ ResultOrder' /\ StateByHand' /\ AssertionsHold' /\ Woken'
                      /\ WokenOnce'
      BY <3>1, <3>3, <3>4, <3>5
      DEF CalmInv, NoErrors, Conversation, ResultOnce, ResultOrder, StateByHand, AssertionsHold,
          Woken,
          WokenOnce, user, response, detector, box
    <3>6. ASSUME CalmInv
          PROVE  /\ CharacterizeOrder' /\ CharacterizeByHand'
                 /\ DataKept' /\ Loads' /\ StateKept' /\ ReadsKept'
      BY <3>1, <3>3, <3>4, <3>6
      DEF CalmInv, CharacterizeOrder, CharacterizeByHand, DataKept, Loads, StateKept, ReadsKept,
          Reads,
          user, response, detector, box, history
    <3> QED
      BY <3>1, <3>2, <3>5, <3>6 DEF CalInv, CalmInv, history
  <2> QED
    BY <2>1, <2>2
<1> QED
  BY <1>1, <1>2, PTL DEF CalSpec

(* Whoever waits for the DC offset in psl__DetGetDCOffset is woken: its    *)
(* event is set, or the ready state that sets it is still to come.  The    *)
(* result always finds its request in dcOffset, the value is read after    *)
(* it, and the calibration data that is saved is there; and no call        *)
(* returns with the detector lock.                                         *)
THEOREM DCOffsetWaitsEnd == CalSpec => []DCOffsetWaitEnds
<1>1. ASSUME CalInv
      PROVE  DCOffsetWaitEnds
  <2> USE <1>1 DEF CalInv
  <2>1. call = "none" => depth = 0
    BY Idle
  <2>2. pc = "dcWait" /\ ~disturbed => asyncEvent \/ (asyncReady /\ ReadyComing)
    BY ReadyStillComing DEF CalmInv, Woken, CalTypeOK
  <2>3. ~disturbed => asserts = {}
    BY DEF CalmInv, AssertionsHold
  <2> QED
    BY <2>1, <2>2, <2>3 DEF DCOffsetWaitEnds
<1> QED
  BY <1>1, CalInvariant, PTL

(* Between calls, a channel in the ready state that the driver takes for   *)
(* calibrated is calibrated, and its calibration data has been received;   *)
(* one whose refreshed state says it is not calibrated is not: whichever   *)
(* of psl__UpdateCalibration and the end of a characterization, by itself  *)
(* or by psl__DetCharacterizeStop, comes first.                            *)
THEOREM CalibrationKnown == CalSpec => []CalibrationCurrent
<1>1. ASSUME CalInv
      PROVE  CalibrationCurrent
  <2> USE <1>1 DEF CalInv
  <2> SUFFICES ASSUME call = "none", channelState = "ready", ~disturbed
               PROVE  /\ calibrationState = "Ready" => calibrated /\ calibData
                      /\ calibrationState = "None" /\ ~fromFile => ~calibrated
    BY DEF CalibrationCurrent
  <2>1. CalmInv /\ CalTypeOK /\ ~Waiting /\ pc = "idle"
    BY Idle
  <2>2. calibrationState = "Ready" => calibrated /\ calibData
    BY <2>1 DEF CalmInv, StateKept, DataKept
  <2>3. device # "calibrate" /\ ~Has("calibrate")
    BY <2>1 DEF CalmInv, CharacterizeByHand
  <2>4. ~Ending /\ ~In("refreshed")
    BY <2>1, <2>3 DEF Ending, EndsNext, Has, In
  <2> QED
    BY <2>1, <2>2, <2>4 DEF CalmInv, StateKept
<1> QED
  BY <1>1, CalInvariant, PTL
===========================================================================
