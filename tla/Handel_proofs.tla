---------------------------- MODULE Handel_proofs ---------------------------
(***************************************************************************)
(* Proofs about what the calls of Handel set up and take down.  The life   *)
(* of a module: what the thread uses was not freed, every update finds its *)
(* detector, and a module that has left the list leaves no structure, no   *)
(* connection and no thread.                                               *)
(* The firmware sets, for any names, numbers, peaking times and lengths of *)
(* the lists: each set has the firmware the user gave it, however it was   *)
(* sorted, and validation is exact, but for sets mixed with one another.   *)
(***************************************************************************)
EXTENDS ModuleLifecycle, FirmwareSets, SequenceTheorems, FiniteSetTheorems,
        WellFoundedInduction, TLAPS

---------------------------------------------------------------------------
(* The life of a module.                                                   *)

(* What travels: the device's messages, the user's requests.               *)
Responses == {"state", "success", "details", "error"}
Message ==
  [type : {"state"}, ready : BOOLEAN] \cup [type : {"success", "details", "error"}]
    \cup [type : {"data", "update"}, channel : Channels]
Request == [req : {"state", "details", "stop"}, channel : Channels]
             \cup [req : {"monitor"}, channels : SUBSET Channels]
Thread  == [pc : {"none", "created", "reading", "handling", "ended"},
            msg : Message \cup {NoMessage}, found : BOOLEAN]

(* Where the user is in a call, and what a transaction goes on with.       *)
SetupSteps == {"refreshed", "stopped", "features", "monitored"}
SetupFails == {"refreshedFails", "stoppedFails", "featuresFails", "monitoredFails"}
Busy       == {"await", "unmonitored", "unmonitoredFails"} \cup SetupSteps \cup SetupFails
EndSteps   == {"endChannels", "unmonitored", "unmonitoredFails"}
Steps ==
  \/ call = "none" /\ pc = "idle"
  \/ call = "aborted" /\ pc = "aborted"
  \/ call = "start" /\ pc \in {"connect", "receiver", "setup"} \cup SetupSteps \cup SetupFails
  \/ call = "start" /\ pc = "await" /\ after \in SetupSteps
  \/ call = "exit" /\ pc \in {"endModule", "stopping"} \cup EndSteps
  \/ call = "end" /\ pc \in {"endDetectors"} \cup EndSteps
  \/ call \in {"exit", "end"} /\ pc = "await" /\ after = "unmonitored"

MemoryTypes ==
  /\ starts \in Nat /\ setups \in 0..MaxSetups
  /\ module \in [listed : BOOLEAN, psl : BOOLEAN, pslData : {0} \cup Gens, ch : BOOLEAN]
  /\ heap \subseteq Gens /\ chan \in [Channels -> BOOLEAN]
  /\ holds \subseteq Channels /\ leaked \subseteq {"run", "stream"}
ThreadTypes ==
  /\ active \in [Gens -> BOOLEAN] /\ running \in [Gens -> BOOLEAN]
  /\ rx \in [Gens -> Thread] /\ cancelled \subseteq Gens
  /\ link \in [Gens -> {"none", "open", "lost", "closed"}] /\ wire \in [Gens -> Seq(Message)]
RequestTypes ==
  /\ todo \subseteq Channels /\ channelActive \subseteq Channels
  /\ pending \in Seq(Request) /\ monitored \subseteq Channels /\ runs \subseteq Channels
UserTypes ==
  /\ Steps /\ (pc \in Busy => todo # {}) /\ sendReady \in BOOLEAN
  /\ slot \in Message \cup {NoMessage} /\ sendStatus \in BOOLEAN /\ sendEvent \in BOOLEAN
  /\ faults \in Nat /\ slow \in Nat /\ losses \in Nat /\ data \in Nat

LifeTypeOK == MemoryTypes /\ ThreadTypes /\ RequestTypes /\ UserTypes

---------------------------------------------------------------------------
(* What is allocated and what the thread of each generation may still do.  *)

Live == {"created", "reading", "handling"}
NoDetectors == \A c \in Channels : ~chan[c]

(* One module is allocated, or none; those of the past have no connection. *)
OneModule ==
  /\ heap = IF current = 0 THEN {} ELSE {current}
  /\ current <= setups
  /\ cancelled \subseteq 1..setups /\ current \notin cancelled
  /\ \A g \in Gens : g > setups => ~running[g] /\ rx[g].pc = "none"
  /\ \A g \in Gens : g # current => link[g] # "open"
  /\ current # 0 => module.listed /\ module.psl /\ (active[current] \/ pc = "stopping")

(* Where the user needs the module.                                        *)
InModule ==
  /\ pc \in {"receiver", "setup", "endModule", "stopping"} \cup Busy => current # 0
  /\ pc = "endChannels" /\ todo # {} => current # 0
  /\ pc = "connect" => module.listed /\ module.psl /\ current = 0 /\ setups < MaxSetups

DetectorsOfModule ==
  /\ current = 0 \/ pc \in {"receiver", "endModule", "stopping"} => NoDetectors
  /\ call = "exit" /\ pc \notin {"endModule", "stopping"}
       => {c \in Channels : chan[c]} \subseteq todo

(* A thread of the past is not under way, or it was destroyed; if no wait  *)
(* ran out, it has ended.                                                  *)
ThreadsOfModule ==
  /\ \A g \in Gens : running[g] => rx[g].pc \notin {"none", "created"}
  /\ \A g \in Gens : rx[g].pc \in {"reading", "handling"} => running[g]
  /\ current # 0 => rx[current].pc # "none"
  /\ current # 0 /\ pc # "receiver" => rx[current].pc # "created"
  /\ \A g \in Gens : g # current => rx[g].pc \notin Live \/ g \in cancelled
  /\ slow = 0 => "module" \notin touched /\ \A g \in Gens : g # current => rx[g].pc \notin Live

MemoryInv == OneModule /\ InModule /\ DetectorsOfModule /\ ThreadsOfModule

---------------------------------------------------------------------------
(* The conversation, as long as no request failed and no connection was    *)
(* lost: who hears of a channel, and where the response is that the user   *)
(* waits for.                                                              *)

stream == wire[current]
reader == rx[current]

ResponseIn(w)  == \E i \in DOMAIN w : w[i].type \in Responses
UpdateOf(m, c) == m.type = "update" /\ m.channel = c
UpdateIn(w, c) == \E i \in DOMAIN w : UpdateOf(w[i], c)
HandlesResponse == reader.pc = "handling" /\ reader.msg.type \in Responses
ResponseOf(req) ==
  CASE req = "state" -> "state" [] req = "details" -> "details" [] OTHER -> "success"

(* The channels somebody still tells of.                                   *)
Reported(c) ==
  \/ c \in channelActive \cup monitored
  \/ \E i \in DOMAIN pending : pending[i].req = "monitor" /\ c \in pending[i].channels
  \/ UpdateIn(stream, c)

(* The receiver is there, and every request succeeded.                     *)
ReceiverServes ==
  /\ link[current] = "open" /\ sendStatus
  /\ pc # "stopping" => reader.pc \in Live
  /\ pc \notin {"receiver", "stopping"} => sendReady
  /\ pc \notin {"unmonitoredFails"} \cup SetupFails

(* A channel anybody tells of has its detector, and the thread found it.   *)
DetectorsReported ==
  /\ \A c \in Channels : Reported(c) => chan[c]
  /\ reader.pc = "handling" /\ reader.msg.type = "update" => reader.found
  /\ reader.pc = "handling" /\ reader.found
       => reader.msg.type \in {"update", "data"} /\ chan[reader.msg.channel]

Ended == First(todo)
EndsChannel == pc = "unmonitored" \/ (pc = "await" /\ after = "unmonitored")

(* The four places of a response.                                          *)
Asked ==
  /\ \E r \in Request : /\ pending = <<r>> /\ ResponseOf(r.req) = want
                        /\ EndsChannel => r.req = "monitor" /\ Ended \notin r.channels
  /\ ~ResponseIn(stream) /\ ~HandlesResponse /\ ~sendEvent
Sent ==
  /\ pending = << >> /\ ~HandlesResponse /\ ~sendEvent
  /\ \E k \in DOMAIN stream :
       /\ stream[k].type = want
       /\ \A i \in DOMAIN stream : i # k => stream[i].type \notin Responses
       /\ EndsChannel => \A i \in DOMAIN stream : i > k => ~UpdateOf(stream[i], Ended)
  /\ EndsChannel => Ended \notin monitored
Quiet == EndsChannel => Ended \notin monitored /\ ~UpdateIn(stream, Ended)
Handled ==
  /\ pending = << >> /\ ~ResponseIn(stream) /\ ~sendEvent
  /\ reader.pc = "handling" /\ reader.msg.type = want
  /\ Quiet
Posted ==
  /\ pending = << >> /\ ~ResponseIn(stream) /\ ~HandlesResponse
  /\ sendEvent /\ slot.type = want
  /\ Quiet

Conversation ==
  IF pc = "await"
  THEN /\ want \in {"state", "success", "details"}
       /\ Asked \/ Sent \/ Handled \/ Posted
  ELSE /\ pending = << >> /\ ~ResponseIn(stream) /\ ~HandlesResponse /\ ~sendEvent
       /\ Quiet

Converses == Conversation /\ (EndsChannel => Ended \notin channelActive)
Serves    == ReceiverServes /\ DetectorsReported /\ Converses

ProtocolInv ==
  faults + losses = 0 => "detector" \notin touched /\ ~astray /\ (current # 0 => Serves)

LifeInv == LifeTypeOK /\ MemoryInv /\ ProtocolInv

---------------------------------------------------------------------------
(* The least of a set of channels is one of them.                          *)

LEMMA FirstMember ==
  ASSUME NEW s, s \subseteq Nat, s # {}
  PROVE  First(s) \in s
<1>1. PICK x \in s : \A y \in s : <<y, x>> \notin OpToRel(<, Nat)
  BY NatLessThanWellFounded, WFMin
<1>2. ASSUME NEW y \in s
      PROVE  x <= y
  <2>1. <<y, x>> \in OpToRel(<, Nat) <=> y < x
    BY DEF OpToRel
  <2>2. ~(y < x)
    BY <1>1, <2>1, Zenon
  <2> QED
    BY <2>2
<1> QED
  BY <1>2 DEF First

LEMMA FirstIsChannel ==
  ASSUME NEW s, s \subseteq Channels, s # {}
  PROVE  First(s) \in s /\ First(s) \in Channels
BY FirstMember, LifecycleAssumption

---------------------------------------------------------------------------
(* Types.                                                                  *)

USE DEF memory, runMemory, flags, response, thread, device, user, seen, history, current,
        DetectorFreed

LEMMA NewGeneration ==
  ASSUME MemoryTypes, InModule, pc = "connect"
  PROVE  setups + 1 \in Gens /\ setups + 1 \in 0..MaxSetups
BY LifecycleAssumption DEF MemoryTypes, InModule, Gens

LEMMA CurrentGeneration ==
  ASSUME MemoryTypes, current # 0
  PROVE  current \in Gens
BY DEF MemoryTypes

LEMMA MessageTypes ==
  /\ \A b \in BOOLEAN : [type |-> "state", ready |-> b] \in Message
  /\ \A t \in {"success", "details", "error"} : [type |-> t] \in Message
  /\ \A t \in {"data", "update"}, c \in Channels : [type |-> t, channel |-> c] \in Message
BY DEF Message

LEMMA RequestsOf ==
  /\ \A q \in {"state", "details", "stop"}, c \in Channels : [req |-> q, channel |-> c] \in Request
  /\ \A s \in SUBSET Channels : [req |-> "monitor", channels |-> s] \in Request
BY DEF Request

LEMMA SendsTypes ==
  ASSUME ThreadTypes, NEW m \in Message, Sends(m)
  PROVE  wire' \in [Gens -> Seq(Message)]
<1>1. CASE current \in Gens
  <2>1. Append(wire[current], m) \in Seq(Message)
    BY <1>1 DEF ThreadTypes
  <2> QED
    BY <2>1 DEF Sends, ThreadTypes
<1>2. CASE current \notin Gens
  BY <1>2 DEF Sends, ThreadTypes
<1> QED
  BY <1>1, <1>2

LEMMA AskTypes ==
  ASSUME RequestTypes, NEW r \in Request, NEW type, NEW next, Ask(r, type, next)
  PROVE  pending' \in Seq(Request)
<1>1. Append(pending, r) \in Seq(Request)
  BY DEF RequestTypes
<1> QED
  BY <1>1 DEF Ask, RequestTypes

LEMMA MemoryTypesStep ==
  ASSUME LifeTypeOK, InModule, LifeNext
  PROVE  MemoryTypes'
<1> USE DEF LifeTypeOK, MemoryTypes, ThreadTypes, RequestTypes, UserTypes, Return
<1>1. ASSUME NEW valid \in BOOLEAN, StartSystem(valid)
      PROVE  MemoryTypes'
  BY <1>1 DEF StartSystem
<1>2. CASE InitAgain
  BY <1>2 DEF InitAgain, NewModule
<1>3. ASSUME NEW late \in BOOLEAN, Connect(late)
      PROVE  MemoryTypes'
  BY <1>3, NewGeneration DEF Connect
<1>4. CASE ConnectFails
  BY <1>4 DEF ConnectFails, SetupModuleFails
<1>5. CASE ReceiverNotRunning
  BY <1>5 DEF ReceiverNotRunning, FreeModule, SetupModuleFails
<1>6. CASE SetupDetChan
  BY <1>6 DEF SetupDetChan
<1>7. CASE SetupDetChanFails
  BY <1>7 DEF SetupDetChanFails
<1>8. CASE EndDetectors
  BY <1>8 DEF EndDetectors
<1>9. CASE EndDetChan
  BY <1>9 DEF EndDetChan, FreeDetector, Ask
<1>10. CASE EndDetChanFrees
  BY <1>10 DEF EndDetChanFrees, FreeDetector
<1>11. CASE FreeChannels
  <2>1. module' = [module EXCEPT !.ch = FALSE]
            \/ module' = [module EXCEPT !.ch = FALSE, !.listed = FALSE]
    BY <1>11 DEF FreeChannels
  <2>2. module' \in [listed : BOOLEAN, psl : BOOLEAN, pslData : {0} \cup Gens, ch : BOOLEAN]
    BY <2>1
  <2> QED
    BY <1>11, <2>2 DEF FreeChannels
<1>12. CASE EndModule
  BY <1>12 DEF EndModule, FreeModule
<1>13. ASSUME NEW c \in Channels, RunStarts(c)
       PROVE  MemoryTypes'
  BY <1>13 DEF RunStarts
<1> QED
  BY LifeNext, <1>1, <1>2, <1>3, <1>4, <1>5, <1>6, <1>7, <1>8, <1>9, <1>10, <1>11, <1>12, <1>13
  DEF LifeNext, UserCalls, UserGoesOn, Receiver, Device, Exit, EndSystem, Answered, TimeOut,
      ReceiverRuns, Refreshed, SetupDetChanDone, SystemStarted, EndDetectorsAgain,
      ReceiverStop, RxStart, RxRead, RxHandle, RxIdle, RxCancelled, RxUsesFreedModule,
      DeviceAnswers, DeviceRefuses, DeviceSends, ConnectionLost

LEMMA ThreadMoves ==
  ASSUME ThreadTypes, NEW g \in Gens, NEW p \in {"none", "created", "reading", "handling", "ended"}
  PROVE  [rx EXCEPT ![g].pc = p] \in [Gens -> Thread]
BY DEF ThreadTypes, Thread

LEMMA ThreadGoesOnTypes ==
  ASSUME ThreadTypes, NEW g \in Gens, ThreadGoesOn(g), UNCHANGED <<active, cancelled, link, wire>>
  PROVE  ThreadTypes'
<1>1. [NoThread EXCEPT !.pc = "reading"] \in Thread
        /\ [NoThread EXCEPT !.pc = "ended"] \in Thread
  BY DEF Thread, NoThread
<1>2. rx' \in [Gens -> Thread]
  <2>1. CASE active[g]
    BY <1>1, <2>1 DEF ThreadGoesOn, ThreadTypes
  <2>2. CASE ~active[g]
    BY <1>1, <2>2 DEF ThreadGoesOn, ThreadEnds, ThreadTypes
  <2> QED
    BY <2>1, <2>2
<1>3. running' \in [Gens -> BOOLEAN]
  BY DEF ThreadGoesOn, ThreadEnds, ThreadTypes
<1> QED
  BY <1>2, <1>3 DEF ThreadTypes

LEMMA ThreadTypesStep ==
  ASSUME LifeTypeOK, InModule, LifeNext
  PROVE  ThreadTypes'
<1> USE DEF LifeTypeOK, MemoryTypes, ThreadTypes, RequestTypes, UserTypes, Return
<1>1. ASSUME NEW late \in BOOLEAN, Connect(late)
      PROVE  ThreadTypes'
  <2> DEFINE n == setups + 1
  <2>1. n \in Gens
    BY <1>1, NewGeneration DEF Connect
  <2>2. << >> \in Seq(Message) /\ <<[type |-> "success"]>> \in Seq(Message)
    BY MessageTypes
  <2>3. active' \in [Gens -> BOOLEAN] /\ link' \in [Gens -> {"none", "open", "lost", "closed"}]
    BY <1>1 DEF Connect
  <2>4. rx' \in [Gens -> Thread]
    BY <1>1, ZenonT(40) DEF Connect, Thread
  <2>5. wire' \in [Gens -> Seq(Message)]
    BY <1>1, <2>2 DEF Connect
  <2> QED
    BY <1>1, <2>3, <2>4, <2>5 DEF Connect
<1>2. CASE ReceiverNotRunning
  BY <1>2, CurrentGeneration
  DEF ReceiverNotRunning, FreeModule, InModule, Busy, SetupSteps, SetupFails
<1>3. CASE ReceiverStop
  BY <1>3 DEF ReceiverStop
<1>4. CASE EndModule
  BY <1>4, CurrentGeneration DEF EndModule, FreeModule, InModule, Busy, SetupSteps, SetupFails
<1>5. ASSUME NEW g \in Gens, RxStart(g)
      PROVE  ThreadTypes'
  <2>1. /\ rx' = [rx EXCEPT ![g].pc = "reading"] /\ running' = [running EXCEPT ![g] = TRUE]
        /\ UNCHANGED <<active, cancelled, link, wire>>
    BY <1>5 DEF RxStart
  <2>2. rx' \in [Gens -> Thread]
    BY <2>1, ThreadMoves
  <2> QED
    BY <2>1, <2>2
<1>6. ASSUME NEW g \in Gens, RxRead(g)
      PROVE  ThreadTypes'
  BY <1>6 DEF RxRead, Thread
<1>7. ASSUME NEW g \in Gens, RxHandle(g)
      PROVE  ThreadTypes'
  <2>1. ThreadGoesOn(g) /\ UNCHANGED <<active, cancelled, link, wire>>
    BY <1>7 DEF RxHandle
  <2> QED
    BY <2>1, ThreadGoesOnTypes
<1>8. ASSUME NEW g \in Gens, RxIdle(g)
      PROVE  ThreadTypes'
  BY <1>8 DEF RxIdle, Thread, NoThread, ThreadEnds
<1>9. ASSUME NEW g \in Gens, RxCancelled(g)
      PROVE  ThreadTypes'
  BY <1>9 DEF RxCancelled, Thread, NoThread
<1>10. ASSUME NEW g \in Gens, RxUsesFreedModule(g)
      PROVE  ThreadTypes'
  BY <1>10 DEF RxUsesFreedModule, Thread, NoThread
<1>11. CASE DeviceAnswers
  <2>1. ASSUME NEW m \in Message, Sends(m)
        PROVE  wire' \in [Gens -> Seq(Message)]
    BY <2>1, SendsTypes
  <2>2. wire' \in [Gens -> Seq(Message)]
    BY <1>11, <2>1, MessageTypes DEF DeviceAnswers
  <2> QED
    BY <1>11, <2>2 DEF DeviceAnswers
<1>12. CASE DeviceRefuses
  <2>1. wire' \in [Gens -> Seq(Message)]
    BY <1>12, SendsTypes, MessageTypes DEF DeviceRefuses
  <2> QED
    BY <1>12, <2>1 DEF DeviceRefuses
<1>13. ASSUME NEW c \in Channels, DeviceSends(c)
      PROVE  ThreadTypes'
  <2>1. wire' \in [Gens -> Seq(Message)]
    BY <1>13, SendsTypes, MessageTypes DEF DeviceSends
  <2> QED
    BY <1>13, <2>1 DEF DeviceSends
<1>14. CASE ConnectionLost
  BY <1>14 DEF ConnectionLost, Connected
<1> QED
  BY LifeNext, <1>1, <1>2, <1>3, <1>4, <1>5, <1>6, <1>7, <1>8, <1>9, <1>10, <1>11, <1>12, <1>13,
     <1>14
  DEF LifeNext, UserCalls, UserGoesOn, Receiver, Device, StartSystem, Exit, EndSystem, InitAgain,
      RunStarts, Answered, TimeOut, ConnectFails, ReceiverRuns, SetupDetChan, Refreshed,
      SetupDetChanDone, SetupDetChanFails, SystemStarted, EndDetectors, EndDetChan,
      EndDetChanFrees, EndDetectorsAgain, FreeChannels

LEMMA RequestTypesStep ==
  ASSUME LifeTypeOK, InModule, LifeNext
  PROVE  RequestTypes'
<1> USE DEF LifeTypeOK, MemoryTypes, ThreadTypes, RequestTypes, UserTypes, Return
<1>1. CASE ReceiverRuns
  BY <1>1 DEF ReceiverRuns
<1>2. CASE SetupDetChan
  <2> DEFINE c == First(todo)
  <2>1. c \in Channels
    BY <1>2, FirstIsChannel DEF SetupDetChan
  <2> HIDE DEF c
  <2>2. [req |-> "state", channel |-> c] \in Request
    BY <2>1, RequestsOf
  <2>3. pending' \in Seq(Request)
    BY <1>2, <2>2, AskTypes DEF SetupDetChan, c
  <2> QED
    BY <1>2, <2>1, <2>3 DEF SetupDetChan, c
<1>3. CASE Refreshed
  <2>1. First(todo) \in Channels
    BY <1>3, FirstIsChannel DEF Refreshed, Busy, SetupSteps
  <2>2. ASSUME NEW r \in Request, NEW type, NEW next, Ask(r, type, next)
        PROVE  pending' \in Seq(Request)
    BY <2>2, AskTypes
  <2>3. pending' \in Seq(Request)
    BY <1>3, <2>1, <2>2, RequestsOf DEF Refreshed
  <2> QED
    BY <1>3, <2>3 DEF Refreshed
<1>4. CASE SetupDetChanDone
  BY <1>4 DEF SetupDetChanDone
<1>5. CASE Exit
  BY <1>5 DEF Exit
<1>6. CASE EndDetectors
  BY <1>6, FirstIsChannel, LifecycleAssumption DEF EndDetectors
<1>7. CASE EndDetChan
  <2>1. MonitoredAfter(First(todo)) \in SUBSET Channels
    BY DEF MonitoredAfter
  <2>2. CASE running[current]
    <3>1. pending' \in Seq(Request)
      BY <1>7, <2>1, <2>2, RequestsOf, AskTypes DEF EndDetChan
    <3> QED
      BY <1>7, <2>1, <2>2, <3>1 DEF EndDetChan
  <2>3. CASE ~running[current]
    BY <1>7, <2>1, <2>3 DEF EndDetChan, FreeDetector
  <2> QED
    BY <2>2, <2>3
<1>8. CASE EndDetChanFrees
  BY <1>8 DEF EndDetChanFrees, FreeDetector
<1>9. ASSUME NEW late \in BOOLEAN, Connect(late)
      PROVE  RequestTypes'
  BY <1>9 DEF Connect
<1>10. ASSUME NEW c \in Channels, RunStarts(c)
      PROVE  RequestTypes'
  BY <1>10 DEF RunStarts
<1>11. CASE DeviceAnswers
  <2>1. Head(pending) \in Request /\ Tail(pending) \in Seq(Request)
    BY <1>11 DEF DeviceAnswers
  <2>2. Head(pending).req = "monitor" => Head(pending).channels \subseteq Channels
    BY <2>1 DEF Request
  <2> QED
    BY <1>11, <2>1, <2>2 DEF DeviceAnswers
<1>12. CASE DeviceRefuses
  BY <1>12 DEF DeviceRefuses
<1>13. CASE ConnectionLost
  BY <1>13 DEF ConnectionLost
<1> QED
  BY LifeNext, <1>1, <1>2, <1>3, <1>4, <1>5, <1>6, <1>7, <1>8, <1>9, <1>10, <1>11, <1>12, <1>13
  DEF LifeNext, UserCalls, UserGoesOn, Receiver, Device, StartSystem, EndSystem, InitAgain,
      Answered, TimeOut, ConnectFails, ReceiverNotRunning, SetupDetChanFails, SystemStarted,
      EndDetectorsAgain, FreeChannels, ReceiverStop, EndModule, RxStart, RxRead, RxHandle, RxIdle,
      RxCancelled, RxUsesFreedModule, DeviceSends, SetupModuleFails

LEMMA UserTypesStep ==
  ASSUME LifeTypeOK, InModule, LifeNext
  PROVE  UserTypes'
<1> USE DEF LifeTypeOK, MemoryTypes, ThreadTypes, RequestTypes, UserTypes, Return
<1>1. ASSUME NEW valid \in BOOLEAN, StartSystem(valid)
      PROVE  UserTypes'
  BY <1>1 DEF StartSystem, Steps, Busy, SetupSteps, SetupFails, EndSteps
<1>2. CASE Exit
  BY <1>2 DEF Exit, Steps, Busy, SetupSteps, SetupFails, EndSteps
<1>3. CASE EndSystem
  BY <1>3 DEF EndSystem, Steps, Busy, SetupSteps, SetupFails, EndSteps
<1>4. CASE Answered
  <2>1. after \in SetupSteps \cup {"unmonitored"} /\ pc' \in {pc, after, Fails[after]}
    BY <1>4 DEF Answered, Steps, SetupSteps, SetupFails, EndSteps
  <2>2. todo # {} /\ slot' \in {slot, NoMessage} /\ sendEvent' \in BOOLEAN
    BY <1>4 DEF Answered, Busy
  <2>3. Steps'
    BY <1>4, <2>1 DEF Answered, Fails, Steps, SetupSteps, SetupFails, EndSteps
  <2> QED
    BY <1>4, <2>2, <2>3 DEF Answered
<1>5. CASE TimeOut
  BY <1>5 DEF TimeOut, Steps, Busy, SetupSteps, SetupFails, EndSteps, Fails
<1>6. ASSUME NEW late \in BOOLEAN, Connect(late)
      PROVE  UserTypes'
  <2>1. Steps' /\ ~(pc' \in Busy)
    BY <1>6 DEF Connect, Steps, Busy, SetupSteps, SetupFails, EndSteps
  <2>2. faults' \in Nat
    BY <1>6 DEF Connect
  <2> QED
    BY <1>6, <2>1, <2>2 DEF Connect
<1>7. CASE ConnectFails
  BY <1>7 DEF ConnectFails, Steps, Busy, SetupSteps, SetupFails, EndSteps, SetupModuleFails
<1>8. CASE ReceiverRuns
  BY <1>8 DEF ReceiverRuns, Steps, Busy, SetupSteps, SetupFails, EndSteps
<1>9. CASE ReceiverNotRunning
  BY <1>9 DEF ReceiverNotRunning, Steps, Busy, SetupSteps, SetupFails, EndSteps, SetupModuleFails
<1>10. CASE SetupDetChan
  BY <1>10 DEF SetupDetChan, Steps, Busy, SetupSteps, SetupFails, EndSteps, Ask
<1>11. CASE Refreshed
  BY <1>11 DEF Refreshed, Steps, Busy, SetupSteps, SetupFails, EndSteps, Ask
<1>12. CASE SetupDetChanDone
  BY <1>12 DEF SetupDetChanDone, Steps, Busy, SetupSteps, SetupFails, EndSteps
<1>13. CASE SetupDetChanFails
  BY <1>13 DEF SetupDetChanFails, Steps, Busy, SetupSteps, SetupFails, EndSteps
<1>14. CASE SystemStarted
  BY <1>14 DEF SystemStarted, Steps, Busy, SetupSteps, SetupFails, EndSteps
<1>15. CASE EndDetectors
  BY <1>15 DEF EndDetectors, Steps, Busy, SetupSteps, SetupFails, EndSteps
<1>16. CASE EndDetChan
  BY <1>16 DEF EndDetChan, Steps, Busy, SetupSteps, SetupFails, EndSteps, Ask
<1>17. CASE EndDetChanFrees
  BY <1>17 DEF EndDetChanFrees, Steps, Busy, SetupSteps, SetupFails, EndSteps
<1>18. CASE EndDetectorsAgain
  BY <1>18 DEF EndDetectorsAgain, Steps, Busy, SetupSteps, SetupFails, EndSteps
<1>19. CASE FreeChannels
  BY <1>19 DEF FreeChannels, Steps, Busy, SetupSteps, SetupFails, EndSteps
<1>20. CASE ReceiverStop
  BY <1>20 DEF ReceiverStop, Steps, Busy, SetupSteps, SetupFails, EndSteps
<1>21. CASE EndModule
  BY <1>21 DEF EndModule, Steps, Busy, SetupSteps, SetupFails, EndSteps
<1>22. ASSUME NEW g \in Gens, RxRead(g)
      PROVE  UserTypes'
  BY <1>22 DEF RxRead, Steps, Busy, SetupSteps, SetupFails, EndSteps
<1>23. ASSUME NEW g \in Gens, RxHandle(g)
      PROVE  UserTypes'
  BY <1>23
  DEF RxHandle, Steps, Busy, SetupSteps, SetupFails, EndSteps, Post, Message, Thread, NoMessage
<1>24. CASE DeviceAnswers
  BY <1>24 DEF DeviceAnswers, Steps, Busy, SetupSteps, SetupFails, EndSteps
<1>25. CASE DeviceRefuses
  BY <1>25 DEF DeviceRefuses, Steps, Busy, SetupSteps, SetupFails, EndSteps
<1>26. ASSUME NEW c \in Channels, DeviceSends(c)
      PROVE  UserTypes'
  BY <1>26 DEF DeviceSends, Steps, Busy, SetupSteps, SetupFails, EndSteps
<1>27. CASE ConnectionLost
  BY <1>27 DEF ConnectionLost, Steps, Busy, SetupSteps, SetupFails, EndSteps
<1> QED
  BY LifeNext, <1>1, <1>2, <1>3, <1>4, <1>5, <1>6, <1>7, <1>8, <1>9, <1>10, <1>11, <1>12, <1>13,
     <1>14, <1>15, <1>16, <1>17, <1>18, <1>19, <1>20, <1>21, <1>22, <1>23, <1>24, <1>25, <1>26,
     <1>27
  DEF LifeNext, UserCalls, UserGoesOn, Receiver, Device, InitAgain, RunStarts, RxStart, RxIdle,
      RxCancelled, RxUsesFreedModule, Steps, Busy, SetupSteps, SetupFails, EndSteps
LEMMA LifeTypesStep ==
  ASSUME LifeTypeOK, InModule, LifeNext
  PROVE  LifeTypeOK'
BY MemoryTypesStep, ThreadTypesStep, RequestTypesStep, UserTypesStep DEF LifeTypeOK

---------------------------------------------------------------------------
(* What is allocated.                                                      *)

LEMMA ThreadGoesOnInModule ==
  ASSUME ThreadTypes, OneModule, NEW g \in Gens, ThreadGoesOn(g), rx[g].pc = "handling",
         UNCHANGED <<module, heap, setups, cancelled, active, link, pc>>
  PROVE  OneModule'
BY DEF ThreadGoesOn, ThreadEnds, ThreadTypes, OneModule, Gens

LEMMA OneModuleStep ==
  ASSUME LifeTypeOK, MemoryInv, LifeNext
  PROVE  OneModule'
<1> USE DEF LifeTypeOK, MemoryTypes, ThreadTypes, RequestTypes, UserTypes, MemoryInv, OneModule,
            Return, Gens
<1>1. ASSUME NEW valid \in BOOLEAN, StartSystem(valid)
      PROVE  OneModule'
  BY <1>1 DEF StartSystem, Steps, SetupSteps, SetupFails, EndSteps, Busy
<1>2. CASE InitAgain
  BY <1>2 DEF InitAgain, NewModule
<1>3. ASSUME NEW late \in BOOLEAN, Connect(late)
      PROVE  OneModule'
  <2> DEFINE n == setups + 1
  <2>1. n \in Gens /\ current = 0 /\ setups \in Nat
    BY <1>3, NewGeneration DEF Connect, InModule
  <2>2. current' = n /\ setups' = n /\ module'.listed = module.listed /\ module'.psl = module.psl
    BY <1>3 DEF Connect
  <2>3. module.listed /\ module.psl
    BY <1>3 DEF Connect, InModule
  <2> QED
    BY <1>3, <2>1, <2>2, <2>3 DEF Connect
<1>4. CASE ConnectFails
  BY <1>4 DEF ConnectFails, InModule, SetupModuleFails
<1>5. CASE ReceiverNotRunning
  BY <1>5 DEF ReceiverNotRunning, FreeModule, SetupModuleFails, InModule
<1>6. CASE ReceiverRuns
  BY <1>6 DEF ReceiverRuns
<1>7. CASE SetupDetChan
  BY <1>7 DEF SetupDetChan, Ask
<1>8. CASE Refreshed
  BY <1>8 DEF Refreshed, Ask
<1>9. CASE SetupDetChanDone
  BY <1>9 DEF SetupDetChanDone
<1>10. CASE SetupDetChanFails
  BY <1>10 DEF SetupDetChanFails
<1>11. CASE SystemStarted
  BY <1>11 DEF SystemStarted
<1>12. CASE Answered
  BY <1>12 DEF Answered
<1>13. CASE TimeOut
  BY <1>13 DEF TimeOut
<1>14. CASE EndDetChan
  BY <1>14 DEF EndDetChan, Ask
<1>15. CASE EndDetChanFrees
  BY <1>15 DEF EndDetChanFrees
<1>16. CASE Exit
  BY <1>16 DEF Exit, Steps, SetupSteps, SetupFails, EndSteps, Busy
<1>17. CASE EndSystem
  BY <1>17 DEF EndSystem, Steps, SetupSteps, SetupFails, EndSteps, Busy
<1>18. CASE EndDetectorsAgain
  BY <1>18 DEF EndDetectorsAgain
<1>19. CASE EndDetectors
  BY <1>19 DEF EndDetectors
<1>20. CASE FreeChannels
  BY <1>20 DEF FreeChannels, InModule
<1>21. CASE ReceiverStop
  BY <1>21 DEF ReceiverStop
<1>22. CASE EndModule
  BY <1>22 DEF EndModule, FreeModule, InModule
<1>23. ASSUME NEW g \in Gens, RxStart(g)
      PROVE  OneModule'
  BY <1>23 DEF RxStart
<1>24. ASSUME NEW g \in Gens, RxRead(g)
      PROVE  OneModule'
  BY <1>24 DEF RxRead
<1>25. ASSUME NEW g \in Gens, RxHandle(g)
      PROVE  OneModule'
  <2>1. /\ ThreadGoesOn(g) /\ rx[g].pc = "handling"
        /\ UNCHANGED <<module, heap, setups, cancelled, active, link, pc>>
    BY <1>25 DEF RxHandle
  <2> QED
    BY <2>1, ThreadGoesOnInModule
<1>26. ASSUME NEW g \in Gens, RxIdle(g)
      PROVE  OneModule'
  BY <1>26 DEF RxIdle, ThreadEnds
<1>27. ASSUME NEW g \in Gens, RxCancelled(g)
      PROVE  OneModule'
  BY <1>27 DEF RxCancelled
<1>28. ASSUME NEW g \in Gens, RxUsesFreedModule(g)
      PROVE  OneModule'
  BY <1>28 DEF RxUsesFreedModule
<1>29. CASE ConnectionLost
  BY <1>29 DEF ConnectionLost, Connected
<1>30. CASE UNCHANGED <<module, heap, setups, cancelled, running, rx, link, active, pc>>
  BY <1>30
<1> QED
  BY LifeNext, <1>1, <1>2, <1>3, <1>4, <1>5, <1>6, <1>7, <1>8, <1>9, <1>10, <1>11, <1>12, <1>13,
     <1>14, <1>15, <1>16, <1>17, <1>18, <1>19, <1>20, <1>21, <1>22, <1>23, <1>24, <1>25, <1>26,
     <1>27, <1>28, <1>29, <1>30
  DEF LifeNext, UserCalls, UserGoesOn, Receiver, Device, RunStarts, DeviceAnswers, DeviceRefuses,
      DeviceSends

LEMMA InModuleStep ==
  ASSUME LifeTypeOK, MemoryInv, LifeNext
  PROVE  InModule'
<1> USE DEF LifeTypeOK, MemoryTypes, ThreadTypes, RequestTypes, UserTypes, MemoryInv, OneModule,
            Return, Gens, InModule
<1>1. ASSUME NEW valid \in BOOLEAN, StartSystem(valid)
      PROVE  InModule'
  BY <1>1 DEF StartSystem, Steps, SetupSteps, SetupFails, EndSteps, Busy
<1>2. CASE Exit
  BY <1>2 DEF Exit, Steps, SetupSteps, SetupFails, EndSteps, Busy, DetectorsOfModule, NoDetectors
<1>3. CASE EndSystem
  BY <1>3 DEF EndSystem, Steps, SetupSteps, SetupFails, EndSteps, Busy
<1>4. CASE InitAgain
  BY <1>4 DEF InitAgain, Steps, SetupSteps, SetupFails, EndSteps, Busy, NewModule
<1>5. CASE Answered
  BY <1>5 DEF Answered, Steps, SetupSteps, SetupFails, EndSteps, Busy, Fails
<1>6. CASE TimeOut
  BY <1>6 DEF TimeOut, Steps, SetupSteps, SetupFails, EndSteps, Busy, Fails
<1>7. ASSUME NEW late \in BOOLEAN, Connect(late)
      PROVE  InModule'
  BY <1>7 DEF Connect, Steps, SetupSteps, SetupFails, EndSteps, Busy
<1>8. CASE ConnectFails
  BY <1>8 DEF ConnectFails, Steps, SetupSteps, SetupFails, EndSteps, Busy, SetupModuleFails
<1>9. CASE ReceiverRuns
  BY <1>9 DEF ReceiverRuns, Steps, SetupSteps, SetupFails, EndSteps, Busy
<1>10. CASE ReceiverNotRunning
  BY <1>10 DEF ReceiverNotRunning, Steps, SetupSteps, SetupFails, EndSteps, Busy, SetupModuleFails
<1>11. CASE SetupDetChan
  BY <1>11 DEF SetupDetChan, Steps, SetupSteps, SetupFails, EndSteps, Busy, Ask
<1>12. CASE Refreshed
  BY <1>12 DEF Refreshed, Steps, SetupSteps, SetupFails, EndSteps, Busy, Ask
<1>13. CASE SetupDetChanDone
  BY <1>13 DEF SetupDetChanDone, Steps, SetupSteps, SetupFails, EndSteps, Busy
<1>14. CASE SetupDetChanFails
  BY <1>14 DEF SetupDetChanFails, Steps, SetupSteps, SetupFails, EndSteps, Busy
<1>15. CASE SystemStarted
  BY <1>15 DEF SystemStarted, Steps, SetupSteps, SetupFails, EndSteps, Busy
<1>16. CASE EndDetectors
  BY <1>16 DEF EndDetectors, Steps, SetupSteps, SetupFails, EndSteps, Busy
<1>17. CASE EndDetChan
  BY <1>17 DEF EndDetChan, Steps, SetupSteps, SetupFails, EndSteps, Busy, Ask, FreeDetector
<1>18. CASE EndDetChanFrees
  BY <1>18 DEF EndDetChanFrees, Steps, SetupSteps, SetupFails, EndSteps, Busy, FreeDetector
<1>19. CASE EndDetectorsAgain
  BY <1>19 DEF EndDetectorsAgain, Steps, SetupSteps, SetupFails, EndSteps, Busy
<1>20. CASE FreeChannels
  BY <1>20 DEF FreeChannels, Steps, SetupSteps, SetupFails, EndSteps, Busy
<1>21. CASE ReceiverStop
  BY <1>21 DEF ReceiverStop, Steps, SetupSteps, SetupFails, EndSteps, Busy
<1>22. CASE EndModule
  BY <1>22 DEF EndModule, Steps, SetupSteps, SetupFails, EndSteps, Busy
<1>23. CASE UNCHANGED <<module, setups, pc, todo>>
  BY <1>23
<1> QED
  BY LifeNext, <1>1, <1>2, <1>3, <1>4, <1>5, <1>6, <1>7, <1>8, <1>9, <1>10, <1>11, <1>12, <1>13,
     <1>14, <1>15, <1>16, <1>17, <1>18, <1>19, <1>20, <1>21, <1>22, <1>23
  DEF LifeNext, UserCalls, UserGoesOn, Receiver, Device, RunStarts, RxStart, RxRead, RxHandle,
      RxIdle, RxCancelled, RxUsesFreedModule, DeviceAnswers, DeviceRefuses, DeviceSends,
      ConnectionLost

LEMMA DetectorsOfModuleStep ==
  ASSUME LifeTypeOK, MemoryInv, LifeNext
  PROVE  DetectorsOfModule'
<1> USE DEF LifeTypeOK, MemoryTypes, ThreadTypes, RequestTypes, UserTypes, MemoryInv, OneModule,
            Return, Gens, DetectorsOfModule, InModule
<1>1. ASSUME NEW valid \in BOOLEAN, StartSystem(valid)
      PROVE  DetectorsOfModule'
  BY <1>1 DEF StartSystem, Steps, SetupSteps, SetupFails, EndSteps, Busy, NoDetectors
<1>2. CASE Exit
  BY <1>2 DEF Exit, Steps, SetupSteps, SetupFails, EndSteps, Busy, NoDetectors
<1>3. CASE EndSystem
  BY <1>3 DEF EndSystem, Steps, SetupSteps, SetupFails, EndSteps, Busy, NoDetectors
<1>4. CASE InitAgain
  BY <1>4 DEF InitAgain, Steps, SetupSteps, SetupFails, EndSteps, Busy, NewModule, NoDetectors
<1>5. CASE Answered
  BY <1>5 DEF Answered, Steps, SetupSteps, SetupFails, EndSteps, Busy, Fails, NoDetectors
<1>6. CASE TimeOut
  BY <1>6 DEF TimeOut, Steps, SetupSteps, SetupFails, EndSteps, Busy, Fails, NoDetectors
<1>7. ASSUME NEW late \in BOOLEAN, Connect(late)
      PROVE  DetectorsOfModule'
  BY <1>7 DEF Connect, Steps, SetupSteps, SetupFails, EndSteps, Busy, NoDetectors
<1>8. CASE ConnectFails
  BY <1>8
  DEF ConnectFails, Steps, SetupSteps, SetupFails, EndSteps, Busy, SetupModuleFails, NoDetectors
<1>9. CASE ReceiverRuns
  BY <1>9 DEF ReceiverRuns, Steps, SetupSteps, SetupFails, EndSteps, Busy, NoDetectors
<1>10. CASE ReceiverNotRunning
  BY <1>10
  DEF ReceiverNotRunning, Steps, SetupSteps, SetupFails, EndSteps, Busy, SetupModuleFails,
      NoDetectors
<1>11. CASE SetupDetChan
  BY <1>11 DEF SetupDetChan, Steps, SetupSteps, SetupFails, EndSteps, Busy, Ask, NoDetectors
<1>12. CASE Refreshed
  BY <1>12 DEF Refreshed, Steps, SetupSteps, SetupFails, EndSteps, Busy, Ask, NoDetectors
<1>13. CASE SetupDetChanDone
  BY <1>13 DEF SetupDetChanDone, Steps, SetupSteps, SetupFails, EndSteps, Busy, NoDetectors
<1>14. CASE SetupDetChanFails
  BY <1>14 DEF SetupDetChanFails, Steps, SetupSteps, SetupFails, EndSteps, Busy, NoDetectors
<1>15. CASE SystemStarted
  BY <1>15 DEF SystemStarted, Steps, SetupSteps, SetupFails, EndSteps, Busy, NoDetectors
<1>16. CASE EndDetectors
  BY <1>16 DEF EndDetectors, Steps, SetupSteps, SetupFails, EndSteps, Busy, NoDetectors
<1>17. CASE EndDetChan
  BY <1>17, ZenonT(40)
  DEF EndDetChan, Steps, SetupSteps, SetupFails, EndSteps, Busy, Ask, FreeDetector, NoDetectors
<1>18. CASE EndDetChanFrees
  BY <1>18
  DEF EndDetChanFrees, Steps, SetupSteps, SetupFails, EndSteps, Busy, FreeDetector, NoDetectors
<1>19. CASE EndDetectorsAgain
  BY <1>19 DEF EndDetectorsAgain, Steps, SetupSteps, SetupFails, EndSteps, Busy, NoDetectors
<1>20. CASE FreeChannels
  BY <1>20 DEF FreeChannels, Steps, SetupSteps, SetupFails, EndSteps, Busy, NoDetectors
<1>21. CASE ReceiverStop
  BY <1>21 DEF ReceiverStop, Steps, SetupSteps, SetupFails, EndSteps, Busy, NoDetectors
<1>22. CASE EndModule
  BY <1>22 DEF EndModule, Steps, SetupSteps, SetupFails, EndSteps, Busy, NoDetectors
<1>23. CASE UNCHANGED <<module, chan, user>>
  BY <1>23 DEF NoDetectors
<1> QED
  BY LifeNext, <1>1, <1>2, <1>3, <1>4, <1>5, <1>6, <1>7, <1>8, <1>9, <1>10, <1>11, <1>12, <1>13,
     <1>14, <1>15, <1>16, <1>17, <1>18, <1>19, <1>20, <1>21, <1>22, <1>23
  DEF LifeNext, UserCalls, UserGoesOn, Receiver, Device, RunStarts, RxStart, RxRead, RxHandle,
      RxIdle, RxCancelled, RxUsesFreedModule, DeviceAnswers, DeviceRefuses, DeviceSends,
      ConnectionLost

LEMMA ThreadsOfModuleStep ==
  ASSUME LifeTypeOK, MemoryInv, LifeNext
  PROVE  ThreadsOfModule'
<1> USE DEF LifeTypeOK, MemoryTypes, ThreadTypes, RequestTypes, UserTypes, MemoryInv, OneModule,
            Return, Gens, ThreadsOfModule
<1>1. ASSUME NEW valid \in BOOLEAN, StartSystem(valid)
      PROVE  ThreadsOfModule'
  BY <1>1 DEF StartSystem, Steps, SetupSteps, SetupFails, EndSteps, Busy
<1>2. CASE InitAgain
  BY <1>2 DEF InitAgain, NewModule
<1>3. CASE Answered
  BY <1>3 DEF Answered, Steps, SetupSteps, SetupFails, EndSteps, Busy, Fails
<1>4. CASE TimeOut
  BY <1>4 DEF TimeOut, Steps, SetupSteps, SetupFails, EndSteps, Busy, Fails
<1>5. CASE ConnectFails
  BY <1>5 DEF ConnectFails, InModule, SetupModuleFails
<1>6. ASSUME NEW late \in BOOLEAN, Connect(late)
      PROVE  ThreadsOfModule'
  BY <1>6, NewGeneration DEF Connect, InModule, Live
<1>7. CASE ReceiverRuns
  BY <1>7 DEF ReceiverRuns, Live
<1>8. CASE ReceiverNotRunning
  BY <1>8 DEF ReceiverNotRunning, FreeModule, SetupModuleFails, InModule, Live
<1>9. CASE EndModule
  <2>1. current # 0 /\ current \in Gens /\ rx[current].pc \notin {"none", "created"}
    BY <1>9, CurrentGeneration DEF EndModule, InModule, ThreadsOfModule
  <2>2. current' = 0 /\ cancelled' = cancelled \cup {current} /\ UNCHANGED <<rx, running, touched>>
    BY <1>9 DEF EndModule, FreeModule
  <2>3. slow' = 0 => slow = 0 /\ rx[current].pc \notin Live
    <3>1. rx[current].pc \in {"created", "reading", "handling"} => running[current]
      BY <2>1 DEF ThreadsOfModule
    <3> QED
      BY <1>9, <3>1 DEF EndModule, ReceiverStopped, Live
  <2> QED
    BY <2>1, <2>2, <2>3 DEF ThreadsOfModule
<1>10. ASSUME NEW g \in Gens, RxStart(g)
      PROVE  ThreadsOfModule'
  BY <1>10 DEF RxStart, Live
<1>11. ASSUME NEW g \in Gens, RxRead(g)
      PROVE  ThreadsOfModule'
  BY <1>11 DEF RxRead, Live
<1>12. ASSUME NEW g \in Gens, RxHandle(g)
      PROVE  ThreadsOfModule'
  <2>1. g = current /\ g # 0 /\ UNCHANGED <<module, pc, cancelled, slow>>
    BY <1>12 DEF RxHandle
  <2>2. "module" \in touched' => "module" \in touched
    BY <1>12 DEF RxHandle
  <2>3. CASE active[g]
    <3>1. rx' = [rx EXCEPT ![g] = [NoThread EXCEPT !.pc = "reading"]] /\ running' = running
      BY <1>12, <2>3 DEF RxHandle, ThreadGoesOn
    <3> QED
      BY <1>12, <2>1, <2>2, <3>1 DEF RxHandle, ThreadsOfModule, NoThread
  <2>4. CASE ~active[g]
    <3>1. ThreadEnds(g)
      BY <1>12, <2>4 DEF RxHandle, ThreadGoesOn
    <3> QED
      BY <1>12, <2>1, <2>2, <3>1 DEF RxHandle, ThreadEnds, ThreadsOfModule, NoThread
  <2> QED
    BY <2>3, <2>4
<1>13. ASSUME NEW g \in Gens, RxIdle(g)
      PROVE  ThreadsOfModule'
  BY <1>13 DEF RxIdle, ThreadEnds, NoThread, Live
<1>14. ASSUME NEW g \in Gens, RxCancelled(g)
      PROVE  ThreadsOfModule'
  BY <1>14 DEF RxCancelled, Live, NoThread
<1>15. ASSUME NEW g \in Gens, RxUsesFreedModule(g)
      PROVE  ThreadsOfModule'
  BY <1>15 DEF RxUsesFreedModule, Live, NoThread
<1>16. CASE Exit
  BY <1>16 DEF Exit, Steps, SetupSteps, SetupFails, EndSteps, Busy
<1>17. CASE EndSystem
  BY <1>17 DEF EndSystem, Steps, SetupSteps, SetupFails, EndSteps, Busy
<1>18. CASE SetupDetChan
  BY <1>18 DEF SetupDetChan, Ask
<1>19. CASE Refreshed
  BY <1>19 DEF Refreshed, Ask
<1>20. CASE SetupDetChanDone
  BY <1>20 DEF SetupDetChanDone
<1>21. CASE SetupDetChanFails
  BY <1>21 DEF SetupDetChanFails
<1>22. CASE SystemStarted
  BY <1>22 DEF SystemStarted
<1>23. CASE EndDetectors
  BY <1>23 DEF EndDetectors
<1>24. CASE EndDetChan
  BY <1>24 DEF EndDetChan, Ask, FreeDetector
<1>25. CASE EndDetChanFrees
  BY <1>25 DEF EndDetChanFrees, FreeDetector
<1>26. CASE EndDetectorsAgain
  BY <1>26 DEF EndDetectorsAgain
<1>27. CASE FreeChannels
  <2>1. current' = current
    <3>1. module' = [module EXCEPT !.ch = FALSE]
              \/ module' = [module EXCEPT !.ch = FALSE, !.listed = FALSE]
      BY <1>27 DEF FreeChannels
    <3> QED
      BY <3>1, ZenonT(40)
  <2>2. UNCHANGED <<rx, running, cancelled, touched, slow>> /\ pc # "receiver"
    BY <1>27 DEF FreeChannels
  <2> QED
    BY <2>1, <2>2 DEF ThreadsOfModule
<1>28. CASE ReceiverStop
  BY <1>28 DEF ReceiverStop
<1>29. CASE UNCHANGED <<module, rx, running, cancelled, touched, slow, pc>>
  BY <1>29
<1> QED
  BY LifeNext, <1>1, <1>2, <1>3, <1>4, <1>5, <1>6, <1>7, <1>8, <1>9, <1>10, <1>11, <1>12, <1>13,
     <1>14, <1>15, <1>16, <1>17, <1>18, <1>19, <1>20, <1>21, <1>22, <1>23, <1>24, <1>25, <1>26,
     <1>27, <1>28, <1>29
  DEF LifeNext, UserCalls, UserGoesOn, Receiver, Device, RunStarts, DeviceAnswers, DeviceRefuses,
      DeviceSends, ConnectionLost

LEMMA MemoryStep ==
  ASSUME LifeTypeOK, MemoryInv, LifeNext
  PROVE  LifeTypeOK' /\ MemoryInv'
BY LifeTypesStep, OneModuleStep, InModuleStep, DetectorsOfModuleStep, ThreadsOfModuleStep
DEF MemoryInv
LEMMA LifeInitInv == LifeInit => LifeTypeOK /\ MemoryInv
<1> SUFFICES ASSUME LifeInit
             PROVE  LifeTypeOK /\ MemoryInv
  OBVIOUS
<1>1. MemoryTypes /\ RequestTypes
  BY LifecycleAssumption DEF LifeInit, MemoryTypes, RequestTypes, NewModule
<1>2. ThreadTypes
  BY DEF LifeInit, ThreadTypes, Thread, NoThread
<1>3. UserTypes
  BY DEF LifeInit, UserTypes, Steps, Busy, SetupSteps, SetupFails
<1>4. OneModule /\ InModule /\ DetectorsOfModule
  BY DEF LifeInit, OneModule, InModule, DetectorsOfModule, NoDetectors, NewModule, NoThread, Busy,
         SetupSteps, SetupFails, Gens
<1>5. ThreadsOfModule
  BY DEF LifeInit, ThreadsOfModule, NewModule, NoThread, Live
<1> QED
  BY <1>1, <1>2, <1>3, <1>4, <1>5 DEF LifeTypeOK, MemoryInv

LEMMA MemoryInvariant == LifeSpec => [](LifeTypeOK /\ MemoryInv)
<1>1. LifeTypeOK /\ MemoryInv /\ UNCHANGED vars => LifeTypeOK' /\ MemoryInv'
  BY DEF vars, LifeTypeOK, MemoryTypes, ThreadTypes, RequestTypes, UserTypes, Steps, MemoryInv,
         OneModule, InModule, DetectorsOfModule, ThreadsOfModule, NoDetectors
<1> QED
  BY <1>1, LifeInitInv, MemoryStep, PTL DEF LifeSpec

(* As long as no wait for a thread ran out, none used the structures of    *)
(* its module after psl__EndModule or psl__SetupModule had freed them.     *)
THEOREM ThreadsEndFirst == LifeSpec => []ThreadEndsBeforeModule
<1>1. MemoryInv => ThreadEndsBeforeModule
  BY DEF MemoryInv, ThreadsOfModule, ThreadEndsBeforeModule
<1> QED
  BY <1>1, MemoryInvariant, PTL

(* A module that xiaExit or a failed start has taken from the list has     *)
(* left no structure of its own, no detector, no connection, and no thread *)
(* that is not on its way out.  (The memory of runs and the buffer of the  *)
(* stream can be lost: see RunMemoryFreed and StreamFreed.)                *)
THEOREM ModuleLeavesNothing == LifeSpec => []NothingLeftBehind
<1>1. LifeTypeOK /\ MemoryInv => NothingLeftBehind
  <2> SUFFICES ASSUME LifeTypeOK, MemoryInv, ~module.listed
               PROVE  /\ heap = {} /\ \A c \in Channels : ~chan[c]
                      /\ \A g \in Gens : /\ link[g] # "open"
                                         /\ rx[g].pc \in {"none", "ended"} \/ g \in cancelled
    BY DEF NothingLeftBehind
  <2>1. current = 0 /\ heap = {} /\ \A c \in Channels : ~chan[c]
    BY DEF MemoryInv, OneModule, DetectorsOfModule, NoDetectors
  <2>2. ASSUME NEW g \in Gens
        PROVE  link[g] # "open" /\ (rx[g].pc \in {"none", "ended"} \/ g \in cancelled)
    <3>1. g # current
      BY <2>1 DEF Gens
    <3>2. rx[g].pc \in {"none", "created", "reading", "handling", "ended"}
      BY DEF LifeTypeOK, ThreadTypes, Thread
    <3> QED
      BY <3>1, <3>2 DEF MemoryInv, OneModule, ThreadsOfModule, Live
  <2> QED
    BY <2>1, <2>2
<1> QED
  BY <1>1, MemoryInvariant, PTL
---------------------------------------------------------------------------
(* The conversation.                                                       *)

(* No request fails in a step that leaves none failed.                     *)

LEMMA TroubleStays ==
  ASSUME LifeTypeOK, LifeNext, faults' + losses' = 0
  PROVE  UNCHANGED <<faults, losses>> /\ faults + losses = 0
<1> USE DEF LifeTypeOK, UserTypes
<1>1. CASE TimeOut
  BY <1>1 DEF TimeOut
<1>2. ASSUME NEW late \in BOOLEAN, Connect(late)
      PROVE  UNCHANGED <<faults, losses>> /\ faults + losses = 0
  BY <1>2 DEF Connect
<1>3. CASE ConnectFails
  BY <1>3 DEF ConnectFails
<1>4. CASE DeviceRefuses
  BY <1>4 DEF DeviceRefuses
<1>5. CASE ConnectionLost
  BY <1>5 DEF ConnectionLost
<1>6. CASE UNCHANGED <<faults, losses>>
  BY <1>6
<1> QED
  BY LifeNext, <1>1, <1>2, <1>3, <1>4, <1>5, <1>6
  DEF LifeNext, UserCalls, UserGoesOn, Receiver, Device, StartSystem, Exit, EndSystem, InitAgain,
      RunStarts, Answered, ReceiverRuns, ReceiverNotRunning, SetupDetChan, Refreshed,
      SetupDetChanDone, SetupDetChanFails, SystemStarted, EndDetectors, EndDetChan,
      EndDetChanFrees, EndDetectorsAgain, FreeChannels, ReceiverStop, EndModule, RxStart, RxRead,
      RxHandle, RxIdle, RxCancelled, RxUsesFreedModule, DeviceAnswers, DeviceSends

(* A user who waits is not told of a failure.                              *)
LEMMA NoRequestFails ==
  ASSUME LifeTypeOK, MemoryInv, current # 0, Serves, Answered \/ TimeOut,
         UNCHANGED <<faults, losses>>
  PROVE  Answered /\ pc' = after /\ UNCHANGED slot /\ Posted
<1>1. pc = "await" /\ Conversation /\ sendStatus /\ Connected /\ rx[current].pc # "ended"
  BY DEF Answered, TimeOut, Serves, Converses, ReceiverServes, Connected, reader, Live
<1>2. ~TimeOut
  <2>1. SUFFICES ASSUME TimeOut
                 PROVE  FALSE
    OBVIOUS
  <2>2. faults' # faults + 1
    BY DEF LifeTypeOK, UserTypes
  <2>3. ~sendEvent /\ ~Coming /\ pending = << >>
    BY <1>1, <2>1, <2>2 DEF TimeOut
  <2>4. Sent \/ Handled
    BY <1>1, <2>3 DEF Conversation, Asked, Posted
  <2>5. Coming
    BY <1>1, <2>4 DEF Sent, Handled, Coming, Connected, stream, reader
  <2> QED
    BY <2>3, <2>5
<1>3. Answered /\ sendEvent
  BY <1>2 DEF Answered
<1>4. Posted
  BY <1>1, <1>3 DEF Conversation, Asked, Sent, Handled
<1> QED
  BY <1>1, <1>3, <1>4 DEF Answered, Posted

(* The receiver stays, and no request fails.                               *)

LEMMA ReceiverServesStep ==
  ASSUME LifeTypeOK, MemoryInv, current # 0, Serves, LifeNext,
         UNCHANGED <<faults, losses, current>>
  PROVE  ReceiverServes'
<1> USE DEF LifeTypeOK, ThreadTypes, UserTypes, MemoryTypes, MemoryInv, OneModule, InModule,
            ThreadsOfModule, Serves, Converses, ReceiverServes, reader, stream, Live, Return
<1>1. ASSUME NEW valid \in BOOLEAN, StartSystem(valid)
      PROVE  ReceiverServes'
  BY <1>1 DEF StartSystem, Steps, SetupSteps, SetupFails, EndSteps
<1>2. CASE Exit
  BY <1>2 DEF Exit, Steps, SetupSteps, SetupFails, EndSteps
<1>3. CASE EndSystem
  BY <1>3 DEF EndSystem, Steps, SetupSteps, SetupFails, EndSteps
<1>4. CASE InitAgain
  BY <1>4 DEF InitAgain, Steps, SetupSteps, SetupFails, EndSteps
<1>5. ASSUME NEW c \in Channels, RunStarts(c)
      PROVE  ReceiverServes'
  BY <1>5 DEF RunStarts, Steps, SetupSteps, SetupFails, EndSteps
<1>6. CASE Answered
  <2>1. pc' = after /\ after \in SetupSteps \cup {"unmonitored"}
    BY <1>6, NoRequestFails DEF Answered, Steps, SetupSteps, SetupFails, EndSteps
  <2> QED
    BY <1>6, <2>1 DEF Answered, SetupSteps, SetupFails
<1>7. CASE TimeOut
  <2>1. Answered
    BY <1>7, NoRequestFails
  <2> QED
    BY <1>7, <2>1, NoRequestFails DEF Answered, TimeOut
<1>8. ASSUME NEW late \in BOOLEAN, Connect(late)
      PROVE  ReceiverServes'
  BY <1>8 DEF Connect, Steps, SetupSteps, SetupFails, EndSteps
<1>9. CASE ConnectFails
  BY <1>9 DEF ConnectFails, Steps, SetupSteps, SetupFails, EndSteps
<1>10. CASE ReceiverRuns
  BY <1>10 DEF ReceiverRuns, Steps, SetupSteps, SetupFails, EndSteps
<1>11. CASE ReceiverNotRunning
  BY <1>11 DEF ReceiverNotRunning, Steps, SetupSteps, SetupFails, EndSteps, SetupModuleFails
<1>12. CASE SetupDetChan
  BY <1>12 DEF SetupDetChan, Steps, SetupSteps, SetupFails, EndSteps, Ask
<1>13. CASE Refreshed
  BY <1>13 DEF Refreshed, Steps, SetupSteps, SetupFails, EndSteps, Ask
<1>14. CASE SetupDetChanDone
  BY <1>14 DEF SetupDetChanDone, Steps, SetupSteps, SetupFails, EndSteps
<1>15. CASE SetupDetChanFails
  BY <1>15 DEF SetupDetChanFails, Steps, SetupSteps, SetupFails, EndSteps
<1>16. CASE SystemStarted
  BY <1>16 DEF SystemStarted, Steps, SetupSteps, SetupFails, EndSteps
<1>17. CASE EndDetectors
  BY <1>17 DEF EndDetectors, Steps, SetupSteps, SetupFails, EndSteps
<1>18. CASE EndDetChan
  BY <1>18 DEF EndDetChan, Steps, SetupSteps, SetupFails, EndSteps, Ask
<1>19. CASE EndDetChanFrees
  BY <1>19 DEF EndDetChanFrees, Steps, SetupSteps, SetupFails, EndSteps
<1>20. CASE EndDetectorsAgain
  BY <1>20 DEF EndDetectorsAgain, Steps, SetupSteps, SetupFails, EndSteps
<1>21. CASE FreeChannels
  BY <1>21 DEF FreeChannels, Steps, SetupSteps, SetupFails, EndSteps
<1>22. CASE ReceiverStop
  BY <1>22 DEF ReceiverStop, Steps, SetupSteps, SetupFails, EndSteps
<1>23. CASE EndModule
  BY <1>23 DEF EndModule, Steps, SetupSteps, SetupFails, EndSteps
<1>24. CASE ConnectionLost
  BY <1>24 DEF ConnectionLost, Steps, SetupSteps, SetupFails, EndSteps
<1>25. ASSUME NEW g \in Gens, RxStart(g)
      PROVE  ReceiverServes'
  BY <1>25 DEF RxStart
<1>26. ASSUME NEW g \in Gens, RxRead(g)
      PROVE  ReceiverServes'
  BY <1>26 DEF RxRead
<1>27. ASSUME NEW g \in Gens, RxHandle(g)
      PROVE  ReceiverServes'
  <2>1. g = current /\ (active[current] \/ pc = "stopping")
    BY <1>27 DEF RxHandle
  <2>2. reader.msg.type # "error"
    BY <1>27, <2>1
    DEF RxHandle, Conversation, Asked, Sent, Handled, Posted, HandlesResponse, Responses
  <2>3. ~(reader.msg.type = "update" /\ ~reader.found)
    BY <1>27, <2>1 DEF RxHandle, DetectorsReported
  <2>4. sendStatus'
    BY <1>27, <2>1, <2>2, <2>3 DEF RxHandle, Post
  <2>5. rx'[current].pc = "reading" \/ pc = "stopping"
    BY <1>27, <2>1 DEF RxHandle, ThreadGoesOn, NoThread, LifeTypeOK, ThreadTypes
  <2> QED
    BY <1>27, <2>1, <2>4, <2>5 DEF RxHandle
<1>28. ASSUME NEW g \in Gens, RxIdle(g)
      PROVE  ReceiverServes'
  BY <1>28 DEF RxIdle
<1>29. ASSUME NEW g \in Gens, RxCancelled(g)
      PROVE  ReceiverServes'
  BY <1>29 DEF RxCancelled
<1>30. ASSUME NEW g \in Gens, RxUsesFreedModule(g)
      PROVE  ReceiverServes'
  BY <1>30 DEF RxUsesFreedModule
<1>31. CASE DeviceAnswers
  BY <1>31 DEF DeviceAnswers
<1>32. CASE DeviceRefuses
  BY <1>32 DEF DeviceRefuses
<1>33. ASSUME NEW c \in Channels, DeviceSends(c)
      PROVE  ReceiverServes'
  BY <1>33 DEF DeviceSends
<1> QED
  BY LifeNext, <1>1, <1>2, <1>3, <1>4, <1>5, <1>6, <1>7, <1>8, <1>9, <1>10, <1>11, <1>12, <1>13,
     <1>14, <1>15, <1>16, <1>17, <1>18, <1>19, <1>20, <1>21, <1>22, <1>23, <1>24, <1>25, <1>26,
     <1>27, <1>28, <1>29, <1>30, <1>31, <1>32, <1>33
  DEF LifeNext, UserCalls, UserGoesOn, Receiver, Device
(* The receiver that handles a message and the one that reads one is the   *)
(* current module's.                                                       *)
LEMMA OnlyReader ==
  ASSUME LifeTypeOK, MemoryInv, NEW g \in Gens, g \in heap
  PROVE  g = current /\ current # 0
BY DEF MemoryInv, OneModule, Gens

LEMMA StreamGrows ==
  ASSUME LifeTypeOK, Connected, NEW m \in Message, Sends(m), UNCHANGED current
  PROVE  /\ Len(stream) + 1 \in DOMAIN stream' /\ stream'[Len(stream) + 1] = m
         /\ \A i \in DOMAIN stream :
                 i \in DOMAIN stream' /\ i < Len(stream) + 1 /\ stream'[i] = stream[i]
         /\ \A i \in DOMAIN stream' : i \in DOMAIN stream \/ i = Len(stream) + 1
<1>1. current \in Gens
  BY CurrentGeneration DEF LifeTypeOK, Connected
<1>2. stream \in Seq(Message) /\ stream' = Append(stream, m)
  BY <1>1 DEF LifeTypeOK, ThreadTypes, stream, Sends
<1> HIDE DEF stream
<1> QED
  BY <1>2

LEMMA StreamShrinks ==
  ASSUME LifeTypeOK, MemoryInv, NEW g \in Gens, RxRead(g)
  PROVE  /\ g = current /\ UNCHANGED current
         /\ 1 \in DOMAIN stream /\ stream[1] \in Message
         /\ reader' = [pc |-> "handling", msg |-> stream[1],
                       found |-> stream[1].type \in {"update", "data"} /\ chan[stream[1].channel]]
         /\ \A i \in DOMAIN stream' :
                 i + 1 \in DOMAIN stream /\ i \in Nat \ {0} /\ stream'[i] = stream[i + 1]
         /\ \A i \in DOMAIN stream :
              i = 1 \/ (i - 1 \in DOMAIN stream' /\ stream'[i - 1] = stream[i])
<1>1. g = current /\ UNCHANGED current
  BY OnlyReader DEF RxRead
<1>2. stream \in Seq(Message) /\ stream # << >> /\ stream' = Tail(stream)
  BY <1>1 DEF LifeTypeOK, ThreadTypes, stream, RxRead
<1>3. reader' = [pc |-> "handling", msg |-> Head(stream),
                 found |-> Head(stream).type \in {"update", "data"} /\ chan[Head(stream).channel]]
  BY <1>1 DEF LifeTypeOK, ThreadTypes, stream, reader, RxRead
<1> HIDE DEF stream, reader
<1>4. Head(stream) = stream[1] /\ 1 \in DOMAIN stream
  BY <1>2
<1>5. /\ \A i \in DOMAIN stream' :
              i + 1 \in DOMAIN stream /\ i \in Nat \ {0} /\ stream'[i] = stream[i + 1]
      /\ \A i \in DOMAIN stream : i = 1 \/ (i - 1 \in DOMAIN stream' /\ stream'[i - 1] = stream[i])
  BY <1>2
<1> QED
  BY <1>1, <1>2, <1>3, <1>4, <1>5

(* A thread that handles the message of a detector has the detector.       *)
LEMMA NothingFreedIsUsed ==
  ASSUME LifeTypeOK, MemoryInv, current # 0 => Serves, LifeNext, "detector" \notin touched, ~astray
  PROVE  "detector" \notin touched' /\ ~astray'
<1>1. ASSUME NEW g \in Gens, RxHandle(g)
      PROVE  "detector" \notin touched' /\ ~astray'
  <2>1. g = current /\ current # 0
    BY <1>1, OnlyReader DEF RxHandle
  <2>2. reader.found => chan[reader.msg.channel]
    BY <1>1, <2>1 DEF RxHandle, Serves, DetectorsReported, reader
  <2>3. ~(reader.msg.type = "update" /\ ~reader.found)
    BY <1>1, <2>1 DEF RxHandle, Serves, DetectorsReported, reader
  <2> QED
    BY <1>1, <2>1, <2>2, <2>3 DEF RxHandle, reader
<1>2. ASSUME NEW g \in Gens, RxRead(g)
      PROVE  "detector" \notin touched' /\ ~astray'
  BY <1>2 DEF RxRead
<1>3. ASSUME NEW g \in Gens, RxUsesFreedModule(g)
      PROVE  "detector" \notin touched' /\ ~astray'
  BY <1>3 DEF RxUsesFreedModule
<1>4. CASE UNCHANGED <<touched, astray>>
  BY <1>4
<1> QED
  BY LifeNext, <1>1, <1>2, <1>3, <1>4
  DEF LifeNext, UserCalls, UserGoesOn, Receiver, Device, StartSystem, Exit, EndSystem, InitAgain,
      RunStarts, Answered, TimeOut, Connect, ConnectFails, ReceiverRuns, ReceiverNotRunning,
      SetupDetChan, Refreshed, SetupDetChanDone, SetupDetChanFails, SystemStarted, EndDetectors,
      EndDetChan, EndDetChanFrees, EndDetectorsAgain, FreeChannels, ReceiverStop, EndModule,
      RxStart, RxIdle, RxCancelled, DeviceAnswers, DeviceRefuses, DeviceSends, ConnectionLost
(* A channel is ended when the thread runs, and freed when nobody tells of *)
(* it any more.                                                            *)
LEMMA EndsRunning ==
  ASSUME LifeTypeOK, MemoryInv, current # 0, Serves, EndDetChan
  PROVE  running[current] /\ First(todo) \in Channels
<1>1. reader.pc \in Live /\ reader.pc # "created" /\ current \in Gens
  BY CurrentGeneration
  DEF Serves, Converses, ReceiverServes, EndDetChan, MemoryInv, ThreadsOfModule, reader, LifeTypeOK
<1>2. First(todo) \in Channels
  BY FirstIsChannel DEF EndDetChan, LifeTypeOK, RequestTypes
<1> QED
  BY <1>1, <1>2 DEF MemoryInv, ThreadsOfModule, Live, reader

LEMMA EndsQuietly ==
  ASSUME LifeTypeOK, MemoryInv, current # 0, Serves, EndDetChanFrees
  PROVE  /\ pc = "unmonitored" /\ pending = << >> /\ reader.pc # "handling"
         /\ ~ResponseIn(stream) /\ ~sendEvent
         /\ Ended \notin channelActive \cup monitored /\ ~UpdateIn(stream, Ended)
         /\ UNCHANGED <<channelActive, stream, reader, monitored, pending, sendEvent>>
<1>1. pc = "unmonitored"
  BY DEF EndDetChanFrees, Serves, ReceiverServes
<1>2. UNCHANGED <<channelActive, stream, reader, monitored, pending, sendEvent>>
  BY DEF EndDetChanFrees, stream, reader
<1>3. reader.pc # "handling"
  BY DEF EndDetChanFrees, FreeWhen, LockFree, HoldsLock, reader
<1> QED
  BY <1>1, <1>2, <1>3 DEF Serves, Converses, Conversation, EndsChannel, Quiet

(* Whoever is told of has a detector.                                     *)

LEMMA DetectorsReportedStep ==
  ASSUME LifeTypeOK, MemoryInv, current # 0, Serves, LifeNext,
         UNCHANGED <<faults, losses, current>>
  PROVE  DetectorsReported'
<1> USE DEF LifeTypeOK, ThreadTypes, MemoryTypes, RequestTypes, Serves, Converses
<1>1. CASE InitAgain
  BY <1>1 DEF InitAgain, MemoryInv, OneModule
<1>2. CASE SetupDetChan
  <2> DEFINE c == First(todo)
             r == [req |-> "state", channel |-> c]
  <2>1. pending = << >> /\ UNCHANGED <<stream, reader, monitored>>
    BY <1>2 DEF SetupDetChan, Conversation, stream, reader, ReceiverServes, SetupFails
  <2>2. pending' = <<r>> \/ pending' = pending
    BY <1>2, <2>1 DEF SetupDetChan, Ask
  <2>3. c \in Channels /\ chan' = [chan EXCEPT ![c] = TRUE]
          /\ channelActive' = channelActive \cup {c}
    BY <1>2, FirstIsChannel DEF SetupDetChan
  <2>4. \A d \in Channels : chan[d] => chan'[d]
    BY <2>3
  <2>5. \A i \in DOMAIN pending' : pending'[i].req = "state"
    BY <2>1, <2>2
  <2> HIDE DEF c, r
  <2>6. \A d \in Channels : Reported(d)' => Reported(d) \/ d = c
    BY <2>1, <2>3, <2>5 DEF Reported
  <2>7. chan'[c]
    BY <2>3
  <2>8. reader.pc = "handling" /\ reader.found => reader.msg.channel \in Channels
    <3>1. reader.msg \in Message \cup {NoMessage}
      BY CurrentGeneration DEF reader, Thread
    <3> QED
      BY <3>1 DEF DetectorsReported, Message, NoMessage
  <2> QED
    BY <2>1, <2>4, <2>6, <2>7, <2>8 DEF DetectorsReported
<1>3. CASE Refreshed
  <2>1. pending = << >> /\ UNCHANGED <<chan, channelActive, stream, reader, monitored>>
    BY <1>3 DEF Refreshed, Conversation, stream, reader
  <2>2. \/ pending' = pending
        \/ \E r \in Request : /\ pending' = <<r>>
                              /\ r.req = "monitor" => r.channels = channelActive
    <3>1. First(todo) \in Channels
      BY <1>3, FirstIsChannel DEF Refreshed, UserTypes, Busy, SetupSteps
    <3> QED
      BY <1>3, <2>1, <3>1, RequestsOf DEF Refreshed, Ask
  <2>3. \A i \in DOMAIN pending' :
             pending'[i].req = "monitor" => pending'[i].channels = channelActive
    BY <2>1, <2>2
  <2>4. \A d \in Channels : Reported(d)' => Reported(d)
    BY <2>1, <2>3 DEF Reported
  <2> QED
    BY <2>1, <2>4 DEF DetectorsReported
<1>4. CASE SetupDetChanFails
  BY <1>4 DEF SetupDetChanFails, ReceiverServes, SetupFails
<1>5. CASE EndDetChan
  <2>1. pending = << >> /\ UNCHANGED <<chan, stream, reader, monitored>>
          /\ channelActive' \subseteq channelActive
    BY <1>5, EndsRunning DEF EndDetChan, Conversation, stream, reader, MonitoredAfter
  <2>2. \A i \in DOMAIN pending' :
             pending'[i].req = "monitor" => pending'[i].channels = channelActive'
    BY <1>5, <2>1, EndsRunning DEF EndDetChan, Ask
  <2>3. \A d \in Channels : Reported(d)' => Reported(d)
    BY <2>1, <2>2 DEF Reported
  <2> QED
    BY <2>1, <2>3 DEF DetectorsReported
<1>6. CASE EndDetChanFrees
  <2> DEFINE c == First(todo)
  <2>1. pending = << >> /\ UNCHANGED <<channelActive, stream, reader, monitored, pending>>
          /\ reader.pc # "handling"
    BY <1>6, EndsQuietly
  <2>2. c \notin channelActive \cup monitored /\ ~UpdateIn(stream, c)
    BY <1>6, EndsQuietly DEF Ended
  <2>3. chan' = [chan EXCEPT ![c] = FALSE]
    BY <1>6 DEF EndDetChanFrees, FreeDetector
  <2> HIDE DEF c
  <2>4. \A d \in Channels : Reported(d)' => Reported(d) /\ d # c
    BY <2>1, <2>2 DEF Reported
  <2> QED
    BY <2>1, <2>3, <2>4 DEF DetectorsReported
<1>7. ASSUME NEW late \in BOOLEAN, Connect(late)
      PROVE  DetectorsReported'
  BY <1>7 DEF Connect, MemoryInv, InModule
<1>8. CASE ReceiverNotRunning
  BY <1>8 DEF ReceiverNotRunning, MemoryInv, OneModule, SetupModuleFails
<1>9. CASE EndModule
  BY <1>9 DEF EndModule, MemoryTypes
<1>10. ASSUME NEW g \in Gens, RxStart(g)
      PROVE  DetectorsReported'
  <2>1. reader'.pc # "handling" \/ UNCHANGED reader
    BY <1>10 DEF RxStart, ThreadEnds, NoThread, reader, ThreadTypes
  <2>2. UNCHANGED <<chan, channelActive, monitored, pending, stream>>
    BY <1>10 DEF RxStart, stream
  <2> QED
    BY <2>1, <2>2 DEF DetectorsReported, Reported
<1>11. ASSUME NEW g \in Gens, RxRead(g)
      PROVE  DetectorsReported'
  <2>1. g = current
    BY <1>11, OnlyReader DEF RxRead
  <2> DEFINE m == stream[1]
  <2>2. /\ 1 \in DOMAIN stream /\ m \in Message
        /\ reader' = [pc |-> "handling", msg |-> m,
                      found |-> m.type \in {"update", "data"} /\ chan[m.channel]]
    BY <1>11, StreamShrinks
  <2>3. \A d \in Channels : UpdateIn(stream, d)' => UpdateIn(stream, d)
    BY <1>11, StreamShrinks DEF UpdateIn
  <2>4. UNCHANGED <<chan, channelActive, monitored, pending>>
    BY <1>11 DEF RxRead
  <2> HIDE DEF m
  <2>5. \A d \in Channels : Reported(d)' => Reported(d)
    BY <2>3, <2>4 DEF Reported
  <2>6. m.type = "update" => m.channel \in Channels /\ Reported(m.channel)
    BY <2>2 DEF Reported, UpdateIn, UpdateOf, Message, m
  <2>7. reader'.pc = "handling" /\ reader'.msg = m
          /\ (reader'.found <=> m.type \in {"update", "data"} /\ chan[m.channel])
    BY <2>2
  <2> QED
    BY <2>4, <2>5, <2>6, <2>7 DEF DetectorsReported
<1>12. ASSUME NEW g \in Gens, RxHandle(g)
      PROVE  DetectorsReported'
  <2>1. g = current /\ UNCHANGED <<chan, channelActive, monitored, pending, stream>>
    BY <1>12, OnlyReader DEF RxHandle, stream
  <2>2. reader'.pc # "handling"
    BY <1>12, <2>1 DEF RxHandle, ThreadGoesOn, ThreadEnds, NoThread, reader, ThreadTypes
  <2> QED
    BY <2>1, <2>2 DEF DetectorsReported, Reported
<1>13. ASSUME NEW g \in Gens, RxIdle(g)
      PROVE  DetectorsReported'
  <2>1. reader'.pc # "handling" \/ UNCHANGED reader
    BY <1>13 DEF RxIdle, ThreadEnds, NoThread, reader, ThreadTypes
  <2>2. UNCHANGED <<chan, channelActive, monitored, pending, stream>>
    BY <1>13 DEF RxIdle, stream
  <2> QED
    BY <2>1, <2>2 DEF DetectorsReported, Reported
<1>14. ASSUME NEW g \in Gens, RxCancelled(g)
      PROVE  DetectorsReported'
  <2>1. reader'.pc # "handling" \/ UNCHANGED reader
    BY <1>14 DEF RxCancelled, ThreadEnds, NoThread, reader, ThreadTypes
  <2>2. UNCHANGED <<chan, channelActive, monitored, pending, stream>>
    BY <1>14 DEF RxCancelled, stream
  <2> QED
    BY <2>1, <2>2 DEF DetectorsReported, Reported
<1>15. ASSUME NEW g \in Gens, RxUsesFreedModule(g)
      PROVE  DetectorsReported'
  <2>1. reader'.pc # "handling" \/ UNCHANGED reader
    BY <1>15 DEF RxUsesFreedModule, ThreadEnds, NoThread, reader, ThreadTypes
  <2>2. UNCHANGED <<chan, channelActive, monitored, pending, stream>>
    BY <1>15 DEF RxUsesFreedModule, stream
  <2> QED
    BY <2>1, <2>2 DEF DetectorsReported, Reported
<1>16. CASE DeviceAnswers
  <2>1. ASSUME NEW m \in Message, Sends(m), m.type # "update"
        PROVE  \A d \in Channels : UpdateIn(stream, d)' => UpdateIn(stream, d)
    BY <1>16, <2>1, StreamGrows DEF DeviceAnswers, UpdateIn, UpdateOf
  <2>2. \A d \in Channels : UpdateIn(stream, d)' => UpdateIn(stream, d)
    BY <1>16, <2>1, MessageTypes DEF DeviceAnswers
  <2>3. \A d \in Channels, i \in DOMAIN pending' :
           pending'[i].req = "monitor" /\ d \in pending'[i].channels => Reported(d)
    <3>1. \A i \in DOMAIN pending' : i + 1 \in DOMAIN pending /\ pending'[i] = pending[i + 1]
      BY <1>16 DEF DeviceAnswers, RequestTypes
    <3> QED
      BY <3>1 DEF Reported
  <2>4. \A d \in monitored' : Reported(d)
    <3>1. 1 \in DOMAIN pending /\ Head(pending) = pending[1]
      BY <1>16 DEF DeviceAnswers, RequestTypes
    <3>2. monitored' = monitored
              \/ (Head(pending).req = "monitor" /\ monitored' = Head(pending).channels)
      BY <1>16 DEF DeviceAnswers
    <3> QED
      BY <3>1, <3>2 DEF Reported
  <2>5. UNCHANGED <<chan, channelActive, reader>>
    BY <1>16 DEF DeviceAnswers, reader
  <2>6. \A d \in Channels : Reported(d)' => Reported(d)
    BY <2>2, <2>3, <2>4, <2>5 DEF Reported
  <2> QED
    BY <2>5, <2>6 DEF DetectorsReported
<1>17. CASE DeviceRefuses
  BY <1>17 DEF DeviceRefuses, UserTypes
<1>18. ASSUME NEW c \in Channels, DeviceSends(c)
      PROVE  DetectorsReported'
  <2>1. PICK m \in Message : Sends(m) /\ (m.type = "update" => m.channel \in monitored)
    BY <1>18, MessageTypes DEF DeviceSends
  <2>2. \A d \in Channels : UpdateIn(stream, d)' => UpdateIn(stream, d) \/ d \in monitored
    BY <1>18, <2>1, StreamGrows DEF DeviceSends, UpdateIn, UpdateOf
  <2>3. UNCHANGED <<chan, channelActive, monitored, pending, reader>>
    BY <1>18 DEF DeviceSends, reader
  <2>4. \A d \in Channels : Reported(d)' => Reported(d)
    BY <2>2, <2>3 DEF Reported
  <2> QED
    BY <2>3, <2>4 DEF DetectorsReported
<1>19. CASE ConnectionLost
  BY <1>19 DEF ConnectionLost, UserTypes
<1>20. CASE UNCHANGED <<chan, channelActive, monitored, pending, wire, rx>>
  BY <1>20 DEF DetectorsReported, Reported, reader, stream
<1> QED
  BY LifeNext, <1>1, <1>2, <1>3, <1>4, <1>5, <1>6, <1>7, <1>8, <1>9, <1>10, <1>11, <1>12, <1>13,
     <1>14, <1>15, <1>16, <1>17, <1>18, <1>19, <1>20
  DEF LifeNext, UserCalls, UserGoesOn, Receiver, Device, StartSystem, Exit, EndSystem, RunStarts,
      Answered, TimeOut, ConnectFails, ReceiverRuns, SetupDetChanDone, SystemStarted,
      EndDetectors, EndDetectorsAgain, FreeChannels, ReceiverStop
(* The response the user waits for is in one place, and no other response  *)
(* is anywhere.                                                            *)

LEMMA ConversationStep ==
  ASSUME LifeTypeOK, MemoryInv, current # 0, Serves, LifeNext,
         UNCHANGED <<faults, losses, current>>
  PROVE  Converses'
<1> USE DEF LifeTypeOK, ThreadTypes, MemoryTypes, RequestTypes, Serves, Converses
<1>1. ASSUME NEW valid \in BOOLEAN, StartSystem(valid)
      PROVE  Converses'
  <2>1. pc # "await" /\ pc' \notin {"await", "unmonitored"}
          /\ UNCHANGED <<pending, sendEvent, stream, reader>>
    BY <1>1
    DEF StartSystem, stream, reader, Return, UserTypes, Steps, SetupSteps, SetupFails, EndSteps
  <2> QED
    BY <2>1 DEF Conversation, EndsChannel, Quiet, ResponseIn, HandlesResponse
<1>2. CASE Exit
  <2>1. pc # "await" /\ pc' \notin {"await", "unmonitored"}
          /\ UNCHANGED <<pending, sendEvent, stream, reader>>
    BY <1>2 DEF Exit, stream, reader, UserTypes, Steps, SetupSteps, SetupFails, EndSteps
  <2> QED
    BY <2>1 DEF Conversation, EndsChannel, Quiet, ResponseIn, HandlesResponse
<1>3. CASE EndSystem
  <2>1. pc # "await" /\ pc' \notin {"await", "unmonitored"}
          /\ UNCHANGED <<pending, sendEvent, stream, reader>>
    BY <1>3 DEF EndSystem, stream, reader, UserTypes, Steps, SetupSteps, SetupFails, EndSteps
  <2> QED
    BY <2>1 DEF Conversation, EndsChannel, Quiet, ResponseIn, HandlesResponse
<1>4. CASE InitAgain
  BY <1>4 DEF InitAgain, MemoryInv, OneModule
<1>5. ASSUME NEW c \in Channels, RunStarts(c)
      PROVE  Converses'
  BY <1>5
  DEF RunStarts, Conversation, Asked, Sent, Handled, Posted, ResponseIn, HandlesResponse, Quiet,
      EndsChannel, Ended, UpdateIn, stream, reader
<1>6. CASE Answered
  <2>1. pc' = after /\ sendEvent' = FALSE /\ Posted
          /\ UNCHANGED <<pending, stream, reader, monitored, channelActive, todo>>
    BY <1>6, NoRequestFails DEF Answered, TimeOut, stream, reader
  <2>2. pc = "await" /\ after # "await"
    BY <1>6 DEF Answered, TimeOut, UserTypes, Steps, SetupSteps, SetupFails, EndSteps
  <2> QED
    BY <2>1, <2>2
    DEF Conversation, Posted, EndsChannel, Quiet, ResponseIn, HandlesResponse, Ended, UpdateIn
<1>7. CASE TimeOut
  <2>1. Answered
    BY <1>7, NoRequestFails
  <2> QED
    BY <1>7, <2>1, NoRequestFails DEF Answered, TimeOut, Posted
<1>8. ASSUME NEW late \in BOOLEAN, Connect(late)
      PROVE  Converses'
  BY <1>8 DEF Connect, MemoryInv, InModule
<1>9. CASE ConnectFails
  BY <1>9 DEF ConnectFails, MemoryInv, InModule
<1>10. CASE ReceiverRuns
  <2>1. pc # "await" /\ pc' \notin {"await", "unmonitored"}
          /\ UNCHANGED <<pending, sendEvent, stream, reader>>
    BY <1>10 DEF ReceiverRuns, stream, reader
  <2> QED
    BY <2>1 DEF Conversation, EndsChannel, Quiet, ResponseIn, HandlesResponse
<1>11. CASE ReceiverNotRunning
  BY <1>11 DEF ReceiverNotRunning, MemoryInv, OneModule, SetupModuleFails
<1>12. CASE SetupDetChan
  <2>1. /\ pc # "await" /\ pending = << >> /\ ~ResponseIn(stream) /\ ~HandlesResponse /\ ~sendEvent
        /\ UNCHANGED <<stream, reader, sendEvent>>
    BY <1>12 DEF SetupDetChan, Conversation, stream, reader
  <2>2. Connected
    BY DEF ReceiverServes, Connected
  <2>3. First(todo) \in Channels
    BY <1>12, FirstIsChannel DEF SetupDetChan
  <2>4. pc' = "await" /\ want' = "state" /\ ~EndsChannel'
    BY <1>12 DEF SetupDetChan, Ask, EndsChannel
  <2>5. \E r \in Request : pending' = <<r>> /\ ResponseOf(r.req) = want'
    <3> DEFINE r == [req |-> "state", channel |-> First(todo)]
    <3>1. r \in Request /\ ResponseOf(r.req) = "state"
      BY <2>3, RequestsOf DEF ResponseOf
    <3>2. pending' = <<r>>
      BY <1>12, <2>1, <2>2 DEF SetupDetChan, Ask
    <3> QED
      BY <2>4, <3>1, <3>2
  <2> QED
    BY <2>1, <2>4, <2>5 DEF Conversation, Asked, ResponseIn, HandlesResponse
<1>13. CASE Refreshed
  <2>1. /\ pc # "await" /\ pending = << >> /\ ~ResponseIn(stream) /\ ~HandlesResponse /\ ~sendEvent
        /\ UNCHANGED <<stream, reader, sendEvent>>
    BY <1>13 DEF Refreshed, Conversation, stream, reader
  <2>2. Connected
    BY DEF ReceiverServes, Connected
  <2>3. First(todo) \in Channels
    BY <1>13, FirstIsChannel DEF Refreshed, UserTypes, Busy, SetupSteps
  <2>4. pc' = "await" /\ want' \in {"success", "details"} /\ ~EndsChannel'
    BY <1>13 DEF Refreshed, Ask, EndsChannel
  <2>5. \E r \in Request : pending' = <<r>> /\ ResponseOf(r.req) = want'
    <3> DEFINE r1 == [req |-> "stop", channel |-> First(todo)]
               r2 == [req |-> "details", channel |-> First(todo)]
               r3 == [req |-> "monitor", channels |-> channelActive]
    <3>1. /\ r1 \in Request /\ ResponseOf(r1.req) = "success"
          /\ r2 \in Request /\ ResponseOf(r2.req) = "details"
          /\ r3 \in Request /\ ResponseOf(r3.req) = "success"
      BY <2>3, RequestsOf DEF ResponseOf
    <3>2. \/ pending' = <<r1>> /\ want' = "success"
          \/ pending' = <<r2>> /\ want' = "details"
          \/ pending' = <<r3>> /\ want' = "success"
      BY <1>13, <2>1, <2>2 DEF Refreshed, Ask
    <3> HIDE DEF r1, r2, r3
    <3> QED
      BY <3>1, <3>2
  <2> QED
    BY <2>1, <2>4, <2>5 DEF Conversation, Asked, ResponseIn, HandlesResponse
<1>14. CASE SetupDetChanDone
  <2>1. pc # "await" /\ pc' \notin {"await", "unmonitored"}
          /\ UNCHANGED <<pending, sendEvent, stream, reader>>
    BY <1>14 DEF SetupDetChanDone, stream, reader
  <2> QED
    BY <2>1 DEF Conversation, EndsChannel, Quiet, ResponseIn, HandlesResponse
<1>15. CASE SetupDetChanFails
  BY <1>15 DEF SetupDetChanFails, ReceiverServes, SetupFails
<1>16. CASE SystemStarted
  <2>1. pc # "await" /\ pc' \notin {"await", "unmonitored"}
          /\ UNCHANGED <<pending, sendEvent, stream, reader>>
    BY <1>16 DEF SystemStarted, stream, reader, Return
  <2> QED
    BY <2>1 DEF Conversation, EndsChannel, Quiet, ResponseIn, HandlesResponse
<1>17. CASE EndDetectors
  <2>1. pc # "await" /\ pc' \notin {"await", "unmonitored"}
          /\ UNCHANGED <<pending, sendEvent, stream, reader>>
    BY <1>17 DEF EndDetectors, stream, reader, Return
  <2> QED
    BY <2>1 DEF Conversation, EndsChannel, Quiet, ResponseIn, HandlesResponse
<1>18. CASE EndDetChan
  <2>1. /\ pc # "await" /\ pending = << >> /\ ~ResponseIn(stream) /\ ~HandlesResponse /\ ~sendEvent
        /\ UNCHANGED <<stream, reader, sendEvent, todo>>
    BY <1>18, EndsRunning DEF EndDetChan, Conversation, stream, reader
  <2>2. Connected
    BY DEF ReceiverServes, Connected
  <2>3. pc' = "await" /\ want' = "success" /\ channelActive' = channelActive \ {Ended}
          /\ Ended' = Ended
    BY <1>18, <2>1, EndsRunning DEF EndDetChan, Ask, MonitoredAfter, Ended
  <2> DEFINE r == [req |-> "monitor", channels |-> channelActive']
  <2>4. r \in Request /\ ResponseOf(r.req) = want' /\ r.req = "monitor"
          /\ r.channels = channelActive'
    BY <2>3, RequestsOf DEF ResponseOf
  <2>5. pending' = <<r>>
    BY <1>18, <2>1, <2>2, EndsRunning DEF EndDetChan, Ask
  <2> HIDE DEF r
  <2> QED
    BY <2>1, <2>3, <2>4, <2>5 DEF Conversation, Asked, ResponseIn, HandlesResponse
<1>19. CASE EndDetChanFrees
  <2>1. pc' = "endChannels"
    BY <1>19 DEF EndDetChanFrees
  <2> QED
    BY <1>19, <2>1, EndsQuietly DEF Conversation, EndsChannel, Quiet, ResponseIn, HandlesResponse
<1>20. CASE EndDetectorsAgain
  <2>1. pc # "await" /\ pc' \notin {"await", "unmonitored"}
          /\ UNCHANGED <<pending, sendEvent, stream, reader>>
    BY <1>20 DEF EndDetectorsAgain, stream, reader
  <2> QED
    BY <2>1 DEF Conversation, EndsChannel, Quiet, ResponseIn, HandlesResponse
<1>21. CASE FreeChannels
  <2>1. pc # "await" /\ pc' \notin {"await", "unmonitored"}
          /\ UNCHANGED <<pending, sendEvent, stream, reader>>
    BY <1>21 DEF FreeChannels, stream, reader, Return
  <2> QED
    BY <2>1 DEF Conversation, EndsChannel, Quiet, ResponseIn, HandlesResponse
<1>22. CASE ReceiverStop
  <2>1. pc # "await" /\ pc' \notin {"await", "unmonitored"}
          /\ UNCHANGED <<pending, sendEvent, stream, reader>>
    BY <1>22 DEF ReceiverStop, stream, reader
  <2> QED
    BY <2>1 DEF Conversation, EndsChannel, Quiet, ResponseIn, HandlesResponse
<1>23. CASE EndModule
  BY <1>23 DEF EndModule, MemoryTypes
<1>24. ASSUME NEW g \in Gens, RxStart(g)
      PROVE  Converses'
  <2>1. (reader.pc # "handling" /\ reader'.pc # "handling") \/ UNCHANGED reader
    BY <1>24 DEF RxStart, ThreadEnds, NoThread, reader, ThreadTypes
  <2>2. UNCHANGED <<pc, after, want, todo, channelActive, slot, sendEvent, pending, monitored>>
          /\ UNCHANGED stream
    BY <1>24 DEF RxStart, stream
  <2>3. (HandlesResponse' <=> HandlesResponse) /\ (Handled' <=> Handled)
    BY <2>1, <2>2 DEF HandlesResponse, Handled, ResponseIn, Quiet, EndsChannel, Ended, UpdateIn
  <2> QED
    BY <2>2, <2>3
    DEF Conversation, Asked, Sent, Posted, ResponseIn, Quiet, EndsChannel, Ended, UpdateIn
<1>25. ASSUME NEW g \in Gens, RxRead(g)
      PROVE  Converses'
  <2>1. g = current /\ reader.pc = "reading"
    BY <1>25, OnlyReader DEF RxRead, reader
  <2>2. UNCHANGED <<pc, after, want, todo, channelActive, slot, sendEvent, pending, monitored>>
    BY <1>25 DEF RxRead
  <2>3. (EndsChannel' <=> EndsChannel) /\ Ended' = Ended
    BY <2>2 DEF EndsChannel, Ended
  <2> DEFINE m == stream[1]
  <2>4. 1 \in DOMAIN stream /\ reader'.pc = "handling" /\ reader'.msg = m
    BY <1>25, StreamShrinks
  <2>5. /\ \A i \in DOMAIN stream' :
                i + 1 \in DOMAIN stream /\ i \in Nat \ {0} /\ stream'[i] = stream[i + 1]
        /\ \A i \in DOMAIN stream :
                i = 1 \/ (i - 1 \in DOMAIN stream' /\ stream'[i - 1] = stream[i])
        /\ \A i \in DOMAIN stream : i \in Int
    BY <1>25, StreamShrinks DEF stream
  <2> HIDE DEF m
  <2>6. (ResponseIn(stream)' => ResponseIn(stream))
          /\ \A d : UpdateIn(stream, d)' => UpdateIn(stream, d)
    BY <2>5 DEF ResponseIn, UpdateIn, UpdateOf
  <2>7. ~ResponseIn(stream) => ~HandlesResponse'
    BY <2>4 DEF ResponseIn, HandlesResponse, m
  <2>8. (Asked => Asked') /\ (Posted => Posted')
    BY <2>2, <2>3, <2>6, <2>7 DEF Asked, Posted, Quiet
  <2>9. ~Handled
    BY <2>1 DEF Handled
  <2>10. ASSUME Sent PROVE Sent' \/ Handled'
    <3>1. PICK k \in DOMAIN stream :
            /\ stream[k].type = want
            /\ \A i \in DOMAIN stream : i # k => stream[i].type \notin Responses
            /\ EndsChannel => \A i \in DOMAIN stream : i > k => ~UpdateOf(stream[i], Ended)
      BY <2>10 DEF Sent
    <3>2. CASE k = 1
      <4>1. ~ResponseIn(stream')
        BY <2>5, <3>1, <3>2 DEF ResponseIn
      <4>2. EndsChannel => ~UpdateIn(stream', Ended)
        BY <2>5, <3>1, <3>2 DEF UpdateIn
      <4>3. reader'.msg.type = want'
        BY <2>2, <2>4, <3>1, <3>2 DEF m
      <4> QED
        BY <2>2, <2>3, <2>4, <2>10, <4>1, <4>2, <4>3 DEF Sent, Handled, Quiet
    <3>3. CASE k # 1
      <4>1. k - 1 \in DOMAIN stream' /\ stream'[k - 1].type = want'
        BY <2>2, <2>5, <3>1, <3>3
      <4>2. \A i \in DOMAIN stream' : i # k - 1 => stream'[i].type \notin Responses
        BY <2>5, <3>1
      <4>3. EndsChannel => \A i \in DOMAIN stream' : i > k - 1 => ~UpdateOf(stream'[i], Ended)
        BY <2>5, <3>1
      <4>4. ~HandlesResponse'
        BY <2>4, <3>1, <3>3 DEF HandlesResponse, m
      <4> QED
        BY <2>2, <2>3, <2>10, <4>1, <4>2, <4>3, <4>4 DEF Sent
    <3> QED
      BY <3>2, <3>3
  <2> QED
    BY <2>2, <2>3, <2>6, <2>7, <2>8, <2>9, <2>10 DEF Conversation, Quiet
<1>26. ASSUME NEW g \in Gens, RxHandle(g)
      PROVE  Converses'
  <2>1. g = current
          /\ UNCHANGED <<pc, after, want, todo, channelActive, pending, monitored, stream>>
    BY <1>26, OnlyReader DEF RxHandle, stream
  <2>2. reader'.pc # "handling" /\ reader.pc = "handling"
    BY <1>26, <2>1 DEF RxHandle, ThreadGoesOn, ThreadEnds, NoThread, reader, ThreadTypes
  <2>3. (EndsChannel' <=> EndsChannel) /\ Ended' = Ended /\ ~HandlesResponse'
    BY <2>1, <2>2 DEF EndsChannel, Ended, HandlesResponse
  <2>4. ~HandlesResponse => UNCHANGED <<slot, sendEvent>>
    BY <1>26, <2>1, <2>2 DEF RxHandle, HandlesResponse, Responses, DetectorsReported, reader
  <2>5. ~HandlesResponse => (Asked => Asked') /\ (Sent => Sent') /\ (Posted => Posted')
    BY <2>1, <2>3, <2>4 DEF Asked, Sent, Posted, ResponseIn, Quiet, UpdateIn
  <2>6. ASSUME Handled, pc = "await" PROVE Posted'
    <3>1. sendReady /\ reader.msg.type = want /\ want \in {"state", "success", "details"}
      BY <2>6 DEF Handled, ReceiverServes, Conversation
    <3>2. slot'.type = want' /\ sendEvent'
      BY <1>26, <2>1, <3>1 DEF RxHandle, Post, reader
    <3> QED
      BY <2>1, <2>3, <2>6, <3>2 DEF Handled, Posted, ResponseIn, Quiet, UpdateIn
  <2>7. pc = "await" => Conversation'
    BY <2>1, <2>5, <2>6 DEF Conversation, Asked, Sent, Posted
  <2>8. pc # "await" => Conversation'
    BY <2>1, <2>3, <2>4 DEF Conversation, ResponseIn, Quiet, UpdateIn
  <2> QED
    BY <2>1, <2>3, <2>7, <2>8
<1>27. ASSUME NEW g \in Gens, RxIdle(g)
      PROVE  Converses'
  <2>1. (reader.pc # "handling" /\ reader'.pc # "handling") \/ UNCHANGED reader
    BY <1>27 DEF RxIdle, ThreadEnds, NoThread, reader, ThreadTypes
  <2>2. UNCHANGED <<pc, after, want, todo, channelActive, slot, sendEvent, pending, monitored>>
          /\ UNCHANGED stream
    BY <1>27 DEF RxIdle, stream
  <2>3. (HandlesResponse' <=> HandlesResponse) /\ (Handled' <=> Handled)
    BY <2>1, <2>2 DEF HandlesResponse, Handled, ResponseIn, Quiet, EndsChannel, Ended, UpdateIn
  <2> QED
    BY <2>2, <2>3
    DEF Conversation, Asked, Sent, Posted, ResponseIn, Quiet, EndsChannel, Ended, UpdateIn
<1>28. ASSUME NEW g \in Gens, RxCancelled(g)
      PROVE  Converses'
  <2>1. (reader.pc # "handling" /\ reader'.pc # "handling") \/ UNCHANGED reader
    BY <1>28 DEF RxCancelled, ThreadEnds, NoThread, reader, ThreadTypes
  <2>2. UNCHANGED <<pc, after, want, todo, channelActive, slot, sendEvent, pending, monitored>>
          /\ UNCHANGED stream
    BY <1>28 DEF RxCancelled, stream
  <2>3. (HandlesResponse' <=> HandlesResponse) /\ (Handled' <=> Handled)
    BY <2>1, <2>2 DEF HandlesResponse, Handled, ResponseIn, Quiet, EndsChannel, Ended, UpdateIn
  <2> QED
    BY <2>2, <2>3
    DEF Conversation, Asked, Sent, Posted, ResponseIn, Quiet, EndsChannel, Ended, UpdateIn
<1>29. ASSUME NEW g \in Gens, RxUsesFreedModule(g)
      PROVE  Converses'
  <2>1. (reader.pc # "handling" /\ reader'.pc # "handling") \/ UNCHANGED reader
    BY <1>29 DEF MemoryInv, OneModule, RxUsesFreedModule, ThreadEnds, NoThread, reader, ThreadTypes
  <2>2. UNCHANGED <<pc, after, want, todo, channelActive, slot, sendEvent, pending, monitored>>
          /\ UNCHANGED stream
    BY <1>29 DEF RxUsesFreedModule, stream
  <2>3. (HandlesResponse' <=> HandlesResponse) /\ (Handled' <=> Handled)
    BY <2>1, <2>2 DEF HandlesResponse, Handled, ResponseIn, Quiet, EndsChannel, Ended, UpdateIn
  <2> QED
    BY <2>2, <2>3
    DEF Conversation, Asked, Sent, Posted, ResponseIn, Quiet, EndsChannel, Ended, UpdateIn
<1>30. CASE DeviceAnswers
  <2>1. pc = "await" /\ Asked /\ Connected
    BY <1>30 DEF DeviceAnswers, Conversation, Sent, Handled, Posted
  <2>2. PICK r \in Request : pending = <<r>> /\ ResponseOf(r.req) = want
                               /\ (EndsChannel => r.req = "monitor" /\ Ended \notin r.channels)
    BY <2>1 DEF Asked
  <2>3. UNCHANGED <<pc, after, want, todo, channelActive, slot, sendEvent, reader>>
    BY <1>30 DEF DeviceAnswers, reader
  <2>4. (EndsChannel' <=> EndsChannel) /\ Ended' = Ended
    BY <2>3 DEF EndsChannel, Ended
  <2>5. pending' = << >> /\ Head(pending) = r
    BY <1>30, <2>2 DEF DeviceAnswers
  <2>6. PICK m \in Message : Sends(m) /\ m.type = want
    BY <1>30, <2>2, <2>5, MessageTypes DEF DeviceAnswers, ResponseOf
  <2>7. EndsChannel => Ended \notin monitored'
    BY <1>30, <2>2, <2>5 DEF DeviceAnswers
  <2> DEFINE k == Len(stream) + 1
  <2>8. /\ k \in DOMAIN stream' /\ stream'[k] = m
        /\ \A i \in DOMAIN stream : i < k /\ stream'[i] = stream[i]
        /\ \A i \in DOMAIN stream' : i \in DOMAIN stream \/ i = k
        /\ k \in Int /\ \A i \in DOMAIN stream : i \in Int
    <3>1. stream \in Seq(Message)
      BY <2>1, CurrentGeneration DEF stream, Connected
    <3> HIDE DEF stream
    <3> QED
      BY <2>1, <2>6, <3>1, StreamGrows
  <2> HIDE DEF k
  <2>9. \A i \in DOMAIN stream' : i # k => stream'[i].type \notin Responses
    BY <2>1, <2>8 DEF Asked, ResponseIn
  <2>10. ASSUME NEW i \in DOMAIN stream'
         PROVE  ~(i > k)
    <3>1. CASE i = k
      BY <2>8, <3>1
    <3>2. CASE i \in DOMAIN stream
      <4>1. i < k /\ i \in Int /\ k \in Int
        BY <2>8, <3>2
      <4> QED
        BY <4>1
    <3> QED
      BY <2>8, <3>1, <3>2
  <2>11. ~HandlesResponse' /\ ~sendEvent'
    BY <2>1, <2>3 DEF Asked, HandlesResponse
  <2>12. Sent'
    BY <2>3, <2>4, <2>5, <2>6, <2>7, <2>8, <2>9, <2>10, <2>11 DEF Sent
  <2> QED
    BY <2>1, <2>3, <2>4, <2>12 DEF Conversation
<1>31. CASE DeviceRefuses
  BY <1>31 DEF DeviceRefuses, UserTypes
<1>32. ASSUME NEW c \in Channels, DeviceSends(c)
      PROVE  Converses'
  <2>1. PICK m \in Message : Sends(m) /\ m.type \notin Responses
                               /\ (m.type = "update" => m.channel \in monitored)
    BY <1>32, MessageTypes, ZenonT(40) DEF DeviceSends, Responses
  <2>2. UNCHANGED <<pc, after, want, todo, channelActive, slot, sendEvent, pending, monitored,
                    reader>>
    BY <1>32 DEF DeviceSends, reader
  <2>3. (EndsChannel' <=> EndsChannel) /\ Ended' = Ended /\ (HandlesResponse' <=> HandlesResponse)
    BY <2>2 DEF EndsChannel, Ended, HandlesResponse
  <2> DEFINE n == Len(stream) + 1
  <2>4. /\ stream'[n] = m
        /\ \A i \in DOMAIN stream : i \in DOMAIN stream' /\ stream'[i] = stream[i]
        /\ \A i \in DOMAIN stream' : i \in DOMAIN stream \/ i = n
    BY <1>32, <2>1, StreamGrows DEF DeviceSends
  <2> HIDE DEF n
  <2>5. ~ResponseIn(stream) => ~ResponseIn(stream)'
    BY <2>1, <2>4 DEF ResponseIn
  <2>6. Ended \notin monitored => ~UpdateOf(m, Ended)
    BY <2>1 DEF UpdateOf
  <2>7. Quiet => Quiet'
    BY <2>2, <2>3, <2>4, <2>6 DEF Quiet, UpdateIn
  <2>8. (Asked => Asked') /\ (Handled => Handled') /\ (Posted => Posted')
    BY <2>2, <2>3, <2>5, <2>7 DEF Asked, Handled, Posted
  <2>9. ASSUME Sent PROVE Sent'
    <3>1. PICK k \in DOMAIN stream :
            /\ stream[k].type = want
            /\ \A i \in DOMAIN stream : i # k => stream[i].type \notin Responses
            /\ EndsChannel => \A i \in DOMAIN stream : i > k => ~UpdateOf(stream[i], Ended)
      BY <2>9 DEF Sent
    <3>2. k \in DOMAIN stream' /\ stream'[k].type = want'
      BY <2>2, <2>4, <3>1
    <3>3. \A i \in DOMAIN stream' : i # k => stream'[i].type \notin Responses
      BY <2>1, <2>4, <3>1
    <3>4. EndsChannel => \A i \in DOMAIN stream' : i > k => ~UpdateOf(stream'[i], Ended)
      BY <2>4, <2>6, <2>9, <3>1 DEF Sent
    <3> QED
      BY <2>2, <2>3, <2>9, <3>2, <3>3, <3>4 DEF Sent
  <2> QED
    BY <2>2, <2>3, <2>5, <2>7, <2>8, <2>9 DEF Conversation
<1>33. CASE ConnectionLost
  BY <1>33 DEF ConnectionLost, UserTypes
<1> QED
  BY LifeNext, <1>1, <1>2, <1>3, <1>4, <1>5, <1>6, <1>7, <1>8, <1>9, <1>10, <1>11, <1>12, <1>13,
     <1>14, <1>15, <1>16, <1>17, <1>18, <1>19, <1>20, <1>21, <1>22, <1>23, <1>24, <1>25, <1>26,
     <1>27, <1>28, <1>29, <1>30, <1>31, <1>32, <1>33
  DEF LifeNext, UserCalls, UserGoesOn, Receiver, Device
(* A connection begins with nothing said and nothing to be said.           *)
LEMMA ConnectServes ==
  ASSUME LifeTypeOK, MemoryInv, NEW late \in BOOLEAN, Connect(late), UNCHANGED faults
  PROVE  Serves'
<1> DEFINE n == setups + 1
<1>1. n \in Gens /\ current' = n /\ ~late
  BY NewGeneration DEF LifeTypeOK, MemoryTypes, UserTypes, MemoryInv, Connect
<1>2. /\ rx'[n].pc = "created" /\ link'[n] = "open" /\ wire'[n] = << >> /\ pc' = "receiver"
      /\ pending' = << >> /\ monitored' = {} /\ channelActive' = {} /\ sendStatus' /\ ~sendEvent'
  BY <1>1 DEF LifeTypeOK, ThreadTypes, Thread, Connect
<1> HIDE DEF n
<1>3. ReceiverServes'
  BY <1>1, <1>2 DEF ReceiverServes, reader, Live, SetupFails
<1>4. \A c \in Channels : ~Reported(c)'
  BY <1>1, <1>2 DEF Reported, UpdateIn, stream
<1>5. DetectorsReported'
  BY <1>1, <1>2, <1>4 DEF DetectorsReported, reader
<1>6. Converses'
  BY <1>1, <1>2
  DEF Converses, Conversation, EndsChannel, Quiet, ResponseIn, HandlesResponse, stream, reader
<1> QED
  BY <1>3, <1>5, <1>6 DEF Serves

LEMMA GenerationsChange ==
  ASSUME LifeTypeOK, LifeNext
  PROVE  UNCHANGED current \/ current' = 0 \/ \E late \in BOOLEAN : Connect(late)
<1> USE DEF LifeTypeOK, MemoryTypes
<1>1. CASE InitAgain
  BY <1>1 DEF InitAgain, NewModule
<1>2. CASE ConnectFails
  BY <1>2 DEF ConnectFails, SetupModuleFails
<1>3. CASE ReceiverNotRunning
  BY <1>3 DEF ReceiverNotRunning, SetupModuleFails
<1>4. CASE EndDetectors
  BY <1>4 DEF EndDetectors
<1>5. CASE EndModule
  BY <1>5 DEF EndModule
<1>6. CASE FreeChannels
  <2>1. module' = [module EXCEPT !.ch = FALSE]
            \/ module' = [module EXCEPT !.ch = FALSE, !.listed = FALSE]
    BY <1>6 DEF FreeChannels
  <2> QED
    BY <2>1
<1>7. CASE UNCHANGED module
  BY <1>7
<1> QED
  BY LifeNext, <1>1, <1>2, <1>3, <1>4, <1>5, <1>6, <1>7
  DEF LifeNext, UserCalls, UserGoesOn, Receiver, Device, StartSystem, Exit, EndSystem, RunStarts,
      Answered, TimeOut, ReceiverRuns, SetupDetChan, Refreshed, SetupDetChanDone,
      SetupDetChanFails, SystemStarted, EndDetChan, EndDetChanFrees, EndDetectorsAgain,
      ReceiverStop, RxStart, RxRead, RxHandle, RxIdle, RxCancelled, RxUsesFreedModule,
      DeviceAnswers, DeviceRefuses, DeviceSends, ConnectionLost

LEMMA ProtocolStep ==
  ASSUME LifeTypeOK, MemoryInv, ProtocolInv, LifeNext
  PROVE  ProtocolInv'
<1> SUFFICES ASSUME faults' + losses' = 0
             PROVE  "detector" \notin touched' /\ ~astray' /\ (current' # 0 => Serves')
  BY DEF ProtocolInv
<1>1. UNCHANGED <<faults, losses>> /\ "detector" \notin touched /\ ~astray
        /\ (current # 0 => Serves)
  BY TroubleStays DEF ProtocolInv
<1>2. "detector" \notin touched' /\ ~astray'
  BY <1>1, NothingFreedIsUsed
<1>3. CASE current # 0 /\ UNCHANGED current
  BY <1>1, <1>2, <1>3, ReceiverServesStep, DetectorsReportedStep, ConversationStep DEF Serves
<1>4. CASE \E late \in BOOLEAN : Connect(late)
  BY <1>1, <1>2, <1>4, ConnectServes
<1> QED
  BY <1>2, <1>3, <1>4, GenerationsChange

LEMMA LifeInvariant == LifeSpec => []LifeInv
<1>1. LifeInit => LifeInv
  BY LifeInitInv DEF LifeInv, LifeInit, ProtocolInv, NewModule
<1>2. LifeInv /\ [LifeNext]_vars => LifeInv'
  <2> SUFFICES ASSUME LifeInv, [LifeNext]_vars
               PROVE  LifeInv'
    OBVIOUS
  <2>1. CASE LifeNext
    BY <2>1, MemoryStep, ProtocolStep DEF LifeInv
  <2>2. CASE UNCHANGED vars
    <3>1. LifeTypeOK' /\ MemoryInv'
      BY <2>2
      DEF vars, LifeInv, LifeTypeOK, MemoryTypes, ThreadTypes, RequestTypes, UserTypes, Steps,
         MemoryInv, OneModule, InModule, DetectorsOfModule, ThreadsOfModule, NoDetectors
    <3>2. Serves' <=> Serves
      BY <2>2
      DEF vars, Serves, ReceiverServes, DetectorsReported, Reported, Converses, Conversation,
         Asked, Sent, Handled, Posted, Quiet, EndsChannel, Ended, ResponseIn, UpdateIn,
         HandlesResponse, stream, reader
    <3> QED
      BY <2>2, <3>1, <3>2 DEF vars, LifeInv, ProtocolInv
  <2> QED
    BY <2>1, <2>2
<1> QED
  BY <1>1, <1>2, PTL DEF LifeSpec

(* As long as no request failed and no connection was lost, the thread     *)
(* never uses a detector that psl__EndDetChan has freed: it holds the      *)
(* module lock while it handles a message, and psl__EndDetChan holds it    *)
(* when it frees.                                                          *)
THEOREM DetectorsOutlive == LifeSpec => []DetectorOutlivesMessage
<1>1. LifeInv => DetectorOutlivesMessage
  BY DEF LifeInv, ProtocolInv, DetectorOutlivesMessage
<1> QED
  BY <1>1, LifeInvariant, PTL

(* As long as nothing failed, every update finds its detector, so that     *)
(* psl__ReceiveParamUpdated fails no request of another channel: the       *)
(* device tells of no channel it was told to leave alone, and what it had  *)
(* sent before is read before the answer to that request.                  *)
THEOREM UpdatesFindDetectors == LifeSpec => []UpdateFindsDetector
<1>1. LifeInv => UpdateFindsDetector
  BY DEF LifeInv, LifeTypeOK, UserTypes, ProtocolInv, UpdateFindsDetector
<1> QED
  BY <1>1, LifeInvariant, PTL

---------------------------------------------------------------------------
(* The firmware sets.                                                      *)

(* A set of natural numbers has a least.                                   *)
LEMMA LeastOf ==
  ASSUME NEW s, s \subseteq Nat, s # {}
  PROVE  \E x \in s : \A y \in s : x <= y
<1>1. PICK x \in s : \A y \in s : <<y, x>> \notin OpToRel(<, Nat)
  BY NatLessThanWellFounded, WFMin
<1>2. ASSUME NEW y \in s
      PROVE  x <= y
  <2>1. <<y, x>> \in OpToRel(<, Nat) <=> y < x
    BY DEF OpToRel
  <2>2. ~(y < x)
    BY <1>1, <2>1, Zenon
  <2> QED
    BY <2>2
<1> QED
  BY <1>2

---------------------------------------------------------------------------
(* Loops.  What holds of the first and of each after the one before holds  *)
(* of all, and a loop written as a recursive function is that function.    *)
LEMMA ByCounting ==
  ASSUME NEW n \in Nat, NEW T, 0 \in T, \A k \in 1 .. n : k - 1 \in T => k \in T
  PROVE  \A k \in 0 .. n : k \in T
<1> DEFINE bad == {k \in 0 .. n : k \notin T}
<1>1. SUFFICES ASSUME bad # {} PROVE FALSE
  OBVIOUS
<1>2. PICK k \in bad : \A j \in bad : k <= j
  <2>1. bad \subseteq Nat
    OBVIOUS
  <2> QED
    BY <1>1, <2>1, LeastOf
<1>3. k # 0
  OBVIOUS
<1>4. k \in 1 .. n /\ k - 1 \in 0 .. n /\ ~(k <= k - 1)
  BY <1>3
<1>5. k - 1 \in T
  BY <1>2, <1>4
<1> QED
  BY <1>4, <1>5

(* A loop of n steps from x, the steps being those of the function g.      *)
Loops(n, S, x, g) ==
  {f \in [0 .. n -> S] : f[0] = x /\ \A k \in 1 .. n : f[k] = g[<<k, f[k - 1]>>]}

LEMMA LoopExists ==
  ASSUME NEW n \in Nat, NEW S, NEW x \in S, NEW g \in [(1 .. n) \X S -> S]
  PROVE  Loops(n, S, x, g) # {}
<1> DEFINE Runs(f, m) == /\ f \in [0 .. m -> S] /\ f[0] = x
                         /\ \A k \in 1 .. m : f[k] = g[<<k, f[k - 1]>>]
           T == {m \in 0 .. n : \E f : Runs(f, m)}
<1>1. 0 \in T
  <2>1. Runs([k \in 0 .. 0 |-> x], 0)
    OBVIOUS
  <2>2. 0 \in 0 .. n
    OBVIOUS
  <2> HIDE DEF Runs
  <2> QED
    BY <2>1, <2>2
<1>2. ASSUME NEW m \in 1 .. n, m - 1 \in T
      PROVE  m \in T
  <2>1. PICK f : Runs(f, m - 1)
    BY <1>2
  <2> DEFINE h == [k \in 0 .. m |-> IF k = m THEN g[<<m, f[m - 1]>>] ELSE f[k]]
  <2>2. m - 1 \in 0 .. (m - 1) /\ f[m - 1] \in S
    BY <2>1
  <2>3. g[<<m, f[m - 1]>>] \in S
    BY <2>2
  <2>4. \A k \in 0 .. m : k # m => k \in 0 .. (m - 1)
    OBVIOUS
  <2>5. h \in [0 .. m -> S]
    BY <2>1, <2>3, <2>4
  <2>6. h[0] = x
    BY <2>1
  <2>7. ASSUME NEW k \in 1 .. m
        PROVE  h[k] = g[<<k, h[k - 1]>>]
    <3>1. k - 1 \in 0 .. m /\ k - 1 # m /\ h[k - 1] = f[k - 1]
      OBVIOUS
    <3>2. CASE k = m
      BY <3>1, <3>2
    <3>3. CASE k # m
      <4>1. k \in 1 .. (m - 1) /\ h[k] = f[k]
        BY <3>3
      <4> QED
        BY <2>1, <3>1, <4>1
    <3> QED
      BY <3>2, <3>3
  <2> HIDE DEF h
  <2>8. Runs(h, m)
    BY <2>5, <2>6, <2>7
  <2> HIDE DEF Runs
  <2> QED
    BY <2>8
<1>3. n \in T
  <2> HIDE DEF T
  <2> QED
    BY <1>1, <1>2, ByCounting
<1>4. PICK f : Runs(f, n)
  BY <1>3
<1> QED
  BY <1>4 DEF Loops

---------------------------------------------------------------------------
(* Lists of firmware.                                                      *)

(* A list of the heap: the addresses of its firmware in their order, each  *)
(* linked to the next and back, none twice, and where the list begins.     *)
IsList(mem, s, head) ==
  /\ s \in Seq(1 .. Len(mem)) /\ Len(s) <= Len(mem)
  /\ \A i, j \in 1 .. Len(s) : s[i] = s[j] => i = j
  /\ \A k \in 1 .. Len(s) : /\ mem[s[k]].next = (IF k = Len(s) THEN 0 ELSE s[k + 1])
                            /\ mem[s[k]].prev = (IF k = 1 THEN 0 ELSE s[k - 1])
  /\ head = (IF s = << >> THEN 0 ELSE s[1])

Structures(n) ==
  [ptrr : Nat \cup Ptrrs, min : Nat, max : Nat, dsp : BOOLEAN, fippi : BOOLEAN,
   next : 0 .. n, prev : 0 .. n]
Heaps(n) == [1 .. n -> Structures(n)]
FwSetLists == Seq([alias : FwAliases \cup {TheAlias}, filename : BOOLEAN, firmware : Nat])

ListOf(sets, mem, i) == ListFrom(mem, sets[i].firmware)
Members(sets, mem, i) == ToSet(ListOf(sets, mem, i))

(* What the sets of a list are linked to.                                  *)
Linked(sets, mem) ==
  /\ \A i \in DOMAIN sets : IsList(mem, ListOf(sets, mem, i), sets[i].firmware)
  /\ \A i, j \in DOMAIN sets : i # j => Members(sets, mem, i) \cap Members(sets, mem, j) = {}

(* Validation has looked at set i, and found nothing wrong.                *)
Passed(sets, mem, i) ==
  ~sets[i].filename /\ sets[i].firmware # 0 /\ NoOverlap(mem, ListOf(sets, mem, i))
Overlapping(sets, mem) ==
  \E i \in DOMAIN sets : \E f, g \in Members(sets, mem, i) :
    \/ f # g /\ mem[f].max > mem[g].min /\ mem[g].max > mem[f].min
    \/ f # g /\ mem[f].min = mem[g].min
    \/ mem[f].min > mem[f].max

FwTypes ==
  /\ fw \in Heaps(Len(fw)) /\ Len(fw) \in Nat /\ fwSets \in FwSetLists /\ lastAdded \in 0 .. Len(fw)
  /\ Len(fw) # 0 => lastAdded # 0
  /\ \A i, j \in DOMAIN fwSets : fwSets[i].alias = fwSets[j].alias => i = j

NumbersDiffer ==
  \A i \in DOMAIN fwSets : fwSets[i].alias \notin mixed =>
    \A f, g \in Members(fwSets, fw, i) : fw[f].ptrr = fw[g].ptrr => f = g

(* A range of a set that is there, and of its firmware, if that is its own.*)
RangeHeld(sets, mem, other, x) ==
  \E i \in DOMAIN sets :
    /\ sets[i].alias = x[1]
    /\ x[1] \notin other => /\ x[2] \in Members(sets, mem, i)
                            /\ x = <<x[1], x[2], mem[x[2]].min, mem[x[2]].max>>
RangesHeld == \A x \in ranges : RangeHeld(fwSets, fw, mixed, x)

StatusTold ==
  /\ fwStatus = "validated" =>
       \A i \in DOMAIN fwSets : (\A j \in 1 .. i : ~fwSets[j].filename) => Passed(fwSets, fw, i)
  /\ fwStatus = "overlap" => Overlapping(fwSets, fw)

FwInv == FwTypes /\ Linked(fwSets, fw) /\ NumbersDiffer /\ RangesHeld /\ StatusTold

(* ListFrom follows a list from its beginning to its end.                  *)
LEMMA ListFromIs ==
  ASSUME NEW mem, Len(mem) \in Nat, mem \in Heaps(Len(mem)), NEW s, NEW head, IsList(mem, s, head)
  PROVE  ListFrom(mem, head) = s
<1> DEFINE n == Len(mem)
           S == 0 .. n
           After(f) == IF f = 0 THEN 0 ELSE mem[f].next
           Follows(at) == at = [k \in 0 .. n |-> IF k = 0 THEN head ELSE LET before == at[k - 1] IN
                                                   IF before = 0 THEN 0 ELSE mem[before].next]
           at == CHOOSE at : Follows(at)
           length == Cardinality({k \in 0 .. n - 1 : at[k] # 0})
<1>0. /\ n \in Nat /\ s \in Seq(1 .. n) /\ Len(s) \in Nat /\ Len(s) <= n
      /\ \A k \in 1 .. Len(s) : s[k] \in 1 .. n
      /\ s = [k \in 1 .. Len(s) |-> s[k]]
      /\ \A f \in 1 .. n : mem[f].next \in 0 .. n
  BY LenProperties, ElementOfSeq, SeqDef DEF IsList, Heaps, Structures
<1>1. head \in S
  <2>1. CASE s = << >>
    BY <1>0, <2>1 DEF IsList
  <2>2. CASE s # << >>
    <3>1. 1 \in 1 .. Len(s)
      BY <1>0, <2>2, EmptySeq
    <3> QED
      BY <1>0, <2>2, <3>1 DEF IsList
  <2> QED
    BY <2>1, <2>2
<1>2. \A f \in S : After(f) \in S
  BY <1>0
<1>3. Follows(at)
  <2> DEFINE g == [p \in (1 .. n) \X S |-> After(p[2])]
  <2>1. g \in [(1 .. n) \X S -> S]
    BY <1>2
  <2>2. PICK f \in [0 .. n -> S] : f[0] = head /\ \A k \in 1 .. n : f[k] = g[<<k, f[k - 1]>>]
    <3>0. SUFFICES \E f : f \in Loops(n, S, head, g)
      BY DEF Loops
    <3>1. n \in Nat
      BY <1>0
    <3> HIDE DEF g, S, n
    <3> QED
      BY <3>1, <1>1, <2>1, LoopExists
  <2>3. \A k \in 1 .. n : <<k, f[k - 1]>> \in (1 .. n) \X S
    BY <1>0
  <2>4. \A k \in 1 .. n : g[<<k, f[k - 1]>>] = After(f[k - 1])
    BY <2>3
  <2>5. \A k \in 0 .. n : k # 0 => k \in 1 .. n
    BY <1>0
  <2>6. f = [k \in 0 .. n |-> IF k = 0 THEN head ELSE After(f[k - 1])]
    <3>1. f = [k \in 0 .. n |-> f[k]]
      BY <2>2
    <3> HIDE DEF g, After
    <3>2. \A k \in 0 .. n : f[k] = IF k = 0 THEN head ELSE After(f[k - 1])
      BY <2>2, <2>4, <2>5
    <3> QED
      BY <3>1, <3>2
  <2>7. Follows(f)
    BY <2>6
  <2> HIDE DEF Follows
  <2> QED
    BY <2>7
<1>4. ListFrom(mem, head) = [k \in 1 .. length |-> at[k - 1]]
  BY DEF ListFrom
<1> HIDE DEF at
<1>5. at[0] = head /\ \A k \in 1 .. n : at[k] = IF at[k - 1] = 0 THEN 0 ELSE mem[at[k - 1]].next
  BY <1>0, <1>3
<1> HIDE DEF Follows
<1> DEFINE Node(k) == IF k < Len(s) THEN s[k + 1] ELSE 0
           T == {k \in 0 .. n : at[k] = Node(k)}
<1>6. 0 \in T
  <2>1. s = << >> <=> Len(s) = 0
    BY <1>0, EmptySeq
  <2>2. head = Node(0)
    BY <1>0, <2>1 DEF IsList
  <2> QED
    BY <1>0, <1>5, <2>2
<1>7. ASSUME NEW k \in 1 .. n, k - 1 \in T
      PROVE  k \in T
  <2>1. at[k - 1] = IF k - 1 < Len(s) THEN s[k] ELSE 0
    BY <1>0, <1>7
  <2>2. CASE k <= Len(s)
    <3>1. k \in 1 .. Len(s) /\ at[k - 1] = s[k] /\ s[k] # 0
      BY <1>0, <2>1, <2>2
    <3>2. mem[s[k]].next = IF k = Len(s) THEN 0 ELSE s[k + 1]
      BY <3>1 DEF IsList
    <3> QED
      BY <1>0, <1>5, <2>2, <3>1, <3>2
  <2>3. CASE ~(k <= Len(s))
    BY <1>0, <1>5, <2>1, <2>3
  <2> QED
    BY <2>2, <2>3
<1>8. \A k \in 0 .. n : at[k] = Node(k)
  <2>1. \A k \in 0 .. n : k \in T
    <3> HIDE DEF T
    <3> QED
      BY <1>0, <1>6, <1>7, ByCounting
  <2> QED
    BY <2>1
<1>9. length = Len(s)
  <2>1. {k \in 0 .. n - 1 : at[k] # 0} = 0 .. (Len(s) - 1)
    <3>1. \A k \in 0 .. n - 1 : at[k] # 0 <=> k < Len(s)
      <4>1. \A k \in 0 .. n - 1 : k < Len(s) => k + 1 \in 1 .. Len(s)
        BY <1>0
      <4> QED
        BY <1>0, <1>8, <4>1
    <3> QED
      BY <1>0, <3>1
  <2>2. Cardinality(0 .. (Len(s) - 1)) = Len(s)
    <3> DEFINE last == Len(s) - 1
    <3>1. last \in Int /\ 0 \in Int /\ Len(s) = last + 1 /\ last >= -1
      BY <1>0
    <3> HIDE DEF last
    <3>2. Cardinality(0 .. last) = IF 0 > last THEN 0 ELSE last - 0 + 1
      BY <3>1, FS_Interval
    <3>3. Cardinality(0 .. last) = Len(s)
      BY <3>1, <3>2
    <3> QED
      BY <3>3 DEF last
  <2> QED
    BY <2>1, <2>2
<1>10. \A k \in 1 .. Len(s) : at[k - 1] = s[k]
  <2>1. \A k \in 1 .. Len(s) : k - 1 \in 0 .. n /\ k - 1 < Len(s) /\ (k - 1) + 1 = k
    BY <1>0
  <2> QED
    BY <1>8, <2>1
<1> QED
  BY <1>0, <1>4, <1>9, <1>10

(* Two structures of the heap that go by the same number, range and files, *)
(* wherever they are linked.                                               *)
SameFirmware(f, g) ==
  f.ptrr = g.ptrr /\ f.min = g.min /\ f.max = g.max /\ f.dsp = g.dsp /\ f.fippi = g.fippi

(* The heap h is mem, in which only the list s was linked anew, as t.      *)
Relinked(mem, h, s, t) ==
  /\ h \in Heaps(Len(mem)) /\ Len(h) = Len(mem)
  /\ \A f \in 1 .. Len(mem) : SameFirmware(h[f], mem[f])
  /\ \A f \in 1 .. Len(mem) : (\A k \in 1 .. Len(s) : s[k] # f) => h[f] = mem[f]
  /\ IsList(h, t, t[1]) /\ Len(t) = Len(s)
  /\ \A f : (\E k \in 1 .. Len(s) : s[k] = f) <=> (\E k \in 1 .. Len(s) : t[k] = f)

LEMMA HeapLength ==
  ASSUME NEW n \in Nat, NEW h \in Heaps(n)
  PROVE  Len(h) = n /\ h \in Seq(Structures(n))
BY LenProperties, SeqDef DEF Heaps

Exchanged(s, k) == [i \in 1 .. Len(s) |-> IF i = k THEN s[k + 1] ELSE IF i = k + 1 THEN s[k] ELSE s[i]]

(* xiaSwap exchanges two neighbours of a list, and nothing else.           *)
LEMMA SwappedIs ==
  ASSUME NEW mem, Len(mem) \in Nat, mem \in Heaps(Len(mem)), NEW s, s # << >>, IsList(mem, s, s[1]),
         NEW k \in 1 .. Len(s) - 1
  PROVE  Relinked(mem, Swapped(mem, s[k]), s, Exchanged(s, k))
<1> DEFINE n == Len(mem)
           m == Len(s)
           t == Exchanged(s, k)
           h == Swapped(mem, s[k])
           l == s[k]
           r == s[k + 1]
           before == IF k = 1 THEN 0 ELSE s[k - 1]
           behind == IF k + 1 = m THEN 0 ELSE s[k + 2]
<1>0. /\ n \in Nat /\ m \in Nat /\ m <= n /\ s = [i \in 1 .. m |-> s[i]]
      /\ \A i \in 1 .. m : s[i] \in 1 .. n
      /\ \A i, j \in 1 .. m : s[i] = s[j] => i = j
      /\ k \in 1 .. m /\ k + 1 \in 1 .. m /\ (k # 1 => k - 1 \in 1 .. m)
      /\ (k + 1 # m => k + 2 \in 1 .. m)
  <2>1. m \in Nat /\ s = [i \in 1 .. m |-> s[i]] /\ \A i \in 1 .. m : s[i] \in 1 .. n
    BY LenProperties, ElementOfSeq, SeqDef DEF IsList
  <2>2. m <= n /\ \A i, j \in 1 .. m : s[i] = s[j] => i = j
    BY DEF IsList
  <2>3. /\ k \in 1 .. m /\ k + 1 \in 1 .. m /\ (k # 1 => k - 1 \in 1 .. m)
        /\ (k + 1 # m => k + 2 \in 1 .. m)
    <3> HIDE DEF m
    <3> QED
      BY <2>1
  <2> QED
    BY <2>1, <2>2, <2>3
<1>k. k \in Nat /\ m \in Nat /\ k >= 1 /\ k + 1 <= m
  BY <1>0
<1>1. \A i \in 1 .. m : /\ mem[s[i]].next = (IF i = m THEN 0 ELSE s[i + 1])
                        /\ mem[s[i]].prev = (IF i = 1 THEN 0 ELSE s[i - 1])
  BY DEF IsList
<1>2. /\ mem[l].next = r /\ mem[l].prev = before /\ mem[r].next = behind
      /\ l \in 1 .. n /\ r \in 1 .. n /\ l # r /\ before \in 0 .. n /\ behind \in 0 .. n
      /\ before # l /\ before # r /\ behind # l /\ behind # r /\ (before # 0 => before # behind)
  <2>1. mem[l].next = r /\ mem[l].prev = before /\ mem[r].next = behind
    <3>1. k # m /\ (k + 1) + 1 = k + 2
      BY <1>0
    <3> QED
      BY <1>0, <1>1, <3>1
  <2>2. l \in 1 .. n /\ r \in 1 .. n /\ l # r
    <3>1. k # k + 1
      BY <1>0
    <3> QED
      BY <1>0, <3>1
  <2>3. before \in 0 .. n /\ before # l /\ before # r
    <3>1. CASE k = 1
      BY <1>0, <2>2, <3>1
    <3>2. CASE k # 1
      <4>1. k - 1 # k /\ k - 1 # k + 1 /\ s[k - 1] \in 1 .. n
        BY <1>0, <3>2
      <4> QED
        BY <1>0, <3>2, <4>1
    <3> QED
      BY <3>1, <3>2
  <2>4. behind \in 0 .. n /\ behind # l /\ behind # r /\ (before # 0 => before # behind)
    <3>1. CASE k + 1 = m
      BY <1>0, <2>2, <3>1
    <3>2. CASE k + 1 # m
      <4>1. k + 2 # k /\ k + 2 # k + 1 /\ k + 2 # k - 1 /\ s[k + 2] \in 1 .. n
        BY <1>0, <3>2
      <4> QED
        BY <1>0, <3>2, <4>1
    <3> QED
      BY <3>1, <3>2
  <2> QED
    BY <2>1, <2>2, <2>3, <2>4
<1>3. \A f \in 1 .. n : mem[f] \in Structures(n)
  BY DEF Heaps
<1>4. h = [f \in 1 .. n |->
            CASE f = l      -> [mem[f] EXCEPT !.next = behind, !.prev = r]
              [] f = r      -> [mem[f] EXCEPT !.prev = before, !.next = l]
              [] f = before -> [mem[f] EXCEPT !.next = r]
              [] f = behind -> [mem[f] EXCEPT !.prev = l]
              [] OTHER      -> mem[f]]
  <2>1. DOMAIN mem = 1 .. n
    BY DEF Heaps
  <2> HIDE DEF before, behind, l, r, n
  <2> QED
    BY <1>2, <2>1 DEF Swapped, l
<1> HIDE DEF h
<1>5. /\ h[l] = [mem[l] EXCEPT !.next = behind, !.prev = r]
      /\ h[r] = [mem[r] EXCEPT !.prev = before, !.next = l]
      /\ before # 0 => h[before] = [mem[before] EXCEPT !.next = r]
      /\ behind # 0 => h[behind] = [mem[behind] EXCEPT !.prev = l]
      /\ \A f \in 1 .. n : f \notin {l, r, before, behind} => h[f] = mem[f]
  <2> HIDE DEF before, behind, l, r, n
  <2>1. h[l] = [mem[l] EXCEPT !.next = behind, !.prev = r]
    BY <1>2, <1>4
  <2>2. h[r] = [mem[r] EXCEPT !.prev = before, !.next = l]
    BY <1>2, <1>4
  <2>3. before # 0 => h[before] = [mem[before] EXCEPT !.next = r]
    <3> SUFFICES ASSUME before # 0 PROVE h[before] = [mem[before] EXCEPT !.next = r]
      OBVIOUS
    <3>1. before \in 1 .. n /\ before # l /\ before # r /\ before # behind
      BY <1>0, <1>2
    <3> QED
      BY <1>4, <3>1
  <2>4. behind # 0 => h[behind] = [mem[behind] EXCEPT !.prev = l]
    <3> SUFFICES ASSUME behind # 0 PROVE h[behind] = [mem[behind] EXCEPT !.prev = l]
      OBVIOUS
    <3>1. behind \in 1 .. n /\ behind # l /\ behind # r /\ behind # before
      BY <1>0, <1>2
    <3> QED
      BY <1>4, <3>1
  <2>5. \A f \in 1 .. n : f \notin {l, r, before, behind} => h[f] = mem[f]
    BY <1>4
  <2> QED
    BY <2>1, <2>2, <2>3, <2>4, <2>5
<1>6. \A f \in 1 .. n : h[f] \in Structures(n) /\ SameFirmware(h[f], mem[f])
  <2> SUFFICES ASSUME NEW f \in 1 .. n
               PROVE  h[f] \in Structures(n) /\ SameFirmware(h[f], mem[f])
    OBVIOUS
  <2> HIDE DEF before, behind, l, r, n
  <2>0. mem[f] \in Structures(n) /\ l \in 0 .. n /\ r \in 0 .. n
    BY <1>0, <1>2, <1>3
  <2>1. CASE f = l
    BY <1>2, <1>5, <2>0, <2>1 DEF Structures, SameFirmware
  <2>2. CASE f = r
    BY <1>2, <1>5, <2>0, <2>2 DEF Structures, SameFirmware
  <2>3. CASE f = before
    <3>1. before # 0 /\ h[f] = [mem[f] EXCEPT !.next = r]
      BY <1>0, <1>5, <2>3
    <3> QED
      BY <2>0, <3>1 DEF Structures, SameFirmware
  <2>4. CASE f = behind
    <3>1. behind # 0 /\ h[f] = [mem[f] EXCEPT !.prev = l]
      BY <1>0, <1>5, <2>4
    <3> QED
      BY <2>0, <3>1 DEF Structures, SameFirmware
  <2>5. CASE f \notin {l, r, before, behind}
    BY <1>5, <2>0, <2>5 DEF SameFirmware
  <2> QED
    BY <2>1, <2>2, <2>3, <2>4, <2>5
<1>f. /\ h[l].next = behind /\ h[l].prev = r /\ h[r].next = l /\ h[r].prev = before
      /\ before # 0 => h[before].next = r /\ h[before].prev = mem[before].prev
      /\ behind # 0 => h[behind].prev = l /\ h[behind].next = mem[behind].next
  <2> HIDE DEF before, behind, l, r, n
  <2>1. /\ mem[l] \in Structures(n) /\ mem[r] \in Structures(n)
        /\ before # 0 => mem[before] \in Structures(n)
        /\ behind # 0 => mem[behind] \in Structures(n)
    BY <1>0, <1>2, <1>3
  <2> QED
    BY <1>5, <2>1 DEF Structures
<1>7. h \in Heaps(n) /\ Len(h) = n
  <2>1. h \in Heaps(n)
    <3> HIDE DEF before, behind, l, r, n
    <3> QED
      BY <1>4, <1>6 DEF Heaps
  <2> QED
    BY <1>0, <2>1, HeapLength
<1>8. ASSUME NEW f \in 1 .. n, \A i \in 1 .. m : s[i] # f
      PROVE  h[f] = mem[f]
  <2>1. f \notin {l, r, before, behind}
    BY <1>0, <1>8
  <2> QED
    BY <1>5, <2>1
<1>9. /\ t = [i \in 1 .. m |-> t[i]] /\ t[k] = r /\ t[k + 1] = l
      /\ \A i \in 1 .. m : i # k /\ i # k + 1 => t[i] = s[i]
      /\ \A i \in 1 .. m : t[i] \in 1 .. n
  BY <1>0 DEF Exchanged
<1> HIDE DEF t
<1>10. t \in Seq(1 .. n) /\ Len(t) = m /\ t # << >>
  <2>1. t \in Seq(1 .. n) /\ DOMAIN t = 1 .. m
    <3>1. t \in [1 .. m -> 1 .. n] /\ m \in Nat
      BY <1>k, <1>9
    <3> HIDE DEF n, m
    <3>2. t \in Seq(1 .. n)
      BY <3>1, SeqDef
    <3> QED
      BY <3>1, <3>2
  <2>2. Len(t) = m
    BY <1>0, <2>1, LenProperties
  <2> QED
    BY <1>0, <2>1, <2>2
<1>11. \A f : (\E i \in 1 .. m : s[i] = f) <=> (\E i \in 1 .. m : t[i] = f)
  BY <1>0, <1>9
<1>12. ASSUME NEW i \in 1 .. m, NEW j \in 1 .. m, t[i] = t[j]
       PROVE  i = j
  <2> DEFINE Was(o) == IF o = k THEN k + 1 ELSE IF o = k + 1 THEN k ELSE o
  <2>1. \A o \in 1 .. m : Was(o) \in 1 .. m /\ t[o] = s[Was(o)]
    BY <1>0, <1>9
  <2>2. Was(i) = Was(j)
    <3> HIDE DEF Was
    <3> QED
      BY <1>0, <1>12, <2>1
  <2> QED
    BY <1>0, <2>2
<1>13. ASSUME NEW i \in 1 .. m
       PROVE  /\ h[t[i]].next = (IF i = m THEN 0 ELSE t[i + 1])
              /\ h[t[i]].prev = (IF i = 1 THEN 0 ELSE t[i - 1])
  <2>0. /\ k + 1 # m => k + 2 \in 1 .. m /\ t[k + 2] = s[k + 2]
        /\ k # 1 => k - 1 \in 1 .. m /\ t[k - 1] = s[k - 1]
    <3>1. k + 2 # k /\ k + 2 # k + 1 /\ k - 1 # k /\ k - 1 # k + 1
      BY <1>0
    <3> QED
      BY <1>0, <1>9, <3>1
  <2>1. CASE i = k
    <3>1. h[t[i]].next = l /\ h[t[i]].prev = before
      BY <1>f, <1>9, <2>1
    <3>2. i # m /\ t[i + 1] = l /\ before = (IF i = 1 THEN 0 ELSE t[i - 1])
      BY <1>0, <1>9, <2>0, <2>1
    <3> QED
      BY <3>1, <3>2
  <2>2. CASE i = k + 1
    <3>1. h[t[i]].next = behind /\ h[t[i]].prev = r
      BY <1>f, <1>9, <2>2
    <3>2. i # 1 /\ i - 1 = k /\ i + 1 = k + 2
      BY <1>k, <2>2
    <3>3. behind = IF i = m THEN 0 ELSE t[i + 1]
      BY <2>0, <2>2, <3>2
    <3> QED
      BY <1>9, <3>1, <3>2, <3>3
  <2>3. CASE i = k - 1
    <3>0. k # 1 /\ i # m /\ i + 1 = k
      BY <1>k, <2>3
    <3>1. t[i] = before /\ before # 0 /\ before \in 1 .. n
      <4>1. s[k - 1] \in 1 .. n /\ s[k - 1] # 0
        BY <1>0, <3>0
      <4> QED
        BY <2>0, <2>3, <3>0, <4>1
    <3>2. h[before].next = r /\ h[before].prev = mem[before].prev
      BY <1>f, <3>1
    <3>3. mem[before].prev = IF i = 1 THEN 0 ELSE s[i - 1]
      BY <1>1, <2>3, <3>0, <3>1
    <3>4. i # 1 => i - 1 \in 1 .. m /\ t[i - 1] = s[i - 1]
      <4>1. i # 1 => i - 1 \in 1 .. m /\ i - 1 # k /\ i - 1 # k + 1
        BY <1>0, <2>3
      <4> QED
        BY <1>9, <4>1
    <3> QED
      BY <1>9, <3>0, <3>1, <3>2, <3>3, <3>4
  <2>4. CASE i = k + 2
    <3>0. k + 1 # m /\ i # 1 /\ i - 1 = k + 1
      BY <1>0, <2>4
    <3>1. t[i] = behind /\ behind # 0 /\ behind \in 1 .. n
      <4>1. s[k + 2] \in 1 .. n /\ s[k + 2] # 0
        BY <1>0, <3>0
      <4> QED
        BY <2>0, <2>4, <3>0, <4>1
    <3>2. h[behind].prev = l /\ h[behind].next = mem[behind].next
      BY <1>f, <3>1
    <3>3. mem[behind].next = IF i = m THEN 0 ELSE s[i + 1]
      BY <1>1, <2>4, <3>0, <3>1
    <3>4. i # m => i + 1 \in 1 .. m /\ t[i + 1] = s[i + 1]
      <4>1. i # m => i + 1 \in 1 .. m /\ i + 1 # k /\ i + 1 # k + 1
        BY <1>0, <2>4
      <4> QED
        BY <1>9, <4>1
    <3> QED
      BY <1>9, <3>0, <3>1, <3>2, <3>3, <3>4
  <2>5. CASE i \notin {k - 1, k, k + 1, k + 2}
    <3>1. t[i] = s[i] /\ s[i] \in 1 .. n
      BY <1>0, <1>9, <2>5
    <3>2. s[i] \notin {l, r, before, behind}
      BY <1>0, <2>5
    <3>3. h[t[i]] = mem[s[i]]
      BY <1>5, <3>1, <3>2
    <3>4. /\ i # m => i + 1 \in 1 .. m /\ t[i + 1] = s[i + 1]
          /\ i # 1 => i - 1 \in 1 .. m /\ t[i - 1] = s[i - 1]
      <4>1. /\ i # m => i + 1 \in 1 .. m /\ i + 1 # k /\ i + 1 # k + 1
            /\ i # 1 => i - 1 \in 1 .. m /\ i - 1 # k /\ i - 1 # k + 1
        <5> HIDE DEF m
        <5> QED
          BY <1>k, <2>5
      <4> QED
        BY <1>9, <4>1
    <3> QED
      BY <1>1, <3>3, <3>4
  <2> QED
    BY <2>1, <2>2, <2>3, <2>4, <2>5
<1>14. IsList(h, t, t[1])
  BY <1>0, <1>7, <1>10, <1>12, <1>13 DEF IsList
<1> QED
  BY <1>6, <1>7, <1>8, <1>10, <1>11, <1>14 DEF Relinked, h, t

LEMMA RelinkedTwice ==
  ASSUME NEW mem, Len(mem) \in Nat, NEW h, NEW g, NEW s, NEW t, NEW u,
         Relinked(mem, h, s, t), Relinked(h, g, t, u)
  PROVE  Relinked(mem, g, s, u)
<1> USE DEF Relinked
<1>1. Len(g) = Len(mem) /\ g \in Heaps(Len(mem)) /\ IsList(g, u, u[1]) /\ Len(u) = Len(s)
  OBVIOUS
<1>2. \A f \in 1 .. Len(mem) : SameFirmware(g[f], mem[f])
  BY DEF SameFirmware
<1>3. \A f : (\E k \in 1 .. Len(s) : s[k] = f) <=> (\E k \in 1 .. Len(s) : u[k] = f)
  OBVIOUS
<1>4. ASSUME NEW f \in 1 .. Len(mem), \A k \in 1 .. Len(s) : s[k] # f
      PROVE  g[f] = mem[f]
  <2>1. \A k \in 1 .. Len(s) : t[k] # f
    BY <1>4
  <2> QED
    BY <1>4, <2>1
<1> QED
  BY <1>1, <1>2, <1>3, <1>4

LEMMA RelinkedNot ==
  ASSUME NEW mem, Len(mem) \in Nat, mem \in Heaps(Len(mem)), NEW s, IsList(mem, s, s[1])
  PROVE  Relinked(mem, mem, s, s)
BY DEF Relinked, SameFirmware

(* A list in which the firmware at position k has been moved forward to j. *)
MovedTo(s, k, j) ==
  [i \in 1 .. Len(s) |-> IF i < j \/ i > k THEN s[i] ELSE IF i = j THEN s[k] ELSE s[i - 1]]

(* It goes no further: it is at the beginning or behind one not greater.   *)
StopsAt(mem, s, k, j) == j = 1 \/ mem[s[j - 1]].min <= mem[s[k]].min

LEMMA MovedIs ==
  ASSUME NEW mem, Len(mem) \in Nat, mem \in Heaps(Len(mem)), NEW s, s # << >>, IsList(mem, s, s[1]),
         NEW k \in 1 .. Len(s), NEW j \in 1 .. k, NEW h, Relinked(mem, h, s, MovedTo(s, k, j))
  PROVE  /\ StopsAt(mem, s, k, j) => Moved(h, s[k]) = h
         /\ ~StopsAt(mem, s, k, j) =>
              /\ j - 1 \in 1 .. k /\ mem[s[j - 1]].min > mem[s[k]].min
              /\ Relinked(mem, Moved(h, s[k]), s, MovedTo(s, k, j - 1))
<1> DEFINE m == Len(s)
           t == MovedTo(s, k, j)
<1>0. m \in Nat /\ Len(t) = m /\ IsList(h, t, t[1]) /\ Len(h) = Len(mem) /\ h \in Heaps(Len(mem))
  BY LenProperties DEF IsList, Relinked
<1>1. /\ k \in Nat /\ j \in Nat /\ 1 <= j /\ j <= k /\ k <= m
      /\ j \in 1 .. m /\ (j # 1 => j - 1 \in 1 .. m /\ j - 1 < j)
  BY <1>0
<1>2. t[j] = s[k] /\ (j # 1 => t[j - 1] = s[j - 1])
  BY <1>1 DEF MovedTo
<1>3. h[s[k]].prev = IF j = 1 THEN 0 ELSE s[j - 1]
  BY <1>0, <1>1, <1>2 DEF IsList
<1>4. /\ \A i \in 1 .. m : s[i] \in 1 .. Len(mem)
      /\ \A f \in 1 .. Len(mem) : h[f].min = mem[f].min /\ mem[f].min \in Nat
  <2>1. \A i \in 1 .. m : s[i] \in 1 .. Len(mem)
    BY ElementOfSeq DEF IsList
  <2> QED
    BY <2>1 DEF Relinked, SameFirmware, Heaps, Structures
<1>5. h[s[k]].min = mem[s[k]].min /\ (j # 1 => h[s[j - 1]].min = mem[s[j - 1]].min /\ s[j - 1] # 0)
  <2>1. s[k] \in 1 .. Len(mem) /\ (j # 1 => s[j - 1] \in 1 .. Len(mem))
    BY <1>1, <1>4
  <2>2. \A f \in 1 .. Len(mem) : f # 0
    OBVIOUS
  <2> QED
    BY <1>4, <2>1, <2>2
<1>6. /\ mem[s[k]].min \in Nat /\ (j # 1 => mem[s[j - 1]].min \in Nat)
  BY <1>1, <1>4
<1>7. ASSUME StopsAt(mem, s, k, j) PROVE Moved(h, s[k]) = h
  BY <1>3, <1>5, <1>6, <1>7 DEF StopsAt, Moved
<1>8. ASSUME ~StopsAt(mem, s, k, j)
      PROVE  /\ j - 1 \in 1 .. k /\ mem[s[j - 1]].min > mem[s[k]].min
             /\ Relinked(mem, Moved(h, s[k]), s, MovedTo(s, k, j - 1))
  <2>1. j # 1 /\ mem[s[j - 1]].min > mem[s[k]].min /\ j - 1 \in 1 .. k
    BY <1>1, <1>6, <1>8 DEF StopsAt
  <2>2. Moved(h, s[k]) = Swapped(h, t[j - 1])
    BY <1>2, <1>3, <1>5, <2>1 DEF Moved
  <2>3. t # << >> /\ j - 1 \in 1 .. Len(t) - 1
    BY <1>0, <1>1, <2>1
  <2>4. Relinked(h, Swapped(h, t[j - 1]), t, Exchanged(t, j - 1))
    BY <1>0, <2>3, SwappedIs
  <2>5. Exchanged(t, j - 1) = MovedTo(s, k, j - 1)
    <3>1. \A i \in 1 .. m : Exchanged(t, j - 1)[i] = MovedTo(s, k, j - 1)[i]
      <4> TAKE i \in 1 .. m
      <4>1. i \in Int /\ (j - 1) + 1 = j
        BY <1>1
      <4>2. CASE i = j - 1
        BY <1>0, <1>1, <1>2, <2>1, <4>1, <4>2 DEF Exchanged, MovedTo
      <4>3. CASE i = j
        BY <1>0, <1>1, <1>2, <2>1, <4>1, <4>3 DEF Exchanged, MovedTo
      <4>4. CASE i # j - 1 /\ i # j
        <5>1. Exchanged(t, j - 1)[i] = t[i]
          BY <1>0, <4>1, <4>4 DEF Exchanged
        <5>2. t[i] = MovedTo(s, k, j - 1)[i]
          BY <1>1, <4>1, <4>4 DEF MovedTo
        <5> QED
          BY <5>1, <5>2
      <4> QED
        BY <4>2, <4>3, <4>4
    <3> QED
      BY <1>0, <3>1 DEF Exchanged, MovedTo
  <2> QED
    BY <2>1, <2>2, <2>4, <2>5, RelinkedTwice
<1> QED
  BY <1>7, <1>8

(* The inner loop of the sort moves a firmware to behind the last one      *)
(* before it that is not greater.                                          *)
LEMMA InsertedIs ==
  ASSUME NEW mem, Len(mem) \in Nat, mem \in Heaps(Len(mem)), NEW s, s # << >>, IsList(mem, s, s[1]),
         NEW k \in 1 .. Len(s)
  PROVE  \E j \in 1 .. k :
           /\ Relinked(mem, Inserted(mem, s[k]), s, MovedTo(s, k, j)) /\ StopsAt(mem, s, k, j)
           /\ \A i \in j .. k - 1 : mem[s[i]].min > mem[s[k]].min
<1> DEFINE n == Len(mem)
           a == s[k]
           S == {h \in Heaps(n) : \E j \in 1 .. k : Relinked(mem, h, s, MovedTo(s, k, j))}
           g == [p \in (1 .. n) \X S |-> Moved(p[2], a)]
           Runs(verdict) == verdict = [i \in 0 .. n |-> IF i = 0 THEN mem ELSE Moved(verdict[i - 1], a)]
           verdict == CHOOSE verdict : Runs(verdict)
<1>0. n \in Nat /\ k \in Nat /\ 1 <= k /\ k <= Len(s) /\ Len(s) <= n /\ k \in 1 .. k /\ Len(s) \in Nat
  BY LenProperties DEF IsList
<1>1. Relinked(mem, mem, s, MovedTo(s, k, k)) /\ mem \in S
  <2>1. MovedTo(s, k, k) = s
    <3>1. \A i \in 1 .. Len(s) : MovedTo(s, k, k)[i] = s[i]
      BY <1>0 DEF MovedTo
    <3>2. s = [i \in 1 .. Len(s) |-> s[i]]
      BY SeqDef, LenProperties DEF IsList
    <3> QED
      BY <3>1, <3>2 DEF MovedTo
  <2> QED
    BY <1>0, <2>1, RelinkedNot
<1>2. \A h \in S : Moved(h, a) \in S
  <2> SUFFICES ASSUME NEW h \in S PROVE Moved(h, a) \in S
    OBVIOUS
  <2>1. PICK j \in 1 .. k : Relinked(mem, h, s, MovedTo(s, k, j))
    OBVIOUS
  <2>2. CASE StopsAt(mem, s, k, j)
    BY <2>1, <2>2, MovedIs
  <2>3. CASE ~StopsAt(mem, s, k, j)
    <3>1. j - 1 \in 1 .. k /\ Relinked(mem, Moved(h, a), s, MovedTo(s, k, j - 1))
      BY <2>1, <2>3, MovedIs
    <3>2. Moved(h, a) \in Heaps(n)
      BY <3>1 DEF Relinked
    <3> QED
      BY <3>1, <3>2
  <2> QED
    BY <2>2, <2>3
<1>3. Runs(verdict)
  <2>1. g \in [(1 .. n) \X S -> S]
    <3> HIDE DEF S
    <3> QED
      BY <1>2
  <2>2. PICK f \in [0 .. n -> S] : f[0] = mem /\ \A i \in 1 .. n : f[i] = g[<<i, f[i - 1]>>]
    <3>0. SUFFICES \E f : f \in Loops(n, S, mem, g)
      BY DEF Loops
    <3> HIDE DEF g, S, n
    <3> QED
      BY <1>0, <1>1, <2>1, LoopExists
  <2> HIDE DEF S, n
  <2>3. \A i \in 1 .. n : <<i, f[i - 1]>> \in (1 .. n) \X S
    BY <1>0
  <2>4. \A i \in 1 .. n : g[<<i, f[i - 1]>>] = Moved(f[i - 1], a)
    BY <2>3
  <2>5. \A i \in 0 .. n : i # 0 => i \in 1 .. n
    BY <1>0
  <2>6. f = [i \in 0 .. n |-> IF i = 0 THEN mem ELSE Moved(f[i - 1], a)]
    <3>1. f = [i \in 0 .. n |-> f[i]]
      BY <2>2
    <3> HIDE DEF g, a
    <3>2. \A i \in 0 .. n : f[i] = IF i = 0 THEN mem ELSE Moved(f[i - 1], a)
      BY <2>2, <2>4, <2>5
    <3> QED
      BY <3>1, <3>2
  <2>7. Runs(f)
    BY <2>6
  <2> HIDE DEF Runs
  <2> QED
    BY <2>7
<1>4. Inserted(mem, a) = verdict[n]
  BY DEF Inserted
<1> HIDE DEF verdict
<1>5. verdict[0] = mem /\ \A i \in 1 .. n : verdict[i] = Moved(verdict[i - 1], a)
  BY <1>0, <1>3
<1> HIDE DEF Runs, S, g
<1> DEFINE At(i, j) ==
             /\ Relinked(mem, verdict[i], s, MovedTo(s, k, j)) /\ (StopsAt(mem, s, k, j) \/ j = k - i)
             /\ \A o \in j .. k - 1 : mem[s[o]].min > mem[a].min
           T == {i \in 0 .. n : \E j \in 1 .. k : At(i, j)}
<1>6. 0 \in T
  <2>1. At(0, k)
    BY <1>0, <1>1, <1>5
  <2> HIDE DEF At
  <2> QED
    BY <1>0, <2>1
<1>7. ASSUME NEW i \in 1 .. n, i - 1 \in T
      PROVE  i \in T
  <2>1. PICK j \in 1 .. k : At(i - 1, j)
    BY <1>7
  <2>2. CASE StopsAt(mem, s, k, j)
    <3>1. verdict[i] = verdict[i - 1]
      BY <1>5, <2>1, <2>2, MovedIs
    <3>2. At(i, j)
      BY <2>1, <2>2, <3>1
    <3> HIDE DEF At
    <3> QED
      BY <3>2
  <2>3. CASE ~StopsAt(mem, s, k, j)
    <3>1. /\ j - 1 \in 1 .. k /\ mem[s[j - 1]].min > mem[a].min
          /\ Relinked(mem, verdict[i], s, MovedTo(s, k, j - 1))
      BY <1>5, <2>1, <2>3, MovedIs
    <3>2. j - 1 = k - i
      BY <1>0, <2>1, <2>3
    <3>3. \A o \in j - 1 .. k - 1 : o = j - 1 \/ o \in j .. k - 1
      BY <1>0
    <3>4. At(i, j - 1)
      BY <2>1, <3>1, <3>2, <3>3
    <3> HIDE DEF At
    <3> QED
      BY <3>1, <3>4
  <2> QED
    BY <2>2, <2>3
<1>8. n \in T
  <2>1. n \in Nat /\ n \in 0 .. n
    BY <1>0
  <2> HIDE DEF T, n
  <2> QED
    BY <2>1, <1>6, <1>7, ByCounting
<1>9. PICK j \in 1 .. k : At(n, j)
  BY <1>8
<1>10. StopsAt(mem, s, k, j)
  BY <1>0, <1>9
<1> QED
  BY <1>4, <1>9, <1>10

(* The first e of a list are in the order of their peaking times.          *)
SortedTo(mem, t, e) == \A i, j \in 1 .. e : i <= j => mem[t[i]].min <= mem[t[j]].min

(* Moving the next one forward makes one more of them sorted.              *)
LEMMA InsertedSorts ==
  ASSUME NEW mem, Len(mem) \in Nat, mem \in Heaps(Len(mem)), NEW t \in Seq(1 .. Len(mem)),
         NEW k \in 1 .. Len(t), SortedTo(mem, t, k - 1), NEW j \in 1 .. k, StopsAt(mem, t, k, j),
         \A i \in j .. k - 1 : mem[t[i]].min > mem[t[k]].min
  PROVE  SortedTo(mem, MovedTo(t, k, j), k)
<1> DEFINE m == Len(t)
           u == MovedTo(t, k, j)
           Least(i) == mem[t[i]].min
<1>0. m \in Nat /\ k \in Nat /\ j \in Nat /\ 1 <= j /\ j <= k /\ k <= m
  BY LenProperties
<1>1. \A i \in 1 .. m : Least(i) \in Nat
  <2>1. \A i \in 1 .. m : t[i] \in 1 .. Len(mem)
    BY ElementOfSeq
  <2> QED
    BY <2>1 DEF Heaps, Structures
<1>2. \A i \in 1 .. k : u[i] = t[IF i < j THEN i ELSE IF i = j THEN k ELSE i - 1]
  BY <1>0 DEF MovedTo
<1>3. \A i, o \in 1 .. k - 1 : i <= o => Least(i) <= Least(o)
  BY DEF SortedTo
<1>4. \A i \in 1 .. j - 1 : Least(i) <= Least(k)
  <2> SUFFICES ASSUME NEW i \in 1 .. j - 1 PROVE Least(i) <= Least(k)
    OBVIOUS
  <2>1. j # 1 /\ j - 1 \in 1 .. k - 1 /\ i \in 1 .. k - 1 /\ i <= j - 1 /\ k \in 1 .. m
        /\ i \in 1 .. m /\ j - 1 \in 1 .. m
    BY <1>0
  <2>2. Least(j - 1) <= Least(k)
    BY <2>1 DEF StopsAt
  <2>3. Least(i) <= Least(j - 1)
    BY <1>3, <2>1
  <2>4. Least(i) \in Nat /\ Least(j - 1) \in Nat /\ Least(k) \in Nat
    <3> HIDE DEF Least, m, u
    <3> QED
      BY <1>1, <2>1
  <2> HIDE DEF Least, m, u
  <2> QED
    BY <2>2, <2>3, <2>4
<1>5. \A i \in j .. k - 1 : Least(k) <= Least(i)
  <2> SUFFICES ASSUME NEW i \in j .. k - 1 PROVE Least(k) <= Least(i)
    OBVIOUS
  <2>1. i \in 1 .. m /\ k \in 1 .. m /\ Least(i) > Least(k)
    BY <1>0
  <2> HIDE DEF Least, m, u
  <2>2. Least(i) \in Nat /\ Least(k) \in Nat
    BY <1>1, <2>1
  <2> QED
    BY <2>1, <2>2
<1> SUFFICES ASSUME NEW i \in 1 .. k, NEW o \in 1 .. k, i <= o
             PROVE  mem[u[i]].min <= mem[u[o]].min
  BY DEF SortedTo
<1> DEFINE Was(x) == IF x < j THEN x ELSE IF x = j THEN k ELSE x - 1
<1>6. mem[u[i]].min = Least(Was(i)) /\ mem[u[o]].min = Least(Was(o))
  BY <1>2
<1> HIDE DEF Least, u
<1>7. CASE i = o
  <2>1. Was(i) \in 1 .. m
    BY <1>0
  <2> HIDE DEF Was
  <2> QED
    BY <1>1, <1>6, <1>7, <2>1
<1>8. CASE i # o /\ i = j
  <2>1. Was(i) = k /\ Was(o) \in j .. k - 1
    BY <1>0, <1>8
  <2> QED
    BY <1>5, <1>6, <2>1
<1>9. CASE i # o /\ o = j
  <2>1. Was(o) = k /\ Was(i) \in 1 .. j - 1
    BY <1>0, <1>9
  <2> QED
    BY <1>4, <1>6, <2>1
<1>10. CASE i # o /\ i # j /\ o # j
  <2>1. Was(i) \in 1 .. k - 1 /\ Was(o) \in 1 .. k - 1 /\ Was(i) <= Was(o)
    BY <1>0, <1>10
  <2> HIDE DEF Was
  <2> QED
    BY <1>3, <1>6, <2>1
<1> QED
  BY <1>7, <1>8, <1>9, <1>10

(* The outer loop at its firmware p of a list linked anew as t, of which   *)
(* the first e are sorted.                                                 *)
InTurn(mem, s, u, t, e, p) ==
  /\ Relinked(mem, u.heap, s, t) /\ SortedTo(mem, t, e)
  /\ e \in 1 .. Len(s) /\ p \in 2 .. Len(s) + 1 /\ p <= e + 1
  /\ u.at = (IF p = Len(s) + 1 THEN 0 ELSE t[p])
ToGo(s, e, p) == (Len(s) - e) * (Len(s) + 1) + (e + 1 - p)

LEMMA AdvancedIs ==
  ASSUME NEW mem, Len(mem) \in Nat, mem \in Heaps(Len(mem)), NEW s, s # << >>, IsList(mem, s, s[1]),
         NEW u, NEW t, NEW e, NEW p, InTurn(mem, s, u, t, e, p)
  PROVE  /\ p = Len(s) + 1 => Advanced(u) = u
         /\ p # Len(s) + 1 => \E v, f, q : InTurn(mem, s, Advanced(u), v, f, q) /\ ToGo(s, f, q) < ToGo(s, e, p)
<1> DEFINE m == Len(s)
           n == Len(mem)
           h == Inserted(u.heap, t[p])
<1>0. /\ m \in Nat /\ m >= 1 /\ Len(t) = m /\ Len(u.heap) = n /\ u.heap \in Heaps(n) /\ IsList(u.heap, t, t[1])
      /\ t \in Seq(1 .. n) /\ \A f \in 1 .. n : u.heap[f].min = mem[f].min
  <2>1. m \in Nat /\ m >= 1
    BY LenProperties, EmptySeq DEF IsList
  <2> QED
    BY <2>1 DEF InTurn, Relinked, SameFirmware, IsList
<1>1. CASE p = m + 1
  BY <1>1 DEF InTurn, Advanced
<1>2. CASE p # m + 1
  <2>1. /\ p \in 1 .. m /\ p \in Nat /\ e \in Nat /\ p >= 2 /\ p <= e + 1 /\ 1 <= e /\ e <= m
        /\ p \in 1 .. Len(t) /\ t # << >>
    BY <1>0, <1>2, EmptySeq DEF InTurn
  <2>2. t[p] \in 1 .. n /\ t[p] # 0 /\ u.at = t[p]
    BY <1>0, <1>2, <2>1, ElementOfSeq DEF InTurn
  <2>3. Advanced(u) = [heap |-> h, at |-> h[t[p]].next]
    BY <2>2 DEF Advanced
  <2>4. PICK j \in 1 .. p :
          /\ Relinked(u.heap, h, t, MovedTo(t, p, j)) /\ StopsAt(u.heap, t, p, j)
          /\ \A i \in j .. p - 1 : u.heap[t[i]].min > u.heap[t[p]].min
    BY <1>0, <2>1, InsertedIs
  <2> DEFINE v == MovedTo(t, p, j)
  <2>5. \A i \in 1 .. m : t[i] \in 1 .. n /\ u.heap[t[i]].min = mem[t[i]].min /\ mem[t[i]].min \in Nat
    BY <1>0, ElementOfSeq DEF Heaps, Structures
  <2>6. StopsAt(mem, t, p, j) /\ \A i \in j .. p - 1 : mem[t[i]].min > mem[t[p]].min
    <3>1. j # 1 => j - 1 \in 1 .. m
      BY <1>0, <2>1
    <3>2. \A i \in j .. p - 1 : i \in 1 .. m
      BY <1>0, <2>1
    <3> QED
      BY <2>1, <2>4, <2>5, <3>1, <3>2 DEF StopsAt
  <2>7. Relinked(mem, h, s, v)
    BY <2>4, RelinkedTwice DEF InTurn
  <2>8. h[t[p]].next = IF j + 1 = m + 1 THEN 0 ELSE v[j + 1]
    <3>1. v[j] = t[p] /\ j \in 1 .. m
      BY <1>0, <2>1 DEF MovedTo
    <3>2. IsList(h, v, v[1]) /\ Len(v) = m
      BY <2>7 DEF Relinked
    <3>3. h[v[j]].next = IF j = m THEN 0 ELSE v[j + 1]
      BY <3>1, <3>2 DEF IsList
    <3> QED
      BY <1>0, <3>1, <3>3
  <2>9. j \in Nat /\ 1 <= j /\ j <= p /\ j + 1 \in 2 .. m + 1
    BY <1>0, <2>1
  <2>10. CASE p = e + 1
    <3>1. e + 1 \in 1 .. m /\ j + 1 <= (e + 1) + 1
      BY <1>0, <2>1, <2>9, <2>10
    <3>2. SortedTo(mem, t, p - 1)
      BY <2>1, <2>10 DEF InTurn
    <3>3. SortedTo(mem, v, e + 1)
      BY <1>0, <2>1, <2>6, <2>10, <3>2, InsertedSorts
    <3>4. InTurn(mem, s, Advanced(u), v, e + 1, j + 1)
      BY <2>3, <2>7, <2>8, <2>9, <3>1, <3>3 DEF InTurn
    <3>5. ToGo(s, e + 1, j + 1) < ToGo(s, e, p)
      <4> DEFINE d == m + 1
                 x == m - e
      <4>1. d \in Int /\ x \in Int /\ m - (e + 1) = x - 1
        <5>1. m \in Nat /\ e \in Nat
          BY <1>0, <2>1
        <5> HIDE DEF m
        <5> QED
          BY <5>1
      <4>2. x * d = (x - 1) * d + d /\ x * d \in Int /\ (x - 1) * d \in Int
        <5> HIDE DEF d, x
        <5> QED
          BY <4>1
      <4>3. ToGo(s, e + 1, j + 1) = (x - 1) * d + ((e + 1) + 1 - (j + 1)) /\ ToGo(s, e, p) = x * d + (e + 1 - p)
        BY <4>1 DEF ToGo
      <4>4. (e + 1) + 1 - (j + 1) < d + (e + 1 - p)
        BY <1>0, <2>1, <2>9, <2>10
      <4> HIDE DEF d, x
      <4> QED
        BY <2>1, <2>9, <4>1, <4>2, <4>3, <4>4
    <3> HIDE DEF v
    <3> QED
      BY <1>2, <3>4, <3>5
  <2>11. CASE p # e + 1
    <3>1. j = p
      <4>1. SUFFICES ASSUME j # p PROVE FALSE
        OBVIOUS
      <4>2. p - 1 \in j .. p - 1 /\ p - 1 \in 1 .. e /\ p \in 1 .. e /\ p - 1 <= p /\ p - 1 \in 1 .. m
        BY <1>0, <2>1, <2>9, <2>11, <4>1
      <4>3. mem[t[p - 1]].min > mem[t[p]].min
        BY <2>6, <4>2
      <4>4. mem[t[p - 1]].min <= mem[t[p]].min
        BY <4>2 DEF InTurn, SortedTo
      <4> DEFINE x == mem[t[p - 1]].min
                 y == mem[t[p]].min
      <4>5. x \in Nat /\ y \in Nat
        BY <2>1, <2>5, <4>2
      <4> HIDE DEF x, y
      <4>6. ~(x > y /\ x <= y)
        BY <4>5
      <4> QED
        BY <4>3, <4>4, <4>6 DEF x, y
    <3>2. v = t
      <4>1. \A i \in 1 .. Len(t) : v[i] = t[i]
        BY <2>1, <3>1 DEF MovedTo
      <4>2. t = [i \in 1 .. Len(t) |-> t[i]]
        BY <1>0, SeqDef, LenProperties
      <4> QED
        BY <4>1, <4>2 DEF MovedTo
    <3>3. p + 1 <= e + 1
      BY <2>1, <2>11
    <3>4. InTurn(mem, s, Advanced(u), v, e, p + 1)
      BY <2>3, <2>7, <2>8, <2>9, <3>1, <3>2, <3>3 DEF InTurn
    <3>5. ToGo(s, e, p + 1) < ToGo(s, e, p)
      <4> DEFINE y == (m - e) * (m + 1)
      <4>1. y \in Int
        BY <1>0, <2>1
      <4>2. ToGo(s, e, p + 1) = y + (e + 1 - (p + 1)) /\ ToGo(s, e, p) = y + (e + 1 - p)
        BY DEF ToGo
      <4> HIDE DEF y
      <4> QED
        BY <2>1, <4>1, <4>2
    <3> HIDE DEF v
    <3> QED
      BY <1>2, <3>4, <3>5
  <2> QED
    BY <2>10, <2>11
<1> QED
  BY <1>1, <1>2

(* The sort of a whole list: the same firmware, linked in their order.     *)
LEMMA SortedFromIs ==
  ASSUME NEW mem, Len(mem) \in Nat, mem \in Heaps(Len(mem)), NEW s, s # << >>, IsList(mem, s, s[1])
  PROVE  \E t : /\ Relinked(mem, SortedFrom(mem, mem[s[1]].next), s, t)
                /\ SortedTo(mem, t, Len(s))
<1> DEFINE n == Len(mem)
           m == Len(s)
           last == Turns(mem)
           first == [heap |-> mem, at |-> mem[s[1]].next]
           S == {u \in [heap : Heaps(n), at : 0 .. n] : \E t, e, p : InTurn(mem, s, u, t, e, p)}
           g == [p \in (1 .. last) \X S |-> Advanced(p[2])]
           Runs(turn) == turn = [i \in 0 .. last |-> IF i = 0 THEN first ELSE Advanced(turn[i - 1])]
           turn == CHOOSE turn : Runs(turn)
<1>0. n \in Nat /\ m \in Nat /\ 1 <= m /\ m <= n /\ last \in Nat /\ last = n * n
  <2>1. n \in Nat /\ m \in Nat /\ 1 <= m /\ m <= n
    BY LenProperties, EmptySeq DEF IsList
  <2> QED
    BY <2>1 DEF Turns
<1>m. m \in Nat /\ 1 <= m
  BY <1>0
<1>1. InTurn(mem, s, first, s, 1, 2) /\ first \in S
  <2>1. mem[s[1]].next = IF 2 = m + 1 THEN 0 ELSE s[2]
    <3>1. 1 \in 1 .. m /\ (1 = m <=> 2 = m + 1)
      <4> HIDE DEF m
      <4> QED
        BY <1>m
    <3> QED
      BY <3>1 DEF IsList
  <2>2. SortedTo(mem, s, 1)
    <3>1. mem[s[1]].min \in Nat
      <4>1. s[1] \in 1 .. n
        BY <1>0, ElementOfSeq DEF IsList
      <4> QED
        BY <4>1 DEF Heaps, Structures
    <3> QED
      BY <3>1 DEF SortedTo
  <2>3. InTurn(mem, s, first, s, 1, 2)
    <3>1. 1 \in 1 .. m /\ 2 \in 2 .. m + 1 /\ 2 <= 1 + 1
      BY <1>0
    <3> QED
      BY <2>1, <2>2, <3>1, RelinkedNot DEF InTurn
  <2>4. mem[s[1]].next \in 0 .. n
    <3>1. s[1] \in 1 .. n
      BY <1>0, ElementOfSeq DEF IsList
    <3> QED
      BY <3>1 DEF Heaps, Structures
  <2> QED
    BY <2>3, <2>4
<1>2. \A u \in S : Advanced(u) \in S
  <2> SUFFICES ASSUME NEW u \in S PROVE Advanced(u) \in S
    OBVIOUS
  <2>1. PICK t, e, p : InTurn(mem, s, u, t, e, p)
    OBVIOUS
  <2>2. CASE p = m + 1
    BY <2>1, <2>2, AdvancedIs
  <2>3. CASE p # m + 1
    <3>1. PICK v, f, q : InTurn(mem, s, Advanced(u), v, f, q)
      BY <2>1, <2>3, AdvancedIs
    <3>2. Advanced(u) = u \/ Advanced(u) = [heap |-> Advanced(u).heap, at |-> Advanced(u).at]
      BY DEF Advanced
    <3>3. Advanced(u).heap \in Heaps(n)
      BY <3>1 DEF InTurn, Relinked
    <3>4. Advanced(u).at \in 0 .. n
      <4>1. v \in Seq(1 .. n) /\ Len(v) = m
        BY <3>1 DEF InTurn, Relinked, IsList
      <4>2. q # m + 1 => q \in 1 .. Len(v)
        <5>1. q \in 2 .. m + 1
          BY <3>1 DEF InTurn
        <5> HIDE DEF m
        <5> QED
          BY <1>m, <4>1, <5>1
      <4>3. Advanced(u).at = IF q = m + 1 THEN 0 ELSE v[q]
        BY <3>1 DEF InTurn
      <4>4. q # m + 1 => v[q] \in 1 .. n
        <5> HIDE DEF n, m
        <5> QED
          BY <4>1, <4>2, ElementOfSeq
      <4> HIDE DEF m
      <4> QED
        BY <1>0, <4>3, <4>4
    <3> QED
      BY <3>1, <3>2, <3>3, <3>4
  <2> QED
    BY <2>2, <2>3
<1>3. Runs(turn)
  <2>1. g \in [(1 .. last) \X S -> S]
    <3> HIDE DEF S, last
    <3> QED
      BY <1>2
  <2>2. PICK f \in [0 .. last -> S] : f[0] = first /\ \A i \in 1 .. last : f[i] = g[<<i, f[i - 1]>>]
    <3>0. SUFFICES \E f : f \in Loops(last, S, first, g)
      BY DEF Loops
    <3> HIDE DEF g, S, last, first
    <3> QED
      BY <1>0, <1>1, <2>1, LoopExists
  <2> HIDE DEF S, last
  <2>3. \A i \in 1 .. last : <<i, f[i - 1]>> \in (1 .. last) \X S
    BY <1>0
  <2>4. \A i \in 1 .. last : g[<<i, f[i - 1]>>] = Advanced(f[i - 1])
    BY <2>3
  <2>5. \A i \in 0 .. last : i # 0 => i \in 1 .. last
    BY <1>0
  <2>6. f = [i \in 0 .. last |-> IF i = 0 THEN first ELSE Advanced(f[i - 1])]
    <3>1. f = [i \in 0 .. last |-> f[i]]
      BY <2>2
    <3> HIDE DEF g, first
    <3>2. \A i \in 0 .. last : f[i] = IF i = 0 THEN first ELSE Advanced(f[i - 1])
      BY <2>2, <2>4, <2>5
    <3> QED
      BY <3>1, <3>2
  <2>7. Runs(f)
    BY <2>6
  <2> HIDE DEF Runs
  <2> QED
    BY <2>7
<1>4. SortedFrom(mem, mem[s[1]].next) = turn[last].heap
  BY DEF SortedFrom
<1> HIDE DEF turn
<1>5. turn[0] = first /\ \A i \in 1 .. last : turn[i] = Advanced(turn[i - 1])
  <2> HIDE DEF last, first
  <2> QED
    BY <1>0, <1>3
<1> HIDE DEF Runs, S, g, first
<1> DEFINE At(i, t, e, p) ==
             InTurn(mem, s, turn[i], t, e, p) /\ (p = m + 1 \/ i + ToGo(s, e, p) <= last)
           T == {i \in 0 .. last : \E t, e, p : At(i, t, e, p)}
<1>6. 0 \in T
  <2>1. ToGo(s, 1, 2) <= last
    <3>1. ToGo(s, 1, 2) = m * m - 1
      BY <1>0 DEF ToGo
    <3>2. m * m <= n * n /\ m * m \in Int /\ n * n \in Int
      <4> HIDE DEF m, n
      <4> QED
        BY <1>0
    <3> QED
      BY <1>0, <3>1, <3>2
  <2>2. ToGo(s, 1, 2) \in Int
    BY <1>0 DEF ToGo
  <2>3. At(0, s, 1, 2)
    BY <1>0, <1>1, <1>5, <2>1, <2>2
  <2> HIDE DEF At
  <2> QED
    BY <1>0, <2>3
<1>7. ASSUME NEW i \in 1 .. last, i - 1 \in T
      PROVE  i \in T
  <2>1. PICK t, e, p : At(i - 1, t, e, p)
    BY <1>7
  <2>2. CASE p = m + 1
    <3>1. At(i, t, e, p)
      BY <1>5, <2>1, <2>2, AdvancedIs
    <3> HIDE DEF At
    <3> QED
      BY <3>1
  <2>3. CASE p # m + 1
    <3>1. PICK v, f, q : InTurn(mem, s, turn[i], v, f, q) /\ ToGo(s, f, q) < ToGo(s, e, p)
      BY <1>5, <2>1, <2>3, AdvancedIs
    <3>2. ToGo(s, f, q) \in Int /\ ToGo(s, e, p) \in Int
      BY <1>0, <2>1, <3>1 DEF ToGo, InTurn
    <3>3. At(i, v, f, q)
      <4> HIDE DEF last
      <4> QED
        BY <1>0, <2>1, <2>3, <3>1, <3>2
    <3> HIDE DEF At
    <3> QED
      BY <3>3
  <2> QED
    BY <2>2, <2>3
<1>8. last \in T
  <2>1. last \in Nat /\ last \in 0 .. last
    BY <1>0
  <2> HIDE DEF T, last
  <2> QED
    BY <2>1, <1>6, <1>7, ByCounting
<1>9. PICK t, e, p : At(last, t, e, p)
  BY <1>8
<1>10. p = m + 1
  <2>1. SUFFICES ASSUME p # m + 1 PROVE FALSE
    OBVIOUS
  <2>2. m - e \in Nat /\ e + 1 - p \in Nat /\ m - e + (e + 1 - p) >= 1 /\ m + 1 >= 1
    <3>1. e \in 1 .. m /\ p \in 2 .. m + 1 /\ p <= e + 1
      BY <1>9 DEF InTurn
    <3>2. m \in Nat
      BY <1>0
    <3> HIDE DEF m
    <3>3. e \in Nat /\ p \in Nat /\ e <= m /\ p <= m
      BY <2>1, <3>1, <3>2
    <3> QED
      BY <3>1, <3>2, <3>3
  <2>3. ToGo(s, e, p) >= 1
    <3> DEFINE x == m - e
               d == m + 1
               y == e + 1 - p
    <3>1. ToGo(s, e, p) = x * d + y
      BY DEF ToGo
    <3>2. x * d >= x /\ x * d \in Nat
      <4>1. x \in Nat /\ d \in Nat /\ d >= 1
        BY <1>0, <2>2
      <4> HIDE DEF x, d
      <4> QED
        BY <4>1
    <3>3. x + y >= 1 /\ x \in Nat /\ y \in Nat
      BY <2>2
    <3> HIDE DEF x, d, y
    <3> QED
      BY <3>1, <3>2, <3>3
  <2>4. ToGo(s, e, p) \in Int
    BY <1>0, <1>9 DEF ToGo, InTurn
  <2> HIDE DEF last
  <2> QED
    BY <1>0, <1>9, <2>1, <2>3, <2>4
<1>11. e = m
  BY <1>0, <1>9, <1>10 DEF InTurn
<1> QED
  BY <1>4, <1>9, <1>11 DEF InTurn

(* Walking back from any firmware of a list ends at its first.             *)
LEMMA HeadOfIs ==
  ASSUME NEW mem, Len(mem) \in Nat, mem \in Heaps(Len(mem)), NEW s, s # << >>, IsList(mem, s, s[1]),
         NEW k \in 1 .. Len(s)
  PROVE  HeadOf(mem, s[k]) = s[1]
<1> DEFINE n == Len(mem)
           m == Len(s)
           S == 1 .. n
           Before(f) == IF mem[f].prev = 0 THEN f ELSE mem[f].prev
           g == [p \in (1 .. n) \X S |-> Before(p[2])]
           Runs(back) == back = [i \in 0 .. n |-> IF i = 0 THEN s[k] ELSE LET f == back[i - 1] IN
                                                    IF mem[f].prev = 0 THEN f ELSE mem[f].prev]
           back == CHOOSE back : Runs(back)
<1>0. n \in Nat /\ m \in Nat /\ m <= n /\ k \in Nat /\ 1 <= k /\ k <= m
  BY LenProperties DEF IsList
<1>1. (\A i \in 1 .. m : s[i] \in S) /\ s[k] \in S
  BY ElementOfSeq DEF IsList
<1>2. \A f \in S : Before(f) \in S
  BY <1>0 DEF Heaps, Structures
<1>3. Runs(back)
  <2>1. g \in [(1 .. n) \X S -> S]
    <3> HIDE DEF S, n, Before
    <3> QED
      BY <1>2
  <2>2. PICK f \in [0 .. n -> S] : f[0] = s[k] /\ \A i \in 1 .. n : f[i] = g[<<i, f[i - 1]>>]
    <3>0. SUFFICES \E f : f \in Loops(n, S, s[k], g)
      BY DEF Loops
    <3> HIDE DEF g, S, n
    <3> QED
      BY <1>0, <1>1, <2>1, LoopExists
  <2> HIDE DEF S, n
  <2>3. \A i \in 1 .. n : <<i, f[i - 1]>> \in (1 .. n) \X S
    BY <1>0
  <2>4. \A i \in 1 .. n : g[<<i, f[i - 1]>>] = Before(f[i - 1])
    BY <2>3
  <2>5. \A i \in 0 .. n : i # 0 => i \in 1 .. n
    BY <1>0
  <2>6. f = [i \in 0 .. n |-> IF i = 0 THEN s[k] ELSE Before(f[i - 1])]
    <3>1. f = [i \in 0 .. n |-> f[i]]
      BY <2>2
    <3> HIDE DEF g, Before
    <3>2. \A i \in 0 .. n : f[i] = IF i = 0 THEN s[k] ELSE Before(f[i - 1])
      BY <2>2, <2>4, <2>5
    <3> QED
      BY <3>1, <3>2
  <2>7. Runs(f)
    BY <2>6
  <2> HIDE DEF Runs
  <2> QED
    BY <2>7
<1>4. HeadOf(mem, s[k]) = back[n]
  BY DEF HeadOf
<1> HIDE DEF back
<1>5. back[0] = s[k] /\ \A i \in 1 .. n : back[i] = Before(back[i - 1])
  BY <1>0, <1>3
<1> HIDE DEF Runs, g
<1> DEFINE Place(i) == IF i < k THEN k - i ELSE 1
           T == {i \in 0 .. n : back[i] = s[Place(i)]}
<1>6. 0 \in T
  BY <1>0, <1>5
<1>7. ASSUME NEW i \in 1 .. n, i - 1 \in T
      PROVE  i \in T
  <2>1. Place(i - 1) \in 1 .. m /\ Place(i) = IF Place(i - 1) = 1 THEN 1 ELSE Place(i - 1) - 1
    BY <1>0
  <2>2. mem[s[Place(i - 1)]].prev = IF Place(i - 1) = 1 THEN 0 ELSE s[Place(i - 1) - 1]
    <3> HIDE DEF Place
    <3> QED
      BY <2>1 DEF IsList
  <2>3. Place(i - 1) # 1 => s[Place(i - 1) - 1] \in 1 .. n
    <3>1. Place(i - 1) # 1 => Place(i - 1) - 1 \in 1 .. m
      BY <1>0, <2>1
    <3> HIDE DEF Place
    <3> QED
      BY <1>1, <3>1
  <2>4. Before(s[Place(i - 1)]) = s[Place(i)]
    <3>1. \A f \in 1 .. n : f # 0
      BY <1>0
    <3> HIDE DEF Place, n
    <3> QED
      BY <2>1, <2>2, <2>3, <3>1
  <2> HIDE DEF Place, Before
  <2> QED
    BY <1>5, <1>7, <2>4
<1>8. n \in T
  <2>1. n \in Nat /\ n \in 0 .. n
    BY <1>0
  <2> HIDE DEF T, n
  <2> QED
    BY <2>1, <1>6, <1>7, ByCounting
<1>9. Place(n) = 1
  BY <1>0
<1> QED
  BY <1>4, <1>8, <1>9

---------------------------------------------------------------------------
(* The lists of all sets, when that of one is linked anew.                 *)
LEMMA OtherListStays ==
  ASSUME NEW mem, Len(mem) \in Nat, mem \in Heaps(Len(mem)),
         NEW h, Len(h) = Len(mem), h \in Heaps(Len(mem)),
         NEW s, NEW head, IsList(mem, s, head), \A k \in 1 .. Len(s) : h[s[k]] = mem[s[k]]
  PROVE  IsList(h, s, head) /\ ListFrom(h, head) = s /\ ListFrom(mem, head) = s
<1>1. IsList(h, s, head)
  BY DEF IsList
<1> QED
  BY <1>1, ListFromIs

LEMMA ListRange ==
  ASSUME NEW mem, NEW s, NEW head, IsList(mem, s, head)
  PROVE  ToSet(s) = {s[k] : k \in 1 .. Len(s)} /\ DOMAIN s = 1 .. Len(s)
BY LenProperties DEF IsList, ToSet

LEMMA ApartStays ==
  ASSUME NEW mem, Len(mem) \in Nat, mem \in Heaps(Len(mem)), NEW s, NEW first, IsList(mem, s, first),
         NEW h, NEW t, Relinked(mem, h, s, t),
         NEW r, NEW head, IsList(mem, r, head), ToSet(r) \cap ToSet(s) = {}
  PROVE  IsList(h, r, head) /\ ListFrom(h, head) = r
<1>1. ToSet(r) = {r[o] : o \in 1 .. Len(r)} /\ ToSet(s) = {s[o] : o \in 1 .. Len(s)}
  BY ListRange
<1>2. ASSUME NEW k \in 1 .. Len(r)
      PROVE  h[r[k]] = mem[r[k]]
  <2>1. r[k] \in 1 .. Len(mem)
    BY ElementOfSeq DEF IsList
  <2>2. \A o \in 1 .. Len(s) : s[o] # r[k]
    BY <1>1
  <2> QED
    BY <2>1, <2>2 DEF Relinked
<1>3. Len(h) = Len(mem) /\ h \in Heaps(Len(mem))
  BY DEF Relinked
<1> QED
  BY <1>2, <1>3, OtherListStays

(* One set begins with what is now the first of its list; the other sets   *)
(* are as they were.                                                       *)
RelinkedSets(mem, h, sets, now, i, t) ==
  /\ Linked(now, h) /\ ListOf(now, h, i) = t
  /\ \A j \in DOMAIN sets : j # i => ListOf(now, h, j) = ListOf(sets, mem, j)
  /\ \A j \in DOMAIN sets : Members(now, h, j) = Members(sets, mem, j)

LEMMA RelinkedSet ==
  ASSUME NEW mem, Len(mem) \in Nat, mem \in Heaps(Len(mem)), NEW sets,
         Linked(sets, mem), NEW i \in DOMAIN sets, NEW h, NEW t,
         Relinked(mem, h, ListOf(sets, mem, i), t),
         NEW now, DOMAIN now = DOMAIN sets, now[i].firmware = t[1],
         \A j \in DOMAIN sets : j # i => now[j] = sets[j]
  PROVE  RelinkedSets(mem, h, sets, now, i, t)
<1> DEFINE s == ListOf(sets, mem, i)
<1>0. /\ Len(h) = Len(mem) /\ h \in Heaps(Len(mem)) /\ IsList(h, t, t[1]) /\ Len(t) = Len(s)
      /\ IsList(mem, s, sets[i].firmware) /\ Relinked(mem, h, s, t)
  BY DEF Relinked, Linked
<1> HIDE DEF s
<1>5. ListOf(now, h, i) = t
  BY <1>0, ListFromIs DEF ListOf
<1>6. ASSUME NEW j \in DOMAIN sets, j # i
      PROVE  /\ ListOf(now, h, j) = ListOf(sets, mem, j)
             /\ IsList(h, ListOf(sets, mem, j), sets[j].firmware)
  <2> DEFINE r == ListOf(sets, mem, j)
  <2>1. IsList(mem, r, sets[j].firmware)
    BY DEF Linked
  <2>2. ToSet(r) \cap ToSet(s) = {}
    BY <1>6 DEF Linked, Members, s
  <2>5. IsList(h, r, sets[j].firmware) /\ ListFrom(h, sets[j].firmware) = r
    <3> HIDE DEF r
    <3> QED
      BY <1>0, <2>1, <2>2, ApartStays
  <2> QED
    BY <1>6, <2>5 DEF ListOf
<1>7. ASSUME NEW j \in DOMAIN sets
      PROVE  Members(now, h, j) = Members(sets, mem, j)
  <2>1. CASE j = i
    <3>1. ToSet(t) = {t[k] : k \in 1 .. Len(s)} /\ ToSet(s) = {s[k] : k \in 1 .. Len(s)}
      BY <1>0, ListRange
    <3>2. \A f : (\E k \in 1 .. Len(s) : s[k] = f) <=> (\E k \in 1 .. Len(s) : t[k] = f)
      BY <1>0 DEF Relinked
    <3>3. \A f : f \in ToSet(t) <=> f \in ToSet(s)
      <4>1. \A f : f \in ToSet(t) <=> \E k \in 1 .. Len(s) : t[k] = f
        BY <3>1
      <4>2. \A f : f \in ToSet(s) <=> \E k \in 1 .. Len(s) : s[k] = f
        BY <3>1
      <4> QED
        BY <3>2, <4>1, <4>2
    <3>4. ToSet(t) = ToSet(s)
      <4> DEFINE x == ToSet(t)
                 y == ToSet(s)
      <4>1. \A f : f \in x <=> f \in y
        BY <3>3
      <4> HIDE DEF x, y
      <4>2. x = y
        BY <4>1
      <4> QED
        BY <4>2 DEF x, y
    <3> QED
      BY <1>5, <2>1, <3>4 DEF Members, s
  <2>2. CASE j # i
    BY <1>6, <2>2 DEF Members
  <2> QED
    BY <2>1, <2>2
<1>8. Linked(now, h)
  <2>1. ASSUME NEW j \in DOMAIN now PROVE IsList(h, ListOf(now, h, j), now[j].firmware)
    <3>1. CASE j = i
      BY <1>0, <1>5, <3>1
    <3>2. CASE j # i
      BY <1>6, <3>2
    <3> QED
      BY <3>1, <3>2
  <2>2. \A j, k \in DOMAIN now : j # k => Members(now, h, j) \cap Members(now, h, k) = {}
    BY <1>7 DEF Linked
  <2> QED
    BY <2>1, <2>2 DEF Linked
<1> QED
  BY <1>5, <1>6, <1>7, <1>8 DEF RelinkedSets

---------------------------------------------------------------------------
(* Validation.  What it leaves whatever the sets are.                      *)
Statuses == {"next", "both", "validated", "overlap", "missing"}
Rearranged(sets, mem, v) ==
  /\ v \in [sets : FwSetLists, fw : Heaps(Len(mem)), status : Statuses] /\ Len(v.fw) = Len(mem)
  /\ DOMAIN v.sets = DOMAIN sets /\ Linked(v.sets, v.fw)
  /\ \A i \in DOMAIN sets : /\ v.sets[i].alias = sets[i].alias /\ v.sets[i].filename = sets[i].filename
                            /\ Members(v.sets, v.fw, i) = Members(sets, mem, i)
  /\ \A f \in 1 .. Len(mem) : SameFirmware(v.fw[f], mem[f])

(* What its status says after i sets.                                      *)
Says(v, i) ==
  /\ v.status = "next" => \A j \in 1 .. i : Passed(v.sets, v.fw, j)
  /\ v.status = "validated" =>
       \E j \in 1 .. i : v.sets[j].filename /\ \A k \in 1 .. j - 1 : Passed(v.sets, v.fw, k)
  /\ v.status = "overlap" => Overlapping(v.sets, v.fw)

LEMMA SetValidatedIs ==
  ASSUME NEW mem, Len(mem) \in Nat, NEW sets \in FwSetLists,
         NEW v, Rearranged(sets, mem, v), NEW i \in 1 .. Len(sets)
  PROVE  /\ Rearranged(sets, mem, SetValidated(v, i))
         /\ Says(v, i - 1) => Says(SetValidated(v, i), i)
<1> DEFINE w == SetValidated(v, i)
           s == ListOf(v.sets, v.fw, i)
           h == SortedFrom(v.fw, v.fw[v.sets[i].firmware].next)
           first == HeadOf(h, v.sets[i].firmware)
           now == [v.sets EXCEPT ![i].firmware = first]
           set == v.sets[i]
           Ends(status) == [v EXCEPT !.status = status]
           Now(status) == [sets |-> now, fw |-> h, status |-> status]
<1>0. /\ v.sets \in FwSetLists /\ v.fw \in Heaps(Len(v.fw)) /\ Len(v.fw) \in Nat /\ Linked(v.sets, v.fw)
      /\ v.status \in Statuses /\ i \in DOMAIN v.sets /\ Len(sets) \in Nat /\ i \in 1 .. i /\ i \in Nat
      /\ IsList(v.fw, s, v.sets[i].firmware) /\ DOMAIN sets = 1 .. Len(sets)
  <2>1. Len(sets) \in Nat /\ DOMAIN sets = 1 .. Len(sets)
    BY LenProperties DEF FwSetLists
  <2> QED
    BY <2>1 DEF Rearranged, Linked
<1>1. CASE v.status # "next"
  <2>1. w = v
    BY <1>1 DEF SetValidated
  <2>2. Says(v, i - 1) => Says(v, i)
    <3>1. \A j \in 1 .. i - 1 : j \in 1 .. i
      BY <1>0
    <3> QED
      BY <1>1, <3>1 DEF Says
  <2> QED
    BY <2>1, <2>2
<1>2. CASE v.status = "next" /\ (set.filename <=> (set.firmware # 0))
  <2>1. w = Ends("both")
    BY <1>2 DEF SetValidated
  <2>2. Rearranged(sets, mem, Ends("both")) /\ Says(Ends("both"), i)
    BY DEF Rearranged, Says, Statuses
  <2> QED
    BY <2>1, <2>2
<1>3. CASE v.status = "next" /\ ~(set.filename <=> (set.firmware # 0)) /\ set.filename
  <2>1. w = Ends("validated")
    BY <1>3 DEF SetValidated
  <2>2. Rearranged(sets, mem, Ends("validated"))
    BY DEF Rearranged, Statuses
  <2>3. Says(v, i - 1) => Says(Ends("validated"), i)
    <3>1. /\ Ends("validated").sets = v.sets /\ Ends("validated").fw = v.fw
          /\ Ends("validated").status = "validated"
      BY DEF Rearranged
    <3> HIDE DEF Ends
    <3> QED
      BY <1>0, <1>3, <3>1 DEF Says
  <2> QED
    BY <2>1, <2>2, <2>3
<1>4. CASE v.status = "next" /\ ~(set.filename <=> (set.firmware # 0)) /\ ~set.filename
  <2>0. set.filename \in BOOLEAN /\ set.firmware # 0 /\ s # << >> /\ s[1] = set.firmware
    <3>1. set \in [alias : FwAliases \cup {TheAlias}, filename : BOOLEAN, firmware : Nat]
      BY <1>0, ElementOfSeq, LenProperties DEF FwSetLists
    <3>2. set.firmware # 0
      BY <1>4, <3>1
    <3> QED
      BY <1>0, <3>1, <3>2 DEF IsList
  <2>1. PICK t : Relinked(v.fw, h, s, t) /\ SortedTo(v.fw, t, Len(s))
    <3>1. IsList(v.fw, s, s[1])
      BY <1>0, <2>0
    <3> HIDE DEF s, h
    <3>2. \E t : Relinked(v.fw, SortedFrom(v.fw, v.fw[s[1]].next), s, t) /\ SortedTo(v.fw, t, Len(s))
      BY <1>0, <2>0, <3>1, SortedFromIs
    <3> QED
      BY <2>0, <3>2 DEF h
  <2>2. first = t[1]
    <3>1. 1 \in 1 .. Len(s)
      BY <1>0, <2>0, LenProperties, EmptySeq DEF IsList
    <3>2. PICK k \in 1 .. Len(s) : t[k] = s[1]
      BY <2>1, <3>1 DEF Relinked
    <3>3. Len(t) = Len(s) /\ IsList(h, t, t[1]) /\ t # << >> /\ Len(h) \in Nat /\ h \in Heaps(Len(h))
      <4>1. Len(t) = Len(s) /\ IsList(h, t, t[1]) /\ Len(h) = Len(v.fw) /\ h \in Heaps(Len(v.fw))
        BY <2>1 DEF Relinked
      <4> HIDE DEF s, h
      <4>2. t # << >>
        BY <3>1, <4>1, EmptySeq
      <4> QED
        BY <1>0, <4>1, <4>2
    <3> HIDE DEF s, h
    <3> QED
      BY <2>0, <3>2, <3>3, HeadOfIs
  <2>3. /\ Linked(now, h) /\ ListOf(now, h, i) = t /\ t[1] \in Nat \ {0}
        /\ \A j \in DOMAIN v.sets : j # i => ListOf(now, h, j) = ListOf(v.sets, v.fw, j)
        /\ \A j \in DOMAIN v.sets : Members(now, h, j) = Members(v.sets, v.fw, j)
        /\ \A j \in DOMAIN v.sets : j # i => now[j] = v.sets[j]
        /\ now[i].alias = v.sets[i].alias /\ now[i].filename = v.sets[i].filename /\ now[i].firmware = t[1]
        /\ DOMAIN now = DOMAIN v.sets /\ now \in FwSetLists
    <3>1. set \in [alias : FwAliases \cup {TheAlias}, filename : BOOLEAN, firmware : Nat]
      BY <1>0, ElementOfSeq, LenProperties DEF FwSetLists
    <3>2. t[1] \in Nat \ {0}
      <4>1. Len(s) \in Nat /\ Len(s) # 0
        BY <1>0, <2>0, LenProperties, EmptySeq DEF IsList
      <4>2. 1 \in 1 .. Len(t) /\ t \in Seq(1 .. Len(v.fw))
        <5>1. IsList(h, t, t[1]) /\ Len(h) = Len(v.fw) /\ Len(t) = Len(s)
          BY <2>1 DEF Relinked
        <5> HIDE DEF h, s
        <5> QED
          BY <4>1, <5>1 DEF IsList
      <4>3. t[1] \in 1 .. Len(v.fw)
        BY <4>2, ElementOfSeq
      <4> QED
        BY <4>3
    <3>3. /\ \A j \in DOMAIN v.sets : j # i => now[j] = v.sets[j]
          /\ now[i].alias = v.sets[i].alias /\ now[i].filename = v.sets[i].filename /\ now[i].firmware = t[1]
          /\ DOMAIN now = DOMAIN v.sets
          /\ now[i] \in [alias : FwAliases \cup {TheAlias}, filename : BOOLEAN, firmware : Nat]
          /\ now = [v.sets EXCEPT ![i] = now[i]]
      BY <1>0, <2>2, <3>1, <3>2
    <3>4. now \in FwSetLists
      BY <1>0, <3>3, ExceptSeq DEF FwSetLists
    <3>5. RelinkedSets(v.fw, h, v.sets, now, i, t)
      <4> DEFINE x == v.sets
                 y == v.fw
      <4>1. /\ Len(y) \in Nat /\ y \in Heaps(Len(y)) /\ Linked(x, y) /\ i \in DOMAIN x
            /\ Relinked(y, h, ListOf(x, y, i), t) /\ DOMAIN now = DOMAIN x /\ now[i].firmware = t[1]
            /\ \A j \in DOMAIN x : j # i => now[j] = x[j]
        BY <1>0, <2>1, <3>3
      <4> HIDE DEF x, y, now, h
      <4>2. RelinkedSets(y, h, x, now, i, t)
        BY <4>1, RelinkedSet
      <4> QED
        BY <4>2 DEF x, y
    <3> QED
      BY <3>2, <3>3, <3>4, <3>5 DEF RelinkedSets
  <2>4. /\ Len(h) = Len(v.fw) /\ h \in Heaps(Len(v.fw))
        /\ \A f \in 1 .. Len(v.fw) : SameFirmware(h[f], v.fw[f])
    BY <2>1 DEF Relinked
  <2> HIDE DEF now, h, first, s
  <2>5. ASSUME NEW status \in Statuses
        PROVE  Rearranged(sets, mem, Now(status))
    <3>1. \A j \in DOMAIN sets : now[j].alias = v.sets[j].alias /\ now[j].filename = v.sets[j].filename
      BY <2>3 DEF Rearranged
    <3>2. \A f \in 1 .. Len(mem) : SameFirmware(h[f], mem[f])
      BY <2>4 DEF Rearranged, SameFirmware
    <3> QED
      BY <2>3, <2>4, <3>1, <3>2 DEF Rearranged
  <2>6. IsList(h, t, t[1]) /\ DOMAIN t = 1 .. Len(t) /\ Len(t) = Len(s) /\ Len(t) \in Nat
    BY <2>1, LenProperties DEF Relinked, IsList
  <2>7. \A k \in 1 .. Len(t) : /\ t[k] \in 1 .. Len(h) /\ h[t[k]].min = v.fw[t[k]].min
                               /\ h[t[k]].min \in Nat /\ h[t[k]].max \in Nat
    <3>1. \A k \in 1 .. Len(t) : t[k] \in 1 .. Len(h)
      BY <2>6, ElementOfSeq DEF IsList
    <3> QED
      BY <2>4, <3>1 DEF SameFirmware, Heaps, Structures
  <2>8. CASE ~NoOverlap(h, ListFrom(h, first))
    <3>1. w = Now("overlap")
      BY <1>4, <2>8 DEF SetValidated, now, h, first
    <3>2. ListFrom(h, first) = t
      BY <2>2, <2>3 DEF ListOf
    <3>3. PICK k, o \in 1 .. Len(t) : k < o /\ ~(h[t[k]].max <= h[t[o]].min)
      BY <2>6, <2>8, <3>2 DEF NoOverlap
    <3>4. t[k] \in Members(now, h, i) /\ t[o] \in Members(now, h, i) /\ t[k] # t[o]
      <4>1. ToSet(t) = {t[j] : j \in 1 .. Len(t)}
        BY <2>6, ListRange
      <4>2. t[k] # t[o]
        <5>1. k # o
          BY <2>6, <3>3
        <5> QED
          BY <2>6, <3>3, <5>1 DEF IsList
      <4> QED
        BY <2>3, <4>1, <4>2 DEF Members
    <3>5. h[t[k]].min <= h[t[o]].min
      BY <2>1, <2>6, <2>7, <3>3 DEF SortedTo
    <3>6. Overlapping(now, h)
      <4> DEFINE f == t[k]
                 b == t[o]
      <4>1. /\ h[f].min \in Nat /\ h[f].max \in Nat /\ h[b].min \in Nat /\ h[b].max \in Nat
            /\ h[f].max > h[b].min /\ h[f].min <= h[b].min
        BY <2>7, <3>3, <3>5
      <4>2. \/ h[f].max > h[b].min /\ h[b].max > h[f].min
            \/ h[f].min = h[b].min
            \/ h[b].min > h[b].max
        <5> HIDE DEF f, b
        <5> QED
          BY <4>1
      <4>3. i \in DOMAIN now
        BY <1>0, <2>3
      <4> QED
        BY <3>4, <4>2, <4>3 DEF Overlapping
    <3>7. Says(Now("overlap"), i)
      BY <3>6 DEF Says
    <3>8. Rearranged(sets, mem, Now("overlap"))
      BY <2>5 DEF Statuses
    <3> QED
      BY <3>1, <3>7, <3>8
  <2>9. CASE NoOverlap(h, ListFrom(h, first)) /\ ~FiPPIAndDSPValid(h, first)
    <3>1. w = Now("missing")
      BY <1>4, <2>9 DEF SetValidated, now, h, first
    <3>2. Rearranged(sets, mem, Now("missing")) /\ Says(Now("missing"), i)
      BY <2>5 DEF Statuses, Says
    <3> QED
      BY <3>1, <3>2
  <2>10. CASE NoOverlap(h, ListFrom(h, first)) /\ FiPPIAndDSPValid(h, first)
    <3>1. w = Now("next")
      BY <1>4, <2>10 DEF SetValidated, now, h, first
    <3>2. Rearranged(sets, mem, Now("next"))
      BY <2>5 DEF Statuses
    <3>3. Passed(now, h, i)
      <4>1. ListFrom(h, first) = t
        BY <2>2, <2>3 DEF ListOf
      <4> QED
        BY <1>4, <2>3, <2>10, <4>1 DEF Passed
    <3>4. ASSUME NEW j \in 1 .. i - 1, Passed(v.sets, v.fw, j)
          PROVE  Passed(now, h, j)
      <4>1. j \in DOMAIN v.sets /\ j # i
        <5>1. j \in 1 .. Len(sets) /\ j # i
          BY <1>0
        <5> QED
          BY <1>0, <5>1 DEF Rearranged
      <4>2. ListOf(now, h, j) = ListOf(v.sets, v.fw, j) /\ now[j] = v.sets[j]
        BY <2>3, <4>1
      <4>3. IsList(v.fw, ListOf(v.sets, v.fw, j), v.sets[j].firmware)
        BY <4>1 DEF Rearranged, Linked
      <4>4. \A k \in DOMAIN ListOf(v.sets, v.fw, j) : ListOf(v.sets, v.fw, j)[k] \in 1 .. Len(v.fw)
        BY <4>3, ElementOfSeq, LenProperties DEF IsList
      <4>5. NoOverlap(h, ListOf(v.sets, v.fw, j))
        BY <2>4, <3>4, <4>4 DEF NoOverlap, Passed, SameFirmware
      <4> QED
        BY <3>4, <4>2, <4>5 DEF Passed
    <3>5. Says(v, i - 1) => Says(Now("next"), i)
      <4>1. \A j \in 1 .. i : j = i \/ j \in 1 .. i - 1
        BY <1>0
      <4> QED
        BY <1>4, <3>3, <3>4, <4>1 DEF Says
    <3> QED
      BY <3>1, <3>2, <3>5
  <2> QED
    BY <2>8, <2>9, <2>10
<1> QED
  BY <1>1, <1>2, <1>3, <1>4

LEMMA ValidatedIs ==
  ASSUME NEW mem, Len(mem) \in Nat, mem \in Heaps(Len(mem)), NEW sets \in FwSetLists,
         Linked(sets, mem)
  PROVE  /\ Rearranged(sets, mem, Validated(sets, mem))
         /\ Says(Validated(sets, mem), Len(sets))
<1> DEFINE n == Len(sets)
           first == [sets |-> sets, fw |-> mem, status |-> "next"]
           S == {v \in [sets : FwSetLists, fw : Heaps(Len(mem)), status : Statuses] :
                   Rearranged(sets, mem, v)}
           g == [p \in (1 .. n) \X S |-> SetValidated(p[2], p[1])]
           Runs(verdict) == verdict = [i \in 0 .. n |-> IF i = 0 THEN first ELSE SetValidated(verdict[i - 1], i)]
           verdict == CHOOSE verdict : Runs(verdict)
<1>0. n \in Nat
  BY LenProperties DEF FwSetLists
<1>1. first \in S /\ Says(first, 0)
  <2>1. first \in [sets : FwSetLists, fw : Heaps(Len(mem)), status : Statuses]
    BY DEF Statuses
  <2>2. \A f \in 1 .. Len(mem) : SameFirmware(mem[f], mem[f])
    BY DEF SameFirmware
  <2>3. first.sets = sets /\ first.fw = mem /\ first.status = "next"
    OBVIOUS
  <2> HIDE DEF first
  <2>4. Rearranged(sets, mem, first)
    BY <2>1, <2>2, <2>3 DEF Rearranged
  <2>5. Says(first, 0)
    BY <2>3 DEF Says
  <2> QED
    BY <2>1, <2>4, <2>5
<1>2. \A i \in 1 .. n, v \in S : SetValidated(v, i) \in S
  <2> SUFFICES ASSUME NEW i \in 1 .. n, NEW v \in S PROVE SetValidated(v, i) \in S
    OBVIOUS
  <2>1. Rearranged(sets, mem, v)
    OBVIOUS
  <2>2. Rearranged(sets, mem, SetValidated(v, i))
    BY <2>1, SetValidatedIs
  <2> QED
    BY <2>2 DEF Rearranged
<1>3. Runs(verdict)
  <2>1. g \in [(1 .. n) \X S -> S]
    <3> HIDE DEF S, n
    <3> QED
      BY <1>2
  <2>2. PICK f \in [0 .. n -> S] : f[0] = first /\ \A i \in 1 .. n : f[i] = g[<<i, f[i - 1]>>]
    <3>0. SUFFICES \E f : f \in Loops(n, S, first, g)
      BY DEF Loops
    <3> HIDE DEF g, S, n, first
    <3> QED
      BY <1>0, <1>1, <2>1, LoopExists
  <2> HIDE DEF S, n, first
  <2>3. \A i \in 1 .. n : <<i, f[i - 1]>> \in (1 .. n) \X S
    BY <1>0
  <2>4. \A i \in 1 .. n : g[<<i, f[i - 1]>>] = SetValidated(f[i - 1], i)
    BY <2>3
  <2>5. \A i \in 0 .. n : i # 0 => i \in 1 .. n
    BY <1>0
  <2>6. f = [i \in 0 .. n |-> IF i = 0 THEN first ELSE SetValidated(f[i - 1], i)]
    <3>1. f = [i \in 0 .. n |-> f[i]]
      BY <2>2
    <3> HIDE DEF g
    <3>2. \A i \in 0 .. n : f[i] = IF i = 0 THEN first ELSE SetValidated(f[i - 1], i)
      BY <2>2, <2>4, <2>5
    <3> QED
      BY <3>1, <3>2
  <2>7. Runs(f)
    BY <2>6
  <2> HIDE DEF Runs
  <2> QED
    BY <2>7
<1>4. Validated(sets, mem) = verdict[n]
  BY DEF Validated
<1> HIDE DEF verdict
<1>5. verdict[0] = first /\ \A i \in 1 .. n : verdict[i] = SetValidated(verdict[i - 1], i)
  <2> HIDE DEF first
  <2> QED
    BY <1>0, <1>3
<1> HIDE DEF Runs, g, first
<1> DEFINE T == {i \in 0 .. n : verdict[i] \in S /\ Says(verdict[i], i)}
<1>6. 0 \in T
  <2> HIDE DEF S
  <2> QED
    BY <1>0, <1>1, <1>5
<1>7. \A i \in 1 .. n : i - 1 \in T => i \in T
  <2> SUFFICES ASSUME NEW i \in 1 .. n, i - 1 \in T PROVE i \in T
    OBVIOUS
  <2>1. verdict[i - 1] \in S /\ Says(verdict[i - 1], i - 1)
    <3> HIDE DEF S
    <3> QED
      OBVIOUS
  <2>2. Rearranged(sets, mem, verdict[i - 1])
    BY <2>1
  <2>3. Says(SetValidated(verdict[i - 1], i), i)
    BY <2>1, <2>2, SetValidatedIs
  <2>4. verdict[i] \in S
    <3> HIDE DEF S
    <3> QED
      BY <1>2, <1>5, <2>1
  <2> HIDE DEF S
  <2> QED
    BY <1>0, <1>5, <2>3, <2>4
<1>8. n \in T
  <2>1. n \in 0 .. n
    BY <1>0
  <2> HIDE DEF T, n
  <2> QED
    BY <1>0, <1>6, <1>7, <2>1, ByCounting
<1>9. verdict[n] \in S /\ Says(verdict[n], n)
  <2> HIDE DEF S
  <2> QED
    BY <1>8
<1> QED
  BY <1>4, <1>9

---------------------------------------------------------------------------
(* The steps of the specification.  Lists known one by one make the sets   *)
(* linked.                                                                 *)
Lists(sets, mem, l) ==
  /\ \A i \in DOMAIN sets : IsList(mem, l[i], sets[i].firmware)
  /\ \A i, j \in DOMAIN sets : i # j => ToSet(l[i]) \cap ToSet(l[j]) = {}
AreLists(sets, mem, l) ==
  Linked(sets, mem) /\ \A i \in DOMAIN sets : ListOf(sets, mem, i) = l[i]

LEMMA LinkedBy ==
  ASSUME NEW mem, Len(mem) \in Nat, mem \in Heaps(Len(mem)), NEW sets, NEW l, Lists(sets, mem, l)
  PROVE  AreLists(sets, mem, l)
<1>1. ASSUME NEW i \in DOMAIN sets
      PROVE  ListOf(sets, mem, i) = l[i]
  <2> DEFINE s == l[i]
             head == sets[i].firmware
  <2>1. IsList(mem, s, head)
    BY DEF Lists
  <2> HIDE DEF s, head
  <2>2. ListFrom(mem, head) = s
    BY <2>1, ListFromIs
  <2> QED
    BY <2>2 DEF ListOf, s, head
<1> QED
  BY <1>1 DEF Linked, Members, Lists, AreLists

(* A list stays when the heap grows and its own firmware stays linked.     *)
LEMMA ListStays ==
  ASSUME NEW mem, Len(mem) \in Nat, NEW h, Len(h) \in Nat, Len(mem) <= Len(h),
         NEW s, NEW head, IsList(mem, s, head),
         \A k \in 1 .. Len(s) : h[s[k]].next = mem[s[k]].next /\ h[s[k]].prev = mem[s[k]].prev
  PROVE  IsList(h, s, head)
<1>1. \A k \in 1 .. Len(s) : s[k] \in 1 .. Len(mem)
  BY ElementOfSeq DEF IsList
<1>2. s \in Seq(1 .. Len(h)) /\ Len(s) \in Nat /\ Len(s) <= Len(h)
  <2>1. s \in Seq(1 .. Len(mem)) /\ Len(s) \in Nat /\ DOMAIN s = 1 .. Len(s) /\ s = [k \in 1 .. Len(s) |-> s[k]]
    BY LenProperties DEF IsList
  <2>2. \A k \in 1 .. Len(s) : s[k] \in 1 .. Len(h)
    BY <1>1
  <2>3. s \in [1 .. Len(s) -> 1 .. Len(h)]
    BY <2>1, <2>2
  <2> QED
    BY <2>1, <2>3, SeqDef DEF IsList
<1> QED
  BY <1>2 DEF IsList

(* An empty list, and a list with one more at its end.                     *)
LEMMA NoList ==
  ASSUME NEW mem, Len(mem) \in Nat
  PROVE  IsList(mem, << >>, 0) /\ ToSet(<< >>) = {}
BY DEF IsList, ToSet

LEMMA Lengthened ==
  ASSUME NEW mem, Len(mem) \in Nat, NEW s, NEW head, IsList(mem, s, head),
         NEW h, Len(h) = Len(mem) + 1,
         \A k \in 1 .. Len(s) : /\ h[s[k]].next = IF k = Len(s) THEN Len(mem) + 1 ELSE mem[s[k]].next
                                /\ h[s[k]].prev = mem[s[k]].prev,
         h[Len(mem) + 1].next = 0,
         h[Len(mem) + 1].prev = (IF s = << >> THEN 0 ELSE s[Len(s)])
  PROVE  /\ IsList(h, Append(s, Len(mem) + 1), IF s = << >> THEN Len(mem) + 1 ELSE head)
         /\ ToSet(Append(s, Len(mem) + 1)) = ToSet(s) \cup {Len(mem) + 1}
<1> DEFINE n == Len(mem)
           m == Len(s)
           t == Append(s, n + 1)
<1>0. /\ n \in Nat /\ m \in Nat /\ m <= n /\ s \in Seq(1 .. n) /\ DOMAIN s = 1 .. m
      /\ \A k \in 1 .. m : s[k] \in 1 .. n
  BY LenProperties, ElementOfSeq DEF IsList
<1>e. s = << >> <=> m = 0
  BY EmptySeq DEF IsList
<1>n. n \in Nat
  OBVIOUS
<1> HIDE DEF n
<1>i. \A i \in 1 .. n : i \in 1 .. n + 1 /\ i # n + 1
  BY <1>n
<1>1. s \in Seq(1 .. n + 1) /\ n + 1 \in 1 .. n + 1
  <2>1. s = [k \in 1 .. m |-> s[k]] /\ m = Len(s)
    BY <1>0, LenProperties
  <2> HIDE DEF m
  <2>2. s \in [1 .. m -> 1 .. n + 1]
    BY <1>0, <1>i, <2>1
  <2> QED
    BY <1>0, <2>2, SeqDef
<1>2. /\ t \in Seq(1 .. n + 1) /\ Len(t) = m + 1 /\ DOMAIN t = 1 .. m + 1
      /\ \A k \in 1 .. m : t[k] = s[k]
      /\ t[m + 1] = n + 1
  <2>1. /\ t \in Seq(1 .. n + 1) /\ Len(t) = Len(s) + 1 /\ t[Len(s) + 1] = n + 1
        /\ \A k \in 1 .. Len(s) : t[k] = s[k]
    BY <1>1, AppendProperties
  <2>2. DOMAIN t = 1 .. Len(t)
    BY <2>1, LenProperties
  <2> QED
    BY <2>1, <2>2
<1> HIDE DEF t, m, n
<1>3. \A i, j \in 1 .. m + 1 : t[i] = t[j] => i = j
  <2>1. \A i, j \in 1 .. m : s[i] = s[j] => i = j
    BY DEF IsList, m
  <2>2. \A i \in 1 .. m + 1 : i = m + 1 \/ i \in 1 .. m
    BY <1>0
  <2>3. \A i \in 1 .. m : t[i] # n + 1
    BY <1>0, <1>2
  <2> QED
    BY <1>2, <2>1, <2>2, <2>3
<1>4. ASSUME NEW k \in 1 .. m + 1
      PROVE  /\ h[t[k]].next = IF k = m + 1 THEN 0 ELSE t[k + 1]
             /\ h[t[k]].prev = IF k = 1 THEN 0 ELSE t[k - 1]
  <2>1. CASE k = m + 1
    <3>1. k = 1 <=> s = << >>
      BY <1>0, <1>e, <2>1
    <3>2. k # 1 => k - 1 = m /\ m \in 1 .. m
      BY <1>0, <2>1
    <3> QED
      BY <1>2, <2>1, <3>1, <3>2 DEF m, n
  <2>2. CASE k # m + 1
    <3>1. k \in 1 .. m /\ (k # 1 => k - 1 \in 1 .. m) /\ (k # m => k + 1 \in 1 .. m) /\ (k = m => k + 1 = m + 1)
      <4>1. m \in Nat /\ k \in Nat /\ 1 <= k /\ k <= m
        BY <1>0, <2>2
      <4> QED
        BY <4>1
    <3>2. /\ mem[s[k]].next = (IF k = m THEN 0 ELSE s[k + 1])
          /\ mem[s[k]].prev = (IF k = 1 THEN 0 ELSE s[k - 1])
      BY <3>1 DEF IsList, m
    <3>3. /\ h[s[k]].next = (IF k = m THEN n + 1 ELSE mem[s[k]].next)
          /\ h[s[k]].prev = mem[s[k]].prev
      BY <3>1 DEF m, n
    <3>4. t[k] = s[k] /\ (k # 1 => t[k - 1] = s[k - 1]) /\ (k # m => t[k + 1] = s[k + 1])
          /\ (k = m => t[k + 1] = n + 1)
      BY <1>2, <3>1
    <3> QED
      BY <2>2, <3>1, <3>2, <3>3, <3>4
  <2> QED
    BY <2>1, <2>2
<1>5. t # << >> /\ t[1] = IF s = << >> THEN n + 1 ELSE head
  <2>1. s = << >> <=> m = 0
    BY <1>e
  <2>2. m # 0 => 1 \in 1 .. m
    BY <1>0
  <2>3. t # << >>
    BY <1>0, <1>2, EmptySeq
  <2> QED
    BY <1>0, <1>2, <2>1, <2>2, <2>3 DEF IsList
<1>6. IsList(h, t, IF s = << >> THEN n + 1 ELSE head)
  BY <1>0, <1>2, <1>3, <1>4, <1>5 DEF IsList, n
<1>7. ToSet(t) = ToSet(s) \cup {n + 1}
  <2>1. \A i \in 1 .. m + 1 : i = m + 1 \/ i \in 1 .. m
    BY <1>0
  <2>2. \A i \in 1 .. m : i \in 1 .. m + 1
    BY <1>0
  <2>3. ToSet(t) = {t[i] : i \in 1 .. m + 1} /\ ToSet(s) = {s[i] : i \in 1 .. m} /\ m + 1 \in 1 .. m + 1
    BY <1>0, <1>2 DEF ToSet
  <2> QED
    BY <1>2, <2>1, <2>2, <2>3
<1> QED
  BY <1>6, <1>7 DEF t, n

---------------------------------------------------------------------------
(* What the invariant says of the sets as the calls find them.             *)
SetStructures == [alias : FwAliases \cup {TheAlias}, filename : BOOLEAN, firmware : Nat]

LEMMA Places ==
  ASSUME FwTypes, Linked(fwSets, fw)
  PROVE  /\ Len(fwSets) \in Nat /\ DOMAIN fwSets = 1 .. Len(fwSets) /\ 0 \notin DOMAIN fwSets
         /\ \A i \in DOMAIN fwSets :
              /\ fwSets[i] \in SetStructures /\ FirmwareOf(i) = Members(fwSets, fw, i)
              /\ IsList(fw, ListOf(fwSets, fw, i), fwSets[i].firmware)
              /\ Members(fwSets, fw, i) =
                   {ListOf(fwSets, fw, i)[k] : k \in 1 .. Len(ListOf(fwSets, fw, i))}
              /\ Members(fwSets, fw, i) \subseteq 1 .. Len(fw)
<1>1. fwSets \in Seq(SetStructures)
  BY DEF FwTypes, FwSetLists, SetStructures
<1>2. /\ Len(fwSets) \in Nat /\ DOMAIN fwSets = 1 .. Len(fwSets) /\ 0 \notin DOMAIN fwSets
      /\ \A i \in DOMAIN fwSets : fwSets[i] \in SetStructures
  BY <1>1, LenProperties, ElementOfSeq
<1>3. ASSUME NEW i \in DOMAIN fwSets
      PROVE  /\ FirmwareOf(i) = Members(fwSets, fw, i)
             /\ IsList(fw, ListOf(fwSets, fw, i), fwSets[i].firmware)
             /\ Members(fwSets, fw, i) =
                  {ListOf(fwSets, fw, i)[k] : k \in 1 .. Len(ListOf(fwSets, fw, i))}
             /\ Members(fwSets, fw, i) \subseteq 1 .. Len(fw)
  <2> DEFINE s == ListOf(fwSets, fw, i)
  <2>1. IsList(fw, s, fwSets[i].firmware)
    BY DEF Linked
  <2>2. \A k \in 1 .. Len(s) : s[k] \in 1 .. Len(fw)
    <3> HIDE DEF s
    <3> QED
      BY <2>1, ElementOfSeq DEF IsList
  <2>3. ToSet(s) = {s[k] : k \in 1 .. Len(s)}
    <3> HIDE DEF s
    <3> QED
      BY <2>1, ListRange
  <2> QED
    BY <2>1, <2>2, <2>3 DEF Members, FirmwareOf, ListOf
<1> QED
  BY <1>2, <1>3

LEMMA Found ==
  ASSUME FwTypes, NEW a
  PROVE  /\ FindFirmware(a) = 0 => \A i \in DOMAIN fwSets : fwSets[i].alias # a
         /\ FindFirmware(a) # 0 =>
              FindFirmware(a) \in DOMAIN fwSets /\ fwSets[FindFirmware(a)].alias = a
         /\ \A i \in DOMAIN fwSets : fwSets[i].alias = a => FindFirmware(a) = i
<1>1. 0 \notin DOMAIN fwSets
  BY LenProperties DEF FwTypes, FwSetLists
<1>2. \A i, j \in DOMAIN fwSets : fwSets[i].alias = fwSets[j].alias => i = j
  BY DEF FwTypes
<1>3. CASE \E i \in DOMAIN fwSets : fwSets[i].alias = a
  <2>1. FindFirmware(a) \in DOMAIN fwSets /\ fwSets[FindFirmware(a)].alias = a
    <3> DEFINE Is(i) == i \in DOMAIN fwSets /\ fwSets[i].alias = a
    <3>1. FindFirmware(a) = CHOOSE i \in DOMAIN fwSets : fwSets[i].alias = a
      BY <1>3 DEF FindFirmware
    <3> QED
      BY <1>3, <3>1
  <2> QED
    BY <1>1, <1>2, <2>1
<1>4. CASE ~\E i \in DOMAIN fwSets : fwSets[i].alias = a
  BY <1>4 DEF FindFirmware
<1> QED
  BY <1>3, <1>4

LEMMA FwInitially ==
  ASSUME FwInit
  PROVE  FwInv
<1>1. PICK n \in 0 .. Cardinality(Ptrrs) : \E r \in [1 .. n -> Ranges] :
        /\ fw = Loaded(n, r) /\ lastAdded = n
        /\ fwSets = IF n = 0 THEN << >> ELSE <<[alias |-> TheAlias, filename |-> FALSE, firmware |-> 1]>>
        /\ ranges = {<<TheAlias, i, r[i][1], r[i][2]>> : i \in 1 .. n}
  BY DEF FwInit
<1>2. PICK r \in [1 .. n -> Ranges] :
        /\ fw = Loaded(n, r) /\ lastAdded = n
        /\ fwSets = IF n = 0 THEN << >> ELSE <<[alias |-> TheAlias, filename |-> FALSE, firmware |-> 1]>>
        /\ ranges = {<<TheAlias, i, r[i][1], r[i][2]>> : i \in 1 .. n}
  BY <1>1
<1>3. n \in Nat
  BY FS_CardinalityType, FirmwareAssumption
<1>4. fw \in Heaps(n) /\ Len(fw) = n
  <2>1. ASSUME NEW i \in 1 .. n
        PROVE  [ptrr |-> i - 1, min |-> r[i][1], max |-> r[i][2], dsp |-> TRUE, fippi |-> TRUE,
                next |-> IF i = n THEN 0 ELSE i + 1, prev |-> i - 1] \in Structures(n)
    <3>1. r[i] \in PeakingTimes \X PeakingTimes
      BY DEF Ranges
    <3>2. r[i][1] \in Nat /\ r[i][2] \in Nat
      BY <3>1, FirmwareAssumption
    <3>3. i - 1 \in Nat /\ i - 1 \in 0 .. n /\ (IF i = n THEN 0 ELSE i + 1) \in 0 .. n
      BY <1>3
    <3> QED
      BY <3>2, <3>3 DEF Structures
  <2>2. fw \in Heaps(n)
    BY <1>2, <2>1 DEF Loaded, Heaps
  <2> QED
    BY <1>3, <2>2, HeapLength
<1>5. \A i \in 1 .. n : /\ fw[i].ptrr = i - 1 /\ fw[i].min = r[i][1] /\ fw[i].max = r[i][2]
                        /\ fw[i].next = (IF i = n THEN 0 ELSE i + 1) /\ fw[i].prev = i - 1
  BY <1>2 DEF Loaded
<1>6. /\ fwSets \in FwSetLists
      /\ \A i \in DOMAIN fwSets : i = 1 /\ n # 0 /\ fwSets[i].firmware = 1 /\ fwSets[i].alias = TheAlias
      /\ n # 0 => 1 \in DOMAIN fwSets
  <2>1. CASE n = 0
    <3>1. fwSets = << >>
      BY <1>2, <2>1
    <3> QED
      BY <2>1, <3>1 DEF FwSetLists
  <2>2. CASE n # 0
    <3> DEFINE set == [alias |-> TheAlias, filename |-> FALSE, firmware |-> 1]
    <3>1. fwSets = <<set>>
      BY <1>2, <2>2
    <3>2. set \in [alias : FwAliases \cup {TheAlias}, filename : BOOLEAN, firmware : Nat]
          /\ set.firmware = 1 /\ set.alias = TheAlias
      OBVIOUS
    <3> HIDE DEF set
    <3> QED
      BY <2>2, <3>1, <3>2 DEF FwSetLists
  <2> QED
    BY <2>1, <2>2
<1> DEFINE s == [k \in 1 .. n |-> k]
           l == [i \in DOMAIN fwSets |-> s]
<1>7. n # 0 => IsList(fw, s, 1) /\ ToSet(s) = 1 .. n
  <2> SUFFICES ASSUME n # 0 PROVE IsList(fw, s, 1) /\ ToSet(s) = 1 .. n
    OBVIOUS
  <2>1. s \in Seq(1 .. n) /\ Len(s) = n /\ DOMAIN s = 1 .. n /\ 1 \in 1 .. n /\ (\A k \in 1 .. n : s[k] = k)
    BY <1>3, SeqDef, LenProperties
  <2>2. s # << >>
    BY <2>1, EmptySeq
  <2> HIDE DEF s
  <2>3. ASSUME NEW k \in 1 .. n
        PROVE  /\ fw[s[k]].next = (IF k = n THEN 0 ELSE s[k + 1])
               /\ fw[s[k]].prev = (IF k = 1 THEN 0 ELSE s[k - 1])
    <3>1. (k # n => k + 1 \in 1 .. n) /\ (k # 1 => k - 1 \in 1 .. n) /\ (k = 1 => k - 1 = 0)
      BY <1>3
    <3> QED
      BY <1>5, <2>1, <3>1
  <2>4. IsList(fw, s, 1)
    BY <1>3, <1>4, <2>1, <2>2, <2>3 DEF IsList
  <2> QED
    BY <2>1, <2>4 DEF ToSet
<1>8. /\ Linked(fwSets, fw)
      /\ \A i \in DOMAIN fwSets : Members(fwSets, fw, i) = 1 .. n
  <2>1. \A i \in DOMAIN fwSets : IsList(fw, l[i], fwSets[i].firmware)
    <3> HIDE DEF s
    <3> QED
      BY <1>6, <1>7
  <2>2. \A i, j \in DOMAIN fwSets : i # j => ToSet(l[i]) \cap ToSet(l[j]) = {}
    BY <1>6
  <2>3. Len(fw) \in Nat /\ fw \in Heaps(Len(fw))
    BY <1>3, <1>4
  <2> HIDE DEF l
  <2>4. Linked(fwSets, fw) /\ \A i \in DOMAIN fwSets : ListOf(fwSets, fw, i) = l[i]
    <3>1. Lists(fwSets, fw, l)
      BY <2>1, <2>2 DEF Lists
    <3>2. AreLists(fwSets, fw, l)
      BY <2>3, <3>1, LinkedBy
    <3> QED
      BY <3>2 DEF AreLists
  <2> HIDE DEF s
  <2> QED
    BY <1>6, <1>7, <2>4 DEF Members, l
<1>9. FwTypes
  <2>1. n \in 0 .. n /\ (n # 0 => lastAdded # 0)
    BY <1>2, <1>3
  <2> QED
    BY <1>2, <1>3, <1>4, <1>6, <2>1 DEF FwTypes
<1>10. NumbersDiffer
  <2>1. \A f, g \in 1 .. n : f - 1 = g - 1 => f = g
    BY <1>3
  <2> QED
    BY <1>5, <1>8, <2>1 DEF NumbersDiffer
<1>11. RangesHeld
  <2> SUFFICES ASSUME NEW x \in ranges
               PROVE  /\ \E i \in DOMAIN fwSets : fwSets[i].alias = x[1] /\ x[2] \in Members(fwSets, fw, i)
                      /\ x = <<x[1], x[2], fw[x[2]].min, fw[x[2]].max>>
    BY DEF RangesHeld, RangeHeld
  <2>1. PICK i \in 1 .. n : x = <<TheAlias, i, r[i][1], r[i][2]>>
    BY <1>2
  <2>2. n # 0
    BY <1>3
  <2> QED
    BY <1>5, <1>6, <1>8, <2>1, <2>2
<1>12. StatusTold
  BY DEF FwInit, StatusTold
<1> QED
  BY <1>8, <1>9, <1>10, <1>11, <1>12 DEF FwInv

---------------------------------------------------------------------------
(* Calls that leave the firmware alone.  Each set they leave was at p[j]   *)
(* before, or is new and has none.                                         *)
Renews(sets, now, p) ==
  /\ \A j \in DOMAIN now : p[j] = 0 => now[j].firmware = 0
  /\ \A j \in DOMAIN now : p[j] # 0 => /\ p[j] \in DOMAIN sets /\ now[j].firmware = sets[p[j]].firmware
                                       /\ now[j].alias = sets[p[j]].alias
  /\ \A j, k \in DOMAIN now : p[j] = p[k] /\ p[j] # 0 => j = k

LEMMA RenewedLists ==
  ASSUME NEW mem, Len(mem) \in Nat, mem \in Heaps(Len(mem)), NEW sets, Linked(sets, mem),
         NEW now, NEW p, Renews(sets, now, p)
  PROVE  /\ Linked(now, mem)
         /\ \A j \in DOMAIN now :
              Members(now, mem, j) = IF p[j] = 0 THEN {} ELSE Members(sets, mem, p[j])
<1> DEFINE l == [j \in DOMAIN now |-> IF p[j] = 0 THEN << >> ELSE ListOf(sets, mem, p[j])]
<1>1. \A j \in DOMAIN now : ToSet(l[j]) = IF p[j] = 0 THEN {} ELSE Members(sets, mem, p[j])
  BY NoList DEF Members
<1>2. \A j \in DOMAIN now : IsList(mem, l[j], now[j].firmware)
  BY NoList DEF Linked, Renews
<1>3. \A j, k \in DOMAIN now : j # k => ToSet(l[j]) \cap ToSet(l[k]) = {}
  <2>1. ASSUME NEW j \in DOMAIN now, NEW k \in DOMAIN now, j # k, p[j] # 0, p[k] # 0
        PROVE  Members(sets, mem, p[j]) \cap Members(sets, mem, p[k]) = {}
    BY <2>1 DEF Renews, Linked
  <2> HIDE DEF l
  <2> QED
    BY <1>1, <2>1
<1> HIDE DEF l
<1>4. Lists(now, mem, l)
  BY <1>2, <1>3 DEF Lists
<1>5. AreLists(now, mem, l)
  BY <1>4, LinkedBy
<1> QED
  BY <1>1, <1>5 DEF AreLists, Members

LEMMA FwRenewed ==
  ASSUME FwInv, fw' = fw, lastAdded' = lastAdded, fwStatus' \notin {"validated", "overlap"},
         fwSets' \in FwSetLists, NEW p, Renews(fwSets, fwSets', p),
         \A i, j \in DOMAIN fwSets' : fwSets'[i].alias = fwSets'[j].alias => i = j,
         \A x \in ranges' : x \in ranges /\ \E j \in DOMAIN fwSets' : p[j] # 0 /\ fwSets[p[j]].alias = x[1],
         \A j \in DOMAIN fwSets' : p[j] # 0 /\ fwSets'[j].alias \in mixed => fwSets'[j].alias \in mixed'
  PROVE  FwInv'
<1>0. Len(fw) \in Nat /\ fw \in Heaps(Len(fw)) /\ Linked(fwSets, fw)
  BY DEF FwInv, FwTypes
<1>1. /\ Linked(fwSets', fw)
      /\ \A j \in DOMAIN fwSets' :
           Members(fwSets', fw, j) = IF p[j] = 0 THEN {} ELSE Members(fwSets, fw, p[j])
  BY <1>0, RenewedLists
<1>2. FwTypes'
  BY DEF FwInv, FwTypes
<1>3. NumbersDiffer'
  <2> SUFFICES ASSUME NEW i \in DOMAIN fwSets', fwSets'[i].alias \notin mixed',
                      NEW f \in Members(fwSets', fw, i),
                      NEW g \in Members(fwSets', fw, i), fw[f].ptrr = fw[g].ptrr
               PROVE  f = g
    BY DEF NumbersDiffer
  <2>1. p[i] # 0 /\ p[i] \in DOMAIN fwSets /\ f \in Members(fwSets, fw, p[i]) /\ g \in Members(fwSets, fw, p[i])
    BY <1>1 DEF Renews
  <2>2. fwSets[p[i]].alias \notin mixed
    BY <2>1 DEF Renews
  <2> QED
    BY <2>1, <2>2 DEF FwInv, NumbersDiffer
<1>4. RangesHeld'
  <2> SUFFICES ASSUME NEW x \in ranges' PROVE RangeHeld(fwSets', fw, mixed', x)
    BY DEF RangesHeld
  <2>1. PICK j \in DOMAIN fwSets' : p[j] # 0 /\ fwSets[p[j]].alias = x[1]
    OBVIOUS
  <2>2. x \in ranges
    OBVIOUS
  <2>3. PICK i \in DOMAIN fwSets :
          /\ fwSets[i].alias = x[1]
          /\ x[1] \notin mixed => /\ x[2] \in Members(fwSets, fw, i)
                                  /\ x = <<x[1], x[2], fw[x[2]].min, fw[x[2]].max>>
    BY <2>2 DEF FwInv, RangesHeld, RangeHeld
  <2>4. p[j] \in DOMAIN fwSets /\ fwSets'[j].alias = fwSets[p[j]].alias
    BY <2>1 DEF Renews
  <2>5. p[j] = i
    BY <2>1, <2>3, <2>4 DEF FwInv, FwTypes
  <2>6. fwSets'[j].alias = x[1] /\ (x[1] \notin mixed' => x[1] \notin mixed)
    BY <2>1, <2>4
  <2>7. Members(fwSets', fw, j) = Members(fwSets, fw, i)
    BY <1>1, <2>1, <2>5
  <2> QED
    BY <2>3, <2>6, <2>7 DEF RangeHeld
<1>5. StatusTold'
  BY DEF StatusTold
<1> QED
  BY <1>1, <1>2, <1>3, <1>4, <1>5 DEF FwInv

LEMMA FwLeft ==
  ASSUME FwInv, fwSets' = fwSets, fw' = fw, lastAdded' = lastAdded, ranges' = ranges, mixed' = mixed,
         fwStatus' \notin {"validated", "overlap"} \/ fwStatus' = fwStatus
  PROVE  FwInv'
<1>1. FwTypes' /\ Linked(fwSets, fw)' /\ NumbersDiffer' /\ RangesHeld'
  BY DEF FwInv, FwTypes, NumbersDiffer, RangesHeld, RangeHeld
<1>2. StatusTold'
  BY DEF FwInv, StatusTold
<1> QED
  BY <1>1, <1>2 DEF FwInv

LEMMA RemovedAt ==
  ASSUME NEW S, NEW s \in Seq(S), NEW i \in 1 .. Len(s)
  PROVE  /\ RemoveAt(s, i) \in Seq(S) /\ Len(RemoveAt(s, i)) = Len(s) - 1
         /\ \A j \in 1 .. Len(s) - 1 : RemoveAt(s, i)[j] = s[IF j < i THEN j ELSE j + 1]
<1> DEFINE n == Len(s)
           a == SubSeq(s, 1, i - 1)
           b == SubSeq(s, i + 1, n)
<1>0. n \in Nat /\ i \in Nat /\ 1 <= i /\ i <= n /\ \A j \in 1 .. n : s[j] \in S
  BY LenProperties, ElementOfSeq
<1>1. /\ a \in Seq(S) /\ Len(a) = i - 1
      /\ \A j \in 1 .. i - 1 : a[j] = s[j]
  <2>1. \A j \in 1 .. i - 1 : s[j] \in S
    BY <1>0
  <2>2. /\ SubSeq(s, 1, i - 1) \in Seq(S)
        /\ Len(SubSeq(s, 1, i - 1)) = (IF 1 <= i - 1 THEN i - 1 - 1 + 1 ELSE 0)
        /\ \A j \in 1 .. i - 1 - 1 + 1 : SubSeq(s, 1, i - 1)[j] = s[1 + j - 1]
    BY <1>0, <2>1, SubSeqProperties
  <2>3. i - 1 - 1 + 1 = i - 1 /\ \A j \in 1 .. i - 1 : 1 + j - 1 = j
    BY <1>0
  <2>4. i - 1 >= 1 \/ i - 1 = 0
    BY <1>0
  <2> QED
    BY <1>0, <2>2, <2>3, <2>4
<1>2. /\ b \in Seq(S) /\ Len(b) = n - i
      /\ \A j \in 1 .. n - i : b[j] = s[i + j]
  <2>1. \A j \in i + 1 .. n : s[j] \in S
    BY <1>0
  <2>2. /\ SubSeq(s, i + 1, n) \in Seq(S)
        /\ Len(SubSeq(s, i + 1, n)) = (IF i + 1 <= n THEN n - (i + 1) + 1 ELSE 0)
        /\ \A j \in 1 .. n - (i + 1) + 1 : SubSeq(s, i + 1, n)[j] = s[(i + 1) + j - 1]
    <3> HIDE DEF n
    <3>1. i + 1 \in Int /\ n \in Int
      BY <1>0
    <3> QED
      BY <2>1, <3>1, SubSeqProperties
  <2> HIDE DEF n
  <2>3. n - (i + 1) + 1 = n - i /\ \A j \in 1 .. n - i : (i + 1) + j - 1 = i + j
    BY <1>0
  <2>4. i + 1 <= n \/ n - i = 0
    BY <1>0
  <2> QED
    BY <1>0, <2>2, <2>3, <2>4
<1> HIDE DEF a, b
<1>3. /\ a \o b \in Seq(S) /\ Len(a \o b) = Len(a) + Len(b)
      /\ \A j \in 1 .. Len(a) + Len(b) : (a \o b)[j] = IF j <= Len(a) THEN a[j] ELSE b[j - Len(a)]
  BY <1>1, <1>2, ConcatProperties
<1>4. RemoveAt(s, i) = a \o b
  BY DEF RemoveAt, a, b
<1> HIDE DEF n
<1>5. Len(a) + Len(b) = n - 1
  BY <1>0, <1>1, <1>2
<1>6. ASSUME NEW j \in 1 .. n - 1
      PROVE  (a \o b)[j] = s[IF j < i THEN j ELSE j + 1]
  <2>1. CASE j < i
    <3>1. j \in 1 .. i - 1 /\ j <= Len(a)
      BY <1>0, <1>1, <2>1
    <3> QED
      BY <1>1, <1>3, <1>5, <2>1, <3>1
  <2>2. CASE ~(j < i)
    <3>1. j - (i - 1) \in 1 .. n - i /\ ~(j <= i - 1) /\ i + (j - (i - 1)) = j + 1
      BY <1>0, <2>2
    <3> QED
      BY <1>1, <1>2, <1>3, <1>5, <2>2, <3>1
  <2> QED
    BY <2>1, <2>2
<1> QED
  BY <1>3, <1>4, <1>5, <1>6 DEF n

LEMMA NewFirmwareKeeps ==
  ASSUME FwInv, NEW a \in FwAliases, NewFirmware(a)
  PROVE  FwInv'
<1>1. CASE FindFirmware(a) # 0
  <2>1. fwSets' = fwSets /\ fw' = fw /\ lastAdded' = lastAdded /\ ranges' = ranges /\ mixed' = mixed
        /\ fwStatus' \notin {"validated", "overlap"}
    BY <1>1 DEF NewFirmware, Call, fwHistory
  <2> QED
    BY <2>1, FwLeft
<1>2. CASE FindFirmware(a) = 0
  <2> DEFINE n == Len(fwSets)
             new == [alias |-> a, filename |-> FALSE, firmware |-> 0]
             p == [j \in 1 .. n + 1 |-> IF j = n + 1 THEN 0 ELSE j]
  <2>1. /\ fwSets' = Append(fwSets, new) /\ fwStatus' = "ok" /\ fw' = fw /\ lastAdded' = lastAdded
        /\ ranges' = ranges /\ mixed' = mixed
    BY <1>2 DEF NewFirmware, Call, fwHistory
  <2>2. /\ n \in Nat /\ DOMAIN fwSets = 1 .. n /\ fwSets \in Seq(SetStructures) /\ new \in SetStructures
        /\ new.firmware = 0 /\ new.alias = a
    BY Places DEF FwInv, FwTypes, FwSetLists, SetStructures
  <2> HIDE DEF new
  <2>3. /\ fwSets' \in Seq(SetStructures) /\ DOMAIN fwSets' = 1 .. n + 1
        /\ fwSets'[n + 1] = new /\ \A j \in 1 .. n : fwSets'[j] = fwSets[j]
    <3>1. /\ fwSets' \in Seq(SetStructures) /\ Len(fwSets') = Len(fwSets) + 1
          /\ fwSets'[Len(fwSets) + 1] = new /\ \A j \in 1 .. Len(fwSets) : fwSets'[j] = fwSets[j]
      BY <2>1, <2>2, AppendProperties
    <3> QED
      BY <3>1, LenProperties
  <2> HIDE DEF n
  <2>4. \A j \in 1 .. n + 1 : j = n + 1 \/ (j \in 1 .. n /\ j # n + 1 /\ j # 0)
    BY <2>2
  <2>5. \A i \in 1 .. n : fwSets[i].alias # a
    BY <1>2, <2>2, Found DEF FwInv
  <2>6. \A i, j \in DOMAIN fwSets' : fwSets'[i].alias = fwSets'[j].alias => i = j
    BY <2>2, <2>3, <2>4, <2>5 DEF FwInv, FwTypes
  <2>7. Renews(fwSets, fwSets', p)
    BY <2>2, <2>3, <2>4 DEF Renews
  <2>8. \A x \in ranges' : x \in ranges /\ \E j \in DOMAIN fwSets' : p[j] # 0 /\ fwSets[p[j]].alias = x[1]
    <3> SUFFICES ASSUME NEW x \in ranges
                 PROVE  \E j \in DOMAIN fwSets' : p[j] # 0 /\ fwSets[p[j]].alias = x[1]
      BY <2>1
    <3>1. PICK i \in DOMAIN fwSets : fwSets[i].alias = x[1]
      BY DEF FwInv, RangesHeld, RangeHeld
    <3>2. i \in 1 .. n + 1 /\ i # n + 1 /\ i # 0
      BY <2>2
    <3> QED
      BY <2>3, <3>1, <3>2
  <2> HIDE DEF p
  <2>9. /\ fw' = fw /\ lastAdded' = lastAdded /\ fwStatus' \notin {"validated", "overlap"}
        /\ fwSets' \in FwSetLists /\ mixed' = mixed
    BY <2>1, <2>3 DEF FwSetLists, SetStructures
  <2> QED
    BY <2>6, <2>7, <2>8, <2>9, FwRenewed
<1> QED
  BY <1>1, <1>2

LEMMA AddFilenameKeeps ==
  ASSUME FwInv, NEW a \in FwAliases, AddFilename(a)
  PROVE  FwInv'
<1> DEFINE i == FindFirmware(a)
<1>1. CASE i = 0
  <2>1. fwSets' = fwSets /\ fw' = fw /\ lastAdded' = lastAdded /\ ranges' = ranges /\ mixed' = mixed
        /\ fwStatus' \notin {"validated", "overlap"}
    BY <1>1 DEF AddFilename, Call, fwHistory
  <2> QED
    BY <2>1, FwLeft
<1>2. CASE i # 0
  <2> DEFINE p == [j \in DOMAIN fwSets |-> j]
  <2>1. /\ fwSets' = [fwSets EXCEPT ![i].filename = TRUE] /\ fwStatus' = "ok" /\ fw' = fw
        /\ lastAdded' = lastAdded /\ ranges' = ranges /\ mixed' = mixed
    BY <1>2 DEF AddFilename, Call, fwHistory
  <2>2. i \in DOMAIN fwSets
    BY <1>2, Found DEF FwInv
  <2>3. /\ fwSets \in Seq(SetStructures) /\ 0 \notin DOMAIN fwSets
        /\ \A j \in DOMAIN fwSets : fwSets[j] \in SetStructures
    BY Places DEF FwInv, FwTypes, FwSetLists, SetStructures
  <2> HIDE DEF i
  <2>4. /\ DOMAIN fwSets' = DOMAIN fwSets
        /\ \A j \in DOMAIN fwSets : fwSets'[j].alias = fwSets[j].alias /\ fwSets'[j].firmware = fwSets[j].firmware
        /\ fwSets'[i] \in SetStructures /\ fwSets' = [fwSets EXCEPT ![i] = fwSets'[i]]
    BY <2>1, <2>2, <2>3 DEF SetStructures
  <2>5. fwSets' \in Seq(SetStructures)
    BY <2>2, <2>3, <2>4, ExceptSeq
  <2>6. \A j, k \in DOMAIN fwSets' : fwSets'[j].alias = fwSets'[k].alias => j = k
    BY <2>4 DEF FwInv, FwTypes
  <2>7. Renews(fwSets, fwSets', p)
    BY <2>3, <2>4 DEF Renews
  <2>8. \A x \in ranges' : x \in ranges /\ \E j \in DOMAIN fwSets' : p[j] # 0 /\ fwSets[p[j]].alias = x[1]
    BY <2>1, <2>3, <2>4 DEF FwInv, RangesHeld, RangeHeld
  <2> HIDE DEF p
  <2>9. /\ fw' = fw /\ lastAdded' = lastAdded /\ fwStatus' \notin {"validated", "overlap"}
        /\ fwSets' \in FwSetLists /\ mixed' = mixed
    BY <2>1, <2>5 DEF FwSetLists, SetStructures
  <2> QED
    BY <2>6, <2>7, <2>8, <2>9, FwRenewed
<1> QED
  BY <1>1, <1>2

LEMMA RemoveFirmwareKeeps ==
  ASSUME FwInv, NEW a \in FwAliases, RemoveFirmware(a)
  PROVE  FwInv'
<1>1. CASE fwSets = << >>
  <2>1. fwSets' = fwSets /\ fw' = fw /\ lastAdded' = lastAdded /\ ranges' = ranges /\ mixed' = mixed
        /\ fwStatus' \notin {"validated", "overlap"}
    BY <1>1 DEF RemoveFirmware, Call, fwHistory
  <2> QED
    BY <2>1, FwLeft
<1>2. CASE fwSets # << >>
  <2> DEFINE n == Len(fwSets)
             i == IF FindFirmware(a) = 0 THEN Len(fwSets) ELSE FindFirmware(a)
             p == [j \in 1 .. n - 1 |-> IF j < i THEN j ELSE j + 1]
  <2>1. /\ fwSets' = RemoveAt(fwSets, i) /\ fwStatus' = "ok" /\ fw' = fw /\ lastAdded' = lastAdded
        /\ ranges' = {x \in ranges : x[1] # fwSets[i].alias}
    BY <1>2 DEF RemoveFirmware, Call
  <2>m. mixed' = mixed \ {fwSets[i].alias}
    BY <1>2 DEF RemoveFirmware
  <2>2. /\ n \in Nat /\ DOMAIN fwSets = 1 .. n /\ fwSets \in Seq(SetStructures)
    BY Places DEF FwInv, FwTypes, FwSetLists, SetStructures
  <2>3. i \in 1 .. n
    <3>1. n # 0
      BY <1>2, <2>2, EmptySeq
    <3>2. FindFirmware(a) # 0 => FindFirmware(a) \in DOMAIN fwSets
      BY Found DEF FwInv
    <3> QED
      BY <2>2, <3>1, <3>2
  <2> HIDE DEF i
  <2>4. /\ fwSets' \in Seq(SetStructures) /\ DOMAIN fwSets' = 1 .. n - 1
        /\ \A j \in 1 .. n - 1 : fwSets'[j] = fwSets[p[j]]
    <3>1. /\ fwSets' \in Seq(SetStructures) /\ Len(fwSets') = Len(fwSets) - 1
          /\ \A j \in 1 .. Len(fwSets) - 1 : fwSets'[j] = fwSets[IF j < i THEN j ELSE j + 1]
      BY <2>1, <2>2, <2>3, RemovedAt
    <3> QED
      BY <3>1, LenProperties
  <2> HIDE DEF n
  <2>5. /\ \A j \in 1 .. n - 1 : p[j] \in 1 .. n /\ p[j] # 0 /\ p[j] # i
        /\ \A j, k \in 1 .. n - 1 : p[j] = p[k] => j = k
        /\ \A k \in 1 .. n : k # i => \E j \in 1 .. n - 1 : p[j] = k
    <3>1. \A j \in 1 .. n - 1 : p[j] \in 1 .. n /\ p[j] # 0 /\ p[j] # i
      BY <2>2, <2>3
    <3>2. \A j, k \in 1 .. n - 1 : p[j] = p[k] => j = k
      BY <2>2, <2>3
    <3>3. ASSUME NEW k \in 1 .. n, k # i
          PROVE  \E j \in 1 .. n - 1 : p[j] = k
      <4>1. CASE k < i
        <5>1. k \in 1 .. n - 1
          BY <2>2, <2>3, <4>1
        <5> QED
          BY <4>1, <5>1
      <4>2. CASE ~(k < i)
        <5>1. k - 1 \in 1 .. n - 1 /\ ~(k - 1 < i) /\ k - 1 + 1 = k
          BY <2>2, <2>3, <3>3, <4>2
        <5> QED
          BY <5>1
      <4> QED
        BY <4>1, <4>2
    <3> QED
      BY <3>1, <3>2, <3>3
  <2> HIDE DEF p
  <2>6. \A j, k \in DOMAIN fwSets' : fwSets'[j].alias = fwSets'[k].alias => j = k
    <3> SUFFICES ASSUME NEW j \in 1 .. n - 1, NEW k \in 1 .. n - 1, fwSets'[j].alias = fwSets'[k].alias
                 PROVE  j = k
      BY <2>4
    <3>1. p[j] \in DOMAIN fwSets /\ p[k] \in DOMAIN fwSets /\ fwSets[p[j]].alias = fwSets[p[k]].alias
      BY <2>2, <2>4, <2>5
    <3>2. p[j] = p[k]
      BY <3>1 DEF FwInv, FwTypes
    <3> QED
      BY <2>5, <3>2
  <2>7. Renews(fwSets, fwSets', p)
    BY <2>2, <2>4, <2>5 DEF Renews
  <2>8. \A x \in ranges' : x \in ranges /\ \E j \in DOMAIN fwSets' : p[j] # 0 /\ fwSets[p[j]].alias = x[1]
    <3> SUFFICES ASSUME NEW x \in ranges, x[1] # fwSets[i].alias
                 PROVE  \E j \in DOMAIN fwSets' : p[j] # 0 /\ fwSets[p[j]].alias = x[1]
      BY <2>1
    <3>1. PICK k \in DOMAIN fwSets : fwSets[k].alias = x[1]
      BY DEF FwInv, RangesHeld, RangeHeld
    <3>2. k # i
      BY <3>1
    <3>3. PICK j \in 1 .. n - 1 : p[j] = k
      BY <2>2, <2>5, <3>2
    <3> QED
      BY <2>4, <2>5, <3>1, <3>3
  <2>9. /\ fw' = fw /\ lastAdded' = lastAdded /\ fwStatus' \notin {"validated", "overlap"}
        /\ fwSets' \in FwSetLists
    BY <2>1, <2>4 DEF FwSetLists, SetStructures
  <2>10. \A j \in DOMAIN fwSets' : p[j] # 0 /\ fwSets'[j].alias \in mixed => fwSets'[j].alias \in mixed'
    <3> SUFFICES ASSUME NEW j \in 1 .. n - 1 PROVE fwSets'[j].alias # fwSets[i].alias
      BY <2>m, <2>4
    <3>1. p[j] \in DOMAIN fwSets /\ i \in DOMAIN fwSets /\ p[j] # i /\ fwSets'[j] = fwSets[p[j]]
      BY <2>2, <2>3, <2>4, <2>5
    <3> QED
      BY <3>1 DEF FwInv, FwTypes
  <2> QED
    BY <2>6, <2>7, <2>8, <2>9, <2>10, FwRenewed
<1> QED
  BY <1>1, <1>2

(* One more firmware is linked behind the last of the list s.              *)
Grows(mem, h, s) ==
  /\ Len(h) = Len(mem) + 1 /\ h \in Heaps(Len(h))
  /\ \A f \in 1 .. Len(mem) :
       /\ SameFirmware(h[f], mem[f]) /\ h[f].prev = mem[f].prev
       /\ s # << >> /\ f = s[Len(s)] => h[f].next = Len(mem) + 1
       /\ ~(s # << >> /\ f = s[Len(s)]) => h[f].next = mem[f].next
  /\ h[Len(mem) + 1].next = 0
  /\ h[Len(mem) + 1].prev = (IF s = << >> THEN 0 ELSE s[Len(s)])

LEMMA GrownLists ==
  ASSUME NEW mem, Len(mem) \in Nat, NEW sets, Linked(sets, mem), NEW i \in DOMAIN sets,
         NEW h, Grows(mem, h, ListOf(sets, mem, i)), NEW now, DOMAIN now = DOMAIN sets,
         now[i].firmware = (IF ListOf(sets, mem, i) = << >> THEN Len(mem) + 1 ELSE sets[i].firmware),
         \A j \in DOMAIN sets : j # i => now[j].firmware = sets[j].firmware
  PROVE  /\ Linked(now, h)
         /\ Members(now, h, i) = Members(sets, mem, i) \cup {Len(mem) + 1}
         /\ \A j \in DOMAIN sets : j # i => Members(now, h, j) = Members(sets, mem, j)
<1> DEFINE s == ListOf(sets, mem, i)
           n == Len(mem)
           l == [j \in DOMAIN now |-> IF j = i THEN Append(s, n + 1) ELSE ListOf(sets, mem, j)]
<1>0. /\ n \in Nat /\ Grows(mem, h, s) /\ now[i].firmware = (IF s = << >> THEN n + 1 ELSE sets[i].firmware)
      /\ IsList(mem, s, sets[i].firmware) /\ Members(sets, mem, i) = ToSet(s)
  BY DEF Linked, Members
<1>s. /\ Len(s) \in Nat /\ ToSet(s) = {s[k] : k \in 1 .. Len(s)}
      /\ \A k \in 1 .. Len(s) : s[k] \in 1 .. n
      /\ s # << >> => s[Len(s)] \in ToSet(s)
  <2> HIDE DEF s
  <2>1. s \in Seq(1 .. n)
    BY <1>0 DEF IsList
  <2>2. Len(s) \in Nat /\ \A k \in 1 .. Len(s) : s[k] \in 1 .. n
    BY <2>1, LenProperties, ElementOfSeq
  <2>3. ToSet(s) = {s[k] : k \in 1 .. Len(s)}
    BY <1>0, ListRange
  <2>4. s # << >> => Len(s) \in 1 .. Len(s)
    BY <2>1, <2>2, EmptySeq
  <2> QED
    BY <2>2, <2>3, <2>4
<1>1. ASSUME NEW j \in DOMAIN sets, j # i
      PROVE  /\ IsList(h, ListOf(sets, mem, j), sets[j].firmware)
             /\ n + 1 \notin Members(sets, mem, j)
  <2> DEFINE r == ListOf(sets, mem, j)
             head == sets[j].firmware
  <2>1. IsList(mem, r, head) /\ ToSet(r) \cap ToSet(s) = {}
    BY <1>1 DEF Linked, Members
  <2> HIDE DEF r, s, head
  <2>2. ToSet(r) = {r[k] : k \in 1 .. Len(r)} /\ \A k \in 1 .. Len(r) : r[k] \in 1 .. n
    <3>1. ToSet(r) = {r[k] : k \in 1 .. Len(r)}
      BY <2>1, ListRange
    <3> QED
      BY <2>1, <3>1, ElementOfSeq DEF IsList
  <2>3. \A k \in 1 .. Len(r) : h[r[k]].next = mem[r[k]].next /\ h[r[k]].prev = mem[r[k]].prev
    <3> SUFFICES ASSUME NEW k \in 1 .. Len(r)
                 PROVE  h[r[k]].next = mem[r[k]].next /\ h[r[k]].prev = mem[r[k]].prev
      OBVIOUS
    <3>1. ~(s # << >> /\ r[k] = s[Len(s)])
      BY <1>s, <2>1, <2>2
    <3> QED
      BY <1>0, <2>2, <3>1 DEF Grows
  <2>4. Len(h) \in Nat /\ Len(mem) <= Len(h)
    BY <1>0 DEF Grows
  <2>5. IsList(h, r, head)
    <3> HIDE DEF n
    <3> QED
      BY <2>1, <2>3, <2>4, ListStays
  <2>6. n + 1 \notin ToSet(r)
    <3> HIDE DEF n
    <3>1. n + 1 \notin 1 .. n
      BY <1>0
    <3> QED
      BY <2>2, <3>1
  <2> QED
    BY <2>5, <2>6 DEF r, head, Members
<1>2. /\ IsList(h, Append(s, n + 1), now[i].firmware)
      /\ ToSet(Append(s, n + 1)) = ToSet(s) \cup {n + 1}
  <2> HIDE DEF s
  <2>1. \A j, k \in 1 .. Len(s) : s[j] = s[k] => j = k
    BY <1>0 DEF IsList
  <2>2. \A k \in 1 .. Len(s) : /\ h[s[k]].next = IF k = Len(s) THEN n + 1 ELSE mem[s[k]].next
                               /\ h[s[k]].prev = mem[s[k]].prev
    <3> SUFFICES ASSUME NEW k \in 1 .. Len(s)
                 PROVE  /\ h[s[k]].next = IF k = Len(s) THEN n + 1 ELSE mem[s[k]].next
                        /\ h[s[k]].prev = mem[s[k]].prev
      OBVIOUS
    <3>1. Len(s) \in 1 .. Len(s) /\ s # << >>
      BY <1>s
    <3>2. s[k] = s[Len(s)] <=> k = Len(s)
      BY <2>1, <3>1
    <3> QED
      BY <1>0, <1>s, <3>1, <3>2 DEF Grows
  <2>3. /\ Len(h) = n + 1 /\ h[n + 1].next = 0
        /\ h[n + 1].prev = (IF s = << >> THEN 0 ELSE s[Len(s)])
    BY <1>0 DEF Grows
  <2> QED
    BY <1>0, <2>2, <2>3, Lengthened
<1>3. \A j \in DOMAIN now : ToSet(l[j]) = IF j = i THEN Members(sets, mem, i) \cup {n + 1}
                                                   ELSE Members(sets, mem, j)
  <2> HIDE DEF s
  <2> QED
    BY <1>0, <1>2 DEF Members
<1>4. Lists(now, h, l)
  <2>1. \A j \in DOMAIN now : IsList(h, l[j], now[j].firmware)
    <3> HIDE DEF s, n
    <3> QED
      BY <1>1, <1>2
  <2>2. ASSUME NEW j \in DOMAIN now, NEW k \in DOMAIN now, j # k
        PROVE  ToSet(l[j]) \cap ToSet(l[k]) = {}
    <3>1. Members(sets, mem, j) \cap Members(sets, mem, k) = {}
      BY <2>2 DEF Linked
    <3>2. (j # i => n + 1 \notin Members(sets, mem, j)) /\ (k # i => n + 1 \notin Members(sets, mem, k))
      BY <1>1
    <3> HIDE DEF l, n
    <3> QED
      BY <1>3, <2>2, <3>1, <3>2
  <2> HIDE DEF l
  <2> QED
    BY <2>1, <2>2 DEF Lists
<1> HIDE DEF l
<1>5. AreLists(now, h, l)
  <2>1. Len(h) \in Nat /\ h \in Heaps(Len(h))
    BY <1>0 DEF Grows
  <2> QED
    BY <1>4, <2>1, LinkedBy
<1> HIDE DEF s
<1> QED
  BY <1>3, <1>5 DEF AreLists, Members

LEMMA Added ==
  ASSUME NEW n \in Nat, NEW x \in [1 .. n -> Structures(n + 1)], NEW r \in Structures(n + 1)
  PROVE  /\ Append(x, r) \in Heaps(n + 1) /\ Len(Append(x, r)) = n + 1
         /\ \A f \in 1 .. n : Append(x, r)[f] = x[f]
         /\ Append(x, r)[n + 1] = r
<1>1. x \in Seq(Structures(n + 1)) /\ Len(x) = n
  BY SeqDef, LenProperties
<1>2. /\ Append(x, r) \in Seq(Structures(n + 1)) /\ Len(Append(x, r)) = n + 1
      /\ \A f \in 1 .. n : Append(x, r)[f] = x[f]
      /\ Append(x, r)[n + 1] = r
  BY <1>1, AppendProperties
<1>3. Append(x, r) \in Heaps(n + 1)
  BY <1>2, LenProperties DEF Heaps
<1> QED
  BY <1>2, <1>3

(* One more firmware is linked behind the firmware l, wherever that is.     *)
GrowsAt(mem, h, l) ==
  /\ Len(h) = Len(mem) + 1 /\ h \in Heaps(Len(h))
  /\ \A f \in 1 .. Len(mem) :
       /\ SameFirmware(h[f], mem[f]) /\ h[f].prev = mem[f].prev
       /\ h[f].next = IF f = l THEN Len(mem) + 1 ELSE mem[f].next
  /\ h[Len(mem) + 1].next = 0 /\ h[Len(mem) + 1].prev = l

(* The list l is in ends with the new one, and has lost what was behind l. *)
CutTo(s, k, new) == [o \in 1 .. k + 1 |-> IF o = k + 1 THEN new ELSE s[o]]

LEMMA CutOff ==
  ASSUME NEW mem, Len(mem) \in Nat, NEW s, NEW head, IsList(mem, s, head), NEW k \in 1 .. Len(s),
         NEW h, GrowsAt(mem, h, s[k])
  PROVE  /\ IsList(h, CutTo(s, k, Len(mem) + 1), head)
         /\ ToSet(CutTo(s, k, Len(mem) + 1)) \subseteq ToSet(s) \cup {Len(mem) + 1}
<1> DEFINE n == Len(mem)
           m == Len(s)
           t == CutTo(s, k, n + 1)
<1>0. /\ n \in Nat /\ m \in Nat /\ m <= n /\ k \in Nat /\ 1 <= k /\ k <= m
      /\ \A o \in 1 .. m : s[o] \in 1 .. n
      /\ \A o, q \in 1 .. m : s[o] = s[q] => o = q
      /\ ToSet(s) = {s[o] : o \in 1 .. m} /\ s # << >> /\ head = s[1]
  <2>1. s \in Seq(1 .. n) /\ m <= n /\ \A o, q \in 1 .. m : s[o] = s[q] => o = q
    BY DEF IsList
  <2>2. m \in Nat /\ \A o \in 1 .. m : s[o] \in 1 .. n
    <3> HIDE DEF n
    <3> QED
      BY <2>1, LenProperties, ElementOfSeq
  <2>3. ToSet(s) = {s[o] : o \in 1 .. m}
    BY ListRange
  <2>4. k \in Nat /\ 1 <= k /\ k <= m
    BY <2>2
  <2>5. s # << >>
    BY <2>1, <2>4, EmptySeq
  <2> QED
    BY <2>1, <2>2, <2>3, <2>4, <2>5 DEF IsList
<1>1. \A o \in 1 .. m : /\ mem[s[o]].next = (IF o = m THEN 0 ELSE s[o + 1])
                        /\ mem[s[o]].prev = (IF o = 1 THEN 0 ELSE s[o - 1])
  BY DEF IsList
<1>2. /\ Len(h) = n + 1 /\ h[n + 1].next = 0 /\ h[n + 1].prev = s[k]
      /\ \A o \in 1 .. m : /\ h[s[o]].prev = mem[s[o]].prev
                            /\ h[s[o]].next = IF o = k THEN n + 1 ELSE mem[s[o]].next
  BY <1>0 DEF GrowsAt
<1> HIDE DEF n, m
<1>3. \A o \in 1 .. k + 1 : o = k + 1 \/ (o \in 1 .. k /\ o # k + 1)
  BY <1>0
<1>4. \A o \in 1 .. k : o \in 1 .. m /\ o \in 1 .. k + 1 /\ o # k + 1
  BY <1>0
<1>5. t[k + 1] = n + 1 /\ \A o \in 1 .. k : t[o] = s[o]
  <2>1. k + 1 \in 1 .. k + 1
    BY <1>0
  <2> QED
    BY <1>4, <2>1 DEF CutTo
<1>6. t \in Seq(1 .. n + 1) /\ Len(t) = k + 1 /\ t # << >>
  <2>1. \A o \in 1 .. k + 1 : t[o] \in 1 .. n + 1
    <3>1. \A f \in 1 .. n : f \in 1 .. n + 1
      BY <1>0
    <3>2. n + 1 \in 1 .. n + 1
      BY <1>0
    <3> QED
      BY <1>0, <1>3, <1>4, <1>5, <3>1, <3>2
  <2>2. t \in [1 .. k + 1 -> 1 .. n + 1] /\ k + 1 \in Nat /\ k + 1 # 0
    <3>1. t = [o \in 1 .. k + 1 |-> t[o]]
      BY DEF CutTo
    <3> HIDE DEF t
    <3> QED
      BY <1>0, <2>1, <3>1
  <2>3. t \in Seq(1 .. n + 1) /\ DOMAIN t = 1 .. k + 1
    BY <2>2, SeqDef
  <2> QED
    BY <2>2, <2>3, LenProperties, EmptySeq
<1> HIDE DEF t
<1>7. \A o, q \in 1 .. k + 1 : t[o] = t[q] => o = q
  <2>1. \A o \in 1 .. k : t[o] # n + 1
    BY <1>0, <1>4, <1>5
  <2> QED
    BY <1>0, <1>3, <1>4, <1>5, <2>1
<1>8. ASSUME NEW o \in 1 .. k + 1
      PROVE  /\ h[t[o]].next = (IF o = k + 1 THEN 0 ELSE t[o + 1])
             /\ h[t[o]].prev = (IF o = 1 THEN 0 ELSE t[o - 1])
  <2>1. CASE o = k + 1
    <3>1. o # 1 /\ o - 1 = k /\ k \in 1 .. k
      BY <1>0, <2>1
    <3> QED
      BY <1>2, <1>5, <2>1, <3>1
  <2>2. CASE o \in 1 .. k /\ o # k + 1
    <3>1. /\ o \in 1 .. m /\ t[o] = s[o] /\ (o # k => o + 1 \in 1 .. k /\ o # m)
          /\ (o # 1 => o - 1 \in 1 .. k)
      BY <1>0, <1>5, <2>2
    <3>2. h[t[o]].next = IF o = k THEN n + 1 ELSE s[o + 1]
      BY <1>1, <1>2, <3>1
    <3>3. h[t[o]].prev = IF o = 1 THEN 0 ELSE s[o - 1]
      BY <1>1, <1>2, <3>1
    <3> QED
      BY <1>5, <2>2, <3>1, <3>2, <3>3
  <2> QED
    BY <1>3, <2>1, <2>2
<1>9. head = t[1]
  <2>1. 1 \in 1 .. k
    BY <1>0
  <2> QED
    BY <1>0, <1>5, <2>1
<1>10. IsList(h, t, head)
  <2>1. Len(t) <= Len(h)
    BY <1>0, <1>2, <1>6
  <2> QED
    BY <1>2, <1>6, <1>7, <1>8, <1>9, <2>1 DEF IsList
<1>11. ToSet(t) \subseteq ToSet(s) \cup {n + 1}
  <2>1. ToSet(t) = {t[o] : o \in 1 .. Len(t)}
    BY <1>10, ListRange
  <2> QED
    BY <1>0, <1>3, <1>4, <1>5, <1>6, <2>1
<1> QED
  BY <1>10, <1>11 DEF n, t

(* So all lists stay lists, apart from each other, and those that do not   *)
(* have l keep their firmware.                                             *)
LEMMA LinkedBehind ==
  ASSUME NEW mem, Len(mem) \in Nat, NEW sets, Linked(sets, mem),
         NEW last \in 1 .. Len(mem), NEW h, GrowsAt(mem, h, last)
  PROVE  /\ Linked(sets, h)
         /\ \A j \in DOMAIN sets :
              last \notin Members(sets, mem, j) => Members(sets, h, j) = Members(sets, mem, j)
<1> DEFINE n == Len(mem)
           s(j) == ListOf(sets, mem, j)
           at(j) == CHOOSE k \in 1 .. Len(s(j)) : s(j)[k] = last
           cut(j) == CutTo(s(j), at(j), n + 1)
           l == [j \in DOMAIN sets |-> IF last \in Members(sets, mem, j) THEN cut(j) ELSE s(j)]
<1>0. n \in Nat /\ n + 1 \notin 1 .. n
  OBVIOUS
<1>1. ASSUME NEW j \in DOMAIN sets
      PROVE  /\ IsList(mem, s(j), sets[j].firmware) /\ Members(sets, mem, j) = ToSet(s(j))
             /\ ToSet(s(j)) = {s(j)[k] : k \in 1 .. Len(s(j))}
             /\ \A k \in 1 .. Len(s(j)) : s(j)[k] \in 1 .. n
  <2> DEFINE r == s(j)
             head == sets[j].firmware
  <2>1. IsList(mem, r, head) /\ Members(sets, mem, j) = ToSet(r)
    BY DEF Linked, Members
  <2> HIDE DEF r, head
  <2>2. ToSet(r) = {r[k] : k \in 1 .. Len(r)}
    BY <2>1, ListRange
  <2>3. \A k \in 1 .. Len(r) : r[k] \in 1 .. n
    BY <2>1, ElementOfSeq DEF IsList
  <2> QED
    BY <2>1, <2>2, <2>3 DEF r, head
<1>2. ASSUME NEW j \in DOMAIN sets, last \in Members(sets, mem, j)
      PROVE  IsList(h, l[j], sets[j].firmware) /\ ToSet(l[j]) \subseteq Members(sets, mem, j) \cup {n + 1}
  <2> DEFINE r == s(j)
             k == at(j)
             t == cut(j)
             head == sets[j].firmware
  <2>1. IsList(mem, r, head) /\ Members(sets, mem, j) = ToSet(r) /\ \E o \in 1 .. Len(r) : r[o] = last
    BY <1>1, <1>2
  <2>2. k \in 1 .. Len(r) /\ r[k] = last
    <3> HIDE DEF s
    <3> QED
      BY <2>1
  <2>3. t = CutTo(r, k, n + 1) /\ l[j] = t
    BY <1>2
  <2> HIDE DEF r, k, t, head
  <2>4. GrowsAt(mem, h, r[k])
    BY <2>2
  <2>5. IsList(h, t, head) /\ ToSet(t) \subseteq ToSet(r) \cup {n + 1}
    BY <2>1, <2>2, <2>3, <2>4, CutOff
  <2> QED
    BY <2>1, <2>3, <2>5 DEF head
<1>3. ASSUME NEW j \in DOMAIN sets, last \notin Members(sets, mem, j)
      PROVE  IsList(h, l[j], sets[j].firmware) /\ ToSet(l[j]) = Members(sets, mem, j)
  <2> DEFINE r == s(j)
             head == sets[j].firmware
  <2>1. /\ IsList(mem, r, head) /\ Members(sets, mem, j) = ToSet(r) /\ ToSet(r) = {r[k] : k \in 1 .. Len(r)}
        /\ \A k \in 1 .. Len(r) : r[k] \in 1 .. n
        /\ l[j] = r
    BY <1>1, <1>3
  <2> HIDE DEF r, head, n, l
  <2>2. \A k \in 1 .. Len(r) : h[r[k]].next = mem[r[k]].next /\ h[r[k]].prev = mem[r[k]].prev
    BY <1>3, <2>1 DEF GrowsAt, n
  <2>3. Len(h) \in Nat /\ Len(mem) <= Len(h)
    BY DEF GrowsAt
  <2>4. IsList(h, r, head)
    BY <2>1, <2>2, <2>3, ListStays
  <2> QED
    BY <2>1, <2>4 DEF head
<1>4. Lists(sets, h, l)
  <2> HIDE DEF l
  <2>1. \A j \in DOMAIN sets : IsList(h, l[j], sets[j].firmware)
    BY <1>2, <1>3
  <2>2. ASSUME NEW i \in DOMAIN sets, NEW j \in DOMAIN sets, i # j
        PROVE  ToSet(l[i]) \cap ToSet(l[j]) = {}
    <3>1. Members(sets, mem, i) \cap Members(sets, mem, j) = {}
      BY <2>2 DEF Linked
    <3>2. n + 1 \notin Members(sets, mem, i) /\ n + 1 \notin Members(sets, mem, j)
      BY <1>0, <1>1
    <3>3. last \notin Members(sets, mem, i) \/ last \notin Members(sets, mem, j)
      BY <3>1
    <3> HIDE DEF n
    <3>4. /\ ToSet(l[i]) \subseteq Members(sets, mem, i) \cup (IF last \in Members(sets, mem, i) THEN {n + 1} ELSE {})
          /\ ToSet(l[j]) \subseteq Members(sets, mem, j) \cup (IF last \in Members(sets, mem, j) THEN {n + 1} ELSE {})
      BY <1>2, <1>3
    <3> QED
      BY <3>1, <3>2, <3>3, <3>4
  <2> QED
    BY <2>1, <2>2 DEF Lists
<1> HIDE DEF l
<1>5. AreLists(sets, h, l)
  <2>1. Len(h) \in Nat /\ h \in Heaps(Len(h))
    BY DEF GrowsAt
  <2> QED
    BY <1>4, <2>1, LinkedBy
<1> QED
  BY <1>3, <1>5 DEF AreLists, Members

(* Firmware that is linked to another list than that of its set, or into   *)
(* the midst of it, leaves lists, and the other sets what they are.        *)
LEMMA AddPtrrMixes ==
  ASSUME FwInv, NEW a \in FwAliases, NEW p \in Ptrrs, AddPtrr(a, p),
         FindFirmware(a) # 0, PtrrFree(FindFirmware(a), p), ~InOrder(FindFirmware(a))
  PROVE  FwInv'
<1> DEFINE i == FindFirmware(a)
           n == Len(fw)
<1>1. /\ fwStatus' = "ok" /\ lastAdded' = n + 1 /\ ranges' = ranges /\ mixed' = MixedBy(i)
      /\ fwSets' = fwSets /\ fw' = Append([fw EXCEPT ![lastAdded].next = n + 1], NewFw(p, lastAdded))
  BY DEF AddPtrr, Call, InOrder
<1>2. i \in DOMAIN fwSets /\ fwSets[i].firmware # 0
  BY Found DEF FwInv, InOrder
<1> HIDE DEF i
<1>3. /\ n \in Nat /\ fw \in Heaps(n) /\ Linked(fwSets, fw) /\ fw \in [1 .. n -> Structures(n)]
      /\ \A j \in DOMAIN fwSets : /\ Members(fwSets, fw, j) \subseteq 1 .. n
                                   /\ FirmwareOf(j) = Members(fwSets, fw, j)
  BY Places DEF FwInv, FwTypes, Heaps
<1>4. lastAdded \in 1 .. n
  <2> DEFINE s == ListOf(fwSets, fw, i)
  <2>1. IsList(fw, s, fwSets[i].firmware)
    BY <1>2, <1>3 DEF Linked
  <2> HIDE DEF s
  <2>2. s # << >> /\ s \in Seq(1 .. n) /\ Len(s) <= n
    BY <1>2, <2>1 DEF IsList
  <2>3. Len(s) \in Nat /\ Len(s) # 0
    BY <2>2, LenProperties, EmptySeq
  <2>4. n # 0
    BY <1>3, <2>2, <2>3
  <2> QED
    BY <1>3, <2>4 DEF FwInv, FwTypes
<1>5. GrowsAt(fw, fw', lastAdded)
  <2> DEFINE x == [fw EXCEPT ![lastAdded].next = n + 1]
             r == NewFw(p, lastAdded)
  <2> HIDE DEF n
  <2>1. r \in Structures(n + 1) /\ r.next = 0 /\ r.prev = lastAdded
    <3>1. 0 \in 0 .. n + 1 /\ lastAdded \in 0 .. n + 1
      BY <1>3, <1>4
    <3> QED
      BY <3>1 DEF NewFw, Structures
  <2>2. ASSUME NEW f \in 1 .. n
        PROVE  /\ x[f] \in Structures(n + 1) /\ SameFirmware(x[f], fw[f]) /\ x[f].prev = fw[f].prev
               /\ x[f].next = IF f = lastAdded THEN n + 1 ELSE fw[f].next
    <3>1. fw[f] \in Structures(n) /\ n + 1 \in 0 .. n + 1 /\ \A k \in 0 .. n : k \in 0 .. n + 1
      BY <1>3
    <3>2. fw[f] \in Structures(n + 1)
      BY <3>1 DEF Structures
    <3>3. x[f] = IF f = lastAdded THEN [fw[f] EXCEPT !.next = n + 1] ELSE fw[f]
      BY <1>3, <1>4
    <3> HIDE DEF x
    <3> QED
      BY <3>1, <3>2, <3>3 DEF Structures, SameFirmware
  <2>3. x \in [1 .. n -> Structures(n + 1)]
    <3>1. x = [f \in 1 .. n |-> x[f]]
      BY <1>3
    <3> HIDE DEF x
    <3> QED
      BY <2>2, <3>1
  <2>4. fw' = Append(x, r)
    BY <1>1
  <2> HIDE DEF x, r
  <2>5. /\ fw' \in Heaps(n + 1) /\ Len(fw') = n + 1
        /\ \A f \in 1 .. n : fw'[f] = x[f]
        /\ fw'[n + 1] = r
    BY <1>3, <2>1, <2>3, <2>4, Added
  <2> QED
    BY <2>1, <2>2, <2>5 DEF GrowsAt, n
<1>6. /\ Linked(fwSets, fw')
      /\ \A j \in DOMAIN fwSets :
           lastAdded \notin Members(fwSets, fw, j) => Members(fwSets, fw', j) = Members(fwSets, fw, j)
  BY <1>3, <1>4, <1>5, LinkedBehind
<1>7. \A j \in DOMAIN fwSets : fwSets[j].alias \notin mixed' =>
        fwSets[j].alias \notin mixed /\ lastAdded \notin Members(fwSets, fw, j)
  BY <1>1, <1>3 DEF MixedBy
<1>8. \A f \in 1 .. n : SameFirmware(fw'[f], fw[f])
  BY <1>5 DEF GrowsAt
<1>9. FwTypes'
  <2>1. fw' \in Heaps(Len(fw')) /\ Len(fw') \in Nat /\ lastAdded' \in 0 .. Len(fw') /\ lastAdded' # 0
    BY <1>1, <1>3, <1>5 DEF GrowsAt
  <2> QED
    BY <1>1, <2>1 DEF FwTypes, FwInv
<1>10. NumbersDiffer'
  <2> SUFFICES ASSUME NEW j \in DOMAIN fwSets, fwSets[j].alias \notin mixed',
                      NEW f \in Members(fwSets, fw', j),
                      NEW g \in Members(fwSets, fw', j), fw'[f].ptrr = fw'[g].ptrr
               PROVE  f = g
    BY <1>1 DEF NumbersDiffer
  <2>1. f \in Members(fwSets, fw, j) /\ g \in Members(fwSets, fw, j) /\ fwSets[j].alias \notin mixed
    BY <1>6, <1>7
  <2>2. fw[f].ptrr = fw[g].ptrr
    BY <1>3, <1>8, <2>1 DEF SameFirmware
  <2> QED
    BY <2>1, <2>2 DEF FwInv, NumbersDiffer
<1>11. RangesHeld'
  <2> SUFFICES ASSUME NEW x \in ranges PROVE RangeHeld(fwSets, fw', mixed', x)
    BY <1>1 DEF RangesHeld
  <2>1. PICK j \in DOMAIN fwSets :
          /\ fwSets[j].alias = x[1]
          /\ x[1] \notin mixed => /\ x[2] \in Members(fwSets, fw, j)
                                  /\ x = <<x[1], x[2], fw[x[2]].min, fw[x[2]].max>>
    BY DEF FwInv, RangesHeld, RangeHeld
  <2>2. x[1] \notin mixed' => /\ x[1] \notin mixed /\ x[2] \in Members(fwSets, fw', j)
                             /\ fw'[x[2]].min = fw[x[2]].min /\ fw'[x[2]].max = fw[x[2]].max
    BY <1>3, <1>6, <1>7, <1>8, <2>1 DEF SameFirmware
  <2> QED
    BY <2>1, <2>2 DEF RangeHeld
<1>12. StatusTold'
  BY <1>1 DEF StatusTold
<1> QED
  BY <1>1, <1>6, <1>9, <1>10, <1>11, <1>12 DEF FwInv

LEMMA AddPtrrKeeps ==
  ASSUME FwInv, NEW a \in FwAliases, NEW p \in Ptrrs, AddPtrr(a, p)
  PROVE  FwInv'
<1> DEFINE i == FindFirmware(a)
           n == Len(fw)
           s == ListOf(fwSets, fw, i)
           last == s[Len(s)]
<1>1. CASE i = 0 \/ ~PtrrFree(i, p)
  <2>1. fwSets' = fwSets /\ fw' = fw /\ lastAdded' = lastAdded /\ ranges' = ranges /\ mixed' = mixed
        /\ fwStatus' \notin {"validated", "overlap"}
    <3>1. CASE i = 0
      BY <3>1 DEF AddPtrr, Call
    <3>2. CASE i # 0 /\ ~PtrrFree(i, p)
      BY <3>2 DEF AddPtrr, Call
    <3> QED
      BY <1>1, <3>1, <3>2
  <2> QED
    BY <2>1, FwLeft
<1>2. CASE i # 0 /\ PtrrFree(i, p) /\ InOrder(i)
  <2>1. /\ InOrder(i) /\ fwStatus' = "ok" /\ lastAdded' = n + 1 /\ ranges' = ranges /\ mixed' = mixed
        /\ fwSets[i].firmware = 0 =>
             fwSets' = [fwSets EXCEPT ![i].firmware = n + 1] /\ fw' = Append(fw, NewFw(p, 0))
        /\ fwSets[i].firmware # 0 =>
             fwSets' = fwSets /\ fw' = Append([fw EXCEPT ![lastAdded].next = n + 1], NewFw(p, lastAdded))
    BY <1>2 DEF AddPtrr, Call
  <2>2. i \in DOMAIN fwSets
    BY <1>2, Found DEF FwInv
  <2> HIDE DEF i
  <2>3. /\ fwSets \in Seq(SetStructures) /\ fwSets[i] \in SetStructures /\ FirmwareOf(i) = Members(fwSets, fw, i)
        /\ IsList(fw, s, fwSets[i].firmware) /\ Members(fwSets, fw, i) = {s[k] : k \in 1 .. Len(s)}
        /\ \A j \in DOMAIN fwSets : Members(fwSets, fw, j) \subseteq 1 .. n
    BY <2>2, Places DEF FwInv, FwTypes, FwSetLists, SetStructures
  <2>4. /\ n \in Nat /\ fw \in Heaps(n) /\ Linked(fwSets, fw) /\ lastAdded \in 0 .. n
        /\ (\A f \in 1 .. n : fw[f] \in Structures(n)) /\ fw \in [1 .. n -> Structures(n)]
    BY DEF FwInv, FwTypes, Heaps
  <2>5. /\ Len(s) \in Nat /\ (s = << >> <=> fwSets[i].firmware = 0)
        /\ s # << >> => Len(s) \in 1 .. Len(s) /\ last \in 1 .. n
        /\ \A k \in 1 .. Len(s) : s[k] \in 1 .. n
    <3> HIDE DEF s, n, last
    <3>1. s \in Seq(1 .. n) /\ Len(s) \in Nat
      BY <2>3, LenProperties DEF IsList, n
    <3>2. s # << >> => Len(s) \in 1 .. Len(s) /\ 1 \in 1 .. Len(s)
      BY <3>1, EmptySeq
    <3>3. \A k \in 1 .. Len(s) : s[k] \in 1 .. n
      BY <3>1, ElementOfSeq
    <3>4. s = << >> <=> fwSets[i].firmware = 0
      BY <2>3, <3>2, <3>3 DEF IsList
    <3> QED
      BY <3>1, <3>2, <3>3, <3>4 DEF last
  <2>6. s # << >> => lastAdded = last
    <3> SUFFICES ASSUME s # << >> PROVE lastAdded = last
      OBVIOUS
    <3>1. lastAdded \in Members(fwSets, fw, i) /\ fw[lastAdded].next = 0
      BY <2>1, <2>3, <2>5 DEF InOrder
    <3> HIDE DEF s, n, last
    <3>2. PICK k \in 1 .. Len(s) : lastAdded = s[k]
      BY <2>3, <3>1
    <3>3. k = Len(s)
      <4>1. k # Len(s) => k + 1 \in 1 .. Len(s)
        BY <2>5
      <4>2. k # Len(s) => fw[s[k]].next = s[k + 1]
        BY <2>3 DEF IsList
      <4>3. k # Len(s) => s[k + 1] # 0
        BY <2>5, <4>1
      <4> QED
        BY <3>1, <3>2, <4>2, <4>3
    <3> QED
      BY <3>2, <3>3 DEF last
  <2>7. /\ Grows(fw, fw', s) /\ Len(fw') = n + 1 /\ fw'[n + 1].ptrr = p
    <3> DEFINE x == IF s = << >> THEN fw ELSE [fw EXCEPT ![last].next = n + 1]
               r == NewFw(p, IF s = << >> THEN 0 ELSE last)
    <3>1. fw' = Append(x, r)
      BY <2>1, <2>5, <2>6
    <3> HIDE DEF s, n, last
    <3>2. r \in Structures(n + 1) /\ r.next = 0 /\ r.prev = (IF s = << >> THEN 0 ELSE last) /\ r.ptrr = p
      <4>1. 0 \in 0 .. n + 1 /\ (s # << >> => last \in 0 .. n + 1)
        BY <2>4, <2>5
      <4> QED
        BY <4>1 DEF NewFw, Structures
    <3>3. ASSUME NEW f \in 1 .. n
          PROVE  /\ x[f] \in Structures(n + 1) /\ SameFirmware(x[f], fw[f]) /\ x[f].prev = fw[f].prev
                 /\ s # << >> /\ f = last => x[f].next = n + 1
                 /\ ~(s # << >> /\ f = last) => x[f].next = fw[f].next
      <4>1. fw[f] \in Structures(n) /\ \A k \in 0 .. n : k \in 0 .. n + 1
        BY <2>4
      <4>2. fw[f] \in Structures(n + 1)
        BY <4>1 DEF Structures
      <4>3. n + 1 \in 0 .. n + 1
        BY <2>4
      <4>4. CASE s # << >> /\ f = last
        <5>1. x[f] = [fw[f] EXCEPT !.next = n + 1]
          BY <2>4, <4>4
        <5> HIDE DEF x
        <5> QED
          BY <4>2, <4>3, <4>4, <5>1 DEF Structures, SameFirmware
      <4>5. CASE ~(s # << >> /\ f = last)
        <5>1. x[f] = fw[f]
          BY <2>4, <4>5
        <5> HIDE DEF x
        <5> QED
          BY <4>2, <4>5, <5>1 DEF SameFirmware
      <4> QED
        BY <4>4, <4>5
    <3>4. x \in [1 .. n -> Structures(n + 1)]
      <4>1. x = [f \in 1 .. n |-> x[f]]
        BY <2>4
      <4> HIDE DEF x
      <4> QED
        BY <3>3, <4>1
    <3> HIDE DEF x, r
    <3>5. /\ fw' \in Heaps(n + 1) /\ Len(fw') = n + 1
          /\ \A f \in 1 .. n : fw'[f] = x[f]
          /\ fw'[n + 1] = r
      BY <2>4, <3>1, <3>2, <3>4, Added
    <3> QED
      BY <3>2, <3>3, <3>5 DEF Grows, n, last
  <2>8. /\ fwSets' \in FwSetLists /\ DOMAIN fwSets' = DOMAIN fwSets
        /\ \A j \in DOMAIN fwSets : /\ fwSets'[j].alias = fwSets[j].alias
                                    /\ j # i => fwSets'[j].firmware = fwSets[j].firmware
        /\ fwSets'[i].firmware = IF s = << >> THEN n + 1 ELSE fwSets[i].firmware
    <3> HIDE DEF s, n
    <3>1. CASE fwSets[i].firmware = 0
      <4>1. fwSets' = [fwSets EXCEPT ![i].firmware = n + 1]
        BY <2>1, <3>1 DEF n
      <4>2. /\ DOMAIN fwSets' = DOMAIN fwSets
            /\ \A j \in DOMAIN fwSets : /\ fwSets'[j].alias = fwSets[j].alias
                                        /\ j # i => fwSets'[j].firmware = fwSets[j].firmware
            /\ fwSets'[i].firmware = n + 1
            /\ fwSets'[i] \in SetStructures /\ fwSets' = [fwSets EXCEPT ![i] = fwSets'[i]]
        <5>1. \A j \in DOMAIN fwSets : fwSets[j] \in SetStructures
          BY Places DEF FwInv
        <5> QED
          BY <2>2, <2>4, <4>1, <5>1 DEF SetStructures
      <4>3. fwSets' \in Seq(SetStructures)
        BY <2>2, <2>3, <4>2, ExceptSeq
      <4> QED
        BY <2>5, <3>1, <4>2, <4>3 DEF FwSetLists, SetStructures
    <3>2. CASE fwSets[i].firmware # 0
      BY <2>1, <2>3, <2>5, <3>2 DEF FwSetLists, SetStructures
    <3> QED
      BY <3>1, <3>2
  <2>9. /\ Linked(fwSets', fw')
        /\ Members(fwSets', fw', i) = Members(fwSets, fw, i) \cup {n + 1}
        /\ \A j \in DOMAIN fwSets : j # i => Members(fwSets', fw', j) = Members(fwSets, fw, j)
    <3>1. /\ Len(fw) \in Nat /\ Grows(fw, fw', ListOf(fwSets, fw, i)) /\ DOMAIN fwSets' = DOMAIN fwSets
          /\ fwSets'[i].firmware = (IF ListOf(fwSets, fw, i) = << >> THEN Len(fw) + 1 ELSE fwSets[i].firmware)
          /\ \A j \in DOMAIN fwSets : j # i => fwSets'[j].firmware = fwSets[j].firmware
      BY <2>4, <2>7, <2>8
    <3> HIDE DEF s, last
    <3> QED
      BY <2>2, <2>4, <3>1, GrownLists
  <2>10. \A f \in 1 .. n : SameFirmware(fw'[f], fw[f])
    BY <2>7 DEF Grows
  <2> HIDE DEF n, s, last
  <2>11. n + 1 \in 0 .. n + 1 /\ n + 1 \in Nat /\ n + 1 \notin 1 .. n
    BY <2>4
  <2>12. FwTypes'
    <3>1. fw' \in Heaps(Len(fw')) /\ Len(fw') \in Nat /\ lastAdded' \in 0 .. Len(fw')
      BY <2>1, <2>7, <2>11 DEF Grows, n
    <3>2. \A j, k \in DOMAIN fwSets' : fwSets'[j].alias = fwSets'[k].alias => j = k
      BY <2>8 DEF FwInv, FwTypes
    <3>3. lastAdded' # 0
      BY <2>1, <2>4 DEF n
    <3> QED
      BY <2>8, <3>1, <3>2, <3>3 DEF FwTypes
  <2>13. NumbersDiffer'
    <3> SUFFICES ASSUME NEW j \in DOMAIN fwSets', fwSets'[j].alias \notin mixed',
                        NEW f \in Members(fwSets', fw', j),
                        NEW g \in Members(fwSets', fw', j), fw'[f].ptrr = fw'[g].ptrr
                 PROVE  f = g
      BY DEF NumbersDiffer
    <3>1. j \in DOMAIN fwSets
      BY <2>8
    <3>2. \A x \in Members(fwSets, fw, j) : fw'[x].ptrr = fw[x].ptrr
      BY <2>3, <2>10, <3>1 DEF SameFirmware
    <3>3. \A x, y \in Members(fwSets, fw, j) : fw[x].ptrr = fw[y].ptrr => x = y
      BY <2>1, <2>8, <3>1 DEF FwInv, NumbersDiffer
    <3>4. \A x \in Members(fwSets, fw, i) : fw[x].ptrr # p
      BY <1>2, <2>3 DEF PtrrFree, i
    <3> QED
      BY <2>7, <2>9, <3>1, <3>2, <3>3, <3>4
  <2>14. RangesHeld'
    <3> SUFFICES ASSUME NEW x \in ranges PROVE RangeHeld(fwSets', fw', mixed, x)
      BY <2>1 DEF RangesHeld
    <3>1. PICK j \in DOMAIN fwSets :
            /\ fwSets[j].alias = x[1]
            /\ x[1] \notin mixed => /\ x[2] \in Members(fwSets, fw, j)
                                    /\ x = <<x[1], x[2], fw[x[2]].min, fw[x[2]].max>>
      BY DEF FwInv, RangesHeld, RangeHeld
    <3>2. x[1] \notin mixed => fw'[x[2]].min = fw[x[2]].min /\ fw'[x[2]].max = fw[x[2]].max
      BY <2>3, <2>10, <3>1 DEF SameFirmware
    <3>3. x[1] \notin mixed => x[2] \in Members(fwSets', fw', j)
      BY <2>9, <3>1
    <3>4. j \in DOMAIN fwSets' /\ fwSets'[j].alias = x[1]
      BY <2>8, <3>1
    <3> QED
      BY <3>1, <3>2, <3>3, <3>4 DEF RangeHeld
  <2>15. StatusTold'
    BY <2>1 DEF StatusTold
  <2> QED
    BY <2>9, <2>12, <2>13, <2>14, <2>15 DEF FwInv
<1>3. CASE i # 0 /\ PtrrFree(i, p) /\ ~InOrder(i)
  BY <1>3, AddPtrrMixes
<1> QED
  BY <1>1, <1>2, <1>3

(* An item of the firmware f, for set i.                                   *)
LEMMA SetItemKeeps ==
  ASSUME FwInv, NEW i \in DOMAIN fwSets, NEW f \in 0 .. Len(fw),
         NEW name, NEW t \in PeakingTimes, SetItem(i, f, name, t),
         fwSets' = fwSets, lastAdded' = lastAdded, mixed \subseteq mixed',
         f = 0 => mixed' = mixed,
         f \in Members(fwSets, fw, i) \cup {0} \/ fwSets[i].alias \in mixed'
  PROVE  FwInv'
<1>1. CASE f = 0
  <2>1. fwSets' = fwSets /\ fw' = fw /\ lastAdded' = lastAdded /\ ranges' = ranges /\ mixed' = mixed
        /\ fwStatus' \notin {"validated", "overlap"}
    BY <1>1 DEF SetItem, Call
  <2> QED
    BY <2>1, FwLeft
<1>2. CASE f # 0
  <2> DEFINE n == Len(fw)
             r == WithItem(fw[f], name, t)
  <2>0. /\ n \in Nat /\ fw \in [1 .. n -> Structures(n)] /\ Linked(fwSets, fw)
        /\ \A j \in DOMAIN fwSets : Members(fwSets, fw, j) \subseteq 1 .. n
    BY <1>2, Places DEF FwInv, FwTypes, Heaps
  <2>1. fw' = [fw EXCEPT ![f] = r] /\ fwStatus' = ItemStatus(r)
        /\ ranges' = {x \in ranges : x[2] # f} \cup {<<fwSets[i].alias, f, r.min, r.max>>}
    BY <1>2 DEF SetItem, Call
  <2>2. f \in 1 .. n
    BY <1>2, <2>0
  <2>3. r \in Structures(n) /\ r.ptrr = fw[f].ptrr /\ r.next = fw[f].next /\ r.prev = fw[f].prev
    <3>1. fw[f] \in Structures(n) /\ t \in Nat
      BY <2>0, <2>2, FirmwareAssumption
    <3> QED
      BY <3>1 DEF WithItem, Structures
  <2> HIDE DEF r
  <2>4. /\ fw' \in Heaps(n) /\ fw'[f] = r
        /\ \A g \in 1 .. n : g # f => fw'[g] = fw[g]
    BY <2>0, <2>1, <2>2, <2>3 DEF Heaps
  <2>5. Len(fw') = n
    BY <2>0, <2>4, HeapLength
  <2>6. \A g \in 1 .. n : fw'[g].ptrr = fw[g].ptrr /\ fw'[g].next = fw[g].next /\ fw'[g].prev = fw[g].prev
    BY <2>3, <2>4
  <2>7. /\ Linked(fwSets, fw')
        /\ \A j \in DOMAIN fwSets : Members(fwSets, fw', j) = Members(fwSets, fw, j)
    <3> DEFINE l == [j \in DOMAIN fwSets |-> ListOf(fwSets, fw, j)]
    <3>1. ASSUME NEW j \in DOMAIN fwSets
          PROVE  IsList(fw', l[j], fwSets[j].firmware)
      <4> DEFINE s == l[j]
                 head == fwSets[j].firmware
      <4>1. IsList(fw, s, head)
        BY <2>0 DEF Linked
      <4> HIDE DEF l, s, head
      <4>2. \A k \in 1 .. Len(s) : s[k] \in 1 .. n
        BY <4>1, ElementOfSeq DEF IsList
      <4>3. /\ Len(fw') \in Nat /\ Len(fw) <= Len(fw') /\ Len(fw) \in Nat
            /\ \A k \in 1 .. Len(s) : fw'[s[k]].next = fw[s[k]].next /\ fw'[s[k]].prev = fw[s[k]].prev
        BY <2>0, <2>5, <2>6, <4>2
      <4> HIDE DEF n
      <4>4. IsList(fw', s, head)
        BY <4>1, <4>3, ListStays
      <4> QED
        BY <4>4 DEF s, head
    <3>2. \A j, k \in DOMAIN fwSets : j # k => ToSet(l[j]) \cap ToSet(l[k]) = {}
      BY <2>0 DEF Linked, Members
    <3> HIDE DEF l
    <3>3. Lists(fwSets, fw', l)
      BY <3>1, <3>2 DEF Lists
    <3>4. Len(fw') \in Nat /\ fw' \in Heaps(Len(fw'))
      BY <2>0, <2>4, <2>5
    <3>5. AreLists(fwSets, fw', l)
      BY <3>3, <3>4, LinkedBy
    <3> QED
      BY <3>5 DEF AreLists, Members, l
  <2> HIDE DEF n
  <2>8. FwTypes'
    BY <2>0, <2>4, <2>5 DEF FwTypes, FwInv, n
  <2>9. NumbersDiffer'
    <3> SUFFICES ASSUME NEW j \in DOMAIN fwSets, fwSets[j].alias \notin mixed', NEW g \in Members(fwSets, fw, j),
                        NEW b \in Members(fwSets, fw, j), fw'[g].ptrr = fw'[b].ptrr
                 PROVE  g = b
      BY <2>7 DEF NumbersDiffer
    <3>1. fw[g].ptrr = fw[b].ptrr
      BY <2>0, <2>6
    <3> QED
      BY <3>1 DEF FwInv, NumbersDiffer
  <2>10. RangesHeld'
    <3> SUFFICES ASSUME NEW x \in ranges' PROVE RangeHeld(fwSets, fw', mixed', x)
      BY DEF RangesHeld
    <3>1. CASE x = <<fwSets[i].alias, f, r.min, r.max>>
      <4>1. x[1] = fwSets[i].alias /\ x[2] = f
        BY <3>1
      <4>2. x[1] \notin mixed' => f \in Members(fwSets, fw', i)
        BY <1>2, <2>7, <4>1
      <4> QED
        BY <2>4, <3>1, <4>1, <4>2 DEF RangeHeld
    <3>2. CASE x \in ranges /\ x[2] # f
      <4>1. PICK j \in DOMAIN fwSets :
              /\ fwSets[j].alias = x[1]
              /\ x[1] \notin mixed => /\ x[2] \in Members(fwSets, fw, j)
                                      /\ x = <<x[1], x[2], fw[x[2]].min, fw[x[2]].max>>
        BY <3>2 DEF FwInv, RangesHeld, RangeHeld
      <4>2. x[1] \notin mixed => fw'[x[2]] = fw[x[2]]
        BY <2>0, <2>4, <3>2, <4>1
      <4> QED
        BY <2>7, <4>1, <4>2 DEF RangeHeld
    <3> QED
      BY <2>1, <3>1, <3>2
  <2>11. StatusTold'
    <3>1. fwStatus' \notin {"validated", "overlap"}
      BY <2>1 DEF ItemStatus
    <3> QED
      BY <3>1 DEF StatusTold
  <2> QED
    BY <2>7, <2>8, <2>9, <2>10, <2>11 DEF FwInv
<1> QED
  BY <1>1, <1>2

LEMMA AddItemKeeps ==
  ASSUME FwInv, NEW a \in FwAliases, NEW name, NEW t \in PeakingTimes, AddItem(a, name, t)
  PROVE  FwInv'
<1> DEFINE i == FindFirmware(a)
<1>1. CASE i = 0
  <2>1. fwSets' = fwSets /\ fw' = fw /\ lastAdded' = lastAdded /\ ranges' = ranges /\ mixed' = mixed
        /\ fwStatus' \notin {"validated", "overlap"}
    BY <1>1 DEF AddItem, Call, fwHistory
  <2> QED
    BY <2>1, FwLeft
<1>2. CASE i # 0
  <2>1. /\ SetItem(i, lastAdded, name, t) /\ fwSets' = fwSets /\ lastAdded' = lastAdded
        /\ mixed' = IF lastAdded \in FirmwareOf(i) \cup {0} THEN mixed ELSE MixedBy(i)
    BY <1>2 DEF AddItem
  <2>2. i \in DOMAIN fwSets
    BY <1>2, Found DEF FwInv
  <2> HIDE DEF i
  <2>3. /\ lastAdded \in FirmwareOf(i) \cup {0} => lastAdded \in Members(fwSets, fw, i) \cup {0}
        /\ lastAdded \in 0 .. Len(fw)
    BY <2>2, Places DEF FwInv, FwTypes
  <2>4. /\ mixed \subseteq mixed' /\ (lastAdded = 0 => mixed' = mixed)
        /\ lastAdded \in Members(fwSets, fw, i) \cup {0} \/ fwSets[i].alias \in mixed'
    BY <2>1, <2>2, <2>3 DEF MixedBy
  <2> QED
    BY <2>1, <2>2, <2>3, <2>4, SetItemKeeps
<1> QED
  BY <1>1, <1>2

LEMMA ModifyItemKeeps ==
  ASSUME FwInv, NEW a \in FwAliases, NEW p, NEW name, NEW t \in PeakingTimes, ModifyItem(a, p, name, t)
  PROVE  FwInv'
<1> DEFINE i == FindFirmware(a)
           mine == {f \in FirmwareOf(i) : fw[f].ptrr = p}
           f == IF mine = {} THEN 0 ELSE CHOOSE f \in mine : TRUE
<1>1. CASE i = 0
  <2>1. fwSets' = fwSets /\ fw' = fw /\ lastAdded' = lastAdded /\ ranges' = ranges /\ mixed' = mixed
        /\ fwStatus' \notin {"validated", "overlap"}
    BY <1>1 DEF ModifyItem, Call
  <2> QED
    BY <2>1, FwLeft
<1>2. CASE i # 0
  <2>1. SetItem(i, f, name, t) /\ fwSets' = fwSets /\ lastAdded' = lastAdded /\ mixed' = mixed
    BY <1>2 DEF ModifyItem
  <2>2. i \in DOMAIN fwSets
    BY <1>2, Found DEF FwInv
  <2> HIDE DEF i
  <2>3. f \in FirmwareOf(i) \cup {0}
    BY DEF mine
  <2> HIDE DEF f, mine
  <2>4. f \in Members(fwSets, fw, i) \cup {0} /\ f \in 0 .. Len(fw)
    BY <2>2, <2>3, Places DEF FwInv, FwTypes
  <2> QED
    BY <2>1, <2>2, <2>4, SetItemKeeps
<1> QED
  BY <1>1, <1>2

LEMMA ValidateFirmwareSetsKeeps ==
  ASSUME FwInv, ValidateFirmwareSets
  PROVE  FwInv'
<1> DEFINE v == Validated(fwSets, fw)
           n == Len(fw)
<1>0. /\ n \in Nat /\ fw \in Heaps(Len(fw)) /\ fwSets \in FwSetLists /\ Linked(fwSets, fw)
      /\ Len(fwSets) \in Nat /\ DOMAIN fwSets = 1 .. Len(fwSets)
      /\ \A i \in DOMAIN fwSets : Members(fwSets, fw, i) \subseteq 1 .. n
  BY Places DEF FwInv, FwTypes
<1>1. /\ fwStatus' = (IF v.status = "next" THEN "validated" ELSE v.status)
      /\ fwSets' = v.sets /\ fw' = v.fw /\ lastAdded' = lastAdded /\ ranges' = ranges /\ mixed' = mixed
  BY DEF ValidateFirmwareSets, Call, fwHistory
<1>2. Rearranged(fwSets, fw, v) /\ Says(v, Len(fwSets))
  BY <1>0, ValidatedIs
<1> HIDE DEF v
<1>3. /\ fwSets' \in FwSetLists /\ fw' \in Heaps(n) /\ Len(fw') = n
      /\ DOMAIN fwSets' = DOMAIN fwSets /\ Linked(fwSets', fw')
      /\ \A i \in DOMAIN fwSets : fwSets'[i].alias = fwSets[i].alias
      /\ \A i \in DOMAIN fwSets : Members(fwSets', fw', i) = Members(fwSets, fw, i)
      /\ \A f \in 1 .. n : fw'[f].ptrr = fw[f].ptrr /\ fw'[f].min = fw[f].min /\ fw'[f].max = fw[f].max
  BY <1>1, <1>2 DEF Rearranged, SameFirmware
<1>4. FwTypes'
  <2>1. fw' \in Heaps(Len(fw')) /\ Len(fw') \in Nat /\ lastAdded' \in 0 .. Len(fw')
    BY <1>0, <1>1, <1>3 DEF FwInv, FwTypes
  <2>2. \A i, j \in DOMAIN fwSets' : fwSets'[i].alias = fwSets'[j].alias => i = j
    BY <1>3 DEF FwInv, FwTypes
  <2>3. Len(fw') # 0 => lastAdded' # 0
    BY <1>1, <1>3 DEF FwInv, FwTypes
  <2> QED
    BY <1>3, <2>1, <2>2, <2>3 DEF FwTypes
<1>5. NumbersDiffer'
  <2> SUFFICES ASSUME NEW i \in DOMAIN fwSets, fwSets[i].alias \notin mixed, NEW f \in Members(fwSets, fw, i),
                      NEW g \in Members(fwSets, fw, i), fw'[f].ptrr = fw'[g].ptrr
               PROVE  f = g
    BY <1>1, <1>3 DEF NumbersDiffer
  <2>1. fw[f].ptrr = fw[g].ptrr
    BY <1>0, <1>3
  <2> QED
    BY <2>1 DEF FwInv, NumbersDiffer
<1>6. RangesHeld'
  <2> SUFFICES ASSUME NEW x \in ranges PROVE RangeHeld(fwSets', fw', mixed, x)
    BY <1>1 DEF RangesHeld
  <2>1. PICK i \in DOMAIN fwSets :
          /\ fwSets[i].alias = x[1]
          /\ x[1] \notin mixed => /\ x[2] \in Members(fwSets, fw, i)
                                  /\ x = <<x[1], x[2], fw[x[2]].min, fw[x[2]].max>>
    BY DEF FwInv, RangesHeld, RangeHeld
  <2>2. x[1] \notin mixed => fw'[x[2]].min = fw[x[2]].min /\ fw'[x[2]].max = fw[x[2]].max
    BY <1>0, <1>3, <2>1
  <2>3. i \in DOMAIN fwSets' /\ fwSets'[i].alias = x[1] /\ Members(fwSets', fw', i) = Members(fwSets, fw, i)
    BY <1>3, <2>1
  <2> QED
    BY <2>1, <2>2, <2>3 DEF RangeHeld
<1>7. StatusTold'
  <2>1. ASSUME fwStatus' = "validated", NEW i \in DOMAIN fwSets, \A j \in 1 .. i : ~fwSets'[j].filename
        PROVE  Passed(fwSets', fw', i)
    <3>1. CASE v.status = "next"
      BY <1>0, <1>1, <1>2, <3>1 DEF Says
    <3>2. CASE v.status = "validated"
      <4>1. PICK j \in 1 .. Len(fwSets) :
              v.sets[j].filename /\ \A k \in 1 .. j - 1 : Passed(v.sets, v.fw, k)
        BY <1>2, <3>2 DEF Says
      <4>2. j \notin 1 .. i
        BY <1>1, <2>1, <4>1
      <4>3. i \in 1 .. j - 1
        BY <1>0, <4>2
      <4> QED
        BY <1>1, <4>1, <4>3
    <3> QED
      BY <1>1, <2>1, <3>1, <3>2
  <2>2. ASSUME fwStatus' = "overlap"
        PROVE  Overlapping(fwSets', fw')
    BY <1>1, <1>2, <2>2 DEF Says
  <2> QED
    BY <1>3, <2>1, <2>2 DEF StatusTold
<1> QED
  BY <1>3, <1>4, <1>5, <1>6, <1>7 DEF FwInv

(* Whatever the user adds, changes, removes and validates, the lists of    *)
(* the sets stay what IsList says.                                         *)
THEOREM FwInductive == FwSpec => []FwInv
<1>1. FwInit => FwInv
  BY FwInitially
<1>2. FwInv /\ [FwNext]_fwVars => FwInv'
  <2> SUFFICES ASSUME FwInv, [FwNext]_fwVars PROVE FwInv'
    OBVIOUS
  <2>1. CASE UNCHANGED fwVars
    BY <2>1, FwLeft DEF fwVars, fwHistory
  <2>2. ASSUME NEW a \in FwAliases, NewFirmware(a) PROVE FwInv'
    BY <2>2, NewFirmwareKeeps
  <2>3. ASSUME NEW a \in FwAliases, AddFilename(a) PROVE FwInv'
    BY <2>3, AddFilenameKeeps
  <2>4. ASSUME NEW a \in FwAliases, RemoveFirmware(a) PROVE FwInv'
    BY <2>4, RemoveFirmwareKeeps
  <2>5. ASSUME NEW a \in FwAliases, NEW p \in Ptrrs, AddPtrr(a, p) PROVE FwInv'
    BY <2>5, AddPtrrKeeps
  <2>6. ASSUME NEW a \in FwAliases, NEW t \in PeakingTimes, NEW name, AddItem(a, name, t) PROVE FwInv'
    BY <2>6, AddItemKeeps
  <2>7. ASSUME NEW a \in FwAliases, NEW p, NEW t \in PeakingTimes, NEW name, ModifyItem(a, p, name, t)
        PROVE  FwInv'
    BY <2>7, ModifyItemKeeps
  <2>8. CASE ValidateFirmwareSets
    BY <2>8, ValidateFirmwareSetsKeeps
  <2> QED
    BY <2>1, <2>2, <2>3, <2>4, <2>5, <2>6, <2>7, <2>8 DEF FwNext
<1> QED
  BY <1>1, <1>2, PTL DEF FwSpec

(* Whatever is added, sorted, validated again and removed, each set has    *)
(* the firmware the user gave it, none lost by xiaSwap, but for sets mixed *)
(* by a call that went by the firmware added last; and however that went,  *)
(* none is in two lists.                                                   *)
THEOREM SetsKeepTheirFirmware == FwSpec => []SetsHaveTheirFirmware
<1>1. FwInv => SetsHaveTheirFirmware
  <2> SUFFICES ASSUME FwInv PROVE SetsHaveTheirFirmware
    OBVIOUS
  <2>0. /\ \A i \in DOMAIN fwSets : /\ FirmwareOf(i) = Members(fwSets, fw, i)
                                    /\ IsList(fw, ListOf(fwSets, fw, i), fwSets[i].firmware)
                                    /\ Members(fwSets, fw, i) =
                                         {ListOf(fwSets, fw, i)[k] : k \in 1 .. Len(ListOf(fwSets, fw, i))}
    BY Places DEF FwInv
  <2>1. \A x \in ranges : x[1] \notin mixed =>
          \E i \in DOMAIN fwSets : fwSets[i].alias = x[1] /\ x[2] \in FirmwareOf(i)
    BY <2>0 DEF FwInv, RangesHeld, RangeHeld
  <2>2. \A i, j \in DOMAIN fwSets : i # j => FirmwareOf(i) \cap FirmwareOf(j) = {}
    BY <2>0 DEF FwInv, Linked
  <2>3. ASSUME NEW i \in DOMAIN fwSets, NEW f \in FirmwareOf(i), fw[f].next # 0
        PROVE  fw[fw[f].next].prev = f
    <3> DEFINE s == ListOf(fwSets, fw, i)
    <3>1. IsList(fw, s, fwSets[i].firmware) /\ f \in {s[k] : k \in 1 .. Len(s)}
      BY <2>0
    <3> HIDE DEF s
    <3>2. Len(s) \in Nat
      BY <3>1, LenProperties DEF IsList
    <3>3. PICK k \in 1 .. Len(s) : f = s[k]
      BY <3>1
    <3>4. k # Len(s) /\ fw[f].next = s[k + 1]
      BY <2>3, <3>1, <3>3 DEF IsList
    <3>5. k + 1 \in 1 .. Len(s) /\ k + 1 # 1 /\ (k + 1) - 1 = k
      BY <3>2, <3>4
    <3>6. fw[s[k + 1]].prev = (IF k + 1 = 1 THEN 0 ELSE s[(k + 1) - 1])
      BY <3>1, <3>5 DEF IsList
    <3> QED
      BY <3>3, <3>4, <3>5, <3>6
  <2> QED
    BY <2>1, <2>2, <2>3 DEF SetsHaveTheirFirmware
<1> QED
  BY <1>1, FwInductive, PTL

(* In a list that was validated, the first that fits is the only one whose *)
(* range has the peaking time inside.                                      *)
LEMMA FirstThatFits ==
  ASSUME NEW s, Len(s) \in Nat, DOMAIN s = 1 .. Len(s), NEW fits, fits \subseteq 1 .. Len(s),
         NEW k \in fits, \A j \in fits : k <= j
  PROVE  FirstWith(s, fits) = s[k]
<1>1. \A j \in fits : (\A i \in fits : j <= i) => j = k
  OBVIOUS
<1>2. (CHOOSE j \in fits : \A i \in fits : j <= i) = k
  BY <1>1
<1> QED
  BY <1>2 DEF FirstWith

(* The ranges of a set, with 0 for what was given none, are as many as its *)
(* firmware.                                                               *)
LEMMA RangesCounted ==
  ASSUME FwInv, NEW i \in DOMAIN fwSets, fwSets[i].alias \notin mixed
  PROVE  LET a == fwSets[i].alias IN
         Cardinality(RangesOf(a) \cup
           {<<a, f, 0, 0>> : f \in FirmwareOf(i) \ {x[2] : x \in RangesOf(a)}}) = Len(ListOf(fwSets, fw, i))
<1> DEFINE a == fwSets[i].alias
           s == ListOf(fwSets, fw, i)
           given == {x[2] : x \in RangesOf(a)}
           all == RangesOf(a) \cup {<<a, f, 0, 0>> : f \in FirmwareOf(i) \ given}
           B == [k \in 1 .. Len(s) |-> IF s[k] \in given THEN <<a, s[k], fw[s[k]].min, fw[s[k]].max>>
                                                         ELSE <<a, s[k], 0, 0>>]
<1>0. /\ IsList(fw, s, fwSets[i].firmware) /\ FirmwareOf(i) = {s[k] : k \in 1 .. Len(s)}
      /\ Members(fwSets, fw, i) = {s[k] : k \in 1 .. Len(s)}
  BY Places DEF FwInv
<1>1. /\ Len(s) \in Nat /\ \A j, k \in 1 .. Len(s) : s[j] = s[k] => j = k
  <2> HIDE DEF s
  <2> QED
    BY <1>0, LenProperties DEF IsList
<1>2. ASSUME NEW x \in RangesOf(a)
      PROVE  /\ x = <<a, x[2], fw[x[2]].min, fw[x[2]].max>>
             /\ x[2] \in Members(fwSets, fw, i)
  <2>1. x \in ranges /\ x[1] = a /\ a \notin mixed
    BY DEF RangesOf
  <2>2. PICK j \in DOMAIN fwSets : /\ fwSets[j].alias = x[1] /\ x[2] \in Members(fwSets, fw, j)
                                  /\ x = <<x[1], x[2], fw[x[2]].min, fw[x[2]].max>>
    BY <2>1 DEF FwInv, RangesHeld, RangeHeld
  <2>3. j = i
    BY <2>1, <2>2 DEF FwInv, FwTypes
  <2> QED
    BY <2>1, <2>2, <2>3
<1> HIDE DEF s, a
<1>3. \A k \in 1 .. Len(s) : B[k] \in all
  <2> SUFFICES ASSUME NEW k \in 1 .. Len(s) PROVE B[k] \in all
    OBVIOUS
  <2>1. CASE s[k] \in given
    <3>1. PICK x \in RangesOf(a) : x[2] = s[k]
      BY <2>1
    <3>2. x = <<a, s[k], fw[s[k]].min, fw[s[k]].max>>
      BY <1>0, <1>2, <3>1
    <3>3. B[k] = x
      BY <2>1, <3>2
    <3> QED
      BY <3>2, <3>3
  <2>2. CASE s[k] \notin given
    <3>1. s[k] \in FirmwareOf(i) \ given /\ B[k] = <<a, s[k], 0, 0>>
      BY <1>0, <2>2
    <3> QED
      BY <3>1
  <2> QED
    BY <2>1, <2>2
<1>4. \A y \in all : \E k \in 1 .. Len(s) : B[k] = y
  <2>1. ASSUME NEW y \in RangesOf(a)
        PROVE  \E k \in 1 .. Len(s) : B[k] = y
    <3>1. y[2] \in given /\ y[2] \in {s[k] : k \in 1 .. Len(s)}
      BY <1>0, <1>2, <2>1
    <3>2. PICK k \in 1 .. Len(s) : s[k] = y[2]
      BY <3>1
    <3>3. B[k] = <<a, y[2], fw[y[2]].min, fw[y[2]].max>>
      BY <3>1, <3>2
    <3> QED
      BY <1>2, <2>1, <3>3
  <2>2. ASSUME NEW f \in FirmwareOf(i) \ given
        PROVE  \E k \in 1 .. Len(s) : B[k] = <<a, f, 0, 0>>
    <3>1. PICK k \in 1 .. Len(s) : s[k] = f
      BY <1>0
    <3>2. B[k] = <<a, f, 0, 0>>
      BY <2>2, <3>1
    <3> QED
      BY <3>2
  <2> HIDE DEF B
  <2> QED
    BY <2>1, <2>2
<1>5. \A j, k \in 1 .. Len(s) : B[j] = B[k] => j = k
  <2>1. \A k \in 1 .. Len(s) : B[k][2] = s[k]
    OBVIOUS
  <2> HIDE DEF B
  <2> QED
    BY <1>1, <2>1
<1>6. ExistsBijection(1 .. Len(s), all)
  <2>1. B = [k \in 1 .. Len(s) |-> B[k]]
    OBVIOUS
  <2> HIDE DEF B, all
  <2>2. B \in [1 .. Len(s) -> all]
    BY <1>3, <2>1
  <2>3. B \in Bijection(1 .. Len(s), all)
    <3> DEFINE d == 1 .. Len(s)
    <3>1. B \in [d -> all] /\ (\A y \in all : \E k \in d : B[k] = y) /\ (\A j, k \in d : B[j] = B[k] => j = k)
      BY <1>4, <1>5, <2>2
    <3> HIDE DEF d
    <3>2. B \in Surjection(d, all)
      BY <3>1 DEF Surjection
    <3>3. B \in Injection(d, all)
      BY <3>1 DEF Injection, IsInjective
    <3> QED
      BY <3>2, <3>3 DEF Bijection, d
  <2> QED
    BY <2>3 DEF ExistsBijection
<1> HIDE DEF all
<1>7. Cardinality(all) = Len(s)
  BY <1>1, <1>6, FS_CountingElements
<1> QED
  BY <1>7 DEF all, a, s

(* Validation is exact, whatever order the user entered the ranges in:     *)
(* where it succeeded, a peaking time inside a range finds the firmware of *)
(* that range, the same as its number does, and all are counted, in a set  *)
(* that was not mixed with another; and it refuses as overlapping only     *)
(* what does overlap.                                                      *)
THEOREM ValidationsExact == FwSpec => []ValidationExact
<1>1. FwInv => ValidationExact
  <2> SUFFICES ASSUME FwInv PROVE ValidationExact
    OBVIOUS
  <2>1. ASSUME fwStatus = "validated", NEW i \in Checked, fwSets[i].alias \notin mixed
        PROVE  FoundExactly(i, fwSets[i].alias)
    <3> DEFINE a == fwSets[i].alias
               s == ListOf(fwSets, fw, i)
    <3>1. /\ i \in DOMAIN fwSets /\ i \in Nat /\ i \in 1 .. i /\ Passed(fwSets, fw, i)
      <4>1. i \in DOMAIN fwSets /\ \A j \in 1 .. i : ~fwSets[j].filename
        BY DEF Checked
      <4>2. i \in Nat /\ i \in 1 .. i
        BY <4>1, Places DEF FwInv
      <4> QED
        BY <2>1, <4>1, <4>2 DEF FwInv, StatusTold
    <3>2. /\ FindFirmware(a) = i /\ i # 0 /\ ~fwSets[i].filename /\ ListFrom(fw, fwSets[i].firmware) = s
          /\ NoOverlap(fw, s)
      BY <3>1, Found DEF FwInv, Passed, ListOf
    <3>3. /\ IsList(fw, s, fwSets[i].firmware) /\ FirmwareOf(i) = {s[k] : k \in 1 .. Len(s)}
          /\ Members(fwSets, fw, i) = {s[k] : k \in 1 .. Len(s)}
          /\ Members(fwSets, fw, i) \subseteq 1 .. Len(fw)
      BY <3>1, Places DEF FwInv
    <3>4. /\ Len(s) \in Nat /\ DOMAIN s = 1 .. Len(s)
          /\ \A k \in 1 .. Len(s) : /\ s[k] \in 1 .. Len(fw) /\ s[k] # 0
                                    /\ fw[s[k]].min \in Nat /\ fw[s[k]].max \in Nat
      <4>1. /\ Len(fw) \in Nat /\ \A f \in 1 .. Len(fw) : f # 0 /\ fw[f].min \in Nat /\ fw[f].max \in Nat
        BY DEF FwInv, FwTypes, Heaps, Structures
      <4>2. \A k \in 1 .. Len(s) : s[k] \in 1 .. Len(fw)
        BY <3>3
      <4>3. Len(s) \in Nat /\ DOMAIN s = 1 .. Len(s)
        <5> HIDE DEF s
        <5> QED
          BY <3>3, LenProperties DEF IsList
      <4> QED
        BY <4>1, <4>2, <4>3
    <3>5. GetNumPTRRs(a) = <<"ok", Len(s)>>
      BY <3>2 DEF GetNumPTRRs
    <3>6. Cardinality(RangesOf(a) \cup
                        {<<a, f, 0, 0>> : f \in FirmwareOf(i) \ {x[2] : x \in RangesOf(a)}}) = Len(s)
      BY <2>1, <3>1, RangesCounted
    <3>7. ASSUME NEW x \in ranges, NEW t \in PeakingTimes, NEW name \in {"dsp", "fippi"},
                 x[1] = a, x[3] < t, t < x[4]
          PROVE  IF Has(x[2], name)
                 THEN /\ GetValueFromFirmware(a, t, name) = <<"ok", x[2]>>
                      /\ GetFirmwareItem(a, fw[x[2]].ptrr, name) = <<"ok", x[2]>>
                 ELSE GetValueFromFirmware(a, t, name) = <<"bad value">>
      <4>0. x[1] \notin mixed
        BY <2>1, <3>7
      <4>1. PICK j \in DOMAIN fwSets : /\ fwSets[j].alias = x[1] /\ x[2] \in Members(fwSets, fw, j)
                                      /\ x = <<x[1], x[2], fw[x[2]].min, fw[x[2]].max>>
        BY <4>0 DEF FwInv, RangesHeld, RangeHeld
      <4>2. j = i
        BY <3>1, <3>7, <4>1 DEF FwInv, FwTypes
      <4>3. x = <<x[1], x[2], fw[x[2]].min, fw[x[2]].max>>
        BY <4>1
      <4> DEFINE f == x[2]
                 fits == {k \in DOMAIN s : fw[s[k]].min <= t /\ t <= fw[s[k]].max}
                 numbered == {k \in DOMAIN s : fw[s[k]].ptrr = fw[x[2]].ptrr}
      <4>4. fw[f].min < t /\ t < fw[f].max /\ t \in Nat
        <5>1. x[3] = fw[f].min /\ x[4] = fw[f].max
          BY <4>3
        <5> QED
          BY <3>7, <5>1, FirmwareAssumption
      <4>5. f \in Members(fwSets, fw, i)
        BY <4>1, <4>2
      <4> HIDE DEF s, a, f
      <4>6. PICK k \in 1 .. Len(s) : f = s[k]
        BY <3>3, <4>5
      <4>7. FirstWith(s, fits) = f
        <5>1. k \in fits
          BY <3>4, <4>4, <4>6
        <5>2. ASSUME NEW o \in fits PROVE k <= o
          <6>1. SUFFICES ASSUME o < k PROVE FALSE
            BY <3>4
          <6>2. fw[s[o]].max <= fw[s[k]].min
            BY <3>2, <3>4, <6>1 DEF NoOverlap
          <6>3. t <= fw[s[o]].max /\ fw[s[k]].min < t /\ fw[s[o]].max \in Nat /\ fw[s[k]].min \in Nat
            BY <3>4, <4>4, <4>6
          <6> QED
            BY <4>4, <6>2, <6>3
        <5>3. fits \subseteq 1 .. Len(s)
          BY <3>4
        <5> HIDE DEF fits
        <5> QED
          BY <3>4, <4>6, <5>1, <5>2, <5>3, FirstThatFits
      <4>8. FirstWith(s, numbered) = f
        <5>1. k \in numbered
          BY <3>4, <4>6 DEF f
        <5>2. \A o \in numbered : o = k
          <6> SUFFICES ASSUME NEW o \in numbered PROVE o = k
            OBVIOUS
          <6>1. o \in 1 .. Len(s) /\ fw[s[o]].ptrr = fw[s[k]].ptrr
            BY <3>4, <4>6 DEF f
          <6>2. s[o] = s[k]
            <7>1. \A g, h \in Members(fwSets, fw, i) : fw[g].ptrr = fw[h].ptrr => g = h
              BY <2>1, <3>1 DEF FwInv, NumbersDiffer
            <7> QED
              BY <3>3, <6>1, <7>1
          <6> QED
            BY <3>3, <6>1, <6>2 DEF IsList
        <5>3. numbered \subseteq 1 .. Len(s) /\ k <= k
          BY <3>4
        <5> HIDE DEF numbered
        <5> QED
          BY <3>4, <4>6, <5>1, <5>2, <5>3, FirstThatFits
      <4>9. f # 0 /\ s # << >>
        BY <3>4, <4>6
      <4>10. GetValueFromFirmware(a, t, name) = IF Has(f, name) THEN <<"ok", f>> ELSE <<"bad value">>
        BY <3>2, <4>7, <4>9 DEF GetValueFromFirmware
      <4>11. Has(f, name) => GetFirmwareItem(a, fw[f].ptrr, name) = <<"ok", f>>
        BY <3>2, <4>8, <4>9 DEF GetFirmwareItem, f
      <4> QED
        BY <4>10, <4>11 DEF f
    <3>8. \A x \in RangesOf(a) : x \in ranges /\ x[1] = a
      BY DEF RangesOf
    <3> HIDE DEF a
    <3> QED
      BY <3>5, <3>6, <3>7, <3>8 DEF FoundExactly, a
  <2>2. ASSUME fwStatus = "overlap"
        PROVE  \E i \in DOMAIN fwSets : \E f, g \in FirmwareOf(i) : Overlap(f, g) \/ fw[f].min > fw[f].max
    <3>1. Overlapping(fwSets, fw)
      BY <2>2 DEF FwInv, StatusTold
    <3>2. \A i \in DOMAIN fwSets : FirmwareOf(i) = Members(fwSets, fw, i)
      BY Places DEF FwInv
    <3> QED
      BY <3>1, <3>2 DEF Overlapping, Overlap
  <2> QED
    BY <2>1, <2>2 DEF ValidationExact
<1> QED
  BY <1>1, FwInductive, PTL

=============================================================================
