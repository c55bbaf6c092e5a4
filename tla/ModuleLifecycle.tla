-------------------------- MODULE ModuleLifecycle --------------------------
(***************************************************************************)
(* The life of a module: xiaStartSystem connects to it, starts its         *)
(* receiver thread and sets up its channels one after the other;           *)
(* xiaEndSystem and xiaExit end the channels, stop the thread and free     *)
(* what they were given.  The thread reads the module's structures all the *)
(* while, under the module lock when it is in a message and under none     *)
(* when it waits for one.                                                  *)
(*                                                                         *)
(* Each successful connection is a generation: it has its own              *)
(* FalconXNModule, its own thread and its own wire, and the thread of one  *)
(* may outlive the structures.                                             *)
(***************************************************************************)
EXTENDS Integers, Sequences

CONSTANTS
  Channels,    \* the channels of the module, each with one detector channel
  MaxSetups,   \* bound: connections
  MaxTroubles, \* bound: requests refused or unanswered, connections refused or lost, waits for
               \* the thread that run out
  MaxData      \* bound: data and updates the device sends of itself

ASSUME LifecycleAssumption ==
  /\ Channels # {} /\ Channels \subseteq Nat
  /\ {MaxSetups, MaxTroubles, MaxData} \subseteq Nat

Gens == 1..MaxSetups

VARIABLES
  systemState,           \* Handel's state of the system
  starts,                \* its count of starts
  module,                \* the Module: listed, psl, pslData (0 is NULL) and ch not freed
  heap,                  \* the FalconXNModules not freed
  active, running,       \* receiverActive, receiverRunning of each
  sendReady,             \* the current one's send event exists
  chan,                  \* module->ch[].pslData is not NULL
  holds,                 \* the detectors that hold memory of a run: a control with two buffers
  leaked,                \* history: what was freed without what it held: "run", "stream"
  channelActive,         \* the current one's channelActive
  slot, sendStatus, sendEvent,
  rx,                    \* the threads: where each is, its message, the detector it found
  cancelled,             \* threads that were destroyed
  link, wire,            \* the connections and what the device sent on them
  pending, monitored,    \* the device: requests not answered, channels it reports the state of
  runs,                  \* the device: channels that acquire data
  call, pc, after, want, todo,  \* the user
  touched,               \* history: what a thread used after it was freed
  astray,                \* history: an update found no detector
  setups, faults, slow, losses, data  \* history: counts for the bounds

user     == <<call, pc, after, want, todo>>
response == <<slot, sendStatus, sendEvent>>
thread   == <<rx, cancelled>>
device   == <<pending, monitored, runs>>
history  == <<setups, faults, slow, losses, data>>
runMemory == <<holds, leaked>>
memory   == <<module, heap, chan, runMemory>>
flags    == <<active, running, sendReady, channelActive>>
seen     == <<touched, astray>>
vars     == <<systemState, starts, memory, flags, response, thread, link, wire, device, user,
              seen, history>>

NoMessage == [type |-> "none"]
NoThread  == [pc |-> "none", msg |-> NoMessage, found |-> FALSE]
NewModule == [listed |-> TRUE, psl |-> TRUE, pslData |-> 0, ch |-> TRUE]

LifeInit ==
  /\ systemState = "DEAD" /\ starts = 0
  /\ module = NewModule /\ heap = {} /\ chan = [c \in Channels |-> FALSE]
  /\ holds = {} /\ leaked = {}
  /\ active = [g \in Gens |-> FALSE] /\ running = [g \in Gens |-> FALSE]
  /\ sendReady = FALSE /\ channelActive = {}
  /\ slot = NoMessage /\ sendStatus = TRUE /\ sendEvent = FALSE
  /\ rx = [g \in Gens |-> NoThread] /\ cancelled = {}
  /\ link = [g \in Gens |-> "none"] /\ wire = [g \in Gens |-> << >>]
  /\ pending = << >> /\ monitored = {} /\ runs \in SUBSET Channels
  /\ call = "none" /\ pc = "idle" /\ after = "none" /\ want = "none" /\ todo = {}
  /\ touched = {} /\ astray = FALSE
  /\ setups = 0 /\ faults = 0 /\ slow = 0 /\ losses = 0 /\ data = 0

current     == module.pslData
First(s)    == CHOOSE c \in s : \A d \in s : c <= d
Fault_HoldsLock(place) == place \in {"handling", "ended"}
HoldsLock(place) == place = "handling"
LockFree    == current = 0 \/ ~HoldsLock(rx[current].pc)
Connected   == current # 0 /\ link[current] = "open"

Trouble     == faults + slow + losses < MaxTroubles

Return(state) ==
  /\ call' = "none" /\ pc' = "idle" /\ systemState' = state /\ UNCHANGED <<after, want, todo>>

---------------------------------------------------------------------------
(* A transaction: a request, and the wait for the response of its type.    *)
(* SincTransaction has the two locks of it apart.                          *)

Fails ==
  [refreshed |-> "refreshedFails", stopped |-> "stoppedFails", features |-> "featuresFails",
   monitored |-> "monitoredFails", unmonitored |-> "unmonitoredFails"]

Ask(request, type, next) ==
  /\ pending' = IF Connected THEN Append(pending, request) ELSE pending
  /\ want' = type /\ after' = next /\ pc' = "await"

Answered ==
  /\ pc = "await" /\ sendEvent /\ LockFree
  /\ sendEvent' = FALSE
  /\ IF sendStatus /\ slot.type # want
     THEN slot' = NoMessage /\ UNCHANGED pc
     ELSE pc' = (IF sendStatus THEN after ELSE Fails[after]) /\ UNCHANGED slot
  /\ UNCHANGED <<systemState, starts, memory, flags, sendStatus, thread, link, wire, device, call,
                 after, want, todo, seen, history>>

(* The receiver is still to come to what the user waits for.               *)
Coming ==
  /\ current # 0 /\ rx[current].pc # "ended" /\ link[current] = "open"
  /\ \/ rx[current].msg.type \in {want, "error"}
     \/ \E i \in DOMAIN wire[current] : wire[current][i].type \in {want, "error"}

(* The request cannot be sent, or no response wakes the user in time.      *)
TimeOut ==
  /\ pc = "await"
  /\ \/ ~Connected /\ UNCHANGED faults
     \/ ~sendEvent /\ ~Coming /\ (pending = << >> \/ rx[current].pc = "ended") /\ UNCHANGED faults
     \/ ~sendEvent /\ pending # << >> /\ Trouble /\ faults' = faults + 1
  /\ pc' = Fails[after]
  /\ UNCHANGED <<systemState, starts, memory, flags, response, thread, link, wire, device, call,
                 after, want, todo, seen, setups, slow, losses, data>>

---------------------------------------------------------------------------
(* xiaStartSystem.                                                         *)

StartSystem(valid) ==
  /\ call = "none" /\ setups < MaxSetups /\ starts < MaxSetups + 1
  /\ starts' = starts + 1
  /\ IF valid /\ module.listed
     THEN /\ \/ module.psl /\ module.pslData = 0 /\ call' = "start" /\ pc' = "connect"
             \/ ~(module.psl /\ module.pslData = 0) /\ call' = "aborted" /\ pc' = "aborted"
          /\ systemState' = "STARTING" /\ UNCHANGED <<after, want, todo>>
     ELSE Return("DEAD")
  /\ UNCHANGED <<memory, flags, response, thread, link, wire, device, seen, history>>

SetupModuleFails == module' = [module EXCEPT !.psl = FALSE, !.pslData = 0] /\ Return("DEAD")

(* Connect, ping and set the time; the answer to the last may come late    *)
(* and go to the receiver thread.                                          *)
Connect(late) ==
  /\ pc = "connect"
  /\ LET g == setups + 1 IN
     /\ setups' = g /\ heap' = heap \cup {g}
     /\ module' = [module EXCEPT !.pslData = g]
     /\ active' = [active EXCEPT ![g] = TRUE]
     /\ rx' = [rx EXCEPT ![g].pc = "created"]
     /\ link' = [link EXCEPT ![g] = "open"]
     /\ IF late THEN Trouble /\ faults' = faults + 1 ELSE UNCHANGED faults
     /\ wire' = [wire EXCEPT ![g] = IF late THEN <<[type |-> "success"]>> ELSE << >>]
  /\ pending' = << >> /\ monitored' = {} /\ UNCHANGED runs
  /\ sendReady' = FALSE /\ channelActive' = {}
  /\ slot' = NoMessage /\ sendStatus' = TRUE /\ sendEvent' = FALSE
  /\ pc' = "receiver"
  /\ UNCHANGED <<systemState, starts, chan, runMemory, running, cancelled, call, after, want, todo, seen,
                 slow, losses, data>>

(* Without SincCleanup, from SincInit on.                                  *)
ConnectFails ==
  /\ pc = "connect" /\ Trouble
  /\ faults' = faults + 1
  /\ leaked' \in {leaked, leaked \cup {"stream"}}
  /\ SetupModuleFails
  /\ UNCHANGED <<starts, heap, chan, holds, flags, response, thread, link, wire, device, seen,
                 setups, slow, losses, data>>

(* The send event is created when the thread is already running.           *)
ReceiverRuns ==
  /\ pc = "receiver" /\ running[current]
  /\ sendReady' = TRUE /\ todo' = Channels /\ pc' = "setup"
  /\ UNCHANGED <<systemState, starts, memory, active, running, channelActive, response, thread, link,
                 wire, device, call, after, want, seen, history>>

Fault_FreeModule == cancelled' = cancelled \cup {current} /\ heap' = heap \ {current} /\ UNCHANGED link
FreeModule ==
  /\ heap' = heap \ {current}
  /\ cancelled' = cancelled \cup {current}
  /\ link' = [link EXCEPT ![current] = "closed"]

ReceiverNotRunning ==
  /\ pc = "receiver" /\ ~running[current]
  /\ \/ rx[current].pc = "ended" /\ UNCHANGED slow
     \/ Trouble /\ slow' = slow + 1
  /\ FreeModule /\ SetupModuleFails
  /\ leaked' = leaked \cup {"stream"}
  /\ UNCHANGED <<starts, chan, holds, flags, response, rx, wire, device, seen, setups, faults, losses,
                 data>>

SetupDetChan ==
  /\ pc = "setup" /\ todo # {}
  /\ LET c == First(todo) IN
     /\ chan' = [chan EXCEPT ![c] = TRUE]
     /\ channelActive' = channelActive \cup {c}
     /\ Ask([req |-> "state", channel |-> c], "state", "refreshed")
  /\ UNCHANGED <<systemState, starts, module, heap, runMemory, active, running, sendReady, response,
                 thread, link, wire, monitored, runs, call, todo, seen, history>>

(* A channel that still acquires data is stopped.                          *)
Refreshed ==
  /\ \/ /\ pc = "refreshed" /\ ~slot.ready
        /\ Ask([req |-> "stop", channel |-> First(todo)], "success", "stopped")
     \/ /\ (pc = "refreshed" /\ slot.ready) \/ pc = "stopped"
        /\ Ask([req |-> "details", channel |-> First(todo)], "details", "features")
     \/ /\ pc = "features"
        /\ Ask([req |-> "monitor", channels |-> channelActive], "success", "monitored")
  /\ slot' = NoMessage
  /\ UNCHANGED <<systemState, starts, memory, flags, sendStatus, sendEvent, thread, link, wire,
                 monitored, runs, call, todo, seen, history>>

SetupDetChanDone ==
  /\ pc = "monitored"
  /\ todo' = todo \ {First(todo)} /\ pc' = "setup" /\ slot' = NoMessage
  /\ UNCHANGED <<systemState, starts, memory, flags, sendStatus, sendEvent, thread, link, wire, device,
                 call, after, want, seen, history>>

(* The detector is freed, and nothing it holds.                            *)
DetectorFreed(c) ==
  /\ chan' = [chan EXCEPT ![c] = FALSE]
  /\ holds' = holds \ {c}
  /\ leaked' = leaked \cup (IF c \in holds THEN {"run"} ELSE {})

(* The detector is freed without a look at the receiver; the channel stays *)
(* active and the module as it is.                                         *)
SetupDetChanFails ==
  /\ pc \in {"refreshedFails", "stoppedFails", "featuresFails", "monitoredFails"}
  /\ DetectorFreed(First(todo))
  /\ Return("DEAD")
  /\ UNCHANGED <<starts, module, heap, flags, response, thread, link, wire, device, seen, history>>

SystemStarted ==
  /\ pc = "setup" /\ todo = {}
  /\ Return("RUNNING")
  /\ UNCHANGED <<starts, memory, flags, response, thread, link, wire, device, seen, history>>

(* A run of one channel, which goes on or is over by the next call; its    *)
(* control stays, for another start closes it.  ModuleRun has the starts   *)
(* and stops.                                                              *)
RunStarts(c) ==
  /\ call = "none" /\ systemState = "RUNNING" /\ Connected /\ chan[c] /\ c \notin runs
  /\ runs' \in {runs, runs \cup {c}}
  /\ holds' = holds \cup {c}
  /\ UNCHANGED <<systemState, starts, module, heap, chan, leaked, flags, response, thread, link,
                 wire, pending, monitored, user, seen, history>>

---------------------------------------------------------------------------
(* xiaExit removes the module, xiaInit reads it in again; xiaEndSystem     *)
(* ends it and leaves it in the list.                                      *)

Exit ==
  /\ call = "none" /\ module.listed
  /\ call' = "exit" /\ pc' = "endChannels"
  /\ todo' = IF module.psl THEN {c \in Channels : chan[c]} ELSE {}
  /\ UNCHANGED <<systemState, starts, memory, flags, response, thread, link, wire, device, after, want,
                 seen, history>>

EndSystem ==
  /\ call = "none" /\ starts > 0
  /\ systemState' = "ENDING"
  /\ call' = "end" /\ pc' = "endDetectors"
  /\ UNCHANGED <<starts, memory, flags, response, thread, link, wire, device, after, want, todo, seen,
                 history>>

(* xiaEndDetectors begins every scan of the list at the channel it ended   *)
(* last, and scans again until it has ended none: with a channel in the    *)
(* list that can be ended it does not return.                              *)
EndDetectors ==
  /\ pc = "endDetectors"
  /\ LET c == First(Channels) IN
     \/ /\ module.listed /\ module.psl /\ module.pslData # 0 /\ chan[c]
        /\ todo' = {c} /\ pc' = "endChannels"
        /\ UNCHANGED <<systemState, module, call, after, want>>
     \/ /\ ~module.listed \/ (module.psl /\ module.pslData = 0)
        /\ module' = [module EXCEPT !.psl = FALSE]
        /\ Return("DEAD")
  /\ UNCHANGED <<starts, heap, chan, runMemory, flags, response, thread, link, wire, device, seen,
                 history>>

FreeDetector(c) == DetectorFreed(c) /\ todo' = todo \ {c}

(* The device is told to leave the channel alone before it is freed.       *)
Fault_MonitoredAfter(c) == channelActive
MonitoredAfter(c) == channelActive \ {c}

EndDetChan ==
  /\ pc = "endChannels" /\ todo # {} /\ LockFree
  /\ LET c == First(todo) IN
     /\ channelActive' = MonitoredAfter(c)
     /\ IF running[current]
        THEN /\ Ask([req |-> "monitor", channels |-> channelActive'], "success", "unmonitored")
             /\ UNCHANGED <<chan, runMemory, todo>>
        ELSE FreeDetector(c) /\ UNCHANGED <<pc, after, want, pending>>
  /\ UNCHANGED <<systemState, starts, module, heap, active, running, sendReady, response, thread, link,
                 wire, monitored, runs, call, seen, history>>

Fault_FreeWhen == TRUE
FreeWhen == LockFree

EndDetChanFrees ==
  /\ pc \in {"unmonitored", "unmonitoredFails"} /\ FreeWhen
  /\ FreeDetector(First(todo))
  /\ slot' = IF pc = "unmonitored" THEN NoMessage ELSE slot
  /\ pc' = "endChannels"
  /\ UNCHANGED <<systemState, starts, module, heap, flags, sendStatus, sendEvent, thread, link, wire,
                 device, call, after, want, seen, history>>

EndDetectorsAgain ==
  /\ pc = "endChannels" /\ todo = {} /\ call = "end"
  /\ pc' = "endDetectors"
  /\ UNCHANGED <<systemState, starts, memory, flags, response, thread, link, wire, device, call, after,
                 want, todo, seen, history>>

(* The channels are freed before the receiver is stopped.                  *)
FreeChannels ==
  /\ pc = "endChannels" /\ todo = {} /\ call = "exit"
  /\ IF module.psl /\ module.pslData # 0
     THEN pc' = "endModule" /\ module' = [module EXCEPT !.ch = FALSE]
                            /\ UNCHANGED <<systemState, call, after, want, todo>>
     ELSE Return(systemState) /\ module' = [module EXCEPT !.ch = FALSE, !.listed = FALSE]
  /\ UNCHANGED <<starts, heap, chan, runMemory, flags, response, thread, link, wire, device, seen,
                 history>>

ReceiverStop ==
  /\ pc = "endModule" /\ LockFree
  /\ active' = [active EXCEPT ![current] = FALSE]
  /\ pc' = "stopping"
  /\ UNCHANGED <<systemState, starts, memory, running, sendReady, channelActive, response, thread, link,
                 wire, device, call, after, want, todo, seen, history>>

Fault_ReceiverStopped == TRUE
ReceiverStopped == ~running[current]

EndModule ==
  /\ pc = "stopping"
  /\ \/ ReceiverStopped /\ UNCHANGED slow
     \/ running[current] /\ Trouble /\ slow' = slow + 1
  /\ FreeModule
  /\ module' = [module EXCEPT !.psl = FALSE, !.pslData = 0, !.listed = FALSE]
  /\ Return(systemState)
  /\ UNCHANGED <<starts, chan, runMemory, flags, response, rx, wire, device, seen, setups, faults,
                 losses, data>>

InitAgain ==
  /\ call = "none" /\ ~module.listed
  /\ module' = NewModule /\ chan' = [c \in Channels |-> FALSE]
  /\ UNCHANGED <<systemState, starts, heap, runMemory, flags, response, thread, link, wire, device,
                 user, seen, history>>

---------------------------------------------------------------------------
(* The receiver thread of generation g.  It goes by the Module it was      *)
(* given: the structures of the generation, and the channels.              *)

ThreadEnds(g) ==
  /\ rx' = [rx EXCEPT ![g] = [NoThread EXCEPT !.pc = "ended"]]
  /\ running' = [running EXCEPT ![g] = FALSE]
ThreadGoesOn(g) ==
  IF active[g] THEN rx' = [rx EXCEPT ![g] = [NoThread EXCEPT !.pc = "reading"]] /\ UNCHANGED running
               ELSE ThreadEnds(g)

(* What a thread does that uses its module after it was freed is undefined *)
(* and not followed.                                                       *)
RxUsesFreedModule(g) ==
  /\ g \notin heap /\ rx[g].pc \in {"created", "reading", "handling"}
  /\ touched' = touched \cup {"module"}
  /\ rx' = [rx EXCEPT ![g] = [NoThread EXCEPT !.pc = "ended"]]
  /\ UNCHANGED <<systemState, starts, memory, flags, response, cancelled, link, wire, device, user,
                 astray, history>>

RxStart(g) ==
  /\ rx[g].pc = "created" /\ g \in heap
  /\ rx' = [rx EXCEPT ![g].pc = "reading"] /\ running' = [running EXCEPT ![g] = TRUE]
  /\ UNCHANGED <<systemState, starts, memory, active, sendReady, channelActive, response, cancelled,
                 link, wire, device, user, seen, history>>

(* A message is read without the lock, and its detector found with it.     *)
RxRead(g) ==
  /\ rx[g].pc = "reading" /\ g \in heap /\ wire[g] # << >>
  /\ LET m == Head(wire[g])
         lookup == m.type \in {"update", "data"}
     IN  /\ rx' = [rx EXCEPT ![g] = [pc |-> "handling", msg |-> m, found |-> lookup /\ chan[m.channel]]]
         /\ touched' = touched \cup (IF lookup /\ ~module.ch THEN {"channels"} ELSE {})
  /\ wire' = [wire EXCEPT ![g] = Tail(@)]
  /\ UNCHANGED <<systemState, starts, memory, flags, response, cancelled, link, device, user, astray,
                 history>>

Post(status) == sendStatus' = status /\ sendEvent' = (sendEvent \/ sendReady)

RxHandle(g) ==
  /\ rx[g].pc = "handling" /\ g \in heap
  /\ LET m == rx[g].msg
         freed == rx[g].found /\ ~chan[m.channel]
     IN  /\ touched' = touched \cup (IF freed THEN {"detector"} ELSE {})
         /\ \/ m.type \in {"state", "success", "details"} /\ slot' = m /\ Post(TRUE)
            \/ m.type = "error" /\ Post(FALSE) /\ UNCHANGED slot
            \/ m.type = "update" /\ ~rx[g].found /\ Post(FALSE) /\ UNCHANGED slot
            \/ m.type = "update" /\ rx[g].found /\ UNCHANGED response
            \/ m.type = "data" /\ UNCHANGED response
         /\ astray' = (astray \/ (m.type = "update" /\ ~rx[g].found))
  /\ ThreadGoesOn(g)
  /\ UNCHANGED <<systemState, starts, memory, active, sendReady, channelActive, cancelled, link, wire,
                 device, user, history>>

(* A read that times out, and one that fails.                              *)
RxIdle(g) ==
  /\ rx[g].pc = "reading" /\ g \in heap
  /\ (wire[g] = << >> /\ ~active[g]) \/ link[g] # "open"
  /\ ThreadEnds(g)
  /\ UNCHANGED <<systemState, starts, memory, active, sendReady, channelActive, response, cancelled,
                 link, wire, device, user, seen, history>>

RxCancelled(g) ==
  /\ g \in cancelled /\ rx[g].pc \in {"created", "reading"}
  /\ rx' = [rx EXCEPT ![g] = [NoThread EXCEPT !.pc = "ended"]]
  /\ UNCHANGED <<systemState, starts, memory, flags, response, cancelled, link, wire, device, user,
                 seen, history>>

---------------------------------------------------------------------------
(* The device.                                                             *)

Sends(m) == wire' = [wire EXCEPT ![current] = Append(@, m)]

DeviceAnswers ==
  /\ Connected /\ pending # << >>
  /\ LET r == Head(pending) IN
     \/ /\ r.req = "state" /\ Sends([type |-> "state", ready |-> r.channel \notin runs])
        /\ UNCHANGED <<monitored, runs>>
     \/ r.req = "details" /\ Sends([type |-> "details"]) /\ UNCHANGED <<monitored, runs>>
     \/ r.req = "stop" /\ Sends([type |-> "success"]) /\ runs' = runs \ {r.channel} /\ UNCHANGED monitored
     \/ r.req = "monitor" /\ Sends([type |-> "success"]) /\ monitored' = r.channels /\ UNCHANGED runs
  /\ pending' = Tail(pending)
  /\ UNCHANGED <<systemState, starts, memory, flags, response, thread, link, user, seen, history>>

DeviceRefuses ==
  /\ Connected /\ pending # << >> /\ Trouble
  /\ faults' = faults + 1
  /\ Sends([type |-> "error"]) /\ pending' = Tail(pending)
  /\ UNCHANGED <<systemState, starts, memory, flags, response, thread, link, monitored, runs, user,
                 seen, setups, slow, losses, data>>

DeviceSends(c) ==
  /\ Connected /\ data < MaxData
  /\ \/ c \in runs /\ Sends([type |-> "data", channel |-> c])
     \/ c \in monitored /\ Sends([type |-> "update", channel |-> c])
  /\ data' = data + 1
  /\ UNCHANGED <<systemState, starts, memory, flags, response, thread, link, device, user, seen, setups,
                 faults, slow, losses>>

ConnectionLost ==
  /\ Connected /\ Trouble
  /\ losses' = losses + 1
  /\ link' = [link EXCEPT ![current] = "lost"] /\ pending' = << >>
  /\ UNCHANGED <<systemState, starts, memory, flags, response, thread, wire, monitored, runs, user,
                 seen, setups, faults, slow, data>>

---------------------------------------------------------------------------
UserCalls ==
  \/ \E valid \in BOOLEAN : StartSystem(valid)
  \/ Exit \/ EndSystem \/ InitAgain
  \/ \E c \in Channels : RunStarts(c)

UserGoesOn ==
  \/ Answered \/ TimeOut
  \/ \E late \in BOOLEAN : Connect(late)
  \/ ConnectFails \/ ReceiverRuns \/ ReceiverNotRunning
  \/ SetupDetChan \/ Refreshed \/ SetupDetChanDone \/ SetupDetChanFails \/ SystemStarted
  \/ EndDetectors \/ EndDetChan \/ EndDetChanFrees \/ EndDetectorsAgain
  \/ FreeChannels \/ ReceiverStop \/ EndModule

Receiver(g) ==
  RxStart(g) \/ RxRead(g) \/ RxHandle(g) \/ RxIdle(g) \/ RxCancelled(g) \/ RxUsesFreedModule(g)

Device == DeviceAnswers \/ DeviceRefuses \/ (\E c \in Channels : DeviceSends(c)) \/ ConnectionLost

LifeNext == UserCalls \/ UserGoesOn \/ (\E g \in Gens : Receiver(g)) \/ Device

(* Threads run, and the device answers; the user need not call.            *)
LifeSpec ==
  /\ LifeInit /\ [][LifeNext]_vars
  /\ WF_vars(UserGoesOn) /\ WF_vars(DeviceAnswers)
  /\ \A g \in Gens : WF_vars(Receiver(g))

---------------------------------------------------------------------------
(* Properties.                                                             *)

(* The thread never uses the structures of its module after they were      *)
(* freed, as long as no wait for it ran out (psl__ModuleReceiverStop gives *)
(* up after two seconds and psl__EndModule frees whatever it says).        *)
ThreadEndsBeforeModule == slow = 0 => "module" \notin touched

(* Nor a detector: xiaExit frees one with the module lock held, between    *)
(* the thread's messages.  psl__SetupDetChan does not, when a request      *)
(* failed.                                                                 *)
DetectorOutlivesMessage == faults + losses = 0 => "detector" \notin touched

(* A channel that is not acquiring data when it is ended hears nothing of  *)
(* the device afterwards: no update finds its detector gone, which would   *)
(* fail the request of another channel (psl__ReceiveParamUpdated).         *)
UpdateFindsDetector == faults + losses + slow = 0 => ~astray

(* A module that is not in the list any more has left no structure of its  *)
(* own, no detector, no connection and no thread that is not on its way    *)
(* out.  What runs hung on the detectors and the buffer of the stream are  *)
(* another matter: RunMemoryFreed, StreamFreed.                            *)
NothingLeftBehind ==
  ~module.listed => /\ heap = {}
                    /\ \A c \in Channels : ~chan[c]
                    /\ \A g \in Gens : link[g] # "open" /\ (rx[g].pc \in {"none", "ended"} \/ g \in cancelled)

(* xiaStartSystem and xiaExit return, whatever the device answers or loses *)
(* and wherever the thread is.                                             *)
CallsReturn == call \in {"start", "exit"} ~> call = "none"

(* What the code is meant to do: xiaEndSystem returns.                     *)
EndSystemReturns == call = "end" ~> call = "none"

(* What the code is meant to do: the assertions of psl__SetupModule and    *)
(* xiaSetupModules hold.                                                   *)
NoAssertFails == call # "aborted"

(* What the code is meant to do: the thread never uses the channels after  *)
(* xiaRemoveModule has freed them.                                         *)
ChannelsOutliveThread == "channels" \notin touched

(* What the code is meant to do, and tests/memory_leak_test.c tries: what  *)
(* runs put on a module is freed by the time it has left the list.         *)
(* psl__EndDetChan frees the detector with the control, the buffers and    *)
(* the trace it holds; only the next start closes a control.               *)
RunMemoryFreed == ~module.listed => "run" \notin leaked

(* What the code is meant to do: so is the buffer of the stream, which a   *)
(* set-up that fails after SincInit leaves.                                *)
StreamFreed == ~module.listed => "stream" \notin leaked
===========================================================================
