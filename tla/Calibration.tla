---------------------------- MODULE Calibration ----------------------------
(***************************************************************************)
(* Characterization and DC offset of one channel, and the two locks they   *)
(* are done under.  The receiver thread holds the module lock from the     *)
(* moment it has read a message until it is through with it, and most      *)
(* messages need the detector lock as well.  The user holds the detector   *)
(* lock in sections of its own, and needs the module lock to take the      *)
(* answer of a transaction.                                                *)
(*                                                                         *)
(* A call of the user is a path through pc; the transaction in it is the   *)
(* pair of steps "await" (the event) and "take" (the module lock), after   *)
(* which the call goes on at the label after.                              *)
(***************************************************************************)
EXTENDS Integers, Sequences

CONSTANTS
  MaxCalls,    \* bound: calls of the user
  MaxFaults,   \* bound: requests refused, answered late or never
  MaxProgress  \* bound: characterization progress messages

ASSUME CalibrationAssumption == {MaxCalls, MaxFaults, MaxProgress} \subseteq Nat

VARIABLES
  call, pc, after, want, ok, answer,  \* the user: its call and the transaction in it
  depth,                       \* the user's holds of the (recursive) detector lock
  rx,                          \* the message the receiver is at, with the module lock held
  wire,                        \* messages the receiver has not read
  slot, sendStatus, sendEvent, \* fModule->response.type, sendStatus, sendEvent
  channelState, calibrationState,
  calibData,                   \* fDetector->calibData.data is not NULL
  dcOffset,                    \* "value" or DC_OFFSET_REQUESTED
  asyncReady, asyncEvent,
  device,                      \* what the channel does
  calibrated,                  \* pulse.calibrated
  pending,                     \* requests the device has not answered
  asserts,                     \* history: assertions and NULL pointers met
  disturbed,                   \* history: a request was refused or timed out
  fromFile,                    \* history: calibrationState is what the ini file says
  calls, faults, progress      \* history: counts for the bounds

user     == <<call, pc, after, want, ok, answer, depth>>
response == <<slot, sendStatus, sendEvent>>
detector == <<channelState, calibrationState, calibData, dcOffset, asyncReady, asyncEvent>>
box      == <<device, calibrated, pending>>
history  == <<disturbed, fromFile, calls, faults, progress>>
vars     == <<user, rx, wire, response, detector, box, asserts, history>>

NoMessage == [type |-> "none"]
State(s)  == [type |-> "state", state |-> s]

CalInit ==
  /\ call = "none" /\ pc = "idle" /\ after = "none" /\ want = "none" /\ ok = TRUE
  /\ answer = NoMessage
  /\ depth = 0 /\ rx = NoMessage /\ wire = << >>
  /\ slot = NoMessage /\ sendStatus = TRUE /\ sendEvent = FALSE
  /\ channelState = "ready" /\ calibrationState = "NeedRefresh" /\ calibData = FALSE
  /\ dcOffset = "value" /\ asyncReady = FALSE /\ asyncEvent = FALSE
  /\ device = "ready" /\ calibrated \in BOOLEAN /\ pending = << >>
  /\ asserts = {} /\ disturbed = FALSE /\ fromFile = FALSE /\ calls = 0 /\ faults = 0 /\ progress = 0

---------------------------------------------------------------------------
(* A transaction of the user.                                              *)

Ask(request, type, next) ==
  /\ pending' = Append(pending, request)
  /\ want' = type /\ after' = next /\ pc' = "await"

GoOn(result) == pc' = after /\ ok' = result /\ UNCHANGED <<call, after, want, depth>>

Awake ==
  /\ pc = "await" /\ sendEvent
  /\ sendEvent' = FALSE /\ pc' = "take"
  /\ UNCHANGED <<call, after, want, ok, answer, depth, rx, wire, slot, sendStatus, detector, box,
                 asserts, history>>

(* The user takes what is in the slot when it gets the module lock; what   *)
(* is of another type is freed and the wait begins again.                  *)
Take ==
  /\ pc = "take" /\ rx = NoMessage
  /\ IF ~sendStatus
     THEN GoOn(FALSE) /\ UNCHANGED <<answer, slot>>
     ELSE /\ slot' = NoMessage
          /\ IF slot.type = want
             THEN GoOn(TRUE) /\ answer' = slot
             ELSE pc' = "await" /\ UNCHANGED <<call, after, want, ok, answer, depth>>
  /\ UNCHANGED <<rx, wire, sendStatus, sendEvent, detector, box, asserts, history>>

NeedsDetector(m) == m.type \in {"state", "progress", "calibration", "dcResult"}
ReceiverBlocked  == NeedsDetector(rx) /\ depth > 0

InFlight ==
  {wire[i].type : i \in DOMAIN wire} \cup (IF pc = "take" \/ rx = NoMessage THEN {} ELSE {rx.type})

(* Two seconds are enough for a device that answers and a receiver that is *)
(* not held up by the user itself.                                         *)
TimeOut ==
  /\ pc = "await" /\ ~sendEvent
  /\ \/ pending = << >> /\ InFlight \cap {want, "error"} = {} /\ UNCHANGED faults
     \/ ReceiverBlocked /\ UNCHANGED faults
     \/ pending # << >> /\ faults < MaxFaults /\ faults' = faults + 1
  /\ GoOn(FALSE) /\ disturbed' = TRUE
  /\ UNCHANGED <<answer, rx, wire, response, detector, box, asserts, fromFile, calls, progress>>

---------------------------------------------------------------------------
(* The user's calls.                                                       *)

Begin(c) ==
  /\ call = "none" /\ calls < MaxCalls
  /\ calls' = calls + 1 /\ call' = c
  /\ UNCHANGED <<rx, wire, response, disturbed, faults, progress>>
Return == call' = "none" /\ pc' = "idle" /\ UNCHANGED <<after, want, ok, answer>>

(* Calculate the DC offset: the request is marked in dcOffset before it is *)
(* sent, and the channel state set by hand when it has been accepted,      *)
(* unless the result came first.                                           *)
RequestMark == "requested"
Fault_LockKept == 1
LockInRequest == 0

CalculateDCOffset ==
  /\ Begin("calc") /\ channelState # "dcOffset"
  /\ dcOffset' = RequestMark /\ depth' = LockInRequest
  /\ Ask("calc", "success", "calculated")
  /\ UNCHANGED <<ok, answer, channelState, calibrationState, calibData, asyncReady, asyncEvent,
                 device, calibrated, asserts, fromFile>>

Fault_CalculatedAlways(s, offset) == "dcOffset"
CalculatedState(s, offset) == IF offset = "requested" THEN "dcOffset" ELSE s

DCOffsetAccepted ==
  /\ pc = "calculated"
  /\ Return
  /\ depth' = 0
  /\ channelState' = IF ok THEN CalculatedState(channelState, dcOffset) ELSE channelState
  /\ UNCHANGED <<rx, wire, response, calibrationState, calibData, dcOffset, asyncReady,
                 asyncEvent, box, asserts, history>>

(* Read the DC offset, or wait for it to be calculated.                    *)
Primed == TRUE

GetDCOffset ==
  /\ Begin("dcGet")
  /\ IF channelState = "dcOffset"
     THEN asyncReady' = Primed /\ pc' = "dcWait"
     ELSE pc' = "dcRead" /\ UNCHANGED asyncReady
  /\ UNCHANGED <<after, want, ok, answer, depth, channelState, calibrationState, calibData, dcOffset,
                 asyncEvent, box, asserts, fromFile>>

DCOffsetWaited ==
  /\ pc = "dcWait" /\ asyncEvent
  /\ asyncEvent' = FALSE /\ pc' = "dcRead"
  /\ UNCHANGED <<call, after, want, ok, answer, depth, rx, wire, response, channelState,
                 calibrationState, calibData, dcOffset, asyncReady, box, asserts, history>>

ReadyComing ==
  \/ device # "ready" \/ pending # << >> \/ rx = State("ready")
  \/ \E i \in DOMAIN wire : wire[i] = State("ready")

DCOffsetTimeOut ==
  /\ pc = "dcWait" /\ ~asyncEvent /\ ~ReadyComing
  /\ Return
  /\ UNCHANGED <<depth, rx, wire, response, detector, box, asserts, history>>

DCOffsetRead ==
  /\ pc = "dcRead"
  /\ Return
  /\ asserts' = IF dcOffset = "requested" THEN asserts \cup {"dcRead"} ELSE asserts
  /\ UNCHANGED <<depth, rx, wire, response, detector, box, history>>

(* Start and stop a characterization.  The state is set by hand, before    *)
(* the device reports it.                                                  *)
DetCharacterizeStart ==
  /\ Begin("detStart")
  /\ Ask("set", "success", "configured")
  /\ UNCHANGED <<ok, answer, depth, detector, device, calibrated, asserts, fromFile>>

DetCharacterizeConfigured ==
  /\ pc = "configured"
  /\ IF ok
     THEN Ask("characterize", "success", "characterizing") /\ UNCHANGED <<call, ok, answer>>
     ELSE Return /\ UNCHANGED pending
  /\ UNCHANGED <<depth, rx, wire, response, detector, device, calibrated, asserts, history>>

DetCharacterizeStarted ==
  /\ pc = "characterizing"
  /\ Return
  /\ IF ok
     THEN channelState' = "calibrate" /\ calibrationState' = "NeedRefresh" /\ calibData' = FALSE
     ELSE UNCHANGED <<channelState, calibrationState, calibData>>
  /\ UNCHANGED <<depth, rx, wire, response, dcOffset, asyncReady, asyncEvent, box, asserts, history>>

DetCharacterizeStop ==
  /\ Begin("detStop")
  /\ Ask("stop", "success", "done")
  /\ UNCHANGED <<ok, answer, depth, detector, device, calibrated, asserts, fromFile>>

Done ==
  /\ pc = "done"
  /\ Return
  /\ UNCHANGED <<depth, rx, wire, response, detector, box, asserts, history>>

(* The calibration is refreshed by who asks for it first after a           *)
(* characterization: the start of a run and the saving of a file without   *)
(* a lock, detc-successful with the detector lock.                         *)
GetCalibrated(c) ==
  /\ Begin(c)
  /\ IF calibrationState = "NeedRefresh"
     THEN /\ calibrationState' = "None" /\ fromFile' = FALSE
          /\ depth' = IF c = "detSuccessful" THEN 2 ELSE 1
          /\ Ask("getParam", "param", "refreshed")
     ELSE pc' = "calibrated" /\ UNCHANGED <<after, want, depth, calibrationState, pending, fromFile>>
  /\ UNCHANGED <<ok, answer, channelState, calibData, dcOffset, asyncReady, asyncEvent, device,
                 calibrated, asserts>>

RefreshedBy(cal) == IF cal THEN "Ready" ELSE "None"

(* pulse.calibrated has been read: the lock taken for it is given back     *)
(* before the data is asked for.                                           *)
Refreshed ==
  /\ pc = "refreshed"
  /\ depth' = depth - 1
  /\ calibrationState' = IF ok THEN RefreshedBy(answer.calibrated) ELSE calibrationState
  /\ IF calibrationState' = "Ready"
     THEN Ask("getCalibration", "calibration", "calibrated")
     ELSE pc' = "calibrated" /\ UNCHANGED <<after, want, pending>>
  /\ UNCHANGED <<call, ok, answer, rx, wire, response, channelState, calibData, dcOffset, asyncReady,
                 asyncEvent, device, calibrated, asserts, history>>

Calibrated ==
  /\ pc = "calibrated"
  /\ Return
  /\ depth' = 0
  /\ asserts' = IF call = "save" /\ calibrationState = "Ready" /\ ~calibData
                THEN asserts \cup {"save"} ELSE asserts
  /\ UNCHANGED <<rx, wire, response, detector, box, history>>

(* The set-up of a channel, before any other call: the characterization of *)
(* the ini file is sent to the device, whose answer is not looked at.      *)
LoadChanData(inFile) ==
  /\ Begin("load") /\ calls = 0
  /\ calibrationState' = IF inFile THEN "NeedRefresh" ELSE "None"
  /\ fromFile' = TRUE
  /\ calibData' = IF inFile THEN TRUE ELSE calibData
  /\ IF inFile THEN Ask("setCalibration", "success", "loaded")
               ELSE pc' = "done" /\ UNCHANGED <<after, want, pending>>
  /\ UNCHANGED <<ok, answer, depth, channelState, dcOffset, asyncReady, asyncEvent, device, calibrated,
                 asserts>>

Loaded ==
  /\ pc = "loaded"
  /\ Return
  /\ calibrationState' = "Ready"
  /\ UNCHANGED <<depth, rx, wire, response, channelState, calibData, dcOffset, asyncReady,
                 asyncEvent, box, asserts, history>>

---------------------------------------------------------------------------
(* The device answers its requests in order.  It refuses what does not fit *)
(* what it does, or anything at all.                                       *)

Answer(m) == wire' = Append(wire, m) /\ pending' = Tail(pending)
Answers   == wire' = wire \o <<[type |-> "success"]>> /\ pending' = Tail(pending)
Becomes(s) ==
  /\ device' = s /\ pending' = Tail(pending)
  /\ wire' = wire \o <<[type |-> "success"]>> \o
             (IF s = "dcOffset" THEN << >> ELSE <<State(s)>>)

DeviceAnswers ==
  /\ pending # << >>
  /\ LET r == Head(pending)
     IN  \/ r = "set" /\ Answers /\ UNCHANGED <<device, calibrated>>
         \/ r = "calc" /\ device = "ready" /\ Becomes("dcOffset") /\ UNCHANGED calibrated
         \/ r = "characterize" /\ device = "ready" /\ Becomes("calibrate") /\ calibrated' = FALSE
         \/ r = "stop" /\ device = "calibrate" /\ Becomes("ready") /\ calibrated' \in BOOLEAN
         \/ r = "stop" /\ device # "calibrate" /\ Answers /\ UNCHANGED <<device, calibrated>>
         \/ /\ r = "getParam" /\ Answer([type |-> "param", calibrated |-> calibrated])
            /\ UNCHANGED <<device, calibrated>>
         \/ /\ r = "getCalibration" /\ calibrated /\ Answer([type |-> "calibration"])
            /\ UNCHANGED <<device, calibrated>>
         \/ /\ r = "setCalibration" /\ device = "ready" /\ Answers
            /\ calibrated' = TRUE /\ UNCHANGED device
  /\ UNCHANGED <<user, rx, response, detector, asserts, history>>

DeviceRefuses ==
  /\ pending # << >> /\ faults < MaxFaults
  /\ Answer([type |-> "error"])
  /\ faults' = faults + 1 /\ disturbed' = TRUE
  /\ UNCHANGED <<user, rx, response, detector, device, calibrated, asserts, fromFile, calls,
                 progress>>

(* A request that cannot be done is refused without a fault of the device. *)
DeviceBusy ==
  /\ pending # << >>
  /\ \/ Head(pending) \in {"calc", "characterize", "setCalibration"} /\ device # "ready"
     \/ Head(pending) = "getCalibration" /\ ~calibrated
  /\ Answer([type |-> "error"])
  /\ disturbed' = TRUE
  /\ UNCHANGED <<user, rx, response, detector, device, calibrated, asserts, fromFile, calls, faults,
                 progress>>

(* The DC offset is sent before the channel is ready again.  A             *)
(* characterization takes longer than a user takes to leave the call that  *)
(* started it.                                                             *)
DeviceFinishes ==
  /\ \/ /\ device = "dcOffset" /\ UNCHANGED calibrated
        /\ wire' = wire \o <<[type |-> "dcResult"], State("ready")>>
     \/ /\ device = "calibrate" /\ call # "detStart" /\ calibrated' \in BOOLEAN
        /\ wire' = Append(wire, State("ready"))
  /\ device' = "ready"
  /\ UNCHANGED <<user, rx, response, detector, pending, asserts, history>>

DeviceReports ==
  /\ device = "calibrate" /\ progress < MaxProgress
  /\ progress' = progress + 1
  /\ wire' = Append(wire, [type |-> "progress"])
  /\ UNCHANGED <<user, rx, response, detector, box, asserts, disturbed, fromFile, calls, faults>>

---------------------------------------------------------------------------
(* The receiver thread.                                                    *)

Read ==
  /\ rx = NoMessage /\ wire # << >>
  /\ rx' = Head(wire) /\ wire' = Tail(wire)
  /\ UNCHANGED <<user, response, detector, box, asserts, history>>

Handles(type) == rx.type = type /\ rx' = NoMessage /\ ~ReceiverBlocked

(* Put in the slot whatever is there, and whether or not anyone waits.     *)
Respond == slot' = rx /\ sendStatus' = TRUE /\ sendEvent' = TRUE

HandleAnswer ==
  /\ \/ Handles("success") \/ Handles("param")
     \/ Handles("calibration")
  /\ Respond
  /\ calibData' = (calibData \/ rx.type = "calibration")
  /\ UNCHANGED <<user, wire, channelState, calibrationState, dcOffset, asyncReady, asyncEvent,
                 box, asserts, history>>

HandleError ==
  /\ Handles("error")
  /\ sendStatus' = FALSE /\ sendEvent' = TRUE
  /\ UNCHANGED <<user, wire, slot, detector, box, asserts, history>>

HandleDCOffset ==
  /\ Handles("dcResult")
  /\ dcOffset' = "value"
  /\ asserts' = IF dcOffset # "requested" THEN asserts \cup {"dcResult"} ELSE asserts
  /\ Respond
  /\ UNCHANGED <<user, wire, channelState, calibrationState, calibData, asyncReady, asyncEvent,
                 box, history>>

HandleProgress ==
  /\ Handles("progress")
  /\ UNCHANGED <<user, wire, response, detector, box, asserts, history>>

(* The calibration is out of date when a characterization has ended.       *)
Fault_NotAfter(from, to) == calibrationState
CalibrationAfter(from, to) ==
  IF to = "ready" /\ from = "calibrate" THEN "NeedRefresh" ELSE calibrationState

HandleState ==
  /\ Handles("state")
  /\ channelState' = rx.state
  /\ calibrationState' = CalibrationAfter(channelState, rx.state)
  /\ asyncEvent' = (asyncEvent \/ (rx.state = "ready" /\ asyncReady))
  /\ asyncReady' = (asyncReady /\ rx.state # "ready")
  /\ UNCHANGED <<user, wire, response, calibData, dcOffset, box, asserts, history>>

---------------------------------------------------------------------------
UserBegins ==
  \/ CalculateDCOffset \/ GetDCOffset \/ DetCharacterizeStart \/ DetCharacterizeStop
  \/ \E c \in {"detSuccessful", "startRun", "save"} : GetCalibrated(c)
  \/ \E inFile \in BOOLEAN : LoadChanData(inFile)

UserGoesOn ==
  \/ Awake \/ Take \/ TimeOut
  \/ DCOffsetAccepted \/ DCOffsetWaited \/ DCOffsetTimeOut \/ DCOffsetRead
  \/ DetCharacterizeConfigured \/ DetCharacterizeStarted \/ Done
  \/ Refreshed \/ Calibrated \/ Loaded

DeviceStep   == DeviceAnswers \/ DeviceRefuses \/ DeviceBusy \/ DeviceFinishes \/ DeviceReports
ReceiverStep ==
  \/ Read \/ HandleAnswer \/ HandleError \/ HandleDCOffset \/ HandleProgress \/ HandleState

CalNext == UserBegins \/ UserGoesOn \/ DeviceStep \/ ReceiverStep
CalSpec == CalInit /\ [][CalNext]_vars

(* Every thread and the device run; the user need not call again.          *)
CalFairSpec ==
  CalSpec /\ WF_vars(UserGoesOn) /\ WF_vars(DeviceAnswers \/ DeviceBusy \/ DeviceFinishes)
          /\ WF_vars(ReceiverStep)

---------------------------------------------------------------------------
(* Properties.                                                             *)

(* The receiver holds the module lock and waits for the detector lock; the *)
(* user holds the detector lock and waits for the module lock.             *)
LockCycle == ReceiverBlocked /\ pc = "take"

(* What the code is meant to do: the threads never wait for each other     *)
(* forever.  They can, while a calibration is refreshed.                   *)
NoLockCycle == ~LockCycle

(* The threads wait for each other in a calibration refresh only, and all  *)
(* other calls return (psl__UpdateCalibration alone holds the detector     *)
(* lock in a transaction).                                                 *)
OtherCallsReturn ==
  call \in {"calc", "dcGet", "detStart", "detStop", "load"} ~> call = "none"

(* Between calls the user holds no lock, and a user that waits for the DC  *)
(* offset is woken: it has its event, or it is primed and the ready state  *)
(* is still to come (psl__CalculateDCOffset sets the state by hand, in two *)
(* stages around the result).  The stages are met in order, whatever the   *)
(* order of the accepted request, its result and the ready state: no       *)
(* assertion fails.  All of it unless a request was refused or timed out:  *)
(* the answer that then comes for no one is taken for a later one.         *)
DCOffsetWaitEnds ==
  /\ call = "none" => depth = 0
  /\ pc = "dcWait" /\ ~disturbed => asyncEvent \/ (asyncReady /\ ReadyComing)
  /\ ~disturbed => asserts = {}

(* The calibration state of a ready channel is the one of the device, and  *)
(* the data of a calibrated one has been received, unless a request was    *)
(* refused or timed out, and unless the state is the one of a file that    *)
(* has none (psl__UpdateCalibration asks for the state and the data one    *)
(* after the other; what it reads while the channel characterizes is old   *)
(* when that ends, and the detector lock it holds keeps the ready state    *)
(* from being handled before it has written what it has read).             *)
CalibrationCurrent ==
  call = "none" /\ channelState = "ready" /\ ~disturbed =>
    /\ calibrationState = "Ready" => calibrated /\ calibData
    /\ calibrationState = "None" /\ ~fromFile => ~calibrated
===========================================================================
