--------------------------- MODULE ChannelState ----------------------------
(***************************************************************************)
(* How the user's thread learns of the state of one detector channel: it   *)
(* sends a command, primes the detector (asyncReady) and waits for its     *)
(* event; the receiver thread records every channel.state report and       *)
(* signals the event when it finds the detector primed.  The detector lock *)
(* is released between the steps of a call, so a report may come between   *)
(* any two of them.                                                        *)
(***************************************************************************)
EXTENDS Integers, Sequences

CONSTANTS
  Calls,        \* the calls the user may make, a subset of AllCalls
  Punctual,     \* does a report come before the wait for it times out?
  MaxCalls,     \* bound: calls made
  MaxFinished   \* bound: runs the device ends, or breaks off, by itself

AllCalls == {"histo", "listMode", "stop", "osc"}

ASSUME ChannelAssumption ==
  /\ Calls \subseteq AllCalls
  /\ Punctual \in BOOLEAN
  /\ MaxCalls \in Nat /\ MaxFinished \in Nat

VARIABLES
  device,         \* the state the channel is in
  reports,        \* channel.state reports and traces on their way
  channelState,   \* the last state the receiver heard of
  asyncReady,     \* the user wants to be signalled
  asyncEvent,     \* the event is set
  trace,          \* an ADC trace has been received and not been read
  pc, call,       \* the call in progress and where it is
  result,         \* how the last call ended
  leftover,       \* history: the event was set when the last call began
  readyHeard,     \* history: ready was the state heard since then
  calls, finished \* history: calls made, runs ended by the device

deviceVars == <<device, reports, finished>>
heardVars  == <<channelState, asyncReady, asyncEvent, trace, readyHeard>>
userVars   == <<pc, call, result, leftover, calls>>
chanVars   == <<deviceVars, heardVars, userVars>>

States == {"ready", "histo", "listMode", "osc", "error"}

ChanInit ==
  /\ device = "ready" /\ reports = << >> /\ finished = 0
  /\ channelState = "ready" /\ asyncReady = FALSE /\ asyncEvent = FALSE
  /\ trace = FALSE
  /\ pc = "idle" /\ call = "none" /\ result = "none"
  /\ leftover = FALSE /\ readyHeard = TRUE /\ calls = 0

---------------------------------------------------------------------------
(* The device, over one ordered connection.                                *)

(* What a command makes of the channel: a ready channel starts what it is  *)
(* told to, a stop makes it ready, a channel in error obeys no command.    *)
(* Every change of state is reported.                                      *)
Obeys(command) ==
  \/ /\ command = "stop" /\ device \notin {"ready", "error"}
     /\ device' = "ready" /\ reports' = Append(reports, "ready")
  \/ /\ command = "osc" /\ device = "ready"
     /\ device' = "ready" /\ reports' = reports \o <<"osc", "trace", "ready">>
  \/ /\ command \in {"histo", "listMode"} /\ device = "ready"
     /\ device' = command /\ reports' = Append(reports, command)
  \/ /\ IF command = "stop" THEN device \in {"ready", "error"} ELSE device # "ready"
     /\ UNCHANGED <<device, reports>>

(* A preset run is over, or the channel fails.                             *)
DeviceFinishes(state) ==
  /\ finished < MaxFinished /\ device \notin {"ready", "error"}
  /\ device' = state /\ reports' = Append(reports, state)
  /\ finished' = finished + 1
  /\ UNCHANGED <<heardVars, userVars>>

---------------------------------------------------------------------------
(* The receiver thread.                                                    *)

IsState(report) == report # "trace"

(* The states psl__UpdateChannelState signals; psl__DetectorAsyncSignal    *)
(* unprimes the detector as it does.                                       *)
Fault_SignalsStarts == {"histo", "listMode"}
Fault_SignalsAll    == States
Signals == {"ready", "histo", "listMode"}

Signalled(report)   == asyncReady /\ report \in Signals

Fault_StaysPrimedNever(report) == FALSE
StaysPrimed(report) == asyncReady /\ report \notin Signals

ReceiveState ==
  /\ reports # << >> /\ IsState(Head(reports))
  /\ reports' = Tail(reports)
  /\ channelState' = Head(reports)
  /\ readyHeard' = (readyHeard \/ Head(reports) = "ready")
  /\ asyncReady' = StaysPrimed(Head(reports))
  /\ asyncEvent' = (asyncEvent \/ Signalled(Head(reports)))
  /\ UNCHANGED <<device, finished, trace, userVars>>

(* psl__ReceiveOscilloscopeData signals nobody.                            *)
ReceiveTrace ==
  /\ reports # << >> /\ Head(reports) = "trace"
  /\ reports' = Tail(reports)
  /\ trace' = TRUE
  /\ UNCHANGED <<device, finished, channelState, asyncReady, asyncEvent, readyHeard, userVars>>

---------------------------------------------------------------------------
(* The user's thread.                                                      *)

Return(status) == pc' = "idle" /\ result' = status

(* The command is sent at once, unless a start finds the channel already   *)
(* started or not ready; both are successes.                               *)
Begin(c) ==
  /\ pc = "idle" /\ calls < MaxCalls
  /\ call' = c /\ calls' = calls + 1 /\ leftover' = asyncEvent
  /\ readyHeard' = (channelState = "ready")
  /\ IF c \in {"histo", "listMode"} /\ channelState # "ready"
     THEN Return("not sent")
     ELSE pc' = "send" /\ result' = "none"
  /\ UNCHANGED <<deviceVars, channelState, asyncReady, asyncEvent, trace>>

(* The transaction with the device; it may fail before or after the device *)
(* has acted.                                                              *)
Command ==
  /\ pc = "send"
  /\ \/ Obeys(call) /\ (pc' = "lock" /\ UNCHANGED result)
     \/ Obeys(call) /\ Return("failed")
     \/ UNCHANGED <<device, reports>> /\ Return("failed")
  /\ UNCHANGED <<finished, heardVars, call, leftover, calls>>

Target == IF call \in {"histo", "listMode"} THEN call ELSE "ready"

(* Under the lock: prime unless the state is already the one waited for.   *)
(* A stop decides by this look at the state, a start looks again below; a  *)
(* trace is waited for whatever the state.                                 *)
Prime ==
  /\ pc = "lock"
  /\ IF call # "osc" /\ channelState = Target
     THEN /\ UNCHANGED asyncReady
          /\ IF call = "stop" THEN Return("ok") ELSE pc' = "look" /\ UNCHANGED result
     ELSE /\ asyncReady' = TRUE
          /\ pc' = IF call \in {"stop", "osc"} THEN "wait" ELSE "look"
          /\ UNCHANGED result
  /\ UNCHANGED <<deviceVars, channelState, asyncEvent, trace, readyHeard, call, leftover, calls>>

(* The start reads channelState without the lock.                          *)
LookAgain ==
  /\ pc = "look"
  /\ IF channelState = Target THEN Return("ok") ELSE pc' = "wait" /\ UNCHANGED result
  /\ UNCHANGED <<deviceVars, heardVars, call, leftover, calls>>

(* psl__DetectorWait                                                       *)
Wake ==
  /\ pc = "wait" /\ asyncEvent
  /\ asyncEvent' = FALSE
  /\ IF call = "osc" THEN pc' = "copy" /\ UNCHANGED result ELSE Return("ok")
  /\ UNCHANGED <<deviceVars, channelState, asyncReady, trace, readyHeard, call,
                 leftover, calls>>

(* The trace is copied out and freed, if there is one.                     *)
CopyTrace ==
  /\ pc = "copy"
  /\ trace' = FALSE
  /\ Return(IF trace THEN "ok" ELSE "empty")
  /\ UNCHANGED <<deviceVars, channelState, asyncReady, asyncEvent, readyHeard, call,
                 leftover, calls>>

(* The wait clears the event even when it has timed out.                   *)
Fault_NoTimeOut == FALSE
TimeOut ==
  /\ pc = "wait"
  /\ Punctual => ~asyncEvent /\ reports = << >>
  /\ asyncEvent' = FALSE
  /\ Return("timeout")
  /\ UNCHANGED <<deviceVars, channelState, asyncReady, trace, readyHeard, call,
                 leftover, calls>>

---------------------------------------------------------------------------
ReceiverStep == ReceiveState \/ ReceiveTrace
UserStep == Command \/ Prime \/ LookAgain \/ Wake \/ CopyTrace \/ TimeOut

ChanNext ==
  \/ ReceiverStep
  \/ UserStep
  \/ \E state \in {"ready", "error"} : DeviceFinishes(state)
  \/ \E c \in Calls : Begin(c)

(* The two threads run; waits have a timeout.                              *)
ChanSpec ==
  ChanInit /\ [][ChanNext]_chanVars /\ WF_chanVars(ReceiverStep) /\ WF_chanVars(UserStep)

---------------------------------------------------------------------------
(* Properties.                                                             *)

(* No wakeup is lost: a user that waits for the end of a stop or a trace   *)
(* has its event, or will be signalled by the next report.                 *)
NoLostWakeup == pc = "wait" /\ call \in {"stop", "osc"} => asyncEvent \/ asyncReady

Returns(c, status) == call = c /\ pc # "idle" /\ pc' = "idle" /\ result' = status

(* A punctual stop ends without a timeout, however the reports fall        *)
(* between its steps and whatever went wrong before, unless the channel    *)
(* has failed.                                                             *)
StopTimesOutOnFailure ==
  [][Punctual /\ Returns("stop", "timeout") => device = "error"]_chanVars

(* A stop that found no event left over succeeds only if the channel was   *)
(* ready, or reported it, since the stop began.                            *)
CleanStopIsReady ==
  [][Returns("stop", "ok") /\ ~leftover => readyHeard]_chanVars

(* Every call returns.                                                     *)
CallReturns == (pc # "idle") ~> (pc = "idle")

(* psl__StopAcquisition, "Wait for the ready state": a stop that returns   *)
(* success has heard that the channel is ready.                            *)
StopWaitsForReady ==
  [][Returns("stop", "ok") => readyHeard]_chanVars

(* psl__GetADCTrace, "Wait for the ready state": the trace call does not   *)
(* time out when the channel has reported ready and the trace is there.    *)
TraceWaitsForReady ==
  [][Returns("osc", "timeout") => ~(channelState = "ready" /\ trace)]_chanVars
===========================================================================
