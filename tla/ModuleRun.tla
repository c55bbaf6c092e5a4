----------------------------- MODULE ModuleRun ------------------------------
(***************************************************************************)
(* Runs of modules with several channels: xiaStartRun and xiaStopRun on a  *)
(* channel or on a set of channels, each of which starts or stops its      *)
(* whole module, channel after channel; module->state->runActive decides   *)
(* what they skip.  Any step of a channel may fail, and between two steps  *)
(* a channel may end its run or break down.  A channel has the state it    *)
(* reports: how the driver learns of it is the subject of ChannelState.    *)
(***************************************************************************)
EXTENDS Integers, Sequences

CONSTANTS
  Modules,
  NumChannels,   \* enabled channels of each module
  AllChannels,   \* detChan -1: every channel, in the order of the set
  Calibrated,    \* the channels that have been characterized
  MaxCalls,      \* bound: calls
  MaxFailures    \* bound: failing steps and channels

Channel == Modules \X (0 .. NumChannels - 1)

ASSUME RunAssumption ==
  /\ NumChannels \in Nat \ {0}
  /\ AllChannels \in Seq(Channel)
  /\ Calibrated \subseteq Channel
  /\ MaxCalls \in Nat /\ MaxFailures \in Nat

VARIABLES
  state,         \* each channel's state
  mappingMode,   \* its acquisition value mapping_mode
  mmc,           \* the mapping mode its control is open in
  runActive,     \* module->state->runActive, the same for all its channels
  pc, op,        \* the call in progress and where it is
  todo,          \* the elements of the detChan set left
  mode, next,    \* the mode and the channel the loops are at
  status,        \* the first error of the loop
  result,        \* what the last call returned
  asked,         \* history: the modules of the call in progress
  lostStop,      \* history: channels that run on since a stop failed
  calls, failures

deviceVars == <<state, mappingMode, mmc, runActive>>
callVars   == <<pc, op, todo, mode, next, status, result, asked, calls>>
runVars    == <<deviceVars, callVars, lostStop, failures>>

Modes == {"MCA", "MCA_FSM", "SCA", "LIST"}

RunInit ==
  /\ state = [c \in Channel |-> "ready"]
  /\ mappingMode = [c \in Channel |-> "MCA"]
  /\ mmc = [c \in Channel |-> "NIL"]
  /\ runActive = [m \in Modules |-> FALSE]
  /\ pc = "idle" /\ op = "stop" /\ todo = << >>
  /\ mode = "MCA" /\ next = 0 /\ status = "ok"
  /\ result = "none" /\ asked = {}
  /\ lostStop = {} /\ calls = 0 /\ failures = 0

Running(c) == state[c] \in {"histo", "listMode"}

RunOf(md) == IF md = "LIST" THEN "listMode" ELSE "histo"

---------------------------------------------------------------------------
(* The user, between calls.                                                *)

Call(o, detChans) ==
  /\ pc = "idle" /\ calls < MaxCalls
  /\ pc' = "element" /\ op' = o /\ todo' = detChans
  /\ asked' = {detChans[i][1] : i \in DOMAIN detChans}
  /\ result' = "none" /\ calls' = calls + 1
  /\ UNCHANGED <<deviceVars, mode, next, status, lostStop, failures>>

(* The value is accepted whether a run is active or not.                   *)
SetMappingMode(c, md) ==
  /\ pc = "idle" /\ calls < MaxCalls
  /\ mappingMode' = [mappingMode EXCEPT ![c] = md]
  /\ calls' = calls + 1
  /\ UNCHANGED <<state, mmc, runActive, pc, op, todo, mode, next, status, result,
                 asked, lostStop, failures>>

---------------------------------------------------------------------------
(* xiaStartRun and xiaStopRun over the elements of the set.                *)

Return(r) == pc' = "idle" /\ result' = r

AllDone ==
  /\ pc = "element" /\ todo = << >>
  /\ Return("ok")
  /\ UNCHANGED <<deviceVars, op, todo, mode, next, status, asked, calls, lostStop, failures>>

(* The channel is part of a module whose run was already started, or       *)
(* stopped.                                                                *)
Fault_NothingToDo(m) == FALSE
NothingToDo(m) == runActive[m] = (op = "start")

Skip ==
  /\ pc = "element" /\ todo # << >>
  /\ NothingToDo(Head(todo)[1])
  /\ todo' = Tail(todo)
  /\ UNCHANGED <<deviceVars, pc, op, mode, next, status, result, asked, calls,
                 lostStop, failures>>

(* psl__StartRun, psl__StopRun: the mode of this channel is that of the    *)
(* whole module.                                                           *)
Enter ==
  /\ pc = "element" /\ todo # << >>
  /\ ~NothingToDo(Head(todo)[1])
  /\ mode' = mappingMode[Head(todo)]
  /\ next' = 0 /\ status' = "ok"
  /\ IF mode' = "SCA" THEN Return("error")
     ELSE pc' = (IF op = "start" THEN "configure" ELSE "stop") /\ UNCHANGED result
  /\ UNCHANGED <<deviceVars, op, todo, asked, calls, lostStop, failures>>

Current == <<Head(todo)[1], next>>
IsLast  == next = NumChannels - 1
After   == IF IsLast THEN 0 ELSE next + 1

Failure == failures < MaxFailures /\ failures' = failures + 1

(* What a start does when a channel fails: stop all channels, and return   *)
(* the error whatever comes of it.                                         *)
Fault_StopAll == Return("error") /\ UNCHANGED <<next, status>>
StopAll == pc' = "stop" /\ next' = 0 /\ status' = "error" /\ UNCHANGED result

(* First loop: settings, then the last control is closed and a new one     *)
(* opened.                                                                 *)
Fault_OpenMode(c) == mappingMode[c]
OpenMode(c) == mode

Configure ==
  /\ pc = "configure"
  /\ mmc' = [mmc EXCEPT ![Current] = OpenMode(Current)]
  /\ next' = After
  /\ pc' = IF IsLast THEN "start" ELSE "configure"
  /\ UNCHANGED <<state, mappingMode, runActive, op, todo, mode, status, result, asked,
                 calls, lostStop, failures>>

(* A setting is refused; for some of them mode 1 returns at once.          *)
ConfigureFails ==
  /\ pc = "configure" /\ Failure
  /\ \/ StopAll
     \/ mode = "MCA_FSM" /\ Return("error") /\ UNCHANGED <<next, status>>
  /\ UNCHANGED <<deviceVars, op, todo, mode, asked, calls, lostStop>>

(* Second loop: a channel that is not calibrated, or not ready, is passed  *)
(* over.                                                                   *)
PassedOver(c) == c \notin Calibrated \/ state[c] # "ready"

StartChannel ==
  /\ pc = "start"
  /\ state' = [state EXCEPT ![Current] = IF PassedOver(Current) THEN @ ELSE RunOf(mode)]
  /\ next' = After
  /\ IF IsLast
     THEN /\ runActive' = [runActive EXCEPT ![Head(todo)[1]] = TRUE]
          /\ todo' = Tail(todo) /\ pc' = "element"
     ELSE UNCHANGED <<runActive, todo, pc>>
  /\ UNCHANGED <<mappingMode, mmc, op, mode, status, result, asked, calls, lostStop, failures>>

(* The command fails, before or after the channel has acted on it.         *)
StartChannelFails ==
  /\ pc = "start" /\ Failure
  /\ ~PassedOver(Current)
  /\ \E acted \in BOOLEAN :
       state' = [state EXCEPT ![Current] = IF acted THEN RunOf(mode) ELSE @]
  /\ StopAll
  /\ UNCHANGED <<mappingMode, mmc, runActive, op, todo, mode, asked, calls, lostStop>>

(* psl__Stop_MappingMode_0, _1, _3: every channel is tried, the first error*)
(* kept; mode 1 counts it as one that a control is open in another mode.   *)
WrongMode(c) == mode = "MCA_FSM" /\ mmc[c] # "MCA_FSM"

StopLoop(outcome) ==
  /\ status' = IF outcome = "failed" \/ WrongMode(Current) THEN "error" ELSE status
  /\ next' = After
  /\ IF ~IsLast THEN UNCHANGED <<pc, todo, runActive, result>>
     ELSE IF op = "stop" /\ status' = "ok"
     THEN /\ runActive' = [runActive EXCEPT ![Head(todo)[1]] = FALSE]
          /\ todo' = Tail(todo) /\ pc' = "element"
          /\ UNCHANGED result
     ELSE Return("error") /\ UNCHANGED <<todo, runActive>>
  /\ UNCHANGED <<mappingMode, mmc, op, mode, asked, calls>>

StopChannel ==
  /\ pc = "stop" /\ state[Current] # "error"
  /\ state' = [state EXCEPT ![Current] = "ready"]
  /\ lostStop' = lostStop \ {Current}
  /\ StopLoop("obeyed")
  /\ UNCHANGED failures

(* The command is not sent or refused, or its answer or the ready state    *)
(* does not come in time, as from a channel in error it never does.        *)
StopChannelFails ==
  /\ pc = "stop"
  /\ IF state[Current] = "error" THEN UNCHANGED failures ELSE Failure
  /\ \E acted \in BOOLEAN :
       state' = [state EXCEPT ![Current] = IF acted /\ @ # "error" THEN "ready" ELSE @]
  /\ lostStop' = IF state'[Current] \in {"ready", "error"} THEN lostStop \ {Current}
                 ELSE lostStop \union {Current}
  /\ StopLoop("failed")

---------------------------------------------------------------------------
(* A channel's preset run is over, or it breaks down.                      *)
RunEnds(c) ==
  /\ Running(c)
  /\ state' = [state EXCEPT ![c] = "ready"]
  /\ lostStop' = lostStop \ {c}
  /\ UNCHANGED <<mappingMode, mmc, runActive, callVars, failures>>

BreaksDown(c) ==
  /\ Failure
  /\ state' = [state EXCEPT ![c] = "error"]
  /\ lostStop' = lostStop \ {c}
  /\ UNCHANGED <<mappingMode, mmc, runActive, callVars>>

CallStep ==
  \/ AllDone \/ Skip \/ Enter
  \/ Configure \/ ConfigureFails
  \/ StartChannel \/ StartChannelFails
  \/ StopChannel \/ StopChannelFails

RunNext ==
  \/ CallStep
  \/ \E o \in {"start", "stop"} :
       Call(o, AllChannels) \/ \E c \in Channel : Call(o, <<c>>)
  \/ \E c \in Channel :
       RunEnds(c) \/ BreaksDown(c) \/ \E md \in Modes : SetMappingMode(c, md)

RunSpec == RunInit /\ [][RunNext]_runVars

---------------------------------------------------------------------------
(* Properties.                                                             *)

(* Type invariant of the channels and of the call in progress.             *)
RunTypeOK ==
  /\ state \in [Channel -> {"ready", "histo", "listMode", "error"}]
  /\ mappingMode \in [Channel -> Modes]
  /\ mmc \in [Channel -> Modes \union {"NIL"}]
  /\ runActive \in [Modules -> BOOLEAN]
  /\ pc \in {"idle", "element", "configure", "start", "stop"}
  /\ op \in {"start", "stop"}
  /\ todo \in Seq(Channel) /\ (pc \in {"configure", "start", "stop"} => todo # << >>)
  /\ mode \in Modes /\ next \in 0 .. NumChannels - 1
  /\ status \in {"ok", "error"} /\ result \in {"none", "ok", "error"}
  /\ asked \subseteq Modules /\ lostStop \subseteq Channel
  /\ calls \in Nat /\ failures \in Nat

(* Between calls, after starts and stops that failed anywhere half way, a  *)
(* channel that takes data is one of a module whose run is active, so that *)
(* xiaStopRun can stop it; only a stop that failed on it leaves it behind. *)
RunningIsActive ==
  pc = "idle" => \A c \in Channel :
    Running(c) /\ c \notin lostStop => runActive[c[1]]

(* What a channel sends fits the buffers its receiver puts it in, although *)
(* every channel has a mapping_mode of its own and it may be set at any    *)
(* time.                                                                   *)
RunningInItsMode ==
  \A c \in Channel : Running(c) /\ c \notin lostStop =>
    mmc[c] \in {md \in Modes \ {"SCA"} : RunOf(md) = state[c]}

(* The buffers of a channel that takes data are not closed and opened      *)
(* again by another start.                                                 *)
BuffersKeptWhileRunning ==
  [][\A c \in Channel : Running(c) /\ c \notin lostStop => mmc'[c] = mmc[c]]_runVars

(* xiaStopRun, "This routine stops a run on detChan": when it returns      *)
(* success no channel of the modules it was called for takes data.         *)
StopRunStops ==
  [][op = "stop" /\ pc # "idle" /\ pc' = "idle" /\ result' = "ok" =>
       \A c \in Channel : c[1] \in asked => ~Running(c)]_runVars
=============================================================================
