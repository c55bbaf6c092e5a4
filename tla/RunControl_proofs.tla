------------------------- MODULE RunControl_proofs -------------------------
(***************************************************************************)
(* Proofs about run control: about ModuleRun for any modules, numbers of   *)
(* channels, order of the set and calibration, and about AcquisitionValues *)
(* for any groups of values, kinds of device, gains, clock tick and step   *)
(* of the gain; both for any number of calls and failures.                 *)
(***************************************************************************)
EXTENDS ModuleRun, AcquisitionValues, SequenceTheorems, WellFoundedInduction, TLAPS

---------------------------------------------------------------------------
(* The runs of the modules.                                                *)

(* Where the loops are keeps its range.                                    *)
LEMMA AfterInRange ==
  ASSUME RunTypeOK
  PROVE  After \in 0 .. NumChannels - 1
BY RunAssumption DEF RunTypeOK, After, IsLast

LEMMA CurrentIsChannel ==
  ASSUME RunTypeOK, todo # << >>
  PROVE  /\ Head(todo) \in Channel /\ Tail(todo) \in Seq(Channel)
         /\ Head(todo)[1] \in Modules
         /\ Current \in Channel /\ Current[1] = Head(todo)[1] /\ Current[2] = next
BY DEF RunTypeOK, Channel, Current

LEMMA RunTypeStep == RunTypeOK /\ [RunNext]_runVars => RunTypeOK'
<1> SUFFICES ASSUME RunTypeOK, [RunNext]_runVars PROVE RunTypeOK'
  OBVIOUS
<1> USE DEF RunTypeOK, deviceVars, callVars
<1>1. CASE AllDone
  BY <1>1 DEF AllDone, Return
<1>2. CASE Skip
  BY <1>2, CurrentIsChannel DEF Skip
<1>3. CASE Enter
  BY <1>3, CurrentIsChannel, RunAssumption DEF Enter, Return
<1>4. CASE Configure
  BY <1>4, CurrentIsChannel, AfterInRange DEF Configure, OpenMode
<1>5. CASE ConfigureFails
  BY <1>5, RunAssumption DEF ConfigureFails, StopAll, Return, Failure
<1>6. CASE StartChannel
  <2>1. state' \in [Channel -> {"ready", "histo", "listMode", "error"}]
    BY <1>6 DEF StartChannel, RunOf
  <2>2. todo' \in Seq(Channel) /\ (pc' \in {"configure", "start", "stop"} => todo' # << >>)
    BY <1>6, CurrentIsChannel DEF StartChannel
  <2>3. runActive' \in [Modules -> BOOLEAN]
    BY <1>6 DEF StartChannel
  <2>4. next' \in 0 .. NumChannels - 1
    BY <1>6, AfterInRange DEF StartChannel
  <2>5. QED BY <1>6, <2>1, <2>2, <2>3, <2>4 DEF StartChannel
<1>7. CASE StartChannelFails
  <2>1. state' \in [Channel -> {"ready", "histo", "listMode", "error"}]
    BY <1>7 DEF StartChannelFails, RunOf
  <2>2. QED BY <1>7, <2>1, RunAssumption DEF StartChannelFails, StopAll, Failure
<1>8. ASSUME NEW outcome, pc = "stop", StopLoop(outcome),
             state' \in [Channel -> {"ready", "histo", "listMode", "error"}],
             lostStop' \subseteq Channel, failures' \in Nat
      PROVE  RunTypeOK'
  <2>1. next' \in 0 .. NumChannels - 1
    BY <1>8, AfterInRange DEF StopLoop
  <2>2. status' \in {"ok", "error"}
    BY <1>8 DEF StopLoop
  <2>3. todo' \in Seq(Channel) /\ (pc' \in {"configure", "start", "stop"} => todo' # << >>)
    BY <1>8, CurrentIsChannel DEF StopLoop, Return
  <2>4. runActive' \in [Modules -> BOOLEAN]
    BY <1>8 DEF StopLoop, Return
  <2>5. pc' \in {"idle", "element", "configure", "start", "stop"}
        /\ result' \in {"none", "ok", "error"}
    BY <1>8 DEF StopLoop, Return
  <2>6. QED BY <1>8, <2>1, <2>2, <2>3, <2>4, <2>5 DEF StopLoop
<1>9. CASE StopChannel
  BY <1>9, <1>8 DEF StopChannel
<1>10. CASE StopChannelFails
  <2>1. state' \in [Channel -> {"ready", "histo", "listMode", "error"}]
    BY <1>10 DEF StopChannelFails
  <2>2. lostStop' \subseteq Channel
    BY <1>10, CurrentIsChannel DEF StopChannelFails
  <2>3. failures' \in Nat
    BY <1>10 DEF StopChannelFails, Failure
  <2>4. QED BY <1>10, <2>1, <2>2, <2>3, <1>8 DEF StopChannelFails
<1>11. ASSUME NEW o \in {"start", "stop"}, NEW s \in Seq(Channel), Call(o, s)
       PROVE  RunTypeOK'
  BY <1>11 DEF Call, Channel
<1>12. ASSUME NEW c \in Channel, RunEnds(c) \/ BreaksDown(c)
       PROVE  RunTypeOK'
  BY <1>12 DEF RunEnds, BreaksDown, Failure
<1>13. ASSUME NEW c \in Channel, NEW md \in Modes, SetMappingMode(c, md)
       PROVE  RunTypeOK'
  BY <1>13 DEF SetMappingMode
<1>14. CASE UNCHANGED runVars
  BY <1>14 DEF runVars
<1>15. QED
  <2>1. \A c \in Channel : <<c>> \in Seq(Channel)
    OBVIOUS
  <2>2. QED
    BY <1>1, <1>2, <1>3, <1>4, <1>5, <1>6, <1>7, <1>9, <1>10, <1>11, <1>12, <1>13, <1>14,
       <2>1, RunAssumption DEF RunNext, CallStep

(* Every variable of the calls and of the channels keeps its type.         *)
THEOREM RunTypeCorrect == RunSpec => []RunTypeOK
<1>1. RunInit => RunTypeOK
  BY RunAssumption DEF RunInit, RunTypeOK, Modes
<1>2. QED BY <1>1, RunTypeStep, PTL DEF RunSpec

---------------------------------------------------------------------------
Taking(c) == Running(c) /\ c \notin lostStop

OfCurrent(c) == c[1] = Head(todo)[1]

(* A module is entered for a start only when it is not active, and then    *)
(* none of its channels takes data before the second loop; while its       *)
(* channels are stopped, those the loop has passed take none.              *)
RunInv ==
  /\ pc \in {"configure", "start"} => op = "start" /\ ~runActive[Head(todo)[1]]
  /\ pc \in {"configure", "start", "stop"} => mode # "SCA"
  /\ pc = "stop" => \A c \in Channel : OfCurrent(c) /\ c[2] < next => ~Taking(c)
  /\ \A c \in Channel : Taking(c) /\ ~runActive[c[1]] =>
       pc \in {"start", "stop"} /\ op = "start" /\ OfCurrent(c)

LEMMA LastChannel ==
  ASSUME RunTypeOK, NEW c \in Channel, IsLast, c[1] = Current[1], c # Current
  PROVE  c[2] < next
<1>1. c = <<c[1], c[2]>> /\ c[2] \in 0 .. NumChannels - 1
  BY DEF Channel
<1>2. c[2] # next
  BY <1>1 DEF Current
<1>3. NumChannels \in Nat /\ next = NumChannels - 1
  BY RunAssumption DEF IsLast
<1>4. QED BY <1>1, <1>2, <1>3

LEMMA PassedChannel ==
  ASSUME RunTypeOK, NEW c \in Channel, ~IsLast, c[1] = Current[1], c # Current,
         c[2] < After
  PROVE  c[2] < next
BY RunAssumption DEF RunTypeOK, IsLast, After, Channel, Current

(* One step of a stop loop that leaves no channel but the current one in   *)
(* another state, and that one not taking data.                            *)
LEMMA StopLoopStep ==
  ASSUME RunTypeOK, RunInv, pc = "stop", NEW outcome, StopLoop(outcome),
         NEW cur, cur = Current, ~Taking(cur)',
         \A c \in Channel \ {cur} : Taking(c)' => Taking(c)
  PROVE  RunInv'
<1> USE DEF RunInv, OfCurrent
<1>1. todo # << >> /\ cur \in Channel /\ cur[1] = Head(todo)[1]
  BY CurrentIsChannel DEF RunTypeOK
<1>2. \A c \in Channel : Taking(c)' => c # cur /\ Taking(c)
  OBVIOUS
<1>3. CASE ~IsLast
  <2>1. pc' = pc /\ todo' = todo /\ runActive' = runActive /\ op' = op /\ mode' = mode
        /\ next' = After
    BY <1>3 DEF StopLoop
  <2>2. ASSUME NEW c \in Channel, c[1] = Head(todo)[1], c[2] < After
        PROVE  ~Taking(c)'
    <3>1. CASE c = cur
      BY <3>1
    <3>2. CASE c # cur
      BY <3>2, <2>2, <1>1, <1>2, <1>3, PassedChannel
    <3>3. QED BY <3>1, <3>2
  <2>3. QED BY <2>1, <2>2, <1>2
<1>4. CASE IsLast
  <2>1. ASSUME NEW c \in Channel, c[1] = Head(todo)[1]
        PROVE  ~Taking(c)'
    <3>1. CASE c = cur
      BY <3>1
    <3>2. CASE c # cur
      BY <3>2, <2>1, <1>1, <1>2, <1>4, LastChannel
    <3>3. QED BY <3>1, <3>2
  <2>2. pc' \in {"element", "idle"}
    BY <1>4 DEF StopLoop, Return
  <2>3. \A m \in Modules : m # Head(todo)[1] => runActive'[m] = runActive[m]
    BY <1>4 DEF StopLoop, RunTypeOK
  <2>4. ASSUME NEW c \in Channel, Taking(c)'
        PROVE  runActive'[c[1]]
    <3>1. c[1] # Head(todo)[1] /\ Taking(c)
      BY <2>1, <2>4, <1>2
    <3>2. c[1] \in Modules
      BY DEF Channel
    <3>3. QED BY <3>1, <3>2, <2>3
  <2>5. QED BY <2>2, <2>4
<1>5. QED BY <1>3, <1>4

LEMMA RunInvStep == RunTypeOK /\ RunTypeOK' /\ RunInv /\ [RunNext]_runVars => RunInv'
<1> SUFFICES ASSUME RunTypeOK, RunTypeOK', RunInv, [RunNext]_runVars PROVE RunInv'
  OBVIOUS
<1> USE DEF RunInv, OfCurrent, deviceVars, callVars
<1>0. \A c \in Channel : c[1] \in Modules
  BY DEF Channel
<1>1. CASE AllDone
  BY <1>1 DEF AllDone, Return, Taking, Running
<1>2. CASE Skip
  BY <1>2 DEF Skip, Taking, Running
<1>3. CASE Enter
  <2>1. \A c \in Channel : Taking(c)' = Taking(c)
    BY <1>3 DEF Enter, Taking, Running
  <2>2. \A c \in Channel : Taking(c) => runActive[c[1]]
    BY <1>3 DEF Enter
  <2>3. op = "start" => ~runActive[Head(todo)[1]]
    BY <1>3 DEF Enter, NothingToDo
  <2>4. pc' \in {"idle", "configure", "stop"} /\ (pc' # "idle" => mode' # "SCA")
        /\ (pc' = "configure" => op = "start") /\ next' = 0
        /\ op' = op /\ runActive' = runActive /\ todo' = todo
    BY <1>3 DEF Enter, Return
  <2>5. \A c \in Channel : ~(c[2] < 0)
    BY DEF Channel
  <2>6. QED BY <2>1, <2>2, <2>3, <2>4, <2>5
<1>4. CASE Configure
  BY <1>4 DEF Configure, Taking, Running
<1> DEFINE Stopping ==
      /\ pc' = "stop" /\ next' = 0 /\ todo' = todo /\ op' = op /\ mode' = mode
      /\ runActive' = runActive
<1>5. \A c \in Channel : ~(c[2] < 0)
  BY DEF Channel
<1>6. CASE ConfigureFails
  <2>1. \A c \in Channel : Taking(c)' = Taking(c)
    BY <1>6 DEF ConfigureFails, Taking, Running
  <2>2. Stopping \/ (pc' = "idle" /\ runActive' = runActive)
    BY <1>6 DEF ConfigureFails, StopAll, Return
  <2>3. \A c \in Channel : Taking(c) => runActive[c[1]]
    BY <1>6 DEF ConfigureFails
  <2>4. pc = "configure"
    BY <1>6 DEF ConfigureFails
  <2>5. QED BY <2>1, <2>2, <2>3, <2>4, <1>5
<1>7. ASSUME pc = "start"
      PROVE  /\ todo # << >> /\ Current \in Channel /\ Current[1] = Head(todo)[1]
             /\ Head(todo)[1] \in Modules
  BY <1>7, CurrentIsChannel DEF RunTypeOK
<1>8. CASE StartChannel
  <2>1. pc = "start"
    BY <1>8 DEF StartChannel
  <2>2. \A c \in Channel \ {Current} : Taking(c)' = Taking(c)
    BY <1>8 DEF StartChannel, Taking, Running, RunTypeOK
  <2>3. CASE ~IsLast
    <3>1. pc' = pc /\ todo' = todo /\ runActive' = runActive /\ op' = op /\ mode' = mode
      BY <1>8, <2>3 DEF StartChannel
    <3>2. QED BY <3>1, <2>1, <2>2, <1>7
  <2>4. CASE IsLast
    <3>1. pc' = "element" /\ runActive' = [runActive EXCEPT ![Head(todo)[1]] = TRUE]
      BY <1>8, <2>4 DEF StartChannel
    <3>2. ASSUME NEW c \in Channel, Taking(c)'
          PROVE  runActive'[c[1]]
      BY <3>1, <3>2, <2>1, <2>2, <1>0, <1>7 DEF RunTypeOK
    <3>3. QED BY <3>1, <3>2
  <2>5. QED BY <2>3, <2>4
<1>9. CASE StartChannelFails
  <2>1. pc = "start" /\ Stopping
    BY <1>9 DEF StartChannelFails, StopAll
  <2>2. \A c \in Channel \ {Current} : Taking(c)' = Taking(c)
    BY <1>9 DEF StartChannelFails, Taking, Running, RunTypeOK
  <2>3. QED BY <2>1, <2>2, <1>5, <1>7
<1>10. ASSUME pc = "stop"
       PROVE  Current \in Channel
  BY <1>10, CurrentIsChannel DEF RunTypeOK
<1>11. CASE StopChannel
  <2>1. pc = "stop" /\ StopLoop("obeyed")
    BY <1>11 DEF StopChannel
  <2>2. \A c \in Channel \ {Current} : Taking(c)' = Taking(c)
    BY <1>11 DEF StopChannel, Taking, Running, RunTypeOK
  <2>3. ASSUME NEW cur, cur = Current PROVE ~Taking(cur)'
    BY <2>1, <2>3, <1>10, <1>11 DEF StopChannel, Taking, Running, RunTypeOK
  <2>4. QED BY <2>1, <2>2, <2>3, StopLoopStep
<1>12. CASE StopChannelFails
  <2>1. pc = "stop" /\ StopLoop("failed")
    BY <1>12 DEF StopChannelFails
  <2>2. \A c \in Channel \ {Current} : Taking(c)' = Taking(c)
    BY <1>12 DEF StopChannelFails, Taking, Running, RunTypeOK
  <2>3. ASSUME NEW cur, cur = Current PROVE ~Taking(cur)'
    BY <2>1, <2>3, <1>10, <1>12 DEF StopChannelFails, Taking, Running, RunTypeOK
  <2>4. QED BY <2>1, <2>2, <2>3, StopLoopStep
<1>13. ASSUME NEW o, NEW s, Call(o, s)
       PROVE  RunInv'
  BY <1>13 DEF Call, Taking, Running
<1>14. ASSUME NEW c \in Channel, RunEnds(c) \/ BreaksDown(c)
       PROVE  RunInv'
  <2>1. \A d \in Channel : Taking(d)' => Taking(d)
    BY <1>14 DEF RunEnds, BreaksDown, Taking, Running, RunTypeOK
  <2>2. UNCHANGED <<runActive, callVars>>
    BY <1>14 DEF RunEnds, BreaksDown
  <2>3. QED BY <2>1, <2>2
<1>15. ASSUME NEW c \in Channel, NEW md \in Modes, SetMappingMode(c, md)
       PROVE  RunInv'
  BY <1>15 DEF SetMappingMode, Taking, Running
<1>16. CASE UNCHANGED runVars
  BY <1>16 DEF runVars, Taking, Running
<1>17. QED
  BY <1>1, <1>2, <1>3, <1>4, <1>6, <1>8, <1>9, <1>11, <1>12, <1>13, <1>14, <1>15, <1>16
     DEF RunNext, CallStep

LEMMA RunInvCorrect == RunSpec => [](RunTypeOK /\ RunInv)
<1>1. RunInit => RunTypeOK /\ RunInv
  BY RunAssumption DEF RunInit, RunTypeOK, RunInv, Taking, Running, Modes
<1>2. QED BY <1>1, RunTypeStep, RunInvStep, PTL DEF RunSpec

(* However calls fail, the driver knows of every channel that takes data   *)
(* between calls, except those a failed stop has left running.             *)
THEOREM RunningKnown == RunSpec => []RunningIsActive
<1>1. RunInv => RunningIsActive
  BY DEF RunInv, RunningIsActive, Taking
<1>2. QED BY <1>1, RunInvCorrect, PTL

(* No start touches the buffers of a channel that takes data.              *)
THEOREM BuffersKept == RunSpec => BuffersKeptWhileRunning
<1>1. ASSUME RunTypeOK, RunInv, RunNext
      PROVE  \A c \in Channel : Running(c) /\ c \notin lostStop => mmc'[c] = mmc[c]
  <2>1. CASE Configure
    <3>1. todo # << >> /\ Current \in Channel /\ Current[1] = Head(todo)[1]
      BY <2>1, <1>1, CurrentIsChannel DEF Configure, RunTypeOK
    <3>2. ~Taking(Current)
      BY <2>1, <3>1, <1>1 DEF Configure, RunInv
    <3>3. QED BY <2>1, <3>2, <1>1 DEF Configure, RunTypeOK, Taking
  <2>2. CASE ~Configure
    <3>1. mmc' = mmc
      BY <2>2, <1>1 DEF RunNext, CallStep, deviceVars, callVars, AllDone, Skip, Enter,
         ConfigureFails, StartChannel, StartChannelFails, StopChannel, StopChannelFails,
         StopLoop, Call, RunEnds, BreaksDown, SetMappingMode
    <3>2. QED BY <3>1
  <2>3. QED BY <2>1, <2>2
<1>2. (RunTypeOK /\ RunInv) /\ [RunNext]_runVars =>
        [\A c \in Channel : Running(c) /\ c \notin lostStop => mmc'[c] = mmc[c]]_runVars
  BY <1>1
<1>3. QED BY <1>2, RunInvCorrect, PTL DEF RunSpec, BuffersKeptWhileRunning

---------------------------------------------------------------------------
(* When the second loop starts a channel its control is open in the mode   *)
(* of the call.                                                            *)
InItsMode(c) == mmc[c] \in {md \in Modes \ {"SCA"} : RunOf(md) = state[c]}

ModeInv ==
  /\ pc = "configure" => \A c \in Channel : OfCurrent(c) /\ c[2] < next => mmc[c] = mode
  /\ pc = "start" => \A c \in Channel : OfCurrent(c) => mmc[c] = mode
  /\ \A c \in Channel : Taking(c) => InItsMode(c)

(* Every step but those of the two loops of a start.                       *)
LEMMA ModeKept ==
  ASSUME RunTypeOK, ModeInv, mmc' = mmc,
         \A c \in Channel : Taking(c)' => Taking(c) /\ state'[c] = state[c],
         \/ pc' \notin {"configure", "start"}
         \/ pc' = "configure" /\ next' = 0
         \/ UNCHANGED callVars
  PROVE  ModeInv'
<1>1. \A c \in Channel : ~(c[2] < 0)
  BY DEF Channel
<1>2. \A c \in Channel : Taking(c)' => InItsMode(c)'
  BY DEF ModeInv, InItsMode
<1>3. CASE pc' \notin {"configure", "start"}
  BY <1>2, <1>3 DEF ModeInv
<1>4. CASE pc' = "configure" /\ next' = 0
  BY <1>1, <1>2, <1>4 DEF ModeInv
<1>5. CASE UNCHANGED callVars
  BY <1>2, <1>5 DEF ModeInv, callVars, OfCurrent
<1>6. QED BY <1>3, <1>4, <1>5

LEMMA ModeInvStep == RunTypeOK /\ RunInv /\ ModeInv /\ [RunNext]_runVars => ModeInv'
<1> SUFFICES ASSUME RunTypeOK, RunInv, ModeInv, [RunNext]_runVars PROVE ModeInv'
  OBVIOUS
<1> USE DEF deviceVars
<1>1. ASSUME AllDone \/ Skip \/ Enter \/ ConfigureFails
      PROVE  ModeInv'
  <2>1. mmc' = mmc /\ UNCHANGED <<state, lostStop>>
    BY <1>1 DEF AllDone, Skip, Enter, ConfigureFails
  <2>2. pc' \notin {"configure", "start"} \/ (pc' = "configure" /\ next' = 0)
    BY <1>1 DEF AllDone, Skip, Enter, ConfigureFails, StopAll, Return
  <2>3. QED BY <2>1, <2>2, ModeKept DEF Taking, Running
<1>2. CASE Configure
  <2>1. /\ todo # << >> /\ Current \in Channel /\ Current[1] = Head(todo)[1]
        /\ ~Taking(Current)
    BY <1>2, CurrentIsChannel DEF Configure, RunTypeOK, RunInv, OfCurrent
  <2>2. mmc' = [mmc EXCEPT ![Current] = mode]
    BY <1>2 DEF Configure, OpenMode
  <2>3. \A c \in Channel \ {Current} : mmc'[c] = mmc[c]
    BY <2>2 DEF RunTypeOK
  <2>4. mmc'[Current] = mode
    BY <2>1, <2>2 DEF RunTypeOK
  <2>5. UNCHANGED <<state, lostStop, mode, todo>> /\ pc = "configure" /\ next' = After
    BY <1>2 DEF Configure
  <2>6. \A c \in Channel : Taking(c)' => InItsMode(c)'
    BY <2>1, <2>3, <2>5 DEF ModeInv, InItsMode, Taking, Running
  <2>7. CASE IsLast
    <3>1. \A c \in Channel : OfCurrent(c) => mmc'[c] = mode
      BY <2>1, <2>3, <2>4, <2>5, <2>7, LastChannel DEF ModeInv, OfCurrent
    <3>2. pc' = "start"
      BY <1>2, <2>7 DEF Configure
    <3>3. QED BY <2>5, <2>6, <3>1, <3>2 DEF ModeInv, OfCurrent
  <2>8. CASE ~IsLast
    <3>1. \A c \in Channel : OfCurrent(c) /\ c[2] < After => mmc'[c] = mode
      BY <2>1, <2>3, <2>4, <2>5, <2>8, PassedChannel DEF ModeInv, OfCurrent
    <3>2. pc' = "configure"
      BY <1>2, <2>8 DEF Configure
    <3>3. QED BY <2>5, <2>6, <3>1, <3>2 DEF ModeInv, OfCurrent
  <2>9. QED BY <2>7, <2>8
<1>3. ASSUME StartChannel \/ StartChannelFails
      PROVE  ModeInv'
  <2>1. pc = "start" /\ UNCHANGED <<mmc, lostStop, mode>>
    BY <1>3 DEF StartChannel, StartChannelFails
  <2>2. todo # << >> /\ Current \in Channel /\ OfCurrent(Current) /\ mode \in Modes \ {"SCA"}
    BY <2>1, CurrentIsChannel DEF RunTypeOK, RunInv, OfCurrent
  <2>3. mmc[Current] = mode
    BY <2>1, <2>2 DEF ModeInv
  <2>4. \A c \in Channel \ {Current} : state'[c] = state[c]
    BY <1>3 DEF StartChannel, StartChannelFails, RunTypeOK
  <2>5. state'[Current] \in {state[Current], RunOf(mode)}
    BY <1>3, <2>2 DEF StartChannel, StartChannelFails, RunTypeOK
  <2>6. ASSUME NEW c \in Channel, Taking(c)'
        PROVE  InItsMode(c)'
    <3>1. CASE state'[c] = state[c]
      BY <2>1, <2>6, <3>1 DEF ModeInv, InItsMode, Taking, Running
    <3>2. CASE c = Current /\ state'[c] = RunOf(mode)
      BY <2>1, <2>2, <2>3, <3>2 DEF InItsMode
    <3>3. QED BY <2>4, <2>5, <3>1, <3>2
  <2>7. pc' \in {"stop", "element"} \/ (pc' = "start" /\ todo' = todo)
    BY <1>3, <2>1 DEF StartChannel, StartChannelFails, StopAll
  <2>8. QED BY <2>1, <2>6, <2>7 DEF ModeInv, OfCurrent
<1>4. ASSUME StopChannel \/ StopChannelFails
      PROVE  ModeInv'
  <2>1. mmc' = mmc /\ pc' \notin {"configure", "start"}
    BY <1>4 DEF StopChannel, StopChannelFails, StopLoop, Return
  <2>2. todo # << >> /\ Current \in Channel
    BY <1>4, CurrentIsChannel DEF StopChannel, StopChannelFails, RunTypeOK
  <2>3. ASSUME NEW c \in Channel
        PROVE  Taking(c)' => Taking(c) /\ state'[c] = state[c]
    BY <1>4, <2>2 DEF StopChannel, StopChannelFails, Taking, Running, RunTypeOK
  <2>4. QED BY <2>1, <2>3, ModeKept
<1>5. ASSUME NEW o, NEW s, Call(o, s)
      PROVE  ModeInv'
  BY <1>5, ModeKept DEF Call, Taking, Running
<1>6. ASSUME NEW c \in Channel, RunEnds(c) \/ BreaksDown(c)
      PROVE  ModeInv'
  <2>1. \A d \in Channel : Taking(d)' => Taking(d) /\ state'[d] = state[d]
    BY <1>6 DEF RunEnds, BreaksDown, Taking, Running, RunTypeOK
  <2>2. mmc' = mmc /\ UNCHANGED callVars
    BY <1>6 DEF RunEnds, BreaksDown
  <2>3. QED BY <2>1, <2>2, ModeKept
<1>7. ASSUME NEW c \in Channel, NEW md \in Modes, SetMappingMode(c, md)
      PROVE  ModeInv'
  BY <1>7 DEF SetMappingMode, ModeInv, InItsMode, Taking, Running, OfCurrent
<1>8. CASE UNCHANGED runVars
  BY <1>8 DEF runVars, callVars, ModeInv, InItsMode, Taking, Running, OfCurrent
<1>9. QED
  BY <1>1, <1>2, <1>3, <1>4, <1>5, <1>6, <1>7, <1>8 DEF RunNext, CallStep

(* A channel that takes data has the buffers for what it sends, whatever   *)
(* its mapping_mode is set to meanwhile.                                   *)
THEOREM RunningHasItsBuffers == RunSpec => []RunningInItsMode
<1>1. RunInit => ModeInv
  BY DEF RunInit, ModeInv, Taking, Running
<1>2. ModeInv => RunningInItsMode
  BY DEF ModeInv, InItsMode, RunningInItsMode, Taking
<1>3. QED BY <1>1, <1>2, ModeInvStep, RunInvCorrect, PTL DEF RunSpec
---------------------------------------------------------------------------
(* The values the runs are made with.  First what their handlers are made  *)
(* of: sequences of writes, lists of values and the parameters they leave. *)

(* A set of natural numbers has a least, and a bounded one a greatest.     *)

LEMMA LeastOf ==
  ASSUME NEW s, s \subseteq Nat, s # {}
  PROVE  \E x \in s : \A y \in s : x <= y
<1>1. PICK x \in s : \A y \in s : <<y, x>> \notin OpToRel(<, Nat)
  BY NatLessThanWellFounded, WFMin
<1>2. ASSUME NEW y \in s
      PROVE  x <= y
  <2>1. <<y, x>> \in OpToRel(<, Nat) <=> y < x
    BY DEF OpToRel
  <2>2. ~(y < x)
    BY <1>1, <2>1, Zenon
  <2> QED
    BY <2>2
<1> QED
  BY <1>2

(* What Max gives for a set of positions of a sequence.                    *)
LEMMA GreatestOf ==
  ASSUME NEW n \in Nat, NEW s, s \subseteq 1 .. n, s # {}
  PROVE  Max(s) \in s /\ \A y \in s : y <= Max(s)
<1> DEFINE gaps == {n - y : y \in s}
<1>0. \A y \in s : y \in Int /\ 1 <= y /\ y <= n
  OBVIOUS
<1>1. gaps \subseteq Nat /\ gaps # {}
  <2>1. \A y \in s : n - y \in Nat
    BY <1>0
  <2> QED
    BY <2>1
<1>2. PICK g \in gaps : \A h \in gaps : g <= h
  BY <1>1, LeastOf
<1>3. PICK x \in s : g = n - x
  BY <1>2
<1>4. ASSUME NEW y \in s
      PROVE  x >= y /\ y <= x
  <2>1. n - x <= n - y
    BY <1>2, <1>3
  <2> QED
    BY <1>0, <1>3, <2>1
<1> QED
  <2>1. \E z \in s : \A y \in s : z >= y
    BY <1>3, <1>4
  <2>2. Max(s) \in s /\ \A y \in s : Max(s) >= y
    BY <2>1 DEF Max
  <2> QED
    BY <1>0, <2>2

(* The parameters after some writes: what none of them is for stays, and   *)
(* any other is what one of the writes for it says.                        *)
LEMMA AfterUntouched ==
  ASSUME NEW p, NEW X, NEW w \in Seq(X), NEW x \in DOMAIN p, \A m \in Range(w) : m[1] # x
  PROVE  AfterWrites(p, w)[x] = p[x]
BY DEF AfterWrites, Range

(* A parameter that some writes are for is what one of them says.          *)
LEMMA AfterSent ==
  ASSUME NEW p, NEW X, NEW w \in Seq(X), NEW x \in DOMAIN p, \E m \in Range(w) : m[1] = x
  PROVE  \E m \in Range(w) : m[1] = x /\ AfterWrites(p, w)[x] = m[2]
<1> DEFINE s == {k \in DOMAIN w : w[k][1] = x}
<1>1. s # {} /\ s \subseteq 1 .. Len(w)
  BY LenProperties DEF Range
<1>2. Max(s) \in s
  BY <1>1, GreatestOf, LenProperties
<1>3. AfterWrites(p, w)[x] = w[Max(s)][2]
  BY <1>1 DEF AfterWrites
<1> QED
  BY <1>2, <1>3 DEF Range

(* The elements of some sequences, put one behind the other.               *)
LEMMA FlattenedRange ==
  ASSUME NEW X, NEW seqs \in Seq(Seq(X))
  PROVE  /\ FlattenSeq(seqs) \in Seq(X)
         /\ \A e : e \in Range(FlattenSeq(seqs)) <=> \E i \in 1 .. Len(seqs) : e \in Range(seqs[i])
<1> DEFINE n == Len(seqs)
           Flattens(f, m) == f = [i \in 1 .. m |-> IF i = 1 THEN seqs[i] ELSE f[i - 1] \o seqs[i]]
<1>0. n \in Nat /\ DOMAIN seqs = 1 .. n /\ \A i \in 1 .. n : seqs[i] \in Seq(X)
  BY LenProperties, ElementOfSeq
<1>1. CASE n = 0
  <2>1. seqs = << >>
    BY <1>1, EmptySeq
  <2>2. FlattenSeq(seqs) = << >>
    BY <1>1, <2>1 DEF FlattenSeq
  <2> QED
    BY <1>1, <2>2, EmptySeq DEF Range
<1>2. CASE n # 0
  <2>1. \A m \in 1 .. n : \E f : Flattens(f, m)
    <3> DEFINE Flat(m) == \E f : Flattens(f, m)
               bad == {m \in 1 .. n : ~Flat(m)}
    <3> HIDE DEF Flat
    <3>1. SUFFICES ASSUME bad # {} PROVE FALSE
      BY DEF Flat
    <3>2. PICK m \in bad : \A k \in bad : m <= k
      <4>1. bad \subseteq Nat
        BY <1>0
      <4> QED
        BY <3>1, <4>1, LeastOf
    <3>3. CASE m = 1
      <4>1. Flattens([i \in 1 .. 1 |-> seqs[1]], 1)
        OBVIOUS
      <4> QED
        BY <3>2, <3>3, <4>1 DEF Flat
    <3>4. CASE m # 1
      <4>1. m - 1 \in 1 .. n /\ m - 1 \notin bad
        BY <1>0, <3>2, <3>4
      <4>2. PICK f : Flattens(f, m - 1)
        BY <4>1 DEF Flat
      <4> DEFINE g == [i \in 1 .. m |-> IF i < m THEN f[i] ELSE f[m - 1] \o seqs[m]]
      <4>3. ASSUME NEW i \in 1 .. m
            PROVE  g[i] = IF i = 1 THEN seqs[i] ELSE g[i - 1] \o seqs[i]
        <5>1. CASE i = m
          <6>1. g[m] = f[m - 1] \o seqs[m] /\ g[m - 1] = f[m - 1]
            <7>1. m \in 1 .. m /\ m - 1 \in 1 .. m /\ m - 1 < m /\ ~(m < m)
              BY <4>1, <3>2
            <7> QED
              BY <7>1
          <6> QED
            BY <5>1, <6>1, <3>4
        <5>2. CASE i # m
          <6>1. i \in 1 .. (m - 1) /\ i < m
            BY <4>1, <5>2
          <6>2. f[i] = IF i = 1 THEN seqs[i] ELSE f[i - 1] \o seqs[i]
            BY <4>2, <6>1
          <6>3. g[i] = f[i] /\ (i # 1 => g[i - 1] = f[i - 1])
            BY <6>1, <4>1
          <6> QED
            BY <6>2, <6>3
        <5> QED
          BY <5>1, <5>2
      <4>4. Flattens(g, m)
        <5> HIDE DEF Flattens
        <5>1. g = [i \in 1 .. m |-> g[i]]
          OBVIOUS
        <5> HIDE DEF g
        <5>2. [i \in 1 .. m |-> g[i]] = [i \in 1 .. m |-> IF i = 1 THEN seqs[i] ELSE g[i - 1] \o seqs[i]]
          BY <4>3
        <5> QED
          BY <5>1, <5>2 DEF Flattens
      <4> HIDE DEF g, Flattens
      <4> QED
        BY <3>2, <4>4 DEF Flat
    <3> QED
      BY <3>3, <3>4
  <2> DEFINE f == CHOOSE f : Flattens(f, n)
  <2>2. Flattens(f, n)
    <3>1. n \in 1 .. n
      BY <1>0, <1>2
    <3>2. \E g : Flattens(g, n)
      BY <2>1, <3>1
    <3> HIDE DEF Flattens
    <3> QED
      BY <3>2
  <2>3. FlattenSeq(seqs) = f[n]
    BY <1>2 DEF FlattenSeq
  <2> HIDE DEF f
  <2>4. \A i \in 1 .. n : f[i] = IF i = 1 THEN seqs[i] ELSE f[i - 1] \o seqs[i]
    BY <2>2
  <2> HIDE DEF Flattens
  <2> DEFINE Joins(m) == f[m] \in Seq(X) /\ \A e : e \in Range(f[m]) <=> \E i \in 1 .. m : e \in Range(seqs[i])
             bad == {m \in 1 .. n : ~Joins(m)}
  <2> HIDE DEF Joins
  <2>5. bad = {}
    <3>1. SUFFICES ASSUME bad # {} PROVE FALSE
      OBVIOUS
    <3>2. PICK m \in bad : \A k \in bad : m <= k
      <4>1. bad \subseteq Nat
        BY <1>0
      <4> QED
        BY <3>1, <4>1, LeastOf
    <3>3. CASE m = 1
      <4>1. f[1] = seqs[1] /\ seqs[1] \in Seq(X)
        BY <1>0, <2>4, <3>3, <3>2
      <4>2. 1 .. 1 = {1}
        OBVIOUS
      <4>3. Joins(1)
        BY <4>1, <4>2 DEF Joins
      <4> QED
        BY <3>2, <3>3, <4>3
    <3>4. CASE m # 1
      <4>1. m - 1 \in 1 .. n /\ Joins(m - 1)
        BY <1>0, <3>2, <3>4
      <4>2. f[m] = f[m - 1] \o seqs[m] /\ seqs[m] \in Seq(X)
        BY <1>0, <2>4, <3>2, <3>4
      <4>3. f[m] \in Seq(X) /\ Range(f[m]) = Range(f[m - 1]) \cup Range(seqs[m])
        BY <4>1, <4>2, ConcatProperties, RangeConcatenation DEF Joins
      <4>4. 1 .. m = (1 .. (m - 1)) \cup {m}
        BY <1>0, <3>2, <3>4
      <4>6. Joins(m)
        BY <4>1, <4>3, <4>4 DEF Joins
      <4> QED
        BY <3>2, <4>6
    <3> QED
      BY <3>3, <3>4
  <2> QED
    <3>1. n \in 1 .. n
      BY <1>0, <1>2
    <3>2. Joins(n)
      BY <2>5, <3>1
    <3> QED
      BY <2>3, <3>2 DEF Joins
<1> QED
  BY <1>1, <1>2

---------------------------------------------------------------------------
(* The parameters: those the device has, each a number or one of its       *)
(* options, the gain what the DAC makes of a gain that is accepted, the    *)
(* rise time in whole clock ticks.                                         *)
NumberParams ==
  Plain \cup {"dacGain", "dacOffset", "invert", "riseTime", "fixedTime", "fixedInputCount",
              "fixedOutputCount", "lowIndex", "highIndex"}
Flags == SpectrumValues \cup {"reset_blanking_enable", "invert"}
Fits(x, v, dev) ==
  /\ x \in NumberParams => v \in Int
  /\ x \in Flags => v \in {0, 1}
  /\ x \in OptionNames => \E u \in DOMAIN Options[dev][x] : v = Options[dev][x][u]
  /\ x = "dacGain" => v = 0 \/ \E g \in GainMin .. GainMax : v = DacGain(g)
  /\ x = "riseTime" => Rounded(v) = v
  /\ x = "veto" /\ "mcaGateVeto" \notin dev => v = "off"
ParamTypes(p, dev) == DOMAIN p = DOMAIN Factory /\ \A x \in DOMAIN p : Fits(x, p[x], dev)

(* A list of values, in use or saved: it has those with a default, each as *)
(* the handler keeps it, and what no device is asked for is accepted.      *)
ListTypes(list) ==
  /\ DOMAIN DEFAULT_ACQ_VALUES \subseteq DOMAIN list /\ DOMAIN list \subseteq Names
  /\ \A n \in DOMAIN list : list[n] \in Int /\ Kept(n, list[n]) = list[n]
  /\ \A n \in DOMAIN ModeLimits : list[n] \in ModeLimits[n]
  /\ \A n \in DOMAIN GateLimits : list[n] \in GateLimits[n]
  /\ list["number_of_scas"] \in 0 .. MaxScas

AcqTypes ==
  /\ offered \in Groups /\ device \in Devices /\ ParamTypes(params, device)
  /\ ListTypes(defaults) /\ ListTypes(saved.list) /\ ListTypes(started)
  /\ polarity \in Int /\ saved.polarity \in Int /\ saved.device \in Devices
  /\ settled \subseteq DOMAIN defaults
  /\ running \in {"none", "0", "1", "3"} /\ refused \in Nat
  /\ up => n_sca = defaults["number_of_scas"]

(* As long as no parameter was refused every value is in force that the    *)
(* device is asked for, but those a run, a calculation and another value   *)
(* may change, and the handlers accept the list again.                     *)
AllAccepted(list, dev) == \A n \in DOMAIN list : Accepted(n, list[n], dev)
NothingRefused ==
  /\ up /\ refused = 0 =>
       /\ DOMAIN DEFAULT_ACQ_VALUES \ {"dc_offset", "preset_value", "mca_refresh"} \subseteq settled
       /\ AllAccepted(defaults, device)
  /\ saved.clean => AllAccepted(saved.list, saved.device)

AcqInv == AcqTypes /\ NothingRefused /\ ValuesInForce /\ RestartRestores /\ RunConfigured

---------------------------------------------------------------------------
(* What the handlers send, as sets.                                        *)

LEMMA EmptyRange == << >> \in Seq({}) /\ Range(<< >>) = {}
BY DEF Range

(* A sequence of one write holds that write.                               *)
LEMMA OneRange ==
  ASSUME NEW e
  PROVE  <<e>> \in Seq({e}) /\ Range(<<e>>) = {e}
BY DEF Range

(* A sequence of two writes holds those two.                               *)
LEMMA TwoRange ==
  ASSUME NEW e, NEW f
  PROVE  <<e, f>> \in Seq({e, f}) /\ Range(<<e, f>>) = {e, f}
BY DEF Range

Unsent == {"mapping_mode", "preset_type", "mca_bin_width", "num_map_pixels_per_buffer",
           "num_map_pixels", "pixel_advance_mode", "input_logic_polarity", "gate_ignore",
           "sync_count", "auto_dc_offset"}
Kinds ==
  OptionNames \cup Plain \cup Unsent \cup ScaNames \cup
  {"analog_gain", "analog_offset", "detector_polarity", "risetime_optimization",
   "preset_value", "number_mca_channels", "mca_start_channel", "scale_factor",
   "mca_refresh", "number_of_scas"}

(* The values and the limits of the SCAs, written out.                     *)
LEMMA TheScas == ScaNames = {"sca0", "sca1"} /\ Sca(0) = "sca0" /\ Sca(1) = "sca1"
                   /\ Region(0) = "region_01" /\ Region(1) = "region_02"
<1>1. 0 .. MaxScas - 1 = {0, 1}
  BY DEF MaxScas
<1> QED
  BY <1>1 DEF ScaNames, Sca, Region

(* Every value is of one of the kinds the handlers are for.                *)
LEMMA TheNames == Names = Kinds
BY TheScas DEF Names, Kinds, DEFAULT_ACQ_VALUES, OptionNames, Plain, BlankingValues, PulseValues,
   SpectrumValues, OffsetValues, OutputValues, Unsent

Alone(name) ==
  /\ name # "analog_gain" /\ name # "analog_offset" /\ name # "detector_polarity"
  /\ name # "risetime_optimization" /\ name # "preset_value" /\ name # "number_mca_channels"
  /\ name # "mca_start_channel" /\ name # "scale_factor" /\ name # "mca_refresh"
  /\ name # "number_of_scas"

(* No value is of two kinds, so that one case of a handler table is its.   *)
LEMMA KindsApart ==
  ASSUME NEW name
  PROVE  /\ name \in OptionNames => name \notin Plain /\ name \notin ScaNames /\ Alone(name)
         /\ name \in Plain => name \notin OptionNames /\ name \notin ScaNames /\ Alone(name)
         /\ name \in Unsent \cup ScaNames => name \notin OptionNames /\ name \notin Plain /\ Alone(name)
         /\ name \in Unsent => name \notin ScaNames
         /\ ~Alone(name) => name \notin OptionNames /\ name \notin Plain /\ name \notin ScaNames
BY TheScas DEF OptionNames, Plain, BlankingValues, PulseValues, SpectrumValues, OffsetValues,
   OutputValues, Unsent, Alone

(* What each handler sends, by the kind of the value.                      *)
LEMMA SentNames ==
  ASSUME NEW name, NEW value, NEW list, NEW old, NEW dev
  PROVE  LET w == Writes(name, value, list, old, dev)
             highest == HighIndex(value, AcqValue(list, "mca_start_channel"))
             preset == PresetParam(AcqValue(list, "preset_type"))
         IN
    /\ name \in OptionNames => w = <<<<name, Options[dev][name][value]>>>>
    /\ name \in Plain => w = <<<<name, Sent(name, value)>>>>
    /\ name = "analog_gain" => w = <<<<"dacGain", DacGain(value)>>>>
    /\ name = "analog_offset" => w = <<<<"dacOffset", value - DacOffsetMin>>>>
    /\ name = "detector_polarity" => w = <<<<"invert", Inverted(value)>>>>
    /\ name = "risetime_optimization" => w = <<<<"riseTime", Rounded(value)>>>>
    /\ name = "preset_value" => w = <<<<preset, value>>>>
    /\ name = "number_mca_channels" => w = <<highest>>
    /\ name = "mca_start_channel" => w = StartWrites(AcqValue(list, "number_mca_channels"), value)
    /\ name = "scale_factor" => w = ScaleWrites(value)
    /\ name = "mca_refresh" => w = <<<<"refreshRate", value>>>>
    /\ name = "number_of_scas" => w = ScasRemoved(value, old)
    /\ name = "sca0" => w = <<<<"region_01", value>>>>
    /\ name = "sca1" => w = <<<<"region_02", value>>>>
    /\ name \in Unsent => w = << >>
<1> DEFINE w == Writes(name, value, list, old, dev)
<1>1. name \in OptionNames => w = <<<<name, Options[dev][name][value]>>>>
  BY KindsApart DEF Writes, Alone
<1>2. name \in Plain => w = <<<<name, Sent(name, value)>>>>
  BY KindsApart DEF Writes, Alone
<1>3. name = "analog_gain" => w = <<<<"dacGain", DacGain(value)>>>>
  BY KindsApart DEF Writes, Alone
<1>4. name = "analog_offset" => w = <<<<"dacOffset", value - DacOffsetMin>>>>
  BY KindsApart DEF Writes, Alone
<1>5. name = "detector_polarity" => w = <<<<"invert", Inverted(value)>>>>
  BY KindsApart DEF Writes, Alone
<1>6. name = "risetime_optimization" => w = <<<<"riseTime", Rounded(value)>>>>
  BY KindsApart DEF Writes, Alone
<1>7. name = "preset_value" => w = <<<<PresetParam(AcqValue(list, "preset_type")), value>>>>
  BY KindsApart DEF Writes, Alone
<1>8. name = "number_mca_channels" => w = <<HighIndex(value, AcqValue(list, "mca_start_channel"))>>
  BY KindsApart DEF Writes, Alone
<1>9. name = "mca_start_channel" => w = StartWrites(AcqValue(list, "number_mca_channels"), value)
  BY KindsApart DEF Writes, Alone
<1>10. name = "scale_factor" => w = ScaleWrites(value)
  BY KindsApart DEF Writes, Alone
<1>11. name = "mca_refresh" => w = <<<<"refreshRate", value>>>>
  BY KindsApart DEF Writes, Alone
<1>12. name = "number_of_scas" => w = ScasRemoved(value, old)
  BY KindsApart DEF Writes, Alone
<1>13. name \in Unsent => w = << >>
  BY KindsApart DEF Writes, Alone
<1>14. name = "sca0" => w = <<<<"region_01", value>>>>
  <2>1. SUFFICES ASSUME name = "sca0" PROVE w = <<<<"region_01", value>>>>
    OBVIOUS
  <2>2. (CHOOSE i \in 0 .. MaxScas - 1 : Sca(i) = name) = 0
    BY <2>1 DEF MaxScas, Sca
  <2>3. name \in ScaNames
    BY <2>1, TheScas
  <2> QED
    BY <2>1, <2>2, <2>3, KindsApart, TheScas DEF Writes, Alone
<1>15. name = "sca1" => w = <<<<"region_02", value>>>>
  <2>1. SUFFICES ASSUME name = "sca1" PROVE w = <<<<"region_02", value>>>>
    OBVIOUS
  <2>2. (CHOOSE i \in 0 .. MaxScas - 1 : Sca(i) = name) = 1
    BY <2>1 DEF MaxScas, Sca
  <2>3. name \in ScaNames
    BY <2>1, TheScas
  <2> QED
    BY <2>1, <2>2, <2>3, KindsApart, TheScas DEF Writes, Alone
<1> QED
  BY <1>1, <1>2, <1>3, <1>4, <1>5, <1>6, <1>7, <1>8, <1>9, <1>10, <1>11, <1>12, <1>13, <1>14, <1>15

---------------------------------------------------------------------------
(* The parameters after what a handler sends.                              *)

LEMMA AfterDomain ==
  ASSUME NEW p, NEW w
  PROVE  DOMAIN AfterWrites(p, w) = DOMAIN p
BY DEF AfterWrites

(* No write leaves every parameter.                                        *)
LEMMA AfterNone ==
  ASSUME NEW p, NEW x \in DOMAIN p
  PROVE  AfterWrites(p, << >>)[x] = p[x]
BY EmptyRange, AfterUntouched

(* The parameters after one write.                                         *)
LEMMA AfterOne ==
  ASSUME NEW p, NEW a, NEW b, NEW x \in DOMAIN p
  PROVE  AfterWrites(p, <<<<a, b>>>>)[x] = IF x = a THEN b ELSE p[x]
<1> DEFINE w == <<<<a, b>>>>
<1>1. w \in Seq({<<a, b>>}) /\ Range(w) = {<<a, b>>}
  BY OneRange
<1> HIDE DEF w
<1>2. CASE x = a
  <2>1. \E m \in Range(w) : m[1] = x
    BY <1>1, <1>2
  <2>2. PICK m \in Range(w) : m[1] = x /\ AfterWrites(p, w)[x] = m[2]
    BY <1>1, <2>1, AfterSent
  <2>3. AfterWrites(p, w)[x] = b
    BY <1>1, <2>2
  <2> QED
    BY <1>2, <2>3 DEF w
<1>3. CASE x # a
  <2>1. \A m \in Range(w) : m[1] # x
    BY <1>1, <1>3
  <2>2. AfterWrites(p, w)[x] = p[x]
    BY <1>1, <2>1, AfterUntouched
  <2> QED
    BY <1>3, <2>2 DEF w
<1> QED
  BY <1>2, <1>3

(* The parameters after two writes, the second the last word.              *)
LEMMA AfterTwo ==
  ASSUME NEW p, NEW a, NEW b, NEW c, NEW d, a # c, NEW x \in DOMAIN p
  PROVE  AfterWrites(p, <<<<a, b>>, <<c, d>>>>)[x] = IF x = a THEN b ELSE IF x = c THEN d ELSE p[x]
<1> DEFINE w == <<<<a, b>>, <<c, d>>>>
<1>1. w \in Seq({<<a, b>>, <<c, d>>}) /\ Range(w) = {<<a, b>>, <<c, d>>}
  BY TwoRange
<1> HIDE DEF w
<1>2. CASE x \in {a, c}
  <2>1. \E m \in Range(w) : m[1] = x
    BY <1>1, <1>2
  <2>2. PICK m \in Range(w) : m[1] = x /\ AfterWrites(p, w)[x] = m[2]
    BY <1>1, <2>1, AfterSent
  <2>3. AfterWrites(p, w)[x] = IF x = a THEN b ELSE d
    BY <1>1, <1>2, <2>2
  <2> QED
    BY <1>2, <2>3 DEF w
<1>3. CASE x \notin {a, c}
  <2>1. \A m \in Range(w) : m[1] # x
    BY <1>1, <1>3
  <2>2. AfterWrites(p, w)[x] = p[x]
    BY <1>1, <2>1, AfterUntouched
  <2> QED
    BY <1>3, <2>2 DEF w
<1> QED
  BY <1>2, <1>3

(* The limits of the SCAs that go.                                         *)
Going(x, value, old) == \E i \in value .. old - 1 : x = Region(i)

(* The writes for the SCAs that go are one for each limit of theirs.       *)
LEMMA RemovedRange ==
  ASSUME NEW value \in 0 .. MaxScas, NEW old \in 0 .. MaxScas
  PROVE  /\ ScasRemoved(value, old) \in Seq({<<"region_01", 0>>, <<"region_02", 0>>})
         /\ Range(ScasRemoved(value, old)) = {<<Region(i), 0>> : i \in value .. old - 1}
<1> DEFINE S == {<<"region_01", 0>>, <<"region_02", 0>>}
           w == ScasRemoved(value, old)
<1>1. Cleared \in Seq(S) /\ Len(Cleared) = 2 /\ \A i \in 1 .. 2 : Cleared[i] = <<Region(i - 1), 0>>
  <2>1. Cleared = <<<<"region_01", 0>>, <<"region_02", 0>>>>
    BY TheScas DEF Cleared, MaxScas
  <2> QED
    BY <2>1, TheScas
<1>2. value + 1 \in 1 .. Len(Cleared) + 1 /\ (old \in value .. Len(Cleared) \/ old < value)
  BY <1>1 DEF MaxScas
<1>3. CASE old < value
  <2>1. w = << >>
    BY <1>1, <1>3, SubSeqEmpty DEF ScasRemoved, MaxScas
  <2>2. value .. old - 1 = {}
    BY <1>3 DEF MaxScas
  <2> QED
    BY <2>1, <2>2, EmptyRange
<1>4. CASE old >= value
  <2>1. /\ w \in Seq(S) /\ Len(w) = old - value
        /\ \A k \in 1 .. old - value : w[k] = Cleared[value + k]
    BY <1>1, <1>4, SubSeqProperties DEF ScasRemoved, MaxScas
  <2>2. \A k \in 1 .. old - value : w[k] = <<Region(value + k - 1), 0>>
    BY <1>1, <2>1 DEF MaxScas
  <2>3. DOMAIN w = 1 .. old - value
    BY <2>1, LenProperties
  <2> HIDE DEF w
  <2>4. \A m \in Range(w) : \E i \in value .. old - 1 : m = <<Region(i), 0>>
    <3>1. SUFFICES ASSUME NEW k \in 1 .. old - value
                   PROVE  \E i \in value .. old - 1 : w[k] = <<Region(i), 0>>
      BY <2>3 DEF Range
    <3>2. value + k - 1 \in value .. old - 1
      BY DEF MaxScas
    <3> QED
      BY <2>2, <3>2
  <2>5. \A i \in value .. old - 1 : <<Region(i), 0>> \in Range(w)
    <3>1. SUFFICES ASSUME NEW i \in value .. old - 1
                   PROVE  <<Region(i), 0>> \in Range(w)
      OBVIOUS
    <3>2. i - value + 1 \in 1 .. old - value /\ value + (i - value + 1) - 1 = i
      BY DEF MaxScas
    <3> QED
      BY <2>2, <2>3, <3>2 DEF Range
  <2> QED
    BY <2>1, <2>4, <2>5 DEF w
<1> QED
  BY <1>3, <1>4 DEF MaxScas

(* Removing SCAs clears their limits and leaves the other parameters.      *)
LEMMA AfterRemoved ==
  ASSUME NEW p, NEW value \in 0 .. MaxScas, NEW old \in 0 .. MaxScas, NEW x \in DOMAIN p
  PROVE  AfterWrites(p, ScasRemoved(value, old))[x] = IF Going(x, value, old) THEN 0 ELSE p[x]
<1> DEFINE w == ScasRemoved(value, old)
           S == {<<"region_01", 0>>, <<"region_02", 0>>}
<1>1. w \in Seq(S) /\ Range(w) = {<<Region(i), 0>> : i \in value .. old - 1}
  BY RemovedRange
<1> HIDE DEF w
<1>2. CASE Going(x, value, old)
  <2>1. \E m \in Range(w) : m[1] = x
    <3>1. PICK i \in value .. old - 1 : x = Region(i)
      BY <1>2 DEF Going
    <3>2. <<Region(i), 0>> \in Range(w) /\ <<Region(i), 0>>[1] = x
      BY <1>1, <3>1
    <3> QED
      BY <3>2
  <2>2. PICK m \in Range(w) : m[1] = x /\ AfterWrites(p, w)[x] = m[2]
    BY <1>1, <2>1, AfterSent
  <2>3. m[2] = 0
    BY <1>1, <2>2
  <2> QED
    BY <1>2, <2>2, <2>3 DEF w
<1>3. CASE ~Going(x, value, old)
  <2>1. \A m \in Range(w) : m[1] # x
    BY <1>1, <1>3 DEF Going
  <2>2. AfterWrites(p, w)[x] = p[x]
    BY <1>1, <2>1, AfterUntouched
  <2> QED
    BY <1>3, <2>2 DEF w
<1> QED
  BY <1>2, <1>3

---------------------------------------------------------------------------
(* The parameters of a device.                                             *)
ParamNames ==
  NumberParams \cup OptionNames
    \cup {"refreshRate", "region_01", "region_02", "coarseBinScaling", "scaleFactor", "mode",
          "statsCollection", "veto", "digitalConfig"}

(* The parameters a device has, written out.                               *)
LEMMA FactoryNames == DOMAIN Factory = ParamNames
BY DEF Factory, Over, ParamNames, NumberParams, OptionNames, Plain, BlankingValues, PulseValues,
   SpectrumValues, OffsetValues, OutputValues

(* Options are counted from zero, in their order.                          *)
LEMMA FromZeroIs ==
  ASSUME NEW X, NEW s \in Seq(X)
  PROVE  /\ DOMAIN FromZero(s) = 0 .. Len(s) - 1
         /\ \A v \in 0 .. Len(s) - 1 : FromZero(s)[v] = s[v + 1]
BY DEF FromZero

(* A device has an option for each of the numbers that have one, and no    *)
(* option has two numbers.                                                 *)
LEMMA OptionsApart ==
  ASSUME NEW dev \in SUBSET Features, NEW n \in OptionNames
  PROVE  LET options == Options[dev][n]
         IN  /\ DOMAIN options \subseteq Int /\ 0 \in DOMAIN options
             /\ \A v, u \in DOMAIN options : options[v] = options[u] => v = u
<1>1. Options[dev] =
        [termination |-> Termination(dev), attenuation |-> Attenuation(dev),
         coupling |-> Coupling, decay_time |-> DecayTime,
         detection_filter |-> DetectionFilter, sca_trigger_mode |-> ScaTrigger]
  BY DEF Options
<1>2. CASE n = "termination"
  BY <1>1, <1>2 DEF Termination, FromZero
<1>3. CASE n = "attenuation"
  BY <1>1, <1>3 DEF Attenuation, FromZero
<1>4. CASE n = "coupling"
  BY <1>1, <1>4 DEF Coupling, FromZero
<1>5. CASE n = "decay_time"
  BY <1>1, <1>5 DEF DecayTime, FromZero
<1>6. CASE n = "detection_filter"
  BY <1>1, <1>6 DEF DetectionFilter, FromZero
<1>7. CASE n = "sca_trigger_mode"
  BY <1>1, <1>7 DEF ScaTrigger, FromZero
<1> QED
  BY <1>2, <1>3, <1>4, <1>5, <1>6, <1>7 DEF OptionNames

(* A device that was switched on has a value of its own in each parameter. *)
LEMMA FactoryTypes ==
  ASSUME NEW dev \in SUBSET Features
  PROVE  ParamTypes(Factory, dev)
<1> USE DEF NumberParams, OptionNames, Plain, BlankingValues, PulseValues,
   SpectrumValues, OffsetValues, OutputValues, Flags
<1>1. \A n \in NumberParams : Factory[n] = 0
  BY DEF Factory, Over
<1>2. Rounded(0) = 0
  BY HandlersAssumption DEF Rounded
<1>3. \A x \in OptionNames : \E u \in DOMAIN Options[dev][x] : Factory[x] = Options[dev][x][u]
  <2>1. /\ Options[dev]["termination"][0] = "1kohm" /\ Options[dev]["attenuation"][0] = "0dB"
        /\ Options[dev]["coupling"][0] = "ac" /\ Options[dev]["decay_time"][0] = "long"
        /\ Options[dev]["detection_filter"][2] = "midRate" /\ Options[dev]["sca_trigger_mode"][0] = "off"
        /\ 2 \in DOMAIN Options[dev]["detection_filter"]
    BY DEF Options, FromZero, Termination, Attenuation, Coupling, DecayTime, DetectionFilter, ScaTrigger
  <2>2. /\ Factory["termination"] = "1kohm" /\ Factory["attenuation"] = "0dB"
        /\ Factory["coupling"] = "ac" /\ Factory["decay_time"] = "long"
        /\ Factory["detection_filter"] = "midRate" /\ Factory["sca_trigger_mode"] = "off"
    BY DEF Factory, Over
  <2> QED
    BY <2>1, <2>2, OptionsApart
<1>4. Factory["veto"] = "off"
  BY DEF Factory, Over
<1>5. ASSUME NEW x \in DOMAIN Factory
      PROVE  Fits(x, Factory[x], dev)
  <2>1. x \in Flags => Factory[x] \in {0, 1}
    BY <1>1
  <2>2. x \in {"dacGain", "riseTime"} => Factory[x] = 0
    BY <1>1
  <2> QED
    BY <1>1, <1>2, <1>3, <1>4, <2>1, <2>2 DEF Fits
<1> QED
  BY <1>5 DEF ParamTypes

---------------------------------------------------------------------------
(* The handlers' arithmetic.                                               *)

LEMMA RoundedTwice ==
  ASSUME NEW v \in Int
  PROVE  Rounded(v) \in Int /\ Rounded(Rounded(v)) = Rounded(v)
<1>1. Tick \in Nat /\ Tick > 0
  BY HandlersAssumption
<1> DEFINE q == v \div Tick
<1>2. q \in Int
  BY <1>1
<1> HIDE DEF q
<1>3. (q * Tick) \div Tick = q
  BY <1>1, <1>2
<1> QED
  BY <1>1, <1>2, <1>3 DEF Rounded, q

(* A gain read back from the DAC is accepted and sets the DAC as it is.    *)
LEMMA DacGainTwice ==
  ASSUME NEW g \in GainMin .. GainMax
  PROVE  /\ DacGain(g) \in Int
         /\ GainReading(DacGain(g)) \in GainMin .. GainMax
         /\ DacGain(GainReading(DacGain(g))) = DacGain(g)
<1> USE DEF GainMin, GainMax, GainReading, GainTolerance, DacGain
<1>0. GainStep \in Int /\ 1 <= GainStep /\ GainStep <= 9
  BY HandlersAssumption
<1> DEFINE Fact(s) == LET d == (g \div s) * s
                          r == IF d < 10 /\ 10 - d < s + 1 THEN 10 ELSE d
                      IN  d \in Int /\ r \in 10 .. 160 /\ (r \div s) * s = d
<1>1. Fact(1) OBVIOUS
<1>2. Fact(2) OBVIOUS
<1>3. Fact(3) OBVIOUS
<1>4. Fact(4) OBVIOUS
<1>5. Fact(5) OBVIOUS
<1>6. Fact(6) OBVIOUS
<1>7. Fact(7) OBVIOUS
<1>8. Fact(8) OBVIOUS
<1>9. Fact(9) OBVIOUS
<1> HIDE DEF Fact
<1>10. Fact(GainStep)
  BY <1>0, <1>1, <1>2, <1>3, <1>4, <1>5, <1>6, <1>7, <1>8, <1>9
<1> QED
  BY <1>10 DEF Fact

(* A DAC at zero has no gain and is read as none.                          *)
LEMMA DacGainOfNone == DacGain(0) = 0 /\ GainReading(0) = 0
BY HandlersAssumption DEF DacGain, GainReading, GainMin, GainTolerance

(* The pixels of a buffer that were kept are kept again as they are.       *)
LEMMA PixelsTwice ==
  ASSUME NEW v \in Int
  PROVE  /\ PixelsPerBuffer(v) \in Int /\ PixelsPerBuffer(PixelsPerBuffer(v)) = PixelsPerBuffer(v)
         /\ v >= -1 => PixelsPerBuffer(v) >= -1
BY DEF PixelsPerBuffer, MaxPixelsPerBuffer

(* What is kept of a value is kept again as it is: a saved list is set up  *)
(* unchanged.                                                              *)
LEMMA KeptTwice ==
  ASSUME NEW name, NEW v \in Int
  PROVE  Kept(name, v) \in Int /\ Kept(name, Kept(name, v)) = Kept(name, v)
BY RoundedTwice, PixelsTwice DEF Kept

(* A handler accepts again what it kept of a value it accepted.            *)
LEMMA KeptIsAccepted ==
  ASSUME NEW name \in Names, NEW v \in Int, NEW dev, Accepted(name, v, dev)
  PROVE  Accepted(name, Kept(name, v), dev)
BY PixelsTwice DEF Kept, Accepted, OptionNames, AnalogLimits, ModeLimits, SpectrumLimits, GateLimits

(* A number is sent as a number, and a flag as 0 or 1.                     *)
LEMMA SentTwice ==
  ASSUME NEW name, NEW v \in Int
  PROVE  /\ Sent(name, v) \in Int
         /\ name \in SpectrumValues \cup {"reset_blanking_enable"} => Sent(name, v) \in {0, 1}
BY DEF Sent

---------------------------------------------------------------------------
(* What it means, value by value, that one is in force: InForce for given  *)
(* parameters, list and device.                                            *)
Enforced(name, p, list, sca, dev) ==
  IF name \in {"number_mca_channels", "mca_start_channel"}
  THEN Reading(name, p, list, dev) = list[name]
  ELSE \A w \in Range(Writes(name, list[name], list, sca, dev)) : p[w[1]] = w[2]

(* The property's InForce is Enforced of the present list and parameters.     *)
LEMMA InForceIs ==
  ASSUME NEW name
  PROVE  InForce(name) <=> Enforced(name, params, defaults, n_sca, device)
BY DEF InForce, Enforced

PresetOf(list) == PresetParam(list["preset_type"])

(* One write has taken effect when its parameter is what it says.          *)
LEMMA RangeOfOne ==
  ASSUME NEW p, NEW a, NEW b
  PROVE  (\A w \in Range(<<<<a, b>>>>) : p[w[1]] = w[2]) <=> p[a] = b
BY OneRange

(* Two writes have taken effect when both parameters are.                  *)
LEMMA RangeOfTwo ==
  ASSUME NEW p, NEW a, NEW b, NEW c, NEW d
  PROVE  (\A w \in Range(<<<<a, b>>, <<c, d>>>>) : p[w[1]] = w[2]) <=> p[a] = b /\ p[c] = d
BY TwoRange

(* No write has always taken effect.                                       *)
LEMMA RangeOfNone ==
  ASSUME NEW p
  PROVE  (\A w \in Range(<< >>) : p[w[1]] = w[2])
BY EmptyRange

(* What it is for each kind of value to be in force.                       *)
LEMMA ForceIs ==
  ASSUME NEW name, NEW p, NEW list, NEW sca, NEW dev
  PROVE  /\ name \in OptionNames =>
              (Enforced(name, p, list, sca, dev) <=> p[name] = Options[dev][name][list[name]])
         /\ name \in Plain => (Enforced(name, p, list, sca, dev) <=> p[name] = Sent(name, list[name]))
         /\ name = "analog_gain" =>
              (Enforced(name, p, list, sca, dev) <=> p["dacGain"] = DacGain(list[name]))
         /\ name = "analog_offset" =>
              (Enforced(name, p, list, sca, dev) <=> p["dacOffset"] = list[name] - DacOffsetMin)
         /\ name = "detector_polarity" =>
              (Enforced(name, p, list, sca, dev) <=> p["invert"] = Inverted(list[name]))
         /\ name = "risetime_optimization" =>
              (Enforced(name, p, list, sca, dev) <=> p["riseTime"] = Rounded(list[name]))
         /\ name = "preset_value" =>
              (Enforced(name, p, list, sca, dev) <=> p[PresetOf(list)] = list[name])
         /\ name = "number_mca_channels" =>
              (Enforced(name, p, list, sca, dev) <=> p["highIndex"] - p["lowIndex"] + 1 = list[name])
         /\ name = "mca_start_channel" =>
              (Enforced(name, p, list, sca, dev) <=> p["lowIndex"] = list[name])
         /\ name = "scale_factor" =>
              (Enforced(name, p, list, sca, dev) <=>
                 /\ p["coarseBinScaling"] = Coarse(list[name])
                 /\ p["scaleFactor"] = <<list[name], Coarse(list[name])>>)
         /\ name = "mca_refresh" =>
              (Enforced(name, p, list, sca, dev) <=> p["refreshRate"] = list[name])
         /\ name = "number_of_scas" /\ sca = list[name] /\ sca \in 0 .. MaxScas =>
              Enforced(name, p, list, sca, dev)
         /\ name = "sca0" => (Enforced(name, p, list, sca, dev) <=> p["region_01"] = list[name])
         /\ name = "sca1" => (Enforced(name, p, list, sca, dev) <=> p["region_02"] = list[name])
         /\ name \in Unsent => Enforced(name, p, list, sca, dev)
<1> DEFINE w == Writes(name, list[name], list, sca, dev)
<1>0. name \notin {"number_mca_channels", "mca_start_channel"} =>
        (Enforced(name, p, list, sca, dev) <=> \A m \in Range(w) : p[m[1]] = m[2])
  BY DEF Enforced
<1>1. name \in OptionNames =>
        (Enforced(name, p, list, sca, dev) <=> p[name] = Options[dev][name][list[name]])
  BY <1>0, SentNames, RangeOfOne, KindsApart DEF Alone
<1>2. name \in Plain => (Enforced(name, p, list, sca, dev) <=> p[name] = Sent(name, list[name]))
  BY <1>0, SentNames, RangeOfOne, KindsApart DEF Alone
<1>3. name = "analog_gain" => (Enforced(name, p, list, sca, dev) <=> p["dacGain"] = DacGain(list[name]))
  BY <1>0, SentNames, RangeOfOne
<1>4. name = "analog_offset" =>
              (Enforced(name, p, list, sca, dev) <=> p["dacOffset"] = list[name] - DacOffsetMin)
  BY <1>0, SentNames, RangeOfOne
<1>5. name = "detector_polarity" =>
              (Enforced(name, p, list, sca, dev) <=> p["invert"] = Inverted(list[name]))
  BY <1>0, SentNames, RangeOfOne
<1>6. name = "risetime_optimization" =>
              (Enforced(name, p, list, sca, dev) <=> p["riseTime"] = Rounded(list[name]))
  BY <1>0, SentNames, RangeOfOne
<1>7. name = "preset_value" =>
              (Enforced(name, p, list, sca, dev) <=> p[PresetOf(list)] = list[name])
  BY <1>0, SentNames, RangeOfOne DEF PresetOf, AcqValue
<1>8. name = "number_mca_channels" =>
              (Enforced(name, p, list, sca, dev) <=> p["highIndex"] - p["lowIndex"] + 1 = list[name])
  BY KindsApart DEF Enforced, Reading, Alone
<1>9. name = "mca_start_channel" =>
              (Enforced(name, p, list, sca, dev) <=> p["lowIndex"] = list[name])
  BY KindsApart DEF Enforced, Reading, Alone
<1>10. name = "scale_factor" =>
              (Enforced(name, p, list, sca, dev) <=>
                 /\ p["coarseBinScaling"] = Coarse(list[name])
                 /\ p["scaleFactor"] = <<list[name], Coarse(list[name])>>)
  BY <1>0, SentNames, RangeOfTwo DEF ScaleWrites
<1>11. name = "mca_refresh" =>
              (Enforced(name, p, list, sca, dev) <=> p["refreshRate"] = list[name])
  BY <1>0, SentNames, RangeOfOne
<1>12. name = "number_of_scas" /\ sca = list[name] /\ sca \in 0 .. MaxScas =>
              Enforced(name, p, list, sca, dev)
  <2>1. SUFFICES ASSUME name = "number_of_scas", sca = list[name], sca \in 0 .. MaxScas
                 PROVE  Range(w) = {}
    BY <1>0
  <2>2. sca .. sca - 1 = {}
    BY <2>1 DEF MaxScas
  <2> QED
    BY <2>1, <2>2, SentNames, RemovedRange
<1>13. name = "sca0" => (Enforced(name, p, list, sca, dev) <=> p["region_01"] = list[name])
  BY <1>0, SentNames, RangeOfOne
<1>14. name = "sca1" => (Enforced(name, p, list, sca, dev) <=> p["region_02"] = list[name])
  BY <1>0, SentNames, RangeOfOne
<1>15. name \in Unsent => Enforced(name, p, list, sca, dev)
  BY <1>0, SentNames, RangeOfNone, KindsApart DEF Alone
<1> QED
  BY <1>1, <1>2, <1>3, <1>4, <1>5, <1>6, <1>7, <1>8, <1>9, <1>10, <1>11, <1>12, <1>13, <1>14, <1>15

(* The parameters a value in force is about.                               *)
ParamsOf(name, list) ==
  CASE name = "analog_gain"            -> {"dacGain"}
    [] name = "analog_offset"          -> {"dacOffset"}
    [] name = "detector_polarity"      -> {"invert"}
    [] name = "risetime_optimization"  -> {"riseTime"}
    [] name = "preset_value"           -> {PresetOf(list)}
    [] name = "number_mca_channels"    -> {"highIndex", "lowIndex"}
    [] name = "mca_start_channel"      -> {"lowIndex"}
    [] name = "scale_factor"           -> {"coarseBinScaling", "scaleFactor"}
    [] name = "mca_refresh"            -> {"refreshRate"}
    [] name = "number_of_scas"         -> {}
    [] name = "sca0"                   -> {"region_01"}
    [] name = "sca1"                   -> {"region_02"}
    [] OTHER                           -> {name} \cap (OptionNames \cup Plain)

(* A value stays in force as long as neither its parameters nor its entry  *)
(* in the list, nor the type of the preset, are changed.                   *)
LEMMA ForceKept ==
  ASSUME NEW name \in Names, NEW p, NEW q, NEW list, NEW then, NEW sca, NEW new, NEW dev,
         Enforced(name, p, list, sca, dev), then[name] = list[name],
         name = "preset_value" => then["preset_type"] = list["preset_type"],
         \A x \in ParamsOf(name, list) : q[x] = p[x],
         new = then["number_of_scas"], new \in 0 .. MaxScas
  PROVE  Enforced(name, q, then, new, dev)
<1>1. CASE name \in OptionNames \cup Plain
  <2>1. name \in ParamsOf(name, list)
    BY <1>1, KindsApart, TheScas DEF ParamsOf, Alone
  <2> QED
    BY <1>1, <2>1, ForceIs
<1>2. CASE name \in Unsent
  BY <1>2, ForceIs
<1>3. CASE name = "analog_gain"
  BY <1>3, ForceIs DEF ParamsOf
<1>4. CASE name = "analog_offset"
  BY <1>4, ForceIs DEF ParamsOf
<1>5. CASE name = "detector_polarity"
  BY <1>5, ForceIs DEF ParamsOf
<1>6. CASE name = "risetime_optimization"
  BY <1>6, ForceIs DEF ParamsOf
<1>7. CASE name = "preset_value"
  BY <1>7, ForceIs DEF ParamsOf, PresetOf
<1>8. CASE name = "number_mca_channels"
  BY <1>8, ForceIs DEF ParamsOf
<1>9. CASE name = "mca_start_channel"
  BY <1>9, ForceIs DEF ParamsOf
<1>10. CASE name = "scale_factor"
  BY <1>10, ForceIs DEF ParamsOf
<1>11. CASE name = "mca_refresh"
  BY <1>11, ForceIs DEF ParamsOf
<1>12. CASE name = "number_of_scas"
  BY <1>12, ForceIs
<1>13. CASE name = "sca0"
  BY <1>13, ForceIs DEF ParamsOf
<1>14. CASE name = "sca1"
  BY <1>14, ForceIs DEF ParamsOf
<1> QED
  BY <1>1, <1>2, <1>3, <1>4, <1>5, <1>6, <1>7, <1>8, <1>9, <1>10, <1>11, <1>12, <1>13, <1>14,
     TheNames, TheScas DEF Kinds

---------------------------------------------------------------------------
(* After some writes, and after any first part of them, a parameter is     *)
(* what it was or what one of the writes for it says.                      *)
Outcome(p, then, sent) ==
  /\ DOMAIN then = DOMAIN p
  /\ \A x \in DOMAIN p : then[x] = p[x] \/ \E m \in sent : m[1] = x /\ then[x] = m[2]

(* All of the writes leave an outcome of them.                             *)
LEMMA AfterOutcome ==
  ASSUME NEW p, NEW X, NEW w \in Seq(X)
  PROVE  Outcome(p, AfterWrites(p, w), Range(w))
<1> SUFFICES ASSUME NEW x \in DOMAIN p
             PROVE  \/ AfterWrites(p, w)[x] = p[x]
                    \/ \E m \in Range(w) : m[1] = x /\ AfterWrites(p, w)[x] = m[2]
  BY AfterDomain DEF Outcome
<1> QED
  BY AfterUntouched, AfterSent

(* So does any first part of them, where a handler gives up.               *)
LEMMA StageOutcome ==
  ASSUME NEW p, NEW X, NEW w \in Seq(X), NEW then \in Range(Stages(p, w))
  PROVE  Outcome(p, then, Range(w))
<1>1. PICK n \in 0 .. Len(w) : then = AfterWrites(p, SubSeq(w, 1, n))
  BY DEF Range, Stages
<1>2. SubSeq(w, 1, n) \in Seq(X) /\ Range(SubSeq(w, 1, n)) \subseteq Range(w)
  <2>1. CASE n = 0
    BY <2>1, EmptyRange, SubSeqEmpty, EmptySeq DEF Range
  <2>2. CASE n # 0
    <3>1. /\ SubSeq(w, 1, n) \in Seq(X) /\ Len(SubSeq(w, 1, n)) = n
          /\ \A i \in 1 .. n : SubSeq(w, 1, n)[i] = w[i]
      BY <2>2, LenProperties, SubSeqProperties
    <3> QED
      BY <2>2, <3>1, LenProperties DEF Range
  <2> QED
    BY <2>1, <2>2
<1>3. Outcome(p, then, Range(SubSeq(w, 1, n)))
  BY <1>1, <1>2, AfterOutcome
<1> QED
  BY <1>2, <1>3 DEF Outcome

(* Writes that fit the parameters leave parameters that fit.               *)
LEMMA OutcomeFits ==
  ASSUME NEW p, NEW then, NEW sent, NEW dev, Outcome(p, then, sent), ParamTypes(p, dev),
         \A m \in sent : Fits(m[1], m[2], dev)
  PROVE  ParamTypes(then, dev)
<1>1. ASSUME NEW x \in DOMAIN p
      PROVE  Fits(x, then[x], dev)
  <2>1. Fits(x, p[x], dev)
    BY DEF ParamTypes
  <2>2. CASE then[x] = p[x]
    BY <2>1, <2>2
  <2>3. CASE \E m \in sent : m[1] = x /\ then[x] = m[2]
    BY <2>3
  <2> QED
    BY <2>2, <2>3 DEF Outcome
<1> QED
  BY <1>1 DEF ParamTypes, Outcome

(* The parameters a handler sends, and that what it sends fits them.       *)
Written(name, value, list, old) ==
  CASE name = "number_mca_channels" -> {"highIndex"}
    [] name = "mca_start_channel"   -> {"lowIndex", "highIndex"}
    [] name = "number_of_scas"      -> {Region(i) : i \in value .. old - 1}
    [] OTHER                        -> ParamsOf(name, list)

PresetParams == {"fixedTime", "fixedOutputCount", "fixedInputCount"}

(* The parameter of a preset is one of the three limits of a run.          *)
LEMMA PresetIsNumber ==
  ASSUME NEW list, ListTypes(list)
  PROVE  PresetOf(list) \in PresetParams
<1>1. list["preset_type"] \in {0, 1, 3, 4}
  BY DEF ListTypes, ModeLimits
<1> QED
  BY <1>1 DEF PresetOf, PresetParam, PresetParams

Takeable(name, value, dev) ==
  /\ name \in Names /\ value \in Int /\ Accepted(name, value, dev)
  /\ name = "number_of_scas" => value >= 0

(* One write that fits is a sequence of writes that fit.                   *)
LEMMA OneFits ==
  ASSUME NEW a, NEW b, NEW dev, NEW S, NEW w, w = <<<<a, b>>>>, Fits(a, b, dev), a \in S
  PROVE  w \in Seq(Range(w)) /\ \A m \in Range(w) : m[1] \in S /\ Fits(m[1], m[2], dev)
BY OneRange

(* What a handler accepts, value by value.                                 *)
LEMMA LimitNames ==
  /\ DOMAIN AnalogLimits = {"analog_gain", "analog_offset"}
  /\ DOMAIN ModeLimits = {"mapping_mode", "preset_type"}
  /\ DOMAIN SpectrumLimits = {"number_mca_channels", "scale_factor"}
  /\ DOMAIN GateLimits = {"pixel_advance_mode", "input_logic_polarity", "gate_ignore"}
BY DEF AnalogLimits, ModeLimits, SpectrumLimits, GateLimits

(* What a handler accepts, by the kind of the value.                       *)
LEMMA AcceptedIs ==
  ASSUME NEW name, NEW value, NEW dev
  PROVE  /\ name \in OptionNames => (Accepted(name, value, dev) <=> value \in DOMAIN Options[dev][name])
         /\ name \in DOMAIN AnalogLimits => (Accepted(name, value, dev) <=> value \in AnalogLimits[name])
         /\ name \in DOMAIN ModeLimits => (Accepted(name, value, dev) <=> value \in ModeLimits[name])
         /\ name \in DOMAIN SpectrumLimits => (Accepted(name, value, dev) <=> value \in SpectrumLimits[name])
         /\ name \in DOMAIN GateLimits => (Accepted(name, value, dev) <=> value \in GateLimits[name])
         /\ name = "number_of_scas" => (Accepted(name, value, dev) <=> value <= MaxScas)
         /\ name = "num_map_pixels" => (Accepted(name, value, dev) <=> value >= 0)
         /\ name = "num_map_pixels_per_buffer" => (Accepted(name, value, dev) <=> value >= -1)
<1> USE DEF OptionNames, AnalogLimits, ModeLimits, SpectrumLimits, GateLimits
<1>1. name \in OptionNames => (Accepted(name, value, dev) <=> value \in DOMAIN Options[dev][name])
  BY SMTT(30) DEF Accepted
<1>2. name \in DOMAIN AnalogLimits => (Accepted(name, value, dev) <=> value \in AnalogLimits[name])
  BY SMTT(30) DEF Accepted
<1>3. name \in DOMAIN ModeLimits => (Accepted(name, value, dev) <=> value \in ModeLimits[name])
  BY SMTT(30) DEF Accepted
<1>4. name \in DOMAIN SpectrumLimits => (Accepted(name, value, dev) <=> value \in SpectrumLimits[name])
  BY SMTT(30) DEF Accepted
<1>5. name \in DOMAIN GateLimits => (Accepted(name, value, dev) <=> value \in GateLimits[name])
  BY SMTT(30) DEF Accepted
<1>6. /\ name = "number_of_scas" => (Accepted(name, value, dev) <=> value <= MaxScas)
      /\ name = "num_map_pixels" => (Accepted(name, value, dev) <=> value >= 0)
      /\ name = "num_map_pixels_per_buffer" => (Accepted(name, value, dev) <=> value >= -1)
  BY SMTT(30) DEF Accepted
<1> QED
  BY <1>1, <1>2, <1>3, <1>4, <1>5, <1>6

(* What a handler sends for a value it accepts fits the parameters it is   *)
(* for.                                                                    *)
LEMMA SentFits ==
  ASSUME NEW name, NEW value, NEW list, NEW old \in 0 .. MaxScas, NEW dev \in SUBSET Features,
         Takeable(name, value, dev), ListTypes(list)
  PROVE  LET w == Writes(name, value, list, old, dev)
         IN  /\ w \in Seq(Range(w))
             /\ \A m \in Range(w) : m[1] \in Written(name, value, list, old) /\ Fits(m[1], m[2], dev)
<1> DEFINE w == Writes(name, value, list, old, dev)
           S == Written(name, value, list, old)
<1> SUFFICES w \in Seq(Range(w)) /\ \A m \in Range(w) : m[1] \in S /\ Fits(m[1], m[2], dev)
  OBVIOUS
<1> HIDE DEF S, w
<1>0. value \in Int
  BY DEF Takeable
<1>k. NumberParams = {"dc_offset", "sca_pulse_duration", "reset_blanking_enable", "reset_blanking_threshold",
        "reset_blanking_presamples", "reset_blanking_postsamples", "detection_threshold",
        "min_pulse_pair_separation", "mca_spectrum_accepted", "mca_spectrum_rejected",
        "dacGain", "dacOffset", "invert", "riseTime", "fixedTime", "fixedInputCount",
              "fixedOutputCount", "lowIndex", "highIndex"}
      /\ Flags = {"mca_spectrum_accepted", "mca_spectrum_rejected", "reset_blanking_enable", "invert"}
  BY DEF NumberParams, Plain, BlankingValues, PulseValues, SpectrumValues, OffsetValues, OutputValues, Flags
<1>l. list["mca_start_channel"] \in Int /\ list["number_mca_channels"] \in Int
  BY DEF ListTypes, DEFAULT_ACQ_VALUES
<1>1. CASE name \in OptionNames
  <2>1. w = <<<<name, Options[dev][name][value]>>>>
    BY <1>1, SentNames DEF w
  <2>2. value \in DOMAIN Options[dev][name]
    BY <1>1, AcceptedIs DEF Takeable
  <2>3. Fits(name, Options[dev][name][value], dev)
    BY <1>1, <2>2, <1>k DEF Fits, OptionNames
  <2>4. name \in S
    BY <1>1, KindsApart, TheScas DEF S, Written, ParamsOf, Alone
  <2> QED
    BY <2>1, <2>3, <2>4, OneFits
<1>2. CASE name \in Plain
  <2>1. w = <<<<name, Sent(name, value)>>>>
    BY <1>2, SentNames DEF w
  <2>2. name \in NumberParams /\ name \notin OptionNames /\ name \notin {"dacGain", "riseTime", "veto", "invert"}
    BY <1>2, KindsApart DEF NumberParams, Plain, BlankingValues, PulseValues, SpectrumValues, OffsetValues,
       OutputValues
  <2>3. Fits(name, Sent(name, value), dev)
    BY <1>0, <1>2, <2>2, SentTwice DEF Fits, Flags
  <2>4. name \in S
    BY <1>2, KindsApart, TheScas DEF S, Written, ParamsOf, Alone
  <2> QED
    BY <2>1, <2>3, <2>4, OneFits
<1>3. CASE name \in Unsent
  <2>1. w = << >>
    BY <1>3, SentNames DEF w
  <2> QED
    BY <2>1, EmptyRange
<1>4. CASE name = "analog_gain"
  <2>0. w = <<<<"dacGain", DacGain(value)>>>>
    BY <1>4, SentNames DEF w
  <2>1. value \in GainMin .. GainMax
    BY <1>4, AcceptedIs, LimitNames DEF Takeable, AnalogLimits
  <2>2. Fits("dacGain", DacGain(value), dev)
    BY <2>1, DacGainTwice, <1>k DEF Fits, OptionNames
  <2>3. "dacGain" \in S
    BY <1>4 DEF S, Written, ParamsOf
  <2> QED
    BY <2>0, <2>2, <2>3, OneFits
<1>5. CASE name = "analog_offset"
  <2>0. w = <<<<"dacOffset", value - DacOffsetMin>>>>
    BY <1>5, SentNames DEF w
  <2>2. Fits("dacOffset", value - DacOffsetMin, dev)
    BY <1>0, <1>k DEF Fits, OptionNames, DacOffsetMin
  <2>3. "dacOffset" \in S
    BY <1>5 DEF S, Written, ParamsOf
  <2> QED
    BY <2>0, <2>2, <2>3, OneFits, SMTT(20)
<1>6. CASE name = "detector_polarity"
  <2>0. w = <<<<"invert", Inverted(value)>>>>
    BY <1>6, SentNames DEF w
  <2>2. Fits("invert", Inverted(value), dev)
    BY <1>0, <1>k DEF Fits, OptionNames, Inverted
  <2>3. "invert" \in S
    BY <1>6 DEF S, Written, ParamsOf
  <2> QED
    BY <2>0, <2>2, <2>3, OneFits
<1>7. CASE name = "risetime_optimization"
  <2>0. w = <<<<"riseTime", Rounded(value)>>>>
    BY <1>7, SentNames DEF w
  <2>2. Fits("riseTime", Rounded(value), dev)
    BY <1>0, <1>k, RoundedTwice DEF Fits, OptionNames
  <2>3. "riseTime" \in S
    BY <1>7 DEF S, Written, ParamsOf
  <2> QED
    BY <2>0, <2>2, <2>3, OneFits
<1>8. CASE name = "preset_value"
  <2>0. w = <<<<PresetOf(list), value>>>>
    BY <1>8, SentNames DEF w, PresetOf, AcqValue
  <2>2. Fits(PresetOf(list), value, dev)
    BY <1>0, <1>k, PresetIsNumber DEF Fits, OptionNames, PresetParams
  <2>3. PresetOf(list) \in S
    BY <1>8 DEF S, Written, ParamsOf
  <2> QED
    BY <2>0, <2>2, <2>3, OneFits
<1>9. CASE name = "number_mca_channels"
  <2>0. w = <<<<"highIndex", list["mca_start_channel"] + value - 1>>>>
    BY <1>9, SentNames DEF w, HighIndex, AcqValue
  <2>2. Fits("highIndex", list["mca_start_channel"] + value - 1, dev)
    BY <1>0, <1>k, <1>l DEF Fits, OptionNames
  <2>3. "highIndex" \in S
    BY <1>9 DEF S, Written
  <2> QED
    BY <2>0, <2>2, <2>3, OneFits
<1>10. CASE name = "mca_start_channel"
  <2>0. w = <<<<"lowIndex", value>>, <<"highIndex", value + list["number_mca_channels"] - 1>>>>
    BY <1>10, SentNames DEF w, HighIndex, StartWrites, AcqValue
  <2>2. /\ Fits("highIndex", value + list["number_mca_channels"] - 1, dev)
        /\ Fits("lowIndex", value, dev)
    BY <1>0, <1>k, <1>l DEF Fits, OptionNames
  <2>3. "lowIndex" \in S /\ "highIndex" \in S
    BY <1>10 DEF S, Written
  <2> QED
    BY <2>0, <2>2, <2>3, TwoRange
<1>11. CASE name = "scale_factor"
  <2>0. w = <<<<"coarseBinScaling", Coarse(value)>>, <<"scaleFactor", <<value, Coarse(value)>>>>>>
    BY <1>11, SentNames DEF w, ScaleWrites
  <2>2. /\ Fits("coarseBinScaling", Coarse(value), dev)
        /\ Fits("scaleFactor", <<value, Coarse(value)>>, dev)
    BY <1>k DEF Fits, OptionNames
  <2>3. "coarseBinScaling" \in S /\ "scaleFactor" \in S
    BY <1>11 DEF S, Written, ParamsOf
  <2> QED
    BY <2>0, <2>2, <2>3, TwoRange
<1>12. CASE name = "mca_refresh"
  <2>0. w = <<<<"refreshRate", value>>>>
    BY <1>12, SentNames DEF w
  <2>2. Fits("refreshRate", value, dev)
    BY <1>k DEF Fits, OptionNames
  <2>3. "refreshRate" \in S
    BY <1>12 DEF S, Written, ParamsOf
  <2> QED
    BY <2>0, <2>2, <2>3, OneFits
<1>13. CASE name = "sca0"
  <2>0. w = <<<<"region_01", value>>>>
    BY <1>13, SentNames DEF w
  <2>2. Fits("region_01", value, dev)
    BY <1>k DEF Fits, OptionNames
  <2>3. "region_01" \in S
    BY <1>13 DEF S, Written, ParamsOf
  <2> QED
    BY <2>0, <2>2, <2>3, OneFits
<1>16. CASE name = "sca1"
  <2>0. w = <<<<"region_02", value>>>>
    BY <1>16, SentNames DEF w
  <2>2. Fits("region_02", value, dev)
    BY <1>k DEF Fits, OptionNames
  <2>3. "region_02" \in S
    BY <1>16 DEF S, Written, ParamsOf
  <2> QED
    BY <2>0, <2>2, <2>3, OneFits
<1>14. CASE name = "number_of_scas"
  <2>1. w = ScasRemoved(value, old)
    BY <1>14, SentNames DEF w
  <2>2. value \in 0 .. MaxScas
    BY <1>14, <1>0, AcceptedIs DEF Takeable, MaxScas
  <2>3. w \in Seq({<<"region_01", 0>>, <<"region_02", 0>>}) /\ Range(w) = {<<Region(i), 0>> : i \in value .. old - 1}
    BY <2>1, <2>2, RemovedRange
  <2>4. w \in Seq(Range(w))
    BY <2>3, SeqOfRange
  <2>5. ASSUME NEW m \in Range(w)
        PROVE  m[1] \in S /\ Fits(m[1], m[2], dev)
    <3>1. PICK i \in value .. old - 1 : m = <<Region(i), 0>>
      BY <2>3
    <3>2. Region(i) \in {"region_01", "region_02"}
      <4>1. i \in {0, 1}
        BY <2>2 DEF MaxScas
      <4> QED
        BY <4>1, TheScas
    <3>3. Fits(Region(i), 0, dev)
      BY <3>2, <1>k DEF Fits, OptionNames
    <3> QED
      BY <1>14, <3>1, <3>3 DEF S, Written
  <2> QED
    BY <2>4, <2>5
<1>15. name \in Kinds
  BY TheNames DEF Takeable
<1> QED
  BY <1>1, <1>2, <1>3, <1>4, <1>5, <1>6, <1>7, <1>8, <1>9, <1>10, <1>11, <1>12, <1>13, <1>14, <1>15,
     <1>16, TheScas DEF Kinds

---------------------------------------------------------------------------
(* The list after a value was set or read.                                 *)
LEMMA PutIs ==
  ASSUME NEW list, NEW name, NEW value, NEW then, then = Put(list, name, value)
  PROVE  then[name] = value /\ \A n \in DOMAIN list : n # name => then[n] = list[n]
BY DEF Put, Over

(* Putting a value in a list adds no other.                                *)
LEMMA PutDomain ==
  ASSUME NEW list, NEW name, NEW value
  PROVE  DOMAIN Put(list, name, value) = DOMAIN list \cup {name}
BY DEF Put, Over

Gone(name, value, old) ==
  IF name = "number_of_scas" THEN {Sca(i) : i \in value .. old - 1} ELSE {}

(* Only limits of SCAs go.                                                 *)
LEMMA GoneAreScas ==
  ASSUME NEW name, NEW value \in Int, NEW old \in 0 .. MaxScas, name = "number_of_scas" => value >= 0
  PROVE  Gone(name, value, old) \subseteq ScaNames
<1>1. ASSUME NEW i \in value .. old - 1, name = "number_of_scas"
      PROVE  Sca(i) \in ScaNames
  <2>1. i \in 0 .. MaxScas - 1
    BY <1>1 DEF MaxScas
  <2> QED
    BY <2>1 DEF ScaNames
<1> QED
  BY <1>1 DEF Gone

(* A handler puts its value in the list and takes out the limits that go.  *)
LEMMA UpdatedDomain ==
  ASSUME NEW list, NEW name, NEW value, NEW old
  PROVE  DOMAIN Updated(list, name, value, old) = (DOMAIN list \ Gone(name, value, old)) \cup {name}
<1>1. DOMAIN Dropped(list, name, value, old) = DOMAIN list \ Gone(name, value, old)
  BY DEF Dropped, Gone
<1> QED
  BY <1>1, PutDomain DEF Updated

(* So a value of the list is the handler's or was there and does not go.   *)
LEMMA UpdatedHas ==
  ASSUME NEW list, NEW name, NEW value, NEW old
  PROVE  \A n \in DOMAIN Updated(list, name, value, old) :
           n # name => n \in DOMAIN list \ Gone(name, value, old)
<1>1. DOMAIN Updated(list, name, value, old) = (DOMAIN list \ Gone(name, value, old)) \cup {name}
  BY UpdatedDomain
<1> QED
  BY <1>1

(* It leaves the other values of the list as they were.                    *)
LEMMA UpdatedIs ==
  ASSUME NEW list, NEW name, NEW value, NEW old, NEW then, then = Updated(list, name, value, old)
  PROVE  /\ then[name] = Kept(name, value)
         /\ \A n \in DOMAIN list \ Gone(name, value, old) : n # name => then[n] = list[n]
<1> DEFINE rest == Dropped(list, name, value, old)
           kept == Kept(name, value)
<1>1. \A n \in DOMAIN list \ Gone(name, value, old) : n \in DOMAIN rest /\ rest[n] = list[n]
  BY DEF Dropped, Gone
<1>2. then = Put(rest, name, kept)
  BY DEF Updated
<1> HIDE DEF rest, kept
<1>3. then[name] = kept /\ \A n \in DOMAIN rest : n # name => then[n] = rest[n]
  BY <1>2, PutIs
<1> QED
  BY <1>1, <1>3 DEF kept

(* The values that are always in a list.                                   *)
LEMMA ListHas ==
  ASSUME NEW list, ListTypes(list)
  PROVE  /\ {"mapping_mode", "preset_type", "pixel_advance_mode", "input_logic_polarity", "gate_ignore",
             "number_of_scas", "mca_start_channel", "number_mca_channels", "mca_refresh",
             "auto_dc_offset", "detector_polarity", "preset_value", "scale_factor"} \subseteq DOMAIN list
         /\ DOMAIN list \subseteq Names
         /\ \A n \in DOMAIN list : list[n] \in Int /\ Kept(n, list[n]) = list[n]
         /\ list["mapping_mode"] \in 0 .. 3 /\ list["preset_type"] \in {0, 1, 3, 4}
         /\ list["pixel_advance_mode"] \in {0, 1} /\ list["input_logic_polarity"] \in {0, 1}
         /\ list["gate_ignore"] \in {0, 1} /\ list["number_of_scas"] \in 0 .. MaxScas
BY DEF ListTypes, DEFAULT_ACQ_VALUES, ModeLimits, GateLimits

(* One value more in a list, or one changed, leaves a list of values.      *)
LEMMA ChangeTypes ==
  ASSUME NEW list, ListTypes(list), NEW then, NEW name \in Names, NEW value,
         DOMAIN DEFAULT_ACQ_VALUES \subseteq DOMAIN then, DOMAIN then \subseteq DOMAIN list \cup {name},
         then[name] = value, \A n \in DOMAIN then : n # name => then[n] = list[n],
         value \in Int, Kept(name, value) = value,
         name \in DOMAIN ModeLimits => value \in ModeLimits[name],
         name \in DOMAIN GateLimits => value \in GateLimits[name],
         name = "number_of_scas" => value \in 0 .. MaxScas
  PROVE  ListTypes(then)
<1>1. DOMAIN then \subseteq Names
  BY DEF ListTypes
<1>2. \A n \in DOMAIN then : then[n] \in Int /\ Kept(n, then[n]) = then[n]
  BY DEF ListTypes
<1>3. DOMAIN ModeLimits \cup DOMAIN GateLimits \cup {"number_of_scas"} \subseteq DOMAIN then
  BY LimitNames DEF DEFAULT_ACQ_VALUES
<1>4. \A n \in DOMAIN ModeLimits : then[n] \in ModeLimits[n]
  BY <1>3 DEF ListTypes
<1>5. \A n \in DOMAIN GateLimits : then[n] \in GateLimits[n]
  BY <1>3 DEF ListTypes
<1>6. then["number_of_scas"] \in 0 .. MaxScas
  BY <1>3 DEF ListTypes
<1> QED
  BY <1>1, <1>2, <1>4, <1>5, <1>6 DEF ListTypes

(* What a handler kept of a value it accepted is within the limits of a    *)
(* list.                                                                   *)
LEMMA TakeableIs ==
  ASSUME NEW name, NEW value, NEW dev, Takeable(name, value, dev)
  PROVE  /\ name \in DOMAIN ModeLimits => Kept(name, value) \in ModeLimits[name]
         /\ name \in DOMAIN GateLimits => Kept(name, value) \in GateLimits[name]
         /\ name = "number_of_scas" => Kept(name, value) = value /\ value \in 0 .. MaxScas
<1>1. name \in DOMAIN ModeLimits \cup DOMAIN GateLimits \cup {"number_of_scas"} => Kept(name, value) = value
  BY LimitNames DEF Kept
<1> QED
  BY <1>1, AcceptedIs DEF Takeable, MaxScas

(* A list stays a list of values when a handler has put in what it         *)
(* accepted.                                                               *)
LEMMA UpdatedTypes ==
  ASSUME NEW list, ListTypes(list), NEW name, NEW value, NEW dev, Takeable(name, value, dev),
         NEW old \in 0 .. MaxScas
  PROVE  ListTypes(Updated(list, name, value, old))
<1> DEFINE then == Updated(list, name, value, old)
           kept == Kept(name, value)
<1> HIDE DEF then, kept
<1>1. Gone(name, value, old) \cap DOMAIN DEFAULT_ACQ_VALUES = {}
  <2>1. Gone(name, value, old) \subseteq {"sca0", "sca1"}
    BY GoneAreScas, TheScas DEF Takeable
  <2> QED
    BY <2>1 DEF DEFAULT_ACQ_VALUES
<1>0. then = Updated(list, name, value, old) /\ kept = Kept(name, value)
  BY DEF then, kept
<1>2. DOMAIN then = (DOMAIN list \ Gone(name, value, old)) \cup {name}
  BY <1>0, UpdatedDomain
<1>8. then[name] = kept /\ \A n \in DOMAIN list \ Gone(name, value, old) : n # name => then[n] = list[n]
  BY <1>0, UpdatedIs
<1>3. DOMAIN DEFAULT_ACQ_VALUES \subseteq DOMAIN then /\ DOMAIN then \subseteq DOMAIN list \cup {name}
  BY <1>1, <1>2 DEF ListTypes
<1>4. kept \in Int /\ Kept(name, kept) = kept
  BY KeptTwice DEF Takeable, kept
<1>7. /\ name \in DOMAIN ModeLimits => kept \in ModeLimits[name]
      /\ name \in DOMAIN GateLimits => kept \in GateLimits[name]
      /\ name = "number_of_scas" => kept \in 0 .. MaxScas
  BY TakeableIs DEF kept
<1>5. name \in Names
  BY DEF Takeable
<1>6. ListTypes(then)
  BY <1>2, <1>8, <1>3, <1>4, <1>5, <1>7, ChangeTypes
<1> QED
  BY <1>6 DEF then

---------------------------------------------------------------------------
(* A value that is set writes a parameter of another value in two cases    *)
(* only: the start of the spectrum writes its end, and the number of SCAs  *)
(* the limits of those that go.                                            *)
LEMMA WrittenApart ==
  ASSUME NEW name \in Names, NEW value \in Int, NEW list, ListTypes(list), NEW old \in 0 .. MaxScas,
         NEW n \in Names, n # name, NEW x \in ParamsOf(n, list), x \in Written(name, value, list, old),
         name = "number_of_scas" => value >= 0
  PROVE  \/ name = "mca_start_channel" /\ n = "number_mca_channels"
         \/ name = "number_of_scas" /\ n \in Gone(name, value, old)
<1> USE DEF OptionNames, Plain, BlankingValues, PulseValues, SpectrumValues, OffsetValues, OutputValues
<1>1. PresetOf(list) \in PresetParams
  BY PresetIsNumber
<1>2. CASE name = "number_of_scas"
  <2>1. PICK i \in value .. old - 1 : x = Region(i)
    BY <1>2 DEF Written
  <2>2. i \in {0, 1}
    BY <1>2, <2>1 DEF MaxScas
  <2>3. x \in {"region_01", "region_02"} /\ (i = 0 => x = "region_01") /\ (i = 1 => x = "region_02")
    BY <2>1, <2>2, TheScas
  <2>4. n = Sca(i)
    BY <1>1, <2>2, <2>3, TheScas DEF ParamsOf, PresetParams
  <2> QED
    BY <1>2, <2>1, <2>4 DEF Gone
<1>3. CASE name \in {"number_mca_channels", "mca_start_channel"}
  <2>1. x \in {"lowIndex", "highIndex"}
    BY <1>3 DEF Written
  <2>2. n \in {"number_mca_channels", "mca_start_channel"}
    BY <1>1, <2>1 DEF ParamsOf, PresetParams
  <2> QED
    BY <1>3, <2>2 DEF Written, ParamsOf
<1>4. CASE name \notin {"number_of_scas", "number_mca_channels", "mca_start_channel"}
  <2>1. x \in ParamsOf(name, list)
    BY <1>4 DEF Written
  <2>2. n \notin {"number_mca_channels", "mca_start_channel"}
    BY <1>1, <1>4, <2>1 DEF ParamsOf, PresetParams
  <2> QED
    BY <1>1, <1>4, <2>1, <2>2 DEF ParamsOf, PresetParams
<1> QED
  BY <1>2, <1>3, <1>4

(* The parameters a run configures are written by no handler but that of   *)
(* the refresh rate.                                                       *)
LEMMA WrittenNotRun ==
  ASSUME NEW name \in Names, NEW value \in Int, NEW list, ListTypes(list), NEW old \in 0 .. MaxScas,
         name = "number_of_scas" => value >= 0
  PROVE  /\ Written(name, value, list, old) \cap {"mode", "statsCollection", "veto"} = {}
         /\ "refreshRate" \in Written(name, value, list, old) => name = "mca_refresh"
<1> USE DEF OptionNames, Plain, BlankingValues, PulseValues, SpectrumValues, OffsetValues, OutputValues
<1>1. PresetOf(list) \in PresetParams
  BY PresetIsNumber
<1>2. CASE name = "number_of_scas"
  <2>1. ASSUME NEW i \in value .. old - 1
        PROVE  Region(i) \in {"region_01", "region_02"}
    <3>1. i \in {0, 1}
      BY <1>2 DEF MaxScas
    <3> QED
      BY <3>1, TheScas
  <2> QED
    BY <1>2, <2>1 DEF Written
<1>3. CASE name \in {"number_mca_channels", "mca_start_channel"}
  BY <1>3 DEF Written
<1>4. CASE name \notin {"number_of_scas", "number_mca_channels", "mca_start_channel"}
  <2>1. Written(name, value, list, old) = ParamsOf(name, list)
    BY <1>4 DEF Written
  <2> QED
    BY <1>1, <1>4, <2>1 DEF ParamsOf, PresetParams
<1> QED
  BY <1>2, <1>3, <1>4

(* The parameters a value in force is about are the device's.              *)
LEMMA ParamsOfAre ==
  ASSUME NEW name, NEW list, ListTypes(list)
  PROVE  ParamsOf(name, list) \subseteq DOMAIN Factory
<1>1. PresetOf(list) \in PresetParams
  BY PresetIsNumber
<1> QED
  BY <1>1, FactoryNames, SMTT(20) DEF ParamsOf, PresetParams, ParamNames, NumberParams

(* What no write is for stays.                                             *)
LEMMA OutcomeKeeps ==
  ASSUME NEW p, NEW then, NEW sent, NEW S, Outcome(p, then, sent), \A m \in sent : m[1] \in S,
         NEW x \in DOMAIN p, x \notin S
  PROVE  then[x] = p[x]
BY DEF Outcome

(* A value that was set is in force, the end of the spectrum if its start  *)
(* is.                                                                     *)
LEMMA OwnForce ==
  ASSUME NEW p, DOMAIN p = DOMAIN Factory, NEW list, ListTypes(list), NEW name, NEW value, NEW dev,
         Takeable(name, value, dev), NEW old \in 0 .. MaxScas,
         name = "number_mca_channels" => p["lowIndex"] = list["mca_start_channel"],
         NEW q, q = AfterWrites(p, Writes(name, value, list, old, dev)),
         NEW then, then = Updated(list, name, value, old), NEW new, new = Scas(name, value, old)
  PROVE  Enforced(name, q, then, new, dev)
<1> DEFINE w == Writes(name, value, list, old, dev)
<1>0. q = AfterWrites(p, w)
  OBVIOUS
<1> HIDE DEF w
<1>1. then[name] = Kept(name, value)
  BY UpdatedIs
<1>2. name # "risetime_optimization" /\ name # "num_map_pixels_per_buffer" => then[name] = value
  BY <1>1 DEF Kept
<1>3. name # "number_of_scas" => \A n \in DOMAIN list : n # name => then[n] = list[n]
  BY UpdatedIs DEF Gone
<1>4. name \in Names /\ value \in Int
  BY DEF Takeable
<1>5. DOMAIN q = DOMAIN p
  BY <1>0, AfterDomain
<1>a. CASE name \in OptionNames
  <2>1. w = <<<<name, Options[dev][name][value]>>>>
    BY <1>a, SentNames DEF w
  <2>2. name \in DOMAIN p
    BY <1>a, FactoryNames DEF ParamNames
  <2>3. q[name] = Options[dev][name][value]
    BY <1>0, <2>1, <2>2, AfterOne
  <2>4. then[name] = value
    BY <1>a, <1>2 DEF OptionNames
  <2> QED
    BY <1>a, <2>3, <2>4, ForceIs
<1>b. CASE name \in Plain
  <2>1. w = <<<<name, Sent(name, value)>>>>
    BY <1>b, SentNames DEF w
  <2>2. name \in DOMAIN p
    BY <1>b, FactoryNames DEF ParamNames, NumberParams
  <2>3. q[name] = Sent(name, value)
    BY <1>0, <2>1, <2>2, AfterOne
  <2>4. then[name] = value
    BY <1>b, <1>2 DEF Plain, BlankingValues, PulseValues, SpectrumValues, OffsetValues, OutputValues
  <2> QED
    BY <1>b, <2>3, <2>4, ForceIs
<1>c. CASE name \in Unsent
  BY <1>c, ForceIs
<1>d. CASE name = "analog_gain"
  <2>1. w = <<<<"dacGain", DacGain(value)>>>>
    BY <1>d, SentNames DEF w
  <2>2. "dacGain" \in DOMAIN p
    BY FactoryNames DEF ParamNames, NumberParams
  <2>3. q["dacGain"] = DacGain(value)
    BY <1>0, <2>1, <2>2, AfterOne
  <2> QED
    BY <1>d, <1>2, <2>3, ForceIs
<1>e. CASE name = "analog_offset"
  <2>1. w = <<<<"dacOffset", value - DacOffsetMin>>>>
    BY <1>e, SentNames DEF w
  <2>2. "dacOffset" \in DOMAIN p
    BY FactoryNames DEF ParamNames, NumberParams
  <2>3. q["dacOffset"] = value - DacOffsetMin
    BY <1>0, <2>1, <2>2, AfterOne
  <2> QED
    BY <1>e, <1>2, <2>3, ForceIs
<1>f. CASE name = "detector_polarity"
  <2>1. w = <<<<"invert", Inverted(value)>>>>
    BY <1>f, SentNames DEF w
  <2>2. "invert" \in DOMAIN p
    BY FactoryNames DEF ParamNames, NumberParams
  <2>3. q["invert"] = Inverted(value)
    BY <1>0, <2>1, <2>2, AfterOne
  <2> QED
    BY <1>f, <1>2, <2>3, ForceIs
<1>m. CASE name = "mca_refresh"
  <2>1. w = <<<<"refreshRate", value>>>>
    BY <1>m, SentNames DEF w
  <2>2. "refreshRate" \in DOMAIN p
    BY FactoryNames DEF ParamNames, NumberParams
  <2>3. q["refreshRate"] = value
    BY <1>0, <2>1, <2>2, AfterOne
  <2> QED
    BY <1>m, <1>2, <2>3, ForceIs
<1>n. CASE name = "sca0"
  <2>1. w = <<<<"region_01", value>>>>
    BY <1>n, SentNames DEF w
  <2>2. "region_01" \in DOMAIN p
    BY FactoryNames DEF ParamNames, NumberParams
  <2>3. q["region_01"] = value
    BY <1>0, <2>1, <2>2, AfterOne
  <2> QED
    BY <1>n, <1>2, <2>3, ForceIs
<1>o. CASE name = "sca1"
  <2>1. w = <<<<"region_02", value>>>>
    BY <1>o, SentNames DEF w
  <2>2. "region_02" \in DOMAIN p
    BY FactoryNames DEF ParamNames, NumberParams
  <2>3. q["region_02"] = value
    BY <1>0, <2>1, <2>2, AfterOne
  <2> QED
    BY <1>o, <1>2, <2>3, ForceIs
<1>g. CASE name = "risetime_optimization"
  <2>1. w = <<<<"riseTime", Rounded(value)>>>>
    BY <1>g, SentNames DEF w
  <2>2. "riseTime" \in DOMAIN p
    BY FactoryNames DEF ParamNames, NumberParams
  <2>3. q["riseTime"] = Rounded(value)
    BY <1>0, <2>1, <2>2, AfterOne
  <2>4. then[name] = Rounded(value) /\ Rounded(Rounded(value)) = Rounded(value)
    BY <1>g, <1>1, <1>4, RoundedTwice DEF Kept
  <2> QED
    BY <1>g, <2>3, <2>4, ForceIs
<1>h. CASE name = "preset_value"
  <2>1. w = <<<<PresetOf(list), value>>>>
    BY <1>h, SentNames DEF w, PresetOf, AcqValue
  <2>2. PresetOf(list) \in DOMAIN p
    BY PresetIsNumber, FactoryNames DEF ParamNames, NumberParams, PresetParams
  <2>3. q[PresetOf(list)] = value
    BY <1>0, <2>1, <2>2, AfterOne
  <2>4. then["preset_type"] = list["preset_type"]
    BY <1>h, <1>3, ListHas
  <2> QED
    BY <1>h, <1>2, <2>3, <2>4, ForceIs DEF PresetOf
<1>i. CASE name = "number_mca_channels"
  <2>1. w = <<<<"highIndex", list["mca_start_channel"] + value - 1>>>>
    BY <1>i, SentNames DEF w, HighIndex, AcqValue
  <2>2. "highIndex" \in DOMAIN p
    BY FactoryNames DEF ParamNames, NumberParams
  <2>3. q["highIndex"] = list["mca_start_channel"] + value - 1
    BY <1>0, <2>1, <2>2, AfterOne
  <2>4. "lowIndex" \in DOMAIN p
    BY FactoryNames DEF ParamNames, NumberParams
  <2>5. q["lowIndex"] = p["lowIndex"]
    BY <1>0, <2>1, <2>4, AfterOne
  <2>6. list["mca_start_channel"] \in Int
    BY ListHas
  <2>7. q["highIndex"] - q["lowIndex"] + 1 = value
    BY <1>i, <1>4, <2>3, <2>5, <2>6
  <2> QED
    BY <1>i, <1>2, <2>7, ForceIs
<1>j. CASE name = "mca_start_channel"
  <2>1. w = <<<<"lowIndex", value>>, <<"highIndex", value + list["number_mca_channels"] - 1>>>>
    BY <1>j, SentNames DEF w, StartWrites, HighIndex, AcqValue
  <2>2. "lowIndex" \in DOMAIN p
    BY FactoryNames DEF ParamNames, NumberParams
  <2>3. q["lowIndex"] = value
    BY <1>0, <2>1, <2>2, AfterTwo
  <2> QED
    BY <1>j, <1>2, <2>3, ForceIs
<1>k. CASE name = "scale_factor"
  <2>1. w = <<<<"coarseBinScaling", Coarse(value)>>, <<"scaleFactor", <<value, Coarse(value)>>>>>>
    BY <1>k, SentNames DEF w, ScaleWrites
  <2>2. "coarseBinScaling" \in DOMAIN p /\ "scaleFactor" \in DOMAIN p
    BY FactoryNames DEF ParamNames
  <2>3. q["coarseBinScaling"] = Coarse(value) /\ q["scaleFactor"] = <<value, Coarse(value)>>
    BY <1>0, <2>1, <2>2, AfterTwo
  <2> QED
    BY <1>k, <1>2, <2>3, ForceIs
<1>l. CASE name = "number_of_scas"
  <2>1. new = then[name] /\ new \in 0 .. MaxScas
    BY <1>l, <1>1, TakeableIs DEF Scas
  <2> QED
    BY <1>l, <2>1, ForceIs
<1> QED
  BY <1>4, <1>a, <1>b, <1>c, <1>d, <1>e, <1>f, <1>g, <1>h, <1>i, <1>j, <1>k, <1>l, <1>m, <1>n, <1>o,
     TheNames, TheScas DEF Kinds

(* The others that are in force stay so, but for those a preset's type     *)
(* and the start of the spectrum change, and the SCAs that go.             *)
LEMMA ParamsKept ==
  ASSUME NEW p, DOMAIN p = DOMAIN Factory, NEW list, ListTypes(list), NEW name, NEW value, NEW dev \in SUBSET Features,
         Takeable(name, value, dev), NEW old \in 0 .. MaxScas,
         NEW q, Outcome(p, q, Range(Writes(name, value, list, old, dev))),
         NEW n \in Names, n # name, n \notin Gone(name, value, old),
         ~(name = "mca_start_channel" /\ n = "number_mca_channels"),
         NEW x \in ParamsOf(n, list)
  PROVE  q[x] = p[x]
<1> DEFINE w == Writes(name, value, list, old, dev)
           S == Written(name, value, list, old)
<1>1. \A m \in Range(w) : m[1] \in S
  BY SentFits
<1>2. x \in DOMAIN p
  BY ParamsOfAre
<1>3. x \notin S
  BY WrittenApart DEF Takeable
<1>4. Outcome(p, q, Range(w))
  OBVIOUS
<1> HIDE DEF w, S
<1> QED
  BY <1>1, <1>2, <1>3, <1>4, OutcomeKeeps

(* So the others that are in force stay so.                                *)
LEMMA OtherForce ==
  ASSUME NEW p, DOMAIN p = DOMAIN Factory, NEW list, ListTypes(list), NEW name, NEW value, NEW dev \in SUBSET Features,
         Takeable(name, value, dev), NEW old \in 0 .. MaxScas,
         NEW q, Outcome(p, q, Range(Writes(name, value, list, old, dev))),
         NEW then, then = Updated(list, name, value, old), NEW new, new = Scas(name, value, old),
         old = list["number_of_scas"],
         NEW n \in DOMAIN list, n # name, n \notin Gone(name, value, old),
         ~(name = "mca_start_channel" /\ n = "number_mca_channels"),
         ~(name = "preset_type" /\ n = "preset_value"),
         Enforced(n, p, list, old, dev)
  PROVE  Enforced(n, q, then, new, dev)
<1>1. n \in Names
  BY ListHas
<1>2. \A x \in ParamsOf(n, list) : q[x] = p[x]
  BY <1>1, ParamsKept
<1>3. then[n] = list[n]
  BY UpdatedIs
<1>4. n = "preset_value" => then["preset_type"] = list["preset_type"]
  <2>1. SUFFICES ASSUME n = "preset_value" PROVE then["preset_type"] = list["preset_type"]
    OBVIOUS
  <2>2. "preset_type" \in DOMAIN list \ Gone(name, value, old)
    BY ListHas, GoneAreScas, TheScas DEF Takeable
  <2> QED
    BY <2>1, <2>2, UpdatedIs
<1>5. new = then["number_of_scas"] /\ new \in 0 .. MaxScas
  <2>1. CASE name = "number_of_scas"
    <3>1. then[name] = Kept(name, value)
      BY UpdatedIs
    <3> QED
      BY <2>1, <3>1, TakeableIs DEF Scas
  <2>2. CASE name # "number_of_scas"
    <3>1. "number_of_scas" \in DOMAIN list \ Gone(name, value, old)
      BY <2>2, ListHas DEF Gone
    <3>2. then["number_of_scas"] = list["number_of_scas"]
      BY <2>2, <3>1, UpdatedIs
    <3> QED
      BY <2>2, <3>2 DEF Scas
  <2> QED
    BY <2>1, <2>2
<1> QED
  BY <1>1, <1>2, <1>3, <1>4, <1>5, ForceKept

(* Setting the start of the spectrum sends its end, which is in force      *)
(* then.                                                                   *)
LEMMA EndForce ==
  ASSUME NEW p, DOMAIN p = DOMAIN Factory, NEW list, ListTypes(list), NEW value \in Int, NEW dev,
         NEW old,
         NEW q, q = AfterWrites(p, Writes("mca_start_channel", value, list, old, dev)),
         NEW then, then = Updated(list, "mca_start_channel", value, old), NEW new
  PROVE  Enforced("number_mca_channels", q, then, new, dev)
<1> DEFINE w == Writes("mca_start_channel", value, list, old, dev)
           number == list["number_mca_channels"]
<1>1. w = <<<<"lowIndex", value>>, <<"highIndex", value + number - 1>>>>
  BY SentNames DEF StartWrites, HighIndex, AcqValue
<1>2. q = AfterWrites(p, w)
  OBVIOUS
<1> HIDE DEF w
<1>3. "lowIndex" \in DOMAIN p /\ "highIndex" \in DOMAIN p
  BY FactoryNames DEF ParamNames, NumberParams
<1>4. q["lowIndex"] = value /\ q["highIndex"] = value + number - 1
  BY <1>1, <1>2, <1>3, AfterTwo
<1>5. "number_mca_channels" \in DOMAIN list \ Gone("mca_start_channel", value, old)
  BY ListHas DEF Gone
<1>6. then["number_mca_channels"] = number /\ number \in Int
  BY <1>5, UpdatedIs, ListHas
<1>7. q["highIndex"] - q["lowIndex"] + 1 = then["number_mca_channels"]
  BY <1>4, <1>6
<1> QED
  BY <1>7, ForceIs

(* What a handler that gave up leaves in force.                            *)
LEMMA GivenUpForce ==
  ASSUME NEW p, DOMAIN p = DOMAIN Factory, NEW list, ListTypes(list), NEW name, NEW value, NEW dev \in SUBSET Features,
         Takeable(name, value, dev), NEW old \in 0 .. MaxScas,
         NEW q, Outcome(p, q, Range(Writes(name, value, list, old, dev))),
         old = list["number_of_scas"], NEW n \in DOMAIN list, n \notin Disturbed(name),
         Enforced(n, p, list, old, dev)
  PROVE  Enforced(n, q, list, old, dev)
<1>1. n # name /\ ~(name = "mca_start_channel" /\ n = "number_mca_channels")
  BY DEF Disturbed
<1>2. n \notin Gone(name, value, old)
  <2>1. name = "number_of_scas" => n \notin ScaNames
    BY DEF Disturbed
  <2> QED
    BY <2>1, GoneAreScas DEF Takeable, Gone
<1>3. n \in Names
  BY ListHas
<1>4. \A x \in ParamsOf(n, list) : q[x] = p[x]
  BY <1>1, <1>2, <1>3, ParamsKept
<1> QED
  BY <1>3, <1>4, ForceKept

---------------------------------------------------------------------------
(* The invariants over a step.                                             *)
Forced(s, p, list, sca, dev) == \A n \in s \ {"mca_refresh"} : Enforced(n, p, list, sca, dev)

(* ValuesInForce before and after a step, by Forced.                       *)
LEMMA ValuesAre ==
  /\ ValuesInForce <=> (up => Forced(settled, params, defaults, n_sca, device))
  /\ ValuesInForce' <=> (up' => Forced(settled', params', defaults', n_sca', device'))
<1>1. ValuesInForce <=> (up => Forced(settled, params, defaults, n_sca, device))
  BY DEF ValuesInForce, Forced, InForce, Enforced
<1>2. ValuesInForce' <=> (up' => Forced(settled', params', defaults', n_sca', device'))
  BY DEF ValuesInForce, Forced, InForce, Enforced
<1> QED
  BY <1>1, <1>2

(* A run stays configured while its parameters do, the refresh rate if it  *)
(* was not set anew.                                                       *)
LEMMA RunKept ==
  ASSUME RunConfigured, running' = running, started' = started, device' = device,
         params'.mode = params.mode, params'.statsCollection = params.statsCollection,
         params'.veto = params.veto, refreshSet => refreshSet',
         refreshSet' \/ params'.refreshRate = params.refreshRate
  PROVE  RunConfigured'
BY DEF RunConfigured, Gated, AcqValue, Collection, ActiveLevel

(* The device, and the saved one, is of a kind there is.                   *)
LEMMA DeviceIs ==
  ASSUME AcqTypes
  PROVE  device \in SUBSET Features /\ saved.device \in SUBSET Features /\ DOMAIN params = DOMAIN Factory
BY AcqAssumption DEF AcqTypes, ParamTypes

(* The values users set have names and are numbers.                        *)
LEMMA OfferedIs ==
  ASSUME AcqTypes, NEW o \in offered
  PROVE  o[1] \in Names /\ o[2] \in Int /\ (o[1] = "number_of_scas" => o[2] >= 0)
BY AcqAssumption DEF AcqTypes

(* What a handler sends while the system is up fits the parameters of the  *)
(* device.                                                                 *)
LEMMA WritesWhileUp ==
  ASSUME AcqTypes, NEW name \in Names, NEW value \in Int, name = "number_of_scas" => value >= 0,
         Settable(name, value)
  PROVE  LET w == Writes(name, value, defaults, n_sca, device)
         IN  /\ Takeable(name, value, device) /\ n_sca \in 0 .. MaxScas
             /\ n_sca = defaults["number_of_scas"]
             /\ w \in Seq(Range(w))
             /\ \A m \in Range(w) : m[1] \in Written(name, value, defaults, n_sca) /\ Fits(m[1], m[2], device)
<1>1. Takeable(name, value, device) /\ up
  BY DEF Settable, Takeable
<1>2. ListTypes(defaults) /\ n_sca = defaults["number_of_scas"]
  BY <1>1 DEF AcqTypes
<1>3. n_sca \in 0 .. MaxScas
  BY <1>2, ListHas
<1> QED
  BY <1>1, <1>2, <1>3, DeviceIs, SentFits

(* Setting a value keeps the types.                                        *)
LEMMA SetValueTypes ==
  ASSUME AcqTypes, NEW name \in Names, NEW value \in Int, name = "number_of_scas" => value >= 0,
         SetValue(name, value)
  PROVE  AcqTypes'
<1> DEFINE w == Writes(name, value, defaults, n_sca, device)
<1>0. Settable(name, value) /\ params' = AfterWrites(params, w) /\ defaults' = Updated(defaults, name, value, n_sca)
  BY DEF SetValue
<1>1. Takeable(name, value, device) /\ n_sca \in 0 .. MaxScas /\ w \in Seq(Range(w))
        /\ n_sca = defaults["number_of_scas"]
  BY <1>0, WritesWhileUp
<1>2. \A m \in Range(w) : Fits(m[1], m[2], device)
  BY <1>0, WritesWhileUp
<1> HIDE DEF w
<1>3. ParamTypes(params', device)
  <2>1. Outcome(params, params', Range(w))
    BY <1>0, <1>1, AfterOutcome
  <2> QED
    BY <1>2, <2>1, OutcomeFits DEF AcqTypes
<1>4. ListTypes(defaults')
  BY <1>0, <1>1, UpdatedTypes DEF AcqTypes
<1>5. n_sca' = defaults'["number_of_scas"]
  <2>1. n_sca' = Scas(name, value, n_sca)
    BY DEF SetValue
  <2>2. CASE name = "number_of_scas"
    <3>1. defaults'[name] = Kept(name, value)
      BY <1>0, UpdatedIs
    <3> QED
      BY <1>1, <2>1, <2>2, <3>1, TakeableIs DEF Scas
  <2>3. CASE name # "number_of_scas"
    <3>1. "number_of_scas" \in DOMAIN defaults \ Gone(name, value, n_sca)
      BY <2>3, ListHas DEF Gone, AcqTypes
    <3> QED
      BY <1>0, <1>1, <2>1, <2>3, <3>1, UpdatedIs DEF Scas
  <2> QED
    BY <2>2, <2>3
<1>6. polarity' \in Int /\ settled' \subseteq DOMAIN defaults'
  BY DEF SetValue, Polarity, AcqTypes
<1> QED
  BY <1>3, <1>4, <1>5, <1>6 DEF AcqTypes, SetValue, Called

(* Setting a value leaves a list that the handlers accept.                 *)
LEMMA SetValueAccepted ==
  ASSUME AcqTypes, NEW name \in Names, NEW value \in Int, name = "number_of_scas" => value >= 0,
         SetValue(name, value), AllAccepted(defaults, device)
  PROVE  AllAccepted(defaults', device)
<1>0. Settable(name, value) /\ defaults' = Updated(defaults, name, value, n_sca)
  BY DEF SetValue
<1>1. DOMAIN defaults' = (DOMAIN defaults \ Gone(name, value, n_sca)) \cup {name}
  BY <1>0, UpdatedDomain, SMTT(30)
<1>2. Accepted(name, Kept(name, value), device)
  BY <1>0, KeptIsAccepted DEF Settable
<1>3. ASSUME NEW n \in DOMAIN defaults'
      PROVE  Accepted(n, defaults'[n], device)
  <2>1. CASE n = name
    <3>1. defaults'[name] = Kept(name, value)
      BY <1>0, UpdatedIs
    <3> QED
      BY <1>2, <2>1, <3>1
  <2>2. CASE n # name
    <3>1. n \in DOMAIN defaults \ Gone(name, value, n_sca)
      BY <1>1, <2>2
    <3>2. defaults'[n] = defaults[n]
      BY <1>0, <2>2, <3>1, UpdatedIs
    <3> QED
      BY <3>1, <3>2 DEF AllAccepted
  <2> QED
    BY <2>1, <2>2
<1> QED
  BY <1>3 DEF AllAccepted

(* Setting a value leaves each settled value in force, whichever shares a  *)
(* parameter with it.                                                      *)
LEMMA SetValueForced ==
  ASSUME AcqTypes, NEW name \in Names, NEW value \in Int, name = "number_of_scas" => value >= 0,
         SetValue(name, value), Forced(settled, params, defaults, n_sca, device)
  PROVE  Forced(settled', params', defaults', n_sca', device)
<1> DEFINE w == Writes(name, value, defaults, n_sca, device)
<1>0. /\ Settable(name, value) /\ params' = AfterWrites(params, w) /\ defaults' = Updated(defaults, name, value, n_sca)
      /\ n_sca' = Scas(name, value, n_sca)
      /\ settled' = ((settled \cup {name}) \ Unsettled(name)) \cap DOMAIN defaults'
  BY DEF SetValue
<1>1. /\ Takeable(name, value, device) /\ n_sca \in 0 .. MaxScas /\ w \in Seq(Range(w))
      /\ n_sca = defaults["number_of_scas"]
  BY <1>0, WritesWhileUp
<1>2. Outcome(params, params', Range(w))
  BY <1>0, <1>1, AfterOutcome
<1>3. /\ ListTypes(defaults) /\ DOMAIN params = DOMAIN Factory /\ device \in SUBSET Features
      /\ settled \subseteq DOMAIN defaults
  BY DeviceIs DEF AcqTypes
<1>4. ASSUME NEW n \in DOMAIN defaults', n # name
      PROVE  n \in DOMAIN defaults \ Gone(name, value, n_sca)
  BY <1>0, <1>4, UpdatedHas
<1>5. ASSUME NEW n \in settled' \ {"mca_refresh"}
      PROVE  Enforced(n, params', defaults', n_sca', device)
  <2>1. CASE n = name
    <3>1. name = "number_mca_channels" => params["lowIndex"] = defaults["mca_start_channel"]
      <4>1. SUFFICES ASSUME name = "number_mca_channels"
                     PROVE  params["lowIndex"] = defaults["mca_start_channel"]
        OBVIOUS
      <4>2. "mca_start_channel" \in settled \ {"mca_refresh"}
        BY <1>0, <2>1, <4>1 DEF Unsettled
      <4> QED
        BY <4>2, ForceIs DEF Forced
    <3> QED
      BY <1>0, <1>1, <1>3, <2>1, <3>1, OwnForce
  <2>2. CASE n # name
    <3>1. n \in settled \ {"mca_refresh"} /\ n \in DOMAIN defaults /\ n \notin Gone(name, value, n_sca)
            /\ n \notin Unsettled(name)
      BY <1>0, <1>3, <1>4, <2>2
    <3>2. Enforced(n, params, defaults, n_sca, device)
      BY <3>1 DEF Forced
    <3>3. ~(name = "preset_type" /\ n = "preset_value")
      BY <3>1 DEF Unsettled
    <3>4. CASE name = "mca_start_channel" /\ n = "number_mca_channels"
      BY <1>0, <1>3, <3>4, EndForce
    <3>5. CASE ~(name = "mca_start_channel" /\ n = "number_mca_channels")
      BY <1>0, <1>1, <1>2, <1>3, <2>2, <3>1, <3>2, <3>3, <3>5, OtherForce
    <3> QED
      BY <3>4, <3>5
  <2> QED
    BY <2>1, <2>2
<1> QED
  BY <1>5 DEF Forced

(* SetValue keeps the invariant.                                           *)
LEMMA SetValueKeeps ==
  ASSUME AcqInv, NEW name \in Names, NEW value \in Int, name = "number_of_scas" => value >= 0,
         SetValue(name, value)
  PROVE  AcqInv'
<1> DEFINE w == Writes(name, value, defaults, n_sca, device)
<1> USE DEF AcqInv
<1>0. up /\ up' = up /\ device' = device /\ saved' = saved /\ running' = running /\ started' = started
        /\ refused' = refused /\ restarted' = FALSE /\ misfit' = misfit
  BY DEF SetValue, Called, Settable
<1>1. AcqTypes'
  BY SetValueTypes
<1>2. ValuesInForce'
  BY <1>0, SetValueForced, ValuesAre
<1>3. NothingRefused'
  <2>1. refused = 0 => AllAccepted(defaults', device)
    BY <1>0, SetValueAccepted DEF NothingRefused
  <2>2. ASSUME refused = 0
        PROVE  DOMAIN DEFAULT_ACQ_VALUES \ {"dc_offset", "preset_value", "mca_refresh"} \subseteq settled'
    <3>1. DOMAIN DEFAULT_ACQ_VALUES \ {"dc_offset", "preset_value", "mca_refresh"} \subseteq settled
      BY <1>0, <2>2 DEF NothingRefused
    <3>2. "mca_start_channel" \in settled
      BY <3>1 DEF DEFAULT_ACQ_VALUES
    <3>3. Unsettled(name) \subseteq {"preset_value"}
      BY <3>2 DEF Unsettled
    <3>4. DOMAIN DEFAULT_ACQ_VALUES \subseteq DOMAIN defaults'
      BY <1>1 DEF AcqTypes, ListTypes
    <3>5. settled' = ((settled \cup {name}) \ Unsettled(name)) \cap DOMAIN defaults'
      BY DEF SetValue
    <3> QED
      BY <3>1, <3>3, <3>4, <3>5
  <2> QED
    BY <1>0, <2>1, <2>2 DEF NothingRefused
<1>4. RestartRestores'
  BY <1>0 DEF RestartRestores
<1>5. RunConfigured'
  <2>1. Settable(name, value) /\ params' = AfterWrites(params, w)
    BY DEF SetValue
  <2>2. /\ n_sca \in 0 .. MaxScas /\ w \in Seq(Range(w))
        /\ \A m \in Range(w) : m[1] \in Written(name, value, defaults, n_sca)
    BY <2>1, WritesWhileUp
  <2> HIDE DEF w
  <2>3. Outcome(params, params', Range(w))
    BY <2>1, <2>2, AfterOutcome
  <2>4. {"mode", "statsCollection", "veto", "refreshRate"} \subseteq DOMAIN params
    BY DeviceIs, FactoryNames DEF ParamNames
  <2>5. /\ Written(name, value, defaults, n_sca) \cap {"mode", "statsCollection", "veto"} = {}
        /\ "refreshRate" \in Written(name, value, defaults, n_sca) => name = "mca_refresh"
    BY <2>2, WrittenNotRun DEF AcqTypes
  <2>6. ASSUME NEW x \in {"mode", "statsCollection", "veto"}
        PROVE  params'[x] = params[x]
    <3>1. x \in DOMAIN params /\ x \notin Written(name, value, defaults, n_sca)
      BY <2>4, <2>5
    <3> QED
      BY <2>2, <2>3, <3>1, OutcomeKeeps
  <2>7. name = "mca_refresh" \/ params'["refreshRate"] = params["refreshRate"]
    BY <2>2, <2>3, <2>4, <2>5, OutcomeKeeps
  <2>8. refreshSet' = (refreshSet \/ name = "mca_refresh")
    BY DEF SetValue
  <2> QED
    BY <1>0, <2>6, <2>7, <2>8, RunKept
<1> QED
  BY <1>1, <1>2, <1>3, <1>4, <1>5

(* A handler that gives up part way keeps it too: what it disturbs is      *)
(* unsettled.                                                              *)
LEMMA SetValueFailsKeeps ==
  ASSUME AcqInv, NEW name \in Names, NEW value \in Int, name = "number_of_scas" => value >= 0,
         SetValueFails(name, value)
  PROVE  AcqInv'
<1> DEFINE w == Writes(name, value, defaults, n_sca, device)
<1> USE DEF AcqInv
<1>0. /\ Settable(name, value) /\ params' \in Range(Stages(params, w))
      /\ up /\ up' = up /\ device' = device /\ saved' = saved /\ running' = running /\ started' = started
      /\ defaults' = defaults /\ n_sca' = n_sca /\ polarity' = polarity /\ offered' = offered
      /\ refused' = refused + 1 /\ restarted' = FALSE /\ misfit' = misfit
      /\ settled' = settled \ Disturbed(name)
      /\ refreshSet' = (refreshSet \/ name = "mca_refresh")
  BY DEF SetValueFails, Called, Settable, Refused
<1>1. /\ Takeable(name, value, device) /\ n_sca \in 0 .. MaxScas /\ w \in Seq(Range(w))
      /\ n_sca = defaults["number_of_scas"]
      /\ \A m \in Range(w) : m[1] \in Written(name, value, defaults, n_sca) /\ Fits(m[1], m[2], device)
  BY <1>0, WritesWhileUp
<1>2. Outcome(params, params', Range(w))
  BY <1>0, <1>1, StageOutcome
<1>3. /\ ListTypes(defaults) /\ DOMAIN params = DOMAIN Factory /\ device \in SUBSET Features
      /\ settled \subseteq DOMAIN defaults /\ refused \in Nat
  BY DeviceIs DEF AcqTypes
<1>4. AcqTypes'
  <2> HIDE DEF w
  <2>1. ParamTypes(params', device)
    BY <1>1, <1>2, OutcomeFits DEF AcqTypes
  <2> QED
    BY <1>0, <1>3, <2>1 DEF AcqTypes
<1>5. ValuesInForce'
  <2>1. ASSUME NEW n \in settled' \ {"mca_refresh"}
        PROVE  Enforced(n, params', defaults', n_sca', device')
    <3>1. n \in settled \ {"mca_refresh"} /\ n \in DOMAIN defaults /\ n \notin Disturbed(name)
      BY <1>0, <1>3
    <3>2. Enforced(n, params, defaults, n_sca, device)
      BY <1>0, <3>1, ValuesAre DEF Forced
    <3> QED
      BY <1>0, <1>1, <1>2, <1>3, <3>1, <3>2, GivenUpForce
  <2> QED
    BY <2>1, ValuesAre DEF Forced
<1>6. NothingRefused'
  BY <1>0, <1>3 DEF NothingRefused
<1>7. RestartRestores'
  BY <1>0 DEF RestartRestores
<1>8. RunConfigured'
  <2> HIDE DEF w
  <2>4. {"mode", "statsCollection", "veto", "refreshRate"} \subseteq DOMAIN params
    BY DeviceIs, FactoryNames DEF ParamNames
  <2>5. /\ Written(name, value, defaults, n_sca) \cap {"mode", "statsCollection", "veto"} = {}
        /\ "refreshRate" \in Written(name, value, defaults, n_sca) => name = "mca_refresh"
    BY <1>1, <1>3, WrittenNotRun
  <2>6. ASSUME NEW x \in {"mode", "statsCollection", "veto"}
        PROVE  params'[x] = params[x]
    <3>1. x \in DOMAIN params /\ x \notin Written(name, value, defaults, n_sca)
      BY <2>4, <2>5
    <3> QED
      BY <1>1, <1>2, <3>1, OutcomeKeeps
  <2>7. name = "mca_refresh" \/ params'["refreshRate"] = params["refreshRate"]
    BY <1>1, <1>2, <2>4, <2>5, OutcomeKeeps
  <2> QED
    BY <1>0, <2>6, <2>7, RunKept
<1> QED
  BY <1>4, <1>5, <1>6, <1>7, <1>8

---------------------------------------------------------------------------
(* What is read of a value, by the kind of the value.                      *)
LEMMA ReadingIs ==
  ASSUME NEW name, NEW p, NEW list, NEW dev
  PROVE  /\ name \in OptionNames => Reading(name, p, list, dev) = OptionReading(Options[dev][name], p[name])
         /\ name \in Plain => Reading(name, p, list, dev) = p[name]
         /\ name = "analog_gain" => Reading(name, p, list, dev) = GainReading(p["dacGain"])
         /\ name = "analog_offset" => Reading(name, p, list, dev) = p["dacOffset"] + DacOffsetMin
         /\ name = "detector_polarity" => Reading(name, p, list, dev) = 1 - p["invert"]
         /\ name = "risetime_optimization" => Reading(name, p, list, dev) = p["riseTime"]
         /\ name = "preset_value" => Reading(name, p, list, dev) = p[PresetOf(list)]
         /\ name = "number_mca_channels" => Reading(name, p, list, dev) = p["highIndex"] - p["lowIndex"] + 1
         /\ name = "mca_start_channel" => Reading(name, p, list, dev) = p["lowIndex"]
         /\ name \in Names \ ReadFromDevice =>
              Reading(name, p, list, dev) = IF name \in DOMAIN list THEN list[name] ELSE 0
<1> USE KindsApart DEF Reading, Alone
<1>1. name \in OptionNames => Reading(name, p, list, dev) = OptionReading(Options[dev][name], p[name])
  OBVIOUS
<1>2. name \in Plain => Reading(name, p, list, dev) = p[name]
  OBVIOUS
<1>3. name = "analog_gain" => Reading(name, p, list, dev) = GainReading(p["dacGain"])
  OBVIOUS
<1>4. name = "analog_offset" => Reading(name, p, list, dev) = p["dacOffset"] + DacOffsetMin
  OBVIOUS
<1>5. name = "detector_polarity" => Reading(name, p, list, dev) = 1 - p["invert"]
  OBVIOUS
<1>6. name = "risetime_optimization" => Reading(name, p, list, dev) = p["riseTime"]
  OBVIOUS
<1>7. name = "preset_value" => Reading(name, p, list, dev) = p[PresetOf(list)]
  BY DEF PresetOf, AcqValue
<1>8. name = "number_mca_channels" => Reading(name, p, list, dev) = p["highIndex"] - p["lowIndex"] + 1
  OBVIOUS
<1>9. name = "mca_start_channel" => Reading(name, p, list, dev) = p["lowIndex"]
  OBVIOUS
<1>10. name \in Names \ ReadFromDevice =>
              Reading(name, p, list, dev) = IF name \in DOMAIN list THEN list[name] ELSE 0
  BY DEF ReadFromDevice
<1> QED
  BY <1>1, <1>2, <1>3, <1>4, <1>5, <1>6, <1>7, <1>8, <1>9, <1>10

(* What is read is a value the handler would keep as it is, the device     *)
(* works with it, and where the handler limits it it is within the limits  *)
(* if the value it was set to is in force.                                 *)
LEMMA OptionRead ==
  ASSUME NEW dev \in SUBSET Features, NEW n \in OptionNames, NEW v,
         \E u \in DOMAIN Options[dev][n] : v = Options[dev][n][u]
  PROVE  /\ OptionReading(Options[dev][n], v) \in DOMAIN Options[dev][n]
         /\ Options[dev][n][OptionReading(Options[dev][n], v)] = v
BY DEF OptionReading

(* A value that was read from the device is in force.                      *)
LEMMA ReadValue ==
  ASSUME NEW dev \in SUBSET Features, NEW p, ParamTypes(p, dev), NEW list, ListTypes(list),
         NEW name \in Names, NEW r, r = Reading(name, p, list, dev), NEW sca,
         NEW then, ListTypes(then), then[name] = r, then["preset_type"] = list["preset_type"]
  PROVE  name \in ReadFromDevice => Enforced(name, p, then, sca, dev)
<1>0. ASSUME NEW x \in ParamNames
      PROVE  Fits(x, p[x], dev)
  BY FactoryNames DEF ParamTypes
<1>k. /\ \A n \in OptionNames \cup Plain \cup {"dacGain", "dacOffset", "invert", "riseTime", "highIndex", "lowIndex"} :
           n \in ParamNames
      /\ p["dacOffset"] \in Int /\ p["invert"] \in {0, 1} /\ p["highIndex"] \in Int /\ p["lowIndex"] \in Int
  <2>1. \A n \in OptionNames \cup Plain \cup {"dacGain", "dacOffset", "invert", "riseTime", "highIndex", "lowIndex"} :
           n \in ParamNames
    BY DEF ParamNames, NumberParams
  <2> QED
    BY <1>0, <2>1 DEF Fits, NumberParams, Flags
<1>a. CASE name \in OptionNames
  <2>1. \E u \in DOMAIN Options[dev][name] : p[name] = Options[dev][name][u]
    BY <1>0, <1>k, <1>a DEF Fits
  <2>2. Options[dev][name][r] = p[name]
    BY <1>a, <2>1, OptionRead, ReadingIs
  <2> QED
    BY <1>a, <2>2, ForceIs
<1>b. CASE name \in Plain
  <2>1. r = p[name]
    BY <1>b, ReadingIs
  <2>2. name \in SpectrumValues \cup {"reset_blanking_enable"} => p[name] \in {0, 1}
    BY <1>0, <1>k, <1>b DEF Fits, Flags
  <2>3. Sent(name, r) = r
    BY <2>1, <2>2 DEF Sent
  <2> QED
    BY <1>b, <2>1, <2>3, ForceIs
<1>c. CASE name = "analog_gain"
  <2>1. r = GainReading(p["dacGain"])
    BY <1>c, ReadingIs
  <2>2. p["dacGain"] = 0 \/ \E g \in GainMin .. GainMax : p["dacGain"] = DacGain(g)
    BY <1>0, <1>k DEF Fits
  <2>3. DacGain(r) = p["dacGain"]
    BY <2>1, <2>2, DacGainTwice, DacGainOfNone
  <2> QED
    BY <1>c, <2>3, ForceIs
<1>d. CASE name = "analog_offset"
  <2>1. p["dacOffset"] = r - DacOffsetMin
    BY <1>d, <1>k, ReadingIs DEF DacOffsetMin
  <2> QED
    BY <1>d, <2>1, ForceIs
<1>e. CASE name = "detector_polarity"
  <2>1. p["invert"] = Inverted(r)
    BY <1>e, <1>k, ReadingIs DEF Inverted
  <2> QED
    BY <1>e, <2>1, ForceIs
<1>f. CASE name = "risetime_optimization"
  <2>1. r = p["riseTime"] /\ Rounded(p["riseTime"]) = p["riseTime"]
    BY <1>0, <1>f, <1>k, ReadingIs DEF Fits
  <2> QED
    BY <1>f, <2>1, ForceIs
<1>g. CASE name = "preset_value"
  <2>1. p[PresetOf(then)] = r
    BY <1>g, ReadingIs DEF PresetOf
  <2> QED
    BY <1>g, <2>1, ForceIs
<1>h. CASE name = "number_mca_channels"
  BY <1>h, ReadingIs, ForceIs
<1>i. CASE name = "mca_start_channel"
  BY <1>i, ReadingIs, ForceIs
<1> QED
  BY <1>a, <1>b, <1>c, <1>d, <1>e, <1>f, <1>g, <1>h, <1>i DEF ReadFromDevice

(* What is read is a number the handler would keep as it is.               *)
LEMMA ReadType ==
  ASSUME NEW dev \in SUBSET Features, NEW p, ParamTypes(p, dev), NEW list, ListTypes(list),
         NEW name \in Names, NEW r, r = Reading(name, p, list, dev)
  PROVE  /\ r \in Int /\ Kept(name, r) = r
         /\ name \in DOMAIN ModeLimits \cup DOMAIN GateLimits \cup {"number_of_scas"} =>
              name \in DOMAIN list /\ r = list[name]
<1>1. name \in OptionNames => r \in Int
  <2>1. SUFFICES ASSUME name \in OptionNames PROVE r \in Int
    OBVIOUS
  <2>2. name \in DOMAIN p
    BY <2>1, FactoryNames DEF ParamTypes, ParamNames
  <2>3. \E u \in DOMAIN Options[dev][name] : p[name] = Options[dev][name][u]
    BY <2>1, <2>2 DEF ParamTypes, Fits
  <2> QED
    BY <2>1, <2>3, OptionRead, OptionsApart, ReadingIs
<1>2. /\ NumberParams \subseteq DOMAIN p /\ \A x \in NumberParams : p[x] \in Int
      /\ p["dacGain"] \in Int /\ p["dacOffset"] \in Int /\ p["invert"] \in Int /\ p["riseTime"] \in Int
      /\ p["highIndex"] \in Int /\ p["lowIndex"] \in Int
  <2>1. NumberParams \subseteq DOMAIN p
    BY FactoryNames DEF ParamTypes, ParamNames
  <2>2. \A x \in NumberParams : p[x] \in Int
    BY <2>1 DEF ParamTypes, Fits
  <2> QED
    BY <2>1, <2>2 DEF NumberParams
<1>3. name \in ReadFromDevice \ OptionNames => r \in Int
  <2>1. name \in Plain => r \in Int
    BY <1>2, ReadingIs DEF NumberParams
  <2>2. name = "analog_gain" => r \in Int
    BY <1>2, ReadingIs DEF GainReading, GainMin
  <2>3. name = "analog_offset" => r \in Int
    BY <1>2, ReadingIs DEF DacOffsetMin
  <2>4. name = "preset_value" => r \in Int
    <3>1. PresetOf(list) \in NumberParams
      BY PresetIsNumber DEF PresetParams, NumberParams
    <3> QED
      BY <1>2, <3>1, ReadingIs
  <2>5. name \in {"detector_polarity", "risetime_optimization", "number_mca_channels", "mca_start_channel"} =>
           r \in Int
    BY <1>2, ReadingIs
  <2> QED
    BY <2>1, <2>2, <2>3, <2>4, <2>5 DEF ReadFromDevice
<1>4. name \notin ReadFromDevice => r = IF name \in DOMAIN list THEN list[name] ELSE 0
  BY ReadingIs
<1>5. r \in Int
  BY <1>1, <1>3, <1>4, ListHas
<1>6. Kept(name, r) = r
  <2>1. CASE name = "risetime_optimization"
    <3>1. "riseTime" \in DOMAIN p
      BY <1>2 DEF NumberParams
    <3>2. r = p["riseTime"] /\ Rounded(r) = r
      BY <2>1, <3>1, ReadingIs DEF ParamTypes, Fits
    <3> QED
      BY <2>1, <3>2 DEF Kept
  <2>2. CASE name = "num_map_pixels_per_buffer"
    <3>1. name \notin ReadFromDevice /\ name \in DOMAIN list
      BY <2>2 DEF ReadFromDevice, OptionNames, Plain, BlankingValues, PulseValues, SpectrumValues, OffsetValues,
         OutputValues, ListTypes, DEFAULT_ACQ_VALUES
    <3> QED
      BY <1>4, <3>1, ListHas
  <2>3. CASE name \notin {"risetime_optimization", "num_map_pixels_per_buffer"}
    BY <2>3 DEF Kept
  <2> QED
    BY <2>1, <2>2, <2>3
<1>7. ASSUME name \in DOMAIN ModeLimits \cup DOMAIN GateLimits \cup {"number_of_scas"}
      PROVE  name \in DOMAIN list /\ r = list[name]
  <2>1. name \in {"mapping_mode", "preset_type", "pixel_advance_mode", "input_logic_polarity", "gate_ignore",
             "number_of_scas"}
    BY <1>7, LimitNames
  <2>2. name \in DOMAIN list
    BY <2>1, ListHas
  <2>3. name \notin ReadFromDevice
    BY <2>1 DEF ReadFromDevice, OptionNames, Plain, BlankingValues, PulseValues, SpectrumValues, OffsetValues,
       OutputValues
  <2> QED
    BY <1>4, <2>2, <2>3
<1> QED
  BY <1>5, <1>6, <1>7

(* What is read is accepted if the value it replaces was, and was in force *)
(* where the handler has limits.                                           *)
LEMMA ReadAccepted ==
  ASSUME NEW dev \in SUBSET Features, NEW p, ParamTypes(p, dev), NEW list, ListTypes(list),
         NEW name \in Names, NEW r, r = Reading(name, p, list, dev), NEW sca,
         name \in DOMAIN list => Accepted(name, list[name], dev),
         name \in {"analog_gain", "analog_offset", "number_mca_channels"} =>
           name \in DOMAIN list /\ Enforced(name, p, list, sca, dev)
  PROVE  Accepted(name, r, dev)
<1>a. CASE name \in OptionNames
  <2>1. name \in DOMAIN p
    BY <1>a, FactoryNames DEF ParamTypes, ParamNames
  <2>2. \E u \in DOMAIN Options[dev][name] : p[name] = Options[dev][name][u]
    BY <1>a, <2>1 DEF ParamTypes, Fits
  <2>3. r \in DOMAIN Options[dev][name]
    BY <1>a, <2>2, OptionRead, ReadingIs
  <2> QED
    BY <1>a, <2>3, AcceptedIs
<1>b. CASE name = "analog_gain"
  <2>1. p["dacGain"] = DacGain(list[name]) /\ r = GainReading(p["dacGain"])
    BY <1>b, ForceIs, ReadingIs
  <2>2. list[name] \in GainMin .. GainMax
    BY <1>b, AcceptedIs, LimitNames DEF AnalogLimits
  <2>3. r \in GainMin .. GainMax
    BY <2>1, <2>2, DacGainTwice
  <2> QED
    BY <1>b, <2>3, AcceptedIs, LimitNames DEF AnalogLimits
<1>c. CASE name = "analog_offset"
  <2>1. p["dacOffset"] = list[name] - DacOffsetMin /\ r = p["dacOffset"] + DacOffsetMin
    BY <1>c, ForceIs, ReadingIs
  <2>2. list[name] \in Int
    BY <1>c, ListHas
  <2>3. r = list[name]
    BY <2>1, <2>2 DEF DacOffsetMin
  <2> QED
    BY <1>c, <2>3
<1>d. CASE name = "number_mca_channels"
  <2>1. r = list[name]
    BY <1>d, ForceIs, ReadingIs
  <2> QED
    BY <1>d, <2>1
<1>e. CASE name \notin ReadFromDevice
  <2>1. r = IF name \in DOMAIN list THEN list[name] ELSE 0
    BY <1>e, ReadingIs
  <2>2. name \in DOMAIN list \/ name \in ScaNames \cup {"risetime_optimization"}
    BY DEF Names, ListTypes
  <2>3. name \in ScaNames \cup {"risetime_optimization"} => Accepted(name, r, dev)
    BY TheScas, SMTT(20) DEF Accepted, OptionNames, AnalogLimits, ModeLimits, SpectrumLimits, GateLimits
  <2> QED
    BY <2>1, <2>2, <2>3
<1>f. CASE name \in Plain \cup {"detector_polarity", "risetime_optimization", "preset_value", "mca_start_channel"}
  BY <1>f, SMTT(20) DEF Accepted, OptionNames, AnalogLimits, ModeLimits, SpectrumLimits, GateLimits, Plain,
     BlankingValues, PulseValues, SpectrumValues, OffsetValues, OutputValues
<1> QED
  BY <1>a, <1>b, <1>c, <1>d, <1>e, <1>f DEF ReadFromDevice

(* GetValue keeps the invariant.                                           *)
LEMMA GetValueKeeps ==
  ASSUME AcqInv, NEW name \in Names, GetValue(name)
  PROVE  AcqInv'
<1> DEFINE r == Reading(name, params, defaults, device)
<1> USE DEF AcqInv
<1>0. /\ defaults' = Put(defaults, name, r)
      /\ settled' = IF name \in ReadFromDevice THEN settled \cup {name} ELSE settled
      /\ up /\ up' = up /\ device' = device /\ saved' = saved /\ running' = running /\ started' = started
      /\ n_sca' = n_sca /\ polarity' = polarity /\ offered' = offered /\ params' = params
      /\ refused' = refused /\ restarted' = FALSE /\ misfit' = misfit /\ refreshSet' = refreshSet
  BY DEF GetValue, Called
<1>1. /\ ListTypes(defaults) /\ ParamTypes(params, device) /\ device \in SUBSET Features
      /\ settled \subseteq DOMAIN defaults /\ refused \in Nat /\ n_sca = defaults["number_of_scas"]
  BY <1>0, DeviceIs DEF AcqTypes
<1>2. /\ r \in Int /\ Kept(name, r) = r
      /\ name \in DOMAIN ModeLimits \cup DOMAIN GateLimits \cup {"number_of_scas"} =>
           name \in DOMAIN defaults /\ r = defaults[name]
  BY <1>1, ReadType
<1>3. r = Reading(name, params, defaults, device)
  OBVIOUS
<1> HIDE DEF r
<1>4. DOMAIN defaults' = DOMAIN defaults \cup {name}
  BY <1>0, PutDomain
<1>5. defaults'[name] = r /\ \A n \in DOMAIN defaults : n # name => defaults'[n] = defaults[n]
  BY <1>0, PutIs
<1>6. ListTypes(defaults')
  <2>1. DOMAIN DEFAULT_ACQ_VALUES \subseteq DOMAIN defaults'
    BY <1>1, <1>4 DEF ListTypes
  <2>2. \A n \in DOMAIN defaults' : n # name => defaults'[n] = defaults[n]
    BY <1>4, <1>5
  <2>3. /\ name \in DOMAIN ModeLimits => r \in ModeLimits[name]
        /\ name \in DOMAIN GateLimits => r \in GateLimits[name]
        /\ name = "number_of_scas" => r \in 0 .. MaxScas
    BY <1>1, <1>2 DEF ListTypes
  <2> QED
    BY <1>1, <1>2, <1>4, <1>5, <2>1, <2>2, <2>3, ChangeTypes
<1>7. defaults'["preset_type"] = defaults["preset_type"]
      /\ defaults'["number_of_scas"] = defaults["number_of_scas"]
  <2>1. /\ name \in {"preset_type", "number_of_scas"} => r = defaults[name]
        /\ "preset_type" \in DOMAIN defaults /\ "number_of_scas" \in DOMAIN defaults
    BY <1>1, <1>2, ListHas, LimitNames
  <2> QED
    BY <1>5, <2>1
<1>8. AcqTypes'
  BY <1>0, <1>1, <1>4, <1>6, <1>7 DEF AcqTypes
<1>9. ValuesInForce'
  <2>1. ASSUME NEW n \in settled' \ {"mca_refresh"}
        PROVE  Enforced(n, params', defaults', n_sca', device')
    <3>1. CASE n = name /\ name \in ReadFromDevice
      <4>1. Enforced(name, params, defaults', n_sca, device)
        BY <1>1, <1>3, <1>5, <1>6, <1>7, <3>1, ReadValue
      <4> QED
        BY <1>0, <3>1, <4>1
    <3>2. CASE ~(n = name /\ name \in ReadFromDevice)
      <4>1. n \in settled \ {"mca_refresh"} /\ n \in DOMAIN defaults /\ n \in Names
        BY <1>0, <1>1, <3>2, ListHas
      <4>2. Enforced(n, params, defaults, n_sca, device)
        BY <1>0, <4>1, ValuesAre DEF Forced
      <4>3. defaults'[n] = defaults[n]
        BY <1>3, <1>5, <3>2, <4>1, ReadingIs
      <4>4. n_sca' = defaults'["number_of_scas"] /\ n_sca' \in 0 .. MaxScas
        BY <1>0, <1>1, <1>7, ListHas
      <4> QED
        BY <1>0, <1>7, <4>1, <4>2, <4>3, <4>4, ForceKept
    <3> QED
      BY <3>1, <3>2
  <2> QED
    BY <2>1, ValuesAre DEF Forced
<1>10. NothingRefused'
  <2>1. ASSUME refused = 0
        PROVE  AllAccepted(defaults', device)
    <3>1. AllAccepted(defaults, device)
            /\ DOMAIN DEFAULT_ACQ_VALUES \ {"dc_offset", "preset_value", "mca_refresh"} \subseteq settled
      BY <1>0, <2>1 DEF NothingRefused
    <3>2. ASSUME name \in {"analog_gain", "analog_offset", "number_mca_channels"}
          PROVE  name \in DOMAIN defaults /\ Enforced(name, params, defaults, n_sca, device)
      <4>1. name \in settled \ {"mca_refresh"}
        BY <3>1, <3>2 DEF DEFAULT_ACQ_VALUES
      <4> QED
        BY <1>0, <1>1, <4>1, ValuesAre DEF Forced
    <3>3. Accepted(name, r, device)
      BY <1>1, <1>3, <3>1, <3>2, ReadAccepted DEF AllAccepted
    <3> QED
      BY <1>4, <1>5, <3>1, <3>3 DEF AllAccepted
  <2> QED
    BY <1>0, <2>1 DEF NothingRefused
<1>11. RestartRestores'
  BY <1>0 DEF RestartRestores
<1>12. RunConfigured'
  BY <1>0, RunKept
<1> QED
  BY <1>8, <1>9, <1>10, <1>11, <1>12

---------------------------------------------------------------------------
(* What a run configures.                                                  *)

(* A parameter is what the writes for it say when they all say the same.   *)
LEMMA AfterAgreed ==
  ASSUME NEW p, NEW w, w \in Seq(Range(w)), NEW x \in DOMAIN p, NEW v,
         \E m \in Range(w) : m[1] = x, \A m \in Range(w) : m[1] = x => m[2] = v
  PROVE  AfterWrites(p, w)[x] = v
<1>1. PICK m \in Range(w) : m[1] = x /\ AfterWrites(p, w)[x] = m[2]
  BY AfterSent
<1> QED
  BY <1>1

(* A sequence over a set is one over a larger set.                         *)
LEMMA SeqGrows ==
  ASSUME NEW A, NEW B, NEW s \in Seq(A), A \subseteq B
  PROVE  s \in Seq(B)
<1>1. s \in [1 .. Len(s) -> A] /\ Len(s) \in Nat
  BY SeqDef, LenProperties
<1>2. s \in [1 .. Len(s) -> B]
  BY <1>1
<1> QED
  BY <1>1, <1>2, SeqDef

(* Two sequences joined hold what both held.                               *)
LEMMA JoinRange ==
  ASSUME NEW s, NEW t, s \in Seq(Range(s)), t \in Seq(Range(t))
  PROVE  s \o t \in Seq(Range(s \o t)) /\ Range(s \o t) = Range(s) \cup Range(t)
<1> DEFINE A == Range(s)
           B == Range(t)
           C == A \cup B
<1>1. s \in Seq(A) /\ t \in Seq(B) /\ A \subseteq C /\ B \subseteq C
  OBVIOUS
<1>3. Range(s) = A /\ Range(t) = B /\ C = A \cup B
  OBVIOUS
<1> HIDE DEF A, B, C
<1>2. s \in Seq(C) /\ t \in Seq(C)
  BY <1>1, SeqGrows
<1>4. s \o t \in Seq(C) /\ Range(s \o t) = Range(s) \cup Range(t)
  BY <1>2, ConcatProperties, RangeConcatenation
<1> QED
  BY <1>4, SeqOfRange

VetoSet(veto, dev) == IF "mcaGateVeto" \in dev THEN {<<"veto", veto>>} ELSE {}
RunSet(md, list, dev) ==
  IF md = 0
  THEN {<<"mode", ModeOfPreset(list)>>, <<"refreshRate", RefreshOf(0, list)>>, <<"statsCollection", "off">>}
         \cup VetoSet(Veto(list), dev)
  ELSE IF md = 1
  THEN {<<"mode", AdvanceMode(list)>>, <<"refreshRate", RefreshOf(1, list)>>} \cup VetoSet("off", dev)
         \cup (IF Gated(list) THEN {<<"statsCollection", Collection(list)>>} ELSE {})
  ELSE {<<"mode", ModeOfPreset(list)>>, <<"refreshRate", RefreshOf(3, list)>>} \cup VetoSet(Veto(list), dev)

(* A sequence of one is a sequence over what it holds.                     *)
LEMMA OneSeq ==
  ASSUME NEW e
  PROVE  <<e>> \in Seq(Range(<<e>>)) /\ Range(<<e>>) = {e}
BY OneRange

(* The write of the veto as a set, none without the feature.               *)
LEMMA VetoRange ==
  ASSUME NEW veto, NEW dev
  PROVE  VetoWrites(veto, dev) \in Seq(Range(VetoWrites(veto, dev)))
           /\ Range(VetoWrites(veto, dev)) = VetoSet(veto, dev)
BY OneSeq, EmptyRange DEF VetoWrites, VetoSet

(* The writes of a run as a set.                                           *)
LEMMA RunRange ==
  ASSUME NEW md \in {0, 1, 3}, NEW list, NEW dev, NEW w, w = RunWrites(md, list, dev)
  PROVE  w \in Seq(Range(w)) /\ Range(w) = RunSet(md, list, dev)
<1> DEFINE m(k) == <<<<"mode", k>>>>
           r == RefreshWrites(RefreshOf(md, list))
           c == CollectionCleared
           g == IF Gated(list) THEN <<<<"statsCollection", Collection(list)>>>> ELSE << >>
           v == VetoWrites(Veto(list), dev)
           u == VetoWrites("off", dev)
<1>1. \A k : m(k) \in Seq(Range(m(k))) /\ Range(m(k)) = {<<"mode", k>>}
  BY OneSeq
<1>2. r \in Seq(Range(r)) /\ Range(r) = {<<"refreshRate", RefreshOf(md, list)>>}
  BY OneSeq DEF RefreshWrites
<1>3. c \in Seq(Range(c)) /\ Range(c) = {<<"statsCollection", "off">>}
  BY OneSeq DEF CollectionCleared
<1>4. g \in Seq(Range(g)) /\ Range(g) = IF Gated(list) THEN {<<"statsCollection", Collection(list)>>} ELSE {}
  BY OneSeq, EmptyRange
<1>5. /\ v \in Seq(Range(v)) /\ Range(v) = VetoSet(Veto(list), dev)
      /\ u \in Seq(Range(u)) /\ Range(u) = VetoSet("off", dev)
  BY VetoRange
<1>6. CASE md = 0
  <2> DEFINE a == m(ModeOfPreset(list))
  <2>1. w = ((a \o r) \o c) \o v
    BY <1>6 DEF RunWrites
  <2>2. a \in Seq(Range(a)) /\ Range(a) = {<<"mode", ModeOfPreset(list)>>}
    BY <1>1
  <2> HIDE DEF a, m, r, c, g, v, u
  <2>3. a \o r \in Seq(Range(a \o r)) /\ Range(a \o r) = Range(a) \cup Range(r)
    BY <1>2, <2>2, JoinRange
  <2>4. (a \o r) \o c \in Seq(Range((a \o r) \o c)) /\ Range((a \o r) \o c) = Range(a \o r) \cup Range(c)
    BY <1>3, <2>3, JoinRange
  <2> DEFINE e == ((a \o r) \o c) \o v
  <2>6. e \in Seq(Range(e)) /\ Range(e) = Range((a \o r) \o c) \cup Range(v)
    BY <1>5, <2>4, JoinRange
  <2>5. w \in Seq(Range(w)) /\ Range(w) = Range((a \o r) \o c) \cup Range(v)
    <3>1. w = e
      BY <2>1
    <3> HIDE DEF e
    <3> QED
      BY <2>6, <3>1
  <2> QED
    BY <1>2, <1>3, <1>5, <1>6, <2>2, <2>3, <2>4, <2>5 DEF RunSet
<1>7. CASE md = 1
  <2> DEFINE a == m(AdvanceMode(list))
  <2>1. w = ((a \o u) \o r) \o g
    BY <1>7 DEF RunWrites
  <2>2. a \in Seq(Range(a)) /\ Range(a) = {<<"mode", AdvanceMode(list)>>}
    BY <1>1
  <2> HIDE DEF a, m, r, c, g, v, u
  <2>3. a \o u \in Seq(Range(a \o u)) /\ Range(a \o u) = Range(a) \cup Range(u)
    BY <1>5, <2>2, JoinRange
  <2>4. (a \o u) \o r \in Seq(Range((a \o u) \o r)) /\ Range((a \o u) \o r) = Range(a \o u) \cup Range(r)
    BY <1>2, <2>3, JoinRange
  <2> DEFINE e == ((a \o u) \o r) \o g
  <2>6. e \in Seq(Range(e)) /\ Range(e) = Range((a \o u) \o r) \cup Range(g)
    BY <1>4, <2>4, JoinRange
  <2>5. w \in Seq(Range(w)) /\ Range(w) = Range((a \o u) \o r) \cup Range(g)
    <3>1. w = e
      BY <2>1
    <3> HIDE DEF e
    <3> QED
      BY <2>6, <3>1
  <2> QED
    BY <1>2, <1>4, <1>5, <1>7, <2>2, <2>3, <2>4, <2>5 DEF RunSet
<1>8. CASE md = 3
  <2> DEFINE a == m(ModeOfPreset(list))
  <2>1. w = (a \o r) \o v
    BY <1>8 DEF RunWrites
  <2>2. a \in Seq(Range(a)) /\ Range(a) = {<<"mode", ModeOfPreset(list)>>}
    BY <1>1
  <2> HIDE DEF a, m, r, c, g, v, u
  <2>3. a \o r \in Seq(Range(a \o r)) /\ Range(a \o r) = Range(a) \cup Range(r)
    BY <1>2, <2>2, JoinRange
  <2> DEFINE e == (a \o r) \o v
  <2>6. e \in Seq(Range(e)) /\ Range(e) = Range(a \o r) \cup Range(v)
    BY <1>5, <2>3, JoinRange
  <2>5. w \in Seq(Range(w)) /\ Range(w) = Range(a \o r) \cup Range(v)
    <3>1. w = e
      BY <2>1
    <3> HIDE DEF e
    <3> QED
      BY <2>6, <3>1
  <2> QED
    BY <1>2, <1>5, <1>8, <2>2, <2>3, <2>5 DEF RunSet
<1> QED
  BY <1>6, <1>7, <1>8

RunParams == {"mode", "refreshRate", "statsCollection", "veto"}

(* A run configures four parameters.                                       *)
LEMMA RunSetParams ==
  ASSUME NEW md, NEW list, NEW dev, NEW m \in RunSet(md, list, dev)
  PROVE  m[1] \in RunParams
BY DEF RunSet, VetoSet, RunParams

(* One of them is what the only write of a run for it says.                *)
LEMMA RunSays ==
  ASSUME NEW p, NEW w, w \in Seq(Range(w)), NEW x \in DOMAIN p, NEW v, <<x, v>> \in Range(w),
         \A m \in Range(w) : m[1] = x => m[2] = v, NEW q, q = AfterWrites(p, w)
  PROVE  q[x] = v
<1>1. \E m \in Range(w) : m[1] = x
  OBVIOUS
<1>2. AfterWrites(p, w)[x] = v
  BY <1>1, AfterAgreed
<1> QED
  BY <1>2

(* What those are after a run was configured.                              *)
LEMMA RunAfter ==
  ASSUME NEW p, DOMAIN p = DOMAIN Factory, NEW md \in {0, 1, 3}, NEW list, NEW dev, NEW q,
         q = AfterWrites(p, RunWrites(md, list, dev))
  PROVE  /\ q["mode"] = IF md = 1 THEN AdvanceMode(list) ELSE ModeOfPreset(list)
         /\ q["refreshRate"] = RefreshOf(md, list)
         /\ md = 0 => q["statsCollection"] = "off"
         /\ md = 1 /\ Gated(list) => q["statsCollection"] = Collection(list)
         /\ "mcaGateVeto" \in dev => q["veto"] = IF md = 1 THEN "off" ELSE Veto(list)
         /\ "mcaGateVeto" \notin dev => q["veto"] = p["veto"]
<1> DEFINE w == RunWrites(md, list, dev)
           R == RunSet(md, list, dev)
<1>1. w \in Seq(Range(w)) /\ Range(w) = R
  BY RunRange
<1>2. RunParams \subseteq DOMAIN p
  BY FactoryNames DEF ParamNames, RunParams
<1>3. q = AfterWrites(p, w)
  OBVIOUS
<1> HIDE DEF w, R
<1>4. ASSUME NEW x \in RunParams, NEW v, <<x, v>> \in R, \A m \in R : m[1] = x => m[2] = v
      PROVE  q[x] = v
  BY <1>1, <1>2, <1>3, <1>4, RunSays
<1> USE DEF RunSet, VetoSet, RunParams
<1>5. q["mode"] = IF md = 1 THEN AdvanceMode(list) ELSE ModeOfPreset(list)
  <2> DEFINE v == IF md = 1 THEN AdvanceMode(list) ELSE ModeOfPreset(list)
  <2>1. <<"mode", v>> \in R /\ \A m \in R : m[1] = "mode" => m[2] = v
    BY DEF R
  <2> HIDE DEF v
  <2>2. "mode" \in RunParams
    OBVIOUS
  <2>3. q["mode"] = v
    BY <1>4, <2>1, <2>2
  <2> QED
    BY <2>3 DEF v
<1>6. q["refreshRate"] = RefreshOf(md, list)
  <2> DEFINE v == RefreshOf(md, list)
  <2>1. <<"refreshRate", v>> \in R /\ \A m \in R : m[1] = "refreshRate" => m[2] = v
    BY DEF R
  <2> HIDE DEF v
  <2>2. "refreshRate" \in RunParams
    OBVIOUS
  <2>3. q["refreshRate"] = v
    BY <1>4, <2>1, <2>2
  <2> QED
    BY <2>3 DEF v
<1>7. ASSUME md = 0 PROVE q["statsCollection"] = "off"
  <2>1. <<"statsCollection", "off">> \in R /\ \A m \in R : m[1] = "statsCollection" => m[2] = "off"
    BY <1>7 DEF R
  <2>2. "statsCollection" \in RunParams
    OBVIOUS
  <2> QED
    BY <1>4, <2>1, <2>2
<1>8. ASSUME md = 1, Gated(list) PROVE q["statsCollection"] = Collection(list)
  <2> DEFINE v == Collection(list)
  <2>1. <<"statsCollection", v>> \in R /\ \A m \in R : m[1] = "statsCollection" => m[2] = v
    BY <1>8 DEF R
  <2> HIDE DEF v
  <2>2. "statsCollection" \in RunParams
    OBVIOUS
  <2>3. q["statsCollection"] = v
    BY <1>4, <2>1, <2>2
  <2> QED
    BY <2>3 DEF v
<1>9. ASSUME "mcaGateVeto" \in dev PROVE q["veto"] = IF md = 1 THEN "off" ELSE Veto(list)
  <2> DEFINE v == IF md = 1 THEN "off" ELSE Veto(list)
  <2>1. <<"veto", v>> \in R /\ \A m \in R : m[1] = "veto" => m[2] = v
    BY <1>9 DEF R
  <2> HIDE DEF v
  <2>2. "veto" \in RunParams
    OBVIOUS
  <2>3. q["veto"] = v
    BY <1>4, <2>1, <2>2
  <2> QED
    BY <2>3 DEF v
<1>10. ASSUME "mcaGateVeto" \notin dev PROVE q["veto"] = p["veto"]
  <2>1. \A m \in R : m[1] # "veto"
    BY <1>10 DEF R
  <2>2. "veto" \in DOMAIN p
    BY <1>2
  <2> QED
    BY <1>1, <1>3, <2>1, <2>2, AfterUntouched
<1> QED
  BY <1>5, <1>6, <1>7, <1>8, <1>9, <1>10

(* Configuring a run leaves the values in force but the refresh rate, and  *)
(* sends the device nothing it does not have.                              *)
LEMMA RunLeaves ==
  ASSUME AcqTypes, up, NEW md \in {0, 1, 3}, NEW q,
         Outcome(params, q, Range(RunWrites(md, defaults, device))),
         Forced(settled, params, defaults, n_sca, device)
  PROVE  /\ ParamTypes(q, device)
         /\ Forced(settled \ {"mca_refresh"}, q, defaults, n_sca, device)
<1> DEFINE w == RunWrites(md, defaults, device)
           R == Range(w)
<1>0. Outcome(params, q, R) /\ R = RunSet(md, defaults, device)
  BY RunRange
<1> HIDE DEF R, w
<1>1. \A m \in R : m[1] \in RunParams
  BY <1>0, RunSetParams
<1>2. \A m \in R : Fits(m[1], m[2], device)
  <2>1. RunParams \cap (NumberParams \cup Flags \cup OptionNames \cup {"dacGain", "riseTime"}) = {}
    BY DEF RunParams, NumberParams, Flags, OptionNames, Plain, BlankingValues, PulseValues, SpectrumValues,
       OffsetValues, OutputValues
  <2>2. \A m \in R : m[1] = "veto" => "mcaGateVeto" \in device
    BY <1>0 DEF RunSet, VetoSet
  <2> QED
    BY <1>1, <2>1, <2>2 DEF Fits
<1>3. ParamTypes(q, device)
  BY <1>0, <1>2, OutcomeFits DEF AcqTypes
<1>4. ASSUME NEW n \in settled \ {"mca_refresh"}
      PROVE  Enforced(n, q, defaults, n_sca, device)
  <2>1. Enforced(n, params, defaults, n_sca, device) /\ n \in Names
    BY <1>4, ListHas DEF Forced, AcqTypes
  <2>2. n_sca = defaults["number_of_scas"] /\ n_sca \in 0 .. MaxScas /\ ListTypes(defaults)
    BY ListHas DEF AcqTypes
  <2>3. ParamsOf(n, defaults) \cap RunParams = {}
    <3>1. PresetOf(defaults) \in PresetParams
      BY <2>2, PresetIsNumber
    <3> QED
      BY <1>4, <3>1 DEF ParamsOf, RunParams, PresetParams, OptionNames, Plain, BlankingValues, PulseValues,
         SpectrumValues, OffsetValues, OutputValues
  <2>4. ParamsOf(n, defaults) \subseteq DOMAIN params
    BY <2>2, ParamsOfAre, DeviceIs
  <2>5. \A x \in ParamsOf(n, defaults) : q[x] = params[x]
    BY <1>0, <1>1, <2>3, <2>4, OutcomeKeeps
  <2> QED
    BY <2>1, <2>2, <2>5, ForceKept
<1> QED
  BY <1>3, <1>4 DEF Forced

(* No type of preset makes a run gated.                                    *)
LEMMA ModeOfPresetIs ==
  ASSUME NEW list, ListTypes(list)
  PROVE  ModeOfPreset(list) \in {"continuous", "fixedTime", "fixedOutputCount", "fixedInputCount"}
<1>1. list["preset_type"] \in {0, 1, 3, 4}
  BY ListHas
<1> QED
  BY <1>1 DEF ModeOfPreset, AcqValue

(* Starting a run keeps the invariant, and it is the step that             *)
(* RunConfigured is about.                                                 *)
LEMMA StartRunKeeps ==
  ASSUME AcqInv, NEW md \in {0, 1, 3}, StartRun(md)
  PROVE  AcqInv'
<1> DEFINE w == RunWrites(md, defaults, device)
<1> USE DEF AcqInv
<1>0. /\ params' = AfterWrites(params, w)
      /\ up /\ up' = up /\ device' = device /\ saved' = saved /\ started' = defaults
      /\ defaults' = defaults /\ n_sca' = n_sca /\ polarity' = polarity /\ offered' = offered
      /\ refused' = refused /\ restarted' = FALSE /\ misfit' = misfit
      /\ settled' = settled \ {"mca_refresh"} /\ refreshSet' = FALSE
      /\ running' = <<"0", "1", "2", "3">>[md + 1]
  BY DEF StartRun, Called
<1>1. running' = IF md = 0 THEN "0" ELSE IF md = 1 THEN "1" ELSE "3"
  BY <1>0
<1>2. Outcome(params, params', Range(w))
  <2>1. w \in Seq(Range(w))
    BY RunRange
  <2> QED
    BY <1>0, <2>1, AfterOutcome
<1>3. ParamTypes(params', device) /\ Forced(settled \ {"mca_refresh"}, params', defaults, n_sca, device)
  BY <1>0, <1>2, RunLeaves, ValuesAre
<1>4. AcqTypes'
  BY <1>0, <1>1, <1>3 DEF AcqTypes
<1>5. ValuesInForce'
  BY <1>0, <1>3, ValuesAre
<1>6. NothingRefused'
  BY <1>0 DEF NothingRefused
<1>7. RestartRestores'
  BY <1>0 DEF RestartRestores
<1>8. RunConfigured'
  <2>1. DOMAIN params = DOMAIN Factory /\ ListTypes(defaults)
    BY DeviceIs DEF AcqTypes
  <2>2. /\ params'["mode"] = IF md = 1 THEN AdvanceMode(defaults) ELSE ModeOfPreset(defaults)
        /\ params'["refreshRate"] = RefreshOf(md, defaults)
        /\ md = 0 => params'["statsCollection"] = "off"
        /\ md = 1 /\ Gated(defaults) => params'["statsCollection"] = Collection(defaults)
        /\ "mcaGateVeto" \in device => params'["veto"] = IF md = 1 THEN "off" ELSE Veto(defaults)
        /\ "mcaGateVeto" \notin device => params'["veto"] = params["veto"]
    BY <1>0, <2>1, RunAfter
  <2>3. "mcaGateVeto" \notin device => params["veto"] = "off"
    <3>1. "veto" \in DOMAIN params
      BY <2>1, FactoryNames DEF ParamNames
    <3> QED
      BY <3>1 DEF AcqTypes, ParamTypes, Fits
  <2>4. defaults["gate_ignore"] \in {0, 1} /\ ModeOfPreset(defaults) # "gated"
    BY <2>1, ListHas, ModeOfPresetIs
  <2>5. running' = "0" <=> md = 0
    BY <1>1
  <2>6. running' = "1" <=> md = 1
    BY <1>1
  <2> DEFINE gated == md = 1 /\ Gated(defaults)
             obeys == md \in {0, 3} /\ defaults["gate_ignore"] = 0 /\ "mcaGateVeto" \in device
  <2>7. params'["refreshRate"] = IF gated THEN 0 ELSE defaults["mca_refresh"]
    BY <2>2 DEF RefreshOf, AcqValue
  <2>8. gated <=> params'["mode"] = "gated"
    BY <2>2, <2>4 DEF AdvanceMode
  <2>9. gated => params'["veto"] = "off" /\ params'["statsCollection"] # "off"
    BY <2>2, <2>3 DEF Collection, ActiveLevel
  <2>10. obeys => params'["veto"] \in {"whenLow", "whenHigh"} \ {Collection(defaults)}
    <3>1. obeys => params'["veto"] = Opposite(ActiveLevel(defaults)) /\ Collection(defaults) = ActiveLevel(defaults)
      BY <2>2 DEF Veto, Collection, AcqValue
    <3> QED
      BY <3>1 DEF Opposite, ActiveLevel
  <2>11. ~obeys => params'["veto"] = "off"
    BY <2>2, <2>3, <2>4 DEF Veto, AcqValue
  <2>12. obeys <=> running' \in {"0", "3"} /\ started'["gate_ignore"] = 0 /\ "mcaGateVeto" \in device'
    BY <1>0, <1>1
  <2>13. gated <=> running' = "1" /\ Gated(started')
    BY <1>0, <2>6
  <2> HIDE DEF gated, obeys
  <2> QED
    BY <1>0, <2>2, <2>5, <2>7, <2>8, <2>9, <2>10, <2>11, <2>12, <2>13 DEF RunConfigured
<1> QED
  BY <1>4, <1>5, <1>6, <1>7, <1>8

(* A run that was not started keeps it: the parameters it left are no      *)
(* value's but the refresh rate's.                                         *)
LEMMA StartRunFailsKeeps ==
  ASSUME AcqInv, NEW md \in {0, 1, 3}, StartRunFails(md)
  PROVE  AcqInv'
<1> DEFINE w == RunWrites(md, defaults, device)
<1> USE DEF AcqInv
<1>0. /\ params' \in Range(Stages(params, w))
      /\ up /\ up' = up /\ device' = device /\ saved' = saved /\ started' = started
      /\ defaults' = defaults /\ n_sca' = n_sca /\ polarity' = polarity /\ offered' = offered
      /\ refused' = refused + 1 /\ restarted' = FALSE /\ misfit' = misfit
      /\ settled' = settled \ {"mca_refresh"} /\ running' = running /\ running = "none"
  BY DEF StartRunFails, Called, Refused
<1>1. Outcome(params, params', Range(w))
  <2>1. w \in Seq(Range(w))
    BY RunRange
  <2> QED
    BY <1>0, <2>1, StageOutcome
<1>2. ParamTypes(params', device) /\ Forced(settled \ {"mca_refresh"}, params', defaults, n_sca, device)
  BY <1>0, <1>1, RunLeaves, ValuesAre
<1>3. AcqTypes'
  BY <1>0, <1>2 DEF AcqTypes
<1>4. ValuesInForce'
  BY <1>0, <1>2, ValuesAre
<1>5. NothingRefused'
  BY <1>0 DEF NothingRefused, AcqTypes
<1>6. RestartRestores'
  BY <1>0 DEF RestartRestores
<1>7. RunConfigured'
  BY <1>0 DEF RunConfigured
<1> QED
  BY <1>3, <1>4, <1>5, <1>6, <1>7

(* Stopping a run keeps it.                                                *)
LEMMA StopRunKeeps ==
  ASSUME AcqInv, StopRun
  PROVE  AcqInv'
<1> USE DEF AcqInv, StopRun, Called
<1>1. AcqTypes'
  BY DEF AcqTypes
<1>2. ValuesInForce'
  BY ValuesAre
<1>3. NothingRefused' /\ RestartRestores' /\ RunConfigured'
  BY DEF NothingRefused, RestartRestores, RunConfigured
<1> QED
  BY <1>1, <1>2, <1>3

(* Saving keeps it: the list that is saved was accepted if no parameter    *)
(* was refused.                                                            *)
LEMMA SaveValuesKeeps ==
  ASSUME AcqInv, SaveValues
  PROVE  AcqInv'
<1> USE DEF AcqInv
<1>0. /\ up /\ up' = up /\ device' = device /\ params' = params /\ started' = started
      /\ defaults' = defaults /\ n_sca' = n_sca /\ polarity' = polarity /\ offered' = offered
      /\ refused' = refused /\ restarted' = FALSE /\ misfit' = misfit /\ settled' = settled
      /\ running' = running /\ refreshSet' = refreshSet
      /\ saved' = [list |-> defaults, polarity |-> polarity, device |-> device, clean |-> refused = 0]
  BY DEF SaveValues, Called
<1>1. AcqTypes'
  BY <1>0 DEF AcqTypes
<1>2. ValuesInForce'
  BY <1>0, ValuesAre
<1>3. NothingRefused'
  <2>1. (up' /\ refused' = 0) =>
          /\ DOMAIN DEFAULT_ACQ_VALUES \ {"dc_offset", "preset_value", "mca_refresh"} \subseteq settled'
          /\ AllAccepted(defaults', device')
    BY <1>0 DEF NothingRefused
  <2>2. saved'.clean => AllAccepted(saved'.list, saved'.device)
    BY <1>0 DEF NothingRefused
  <2> QED
    BY <2>1, <2>2 DEF NothingRefused
<1>4. RestartRestores' /\ RunConfigured'
  BY <1>0, RunKept DEF RestartRestores
<1> QED
  BY <1>1, <1>2, <1>3, <1>4

---------------------------------------------------------------------------
(* The values sent at set-up.                                              *)
LEMMA TheOrder ==
  /\ Order \in Seq(Names) /\ Len(Order) = 38
  /\ \A n \in Names : \E k \in 1 .. 38 : Order[k] = n
<1>1. Len(Order) = 38
  BY DEF Order
<1>2. ASSUME NEW n \in DOMAIN DEFAULT_ACQ_VALUES \cup {"risetime_optimization", "sca0", "sca1"}
      PROVE  \E k \in 1 .. 38 : Order[k] = n
  <2>1. \E k \in 1 .. 38 : k \in DOMAIN Order /\ Order[k] = n
    BY SMTT(60) DEF DEFAULT_ACQ_VALUES, Order
  <2> QED
    BY <2>1
<1>3. \A k \in 1 .. 38 : Order[k] \in DOMAIN DEFAULT_ACQ_VALUES \cup {"risetime_optimization", "sca0", "sca1"}
  BY SMTT(60) DEF DEFAULT_ACQ_VALUES, Order
<1>4. Names = DOMAIN DEFAULT_ACQ_VALUES \cup {"risetime_optimization", "sca0", "sca1"}
  BY TheScas DEF Names
<1>5. Order \in Seq(DOMAIN DEFAULT_ACQ_VALUES \cup {"risetime_optimization", "sca0", "sca1"})
  BY SMTT(60) DEF DEFAULT_ACQ_VALUES, Order
<1> QED
  BY <1>1, <1>2, <1>4, <1>5

(* So they are in any order of a saved file.                               *)
LEMMA TheOrders ==
  ASSUME NEW order \in Orders
  PROVE  /\ order \in Seq(Names) /\ Len(order) = 38
         /\ \A n \in Names : \E k \in 1 .. 38 : order[k] = n
<1>1. CASE order = Order
  BY <1>1, TheOrder
<1>2. CASE order = Reverse(Order)
  <2>1. order = [i \in 1 .. 38 |-> Order[39 - i]]
    <3>1. order = [i \in 1 .. Len(Order) |-> Order[(Len(Order) - i) + 1]]
      BY <1>2 DEF Reverse
    <3>2. \A i \in 1 .. 38 : (38 - i) + 1 = 39 - i
      OBVIOUS
    <3> QED
      BY <3>1, <3>2, TheOrder
  <2>2. \A i \in 1 .. 38 : 39 - i \in 1 .. 38 /\ 39 - (39 - i) = i
    OBVIOUS
  <2>3. \A i \in 1 .. 38 : Order[39 - i] \in Names
    BY <2>2, TheOrder, ElementOfSeq
  <2>4. order \in Seq(Names) /\ Len(order) = 38
    BY <2>1, <2>3
  <2>5. ASSUME NEW n \in Names
        PROVE  \E k \in 1 .. 38 : order[k] = n
    <3>1. PICK k \in 1 .. 38 : Order[k] = n
      BY TheOrder
    <3>2. order[39 - k] = n
      BY <2>1, <2>2, <3>1
    <3> QED
      BY <2>2, <3>2
  <2> QED
    BY <2>4, <2>5
<1> QED
  BY <1>1, <1>2 DEF Orders

PresentAccepted(list, dev) == \A n \in Present(list, dev) : Accepted(n, list[n], dev)
PartAccepted(list, part, dev) ==
  \A k \in 1 .. Len(part) : part[k] \in Present(list, dev) => Accepted(part[k], list[part[k]], dev)

(* The first part of a sequence.                                           *)
LEMMA FirstPart ==
  ASSUME NEW S, NEW s \in Seq(S), NEW n \in 0 .. Len(s), NEW first, first = SubSeq(s, 1, n)
  PROVE  first \in Seq(S) /\ Len(first) = n /\ \A k \in 1 .. n : first[k] = s[k]
<1>1. CASE n = 0
  BY <1>1, SubSeqEmpty, EmptySeq
<1>2. CASE n # 0
  <2>1. /\ first \in Seq(S) /\ Len(first) = n
        /\ \A k \in 1 .. n : first[k] = s[k]
    BY <1>2, LenProperties, SubSeqProperties
  <2> QED
    BY <2>1
<1> QED
  BY <1>1, <1>2

(* The part of a list before the first value refused holds no value that   *)
(* is, and is all of it if none is.                                        *)
LEMMA AcceptedPartIs ==
  ASSUME NEW list, NEW order \in Orders, NEW dev, NEW fine, fine = AcceptedPart(list, order, dev)
  PROVE  /\ fine \in Seq(Names) /\ PartAccepted(list, fine, dev)
         /\ DOMAIN list \subseteq Names => (fine = order <=> PresentAccepted(list, dev))
<1> DEFINE refuses(n) == n \in Present(list, dev) /\ ~Accepted(n, list[n], dev)
           bad == {k \in DOMAIN order : refuses(order[k])}
<1>0. /\ order \in Seq(Names) /\ Len(order) = 38 /\ DOMAIN order = 1 .. 38
      /\ \A n \in Names : \E k \in 1 .. 38 : order[k] = n
  BY TheOrders, LenProperties
<1>1. fine = IF bad = {} THEN order ELSE SubSeq(order, 1, Min(bad) - 1)
  BY DEF AcceptedPart
<1>2. CASE bad = {}
  <2>1. fine = order
    BY <1>1, <1>2
  <2>2. \A k \in 1 .. 38 : ~refuses(order[k])
    BY <1>0, <1>2
  <2> HIDE DEF bad
  <2>3. \A k \in 1 .. 38 : order[k] \in Present(list, dev) => Accepted(order[k], list[order[k]], dev)
    BY <2>2
  <2>4. PartAccepted(list, fine, dev)
    BY <1>0, <2>1, <2>3 DEF PartAccepted
  <2>5. ASSUME DOMAIN list \subseteq Names, NEW n \in Present(list, dev)
        PROVE  Accepted(n, list[n], dev)
    <3>1. PICK k \in 1 .. 38 : order[k] = n
      BY <1>0, <2>5 DEF Present
    <3> QED
      BY <2>3, <3>1
  <2>6. DOMAIN list \subseteq Names => PresentAccepted(list, dev)
    BY <2>5 DEF PresentAccepted
  <2> QED
    BY <1>0, <2>1, <2>4, <2>6
<1>3. CASE bad # {}
  <2>1. bad \subseteq Nat
    <3>1. bad \subseteq 1 .. 38
      BY <1>0
    <3> HIDE DEF bad
    <3> QED
      BY <3>1
  <2>2. Min(bad) \in bad /\ \A y \in bad : Min(bad) <= y
    <3>1. \E x \in bad : \A y \in bad : x <= y
      BY <1>3, <2>1, LeastOf
    <3> HIDE DEF bad
    <3> QED
      BY <3>1 DEF Min
  <2> DEFINE b == Min(bad)
  <2>3. b \in 1 .. 38 /\ refuses(order[b]) /\ \A k \in 1 .. 38 : k < b => ~refuses(order[k])
    <3>1. b \in 1 .. 38 /\ refuses(order[b])
      BY <1>0, <2>2
    <3>2. ASSUME NEW k \in 1 .. 38, k < b, refuses(order[k])
          PROVE  FALSE
      <4>1. k \in bad
        BY <1>0, <3>2
      <4>2. b <= k
        BY <2>2, <4>1
      <4> QED
        BY <3>1, <3>2, <4>2
    <3> QED
      BY <3>1, <3>2
  <2>4. fine = SubSeq(order, 1, b - 1)
    BY <1>1, <1>3
  <2> HIDE DEF b, bad
  <2>5. fine \in Seq(Names) /\ Len(fine) = b - 1 /\ \A k \in 1 .. b - 1 : fine[k] = order[k]
    <3> DEFINE c == b - 1
    <3>1. c \in 0 .. Len(order) /\ fine = SubSeq(order, 1, c)
      BY <1>0, <2>3, <2>4
    <3> HIDE DEF c
    <3>0. order \in Seq(Names)
      BY <1>0
    <3>2. fine \in Seq(Names)
      BY <3>0, <3>1, FirstPart
    <3>3. Len(fine) = c
      BY <3>0, <3>1, FirstPart
    <3>4. \A k \in 1 .. c : fine[k] = order[k]
      BY <3>0, <3>1, FirstPart
    <3> QED
      BY <3>2, <3>3, <3>4 DEF c
  <2>6. PartAccepted(list, fine, dev)
    <3>1. ASSUME NEW k \in 1 .. b - 1
          PROVE  ~refuses(fine[k])
      <4>1. k \in 1 .. 38 /\ k < b
        BY <2>3
      <4> QED
        BY <2>3, <2>5, <4>1
    <3>2. ASSUME NEW k \in 1 .. b - 1, fine[k] \in Present(list, dev)
          PROVE  Accepted(fine[k], list[fine[k]], dev)
      BY <3>1, <3>2
    <3>3. 1 .. Len(fine) = 1 .. b - 1
      BY <2>5
    <3> HIDE DEF refuses
    <3> QED
      BY <3>2, <3>3 DEF PartAccepted
  <2>7. fine # order
    <3>1. Len(fine) # 38
      BY <2>3, <2>5
    <3> QED
      BY <1>0, <3>1
  <2>8. ~PresentAccepted(list, dev)
    BY <2>3 DEF PresentAccepted
  <2> QED
    BY <2>5, <2>6, <2>7, <2>8
<1> QED
  BY <1>2, <1>3

(* A value of a list that its handler accepts can be sent.                 *)
LEMMA PresentTakeable ==
  ASSUME NEW list, ListTypes(list), NEW dev, NEW n \in Present(list, dev), Accepted(n, list[n], dev)
  PROVE  Takeable(n, list[n], dev)
BY ListHas DEF Takeable, Present

(* A set-up sends what the handlers of the values present send.            *)
LEMMA SetupRange ==
  ASSUME NEW list, ListTypes(list), NEW dev \in SUBSET Features, NEW part \in Seq(Names),
         PartAccepted(list, part, dev), NEW w, w = SetupWrites(list, part, dev)
  PROVE  /\ w \in Seq(Range(w))
         /\ \A m : m \in Range(w) <=> \E k \in 1 .. Len(part) :
              part[k] \in Present(list, dev) /\ m \in Range(Writes(part[k], list[part[k]], list, 0, dev))
<1> DEFINE s == [k \in DOMAIN part |->
                   IF part[k] \in Present(list, dev) THEN Writes(part[k], list[part[k]], list, 0, dev)
                   ELSE << >>]
           X == UNION {Range(s[k]) : k \in 1 .. Len(part)}
<1>1. w = FlattenSeq(s)
  BY DEF SetupWrites
<1>2. DOMAIN part = 1 .. Len(part) /\ Len(part) \in Nat
  BY LenProperties
<1>3. ASSUME NEW k \in 1 .. Len(part)
      PROVE  /\ s[k] \in Seq(Range(s[k]))
             /\ \A m : m \in Range(s[k]) <=>
                  part[k] \in Present(list, dev) /\ m \in Range(Writes(part[k], list[part[k]], list, 0, dev))
  <2>1. CASE part[k] \in Present(list, dev)
    <3>1. s[k] = Writes(part[k], list[part[k]], list, 0, dev)
      BY <1>2, <2>1
    <3>2. Takeable(part[k], list[part[k]], dev)
      BY <2>1, PresentTakeable DEF PartAccepted
    <3>3. 0 \in 0 .. MaxScas
      BY DEF MaxScas
    <3>4. s[k] \in Seq(Range(s[k]))
      <4> DEFINE n == part[k]
                 v == list[part[k]]
                 c == Writes(n, v, list, 0, dev)
      <4>1. Takeable(n, v, dev) /\ s[k] = c
        BY <3>1, <3>2
      <4> HIDE DEF n, v
      <4>2. c \in Seq(Range(c))
        BY <3>3, <4>1, SentFits
      <4> HIDE DEF c
      <4> QED
        BY <4>1, <4>2
    <3> QED
      BY <2>1, <3>1, <3>4
  <2>2. CASE part[k] \notin Present(list, dev)
    <3>1. s[k] = << >>
      BY <1>2, <2>2
    <3> QED
      BY <2>2, <3>1, EmptyRange
  <2> QED
    BY <2>1, <2>2
<1>4. DOMAIN s = 1 .. Len(part)
  BY <1>2
<1> HIDE DEF s
<1>5. \A k \in 1 .. Len(part) : s[k] \in Seq(X)
  <2>1. SUFFICES ASSUME NEW k \in 1 .. Len(part) PROVE s[k] \in Seq(X)
    OBVIOUS
  <2> DEFINE A == Range(s[k])
  <2>2. A \subseteq X /\ s[k] \in Seq(A)
    BY <1>3
  <2> HIDE DEF X, A
  <2> QED
    BY <2>2, SeqGrows
<1> HIDE DEF X
<1>6. s \in Seq(Seq(X)) /\ Len(s) = Len(part)
  <2>1. \A k \in 1 .. Len(part) : s[k] \in Seq(X)
    BY <1>5
  <2>2. s = [k \in 1 .. Len(part) |-> s[k]]
    BY <1>2 DEF s
  <2> QED
    BY <1>2, <1>4, <2>1, <2>2
<1>7. /\ FlattenSeq(s) \in Seq(X)
      /\ \A m : m \in Range(FlattenSeq(s)) <=> \E k \in 1 .. Len(part) : m \in Range(s[k])
  BY <1>6, FlattenedRange
<1>8. w \in Seq(Range(w))
  BY <1>1, <1>7, SeqOfRange
<1> QED
  BY <1>1, <1>3, <1>7, <1>8

(* What each parameter of a list that is set up is to be, whichever value  *)
(* of the list it is sent for.                                             *)
Meant(x, list, dev) ==
  CASE x \in OptionNames        -> Options[dev][x][list[x]]
    [] x \in Plain              -> Sent(x, list[x])
    [] x = "dacGain"            -> DacGain(list["analog_gain"])
    [] x = "dacOffset"          -> list["analog_offset"] - DacOffsetMin
    [] x = "invert"             -> Inverted(list["detector_polarity"])
    [] x = "riseTime"           -> Rounded(list["risetime_optimization"])
    [] x = "lowIndex"           -> list["mca_start_channel"]
    [] x = "highIndex"          -> list["mca_start_channel"] + list["number_mca_channels"] - 1
    [] x = "coarseBinScaling"   -> Coarse(list["scale_factor"])
    [] x = "scaleFactor"        -> <<list["scale_factor"], Coarse(list["scale_factor"])>>
    [] x = "refreshRate"        -> list["mca_refresh"]
    [] x = "region_01"          -> list["sca0"]
    [] x = "region_02"          -> list["sca1"]
    [] OTHER                    -> list["preset_value"]

NotOption(x) ==
  x \notin OptionNames /\ x \notin Plain

(* The parameters with names of their own are no value's name.             *)
LEMMA NotOptions ==
  \A x \in PresetParams \cup {"dacGain", "dacOffset", "invert", "riseTime", "lowIndex", "highIndex", "coarseBinScaling",
          "scaleFactor", "refreshRate", "region_01", "region_02"} : NotOption(x)
BY DEF NotOption, OptionNames, Plain, BlankingValues, PulseValues, SpectrumValues, OffsetValues, OutputValues,
   PresetParams

(* What a list means each parameter to be.                                 *)
LEMMA MeantIs ==
  ASSUME NEW list, NEW dev
  PROVE  /\ \A x \in OptionNames : Meant(x, list, dev) = Options[dev][x][list[x]]
         /\ \A x \in Plain : Meant(x, list, dev) = Sent(x, list[x])
         /\ Meant("dacGain", list, dev) = DacGain(list["analog_gain"])
         /\ Meant("dacOffset", list, dev) = list["analog_offset"] - DacOffsetMin
         /\ Meant("invert", list, dev) = Inverted(list["detector_polarity"])
         /\ Meant("riseTime", list, dev) = Rounded(list["risetime_optimization"])
         /\ Meant("lowIndex", list, dev) = list["mca_start_channel"]
         /\ Meant("highIndex", list, dev) = list["mca_start_channel"] + list["number_mca_channels"] - 1
         /\ Meant("coarseBinScaling", list, dev) = Coarse(list["scale_factor"])
         /\ Meant("scaleFactor", list, dev) = <<list["scale_factor"], Coarse(list["scale_factor"])>>
         /\ Meant("refreshRate", list, dev) = list["mca_refresh"]
         /\ Meant("region_01", list, dev) = list["sca0"]
         /\ Meant("region_02", list, dev) = list["sca1"]
         /\ \A x \in PresetParams : Meant(x, list, dev) = list["preset_value"]
<1>1. \A x \in OptionNames : Meant(x, list, dev) = Options[dev][x][list[x]]
  BY KindsApart DEF Meant, OptionNames
<1>2. \A x \in Plain : Meant(x, list, dev) = Sent(x, list[x])
  BY KindsApart DEF Meant, Plain, BlankingValues, PulseValues, SpectrumValues, OffsetValues, OutputValues
<1>3. Meant("dacGain", list, dev) = DacGain(list["analog_gain"])
  BY NotOptions DEF Meant, NotOption
<1>4. Meant("dacOffset", list, dev) = list["analog_offset"] - DacOffsetMin
  BY NotOptions DEF Meant, NotOption
<1>5. Meant("invert", list, dev) = Inverted(list["detector_polarity"])
  BY NotOptions DEF Meant, NotOption
<1>6. Meant("riseTime", list, dev) = Rounded(list["risetime_optimization"])
  BY NotOptions DEF Meant, NotOption
<1>7. Meant("lowIndex", list, dev) = list["mca_start_channel"]
  BY NotOptions DEF Meant, NotOption
<1>8. Meant("highIndex", list, dev) = list["mca_start_channel"] + list["number_mca_channels"] - 1
  BY NotOptions DEF Meant, NotOption
<1>9. Meant("coarseBinScaling", list, dev) = Coarse(list["scale_factor"])
  BY NotOptions DEF Meant, NotOption
<1>10. Meant("scaleFactor", list, dev) = <<list["scale_factor"], Coarse(list["scale_factor"])>>
  BY NotOptions DEF Meant, NotOption
<1>11. Meant("refreshRate", list, dev) = list["mca_refresh"]
  BY NotOptions DEF Meant, NotOption
<1>12. Meant("region_01", list, dev) = list["sca0"] /\ Meant("region_02", list, dev) = list["sca1"]
  BY NotOptions DEF Meant, NotOption
<1>13. \A x \in PresetParams : Meant(x, list, dev) = list["preset_value"]
  BY NotOptions DEF Meant, NotOption, PresetParams
<1> QED
  BY <1>1, <1>2, <1>3, <1>4, <1>5, <1>6, <1>7, <1>8, <1>9, <1>10, <1>11, <1>12, <1>13

(* Whatever value a write of a set-up is sent for, it says what the list   *)
(* means its parameter to be: the order does not matter.                   *)
LEMMA WritesMeant ==
  ASSUME NEW list, ListTypes(list), NEW n \in Names, NEW dev, NEW m \in Range(Writes(n, list[n], list, 0, dev))
  PROVE  m[2] = Meant(m[1], list, dev)
<1> DEFINE w == Writes(n, list[n], list, 0, dev)
<1>0. m \in Range(w)
  OBVIOUS
<1> HIDE DEF w
<1>1. CASE n \in OptionNames
  <2>1. m = <<n, Options[dev][n][list[n]]>>
    BY <1>0, <1>1, SentNames, OneRange DEF w
  <2> QED
    BY <1>1, <2>1, MeantIs
<1>2. CASE n \in Plain
  <2>1. m = <<n, Sent(n, list[n])>>
    BY <1>0, <1>2, SentNames, OneRange DEF w
  <2> QED
    BY <1>2, <2>1, MeantIs
<1>3. CASE n \in Unsent
  BY <1>0, <1>3, SentNames, EmptyRange DEF w
<1>4. CASE n = "analog_gain"
  <2>1. m = <<"dacGain", DacGain(list[n])>>
    BY <1>0, <1>4, SentNames, OneRange DEF w
  <2> QED
    BY <1>4, <2>1, MeantIs
<1>5. CASE n = "analog_offset"
  <2>1. m = <<"dacOffset", list[n] - DacOffsetMin>>
    BY <1>0, <1>5, SentNames, OneRange DEF w
  <2> QED
    BY <1>5, <2>1, MeantIs
<1>6. CASE n = "detector_polarity"
  <2>1. m = <<"invert", Inverted(list[n])>>
    BY <1>0, <1>6, SentNames, OneRange DEF w
  <2> QED
    BY <1>6, <2>1, MeantIs
<1>7. CASE n = "risetime_optimization"
  <2>1. m = <<"riseTime", Rounded(list[n])>>
    BY <1>0, <1>7, SentNames, OneRange DEF w
  <2> QED
    BY <1>7, <2>1, MeantIs
<1>8. CASE n = "preset_value"
  <2>1. m = <<PresetOf(list), list[n]>>
    BY <1>0, <1>8, SentNames, OneRange DEF w, PresetOf, AcqValue
  <2> QED
    BY <1>8, <2>1, MeantIs, PresetIsNumber
<1>9. CASE n = "number_mca_channels"
  <2>1. m = <<"highIndex", list["mca_start_channel"] + list[n] - 1>>
    BY <1>0, <1>9, SentNames, OneRange DEF w, HighIndex, AcqValue
  <2> QED
    BY <1>9, <2>1, MeantIs
<1>10. CASE n = "mca_start_channel"
  <2>1. m \in {<<"lowIndex", list[n]>>, <<"highIndex", list[n] + list["number_mca_channels"] - 1>>}
    BY <1>0, <1>10, SentNames, TwoRange DEF w, StartWrites, HighIndex, AcqValue
  <2> QED
    BY <1>10, <2>1, MeantIs
<1>11. CASE n = "scale_factor"
  <2>1. m \in {<<"coarseBinScaling", Coarse(list[n])>>, <<"scaleFactor", <<list[n], Coarse(list[n])>>>>}
    BY <1>0, <1>11, SentNames, TwoRange DEF w, ScaleWrites
  <2> QED
    BY <1>11, <2>1, MeantIs
<1>12. CASE n = "mca_refresh"
  <2>1. m = <<"refreshRate", list[n]>>
    BY <1>0, <1>12, SentNames, OneRange DEF w
  <2> QED
    BY <1>12, <2>1, MeantIs
<1>13. CASE n = "number_of_scas"
  <2>1. list[n] \in 0 .. MaxScas /\ 0 \in 0 .. MaxScas /\ list[n] .. 0 - 1 = {}
    BY <1>13, ListHas DEF MaxScas
  <2> QED
    BY <1>0, <1>13, <2>1, SentNames, RemovedRange DEF w
<1>14. CASE n = "sca0"
  <2>1. m = <<"region_01", list[n]>>
    BY <1>0, <1>14, SentNames, OneRange DEF w
  <2> QED
    BY <1>14, <2>1, MeantIs
<1>15. CASE n = "sca1"
  <2>1. m = <<"region_02", list[n]>>
    BY <1>0, <1>15, SentNames, OneRange DEF w
  <2> QED
    BY <1>15, <2>1, MeantIs
<1> QED
  BY <1>1, <1>2, <1>3, <1>4, <1>5, <1>6, <1>7, <1>8, <1>9, <1>10, <1>11, <1>12, <1>13, <1>14, <1>15,
     TheNames, TheScas DEF Kinds

(* The parameters a set-up writes.                                         *)
LEMMA WrittenAre ==
  ASSUME NEW name \in Names, NEW value \in Int, NEW list, ListTypes(list), NEW old \in 0 .. MaxScas,
         name = "number_of_scas" => value >= 0
  PROVE  Written(name, value, list, old) \subseteq DOMAIN Factory \ {"digitalConfig"}
<1>1. PresetOf(list) \in PresetParams
  BY PresetIsNumber
<1>2. CASE name = "number_of_scas"
  <2>1. ASSUME NEW i \in value .. old - 1
        PROVE  Region(i) \in {"region_01", "region_02"}
    <3>1. i \in {0, 1}
      BY <1>2 DEF MaxScas
    <3> QED
      BY <3>1, TheScas
  <2> QED
    BY <1>2, <2>1, FactoryNames DEF Written, ParamNames
<1>3. CASE name \in {"number_mca_channels", "mca_start_channel"}
  BY <1>3, FactoryNames DEF Written, ParamNames, NumberParams
<1>4. CASE name \notin {"number_of_scas", "number_mca_channels", "mca_start_channel"}
  <2>1. Written(name, value, list, old) = ParamsOf(name, list)
    BY <1>4 DEF Written
  <2>2. ParamsOf(name, list) \subseteq DOMAIN Factory
    BY ParamsOfAre
  <2>3. "digitalConfig" \notin ParamsOf(name, list)
    BY <1>1 DEF ParamsOf, PresetParams, OptionNames, Plain, BlankingValues, PulseValues, SpectrumValues,
       OffsetValues, OutputValues
  <2> QED
    BY <2>1, <2>2, <2>3
<1> QED
  BY <1>2, <1>3, <1>4

SetupSends(list, part, dev, m) ==
  \E k \in 1 .. Len(part) :
    part[k] \in Present(list, dev) /\ m \in Range(Writes(part[k], list[part[k]], list, 0, dev))

(* So a set-up sends what fits and is meant.                               *)
LEMMA SetupSendsAre ==
  ASSUME NEW list, ListTypes(list), NEW dev \in SUBSET Features, NEW part \in Seq(Names),
         PartAccepted(list, part, dev), NEW m, SetupSends(list, part, dev, m)
  PROVE  /\ m[1] \in DOMAIN Factory \ {"digitalConfig"} /\ Fits(m[1], m[2], dev)
         /\ m[2] = Meant(m[1], list, dev)
<1>1. PICK k \in 1 .. Len(part) :
        part[k] \in Present(list, dev) /\ m \in Range(Writes(part[k], list[part[k]], list, 0, dev))
  BY DEF SetupSends
<1> DEFINE n == part[k]
           v == list[n]
<1>2. n \in Names /\ Takeable(n, v, dev) /\ v \in Int /\ (n = "number_of_scas" => v >= 0)
  <2>1. Takeable(n, v, dev)
    BY <1>1, PresentTakeable DEF PartAccepted
  <2> QED
    BY <2>1 DEF Takeable
<1>3. 0 \in 0 .. MaxScas
  BY DEF MaxScas
<1>4. m \in Range(Writes(n, v, list, 0, dev))
  BY <1>1
<1>5. m[2] = Meant(m[1], list, dev)
  BY <1>2, <1>4, WritesMeant
<1> HIDE DEF n, v
<1>6. m[1] \in Written(n, v, list, 0) /\ Fits(m[1], m[2], dev)
  BY <1>2, <1>3, <1>4, SentFits
<1>7. Written(n, v, list, 0) \subseteq DOMAIN Factory \ {"digitalConfig"}
  BY <1>2, <1>3, WrittenAre
<1> QED
  BY <1>5, <1>6, <1>7

(* The calculated offset as a set.                                         *)
LEMMA CalculatedRange ==
  ASSUME NEW list, NEW t, t = CalculatedOffset(list)
  PROVE  /\ t \in Seq(Range(t))
         /\ Range(t) = IF list["auto_dc_offset"] > 0 THEN {<<"dc_offset", Calculated>>} ELSE {}
BY OneSeq, EmptyRange DEF CalculatedOffset

(* All a set-up writes: the values, the digital pins and the offset.       *)
LEMMA SetupAllRange ==
  ASSUME NEW list, ListTypes(list), NEW dev \in SUBSET Features, NEW part \in Seq(Names),
         PartAccepted(list, part, dev), NEW w, w = SetupWrites(list, part, dev) \o DigitalConf \o CalculatedOffset(list)
  PROVE  /\ w \in Seq(Range(w))
         /\ \A m \in Range(w) : \/ SetupSends(list, part, dev, m) \/ m = <<"digitalConfig", "8in-24out">>
                                \/ list["auto_dc_offset"] > 0 /\ m = <<"dc_offset", Calculated>>
         /\ \A m : SetupSends(list, part, dev, m) => m \in Range(w)
<1> DEFINE s == SetupWrites(list, part, dev)
           d == DigitalConf
           t == CalculatedOffset(list)
           sd == s \o d
           sdt == sd \o t
<1>1. s \in Seq(Range(s)) /\ \A m : m \in Range(s) <=> SetupSends(list, part, dev, m)
  BY SetupRange DEF SetupSends
<1>2. d \in Seq(Range(d)) /\ Range(d) = {<<"digitalConfig", "8in-24out">>}
  BY OneSeq DEF DigitalConf
<1>3. t \in Seq(Range(t)) /\ Range(t) = IF list["auto_dc_offset"] > 0 THEN {<<"dc_offset", Calculated>>} ELSE {}
  BY CalculatedRange
<1>4. w = sdt
  OBVIOUS
<1> HIDE DEF s, d, t
<1>5. sd \in Seq(Range(sd)) /\ Range(sd) = Range(s) \cup Range(d)
  BY <1>1, <1>2, JoinRange
<1> HIDE DEF sd
<1>6. sdt \in Seq(Range(sdt)) /\ Range(sdt) = Range(sd) \cup Range(t)
  BY <1>3, <1>5, JoinRange
<1> HIDE DEF sdt
<1>7. w \in Seq(Range(w)) /\ Range(w) = (Range(s) \cup Range(d)) \cup Range(t)
  BY <1>4, <1>5, <1>6
<1> QED
  BY <1>1, <1>2, <1>3, <1>7

(* After a set-up each value of the list that the device has is in force,  *)
(* but a DC offset that was calculated.                                    *)
LEMMA SetupForced ==
  ASSUME NEW list, ListTypes(list), NEW dev \in SUBSET Features, NEW order \in Orders,
         PartAccepted(list, order, dev), NEW before, ParamTypes(before, dev),
         NEW q, q = AfterWrites(before, SetupWrites(list, order, dev) \o DigitalConf \o CalculatedOffset(list)),
         NEW new, new = list["number_of_scas"]
  PROVE  /\ ParamTypes(q, dev)
         /\ \A n \in Present(list, dev) :
              (n = "dc_offset" => list["auto_dc_offset"] <= 0) => Enforced(n, q, list, new, dev)
<1> DEFINE w == SetupWrites(list, order, dev) \o DigitalConf \o CalculatedOffset(list)
<1>0. /\ order \in Seq(Names) /\ Len(order) = 38
      /\ \A n \in Names : \E k \in 1 .. 38 : order[k] = n
  BY TheOrders
<1>1. /\ w \in Seq(Range(w))
      /\ \A m \in Range(w) : \/ SetupSends(list, order, dev, m) \/ m = <<"digitalConfig", "8in-24out">>
                             \/ list["auto_dc_offset"] > 0 /\ m = <<"dc_offset", Calculated>>
      /\ \A m : SetupSends(list, order, dev, m) => m \in Range(w)
  BY <1>0, SetupAllRange
<1>2. q = AfterWrites(before, w)
  OBVIOUS
<1> HIDE DEF w
<1>3. \A m : SetupSends(list, order, dev, m) =>
               /\ m[1] \in DOMAIN Factory \ {"digitalConfig"} /\ Fits(m[1], m[2], dev)
               /\ m[2] = Meant(m[1], list, dev)
  BY <1>0, SetupSendsAre
<1>4. ParamTypes(q, dev)
  <2>1. Fits("digitalConfig", "8in-24out", dev) /\ Fits("dc_offset", Calculated, dev)
    BY DEF Fits, Calculated, NumberParams, Flags, OptionNames, Plain, BlankingValues, PulseValues, SpectrumValues,
       OffsetValues, OutputValues
  <2>2. \A m \in Range(w) : Fits(m[1], m[2], dev)
    BY <1>1, <1>3, <2>1
  <2>3. Outcome(before, q, Range(w))
    BY <1>1, <1>2, AfterOutcome
  <2> QED
    BY <2>2, <2>3, OutcomeFits
<1>5. ASSUME NEW m, SetupSends(list, order, dev, m), m[1] = "dc_offset" => list["auto_dc_offset"] <= 0
      PROVE  q[m[1]] = m[2]
  <2> DEFINE x == m[1]
             v == m[2]
  <2>1. x \in DOMAIN before /\ x # "digitalConfig" /\ v = Meant(x, list, dev)
    BY <1>3, <1>5 DEF ParamTypes
  <2>2. \E k \in Range(w) : k[1] = x
    BY <1>1, <1>5
  <2>3. list["auto_dc_offset"] \in Int /\ (x = "dc_offset" => list["auto_dc_offset"] <= 0)
    BY <1>5, ListHas
  <2> HIDE DEF x, v
  <2>4. ASSUME NEW k \in Range(w), k[1] = x
        PROVE  k[2] = v
    <3>1. CASE SetupSends(list, order, dev, k)
      BY <1>3, <2>1, <2>4, <3>1
    <3>2. CASE k = <<"digitalConfig", "8in-24out">>
      BY <2>1, <2>4, <3>2
    <3>3. CASE list["auto_dc_offset"] > 0 /\ k = <<"dc_offset", Calculated>>
      BY <2>3, <2>4, <3>3
    <3> QED
      BY <1>1, <3>1, <3>2, <3>3
  <2>5. q[x] = v
    <3>1. w \in Seq(Range(w)) /\ x \in DOMAIN before /\ \E k \in Range(w) : k[1] = x
      BY <1>1, <2>1, <2>2
    <3>2. AfterWrites(before, w)[x] = v
      BY <2>4, <3>1, AfterAgreed
    <3> QED
      BY <1>2, <3>2
  <2> QED
    BY <2>5 DEF x, v
<1>6. ASSUME NEW n \in Present(list, dev), n = "dc_offset" => list["auto_dc_offset"] <= 0
      PROVE  Enforced(n, q, list, new, dev)
  <2>1. PICK k \in 1 .. 38 : order[k] = n
    BY <1>0, ListHas DEF Present
  <2>2. \A m \in Range(Writes(n, list[n], list, 0, dev)) : SetupSends(list, order, dev, m)
    BY <1>0, <2>1 DEF SetupSends
  <2>3. n \in Names /\ n \in DOMAIN list
    BY ListHas DEF Present
  <2>4. CASE n = "number_of_scas"
    BY <2>4, ListHas, ForceIs
  <2>5. CASE n \in {"number_mca_channels", "mca_start_channel"}
    <3>1. list["mca_start_channel"] \in Int /\ list["number_mca_channels"] \in Int
             /\ "mca_start_channel" \in Present(list, dev)
      BY ListHas DEF Present, Supported
    <3>2. PICK j \in 1 .. 38 : order[j] = "mca_start_channel"
      BY <1>0, <3>1, ListHas DEF Present
    <3> DEFINE start == list["mca_start_channel"]
               end == start + list["number_mca_channels"] - 1
    <3>3. Writes("mca_start_channel", list["mca_start_channel"], list, 0, dev) = <<<<"lowIndex", start>>, <<"highIndex", list["mca_start_channel"] + list["number_mca_channels"] - 1>>>>
      BY SentNames DEF StartWrites, HighIndex, AcqValue
    <3>4. SetupSends(list, order, dev, <<"lowIndex", start>>) /\ SetupSends(list, order, dev, <<"highIndex", end>>)
      <4> DEFINE sent == Writes("mca_start_channel", list["mca_start_channel"], list, 0, dev)
      <4>1. <<"lowIndex", start>> \in Range(sent) /\ <<"highIndex", end>> \in Range(sent)
        BY <3>3, TwoRange
      <4> HIDE DEF start, end
      <4>2. ASSUME NEW m \in Range(sent)
            PROVE  SetupSends(list, order, dev, m)
        BY <1>0, <3>1, <3>2 DEF SetupSends
      <4> HIDE DEF sent
      <4> QED
        BY <4>1, <4>2
    <3> HIDE DEF end, start
    <3>5. q["lowIndex"] = start /\ q["highIndex"] = end
      BY <1>5, <3>4
    <3>6. q["highIndex"] - q["lowIndex"] + 1 = list["number_mca_channels"]
      BY <3>1, <3>5 DEF start, end
    <3> QED
      BY <2>5, <3>5, <3>6, ForceIs DEF start
  <2>6. CASE n \notin {"number_of_scas", "number_mca_channels", "mca_start_channel"}
    <3>1. Writes(n, list[n], list, new, dev) = Writes(n, list[n], list, 0, dev)
      BY <2>6 DEF Writes
    <3>2. n # "dc_offset" => \A m \in Range(Writes(n, list[n], list, 0, dev)) : m[1] # "dc_offset"
      <4>1. SUFFICES ASSUME n # "dc_offset", NEW m \in Range(Writes(n, list[n], list, 0, dev)), m[1] = "dc_offset"
                     PROVE  FALSE
        OBVIOUS
      <4> DEFINE v == list[n]
      <4>2. Takeable(n, v, dev)
        BY <1>0, <2>1, PresentTakeable DEF PartAccepted
      <4>3. 0 \in 0 .. MaxScas
        BY DEF MaxScas
      <4> HIDE DEF v
      <4>4. "dc_offset" \in Written(n, v, list, 0)
        BY <4>1, <4>2, <4>3, SentFits DEF v
      <4>5. "dc_offset" \in Names /\ "dc_offset" \in ParamsOf("dc_offset", list)
        BY DEF Names, DEFAULT_ACQ_VALUES, ParamsOf, Plain, OffsetValues
      <4> QED
        BY <2>3, <2>6, <4>1, <4>2, <4>3, <4>4, <4>5, WrittenApart DEF Takeable
    <3>3. \A m \in Range(Writes(n, list[n], list, 0, dev)) : q[m[1]] = m[2]
      BY <1>5, <1>6, <2>2, <3>2
    <3> QED
      BY <2>6, <3>1, <3>3 DEF Enforced
  <2> QED
    BY <2>4, <2>5, <2>6
<1> QED
  BY <1>4, <1>6

---------------------------------------------------------------------------
(* The list a restart completes is the saved one with the polarity of the  *)
(* detector.                                                               *)
LEMMA CompletedIs ==
  ASSUME NEW kept, ListTypes(kept.list), kept.polarity \in Int, NEW list, list = Completed(kept)
  PROVE  /\ ListTypes(list) /\ DOMAIN list = DOMAIN kept.list
         /\ list["detector_polarity"] = kept.polarity
         /\ \A n \in DOMAIN list : n # "detector_polarity" => list[n] = kept.list[n]
<1> DEFINE l == kept.list
           whole == Over(l, DEFAULT_ACQ_VALUES)
<1>0. ListTypes(l) /\ DOMAIN DEFAULT_ACQ_VALUES \subseteq DOMAIN l
  BY DEF ListTypes
<1> HIDE DEF l
<1>1. DOMAIN whole = DOMAIN l /\ \A n \in DOMAIN l : whole[n] = l[n]
  BY <1>0 DEF Over
<1>2. list = Put(whole, "detector_polarity", kept.polarity)
  BY DEF Completed, l
<1> HIDE DEF whole
<1>3. DOMAIN list = DOMAIN whole \cup {"detector_polarity"}
  BY <1>2, PutDomain
<1>4. list["detector_polarity"] = kept.polarity
        /\ \A n \in DOMAIN whole : n # "detector_polarity" => list[n] = whole[n]
  BY <1>2, PutIs
<1>5. "detector_polarity" \in DOMAIN l /\ "detector_polarity" \in Names
  BY <1>0, ListHas
<1>6. DOMAIN list = DOMAIN l /\ \A n \in DOMAIN list : n # "detector_polarity" => list[n] = l[n]
  BY <1>1, <1>3, <1>4, <1>5
<1>7. ListTypes(list)
  <2>1. Kept("detector_polarity", kept.polarity) = kept.polarity
    BY DEF Kept
  <2>2. "detector_polarity" \notin DOMAIN ModeLimits \cup DOMAIN GateLimits \cup {"number_of_scas"}
    BY LimitNames
  <2> QED
    BY <1>0, <1>4, <1>5, <1>6, <2>1, <2>2, ChangeTypes
<1> QED
  BY <1>4, <1>6, <1>7 DEF l

(* Any polarity and any rise time is accepted.                             *)
LEMMA PolarityAccepted ==
  ASSUME NEW value, NEW dev
  PROVE  Accepted("detector_polarity", value, dev) /\ Accepted("risetime_optimization", value, dev)
BY SMTT(20) DEF Accepted, OptionNames, AnalogLimits, ModeLimits, SpectrumLimits, GateLimits

(* A device a list was accepted by refuses none of it.                     *)
LEMMA CompletedAccepted ==
  ASSUME NEW kept, ListTypes(kept.list), kept.polarity \in Int, NEW list, list = Completed(kept),
         NEW dev, AllAccepted(kept.list, dev)
  PROVE  PresentAccepted(list, dev)
<1> SUFFICES ASSUME NEW n \in Present(list, dev) PROVE Accepted(n, list[n], dev)
  BY DEF PresentAccepted
<1>1. /\ DOMAIN list = DOMAIN kept.list
      /\ \A k \in DOMAIN list : k # "detector_polarity" => list[k] = kept.list[k]
  BY CompletedIs
<1>2. n \in DOMAIN list
  BY DEF Present
<1> QED
  BY <1>1, <1>2, PolarityAccepted DEF AllAccepted

(* A list whose values present are accepted is accepted, for the rise time *)
(* always is.                                                              *)
LEMMA PresentIsAll ==
  ASSUME NEW list, NEW dev, PresentAccepted(list, dev)
  PROVE  AllAccepted(list, dev)
BY PolarityAccepted DEF AllAccepted, PresentAccepted, Present, Supported

(* A set-up keeps the list as it is.                                       *)
LEMMA KeptAll ==
  ASSUME NEW list, ListTypes(list)
  PROVE  [n \in DOMAIN list |-> Kept(n, list[n])] = [n \in DOMAIN list |-> list[n]]
BY ListHas

(* Every device has the values with a default.                             *)
LEMMA PresentHas ==
  ASSUME NEW list, ListTypes(list), NEW dev
  PROVE  DOMAIN DEFAULT_ACQ_VALUES \subseteq Present(list, dev)
<1>1. "risetime_optimization" \notin DOMAIN DEFAULT_ACQ_VALUES
  BY DEF DEFAULT_ACQ_VALUES
<1> QED
  BY <1>1 DEF Present, Supported, ListTypes

(* A restart keeps the invariant, done or failed, with the device on or    *)
(* off or replaced by another.                                             *)
LEMMA RestartKeeps ==
  ASSUME AcqInv, NEW off \in BOOLEAN, Restart(off)
  PROVE  AcqInv'
<1> DEFINE list == Completed(saved)
           before == IF off THEN Factory ELSE params
           dev == device'
<1> USE DEF AcqInv
<1>0. /\ running = "none" /\ running' = running /\ polarity' = saved.polarity
      /\ offered' = offered /\ saved' = saved /\ started' = started /\ refreshSet' = refreshSet
      /\ dev \in (IF off THEN Devices ELSE {device})
      /\ \E order \in Orders : Setup(list, order, before, dev)
  BY DEF Restart
<1>1. PICK order \in Orders : Setup(list, order, before, dev)
  BY <1>0
<1>2. /\ ListTypes(saved.list) /\ saved.polarity \in Int /\ device \in Devices /\ ParamTypes(params, device)
      /\ refused \in Nat /\ ListTypes(started) /\ offered \in Groups /\ saved.device \in Devices
  BY DEF AcqTypes
<1>3. dev \in Devices /\ dev \in SUBSET Features /\ ParamTypes(before, dev)
  <2>1. dev \in Devices
    BY <1>0, <1>2
  <2>2. dev \in SUBSET Features
    BY <2>1, AcqAssumption
  <2> HIDE DEF dev
  <2>3. CASE off
    <3>1. before = Factory
      BY <2>3
    <3>2. ParamTypes(Factory, dev)
      BY <2>2, FactoryTypes
    <3> HIDE DEF before
    <3> QED
      BY <2>1, <2>2, <3>1, <3>2
  <2>4. CASE ~off
    <3>1. dev = device /\ before = params
      BY <1>0, <2>4 DEF dev
    <3> HIDE DEF before
    <3> QED
      BY <1>2, <2>1, <2>2, <3>1
  <2> QED
    BY <2>3, <2>4
<1>4. /\ ListTypes(list) /\ DOMAIN list = DOMAIN saved.list
      /\ list["detector_polarity"] = saved.polarity
      /\ \A n \in DOMAIN list : n # "detector_polarity" => list[n] = saved.list[n]
  BY <1>2, CompletedIs
<1>5. saved.clean /\ saved.device = dev => PresentAccepted(list, dev)
  BY <1>2, CompletedAccepted DEF NothingRefused
<1> DEFINE fine == AcceptedPart(list, order, dev)
           writes == SetupWrites(list, fine, dev)
<1>6. \/ fine = order /\ SetupDone(list, dev, writes, before)
      \/ Refused /\ (\E then \in Range(Stages(before, writes)) : SetupFails(list, then)) /\ misfit' = misfit
      \/ /\ fine # order /\ SetupFails(list, AfterWrites(before, writes)) /\ refused' = refused
         /\ misfit' = (misfit \/ (saved.device = dev /\ saved.clean))
  BY <1>1 DEF Setup
<1> HIDE DEF list, before, dev
<1>7. /\ fine \in Seq(Names) /\ PartAccepted(list, fine, dev)
      /\ fine = order <=> PresentAccepted(list, dev)
  BY <1>4, AcceptedPartIs, ListHas
<1>8. RunConfigured'
  BY <1>0 DEF RunConfigured
<1>9. CASE fine = order /\ SetupDone(list, dev, writes, before)
  <2>1. /\ params' = AfterWrites(before, SetupWrites(list, order, dev) \o DigitalConf \o CalculatedOffset(list))
        /\ defaults' = [n \in DOMAIN list |-> Kept(n, list[n])] /\ n_sca' = list["number_of_scas"]
        /\ up' = TRUE /\ restarted' = TRUE /\ refused' = refused /\ misfit' = misfit
        /\ settled' = {n \in Present(list, dev) : n = "dc_offset" => list["auto_dc_offset"] = 0}
    BY <1>9 DEF SetupDone
  <2>2. PartAccepted(list, order, dev) /\ PresentAccepted(list, dev)
    BY <1>7, <1>9
  <2>3. /\ ParamTypes(params', dev)
        /\ \A n \in Present(list, dev) : (n = "dc_offset" => list["auto_dc_offset"] <= 0) =>
             Enforced(n, params', list, n_sca', dev)
    BY <1>3, <1>4, <2>1, <2>2, SetupForced
  <2>4. defaults' = [n \in DOMAIN list |-> list[n]]
    BY <1>4, <2>1, KeptAll
  <2>5. DOMAIN defaults' = DOMAIN list /\ \A n \in DOMAIN list : defaults'[n] = list[n]
    BY <2>4
  <2>6. ListTypes(defaults')
    <3>1. defaults'["detector_polarity"] = list["detector_polarity"] /\ "detector_polarity" \in DOMAIN list
            /\ "detector_polarity" \in Names /\ "number_of_scas" \in DOMAIN list
      BY <1>4, <2>5, ListHas
    <3>2. \A n \in DOMAIN defaults' : n \in DOMAIN list /\ defaults'[n] = list[n]
      BY <2>5
    <3>3. DOMAIN DEFAULT_ACQ_VALUES \subseteq DOMAIN defaults' /\ DOMAIN defaults' \subseteq Names
      BY <1>4, <2>5 DEF ListTypes
    <3>4. \A n \in DOMAIN ModeLimits \cup DOMAIN GateLimits : n \in DOMAIN list
      BY <1>4, LimitNames, ListHas
    <3> QED
      BY <1>4, <2>5, <3>1, <3>2, <3>3, <3>4 DEF ListTypes
  <2>7. settled' \subseteq DOMAIN defaults'
    BY <2>1, <2>5 DEF Present
  <2>8. n_sca' = defaults'["number_of_scas"] /\ list["number_of_scas"] = defaults'["number_of_scas"]
          /\ defaults'["preset_type"] = list["preset_type"] /\ n_sca' \in 0 .. MaxScas
    BY <1>4, <2>1, <2>5, ListHas
  <2>9. AcqTypes'
    BY <1>0, <1>2, <1>3, <2>1, <2>3, <2>6, <2>7, <2>8 DEF AcqTypes, dev
  <2>10. ValuesInForce'
    <3>1. ASSUME NEW n \in settled' \ {"mca_refresh"}
          PROVE  Enforced(n, params', defaults', n_sca', device')
      <4>1. n \in Present(list, dev) /\ (n = "dc_offset" => list["auto_dc_offset"] <= 0) /\ n \in DOMAIN list
        BY <2>1 DEF Present
      <4>2. Enforced(n, params', list, n_sca', dev)
        BY <2>3, <4>1
      <4>3. defaults'[n] = list[n] /\ n \in Names
        BY <1>4, <2>5, <4>1, ListHas
      <4> QED
        BY <2>8, <4>2, <4>3, ForceKept DEF dev
    <3> QED
      BY <3>1, ValuesAre DEF Forced
  <2>11. NothingRefused'
    <3>1. AllAccepted(list, dev)
      BY <2>2, PresentIsAll
    <3>2. AllAccepted(defaults', dev)
      BY <2>5, <3>1 DEF AllAccepted
    <3>3. DOMAIN DEFAULT_ACQ_VALUES \subseteq Present(list, dev)
      BY <1>4, PresentHas
    <3>4. DOMAIN DEFAULT_ACQ_VALUES \ {"dc_offset", "preset_value", "mca_refresh"} \subseteq settled'
      BY <2>1, <3>3
    <3> QED
      BY <1>0, <3>2, <3>4 DEF NothingRefused, dev
  <2>12. RestartRestores'
    <3>1. ASSUME NEW n \in DOMAIN saved.list, n = "detector_polarity" => saved.polarity = saved.list[n]
          PROVE  defaults'[n] = saved.list[n]
      BY <1>4, <2>5, <3>1
    <3> QED
      BY <1>0, <2>1, <3>1 DEF RestartRestores
  <2> QED
    BY <1>8, <2>9, <2>10, <2>11, <2>12
<1>10. ASSUME NEW then, SetupFails(list, then), ParamTypes(then, dev), refused' \in Nat, ~misfit'
       PROVE  AcqInv'
  <2>1. /\ params' = then /\ defaults' = list /\ n_sca' = 0 /\ up' = FALSE /\ restarted' = FALSE
        /\ settled' = {}
    BY <1>10 DEF SetupFails
  <2>2. AcqTypes'
    BY <1>0, <1>2, <1>3, <1>4, <1>10, <2>1 DEF AcqTypes, dev
  <2>3. ValuesInForce'
    BY <2>1, ValuesAre
  <2>4. NothingRefused' /\ RestartRestores'
    BY <1>0, <1>10, <2>1 DEF NothingRefused, RestartRestores
  <2> QED
    BY <1>8, <2>2, <2>3, <2>4
<1>11. writes \in Seq(Range(writes)) /\ \A m \in Range(writes) : Fits(m[1], m[2], dev)
  <2>1. /\ writes \in Seq(Range(writes))
        /\ \A m : m \in Range(writes) <=> SetupSends(list, fine, dev, m)
    BY <1>3, <1>4, <1>7, SetupRange DEF SetupSends
  <2> HIDE DEF writes, fine
  <2> QED
    BY <1>3, <1>4, <1>7, <2>1, SetupSendsAre
<1>12. CASE Refused /\ (\E then \in Range(Stages(before, writes)) : SetupFails(list, then)) /\ misfit' = misfit
  <2>1. PICK then \in Range(Stages(before, writes)) : SetupFails(list, then)
    BY <1>12
  <2> HIDE DEF writes
  <2>2. ParamTypes(then, dev)
    BY <1>3, <1>11, <2>1, StageOutcome, OutcomeFits
  <2>3. refused' \in Nat /\ ~misfit'
    BY <1>2, <1>12 DEF Refused, RestartRestores
  <2> QED
    BY <1>10, <2>1, <2>2, <2>3
<1>13. CASE /\ fine # order /\ SetupFails(list, AfterWrites(before, writes)) /\ refused' = refused
            /\ misfit' = (misfit \/ (saved.device = dev /\ saved.clean))
  <2>1. ~PresentAccepted(list, dev)
    BY <1>7, <1>13
  <2>2. ~misfit'
    BY <1>5, <1>13, <2>1 DEF RestartRestores
  <2> HIDE DEF writes
  <2>3. ParamTypes(AfterWrites(before, writes), dev)
    BY <1>3, <1>11, AfterOutcome, OutcomeFits
  <2> QED
    BY <1>2, <1>10, <1>13, <2>2, <2>3
<1> QED
  BY <1>6, <1>9, <1>12, <1>13

---------------------------------------------------------------------------
(* The defaults are a list every device accepts.                           *)
LEMMA DefaultsTypes == ListTypes(DEFAULT_ACQ_VALUES)
<1> DEFINE list == DEFAULT_ACQ_VALUES
<1>1. DOMAIN list \subseteq Names
  BY DEF Names
<1>2. \A n \in DOMAIN list : list[n] \in Int
  BY DEF DEFAULT_ACQ_VALUES
<1>3. \A n \in DOMAIN list : Kept(n, list[n]) = list[n]
  <2>1. list["num_map_pixels_per_buffer"] = 1024
    BY DEF DEFAULT_ACQ_VALUES
  <2>2. PixelsPerBuffer(1024) = 1024
    BY DEF PixelsPerBuffer, MaxPixelsPerBuffer
  <2>3. "risetime_optimization" \notin DOMAIN list
    BY DEF DEFAULT_ACQ_VALUES
  <2> HIDE DEF list
  <2> QED
    BY <2>1, <2>2, <2>3 DEF Kept
<1>4. /\ \A n \in DOMAIN ModeLimits : list[n] \in ModeLimits[n]
      /\ \A n \in DOMAIN GateLimits : list[n] \in GateLimits[n]
      /\ list["number_of_scas"] \in 0 .. MaxScas
  BY DEF DEFAULT_ACQ_VALUES, ModeLimits, GateLimits, MaxScas
<1> HIDE DEF list
<1>5. DOMAIN DEFAULT_ACQ_VALUES \subseteq DOMAIN list
  BY DEF list
<1> QED
  BY <1>1, <1>2, <1>3, <1>4, <1>5 DEF ListTypes, list

(* Every device accepts every default.                                     *)
LEMMA DefaultsAccepted ==
  ASSUME NEW dev \in SUBSET Features
  PROVE  AllAccepted(DEFAULT_ACQ_VALUES, dev)
<1> DEFINE list == DEFAULT_ACQ_VALUES
<1>1. ASSUME NEW n \in OptionNames
      PROVE  list[n] \in DOMAIN Options[dev][n]
  <2>1. 0 \in DOMAIN Options[dev][n]
    BY OptionsApart
  <2>2. 2 \in DOMAIN DetectionFilter /\ 2 \in DOMAIN DecayTime /\ 3 \in DOMAIN ScaTrigger
    BY DEF FromZero, DetectionFilter, DecayTime, ScaTrigger
  <2>3. /\ Options[dev]["detection_filter"] = DetectionFilter /\ Options[dev]["decay_time"] = DecayTime
        /\ Options[dev]["sca_trigger_mode"] = ScaTrigger
    BY DEF Options
  <2>4. /\ n \notin {"detection_filter", "decay_time", "sca_trigger_mode"} => list[n] = 0
        /\ list["detection_filter"] = 2 /\ list["decay_time"] = 2 /\ list["sca_trigger_mode"] = 3
    BY DEF DEFAULT_ACQ_VALUES, OptionNames
  <2> QED
    BY <2>1, <2>2, <2>3, <2>4
<1>2. /\ list["analog_gain"] \in AnalogLimits["analog_gain"]
      /\ list["analog_offset"] \in AnalogLimits["analog_offset"]
      /\ list["mapping_mode"] \in ModeLimits["mapping_mode"]
      /\ list["preset_type"] \in ModeLimits["preset_type"]
      /\ list["number_mca_channels"] \in SpectrumLimits["number_mca_channels"]
      /\ list["scale_factor"] \in SpectrumLimits["scale_factor"]
  BY DEF DEFAULT_ACQ_VALUES, AnalogLimits, ModeLimits, SpectrumLimits, GainMin, GainMax, DacOffsetMin,
     DacOffsetMax, MinMca, MaxMca, ScaleMax
<1>3. \A n \in DOMAIN GateLimits : list[n] \in GateLimits[n]
  BY DEF DEFAULT_ACQ_VALUES, GateLimits
<1>4. list["number_of_scas"] <= MaxScas /\ list["num_map_pixels"] >= 0 /\ list["num_map_pixels_per_buffer"] >= -1
  BY DEF DEFAULT_ACQ_VALUES, MaxScas
<1> HIDE DEF list
<1>5. ASSUME NEW n
      PROVE  Accepted(n, list[n], dev)
  <2>1. CASE n \in OptionNames
    BY <1>1, <2>1, AcceptedIs
  <2>2. CASE n \in DOMAIN AnalogLimits
    BY <1>2, <2>2, AcceptedIs, LimitNames
  <2>3. CASE n \in DOMAIN ModeLimits
    BY <1>2, <2>3, AcceptedIs, LimitNames
  <2>4. CASE n \in DOMAIN SpectrumLimits
    BY <1>2, <2>4, AcceptedIs, LimitNames
  <2>5. CASE n \in DOMAIN GateLimits
    BY <1>3, <2>5, AcceptedIs
  <2>6. CASE n \in {"number_of_scas", "num_map_pixels", "num_map_pixels_per_buffer"}
    BY <1>4, <2>6, AcceptedIs
  <2>7. CASE /\ n \notin OptionNames /\ n \notin DOMAIN AnalogLimits /\ n \notin DOMAIN ModeLimits
             /\ n \notin DOMAIN SpectrumLimits /\ n \notin DOMAIN GateLimits
             /\ n \notin {"number_of_scas", "num_map_pixels", "num_map_pixels_per_buffer"}
    BY <2>7, SMTT(20) DEF Accepted
  <2> QED
    BY <2>1, <2>2, <2>3, <2>4, <2>5, <2>6, <2>7
<1> QED
  BY <1>5 DEF AllAccepted, list

(* A system that was started without a saved file is set up with them.     *)
LEMMA AcqInitInv == AcqInit => AcqInv
<1> SUFFICES ASSUME AcqInit PROVE AcqInv
  OBVIOUS
<1> DEFINE list == DEFAULT_ACQ_VALUES
<1>0. /\ offered \in Groups /\ device \in Devices /\ device \in SUBSET Features
      /\ defaults = list /\ started = list /\ n_sca = 0 /\ polarity = 0 /\ running = "none" /\ up = TRUE
      /\ saved = [list |-> list, polarity |-> 0, device |-> device, clean |-> TRUE]
      /\ settled = DOMAIN list /\ misfit = FALSE /\ refused = 0
  BY AcqAssumption DEF AcqInit
<1>1. PICK order \in Orders : params = AfterWrites(Factory, SetupWrites(list, order, device) \o DigitalConf)
  BY DEF AcqInit
<1>2. /\ ListTypes(list) /\ AllAccepted(list, device) /\ ParamTypes(Factory, device)
  BY <1>0, DefaultsTypes, DefaultsAccepted, FactoryTypes
<1>3. list["number_of_scas"] = 0 /\ list["auto_dc_offset"] = 0
  BY DEF DEFAULT_ACQ_VALUES
<1> HIDE DEF list
<1>4. order \in Seq(Names) /\ PartAccepted(list, order, device)
  BY <1>2, TheOrders DEF PartAccepted, AllAccepted, Present
<1>5. params = AfterWrites(Factory, SetupWrites(list, order, device) \o DigitalConf \o CalculatedOffset(list))
  <2> DEFINE s == SetupWrites(list, order, device)
             d == DigitalConf
             sd == s \o d
             t == CalculatedOffset(list)
  <2>1. s \in Seq(Range(s))
    BY <1>0, <1>2, <1>4, SetupRange
  <2>2. d \in Seq(Range(d))
    BY OneSeq DEF DigitalConf
  <2>3. t = << >>
    BY <1>3 DEF CalculatedOffset
  <2> HIDE DEF s, d, t
  <2>4. sd \in Seq(Range(sd))
    BY <2>1, <2>2, JoinRange
  <2> HIDE DEF sd
  <2>5. sd \o t = sd
    BY <2>3, <2>4, ConcatEmptySeq
  <2>6. params = AfterWrites(Factory, sd)
    BY <1>1 DEF sd, s, d
  <2>7. params = AfterWrites(Factory, sd \o t)
    BY <2>5, <2>6
  <2> QED
    BY <2>7 DEF sd, s, d, t
<1>6. /\ ParamTypes(params, device)
      /\ \A n \in Present(list, device) :
           (n = "dc_offset" => list["auto_dc_offset"] <= 0) => Enforced(n, params, list, 0, device)
  BY <1>0, <1>2, <1>3, <1>4, <1>5, SetupForced
<1>7. DOMAIN list \subseteq Present(list, device)
  BY <1>2, PresentHas DEF list
<1>8. AcqTypes
  BY <1>0, <1>2, <1>3, <1>6 DEF AcqTypes
<1>9. ValuesInForce
  BY <1>0, <1>3, <1>6, <1>7, ValuesAre DEF Forced
<1>10. NothingRefused
  BY <1>0, <1>2 DEF NothingRefused, list
<1>11. RestartRestores
  BY <1>0 DEF RestartRestores
<1>12. RunConfigured
  BY <1>0 DEF RunConfigured
<1> QED
  BY <1>8, <1>9, <1>10, <1>11, <1>12 DEF AcqInv

(* Setting the gain sets the scale factor.                                 *)
LEMMA GainOperationKeeps ==
  ASSUME AcqInv, NEW gain \in Gains, GainOperation("calibrate", gain)
  PROVE  AcqInv'
<1> DEFINE value == gain * AcqValue(defaults, "scale_factor")
<1>1. SetValue("scale_factor", value)
  BY DEF GainOperation, GainCalibrate
<1>2. defaults["scale_factor"] \in Int
  BY ListHas DEF AcqInv, AcqTypes
<1>3. gain \in Int
  BY AcqAssumption
<1>4. value \in Int
  BY <1>2, <1>3 DEF AcqValue
<1>5. "scale_factor" \in Names
  BY TheNames DEF Kinds
<1> HIDE DEF value
<1> QED
  BY <1>1, <1>4, <1>5, SetValueKeeps

(* Every step keeps the invariant.                                         *)
LEMMA AcqStep == AcqInv /\ [AcqNext]_acqVars => AcqInv'
<1> SUFFICES ASSUME AcqInv, [AcqNext]_acqVars PROVE AcqInv'
  OBVIOUS
<1>0. \A o \in offered : o[1] \in Names /\ o[2] \in Int /\ (o[1] = "number_of_scas" => o[2] >= 0)
  BY OfferedIs DEF AcqInv
<1>1. ASSUME NEW o \in offered, SetValue(o[1], o[2])
      PROVE  AcqInv'
  BY <1>0, <1>1, SetValueKeeps
<1>2. ASSUME NEW o \in offered, SetValueFails(o[1], o[2])
      PROVE  AcqInv'
  BY <1>0, <1>2, SetValueFailsKeeps
<1>3. ASSUME NEW o \in offered, GetValue(o[1])
      PROVE  AcqInv'
  BY <1>0, <1>3, GetValueKeeps
<1>4. ASSUME NEW gain \in Gains, GainOperation("calibrate", gain)
      PROVE  AcqInv'
  BY <1>4, GainOperationKeeps
<1>5. ASSUME NEW md \in {0, 1, 3}, StartRun(md)
      PROVE  AcqInv'
  BY <1>5, StartRunKeeps
<1>6. ASSUME NEW md \in {0, 1, 3}, StartRunFails(md)
      PROVE  AcqInv'
  BY <1>6, StartRunFailsKeeps
<1>7. CASE StopRun
  BY <1>7, StopRunKeeps
<1>8. CASE SaveValues
  BY <1>8, SaveValuesKeeps
<1>9. ASSUME NEW off \in BOOLEAN, Restart(off)
      PROVE  AcqInv'
  BY <1>9, RestartKeeps
<1>10. CASE UNCHANGED acqVars
  <2> USE <1>10 DEF acqVars
  <2>1. AcqTypes'
    BY DEF AcqInv, AcqTypes
  <2>2. NothingRefused'
    BY DEF AcqInv, NothingRefused
  <2>3. ValuesInForce'
    BY ValuesAre DEF AcqInv
  <2>4. RestartRestores'
    BY DEF AcqInv, RestartRestores
  <2>5. RunConfigured'
    BY DEF AcqInv, RunConfigured
  <2> QED
    BY <2>1, <2>2, <2>3, <2>4, <2>5 DEF AcqInv
<1> QED
  BY <1>1, <1>2, <1>3, <1>4, <1>5, <1>6, <1>7, <1>8, <1>9, <1>10 DEF AcqNext

(* The inductive invariant of the acquisition values.                      *)
THEOREM AcqInductive == AcqSpec => []AcqInv
BY AcqInitInv, AcqStep, PTL DEF AcqSpec

(* The lists hold values the handlers keep and the parameters what a       *)
(* device takes, always.                                                   *)
THEOREM AcqTyped == AcqSpec => []AcqTypes
<1>1. AcqInv => AcqTypes
  BY DEF AcqInv
<1> QED
  BY <1>1, AcqInductive, PTL

(* A value last set or read without error is what the device works with    *)
(* (psl__SetAcquisitionValues, psl__GetAcquisitionValues), for any group   *)
(* of values, device, gain and number of calls and refusals.               *)
THEOREM ValuesStayInForce == AcqSpec => []ValuesInForce
<1>1. AcqInv => ValuesInForce
  BY DEF AcqInv
<1> QED
  BY <1>1, AcqInductive, PTL

(* A restart from the saved file (xiaLoadSystem, xiaStartSystem,           *)
(* psl__UserSetup) changes no value, in the table's order of the file or   *)
(* its reverse, and a device like the one it was saved of refuses none     *)
(* that was saved before any parameter was.                                *)
THEOREM RestartsRestore == AcqSpec => []RestartRestores
<1>1. AcqInv => RestartRestores
  BY DEF AcqInv
<1> QED
  BY <1>1, AcqInductive, PTL

(* Every run that was started (psl__StartRun and the configuration of      *)
(* mapping modes 0, 1 and 3) collects and vetoes as the values say,        *)
(* whatever ran or failed before.                                          *)
THEOREM RunsAreConfigured == AcqSpec => []RunConfigured
<1>1. AcqInv => RunConfigured
  BY DEF AcqInv
<1> QED
  BY <1>1, AcqInductive, PTL
=============================================================================
