--------------------------- MODULE Channel_proofs ---------------------------
(***************************************************************************)
(* Proofs about a channel.  ChannelState, for any number of calls and      *)
(* reports: no wakeup is lost, a stop that no left-over event ends has     *)
(* heard the ready state, and a punctual stop times out on a failed        *)
(* channel only.  CharData, for any channels, characterizations, decimals, *)
(* lengths of a line and of the buffer: what a system has when it was      *)
(* started from its file is what was saved, to the decimals written.       *)
(***************************************************************************)
EXTENDS ChannelState, CharData, SequenceTheorems, WellFoundedInduction, TLAPS

---------------------------------------------------------------------------
(* The state of a channel and its reports.                                 *)

(* Only a start looks at the state again without the lock, only a trace is *)
(* copied, and a stop or a trace never waits unprimed.                     *)
WakeupInv ==
  /\ pc # "idle" => call \in AllCalls
  /\ pc = "look" => call \in {"histo", "listMode"}
  /\ pc = "copy" => call = "osc"
  /\ NoLostWakeup

LEMMA WakeupStep == WakeupInv /\ [ChanNext]_chanVars => WakeupInv'
<1> SUFFICES ASSUME WakeupInv, [ChanNext]_chanVars PROVE WakeupInv'
  OBVIOUS
<1> USE DEF WakeupInv, NoLostWakeup, deviceVars, heardVars, userVars
<1>1. CASE ReceiveState
  BY <1>1 DEF ReceiveState, Signalled, StaysPrimed
<1>2. CASE ReceiveTrace
  BY <1>2 DEF ReceiveTrace
<1>3. CASE Command
  BY <1>3 DEF Command, Return
<1>4. CASE Prime
  <2>1. ASSUME pc' = "look" PROVE call' \in {"histo", "listMode"}
    <3>1. call \notin {"stop", "osc"}
      BY <1>4, <2>1 DEF Prime, Return
    <3>2. call \in AllCalls /\ call' = call
      BY <1>4 DEF Prime
    <3>3. QED BY <3>1, <3>2 DEF AllCalls
  <2>2. ASSUME pc' = "wait" PROVE asyncReady'
    BY <1>4, <2>2 DEF Prime, Return
  <2>3. pc' # "copy" /\ (pc' # "idle" => call' \in AllCalls)
    BY <1>4 DEF Prime, Return
  <2>4. QED BY <1>4, <2>1, <2>2, <2>3 DEF Prime
<1>5. CASE LookAgain
  BY <1>5 DEF LookAgain, Return
<1>6. CASE Wake
  BY <1>6 DEF Wake, Return
<1>7. CASE CopyTrace
  BY <1>7 DEF CopyTrace, Return
<1>8. CASE TimeOut
  BY <1>8 DEF TimeOut, Return
<1>9. ASSUME NEW state, DeviceFinishes(state)
      PROVE  WakeupInv'
  BY <1>9 DEF DeviceFinishes
<1>10. ASSUME NEW c \in Calls, Begin(c)
       PROVE  WakeupInv'
  BY <1>10, ChannelAssumption DEF Begin, Return
<1>11. CASE UNCHANGED chanVars
  BY <1>11 DEF chanVars
<1>12. QED
  BY <1>1, <1>2, <1>3, <1>4, <1>5, <1>6, <1>7, <1>8, <1>9, <1>10, <1>11
     DEF ChanNext, ReceiverStep, UserStep

(* The wait that ends a stop or an ADC trace cannot miss its signal,       *)
(* however the reports of the channel fall between its steps.              *)
THEOREM WakeupNotLost == ChanSpec => []NoLostWakeup
<1>1. ChanInit => WakeupInv
  BY DEF ChanInit, WakeupInv, NoLostWakeup
<1>2. WakeupInv => NoLostWakeup
  BY DEF WakeupInv
<1>3. QED BY <1>1, <1>2, WakeupStep, PTL DEF ChanSpec

---------------------------------------------------------------------------
(* What the receiver hears, one report after the other: a run is reported  *)
(* right after a ready, and the last report is the state the channel is in.*)
Reports == States \union {"trace"}
Starts  == {"histo", "listMode"}

Chained(heard, rs) ==
  \A i \in 1 .. Len(rs) : rs[i] \in Starts => (IF i = 1 THEN heard ELSE rs[i - 1]) = "ready"
LastOf(heard, rs) == IF rs = << >> THEN heard ELSE rs[Len(rs)]

ReportsInv ==
  /\ reports \in Seq(Reports) /\ channelState \in States /\ device \in States
  /\ Chained(channelState, reports)
  /\ LastOf(channelState, reports) = device

LEMMA ChainedAppend ==
  ASSUME NEW heard, NEW rs \in Seq(Reports), NEW r \in Reports,
         Chained(heard, rs), r \in Starts => LastOf(heard, rs) = "ready"
  PROVE  /\ Append(rs, r) \in Seq(Reports)
         /\ Chained(heard, Append(rs, r)) /\ LastOf(heard, Append(rs, r)) = r
<1> DEFINE n == Len(rs)
           as == Append(rs, r)
<1>1. /\ as \in Seq(Reports) /\ as # << >> /\ Len(as) = n + 1 /\ n \in Nat
      /\ as[n + 1] = r /\ \A i \in 1 .. n : as[i] = rs[i]
  BY AppendProperties
<1>2. rs = << >> <=> n = 0
  BY EmptySeq
<1> HIDE DEF as, n
<1>3. ASSUME NEW i \in 1 .. n + 1, as[i] \in Starts
      PROVE  (IF i = 1 THEN heard ELSE as[i - 1]) = "ready"
  <2>1. CASE i \in 1 .. n
    <3>1. as[i] = rs[i] /\ (i # 1 => as[i - 1] = rs[i - 1])
      <4>1. i # 1 => i - 1 \in 1 .. n
        BY <1>1, <2>1
      <4>2. QED BY <1>1, <2>1, <4>1
    <3>2. (IF i = 1 THEN heard ELSE rs[i - 1]) = "ready"
      BY <1>3, <2>1, <3>1 DEF Chained, n
    <3>3. QED BY <3>1, <3>2
  <2>2. CASE i = n + 1
    <3>1. LastOf(heard, rs) = "ready"
      BY <1>1, <1>3, <2>2
    <3>2. CASE n = 0
      <4>1. i = 1 /\ heard = "ready"
        BY <1>2, <2>2, <3>1, <3>2 DEF LastOf
      <4>2. QED BY <4>1
    <3>3. CASE n # 0
      <4>1. n \in 1 .. n /\ i - 1 = n /\ i # 1
        BY <1>1, <2>2, <3>3
      <4>2. rs[n] = "ready"
        BY <1>2, <3>1, <3>3 DEF LastOf, n
      <4>3. as[n] = rs[n]
        BY <1>1, <4>1
      <4>4. QED BY <4>1, <4>2, <4>3
    <3>4. QED BY <3>2, <3>3
  <2>3. i \in 1 .. n \/ i = n + 1
    BY <1>1
  <2>4. QED BY <2>1, <2>2, <2>3
<1>4. Chained(heard, as)
  BY <1>1, <1>3 DEF Chained
<1>5. LastOf(heard, as) = r
  BY <1>1 DEF LastOf
<1>6. QED BY <1>1, <1>4, <1>5 DEF as

(* The receiver takes a report: a state becomes the one heard, a trace     *)
(* does not.                                                               *)
LEMMA ChainedTail ==
  ASSUME NEW heard \in States, NEW rs \in Seq(Reports), rs # << >>, Chained(heard, rs)
  PROVE  LET next == IF Head(rs) = "trace" THEN heard ELSE Head(rs)
         IN  /\ Tail(rs) \in Seq(Reports) /\ next \in States
             /\ Chained(next, Tail(rs))
             /\ LastOf(heard, rs) \in States => LastOf(next, Tail(rs)) = LastOf(heard, rs)
             /\ Head(rs) \in Starts => heard = "ready"
<1> DEFINE next == IF Head(rs) = "trace" THEN heard ELSE Head(rs)
           n == Len(rs)
           ts == Tail(rs)
<1>1. /\ ts \in Seq(Reports) /\ Len(ts) = n - 1 /\ n \in Nat \ {0}
      /\ \A i \in 1 .. n - 1 : ts[i] = rs[i + 1]
      /\ Head(rs) = rs[1] /\ rs[1] \in Reports
  BY HeadTailProperties, EmptySeq
<1>2. ts = << >> <=> n = 1
  <2>1. ts = << >> <=> Len(ts) = 0
    BY <1>1, EmptySeq
  <2>2. QED BY <1>1, <2>1
<1> HIDE DEF n, ts
<1>3. next \in States /\ "trace" \notin States /\ "trace" # "ready"
  BY <1>1 DEF Reports, States
<1>4. \A i \in 1 .. n : rs[i] \in Starts => (IF i = 1 THEN heard ELSE rs[i - 1]) = "ready"
  BY DEF Chained, n
<1>5. Head(rs) \in Starts => heard = "ready"
  BY <1>1, <1>4
<1>6. ASSUME NEW i \in 1 .. n - 1, ts[i] \in Starts
      PROVE  (IF i = 1 THEN next ELSE ts[i - 1]) = "ready"
  <2>1. /\ ts[i] = rs[i + 1] /\ i + 1 \in 1 .. n /\ i + 1 # 1 /\ (i + 1) - 1 = i
        /\ i # 1 => i - 1 \in 1 .. n - 1 /\ (i - 1) + 1 = i
    BY <1>1
  <2>2. rs[i] = "ready"
    BY <1>4, <1>6, <2>1
  <2>3. i # 1 => ts[i - 1] = rs[i]
    BY <1>1, <2>1
  <2>4. i = 1 => next = rs[i]
    BY <1>1, <1>3, <2>2
  <2>5. QED BY <2>2, <2>3, <2>4
<1>7. Chained(next, ts)
  BY <1>1, <1>6 DEF Chained
<1>8. LastOf(heard, rs) \in States => LastOf(next, ts) = LastOf(heard, rs)
  <2>1. LastOf(heard, rs) = rs[n]
    BY DEF LastOf, n
  <2>2. CASE n = 1
    BY <1>1, <1>2, <1>3, <2>1, <2>2 DEF LastOf
  <2>3. CASE n # 1
    <3>1. n - 1 \in 1 .. n - 1 /\ (n - 1) + 1 = n
      BY <1>1, <2>3
    <3>2. ts[n - 1] = rs[n]
      BY <1>1, <3>1
    <3>3. QED BY <1>1, <1>2, <2>1, <2>3, <3>2 DEF LastOf
  <2>4. QED BY <2>2, <2>3
<1>9. QED BY <1>1, <1>3, <1>5, <1>7, <1>8 DEF ts

(* Whatever the channel makes of a command, its reports stay chained.      *)
LEMMA ObeysReports ==
  ASSUME ReportsInv, Obeys(call), UNCHANGED channelState
  PROVE  ReportsInv'
<1> DEFINE chan == channelState
<1>1. /\ {"ready", "error", "osc", "trace"} \subseteq Reports /\ Starts \subseteq Reports
      /\ {"ready", "osc", "trace"} \cap Starts = {}
      /\ "ready" \in States /\ Starts \subseteq States
  BY DEF Reports, States, Starts
<1>2. CASE device' = "ready" /\ reports' = Append(reports, "ready")
  BY <1>1, <1>2, ChainedAppend DEF ReportsInv
<1>3. CASE device' = "ready" /\ reports' = reports \o <<"osc", "trace", "ready">>
  <2> DEFINE a == Append(reports, "osc")
             b == Append(a, "trace")
             c == Append(b, "ready")
  <2>1. c = reports \o <<"osc", "trace", "ready">>
    <3>1. reports \in Seq(Reports)
      BY DEF ReportsInv
    <3>2. QED BY <1>1, <3>1
  <2>2. a \in Seq(Reports) /\ Chained(chan, a)
    BY <1>1, ChainedAppend DEF ReportsInv
  <2> HIDE DEF a
  <2>3. b \in Seq(Reports) /\ Chained(chan, b)
    BY <1>1, <2>2, ChainedAppend
  <2> HIDE DEF b
  <2>4. c \in Seq(Reports) /\ Chained(chan, c) /\ LastOf(chan, c) = "ready"
    BY <1>1, <2>3, ChainedAppend
  <2> HIDE DEF c
  <2>5. QED BY <1>1, <1>3, <2>1, <2>4 DEF ReportsInv
<1>4. CASE /\ call \in Starts /\ device = "ready"
           /\ device' = call /\ reports' = Append(reports, call)
  BY <1>1, <1>4, ChainedAppend DEF ReportsInv
<1>5. CASE UNCHANGED <<device, reports>>
  BY <1>5 DEF ReportsInv
<1>6. QED BY <1>2, <1>3, <1>4, <1>5 DEF Obeys, Starts

LEMMA ReportsStep == ReportsInv /\ [ChanNext]_chanVars => ReportsInv'
<1> SUFFICES ASSUME ReportsInv, [ChanNext]_chanVars PROVE ReportsInv'
  OBVIOUS
<1>1. CASE ReceiverStep
  <2>1. /\ reports # << >> /\ reports' = Tail(reports) /\ device' = device
        /\ channelState' = IF Head(reports) = "trace" THEN channelState ELSE Head(reports)
    BY <1>1 DEF ReceiverStep, ReceiveState, ReceiveTrace, IsState
  <2>2. QED BY <2>1, ChainedTail DEF ReportsInv
<1>2. CASE Command
  <2>1. channelState' = channelState
        /\ (Obeys(call) \/ UNCHANGED <<device, reports>>)
    BY <1>2 DEF Command, heardVars
  <2>2. QED BY <2>1, ObeysReports DEF ReportsInv
<1>3. ASSUME NEW state \in {"ready", "error"}, DeviceFinishes(state)
      PROVE  ReportsInv'
  <2>1. /\ device' = state /\ reports' = Append(reports, state)
        /\ channelState' = channelState
    BY <1>3 DEF DeviceFinishes, heardVars
  <2>2. state \in Reports /\ state \in States /\ state \notin Starts
    BY DEF Reports, States, Starts
  <2>3. QED BY <2>1, <2>2, ChainedAppend DEF ReportsInv
<1>4. CASE Prime \/ LookAgain \/ Wake \/ CopyTrace \/ TimeOut \/ UNCHANGED chanVars
  <2>1. UNCHANGED <<device, reports, channelState>>
    BY <1>4 DEF Prime, LookAgain, Wake, CopyTrace, TimeOut, chanVars, deviceVars, heardVars
  <2>2. QED BY <2>1 DEF ReportsInv
<1>5. ASSUME NEW c \in Calls, Begin(c)
      PROVE  ReportsInv'
  BY <1>5 DEF Begin, deviceVars, ReportsInv
<1>6. QED BY <1>1, <1>2, <1>3, <1>4, <1>5 DEF ChanNext, UserStep

(* While a stop is in progress the channel has stopped or failed, it is    *)
(* primed only as long as ready was not heard, and an event that was set   *)
(* since it began was set by a ready or by what came right after one.      *)
StopInv ==
  /\ channelState = "ready" => readyHeard
  /\ call = "stop" /\ pc # "idle" /\ asyncEvent /\ ~leftover => readyHeard
  /\ call = "stop" /\ pc \in {"lock", "wait"} => device \in {"ready", "error"}
  /\ call = "stop" /\ pc = "wait" /\ asyncReady => channelState # "ready"

LEMMA StopStep ==
  WakeupInv /\ ReportsInv /\ StopInv /\ [ChanNext]_chanVars => StopInv'
<1> SUFFICES ASSUME WakeupInv, ReportsInv, StopInv, [ChanNext]_chanVars PROVE StopInv'
  OBVIOUS
<1> USE DEF StopInv, deviceVars, heardVars, userVars
<1>1. CASE ReceiveState
  <2>1. Head(reports) \in Starts => channelState = "ready"
    BY <1>1, ChainedTail DEF ReceiveState, ReportsInv
  <2>2. asyncEvent' => asyncEvent \/ readyHeard'
    BY <1>1, <2>1 DEF ReceiveState, Signalled, Signals, Starts
  <2>3. asyncReady' => channelState' # "ready"
    BY <1>1 DEF ReceiveState, StaysPrimed, Signals
  <2>4. QED BY <1>1, <2>2, <2>3 DEF ReceiveState
<1>2. CASE ReceiveTrace
  BY <1>2 DEF ReceiveTrace
<1>3. CASE Command
  <2>1. call = "stop" /\ pc' = "lock" => device' \in {"ready", "error"}
    BY <1>3 DEF Command, Obeys, Return
  <2>2. QED BY <1>3, <2>1 DEF Command, Return
<1>4. CASE Prime
  BY <1>4 DEF Prime, Return, Target
<1>5. CASE LookAgain
  BY <1>5 DEF LookAgain, Return, WakeupInv
<1>6. CASE Wake
  BY <1>6 DEF Wake, Return
<1>7. CASE CopyTrace
  BY <1>7 DEF CopyTrace, Return
<1>8. CASE TimeOut
  BY <1>8 DEF TimeOut, Return
<1>9. ASSUME NEW state \in {"ready", "error"}, DeviceFinishes(state)
      PROVE  StopInv'
  BY <1>9 DEF DeviceFinishes
<1>10. ASSUME NEW c \in Calls, Begin(c)
       PROVE  StopInv'
  BY <1>10 DEF Begin, Return
<1>11. CASE UNCHANGED chanVars
  BY <1>11 DEF chanVars
<1>12. QED
  BY <1>1, <1>2, <1>3, <1>4, <1>5, <1>6, <1>7, <1>8, <1>9, <1>10, <1>11
     DEF ChanNext, ReceiverStep, UserStep

(* How a stop can come to its end.                                         *)
LEMMA StopReturns ==
  ASSUME WakeupInv, [ChanNext]_chanVars, NEW status, Returns("stop", status),
         status \in {"ok", "timeout"}
  PROVE  \/ status = "ok" /\ pc = "lock" /\ channelState = "ready" /\ readyHeard' = readyHeard
         \/ status = "ok" /\ Wake
         \/ status = "timeout" /\ TimeOut
<1> USE DEF Returns, deviceVars, heardVars, userVars
<1>1. ~ReceiverStep /\ ~UNCHANGED chanVars
  BY DEF ReceiverStep, ReceiveState, ReceiveTrace, chanVars
<1>2. \A state : ~DeviceFinishes(state)
  BY DEF DeviceFinishes
<1>3. \A c : ~Begin(c)
  BY DEF Begin
<1>4. CASE Command
  BY <1>4 DEF Command, Return
<1>5. CASE Prime
  BY <1>5 DEF Prime, Return, Target
<1>6. ~LookAgain
  BY DEF LookAgain, WakeupInv
<1>7. CASE Wake
  BY <1>7 DEF Wake, Return
<1>8. ~CopyTrace
  BY DEF CopyTrace, WakeupInv
<1>9. CASE TimeOut
  BY <1>9 DEF TimeOut, Return
<1>10. QED
  BY <1>1, <1>2, <1>3, <1>4, <1>5, <1>6, <1>7, <1>8, <1>9 DEF ChanNext, UserStep

LEMMA ChanInvariants == ChanSpec => [](WakeupInv /\ ReportsInv /\ StopInv)
<1>1. ChanInit => WakeupInv
  BY DEF ChanInit, WakeupInv, NoLostWakeup
<1>2. ChanInit => ReportsInv
  BY DEF ChanInit, ReportsInv, Reports, States, Chained, LastOf
<1>3. ChanInit => StopInv
  BY DEF ChanInit, StopInv
<1>4. QED BY <1>1, <1>2, <1>3, WakeupStep, ReportsStep, StopStep, PTL DEF ChanSpec

(* A stop that succeeds, and did not find an event left over from an       *)
(* earlier wait, knows that the channel was ready: it was when the stop    *)
(* began, or it has reported so since.                                     *)
THEOREM CleanStopHeardReady == ChanSpec => CleanStopIsReady
<1>1. WakeupInv /\ StopInv /\ [ChanNext]_chanVars
        => (Returns("stop", "ok") /\ ~leftover => readyHeard)
  <2> SUFFICES ASSUME WakeupInv, StopInv, [ChanNext]_chanVars,
                      Returns("stop", "ok"), ~leftover
               PROVE  readyHeard
    OBVIOUS
  <2>1. (pc = "lock" /\ channelState = "ready") \/ Wake
    BY StopReturns
  <2>2. call = "stop" /\ pc # "idle"
    BY DEF Returns
  <2>3. QED BY <2>1, <2>2 DEF StopInv, Wake
<1>2. QED BY <1>1, ChanInvariants, PTL DEF ChanSpec, CleanStopIsReady

(* A stop whose reports all come in time ends in a timeout only on a       *)
(* channel that has failed, however they fall between its steps.           *)
THEOREM PunctualStopFailsOnFailure == ChanSpec => StopTimesOutOnFailure
<1>1. WakeupInv /\ ReportsInv /\ StopInv /\ [ChanNext]_chanVars
        => (Punctual /\ Returns("stop", "timeout") => device = "error")
  <2> SUFFICES ASSUME WakeupInv, ReportsInv, StopInv, [ChanNext]_chanVars,
                      Punctual, Returns("stop", "timeout")
               PROVE  device = "error"
    OBVIOUS
  <2>1. TimeOut /\ call = "stop"
    BY StopReturns DEF Returns
  <2>2. pc = "wait" /\ ~asyncEvent /\ reports = << >>
    BY <2>1 DEF TimeOut
  <2>3. asyncReady
    BY <2>1, <2>2 DEF WakeupInv, NoLostWakeup
  <2>4. device = channelState
    BY <2>2 DEF ReportsInv, LastOf
  <2>5. QED BY <2>1, <2>2, <2>3, <2>4 DEF StopInv
<1>2. QED BY <1>1, ChanInvariants, PTL DEF ChanSpec, StopTimesOutOnFailure

---------------------------------------------------------------------------
(* Sequences.  What a recursive function of the community modules returns  *)
(* is had by the smallest index at which it would be something else.       *)
LEMMA LeastOf ==
  ASSUME NEW s, s \subseteq Nat, s # {}
  PROVE  \E x \in s : \A y \in s : x <= y
<1>1. PICK x \in s : \A y \in s : <<y, x>> \notin OpToRel(<, Nat)
  BY NatLessThanWellFounded, WFMin
<1>2. ASSUME NEW y \in s
      PROVE  x <= y
  <2>1. <<y, x>> \in OpToRel(<, Nat) <=> y < x
    BY DEF OpToRel
  <2>2. ~(y < x)
    BY <1>1, <2>1, Zenon
  <2> QED
    BY <2>2
<1> QED
  BY <1>2

LEMMA FlattenedRange ==
  ASSUME NEW X, NEW seqs \in Seq(Seq(X))
  PROVE  /\ FlattenSeq(seqs) \in Seq(X)
         /\ \A e : e \in Range(FlattenSeq(seqs)) <=> \E i \in 1 .. Len(seqs) : e \in Range(seqs[i])
<1> DEFINE n == Len(seqs)
           Flattens(f, m) == f = [i \in 1 .. m |-> IF i = 1 THEN seqs[i] ELSE f[i - 1] \o seqs[i]]
<1>0. n \in Nat /\ DOMAIN seqs = 1 .. n /\ \A i \in 1 .. n : seqs[i] \in Seq(X)
  BY LenProperties, ElementOfSeq
<1>1. CASE n = 0
  <2>1. seqs = << >>
    BY <1>1, EmptySeq
  <2>2. FlattenSeq(seqs) = << >>
    BY <1>1, <2>1 DEF FlattenSeq
  <2> QED
    BY <1>1, <2>2, EmptySeq DEF Range
<1>2. CASE n # 0
  <2>1. \A m \in 1 .. n : \E f : Flattens(f, m)
    <3> DEFINE Flat(m) == \E f : Flattens(f, m)
               bad == {m \in 1 .. n : ~Flat(m)}
    <3> HIDE DEF Flat
    <3>1. SUFFICES ASSUME bad # {} PROVE FALSE
      BY DEF Flat
    <3>2. PICK m \in bad : \A k \in bad : m <= k
      <4>1. bad \subseteq Nat
        BY <1>0
      <4> QED
        BY <3>1, <4>1, LeastOf
    <3>3. CASE m = 1
      <4>1. Flattens([i \in 1 .. 1 |-> seqs[1]], 1)
        OBVIOUS
      <4> QED
        BY <3>2, <3>3, <4>1 DEF Flat
    <3>4. CASE m # 1
      <4>1. m - 1 \in 1 .. n /\ m - 1 \notin bad
        BY <1>0, <3>2, <3>4
      <4>2. PICK f : Flattens(f, m - 1)
        BY <4>1 DEF Flat
      <4> DEFINE g == [i \in 1 .. m |-> IF i < m THEN f[i] ELSE f[m - 1] \o seqs[m]]
      <4>3. ASSUME NEW i \in 1 .. m
            PROVE  g[i] = IF i = 1 THEN seqs[i] ELSE g[i - 1] \o seqs[i]
        <5>1. CASE i = m
          <6>1. g[m] = f[m - 1] \o seqs[m] /\ g[m - 1] = f[m - 1]
            <7>1. m \in 1 .. m /\ m - 1 \in 1 .. m /\ m - 1 < m /\ ~(m < m)
              BY <4>1, <3>2
            <7> QED
              BY <7>1
          <6> QED
            BY <5>1, <6>1, <3>4
        <5>2. CASE i # m
          <6>1. i \in 1 .. (m - 1) /\ i < m
            BY <4>1, <5>2
          <6>2. f[i] = IF i = 1 THEN seqs[i] ELSE f[i - 1] \o seqs[i]
            BY <4>2, <6>1
          <6>3. g[i] = f[i] /\ (i # 1 => g[i - 1] = f[i - 1])
            BY <6>1, <4>1
          <6> QED
            BY <6>2, <6>3
        <5> QED
          BY <5>1, <5>2
      <4>4. Flattens(g, m)
        <5> HIDE DEF Flattens
        <5>1. g = [i \in 1 .. m |-> g[i]]
          OBVIOUS
        <5> HIDE DEF g
        <5>2. [i \in 1 .. m |-> g[i]] = [i \in 1 .. m |-> IF i = 1 THEN seqs[i] ELSE g[i - 1] \o seqs[i]]
          BY <4>3
        <5> QED
          BY <5>1, <5>2 DEF Flattens
      <4> HIDE DEF g, Flattens
      <4> QED
        BY <3>2, <4>4 DEF Flat
    <3> QED
      BY <3>3, <3>4
  <2> DEFINE f == CHOOSE f : Flattens(f, n)
  <2>2. Flattens(f, n)
    <3>1. n \in 1 .. n
      BY <1>0, <1>2
    <3>2. \E g : Flattens(g, n)
      BY <2>1, <3>1
    <3> HIDE DEF Flattens
    <3> QED
      BY <3>2
  <2>3. FlattenSeq(seqs) = f[n]
    BY <1>2 DEF FlattenSeq
  <2> HIDE DEF f
  <2>4. \A i \in 1 .. n : f[i] = IF i = 1 THEN seqs[i] ELSE f[i - 1] \o seqs[i]
    BY <2>2
  <2> HIDE DEF Flattens
  <2> DEFINE Joins(m) == f[m] \in Seq(X) /\ \A e : e \in Range(f[m]) <=> \E i \in 1 .. m : e \in Range(seqs[i])
             bad == {m \in 1 .. n : ~Joins(m)}
  <2> HIDE DEF Joins
  <2>5. bad = {}
    <3>1. SUFFICES ASSUME bad # {} PROVE FALSE
      OBVIOUS
    <3>2. PICK m \in bad : \A k \in bad : m <= k
      <4>1. bad \subseteq Nat
        BY <1>0
      <4> QED
        BY <3>1, <4>1, LeastOf
    <3>3. CASE m = 1
      <4>1. f[1] = seqs[1] /\ seqs[1] \in Seq(X)
        BY <1>0, <2>4, <3>3, <3>2
      <4>2. 1 .. 1 = {1}
        OBVIOUS
      <4>3. Joins(1)
        BY <4>1, <4>2 DEF Joins
      <4> QED
        BY <3>2, <3>3, <4>3
    <3>4. CASE m # 1
      <4>1. m - 1 \in 1 .. n /\ Joins(m - 1)
        BY <1>0, <3>2, <3>4
      <4>2. f[m] = f[m - 1] \o seqs[m] /\ seqs[m] \in Seq(X)
        BY <1>0, <2>4, <3>2, <3>4
      <4>3. f[m] \in Seq(X) /\ Range(f[m]) = Range(f[m - 1]) \cup Range(seqs[m])
        BY <4>1, <4>2, ConcatProperties, RangeConcatenation DEF Joins
      <4>4. 1 .. m = (1 .. (m - 1)) \cup {m}
        BY <1>0, <3>2, <3>4
      <4>6. Joins(m)
        BY <4>1, <4>3, <4>4 DEF Joins
      <4> QED
        BY <3>2, <4>6
    <3> QED
      BY <3>3, <3>4
  <2> QED
    <3>1. n \in 1 .. n
      BY <1>0, <1>2
    <3>2. Joins(n)
      BY <2>5, <3>1
    <3> QED
      BY <2>3, <3>2 DEF Joins
<1> QED
  BY <1>1, <1>2

---------------------------------------------------------------------------
(* A number written with six decimals is at most half a decimal off.       *)
LEMMA PrintedNear ==
  ASSUME NEW v \in Int
  PROVE  /\ Printed(v) \in Int
         /\ -PrintUnit <= 2 * (Printed(v) - v) /\ 2 * (Printed(v) - v) <= PrintUnit
<1> DEFINE q == (2 * v + PrintUnit) \div (2 * PrintUnit)
           d == 2 * PrintUnit
           t == PrintUnit * q
<1>1. PrintUnit \in Nat \ {0} /\ d \in Nat \ {0}
  BY CharAssumption
<1>2. q \in Int /\ d * q <= 2 * v + PrintUnit /\ 2 * v + PrintUnit < d * q + d
  <2>1. \A a \in Int, b \in Nat \ {0} : /\ a \div b \in Int /\ b * (a \div b) <= a
                                        /\ a < b * (a \div b) + b
    OBVIOUS
  <2>2. 2 * v + PrintUnit \in Int
    BY <1>1
  <2> QED
    BY <1>1, <2>1, <2>2
<1>3. t \in Int /\ d * q = 2 * t
  BY <1>1, <1>2
<1>4. Printed(v) = t
  BY DEF Printed
<1> HIDE DEF q, t
<1> QED
  BY <1>1, <1>2, <1>3, <1>4

(* One with six decimals is written as it is.                              *)
LEMMA PrintedExact ==
  ASSUME NEW v \in Int, v % PrintUnit = 0
  PROVE  Printed(v) = v
<1> DEFINE k == v \div PrintUnit
           q == (2 * v + PrintUnit) \div (2 * PrintUnit)
           t == PrintUnit * q
<1>1. PrintUnit \in Nat \ {0}
  BY CharAssumption
<1>2. k \in Int /\ v = PrintUnit * k
  BY <1>1
<1>3. q \in Int /\ t \in Int /\ Printed(v) = t
  BY <1>1 DEF Printed
<1>4. -PrintUnit <= 2 * (t - v) /\ 2 * (t - v) <= PrintUnit
  BY <1>3, PrintedNear
<1>5. t - v = PrintUnit * (q - k)
  BY <1>1, <1>2, <1>3
<1> DEFINE e == q - k
<1>6. e \in Int /\ -PrintUnit <= 2 * (PrintUnit * e) /\ 2 * (PrintUnit * e) <= PrintUnit
  BY <1>2, <1>3, <1>4, <1>5
<1>7. e = 0
  <2> HIDE DEF e
  <2>1. e >= 1 => PrintUnit * e >= PrintUnit
    BY <1>1, <1>6
  <2>2. e <= -1 => PrintUnit * e <= -PrintUnit
    BY <1>1, <1>6
  <2> QED
    BY <1>1, <1>6, <2>1, <2>2
<1> QED
  BY <1>2, <1>3, <1>5, <1>7

(* What is flattened is what adds one part after the other.                *)
LEMMA FlattenIs ==
  ASSUME NEW seqs, NEW F, Len(seqs) \in Nat \ {0},
         F = [i \in 1..Len(seqs) |-> IF i = 1 THEN seqs[i] ELSE F[i - 1] \o seqs[i]]
  PROVE  FlattenSeq(seqs) = F[Len(seqs)]
<1> DEFINE n == Len(seqs)
           Flattens(f) == f = [i \in 1..n |-> IF i = 1 THEN seqs[i] ELSE f[i - 1] \o seqs[i]]
           f == CHOOSE f : Flattens(f)
<1>1. Flattens(f)
  <2>1. Flattens(F)
    OBVIOUS
  <2> HIDE DEF Flattens
  <2> QED
    BY <2>1
<1>2. FlattenSeq(seqs) = f[n]
  BY DEF FlattenSeq
<1> HIDE DEF f
<1>3. \A i \in 1..n : f[i] = IF i = 1 THEN seqs[i] ELSE f[i - 1] \o seqs[i]
  BY <1>1
<1>4. \A i \in 1..n : F[i] = IF i = 1 THEN seqs[i] ELSE F[i - 1] \o seqs[i]
  OBVIOUS
<1> HIDE DEF Flattens
<1> DEFINE Same(i) == f[i] = F[i]
           bad == {i \in 1..n : ~Same(i)}
<1>5. bad = {}
  <2>1. SUFFICES ASSUME bad # {} PROVE FALSE
    OBVIOUS
  <2>2. PICK m \in bad : \A k \in bad : m <= k
    <3>1. bad \subseteq Nat
      OBVIOUS
    <3> HIDE DEF bad
    <3> QED
      BY <2>1, <3>1, LeastOf
  <2>3. m # 1
    BY <1>3, <1>4, <2>2
  <2>4. m - 1 \in 1..n /\ m - 1 \notin bad
    BY <2>2, <2>3
  <2>5. f[m - 1] = F[m - 1]
    BY <2>4
  <2>6. f[m] = F[m]
    <3>1. m \in 1..n
      BY <2>2
    <3>2. f[m] = f[m - 1] \o seqs[m]
      BY <1>3, <2>3, <3>1
    <3>3. F[m] = F[m - 1] \o seqs[m]
      BY <1>4, <2>3, <3>1
    <3> HIDE DEF bad
    <3> QED
      BY <2>5, <3>2, <3>3
  <2> QED
    BY <2>2, <2>6
<1>6. n \in 1..n
  OBVIOUS
<1> QED
  BY <1>2, <1>5, <1>6

(* A sequence cut in two.                                                  *)
LEMMA SubSeqJoin ==
  ASSUME NEW S, NEW v \in Seq(S), NEW a \in 0..Len(v), NEW b \in a..Len(v)
  PROVE  /\ SubSeq(v, 1, a) \o SubSeq(v, a + 1, b) = SubSeq(v, 1, b)
         /\ SubSeq(v, 1, b) \in Seq(S) /\ Len(SubSeq(v, 1, b)) = b
<1>1. Len(v) \in Nat /\ a \in Nat /\ b \in Nat /\ b <= Len(v) /\ a <= b
  BY LenProperties
<1>0. \A i \in 1..Len(v) : v[i] \in S
  BY ElementOfSeq
<1>2. /\ SubSeq(v, 1, a) \in Seq(S) /\ Len(SubSeq(v, 1, a)) = a
      /\ SubSeq(v, 1, b) \in Seq(S) /\ Len(SubSeq(v, 1, b)) = b
      /\ \A i \in 1..a : SubSeq(v, 1, a)[i] = v[i]
      /\ \A i \in 1..b : SubSeq(v, 1, b)[i] = v[i]
  <2>1. ASSUME NEW c \in 0..Len(v)
        PROVE  /\ SubSeq(v, 1, c) \in Seq(S) /\ Len(SubSeq(v, 1, c)) = c
               /\ \A i \in 1..c : SubSeq(v, 1, c)[i] = v[i]
    <3>1. /\ SubSeq(v, 1, c) \in Seq(S) /\ Len(SubSeq(v, 1, c)) = IF 1 <= c THEN c - 1 + 1 ELSE 0
          /\ \A i \in 1..(c - 1 + 1) : SubSeq(v, 1, c)[i] = v[1 + i - 1]
      BY <1>0, <1>1, SubSeqProperties
    <3> QED
      BY <1>1, <3>1
  <2> QED
    BY <1>1, <2>1
<1>3. /\ SubSeq(v, a + 1, b) \in Seq(S) /\ Len(SubSeq(v, a + 1, b)) = b - a
      /\ \A i \in 1..(b - a) : SubSeq(v, a + 1, b)[i] = v[a + i]
  <2>1. /\ SubSeq(v, a + 1, b) \in Seq(S)
        /\ Len(SubSeq(v, a + 1, b)) = IF a + 1 <= b THEN b - (a + 1) + 1 ELSE 0
        /\ \A i \in 1..(b - (a + 1) + 1) : SubSeq(v, a + 1, b)[i] = v[a + 1 + i - 1]
    BY <1>0, <1>1, SubSeqProperties
  <2> QED
    BY <1>1, <2>1
<1> DEFINE j == SubSeq(v, 1, a) \o SubSeq(v, a + 1, b)
<1>4. j \in Seq(S) /\ Len(j) = b
  BY <1>1, <1>2, <1>3, ConcatProperties
<1>5. ASSUME NEW i \in 1..b
      PROVE  j[i] = v[i]
  <2>1. CASE i <= a
    BY <1>1, <1>2, <1>3, <2>1, ConcatProperties
  <2>2. CASE i > a
    <3>1. i - a \in 1..(b - a) /\ a + (i - a) = i
      BY <1>1, <2>2
    <3>2. j[i] = SubSeq(v, a + 1, b)[i - a]
      BY <1>1, <1>2, <1>3, <2>2, ConcatProperties
    <3> QED
      BY <1>3, <3>1, <3>2
  <2> QED
    BY <1>1, <2>1, <2>2
<1> HIDE DEF j
<1>6. j = SubSeq(v, 1, b)
  BY <1>2, <1>4, <1>5, SeqEqual
<1> QED
  BY <1>2, <1>6 DEF j


LEMMA ConcatStarts ==
  ASSUME NEW S, NEW a \in Seq(S), NEW b \in Seq(S), NEW i \in 1..Len(a)
  PROVE  (a \o b)[i] = a[i]
<1>1. Len(a) \in Nat /\ Len(b) \in Nat
  BY LenProperties
<1> QED
  BY <1>1, ConcatProperties
---------------------------------------------------------------------------
(* A line of the text.                                                     *)
LineNames == {"data", "values", "example-x", "example-y", "model-x", "model-y", "final-x", "final-y"}
Lines == [name : LineNames, len : Nat, even : BOOLEAN, start : Int, incr : Int, values : Seq(Int)]

(* What is in a text from the line after pos on.                           *)
Has(text, pos, part) ==
  pos + Len(part) <= Len(text) /\ \A i \in 1..Len(part) : text[pos + i] = part[i]

(* Two sequences of lines one after the other are where each of them is.   *)
LEMMA HasConcat ==
  ASSUME NEW text \in Seq(Lines), NEW pos \in Nat, NEW a \in Seq(Lines), NEW b \in Seq(Lines),
         Has(text, pos, a \o b)
  PROVE  Has(text, pos, a) /\ Has(text, pos + Len(a), b) /\ Len(a \o b) = Len(a) + Len(b)
<1>1. Len(a) \in Nat /\ Len(b) \in Nat /\ Len(text) \in Nat
  BY LenProperties
<1>2. Len(a \o b) = Len(a) + Len(b)
  BY ConcatProperties
<1>3. \A i \in 1..Len(a) : (a \o b)[i] = a[i]
  BY ConcatProperties, <1>1
<1>4. \A i \in 1..Len(b) : (a \o b)[Len(a) + i] = b[i]
  BY ConcatProperties, <1>1
<1>5. Has(text, pos, a)
  <2>1. \A i \in 1..Len(a) : i \in 1..Len(a \o b)
    BY <1>1, <1>2
  <2> QED
    BY <1>1, <1>2, <1>3, <2>1 DEF Has
<1>6. Has(text, pos + Len(a), b)
  <2>1. ASSUME NEW i \in 1..Len(b)
        PROVE  text[pos + Len(a) + i] = b[i]
    <3>1. Len(a) + i \in 1..Len(a \o b) /\ pos + (Len(a) + i) = pos + Len(a) + i
      BY <1>1, <1>2
    <3>2. text[pos + (Len(a) + i)] = (a \o b)[Len(a) + i]
      BY <3>1 DEF Has
    <3> QED
      BY <1>4, <3>1, <3>2
  <2> QED
    BY <1>1, <1>2, <2>1 DEF Has
<1> QED
  BY <1>2, <1>5, <1>6

(* The lines of values: as many as it takes, all but the last full.        *)
Upto(v, k) == IF PerLine * k < Len(v) THEN PerLine * k ELSE Len(v)
LineCount(v) == (Len(v) + PerLine - 1) \div PerLine

LEMMA LineCounts ==
  ASSUME NEW v \in Seq(Int), v # << >>
  PROVE  /\ LineCount(v) \in Nat \ {0} /\ Upto(v, LineCount(v)) = Len(v)
         /\ \A k \in 0..(LineCount(v) - 1) : /\ PerLine * k \in 0..(Len(v) - 1)
                                             /\ Upto(v, k) = PerLine * k
         /\ \A k \in 1..LineCount(v) : /\ Upto(v, k) \in PerLine * (k - 1) + 1..Len(v)
                                       /\ PerLine * (k - 1) \in 0..Len(v)
<1> DEFINE n == Len(v)
           m == LineCount(v)
<1>1. n \in Nat \ {0} /\ PerLine \in Nat \ {0}
  BY EmptySeq, CharAssumption
<1>2. m \in Int /\ PerLine * m <= n + PerLine - 1 /\ n + PerLine - 1 < PerLine * m + PerLine
  <2>1. \A a \in Int, b \in Nat \ {0} : /\ a \div b \in Int /\ b * (a \div b) <= a
                                        /\ a < b * (a \div b) + b
    OBVIOUS
  <2>2. n + PerLine - 1 \in Int
    BY <1>1
  <2> QED
    BY <1>1, <2>1, <2>2 DEF LineCount
<1> HIDE DEF n, m
<1>3. m \in Nat \ {0}
  <2>1. m <= 0 => PerLine * m + PerLine <= PerLine
    BY <1>1, <1>2
  <2> QED
    BY <1>1, <1>2, <2>1
<1>4. PerLine * m >= n /\ PerLine * m \in Nat
  BY <1>1, <1>2, <1>3
<1>5. ASSUME NEW k \in 0..(m - 1)
      PROVE  PerLine * k \in 0..(n - 1)
  <2>1. m - 1 - k \in Nat /\ k \in Nat
    BY <1>3
  <2>2. PerLine * (m - 1 - k) \in Nat /\ PerLine * k \in Nat
    BY <1>1, <2>1
  <2>3. PerLine * m = PerLine * k + PerLine * (m - 1 - k) + PerLine
    BY <1>1, <1>3, <2>1
  <2> QED
    BY <1>1, <1>2, <2>2, <2>3
<1>6. ASSUME NEW k \in 1..m
      PROVE  Upto(v, k) \in PerLine * (k - 1) + 1..n /\ PerLine * (k - 1) \in 0..n
  <2>1. k - 1 \in 0..(m - 1)
    BY <1>3
  <2>2. PerLine * (k - 1) \in 0..(n - 1)
    BY <1>5, <2>1
  <2>3. PerLine * k = PerLine * (k - 1) + PerLine
    BY <1>1, <1>3
  <2> QED
    BY <1>1, <2>2, <2>3 DEF Upto, n
<1>7. Upto(v, m) = n
  BY <1>1, <1>4 DEF Upto, n
<1>8. \A k \in 0..(m - 1) : Upto(v, k) = PerLine * k
  BY <1>1, <1>5 DEF Upto, n
<1> QED
  BY <1>3, <1>5, <1>6, <1>7, <1>8 DEF n, m

LEMMA HeadLineTypes ==
  ASSUME NEW name \in LineNames, NEW w \in Seq(Int), NEW s \in Int, NEW d \in Int
  PROVE  Line(name, Len(w)) \in Lines /\ EvenLine(name, Len(w), s, d) \in Lines
<1>1. << >> \in Seq(Int) /\ Len(w) \in Nat
  BY EmptySeq, LenProperties
<1> QED
  BY <1>1 DEF Line, EvenLine, Lines

LEMMA ValueLineIs ==
  ASSUME NEW w \in Seq(Int)
  PROVE  ValueLine(w) \in Lines /\ ValueLine(w).name = "values" /\ ValueLine(w).values = w
<1>1. 0 \in Nat /\ 0 \in Int
  OBVIOUS
<1> QED
  BY <1>1 DEF Lines, ValueLine, LineNames

LEMMA ValueLinesAre ==
  ASSUME NEW v \in Seq(Int), v # << >>
  PROVE  /\ ValueLines(v) \in Seq(Lines) /\ Len(ValueLines(v)) = LineCount(v)
         /\ \A k \in 1..LineCount(v) :
              /\ ValueLines(v)[k].name = "values"
              /\ ValueLines(v)[k].values = SubSeq(v, PerLine * (k - 1) + 1, Upto(v, k))
<1> DEFINE part(k) == SubSeq(v, PerLine * (k - 1) + 1, Upto(v, k))
           m == LineCount(v)
<1>1. ValueLines(v) = [k \in 1..m |-> ValueLine(part(k))]
  BY DEF ValueLines, LineCount, Upto
<1>2. m \in Nat
  BY LineCounts
<1>3. ASSUME NEW k \in 1..m
      PROVE  part(k) \in Seq(Int)
  <2>1. Upto(v, k) \in PerLine * (k - 1) + 1..Len(v) /\ PerLine * (k - 1) \in 0..Len(v)
    BY <1>2, LineCounts
  <2>2. \A i \in PerLine * (k - 1) + 1..Upto(v, k) : v[i] \in Int
    <3>1. \A i \in 1..Len(v) : v[i] \in Int
      BY ElementOfSeq
    <3> QED
      BY <2>1, <3>1, LenProperties
  <2>3. PerLine * (k - 1) + 1 \in Int /\ Upto(v, k) \in Int
    BY <2>1, LenProperties
  <2> QED
    BY <2>2, <2>3, SubSeqProperties
<1> HIDE DEF part, m
<1>4. \A k \in 1..m : /\ ValueLine(part(k)) \in Lines /\ ValueLine(part(k)).name = "values"
                       /\ ValueLine(part(k)).values = part(k)
  BY <1>3, ValueLineIs
<1>5. ValueLines(v) \in Seq(Lines) /\ Len(ValueLines(v)) = m
  <2> DEFINE line(k) == ValueLine(part(k))
  <2>1. \A k \in 1..m : line(k) \in Lines
    BY <1>4
  <2>2. ValueLines(v) = [k \in 1..m |-> line(k)]
    BY <1>1
  <2> HIDE DEF line
  <2> QED
    BY <1>2, <2>1, <2>2
<1>6. ASSUME NEW k \in 1..m
      PROVE  ValueLines(v)[k] = ValueLine(part(k))
  BY <1>1
<1>7. \A k \in 1..m : ValueLines(v)[k].name = "values" /\ ValueLines(v)[k].values = part(k)
  BY <1>4, <1>6
<1> QED
  BY <1>5, <1>7 DEF part, m

(* Values that were written are read, whatever comes before and after.     *)
LEMMA ValuesRead ==
  ASSUME NEW text, Len(text) \in Nat, NEW pos \in Nat, NEW v \in Seq(Int), v # << >>,
         Has(text, pos, ValueLines(v))
  PROVE  ReadValues(text, pos, Len(v)) =
           [ok |-> TRUE, pos |-> pos + Len(ValueLines(v)), values |-> v]
<1> DEFINE n == Len(v)
           m == LineCount(v)
           F(k) == [i \in 1..k |-> SubSeq(v, 1, Upto(v, i))]
           parts(k) == [i \in 1..k |-> Numbers(text[pos + i])]
<1>1. n \in Nat \ {0} /\ m \in Nat \ {0} /\ Len(ValueLines(v)) = m /\ pos + m <= Len(text)
  BY EmptySeq, LineCounts, ValueLinesAre DEF Has
<1>2. \A i \in 1..m : Numbers(text[pos + i]) = SubSeq(v, PerLine * (i - 1) + 1, Upto(v, i))
  BY <1>1, ValueLinesAre DEF Has, Numbers
<1>3. \A i \in 1..m : /\ PerLine * (i - 1) \in 0..n /\ Upto(v, i) \in PerLine * (i - 1)..n
                      /\ Upto(v, i) \in 0..n
                      /\ (i # 1 => Upto(v, i - 1) = PerLine * (i - 1))
  <2>1. ASSUME NEW i \in 1..m
        PROVE  /\ PerLine * (i - 1) \in 0..n /\ Upto(v, i) \in PerLine * (i - 1)..n
               /\ Upto(v, i) \in 0..n
               /\ (i # 1 => Upto(v, i - 1) = PerLine * (i - 1))
    <3>1. Upto(v, i) \in PerLine * (i - 1) + 1..n /\ PerLine * (i - 1) \in 0..n
      BY LineCounts
    <3>2. i - 1 \in 0..(m - 1)
      BY <1>1
    <3>3. Upto(v, i - 1) = PerLine * (i - 1)
      BY <3>2, LineCounts
    <3> QED
      BY <1>1, <3>1, <3>3
  <2> QED
    BY <2>1
<1>4. ASSUME NEW k \in 1..m
      PROVE  FlattenSeq(parts(k)) = SubSeq(v, 1, Upto(v, k))
  <2>1. Len(parts(k)) = k /\ k \in Nat \ {0}
    BY <1>1
  <2>2. ASSUME NEW i \in 1..k
        PROVE  F(k)[i] = IF i = 1 THEN parts(k)[i] ELSE F(k)[i - 1] \o parts(k)[i]
    <3>1. i \in 1..m /\ parts(k)[i] = SubSeq(v, PerLine * (i - 1) + 1, Upto(v, i))
      BY <1>1, <1>2
    <3>2. F(k)[i] = SubSeq(v, 1, Upto(v, i))
      OBVIOUS
    <3>3. CASE i = 1
      <4>1. PerLine * (1 - 1) + 1 = 1
        BY CharAssumption
      <4> QED
        BY <3>1, <3>2, <3>3, <4>1
    <3>4. CASE i # 1
      <4>1. F(k)[i - 1] = SubSeq(v, 1, Upto(v, i - 1))
        <5>1. i - 1 \in 1..k
          BY <2>1, <3>4
        <5> QED
          BY <5>1
      <4>2. SubSeq(v, 1, PerLine * (i - 1)) \o SubSeq(v, PerLine * (i - 1) + 1, Upto(v, i))
              = SubSeq(v, 1, Upto(v, i))
        BY <1>3, <3>1, SubSeqJoin
      <4>3. Upto(v, i - 1) = PerLine * (i - 1)
        BY <1>3, <3>1, <3>4
      <4> HIDE DEF F, parts
      <4> QED
        BY <3>1, <3>2, <3>4, <4>1, <4>2, <4>3
    <3> QED
      BY <3>3, <3>4
  <2>3. F(k) = [i \in 1..Len(parts(k)) |->
                 IF i = 1 THEN parts(k)[i] ELSE F(k)[i - 1] \o parts(k)[i]]
    <3>1. F(k) = [i \in 1..k |-> F(k)[i]]
      OBVIOUS
    <3> HIDE DEF F, parts
    <3>2. [i \in 1..k |-> F(k)[i]]
            = [i \in 1..k |-> IF i = 1 THEN parts(k)[i] ELSE F(k)[i - 1] \o parts(k)[i]]
      BY <2>2
    <3> QED
      BY <2>1, <3>1, <3>2
  <2>4. F(k)[k] = SubSeq(v, 1, Upto(v, k))
    <3>1. k \in 1..k
      BY <2>1
    <3> QED
      BY <3>1
  <2> HIDE DEF F, parts
  <2>5. FlattenSeq(parts(k)) = F(k)[Len(parts(k))]
    BY <2>1, <2>3, FlattenIs
  <2> QED
    BY <2>1, <2>4, <2>5
<1>5. FlattenSeq(parts(0)) = << >>
  <2>1. parts(0) = << >> /\ Len(<< >>) = 0
    OBVIOUS
  <2> HIDE DEF parts
  <2> QED
    BY <2>1 DEF FlattenSeq
<1>6. \A k \in 0..m : Len(FlattenSeq(parts(k))) >= n <=> k = m
  <2>1. ASSUME NEW k \in 1..m
        PROVE  Len(FlattenSeq(parts(k))) = Upto(v, k)
    <3>1. Len(SubSeq(v, 1, Upto(v, k))) = Upto(v, k)
      <4>1. Upto(v, k) \in 0..Len(v) /\ 0 \in 0..Len(v) /\ Upto(v, k) \in 0..Len(v)
        BY <1>1, <1>3
      <4> QED
        BY <4>1, SubSeqJoin
    <3> QED
      BY <1>4, <3>1
  <2>2. \A k \in 0..(m - 1) : Upto(v, k) < n
    BY <1>1, LineCounts
  <2>3. Upto(v, m) = n /\ m \in 1..m
    BY <1>1, LineCounts
  <2>4. Len(FlattenSeq(parts(0))) = 0
    BY <1>5
  <2> HIDE DEF parts, n, m
  <2>5. ASSUME NEW k \in 0..m
        PROVE  Len(FlattenSeq(parts(k))) >= n <=> k = m
    <3>1. CASE k = 0
      BY <1>1, <2>4, <3>1
    <3>2. CASE k = m
      BY <1>1, <2>1, <2>3, <3>2
    <3>3. CASE k # 0 /\ k # m
      <4>1. k \in 1..m /\ k \in 0..(m - 1)
        BY <1>1, <3>3
      <4>2. Upto(v, k) < n /\ Upto(v, k) \in 0..n /\ Len(FlattenSeq(parts(k))) = Upto(v, k)
        BY <1>3, <2>1, <2>2, <4>1
      <4> QED
        BY <1>1, <3>3, <4>2
    <3> QED
      BY <3>1, <3>2, <3>3
  <2> QED
    BY <2>5
<1>7. /\ m \in LinesFor(text, pos, n) /\ \A o \in LinesFor(text, pos, n) : m <= o
  <2>1. LinesFor(text, pos, n) = {k \in 0..Len(text) - pos : Len(FlattenSeq(parts(k))) >= n}
    BY DEF LinesFor
  <2> HIDE DEF parts, n, m
  <2>2. m \in 0..Len(text) - pos /\ m \in 0..m
    BY <1>1
  <2>3. m \in LinesFor(text, pos, n)
    BY <1>6, <2>1, <2>2
  <2>4. ASSUME NEW o \in LinesFor(text, pos, n)
        PROVE  m <= o
    <3>1. o \in 0..Len(text) - pos /\ Len(FlattenSeq(parts(o))) >= n
      BY <2>1
    <3> QED
      BY <1>1, <1>6, <3>1
  <2> QED
    BY <2>3, <2>4
<1>8. FlattenSeq(parts(m)) = v
  <2>1. Upto(v, m) = n
    BY LineCounts
  <2>2. SubSeq(v, 1, n) = v
    BY SubSeqFull
  <2>3. m \in 1..m
    BY <1>1
  <2> HIDE DEF parts
  <2> QED
    BY <1>4, <2>1, <2>2, <2>3
<1> DEFINE k == CHOOSE x \in LinesFor(text, pos, n) : \A o \in LinesFor(text, pos, n) : x <= o
<1>9. k = m
  <2> HIDE DEF n, m
  <2>1. k \in LinesFor(text, pos, n) /\ \A o \in LinesFor(text, pos, n) : k <= o
    BY <1>7
  <2>2. k \in Nat /\ m \in Nat
    BY <1>1, <2>1 DEF LinesFor
  <2> HIDE DEF k
  <2> QED
    BY <1>7, <2>1, <2>2
<1>10. ReadValues(text, pos, n) =
         [ok |-> TRUE, pos |-> pos + k, values |-> SubSeq(FlattenSeq(parts(k)), 1, n)]
  BY <1>7 DEF ReadValues
<1> HIDE DEF k, parts
<1> QED
  BY <1>1, <1>8, <1>9, <1>10, SubSeqFull

---------------------------------------------------------------------------
(* What a pulse's samples are after they were written and read.            *)
Restored(w) ==
  IF EvenlySpaced(w) THEN [i \in 1..Len(w) |-> Printed(w[1]) + (i - 1) * Printed(w[2] - w[1])]
  ELSE [i \in 1..Len(w) |-> Printed(w[i])]

(* Evenly spaced samples follow from the first two.                        *)
LEMMA EvenSamples ==
  ASSUME NEW w \in Seq(Int), EvenlySpaced(w)
  PROVE  \A i \in 1..Len(w) : w[i] = w[1] + (i - 1) * (w[2] - w[1])
<1> DEFINE n == Len(w)
           d == w[2] - w[1]
           Even(i) == w[i] = w[1] + (i - 1) * d
           bad == {i \in 1..n : ~Even(i)}
<1>1. n \in Nat /\ n > 1 /\ \A i \in 1..n : w[i] \in Int
  BY LenProperties, ElementOfSeq DEF EvenlySpaced
<1>2. d \in Int /\ w[1] \in Int /\ w[2] \in Int
  BY <1>1
<1>3. \A i \in 3..n : w[i] - w[i - 1] = d
  <2>1. DOMAIN w = 1..n
    BY LenProperties
  <2> QED
    BY <2>1 DEF EvenlySpaced
<1>4. SUFFICES ASSUME bad # {} PROVE FALSE
  OBVIOUS
<1>5. PICK m \in bad : \A k \in bad : m <= k
  <2>1. bad \subseteq Nat
    BY <1>1
  <2> HIDE DEF bad
  <2> QED
    BY <1>4, <2>1, LeastOf
<1>6. m \in 1..n /\ w[m] # w[1] + (m - 1) * d
  BY <1>5
<1>7. m >= 3
  <2> HIDE DEF d, n
  <2>1. m # 1
    BY <1>2, <1>6
  <2>2. m = 2 => (m - 1) * d = d
    BY <1>2
  <2>3. w[1] + d = w[2]
    BY <1>2 DEF d
  <2> QED
    BY <1>1, <1>2, <1>6, <2>1, <2>2, <2>3
<1>8. m - 1 \in 1..n /\ m - 1 \notin bad
  BY <1>1, <1>5, <1>6, <1>7
<1>9. w[m - 1] = w[1] + (m - 1 - 1) * d
  BY <1>8
<1>10. w[m] - w[m - 1] = d
  BY <1>1, <1>3, <1>6, <1>7
<1> HIDE DEF d, n, bad
<1>11. (m - 1) * d = (m - 1 - 1) * d + d
  BY <1>1, <1>2, <1>6
<1>12. w[m] \in Int /\ w[m - 1] \in Int /\ (m - 1 - 1) * d \in Int
  BY <1>1, <1>2, <1>6, <1>8
<1> DEFINE a == (m - 1) * d
           b == (m - 1 - 1) * d
<1>13. a = b + d /\ w[m] # w[1] + a /\ w[m - 1] = w[1] + b /\ b \in Int
  BY <1>6, <1>9, <1>11, <1>12
<1>14. w[m] - w[m - 1] = d /\ w[m] \in Int /\ w[1] \in Int /\ d \in Int /\ w[m - 1] \in Int
  BY <1>2, <1>10, <1>12
<1> HIDE DEF a, b
<1>15. w[m] = w[1] + a
  BY <1>13, <1>14
<1> QED
  BY <1>13, <1>15

LEMMA RestoredType ==
  ASSUME NEW w \in Seq(Int)
  PROVE  /\ Restored(w) \in Seq(Int) /\ Len(Restored(w)) = Len(w)
         /\ [i \in DOMAIN w |-> Printed(w[i])] = [i \in 1..Len(w) |-> Printed(w[i])]
         /\ [i \in 1..Len(w) |-> Printed(w[i])] \in Seq(Int)
         /\ Len([i \in 1..Len(w) |-> Printed(w[i])]) = Len(w)
<1>1. Len(w) \in Nat /\ DOMAIN w = 1..Len(w) /\ \A i \in 1..Len(w) : w[i] \in Int
  BY LenProperties, ElementOfSeq
<1>2. \A i \in 1..Len(w) : Printed(w[i]) \in Int
  BY <1>1, PrintedNear
<1>3. /\ [i \in 1..Len(w) |-> Printed(w[i])] \in Seq(Int)
      /\ Len([i \in 1..Len(w) |-> Printed(w[i])]) = Len(w)
  BY <1>1, <1>2
<1>4. CASE EvenlySpaced(w)
  <2>1. w[1] \in Int /\ w[2] - w[1] \in Int
    BY <1>1, <1>4 DEF EvenlySpaced
  <2>2. Printed(w[1]) \in Int /\ Printed(w[2] - w[1]) \in Int
    BY <2>1, PrintedNear
  <2> DEFINE a == Printed(w[1])
             b == Printed(w[2] - w[1])
             f == [i \in 1..Len(w) |-> a + (i - 1) * b]
  <2>3. Restored(w) = f
    BY <1>4 DEF Restored
  <2>4. f \in Seq(Int) /\ Len(f) = Len(w)
    <3> HIDE DEF a, b
    <3>1. a \in Int /\ b \in Int
      BY <2>2 DEF a, b
    <3>2. \A i \in 1..Len(w) : a + (i - 1) * b \in Int
      BY <1>1, <3>1
    <3> QED
      BY <1>1, <3>2
  <2> HIDE DEF f
  <2> QED
    BY <1>1, <1>3, <2>3, <2>4
<1>5. CASE ~EvenlySpaced(w)
  BY <1>1, <1>3, <1>5 DEF Restored
<1> QED
  BY <1>4, <1>5

(* The lines of a pulse.                                                   *)
LEMMA WaveTextIs ==
  ASSUME NEW name \in LineNames, NEW w \in Seq(Int), w # << >>
  PROVE  /\ WaveText(name, w) \in Seq(Lines) /\ Len(WaveText(name, w)) \in Nat \ {0}
         /\ EvenlySpaced(w) =>
              /\ Len(WaveText(name, w)) = 1
              /\ WaveText(name, w)[1] = EvenLine(name, Len(w), Printed(w[1]), Printed(w[2] - w[1]))
         /\ ~EvenlySpaced(w) =>
              /\ Restored(w) \in Seq(Int) /\ Restored(w) # << >> /\ Len(Restored(w)) = Len(w)
              /\ WaveText(name, w) = <<Line(name, Len(w))>> \o ValueLines(Restored(w))
              /\ <<Line(name, Len(w))>> \in Seq(Lines) /\ ValueLines(Restored(w)) \in Seq(Lines)
<1>1. Len(w) \in Nat \ {0} /\ \A i \in 1..Len(w) : w[i] \in Int
  BY EmptySeq, ElementOfSeq
<1>2. CASE EvenlySpaced(w)
  <2> DEFINE line == EvenLine(name, Len(w), Printed(w[1]), Printed(w[2] - w[1]))
  <2>1. Printed(w[1]) \in Int /\ Printed(w[2] - w[1]) \in Int
    <3>1. w[1] \in Int /\ w[2] - w[1] \in Int
      BY <1>1, <1>2 DEF EvenlySpaced
    <3> QED
      BY <3>1, PrintedNear
  <2>2. line \in Lines
    <3> DEFINE a == Printed(w[1])
               b == Printed(w[2] - w[1])
    <3>1. a \in Int /\ b \in Int
      BY <2>1
    <3> HIDE DEF a, b
    <3>2. EvenLine(name, Len(w), a, b) \in Lines
      BY <3>1, HeadLineTypes
    <3> QED
      BY <3>2 DEF a, b
  <2>3. WaveText(name, w) = <<line>>
    BY <1>2 DEF WaveText
  <2> HIDE DEF line
  <2>4. <<line>> \in Seq(Lines) /\ Len(<<line>>) = 1 /\ <<line>>[1] = line
    BY <2>2
  <2> QED
    BY <1>2, <2>3, <2>4 DEF line
<1>3. CASE ~EvenlySpaced(w)
  <2> DEFINE p == [i \in 1..Len(w) |-> Printed(w[i])]
  <2>1. p \in Seq(Int) /\ Len(p) = Len(w) /\ p # << >> /\ Restored(w) = p
    BY <1>1, <1>3, RestoredType DEF Restored
  <2>2. WaveText(name, w) = <<Line(name, Len(w))>> \o ValueLines(p)
    BY <1>3, RestoredType DEF WaveText
  <2> HIDE DEF p
  <2>3. ValueLines(p) \in Seq(Lines)
    BY <2>1, ValueLinesAre
  <2>4. Line(name, Len(w)) \in Lines
    <3>1. 0 \in Int
      OBVIOUS
    <3> QED
      BY <3>1, HeadLineTypes
  <2>5. <<Line(name, Len(w))>> \in Seq(Lines) /\ Len(<<Line(name, Len(w))>>) = 1
    <3> DEFINE line == Line(name, Len(w))
    <3>1. line \in Lines
      BY <2>4
    <3> HIDE DEF line
    <3>2. <<line>> \in Seq(Lines) /\ Len(<<line>>) = 1
      BY <3>1
    <3> QED
      BY <3>2 DEF line
  <2>6. /\ <<Line(name, Len(w))>> \o ValueLines(p) \in Seq(Lines)
        /\ Len(<<Line(name, Len(w))>> \o ValueLines(p)) = 1 + Len(ValueLines(p))
    BY <2>3, <2>5, ConcatProperties
  <2>7. Len(ValueLines(p)) \in Nat
    BY <2>3, LenProperties
  <2> QED
    BY <1>3, <2>1, <2>2, <2>3, <2>5, <2>6, <2>7
<1> QED
  BY <1>2, <1>3

(* A pulse that was written is read, wherever it is in the text.           *)
LEMMA WaveRead ==
  ASSUME NEW text \in Seq(Lines), NEW pos \in Nat, NEW name \in LineNames, NEW w \in Seq(Int),
         w # << >>, NEW len \in {0, Len(w)}, Has(text, pos, WaveText(name, w))
  PROVE  ReadWave(text, pos, name, len) =
           [ok |-> TRUE, pos |-> pos + Len(WaveText(name, w)), values |-> Restored(w)]
<1>1. Len(w) \in Nat \ {0} /\ Len(text) \in Nat /\ \A i \in 1..Len(w) : w[i] \in Int
  BY EmptySeq, LenProperties, ElementOfSeq
<1>2. CASE EvenlySpaced(w)
  <2> DEFINE line == EvenLine(name, Len(w), Printed(w[1]), Printed(w[2] - w[1]))
  <2>1. /\ line.name = name /\ line.len = Len(w) /\ line.even
        /\ line.start = Printed(w[1]) /\ line.incr = Printed(w[2] - w[1])
    BY DEF EvenLine
  <2> HIDE DEF line
  <2>2. Len(WaveText(name, w)) = 1 /\ WaveText(name, w)[1] = line
    BY <1>2, WaveTextIs DEF line
  <2>3. text[pos + 1] = line /\ pos # Len(text)
    <3>1. 1 \in 1..Len(WaveText(name, w)) /\ pos + 1 <= Len(text)
      BY <1>1, <2>2 DEF Has
    <3> QED
      BY <1>1, <2>2, <3>1 DEF Has
  <2>4. ReadWave(text, pos, name, len) =
          [ok |-> TRUE, pos |-> pos + 1,
           values |-> [i \in 1..line.len |-> line.start + (i - 1) * line.incr]]
    BY <2>1, <2>3 DEF ReadWave
  <2>5. Restored(w) = [i \in 1..line.len |-> line.start + (i - 1) * line.incr]
    BY <1>2, <2>1 DEF Restored
  <2> QED
    BY <2>2, <2>4, <2>5
<1>3. CASE ~EvenlySpaced(w)
  <2> DEFINE head == Line(name, Len(w))
             p == Restored(w)
             rest == ValueLines(p)
  <2>1. /\ WaveText(name, w) = <<head>> \o rest /\ <<head>> \in Seq(Lines) /\ rest \in Seq(Lines)
        /\ p \in Seq(Int) /\ Len(p) = Len(w) /\ p # << >>
    BY <1>3, WaveTextIs
  <2>2. head.name = name /\ head.len = Len(w) /\ ~head.even
    BY DEF Line
  <2>3. Len(<<head>>) = 1 /\ <<head>>[1] = head
    OBVIOUS
  <2>4. Len(rest) \in Nat
    BY <2>1, LenProperties
  <2> HIDE DEF head, rest, p
  <2>5. /\ Has(text, pos, <<head>>) /\ Has(text, pos + 1, rest)
        /\ Len(WaveText(name, w)) = 1 + Len(rest)
    <3> DEFINE a == <<head>>
    <3>1. a \in Seq(Lines) /\ Len(a) = 1 /\ Has(text, pos, a \o rest)
      BY <2>1, <2>3
    <3> HIDE DEF a
    <3>2. a \in Seq(Lines) /\ rest \in Seq(Lines)
      BY <2>1, <3>1
    <3>3. Has(text, pos, a)
      BY <3>1, <3>2, HasConcat
    <3>4. Has(text, pos + Len(a), rest)
      BY <3>1, <3>2, HasConcat
    <3>5. Len(a \o rest) = Len(a) + Len(rest)
      BY <3>2, ConcatProperties
    <3> QED
      BY <2>1, <3>1, <3>3, <3>4, <3>5 DEF a
  <2>6. text[pos + 1] = head /\ pos # Len(text)
    BY <1>1, <2>3, <2>5 DEF Has
  <2>7. ReadValues(text, pos + 1, Len(p)) =
          [ok |-> TRUE, pos |-> pos + 1 + Len(rest), values |-> p]
    <3>1. pos + 1 \in Nat /\ Has(text, pos + 1, ValueLines(p))
      BY <2>5 DEF rest
    <3> QED
      BY <1>1, <2>1, <3>1, ValuesRead DEF rest
  <2>8. ReadWave(text, pos, name, len) = ReadValues(text, pos + 1, Len(w))
    BY <2>2, <2>6 DEF ReadWave
  <2>9. pos + 1 + Len(rest) = pos + (1 + Len(rest))
    BY <2>4
  <2> QED
    BY <2>1, <2>5, <2>7, <2>8, <2>9 DEF p
<1> QED
  BY <1>2, <1>3

---------------------------------------------------------------------------
(* What is restored is near what was saved.                                *)
LEMMA ScaledMono ==
  ASSUME NEW n \in Nat, NEW a \in Int, NEW b \in Int, a <= b
  PROVE  n * a <= n * b
<1>1. b - a \in Nat
  OBVIOUS
<1>2. n * (b - a) \in Nat
  BY <1>1
<1>3. n * (b - a) = n * b - n * a /\ n * a \in Int /\ n * b \in Int
  OBVIOUS
<1> QED
  BY <1>2, <1>3

LEMMA RestoredNear ==
  ASSUME NEW w \in Seq(Int)
  PROVE  Near(Restored(w), w)
<1>1. Len(w) \in Nat /\ DOMAIN w = 1..Len(w) /\ \A i \in 1..Len(w) : w[i] \in Int
  BY LenProperties, ElementOfSeq
<1>2. DOMAIN Restored(w) = 1..Len(w)
  BY <1>1 DEF Restored
<1>3. PrintUnit \in Nat
  BY CharAssumption
<1>4. ASSUME NEW i \in 1..Len(w)
      PROVE  LET off == 2 * (Restored(w)[i] - w[i])
                 most == IF EvenlySpaced(w) THEN i * PrintUnit ELSE PrintUnit
             IN  -most <= off /\ off <= most
  <2>1. CASE EvenlySpaced(w)
    <3> DEFINE s == w[1]
               d == w[2] - w[1]
               n == i - 1
               ps == Printed(s)
               pd == Printed(d)
    <3>1. s \in Int /\ d \in Int /\ n \in Nat
      BY <1>1, <2>1 DEF EvenlySpaced
    <3>2. /\ ps \in Int /\ -PrintUnit <= 2 * (ps - s) /\ 2 * (ps - s) <= PrintUnit
          /\ pd \in Int /\ -PrintUnit <= 2 * (pd - d) /\ 2 * (pd - d) <= PrintUnit
      BY <3>1, PrintedNear
    <3>3. w[i] = s + n * d
      BY <2>1, EvenSamples
    <3>4. Restored(w)[i] = ps + n * pd
      BY <2>1 DEF Restored
    <3>5. i * PrintUnit = PrintUnit + n * PrintUnit
      BY <1>3
    <3> HIDE DEF s, d, n, ps, pd
    <3> DEFINE e == 2 * (pd - d)
    <3>6. e \in Int /\ -PrintUnit <= e /\ e <= PrintUnit /\ -PrintUnit \in Int
      BY <1>3, <3>1, <3>2
    <3> HIDE DEF e
    <3>7. n * (-PrintUnit) <= n * e /\ n * e <= n * PrintUnit
      BY <1>3, <3>1, <3>6, ScaledMono
    <3>8. n * (-PrintUnit) = -(n * PrintUnit) /\ n * PrintUnit \in Int /\ n * e \in Int
      BY <1>3, <3>1, <3>6
    <3>9. n * e = 2 * (n * pd - n * d) /\ n * pd \in Int /\ n * d \in Int
      BY <3>1, <3>2 DEF e
    <3> DEFINE a == n * PrintUnit
               b == n * pd
               c == n * d
    <3>10. /\ a \in Int /\ b \in Int /\ c \in Int /\ w[i] = s + c /\ Restored(w)[i] = ps + b
           /\ i * PrintUnit = PrintUnit + a /\ -a <= 2 * (b - c) /\ 2 * (b - c) <= a
      BY <3>3, <3>4, <3>5, <3>7, <3>8, <3>9
    <3> HIDE DEF a, b, c
    <3> QED
      BY <1>3, <2>1, <3>1, <3>2, <3>10
  <2>2. CASE ~EvenlySpaced(w)
    <3>1. Restored(w)[i] = Printed(w[i])
      BY <2>2 DEF Restored
    <3> QED
      BY <1>1, <2>2, <3>1, PrintedNear
  <2> QED
    BY <2>1, <2>2
<1> QED
  BY <1>1, <1>2, <1>4 DEF Near

(* A multiple of the last decimal has no part of it left.                  *)
LEMMA MultipleHasNoRest ==
  ASSUME NEW m \in Nat \ {0}, NEW k \in Int, NEW v, v = m * k
  PROVE  v % m = 0
<1> DEFINE q == v \div m
           r == v % m
<1>1. v \in Int
  OBVIOUS
<1>2. q \in Int /\ r \in Int /\ 0 <= r /\ r < m /\ v = m * q + r
  BY <1>1
<1> HIDE DEF q, r
<1> DEFINE e == k - q
<1>3. e \in Int /\ r = m * e
  BY <1>2
<1> HIDE DEF e
<1>4. e >= 1 => m * e >= m
  BY <1>3
<1>5. e <= -1 => m * e <= -m
  BY <1>3
<1>6. e = 0
  BY <1>2, <1>3, <1>4, <1>5
<1>7. r = 0
  BY <1>3, <1>6
<1> QED
  BY <1>7 DEF r

(* Samples of six decimals are restored exactly.                           *)
LEMMA RestoredExact ==
  ASSUME NEW w \in Seq(Int), \A i \in 1..Len(w) : w[i] % PrintUnit = 0
  PROVE  Restored(w) = w
<1>1. Len(w) \in Nat /\ DOMAIN w = 1..Len(w) /\ \A i \in 1..Len(w) : w[i] \in Int
  BY LenProperties, ElementOfSeq
<1>2. Restored(w) \in Seq(Int) /\ Len(Restored(w)) = Len(w)
  BY RestoredType
<1>3. ASSUME NEW i \in 1..Len(w)
      PROVE  Restored(w)[i] = w[i]
  <2>1. CASE EvenlySpaced(w)
    <3> DEFINE s == w[1]
               d == w[2] - w[1]
    <3>1. s \in Int /\ d \in Int /\ s % PrintUnit = 0
      BY <1>1, <2>1 DEF EvenlySpaced
    <3>2. d % PrintUnit = 0
      <4>1. PrintUnit \in Nat \ {0}
        BY CharAssumption
      <4>2. w[1] \in Int /\ w[2] \in Int /\ w[1] % PrintUnit = 0 /\ w[2] % PrintUnit = 0
        BY <1>1, <2>1 DEF EvenlySpaced
      <4> DEFINE a == w[1] \div PrintUnit
                 b == w[2] \div PrintUnit
      <4>3. a \in Int /\ b \in Int /\ w[1] = PrintUnit * a /\ w[2] = PrintUnit * b
        <5>1. ASSUME NEW x \in Int, x % PrintUnit = 0
              PROVE  x \div PrintUnit \in Int /\ x = PrintUnit * (x \div PrintUnit)
          BY <4>1, <5>1
        <5>2. a \in Int /\ w[1] = PrintUnit * a
          BY <4>2, <5>1
        <5>3. b \in Int /\ w[2] = PrintUnit * b
          BY <4>2, <5>1
        <5> QED
          BY <5>2, <5>3
      <4> HIDE DEF a, b
      <4>4. d = PrintUnit * (b - a) /\ b - a \in Int
        BY <4>1, <4>3
      <4> QED
        BY <4>1, <4>4, MultipleHasNoRest
    <3>3. Printed(s) = s /\ Printed(d) = d
      BY <3>1, <3>2, PrintedExact
    <3>4. w[i] = s + (i - 1) * d
      BY <2>1, EvenSamples
    <3>5. Restored(w)[i] = Printed(s) + (i - 1) * Printed(d)
      BY <2>1 DEF Restored
    <3> HIDE DEF s, d
    <3> QED
      BY <3>3, <3>4, <3>5
  <2>2. CASE ~EvenlySpaced(w)
    <3>1. Restored(w)[i] = Printed(w[i])
      BY <2>2 DEF Restored
    <3>2. w[i] \in Int /\ w[i] % PrintUnit = 0
      BY <1>1
    <3> QED
      BY <3>1, <3>2, PrintedExact
  <2> QED
    BY <2>1, <2>2
<1> QED
  BY <1>2, <1>3, SeqEqual

---------------------------------------------------------------------------
(* What a channel may hold, and the text of it.                            *)
Proper(c) ==
  /\ c \in Calibrations /\ c.data # << >> /\ \A i \in DOMAIN c.data : c.data[i] <= 255
  /\ \A p \in Plots : c.plots[p].x # << >> => Len(c.plots[p].x) = Len(c.plots[p].y)

(* Whatever became of it, a text starts with the number of the bytes.      *)
ProperText(text) == text \in Seq(Lines) /\ text # << >> /\ text[1].len # 0

LEMMA CalibrationParts ==
  ASSUME NEW c \in Calibrations
  PROVE  /\ c.data \in Seq(Int)
         /\ \A p \in Plots : c.plots[p].x \in Seq(Int) /\ c.plots[p].y \in Seq(Int)
BY DEF Calibrations

LEMMA HeadingNames ==
  \A p \in Plots : Heading[p].x \in LineNames /\ Heading[p].y \in LineNames
BY DEF Plots, Heading, LineNames

LEMMA ValueLinesTypes ==
  ASSUME NEW v \in Seq(Int)
  PROVE  /\ ValueLines(v) \in Seq(Lines) /\ Len(ValueLines(v)) \in Nat \ {0}
         /\ ValueLines(v)[1].name = "values"
<1>1. CASE v = << >>
  <2> DEFINE line == ValueLine(<<0>>)
  <2>1. <<0>> \in Seq(Int)
    OBVIOUS
  <2>2. line \in Lines /\ line.name = "values"
    BY <2>1, ValueLineIs
  <2>3. ValueLines(v) = <<line>>
    BY <1>1 DEF ValueLines
  <2> HIDE DEF line
  <2> QED
    BY <2>2, <2>3
<1>2. CASE v # << >>
  <2>1. LineCount(v) \in Nat \ {0}
    BY <1>2, LineCounts
  <2>2. /\ ValueLines(v) \in Seq(Lines) /\ Len(ValueLines(v)) = LineCount(v)
        /\ \A k \in 1..LineCount(v) : ValueLines(v)[k].name = "values"
    BY <1>2, ValueLinesAre
  <2>3. 1 \in 1..LineCount(v)
    BY <2>1
  <2> QED
    BY <2>1, <2>2, <2>3
<1> QED
  BY <1>1, <1>2

LEMMA WaveTextTypes ==
  ASSUME NEW name \in LineNames, NEW w \in Seq(Int)
  PROVE  WaveText(name, w) \in Seq(Lines) /\ Len(WaveText(name, w)) \in Nat
<1>1. CASE w # << >>
  BY <1>1, WaveTextIs
<1>2. CASE w = << >>
  <2>1. Len(w) = 0 /\ ~EvenlySpaced(w)
    BY <1>2 DEF EvenlySpaced
  <2> DEFINE p == [i \in DOMAIN w |-> Printed(w[i])]
  <2>2. p \in Seq(Int)
    BY <1>2
  <2>3. WaveText(name, w) = <<Line(name, Len(w))>> \o ValueLines(p)
    BY <2>1 DEF WaveText
  <2> HIDE DEF p
  <2>4. ValueLines(p) \in Seq(Lines)
    BY <2>2, ValueLinesTypes
  <2>5. Line(name, Len(w)) \in Lines
    <3>1. 0 \in Int
      OBVIOUS
    <3> QED
      BY <3>1, HeadLineTypes
  <2>6. <<Line(name, Len(w))>> \in Seq(Lines)
    BY <2>5
  <2>7. WaveText(name, w) \in Seq(Lines)
    BY <2>3, <2>4, <2>6, ConcatProperties
  <2> QED
    BY <2>7, LenProperties
<1> QED
  BY <1>1, <1>2

LEMMA PulseTextTypes ==
  ASSUME NEW c \in Calibrations, NEW p \in Plots
  PROVE  PulseText(c, p) \in Seq(Lines)
<1>1. c.plots[p].x \in Seq(Int) /\ c.plots[p].y \in Seq(Int)
  BY CalibrationParts
<1>2. Heading[p].x \in LineNames /\ Heading[p].y \in LineNames
  BY HeadingNames
<1>3. WaveText(Heading[p].x, c.plots[p].x) \in Seq(Lines)
  BY <1>1, <1>2, WaveTextTypes
<1>4. WaveText(Heading[p].y, c.plots[p].y) \in Seq(Lines)
  BY <1>1, <1>2, WaveTextTypes
<1> QED
  BY <1>3, <1>4, ConcatProperties DEF PulseText

LEMMA DataTextIs ==
  ASSUME NEW data \in Seq(Int)
  PROVE  /\ DataText(data) \in Seq(Lines) /\ Len(DataText(data)) = 1 + Len(ValueLines(data))
         /\ DataText(data)[1] = Line("data", Len(data))
         /\ <<Line("data", Len(data))>> \in Seq(Lines) /\ ValueLines(data) \in Seq(Lines)
<1> DEFINE head == Line("data", Len(data))
           rest == ValueLines(data)
<1>1. head \in Lines
  <2>1. "data" \in LineNames /\ 0 \in Int
    BY DEF LineNames
  <2> QED
    BY <2>1, HeadLineTypes
<1>2. rest \in Seq(Lines) /\ Len(rest) \in Nat \ {0}
  BY ValueLinesTypes
<1>3. DataText(data) = <<head>> \o rest
  BY DEF DataText
<1> HIDE DEF head, rest
<1>4. <<head>> \in Seq(Lines) /\ Len(<<head>>) = 1 /\ <<head>>[1] = head
  BY <1>1
<1> DEFINE a == <<head>>
<1>5. a \in Seq(Lines) /\ Len(a) = 1 /\ a[1] = head /\ DataText(data) = a \o rest
  BY <1>3, <1>4
<1> HIDE DEF a
<1>6. a \o rest \in Seq(Lines) /\ Len(a \o rest) = Len(a) + Len(rest)
  <2>1. a \o rest \in Seq(Lines)
    BY <1>2, <1>5, ConcatProperties
  <2>2. Len(a \o rest) = Len(a) + Len(rest)
    BY <1>2, <1>5, ConcatProperties
  <2> QED
    BY <2>1, <2>2
<1>7. (a \o rest)[1] = head
  <2>1. 1 \in 1..Len(a)
    BY <1>5
  <2>2. (a \o rest)[1] = a[1]
    <3>1. a \in Seq(Lines) /\ rest \in Seq(Lines)
      BY <1>2, <1>5
    <3> HIDE DEF Lines
    <3> QED
      BY <2>1, <3>1, ConcatStarts
  <2> QED
    BY <1>5, <2>2
<1> QED
  BY <1>2, <1>4, <1>5, <1>6, <1>7 DEF head, rest

(* The text of a characterization, and where its parts are.                *)
LEMMA TextIs ==
  ASSUME NEW c \in Calibrations
  PROVE  /\ Text(c) \in Seq(Lines) /\ (c.data # << >> => ProperText(Text(c)))
         /\ Has(Text(c), 0, DataText(c.data))
         /\ Has(Text(c), Len(DataText(c.data)), PulseText(c, "example"))
         /\ Has(Text(c), Len(DataText(c.data)) + Len(PulseText(c, "example")), PulseText(c, "model"))
         /\ Has(Text(c), Len(DataText(c.data)) + Len(PulseText(c, "example"))
                           + Len(PulseText(c, "model")), PulseText(c, "final"))
<1> DEFINE t == Text(c)
           d == DataText(c.data)
           e == PulseText(c, "example")
           m == PulseText(c, "model")
           f == PulseText(c, "final")
<1>0. c.data \in Seq(Int)
  BY CalibrationParts
<1>1. d \in Seq(Lines) /\ e \in Seq(Lines) /\ m \in Seq(Lines) /\ f \in Seq(Lines)
  <2>1. "example" \in Plots /\ "model" \in Plots /\ "final" \in Plots
    BY DEF Plots
  <2> QED
    BY <1>0, <2>1, DataTextIs, PulseTextTypes
<1>2. t = d \o (e \o (m \o f))
  BY DEF Text
<1>3. d[1].len = Len(c.data) /\ Len(d) >= 2
  <2>1. Len(d) = 1 + Len(ValueLines(c.data)) /\ d[1] = Line("data", Len(c.data))
    BY <1>0, DataTextIs
  <2>2. Len(ValueLines(c.data)) \in Nat \ {0}
    BY <1>0, ValueLinesTypes
  <2>3. Line("data", Len(c.data)).len = Len(c.data)
    BY DEF Line
  <2> QED
    BY <2>1, <2>2, <2>3
<1> HIDE DEF t, d, e, m, f
<1>4. m \o f \in Seq(Lines) /\ e \o (m \o f) \in Seq(Lines) /\ t \in Seq(Lines)
  <2>1. m \o f \in Seq(Lines)
    BY <1>1, ConcatProperties
  <2>2. e \o (m \o f) \in Seq(Lines)
    BY <1>1, <2>1, ConcatProperties
  <2> QED
    BY <1>1, <1>2, <2>1, <2>2, ConcatProperties
<1>5. Has(t, 0, d \o (e \o (m \o f)))
  BY <1>2, <1>4, LenProperties DEF Has
<1>6. Has(t, 0, d) /\ Has(t, 0 + Len(d), e \o (m \o f))
  <2>1. 0 \in Nat
    OBVIOUS
  <2> QED
    BY <1>1, <1>4, <1>5, <2>1, HasConcat
<1>7. Len(d) \in Nat /\ Len(e) \in Nat /\ Len(m) \in Nat /\ 0 + Len(d) = Len(d)
  BY <1>1, LenProperties
<1>8. Has(t, Len(d), e) /\ Has(t, Len(d) + Len(e), m \o f)
  <2> DEFINE at == Len(d)
             rest == m \o f
  <2>1. at \in Nat /\ Has(t, at, e \o rest) /\ rest \in Seq(Lines)
    BY <1>4, <1>6, <1>7
  <2> HIDE DEF at, rest
  <2>2. Has(t, at, e) /\ Has(t, at + Len(e), rest)
    BY <1>1, <1>4, <2>1, HasConcat
  <2> QED
    BY <2>2 DEF at, rest
<1>9. Has(t, Len(d) + Len(e), m) /\ Has(t, Len(d) + Len(e) + Len(m), f)
  <2> DEFINE at == Len(d) + Len(e)
  <2>1. at \in Nat /\ Has(t, at, m \o f)
    BY <1>7, <1>8
  <2> HIDE DEF at
  <2>2. Has(t, at, m) /\ Has(t, at + Len(m), f)
    BY <1>1, <1>4, <2>1, HasConcat
  <2> QED
    BY <2>2 DEF at
<1>10. c.data # << >> => ProperText(t)
  <2>1. 1 \in 1..Len(d) /\ 0 + 1 = 1
    BY <1>3, <1>7
  <2>2. t[1] = d[1]
    BY <1>6, <2>1 DEF Has
  <2>3. t # << >>
    <3>1. Len(t) \in Nat /\ Len(t) >= 2
      BY <1>3, <1>4, <1>6, <1>7, LenProperties DEF Has
    <3> QED
      BY <3>1, EmptySeq
  <2>4. c.data # << >> => Len(c.data) # 0
    BY <1>0, EmptySeq
  <2> QED
    BY <1>3, <1>4, <2>2, <2>3, <2>4 DEF ProperText
<1> QED
  BY <1>4, <1>6, <1>8, <1>9, <1>10 DEF t, d, e, m, f

---------------------------------------------------------------------------
(* What is read from a text, whatever it is.                               *)

LEMMA NumbersTypes ==
  ASSUME NEW line \in Lines
  PROVE  Numbers(line) \in Seq(Int)
<1>1. <<0, 0, 0>> \in Seq(Int) /\ <<0>> \in Seq(Int)
  OBVIOUS
<1>2. line.values \in Seq(Int)
  BY DEF Lines
<1> QED
  BY <1>1, <1>2 DEF Numbers

LEMMA ReadValuesTypes ==
  ASSUME NEW text \in Seq(Lines), NEW pos \in 0..Len(text), NEW n \in Nat
  PROVE  LET r == ReadValues(text, pos, n) IN
         /\ r.ok \in BOOLEAN /\ r.pos \in 0..Len(text) /\ r.values \in Seq(Int)
         /\ r.ok => Len(r.values) = n
<1> DEFINE enough == LinesFor(text, pos, n)
           parts(k) == [i \in 1..k |-> Numbers(text[pos + i])]
           k == CHOOSE m \in enough : \A o \in enough : m <= o
           r == ReadValues(text, pos, n)
           flat == FlattenSeq(parts(k))
<1>1. CASE enough = {}
  <2>1. r = Unread
    BY <1>1 DEF ReadValues
  <2>2. << >> \in Seq(Int) /\ 0 \in 0..Len(text)
    BY LenProperties
  <2> QED
    BY <2>1, <2>2 DEF Unread
<1>2. CASE enough # {}
  <2>1. enough \subseteq Nat
    BY LenProperties DEF LinesFor
  <2>2. k \in enough
    <3>1. \E m \in enough : \A o \in enough : m <= o
      <4> HIDE DEF enough
      <4> QED
        BY <1>2, <2>1, LeastOf
    <3> QED
      BY <3>1
  <2>3. r = [ok |-> TRUE, pos |-> pos + k, values |-> SubSeq(flat, 1, n)]
    BY <1>2 DEF ReadValues
  <2>4. k \in Nat /\ k \in 0..Len(text) - pos /\ Len(flat) >= n /\ pos + k \in 0..Len(text)
    <3>1. enough = {m \in 0..Len(text) - pos : Len(FlattenSeq(parts(m))) >= n}
      BY DEF LinesFor
    <3> HIDE DEF enough, k, parts
    <3>2. Len(text) \in Nat
      BY LenProperties
    <3> QED
      BY <2>1, <2>2, <3>1, <3>2
  <2> HIDE DEF k, enough, r
  <2>5. parts(k) \in Seq(Seq(Int))
    <3>1. ASSUME NEW i \in 1..k
          PROVE  Numbers(text[pos + i]) \in Seq(Int)
      <4>1. pos + i \in 1..Len(text)
        BY <2>4, LenProperties
      <4>2. text[pos + i] \in Lines
        BY <4>1, ElementOfSeq
      <4> QED
        BY <4>2, NumbersTypes
    <3> QED
      BY <2>4, <3>1
  <2>6. flat \in Seq(Int)
    <3> HIDE DEF parts
    <3> QED
      BY <2>5, FlattenedRange
  <2> HIDE DEF flat
  <2>7. SubSeq(flat, 1, n) \in Seq(Int) /\ Len(SubSeq(flat, 1, n)) = n
    <3>1. 0 \in 0..Len(flat) /\ n \in 0..Len(flat)
      BY <2>4, <2>6, LenProperties
    <3> QED
      BY <2>6, <3>1, SubSeqJoin
  <2> QED
    BY <2>3, <2>4, <2>7 DEF r
<1> QED
  BY <1>1, <1>2

LEMMA ReadWaveTypes ==
  ASSUME NEW text \in Seq(Lines), NEW pos \in 0..Len(text), NEW name, NEW len \in Nat
  PROVE  LET r == ReadWave(text, pos, name, len) IN
         /\ r.ok \in BOOLEAN /\ r.pos \in 0..Len(text) /\ r.values \in Seq(Int)
         /\ r.ok => (len # 0 => Len(r.values) = len)
<1> DEFINE line == text[pos + 1]
           r == ReadWave(text, pos, name, len)
           missing == pos = Len(text) \/ line.name # name \/ (len # 0 /\ line.len # len)
<1>1. CASE missing
  <2>1. r = Unread
    BY <1>1 DEF ReadWave
  <2>2. << >> \in Seq(Int) /\ 0 \in 0..Len(text)
    BY LenProperties
  <2> QED
    BY <2>1, <2>2 DEF Unread
<1>2. CASE ~missing
  <2>1. line \in Lines /\ pos + 1 \in 0..Len(text)
    <3>1. pos + 1 \in 1..Len(text) /\ pos + 1 \in 0..Len(text)
      BY <1>2, LenProperties
    <3> QED
      BY <3>1, ElementOfSeq
  <2>2. line.len \in Nat /\ line.start \in Int /\ line.incr \in Int /\ line.even \in BOOLEAN
    BY <2>1 DEF Lines
  <2>3. len # 0 => line.len = len
    BY <1>2
  <2>4. CASE line.even
    <3> DEFINE w == [i \in 1..line.len |-> line.start + (i - 1) * line.incr]
    <3>1. r = [ok |-> TRUE, pos |-> pos + 1, values |-> w]
      BY <1>2, <2>4 DEF ReadWave
    <3> HIDE DEF line, r
    <3>2. w \in Seq(Int) /\ Len(w) = line.len
      <4> DEFINE m == line.len
                 a == line.start
                 b == line.incr
      <4>1. m \in Nat /\ a \in Int /\ b \in Int /\ w = [i \in 1..m |-> a + (i - 1) * b]
        BY <2>2
      <4> HIDE DEF m, a, b, w
      <4>2. \A i \in 1..m : a + (i - 1) * b \in Int
        BY <4>1
      <4>3. w \in Seq(Int) /\ Len(w) = m
        BY <4>1, <4>2
      <4> QED
        BY <4>3 DEF m
    <3> HIDE DEF w
    <3> QED
      BY <2>1, <2>3, <3>1, <3>2 DEF r
  <2>5. CASE ~line.even
    <3>1. r = ReadValues(text, pos + 1, line.len)
      BY <1>2, <2>5 DEF ReadWave
    <3> HIDE DEF line, r
    <3>2. /\ r.ok \in BOOLEAN /\ r.pos \in 0..Len(text) /\ r.values \in Seq(Int)
          /\ r.ok => Len(r.values) = line.len
      BY <2>1, <2>2, <3>1, ReadValuesTypes
    <3> QED
      BY <2>3, <3>2 DEF r
  <2> QED
    BY <2>4, <2>5
<1> QED
  BY <1>1, <1>2

LEMMA ReadDataTypes ==
  ASSUME NEW text, ProperText(text)
  PROVE  LET r == ReadData(text) IN
         /\ r.ok \in BOOLEAN /\ r.pos \in 0..Len(text) /\ r.values \in Seq(Int)
         /\ r.ok => r.values # << >> /\ \A i \in DOMAIN r.values : r.values[i] <= 255
<1> DEFINE r == ReadData(text)
           all == ReadValues(text, 1, text[1].len)
<1>0. << >> \in Seq(Int) /\ (text \in Seq(Lines) => 0 \in 0..Len(text))
  BY LenProperties
<1>1. text \in Seq(Lines) /\ Len(text) # 0 /\ text[1] \in Lines /\ text[1].len # 0
  <2>1. text \in Seq(Lines) /\ text # << >> /\ text[1].len # 0
    BY DEF ProperText
  <2>2. Len(text) # 0 /\ 1 \in 1..Len(text)
    BY <2>1, EmptySeq, LenProperties
  <2> QED
    BY <2>1, <2>2, ElementOfSeq
<1>2. text[1].len \in Nat
  BY <1>1 DEF Lines
<1>3. /\ all.ok \in BOOLEAN /\ all.pos \in 0..Len(text) /\ all.values \in Seq(Int)
      /\ all.ok => Len(all.values) = text[1].len
  <2>1. 1 \in 0..Len(text)
    BY <1>1, LenProperties
  <2> QED
    BY <1>1, <1>2, <2>1, ReadValuesTypes
<1>4. CASE r = Unread
  BY <1>0, <1>1, <1>4 DEF Unread
<1>5. CASE r # Unread
  <2>1. r = all /\ \A i \in DOMAIN all.values : ~(all.values[i] > 255)
    BY <1>1, <1>5 DEF ReadData
  <2> HIDE DEF all
  <2>2. \A i \in DOMAIN all.values : all.values[i] <= 255
    <3>1. \A i \in DOMAIN all.values : all.values[i] \in Int
      BY <1>3, ElementOfSeq, LenProperties
    <3> QED
      BY <2>1, <3>1
  <2>3. all.ok => all.values # << >>
    BY <1>1, <1>3, EmptySeq
  <2> QED
    BY <1>3, <2>1, <2>2, <2>3
<1> QED
  BY <1>4, <1>5

LEMMA WithPulseIs ==
  ASSUME NEW c \in Calibrations, NEW p \in Plots, NEW x \in Seq(Int), NEW y \in Seq(Int)
  PROVE  /\ WithPulse(c, p, x, y) \in Calibrations /\ WithPulse(c, p, x, y).data = c.data
         /\ WithPulse(c, p, x, y).plots[p] = [x |-> x, y |-> y]
         /\ \A q \in Plots \ {p} : WithPulse(c, p, x, y).plots[q] = c.plots[q]
<1> DEFINE Pulses == [x : Seq(Int), y : Seq(Int)]
           new == [x |-> x, y |-> y]
<1>1. new \in Pulses
  OBVIOUS
<1>2. c.plots \in [Plots -> Pulses] /\ c.data \in Seq(Int)
  BY DEF Calibrations
<1> DEFINE all == [c.plots EXCEPT ![p] = new]
<1> HIDE DEF Pulses, new
<1>3. all \in [Plots -> Pulses] /\ all[p] = new /\ \A q \in Plots \ {p} : all[q] = c.plots[q]
  BY <1>1, <1>2
<1>4. WithPulse(c, p, x, y) = [data |-> c.data, plots |-> all]
  BY DEF WithPulse, new
<1> HIDE DEF all
<1>5. [data |-> c.data, plots |-> all] \in Calibrations
  BY <1>2, <1>3 DEF Calibrations, Pulses
<1> QED
  BY <1>3, <1>4, <1>5 DEF new

(* What was read of the bytes and of the pulses so far.                    *)
Readings(text) == [ok : BOOLEAN, pos : 0..Len(text), calib : Calibrations]
Bytes(c) == c.data # << >> /\ \A i \in DOMAIN c.data : c.data[i] <= 255
Paired(c, p) == c.plots[p].x # << >> => Len(c.plots[p].x) = Len(c.plots[p].y)

LEMMA ReadPulseTypes ==
  ASSUME NEW text \in Seq(Lines), NEW r \in Readings(text), NEW p \in Plots
  PROVE  LET q == ReadPulse(text, r, p) IN
         /\ q \in Readings(text)
         /\ q.ok => /\ r.ok /\ q.calib.data = r.calib.data /\ Paired(q.calib, p)
                    /\ \A o \in Plots \ {p} : q.calib.plots[o] = r.calib.plots[o]
<1> DEFINE x == ReadWave(text, r.pos, Heading[p].x, 0)
           y == ReadWave(text, x.pos, Heading[p].y, Len(x.values))
           q == ReadPulse(text, r, p)
           new == WithPulse(r.calib, p, x.values, y.values)
<1>1. r.ok \in BOOLEAN /\ r.pos \in 0..Len(text) /\ r.calib \in Calibrations
  BY DEF Readings
<1>2. x.ok \in BOOLEAN /\ x.pos \in 0..Len(text) /\ x.values \in Seq(Int)
  <2>1. 0 \in Nat
    OBVIOUS
  <2> QED
    BY <1>1, <2>1, ReadWaveTypes
<1> HIDE DEF x
<1>3. /\ y.ok \in BOOLEAN /\ y.pos \in 0..Len(text) /\ y.values \in Seq(Int)
      /\ y.ok => (Len(x.values) # 0 => Len(y.values) = Len(x.values))
  <2> DEFINE n == Len(x.values)
  <2>1. n \in Nat
    BY <1>2, LenProperties
  <2> HIDE DEF n
  <2>2. LET u == ReadWave(text, x.pos, Heading[p].y, n) IN
        /\ u.ok \in BOOLEAN /\ u.pos \in 0..Len(text) /\ u.values \in Seq(Int)
        /\ u.ok => (n # 0 => Len(u.values) = n)
    BY <1>2, <2>1, ReadWaveTypes
  <2> QED
    BY <2>2 DEF n
<1>4. q = IF r.ok /\ x.ok /\ y.ok THEN [ok |-> TRUE, pos |-> y.pos, calib |-> new]
          ELSE [ok |-> FALSE, pos |-> r.pos, calib |-> r.calib]
  BY DEF ReadPulse, x
<1> HIDE DEF y, q
<1>5. /\ new \in Calibrations /\ new.data = r.calib.data
      /\ new.plots[p] = [x |-> x.values, y |-> y.values]
      /\ \A o \in Plots \ {p} : new.plots[o] = r.calib.plots[o]
  BY <1>1, <1>2, <1>3, WithPulseIs
<1> HIDE DEF new
<1>6. CASE r.ok /\ x.ok /\ y.ok
  <2>1. q = [ok |-> TRUE, pos |-> y.pos, calib |-> new]
    BY <1>4, <1>6
  <2>2. Paired(new, p)
    <3>1. x.values # << >> => Len(x.values) # 0
      BY <1>2, EmptySeq
    <3> QED
      BY <1>3, <1>5, <1>6, <3>1 DEF Paired
  <2>3. q \in Readings(text)
    BY <1>3, <1>5, <2>1 DEF Readings
  <2> QED
    BY <1>5, <1>6, <2>1, <2>2, <2>3 DEF q
<1>7. CASE ~(r.ok /\ x.ok /\ y.ok)
  <2>1. q = [ok |-> FALSE, pos |-> r.pos, calib |-> r.calib]
    BY <1>4, <1>7
  <2>2. q \in Readings(text)
    BY <1>1, <2>1 DEF Readings
  <2> QED
    BY <2>1, <2>2 DEF q
<1> QED
  BY <1>6, <1>7

LEMMA NothingIs == Nothing \in Calibrations /\ Nothing.data = << >>
<1>1. << >> \in Seq(Int)
  OBVIOUS
<1> QED
  BY <1>1 DEF Nothing, Calibrations

(* What is read from a text without an error is proper, whatever it says.  *)
LEMMA ReadTextTypes ==
  ASSUME NEW text, ProperText(text)
  PROVE  ReadText(text).ok \in BOOLEAN /\ (ReadText(text).ok => Proper(ReadText(text).calib))
<1> DEFINE data == ReadData(text)
           start == [ok |-> data.ok, pos |-> data.pos,
                     calib |-> [data |-> data.values, plots |-> Nothing.plots]]
           e == ReadPulse(text, start, "example")
           m == ReadPulse(text, e, "model")
           f == ReadPulse(text, m, "final")
<1>0. text \in Seq(Lines)
  BY DEF ProperText
<1>1. /\ data.ok \in BOOLEAN /\ data.pos \in 0..Len(text) /\ data.values \in Seq(Int)
      /\ data.ok => data.values # << >> /\ \A i \in DOMAIN data.values : data.values[i] <= 255
  BY ReadDataTypes
<1>2. "example" \in Plots /\ "model" \in Plots /\ "final" \in Plots
  BY DEF Plots
<1>3. ReadText(text) = f
  BY DEF ReadText
<1> HIDE DEF data
<1>4. start \in Readings(text) /\ (start.ok => Bytes(start.calib))
  <2> DEFINE c == [data |-> data.values, plots |-> Nothing.plots]
  <2>1. c \in Calibrations /\ c.data = data.values
    BY <1>1, NothingIs DEF Calibrations
  <2>2. start = [ok |-> data.ok, pos |-> data.pos, calib |-> c]
    OBVIOUS
  <2> HIDE DEF c, start
  <2>3. start \in Readings(text) /\ start.ok = data.ok /\ start.calib = c
    BY <1>1, <2>1, <2>2 DEF Readings
  <2> QED
    BY <1>1, <2>1, <2>3 DEF Bytes
<1> HIDE DEF start
<1>5. /\ e \in Readings(text)
      /\ e.ok => start.ok /\ e.calib.data = start.calib.data /\ Paired(e.calib, "example")
  BY <1>0, <1>2, <1>4, ReadPulseTypes
<1> HIDE DEF e
<1>6. /\ m \in Readings(text)
      /\ m.ok => /\ e.ok /\ m.calib.data = e.calib.data /\ Paired(m.calib, "model")
                 /\ \A o \in Plots \ {"model"} : m.calib.plots[o] = e.calib.plots[o]
  BY <1>0, <1>2, <1>5, ReadPulseTypes
<1> HIDE DEF m
<1>7. /\ f \in Readings(text)
      /\ f.ok => /\ m.ok /\ f.calib.data = m.calib.data /\ Paired(f.calib, "final")
                 /\ \A o \in Plots \ {"final"} : f.calib.plots[o] = m.calib.plots[o]
  BY <1>0, <1>2, <1>6, ReadPulseTypes
<1> HIDE DEF f
<1>8. f.ok \in BOOLEAN /\ f.calib \in Calibrations
  BY <1>7 DEF Readings
<1>9. ASSUME f.ok
      PROVE  Proper(f.calib)
  <2>1. Bytes(f.calib)
    BY <1>4, <1>5, <1>6, <1>7, <1>9 DEF Bytes
  <2>2. ASSUME NEW p \in Plots
        PROVE  Paired(f.calib, p)
    <3>1. CASE p = "final"
      BY <1>7, <1>9, <3>1
    <3>2. CASE p = "model"
      <4>1. f.calib.plots["model"] = m.calib.plots["model"] /\ Paired(m.calib, "model")
        BY <1>2, <1>6, <1>7, <1>9
      <4> QED
        BY <3>2, <4>1 DEF Paired
    <3>3. CASE p = "example"
      <4>1. /\ f.calib.plots["example"] = m.calib.plots["example"]
            /\ m.calib.plots["example"] = e.calib.plots["example"] /\ Paired(e.calib, "example")
        BY <1>2, <1>5, <1>6, <1>7, <1>9
      <4> QED
        BY <3>3, <4>1 DEF Paired
    <3> QED
      BY <3>1, <3>2, <3>3 DEF Plots
  <2> QED
    BY <1>8, <2>1, <2>2 DEF Proper, Bytes, Paired
<1> QED
  BY <1>3, <1>8, <1>9

---------------------------------------------------------------------------
(* What was written is read.                                               *)
Back(c) ==
  [data |-> c.data,
   plots |-> [p \in Plots |-> [x |-> Restored(c.plots[p].x), y |-> Restored(c.plots[p].y)]]]

LEMMA DataRead ==
  ASSUME NEW text \in Seq(Lines), NEW data \in Seq(Int), data # << >>,
         \A i \in DOMAIN data : data[i] <= 255, Has(text, 0, DataText(data))
  PROVE  ReadData(text) = [ok |-> TRUE, pos |-> Len(DataText(data)), values |-> data]
<1> DEFINE head == Line("data", Len(data))
           rest == ValueLines(data)
           all == [ok |-> TRUE, pos |-> Len(DataText(data)), values |-> data]
<1>1. head.name = "data" /\ head.len = Len(data)
  BY DEF Line
<1>2. DataText(data) = <<head>> \o rest /\ Len(<<head>>) = 1 /\ <<head>>[1] = head
  BY DEF DataText
<1>3. <<head>> \in Seq(Lines) /\ rest \in Seq(Lines) /\ Len(DataText(data)) = 1 + Len(rest)
  BY DataTextIs
<1> HIDE DEF head, rest
<1>4. Has(text, 0, <<head>>) /\ Has(text, 1, rest)
  <2> DEFINE a == <<head>>
  <2>1. a \in Seq(Lines) /\ Len(a) = 1 /\ Has(text, 0, a \o rest)
    BY <1>2, <1>3
  <2> HIDE DEF a
  <2>2. 0 \in Nat
    OBVIOUS
  <2>3. Has(text, 0, a) /\ Has(text, 0 + Len(a), rest)
    BY <1>3, <2>1, <2>2, HasConcat
  <2>4. 0 + Len(a) = 1
    BY <2>1
  <2> QED
    BY <2>3, <2>4 DEF a
<1>5. text[1] = head /\ Len(text) # 0
  <2>1. 1 \in 1..Len(<<head>>) /\ 0 + 1 = 1
    BY <1>2
  <2>2. text[1] = head
    BY <1>2, <1>4, <2>1 DEF Has
  <2>3. 0 + 1 <= Len(text) /\ Len(text) \in Nat
    BY <1>2, <1>4, LenProperties DEF Has
  <2> QED
    BY <2>2, <2>3
<1>6. ReadValues(text, 1, Len(data)) = [ok |-> TRUE, pos |-> 1 + Len(rest), values |-> data]
  <2>1. 1 \in Nat /\ Len(text) \in Nat /\ Has(text, 1, ValueLines(data))
    BY <1>4, LenProperties DEF rest
  <2> QED
    BY <2>1, ValuesRead DEF rest
<1>7. all = ReadValues(text, 1, Len(data)) /\ all.values = data
  BY <1>3, <1>6
<1> HIDE DEF all
<1>8. \A i \in DOMAIN data : ~(data[i] > 255)
  BY ElementOfSeq, LenProperties
<1>9. ReadData(text) = all
  BY <1>1, <1>5, <1>7, <1>8 DEF ReadData
<1> QED
  BY <1>9 DEF all

LEMMA PulseRead ==
  ASSUME NEW text \in Seq(Lines), NEW c \in Calibrations, NEW p \in Plots,
         c.plots[p].x # << >>, Len(c.plots[p].x) = Len(c.plots[p].y),
         NEW r, r.ok = TRUE, r.pos \in Nat, Has(text, r.pos, PulseText(c, p))
  PROVE  ReadPulse(text, r, p) =
           [ok |-> TRUE, pos |-> r.pos + Len(PulseText(c, p)),
            calib |-> WithPulse(r.calib, p, Restored(c.plots[p].x), Restored(c.plots[p].y))]
<1> DEFINE wx == c.plots[p].x
           wy == c.plots[p].y
           hx == Heading[p].x
           hy == Heading[p].y
           tx == WaveText(hx, wx)
           ty == WaveText(hy, wy)
           at == r.pos
           mid == at + Len(tx)
<1>1. hx \in LineNames /\ hy \in LineNames /\ wx \in Seq(Int) /\ wy \in Seq(Int)
  BY HeadingNames, CalibrationParts
<1>2. wx # << >> /\ Len(wx) = Len(wy) /\ Len(wx) \in Nat /\ Len(wx) # 0 /\ wy # << >>
  BY <1>1, EmptySeq, LenProperties
<1>3. tx \in Seq(Lines) /\ ty \in Seq(Lines) /\ Len(tx) \in Nat /\ Len(ty) \in Nat
  BY <1>1, WaveTextTypes
<1>4. PulseText(c, p) = tx \o ty /\ at \in Nat
  BY DEF PulseText
<1> HIDE DEF wx, wy, hx, hy
<1>5. ReadPulse(text, r, p) =
        LET x == ReadWave(text, at, hx, 0)
            y == ReadWave(text, x.pos, hy, Len(x.values))
        IN  IF r.ok /\ x.ok /\ y.ok
            THEN [ok |-> TRUE, pos |-> y.pos, calib |-> WithPulse(r.calib, p, x.values, y.values)]
            ELSE [ok |-> FALSE, pos |-> at, calib |-> r.calib]
  BY DEF ReadPulse, hx, hy
<1> HIDE DEF tx, ty, at
<1>6. Has(text, at, tx) /\ Has(text, mid, ty) /\ mid \in Nat
      /\ Len(PulseText(c, p)) = Len(tx) + Len(ty)
  <2>1. Has(text, at, tx \o ty)
    BY <1>4 DEF at
  <2>2. Has(text, at, tx) /\ Has(text, at + Len(tx), ty) /\ Len(tx \o ty) = Len(tx) + Len(ty)
    BY <1>3, <1>4, <2>1, HasConcat
  <2> QED
    BY <1>3, <1>4, <2>2
<1> HIDE DEF mid
<1>7. ReadWave(text, at, hx, 0) = [ok |-> TRUE, pos |-> at + Len(tx), values |-> Restored(wx)]
  <2>1. Has(text, at, WaveText(hx, wx)) /\ 0 \in {0, Len(wx)}
    BY <1>6 DEF tx
  <2> QED
    BY <1>1, <1>2, <1>4, <2>1, WaveRead DEF tx
<1>8. ReadWave(text, mid, hy, Len(wy)) = [ok |-> TRUE, pos |-> mid + Len(ty), values |-> Restored(wy)]
  <2>1. Has(text, mid, WaveText(hy, wy)) /\ Len(wy) \in {0, Len(wy)}
    BY <1>6 DEF ty
  <2> QED
    BY <1>1, <1>2, <1>6, <2>1, WaveRead DEF ty
<1>9. Len(Restored(wx)) = Len(wy)
  BY <1>1, <1>2, RestoredType
<1>10. mid = at + Len(tx) /\ mid + Len(ty) = at + Len(PulseText(c, p))
  BY <1>3, <1>4, <1>6 DEF mid
<1>11. ReadPulse(text, r, p) =
         [ok |-> TRUE, pos |-> mid + Len(ty),
          calib |-> WithPulse(r.calib, p, Restored(wx), Restored(wy))]
  <2> DEFINE x == ReadWave(text, at, hx, 0)
             y == ReadWave(text, x.pos, hy, Len(x.values))
  <2>1. x.ok /\ x.pos = mid /\ x.values = Restored(wx)
    BY <1>7, <1>10
  <2>2. ReadPulse(text, r, p) =
          IF r.ok /\ x.ok /\ y.ok
          THEN [ok |-> TRUE, pos |-> y.pos, calib |-> WithPulse(r.calib, p, x.values, y.values)]
          ELSE [ok |-> FALSE, pos |-> at, calib |-> r.calib]
    BY <1>5
  <2> HIDE DEF x
  <2>3. y = ReadWave(text, mid, hy, Len(wy))
    BY <1>9, <2>1
  <2>4. y.ok /\ y.pos = mid + Len(ty) /\ y.values = Restored(wy)
    BY <1>8, <2>3
  <2> HIDE DEF y
  <2> QED
    BY <2>1, <2>2, <2>4
<1> QED
  BY <1>10, <1>11 DEF wx, wy, at

(* The saved text of a whole characterization gives it back.               *)
LEMMA TextRead ==
  ASSUME NEW c, Proper(c), \A p \in Plots : c.plots[p].x # << >>
  PROVE  ReadText(Text(c)).ok /\ ReadText(Text(c)).calib = Back(c)
<1> DEFINE t == Text(c)
           ld == Len(DataText(c.data))
           le == Len(PulseText(c, "example"))
           lm == Len(PulseText(c, "model"))
           back(p) == [x |-> Restored(c.plots[p].x), y |-> Restored(c.plots[p].y)]
           start == [ok |-> TRUE, pos |-> ld, calib |-> [data |-> c.data, plots |-> Nothing.plots]]
           e == ReadPulse(t, start, "example")
           m == ReadPulse(t, e, "model")
           f == ReadPulse(t, m, "final")
<1>1. /\ c \in Calibrations /\ c.data \in Seq(Int) /\ c.data # << >>
      /\ \A i \in DOMAIN c.data : c.data[i] <= 255
      /\ \A p \in Plots : c.plots[p].x # << >> /\ Len(c.plots[p].x) = Len(c.plots[p].y)
  BY CalibrationParts DEF Proper
<1>2. "example" \in Plots /\ "model" \in Plots /\ "final" \in Plots
  BY DEF Plots
<1>3. /\ t \in Seq(Lines) /\ Has(t, 0, DataText(c.data)) /\ Has(t, ld, PulseText(c, "example"))
      /\ Has(t, ld + le, PulseText(c, "model")) /\ Has(t, ld + le + lm, PulseText(c, "final"))
  BY <1>1, TextIs
<1>4. ld \in Nat /\ le \in Nat /\ lm \in Nat
  <2>1. DataText(c.data) \in Seq(Lines) /\ PulseText(c, "example") \in Seq(Lines)
          /\ PulseText(c, "model") \in Seq(Lines)
    BY <1>1, <1>2, DataTextIs, PulseTextTypes
  <2> QED
    BY <2>1, LenProperties
<1> HIDE DEF t
<1>5. ReadData(t) = [ok |-> TRUE, pos |-> ld, values |-> c.data]
  BY <1>1, <1>3, DataRead
<1>6. ReadText(t) = f
  BY <1>5 DEF ReadText
<1> HIDE DEF ld, le, lm
<1>7. start.ok = TRUE /\ start.pos = ld /\ start.calib.data = c.data /\ start.calib \in Calibrations
  <2> DEFINE z == [data |-> c.data, plots |-> Nothing.plots]
  <2>1. z \in Calibrations /\ z.data = c.data
    BY <1>1, NothingIs DEF Calibrations
  <2> HIDE DEF z
  <2>2. start = [ok |-> TRUE, pos |-> ld, calib |-> z]
    BY DEF z
  <2> HIDE DEF start
  <2> QED
    BY <2>1, <2>2
<1> HIDE DEF start
<1>8. \A p \in Plots : Restored(c.plots[p].x) \in Seq(Int) /\ Restored(c.plots[p].y) \in Seq(Int)
  BY <1>1, CalibrationParts, RestoredType
<1> HIDE DEF back
<1>9. ASSUME NEW u, NEW p \in Plots, u.calib \in Calibrations
      PROVE  LET w == WithPulse(u.calib, p, Restored(c.plots[p].x), Restored(c.plots[p].y)) IN
             /\ w \in Calibrations /\ w.data = u.calib.data /\ w.plots[p] = back(p)
             /\ \A o \in Plots \ {p} : w.plots[o] = u.calib.plots[o]
  <2> DEFINE z == u.calib
             x == Restored(c.plots[p].x)
             y == Restored(c.plots[p].y)
  <2>1. z \in Calibrations /\ x \in Seq(Int) /\ y \in Seq(Int) /\ back(p) = [x |-> x, y |-> y]
    BY <1>8, <1>9 DEF back
  <2> HIDE DEF x, y, z
  <2>2. /\ WithPulse(z, p, x, y) \in Calibrations /\ WithPulse(z, p, x, y).data = z.data
        /\ WithPulse(z, p, x, y).plots[p] = [x |-> x, y |-> y]
        /\ \A o \in Plots \ {p} : WithPulse(z, p, x, y).plots[o] = z.plots[o]
    BY <2>1, WithPulseIs
  <2> QED
    BY <2>1, <2>2 DEF x, y, z
<1>10. ASSUME NEW u, NEW p \in Plots, u.ok = TRUE, u.pos \in Nat, u.calib \in Calibrations,
              Has(t, u.pos, PulseText(c, p))
       PROVE  LET q == ReadPulse(t, u, p) IN
              /\ q.ok = TRUE /\ q.pos = u.pos + Len(PulseText(c, p)) /\ q.calib \in Calibrations
              /\ q.calib.data = u.calib.data /\ q.calib.plots[p] = back(p)
              /\ \A o \in Plots \ {p} : q.calib.plots[o] = u.calib.plots[o]
  <2> DEFINE w == WithPulse(u.calib, p, Restored(c.plots[p].x), Restored(c.plots[p].y))
  <2>1. ReadPulse(t, u, p) = [ok |-> TRUE, pos |-> u.pos + Len(PulseText(c, p)), calib |-> w]
    BY <1>1, <1>3, <1>10, PulseRead
  <2>2. /\ w \in Calibrations /\ w.data = u.calib.data /\ w.plots[p] = back(p)
        /\ \A o \in Plots \ {p} : w.plots[o] = u.calib.plots[o]
    BY <1>9, <1>10
  <2> HIDE DEF w
  <2> QED
    BY <2>1, <2>2
<1>11. /\ e.ok = TRUE /\ e.pos = ld + le /\ e.calib \in Calibrations
       /\ e.calib.data = c.data /\ e.calib.plots["example"] = back("example")
  BY <1>2, <1>3, <1>4, <1>7, <1>10 DEF le
<1> HIDE DEF e
<1>12. /\ m.ok = TRUE /\ m.pos = ld + le + lm /\ m.calib \in Calibrations
       /\ m.calib.data = c.data /\ m.calib.plots["model"] = back("model")
       /\ m.calib.plots["example"] = back("example")
  <2>1. "example" \in Plots \ {"model"} /\ ld + le \in Nat
    BY <1>2, <1>4
  <2>2. e.ok = TRUE /\ e.pos \in Nat /\ e.calib \in Calibrations /\ Has(t, e.pos, PulseText(c, "model"))
    BY <1>3, <1>11, <2>1
  <2>3. /\ m.ok = TRUE /\ m.pos = e.pos + lm /\ m.calib \in Calibrations
        /\ m.calib.data = e.calib.data /\ m.calib.plots["model"] = back("model")
        /\ \A o \in Plots \ {"model"} : m.calib.plots[o] = e.calib.plots[o]
    BY <1>2, <1>10, <2>2 DEF lm
  <2> HIDE DEF m
  <2> QED
    BY <1>11, <2>1, <2>3
<1> HIDE DEF m
<1>13. /\ f.ok = TRUE /\ f.calib \in Calibrations
       /\ f.calib.data = c.data /\ f.calib.plots["final"] = back("final")
       /\ f.calib.plots["model"] = back("model") /\ f.calib.plots["example"] = back("example")
  <2>1. "example" \in Plots \ {"final"} /\ "model" \in Plots \ {"final"} /\ ld + le + lm \in Nat
    BY <1>2, <1>4
  <2>2. m.ok = TRUE /\ m.pos \in Nat /\ m.calib \in Calibrations /\ Has(t, m.pos, PulseText(c, "final"))
    BY <1>3, <1>12, <2>1
  <2>3. /\ f.ok = TRUE /\ f.calib \in Calibrations
        /\ f.calib.data = m.calib.data /\ f.calib.plots["final"] = back("final")
        /\ \A o \in Plots \ {"final"} : f.calib.plots[o] = m.calib.plots[o]
    BY <1>2, <1>10, <2>2
  <2> HIDE DEF f
  <2> QED
    BY <1>12, <2>1, <2>3
<1> HIDE DEF f
<1>14. f.calib = Back(c)
  <2> DEFINE z == f.calib
             all == [p \in Plots |-> back(p)]
  <2>1. \A p \in Plots : z.plots[p] = back(p)
    BY <1>13 DEF Plots
  <2>2. z \in Calibrations /\ z.data = c.data
    BY <1>13
  <2> HIDE DEF z
  <2>3. z = [data |-> z.data, plots |-> z.plots] /\ z.plots = [p \in Plots |-> z.plots[p]]
    BY <2>2 DEF Calibrations
  <2>4. [p \in Plots |-> z.plots[p]] = all
    BY <2>1
  <2>5. Back(c) = [data |-> c.data, plots |-> all]
    BY DEF Back, back
  <2> HIDE DEF all
  <2> QED
    BY <2>2, <2>3, <2>4, <2>5 DEF z
<1> QED
  BY <1>6, <1>13, <1>14 DEF t

---------------------------------------------------------------------------
(* What comes back is what was saved, to the decimals written.             *)

LEMMA RestoredRamp ==
  ASSUME NEW w \in Seq(Int), \A i \in DOMAIN w : w[i] = (i - 1) * PrintUnit
  PROVE  Restored(w) = w
<1>1. PrintUnit \in Nat \ {0} /\ Len(w) \in Nat /\ DOMAIN w = 1..Len(w)
  BY CharAssumption, LenProperties
<1>2. ASSUME NEW i \in 1..Len(w)
      PROVE  w[i] % PrintUnit = 0
  <2>1. i - 1 \in Int /\ w[i] = PrintUnit * (i - 1)
    BY <1>1
  <2> QED
    BY <1>1, <2>1, MultipleHasNoRest
<1> QED
  BY <1>2, RestoredExact

LEMMA BackKeeps ==
  ASSUME NEW c \in Calibrations, Sane(c)
  PROVE  /\ Back(c).data = c.data
         /\ \A p \in Plots : Back(c).plots[p].x = c.plots[p].x /\ Near(Back(c).plots[p].y, c.plots[p].y)
         /\ OfTheFile(c) => Back(c) = c
<1>1. /\ c = [data |-> c.data, plots |-> c.plots]
      /\ c.plots = [p \in Plots |-> c.plots[p]] /\ DOMAIN c.plots = Plots
      /\ \A p \in Plots : /\ c.plots[p].x \in Seq(Int) /\ c.plots[p].y \in Seq(Int)
                          /\ c.plots[p] = [x |-> c.plots[p].x, y |-> c.plots[p].y]
  BY DEF Calibrations
<1>2. \A p \in Plots : Restored(c.plots[p].x) = c.plots[p].x
  BY <1>1, RestoredRamp DEF Sane
<1>3. \A p \in Plots : Near(Restored(c.plots[p].y), c.plots[p].y)
  BY <1>1, RestoredNear
<1>4. Back(c).data = c.data /\ \A p \in Plots : /\ Back(c).plots[p].x = Restored(c.plots[p].x)
                                                /\ Back(c).plots[p].y = Restored(c.plots[p].y)
  BY DEF Back
<1>5. ASSUME OfTheFile(c)
      PROVE  Back(c) = c
  <2>1. ASSUME NEW p \in Plots
        PROVE  Restored(c.plots[p].y) = c.plots[p].y
    <3>1. \A i \in 1..Len(c.plots[p].y) : c.plots[p].y[i] % PrintUnit = 0
      BY <1>1, <1>5, LenProperties DEF OfTheFile
    <3> QED
      BY <1>1, <3>1, RestoredExact
  <2> DEFINE back(p) == [x |-> Restored(c.plots[p].x), y |-> Restored(c.plots[p].y)]
             all == [p \in Plots |-> back(p)]
  <2>2. \A p \in Plots : back(p) = c.plots[p]
    BY <1>1, <1>2, <2>1
  <2> HIDE DEF back
  <2>3. all = c.plots
    BY <1>1, <2>2
  <2>4. Back(c) = [data |-> c.data, plots |-> all]
    BY DEF Back, back
  <2> HIDE DEF all
  <2> QED
    BY <1>1, <2>3, <2>4
<1> QED
  BY <1>2, <1>3, <1>4, <1>5

---------------------------------------------------------------------------
(* What a text can become.                                                 *)

LEMMA LenChanged ==
  ASSUME NEW N, NEW L, NEW B, NEW I, NEW V,
         NEW r \in [name : N, len : L, even : B, start : I, incr : I, values : V], NEW n \in L
  PROVE  /\ [r EXCEPT !.len = n] \in [name : N, len : L, even : B, start : I, incr : I, values : V]
         /\ [r EXCEPT !.len = n].len = n
OBVIOUS

LEMMA ValueChanged ==
  ASSUME NEW N, NEW L, NEW B, NEW I, NEW V,
         NEW r \in [name : N, len : L, even : B, start : I, incr : I, values : V], NEW i, NEW n,
         [r.values EXCEPT ![i] = n] \in V
  PROVE  /\ [r EXCEPT !.values[i] = n]
              \in [name : N, len : L, even : B, start : I, incr : I, values : V]
         /\ [r EXCEPT !.values[i] = n].len = r.len
OBVIOUS

LEMMA LineChanged ==
  ASSUME NEW line \in Lines
  PROVE  /\ \A n \in Nat : /\ [line EXCEPT !.len = n] \in Lines
                           /\ [line EXCEPT !.len = n].len = n
         /\ \A i, n \in Int : /\ [line EXCEPT !.values[i] = n] \in Lines
                              /\ [line EXCEPT !.values[i] = n].len = line.len
<1>3. ASSUME NEW n \in Nat
      PROVE  [line EXCEPT !.len = n] \in Lines /\ [line EXCEPT !.len = n].len = n
  BY LenChanged DEF Lines
<1>4. ASSUME NEW i \in Int, NEW n \in Int
      PROVE  [line EXCEPT !.values[i] = n] \in Lines /\ [line EXCEPT !.values[i] = n].len = line.len
  <2> DEFINE v == line.values
  <2>1. v \in Seq(Int)
    BY DEF Lines
  <2> HIDE DEF v
  <2>2. [v EXCEPT ![i] = n] \in Seq(Int)
    <3>1. CASE i \in DOMAIN v
      <4>1. i \in 1..Len(v)
        BY <2>1, <3>1, LenProperties
      <4> QED
        BY <2>1, <4>1, ExceptSeq
    <3>2. CASE i \notin DOMAIN v
      <4>1. [v EXCEPT ![i] = n] = v
        BY <2>1, <3>2
      <4> QED
        BY <2>1, <4>1
    <3> QED
      BY <3>1, <3>2
  <2>3. [line.values EXCEPT ![i] = n] \in Seq(Int)
    BY <2>2 DEF v
  <2> QED
    BY <2>3, ValueChanged DEF Lines
<1> QED
  BY <1>3, <1>4

LEMMA TextChanged ==
  ASSUME NEW text \in Seq(Lines), NEW i \in 1..Len(text), NEW line \in Lines
  PROVE  /\ [text EXCEPT ![i] = line] \in Seq(Lines) /\ Len([text EXCEPT ![i] = line]) = Len(text)
         /\ [text EXCEPT ![i] = line][i] = line
         /\ \A k \in 1..Len(text) : k # i => [text EXCEPT ![i] = line][k] = text[k]
<1> HIDE DEF Lines
<1>1. text \in [1..Len(text) -> Lines] /\ Len(text) \in Nat
  BY LenProperties, ElementOfSeq
<1>2. [text EXCEPT ![i] = line] \in Seq(Lines) /\ Len([text EXCEPT ![i] = line]) = Len(text)
  BY ExceptSeq
<1> QED
  BY <1>1, <1>2

LEMMA GarbledTypes ==
  ASSUME NEW line \in Lines, NEW g \in Garbled(line)
  PROVE  g \in Lines
<1>1. \A n \in AnyNumber : n \in Nat /\ n \in Int
  BY CharAssumption DEF AnyNumber
<1>2. CASE line.name # "values"
  <2>1. PICK n \in AnyNumber : g = [line EXCEPT !.len = n]
    BY <1>2 DEF Garbled
  <2> QED
    BY <1>1, <2>1, LineChanged
<1>3. CASE line.name = "values"
  <2>1. PICK i \in DOMAIN line.values, n \in AnyNumber : g = [line EXCEPT !.values[i] = n]
    BY <1>3 DEF Garbled
  <2>2. i \in Int
    <3>1. line.values \in Seq(Int)
      BY DEF Lines
    <3> QED
      BY <2>1, <3>1, LenProperties
  <2> QED
    BY <1>1, <2>1, <2>2, LineChanged
<1> QED
  BY <1>2, <1>3

(* Writing keeps the length, and a text that fits.                         *)
LEMMA TextWrittenIs ==
  ASSUME NEW text, ProperText(text), NEW t \in TextWritten(text)
  PROVE  /\ ProperText(t) /\ Len(t) = Len(text)
         /\ Len(text) <= BufferLines => t = text
<1>1. /\ text \in Seq(Lines) /\ text # << >> /\ text[1].len # 0 /\ Len(text) \in Nat
      /\ BufferLines \in Nat \ {0}
  BY CharAssumption, LenProperties DEF ProperText
<1>2. CASE Len(text) <= BufferLines
  <2>1. t = text
    BY <1>2 DEF TextWritten
  <2> QED
    BY <2>1
<1>3. CASE ~(Len(text) <= BufferLines)
  <2> DEFINE k == BufferLines + 1
  <2>1. k \in 1..Len(text) /\ k # 1 /\ 1 \in 1..Len(text)
    BY <1>1, <1>3
  <2>2. PICK g \in Garbled(text[k]) : t = [text EXCEPT ![k] = g]
    BY <1>3 DEF TextWritten
  <2> HIDE DEF k
  <2>3. text[k] \in Lines
    BY <1>1, <2>1, ElementOfSeq
  <2>4. g \in Lines
    BY <2>3, GarbledTypes
  <2>5. t \in Seq(Lines) /\ Len(t) = Len(text) /\ t[1] = text[1]
    BY <1>1, <2>1, <2>2, <2>4, TextChanged
  <2>6. t # << >>
    BY <1>1, <2>5, EmptySeq
  <2> QED
    BY <1>1, <1>3, <2>5, <2>6 DEF ProperText
<1> QED
  BY <1>2, <1>3

(* A damaged text still starts with a number of bytes.                     *)
LEMMA DamagesAreProper ==
  ASSUME NEW text, ProperText(text), NEW t \in Damages(text)
  PROVE  ProperText(t)
<1>1. /\ text \in Seq(Lines) /\ text # << >> /\ text[1].len # 0 /\ Len(text) \in Nat
      /\ 1 \in 1..Len(text) /\ DOMAIN text = 1..Len(text) /\ \A i \in 1..Len(text) : text[i] \in Lines
  BY LenProperties, EmptySeq, ElementOfSeq DEF ProperText
<1>2. ASSUME NEW n \in 1..Len(text) - 1, t = SubSeq(text, 1, n)
      PROVE  ProperText(t)
  <2>1. 0 \in 0..Len(text) /\ n \in 0..Len(text) /\ n \in Nat \ {0}
    BY <1>1
  <2>2. t \in Seq(Lines) /\ Len(t) = n
    BY <1>1, <1>2, <2>1, SubSeqJoin
  <2>3. t[1] = text[1]
    BY <1>1, <1>2, <2>1
  <2>4. t # << >>
    BY <2>1, <2>2, EmptySeq
  <2> QED
    BY <1>1, <2>2, <2>3, <2>4 DEF ProperText
<1>3. ASSUME NEW i \in 1..Len(text), NEW line \in Lines, t = [text EXCEPT ![i] = line],
             line.len # 0 \/ i # 1
      PROVE  ProperText(t)
  <2>1. /\ t \in Seq(Lines) /\ Len(t) = Len(text) /\ t[i] = line
        /\ \A k \in 1..Len(text) : k # i => t[k] = text[k]
    BY <1>1, <1>3, TextChanged
  <2>2. t # << >>
    BY <1>1, <2>1, EmptySeq
  <2>3. t[1].len # 0
    BY <1>1, <1>3, <2>1
  <2> QED
    BY <2>1, <2>2, <2>3 DEF ProperText
<1>4. ASSUME NEW i \in DOMAIN text, text[i].len > 1, NEW change \in {-1, 1},
             t = [text EXCEPT ![i].len = @ + change]
      PROVE  ProperText(t)
  <2> DEFINE n == text[i].len + change
             line == [text[i] EXCEPT !.len = n]
  <2>1. text[i] \in Lines /\ i \in 1..Len(text)
    BY <1>1, <1>4
  <2>2. text[i].len \in Nat
    BY <2>1 DEF Lines
  <2>3. n \in Nat /\ n # 0
    BY <1>4, <2>2
  <2>4. t = [text EXCEPT ![i] = line]
    BY <1>4
  <2> HIDE DEF n
  <2>5. line \in Lines /\ line.len = n
    BY <2>1, <2>3, LineChanged
  <2> HIDE DEF line
  <2> QED
    BY <1>3, <2>1, <2>3, <2>4, <2>5
<1>5. ASSUME t = [text EXCEPT ![2].values[1] = 256]
      PROVE  ProperText(t)
  <2>1. CASE 2 \in DOMAIN text
    <3> DEFINE line == [text[2] EXCEPT !.values[1] = 256]
    <3>1. t = [text EXCEPT ![2] = line]
      BY <1>5
    <3>2. line \in Lines
      <4>1. 1 \in Int /\ 256 \in Int /\ text[2] \in Lines
        BY <1>1, <2>1
      <4> QED
        BY <4>1, LineChanged
    <3> HIDE DEF line
    <3>3. 2 \in 1..Len(text) /\ 2 # 1
      BY <1>1, <2>1
    <3> QED
      BY <1>3, <3>1, <3>2, <3>3
  <2>2. CASE 2 \notin DOMAIN text
    <3>1. t = text
      BY <1>1, <1>5, <2>2
    <3> QED
      BY <3>1
  <2> QED
    BY <2>1, <2>2
<1> QED
  BY <1>2, <1>4, <1>5 DEF Damages

---------------------------------------------------------------------------
(* The invariant: a file that was not damaged is the text of what was      *)
(* kept, and what the driver has loaded is what that text gives back.      *)
CharStates == {"none", "refresh", "ready"}

CharTypes ==
  /\ enabled \subseteq CharChannels /\ charUp \in BOOLEAN /\ asLoaded \in BOOLEAN
  /\ calibState \in [CharChannels -> CharStates] /\ calib \in [CharChannels -> Calibrations]
  /\ box \in [CharChannels -> Calibrations] /\ kept \in [CharChannels -> Calibrations]
  /\ charFile \in [CharChannels -> Seq(Lines)] /\ chData \in [CharChannels -> Seq(Lines)]

KnownProper == \A c \in CharChannels :
  /\ calibState[c] = "ready" => Proper(calib[c])
  /\ box[c] = Nothing \/ Proper(box[c])

KnownTexts == \A c \in CharChannels :
  /\ charFile[c] = << >> \/ ProperText(charFile[c])
  /\ chData[c] = << >> \/ ProperText(chData[c])

FileOfKept == \A c \in enabled :
  /\ kept[c] = Nothing \/ (Proper(kept[c]) /\ Sane(kept[c]))
  /\ c \notin damaged => charFile[c] = IF kept[c] = Nothing THEN << >> ELSE Text(kept[c])

LoadedAsKept == asLoaded =>
  /\ \A c \in enabled \ damaged : Whole(kept[c]) =>
       /\ calibState[c] = "ready" => kept[c] # Nothing /\ calib[c] = Back(kept[c])
       /\ charUp /\ kept[c] # Nothing => calibState[c] = "ready"
  /\ damaged = {} /\ (\A c \in enabled : Whole(kept[c])) => charUp
  /\ \A c \in enabled : calibState[c] = "refresh" => calib[c] = Nothing /\ ~charUp

DeviceHasIt == \A c \in enabled :
  calibState[c] = "ready" /\ c \notin refusing => box[c] = calib[c]

CharInv == CharTypes /\ KnownProper /\ KnownTexts /\ FileOfKept /\ LoadedAsKept /\ DeviceHasIt

LEMMA ProperIs ==
  ASSUME NEW c, Proper(c)
  PROVE  c \in Calibrations /\ c # Nothing /\ c.data # << >>
BY NothingIs DEF Proper

(* What the text of a channel makes of its detector.                       *)
LEMMA LoadedIs ==
  ASSUME NEW text, text = << >> \/ ProperText(text)
  PROVE  LET l == DataLoaded(text) IN
         /\ l.ok \in BOOLEAN /\ l.detector.state \in CharStates /\ l.detector.calib \in Calibrations
         /\ l.detector.state = "ready" => Proper(l.detector.calib) /\ l.ok /\ text # << >>
         /\ l.detector.state = "refresh" => l.detector.calib = Nothing /\ ~l.ok
         /\ l.ok /\ text # << >> => l.detector.state = "ready"
         /\ text = << >> => l.ok /\ l.detector.state = "none"
         /\ ~l.ok => l.detector = Uncharacterized
<1> DEFINE l == DataLoaded(text)
           r == ReadText(text)
<1>1. CASE text = << >>
  <2>1. l = [ok |-> TRUE, detector |-> [state |-> "none", calib |-> Nothing]]
    BY <1>1 DEF DataLoaded
  <2>2. l.ok = TRUE /\ l.detector.state = "none" /\ l.detector.calib = Nothing
    BY <2>1
  <2> HIDE DEF l
  <2> QED
    BY <1>1, <2>2, NothingIs DEF CharStates, l
<1>2. CASE text # << >>
  <2>1. r.ok \in BOOLEAN /\ (r.ok => Proper(r.calib))
    BY <1>2, ReadTextTypes
  <2>2. l = IF r.ok THEN [ok |-> TRUE, detector |-> [state |-> "ready", calib |-> r.calib]]
            ELSE [ok |-> FALSE, detector |-> Uncharacterized]
    BY <1>2 DEF DataLoaded
  <2> HIDE DEF r, l
  <2>3. CASE r.ok
    <3>1. l = [ok |-> TRUE, detector |-> [state |-> "ready", calib |-> r.calib]]
      BY <2>2, <2>3
    <3> QED
      BY <1>2, <2>1, <2>3, <3>1, ProperIs DEF CharStates, l
  <2>4. CASE ~r.ok
    <3>1. l = [ok |-> FALSE, detector |-> Uncharacterized]
      BY <2>2, <2>4
    <3> QED
      BY <1>2, <3>1, NothingIs DEF CharStates, Uncharacterized, l
  <2> QED
    BY <2>3, <2>4
<1> QED
  BY <1>1, <1>2

LEMMA LoadedBack ==
  ASSUME NEW c, Proper(c), Whole(c)
  PROVE  DataLoaded(Text(c)) = [ok |-> TRUE, detector |-> [state |-> "ready", calib |-> Back(c)]]
<1>1. c \in Calibrations /\ c # Nothing /\ c.data # << >>
  BY ProperIs
<1>2. \A p \in Plots : c.plots[p].x # << >>
  BY <1>1 DEF Whole
<1>3. ReadText(Text(c)).ok /\ ReadText(Text(c)).calib = Back(c)
  BY <1>2, TextRead
<1>4. Text(c) # << >>
  BY <1>1, TextIs DEF ProperText
<1> QED
  BY <1>3, <1>4 DEF DataLoaded

(* A detector as the driver holds it.                                      *)
Detectors == [state : CharStates, calib : Calibrations]

LEMMA RefreshedIs ==
  ASSUME NEW d \in Detectors, d.state = "ready" => Proper(d.calib),
         NEW held \in Calibrations, held = Nothing \/ Proper(held)
  PROVE  LET f == Refreshed(d, held) IN
         /\ f \in Detectors /\ f.state # "refresh"
         /\ f.state = "ready" => /\ Proper(f.calib)
                                 /\ IF d.state = "refresh" THEN f.calib = held ELSE f = d
         /\ d.state # "refresh" => f = d
<1>1. CASE d.state # "refresh"
  <2>1. Refreshed(d, held) = d
    BY <1>1 DEF Refreshed
  <2> QED
    BY <1>1, <2>1
<1>2. CASE d.state = "refresh" /\ held = Nothing
  <2>1. Refreshed(d, held) = [d EXCEPT !.state = "none"]
    BY <1>2 DEF Refreshed
  <2> HIDE DEF Calibrations
  <2>2. [d EXCEPT !.state = "none"] \in Detectors /\ [d EXCEPT !.state = "none"].state = "none"
    <3> DEFINE S == CharStates
               C == Calibrations
    <3>1. d \in [state : S, calib : C] /\ "none" \in S
      BY DEF Detectors, CharStates
    <3> HIDE DEF S, C
    <3>2. [d EXCEPT !.state = "none"] \in [state : S, calib : C]
      BY <3>1
    <3>3. [d EXCEPT !.state = "none"].state = "none"
      BY <3>1
    <3> QED
      BY <3>2, <3>3 DEF Detectors, S, C
  <2> QED
    BY <1>2, <2>1, <2>2
<1>3. CASE d.state = "refresh" /\ held # Nothing
  <2>1. Refreshed(d, held) = [state |-> "ready", calib |-> held] /\ Proper(held)
    BY <1>3 DEF Refreshed
  <2> HIDE DEF Calibrations
  <2> QED
    BY <1>3, <2>1 DEF Detectors, CharStates
<1> QED
  BY <1>1, <1>2, <1>3

LEMMA SavedDataIs ==
  ASSUME NEW d \in Detectors, d.state = "ready" => Proper(d.calib),
         NEW held \in Calibrations, held = Nothing \/ Proper(held)
  PROVE  LET s == SavedData(d, held) IN
         /\ s.detector \in Detectors
         /\ s.detector.state = "ready" =>
              /\ Proper(s.detector.calib) /\ Sane(s.detector.calib)
              /\ s.texts = TextWritten(Text(s.detector.calib))
              /\ IF d.state = "refresh" THEN s.detector.calib = held ELSE s.detector = d
         /\ s.detector.state # "ready" => s.texts = {<< >>}
<1> DEFINE f == Refreshed(d, held)
           s == SavedData(d, held)
<1>1. /\ f \in Detectors /\ f.state # "refresh"
      /\ f.state = "ready" => /\ Proper(f.calib)
                              /\ IF d.state = "refresh" THEN f.calib = held ELSE f = d
  BY RefreshedIs
<1>2. s = IF f.state # "ready" THEN [detector |-> f, texts |-> {<< >>}]
          ELSE IF ~Sane(f.calib) THEN [detector |-> Uncharacterized, texts |-> {<< >>}]
          ELSE [detector |-> f, texts |-> TextWritten(Text(f.calib))]
  BY DEF SavedData
<1>3. Uncharacterized \in Detectors /\ Uncharacterized.state = "refresh"
  BY NothingIs DEF Uncharacterized, Detectors, CharStates
<1> HIDE DEF f, s
<1>4. CASE f.state # "ready"
  <2>1. s = [detector |-> f, texts |-> {<< >>}]
    BY <1>2, <1>4
  <2>2. s.detector = f /\ s.texts = {<< >>}
    BY <2>1
  <2> QED
    BY <1>1, <1>4, <2>2 DEF s
<1>5. CASE f.state = "ready" /\ ~Sane(f.calib)
  <2>1. s = [detector |-> Uncharacterized, texts |-> {<< >>}]
    BY <1>2, <1>5
  <2>2. s.detector = Uncharacterized /\ s.texts = {<< >>}
    BY <2>1
  <2> QED
    BY <1>3, <2>2 DEF s
<1>6. CASE f.state = "ready" /\ Sane(f.calib)
  <2>1. s = [detector |-> f, texts |-> TextWritten(Text(f.calib))]
    BY <1>2, <1>6
  <2>2. s.detector = f /\ s.texts = TextWritten(Text(f.calib))
    BY <2>1
  <2> QED
    BY <1>1, <1>6, <2>2 DEF s
<1> QED
  BY <1>4, <1>5, <1>6

LEMMA DetectorIs ==
  ASSUME CharTypes, KnownProper, NEW c \in CharChannels
  PROVE  /\ Detector(c) \in Detectors
         /\ Detector(c).state = calibState[c] /\ Detector(c).calib = calib[c]
         /\ Detector(c).state = "ready" => Proper(Detector(c).calib)
         /\ box[c] \in Calibrations /\ (box[c] = Nothing \/ Proper(box[c]))
<1>1. calibState[c] \in CharStates /\ calib[c] \in Calibrations /\ box[c] \in Calibrations
  BY DEF CharTypes
<1> HIDE DEF Calibrations, CharStates
<1>2. Detector(c) = [state |-> calibState[c], calib |-> calib[c]]
  BY DEF Detector
<1> QED
  BY <1>1, <1>2 DEF KnownProper, Detectors

LEMMA CharInitInv == CharInit => CharInv
<1> SUFFICES ASSUME CharInit PROVE CharInv
  OBVIOUS
<1>1. Nothing \in Calibrations /\ << >> \in Seq(Lines)
  BY NothingIs
<1> HIDE DEF Calibrations, Lines
<1>9. chData = [c \in CharChannels |-> << >>]
  BY DEF CharInit
<1>2. /\ enabled \subseteq CharChannels /\ charUp = TRUE /\ asLoaded = FALSE
      /\ calibState = [c \in CharChannels |-> "none"] /\ calib = [c \in CharChannels |-> Nothing]
      /\ box = [c \in CharChannels |-> Nothing] /\ kept = [c \in CharChannels |-> Nothing]
      /\ charFile = [c \in CharChannels |-> << >>]
  BY DEF CharInit
<1>3. CharTypes
  BY <1>1, <1>2, <1>9 DEF CharTypes, CharStates
<1>4. \A c \in CharChannels : /\ calibState[c] = "none" /\ box[c] = Nothing /\ kept[c] = Nothing
                              /\ charFile[c] = << >> /\ chData[c] = << >>
  BY <1>2, <1>9
<1>10. KnownTexts
  BY <1>4 DEF KnownTexts
<1>5. KnownProper
  BY <1>4 DEF KnownProper
<1>6. FileOfKept
  BY <1>2, <1>4 DEF FileOfKept
<1>7. LoadedAsKept
  BY <1>2 DEF LoadedAsKept
<1>8. DeviceHasIt
  BY <1>2, <1>4 DEF DeviceHasIt
<1> QED
  BY <1>3, <1>5, <1>6, <1>7, <1>8, <1>10 DEF CharInv

LEMMA CharacterizedInv ==
  ASSUME CharInv, NEW c \in CharChannels, NEW new \in Characterizations, Characterized(c, new)
  PROVE  CharInv'
<1>1. /\ box' = [box EXCEPT ![c] = new] /\ calibState' = [calibState EXCEPT ![c] = "refresh"]
      /\ refusing' = refusing \ {c} /\ asLoaded' = FALSE /\ enabled' = enabled /\ calib' = calib
      /\ charFile' = charFile /\ chData' = chData /\ charUp' = charUp /\ kept' = kept /\ damaged' = damaged
  BY DEF Characterized
<1>2. CharTypes /\ KnownProper /\ KnownTexts /\ FileOfKept /\ DeviceHasIt
  BY DEF CharInv
<1>3. Proper(new) /\ new \in Calibrations
  <2>1. /\ new \in Calibrations /\ new.data # << >> /\ \A i \in DOMAIN new.data : new.data[i] \in 0..255
        /\ \A p \in Plots : Len(new.plots[p].x) = Len(new.plots[p].y)
    BY CharAssumption
  <2>2. ASSUME NEW i \in DOMAIN new.data
        PROVE  new.data[i] <= 255
    <3>1. new.data[i] \in 0..255
      BY <2>1
    <3>2. \A b \in 0..255 : b <= 255
      OBVIOUS
    <3> QED
      BY <3>1, <3>2
  <2> HIDE DEF Calibrations
  <2> QED
    BY <2>1, <2>2 DEF Proper
<1> HIDE DEF Calibrations, Lines
<1>4. /\ calibState'[c] = "refresh" /\ box'[c] = new
      /\ \A o \in CharChannels \ {c} : calibState'[o] = calibState[o] /\ box'[o] = box[o]
  BY <1>1, <1>2 DEF CharTypes
<1>5. CharTypes'
  BY <1>1, <1>2, <1>3 DEF CharTypes, CharStates
<1>6. KnownProper'
  BY <1>1, <1>2, <1>3, <1>4 DEF KnownProper
<1>7. FileOfKept' /\ KnownTexts'
  BY <1>1, <1>2 DEF FileOfKept, KnownTexts
<1>8. LoadedAsKept'
  BY <1>1 DEF LoadedAsKept
<1>9. DeviceHasIt'
  BY <1>1, <1>2, <1>4 DEF DeviceHasIt, CharTypes
<1> QED
  BY <1>5, <1>6, <1>7, <1>8, <1>9 DEF CharInv

(* A system that was started has no state left to refresh.                 *)
LEMMA AskCalibratedInv ==
  ASSUME CharInv, NEW c \in CharChannels, AskCalibrated(c)
  PROVE  CharInv'
<1> DEFINE f == Refreshed(Detector(c), box[c])
<1>1. /\ charUp /\ c \in enabled /\ calibState[c] = "refresh"
      /\ calibState' = [o \in CharChannels |-> (IF o = c THEN f ELSE Detector(o)).state]
      /\ calib' = [o \in CharChannels |-> (IF o = c THEN f ELSE Detector(o)).calib]
      /\ refusing' = refusing /\ asLoaded' = asLoaded /\ enabled' = enabled /\ box' = box
      /\ charFile' = charFile /\ chData' = chData /\ charUp' = charUp /\ kept' = kept /\ damaged' = damaged
  BY DEF AskCalibrated, SetDetectors
<1>2. CharTypes /\ KnownProper /\ KnownTexts /\ FileOfKept /\ LoadedAsKept /\ DeviceHasIt
  BY DEF CharInv
<1>3. /\ f \in Detectors /\ (f.state = "ready" => Proper(f.calib) /\ f.calib = box[c])
  <2>1. /\ Detector(c) \in Detectors /\ Detector(c).state = "refresh"
        /\ (Detector(c).state = "ready" => Proper(Detector(c).calib))
        /\ box[c] \in Calibrations /\ (box[c] = Nothing \/ Proper(box[c]))
    BY <1>1, <1>2, DetectorIs
  <2> QED
    BY <2>1, RefreshedIs
<1> HIDE DEF f, Calibrations, Lines
<1>4. /\ calibState'[c] = f.state /\ calib'[c] = f.calib
      /\ \A o \in CharChannels \ {c} : calibState'[o] = calibState[o] /\ calib'[o] = calib[o]
  BY <1>1, <1>2, DetectorIs
<1>5. CharTypes'
  <2>1. \A o \in CharChannels : calibState'[o] \in CharStates /\ calib'[o] \in Calibrations
    BY <1>2, <1>3, <1>4 DEF CharTypes, Detectors
  <2>2. calibState' \in [CharChannels -> CharStates] /\ calib' \in [CharChannels -> Calibrations]
    BY <1>1, <2>1
  <2> QED
    BY <1>1, <1>2, <2>2 DEF CharTypes
<1>6. KnownProper'
  BY <1>1, <1>2, <1>3, <1>4 DEF KnownProper
<1>7. FileOfKept' /\ KnownTexts'
  BY <1>1, <1>2 DEF FileOfKept, KnownTexts
<1>8. LoadedAsKept'
  <2>1. ~asLoaded
    BY <1>1, <1>2 DEF LoadedAsKept
  <2> QED
    BY <1>1, <2>1 DEF LoadedAsKept
<1>9. DeviceHasIt'
  BY <1>1, <1>2, <1>3, <1>4 DEF DeviceHasIt, CharTypes
<1> QED
  BY <1>5, <1>6, <1>7, <1>8, <1>9 DEF CharInv

LEMMA DamageInv ==
  ASSUME CharInv, NEW c \in CharChannels, Damage(c)
  PROVE  CharInv'
<1>1. PICK text \in Damages(charFile[c]) : charFile' = [charFile EXCEPT ![c] = text]
  BY DEF Damage
<1>2. /\ charFile[c] # << >> /\ damaged' = damaged \cup {c} /\ asLoaded' = FALSE
      /\ enabled' = enabled /\ calibState' = calibState /\ calib' = calib /\ box' = box
      /\ charUp' = charUp /\ kept' = kept /\ refusing' = refusing /\ chData' = chData
  BY DEF Damage
<1>3. CharTypes /\ KnownProper /\ KnownTexts /\ FileOfKept /\ DeviceHasIt
  BY DEF CharInv
<1>4. ProperText(text) /\ text \in Seq(Lines)
  <2>1. ProperText(text)
    BY <1>1, <1>2, <1>3, DamagesAreProper DEF KnownTexts
  <2> QED
    BY <2>1 DEF ProperText
<1> HIDE DEF Calibrations, Lines
<1>5. charFile'[c] = text /\ \A o \in CharChannels \ {c} : charFile'[o] = charFile[o]
  BY <1>1, <1>3 DEF CharTypes
<1>6. CharTypes'
  BY <1>1, <1>2, <1>3, <1>4 DEF CharTypes
<1>7. KnownProper'
  BY <1>2, <1>3 DEF KnownProper
<1>8. KnownTexts'
  BY <1>2, <1>3, <1>4, <1>5 DEF KnownTexts
<1>9. FileOfKept'
  <2>1. ASSUME NEW o \in enabled, o \notin damaged'
        PROVE  o # c /\ o \notin damaged /\ charFile'[o] = charFile[o]
    BY <1>2, <1>3, <1>5, <2>1 DEF CharTypes
  <2> QED
    BY <1>2, <1>3, <2>1 DEF FileOfKept
<1>10. LoadedAsKept'
  BY <1>2 DEF LoadedAsKept
<1>11. DeviceHasIt'
  BY <1>2, <1>3 DEF DeviceHasIt
<1> QED
  BY <1>6, <1>7, <1>8, <1>9, <1>10, <1>11 DEF CharInv

LEMMA SaveChannelsInv ==
  ASSUME CharInv, SaveChannels
  PROVE  CharInv'
<1> DEFINE r == [c \in enabled |-> SavedData(Detector(c), box[c])]
           d == [c \in CharChannels |-> IF c \in enabled THEN r[c].detector ELSE Detector(c)]
<1>1. PICK texts \in {f \in [enabled -> UNION {r[c].texts : c \in enabled}] :
                        \A c \in enabled : f[c] \in r[c].texts} :
        /\ calibState' = [c \in CharChannels |-> d[c].state]
        /\ calib' = [c \in CharChannels |-> d[c].calib]
        /\ chData' = [c \in CharChannels |-> IF c \in enabled THEN texts[c] ELSE chData[c]]
        /\ kept' = [c \in CharChannels |->
             IF c \notin enabled THEN kept[c]
             ELSE IF r[c].detector.state = "ready" THEN r[c].detector.calib ELSE Nothing]
  BY DEF SaveChannels, SetDetectors
<1>2. /\ charFile' = chData' /\ asLoaded' = FALSE /\ enabled' = enabled /\ box' = box
      /\ charUp' = charUp /\ refusing' = refusing
      /\ damaged' = (damaged \ enabled) \cup {c \in enabled : Len(chData'[c]) > BufferLines}
  BY DEF SaveChannels
<1>3. CharTypes /\ KnownProper /\ KnownTexts /\ FileOfKept /\ DeviceHasIt
  BY DEF CharInv
<1>4. enabled \subseteq CharChannels
  BY <1>3 DEF CharTypes
<1>5. ASSUME NEW c \in enabled
      PROVE  /\ r[c].detector \in Detectors /\ texts[c] \in r[c].texts
             /\ r[c].detector.state = "ready" =>
                  /\ Proper(r[c].detector.calib) /\ Sane(r[c].detector.calib)
                  /\ r[c].texts = TextWritten(Text(r[c].detector.calib))
                  /\ IF calibState[c] = "refresh" THEN r[c].detector.calib = box[c]
                     ELSE r[c].detector = Detector(c)
             /\ r[c].detector.state # "ready" => r[c].texts = {<< >>}
  <2>1. /\ Detector(c) \in Detectors /\ Detector(c).state = calibState[c]
        /\ (Detector(c).state = "ready" => Proper(Detector(c).calib))
        /\ box[c] \in Calibrations /\ (box[c] = Nothing \/ Proper(box[c]))
    BY <1>3, <1>4, DetectorIs
  <2>2. r[c] = SavedData(Detector(c), box[c]) /\ texts[c] \in r[c].texts
    OBVIOUS
  <2> HIDE DEF r, Detectors
  <2> QED
    BY <2>1, <2>2, SavedDataIs
<1> HIDE DEF r
<1>6. \A c \in enabled : /\ calibState'[c] = r[c].detector.state /\ calib'[c] = r[c].detector.calib
                         /\ chData'[c] = texts[c]
                         /\ kept'[c] = IF r[c].detector.state = "ready" THEN r[c].detector.calib ELSE Nothing
  BY <1>1, <1>4
<1>7. \A c \in CharChannels \ enabled : /\ calibState'[c] = calibState[c] /\ calib'[c] = calib[c]
                                        /\ chData'[c] = chData[c] /\ kept'[c] = kept[c]
  BY <1>1, <1>3, DetectorIs
<1>8. ASSUME NEW c \in enabled
      PROVE  /\ chData'[c] = << >> \/ ProperText(chData'[c])
             /\ Len(chData'[c]) <= BufferLines \/ Len(chData'[c]) > BufferLines
             /\ kept'[c] = Nothing => chData'[c] = << >>
             /\ kept'[c] # Nothing => /\ Proper(kept'[c]) /\ Sane(kept'[c])
                                      /\ Len(chData'[c]) <= BufferLines => chData'[c] = Text(kept'[c])
  <2>0. BufferLines \in Nat \ {0}
    BY CharAssumption
  <2>1. CASE r[c].detector.state = "ready"
    <3> DEFINE k == r[c].detector.calib
    <3>1. Proper(k) /\ Sane(k) /\ texts[c] \in TextWritten(Text(k)) /\ kept'[c] = k /\ chData'[c] = texts[c]
      BY <1>5, <1>6, <2>1
    <3> HIDE DEF k
    <3>2. k \in Calibrations /\ k # Nothing /\ ProperText(Text(k))
      BY <3>1, ProperIs, TextIs
    <3>3. /\ ProperText(texts[c]) /\ Len(texts[c]) = Len(Text(k))
          /\ Len(Text(k)) <= BufferLines => texts[c] = Text(k)
      BY <3>1, <3>2, TextWrittenIs
    <3>4. Len(texts[c]) \in Nat
      BY <3>3, LenProperties DEF ProperText
    <3> QED
      BY <2>0, <3>1, <3>2, <3>3, <3>4
  <2>2. CASE r[c].detector.state # "ready"
    <3>1. chData'[c] = << >> /\ kept'[c] = Nothing
      BY <1>5, <1>6, <2>2
    <3> QED
      BY <2>0, <3>1, EmptySeq
  <2> QED
    BY <2>1, <2>2
<1> HIDE DEF d, Calibrations, Lines
<1>9. KnownTexts'
  <2>1. \A c \in CharChannels : chData'[c] = << >> \/ ProperText(chData'[c])
    BY <1>3, <1>7, <1>8 DEF KnownTexts
  <2> QED
    BY <1>2, <2>1 DEF KnownTexts
<1>10. CharTypes'
  <2>1. ASSUME NEW c \in CharChannels
        PROVE  /\ calibState'[c] \in CharStates /\ calib'[c] \in Calibrations
               /\ kept'[c] \in Calibrations /\ chData'[c] \in Seq(Lines)
    <3>1. CASE c \in enabled
      <4>1. calibState'[c] \in CharStates /\ calib'[c] \in Calibrations
        BY <1>5, <1>6, <3>1 DEF Detectors
      <4>2. kept'[c] \in Calibrations
        BY <1>5, <1>6, <3>1, ProperIs, NothingIs
      <4>3. chData'[c] \in Seq(Lines)
        BY <1>8, <3>1, EmptySeq DEF ProperText
      <4> QED
        BY <4>1, <4>2, <4>3
    <3>2. CASE c \notin enabled
      BY <1>3, <1>7, <3>2 DEF CharTypes
    <3> QED
      BY <3>1, <3>2
  <2>2. calibState' \in [CharChannels -> CharStates] /\ calib' \in [CharChannels -> Calibrations]
    BY <1>1, <2>1
  <2>3. kept' \in [CharChannels -> Calibrations] /\ chData' \in [CharChannels -> Seq(Lines)]
    BY <1>1, <2>1
  <2> QED
    BY <1>2, <1>3, <2>2, <2>3 DEF CharTypes
<1>11. KnownProper'
  BY <1>2, <1>3, <1>5, <1>6, <1>7 DEF KnownProper
<1>12. FileOfKept'
  <2>1. ASSUME NEW c \in enabled, c \notin damaged'
        PROVE  Len(chData'[c]) <= BufferLines
    BY <1>2, <1>8, <2>1
  <2> QED
    BY <1>2, <1>8, <2>1 DEF FileOfKept
<1>13. LoadedAsKept'
  BY <1>2 DEF LoadedAsKept
<1>14. DeviceHasIt'
  <2>1. ASSUME NEW c \in enabled, calibState'[c] = "ready", c \notin refusing
        PROVE  box[c] = calib'[c]
    <3>1. /\ r[c].detector.state = "ready" /\ calib'[c] = r[c].detector.calib
          /\ IF calibState[c] = "refresh" THEN r[c].detector.calib = box[c]
             ELSE r[c].detector = Detector(c)
      BY <1>5, <1>6, <2>1
    <3>2. Detector(c).state = calibState[c] /\ Detector(c).calib = calib[c]
      BY <1>3, <1>4, DetectorIs
    <3> QED
      BY <1>3, <2>1, <3>1, <3>2 DEF DeviceHasIt
  <2> QED
    BY <1>2, <2>1 DEF DeviceHasIt
<1> QED
  BY <1>9, <1>10, <1>11, <1>12, <1>13, <1>14 DEF CharInv

LEMMA StartFromFileInv ==
  ASSUME CharInv, StartFromFile
  PROVE  CharInv'
<1> DEFINE fails == {c \in enabled : ~Loads[c].ok}
           reached == {c \in enabled : \A f \in fails : c <= f}
           sent == {c \in reached \ fails : charFile[c] # << >>}
           now(c) == IF c \in reached THEN Loads[c].detector ELSE Uncharacterized
<1>1. PICK refuses \in SUBSET sent :
        /\ box' = [c \in CharChannels |->
             IF c \in sent \ refuses THEN Loads[c].detector.calib ELSE box[c]]
        /\ refusing' = (refusing \ sent) \cup refuses
  BY DEF StartFromFile
<1>2. /\ calibState' = [c \in CharChannels |-> [o \in CharChannels |-> now(o)][c].state]
      /\ calib' = [c \in CharChannels |-> [o \in CharChannels |-> now(o)][c].calib]
      /\ charUp' = (fails = {})
      /\ asLoaded' = TRUE /\ enabled' = enabled /\ charFile' = charFile /\ kept' = kept
      /\ damaged' = damaged /\ chData' = charFile
  BY DEF StartFromFile, SetDetectors
<1>3. CharTypes /\ KnownProper /\ KnownTexts /\ FileOfKept
  BY DEF CharInv
<1>4. enabled \subseteq CharChannels
  BY <1>3 DEF CharTypes
<1>5. ASSUME NEW c \in enabled
      PROVE  /\ Loads[c] = DataLoaded(charFile[c])
             /\ Loads[c].ok \in BOOLEAN /\ Loads[c].detector.state \in CharStates
             /\ Loads[c].detector.calib \in Calibrations
             /\ Loads[c].detector.state = "ready" =>
                  Proper(Loads[c].detector.calib) /\ Loads[c].ok /\ charFile[c] # << >>
             /\ Loads[c].detector.state = "refresh" => Loads[c].detector.calib = Nothing /\ ~Loads[c].ok
             /\ Loads[c].ok /\ charFile[c] # << >> => Loads[c].detector.state = "ready"
  <2>1. Loads[c] = DataLoaded(charFile[c])
    BY DEF Loads
  <2>2. charFile[c] = << >> \/ ProperText(charFile[c])
    BY <1>3, <1>4 DEF KnownTexts
  <2> HIDE DEF Calibrations, CharStates
  <2> QED
    BY <2>1, <2>2, LoadedIs
<1>6. ASSUME NEW c \in enabled \ damaged, Whole(kept[c])
      PROVE  /\ Loads[c].ok
             /\ Loads[c].detector.state = "ready" <=> kept[c] # Nothing
             /\ kept[c] # Nothing => Loads[c].detector.calib = Back(kept[c])
  <2>1. Loads[c] = DataLoaded(charFile[c])
    BY <1>5
  <2>2. CASE kept[c] = Nothing
    <3>1. charFile[c] = << >>
      BY <1>3, <2>2 DEF FileOfKept
    <3>2. Loads[c].ok /\ Loads[c].detector.state = "none"
      BY <2>1, <3>1, LoadedIs
    <3> QED
      BY <2>2, <3>2
  <2>3. CASE kept[c] # Nothing
    <3>1. charFile[c] = Text(kept[c]) /\ Proper(kept[c])
      BY <1>3, <2>3 DEF FileOfKept
    <3>2. Loads[c] = [ok |-> TRUE, detector |-> [state |-> "ready", calib |-> Back(kept[c])]]
      BY <1>6, <2>1, <3>1, LoadedBack
    <3> HIDE DEF Loads
    <3>3. Loads[c].ok = TRUE /\ Loads[c].detector.state = "ready" /\ Loads[c].detector.calib = Back(kept[c])
      BY <3>2
    <3> QED
      BY <2>3, <3>3
  <2> QED
    BY <2>2, <2>3
<1> HIDE DEF Calibrations, Lines, Loads
<1>7. \A c \in CharChannels : calibState'[c] = now(c).state /\ calib'[c] = now(c).calib
  <2> HIDE DEF now
  <2> QED
    BY <1>2
<1>8. ASSUME NEW c \in CharChannels
      PROVE  /\ c \in reached => /\ c \in enabled /\ calibState'[c] = Loads[c].detector.state
                                 /\ calib'[c] = Loads[c].detector.calib
             /\ c \notin reached => calibState'[c] = "refresh" /\ calib'[c] = Nothing
  BY <1>7 DEF Uncharacterized
<1>9. ASSUME NEW c \in sent
      PROVE  c \in enabled /\ Loads[c].detector.state = "ready" /\ Proper(Loads[c].detector.calib)
  BY <1>5
<1>10. ASSUME NEW c \in CharChannels
       PROVE  /\ c \in sent \ refuses => box'[c] = Loads[c].detector.calib
              /\ c \notin sent \ refuses => box'[c] = box[c]
  BY <1>1
<1> HIDE DEF now, sent
<1>11. CharTypes'
  <2>1. ASSUME NEW c \in CharChannels
        PROVE  calibState'[c] \in CharStates /\ calib'[c] \in Calibrations /\ box'[c] \in Calibrations
    <3>1. calibState'[c] \in CharStates /\ calib'[c] \in Calibrations
      <4>1. CASE c \in reached
        BY <1>5, <1>8, <4>1
      <4>2. CASE c \notin reached
        BY <1>8, <4>2, NothingIs DEF CharStates
      <4> QED
        BY <4>1, <4>2
    <3>2. box'[c] \in Calibrations
      <4>1. CASE c \in sent \ refuses
        BY <1>9, <1>10, <4>1, ProperIs
      <4>2. CASE c \notin sent \ refuses
        BY <1>3, <1>10, <4>2 DEF CharTypes
      <4> QED
        BY <4>1, <4>2
    <3> QED
      BY <3>1, <3>2
  <2>2. /\ calibState' \in [CharChannels -> CharStates] /\ calib' \in [CharChannels -> Calibrations]
        /\ box' \in [CharChannels -> Calibrations]
    BY <1>1, <1>2, <2>1
  <2>3. charUp' \in BOOLEAN /\ asLoaded' \in BOOLEAN
    BY <1>2
  <2> QED
    BY <1>2, <1>3, <2>2, <2>3 DEF CharTypes
<1>12. KnownProper'
  <2>1. ASSUME NEW c \in CharChannels
        PROVE  /\ calibState'[c] = "ready" => Proper(calib'[c])
               /\ box'[c] = Nothing \/ Proper(box'[c])
    <3>1. calibState'[c] = "ready" => Proper(calib'[c])
      BY <1>5, <1>8
    <3>2. box'[c] = Nothing \/ Proper(box'[c])
      BY <1>3, <1>9, <1>10 DEF KnownProper
    <3> QED
      BY <3>1, <3>2
  <2> QED
    BY <2>1 DEF KnownProper
<1>13. KnownTexts' /\ FileOfKept'
  BY <1>2, <1>3 DEF KnownTexts, FileOfKept
<1>14. LoadedAsKept'
  <2>1. ASSUME NEW c \in enabled \ damaged, Whole(kept[c])
        PROVE  /\ calibState'[c] = "ready" => kept[c] # Nothing /\ calib'[c] = Back(kept[c])
               /\ charUp' /\ kept[c] # Nothing => calibState'[c] = "ready"
    <3>1. calibState'[c] = "ready" => kept[c] # Nothing /\ calib'[c] = Back(kept[c])
      BY <1>4, <1>6, <1>8, <2>1
    <3>2. ASSUME charUp', kept[c] # Nothing
          PROVE  calibState'[c] = "ready"
      <4>1. c \in reached
        BY <1>2, <3>2
      <4> QED
        BY <1>4, <1>6, <1>8, <2>1, <3>2, <4>1
    <3> QED
      BY <3>1, <3>2
  <2>2. damaged = {} /\ (\A c \in enabled : Whole(kept[c])) => charUp'
    BY <1>2, <1>6
  <2>3. ASSUME NEW c \in enabled, calibState'[c] = "refresh"
        PROVE  calib'[c] = Nothing /\ ~charUp'
    <3>1. CASE c \in reached
      <4>1. Loads[c].detector.calib = Nothing /\ ~Loads[c].ok
        BY <1>4, <1>5, <1>8, <2>3, <3>1
      <4>2. c \in fails
        BY <4>1
      <4> QED
        BY <1>2, <1>4, <1>8, <3>1, <4>1, <4>2
    <3>2. CASE c \notin reached
      BY <1>2, <1>4, <1>8, <3>2
    <3> QED
      BY <3>1, <3>2
  <2> HIDE DEF fails, reached
  <2> QED
    BY <1>2, <2>1, <2>2, <2>3 DEF LoadedAsKept
<1>15. DeviceHasIt'
  <2>1. ASSUME NEW c \in enabled, calibState'[c] = "ready", c \notin refusing'
        PROVE  box'[c] = calib'[c]
    <3>1. c \in reached /\ Loads[c].detector.state = "ready" /\ calib'[c] = Loads[c].detector.calib
      BY <1>4, <1>8, <2>1
    <3>2. c \in sent
      BY <1>5, <3>1 DEF sent
    <3> QED
      BY <1>1, <1>4, <1>10, <2>1, <3>1, <3>2
  <2> QED
    BY <1>2, <2>1 DEF DeviceHasIt
<1> QED
  BY <1>11, <1>12, <1>13, <1>14, <1>15 DEF CharInv

LEMMA CharStutterInv ==
  ASSUME CharInv, UNCHANGED charVars
  PROVE  CharInv'
BY DEF CharInv, CharTypes, KnownProper, KnownTexts, FileOfKept, LoadedAsKept, DeviceHasIt, charVars

(* The invariant, in every system and however often it is saved, edited    *)
(* and started: the save, the load and the commands of falconxn_psl.c      *)
(* keep it.                                                                *)
THEOREM CharInductive == CharSpec => []CharInv
<1>1. CharInit => CharInv
  BY CharInitInv
<1>2. CharInv /\ [CharNext]_charVars => CharInv'
  <2> SUFFICES ASSUME CharInv, [CharNext]_charVars PROVE CharInv'
    OBVIOUS
  <2>1. ASSUME NEW c \in CharChannels, NEW new \in Characterizations, Characterized(c, new)
        PROVE  CharInv'
    BY <2>1, CharacterizedInv
  <2>2. ASSUME NEW c \in CharChannels, AskCalibrated(c)
        PROVE  CharInv'
    BY <2>2, AskCalibratedInv
  <2>3. ASSUME NEW c \in CharChannels, Damage(c)
        PROVE  CharInv'
    BY <2>3, DamageInv
  <2>4. CASE SaveChannels
    BY <2>4, SaveChannelsInv
  <2>5. CASE StartFromFile
    BY <2>5, StartFromFileInv
  <2>6. CASE UNCHANGED charVars
    BY <2>6, CharStutterInv
  <2> QED
    BY <2>1, <2>2, <2>3, <2>4, <2>5, <2>6 DEF CharNext
<1> QED
  BY <1>1, <1>2, PTL DEF CharSpec

(* A system that is started has the characterizations its file was saved   *)
(* with, and the devices have them unless they refused                     *)
(* (psl__SaveDetCharacterization and psl__LoadDetCharacterization).        *)
THEOREM CharacterizationsKept == CharSpec => []CharacterizationKept
<1>1. CharInv => CharacterizationKept
  <2> SUFFICES ASSUME CharInv PROVE CharacterizationKept
    OBVIOUS
  <2>1. CharTypes /\ KnownProper /\ FileOfKept /\ LoadedAsKept /\ DeviceHasIt
    BY DEF CharInv
  <2> HIDE DEF Calibrations
  <2>2. ASSUME asLoaded, NEW c \in enabled \ damaged, Whole(kept[c])
        PROVE  /\ charUp => (calibState[c] = "ready" <=> kept[c] # Nothing)
               /\ calibState[c] = "ready" =>
                    /\ calib[c].data = kept[c].data
                    /\ \A p \in Plots :
                         /\ calib[c].plots[p].x = kept[c].plots[p].x
                         /\ Near(calib[c].plots[p].y, kept[c].plots[p].y)
                    /\ OfTheFile(kept[c]) => calib[c] = kept[c]
    <3>1. /\ calibState[c] = "ready" => kept[c] # Nothing /\ calib[c] = Back(kept[c])
          /\ charUp /\ kept[c] # Nothing => calibState[c] = "ready"
      BY <2>1, <2>2 DEF LoadedAsKept
    <3>2. kept[c] # Nothing => kept[c] \in Calibrations /\ Sane(kept[c])
      BY <2>1, ProperIs DEF FileOfKept
    <3>3. kept[c] # Nothing =>
            /\ Back(kept[c]).data = kept[c].data
            /\ \A p \in Plots : /\ Back(kept[c]).plots[p].x = kept[c].plots[p].x
                                /\ Near(Back(kept[c]).plots[p].y, kept[c].plots[p].y)
            /\ OfTheFile(kept[c]) => Back(kept[c]) = kept[c]
      BY <3>2, BackKeeps
    <3> QED
      BY <3>1, <3>3
  <2>3. asLoaded /\ damaged = {} /\ (\A c \in enabled : Whole(kept[c])) => charUp
    BY <2>1 DEF LoadedAsKept
  <2>4. ASSUME NEW c \in enabled, calibState[c] = "ready"
        PROVE  /\ c \notin refusing => box[c] = calib[c]
               /\ \A p \in Plots : calib[c].plots[p].x # << >> =>
                    Len(calib[c].plots[p].x) = Len(calib[c].plots[p].y)
    <3>1. Proper(calib[c])
      BY <2>1, <2>4 DEF KnownProper, CharTypes
    <3> QED
      BY <2>1, <2>4, <3>1 DEF DeviceHasIt, Proper
  <2>5. \A c \in enabled : (asLoaded /\ calibState[c] = "refresh") => calib[c] = Nothing
    BY <2>1 DEF LoadedAsKept
  <2> QED
    BY <2>2, <2>3, <2>4, <2>5 DEF CharacterizationKept
<1> QED
  BY <1>1, CharInductive, PTL
=============================================================================
