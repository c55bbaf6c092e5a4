----------------------- MODULE SincTransaction_proofs -----------------------
(***************************************************************************)
(* Proofs about SincTransaction, for every set of threads and requests and *)
(* every bound: the type invariant, mutual exclusion of transactions by    *)
(* the send lock, that no thread misses the signal of its answer, that an  *)
(* answer is handed over once, and in sequence to the one who asked.       *)
(***************************************************************************)
EXTENDS SincTransaction, SequenceTheorems, TLAPS

LEMMA AnswerTypes ==
  /\ Flushed \in Message /\ NoRequest \in Message
  /\ \A response \in Message : Freed(response) \in Message
BY DEF Flushed, NoRequest, Freed, Message, Types

LEMMA EndType ==
  ASSUME TransTypeOK, NEW t \in Threads, NEW status \in {"ok", "error", "timeout"},
         NEW answer \in Message, End(t, status, answer)
  PROVE  /\ pc' \in [Threads -> {"idle", "waiting", "woken"}]
         /\ sendLock' \subseteq Threads
         /\ \A r \in results' : /\ r.asked \in Message /\ r.answer \in Message
                                /\ r.status \in {"ok", "error", "timeout"}
BY DEF TransTypeOK, End

LEMMA TransStepType == TransTypeOK /\ [TransNext]_transVars => TransTypeOK'
<1> SUFFICES ASSUME TransTypeOK, [TransNext]_transVars PROVE TransTypeOK'
  OBVIOUS
<1> USE DEF TransTypeOK
<1>1. ASSUME NEW t \in Threads, NEW kind \in Kinds, Send(t, kind)
      PROVE  TransTypeOK'
  <2> DEFINE asked == [type |-> kind.type, channel |-> kind.channel, id |-> requests']
  <2>1. requests' \in Nat /\ asked \in Message
    BY <1>1, TransactionAssumption DEF Send, Request, Message
  <2>2. request' = [request EXCEPT ![t] = asked]
    BY <1>1 DEF Send
  <2>3. PICK accepted \in BOOLEAN :
          stream' = Append(stream, [answer |-> asked, accepted |-> accepted])
    BY <1>1 DEF Send
  <2> HIDE DEF asked
  <2>4. stream' \in Seq([answer : Message, accepted : BOOLEAN])
    BY <2>1, <2>3
  <2>5. request' \in [Threads -> Message]
    BY <2>1, <2>2
  <2>6. QED BY <1>1, <2>1, <2>4, <2>5 DEF Send
<1>2. ASSUME NEW t \in Threads, Wake(t)
      PROVE  TransTypeOK'
  BY <1>2 DEF Wake
<1>3. ASSUME NEW t \in Threads, TimeOut(t)
      PROVE  TransTypeOK'
  BY <1>3, EndType, AnswerTypes DEF TimeOut
<1>4. ASSUME NEW t \in Threads, TakeError(t)
      PROVE  TransTypeOK'
  <2>1. [Flushed EXCEPT !.id = statusOf] \in Message
    BY AnswerTypes DEF Message
  <2>2. QED BY <1>4, <2>1, EndType DEF TakeError, receiverVars
<1>5. ASSUME NEW t \in Threads, TakeResponse(t)
      PROVE  TransTypeOK'
  BY <1>5, EndType, AnswerTypes DEF TakeResponse
<1>6. ASSUME NEW t \in Threads, RejectResponse(t)
      PROVE  TransTypeOK'
  BY <1>6, AnswerTypes DEF RejectResponse
<1>7. CASE ReceiveAnswer
  <2> DEFINE Answers == [answer : Message, accepted : BOOLEAN]
  <2>1. stream \in Seq(Answers) /\ stream # << >>
    BY <1>7 DEF ReceiveAnswer
  <2> HIDE DEF Answers
  <2>2. Head(stream) \in Answers /\ Tail(stream) \in Seq(Answers)
    BY <2>1, HeadTailProperties
  <2>3. Head(stream).answer \in Message /\ Head(stream).answer.id \in Nat
    BY <2>2 DEF Answers, Message
  <2>4. QED BY <1>7, <2>2, <2>3 DEF Answers, ReceiveAnswer, StatusAfter
<1>8. CASE ReceiveStray
  BY <1>8 DEF ReceiveStray
<1>9. CASE UNCHANGED transVars
  BY <1>9 DEF transVars
<1>10. QED
  BY <1>1, <1>2, <1>3, <1>4, <1>5, <1>6, <1>7, <1>8, <1>9 DEF TransNext, ThreadStep

LEMMA TransInitType == TransInit => TransTypeOK
<1> SUFFICES ASSUME TransInit PROVE TransTypeOK
  OBVIOUS
<1>1. stream \in Seq([answer : Message, accepted : BOOLEAN])
  BY DEF TransInit
<1>2. slot \in Message /\ request \in [Threads -> Message]
  BY AnswerTypes DEF TransInit
<1>3. pc \in [Threads -> {"idle", "waiting", "woken"}]
  BY DEF TransInit
<1>4. /\ sendLock = {} /\ sendEvent = FALSE /\ sendStatus = "ok" /\ results = {}
      /\ statusOf = 0 /\ requests = 0 /\ strays = 0
  BY DEF TransInit
<1>5. sendLock \subseteq Threads /\ sendEvent \in BOOLEAN
  BY <1>4
<1>5a. sendStatus \in {"ok", "error"} /\ {statusOf, requests, strays} \subseteq Nat
  BY <1>4
<1>6. \A r \in results : /\ r.asked \in Message /\ r.answer \in Message
                         /\ r.status \in {"ok", "error", "timeout"}
  BY <1>4
<1>7. QED BY <1>1, <1>2, <1>3, <1>5, <1>5a, <1>6 DEF TransTypeOK

(* The protocol's state and its history are always well formed.            *)
THEOREM TransTypeCorrect == TransSpec => []TransTypeOK
<1>1. QED BY TransInitType, TransStepType, PTL DEF TransSpec

---------------------------------------------------------------------------
LEMMA LockStep ==
  TransTypeOK /\ LockHeldInTransaction /\ [TransNext]_transVars => LockHeldInTransaction'
<1> SUFFICES ASSUME TransTypeOK, LockHeldInTransaction, [TransNext]_transVars
             PROVE  LockHeldInTransaction'
  OBVIOUS
<1>1. pc \in [Threads -> {"idle", "waiting", "woken"}]
  BY DEF TransTypeOK
<1> USE DEF LockHeldInTransaction
<1>2. ASSUME NEW t \in Threads, NEW kind \in Kinds, Send(t, kind)
      PROVE  LockHeldInTransaction'
  BY <1>1, <1>2 DEF Send
<1>3. ASSUME NEW t \in Threads, NEW status, NEW answer, pc[t] # "idle",
             End(t, status, answer)
      PROVE  LockHeldInTransaction'
  BY <1>1, <1>3 DEF End
<1>4. ASSUME NEW t \in Threads, pc[t] # "idle", UNCHANGED sendLock,
             NEW step \in {"waiting", "woken"}, pc' = [pc EXCEPT ![t] = step]
      PROVE  LockHeldInTransaction'
  BY <1>1, <1>4
<1>5. ASSUME NEW t \in Threads, ThreadStep(t)
      PROVE  LockHeldInTransaction'
  <2>1. CASE Wake(t)
    BY <1>4, <2>1 DEF Wake
  <2>2. CASE TimeOut(t)
    BY <1>3, <2>2 DEF TimeOut
  <2>3. CASE TakeError(t)
    BY <1>3, <2>3 DEF TakeError
  <2>4. CASE TakeResponse(t)
    BY <1>3, <2>4 DEF TakeResponse
  <2>5. CASE RejectResponse(t)
    BY <1>4, <2>5 DEF RejectResponse
  <2>6. QED BY <1>5, <2>1, <2>2, <2>3, <2>4, <2>5 DEF ThreadStep
<1>6. CASE ReceiveAnswer
  BY <1>6 DEF ReceiveAnswer
<1>7. CASE ReceiveStray
  BY <1>7 DEF ReceiveStray
<1>8. CASE UNCHANGED transVars
  BY <1>8 DEF transVars
<1>9. QED
  BY <1>2, <1>5, <1>6, <1>7, <1>8 DEF TransNext

(* A thread is in a transaction exactly while it holds the send lock, on   *)
(* every path out of psl__ModuleTransactionReceive.                        *)
THEOREM LockHeld == TransSpec => []LockHeldInTransaction
<1>1. TransInit => LockHeldInTransaction
  BY DEF TransInit, LockHeldInTransaction
<1>2. QED
  BY <1>1, TransInitType, TransStepType, LockStep, PTL DEF TransSpec

---------------------------------------------------------------------------
(* Why no answer is missed.  The thread in a transaction made the last     *)
(* request, so its answer is the last in the stream; once that has come,   *)
(* nothing but an error can overwrite it, and the event stays set until    *)
(* the thread looks.                                                       *)
Coming(t)  == stream # << >> /\ stream[Len(stream)].answer = request[t]
Arrived(t) ==
  /\ stream = << >> /\ (sendStatus = "error" \/ slot = request[t])
  /\ pc[t] = "waiting" => sendEvent
AnswerInv == \A t \in Threads : pc[t] # "idle" => Coming(t) \/ Arrived(t)

LEMMA AnswerStep ==
  TransTypeOK /\ LockHeldInTransaction /\ AnswerInv /\ [TransNext]_transVars => AnswerInv'
<1> SUFFICES ASSUME TransTypeOK, LockHeldInTransaction, AnswerInv, [TransNext]_transVars
             PROVE  AnswerInv'
  OBVIOUS
<1>1. /\ pc \in [Threads -> {"idle", "waiting", "woken"}]
      /\ request \in [Threads -> Message]
      /\ stream \in Seq([answer : Message, accepted : BOOLEAN])
  BY DEF TransTypeOK
<1>2. \A t, u \in Threads : pc[t] # "idle" /\ pc[u] # "idle" => t = u
  BY DEF LockHeldInTransaction
<1>3. sendLock = {} => \A t \in Threads : pc[t] = "idle"
  BY DEF LockHeldInTransaction
<1> USE DEF AnswerInv, Coming, Arrived
<1>4. ASSUME NEW t \in Threads, NEW kind \in Kinds, Send(t, kind)
      PROVE  AnswerInv'
  <2> DEFINE asked == [type |-> kind.type, channel |-> kind.channel, id |-> requests']
  <2>1. /\ \A u \in Threads : pc'[u] # "idle" => u = t
        /\ request'[t] = asked
    BY <1>1, <1>3, <1>4 DEF Send
  <2>2. PICK accepted \in BOOLEAN :
          stream' = Append(stream, [answer |-> asked, accepted |-> accepted])
    BY <1>4 DEF Send
  <2> HIDE DEF asked
  <2>3. stream' # << >> /\ stream'[Len(stream')].answer = asked
    BY <1>1, <2>2
  <2>4. QED BY <2>1, <2>3
<1>5. ASSUME NEW t \in Threads, NEW status, NEW answer, pc[t] # "idle",
             End(t, status, answer)
      PROVE  AnswerInv'
  BY <1>1, <1>2, <1>5 DEF End
<1>6. ASSUME NEW t \in Threads, Wake(t)
      PROVE  AnswerInv'
  BY <1>1, <1>2, <1>6 DEF Wake
<1>7. ASSUME NEW t \in Threads, RejectResponse(t)
      PROVE  AnswerInv'
  <2>1. slot # request[t] /\ sendStatus # "error" /\ pc[t] # "idle"
    BY <1>7 DEF RejectResponse, Matches
  <2>2. Coming(t)
    BY <2>1
  <2>3. /\ \A u \in Threads : pc'[u] # "idle" => u = t
        /\ stream' = stream /\ request' = request
    BY <1>1, <1>2, <1>7 DEF RejectResponse
  <2>4. QED BY <2>2, <2>3
<1>8. CASE ReceiveAnswer
  <2> SUFFICES ASSUME NEW t \in Threads, pc[t] # "idle" PROVE (Coming(t) \/ Arrived(t))'
    BY <1>8 DEF ReceiveAnswer
  <2>1. Coming(t)
    BY <1>8 DEF ReceiveAnswer
  <2>2. CASE Len(stream) = 1
    <3>1. stream' = << >> /\ Head(stream).answer = request[t]
      BY <1>1, <1>8, <2>1, <2>2 DEF ReceiveAnswer
    <3>2. QED BY <1>8, <3>1 DEF ReceiveAnswer, StatusAfter
  <2>3. CASE Len(stream) # 1
    <3>1. stream # << >> /\ stream' = Tail(stream) /\ Len(stream) \in Nat \ {0, 1}
      BY <1>1, <1>8, <2>3 DEF ReceiveAnswer
    <3>2. Len(stream') = Len(stream) - 1
      BY <1>1, <3>1, HeadTailProperties
    <3>3. \A i \in 1 .. Len(stream') : stream'[i] = stream[i + 1]
      BY <1>1, <3>1, HeadTailProperties
    <3>4. stream'[Len(stream')] = stream[Len(stream)] /\ stream' # << >>
      <4>1. Len(stream') \in 1 .. Len(stream') /\ Len(stream') + 1 = Len(stream)
        BY <3>1, <3>2
      <4>2. stream' # << >>
        BY <4>1
      <4>3. QED BY <3>3, <4>1, <4>2
    <3>5. pc' = pc /\ request' = request
      BY <1>8 DEF ReceiveAnswer
    <3>6. Coming(t)'
      BY <2>1, <3>4, <3>5
    <3>7. QED BY <3>6
  <2>4. QED BY <2>2, <2>3
<1>9. CASE ReceiveStray
  BY <1>9 DEF ReceiveStray
<1>10. CASE UNCHANGED transVars
  BY <1>10 DEF transVars
<1>11. ASSUME NEW t \in Threads, TimeOut(t) \/ TakeError(t) \/ TakeResponse(t)
       PROVE  AnswerInv'
  BY <1>5, <1>11 DEF TimeOut, TakeError, TakeResponse
<1>12. QED
  BY <1>4, <1>6, <1>7, <1>8, <1>9, <1>10, <1>11 DEF TransNext, ThreadStep

(* A thread that waits for an answer has its event set or its answer ahead *)
(* of it: late answers, rejected ones and errors out of turn never use up  *)
(* the signal of its own.                                                  *)
THEOREM AnswerNotLost == TransSpec => []NoLostAnswer
<1>1. TransInit => AnswerInv
  BY DEF TransInit, AnswerInv
<1>2. TransTypeOK /\ AnswerInv => NoLostAnswer
  <2> SUFFICES ASSUME TransTypeOK, AnswerInv, NEW t \in Threads, pc[t] = "waiting",
                      ~sendEvent
               PROVE  \E i \in DOMAIN stream : stream[i].answer = request[t]
    BY DEF NoLostAnswer
  <2>1. Coming(t)
    BY DEF AnswerInv, Arrived
  <2>2. stream \in Seq([answer : Message, accepted : BOOLEAN])
    BY DEF TransTypeOK
  <2>3. Len(stream) \in DOMAIN stream
    BY <2>1, <2>2 DEF Coming
  <2>4. QED BY <2>1, <2>3 DEF Coming
<1>3. QED
  BY <1>1, <1>2, TransTypeCorrect, LockHeld, AnswerStep, PTL DEF TransSpec

---------------------------------------------------------------------------
(* Why no answer is handed over twice.  Requests are numbered as they are  *)
(* made and answered in order, so the slot holds an older answer than any  *)
(* in the stream, and what was handed over is in neither of them.          *)
Streamed(i) == stream[i].answer.id

StreamOrdered ==
  /\ \A i \in 1 .. Len(stream) : Streamed(i) \in 1 .. requests /\ slot.id < Streamed(i)
  /\ \A i, j \in 1 .. Len(stream) : i < j => Streamed(i) < Streamed(j)
SlotNumbered ==
  /\ slot.id <= requests /\ (slot.type # "none" => slot.id > 0)
  /\ \A t \in Threads : request[t].type \in Types
HandedOver ==
  \A r \in results : r.status = "ok" =>
    /\ r.answer.id \in 1 .. requests
    /\ r.answer.id # slot.id
    /\ \A i \in 1 .. Len(stream) : r.answer.id # Streamed(i)
    /\ \A q \in results : q.status = "ok" /\ q.answer.id = r.answer.id => q = r
OnceInv == StreamOrdered /\ SlotNumbered /\ HandedOver

(* A step that moves no answer.                                            *)
LEMMA OnceSame ==
  ASSUME OnceInv, UNCHANGED <<stream, slot, requests, request>>,
         \A r \in results' : r.status = "ok" => r \in results
  PROVE  OnceInv'
BY DEF OnceInv, StreamOrdered, SlotNumbered, HandedOver, Streamed

LEMMA OnceEnd ==
  ASSUME OnceInv, NEW t \in Threads, NEW status, NEW answer, status # "ok",
         End(t, status, answer), UNCHANGED <<stream, slot, requests, request>>
  PROVE  OnceInv'
BY OnceSame DEF End

LEMMA OnceSend ==
  ASSUME TransTypeOK, OnceInv, NEW t \in Threads, NEW kind \in Kinds, Send(t, kind)
  PROVE  OnceInv'
<1> DEFINE asked == [type |-> kind.type, channel |-> kind.channel, id |-> requests']
           Answers == [answer : Message, accepted : BOOLEAN]
<1>1. /\ requests \in Nat /\ requests' = requests + 1 /\ asked \in Message
      /\ asked.type \in Types /\ asked.id = requests + 1
      /\ stream \in Seq(Answers) /\ slot \in Message
      /\ request \in [Threads -> Message]
      /\ slot' = slot /\ results' = results
  BY TransactionAssumption DEF TransTypeOK, Send, Request, Message
<1>2. PICK accepted \in BOOLEAN :
        stream' = Append(stream, [answer |-> asked, accepted |-> accepted])
  BY DEF Send
<1>3. request' = [request EXCEPT ![t] = asked]
  BY DEF Send
<1> DEFINE last == [answer |-> asked, accepted |-> accepted]
           n == Len(stream)
<1>4. last \in Answers /\ last.answer.id = requests + 1
  BY <1>1
<1> HIDE DEF asked, Answers, last
<1>5. /\ n \in Nat /\ Len(stream') = n + 1
      /\ \A i \in 1 .. n : stream'[i] = stream[i]
      /\ stream'[n + 1] = last
  BY <1>1, <1>2, <1>4, AppendProperties DEF last
<1> HIDE DEF n
<1>6. \A i \in 1 .. Len(stream') : \/ i \in 1 .. n /\ Streamed(i)' = Streamed(i)
                                   \/ i = n + 1 /\ Streamed(i)' = requests + 1
  BY <1>4, <1>5 DEF Streamed
<1>7. \A i \in 1 .. n : Streamed(i) \in 1 .. requests /\ slot.id < Streamed(i)
  BY DEF OnceInv, StreamOrdered, n
<1>8. slot.id \in Nat /\ slot.id <= requests
  BY <1>1 DEF OnceInv, SlotNumbered, Message
<1>9. StreamOrdered'
  <2>1. \A i \in 1 .. Len(stream') : /\ Streamed(i)' \in 1 .. requests'
                                     /\ slot'.id < Streamed(i)'
    BY <1>1, <1>6, <1>7, <1>8
  <2>2. \A i, j \in 1 .. n : i < j => Streamed(i) < Streamed(j)
    BY DEF OnceInv, StreamOrdered, n
  <2>3. ASSUME NEW i \in 1 .. n + 1, NEW j \in 1 .. n + 1, i < j
        PROVE  Streamed(i)' < Streamed(j)'
    <3>1. i \in 1 .. n /\ Streamed(i)' = Streamed(i) /\ Streamed(i) \in 1 .. requests
      BY <1>5, <1>6, <1>7, <2>3
    <3>2. CASE j \in 1 .. n
      BY <1>5, <1>6, <2>2, <2>3, <3>1, <3>2
    <3>3. CASE j = n + 1
      BY <1>1, <1>5, <1>6, <3>1, <3>3
    <3>4. QED BY <1>5, <3>2, <3>3
  <2>4. QED BY <1>5, <2>1, <2>3 DEF StreamOrdered
<1>10. SlotNumbered'
  <2>1. \A u \in Threads : request'[u].type \in Types
    BY <1>1, <1>3 DEF OnceInv, SlotNumbered, asked
  <2>2. QED BY <1>1, <1>8, <2>1 DEF OnceInv, SlotNumbered
<1>11. HandedOver'
  <2> SUFFICES ASSUME NEW r \in results, r.status = "ok"
               PROVE  /\ r.answer.id \in 1 .. requests + 1
                      /\ r.answer.id # slot.id
                      /\ \A i \in 1 .. Len(stream') : r.answer.id # Streamed(i)'
                      /\ \A q \in results :
                           q.status = "ok" /\ q.answer.id = r.answer.id => q = r
    BY <1>1 DEF HandedOver
  <2>1. /\ r.answer.id \in 1 .. requests /\ r.answer.id # slot.id
        /\ \A i \in 1 .. n : r.answer.id # Streamed(i)
        /\ \A q \in results : q.status = "ok" /\ q.answer.id = r.answer.id => q = r
    BY DEF OnceInv, HandedOver, n
  <2>2. QED BY <1>1, <1>6, <2>1
<1>12. QED BY <1>9, <1>10, <1>11 DEF OnceInv

LEMMA OnceReceive ==
  ASSUME TransTypeOK, OnceInv, ReceiveAnswer
  PROVE  OnceInv'
<1> DEFINE Answers == [answer : Message, accepted : BOOLEAN]
           n == Len(stream')
<1>1. /\ stream \in Seq(Answers) /\ stream # << >> /\ stream' = Tail(stream)
      /\ slot \in Message /\ requests \in Nat
      /\ UNCHANGED <<results, requests, request>>
      /\ slot' = Head(stream).answer \/ slot' = slot
  BY DEF TransTypeOK, ReceiveAnswer
<1> HIDE DEF Answers
<1>2. /\ Head(stream) \in Answers /\ n \in Nat /\ Len(stream) = n + 1
      /\ Head(stream) = stream[1]
      /\ \A i \in 1 .. n : stream'[i] = stream[i + 1]
  BY <1>1, HeadTailProperties, LenProperties
<1>3. /\ Head(stream).answer \in Message /\ Head(stream).answer.id = Streamed(1)
      /\ \A i \in 1 .. n : Streamed(i)' = Streamed(i + 1)
  BY <1>2 DEF Streamed, Answers
<1> HIDE DEF n
<1>4. /\ 1 \in 1 .. n + 1 /\ \A i \in 1 .. n : i + 1 \in 1 .. n + 1 /\ 1 < i + 1
  BY <1>2
<1>5. /\ \A i \in 1 .. n + 1 : Streamed(i) \in 1 .. requests /\ slot.id < Streamed(i)
      /\ \A i, j \in 1 .. n + 1 : i < j => Streamed(i) < Streamed(j)
  BY <1>2 DEF OnceInv, StreamOrdered
<1>6. StreamOrdered'
  <2>1. \A i \in 1 .. n : slot'.id < Streamed(i)' /\ Streamed(i)' \in 1 .. requests
    BY <1>1, <1>3, <1>4, <1>5
  <2>2. \A i, j \in 1 .. n : i < j => Streamed(i)' < Streamed(j)'
    <3>1. ASSUME NEW i \in 1 .. n, NEW j \in 1 .. n, i < j
          PROVE  Streamed(i)' < Streamed(j)'
      <4>1. i + 1 \in 1 .. n + 1 /\ j + 1 \in 1 .. n + 1 /\ i + 1 < j + 1
        BY <1>2, <3>1
      <4>2. Streamed(i + 1) < Streamed(j + 1)
        BY <1>5, <4>1
      <4>3. QED BY <1>3, <4>2
    <3>2. QED BY <3>1
  <2>3. QED BY <1>1, <2>1, <2>2 DEF StreamOrdered, n
<1>7. SlotNumbered'
  <2>1. Streamed(1) \in 1 .. requests
    BY <1>4, <1>5
  <2>2. slot'.id <= requests /\ (slot'.type # "none" => slot'.id > 0)
    BY <1>1, <1>3, <2>1 DEF OnceInv, SlotNumbered
  <2>3. QED BY <1>1, <2>2 DEF OnceInv, SlotNumbered
<1>8. HandedOver'
  <2> SUFFICES ASSUME NEW r \in results, r.status = "ok"
               PROVE  /\ r.answer.id \in 1 .. requests
                      /\ r.answer.id # slot'.id
                      /\ \A i \in 1 .. n : r.answer.id # Streamed(i)'
                      /\ \A q \in results :
                           q.status = "ok" /\ q.answer.id = r.answer.id => q = r
    BY <1>1 DEF HandedOver, n
  <2>1. /\ r.answer.id \in 1 .. requests /\ r.answer.id # slot.id
        /\ \A i \in 1 .. n + 1 : r.answer.id # Streamed(i)
        /\ \A q \in results : q.status = "ok" /\ q.answer.id = r.answer.id => q = r
    BY <1>2 DEF OnceInv, HandedOver
  <2>2. QED BY <1>1, <1>3, <1>4, <2>1
<1>9. QED BY <1>6, <1>7, <1>8 DEF OnceInv

(* The answer that is taken leaves the slot.                               *)
LEMMA OnceTake ==
  ASSUME TransTypeOK, OnceInv, NEW t \in Threads, TakeResponse(t)
  PROVE  OnceInv'
<1> DEFINE new == [asked |-> request[t], status |-> "ok", answer |-> slot]
<1>1. /\ results' = results \union {new} /\ slot' = Flushed
      /\ new.status = "ok" /\ new.answer = slot
      /\ UNCHANGED <<stream, requests, request>>
  BY DEF TakeResponse, End
<1>2. slot \in Message /\ requests \in Nat /\ slot.id \in Nat
      /\ Flushed.id = 0 /\ Flushed.type = "none"
  BY DEF TransTypeOK, Message, Flushed
<1>3. slot.id \in 1 .. requests
  <2>1. slot.type = request[t].type /\ request[t].type \in Types
    BY DEF TakeResponse, Matches, OnceInv, SlotNumbered
  <2>2. slot.type # "none"
    BY <2>1 DEF Types
  <2>3. QED BY <1>2, <2>2 DEF OnceInv, SlotNumbered
<1> HIDE DEF new
<1>4. \A i \in 1 .. Len(stream) : /\ Streamed(i)' = Streamed(i)
                                  /\ Streamed(i) \in 1 .. requests
                                  /\ slot.id < Streamed(i)
  BY <1>1 DEF Streamed, OnceInv, StreamOrdered
<1>5. StreamOrdered'
  <2>1. \A i \in 1 .. Len(stream) : Streamed(i) \in 1 .. requests /\ 0 < Streamed(i)
    BY <1>2, <1>4
  <2>2. QED BY <1>1, <1>2, <1>4, <2>1 DEF OnceInv, StreamOrdered
<1>6. SlotNumbered'
  BY <1>1, <1>2 DEF OnceInv, SlotNumbered
<1>7. HandedOver'
  <2>1. ASSUME NEW r \in results', r.status = "ok"
        PROVE  /\ r.answer.id \in 1 .. requests
               /\ \A i \in 1 .. Len(stream) : r.answer.id # Streamed(i)
    BY <1>1, <1>2, <1>3, <1>4, <2>1 DEF OnceInv, HandedOver
  <2>2. ASSUME NEW r \in results', r.status = "ok", NEW q \in results', q.status = "ok",
               q.answer.id = r.answer.id
        PROVE  q = r
    <3>1. \A p \in results : p.status = "ok" => p.answer.id # slot.id
      BY DEF OnceInv, HandedOver
    <3>2. CASE r \in results /\ q \in results
      BY <2>2, <3>2 DEF OnceInv, HandedOver
    <3>3. CASE r = new \/ q = new
      BY <1>1, <2>2, <3>1, <3>3
    <3>4. QED BY <1>1, <3>2, <3>3
  <2>3. \A r \in results' : r.status = "ok" => r.answer.id # slot'.id
    BY <1>1, <1>2, <2>1
  <2>4. QED BY <1>1, <1>4, <2>1, <2>2, <2>3 DEF HandedOver
<1>8. QED BY <1>5, <1>6, <1>7 DEF OnceInv

LEMMA OnceStep ==
  TransTypeOK /\ OnceInv /\ [TransNext]_transVars => OnceInv'
<1> SUFFICES ASSUME TransTypeOK, OnceInv, [TransNext]_transVars PROVE OnceInv'
  OBVIOUS
<1>1. ASSUME NEW t \in Threads, RejectResponse(t)
      PROVE  OnceInv'
  <2>1. /\ slot' = slot \/ slot' = Flushed
        /\ UNCHANGED <<stream, results, requests, request>>
    BY <1>1 DEF RejectResponse, Freed
  <2>2. CASE slot' = slot
    BY <2>1, <2>2, OnceSame
  <2>3. CASE slot' = Flushed
    <3>1. slot'.id = 0 /\ slot'.type = "none" /\ requests \in Nat
      BY <2>3 DEF Flushed, TransTypeOK
    <3>2. \A i \in 1 .. Len(stream) : Streamed(i)' = Streamed(i)
                                     /\ Streamed(i) \in 1 .. requests
      BY <2>1 DEF Streamed, OnceInv, StreamOrdered
    <3>3. StreamOrdered'
      <4>1. \A i \in 1 .. Len(stream) : 0 < Streamed(i)
        BY <3>1, <3>2
      <4>2. QED BY <2>1, <3>1, <3>2, <4>1 DEF OnceInv, StreamOrdered
    <3>4. SlotNumbered'
      BY <2>1, <3>1 DEF OnceInv, SlotNumbered
    <3>5. HandedOver'
      <4>1. \A r \in results : r.status = "ok" => r.answer.id # 0
        BY <3>1 DEF OnceInv, HandedOver
      <4>2. QED BY <2>1, <3>1, <3>2, <4>1 DEF OnceInv, HandedOver
    <3>6. QED BY <3>3, <3>4, <3>5 DEF OnceInv
  <2>4. QED BY <2>1, <2>2, <2>3
<1>2. ASSUME NEW t \in Threads, TimeOut(t) \/ TakeError(t)
      PROVE  OnceInv'
  BY <1>2, OnceEnd DEF TimeOut, TakeError, receiverVars
<1>3. ASSUME NEW t \in Threads, Wake(t)
      PROVE  OnceInv'
  BY <1>3, OnceSame DEF Wake
<1>4. CASE ReceiveStray
  BY <1>4, OnceSame DEF ReceiveStray
<1>5. CASE UNCHANGED transVars
  BY <1>5, OnceSame DEF transVars
<1>6. QED
  BY <1>1, <1>2, <1>3, <1>4, <1>5, OnceSend, OnceReceive, OnceTake DEF TransNext, ThreadStep

(* A message is handed to one caller only, however late answers, refusals, *)
(* timeouts and errors out of turn come in between: no two transactions    *)
(* end with the same answer, and it is no longer in the slot or on its way.*)
THEOREM AnswerHandedOverOnce == TransSpec => []HandedOverOnce
<1>1. TransInit => OnceInv
  <2> SUFFICES ASSUME TransInit PROVE OnceInv
    OBVIOUS
  <2>1. /\ stream = << >> /\ Len(stream) = 0 /\ results = {} /\ requests = 0
        /\ slot.id = 0 /\ slot.type = "none"
    BY DEF TransInit, Flushed
  <2>2. \A t \in Threads : request[t].type \in Types
    BY DEF TransInit, NoRequest, Types
  <2>3. QED BY <2>1, <2>2 DEF OnceInv, StreamOrdered, SlotNumbered, HandedOver
<1>2. TransTypeOK /\ OnceInv => HandedOverOnce
  <2> SUFFICES ASSUME TransTypeOK, OnceInv, NEW r \in results, r.status = "ok"
               PROVE  /\ Owners(r.answer.id) = {r}
                      /\ slot.id # r.answer.id
                      /\ \A i \in DOMAIN stream : stream[i].answer.id # r.answer.id
    BY DEF HandedOverOnce
  <2>1. DOMAIN stream = 1 .. Len(stream)
    BY LenProperties DEF TransTypeOK
  <2>2. QED BY <2>1 DEF OnceInv, HandedOver, Owners, Streamed
<1>3. QED
  BY <1>1, <1>2, TransTypeCorrect, OnceStep, PTL DEF TransSpec

---------------------------------------------------------------------------
(* While nothing has gone out of turn there is one answer at most, that of *)
(* the thread in a transaction: it is on its way, or it has arrived.       *)
Expected(t) ==
  /\ Len(stream) = 1 /\ stream[1].answer = request[t]
  /\ pc[t] = "waiting" /\ ~sendEvent
Answered(t) ==
  /\ stream = << >>
  /\ sendEvent <=> pc[t] = "waiting"
  /\ \/ sendStatus = "ok" /\ slot = request[t]
     \/ sendStatus = "error" /\ statusOf = request[t].id
TurnInv ==
  /\ (\A t \in Threads : pc[t] = "idle") => stream = << >> /\ ~sendEvent
  /\ \A t \in Threads : pc[t] # "idle" => Expected(t) \/ Answered(t)
  /\ OwnAnswer
SequenceInv == InSequence => TurnInv

LEMMA SequenceStep ==
  TransTypeOK /\ LockHeldInTransaction /\ SequenceInv /\ [TransNext]_transVars
    => SequenceInv'
<1> SUFFICES ASSUME TransTypeOK, LockHeldInTransaction, SequenceInv,
                    [TransNext]_transVars, InSequence'
             PROVE  TurnInv'
  BY DEF SequenceInv
<1>1. /\ pc \in [Threads -> {"idle", "waiting", "woken"}]
      /\ request \in [Threads -> Message]
      /\ stream \in Seq([answer : Message, accepted : BOOLEAN])
      /\ sendEvent \in BOOLEAN /\ strays \in Nat
  BY DEF TransTypeOK
<1>2. \A t, u \in Threads : pc[t] # "idle" /\ pc[u] # "idle" => t = u
  BY DEF LockHeldInTransaction
<1>3. results \subseteq results' /\ (strays' = strays \/ ReceiveStray)
  BY DEF TransNext, ThreadStep, Send, Wake, TimeOut, TakeError, TakeResponse,
         RejectResponse, ReceiveAnswer, ReceiveStray, End, receiverVars, transVars
<1>4. TurnInv
  <2>1. ~ReceiveStray
    BY <1>1 DEF ReceiveStray, InSequence
  <2>2. QED BY <1>3, <2>1 DEF SequenceInv, InSequence
<1>5. ASSUME NEW t \in Threads, NEW kind \in Kinds, Send(t, kind)
      PROVE  TurnInv'
  <2> DEFINE asked == [type |-> kind.type, channel |-> kind.channel, id |-> requests']
  <2>1. \A u \in Threads : pc[u] = "idle"
    BY <1>5 DEF Send, LockHeldInTransaction
  <2>2. stream = << >> /\ ~sendEvent
    BY <1>4, <2>1 DEF TurnInv
  <2>3. PICK accepted \in BOOLEAN :
          stream' = Append(stream, [answer |-> asked, accepted |-> accepted])
    BY <1>5 DEF Send
  <2>4. /\ request' = [request EXCEPT ![t] = asked]
        /\ pc' = [pc EXCEPT ![t] = "waiting"]
        /\ sendEvent' = sendEvent /\ results' = results
    BY <1>5 DEF Send
  <2> HIDE DEF asked
  <2>5. request'[t] = asked /\ pc'[t] = "waiting"
        /\ \A u \in Threads : pc'[u] # "idle" => u = t
    BY <1>1, <2>1, <2>4
  <2>6. Len(stream') = 1 /\ stream'[1].answer = asked
    BY <2>2, <2>3
  <2>7. Expected(t)'
    BY <2>2, <2>4, <2>5, <2>6 DEF Expected
  <2>8. OwnAnswer'
    BY <1>4, <2>4 DEF TurnInv, OwnAnswer
  <2>9. QED BY <2>5, <2>7, <2>8 DEF TurnInv
<1>6. ASSUME NEW t \in Threads, Wake(t)
      PROVE  TurnInv'
  <2>1. Answered(t)
    BY <1>4, <1>6 DEF Wake, TurnInv, Expected
  <2>2. /\ pc'[t] = "woken" /\ \A u \in Threads : pc'[u] # "idle" => u = t
        /\ ~sendEvent' /\ UNCHANGED <<stream, request, sendStatus, slot, statusOf, results>>
    BY <1>1, <1>2, <1>6 DEF Wake
  <2>3. Answered(t)'
    BY <2>1, <2>2 DEF Answered
  <2>4. OwnAnswer'
    BY <1>4, <2>2 DEF TurnInv, OwnAnswer
  <2>5. QED BY <2>2, <2>3, <2>4 DEF TurnInv
<1>7. ASSUME NEW t \in Threads, NEW status, NEW answer, pc[t] = "woken",
             End(t, status, answer), UNCHANGED <<stream, sendEvent>>,
             Answered(t), answer.id = request[t].id
      PROVE  TurnInv'
  <2>1. \A u \in Threads : pc'[u] = "idle"
    BY <1>1, <1>2, <1>7 DEF End
  <2>2. stream' = << >> /\ ~sendEvent'
    BY <1>7 DEF Answered
  <2>3. OwnAnswer'
    BY <1>4, <1>7 DEF TurnInv, OwnAnswer, End
  <2>4. QED BY <2>1, <2>2, <2>3 DEF TurnInv
<1>8. ASSUME NEW t \in Threads, pc[t] = "woken"
      PROVE  Answered(t)
  BY <1>4, <1>8 DEF TurnInv, Expected
<1>9. ASSUME NEW t \in Threads, TakeError(t)
      PROVE  TurnInv'
  <2>1. Answered(t) /\ sendStatus = "error"
    BY <1>8, <1>9 DEF TakeError
  <2>2. [Flushed EXCEPT !.id = statusOf].id = request[t].id
    BY <2>1 DEF Answered, Flushed
  <2>3. QED BY <1>7, <1>9, <2>1, <2>2 DEF TakeError, receiverVars
<1>10. ASSUME NEW t \in Threads, TakeResponse(t)
       PROVE  TurnInv'
  <2>1. Answered(t) /\ sendStatus = "ok"
    BY <1>8, <1>10 DEF TakeResponse
  <2>2. slot.id = request[t].id
    BY <2>1 DEF Answered
  <2>3. QED BY <1>7, <1>10, <2>1, <2>2 DEF TakeResponse
<1>11. ASSUME NEW t \in Threads, RejectResponse(t)
       PROVE  FALSE
  <2>1. Answered(t) /\ sendStatus = "ok" /\ ~Matches(request[t], slot)
    BY <1>8, <1>11 DEF RejectResponse
  <2>2. slot = request[t]
    BY <2>1 DEF Answered
  <2>3. QED BY <2>1, <2>2 DEF Matches
<1>12. ASSUME NEW t \in Threads, TimeOut(t)
       PROVE  FALSE
  <2> DEFINE late == [asked |-> request[t], status |-> "timeout", answer |-> Flushed]
  <2>1. late \in results' /\ late.status = "timeout"
    BY <1>12 DEF TimeOut, End
  <2>2. QED BY <2>1 DEF InSequence
<1>13. CASE ReceiveAnswer
  <2>1. stream # << >>
    BY <1>13 DEF ReceiveAnswer
  <2>2. PICK t \in Threads : pc[t] # "idle"
    BY <1>4, <2>1 DEF TurnInv
  <2>3. Expected(t)
    BY <1>4, <2>1, <2>2 DEF TurnInv, Answered
  <2>4. /\ Len(stream) = 1 /\ Head(stream).answer = request[t]
        /\ stream' = << >>
    BY <1>1, <1>13, <2>3 DEF Expected, ReceiveAnswer
  <2>5. /\ pc' = pc /\ request' = request /\ results' = results /\ sendEvent'
        /\ \/ sendStatus' = "ok" /\ slot' = Head(stream).answer
           \/ sendStatus' = "error" /\ statusOf' = Head(stream).answer.id
    BY <1>13 DEF ReceiveAnswer, StatusAfter
  <2>6. Answered(t)'
    BY <2>3, <2>4, <2>5 DEF Answered, Expected
  <2>7. OwnAnswer'
    BY <1>4, <2>5 DEF TurnInv, OwnAnswer
  <2>8. QED BY <1>2, <2>2, <2>5, <2>6, <2>7 DEF TurnInv
<1>14. CASE ReceiveStray
  BY <1>1, <1>14 DEF ReceiveStray, InSequence
<1>15. CASE UNCHANGED transVars
  BY <1>4, <1>15 DEF transVars, TurnInv, Expected, Answered, OwnAnswer
<1>16. QED
  BY <1>5, <1>6, <1>9, <1>10, <1>11, <1>12, <1>13, <1>14, <1>15 DEF TransNext, ThreadStep

(* Commands and responses are sequential: as long as no wait has timed out *)
(* and no error came out of turn, every transaction ends with the answer   *)
(* to its own request.                                                     *)
THEOREM OwnAnswerWhileInSequence == TransSpec => []OwnAnswerInSequence
<1>1. TransInit => SequenceInv
  BY DEF TransInit, SequenceInv, TurnInv, OwnAnswer
<1>2. SequenceInv => OwnAnswerInSequence
  BY DEF SequenceInv, TurnInv, OwnAnswerInSequence
<1>3. QED
  BY <1>1, <1>2, TransTypeCorrect, LockHeld, SequenceStep, PTL DEF TransSpec
============================================================================
