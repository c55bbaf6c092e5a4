-------------------------- MODULE SincTransaction --------------------------
(***************************************************************************)
(* The command/response protocol of one FalconXN module.  User threads     *)
(* take turns with the send lock: send a request, wait at most two seconds *)
(* for the send event, look at the single response slot.  The receiver     *)
(* thread fills the slot from the device's ordered stream and sets the     *)
(* event.  Nothing in a response says which request it answers.            *)
(***************************************************************************)
EXTENDS Integers, Sequences

CONSTANTS
  Threads,      \* user threads
  Kinds,        \* the requests they make, a subset of Request
  MaxRequests,  \* bound: requests made
  MaxStrays     \* bound: errors the receiver meets outside any transaction

Types == {"success", "param", "calibration"}

(* Channel -1: the caller takes the answer of any channel.                 *)
Request == [type : Types, channel : Int]

ASSUME TransactionAssumption ==
  /\ Kinds \subseteq Request
  /\ MaxRequests \in Nat /\ MaxStrays \in Nat

VARIABLES
  sendLock,     \* the threads that hold the send lock: none or one
  pc, request,  \* each thread's step and the kind and number of its request
  stream,       \* answers on their way, in order
  sendEvent, sendStatus, slot, statusOf,
  results,      \* history: how each transaction ended
  requests, strays

transVars == <<sendLock, pc, request, stream, sendEvent, sendStatus, slot, statusOf,
               results, requests, strays>>
receiverVars == <<stream, sendEvent, sendStatus, slot, statusOf, strays>>

(* psl__FlushResponse                                                      *)
Flushed == [type |-> "none", channel |-> -1, id |-> 0]

NoRequest == [type |-> "success", channel |-> -1, id |-> 0]

TransInit ==
  /\ sendLock = {}
  /\ pc = [t \in Threads |-> "idle"] /\ request = [t \in Threads |-> NoRequest]
  /\ stream = << >>
  /\ sendEvent = FALSE /\ sendStatus = "ok" /\ slot = Flushed /\ statusOf = 0
  /\ results = {} /\ requests = 0 /\ strays = 0

---------------------------------------------------------------------------
(* psl__ModuleTransactionSend: the device answers what it is asked, or     *)
(* refuses.                                                                *)
Send(t, kind) ==
  /\ pc[t] = "idle" /\ sendLock = {} /\ requests < MaxRequests
  /\ sendLock' = {t}
  /\ requests' = requests + 1
  /\ LET asked == [type |-> kind.type, channel |-> kind.channel, id |-> requests']
     IN  /\ request' = [request EXCEPT ![t] = asked]
         /\ \E accepted \in BOOLEAN :
              stream' = Append(stream, [answer |-> asked, accepted |-> accepted])
  /\ pc' = [pc EXCEPT ![t] = "waiting"]
  /\ UNCHANGED <<sendEvent, sendStatus, slot, statusOf, results, strays>>

(* The transaction returns to its caller, which ends it.                   *)
End(t, status, answer) ==
  /\ pc' = [pc EXCEPT ![t] = "idle"]
  /\ sendLock' = {}
  /\ results' = results \union
       {[asked |-> request[t], status |-> status, answer |-> answer]}

(* psl__ModuleTransactionReceive: the wait ends with the event,            *)
Wake(t) ==
  /\ pc[t] = "waiting" /\ sendEvent
  /\ sendEvent' = FALSE
  /\ pc' = [pc EXCEPT ![t] = "woken"]
  /\ UNCHANGED <<sendLock, request, stream, sendStatus, slot, statusOf, results,
                 requests, strays>>

(* or without it, and the event is cleared even so;                        *)
TimeOut(t) ==
  /\ pc[t] = "waiting"
  /\ sendEvent' = FALSE
  /\ End(t, "timeout", Flushed)
  /\ UNCHANGED <<request, stream, sendStatus, slot, statusOf, requests, strays>>

(* channels are compared only when both are above 0.                       *)
Fault_MatchesNoWildcard(asked, response) ==
  /\ asked.channel > 0 /\ asked.channel = response.channel
  /\ asked.type = response.type
Matches(asked, response) ==
  /\ asked.channel > 0 /\ response.channel > 0 => asked.channel = response.channel
  /\ asked.type = response.type

TakeError(t) ==
  /\ pc[t] = "woken" /\ sendStatus = "error"
  /\ End(t, "error", [Flushed EXCEPT !.id = statusOf])
  /\ UNCHANGED <<request, requests, receiverVars>>

Fault_TakeKeepsSlot(t) ==
  /\ pc[t] = "woken" /\ sendStatus = "ok" /\ Matches(request[t], slot)
  /\ End(t, "ok", slot)
  /\ UNCHANGED <<request, requests, receiverVars>>
TakeResponse(t) ==
  /\ pc[t] = "woken" /\ sendStatus = "ok" /\ Matches(request[t], slot)
  /\ End(t, "ok", slot)
  /\ slot' = Flushed
  /\ UNCHANGED <<request, stream, sendEvent, sendStatus, statusOf, requests, strays>>

(* psl__FreeResponse flushes the slot only when it holds a message: the    *)
(* calibration's response is NULL.                                         *)
Freed(response) == IF response.type = "calibration" THEN response ELSE Flushed

RejectResponse(t) ==
  /\ pc[t] = "woken" /\ sendStatus = "ok" /\ ~Matches(request[t], slot)
  /\ slot' = Freed(slot)
  /\ pc' = [pc EXCEPT ![t] = "waiting"]
  /\ UNCHANGED <<sendLock, request, stream, sendEvent, sendStatus, statusOf, results,
                 requests, strays>>

---------------------------------------------------------------------------
(* psl__ModuleResponse frees what the slot holds and fills it;             *)
(* psl__ModuleStatusResponse leaves the slot and records the error.  The   *)
(* receiver holds the module lock throughout.                              *)
Fault_StatusSticks(accepted) == IF accepted THEN sendStatus ELSE "error"
StatusAfter(accepted) == IF accepted THEN "ok" ELSE "error"

ReceiveAnswer ==
  /\ stream # << >>
  /\ stream' = Tail(stream)
  /\ sendEvent' = TRUE
  /\ sendStatus' = StatusAfter(Head(stream).accepted)
  /\ IF Head(stream).accepted
     THEN slot' = Head(stream).answer /\ UNCHANGED statusOf
     ELSE statusOf' = Head(stream).answer.id /\ UNCHANGED slot
  /\ UNCHANGED <<sendLock, pc, request, results, requests, strays>>

(* A message that answers no request cannot be decoded, or names a channel *)
(* that is not set up.                                                     *)
ReceiveStray ==
  /\ strays < MaxStrays
  /\ strays' = strays + 1
  /\ sendEvent' = TRUE /\ sendStatus' = "error" /\ statusOf' = 0
  /\ UNCHANGED <<sendLock, pc, request, stream, slot, results, requests>>

---------------------------------------------------------------------------
ThreadStep(t) ==
  Wake(t) \/ TimeOut(t) \/ TakeError(t) \/ TakeResponse(t) \/ RejectResponse(t)

TransNext ==
  \/ ReceiveAnswer
  \/ ReceiveStray
  \/ \E t \in Threads : ThreadStep(t) \/ \E kind \in Kinds : Send(t, kind)

TransSpec == TransInit /\ [][TransNext]_transVars

---------------------------------------------------------------------------
(* Properties.                                                             *)

Message == [type : Types \union {"none"}, channel : Int, id : Nat]

(* Type invariant of the protocol's state and history.                     *)
TransTypeOK ==
  /\ sendLock \subseteq Threads
  /\ pc \in [Threads -> {"idle", "waiting", "woken"}]
  /\ request \in [Threads -> Message]
  /\ stream \in Seq([answer : Message, accepted : BOOLEAN])
  /\ sendEvent \in BOOLEAN /\ sendStatus \in {"ok", "error"}
  /\ slot \in Message
  /\ \A r \in results : /\ r.asked \in Message /\ r.answer \in Message
                        /\ r.status \in {"ok", "error", "timeout"}
  /\ {statusOf, requests, strays} \subseteq Nat

(* One transaction at a time: a thread is in a transaction exactly while   *)
(* it holds the send lock, whatever went wrong in it.                      *)
LockHeldInTransaction == \A t \in Threads : pc[t] # "idle" <=> sendLock = {t}

(* A message is handed to one caller only, who frees it: the slot, the     *)
(* stream and the callers never share one.                                 *)
Owners(id) ==
  {r \in results : r.status = "ok" /\ r.answer.id = id}
HandedOverOnce ==
  \A r \in results : r.status = "ok" /\ r.answer.type # "calibration" =>
    /\ Owners(r.answer.id) = {r}
    /\ slot.id # r.answer.id
    /\ \A i \in DOMAIN stream : stream[i].answer.id # r.answer.id

(* While no wait has timed out and no error came out of turn, the answer a *)
(* transaction ends with is the answer to its own request.                 *)
InSequence == strays = 0 /\ \A r \in results : r.status # "timeout"
OwnAnswer == \A r \in results : r.status # "timeout" => r.answer.id = r.asked.id
OwnAnswerInSequence == InSequence => OwnAnswer

(* No wakeup is lost: a thread that waits has its event set, or its answer *)
(* has still to come, whatever late answers and errors it was woken for.   *)
NoLostAnswer ==
  \A t \in Threads : pc[t] = "waiting" =>
    sendEvent \/ \E i \in DOMAIN stream : stream[i].answer = request[t]

(* "Commands and responses are sequential so we only need a single         *)
(* instance": the answer a transaction ends with is the answer to its own  *)
(* request, whatever happened to earlier ones.                             *)
AnswersOwnRequest == OwnAnswer
============================================================================
