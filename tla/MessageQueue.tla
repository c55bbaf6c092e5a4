---------------------------- MODULE MessageQueue ----------------------------
(***************************************************************************)
(* What a framed connection promises its reader: the messages the other    *)
(* side sent, each once, whole and in order.                               *)
(***************************************************************************)
EXTENDS Sequences

CONSTANT Message

VARIABLES
  queue,  \* messages sent and not yet taken
  taken   \* the last message taken, <<>> before the first

QueueInit == queue = <<>> /\ taken = <<>>

Send == \E m \in Message : queue' = Append(queue, m) /\ UNCHANGED taken

Take ==
  /\ queue # <<>>
  /\ taken' = <<Head(queue)>>
  /\ queue' = Tail(queue)

QueueSpec == QueueInit /\ [][Send \/ Take]_<<queue, taken>>
=============================================================================
