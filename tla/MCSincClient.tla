---------------------------- MODULE MCSincClient ----------------------------
(***************************************************************************)
(* The two layers of the connection to a module: the stream that is cut    *)
(* into messages and, above it, the transactions of two threads.  Neither  *)
(* layer's state is the other's, so one is run at a time.                  *)
(*                                                                         *)
(* Requests: one of each type, the first naming no channel and answered    *)
(* for the whole unit.  Messages without content, with a marker in it and  *)
(* with a whole packet in it; between packets half a marker, a marker      *)
(* alone, one with no length and with too great a length, and a packet of  *)
(* another code.                                                           *)
(***************************************************************************)
EXTENDS SincTransaction, SincStream

OneOfEach ==
  {[type |-> "success", channel |-> -1], [type |-> "calibration", channel |-> 1],
   [type |-> "param", channel |-> 1]}

MCContents == {<<>>, <<8, 9>>, <<8, 9, 2, 3, 1>>}
MCNoise == {<<12, 12, 12>>, <<8>>, <<8, 9>>, <<8, 9, 0>>, <<8, 9, 12>>, <<8, 9, 3, 1, 8, 9>>}

VARIABLE layer  \* the layer that runs

ClientInit == layer \in {"stream", "transactions"} /\ TransInit /\ StreamInit

ClientNext ==
  /\ \/ layer = "stream" /\ StreamNext /\ UNCHANGED transVars
     \/ layer = "transactions" /\ TransNext /\ UNCHANGED streamVars
  /\ UNCHANGED layer

clientVars == <<layer, transVars, streamVars>>

(* The fairness of SincStream, while its layer runs.                       *)
ClientSpec ==
  /\ ClientInit /\ [][ClientNext]_clientVars
  /\ WF_clientVars(layer = "stream" /\ Reader /\ UNCHANGED <<layer, transVars>>)
  /\ SF_clientVars(layer = "stream" /\ Read /\ UNCHANGED <<layer, transVars>>)
=============================================================================
