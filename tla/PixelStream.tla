---------------------------- MODULE PixelStream ----------------------------
(***************************************************************************)
(* What the mapping mode 1 double buffer promises the Handel user: a       *)
(* bounded first-in first-out stream of pixels.  A pixel that was stored   *)
(* is handed over at most once, in the order of arrival, and only the user *)
(* (by releasing a buffer without having read it) or a new run discards    *)
(* it.                                                                     *)
(***************************************************************************)
EXTENDS Integers, Sequences

CONSTANT Capacity

VARIABLES pending,     \* pixels stored and not handed over yet
          taken        \* pixels handed over in this run

streamVars == <<pending, taken>>

StreamInit == pending = << >> /\ taken = << >>

Rest(k) == SubSeq(pending, k + 1, Len(pending))

(* One pixel, any pixel, joins the end.                                    *)
Store ==
  /\ Len(pending) < Capacity
  /\ pending' # << >>
  /\ pending' = Append(pending, pending'[Len(pending')])
  /\ UNCHANGED taken

HandOver(k) ==
  /\ taken' = taken \o SubSeq(pending, 1, k)
  /\ pending' = Rest(k)

Discard(k) ==
  /\ pending' = Rest(k)
  /\ UNCHANGED taken

NewRun == pending' = << >> /\ taken' = << >>

StreamNext ==
  \/ Store
  \/ \E k \in 1 .. Len(pending) : HandOver(k) \/ Discard(k)
  \/ NewRun

StreamSpec == StreamInit /\ [][StreamNext]_streamVars
============================================================================
