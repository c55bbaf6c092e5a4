---------------------------- MODULE MCModuleRun -----------------------------
(***************************************************************************)
(* Channels for the model checker: two modules, of two channels each, one  *)
(* channel of the second not calibrated.                                   *)
(***************************************************************************)
EXTENDS ModuleRun

CONSTANTS m1, m2

SetOrder == <<<<m1, 0>>, <<m1, 1>>, <<m2, 0>>, <<m2, 1>>>>
AllButOne == {<<m1, 0>>, <<m1, 1>>, <<m2, 1>>}
=============================================================================
