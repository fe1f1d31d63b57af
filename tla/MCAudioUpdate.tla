---------------------------- MODULE MCAudioUpdate ----------------------------
(***************************************************************************)
(* Constants for the run of the audio patch: three ticks a second, at most *)
(* one pass a second, and a window of two seconds.                         *)
(***************************************************************************)
EXTENDS AudioUpdate, TLC

CONSTANTS d1, d2

TwoDevices == {d1, d2}
MCCapacities == {1, 3}
DeviceSymmetry == Permutations(TwoDevices)
=============================================================================
