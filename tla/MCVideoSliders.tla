---------------------------- MODULE MCVideoSliders ----------------------------
(***************************************************************************)
(* Constants for the run of the video sliders: the smallest limits that    *)
(* leave a default on either side, and stored values beyond both ends.     *)
(***************************************************************************)
EXTENDS VideoSliders, TLC

CONSTANTS s1, s2, g1, g2, c1, c2

MCScenes == {s1, s2}
MCGammas == {g1, g2}
MCControllers == {c1, c2}
MCLimits == [fov  |-> [min |-> 2, default |-> 2, max |-> 3],
             text |-> [min |-> 1, default |-> 2, max |-> 2]]
MCStored == {Missing, Invalid, 0, 4}
AddressSymmetry ==
  Permutations(MCScenes) \cup Permutations(MCGammas) \cup Permutations(MCControllers)
=============================================================================
