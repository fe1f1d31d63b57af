----------------------------- MODULE SmallPatches -----------------------------
(***************************************************************************)
(* The patches that keep a few variables of their own, side by side: aim   *)
(* alignment, morph compaction, scoped weapons and the window's size.      *)
(***************************************************************************)
EXTENDS AimAlignment, MorphCompaction, ScopedWeapon, GameWindow

patchesVars == <<aimVars, morphVars, scopeVars, windowVars>>

PatchesInit == AimInit /\ MorphInit /\ ScopeInit /\ WindowInit

\* A step of one of them, which the others do not see.
StepOf(patch) ==
  \/ patch = "aim" /\ AimNext /\ UNCHANGED <<morphVars, scopeVars, windowVars>>
  \/ patch = "morphs" /\ MorphNext /\ UNCHANGED <<aimVars, scopeVars, windowVars>>
  \/ patch = "scope" /\ ScopeNext /\ UNCHANGED <<aimVars, morphVars, windowVars>>
  \/ patch = "window" /\ WindowNext /\ UNCHANGED <<aimVars, morphVars, scopeVars>>

PatchesNext == \E patch \in {"aim", "morphs", "scope", "window"} : StepOf(patch)

PatchesSpec == PatchesInit /\ [][PatchesNext]_patchesVars

\* The small patches do what they are for, and nothing else.
SmallPatchesRight == AimAligned /\ MorphsKept /\ ZoomKept /\ SizeIsOwn
=============================================================================
