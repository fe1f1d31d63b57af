----------------------------- MODULE AimAlignment -----------------------------
(***************************************************************************)
(* The aim of a player who uses a jetpack (JetpackAimAlignmentPatch.cpp):  *)
(* the view rotation the game returns is replaced by the controller's,     *)
(* shake added, without roll.                                              *)
(***************************************************************************)
EXTENDS Integers

CONSTANT Angles   \* components of rotators: any 32-bit integers

ASSUME AimAssumption == Angles \subseteq Int

VARIABLES
  jetting,   \* the controller is in the state PlayerJetting
  rotation,  \* Controller.Rotation
  shake,     \* Controller.ShakeRotation
  view       \* the rotation the last call returned

aimVars == <<jetting, rotation, shake, view>>

Rotator == [pitch : Angles, yaw : Angles, roll : Angles]
Turn == 65536

\* Deliberate fault, used by no specification: the sum is not wrapped.
PlainSum(lhs, rhs) == lhs + rhs

\* The sum wraps to 32 bits, which 16 bits of it do not show.
AddRotatorComponents(lhs, rhs) ==
  LET wrapped == (lhs + rhs) % Turn
  IN  IF wrapped > Turn \div 2 - 1 THEN wrapped - Turn ELSE wrapped

CorrectedViewRotation ==
  [pitch |-> AddRotatorComponents(rotation.pitch, shake.pitch),
   yaw |-> AddRotatorComponents(rotation.yaw, shake.yaw),
   roll |-> 0]

\* Whether the player jets is asked before the game computes its rotation,
\* which may end the flight.
GetViewPoint ==
  /\ \E retail \in Rotator :
       view' = [by |-> IF jetting THEN "corrected" ELSE "retail", retail |-> retail,
                rotation |-> IF jetting THEN CorrectedViewRotation ELSE retail]
  /\ jetting' \in IF jetting THEN BOOLEAN ELSE {FALSE}
  /\ UNCHANGED <<rotation, shake>>

Turned == /\ jetting' \in BOOLEAN
          /\ \/ rotation' \in Rotator /\ UNCHANGED shake
             \/ shake' \in Rotator /\ UNCHANGED rotation
          /\ view' = [by |-> "none"]

AimInit == /\ jetting = FALSE /\ view = [by |-> "none"]
           /\ rotation \in {[pitch |-> 0, yaw |-> 0, roll |-> 0]} /\ shake = rotation

AimNext == (view.by # "none" /\ Turned) \/ (view.by = "none" /\ GetViewPoint)

AimSpec == AimInit /\ [][AimNext]_aimVars

Same(a, b) == (a - b) % Turn = 0
Normal(a) == a >= -(Turn \div 2) /\ a < Turn \div 2

\* A corrected view points where the controller does, shake included, in
\* components the engine's rotators use and never rolled; any other view is
\* the game's.
AimAligned ==
  /\ view.by = "retail" => view.rotation = view.retail
  /\ view.by = "corrected" =>
       /\ Same(view.rotation.pitch, rotation.pitch + shake.pitch) /\ Normal(view.rotation.pitch)
       /\ Same(view.rotation.yaw, rotation.yaw + shake.yaw) /\ Normal(view.rotation.yaw)
       /\ view.rotation.roll = 0
=============================================================================
