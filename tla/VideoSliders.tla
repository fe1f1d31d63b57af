----------------------------- MODULE VideoSliders -----------------------------
(***************************************************************************)
(* The field-of-view and combat-text sliders that the patch clones from    *)
(* the brightness slider of the retail video settings                      *)
(* (src/src/ClientPatches/UI/FovSlider), with the two preferences and      *)
(* their storage (EngineConfig, CombatTextScalePatch).                     *)
(*                                                                         *)
(* Everything runs on the game thread.  Each hook is one step, except the  *)
(* button's: the retail handler it calls may close the settings, open them *)
(* again and attach a new player before it returns (Press, ButtonReturns). *)
(*                                                                         *)
(* One settings scene exists at a time, and the patch's two sliders die    *)
(* with it.  The engine may place the next scene, or its brightness        *)
(* slider, at an address used before, but not both at once (SceneBuilt).   *)
(***************************************************************************)
EXTENDS Integers

CONSTANTS
  Null,
  Scenes,       \* addresses a VideoSettings scene may have
  Gammas,       \* addresses its brightness slider may have
  Controllers,  \* addresses a PlayerController may have
  Limits,       \* minimum, default and maximum of each preference
  Stored,       \* what the configuration may hold at first: integers, Missing, Invalid
  Missing, Invalid,
  MaxScenes     \* bound on the scenes opened

Kinds == {"fov", "text"}

ASSUME LimitsAssumption ==
  \A k \in Kinds :
    /\ Limits[k].min \in Nat \ {0} /\ Limits[k].default \in Nat /\ Limits[k].max \in Nat
    /\ Limits[k].min <= Limits[k].default /\ Limits[k].default <= Limits[k].max

ASSUME StoredAssumption ==
  /\ Stored \subseteq Int \cup {Missing, Invalid}
  /\ Missing \notin Int /\ Invalid \notin Int /\ Missing # Invalid

ASSUME AddressesAssumption ==
  /\ Null \notin Int \cup Scenes \cup Gammas \cup Controllers
  /\ MaxScenes \in Nat

VARIABLES
  scene,      \* the settings scene the engine has now
  controls,   \* the patch's sliders in that scene
  ui,         \* g_ui
  preferred,  \* g_preferredFov (0: none) and g_scalePercent
  config,     \* the preferences in TgEngine.ini
  player,     \* the local player's controller
  frame,      \* the button handler in progress
  confirmed,  \* history: what the labels said at the last Apply
  misused,    \* history: a hook touched a slider that no longer exists
  opened      \* scenes opened so far

vars == <<scene, controls, ui, preferred, config, player, frame, confirmed, misused, opened>>
-----------------------------------------------------------------------------
(* Settings *)

Clamp(k, v) ==
  CASE v < Limits[k].min -> Limits[k].min
    [] v > Limits[k].max -> Limits[k].max
    [] OTHER -> v

\* A slider's position is counted in halves: the nearest integer, halves up.
FromSlider(k, position) == Clamp(k, (position + 1) \div 2)
Positions(k) == 2 * Limits[k].min .. 2 * Limits[k].max

Unset == [fov |-> 0, text |-> Limits["text"].default]
\* Deliberate fault, used by no specification: stored values are taken as they are.
LoadRaw(k) == IF config[k] \in {Missing, Invalid} THEN Unset[k] ELSE config[k]
Load(k) == IF config[k] \in {Missing, Invalid} THEN Unset[k] ELSE Clamp(k, config[k])
Initialize == [k \in Kinds |-> Load(k)]

\* The value a new slider starts with.
InitialValue(k) ==
  IF preferred[k] = 0 THEN Limits[k].default ELSE Clamp(k, preferred[k])
-----------------------------------------------------------------------------
(* The scene and its sliders *)

NoScene == [at |-> Null, gamma |-> Null, phase |-> "none"]
Running == scene.phase \in {"opening", "shown"}

\* A clone as it is created: hidden, its delegate cleared, no text of its own.
Hidden(k) == [live |-> TRUE, position |-> 2 * InitialValue(k), label |-> Null, target |-> Null]
Shown(k)  == [Hidden(k) EXCEPT !.label = InitialValue(k), !.target = scene.at]
Gone      == [k \in Kinds |-> [live |-> FALSE, position |-> 0, label |-> Null, target |-> Null]]

NoUi == [scene |-> Null, gamma |-> Null, attempted |-> FALSE, ready |-> FALSE]
NoPlayer == [at |-> Null, pawn |-> FALSE, fov |-> 0, told |-> TRUE]

\* IsControlReady: both widgets are registered and bound to the scene.
IsControlReady(k, s) == controls[k].live /\ controls[k].target = s

\* g_ui describes the scene the engine calls.
SameScene == ui.scene = scene.at /\ ui.gamma = scene.gamma

\* The early returns of EnsureUi: nothing to clone from, done, or tried before.
NothingToBuild ==
  \/ scene.gamma = Null
  \/ SameScene /\ ui.ready /\ \A k \in Kinds : IsControlReady(k, scene.at)
  \/ SameScene /\ ui.attempted

\* EnsureUi builds both sliders, or fails before the first, or between the two
\* and leaves a hidden clone; either way it does not try this scene again.
Build ==
  LET tried == [scene |-> scene.at, gamma |-> scene.gamma, attempted |-> TRUE, ready |-> FALSE] IN
  \/ ui' = tried /\ UNCHANGED controls
  \/ ui' = tried /\ controls' = [controls EXCEPT !["fov"] = Hidden("fov")]
  \/ ui' = [tried EXCEPT !.ready = TRUE] /\ controls' = [k \in Kinds |-> Shown(k)]

EnsureUi == IF NothingToBuild THEN UNCHANGED <<ui, controls>> ELSE Build

\* The player can use a scene once it is complete and has been drawn.
Drawn == scene' = IF scene.gamma = Null THEN scene ELSE [scene EXCEPT !.phase = "shown"]

Fixup ==
  /\ Running
  /\ EnsureUi /\ Drawn
  /\ UNCHANGED <<preferred, config, player, frame, confirmed, misused, opened>>

\* The retail Fixup ended with the scene destroyed.
FixupLosesScene ==
  /\ Running
  /\ scene' = NoScene /\ controls' = Gone
  /\ ui' = IF ui.scene = scene.at THEN NoUi ELSE ui
  /\ UNCHANGED <<preferred, config, player, frame, confirmed, misused, opened>>

Tick ==
  /\ Running
  /\ IF ~SameScene \/ (~ui.ready /\ ~ui.attempted)
       THEN EnsureUi
       ELSE UNCHANGED <<ui, controls>>
  /\ Drawn
  /\ UNCHANGED <<preferred, config, player, frame, confirmed, misused, opened>>
-----------------------------------------------------------------------------
(* The engine: scenes and players come and go *)

Open(s) ==
  /\ scene.phase \in {"none", "closed"} /\ opened < MaxScenes
  /\ scene' = [at |-> s, gamma |-> Null, phase |-> "opening"]
  /\ controls' = Gone
  /\ opened' = opened + 1
  /\ UNCHANGED <<ui, preferred, config, player, frame, confirmed, misused>>

SceneBuilt(g) ==
  /\ scene.phase = "opening" /\ scene.gamma = Null
  /\ <<scene.at, g>> # <<ui.scene, ui.gamma>>
  /\ scene' = [scene EXCEPT !.gamma = g]
  /\ UNCHANGED <<controls, ui, preferred, config, player, frame, confirmed, misused, opened>>

Close ==
  /\ scene.phase = "shown"
  /\ scene' = [scene EXCEPT !.phase = "closed"]
  /\ UNCHANGED <<controls, ui, preferred, config, player, frame, confirmed, misused, opened>>

Reopen ==
  /\ scene.phase = "closed"
  /\ scene' = [scene EXCEPT !.phase = "shown"]
  /\ UNCHANGED <<controls, ui, preferred, config, player, frame, confirmed, misused, opened>>

Collect ==
  /\ scene.phase = "closed"
  /\ scene' = NoScene /\ controls' = Gone
  /\ UNCHANGED <<ui, preferred, config, player, frame, confirmed, misused, opened>>

\* A new controller has its pawn later, and loses it when the player dies.
PawnChanges ==
  /\ player.at # Null
  /\ player' = [player EXCEPT !.pawn = ~@]
  /\ UNCHANGED <<scene, controls, ui, preferred, config, frame, confirmed, misused, opened>>
-----------------------------------------------------------------------------
(* Players and buttons *)

\* A controller that is registered and has a pawn.
HasGameplayPawn(c) == c # Null /\ c = player.at /\ player.pawn

\* The console command sets the controller's FOV; told: it has had the last one.
ExecuteFovCommand(v) == [player EXCEPT !.fov = v, !.told = TRUE]

\* A controller as the game attaches it, with the game's own FOV (0), and what
\* the patch makes of it: the preference, if there is one.
Attached(c) == [at |-> c, pawn |-> FALSE, fov |-> 0, told |-> TRUE]
Reapplied(c) == [Attached(c) EXCEPT !.fov = preferred["fov"]]

SetPlayer(c) ==
  /\ player' = Reapplied(c)
  /\ UNCHANGED <<scene, controls, ui, preferred, config, frame, confirmed, misused, opened>>

\* The player moves a slider, and the engine calls the brightness handler the
\* slider was bound to; the hook answers for its own sliders (SyncLabelFromSlider).
Drag(k, position) ==
  /\ scene.phase = "shown" /\ frame = Null
  /\ controls[k].live /\ controls[k].target = scene.at
  /\ LET own == ui.ready /\ ui.scene = scene.at
         moved == [controls EXCEPT ![k].position = position]
     IN  controls' = IF own THEN [moved EXCEPT ![k].label = FromSlider(k, position)] ELSE moved
  /\ UNCHANGED <<scene, ui, preferred, config, player, frame, confirmed, misused, opened>>

\* SelectedFov, SelectedCombatTextScale
HasSelection(s) == ui.ready /\ ui.scene = s
Selected(k, s) == IF HasSelection(s) THEN FromSlider(k, controls[k].position) ELSE 0

GameplayController == IF player.pawn THEN player.at ELSE Null

\* Before it calls the retail handler, the hook reads what Apply will need.
Press(target) ==
  /\ scene.phase = "shown" /\ frame = Null
  /\ frame' =
       [scene |-> scene.at, target |-> target,
        selected |-> [k \in Kinds |-> IF target = "apply" THEN Selected(k, scene.at) ELSE 0],
        shows |-> [k \in Kinds |-> IF HasSelection(scene.at) THEN controls[k].label ELSE Null],
        controller |-> IF target = "apply" THEN GameplayController ELSE Null]
  /\ misused' = (misused \/ /\ target = "apply" /\ HasSelection(scene.at)
                            /\ \E k \in Kinds : ~controls[k].live)
  /\ UNCHANGED <<scene, controls, ui, preferred, config, player, confirmed, opened>>

\* Deliberate fault, used by no specification: the scene's address is enough.
MayUpdateByScene(k) == ui.ready /\ ui.scene = frame.scene

\* After the retail handler, the sliders may be other ones, or none.
MayUpdate(k) == ui.ready /\ ui.scene = frame.scene /\ IsControlReady(k, frame.scene)

\* Deliberate fault, used by no specification: the labels are forgotten.
MoveSliders(value) ==
  /\ controls' = [k \in Kinds |->
       IF value[k] # 0 /\ MayUpdate(k)
         THEN [controls[k] EXCEPT !.position = 2 * value[k]]
         ELSE controls[k]]
  /\ UNCHANGED misused

\* Values to give to sliders, where there is one (0: leave it alone).
UpdateSliders(value) ==
  LET updated == {k \in Kinds : value[k] # 0 /\ MayUpdate(k)} IN
  /\ controls' = [k \in Kinds |->
       IF k \in updated
         THEN [controls[k] EXCEPT !.position = 2 * value[k], !.label = value[k]]
         ELSE controls[k]]
  /\ misused' = (misused \/ \E k \in updated : ~controls[k].live)

\* Deliberate fault, used by no specification: the selection is read after the
\* retail handler.
AppliedLate == [k \in Kinds |-> Selected(k, frame.scene)]

\* What Apply applies: the selection made before the retail handler ran.
Applied == [k \in Kinds |-> IF frame.selected[k] = 0 THEN 0 ELSE Clamp(k, frame.selected[k])]

\* SaveInt writes through the engine's configuration, if there is one (saved).
SaveInt(k, value, saved) == IF saved THEN value ELSE config[k]

\* Each preference is set, then saved.
Remember(chosen, saved) ==
  /\ preferred' = [k \in Kinds |-> IF k \in chosen THEN Applied[k] ELSE preferred[k]]
  /\ config' = [k \in Kinds |-> IF k \in chosen THEN SaveInt(k, Applied[k], saved) ELSE config[k]]

\* ApplyFovPreference, then ApplyCombatTextPreference.  A player without a
\* pawn is not told of the new FOV, here or later.
Apply(saved) ==
  LET chosen == {k \in Kinds : Applied[k] # 0} IN
  /\ UpdateSliders(Applied)
  /\ Remember(chosen, saved)
  /\ player' = IF "fov" \notin chosen \/ player.at = Null THEN player
               ELSE IF HasGameplayPawn(frame.controller) THEN ExecuteFovCommand(Applied["fov"])
               ELSE [player EXCEPT !.told = FALSE]
  /\ confirmed' = [k \in Kinds |->
       IF frame.shows[k] = Null THEN confirmed[k]
                                ELSE [value |-> frame.shows[k], saved |-> saved]]

\* ResetSlidersToDefaults moves the sliders; the preferences wait for Apply.
ResetSliders ==
  /\ UpdateSliders([k \in Kinds |-> Limits[k].default])
  /\ UNCHANGED <<preferred, config, player, confirmed>>

ButtonReturns(handled, saved) ==
  /\ frame # Null
  /\ CASE ~handled -> UNCHANGED <<controls, preferred, config, player, confirmed, misused>>
       [] handled /\ frame.target = "apply" -> Apply(saved)
       [] handled /\ frame.target = "reset" -> ResetSliders
  /\ frame' = Null
  /\ UNCHANGED <<scene, ui, opened>>

\* The game is closed, or crashes, and is started again.
Restart ==
  /\ scene' = NoScene /\ controls' = Gone /\ ui' = NoUi /\ frame' = Null
  /\ player' = NoPlayer
  /\ preferred' = Initialize
  /\ confirmed' = [k \in Kinds |->
       IF confirmed[k] # Null /\ confirmed[k].saved THEN confirmed[k] ELSE Null]
  /\ UNCHANGED <<config, misused, opened>>
-----------------------------------------------------------------------------
Init ==
  /\ scene = NoScene /\ controls = Gone /\ ui = NoUi
  /\ config \in [Kinds -> Stored]
  /\ preferred = Initialize
  /\ player = NoPlayer /\ frame = Null
  /\ confirmed = [k \in Kinds |-> Null]
  /\ misused = FALSE /\ opened = 0

Next ==
  \/ Fixup \/ FixupLosesScene \/ Tick
  \/ \E s \in Scenes : Open(s)
  \/ \E g \in Gammas : SceneBuilt(g)
  \/ Close \/ Reopen \/ Collect
  \/ \E c \in Controllers : SetPlayer(c)
  \/ PawnChanges
  \/ \E k \in Kinds : \E position \in Positions(k) : Drag(k, position)
  \/ \E target \in {"apply", "reset"} : Press(target)
  \/ \E handled, saved \in BOOLEAN : ButtonReturns(handled, saved)
  \/ Restart

Spec == Init /\ [][Next]_vars
-----------------------------------------------------------------------------
(* Properties *)

Values(k) == Limits[k].min .. Limits[k].max

\* Type invariant: a preference and a label are always within the limits of
\* their slider, whatever the configuration holds.
SlidersTypeOK ==
  /\ scene \in [at : Scenes \cup {Null}, gamma : Gammas \cup {Null},
                phase : {"none", "opening", "shown", "closed"}]
  /\ \A k \in Kinds :
       /\ controls[k] \in [live : BOOLEAN, position : Positions(k) \cup {0},
                           label : Values(k) \cup {Null}, target : Scenes \cup {Null}]
       /\ preferred[k] \in Values(k) \cup {Unset[k]}
       /\ config[k] \in Stored \cup Values(k)
  /\ ui \in [scene : Scenes \cup {Null}, gamma : Gammas \cup {Null},
             attempted : BOOLEAN, ready : BOOLEAN]
  /\ player \in [at : Controllers \cup {Null}, pawn : BOOLEAN,
                 fov : Values("fov") \cup {0}, told : BOOLEAN]
  /\ misused \in BOOLEAN /\ opened \in 0 .. MaxScenes

\* A slider the player can move always says in its label the value that Apply
\* would take from it, after drags, Apply, Reset and rebuilt scenes.
LabelsMatchSliders ==
  \A k \in Kinds :
    controls[k].live /\ controls[k].target # Null =>
      controls[k].label = FromSlider(k, controls[k].position)

\* The hooks never read or write a slider that died with its scene, although
\* they keep the pointers across the retail handlers and the engine's closing,
\* collecting and rebuilding of scenes at addresses used before.
WidgetsTouchedAreLive == ~misused

\* What the player confirmed with Apply is what the label said when the button
\* was pressed, whatever the retail handler did to the scene since; it stays
\* the preference, also after a restart if it could be saved.  The game shows
\* it to every player attached since, and at once if the player had a pawn.
\* Whatever the file held, no preference is out of its bounds.
ConfirmedIsKept ==
  /\ \A k \in Kinds : preferred[k] \in Values(k) \cup {Unset[k]}
  /\ \A k \in Kinds : confirmed[k] # Null => preferred[k] = confirmed[k].value
  /\ player.at # Null /\ player.told => player.fov = preferred["fov"]
=============================================================================
