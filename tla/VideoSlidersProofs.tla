-------------------------- MODULE VideoSlidersProofs --------------------------
(***************************************************************************)
(* Proofs about the video sliders, for any limits, stored values, scenes,  *)
(* addresses and players: labels say what Apply takes, no hook touches a   *)
(* slider that died with its scene, and what was confirmed is kept.        *)
(*                                                                         *)
(* The argument is about g_ui, which outlives the scene it describes: a    *)
(* slider that a player can move exists only in the scene that g_ui        *)
(* describes, and while that scene can be used, the flag that says the     *)
(* sliders are ready is true of them.                                      *)
(***************************************************************************)
EXTENDS VideoSliders, TLAPS

-----------------------------------------------------------------------------
(***************************************************************************)
(* The invariant.                                                          *)
(***************************************************************************)
Sliders == [live : BOOLEAN, position : Int, label : Int \cup {Null}, target : Scenes \cup {Null}]
Confirmations == [value : Int, saved : BOOLEAN]
Frames == [scene : Scenes, target : {"apply", "reset"}, selected : [Kinds -> Int],
           shows : [Kinds -> Int \cup {Null}], controller : Controllers \cup {Null}]

\* What SlidersTypeOK leaves open: which of the variables are functions.
ShapesInv ==
  /\ controls \in [Kinds -> Sliders]
  /\ preferred \in [Kinds -> Int]
  /\ config \in [Kinds -> Int \cup {Missing, Invalid}]
  /\ confirmed \in [Kinds -> Confirmations \cup {Null}]
  /\ frame \in Frames \cup {Null}

\* A slider the player could move.
Bound(k) == controls[k].live /\ controls[k].target # Null
AllBound == \A k \in Kinds : controls[k].live /\ controls[k].target = scene.at

\* What a phase says of the scene: one that can be used is complete, and one
\* that is being built is not the one g_ui describes.
SceneInv ==
  /\ scene.phase # "none" => scene.at # Null
  /\ scene.phase \in {"shown", "closed"} => scene.gamma # Null
  /\ scene.phase = "opening" =>
       /\ scene.gamma = Null \/ ~SameScene
       /\ \A k \in Kinds : ~controls[k].live

\* Sliders are bound together, in the scene g_ui describes.
BoundInv ==
  \A k \in Kinds : Bound(k) =>
    scene.phase \in {"shown", "closed"} /\ SameScene /\ ui.ready /\ AllBound

\* The hooks may go by g_ui: in a scene the player can use, "ready" means that
\* both sliders are there.
ReadyInv ==
  scene.phase \in {"shown", "closed"} /\ ui.ready /\ ui.scene = scene.at => SameScene /\ AllBound

\* What the button's hook carries over the retail handler is what the labels said.
FrameInv ==
  frame # Null /\ frame.target = "apply" =>
    \A k \in Kinds :
      \/ frame.selected[k] = 0 /\ frame.shows[k] = Null
      \/ frame.selected[k] \in Values(k) /\ frame.shows[k] = frame.selected[k]

\* A confirmed value that could be saved is in the configuration.
SavedInv ==
  \A k \in Kinds :
    confirmed[k] # Null =>
      /\ confirmed[k].value \in Values(k)
      /\ confirmed[k].saved => config[k] = confirmed[k].value

SlidersInv ==
  /\ ShapesInv /\ SlidersTypeOK
  /\ SceneInv /\ BoundInv /\ ReadyInv /\ FrameInv /\ SavedInv
  /\ LabelsMatchSliders /\ WidgetsTouchedAreLive /\ ConfirmedIsKept

USE LimitsAssumption, StoredAssumption, AddressesAssumption

-----------------------------------------------------------------------------
(***************************************************************************)
(* Values and positions.                                                   *)
(***************************************************************************)
\* Limits leave room: a default and no zero.
LEMMA LimitsLeaveRoom ==
  ASSUME NEW k \in Kinds
  PROVE  /\ Limits[k].min \in Int /\ Limits[k].max \in Int /\ Limits[k].default \in Int
         /\ Limits[k].min >= 1 /\ Limits[k].default \in Values(k)
         /\ 0 \notin Values(k) /\ Values(k) \subseteq Int
BY DEF Values

\* Clamp brings every integer into the limits, and leaves those inside alone.
LEMMA ClampStaysInside ==
  ASSUME NEW k \in Kinds, NEW v \in Int
  PROVE  Clamp(k, v) \in Values(k) /\ (v \in Values(k) => Clamp(k, v) = v)
BY LimitsLeaveRoom DEF Clamp, Values

\* Rounding a position that stands for a value gives the value back.
LEMMA SliderRoundTrip ==
  ASSUME NEW k \in Kinds
  PROVE  /\ \A position \in Int : FromSlider(k, position) \in Values(k)
         /\ \A v \in Values(k) : FromSlider(k, 2 * v) = v /\ 2 * v \in Positions(k)
<1>1. ASSUME NEW position \in Int PROVE FromSlider(k, position) \in Values(k)
  <2>1. (position + 1) \div 2 \in Int
    OBVIOUS
  <2>2. QED
    BY <2>1, ClampStaysInside DEF FromSlider
<1>2. ASSUME NEW v \in Values(k) PROVE FromSlider(k, 2 * v) = v /\ 2 * v \in Positions(k)
  <2>1. v \in Int
    BY LimitsLeaveRoom
  <2>2. (2 * v + 1) \div 2 = v
    BY <2>1
  <2>3. FromSlider(k, 2 * v) = v
    BY <2>1, <2>2, ClampStaysInside DEF FromSlider
  <2>4. 2 * v \in Positions(k)
    BY <2>1, LimitsLeaveRoom DEF Values, Positions
  <2>5. QED
    BY <2>3, <2>4
<1>3. QED
  BY <1>1, <1>2

\* A position of a slider is an integer.
LEMMA PositionsAreIntegers ==
  ASSUME NEW k \in Kinds
  PROVE  Positions(k) \subseteq Int
BY LimitsLeaveRoom DEF Positions

\* A new slider starts with a value of its own range.
LEMMA InitialValueInside ==
  ASSUME NEW k \in Kinds, preferred[k] \in Int
  PROVE  InitialValue(k) \in Values(k)
BY LimitsLeaveRoom, ClampStaysInside DEF InitialValue

\* What is loaded is within the limits or the default, and what was saved is
\* loaded as it is.
LEMMA LoadStaysInside ==
  ASSUME NEW k \in Kinds, config[k] \in Int \cup {Missing, Invalid}
  PROVE  /\ Load(k) \in Values(k) \cup {Unset[k]} /\ Load(k) \in Int
         /\ config[k] \in Values(k) => Load(k) = config[k]
<1>1. Unset[k] \in Int
  BY LimitsLeaveRoom DEF Unset, Kinds
<1>2. CASE config[k] \in {Missing, Invalid}
  <2>1. config[k] \notin Values(k)
    BY <1>2, LimitsLeaveRoom
  <2>2. QED
    BY <1>1, <1>2, <2>1 DEF Load
<1>3. CASE config[k] \notin {Missing, Invalid}
  <2>1. config[k] \in Int
    BY <1>3
  <2>2. Load(k) = Clamp(k, config[k])
    BY <1>3 DEF Load
  <2>3. QED
    BY <2>1, <2>2, ClampStaysInside, LimitsLeaveRoom
<1>4. QED
  BY <1>2, <1>3

-----------------------------------------------------------------------------
(***************************************************************************)
(* The scene and its sliders: Fixup, Tick and the engine.                  *)
(***************************************************************************)
\* A slider given its text and its scene.
LEMMA SliderFinished ==
  ASSUME NEW slider \in Sliders, NEW v \in Int, NEW s \in Scenes
  PROVE  [slider EXCEPT !.label = v, !.target = s]
           = [live |-> slider.live, position |-> slider.position, label |-> v, target |-> s]
<1>1. [slider EXCEPT !.label = v, !.target = s] = [[slider EXCEPT !.label = v] EXCEPT !.target = s]
  BY DEF Sliders
<1>2. PICK labelled : labelled = [slider EXCEPT !.label = v]
  OBVIOUS
<1>3. labelled
        = [live |-> slider.live, position |-> slider.position, label |-> v, target |-> slider.target]
  BY <1>2 DEF Sliders
<1>4. [labelled EXCEPT !.target = s]
        = [live |-> slider.live, position |-> slider.position, label |-> v, target |-> s]
  BY <1>3
<1>5. QED
  BY <1>1, <1>2, <1>4

\* A hidden clone and a finished slider, as Build leaves them.
LEMMA ClonesAreSliders ==
  ASSUME NEW k \in Kinds, preferred[k] \in Int, scene.at \in Scenes
  PROVE  /\ Hidden(k) \in Sliders /\ Hidden(k).target = Null /\ Hidden(k).label = Null
         /\ Hidden(k).position \in Positions(k)
         /\ Shown(k) \in Sliders /\ Shown(k).live /\ Shown(k).target = scene.at
         /\ Shown(k).label \in Values(k) /\ Shown(k).position \in Positions(k)
         /\ Shown(k).label = FromSlider(k, Shown(k).position)
<1> DEFINE v == InitialValue(k)
<1>1. v \in Values(k) /\ v \in Int
  BY InitialValueInside, LimitsLeaveRoom
<1>2. 2 * v \in Positions(k) /\ FromSlider(k, 2 * v) = v /\ 2 * v \in Int
  BY <1>1, SliderRoundTrip
<1>3. Hidden(k) = [live |-> TRUE, position |-> 2 * v, label |-> Null, target |-> Null]
  BY DEF Hidden
<1> HIDE DEF v
<1>4. Hidden(k) \in Sliders
  BY <1>1, <1>2, <1>3 DEF Sliders
<1>5. Shown(k) = [live |-> Hidden(k).live, position |-> Hidden(k).position, label |-> v, target |-> scene.at]
  BY <1>1, <1>4, SliderFinished DEF Shown, v
<1>6. Shown(k) = [live |-> TRUE, position |-> 2 * v, label |-> v, target |-> scene.at]
  BY <1>3, <1>5
<1>7. QED
  BY <1>1, <1>2, <1>3, <1>6 DEF Sliders

\* What the bounds of one slider say of it.
SliderTyped(k) ==
  /\ controls[k].position \in Positions(k) \cup {0}
  /\ controls[k].label \in Values(k) \cup {Null}
  /\ controls[k].target \in Scenes \cup {Null}
  /\ controls[k].live \in BOOLEAN

UiType == [scene : Scenes \cup {Null}, gamma : Gammas \cup {Null}, attempted : BOOLEAN, ready : BOOLEAN]
SceneType == [at : Scenes \cup {Null}, gamma : Gammas \cup {Null},
              phase : {"none", "opening", "shown", "closed"}]

\* The part of the invariant about the scene, the sliders and g_ui.
WidgetsInv ==
  /\ controls \in [Kinds -> Sliders] /\ \A k \in Kinds : SliderTyped(k)
  /\ ui \in UiType /\ scene \in SceneType
  /\ SceneInv /\ BoundInv /\ ReadyInv /\ LabelsMatchSliders

\* The same, one part for each conjunct.
LEMMA WidgetsPart ==
  ASSUME SlidersInv
  PROVE  WidgetsInv
<1>1. /\ controls \in [Kinds -> Sliders]
      /\ SceneInv /\ BoundInv /\ ReadyInv /\ LabelsMatchSliders
      /\ SlidersTypeOK
  BY DEF SlidersInv, ShapesInv
<1>2. ui \in UiType /\ scene \in SceneType
  BY <1>1 DEF SlidersTypeOK, UiType, SceneType
<1>3. ASSUME NEW k \in Kinds PROVE SliderTyped(k)
  BY <1>1, <1>3 DEF SlidersTypeOK, SliderTyped
<1>4. QED
  BY <1>1, <1>2, <1>3 DEF WidgetsInv

\* A scene with no sliders.
LEMMA GoneIsBlank ==
  /\ Gone \in [Kinds -> Sliders]
  /\ \A k \in Kinds :
       /\ Gone[k].live = FALSE /\ Gone[k].position = 0 /\ Gone[k].label = Null /\ Gone[k].target = Null
<1>1. [live |-> FALSE, position |-> 0, label |-> Null, target |-> Null] \in Sliders
  BY DEF Sliders
<1>2. QED
  BY <1>1 DEF Gone

\* A blank set of sliders is in order with any g_ui.
LEMMA BlankInOrder ==
  ASSUME controls' = Gone, ui' \in UiType, scene' \in SceneType,
         scene'.phase \in {"none", "opening"},
         scene'.phase = "opening" => scene'.at # Null /\ scene'.gamma = Null
  PROVE  WidgetsInv'
<1>1. controls' \in [Kinds -> Sliders] /\ \A k \in Kinds : SliderTyped(k)'
  BY GoneIsBlank DEF SliderTyped
<1>2. \A k \in Kinds : ~controls'[k].live
  BY GoneIsBlank
<1>3. SceneInv'
  BY <1>2 DEF SceneInv
<1>4. BoundInv' /\ LabelsMatchSliders'
  BY <1>2 DEF BoundInv, Bound, LabelsMatchSliders
<1>5. ReadyInv'
  BY DEF ReadyInv
<1>6. QED
  BY <1>1, <1>3, <1>4, <1>5 DEF WidgetsInv

\* The phase matters only between usable and not.
LEMMA WidgetsSamePhase ==
  ASSUME WidgetsInv, UNCHANGED <<controls, ui>>, scene.phase \in {"shown", "closed"},
         scene' \in SceneType, scene'.at = scene.at, scene'.gamma = scene.gamma,
         scene'.phase \in {"shown", "closed"}
  PROVE  WidgetsInv'
<1>1. SameScene' <=> SameScene
  BY DEF SameScene
<1>2. AllBound' <=> AllBound
  BY DEF AllBound
<1>3. controls' \in [Kinds -> Sliders] /\ \A k \in Kinds : SliderTyped(k)'
  BY DEF WidgetsInv, SliderTyped
<1>4. SceneInv'
  BY DEF WidgetsInv, SceneInv
<1>5. BoundInv' /\ LabelsMatchSliders'
  BY <1>1, <1>2 DEF WidgetsInv, BoundInv, Bound, LabelsMatchSliders, FromSlider, Clamp
<1>6. ReadyInv'
  BY <1>1, <1>2 DEF WidgetsInv, ReadyInv
<1>7. QED
  BY <1>3, <1>4, <1>5, <1>6 DEF WidgetsInv

\* Nothing of all that changes.
LEMMA WidgetsUnchanged ==
  ASSUME WidgetsInv, UNCHANGED <<scene, controls, ui>>
  PROVE  WidgetsInv'
BY DEF WidgetsInv, SceneInv, BoundInv, Bound, ReadyInv, LabelsMatchSliders, SameScene, AllBound,
       SliderTyped, FromSlider, Clamp

\* Fixup or Tick of a scene that is complete: after it, g_ui describes the
\* scene, and "ready" is true of its sliders.
LEMMA EnsureUiInOrder ==
  ASSUME WidgetsInv, \A k \in Kinds : preferred[k] \in Int,
         Running, scene.gamma # Null, EnsureUi,
         scene' = [scene EXCEPT !.phase = "shown"]
  PROVE  WidgetsInv'
<1>1. /\ controls \in [Kinds -> Sliders] /\ ui \in UiType /\ scene \in SceneType
      /\ \A k \in Kinds : SliderTyped(k)
      /\ SceneInv /\ BoundInv /\ ReadyInv /\ LabelsMatchSliders
  BY DEF WidgetsInv
<1>2. /\ scene' \in SceneType /\ scene'.at = scene.at /\ scene'.gamma = scene.gamma
      /\ scene'.phase = "shown"
  BY <1>1 DEF SceneType
<1>3. scene.at \in Scenes /\ scene.at # Null
  BY <1>1 DEF SceneInv, Running, SceneType
<1>4. SceneInv'
  BY <1>2, <1>3 DEF SceneInv
<1>5. CASE UNCHANGED <<ui, controls>> /\ NothingToBuild
  <2>1. SameScene
    BY <1>5 DEF NothingToBuild
  <2>2. scene.phase = "shown"
    BY <1>1, <2>1 DEF SceneInv, Running
  <2>3. QED
    BY <1>2, <1>5, <2>2, WidgetsSamePhase
<1>6. CASE Build /\ ~NothingToBuild
  <2> DEFINE tried == [scene |-> scene.at, gamma |-> scene.gamma, attempted |-> TRUE, ready |-> FALSE]
  <2>1. \A k \in Kinds : ~Bound(k)
    <3> SUFFICES ASSUME NEW k \in Kinds, Bound(k) PROVE FALSE
      OBVIOUS
    <3>1. SameScene /\ ui.ready /\ AllBound
      BY <1>1 DEF BoundInv
    <3>2. \A j \in Kinds : IsControlReady(j, scene.at)
      BY <3>1 DEF AllBound, IsControlReady
    <3>3. QED
      BY <1>6, <3>1, <3>2 DEF NothingToBuild
  <2>2. tried \in UiType
    BY <1>1, <1>3 DEF UiType, SceneType
  <2>3. CASE ui' = tried /\ (UNCHANGED controls \/ controls' = [controls EXCEPT !["fov"] = Hidden("fov")])
    <3>1. "fov" \in Kinds
      BY DEF Kinds
    <3>2. Hidden("fov") \in Sliders /\ Hidden("fov").target = Null /\ Hidden("fov").label = Null
          /\ Hidden("fov").position \in Positions("fov")
      BY <1>3, <3>1, ClonesAreSliders
    <3>3. ASSUME NEW k \in Kinds
          PROVE  controls'[k] = controls[k] \/ (k = "fov" /\ controls'[k] = Hidden("fov"))
      BY <1>1, <2>3
    <3>4. controls' \in [Kinds -> Sliders]
      BY <1>1, <2>3, <3>2
    <3>5. ASSUME NEW k \in Kinds PROVE SliderTyped(k)' /\ ~Bound(k)'
      <4>1. CASE controls'[k] = controls[k]
        BY <1>1, <2>1, <4>1 DEF SliderTyped, Bound
      <4>2. CASE k = "fov" /\ controls'[k] = Hidden("fov")
        BY <3>2, <4>2 DEF SliderTyped, Bound, Sliders
      <4>3. QED
        BY <3>3, <4>1, <4>2
    <3>6. BoundInv' /\ LabelsMatchSliders'
      BY <3>5 DEF BoundInv, Bound, LabelsMatchSliders
    <3>7. ReadyInv'
      BY <2>3 DEF ReadyInv
    <3>8. QED
      BY <1>2, <1>4, <2>2, <2>3, <3>4, <3>5, <3>6, <3>7 DEF WidgetsInv
  <2>4. CASE ui' = [tried EXCEPT !.ready = TRUE] /\ controls' = [k \in Kinds |-> Shown(k)]
    <3>1. /\ ui' \in UiType /\ ui'.ready = TRUE /\ ui'.scene = scene.at /\ ui'.gamma = scene.gamma
      BY <2>2, <2>4 DEF UiType
    <3>2. ASSUME NEW k \in Kinds
          PROVE  /\ controls'[k] = Shown(k)
                 /\ Shown(k) \in Sliders /\ Shown(k).live /\ Shown(k).target = scene.at
                 /\ Shown(k).label \in Values(k) /\ Shown(k).position \in Positions(k)
                 /\ Shown(k).label = FromSlider(k, Shown(k).position)
      BY <1>3, <2>4, ClonesAreSliders
    <3>3. controls' \in [Kinds -> Sliders]
      BY <2>4, <3>2
    <3>4. ASSUME NEW k \in Kinds PROVE SliderTyped(k)'
      BY <1>3, <3>2 DEF SliderTyped, Sliders
    <3>5. SameScene'
      BY <1>2, <3>1 DEF SameScene
    <3>6. AllBound'
      BY <1>2, <3>2 DEF AllBound
    <3>7. BoundInv' /\ ReadyInv'
      BY <1>2, <3>1, <3>5, <3>6 DEF BoundInv, ReadyInv
    <3>8. LabelsMatchSliders'
      BY <3>2 DEF LabelsMatchSliders, FromSlider, Clamp
    <3>9. QED
      BY <1>2, <1>4, <3>1, <3>3, <3>4, <3>7, <3>8 DEF WidgetsInv
  <2>5. QED
    BY <1>6, <2>3, <2>4 DEF Build
<1>7. QED
  BY <1>5, <1>6 DEF EnsureUi

-----------------------------------------------------------------------------
(***************************************************************************)
(* Sliders that move: Drag, Apply and Reset.                               *)
(***************************************************************************)
\* A slider given a position, and then a text.
LEMMA SliderSet ==
  ASSUME NEW slider \in Sliders, NEW p \in Int, NEW v \in Int
  PROVE  /\ [slider EXCEPT !.position = p, !.label = v]
              = [live |-> slider.live, position |-> p, label |-> v, target |-> slider.target]
         /\ [[slider EXCEPT !.position = p] EXCEPT !.label = v]
              = [live |-> slider.live, position |-> p, label |-> v, target |-> slider.target]
<1>1. [slider EXCEPT !.position = p, !.label = v] = [[slider EXCEPT !.position = p] EXCEPT !.label = v]
  OBVIOUS
<1>2. PICK moved : moved = [slider EXCEPT !.position = p]
  OBVIOUS
<1>3. moved = [live |-> slider.live, position |-> p, label |-> slider.label, target |-> slider.target]
  BY <1>2 DEF Sliders
<1>4. [moved EXCEPT !.label = v]
        = [live |-> slider.live, position |-> p, label |-> v, target |-> slider.target]
  BY <1>3
<1>5. QED
  BY <1>1, <1>2, <1>4

\* A slider that is in order after it moved, and no less alive.
Moved(k) ==
  /\ controls'[k].live = controls[k].live /\ controls'[k].target = controls[k].target
  /\ \/ controls'[k] = controls[k]
     \/ /\ controls'[k].position \in Positions(k) /\ controls'[k].label \in Values(k)
        /\ controls'[k].label = FromSlider(k, controls'[k].position)

\* Sliders that only move stay in order.
LEMMA MovedInOrder ==
  ASSUME WidgetsInv, UNCHANGED <<scene, ui>>, controls' \in [Kinds -> Sliders],
         \A k \in Kinds : Moved(k)
  PROVE  WidgetsInv'
<1>1. SameScene' <=> SameScene
  BY DEF SameScene
<1>2. AllBound' <=> AllBound
  BY DEF AllBound, Moved
<1>3. ASSUME NEW k \in Kinds PROVE SliderTyped(k)'
  <2>1. SliderTyped(k) /\ Moved(k) /\ controls'[k] \in Sliders
    BY DEF WidgetsInv
  <2>2. QED
    BY <2>1 DEF SliderTyped, Moved, Sliders
<1>4. SceneInv'
  BY DEF WidgetsInv, SceneInv, SameScene, Moved
<1>5. BoundInv'
  BY <1>1, <1>2 DEF WidgetsInv, BoundInv, Bound, Moved
<1>6. ReadyInv'
  BY <1>1, <1>2 DEF WidgetsInv, ReadyInv
<1>7. LabelsMatchSliders'
  BY DEF WidgetsInv, LabelsMatchSliders, Moved, FromSlider, Clamp
<1>8. QED
  BY <1>3, <1>4, <1>5, <1>6, <1>7 DEF WidgetsInv

\* A slider the player drags is always one of g_ui's own, so its text follows.
LEMMA DragInOrder ==
  ASSUME WidgetsInv, NEW k \in Kinds, NEW position \in Positions(k), Drag(k, position)
  PROVE  WidgetsInv'
<1>1. /\ scene.phase = "shown" /\ controls[k].live /\ controls[k].target = scene.at
      /\ UNCHANGED <<scene, ui>>
  BY DEF Drag
<1>2. Bound(k)
  BY <1>1 DEF WidgetsInv, SceneInv, Bound
<1>3. ui.ready /\ ui.scene = scene.at
  BY <1>2 DEF WidgetsInv, BoundInv, SameScene
<1>4. controls' = [[controls EXCEPT ![k].position = position] EXCEPT ![k].label = FromSlider(k, position)]
  BY <1>3 DEF Drag
<1>5. position \in Int /\ FromSlider(k, position) \in Values(k) /\ FromSlider(k, position) \in Int
  BY PositionsAreIntegers, SliderRoundTrip, LimitsLeaveRoom
<1>6. controls \in [Kinds -> Sliders]
  BY DEF WidgetsInv
<1>7. controls'[k] = [[controls[k] EXCEPT !.position = position] EXCEPT !.label = FromSlider(k, position)]
  BY <1>4, <1>6
<1>8. controls'[k] = [live |-> controls[k].live, position |-> position,
                      label |-> FromSlider(k, position), target |-> controls[k].target]
  BY <1>5, <1>6, <1>7, SliderSet
<1>9. \A j \in Kinds : j # k => controls'[j] = controls[j]
  BY <1>4, <1>6
<1>10. DOMAIN controls' = Kinds /\ controls' = [j \in Kinds |-> controls'[j]]
  BY <1>4, <1>6
<1>11. controls'[k] \in Sliders
  BY <1>5, <1>6, <1>8 DEF Sliders
<1>12. controls' \in [Kinds -> Sliders]
  BY <1>6, <1>9, <1>10, <1>11
<1>13. \A j \in Kinds : Moved(j)
  BY <1>5, <1>8, <1>9 DEF Moved
<1>14. QED
  BY <1>1, <1>12, <1>13, MovedInOrder

\* Giving sliders values of their range keeps them in order and touches only
\* sliders that are there.
LEMMA UpdateInOrder ==
  ASSUME WidgetsInv, NEW value, \A k \in Kinds : value[k] \in Values(k) \cup {0},
         UpdateSliders(value), UNCHANGED <<scene, ui>>
  PROVE  WidgetsInv' /\ (misused' <=> misused)
<1> DEFINE updated == {k \in Kinds : value[k] # 0 /\ MayUpdate(k)}
<1>1. /\ controls' = [k \in Kinds |->
            IF k \in updated THEN [controls[k] EXCEPT !.position = 2 * value[k], !.label = value[k]]
                             ELSE controls[k]]
      /\ misused' = (misused \/ \E k \in updated : ~controls[k].live)
  BY DEF UpdateSliders
<1>2. \A k \in updated : controls[k].live
  BY DEF MayUpdate, IsControlReady
<1>3. controls \in [Kinds -> Sliders]
  BY DEF WidgetsInv
<1>4. ASSUME NEW k \in Kinds PROVE Moved(k) /\ controls'[k] \in Sliders
  <2>1. CASE k \in updated
    <3>1. value[k] \in Values(k) /\ value[k] \in Int
      BY <2>1, LimitsLeaveRoom
    <3>2. FromSlider(k, 2 * value[k]) = value[k] /\ 2 * value[k] \in Positions(k) /\ 2 * value[k] \in Int
      BY <3>1, SliderRoundTrip
    <3>3. controls'[k] = [live |-> controls[k].live, position |-> 2 * value[k], label |-> value[k],
                          target |-> controls[k].target]
      BY <1>1, <1>3, <2>1, <3>1, <3>2, SliderSet
    <3>4. controls[k] \in Sliders
      BY <1>3
    <3>5. QED
      BY <3>1, <3>2, <3>3, <3>4 DEF Moved, Sliders
  <2>2. CASE k \notin updated
    <3>1. controls'[k] = controls[k]
      BY <1>1, <2>2
    <3>2. QED
      BY <1>3, <3>1 DEF Moved
  <2>3. QED
    BY <2>1, <2>2
<1>5. controls' \in [Kinds -> Sliders]
  BY <1>1, <1>4
<1>6. WidgetsInv'
  BY <1>4, <1>5, MovedInOrder
<1>7. QED
  BY <1>1, <1>2, <1>6

\* What Apply gives to the sliders is in their range.
LEMMA AppliedInside ==
  ASSUME frame \in Frames
  PROVE  \A k \in Kinds : Applied[k] \in Values(k) \cup {0}
<1> SUFFICES ASSUME NEW k \in Kinds PROVE Applied[k] \in Values(k) \cup {0}
  OBVIOUS
<1>1. frame.selected[k] \in Int
  BY DEF Frames
<1>2. QED
  BY <1>1, ClampStaysInside DEF Applied

-----------------------------------------------------------------------------
(***************************************************************************)
(* Every step keeps the widgets in order.                                  *)
(***************************************************************************)
\* A button's hook, after the retail handler.
LEMMA ButtonKeepsWidgets ==
  ASSUME SlidersInv, NEW handled \in BOOLEAN, NEW saved \in BOOLEAN, ButtonReturns(handled, saved)
  PROVE  WidgetsInv' /\ (misused' <=> misused)
<1>1. WidgetsInv
  BY WidgetsPart
<1>2. frame \in Frames
  BY DEF SlidersInv, ShapesInv, ButtonReturns
<1>3. frame.target \in {"apply", "reset"} /\ UNCHANGED <<scene, ui>>
  BY <1>2 DEF Frames, ButtonReturns
<1>4. CASE ~handled
  <2>1. UNCHANGED <<controls, misused>>
    BY <1>4 DEF ButtonReturns
  <2>2. QED
    BY <1>1, <1>3, <2>1, WidgetsUnchanged
<1>5. CASE handled /\ frame.target = "apply"
  <2>1. UpdateSliders(Applied)
    BY <1>5 DEF ButtonReturns, Apply
  <2>2. QED
    BY <1>1, <1>2, <1>3, <2>1, AppliedInside, UpdateInOrder
<1>6. CASE handled /\ frame.target = "reset"
  <2>1. UpdateSliders([k \in Kinds |-> Limits[k].default])
    BY <1>6 DEF ButtonReturns, ResetSliders
  <2>2. \A k \in Kinds : [j \in Kinds |-> Limits[j].default][k] \in Values(k) \cup {0}
    BY LimitsLeaveRoom
  <2>3. QED
    BY <1>1, <1>3, <2>1, <2>2, UpdateInOrder
<1>7. QED
  BY <1>3, <1>4, <1>5, <1>6

\* The hooks that build, or find what they built.
LEMMA HooksKeepWidgets ==
  ASSUME SlidersInv, Fixup \/ Tick
  PROVE  WidgetsInv'
<1>1. WidgetsInv /\ \A k \in Kinds : preferred[k] \in Int
  BY WidgetsPart DEF SlidersInv, ShapesInv
<1>2. Running /\ Drawn
  BY DEF Fixup, Tick
<1>3. CASE scene.gamma = Null
  <2>1. UNCHANGED <<scene, ui, controls>>
    BY <1>2, <1>3 DEF Fixup, Tick, Drawn, EnsureUi, NothingToBuild
  <2>2. QED
    BY <1>1, <2>1, WidgetsUnchanged
<1>4. CASE scene.gamma # Null
  <2>1. scene' = [scene EXCEPT !.phase = "shown"]
    BY <1>2, <1>4 DEF Drawn
  <2>2. CASE EnsureUi
    BY <1>1, <1>2, <1>4, <2>1, <2>2, EnsureUiInOrder
  <2>3. CASE SameScene /\ UNCHANGED <<ui, controls>>
    <3>1. scene.phase = "shown"
      BY <1>1, <1>2, <1>4, <2>3 DEF WidgetsInv, SceneInv, Running
    <3>2. /\ scene' \in SceneType /\ scene'.at = scene.at /\ scene'.gamma = scene.gamma
          /\ scene'.phase = "shown"
      BY <1>1, <2>1 DEF WidgetsInv, SceneType
    <3>3. QED
      BY <1>1, <2>3, <3>1, <3>2, WidgetsSamePhase
  <2>4. QED
    BY <2>2, <2>3 DEF Fixup, Tick
<1>5. QED
  BY <1>3, <1>4

\* The engine's steps.
LEMMA EngineKeepsWidgets ==
  ASSUME SlidersInv,
         \/ FixupLosesScene \/ Collect \/ Close \/ Reopen \/ Restart
         \/ \E s \in Scenes : Open(s)
         \/ \E g \in Gammas : SceneBuilt(g)
  PROVE  WidgetsInv'
<1>1. WidgetsInv
  BY WidgetsPart
<1>2. ui \in UiType /\ scene \in SceneType /\ SceneInv /\ controls \in [Kinds -> Sliders]
      /\ \A k \in Kinds : SliderTyped(k)
  BY <1>1 DEF WidgetsInv
<1>3. NoUi \in UiType /\ NoScene \in SceneType /\ NoScene.phase = "none"
  BY DEF NoUi, NoScene, UiType, SceneType
<1>4. CASE FixupLosesScene \/ Collect \/ Restart
  <2>1. controls' = Gone /\ scene' = NoScene /\ ui' \in UiType
    BY <1>2, <1>3, <1>4 DEF FixupLosesScene, Collect, Restart
  <2>2. QED
    BY <1>3, <2>1, BlankInOrder
<1>5. ASSUME NEW s \in Scenes, Open(s) PROVE WidgetsInv'
  <2>1. /\ controls' = Gone /\ ui' = ui
        /\ scene' = [at |-> s, gamma |-> Null, phase |-> "opening"]
    BY <1>5 DEF Open
  <2>2. scene' \in SceneType /\ scene'.phase = "opening" /\ scene'.at # Null /\ scene'.gamma = Null
    BY <2>1 DEF SceneType
  <2>3. QED
    BY <1>2, <2>1, <2>2, BlankInOrder
<1>6. ASSUME Close \/ Reopen PROVE WidgetsInv'
  <2>1. PICK p \in {"shown", "closed"} : scene' = [scene EXCEPT !.phase = p]
    BY <1>6 DEF Close, Reopen
  <2>2. scene.phase \in {"shown", "closed"} /\ UNCHANGED <<controls, ui>>
    BY <1>6 DEF Close, Reopen
  <2>3. scene' \in SceneType /\ scene'.at = scene.at /\ scene'.gamma = scene.gamma /\ scene'.phase = p
    BY <1>2, <2>1 DEF SceneType
  <2>4. QED
    BY <1>1, <2>2, <2>3, WidgetsSamePhase
<1>7. ASSUME NEW g \in Gammas, SceneBuilt(g) PROVE WidgetsInv'
  <2>1. /\ scene.phase = "opening" /\ <<scene.at, g>> # <<ui.scene, ui.gamma>>
        /\ scene' = [scene EXCEPT !.gamma = g] /\ UNCHANGED <<controls, ui>>
    BY <1>7 DEF SceneBuilt
  <2>2. /\ scene' \in SceneType /\ scene'.at = scene.at /\ scene'.gamma = g
        /\ scene'.phase = "opening"
    BY <1>2, <2>1 DEF SceneType
  <2>3. ~SameScene'
    BY <2>1, <2>2 DEF SameScene
  <2>4. \A k \in Kinds : ~controls'[k].live
    BY <1>2, <2>1 DEF SceneInv
  <2>5. SceneInv'
    BY <1>2, <2>1, <2>2, <2>3, <2>4 DEF SceneInv
  <2>6. BoundInv' /\ LabelsMatchSliders' /\ ReadyInv'
    BY <2>2, <2>4 DEF BoundInv, Bound, LabelsMatchSliders, ReadyInv
  <2>7. controls' \in [Kinds -> Sliders] /\ ui' \in UiType /\ \A k \in Kinds : SliderTyped(k)'
    BY <1>2, <2>1 DEF SliderTyped
  <2>8. QED
    BY <2>2, <2>5, <2>6, <2>7 DEF WidgetsInv
<1>8. QED
  BY <1>4, <1>5, <1>6, <1>7

\* The widgets stay in order, whatever happens next.
LEMMA WidgetsStep ==
  ASSUME SlidersInv, [Next]_vars
  PROVE  WidgetsInv'
<1>1. WidgetsInv
  BY WidgetsPart
<1>2. CASE UNCHANGED vars
  BY <1>1, <1>2, WidgetsUnchanged DEF vars
<1>3. ASSUME \/ PawnChanges
             \/ \E c \in Controllers : SetPlayer(c)
             \/ \E target \in {"apply", "reset"} : Press(target)
      PROVE  WidgetsInv'
  <2>1. UNCHANGED <<scene, controls, ui>>
    BY <1>3 DEF PawnChanges, SetPlayer, Press
  <2>2. QED
    BY <1>1, <2>1, WidgetsUnchanged
<1>4. ASSUME NEW k \in Kinds, NEW position \in Positions(k), Drag(k, position) PROVE WidgetsInv'
  BY <1>1, <1>4, DragInOrder
<1>5. ASSUME NEW handled \in BOOLEAN, NEW saved \in BOOLEAN, ButtonReturns(handled, saved)
      PROVE  WidgetsInv'
  BY <1>5, ButtonKeepsWidgets
<1>6. CASE Fixup \/ Tick
  BY <1>6, HooksKeepWidgets
<1>7. CASE \/ FixupLosesScene \/ Collect \/ Close \/ Reopen \/ Restart
           \/ \E s \in Scenes : Open(s)
           \/ \E g \in Gammas : SceneBuilt(g)
  BY <1>7, EngineKeepsWidgets
<1>8. QED
  BY <1>2, <1>3, <1>4, <1>5, <1>6, <1>7 DEF Next

-----------------------------------------------------------------------------
(***************************************************************************)
(* The preferences, their storage, the player and the button's frame.      *)
(***************************************************************************)
PlayerType == [at : Controllers \cup {Null}, pawn : BOOLEAN, fov : Values("fov") \cup {0}, told : BOOLEAN]

\* What is stored for a preference, and what was confirmed of it.
KeptInv(k) ==
  /\ preferred[k] \in Values(k) \cup {Unset[k]}
  /\ config[k] \in Stored \cup Values(k)
  /\ confirmed[k] # Null =>
       /\ confirmed[k].value \in Values(k) /\ preferred[k] = confirmed[k].value
       /\ confirmed[k].saved => config[k] = confirmed[k].value

\* The part of the invariant about the preferences.
PreferencesInv ==
  /\ preferred \in [Kinds -> Int] /\ config \in [Kinds -> Int \cup {Missing, Invalid}]
  /\ confirmed \in [Kinds -> Confirmations \cup {Null}]
  /\ player \in PlayerType /\ \A k \in Kinds : KeptInv(k)
  /\ player.at # Null /\ player.told => player.fov = preferred["fov"]

\* The part about the button's frame and the counters.
ButtonInv ==
  /\ frame \in Frames \cup {Null} /\ FrameInv
  /\ opened \in 0 .. MaxScenes /\ misused = FALSE

\* The invariant is its three parts.
LEMMA SlidersParts ==
  SlidersInv <=> WidgetsInv /\ PreferencesInv /\ ButtonInv
<1>1. ASSUME SlidersInv PROVE WidgetsInv /\ PreferencesInv /\ ButtonInv
  <2>1. /\ ShapesInv /\ SlidersTypeOK /\ FrameInv /\ SavedInv /\ WidgetsTouchedAreLive /\ ConfirmedIsKept
    BY <1>1 DEF SlidersInv
  <2>2. player \in PlayerType /\ opened \in 0 .. MaxScenes /\ misused \in BOOLEAN
    BY <2>1 DEF SlidersTypeOK, PlayerType
  <2>3. ButtonInv
    BY <2>1, <2>2 DEF ButtonInv, ShapesInv, WidgetsTouchedAreLive
  <2>4. ASSUME NEW k \in Kinds PROVE KeptInv(k)
    <3>1. preferred[k] \in Values(k) \cup {Unset[k]} /\ config[k] \in Stored \cup Values(k)
      BY <2>1 DEF SlidersTypeOK
    <3>2. QED
      BY <2>1, <3>1 DEF KeptInv, SavedInv, ConfirmedIsKept
  <2>5. PreferencesInv
    BY <2>1, <2>2, <2>4 DEF PreferencesInv, ShapesInv, ConfirmedIsKept
  <2>6. QED
    BY <1>1, <2>3, <2>5, WidgetsPart
<1>2. ASSUME WidgetsInv, PreferencesInv, ButtonInv PROVE SlidersInv
  <2>1. ShapesInv
    BY <1>2 DEF WidgetsInv, PreferencesInv, ButtonInv, ShapesInv
  <2>2. ASSUME NEW k \in Kinds
        PROVE  /\ controls[k] \in [live : BOOLEAN, position : Positions(k) \cup {0},
                                   label : Values(k) \cup {Null}, target : Scenes \cup {Null}]
               /\ preferred[k] \in Values(k) \cup {Unset[k]}
               /\ config[k] \in Stored \cup Values(k)
    <3>1. controls[k] \in Sliders /\ SliderTyped(k) /\ KeptInv(k)
      BY <1>2 DEF WidgetsInv, PreferencesInv
    <3>2. QED
      BY <3>1 DEF Sliders, SliderTyped, KeptInv
  <2>3. SlidersTypeOK
    BY <1>2, <2>2 DEF WidgetsInv, PreferencesInv, ButtonInv, SlidersTypeOK, SceneType, UiType, PlayerType
  <2>4. ConfirmedIsKept /\ SavedInv
    BY <1>2 DEF PreferencesInv, KeptInv, ConfirmedIsKept, SavedInv
  <2>5. WidgetsTouchedAreLive /\ FrameInv
    BY <1>2 DEF ButtonInv, WidgetsTouchedAreLive
  <2>6. QED
    BY <1>2, <2>1, <2>3, <2>4, <2>5 DEF SlidersInv, WidgetsInv
<1>3. QED
  BY <1>1, <1>2

\* Nothing of the preferences changes.
LEMMA PreferencesUnchanged ==
  ASSUME PreferencesInv, UNCHANGED <<preferred, config, confirmed, player>>
  PROVE  PreferencesInv'
BY DEF PreferencesInv, KeptInv

\* Nothing of the frame changes.
LEMMA ButtonUnchanged ==
  ASSUME ButtonInv, UNCHANGED <<frame, opened, misused>>
  PROVE  ButtonInv'
BY DEF ButtonInv, FrameInv

\* A new player is given the preference, whatever its pawn.
LEMMA PlayersKeepPreferences ==
  ASSUME PreferencesInv, PawnChanges \/ \E c \in Controllers : SetPlayer(c)
  PROVE  PreferencesInv'
<1>1. preferred["fov"] \in Values("fov") \cup {0} /\ "fov" \in Kinds
  BY DEF PreferencesInv, KeptInv, Unset, Kinds
<1>2. UNCHANGED <<preferred, config, confirmed>>
  BY DEF PawnChanges, SetPlayer
<1>3. /\ player' \in PlayerType
      /\ player'.at # Null /\ player'.told => player'.fov = preferred["fov"]
  <2>1. CASE PawnChanges
    <3>1. player \in PlayerType /\ player' = [player EXCEPT !.pawn = ~player.pawn]
      BY <2>1 DEF PawnChanges, PreferencesInv
    <3>2. player' = [at |-> player.at, pawn |-> ~player.pawn, fov |-> player.fov, told |-> player.told]
      BY <3>1 DEF PlayerType
    <3>3. player.at # Null /\ player.told => player.fov = preferred["fov"]
      BY DEF PreferencesInv
    <3>4. QED
      BY <3>1, <3>2, <3>3 DEF PlayerType
  <2>2. ASSUME NEW c \in Controllers, SetPlayer(c)
        PROVE  /\ player' \in PlayerType
               /\ player'.at # Null /\ player'.told => player'.fov = preferred["fov"]
    <3>1. player' = [at |-> c, pawn |-> FALSE, fov |-> preferred["fov"], told |-> TRUE]
      BY <2>2 DEF SetPlayer, Reapplied, Attached
    <3>2. QED
      BY <1>1, <3>1 DEF PlayerType
  <2>3. QED
    BY <2>1, <2>2
<1>4. \A k \in Kinds : KeptInv(k)'
  BY <1>2 DEF PreferencesInv, KeptInv
<1>5. QED
  BY <1>2, <1>3, <1>4 DEF PreferencesInv

\* A restart loads what was saved.
LEMMA RestartKeepsPreferences ==
  ASSUME PreferencesInv, ButtonInv, Restart
  PROVE  PreferencesInv' /\ ButtonInv'
<1>1. /\ preferred' = [k \in Kinds |-> Load(k)] /\ config' = config /\ player' = NoPlayer
      /\ confirmed' = [k \in Kinds |->
           IF confirmed[k] # Null /\ confirmed[k].saved THEN confirmed[k] ELSE Null]
      /\ frame' = Null /\ UNCHANGED <<misused, opened>>
  BY DEF Restart, Initialize
<1>2. ASSUME NEW k \in Kinds
      PROVE  /\ Load(k) \in Int /\ KeptInv(k)'
             /\ confirmed'[k] \in Confirmations \cup {Null}
  <2>1. config[k] \in Int \cup {Missing, Invalid} /\ KeptInv(k)
        /\ confirmed[k] \in Confirmations \cup {Null}
    BY DEF PreferencesInv
  <2>2. Load(k) \in Values(k) \cup {Unset[k]} /\ Load(k) \in Int
        /\ (config[k] \in Values(k) => Load(k) = config[k])
    BY <2>1, LoadStaysInside
  <2>3. preferred'[k] = Load(k) /\ config'[k] = config[k]
        /\ confirmed'[k] = IF confirmed[k] # Null /\ confirmed[k].saved THEN confirmed[k] ELSE Null
    BY <1>1
  <2>4. QED
    BY <2>1, <2>2, <2>3 DEF KeptInv
<1>3. player' \in PlayerType /\ player'.at = Null
  BY <1>1 DEF NoPlayer, PlayerType
<1>4. preferred' \in [Kinds -> Int] /\ confirmed' \in [Kinds -> Confirmations \cup {Null}]
  BY <1>1, <1>2
<1>5. PreferencesInv'
  BY <1>1, <1>2, <1>3, <1>4 DEF PreferencesInv
<1>6. ButtonInv'
  BY <1>1 DEF ButtonInv, FrameInv
<1>7. QED
  BY <1>5, <1>6

\* What the hook reads before the retail handler is what the labels say, and
\* the sliders it reads are there.
LEMMA PressReadsLabels ==
  ASSUME SlidersInv, NEW target \in {"apply", "reset"}, Press(target)
  PROVE  ButtonInv'
<1> DEFINE selected == [k \in Kinds |-> IF target = "apply" THEN Selected(k, scene.at) ELSE 0]
           shows == [k \in Kinds |-> IF HasSelection(scene.at) THEN controls[k].label ELSE Null]
           controller == IF target = "apply" THEN GameplayController ELSE Null
<1>1. WidgetsInv /\ PreferencesInv /\ ButtonInv
  BY SlidersParts
<1>2. /\ scene.phase = "shown" /\ opened' = opened
      /\ frame' = [scene |-> scene.at, target |-> target, selected |-> selected,
                   shows |-> shows, controller |-> controller]
      /\ misused' = (misused \/ /\ target = "apply" /\ HasSelection(scene.at)
                                /\ \E k \in Kinds : ~controls[k].live)
  BY DEF Press
<1>3. scene.at \in Scenes /\ scene.at # Null
  BY <1>1, <1>2 DEF WidgetsInv, SceneInv, SceneType
<1>4. HasSelection(scene.at) => AllBound
  BY <1>1, <1>2 DEF WidgetsInv, ReadyInv, HasSelection
<1>5. ASSUME NEW k \in Kinds
      PROVE  /\ selected[k] \in Int /\ shows[k] \in Int \cup {Null}
             /\ target = "apply" =>
                  \/ selected[k] = 0 /\ shows[k] = Null
                  \/ selected[k] \in Values(k) /\ shows[k] = selected[k]
  <2>1. controls[k] \in Sliders
    BY <1>1 DEF WidgetsInv
  <2>2. controls[k].position \in Int /\ controls[k].label \in Int \cup {Null}
    BY <2>1 DEF Sliders
  <2>3. FromSlider(k, controls[k].position) \in Values(k) /\ FromSlider(k, controls[k].position) \in Int
    BY <2>2, SliderRoundTrip, LimitsLeaveRoom
  <2>4. CASE HasSelection(scene.at)
    <3>1. controls[k].label = FromSlider(k, controls[k].position)
      BY <1>1, <1>3, <1>4, <2>4 DEF WidgetsInv, LabelsMatchSliders, AllBound
    <3>2. Selected(k, scene.at) = FromSlider(k, controls[k].position) /\ shows[k] = controls[k].label
      BY <2>4 DEF Selected
    <3>3. selected[k] = IF target = "apply" THEN FromSlider(k, controls[k].position) ELSE 0
      BY <3>2
    <3> HIDE DEF selected, shows
    <3>4. QED
      BY <2>3, <3>1, <3>2, <3>3
  <2>5. CASE ~HasSelection(scene.at)
    BY <2>5 DEF Selected
  <2>6. QED
    BY <2>4, <2>5
<1>6. controller \in Controllers \cup {Null}
  BY <1>1 DEF GameplayController, PreferencesInv, PlayerType
<1>7. selected \in [Kinds -> Int] /\ shows \in [Kinds -> Int \cup {Null}]
  BY <1>5
<1> HIDE DEF selected, shows, controller
<1>8. frame' \in Frames
  BY <1>2, <1>3, <1>6, <1>7 DEF Frames
<1>9. FrameInv'
  BY <1>2, <1>5 DEF FrameInv, Values
<1>10. misused' = FALSE
  BY <1>1, <1>2, <1>4 DEF ButtonInv, AllBound
<1>11. QED
  BY <1>1, <1>2, <1>8, <1>9, <1>10 DEF ButtonInv

\* Apply keeps what the labels said, in the preference and, if it could be
\* saved, in the configuration; the game hears of it or is known not to.
LEMMA ApplyKeepsLabels ==
  ASSUME PreferencesInv, frame \in Frames, FrameInv, frame # Null, frame.target = "apply",
         NEW saved \in BOOLEAN, Apply(saved)
  PROVE  PreferencesInv'
<1> DEFINE chosen == {k \in Kinds : Applied[k] # 0}
<1>1. /\ preferred' = [k \in Kinds |-> IF k \in chosen THEN Applied[k] ELSE preferred[k]]
      /\ config' = [k \in Kinds |-> IF k \in chosen THEN SaveInt(k, Applied[k], saved) ELSE config[k]]
      /\ player' = IF "fov" \notin chosen \/ player.at = Null THEN player
                   ELSE IF HasGameplayPawn(frame.controller) THEN ExecuteFovCommand(Applied["fov"])
                   ELSE [player EXCEPT !.told = FALSE]
      /\ confirmed' = [k \in Kinds |->
           IF frame.shows[k] = Null THEN confirmed[k] ELSE [value |-> frame.shows[k], saved |-> saved]]
  BY DEF Apply, Remember
<1>2. ASSUME NEW k \in Kinds
      PROVE  \/ /\ k \notin chosen /\ preferred'[k] = preferred[k] /\ config'[k] = config[k]
                /\ confirmed'[k] = confirmed[k]
             \/ /\ k \in chosen /\ Applied[k] \in Values(k) /\ preferred'[k] = Applied[k]
                /\ config'[k] = IF saved THEN Applied[k] ELSE config[k]
                /\ confirmed'[k] = [value |-> Applied[k], saved |-> saved]
  <2>1. frame.selected[k] \in Int
    BY DEF Frames
  <2>2. CASE frame.selected[k] = 0 /\ frame.shows[k] = Null
    <3>1. Applied[k] = 0
      BY <2>2 DEF Applied
    <3>2. QED
      BY <1>1, <2>2, <3>1
  <2>3. CASE frame.selected[k] \in Values(k) /\ frame.shows[k] = frame.selected[k]
    <3>1. frame.selected[k] # 0 /\ frame.shows[k] # Null
      BY <2>1, <2>3, LimitsLeaveRoom
    <3>2. Clamp(k, frame.selected[k]) = frame.selected[k]
      BY <2>1, <2>3, ClampStaysInside
    <3>3. Applied[k] = frame.selected[k]
      BY <3>1, <3>2 DEF Applied
    <3>4. k \in chosen
      BY <3>1, <3>3
    <3>5. QED
      BY <1>1, <2>3, <3>1, <3>3, <3>4 DEF SaveInt
  <2>4. QED
    BY <2>2, <2>3 DEF FrameInv
<1>3. ASSUME NEW k \in Kinds
      PROVE  /\ KeptInv(k)' /\ preferred'[k] \in Int /\ config'[k] \in Int \cup {Missing, Invalid}
             /\ confirmed'[k] \in Confirmations \cup {Null}
  <2>1. KeptInv(k) /\ preferred[k] \in Int /\ config[k] \in Int \cup {Missing, Invalid}
        /\ confirmed[k] \in Confirmations \cup {Null}
    BY DEF PreferencesInv
  <2>2. CASE k \notin chosen
    <3>1. preferred'[k] = preferred[k] /\ config'[k] = config[k] /\ confirmed'[k] = confirmed[k]
      BY <1>2, <2>2
    <3>2. QED
      BY <2>1, <3>1 DEF KeptInv
  <2>3. CASE k \in chosen
    <3>1. /\ Applied[k] \in Values(k) /\ preferred'[k] = Applied[k]
          /\ config'[k] = IF saved THEN Applied[k] ELSE config[k]
          /\ confirmed'[k] = [value |-> Applied[k], saved |-> saved]
      BY <1>2, <2>3
    <3>2. Applied[k] \in Int
      BY <3>1, LimitsLeaveRoom
    <3>3. QED
      BY <2>1, <3>1, <3>2 DEF KeptInv, Confirmations
  <2>4. QED
    BY <2>2, <2>3
<1>4. /\ preferred' \in [Kinds -> Int] /\ config' \in [Kinds -> Int \cup {Missing, Invalid}]
      /\ confirmed' \in [Kinds -> Confirmations \cup {Null}]
  BY <1>1, <1>3
<1>5. /\ player' \in PlayerType
      /\ player'.at # Null /\ player'.told => player'.fov = preferred'["fov"]
  <2>1. "fov" \in Kinds /\ player \in PlayerType
    BY DEF Kinds, PreferencesInv
  <2>2. CASE "fov" \notin chosen \/ player.at = Null
    <3>1. player' = player
      BY <1>1, <2>2
    <3>2. player.at # Null => preferred'["fov"] = preferred["fov"]
      BY <1>2, <2>1, <2>2
    <3>3. QED
      BY <2>1, <3>1, <3>2 DEF PreferencesInv
  <2>3. CASE "fov" \in chosen /\ player.at # Null /\ HasGameplayPawn(frame.controller)
    <3>1. player' = [player EXCEPT !.fov = Applied["fov"], !.told = TRUE]
      BY <1>1, <2>3 DEF ExecuteFovCommand
    <3>2. Applied["fov"] \in Values("fov") /\ preferred'["fov"] = Applied["fov"]
      BY <1>2, <2>1, <2>3
    <3>3. player' = [[player EXCEPT !.fov = Applied["fov"]] EXCEPT !.told = TRUE]
      BY <3>1
    <3>4. PICK sent : sent = [player EXCEPT !.fov = Applied["fov"]]
      OBVIOUS
    <3>5. sent = [at |-> player.at, pawn |-> player.pawn, fov |-> Applied["fov"], told |-> player.told]
      BY <2>1, <3>4 DEF PlayerType
    <3>6. player' = [at |-> player.at, pawn |-> player.pawn, fov |-> Applied["fov"], told |-> TRUE]
      BY <3>3, <3>4, <3>5
    <3>7. QED
      BY <2>1, <3>2, <3>6 DEF PlayerType
  <2>4. CASE "fov" \in chosen /\ player.at # Null /\ ~HasGameplayPawn(frame.controller)
    <3>1. player' = [player EXCEPT !.told = FALSE]
      BY <1>1, <2>4
    <3>2. player' \in PlayerType /\ player'.told = FALSE
      BY <2>1, <3>1 DEF PlayerType
    <3>3. QED
      BY <3>2
  <2>5. QED
    BY <2>2, <2>3, <2>4
<1>6. QED
  BY <1>3, <1>4, <1>5 DEF PreferencesInv

\* A button's hook keeps the preferences in order, and leaves no frame.
LEMMA ButtonKeepsPreferences ==
  ASSUME SlidersInv, NEW handled \in BOOLEAN, NEW saved \in BOOLEAN, ButtonReturns(handled, saved)
  PROVE  PreferencesInv' /\ ButtonInv'
<1>1. PreferencesInv /\ ButtonInv
  BY SlidersParts
<1>2. frame \in Frames /\ frame # Null /\ frame' = Null /\ opened' = opened
  BY <1>1 DEF ButtonInv, ButtonReturns
<1>3. frame.target \in {"apply", "reset"}
  BY <1>2 DEF Frames
<1>4. misused' = FALSE
  BY <1>1, ButtonKeepsWidgets DEF ButtonInv, SlidersInv, SlidersTypeOK
<1>5. ButtonInv'
  BY <1>1, <1>2, <1>4 DEF ButtonInv, FrameInv
<1>6. CASE handled /\ frame.target = "apply"
  <2>1. Apply(saved)
    BY <1>6 DEF ButtonReturns
  <2>2. QED
    BY <1>1, <1>2, <1>5, <1>6, <2>1, ApplyKeepsLabels DEF ButtonInv
<1>7. CASE ~handled
  <2>1. UNCHANGED <<preferred, config, confirmed, player>>
    BY <1>7 DEF ButtonReturns
  <2>2. QED
    BY <1>1, <1>5, <2>1, PreferencesUnchanged
<1>8. CASE handled /\ frame.target = "reset"
  <2>1. UNCHANGED <<preferred, config, confirmed, player>>
    BY <1>8 DEF ButtonReturns, ResetSliders
  <2>2. QED
    BY <1>1, <1>5, <2>1, PreferencesUnchanged
<1>9. QED
  BY <1>3, <1>6, <1>7, <1>8

\* The preferences stay in order, whatever happens next.
LEMMA PreferencesStep ==
  ASSUME SlidersInv, [Next]_vars
  PROVE  PreferencesInv' /\ ButtonInv'
<1>1. PreferencesInv /\ ButtonInv
  BY SlidersParts
<1>2. ASSUME NEW handled \in BOOLEAN, NEW saved \in BOOLEAN, ButtonReturns(handled, saved)
      PROVE  PreferencesInv' /\ ButtonInv'
  BY <1>2, ButtonKeepsPreferences
<1>3. CASE Restart
  BY <1>1, <1>3, RestartKeepsPreferences
<1>4. ASSUME NEW target \in {"apply", "reset"}, Press(target) PROVE PreferencesInv' /\ ButtonInv'
  <2>1. UNCHANGED <<preferred, config, confirmed, player>>
    BY <1>4 DEF Press
  <2>2. QED
    BY <1>1, <1>4, <2>1, PressReadsLabels, PreferencesUnchanged
<1>5. CASE PawnChanges \/ \E c \in Controllers : SetPlayer(c)
  <2>1. UNCHANGED <<frame, opened, misused>>
    BY <1>5 DEF PawnChanges, SetPlayer
  <2>2. QED
    BY <1>1, <1>5, <2>1, PlayersKeepPreferences, ButtonUnchanged
<1>6. ASSUME NEW s \in Scenes, Open(s) PROVE PreferencesInv' /\ ButtonInv'
  <2>1. UNCHANGED <<preferred, config, confirmed, player, frame, misused>>
        /\ opened < MaxScenes /\ opened' = opened + 1
    BY <1>6 DEF Open
  <2>2. PreferencesInv'
    BY <1>1, <2>1, PreferencesUnchanged
  <2>3. ButtonInv'
    BY <1>1, <2>1 DEF ButtonInv, FrameInv
  <2>4. QED
    BY <2>2, <2>3
<1>7. ASSUME \/ Fixup \/ FixupLosesScene \/ Tick \/ Close \/ Reopen \/ Collect
             \/ \E g \in Gammas : SceneBuilt(g)
             \/ \E k \in Kinds : \E position \in Positions(k) : Drag(k, position)
             \/ UNCHANGED vars
      PROVE  PreferencesInv' /\ ButtonInv'
  <2>1. UNCHANGED <<preferred, config, confirmed, player, frame, opened, misused>>
    BY <1>7 DEF Fixup, FixupLosesScene, Tick, Close, Reopen, Collect, SceneBuilt, Drag, vars
  <2>2. QED
    BY <1>1, <2>1, PreferencesUnchanged, ButtonUnchanged
<1>8. QED
  BY <1>2, <1>3, <1>4, <1>5, <1>6, <1>7 DEF Next

-----------------------------------------------------------------------------
(***************************************************************************)
(* The theorems.                                                           *)
(***************************************************************************)
\* The settings as the game starts, with whatever the configuration holds.
LEMMA SlidersStart ==
  ASSUME Init
  PROVE  SlidersInv
<1>1. /\ scene = NoScene /\ controls = Gone /\ ui = NoUi /\ config \in [Kinds -> Stored]
      /\ preferred = [k \in Kinds |-> Load(k)] /\ player = NoPlayer /\ frame = Null
      /\ confirmed = [k \in Kinds |-> Null] /\ misused = FALSE /\ opened = 0
  BY DEF Init, Initialize
<1>2. scene \in SceneType /\ scene.phase = "none" /\ ui \in UiType
  BY <1>1 DEF NoScene, SceneType, NoUi, UiType
<1>3. /\ controls \in [Kinds -> Sliders]
      /\ \A k \in Kinds : SliderTyped(k) /\ ~controls[k].live
  BY <1>1, GoneIsBlank DEF SliderTyped
<1>4. WidgetsInv
  BY <1>2, <1>3 DEF WidgetsInv, SceneInv, BoundInv, Bound, ReadyInv, LabelsMatchSliders
<1>5. config \in [Kinds -> Int \cup {Missing, Invalid}]
  BY <1>1
<1>6. ASSUME NEW k \in Kinds PROVE KeptInv(k) /\ Load(k) \in Int
  <2>1. Load(k) \in Values(k) \cup {Unset[k]} /\ Load(k) \in Int
    BY <1>5, LoadStaysInside
  <2>2. preferred[k] = Load(k) /\ confirmed[k] = Null /\ config[k] \in Stored
    BY <1>1
  <2>3. QED
    BY <2>1, <2>2 DEF KeptInv
<1>7. player \in PlayerType /\ player.at = Null
  BY <1>1 DEF NoPlayer, PlayerType
<1>8. preferred \in [Kinds -> Int] /\ confirmed \in [Kinds -> Confirmations \cup {Null}]
  BY <1>1, <1>6
<1>9. PreferencesInv
  BY <1>5, <1>6, <1>7, <1>8 DEF PreferencesInv
<1>10. ButtonInv
  BY <1>1 DEF ButtonInv, FrameInv
<1>11. QED
  BY <1>4, <1>9, <1>10, SlidersParts

\* Every step keeps the invariant.
LEMMA SlidersStep == SlidersInv /\ [Next]_vars => SlidersInv'
<1> SUFFICES ASSUME SlidersInv, [Next]_vars PROVE SlidersInv'
  OBVIOUS
<1>1. WidgetsInv' /\ PreferencesInv' /\ ButtonInv'
  BY WidgetsStep, PreferencesStep
<1>2. QED
  BY <1>1, SlidersParts, PTL

\* The inductive invariant, whatever scenes come and go, and wherever the next
\* one is placed.
THEOREM SlidersInvariant == Spec => []SlidersInv
<1>1. Init => SlidersInv
  BY SlidersStart
<1>2. SlidersInv /\ [Next]_vars => SlidersInv'
  BY SlidersStep
<1>3. QED
  BY <1>1, <1>2, PTL DEF Spec

\* Preferences, labels and positions are within the limits of their slider,
\* whatever the configuration holds.
THEOREM SlidersTyped == Spec => []SlidersTypeOK
<1>1. SlidersInv => SlidersTypeOK
  BY DEF SlidersInv
<1>2. QED
  BY <1>1, SlidersInvariant, PTL

\* A slider the player can move says the value Apply would take from it.
THEOREM LabelsTellValues == Spec => []LabelsMatchSliders
<1>1. SlidersInv => LabelsMatchSliders
  BY DEF SlidersInv
<1>2. QED
  BY <1>1, SlidersInvariant, PTL

\* No hook uses a slider that died with its scene.
THEOREM NoDeadWidgetTouched == Spec => []WidgetsTouchedAreLive
<1>1. SlidersInv => WidgetsTouchedAreLive
  BY DEF SlidersInv
<1>2. QED
  BY <1>1, SlidersInvariant, PTL

\* What the player confirmed with Apply stays the preference.
THEOREM ConfirmedStays == Spec => []ConfirmedIsKept
<1>1. SlidersInv => ConfirmedIsKept
  BY DEF SlidersInv
<1>2. QED
  BY <1>1, SlidersInvariant, PTL
=============================================================================
