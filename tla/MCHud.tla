--------------------------------- MODULE MCHud ---------------------------------
(***************************************************************************)
(* What is drawn on the HUD, for model checking: four parts that share no  *)
(* state, one of them chosen at the start.                                 *)
(***************************************************************************)
EXTENDS CombatText, F2Stats, Nameplates, NameplateSettings

VARIABLE part

hudVars == <<part, combatVars, f2Vars, plateVars, settingsVars>>

\* In eighths of a pixel; the sharper font lacks the glyphs of one text, and
\* one text has no glyphs at all.
MCFontSize ==
  LET size(w, h) == [width |-> w, height |-> h]
      retail(w, h) == [number |-> size(w, h), low |-> size(2 * w, h), void |-> size(0, 0)]
  IN  [small |-> retail(160, 80), plain |-> retail(323, 157),
       sharp |-> [number |-> size(487, 153), low |-> size(0, 0), void |-> size(0, 0)]]

MCSpelling == [number |-> <<1, 2>>, low |-> <<10>>, void |-> <<1, 2, 8>>]
MCWindows == {[width |-> 0, height |-> 0], [width |-> 1920, height |-> 1080],
              [width |-> 3840, height |-> 2160]}
MCClip == [x |-> 10000, y |-> 8000]
MCExtent == [x |-> 3000, y |-> 1000]
MCStatsExtent == [x |-> 4000, y |-> 1200]

MCInfo(kind, at, x, y, hp, hpMax) ==
  [kind |-> kind, at |-> at, x |-> x, y |-> y, hp |-> hp, hpMax |-> hpMax,
   pw |-> hpMax, pwMax |-> hpMax, team |-> "red"]
MCInfos ==
  {MCInfo("bot", "seen", 100, 100, 1, 1), MCInfo("player", "behind", 100, 100, 1, 1),
   MCInfo("player", "seen", 10100, 100, 1, 1), MCInfo("player", "seen", 200, 7900, 60, 100),
   MCInfo("player", "seen", 5000, 1000, -5, 0), MCInfo("player", "seen", 9999, 50, 2147483647, 2147483647),
   MCInfo("player", "seen", 5000, 1500, 120, 100)}
MCOptions == [scale : {1, 160, 400}, health : {"off", "bars", "text"}, barHeight : {1, 5, 40},
              barWidth : {4, 60}, showPower : BOOLEAN]

Frozen(p) ==
  /\ p # "combat" => /\ viewport = 1080 /\ window = [width |-> 0, height |-> 0]
                     /\ canvas.font = "small" /\ canvas.centred
  /\ p # "f2" => resolution = 0
  /\ p # "plates" => infos.list = <<>> /\ infos.max = 1
  /\ p # "settings" => now = 0

MCInit ==
  /\ part \in {"combat", "f2", "plates", "settings"}
  /\ CombatInit /\ F2Init /\ PlateInit /\ SettingsInit
  /\ Frozen(part)

MCNext ==
  /\ UNCHANGED part
  /\ \/ part = "combat" /\ CombatNext /\ UNCHANGED <<f2Vars, plateVars, settingsVars>>
     \/ part = "f2" /\ F2Next /\ UNCHANGED <<combatVars, plateVars, settingsVars>>
     \/ part = "plates" /\ PlateNext /\ UNCHANGED <<combatVars, f2Vars, settingsVars>>
     \/ part = "settings" /\ SettingsNext /\ UNCHANGED <<combatVars, f2Vars, plateVars>>

MCSpec == MCInit /\ [][MCNext]_hudVars

\* Text and plates are where and as large as they should be.
HudInPlace == DamageTextScalesAsOne /\ LabelsKeepCentre /\ F2RowsKeepLayout /\ PlatesWhole

\* Canvas and contexts are handed back, but for the cursor behind a label and
\* the line height after the plates.
CanvasHandedBack == CombatCanvasHandedBack /\ PlateCanvasHandedBack
=============================================================================
