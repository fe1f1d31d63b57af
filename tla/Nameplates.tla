------------------------------ MODULE Nameplates ------------------------------
(***************************************************************************)
(* The plates a spectator sees above the players: the hook of the HUD's    *)
(* draw function (SpectatorNameplatesPatch.cpp), which draws them on the   *)
(* game's canvas (SpectatorNameplateDraw.cpp) before the game draws on.    *)
(*                                                                         *)
(* Lengths are in hundredths of a pixel, scales in percent.  The renderer  *)
(* of text and lines and the projection of a place to the screen are       *)
(* external.                                                               *)
(***************************************************************************)
EXTENDS Integers, Sequences, FiniteSets

CONSTANTS
  Infos,        \* player records a HUD may list
  PlateOptions, \* settings: [scale, bars, barHeight, showPower]
  PlateScales,  \* percents of the combat text slider
  Clip,         \* [x, y]: the canvas' size
  EntriesMax,   \* kPriEntriesMax
  Extent,       \* a name's [x, y] size at 100 percent
  StatsExtent   \* a stat line's

ASSUME NameplatesAssumption ==
  /\ Clip \in [x : Nat, y : Nat] /\ Extent \in [x : Nat, y : Nat]
  /\ StatsExtent \in [x : Nat, y : Nat]
  /\ PlateScales \subseteq Nat /\ EntriesMax \in Nat
  /\ \A options \in PlateOptions :
       /\ options.scale \in Nat /\ options.barHeight \in Nat /\ options.barWidth \in Nat
       /\ options.showPower \in BOOLEAN
  /\ \A info \in Infos :
       /\ info.x \in Int /\ info.y \in Int /\ info.hp \in Int /\ info.hpMax \in Int
       /\ info.pw \in Int /\ info.pwMax \in Int

VARIABLES
  plateCanvas,  \* pen, line height (CurYL) and colour
  infos,        \* GRI.PRIArray: [list, max], count being the list's length
  plate,        \* the call in progress: what it saved, and the next entry
  given,        \* the canvas as the game handed it over
  plates        \* what the call drew, entry by entry

plateVars == <<plateCanvas, infos, plate, given, plates>>

Whole == 100
NoCall == [running |-> FALSE]
Lower(a, b) == IF a < b THEN a ELSE b
Upper(a, b) == IF a > b THEN a ELSE b
ClampInt(value, low, high) == Upper(low, Lower(value, high))

-----------------------------------------------------------------------------
(***************************************************************************)
(* SpectatorNameplateFormat.                                               *)
(***************************************************************************)
ScalePercentMax == 400
ScaledBarHeightMax == 62
FillRectRowMax == 64

MultiplyScale(base, multiplier) == Lower((base * multiplier) \div 100, ScalePercentMax)

SafeArrayCount(count, maximum) ==
  IF count <= 0 \/ maximum < count THEN 0 ELSE ClampInt(count, 0, EntriesMax)

\* Deliberate fault, used by no specification: bars as high as the settings make them.
UnboundedBarHeight(height, scale) == height * scale

ScaledBarHeight(height, scale) == Lower(height * scale, ScaledBarHeightMax * Whole)

\* The filled part of a bar, in percent.
BarFraction(current, maximum) ==
  IF maximum <= 0 \/ current <= 0 THEN 0
  ELSE IF current >= maximum THEN 100 ELSE (100 * current) \div maximum

\* The digits of a number; a negative one is shown as 0.
Digits(value) == 1 + Cardinality({n \in 1..9 : value >= 10 ^ n})

\* AppendInt, AppendChar: how many characters are there afterwards.
Appended(at, characters, capacity) == Upper(at, Lower(at + characters, capacity - 1))

StatsCapacity == 64

FormatStats(hp, hpMax, pw, pwMax, includePower) ==
  LET add(at, n) == Appended(at, n, StatsCapacity)
      health == add(add(add(0, Digits(hp)), 1), Digits(hpMax))
  IN  IF includePower
        THEN add(add(add(add(add(health, 1), 1), Digits(pw)), 1), Digits(pwMax))
        ELSE health

-----------------------------------------------------------------------------
(***************************************************************************)
(* SpectatorNameplateDraw::Render.                                         *)
(***************************************************************************)
\* Only the rows the budget allows are drawn, each a line one pixel high.
FillRect(x, y, w, h) ==
  LET left == Upper(x, 0)        right == Lower(x + w, Clip.x)
      top == Upper(y, 0)         bottom == Lower(y + h, Clip.y)
  IN  IF w <= 0 \/ h <= 0 \/ right <= left \/ bottom <= top THEN <<>>
      ELSE <<[left |-> left, right |-> right, top |-> top, bottom |-> bottom,
              rows |-> Lower((bottom - top + Whole - 1) \div Whole, FillRectRowMax)]>>

Bar(centre, y, width, height, fraction) ==
  LET x == centre - width \div 2
  IN  FillRect(x - Whole, y - Whole, width + 2 * Whole, height + 2 * Whole)
        \o FillRect(x, y, (width * fraction) \div 100, height)

\* The camera and the projection answer where the pawn is: "behind" the
\* camera, "far" beyond MaxDistance, "nowhere", or a place on the canvas.
Skipped(info) ==
  \/ info.kind \in {"null", "bot", "no pawn", "no name"}
  \/ info.at \in {"behind", "far", "nowhere"}
  \/ info.x < 0 \/ info.x > Clip.x \/ info.y < 0 \/ info.y > Clip.y

DrawnPlate(info, options, scale) ==
  LET width == (Extent.x * scale) \div 100
      height == (Extent.y * scale) \div 100
      textY == info.y - height
      barHeight == ScaledBarHeight(options.barHeight, scale)
      barY == textY + height + 2 * Whole
      bar(y, fraction) == Bar(info.x, y, options.barWidth * scale, barHeight, fraction)
      statsWidth == (StatsExtent.x * scale) \div 100
      statsHeight == (StatsExtent.y * scale) \div 100
  IN  [pen |-> IF options.health = "text"
                 THEN [x |-> info.x - statsWidth \div 2 + statsWidth, y |-> textY + height]
                 ELSE [x |-> info.x - width \div 2 + width, y |-> textY],
       tallest |-> IF options.health = "text" THEN Upper(height, statsHeight) ELSE height,
       rects |-> IF options.health # "bars" THEN <<>>
                 ELSE bar(barY, BarFraction(info.hp, info.hpMax))
                        \o IF options.showPower
                             THEN bar(barY + barHeight + 3 * Whole, BarFraction(info.pw, info.pwMax))
                             ELSE <<>>,
       stats |-> IF options.health = "text"
                   THEN FormatStats(info.hp, info.hpMax, info.pw, info.pwMax, options.showPower)
                   ELSE 0,
       whole |-> IF options.health = "text"
                   THEN Digits(info.hp) + 1 + Digits(info.hpMax)
                        + IF options.showPower THEN 3 + Digits(info.pw) + Digits(info.pwMax) ELSE 0
                   ELSE 0]

\* The spectator's HUD.  Pen and colour are saved, the line height is not; ready stands for canvas, world, scene view, render
\* target, fonts and player list being there.  A player's HUD is left alone.
DrawHud(spectating, ready, options, percent) ==
  /\ ~plate.running /\ plates = <<>>
  /\ given' = plateCanvas
  /\ plate' = IF spectating /\ ready /\ SafeArrayCount(Len(infos.list), infos.max) > 0
                THEN [running |-> TRUE, next |-> 1,
                      saved |-> [pen |-> plateCanvas.pen, colour |-> plateCanvas.colour],
                      options |-> options, scale |-> MultiplyScale(options.scale, percent)]
                ELSE plate
  /\ UNCHANGED <<plateCanvas, infos, plates>>

Remaining == plate.next <= SafeArrayCount(Len(infos.list), infos.max)

DrawPlate ==
  /\ plate.running /\ Remaining
  /\ LET info == infos.list[plate.next]
         made == DrawnPlate(info, plate.options, plate.scale)
     IN  IF Skipped(info) THEN UNCHANGED <<plateCanvas, plates>>
         ELSE /\ plateCanvas' = [pen |-> made.pen, line |-> Upper(plateCanvas.line, made.tallest),
                                 colour |-> IF plate.options.health = "text" THEN "grey" ELSE info.team]
              /\ plates' = Append(plates, made)
  /\ plate' = [plate EXCEPT !.next = @ + 1]
  /\ UNCHANGED <<infos, given>>

\* Deliberate fault, used by no specification: only the pen is handed back.
KeepColour ==
  /\ plate.running /\ ~Remaining
  /\ plateCanvas' = [plateCanvas EXCEPT !.pen = plate.saved.pen]
  /\ plate' = NoCall
  /\ UNCHANGED <<infos, given, plates>>

RestoreCanvas ==
  /\ plate.running /\ ~Remaining
  /\ plateCanvas' = [plateCanvas EXCEPT !.pen = plate.saved.pen, !.colour = plate.saved.colour]
  /\ plate' = NoCall
  /\ UNCHANGED <<infos, given, plates>>

\* The game draws on, with its own pen and colour, a new line or a text's.
GameDraws == /\ ~plate.running
             /\ plateCanvas' \in {[pen |-> [x |-> 0, y |-> 0], line |-> 0, colour |-> "game"],
                                  [pen |-> [x |-> Whole, y |-> Whole], line |-> 20 * Whole,
                                   colour |-> "white"]}
             /\ given' = plateCanvas'
             /\ plates' = <<>>
             /\ UNCHANGED <<infos, plate>>

PlateInit ==
  /\ plateCanvas = [pen |-> [x |-> 0, y |-> 0], line |-> 0, colour |-> "game"]
  /\ infos \in [list : UNION {[1..n -> Infos] : n \in 0..2}, max : 1..2]
  /\ plate = NoCall /\ given = plateCanvas /\ plates = <<>>

PlateNext ==
  \/ \E spectating, ready \in BOOLEAN, options \in PlateOptions, percent \in PlateScales :
       DrawHud(spectating, ready, options, percent)
  \/ DrawPlate
  \/ RestoreCanvas
  \/ GameDraws

-----------------------------------------------------------------------------
\* The game goes on with the pen and colour it had before the plates.  The line
\* height is not handed back: it is the game's own or that of the tallest text
\* the call drew, whichever is more, and so the game's own without a plate.
PlateCanvasHandedBack ==
  LET heights == {given.line} \cup {plates[i].tallest : i \in 1..Len(plates)}
  IN  /\ ~plate.running => plateCanvas.pen = given.pen /\ plateCanvas.colour = given.colour
      /\ plateCanvas.line \in heights /\ \A height \in heights : plateCanvas.line >= height

\* Whatever the settings and the players' values are, no bar is cut off by
\* the budget of rows, every rectangle lies on the canvas, and the stat line
\* fits its buffer.
PlatesWhole ==
  \A i \in 1..Len(plates) :
    LET rects == plates[i].rects
    IN  /\ \A r \in 1..Len(rects) :
             /\ rects[r].rows * Whole >= rects[r].bottom - rects[r].top
             /\ rects[r].left >= 0 /\ rects[r].right <= Clip.x
             /\ rects[r].top >= 0 /\ rects[r].bottom <= Clip.y
        /\ plates[i].stats = plates[i].whole
=============================================================================
