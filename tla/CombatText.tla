------------------------------ MODULE CombatText ------------------------------
(***************************************************************************)
(* Combat text, friendly labels, reticule and target markers at the        *)
(* player's scale (CombatTextScalePatch.cpp).  Retail functions of the HUD *)
(* call helpers that are hooked; some hooks leave a context for the hook   *)
(* of DrawText below them.  All of it runs on the game thread.             *)
(***************************************************************************)
EXTENDS Canvas, SequencesExt

CONSTANTS
  Percents,      \* what the slider can set
  Viewports,     \* heights of the viewport in pixels
  Windows,       \* client sizes of the window, in pixels
  Spelling,      \* [text -> its digits; 10 stands for any other character]
  Warnings,      \* the texts "Health Low!" and "Power Low!"
  Pools,         \* values of health and energy; a negative one is not a number
  Replacement,   \* the sharper font the font cache may offer
  Columns, Rows, \* places on the screen, in pixels
  MaxInt         \* bound: numeric_limits<int>::max()

ASSUME CombatAssumption ==
  /\ Percents \subseteq Int /\ Viewports \subseteq Nat
  /\ Columns \subseteq Int /\ Rows \subseteq Int
  /\ \A size \in Windows : size.height \in Nat
  /\ Replacement \in Fonts \cup {NoFont}

VARIABLES
  canvas,         \* pen, font and flags
  retailCanvas,   \* history: the canvas as retail drawing alone would have left it
  viewport,       \* canvas.clipY
  window,         \* GameWindow::CurrentClientSize
  scalePercent,   \* g_scalePercent
  combatContext,  \* g_combatContext
  rawNameContext, \* g_rawNameContext
  pool,           \* g_reticuleHealth, g_reticuleEnergy
  frame,          \* the retail function that is drawing
  drawn           \* what it drew: [retail, drawn] boxes and what should hold "of" them

combatVars ==
  <<canvas, retailCanvas, viewport, window, scalePercent, combatContext, rawNameContext, pool,
    frame, drawn>>

NoContext == [active |-> FALSE]
Idle == [in |-> "none"]

-----------------------------------------------------------------------------
(***************************************************************************)
(* Scales and measures.                                                    *)
(***************************************************************************)
FriendlyLabelScale == IF viewport <= Reference THEN 100 ELSE (100 * Reference) \div viewport

Least(a, b) == IF a < b THEN a ELSE b

ReticuleVisualScale(height) ==
  IF scalePercent <= 100 \/ height <= Reference THEN scalePercent
  ELSE scalePercent + (20 * Least(height - Reference, Reference) * Least(scalePercent - 100, 50))
                        \div (Reference * 50)

\* Deliberate fault, used by no specification: the pen stays behind the text.
MeasureAndAdvance(c, font, text) ==
  LET size == FontSize[font][text]
  IN  [size |-> size, canvas |-> Advance(RestoreCursor(c, [x |-> 0, y |-> 0, line |-> 0]),
                                         size.width, size.height)]

MeasureText(c, font, text) ==
  LET size == FontSize[font][text]
      used == Advance(RestoreCursor(c, [x |-> 0, y |-> 0, line |-> 0]), size.width, size.height)
  IN  [size |-> size, canvas |-> RestoreCursor(used, CaptureCursor(c))]

-----------------------------------------------------------------------------
(***************************************************************************)
(* ClientCombatTextScalePatch::Call, the hook of DrawText.                 *)
(***************************************************************************)
Sites == <<"firstShadow", "secondShadow", "text">>

BaselineOffset(site) ==
  Pixel * (CASE site = "firstShadow" -> 21 [] site = "secondShadow" -> 23 [] OTHER -> 22)

ShadowSide(site) ==
  CASE site = "firstShadow" -> 1 [] site = "secondShadow" -> -1 [] OTHER -> 0

\* Deliberate fault, used by no specification: the shadows keep their distance.
UnscaledShadow(site) == 0 * ShadowSide(site)

ShadowAdjustment(site) == ShadowSide(site) * Scaled(Pixel, scalePercent - 100)

\* CallOriginal.
DrawRetail(c, text) ==
  LET size == FontSize[c.font][text]
  IN  [canvas |-> Advance(c, size.width, size.height), drawn |-> AtPen(c, size.width, size.height)]

\* The pen is left where the retail text would have left it.
DrawScaledCombatText(c, text, site, offered) ==
  LET measured == MeasureText(c, c.font, text)
      size == measured.size
      retail == DrawRetail(measured.canvas, text).canvas
      height == Scaled(size.height, scalePercent)
      fit == Fitted(c.font, IF scalePercent > 100 THEN offered ELSE NoFont, text, height,
                    Scaled(size.width, scalePercent))
      baseline == combatContext.baselineY - BaselineOffset(site)
      shadow == ShadowAdjustment(site)
      pen == [c EXCEPT
        !.x = @ + shadow - IF c.centred THEN 0 ELSE (fit.width - size.width) \div 2,
        !.y = baseline - Scaled(baseline - @, scalePercent) + shadow - (height - size.height) \div 2]
  IN  [canvas |-> RestoreCursor(Advance(pen, fit.width, height), CaptureCursor(retail)),
       drawn |-> AtPen(pen, fit.width, height)]

\* The plain font of the raw name at the height of the bordered one, about the
\* centre the caller gave it with the bordered one.
DrawNormalizedRawName(c, text) ==
  LET reference == FontSize[rawNameContext.referenceFont][text]
      plain == FontSize[c.font][text]
      height == Scaled(reference.height, rawNameContext.targetScale)
      width == (plain.width * height) \div plain.height
      pen == [c EXCEPT
        !.x = @ + (Scaled(reference.width, rawNameContext.retailScale) - width) \div 2,
        !.y = @ + (Scaled(reference.height, rawNameContext.retailScale) - height) \div 2]
  IN  [canvas |-> Advance(pen, width, height), drawn |-> AtPen(pen, width, height)]

DrawText(c, text, site, offered) ==
  IF /\ site = "rawName" /\ rawNameContext.active
     /\ HasSize(FontSize[rawNameContext.referenceFont][text]) /\ HasSize(FontSize[c.font][text])
    THEN DrawNormalizedRawName(c, text)
  ELSE IF /\ site \in Range(Sites) /\ combatContext.active /\ scalePercent # 100
          /\ HasSize(FontSize[c.font][text])
    THEN DrawScaledCombatText(c, text, site, offered)
  ELSE DrawRetail(c, text)

-----------------------------------------------------------------------------
(***************************************************************************)
(* A damage number: two shadows and the text, one pixel apart, that rise   *)
(* above their baseline.                                                   *)
(***************************************************************************)
Quiet == frame = Idle /\ drawn = <<>>

\* The game goes on: it places the pen before whatever it draws next.
GameContinues ==
  /\ frame = Idle /\ drawn # <<>>
  /\ canvas' = RestoreCursor(canvas, [x |-> 0, y |-> 0, line |-> 0])
  /\ retailCanvas' = canvas'
  /\ drawn' = <<>>
  /\ UNCHANGED <<viewport, window, scalePercent, combatContext, rawNameContext, pool, frame>>

Drawing(of, retail, box) == [of |-> of, retail |-> retail, drawn |-> box]

DisplayDamageInfo(text, x, screenY, rise) ==
  /\ Quiet
  /\ frame' = [in |-> "damage", text |-> text, x |-> x, screenY |-> screenY, rise |-> rise,
               previous |-> combatContext, todo |-> Sites]
  /\ combatContext' = [active |-> TRUE, baselineY |-> screenY]
  /\ drawn' = <<>>
  /\ UNCHANGED <<canvas, retailCanvas, viewport, window, scalePercent, rawNameContext, pool>>

DamageText(offered) ==
  /\ frame.in = "damage" /\ frame.todo # <<>>
  /\ LET site == Head(frame.todo)
         shift == Pixel * ShadowSide(site)
         placed(c) == PenAt(c, frame.x + shift, frame.screenY - 22 * Pixel - frame.rise + shift)
         result == DrawText(placed(canvas), frame.text, site, offered)
         retail == DrawRetail(placed(retailCanvas), frame.text)
     IN  /\ canvas' = result.canvas
         /\ retailCanvas' = retail.canvas
         /\ drawn' = Append(drawn, Drawing("number", retail.drawn, result.drawn))
         /\ frame' = [frame EXCEPT !.todo = Tail(@)]
  /\ UNCHANGED <<viewport, window, scalePercent, combatContext, rawNameContext, pool>>

DamageReturns ==
  /\ frame.in = "damage" /\ frame.todo = <<>>
  /\ combatContext' = frame.previous
  /\ frame' = Idle
  /\ UNCHANGED <<canvas, retailCanvas, viewport, window, scalePercent, rawNameContext, pool, drawn>>

\* The retail text routine called from elsewhere.
OtherText(text, site, x, y) ==
  /\ Quiet
  /\ LET result == DrawText(PenAt(canvas, x, y), text, site, Replacement)
         retail == DrawRetail(PenAt(retailCanvas, x, y), text)
     IN  /\ canvas' = result.canvas
         /\ retailCanvas' = retail.canvas
         /\ drawn' = <<Drawing("other", retail.drawn, result.drawn)>>
  /\ UNCHANGED <<viewport, window, scalePercent, combatContext, rawNameContext, pool, frame>>

-----------------------------------------------------------------------------
(***************************************************************************)
(* Friendly labels: the helpers for names are shared with other UI.        *)
(***************************************************************************)
NameBox(x, y, font, text, scale) ==
  Box(x, y, Scaled(FontSize[font][text].width, scale), Scaled(FontSize[font][text].height, scale))

\* The canvas once the text of a box has been drawn, at a place and not centred.
DrawnIn(c, box) == Advance(PenAt(c, box.x, box.y), box.width, box.height)

\* The bordered helper draws with the font and scale it is given, at the place
\* it is given; the hook changes place and scale, and does nothing afterwards.
BorderedGlyphName(friendly, x, y, text, font, retailScale) ==
  /\ Quiet
  /\ LET retail == NameBox(x, y, font, text, retailScale)
         scaled == NameBox(x, y, font, text, Scaled(retailScale, FriendlyLabelScale))
         moved == [scaled EXCEPT !.x = x - (scaled.width - retail.width) \div 2,
                                 !.y = y - (scaled.height - retail.height) \div 2]
         moves == friendly /\ FriendlyLabelScale # 100 /\ HasSize(FontSize[font][text])
         box == IF moves THEN moved ELSE retail
     IN  /\ canvas' = DrawnIn(canvas, box)
         /\ retailCanvas' = DrawnIn(retailCanvas, retail)
         /\ drawn' = <<Drawing(IF moves THEN "label" ELSE "other", retail, box)>>
  /\ UNCHANGED <<viewport, window, scalePercent, combatContext, rawNameContext, pool, frame>>

\* Deliberate fault, used by no specification: the context of any caller.
ContextForAll(friendly, font, retailScale) ==
  [active |-> TRUE, referenceFont |-> font, retailScale |-> retailScale,
   targetScale |-> Scaled(retailScale, FriendlyLabelScale)]

NameContext(friendly, font, retailScale) ==
  IF friendly /\ FriendlyLabelScale # 100
    THEN [active |-> TRUE, referenceFont |-> font, retailScale |-> retailScale,
          targetScale |-> Scaled(retailScale, FriendlyLabelScale)]
    ELSE rawNameContext

RawGlyphName(friendly, x, y, text, font, retailScale) ==
  /\ Quiet
  /\ frame' = [in |-> "name", friendly |-> friendly, text |-> text, x |-> x, y |-> y,
               retailScale |-> retailScale, reference |-> font, previous |-> rawNameContext]
  /\ rawNameContext' = NameContext(friendly, font, retailScale)
  /\ drawn' = <<>>
  /\ UNCHANGED <<canvas, retailCanvas, viewport, window, scalePercent, combatContext, pool>>

\* The retail helper of raw names on its canvas: its plain font, not centred.
WithPlainFont(c, x, y, plain) == [PenAt(c, x, y) EXCEPT !.font = plain, !.centred = FALSE]

\* The retail helper selects its plain font, draws at the caller's place and
\* takes back what it selected: of the text, the cursor is left.
RawNameText(plain) ==
  /\ frame.in = "name" /\ drawn = <<>>
  /\ LET placed(c) == WithPlainFont(c, frame.x, frame.y, plain)
         result == DrawText(placed(canvas), frame.text, "rawName", NoFont)
         retail == DrawRetail(placed(retailCanvas), frame.text)
         reference == NameBox(frame.x, frame.y, frame.reference, frame.text, frame.retailScale)
         moves == /\ frame.friendly /\ viewport > Reference
                  /\ HasSize(FontSize[frame.reference][frame.text])
                  /\ HasSize(FontSize[plain][frame.text])
     IN  /\ canvas' = RestoreCursor(canvas, CaptureCursor(result.canvas))
         /\ retailCanvas' = RestoreCursor(retailCanvas, CaptureCursor(retail.canvas))
         /\ drawn' = <<IF moves THEN Drawing("label", reference, result.drawn)
                       ELSE Drawing("other", retail.drawn, result.drawn)>>
  /\ UNCHANGED <<viewport, window, scalePercent, combatContext, rawNameContext, pool, frame>>

RawNameReturns ==
  /\ frame.in = "name" /\ drawn # <<>>
  /\ rawNameContext' = frame.previous
  /\ frame' = Idle
  /\ UNCHANGED <<canvas, retailCanvas, viewport, window, scalePercent, combatContext, pool, drawn>>

\* Target markers and the other tiles.
DrawMaterialTile(marker, x, y, width, height) ==
  /\ Quiet
  /\ LET retail == Box(x, y, width, height)
         grown(length) == Scaled(length, scalePercent) - length
     IN  drawn' = <<Drawing(IF marker THEN "marker" ELSE "other", retail,
                      IF marker /\ width > 0 /\ height > 0
                        THEN Box(x - grown(width) \div 2, y - grown(height) \div 2,
                                 Scaled(width, scalePercent), Scaled(height, scalePercent))
                        ELSE retail)>>
  /\ UNCHANGED <<canvas, retailCanvas, viewport, window, scalePercent, combatContext, rawNameContext, pool, frame>>

-----------------------------------------------------------------------------
(***************************************************************************)
(* The reticule: its values and warnings reach the screen through a text   *)
(* routine that all numeric UI shares.                                     *)
(***************************************************************************)
DisplayedReticuleValue(value) == IF value < 0 \/ value > MaxInt THEN -1 ELSE value

\* No reticule: there is none to update.
ReticuleUpdate(present, health, energy) ==
  /\ Quiet
  /\ pool' = IF present THEN [health |-> DisplayedReticuleValue(health),
                              energy |-> DisplayedReticuleValue(energy)]
             ELSE [health |-> -1, energy |-> -1]
  /\ drawn' = <<>>
  /\ UNCHANGED <<canvas, retailCanvas, viewport, window, scalePercent, combatContext, rawNameContext, frame>>

NotANumber == -2

ParseUnsignedInteger(characters) ==
  IF characters = <<>> THEN NotANumber
  ELSE FoldLeft(LAMBDA parsed, digit :
                  IF parsed = NotANumber \/ digit > 9 THEN NotANumber
                  ELSE IF parsed > (MaxInt - digit) \div 10 THEN NotANumber
                  ELSE parsed * 10 + digit, 0, characters)

\* The place relative to the middle of the window, in percent of its height
\* and doubled: 0.03 to 0.17 is 6 to 34 of these.
Sideways(x) == 100 * (2 * x - window.width)
Down(y) == 100 * (2 * y - window.height)

MatchReticuleText(x, y, text) ==
  LET value == ParseUnsignedInteger(Spelling[text])
      h == window.height
  IN  IF text \in Warnings THEN "warning"
      ELSE IF value = NotANumber \/ window.width <= 0 \/ h <= 0 THEN "none"
      ELSE IF Down(y) < 0 \/ Down(y) > 18 * h THEN "none"
      ELSE IF value = pool.health /\ Sideways(x) >= -34 * h /\ Sideways(x) <= -6 * h THEN "pool"
      ELSE IF value = pool.energy /\ Sideways(x) >= 6 * h /\ Sideways(x) <= 34 * h THEN "pool"
      ELSE "none"

\* The routine returns its width in whole pixels.
WholePixels(length) == Pixel * (length \div Pixel)

LowLevelRawText(fromUiString, x, y, text, font, offered) ==
  /\ Quiet
  /\ LET matched == IF fromUiString THEN MatchReticuleText(x, y, text) ELSE "none"
         size == FontSize[font][text]
         retail == Box(Pixel * x, Pixel * y, size.width, size.height)
         scale == ReticuleVisualScale(window.height)
         height == Scaled(size.height, scale)
         fit == Fitted(font, IF scalePercent > 100 THEN offered ELSE NoFont, text, height,
                       Scaled(size.width, scale))
         weight == IF matched = "pool" /\ fit.font # font THEN Pixel ELSE 0
         offset == IF WholePixels(size.width) > 0 /\ WholePixels(fit.width) > 0
                     THEN (WholePixels(size.width) - WholePixels(fit.width) - weight) \div 2 ELSE 0
     IN  drawn' = <<IF matched = "none" \/ scalePercent = 100
                      THEN Drawing("other", retail, retail)
                      ELSE Drawing("reticule", retail,
                             Box(retail.x + offset, retail.y, fit.width + weight, height))>>
  /\ UNCHANGED <<canvas, retailCanvas, viewport, window, scalePercent, combatContext, rawNameContext, pool, frame>>

-----------------------------------------------------------------------------
Clamp(percent) == IF percent < 50 THEN 50 ELSE IF percent > 200 THEN 200 ELSE percent

\* The slider, or the saved preference.
ApplyScalePercent(percent) ==
  /\ Quiet
  /\ scalePercent' = Clamp(percent)
  /\ drawn' = <<>>
  /\ UNCHANGED <<canvas, retailCanvas, viewport, window, combatContext, rawNameContext, pool, frame>>

CombatInit ==
  /\ canvas \in {[x |-> 0, y |-> 0, line |-> 0, font |-> f, centred |-> c] :
                   f \in {f \in Fonts : f # Replacement}, c \in BOOLEAN}
  /\ retailCanvas = canvas
  /\ viewport \in Viewports /\ window \in Windows
  /\ scalePercent = 100
  /\ combatContext = NoContext /\ rawNameContext = NoContext
  /\ pool = [health |-> -1, energy |-> -1]
  /\ frame = Idle /\ drawn = <<>>

\* In eighths of a pixel.
Places == {Pixel * x : x \in Columns} \X {Pixel * y : y \in Rows}

CombatNext ==
  \/ GameContinues
  \/ \E percent \in Percents : ApplyScalePercent(percent)
  \/ \E text \in Texts, place \in Places, rise \in {0, 3 * Pixel} :
       DisplayDamageInfo(text, place[1], place[2], rise)
  \/ \E offered \in {Replacement, NoFont} : DamageText(offered)
  \/ DamageReturns
  \/ \E text \in Texts, site \in Range(Sites) \cup {"rawName", "another"}, place \in Places :
       OtherText(text, site, place[1], place[2])
  \/ \E friendly \in BOOLEAN, text \in Texts, font \in Fonts, place \in Places, retailScale \in {50, 100} :
       \/ BorderedGlyphName(friendly, place[1], place[2], text, font, retailScale)
       \/ RawGlyphName(friendly, place[1], place[2], text, font, retailScale)
  \/ \E plain \in Fonts : RawNameText(plain)
  \/ RawNameReturns
  \/ \E marker \in BOOLEAN, place \in Places, width \in {0, 32 * Pixel} :
       DrawMaterialTile(marker, place[1], place[2], width, 16 * Pixel)
  \/ \E present \in BOOLEAN, health, energy \in Pools : ReticuleUpdate(present, health, energy)
  \/ \E fromUiString \in BOOLEAN, x \in Columns, y \in Rows, text \in Texts,
        font \in Fonts \ {Replacement}, offered \in {Replacement, NoFont} :
       LowLevelRawText(fromUiString, x, y, text, font, offered)

-----------------------------------------------------------------------------
(***************************************************************************)
(* Properties.                                                             *)
(***************************************************************************)
\* The point a damage number grows from, doubled.
AnchorX == 2 * frame.x + (IF canvas.centred THEN 0 ELSE FontSize[canvas.font][frame.text].width)
AnchorY == 2 * (frame.screenY - 22 * Pixel) + FontSize[canvas.font][frame.text].height

\* The retail distance at the player's scale, but for the eighths of a pixel
\* that the scaled lengths are rounded to; distances are doubled.
NearlyScaled(distance, retail) == 100 * distance - scalePercent * retail \in -500 .. 500

\* A damage number and its two shadows grow together about one point, in
\* whichever font they are drawn: every distance from it is the retail
\* distance at the player's scale.
DamageTextScalesAsOne ==
  frame.in = "damage" => \A d \in Range(drawn) : HasSize(d.retail) =>
    /\ NearlyScaled(CentreX(d.drawn) - AnchorX, CentreX(d.retail) - AnchorX)
    /\ NearlyScaled(CentreY(d.drawn) - AnchorY, CentreY(d.retail) - AnchorY)

\* About one centre, but for an eighth; reticule texts have whole pixels only.
SameCentre(box, other) ==
  CentreX(box) - CentreX(other) \in -1 .. 1 /\ CentreY(box) - CentreY(other) \in -1 .. 1

\* Labels, markers and reticule texts keep the centre the game gave them, and
\* what other UI draws with the same routines stays where and what it was.
LabelsKeepCentre ==
  \A d \in Range(drawn) :
    /\ d.of = "other" => d.drawn = d.retail
    /\ d.of \in {"label", "marker"} => SameCentre(d.drawn, d.retail)
    /\ d.of = "reticule" =>
         /\ d.drawn.y = d.retail.y
         /\ d.retail.width >= 2 * Pixel /\ d.drawn.width >= 2 * Pixel =>
              CentreX(d.drawn) - CentreX(d.retail) \in -2 * Pixel .. 2 * Pixel

\* The cursor stands behind a box of text.
CursorBehind(box) ==
  /\ canvas.x = box.x + box.width /\ canvas.y = box.y
  /\ canvas.line >= box.height

\* Whatever a hook has drawn, measured or left to retail, the canvas is as
\* retail drawing alone would have left it, but for one case: a label drawn at
\* its own scale hands no cursor back, and leaves it behind the label as drawn.
\* Font and centring are retail's in that case too, and no context outlives the
\* call it was made for.
CombatCanvasHandedBack ==
  /\ canvas.font = retailCanvas.font /\ canvas.centred = retailCanvas.centred
  /\ canvas = retailCanvas \/ \E d \in Range(drawn) : d.of = "label"
  /\ \A d \in Range(drawn) : d.of = "label" => CursorBehind(d.drawn)
  /\ frame = Idle => combatContext = NoContext /\ rawNameContext = NoContext
=============================================================================
