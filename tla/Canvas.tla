-------------------------------- MODULE Canvas --------------------------------
(***************************************************************************)
(* The engine's Canvas and the text renderer behind it, as far as the text *)
(* patches rely on them: external, known only by how                       *)
(* CombatTextScalePatch.cpp and F2StatsScalingPatch.cpp use them.  With the *)
(* steps both patches share: keeping the cursor, and fitting a font.       *)
(*                                                                         *)
(* Lengths are in eighths of a pixel, scales in percent.                   *)
(***************************************************************************)
EXTENDS Integers, Sequences

CONSTANTS
  Texts,     \* texts that are drawn
  FontSize,  \* [font -> [text -> [width, height]]] at scale 100; 0 without glyphs
  NoFont     \* a null font

Fonts == DOMAIN FontSize

ASSUME SizesAssumption ==
  \A font \in Fonts, text \in Texts : FontSize[font][text] \in [width : Nat, height : Nat]

Pixel == 8

Scaled(length, percent) == (length * percent) \div 100

\* The height the game's HUD was laid out for.
Reference == 1080

Box(x, y, width, height) == [x |-> x, y |-> y, width |-> width, height |-> height]

\* Twice the centre, which need not lie on an eighth.
CentreX(box) == 2 * box.x + box.width
CentreY(box) == 2 * box.y + box.height

CaptureCursor(canvas) == [x |-> canvas.x, y |-> canvas.y, line |-> canvas.line]

RestoreCursor(canvas, cursor) ==
  [canvas EXCEPT !.x = cursor.x, !.y = cursor.y, !.line = cursor.line]

\* The caller of the renderer puts the pen where its text begins.
PenAt(canvas, x, y) == [canvas EXCEPT !.x = x, !.y = y]

\* The renderer leaves the pen behind the text, measured or drawn.
Advance(canvas, width, height) ==
  [canvas EXCEPT !.x = @ + width, !.line = IF height > @ THEN height ELSE @]

\* The box of text drawn at the pen; with bCentered (bit 0 of the flags) the
\* renderer centres it itself, at a distance from the pen that is the same
\* for every width.
AtPen(canvas, width, height) ==
  Box(IF canvas.centred THEN canvas.x - width \div 2 ELSE canvas.x, canvas.y, width, height)

HasSize(size) == size.width > 0 /\ size.height > 0

\* Text at the given height in the offered font where it has the glyphs.
Fitted(source, offered, text, height, fallback) ==
  IF offered # NoFont /\ HasSize(FontSize[offered][text])
    THEN [font |-> offered,
          width |-> (FontSize[offered][text].width * height) \div FontSize[offered][text].height]
    ELSE [font |-> source, width |-> fallback]
=============================================================================
