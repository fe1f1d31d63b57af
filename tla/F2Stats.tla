-------------------------------- MODULE F2Stats --------------------------------
(***************************************************************************)
(* The F2 statistics at the window's scale (F2StatsScalingPatch.cpp).  The *)
(* retail function draws rows downwards, each against the right edge, and  *)
(* returns where it ended; the hook of its text routine scales each row    *)
(* about where the function began.                                         *)
(***************************************************************************)
EXTENDS Canvas, SequencesExt

CONSTANTS
  F2Windows,     \* heights of the window in pixels; 0 without one
  F2Font,        \* the font retail draws the rows in
  F2Replacement, \* the sharper font the font cache may offer
  MaxRows        \* bound: rows one call draws

VARIABLES
  resolution, \* GameWindow::CurrentClientSize().height
  f2Context,  \* g_f2Context
  stats,      \* the call of the retail function
  rows        \* the rows it drew, as [retail, drawn] boxes

f2Vars == <<resolution, f2Context, stats, rows>>

NoF2Context == [active |-> FALSE, scale |-> 100]
NoStats == [running |-> FALSE]

ScaleForVerticalResolution(vertical) ==
  IF vertical <= 0 THEN 100 ELSE 100 + (100 * (vertical - Reference)) \div (2 * Reference)

F2Scale == ScaleForVerticalResolution(resolution)

\* The row beneath the last one, ending at the right edge.
RowHeight == FontSize[F2Font][CHOOSE text \in Texts : HasSize(FontSize[F2Font][text])].height

\* A font's rows have one height, and a text that has a width keeps one at
\* every scale, in whichever font it is drawn.
ASSUME F2FontAssumption ==
  /\ F2Windows \subseteq Int /\ RowHeight \in Nat
  /\ F2Font \in Fonts /\ F2Replacement \in Fonts
  /\ \A font \in {F2Font, F2Replacement}, text \in Texts :
       FontSize[font][text] \in [width : Nat, height : Nat]
  /\ \A text \in Texts :
       LET size == FontSize[F2Font][text]
           offered == FontSize[F2Replacement][text]
       IN  /\ size.height <= RowHeight
           /\ size.width > 0 => size.width >= Pixel
           /\ size.width > 0 /\ HasSize(offered) => offered.width * size.height >= offered.height

BeginF2Stats(right, y) ==
  /\ ~stats.running
  /\ stats' = [running |-> TRUE, right |-> right, base |-> y, y |-> y,
               scale |-> F2Scale, previous |-> f2Context, end |-> y]
  /\ f2Context' = IF F2Scale = 100 THEN f2Context
                  ELSE [active |-> TRUE, scale |-> F2Scale, baseY |-> y]
  /\ rows' = <<>>
  /\ UNCHANGED resolution

\* Retail draws the row and a shadow one pixel to the right and below.
RetailRow(x, y, size) == Box(x, y, size.width + Pixel, size.height + Pixel)

\* Deliberate fault, used by no specification: the row keeps its left edge.
LeftAligned(x, retailWidth, targetWidth, scale) == x + 0 * (retailWidth + targetWidth + scale)

ScaledX(x, retailWidth, targetWidth, scale) ==
  x + retailWidth + Pixel - targetWidth - Scaled(Pixel, scale)

F2Text(text, fromStats, offered) ==
  /\ stats.running /\ Len(rows) < MaxRows
  /\ LET size == FontSize[F2Font][text]
         x == stats.right - size.width
         scale == f2Context.scale
         fit == Fitted(F2Font, IF scale > 100 THEN offered ELSE NoFont, text,
                       Scaled(size.height, scale), Scaled(size.width, scale))
         retail == RetailRow(x, stats.y, size)
     IN  rows' = Append(rows,
           [ofStats |-> fromStats, retail |-> retail, drawn |->
              IF /\ f2Context.active /\ fromStats /\ scale # 100
                 /\ size.width > 0 /\ fit.width > 0
                THEN Box(ScaledX(x, size.width, fit.width, scale),
                         f2Context.baseY + Scaled(stats.y - f2Context.baseY, scale),
                         fit.width + Scaled(Pixel, scale),
                         Scaled(size.height, scale) + Scaled(Pixel, scale))
                ELSE retail])
  /\ stats' = [stats EXCEPT !.y = IF fromStats THEN @ + RowHeight + 2 * Pixel ELSE @]
  /\ UNCHANGED <<resolution, f2Context>>

\* retailEndY; a function that cannot draw may return a smaller one.
EndF2Stats(failed) ==
  /\ stats.running
  /\ f2Context' = stats.previous
  /\ LET retailEnd == IF failed THEN stats.base - Pixel ELSE stats.y
     IN  stats' = [stats EXCEPT !.running = FALSE,
                     !.end = IF stats.scale = 100 \/ retailEnd < stats.base THEN retailEnd
                             ELSE stats.base + Scaled(retailEnd - stats.base, stats.scale)]
  /\ (failed => rows = <<>>)
  /\ UNCHANGED <<resolution, rows>>

WindowResized == /\ ~stats.running
                 /\ resolution' \in F2Windows
                 /\ UNCHANGED <<f2Context, stats, rows>>

F2Init == /\ resolution \in F2Windows
          /\ f2Context = NoF2Context /\ stats = NoStats /\ rows = <<>>

F2Next ==
  \/ \E right \in {100 * Pixel, 200 * Pixel}, y \in {8 * Pixel, 24 * Pixel} : BeginF2Stats(right, y)
  \/ \E text \in Texts, fromStats \in BOOLEAN, offered \in {F2Replacement, NoFont} :
       F2Text(text, fromStats, offered)
  \/ \E failed \in BOOLEAN : EndF2Stats(failed)
  \/ WindowResized

\* Whatever font each row got, the rows of one call keep the retail layout:
\* they end, shadow included, where the retail rows end, follow one another
\* without touching, and the end that is returned is below them all; the text
\* that other code draws meanwhile is left alone.
F2RowsKeepLayout ==
  LET own == {i \in DOMAIN rows : rows[i].ofStats /\ rows[i].retail.width > Pixel}
      bottom(box) == box.y + box.height
  IN  /\ \A i \in own :
           rows[i].drawn.x + rows[i].drawn.width = rows[i].retail.x + rows[i].retail.width
      /\ \A i, j \in own : i < j => bottom(rows[i].drawn) < rows[j].drawn.y
      /\ ~stats.running => \A i \in own : bottom(rows[i].drawn) <= stats.end
      /\ \A i \in DOMAIN rows : ~rows[i].ofStats => rows[i].drawn = rows[i].retail
      /\ ~stats.running => f2Context = NoF2Context
=============================================================================
