------------------------------ MODULE GameWindow ------------------------------
(***************************************************************************)
(* The size of the game's window (GameWindow.cpp): a window found once is  *)
(* kept as long as it is this process's and has a size; otherwise the      *)
(* largest visible one is looked for.  Windows are made, resized and       *)
(* destroyed between the calls; a handle may come to name another window.  *)
(***************************************************************************)
EXTENDS Integers

CONSTANTS
  Handles,   \* window handles
  NoWindow,  \* a null handle
  Areas      \* client areas; 0 for a minimised window

ASSUME WindowAssumption == NoWindow \notin Handles /\ Areas \subseteq Nat

VARIABLES
  windows,     \* [handle -> [own, visible, area]] of the windows there are
  gameWindow,  \* g_gameWindow
  answer       \* what the last call returned: [handle, area]

windowVars == <<windows, gameWindow, answer>>

Window == [own : BOOLEAN, visible : BOOLEAN, area : Areas]

\* Deliberate fault, used by no specification: the handle is trusted.
ExistsAtAll(handle) == handle \in DOMAIN windows

IsCurrentProcessWindow(handle) == handle \in DOMAIN windows /\ windows[handle].own

ClientSizeFor(handle) == IF handle \in DOMAIN windows THEN windows[handle].area ELSE 0

\* Of several windows of one size, any one: the order is the system's.
LargestProcessWindows ==
  LET found == {h \in DOMAIN windows : windows[h].own /\ windows[h].visible /\ windows[h].area > 0}
  IN  IF found = {} THEN {NoWindow}
      ELSE {h \in found : \A other \in found : windows[other].area <= windows[h].area}

CurrentClientSize ==
  /\ IF IsCurrentProcessWindow(gameWindow) /\ ClientSizeFor(gameWindow) > 0
       THEN gameWindow' = gameWindow
       ELSE gameWindow' \in LargestProcessWindows
  /\ answer' = [handle |-> gameWindow', area |-> ClientSizeFor(gameWindow')]
  /\ UNCHANGED windows

WindowsChange ==
  /\ answer' = [handle |-> NoWindow, area |-> -1]
  /\ \/ \E h \in Handles, w \in Window :
          windows' = [x \in DOMAIN windows \cup {h} |-> IF x = h THEN w ELSE windows[x]]
     \/ \E h \in DOMAIN windows : windows' = [x \in DOMAIN windows \ {h} |-> windows[x]]
  /\ UNCHANGED gameWindow

WindowInit ==
  /\ windows = [h \in {} |-> 0] /\ gameWindow = NoWindow
  /\ answer = [handle |-> NoWindow, area |-> -1]

WindowNext == CurrentClientSize \/ WindowsChange

WindowSpec == WindowInit /\ [][WindowNext]_windowVars

\* A size that is returned is that of a window of this process at that time,
\* and no size is returned only if no visible window of it has one.
SizeIsOwn ==
  answer.area # -1 =>
    LET sizes == {windows[h].area : h \in {x \in DOMAIN windows : windows[x].own}}
    IN  /\ answer.area > 0 => answer.area \in sizes
        /\ answer.area = 0 =>
             \A h \in DOMAIN windows : (windows[h].own /\ windows[h].visible) => windows[h].area = 0
=============================================================================
