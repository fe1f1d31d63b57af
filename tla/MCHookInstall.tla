---------------------------- MODULE MCHookInstall ----------------------------
(***************************************************************************)
(* Constants for the runs of the installer: three patches, one with two    *)
(* hooks, and two game threads.  Three of the functions share a page and   *)
(* one of these starts on the page before.                                 *)
(***************************************************************************)
EXTENDS HookInstall

CONSTANTS audio, text, glyph, fov, handshake, game, render

MCPatches == <<<<audio>>, <<text, glyph>>, <<fov>>>>
MCConfigured == {text, fov}
MCHooks == {audio, text, glyph, fov, handshake}
MCPagesOf ==
  [h \in MCHooks |->
     CASE h = audio -> <<2>> [] h = text -> <<1, 2>> [] h = glyph -> <<2>>
       [] h = fov -> <<1>> [] h = handshake -> <<3>>]
TwoGameThreads == {game, render}
=============================================================================
