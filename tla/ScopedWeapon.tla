----------------------------- MODULE ScopedWeapon -----------------------------
(***************************************************************************)
(* The hook of the engine's SetHidden (ScopedWeaponVisibilityPatch.cpp).   *)
(* Every tick the body helper passes the pawn's visibility on to what it   *)
(* carries, and the device helper hides what a scope must not show.        *)
(***************************************************************************)
EXTENDS Integers

CONSTANTS
  Meshes,  \* the components of a pawn
  Slots    \* equipment slots; the last one stands for none

VARIABLES
  pawn,        \* [role, character, inHand, forms]: the owner of the components
  zoomed,      \* IsDeviceHiddenDueToZoomVisual()
  hidden,      \* [mesh -> the engine's flag]
  last,        \* history: [mesh -> [by, hide]], the last request since the scope
               \* or the hand changed; by is "nobody" before the first
  reattached   \* history: the meshes the body helper brought back into sight
               \* while they were in hand and the scope was in use

scopeVars == <<pawn, zoomed, hidden, last, reattached>>

LocalCharacterOwner == pawn.role = "autonomous" /\ pawn.character

\* The form in the slot that is in hand, if it is this pawn's.
CurrentInHandForm ==
  IF LocalCharacterOwner /\ pawn.inHand \in DOMAIN pawn.forms /\ pawn.forms[pawn.inHand].owner = "pawn"
    THEN pawn.forms[pawn.inHand].meshes ELSE {}

\* Deliberate fault, used by no specification: every caller is suppressed.
OverridesForAll(caller, mesh, newHidden) ==
  mesh \in CurrentInHandForm /\ ~newHidden /\ zoomed

\* Deliberate fault, used by no specification: whether the scope is in use is
\* not asked.
OverridesOutOfScope(caller, mesh, newHidden) ==
  mesh \in CurrentInHandForm /\ caller = "body" /\ ~newHidden

BodyTryingToOverrideZoom(caller, mesh, newHidden) ==
  mesh \in CurrentInHandForm /\ caller = "body" /\ ~newHidden /\ zoomed

Unasked == [m \in Meshes |-> [by |-> "nobody", hide |-> FALSE]]

SetHidden(caller, mesh, newHidden) ==
  /\ hidden' = IF BodyTryingToOverrideZoom(caller, mesh, newHidden)
                 THEN hidden ELSE [hidden EXCEPT ![mesh] = newHidden]
  /\ last' = [last EXCEPT ![mesh] = [by |-> caller, hide |-> newHidden]]
  /\ reattached' = reattached \cup
       {m \in CurrentInHandForm : zoomed /\ caller = "body" /\ hidden[m] /\ ~hidden'[m]}
  /\ UNCHANGED <<pawn, zoomed>>

\* The scope is taken up or left; the helpers' next calls follow it.
Zoom(on) ==
  /\ zoomed' = on /\ last' = Unasked
  /\ UNCHANGED <<pawn, hidden, reattached>>

\* The pawn takes another device in hand, or none.
Equip(slot) ==
  /\ pawn' = [pawn EXCEPT !.inHand = slot] /\ last' = Unasked
  /\ UNCHANGED <<zoomed, hidden, reattached>>

ScopeInit ==
  /\ pawn \in [role : {"autonomous", "simulated"}, character : BOOLEAN, inHand : Slots \cup {99},
               forms : [Slots -> [owner : {"pawn", "another"}, meshes : SUBSET Meshes]]]
  /\ zoomed = FALSE
  /\ hidden = [m \in Meshes |-> FALSE] /\ last = Unasked /\ reattached = {}

\* The helpers and the other callers show and hide in any order, in a frame in
\* which the scope has just changed too.
ScopeNext ==
  \/ \E caller \in {"body", "device", "other"}, mesh \in Meshes, newHidden \in BOOLEAN :
       SetHidden(caller, mesh, newHidden)
  \/ \E on \in BOOLEAN : Zoom(on)
  \/ \E slot \in Slots \cup {99} : Equip(slot)

ScopeSpec == ScopeInit /\ [][ScopeNext]_scopeVars

\* What the patch is for: the body helper never brings a mesh back into sight
\* that the scope needs hidden. What it must not cost: out of the scope, and for
\* a mesh that is not in hand, the last request of anybody counts, so that the
\* weapon is back with the first call that shows it, however many calls of the
\* body helper were dropped before; in the scope, that of every caller but the
\* body helper, and the body helper's too when it hides.
ZoomKept ==
  /\ reattached = {}
  /\ \A m \in Meshes :
       \/ last[m].by = "nobody"
       \/ hidden[m] = last[m].hide
       \/ zoomed /\ m \in CurrentInHandForm /\ last[m].by = "body" /\ ~last[m].hide
=============================================================================
