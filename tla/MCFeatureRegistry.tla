-------------------------- MODULE MCFeatureRegistry --------------------------
(***************************************************************************)
(* Constants for the registry run: a two-slot table, three well-formed     *)
(* features (one without a handler), an id collision and two invalid       *)
(* registrations; tokens that match, mismatch, name an unknown feature,    *)
(* carry the reserved release zero, or are ordinary bandwidth values.      *)
(***************************************************************************)
EXTENDS FeatureRegistry

CONSTANTS fov, text, plates, handlerA, handlerB

MCNames == {fov, text, plates}
MCHandlers == {handlerA, handlerB}

MCRegistrations ==
  { [featureId |-> 1, featureRelease |-> 7, name |-> fov, handler |-> handlerA],
    [featureId |-> 1, featureRelease |-> 8, name |-> fov, handler |-> handlerA],
    [featureId |-> 2, featureRelease |-> 7, name |-> text, handler |-> NoHandler],
    [featureId |-> 255, featureRelease |-> 65535, name |-> plates, handler |-> handlerB],
    [featureId |-> 0, featureRelease |-> 1, name |-> text, handler |-> NoHandler],
    [featureId |-> 2, featureRelease |-> 0, name |-> text, handler |-> NoHandler],
    [featureId |-> 2, featureRelease |-> 1, name |-> NoName, handler |-> NoHandler] }

MCTokens ==
  { MakeToken(id, release) : id \in {1, 2, 9, 255}, release \in {0, 7, 8, 65535} }
    \cup {10000, -1, -1828716545}
=============================================================================
