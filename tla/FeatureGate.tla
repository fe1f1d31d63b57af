----------------------------- MODULE FeatureGate -----------------------------
(***************************************************************************)
(* What the handshake promises to a server-gated feature, without tables,  *)
(* tokens or notices: a registered feature may be enabled only while the   *)
(* last release the current server instance advertised for it is exactly   *)
(* the release the client registered.                                      *)
(***************************************************************************)
CONSTANTS
  Ids,        \* feature ids
  Releases,   \* feature releases a server may advertise
  None        \* "nothing registered" and "nothing advertised"

VARIABLES
  client,     \* the release the client registered for each id
  advert,     \* the last release advertised since the last travel
  enabled     \* the features whose gate is open

gateVars == <<client, advert, enabled>>

GateInit ==
  /\ client = [i \in Ids |-> None]
  /\ advert = [i \in Ids |-> None]
  /\ enabled = {}

Introduce(i) ==
  /\ client[i] = None
  /\ client'[i] \in Releases
  /\ client' = [client EXCEPT ![i] = client'[i]]
  /\ UNCHANGED <<advert, enabled>>

\* An exact match may open a closed gate and never closes an open one.
AdvertiseMatch(i) ==
  /\ client[i] # None
  /\ advert' = [advert EXCEPT ![i] = client[i]]
  /\ enabled' \in {enabled, enabled \cup {i}}
  /\ UNCHANGED client

\* Any other release closes the gate.
AdvertiseOther(i) ==
  /\ client[i] # None
  /\ advert'[i] \in Releases \ {client[i]}
  /\ advert' = [advert EXCEPT ![i] = advert'[i]]
  /\ enabled' = enabled \ {i}
  /\ UNCHANGED client

Travel ==
  /\ advert' = [i \in Ids |-> None]
  /\ enabled' = {}
  /\ UNCHANGED client

GateNext ==
  \/ \E i \in Ids : Introduce(i) \/ AdvertiseMatch(i) \/ AdvertiseOther(i)
  \/ Travel

GateSpec == GateInit /\ [][GateNext]_gateVars
=============================================================================
