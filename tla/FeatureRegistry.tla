--------------------------- MODULE FeatureRegistry ---------------------------
(***************************************************************************)
(* The fixed table of server-gated features (FeatureRegistry.cpp): startup *)
(* registration, server advertisements, and the reset at every travel      *)
(* boundary.  A handler is the feature's own activation callback; what it  *)
(* does is outside the repository, so the model keeps only how often it was     *)
(* switched on and off.                                                    *)
(***************************************************************************)
EXTENDS FeatureMagic

CONSTANTS
  MaxFeatures,    \* kMaximumFeatureCount (32 in the code)
  Names,          \* names of 1 to 64 printable characters
  NoName,         \* every name IsValidFeatureName refuses, the null one included
  Handlers,       \* activation callbacks
  NoHandler,      \* the null callback
  Registrations,  \* what the compiled features pass to Register
  Tokens          \* ClientCapBandwidth values the server may send

Slots == 1 .. MaxFeatures

FeatureState == {"NotAdvertised", "Active", "ReleaseMismatch", "ActivationFailed"}

Registration ==
  [featureId : FeatureId, featureRelease : FeatureRelease,
   name : Names \cup {NoName}, handler : Handlers \cup {NoHandler}]

Entry ==
  [used : BOOLEAN, mismatchNoticeIssued : BOOLEAN, state : FeatureState,
   serverRelease : FeatureRelease, registration : Registration]

ASSUME RegistryConstants ==
  /\ MaxFeatures \in Nat \ {0}
  /\ NoName \notin Names
  /\ NoHandler \notin Handlers
  /\ Registrations \subseteq Registration
  /\ Tokens \subseteq Int32

VARIABLES
  entries,    \* the table
  runtime,    \* per slot: how often the handler switched the feature on, less how often off
  phase       \* "registering", then "attached"; "failed" when a Register failed

regVars == <<entries, runtime, phase>>

FreeEntry ==
  [used |-> FALSE, mismatchNoticeIssued |-> FALSE, state |-> "NotAdvertised",
   serverRelease |-> 0,
   registration |-> [featureId |-> 0, featureRelease |-> 0,
                     name |-> NoName, handler |-> NoHandler]]

RegInit ==
  /\ entries = [s \in Slots |-> FreeEntry]
  /\ runtime = [s \in Slots |-> 0]
  /\ phase = "registering"

-----------------------------------------------------------------------------
Holds(s, id) == entries[s].used /\ entries[s].registration.featureId = id

\* The slot the linear search returns: the first one that holds the id.
Find(s, id) == s \in Slots /\ Holds(s, id) /\ \A r \in Slots : r < s => ~Holds(r, id)

Known(id) == \E s \in Slots : Holds(s, id)

IsActive(id) == \E s \in Slots : Find(s, id) /\ entries[s].state = "Active"

HasRegistrations == \E s \in Slots : entries[s].used

FirstFree(s) == ~entries[s].used /\ \A r \in Slots : r < s => entries[r].used

-----------------------------------------------------------------------------
(***************************************************************************)
(* Register.  Startup propagates a refusal: InstallHooks then returns      *)
(* before it attaches anything.                                            *)
(***************************************************************************)
ValidRegistration(reg) ==
  reg.featureId # 0 /\ reg.featureRelease # 0 /\ reg.name \in Names

\* Deliberate fault, used by no specification: stores without looking for the id first.
StoreWithoutFind(reg) ==
  /\ \E s \in Slots :
       /\ FirstFree(s)
       /\ entries' = [entries EXCEPT ![s].used = TRUE, ![s].registration = reg]
  /\ UNCHANGED <<runtime, phase>>

StoreRegistration(reg) ==
  /\ ~Known(reg.featureId)
  /\ \E s \in Slots :
       /\ FirstFree(s)
       /\ entries' = [entries EXCEPT ![s].used = TRUE, ![s].registration = reg]
  /\ UNCHANGED <<runtime, phase>>

RepeatRegistration(reg) ==
  /\ \E s \in Slots : Find(s, reg.featureId) /\ entries[s].registration = reg
  /\ UNCHANGED regVars

RefuseRegistration(reg) ==
  /\ \/ ~ValidRegistration(reg)
     \/ \E s \in Slots : Find(s, reg.featureId) /\ entries[s].registration # reg
     \/ ~Known(reg.featureId) /\ \A s \in Slots : entries[s].used
  /\ phase' = "failed"
  /\ UNCHANGED <<entries, runtime>>

Register(reg) ==
  /\ phase = "registering"
  /\ \/ ValidRegistration(reg) /\ (StoreRegistration(reg) \/ RepeatRegistration(reg))
     \/ RefuseRegistration(reg)

FinishRegistration ==
  /\ phase = "registering"
  /\ phase' = "attached"
  /\ UNCHANGED <<entries, runtime>>

-----------------------------------------------------------------------------
(***************************************************************************)
(* HandleServerToken, one action per outcome.                              *)
(***************************************************************************)
\* Deactivate calls the handler of an active entry with false.
RuntimeAfterDeactivate(s) ==
  IF entries[s].state = "Active" /\ entries[s].registration.handler # NoHandler
    THEN runtime[s] - 1 ELSE runtime[s]

\* A handler that accepts the call has switched the feature on once more.
RuntimeAfterActivate(s, accepted) ==
  IF accepted /\ entries[s].registration.handler # NoHandler THEN runtime[s] + 1 ELSE runtime[s]

Mismatched(s, token) ==
  entries[s].registration.featureRelease # GetFeatureRelease(token)

ShouldNotifyUser(s, token) == Mismatched(s, token) /\ ~entries[s].mismatchNoticeIssued

UnknownFeature(token) == ~Known(GetFeatureId(token)) /\ UNCHANGED regVars

\* Deliberate fault, used by no specification: a conflict does not close an open gate.
MismatchKeepsActive(s, token) ==
  /\ Mismatched(s, token)
  /\ entries' = [entries EXCEPT ![s].state = IF @ = "Active" THEN @ ELSE "ReleaseMismatch",
                                ![s].serverRelease = GetFeatureRelease(token),
                                ![s].mismatchNoticeIssued = TRUE]
  /\ UNCHANGED <<runtime, phase>>

FeatureReleaseMismatch(s, token) ==
  /\ Mismatched(s, token)
  /\ entries' = [entries EXCEPT ![s].state = "ReleaseMismatch",
                                ![s].serverRelease = GetFeatureRelease(token),
                                ![s].mismatchNoticeIssued = TRUE]
  /\ runtime' = [runtime EXCEPT ![s] = RuntimeAfterDeactivate(s)]
  /\ UNCHANGED phase

AlreadyActive(s, token) ==
  /\ ~Mismatched(s, token)
  /\ entries[s].state = "Active"
  /\ UNCHANGED regVars

\* Deliberate fault, used by no specification: the server release is not recorded.
ActivationForgetsRelease(s, token, accepted) ==
  /\ ~Mismatched(s, token)
  /\ entries[s].state # "Active"
  /\ entries[s].registration.handler = NoHandler => accepted
  /\ entries' = [entries EXCEPT ![s].state = IF accepted THEN "Active" ELSE "ActivationFailed"]
  /\ runtime' = [runtime EXCEPT ![s] = RuntimeAfterActivate(s, accepted)]
  /\ UNCHANGED phase

\* Deliberate fault, used by no specification: an active feature is activated again.
ActivationRepeats(s, token, accepted) ==
  /\ ~Mismatched(s, token)
  /\ entries[s].registration.handler = NoHandler => accepted
  /\ entries' = [entries EXCEPT ![s].serverRelease = GetFeatureRelease(token),
                                ![s].state = IF accepted THEN "Active" ELSE "ActivationFailed"]
  /\ runtime' = [runtime EXCEPT ![s] = RuntimeAfterActivate(s, accepted)]
  /\ UNCHANGED phase

\* A handler may refuse; a feature without one cannot.
Activation(s, token, accepted) ==
  /\ ~Mismatched(s, token)
  /\ entries[s].state # "Active"
  /\ entries[s].registration.handler = NoHandler => accepted
  /\ entries' = [entries EXCEPT ![s].serverRelease = GetFeatureRelease(token),
                                ![s].state = IF accepted THEN "Active" ELSE "ActivationFailed"]
  /\ runtime' = [runtime EXCEPT ![s] = RuntimeAfterActivate(s, accepted)]
  /\ UNCHANGED phase

HandleServerToken(token) ==
  /\ phase = "attached"
  /\ IsToken(token)
  /\ \/ UnknownFeature(token)
     \/ \E s \in Slots :
          /\ Find(s, GetFeatureId(token))
          /\ \/ FeatureReleaseMismatch(s, token)
             \/ AlreadyActive(s, token)
             \/ \E accepted \in BOOLEAN : Activation(s, token, accepted)

-----------------------------------------------------------------------------
\* Reset: every travel boundary deactivates what the instance advertised.
ResetEntry(e) ==
  IF e.used
    THEN [e EXCEPT !.state = "NotAdvertised", !.serverRelease = 0,
                   !.mismatchNoticeIssued = FALSE]
    ELSE e

Reset ==
  /\ phase = "attached"
  /\ entries' = [s \in Slots |-> ResetEntry(entries[s])]
  /\ runtime' = [s \in Slots |-> RuntimeAfterDeactivate(s)]
  /\ UNCHANGED phase

RegNext ==
  \/ \E reg \in Registrations : Register(reg)
  \/ FinishRegistration
  \/ \E token \in Tokens : HandleServerToken(token)
  \/ Reset

RegSpec == RegInit /\ [][RegNext]_regVars

-----------------------------------------------------------------------------
(***************************************************************************)
(* Properties.                                                             *)
(***************************************************************************)
\* The table, the handlers' state and the startup phase have their types.
RegTypeOK ==
  /\ entries \in [Slots -> Entry]
  /\ runtime \in [Slots -> Int]
  /\ phase \in {"registering", "attached", "failed"}

\* At most one slot holds an id, so the linear search, the "exact repeated
\* registration" test and the gate all speak of the same feature.
OneSlotPerFeature ==
  \A s, r \in Slots :
    entries[s].used /\ entries[r].used
      /\ entries[s].registration.featureId = entries[r].registration.featureId => s = r

\* Only validated registrations get a slot: id and release zero stay reserved.
SlotsAreValid ==
  \A s \in Slots : entries[s].used =>
    entries[s].registration \in Registrations /\ ValidRegistration(entries[s].registration)

\* The handler of an active feature is on once, any other is off: no path
\* through mismatches, refused activations, repeats and travel leaves it on after
\* the gate closed, switches it on twice or switches off what is not on.
HandlerFollowsGate ==
  \A s \in Slots :
    runtime[s] = IF /\ entries[s].used
                    /\ entries[s].state = "Active"
                    /\ entries[s].registration.handler # NoHandler
                   THEN 1 ELSE 0

\* The recorded advertisement explains the state: nothing is recorded before
\* an advertisement, a mismatch records another release than the client's, and
\* an activation (accepted or refused) records the client's own.
StateMatchesAdvertisement ==
  \A s \in Slots :
    LET e == entries[s] IN
    /\ e.state = "NotAdvertised" => e.serverRelease = 0
    /\ e.state = "ReleaseMismatch" => /\ e.serverRelease # e.registration.featureRelease
                                      /\ e.mismatchNoticeIssued
    /\ e.state \in {"Active", "ActivationFailed"} =>
         e.used /\ e.serverRelease = e.registration.featureRelease

RegInv ==
  /\ RegTypeOK
  /\ OneSlotPerFeature
  /\ SlotsAreValid
  /\ HandlerFollowsGate
  /\ StateMatchesAdvertisement
  /\ phase # "attached" => \A s \in Slots : entries[s].state = "NotAdvertised"
  /\ \A s \in Slots : ~entries[s].used => entries[s] = FreeEntry

-----------------------------------------------------------------------------
(***************************************************************************)
(* The gate the registry implements.                                       *)
(***************************************************************************)
Ids == {reg.featureId : reg \in Registrations}

Unset == -1

RegisteredRelease ==
  [i \in Ids |-> IF Known(i)
                   THEN entries[CHOOSE s \in Slots : Find(s, i)].registration.featureRelease
                   ELSE Unset]

LastAdvertised ==
  [i \in Ids |->
     IF \E s \in Slots : Find(s, i) /\ entries[s].state # "NotAdvertised"
       THEN entries[CHOOSE s \in Slots : Find(s, i)].serverRelease
       ELSE Unset]

Gate == INSTANCE FeatureGate WITH
          Releases <- FeatureRelease, None <- Unset,
          client <- RegisteredRelease, advert <- LastAdvertised,
          enabled <- {i \in Ids : IsActive(i)}

\* The table implements the gate: a feature is enabled only while the last
\* advertisement of the current instance is exactly the registered release,
\* and a later conflicting advertisement or a travel closes it again.
ImplementsGate == Gate!GateSpec
=============================================================================
