------------------------ MODULE FeatureHandshakeProofs ------------------------
(***************************************************************************)
(* Proofs about the feature tokens, the registry and the ProcessEvent      *)
(* detour, for every table size, every set of registrations, every stream  *)
(* of tokens, every set of threads, every depth to which the chat helper   *)
(* re-enters the detour, and both builds.                                  *)
(***************************************************************************)
EXTENDS FeatureHandshake, FiniteSetTheorems, SequenceTheorems, WellFoundedInduction, TLAPS

-----------------------------------------------------------------------------
(***************************************************************************)
(* The carrier.                                                            *)
(***************************************************************************)
\* Quotient and remainder of an integer, for every positive divisor.
LEMMA DivMod ==
  ASSUME NEW t \in Int, NEW d \in Nat \ {0}
  PROVE  t = d * (t \div d) + (t % d) /\ t \div d \in Int /\ t % d \in 0 .. d - 1
  BY SMT

\* They are the only pair with that sum and a remainder below the divisor.
LEMMA DivModUnique ==
  ASSUME NEW t \in Int, NEW d \in Nat \ {0}, NEW q \in Int, NEW r \in 0 .. d - 1,
         t = q * d + r
  PROVE  t \div d = q /\ t % d = r
<1> DEFINE x == t \div d
           y == t % d
<1>1. t = d * x + y /\ x \in Int /\ y \in 0 .. d - 1
  BY DivMod
<1> HIDE DEF x, y
<1>2. d * (x - q) = r - y
  BY <1>1, SMT
<1>3. x = q
  BY <1>1, <1>2, SMT
<1>4. QED
  BY <1>1, <1>3, SMT DEF x, y

(* The two units of the encoding are positive, and one is 256 of the other. *)
LEMMA Units == IdUnit \in Nat \ {0} /\ MagicUnit \in Nat \ {0} /\ MagicUnit = 256 * IdUnit
  BY SMT DEF IdUnit, MagicUnit

(* Every 32-bit value is an integer. *)
LEMMA Int32IsInt == Int32 \subseteq Int
  BY Units, SMT DEF Int32

\* Whatever 32-bit value arrives, the decoded id and release are in range.
LEMMA DecodeTyped ==
  ASSUME NEW token \in Int32
  PROVE  GetFeatureId(token) \in FeatureId /\ GetFeatureRelease(token) \in FeatureRelease
<1>1. token \in Int
  BY Int32IsInt
<1>2. token \div IdUnit \in Int /\ token % IdUnit \in 0 .. IdUnit - 1
  BY <1>1, Units, DivMod
<1>3. (token \div IdUnit) % 256 \in 0 .. 255
  BY <1>2, SMT
<1>4. QED
  BY <1>2, <1>3, Zenon DEF GetFeatureId, GetFeatureRelease, FeatureId, FeatureRelease

\* A token made from an id and a release is a 32-bit reserved value, and
\* decoding returns both: MakeToken mirrored in server code and the client's
\* accessors agree on every feature.
THEOREM TokenRoundTrip ==
  ASSUME NEW id \in FeatureId, NEW release \in FeatureRelease
  PROVE  /\ MakeToken(id, release) \in Int32
         /\ IsToken(MakeToken(id, release))
         /\ GetFeatureId(MakeToken(id, release)) = id
         /\ GetFeatureRelease(MakeToken(id, release)) = release
<1> DEFINE t == MakeToken(id, release)
           low == id * IdUnit + release
<1>1. id \in 0 .. 255 /\ release \in 0 .. IdUnit - 1
  BY DEF FeatureId, FeatureRelease
<1>2. low \in 0 .. MagicUnit - 1 /\ MagicUnit - 1 \in Nat
  <2>1. id * IdUnit \in 0 .. 255 * IdUnit
    BY <1>1, Units, SMT
  <2>2. MagicUnit - 1 = 255 * IdUnit + (IdUnit - 1)
    BY Units, SMT
  <2>3. QED
    BY <1>1, <2>1, <2>2, Units, SMT
<1>3. /\ t = 109 * MagicUnit + low
      /\ t = (109 * 256 + id) * IdUnit + release
      /\ t \in Int
  BY <1>1, Units, SMT DEF MakeToken, MagicByte
<1>4. t \in Int32
  <2> HIDE DEF t, low
  <2>1. QED
    BY <1>2, <1>3, Units, SMT DEF Int32
<1> HIDE DEF t, low
<1>5. t \div MagicUnit = 109
  BY <1>2, <1>3, Units, DivModUnique
<1> DEFINE q == 109 * 256 + id
<1>6. q \in Int /\ t = q * IdUnit + release /\ t \in Int
        /\ release \in 0 .. IdUnit - 1 /\ IdUnit \in Nat \ {0}
  BY <1>1, <1>3, Units
<1> HIDE DEF q
<1>7. t \div IdUnit = q /\ t % IdUnit = release
  BY <1>6, DivModUnique
<1>8. q % 256 = id
  BY <1>1, SMT DEF q
<1>9. QED
  BY <1>4, <1>5, <1>7, <1>8, SMT
  DEF t, IsToken, GetFeatureId, GetFeatureRelease, MagicByte

\* Only values whose high byte is the magic byte are consumed: every negative
\* and every small positive bandwidth value stays with the retail function.
THEOREM OrdinaryValuesPass ==
  ASSUME NEW token \in Int32, token < 109 * MagicUnit \/ token >= 110 * MagicUnit
  PROVE  ~IsToken(token)
<1> DEFINE high == token \div MagicUnit
           low == token % MagicUnit
<1>1. token \in Int
  BY Int32IsInt
<1>2. token = MagicUnit * high + low /\ high \in Int /\ low \in 0 .. MagicUnit - 1
  <2>1. MagicUnit \in Nat \ {0}
    BY Units
  <2>2. QED
    BY <1>1, <2>1, DivMod
<1> HIDE DEF high, low
<1>3. high \in -128 .. 127
  <2>1. MagicUnit * high < MagicUnit * 128 /\ MagicUnit * high > MagicUnit * (-129)
    BY <1>2, Units, SMT DEF Int32
  <2>2. QED
    BY <1>2, <2>1, Units, SMT
<1>4. high # 109
  BY <1>2, Units, SMT
<1>5. high % 256 # 109
  BY <1>3, <1>4, SMT
<1>6. QED
  BY <1>5 DEF high, IsToken, MagicByte

-----------------------------------------------------------------------------
(***************************************************************************)
(* The registry's invariant.                                               *)
(***************************************************************************)
LEMMA RegInitEstablishes == RegInit => RegInv
<1> SUFFICES ASSUME RegInit PROVE RegInv
  OBVIOUS
<1>1. FreeEntry \in Entry
  BY SMT DEF FreeEntry, Entry, Registration, FeatureState, FeatureRelease, FeatureId, IdUnit
<1>2. 0 \in Int /\ phase \in {"registering", "attached", "failed"}
  BY SMT DEF RegInit
<1>3. RegTypeOK
  BY <1>1, <1>2, Zenon DEF RegInit, RegTypeOK
<1>4. OneSlotPerFeature /\ SlotsAreValid
  BY DEF RegInit, OneSlotPerFeature, SlotsAreValid, FreeEntry
<1>5. HandlerFollowsGate /\ StateMatchesAdvertisement
  BY DEF RegInit, HandlerFollowsGate, StateMatchesAdvertisement, FreeEntry
<1>6. QED
  BY <1>3, <1>4, <1>5 DEF RegInit, RegInv, FreeEntry

\* The part of the invariant that speaks of one slot, as a relation of its
\* entry and its handler.
SlotOK(e, on) ==
  /\ on = IF e.used /\ e.state = "Active" /\ e.registration.handler # NoHandler THEN 1 ELSE 0
  /\ e.state = "NotAdvertised" => e.serverRelease = 0
  /\ e.state = "ReleaseMismatch" => /\ e.serverRelease # e.registration.featureRelease
                                    /\ e.mismatchNoticeIssued
  /\ e.state \in {"Active", "ActivationFailed"} =>
       e.used /\ e.serverRelease = e.registration.featureRelease
  /\ ~e.used => e = FreeEntry

(* The invariant can be shown entry by entry, with ids unique across them. *)
LEMMA SlotwiseInvariant ==
  RegInv <=> /\ RegTypeOK /\ OneSlotPerFeature /\ SlotsAreValid
             /\ \A s \in Slots : SlotOK(entries[s], runtime[s])
             /\ phase # "attached" => \A s \in Slots : entries[s].state = "NotAdvertised"
  BY DEF RegInv, SlotOK, HandlerFollowsGate, StateMatchesAdvertisement

\* A step that leaves the registrations alone need only answer for the slots.
LEMMA RegistrationsKept ==
  ASSUME RegInv, phase' = phase, phase = "attached",
         entries' \in [Slots -> Entry], runtime' \in [Slots -> Int],
         \A s \in Slots : /\ entries'[s].used = entries[s].used
                          /\ entries'[s].registration = entries[s].registration
                          /\ SlotOK(entries'[s], runtime'[s])
  PROVE  RegInv'
<1>1. RegTypeOK' /\ OneSlotPerFeature' /\ SlotsAreValid'
  BY DEF RegInv, RegTypeOK, OneSlotPerFeature, SlotsAreValid
<1>2. RegInv' <=> /\ RegTypeOK' /\ OneSlotPerFeature' /\ SlotsAreValid'
                  /\ \A s \in Slots : SlotOK(entries'[s], runtime'[s])
                  /\ phase' # "attached" => \A s \in Slots : entries'[s].state = "NotAdvertised"
  BY DEF RegInv, SlotOK, HandlerFollowsGate, StateMatchesAdvertisement
<1>3. QED
  BY <1>1, <1>2

\* The same for a step that rewrites the one slot s.
LEMMA OneSlotRewritten ==
  ASSUME RegInv, phase' = phase, phase = "attached",
         NEW s \in Slots, NEW e \in Entry, NEW on \in Int,
         entries' = [entries EXCEPT ![s] = e], runtime' = [runtime EXCEPT ![s] = on],
         e.used = entries[s].used, e.registration = entries[s].registration,
         SlotOK(e, on)
  PROVE  RegInv'
<1>1. entries \in [Slots -> Entry] /\ runtime \in [Slots -> Int]
  BY DEF RegInv, RegTypeOK
<1>2. entries' \in [Slots -> Entry] /\ runtime' \in [Slots -> Int]
  BY <1>1
<1>3. \A r \in Slots : SlotOK(entries[r], runtime[r])
  BY SlotwiseInvariant
<1>4. ASSUME NEW r \in Slots
      PROVE  /\ entries'[r].used = entries[r].used
             /\ entries'[r].registration = entries[r].registration
             /\ SlotOK(entries'[r], runtime'[r])
  <2>1. CASE r = s
    BY <1>1, <2>1
  <2>2. CASE r # s
    BY <1>1, <1>3, <2>2
  <2>3. QED
    BY <2>1, <2>2
<1>5. QED
  BY <1>2, <1>4, RegistrationsKept

-----------------------------------------------------------------------------
(* Storing a registration in a free slot keeps the invariant. *)
LEMMA StorePreserves ==
  ASSUME RegInv, NEW reg \in Registrations, phase = "registering",
         ValidRegistration(reg), StoreRegistration(reg)
  PROVE  RegInv'
<1>1. PICK s \in Slots : /\ FirstFree(s)
                         /\ entries' = [entries EXCEPT ![s].used = TRUE, ![s].registration = reg]
  BY DEF StoreRegistration
<1>2. /\ entries \in [Slots -> Entry] /\ runtime \in [Slots -> Int]
      /\ reg \in Registration /\ FreeEntry \in Entry
      /\ entries[s] = FreeEntry /\ ~Known(reg.featureId)
      /\ runtime' = runtime /\ phase' = phase
  BY <1>1, RegistryConstants
  DEF RegistryConstants, RegInv, RegTypeOK, FirstFree, StoreRegistration
<1> DEFINE e == [FreeEntry EXCEPT !.used = TRUE, !.registration = reg]
<1>3. e \in Entry /\ e.used /\ e.registration = reg /\ e.state = "NotAdvertised"
        /\ e.serverRelease = 0 /\ entries' = [entries EXCEPT ![s] = e]
  BY <1>1, <1>2 DEF Entry, FreeEntry
<1> HIDE DEF e
<1>4. entries' \in [Slots -> Entry] /\ entries'[s] = e
        /\ \A r \in Slots : r # s => entries'[r] = entries[r]
  BY <1>2, <1>3
<1>5. RegTypeOK'
  BY <1>2, <1>4 DEF RegInv, RegTypeOK
<1>6. OneSlotPerFeature' /\ SlotsAreValid'
  BY <1>2, <1>3, <1>4 DEF RegInv, OneSlotPerFeature, SlotsAreValid, Known, Holds
<1>7. runtime[s] = 0
  BY <1>2 DEF RegInv, HandlerFollowsGate, FreeEntry
<1>8. HandlerFollowsGate' /\ StateMatchesAdvertisement'
  BY <1>2, <1>3, <1>4, <1>7 DEF RegInv, HandlerFollowsGate, StateMatchesAdvertisement
<1>9. QED
  BY <1>2, <1>3, <1>4, <1>5, <1>6, <1>8 DEF RegInv

(* A token with another release keeps the invariant. *)
LEMMA MismatchPreserves ==
  ASSUME RegInv, phase = "attached", NEW token \in Tokens, NEW s \in Slots,
         Find(s, GetFeatureId(token)), FeatureReleaseMismatch(s, token)
  PROVE  RegInv'
<1>1. GetFeatureRelease(token) \in FeatureRelease
  BY DecodeTyped, RegistryConstants DEF RegistryConstants
<1>2. entries[s] \in Entry /\ entries[s].used /\ RuntimeAfterDeactivate(s) = 0
  BY DEF Find, Holds, RegInv, RegTypeOK, HandlerFollowsGate, RuntimeAfterDeactivate
<1> DEFINE e == [entries[s] EXCEPT !.state = "ReleaseMismatch",
                                   !.serverRelease = GetFeatureRelease(token),
                                   !.mismatchNoticeIssued = TRUE]
<1>3. entries' = [entries EXCEPT ![s] = e] /\ runtime' = [runtime EXCEPT ![s] = 0]
        /\ phase' = phase
  BY <1>2 DEF FeatureReleaseMismatch, Entry
<1>4. e \in Entry /\ e.used = entries[s].used /\ e.registration = entries[s].registration
  BY <1>1, <1>2 DEF Entry, FeatureState
<1>5. SlotOK(e, 0)
  BY <1>1, <1>2 DEF SlotOK, FeatureReleaseMismatch, Mismatched, Entry
<1> HIDE DEF e
<1>6. 0 \in Int
  BY SMT
<1>7. QED
  BY <1>3, <1>4, <1>5, <1>6, OneSlotRewritten

(* A matching token, whose activation succeeds or fails, keeps the invariant. *)
LEMMA ActivationPreserves ==
  ASSUME RegInv, phase = "attached", NEW token \in Tokens, NEW s \in Slots,
         Find(s, GetFeatureId(token)), NEW accepted \in BOOLEAN,
         Activation(s, token, accepted)
  PROVE  RegInv'
<1>1. GetFeatureRelease(token) \in FeatureRelease
  BY DecodeTyped, RegistryConstants DEF RegistryConstants
<1>2. entries[s] \in Entry /\ entries[s].used /\ runtime[s] = 0
  BY DEF Find, Holds, RegInv, RegTypeOK, HandlerFollowsGate, Activation
<1> DEFINE e == [entries[s] EXCEPT !.serverRelease = GetFeatureRelease(token),
                                   !.state = IF accepted THEN "Active" ELSE "ActivationFailed"]
           on == IF accepted /\ entries[s].registration.handler # NoHandler THEN 1 ELSE 0
<1>3. entries' = [entries EXCEPT ![s] = e] /\ runtime' = [runtime EXCEPT ![s] = on]
        /\ phase' = phase
  <2>1. RuntimeAfterActivate(s, accepted) = on
    BY <1>2 DEF RuntimeAfterActivate
  <2>2. QED
    BY <1>2, <2>1 DEF Activation, Entry
<1>4. e \in Entry /\ e.used = entries[s].used /\ e.registration = entries[s].registration
        /\ on \in Int
  <2>1. e \in Entry /\ e.used = entries[s].used /\ e.registration = entries[s].registration
    BY <1>1, <1>2 DEF Entry, FeatureState
  <2>2. on \in Int
    BY SMT
  <2>3. QED
    BY <2>1, <2>2
<1>5. SlotOK(e, on)
  BY <1>1, <1>2 DEF SlotOK, Activation, Mismatched, Entry
<1> HIDE DEF e, on
<1>6. QED
  BY <1>3, <1>4, <1>5, OneSlotRewritten

(* A travel keeps the invariant. *)
LEMMA ResetPreserves ==
  ASSUME RegInv, Reset
  PROVE  RegInv'
<1>1. /\ entries \in [Slots -> Entry] /\ runtime \in [Slots -> Int]
      /\ phase = "attached" /\ phase' = phase
      /\ \A s \in Slots : entries'[s] = ResetEntry(entries[s])
      /\ \A s \in Slots : runtime'[s] = RuntimeAfterDeactivate(s)
  BY DEF RegInv, RegTypeOK, Reset
<1>2. ASSUME NEW s \in Slots
      PROVE  /\ entries'[s] \in Entry /\ runtime'[s] = 0
             /\ entries'[s].used = entries[s].used
             /\ entries'[s].registration = entries[s].registration
             /\ SlotOK(entries'[s], runtime'[s])
  <2>1. entries[s] \in Entry /\ entries'[s] = ResetEntry(entries[s])
    BY <1>1
  <2>2. runtime'[s] = 0
    <3>1. runtime[s] = IF /\ entries[s].used /\ entries[s].state = "Active"
                          /\ entries[s].registration.handler # NoHandler THEN 1 ELSE 0
      BY DEF RegInv, HandlerFollowsGate
    <3>2. ~entries[s].used => entries[s].state # "Active"
      BY DEF RegInv, FreeEntry
    <3>3. QED
      BY <1>1, <3>1, <3>2 DEF RuntimeAfterDeactivate
  <2>3. ~entries[s].used => entries[s] = FreeEntry
    BY DEF RegInv
  <2>4. CASE entries[s].used
    <3>1. entries'[s] = [entries[s] EXCEPT !.state = "NotAdvertised", !.serverRelease = 0,
                                           !.mismatchNoticeIssued = FALSE]
      BY <2>1, <2>4 DEF ResetEntry
    <3>2. 0 \in FeatureRelease
      BY Units DEF FeatureRelease
    <3>3. QED
      BY <2>1, <2>2, <2>4, <3>1, <3>2 DEF Entry, FeatureState, SlotOK
  <2>5. CASE ~entries[s].used
    BY <2>1, <2>2, <2>3, <2>5 DEF ResetEntry, SlotOK, FreeEntry
  <2>6. QED
    BY <2>4, <2>5
<1>3. entries' \in [Slots -> Entry] /\ runtime' \in [Slots -> Int]
  BY <1>2 DEF Reset
<1>4. QED
  BY <1>1, <1>2, <1>3, RegistrationsKept

-----------------------------------------------------------------------------
\* Every step of the registry preserves its invariant.
LEMMA RegStepPreserves == RegInv /\ [RegNext]_regVars => RegInv'
<1> SUFFICES ASSUME RegInv, [RegNext]_regVars PROVE RegInv'
  OBVIOUS
<1>1. CASE UNCHANGED regVars
  BY <1>1 DEF regVars, RegInv, RegTypeOK, OneSlotPerFeature, SlotsAreValid,
     HandlerFollowsGate, StateMatchesAdvertisement
<1>2. CASE \E reg \in Registrations : Register(reg)
  <2>1. PICK reg \in Registrations : Register(reg)
    BY <1>2
  <2>2. CASE ValidRegistration(reg) /\ StoreRegistration(reg)
    BY <2>1, <2>2, StorePreserves DEF Register
  <2>3. CASE RepeatRegistration(reg)
    BY <1>1, <2>3 DEF RepeatRegistration
  <2>4. CASE RefuseRegistration(reg)
    <3>1. entries' = entries /\ runtime' = runtime /\ phase' = "failed" /\ phase # "attached"
      BY <2>1, <2>4 DEF RefuseRegistration, Register
    <3>2. QED
      BY <3>1 DEF RegInv, RegTypeOK, OneSlotPerFeature, SlotsAreValid,
         HandlerFollowsGate, StateMatchesAdvertisement
  <2>5. QED
    BY <2>1, <2>2, <2>3, <2>4 DEF Register
<1>3. CASE FinishRegistration
  BY <1>3 DEF FinishRegistration, RegInv, RegTypeOK, OneSlotPerFeature, SlotsAreValid,
     HandlerFollowsGate, StateMatchesAdvertisement
<1>4. CASE \E token \in Tokens : HandleServerToken(token)
  <2>1. PICK token \in Tokens : HandleServerToken(token)
    BY <1>4
  <2>2. CASE UNCHANGED regVars
    BY <1>1, <2>2
  <2>3. ASSUME NEW s \in Slots, Find(s, GetFeatureId(token)),
               FeatureReleaseMismatch(s, token)
        PROVE  RegInv'
    BY <2>1, <2>3, MismatchPreserves DEF HandleServerToken
  <2>4. ASSUME NEW s \in Slots, Find(s, GetFeatureId(token)), NEW accepted \in BOOLEAN,
               Activation(s, token, accepted)
        PROVE  RegInv'
    BY <2>1, <2>4, ActivationPreserves DEF HandleServerToken
  <2>5. QED
    BY <2>1, <2>2, <2>3, <2>4 DEF HandleServerToken, UnknownFeature, AlreadyActive
<1>5. CASE Reset
  BY <1>5, ResetPreserves
<1>6. QED
  BY <1>1, <1>2, <1>3, <1>4, <1>5 DEF RegNext

\* The registry's invariant, for every table size and every stream of tokens.
THEOREM RegistrySafe == RegSpec => []RegInv
  BY RegInitEstablishes, RegStepPreserves, PTL DEF RegSpec

\* The table, the handlers and the startup phase keep their types.
THEOREM RegistryTyped == RegSpec => []RegTypeOK
<1>1. RegInv => RegTypeOK
  BY DEF RegInv
<1>2. QED
  BY <1>1, RegistrySafe, PTL

\* A handler is on exactly while its feature's gate is open.
THEOREM HandlersFollowTheirGate == RegSpec => []HandlerFollowsGate
<1>1. RegInv => HandlerFollowsGate
  BY DEF RegInv
<1>2. QED
  BY <1>1, RegistrySafe, PTL

\* No id is ever held by two slots.
THEOREM SlotsUnambiguous == RegSpec => []OneSlotPerFeature
<1>1. RegInv => OneSlotPerFeature
  BY DEF RegInv
<1>2. QED
  BY <1>1, RegistrySafe, PTL

\* The state of every feature is explained by the advertisement it recorded.
THEOREM StatesExplained == RegSpec => []StateMatchesAdvertisement
<1>1. RegInv => StateMatchesAdvertisement
  BY DEF RegInv
<1>2. QED
  BY <1>1, RegistrySafe, PTL

-----------------------------------------------------------------------------
(***************************************************************************)
(* The registry implements the gate.                                       *)
(***************************************************************************)
GateOpen == {i \in Ids : IsActive(i)}

\* What the refinement mapping says of an id, read off the slot that holds it.
GateView ==
  \A i \in Ids :
    /\ \A s \in Slots : Holds(s, i) =>
         /\ RegisteredRelease[i] = entries[s].registration.featureRelease
         /\ LastAdvertised[i] = IF entries[s].state = "NotAdvertised"
                                  THEN Unset ELSE entries[s].serverRelease
         /\ i \in GateOpen <=> entries[s].state = "Active"
    /\ ~Known(i) =>
         RegisteredRelease[i] = Unset /\ LastAdvertised[i] = Unset /\ i \notin GateOpen

(* The invariant describes what the gate sees of each feature. *)
LEMMA GateViewHolds == RegInv => GateView
<1> SUFFICES ASSUME RegInv, NEW i \in Ids
             PROVE  /\ \A s \in Slots : Holds(s, i) =>
                         /\ RegisteredRelease[i] = entries[s].registration.featureRelease
                         /\ LastAdvertised[i] = IF entries[s].state = "NotAdvertised"
                                                  THEN Unset ELSE entries[s].serverRelease
                         /\ i \in GateOpen <=> entries[s].state = "Active"
                    /\ ~Known(i) => /\ RegisteredRelease[i] = Unset
                                    /\ LastAdvertised[i] = Unset
                                    /\ i \notin GateOpen
  BY DEF GateView
<1>1. ASSUME NEW s \in Slots, Holds(s, i)
      PROVE  /\ RegisteredRelease[i] = entries[s].registration.featureRelease
             /\ LastAdvertised[i] = IF entries[s].state = "NotAdvertised"
                                      THEN Unset ELSE entries[s].serverRelease
             /\ i \in GateOpen <=> entries[s].state = "Active"
  <2>1. \A r \in Slots : Holds(r, i) => r = s
    BY <1>1 DEF RegInv, OneSlotPerFeature, Holds
  <2>2. \A r \in Slots : r < s => r # s
    BY DEF Slots
  <2>3. Find(s, i) /\ \A r : Find(r, i) => r = s
    BY <1>1, <2>1, <2>2 DEF Find
  <2>4. (CHOOSE r \in Slots : Find(r, i)) = s
    BY <2>3
  <2>5. Known(i)
    BY <1>1 DEF Known
  <2>6. QED
    BY <2>3, <2>4, <2>5 DEF RegisteredRelease, LastAdvertised, GateOpen, IsActive
<1>2. ASSUME ~Known(i)
      PROVE  RegisteredRelease[i] = Unset /\ LastAdvertised[i] = Unset /\ i \notin GateOpen
  <2>1. \A r \in Slots : ~Find(r, i)
    BY <1>2 DEF Find, Known
  <2>2. QED
    BY <1>2, <2>1 DEF RegisteredRelease, LastAdvertised, GateOpen, IsActive
<1>3. QED
  BY <1>1, <1>2

(* The same in the next state. *)
LEMMA GateViewKept == RegInv' => GateView'
  BY GateViewHolds, PTL

\* An id whose slot the step leaves alone keeps its place in the gate.
LEMMA OtherIdsKept ==
  ASSUME GateView, GateView', NEW i \in Ids,
         \A r \in Slots : Holds(r, i)' <=> Holds(r, i),
         \A r \in Slots : Holds(r, i) => entries'[r] = entries[r]
  PROVE  /\ RegisteredRelease'[i] = RegisteredRelease[i]
         /\ LastAdvertised'[i] = LastAdvertised[i]
         /\ i \in GateOpen' <=> i \in GateOpen
<1>1. CASE Known(i)
  <2>1. PICK s \in Slots : Holds(s, i)
    BY <1>1 DEF Known
  <2>2. Holds(s, i)' /\ entries'[s] = entries[s]
    BY <2>1
  <2>3. QED
    BY <2>1, <2>2 DEF GateView
<1>2. CASE ~Known(i)
  <2>1. ~Known(i)'
    BY <1>2 DEF Known
  <2>2. QED
    BY <1>2, <2>1 DEF GateView
<1>3. QED
  BY <1>1, <1>2

IdOf(s) == entries[s].registration.featureId

\* Rewriting a used slot moves only its feature in the gate.
LEMMA GateAfterRewrite ==
  ASSUME RegInv, RegInv', NEW s \in Slots,
         \A r \in Slots : r # s => entries'[r] = entries[r],
         entries[s].used, entries'[s].used,
         entries'[s].registration = entries[s].registration
  PROVE  /\ IdOf(s) \in Ids
         /\ RegisteredRelease' = RegisteredRelease
         /\ LastAdvertised' = [LastAdvertised EXCEPT ![IdOf(s)] =
                                 IF entries'[s].state = "NotAdvertised"
                                   THEN Unset ELSE entries'[s].serverRelease]
         /\ GateOpen' = IF entries'[s].state = "Active"
                          THEN GateOpen \cup {IdOf(s)} ELSE GateOpen \ {IdOf(s)}
         /\ RegisteredRelease[IdOf(s)] = entries[s].registration.featureRelease
         /\ IdOf(s) \in GateOpen <=> entries[s].state = "Active"
<1> DEFINE id == IdOf(s)
<1>1. id \in Ids /\ Holds(s, id) /\ GateView /\ GateView'
        /\ entries \in [Slots -> Entry]
  BY GateViewHolds, GateViewKept DEF Ids, RegInv, SlotsAreValid, Holds, RegTypeOK, IdOf
<1>2. Holds(s, id)' /\ id' = id
  BY DEF Holds, IdOf
<1>3. ASSUME NEW i \in Ids, i # id
      PROVE  /\ RegisteredRelease'[i] = RegisteredRelease[i]
             /\ LastAdvertised'[i] = LastAdvertised[i]
             /\ i \in GateOpen' <=> i \in GateOpen
  <2>1. \A r \in Slots : Holds(r, i)' <=> Holds(r, i)
    BY <1>1, <1>3 DEF Holds, IdOf
  <2>2. \A r \in Slots : Holds(r, i) => entries'[r] = entries[r]
    BY <1>3 DEF Holds, IdOf
  <2>3. QED
    BY <1>1, <2>1, <2>2, OtherIdsKept
<1> HIDE DEF id
<1>4. /\ RegisteredRelease'[id] = entries[s].registration.featureRelease
      /\ LastAdvertised'[id] = IF entries'[s].state = "NotAdvertised"
                                 THEN Unset ELSE entries'[s].serverRelease
      /\ id \in GateOpen' <=> entries'[s].state = "Active"
      /\ RegisteredRelease[id] = entries[s].registration.featureRelease
      /\ id \in GateOpen <=> entries[s].state = "Active"
  <2>1. /\ RegisteredRelease'[id] = entries'[s].registration.featureRelease
        /\ LastAdvertised'[id] = IF entries'[s].state = "NotAdvertised"
                                   THEN Unset ELSE entries'[s].serverRelease
        /\ id \in GateOpen' <=> entries'[s].state = "Active"
    BY <1>1, <1>2 DEF GateView
  <2>2. /\ RegisteredRelease[id] = entries[s].registration.featureRelease
        /\ id \in GateOpen <=> entries[s].state = "Active"
    BY <1>1 DEF GateView
  <2>3. QED
    BY <2>1, <2>2
<1>5. /\ RegisteredRelease = [i \in Ids |-> RegisteredRelease[i]]
      /\ RegisteredRelease' = [i \in Ids |-> RegisteredRelease'[i]]
      /\ LastAdvertised = [i \in Ids |-> LastAdvertised[i]]
      /\ LastAdvertised' = [i \in Ids |-> LastAdvertised'[i]]
  BY DEF RegisteredRelease, LastAdvertised
<1>6. RegisteredRelease' = RegisteredRelease
  BY <1>1, <1>3, <1>4, <1>5
<1>7. LastAdvertised' = [LastAdvertised EXCEPT ![id] =
                           IF entries'[s].state = "NotAdvertised"
                             THEN Unset ELSE entries'[s].serverRelease]
  BY <1>1, <1>3, <1>4, <1>5
<1>8. GateOpen' = IF entries'[s].state = "Active" THEN GateOpen \cup {id} ELSE GateOpen \ {id}
  BY <1>1, <1>3, <1>4 DEF GateOpen
<1>9. QED
  BY <1>1, <1>4, <1>6, <1>7, <1>8 DEF id

(* The empty table is the gate's initial state. *)
LEMMA GateInitial == RegInit => Gate!GateInit
<1> SUFFICES ASSUME RegInit PROVE Gate!GateInit
  OBVIOUS
<1>1. \A i \in Ids : ~Known(i) /\ \A s \in Slots : ~Find(s, i)
  BY DEF RegInit, Known, Holds, Find, FreeEntry
<1>2. QED
  BY <1>1 DEF Gate!GateInit, RegisteredRelease, LastAdvertised, IsActive

\* Entries that do not change leave the gate alone.
LEMMA GateStutters == entries' = entries => UNCHANGED Gate!gateVars
  BY DEF Gate!gateVars, RegisteredRelease, LastAdvertised, IsActive, Known, Find, Holds

(* Storing a registration introduces the feature to the gate. *)
LEMMA StoreIntroduces ==
  ASSUME RegInv, RegInv', NEW reg \in Registrations, StoreRegistration(reg)
  PROVE  Gate!Introduce(reg.featureId)
<1> DEFINE id == reg.featureId
<1>1. PICK s \in Slots : FirstFree(s)
         /\ entries' = [entries EXCEPT ![s].used = TRUE, ![s].registration = reg]
  BY DEF StoreRegistration
<1>2. /\ id \in Ids /\ GateView /\ GateView' /\ ~Known(id)
      /\ entries \in [Slots -> Entry] /\ entries[s] = FreeEntry
      /\ reg.featureRelease \in FeatureRelease
  BY <1>1, GateViewHolds, GateViewKept, RegistryConstants
  DEF Ids, RegInv, RegTypeOK, FirstFree, StoreRegistration, RegistryConstants, Registration
<1>3. /\ entries'[s].used /\ entries'[s].registration = reg
      /\ entries'[s].state = "NotAdvertised"
      /\ \A r \in Slots : r # s => entries'[r] = entries[r]
  BY <1>1, <1>2 DEF FreeEntry
<1>4. Holds(s, id)' /\ ~entries[s].used
  BY <1>2, <1>3 DEF Holds, FreeEntry
<1>5. ASSUME NEW i \in Ids, i # id
      PROVE  /\ RegisteredRelease'[i] = RegisteredRelease[i]
             /\ LastAdvertised'[i] = LastAdvertised[i]
             /\ i \in GateOpen' <=> i \in GateOpen
  <2>1. \A r \in Slots : Holds(r, i)' <=> Holds(r, i)
    BY <1>3, <1>4, <1>5 DEF Holds
  <2>2. \A r \in Slots : Holds(r, i) => entries'[r] = entries[r]
    BY <1>3, <1>4 DEF Holds
  <2>3. QED
    BY <1>2, <2>1, <2>2, OtherIdsKept
<1>6. /\ RegisteredRelease[id] = Unset /\ LastAdvertised[id] = Unset /\ id \notin GateOpen
      /\ RegisteredRelease'[id] = reg.featureRelease /\ LastAdvertised'[id] = Unset
      /\ id \notin GateOpen'
  BY <1>2, <1>3, <1>4 DEF GateView
<1>7. /\ RegisteredRelease = [i \in Ids |-> RegisteredRelease[i]]
      /\ RegisteredRelease' = [i \in Ids |-> RegisteredRelease'[i]]
      /\ LastAdvertised = [i \in Ids |-> LastAdvertised[i]]
      /\ LastAdvertised' = [i \in Ids |-> LastAdvertised'[i]]
  BY DEF RegisteredRelease, LastAdvertised
<1> HIDE DEF id
<1>8. RegisteredRelease' = [RegisteredRelease EXCEPT ![id] = RegisteredRelease'[id]]
  BY <1>2, <1>5, <1>7
<1>9. LastAdvertised' = LastAdvertised
  BY <1>5, <1>6, <1>7
<1>10. GateOpen' = GateOpen
  BY <1>5, <1>6 DEF GateOpen
<1>11. QED
  BY <1>2, <1>6, <1>8, <1>9, <1>10 DEF Gate!Introduce, GateOpen, id

(* A token with another release is the gate's advertisement of a release that does not match. *)
LEMMA MismatchAdvertises ==
  ASSUME RegInv, RegInv', phase = "attached", NEW token \in Tokens, NEW s \in Slots,
         Find(s, GetFeatureId(token)), FeatureReleaseMismatch(s, token)
  PROVE  \E i \in Ids : Gate!AdvertiseOther(i)
<1> DEFINE id == IdOf(s)
           release == GetFeatureRelease(token)
<1>1. release \in FeatureRelease
  BY DecodeTyped, RegistryConstants DEF RegistryConstants
<1>2. entries \in [Slots -> Entry] /\ entries[s] \in Entry /\ entries[s].used
  BY DEF Find, Holds, RegInv, RegTypeOK
<1>3. /\ \A r \in Slots : r # s => entries'[r] = entries[r]
      /\ entries'[s].used /\ entries'[s].registration = entries[s].registration
      /\ entries'[s].state = "ReleaseMismatch"
      /\ entries'[s].serverRelease = release
      /\ entries[s].registration.featureRelease \in FeatureRelease
      /\ entries[s].registration.featureRelease # release
  BY <1>2 DEF Entry, Registration, FeatureReleaseMismatch, Mismatched
<1> HIDE DEF release
<1>4. /\ id \in Ids
      /\ RegisteredRelease' = RegisteredRelease
      /\ LastAdvertised' = [LastAdvertised EXCEPT ![id] =
                              IF entries'[s].state = "NotAdvertised"
                                THEN Unset ELSE entries'[s].serverRelease]
      /\ GateOpen' = IF entries'[s].state = "Active"
                       THEN GateOpen \cup {id} ELSE GateOpen \ {id}
      /\ RegisteredRelease[id] = entries[s].registration.featureRelease
  BY <1>2, <1>3, GateAfterRewrite
<1> HIDE DEF id
<1>5. /\ LastAdvertised' = [LastAdvertised EXCEPT ![id] = release]
      /\ GateOpen' = GateOpen \ {id}
  BY <1>3, <1>4
<1>6. LastAdvertised'[id] = release
  BY <1>4, <1>5 DEF LastAdvertised
<1>7. RegisteredRelease[id] # Unset
  BY <1>3, <1>4, Units DEF FeatureRelease, Unset
<1>8. Gate!AdvertiseOther(id)
  BY <1>1, <1>3, <1>4, <1>5, <1>6, <1>7 DEF Gate!AdvertiseOther, GateOpen
<1>9. QED
  BY <1>4, <1>8

(* A matching token is the gate's advertisement, enabled or failed. *)
LEMMA ActivationAdvertises ==
  ASSUME RegInv, RegInv', phase = "attached", NEW token \in Tokens, NEW s \in Slots,
         Find(s, GetFeatureId(token)), NEW accepted \in BOOLEAN,
         Activation(s, token, accepted)
  PROVE  \E i \in Ids : Gate!AdvertiseMatch(i)
<1> DEFINE id == IdOf(s)
<1>1. /\ entries \in [Slots -> Entry] /\ entries[s] \in Entry
      /\ entries[s].used /\ entries[s].state # "Active"
  BY DEF Find, Holds, RegInv, RegTypeOK, Activation
<1>2. /\ \A r \in Slots : r # s => entries'[r] = entries[r]
      /\ entries'[s].used /\ entries'[s].registration = entries[s].registration
      /\ entries'[s].state = IF accepted THEN "Active" ELSE "ActivationFailed"
      /\ entries'[s].serverRelease = entries[s].registration.featureRelease
      /\ entries[s].registration.featureRelease \in FeatureRelease
  BY <1>1 DEF Entry, Registration, Activation, Mismatched
<1>3. /\ id \in Ids
      /\ RegisteredRelease' = RegisteredRelease
      /\ LastAdvertised' = [LastAdvertised EXCEPT ![id] =
                              IF entries'[s].state = "NotAdvertised"
                                THEN Unset ELSE entries'[s].serverRelease]
      /\ GateOpen' = IF entries'[s].state = "Active"
                       THEN GateOpen \cup {id} ELSE GateOpen \ {id}
      /\ RegisteredRelease[id] = entries[s].registration.featureRelease
      /\ id \in GateOpen <=> entries[s].state = "Active"
  BY <1>1, <1>2, GateAfterRewrite
<1> HIDE DEF id
<1>4. LastAdvertised' = [LastAdvertised EXCEPT ![id] = RegisteredRelease[id]]
  <2>1. entries'[s].state # "NotAdvertised"
    BY <1>2
  <2>2. QED
    BY <1>2, <1>3, <2>1
<1>5. GateOpen' \in {GateOpen, GateOpen \cup {id}}
  <2>1. id \notin GateOpen
    BY <1>1, <1>3
  <2>2. QED
    BY <1>3, <2>1
<1>6. RegisteredRelease[id] # Unset
  BY <1>2, <1>3, Units DEF FeatureRelease, Unset
<1>7. Gate!AdvertiseMatch(id)
  BY <1>3, <1>4, <1>5, <1>6 DEF Gate!AdvertiseMatch, GateOpen
<1>8. QED
  BY <1>3, <1>7

(* Clearing the table is the gate's travel. *)
LEMMA ResetTravels ==
  ASSUME RegInv, RegInv', Reset
  PROVE  Gate!Travel
<1>1. /\ GateView /\ GateView' /\ entries \in [Slots -> Entry]
      /\ \A s \in Slots : entries'[s] = ResetEntry(entries[s])
  BY GateViewHolds, GateViewKept DEF RegInv, RegTypeOK, Reset
<1>2. \A s \in Slots : /\ entries'[s].used = entries[s].used
                       /\ entries'[s].registration = entries[s].registration
                       /\ entries[s].used => entries'[s].state = "NotAdvertised"
  BY <1>1 DEF ResetEntry, Entry
<1>3. ASSUME NEW i \in Ids
      PROVE  /\ RegisteredRelease'[i] = RegisteredRelease[i]
             /\ LastAdvertised'[i] = Unset
             /\ i \notin GateOpen'
  <2>1. CASE Known(i)
    <3>1. PICK s \in Slots : Holds(s, i)
      BY <2>1 DEF Known
    <3>2. Holds(s, i)' /\ entries'[s].state = "NotAdvertised"
      BY <1>2, <3>1 DEF Holds
    <3>3. QED
      BY <1>1, <1>2, <3>1, <3>2 DEF GateView
  <2>2. CASE ~Known(i)
    <3>1. ~Known(i)'
      BY <1>2, <2>2 DEF Known, Holds
    <3>2. QED
      BY <1>1, <2>2, <3>1 DEF GateView
  <2>3. QED
    BY <2>1, <2>2
<1>4. /\ RegisteredRelease = [i \in Ids |-> RegisteredRelease[i]]
      /\ RegisteredRelease' = [i \in Ids |-> RegisteredRelease'[i]]
      /\ LastAdvertised' = [i \in Ids |-> LastAdvertised'[i]]
  BY DEF RegisteredRelease, LastAdvertised
<1>5. RegisteredRelease' = RegisteredRelease /\ LastAdvertised' = [i \in Ids |-> Unset]
  BY <1>3, <1>4
<1>6. GateOpen' = {}
  BY <1>3 DEF GateOpen
<1>7. QED
  BY <1>5, <1>6 DEF Gate!Travel, GateOpen

(* Every step of the table is a step of the gate or changes nothing it sees. *)
LEMMA GateStep ==
  RegInv /\ RegInv' /\ [RegNext]_regVars => [Gate!GateNext]_Gate!gateVars
<1> SUFFICES ASSUME RegInv, RegInv', [RegNext]_regVars
             PROVE  [Gate!GateNext]_Gate!gateVars
  OBVIOUS
<1>1. CASE entries' = entries
  BY <1>1, GateStutters
<1>2. ASSUME NEW reg \in Registrations, Register(reg)
      PROVE  [Gate!GateNext]_Gate!gateVars
  <2>1. CASE StoreRegistration(reg)
    <3>1. reg.featureId \in Ids /\ Gate!Introduce(reg.featureId)
      BY <2>1, StoreIntroduces DEF Ids
    <3>2. QED
      BY <3>1 DEF Gate!GateNext
  <2>2. CASE entries' = entries
    BY <2>2, <1>1
  <2>3. QED
    BY <1>2, <2>1, <2>2 DEF Register, RepeatRegistration, RefuseRegistration, regVars
<1>3. ASSUME NEW token \in Tokens, HandleServerToken(token)
      PROVE  [Gate!GateNext]_Gate!gateVars
  <2>1. CASE UNCHANGED regVars
    BY <2>1, <1>1 DEF regVars
  <2>2. ASSUME NEW s \in Slots, Find(s, GetFeatureId(token)), FeatureReleaseMismatch(s, token)
        PROVE  Gate!GateNext
    BY <1>3, <2>2, MismatchAdvertises DEF HandleServerToken, Gate!GateNext
  <2>3. ASSUME NEW s \in Slots, Find(s, GetFeatureId(token)), NEW accepted \in BOOLEAN,
               Activation(s, token, accepted)
        PROVE  Gate!GateNext
    BY <1>3, <2>3, ActivationAdvertises DEF HandleServerToken, Gate!GateNext
  <2>4. QED
    BY <1>3, <2>1, <2>2, <2>3 DEF HandleServerToken, UnknownFeature, AlreadyActive
<1>4. CASE Reset
  BY <1>4, ResetTravels DEF Gate!GateNext
<1>5. CASE FinishRegistration
  BY <1>1, <1>5 DEF FinishRegistration
<1>6. CASE UNCHANGED regVars
  BY <1>1, <1>6 DEF regVars
<1>7. QED
  BY <1>2, <1>3, <1>4, <1>5, <1>6 DEF RegNext

\* The registry implements the feature gate: a feature is enabled only while
\* the last advertisement of the current server instance is the release the
\* client registered, for every table, every registration and every token.
THEOREM RegistryImplementsGate == RegSpec => ImplementsGate
<1>1. RegSpec => []RegInv
  BY RegistrySafe
<1>2. QED
  BY <1>1, GateInitial, GateStep, PTL DEF RegSpec, ImplementsGate, Gate!GateSpec

-----------------------------------------------------------------------------
(***************************************************************************)
(* The lines on their way to the chat.  The first line of a frame whose    *)
(* chat helper runs has been shown.                                        *)
(***************************************************************************)
Unsent(frame) == IF frame.inChat THEN Tail(frame.out) ELSE frame.out

\* The frames of the game thread, and the lines each has still to show.
GameDepth == Depth(GameThread)
Frame(d) == stack[GameThread][d]
Out(d) == IF d \in 1 .. GameDepth THEN Unsent(Frame(d)) ELSE <<>>

InFlight(d, k) == k \in 1 .. Len(Out(d))
LineAt(d, k) == Out(d)[k]

-----------------------------------------------------------------------------
(***************************************************************************)
(* The parts of the inductive invariant.                                   *)
(***************************************************************************)
\* A frame that dispatched the one above it is in the chat helper, and only
\* the game thread has anything to deliver.
StackInv ==
  /\ stack \in [Threads -> Seq(FrameType)]
  /\ \A t \in Threads : \A d \in 1 .. Depth(t) :
       /\ stack[t][d].inChat => stack[t][d].out # <<>>
       /\ d < Depth(t) => stack[t][d].inChat
       /\ t # GameThread => stack[t][d].out = <<>>

\* The detour is not there while features register; what it counts has its type.
PhaseInv ==
  /\ phase # "attached" => ~summary.delivered /\ ~summary.pending
                           /\ \A t \in Threads : stack[t] = <<>>
  /\ instance \in 0 .. MaxInstance
  /\ chatReady \in BOOLEAN /\ clock \in Nat /\ due \in Nat
  /\ told \in [Slots -> StatusType \cup {Nothing}]

\* A pending notice is the game thread's, about this instance, and the only one
\* of its feature.
PendingInv ==
  /\ pending \in [Slots -> NoticeType \cup {Nothing}]
  /\ \A n \in Slots : pending[n] # Nothing =>
       LET notice == pending[n] IN
       /\ notice.thread = GameThread /\ notice.instance = instance
       /\ entries[notice.slot].used /\ entries[notice.slot].mismatchNoticeIssued
       /\ notice.serverRelease # notice.clientRelease
       /\ notice.clientRelease = entries[notice.slot].registration.featureRelease
  /\ \A n, m \in Slots : n # m /\ pending[n] # Nothing /\ pending[m] # Nothing =>
       pending[n].slot # pending[m].slot

\* A notice was shown at most once, only of a marked feature, and is then no
\* longer in the table.
ShownInv ==
  /\ shown \in [Slots \X (0 .. MaxInstance) -> {0, 1}]
  /\ \A s \in Slots, i \in 0 .. MaxInstance :
       shown[<<s, i>>] = 1 => i <= instance /\ (i = instance => entries[s].mismatchNoticeIssued)
  /\ \A n \in Slots : pending[n] # Nothing => shown[<<pending[n].slot, instance>>] = 0

\* A notice on its way is not in the table, was not shown, and is on its way
\* only once.
NoticeAt(d, k) == InFlight(d, k) /\ LineAt(d, k).kind = "notice"

NoticeInv ==
  /\ \A d, k \in Nat : NoticeAt(d, k) =>
       LET notice == LineAt(d, k) IN
       /\ notice.slot \in Slots /\ notice.instance \in 0 .. instance
       /\ shown[<<notice.slot, notice.instance>>] = 0
       /\ notice.instance = instance =>
            /\ entries[notice.slot].mismatchNoticeIssued
            /\ \A n \in Slots : pending[n] # Nothing => pending[n].slot # notice.slot
  /\ \A d, k, e, j \in Nat :
       /\ NoticeAt(d, k) /\ NoticeAt(e, j)
       /\ LineAt(d, k).slot = LineAt(e, j).slot
       /\ LineAt(d, k).instance = LineAt(e, j).instance
       => d = e /\ k = j

\* A summary that waits or was delivered: never both.
SummaryInv ==
  /\ summary \in SummaryType /\ summary.thread = GameThread
  /\ summary.delivered => ~summary.pending /\ Debug /\ chatReady
  /\ summary.pending => Debug /\ banners = 0
  /\ banners \in {0, 1}

\* Its first line is on its way only until it is shown, and no summary waits.
BannerInv ==
  \A d, k \in Nat : InFlight(d, k) /\ LineAt(d, k).kind = "banner" =>
    /\ k = 1 /\ ~Frame(d).inChat
    /\ banners = 0 /\ ~summary.pending

\* The deadline is the true time of the grace period's end, cut to tick counts.
DueInv ==
  /\ summary.pending => summary.deadline = due % TickWrap /\ due <= clock + SummaryDelay
  /\ summary.delivered => clock >= due

DetourInv ==
  RegInv /\ StackInv /\ PhaseInv /\ PendingInv /\ ShownInv /\ NoticeInv /\ SummaryInv /\ BannerInv /\ DueInv

\* Where the chat helper dispatches no RPC: only the outermost frame is about to
\* tell a status, and the status lines on their way tell what is reported.
StatusAt(d, k) == InFlight(d, k) /\ LineAt(d, k).kind = "status"

AboutToTell(s) == GameDepth > 0 /\ Frame(1).next = "update" /\ Find(s, Frame(1).feature)

ToldFrames ==
  \A d \in 1 .. GameDepth : Frame(d).next = "update" => d = 1 /\ Frame(d).out = <<>>

ToldLines ==
  \A d, k \in Nat : StatusAt(d, k) =>
    summary.delivered /\ LineAt(d, k).status = summary.reported[LineAt(d, k).slot]

\* What is reported of a feature was told or is on its way, and is its status
\* unless that is about to be told.
ToldStatus ==
  summary.delivered => \A s \in Slots : entries[s].used =>
    /\ told[s] = summary.reported[s] \/ \E d, k \in Nat : StatusAt(d, k) /\ LineAt(d, k).slot = s
    /\ summary.reported[s] = Status(s) \/ AboutToTell(s)

ToldInv == ToldFrames /\ ToldLines /\ ToldStatus

-----------------------------------------------------------------------------
(***************************************************************************)
(* The order of the table.                                                 *)
(***************************************************************************)
\* Listed in the order of the table, every slot of a set comes exactly once.
LEMMA TableOrder ==
  ASSUME NEW set \in SUBSET Slots
  PROVE  LET order == InTableOrder(set) IN
         /\ Cardinality(set) \in Nat
         /\ DOMAIN order = 1 .. Cardinality(set)
         /\ \A k \in 1 .. Cardinality(set) : order[k] \in set
         /\ \A j, k \in 1 .. Cardinality(set) : order[j] = order[k] => j = k
         /\ \A s \in set : \E k \in 1 .. Cardinality(set) : order[k] = s
<1> DEFINE below(s) == {r \in set : r <= s}
<1> DEFINE rank == [s \in set |-> Cardinality(below(s))]
<1> DEFINE n == Cardinality(set)
<1>1. MaxFeatures \in Nat /\ set \subseteq 1 .. MaxFeatures /\ set \subseteq Nat
  BY RegistryConstants DEF Slots
<1>2. IsFiniteSet(set) /\ n \in Nat
  <2>1. IsFiniteSet(1 .. MaxFeatures) /\ set \in SUBSET (1 .. MaxFeatures)
    BY <1>1, FS_Interval
  <2>2. IsFiniteSet(set)
    BY <2>1, FS_Subset
  <2> QED
    BY <2>2, FS_CardinalityType
<1>3. \A s \in set : IsFiniteSet(below(s)) /\ Cardinality(below(s)) \in 1 .. n
  <2> SUFFICES ASSUME NEW s \in set
               PROVE  IsFiniteSet(below(s)) /\ Cardinality(below(s)) \in 1 .. n
    OBVIOUS
  <2>1. IsFiniteSet(below(s)) /\ Cardinality(below(s)) <= n
    BY <1>2, FS_Subset
  <2>2. s \in below(s)
    BY <1>1
  <2>3. Cardinality(below(s)) \in Nat /\ Cardinality(below(s)) # 0
    BY <2>1, <2>2, FS_CardinalityType, FS_EmptySet
  <2> QED
    BY <1>2, <2>1, <2>3
<1>4. \A s, r \in set : s < r => Cardinality(below(s)) < Cardinality(below(r))
  <2> SUFFICES ASSUME NEW s \in set, NEW r \in set, s < r
               PROVE  Cardinality(below(s)) < Cardinality(below(r))
    OBVIOUS
  <2>1. below(s) \subseteq below(r) /\ r \in below(r) /\ r \notin below(s)
    <3>1. s \in Nat /\ r \in Nat /\ \A q \in set : q \in Nat
      BY <1>1
    <3>2. \A q \in set : q <= s => q <= r
      BY <3>1
    <3>3. r <= r /\ ~(r <= s)
      BY <3>1
    <3> QED
      BY <3>2, <3>3
  <2> HIDE DEF below
  <2>2. /\ IsFiniteSet(below(r)) /\ Cardinality(below(r)) \in Nat /\ Cardinality(below(s)) \in Nat
        /\ Cardinality(below(s)) <= Cardinality(below(r))
        /\ Cardinality(below(s)) = Cardinality(below(r)) => below(s) = below(r)
    BY <1>3, <2>1, FS_Subset
  <2> QED
    BY <2>1, <2>2
<1> HIDE DEF below
<1>5. \A s, r \in set : Cardinality(below(s)) = Cardinality(below(r)) => s = r
  <2> SUFFICES ASSUME NEW s \in set, NEW r \in set, Cardinality(below(s)) = Cardinality(below(r)), s # r
               PROVE  FALSE
    OBVIOUS
  <2>1. s < r \/ r < s
    BY <1>1
  <2> QED
    BY <1>3, <1>4, <2>1
<1>6. rank \in Injection(set, 1 .. n)
  BY <1>3, <1>5 DEF Injection, IsInjective
<1>7. IsFiniteSet(1 .. n) /\ Cardinality(1 .. n) = n
  BY <1>2, FS_Interval
<1>8. rank \in Surjection(set, 1 .. n)
  BY <1>6, <1>7, FS_Injection
<1>9. \A k \in 1 .. n : \E s \in set : Cardinality(below(s)) = k
  BY <1>8 DEF Surjection
<1> DEFINE at(k) == CHOOSE s \in set : Cardinality(below(s)) = k
<1>10. \A k \in 1 .. n : at(k) \in set /\ Cardinality(below(at(k))) = k
  BY <1>9
<1>11. InTableOrder(set) = [k \in 1 .. n |-> at(k)]
  BY DEF InTableOrder, below
<1> HIDE DEF at, n
<1>12. \A s \in set : at(Cardinality(below(s))) = s
  BY <1>3, <1>5, <1>10
<1>13. \A s \in set : \E k \in 1 .. n : at(k) = s
  BY <1>3, <1>12
<1>14. \A j, k \in 1 .. n : at(j) = at(k) => j = k
  BY <1>10
<1> QED
  BY <1>2, <1>10, <1>11, <1>13, <1>14 DEF n

-----------------------------------------------------------------------------
(***************************************************************************)
(* Frames.                                                                 *)
(***************************************************************************)
Stage == {"update", "notices", "summary", "original"}

\* The three changes the detour makes to a frame.
Loaded(f, lines, next) == [f EXCEPT !.out = lines, !.next = next]
InHelper(f) == [f EXCEPT !.inChat = TRUE]
BackFromHelper(f, lines) == [f EXCEPT !.inChat = FALSE, !.out = lines]

\* A frame from its fields.
FrameOf(next, feature, out, inChat) ==
  [next |-> next, feature |-> feature, out |-> out, inChat |-> inChat]

\* Every frame is made of its fields, and they have their types.
LEMMA FrameFields ==
  /\ \A f \in FrameType :
       /\ f = FrameOf(f.next, f.feature, f.out, f.inChat)
       /\ f.out \in Seq(LineType) /\ f.inChat \in BOOLEAN /\ f.next \in Stage /\ f.feature \in FeatureId
  /\ \A a, b, c, d : /\ FrameOf(a, b, c, d).next = a /\ FrameOf(a, b, c, d).feature = b
                     /\ FrameOf(a, b, c, d).out = c /\ FrameOf(a, b, c, d).inChat = d
  /\ \A a \in Stage, b \in FeatureId, c \in Seq(LineType), d \in BOOLEAN :
       FrameOf(a, b, c, d) \in FrameType
  /\ \A a, b, c, d, v : /\ [FrameOf(a, b, c, d) EXCEPT !.next = v] = FrameOf(v, b, c, d)
                        /\ [FrameOf(a, b, c, d) EXCEPT !.out = v] = FrameOf(a, b, v, d)
                        /\ [FrameOf(a, b, c, d) EXCEPT !.inChat = v] = FrameOf(a, b, c, v)
<1> DEFINE L == Seq(LineType)
<1> HIDE DEF L
<1>1. FrameType = [next : Stage, feature : FeatureId, out : L, inChat : BOOLEAN]
  BY DEF FrameType, L, Stage
<1>2. \A f \in FrameType :
        /\ f = FrameOf(f.next, f.feature, f.out, f.inChat)
        /\ f.out \in L /\ f.inChat \in BOOLEAN /\ f.next \in Stage /\ f.feature \in FeatureId
  BY <1>1 DEF FrameOf
<1>3. \A a, b, c, d : /\ FrameOf(a, b, c, d).next = a /\ FrameOf(a, b, c, d).feature = b
                      /\ FrameOf(a, b, c, d).out = c /\ FrameOf(a, b, c, d).inChat = d
  BY DEF FrameOf
<1>4. \A a \in Stage, b \in FeatureId, c \in L, d \in BOOLEAN : FrameOf(a, b, c, d) \in FrameType
  BY <1>1 DEF FrameOf
<1>5. \A a, b, c, d, v : /\ [FrameOf(a, b, c, d) EXCEPT !.next = v] = FrameOf(v, b, c, d)
                         /\ [FrameOf(a, b, c, d) EXCEPT !.out = v] = FrameOf(a, b, v, d)
                         /\ [FrameOf(a, b, c, d) EXCEPT !.inChat = v] = FrameOf(a, b, c, v)
  BY SMT DEF FrameOf
<1> QED
  BY <1>2, <1>3, <1>4, <1>5 DEF L

\* A frame with the lines of a delivery.
LEMMA FrameLoaded ==
  ASSUME NEW f \in FrameType, NEW lines \in Seq(LineType), NEW next \in Stage, NEW g, g = Loaded(f, lines, next)
  PROVE  /\ g \in FrameType /\ g.out = lines /\ g.next = next
         /\ g.inChat = f.inChat /\ g.feature = f.feature
<1> HIDE DEF FrameType, LineType
<1>1. g = [[f EXCEPT !.out = lines] EXCEPT !.next = next]
  BY DEF Loaded
<1>2. PICK n \in Stage, i \in FeatureId, o \in Seq(LineType), c \in {f.inChat} :
        c = f.inChat /\ f = FrameOf(n, i, o, c)
  BY FrameFields
<1>3. [FrameOf(n, i, o, c) EXCEPT !.out = lines] = FrameOf(n, i, lines, c)
  BY FrameFields
<1>4. [FrameOf(n, i, lines, c) EXCEPT !.next = next] = FrameOf(next, i, lines, c)
  BY FrameFields
<1>5. g = FrameOf(next, i, lines, c)
  BY <1>1, <1>2, <1>3, <1>4
<1>6. g \in FrameType
  <2>1. c \in BOOLEAN
    BY <1>2, FrameFields
  <2> QED
    BY <1>5, <2>1, FrameFields
<1>7. f.feature = i /\ g.out = lines /\ g.next = next /\ g.feature = i
  BY <1>2, <1>5, FrameFields
<1>8. FrameOf(n, i, o, c).inChat = c /\ FrameOf(next, i, lines, c).inChat = c
  BY FrameFields
<1>9. f.inChat = g.inChat
  BY <1>2, <1>5, <1>8
<1> QED
  BY <1>6, <1>7, <1>9

\* A frame inside the chat helper.
LEMMA FrameInHelper ==
  ASSUME NEW f \in FrameType, NEW g, g = InHelper(f)
  PROVE  /\ g \in FrameType /\ g.out = f.out /\ g.inChat
         /\ g.next = f.next /\ g.feature = f.feature
<1> HIDE DEF FrameType, LineType
<1> DEFINE yes == TRUE
<1>1. yes \in BOOLEAN
  OBVIOUS
<1>2. g = [f EXCEPT !.inChat = yes]
  BY DEF InHelper
<1> HIDE DEF yes
<1>3. PICK n \in Stage, i \in FeatureId, o \in Seq(LineType), c \in BOOLEAN : f = FrameOf(n, i, o, c)
  BY FrameFields
<1>4. [FrameOf(n, i, o, c) EXCEPT !.inChat = yes] = FrameOf(n, i, o, yes)
  BY FrameFields
<1>5. g = FrameOf(n, i, o, yes)
  BY <1>2, <1>3, <1>4
<1>6. g \in FrameType
  BY <1>1, <1>5, FrameFields
<1>7. g.inChat = yes /\ g.out = f.out /\ g.next = f.next /\ g.feature = f.feature
  BY <1>3, <1>5, FrameFields
<1> QED
  BY <1>6, <1>7 DEF yes

\* A frame back from the chat helper.
LEMMA FrameBack ==
  ASSUME NEW f \in FrameType, NEW lines \in Seq(LineType), NEW g, g = BackFromHelper(f, lines)
  PROVE  /\ g \in FrameType /\ g.out = lines /\ ~g.inChat
         /\ g.next = f.next /\ g.feature = f.feature
<1> HIDE DEF FrameType, LineType
<1> DEFINE no == FALSE
<1>1. no \in BOOLEAN
  OBVIOUS
<1>2. g = [[f EXCEPT !.inChat = no] EXCEPT !.out = lines]
  BY DEF BackFromHelper
<1> HIDE DEF no
<1>3. PICK n \in Stage, i \in FeatureId, o \in Seq(LineType), c \in BOOLEAN : f = FrameOf(n, i, o, c)
  BY FrameFields
<1>4. [FrameOf(n, i, o, c) EXCEPT !.inChat = no] = FrameOf(n, i, o, no)
  BY FrameFields
<1>5. [FrameOf(n, i, o, no) EXCEPT !.out = lines] = FrameOf(n, i, lines, no)
  BY FrameFields
<1>6. g = FrameOf(n, i, lines, no)
  BY <1>2, <1>3, <1>4, <1>5
<1>7. g \in FrameType
  BY <1>1, <1>6, FrameFields
<1>8. g.inChat = no /\ g.out = lines /\ g.next = f.next /\ g.feature = f.feature
  BY <1>3, <1>6, FrameFields
<1> QED
  BY <1>7, <1>8 DEF no

-----------------------------------------------------------------------------
(***************************************************************************)
(* The stack of a thread.                                                  *)
(***************************************************************************)
\* What the rest of the proof knows of the game thread's frames.
LEMMA FramesOfGame ==
  ASSUME StackInv
  PROVE  /\ GameThread \in Threads /\ GameDepth \in Nat /\ stack[GameThread] \in Seq(FrameType)
         /\ \A d \in Nat : Out(d) \in Seq(LineType) /\ Len(Out(d)) \in Nat
         /\ \A d \in 1 .. GameDepth :
              /\ Frame(d) \in FrameType /\ Out(d) = Unsent(Frame(d))
              /\ Frame(d).inChat => Frame(d).out # <<>>
              /\ d < GameDepth => Frame(d).inChat
<1> HIDE DEF FrameType, LineType
<1>1. GameThread \in Threads /\ stack[GameThread] \in Seq(FrameType) /\ GameDepth \in Nat
  BY HandshakeConstants, LenProperties DEF StackInv, GameDepth, Depth
<1>2. ASSUME NEW d \in 1 .. GameDepth
      PROVE  /\ Frame(d) \in FrameType
             /\ Frame(d).inChat => Frame(d).out # <<>>
             /\ d < GameDepth => Frame(d).inChat
             /\ Unsent(Frame(d)) \in Seq(LineType)
  <2>1. Frame(d) \in FrameType
    BY <1>1, ElementOfSeq DEF Frame, GameDepth, Depth
  <2>2. /\ Frame(d).inChat => Frame(d).out # <<>>
        /\ d < GameDepth => Frame(d).inChat
    BY <1>1 DEF StackInv, Frame, GameDepth
  <2>3. Frame(d).out \in Seq(LineType)
    BY <2>1, FrameFields
  <2>4. Unsent(Frame(d)) \in Seq(LineType)
    BY <2>2, <2>3, HeadTailProperties DEF Unsent
  <2> QED
    BY <2>1, <2>2, <2>4
<1>3. \A d \in Nat : Out(d) \in Seq(LineType)
  <2>1. <<>> \in Seq(LineType)
    BY EmptySeq
  <2> QED
    BY <1>2, <2>1 DEF Out
<1>4. \A d \in Nat : Len(Out(d)) \in Nat
  BY <1>3, LenProperties
<1>5. \A d \in 1 .. GameDepth : Out(d) = Unsent(Frame(d))
  BY DEF Out
<1> QED
  BY <1>1, <1>2, <1>3, <1>4, <1>5

\* A thread's stack is replaced by another well-formed one.
LEMMA StackReplaced ==
  ASSUME StackInv, NEW t \in Threads, NEW new \in Seq(FrameType),
         stack' = [stack EXCEPT ![t] = new],
         \A d \in 1 .. Len(new) : /\ new[d].inChat => new[d].out # <<>>
                                  /\ d < Len(new) => new[d].inChat
                                  /\ t # GameThread => new[d].out = <<>>
  PROVE  /\ StackInv'
         /\ stack'[t] = new
         /\ t # GameThread => stack'[GameThread] = stack[GameThread]
<1>1. stack \in [Threads -> Seq(FrameType)] /\ GameThread \in Threads
  BY HandshakeConstants DEF StackInv
<1>2. /\ stack' \in [Threads -> Seq(FrameType)] /\ stack'[t] = new
      /\ \A u \in Threads : u # t => stack'[u] = stack[u]
  BY <1>1
<1>3. ASSUME NEW u \in Threads, NEW d \in 1 .. Len(stack'[u])
      PROVE  /\ stack'[u][d].inChat => stack'[u][d].out # <<>>
             /\ d < Len(stack'[u]) => stack'[u][d].inChat
             /\ u # GameThread => stack'[u][d].out = <<>>
  <2>1. CASE u = t
    BY <1>2, <2>1
  <2>2. CASE u # t
    BY <1>2, <2>2 DEF StackInv, Depth
  <2> QED
    BY <2>1, <2>2
<1> QED
  BY <1>1, <1>2, <1>3 DEF StackInv, Depth

\* The lines on their way stay as they are.
FlightKept == \A d \in Nat : Out(d)' = Out(d)

\* The frames below the top stay as they are.
BelowKept(n) == \A d \in 1 .. n : Frame(d)' = Frame(d)

\* A step that leaves the game thread's stack alone leaves its lines alone.
LEMMA GameStackKept ==
  ASSUME stack'[GameThread] = stack[GameThread]
  PROVE  FlightKept /\ GameDepth' = GameDepth /\ BelowKept(GameDepth)
<1>1. GameDepth' = GameDepth /\ \A d : Frame(d)' = Frame(d)
  BY DEF GameDepth, Depth, Frame
<1>2. \A d : Out(d)' = Out(d)
  BY <1>1 DEF Out, Unsent
<1> QED
  BY <1>1, <1>2 DEF FlightKept, BelowKept

\* A frame without lines comes on top, or goes.
LEMMA FrameOfNoLines ==
  ASSUME GameDepth \in Nat, GameDepth' \in Nat, NEW n \in Nat, BelowKept(n),
         \/ GameDepth = n /\ GameDepth' = n + 1 /\ Unsent(Frame(n + 1)') = <<>>
         \/ GameDepth = n + 1 /\ GameDepth' = n /\ Unsent(Frame(n + 1)) = <<>>
  PROVE  FlightKept
<1> SUFFICES ASSUME NEW d \in Nat PROVE Out(d)' = Out(d)
  BY DEF FlightKept
<1>1. CASE d \in 1 .. n
  <2>1. d \in 1 .. GameDepth /\ d \in 1 .. GameDepth'
    BY <1>1
  <2> QED
    BY <1>1, <2>1 DEF Out, BelowKept, Unsent
<1>2. CASE d = n + 1
  <2>1. \/ d \notin 1 .. GameDepth /\ Unsent(Frame(d)') = <<>>
        \/ d \notin 1 .. GameDepth' /\ Unsent(Frame(d)) = <<>>
    BY <1>2
  <2>2. Unsent(Frame(d)') = Unsent(Frame(d))'
    BY DEF Unsent
  <2> QED
    BY <1>2, <2>1, <2>2 DEF Out
<1>3. CASE d \notin 1 .. n /\ d # n + 1
  <2>1. d \notin 1 .. GameDepth /\ d \notin 1 .. GameDepth'
    BY <1>3
  <2> QED
    BY <2>1 DEF Out
<1> QED
  BY <1>1, <1>2, <1>3

\* A new call starts a frame without lines.
LEMMA Pushed ==
  ASSUME StackInv, NEW t \in Threads, CanDispatch(t), NEW n \in Nat, n = Depth(t),
         NEW next \in Stage, NEW feature \in FeatureId, Push(t, NewFrame(next, feature))
  PROVE  /\ StackInv' /\ FlightKept
         /\ t # GameThread => stack'[GameThread] = stack[GameThread]
         /\ t = GameThread =>
              GameDepth' = n + 1 /\ BelowKept(n) /\ Frame(n + 1)' = NewFrame(next, feature)
<1> DEFINE f == NewFrame(next, feature)
           new == Append(stack[t], f)
<1> HIDE DEF FrameType, LineType
<1>1. stack[t] \in Seq(FrameType) /\ GameThread \in Threads
  BY HandshakeConstants, LenProperties DEF StackInv, Depth
<1>2. f \in FrameType /\ f.out = <<>> /\ ~f.inChat
  <2>1. <<>> \in Seq(LineType)
    BY EmptySeq
  <2> QED
    BY <2>1 DEF NewFrame, FrameType, Stage
<1>3. stack' = [stack EXCEPT ![t] = new]
  BY DEF Push
<1> HIDE DEF f
<1>4. /\ new \in Seq(FrameType) /\ Len(new) = n + 1 /\ new[n + 1] = f
      /\ \A d \in 1 .. n : new[d] = stack[t][d]
  BY <1>1, <1>2, AppendProperties DEF Depth
<1> HIDE DEF new
<1>5. n > 0 => stack[t][n].inChat
  BY DEF CanDispatch, Top
<1>6. ASSUME NEW d \in 1 .. n + 1
      PROVE  /\ new[d].inChat => new[d].out # <<>>
             /\ d < n + 1 => new[d].inChat
             /\ t # GameThread => new[d].out = <<>>
  <2>1. CASE d = n + 1
    BY <1>2, <1>4, <2>1
  <2>2. CASE d # n + 1
    <3>1. d \in 1 .. n /\ new[d] = stack[t][d] /\ (d = n \/ d < n)
      BY <1>1, <1>4, <2>2
    <3> QED
      BY <1>1, <1>5, <3>1 DEF StackInv
  <2> QED
    BY <2>1, <2>2
<1>7. /\ StackInv' /\ stack'[t] = new
      /\ t # GameThread => stack'[GameThread] = stack[GameThread]
  BY <1>3, <1>4, <1>6, StackReplaced
<1>8. CASE t # GameThread
  BY <1>7, <1>8, GameStackKept
<1>9. CASE t = GameThread
  <2>1. GameDepth = n /\ GameDepth' = Len(new)
    BY <1>7, <1>9 DEF GameDepth, Depth
  <2>2. \A d : Frame(d) = stack[t][d] /\ Frame(d)' = new[d]
    BY <1>7, <1>9 DEF Frame
  <2>3. GameDepth' = n + 1 /\ Frame(n + 1)' = f /\ BelowKept(n)
    BY <1>4, <2>1, <2>2 DEF BelowKept
  <2>4. Unsent(Frame(n + 1)') = <<>>
    BY <1>2, <2>3 DEF Unsent
  <2>5. FlightKept
    BY <2>1, <2>3, <2>4, FrameOfNoLines
  <2> QED
    BY <1>7, <1>9, <2>3, <2>5 DEF f
<1> QED
  BY <1>8, <1>9

\* A call ends with a frame that has nothing left to show.
LEMMA Popped ==
  ASSUME StackInv, NEW t \in Threads, FinishCall(t), NEW n \in Nat, n = Depth(t)
  PROVE  /\ StackInv' /\ FlightKept
         /\ t # GameThread => stack'[GameThread] = stack[GameThread]
         /\ t = GameThread =>
              /\ n > 0 /\ GameDepth' = n - 1 /\ BelowKept(n - 1)
              /\ Frame(n).out = <<>> /\ Frame(n).next = "original"
<1> DEFINE new == SubSeq(stack[t], 1, n - 1)
<1> HIDE DEF FrameType, LineType
<1>1. stack[t] \in Seq(FrameType) /\ GameThread \in Threads
  BY HandshakeConstants, LenProperties DEF StackInv, Depth
<1>2. n > 0 /\ stack[t][n].out = <<>> /\ stack[t][n].next = "original"
  BY DEF FinishCall, AtStage, Top
<1>3. stack' = [stack EXCEPT ![t] = new]
  BY DEF FinishCall
<1>4. /\ new \in Seq(FrameType) /\ Len(new) = n - 1
      /\ \A d \in 1 .. n - 1 : new[d] = stack[t][d]
  <2>1. Len(stack[t]) = n
    BY DEF Depth
  <2>2. n - 1 \in Nat
    BY <1>2
  <2>3. \A d \in 1 .. n - 1 : stack[t][d] \in FrameType
    BY <1>1, <2>1, ElementOfSeq
  <2>4. new = [d \in 1 .. n - 1 |-> stack[t][d]]
    BY <1>1, <1>2, <2>1, SubSeqProperties
  <2>5. new \in Seq(FrameType) /\ Len(new) = n - 1
    BY <2>2, <2>3, <2>4
  <2> QED
    BY <2>4, <2>5
<1> HIDE DEF new
<1>5. ASSUME NEW d \in 1 .. n - 1
      PROVE  /\ new[d].inChat => new[d].out # <<>>
             /\ d < n - 1 => new[d].inChat
             /\ t # GameThread => new[d].out = <<>>
  <2>1. d \in 1 .. n /\ new[d] = stack[t][d] /\ d < n
    BY <1>1, <1>4
  <2> QED
    BY <2>1 DEF StackInv
<1>6. /\ StackInv' /\ stack'[t] = new
      /\ t # GameThread => stack'[GameThread] = stack[GameThread]
  BY <1>3, <1>4, <1>5, StackReplaced
<1>7. CASE t # GameThread
  BY <1>6, <1>7, GameStackKept
<1>8. CASE t = GameThread
  <2>1. GameDepth = n /\ GameDepth' = Len(new)
    BY <1>6, <1>8 DEF GameDepth, Depth
  <2>2. \A d : Frame(d) = stack[t][d] /\ Frame(d)' = new[d]
    BY <1>6, <1>8 DEF Frame
  <2>3. GameDepth' = n - 1 /\ BelowKept(n - 1)
    BY <1>4, <2>1, <2>2 DEF BelowKept
  <2>4. Frame(n).out = <<>> /\ Frame(n).next = "original"
    BY <1>2, <2>2
  <2>5. ~Frame(n).inChat
    BY <1>1, <1>2, <1>8, <2>2 DEF StackInv
  <2>6. Unsent(Frame(n)) = <<>>
    BY <2>4, <2>5 DEF Unsent
  <2>7. FlightKept
    <3> DEFINE m == n - 1
    <3>1. m \in Nat /\ n = m + 1
      BY <1>1, <1>2
    <3>2. GameDepth = m + 1 /\ GameDepth' = m /\ BelowKept(m) /\ Unsent(Frame(m + 1)) = <<>>
      BY <2>1, <2>3, <2>6, <3>1
    <3> HIDE DEF m
    <3>3. GameDepth \in Nat /\ GameDepth' \in Nat
      BY <3>1, <3>2
    <3> QED
      BY <3>1, <3>2, <3>3, FrameOfNoLines
  <2> QED
    BY <1>2, <1>6, <1>8, <2>1, <2>3, <2>4, <2>7
<1> QED
  BY <1>7, <1>8

\* The top frame is replaced by another well-formed one.
LEMMA TopReplaced ==
  ASSUME StackInv, NEW t \in Threads, NEW n \in Nat, n = Depth(t), n > 0, NEW g \in FrameType,
         g.inChat => g.out # <<>>, t # GameThread => g.out = <<>>, stack' = WithTop(t, g)
  PROVE  /\ StackInv'
         /\ t # GameThread => stack'[GameThread] = stack[GameThread] /\ FlightKept
         /\ t = GameThread =>
              /\ GameDepth' = n /\ BelowKept(n - 1) /\ Frame(n)' = g
              /\ Out(n)' = Unsent(g) /\ \A d \in Nat : d # n => Out(d)' = Out(d)
<1> DEFINE new == [stack[t] EXCEPT ![n] = g]
<1> HIDE DEF FrameType, LineType
<1>1. stack[t] \in Seq(FrameType) /\ GameThread \in Threads /\ Len(stack[t]) = n
  BY HandshakeConstants, LenProperties DEF StackInv, Depth
<1>2. stack' = [stack EXCEPT ![t] = new]
  BY DEF WithTop
<1>3. /\ new \in Seq(FrameType) /\ Len(new) = n /\ new[n] = g
      /\ \A d \in 1 .. n - 1 : new[d] = stack[t][d]
  <2>1. n \in 1 .. n
    OBVIOUS
  <2>2. new = [d \in 1 .. n |-> IF d = n THEN g ELSE stack[t][d]]
    BY <1>1, <2>1, LenProperties
  <2>3. \A d \in 1 .. n : stack[t][d] \in FrameType
    BY <1>1, ElementOfSeq
  <2>4. \A d \in 1 .. n : new[d] \in FrameType
    BY <2>2, <2>3
  <2>5. new \in Seq(FrameType) /\ Len(new) = n
    BY <1>1, <2>2, <2>4
  <2> QED
    BY <1>1, <2>1, <2>2, <2>5
<1> HIDE DEF new
<1>4. ASSUME NEW d \in 1 .. n
      PROVE  /\ new[d].inChat => new[d].out # <<>>
             /\ d < n => new[d].inChat
             /\ t # GameThread => new[d].out = <<>>
  <2>1. CASE d = n
    BY <1>1, <1>3, <2>1
  <2>2. CASE d # n
    <3>1. d \in 1 .. n - 1 /\ new[d] = stack[t][d] /\ d < n
      BY <1>1, <1>3, <2>2
    <3> QED
      BY <3>1 DEF StackInv
  <2> QED
    BY <2>1, <2>2
<1>5. /\ StackInv' /\ stack'[t] = new
      /\ t # GameThread => stack'[GameThread] = stack[GameThread]
  BY <1>2, <1>3, <1>4, StackReplaced
<1>6. CASE t # GameThread
  BY <1>5, <1>6, GameStackKept
<1>7. CASE t = GameThread
  <2>1. GameDepth = n /\ GameDepth' = Len(new)
    BY <1>5, <1>7 DEF GameDepth, Depth
  <2>2. \A d : Frame(d) = stack[t][d] /\ Frame(d)' = new[d]
    BY <1>5, <1>7 DEF Frame
  <2>3. GameDepth' = n /\ BelowKept(n - 1) /\ Frame(n)' = g
    BY <1>3, <2>1, <2>2 DEF BelowKept
  <2>4. n \in 1 .. n
    BY <1>1
  <2>5. Out(n)' = Unsent(g)
    BY <2>1, <2>3, <2>4 DEF Out, Unsent
  <2>6. ASSUME NEW d \in Nat, d # n
        PROVE  Out(d)' = Out(d)
    <3>1. d \in 1 .. n => d \in 1 .. n - 1
      BY <1>1, <2>6
    <3> QED
      BY <2>1, <2>3, <3>1 DEF Out, Unsent, BelowKept
  <2> QED
    BY <1>5, <1>7, <2>1, <2>3, <2>5, <2>6
<1> QED
  BY <1>6, <1>7

-----------------------------------------------------------------------------
(***************************************************************************)
(* What the calls and their steps do to the lines on their way.            *)
(***************************************************************************)
\* No frame of the game thread is about to send a line.
NothingToSend == \A d \in 1 .. GameDepth : Frame(d).inChat \/ Frame(d).out = <<>>

\* A step that brings no line on its way and shows none.
Quiet == FlightKept /\ (stack'[GameThread] = stack[GameThread] \/ NothingToSend)

\* A thread with nothing to send: its top frame is in the helper or done.
LEMMA TopDecides ==
  ASSUME StackInv, GameDepth > 0 => Frame(GameDepth).inChat \/ Frame(GameDepth).out = <<>>
  PROVE  NothingToSend
<1> SUFFICES ASSUME NEW d \in 1 .. GameDepth PROVE Frame(d).inChat \/ Frame(d).out = <<>>
  BY DEF NothingToSend
<1>1. GameDepth \in Nat /\ (d < GameDepth => Frame(d).inChat)
  BY FramesOfGame
<1>2. d < GameDepth \/ (d = GameDepth /\ GameDepth > 0)
  BY <1>1
<1> QED
  BY <1>1, <1>2

\* A call begins.
LEMMA CallBegins ==
  ASSUME StackInv, NEW t \in Threads, CanDispatch(t),
         NEW next \in Stage, NEW feature \in FeatureId, Push(t, NewFrame(next, feature))
  PROVE  StackInv' /\ Quiet /\ (t = GameThread => NothingToSend)
<1>1. PICK n \in Nat : n = Depth(t)
  BY LenProperties DEF StackInv, Depth
<1>2. /\ StackInv' /\ FlightKept
      /\ t # GameThread => stack'[GameThread] = stack[GameThread]
  BY <1>1, Pushed
<1>3. ASSUME t = GameThread PROVE NothingToSend
  <2>1. GameDepth > 0 => Frame(GameDepth).inChat
    BY <1>3 DEF CanDispatch, Top, GameDepth, Frame
  <2> QED
    BY <2>1, TopDecides
<1> QED
  BY <1>2, <1>3 DEF Quiet

\* A call ends.
LEMMA CallEnds ==
  ASSUME StackInv, NEW t \in Threads, FinishCall(t)
  PROVE  StackInv' /\ Quiet
<1>1. PICK n \in Nat : n = Depth(t)
  BY LenProperties DEF StackInv, Depth
<1>2. /\ StackInv' /\ FlightKept
      /\ t # GameThread => stack'[GameThread] = stack[GameThread]
      /\ t = GameThread => Frame(n).out = <<>>
  BY <1>1, Popped
<1>3. ASSUME t = GameThread PROVE NothingToSend
  <2>1. GameDepth = n
    BY <1>1, <1>3 DEF GameDepth
  <2> QED
    BY <1>2, <1>3, <2>1, TopDecides
<1> QED
  BY <1>2, <1>3 DEF Quiet

\* The lines of a delivery are put on their way.
LEMMA Delivered ==
  ASSUME StackInv, NEW t \in Threads, NEW n \in Nat, n = Depth(t),
         NEW stage \in Stage, AtStage(t, stage), NEW lines \in Seq(LineType), NEW next \in Stage,
         t # GameThread => lines = <<>>, Deliver(t, lines, next)
  PROVE  /\ StackInv'
         /\ t # GameThread => Quiet /\ stack'[GameThread] = stack[GameThread]
         /\ t = GameThread =>
              /\ NothingToSend /\ n > 0 /\ GameDepth = n /\ GameDepth' = n /\ BelowKept(n - 1)
              /\ Out(n) = <<>> /\ Out(n)' = lines /\ \A d \in Nat : d # n => Out(d)' = Out(d)
              /\ ~Frame(n)'.inChat /\ Frame(n)'.next = next /\ Frame(n)'.out = lines
              /\ Frame(n)'.feature = Frame(n).feature
<1> HIDE DEF FrameType, LineType
<1> DEFINE g == Loaded(Top(t), lines, next)
<1>1. n > 0 /\ Top(t) = stack[t][n] /\ Top(t).out = <<>> /\ n \in 1 .. Depth(t)
  BY DEF AtStage, Top
<1>2. stack[t] \in Seq(FrameType) /\ Len(stack[t]) = n /\ GameThread \in Threads
  BY HandshakeConstants DEF StackInv, Depth
<1>3. Top(t) \in FrameType /\ ~Top(t).inChat
  <2>1. stack[t][n] \in FrameType
    BY <1>1, <1>2, ElementOfSeq DEF Depth
  <2> QED
    BY <1>1, <2>1 DEF StackInv
<1>4. /\ g \in FrameType /\ g.out = lines /\ g.next = next /\ ~g.inChat
      /\ g.feature = Top(t).feature
  BY <1>3, FrameLoaded
<1>5. stack' = WithTop(t, g)
  BY DEF Deliver, Loaded
<1> HIDE DEF g
<1>6. /\ StackInv'
      /\ t # GameThread => stack'[GameThread] = stack[GameThread] /\ FlightKept
      /\ t = GameThread =>
           /\ GameDepth' = n /\ BelowKept(n - 1) /\ Frame(n)' = g
           /\ Out(n)' = Unsent(g) /\ \A d \in Nat : d # n => Out(d)' = Out(d)
  BY <1>1, <1>4, <1>5, TopReplaced
<1>7. Unsent(g) = lines
  BY <1>4 DEF Unsent
<1>8. ASSUME t = GameThread
      PROVE  GameDepth = n /\ NothingToSend /\ Out(n) = <<>> /\ Frame(n) = Top(t)
  <2>1. GameDepth = n /\ Frame(n) = Top(t)
    BY <1>1, <1>8 DEF GameDepth, Frame
  <2>2. Out(n) = <<>>
    BY <1>1, <1>3, <2>1 DEF Out, Unsent
  <2>3. NothingToSend
    BY <1>1, <2>1, TopDecides
  <2> QED
    BY <2>1, <2>2, <2>3
<1> QED
  BY <1>1, <1>4, <1>6, <1>7, <1>8 DEF Quiet

\* The first line of the top frame is shown.  Only the game thread has one.
LEMMA Shown1 ==
  ASSUME StackInv, NEW t \in Threads, NEW n \in Nat, n = Depth(t), QueueChatMessage(t)
  PROVE  /\ StackInv' /\ t = GameThread /\ n > 0 /\ GameDepth = n /\ GameDepth' = n /\ BelowKept(n - 1)
         /\ ~Frame(n).inChat /\ Out(n) = Frame(n).out /\ Out(n) # <<>>
         /\ Out(n)' = Tail(Out(n)) /\ \A d \in Nat : d # n => Out(d)' = Out(d)
         /\ Head(Out(n)) \in LineType /\ Record(Head(Out(n)))
         /\ Frame(n)'.next = Frame(n).next /\ Frame(n)'.feature = Frame(n).feature
         /\ Frame(n)'.out = Frame(n).out
<1> HIDE DEF FrameType, LineType
<1> DEFINE g == InHelper(Top(t))
<1>1. /\ n > 0 /\ Top(t) = stack[t][n] /\ Top(t).out # <<>> /\ ~Top(t).inChat /\ n \in 1 .. Depth(t)
      /\ Record(Head(Top(t).out)) /\ stack' = WithTop(t, g)
  BY DEF QueueChatMessage, Top, InHelper
<1>2. stack[t] \in Seq(FrameType) /\ Len(stack[t]) = n /\ GameThread \in Threads
  BY HandshakeConstants DEF StackInv, Depth
<1>3. Top(t) \in FrameType /\ t = GameThread
  <2>1. stack[t][n] \in FrameType
    BY <1>1, <1>2, ElementOfSeq DEF Depth
  <2> QED
    BY <1>1, <2>1 DEF StackInv
<1>4. /\ g \in FrameType /\ g.out = Top(t).out /\ g.inChat /\ Top(t).out \in Seq(LineType)
      /\ g.next = Top(t).next /\ g.feature = Top(t).feature
  BY <1>3, FrameFields, FrameInHelper
<1> HIDE DEF g
<1>5. /\ StackInv'
      /\ GameDepth' = n /\ BelowKept(n - 1) /\ Frame(n)' = g
      /\ Out(n)' = Unsent(g) /\ \A d \in Nat : d # n => Out(d)' = Out(d)
  BY <1>1, <1>3, <1>4, TopReplaced
<1>6. GameDepth = n /\ Frame(n) = Top(t)
  BY <1>1, <1>3 DEF GameDepth, Frame
<1>7. Out(n) = Frame(n).out
  BY <1>1, <1>6 DEF Out, Unsent
<1>8. Unsent(g) = Tail(Top(t).out)
  BY <1>4 DEF Unsent
<1>9. Head(Top(t).out) \in LineType
  BY <1>1, <1>4, HeadTailProperties
<1> QED
  BY <1>1, <1>3, <1>4, <1>5, <1>6, <1>7, <1>8, <1>9

\* The chat helper returns to the frame that called it.
LEMMA HelperReturns ==
  ASSUME StackInv, NEW t \in Threads, NEW n \in Nat, n = Depth(t), ChatReturns(t)
  PROVE  /\ StackInv' /\ Quiet /\ t = GameThread /\ n > 0 /\ GameDepth = n /\ GameDepth' = n
         /\ BelowKept(n - 1)
         /\ Frame(n)'.next = Frame(n).next /\ Frame(n)'.feature = Frame(n).feature
         /\ Frame(n).out # <<>>
<1> HIDE DEF FrameType, LineType
<1> DEFINE rest == Tail(Top(t).out)
           g == BackFromHelper(Top(t), rest)
<1>1. /\ n > 0 /\ Top(t) = stack[t][n] /\ Top(t).inChat /\ n \in 1 .. Depth(t)
      /\ stack' = WithTop(t, [Top(t) EXCEPT !.inChat = FALSE, !.out = Tail(@)])
  BY DEF ChatReturns, Top
<1>2. stack[t] \in Seq(FrameType) /\ Len(stack[t]) = n /\ GameThread \in Threads
  BY HandshakeConstants DEF StackInv, Depth
<1>3. Top(t) \in FrameType /\ t = GameThread /\ Top(t).out # <<>>
  <2>1. stack[t][n] \in FrameType
    BY <1>1, <1>2, ElementOfSeq DEF Depth
  <2> QED
    BY <1>1, <2>1 DEF StackInv
<1>4. Top(t).out \in Seq(LineType) /\ rest \in Seq(LineType)
  BY <1>3, FrameFields, HeadTailProperties
<1>5. /\ g \in FrameType /\ g.out = rest /\ ~g.inChat
      /\ g.next = Top(t).next /\ g.feature = Top(t).feature
  <2> HIDE DEF rest
  <2>1. PICK f \in FrameType : f = Top(t)
    BY <1>3
  <2>2. g = BackFromHelper(f, rest)
    BY <2>1
  <2> HIDE DEF g
  <2>3. /\ g \in FrameType /\ g.out = rest /\ ~g.inChat
        /\ g.next = f.next /\ g.feature = f.feature
    BY <1>4, <2>2, FrameBack
  <2> QED
    BY <2>1, <2>3
<1>6. stack' = WithTop(t, g)
  BY <1>1 DEF BackFromHelper
<1> HIDE DEF g, rest
<1>7. /\ StackInv'
      /\ GameDepth' = n /\ BelowKept(n - 1) /\ Frame(n)' = g
      /\ Out(n)' = Unsent(g) /\ \A d \in Nat : d # n => Out(d)' = Out(d)
  BY <1>1, <1>3, <1>5, <1>6, TopReplaced
<1>8. GameDepth = n /\ Frame(n) = Top(t)
  BY <1>1, <1>3 DEF GameDepth, Frame
<1>9. Out(n) = Unsent(g)
  BY <1>1, <1>5, <1>8 DEF Out, Unsent, rest
<1>10. FlightKept /\ NothingToSend
  <2>1. NothingToSend
    BY <1>1, <1>8, TopDecides
  <2> QED
    BY <1>7, <1>9, <2>1 DEF FlightKept
<1> QED
  BY <1>1, <1>3, <1>5, <1>7, <1>8, <1>10 DEF Quiet

-----------------------------------------------------------------------------
(***************************************************************************)
(* What the registry's steps do to what the notices rest on.               *)
(***************************************************************************)
\* Registered features stay, and a mark stays until the next travel.
TableGrows ==
  \A s \in Slots :
    /\ entries[s].used => entries'[s].used /\ entries'[s].registration = entries[s].registration
    /\ entries[s].mismatchNoticeIssued => entries'[s].mismatchNoticeIssued

\* The search for an id has one result.
LEMMA OneFound ==
  ASSUME NEW id, NEW s, NEW r, Find(s, id), Find(r, id)
  PROVE  s = r
<1>1. s \in Nat /\ r \in Nat /\ s \in Slots /\ r \in Slots
  BY RegistryConstants DEF Find, Slots
<1>2. ~(s < r) /\ ~(r < s)
  BY <1>1 DEF Find
<1> QED
  BY <1>1, <1>2

\* One entry changes, and keeps its registration and its mark.
LEMMA EntryChanges ==
  ASSUME RegTypeOK, NEW s \in Slots, NEW e, entries' = [entries EXCEPT ![s] = e],
         e.used = entries[s].used, e.registration = entries[s].registration,
         entries[s].mismatchNoticeIssued => e.mismatchNoticeIssued
  PROVE  /\ TableGrows /\ \A r \in Slots : entries'[r].used = entries[r].used
         /\ \A r \in Slots : r # s => entries'[r] = entries[r]
         /\ entries'[s] = e
<1>1. entries'[s] = e /\ \A r \in Slots : r # s => entries'[r] = entries[r]
  BY DEF RegTypeOK
<1>2. ASSUME NEW r \in Slots
      PROVE  /\ entries'[r].used = entries[r].used
             /\ entries'[r].registration = entries[r].registration
             /\ entries[r].mismatchNoticeIssued => entries'[r].mismatchNoticeIssued
  <2>1. CASE r = s
    BY <1>1, <2>1
  <2>2. CASE r # s
    BY <1>1, <2>2
  <2> QED
    BY <2>1, <2>2
<1> QED
  BY <1>1, <1>2 DEF TableGrows

\* A token concerns the feature it names; a mismatch marks it.
LEMMA TokenEffects ==
  ASSUME RegInv, NEW token \in Tokens, HandleServerToken(token)
  PROVE  /\ RegInv' /\ TableGrows /\ phase = "attached" /\ phase' = phase
         /\ \A s \in Slots : entries'[s].used = entries[s].used
         /\ \A s \in Slots : ~Find(s, GetFeatureId(token)) => entries'[s] = entries[s]
         /\ \A s \in Slots : Find(s, GetFeatureId(token)) /\ Mismatched(s, token) =>
              entries'[s].mismatchNoticeIssued
<1> DEFINE id == GetFeatureId(token)
<1>1. RegInv' /\ RegTypeOK
  BY RegStepPreserves DEF RegNext, RegInv
<1>2. phase = "attached"
  BY DEF HandleServerToken
<1>3. CASE UnknownFeature(token)
  <2>1. UNCHANGED regVars /\ \A s \in Slots : ~Find(s, id)
    BY <1>3 DEF UnknownFeature, Known, Find
  <2> QED
    BY <1>1, <1>2, <2>1 DEF regVars, TableGrows
<1>4. ASSUME NEW s \in Slots, Find(s, id), FeatureReleaseMismatch(s, token)
      PROVE  /\ TableGrows /\ phase' = phase
             /\ \A r \in Slots : entries'[r].used = entries[r].used
             /\ \A r \in Slots : r # s => entries'[r] = entries[r]
             /\ entries'[s].mismatchNoticeIssued
  <2> DEFINE e == [entries[s] EXCEPT !.state = "ReleaseMismatch",
                                     !.serverRelease = GetFeatureRelease(token),
                                     !.mismatchNoticeIssued = TRUE]
  <2>1. entries[s] \in Entry
    BY <1>1 DEF RegTypeOK
  <2>2. e.used = entries[s].used /\ e.registration = entries[s].registration /\ e.mismatchNoticeIssued
    BY <2>1 DEF Entry
  <2>3. entries' = [entries EXCEPT ![s] = e] /\ phase' = phase
    BY <1>1, <1>4 DEF FeatureReleaseMismatch, RegTypeOK
  <2> HIDE DEF e
  <2>4. /\ TableGrows /\ entries'[s] = e
        /\ \A r \in Slots : entries'[r].used = entries[r].used
        /\ \A r \in Slots : r # s => entries'[r] = entries[r]
    BY <1>1, <2>2, <2>3, EntryChanges
  <2> QED
    BY <2>2, <2>3, <2>4
<1>5. ASSUME NEW s \in Slots, Find(s, id), NEW accepted \in BOOLEAN, Activation(s, token, accepted)
      PROVE  /\ TableGrows /\ phase' = phase
             /\ \A r \in Slots : entries'[r].used = entries[r].used
             /\ \A r \in Slots : r # s => entries'[r] = entries[r]
  <2> DEFINE e == [entries[s] EXCEPT !.serverRelease = GetFeatureRelease(token),
                                     !.state = IF accepted THEN "Active" ELSE "ActivationFailed"]
  <2>1. entries[s] \in Entry
    BY <1>1 DEF RegTypeOK
  <2>2. /\ e.used = entries[s].used /\ e.registration = entries[s].registration
        /\ entries[s].mismatchNoticeIssued => e.mismatchNoticeIssued
    BY <2>1 DEF Entry
  <2>3. entries' = [entries EXCEPT ![s] = e] /\ phase' = phase
    BY <1>1, <1>5 DEF Activation, RegTypeOK
  <2> HIDE DEF e
  <2> QED
    BY <1>1, <2>2, <2>3, EntryChanges
<1>6. ASSUME NEW s \in Slots, Find(s, id),
             \/ FeatureReleaseMismatch(s, token)
             \/ AlreadyActive(s, token)
             \/ \E accepted \in BOOLEAN : Activation(s, token, accepted)
      PROVE  /\ TableGrows /\ phase' = phase
             /\ \A r \in Slots : entries'[r].used = entries[r].used
             /\ \A r \in Slots : r # s => entries'[r] = entries[r]
             /\ Mismatched(s, token) => entries'[s].mismatchNoticeIssued
  <2>1. CASE FeatureReleaseMismatch(s, token)
    BY <1>4, <1>6, <2>1
  <2>2. CASE AlreadyActive(s, token)
    BY <2>2 DEF AlreadyActive, regVars, TableGrows
  <2>3. CASE \E accepted \in BOOLEAN : Activation(s, token, accepted)
    <3>1. ~Mismatched(s, token)
      BY <2>3 DEF Activation
    <3> QED
      BY <1>5, <1>6, <2>3, <3>1
  <2> QED
    BY <1>6, <2>1, <2>2, <2>3
<1>7. CASE \E s \in Slots :
             /\ Find(s, id)
             /\ \/ FeatureReleaseMismatch(s, token)
                \/ AlreadyActive(s, token)
                \/ \E accepted \in BOOLEAN : Activation(s, token, accepted)
  <2>1. PICK s \in Slots :
             /\ Find(s, id)
             /\ \/ FeatureReleaseMismatch(s, token)
                \/ AlreadyActive(s, token)
                \/ \E accepted \in BOOLEAN : Activation(s, token, accepted)
    BY <1>7
  <2>2. \A r \in Slots : Find(r, id) => r = s
    BY <2>1, OneFound
  <2>3. /\ TableGrows /\ phase' = phase
        /\ \A r \in Slots : entries'[r].used = entries[r].used
        /\ \A r \in Slots : r # s => entries'[r] = entries[r]
        /\ Mismatched(s, token) => entries'[s].mismatchNoticeIssued
    BY <1>6, <2>1
  <2> QED
    BY <1>1, <1>2, <2>1, <2>2, <2>3
<1> QED
  BY <1>3, <1>7 DEF HandleServerToken

\* While features register, only free entries change.
LEMMA StartupEffects ==
  ASSUME RegInv, Startup
  PROVE  RegInv' /\ TableGrows /\ phase = "registering" /\ UNCHANGED hsVars
<1>1. RegInv'
  BY RegStepPreserves DEF Startup, RegNext
<1>2. phase = "registering" /\ UNCHANGED hsVars
  BY DEF Startup, Register, FinishRegistration
<1>3. ASSUME NEW reg \in Registrations, StoreRegistration(reg)
      PROVE  TableGrows
  <2>1. PICK s \in Slots : /\ FirstFree(s)
                           /\ entries' = [entries EXCEPT ![s].used = TRUE, ![s].registration = reg]
    BY <1>3 DEF StoreRegistration
  <2>2. entries \in [Slots -> Entry] /\ entries[s] \in Entry /\ ~entries[s].used
    BY <2>1 DEF RegInv, RegTypeOK, FirstFree
  <2> DEFINE e == [entries[s] EXCEPT !.used = TRUE, !.registration = reg]
  <2>3. e.mismatchNoticeIssued = entries[s].mismatchNoticeIssued
    BY <2>2 DEF Entry
  <2>4. entries' = [entries EXCEPT ![s] = e]
    BY <2>1, <2>2
  <2> HIDE DEF e
  <2>5. entries'[s] = e /\ \A r \in Slots : r # s => entries'[r] = entries[r]
    BY <2>2, <2>4
  <2> QED
    BY <2>2, <2>3, <2>5 DEF TableGrows
<1>4. CASE entries' = entries
  BY <1>1, <1>2, <1>4 DEF TableGrows
<1>5. CASE \E reg \in Registrations : StoreRegistration(reg)
  BY <1>1, <1>2, <1>3, <1>5
<1>6. entries' = entries \/ \E reg \in Registrations : StoreRegistration(reg)
  BY DEF Startup, Register, RepeatRegistration, RefuseRegistration, FinishRegistration, regVars
<1> QED
  BY <1>4, <1>5, <1>6

\* A travel forgets the advertisements, not the features.
LEMMA ResetEffects ==
  ASSUME RegInv, Reset
  PROVE  /\ RegInv' /\ phase = "attached" /\ phase' = phase
         /\ \A s \in Slots : entries'[s].used = entries[s].used
<1>1. RegInv'
  BY ResetPreserves
<1>2. phase = "attached" /\ phase' = phase /\ entries' = [s \in Slots |-> ResetEntry(entries[s])]
  BY DEF Reset
<1>3. ASSUME NEW s \in Slots PROVE entries'[s].used = entries[s].used
  <2>1. entries[s] \in Entry /\ entries'[s] = ResetEntry(entries[s])
    BY <1>2 DEF RegInv, RegTypeOK
  <2> QED
    BY <2>1 DEF ResetEntry, Entry
<1> QED
  BY <1>1, <1>2, <1>3

-----------------------------------------------------------------------------
(***************************************************************************)
(* The table of pending notices.                                           *)
(***************************************************************************)
\* A set of slots that is not empty has a first one.
LEMMA FirstSlot ==
  ASSUME NEW S \in SUBSET Slots, S # {}
  PROVE  \E n \in S : \A m \in S : n <= m
<1>1. S \in SUBSET Nat
  BY RegistryConstants DEF Slots
<1>2. PICK n \in S : \A m \in S : <<m, n>> \notin OpToRel(<, Nat)
  BY <1>1, WFMin, NatLessThanWellFounded, Zenon
<1>3. \A m \in S : ~(m < n)
  BY <1>1, <1>2, Zenon DEF OpToRel
<1> QED
  BY <1>1, <1>3, SMT

\* A feature that was not marked yet finds room: the pending notices belong to
\* marked features, each to another.
LEMMA FeatureFindsRoom ==
  ASSUME PendingInv, NEW s \in Slots, ~entries[s].mismatchNoticeIssued
  PROVE  \E n \in Slots : pending[n] = Nothing
<1> SUFFICES ASSUME \A n \in Slots : pending[n] # Nothing PROVE FALSE
  OBVIOUS
<1> DEFINE f == [n \in Slots |-> pending[n].slot]
           others == Slots \ {s}
<1>1. ASSUME NEW n \in Slots PROVE pending[n].slot \in others
  <2>1. pending[n] \in NoticeType /\ entries[pending[n].slot].mismatchNoticeIssued
    BY DEF PendingInv
  <2>2. pending[n].slot \in Slots
    BY <2>1 DEF NoticeType
  <2> QED
    BY <2>1, <2>2
<1>2. f \in [Slots -> others] /\ \A n, m \in Slots : n # m => f[n] # f[m]
  <2>1. \A n, m \in Slots : n # m => pending[n].slot # pending[m].slot
    BY DEF PendingInv
  <2> HIDE DEF others
  <2> QED
    BY <1>1, <2>1
<1>3. IsFiniteSet(Slots) /\ Cardinality(Slots) \in Nat
  <2>1. MaxFeatures \in Int
    BY RegistryConstants
  <2>2. IsFiniteSet(Slots)
    BY <2>1, FS_Interval DEF Slots
  <2> QED
    BY <2>2, FS_CardinalityType
<1>4. IsFiniteSet(others) /\ Cardinality(others) < Cardinality(Slots)
  <2>1. IsFiniteSet(others) /\ Cardinality(others) = Cardinality(Slots) - 1
    BY <1>3, FS_RemoveElement
  <2> QED
    BY <1>3, <2>1
<1> HIDE DEF f, others
<1>5. \E n, m \in Slots : n # m /\ f[n] = f[m]
  BY <1>2, <1>3, <1>4, FS_PigeonHole
<1> QED
  BY <1>2, <1>5

\* The notice of a feature that was not marked yet takes a free place.
LEMMA NoticeQueued ==
  ASSUME PendingInv, NEW s \in Slots, ~entries[s].mismatchNoticeIssued, NEW notice, notice.slot = s
  PROVE  \E free \in Slots : /\ pending[free] = Nothing
                             /\ QueueMismatchNotice(pending, notice) = [pending EXCEPT ![free] = notice]
<1> DEFINE rooms == {n \in Slots : pending[n] = Nothing}
           free == CHOOSE n \in Slots :
                     pending[n] = Nothing /\ \A m \in Slots : m < n => pending[m] # Nothing
<1>1. rooms \in SUBSET Slots /\ rooms # {}
  BY FeatureFindsRoom
<1>2. PICK n \in rooms : \A m \in rooms : n <= m
  BY <1>1, FirstSlot
<1>3. \A m \in Slots : m < n => pending[m] # Nothing
  <2>1. \A m \in Slots : m \in Nat
    BY RegistryConstants DEF Slots
  <2> QED
    BY <1>2, <2>1
<1>4. free \in Slots /\ pending[free] = Nothing
  BY <1>2, <1>3
<1>5. ~\E m \in Slots : pending[m] # Nothing /\ pending[m].slot = notice.slot
  BY DEF PendingInv
<1>6. ~\A m \in Slots : pending[m] # Nothing
  BY <1>4
<1>7. QueueMismatchNotice(pending, notice) = [pending EXCEPT ![free] = notice]
  BY <1>5, <1>6 DEF QueueMismatchNotice
<1> QED
  BY <1>4, <1>7

-----------------------------------------------------------------------------
(***************************************************************************)
(* What keeps the parts of the invariant.                                  *)
(***************************************************************************)
\* The detour's frames exist only once the detour is attached.
PhaseKept ==
  /\ phase = "attached" => phase' = "attached"
  /\ phase # "attached" => UNCHANGED <<stack, summary>>

\* Nothing came into the table of pending notices.
PendingShrinks ==
  \A n \in Slots : pending'[n] # Nothing => pending[n] # Nothing /\ pending'[n] = pending[n]

\* Every notice on its way was on its way before, perhaps further back.
NoticesAdvance(back) ==
  \A d, k \in Nat : NoticeAt(d, k)' =>
    NoticeAt(d, k + back[d]) /\ LineAt(d, k)' = LineAt(d, k + back[d])

\* Nothing more is pending, and nothing was unmarked.
LEMMA PendingKept ==
  ASSUME PendingInv, TableGrows, PendingShrinks, instance' = instance,
         pending' \in [Slots -> NoticeType \cup {Nothing}]
  PROVE  PendingInv'
<1>1. ASSUME NEW n \in Slots, pending'[n] # Nothing
      PROVE  /\ pending'[n].thread = GameThread /\ pending'[n].instance = instance
             /\ entries'[pending'[n].slot].used /\ entries'[pending'[n].slot].mismatchNoticeIssued
             /\ pending'[n].serverRelease # pending'[n].clientRelease
             /\ pending'[n].clientRelease = entries'[pending'[n].slot].registration.featureRelease
  <2>1. pending[n] # Nothing /\ pending'[n] = pending[n]
    BY <1>1 DEF PendingShrinks
  <2>2. pending[n] \in NoticeType
    BY <2>1 DEF PendingInv
  <2>3. pending[n].slot \in Slots
    BY <2>2 DEF NoticeType
  <2>4. /\ pending[n].thread = GameThread /\ pending[n].instance = instance
        /\ entries[pending[n].slot].used /\ entries[pending[n].slot].mismatchNoticeIssued
        /\ pending[n].serverRelease # pending[n].clientRelease
        /\ pending[n].clientRelease = entries[pending[n].slot].registration.featureRelease
    BY <2>1 DEF PendingInv
  <2> QED
    BY <2>1, <2>3, <2>4 DEF TableGrows
<1>2. ASSUME NEW n \in Slots, NEW m \in Slots, n # m, pending'[n] # Nothing, pending'[m] # Nothing
      PROVE  pending'[n].slot # pending'[m].slot
  BY <1>2 DEF PendingShrinks, PendingInv
<1> QED
  BY <1>1, <1>2 DEF PendingInv

\* The same for what was shown.
LEMMA ShownKept ==
  ASSUME PendingInv, ShownInv, TableGrows, PendingShrinks, UNCHANGED <<instance, shown>>
  PROVE  ShownInv'
<1>1. \A n \in Slots : pending'[n] # Nothing => shown[<<pending'[n].slot, instance>>] = 0
  BY DEF PendingShrinks, ShownInv
<1>2. \A s \in Slots, i \in 0 .. MaxInstance :
        shown[<<s, i>>] = 1 => i <= instance /\ (i = instance => entries'[s].mismatchNoticeIssued)
  BY DEF ShownInv, TableGrows
<1> QED
  BY <1>1, <1>2 DEF ShownInv

\* The same for the notices on their way, when none of them was just shown.
LEMMA NoticesKept ==
  ASSUME NoticeInv, TableGrows, PendingShrinks, instance' = instance, NEW back \in [Nat -> Nat],
         NoticesAdvance(back),
         \A d, k \in Nat : NoticeAt(d, k)' =>
           LET notice == LineAt(d, k)' IN
           shown'[<<notice.slot, notice.instance>>] = shown[<<notice.slot, notice.instance>>]
  PROVE  NoticeInv'
<1>1. ASSUME NEW d \in Nat, NEW k \in Nat, NoticeAt(d, k)'
      PROVE  LET notice == LineAt(d, k)' IN
             /\ notice.slot \in Slots /\ notice.instance \in 0 .. instance
             /\ shown'[<<notice.slot, notice.instance>>] = 0
             /\ notice.instance = instance =>
                  /\ entries'[notice.slot].mismatchNoticeIssued
                  /\ \A n \in Slots : pending'[n] # Nothing => pending'[n].slot # notice.slot
  <2> DEFINE was == k + back[d]
             notice == LineAt(d, was)
  <2>1. was \in Nat /\ NoticeAt(d, was) /\ LineAt(d, k)' = notice
    BY <1>1 DEF NoticesAdvance
  <2> HIDE DEF was
  <2>2. /\ notice.slot \in Slots /\ notice.instance \in 0 .. instance
        /\ shown[<<notice.slot, notice.instance>>] = 0
        /\ notice.instance = instance =>
             /\ entries[notice.slot].mismatchNoticeIssued
             /\ \A n \in Slots : pending[n] # Nothing => pending[n].slot # notice.slot
    BY <2>1 DEF NoticeInv
  <2>3. shown'[<<notice.slot, notice.instance>>] = shown[<<notice.slot, notice.instance>>]
    BY <1>1, <2>1
  <2> HIDE DEF notice
  <2> QED
    BY <2>1, <2>2, <2>3 DEF TableGrows, PendingShrinks
<1>2. ASSUME NEW d \in Nat, NEW k \in Nat, NEW e \in Nat, NEW j \in Nat,
             NoticeAt(d, k)', NoticeAt(e, j)',
             LineAt(d, k)'.slot = LineAt(e, j)'.slot, LineAt(d, k)'.instance = LineAt(e, j)'.instance
      PROVE  d = e /\ k = j
  <2>1. /\ k + back[d] \in Nat /\ j + back[e] \in Nat
        /\ NoticeAt(d, k + back[d]) /\ LineAt(d, k)' = LineAt(d, k + back[d])
        /\ NoticeAt(e, j + back[e]) /\ LineAt(e, j)' = LineAt(e, j + back[e])
    BY <1>2 DEF NoticesAdvance
  <2>2. d = e /\ k + back[d] = j + back[e]
    BY <1>2, <2>1 DEF NoticeInv
  <2>3. back[d] \in Nat
    OBVIOUS
  <2> QED
    BY <2>2, <2>3
<1> QED
  BY <1>1, <1>2 DEF NoticeInv

\* Where no line starts on its way, no banner is on its way either.
LEMMA NoBanner ==
  ASSUME StackInv, BannerInv, NothingToSend
  PROVE  \A d, k \in Nat : InFlight(d, k) => LineAt(d, k).kind # "banner"
<1> SUFFICES ASSUME NEW d \in Nat, NEW k \in Nat, InFlight(d, k), LineAt(d, k).kind = "banner"
             PROVE  FALSE
  OBVIOUS
<1>1. ~Frame(d).inChat
  BY DEF BannerInv
<1>2. Out(d) # <<>>
  <2>1. Len(<<>>) = 0
    BY EmptySeq
  <2> QED
    BY <2>1 DEF InFlight
<1>3. d \in 1 .. GameDepth /\ Out(d) = Frame(d).out
  BY <1>1, <1>2 DEF Out, Unsent
<1> QED
  BY <1>1, <1>2, <1>3 DEF NothingToSend

\* A quiet step keeps the notices and the banner on their way.
LEMMA QuietFlight ==
  ASSUME StackInv, Quiet
  PROVE  /\ NoticesAdvance([d \in Nat |-> 0])
         /\ BannerInv /\ banners' = banners /\ summary'.pending = summary.pending => BannerInv'
         /\ BannerInv /\ NothingToSend => BannerInv'
<1>1. \A d \in Nat : Out(d)' = Out(d)
  BY DEF Quiet, FlightKept
<1>2. \A d, k \in Nat : /\ InFlight(d, k)' <=> InFlight(d, k)
                        /\ LineAt(d, k)' = LineAt(d, k)
  BY <1>1 DEF InFlight, LineAt
<1>3. NoticesAdvance([d \in Nat |-> 0])
  <2>1. \A d, k \in Nat : k + [e \in Nat |-> 0][d] = k
    OBVIOUS
  <2>2. \A d, k \in Nat : NoticeAt(d, k)' <=> NoticeAt(d, k)
    BY <1>2 DEF NoticeAt
  <2> QED
    BY <1>2, <2>1, <2>2 DEF NoticesAdvance
<1>4. ASSUME BannerInv, NothingToSend PROVE BannerInv'
  BY <1>2, <1>4, NoBanner DEF BannerInv
<1>5. ASSUME BannerInv, stack'[GameThread] = stack[GameThread],
             banners' = banners, summary'.pending = summary.pending
      PROVE  BannerInv'
  <2>1. \A d : Frame(d)' = Frame(d)
    BY <1>5 DEF Frame
  <2> QED
    BY <1>2, <1>5, <2>1 DEF BannerInv
<1> QED
  BY <1>3, <1>4, <1>5 DEF Quiet

\* What the phase, the summary and the deadline say stays true while the
\* summary is left alone.
LEMMA RestKept ==
  ASSUME DetourInv, PhaseKept, UNCHANGED <<summary, instance, told, banners, due>>,
         chatReady' \in BOOLEAN, chatReady => chatReady', clock' \in Nat, clock <= clock'
  PROVE  PhaseInv' /\ SummaryInv' /\ DueInv'
<1>1. PhaseInv'
  BY DEF DetourInv, PhaseInv, PhaseKept
<1>2. SummaryInv'
  BY DEF DetourInv, SummaryInv
<1>3. DueInv'
  <2>1. SummaryDelay \in Nat /\ clock \in Nat /\ due \in Nat /\ due' = due /\ summary' = summary
    BY HandshakeConstants DEF DetourInv, PhaseInv
  <2>2. ASSUME summary.pending
        PROVE  summary.deadline = due % TickWrap /\ due <= clock' + SummaryDelay
    <3>1. summary.deadline = due % TickWrap /\ due <= clock + SummaryDelay
      BY <2>2 DEF DetourInv, DueInv
    <3>2. clock <= clock' /\ clock' \in Nat
      OBVIOUS
    <3>3. \A a, b, c, d \in Nat : a <= b + d /\ b <= c => a <= c + d
      OBVIOUS
    <3>4. due <= clock' + SummaryDelay
      BY ONLY <2>1, <3>1, <3>2, <3>3
    <3> QED
      BY <3>1, <3>4
  <2>3. ASSUME summary.delivered
        PROVE  clock' >= due
    <3>1. clock >= due
      BY <2>3 DEF DetourInv, DueInv
    <3> QED
      BY <2>1, <3>1
  <2> QED
    BY <2>1, <2>2, <2>3 DEF DueInv
<1> QED
  BY <1>1, <1>2, <1>3

\* A step that shows nothing, puts nothing on its way and leaves the table and
\* the summary alone keeps the invariant.
LEMMA QuietStep ==
  ASSUME DetourInv, RegInv', StackInv', Quiet, TableGrows, PhaseKept,
         UNCHANGED <<pending, summary, instance, lineVars, due>>,
         chatReady' \in BOOLEAN, chatReady => chatReady', clock' \in Nat, clock <= clock'
  PROVE  DetourInv'
<1>1. UNCHANGED <<shown, told, banners>>
  BY DEF lineVars
<1>2. PhaseInv' /\ SummaryInv' /\ DueInv'
  BY <1>1, RestKept
<1>3. PendingShrinks /\ pending' \in [Slots -> NoticeType \cup {Nothing}]
  BY DEF PendingShrinks, DetourInv, PendingInv
<1>4. PendingInv' /\ ShownInv'
  BY <1>1, <1>3, PendingKept, ShownKept DEF DetourInv
<1>5. [d \in Nat |-> 0] \in [Nat -> Nat] /\ NoticesAdvance([d \in Nat |-> 0])
  BY QuietFlight DEF DetourInv
<1>6. NoticeInv'
  BY <1>1, <1>3, <1>5, NoticesKept DEF DetourInv
<1>7. BannerInv'
  BY <1>1, QuietFlight DEF DetourInv
<1> QED
  BY <1>2, <1>4, <1>6, <1>7 DEF DetourInv

-----------------------------------------------------------------------------
(***************************************************************************)
(* The quiet actions.                                                      *)
(***************************************************************************)
\* A step that leaves the registry alone.
LEMMA RegistryKept ==
  ASSUME RegInv, UNCHANGED regVars
  PROVE  RegInv' /\ TableGrows /\ phase' = phase
<1>1. RegInv'
  BY RegStepPreserves
<1> QED
  BY <1>1 DEF regVars, TableGrows

\* A thread with a frame, or a new one, runs the attached detour.
LEMMA Attached ==
  ASSUME PhaseInv, NEW t \in Threads, Depth(t) > 0 \/ CanDispatch(t)
  PROVE  phase = "attached"
<1>1. Len(<<>>) = 0
  BY EmptySeq
<1> QED
  BY <1>1 DEF PhaseInv, Depth, CanDispatch, Hooked

\* Startup happens before the detour is attached.
LEMMA StartupPreserves ==
  ASSUME DetourInv, Startup
  PROVE  DetourInv'
<1>1. RegInv' /\ TableGrows /\ phase = "registering" /\ UNCHANGED hsVars
  BY StartupEffects DEF DetourInv
<1>2. UNCHANGED <<chatReady, pending, summary, stack, clock, instance, lineVars, due>>
  BY <1>1 DEF hsVars
<1>3. StackInv' /\ Quiet
  BY <1>2, GameStackKept DEF DetourInv, StackInv, Depth, Quiet
<1>4. PhaseKept
  BY <1>1, <1>2 DEF PhaseKept
<1>5. chatReady' \in BOOLEAN /\ (chatReady => chatReady') /\ clock' \in Nat /\ clock <= clock'
  BY <1>2 DEF DetourInv, PhaseInv
<1> QED
  BY <1>1, <1>2, <1>3, <1>4, <1>5, QuietStep

\* A quiet step of an attached detour that leaves the registry alone.
LEMMA QuietAction ==
  ASSUME DetourInv, StackInv', Quiet, phase = "attached",
         UNCHANGED <<regVars, chatReady, pending, summary, clock, instance, lineVars, due>>
  PROVE  DetourInv'
<1>1. RegInv' /\ TableGrows /\ phase' = phase
  BY RegistryKept DEF DetourInv
<1>2. PhaseKept
  BY <1>1 DEF PhaseKept
<1>3. chatReady' \in BOOLEAN /\ (chatReady => chatReady') /\ clock' \in Nat /\ clock <= clock'
  BY DEF DetourInv, PhaseInv
<1> QED
  BY <1>1, <1>2, <1>3, QuietStep

\* A call of any other function.
LEMMA OtherCallPreserves ==
  ASSUME DetourInv, NEW t \in Threads, OtherCall(t)
  PROVE  DetourInv'
<1>1. "notices" \in Stage /\ 0 \in FeatureId
  BY DEF Stage, FeatureId
<1>2. StackInv' /\ Quiet
  BY <1>1, CallBegins DEF DetourInv, OtherCall
<1>3. phase = "attached"
  BY Attached DEF DetourInv, OtherCall
<1> QED
  BY <1>2, <1>3, QuietAction DEF OtherCall

\* The end of a call.
LEMMA FinishCallPreserves ==
  ASSUME DetourInv, NEW t \in Threads, FinishCall(t)
  PROVE  DetourInv'
<1>1. StackInv' /\ Quiet
  BY CallEnds DEF DetourInv
<1>2. phase = "attached"
  BY Attached DEF DetourInv, FinishCall, AtStage
<1> QED
  BY <1>1, <1>2, QuietAction DEF FinishCall

\* The return of the chat helper.
LEMMA ChatReturnsPreserves ==
  ASSUME DetourInv, NEW t \in Threads, ChatReturns(t)
  PROVE  DetourInv'
<1>1. PICK n \in Nat : n = Depth(t)
  BY LenProperties DEF DetourInv, StackInv, Depth
<1>2. StackInv' /\ Quiet
  BY <1>1, HelperReturns DEF DetourInv
<1>3. phase = "attached"
  BY Attached DEF DetourInv, ChatReturns
<1> QED
  BY <1>2, <1>3, QuietAction DEF ChatReturns

\* A delivery of no line.
LEMMA NothingDelivered ==
  ASSUME DetourInv, NEW t \in Threads, NEW stage \in Stage, AtStage(t, stage), NEW next \in Stage,
         Deliver(t, <<>>, next),
         UNCHANGED <<regVars, chatReady, pending, summary, clock, instance, lineVars, due>>
  PROVE  DetourInv'
<1>1. PICK n \in Nat : n = Depth(t)
  BY LenProperties DEF DetourInv, StackInv, Depth
<1>2. <<>> \in Seq(LineType)
  BY EmptySeq
<1>3. /\ StackInv'
      /\ t # GameThread => Quiet
      /\ t = GameThread =>
           NothingToSend /\ Out(n) = <<>> /\ Out(n)' = <<>> /\ \A d \in Nat : d # n => Out(d)' = Out(d)
  BY <1>1, <1>2, Delivered DEF DetourInv
<1>4. Quiet
  BY <1>3 DEF Quiet, FlightKept
<1>5. phase = "attached"
  BY Attached DEF DetourInv, AtStage
<1> QED
  BY <1>3, <1>4, <1>5, QuietAction

\* The retail game creates its chat manager, and time passes.
LEMMA RetailPreserves ==
  ASSUME DetourInv, ChatManagerCreated \/ ClockAdvances
  PROVE  DetourInv'
<1>1. UNCHANGED <<regVars, pending, summary, stack, instance, lineVars, due>>
  BY DEF ChatManagerCreated, ClockAdvances
<1>2. RegInv' /\ TableGrows /\ PhaseKept
  BY <1>1, RegistryKept DEF DetourInv, PhaseKept
<1>3. StackInv' /\ Quiet
  BY <1>1, GameStackKept DEF DetourInv, StackInv, Depth, Quiet
<1>4. clock' \in Nat /\ clock <= clock'
  BY DEF DetourInv, PhaseInv, ChatManagerCreated, ClockAdvances
<1>5. chatReady' \in BOOLEAN /\ (chatReady => chatReady')
  BY Zenon DEF DetourInv, PhaseInv, ChatManagerCreated, ClockAdvances
<1> QED
  BY <1>1, <1>2, <1>3, <1>4, <1>5, QuietStep

-----------------------------------------------------------------------------
(***************************************************************************)
(* A server token.                                                         *)
(***************************************************************************)
\* The slot a token's notice is about is the one the search finds.
LEMMA SlotFound ==
  ASSUME RegInv, NEW id, Known(id)
  PROVE  Find(SlotOf(id), id)
<1>1. PICK s \in Slots : Holds(s, id)
  BY DEF Known
<1>2. \A r \in Slots : Holds(r, id) => r = s
  BY <1>1 DEF RegInv, OneSlotPerFeature, Holds
<1>3. Find(s, id)
  <2>1. \A r \in Slots : r < s => r # s
    BY RegistryConstants DEF Slots
  <2> QED
    BY <1>1, <1>2, <2>1 DEF Find
<1> QED
  BY <1>3 DEF SlotOf, Find

\* A feature that was not marked yet has its notice queued: nothing of it is in
\* the table, on its way, or shown.
LEMMA NoticeAdded ==
  ASSUME DetourInv, StackInv', Quiet, TableGrows, NEW s \in Slots, NEW notice \in NoticeType,
         notice.slot = s, notice.thread = GameThread, notice.instance = instance,
         notice.serverRelease # notice.clientRelease,
         notice.clientRelease = entries[s].registration.featureRelease,
         entries[s].used, ~entries[s].mismatchNoticeIssued, entries'[s].mismatchNoticeIssued,
         pending' = QueueMismatchNotice(pending, notice), UNCHANGED <<instance, shown>>
  PROVE  PendingInv' /\ ShownInv' /\ NoticeInv'
<1> HIDE DEF NoticeType
<1>1. PICK free \in Slots : pending[free] = Nothing /\ pending' = [pending EXCEPT ![free] = notice]
  BY NoticeQueued DEF DetourInv
<1>2. /\ pending'[free] = notice
      /\ \A n \in Slots : n # free => pending'[n] = pending[n]
      /\ pending' \in [Slots -> NoticeType \cup {Nothing}]
  BY <1>1 DEF DetourInv, PendingInv
<1>3. ASSUME NEW n \in Slots, n # free, pending'[n] # Nothing
      PROVE  /\ pending'[n].thread = GameThread /\ pending'[n].instance = instance
             /\ pending'[n].slot \in Slots /\ pending'[n].slot # s
             /\ entries'[pending'[n].slot].used /\ entries'[pending'[n].slot].mismatchNoticeIssued
             /\ pending'[n].serverRelease # pending'[n].clientRelease
             /\ pending'[n].clientRelease = entries'[pending'[n].slot].registration.featureRelease
             /\ shown[<<pending'[n].slot, instance>>] = 0
  <2>1. pending[n] # Nothing /\ pending'[n] = pending[n]
    BY <1>2, <1>3
  <2>2. pending[n].slot \in Slots
    BY <2>1 DEF DetourInv, PendingInv, NoticeType
  <2>3. /\ pending[n].thread = GameThread /\ pending[n].instance = instance
        /\ entries[pending[n].slot].used /\ entries[pending[n].slot].mismatchNoticeIssued
        /\ pending[n].serverRelease # pending[n].clientRelease
        /\ pending[n].clientRelease = entries[pending[n].slot].registration.featureRelease
    BY <2>1 DEF DetourInv, PendingInv
  <2>4. shown[<<pending[n].slot, instance>>] = 0
    BY <2>1 DEF DetourInv, ShownInv
  <2> QED
    BY <2>1, <2>2, <2>3, <2>4 DEF TableGrows
<1>4. /\ entries'[s].used /\ notice.clientRelease = entries'[s].registration.featureRelease
      /\ \A r \in Slots : entries[r].mismatchNoticeIssued => entries'[r].mismatchNoticeIssued /\ r # s
  BY DEF TableGrows
<1>5. shown[<<s, instance>>] = 0
  <2>1. instance \in 0 .. MaxInstance
    BY DEF DetourInv, PhaseInv
  <2>2. shown[<<s, instance>>] \in {0, 1}
    BY <2>1 DEF DetourInv, ShownInv
  <2> QED
    BY <2>1, <2>2 DEF DetourInv, ShownInv
<1>6. ASSUME NEW n \in Slots, pending'[n] # Nothing
      PROVE  /\ pending'[n].thread = GameThread /\ pending'[n].instance = instance
             /\ entries'[pending'[n].slot].used /\ entries'[pending'[n].slot].mismatchNoticeIssued
             /\ pending'[n].serverRelease # pending'[n].clientRelease
             /\ pending'[n].clientRelease = entries'[pending'[n].slot].registration.featureRelease
             /\ shown[<<pending'[n].slot, instance>>] = 0
  <2>1. CASE n = free
    BY <1>2, <1>4, <1>5, <2>1
  <2>2. CASE n # free
    BY <1>3, <1>6, <2>2
  <2> QED
    BY <2>1, <2>2
<1>7. ASSUME NEW n \in Slots, NEW m \in Slots, n # m, pending'[n] # Nothing, pending'[m] # Nothing
      PROVE  pending'[n].slot # pending'[m].slot
  <2>1. notice.slot = s /\ \A r \in Slots : r # free /\ pending'[r] # Nothing => pending'[r].slot # s
    BY <1>3
  <2>2. CASE n = free
    BY <1>2, <1>7, <2>1, <2>2
  <2>3. CASE m = free
    BY <1>2, <1>7, <2>1, <2>3
  <2>4. CASE n # free /\ m # free
    BY <1>2, <1>7, <2>4 DEF DetourInv, PendingInv
  <2> QED
    BY <2>2, <2>3, <2>4
<1>8. PendingInv'
  BY <1>2, <1>6, <1>7 DEF PendingInv
<1>9. ShownInv'
  <2>1. \A r \in Slots, i \in 0 .. MaxInstance :
          shown[<<r, i>>] = 1 => i <= instance /\ (i = instance => entries'[r].mismatchNoticeIssued)
    BY DEF DetourInv, ShownInv, TableGrows
  <2> QED
    BY <1>6, <2>1 DEF DetourInv, ShownInv
<1>10. \A d, k \in Nat : /\ NoticeAt(d, k)' <=> NoticeAt(d, k)
                         /\ LineAt(d, k)' = LineAt(d, k)
  BY DEF Quiet, FlightKept, NoticeAt, InFlight, LineAt
<1>11. ASSUME NEW d \in Nat, NEW k \in Nat, NoticeAt(d, k)'
       PROVE  LET line == LineAt(d, k)' IN
              /\ line.slot \in Slots /\ line.instance \in 0 .. instance
              /\ shown[<<line.slot, line.instance>>] = 0
              /\ line.instance = instance =>
                   /\ entries'[line.slot].mismatchNoticeIssued
                   /\ \A n \in Slots : pending'[n] # Nothing => pending'[n].slot # line.slot
  <2> DEFINE line == LineAt(d, k)
  <2>1. LineAt(d, k)' = line
    BY <1>10
  <2>2. /\ line.slot \in Slots /\ line.instance \in 0 .. instance
        /\ shown[<<line.slot, line.instance>>] = 0
        /\ line.instance = instance =>
             /\ entries[line.slot].mismatchNoticeIssued
             /\ \A n \in Slots : pending[n] # Nothing => pending[n].slot # line.slot
    BY <1>10, <1>11 DEF DetourInv, NoticeInv
  <2> HIDE DEF line
  <2>3. ASSUME line.instance = instance, NEW n \in Slots, pending'[n] # Nothing
        PROVE  pending'[n].slot # line.slot
    <3>1. line.slot # s /\ notice.slot = s
      BY <1>4, <2>2, <2>3
    <3> QED
      BY <1>2, <2>2, <2>3, <3>1
  <2> QED
    BY <1>4, <2>1, <2>2, <2>3
<1>12. NoticeInv'
  <2>1. \A d, k, e, j \in Nat :
          /\ NoticeAt(d, k)' /\ NoticeAt(e, j)'
          /\ LineAt(d, k)'.slot = LineAt(e, j)'.slot
          /\ LineAt(d, k)'.instance = LineAt(e, j)'.instance
          => d = e /\ k = j
    BY <1>10 DEF DetourInv, NoticeInv
  <2> QED
    BY <1>11, <2>1 DEF NoticeInv
<1> QED
  BY <1>8, <1>9, <1>12

\* An advertisement changes the registry and may queue one notice.
LEMMA ServerTokenPreserves ==
  ASSUME DetourInv, NEW t \in Threads, NEW token \in Tokens, ServerToken(t, token)
  PROVE  DetourInv'
<1> DEFINE id == GetFeatureId(token)
           next == IF Debug THEN "update" ELSE "notices"
           s == SlotOf(id)
           notice == Notice(s, token, t)
<1>1. /\ CanDispatch(t) /\ t = GameThread /\ HandleServerToken(token) /\ Push(t, NewFrame(next, id))
      /\ UNCHANGED <<chatReady, summary, clock, instance, lineVars, due>>
      /\ pending' = IF Known(id) /\ ShouldNotifyUser(s, token)
                      THEN QueueMismatchNotice(pending, notice) ELSE pending
  BY DEF ServerToken, CanDispatchRpc
<1>2. id \in FeatureId /\ GetFeatureRelease(token) \in FeatureRelease /\ next \in Stage
  BY DecodeTyped, RegistryConstants DEF Stage
<1>3. StackInv' /\ Quiet
  BY <1>1, <1>2, CallBegins DEF DetourInv
<1>4. /\ RegInv' /\ TableGrows /\ phase = "attached" /\ phase' = phase
      /\ \A r \in Slots : Find(r, id) /\ Mismatched(r, token) => entries'[r].mismatchNoticeIssued
  BY <1>1, TokenEffects DEF DetourInv
<1>5. PhaseKept
  BY <1>4 DEF PhaseKept
<1>6. chatReady' \in BOOLEAN /\ (chatReady => chatReady') /\ clock' \in Nat /\ clock <= clock'
  BY <1>1 DEF DetourInv, PhaseInv
<1>7. CASE ~(Known(id) /\ ShouldNotifyUser(s, token))
  <2>1. pending' = pending
    BY <1>1, <1>7
  <2> HIDE DEF id, s, notice, next
  <2> QED
    BY <1>1, <1>3, <1>4, <1>5, <1>6, <2>1, QuietStep
<1>8. CASE Known(id) /\ ShouldNotifyUser(s, token)
  <2>1. Find(s, id) /\ s \in Slots /\ entries[s].used
    BY <1>8, SlotFound DEF DetourInv, Find, Holds
  <2>2. Mismatched(s, token) /\ ~entries[s].mismatchNoticeIssued /\ entries'[s].mismatchNoticeIssued
    BY <1>4, <1>8, <2>1 DEF ShouldNotifyUser
  <2>3. pending' = QueueMismatchNotice(pending, notice)
    BY <1>1, <1>8
  <2>4. UNCHANGED <<shown, told, banners>>
    BY <1>1 DEF lineVars
  <2>5. /\ notice.slot = s /\ notice.thread = GameThread /\ notice.instance = instance
        /\ notice.serverRelease = GetFeatureRelease(token)
        /\ notice.clientRelease = entries[s].registration.featureRelease
    BY <1>1 DEF Notice
  <2>6. entries[s].registration.featureRelease \in FeatureRelease
    <3>1. entries[s] \in Entry
      BY <2>1 DEF DetourInv, RegInv, RegTypeOK
    <3>2. entries[s].registration \in Registration
      BY <3>1 DEF Entry
    <3> QED
      BY <3>2 DEF Registration
  <2>7. notice \in NoticeType
    BY <1>1, <1>2, <2>1, <2>6 DEF Notice, NoticeType, DetourInv, PhaseInv
  <2>8. notice.serverRelease # notice.clientRelease
    BY <2>2, <2>5 DEF Mismatched
  <2> HIDE DEF id, s, notice, next
  <2>9. PendingInv' /\ ShownInv' /\ NoticeInv'
    BY <1>1, <1>3, <1>4, <2>1, <2>2, <2>3, <2>4, <2>5, <2>7, <2>8, NoticeAdded
  <2>10. PhaseInv' /\ SummaryInv' /\ DueInv'
    BY <1>1, <1>5, <1>6, <2>4, RestKept
  <2>11. BannerInv'
    BY <1>1, <1>3, <2>4, QuietFlight DEF DetourInv
  <2> QED
    BY <1>3, <1>4, <2>9, <2>10, <2>11 DEF DetourInv
<1> QED
  BY <1>7, <1>8

-----------------------------------------------------------------------------
(***************************************************************************)
(* Travel.                                                                 *)
(***************************************************************************)
\* No summary is a summary of the right type that neither waits nor was sent.
LEMMA NoSummaryTyped ==
  NoSummary \in SummaryType /\ NoSummary.thread = GameThread
  /\ ~NoSummary.pending /\ ~NoSummary.delivered
<1>1. GameThread \in Threads
  BY HandshakeConstants
<1> QED
  BY <1>1 DEF NoSummary, SummaryType

\* The tick count is a count.
LEMMA TickWrapPositive == TickWrap \in Nat \ {0} /\ SummaryDelay \in Nat /\ SummaryDelay < TickWrap \div 2
<1>1. TickWrap \in Nat /\ SummaryDelay \in Nat /\ SummaryDelay < TickWrap \div 2
  BY HandshakeConstants
<1>2. TickWrap # 0
  BY <1>1
<1> QED
  BY <1>1, <1>2

\* A travel ends the instance of every notice: those in the table are gone, and
\* those on their way are of an earlier instance from now on.
LEMMA BoundaryEffects ==
  ASSUME DetourInv, NEW t \in Threads, InstanceBoundary(t)
  PROVE  /\ RegInv' /\ StackInv' /\ PendingInv' /\ ShownInv' /\ NoticeInv' /\ BannerInv'
         /\ t = GameThread /\ phase' = "attached" /\ instance' \in 0 .. MaxInstance
         /\ chatReady' \in BOOLEAN /\ clock' = clock /\ clock \in Nat /\ banners' = 0
         /\ told' \in [Slots -> StatusType \cup {Nothing}]
<1>1. /\ CanDispatch(t) /\ t = GameThread /\ instance < MaxInstance /\ instance' = instance + 1
      /\ pending' = NoNotices /\ Reset /\ Push(t, NewFrame("notices", 0))
      /\ told' = [r \in Slots |-> Nothing] /\ banners' = 0
      /\ chatReady' = chatReady /\ clock' = clock /\ shown' = shown
  BY DEF InstanceBoundary, CanDispatchRpc
<1>2. "notices" \in Stage /\ 0 \in FeatureId
  BY DEF Stage, FeatureId
<1>3. StackInv' /\ Quiet /\ NothingToSend
  BY <1>1, <1>2, CallBegins DEF DetourInv
<1>4. RegInv' /\ phase' = "attached"
  BY <1>1, ResetEffects DEF DetourInv
<1>5. instance \in 0 .. MaxInstance /\ MaxInstance \in Nat /\ chatReady \in BOOLEAN /\ clock \in Nat
  BY HandshakeConstants DEF DetourInv, PhaseInv
<1>6. instance' \in 0 .. MaxInstance
  BY <1>1, <1>5
<1>7. pending' \in [Slots -> NoticeType \cup {Nothing}] /\ \A n \in Slots : pending'[n] = Nothing
  BY <1>1 DEF NoNotices
<1>8. PendingInv'
  BY <1>7 DEF PendingInv
<1>9. ShownInv'
  <2>1. ASSUME NEW s \in Slots, NEW i \in 0 .. MaxInstance, shown[<<s, i>>] = 1
        PROVE  i <= instance' /\ i # instance'
    <3>1. i <= instance
      BY <2>1 DEF DetourInv, ShownInv
    <3> QED
      BY <1>1, <1>5, <3>1
  <2>2. shown \in [Slots \X (0 .. MaxInstance) -> {0, 1}]
    BY DEF DetourInv, ShownInv
  <2> QED
    BY <1>1, <1>7, <2>1, <2>2 DEF ShownInv
<1>10. \A d, k \in Nat : /\ NoticeAt(d, k)' <=> NoticeAt(d, k)
                         /\ LineAt(d, k)' = LineAt(d, k)
  BY <1>3 DEF Quiet, FlightKept, NoticeAt, InFlight, LineAt
<1>11. ASSUME NEW d \in Nat, NEW k \in Nat, NoticeAt(d, k)'
       PROVE  LET line == LineAt(d, k)' IN
              /\ line.slot \in Slots /\ line.instance \in 0 .. instance'
              /\ shown'[<<line.slot, line.instance>>] = 0
              /\ line.instance # instance'
  <2> DEFINE line == LineAt(d, k)
  <2>1. LineAt(d, k)' = line
    BY <1>10
  <2>2. /\ line.slot \in Slots /\ line.instance \in 0 .. instance
        /\ shown[<<line.slot, line.instance>>] = 0
    BY <1>10, <1>11 DEF DetourInv, NoticeInv
  <2> HIDE DEF line
  <2>3. line.instance \in 0 .. instance' /\ line.instance # instance'
    BY <1>1, <1>5, <2>2
  <2> QED
    BY <1>1, <2>1, <2>2, <2>3
<1>12. NoticeInv'
  <2>1. \A d, k, e, j \in Nat :
          /\ NoticeAt(d, k)' /\ NoticeAt(e, j)'
          /\ LineAt(d, k)'.slot = LineAt(e, j)'.slot
          /\ LineAt(d, k)'.instance = LineAt(e, j)'.instance
          => d = e /\ k = j
    BY <1>10 DEF DetourInv, NoticeInv
  <2> QED
    BY <1>11, <2>1 DEF NoticeInv
<1>13. BannerInv'
  BY <1>3, QuietFlight DEF DetourInv
<1> QED
  BY <1>1, <1>3, <1>4, <1>5, <1>6, <1>8, <1>9, <1>12, <1>13

\* Travel to another server forgets the summary.
LEMMA ClientTravelPreserves ==
  ASSUME DetourInv, NEW t \in Threads, ClientTravel(t)
  PROVE  DetourInv'
<1>1. /\ RegInv' /\ StackInv' /\ PendingInv' /\ ShownInv' /\ NoticeInv' /\ BannerInv'
      /\ t = GameThread /\ phase' = "attached" /\ instance' \in 0 .. MaxInstance
      /\ chatReady' \in BOOLEAN /\ clock' = clock /\ clock \in Nat /\ banners' = 0
      /\ told' \in [Slots -> StatusType \cup {Nothing}]
  BY BoundaryEffects DEF ClientTravel
<1>2. summary' = NoSummary /\ due' = due /\ due \in Nat
  BY DEF ClientTravel, DetourInv, PhaseInv
<1>3. PhaseInv'
  BY <1>1, <1>2 DEF PhaseInv
<1>4. SummaryInv' /\ DueInv'
  BY <1>1, <1>2, NoSummaryTyped DEF SummaryInv, DueInv
<1> QED
  BY <1>1, <1>3, <1>4 DEF DetourInv

\* The arrival at a server ends an instance and, in a debug build, starts the
\* grace period of the summary.
LEMMA ReceivedPlayerPreserves ==
  ASSUME DetourInv, NEW t \in Threads, ReceivedPlayer(t)
  PROVE  DetourInv'
<1>1. /\ RegInv' /\ StackInv' /\ PendingInv' /\ ShownInv' /\ NoticeInv' /\ BannerInv'
      /\ t = GameThread /\ phase' = "attached" /\ instance' \in 0 .. MaxInstance
      /\ chatReady' \in BOOLEAN /\ clock' = clock /\ clock \in Nat /\ banners' = 0
      /\ told' \in [Slots -> StatusType \cup {Nothing}]
  BY BoundaryEffects DEF ReceivedPlayer
<1>2. due \in Nat /\ SummaryInv /\ TickWrap \in Nat \ {0} /\ SummaryDelay \in Nat
  BY TickWrapPositive DEF DetourInv, PhaseInv
<1>3. CASE Debug
  <2> DEFINE deadline == (clock + SummaryDelay) % TickWrap
  <2>1. summary' = ScheduleDebugJoinSummary(t) /\ due' = clock + SummaryDelay /\ due' \in Nat
    BY <1>1, <1>2, <1>3 DEF ReceivedPlayer
  <2>2. deadline \in Nat /\ deadline = due' % TickWrap
    BY <1>1, <1>2, <2>1, DivMod
  <2> HIDE DEF deadline
  <2>3. /\ summary'.pending /\ ~summary'.delivered /\ summary'.thread = GameThread
        /\ summary'.deadline = deadline /\ summary' \in SummaryType
    <3>1. summary' = [pending |-> TRUE, delivered |-> FALSE, deadline |-> deadline,
                      thread |-> t, reported |-> [r \in Slots |-> Nothing]]
      BY <2>1 DEF ScheduleDebugJoinSummary, NoSummary, deadline
    <3> QED
      BY <1>1, <2>2, <3>1 DEF SummaryType
  <2>4. SummaryInv'
    BY <1>1, <1>3, <2>3 DEF SummaryInv
  <2>5. DueInv'
    BY <1>1, <1>2, <2>1, <2>2, <2>3 DEF DueInv
  <2>6. PhaseInv'
    BY <1>1, <2>1 DEF PhaseInv
  <2> QED
    BY <1>1, <2>4, <2>5, <2>6 DEF DetourInv
<1>4. CASE ~Debug
  <2>1. summary' = summary /\ due' = due /\ ~summary.pending /\ ~summary.delivered
    BY <1>2, <1>4 DEF ReceivedPlayer, SummaryInv
  <2>2. SummaryInv' /\ DueInv'
    BY <1>1, <1>2, <2>1 DEF SummaryInv, DueInv
  <2>3. PhaseInv'
    BY <1>1, <1>2, <2>1 DEF PhaseInv
  <2> QED
    BY <1>1, <2>2, <2>3 DEF DetourInv
<1> QED
  BY <1>3, <1>4

-----------------------------------------------------------------------------
(***************************************************************************)
(* The deliveries of the debug build.                                      *)
(***************************************************************************)
\* A delivery that holds no notice: what the notices rest on stays, and a
\* banner on its way is one of the delivery.
LEMMA LinesDelivered ==
  ASSUME DetourInv, StackInv', NothingToSend, NEW n \in Nat, NEW lines \in Seq(LineType),
         Out(n) = <<>>, Out(n)' = lines, \A d \in Nat : d # n => Out(d)' = Out(d),
         \A k \in 1 .. Len(lines) : lines[k].kind # "notice",
         UNCHANGED <<regVars, pending, instance, shown>>
  PROVE  /\ RegInv' /\ PendingInv' /\ ShownInv' /\ NoticeInv' /\ phase' = phase
         /\ \A d, k \in Nat : InFlight(d, k)' /\ LineAt(d, k)'.kind = "banner" =>
              d = n /\ k \in 1 .. Len(lines) /\ lines[k].kind = "banner"
<1>1. RegInv' /\ TableGrows /\ phase' = phase
  BY RegistryKept DEF DetourInv
<1>2. PendingShrinks /\ pending' \in [Slots -> NoticeType \cup {Nothing}]
  BY DEF PendingShrinks, DetourInv, PendingInv
<1>3. PendingInv' /\ ShownInv'
  BY <1>1, <1>2, PendingKept, ShownKept DEF DetourInv
<1>4. \A k \in Nat : InFlight(n, k)' => k \in 1 .. Len(lines) /\ LineAt(n, k)' = lines[k]
  BY DEF InFlight, LineAt
<1>5. \A d, k \in Nat : d # n => /\ InFlight(d, k)' <=> InFlight(d, k)
                                 /\ LineAt(d, k)' = LineAt(d, k)
  BY DEF InFlight, LineAt
<1> DEFINE back == [d \in Nat |-> 0]
<1>6. back \in [Nat -> Nat] /\ \A d, k \in Nat : k + back[d] = k
  OBVIOUS
<1> HIDE DEF back
<1>7. ASSUME NEW d \in Nat, NEW k \in Nat, NoticeAt(d, k)'
      PROVE  NoticeAt(d, k) /\ LineAt(d, k)' = LineAt(d, k)
  <2>1. InFlight(d, k)' /\ LineAt(d, k)'.kind = "notice"
    BY <1>7 DEF NoticeAt
  <2>2. d # n
    BY <1>4, <2>1
  <2> QED
    BY <1>5, <2>1, <2>2 DEF NoticeAt
<1>8. NoticesAdvance(back)
  BY <1>6, <1>7 DEF NoticesAdvance
<1>9. NoticeInv'
  BY <1>1, <1>2, <1>6, <1>8, NoticesKept DEF DetourInv
<1>10. \A d, k \in Nat : InFlight(d, k) => LineAt(d, k).kind # "banner"
  BY NoBanner DEF DetourInv
<1>11. ASSUME NEW d \in Nat, NEW k \in Nat, InFlight(d, k)', LineAt(d, k)'.kind = "banner"
       PROVE  d = n /\ k \in 1 .. Len(lines) /\ lines[k].kind = "banner"
  <2>1. d = n
    BY <1>5, <1>10, <1>11
  <2> QED
    BY <1>4, <1>11, <2>1
<1> QED
  BY <1>1, <1>3, <1>9, <1>11

\* A feature's status is a status.
LEMMA StatusTyped ==
  ASSUME RegTypeOK, NEW s \in Slots
  PROVE  Status(s) \in StatusType /\ StatusLine(s) \in LineType /\ StatusLine(s).kind = "status"
<1>1. entries[s] \in Entry
  BY DEF RegTypeOK
<1>2. Status(s) \in StatusType
  BY <1>1 DEF Status, StatusType, Entry
<1> HIDE DEF Status, StatusType
<1>3. StatusLine(s) \in [kind : {"status"}, slot : Slots, status : StatusType]
  BY <1>2 DEF StatusLine
<1> QED
  BY <1>2, <1>3 DEF LineType, StatusLine

\* A correction of the summary tells one status.
LEMMA UpdatePreserves ==
  ASSUME DetourInv, NEW t \in Threads, DeliverDebugFeatureUpdate(t)
  PROVE  DetourInv'
<1> HIDE DEF LineType, StatusType
<1>1. /\ AtStage(t, "update") /\ "update" \in Stage /\ "notices" \in Stage
      /\ UNCHANGED <<regVars, chatReady, pending, clock, instance, lineVars, due>>
  BY DEF DeliverDebugFeatureUpdate, Stage
<1>2. phase = "attached"
  BY <1>1, Attached DEF DetourInv, AtStage
<1>3. CASE ~\E s \in Slots : MayUpdate(t, s)
  <2>1. Deliver(t, <<>>, "notices") /\ UNCHANGED summary
    BY <1>3 DEF DeliverDebugFeatureUpdate
  <2> QED
    BY <1>1, <2>1, NothingDelivered
<1>4. CASE \E s \in Slots : MayUpdate(t, s)
  <2>1. PICK s \in Slots : /\ MayUpdate(t, s)
                           /\ summary' = [summary EXCEPT !.reported[s] = Status(s)]
                           /\ Deliver(t, <<StatusLine(s)>>, "notices")
    BY <1>4 DEF DeliverDebugFeatureUpdate
  <2> DEFINE line == StatusLine(s)
             lines == <<line>>
  <2>2. Status(s) \in StatusType /\ line \in LineType /\ line.kind = "status"
    BY StatusTyped DEF DetourInv, RegInv
  <2>3. t = GameThread /\ summary.delivered
    BY <2>1 DEF MayUpdate, DetourInv, SummaryInv
  <2> HIDE DEF line
  <2>4. lines \in Seq(LineType) /\ Len(lines) = 1 /\ lines[1] = line
    BY <2>2
  <2>5. Deliver(t, lines, "notices")
    BY <2>1 DEF line
  <2> HIDE DEF lines
  <2>6. PICK n \in Nat : n = Depth(t)
    BY LenProperties DEF DetourInv, StackInv, Depth
  <2>7. /\ StackInv' /\ NothingToSend /\ Out(n) = <<>> /\ Out(n)' = lines
        /\ \A d \in Nat : d # n => Out(d)' = Out(d)
    BY <1>1, <2>3, <2>4, <2>5, <2>6, Delivered DEF DetourInv
  <2>8. \A k \in 1 .. Len(lines) : lines[k].kind = "status"
    BY <2>2, <2>4
  <2>9. UNCHANGED <<shown, told, banners>>
    BY <1>1 DEF lineVars
  <2>10. /\ RegInv' /\ PendingInv' /\ ShownInv' /\ NoticeInv' /\ phase' = phase
         /\ \A d, k \in Nat : InFlight(d, k)' /\ LineAt(d, k)'.kind = "banner" =>
              d = n /\ k \in 1 .. Len(lines) /\ lines[k].kind = "banner"
    BY <1>1, <2>4, <2>7, <2>8, <2>9, LinesDelivered
  <2>11. BannerInv'
    BY <2>8, <2>10 DEF BannerInv
  <2>12. /\ summary' \in SummaryType /\ summary'.thread = summary.thread
         /\ summary'.pending = summary.pending /\ summary'.delivered = summary.delivered
         /\ summary'.deadline = summary.deadline
    <3>1. summary \in SummaryType
      BY DEF DetourInv, SummaryInv
    <3> QED
      BY <2>1, <2>2, <3>1 DEF SummaryType
  <2>13. SummaryInv' /\ DueInv'
    <3>1. SummaryInv'
      BY <1>1, <2>9, <2>12 DEF DetourInv, SummaryInv
    <3>2. DueInv'
      BY <1>1, <2>12 DEF DetourInv, DueInv
    <3> QED
      BY <3>1, <3>2
  <2>14. PhaseInv'
    BY <1>1, <1>2, <2>9, <2>10 DEF DetourInv, PhaseInv
  <2> QED
    BY <2>7, <2>10, <2>11, <2>13, <2>14 DEF DetourInv
<1> QED
  BY <1>3, <1>4

\* The signed difference of tick counts decides the true order: the deadline is
\* never more than the grace period ahead, and that is less than half the range.
LEMMA DeadlineDecides ==
  ASSUME NEW now \in Nat, NEW end \in Nat, end <= now + SummaryDelay,
         (now - (end % TickWrap)) % TickWrap < TickWrap \div 2
  PROVE  now >= end
<1> DEFINE W == TickWrap
           H == TickWrap \div 2
           q == end \div W
           r == end % W
<1>1. W \in Nat \ {0} /\ SummaryDelay \in Nat /\ SummaryDelay < H
  BY TickWrapPositive
<1>2. H \in Nat /\ 2 * H <= W
  BY <1>1, SMT
<1>3. end = q * W + r /\ q \in Int /\ r \in Int
  <2>1. end = W * q + r /\ q \in Int /\ r \in 0 .. W - 1
    BY <1>1, DivMod
  <2> HIDE DEF W, q, r
  <2> QED
    BY <1>1, <2>1
<1> HIDE DEF W, H, q, r
<1> SUFFICES ASSUME now < end PROVE FALSE
  OBVIOUS
<1> DEFINE rest == W - (end - now)
<1>4. rest \in 0 .. W - 1 /\ rest > H
  BY <1>1, <1>2
<1>5. now - r = (q - 1) * W + rest
  <2>1. (q - 1) * W = q * W - W
    BY <1>1, <1>3
  <2>2. q * W \in Int
    BY <1>1, <1>3
  <2> QED
    BY <1>1, <1>3, <2>1, <2>2
<1> HIDE DEF rest
<1>6. (now - r) % W = rest
  <2> DEFINE x == now - r
             p == q - 1
  <2>1. x \in Int /\ p \in Int /\ rest \in 0 .. W - 1 /\ x = p * W + rest
    BY <1>3, <1>4, <1>5
  <2> HIDE DEF x, p
  <2>2. x % W = rest
    BY <1>1, <2>1, DivModUnique
  <2> QED
    BY <2>2 DEF x
<1>7. (now - r) % W < H
  BY DEF W, H, r
<1> QED
  BY <1>2, <1>4, <1>6, <1>7

\* The summary is its banner, then one status line for every feature.
LEMMA SummaryOfLines ==
  ASSUME RegTypeOK
  PROVE  /\ SummaryLines \in Seq(LineType)
         /\ \A k \in 1 .. Len(SummaryLines) :
              /\ SummaryLines[k].kind # "notice"
              /\ SummaryLines[k].kind = "banner" => k = 1
              /\ SummaryLines[k].kind = "status" =>
                   \E s \in Slots : entries[s].used /\ SummaryLines[k] = StatusLine(s)
         /\ \A s \in Slots : entries[s].used =>
              \E k \in 1 .. Len(SummaryLines) : SummaryLines[k] = StatusLine(s)
<1> HIDE DEF LineType
<1> DEFINE set == {s \in Slots : entries[s].used}
           slots == InTableOrder(set)
           c == Cardinality(set)
           rest == [k \in DOMAIN slots |-> StatusLine(slots[k])]
<1>1. /\ c \in Nat /\ DOMAIN slots = 1 .. c
      /\ \A k \in 1 .. c : slots[k] \in Slots /\ entries[slots[k]].used
      /\ \A s \in Slots : entries[s].used => \E k \in 1 .. c : slots[k] = s
  BY TableOrder
<1>2. SummaryLines = <<Banner>> \o rest
  BY DEF SummaryLines
<1> HIDE DEF slots, c
<1>3. \A k \in 1 .. c : StatusLine(slots[k]) \in LineType /\ StatusLine(slots[k]).kind = "status"
  BY <1>1, StatusTyped
<1>4. /\ rest \in Seq(LineType) /\ Len(rest) = c
      /\ \A k \in 1 .. c : rest[k] = StatusLine(slots[k]) /\ rest[k].kind = "status"
  <2>1. rest = [k \in 1 .. c |-> StatusLine(slots[k])]
    BY <1>1
  <2> HIDE DEF rest
  <2>2. rest \in Seq(LineType) /\ Len(rest) = c
    BY <1>1, <1>3, <2>1
  <2> QED
    BY <1>3, <2>1, <2>2
<1> HIDE DEF rest
<1>5. Banner \in LineType /\ Banner.kind = "banner"
  BY DEF LineType, Banner
<1>6. <<Banner>> \in Seq(LineType) /\ Len(<<Banner>>) = 1 /\ <<Banner>>[1] = Banner
  BY <1>5
<1>7. /\ SummaryLines \in Seq(LineType) /\ Len(SummaryLines) = 1 + c
      /\ \A k \in 1 .. 1 + c :
           SummaryLines[k] = IF k <= 1 THEN <<Banner>>[k] ELSE rest[k - 1]
  BY <1>1, <1>2, <1>4, <1>6, ConcatProperties
<1>8. ASSUME NEW k \in 1 .. Len(SummaryLines)
      PROVE  /\ SummaryLines[k].kind # "notice"
             /\ SummaryLines[k].kind = "banner" => k = 1
             /\ SummaryLines[k].kind = "status" =>
                  \E s \in Slots : entries[s].used /\ SummaryLines[k] = StatusLine(s)
  <2>1. CASE k = 1
    BY <1>1, <1>5, <1>6, <1>7, <2>1
  <2>2. CASE k # 1
    <3>1. k - 1 \in 1 .. c /\ SummaryLines[k] = rest[k - 1]
      BY <1>1, <1>7, <2>2
    <3>2. SummaryLines[k].kind = "status" /\ SummaryLines[k] = StatusLine(slots[k - 1])
      BY <1>4, <3>1
    <3> QED
      BY <1>1, <3>1, <3>2
  <2> QED
    BY <2>1, <2>2
<1>9. ASSUME NEW s \in Slots, entries[s].used
      PROVE  \E k \in 1 .. Len(SummaryLines) : SummaryLines[k] = StatusLine(s)
  <2>1. PICK k \in 1 .. c : slots[k] = s
    BY <1>1, <1>9
  <2>2. k + 1 \in 1 .. 1 + c /\ k + 1 > 1 /\ (k + 1) - 1 = k
    BY <1>1
  <2>3. SummaryLines[k + 1] = rest[k]
    BY <1>7, <2>2
  <2>4. SummaryLines[k + 1] = StatusLine(s) /\ k + 1 \in 1 .. Len(SummaryLines)
    BY <1>4, <1>7, <2>1, <2>2, <2>3
  <2> QED
    BY <2>4
<1> QED
  BY <1>7, <1>8, <1>9

\* The join summary, once its deadline is reached and the chat exists.
LEMMA SummaryPreserves ==
  ASSUME DetourInv, NEW t \in Threads, DeliverDebugJoinSummary(t)
  PROVE  DetourInv'
<1> HIDE DEF LineType, StatusType
<1>1. /\ AtStage(t, "summary") /\ "summary" \in Stage /\ "original" \in Stage
      /\ UNCHANGED <<regVars, chatReady, pending, clock, instance, lineVars, due>>
  BY DEF DeliverDebugJoinSummary, Stage
<1>2. phase = "attached"
  BY <1>1, Attached DEF DetourInv, AtStage
<1>3. CASE ~SummaryDue(t)
  <2>1. Deliver(t, <<>>, "original") /\ UNCHANGED summary
    BY <1>3 DEF DeliverDebugJoinSummary
  <2> QED
    BY <1>1, <2>1, NothingDelivered
<1>4. CASE SummaryDue(t)
  <2> DEFINE lines == SummaryLines
  <2>1. Deliver(t, lines, "original") /\ summary' = SummaryAfterDelivery
    BY <1>4 DEF DeliverDebugJoinSummary
  <2>2. /\ t = GameThread /\ summary.pending /\ DeadlineReached /\ chatReady
        /\ Debug /\ banners = 0 /\ summary \in SummaryType
    BY <1>4 DEF SummaryDue, DetourInv, SummaryInv
  <2>3. /\ lines \in Seq(LineType)
        /\ \A k \in 1 .. Len(lines) : lines[k].kind # "notice" /\ (lines[k].kind = "banner" => k = 1)
    BY SummaryOfLines DEF DetourInv, RegInv
  <2> HIDE DEF lines
  <2>4. PICK n \in Nat : n = Depth(t)
    BY LenProperties DEF DetourInv, StackInv, Depth
  <2>5. /\ StackInv' /\ NothingToSend /\ Out(n) = <<>> /\ Out(n)' = lines /\ ~Frame(n)'.inChat
        /\ \A d \in Nat : d # n => Out(d)' = Out(d)
    BY <1>1, <2>1, <2>2, <2>3, <2>4, Delivered DEF DetourInv
  <2>6. UNCHANGED <<shown, told, banners>>
    BY <1>1 DEF lineVars
  <2>7. /\ RegInv' /\ PendingInv' /\ ShownInv' /\ NoticeInv' /\ phase' = phase
        /\ \A d, k \in Nat : InFlight(d, k)' /\ LineAt(d, k)'.kind = "banner" =>
             d = n /\ k \in 1 .. Len(lines) /\ lines[k].kind = "banner"
    BY <1>1, <2>3, <2>5, <2>6, LinesDelivered
  <2>8. /\ summary' \in SummaryType /\ summary'.thread = summary.thread
        /\ ~summary'.pending /\ summary'.delivered
    <3> DEFINE told2 == [s \in Slots |-> IF entries[s].used THEN Status(s) ELSE summary.reported[s]]
    <3>1. told2 \in [Slots -> StatusType \cup {Nothing}]
      <4>1. \A s \in Slots : Status(s) \in StatusType
        BY StatusTyped DEF DetourInv, RegInv
      <4> QED
        BY <2>2, <4>1 DEF SummaryType
    <3>2. summary' = [summary EXCEPT !.pending = FALSE, !.delivered = TRUE, !.reported = told2]
      BY <2>1 DEF SummaryAfterDelivery
    <3> HIDE DEF told2
    <3> QED
      BY <2>2, <3>1, <3>2 DEF SummaryType
  <2>9. BannerInv'
    <3>1. ASSUME NEW d \in Nat, NEW k \in Nat, InFlight(d, k)', LineAt(d, k)'.kind = "banner"
          PROVE  k = 1 /\ ~Frame(d)'.inChat
      BY <2>3, <2>5, <2>7, <3>1
    <3> QED
      BY <2>2, <2>6, <2>8, <3>1 DEF BannerInv
  <2>10. SummaryInv'
    BY <1>1, <2>2, <2>6, <2>8 DEF DetourInv, SummaryInv
  <2>11. DueInv'
    <3>1. /\ summary.deadline = due % TickWrap /\ due <= clock + SummaryDelay
          /\ due \in Nat /\ clock \in Nat
      BY <2>2 DEF DetourInv, DueInv, PhaseInv
    <3>2. (clock - (due % TickWrap)) % TickWrap < TickWrap \div 2
      BY <2>2, <3>1 DEF DeadlineReached
    <3>3. clock >= due
      BY <3>1, <3>2, DeadlineDecides
    <3> QED
      BY <1>1, <2>8, <3>3 DEF DueInv
  <2>12. PhaseInv'
    BY <1>1, <1>2, <2>6, <2>7 DEF DetourInv, PhaseInv
  <2> QED
    BY <2>5, <2>7, <2>9, <2>10, <2>11, <2>12 DEF DetourInv
<1> QED
  BY <1>3, <1>4

-----------------------------------------------------------------------------
(***************************************************************************)
(* The delivery of the pending notices.                                    *)
(***************************************************************************)
\* The notices of a delivery are those of the table, each of its own feature.
LEMMA NoticesOfTable ==
  ASSUME PendingInv
  PROVE  /\ ReadyNotices(GameThread) \in Seq(LineType)
         /\ \A k \in 1 .. Len(ReadyNotices(GameThread)) :
              \E r \in Slots : pending[r] # Nothing /\ ReadyNotices(GameThread)[k] = pending[r]
         /\ \A k, j \in 1 .. Len(ReadyNotices(GameThread)) :
              ReadyNotices(GameThread)[k].slot = ReadyNotices(GameThread)[j].slot => k = j
<1> HIDE DEF LineType
<1> DEFINE set == {r \in Slots : Ready(GameThread, pending[r])}
           ready == InTableOrder(set)
           c == Cardinality(set)
           lines == ReadyNotices(GameThread)
<1>1. /\ c \in Nat /\ DOMAIN ready = 1 .. c
      /\ \A k \in 1 .. c : ready[k] \in set
      /\ \A j, k \in 1 .. c : ready[j] = ready[k] => j = k
  BY TableOrder
<1>2. lines = [k \in DOMAIN ready |-> pending[ready[k]]]
  BY DEF ReadyNotices
<1>3. \A r \in set : r \in Slots /\ pending[r] # Nothing /\ pending[r] \in LineType
  BY DEF Ready, PendingInv, LineType
<1> HIDE DEF ready, c, set, lines
<1>4. lines = [k \in 1 .. c |-> pending[ready[k]]]
  BY <1>1, <1>2
<1>5. lines \in Seq(LineType) /\ Len(lines) = c
  BY <1>1, <1>3, <1>4
<1>6. \A k \in 1 .. c : lines[k] = pending[ready[k]] /\ ready[k] \in Slots /\ pending[ready[k]] # Nothing
  BY <1>1, <1>3, <1>4
<1>7. ASSUME NEW k \in 1 .. c, NEW j \in 1 .. c, lines[k].slot = lines[j].slot
      PROVE  k = j
  <2>1. ready[k] = ready[j]
    BY <1>6, <1>7 DEF PendingInv
  <2> QED
    BY <1>1, <2>1
<1>8. \A k \in 1 .. c : \E r \in Slots : pending[r] # Nothing /\ lines[k] = pending[r]
  BY <1>6
<1> QED
  BY <1>5, <1>7, <1>8 DEF lines

\* A thread that queued no notice finds none.
LEMMA NoNoticeOfOthers ==
  ASSUME PendingInv, NEW t, t # GameThread
  PROVE  ReadyNotices(t) = <<>> /\ RemainingNotices(t) = pending
<1>1. \A r \in Slots : ~Ready(t, pending[r])
  BY DEF PendingInv, Ready
<1>2. RemainingNotices(t) = pending
  BY <1>1 DEF RemainingNotices, PendingInv
<1>3. {r \in Slots : Ready(t, pending[r])} = {}
  BY <1>1
<1>4. {} \in SUBSET Slots /\ Cardinality({}) = 0
  BY FS_EmptySet
<1>5. DOMAIN InTableOrder({}) = 1 .. 0
  BY <1>4, TableOrder
<1> DEFINE ready == InTableOrder({})
<1>6. ReadyNotices(t) = [k \in DOMAIN ready |-> pending[ready[k]]]
  BY <1>3 DEF ReadyNotices
<1> HIDE DEF ready
<1>7. ReadyNotices(t) = [k \in {} |-> pending[ready[k]]]
  BY <1>5, <1>6 DEF ready
<1>8. ReadyNotices(t) = <<>>
  BY <1>7
<1> QED
  BY <1>2, <1>8

\* The notices leave the table when they are put on their way.
LEMMA NoticesPreserve ==
  ASSUME DetourInv, NEW t \in Threads, DeliverPendingMismatchNotices(t)
  PROVE  DetourInv'
<1> HIDE DEF LineType, NoticeType, StatusType
<1>1. /\ AtStage(t, "notices") /\ "notices" \in Stage /\ AfterNotices \in Stage
      /\ UNCHANGED <<regVars, chatReady, summary, clock, instance, lineVars, due>>
  BY DEF DeliverPendingMismatchNotices, Stage, AfterNotices
<1>2. phase = "attached"
  BY <1>1, Attached DEF DetourInv, AtStage
<1>3. CASE ~chatReady
  <2>1. Deliver(t, <<>>, AfterNotices) /\ UNCHANGED pending
    BY <1>3 DEF DeliverPendingMismatchNotices
  <2> QED
    BY <1>1, <2>1, NothingDelivered
<1>4. CASE chatReady /\ t # GameThread
  <2>1. Deliver(t, ReadyNotices(t), AfterNotices) /\ pending' = RemainingNotices(t)
    BY <1>4 DEF DeliverPendingMismatchNotices
  <2>2. ReadyNotices(t) = <<>> /\ RemainingNotices(t) = pending
    BY <1>4, NoNoticeOfOthers DEF DetourInv
  <2> QED
    BY <1>1, <2>1, <2>2, NothingDelivered
<1>5. CASE chatReady /\ t = GameThread
  <2> DEFINE lines == ReadyNotices(GameThread)
  <2>1. Deliver(t, lines, AfterNotices) /\ pending' = RemainingNotices(t)
    BY <1>5 DEF DeliverPendingMismatchNotices
  <2>2. /\ lines \in Seq(LineType)
        /\ \A k \in 1 .. Len(lines) : \E r \in Slots : pending[r] # Nothing /\ lines[k] = pending[r]
        /\ \A k, j \in 1 .. Len(lines) : lines[k].slot = lines[j].slot => k = j
    BY NoticesOfTable DEF DetourInv
  <2> HIDE DEF lines
  <2>3. \A r \in Slots : pending'[r] = Nothing
    <3>1. \A r \in Slots : pending'[r] = IF Ready(t, pending[r]) THEN Nothing ELSE pending[r]
      BY <2>1 DEF RemainingNotices
    <3>2. \A r \in Slots : pending[r] # Nothing => Ready(t, pending[r])
      BY <1>5 DEF DetourInv, PendingInv, Ready
    <3> QED
      BY <3>1, <3>2
  <2>4. pending' \in [Slots -> NoticeType \cup {Nothing}] /\ PendingShrinks
    <3>1. DOMAIN pending' = Slots /\ pending' = [r \in Slots |-> pending'[r]]
      BY <2>1 DEF RemainingNotices
    <3> QED
      BY <2>3, <3>1 DEF PendingShrinks
  <2>5. PICK n \in Nat : n = Depth(t)
    BY LenProperties DEF DetourInv, StackInv, Depth
  <2>6. /\ StackInv' /\ NothingToSend /\ Out(n) = <<>> /\ Out(n)' = lines
        /\ \A d \in Nat : d # n => Out(d)' = Out(d)
    BY <1>1, <1>5, <2>1, <2>2, <2>5, Delivered DEF DetourInv
  <2>7. UNCHANGED <<shown, told, banners>> /\ instance' = instance
    BY <1>1 DEF lineVars
  <2>8. RegInv' /\ TableGrows /\ phase' = phase
    BY <1>1, RegistryKept DEF DetourInv
  <2>9. PendingInv' /\ ShownInv'
    BY <2>4, <2>7, <2>8, PendingKept, ShownKept DEF DetourInv
  <2>10. \A k \in Nat : InFlight(n, k)' => k \in 1 .. Len(lines) /\ LineAt(n, k)' = lines[k]
    BY <2>6 DEF InFlight, LineAt
  <2>11. \A d, k \in Nat : d # n => /\ NoticeAt(d, k)' <=> NoticeAt(d, k)
                                    /\ InFlight(d, k)' <=> InFlight(d, k)
                                    /\ LineAt(d, k)' = LineAt(d, k)
    BY <2>6 DEF NoticeAt, InFlight, LineAt
  <2>12. ASSUME NEW r \in Slots, pending[r] # Nothing
         PROVE  /\ pending[r].slot \in Slots /\ pending[r].instance = instance /\ instance \in 0 .. instance
                /\ shown[<<pending[r].slot, instance>>] = 0
                /\ entries[pending[r].slot].mismatchNoticeIssued
                /\ pending[r].kind = "notice"
    <3>1. pending[r] \in NoticeType
      BY <2>12 DEF DetourInv, PendingInv
    <3>2. pending[r].slot \in Slots /\ pending[r].kind = "notice"
      BY <3>1 DEF NoticeType
    <3>3. instance \in 0 .. instance
      BY DEF DetourInv, PhaseInv
    <3> QED
      BY <2>12, <3>2, <3>3 DEF DetourInv, PendingInv, ShownInv
  <2>13. NoticeInv'
    <3>1. ASSUME NEW d \in Nat, NEW k \in Nat, NoticeAt(d, k)'
          PROVE  LET notice == LineAt(d, k)' IN
                 /\ notice.slot \in Slots /\ notice.instance \in 0 .. instance
                 /\ shown[<<notice.slot, notice.instance>>] = 0
                 /\ notice.instance = instance => entries'[notice.slot].mismatchNoticeIssued
      <4>1. CASE d = n
        <5>1. PICK r \in Slots : pending[r] # Nothing /\ LineAt(d, k)' = pending[r]
          BY <2>2, <2>10, <3>1, <4>1 DEF NoticeAt
        <5> QED
          BY <2>8, <2>12, <5>1 DEF TableGrows
      <4>2. CASE d # n
        <5> DEFINE notice == LineAt(d, k)
        <5>1. LineAt(d, k)' = notice /\ NoticeAt(d, k)
          BY <2>11, <3>1, <4>2
        <5>2. /\ notice.slot \in Slots /\ notice.instance \in 0 .. instance
              /\ shown[<<notice.slot, notice.instance>>] = 0
              /\ notice.instance = instance => entries[notice.slot].mismatchNoticeIssued
          BY <5>1 DEF DetourInv, NoticeInv
        <5> HIDE DEF notice
        <5> QED
          BY <2>8, <5>1, <5>2 DEF TableGrows
      <4> QED
        BY <4>1, <4>2
    <3>2. ASSUME NEW d \in Nat, NEW k \in Nat, NEW j \in Nat, d # n, NoticeAt(d, k)', NoticeAt(n, j)',
                 LineAt(d, k)'.slot = LineAt(n, j)'.slot, LineAt(d, k)'.instance = LineAt(n, j)'.instance
          PROVE  FALSE
      <4>1. NoticeAt(d, k) /\ LineAt(d, k)' = LineAt(d, k)
        BY <2>11, <3>2
      <4>2. PICK r \in Slots : pending[r] # Nothing /\ LineAt(n, j)' = pending[r]
        BY <2>2, <2>10, <3>2 DEF NoticeAt
      <4>3. LineAt(d, k).instance = instance /\ LineAt(d, k).slot = pending[r].slot
        BY <2>12, <3>2, <4>1, <4>2
      <4> QED
        BY <4>1, <4>2, <4>3 DEF DetourInv, NoticeInv
    <3>3. ASSUME NEW d \in Nat, NEW k \in Nat, NEW e \in Nat, NEW j \in Nat,
                 NoticeAt(d, k)', NoticeAt(e, j)',
                 LineAt(d, k)'.slot = LineAt(e, j)'.slot, LineAt(d, k)'.instance = LineAt(e, j)'.instance
          PROVE  d = e /\ k = j
      <4>1. CASE d = n /\ e = n
        <5>1. k \in 1 .. Len(lines) /\ j \in 1 .. Len(lines) /\ LineAt(n, k)' = lines[k] /\ LineAt(n, j)' = lines[j]
          BY <2>10, <3>3, <4>1 DEF NoticeAt
        <5> QED
          BY <2>2, <3>3, <4>1, <5>1
      <4>2. CASE d # n /\ e = n
        BY <3>2, <3>3, <4>2
      <4>3. CASE d = n /\ e # n
        BY <3>2, <3>3, <4>3
      <4>4. CASE d # n /\ e # n
        BY <2>11, <3>3, <4>4 DEF DetourInv, NoticeInv
      <4> QED
        BY <4>1, <4>2, <4>3, <4>4
    <3> QED
      BY <2>3, <2>7, <3>1, <3>3 DEF NoticeInv
  <2>14. BannerInv'
    <3>1. \A d, k \in Nat : InFlight(d, k) => LineAt(d, k).kind # "banner"
      BY <2>6, NoBanner DEF DetourInv
    <3>2. ASSUME NEW d \in Nat, NEW k \in Nat, InFlight(d, k)'
          PROVE  LineAt(d, k)'.kind # "banner"
      <4>1. CASE d = n
        <5>1. PICK r \in Slots : pending[r] # Nothing /\ LineAt(d, k)' = pending[r]
          BY <2>2, <2>10, <3>2, <4>1
        <5> QED
          BY <2>12, <5>1
      <4>2. CASE d # n
        BY <2>11, <3>1, <3>2, <4>2
      <4> QED
        BY <4>1, <4>2
    <3> QED
      BY <3>2 DEF BannerInv
  <2>15. PhaseInv' /\ SummaryInv' /\ DueInv'
    <3>1. PhaseKept
      BY <1>2, <2>8 DEF PhaseKept
    <3>2. chatReady' \in BOOLEAN /\ (chatReady => chatReady') /\ clock' \in Nat /\ clock <= clock'
      BY <1>1 DEF DetourInv, PhaseInv
    <3> QED
      BY <1>1, <2>7, <3>1, <3>2, RestKept
  <2> QED
    BY <2>6, <2>8, <2>9, <2>13, <2>14, <2>15 DEF DetourInv
<1> QED
  BY <1>3, <1>4, <1>5

-----------------------------------------------------------------------------
(***************************************************************************)
(* A line is shown.                                                        *)
(***************************************************************************)
\* A line is a notice, a status or the banner, and is recorded as such.
LEMMA KindsOfLines ==
  ASSUME NEW line \in LineType, Record(line)
  PROVE  \/ /\ line.kind = "notice" /\ line \in NoticeType
            /\ shown' = [shown EXCEPT ![<<line.slot, line.instance>>] = @ + 1]
            /\ UNCHANGED <<told, banners>>
         \/ /\ line.kind = "status" /\ line.slot \in Slots /\ line.status \in StatusType
            /\ told' = [told EXCEPT ![line.slot] = line.status]
            /\ UNCHANGED <<shown, banners>>
         \/ /\ line.kind = "banner"
            /\ banners' = banners + 1 /\ UNCHANGED <<shown, told>>
<1> HIDE DEF StatusType
<1>1. CASE line \in NoticeType
  <2>1. line.kind = "notice"
    BY <1>1 DEF NoticeType
  <2> QED
    BY <1>1, <2>1 DEF Record
<1>2. CASE line \in [kind : {"status"}, slot : Slots, status : StatusType]
  BY <1>2 DEF Record
<1>3. CASE line = Banner
  BY <1>3 DEF Record, Banner
<1> QED
  BY <1>1, <1>2, <1>3 DEF LineType

\* The lines behind the one shown move up.
LEMMA LinesMoveUp ==
  ASSUME StackInv, NEW n \in Nat, Out(n) # <<>>, Out(n)' = Tail(Out(n)),
         \A d \in Nat : d # n => Out(d)' = Out(d)
  PROVE  /\ InFlight(n, 1) /\ LineAt(n, 1) = Head(Out(n))
         /\ \A k \in Nat : InFlight(n, k)' => /\ InFlight(n, k + 1) /\ k # 0
                                            /\ LineAt(n, k)' = LineAt(n, k + 1)
         /\ \A k \in Nat : InFlight(n, k + 1) /\ k # 0 => InFlight(n, k)'
         /\ \A d, k \in Nat : d # n => /\ InFlight(d, k)' <=> InFlight(d, k)
                                      /\ LineAt(d, k)' = LineAt(d, k)
<1> HIDE DEF LineType
<1>1. Out(n) \in Seq(LineType) /\ Len(Out(n)) \in Nat \ {0}
  <2>1. Out(n) \in Seq(LineType)
    BY FramesOfGame
  <2> QED
    BY <2>1, EmptySeq
<1>2. /\ Len(Tail(Out(n))) = Len(Out(n)) - 1
      /\ \A k \in 1 .. Len(Tail(Out(n))) : Tail(Out(n))[k] = Out(n)[k + 1]
  BY <1>1, HeadTailProperties
<1>3. InFlight(n, 1) /\ LineAt(n, 1) = Head(Out(n))
  BY <1>1 DEF InFlight, LineAt
<1>4. ASSUME NEW k \in Nat, InFlight(n, k)'
      PROVE  InFlight(n, k + 1) /\ k # 0 /\ LineAt(n, k)' = LineAt(n, k + 1)
  <2>1. k \in 1 .. Len(Tail(Out(n)))
    BY <1>4 DEF InFlight
  <2>2. k + 1 \in 1 .. Len(Out(n)) /\ k # 0
    BY <1>1, <1>2, <2>1
  <2>3. LineAt(n, k)' = Out(n)[k + 1]
    BY <1>2, <2>1 DEF LineAt
  <2> QED
    BY <2>2, <2>3 DEF InFlight, LineAt
<1>5. ASSUME NEW d \in Nat, NEW k \in Nat, d # n
      PROVE  (InFlight(d, k)' <=> InFlight(d, k)) /\ LineAt(d, k)' = LineAt(d, k)
  BY <1>5 DEF InFlight, LineAt
<1>6. ASSUME NEW k \in Nat, InFlight(n, k + 1), k # 0
      PROVE  InFlight(n, k)'
  <2>1. k + 1 \in 1 .. Len(Out(n))
    BY <1>6 DEF InFlight
  <2>2. k \in 1 .. Len(Tail(Out(n)))
    BY <1>1, <1>2, <1>6, <2>1
  <2> QED
    BY <2>2 DEF InFlight
<1> QED
  BY <1>3, <1>4, <1>5, <1>6

\* The chat helper shows a line.
LEMMA ShowPreserves ==
  ASSUME DetourInv, NEW t \in Threads, QueueChatMessage(t)
  PROVE  DetourInv'
<1> HIDE DEF LineType, NoticeType, StatusType
<1>1. PICK n \in Nat : n = Depth(t)
  BY LenProperties DEF DetourInv, StackInv, Depth
<1> DEFINE line == Head(Out(n))
<1>2. /\ StackInv' /\ n > 0 /\ GameDepth = n
      /\ Out(n) # <<>> /\ Out(n)' = Tail(Out(n)) /\ \A d \in Nat : d # n => Out(d)' = Out(d)
      /\ line \in LineType /\ Record(line)
  BY <1>1, Shown1 DEF DetourInv
<1>3. /\ InFlight(n, 1) /\ LineAt(n, 1) = line
      /\ \A k \in Nat : InFlight(n, k)' => /\ InFlight(n, k + 1) /\ k # 0
                                         /\ LineAt(n, k)' = LineAt(n, k + 1)
      /\ \A d, k \in Nat : d # n => /\ InFlight(d, k)' <=> InFlight(d, k)
                                   /\ LineAt(d, k)' = LineAt(d, k)
  BY <1>2, LinesMoveUp DEF DetourInv
<1> HIDE DEF line
<1>4. UNCHANGED <<regVars, chatReady, pending, summary, clock, instance, due>>
  BY DEF QueueChatMessage
<1>5. RegInv' /\ TableGrows /\ phase' = phase /\ phase = "attached"
  BY <1>4, RegistryKept, Attached DEF DetourInv, QueueChatMessage
<1>6. PendingShrinks /\ pending' \in [Slots -> NoticeType \cup {Nothing}]
  BY <1>4 DEF PendingShrinks, DetourInv, PendingInv
<1>7. PendingInv'
  BY <1>4, <1>5, <1>6, PendingKept DEF DetourInv
<1> DEFINE back == [d \in Nat |-> IF d = n THEN 1 ELSE 0]
<1>8. back \in [Nat -> Nat] /\ back[n] = 1 /\ \A d \in Nat : d # n => back[d] = 0
  OBVIOUS
<1> HIDE DEF back
<1>9. ASSUME NEW d \in Nat, NEW k \in Nat, NoticeAt(d, k)'
      PROVE  /\ NoticeAt(d, k + back[d]) /\ LineAt(d, k)' = LineAt(d, k + back[d])
             /\ d = n => k + back[d] # 1
  <2>1. InFlight(d, k)' /\ LineAt(d, k)'.kind = "notice"
    BY <1>9 DEF NoticeAt
  <2>2. CASE d = n
    <3>1. InFlight(n, k + 1) /\ k # 0 /\ LineAt(n, k)' = LineAt(n, k + 1) /\ back[d] = 1
      BY <1>3, <1>8, <2>1, <2>2
    <3>2. k + 1 # 1
      BY <3>1
    <3> QED
      BY <2>1, <2>2, <3>1, <3>2 DEF NoticeAt
  <2>3. CASE d # n
    <3>1. InFlight(d, k) /\ LineAt(d, k)' = LineAt(d, k) /\ k + back[d] = k
      BY <1>3, <1>8, <2>1, <2>3
    <3> QED
      BY <2>1, <2>3, <3>1 DEF NoticeAt
  <2> QED
    BY <2>2, <2>3
<1>10. NoticesAdvance(back)
  BY <1>9 DEF NoticesAdvance
\* A banner on its way is the line being shown.
<1>11. ASSUME NEW d \in Nat, NEW k \in Nat, InFlight(d, k)', LineAt(d, k)'.kind = "banner"
       PROVE  FALSE
  <2>1. CASE d = n
    <3>1. k + 1 \in Nat /\ InFlight(n, k + 1) /\ k # 0 /\ LineAt(n, k + 1).kind = "banner"
      BY <1>3, <1>11, <2>1
    <3>2. k + 1 = 1
      BY <3>1 DEF DetourInv, BannerInv
    <3> QED
      BY <3>1, <3>2
  <2>2. CASE d # n
    <3>1. InFlight(d, k) /\ LineAt(d, k).kind = "banner"
      BY <1>3, <1>11, <2>2
    <3>2. ~Frame(d).inChat
      BY <3>1 DEF DetourInv, BannerInv
    <3>3. d \in 1 .. GameDepth
      <4>1. Len(<<>>) = 0
        BY EmptySeq
      <4> QED
        BY <3>1, <4>1 DEF InFlight, Out
    <3>4. d < GameDepth
      BY <1>2, <2>2, <3>3
    <3> QED
      BY <3>2, <3>3, <3>4, FramesOfGame DEF DetourInv
  <2> QED
    BY <2>1, <2>2
<1>12. BannerInv'
  BY <1>11 DEF BannerInv
<1>13. PhaseKept
  BY <1>5 DEF PhaseKept
<1>14. chatReady' \in BOOLEAN /\ (chatReady => chatReady') /\ clock' \in Nat /\ clock <= clock'
  BY <1>4 DEF DetourInv, PhaseInv
<1>15. ASSUME UNCHANGED shown
       PROVE  ShownInv' /\ NoticeInv'
  <2>1. ShownInv'
    BY <1>4, <1>5, <1>6, <1>15, ShownKept DEF DetourInv
  <2>2. NoticeInv'
    BY <1>4, <1>5, <1>6, <1>8, <1>10, <1>15, NoticesKept DEF DetourInv
  <2> QED
    BY <2>1, <2>2
<1>16. CASE /\ line.kind = "notice" /\ line \in NoticeType
            /\ shown' = [shown EXCEPT ![<<line.slot, line.instance>>] = @ + 1]
            /\ UNCHANGED <<told, banners>>
  <2> DEFINE s == line.slot
             i == line.instance
  <2>1. NoticeAt(n, 1)
    BY <1>3, <1>16 DEF NoticeAt
  <2>2. /\ s \in Slots /\ i \in 0 .. instance /\ shown[<<s, i>>] = 0
        /\ i = instance => /\ entries[s].mismatchNoticeIssued
                           /\ \A r \in Slots : pending[r] # Nothing => pending[r].slot # s
    BY <1>3, <2>1 DEF DetourInv, NoticeInv
  <2>3. instance \in 0 .. MaxInstance /\ MaxInstance \in Nat
    BY HandshakeConstants DEF DetourInv, PhaseInv
  <2>4. i \in 0 .. MaxInstance /\ i <= instance
    BY <2>2, <2>3
  <2>5. shown' = [shown EXCEPT ![<<s, i>>] = @ + 1]
    BY <1>16
  <2> HIDE DEF s, i
  <2>6. shown \in [Slots \X (0 .. MaxInstance) -> {0, 1}] /\ <<s, i>> \in Slots \X (0 .. MaxInstance)
    BY <2>2, <2>4 DEF DetourInv, ShownInv
  <2>7. shown' = [shown EXCEPT ![<<s, i>>] = 1]
    <3>1. shown[<<s, i>>] + 1 = 1
      BY <2>2
    <3> QED
      BY <2>5, <2>6, <3>1
  <2>8. shown' \in [Slots \X (0 .. MaxInstance) -> {0, 1}]
    BY <2>6, <2>7
  <2>9. \A r, j : <<r, j>> \in Slots \X (0 .. MaxInstance) =>
          shown'[<<r, j>>] = IF r = s /\ j = i THEN 1 ELSE shown[<<r, j>>]
    BY <2>6, <2>7
  <2>10. ShownInv'
    <3>1. ASSUME NEW r \in Slots, NEW j \in 0 .. MaxInstance, shown'[<<r, j>>] = 1
          PROVE  j <= instance /\ (j = instance => entries'[r].mismatchNoticeIssued)
      <4>1. CASE r = s /\ j = i
        BY <1>5, <2>2, <2>4, <4>1 DEF TableGrows
      <4>2. CASE ~(r = s /\ j = i)
        <5>1. shown[<<r, j>>] = 1
          BY <2>9, <3>1, <4>2
        <5> QED
          BY <1>5, <5>1 DEF DetourInv, ShownInv, TableGrows
      <4> QED
        BY <4>1, <4>2
    <3>2. ASSUME NEW r \in Slots, pending[r] # Nothing
          PROVE  shown'[<<pending[r].slot, instance>>] = 0
      <4>1. pending[r].slot \in Slots
        BY <3>2 DEF DetourInv, PendingInv, NoticeType
      <4>2. shown[<<pending[r].slot, instance>>] = 0
        BY <3>2 DEF DetourInv, ShownInv
      <4>3. ~(pending[r].slot = s /\ instance = i)
        BY <2>2, <3>2
      <4> QED
        BY <2>3, <2>9, <4>1, <4>2, <4>3
    <3> QED
      BY <1>4, <2>8, <3>1, <3>2 DEF ShownInv
  <2>11. NoticeInv'
    <3>1. ASSUME NEW d \in Nat, NEW k \in Nat, NoticeAt(d, k)'
          PROVE  LET notice == LineAt(d, k)' IN
                 shown'[<<notice.slot, notice.instance>>] = shown[<<notice.slot, notice.instance>>]
      <4> DEFINE was == k + back[d]
                 notice == LineAt(d, was)
      <4>1. was \in Nat /\ NoticeAt(d, was) /\ LineAt(d, k)' = notice /\ ~(d = n /\ was = 1)
        BY <1>8, <1>9, <3>1
      <4> HIDE DEF was
      <4>2. ~(notice.slot = s /\ notice.instance = i)
        BY <1>3, <2>1, <4>1 DEF DetourInv, NoticeInv, s, i
      <4>3. notice.slot \in Slots /\ notice.instance \in 0 .. instance
        BY <4>1 DEF DetourInv, NoticeInv
      <4> HIDE DEF notice
      <4>4. notice.instance \in 0 .. MaxInstance
        BY <2>3, <4>3
      <4> QED
        BY <2>9, <4>1, <4>2, <4>3, <4>4
    <3> QED
      BY <1>4, <1>5, <1>6, <1>8, <1>10, <3>1, NoticesKept DEF DetourInv
  <2>12. PhaseInv' /\ SummaryInv' /\ DueInv'
    BY <1>4, <1>13, <1>14, <1>16, RestKept
  <2> QED
    BY <1>2, <1>5, <1>7, <1>12, <2>10, <2>11, <2>12 DEF DetourInv
<1>17. CASE /\ line.kind = "status" /\ line.slot \in Slots /\ line.status \in StatusType
            /\ told' = [told EXCEPT ![line.slot] = line.status]
            /\ UNCHANGED <<shown, banners>>
  <2>1. PhaseInv'
    <3>1. told' \in [Slots -> StatusType \cup {Nothing}]
      BY <1>17 DEF DetourInv, PhaseInv
    <3> QED
      BY <1>4, <1>5, <3>1 DEF DetourInv, PhaseInv
  <2>2. SummaryInv' /\ DueInv'
    BY <1>4, <1>17 DEF DetourInv, SummaryInv, DueInv
  <2> QED
    BY <1>2, <1>5, <1>7, <1>12, <1>15, <1>17, <2>1, <2>2 DEF DetourInv
<1>18. CASE line.kind = "banner" /\ banners' = banners + 1 /\ UNCHANGED <<shown, told>>
  <2>1. banners = 0 /\ ~summary.pending
    BY <1>3, <1>18 DEF DetourInv, BannerInv
  <2>2. SummaryInv'
    BY <1>4, <1>18, <2>1 DEF DetourInv, SummaryInv
  <2>3. PhaseInv' /\ DueInv'
    BY <1>4, <1>5, <1>18 DEF DetourInv, PhaseInv, DueInv
  <2> QED
    BY <1>2, <1>5, <1>7, <1>12, <1>15, <1>18, <2>2, <2>3 DEF DetourInv
<1> QED
  BY <1>2, <1>16, <1>17, <1>18, KindsOfLines

-----------------------------------------------------------------------------
(***************************************************************************)
(* The invariant of the detour.                                            *)
(***************************************************************************)
\* Before startup there is no frame, no notice and no summary.
LEMMA DetourInit == Init => DetourInv
<1> SUFFICES ASSUME Init PROVE DetourInv
  OBVIOUS
<1>1. RegInv
  BY RegInitEstablishes DEF Init
<1>2. /\ stack = [t \in Threads |-> <<>>] /\ pending = NoNotices /\ summary = NoSummary
      /\ phase = "registering" /\ chatReady \in BOOLEAN
      /\ clock = 0 /\ instance = 0 /\ banners = 0 /\ due = 0
      /\ shown = [k \in Slots \X (0 .. MaxInstance) |-> 0] /\ told = [s \in Slots |-> Nothing]
  BY DEF Init, RegInit
<1>3. GameThread \in Threads /\ MaxInstance \in Nat
  BY HandshakeConstants
<1>4. <<>> \in Seq(FrameType) /\ Len(<<>>) = 0
  BY EmptySeq
<1>5. StackInv
  <2>1. stack \in [Threads -> Seq(FrameType)] /\ \A t \in Threads : Depth(t) = 0
    BY <1>2, <1>4 DEF Depth
  <2> QED
    BY <2>1 DEF StackInv
<1>6. PhaseInv
  BY <1>2, <1>3, NoSummaryTyped DEF PhaseInv
<1>7. PendingInv
  BY <1>2 DEF PendingInv, NoNotices
<1>8. ShownInv
  BY <1>2, <1>3 DEF ShownInv, NoNotices
<1>9. \A d, k : ~InFlight(d, k)
  <2>1. GameDepth = 0
    BY <1>2, <1>3, <1>4 DEF GameDepth, Depth
  <2>2. \A d : Out(d) = <<>>
    BY <2>1 DEF Out
  <2> QED
    BY <1>4, <2>2 DEF InFlight
<1>10. NoticeInv /\ BannerInv
  BY <1>9 DEF NoticeInv, NoticeAt, BannerInv
<1>11. SummaryInv /\ DueInv
  BY <1>2, NoSummaryTyped DEF SummaryInv, DueInv
<1> QED
  BY <1>1, <1>5, <1>6, <1>7, <1>8, <1>10, <1>11 DEF DetourInv

\* Every step of the detour and of the retail code around it keeps it.
LEMMA DetourStep == DetourInv /\ [Next]_vars => DetourInv'
<1> SUFFICES ASSUME DetourInv, [Next]_vars PROVE DetourInv'
  OBVIOUS
<1>1. CASE UNCHANGED vars
  <2>1. UNCHANGED <<regVars, chatReady, pending, summary, stack, clock, instance, lineVars, due>>
    BY <1>1 DEF vars, hsVars
  <2>2. RegInv' /\ TableGrows /\ PhaseKept
    BY <2>1, RegistryKept DEF DetourInv, PhaseKept
  <2>3. StackInv' /\ Quiet
    BY <2>1, GameStackKept DEF DetourInv, StackInv, Depth, Quiet
  <2>4. chatReady' \in BOOLEAN /\ (chatReady => chatReady') /\ clock' \in Nat /\ clock <= clock'
    BY <2>1 DEF DetourInv, PhaseInv
  <2> QED
    BY <2>1, <2>2, <2>3, <2>4, QuietStep
<1>2. CASE Startup
  BY <1>2, StartupPreserves
<1>3. CASE \E t \in Threads, token \in Tokens : ServerToken(t, token)
  BY <1>3, ServerTokenPreserves
<1>4. ASSUME NEW t \in Threads,
             ClientTravel(t) \/ ReceivedPlayer(t) \/ OtherCall(t) \/ FrameStep(t) \/ ChatReturns(t)
      PROVE  DetourInv'
  <2>1. CASE FrameStep(t)
    BY <2>1, UpdatePreserves, NoticesPreserve, SummaryPreserves, FinishCallPreserves, ShowPreserves
    DEF FrameStep
  <2> QED
    BY <1>4, <2>1, ClientTravelPreserves, ReceivedPlayerPreserves, OtherCallPreserves, ChatReturnsPreserves
<1>5. CASE ChatManagerCreated \/ ClockAdvances
  BY <1>5, RetailPreserves
<1> QED
  BY <1>1, <1>2, <1>3, <1>4, <1>5 DEF Next

\* The detour's state is always consistent, whatever the server and the chat
\* helper do.
THEOREM DetourInvariant == Spec => []DetourInv
  BY DetourInit, DetourStep, PTL DEF Spec

\* Every variable of the detour keeps its type.
THEOREM DetourTyped == Spec => []HandshakeTypeOK
<1>1. ASSUME DetourInv PROVE HandshakeTypeOK
  <2> HIDE DEF NoticeType, SummaryType, FrameType, StatusType
  <2>1. RegTypeOK /\ stack \in [Threads -> Seq(FrameType)] /\ summary \in SummaryType
    BY <1>1 DEF DetourInv, RegInv, StackInv, SummaryInv
  <2>2. instance \in Nat /\ banners \in Nat
    BY <1>1, HandshakeConstants DEF DetourInv, PhaseInv, SummaryInv
  <2>3. /\ chatReady \in BOOLEAN /\ clock \in Nat /\ due \in Nat
        /\ told \in [Slots -> StatusType \cup {Nothing}] /\ pending \in [Slots -> NoticeType \cup {Nothing}]
    BY <1>1 DEF DetourInv, PhaseInv, PendingInv
  <2> QED
    BY <2>1, <2>2, <2>3 DEF HandshakeTypeOK
<1> QED
  BY <1>1, DetourInvariant, PTL

\* A pending notice is always about the present instance and was asked for by
\* the registry; the table has room for every notice to come.
THEOREM PendingNoticesCurrent == Spec => []PendingIsCurrent
<1>1. ASSUME DetourInv PROVE PendingIsCurrent
  <2>1. ASSUME NEW n \in Slots, pending[n] # Nothing
        PROVE  /\ pending[n].instance = instance
               /\ entries[pending[n].slot].mismatchNoticeIssued
               /\ pending[n].serverRelease # pending[n].clientRelease
               /\ pending[n].clientRelease = entries[pending[n].slot].registration.featureRelease
    BY <1>1, <2>1 DEF DetourInv, PendingInv
  <2>2. ASSUME NEW s \in Slots, ~entries[s].mismatchNoticeIssued
        PROVE  \E n \in Slots : pending[n] = Nothing
    BY <1>1, <2>2, FeatureFindsRoom DEF DetourInv
  <2> QED
    BY <2>1, <2>2 DEF PendingIsCurrent
<1> QED
  BY <1>1, DetourInvariant, PTL

\* No feature's mismatch notice is shown twice for one server instance.
THEOREM NoticesShownOnce == Spec => []OneNoticePerInstance
<1>1. ASSUME DetourInv PROVE OneNoticePerInstance
  <2>1. shown \in [Slots \X (0 .. MaxInstance) -> {0, 1}]
    BY <1>1 DEF DetourInv, ShownInv
  <2> QED
    BY <2>1 DEF OneNoticePerInstance
<1> QED
  BY <1>1, DetourInvariant, PTL

\* Only the thread that received the RPCs ever has a line to show.
THEOREM ChatStaysOnGameThread == Spec => []ChatOnGameThreadOnly
<1>1. DetourInv => ChatOnGameThreadOnly
  BY DEF DetourInv, StackInv, ChatOnGameThreadOnly
<1> QED
  BY <1>1, DetourInvariant, PTL

\* A join is summarised at most once.
THEOREM JoinSummarisedOnce == Spec => []OneSummaryPerJoin
<1>1. DetourInv => OneSummaryPerJoin
  BY DEF DetourInv, SummaryInv, OneSummaryPerJoin
<1> QED
  BY <1>1, DetourInvariant, PTL

\* No summary is delivered before its grace period ends, across any number of
\* wraps of the tick count.
THEOREM GracePeriodHolds == Spec => []SummaryNotEarly
<1>1. DetourInv => SummaryNotEarly
  BY DEF DetourInv, DueInv, SummaryNotEarly
<1> QED
  BY <1>1, DetourInvariant, PTL

-----------------------------------------------------------------------------
(***************************************************************************)
(* The registry behind the detour.                                         *)
(***************************************************************************)
\* The detour, with every re-entry of the chat helper, uses the registry only
\* in the ways the registry's own specification allows.
THEOREM DetourUsesRegistry == Spec => RegSpec
<1>1. Init => RegInit
  BY DEF Init
<1>2. ASSUME [Next]_vars PROVE [RegNext]_regVars
  <2>1. CASE UNCHANGED vars
    BY <2>1 DEF vars
  <2>2. CASE Startup
    BY <2>2 DEF Startup, RegNext
  <2>3. CASE \E t \in Threads, token \in Tokens : ServerToken(t, token)
    BY <2>3 DEF ServerToken, RegNext
  <2>4. ASSUME NEW t \in Threads, ClientTravel(t) \/ ReceivedPlayer(t) PROVE RegNext
    BY <2>4 DEF ClientTravel, ReceivedPlayer, InstanceBoundary, RegNext
  <2>5. ASSUME NEW t \in Threads, OtherCall(t) \/ FrameStep(t) \/ ChatReturns(t)
        PROVE  UNCHANGED regVars
    BY <2>5 DEF OtherCall, FrameStep, ChatReturns, DeliverDebugFeatureUpdate,
                DeliverPendingMismatchNotices, DeliverDebugJoinSummary, FinishCall, QueueChatMessage
  <2>6. CASE ChatManagerCreated \/ ClockAdvances
    BY <2>6 DEF ChatManagerCreated, ClockAdvances
  <2> QED
    BY <1>2, <2>1, <2>2, <2>3, <2>4, <2>5, <2>6 DEF Next
<1> QED
  BY <1>1, <1>2, PTL DEF Spec, RegSpec

\* So the running detour implements the gate as well.
THEOREM DetourImplementsGate == Spec => ImplementsGate
  BY DetourUsesRegistry, RegistryImplementsGate, PTL

-----------------------------------------------------------------------------
(***************************************************************************)
(* What the user was told.                                                 *)
(***************************************************************************)
\* The same status lines are on their way.
StatusFlightKept ==
  \A d, k \in Nat :
    /\ StatusAt(d, k)' <=> StatusAt(d, k)
    /\ StatusAt(d, k) => LineAt(d, k)' = LineAt(d, k)

\* The same frame, if any, is about to tell a status.
TellingKept ==
  /\ \A d \in 1 .. GameDepth' : Frame(d)'.next = "update" =>
       d \in 1 .. GameDepth /\ Frame(d).next = "update" /\ Frame(d)'.out = <<>>
  /\ GameDepth > 0 /\ Frame(1).next = "update" =>
       GameDepth' > 0 /\ Frame(1)'.next = "update" /\ Frame(1)'.feature = Frame(1).feature

\* A step that puts no line on its way keeps the status lines.
LEMMA FlightOfStatus == FlightKept => StatusFlightKept
  BY DEF FlightKept, StatusFlightKept, StatusAt, InFlight, LineAt

\* A step that keeps both keeps what was told.
LEMMA ToldKept ==
  ASSUME ToldInv, StatusFlightKept, TellingKept, UNCHANGED <<regVars, summary, told>>
  PROVE  ToldInv'
<1>1. ToldFrames'
  BY DEF ToldInv, ToldFrames, TellingKept
<1>2. ToldLines'
  BY DEF ToldInv, ToldLines, StatusFlightKept
<1>3. \A s \in Slots : /\ Status(s)' = Status(s) /\ entries'[s] = entries[s]
                       /\ AboutToTell(s) => AboutToTell(s)'
  BY DEF regVars, Status, AboutToTell, TellingKept, Find, Holds
<1>4. \A s : (\E d, k \in Nat : StatusAt(d, k) /\ LineAt(d, k).slot = s) =>
              (\E d, k \in Nat : StatusAt(d, k)' /\ LineAt(d, k)'.slot = s)
  BY DEF StatusFlightKept
<1>5. ToldStatus'
  BY <1>3, <1>4 DEF ToldInv, ToldStatus
<1> QED
  BY <1>1, <1>2, <1>5 DEF ToldInv

\* Where the game thread's stack stays, its frames do.
LEMMA TellingWithStack ==
  ASSUME ToldInv, stack'[GameThread] = stack[GameThread]
  PROVE  TellingKept /\ StatusFlightKept
<1>1. GameDepth' = GameDepth /\ \A d : Frame(d)' = Frame(d)
  BY DEF GameDepth, Depth, Frame
<1>2. TellingKept
  BY <1>1 DEF TellingKept, ToldInv, ToldFrames
<1> QED
  BY <1>2, GameStackKept, FlightOfStatus

\* A call that is no token puts a frame on top that tells no status.
LEMMA ToldOtherCall ==
  ASSUME DetourInv, ToldInv, NEW t \in Threads, OtherCall(t)
  PROVE  ToldInv'
<1>1. PICK n \in Nat : n = Depth(t)
  BY LenProperties DEF DetourInv, StackInv, Depth
<1>2. "notices" \in Stage /\ 0 \in FeatureId
  BY DEF Stage, FeatureId
<1>3. CanDispatch(t) /\ Push(t, NewFrame("notices", 0)) /\ UNCHANGED <<regVars, summary, told>>
  BY DEF OtherCall, lineVars
<1>4. /\ FlightKept
      /\ t # GameThread => stack'[GameThread] = stack[GameThread]
      /\ t = GameThread =>
           GameDepth' = n + 1 /\ BelowKept(n) /\ Frame(n + 1)' = NewFrame("notices", 0)
  BY <1>1, <1>2, <1>3, Pushed DEF DetourInv
<1>5. CASE t # GameThread
  BY <1>3, <1>4, <1>5, TellingWithStack, ToldKept
<1>6. CASE t = GameThread
  <2>1. GameDepth = n
    BY <1>1, <1>6 DEF GameDepth
  <2>2. Frame(n + 1)'.next = "notices"
    BY <1>4, <1>6 DEF NewFrame
  <2>3. ASSUME NEW d \in 1 .. GameDepth', Frame(d)'.next = "update"
        PROVE  d \in 1 .. GameDepth /\ Frame(d).next = "update" /\ Frame(d)'.out = <<>>
    <3>1. d \in 1 .. n
      BY <1>4, <1>6, <2>2, <2>3
    <3> QED
      BY <1>4, <1>6, <2>1, <2>3, <3>1 DEF BelowKept, ToldInv, ToldFrames
  <2>4. ASSUME GameDepth > 0
        PROVE  GameDepth' > 0 /\ Frame(1)' = Frame(1)
    <3>1. 1 \in 1 .. n
      BY <2>1, <2>4
    <3> QED
      BY <1>4, <1>6, <3>1 DEF BelowKept
  <2>5. TellingKept
    BY <2>3, <2>4 DEF TellingKept
  <2> QED
    BY <1>3, <1>4, <2>5, FlightOfStatus, ToldKept
<1> QED
  BY <1>5, <1>6

\* A call that ends was not about to tell a status.
LEMMA ToldFinishCall ==
  ASSUME DetourInv, ToldInv, NEW t \in Threads, FinishCall(t)
  PROVE  ToldInv'
<1>1. PICK n \in Nat : n = Depth(t)
  BY LenProperties DEF DetourInv, StackInv, Depth
<1>2. /\ FlightKept
      /\ t # GameThread => stack'[GameThread] = stack[GameThread]
      /\ t = GameThread =>
           /\ n > 0 /\ GameDepth' = n - 1 /\ BelowKept(n - 1)
           /\ Frame(n).out = <<>> /\ Frame(n).next = "original"
  BY <1>1, Popped DEF DetourInv
<1>3. UNCHANGED <<regVars, summary, told>>
  BY DEF FinishCall, lineVars
<1>4. CASE t # GameThread
  BY <1>2, <1>3, <1>4, TellingWithStack, ToldKept
<1>5. CASE t = GameThread
  <2>1. GameDepth = n
    BY <1>1, <1>5 DEF GameDepth
  <2>2. ASSUME NEW d \in 1 .. GameDepth', Frame(d)'.next = "update"
        PROVE  d \in 1 .. GameDepth /\ Frame(d).next = "update" /\ Frame(d)'.out = <<>>
    <3>1. d \in 1 .. n - 1 /\ d \in 1 .. n
      BY <1>2, <1>5
    <3> QED
      BY <1>2, <1>5, <2>1, <2>2, <3>1 DEF BelowKept, ToldInv, ToldFrames
  <2>3. ASSUME GameDepth > 0, Frame(1).next = "update"
        PROVE  GameDepth' > 0 /\ Frame(1)' = Frame(1)
    <3>1. n # 1
      BY <1>2, <1>5, <2>3
    <3>2. 1 \in 1 .. n - 1 /\ n - 1 > 0
      BY <2>1, <2>3, <3>1
    <3> QED
      BY <1>2, <1>5, <3>2 DEF BelowKept
  <2>4. TellingKept
    BY <2>2, <2>3 DEF TellingKept
  <2> QED
    BY <1>2, <1>3, <2>4, FlightOfStatus, ToldKept
<1> QED
  BY <1>4, <1>5

\* A frame with lines told its status already, so its turn in the chat helper
\* leaves the frame that is about to tell one.
LEMMA TellingBelow ==
  ASSUME ToldInv, NEW n \in Nat, n > 0, GameDepth = n, GameDepth' = n, BelowKept(n - 1),
         Frame(n)'.next = Frame(n).next, Frame(n).out # <<>>
  PROVE  TellingKept
<1>1. Frame(n).next # "update"
  <2>1. n \in 1 .. GameDepth
    OBVIOUS
  <2> QED
    BY <2>1 DEF ToldInv, ToldFrames
<1>2. ASSUME NEW d \in 1 .. GameDepth', Frame(d)'.next = "update"
      PROVE  d \in 1 .. GameDepth /\ Frame(d).next = "update" /\ Frame(d)'.out = <<>>
  <2>1. d \in 1 .. n /\ d # n
    BY <1>1, <1>2
  <2>2. d \in 1 .. n - 1
    BY <2>1
  <2> QED
    BY <1>2, <2>1, <2>2 DEF BelowKept, ToldInv, ToldFrames
<1>3. ASSUME GameDepth > 0, Frame(1).next = "update"
      PROVE  GameDepth' > 0 /\ Frame(1)' = Frame(1)
  <2>1. n # 1
    BY <1>1, <1>3
  <2>2. 1 \in 1 .. n - 1
    BY <2>1
  <2> QED
    BY <2>2 DEF BelowKept
<1> QED
  BY <1>2, <1>3 DEF TellingKept

\* The chat helper returns.
LEMMA ToldChatReturns ==
  ASSUME DetourInv, ToldInv, NEW t \in Threads, ChatReturns(t)
  PROVE  ToldInv'
<1>1. PICK n \in Nat : n = Depth(t)
  BY LenProperties DEF DetourInv, StackInv, Depth
<1>2. /\ FlightKept /\ n > 0 /\ GameDepth = n /\ GameDepth' = n /\ BelowKept(n - 1)
      /\ Frame(n)'.next = Frame(n).next /\ Frame(n).out # <<>>
  BY <1>1, HelperReturns DEF DetourInv, Quiet
<1>3. UNCHANGED <<regVars, summary, told>>
  BY DEF ChatReturns, lineVars
<1> QED
  BY <1>2, <1>3, TellingBelow, FlightOfStatus, ToldKept

\* The later deliveries of a call tell no status that is about to be told.
LEMMA TellingWhenDelivered ==
  ASSUME DetourInv, ToldInv, NEW t \in Threads, NEW n \in Nat, n = Depth(t),
         NEW stage \in Stage, AtStage(t, stage), stage # "update",
         NEW lines \in Seq(LineType), NEW next \in Stage, next # "update",
         t # GameThread => lines = <<>>, Deliver(t, lines, next)
  PROVE  /\ TellingKept
         /\ \/ StatusFlightKept /\ t # GameThread
            \/ /\ t = GameThread /\ Out(n) = <<>> /\ Out(n)' = lines
               /\ \A d \in Nat : d # n => Out(d)' = Out(d)
<1> HIDE DEF LineType
<1>1. /\ t # GameThread => stack'[GameThread] = stack[GameThread]
      /\ t = GameThread =>
           /\ n > 0 /\ GameDepth = n /\ GameDepth' = n /\ BelowKept(n - 1)
           /\ Out(n) = <<>> /\ Out(n)' = lines /\ \A d \in Nat : d # n => Out(d)' = Out(d)
           /\ Frame(n)'.next = next
  BY Delivered DEF DetourInv
<1>2. CASE t # GameThread
  BY <1>1, <1>2, TellingWithStack
<1>3. CASE t = GameThread
  <2>1. Frame(n).next = stage
    BY <1>3 DEF AtStage, Top, Frame
  <2>2. ASSUME NEW d \in 1 .. GameDepth', Frame(d)'.next = "update"
        PROVE  d \in 1 .. GameDepth /\ Frame(d).next = "update" /\ Frame(d)'.out = <<>>
    <3>1. d \in 1 .. n /\ d # n
      BY <1>1, <1>3, <2>2
    <3>2. d \in 1 .. n - 1
      BY <3>1
    <3> QED
      BY <1>1, <1>3, <2>2, <3>1, <3>2 DEF BelowKept, ToldInv, ToldFrames
  <2>3. ASSUME GameDepth > 0, Frame(1).next = "update"
        PROVE  GameDepth' > 0 /\ Frame(1)' = Frame(1)
    <3>1. n # 1
      BY <2>1, <2>3
    <3>2. 1 \in 1 .. n - 1
      BY <1>1, <1>3, <3>1
    <3> QED
      BY <1>1, <1>3, <3>2 DEF BelowKept
  <2>4. TellingKept
    BY <2>2, <2>3 DEF TellingKept
  <2> QED
    BY <1>1, <1>3, <2>4
<1> QED
  BY <1>2, <1>3

\* A delivery that holds no status.
LEMMA ToldDelivered ==
  ASSUME DetourInv, ToldInv, NEW t \in Threads,
         NEW stage \in Stage, AtStage(t, stage), stage # "update",
         NEW lines \in Seq(LineType), NEW next \in Stage, next # "update",
         t # GameThread => lines = <<>>, Deliver(t, lines, next),
         \A k \in 1 .. Len(lines) : lines[k].kind # "status",
         UNCHANGED <<regVars, summary, told>>
  PROVE  ToldInv'
<1> HIDE DEF LineType
<1>1. PICK n \in Nat : n = Depth(t)
  BY LenProperties DEF DetourInv, StackInv, Depth
<1>2. /\ TellingKept
      /\ \/ StatusFlightKept /\ t # GameThread
         \/ /\ t = GameThread /\ Out(n) = <<>> /\ Out(n)' = lines
            /\ \A d \in Nat : d # n => Out(d)' = Out(d)
  BY <1>1, TellingWhenDelivered
<1>3. CASE StatusFlightKept
  BY <1>2, <1>3, ToldKept
<1>4. CASE /\ Out(n) = <<>> /\ Out(n)' = lines
           /\ \A d \in Nat : d # n => Out(d)' = Out(d)
  <2>1. ASSUME NEW d \in Nat, NEW k \in Nat
        PROVE  /\ StatusAt(d, k)' <=> StatusAt(d, k)
               /\ StatusAt(d, k) => LineAt(d, k)' = LineAt(d, k)
    <3>1. CASE d = n
      <4>1. Len(<<>>) = 0
        BY EmptySeq
      <4>2. ~StatusAt(d, k)
        BY <1>4, <3>1, <4>1 DEF StatusAt, InFlight
      <4>3. ~StatusAt(d, k)'
        BY <1>4, <3>1 DEF StatusAt, InFlight, LineAt
      <4> QED
        BY <4>2, <4>3
    <3>2. CASE d # n
      BY <1>4, <3>2 DEF StatusAt, InFlight, LineAt
    <3> QED
      BY <3>1, <3>2
  <2>2. StatusFlightKept
    BY <2>1 DEF StatusFlightKept
  <2> QED
    BY <1>2, <2>2, ToldKept
<1> QED
  BY <1>2, <1>3, <1>4

\* A status that changed is told before anything else of its call.
LEMMA ToldUpdate ==
  ASSUME DetourInv, ToldInv, NEW t \in Threads, DeliverDebugFeatureUpdate(t)
  PROVE  ToldInv'
<1> HIDE DEF LineType, StatusType
<1>1. /\ AtStage(t, "update") /\ "update" \in Stage /\ "notices" \in Stage
      /\ UNCHANGED <<regVars, chatReady, told>>
  BY DEF DeliverDebugFeatureUpdate, Stage, lineVars
<1>2. PICK n \in Nat : n = Depth(t)
  BY LenProperties DEF DetourInv, StackInv, Depth
<1>3. summary \in SummaryType /\ summary.thread = GameThread /\ (summary.delivered => chatReady)
  BY DEF DetourInv, SummaryInv
<1>4. CASE t # GameThread
  <2>1. ~\E s \in Slots : MayUpdate(t, s)
    BY <1>3, <1>4 DEF MayUpdate
  <2>2. Deliver(t, <<>>, "notices") /\ UNCHANGED summary
    BY <2>1 DEF DeliverDebugFeatureUpdate
  <2>3. <<>> \in Seq(LineType)
    BY EmptySeq
  <2>4. stack'[GameThread] = stack[GameThread]
    BY <1>1, <1>2, <1>4, <2>2, <2>3, Delivered DEF DetourInv
  <2> QED
    BY <1>1, <2>2, <2>4, TellingWithStack, ToldKept
<1>5. CASE t = GameThread
  <2>1. n > 0 /\ GameDepth = n /\ Frame(n).next = "update" /\ Frame(n).feature = Top(t).feature
    BY <1>1, <1>2, <1>5 DEF AtStage, Top, Frame, GameDepth
  <2>2. n = 1
    <3>1. n \in 1 .. GameDepth
      BY <2>1
    <3> QED
      BY <2>1, <3>1 DEF ToldInv, ToldFrames
  <2>3. PICK lines \in Seq(LineType) :
          /\ Deliver(t, lines, "notices")
          /\ \/ /\ lines = <<>> /\ UNCHANGED summary
                /\ \A s \in Slots : ~MayUpdate(t, s)
             \/ \E s \in Slots : /\ MayUpdate(t, s)
                                 /\ summary' = [summary EXCEPT !.reported[s] = Status(s)]
                                 /\ lines = <<StatusLine(s)>>
    <3>1. <<>> \in Seq(LineType)
      BY EmptySeq
    <3>2. \A s \in Slots : <<StatusLine(s)>> \in Seq(LineType)
      <4>1. \A s \in Slots : StatusLine(s) \in LineType
        BY StatusTyped DEF DetourInv, RegInv
      <4> HIDE DEF StatusLine
      <4> QED
        BY <4>1
    <3>3. CASE \E s \in Slots : MayUpdate(t, s)
      <4>1. PICK s \in Slots : /\ MayUpdate(t, s)
                               /\ summary' = [summary EXCEPT !.reported[s] = Status(s)]
                               /\ Deliver(t, <<StatusLine(s)>>, "notices")
        BY <3>3 DEF DeliverDebugFeatureUpdate
      <4> QED
        BY <3>2, <4>1
    <3>4. CASE ~\E s \in Slots : MayUpdate(t, s)
      <4>1. Deliver(t, <<>>, "notices") /\ UNCHANGED summary
        BY <3>4 DEF DeliverDebugFeatureUpdate
      <4> QED
        BY <3>1, <3>4, <4>1
    <3> QED
      BY <3>3, <3>4
  <2>4. /\ GameDepth' = 1 /\ Out(1) = <<>> /\ Out(1)' = lines
        /\ \A d \in Nat : d # 1 => Out(d)' = Out(d)
        /\ Frame(1)'.next = "notices"
    <3>1. /\ GameDepth' = n /\ Out(n) = <<>> /\ Out(n)' = lines
          /\ \A d \in Nat : d # n => Out(d)' = Out(d)
          /\ Frame(n)'.next = "notices"
      BY <1>1, <1>2, <1>5, <2>3, Delivered DEF DetourInv
    <3> QED
      BY <2>2, <3>1
  <2>5. \A d \in Nat : Out(d) = <<>>
    BY <2>1, <2>2, <2>4 DEF Out
  <2>6. \A d, k \in Nat : ~StatusAt(d, k) /\ (InFlight(d, k)' => d = 1 /\ k \in 1 .. Len(lines) /\ LineAt(d, k)' = lines[k])
    <3>1. Len(<<>>) = 0
      BY EmptySeq
    <3> QED
      BY <2>4, <2>5, <3>1 DEF StatusAt, InFlight, LineAt
  <2>7. ToldFrames'
    BY <2>4 DEF ToldFrames
  <2>8. \A s \in Slots : /\ Status(s)' = Status(s) /\ entries'[s] = entries[s] /\ told'[s] = told[s]
                         /\ AboutToTell(s) <=> Find(s, Top(t).feature)
    BY <1>1, <2>1, <2>2 DEF regVars, Status, AboutToTell
  <2>9. ASSUME summary.delivered, NEW s \in Slots, entries[s].used
        PROVE  /\ told[s] = summary.reported[s]
               /\ summary.reported[s] = Status(s) \/ Find(s, Top(t).feature)
    BY <2>6, <2>8, <2>9 DEF ToldInv, ToldStatus
  <2>10. CASE /\ lines = <<>> /\ UNCHANGED summary
              /\ \A s \in Slots : ~MayUpdate(t, s)
    <3>1. \A d, k \in Nat : ~StatusAt(d, k)'
      <4>1. Len(<<>>) = 0
        BY EmptySeq
      <4> QED
        BY <2>6, <2>10, <4>1 DEF StatusAt
    <3>2. ToldLines'
      BY <3>1 DEF ToldLines
    <3>3. ASSUME summary.delivered, NEW s \in Slots, entries[s].used
          PROVE  summary.reported[s] = Status(s)
      BY <1>3, <1>5, <2>9, <2>10, <3>3 DEF MayUpdate
    <3>4. ToldStatus'
      BY <2>8, <2>9, <2>10, <3>3 DEF ToldStatus
    <3> QED
      BY <2>7, <3>2, <3>4 DEF ToldInv
  <2>11. CASE \E s \in Slots : /\ MayUpdate(t, s)
                               /\ summary' = [summary EXCEPT !.reported[s] = Status(s)]
                               /\ lines = <<StatusLine(s)>>
    <3>1. PICK s \in Slots : /\ MayUpdate(t, s)
                             /\ summary' = [summary EXCEPT !.reported[s] = Status(s)]
                             /\ lines = <<StatusLine(s)>>
      BY <2>11
    <3>2. summary.delivered /\ Find(s, Top(t).feature)
      BY <3>1 DEF MayUpdate
    <3>3. /\ summary'.delivered = summary.delivered /\ summary'.reported[s] = Status(s)
          /\ \A r \in Slots : r # s => summary'.reported[r] = summary.reported[r]
      BY <1>3, <3>1 DEF SummaryType
    <3>4. Len(lines) = 1 /\ lines[1] = StatusLine(s)
      BY <3>1
    <3>5. StatusLine(s).kind = "status" /\ StatusLine(s).slot = s /\ StatusLine(s).status = Status(s)
      BY DEF StatusLine
    <3>6. \A d, k \in Nat : StatusAt(d, k)' => LineAt(d, k)' = StatusLine(s)
      BY <2>6, <3>4 DEF StatusAt
    <3>7. ToldLines'
      BY <3>2, <3>3, <3>5, <3>6 DEF ToldLines
    <3>8. StatusAt(1, 1)' /\ LineAt(1, 1)' = StatusLine(s)
      BY <2>4, <3>4, <3>5 DEF StatusAt, InFlight, LineAt
    <3>9. ASSUME NEW r \in Slots, entries[r].used
          PROVE  /\ told[r] = summary'.reported[r] \/ \E d, k \in Nat : StatusAt(d, k)' /\ LineAt(d, k)'.slot = r
                 /\ summary'.reported[r] = Status(r)
      <4>1. CASE r = s
        BY <3>3, <3>5, <3>8, <4>1
      <4>2. CASE r # s
        <5>1. ~Find(r, Top(t).feature)
          BY <3>2, <4>2, OneFound
        <5> QED
          BY <2>9, <3>2, <3>3, <3>9, <4>2, <5>1
      <4> QED
        BY <4>1, <4>2
    <3>10. ToldStatus'
      BY <2>8, <3>9 DEF ToldStatus
    <3> QED
      BY <2>7, <3>7, <3>10 DEF ToldInv
  <2> QED
    BY <2>3, <2>10, <2>11
<1> QED
  BY <1>4, <1>5

\* The join summary tells every feature's status.
LEMMA ToldSummary ==
  ASSUME DetourInv, ToldInv, NEW t \in Threads, DeliverDebugJoinSummary(t)
  PROVE  ToldInv'
<1> HIDE DEF LineType, StatusType
<1>1. /\ AtStage(t, "summary") /\ "summary" \in Stage /\ "original" \in Stage
      /\ UNCHANGED <<regVars, told>>
  BY DEF DeliverDebugJoinSummary, Stage, lineVars
<1>2. CASE ~SummaryDue(t)
  <2>1. Deliver(t, <<>>, "original") /\ UNCHANGED summary
    BY <1>2 DEF DeliverDebugJoinSummary
  <2>2. <<>> \in Seq(LineType) /\ Len(<<>>) = 0
    BY EmptySeq
  <2>3. \A k \in 1 .. Len(<<>>) : <<>>[k].kind # "status"
    BY <2>2
  <2> QED
    BY <1>1, <2>1, <2>2, <2>3, ToldDelivered
<1>3. CASE SummaryDue(t)
  <2> DEFINE lines == SummaryLines
  <2>1. Deliver(t, lines, "original") /\ summary' = SummaryAfterDelivery
    BY <1>3 DEF DeliverDebugJoinSummary
  <2>2. t = GameThread /\ ~summary.delivered /\ summary \in SummaryType
    BY <1>3 DEF SummaryDue, DetourInv, SummaryInv
  <2>3. /\ lines \in Seq(LineType)
        /\ \A k \in 1 .. Len(lines) : lines[k].kind = "status" =>
             \E s \in Slots : entries[s].used /\ lines[k] = StatusLine(s)
        /\ \A s \in Slots : entries[s].used => \E k \in 1 .. Len(lines) : lines[k] = StatusLine(s)
    BY SummaryOfLines DEF DetourInv, RegInv
  <2> HIDE DEF lines
  <2>4. PICK n \in Nat : n = Depth(t)
    BY LenProperties DEF DetourInv, StackInv, Depth
  <2>5. TellingKept /\ Out(n)' = lines /\ \A d \in Nat : d # n => Out(d)' = Out(d)
    BY <1>1, <2>1, <2>2, <2>3, <2>4, TellingWhenDelivered
  <2>6. \A d, k \in Nat : ~StatusAt(d, k)
    BY <2>2 DEF ToldInv, ToldLines
  <2>7. \A d, k \in Nat : StatusAt(d, k)' =>
          d = n /\ k \in 1 .. Len(lines) /\ LineAt(d, k)' = lines[k] /\ lines[k].kind = "status"
    BY <2>5, <2>6 DEF StatusAt, InFlight, LineAt
  <2>8. \A s \in Slots : entries[s].used => summary'.reported[s] = Status(s)
    BY <2>1, <2>2 DEF SummaryAfterDelivery, SummaryType
  <2>9. summary'.delivered
    BY <2>1, <2>2 DEF SummaryAfterDelivery, SummaryType
  <2>10. \A s \in Slots : Status(s)' = Status(s) /\ entries'[s] = entries[s] /\ told'[s] = told[s]
    BY <1>1 DEF regVars, Status
  <2>11. \A s : StatusLine(s).kind = "status" /\ StatusLine(s).slot = s /\ StatusLine(s).status = Status(s)
    BY DEF StatusLine
  <2>12. ToldFrames'
    BY <2>5 DEF TellingKept, ToldInv, ToldFrames
  <2>13. ToldLines'
    <3>1. ASSUME NEW d \in Nat, NEW k \in Nat, StatusAt(d, k)'
          PROVE  LineAt(d, k)'.status = summary'.reported[LineAt(d, k)'.slot]
      <4>1. PICK s \in Slots : entries[s].used /\ LineAt(d, k)' = StatusLine(s)
        BY <2>3, <2>7, <3>1
      <4> QED
        BY <2>8, <2>11, <4>1
    <3> QED
      BY <2>9, <3>1 DEF ToldLines
  <2>14. ToldStatus'
    <3>1. ASSUME NEW s \in Slots, entries[s].used
          PROVE  \E d, k \in Nat : StatusAt(d, k)' /\ LineAt(d, k)'.slot = s
      <4>1. PICK k \in 1 .. Len(lines) : lines[k] = StatusLine(s)
        BY <2>3, <3>1
      <4>2. k \in Nat
        BY <2>3, LenProperties
      <4>3. StatusAt(n, k)' /\ LineAt(n, k)'.slot = s
        BY <2>5, <2>11, <4>1 DEF StatusAt, InFlight, LineAt
      <4> QED
        BY <4>2, <4>3
    <3> QED
      BY <2>8, <2>10, <3>1 DEF ToldStatus
  <2> QED
    BY <2>12, <2>13, <2>14 DEF ToldInv
<1> QED
  BY <1>2, <1>3

\* Notices say nothing of a status.
LEMMA ToldNotices ==
  ASSUME DetourInv, ToldInv, NEW t \in Threads, DeliverPendingMismatchNotices(t)
  PROVE  ToldInv'
<1> HIDE DEF LineType, NoticeType
<1>1. /\ AtStage(t, "notices") /\ "notices" \in Stage /\ "notices" # "update"
      /\ AfterNotices \in Stage /\ AfterNotices # "update"
      /\ UNCHANGED <<regVars, summary, told>>
  BY DEF DeliverPendingMismatchNotices, Stage, AfterNotices, lineVars
<1>2. PICK lines \in Seq(LineType) :
        /\ Deliver(t, lines, AfterNotices) /\ (t # GameThread => lines = <<>>)
        /\ \A k \in 1 .. Len(lines) : lines[k].kind # "status"
  <2>1. <<>> \in Seq(LineType) /\ Len(<<>>) = 0
    BY EmptySeq
  <2>2. \A k \in 1 .. Len(<<>>) : <<>>[k].kind # "status"
    BY <2>1
  <2>3. CASE ~chatReady
    <3>1. Deliver(t, <<>>, AfterNotices)
      BY <2>3 DEF DeliverPendingMismatchNotices
    <3> QED
      BY <2>1, <2>2, <3>1
  <2>4. CASE chatReady /\ t # GameThread
    <3>1. Deliver(t, <<>>, AfterNotices)
      BY <2>4, NoNoticeOfOthers DEF DeliverPendingMismatchNotices, DetourInv
    <3> QED
      BY <2>1, <2>2, <3>1
  <2>5. CASE chatReady /\ t = GameThread
    <3> DEFINE lines == ReadyNotices(GameThread)
    <3>1. Deliver(t, lines, AfterNotices)
      BY <2>5 DEF DeliverPendingMismatchNotices
    <3>2. /\ lines \in Seq(LineType)
          /\ \A k \in 1 .. Len(lines) : \E r \in Slots : pending[r] # Nothing /\ lines[k] = pending[r]
      BY NoticesOfTable DEF DetourInv
    <3> HIDE DEF lines
    <3>3. \A r \in Slots : pending[r] # Nothing => pending[r].kind = "notice"
      <4>1. \A r \in Slots : pending[r] # Nothing => pending[r] \in NoticeType
        BY DEF DetourInv, PendingInv
      <4> QED
        BY <4>1 DEF NoticeType
    <3>4. \A k \in 1 .. Len(lines) : lines[k].kind # "status"
      BY <3>2, <3>3
    <3> QED
      BY <2>5, <3>1, <3>2, <3>4
  <2> QED
    BY <2>3, <2>4, <2>5
<1> QED
  BY <1>1, <1>2, ToldDelivered

\* A status line that is shown is what the user was last told.
LEMMA ToldShow ==
  ASSUME DetourInv, ToldInv, NEW t \in Threads, QueueChatMessage(t)
  PROVE  ToldInv'
<1> HIDE DEF LineType, NoticeType, StatusType
<1>1. PICK n \in Nat : n = Depth(t)
  BY LenProperties DEF DetourInv, StackInv, Depth
<1> DEFINE line == Head(Out(n))
<1>2. /\ n > 0 /\ GameDepth = n /\ GameDepth' = n /\ BelowKept(n - 1) /\ Frame(n).out # <<>>
      /\ Frame(n)'.next = Frame(n).next
      /\ Out(n) # <<>> /\ Out(n)' = Tail(Out(n)) /\ \A d \in Nat : d # n => Out(d)' = Out(d)
      /\ line \in LineType /\ Record(line)
  BY <1>1, Shown1 DEF DetourInv
<1>3. /\ InFlight(n, 1) /\ LineAt(n, 1) = line
      /\ \A k \in Nat : InFlight(n, k)' => /\ InFlight(n, k + 1) /\ k # 0
                                         /\ LineAt(n, k)' = LineAt(n, k + 1)
      /\ \A k \in Nat : InFlight(n, k + 1) /\ k # 0 => InFlight(n, k)'
      /\ \A d, k \in Nat : d # n => /\ InFlight(d, k)' <=> InFlight(d, k)
                                   /\ LineAt(d, k)' = LineAt(d, k)
  BY <1>2, LinesMoveUp DEF DetourInv
<1> HIDE DEF line
<1>4. summary' = summary /\ UNCHANGED regVars
  BY DEF QueueChatMessage
<1>5. TellingKept
  BY <1>2, TellingBelow
<1>6. ToldFrames'
  BY <1>5 DEF TellingKept, ToldInv, ToldFrames
<1>7. ASSUME NEW d \in Nat, NEW k \in Nat, StatusAt(d, k)'
      PROVE  \E j \in Nat : StatusAt(d, j) /\ LineAt(d, k)' = LineAt(d, j)
  <2>1. CASE d = n
    BY <1>3, <1>7, <2>1 DEF StatusAt
  <2>2. CASE d # n
    BY <1>3, <1>7, <2>2 DEF StatusAt
  <2> QED
    BY <2>1, <2>2
<1>8. ToldLines'
  BY <1>4, <1>7 DEF ToldInv, ToldLines
<1>9. /\ line.kind = "status" => line.slot \in Slots /\ told' = [told EXCEPT ![line.slot] = line.status]
      /\ line.kind # "status" => told' = told
  BY <1>2, KindsOfLines
<1>10. DOMAIN told = Slots
  BY DEF DetourInv, PhaseInv
<1>11. ASSUME summary.delivered, NEW s \in Slots, entries[s].used
       PROVE  told'[s] = summary.reported[s] \/ \E d, k \in Nat : StatusAt(d, k)' /\ LineAt(d, k)'.slot = s
  <2>1. CASE line.kind = "status" /\ line.slot = s
    <3>1. StatusAt(n, 1)
      BY <1>3, <2>1 DEF StatusAt
    <3>2. line.status = summary.reported[s]
      BY <1>3, <2>1, <3>1 DEF ToldInv, ToldLines
    <3>3. told'[s] = line.status
      BY <1>9, <1>10, <2>1
    <3> QED
      BY <3>2, <3>3
  <2>2. CASE ~(line.kind = "status" /\ line.slot = s)
    <3>1. told'[s] = told[s]
      BY <1>9, <1>10, <2>2
    <3>2. ASSUME NEW d \in Nat, NEW k \in Nat, StatusAt(d, k), LineAt(d, k).slot = s
          PROVE  \E j \in Nat : StatusAt(d, j)' /\ LineAt(d, j)'.slot = s
      <4>1. CASE d = n
        <5>1. k # 1
          BY <1>3, <2>2, <3>2, <4>1 DEF StatusAt
        <5>2. k \in 1 .. Len(Out(d))
          BY <3>2 DEF StatusAt, InFlight
        <5>3. k - 1 \in Nat /\ (k - 1) + 1 = k /\ k - 1 # 0
          BY <5>1, <5>2
        <5>4. PICK j \in Nat : k = j + 1 /\ j # 0
          BY <5>3
        <5>5. InFlight(n, j + 1) /\ LineAt(n, j + 1).kind = "status" /\ LineAt(n, j + 1).slot = s
          BY <3>2, <4>1, <5>4 DEF StatusAt
        <5>6. InFlight(n, j)' /\ LineAt(n, j)' = LineAt(n, j + 1)
          BY <1>3, <5>4, <5>5
        <5> QED
          BY <4>1, <5>5, <5>6 DEF StatusAt
      <4>2. CASE d # n
        BY <1>3, <3>2, <4>2 DEF StatusAt
      <4> QED
        BY <4>1, <4>2
    <3> QED
      BY <1>11, <3>1, <3>2 DEF ToldInv, ToldStatus
  <2> QED
    BY <2>1, <2>2
<1>12. \A s \in Slots : /\ Status(s)' = Status(s) /\ entries'[s] = entries[s]
                        /\ AboutToTell(s) => AboutToTell(s)'
  BY <1>4, <1>5 DEF regVars, Status, AboutToTell, TellingKept, Find, Holds
<1>13. ToldStatus'
  <2>1. ASSUME summary.delivered, NEW s \in Slots, entries[s].used
        PROVE  summary.reported[s] = Status(s) \/ AboutToTell(s)
    BY <2>1 DEF ToldInv, ToldStatus
  <2> QED
    BY <1>4, <1>11, <1>12, <2>1 DEF ToldStatus
<1> QED
  BY <1>6, <1>8, <1>13 DEF ToldInv

\* Where RPCs are not nested, a token or a travel comes to an idle game thread.
LEMMA IdleForRpc ==
  ASSUME DetourInv, ~NestedRpc, NEW t \in Threads, CanDispatchRpc(t),
         NEW next \in Stage, NEW feature \in FeatureId, Push(t, NewFrame(next, feature))
  PROVE  /\ GameDepth = 0 /\ GameDepth' = 1 /\ Frame(1)' = NewFrame(next, feature)
         /\ \A d, k \in Nat : ~StatusAt(d, k) /\ ~StatusAt(d, k)'
<1>1. PICK n \in Nat : n = Depth(t)
  BY LenProperties DEF DetourInv, StackInv, Depth
<1>2. t = GameThread /\ CanDispatch(t) /\ n = 0
  BY <1>1 DEF CanDispatchRpc
<1>3. GameDepth = 0
  BY <1>1, <1>2 DEF GameDepth
<1>4. FlightKept /\ GameDepth' = n + 1 /\ Frame(n + 1)' = NewFrame(next, feature)
  BY <1>1, <1>2, Pushed DEF DetourInv
<1>5. GameDepth' = 1 /\ Frame(1)' = NewFrame(next, feature)
  <2>1. n + 1 = 1
    BY <1>2
  <2> QED
    BY <1>4, <2>1
<1>6. \A d, k \in Nat : ~StatusAt(d, k)
  <2>1. Len(<<>>) = 0
    BY EmptySeq
  <2> QED
    BY <1>3, <2>1 DEF StatusAt, InFlight, Out
<1>7. \A d, k \in Nat : ~StatusAt(d, k)'
  BY <1>4, <1>6, FlightOfStatus DEF StatusFlightKept
<1> QED
  BY <1>3, <1>5, <1>6, <1>7

\* A token's status change is about to be told.
LEMMA ToldToken ==
  ASSUME DetourInv, ToldInv, ~NestedRpc, NEW t \in Threads, NEW token \in Tokens, ServerToken(t, token)
  PROVE  ToldInv'
<1> DEFINE id == GetFeatureId(token)
           next == IF Debug THEN "update" ELSE "notices"
<1>1. /\ CanDispatchRpc(t) /\ HandleServerToken(token) /\ Push(t, NewFrame(next, id))
      /\ summary' = summary /\ told' = told
  BY DEF ServerToken, lineVars
<1>2. id \in FeatureId /\ next \in Stage
  BY DecodeTyped, RegistryConstants DEF Stage
<1>3. /\ GameDepth = 0 /\ GameDepth' = 1 /\ Frame(1)' = NewFrame(next, id)
      /\ \A d, k \in Nat : ~StatusAt(d, k) /\ ~StatusAt(d, k)'
  BY <1>1, <1>2, IdleForRpc
<1>4. /\ \A s \in Slots : entries'[s].used = entries[s].used
      /\ \A s \in Slots : ~Find(s, id) => entries'[s] = entries[s]
      /\ \A s \in Slots : entries[s].used => entries'[s].registration = entries[s].registration
  BY <1>1, TokenEffects DEF DetourInv, TableGrows
<1> HIDE DEF id
<1>5. Frame(1)'.next = next /\ Frame(1)'.feature = id /\ Frame(1)'.out = <<>>
  BY <1>3 DEF NewFrame
<1>6. ToldFrames'
  BY <1>3, <1>5 DEF ToldFrames
<1>7. ToldLines'
  BY <1>3 DEF ToldLines
<1>8. ASSUME summary.delivered, NEW s \in Slots, entries[s].used
      PROVE  told[s] = summary.reported[s] /\ (summary.reported[s] = Status(s)' \/ AboutToTell(s)')
  <2>1. told[s] = summary.reported[s] /\ summary.reported[s] = Status(s)
    BY <1>3, <1>8 DEF ToldInv, ToldStatus, AboutToTell
  <2>2. next = "update"
    BY <1>8 DEF DetourInv, SummaryInv
  <2>3. CASE Find(s, id)
    <3>1. \A r \in Slots : Holds(r, id)' <=> Holds(r, id)
      BY <1>4 DEF Holds
    <3>2. Find(s, id)'
      BY <2>3, <3>1 DEF Find
    <3>3. AboutToTell(s)'
      BY <1>3, <1>5, <2>2, <3>2 DEF AboutToTell, Find, Holds
    <3> QED
      BY <2>1, <3>3
  <2>4. CASE ~Find(s, id)
    <3>1. Status(s)' = Status(s)
      BY <1>4, <2>4 DEF Status
    <3> QED
      BY <2>1, <3>1
  <2> QED
    BY <2>3, <2>4
<1>9. ToldStatus'
  BY <1>1, <1>4, <1>8 DEF ToldStatus
<1> QED
  BY <1>6, <1>7, <1>9 DEF ToldInv

\* After a travel nothing was told and no summary was delivered.
LEMMA ToldBoundary ==
  ASSUME DetourInv, ToldInv, ~NestedRpc, NEW t \in Threads, ClientTravel(t) \/ ReceivedPlayer(t)
  PROVE  ToldInv'
<1>1. CanDispatchRpc(t) /\ Push(t, NewFrame("notices", 0))
  BY DEF ClientTravel, ReceivedPlayer, InstanceBoundary
<1>2. "notices" \in Stage /\ 0 \in FeatureId
  BY DEF Stage, FeatureId
<1>3. /\ GameDepth' = 1 /\ Frame(1)' = NewFrame("notices", 0)
      /\ \A d, k \in Nat : ~StatusAt(d, k)'
  BY <1>1, <1>2, IdleForRpc
<1>4. ~summary'.delivered
  <2>1. CASE ClientTravel(t)
    BY <2>1, NoSummaryTyped DEF ClientTravel
  <2>2. CASE ReceivedPlayer(t) /\ Debug
    <3>1. summary' = ScheduleDebugJoinSummary(t)
      BY <2>2 DEF ReceivedPlayer
    <3> QED
      BY <3>1 DEF ScheduleDebugJoinSummary, NoSummary
  <2>3. CASE ReceivedPlayer(t) /\ ~Debug
    BY <2>3 DEF ReceivedPlayer, DetourInv, SummaryInv
  <2> QED
    BY <2>1, <2>2, <2>3
<1>5. Frame(1)'.next = "notices"
  BY <1>3 DEF NewFrame
<1>6. ToldFrames' /\ ToldLines' /\ ToldStatus'
  BY <1>3, <1>4, <1>5 DEF ToldFrames, ToldLines, ToldStatus
<1> QED
  BY <1>6 DEF ToldInv

\* Startup comes before any summary.
LEMMA ToldStartup ==
  ASSUME DetourInv, ToldInv, Startup
  PROVE  ToldInv'
<1>1. phase = "registering" /\ UNCHANGED hsVars
  BY StartupEffects DEF DetourInv
<1>2. ~summary.delivered /\ summary' = summary /\ stack' = stack
  BY <1>1 DEF DetourInv, PhaseInv, hsVars
<1>3. TellingKept /\ StatusFlightKept
  BY <1>2, TellingWithStack
<1>4. ToldFrames'
  BY <1>3 DEF TellingKept, ToldInv, ToldFrames
<1>5. ToldLines' /\ ToldStatus'
  BY <1>2, <1>3 DEF ToldInv, ToldLines, ToldStatus, StatusFlightKept
<1> QED
  BY <1>4, <1>5 DEF ToldInv

\* Every step keeps what was told, where the chat helper dispatches no RPC.
LEMMA ToldStep ==
  ASSUME ~NestedRpc, DetourInv, ToldInv, [Next]_vars
  PROVE  ToldInv'
<1>1. CASE UNCHANGED vars \/ ChatManagerCreated \/ ClockAdvances
  <2>1. UNCHANGED <<regVars, summary, stack, told>>
    BY <1>1 DEF vars, hsVars, lineVars, ChatManagerCreated, ClockAdvances
  <2> QED
    BY <2>1, TellingWithStack, ToldKept
<1>2. CASE Startup
  BY <1>2, ToldStartup
<1>3. CASE \E t \in Threads, token \in Tokens : ServerToken(t, token)
  BY <1>3, ToldToken
<1>4. ASSUME NEW t \in Threads,
             ClientTravel(t) \/ ReceivedPlayer(t) \/ OtherCall(t) \/ FrameStep(t) \/ ChatReturns(t)
      PROVE  ToldInv'
  <2>1. CASE FrameStep(t)
    BY <2>1, ToldUpdate, ToldNotices, ToldSummary, ToldFinishCall, ToldShow DEF FrameStep
  <2> QED
    BY <1>4, <2>1, ToldBoundary, ToldOtherCall, ToldChatReturns
<1> QED
  BY <1>1, <1>2, <1>3, <1>4 DEF Next

\* Where the chat helper dispatches no RPC, the status lines the user saw last
\* are the present ones whenever the game thread is outside the detour: a later
\* advertisement corrects the summary.
THEOREM StatusToldCurrent ==
  ASSUME ~NestedRpc
  PROVE  Spec => []StatusToldIsCurrent
<1>1. Init => ToldInv
  <2> SUFFICES ASSUME Init PROVE ToldInv
    OBVIOUS
  <2>1. ~summary.delivered
    BY NoSummaryTyped DEF Init
  <2>2. GameDepth = 0
    <3>1. stack[GameThread] = <<>> /\ Len(<<>>) = 0
      BY HandshakeConstants, EmptySeq DEF Init
    <3> QED
      BY <3>1 DEF GameDepth, Depth
  <2>3. \A d, k \in Nat : ~StatusAt(d, k)
    <3>1. Len(<<>>) = 0
      BY EmptySeq
    <3> QED
      BY <2>2, <3>1 DEF StatusAt, InFlight, Out
  <2> QED
    BY <2>1, <2>2, <2>3 DEF ToldInv, ToldFrames, ToldLines, ToldStatus
<1>2. ToldInv /\ DetourInv /\ [Next]_vars => ToldInv'
  BY ToldStep
<1>3. ToldInv => StatusToldIsCurrent
  <2> SUFFICES ASSUME ToldInv, summary.delivered, Depth(GameThread) = 0, NEW s \in Slots, entries[s].used
               PROVE  told[s] = Status(s)
    BY DEF StatusToldIsCurrent
  <2>1. GameDepth = 0 /\ Len(<<>>) = 0
    BY EmptySeq DEF GameDepth
  <2>2. \A d, k \in Nat : ~StatusAt(d, k)
    BY <2>1 DEF StatusAt, InFlight, Out
  <2>3. /\ told[s] = summary.reported[s] \/ \E d, k \in Nat : StatusAt(d, k) /\ LineAt(d, k).slot = s
        /\ summary.reported[s] = Status(s) \/ AboutToTell(s)
    BY DEF ToldInv, ToldStatus
  <2>4. told[s] = summary.reported[s]
    BY <2>2, <2>3
  <2>5. ~AboutToTell(s)
    BY <2>1 DEF AboutToTell
  <2> QED
    BY <2>3, <2>4, <2>5
<1>4. Spec => []DetourInv
  BY DetourInvariant
<1> QED
  BY <1>1, <1>2, <1>3, <1>4, PTL DEF Spec

===============================================================================
