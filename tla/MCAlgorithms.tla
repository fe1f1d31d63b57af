----------------------------- MODULE MCAlgorithms -----------------------------
(***************************************************************************)
(* Parts that share no state, for model checking: the relocation of code   *)
(* by Detours, its search for a region, the small patches, and the release *)
(* script; one of them is chosen at the start.                             *)
(***************************************************************************)
EXTENDS MCDetourAttach, TrampolineRegion, SmallPatches, ReleasePublisher

VARIABLE part

algorithmVars == <<part, attachVars, regionVars, patchesVars, publisherVars>>

-----------------------------------------------------------------------------
(***************************************************************************)
(* The address space: free regions at both ends, around the system's own   *)
(* and next to the code, in which every hole is one of these.              *)
(***************************************************************************)
MCLayouts ==
  LET places == {4, 30, 48, 52, 60, 70, 122, 126}
  IN  {s \in SUBSET places : Cardinality(s) <= 3} \cup {{a \in 4..126 : a % 2 = 0 /\ a \notin {30, 70}}}

\* The functions above are such as the trampoline is made for.
ASSUME FunctionsAreOrdinary == OrdinaryCode

MCAngles == {-32769, 7, 40000}

MCMorphs == [name : {"a", "b"}, weight : {-500, 0, 1000}]

BareHanded == [role |-> "simulated", character |-> FALSE, inHand |-> 99,
               forms |-> [s \in Slots |-> [owner |-> "pawn", meshes |-> {}]]]

MCInit ==
  /\ part \in {"attach", "region", "aim", "morphs", "scope", "window", "publisher"}
  /\ AimInit
  /\ MorphInit /\ (part # "morphs" => incoming.count = 0)
  /\ ScopeInit /\ (part # "scope" => pawn = BareHanded)
  /\ WindowInit
  /\ IF part = "attach" THEN AttachInit
     ELSE /\ target = Body /\ distance = 70000 /\ step = "attached" /\ error = "none"
          /\ rbCode = [i \in Memory |-> Break] /\ cbTarget = 0 /\ cbCode = 0 /\ rAlign = <<>>
  /\ IF part = "region" THEN RegionInit
     ELSE /\ code = [a \in Code |-> [kind |-> "plain", to |-> a]] /\ asked \in Code
          /\ asked = CHOOSE a \in Code : TRUE
          /\ free = {} /\ search = [step |-> "idle"]
  /\ PublisherInit /\ (part # "publisher" => preferred = "oldest")

MCNext ==
  /\ UNCHANGED part
  /\ \/ part = "attach" /\ AttachNext /\ UNCHANGED <<regionVars, patchesVars, publisherVars>>
     \/ part = "region" /\ RegionNext /\ UNCHANGED <<attachVars, patchesVars, publisherVars>>
     \/ StepOf(part) /\ UNCHANGED <<attachVars, regionVars, publisherVars>>
     \/ part = "publisher" /\ PublisherNext /\ UNCHANGED <<attachVars, regionVars, patchesVars>>

MCSpec == MCInit /\ [][MCNext]_algorithmVars
=============================================================================
