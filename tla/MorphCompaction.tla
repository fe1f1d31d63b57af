---------------------------- MODULE MorphCompaction ----------------------------
(***************************************************************************)
(* The morph targets sent to the render thread are compacted in place,     *)
(* before the engine compares them and rebuilds the mesh                   *)
(* (MorphRebuildPerformancePatch.cpp).  An array of their own is sent with *)
(* every update of a mesh, and the original is called when the loop ends.  *)
(***************************************************************************)
EXTENDS Integers, Sequences, FiniteSets

CONSTANTS
  Morphs,     \* targets: [name, weight], weights in thousandths
  MaxMorphs   \* bound: targets of one mesh

VARIABLES
  incoming,   \* [data, count, weighted]: the render copy; no data, no array; -1
              \* stands for whatever number the field holds before
  sent,       \* the targets as the game configured them
  compaction  \* [step, read, write]: the indices of the loop

morphVars == <<incoming, sent, compaction>>

Threshold == 1   \* kEngineWeightThreshold

Contributes(morph) == morph.weight >= Threshold \/ morph.weight <= -Threshold

\* Deliberate fault, used by no specification: targets that lower a vertex are dropped.
Raises(morph) == morph.weight >= Threshold

Kept(morph) == Contributes(morph)

NothingToCompact ==
  /\ compaction.step = "called"
  /\ incoming.count <= 0 \/ incoming.data = <<>>
  /\ incoming' = [incoming EXCEPT !.weighted = 0]
  /\ compaction' = [compaction EXCEPT !.step = "original"]
  /\ UNCHANGED sent

BeginLoop ==
  /\ compaction.step = "called"
  /\ incoming.count > 0 /\ incoming.data # <<>>
  /\ compaction' = [step |-> "loop", read |-> 0, write |-> 0]
  /\ UNCHANGED <<incoming, sent>>

Reading == compaction.step = "loop" /\ compaction.read < incoming.count

SkipMorph ==
  /\ Reading /\ ~Kept(incoming.data[compaction.read + 1])
  /\ compaction' = [compaction EXCEPT !.read = @ + 1]
  /\ UNCHANGED <<incoming, sent>>

\* What is kept moves to the next place to write, which may be its own.
KeepMorph ==
  /\ Reading /\ Kept(incoming.data[compaction.read + 1])
  /\ incoming' = [incoming EXCEPT !.data =
                    [@ EXCEPT ![compaction.write + 1] = incoming.data[compaction.read + 1]]]
  /\ compaction' = [step |-> "loop", read |-> compaction.read + 1, write |-> compaction.write + 1]
  /\ UNCHANGED sent

EndLoop ==
  /\ compaction.step = "loop" /\ compaction.read >= incoming.count
  /\ incoming' = [data |-> incoming.data, count |-> compaction.write, weighted |-> compaction.write]
  /\ compaction' = [compaction EXCEPT !.step = "original"]
  /\ UNCHANGED sent

MorphInit ==
  /\ \E n \in 0..MaxMorphs : \E data \in [1..n -> Morphs] :
       incoming = [data |-> data, count |-> n, weighted |-> -1] /\ sent = data
  /\ compaction = [step |-> "called", read |-> 0, write |-> 0]

MorphNext == NothingToCompact \/ BeginLoop \/ SkipMorph \/ KeepMorph \/ EndLoop

MorphSpec == MorphInit /\ [][MorphNext]_morphVars

Contributing == {i \in DOMAIN sent : Contributes(sent[i])}
Place(i) == Cardinality({j \in Contributing : j <= i})

\* The engine sees every target that contributes, in the order configured,
\* and no other.
MorphsKept ==
  compaction.step = "original" =>
    /\ incoming.count = Cardinality(Contributing) /\ incoming.weighted = incoming.count
    /\ \A i \in Contributing : incoming.data[Place(i)] = sent[i]
=============================================================================
