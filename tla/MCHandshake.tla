----------------------------- MODULE MCHandshake -----------------------------
(***************************************************************************)
(* Both builds of the detour in one run: the program is built once, so the *)
(* build is chosen by the initial state and never changes.  Two features   *)
(* (one with a handler) fill a two-slot table.                             *)
(*                                                                         *)
(* The module itself is the debug build: tokens match or mismatch one      *)
(* feature, with two foreign releases, and the tick count wraps.  Release  *)
(* is the shipped build: tokens reach both features and an unknown one,    *)
(* two travel boundaries, and a chat helper that dispatches RPCs and       *)
(* travel before it returns.                                               *)
(***************************************************************************)
EXTENDS FeatureHandshake

CONSTANTS fov, text, handlerA, game, worker

VARIABLE build

MCNames == {fov, text}
MCHandlers == {handlerA}
BothThreads == {game, worker}

MCRegistrations ==
  { [featureId |-> 1, featureRelease |-> 7, name |-> fov, handler |-> handlerA],
    [featureId |-> 2, featureRelease |-> 3, name |-> text, handler |-> NoHandler] }

DebugTokens == {MakeToken(1, 7), MakeToken(1, 8), MakeToken(1, 9)}
ReleaseTokens == {MakeToken(1, 7), MakeToken(1, 8), MakeToken(2, 4), MakeToken(9, 1)}

Release == INSTANCE FeatureHandshake
  WITH Debug <- FALSE, NestedRpc <- TRUE, Tokens <- ReleaseTokens,
       MaxClock <- 0, MaxInstance <- 2

buildVars == <<vars, build>>

BuildInit ==
  \/ build = "debug" /\ Init
  \/ build = "release" /\ Release!Init

BuildNext ==
  \/ build = "debug" /\ UNCHANGED build /\ Next
  \/ build = "release" /\ UNCHANGED build /\ Release!Next

ReleaseStep(A) == build = "release" /\ UNCHANGED build /\ A

\* The game thread keeps calling ProcessEvent and running, the retail helper
\* returns, and the client finishes creating its chat manager.  Stated for the
\* release build, whose runs answer the liveness question.
Fairness ==
  /\ WF_buildVars(ReleaseStep(Release!ChatManagerCreated))
  /\ WF_buildVars(ReleaseStep(Release!OtherCall(GameThread)))
  /\ WF_buildVars(ReleaseStep(Release!FrameStep(GameThread)))
  /\ SF_buildVars(ReleaseStep(Release!ChatReturns(GameThread)))

BuildSpec == BuildInit /\ [][BuildNext]_buildVars /\ Fairness

\* A notice the release build queued is shown, unless a travel ends its
\* server instance first.
NoticeReachesUser ==
  \A s \in Slots, i \in 0 .. 2 :
    (build = "release" /\ Release!Waiting(s, i)) ~> Release!Settled(s, i)
=============================================================================
