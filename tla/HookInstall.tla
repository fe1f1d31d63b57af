----------------------------- MODULE HookInstall -----------------------------
(***************************************************************************)
(* Installing the patches (DllMain.cpp InstallHooks, HookBase.hpp, each    *)
(* patch's Install, and the Detours transaction they share).  A worker     *)
(* thread works through the stages; any stage may fail.  The game's own    *)
(* threads run all the while and call the functions being hooked: Detours  *)
(* stops only the threads it is told of, and it is told of the worker.     *)
(* The transaction itself is DetourTransaction.                            *)
(***************************************************************************)
EXTENDS DetourTransaction

CONSTANTS
  Patches,        \* Seq of Seq of hooks: what each patch's Install attaches, in order
  Handshake,      \* the ProcessEvent hook of the feature handshake
  Configured,     \* hooks whose bodies use a setting loaded by Initialize
  Debug,          \* GA_CLIENT_DEBUG
  HasFeatures,    \* the build registers at least one feature
  GameThreads,    \* threads of the game
  MaxDepth        \* bound: nested runs of one body inside a call

\* The hooks of all the patches' Installs, in order; no two have one function.
PatchHooks == FlattenSeq(Patches)

ASSUME InstallConstants ==
  /\ Hooks = {Handshake} \cup Range(PatchHooks)
  /\ PatchHooks \in Seq(Hooks \ {Handshake})
  /\ \A i, j \in DOMAIN PatchHooks : PatchHooks[i] = PatchHooks[j] => i = j
  /\ Configured \subseteq Hooks
  /\ Debug \in BOOLEAN /\ HasFeatures \in BOOLEAN
  /\ MaxDepth \in Nat \ {0}

VARIABLES
  stage,        \* what InstallHooks does next
  outcome,      \* what it logged as its result
  diagnostics,  \* logging and crash capture work
  settings,     \* the saved preferences are loaded
  registered,   \* RegisterClientFeatures succeeded
  calls         \* per game thread: the hooked function it calls

preparation == <<diagnostics, settings, registered>>

vars == <<stage, outcome, preparation, calls, transactionVars>>

Outside == [hook |-> Handshake, at |-> "outside", depth |-> 0]

-----------------------------------------------------------------------------
(***************************************************************************)
(* The worker prepares.                                                    *)
(***************************************************************************)
Stop(result) == stage' = "done" /\ outcome' = result

Continue(next) == stage' = next /\ UNCHANGED outcome

Diagnose ==
  /\ stage = "diagnostics"
  /\ \/ diagnostics' = TRUE /\ Continue("guard")
     \/ Stop("no diagnostics") /\ UNCHANGED diagnostics
  /\ UNCHANGED <<settings, registered, calls, transactionVars>>

Guard ==
  /\ stage = "guard"
  /\ Continue("settings") \/ Stop("unsupported")
  /\ UNCHANGED <<preparation, calls, transactionVars>>

\* Deliberate fault, used by no specification: the settings are left for later.
SkipSettings ==
  /\ stage = "settings"
  /\ Continue("register")
  /\ UNCHANGED <<preparation, calls, transactionVars>>

InitializeSettings ==
  /\ stage = "settings"
  /\ settings' = TRUE
  /\ Continue("register")
  /\ UNCHANGED <<diagnostics, registered, calls, transactionVars>>

RegisterFeatures ==
  /\ stage = "register"
  /\ \/ registered' = TRUE /\ Continue("begin")
     \/ HasFeatures /\ Stop("registration failed") /\ UNCHANGED registered
  /\ UNCHANGED <<diagnostics, settings, calls, transactionVars>>

-----------------------------------------------------------------------------
(***************************************************************************)
(* The worker attaches.                                                    *)
(***************************************************************************)
TransactionBegin ==
  /\ stage = "begin"
  /\ DetourTransactionBegin
  /\ IF pendingError' = "none" THEN Continue("attach") ELSE Stop("begin failed")
  /\ UNCHANGED <<preparation, calls>>

\* Each patch's Install and the chain of them stop at the first failure, so
\* together they attach one sequence; InstallIfNeeded ends it.
AttachOrder ==
  PatchHooks \o IF Debug \/ HasFeatures THEN <<Handshake>> ELSE <<>>

\* None of the first i hooks lies on this page.
UntouchedBefore(i, p) == \A j \in 1 .. i : p \notin Range(PagesOf[AttachOrder[j]])

\* VirtualProtect answers for all the pages of a function with the protection
\* of its first: where a hook is the first on one of its pages, it is the first
\* on its first page too.  No hooked function of the code spans two pages.
ASSUME PagesInOrder ==
  \A i \in 1 .. Len(AttachOrder) : \A p \in Range(PagesOf[AttachOrder[i]]) :
    UntouchedBefore(i - 1, p) => UntouchedBefore(i - 1, PagesOf[AttachOrder[i]][1])

Attaching == stage = "attach" /\ Len(operations) < Len(AttachOrder)

NextHook == AttachOrder[Len(operations) + 1]

\* The worker's own DetourUpdateThread cannot fail and suspends nobody.
Attach ==
  /\ Attaching
  /\ DetourAttach(NextHook)
  /\ UNCHANGED <<stage, outcome, preparation, calls>>

\* Deliberate fault, used by no specification: what is attached is committed.
KeepAttached ==
  /\ Attaching
  /\ stage' = "commit" /\ outcome' = "attach failed"
  /\ UNCHANGED <<preparation, calls, transactionVars>>

AttachFails ==
  /\ Attaching
  /\ AttachFindsNoMemory(NextHook) \/ AttachFreesTrampoline(NextHook)
  /\ Continue("abort")
  /\ UNCHANGED <<preparation, calls>>

Abort ==
  /\ stage = "abort"
  /\ \/ AbortOperation /\ UNCHANGED <<stage, outcome>>
     \/ EndTransaction /\ Stop("attach failed")
  /\ UNCHANGED <<preparation, calls>>

\* Nothing is left that could make DetourTransactionCommit fail.
CommitBegins ==
  /\ stage = "attach" /\ Len(operations) = Len(AttachOrder)
  /\ Continue(IF pendingError = "none" THEN "commit" ELSE "abort")
  /\ UNCHANGED <<preparation, calls, transactionVars>>

Commit ==
  /\ stage = "commit"
  /\ \/ (InsertJump \/ InsertPointer \/ FinishOperation) /\ UNCHANGED <<stage, outcome>>
     \/ EndTransaction /\ Stop(IF outcome = "" THEN "ready" ELSE outcome)
  /\ UNCHANGED <<preparation, calls>>

Installer ==
  \/ Diagnose \/ Guard \/ InitializeSettings \/ RegisterFeatures
  \/ TransactionBegin \/ Attach \/ AttachFails \/ Abort \/ CommitBegins \/ Commit

-----------------------------------------------------------------------------
(***************************************************************************)
(* The game.  Entering a function at its first instruction runs the body   *)
(* of the hook once the jump is there.                                     *)
(***************************************************************************)
installVars == <<stage, outcome, preparation, transactionVars>>

Enter(t, h, depth) ==
  calls' = [calls EXCEPT ![t] =
    IF h \in jump THEN [hook |-> h, at |-> "body", depth |-> depth + 1]
                  ELSE [hook |-> h, at |-> "original", depth |-> depth]]

GameCalls(t, h) ==
  /\ calls[t].at = "outside"
  /\ Enter(t, h, 0)
  /\ UNCHANGED installVars

\* A body calls m_original: the trampoline, or the function's first
\* instruction while the pointer still holds the fixed address.
CallOriginal(t) ==
  /\ calls[t].at = "body"
  /\ IF pointer[calls[t].hook] # 0
       THEN calls' = [calls EXCEPT ![t].at = "original"]
       ELSE calls[t].depth < MaxDepth /\ Enter(t, calls[t].hook, calls[t].depth)
  /\ UNCHANGED installVars

GameReturns(t) ==
  /\ calls[t].at = "original"
  /\ calls' = [calls EXCEPT ![t] = Outside]
  /\ UNCHANGED installVars

Init ==
  /\ stage = "diagnostics" /\ outcome = ""
  /\ diagnostics = FALSE /\ settings = FALSE /\ registered = FALSE
  /\ TransactionInit
  /\ calls = [t \in GameThreads |-> Outside]

Next ==
  \/ Installer
  \/ \E t \in GameThreads :
       (\E h \in Hooks : GameCalls(t, h)) \/ CallOriginal(t) \/ GameReturns(t)

Spec == Init /\ [][Next]_vars

-----------------------------------------------------------------------------
(***************************************************************************)
(* Properties.                                                             *)
(***************************************************************************)
\* "A single attach failure aborts the transaction": InstallHooks ends with
\* every hook of the build in place or with none, and what it reports agrees.
AllOrNothing ==
  stage = "done" =>
    IF outcome = "ready"
      THEN jump = Range(AttachOrder) /\ \A h \in jump : pointer[h] # 0
      ELSE jump = {}

\* No body ever runs, on any thread, before what it depends on: a supported
\* executable, working diagnostics, loaded preferences, and (for the
\* handshake, whose registry has no lock) the registrations.
BodiesRunPrepared ==
  \A t \in GameThreads :
    calls[t].at = "body" =>
      /\ diagnostics /\ outcome \in {"", "ready"}
      /\ calls[t].hook \in Configured => settings
      /\ calls[t].hook = Handshake => registered

\* "Attach all hooks atomically ... so the process never runs with an
\* unintended partial patch set" (DllMain.cpp): a game thread never calls a
\* hooked function while another hook of the set is missing.
NoPartialPatchSet ==
  \A t \in GameThreads : calls[t].at = "body" => jump = Range(AttachOrder)
=============================================================================
