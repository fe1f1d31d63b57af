--------------------------- MODULE HookInstallProofs ---------------------------
(***************************************************************************)
(* Proofs about the installer and the Detours transaction it drives, for   *)
(* every set of patches, hooks and pages, any number of game threads and   *)
(* every size of the trampoline region that holds the hooks.               *)
(***************************************************************************)
EXTENDS HookInstall, FiniteSetTheorems, SequenceTheorems, TLAPS

\* How many hooks the build attaches, and the hook attached i-th.
HookCount == Len(AttachOrder)
Hook(i) == AttachOrder[i]

\* The region's own trampolines are numbered from 2; the i-th attach gets the
\* i-th of them, whatever happened before.
TrampolineOf(i) == i + 1

Preparing == {"diagnostics", "guard", "settings", "register", "begin"}

\* The transaction is committing, or it was committed.
Committing == stage = "commit" \/ outcome = "ready"

\* How many trampolines are taken.
Taken == IF Committing THEN HookCount ELSE Len(operations)

-----------------------------------------------------------------------------
(***************************************************************************)
(* The parts of the inductive invariant.                                   *)
(***************************************************************************)
Operations == [hook : Hooks, trampoline : Nat, perm : {"execute_read", "execute_readwrite"}]

\* The pending operations are those of the first hooks, the latest first, and
\* the first one to touch a page remembers the page's own protection.
OperationsInv ==
  /\ operations \in Seq(Operations) /\ Len(operations) <= HookCount
  /\ \A j \in 1 .. Len(operations) :
       LET i == Len(operations) - j + 1 IN
       /\ operations[j].hook = Hook(i) /\ operations[j].trampoline = TrampolineOf(i)
       /\ UntouchedBefore(i - 1, PagesOf[Hook(i)][1]) => operations[j].perm = "execute_read"

\* A page no pending operation has touched has its own protection.
ProtectInv ==
  /\ protect \in [Pages -> {"execute_read", "execute_readwrite"}]
  /\ \A p \in Pages : UntouchedBefore(Len(operations), p) => protect[p] = "execute_read"

\* The free list is what is left of the region behind the trampolines taken.
FreeInv ==
  /\ region \in {"none", "writable", "runnable"}
  /\ IF region = "none" THEN free = <<>> /\ Taken = 0
     ELSE /\ free \in Seq(Nat) /\ Len(free) = Trampolines - 2 - Taken
          /\ \A i \in 1 .. Len(free) : free[i] = TrampolineOf(Taken + i)

\* What the commit has written: the jumps of the last hooks attached, and their
\* pointers; one jump may be a step ahead of its pointer.
InsertedInv ==
  /\ inserted \in 0 .. HookCount
  /\ ~Committing => inserted = 0
  /\ Committing /\ Len(operations) < HookCount => inserted = HookCount
  /\ jump \subseteq Hooks
  /\ \A h \in jump : \E i \in 1 .. HookCount : i >= HookCount - inserted /\ h = Hook(i) /\ Committing
  /\ \A i \in 1 .. HookCount : i > HookCount - inserted => Hook(i) \in jump
  /\ pointer \in [Hooks -> Nat]
  /\ \A i \in 1 .. HookCount : pointer[Hook(i)] = IF i > HookCount - inserted THEN TrampolineOf(i) ELSE 0
  /\ \A h \in Hooks : h \notin Range(AttachOrder) => pointer[h] = 0

\* Where the installer is, and what it has behind it.
StageInv ==
  /\ stage \in Preparing \cup {"attach", "abort", "commit", "done"}
  /\ stage # "done" => outcome = ""
  /\ busy <=> stage \in {"attach", "abort", "commit"}
  /\ ~busy => operations = <<>> /\ region # "writable"
  /\ stage \in Preparing => region = "none"
  /\ stage = "attach" => pendingError = "none"
  /\ outcome = "ready" => inserted = HookCount
  /\ stage \in {"guard", "settings", "register", "begin", "attach", "commit"} \/ outcome = "ready" => diagnostics
  /\ stage \in {"register", "begin", "attach", "commit"} \/ outcome = "ready" => settings
  /\ stage \in {"begin", "attach", "commit"} \/ outcome = "ready" => registered

\* A game thread runs a body only when its jump is there.
CallsInv ==
  /\ calls \in [GameThreads -> [hook : Hooks, at : {"outside", "body", "original"}, depth : 0 .. MaxDepth]]
  /\ \A t \in GameThreads : calls[t].at = "body" => calls[t].hook \in jump

InstallInv == OperationsInv /\ ProtectInv /\ FreeInv /\ InsertedInv /\ StageInv /\ CallsInv

-----------------------------------------------------------------------------
(***************************************************************************)
(* The order of the attaches: every hook at most once, and never so many   *)
(* that the region's list runs out.                                        *)
(***************************************************************************)
\* What HookBase attaches is a sequence of hooks, no hook twice.
LEMMA OrderIsSequence ==
  /\ AttachOrder \in Seq(Hooks)
  /\ HookCount \in Nat
  /\ \A i \in 1 .. HookCount : Hook(i) \in Hooks
  /\ \A i, j \in 1 .. HookCount : Hook(i) = Hook(j) => i = j
<1> DEFINE last == IF Debug \/ HasFeatures THEN <<Handshake>> ELSE <<>>
<1> DEFINE first == Hooks \ {Handshake}
<1>1. Handshake \in Hooks
  BY InstallConstants
<1>2. PatchHooks \in Seq(first) /\ PatchHooks \in Seq(Hooks)
  BY InstallConstants
<1>3. last \in Seq(Hooks) /\ Len(last) \in {0, 1} /\ (Len(last) = 1 => last[1] = Handshake)
  BY <1>1
<1>4. AttachOrder = PatchHooks \o last
  BY DEF AttachOrder
<1>5. /\ AttachOrder \in Seq(Hooks)
      /\ HookCount = Len(PatchHooks) + Len(last)
      /\ \A i \in 1 .. HookCount :
           Hook(i) = IF i <= Len(PatchHooks) THEN PatchHooks[i] ELSE last[i - Len(PatchHooks)]
  <2> HIDE DEF last
  <2> QED
    BY <1>2, <1>3, <1>4, ConcatProperties DEF HookCount, Hook
<1>6. /\ Len(PatchHooks) \in Nat
      /\ DOMAIN PatchHooks = 1 .. Len(PatchHooks)
      /\ \A i \in 1 .. Len(PatchHooks) : PatchHooks[i] \in first
  BY <1>2, LenProperties, ElementOfSeq
<1>7. \A i, j \in 1 .. Len(PatchHooks) : PatchHooks[i] = PatchHooks[j] => i = j
  BY <1>6, InstallConstants
<1>8. HookCount \in Nat
  <2> HIDE DEF last
  <2> QED
    BY <1>3, <1>5, <1>6
<1>9. \A i \in 1 .. HookCount : Hook(i) \in Hooks
  BY <1>5, ElementOfSeq DEF Hook, HookCount
<1>10. \A i \in 1 .. HookCount :
         \/ i \in 1 .. Len(PatchHooks) /\ Hook(i) = PatchHooks[i]
         \/ i = Len(PatchHooks) + 1 /\ Hook(i) = Handshake
  <2> HIDE DEF last
  <2> QED
    BY <1>3, <1>5, <1>6, <1>8
<1>11. \A i \in 1 .. Len(PatchHooks) : PatchHooks[i] # Handshake
  BY <1>6
<1>12. ASSUME NEW i \in 1 .. HookCount, NEW j \in 1 .. HookCount, Hook(i) = Hook(j)
       PROVE  i = j
  BY <1>7, <1>10, <1>11, <1>12
<1> QED
  BY <1>5, <1>8, <1>9, <1>12

\* The region holds a trampoline for every attach.
LEMMA RegionHoldsHooks == HookCount + 2 < Trampolines
<1> DEFINE at == [i \in 1 .. HookCount |-> Hook(i)]
<1>1. at \in Injection(1 .. HookCount, Hooks)
  BY OrderIsSequence DEF Injection, IsInjective
<1>2. Cardinality(1 .. HookCount) <= Cardinality(Hooks)
  BY <1>1, FS_Injection, TransactionConstants
<1>3. Cardinality(1 .. HookCount) = HookCount
  BY OrderIsSequence, FS_Interval
<1>4. Cardinality(Hooks) \in Nat
  BY TransactionConstants, FS_CardinalityType
<1> QED
  BY <1>2, <1>3, <1>4, OrderIsSequence, TransactionConstants

\* The pages of a hook: at least one, all pages of the game's code.
LEMMA PagesAreThere ==
  ASSUME NEW h \in Hooks
  PROVE  PagesOf[h][1] \in Range(PagesOf[h]) /\ Range(PagesOf[h]) \subseteq Pages
<1>1. PagesOf[h] \in Seq(Pages) /\ PagesOf[h] # <<>>
  BY TransactionConstants
<1>2. Range(PagesOf[h]) \subseteq Pages
  BY DEF Pages
<1>3. 1 \in DOMAIN PagesOf[h]
  BY <1>1, EmptySeq, LenProperties
<1> QED
  BY <1>2, <1>3 DEF Range

\* One more attach touches the pages of its function.
LEMMA UntouchedByNext ==
  ASSUME NEW n \in Nat, NEW p
  PROVE  UntouchedBefore(n + 1, p) <=> UntouchedBefore(n, p) /\ p \notin Range(PagesOf[Hook(n + 1)])
<1>1. \A j : j \in 1 .. n + 1 <=> j \in 1 .. n \/ j = n + 1
  OBVIOUS
<1> QED
  BY <1>1 DEF UntouchedBefore, Hook

-----------------------------------------------------------------------------
(***************************************************************************)
(* The initial state, and the steps outside the transaction.               *)
(***************************************************************************)
\* Before the worker starts, nothing is attached and no body runs.
LEMMA InstallInitial == Init => InstallInv
<1> SUFFICES ASSUME Init
             PROVE  InstallInv
  OBVIOUS
<1>1. HookCount \in Nat /\ Handshake \in Hooks
  BY OrderIsSequence, InstallConstants
<1>2. /\ operations = <<>> /\ inserted = 0 /\ jump = {} /\ region = "none" /\ free = <<>>
      /\ ~busy /\ stage = "diagnostics" /\ outcome = ""
  BY DEF Init, TransactionInit
<1>3. operations \in Seq(Operations) /\ Len(operations) = 0
  <2> HIDE DEF Operations
  <2> QED
    BY <1>2, EmptySeq
<1>4. ~Committing
  BY <1>2 DEF Committing
<1>5. OperationsInv
  <2>1. \A j \in 1 .. Len(operations) : FALSE
    BY <1>3
  <2> QED
    BY <1>1, <1>3, <2>1 DEF OperationsInv
<1>6. ProtectInv
  BY DEF ProtectInv, Init, TransactionInit
<1>7. FreeInv
  <2>1. Taken = 0
    BY <1>3, <1>4 DEF Taken
  <2> QED
    BY <1>2, <2>1 DEF FreeInv
<1>8. InsertedInv
  <2>0. inserted = 0
    BY <1>2
  <2>1. HookCount - inserted = HookCount /\ inserted \in 0 .. HookCount
    BY ONLY <1>1, <2>0
  <2>2. \A i \in 1 .. HookCount : ~(i > HookCount - inserted)
    BY ONLY <1>1, <2>1
  <2>3. pointer \in [Hooks -> Nat] /\ \A h \in Hooks : pointer[h] = 0
    BY DEF Init, TransactionInit
  <2>4. \A i \in 1 .. HookCount : pointer[Hook(i)] = 0
    BY <2>3, OrderIsSequence
  <2> QED
    BY ONLY <1>1, <1>2, <1>4, <2>1, <2>2, <2>3, <2>4 DEF InsertedInv
<1>9. StageInv
  BY <1>2 DEF StageInv, Preparing
<1>10. CallsInv
  <2>1. Outside \in [hook : Hooks, at : {"outside", "body", "original"}, depth : 0 .. MaxDepth]
        /\ Outside.at # "body"
    BY <1>1, InstallConstants DEF Outside
  <2> QED
    BY <2>1 DEF CallsInv, Init
<1> QED
  BY <1>5, <1>6, <1>7, <1>8, <1>9, <1>10 DEF InstallInv

\* A step that leaves the transaction alone and neither starts nor ends a
\* commit leaves alone what the invariant says of the transaction.
LEMMA TransactionFrame ==
  ASSUME InstallInv, UNCHANGED transactionVars, Committing' <=> Committing
  PROVE  OperationsInv' /\ ProtectInv' /\ FreeInv' /\ InsertedInv'
<1> USE DEF InstallInv, transactionVars
<1>1. OperationsInv'
  BY DEF OperationsInv
<1>2. ProtectInv'
  BY DEF ProtectInv
<1>3. FreeInv'
  <2>1. Taken' = Taken
    BY DEF Taken
  <2> QED
    BY <2>1 DEF FreeInv
<1>4. InsertedInv'
  BY DEF InsertedInv
<1> QED
  BY <1>1, <1>2, <1>3, <1>4

\* While the worker prepares, only its stage, its outcome and what it has
\* prepared change.
LEMMA PreparationStep ==
  ASSUME InstallInv, Diagnose \/ Guard \/ InitializeSettings \/ RegisterFeatures
  PROVE  InstallInv'
<1> USE DEF InstallInv, Diagnose, Guard, InitializeSettings, RegisterFeatures, Stop,
            Continue, preparation
<1>1. UNCHANGED transactionVars /\ UNCHANGED calls
  OBVIOUS
<1>2. StageInv
  OBVIOUS
<1>3. stage \in {"diagnostics", "guard", "settings", "register"}
  OBVIOUS
<1>4. outcome = "" /\ ~Committing /\ ~Committing'
  BY <1>2, <1>3 DEF StageInv, Preparing, Committing
<1>5. OperationsInv' /\ ProtectInv' /\ FreeInv' /\ InsertedInv'
  BY <1>1, <1>4, TransactionFrame
<1>6. StageInv'
  <2>1. UNCHANGED <<busy, pendingError, operations, inserted, region>>
    BY <1>1 DEF transactionVars
  <2> QED
    BY <1>2, <1>3, <1>4, <2>1 DEF StageInv, Preparing
<1>7. CallsInv'
  BY <1>1 DEF CallsInv, transactionVars
<1> QED
  BY <1>5, <1>6, <1>7

\* A call of the game enters a body only behind its jump.
LEMMA GameStep ==
  ASSUME InstallInv, NEW t \in GameThreads,
         (\E h \in Hooks : GameCalls(t, h)) \/ CallOriginal(t) \/ GameReturns(t)
  PROVE  InstallInv'
<1> USE DEF InstallInv
<1>1. UNCHANGED <<stage, outcome, preparation>> /\ UNCHANGED transactionVars
  BY DEF GameCalls, CallOriginal, GameReturns, installVars
<1>2. OperationsInv' /\ ProtectInv' /\ FreeInv' /\ InsertedInv'
  BY <1>1, TransactionFrame DEF Committing
<1>3. StageInv'
  BY <1>1 DEF StageInv, Preparing, preparation, transactionVars
<1>4. CallsInv'
  <2> DEFINE Call == [hook : Hooks, at : {"outside", "body", "original"}, depth : 0 .. MaxDepth]
  <2>1. calls \in [GameThreads -> Call] /\ calls[t] \in Call
    BY DEF CallsInv
  <2>2. jump' = jump
    BY <1>1 DEF transactionVars
  <2>3. PICK c \in Call : /\ calls' = [calls EXCEPT ![t] = c]
                          /\ c.at = "body" => c.hook \in jump
    <3>1. CASE \E h \in Hooks : GameCalls(t, h)
      <4>1. PICK h \in Hooks : Enter(t, h, 0)
        BY <3>1 DEF GameCalls
      <4>2. [hook |-> h, at |-> "body", depth |-> 0 + 1] \in Call
            /\ [hook |-> h, at |-> "original", depth |-> 0] \in Call
        BY InstallConstants
      <4> QED
        BY <4>1, <4>2 DEF Enter
    <3>2. CASE CallOriginal(t)
      <4>1. CASE pointer[calls[t].hook] # 0
        <5>1. calls' = [calls EXCEPT ![t] = [calls[t] EXCEPT !.at = "original"]]
          BY <2>1, <3>2, <4>1 DEF CallOriginal
        <5>2. [calls[t] EXCEPT !.at = "original"] \in Call
              /\ [calls[t] EXCEPT !.at = "original"].at # "body"
          BY <2>1
        <5> QED
          BY <5>1, <5>2
      <4>2. CASE pointer[calls[t].hook] = 0
        <5>1. calls[t].depth < MaxDepth /\ Enter(t, calls[t].hook, calls[t].depth)
          BY <3>2, <4>2 DEF CallOriginal
        <5>2. calls[t].hook \in Hooks /\ calls[t].depth + 1 \in 0 .. MaxDepth
              /\ calls[t].depth \in 0 .. MaxDepth
          BY <2>1, <5>1, InstallConstants
        <5>3. [hook |-> calls[t].hook, at |-> "body", depth |-> calls[t].depth + 1] \in Call
              /\ [hook |-> calls[t].hook, at |-> "original", depth |-> calls[t].depth] \in Call
          BY <5>2
        <5> QED
          BY <5>1, <5>3 DEF Enter
      <4> QED
        BY <4>1, <4>2
    <3>3. CASE GameReturns(t)
      <4>1. Outside \in Call /\ Outside.at # "body"
        BY InstallConstants DEF Outside
      <4> QED
        BY <3>3, <4>1 DEF GameReturns
    <3> QED
      BY <3>1, <3>2, <3>3
  <2>4. calls' \in [GameThreads -> Call]
    BY <2>1, <2>3
  <2>5. ASSUME NEW u \in GameThreads, calls'[u].at = "body"
        PROVE  calls'[u].hook \in jump'
    <3>1. CASE u = t
      BY <2>1, <2>2, <2>3, <2>5, <3>1
    <3>2. CASE u # t
      BY <2>1, <2>2, <2>3, <2>5, <3>2 DEF CallsInv
    <3> QED
      BY <3>1, <3>2
  <2> QED
    BY <2>4, <2>5 DEF CallsInv
<1> QED
  BY <1>2, <1>3, <1>4

-----------------------------------------------------------------------------
(***************************************************************************)
(* The transaction.                                                        *)
(***************************************************************************)
\* A step of the worker disturbs no call: jumps only appear.
LEMMA CallsFrame ==
  ASSUME CallsInv, UNCHANGED calls, jump \subseteq jump'
  PROVE  CallsInv'
BY DEF CallsInv

\* A step that writes none of the code's jumps and pointers.
LEMMA InsertedFrame ==
  ASSUME InsertedInv, UNCHANGED <<inserted, jump, pointer>>, ~Committing, ~Committing'
  PROVE  InsertedInv'
BY DEF InsertedInv

\* The worker begins the transaction before any region is there.
LEMMA BeginStep ==
  ASSUME InstallInv, TransactionBegin
  PROVE  InstallInv'
<1> USE DEF InstallInv
<1>1. /\ stage = "begin" /\ outcome = "" /\ region = "none" /\ operations = <<>>
      /\ ~Committing
  BY DEF TransactionBegin, StageInv, Preparing, Committing
<1>2. /\ region' = "none" /\ pendingError' = "none" /\ busy' = TRUE /\ operations' = operations
      /\ UNCHANGED <<inserted, free, protect, jump, pointer, diagnostics, settings, registered, calls>>
  BY <1>1 DEF TransactionBegin, DetourTransactionBegin, preparation
<1>3. stage' = "attach" /\ outcome' = ""
  BY <1>1, <1>2 DEF TransactionBegin, Continue
<1>4. ~Committing'
  BY <1>3 DEF Committing
<1>5. OperationsInv'
  BY <1>2 DEF OperationsInv
<1>6. ProtectInv'
  BY <1>2 DEF ProtectInv
<1>7. FreeInv'
  BY <1>1, <1>2, <1>4 DEF FreeInv, Taken
<1>8. InsertedInv'
  BY <1>1, <1>2, <1>4, InsertedFrame
<1>9. StageInv'
  BY <1>1, <1>2, <1>3 DEF StageInv, Preparing
<1>10. CallsInv'
  BY <1>2, CallsFrame
<1> QED
  BY <1>5, <1>6, <1>7, <1>8, <1>9, <1>10

\* While the worker attaches, the list of trampolines is the rest of the
\* region, and it is never empty when one more hook is to be attached.
LEMMA FreeListIsRest ==
  ASSUME InstallInv, ~Committing
  PROVE  /\ FreeList \in Seq(Nat) /\ Len(operations) \in Nat
         /\ Len(FreeList) = Trampolines - 2 - Len(operations)
         /\ \A i \in 1 .. Len(FreeList) : FreeList[i] = TrampolineOf(Len(operations) + i)
<1> USE DEF InstallInv
<1>1. Len(operations) \in Nat
  BY LenProperties DEF OperationsInv
<1>2. Taken = Len(operations)
  BY DEF Taken
<1>3. CASE region = "none"
  <2>1. Len(operations) = 0 /\ FreeList = NewRegion
    BY <1>2, <1>3 DEF FreeInv, FreeList
  <2>2. Trampolines - 2 \in Nat
    BY RegionHoldsHooks, OrderIsSequence, TransactionConstants
  <2>3. \A i \in 1 .. Trampolines - 2 : i + 1 \in Nat
    BY <2>2
  <2>4. NewRegion \in Seq(Nat) /\ Len(NewRegion) = Trampolines - 2
    BY <2>2, <2>3 DEF NewRegion
  <2>5. \A i \in 1 .. Len(NewRegion) : NewRegion[i] = TrampolineOf(0 + i)
    BY <2>2, <2>4 DEF NewRegion, TrampolineOf
  <2> QED
    BY <2>1, <2>2, <2>4, <2>5
<1>4. CASE region # "none"
  BY <1>1, <1>2, <1>4 DEF FreeInv, FreeList
<1> QED
  BY <1>1, <1>3, <1>4

\* An attach puts the operation of the next hook at the head of the list, with
\* the next trampoline of the region.
LEMMA AttachStep ==
  ASSUME InstallInv, Attach
  PROVE  InstallInv'
<1> DEFINE n == Len(operations)
<1> DEFINE first == PagesOf[NextHook][1]
<1> DEFINE o == [hook |-> NextHook, trampoline |-> Head(FreeList), perm |-> protect[first]]
<1> USE DEF InstallInv
<1>1. /\ stage = "attach" /\ n < HookCount /\ operations' = <<o>> \o operations
      /\ free' = Tail(FreeList) /\ region' = "writable"
      /\ protect' = [p \in Pages |->
           IF p \in Range(PagesOf[NextHook]) THEN "execute_readwrite" ELSE protect[p]]
      /\ UNCHANGED <<busy, pendingError, inserted, jump, pointer, stage, outcome, preparation, calls>>
  BY DEF Attach, Attaching, DetourAttach, HookCount
<1>2. outcome = "" /\ ~Committing /\ ~Committing' /\ busy
  BY <1>1 DEF StageInv, Committing
<1>3. n \in Nat /\ operations \in Seq(Operations) /\ n + 1 \in 1 .. HookCount
  BY <1>1, LenProperties, OrderIsSequence DEF OperationsInv
<1>4. NextHook = Hook(n + 1) /\ NextHook \in Hooks
  BY <1>3, OrderIsSequence DEF NextHook, Hook
<1>5. first \in Range(PagesOf[NextHook]) /\ Range(PagesOf[NextHook]) \subseteq Pages
  BY <1>4, PagesAreThere
<1>6. /\ FreeList \in Seq(Nat) /\ FreeList # <<>>
      /\ Len(FreeList) = Trampolines - 2 - n
      /\ \A i \in 1 .. Len(FreeList) : FreeList[i] = TrampolineOf(n + i)
  <2>1. Trampolines - 2 - n > 0
    BY <1>1, <1>3, RegionHoldsHooks, OrderIsSequence, TransactionConstants
  <2>2. /\ FreeList \in Seq(Nat)
        /\ Len(FreeList) = Trampolines - 2 - n
        /\ \A i \in 1 .. Len(FreeList) : FreeList[i] = TrampolineOf(n + i)
    BY <1>2, FreeListIsRest
  <2>3. Len(FreeList) # 0
    BY <2>1, <2>2
  <2>4. FreeList # <<>>
    BY <2>3
  <2> QED
    BY <2>2, <2>4
<1>7. /\ Head(FreeList) = TrampolineOf(n + 1) /\ Head(FreeList) \in Nat
      /\ Tail(FreeList) \in Seq(Nat) /\ Len(Tail(FreeList)) = Trampolines - 2 - (n + 1)
      /\ \A i \in 1 .. Len(Tail(FreeList)) : Tail(FreeList)[i] = TrampolineOf(n + 1 + i)
  <2>1. Trampolines - 2 - n \in Nat /\ Trampolines \in Nat /\ 1 \in 1 .. Len(FreeList)
    BY <1>1, <1>3, <1>6, RegionHoldsHooks, OrderIsSequence, TransactionConstants
  <2>2. Head(FreeList) = FreeList[1]
    OBVIOUS
  <2>3. Head(FreeList) = TrampolineOf(n + 1) /\ Head(FreeList) \in Nat
    BY <1>3, <1>6, <2>1, <2>2, HeadTailProperties
  <2>4. /\ Tail(FreeList) \in Seq(Nat) /\ Len(Tail(FreeList)) = Len(FreeList) - 1
        /\ \A i \in 1 .. Len(Tail(FreeList)) : Tail(FreeList)[i] = FreeList[i + 1]
    BY <1>6, HeadTailProperties
  <2>5. ASSUME NEW i \in 1 .. Len(Tail(FreeList))
        PROVE  Tail(FreeList)[i] = TrampolineOf(n + 1 + i)
    <3>1. i + 1 \in 1 .. Len(FreeList) /\ n + (i + 1) = n + 1 + i
      BY <1>3, <1>6, <2>1, <2>4
    <3> QED
      BY <1>6, <2>4, <3>1
  <2> QED
    BY <1>3, <1>6, <2>1, <2>3, <2>4, <2>5
<1>8. /\ o \in Operations /\ o.hook = Hook(n + 1) /\ o.trampoline = TrampolineOf(n + 1)
      /\ UntouchedBefore(n, first) => o.perm = "execute_read"
  <2>1. /\ first \in Pages /\ protect[first] \in {"execute_read", "execute_readwrite"}
        /\ UntouchedBefore(n, first) => protect[first] = "execute_read"
    BY <1>5 DEF ProtectInv
  <2> HIDE DEF first, n
  <2> QED
    BY <1>4, <1>7, <2>1 DEF Operations
<1>9. /\ operations' \in Seq(Operations) /\ Len(operations') = n + 1
      /\ operations'[1] = o
      /\ \A j \in 2 .. n + 1 : operations'[j] = operations[j - 1]
  <2> HIDE DEF o, Operations
  <2>1. <<o>> \in Seq(Operations) /\ Len(<<o>>) = 1 /\ <<o>>[1] = o
    BY <1>8
  <2>2. /\ operations' \in Seq(Operations) /\ Len(operations') = 1 + n
        /\ \A j \in 1 .. 1 + n : operations'[j] = IF j <= 1 THEN <<o>>[j] ELSE operations[j - 1]
    BY <1>1, <1>3, <2>1, ConcatProperties
  <2> QED
    BY <1>3, <2>1, <2>2
<1> HIDE DEF n, o, Operations
<1>10. OperationsInv'
  <2>1. ASSUME NEW j \in 1 .. n + 1
        PROVE  LET i == n + 1 - j + 1 IN
               /\ operations'[j].hook = Hook(i) /\ operations'[j].trampoline = TrampolineOf(i)
               /\ UntouchedBefore(i - 1, PagesOf[Hook(i)][1]) => operations'[j].perm = "execute_read"
    <3>1. CASE j = 1
      <4>1. n + 1 - j + 1 = n + 1 /\ n + 1 - j + 1 - 1 = n
        BY <1>3, <3>1
      <4>2. /\ o.hook = Hook(n + 1) /\ o.trampoline = TrampolineOf(n + 1)
            /\ UntouchedBefore(n, PagesOf[Hook(n + 1)][1]) => o.perm = "execute_read"
        BY <1>4, <1>8
      <4> DEFINE i == n + 1 - j + 1
      <4>3. i = n + 1 /\ i - 1 = n
        BY <1>3, <3>1
      <4>4. operations'[j] = o
        BY <1>9, <3>1, Zenon
      <4> HIDE DEF i
      <4>5. /\ operations'[j].hook = Hook(i) /\ operations'[j].trampoline = TrampolineOf(i)
            /\ UntouchedBefore(i - 1, PagesOf[Hook(i)][1]) => operations'[j].perm = "execute_read"
        BY <4>2, <4>3, <4>4
      <4> QED
        BY <4>5 DEF i
    <3>2. CASE j # 1
      <4>1. j - 1 \in 1 .. n /\ n - (j - 1) + 1 = n + 1 - j + 1 /\ operations'[j] = operations[j - 1]
        BY <1>3, <1>9, <3>2
      <4> DEFINE i == n - (j - 1) + 1
      <4>2. /\ operations[j - 1].hook = Hook(i) /\ operations[j - 1].trampoline = TrampolineOf(i)
            /\ UntouchedBefore(i - 1, PagesOf[Hook(i)][1]) => operations[j - 1].perm = "execute_read"
        BY <4>1 DEF OperationsInv, n
      <4> QED
        BY <4>1, <4>2
    <3> QED
      BY <3>1, <3>2
  <2> QED
    BY <1>3, <1>9, <2>1 DEF OperationsInv
<1>11. ProtectInv'
  <2>1. protect' \in [Pages -> {"execute_read", "execute_readwrite"}]
    BY <1>1 DEF ProtectInv
  <2>2. ASSUME NEW p \in Pages, UntouchedBefore(n + 1, p)
        PROVE  protect'[p] = "execute_read"
    <3>1. UntouchedBefore(n, p) /\ p \notin Range(PagesOf[NextHook])
      BY <1>3, <1>4, <2>2, UntouchedByNext
    <3> QED
      BY <1>1, <3>1 DEF ProtectInv, n
  <2> QED
    BY <1>9, <2>1, <2>2 DEF ProtectInv
<1>12. FreeInv'
  <2>1. Taken' = n + 1
    BY <1>2, <1>9 DEF Taken
  <2> QED
    BY <1>1, <1>7, <2>1 DEF FreeInv
<1>13. InsertedInv'
  BY <1>1, <1>2, InsertedFrame
<1>14. StageInv'
  BY <1>1, <1>2 DEF StageInv, Preparing, preparation
<1>15. CallsInv'
  BY <1>1, CallsFrame
<1> QED
  BY <1>10, <1>11, <1>12, <1>13, <1>14, <1>15

\* A failed attach leaves the operations and the list of trampolines as they
\* were, though it may have made the region.
LEMMA AttachFailsStep ==
  ASSUME InstallInv, AttachFails
  PROVE  InstallInv'
<1> USE DEF InstallInv
<1>1. /\ stage = "attach" /\ stage' = "abort" /\ outcome' = outcome
      /\ UNCHANGED <<busy, operations, inserted, protect, jump, pointer, preparation, calls>>
      /\ \/ UNCHANGED <<region, free>>
         \/ region' = "writable" /\ free' = FreeList
  BY DEF AttachFails, Attaching, AttachFindsNoMemory, AttachFreesTrampoline, Continue
<1>2. outcome = "" /\ ~Committing /\ ~Committing' /\ busy
  BY <1>1 DEF StageInv, Committing
<1>3. OperationsInv' /\ ProtectInv'
  BY <1>1 DEF OperationsInv, ProtectInv
<1>4. FreeInv'
  <2>1. Taken' = Len(operations) /\ Taken = Len(operations)
    BY <1>1, <1>2 DEF Taken
  <2>2. CASE UNCHANGED <<region, free>>
    BY <2>1, <2>2 DEF FreeInv
  <2>3. CASE region' = "writable" /\ free' = FreeList
    BY <1>2, <2>1, <2>3, FreeListIsRest DEF FreeInv
  <2> QED
    BY <1>1, <2>2, <2>3
<1>5. InsertedInv'
  BY <1>1, <1>2, InsertedFrame
<1>6. StageInv'
  BY <1>1, <1>2 DEF StageInv, Preparing, preparation
<1>7. CallsInv'
  BY <1>1, CallsFrame
<1> QED
  BY <1>3, <1>4, <1>5, <1>6, <1>7

\* Undoing or finishing the operation at the head puts back the protection the
\* pages had: a page it was the first to touch gets its own.
LEMMA HeadRestored ==
  ASSUME OperationsInv, ProtectInv, operations # <<>>,
         operations' = Tail(operations), protect' = Restored(Head(operations))
  PROVE  /\ OperationsInv' /\ ProtectInv'
         /\ Len(operations) \in 1 .. HookCount /\ Len(operations') = Len(operations) - 1
         /\ Head(operations).trampoline = TrampolineOf(Len(operations))
<1> DEFINE n == Len(operations)
<1> DEFINE o == Head(operations)
<1>1. /\ operations \in Seq(Operations) /\ n \in 1 .. HookCount /\ n - 1 \in Nat
      /\ HookCount \in Nat
  BY EmptySeq, OrderIsSequence DEF OperationsInv
<1>2. /\ o = operations[1] /\ o \in Operations
      /\ operations' \in Seq(Operations) /\ Len(operations') = n - 1
      /\ \A j \in 1 .. n - 1 : operations'[j] = operations[j + 1]
  BY <1>1, HeadTailProperties
<1>3. /\ o.hook = Hook(n) /\ o.trampoline = TrampolineOf(n)
      /\ UntouchedBefore(n - 1, PagesOf[Hook(n)][1]) => o.perm = "execute_read"
  <2>1. 1 \in 1 .. n /\ n - 1 + 1 = n
    BY <1>1
  <2> QED
    BY <1>2, <2>1 DEF OperationsInv
<1>4. Hook(n) \in Hooks
  BY <1>1, OrderIsSequence
<1> HIDE DEF o
<1>5. ASSUME NEW j \in 1 .. n - 1
      PROVE  LET i == n - 1 - j + 1 IN
             /\ operations'[j].hook = Hook(i) /\ operations'[j].trampoline = TrampolineOf(i)
             /\ UntouchedBefore(i - 1, PagesOf[Hook(i)][1]) => operations'[j].perm = "execute_read"
  <2> DEFINE k == n - (j + 1) + 1
  <2>1. j + 1 \in 1 .. n /\ k = n - 1 - j + 1
    BY <1>1
  <2>2. /\ operations[j + 1].hook = Hook(k) /\ operations[j + 1].trampoline = TrampolineOf(k)
        /\ UntouchedBefore(k - 1, PagesOf[Hook(k)][1]) => operations[j + 1].perm = "execute_read"
    BY <2>1 DEF OperationsInv
  <2>3. operations'[j] = operations[j + 1]
    BY <1>2
  <2> QED
    BY <2>1, <2>2, <2>3
<1>6. OperationsInv'
  BY <1>1, <1>2, <1>5 DEF OperationsInv
<1>7. ProtectInv'
  <2>1. o.perm \in {"execute_read", "execute_readwrite"}
    BY <1>2 DEF Operations
  <2>2. /\ protect' \in [Pages -> {"execute_read", "execute_readwrite"}]
        /\ \A p \in Pages : protect'[p] = IF p \in Range(PagesOf[Hook(n)]) THEN o.perm ELSE protect[p]
    BY <1>3, <2>1 DEF Restored, ProtectInv, o
  <2>3. ASSUME NEW p \in Pages, UntouchedBefore(n - 1, p)
        PROVE  protect'[p] = "execute_read"
    <3>1. CASE p \in Range(PagesOf[Hook(n)])
      <4>1. UntouchedBefore(n - 1, PagesOf[Hook(n)][1])
        BY <1>1, <2>3, <3>1, PagesInOrder DEF Hook, HookCount
      <4> QED
        BY <1>3, <2>2, <3>1, <4>1
    <3>2. CASE p \notin Range(PagesOf[Hook(n)])
      <4>1. n - 1 + 1 = n
        BY <1>1
      <4>2. UntouchedBefore(n - 1 + 1, p)
        BY <1>1, <2>3, <3>2, <4>1, UntouchedByNext
      <4> QED
        BY <2>2, <3>2, <4>1, <4>2 DEF ProtectInv
    <3> QED
      BY <3>1, <3>2
  <2> QED
    BY <1>2, <2>2, <2>3 DEF ProtectInv
<1> QED
  BY <1>1, <1>2, <1>3, <1>6, <1>7 DEF o

\* An abort gives back one trampoline after the other, the last one first.
LEMMA AbortStep ==
  ASSUME InstallInv, Abort
  PROVE  InstallInv'
<1> USE DEF InstallInv
<1>1. /\ stage = "abort" /\ outcome = "" /\ busy /\ ~Committing
      /\ UNCHANGED <<preparation, calls>>
  BY DEF Abort, StageInv, Committing
<1>2. CASE AbortOperation /\ UNCHANGED <<stage, outcome>>
  <2> DEFINE n == Len(operations)
  <2> DEFINE t == Head(operations).trampoline
  <2>1. /\ operations # <<>> /\ operations' = Tail(operations)
        /\ protect' = Restored(Head(operations)) /\ free' = <<t>> \o free
        /\ UNCHANGED <<stage, outcome, busy, pendingError, inserted, region, jump, pointer>>
    BY <1>2 DEF AbortOperation
  <2>2. ~Committing'
    BY <1>1, <2>1 DEF Committing
  <2>3. /\ OperationsInv' /\ ProtectInv' /\ n \in 1 .. HookCount /\ Len(operations') = n - 1
        /\ t = TrampolineOf(n)
    BY <2>1, HeadRestored
  <2>4. FreeInv'
    <3>1. Taken = n /\ Taken' = n - 1
      BY <1>1, <2>2, <2>3 DEF Taken
    <3>2. n \in Nat /\ n # 0 /\ t \in Nat /\ n <= HookCount /\ Trampolines \in Nat
          /\ HookCount \in Nat
      BY <2>3, OrderIsSequence, TransactionConstants DEF TrampolineOf
    <3> HIDE DEF n, t
    <3>3. /\ region # "none" /\ free \in Seq(Nat) /\ Len(free) = Trampolines - 2 - n
          /\ \A i \in 1 .. Len(free) : free[i] = TrampolineOf(n + i)
      BY <3>1, <3>2 DEF FreeInv
    <3>4. <<t>> \in Seq(Nat) /\ Len(<<t>>) = 1 /\ <<t>>[1] = t
      BY <3>2
    <3>5. /\ free' \in Seq(Nat) /\ Len(free') = 1 + Len(free)
          /\ \A i \in 1 .. 1 + Len(free) : free'[i] = IF i <= 1 THEN <<t>>[i] ELSE free[i - 1]
      BY <2>1, <3>3, <3>4, ConcatProperties
    <3>6. Len(free') = Trampolines - 2 - (n - 1)
      BY <3>2, <3>3, <3>5
    <3>7. ASSUME NEW i \in 1 .. Len(free')
          PROVE  free'[i] = TrampolineOf(n - 1 + i)
      <4>1. Len(free) \in Nat
        BY <3>3
      <4>2. CASE i = 1
        <5>1. n - 1 + i = n
          BY <3>2, <4>2
        <5>2. free'[i] = t
          BY <3>4, <3>5, <4>1, <4>2
        <5> QED
          BY <2>3, <5>1, <5>2
      <4>3. CASE i # 1
        <5>1. i - 1 \in 1 .. Len(free) /\ n + (i - 1) = n - 1 + i /\ free'[i] = free[i - 1]
          BY <3>2, <3>5, <4>1, <4>3
        <5>2. free[i - 1] = TrampolineOf(n + (i - 1))
          BY <3>3, <5>1
        <5> QED
          BY <5>1, <5>2
      <4> QED
        BY <4>2, <4>3
    <3> QED
      BY <2>1, <3>1, <3>3, <3>5, <3>6, <3>7 DEF FreeInv
  <2>5. InsertedInv'
    BY <1>1, <2>1, <2>2, InsertedFrame
  <2>6. StageInv'
    BY <1>1, <2>1 DEF StageInv, Preparing, preparation
  <2>7. CallsInv'
    BY <1>1, <2>1, CallsFrame
  <2> QED
    BY <2>3, <2>4, <2>5, <2>6, <2>7
<1>3. CASE EndTransaction /\ Stop("attach failed")
  <2>1. /\ operations = <<>> /\ ~busy' /\ stage' = "done" /\ outcome' = "attach failed"
        /\ region' = (IF region = "none" THEN region ELSE "runnable")
        /\ UNCHANGED <<pendingError, operations, inserted, free, protect, jump, pointer>>
    BY <1>3 DEF EndTransaction, Stop
  <2>2. ~Committing'
    BY <2>1 DEF Committing
  <2>3. OperationsInv' /\ ProtectInv'
    BY <2>1 DEF OperationsInv, ProtectInv
  <2>4. FreeInv'
    <3>1. Taken' = Taken
      BY <1>1, <2>1, <2>2 DEF Taken
    <3> QED
      BY <2>1, <3>1 DEF FreeInv
  <2>5. InsertedInv'
    BY <1>1, <2>1, <2>2, InsertedFrame
  <2>6. StageInv'
    BY <1>1, <2>1 DEF StageInv, Preparing, preparation, FreeInv
  <2>7. CallsInv'
    BY <1>1, <2>1, CallsFrame
  <2> QED
    BY <2>3, <2>4, <2>5, <2>6, <2>7
<1> QED
  BY <1>2, <1>3 DEF Abort

\* The commit begins when every hook is attached; nothing is written yet.
LEMMA CommitBeginsStep ==
  ASSUME InstallInv, CommitBegins
  PROVE  InstallInv'
<1> USE DEF InstallInv
<1>1. /\ stage = "attach" /\ Len(operations) = HookCount /\ outcome = "" /\ ~Committing
      /\ stage' = "commit" /\ outcome' = outcome
      /\ UNCHANGED <<preparation, calls>> /\ UNCHANGED transactionVars
  BY DEF CommitBegins, Continue, StageInv, Committing, HookCount
<1>2. Committing'
  BY <1>1 DEF Committing
<1>3. OperationsInv' /\ ProtectInv'
  BY <1>1 DEF OperationsInv, ProtectInv, transactionVars
<1>4. FreeInv'
  <2>1. Taken' = Taken
    BY <1>1, <1>2 DEF Taken
  <2> QED
    BY <1>1, <2>1 DEF FreeInv, transactionVars
<1>5. InsertedInv'
  <2>1. jump = {} /\ inserted = 0
    BY <1>1 DEF InsertedInv
  <2>2. UNCHANGED <<operations, inserted, jump, pointer>>
    BY <1>1 DEF transactionVars
  <2>3. ~(Len(operations') < HookCount)
    <3>1. Len(operations') = HookCount
      BY <1>1, <2>2
    <3> QED
      BY <3>1, OrderIsSequence
  <2> QED
    BY <2>1, <2>2, <2>3 DEF InsertedInv
<1>6. StageInv'
  BY <1>1 DEF StageInv, Preparing, preparation, transactionVars
<1>7. CallsInv'
  BY <1>1 DEF CallsInv, transactionVars
<1> QED
  BY <1>3, <1>4, <1>5, <1>6, <1>7

\* While something is left to insert, no operation is finished, and the
\* operation the commit is at is that of the hook before those inserted.
LEMMA CurrentIsNext ==
  ASSUME OperationsInv, InsertedInv, Committing, inserted < Len(operations)
  PROVE  /\ Len(operations) = HookCount /\ HookCount \in Nat /\ inserted \in Nat
         /\ HookCount - inserted \in 1 .. HookCount
         /\ Current.hook = Hook(HookCount - inserted)
         /\ Current.trampoline = TrampolineOf(HookCount - inserted)
<1>1. /\ HookCount \in Nat /\ Len(operations) \in Nat /\ Len(operations) <= HookCount
      /\ inserted \in Nat
  BY OrderIsSequence, LenProperties DEF OperationsInv, InsertedInv
<1>2. Len(operations) = HookCount
  BY <1>1 DEF InsertedInv
<1>3. /\ inserted + 1 \in 1 .. Len(operations) /\ HookCount - inserted \in 1 .. HookCount
      /\ Len(operations) - (inserted + 1) + 1 = HookCount - inserted
  BY <1>1, <1>2
<1> DEFINE i == Len(operations) - (inserted + 1) + 1
<1>4. Current.hook = Hook(i) /\ Current.trampoline = TrampolineOf(i)
  BY <1>3 DEF OperationsInv, Current
<1> QED
  BY <1>1, <1>2, <1>3, <1>4

\* Each operation gets its jump and then its pointer; after the last of them
\* the pages are restored and the transaction ends.
LEMMA CommitStep ==
  ASSUME InstallInv, Commit
  PROVE  InstallInv'
<1> USE DEF InstallInv
<1> DEFINE n == Len(operations)
<1> DEFINE c == HookCount - inserted
<1>1. /\ stage = "commit" /\ outcome = "" /\ busy /\ Committing
      /\ UNCHANGED <<preparation, calls>>
  BY DEF Commit, StageInv, Committing
<1>2. HookCount \in Nat /\ n \in Nat /\ inserted \in 0 .. HookCount
  BY OrderIsSequence, LenProperties DEF OperationsInv, InsertedInv
<1>3. CASE InsertJump /\ UNCHANGED <<stage, outcome>>
  <2>1. /\ inserted < n /\ jump' = jump \cup {Current.hook}
        /\ UNCHANGED <<stage, outcome, busy, pendingError, operations, inserted, region, free,
                       protect, pointer>>
    BY <1>3 DEF InsertJump
  <2>2. n = HookCount /\ c \in 1 .. HookCount /\ Current.hook = Hook(c)
    BY <1>1, <2>1, CurrentIsNext
  <2>3. Committing'
    BY <1>1, <2>1 DEF Committing
  <2>4. OperationsInv' /\ ProtectInv'
    BY <2>1 DEF OperationsInv, ProtectInv
  <2>5. FreeInv'
    BY <1>1, <2>1, <2>3 DEF FreeInv, Taken
  <2>6. InsertedInv'
    <3>1. jump' \subseteq Hooks
      BY <2>1, <2>2, OrderIsSequence DEF InsertedInv
    <3>2. ASSUME NEW h \in jump'
          PROVE  \E i \in 1 .. HookCount : i >= HookCount - inserted /\ h = Hook(i)
      <4>1. CASE h \in jump
        BY <4>1 DEF InsertedInv
      <4>2. CASE h = Hook(c)
        BY <1>2, <2>2, <4>2
      <4> QED
        BY <2>1, <2>2, <4>1, <4>2
    <3>3. \A i \in 1 .. HookCount : i > HookCount - inserted => Hook(i) \in jump'
      BY <2>1 DEF InsertedInv
    <3> HIDE DEF c, n
    <3> QED
      BY <1>1, <2>1, <2>3, <3>1, <3>2, <3>3 DEF InsertedInv
  <2>7. StageInv'
    BY <1>1, <2>1 DEF StageInv, Preparing, preparation
  <2>8. CallsInv'
    BY <1>1, <2>1, CallsFrame
  <2> QED
    BY <2>4, <2>5, <2>6, <2>7, <2>8
<1>4. CASE InsertPointer /\ UNCHANGED <<stage, outcome>>
  <2>1. /\ inserted < n /\ Current.hook \in jump /\ inserted' = inserted + 1
        /\ pointer' = [pointer EXCEPT ![Current.hook] = Current.trampoline]
        /\ UNCHANGED <<stage, outcome, busy, pendingError, operations, region, free, protect, jump>>
    BY <1>4 DEF InsertPointer
  <2>2. /\ n = HookCount /\ c \in 1 .. HookCount /\ Current.hook = Hook(c)
        /\ Current.trampoline = TrampolineOf(c) /\ Hook(c) \in Hooks
    BY <1>1, <2>1, CurrentIsNext, OrderIsSequence
  <2>3. Committing'
    BY <1>1, <2>1 DEF Committing
  <2>4. OperationsInv' /\ ProtectInv'
    BY <2>1 DEF OperationsInv, ProtectInv
  <2>5. FreeInv'
    BY <1>1, <2>1, <2>3 DEF FreeInv, Taken
  <2>6. /\ inserted' \in 0 .. HookCount /\ HookCount - inserted' = c - 1
        /\ \A i \in 1 .. HookCount : i > c - 1 <=> i > c \/ i = c
    BY <1>2, <2>1, <2>2
  <2>7. InsertedInv'
    <3>1. ASSUME NEW h \in jump'
          PROVE  \E i \in 1 .. HookCount : i >= c - 1 /\ h = Hook(i)
      <4>1. PICK i \in 1 .. HookCount : i >= c /\ h = Hook(i)
        BY <2>1 DEF InsertedInv
      <4>2. i >= c - 1
        BY <1>2, <4>1
      <4> QED
        BY <4>1, <4>2
    <3>2. ASSUME NEW i \in 1 .. HookCount, i > c - 1
          PROVE  Hook(i) \in jump'
      <4>1. CASE i = c
        BY <2>1, <2>2, <4>1
      <4>2. CASE i > c
        BY <2>1, <4>2 DEF InsertedInv
      <4> QED
        BY <2>6, <3>2, <4>1, <4>2
    <3>3. TrampolineOf(c) \in Nat
      BY <1>2, <2>2 DEF TrampolineOf
    <3>4. pointer' \in [Hooks -> Nat]
          /\ \A h \in Hooks : pointer'[h] = IF h = Hook(c) THEN TrampolineOf(c) ELSE pointer[h]
      BY <2>1, <2>2, <3>3 DEF InsertedInv
    <3>5. ASSUME NEW i \in 1 .. HookCount
          PROVE  pointer'[Hook(i)] = IF i > c - 1 THEN TrampolineOf(i) ELSE 0
      <4>1. Hook(i) \in Hooks /\ (Hook(i) = Hook(c) <=> i = c)
        BY <2>2, OrderIsSequence
      <4>2. pointer[Hook(i)] = IF i > c THEN TrampolineOf(i) ELSE 0
        BY DEF InsertedInv
      <4> HIDE DEF c
      <4> QED
        BY <2>6, <3>4, <4>1, <4>2
    <3>6. ASSUME NEW h \in Hooks, h \notin Range(AttachOrder)
          PROVE  pointer'[h] = 0
      <4>1. h # Hook(c)
        <5>1. c \in DOMAIN AttachOrder
          BY <2>2, OrderIsSequence, LenProperties DEF HookCount
        <5> QED
          BY <3>6, <5>1 DEF Hook, Range
      <4> QED
        BY <3>4, <3>6, <4>1 DEF InsertedInv
    <3>7. Committing' /\ ~(Len(operations') < HookCount) /\ jump' \subseteq Hooks
      BY <1>2, <2>1, <2>2, <2>3 DEF InsertedInv
    <3> HIDE DEF c, n
    <3> QED
      BY <2>6, <3>1, <3>2, <3>4, <3>5, <3>6, <3>7 DEF InsertedInv
  <2>8. StageInv'
    BY <1>1, <2>1 DEF StageInv, Preparing, preparation
  <2>9. CallsInv'
    BY <1>1, <2>1, CallsFrame
  <2> QED
    BY <2>4, <2>5, <2>7, <2>8, <2>9
<1>5. CASE FinishOperation /\ UNCHANGED <<stage, outcome>>
  <2>1. /\ operations # <<>> /\ inserted >= n /\ operations' = Tail(operations)
        /\ protect' = Restored(Head(operations))
        /\ UNCHANGED <<stage, outcome, busy, pendingError, inserted, region, free, jump, pointer>>
    BY <1>5 DEF FinishOperation
  <2>2. Committing'
    BY <1>1, <2>1 DEF Committing
  <2>3. OperationsInv' /\ ProtectInv' /\ n \in 1 .. HookCount /\ Len(operations') = n - 1
    BY <2>1, HeadRestored
  <2>4. FreeInv'
    BY <1>1, <2>1, <2>2 DEF FreeInv, Taken
  <2>5. inserted = HookCount
    <3>1. CASE n < HookCount
      BY <1>1, <3>1 DEF InsertedInv
    <3>2. CASE n = HookCount
      BY <1>2, <2>1, <3>2
    <3> QED
      BY <1>2, <2>3, <3>1, <3>2
  <2>6. InsertedInv'
    BY <1>1, <2>1, <2>2, <2>5 DEF InsertedInv
  <2>7. StageInv'
    BY <1>1, <2>1 DEF StageInv, Preparing, preparation
  <2>8. CallsInv'
    BY <1>1, <2>1, CallsFrame
  <2> QED
    BY <2>3, <2>4, <2>6, <2>7, <2>8
<1>6. CASE EndTransaction /\ Stop(IF outcome = "" THEN "ready" ELSE outcome)
  <2>1. /\ operations = <<>> /\ ~busy' /\ stage' = "done" /\ outcome' = "ready"
        /\ region' = (IF region = "none" THEN region ELSE "runnable")
        /\ UNCHANGED <<pendingError, operations, inserted, free, protect, jump, pointer>>
    BY <1>1, <1>6 DEF EndTransaction, Stop
  <2>2. Committing'
    BY <2>1 DEF Committing
  <2>3. OperationsInv' /\ ProtectInv'
    BY <2>1 DEF OperationsInv, ProtectInv
  <2>4. FreeInv'
    <3>1. Taken' = Taken
      BY <1>1, <2>2 DEF Taken
    <3> QED
      BY <2>1, <3>1 DEF FreeInv
  <2>5. inserted = HookCount
    <3>1. n = 0
      BY <2>1
    <3>2. CASE HookCount = 0
      BY <1>2, <3>2
    <3>3. CASE HookCount # 0
      <4>1. Len(operations) < HookCount
        BY <1>2, <3>1, <3>3
      <4> QED
        BY <1>1, <4>1 DEF InsertedInv
    <3> QED
      BY <3>2, <3>3
  <2>6. InsertedInv'
    BY <1>1, <2>1, <2>2 DEF InsertedInv
  <2>7. StageInv'
    BY <1>1, <2>1, <2>5 DEF StageInv, Preparing, preparation, FreeInv
  <2>8. CallsInv'
    BY <1>1, <2>1, CallsFrame
  <2> QED
    BY <2>3, <2>4, <2>6, <2>7, <2>8
<1> QED
  BY <1>3, <1>4, <1>5, <1>6 DEF Commit

-----------------------------------------------------------------------------
(***************************************************************************)
(* The theorems.                                                           *)
(***************************************************************************)
\* A step that changes nothing keeps the invariant.
LEMMA InstallStutters ==
  ASSUME InstallInv, UNCHANGED vars
  PROVE  InstallInv'
<1> USE DEF InstallInv, vars, preparation, transactionVars
<1>1. OperationsInv' /\ ProtectInv'
  BY DEF OperationsInv, ProtectInv
<1>2. FreeInv' /\ InsertedInv'
  BY DEF FreeInv, InsertedInv, Taken, Committing
<1>3. StageInv' /\ CallsInv'
  BY DEF StageInv, Preparing, CallsInv
<1> QED
  BY <1>1, <1>2, <1>3

\* Whatever the order in which the worker and the game's threads run, the
\* pending operations, the pages, the trampolines, the jumps and the pointers
\* are those of one prefix of the hooks, and every failure takes all of it back.
THEOREM InstallInvariant == Spec => []InstallInv
<1>1. ASSUME InstallInv, [Next]_vars
      PROVE  InstallInv'
  <2>1. CASE Diagnose \/ Guard \/ InitializeSettings \/ RegisterFeatures
    BY <1>1, <2>1, PreparationStep
  <2>2. CASE TransactionBegin
    BY <1>1, <2>2, BeginStep
  <2>3. CASE Attach
    BY <1>1, <2>3, AttachStep
  <2>4. CASE AttachFails
    BY <1>1, <2>4, AttachFailsStep
  <2>5. CASE Abort
    BY <1>1, <2>5, AbortStep
  <2>6. CASE CommitBegins
    BY <1>1, <2>6, CommitBeginsStep
  <2>7. CASE Commit
    BY <1>1, <2>7, CommitStep
  <2>8. ASSUME NEW t \in GameThreads,
               (\E h \in Hooks : GameCalls(t, h)) \/ CallOriginal(t) \/ GameReturns(t)
        PROVE  InstallInv'
    BY <1>1, <2>8, GameStep
  <2>9. CASE UNCHANGED vars
    BY <1>1, <2>9, InstallStutters
  <2> QED
    BY <1>1, <2>1, <2>2, <2>3, <2>4, <2>5, <2>6, <2>7, <2>8, <2>9 DEF Next, Installer
<1> QED
  BY InstallInitial, <1>1, PTL DEF Spec

\* "A single attach failure aborts the transaction": when InstallHooks is done,
\* every hook of the build has its jump and its pointer, or no function has one.
THEOREM InstallsAllOrNothing == Spec => []AllOrNothing
<1>1. ASSUME InstallInv PROVE AllOrNothing
  <2> USE <1>1 DEF InstallInv
  <2>1. CASE stage = "done" /\ outcome = "ready"
    <3>1. HookCount \in Nat /\ inserted = HookCount /\ Committing
      BY <2>1, OrderIsSequence DEF StageInv, Committing
    <3>2. \A i \in 1 .. HookCount : i > HookCount - inserted /\ TrampolineOf(i) # 0
      BY <3>1 DEF TrampolineOf
    <3>3. \A i \in 1 .. HookCount : Hook(i) \in jump /\ pointer[Hook(i)] # 0
      BY <3>2 DEF InsertedInv
    <3>4. Range(AttachOrder) = {Hook(i) : i \in 1 .. HookCount}
      BY OrderIsSequence, LenProperties DEF Range, Hook, HookCount
    <3>5. \A h \in jump : \E i \in 1 .. HookCount : h = Hook(i)
      BY DEF InsertedInv
    <3> QED
      BY <2>1, <3>3, <3>4, <3>5 DEF AllOrNothing
  <2>2. CASE stage = "done" /\ outcome # "ready"
    <3>1. ~Committing
      BY <2>2 DEF Committing
    <3> QED
      BY <2>2, <3>1 DEF InsertedInv, AllOrNothing
  <2> QED
    BY <2>1, <2>2 DEF AllOrNothing
<1> QED
  BY InstallInvariant, <1>1, PTL

\* A body runs, on whatever thread, only once logging, the guard, the saved
\* preferences and the registrations it may use are behind the worker.
THEOREM BodiesFindThingsPrepared == Spec => []BodiesRunPrepared
<1>1. ASSUME InstallInv PROVE BodiesRunPrepared
  <2> SUFFICES ASSUME NEW t \in GameThreads, calls[t].at = "body"
               PROVE  diagnostics /\ settings /\ registered /\ outcome \in {"", "ready"}
    BY DEF BodiesRunPrepared
  <2>1. Committing
    BY <1>1 DEF InstallInv, CallsInv, InsertedInv
  <2> QED
    BY <1>1, <2>1 DEF InstallInv, StageInv, Committing
<1> QED
  BY InstallInvariant, <1>1, PTL

\* However the transaction ends, every trampoline of the region is in use or
\* free and never both, no two hooks share one, and no page of the game's code
\* is left writable.
THEOREM TransactionsBalance == Spec => []TransactionBalanced
<1>1. ASSUME InstallInv PROVE PagesRestored
  <2> SUFFICES ASSUME ~busy
               PROVE  /\ \A p \in Pages : protect[p] = "execute_read"
                      /\ region # "writable"
    BY DEF PagesRestored
  <2>1. operations = <<>> /\ region # "writable"
    BY <1>1 DEF InstallInv, StageInv
  <2>2. Len(operations) = 0
    BY <2>1
  <2>3. \A p \in Pages : UntouchedBefore(Len(operations), p)
    BY <2>2 DEF UntouchedBefore
  <2> QED
    BY <1>1, <2>1, <2>3 DEF InstallInv, ProtectInv
<1>2. ASSUME InstallInv PROVE TrampolinesAccounted
  <2> USE <1>2 DEF InstallInv
  <2> DEFINE n == Len(operations)
  <2> DEFINE used == {TrampolineOf(i) : i \in 1 .. Taken}
  <2>1. /\ HookCount \in Nat /\ n \in 0 .. HookCount /\ Taken \in 0 .. HookCount
        /\ Trampolines \in Nat /\ HookCount + 2 < Trampolines
    BY OrderIsSequence, RegionHoldsHooks, LenProperties, TransactionConstants DEF OperationsInv, Taken
  <2>2. \A j \in DOMAIN operations : /\ j \in 1 .. n /\ n - j + 1 \in 1 .. n
                                     /\ operations[j].trampoline = TrampolineOf(n - j + 1)
    <3>1. DOMAIN operations = 1 .. n
      BY LenProperties DEF OperationsInv
    <3> QED
      BY <2>1, <3>1 DEF OperationsInv
  <2>3. \A h \in Hooks : pointer[h] # 0 =>
          \E i \in 1 .. HookCount : h = Hook(i) /\ pointer[h] = TrampolineOf(i) /\ Committing
    <3> SUFFICES ASSUME NEW h \in Hooks, pointer[h] # 0
                 PROVE  \E i \in 1 .. HookCount :
                          h = Hook(i) /\ pointer[h] = TrampolineOf(i) /\ Committing
      OBVIOUS
    <3>1. PICK i \in 1 .. HookCount : h = Hook(i)
      BY OrderIsSequence, LenProperties DEF InsertedInv, Range, Hook, HookCount
    <3>2. pointer[h] = TrampolineOf(i) /\ i > HookCount - inserted
      BY <3>1 DEF InsertedInv
    <3>3. Committing
      <4>1. CASE ~Committing
        BY <2>1, <3>2, <4>1 DEF InsertedInv
      <4> QED
        BY <4>1
    <3> QED
      BY <3>1, <3>2, <3>3
  <2>4. \A i, j \in 1 .. HookCount : TrampolineOf(i) = TrampolineOf(j) => i = j
    BY <2>1 DEF TrampolineOf
  <2>5. InUse = used
    <3>1. ASSUME NEW u \in InUse PROVE u \in used
      <4>1. CASE \E o \in Range(operations) : u = o.trampoline
        <5>1. PICK j \in DOMAIN operations : u = operations[j].trampoline
          BY <4>1 DEF Range
        <5>2. n - j + 1 \in 1 .. Taken /\ u = TrampolineOf(n - j + 1)
          BY <2>1, <2>2, <5>1 DEF Taken
        <5> QED
          BY <5>2
      <4>2. CASE u \in Range(pointer) \ {0}
        <5>1. PICK h \in Hooks : u = pointer[h] /\ u # 0
          BY <4>2 DEF Range, InsertedInv
        <5> QED
          BY <2>3, <5>1 DEF Taken
      <4> QED
        BY <4>1, <4>2 DEF InUse
    <3>2. ASSUME NEW i \in 1 .. Taken PROVE TrampolineOf(i) \in InUse
      <4>1. CASE i <= n
        <5>1. n - i + 1 \in 1 .. n /\ n - (n - i + 1) + 1 = i
          BY <2>1, <4>1
        <5>2. operations[n - i + 1].trampoline = TrampolineOf(i)
              /\ n - i + 1 \in DOMAIN operations
          BY <5>1, LenProperties DEF OperationsInv
        <5> QED
          BY <5>2 DEF InUse, Range
      <4>2. CASE i > n
        <5>1. Committing /\ n < HookCount /\ inserted = HookCount /\ i \in 1 .. HookCount
              /\ i > HookCount - inserted
          <6>1. Committing /\ i \in 1 .. HookCount /\ n < HookCount
            BY <2>1, <4>2 DEF Taken
          <6>2. inserted = HookCount
            BY <6>1 DEF InsertedInv
          <6> QED
            BY <2>1, <6>1, <6>2
        <5>2. pointer[Hook(i)] = TrampolineOf(i) /\ Hook(i) \in DOMAIN pointer
          BY <5>1, OrderIsSequence DEF InsertedInv
        <5>3. TrampolineOf(i) # 0
          BY <2>1, <5>1 DEF TrampolineOf
        <5> QED
          BY <5>2, <5>3 DEF InUse, Range
      <4> QED
        BY <2>1, <4>1, <4>2
    <3> QED
      BY <3>1, <3>2
  <2>6. region # "none" => InUse \cap Range(free) = {} /\ InUse \cup Range(free) = Range(NewRegion)
    <3> SUFFICES ASSUME region # "none"
                 PROVE  used \cap Range(free) = {} /\ used \cup Range(free) = Range(NewRegion)
      BY <2>5
    <3>1. /\ DOMAIN free = 1 .. Trampolines - 2 - Taken
          /\ \A i \in 1 .. Trampolines - 2 - Taken : free[i] = Taken + i + 1
      BY LenProperties DEF FreeInv, TrampolineOf
    <3>2. Range(free) = {Taken + i + 1 : i \in 1 .. Trampolines - 2 - Taken}
      BY <3>1 DEF Range
    <3>3. Range(NewRegion) = {i + 1 : i \in 1 .. Trampolines - 2}
      BY DEF Range, NewRegion
    <3>4. used = {i + 1 : i \in 1 .. Taken}
      BY DEF TrampolineOf
    <3>5. \A u \in used : u \notin Range(free) /\ u \in Range(NewRegion)
      <4> SUFFICES ASSUME NEW i \in 1 .. Taken
                   PROVE  i + 1 \notin Range(free) /\ i + 1 \in Range(NewRegion)
        BY <3>4
      <4>1. i \in 1 .. Trampolines - 2
        BY <2>1
      <4>2. \A k \in 1 .. Trampolines - 2 - Taken : i + 1 # Taken + k + 1
        BY <2>1
      <4> QED
        BY <3>2, <3>3, <4>1, <4>2
    <3>6. \A f \in Range(free) : f \in Range(NewRegion)
      <4> SUFFICES ASSUME NEW i \in 1 .. Trampolines - 2 - Taken
                   PROVE  Taken + i + 1 \in Range(NewRegion)
        BY <3>2
      <4>1. Taken + i \in 1 .. Trampolines - 2
        BY <2>1
      <4> QED
        BY <3>3, <4>1
    <3>7. \A r \in Range(NewRegion) : r \in used \/ r \in Range(free)
      <4> SUFFICES ASSUME NEW i \in 1 .. Trampolines - 2
                   PROVE  i + 1 \in used \/ i + 1 \in Range(free)
        BY <3>3
      <4>1. CASE i <= Taken
        BY <2>1, <3>4, <4>1
      <4>2. CASE i > Taken
        <5>1. i - Taken \in 1 .. Trampolines - 2 - Taken /\ Taken + (i - Taken) + 1 = i + 1
          BY <2>1, <4>2
        <5> QED
          BY <3>2, <5>1
      <4> QED
        BY <2>1, <4>1, <4>2
    <3> QED
      BY <3>5, <3>6, <3>7
  <2>7. region = "none" => InUse \cap Range(free) = {}
    BY DEF FreeInv, Range
  <2>8. ASSUME NEW i \in DOMAIN operations, NEW j \in DOMAIN operations, i # j
        PROVE  operations[i].trampoline # operations[j].trampoline
    BY <2>1, <2>2, <2>8 DEF TrampolineOf
  <2>9. ASSUME NEW g \in Hooks, NEW h \in Hooks, g # h, pointer[g] # 0
        PROVE  pointer[g] # pointer[h]
    BY <2>3, <2>4, <2>9
  <2> QED
    BY <2>6, <2>7, <2>8, <2>9 DEF TrampolinesAccounted
<1> QED
  BY InstallInvariant, <1>1, <1>2, PTL DEF TransactionBalanced

=============================================================================
