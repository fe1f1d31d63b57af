--------------------------- MODULE DetourTransaction ---------------------------
(***************************************************************************)
(* The Detours transaction as the installer drives it (detours.cpp):       *)
(* begin, attach, then abort or commit, all on one thread; a function is   *)
(* never detached.  An attach takes a trampoline from the region's free    *)
(* list and makes the function's pages writable; every way out puts the    *)
(* pages and the region back.                                              *)
(***************************************************************************)
EXTENDS Naturals, SequencesExt

CONSTANTS
  Hooks,        \* the functions that are hooked
  PagesOf,      \* the pages the first bytes of each lie on: one, or two
  Trampolines   \* DETOUR_TRAMPOLINES_PER_REGION

Pages == UNION {Range(PagesOf[h]) : h \in Hooks}

ASSUME TransactionConstants ==
  /\ IsFiniteSet(Hooks)
  /\ PagesOf \in [Hooks -> Seq(Pages)] /\ \A h \in Hooks : PagesOf[h] # <<>>
  /\ Trampolines \in Nat /\ Trampolines > Cardinality(Hooks) + 2

VARIABLES
  busy,          \* s_nPendingThreadId is set
  pendingError,  \* s_nPendingError
  operations,    \* s_pPendingOperations; an attach adds at the head
  inserted,      \* how many of them the commit has written
  region,        \* the trampoline region: "none", "writable" or "runnable"
  free,          \* pRegion->pFree
  protect,       \* protection of each page of the game's code
  jump,          \* functions that start with a jump to their detour
  pointer        \* m_original of each hook: its trampoline, or 0 for the fixed address

transactionVars ==
  <<busy, pendingError, operations, inserted, region, free, protect, jump, pointer>>

TransactionInit ==
  /\ busy = FALSE /\ pendingError = "none" /\ operations = <<>> /\ inserted = 0
  /\ region = "none" /\ free = <<>>
  /\ protect = [p \in Pages |-> "execute_read"]
  /\ jump = {} /\ pointer = [h \in Hooks |-> 0]

\* detour_writable_trampoline_regions can only fail where there is a region.
DetourTransactionBegin ==
  /\ busy' = TRUE
  /\ operations' = <<>>
  /\ region' = IF region = "none" THEN region ELSE "writable"
  /\ pendingError' \in IF region = "none" THEN {"none"} ELSE {"none", "begin"}
  /\ UNCHANGED <<inserted, free, protect, jump, pointer>>

-----------------------------------------------------------------------------
(***************************************************************************)
(* DetourAttach.                                                           *)
(***************************************************************************)
\* A new region: its list leaves out the first two trampolines.
NewRegion == [i \in 1 .. Trampolines - 2 |-> i + 1]

\* detour_alloc_trampoline finds the list, making the region if there is none.
FreeList == IF region = "none" THEN NewRegion ELSE free

\* Deliberate fault, used by no specification: the operation is added last.
AttachLast(h) ==
  /\ busy /\ pendingError = "none"
  /\ operations' = operations \o <<[hook |-> h, trampoline |-> Head(FreeList),
                                   perm |-> protect[PagesOf[h][1]]]>>
  /\ free' = Tail(FreeList)
  /\ region' = "writable"
  /\ protect' = [p \in Pages |->
       IF p \in Range(PagesOf[h]) THEN "execute_readwrite" ELSE protect[p]]
  /\ UNCHANGED <<busy, pendingError, inserted, jump, pointer>>

\* VirtualProtect answers with the protection of the first page.
DetourAttach(h) ==
  /\ busy /\ pendingError = "none"
  /\ operations' = <<[hook |-> h, trampoline |-> Head(FreeList),
                      perm |-> protect[PagesOf[h][1]]]>> \o operations
  /\ free' = Tail(FreeList)
  /\ region' = "writable"
  /\ protect' = [p \in Pages |->
       IF p \in Range(PagesOf[h]) THEN "execute_readwrite" ELSE protect[p]]
  /\ UNCHANGED <<busy, pendingError, inserted, jump, pointer>>

\* No memory for the operation, or no room for a region near the function.
AttachFindsNoMemory(h) ==
  /\ busy /\ pendingError = "none"
  /\ pendingError' = "attach"
  /\ UNCHANGED <<busy, operations, inserted, region, free, protect, jump, pointer>>

\* Deliberate fault, used by no specification: the trampoline is not put back.
AttachKeepsTrampoline(h) ==
  /\ busy /\ pendingError = "none"
  /\ pendingError' = "attach"
  /\ region' = "writable" /\ free' = Tail(FreeList)
  /\ UNCHANGED <<busy, operations, inserted, protect, jump, pointer>>

\* The function cannot be moved, or its pages stay protected: what
\* detour_alloc_trampoline gave, detour_free_trampoline puts back.
AttachFreesTrampoline(h) ==
  /\ busy /\ pendingError = "none"
  /\ pendingError' = "attach"
  /\ region' = "writable" /\ free' = FreeList
  /\ UNCHANGED <<busy, operations, inserted, protect, jump, pointer>>

-----------------------------------------------------------------------------
(***************************************************************************)
(* DetourTransactionAbort and DetourTransactionCommit, from the head of    *)
(* the list, so that of two hooks on a page the first one attached, which  *)
(* saw the page's own protection, is restored last.                        *)
(***************************************************************************)
Restored(o) ==
  [p \in Pages |-> IF p \in Range(PagesOf[o.hook]) THEN o.perm ELSE protect[p]]

AbortOperation ==
  /\ operations # <<>>
  /\ protect' = Restored(Head(operations))
  /\ free' = <<Head(operations).trampoline>> \o free
  /\ operations' = Tail(operations)
  /\ UNCHANGED <<busy, pendingError, inserted, region, jump, pointer>>

\* Both end with detour_runnable_trampoline_regions.
EndTransaction ==
  /\ operations = <<>>
  /\ region' = IF region = "none" THEN region ELSE "runnable"
  /\ busy' = FALSE
  /\ UNCHANGED <<pendingError, operations, inserted, free, protect, jump, pointer>>

\* The operation the commit is at: first its jump, then its pointer.
Current == operations[inserted + 1]

InsertJump ==
  /\ inserted < Len(operations) /\ Current.hook \notin jump
  /\ jump' = jump \cup {Current.hook}
  /\ UNCHANGED <<busy, pendingError, operations, inserted, region, free, protect, pointer>>

InsertPointer ==
  /\ inserted < Len(operations) /\ Current.hook \in jump
  /\ pointer' = [pointer EXCEPT ![Current.hook] = Current.trampoline]
  /\ inserted' = inserted + 1
  /\ UNCHANGED <<busy, pendingError, operations, region, free, protect, jump>>

\* Once every operation is written their pages are restored.
FinishOperation ==
  /\ operations # <<>> /\ inserted >= Len(operations)
  /\ protect' = Restored(Head(operations))
  /\ operations' = Tail(operations)
  /\ UNCHANGED <<busy, pendingError, inserted, region, free, jump, pointer>>

-----------------------------------------------------------------------------
(***************************************************************************)
(* Properties.                                                             *)
(***************************************************************************)
InUse == {o.trampoline : o \in Range(operations)} \cup (Range(pointer) \ {0})

\* Every trampoline of the list is free or used, never both, and two hooks
\* never share one: a failed or aborted attach gives its trampoline back, and
\* no later attach overwrites one that a game thread may be running.
TrampolinesAccounted ==
  /\ InUse \cap Range(free) = {}
  /\ region # "none" => InUse \cup Range(free) = Range(NewRegion)
  /\ \A i, j \in DOMAIN operations :
       i # j => operations[i].trampoline # operations[j].trampoline
  /\ \A g, h \in Hooks : g # h /\ pointer[g] # 0 => pointer[g] # pointer[h]

\* Outside a transaction no page of the game's code and no trampoline can be
\* written, however many hooks share a page and however the last one ended.
PagesRestored ==
  ~busy => /\ \A p \in Pages : protect[p] = "execute_read"
           /\ region # "writable"

\* However a transaction ends, no trampoline is lost, shared or handed out
\* twice, and no page stays writable.
TransactionBalanced == TrampolinesAccounted /\ PagesRestored
=============================================================================
