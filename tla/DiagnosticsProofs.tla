--------------------------- MODULE DiagnosticsProofs ---------------------------
(***************************************************************************)
(* Proofs about the three parts of the diagnostics, which share no state:  *)
(* the publication of log directories, the crash rings and the crash       *)
(* handler, for every number of threads, directories, channels, rings,     *)
(* entries and lines, and every set of codes and addresses and budget.     *)
(***************************************************************************)
EXTENDS LogDirectory, CrashRings, CrashHandler,
  FiniteSetTheorems, SequenceTheorems, WellFoundedInduction, TLAPS

-----------------------------------------------------------------------------
(***************************************************************************)
(* Log directories: what is published or held is never written again.      *)
(***************************************************************************)
\* The entry a call in progress has reserved and not published yet.
Reserved == IF setter.pc \in {"copy", "copying", "publish"} THEN {setter.index} ELSE {}

\* The entries nobody writes any more.
Settled == (1 .. count) \ Reserved

\* A call works on the last entry, which nobody can have seen, and has copied
\* its path into it before it publishes it.
CallInOrder ==
  /\ Reserved # {} => setter.index = count /\ count # 0
  /\ setter.pc = "publish" => directories[setter.index] = setter.path

\* What is published, or held by a reader, is an entry nobody writes.
PublishedSettled ==
  /\ root <=> active # 0
  /\ active # 0 => active \in Settled /\ directories[active] = sequence

HeldSettled ==
  \A t \in Readers : reader[t].held # 0 => reader[t].held \in Settled

\* Only a log call waits for the lock.
LockersAreLoggers == \A t \in Readers : reader[t].pc = "lock" => t \in Loggers

PromisedTyped == promised \in [Readers -> Paths \cup {TornPath, None}]

DirectoryInv ==
  /\ DirectoryTypeOK /\ PromisedTyped /\ LockersAreLoggers
  /\ CallInOrder /\ PublishedSettled /\ HeldSettled /\ HeldPathsStay

USE DirectoryConstants

\* Nothing is reserved, published or held at the start.
LEMMA DirectoryInitial == DirectoryInit => DirectoryInv
<1> SUFFICES ASSUME DirectoryInit PROVE DirectoryInv
  OBVIOUS
<1>1. setter.pc = "idle" /\ Reserved = {}
  BY DEF DirectoryInit, NoCall, Reserved
<1>2. \A t \in Readers : reader[t].held = 0
  BY DEF DirectoryInit, Resting
<1>3. \A t \in Readers : reader[t].pc = "idle"
  BY DEF DirectoryInit, Resting
<1>4. setter \in [pc : {"idle", "create", "reserve", "copy", "copying", "publish", "disabled"},
                  path : Paths, index : 0 .. MaxDirectories]
  BY SMT DEF DirectoryInit, NoCall, Paths, Startup
<1>5. reader \in [Readers -> [pc : {"idle", "lock", "open", "write"}, held : 0 .. MaxDirectories]]
  BY SMT DEF DirectoryInit, Resting
<1>6. sequence \in Paths /\ count \in 0 .. MaxDirectories /\ active \in 0 .. MaxDirectories
  BY SMT DEF DirectoryInit, Paths
<1>7. DirectoryTypeOK /\ PromisedTyped
  BY <1>4, <1>5, <1>6 DEF DirectoryTypeOK, PromisedTyped, DirectoryInit
<1>8. QED
  BY <1>1, <1>2, <1>3, <1>7 DEF DirectoryInit, DirectoryInv, CallInOrder, PublishedSettled, HeldSettled,
    HeldPathsStay, LockersAreLoggers

\* Steps that leave the table, the published entry and the readers alone.
LEMMA CallStarts ==
  ASSUME DirectoryInv, Initialize \/ BeginInstance
  PROVE  DirectoryInv'
<1>1. PICK p \in Paths : setter' = [pc |-> "create", path |-> p, index |-> 0]
  <2>1. CASE Initialize
    <3>1. setter' = [pc |-> "create", path |-> Startup, index |-> 0]
      BY <2>1 DEF Initialize, NoCall
    <3>2. Startup \in Paths
      BY SMT DEF Startup, Paths
    <3>3. QED
      BY <3>1, <3>2
  <2>2. CASE BeginInstance
    <3>1. sequence + 1 \in Paths
      BY <2>2, SMT DEF BeginInstance, DirectoryInv, DirectoryTypeOK, Paths
    <3>2. setter' = [pc |-> "create", path |-> sequence + 1, index |-> 0]
      BY <2>2 DEF BeginInstance, NoCall
    <3>3. QED
      BY <3>1, <3>2
  <2>3. QED
    BY <2>1, <2>2
<1>2. /\ setter.pc = "idle"
      /\ UNCHANGED <<directories, count, active, root, sequence, logLock, reader, promised>>
  BY DEF Initialize, BeginInstance, SetterAt
<1>3. DirectoryTypeOK' /\ PromisedTyped'
  BY <1>1, <1>2, SMT DEF DirectoryInv, DirectoryTypeOK, PromisedTyped
<1>4. Reserved = {} /\ Reserved' = {} /\ setter'.pc = "create" /\ Settled' = Settled
  BY <1>1, <1>2 DEF Reserved, Settled
<1>5. QED
  BY <1>2, <1>3, <1>4 DEF DirectoryInv, CallInOrder, PublishedSettled, HeldSettled, HeldPathsStay,
    LockersAreLoggers

\* A call that fails before it reserves an entry changes nothing but itself.
LEMMA CallIsAbandoned ==
  ASSUME DirectoryInv, AbandonCall, Reserved = {}
  PROVE  DirectoryInv'
<1>1. DirectoryTypeOK' /\ PromisedTyped'
  BY SMT DEF DirectoryInv, DirectoryTypeOK, PromisedTyped, AbandonCall, NoCall, Paths, Startup
<1>2. Reserved' = {} /\ setter'.pc # "publish"
  BY SMT DEF Reserved, AbandonCall, NoCall
<1>3. QED
  BY <1>1, <1>2, SMT DEF DirectoryInv, CallInOrder, PublishedSettled, HeldSettled, HeldPathsStay,
    Settled, AbandonCall, LockersAreLoggers

\* Creating the directory tree, which may fail, comes before any entry is reserved.
LEMMA TreeIsCreated ==
  ASSUME DirectoryInv, CreateDirectoryTree
  PROVE  DirectoryInv'
<1>1. Reserved = {}
  BY SMT DEF Reserved, CreateDirectoryTree, SetterAt
<1>2. CASE AbandonCall
  BY <1>1, <1>2, CallIsAbandoned
<1>3. CASE setter' = [setter EXCEPT !.pc = "reserve"]
           /\ UNCHANGED <<directories, count, active, root, sequence, logLock, reader, promised>>
  <2>1. DirectoryTypeOK' /\ PromisedTyped'
    BY <1>3, SMT DEF DirectoryInv, DirectoryTypeOK, PromisedTyped
  <2>2. Reserved' = {} /\ setter'.pc # "publish"
    BY <1>3, SMT DEF Reserved, DirectoryInv, DirectoryTypeOK
  <2>3. QED
    BY <1>1, <1>3, <2>1, <2>2, SMT DEF DirectoryInv, CallInOrder, PublishedSettled, HeldSettled,
      HeldPathsStay, Settled, LockersAreLoggers
<1>4. QED
  BY <1>2, <1>3 DEF CreateDirectoryTree

\* The reserved entry is a new one: what was settled stays so.
LEMMA EntryIsReserved ==
  ASSUME DirectoryInv, ReserveDirectory
  PROVE  DirectoryInv'
<1>1. Reserved = {}
  BY SMT DEF Reserved, ReserveDirectory, SetterAt
<1>2. CASE AbandonCall
  BY <1>1, <1>2, CallIsAbandoned
<1>3. CASE /\ count < MaxDirectories
           /\ count' = count + 1
           /\ setter' = [setter EXCEPT !.pc = "copy", !.index = count + 1]
           /\ UNCHANGED <<directories, active, root, sequence, logLock, reader, promised>>
  <2> DEFINE call == [pc |-> "copy", path |-> setter.path, index |-> count + 1]
  <2>1. setter' = call /\ setter.path \in Paths /\ count + 1 \in 0 .. MaxDirectories
    <3>1. setter.path \in Paths /\ count + 1 \in 0 .. MaxDirectories
      BY <1>3, SMT DEF DirectoryInv, DirectoryTypeOK
    <3>2. setter = [pc |-> setter.pc, path |-> setter.path, index |-> setter.index]
      BY DEF DirectoryInv, DirectoryTypeOK
    <3>3. setter' = call
      BY <1>3, <3>2
    <3>4. QED
      BY <3>1, <3>3
  <2>2. DirectoryTypeOK' /\ PromisedTyped'
    BY <1>3, <2>1, SMT DEF DirectoryInv, DirectoryTypeOK, PromisedTyped
  <2>3. Reserved' = {count + 1} /\ setter'.index = count' /\ setter'.pc = "copy"
    BY <1>3, <2>1 DEF Reserved
  <2>4. count \in Nat /\ Settled' = Settled
    BY <1>1, <1>3, <2>3, SMT DEF Settled, DirectoryInv, DirectoryTypeOK
  <2>5. QED
    BY <1>3, <2>2, <2>3, <2>4, SMT DEF DirectoryInv, CallInOrder, PublishedSettled, HeldSettled,
      HeldPathsStay, LockersAreLoggers
<1>4. QED
  BY <1>2, <1>3 DEF ReserveDirectory

\* Only the reserved entry is written, in two steps.
LEMMA PathIsCopied ==
  ASSUME DirectoryInv, CopyPath
  PROVE  DirectoryInv'
<1>1. setter.pc \in {"copy", "copying"} /\ count' = count
  BY DEF CopyPath, SetterAt
<1>2. Reserved = {setter.index} /\ setter.index = count /\ count # 0 /\ count \in 0 .. MaxDirectories
  BY <1>1 DEF DirectoryInv, CallInOrder, Reserved, DirectoryTypeOK
<1>3. setter'.index = setter.index /\ setter'.path = setter.path /\ setter'.pc \in {"copying", "publish"}
  BY DEF DirectoryInv, DirectoryTypeOK, CopyPath
<1>4. Reserved' = Reserved /\ Settled' = Settled /\ setter.index \notin Settled
  BY <1>1, <1>2, <1>3 DEF Reserved, Settled
<1>5. setter.index \in Indices
  BY <1>2, SMT DEF Indices
<1>6. /\ setter.index = count /\ setter.index \in Indices /\ setter.index \notin Settled
      /\ setter'.index = setter.index /\ setter'.path = setter.path
      /\ setter'.pc \in {"copying", "publish"} /\ Reserved' = Reserved /\ Settled' = Settled
  BY <1>2, <1>3, <1>4, <1>5
<1>7. DirectoryTypeOK' /\ PromisedTyped'
  BY <1>6, SMT DEF DirectoryInv, DirectoryTypeOK, PromisedTyped, CopyPath
<1>8. \A i \in Settled : directories'[i] = directories[i]
  BY <1>6, SMT DEF CopyPath, DirectoryInv, DirectoryTypeOK, Settled, Indices
<1>9. CallInOrder'
  BY <1>6, SMT DEF CallInOrder, CopyPath, SetterAt, DirectoryInv, DirectoryTypeOK, Indices
<1>10. PublishedSettled' /\ HeldSettled' /\ HeldPathsStay'
  BY <1>6, <1>8, SMT DEF PublishedSettled, HeldSettled, HeldPathsStay, CopyPath, DirectoryInv
<1>11. LockersAreLoggers'
  BY DEF CopyPath, DirectoryInv, LockersAreLoggers
<1>12. QED
  BY <1>7, <1>9, <1>10, <1>11 DEF DirectoryInv

\* Publishing settles the reserved entry, with its whole path in it.
LEMMA EntryIsPublished ==
  ASSUME DirectoryInv, Publish
  PROVE  DirectoryInv'
<1>1. /\ setter.index = count /\ count \in Nat /\ count # 0 /\ Reserved = {count} /\ Reserved' = {}
      /\ directories[count] = setter.path /\ setter.path \in Paths
  BY SMT DEF DirectoryInv, DirectoryTypeOK, CallInOrder, Publish, SetterAt, Reserved, NoCall
<1>2. DirectoryTypeOK' /\ PromisedTyped'
  BY <1>1, SMT DEF DirectoryInv, DirectoryTypeOK, PromisedTyped, Publish, NoCall, Paths, Startup
<1>3. Settled' = Settled \cup {count} /\ count \in Settled'
  BY <1>1, SMT DEF Settled, Publish
<1>4. CallInOrder' /\ PublishedSettled'
  BY <1>1, <1>3, SMT DEF CallInOrder, PublishedSettled, Publish, NoCall, DirectoryInv
<1>5. HeldSettled' /\ HeldPathsStay'
  BY <1>3, SMT DEF HeldSettled, HeldPathsStay, Publish, DirectoryInv
<1>6. LockersAreLoggers'
  BY DEF Publish, DirectoryInv, LockersAreLoggers
<1>7. QED
  BY <1>2, <1>4, <1>5, <1>6 DEF DirectoryInv

\* A reader takes the published entry, which no call writes again.
LEMMA ReaderLoads ==
  ASSUME DirectoryInv, NEW t \in Readers, LoadDirectory(t)
  PROVE  DirectoryInv'
<1>1. DirectoryTypeOK'
  BY SMT DEF DirectoryInv, DirectoryTypeOK, LoadDirectory
<1>2. PromisedTyped'
  BY SMT DEF DirectoryInv, DirectoryTypeOK, PromisedTyped, PublishedSettled, Settled, LoadDirectory, Indices
<1>3. CallInOrder' /\ PublishedSettled' /\ Settled' = Settled
  BY SMT DEF DirectoryInv, CallInOrder, PublishedSettled, Settled, Reserved, LoadDirectory
<1>4. /\ active # 0 /\ active \in Settled /\ directories[active] \in Paths
      /\ directories' = directories
  BY SMT DEF DirectoryInv, DirectoryTypeOK, PublishedSettled, LoadDirectory
<1>5. ASSUME NEW u \in Readers
      PROVE  /\ reader'[u].held # 0 => reader'[u].held \in Settled
             /\ reader'[u].held # 0 =>
                  promised'[u] \in Paths /\ directories[reader'[u].held] = promised'[u]
  <2>1. CASE u = t
    BY <1>4, <2>1, SMT DEF LoadDirectory, DirectoryInv, DirectoryTypeOK, PromisedTyped
  <2>2. CASE u # t
    BY <2>2, SMT DEF LoadDirectory, DirectoryInv, DirectoryTypeOK, PromisedTyped, HeldSettled,
      HeldPathsStay
  <2>3. QED
    BY <2>1, <2>2
<1>6. LockersAreLoggers'
  BY DEF LoadDirectory, DirectoryInv, DirectoryTypeOK, LockersAreLoggers
<1>7. QED
  BY <1>1, <1>2, <1>3, <1>4, <1>5, <1>6 DEF DirectoryInv, HeldSettled, HeldPathsStay

\* The other steps of a reader leave what is published alone, and a reader
\* that has finished holds nothing.
LEMMA ReaderGoesOn ==
  ASSUME DirectoryInv, NEW t \in Readers, AcquireLock(t) \/ OpenFile(t) \/ FinishRead(t)
  PROVE  DirectoryInv'
<1>1. UNCHANGED <<directories, count, active, root, sequence, setter>>
  BY DEF AcquireLock, OpenFile, FinishRead
<1>2. DirectoryTypeOK'
  <2>1. logLock' \in Loggers \cup {None}
    <3>1. CASE AcquireLock(t)
      BY <3>1 DEF AcquireLock, ReaderAt, DirectoryInv, LockersAreLoggers
    <3>2. CASE OpenFile(t) \/ FinishRead(t)
      BY <3>2 DEF OpenFile, FinishRead, DirectoryInv, DirectoryTypeOK
    <3>3. QED
      BY <3>1, <3>2
  <2>2. reader' \in [Readers -> [pc : {"idle", "lock", "open", "write"}, held : 0 .. MaxDirectories]]
    BY SMT DEF AcquireLock, OpenFile, FinishRead, Resting, DirectoryInv, DirectoryTypeOK
  <2>3. QED
    BY <1>1, <2>1, <2>2 DEF DirectoryInv, DirectoryTypeOK
<1>3. PromisedTyped'
  BY SMT DEF AcquireLock, OpenFile, FinishRead, DirectoryInv, PromisedTyped
<1>4. CallInOrder' /\ PublishedSettled' /\ Settled' = Settled
  BY <1>1 DEF DirectoryInv, CallInOrder, PublishedSettled, Settled, Reserved
<1>5. ASSUME NEW u \in Readers, reader'[u].held # 0
      PROVE  reader'[u].held = reader[u].held /\ promised'[u] = promised[u]
  BY <1>5, SMT DEF AcquireLock, OpenFile, FinishRead, Resting, DirectoryInv, DirectoryTypeOK,
    PromisedTyped
<1>6. HeldSettled' /\ HeldPathsStay'
  BY <1>1, <1>4, <1>5 DEF DirectoryInv, HeldSettled, HeldPathsStay
<1>7. ASSUME NEW u \in Readers, reader'[u].pc = "lock" PROVE u \in Loggers
  BY <1>7, SMT DEF AcquireLock, OpenFile, FinishRead, Resting, DirectoryInv, DirectoryTypeOK,
    LockersAreLoggers
<1>8. QED
  BY <1>2, <1>3, <1>4, <1>6, <1>7 DEF DirectoryInv, LockersAreLoggers

\* Every step keeps the invariant, so every reachable state has it.
THEOREM DirectoriesSafe == DirectorySpec => []DirectoryInv
<1>1. ASSUME DirectoryInv, [DirectoryNext]_directoryVars PROVE DirectoryInv'
  <2>1. CASE Initialize \/ BeginInstance
    BY <1>1, <2>1, CallStarts
  <2>2. CASE CreateDirectoryTree
    BY <1>1, <2>2, TreeIsCreated
  <2>3. CASE ReserveDirectory
    BY <1>1, <2>3, EntryIsReserved
  <2>4. CASE CopyPath
    BY <1>1, <2>4, PathIsCopied
  <2>5. CASE Publish
    BY <1>1, <2>5, EntryIsPublished
  <2>6. CASE \E t \in Readers : LoadDirectory(t) \/ AcquireLock(t) \/ OpenFile(t) \/ FinishRead(t)
    BY <1>1, <2>6, ReaderLoads, ReaderGoesOn
  <2>7. CASE UNCHANGED directoryVars
    BY <1>1, <2>7 DEF directoryVars, DirectoryInv, DirectoryTypeOK, PromisedTyped, CallInOrder,
      PublishedSettled, HeldSettled, HeldPathsStay, Settled, Reserved, LockersAreLoggers
  <2>8. QED
    BY <1>1, <2>1, <2>2, <2>3, <2>4, <2>5, <2>6, <2>7 DEF DirectoryNext
<1>2. QED
  BY DirectoryInitial, <1>1, PTL DEF DirectorySpec

\* "Never overwrite an old state": the path behind a pointer that a log call
\* or the crash reporter has loaded stays whole and the same until the reader
\* is done, however many directories are published meanwhile.
THEOREM HeldPathsAreStable == DirectorySpec => []HeldPathsStay
<1>1. DirectoryInv => HeldPathsStay
  BY DEF DirectoryInv
<1>2. QED
  BY DirectoriesSafe, <1>1, PTL

\* Between calls the published directory is the current instance's, also
\* after a call that failed or found the storage exhausted.
THEOREM ActiveFollowsInstance == DirectorySpec => []ActiveIsCurrentInstance
<1>1. DirectoryInv => ActiveIsCurrentInstance
  BY DEF DirectoryInv, PublishedSettled, ActiveIsCurrentInstance
<1>2. QED
  BY DirectoriesSafe, <1>1, PTL

\* The table, the call in progress, the lock and the readers have their types.
THEOREM DirectoriesTyped == DirectorySpec => []DirectoryTypeOK
<1>1. DirectoryInv => DirectoryTypeOK
  BY DEF DirectoryInv
<1>2. QED
  BY DirectoriesSafe, <1>1, PTL

HIDE DirectoryConstants

-----------------------------------------------------------------------------
(***************************************************************************)
(* Crash rings: one ring for a channel, and a report shows its last lines. *)
(***************************************************************************)
LockedPcs == {"recheck", "name", "count", "unlock"}
AppendPcs == {"take", "open", "close"}

\* A thread is inside the lock exactly while it owns it.
LockOwned == \A t \in LogThreads : op[t].pc \in LockedPcs <=> ringLock = t

\* An append in progress knows its channel, and its ring once it has one.
OpsInOrder ==
  \A t \in LogThreads :
    /\ op[t].pc # "idle" => op[t].channel # Nothing
    /\ op[t].pc \in AppendPcs <=> op[t].ring # NoRing
    /\ op[t].pc = "unlock" => ringCount # 0

\* No published ring has the name of the ring being created, which is named
\* before it is counted.
NewRingIsNew ==
  \A t \in LogThreads :
    /\ op[t].pc \in {"name", "count"} =>
         /\ ringCount < MaxRings
         /\ \A r \in 1 .. ringCount : rings[r].name # op[t].channel
    /\ op[t].pc = "count" => rings[ringCount + 1].name = op[t].channel

RingsInv == RingsTypeOK /\ LockOwned /\ OpsInOrder /\ NewRingIsNew /\ OneRingPerChannel

USE RingConstants

\* The calls an operation record can describe.
Ops == [pc : {"idle", "find", "lock", "recheck", "name", "count", "unlock", "take", "open", "close"},
        channel : Channels \cup {Nothing}, ring : RingIds \cup {NoRing}, line : 0 .. MaxLines]

\* What changes when a thread goes on with another record.
LEMMA OpReplaced ==
  ASSUME op \in [LogThreads -> Ops], NEW t \in LogThreads, NEW call \in Ops,
         op' = [op EXCEPT ![t] = call]
  PROVE  /\ op' \in [LogThreads -> Ops] /\ op'[t] = call
         /\ \A u \in LogThreads : u # t => op'[u] = op[u]
OBVIOUS

\* What changes when a thread only goes to another point.
LEMMA OpMoved ==
  ASSUME op \in [LogThreads -> Ops], NEW t \in LogThreads,
         NEW pc \in {"idle", "find", "lock", "recheck", "name", "count",
                     "unlock", "take", "open", "close"},
         OpGoto(t, pc)
  PROVE  /\ op' \in [LogThreads -> Ops]
         /\ op'[t] = [pc |-> pc, channel |-> op[t].channel, ring |-> op[t].ring, line |-> op[t].line]
         /\ \A u \in LogThreads : u # t => op'[u] = op[u]
<1> DEFINE call == [pc |-> pc, channel |-> op[t].channel, ring |-> op[t].ring, line |-> op[t].line]
<1>1. op[t] \in Ops
  OBVIOUS
<1>2. call \in Ops
  BY <1>1, SMT DEF Ops
<1>3. op' = [op EXCEPT ![t] = [op[t] EXCEPT !.pc = pc]]
  BY DEF OpGoto
<1>4. [op[t] EXCEPT !.pc = pc] = call
  BY <1>1, SMT DEF Ops
<1>5. QED
  BY <1>2, <1>3, <1>4, OpReplaced

\* What changes when a thread has its ring.
LEMMA OpHasRing ==
  ASSUME op \in [LogThreads -> Ops], NEW t \in LogThreads, NEW r \in RingIds, UseRing(t, r)
  PROVE  /\ op' \in [LogThreads -> Ops]
         /\ op'[t] = [pc |-> "take", channel |-> op[t].channel, ring |-> r, line |-> op[t].line]
         /\ \A u \in LogThreads : u # t => op'[u] = op[u]
<1> DEFINE call == [pc |-> "take", channel |-> op[t].channel, ring |-> r, line |-> op[t].line]
<1>1. op[t] \in Ops
  OBVIOUS
<1>2. call \in Ops
  BY <1>1, SMT DEF Ops
<1>3. op' = [op EXCEPT ![t] = [[op[t] EXCEPT !.ring = r] EXCEPT !.pc = "take"]]
  BY DEF UseRing
<1> DEFINE found == [op[t] EXCEPT !.ring = r]
<1>4. found = [pc |-> op[t].pc, channel |-> op[t].channel, ring |-> r, line |-> op[t].line] /\ found \in Ops
  BY <1>1, SMT DEF Ops
<1> HIDE DEF found
<1>5. [found EXCEPT !.pc = "take"] = call
  BY <1>4, SMT DEF Ops
<1>6. QED
  BY <1>2, <1>3, <1>5, OpReplaced DEF found

\* The rings a ring record can describe.
Rings == [name : Channels \cup {Nothing}, next : 0 .. MaxLines,
          buffer : [Positions -> (-1 .. MaxLines) \cup {Nothing}]]

\* What changes when one ring is written.
LEMMA RingReplaced ==
  ASSUME rings \in [RingIds -> Rings], NEW n \in RingIds, NEW ring \in Rings,
         rings' = [rings EXCEPT ![n] = ring]
  PROVE  /\ rings' \in [RingIds -> Rings] /\ rings'[n] = ring
         /\ \A r \in RingIds : r # n => rings'[r] = rings[r]
OBVIOUS

(* No ring exists and no line was logged. *)
LEMMA RingsInitial == RingsInit => RingsInv
<1> SUFFICES ASSUME RingsInit PROVE RingsInv
  OBVIOUS
<1>1. rings \in [RingIds -> [name : Channels \cup {Nothing}, next : 0 .. MaxLines,
                            buffer : [Positions -> (-1 .. MaxLines) \cup {Nothing}]]]
  BY SMT DEF RingsInit, EmptyRing
<1>2. \A t \in LogThreads : op[t] = [pc |-> "idle", channel |-> Nothing, ring |-> 0, line |-> 0]
  BY DEF RingsInit, NoOp, NoRing
<1>3. op \in [LogThreads -> [pc : {"idle", "find", "lock", "recheck", "name", "count",
                               "unlock", "take", "open", "close"},
                         channel : Channels \cup {Nothing},
                         ring : RingIds \cup {NoRing}, line : 0 .. MaxLines]]
  BY SMT DEF RingsInit, NoOp, NoRing
<1>4. RingsTypeOK
  BY <1>1, <1>3 DEF RingsTypeOK, RingsInit
<1>5. LockOwned /\ OpsInOrder /\ NewRingIsNew /\ OneRingPerChannel
  BY <1>2, SMT DEF RingsInit, LockOwned, OpsInOrder, NewRingIsNew, OneRingPerChannel, LockedPcs,
     AppendPcs, NoRing
<1>6. QED
  BY <1>4, <1>5 DEF RingsInv

\* A set of natural numbers that is not empty has a least one.
LEMMA LeastNumber ==
  ASSUME NEW S \in SUBSET Nat, S # {}
  PROVE  \E n \in S : \A m \in S : n <= m
<1>1. PICK n \in S : \A m \in S : <<m, n>> \notin OpToRel(<, Nat)
  BY WFMin, NatLessThanWellFounded, Zenon
<1>2. \A m \in S : ~(m < n)
  BY <1>1, Zenon DEF OpToRel
<1>3. QED
  BY <1>2, SMT

\* The search returns a published ring of that name, or none when there is none.
LEMMA FoundIsNamed ==
  ASSUME RingsTypeOK, NEW channel
  PROVE  /\ Found(channel) = NoRing => \A r \in 1 .. ringCount : rings[r].name # channel
         /\ Found(channel) # NoRing => Found(channel) \in 1 .. ringCount
<1> DEFINE named == {r \in 1 .. ringCount : rings[r].name = channel}
<1>1. CASE named = {}
  BY <1>1 DEF Found
<1>2. CASE named # {}
  <2>1. named \in SUBSET Nat
    BY SMT DEF RingsTypeOK
  <2>2. \E r \in named : \A q \in named : r <= q
    BY <1>2, <2>1, LeastNumber
  <2>3. Found(channel) \in named
    BY <1>2, <2>2 DEF Found
  <2>4. QED
    BY <2>3, SMT DEF RingsTypeOK, NoRing
<1>3. QED
  BY <1>1, <1>2

\* A step that touches no ring, no count and no lock, and takes its thread
\* from one unlocked point to another.
LEMMA FrameStep ==
  ASSUME RingsInv, RingsTypeOK', NEW t \in LogThreads, UNCHANGED <<rings, ringCount, ringLock>>,
         op[t].pc \notin LockedPcs, op'[t].pc \notin LockedPcs,
         op'[t].pc # "idle" => op'[t].channel # Nothing,
         op'[t].pc \in AppendPcs <=> op'[t].ring # NoRing,
         \A u \in LogThreads : u # t => op'[u] = op[u]
  PROVE  RingsInv'
<1>1. LockOwned'
  BY DEF RingsInv, LockOwned
<1>2. OpsInOrder'
  BY DEF RingsInv, OpsInOrder, LockedPcs
<1>3. NewRingIsNew'
  BY DEF RingsInv, NewRingIsNew, LockedPcs
<1>4. OneRingPerChannel'
  BY DEF RingsInv, OneRingPerChannel
<1>5. QED
  BY <1>1, <1>2, <1>3, <1>4 DEF RingsInv

\* What changes when a thread begins to log a line.
LEMMA LogChanges ==
  ASSUME op \in [LogThreads -> Ops], NEW t \in LogThreads, NEW channel \in Channels, Log(t, channel)
  PROVE  /\ op' \in [LogThreads -> Ops]
         /\ op'[t] = [pc |-> "find", channel |-> channel, ring |-> NoRing, line |-> 0]
         /\ \A u \in LogThreads : u # t => op'[u] = op[u]
<1> DEFINE call == [pc |-> "find", channel |-> channel, ring |-> NoRing, line |-> 0]
           begun == [NoOp EXCEPT !.pc = "find"]
<1>1. NoOp \in Ops /\ call \in Ops
  BY SMT DEF NoOp, Ops
<1>2. begun = [pc |-> "find", channel |-> Nothing, ring |-> NoRing, line |-> 0] /\ begun \in Ops
  BY SMT DEF NoOp, Ops
<1>3. op' = [op EXCEPT ![t] = [begun EXCEPT !.channel = channel]]
  BY DEF Log
<1> HIDE DEF begun
<1>4. [begun EXCEPT !.channel = channel] = call
  BY <1>2, SMT DEF Ops
<1>5. QED
  BY <1>1, <1>3, <1>4, OpReplaced

(* A call that begins holds neither ring nor lock. *)
LEMMA LogStep ==
  ASSUME RingsInv, NEW t \in LogThreads, NEW channel \in Channels, Log(t, channel)
  PROVE  RingsInv'
<1>1. op[t].pc = "idle" /\ UNCHANGED <<rings, ringCount, ringLock>> /\ op \in [LogThreads -> Ops]
  BY DEF Log, OpAt, RingsInv, RingsTypeOK, Ops
<1>2. /\ op' \in [LogThreads -> Ops]
      /\ op'[t] = [pc |-> "find", channel |-> channel, ring |-> NoRing, line |-> 0]
      /\ \A u \in LogThreads : u # t => op'[u] = op[u]
  BY <1>1, LogChanges
<1>3. RingsTypeOK'
  BY <1>1, <1>2 DEF RingsInv, RingsTypeOK, Ops
<1>4. QED
  BY <1>1, <1>2, <1>3, FrameStep DEF LockedPcs, AppendPcs

(* The first search finds the ring of the channel or none, and changes no ring. *)
LEMMA FindStep ==
  ASSUME RingsInv, NEW t \in LogThreads, FindCrashRing(t)
  PROVE  RingsInv'
<1> DEFINE f == Found(op[t].channel)
<1>1. /\ op[t].pc = "find" /\ op[t].channel # Nothing /\ op[t].ring = NoRing
      /\ UNCHANGED <<rings, ringCount, ringLock>> /\ op \in [LogThreads -> Ops]
  BY DEF FindCrashRing, OpAt, RingsInv, OpsInOrder, AppendPcs, RingsTypeOK, Ops
<1>2. CASE f # NoRing
  <2>1. f \in RingIds
    BY <1>2, FoundIsNamed, SMT DEF RingsInv, RingsTypeOK, RingIds
  <2>2. UseRing(t, f)
    BY <1>2 DEF FindCrashRing
  <2>3. /\ op' \in [LogThreads -> Ops]
        /\ op'[t] = [pc |-> "take", channel |-> op[t].channel, ring |-> f, line |-> op[t].line]
        /\ \A u \in LogThreads : u # t => op'[u] = op[u]
    BY <1>1, <2>1, <2>2, OpHasRing
  <2>4. RingsTypeOK'
    BY <1>1, <2>3 DEF RingsInv, RingsTypeOK, Ops
  <2>5. QED
    BY <1>1, <1>2, <2>3, <2>4, FrameStep DEF LockedPcs, AppendPcs
<1>3. CASE f = NoRing
  <2>1. OpGoto(t, "lock")
    BY <1>3 DEF FindCrashRing
  <2>2. /\ op' \in [LogThreads -> Ops]
        /\ op'[t] = [pc |-> "lock", channel |-> op[t].channel, ring |-> op[t].ring, line |-> op[t].line]
        /\ \A u \in LogThreads : u # t => op'[u] = op[u]
    BY <1>1, <2>1, OpMoved
  <2>3. RingsTypeOK'
    BY <1>1, <2>2 DEF RingsInv, RingsTypeOK, Ops
  <2>4. QED
    BY <1>1, <2>2, <2>3, FrameStep DEF LockedPcs, AppendPcs
<1>4. QED
  BY <1>2, <1>3

\* The lock was free, so no other thread is inside.
LEMMA EnterStep ==
  ASSUME RingsInv, NEW t \in LogThreads, EnterLock(t)
  PROVE  RingsInv'
<1>1. /\ op[t].pc = "lock" /\ ringLock = Nothing /\ ringLock' = t /\ OpGoto(t, "recheck")
      /\ UNCHANGED <<rings, ringCount>> /\ op \in [LogThreads -> Ops]
  BY DEF EnterLock, OpAt, RingsInv, RingsTypeOK, Ops
<1>2. /\ op' \in [LogThreads -> Ops]
      /\ op'[t] = [pc |-> "recheck", channel |-> op[t].channel, ring |-> op[t].ring, line |-> op[t].line]
      /\ \A u \in LogThreads : u # t => op'[u] = op[u]
  BY <1>1, OpMoved
<1>3. RingsTypeOK'
  BY <1>1, <1>2 DEF RingsInv, RingsTypeOK, Ops
<1>4. LockOwned'
  BY <1>1, <1>2 DEF RingsInv, LockOwned, LockedPcs
<1>5. OpsInOrder'
  BY <1>1, <1>2 DEF RingsInv, OpsInOrder, AppendPcs
<1>6. NewRingIsNew'
  BY <1>1, <1>2 DEF RingsInv, NewRingIsNew
<1>7. OneRingPerChannel'
  BY <1>1 DEF RingsInv, OneRingPerChannel
<1>8. QED
  BY <1>3, <1>4, <1>5, <1>6, <1>7 DEF RingsInv

\* Giving the lock back leaves the rings as they are.
LEMMA ReleaseStep ==
  ASSUME RingsInv, RingsTypeOK', NEW t \in LogThreads, op[t].pc \in LockedPcs,
         ringLock' = Nothing, UNCHANGED <<rings, ringCount>>,
         op'[t].pc \notin LockedPcs, op'[t].pc # "idle" => op'[t].channel # Nothing,
         op'[t].pc \in AppendPcs <=> op'[t].ring # NoRing,
         \A u \in LogThreads : u # t => op'[u] = op[u]
  PROVE  RingsInv'
<1>1. LockOwned'
  BY DEF RingsInv, LockOwned
<1>2. OpsInOrder'
  BY DEF RingsInv, OpsInOrder, LockedPcs
<1>3. NewRingIsNew'
  BY DEF RingsInv, NewRingIsNew, LockedPcs
<1>4. OneRingPerChannel'
  BY DEF RingsInv, OneRingPerChannel
<1>5. QED
  BY <1>1, <1>2, <1>3, <1>4 DEF RingsInv

\* The second search, under the lock: only a channel without a ring goes on to
\* name one.
LEMMA RecheckStep ==
  ASSUME RingsInv, NEW t \in LogThreads, GetOrCreateCrashRing(t)
  PROVE  RingsInv'
<1> DEFINE f == Found(op[t].channel)
<1>1. /\ op[t].pc = "recheck" /\ op[t].channel # Nothing /\ op[t].ring = NoRing
      /\ UNCHANGED <<rings, ringCount>> /\ op \in [LogThreads -> Ops]
  BY DEF GetOrCreateCrashRing, OpAt, RingsInv, OpsInOrder, AppendPcs, RingsTypeOK, Ops
<1>2. CASE f # NoRing /\ UseRing(t, f) /\ ringLock' = Nothing
  <2>1. f \in RingIds
    BY <1>2, FoundIsNamed, SMT DEF RingsInv, RingsTypeOK, RingIds
  <2>2. /\ op' \in [LogThreads -> Ops]
        /\ op'[t] = [pc |-> "take", channel |-> op[t].channel, ring |-> f, line |-> op[t].line]
        /\ \A u \in LogThreads : u # t => op'[u] = op[u]
    BY <1>1, <1>2, <2>1, OpHasRing
  <2>3. RingsTypeOK'
    BY <1>1, <1>2, <2>2 DEF RingsInv, RingsTypeOK, Ops
  <2>4. QED
    BY <1>1, <1>2, <2>2, <2>3, ReleaseStep DEF LockedPcs, AppendPcs
<1>3. CASE ringCount >= MaxRings /\ op' = [op EXCEPT ![t] = NoOp] /\ ringLock' = Nothing
  <2>1. NoOp \in Ops
    BY SMT DEF NoOp, Ops
  <2>2. /\ op' \in [LogThreads -> Ops] /\ op'[t] = NoOp
        /\ \A u \in LogThreads : u # t => op'[u] = op[u]
    BY <1>1, <1>3, <2>1, OpReplaced
  <2>3. RingsTypeOK'
    BY <1>1, <1>3, <2>2 DEF RingsInv, RingsTypeOK, Ops
  <2>4. QED
    BY <1>1, <1>3, <2>2, <2>3, ReleaseStep DEF LockedPcs, AppendPcs, NoOp
<1>4. CASE f = NoRing /\ ringCount < MaxRings /\ OpGoto(t, "name") /\ UNCHANGED ringLock
  <2>1. /\ op' \in [LogThreads -> Ops]
        /\ op'[t] = [pc |-> "name", channel |-> op[t].channel, ring |-> op[t].ring, line |-> op[t].line]
        /\ \A u \in LogThreads : u # t => op'[u] = op[u]
    BY <1>1, <1>4, OpMoved
  <2>2. RingsTypeOK'
    BY <1>1, <1>4, <2>1 DEF RingsInv, RingsTypeOK, Ops
  <2>3. LockOwned'
    BY <1>1, <1>4, <2>1 DEF RingsInv, LockOwned, LockedPcs
  <2>4. OpsInOrder'
    BY <1>1, <2>1 DEF RingsInv, OpsInOrder, AppendPcs
  <2>5. \A r \in 1 .. ringCount : rings[r].name # op[t].channel
    BY <1>4, FoundIsNamed DEF RingsInv
  <2>6. NewRingIsNew'
    BY <1>1, <1>4, <2>1, <2>5 DEF RingsInv, NewRingIsNew
  <2>7. OneRingPerChannel'
    BY <1>1 DEF RingsInv, OneRingPerChannel
  <2>8. QED
    BY <2>2, <2>3, <2>4, <2>6, <2>7 DEF RingsInv
<1>5. QED
  BY <1>2, <1>3, <1>4 DEF GetOrCreateCrashRing

\* The owner of the lock is alone between the search and the count.
LEMMA OneCreator ==
  ASSUME LockOwned, NEW t \in LogThreads, NEW u \in LogThreads,
         op[t].pc \in LockedPcs, op[u].pc \in LockedPcs
  PROVE  t = u
BY DEF LockOwned

\* The next free ring gets the channel's name; its lines stay.
RingNamed(t) ==
  /\ rings' \in [RingIds -> Rings]
  /\ rings'[ringCount + 1] = [name |-> op[t].channel, next |-> 0, buffer |-> rings[ringCount + 1].buffer]
  /\ \A r \in RingIds : r # ringCount + 1 => rings'[r] = rings[r]

(* What naming a new ring changes: the next free ring, and nothing of the others. *)
LEMMA NameChanges ==
  ASSUME rings \in [RingIds -> Rings], NEW t \in LogThreads, op[t].channel \in Channels,
         ringCount \in 0 .. MaxRings, ringCount < MaxRings, NameRing(t)
  PROVE  RingNamed(t)
<1> DEFINE n     == ringCount + 1
           ring  == [name |-> op[t].channel, next |-> 0, buffer |-> rings[n].buffer]
           named == [rings[n] EXCEPT !.name = op[t].channel]
<1>1. n \in RingIds
  BY SMT DEF RingIds
<1>2. rings[n] \in Rings
  BY <1>1
<1>3. named = [name |-> op[t].channel, next |-> rings[n].next, buffer |-> rings[n].buffer]
      /\ named \in Rings
  BY <1>2, SMT DEF Rings
<1>4. rings' = [rings EXCEPT ![n] = [named EXCEPT !.next = 0]]
  BY DEF NameRing
<1> HIDE DEF named
<1>5. [named EXCEPT !.next = 0] = ring
  BY <1>3, SMT DEF Rings
<1>6. ring \in Rings
  BY <1>2, SMT DEF Rings
<1>7. rings' = [rings EXCEPT ![n] = ring]
  BY <1>4, <1>5
<1>8. QED
  BY <1>1, <1>6, <1>7, RingReplaced DEF RingNamed

(* The owner of the lock names a ring only for a channel that has none. *)
LEMMA NameStep ==
  ASSUME RingsInv, NEW t \in LogThreads, NameRing(t)
  PROVE  RingsInv'
<1>1. /\ op[t].pc = "name" /\ op[t].channel # Nothing /\ ringCount < MaxRings /\ OpGoto(t, "count")
      /\ UNCHANGED <<ringCount, ringLock>> /\ op \in [LogThreads -> Ops] /\ op[t].channel \in Channels
  BY DEF NameRing, OpAt, RingsInv, OpsInOrder, NewRingIsNew, RingsTypeOK, Ops
<1>2. /\ op' \in [LogThreads -> Ops]
      /\ op'[t] = [pc |-> "count", channel |-> op[t].channel, ring |-> op[t].ring, line |-> op[t].line]
      /\ \A u \in LogThreads : u # t => op'[u] = op[u]
  BY <1>1, OpMoved
<1>3. RingNamed(t)
  BY <1>1, NameChanges DEF RingsInv, RingsTypeOK, Rings
<1>4. RingsTypeOK'
  BY <1>1, <1>2, <1>3 DEF RingsInv, RingsTypeOK, Ops, Rings, RingNamed
<1>5. LockOwned'
  BY <1>1, <1>2 DEF RingsInv, LockOwned, LockedPcs
<1>6. OpsInOrder'
  BY <1>1, <1>2 DEF RingsInv, OpsInOrder, AppendPcs
<1>7. ringCount + 1 \in RingIds /\ \A r \in 1 .. ringCount : r \in RingIds /\ r # ringCount + 1
  BY <1>1, SMT DEF RingsInv, RingsTypeOK, RingIds
<1>8. \A r \in 1 .. ringCount : rings'[r].name = rings[r].name
  BY <1>3, <1>7 DEF RingNamed
<1>9. rings'[ringCount + 1].name = op[t].channel
  BY <1>3 DEF RingNamed
<1>10. NewRingIsNew'
  <2>1. \A u \in LogThreads : u # t => op[u].pc \notin LockedPcs
    BY <1>1, OneCreator DEF RingsInv, LockedPcs
  <2>2. \A u \in LogThreads : u # t => op'[u].pc \notin {"name", "count"}
    BY <1>2, <2>1 DEF LockedPcs
  <2>3. \A r \in 1 .. ringCount : rings[r].name # op[t].channel
    BY <1>1 DEF RingsInv, NewRingIsNew
  <2>4. QED
    BY <1>1, <1>2, <1>8, <1>9, <2>2, <2>3 DEF NewRingIsNew
<1>11. OneRingPerChannel'
  BY <1>1, <1>8 DEF RingsInv, OneRingPerChannel
<1>12. QED
  BY <1>4, <1>5, <1>6, <1>10, <1>11 DEF RingsInv

\* The ring is published after it was named: readers never see it nameless.
LEMMA PublishStep ==
  ASSUME RingsInv, NEW t \in LogThreads, PublishRing(t)
  PROVE  RingsInv'
<1>1. /\ op[t].pc = "count" /\ op[t].channel # Nothing /\ ringCount < MaxRings /\ OpGoto(t, "unlock")
      /\ UNCHANGED <<rings, ringLock>> /\ ringCount' = ringCount + 1 /\ op \in [LogThreads -> Ops]
      /\ ringCount \in Nat
  BY SMT DEF PublishRing, OpAt, RingsInv, OpsInOrder, NewRingIsNew, RingsTypeOK, Ops
<1>2. /\ op' \in [LogThreads -> Ops]
      /\ op'[t] = [pc |-> "unlock", channel |-> op[t].channel, ring |-> op[t].ring, line |-> op[t].line]
      /\ \A u \in LogThreads : u # t => op'[u] = op[u]
  BY <1>1, OpMoved
<1>3. ringCount' \in 0 .. MaxRings
  BY <1>1, SMT
<1>4. RingsTypeOK'
  BY <1>1, <1>2, <1>3 DEF RingsInv, RingsTypeOK, Ops
<1>5. LockOwned'
  BY <1>1, <1>2 DEF RingsInv, LockOwned, LockedPcs
<1>6. ringCount' # 0
  BY <1>1, SMT
<1>7. OpsInOrder'
  BY <1>1, <1>2, <1>6 DEF RingsInv, OpsInOrder, AppendPcs
<1>8. NewRingIsNew'
  <2>1. \A u \in LogThreads : u # t => op[u].pc \notin LockedPcs
    BY <1>1, OneCreator DEF RingsInv, LockedPcs
  <2>2. \A u \in LogThreads : op'[u].pc \notin {"name", "count"}
    BY <1>2, <2>1 DEF LockedPcs
  <2>3. QED
    BY <2>2 DEF NewRingIsNew
<1>9. OneRingPerChannel'
  <2>1. rings[ringCount + 1].name = op[t].channel /\ \A r \in 1 .. ringCount : rings[r].name # op[t].channel
    BY <1>1 DEF RingsInv, NewRingIsNew
  <2>2. \A r \in 1 .. ringCount + 1 : r \in 1 .. ringCount \/ r = ringCount + 1
    BY <1>1, SMT
  <2>3. QED
    BY <1>1, <2>1, <2>2 DEF RingsInv, OneRingPerChannel
<1>10. QED
  BY <1>4, <1>5, <1>7, <1>8, <1>9 DEF RingsInv

(* Leaving the lock gives it back, with the ring that was found or made. *)
LEMMA LeaveStep ==
  ASSUME RingsInv, NEW t \in LogThreads, LeaveLock(t)
  PROVE  RingsInv'
<1>1. /\ op[t].pc = "unlock" /\ op[t].channel # Nothing /\ ringCount # 0 /\ ringLock' = Nothing
      /\ UNCHANGED <<rings, ringCount>> /\ op \in [LogThreads -> Ops] /\ UseRing(t, ringCount)
  BY DEF LeaveLock, OpAt, RingsInv, OpsInOrder, RingsTypeOK, Ops
<1>2. ringCount \in RingIds
  BY <1>1, SMT DEF RingsInv, RingsTypeOK, RingIds
<1>3. /\ op' \in [LogThreads -> Ops]
      /\ op'[t] = [pc |-> "take", channel |-> op[t].channel, ring |-> ringCount, line |-> op[t].line]
      /\ \A u \in LogThreads : u # t => op'[u] = op[u]
  BY <1>1, <1>2, OpHasRing
<1>4. RingsTypeOK'
  BY <1>1, <1>3 DEF RingsInv, RingsTypeOK, Ops
<1>5. QED
  BY <1>1, <1>3, <1>4, ReleaseStep DEF LockedPcs, AppendPcs, NoRing
\* Taking a line number and writing a slot rename no ring.
LEMMA AppendFrame ==
  ASSUME RingsInv, RingsTypeOK', NEW t \in LogThreads, UNCHANGED <<ringCount, ringLock>>,
         op[t].pc \in AppendPcs, op'[t].pc \notin LockedPcs,
         op'[t].pc # "idle" => op'[t].channel # Nothing,
         op'[t].pc \in AppendPcs <=> op'[t].ring # NoRing,
         \A u \in LogThreads : u # t => op'[u] = op[u],
         \A r \in RingIds : rings'[r].name = rings[r].name
  PROVE  RingsInv'
<1>1. LockOwned'
  BY DEF RingsInv, LockOwned, LockedPcs, AppendPcs
<1>2. OpsInOrder'
  BY DEF RingsInv, OpsInOrder, LockedPcs, AppendPcs
<1>3. \A r \in 1 .. ringCount : r \in RingIds
  BY SMT DEF RingsInv, RingsTypeOK, RingIds
<1>4. NewRingIsNew'
  <2> SUFFICES ASSUME NEW u \in LogThreads, op'[u].pc \in {"name", "count"}
               PROVE  /\ ringCount < MaxRings
                      /\ \A r \in 1 .. ringCount : rings'[r].name # op'[u].channel
                      /\ op'[u].pc = "count" => rings'[ringCount + 1].name = op'[u].channel
    BY DEF NewRingIsNew
  <2>1. op'[u] = op[u]
    BY DEF LockedPcs
  <2>2. ringCount + 1 \in RingIds
    BY <2>1, SMT DEF RingsInv, NewRingIsNew, RingsTypeOK, RingIds
  <2>3. QED
    BY <1>3, <2>1, <2>2 DEF RingsInv, NewRingIsNew
<1>5. OneRingPerChannel'
  BY <1>3 DEF RingsInv, OneRingPerChannel
<1>6. QED
  BY <1>1, <1>2, <1>4, <1>5 DEF RingsInv

\* The thread has the ring's next number, and the ring goes on by one.
NumberTaken(t) ==
  LET r == op[t].ring IN
  /\ op' \in [LogThreads -> Ops] /\ rings' \in [RingIds -> Rings]
  /\ op'[t] = [pc |-> "open", channel |-> op[t].channel, ring |-> r, line |-> rings[r].next]
  /\ \A u \in LogThreads : u # t => op'[u] = op[u]
  /\ rings'[r] = [name |-> rings[r].name, next |-> rings[r].next + 1, buffer |-> rings[r].buffer]
  /\ \A q \in RingIds : q # r => rings'[q] = rings[q]

(* What taking an index changes: the counter of the ring, and nothing of its lines. *)
LEMMA TakeChanges ==
  ASSUME rings \in [RingIds -> Rings], op \in [LogThreads -> Ops], NEW t \in LogThreads,
         op[t].ring \in RingIds, TakeIndex(t)
  PROVE  NumberTaken(t)
<1> DEFINE r     == op[t].ring
           call  == [pc |-> "open", channel |-> op[t].channel, ring |-> r, line |-> rings[r].next]
           ring  == [name |-> rings[r].name, next |-> rings[r].next + 1, buffer |-> rings[r].buffer]
           taken == [op[t] EXCEPT !.line = rings[r].next]
<1>1. op[t] \in Ops /\ rings[r] \in Rings /\ rings[r].next < MaxLines
  BY DEF TakeIndex
<1>2. call \in Ops /\ ring \in Rings
  BY <1>1, SMT DEF Ops, Rings
<1>3. taken = [pc |-> op[t].pc, channel |-> op[t].channel, ring |-> r, line |-> rings[r].next]
      /\ taken \in Ops
  BY <1>1, SMT DEF Ops, Rings
<1>4. op' = [op EXCEPT ![t] = [taken EXCEPT !.pc = "open"]]
  BY DEF TakeIndex
<1> HIDE DEF taken
<1>5. [taken EXCEPT !.pc = "open"] = call
  BY <1>3, SMT DEF Ops
<1>6. op' = [op EXCEPT ![t] = call]
  BY <1>4, <1>5
<1>7. rings' = [rings EXCEPT ![r] = [rings[r] EXCEPT !.next = rings[r].next + 1]]
  BY <1>1 DEF TakeIndex
<1>8. [rings[r] EXCEPT !.next = rings[r].next + 1] = ring
  BY <1>1, SMT DEF Rings
<1>9. rings' = [rings EXCEPT ![r] = ring]
  BY <1>7, <1>8
<1> HIDE DEF call, ring
<1>10. /\ op' \in [LogThreads -> Ops] /\ op'[t] = call
       /\ \A u \in LogThreads : u # t => op'[u] = op[u]
  BY <1>2, <1>6, OpReplaced
<1>11. /\ rings' \in [RingIds -> Rings] /\ rings'[r] = ring
       /\ \A q \in RingIds : q # r => rings'[q] = rings[q]
  BY <1>2, <1>9, RingReplaced
<1>12. QED
  BY <1>10, <1>11 DEF NumberTaken, call, ring

(* Taking an index needs a ring that was counted. *)
LEMMA TakeStep ==
  ASSUME RingsInv, NEW t \in LogThreads, TakeIndex(t)
  PROVE  RingsInv'
<1>1. /\ op[t].pc = "take" /\ op[t].channel # Nothing /\ op[t].ring # NoRing
      /\ UNCHANGED <<ringCount, ringLock>> /\ op \in [LogThreads -> Ops] /\ rings \in [RingIds -> Rings]
  BY DEF TakeIndex, OpAt, RingsInv, OpsInOrder, AppendPcs, RingsTypeOK, Ops, Rings
<1>2. op[t].ring \in RingIds
  BY <1>1, SMT DEF Ops
<1>3. NumberTaken(t)
  BY <1>1, <1>2, TakeChanges
<1>4. RingsTypeOK'
  BY <1>1, <1>3 DEF RingsInv, RingsTypeOK, Ops, Rings, NumberTaken
<1>5. \A q \in RingIds : rings'[q].name = rings[q].name
  BY <1>3 DEF NumberTaken
<1>6. QED
  BY <1>1, <1>3, <1>4, <1>5, AppendFrame DEF NumberTaken, LockedPcs, AppendPcs

\* A slot of the thread's ring is written; the thread goes on or is done.
SlotWritten(t, text, pc) ==
  LET r == op[t].ring IN
  /\ op' \in [LogThreads -> Ops] /\ rings' \in [RingIds -> Rings]
  /\ op'[t] = IF pc = "idle" THEN NoOp
              ELSE [pc |-> pc, channel |-> op[t].channel, ring |-> r, line |-> op[t].line]
  /\ \A u \in LogThreads : u # t => op'[u] = op[u]
  /\ rings'[r] = [name |-> rings[r].name, next |-> rings[r].next,
                  buffer |-> [rings[r].buffer EXCEPT ![Position(op[t].line)] = text]]
  /\ \A q \in RingIds : q # r => rings'[q] = rings[q]

(* What writing a line changes: one slot of the ring it was taken from. *)
LEMMA SlotChanges ==
  ASSUME rings \in [RingIds -> Rings], op \in [LogThreads -> Ops], NEW t \in LogThreads,
         op[t].ring \in RingIds, NEW text \in -1 .. MaxLines, NEW pc \in {"close", "idle"},
         WriteSlot(t, text, pc)
  PROVE  SlotWritten(t, text, pc)
<1> DEFINE r      == op[t].ring
           p      == Position(op[t].line)
           call   == IF pc = "idle" THEN NoOp
                     ELSE [pc |-> pc, channel |-> op[t].channel, ring |-> r, line |-> op[t].line]
           buffer == [rings[r].buffer EXCEPT ![p] = text]
           ring   == [name |-> rings[r].name, next |-> rings[r].next, buffer |-> buffer]
<1>1. op[t] \in Ops /\ rings[r] \in Rings
  OBVIOUS
<1>2. call \in Ops
  BY <1>1, SMT DEF Ops, NoOp
<1>3. buffer \in [Positions -> (-1 .. MaxLines) \cup {Nothing}]
  BY <1>1 DEF Rings
<1>4. ring \in Rings
  BY <1>1, <1>3 DEF Rings
<1>5. op' = [op EXCEPT ![t] = call]
  <2>1. [op[t] EXCEPT !.pc = pc] = [pc |-> pc, channel |-> op[t].channel, ring |-> r, line |-> op[t].line]
    BY <1>1, SMT DEF Ops
  <2>2. QED
    BY <2>1 DEF WriteSlot
<1>6. rings' = [rings EXCEPT ![r] = [rings[r] EXCEPT !.buffer = buffer]]
  BY DEF WriteSlot
<1> HIDE DEF buffer
<1>7. [rings[r] EXCEPT !.buffer = buffer] = ring
  BY <1>1, <1>3, SMT DEF Rings
<1>8. rings' = [rings EXCEPT ![r] = ring]
  BY <1>6, <1>7
<1> HIDE DEF call, ring
<1>9. /\ op' \in [LogThreads -> Ops] /\ op'[t] = call
      /\ \A u \in LogThreads : u # t => op'[u] = op[u]
  BY <1>2, <1>5, OpReplaced
<1>10. /\ rings' \in [RingIds -> Rings] /\ rings'[r] = ring
       /\ \A q \in RingIds : q # r => rings'[q] = rings[q]
  BY <1>4, <1>8, RingReplaced
<1>11. QED
  BY <1>9, <1>10 DEF SlotWritten, call, ring, buffer

\* The two writes of an append are a torn text and the line itself.
LEMMA AppendChanges ==
  ASSUME RingsInv, NEW t \in LogThreads, AppendCrashRing(t)
  PROVE  /\ op \in [LogThreads -> Ops] /\ rings \in [RingIds -> Rings] /\ op[t].ring \in RingIds
         /\ op[t].channel # Nothing /\ UNCHANGED <<ringCount, ringLock>>
         /\ \/ op[t].pc = "open" /\ SlotWritten(t, TornLine, "close")
            \/ op[t].pc = "close" /\ SlotWritten(t, op[t].line, "idle")
<1>1. /\ op[t].pc \in {"open", "close"} /\ op[t].channel # Nothing /\ op[t].ring # NoRing
      /\ UNCHANGED <<ringCount, ringLock>> /\ op \in [LogThreads -> Ops] /\ rings \in [RingIds -> Rings]
  BY DEF AppendCrashRing, WriteSlot, OpAt, RingsInv, OpsInOrder, AppendPcs, RingsTypeOK, Ops, Rings
<1>2. op[t].ring \in RingIds /\ op[t].line \in -1 .. MaxLines /\ TornLine \in -1 .. MaxLines
  BY <1>1, SMT DEF Ops, TornLine
<1>3. CASE op[t].pc = "open" /\ WriteSlot(t, TornLine, "close")
  BY <1>1, <1>2, <1>3, SlotChanges
<1>4. CASE op[t].pc = "close" /\ WriteSlot(t, op[t].line, "idle")
  BY <1>1, <1>2, <1>4, SlotChanges
<1>5. QED
  BY <1>1, <1>2, <1>3, <1>4 DEF AppendCrashRing, OpAt

(* Writing a line leaves names, counters and the lock alone. *)
LEMMA AppendStep ==
  ASSUME RingsInv, NEW t \in LogThreads, AppendCrashRing(t)
  PROVE  RingsInv'
<1>1. /\ op[t].channel # Nothing /\ op[t].ring \in RingIds /\ op[t].pc \in {"open", "close"}
      /\ UNCHANGED <<ringCount, ringLock>> /\ op[t].ring # NoRing
      /\ \/ SlotWritten(t, TornLine, "close") \/ SlotWritten(t, op[t].line, "idle")
  BY AppendChanges, SMT DEF RingIds, NoRing
<1>2. RingsTypeOK'
  BY <1>1 DEF RingsInv, RingsTypeOK, Ops, Rings, SlotWritten
<1>3. \A q \in RingIds : rings'[q].name = rings[q].name
  BY <1>1 DEF SlotWritten
<1>4. QED
  BY <1>1, <1>2, <1>3, AppendFrame DEF SlotWritten, LockedPcs, AppendPcs, NoOp

(* Every step keeps the invariant of the rings. *)
LEMMA RingsStep == RingsInv /\ [RingsNext]_ringVars => RingsInv'
<1> SUFFICES ASSUME RingsInv, [RingsNext]_ringVars PROVE RingsInv'
  OBVIOUS
<1>1. CASE UNCHANGED ringVars
  BY <1>1 DEF ringVars, RingsInv, RingsTypeOK, LockOwned, OpsInOrder, NewRingIsNew, OneRingPerChannel
<1>2. CASE RingsNext
  BY <1>2, LogStep, FindStep, EnterStep, RecheckStep, NameStep, PublishStep, LeaveStep, TakeStep,
     AppendStep DEF RingsNext
<1>3. QED
  BY <1>1, <1>2

(* The invariant of the rings holds in every reachable state. *)
LEMMA RingsInvariant == RingsSpec => []RingsInv
BY RingsInitial, RingsStep, PTL DEF RingsSpec

\* Readers that take no lock never see a ring without its name, and two threads
\* that log a new channel at once do not split it over two rings.
THEOREM ChannelsHaveOneRing == RingsSpec => []OneRingPerChannel
<1>1. RingsInv => OneRingPerChannel
  BY DEF RingsInv
<1>2. QED
  BY <1>1, RingsInvariant, PTL

-----------------------------------------------------------------------------
(***************************************************************************)
(* What a report shows.  The arithmetic of positions first.                *)
(***************************************************************************)
\* Quotient and remainder of a number of lines by the size of a ring.
LEMMA QuotientAndRemainder ==
  ASSUME NEW a \in Nat
  PROVE  a = RingSize * (a \div RingSize) + (a % RingSize) /\ a % RingSize \in Positions /\ a \div RingSize \in Nat
BY SMT DEF Positions

\* The only multiple of the size strictly between its opposite and itself is zero.
LEMMA SmallMultiple ==
  ASSUME NEW k \in Int, 0 < RingSize * k + RingSize, RingSize * k < RingSize
  PROVE  k = 0
BY SMT

(* The remainder of a line's number is the position it is written as. *)
LEMMA RemainderIsUnique ==
  ASSUME NEW a \in Nat, NEW p \in Int, NEW r \in Positions, a = RingSize * p + r
  PROVE  a % RingSize = r
<1> DEFINE q == a \div RingSize
           m == a % RingSize
<1>1. a = RingSize * q + m /\ m \in Positions /\ q \in Nat
  BY QuotientAndRemainder
<1> HIDE DEF q, m
<1>2. RingSize * (p - q) = m - r /\ p - q \in Int
  BY <1>1, SMT DEF Positions
<1>3. p - q = 0
  BY <1>1, <1>2, SmallMultiple, SMT DEF Positions
<1>4. m = r
  BY <1>1, <1>2, <1>3, SMT DEF Positions
<1>5. QED
  BY <1>4 DEF m

\* Two different lines less than a turn apart have different positions.
LEMMA PositionsDiffer ==
  ASSUME NEW a \in Nat, NEW b \in Nat, a < b + RingSize, b < a + RingSize, a # b
  PROVE  Position(a) # Position(b)
<1> SUFFICES ASSUME a % RingSize = b % RingSize PROVE FALSE
  BY DEF Position
<1> DEFINE p == a \div RingSize
           q == b \div RingSize
<1>1. /\ a = RingSize * p + (a % RingSize) /\ b = RingSize * q + (b % RingSize)
      /\ p \in Nat /\ q \in Nat /\ a % RingSize \in Int /\ b % RingSize \in Int
  BY QuotientAndRemainder, SMT DEF Positions
<1>2. a - b = RingSize * (p - q) /\ p - q \in Int
  BY <1>1, SMT
<1>3. p - q = 0
  BY <1>2, SmallMultiple, SMT
<1>4. QED
  BY <1>2, <1>3, SMT

\* Going on from a position reaches the position of the line that far on.
LEMMA PositionGoesOn ==
  ASSUME NEW a \in Nat, NEW b \in Nat
  PROVE  ((a % RingSize) + b) % RingSize = Position(a + b)
<1> DEFINE p == a \div RingSize
           m == a % RingSize
           x == m + b
           q == x \div RingSize
           k == x % RingSize
<1>1. a = RingSize * p + m /\ m \in Positions /\ p \in Nat
  BY QuotientAndRemainder
<1>2. x \in Nat
  BY <1>1, SMT DEF Positions
<1> HIDE DEF x
<1>3. x = RingSize * q + k /\ k \in Positions /\ q \in Nat
  BY <1>2, QuotientAndRemainder
<1> HIDE DEF p, m, q, k
<1>4. a + b = RingSize * (p + q) + k /\ p + q \in Int /\ a + b \in Nat
  <2>1. p + q \in Int /\ RingSize * (p + q) = RingSize * p + RingSize * q
    BY <1>1, <1>3, SMT
  <2>2. a + b = RingSize * p + x
    BY <1>1, SMT DEF x, Positions
  <2>3. RingSize * p \in Int /\ RingSize * q \in Int
    BY <1>1, <1>3, SMT
  <2>4. QED
    BY <1>1, <1>3, <2>1, <2>2, <2>3, SMT DEF Positions
<1>5. (a + b) % RingSize = k
  BY <1>3, <1>4, RemainderIsUnique
<1>6. QED
  BY <1>5 DEF k, m, x, Position

-----------------------------------------------------------------------------
\* The line is one of the last RingSize lines of the ring.
Recent(r, l) == l < rings[r].next /\ rings[r].next <= l + RingSize

\* Appends work on published rings and on lines that are still recent.
WritersAreRecent ==
  \A t \in LogThreads :
    /\ op[t].ring <= ringCount
    /\ op[t].pc \in {"open", "close"} => Recent(op[t].ring, op[t].line)

\* Every recent line is in its place, unless its writer is still at it.
RecentLinesHeld ==
  \A r \in RingIds, l \in Nat :
    Recent(r, l) => rings[r].buffer[Position(l)] = l \/ \E t \in LogThreads : Writing(t, r, l)

\* The slots that no line has reached yet are empty.
EmptyAhead ==
  \A r \in RingIds, l \in Nat :
    l < RingSize /\ (rings[r].next <= l \/ ringCount < r) => rings[r].buffer[Position(l)] = Nothing

\* No line has two writers.
WritersApart ==
  \A t, u \in LogThreads :
    op[t].pc \in {"open", "close"} /\ Writing(u, op[t].ring, op[t].line) => t = u

LeftoversHeld ==
  \A t \in LogThreads :
    op[t].pc \in {"open", "close"} =>
      rings[op[t].ring].buffer[Position(op[t].line)] \in Leftover(op[t].line)

LinesInv ==
  /\ RingsInv /\ WritersAreRecent /\ RecentLinesHeld
  /\ EmptyAhead /\ WritersApart /\ LeftoversHeld

(* No line was taken, so no slot holds one. *)
LEMMA LinesInitial == RingsInit => LinesInv
<1> SUFFICES ASSUME RingsInit PROVE LinesInv
  OBVIOUS
<1>1. \A t \in LogThreads : op[t].pc = "idle" /\ op[t].ring = 0
  BY DEF RingsInit, NoOp, NoRing
<1>2. WritersAreRecent
  BY <1>1, SMT DEF RingsInit, WritersAreRecent
<1>3. \A r \in RingIds : rings[r].next = 0
  BY DEF RingsInit, EmptyRing
<1>4. RecentLinesHeld
  BY <1>3, SMT DEF RecentLinesHeld, Recent
<1>5. \A l \in Nat : Position(l) \in Positions
  BY QuotientAndRemainder DEF Position
<1>6. EmptyAhead
  BY <1>5 DEF RingsInit, EmptyRing, EmptyAhead
<1>7. WritersApart /\ LeftoversHeld
  BY <1>1 DEF WritersApart, LeftoversHeld
<1>8. QED
  BY <1>2, <1>4, <1>6, <1>7, RingsInitial DEF LinesInv

\* A step that appends nothing: the rings with lines keep them, and no thread
\* starts or stops writing.
LEMMA LinesFrame ==
  ASSUME LinesInv, RingsInv', ringCount' >= ringCount, NEW t \in LogThreads,
         op[t].pc \notin {"open", "close"}, op'[t].pc \notin {"open", "close"},
         op'[t].ring <= ringCount',
         \A u \in LogThreads : u # t => op'[u] = op[u],
         \A r \in RingIds : /\ rings'[r] = rings[r] \/ (r > ringCount /\ rings'[r].next = 0)
                            /\ rings'[r].buffer = rings[r].buffer
  PROVE  LinesInv'
<1>1. /\ ringCount \in Nat /\ ringCount' \in Nat
      /\ \A u \in LogThreads : op[u].ring \in RingIds \cup {NoRing}
      /\ \A u \in LogThreads : op[u].pc \in {"open", "close"} => op[u].ring \in RingIds
  BY SMT DEF LinesInv, RingsInv, RingsTypeOK, OpsInOrder, AppendPcs
<1>2. WritersAreRecent'
  <2> SUFFICES ASSUME NEW u \in LogThreads, u # t
               PROVE  /\ op[u].ring <= ringCount'
                      /\ op[u].pc \in {"open", "close"} =>
                           op[u].line < rings'[op[u].ring].next
                           /\ rings'[op[u].ring].next <= op[u].line + RingSize
    BY DEF WritersAreRecent, Recent
  <2>1. op[u].ring <= ringCount
    BY DEF LinesInv, WritersAreRecent
  <2>2. op[u].ring <= ringCount'
    BY <1>1, <2>1, SMT DEF RingIds, NoRing
  <2>3. op[u].pc \in {"open", "close"} => rings'[op[u].ring] = rings[op[u].ring]
    BY <1>1, <2>1, SMT DEF RingIds
  <2>4. QED
    BY <2>2, <2>3 DEF LinesInv, WritersAreRecent, Recent
<1>3. RecentLinesHeld'
  <2> SUFFICES ASSUME NEW r \in RingIds, NEW l \in Nat,
                      l < rings'[r].next, rings'[r].next <= l + RingSize
               PROVE  \/ rings'[r].buffer[Position(l)] = l
                      \/ \E u \in LogThreads : Writing(u, r, l)'
    BY DEF RecentLinesHeld, Recent, Position
  <2>1. rings'[r] = rings[r]
    BY SMT
  <2>2. rings[r].buffer[Position(l)] = l \/ \E u \in LogThreads : Writing(u, r, l)
    BY <2>1 DEF LinesInv, RecentLinesHeld, Recent
  <2>3. \A u \in LogThreads : Writing(u, r, l) => Writing(u, r, l)'
    BY DEF Writing
  <2>4. QED
    BY <2>1, <2>2, <2>3
<1>4. EmptyAhead'
  <2> SUFFICES ASSUME NEW r \in RingIds, NEW l \in Nat, l < RingSize,
                      rings'[r].next <= l \/ ringCount' < r
               PROVE  rings[r].buffer[Position(l)] = Nothing
    BY DEF EmptyAhead, Position
  <2>1. rings[r].next <= l \/ ringCount < r
    BY <1>1, SMT DEF RingIds
  <2>2. QED
    BY <2>1 DEF LinesInv, EmptyAhead
<1>5. WritersApart'
  BY DEF LinesInv, WritersApart, Writing
<1>6. LeftoversHeld'
  <2> SUFFICES ASSUME NEW u \in LogThreads, op'[u].pc \in {"open", "close"}
               PROVE  rings'[op'[u].ring].buffer[Position(op'[u].line)] \in Leftover(op'[u].line)
    BY DEF LeftoversHeld, Leftover, Position, TornLine
  <2>1. op'[u] = op[u] /\ op[u].ring \in RingIds
    BY <1>1
  <2>2. QED
    BY <2>1 DEF LinesInv, LeftoversHeld
<1>7. QED
  BY <1>2, <1>3, <1>4, <1>5, <1>6 DEF LinesInv

\* A thread that goes to another point, outside the two writes, keeps its ring.
LEMMA MovedQuietly ==
  ASSUME LinesInv, RingsInv', NEW t \in LogThreads, ringCount' >= ringCount,
         NEW pc \in {"lock", "recheck", "name", "count", "unlock"},
         op[t].pc \notin {"open", "close"}, OpGoto(t, pc),
         \A r \in RingIds : /\ rings'[r] = rings[r] \/ (r > ringCount /\ rings'[r].next = 0)
                            /\ rings'[r].buffer = rings[r].buffer
  PROVE  LinesInv'
<1>1. op \in [LogThreads -> Ops] /\ ringCount \in Nat /\ ringCount' \in Nat
  BY SMT DEF LinesInv, RingsInv, RingsTypeOK, Ops
<1>2. /\ op'[t] = [pc |-> pc, channel |-> op[t].channel, ring |-> op[t].ring, line |-> op[t].line]
      /\ \A u \in LogThreads : u # t => op'[u] = op[u]
  BY <1>1, OpMoved
<1>3. op[t].ring <= ringCount /\ op[t].ring \in Nat
  BY <1>1, SMT DEF LinesInv, WritersAreRecent, Ops, RingIds, NoRing
<1>4. op'[t].ring <= ringCount'
  BY <1>1, <1>2, <1>3, SMT
<1>5. QED
  BY <1>2, <1>4, LinesFrame

\* A thread that found its ring among the published ones.
LEMMA FoundQuietly ==
  ASSUME LinesInv, RingsInv', NEW t \in LogThreads, UNCHANGED <<rings, ringCount>>,
         op[t].pc \notin {"open", "close"}, NEW r \in 1 .. ringCount, UseRing(t, r)
  PROVE  LinesInv'
<1>1. op \in [LogThreads -> Ops] /\ ringCount \in Nat /\ r \in RingIds /\ r <= ringCount
  BY SMT DEF LinesInv, RingsInv, RingsTypeOK, Ops, RingIds
<1>2. /\ op'[t] = [pc |-> "take", channel |-> op[t].channel, ring |-> r, line |-> op[t].line]
      /\ \A u \in LogThreads : u # t => op'[u] = op[u]
  BY <1>1, OpHasRing
<1>3. op'[t].ring <= ringCount' /\ ringCount' >= ringCount
  BY <1>1, <1>2, SMT
<1>4. QED
  BY <1>2, <1>3, LinesFrame

\* A thread that begins a call, or drops the line with every ring taken.
LEMMA ReplacedQuietly ==
  ASSUME LinesInv, RingsInv', NEW t \in LogThreads, UNCHANGED <<rings, ringCount>>,
         op[t].pc \notin {"open", "close"}, op'[t].pc \notin {"open", "close"}, op'[t].ring = NoRing,
         \A u \in LogThreads : u # t => op'[u] = op[u]
  PROVE  LinesInv'
<1>1. ringCount' >= ringCount /\ op'[t].ring <= ringCount'
  BY SMT DEF LinesInv, RingsInv, RingsTypeOK, NoRing
<1>2. QED
  BY <1>1, LinesFrame

\* The steps that find or create a ring.
LEMMA QuietSteps ==
  ASSUME LinesInv, RingsInv', NEW t \in LogThreads,
         \/ \E channel \in Channels : Log(t, channel)
         \/ FindCrashRing(t) \/ EnterLock(t) \/ GetOrCreateCrashRing(t)
         \/ NameRing(t) \/ PublishRing(t) \/ LeaveLock(t)
  PROVE  LinesInv'
<1>1. op \in [LogThreads -> Ops] /\ op' \in [LogThreads -> Ops] /\ NoOp \in Ops /\ RingsInv /\ ringCount \in Nat
  BY SMT DEF LinesInv, RingsInv, RingsTypeOK, Ops, NoOp
<1>2. ASSUME NEW channel \in Channels, Log(t, channel) PROVE LinesInv'
  <2>1. op[t].pc = "idle" /\ UNCHANGED <<rings, ringCount>>
    BY <1>2 DEF Log, OpAt
  <2>2. /\ op'[t] = [pc |-> "find", channel |-> channel, ring |-> NoRing, line |-> 0]
        /\ \A u \in LogThreads : u # t => op'[u] = op[u]
    BY <1>1, <1>2, LogChanges
  <2>3. QED
    BY <2>1, <2>2, ReplacedQuietly
<1>3. CASE FindCrashRing(t)
  <2>1. op[t].pc = "find" /\ UNCHANGED <<rings, ringCount>> /\ ringCount >= ringCount
    BY <1>1, <1>3, SMT DEF FindCrashRing, OpAt
  <2>2. CASE Found(op[t].channel) # NoRing
    BY <1>1, <1>3, <2>1, <2>2, FoundIsNamed, FoundQuietly DEF FindCrashRing, RingsInv
  <2>3. CASE Found(op[t].channel) = NoRing
    BY <1>3, <2>1, <2>3, MovedQuietly DEF FindCrashRing
  <2>4. QED
    BY <2>2, <2>3
<1>4. CASE EnterLock(t)
  <2>1. op[t].pc = "lock" /\ UNCHANGED <<rings, ringCount>> /\ ringCount >= ringCount
    BY <1>1, <1>4, SMT DEF EnterLock, OpAt
  <2>2. QED
    BY <1>4, <2>1, MovedQuietly DEF EnterLock
<1>5. CASE GetOrCreateCrashRing(t)
  <2>1. op[t].pc = "recheck" /\ UNCHANGED <<rings, ringCount>> /\ ringCount >= ringCount
    BY <1>1, <1>5, SMT DEF GetOrCreateCrashRing, OpAt
  <2>2. CASE Found(op[t].channel) # NoRing /\ UseRing(t, Found(op[t].channel))
    BY <1>1, <2>1, <2>2, FoundIsNamed, FoundQuietly DEF RingsInv
  <2>3. CASE op' = [op EXCEPT ![t] = NoOp]
    <3>1. op'[t] = NoOp /\ \A u \in LogThreads : u # t => op'[u] = op[u]
      BY <1>1, <2>3, OpReplaced
    <3>2. QED
      BY <2>1, <3>1, ReplacedQuietly DEF NoOp
  <2>4. CASE OpGoto(t, "name")
    BY <2>1, <2>4, MovedQuietly
  <2>5. QED
    BY <1>5, <2>2, <2>3, <2>4 DEF GetOrCreateCrashRing
<1>6. CASE NameRing(t)
  <2>1. op[t].pc = "name" /\ OpGoto(t, "count") /\ UNCHANGED ringCount /\ ringCount' >= ringCount
    BY <1>1, <1>6, SMT DEF NameRing, OpAt
  <2>2. ringCount < MaxRings /\ op[t].channel \in Channels
    BY <1>1, <2>1 DEF RingsInv, NewRingIsNew, OpsInOrder, Ops
  <2>3. RingNamed(t)
    BY <1>1, <1>6, <2>2, NameChanges DEF RingsInv, RingsTypeOK, Rings
  <2>4. \A r \in RingIds : /\ rings'[r] = rings[r] \/ (r > ringCount /\ rings'[r].next = 0)
                           /\ rings'[r].buffer = rings[r].buffer
    BY <1>1, <2>3, SMT DEF RingNamed
  <2>5. QED
    BY <2>1, <2>4, MovedQuietly
<1>7. CASE PublishRing(t)
  <2>1. op[t].pc = "count" /\ OpGoto(t, "unlock") /\ UNCHANGED rings /\ ringCount' >= ringCount
    BY <1>1, <1>7, SMT DEF PublishRing, OpAt
  <2>2. QED
    BY <2>1, MovedQuietly
<1>8. CASE LeaveLock(t)
  <2>1. op[t].pc = "unlock" /\ UseRing(t, ringCount) /\ UNCHANGED <<rings, ringCount>>
    BY <1>8 DEF LeaveLock, OpAt
  <2>2. ringCount \in 1 .. ringCount
    BY <1>1, <2>1, SMT DEF RingsInv, OpsInOrder
  <2>3. QED
    BY <2>1, <2>2, FoundQuietly
<1>9. QED
  BY <1>2, <1>3, <1>4, <1>5, <1>6, <1>7, <1>8

(* Where the next line of a ring goes, there is the line of a turn ago or nothing. *)
LEMMA SlotBeforeTurn ==
  ASSUME LinesInv, NEW r \in RingIds, rings[r].next \in Nat, NotOvertaken(r)
  PROVE  rings[r].buffer[Position(rings[r].next)] \in Leftover(rings[r].next)
<1> DEFINE n == rings[r].next
<1>1. CASE n < RingSize
  BY <1>1, SMT DEF LinesInv, EmptyAhead, Leftover
<1>2. CASE ~(n < RingSize)
  <2> DEFINE l == n - RingSize
  <2>1. l \in Nat /\ l < n /\ n <= l + RingSize /\ l + RingSize = n
    BY <1>2, SMT
  <2> HIDE DEF l
  <2>2. Position(n) = Position(l)
    <3>1. l = RingSize * (l \div RingSize) + (l % RingSize)
          /\ l % RingSize \in Positions /\ l \div RingSize \in Nat
      BY <2>1, QuotientAndRemainder
    <3> DEFINE p == l \div RingSize
               m == l % RingSize
    <3> HIDE DEF p, m
    <3>2. n = RingSize * (p + 1) + m /\ p + 1 \in Int /\ m \in Positions
      <4>1. RingSize * (p + 1) = RingSize * p + RingSize
        BY <3>1, SMT DEF p
      <4>2. RingSize * p \in Int /\ m \in Int
        BY <3>1, SMT DEF p, m, Positions
      <4>3. QED
        BY <2>1, <3>1, <4>1, <4>2, SMT DEF p, m, Positions
    <3>3. n % RingSize = m
      BY <3>2, RemainderIsUnique
    <3>4. QED
      BY <3>3 DEF Position, m
  <2>3. \A t \in LogThreads : ~Writing(t, r, l)
    BY <2>1, SMT DEF NotOvertaken, Writing
  <2>4. rings[r].buffer[Position(l)] = l
    BY <2>1, <2>3 DEF LinesInv, RecentLinesHeld, Recent
  <2>5. QED
    BY <2>2, <2>4 DEF Leftover, l
<1>3. QED
  BY <1>1, <1>2

\* The new line is written by its taker; nobody is overtaken by a turn.
LEMMA TakeKeepsLines ==
  ASSUME LinesInv, RingsInv', NEW t \in LogThreads, TakeIndex(t)
  PROVE  LinesInv'
<1> DEFINE r == op[t].ring
<1>1. /\ op[t].pc = "take" /\ op[t].ring # NoRing /\ UNCHANGED ringCount /\ NotOvertaken(r)
      /\ op \in [LogThreads -> Ops] /\ rings \in [RingIds -> Rings]
  BY DEF TakeIndex, OpAt, LinesInv, RingsInv, OpsInOrder, AppendPcs, RingsTypeOK, Ops, Rings
<1>2. r \in RingIds
  BY <1>1, SMT DEF Ops
<1>3. NumberTaken(t)
  BY <1>1, <1>2, TakeChanges
<1>4. /\ \A q \in RingIds : rings[q].next \in Nat
      /\ \A u \in LogThreads : op[u].line \in Nat
      /\ \A u \in LogThreads : op[u].pc \in {"open", "close"} => op[u].ring \in RingIds
  BY <1>1, SMT DEF Rings, Ops, LinesInv, RingsInv, OpsInOrder, AppendPcs
<1>5. WritersAreRecent'
  <2>2. ASSUME NEW u \in LogThreads, u # t, op[u].pc \in {"open", "close"}
        PROVE  Recent(op[u].ring, op[u].line)'
    <3>1. Recent(op[u].ring, op[u].line) /\ op'[u] = op[u] /\ op[u].ring \in RingIds
      BY <1>3, <1>4, <2>2 DEF LinesInv, WritersAreRecent, NumberTaken
    <3>2. CASE op[u].ring = r
      BY <1>1, <1>3, <1>4, <2>2, <3>1, <3>2, SMT DEF Recent, NotOvertaken, NumberTaken
    <3>3. CASE op[u].ring # r
      BY <1>3, <3>1, <3>3 DEF Recent, NumberTaken
    <3>4. QED
      BY <3>2, <3>3
  <2>3. \A u \in LogThreads : op'[u].ring = op[u].ring
    BY <1>3 DEF NumberTaken
  <2>4. \A u \in LogThreads : u # t => op'[u] = op[u]
    BY <1>3 DEF NumberTaken
  <2>5. Recent(op[t].ring, op[t].line)'
    <3>1. op'[t].ring = r /\ op'[t].line = rings[r].next
      BY <1>3 DEF NumberTaken
    <3>2. rings[r].next < rings'[r].next /\ rings'[r].next <= rings[r].next + RingSize
      BY <1>2, <1>3, <1>4, SMT DEF NumberTaken
    <3>3. QED
      BY <3>1, <3>2 DEF Recent
  <2>6. QED
    BY <1>1, <2>2, <2>3, <2>4, <2>5 DEF LinesInv, WritersAreRecent
<1>6. RecentLinesHeld'
  <2> SUFFICES ASSUME NEW q \in RingIds, NEW l \in Nat,
                      l < rings'[q].next, rings'[q].next <= l + RingSize
               PROVE  \/ rings'[q].buffer[Position(l)] = l
                      \/ \E u \in LogThreads : Writing(u, q, l)'
    BY DEF RecentLinesHeld, Recent, Position
  <2>1. rings'[q].buffer = rings[q].buffer
    BY <1>3 DEF NumberTaken
  <2>2. CASE q = r /\ l = rings[r].next
    BY <1>3, <2>2 DEF NumberTaken, Writing
  <2>3. CASE ~(q = r /\ l = rings[r].next)
    <3>1. Recent(q, l)
      BY <1>3, <1>4, <2>3, SMT DEF NumberTaken, Recent
    <3>2. rings[q].buffer[Position(l)] = l \/ \E u \in LogThreads : Writing(u, q, l)
      BY <3>1 DEF LinesInv, RecentLinesHeld
    <3>3. \A u \in LogThreads : Writing(u, q, l) => Writing(u, q, l)'
      BY <1>1, <1>3 DEF Writing, NumberTaken
    <3>4. QED
      BY <2>1, <3>2, <3>3
  <2>4. QED
    BY <2>2, <2>3
<1>7. EmptyAhead'
  <2> SUFFICES ASSUME NEW q \in RingIds, NEW l \in Nat, l < RingSize,
                      rings'[q].next <= l \/ ringCount < q
               PROVE  rings'[q].buffer[Position(l)] = Nothing
    BY <1>1 DEF EmptyAhead, Position
  <2>1. rings'[q].buffer = rings[q].buffer
    BY <1>3 DEF NumberTaken
  <2>2. rings[q].next <= l \/ ringCount < q
    BY <1>3, <1>4, SMT DEF NumberTaken
  <2>3. QED
    BY <2>1, <2>2 DEF LinesInv, EmptyAhead
<1>8. WritersApart'
  <2>1. /\ op'[t].ring = r /\ op'[t].line = rings[r].next
        /\ \A u \in LogThreads : u # t => op'[u] = op[u]
    BY <1>3 DEF NumberTaken
  <2>2. ASSUME NEW u \in LogThreads, u # t, op[u].pc \in {"open", "close"}
        PROVE  ~(op[u].ring = r /\ op[u].line = rings[r].next)
    BY <1>2, <1>4, <2>2, SMT DEF LinesInv, WritersAreRecent, Recent
  <2>3. QED
    BY <2>1, <2>2 DEF LinesInv, WritersApart, Writing
<1>9. LeftoversHeld'
  <2> SUFFICES ASSUME NEW u \in LogThreads, op'[u].pc \in {"open", "close"}
               PROVE  rings'[op'[u].ring].buffer[Position(op'[u].line)] \in Leftover(op'[u].line)
    BY DEF LeftoversHeld, Leftover, Position, TornLine
  <2>1. \A q \in RingIds : rings'[q].buffer = rings[q].buffer
    BY <1>3 DEF NumberTaken
  <2>2. CASE u # t
    <3>1. op'[u] = op[u]
      BY <1>3, <2>2 DEF NumberTaken
    <3>2. QED
      BY <1>4, <2>1, <3>1 DEF LinesInv, LeftoversHeld
  <2>3. CASE u = t
    <3> DEFINE n == rings[r].next
    <3>1. op'[t].ring = r /\ op'[t].line = n /\ n \in Nat
      BY <1>2, <1>3, <1>4 DEF NumberTaken
    <3>2. rings[r].buffer[Position(n)] \in Leftover(n)
      BY <1>1, <1>2, <1>4, SlotBeforeTurn
    <3>3. QED
      BY <1>2, <2>1, <2>3, <3>1, <3>2
  <2>4. QED
    BY <2>2, <2>3
<1>10. QED
  BY <1>5, <1>6, <1>7, <1>8, <1>9 DEF LinesInv

\* A write disturbs no other recent line: their positions differ.
LEMMA AppendKeepsLines ==
  ASSUME LinesInv, RingsInv', NEW t \in LogThreads, AppendCrashRing(t)
  PROVE  LinesInv'
<1> DEFINE r == op[t].ring
           m == op[t].line
<1>1. /\ op \in [LogThreads -> Ops] /\ rings \in [RingIds -> Rings] /\ r \in RingIds
      /\ op[t].channel # Nothing /\ UNCHANGED <<ringCount, ringLock>>
      /\ \/ op[t].pc = "open" /\ SlotWritten(t, TornLine, "close")
         \/ op[t].pc = "close" /\ SlotWritten(t, m, "idle")
  BY AppendChanges DEF LinesInv
<1>2. /\ \A q \in RingIds : rings[q].next \in Nat /\ rings[q].buffer \in [Positions -> (-1 .. MaxLines) \cup {Nothing}]
      /\ \A u \in LogThreads : op[u].line \in Nat
      /\ ringCount \in Nat
  BY <1>1, SMT DEF Rings, Ops, LinesInv, RingsInv, RingsTypeOK
<1>3. /\ \A q \in RingIds : rings'[q].next = rings[q].next
      /\ \A u \in LogThreads : u # t => op'[u] = op[u]
      /\ \A q \in RingIds : q # r => rings'[q] = rings[q]
  BY <1>1 DEF SlotWritten
<1>4. /\ op'[t] = NoOp \/ op'[t] = [pc |-> "close", channel |-> op[t].channel, ring |-> r, line |-> m]
      /\ Recent(r, m)
  BY <1>1 DEF SlotWritten, LinesInv, WritersAreRecent
<1>5. WritersAreRecent'
  <2>1. \A u \in LogThreads : op[u].pc \in {"open", "close"} => op[u].ring \in RingIds
    BY <1>1, SMT DEF Ops, LinesInv, RingsInv, OpsInOrder, AppendPcs
  <2>2. ASSUME NEW u \in LogThreads, u # t
        PROVE  op'[u].ring <= ringCount' /\ (op'[u].pc \in {"open", "close"} => Recent(op[u].ring, op[u].line)')
    BY <1>1, <1>3, <2>1, <2>2 DEF LinesInv, WritersAreRecent, Recent
  <2>3. op'[t].ring <= ringCount' /\ (op'[t].pc \in {"open", "close"} => Recent(op[t].ring, op[t].line)')
    <3>1. CASE op'[t] = NoOp
      BY <1>1, <1>2, <3>1, SMT DEF NoOp, NoRing
    <3>2. CASE op'[t] = [pc |-> "close", channel |-> op[t].channel, ring |-> r, line |-> m]
      BY <1>1, <1>3, <1>4, <3>2 DEF LinesInv, WritersAreRecent, Recent
    <3>3. QED
      BY <1>4, <3>1, <3>2
  <2>4. QED
    BY <2>2, <2>3 DEF WritersAreRecent
<1>6. RecentLinesHeld'
  <2> SUFFICES ASSUME NEW q \in RingIds, NEW l \in Nat,
                      l < rings'[q].next, rings'[q].next <= l + RingSize
               PROVE  \/ rings'[q].buffer[Position(l)] = l
                      \/ \E u \in LogThreads : Writing(u, q, l)'
    BY DEF RecentLinesHeld, Recent, Position
  <2>1. Recent(q, l)
    BY <1>3 DEF Recent
  <2>2. CASE q = r /\ l = m
    <3>1. CASE op[t].pc = "open" /\ SlotWritten(t, TornLine, "close")
      BY <2>2, <3>1 DEF SlotWritten, Writing
    <3>2. CASE op[t].pc = "close" /\ SlotWritten(t, m, "idle")
      <4>1. Position(m) \in Positions
        BY <1>2, QuotientAndRemainder DEF Position
      <4>2. rings'[r].buffer = [rings[r].buffer EXCEPT ![Position(m)] = m]
        BY <3>2 DEF SlotWritten
      <4>3. rings'[r].buffer[Position(m)] = m
        BY <1>1, <1>2, <4>1, <4>2
      <4>4. QED
        BY <2>2, <4>3
    <3>3. QED
      BY <1>1, <3>1, <3>2
  <2>3. CASE ~(q = r /\ l = m)
    <3>1. rings'[q].buffer[Position(l)] = rings[q].buffer[Position(l)]
      <4>1. CASE q # r
        BY <1>3, <4>1
      <4>2. CASE q = r
        <5>1. l # m /\ l < m + RingSize /\ m < l + RingSize
          BY <1>2, <1>4, <2>1, <2>3, <4>2, SMT DEF Recent
        <5>2. Position(l) # Position(m) /\ Position(l) \in Positions
          BY <1>2, <5>1, PositionsDiffer, QuotientAndRemainder DEF Position
        <5>3. PICK text \in {TornLine, m} : rings'[r].buffer = [rings[r].buffer EXCEPT ![Position(m)] = text]
          <6>1. CASE SlotWritten(t, TornLine, "close")
            BY <6>1 DEF SlotWritten
          <6>2. CASE SlotWritten(t, m, "idle")
            BY <6>2 DEF SlotWritten
          <6>3. QED
            BY <1>1, <6>1, <6>2
        <5>4. \A p \in Positions : p # Position(m) =>
                [rings[r].buffer EXCEPT ![Position(m)] = text][p] = rings[r].buffer[p]
          BY <1>1, <1>2
        <5>5. QED
          BY <4>2, <5>2, <5>3, <5>4
      <4>3. QED
        BY <4>1, <4>2
    <3>2. rings[q].buffer[Position(l)] = l \/ \E u \in LogThreads : Writing(u, q, l)
      BY <2>1 DEF LinesInv, RecentLinesHeld
    <3>3. \A u \in LogThreads : Writing(u, q, l) => Writing(u, q, l)'
      BY <1>3, <2>3 DEF Writing
    <3>4. QED
      BY <3>1, <3>2, <3>3
  <2>4. QED
    BY <2>2, <2>3
<1>7. \A l \in Nat : l # m /\ l < m + RingSize /\ m < l + RingSize =>
        rings'[r].buffer[Position(l)] = rings[r].buffer[Position(l)]
  <2> SUFFICES ASSUME NEW l \in Nat, l # m, l < m + RingSize, m < l + RingSize
               PROVE  rings'[r].buffer[Position(l)] = rings[r].buffer[Position(l)]
    OBVIOUS
  <2>1. Position(l) # Position(m) /\ Position(l) \in Positions
    BY <1>2, PositionsDiffer, QuotientAndRemainder DEF Position
  <2>2. PICK text \in {TornLine, m} : rings'[r].buffer = [rings[r].buffer EXCEPT ![Position(m)] = text]
    BY <1>1 DEF SlotWritten
  <2>3. QED
    BY <1>1, <1>2, <2>1, <2>2
<1>8. r <= ringCount /\ m < rings[r].next /\ m \in Nat /\ r \in Int
  BY <1>1, <1>2, <1>4, SMT DEF LinesInv, WritersAreRecent, Recent, RingIds
<1>9. EmptyAhead'
  <2> SUFFICES ASSUME NEW q \in RingIds, NEW l \in Nat, l < RingSize,
                      rings[q].next <= l \/ ringCount < q
               PROVE  rings'[q].buffer[Position(l)] = Nothing
    BY <1>1, <1>3 DEF EmptyAhead, Position
  <2>1. rings[q].buffer[Position(l)] = Nothing
    BY DEF LinesInv, EmptyAhead
  <2>2. CASE q # r
    BY <1>3, <2>1, <2>2
  <2>3. CASE q = r
    <3>1. l # m /\ l < m + RingSize /\ m < l + RingSize
      BY <1>2, <1>8, <2>3, SMT
    <3>2. QED
      BY <1>7, <2>1, <2>3, <3>1
  <2>4. QED
    BY <2>2, <2>3
<1>10. WritersApart'
  BY <1>1, <1>3, <1>4 DEF LinesInv, WritersApart, Writing, NoOp
<1>11. LeftoversHeld'
  <2> SUFFICES ASSUME NEW u \in LogThreads, op'[u].pc \in {"open", "close"}
               PROVE  rings'[op'[u].ring].buffer[Position(op'[u].line)] \in Leftover(op'[u].line)
    BY DEF LeftoversHeld, Leftover, Position, TornLine
  <2>1. CASE u = t
    <3>1. op'[t].ring = r /\ op'[t].line = m /\ op[t].pc = "open" /\ SlotWritten(t, TornLine, "close")
      BY <1>1, <1>4, <2>1 DEF SlotWritten, NoOp
    <3>2. Position(m) \in Positions
      BY <1>2, QuotientAndRemainder DEF Position
    <3>3. rings'[r].buffer[Position(m)] = TornLine
      BY <1>1, <1>2, <3>1, <3>2 DEF SlotWritten
    <3>4. QED
      BY <2>1, <3>1, <3>3 DEF Leftover
  <2>2. CASE u # t
    <3> DEFINE q == op[u].ring
               l == op[u].line
    <3>1. op'[u] = op[u] /\ op[u].pc \in {"open", "close"} /\ q \in RingIds /\ l \in Nat
      <4>1. op'[u] = op[u]
        BY <1>3, <2>2
      <4>2. QED
        BY <1>1, <1>2, <4>1, SMT DEF Ops, LinesInv, RingsInv, OpsInOrder, AppendPcs
    <3>2. rings[q].buffer[Position(l)] \in Leftover(l)
      BY <3>1 DEF LinesInv, LeftoversHeld
    <3>3. CASE q # r
      BY <1>3, <3>1, <3>2, <3>3
    <3>4. CASE q = r
      <4>1. l # m
        BY <1>1, <2>2, <3>1, <3>4 DEF LinesInv, WritersApart, Writing
      <4>2. l < m + RingSize /\ m < l + RingSize
        <5>1. l < rings[r].next /\ rings[r].next <= l + RingSize
          BY <3>1, <3>4 DEF LinesInv, WritersAreRecent, Recent
        <5>2. m < rings[r].next /\ rings[r].next <= m + RingSize
          BY <1>4 DEF Recent
        <5>3. QED
          BY <1>1, <1>2, <1>8, <3>1, <5>1, <5>2, SMT
      <4>3. QED
        BY <1>7, <3>1, <3>2, <3>4, <4>1, <4>2
    <3>5. QED
      BY <3>3, <3>4
  <2>3. QED
    BY <2>1, <2>2
<1>12. QED
  BY <1>5, <1>6, <1>9, <1>10, <1>11 DEF LinesInv

(* Every step keeps the invariant of the lines. *)
LEMMA LinesStep == LinesInv /\ RingsInv' /\ [RingsNext]_ringVars => LinesInv'
<1> SUFFICES ASSUME LinesInv, RingsInv', [RingsNext]_ringVars PROVE LinesInv'
  OBVIOUS
<1>1. CASE UNCHANGED ringVars
  BY <1>1 DEF ringVars, LinesInv, WritersAreRecent, RecentLinesHeld, Recent, Writing, Position,
     EmptyAhead, WritersApart, LeftoversHeld, Leftover, TornLine
<1>2. CASE RingsNext
  BY <1>2, QuietSteps, TakeKeepsLines, AppendKeepsLines DEF RingsNext
<1>3. QED
  BY <1>1, <1>2

(* The invariant of the lines holds in every reachable state. *)
LEMMA LinesInvariant == RingsSpec => []LinesInv
BY LinesInitial, LinesStep, RingsInvariant, PTL DEF RingsSpec

-----------------------------------------------------------------------------
(* At every offset the dump finds the slot of the line that far from the oldest. *)
LEMMA ShownByOffset ==
  ASSUME LinesInv, NEW r \in 1 .. ringCount
  PROVE  LET next  == rings[r].next
             first == IF next > RingSize THEN next - RingSize ELSE 0
             Slot(k) == rings[r].buffer[Position(first + k)]
         IN  /\ r \in RingIds /\ next \in Nat /\ first \in Nat
             /\ \A k \in 0 .. next - first - 1 : k \in Nat /\ Recent(r, first + k)
             /\ Shown(r) = [k \in {i \in 0 .. next - first - 1 : Slot(i) # Nothing} |-> Slot(k)]
<1> DEFINE next  == rings[r].next
           first == IF next > RingSize THEN next - RingSize ELSE 0
           total == IF next < RingSize THEN next ELSE RingSize
           start == (next - total) % RingSize
           Entry(k) == rings[r].buffer[(start + k) % RingSize]
           Slot(k) == rings[r].buffer[Position(first + k)]
<1>1. r \in RingIds /\ next \in Nat
  BY SMT DEF LinesInv, RingsInv, RingsTypeOK, RingIds
<1>2. first \in Nat /\ total \in Nat /\ next - total = first /\ next - first = total
  BY <1>1, SMT
<1>3. \A k \in 0 .. total - 1 : k \in Nat /\ first + k < next /\ next <= first + k + RingSize
  BY <1>1, <1>2, SMT
<1>4. \A k \in 0 .. total - 1 : Entry(k) = Slot(k)
  <2> SUFFICES ASSUME NEW k \in 0 .. total - 1 PROVE Entry(k) = Slot(k)
    OBVIOUS
  <2>1. start = first % RingSize
    BY <1>2
  <2>2. (start + k) % RingSize = Position(first + k)
    BY <1>2, <1>3, <2>1, PositionGoesOn
  <2>3. QED
    BY <2>2
<1>5. Shown(r) = [k \in {i \in 0 .. total - 1 : Entry(i) # Nothing} |-> Entry(k)]
  BY DEF Shown, next, total, start, Entry
<1> HIDE DEF next, first, total, start, Entry, Slot
<1>6. /\ {i \in 0 .. total - 1 : Entry(i) # Nothing} = {i \in 0 .. total - 1 : Slot(i) # Nothing}
      /\ \A k \in {i \in 0 .. total - 1 : Entry(i) # Nothing} : Entry(k) = Slot(k)
  BY <1>4
<1>7. Shown(r) = [k \in {i \in 0 .. total - 1 : Slot(i) # Nothing} |-> Slot(k)]
  BY <1>5, <1>6, Zenon
<1>8. \A k \in 0 .. next - first - 1 : k \in Nat /\ Recent(r, first + k)
  BY <1>2, <1>3 DEF Recent, next
<1>9. QED
  BY <1>1, <1>2, <1>7, <1>8 DEF next, first, Slot

\* A report shows the last lines of a ring, all of them, oldest first, whatever
\* order the appends overlap in, but for lines that are taken and not yet written.
THEOREM ReportsShowLastLines == RingsSpec => []ReportShowsLastLines
<1>1. LinesInv => ReportShowsLastLines
  <2> SUFFICES ASSUME LinesInv, NEW r \in 1 .. ringCount
               PROVE  LET next  == rings[r].next
                          first == IF next > RingSize THEN next - RingSize ELSE 0
                          shown == DOMAIN Shown(r)
                      IN  \A k \in 0 .. next - first - 1 :
                            \/ k \in shown /\ Shown(r)[k] = first + k
                            \/ /\ \E t \in LogThreads : Writing(t, r, first + k)
                               /\ k \in shown => Shown(r)[k] \in Leftover(first + k)
    BY DEF ReportShowsLastLines
  <2> DEFINE next  == rings[r].next
             first == IF next > RingSize THEN next - RingSize ELSE 0
             shown == DOMAIN Shown(r)
             Slot(k) == rings[r].buffer[Position(first + k)]
  <2>1. /\ r \in RingIds /\ next \in Nat /\ first \in Nat
        /\ \A k \in 0 .. next - first - 1 : k \in Nat /\ Recent(r, first + k)
        /\ Shown(r) = [k \in {i \in 0 .. next - first - 1 : Slot(i) # Nothing} |-> Slot(k)]
    BY ShownByOffset
  <2>2. next \in 0 .. MaxLines
    BY <2>1 DEF LinesInv, RingsInv, RingsTypeOK
  <2>3. \A k \in 0 .. next - first - 1 : first + k < next
    BY <2>1 DEF Recent
  <2> HIDE DEF next, first, Slot
  <2>4. ASSUME NEW k \in 0 .. next - first - 1
        PROVE  \/ k \in shown /\ Shown(r)[k] = first + k
               \/ /\ \E t \in LogThreads : Writing(t, r, first + k)
                  /\ k \in shown => Shown(r)[k] \in Leftover(first + k)
    <3>1. k \in Nat /\ Recent(r, first + k) /\ first + k < next
      BY <2>1, <2>3
    <3>2. first + k \in Nat /\ first + k \in 0 .. MaxLines
      BY <2>1, <2>2, <3>1, SMT
    <3>3. first + k # Nothing
      BY <3>2, SMT
    <3>4. (k \in shown <=> Slot(k) # Nothing) /\ (k \in shown => Shown(r)[k] = Slot(k))
      BY <2>1
    <3>5. CASE Slot(k) = first + k
      BY <3>3, <3>4, <3>5
    <3>6. CASE Slot(k) # first + k
      <4>1. rings[r].buffer[Position(first + k)] # first + k
        BY <3>6 DEF Slot
      <4>2. PICK t \in LogThreads : Writing(t, r, first + k)
        BY <2>1, <3>1, <3>2, <4>1 DEF LinesInv, RecentLinesHeld
      <4>3. rings[r].buffer[Position(first + k)] \in Leftover(first + k)
        BY <4>2 DEF LinesInv, LeftoversHeld, Writing
      <4>4. Slot(k) \in Leftover(first + k)
        BY <4>3 DEF Slot
      <4> HIDE DEF shown
      <4>5. QED
        BY <3>4, <4>2, <4>4
    <3>7. QED
      BY <3>5, <3>6
  <2>5. QED
    BY <2>4 DEF next, first
<1>2. QED
  BY <1>1, LinesInvariant, PTL

HIDE RingConstants

-----------------------------------------------------------------------------
(***************************************************************************)
(* Crash handler: one reporter, a budget, and no fault twice in a row.     *)
(***************************************************************************)
\* The points of a dispatch.
Points == ReportPcs \cup {"running", "count", "enter", "search", "match_code",
                          "match_address", "match_thread", "chain", "terminate"}

\* The dispatches a thread can be in.
Dispatches ==
  [pc : Points,
   id : Faults \cup {0}, code : Codes \cup {0}, address : Addresses \cup {0}, origin : Origins]

Inside(t) == handling[t].pc \in ReportPcs

\* The flag keeps every second thread out, and an abandoned report keeps out all.
FlagInv ==
  /\ \A t, u \in Threads : Inside(t) /\ Inside(u) => t = u
  /\ abandoned => \A t \in Threads : ~Inside(t)
  /\ inHandler <=> abandoned \/ \E t \in Threads : Inside(t)

\* The threads that were counted within the budget and have not reported yet.
Tickets == {t \in Threads : handling[t].pc \in {"enter", "open", "write"}}

\* Every report and every ticket was counted, and counted within the budget.
BudgetInv ==
  /\ IsFiniteSet(Tickets)
  /\ Len(reports) + Cardinality(Tickets) <= crashCount
  /\ Len(reports) + Cardinality(Tickets) <= MaxCrashLogs

\* Every dispatch has a fault of its own, and only raised faults are reported.
FaultsDistinct ==
  /\ \A t \in Threads : handling[t].pc # "running" => handling[t].id \in 1 .. raised
  /\ \A t, u \in Threads :
       handling[t].pc # "running" /\ handling[u].pc # "running" /\ handling[t].id = handling[u].id => t = u
  /\ \A k \in 1 .. Len(reports) : reports[k] \in 1 .. raised

LastReport == IF reports = <<>> THEN 0 ELSE reports[Len(reports)]

Searching(t) == handling[t].pc \in {"search", "match_code", "match_address", "match_thread"}
Remembering(t) == handling[t].pc \in {"remember_code", "remember_address", "remember_thread", "leave"}

\* A thread whose fault was the last one reported finds itself remembered, and
\* one on its way to a report is not the last one reported.
Remembered(t) ==
  /\ handling[t].pc \in {"count", "enter", "open", "write"} => LastReport # handling[t].id
  /\ Remembering(t) => LastReport = handling[t].id
  /\ Searching(t) /\ LastReport = handling[t].id =>
       last = [code |-> handling[t].code, address |-> handling[t].address, thread |-> t]
  /\ handling[t].pc = "remember_address" => last.code = handling[t].code
  /\ handling[t].pc = "remember_thread" => last.code = handling[t].code /\ last.address = handling[t].address
  /\ handling[t].pc = "leave" =>
       last = [code |-> handling[t].code, address |-> handling[t].address, thread |-> t]

RememberInv == \A t \in Threads : Remembered(t)

CrashInv == CrashTypeOK /\ FlagInv /\ BudgetInv /\ FaultsDistinct /\ RememberInv /\ NoBackToBackDuplicate

USE CrashConstants

-----------------------------------------------------------------------------
(***************************************************************************)
(* What a step does to the dispatch of its thread.                         *)
(***************************************************************************)
\* The thread goes on with another dispatch; the others are where they were.
Becomes(t, d) ==
  /\ handling' \in [Threads -> Dispatches] /\ handling'[t] = d
  /\ \A u \in Threads : u # t => handling'[u] = handling[u]

\* The same fault, further on.
Further(t, pc, origin) ==
  [pc |-> pc, id |-> handling[t].id, code |-> handling[t].code, address |-> handling[t].address,
   origin |-> origin]

(* Replacing one thread's dispatch by a valid one is the change Becomes describes. *)
LEMMA DispatchReplaced ==
  ASSUME handling \in [Threads -> Dispatches], NEW t \in Threads, NEW d \in Dispatches,
         handling' = [handling EXCEPT ![t] = d]
  PROVE  Becomes(t, d)
BY DEF Becomes

\* A dispatch has its fields, and replacing one keeps the others.
LEMMA DispatchFields ==
  ASSUME NEW x \in Dispatches
  PROVE  /\ x.pc \in Points /\ x.id \in Faults \cup {0} /\ x.code \in Codes \cup {0}
         /\ x.address \in Addresses \cup {0} /\ x.origin \in Origins
         /\ \A pc \in Points : [x EXCEPT !.pc = pc] =
              [pc |-> pc, id |-> x.id, code |-> x.code, address |-> x.address, origin |-> x.origin]
         /\ \A o \in Origins : [x EXCEPT !.origin = o] =
              [pc |-> x.pc, id |-> x.id, code |-> x.code, address |-> x.address, origin |-> o]
         /\ \A pc \in Points, o \in Origins :
              [pc |-> pc, id |-> x.id, code |-> x.code, address |-> x.address, origin |-> o] \in Dispatches
<1> DEFINE I == Faults \cup {0}
           C == Codes \cup {0}
           A == Addresses \cup {0}
<1>1. Dispatches = [pc : Points, id : I, code : C, address : A, origin : Origins]
  BY DEF Dispatches
<1> HIDE DEF I, C, A
<1>2. /\ x.pc \in Points /\ x.id \in I /\ x.code \in C /\ x.address \in A /\ x.origin \in Origins
      /\ \A pc \in Points : [x EXCEPT !.pc = pc] =
           [pc |-> pc, id |-> x.id, code |-> x.code, address |-> x.address, origin |-> x.origin]
      /\ \A o \in Origins : [x EXCEPT !.origin = o] =
           [pc |-> x.pc, id |-> x.id, code |-> x.code, address |-> x.address, origin |-> o]
      /\ \A pc \in Points, o \in Origins :
           [pc |-> pc, id |-> x.id, code |-> x.code, address |-> x.address, origin |-> o] \in Dispatches
  BY <1>1, SMT
<1>3. QED
  BY <1>2 DEF I, C, A

(* A dispatch moved to another point of its path is still a dispatch. *)
LEMMA FurtherIsDispatch ==
  ASSUME handling \in [Threads -> Dispatches], NEW t \in Threads
  PROVE  /\ handling[t].origin \in Origins
         /\ \A pc \in Points, origin \in Origins : Further(t, pc, origin) \in Dispatches
         /\ \A pc \in Points : [handling[t] EXCEPT !.pc = pc] = Further(t, pc, handling[t].origin)
<1>1. handling[t] \in Dispatches
  OBVIOUS
<1>2. QED
  BY <1>1, DispatchFields, Zenon DEF Further

(* Moving a thread to another point of its path is such a change. *)
LEMMA DispatchMoved ==
  ASSUME handling \in [Threads -> Dispatches], NEW t \in Threads, NEW pc \in Points, Goto(t, pc)
  PROVE  Becomes(t, Further(t, pc, handling[t].origin))
<1>1. handling' = [handling EXCEPT ![t] = [handling[t] EXCEPT !.pc = pc]]
  BY DEF Goto
<1>2. Further(t, pc, handling[t].origin) \in Dispatches
  BY FurtherIsDispatch
<1>3. handling' = [handling EXCEPT ![t] = Further(t, pc, handling[t].origin)]
  BY <1>1, FurtherIsDispatch
<1>4. QED
  BY <1>2, <1>3, DispatchReplaced

\* The comparison that fails sends the fault to the report once more.
LEMMA DispatchRetried ==
  ASSUME handling \in [Threads -> Dispatches], NEW t \in Threads,
         handling' = [handling EXCEPT ![t].pc = "count", ![t].origin = "unhandled"]
  PROVE  Becomes(t, Further(t, "count", "unhandled"))
<1> DEFINE d       == Further(t, "count", "unhandled")
           counted == Further(t, "count", handling[t].origin)
<1>1. "count" \in Points /\ "unhandled" \in Origins
  BY DEF Points, Origins
<1>2. d \in Dispatches /\ counted \in Dispatches /\ [handling[t] EXCEPT !.pc = "count"] = counted
  BY <1>1, FurtherIsDispatch
<1>3. handling' = [handling EXCEPT ![t] = [[handling[t] EXCEPT !.pc = "count"] EXCEPT !.origin = "unhandled"]]
  OBVIOUS
<1>4. [counted EXCEPT !.origin = "unhandled"] =
        [pc |-> counted.pc, id |-> counted.id, code |-> counted.code, address |-> counted.address,
         origin |-> "unhandled"]
  BY <1>1, <1>2, DispatchFields, Zenon
<1>5. /\ counted.pc = "count" /\ counted.id = handling[t].id /\ counted.code = handling[t].code
      /\ counted.address = handling[t].address
  BY DEF Further
<1>6. [counted EXCEPT !.origin = "unhandled"] = d
  BY <1>4, <1>5 DEF Further
<1> HIDE DEF d, counted
<1>7. QED
  BY <1>2, <1>3, <1>6, DispatchReplaced DEF d

\* What the thread's dispatch says after it went further.
LEMMA FurtherFields ==
  ASSUME NEW t, NEW pc, NEW origin, Becomes(t, Further(t, pc, origin))
  PROVE  /\ handling'[t].pc = pc /\ handling'[t].id = handling[t].id
         /\ handling'[t].code = handling[t].code /\ handling'[t].address = handling[t].address
<1> DEFINE i == handling[t].id
           c == handling[t].code
           a == handling[t].address
<1>1. handling'[t] = [pc |-> pc, id |-> i, code |-> c, address |-> a, origin |-> origin]
  BY DEF Becomes, Further
<1> HIDE DEF i, c, a
<1>2. handling'[t].pc = pc /\ handling'[t].id = i /\ handling'[t].code = c /\ handling'[t].address = a
  BY <1>1
<1>3. QED
  BY <1>2 DEF i, c, a

(* The empty fault of a thread that runs is one of the faults. *)
LEMMA NoFaultIsDispatch == NoFault \in Dispatches /\ NoFault.pc = "running"
BY SMT DEF NoFault, Dispatches, Origins, Points

\* After a report the thread goes on where its origin says, outside of it.
LEMMA AfterReportIsOutside ==
  ASSUME NEW origin \in Origins
  PROVE  AfterReport(origin) \in {"search", "chain", "terminate"}
BY SMT DEF AfterReport, Origins

(* A report that is given up continues at one of three points, with the same fault. *)
LEMMA GivenUp ==
  ASSUME handling \in [Threads -> Dispatches], NEW t \in Threads, GiveUp(t)
  PROVE  \E pc \in {"search", "chain", "terminate"} : Becomes(t, Further(t, pc, handling[t].origin))
<1>1. handling[t] \in Dispatches
  OBVIOUS
<1>2. handling[t].origin \in Origins
  BY <1>1 DEF Dispatches
<1>3. QED
  BY <1>2, AfterReportIsOutside, DispatchMoved DEF GiveUp, Points

-----------------------------------------------------------------------------
(***************************************************************************)
(* The flag.                                                               *)
(***************************************************************************)
\* Steps that cross neither end of the report.
LEMMA FlagKept ==
  ASSUME FlagInv, NEW t \in Threads, UNCHANGED <<inHandler, abandoned>>,
         Inside(t)' <=> Inside(t), \A u \in Threads : u # t => handling'[u] = handling[u]
  PROVE  FlagInv'
<1>1. \A u \in Threads : Inside(u)' <=> Inside(u)
  BY DEF Inside
<1> HIDE DEF Inside
<1>2. QED
  BY <1>1 DEF FlagInv

\* The flag was clear: the thread enters alone.
LEMMA FlagTaken ==
  ASSUME FlagInv, NEW t \in Threads, ~inHandler, inHandler' = TRUE, UNCHANGED abandoned,
         Inside(t)', \A u \in Threads : u # t => handling'[u] = handling[u]
  PROVE  FlagInv'
<1>1. \A u \in Threads : ~Inside(u)
  BY DEF FlagInv
<1>2. \A u \in Threads : u # t => ~Inside(u)'
  BY <1>1 DEF Inside
<1>3. ~abandoned
  BY DEF FlagInv
<1>4. QED
  BY <1>2, <1>3 DEF FlagInv

\* The thread inside leaves, and nobody is left there.
LEMMA FlagCleared ==
  ASSUME FlagInv, NEW t \in Threads, Inside(t), ~Inside(t)',
         \/ inHandler' = FALSE /\ UNCHANGED abandoned
         \/ UNCHANGED inHandler /\ abandoned' = TRUE,
         \A u \in Threads : u # t => handling'[u] = handling[u]
  PROVE  FlagInv'
<1>1. \A u \in Threads : u # t => ~Inside(u)
  BY DEF FlagInv
<1>2. \A u \in Threads : ~Inside(u)'
  BY <1>1 DEF Inside
<1>3. inHandler
  BY DEF FlagInv
<1>4. inHandler' <=> abandoned'
  <2>1. CASE inHandler' = FALSE /\ UNCHANGED abandoned
    BY <2>1 DEF FlagInv
  <2>2. CASE UNCHANGED inHandler /\ abandoned' = TRUE
    BY <1>3, <2>2
  <2>3. QED
    BY <2>1, <2>2
<1>5. QED
  BY <1>2, <1>4 DEF FlagInv

-----------------------------------------------------------------------------
(***************************************************************************)
(* The budget.                                                             *)
(***************************************************************************)
HasTicket(t) == handling[t].pc \in {"enter", "open", "write"}

(* A step that gives no thread a ticket and takes none away keeps the budget. *)
LEMMA TicketsKept ==
  ASSUME BudgetInv, NEW t \in Threads, crashCount \in Nat, crashCount' >= crashCount, crashCount' \in Nat,
         UNCHANGED reports, Len(reports) \in Nat,
         HasTicket(t)' <=> HasTicket(t), \A u \in Threads : u # t => handling'[u] = handling[u]
  PROVE  BudgetInv'
<1>1. \A u \in Threads : HasTicket(u)' <=> HasTicket(u)
  BY DEF HasTicket
<1>2. Tickets' = Tickets
  BY <1>1 DEF Tickets, HasTicket
<1>3. Cardinality(Tickets) \in Nat
  BY FS_CardinalityType DEF BudgetInv
<1> HIDE DEF Tickets
<1>4. QED
  BY <1>2, <1>3, SMT DEF BudgetInv

\* A ticket is given only while the count is within the budget.
LEMMA TicketTaken ==
  ASSUME BudgetInv, NEW t \in Threads, crashCount \in Nat, crashCount' = crashCount + 1,
         crashCount' <= MaxCrashLogs, UNCHANGED reports, Len(reports) \in Nat,
         HasTicket(t)', \A u \in Threads : u # t => handling'[u] = handling[u]
  PROVE  BudgetInv'
<1>1. Tickets' = Tickets \cup {t}
  BY DEF Tickets, HasTicket
<1>2. IsFiniteSet(Tickets') /\ Cardinality(Tickets') <= Cardinality(Tickets) + 1
      /\ Cardinality(Tickets) \in Nat /\ Cardinality(Tickets') \in Nat
  <2>1. IsFiniteSet(Tickets)
    BY DEF BudgetInv
  <2>2. /\ IsFiniteSet(Tickets \cup {t})
        /\ Cardinality(Tickets \cup {t}) = IF t \in Tickets THEN Cardinality(Tickets) ELSE Cardinality(Tickets) + 1
    BY <2>1, FS_AddElement
  <2>3. Cardinality(Tickets) \in Nat
    BY <2>1, FS_CardinalityType
  <2> HIDE DEF Tickets
  <2>4. QED
    BY <1>1, <2>2, <2>3, SMT
<1> HIDE DEF Tickets
<1>3. QED
  BY <1>2, SMT DEF BudgetInv

\* A ticket is given back, or used for one report.
LEMMA TicketGone ==
  ASSUME BudgetInv, NEW t \in Threads, crashCount \in Nat, crashCount' \in Nat, crashCount' >= crashCount,
         Len(reports) \in Nat, Len(reports') \in Nat, Len(reports') <= Len(reports) + 1,
         HasTicket(t), ~HasTicket(t)', \A u \in Threads : u # t => handling'[u] = handling[u]
  PROVE  BudgetInv'
<1>1. Tickets' = Tickets \ {t} /\ t \in Tickets
  BY DEF Tickets, HasTicket
<1>2. IsFiniteSet(Tickets') /\ Cardinality(Tickets') = Cardinality(Tickets) - 1 /\ Cardinality(Tickets) \in Nat
      /\ Cardinality(Tickets') \in Nat
  <2>1. IsFiniteSet(Tickets)
    BY DEF BudgetInv
  <2>2. /\ IsFiniteSet(Tickets \ {t})
        /\ Cardinality(Tickets \ {t}) = IF t \in Tickets THEN Cardinality(Tickets) - 1 ELSE Cardinality(Tickets)
    BY <2>1, FS_RemoveElement
  <2>3. Cardinality(Tickets) \in Nat /\ Cardinality(Tickets \ {t}) \in Nat
    BY <2>1, <2>2, FS_CardinalityType
  <2> HIDE DEF Tickets
  <2>4. QED
    BY <1>1, <2>2, <2>3, SMT
<1> HIDE DEF Tickets
<1>3. QED
  BY <1>2, SMT DEF BudgetInv

-----------------------------------------------------------------------------
(***************************************************************************)
(* The faults and the remembered exception.                                *)
(***************************************************************************)
\* A step that raises nothing and reports nothing.
LEMMA FaultsKept ==
  ASSUME FaultsDistinct, NEW t \in Threads, UNCHANGED <<raised, reports>>,
         \A u \in Threads : u # t => handling'[u] = handling[u],
         handling'[t].pc # "running" => handling[t].pc # "running" /\ handling'[t].id = handling[t].id
  PROVE  FaultsDistinct'
<1>1. \A u \in Threads : handling'[u].pc # "running" =>
         handling[u].pc # "running" /\ handling'[u].id = handling[u].id
  OBVIOUS
<1>2. QED
  BY <1>1, Zenon DEF FaultsDistinct

\* A step that neither reports nor remembers only has to see to its own thread.
LEMMA MemoryKept ==
  ASSUME RememberInv, NoBackToBackDuplicate, NEW t \in Threads, UNCHANGED <<last, reports>>,
         \A u \in Threads : u # t => handling'[u] = handling[u],
         Remembered(t)'
  PROVE  RememberInv' /\ NoBackToBackDuplicate'
<1>1. ASSUME NEW u \in Threads, u # t PROVE Remembered(u)'
  <2>1. handling'[u] = handling[u] /\ Remembered(u)
    BY <1>1 DEF RememberInv
  <2>2. QED
    BY <2>1 DEF Remembered, LastReport, Remembering, Searching
<1> HIDE DEF Remembered
<1>2. QED
  BY <1>1 DEF RememberInv, NoBackToBackDuplicate

\* The parts of the state a step has to give types to.
LEMMA TypesOfParts ==
  CrashTypeOK <=>
    /\ alive \in BOOLEAN /\ inHandler \in BOOLEAN /\ abandoned \in BOOLEAN
    /\ crashCount \in Nat /\ raised \in Faults \cup {0}
    /\ last \in [code : Codes \cup {0}, address : Addresses \cup {0}, thread : Threads \cup {0}]
    /\ handling \in [Threads -> Dispatches]
    /\ reports \in Seq(Faults)
BY DEF CrashTypeOK, Dispatches, Points

(* The handler starts with a free flag, a full budget and nothing remembered. *)
LEMMA CrashInitial == Init => CrashInv
<1> SUFFICES ASSUME Init PROVE CrashInv
  OBVIOUS
<1>1. \A t \in Threads : handling[t] = NoFault /\ handling[t].pc = "running"
  BY NoFaultIsDispatch DEF Init
<1>2. CrashTypeOK
  <2>1. handling \in [Threads -> Dispatches]
    BY NoFaultIsDispatch DEF Init
  <2>2. reports \in Seq(Faults)
    BY EmptySeq DEF Init
  <2>3. last \in [code : Codes \cup {0}, address : Addresses \cup {0}, thread : Threads \cup {0}]
    BY DEF Init, NobodyLogged
  <2>4. QED
    BY <2>1, <2>2, <2>3, TypesOfParts DEF Init
<1>3. FlagInv
  BY <1>1 DEF Init, FlagInv, Inside, ReportPcs
<1>4. BudgetInv
  <2>1. Tickets = {}
    BY <1>1 DEF Tickets
  <2>2. IsFiniteSet(Tickets) /\ Cardinality(Tickets) = 0
    BY <2>1, FS_EmptySet
  <2>3. Len(reports) = 0
    BY EmptySeq DEF Init
  <2> HIDE DEF Tickets
  <2>4. QED
    BY <2>2, <2>3, SMT DEF BudgetInv, Init
<1>5. FaultsDistinct
  BY <1>1, SMT DEF Init, FaultsDistinct
<1>6. RememberInv
  BY <1>1 DEF RememberInv, Remembered, Remembering, Searching
<1>7. NoBackToBackDuplicate
  BY SMT DEF Init, NoBackToBackDuplicate
<1>8. QED
  BY <1>2, <1>3, <1>4, <1>5, <1>6, <1>7 DEF CrashInv

-----------------------------------------------------------------------------
\* A step within one fault that crosses neither end of the report: it keeps the
\* flag, the reports and what is remembered.
LEMMA QuietStep ==
  ASSUME CrashInv, NEW t \in Threads, NEW pc, NEW origin,
         UNCHANGED <<inHandler, abandoned, last, raised, reports>>,
         alive' \in BOOLEAN, crashCount' \in Nat,
         handling[t].pc # "running", Becomes(t, Further(t, pc, origin)),
         pc \in ReportPcs <=> Inside(t), BudgetInv',
         Remembered(t)'
  PROVE  CrashInv'
<1>1. CrashTypeOK'
  BY TypesOfParts DEF CrashInv, CrashTypeOK, Becomes, Dispatches, Points
<1>2. handling'[t].pc = pc /\ handling'[t].id = handling[t].id
  BY DEF Becomes, Further
<1>3. FlagInv'
  BY <1>2, FlagKept DEF CrashInv, Becomes, Inside
<1>4. FaultsDistinct'
  BY <1>2, FaultsKept DEF CrashInv, Becomes
<1>5. RememberInv' /\ NoBackToBackDuplicate'
  BY MemoryKept DEF CrashInv, Becomes
<1>6. QED
  BY <1>1, <1>3, <1>4, <1>5 DEF CrashInv

\* A thread whose fault is over is running again, outside the report.
LEMMA FaultOver ==
  ASSUME CrashInv, NEW t \in Threads, UNCHANGED <<inHandler, abandoned, last, raised, reports, crashCount>>,
         alive' \in BOOLEAN, ~Inside(t), ~HasTicket(t), Becomes(t, NoFault)
  PROVE  CrashInv'
<1>1. handling'[t].pc = "running"
  BY NoFaultIsDispatch DEF Becomes
<1>2. CrashTypeOK'
  BY TypesOfParts DEF CrashInv, CrashTypeOK, Becomes, Dispatches, Points
<1>3. FlagInv'
  BY <1>1, FlagKept DEF CrashInv, Becomes, Inside, ReportPcs
<1>4. crashCount \in Nat /\ Len(reports) \in Nat
  BY LenProperties DEF CrashInv, CrashTypeOK
<1>5. BudgetInv'
  BY <1>1, <1>4, TicketsKept, SMT DEF CrashInv, Becomes, HasTicket
<1>6. FaultsDistinct'
  BY <1>1, FaultsKept DEF CrashInv, Becomes
<1>7. Remembered(t)'
  BY <1>1 DEF Remembered, Remembering, Searching
<1>8. RememberInv' /\ NoBackToBackDuplicate'
  BY <1>7, MemoryKept DEF CrashInv, Becomes
<1>9. QED
  BY <1>2, <1>3, <1>5, <1>6, <1>8 DEF CrashInv

-----------------------------------------------------------------------------
(***************************************************************************)
(* One lemma per action.                                                   *)
(***************************************************************************)
\* A new fault has a number nobody has and no report shows.
LEMMA NewFaultStep ==
  ASSUME CrashInv, NEW t \in Threads, handling[t].pc = "running", NextFault \in Faults,
         raised' = NextFault, NEW d \in Dispatches, d.id = NextFault, d.pc \in {"count", "search"},
         handling' = [handling EXCEPT ![t] = d],
         UNCHANGED <<alive, crashCount, inHandler, last, reports, abandoned>>
  PROVE  CrashInv'
<1>1. handling \in [Threads -> Dispatches] /\ raised \in Nat /\ crashCount \in Nat /\ Len(reports) \in Nat
  BY TypesOfParts, LenProperties, SMT DEF CrashInv, Faults
<1>2. Becomes(t, d)
  BY <1>1, DispatchReplaced
<1>3. CrashTypeOK'
  BY <1>2, TypesOfParts DEF CrashInv, CrashTypeOK, Becomes, Dispatches, Points
<1>4. FlagInv'
  BY <1>2, FlagKept DEF CrashInv, Becomes, Inside, ReportPcs
<1>5. BudgetInv'
  BY <1>1, <1>2, TicketsKept, SMT DEF CrashInv, Becomes, HasTicket
<1>6. \A n \in 1 .. raised : n \in 1 .. raised' /\ n # raised'
  BY <1>1, SMT DEF NextFault
<1>7. FaultsDistinct'
  <2>1. \A u \in Threads : u # t /\ handling'[u].pc # "running" =>
          handling'[u] = handling[u] /\ handling[u].id \in 1 .. raised
    BY <1>2 DEF CrashInv, FaultsDistinct, Becomes
  <2>2. handling'[t].id = raised' /\ raised' \in 1 .. raised'
    BY <1>1, <1>2, SMT DEF Becomes, NextFault
  <2>3. \A u \in Threads : handling'[u].pc # "running" => handling'[u].id \in 1 .. raised'
    BY <1>6, <2>1, <2>2
  <2>4. \A u, v \in Threads : handling'[u].pc # "running" /\ handling'[v].pc # "running"
                              /\ handling'[u].id = handling'[v].id => u = v
    BY <1>6, <2>1, <2>2 DEF CrashInv, FaultsDistinct
  <2>5. \A k \in 1 .. Len(reports') : reports'[k] \in 1 .. raised'
    BY <1>6 DEF CrashInv, FaultsDistinct
  <2>6. QED
    BY <2>3, <2>4, <2>5 DEF FaultsDistinct
<1>8. LastReport # NextFault
  <2>1. CASE reports = <<>>
    BY <1>1, <2>1, SMT DEF LastReport, NextFault
  <2>2. CASE reports # <<>>
    <3>1. reports \in Seq(Faults)
      BY DEF CrashInv, CrashTypeOK
    <3>2. Len(reports) \in Nat \ {0}
      BY <2>2, <3>1, EmptySeq
    <3>3. Len(reports) \in 1 .. Len(reports)
      BY <3>2, SMT
    <3>4. QED
      BY <1>6, <2>2, <3>3 DEF LastReport, CrashInv, FaultsDistinct
  <2>3. QED
    BY <2>1, <2>2
<1>9. Remembered(t)'
  BY <1>2, <1>8 DEF Remembered, Remembering, Searching, Becomes, LastReport
<1>10. RememberInv' /\ NoBackToBackDuplicate'
  BY <1>2, <1>9, MemoryKept DEF CrashInv, Becomes
<1>11. QED
  BY <1>3, <1>4, <1>5, <1>7, <1>10 DEF CrashInv

(* A fault that begins enters the vectored or the unhandled handler with nothing of the report. *)
LEMMA RaiseStep ==
  ASSUME CrashInv, NEW t \in Threads, NEW code \in Codes, NEW address \in Addresses, Raise(t, code, address)
  PROVE  CrashInv'
<1> DEFINE d == [pc |-> IF IsFatalCode(code) THEN "count" ELSE "search", id |-> NextFault,
                 code |-> code, address |-> address, origin |-> "vectored"]
<1>1. d \in Dispatches /\ d.id = NextFault /\ d.pc \in {"count", "search"}
  BY DEF Raise, Dispatches, Points, Origins
<1>2. handling' = [handling EXCEPT ![t] = d]
  BY DEF Raise
<1> HIDE DEF d
<1>3. QED
  BY <1>1, <1>2, NewFaultStep DEF Raise, At

(* A CRT failure enters the same report by its own path. *)
LEMMA RuntimeFailureStep ==
  ASSUME CrashInv, NEW t \in Threads, NEW address \in Addresses, RuntimeFailure(t, address)
  PROVE  CrashInv'
<1> DEFINE d == [pc |-> "count", id |-> NextFault, code |-> FatalAppExit,
                 address |-> address, origin |-> "runtime"]
<1>1. d \in Dispatches /\ d.id = NextFault /\ d.pc \in {"count", "search"}
  BY DEF RuntimeFailure, Dispatches, Points, Origins
<1>2. handling' = [handling EXCEPT ![t] = d]
  BY DEF RuntimeFailure
<1> HIDE DEF d
<1>3. QED
  BY <1>1, <1>2, NewFaultStep DEF RuntimeFailure, At

\* The types the arithmetic of the budget needs.
LEMMA CountTypes ==
  ASSUME CrashInv
  PROVE  /\ handling \in [Threads -> Dispatches] /\ crashCount \in Nat /\ Len(reports) \in Nat
         /\ crashCount + 1 \in Nat /\ crashCount + 1 >= crashCount /\ crashCount >= crashCount
         /\ Len(reports) <= Len(reports) + 1
BY TypesOfParts, LenProperties, SMT DEF CrashInv

(* Counting a crash takes one of the budget, or gives the report up. *)
LEMMA CountStep ==
  ASSUME CrashInv, NEW t \in Threads, CountCrash(t)
  PROVE  CrashInv'
<1>1. /\ handling[t].pc = "count" /\ LastReport # handling[t].id
      /\ UNCHANGED <<alive, inHandler, last, raised, reports, abandoned>>
      /\ crashCount' = crashCount + 1 /\ alive' \in BOOLEAN
  BY DEF CountCrash, At, CrashInv, RememberInv, Remembered, CrashTypeOK
<1>2. CASE crashCount' > MaxCrashLogs /\ GiveUp(t)
  <2>1. PICK pc \in {"search", "chain", "terminate"} : Becomes(t, Further(t, pc, handling[t].origin))
    BY <1>2, CountTypes, GivenUp
  <2>2. BudgetInv'
    BY <1>1, <2>1, CountTypes, TicketsKept DEF CrashInv, Becomes, HasTicket, Further
  <2>3. Remembered(t)'
    <3>1. handling'[t].pc = pc /\ handling'[t].id = handling[t].id
      BY <2>1 DEF Becomes, Further
    <3>2. QED
      BY <1>1, <3>1 DEF Remembered, Remembering, Searching, LastReport
  <2>4. QED
    BY <1>1, <2>1, <2>2, <2>3, CountTypes, QuietStep DEF Inside, ReportPcs
<1>3. CASE crashCount' <= MaxCrashLogs /\ Goto(t, "enter")
  <2>1. Becomes(t, Further(t, "enter", handling[t].origin))
    BY <1>3, CountTypes, DispatchMoved DEF Points
  <2>2. BudgetInv'
    BY <1>1, <1>3, <2>1, CountTypes, TicketTaken DEF CrashInv, Becomes, HasTicket, Further
  <2>3. Remembered(t)'
    BY <1>1, <2>1 DEF Remembered, Remembering, Searching, Becomes, Further, LastReport
  <2>4. QED
    BY <1>1, <2>1, <2>2, <2>3, CountTypes, QuietStep DEF Inside, ReportPcs
<1>4. crashCount' > MaxCrashLogs \/ crashCount' <= MaxCrashLogs
  BY <1>1, CountTypes, SMT
<1>5. QED
  BY <1>2, <1>3, <1>4, CountTypes, SMT DEF CountCrash

\* With the flag set the ticket is lost; otherwise the thread enters alone.
LEMMA EnterReportStep ==
  ASSUME CrashInv, NEW t \in Threads, EnterReport(t)
  PROVE  CrashInv'
<1>1. /\ handling[t].pc = "enter" /\ LastReport # handling[t].id /\ inHandler' = TRUE
      /\ UNCHANGED <<alive, crashCount, last, raised, reports, abandoned>>
      /\ alive' \in BOOLEAN /\ inHandler \in BOOLEAN
  BY DEF EnterReport, At, CrashInv, RememberInv, Remembered, CrashTypeOK
<1>2. CASE inHandler /\ GiveUp(t)
  <2>1. PICK pc \in {"search", "chain", "terminate"} : Becomes(t, Further(t, pc, handling[t].origin))
    BY <1>2, CountTypes, GivenUp
  <2>2. BudgetInv'
    BY <1>1, <2>1, CountTypes, TicketGone DEF CrashInv, Becomes, HasTicket, Further
  <2>3. Remembered(t)'
    <3>1. handling'[t].pc = pc /\ handling'[t].id = handling[t].id
      BY <2>1 DEF Becomes, Further
    <3>2. QED
      BY <1>1, <3>1 DEF Remembered, Remembering, Searching, LastReport
  <2>4. UNCHANGED inHandler
    BY <1>1, <1>2
  <2>5. QED
    BY <1>1, <2>1, <2>2, <2>3, <2>4, CountTypes, QuietStep DEF Inside, ReportPcs
<1>3. CASE ~inHandler /\ Goto(t, "open")
  <2>1. Becomes(t, Further(t, "open", handling[t].origin))
    BY <1>3, CountTypes, DispatchMoved DEF Points, ReportPcs
  <2>2. handling'[t].pc = "open" /\ handling'[t].id = handling[t].id
    BY <2>1 DEF Becomes, Further
  <2>3. CrashTypeOK'
    BY <1>1, <2>1, TypesOfParts DEF CrashInv, CrashTypeOK, Becomes, Dispatches, Points
  <2>4. FlagInv'
    BY <1>1, <1>3, <2>1, <2>2, FlagTaken DEF CrashInv, Becomes, Inside, ReportPcs
  <2>5. BudgetInv'
    BY <1>1, <2>1, <2>2, CountTypes, TicketsKept DEF CrashInv, Becomes, HasTicket
  <2>6. FaultsDistinct'
    BY <1>1, <2>1, <2>2, FaultsKept DEF CrashInv, Becomes
  <2>7. Remembered(t)'
    BY <1>1, <2>2 DEF Remembered, Remembering, Searching, LastReport
  <2>8. RememberInv' /\ NoBackToBackDuplicate'
    BY <1>1, <2>1, <2>7, MemoryKept DEF CrashInv, Becomes
  <2>9. QED
    BY <2>3, <2>4, <2>5, <2>6, <2>8 DEF CrashInv
<1>4. QED
  BY <1>1, <1>2, <1>3 DEF EnterReport

\* Leaving the report early or at its end: the flag is cleared.
LEMMA OutOfReport ==
  ASSUME CrashInv, NEW t \in Threads, Inside(t), inHandler' = FALSE,
         UNCHANGED <<alive, crashCount, last, raised, reports, abandoned>>,
         NEW pc \in {"search", "chain", "terminate"}, Becomes(t, Further(t, pc, handling[t].origin)),
         LastReport = handling[t].id =>
           last = [code |-> handling[t].code, address |-> handling[t].address, thread |-> t]
  PROVE  CrashInv'
<1>1. /\ handling'[t].pc = pc /\ handling'[t].id = handling[t].id
      /\ handling'[t].code = handling[t].code /\ handling'[t].address = handling[t].address
  BY DEF Becomes, Further
<1>2. CrashTypeOK'
  BY TypesOfParts DEF CrashInv, CrashTypeOK, Becomes, Dispatches, Points
<1>3. FlagInv'
  BY <1>1, FlagCleared DEF CrashInv, Becomes, Inside, ReportPcs
<1>4. BudgetInv'
  <2>1. CASE HasTicket(t)
    BY <1>1, <2>1, CountTypes, TicketGone DEF CrashInv, Becomes, HasTicket
  <2>2. CASE ~HasTicket(t)
    BY <1>1, <2>2, CountTypes, TicketsKept DEF CrashInv, Becomes, HasTicket
  <2>3. QED
    BY <2>1, <2>2
<1>5. FaultsDistinct'
  BY <1>1, FaultsKept DEF CrashInv, Becomes, Inside, ReportPcs
<1>6. Remembered(t)'
  BY <1>1 DEF Remembered, Remembering, Searching, LastReport
<1>7. RememberInv' /\ NoBackToBackDuplicate'
  BY <1>6, MemoryKept DEF CrashInv, Becomes
<1>8. QED
  BY <1>2, <1>3, <1>4, <1>5, <1>7 DEF CrashInv

(* Opening the file succeeds or leaves the report, flag still held. *)
LEMMA OpenStep ==
  ASSUME CrashInv, NEW t \in Threads, OpenCrashLog(t)
  PROVE  CrashInv'
<1>1. /\ handling[t].pc = "open" /\ LastReport # handling[t].id /\ alive' \in BOOLEAN
      /\ UNCHANGED <<alive, crashCount, last, raised, reports, abandoned>>
  BY DEF OpenCrashLog, At, CrashInv, RememberInv, Remembered, CrashTypeOK
<1>2. CASE Goto(t, "write") /\ UNCHANGED inHandler
  <2>1. Becomes(t, Further(t, "write", handling[t].origin))
    BY <1>2, CountTypes, DispatchMoved DEF Points, ReportPcs
  <2>2. BudgetInv'
    BY <1>1, <2>1, CountTypes, TicketsKept DEF CrashInv, Becomes, HasTicket, Further
  <2>3. Remembered(t)'
    BY <1>1, <2>1 DEF Remembered, Remembering, Searching, Becomes, Further, LastReport
  <2>4. QED
    BY <1>1, <1>2, <2>1, <2>2, <2>3, CountTypes, QuietStep DEF Inside, ReportPcs
<1>3. CASE GiveUp(t) /\ inHandler' = FALSE
  <2>1. PICK pc \in {"search", "chain", "terminate"} : Becomes(t, Further(t, pc, handling[t].origin))
    BY <1>3, CountTypes, GivenUp
  <2>2. QED
    BY <1>1, <1>3, <2>1, OutOfReport DEF Inside, ReportPcs
<1>4. QED
  BY <1>2, <1>3 DEF OpenCrashLog

(* Leaving the report gives the flag back; only its holder does. *)
LEMMA LeaveReportStep ==
  ASSUME CrashInv, NEW t \in Threads, LeaveReport(t)
  PROVE  CrashInv'
<1>1. /\ handling[t].pc = "leave" /\ inHandler' = FALSE
      /\ last = [code |-> handling[t].code, address |-> handling[t].address, thread |-> t]
      /\ UNCHANGED <<alive, crashCount, last, raised, reports, abandoned>>
  BY DEF LeaveReport, At, CrashInv, RememberInv, Remembered
<1>2. PICK pc \in {"search", "chain", "terminate"} : Becomes(t, Further(t, pc, handling[t].origin))
  BY CountTypes, GivenUp DEF LeaveReport
<1>3. QED
  BY <1>1, <1>2, OutOfReport DEF Inside, ReportPcs

\* The report names a fault that was not the last one reported.
LEMMA WriteStep ==
  ASSUME CrashInv, NEW t \in Threads, WriteAndClose(t)
  PROVE  CrashInv'
<1> DEFINE f == handling[t].id
<1>1. /\ handling[t].pc = "write" /\ LastReport # f /\ alive' \in BOOLEAN
      /\ UNCHANGED <<alive, crashCount, inHandler, last, raised, abandoned>>
      /\ reports' = Append(reports, f)
  BY DEF WriteAndClose, At, CrashInv, RememberInv, Remembered, CrashTypeOK
<1>2. Becomes(t, Further(t, "remember_code", handling[t].origin))
  BY CountTypes, DispatchMoved DEF WriteAndClose, Points, ReportPcs
<1>3. handling'[t].pc = "remember_code" /\ handling'[t].id = f
  BY <1>2, FurtherFields
<1>4. f \in 1 .. raised /\ raised \in Nat /\ f \in Faults
  <2>1. f \in 1 .. raised
    BY <1>1 DEF CrashInv, FaultsDistinct
  <2>2. raised \in 0 .. MaxFaults
    <3>1. raised \in Faults \cup {0}
      BY DEF CrashInv, CrashTypeOK
    <3>2. QED
      BY <3>1, SMT DEF Faults
  <2>3. QED
    BY <2>1, <2>2, SMT DEF Faults
<1>5. /\ reports \in Seq(Faults) /\ reports' \in Seq(Faults) /\ Len(reports) \in Nat
      /\ Len(reports') = Len(reports) + 1 /\ Len(reports') \in Nat /\ Len(reports') <= Len(reports) + 1
      /\ \A k \in 1 .. Len(reports) : reports'[k] = reports[k]
      /\ reports'[Len(reports) + 1] = f
  <2>1. reports \in Seq(Faults)
    BY DEF CrashInv, CrashTypeOK
  <2>2. QED
    BY <1>1, <1>4, <2>1, AppendProperties, LenProperties, SMT
<1>6. CrashTypeOK'
  BY <1>1, <1>2, <1>5, TypesOfParts DEF CrashInv, CrashTypeOK, Becomes, Dispatches, Points
<1>7. FlagInv'
  BY <1>1, <1>2, <1>3, FlagKept DEF CrashInv, Becomes, Inside, ReportPcs
<1>8. BudgetInv'
  BY <1>1, <1>2, <1>3, <1>5, CountTypes, TicketGone DEF CrashInv, Becomes, HasTicket
<1>9. \A k \in 1 .. Len(reports') : k \in 1 .. Len(reports) \/ k = Len(reports) + 1
  BY <1>5, SMT
<1>10. FaultsDistinct'
  <2>1. \A u \in Threads : handling'[u].pc # "running" =>
          handling[u].pc # "running" /\ handling'[u].id = handling[u].id
    BY <1>1, <1>2, <1>3 DEF Becomes
  <2>2. \A k \in 1 .. Len(reports') : reports'[k] \in 1 .. raised
    BY <1>4, <1>5, <1>9 DEF CrashInv, FaultsDistinct
  <2>3. QED
    BY <1>1, <2>1, <2>2, Zenon DEF CrashInv, FaultsDistinct
<1>11. LastReport' = f
  <2>1. reports' # <<>>
    BY <1>5, EmptySeq, SMT
  <2>2. QED
    BY <1>5, <2>1 DEF LastReport
<1>12. RememberInv'
  <2>1. Remembered(t)'
    BY <1>3, <1>11 DEF Remembered, Remembering, Searching
  <2>2. ASSUME NEW u \in Threads, u # t PROVE Remembered(u)'
    <3>1. handling'[u] = handling[u] /\ ~Inside(u)
      BY <1>1, <1>2, <2>2 DEF Becomes, CrashInv, FlagInv, Inside, ReportPcs
    <3>2. handling[u].pc # "running" => handling[u].id # f
      BY <1>1, <2>2 DEF CrashInv, FaultsDistinct
    <3>3. QED
      BY <1>11, <3>1, <3>2 DEF Remembered, Remembering, Searching, Inside, ReportPcs
  <2> HIDE DEF Remembered
  <2>3. QED
    BY <2>1, <2>2 DEF RememberInv
<1>13. NoBackToBackDuplicate'
  <2> SUFFICES ASSUME NEW k \in 1 .. Len(reports') - 1 PROVE reports'[k] # reports'[k + 1]
    BY DEF NoBackToBackDuplicate
  <2>1. k \in 1 .. Len(reports) /\ (k \in 1 .. Len(reports) - 1 \/ k = Len(reports))
    BY <1>5, SMT
  <2>2. CASE k \in 1 .. Len(reports) - 1
    <3>1. k + 1 \in 1 .. Len(reports)
      BY <1>5, <2>2, SMT
    <3>2. QED
      BY <1>5, <2>1, <2>2, <3>1 DEF CrashInv, NoBackToBackDuplicate
  <2>3. CASE k = Len(reports)
    <3>1. reports # <<>>
      BY <1>5, <2>1, <2>3, EmptySeq, SMT
    <3>2. reports[k] # f
      BY <1>1, <2>3, <3>1 DEF LastReport
    <3>3. QED
      BY <1>5, <2>1, <2>3, <3>2
  <2>4. QED
    BY <2>1, <2>2, <2>3
<1>14. QED
  BY <1>6, <1>7, <1>8, <1>10, <1>12, <1>13 DEF CrashInv

\* A fault inside the report ends the process or abandons the report for good.
LEMMA NestedStep ==
  ASSUME CrashInv, NEW t \in Threads, FaultInReport(t)
  PROVE  CrashInv'
<1>1. /\ handling[t].pc = "write" /\ crashCount' = crashCount + 1 /\ crashCount' \in Nat /\ crashCount' >= crashCount
      /\ UNCHANGED <<inHandler, last, raised, reports>>
  BY CountTypes DEF FaultInReport, At
<1>2. CASE alive' = FALSE /\ UNCHANGED <<handling, abandoned>>
  <2>1. CrashTypeOK' /\ FlagInv' /\ FaultsDistinct' /\ RememberInv' /\ NoBackToBackDuplicate'
    BY <1>1, <1>2 DEF CrashInv, CrashTypeOK, FlagInv, FaultsDistinct, RememberInv, NoBackToBackDuplicate, Inside,
       Remembered, Remembering, Searching, LastReport
  <2>2. BudgetInv'
    BY <1>1, <1>2, CountTypes, TicketsKept DEF CrashInv, HasTicket
  <2>3. QED
    BY <2>1, <2>2 DEF CrashInv
<1>3. CASE handling' = [handling EXCEPT ![t] = NoFault] /\ abandoned' = TRUE /\ UNCHANGED alive
  <2>1. Becomes(t, NoFault) /\ handling'[t].pc = "running"
    BY <1>3, CountTypes, NoFaultIsDispatch, DispatchReplaced DEF Becomes
  <2>2. CrashTypeOK'
    BY <1>1, <1>3, <2>1, TypesOfParts DEF CrashInv, CrashTypeOK, Becomes, Dispatches, Points
  <2>3. FlagInv'
    BY <1>1, <1>3, <2>1, FlagCleared DEF CrashInv, Becomes, Inside, ReportPcs
  <2>4. BudgetInv'
    BY <1>1, <2>1, CountTypes, TicketGone DEF CrashInv, Becomes, HasTicket
  <2>5. FaultsDistinct'
    BY <1>1, <2>1, FaultsKept DEF CrashInv, Becomes
  <2>6. Remembered(t)'
    BY <2>1 DEF Remembered, Remembering, Searching
  <2>7. RememberInv' /\ NoBackToBackDuplicate'
    BY <1>1, <2>1, <2>6, MemoryKept DEF CrashInv, Becomes
  <2>8. QED
    BY <2>2, <2>3, <2>4, <2>5, <2>7 DEF CrashInv
<1>4. QED
  BY <1>2, <1>3 DEF FaultInReport

\* One of the three exchanges: only the thread inside the report is touched by
\* it, because the last report is that thread's.
LEMMA ExchangeStep ==
  ASSUME CrashInv, NEW t \in Threads, Remembering(t), NEW pc \in {"remember_address", "remember_thread", "leave"},
         Goto(t, pc), last' \in [code : Codes \cup {0}, address : Addresses \cup {0}, thread : Threads \cup {0}],
         UNCHANGED <<alive, crashCount, inHandler, raised, reports, abandoned>>,
         pc = "remember_address" => last'.code = handling[t].code,
         pc = "remember_thread" => last'.code = handling[t].code /\ last'.address = handling[t].address,
         pc = "leave" => last' = [code |-> handling[t].code, address |-> handling[t].address, thread |-> t]
  PROVE  CrashInv'
<1>1. Becomes(t, Further(t, pc, handling[t].origin))
  BY CountTypes, DispatchMoved DEF Points, ReportPcs
<1>2. /\ handling'[t].pc = pc /\ handling'[t].id = handling[t].id
      /\ handling'[t].code = handling[t].code /\ handling'[t].address = handling[t].address
  BY <1>1, FurtherFields
<1>3. LastReport' = LastReport /\ LastReport = handling[t].id
  BY DEF LastReport, CrashInv, RememberInv, Remembered
<1>4. CrashTypeOK'
  BY <1>1, TypesOfParts DEF CrashInv, CrashTypeOK, Becomes, Dispatches, Points
<1>5. FlagInv'
  BY <1>1, <1>2, FlagKept DEF CrashInv, Becomes, Inside, ReportPcs, Remembering
<1>6. BudgetInv'
  BY <1>1, <1>2, CountTypes, TicketsKept DEF CrashInv, Becomes, HasTicket, Remembering
<1>7. FaultsDistinct'
  BY <1>1, <1>2, FaultsKept DEF CrashInv, Becomes, Remembering
<1>8. Remembered(t)'
  BY <1>2, <1>3 DEF Remembered, Remembering, Searching
<1>9. ASSUME NEW u \in Threads, u # t PROVE Remembered(u)'
  <2>1. handling'[u] = handling[u] /\ ~Inside(u) /\ Remembered(u)
    BY <1>1, <1>9 DEF Becomes, CrashInv, FlagInv, RememberInv, Inside, ReportPcs, Remembering
  <2>2. handling[u].pc # "running" => handling[u].id # handling[t].id
    BY <1>9 DEF CrashInv, FaultsDistinct, Remembering
  <2>3. QED
    BY <1>3, <2>1, <2>2 DEF Remembered, Remembering, Searching, Inside, ReportPcs
<1> HIDE DEF Remembered
<1>10. RememberInv' /\ NoBackToBackDuplicate'
  BY <1>8, <1>9 DEF RememberInv, CrashInv, NoBackToBackDuplicate
<1>11. QED
  BY <1>4, <1>5, <1>6, <1>7, <1>10 DEF CrashInv

\* What the exchanges replace in the remembered exception.
LEMMA LastFields ==
  ASSUME last \in [code : Codes \cup {0}, address : Addresses \cup {0}, thread : Threads \cup {0}]
  PROVE  /\ \A c : [last EXCEPT !.code = c] = [code |-> c, address |-> last.address, thread |-> last.thread]
         /\ \A a : [last EXCEPT !.address = a] = [code |-> last.code, address |-> a, thread |-> last.thread]
         /\ \A u : [last EXCEPT !.thread = u] = [code |-> last.code, address |-> last.address, thread |-> u]
         /\ last = [code |-> last.code, address |-> last.address, thread |-> last.thread]
         /\ last.code \in Codes \cup {0} /\ last.address \in Addresses \cup {0} /\ last.thread \in Threads \cup {0}
<1> DEFINE T == Threads \cup {0}
           C == Codes \cup {0}
           A == Addresses \cup {0}
<1>1. last \in [code : C, address : A, thread : T]
  OBVIOUS
<1> HIDE DEF T, C, A
<1>2. /\ \A c : [last EXCEPT !.code = c] = [code |-> c, address |-> last.address, thread |-> last.thread]
      /\ \A a : [last EXCEPT !.address = a] = [code |-> last.code, address |-> a, thread |-> last.thread]
      /\ \A u : [last EXCEPT !.thread = u] = [code |-> last.code, address |-> last.address, thread |-> u]
      /\ last = [code |-> last.code, address |-> last.address, thread |-> last.thread]
      /\ last.code \in C /\ last.address \in A /\ last.thread \in T
  BY <1>1, SMT
<1>3. QED
  BY <1>2 DEF T, C, A

\* The three exchanges, one at a time.
LEMMA RememberStep ==
  ASSUME CrashInv, NEW t \in Threads, RememberLoggedException(t)
  PROVE  CrashInv'
<1> DEFINE c == handling[t].code
           a == handling[t].address
           Logged == [code : Codes \cup {0}, address : Addresses \cup {0}, thread : Threads \cup {0}]
<1>1. UNCHANGED <<alive, crashCount, inHandler, raised, reports, abandoned>>
  BY DEF RememberLoggedException
<1>2. last \in Logged /\ Remembered(t) /\ c \in Codes \cup {0} /\ a \in Addresses \cup {0}
  <2>1. handling[t] \in Dispatches
    BY CountTypes
  <2>2. QED
    BY <2>1, DispatchFields DEF CrashInv, CrashTypeOK, RememberInv
<1>3. \A x \in Codes \cup {0}, y \in Addresses \cup {0}, z \in Threads \cup {0} :
        /\ [code |-> x, address |-> y, thread |-> z] \in Logged
        /\ [code |-> x, address |-> y, thread |-> z].code = x
        /\ [code |-> x, address |-> y, thread |-> z].address = y
  OBVIOUS
<1> HIDE DEF Logged
<1>4. CASE handling[t].pc = "remember_code" /\ last' = [last EXCEPT !.code = c] /\ Goto(t, "remember_address")
  <2>1. last' = [code |-> c, address |-> last.address, thread |-> last.thread]
    BY <1>2, <1>4, LastFields DEF Logged
  <2>2. last' \in Logged /\ last'.code = c
    BY <1>2, <1>3, <2>1, LastFields DEF Logged
  <2>3. Remembering(t)
    BY <1>4 DEF Remembering
  <2>4. QED
    BY <1>1, <1>4, <2>2, <2>3, ExchangeStep DEF Logged
<1>5. CASE handling[t].pc = "remember_address" /\ last' = [last EXCEPT !.address = a] /\ Goto(t, "remember_thread")
  <2>1. last' = [code |-> last.code, address |-> a, thread |-> last.thread] /\ last.code = c
    BY <1>2, <1>5, LastFields DEF Logged, Remembered
  <2>2. last' \in Logged /\ last'.code = c /\ last'.address = a
    BY <1>2, <1>3, <2>1, LastFields DEF Logged
  <2>3. Remembering(t)
    BY <1>5 DEF Remembering
  <2>4. QED
    BY <1>1, <1>5, <2>2, <2>3, ExchangeStep DEF Logged
<1>6. CASE handling[t].pc = "remember_thread" /\ last' = [last EXCEPT !.thread = t] /\ Goto(t, "leave")
  <2>1. last' = [code |-> last.code, address |-> last.address, thread |-> t] /\ last.code = c /\ last.address = a
    BY <1>2, <1>6, LastFields DEF Logged, Remembered
  <2>2. last' \in Logged /\ last' = [code |-> c, address |-> a, thread |-> t]
    BY <1>2, <1>3, <2>1
  <2>3. Remembering(t)
    BY <1>6 DEF Remembering
  <2>4. QED
    BY <1>1, <1>6, <2>2, <2>3, ExchangeStep DEF Logged
<1>7. QED
  BY <1>4, <1>5, <1>6 DEF RememberLoggedException, At

\* A handler of the code, or the previous filter, ends the dispatch.
LEMMA ResumeStep ==
  ASSUME CrashInv, NEW t \in Threads, HandledByCode(t) \/ PreviousFilterResumes(t)
  PROVE  CrashInv'
<1>1. /\ handling[t].pc \in {"search", "chain"} /\ alive' \in BOOLEAN
      /\ handling' = [handling EXCEPT ![t] = NoFault]
      /\ UNCHANGED <<inHandler, abandoned, last, raised, reports, crashCount>>
  BY DEF HandledByCode, PreviousFilterResumes, At, CrashInv, CrashTypeOK
<1>2. Becomes(t, NoFault)
  BY <1>1, CountTypes, NoFaultIsDispatch, DispatchReplaced
<1>3. ~Inside(t) /\ ~HasTicket(t)
  BY <1>1 DEF Inside, HasTicket, ReportPcs
<1>4. QED
  BY <1>1, <1>2, <1>3, FaultOver

\* On the way from the search to the chain nothing but the dispatch changes.
LEMMA SearchStep ==
  ASSUME CrashInv, NEW t \in Threads, Searching(t), NEW origin,
         NEW pc \in {"match_code", "match_address", "match_thread", "chain", "count"},
         pc = "count" => LastReport # handling[t].id,
         Becomes(t, Further(t, pc, origin)),
         UNCHANGED <<alive, crashCount, inHandler, last, raised, reports, abandoned>>
  PROVE  CrashInv'
<1>1. /\ handling'[t].pc = pc /\ handling'[t].id = handling[t].id
      /\ handling'[t].code = handling[t].code /\ handling'[t].address = handling[t].address
  BY FurtherFields
<1>2. alive' \in BOOLEAN /\ crashCount' \in Nat /\ Remembered(t) /\ handling[t].pc # "running"
  BY DEF CrashInv, CrashTypeOK, RememberInv, Searching
<1>3. BudgetInv'
  BY <1>1, CountTypes, TicketsKept DEF CrashInv, Becomes, HasTicket, Searching
<1>4. Remembered(t)'
  BY <1>1, <1>2 DEF Remembered, Remembering, Searching, LastReport
<1>5. pc \in ReportPcs <=> Inside(t)
  BY DEF Inside, ReportPcs, Searching
<1>6. QED
  BY <1>2, <1>3, <1>4, <1>5, QuietStep

(* A fault nobody handles goes on to the unhandled handler, and nothing else changes. *)
LEMMA NobodyStep ==
  ASSUME CrashInv, NEW t \in Threads, NobodyHandles(t)
  PROVE  CrashInv'
<1>1. Searching(t) /\ UNCHANGED <<alive, crashCount, inHandler, last, raised, reports, abandoned>>
  BY DEF NobodyHandles, At, Searching
<1>2. Becomes(t, Further(t, "match_code", handling[t].origin))
  BY CountTypes, DispatchMoved DEF NobodyHandles, Points
<1>3. QED
  BY <1>1, <1>2, SearchStep

\* A comparison may only fail for a fault that was not the last one reported.
LEMMA CompareStep ==
  ASSUME CrashInv, NEW t \in Threads, NEW pc \in {"match_code", "match_address", "match_thread"},
         NEW equal \in BOOLEAN, NEW next \in {"match_address", "match_thread", "chain"},
         Compare(t, pc, equal, next), LastReport = handling[t].id => equal
  PROVE  CrashInv'
<1>1. Searching(t) /\ UNCHANGED <<alive, crashCount, inHandler, last, raised, reports, abandoned>>
  BY DEF Compare, At, Searching
<1>2. CASE equal
  <2>1. Becomes(t, Further(t, next, handling[t].origin))
    BY <1>2, CountTypes, DispatchMoved DEF Compare, Points
  <2>2. QED
    BY <1>1, <2>1, SearchStep
<1>3. CASE ~equal
  <2>1. Becomes(t, Further(t, "count", "unhandled"))
    BY <1>3, CountTypes, DispatchRetried DEF Compare
  <2>2. QED
    BY <1>1, <1>3, <2>1, SearchStep
<1>4. QED
  BY <1>2, <1>3

\* The last one reported finds its own code, address and thread remembered.
LEMMA MatchStep ==
  ASSUME CrashInv, NEW t \in Threads, MatchesLastLoggedException(t)
  PROVE  CrashInv'
<1>1. ASSUME Searching(t), LastReport = handling[t].id
      PROVE  last.code = handling[t].code /\ last.address = handling[t].address /\ last.thread = t
  <2>1. last = [code |-> handling[t].code, address |-> handling[t].address, thread |-> t]
    BY <1>1 DEF CrashInv, RememberInv, Remembered
  <2>2. QED
    BY <2>1
<1>2. CASE Compare(t, "match_code", last.code = handling[t].code, "match_address")
  <2>1. Searching(t)
    BY <1>2 DEF Compare, At, Searching
  <2>2. QED
    BY <1>1, <1>2, <2>1, CompareStep
<1>3. CASE Compare(t, "match_address", last.address = handling[t].address, "match_thread")
  <2>1. Searching(t)
    BY <1>3 DEF Compare, At, Searching
  <2>2. QED
    BY <1>1, <1>3, <2>1, CompareStep
<1>4. CASE Compare(t, "match_thread", last.thread = t, "chain")
  <2>1. Searching(t)
    BY <1>4 DEF Compare, At, Searching
  <2>2. QED
    BY <1>1, <1>4, <2>1, CompareStep
<1>5. QED
  BY <1>2, <1>3, <1>4 DEF MatchesLastLoggedException

\* The end of the process, or a stutter, moves no dispatch.
LEMMA EndStep ==
  ASSUME CrashInv, alive' \in BOOLEAN,
         UNCHANGED <<crashCount, inHandler, last, handling, raised, reports, abandoned>>
  PROVE  CrashInv'
<1>1. CrashTypeOK' /\ FlagInv' /\ FaultsDistinct' /\ RememberInv' /\ NoBackToBackDuplicate'
  BY DEF CrashInv, CrashTypeOK, FlagInv, FaultsDistinct, RememberInv, NoBackToBackDuplicate, Inside,
     Remembered, Remembering, Searching, LastReport
<1>2. BudgetInv'
  BY DEF CrashInv, BudgetInv, Tickets
<1>3. QED
  BY <1>1, <1>2 DEF CrashInv

-----------------------------------------------------------------------------
\* Every step of every thread preserves the invariant.
LEMMA CrashStep == CrashInv /\ [Next]_vars => CrashInv'
<1> SUFFICES ASSUME CrashInv, [Next]_vars PROVE CrashInv'
  OBVIOUS
<1>1. CASE UNCHANGED vars
  BY <1>1, EndStep DEF vars, CrashInv, CrashTypeOK
<1>2. ASSUME NEW t \in Threads, NEW code \in Codes, NEW address \in Addresses, Raise(t, code, address)
      PROVE  CrashInv'
  BY <1>2, RaiseStep
<1>3. ASSUME NEW t \in Threads, NEW address \in Addresses, RuntimeFailure(t, address) PROVE CrashInv'
  BY <1>3, RuntimeFailureStep
<1>4. ASSUME NEW t \in Threads, \/ CountCrash(t) \/ EnterReport(t) \/ OpenCrashLog(t) \/ WriteAndClose(t)
                                \/ FaultInReport(t) \/ RememberLoggedException(t) \/ LeaveReport(t)
      PROVE  CrashInv'
  BY <1>4, CountStep, EnterReportStep, OpenStep, WriteStep, NestedStep, RememberStep, LeaveReportStep
<1>5. ASSUME NEW t \in Threads, \/ HandledByCode(t) \/ NobodyHandles(t) \/ MatchesLastLoggedException(t)
                                \/ PreviousFilterResumes(t)
      PROVE  CrashInv'
  BY <1>5, ResumeStep, NobodyStep, MatchStep
<1>6. ASSUME NEW t \in Threads, ProcessEnds(t) PROVE CrashInv'
  BY <1>6, EndStep DEF ProcessEnds
<1> HIDE DEF CrashInv
<1>7. QED
  BY <1>1, <1>2, <1>3, <1>4, <1>5, <1>6, Zenon DEF Next

\* The invariant holds in every reachable state.
THEOREM CrashInvariant == Spec => []CrashInv
<1>1. QED
  BY CrashInitial, CrashStep, PTL DEF Spec

\* The handler's variables and the dispatches keep their types.
THEOREM CrashTypes == Spec => []CrashTypeOK
<1>1. CrashInv => CrashTypeOK
  BY DEF CrashInv
<1>2. QED
  BY <1>1, CrashInvariant, PTL

\* g_inHandler lets one thread at a time into the report, and every way out of
\* WriteCrashReport clears it again, unless a fault inside abandoned the report.
THEOREM OneThreadReports == Spec => []FlagHasOneOwner
<1>1. CrashInv => FlagHasOneOwner
  <2> SUFFICES ASSUME FlagInv PROVE FlagHasOneOwner
    BY DEF CrashInv
  <2> DEFINE inside == {t \in Threads : handling[t].pc \in ReportPcs}
  <2>1. \A t, u \in inside : t = u
    BY DEF FlagInv, Inside
  <2>2. inside # {} <=> \E t \in Threads : Inside(t)
    BY DEF Inside
  <2>3. inHandler <=> inside # {} \/ abandoned
    BY <2>2 DEF FlagInv
  <2>4. QED
    BY <2>1, <2>3 DEF FlagHasOneOwner
<1>2. QED
  BY <1>1, CrashInvariant, PTL

\* Whatever the number of threads and faults, at most kMaxCrashLogs reports are
\* written: the interlocked count admits no more attempts than that.
THEOREM ReportsWithinBudget == Spec => []BudgetHolds
<1>1. CrashInv => BudgetHolds
  <2> SUFFICES ASSUME CrashInv PROVE BudgetHolds
    OBVIOUS
  <2>1. Cardinality(Tickets) \in Nat
    BY FS_CardinalityType DEF CrashInv, BudgetInv
  <2> HIDE DEF Tickets
  <2>2. QED
    BY <2>1, CountTypes, SMT DEF CrashInv, BudgetInv, BudgetHolds
<1>2. QED
  BY <1>1, CrashInvariant, PTL

\* The unhandled filter recognises the fault the vectored handler has just
\* reported, although it compares three separately exchanged words: no fault is
\* reported twice in a row.
THEOREM NoFaultReportedTwiceInARow == Spec => []NoBackToBackDuplicate
<1>1. CrashInv => NoBackToBackDuplicate
  BY DEF CrashInv
<1>2. QED
  BY <1>1, CrashInvariant, PTL
-----------------------------------------------------------------------------
(***************************************************************************)
(* Crash handler: the handlers of all threads are one reporter.            *)
(***************************************************************************)
\* A thread inside the report says how far the report has come.
LEMMA PhaseInside ==
  ASSUME FlagInv, NEW t \in Threads, Inside(t)
  PROVE  /\ inHandler /\ ~abandoned
         /\ handling[t].pc \in {"open", "write"} => ReportPhase = "open"
         /\ handling[t].pc \notin {"open", "write"} => ReportPhase = "filed"
<1>1. inHandler /\ ~abandoned
  BY DEF FlagInv
<1>2. \A u \in Threads : handling[u].pc \in {"open", "write"} => u = t
  BY DEF FlagInv, Inside, ReportPcs
<1>3. QED
  BY <1>1, <1>2 DEF ReportPhase, Opening

\* The same after a step, whose thread is still inside.
LEMMA PhaseStillInside ==
  ASSUME FlagInv', NEW t \in Threads, Inside(t)'
  PROVE  /\ handling'[t].pc \in {"open", "write"} => ReportPhase' = "open"
         /\ handling'[t].pc \notin {"open", "write"} => ReportPhase' = "filed"
<1>1. inHandler' /\ ~abandoned'
  BY DEF FlagInv
<1>2. \A u \in Threads : handling'[u].pc \in {"open", "write"} => u = t
  BY DEF FlagInv, Inside, ReportPcs
<1>3. QED
  BY <1>1, <1>2 DEF ReportPhase, Opening

\* The phase stays where it is while a thread neither opens a report nor is done with it.
LEMMA PhaseKept ==
  ASSUME UNCHANGED <<inHandler, abandoned>>, NEW t \in Threads, NEW d, Becomes(t, d),
         handling[t].pc \in {"open", "write"} <=> d.pc \in {"open", "write"}
  PROVE  ReportPhase' = ReportPhase
<1>1. Opening' <=> Opening
  BY DEF Opening, Becomes
<1>2. QED
  BY <1>1 DEF ReportPhase

\* A stutter of the reporter.
ReporterRests == UNCHANGED <<alive, ReportPhase, reports>>

\* A fault that begins, or ends, outside of the report.
LEMMA OutsideRests ==
  ASSUME CrashInv, NEW t \in Threads,
         \/ \E code \in Codes, address \in Addresses : Raise(t, code, address)
         \/ \E address \in Addresses : RuntimeFailure(t, address)
         \/ HandledByCode(t) \/ PreviousFilterResumes(t)
  PROVE  ReporterRests
<1>1. handling \in [Threads -> Dispatches]
  BY CountTypes
<1>2. /\ handling[t].pc \in {"running", "search", "chain"}
      /\ UNCHANGED <<alive, inHandler, reports, abandoned>>
  BY DEF Raise, RuntimeFailure, HandledByCode, PreviousFilterResumes, At
<1>3. \E d : handling' = [handling EXCEPT ![t] = d] /\ d.pc \in {"count", "search", "running"}
  <2>1. ASSUME NEW code \in Codes, NEW address \in Addresses, Raise(t, code, address)
        PROVE  \E d : handling' = [handling EXCEPT ![t] = d] /\ d.pc \in {"count", "search", "running"}
    <3> DEFINE d == [pc |-> IF IsFatalCode(code) THEN "count" ELSE "search", id |-> NextFault,
                     code |-> code, address |-> address, origin |-> "vectored"]
    <3>1. handling' = [handling EXCEPT ![t] = d] /\ d.pc \in {"count", "search"}
      BY <2>1 DEF Raise
    <3> HIDE DEF d
    <3>2. QED
      BY <3>1
  <2>2. ASSUME NEW address \in Addresses, RuntimeFailure(t, address)
        PROVE  \E d : handling' = [handling EXCEPT ![t] = d] /\ d.pc \in {"count", "search", "running"}
    <3> DEFINE d == [pc |-> "count", id |-> NextFault, code |-> FatalAppExit,
                     address |-> address, origin |-> "runtime"]
    <3>1. handling' = [handling EXCEPT ![t] = d] /\ d.pc = "count"
      BY <2>2 DEF RuntimeFailure
    <3> HIDE DEF d
    <3>2. QED
      BY <3>1
  <2>3. NoFault.pc = "running"
    BY NoFaultIsDispatch
  <2>4. QED
    BY <2>1, <2>2, <2>3 DEF HandledByCode, PreviousFilterResumes
<1>4. Opening' <=> Opening
  BY <1>1, <1>2, <1>3 DEF Opening
<1>5. QED
  BY <1>2, <1>4 DEF ReporterRests, ReportPhase

\* A fault on its way to the report, past it, or being remembered.
LEMMA MovingRests ==
  ASSUME CrashInv, NEW t \in Threads,
         \/ CountCrash(t) \/ RememberLoggedException(t) \/ NobodyHandles(t)
         \/ MatchesLastLoggedException(t)
  PROVE  ReporterRests
<1>1. handling \in [Threads -> Dispatches]
  BY CountTypes
<1>2. /\ handling[t].pc \notin {"open", "write"}
      /\ UNCHANGED <<alive, inHandler, reports, abandoned>>
  BY DEF CountCrash, RememberLoggedException, NobodyHandles, MatchesLastLoggedException, Compare, At
<1>3. \E pc \in Points \ {"open", "write"}, origin \in Origins : Becomes(t, Further(t, pc, origin))
  <2>1. handling[t].origin \in Origins
    BY <1>1, FurtherIsDispatch
  <2>2. CASE GiveUp(t)
    BY <1>1, <2>1, <2>2, GivenUp DEF Points
  <2>3. ASSUME NEW pc \in Points \ {"open", "write"}, Goto(t, pc)
        PROVE  \E other \in Points \ {"open", "write"}, origin \in Origins :
                 Becomes(t, Further(t, other, origin))
    BY <1>1, <2>1, <2>3, DispatchMoved
  <2>4. CASE handling' = [handling EXCEPT ![t].pc = "count", ![t].origin = "unhandled"]
    <3>1. Becomes(t, Further(t, "count", "unhandled"))
      BY <1>1, <2>4, DispatchRetried, Zenon
    <3>2. "count" \in Points \ {"open", "write"} /\ "unhandled" \in Origins
      BY DEF Points, Origins
    <3>3. QED
      BY <3>1, <3>2, Zenon
  <2>5. \/ GiveUp(t) \/ handling' = [handling EXCEPT ![t].pc = "count", ![t].origin = "unhandled"]
        \/ \E pc \in {"enter", "remember_address", "remember_thread", "leave",
                      "match_code", "match_address", "match_thread", "chain"} : Goto(t, pc)
    BY DEF CountCrash, RememberLoggedException, NobodyHandles, MatchesLastLoggedException, Compare
  <2>6. {"enter", "remember_address", "remember_thread", "leave", "match_code", "match_address",
         "match_thread", "chain"} \subseteq Points \ {"open", "write"}
    BY DEF Points, ReportPcs
  <2>7. QED
    BY <2>2, <2>3, <2>4, <2>5, <2>6
<1>4. ReportPhase' = ReportPhase
  BY <1>2, <1>3, PhaseKept DEF Further
<1>5. QED
  BY <1>2, <1>4 DEF ReporterRests

\* The flag is taken: a report is opened, for which there is a ticket.
LEMMA EnterOpens ==
  ASSUME CrashInv, CrashInv', NEW t \in Threads, EnterReport(t)
  PROVE  Reporter!OpenReport \/ ReporterRests
<1>1. /\ alive /\ handling[t].pc = "enter" /\ inHandler' = TRUE /\ inHandler \in BOOLEAN
      /\ UNCHANGED <<alive, reports, abandoned>> /\ handling \in [Threads -> Dispatches]
  BY CountTypes DEF EnterReport, At, CrashInv, CrashTypeOK
<1>2. CASE inHandler /\ GiveUp(t)
  <2>1. PICK pc \in {"search", "chain", "terminate"} : Becomes(t, Further(t, pc, handling[t].origin))
    BY <1>1, <1>2, GivenUp
  <2>2. QED
    BY <1>1, <1>2, <2>1, PhaseKept DEF ReporterRests, Further
<1>3. CASE ~inHandler /\ Goto(t, "open")
  <2>1. handling'[t].pc = "open"
    <3>1. Becomes(t, Further(t, "open", handling[t].origin))
      BY <1>1, <1>3, DispatchMoved DEF Points, ReportPcs
    <3>2. QED
      BY <3>1, FurtherFields
  <2>2. ReportPhase' = "open"
    BY <2>1, PhaseStillInside DEF CrashInv, Inside, ReportPcs
  <2>3. ReportPhase = "free"
    BY <1>3 DEF ReportPhase
  <2>4. Len(reports) < MaxCrashLogs
    <3>1. t \in Tickets
      BY <1>1 DEF Tickets
    <3>2. Cardinality(Tickets) \in Nat \ {0}
      BY <3>1, FS_CardinalityType, FS_EmptySet DEF CrashInv, BudgetInv
    <3> HIDE DEF Tickets
    <3>3. QED
      BY <3>2, CountTypes, SMT DEF CrashInv, BudgetInv
  <2>5. QED
    BY <1>1, <2>2, <2>3, <2>4 DEF Reporter!OpenReport
<1>4. QED
  BY <1>1, <1>2, <1>3 DEF EnterReport

\* The file is open, or there is none and the report is closed.
LEMMA OpenClosesOrRests ==
  ASSUME CrashInv, NEW t \in Threads, OpenCrashLog(t)
  PROVE  Reporter!CloseReport \/ ReporterRests
<1>1. /\ alive /\ handling[t].pc = "open" /\ UNCHANGED <<alive, reports, abandoned>>
      /\ handling \in [Threads -> Dispatches]
  BY CountTypes DEF OpenCrashLog, At
<1>2. CASE Goto(t, "write") /\ UNCHANGED inHandler
  <2>1. Becomes(t, Further(t, "write", handling[t].origin))
    BY <1>1, <1>2, DispatchMoved DEF Points, ReportPcs
  <2>2. QED
    BY <1>1, <1>2, <2>1, PhaseKept DEF ReporterRests, Further
<1>3. CASE inHandler' = FALSE
  <2>1. ReportPhase = "open" /\ ReportPhase' = "free"
    BY <1>1, <1>3, PhaseInside DEF ReportPhase, CrashInv, Inside, ReportPcs
  <2>2. QED
    BY <1>1, <2>1 DEF Reporter!CloseReport
<1>4. QED
  BY <1>2, <1>3 DEF OpenCrashLog

\* What is written is not what was written last.
LEMMA WriteFiles ==
  ASSUME CrashInv, CrashInv', NEW t \in Threads, WriteAndClose(t)
  PROVE  \E fault \in Faults : Reporter!File(fault)
<1> DEFINE fault == handling[t].id
<1>1. /\ alive /\ handling[t].pc = "write" /\ UNCHANGED alive
      /\ reports' = Append(reports, fault) /\ handling \in [Threads -> Dispatches]
  BY CountTypes DEF WriteAndClose, At
<1>2. handling'[t].pc = "remember_code"
  <2>1. Becomes(t, Further(t, "remember_code", handling[t].origin))
    BY <1>1, DispatchMoved DEF WriteAndClose, Points, ReportPcs
  <2>2. QED
    BY <2>1, FurtherFields
<1>3. ReportPhase = "open" /\ ReportPhase' = "filed"
  BY <1>1, <1>2, PhaseInside, PhaseStillInside DEF CrashInv, Inside, ReportPcs
<1>4. fault \in Faults
  <2>1. fault \in 1 .. raised /\ raised \in Faults \cup {0}
    BY <1>1 DEF CrashInv, FaultsDistinct, CrashTypeOK
  <2>2. QED
    BY <2>1, SMT DEF Faults
<1>5. reports = <<>> \/ reports[Len(reports)] # fault
  BY <1>1 DEF CrashInv, RememberInv, Remembered, LastReport
<1>6. QED
  BY <1>1, <1>3, <1>4, <1>5 DEF Reporter!File

\* A fault inside the report loses it, or ends the process.
LEMMA NestedLoses ==
  ASSUME CrashInv, NEW t \in Threads, FaultInReport(t)
  PROVE  Reporter!LoseReport \/ Reporter!End
<1>1. /\ alive /\ handling[t].pc = "write" /\ UNCHANGED <<inHandler, reports>>
  BY DEF FaultInReport, At
<1>2. inHandler /\ ReportPhase = "open"
  BY <1>1, PhaseInside DEF CrashInv, Inside, ReportPcs
<1>3. CASE abandoned' = TRUE /\ UNCHANGED alive
  <2>1. ReportPhase' = "lost"
    BY <1>1, <1>2, <1>3 DEF ReportPhase
  <2>2. QED
    BY <1>1, <1>2, <1>3, <2>1 DEF Reporter!LoseReport
<1>4. CASE alive' = FALSE /\ UNCHANGED <<handling, abandoned>>
  <2>1. ReportPhase' = ReportPhase
    BY <1>1, <1>4 DEF ReportPhase, Opening
  <2>2. QED
    BY <1>1, <1>4, <2>1 DEF Reporter!End
<1>5. QED
  BY <1>3, <1>4 DEF FaultInReport

\* The thread that filed its report closes it.
LEMMA LeaveCloses ==
  ASSUME CrashInv, NEW t \in Threads, LeaveReport(t)
  PROVE  Reporter!CloseReport
<1>1. alive /\ handling[t].pc = "leave" /\ inHandler' = FALSE /\ UNCHANGED <<alive, reports>>
  BY DEF LeaveReport, At
<1>2. ReportPhase = "filed" /\ ReportPhase' = "free"
  BY <1>1, PhaseInside DEF ReportPhase, CrashInv, Inside, ReportPcs
<1>3. QED
  BY <1>1, <1>2 DEF Reporter!CloseReport

LEMMA ReporterStep == CrashInv /\ [Next]_vars => [Reporter!ReporterNext]_Reporter!reporterVars
<1> SUFFICES ASSUME CrashInv, [Next]_vars PROVE Reporter!ReporterNext \/ ReporterRests
  BY DEF ReporterRests, Reporter!reporterVars
<1>1. CrashInv'
  BY CrashStep
<1>2. CASE UNCHANGED vars
  BY <1>2 DEF vars, ReporterRests, ReportPhase, Opening
<1>3. ASSUME NEW t \in Threads, ProcessEnds(t)
      PROVE  Reporter!End
  BY <1>3 DEF ProcessEnds, At, ReportPhase, Opening, Reporter!End
<1>4. ASSUME NEW t \in Threads,
             \/ EnterReport(t) \/ OpenCrashLog(t) \/ WriteAndClose(t) \/ FaultInReport(t) \/ LeaveReport(t)
      PROVE  Reporter!ReporterNext \/ ReporterRests
  BY <1>1, <1>4, EnterOpens, OpenClosesOrRests, WriteFiles, NestedLoses, LeaveCloses
     DEF Reporter!ReporterNext
<1> HIDE DEF CrashInv
<1>5. ASSUME NEW t \in Threads,
             \/ \E code \in Codes, address \in Addresses : Raise(t, code, address)
             \/ \E address \in Addresses : RuntimeFailure(t, address)
             \/ HandledByCode(t) \/ PreviousFilterResumes(t)
             \/ CountCrash(t) \/ RememberLoggedException(t) \/ NobodyHandles(t)
             \/ MatchesLastLoggedException(t)
      PROVE  ReporterRests
  BY <1>5, OutsideRests, MovingRests
<1>6. QED
  BY <1>2, <1>3, <1>4, <1>5 DEF Next, Reporter!ReporterNext

\* Before the first fault nothing is reported.
LEMMA ReporterInitial == Init => Reporter!ReporterInit
  BY DEF Init, Reporter!ReporterInit, ReportPhase

\* The handlers of all threads together are one reporter with a budget: for any
\* number of threads and faults, any codes and addresses, and any budget.
THEOREM HandlersImplementReporter == Spec => ImplementsReporter
<1>1. QED
  BY CrashInvariant, ReporterInitial, ReporterStep, PTL
     DEF Spec, ImplementsReporter, Reporter!ReporterSpec
=============================================================================
