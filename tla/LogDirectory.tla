---------------------------- MODULE LogDirectory ----------------------------
(***************************************************************************)
(* Publication of the log directory (SetLogDirectory of FileLogger.cpp,    *)
(* driven by ClientLogDirectory.cpp), and its readers: ordinary Log calls  *)
(* on any thread, and the crash reporter, which takes no lock.  One thread *)
(* sets directories: the DLL worker before hooks attach, then the game     *)
(* thread, whose ReceivedPlayer starts an instance in the debug build.     *)
(***************************************************************************)
EXTENDS Naturals

CONSTANTS
  Debug,          \* GA_CLIENT_DEBUG: one directory per server instance
  MaxDirectories, \* kMaximumLogDirectories (1024 in the code)
  MaxInstances,   \* bound of the runs
  Loggers,        \* threads inside Logger::Log
  Reporters,      \* threads inside the crash reporter
  None         \* no path, no thread

ASSUME DirectoryConstants ==
  /\ Debug \in BOOLEAN
  /\ MaxDirectories \in Nat \ {0} /\ MaxInstances \in Nat
  /\ Loggers \cap Reporters = {}

VARIABLES
  directories,  \* g_logDirectories, append-only
  count,        \* g_logDirectoryCount
  active,       \* g_activeLogDirectory: an index, 0 when null
  root,         \* processLogRoot is set
  sequence,     \* instanceSequence
  setter,       \* the SetLogDirectory call in progress
  logLock,         \* owner of g_logLock
  reader,       \* per reading thread: its place and the pointer it holds
  promised      \* history: per reader, the path behind the pointer it loaded

directoryVars == <<directories, count, active, root, sequence, setter, logLock, reader, promised>>

\* A path is startup's (0) or an instance's number; TornPath while it is copied.
TornPath == MaxInstances + 1
Paths == 0 .. MaxInstances
Startup == 0
Indices == 1 .. MaxDirectories
Readers == Loggers \cup Reporters

NoCall == [pc |-> "idle", path |-> Startup, index |-> 0]
Resting == [pc |-> "idle", held |-> 0]

-----------------------------------------------------------------------------
(***************************************************************************)
(* ClientLogDirectory: Initialize and BeginInstance.                       *)
(***************************************************************************)
SetterAt(pc) == setter.pc = pc

Initialize ==
  /\ SetterAt("idle") /\ ~root
  /\ setter' = [NoCall EXCEPT !.pc = "create", !.path = Startup]
  /\ UNCHANGED <<directories, count, active, root, sequence, logLock, reader, promised>>

BeginInstance ==
  /\ Debug /\ SetterAt("idle") /\ root
  /\ sequence < MaxInstances
  /\ setter' = [NoCall EXCEPT !.pc = "create", !.path = sequence + 1]
  /\ UNCHANGED <<directories, count, active, root, sequence, logLock, reader, promised>>

\* A failed Initialize disables the patch; a failed BeginInstance keeps the
\* previous directory.
AbandonCall ==
  /\ setter' = IF root THEN NoCall ELSE [NoCall EXCEPT !.pc = "disabled"]
  /\ UNCHANGED <<directories, count, active, root, sequence, logLock, reader, promised>>

-----------------------------------------------------------------------------
(***************************************************************************)
(* SetLogDirectory.                                                        *)
(***************************************************************************)
CreateDirectoryTree ==
  /\ SetterAt("create")
  /\ \/ AbandonCall
     \/ /\ setter' = [setter EXCEPT !.pc = "reserve"]
        /\ UNCHANGED <<directories, count, active, root, sequence, logLock, reader, promised>>

\* Deliberate fault, used by no specification: the storage is recycled.
RecycleDirectory ==
  /\ SetterAt("reserve")
  /\ count' = IF count < MaxDirectories THEN count + 1 ELSE count
  /\ setter' = [setter EXCEPT !.pc = "copy", !.index = count']
  /\ UNCHANGED <<directories, active, root, sequence, logLock, reader, promised>>

ReserveDirectory ==
  /\ SetterAt("reserve")
  /\ \/ count >= MaxDirectories /\ AbandonCall
     \/ /\ count < MaxDirectories
        /\ count' = count + 1
        /\ setter' = [setter EXCEPT !.pc = "copy", !.index = count + 1]
        /\ UNCHANGED <<directories, active, root, sequence, logLock, reader, promised>>

CopyPath ==
  /\ \/ /\ SetterAt("copy")
        /\ directories' = [directories EXCEPT ![setter.index] = TornPath]
        /\ setter' = [setter EXCEPT !.pc = "copying"]
     \/ /\ SetterAt("copying")
        /\ directories' = [directories EXCEPT ![setter.index] = setter.path]
        /\ setter' = [setter EXCEPT !.pc = "publish"]
  /\ UNCHANGED <<count, active, root, sequence, logLock, reader, promised>>

\* Deliberate fault, used by no specification: the sequence is not advanced.
PublishOnly ==
  /\ SetterAt("publish")
  /\ active' = setter.index
  /\ root' = TRUE
  /\ UNCHANGED sequence
  /\ setter' = NoCall
  /\ UNCHANGED <<directories, count, logLock, reader, promised>>

\* The exchange, and what the caller records once SetLogDirectory succeeded.
Publish ==
  /\ SetterAt("publish")
  /\ active' = setter.index
  /\ root' = TRUE
  /\ sequence' = setter.path
  /\ setter' = NoCall
  /\ UNCHANGED <<directories, count, logLock, reader, promised>>

-----------------------------------------------------------------------------
(***************************************************************************)
(* Readers.                                                                *)
(***************************************************************************)
ReaderAt(t, pc) == reader[t].pc = pc

\* CurrentLogDirectory: an interlocked load of the pointer.
LoadDirectory(t) ==
  /\ ReaderAt(t, "idle") /\ active # 0
  /\ reader' = [reader EXCEPT ![t] = [pc |-> IF t \in Loggers THEN "lock" ELSE "open",
                                      held |-> active]]
  /\ promised' = [promised EXCEPT ![t] = directories[active]]
  /\ UNCHANGED <<directories, count, active, root, sequence, setter, logLock>>

AcquireLock(t) ==
  /\ ReaderAt(t, "lock") /\ logLock = None
  /\ logLock' = t
  /\ reader' = [reader EXCEPT ![t].pc = "open"]
  /\ UNCHANGED <<directories, count, active, root, sequence, setter, promised>>

\* The path is read here, to open the file the line or report goes to.
OpenFile(t) ==
  /\ ReaderAt(t, "open")
  /\ reader' = [reader EXCEPT ![t].pc = "write"]
  /\ UNCHANGED <<directories, count, active, root, sequence, setter, logLock, promised>>

FinishRead(t) ==
  /\ ReaderAt(t, "write")
  /\ logLock' = IF t \in Loggers THEN None ELSE logLock
  /\ reader' = [reader EXCEPT ![t] = Resting]
  /\ promised' = [promised EXCEPT ![t] = None]
  /\ UNCHANGED <<directories, count, active, root, sequence, setter>>

DirectoryInit ==
  /\ directories = [i \in Indices |-> None]
  /\ count = 0 /\ active = 0 /\ root = FALSE /\ sequence = 0
  /\ setter = NoCall
  /\ logLock = None
  /\ reader = [t \in Readers |-> Resting]
  /\ promised = [t \in Readers |-> None]

DirectoryNext ==
  \/ Initialize \/ BeginInstance
  \/ CreateDirectoryTree \/ ReserveDirectory \/ CopyPath \/ Publish
  \/ \E t \in Readers : LoadDirectory(t) \/ AcquireLock(t) \/ OpenFile(t) \/ FinishRead(t)

DirectorySpec == DirectoryInit /\ [][DirectoryNext]_directoryVars

-----------------------------------------------------------------------------
(***************************************************************************)
(* Properties.                                                             *)
(***************************************************************************)
\* The directory table, the calls in progress and the lock have their types.
DirectoryTypeOK ==
  /\ directories \in [Indices -> Paths \cup {TornPath, None}]
  /\ count \in 0 .. MaxDirectories /\ active \in 0 .. MaxDirectories
  /\ root \in BOOLEAN /\ sequence \in Paths
  /\ setter \in [pc : {"idle", "create", "reserve", "copy", "copying", "publish", "disabled"},
                 path : Paths, index : 0 .. MaxDirectories]
  /\ logLock \in Loggers \cup {None}
  /\ reader \in [Readers -> [pc : {"idle", "lock", "open", "write"}, held : 0 .. MaxDirectories]]

\* "Never overwrite an old state": however many instances start between the
\* load of the pointer and the opening of the file, a reader finds behind its
\* pointer the whole path that was there when it loaded it.
HeldPathsStay ==
  \A t \in Readers :
    reader[t].held # 0 =>
      promised[t] \in Paths /\ directories[reader[t].held] = promised[t]

\* Between two calls, the published directory is the one of the current
\* instance number, also when creating a directory failed or the storage ran
\* out ("exhaustion leaves the last published path active").
ActiveIsCurrentInstance ==
  SetterAt("idle") /\ root => active # 0 /\ directories[active] = sequence
=============================================================================
