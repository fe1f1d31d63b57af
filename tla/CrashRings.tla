----------------------------- MODULE CrashRings -----------------------------
(***************************************************************************)
(* The in-memory rings of recent log lines (AppendCrashRing and            *)
(* WriteCrashRing of FileLogger.cpp).  Rings are created under a lock and  *)
(* found without it; lines are appended without any lock.  A line is       *)
(* known by the number its thread took from the ring.                      *)
(***************************************************************************)
EXTENDS Integers

CONSTANTS
  LogThreads,     \* threads that log
  Channels,    \* channel names (under 64 characters) with crash output enabled
  MaxRings,    \* kMaximumCrashChannels (16 in the code)
  RingSize,    \* kCrashRingEntries (100 in the code)
  MaxLines,    \* bound of the runs: lines per ring
  Nothing      \* no name, no thread, no line

ASSUME RingConstants ==
  /\ MaxRings \in Nat \ {0} /\ RingSize \in Nat \ {0} /\ MaxLines \in Nat
  /\ Nothing \notin LogThreads \cup Channels \cup (-1 .. MaxLines)

VARIABLES
  rings,      \* g_crashRings
  ringCount,  \* g_crashRingCount
  ringLock,       \* owner of g_crashRingLock
  op          \* per thread: the append in progress

ringVars == <<rings, ringCount, ringLock, op>>

RingIds == 1 .. MaxRings
Positions == 0 .. RingSize - 1
NoRing == 0
TornLine == -1      \* a line being formatted in place

EmptyRing == [name |-> Nothing, next |-> 0, buffer |-> [p \in Positions |-> Nothing]]
NoOp == [pc |-> "idle", channel |-> Nothing, ring |-> NoRing, line |-> 0]

OpAt(t, pc) == op[t].pc = pc
OpGoto(t, pc) == op' = [op EXCEPT ![t].pc = pc]
UseRing(t, r) == op' = [op EXCEPT ![t].ring = r, ![t].pc = "take"]

-----------------------------------------------------------------------------
\* FindCrashRing: the first published ring with the channel's name.
Found(channel) ==
  LET named == {r \in 1 .. ringCount : rings[r].name = channel}
  IN  IF named = {} THEN NoRing ELSE CHOOSE r \in named : \A q \in named : r <= q

Log(t, channel) ==
  /\ OpAt(t, "idle")
  /\ op' = [op EXCEPT ![t] = [NoOp EXCEPT !.pc = "find", !.channel = channel]]
  /\ UNCHANGED <<rings, ringCount, ringLock>>

FindCrashRing(t) ==
  /\ OpAt(t, "find")
  /\ IF Found(op[t].channel) # NoRing THEN UseRing(t, Found(op[t].channel))
                                      ELSE OpGoto(t, "lock")
  /\ UNCHANGED <<rings, ringCount, ringLock>>

EnterLock(t) ==
  /\ OpAt(t, "lock") /\ ringLock = Nothing
  /\ ringLock' = t
  /\ OpGoto(t, "recheck")
  /\ UNCHANGED <<rings, ringCount>>

\* Deliberate fault, used by no specification: no second search.
CreateWithoutRecheck(t) ==
  /\ OpAt(t, "recheck")
  /\ IF ringCount < MaxRings THEN OpGoto(t, "name") /\ UNCHANGED ringLock
                             ELSE op' = [op EXCEPT ![t] = NoOp] /\ ringLock' = Nothing
  /\ UNCHANGED <<rings, ringCount>>

\* Under the lock: another thread may have created the ring meanwhile; with
\* every ring taken the line is dropped.
GetOrCreateCrashRing(t) ==
  /\ OpAt(t, "recheck")
  /\ \/ /\ Found(op[t].channel) # NoRing
        /\ UseRing(t, Found(op[t].channel))
        /\ ringLock' = Nothing
     \/ /\ Found(op[t].channel) = NoRing /\ ringCount >= MaxRings
        /\ op' = [op EXCEPT ![t] = NoOp]
        /\ ringLock' = Nothing
     \/ /\ Found(op[t].channel) = NoRing /\ ringCount < MaxRings
        /\ OpGoto(t, "name")
        /\ UNCHANGED ringLock
  /\ UNCHANGED <<rings, ringCount>>

NameRing(t) ==
  /\ OpAt(t, "name")
  /\ rings' = [rings EXCEPT ![ringCount + 1].name = op[t].channel,
                            ![ringCount + 1].next = 0]
  /\ OpGoto(t, "count")
  /\ UNCHANGED <<ringCount, ringLock>>

PublishRing(t) ==
  /\ OpAt(t, "count")
  /\ ringCount' = ringCount + 1
  /\ OpGoto(t, "unlock")
  /\ UNCHANGED <<rings, ringLock>>

LeaveLock(t) ==
  /\ OpAt(t, "unlock")
  /\ ringLock' = Nothing
  /\ UseRing(t, ringCount)
  /\ UNCHANGED <<rings, ringCount>>

-----------------------------------------------------------------------------
\* Two threads may take numbers in one order and write in the other; the run
\* assumes that no thread is overtaken by a whole turn of the ring.
NotOvertaken(r) ==
  \A t \in LogThreads :
    op[t].ring = r /\ op[t].pc \in {"open", "close"} => rings[r].next < op[t].line + RingSize

TakeIndex(t) ==
  LET r == op[t].ring IN
  /\ OpAt(t, "take")
  /\ rings[r].next < MaxLines /\ NotOvertaken(r)
  /\ op' = [op EXCEPT ![t].line = rings[r].next, ![t].pc = "open"]
  /\ rings' = [rings EXCEPT ![r].next = @ + 1]
  /\ UNCHANGED <<ringCount, ringLock>>

\* Deliberate fault, used by no specification: numbering from one.
PositionFromOne(line) == (line + 1) % RingSize

Position(line) == line % RingSize

WriteSlot(t, text, pc) ==
  /\ rings' = [rings EXCEPT ![op[t].ring].buffer[Position(op[t].line)] = text]
  /\ op' = IF pc = "idle" THEN [op EXCEPT ![t] = NoOp] ELSE [op EXCEPT ![t].pc = pc]
  /\ UNCHANGED <<ringCount, ringLock>>

AppendCrashRing(t) ==
  \/ OpAt(t, "open") /\ WriteSlot(t, TornLine, "close")
  \/ OpAt(t, "close") /\ WriteSlot(t, op[t].line, "idle")

RingsInit ==
  /\ rings = [r \in RingIds |-> EmptyRing]
  /\ ringCount = 0
  /\ ringLock = Nothing
  /\ op = [t \in LogThreads |-> NoOp]

RingsNext ==
  \E t \in LogThreads :
    \/ \E channel \in Channels : Log(t, channel)
    \/ FindCrashRing(t) \/ EnterLock(t) \/ GetOrCreateCrashRing(t)
    \/ NameRing(t) \/ PublishRing(t) \/ LeaveLock(t)
    \/ TakeIndex(t) \/ AppendCrashRing(t)

RingsSpec == RingsInit /\ [][RingsNext]_ringVars

-----------------------------------------------------------------------------
\* WriteCrashRing: what a crash report shows of a ring, by the offsets of its
\* loop; it passes over an entry without a text.
Shown(r) ==
  LET next  == rings[r].next
      total == IF next < RingSize THEN next ELSE RingSize
      start == (next - total) % RingSize
      Entry(offset) == rings[r].buffer[(start + offset) % RingSize]
  IN  [offset \in {k \in 0 .. total - 1 : Entry(k) # Nothing} |-> Entry(offset)]

-----------------------------------------------------------------------------
(***************************************************************************)
(* Properties.                                                             *)
(***************************************************************************)
\* The rings, the lock and the calls in progress have their types.
RingsTypeOK ==
  /\ rings \in [RingIds -> [name : Channels \cup {Nothing}, next : 0 .. MaxLines,
                            buffer : [Positions -> (-1 .. MaxLines) \cup {Nothing}]]]
  /\ ringCount \in 0 .. MaxRings
  /\ ringLock \in LogThreads \cup {Nothing}
  /\ op \in [LogThreads -> [pc : {"idle", "find", "lock", "recheck", "name", "count",
                               "unlock", "take", "open", "close"},
                         channel : Channels \cup {Nothing},
                         ring : RingIds \cup {NoRing}, line : 0 .. MaxLines]]

\* Readers that take no lock never see a ring without its name, and two
\* threads that log a new channel at once do not split it over two rings.
OneRingPerChannel ==
  \A r, q \in 1 .. ringCount :
    rings[r].name # Nothing /\ (rings[r].name = rings[q].name => r = q)

\* The thread has taken the number of the line and not finished writing it.
Writing(t, r, line) == op[t].ring = r /\ op[t].line = line /\ op[t].pc \in {"open", "close"}

\* What may stand in the place of a line that is not yet written: nothing, a
\* torn line, or the line of the turn before.
Leftover(line) == {Nothing, TornLine, line - RingSize}

\* A report shows the last lines of a ring, all of them, oldest first, whatever
\* order the appends overlap in.  Where a line is taken and not yet written, and
\* only there, it shows what the line before a turn of the ring left, a torn
\* line, or nothing.
ReportShowsLastLines ==
  \A r \in 1 .. ringCount :
    LET next  == rings[r].next
        first == IF next > RingSize THEN next - RingSize ELSE 0
        shown == DOMAIN Shown(r)
    IN  \A k \in 0 .. next - first - 1 :
          \/ k \in shown /\ Shown(r)[k] = first + k
          \/ /\ \E t \in LogThreads : Writing(t, r, first + k)
             /\ k \in shown => Shown(r)[k] \in Leftover(first + k)
=============================================================================
