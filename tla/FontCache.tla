------------------------------ MODULE FontCache ------------------------------
(***************************************************************************)
(* The cache of sharper Arial fonts the text patches draw with             *)
(* (EngineFont.cpp, EngineFontCachePolicy.hpp).  Its slots are separate    *)
(* atomics without a lock: every load, store and compare-exchange is a     *)
(* step of its own, in program order (x86 keeps the order of loads and of  *)
(* stores).  The engine loads and unloads objects only between calls, as   *)
(* its collector runs on the thread that draws.                            *)
(***************************************************************************)
EXTENDS Naturals

CONSTANTS
  Threads,     \* threads that draw text
  Addrs,       \* addresses of font objects; the engine reuses freed ones
  Null,        \* the null pointer
  Kinds,       \* what an object may be: [set : ..., height : ...]
  Indices,     \* indices of the engine's global object table
  Capacity,    \* kEntryCapacity
  MaxScale,    \* maximumVisualScale
  Retry,       \* kLookupRetryMilliseconds
  CallTime,    \* bound: no call takes longer
  TickWrap,    \* GetTickCount wraps here (2^32)
  MaxClock,    \* bound of the runs
  FirstClocks  \* true times at which the first call may happen

ASSUME FontConstants ==
  /\ Null \notin Addrs
  /\ Kinds \subseteq [set : {"regular", "bold", "other"}, height : Nat \ {0}]
  /\ Indices \subseteq Nat
  /\ {Capacity, MaxScale, Retry} \subseteq Nat \ {0}
  /\ CallTime \in Nat /\ 2 * CallTime < Retry
  /\ TickWrap \in Nat /\ Retry + CallTime < TickWrap \div 2
  /\ MaxClock \in Nat /\ FirstClocks \subseteq Retry .. MaxClock

VARIABLES
  ready,      \* the engine's object table exists
  table,      \* the engine's object table: index -> address
  object,     \* what lives at an address
  slots,      \* entries_
  nextScan,   \* nextScanTick_
  victim,     \* nextVictim_; the code wraps at 2^32, a multiple of its capacity
  call,       \* per thread: the call in progress, or the last one
  clock,      \* true milliseconds; the code sees clock % TickWrap
  published,  \* history: per slot, the entry a writer last completed there
  lastScan    \* history: the tick read of the last reserved scan

engineVars == <<ready, table, object>>
cacheVars == <<slots, nextScan, victim>>
history == <<published, lastScan>>
vars == <<engineVars, cacheVars, call, clock, history>>

CacheSlots == 1 .. Capacity
NoSlot == 0

\* What is left at an address once its object is unloaded.
Freed == [set |-> "other", height |-> 1]

EmptyEntry == [font |-> Null, source |-> Null, index |-> 0, bold |-> FALSE]

Idle ==
  [pc |-> "idle", began |-> 0, source |-> Null, bold |-> FALSE, fallback |-> FALSE,
   cursor |-> 1, cached |-> EmptyEntry, matching |-> NoSlot, now |-> 0, next |-> 0,
   chosen |-> EmptyEntry, target |-> NoSlot, result |-> Null]

-----------------------------------------------------------------------------
(***************************************************************************)
(* Fonts of the engine.                                                    *)
(***************************************************************************)
Loaded(a) == \E i \in Indices : table[i] = a

\* NameInCandidates and MatchesCandidateSet; IsFont and the method table are
\* part of being an object of a candidate set.
CandidateSet(bold) == IF bold THEN "bold" ELSE "regular"

Matches(a, bold, fallback) ==
  object[a].set \in {CandidateSet(bold)} \cup (IF fallback THEN {"regular"} ELSE {})

\* FindBestLoadedFont: the smallest candidate that is tall enough, else the
\* tallest one that improves on the source; the first index decides ties.
Improvements(set, source) ==
  {i \in Indices : /\ table[i] # Null
                   /\ object[table[i]].set = set
                   /\ object[table[i]].height > object[source].height}

Sufficient(set, source) ==
  {i \in Improvements(set, source) :
     object[table[i]].height >= MaxScale * object[source].height}

Before(i, j, smallest) ==
  LET hi == object[table[i]].height
      hj == object[table[j]].height
  IN  (IF smallest THEN hi < hj ELSE hi > hj) \/ (hi = hj /\ i <= j)

FindBestLoadedFont(set, source) ==
  LET enough == Sufficient(set, source)
      pool   == IF enough # {} THEN enough ELSE Improvements(set, source)
  IN  {i \in pool : \A j \in pool : Before(i, j, enough # {})}

Replacements(c) ==
  LET best == FindBestLoadedFont(CandidateSet(c.bold), c.source)
  IN  IF best = {} /\ c.fallback THEN FindBestLoadedFont("regular", c.source) ELSE best

-----------------------------------------------------------------------------
(***************************************************************************)
(* The cache policy.                                                       *)
(***************************************************************************)
KeyMatches(entry, c) == entry.source = c.source /\ entry.bold = c.bold

\* Validate, for an entry whose key matched.
Valid(entry) == ready /\ entry.index \in Indices /\ table[entry.index] = entry.font

\* Deliberate fault, used by no specification: trusts the address alone.
UsableBySlot(entry, c) == Valid(entry)

Usable(entry, c) == Valid(entry) /\ Matches(entry.font, c.bold, c.fallback)

\* Deliberate fault, used by no specification: compares ticks as numbers.
PlainTickReached(now, target) == now >= target

TickReached(now, target) == (now + TickWrap - target) % TickWrap < TickWrap \div 2

Deadline(now) ==
  LET sum == (now + Retry) % TickWrap IN IF sum = 0 THEN 1 ELSE sum

\* ChooseStorageIndex: the first slot without a font, else the next victim.
ChooseStorageIndex ==
  LET free == {i \in CacheSlots : slots[i].font = Null}
  IN  IF free # {} THEN CHOOSE i \in free : \A j \in free : i <= j
                   ELSE victim + 1

-----------------------------------------------------------------------------
(***************************************************************************)
(* A call of ResolveSharperArial.                                          *)
(***************************************************************************)
At(t, pc) == call[t].pc = pc

Goto(t, c, pc) == call' = [call EXCEPT ![t] = [c EXCEPT !.pc = pc]]

Return(t, font) == call' = [call EXCEPT ![t] = [Idle EXCEPT !.result = font]]

Begin(t, source, preferBold) ==
  /\ At(t, "idle")
  /\ Loaded(source)
  /\ LET isBold == object[source].set = "bold" IN
     Goto(t, [Idle EXCEPT !.began = clock, !.source = source,
                          !.bold = preferBold \/ isBold,
                          !.fallback = preferBold /\ ~isBold], "font")
  /\ UNCHANGED <<engineVars, cacheVars, clock, history>>

\* The four loads of a slot; "published pointer first".
LoadFont(t) ==
  /\ At(t, "font")
  /\ Goto(t, [call[t] EXCEPT !.cached.font = slots[call[t].cursor].font], "source")
  /\ UNCHANGED <<engineVars, cacheVars, clock, history>>

LoadSource(t) ==
  /\ At(t, "source")
  /\ Goto(t, [call[t] EXCEPT !.cached.source = slots[call[t].cursor].source], "index")
  /\ UNCHANGED <<engineVars, cacheVars, clock, history>>

LoadIndex(t) ==
  /\ At(t, "index")
  /\ Goto(t, [call[t] EXCEPT !.cached.index = slots[call[t].cursor].index], "bold")
  /\ UNCHANGED <<engineVars, cacheVars, clock, history>>

\* Deliberate fault, used by no specification: the search ends at an empty slot.
StopAtEmptySlot(t, c) ==
  IF c.cursor = Capacity \/ c.cached.font = Null
    THEN Goto(t, [c EXCEPT !.cached = EmptyEntry], "tick")
    ELSE Goto(t, [c EXCEPT !.cached = EmptyEntry, !.cursor = @ + 1], "font")

NextSlot(t, c) ==
  IF c.cursor = Capacity
    THEN Goto(t, [c EXCEPT !.cached = EmptyEntry], "tick")
    ELSE Goto(t, [c EXCEPT !.cached = EmptyEntry, !.cursor = @ + 1], "font")

WithMatching(c) == IF c.matching = NoSlot THEN [c EXCEPT !.matching = c.cursor] ELSE c

LoadBoldAndExamine(t) ==
  /\ At(t, "bold")
  /\ LET c == [call[t] EXCEPT !.cached.bold = slots[call[t].cursor].bold]
         e == c.cached
     IN  \/ ~KeyMatches(e, c) /\ NextSlot(t, c)
         \/ KeyMatches(e, c) /\ e.font = Null /\ NextSlot(t, WithMatching(c))
         \/ KeyMatches(e, c) /\ e.font # Null /\ Usable(e, c) /\ Return(t, e.font)
         \/ /\ KeyMatches(e, c) /\ e.font # Null /\ ~Usable(e, c)
            /\ Goto(t, WithMatching(c), "invalidate")
  /\ UNCHANGED <<engineVars, cacheVars, clock, history>>

\* The compare-exchange frees the slot only if its font is still the stale one.
Invalidate(t) ==
  /\ At(t, "invalidate")
  /\ LET i == call[t].cursor IN
     slots' = IF slots[i].font = call[t].cached.font
                THEN [slots EXCEPT ![i].font = Null] ELSE slots
  /\ NextSlot(t, call[t])
  /\ UNCHANGED <<engineVars, nextScan, victim, clock, history>>

ReadTick(t) ==
  /\ At(t, "tick")
  /\ IF ready THEN Goto(t, [call[t] EXCEPT !.now = clock], "deadline")
              ELSE Return(t, Null)
  /\ UNCHANGED <<engineVars, cacheVars, clock, history>>

LoadDeadline(t) ==
  /\ At(t, "deadline")
  /\ IF nextScan # 0 /\ ~TickReached(call[t].now % TickWrap, nextScan)
       THEN Return(t, Null)
       ELSE Goto(t, [call[t] EXCEPT !.next = nextScan], "reserve")
  /\ UNCHANGED <<engineVars, cacheVars, clock, history>>

\* Deliberate fault, used by no specification: a store instead of the
\* compare-exchange.
ReserveByStore(t) ==
  /\ At(t, "reserve")
  /\ nextScan' = Deadline(call[t].now % TickWrap)
  /\ lastScan' = call[t].now
  /\ Goto(t, call[t], "scan")
  /\ UNCHANGED <<engineVars, slots, victim, clock, published>>

Reserve(t) ==
  /\ At(t, "reserve")
  /\ IF nextScan = call[t].next
       THEN /\ nextScan' = Deadline(call[t].now % TickWrap)
            /\ lastScan' = call[t].now
            /\ Goto(t, [call[t] EXCEPT !.now = 0, !.next = 0], "scan")
       ELSE Return(t, Null) /\ UNCHANGED <<nextScan, lastScan>>
  /\ UNCHANGED <<engineVars, slots, victim, clock, published>>

\* The scan, and the choice of a slot.  The snapshot the choice reads is one
\* step: all another call may do meanwhile is free a further slot.
Scan(t) ==
  /\ At(t, "scan")
  /\ LET c == call[t]
         found == Replacements(c)
     IN  \/ found = {} /\ Return(t, Null) /\ UNCHANGED victim
         \/ \E i \in found :
              /\ Goto(t, [c EXCEPT
                            !.chosen = [font |-> table[i], source |-> c.source,
                                        index |-> i, bold |-> c.bold],
                            !.target = IF c.matching # NoSlot THEN c.matching
                                                              ELSE ChooseStorageIndex],
                      "clear")
              /\ victim' = IF c.matching # NoSlot THEN victim ELSE (victim + 1) % Capacity
  /\ UNCHANGED <<engineVars, slots, nextScan, clock, history>>

\* The five stores that replace a slot.
Store(t, entry, next) ==
  /\ slots' = [slots EXCEPT ![call[t].target] = entry]
  /\ Goto(t, call[t], next)
  /\ UNCHANGED <<engineVars, nextScan, victim, clock, history>>

Target(t) == slots[call[t].target]

ClearFont(t) ==
  At(t, "clear") /\ Store(t, [Target(t) EXCEPT !.font = Null], "put source")

StoreSource(t) ==
  /\ At(t, "put source")
  /\ Store(t, [Target(t) EXCEPT !.source = call[t].chosen.source], "put index")

StoreIndex(t) ==
  /\ At(t, "put index")
  /\ Store(t, [Target(t) EXCEPT !.index = call[t].chosen.index], "put bold")

StoreBold(t) ==
  At(t, "put bold") /\ Store(t, [Target(t) EXCEPT !.bold = call[t].chosen.bold], "publish")

Publish(t) ==
  /\ At(t, "publish")
  /\ slots' = [slots EXCEPT ![call[t].target].font = call[t].chosen.font]
  /\ published' = [published EXCEPT ![call[t].target] = call[t].chosen]
  /\ Return(t, call[t].chosen.font)
  /\ UNCHANGED <<engineVars, nextScan, victim, clock, lastScan>>

CallStep(t) ==
  \/ LoadFont(t) \/ LoadSource(t) \/ LoadIndex(t) \/ LoadBoldAndExamine(t)
  \/ Invalidate(t) \/ ReadTick(t) \/ LoadDeadline(t) \/ Reserve(t) \/ Scan(t)
  \/ ClearFont(t) \/ StoreSource(t) \/ StoreIndex(t) \/ StoreBold(t) \/ Publish(t)

-----------------------------------------------------------------------------
(***************************************************************************)
(* The engine and the clock.                                               *)
(***************************************************************************)
BetweenCalls == \A t \in Threads : At(t, "idle")

TableAppears ==
  /\ BetweenCalls /\ ~ready
  /\ ready' = TRUE
  /\ UNCHANGED <<table, object, cacheVars, call, clock, history>>

LoadObject(i, a, kind) ==
  /\ BetweenCalls /\ table[i] = Null /\ ~Loaded(a)
  /\ table' = [table EXCEPT ![i] = a]
  /\ object' = [object EXCEPT ![a] = kind]
  /\ UNCHANGED <<ready, cacheVars, call, clock, history>>

UnloadObject(i) ==
  /\ BetweenCalls /\ table[i] # Null
  /\ table' = [table EXCEPT ![i] = Null]
  /\ object' = [object EXCEPT ![table[i]] = Freed]
  /\ UNCHANGED <<ready, cacheVars, call, clock, history>>

ClockAdvances ==
  /\ clock < MaxClock
  /\ \A t \in Threads : ~At(t, "idle") => clock < call[t].began + CallTime
  /\ clock' = clock + 1
  /\ UNCHANGED <<engineVars, cacheVars, call, history>>

Init ==
  /\ ready \in BOOLEAN
  /\ table = [i \in Indices |-> Null]
  /\ object = [x \in Addrs |-> Freed]
  /\ slots = [i \in CacheSlots |-> EmptyEntry]
  /\ nextScan = 0 /\ victim = 0
  /\ call = [t \in Threads |-> Idle]
  /\ clock \in FirstClocks
  /\ published = [i \in CacheSlots |-> EmptyEntry]
  /\ lastScan = 0

Next ==
  \/ \E t \in Threads, source \in Addrs, preferBold \in BOOLEAN :
       Begin(t, source, preferBold)
  \/ \E t \in Threads : CallStep(t)
  \/ TableAppears
  \/ \E i \in Indices, a \in Addrs, kind \in Kinds : LoadObject(i, a, kind)
  \/ \E i \in Indices : UnloadObject(i)
  \/ ClockAdvances

Spec == Init /\ [][Next]_vars

-----------------------------------------------------------------------------
(***************************************************************************)
(* Properties.                                                             *)
(***************************************************************************)
EntryType ==
  [font : Addrs \cup {Null}, source : Addrs \cup {Null},
   index : Indices \cup {0}, bold : BOOLEAN]

CallType ==
  [pc : {"idle", "font", "source", "index", "bold", "invalidate", "tick", "deadline",
         "reserve", "scan", "clear", "put source", "put index", "put bold", "publish"},
   began : Nat, source : Addrs \cup {Null}, bold : BOOLEAN, fallback : BOOLEAN,
   cursor : CacheSlots, cached : EntryType, matching : CacheSlots \cup {NoSlot},
   now : Nat, next : 0 .. TickWrap - 1, chosen : EntryType,
   target : CacheSlots \cup {NoSlot}, result : Addrs \cup {Null}]

\* The cache, the reservation and the calls in progress have their types.
FontTypeOK ==
  /\ ready \in BOOLEAN
  /\ table \in [Indices -> Addrs \cup {Null}] /\ object \in [Addrs -> Kinds \cup {Freed}]
  /\ slots \in [CacheSlots -> EntryType] /\ published \in [CacheSlots -> EntryType]
  /\ nextScan \in 0 .. TickWrap - 1 /\ victim \in 0 .. Capacity - 1
  /\ call \in [Threads -> CallType]
  /\ clock \in Nat /\ lastScan \in Nat

\* "One cache-wide reservation bounds full UObject scans": whatever the
\* interleaving and wherever the tick count wraps, the clock readings of two
\* scans are at least the retry time apart.
ScansSpaced ==
  [][\A t \in Threads : At(t, "reserve") /\ At(t, "scan")' =>
       call[t].now >= lastScan + Retry]_vars

\* A call returns no font or one that is loaded right now and belongs to a
\* candidate set the caller asked for, even when the address was freed and
\* reused, or when another thread rewrites the slot between the loads.
ReturnedFontIsUsable ==
  [][\A t \in Threads : ~At(t, "idle") /\ At(t, "idle")' =>
       \/ call'[t].result = Null
       \/ Loaded(call'[t].result) /\ Matches(call'[t].result, call[t].bold, call[t].fallback)]_vars

\* The five stores of one call never mix with those of another: a slot that
\* shows a font shows exactly the entry some call completed there.
SlotsAreWhole ==
  \A i \in CacheSlots :
    slots[i].font # Null => slots[i] = published[i]

\* Two slots never hold the same source and weight: a stale entry is replaced
\* in place, and a copy of it cannot survive in a slot the search reaches first.
OneSlotPerKey ==
  \A i, j \in CacheSlots :
    slots[i].font # Null /\ slots[j].font # Null
      /\ slots[i].source = slots[j].source /\ slots[i].bold = slots[j].bold => i = j
=============================================================================
