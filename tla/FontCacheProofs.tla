--------------------------- MODULE FontCacheProofs ---------------------------
(***************************************************************************)
(* Proofs about the lock-free font cache, for any threads, addresses,      *)
(* fonts, number of slots, retry time and width of the tick count: scans   *)
(* are spaced, only usable fonts are returned, slots are whole, and no key *)
(* is in two slots.                                                        *)
(*                                                                         *)
(* No lock orders the writers.  The argument is one of time: the calls     *)
(* that may still reserve a scan (Fresh) began after every earlier writer  *)
(* was done, so there is at most one writer, and what such a call found    *)
(* while it searched is still true when it writes.                         *)
(***************************************************************************)
EXTENDS FontCache, Integers, TLAPS, WellFoundedInduction

-----------------------------------------------------------------------------
(***************************************************************************)
(* The invariant.                                                          *)
(***************************************************************************)
SearchSteps == {"font", "source", "index", "bold", "invalidate"}
ReserveSteps == {"tick", "deadline", "reserve"}
StoreSteps == {"clear", "put source", "put index", "put bold", "publish"}

Active(t) == ~At(t, "idle")
Searching(t) == call[t].pc \in SearchSteps
Reserving(t) == call[t].pc \in ReserveSteps
Storing(t) == call[t].pc \in StoreSteps
Writer(t) == At(t, "scan") \/ Storing(t)

\* A call that began late enough to find the next scan due before it must end.
Fresh(t) == lastScan + Retry <= call[t].began + CallTime

\* A slot shows a font under the key.
Holds(i, source, bold) == slots[i].font # Null /\ slots[i].source = source /\ slots[i].bold = bold

\* No call takes longer than CallTime, and the clock it read is of its time.
InTime(t) ==
  /\ Active(t) => Retry <= call[t].began /\ call[t].began <= clock /\ clock <= call[t].began + CallTime
  /\ call[t].pc \in {"deadline", "reserve"} => call[t].began <= call[t].now /\ call[t].now <= clock

\* A call about to reserve has seen its deadline reached, a writer reserved the last scan.
Reserved(t) ==
  /\ At(t, "reserve") => call[t].next = 0 \/ TickReached(call[t].now % TickWrap, call[t].next)
  /\ Writer(t) => call[t].began <= lastScan

\* What a writer found, and what it has stored of it so far.
Chosen(t) ==
  Storing(t) =>
    /\ call[t].target \in CacheSlots
    /\ call[t].chosen.source = call[t].source /\ call[t].chosen.bold = call[t].bold
    /\ call[t].chosen.font # Null /\ Loaded(call[t].chosen.font)
    /\ Matches(call[t].chosen.font, call[t].bold, call[t].fallback)

Stored(t) ==
  /\ Storing(t) /\ ~At(t, "clear") => Target(t).font = Null
  /\ At(t, "put index") \/ At(t, "put bold") \/ At(t, "publish") =>
       Target(t).source = call[t].chosen.source
  /\ At(t, "put bold") \/ At(t, "publish") => Target(t).index = call[t].chosen.index
  /\ At(t, "publish") => Target(t).bold = call[t].chosen.bold

\* A fresh call's loads still describe the slot, but that its font may have
\* been cleared.
Loads(t) ==
  Fresh(t) =>
    /\ Searching(t) /\ ~At(t, "font") => slots[call[t].cursor].font \in {call[t].cached.font, Null}
    /\ At(t, "index") \/ At(t, "bold") => slots[call[t].cursor].source = call[t].cached.source

\* A fresh call's key is in none of the slots it has passed, and a writer's in none.
Searched(t) ==
  \A i \in CacheSlots :
    /\ Searching(t) /\ Fresh(t) /\ i < call[t].cursor => ~Holds(i, call[t].source, call[t].bold)
    /\ Reserving(t) /\ Fresh(t) => ~Holds(i, call[t].source, call[t].bold)
    /\ Writer(t) => ~Holds(i, call[t].source, call[t].bold)

CallInv(t) == InTime(t) /\ Reserved(t) /\ Chosen(t) /\ Stored(t) /\ Loads(t) /\ Searched(t)

\* The deadline is that of the last scan.
DeadlineInv ==
  /\ Retry <= clock /\ lastScan <= clock
  /\ nextScan = IF lastScan = 0 THEN 0 ELSE Deadline(lastScan % TickWrap)

OneWriter == \A t, u \in Threads : Writer(t) /\ Writer(u) => t = u

CacheInv ==
  /\ FontTypeOK /\ DeadlineInv /\ OneWriter /\ \A t \in Threads : CallInv(t)
  /\ SlotsAreWhole /\ OneSlotPerKey

-----------------------------------------------------------------------------
(***************************************************************************)
(* Ticks.                                                                  *)
(***************************************************************************)
\* Division leaves a quotient and a remainder.
LEMMA DivMod ==
  ASSUME NEW t \in Int, NEW d \in Nat \ {0}
  PROVE  t = d * (t \div d) + (t % d) /\ t \div d \in Int /\ t % d \in 0 .. d - 1
BY SMT

\* A remainder below the divisor is the remainder.
LEMMA ModUnique ==
  ASSUME NEW t \in Int, NEW d \in Nat \ {0}, NEW q \in Int, NEW r \in 0 .. d - 1,
         t = d * q + r
  PROVE  t % d = r
<1> DEFINE x == t \div d
           y == t % d
<1>1. t = d * x + y /\ x \in Int /\ y \in 0 .. d - 1
  BY DivMod
<1> HIDE DEF x, y
<1>2. d * (x - q) = r - y
  BY <1>1, SMT
<1>3. x = q
  BY <1>1, <1>2, SMT
<1>4. y = r
  BY <1>1, <1>2, <1>3, SMT
<1> QED
  BY <1>4 DEF y

\* The ranges the tick count leaves: half of it is more than the retry time and
\* a call together, and the tick after a call's half of the retry time is in it.
LEMMA TickRange ==
  /\ TickWrap \in Nat \ {0} /\ TickWrap >= 4
  /\ TickWrap \div 2 \in Nat /\ 2 * (TickWrap \div 2) <= TickWrap
  /\ Retry \in Nat \ {0} /\ CallTime \in Nat
  /\ Retry + CallTime + 1 <= TickWrap \div 2
<1>1. /\ TickWrap \in Nat /\ Retry \in Nat \ {0} /\ CallTime \in Nat
      /\ Retry + CallTime < TickWrap \div 2
  BY FontConstants
<1> QED
  BY <1>1, SMT

\* A deadline is a tick, and never the value that stands for "none".
LEMMA DeadlineTyped ==
  ASSUME NEW tick \in Nat
  PROVE  Deadline(tick) \in 1 .. TickWrap - 1
<1> DEFINE sum == (tick + Retry) % TickWrap
<1>1. sum \in 0 .. TickWrap - 1
  BY TickRange, DivMod
<1>2. Deadline(tick) = IF sum = 0 THEN 1 ELSE sum
  BY DEF Deadline
<1> HIDE DEF sum
<1> QED
  BY <1>1, <1>2, TickRange

\* The tick comparison decides the true order: a clock reading that reached the
\* deadline of a scan is a retry time behind it, wherever the tick count wraps,
\* if the scan is not more than a call ahead of it.
LEMMA ScanDecides ==
  ASSUME NEW now \in Nat, NEW last \in Nat, last <= now + CallTime,
         TickReached(now % TickWrap, Deadline(last % TickWrap))
  PROVE  last + Retry <= now
<1> DEFINE W == TickWrap
           H == TickWrap \div 2
           a == now \div W
           x == now % W
           b == last \div W
           y == last % W
           e == (y + Retry) \div W
           s == (y + Retry) % W
           D == Deadline(y)
<1>1. W \in Nat \ {0} /\ W >= 4 /\ H \in Nat /\ 2 * H <= W
  BY TickRange
<1>2. Retry \in Nat /\ CallTime \in Nat /\ Retry + CallTime + 1 <= H
  BY TickRange
<1>3. now = W * a + x /\ a \in Int /\ x \in 0 .. W - 1
  BY <1>1, DivMod
<1>4. last = W * b + y /\ b \in Int /\ y \in 0 .. W - 1
  BY <1>1, DivMod
<1>5. y + Retry = W * e + s /\ e \in Int /\ s \in 0 .. W - 1
  <2>1. y + Retry \in Int
    BY <1>1, <1>2, <1>4
  <2> QED
    BY <1>1, <2>1, DivMod
<1>6. D = IF s = 0 THEN 1 ELSE s
  BY DEF Deadline
<1>7. (x + W - D) % W < H
  BY DEF TickReached
<1> HIDE DEF W, H, a, x, b, y, e, s, D
<1> SUFFICES ASSUME now < last + Retry PROVE FALSE
  BY <1>2
<1> DEFINE extra == D - s
           rest == W + (now - last - Retry) - extra
           k == b + e - a
<1>8. extra \in 0 .. 1 /\ D = s + extra
  BY <1>5, <1>6
<1>9. rest \in 0 .. W - 1 /\ rest >= H
  BY <1>1, <1>2, <1>8
<1>10. x + W - D = W * k + rest /\ k \in Int
  <2>1. W * k = W * b + W * e - W * a
    BY <1>1, <1>3, <1>4, <1>5, SMT
  <2> DEFINE wa == W * a
             wb == W * b
             we == W * e
             wk == W * k
  <2>2. /\ wk = wb + we - wa /\ now = wa + x /\ last = wb + y /\ y + Retry = we + s
        /\ wa \in Int /\ wb \in Int /\ we \in Int
    BY <1>1, <1>3, <1>4, <1>5, <2>1
  <2>3. k \in Int
    BY <1>3, <1>4, <1>5
  <2> HIDE DEF wa, wb, we, wk, k, extra
  <2>4. x + W - D = wk + rest
    BY <1>1, <1>2, <1>3, <1>4, <1>5, <1>8, <2>2
  <2> QED
    BY <2>3, <2>4 DEF wk
<1> HIDE DEF rest, k, extra
<1>11. x + W - D \in Int
  BY <1>1, <1>3, <1>5, <1>6
<1>12. (x + W - D) % W = rest
  <2> DEFINE z == x + W - D
  <2>1. z \in Int /\ z = W * k + rest
    BY <1>10, <1>11
  <2> HIDE DEF z
  <2>2. z % W = rest
    BY <1>1, <1>9, <1>10, <2>1, ModUnique
  <2> QED
    BY <2>2 DEF z
<1> QED
  BY <1>7, <1>9, <1>12, <1>1

-----------------------------------------------------------------------------
(***************************************************************************)
(* Types.                                                                  *)
(***************************************************************************)
CallsTyped == call \in [Threads -> CallType]

\* A call that has not begun, and an empty slot, have their types.
LEMMA IdleTyped == EmptyEntry \in EntryType /\ Idle \in CallType
<1>1. 1 \in CacheSlots /\ TickWrap - 1 \in Nat
  BY FontConstants, TickRange DEF CacheSlots
<1>2. EmptyEntry \in EntryType
  BY DEF EmptyEntry, EntryType
<1> QED
  BY <1>1, <1>2, TickRange DEF Idle, CallType

\* Going on to a step changes one call only.
LEMMA Went ==
  ASSUME CallsTyped, NEW t \in Threads, NEW c \in CallType,
         NEW pc \in {"font", "source", "index", "bold", "invalidate", "tick", "deadline",
                     "reserve", "scan", "clear", "put source", "put index", "put bold", "publish"},
         Goto(t, c, pc)
  PROVE  /\ CallsTyped' /\ call'[t] = [c EXCEPT !.pc = pc]
         /\ \A u \in Threads \ {t} : call'[u] = call[u]
<1>1. [c EXCEPT !.pc = pc] \in CallType
  BY DEF CallType
<1> HIDE DEF CallType
<1> QED
  BY <1>1 DEF CallsTyped, Goto

\* So does returning.
LEMMA Returned ==
  ASSUME CallsTyped, NEW t \in Threads, NEW font \in Addrs \cup {Null}, Return(t, font)
  PROVE  /\ CallsTyped' /\ call'[t] = [Idle EXCEPT !.result = font]
         /\ \A u \in Threads \ {t} : call'[u] = call[u]
<1>1. [Idle EXCEPT !.result = font] \in CallType
  BY IdleTyped DEF CallType
<1> HIDE DEF CallType
<1> QED
  BY <1>1 DEF CallsTyped, Return

\* A call of which only the step differs.
LEMMA StepOnly ==
  ASSUME NEW c \in CallType, NEW pc
  PROVE  LET d == [c EXCEPT !.pc = pc] IN
         /\ d.pc = pc /\ d.began = c.began /\ d.source = c.source /\ d.bold = c.bold
         /\ d.fallback = c.fallback /\ d.cursor = c.cursor /\ d.cached = c.cached
         /\ d.now = c.now /\ d.next = c.next /\ d.chosen = c.chosen /\ d.target = c.target
BY DEF CallType

\* What was loaded of a slot may be put in the call, one field after the other.
LEMMA LoadTyped ==
  ASSUME NEW c \in CallType, NEW x \in EntryType
  PROVE  LET d == [c EXCEPT !.cached = x] IN
         /\ d \in CallType
         /\ d.began = c.began /\ d.source = c.source /\ d.bold = c.bold
         /\ d.fallback = c.fallback /\ d.cursor = c.cursor /\ d.cached = x
BY DEF CallType

\* An entry with one field of another.
LEMMA EntryTyped ==
  ASSUME NEW c \in CallType, NEW e \in EntryType
  PROVE  /\ [c.cached EXCEPT !.font = e.font] \in EntryType
         /\ [c.cached EXCEPT !.font = e.font].font = e.font
         /\ [c.cached EXCEPT !.source = e.source] \in EntryType
         /\ [c.cached EXCEPT !.source = e.source].font = c.cached.font
         /\ [c.cached EXCEPT !.source = e.source].source = e.source
         /\ [c.cached EXCEPT !.index = e.index] \in EntryType
         /\ [c.cached EXCEPT !.index = e.index].font = c.cached.font
         /\ [c.cached EXCEPT !.index = e.index].source = c.cached.source
         /\ [c.cached EXCEPT !.bold = e.bold] \in EntryType
         /\ [c.cached EXCEPT !.bold = e.bold].font = c.cached.font
         /\ [c.cached EXCEPT !.bold = e.bold].source = c.cached.source
         /\ [c.cached EXCEPT !.bold = e.bold].bold = e.bold
<1>1. c.cached \in EntryType
  BY DEF CallType
<1> DEFINE x == c.cached
<1> HIDE DEF x
<1>2. x \in EntryType
  BY <1>1 DEF x
<1>3. /\ [x EXCEPT !.font = e.font] \in EntryType
      /\ [x EXCEPT !.font = e.font].font = e.font
      /\ [x EXCEPT !.source = e.source] \in EntryType
      /\ [x EXCEPT !.source = e.source].font = x.font
      /\ [x EXCEPT !.source = e.source].source = e.source
  BY <1>2 DEF EntryType
<1>4. /\ [x EXCEPT !.index = e.index] \in EntryType
      /\ [x EXCEPT !.index = e.index].font = x.font
      /\ [x EXCEPT !.index = e.index].source = x.source
      /\ [x EXCEPT !.bold = e.bold] \in EntryType
      /\ [x EXCEPT !.bold = e.bold].font = x.font
      /\ [x EXCEPT !.bold = e.bold].source = x.source
      /\ [x EXCEPT !.bold = e.bold].bold = e.bold
  BY <1>2 DEF EntryType
<1> QED
  BY <1>3, <1>4 DEF x

\* A call and a slot that are typed.
LEMMA Typed ==
  ASSUME FontTypeOK, NEW t \in Threads
  PROVE  /\ call[t] \in CallType /\ call[t].cursor \in CacheSlots
         /\ slots[call[t].cursor] \in EntryType
<1>1. call[t] \in CallType
  BY DEF FontTypeOK
<1>2. call[t].cursor \in CacheSlots
  BY <1>1 DEF CallType
<1> QED
  BY <1>1, <1>2 DEF FontTypeOK

\* Going on to the next slot, or to the tick after the last one.
LEMMA SlotPassed ==
  ASSUME CallsTyped, NEW t \in Threads, NEW c \in CallType, NextSlot(t, c)
  PROVE  /\ CallsTyped' /\ \A u \in Threads \ {t} : call'[u] = call[u]
         /\ call'[t].began = c.began /\ call'[t].source = c.source /\ call'[t].bold = c.bold
         /\ \/ c.cursor = Capacity /\ call'[t].pc = "tick"
            \/ /\ c.cursor # Capacity /\ call'[t].pc = "font" /\ call'[t].cursor = c.cursor + 1
<1>1. c.cursor \in CacheSlots /\ Capacity \in Nat
  BY FontConstants DEF CallType
<1> DEFINE d == [c EXCEPT !.cached = EmptyEntry]
<1>2. d \in CallType /\ d.cursor = c.cursor
  BY IdleTyped DEF CallType
<1>3. CASE c.cursor = Capacity
  <2>1. Goto(t, d, "tick")
    BY <1>3 DEF NextSlot
  <2>2. /\ CallsTyped' /\ call'[t] = [d EXCEPT !.pc = "tick"]
        /\ \A u \in Threads \ {t} : call'[u] = call[u]
    BY <1>2, <2>1, Went
  <2> QED
    BY <1>3, <2>2 DEF CallType
<1>4. CASE c.cursor # Capacity
  <2> DEFINE n == [c EXCEPT !.cached = EmptyEntry, !.cursor = @ + 1]
  <2>1. c.cursor + 1 \in CacheSlots
    BY <1>1, <1>4 DEF CacheSlots
  <2>2. n \in CallType
    <3>1. n = [d EXCEPT !.cursor = d.cursor + 1]
      BY DEF CallType
    <3> HIDE DEF d, n
    <3> QED
      BY <1>2, <2>1, <3>1 DEF CallType
  <2>3. Goto(t, n, "font")
    BY <1>4 DEF NextSlot
  <2>4. /\ CallsTyped' /\ call'[t] = [n EXCEPT !.pc = "font"]
        /\ \A u \in Threads \ {t} : call'[u] = call[u]
    BY <2>2, <2>3, Went
  <2> QED
    BY <1>4, <2>4 DEF CallType
<1> QED
  BY <1>3, <1>4

\* A load puts one field of the slot in the call, and nothing else moves.
LEMMA Loading ==
  ASSUME CallsTyped, NEW t \in Threads, NEW c \in CallType, NEW x \in EntryType,
         NEW pc \in {"source", "index", "bold"},
         Goto(t, [c EXCEPT !.cached = x], pc)
  PROVE  /\ CallsTyped' /\ \A u \in Threads \ {t} : call'[u] = call[u]
         /\ call'[t].pc = pc /\ call'[t].began = c.began /\ call'[t].source = c.source
         /\ call'[t].bold = c.bold /\ call'[t].cursor = c.cursor /\ call'[t].cached = x
<1> DEFINE d == [c EXCEPT !.cached = x]
<1>1. /\ d \in CallType
      /\ d.began = c.began /\ d.source = c.source /\ d.bold = c.bold
      /\ d.fallback = c.fallback /\ d.cursor = c.cursor /\ d.cached = x
  BY LoadTyped
<1>2. Goto(t, d, pc)
  OBVIOUS
<1> HIDE DEF d
<1>3. [d EXCEPT !.pc = pc] \in CallType
  BY <1>1 DEF CallType
<1>4. /\ CallsTyped' /\ call'[t] = [d EXCEPT !.pc = pc]
      /\ \A u \in Threads \ {t} : call'[u] = call[u]
  <2> HIDE DEF CallType
  <2> QED
    BY <1>2, <1>3 DEF CallsTyped, Goto
<1> QED
  BY <1>1, <1>4, StepOnly

-----------------------------------------------------------------------------
(***************************************************************************)
(* Steps that change no slot.                                              *)
(***************************************************************************)
\* What is known of a call stays known while neither it nor the cache moves.
LEMMA CallUnmoved ==
  ASSUME NEW u \in Threads, call'[u] = call[u], UNCHANGED <<table, object, slots, clock, lastScan>>,
         CallInv(u)
  PROVE  CallInv(u)' /\ (Writer(u)' <=> Writer(u))
<1>1. \A pc : At(u, pc)' <=> At(u, pc)
  BY DEF At
<1>2. /\ Active(u)' <=> Active(u)
      /\ Searching(u)' <=> Searching(u)
      /\ Reserving(u)' <=> Reserving(u)
      /\ Storing(u)' <=> Storing(u)
      /\ Fresh(u)' <=> Fresh(u)
  BY <1>1 DEF Active, Searching, Reserving, Storing, Fresh
<1>3. Writer(u)' <=> Writer(u)
  BY <1>1, <1>2 DEF Writer
<1>4. InTime(u)' /\ Reserved(u)'
  BY <1>1, <1>2, <1>3 DEF CallInv, InTime, Reserved, TickReached
<1>5. Chosen(u)'
  BY <1>2 DEF CallInv, Chosen, Loaded, Matches
<1>6. Stored(u)' /\ Loads(u)'
  BY <1>1, <1>2 DEF CallInv, Stored, Loads, Target
<1>7. Searched(u)'
  BY <1>2, <1>3 DEF CallInv, Searched, Holds
<1> QED
  BY <1>3, <1>4, <1>5, <1>6, <1>7 DEF CallInv

\* If one call moves, and neither slots nor clock nor reservation nor engine
\* do, only what is known of that call has to be shown again.
LEMMA QuietStep ==
  ASSUME CacheInv, NEW t \in Threads, CallsTyped', CallInv(t)', Writer(t)' => Writer(t),
         \A u \in Threads \ {t} : call'[u] = call[u],
         UNCHANGED <<engineVars, slots, nextScan, clock, history>>, victim' \in 0 .. Capacity - 1
  PROVE  CacheInv'
<1>1. UNCHANGED <<ready, table, object, slots, nextScan, clock, published, lastScan>>
  BY DEF engineVars, history
<1>2. \A u \in Threads \ {t} : CallInv(u)' /\ (Writer(u)' <=> Writer(u))
  BY <1>1, CallUnmoved DEF CacheInv
<1>3. \A u \in Threads : CallInv(u)' /\ (Writer(u)' => Writer(u))
  BY <1>2
<1>4. FontTypeOK'
  BY <1>1 DEF CacheInv, FontTypeOK, CallsTyped
<1>5. DeadlineInv'
  BY <1>1 DEF CacheInv, DeadlineInv, Deadline
<1>6. OneWriter'
  BY <1>3 DEF CacheInv, OneWriter
<1>7. SlotsAreWhole' /\ OneSlotPerKey'
  BY <1>1 DEF CacheInv, SlotsAreWhole, OneSlotPerKey
<1> QED
  BY <1>3, <1>4, <1>5, <1>6, <1>7 DEF CacheInv

\* Steps are different strings, so each belongs to one phase of a call.
LEMMA Phases ==
  ASSUME NEW t \in Threads
  PROVE  /\ At(t, "idle") => ~Active(t) /\ ~Searching(t) /\ ~Reserving(t) /\ ~Storing(t) /\ ~Writer(t)
         /\ Searching(t) => Active(t) /\ ~Reserving(t) /\ ~Storing(t) /\ ~Writer(t)
         /\ Reserving(t) => Active(t) /\ ~Searching(t) /\ ~Storing(t) /\ ~Writer(t)
         /\ At(t, "scan") => Active(t) /\ ~Reserving(t) /\ ~Searching(t) /\ ~Storing(t) /\ Writer(t)
         /\ Storing(t) => Active(t) /\ ~Reserving(t) /\ ~Searching(t) /\ Writer(t) /\ ~At(t, "scan")
BY DEF At, Active, Searching, Reserving, Storing, Writer, SearchSteps, ReserveSteps, StoreSteps

\* Of a call that has returned nothing has to be known.
LEMMA IdleCall ==
  ASSUME NEW t \in Threads, At(t, "idle")
  PROVE  CallInv(t) /\ ~Writer(t)
<1>1. ~Active(t) /\ ~Searching(t) /\ ~Reserving(t) /\ ~Storing(t) /\ ~Writer(t)
  BY Phases
<1>2. \A pc : At(t, pc) => pc = "idle"
  BY DEF At
<1>3. InTime(t) /\ Reserved(t) /\ Stored(t)
  BY <1>1, <1>2 DEF InTime, Reserved, Stored, At
<1>4. Chosen(t) /\ Searched(t) /\ Loads(t)
  BY <1>1, <1>2 DEF Chosen, Searched, Loads
<1> QED
  BY <1>1, <1>3, <1>4 DEF CallInv

\* A call that returns without touching the cache.
LEMMA QuietReturn ==
  ASSUME CacheInv, NEW t \in Threads, NEW font \in Addrs \cup {Null}, Return(t, font),
         UNCHANGED <<engineVars, slots, nextScan, victim, clock, history>>
  PROVE  CacheInv'
<1>1. /\ CallsTyped' /\ call'[t] = [Idle EXCEPT !.result = font]
      /\ \A u \in Threads \ {t} : call'[u] = call[u]
  BY Returned DEF CacheInv, FontTypeOK, CallsTyped
<1>2. At(t, "idle")'
  BY <1>1, IdleTyped DEF At, Idle, CallType
<1>3. CallInv(t)' /\ ~Writer(t)'
  BY <1>2, IdleCall, PTL
<1> QED
  BY <1>1, <1>3, QuietStep DEF CacheInv, FontTypeOK

\* A call that goes on searching at the same slot keeps what it has passed.
LEMMA SearchGoesOn ==
  ASSUME CacheInv, NEW t \in Threads, Searching(t), Searching(t)', Loads(t)',
         UNCHANGED <<slots, clock, lastScan>>,
         call'[t].began = call[t].began, call'[t].source = call[t].source,
         call'[t].bold = call[t].bold, call'[t].cursor = call[t].cursor
  PROVE  CallInv(t)' /\ ~Writer(t)'
<1>1. Active(t) /\ CallInv(t)
  BY Phases DEF CacheInv
<1>2. ~Reserving(t)' /\ ~Storing(t)' /\ ~Writer(t)'
  BY Phases, PTL
<1>3. Fresh(t)' <=> Fresh(t)
  BY DEF Fresh
<1>4. call'[t].pc \in SearchSteps
  BY DEF Searching
<1>5. InTime(t)' /\ Reserved(t)'
  BY <1>1, <1>2, <1>4 DEF CallInv, InTime, Reserved, At, SearchSteps
<1>6. Chosen(t)' /\ Stored(t)'
  BY <1>2, <1>4 DEF Chosen, Stored, At, SearchSteps
<1>7. Searched(t)'
  BY <1>1, <1>2, <1>3 DEF CallInv, Searched, Holds
<1> QED
  BY <1>2, <1>5, <1>6, <1>7 DEF CallInv

\* The font, the source and the index of the slot are loaded.
LEMMA LoadStep ==
  ASSUME CacheInv, NEW t \in Threads, LoadFont(t) \/ LoadSource(t) \/ LoadIndex(t)
  PROVE  CacheInv'
<1> DEFINE c == call[t]
           slot == slots[call[t].cursor]
<1>1. c \in CallType /\ c.cursor \in CacheSlots /\ slot \in EntryType /\ FontTypeOK
  BY Typed DEF CacheInv
<1>2. UNCHANGED <<engineVars, slots, nextScan, victim, clock, history>>
  BY DEF LoadFont, LoadSource, LoadIndex, cacheVars
<1>3. /\ CallsTyped' /\ \A u \in Threads \ {t} : call'[u] = call[u]
      /\ Searching(t) /\ Searching(t)' /\ Loads(t)'
      /\ call'[t].began = c.began /\ call'[t].source = c.source
      /\ call'[t].bold = c.bold /\ call'[t].cursor = c.cursor
  <2>1. CASE LoadFont(t)
    <3> DEFINE x == [c.cached EXCEPT !.font = slot.font]
    <3>1. x \in EntryType
      BY <1>1, EntryTyped
    <3>2. Goto(t, [c EXCEPT !.cached = x], "source") /\ At(t, "font")
      BY <2>1 DEF LoadFont
    <3>3. /\ CallsTyped' /\ \A u \in Threads \ {t} : call'[u] = call[u]
          /\ call'[t].pc = "source" /\ call'[t].began = c.began /\ call'[t].source = c.source
          /\ call'[t].bold = c.bold /\ call'[t].cursor = c.cursor /\ call'[t].cached = x
      BY <1>1, <3>1, <3>2, Loading DEF FontTypeOK, CallsTyped
    <3>4. Searching(t) /\ Searching(t)' /\ (Fresh(t)' <=> Fresh(t))
      BY <1>2, <3>2, <3>3 DEF At, Searching, SearchSteps, Fresh, history
    <3>5. x.font = slot.font
      BY <1>1, EntryTyped
    <3>6. Loads(t)'
      BY <1>2, <3>3, <3>5 DEF Loads, At
    <3> QED
      BY <3>3, <3>4, <3>6
  <2>2. CASE LoadSource(t)
    <3> DEFINE x == [c.cached EXCEPT !.source = slot.source]
    <3>1. x \in EntryType
      BY <1>1, EntryTyped
    <3>2. Goto(t, [c EXCEPT !.cached = x], "index") /\ At(t, "source")
      BY <2>2 DEF LoadSource
    <3>3. /\ CallsTyped' /\ \A u \in Threads \ {t} : call'[u] = call[u]
          /\ call'[t].pc = "index" /\ call'[t].began = c.began /\ call'[t].source = c.source
          /\ call'[t].bold = c.bold /\ call'[t].cursor = c.cursor /\ call'[t].cached = x
      BY <1>1, <3>1, <3>2, Loading DEF FontTypeOK, CallsTyped
    <3>4. Searching(t) /\ Searching(t)' /\ (Fresh(t)' <=> Fresh(t))
      BY <1>2, <3>2, <3>3 DEF At, Searching, SearchSteps, Fresh, history
    <3>5. x.font = c.cached.font /\ x.source = slot.source
      BY <1>1, EntryTyped
    <3>6. Loads(t)'
      <4>1. Fresh(t) => slot.font \in {c.cached.font, Null}
        BY <3>2, <3>4 DEF CacheInv, CallInv, Loads, At
      <4> HIDE DEF x
      <4> QED
        BY <1>2, <3>3, <3>4, <3>5, <4>1 DEF Loads, At
    <3> QED
      BY <3>3, <3>4, <3>6
  <2>3. CASE LoadIndex(t)
    <3> DEFINE x == [c.cached EXCEPT !.index = slot.index]
    <3>1. x \in EntryType
      BY <1>1, EntryTyped
    <3>2. Goto(t, [c EXCEPT !.cached = x], "bold") /\ At(t, "index")
      BY <2>3 DEF LoadIndex
    <3>3. /\ CallsTyped' /\ \A u \in Threads \ {t} : call'[u] = call[u]
          /\ call'[t].pc = "bold" /\ call'[t].began = c.began /\ call'[t].source = c.source
          /\ call'[t].bold = c.bold /\ call'[t].cursor = c.cursor /\ call'[t].cached = x
      BY <1>1, <3>1, <3>2, Loading DEF FontTypeOK, CallsTyped
    <3>4. Searching(t) /\ Searching(t)' /\ (Fresh(t)' <=> Fresh(t))
      BY <1>2, <3>2, <3>3 DEF At, Searching, SearchSteps, Fresh, history
    <3>5. x.font = c.cached.font /\ x.source = c.cached.source
      BY <1>1, EntryTyped
    <3>6. Loads(t)'
      <4>1. Fresh(t) => slot.font \in {c.cached.font, Null} /\ slot.source = c.cached.source
        BY <3>2, <3>4 DEF CacheInv, CallInv, Loads, At
      <4> HIDE DEF x
      <4> QED
        BY <1>2, <3>3, <3>4, <3>5, <4>1 DEF Loads, At
    <3> QED
      BY <3>3, <3>4, <3>6
  <2> QED
    BY <2>1, <2>2, <2>3
<1>4. CallInv(t)' /\ ~Writer(t)'
  BY <1>2, <1>3, SearchGoesOn DEF history
<1> QED
  BY <1>2, <1>3, <1>4, QuietStep DEF CacheInv, FontTypeOK

\* A call passes a slot that does not hold its key, or not any more.
LEMMA PassStep ==
  ASSUME CacheInv, NEW t \in Threads, NEW c \in CallType, NextSlot(t, c), Searching(t),
         c.began = call[t].began, c.source = call[t].source, c.bold = call[t].bold,
         c.cursor = call[t].cursor,
         UNCHANGED <<clock, lastScan>>, slots' \in [CacheSlots -> EntryType],
         \A i \in CacheSlots : \/ slots'[i] = slots[i]
                               \/ slots'[i].font = Null,
         Fresh(t) => ~Holds(c.cursor, c.source, c.bold)'
  PROVE  /\ CallInv(t)' /\ ~Writer(t)' /\ CallsTyped'
         /\ \A u \in Threads \ {t} : call'[u] = call[u]
<1>1. /\ CallsTyped' /\ \A u \in Threads \ {t} : call'[u] = call[u]
      /\ call'[t].began = c.began /\ call'[t].source = c.source /\ call'[t].bold = c.bold
      /\ \/ c.cursor = Capacity /\ call'[t].pc = "tick"
         \/ /\ c.cursor # Capacity /\ call'[t].pc = "font" /\ call'[t].cursor = c.cursor + 1
  BY SlotPassed DEF CacheInv, FontTypeOK, CallsTyped
<1>2. Active(t) /\ CallInv(t) /\ c.cursor \in 1 .. Capacity /\ Capacity \in Nat
  BY Phases, FontConstants DEF CacheInv, CallType, CacheSlots
<1>3. ~Storing(t)' /\ ~Writer(t)'
  BY <1>1 DEF Storing, StoreSteps, Writer, At
<1>4. Fresh(t)' <=> Fresh(t)
  BY <1>1 DEF Fresh
<1>5. InTime(t)' /\ Reserved(t)'
  BY <1>1, <1>2, <1>3 DEF CallInv, InTime, Reserved, At, Active
<1>6. Chosen(t)' /\ Stored(t)' /\ Loads(t)'
  BY <1>1, <1>3 DEF Chosen, Stored, Loads, At, Searching, SearchSteps
<1>7. ASSUME NEW i \in CacheSlots, Fresh(t), i <= c.cursor
      PROVE  ~Holds(i, c.source, c.bold)'
  <2>1. CASE i = c.cursor
    BY <1>7, <2>1
  <2>2. CASE i # c.cursor
    <3>1. i < c.cursor
      BY <1>2, <1>7, <2>2 DEF CacheSlots
    <3>2. ~Holds(i, c.source, c.bold)
      BY <1>2, <1>7, <3>1 DEF CallInv, Searched
    <3> QED
      BY <3>2 DEF Holds
  <2> QED
    BY <2>1, <2>2
<1>8. Searched(t)'
  <2> SUFFICES ASSUME NEW i \in CacheSlots, Fresh(t),
                      (Searching(t)' /\ i < call'[t].cursor) \/ Reserving(t)'
               PROVE  ~Holds(i, c.source, c.bold)'
    BY <1>1, <1>3, <1>4 DEF Searched, Holds
  <2>1. i <= c.cursor
    BY <1>1, <1>2 DEF Searching, Reserving, SearchSteps, ReserveSteps, CacheSlots
  <2> QED
    BY <1>7, <2>1
<1> QED
  BY <1>1, <1>3, <1>5, <1>6, <1>8 DEF CallInv

\* The first slot with the call's key is noted.
LEMMA MatchNoted ==
  ASSUME NEW c \in CallType
  PROVE  /\ WithMatching(c) \in CallType
         /\ WithMatching(c).began = c.began /\ WithMatching(c).source = c.source
         /\ WithMatching(c).bold = c.bold /\ WithMatching(c).cursor = c.cursor
         /\ WithMatching(c).cached = c.cached
<1>1. c.cursor \in CacheSlots
  BY DEF CallType
<1>2. /\ [c EXCEPT !.matching = c.cursor] \in CallType
      /\ [c EXCEPT !.matching = c.cursor].began = c.began
      /\ [c EXCEPT !.matching = c.cursor].source = c.source
      /\ [c EXCEPT !.matching = c.cursor].bold = c.bold
      /\ [c EXCEPT !.matching = c.cursor].cursor = c.cursor
      /\ [c EXCEPT !.matching = c.cursor].cached = c.cached
  BY <1>1 DEF CallType
<1> HIDE DEF CallType
<1> QED
  BY <1>2 DEF WithMatching

\* The slot is examined: passed, returned, or found stale.
LEMMA ExamineStep ==
  ASSUME CacheInv, NEW t \in Threads, LoadBoldAndExamine(t)
  PROVE  CacheInv'
<1> DEFINE c0 == call[t]
           slot == slots[call[t].cursor]
           x == [c0.cached EXCEPT !.bold = slot.bold]
           c == [c0 EXCEPT !.cached = x]
<1>1. c0 \in CallType /\ c0.cursor \in CacheSlots /\ slot \in EntryType /\ FontTypeOK
  BY Typed DEF CacheInv
<1>2. /\ UNCHANGED <<engineVars, slots, nextScan, victim, clock, history>> /\ At(t, "bold")
      /\ UNCHANGED <<clock, lastScan>> /\ slots' = slots
  BY DEF LoadBoldAndExamine, cacheVars, history
<1>3. x \in EntryType /\ x.font = c0.cached.font /\ x.source = c0.cached.source /\ x.bold = slot.bold
  BY <1>1, EntryTyped
<1>4. /\ c \in CallType /\ c.began = c0.began /\ c.source = c0.source /\ c.bold = c0.bold
      /\ c.cursor = c0.cursor /\ c.cached = x
  BY <1>1, <1>3, LoadTyped
<1>5. \/ ~KeyMatches(x, c) /\ NextSlot(t, c)
      \/ KeyMatches(x, c) /\ x.font = Null /\ NextSlot(t, WithMatching(c))
      \/ Return(t, x.font)
      \/ Goto(t, WithMatching(c), "invalidate")
  BY <1>4 DEF LoadBoldAndExamine
<1>6. Searching(t) /\ CallInv(t)
  BY <1>2 DEF At, Searching, SearchSteps, CacheInv
<1>7. Fresh(t) => slot.font \in {x.font, Null} /\ slot.source = x.source
  BY <1>2, <1>3, <1>6 DEF CallInv, Loads, At
<1>8. slots' \in [CacheSlots -> EntryType]
  BY <1>1, <1>2 DEF FontTypeOK
<1> DEFINE m == WithMatching(c)
<1>9. /\ m \in CallType /\ m.began = c0.began /\ m.source = c0.source /\ m.bold = c0.bold
      /\ m.cursor = c0.cursor /\ m.cached = x
  BY <1>4, MatchNoted
<1> HIDE DEF x, c, m
<1>10. ASSUME NEW d \in CallType, NextSlot(t, d), d.began = c0.began, d.source = c0.source,
              d.bold = c0.bold, d.cursor = c0.cursor,
              Fresh(t) => ~Holds(c0.cursor, c0.source, c0.bold)
       PROVE  CacheInv'
  <2>1. Fresh(t) => ~Holds(d.cursor, d.source, d.bold)'
    BY <1>2, <1>10 DEF Holds
  <2>2. /\ CallInv(t)' /\ ~Writer(t)' /\ CallsTyped'
        /\ \A u \in Threads \ {t} : call'[u] = call[u]
    BY <1>2, <1>6, <1>8, <1>10, <2>1, PassStep
  <2> QED
    BY <1>1, <1>2, <2>2, QuietStep DEF FontTypeOK
<1>11. CASE ~KeyMatches(x, c) /\ NextSlot(t, c)
  <2>1. Fresh(t) => ~Holds(c0.cursor, c0.source, c0.bold)
    BY <1>3, <1>4, <1>7, <1>11 DEF KeyMatches, Holds
  <2> QED
    BY <1>4, <1>10, <1>11, <2>1
<1>12. CASE KeyMatches(x, c) /\ x.font = Null /\ NextSlot(t, WithMatching(c))
  <2>1. Fresh(t) => ~Holds(c0.cursor, c0.source, c0.bold)
    BY <1>7, <1>12 DEF Holds
  <2>2. NextSlot(t, m)
    BY <1>12 DEF m
  <2> QED
    BY <1>9, <1>10, <2>1, <2>2
<1>13. CASE Return(t, x.font)
  <2>1. x.font \in Addrs \cup {Null}
    BY <1>3 DEF EntryType
  <2> QED
    BY <1>2, <1>13, <2>1, QuietReturn
<1>14. CASE Goto(t, WithMatching(c), "invalidate")
  <2>1. Goto(t, m, "invalidate")
    BY <1>14 DEF m
  <2>2. /\ CallsTyped' /\ call'[t] = [m EXCEPT !.pc = "invalidate"]
        /\ \A u \in Threads \ {t} : call'[u] = call[u]
    BY <1>1, <1>9, <2>1, Went DEF FontTypeOK, CallsTyped
  <2>3. /\ call'[t].pc = "invalidate" /\ call'[t].began = c0.began /\ call'[t].source = c0.source
        /\ call'[t].bold = c0.bold /\ call'[t].cursor = c0.cursor /\ call'[t].cached = x
    BY <1>9, <2>2, StepOnly
  <2>4. Searching(t)' /\ Loads(t)'
    BY <1>2, <1>7, <2>3 DEF Searching, SearchSteps, Loads, Fresh, At
  <2>5. CallInv(t)' /\ ~Writer(t)'
    BY <1>2, <1>6, <2>3, <2>4, SearchGoesOn
  <2> QED
    BY <1>1, <1>2, <2>2, <2>5, QuietStep DEF FontTypeOK
<1> QED
  BY <1>5, <1>11, <1>12, <1>13, <1>14

\* A font that is cleared, and its slot otherwise left, spoils no other call.
LEMMA CallUncleared ==
  ASSUME NEW u \in Threads, call'[u] = call[u], UNCHANGED <<table, object, clock, lastScan>>,
         CallInv(u), slots \in [CacheSlots -> EntryType], call[u].cursor \in CacheSlots,
         \A i \in CacheSlots : /\ slots'[i].font \in {slots[i].font, Null}
                               /\ slots'[i].source = slots[i].source
                               /\ slots'[i].index = slots[i].index
                               /\ slots'[i].bold = slots[i].bold
  PROVE  CallInv(u)' /\ (Writer(u)' <=> Writer(u))
<1>1. \A pc : At(u, pc)' <=> At(u, pc)
  BY DEF At
<1>2. /\ Active(u)' <=> Active(u)
      /\ Searching(u)' <=> Searching(u)
      /\ Reserving(u)' <=> Reserving(u)
      /\ Storing(u)' <=> Storing(u)
      /\ Fresh(u)' <=> Fresh(u)
  BY <1>1 DEF Active, Searching, Reserving, Storing, Fresh
<1>3. Writer(u)' <=> Writer(u)
  BY <1>1, <1>2 DEF Writer
<1>4. InTime(u)' /\ Reserved(u)'
  BY <1>1, <1>2, <1>3 DEF CallInv, InTime, Reserved, TickReached
<1>5. Chosen(u)'
  BY <1>2 DEF CallInv, Chosen, Loaded, Matches
<1>6. Stored(u)'
  <2>1. \A pc : At(u, pc) /\ pc \in StoreSteps => Storing(u)
    BY DEF At, Storing
  <2>2. Storing(u) => call[u].target \in CacheSlots
    BY DEF CallInv, Chosen
  <2> QED
    BY <1>1, <1>2, <2>1, <2>2 DEF CallInv, Stored, Target, StoreSteps
<1>7. Loads(u)'
  BY <1>1, <1>2 DEF CallInv, Loads
<1>8. Searched(u)'
  BY <1>2, <1>3 DEF CallInv, Searched, Holds
<1> QED
  BY <1>3, <1>4, <1>5, <1>6, <1>7, <1>8 DEF CallInv

\* A stale font is taken out of its slot, unless another one is there by now.
LEMMA InvalidateStep ==
  ASSUME CacheInv, NEW t \in Threads, Invalidate(t)
  PROVE  CacheInv'
<1> DEFINE c == call[t]
           i == call[t].cursor
<1>1. c \in CallType /\ i \in CacheSlots /\ slots[i] \in EntryType /\ FontTypeOK
  BY Typed DEF CacheInv
<1>2. /\ UNCHANGED <<ready, table, object, nextScan, victim, clock, published, lastScan>>
      /\ At(t, "invalidate") /\ NextSlot(t, c)
      /\ slots' = IF slots[i].font = c.cached.font THEN [slots EXCEPT ![i].font = Null] ELSE slots
  BY DEF Invalidate, engineVars, history
<1>3. slots \in [CacheSlots -> EntryType]
  BY <1>1 DEF FontTypeOK
<1>4. /\ slots' \in [CacheSlots -> EntryType]
      /\ \A j \in CacheSlots : /\ slots'[j] = slots[j] \/ slots'[j].font = Null
                               /\ slots'[j].font \in {slots[j].font, Null}
                               /\ slots'[j].source = slots[j].source
                               /\ slots'[j].index = slots[j].index
                               /\ slots'[j].bold = slots[j].bold
  <2>1. CASE slots' = slots
    BY <1>3, <2>1
  <2>2. CASE slots' = [slots EXCEPT ![i].font = Null]
    <3>1. [slots[i] EXCEPT !.font = Null] \in EntryType
      BY <1>1 DEF EntryType
    <3>2. /\ slots' = [slots EXCEPT ![i] = [slots[i] EXCEPT !.font = Null]]
      BY <2>2
    <3>3. /\ slots' \in [CacheSlots -> EntryType] /\ slots'[i] = [slots[i] EXCEPT !.font = Null]
          /\ \A j \in CacheSlots : j # i => slots'[j] = slots[j]
      BY <1>1, <1>3, <3>1, <3>2
    <3> QED
      BY <1>1, <3>3 DEF EntryType
  <2> QED
    BY <1>2, <2>1, <2>2
<1>5. Searching(t) /\ CallInv(t)
  BY <1>2 DEF At, Searching, SearchSteps, CacheInv
<1>6. Fresh(t) => slots'[i].font = Null
  <2>1. Fresh(t) => slots[i].font \in {c.cached.font, Null}
    BY <1>2, <1>5 DEF CallInv, Loads, At
  <2>2. slots[i].font = c.cached.font => slots'[i].font = Null
    <3>1. ASSUME slots[i].font = c.cached.font PROVE slots'[i] = [slots[i] EXCEPT !.font = Null]
      BY <1>1, <1>2, <1>3, <3>1
    <3> QED
      BY <1>1, <3>1 DEF EntryType
  <2> QED
    BY <1>2, <2>1, <2>2
<1>7. /\ CallInv(t)' /\ ~Writer(t)' /\ CallsTyped'
      /\ \A u \in Threads \ {t} : call'[u] = call[u]
  <2>1. PICK k \in CallType : k = call[t]
    BY <1>1
  <2>2. Fresh(t) => ~Holds(k.cursor, k.source, k.bold)'
    BY <1>6, <2>1 DEF Holds
  <2>3. NextSlot(t, k) /\ UNCHANGED <<clock, lastScan>>
    BY <1>2, <2>1
  <2> QED
    BY <1>4, <1>5, <2>1, <2>2, <2>3, PassStep
<1>8. \A u \in Threads \ {t} : CallInv(u)' /\ (Writer(u)' <=> Writer(u))
  <2> SUFFICES ASSUME NEW u \in Threads \ {t} PROVE CallInv(u)' /\ (Writer(u)' <=> Writer(u))
    OBVIOUS
  <2>1. CallInv(u) /\ call[u].cursor \in CacheSlots
    BY Typed DEF CacheInv
  <2> QED
    BY <1>2, <1>3, <1>4, <1>7, <2>1, CallUncleared
<1>9. \A u \in Threads : CallInv(u)' /\ (Writer(u)' => Writer(u))
  BY <1>7, <1>8
<1>10. FontTypeOK'
  BY <1>1, <1>2, <1>4, <1>7 DEF FontTypeOK, CallsTyped
<1>11. DeadlineInv'
  BY <1>2 DEF CacheInv, DeadlineInv, Deadline
<1>12. OneWriter'
  BY <1>9 DEF CacheInv, OneWriter
<1>13. SlotsAreWhole' /\ OneSlotPerKey'
  BY <1>2, <1>4 DEF CacheInv, SlotsAreWhole, OneSlotPerKey
<1> QED
  BY <1>9, <1>10, <1>11, <1>12, <1>13 DEF CacheInv

\* A call begins: nothing is passed yet.
LEMMA BeginStep ==
  ASSUME CacheInv, NEW t \in Threads, NEW source \in Addrs, NEW preferBold \in BOOLEAN,
         Begin(t, source, preferBold)
  PROVE  CacheInv'
<1>1. FontTypeOK /\ DeadlineInv /\ object \in [Addrs -> Kinds \cup {Freed}] /\ clock \in Nat
  BY DEF CacheInv, FontTypeOK
<1>2. UNCHANGED <<engineVars, slots, nextScan, victim, clock, history>>
  BY DEF Begin, cacheVars
<1> DEFINE isBold == object[source].set = "bold"
           a == [Idle EXCEPT !.began = clock, !.source = source,
                             !.bold = preferBold \/ isBold, !.fallback = preferBold /\ ~isBold]
           b1 == [Idle EXCEPT !.began = clock]
           b2 == [b1 EXCEPT !.source = source]
           b3 == [b2 EXCEPT !.bold = preferBold \/ isBold]
           b4 == [b3 EXCEPT !.fallback = preferBold /\ ~isBold]
<1>3. Goto(t, a, "font")
  BY DEF Begin
<1>4. a = b4
  OBVIOUS
<1>5. Idle \in CallType /\ Idle.cursor = 1
  BY IdleTyped DEF Idle
<1>6. b1 \in CallType /\ b1.cursor = 1 /\ b1.began = clock
  BY <1>1, <1>5 DEF CallType
<1> HIDE DEF b1
<1>7. b2 \in CallType /\ b2.cursor = 1 /\ b2.began = clock
  BY <1>6 DEF CallType
<1> HIDE DEF b2
<1>8. b3 \in CallType /\ b3.cursor = 1 /\ b3.began = clock
  <2>1. (preferBold \/ isBold) \in BOOLEAN
    OBVIOUS
  <2> HIDE DEF isBold
  <2> QED
    BY <1>7, <2>1, Zenon DEF CallType
<1> HIDE DEF b3
<1>9. b4 \in CallType /\ b4.cursor = 1 /\ b4.began = clock
  <2>1. (preferBold /\ ~isBold) \in BOOLEAN
    OBVIOUS
  <2> HIDE DEF isBold
  <2> QED
    BY <1>8, <2>1, Zenon DEF CallType
<1>10. Goto(t, b4, "font")
  BY <1>3, <1>4
<1> HIDE DEF b4, a
<1>11. /\ CallsTyped' /\ call'[t] = [b4 EXCEPT !.pc = "font"]
       /\ \A u \in Threads \ {t} : call'[u] = call[u]
  BY <1>1, <1>9, <1>10, Went DEF FontTypeOK, CallsTyped
<1>12. call'[t].pc = "font" /\ call'[t].cursor = 1 /\ call'[t].began = clock
  BY <1>9, <1>11, StepOnly
<1>13. Searching(t)' /\ ~Reserving(t)' /\ ~Storing(t)' /\ ~Writer(t)'
  BY <1>12 DEF At, Searching, Reserving, Storing, Writer, SearchSteps, ReserveSteps, StoreSteps
<1>14. InTime(t)' /\ Reserved(t)'
  BY <1>1, <1>2, <1>12, <1>13, FontConstants DEF DeadlineInv, InTime, Reserved, At
<1>15. Chosen(t)' /\ Stored(t)' /\ Loads(t)'
  BY <1>12, <1>13 DEF Chosen, Stored, Loads, At
<1>16. Searched(t)'
  BY <1>12, <1>13 DEF Searched, CacheSlots
<1> QED
  BY <1>1, <1>2, <1>11, <1>13, <1>14, <1>15, <1>16, QuietStep DEF CallInv, FontTypeOK

\* A call that has passed every slot reads the clock, then the deadline.
LEMMA ReserveGoesOn ==
  ASSUME CacheInv, NEW t \in Threads, Reserving(t), Reserving(t)', InTime(t)', Reserved(t)',
         UNCHANGED <<slots, clock, lastScan>>,
         call'[t].began = call[t].began, call'[t].source = call[t].source,
         call'[t].bold = call[t].bold
  PROVE  CallInv(t)' /\ ~Writer(t)'
<1>1. Active(t) /\ CallInv(t)
  BY Phases DEF CacheInv
<1>2. ~Searching(t)' /\ ~Storing(t)' /\ ~Writer(t)'
  BY Phases, PTL
<1>3. Fresh(t)' <=> Fresh(t)
  BY DEF Fresh
<1>4. call'[t].pc \in ReserveSteps
  BY DEF Reserving
<1>5. Chosen(t)' /\ Stored(t)' /\ Loads(t)'
  BY <1>2, <1>4 DEF Chosen, Stored, Loads, At, ReserveSteps
<1>6. Searched(t)'
  BY <1>1, <1>2, <1>3 DEF CallInv, Searched, Holds
<1> QED
  BY <1>2, <1>5, <1>6 DEF CallInv

\* The tick is read, or there is no object table.
LEMMA ReadTickStep ==
  ASSUME CacheInv, NEW t \in Threads, ReadTick(t)
  PROVE  CacheInv'
<1> DEFINE c == call[t]
<1>1. c \in CallType /\ FontTypeOK /\ clock \in Nat
  BY Typed DEF CacheInv, FontTypeOK
<1>2. UNCHANGED <<engineVars, slots, nextScan, victim, clock, history>> /\ At(t, "tick")
  BY DEF ReadTick, cacheVars
<1>3. CASE Return(t, Null)
  BY <1>2, <1>3, QuietReturn
<1>4. CASE Goto(t, [c EXCEPT !.now = clock], "deadline")
  <2> DEFINE d == [c EXCEPT !.now = clock]
  <2>1. /\ d \in CallType /\ d.now = clock /\ d.began = c.began /\ d.source = c.source
        /\ d.bold = c.bold
    BY <1>1 DEF CallType
  <2>2. Goto(t, d, "deadline")
    BY <1>4
  <2> HIDE DEF d
  <2>3. /\ CallsTyped' /\ call'[t] = [d EXCEPT !.pc = "deadline"]
        /\ \A u \in Threads \ {t} : call'[u] = call[u]
    BY <1>1, <2>1, <2>2, Went DEF FontTypeOK, CallsTyped
  <2>4. /\ call'[t].pc = "deadline" /\ call'[t].began = c.began /\ call'[t].source = c.source
        /\ call'[t].bold = c.bold /\ call'[t].now = clock
    BY <2>1, <2>3, StepOnly
  <2>5. Reserving(t) /\ Reserving(t)' /\ ~Writer(t)'
    BY <1>2, <2>4 DEF At, Reserving, ReserveSteps, Writer, Storing, StoreSteps
  <2>6. InTime(t) /\ Active(t)
    BY <2>5, Phases DEF CacheInv, CallInv
  <2>7. InTime(t)' /\ Reserved(t)'
    <3>1. clock' = clock
      BY <1>2
    <3>2. InTime(t)'
      BY <1>1, <2>4, <2>6, <3>1 DEF InTime, At, Active
    <3>3. Reserved(t)'
      BY <2>4, <2>5 DEF Reserved, At
    <3> QED
      BY <3>2, <3>3
  <2>8. CallInv(t)' /\ ~Writer(t)'
    BY <1>2, <2>4, <2>5, <2>7, ReserveGoesOn DEF history
  <2> QED
    BY <1>1, <1>2, <2>3, <2>8, QuietStep DEF FontTypeOK
<1> QED
  BY <1>3, <1>4 DEF ReadTick

\* The deadline is loaded and compared with the tick.
LEMMA LoadDeadlineStep ==
  ASSUME CacheInv, NEW t \in Threads, LoadDeadline(t)
  PROVE  CacheInv'
<1> DEFINE c == call[t]
<1>1. c \in CallType /\ FontTypeOK /\ nextScan \in 0 .. TickWrap - 1
  BY Typed DEF CacheInv, FontTypeOK
<1>2. UNCHANGED <<engineVars, slots, nextScan, victim, clock, history>> /\ At(t, "deadline")
  BY DEF LoadDeadline, cacheVars
<1>3. CASE Return(t, Null)
  BY <1>2, <1>3, QuietReturn
<1>4. CASE /\ nextScan = 0 \/ TickReached(c.now % TickWrap, nextScan)
           /\ Goto(t, [c EXCEPT !.next = nextScan], "reserve")
  <2> DEFINE d == [c EXCEPT !.next = nextScan]
  <2>1. /\ d \in CallType /\ d.next = nextScan /\ d.now = c.now /\ d.began = c.began
        /\ d.source = c.source /\ d.bold = c.bold
    BY <1>1 DEF CallType
  <2>2. Goto(t, d, "reserve")
    BY <1>4
  <2> HIDE DEF d
  <2>3. /\ CallsTyped' /\ call'[t] = [d EXCEPT !.pc = "reserve"]
        /\ \A u \in Threads \ {t} : call'[u] = call[u]
    BY <1>1, <2>1, <2>2, Went DEF FontTypeOK, CallsTyped
  <2>4. /\ call'[t].pc = "reserve" /\ call'[t].began = c.began /\ call'[t].source = c.source
        /\ call'[t].bold = c.bold /\ call'[t].now = c.now /\ call'[t].next = nextScan
    BY <2>1, <2>3, StepOnly
  <2>5. Reserving(t) /\ Reserving(t)' /\ ~Writer(t)'
    BY <1>2, <2>4 DEF At, Reserving, ReserveSteps, Writer, Storing, StoreSteps
  <2>6. InTime(t) /\ Active(t) /\ c.pc = "deadline"
    BY <1>2, <2>5, Phases DEF CacheInv, CallInv, At
  <2>7. InTime(t)'
    BY <1>2, <2>4, <2>6 DEF InTime, At, Active
  <2>8. Reserved(t)'
    BY <1>4, <2>4, <2>5 DEF Reserved, At, TickReached
  <2>9. CallInv(t)' /\ ~Writer(t)'
    BY <1>2, <2>4, <2>5, <2>7, <2>8, ReserveGoesOn DEF history
  <2> QED
    BY <1>1, <1>2, <2>3, <2>9, QuietStep DEF FontTypeOK
<1> QED
  BY <1>3, <1>4 DEF LoadDeadline

-----------------------------------------------------------------------------
(***************************************************************************)
(* Steps of a writer.                                                      *)
(***************************************************************************)
\* While somebody writes, no call in progress began late enough to reserve.
LEMMA NoneFresh ==
  ASSUME CacheInv, NEW w \in Threads, Writer(w), NEW u \in Threads, Active(u)
  PROVE  ~Fresh(u)
<1>1. call[w] \in CallType /\ call[u] \in CallType /\ clock \in Nat /\ lastScan \in Nat
  BY DEF CacheInv, FontTypeOK
<1>2. call[w].began \in Nat /\ call[u].began \in Nat
  BY <1>1 DEF CallType
<1>3. clock <= call[w].began + CallTime /\ call[w].began <= lastScan
  BY Phases DEF CacheInv, CallInv, InTime, Reserved, Writer
<1>4. call[u].began <= clock
  BY DEF CacheInv, CallInv, InTime
<1>5. Retry \in Nat /\ CallTime \in Nat /\ 2 * CallTime < Retry
  BY FontConstants
<1> QED
  BY <1>1, <1>2, <1>3, <1>4, <1>5 DEF Fresh

\* A call that reserves a scan does so a retry time after the last one.
LEMMA ScansApart ==
  ASSUME CacheInv, NEW t \in Threads, At(t, "reserve"), nextScan = call[t].next
  PROVE  lastScan + Retry <= call[t].now /\ Fresh(t) /\ call[t].now \in Nat
<1> DEFINE now == call[t].now
<1>1. call[t] \in CallType /\ clock \in Nat /\ lastScan \in Nat
  BY DEF CacheInv, FontTypeOK
<1>2. now \in Nat /\ call[t].began \in Nat
  BY <1>1 DEF CallType
<1>3. /\ call[t].began <= now /\ now <= clock /\ Retry <= call[t].began
      /\ clock <= call[t].began + CallTime
  BY DEF CacheInv, CallInv, InTime, Active, At
<1>4. nextScan = 0 \/ TickReached(now % TickWrap, nextScan)
  BY DEF CacheInv, CallInv, Reserved
<1>5. /\ lastScan <= clock
      /\ nextScan = IF lastScan = 0 THEN 0 ELSE Deadline(lastScan % TickWrap)
  BY DEF CacheInv, DeadlineInv
<1>6. Retry \in Nat /\ CallTime \in Nat
  BY FontConstants
<1> HIDE DEF now
<1>7. lastScan <= now + CallTime
  BY <1>1, <1>2, <1>3, <1>5, <1>6
<1>8. lastScan + Retry <= now
  <2>1. CASE lastScan = 0
    BY <1>2, <1>3, <1>6, <2>1
  <2>2. CASE lastScan # 0
    <3>1. nextScan = Deadline(lastScan % TickWrap)
      BY <1>5, <2>2
    <3> lastScan % TickWrap \in Nat
      BY <1>1, TickRange, DivMod
    <3>2. nextScan # 0
      BY <3>1, DeadlineTyped
    <3>3. TickReached(now % TickWrap, Deadline(lastScan % TickWrap))
      BY <1>4, <3>1, <3>2
    <3> QED
      BY <1>1, <1>2, <1>7, <3>3, ScanDecides
  <2> QED
    BY <2>1, <2>2
<1>9. Fresh(t)
  BY <1>1, <1>2, <1>3, <1>6, <1>8 DEF Fresh
<1> QED
  BY <1>2, <1>8, <1>9 DEF now

\* The compare-exchange makes the call the only writer, with nothing under its
\* key in any slot; no other call in progress can reserve any more.
LEMMA ReserveStep ==
  ASSUME CacheInv, NEW t \in Threads, Reserve(t)
  PROVE  CacheInv'
<1> DEFINE c == call[t]
<1>1. c \in CallType /\ FontTypeOK /\ clock \in Nat /\ lastScan \in Nat
  BY Typed DEF CacheInv, FontTypeOK
<1>2. UNCHANGED <<ready, table, object, slots, victim, clock, published>> /\ At(t, "reserve")
  BY DEF Reserve, engineVars
<1>3. CASE nextScan # c.next
  <2>1. Return(t, Null) /\ UNCHANGED <<nextScan, lastScan>>
    BY <1>3 DEF Reserve
  <2>2. UNCHANGED <<engineVars, slots, nextScan, victim, clock, history>>
    BY <1>2, <2>1 DEF engineVars, history
  <2> QED
    BY <2>1, <2>2, QuietReturn
<1>4. CASE nextScan = c.next
  <2>1. /\ nextScan' = Deadline(c.now % TickWrap) /\ lastScan' = c.now
        /\ Goto(t, [c EXCEPT !.now = 0, !.next = 0], "scan")
    BY <1>4 DEF Reserve
  <2>2. lastScan + Retry <= c.now /\ Fresh(t) /\ c.now \in Nat
    BY <1>2, <1>4, ScansApart
  <2>3. CallInv(t) /\ Reserving(t) /\ Active(t)
    BY <1>2 DEF CacheInv, At, Reserving, ReserveSteps, Active
  <2> DEFINE n == [c EXCEPT !.now = 0]
             d == [n EXCEPT !.next = 0]
  <2>4. /\ n \in CallType /\ n.began = c.began /\ n.source = c.source /\ n.bold = c.bold
    BY <1>1 DEF CallType
  <2>5. [c EXCEPT !.now = 0, !.next = 0] = d
    OBVIOUS
  <2> HIDE DEF n
  <2>6. /\ d \in CallType /\ d.began = c.began /\ d.source = c.source /\ d.bold = c.bold
    <3>1. 0 \in 0 .. TickWrap - 1
      BY TickRange
    <3> QED
      BY <2>4, <3>1 DEF CallType
  <2>7. Goto(t, d, "scan")
    BY <2>1, <2>5
  <2> HIDE DEF d
  <2>8. /\ CallsTyped' /\ call'[t] = [d EXCEPT !.pc = "scan"]
        /\ \A u \in Threads \ {t} : call'[u] = call[u]
    BY <1>1, <2>6, <2>7, Went DEF FontTypeOK, CallsTyped
  <2>9. /\ call'[t].pc = "scan" /\ call'[t].began = c.began /\ call'[t].source = c.source
        /\ call'[t].bold = c.bold
    BY <2>6, <2>8, StepOnly
  <2>10. /\ c.began \in Nat /\ Retry <= c.began /\ c.began <= c.now /\ c.now <= clock
         /\ clock <= c.began + CallTime
    BY <1>1, <1>2, <2>3 DEF CallInv, InTime, At, CallType
  <2>11. Retry \in Nat \ {0} /\ CallTime \in Nat /\ 2 * CallTime < Retry
    BY FontConstants
  <2>12. CallInv(t)'
    <3>1. Writer(t)' /\ ~Searching(t)' /\ ~Reserving(t)' /\ ~Storing(t)'
      BY <2>9 DEF At, Searching, Reserving, Storing, Writer, SearchSteps, ReserveSteps, StoreSteps
    <3>2. InTime(t)' /\ Reserved(t)'
      <4>1. clock' = clock /\ lastScan' = c.now
        BY <1>2, <2>1
      <4>2. InTime(t)'
        <5>1. call'[t].began <= clock' /\ clock' <= call'[t].began + CallTime
          BY <1>1, <2>2, <2>9, <2>10, <4>1
        <5> QED
          BY <2>9, <2>10, <5>1 DEF InTime
      <4>3. Reserved(t)'
        BY <2>9, <2>10, <4>1 DEF Reserved, At
      <4> QED
        BY <4>2, <4>3
    <3>3. Chosen(t)' /\ Stored(t)' /\ Loads(t)'
      BY <2>9, <3>1 DEF Chosen, Stored, Loads, At
    <3>4. Searched(t)'
      <4>1. \A i \in CacheSlots : ~Holds(i, c.source, c.bold)
        BY <2>2, <2>3 DEF CallInv, Searched
      <4> QED
        BY <1>2, <2>9, <3>1, <4>1 DEF Searched, Holds
    <3> QED
      BY <3>2, <3>3, <3>4 DEF CallInv
  <2>13. ASSUME NEW u \in Threads \ {t}
         PROVE  CallInv(u)' /\ ~Writer(u)'
    <3>1. CallInv(u) /\ call[u] \in CallType /\ call'[u] = call[u]
      BY <2>8, Typed DEF CacheInv
    <3>2. ~Writer(u)
      BY <2>2, <2>3, NoneFresh
    <3>3. \A pc : At(u, pc)' <=> At(u, pc)
      BY <3>1 DEF At
    <3>4. /\ Active(u)' <=> Active(u)
          /\ Searching(u)' <=> Searching(u)
          /\ Reserving(u)' <=> Reserving(u)
          /\ Storing(u)' <=> Storing(u)
          /\ Writer(u)' <=> Writer(u)
      BY <3>1, <3>3 DEF Active, Searching, Reserving, Storing, Writer
    <3>5. InTime(u)' /\ Reserved(u)'
      BY <1>2, <3>1, <3>2, <3>3, <3>4 DEF CallInv, InTime, Reserved, TickReached
    <3>6. ~Storing(u)
      BY <3>2 DEF Writer
    <3>7. Chosen(u)' /\ Stored(u)'
      <4>1. \A pc \in StoreSteps : ~At(u, pc)
        BY <3>6 DEF Storing, At
      <4> QED
        BY <3>3, <3>4, <3>6, <4>1 DEF Chosen, Stored, StoreSteps
    <3>8. ASSUME Active(u) PROVE ~Fresh(u)'
      <4>1. call[u].began \in Nat /\ call[u].began <= clock
        BY <3>1, <3>8 DEF CallInv, InTime, CallType
      <4>2. lastScan' = c.now /\ call'[u].began = call[u].began
        BY <2>1, <3>1
      <4> QED
        BY <1>1, <2>2, <2>10, <2>11, <4>1, <4>2 DEF Fresh
    <3>9. ~Active(u) => ~Searching(u) /\ ~Reserving(u)
      BY Phases
    <3>10. Loads(u)' /\ Searched(u)'
      <4>1. At(u, "index") \/ At(u, "bold") => Searching(u)
        BY DEF At, Searching, SearchSteps
      <4> QED
        BY <3>2, <3>3, <3>4, <3>8, <3>9, <4>1 DEF Loads, Searched
    <3> QED
      BY <3>2, <3>4, <3>5, <3>7, <3>10 DEF CallInv
  <2>14. FontTypeOK'
    <3>1. c.now % TickWrap \in Nat
      BY <2>2, TickRange, DivMod
    <3>2. nextScan' \in 0 .. TickWrap - 1
      BY <2>1, <3>1, DeadlineTyped
    <3> QED
      BY <1>1, <1>2, <2>1, <2>2, <2>8, <3>2 DEF FontTypeOK, CallsTyped
  <2>15. DeadlineInv'
    BY <1>1, <1>2, <2>1, <2>2, <2>10, <2>11 DEF CacheInv, DeadlineInv, Deadline
  <2>16. OneWriter'
    BY <2>13 DEF OneWriter
  <2>17. SlotsAreWhole' /\ OneSlotPerKey'
    BY <1>2 DEF CacheInv, SlotsAreWhole, OneSlotPerKey
  <2> QED
    BY <2>12, <2>13, <2>14, <2>15, <2>16, <2>17 DEF CacheInv
<1> QED
  BY <1>3, <1>4

\* A set of numbers that is not empty has a smallest one.
LEMMA SmallestOf ==
  ASSUME NEW set \in SUBSET Nat, set # {}
  PROVE  \E j \in set : \A k \in set : j <= k
<1>1. PICK j \in set : \A k \in set : <<k, j>> \notin OpToRel(<, Nat)
  BY WFMin, NatLessThanWellFounded, Zenon
<1>2. \A k \in set : ~(k < j)
  BY <1>1, Zenon DEF OpToRel
<1> QED
  BY <1>2, SMT

\* What a scan finds is loaded and of a kind the call asked for.
LEMMA Found ==
  ASSUME FontTypeOK, NEW c \in CallType, NEW i \in Replacements(c)
  PROVE  /\ i \in Indices /\ table[i] # Null /\ table[i] \in Addrs /\ Loaded(table[i])
         /\ Matches(table[i], c.bold, c.fallback)
<1>1. ASSUME NEW set, NEW source, NEW j \in FindBestLoadedFont(set, source)
      PROVE  j \in Improvements(set, source)
  BY <1>1 DEF FindBestLoadedFont, Sufficient
<1>2. \/ i \in Improvements(CandidateSet(c.bold), c.source)
      \/ c.fallback /\ i \in Improvements("regular", c.source)
  BY <1>1 DEF Replacements
<1>3. i \in Indices /\ table[i] # Null /\ Matches(table[i], c.bold, c.fallback)
  BY <1>2 DEF Improvements, Matches
<1>4. table[i] \in Addrs
  BY <1>3 DEF FontTypeOK
<1> QED
  BY <1>3, <1>4 DEF Loaded

\* The scan chooses a font and a slot.
LEMMA ScanStep ==
  ASSUME CacheInv, NEW t \in Threads, Scan(t)
  PROVE  CacheInv'
<1> DEFINE c == call[t]
<1>1. c \in CallType /\ FontTypeOK /\ victim \in 0 .. Capacity - 1
  BY Typed DEF CacheInv, FontTypeOK
<1>2. UNCHANGED <<engineVars, slots, nextScan, clock, history>> /\ At(t, "scan")
  BY DEF Scan
<1>3. CASE Return(t, Null) /\ UNCHANGED victim
  BY <1>2, <1>3, QuietReturn
<1>4. ASSUME NEW i \in Replacements(c),
             Goto(t, [c EXCEPT
                       !.chosen = [font |-> table[i], source |-> c.source,
                                   index |-> i, bold |-> c.bold],
                       !.target = IF c.matching # NoSlot THEN c.matching
                                                         ELSE ChooseStorageIndex], "clear"),
             victim' = IF c.matching # NoSlot THEN victim ELSE (victim + 1) % Capacity
      PROVE  CacheInv'
  <2> DEFINE entry == [font |-> table[i], source |-> c.source, index |-> i, bold |-> c.bold]
             place == IF c.matching # NoSlot THEN c.matching ELSE ChooseStorageIndex
             n == [c EXCEPT !.chosen = entry]
             d == [n EXCEPT !.target = place]
  <2>1. /\ i \in Indices /\ table[i] # Null /\ table[i] \in Addrs /\ Loaded(table[i])
        /\ Matches(table[i], c.bold, c.fallback)
    BY <1>1, Found
  <2>2. entry \in EntryType
    BY <1>1, <2>1 DEF CallType, EntryType
  <2>3. place \in CacheSlots
    <3>1. ChooseStorageIndex \in CacheSlots
      <4> DEFINE free == {j \in CacheSlots : slots[j].font = Null}
      <4>1. CASE free = {}
        BY <1>1, <4>1, FontConstants DEF ChooseStorageIndex, CacheSlots
      <4>2. CASE free # {}
        <5>1. \E j \in free : \A k \in free : j <= k
          <6>1. free \in SUBSET Nat
            BY FontConstants DEF CacheSlots
          <6> HIDE DEF free
          <6> QED
            BY <4>2, <6>1, SmallestOf
        <5>2. ChooseStorageIndex = CHOOSE j \in free : \A k \in free : j <= k
          BY <4>2 DEF ChooseStorageIndex
        <5> QED
          BY <5>1, <5>2
      <4> QED
        BY <4>1, <4>2
    <3>2. c.matching \in CacheSlots \cup {NoSlot}
      BY <1>1 DEF CallType
    <3> QED
      BY <3>1, <3>2
  <2>4. /\ entry.font = table[i] /\ entry.source = c.source /\ entry.bold = c.bold
    OBVIOUS
  <2>5. [c EXCEPT !.chosen = entry, !.target = place] = d
    OBVIOUS
  <2>6. Goto(t, d, "clear")
    BY <1>4, <2>5
  <2> HIDE DEF entry, place
  <2>7. /\ n \in CallType /\ n.began = c.began /\ n.source = c.source /\ n.bold = c.bold
        /\ n.fallback = c.fallback /\ n.chosen = entry
    BY <1>1, <2>2 DEF CallType
  <2> HIDE DEF n
  <2>8. /\ d \in CallType /\ d.began = c.began /\ d.source = c.source /\ d.bold = c.bold
        /\ d.fallback = c.fallback /\ d.chosen = entry /\ d.target = place
    BY <2>3, <2>7 DEF CallType
  <2> HIDE DEF d
  <2>9. /\ CallsTyped' /\ call'[t] = [d EXCEPT !.pc = "clear"]
        /\ \A u \in Threads \ {t} : call'[u] = call[u]
    BY <1>1, <2>6, <2>8, Went DEF FontTypeOK, CallsTyped
  <2>10. /\ call'[t].pc = "clear" /\ call'[t].began = c.began /\ call'[t].source = c.source
         /\ call'[t].bold = c.bold /\ call'[t].fallback = c.fallback
         /\ call'[t].chosen = entry /\ call'[t].target = place
    BY <2>8, <2>9, StepOnly
  <2>11. Writer(t)' /\ ~Searching(t)' /\ ~Reserving(t)' /\ Storing(t)' /\ Writer(t)
    BY <1>2, <2>10 DEF At, Searching, Reserving, Storing, Writer, SearchSteps, ReserveSteps, StoreSteps
  <2>12. CallInv(t) /\ Active(t)
    BY <1>2, Phases DEF CacheInv
  <2>13. InTime(t)' /\ Reserved(t)'
    <3>1. clock' = clock /\ lastScan' = lastScan
      BY <1>2 DEF history
    <3>2. InTime(t)'
      BY <2>10, <2>12, <3>1 DEF CallInv, InTime, At, Active
    <3>3. Reserved(t)'
      BY <2>10, <2>11, <2>12, <3>1 DEF CallInv, Reserved, At
    <3> QED
      BY <3>2, <3>3
  <2>14. Chosen(t)'
    BY <1>2, <2>1, <2>3, <2>4, <2>10 DEF Chosen, Loaded, Matches, engineVars
  <2>15. Stored(t)' /\ Loads(t)'
    BY <2>10, <2>11 DEF Stored, Loads, At
  <2>16. Searched(t)'
    BY <1>2, <2>10, <2>11, <2>12 DEF CallInv, Searched, Holds
  <2>17. victim' \in 0 .. Capacity - 1
    <3>1. Capacity \in Nat \ {0}
      BY FontConstants
    <3>2. victim + 1 \in Int
      BY <1>1
    <3> QED
      BY <1>1, <1>4, <3>1, <3>2, DivMod
  <2> QED
    BY <1>2, <2>9, <2>11, <2>13, <2>14, <2>15, <2>16, <2>17, QuietStep DEF CallInv
<1> QED
  BY <1>3, <1>4 DEF Scan

\* Whatever a writer stores, no other call depends on it.
LEMMA OthersUnaffected ==
  ASSUME CacheInv, NEW t \in Threads, Writer(t), NEW u \in Threads \ {t}, call'[u] = call[u],
         UNCHANGED <<clock, lastScan>>
  PROVE  CallInv(u)' /\ ~Writer(u)'
<1>1. CallInv(u) /\ ~Writer(u)
  BY DEF CacheInv, OneWriter
<1>2. \A pc : At(u, pc)' <=> At(u, pc)
  BY DEF At
<1>3. /\ Active(u)' <=> Active(u)
      /\ Searching(u)' <=> Searching(u)
      /\ Reserving(u)' <=> Reserving(u)
      /\ Storing(u)' <=> Storing(u)
      /\ Fresh(u)' <=> Fresh(u)
      /\ Writer(u)' <=> Writer(u)
  BY <1>2 DEF Active, Searching, Reserving, Storing, Fresh, Writer
<1>4. InTime(u)' /\ Reserved(u)'
  BY <1>1, <1>2, <1>3 DEF CallInv, InTime, Reserved, TickReached
<1>5. ~Storing(u)
  BY <1>1 DEF Writer
<1>6. Chosen(u)' /\ Stored(u)'
  <2>1. \A pc \in StoreSteps : ~At(u, pc)
    BY <1>5 DEF Storing, At
  <2> QED
    BY <1>2, <1>3, <1>5, <2>1 DEF Chosen, Stored, StoreSteps
<1>7. Active(u) => ~Fresh(u)
  BY NoneFresh
<1>8. ~Active(u) => ~Searching(u) /\ ~Reserving(u)
  BY Phases
<1>9. Loads(u)' /\ Searched(u)'
  <2>1. At(u, "index") \/ At(u, "bold") => Searching(u)
    BY DEF At, Searching, SearchSteps
  <2> QED
    BY <1>1, <1>2, <1>3, <1>7, <1>8, <2>1 DEF Loads, Searched
<1> QED
  BY <1>1, <1>3, <1>4, <1>6, <1>9 DEF CallInv

\* A field is stored in the slot, whose font is clear.
LEMMA StoreStep ==
  ASSUME CacheInv, NEW t \in Threads, Storing(t), NEW entry \in EntryType, entry.font = Null,
         NEW next \in StoreSteps \ {"clear"}, Store(t, entry, next),
         next # "put source" => entry.source = call[t].chosen.source,
         next \in {"put bold", "publish"} => entry.index = call[t].chosen.index,
         next = "publish" => entry.bold = call[t].chosen.bold
  PROVE  CacheInv'
<1> DEFINE c == call[t]
           T == call[t].target
<1>1. c \in CallType /\ FontTypeOK /\ slots \in [CacheSlots -> EntryType]
  BY Typed DEF CacheInv, FontTypeOK
<1>2. CallInv(t) /\ Active(t) /\ Writer(t)
  BY Phases DEF CacheInv
<1>3. T \in CacheSlots
  BY <1>2 DEF CallInv, Chosen
<1>4. /\ slots' = [slots EXCEPT ![T] = entry] /\ Goto(t, c, next)
      /\ UNCHANGED <<ready, table, object, nextScan, victim, clock, published, lastScan>>
  BY DEF Store, engineVars, history
<1>5. /\ slots' \in [CacheSlots -> EntryType] /\ slots'[T] = entry
      /\ \A i \in CacheSlots : i # T => slots'[i] = slots[i]
  BY <1>1, <1>3, <1>4
<1>6. /\ CallsTyped' /\ call'[t] = [c EXCEPT !.pc = next]
      /\ \A u \in Threads \ {t} : call'[u] = call[u]
  <2>1. next \in {"put source", "put index", "put bold", "publish"}
    BY DEF StoreSteps
  <2>2. [c EXCEPT !.pc = next] \in CallType
    BY <1>1, <2>1 DEF CallType
  <2> HIDE DEF CallType
  <2> QED
    BY <1>1, <1>4, <2>2 DEF FontTypeOK, CallsTyped, Goto
<1>7. /\ call'[t].pc = next /\ call'[t].began = c.began /\ call'[t].source = c.source
      /\ call'[t].bold = c.bold /\ call'[t].fallback = c.fallback
      /\ call'[t].chosen = c.chosen /\ call'[t].target = T
  <2> DEFINE d == [c EXCEPT !.pc = next]
  <2>1. /\ d.pc = next /\ d.began = c.began /\ d.source = c.source /\ d.bold = c.bold
        /\ d.fallback = c.fallback /\ d.chosen = c.chosen /\ d.target = T
    BY <1>1 DEF CallType
  <2> HIDE DEF d
  <2>2. call'[t] = d
    BY <1>6 DEF d
  <2> QED
    BY <2>1, <2>2
<1>8. Storing(t)' /\ ~At(t, "clear")'
  BY <1>7 DEF Storing, At
<1>9. Writer(t)' /\ ~Searching(t)' /\ ~Reserving(t)' /\ Active(t)'
  BY <1>8, Phases, PTL
<1>10. InTime(t)' /\ Reserved(t)'
  <2>1. clock' = clock /\ lastScan' = lastScan
    BY <1>4
  <2>2. InTime(t)'
    BY <1>2, <1>7, <2>1 DEF CallInv, InTime, StoreSteps
  <2>3. Reserved(t)'
    BY <1>2, <1>7, <2>1 DEF CallInv, Reserved, At, StoreSteps
  <2> QED
    BY <2>2, <2>3
<1>11. Chosen(t)'
  BY <1>2, <1>4, <1>7 DEF CallInv, Chosen, Loaded, Matches
<1>12. Stored(t)'
  BY <1>5, <1>7 DEF Stored, Target, At
<1>13. Loads(t)'
  BY <1>7, <1>9 DEF Loads, At, StoreSteps
<1>14. Searched(t)'
  <2> SUFFICES ASSUME NEW i \in CacheSlots PROVE ~Holds(i, c.source, c.bold)'
    BY <1>7, <1>9 DEF Searched, Holds
  <2>1. ~Holds(i, c.source, c.bold)
    BY <1>2 DEF CallInv, Searched
  <2> QED
    BY <1>5, <1>7, <2>1 DEF Holds
<1>15. \A u \in Threads \ {t} : CallInv(u)' /\ ~Writer(u)'
  BY <1>2, <1>4, <1>6, OthersUnaffected
<1>16. FontTypeOK'
  BY <1>1, <1>4, <1>5, <1>6 DEF FontTypeOK, CallsTyped
<1>17. DeadlineInv'
  BY <1>4 DEF CacheInv, DeadlineInv, Deadline
<1>18. OneWriter'
  BY <1>15 DEF OneWriter
<1>19. SlotsAreWhole' /\ OneSlotPerKey'
  BY <1>4, <1>5 DEF CacheInv, SlotsAreWhole, OneSlotPerKey
<1>20. CallInv(t)'
  BY <1>10, <1>11, <1>12, <1>13, <1>14 DEF CallInv
<1> QED
  BY <1>15, <1>16, <1>17, <1>18, <1>19, <1>20 DEF CacheInv

\* The four stores before the font's.
LEMMA StoresStep ==
  ASSUME CacheInv, NEW t \in Threads,
         ClearFont(t) \/ StoreSource(t) \/ StoreIndex(t) \/ StoreBold(t)
  PROVE  CacheInv'
<1> DEFINE chosen == call[t].chosen
           e == Target(t)
<1>1. Storing(t) /\ CallInv(t)
  BY DEF ClearFont, StoreSource, StoreIndex, StoreBold, At, Storing, StoreSteps, CacheInv
<1>2. e \in EntryType /\ chosen \in EntryType
  <2>1. call[t].target \in CacheSlots /\ call[t] \in CallType /\ FontTypeOK
    BY <1>1, Typed DEF CallInv, Chosen, CacheInv
  <2> QED
    BY <2>1 DEF FontTypeOK, Target, CallType
<1>3. CASE ClearFont(t)
  <2> DEFINE n == [e EXCEPT !.font = Null]
  <2>1. n \in EntryType /\ n.font = Null
    BY <1>2 DEF EntryType
  <2>2. Store(t, n, "put source")
    BY <1>3 DEF ClearFont
  <2> HIDE DEF n
  <2> QED
    BY <1>1, <2>1, <2>2, StoreStep DEF StoreSteps
<1>4. CASE StoreSource(t)
  <2> DEFINE n == [e EXCEPT !.source = chosen.source]
  <2>1. e.font = Null
    BY <1>1, <1>4 DEF CallInv, Stored, StoreSource, At
  <2>2. n \in EntryType /\ n.font = Null /\ n.source = chosen.source
    BY <1>2, <2>1 DEF EntryType
  <2>3. Store(t, n, "put index")
    BY <1>4 DEF StoreSource
  <2> HIDE DEF n
  <2> QED
    BY <1>1, <2>2, <2>3, StoreStep DEF StoreSteps
<1>5. CASE StoreIndex(t)
  <2> DEFINE n == [e EXCEPT !.index = chosen.index]
  <2>1. e.font = Null /\ e.source = chosen.source
    BY <1>1, <1>5 DEF CallInv, Stored, StoreIndex, At
  <2>2. n \in EntryType /\ n.font = Null /\ n.source = chosen.source /\ n.index = chosen.index
    BY <1>2, <2>1 DEF EntryType
  <2>3. Store(t, n, "put bold")
    BY <1>5 DEF StoreIndex
  <2> HIDE DEF n
  <2> QED
    BY <1>1, <2>2, <2>3, StoreStep DEF StoreSteps
<1>6. CASE StoreBold(t)
  <2> DEFINE n == [e EXCEPT !.bold = chosen.bold]
  <2>1. e.font = Null /\ e.source = chosen.source /\ e.index = chosen.index
    BY <1>1, <1>6 DEF CallInv, Stored, StoreBold, At
  <2>2. /\ n \in EntryType /\ n.font = Null /\ n.source = chosen.source
        /\ n.index = chosen.index /\ n.bold = chosen.bold
    BY <1>2, <2>1 DEF EntryType
  <2>3. Store(t, n, "publish")
    BY <1>6 DEF StoreBold
  <2> HIDE DEF n
  <2> QED
    BY <1>1, <2>2, <2>3, StoreStep DEF StoreSteps
<1> QED
  BY <1>3, <1>4, <1>5, <1>6

\* The last store shows exactly the chosen entry, and no other slot has its key.
LEMMA PublishStep ==
  ASSUME CacheInv, NEW t \in Threads, Publish(t)
  PROVE  CacheInv'
<1> DEFINE c == call[t]
           T == call[t].target
           entry == call[t].chosen
<1>1. /\ c \in CallType /\ FontTypeOK /\ slots \in [CacheSlots -> EntryType]
      /\ published \in [CacheSlots -> EntryType]
  BY Typed DEF CacheInv, FontTypeOK
<1>2. At(t, "publish") /\ Storing(t) /\ Writer(t) /\ CallInv(t)
  BY DEF Publish, At, Storing, StoreSteps, Writer, CacheInv
<1>3. /\ T \in CacheSlots /\ entry.source = c.source /\ entry.bold = c.bold
      /\ entry \in EntryType
  BY <1>1, <1>2 DEF CallInv, Chosen, CallType
<1>4. /\ slots[T].source = entry.source /\ slots[T].index = entry.index
      /\ slots[T].bold = entry.bold
  BY <1>2 DEF CallInv, Stored, Target
<1>5. /\ slots' = [slots EXCEPT ![T].font = entry.font]
      /\ published' = [published EXCEPT ![T] = entry]
      /\ Return(t, entry.font)
      /\ UNCHANGED <<ready, table, object, nextScan, victim, clock, lastScan>>
  BY DEF Publish, engineVars
<1>6. [slots[T] EXCEPT !.font = entry.font] = entry
  <2>1. slots[T] \in EntryType
    BY <1>1, <1>3
  <2> HIDE DEF entry
  <2> QED
    BY <1>3, <1>4, <2>1 DEF EntryType
<1>7. /\ slots' \in [CacheSlots -> EntryType] /\ slots'[T] = entry
      /\ published' \in [CacheSlots -> EntryType] /\ published'[T] = entry
      /\ \A i \in CacheSlots : i # T => slots'[i] = slots[i] /\ published'[i] = published[i]
  <2>1. slots' = [slots EXCEPT ![T] = entry]
    BY <1>5, <1>6
  <2> HIDE DEF entry, T
  <2> QED
    BY <1>1, <1>3, <1>5, <2>1
<1>8. /\ CallsTyped' /\ call'[t] = [Idle EXCEPT !.result = entry.font]
      /\ \A u \in Threads \ {t} : call'[u] = call[u]
  <2>1. entry.font \in Addrs \cup {Null}
    BY <1>3 DEF EntryType
  <2> QED
    BY <1>1, <1>5, <2>1, Returned DEF FontTypeOK, CallsTyped
<1>9. CallInv(t)' /\ ~Writer(t)'
  <2>1. At(t, "idle")'
    BY <1>8, IdleTyped DEF At, Idle, CallType
  <2> QED
    BY <2>1, IdleCall, PTL
<1>10. \A u \in Threads \ {t} : CallInv(u)' /\ ~Writer(u)'
  BY <1>2, <1>5, <1>8, OthersUnaffected
<1>11. FontTypeOK'
  BY <1>1, <1>5, <1>7, <1>8 DEF FontTypeOK, CallsTyped
<1>12. DeadlineInv'
  BY <1>5 DEF CacheInv, DeadlineInv, Deadline
<1>13. OneWriter'
  BY <1>9, <1>10 DEF OneWriter
<1>14. SlotsAreWhole'
  BY <1>7 DEF CacheInv, SlotsAreWhole
<1>15. \A i \in CacheSlots : ~Holds(i, entry.source, entry.bold)
  BY <1>2, <1>3 DEF CallInv, Searched
<1>16. OneSlotPerKey'
  BY <1>7, <1>15 DEF CacheInv, OneSlotPerKey, Holds
<1> QED
  BY <1>9, <1>10, <1>11, <1>12, <1>13, <1>14, <1>16 DEF CacheInv

-----------------------------------------------------------------------------
(***************************************************************************)
(* The engine, the clock, and every step.                                  *)
(***************************************************************************)
\* While no call is in progress, the engine may do what it likes.
LEMMA EngineStep ==
  ASSUME CacheInv, BetweenCalls, UNCHANGED <<cacheVars, call, clock, history>>,
         ready' \in BOOLEAN, table' \in [Indices -> Addrs \cup {Null}],
         object' \in [Addrs -> Kinds \cup {Freed}]
  PROVE  CacheInv'
<1>1. UNCHANGED <<slots, nextScan, victim, call, clock, published, lastScan>>
  BY DEF cacheVars, history
<1>2. \A t \in Threads : At(t, "idle")'
  BY <1>1 DEF BetweenCalls, At
<1>3. \A t \in Threads : CallInv(t)' /\ ~Writer(t)'
  <2> SUFFICES ASSUME NEW t \in Threads PROVE CallInv(t)' /\ ~Writer(t)'
    OBVIOUS
  <2>1. At(t, "idle")'
    BY <1>2
  <2> QED
    BY <2>1, IdleCall, PTL
<1>4. FontTypeOK'
  BY <1>1 DEF CacheInv, FontTypeOK
<1>5. DeadlineInv'
  BY <1>1 DEF CacheInv, DeadlineInv, Deadline
<1>6. OneWriter'
  BY <1>3 DEF OneWriter
<1>7. SlotsAreWhole' /\ OneSlotPerKey'
  BY <1>1 DEF CacheInv, SlotsAreWhole, OneSlotPerKey
<1> QED
  BY <1>3, <1>4, <1>5, <1>6, <1>7 DEF CacheInv

\* The engine's steps are such steps.
LEMMA EngineActions ==
  ASSUME CacheInv,
         \/ TableAppears
         \/ \E i \in Indices, a \in Addrs, kind \in Kinds : LoadObject(i, a, kind)
         \/ \E i \in Indices : UnloadObject(i)
  PROVE  CacheInv'
<1>1. /\ ready \in BOOLEAN /\ table \in [Indices -> Addrs \cup {Null}]
      /\ object \in [Addrs -> Kinds \cup {Freed}]
  BY DEF CacheInv, FontTypeOK
<1>2. BetweenCalls /\ UNCHANGED <<cacheVars, call, clock, history>>
  BY DEF TableAppears, LoadObject, UnloadObject
<1>3. CASE TableAppears
  BY <1>1, <1>2, <1>3, EngineStep DEF TableAppears
<1>4. ASSUME NEW i \in Indices, NEW a \in Addrs, NEW kind \in Kinds, LoadObject(i, a, kind)
      PROVE  CacheInv'
  <2>1. /\ ready' \in BOOLEAN /\ table' \in [Indices -> Addrs \cup {Null}]
        /\ object' \in [Addrs -> Kinds \cup {Freed}]
    BY <1>1, <1>4 DEF LoadObject
  <2> QED
    BY <1>2, <2>1, EngineStep
<1>5. ASSUME NEW i \in Indices, UnloadObject(i)
      PROVE  CacheInv'
  <2>1. /\ ready' \in BOOLEAN /\ table' \in [Indices -> Addrs \cup {Null}]
        /\ object' \in [Addrs -> Kinds \cup {Freed}]
    BY <1>1, <1>5 DEF UnloadObject
  <2> QED
    BY <1>2, <2>1, EngineStep
<1> QED
  BY <1>3, <1>4, <1>5

\* Time passes while every call in progress has time left.
LEMMA ClockStep ==
  ASSUME CacheInv, ClockAdvances
  PROVE  CacheInv'
<1>1. /\ UNCHANGED <<ready, table, object, slots, nextScan, victim, call, published, lastScan>>
      /\ clock' = clock + 1 /\ clock \in Nat /\ lastScan \in Nat
      /\ \A t \in Threads : ~At(t, "idle") => clock < call[t].began + CallTime
  BY DEF ClockAdvances, engineVars, cacheVars, history, CacheInv, FontTypeOK
<1>2. ASSUME NEW t \in Threads
      PROVE  CallInv(t)' /\ (Writer(t)' <=> Writer(t))
  <2>1. CallInv(t) /\ call[t] \in CallType /\ CallTime \in Nat /\ Retry \in Nat
    BY FontConstants DEF CacheInv, FontTypeOK
  <2>2. call[t].began \in Nat /\ call[t].now \in Nat
    BY <2>1 DEF CallType
  <2>3. \A pc : At(t, pc)' <=> At(t, pc)
    BY <1>1 DEF At
  <2>4. /\ Active(t)' <=> Active(t)
        /\ Searching(t)' <=> Searching(t)
        /\ Reserving(t)' <=> Reserving(t)
        /\ Storing(t)' <=> Storing(t)
        /\ Fresh(t)' <=> Fresh(t)
        /\ Writer(t)' <=> Writer(t)
    BY <1>1, <2>3 DEF Active, Searching, Reserving, Storing, Fresh, Writer
  <2>5. InTime(t)'
    <3>1. ASSUME Active(t)
          PROVE  /\ Retry <= call[t].began /\ call[t].began <= clock + 1
                 /\ clock + 1 <= call[t].began + CallTime
      BY <1>1, <2>1, <2>2, <3>1 DEF CallInv, InTime, Active
    <3>2. ASSUME call[t].pc \in {"deadline", "reserve"}
          PROVE  call[t].began <= call[t].now /\ call[t].now <= clock + 1
      BY <1>1, <2>1, <2>2, <3>2 DEF CallInv, InTime
    <3> QED
      BY <1>1, <2>4, <3>1, <3>2 DEF InTime
  <2>6. Reserved(t)'
    BY <1>1, <2>1, <2>3, <2>4 DEF CallInv, Reserved, TickReached
  <2>7. Chosen(t)'
    BY <1>1, <2>1, <2>4 DEF CallInv, Chosen, Loaded, Matches
  <2>8. Stored(t)' /\ Loads(t)'
    BY <1>1, <2>1, <2>3, <2>4 DEF CallInv, Stored, Loads, Target
  <2>9. Searched(t)'
    BY <1>1, <2>1, <2>4 DEF CallInv, Searched, Holds
  <2> QED
    BY <2>4, <2>5, <2>6, <2>7, <2>8, <2>9 DEF CallInv
<1>3. FontTypeOK'
  BY <1>1 DEF CacheInv, FontTypeOK
<1>4. DeadlineInv'
  <2>1. Retry <= clock /\ lastScan <= clock /\ Retry \in Nat
    BY FontConstants DEF CacheInv, DeadlineInv
  <2>2. Retry <= clock + 1 /\ lastScan <= clock + 1
    BY <1>1, <2>1
  <2> QED
    BY <1>1, <2>2 DEF CacheInv, DeadlineInv, Deadline
<1>5. OneWriter'
  BY <1>2 DEF CacheInv, OneWriter
<1>6. SlotsAreWhole' /\ OneSlotPerKey'
  BY <1>1 DEF CacheInv, SlotsAreWhole, OneSlotPerKey
<1> QED
  BY <1>2, <1>3, <1>4, <1>5, <1>6 DEF CacheInv

\* The cache starts empty, with no call.
LEMMA CacheInit == Init => CacheInv
<1> SUFFICES ASSUME Init PROVE CacheInv
  OBVIOUS
<1>1. Capacity \in Nat \ {0} /\ Retry \in Nat /\ TickWrap \in Nat \ {0} /\ FirstClocks \subseteq Retry .. MaxClock
  BY FontConstants, TickRange
<1>2. clock \in Nat /\ Retry <= clock /\ nextScan = 0 /\ victim = 0 /\ lastScan = 0
  BY <1>1 DEF Init
<1>3. \A t \in Threads : call[t] = Idle /\ At(t, "idle")
  BY DEF Init, At, Idle
<1>4. \A t \in Threads : CallInv(t) /\ ~Writer(t)
  BY <1>3, IdleCall
<1>5. \A i \in CacheSlots : slots[i] = EmptyEntry /\ slots[i].font = Null
  BY DEF Init, EmptyEntry
<1>6. FontTypeOK
  <2>1. /\ slots \in [CacheSlots -> EntryType] /\ published \in [CacheSlots -> EntryType]
        /\ call \in [Threads -> CallType]
    BY IdleTyped DEF Init
  <2>2. /\ ready \in BOOLEAN /\ table \in [Indices -> Addrs \cup {Null}]
        /\ object \in [Addrs -> Kinds \cup {Freed}]
    BY DEF Init
  <2>3. nextScan \in 0 .. TickWrap - 1 /\ victim \in 0 .. Capacity - 1 /\ lastScan \in Nat
    BY <1>1, <1>2
  <2> QED
    BY <1>2, <2>1, <2>2, <2>3 DEF FontTypeOK
<1>7. DeadlineInv /\ OneWriter
  BY <1>1, <1>2, <1>4 DEF DeadlineInv, OneWriter
<1>8. SlotsAreWhole /\ OneSlotPerKey
  BY <1>5 DEF SlotsAreWhole, OneSlotPerKey
<1> QED
  BY <1>4, <1>6, <1>7, <1>8 DEF CacheInv

\* Every step keeps the invariant.
LEMMA CacheStep ==
  ASSUME CacheInv, [Next]_vars
  PROVE  CacheInv'
<1>1. CASE UNCHANGED vars
  <2>1. /\ UNCHANGED <<table, object, slots, clock, lastScan, call>>
        /\ UNCHANGED <<ready, nextScan, victim, published>>
    BY <1>1 DEF vars, engineVars, cacheVars, history
  <2>2. \A t \in Threads : CallInv(t)' /\ (Writer(t)' <=> Writer(t))
    BY <2>1, CallUnmoved DEF CacheInv
  <2>3. FontTypeOK' /\ SlotsAreWhole' /\ OneSlotPerKey'
    BY <2>1 DEF CacheInv, FontTypeOK, SlotsAreWhole, OneSlotPerKey
  <2>4. DeadlineInv' /\ OneWriter'
    BY <2>1, <2>2 DEF CacheInv, DeadlineInv, Deadline, OneWriter
  <2> QED
    BY <2>2, <2>3, <2>4 DEF CacheInv
<1>2. ASSUME NEW t \in Threads, CallStep(t)
      PROVE  CacheInv'
  BY <1>2, LoadStep, ExamineStep, InvalidateStep, ReadTickStep, LoadDeadlineStep, ReserveStep,
     ScanStep, StoresStep, PublishStep DEF CallStep
<1>3. CASE \E t \in Threads, source \in Addrs, preferBold \in BOOLEAN : Begin(t, source, preferBold)
  BY <1>3, BeginStep
<1> QED
  BY <1>1, <1>2, <1>3, EngineActions, ClockStep DEF Next

-----------------------------------------------------------------------------
(***************************************************************************)
(* Theorems.                                                               *)
(***************************************************************************)
\* The cache's state is consistent whatever threads and engine do.
THEOREM CacheInvariant == Spec => []CacheInv
  BY CacheInit, CacheStep, PTL DEF Spec

\* A slot that shows a font shows exactly the entry some call completed there.
THEOREM SlotsWhole == Spec => []SlotsAreWhole
<1>1. CacheInv => SlotsAreWhole
  BY DEF CacheInv
<1> QED
  BY <1>1, CacheInvariant, PTL

\* No two slots show fonts of one source and weight.
THEOREM KeysOnce == Spec => []OneSlotPerKey
<1>1. CacheInv => OneSlotPerKey
  BY DEF CacheInv
<1> QED
  BY <1>1, CacheInvariant, PTL

\* A step of one call leaves the others where they are.
LEMMA OthersStand ==
  ASSUME NEW u \in Threads, CallStep(u), NEW v \in Threads, v # u, CallsTyped
  PROVE  call'[v] = call[v]
<1>1. ASSUME NEW c, call' = [call EXCEPT ![u] = c]
      PROVE  call'[v] = call[v]
  BY <1>1 DEF CallsTyped
<1>2. ASSUME NEW c, NEW pc, Goto(u, c, pc) PROVE call'[v] = call[v]
  BY <1>1, <1>2 DEF Goto
<1>3. ASSUME NEW font, Return(u, font) PROVE call'[v] = call[v]
  BY <1>1, <1>3 DEF Return
<1>4. ASSUME NEW c, NextSlot(u, c) PROVE call'[v] = call[v]
  BY <1>2, <1>4 DEF NextSlot
<1>5. CASE LoadFont(u) \/ LoadSource(u) \/ LoadIndex(u)
  BY <1>2, <1>5 DEF LoadFont, LoadSource, LoadIndex
<1>6. CASE LoadBoldAndExamine(u)
  BY <1>2, <1>3, <1>4, <1>6 DEF LoadBoldAndExamine
<1>7. CASE Invalidate(u)
  BY <1>4, <1>7 DEF Invalidate
<1>8. CASE ReadTick(u) \/ LoadDeadline(u) \/ Reserve(u)
  BY <1>2, <1>3, <1>8 DEF ReadTick, LoadDeadline, Reserve
<1>9. CASE Scan(u)
  BY <1>2, <1>3, <1>9 DEF Scan
<1>10. CASE ClearFont(u) \/ StoreSource(u) \/ StoreIndex(u) \/ StoreBold(u)
  BY <1>2, <1>10 DEF ClearFont, StoreSource, StoreIndex, StoreBold, Store
<1>11. CASE Publish(u)
  BY <1>3, <1>11 DEF Publish
<1> QED
  BY <1>5, <1>6, <1>7, <1>8, <1>9, <1>10, <1>11 DEF CallStep

\* Only its own steps move a call in progress.
LEMMA OwnStep ==
  ASSUME CallsTyped, NEW t \in Threads, ~At(t, "idle"), Next, call'[t].pc # call[t].pc
  PROVE  CallStep(t)
<1>1. ASSUME NEW u \in Threads, NEW source \in Addrs, NEW preferBold \in BOOLEAN,
             Begin(u, source, preferBold)
      PROVE  FALSE
  <2>1. u # t
    BY <1>1 DEF Begin
  <2>2. \E c : call' = [call EXCEPT ![u] = c]
    BY <1>1 DEF Begin, Goto
  <2> QED
    BY <2>1, <2>2 DEF CallsTyped
<1>2. ASSUME NEW u \in Threads, CallStep(u), u # t
      PROVE  FALSE
  BY <1>2, OthersStand
<1>3. ~ClockAdvances
  BY DEF ClockAdvances
<1>4. /\ ~TableAppears
      /\ ~\E i \in Indices, a \in Addrs, kind \in Kinds : LoadObject(i, a, kind)
      /\ ~\E i \in Indices : UnloadObject(i)
  BY DEF TableAppears, LoadObject, UnloadObject
<1> QED
  BY <1>1, <1>2, <1>3, <1>4 DEF Next

\* The clock readings of two scans are at least the retry time apart, wherever
\* the tick count wraps and however the calls interleave.
THEOREM ScansKeepDistance == Spec => ScansSpaced
<1> DEFINE Spaced == \A t \in Threads : At(t, "reserve") /\ At(t, "scan")' => call[t].now >= lastScan + Retry
<1>1. CacheInv /\ [Next]_vars => [Spaced]_vars
  <2> SUFFICES ASSUME CacheInv, Next, NEW t \in Threads, At(t, "reserve"), At(t, "scan")'
               PROVE  call[t].now >= lastScan + Retry
    OBVIOUS
  <2>1. CallsTyped /\ FontTypeOK
    BY DEF CacheInv, FontTypeOK, CallsTyped
  <2>2. CallStep(t)
    BY <2>1, OwnStep DEF At
  <2>3. Reserve(t)
    BY <2>2 DEF CallStep, At, LoadFont, LoadSource, LoadIndex, LoadBoldAndExamine, Invalidate,
       ReadTick, LoadDeadline, Scan, ClearFont, StoreSource, StoreIndex, StoreBold, Publish
  <2>4. nextScan = call[t].next
    <3> SUFFICES ASSUME nextScan # call[t].next PROVE FALSE
      OBVIOUS
    <3>1. Return(t, Null)
      BY <2>3 DEF Reserve
    <3>2. call'[t] = [Idle EXCEPT !.result = Null]
      BY <2>1, <3>1, Returned
    <3> QED
      BY <3>2 DEF At, Idle
  <2>5. lastScan + Retry <= call[t].now /\ call[t].now \in Nat /\ lastScan \in Nat /\ Retry \in Nat
    BY <2>1, <2>4, ScansApart, FontConstants DEF FontTypeOK
  <2> QED
    BY <2>5
<1> QED
  BY <1>1, CacheInvariant, PTL DEF Spec, ScansSpaced

\* What the caller asked for: no font, or a loaded one of its candidate set.
Good(t, font) ==
  font = Null \/ (Loaded(font) /\ Matches(font, call[t].bold, call[t].fallback))

\* A call ends only by returning such a font.
LEMMA GoodReturn ==
  ASSUME CacheInv, NEW t \in Threads, CallStep(t), At(t, "idle")'
  PROVE  \E font \in Addrs \cup {Null} : Return(t, font) /\ Good(t, font)
<1> DEFINE c0 == call[t]
<1>1. c0 \in CallType /\ c0.cursor \in CacheSlots /\ slots[c0.cursor] \in EntryType /\ FontTypeOK
  BY Typed DEF CacheInv
<1>2. CallsTyped /\ "pc" \in DOMAIN c0
  BY <1>1 DEF FontTypeOK, CallsTyped, CallType
<1>3. ASSUME NEW c, "pc" \in DOMAIN c, NEW pc, pc # "idle", Goto(t, c, pc)
      PROVE  FALSE
  <2>1. call'[t] = [c EXCEPT !.pc = pc]
    BY <1>2, <1>3 DEF Goto, CallsTyped
  <2> QED
    BY <1>3, <2>1 DEF At
<1>4. ASSUME NEW c, "pc" \in DOMAIN c, NextSlot(t, c)
      PROVE  FALSE
  BY <1>3, <1>4 DEF NextSlot
<1>5. Null \in Addrs \cup {Null} /\ Good(t, Null)
  BY DEF Good
<1>6. CASE LoadFont(t) \/ LoadSource(t) \/ LoadIndex(t)
  BY <1>2, <1>3, <1>6 DEF LoadFont, LoadSource, LoadIndex
<1>7. CASE LoadBoldAndExamine(t)
  <2> DEFINE x == [c0.cached EXCEPT !.bold = slots[c0.cursor].bold]
             c == [c0 EXCEPT !.cached = x]
  <2>1. x \in EntryType
    BY <1>1, EntryTyped
  <2>2. c \in CallType /\ c.bold = c0.bold /\ c.fallback = c0.fallback /\ c.cached = x
    BY <1>1, <2>1, LoadTyped
  <2>3. "pc" \in DOMAIN c /\ "pc" \in DOMAIN WithMatching(c)
    BY <1>2 DEF WithMatching
  <2>4. \/ NextSlot(t, c)
        \/ NextSlot(t, WithMatching(c))
        \/ x.font # Null /\ Usable(x, c) /\ Return(t, x.font)
        \/ Goto(t, WithMatching(c), "invalidate")
    BY <1>7, <2>2 DEF LoadBoldAndExamine
  <2> HIDE DEF x, c
  <2>5. x.font # Null /\ Usable(x, c) /\ Return(t, x.font)
    BY <1>3, <1>4, <2>3, <2>4
  <2>6. Loaded(x.font) /\ Matches(x.font, c0.bold, c0.fallback)
    BY <2>2, <2>5 DEF Usable, Valid, Loaded
  <2>7. x.font \in Addrs \cup {Null}
    BY <2>1 DEF EntryType
  <2> QED
    BY <2>5, <2>6, <2>7 DEF Good
<1>8. CASE Invalidate(t)
  BY <1>2, <1>4, <1>8 DEF Invalidate
<1>9. CASE ReadTick(t) \/ LoadDeadline(t) \/ Reserve(t)
  BY <1>2, <1>3, <1>5, <1>9 DEF ReadTick, LoadDeadline, Reserve
<1>10. CASE Scan(t)
  BY <1>2, <1>3, <1>5, <1>10 DEF Scan
<1>11. CASE ClearFont(t) \/ StoreSource(t) \/ StoreIndex(t) \/ StoreBold(t)
  BY <1>2, <1>3, <1>11 DEF ClearFont, StoreSource, StoreIndex, StoreBold, Store
<1>12. CASE Publish(t)
  <2>1. Return(t, c0.chosen.font) /\ Storing(t)
    BY <1>12 DEF Publish, Storing, StoreSteps, At
  <2>2. c0.chosen.font \in Addrs \cup {Null}
    BY <1>1 DEF CallType, EntryType
  <2>3. Good(t, c0.chosen.font)
    BY <2>1 DEF CacheInv, CallInv, Chosen, Good
  <2> QED
    BY <2>1, <2>2, <2>3
<1> QED
  BY <1>6, <1>7, <1>8, <1>9, <1>10, <1>11, <1>12 DEF CallStep

\* A call returns no font, or one that is loaded at that moment and of a kind
\* the caller asked for.
THEOREM ReturnedFontsUsable == Spec => ReturnedFontIsUsable
<1> DEFINE Usables == \A t \in Threads : ~At(t, "idle") /\ At(t, "idle")' => Good(t, call'[t].result)
<1>1. CacheInv /\ [Next]_vars => [Usables]_vars
  <2> SUFFICES ASSUME CacheInv, Next, NEW t \in Threads, ~At(t, "idle"), At(t, "idle")'
               PROVE  Good(t, call'[t].result)
    OBVIOUS
  <2>1. CallsTyped /\ CallStep(t)
    <3>1. CallsTyped
      BY DEF CacheInv, FontTypeOK, CallsTyped
    <3> QED
      BY <3>1, OwnStep DEF At
  <2>2. PICK font \in Addrs \cup {Null} : Return(t, font) /\ Good(t, font)
    BY <2>1, GoodReturn
  <2>3. call'[t] = [Idle EXCEPT !.result = font]
    BY <2>1, <2>2, Returned
  <2>4. call'[t].result = font
    BY <2>3 DEF Idle
  <2> QED
    BY <2>2, <2>4
<1>2. Usables => \A t \in Threads : ~At(t, "idle") /\ At(t, "idle")' =>
                   \/ call'[t].result = Null
                   \/ Loaded(call'[t].result) /\ Matches(call'[t].result, call[t].bold, call[t].fallback)
  BY DEF Good
<1> QED
  BY <1>1, <1>2, CacheInvariant, PTL DEF Spec, ReturnedFontIsUsable
=============================================================================
