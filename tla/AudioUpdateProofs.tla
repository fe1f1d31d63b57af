--------------------------- MODULE AudioUpdateProofs ---------------------------
(***************************************************************************)
(* Proofs about the audio pacing patch, for every set of devices, every    *)
(* frequency of the counter and every rate, budget, window and gap of      *)
(* AudioUpdatePolicy.hpp: nothing rests on the numbers the code chose.     *)
(***************************************************************************)
EXTENDS AudioUpdate, Integers, TLAPS

Modes == {"full", "reduced"}

Windows ==
  [device : Devices \cup {NoDevice}, capacity : Capacities \cup {0}, mode : Modes,
   start : Nat, last : Nat, frames : Nat, pressure : Nat]

Schedules ==
  [device : Devices \cup {NoDevice}, next : Nat, last : Nat, initialized : BOOLEAN]

\* The history starts no later than it goes on.
HistoryTypeOK ==
  /\ runs \in [since : Nat, last : Nat]
  /\ steady \in [device : Devices \cup {NoDevice}, capacity : Nat, last : Nat, since : Nat]

\* The deadline is a whole number of intervals after the start of the schedule,
\* and the last pass came in the interval before it.
ScheduleInv ==
  schedule.initialized =>
    /\ runs.since <= runs.last /\ runs.last <= schedule.last /\ schedule.last < schedule.next
    /\ \E n \in Nat : /\ runs.since + n * Interval <= runs.last
                      /\ schedule.next = runs.since + n * Interval + Interval

\* The window is of the last frame, and of no frame before those that were alike.
WindowInv ==
  /\ steady.device = window.device /\ steady.capacity = window.capacity
  /\ steady.last = window.last
  /\ steady.since <= window.start

AudioInv == AudioTypeOK /\ HistoryTypeOK /\ ScheduleInv /\ WindowInv

USE AudioConstants

-----------------------------------------------------------------------------
(***************************************************************************)
(* Arithmetic of intervals.                                                *)
(***************************************************************************)
\* An interval is at least one tick.
LEMMA IntervalIsPositive == Interval \in Nat \ {0}
<1>1. Frequency \div UpdatesPerSecond \in Nat
  <2>1. Frequency \in Nat /\ UpdatesPerSecond \in Nat \ {0}
    OBVIOUS
  <2>2. QED
    BY <2>1, SMT
<1>2. QED
  BY <1>1, SMT DEF Interval, Larger

\* Division with remainder.
LEMMA Quotient ==
  ASSUME NEW a \in Nat, NEW I \in Nat \ {0}
  PROVE  a \div I \in Nat /\ (a \div I) * I <= a /\ a < (a \div I) * I + I
<1>1. a = I * (a \div I) + (a % I) /\ 0 <= a % I /\ a % I < I /\ a % I \in Int /\ a \div I \in Nat
  BY SMT
<1>2. (a \div I) * I = I * (a \div I)
  BY <1>1, SMT
<1>3. QED
  BY <1>1, <1>2, SMT

\* One interval more is one multiple more.
LEMMA OneMore ==
  ASSUME NEW m \in Int, NEW n \in Int, NEW I \in Nat
  PROVE  /\ (m + n) * I = m * I + n * I /\ (m + 1) * I = m * I + I
         /\ m * I \in Int /\ n * I \in Int /\ (m + n) * I \in Int
BY SMT

\* What lies below the n-th multiple has a smaller quotient, the rest has not.
LEMMA QuotientOrder ==
  ASSUME NEW a \in Nat, NEW I \in Nat \ {0}, NEW n \in Nat
  PROVE  n * I <= a <=> n <= a \div I
<1> DEFINE q == a \div I
<1>1. q \in Nat /\ q * I <= a /\ a < q * I + I
  BY Quotient
<1> HIDE DEF q
<1>2. ASSUME n <= q PROVE n * I <= a
  <2>1. PICK d \in Nat : q = n + d
    <3>1. q - n \in Nat /\ q = n + (q - n)
      BY <1>1, <1>2, SMT
    <3>2. QED
      BY <3>1
  <2>2. q * I = n * I + d * I /\ d * I \in Nat /\ n * I \in Nat
    BY <2>1, SMT
  <2>3. QED
    BY <1>1, <2>2, SMT
<1>3. ASSUME n > q PROVE n * I > a
  <2>1. PICK d \in Nat : n = (q + 1) + d
    <3>1. n - (q + 1) \in Nat /\ n = (q + 1) + (n - (q + 1))
      BY <1>1, <1>3, SMT
    <3>2. QED
      BY <3>1
  <2>2. (q + 1) * I = q * I + I /\ q + 1 \in Nat
    BY <1>1, SMT
  <2>3. n * I = (q + 1) * I + d * I /\ d * I \in Nat /\ (q + 1) * I \in Nat
    BY <2>1, <2>2, SMT
  <2>4. QED
    BY <1>1, <2>2, <2>3, SMT
<1>4. n * I \in Nat
  BY SMT
<1>5. QED
  BY <1>1, <1>2, <1>3, <1>4, SMT DEF q

-----------------------------------------------------------------------------
(***************************************************************************)
(* The schedule.                                                           *)
(***************************************************************************)
\* The next deadline is the first multiple of the interval after the reading.
LEMMA DeadlineIsNext ==
  ASSUME NEW since \in Nat, NEW n \in Nat, NEW next \in Nat, NEW now \in Nat, NEW I \in Nat \ {0},
         next = since + n * I + I, now >= next,
         NEW after, after = next + ((now - next) \div I + 1) * I
  PROVE  /\ after \in Nat /\ now < after
         /\ \E m \in Nat : since + m * I <= now /\ after = since + m * I + I
<1> DEFINE q == (now - next) \div I
<1>0. after = next + (q + 1) * I
  OBVIOUS
<1>1. now - next \in Nat
  BY SMT
<1>2. q \in Nat /\ q * I <= now - next /\ now - next < q * I + I
  BY <1>1, Quotient
<1> HIDE DEF q
<1>3. /\ (q + 1) * I = q * I + I /\ q * I \in Nat /\ n * I \in Nat
      /\ ((n + 1) + q) * I = (n + 1) * I + q * I /\ (n + 1) * I = n * I + I /\ (n + 1) + q \in Nat
      /\ ((n + 1) + q) * I \in Nat
  <2>1. n + 1 \in Nat /\ q + 1 \in Nat /\ (n + 1) + q \in Nat
    BY <1>2, SMT
  <2>2. q * I \in Nat /\ n * I \in Nat /\ ((n + 1) + q) * I \in Nat
    BY <1>2, <2>1, SMT
  <2>3. QED
    BY <1>2, <2>1, <2>2, OneMore
<1>4. after \in Nat /\ now < after
  BY <1>0, <1>2, <1>3, SMT
<1>5. since + ((n + 1) + q) * I <= now /\ after = since + ((n + 1) + q) * I + I
  BY <1>0, <1>2, <1>3, SMT
<1>6. QED
  BY <1>3, <1>4, <1>5

\* The schedule after a call, field by field.
LEMMA ScheduleUpdated ==
  ASSUME schedule \in Schedules, NEW device \in Devices, NEW realtime \in BOOLEAN, NEW now \in Nat
  PROVE  LET s == ShouldRunUpdate(device, realtime, now) IN
         /\ ~realtime => s = Unscheduled
         /\ realtime /\ Restarts(device, now) => s = Started(device, now)
         /\ realtime /\ ~Restarts(device, now) /\ now >= schedule.next =>
              s = [device |-> device, next |-> NextDeadline(now), last |-> now, initialized |-> TRUE]
         /\ realtime /\ ~Restarts(device, now) /\ ~(now >= schedule.next) =>
              s = [device |-> device, next |-> schedule.next, last |-> now, initialized |-> TRUE]
<1> DEFINE s == ShouldRunUpdate(device, realtime, now)
           moved == [schedule EXCEPT !.last = now]
           D == Devices \cup {NoDevice}
<1>1. ASSUME realtime, ~Restarts(device, now)
      PROVE  schedule.device = device /\ schedule.initialized = TRUE
  <2>1. schedule.initialized \in BOOLEAN
    BY DEF Schedules
  <2>2. QED
    BY <1>1, <2>1 DEF Restarts
<1>2. schedule \in [device : D, next : Nat, last : Nat, initialized : BOOLEAN]
  BY DEF Schedules
<1> HIDE DEF D
<1>3. /\ moved = [device |-> schedule.device, next |-> schedule.next, last |-> now,
                  initialized |-> schedule.initialized]
      /\ moved \in [device : D, next : Nat, last : Nat, initialized : BOOLEAN]
  BY <1>2, SMT
<1>4. \A e : [schedule EXCEPT !.last = now, !.next = e] = [moved EXCEPT !.next = e]
  OBVIOUS
<1> HIDE DEF moved
<1>5. \A e : [moved EXCEPT !.next = e] = [device |-> moved.device, next |-> e, last |-> moved.last,
                                          initialized |-> moved.initialized]
  BY <1>3, SMT
<1>6. ASSUME ~realtime PROVE s = Unscheduled
  BY <1>6, Zenon DEF ShouldRunUpdate
<1>7. ASSUME realtime, Restarts(device, now) PROVE s = Started(device, now)
  BY <1>7, Zenon DEF ShouldRunUpdate, Due
<1>8. ASSUME realtime, ~Restarts(device, now), now >= schedule.next
      PROVE  s = [schedule EXCEPT !.last = now, !.next = NextDeadline(now)]
  BY <1>8, Zenon DEF ShouldRunUpdate, Due
<1>9. ASSUME realtime, ~Restarts(device, now), ~(now >= schedule.next)
      PROVE  s = [schedule EXCEPT !.last = now]
  BY <1>9, Zenon DEF ShouldRunUpdate, Due
<1> HIDE DEF s
<1>10. QED
  <2>1. ASSUME realtime, ~Restarts(device, now), now >= schedule.next
        PROVE  s = [device |-> device, next |-> NextDeadline(now), last |-> now, initialized |-> TRUE]
    BY <2>1, <1>1, <1>4, <1>5, <1>8
  <2>2. ASSUME realtime, ~Restarts(device, now), ~(now >= schedule.next)
        PROVE  s = [device |-> device, next |-> schedule.next, last |-> now, initialized |-> TRUE]
    BY <2>2, <1>1, <1>3, <1>9 DEF moved
  <2>3. QED
    BY <1>6, <1>7, <2>1, <2>2 DEF s

-----------------------------------------------------------------------------
(***************************************************************************)
(* The window.                                                             *)
(***************************************************************************)
\* The fields of a window, and what replacing them leaves.
LEMMA WindowFields ==
  ASSUME NEW w \in Windows, NEW active, NEW now
  PROVE  /\ w.start \in Nat /\ w.last \in Nat /\ w.frames \in Nat /\ w.pressure \in Nat /\ w.mode \in Modes
         /\ \E p \in {w.pressure, w.pressure + 1} :
              Counted(w, active, now) =
                [device |-> w.device, capacity |-> w.capacity, mode |-> w.mode, start |-> w.start,
                 last |-> now, frames |-> w.frames + 1, pressure |-> p]
         /\ Close(w, now) =
              [device |-> w.device, capacity |-> w.capacity, mode |-> SelectVoiceMode(w, now - w.start),
               start |-> now, last |-> w.last, frames |-> 0, pressure |-> 0]
<1> DEFINE D == Devices \cup {NoDevice}
           C == Capacities \cup {0}
           M == Modes
           m == SelectVoiceMode(w, now - w.start)
           p == IF active > ReducedVoiceBudget THEN w.pressure + 1 ELSE w.pressure
           f == w.frames + 1
<1>1. w \in [device : D, capacity : C, mode : M, start : Nat, last : Nat, frames : Nat, pressure : Nat]
  BY DEF Windows
<1> HIDE DEF D, C, M
<1>2. /\ w.start \in Nat /\ w.last \in Nat /\ w.frames \in Nat /\ w.pressure \in Nat /\ w.mode \in M
      /\ w = [device |-> w.device, capacity |-> w.capacity, mode |-> w.mode, start |-> w.start,
              last |-> w.last, frames |-> w.frames, pressure |-> w.pressure]
  BY <1>1, SMT
<1> DEFINE R(d, c, mm, st, la, fr, pr) ==
             [device |-> d, capacity |-> c, mode |-> mm, start |-> st, last |-> la, frames |-> fr, pressure |-> pr]
<1>3. \A d, c, mm, st, la, fr, pr, v :
        /\ [R(d, c, mm, st, la, fr, pr) EXCEPT !.mode = v] = R(d, c, v, st, la, fr, pr)
        /\ [R(d, c, mm, st, la, fr, pr) EXCEPT !.start = v] = R(d, c, mm, v, la, fr, pr)
        /\ [R(d, c, mm, st, la, fr, pr) EXCEPT !.last = v] = R(d, c, mm, st, v, fr, pr)
        /\ [R(d, c, mm, st, la, fr, pr) EXCEPT !.frames = v] = R(d, c, mm, st, la, v, pr)
        /\ [R(d, c, mm, st, la, fr, pr) EXCEPT !.pressure = v] = R(d, c, mm, st, la, fr, v)
  BY SMT
<1>4. Counted(w, active, now) = [[[w EXCEPT !.last = now] EXCEPT !.frames = f] EXCEPT !.pressure = p]
  BY DEF Counted
<1>5. Close(w, now) = [[[[w EXCEPT !.mode = m] EXCEPT !.start = now] EXCEPT !.frames = 0] EXCEPT !.pressure = 0]
  BY DEF Close
<1>6. p \in {w.pressure, w.pressure + 1}
  OBVIOUS
<1>7. w = R(w.device, w.capacity, w.mode, w.start, w.last, w.frames, w.pressure)
  BY <1>2
<1> HIDE DEF m, p, f, R
<1>8. /\ Counted(w, active, now) = R(w.device, w.capacity, w.mode, w.start, now, f, p)
      /\ Close(w, now) = R(w.device, w.capacity, m, now, w.last, 0, 0)
  <2> DEFINE d  == w.device
             c  == w.capacity
             mo == w.mode
             st == w.start
             la == w.last
             fr == w.frames
             pr == w.pressure
  <2> HIDE DEF d, c, mo, st, la, fr, pr
  <2>1. w = R(d, c, mo, st, la, fr, pr)
    BY <1>7 DEF d, c, mo, st, la, fr, pr
  <2>2. Counted(w, active, now) = R(d, c, mo, st, now, f, p)
    <3>1. [w EXCEPT !.last = now] = R(d, c, mo, st, now, fr, pr)
      BY <1>3, <2>1
    <3>2. [R(d, c, mo, st, now, fr, pr) EXCEPT !.frames = f] = R(d, c, mo, st, now, f, pr)
      BY <1>3
    <3>3. [R(d, c, mo, st, now, f, pr) EXCEPT !.pressure = p] = R(d, c, mo, st, now, f, p)
      BY <1>3
    <3>4. QED
      BY <1>4, <3>1, <3>2, <3>3
  <2>3. Close(w, now) = R(d, c, m, now, la, 0, 0)
    <3>1. [w EXCEPT !.mode = m] = R(d, c, m, st, la, fr, pr)
      BY <1>3, <2>1
    <3>2. [R(d, c, m, st, la, fr, pr) EXCEPT !.start = now] = R(d, c, m, now, la, fr, pr)
      BY <1>3
    <3>3. [R(d, c, m, now, la, fr, pr) EXCEPT !.frames = 0] = R(d, c, m, now, la, 0, pr)
      BY <1>3
    <3>4. [R(d, c, m, now, la, 0, pr) EXCEPT !.pressure = 0] = R(d, c, m, now, la, 0, 0)
      BY <1>3
    <3>5. QED
      BY <1>5, <3>1, <3>2, <3>3, <3>4
  <2>4. QED
    BY <2>2, <2>3 DEF d, c, mo, st, la, fr, pr
<1>9. QED
  BY <1>2, <1>6, <1>8, Zenon DEF m, f, M, R

\* The mode stays one of the two.
LEMMA ModeSelected ==
  ASSUME NEW w, NEW elapsed, w.mode \in Modes
  PROVE  SelectVoiceMode(w, elapsed) \in Modes
BY Zenon DEF SelectVoiceMode, Modes

\* A whole window takes time.
LEMMA WindowLasts == WindowSeconds * Frequency \in Nat \ {0}
<1>1. WindowSeconds \in Nat \ {0} /\ Frequency \in Nat \ {0}
  OBVIOUS
<1>2. QED
  BY <1>1, SMT

\* The window after a call: it starts anew when it restarts or closes, and only
\* a window that has lasted long enough changes the mode.
LEMMA WindowUpdated ==
  ASSUME window \in Windows, window.pressure <= window.frames, window.start <= window.last,
         NEW device \in Devices, NEW capacity \in Capacities, NEW active, NEW realtime \in BOOLEAN,
         NEW now \in Nat
  PROVE  LET w == UpdateVoiceBudget(device, capacity, active, realtime, now)
             restarts == WindowRestarts(device, capacity, realtime, now)
         IN  /\ w \in Windows /\ w.pressure <= w.frames /\ w.start <= w.last
             /\ w.last = now /\ w.capacity = capacity
             /\ restarts => w.start = now /\ w.mode = "full"
             /\ ~restarts => /\ window.start <= w.start
                             /\ w.mode # window.mode =>
                                  w.start = now /\ now >= window.start + WindowSeconds * Frequency
<1> DEFINE restarts == WindowRestarts(device, capacity, realtime, now)
           w0 == IF restarts THEN FreshWindow(device, capacity, now) ELSE window
           w1 == Counted(w0, active, now)
           w2 == Close(w1, now)
           L  == WindowSeconds * Frequency
<1>1. /\ w0 \in Windows /\ w0.pressure <= w0.frames /\ w0.start <= now /\ w0.capacity = capacity
      /\ restarts => w0.start = now /\ w0.mode = "full"
      /\ ~restarts => w0 = window
  <2>1. CASE restarts
    <3>1. /\ FreshWindow(device, capacity, now) \in Windows
          /\ FreshWindow(device, capacity, now).pressure = 0 /\ FreshWindow(device, capacity, now).frames = 0
          /\ FreshWindow(device, capacity, now).start = now /\ FreshWindow(device, capacity, now).mode = "full"
          /\ FreshWindow(device, capacity, now).capacity = capacity
      BY DEF FreshWindow, Windows, Modes
    <3>2. w0 = FreshWindow(device, capacity, now)
      BY <2>1
    <3> HIDE DEF w0
    <3>3. QED
      BY <2>1, <3>1, <3>2, SMT
  <2>2. CASE ~restarts
    <3>1. window.capacity = capacity /\ ~(now < window.last)
      BY <2>2, Zenon DEF WindowRestarts
    <3>2. w0 = window
      BY <2>2
    <3>3. window.start \in Nat /\ window.last \in Nat
      BY WindowFields
    <3> HIDE DEF w0, restarts
    <3>4. QED
      BY <2>2, <3>1, <3>2, <3>3, SMT
  <2>3. QED
    BY <2>1, <2>2
<1> HIDE DEF w0, restarts
<1>2. /\ w1 \in Windows /\ w1.pressure <= w1.frames /\ w1.start = w0.start /\ w1.last = now
      /\ w1.capacity = capacity /\ w1.mode = w0.mode
  <2>1. /\ w0.start \in Nat /\ w0.frames \in Nat /\ w0.pressure \in Nat /\ w0.mode \in Modes
        /\ w0.device \in Devices \cup {NoDevice} /\ w0.capacity \in Capacities \cup {0}
    BY <1>1, WindowFields DEF Windows
  <2>2. PICK p \in {w0.pressure, w0.pressure + 1} :
          w1 = [device |-> w0.device, capacity |-> w0.capacity, mode |-> w0.mode, start |-> w0.start,
                last |-> now, frames |-> w0.frames + 1, pressure |-> p]
    BY <1>1, WindowFields
  <2>3. p \in Nat /\ w0.frames + 1 \in Nat /\ p <= w0.frames + 1
    BY <1>1, <2>1, SMT
  <2> HIDE DEF w1
  <2>4. w1 \in Windows
    BY <2>1, <2>2, <2>3 DEF Windows
  <2>5. QED
    BY <1>1, <2>2, <2>3, <2>4
<1> HIDE DEF w1
<1>3. /\ w2 \in Windows /\ w2.pressure = 0 /\ w2.frames = 0 /\ w2.start = now /\ w2.last = now
      /\ w2.capacity = capacity
  <2>1. w2 = [device |-> w1.device, capacity |-> w1.capacity, mode |-> SelectVoiceMode(w1, now - w1.start),
              start |-> now, last |-> w1.last, frames |-> 0, pressure |-> 0]
    BY <1>2, WindowFields
  <2>2. /\ w1.device \in Devices \cup {NoDevice} /\ w1.capacity \in Capacities \cup {0}
        /\ SelectVoiceMode(w1, now - w1.start) \in Modes
    BY <1>2, WindowFields, ModeSelected DEF Windows
  <2> DEFINE m == SelectVoiceMode(w1, now - w1.start)
  <2> HIDE DEF w2, m
  <2>3. w2 = [device |-> w1.device, capacity |-> capacity, mode |-> m, start |-> now, last |-> now,
              frames |-> 0, pressure |-> 0] /\ m \in Modes
    BY <1>2, <2>1, <2>2 DEF m
  <2>4. w2 \in Windows
    BY <1>2, <2>2, <2>3 DEF Windows
  <2>5. QED
    BY <2>3, <2>4
<1> HIDE DEF w2
<1>4. UpdateVoiceBudget(device, capacity, active, realtime, now) = IF now - w1.start >= L THEN w2 ELSE w1
  BY DEF UpdateVoiceBudget, w0, w1, w2, restarts
<1>5. L \in Nat \ {0}
  BY WindowLasts
<1>6. w1.start \in Nat /\ window.start \in Nat /\ window.last \in Nat
  BY <1>2, WindowFields
<1> DEFINE w == UpdateVoiceBudget(device, capacity, active, realtime, now)
<1> HIDE DEF w, L
<1>7. CASE now - w1.start >= L
  <2>1. w = w2
    BY <1>4, <1>7 DEF w
  <2>2. ~restarts
    BY <1>1, <1>2, <1>5, <1>6, <1>7, SMT
  <2>3. window.start <= now /\ now >= window.start + L
    BY <1>1, <1>2, <1>5, <1>6, <1>7, <2>2, SMT
  <2>4. w2.pressure <= w2.frames /\ w2.start <= w2.last
    BY <1>3, SMT
  <2>5. QED
    BY <1>3, <2>1, <2>2, <2>3, <2>4 DEF w, L, restarts
<1>8. CASE ~(now - w1.start >= L)
  <2>1. w = w1
    BY <1>4, <1>8 DEF w
  <2>2. w1.start <= w1.last
    BY <1>1, <1>2
  <2>3. ~restarts => window.start <= w1.start
    BY <1>1, <1>2, <1>6, SMT
  <2>4. QED
    BY <1>1, <1>2, <2>1, <2>2, <2>3 DEF w, L, restarts
<1>9. QED
  BY <1>7, <1>8

-----------------------------------------------------------------------------
(***************************************************************************)
(* The invariant.                                                          *)
(***************************************************************************)
\* The types, by variable.
LEMMA AudioTypes ==
  AudioTypeOK <=> /\ schedule \in Schedules /\ window \in Windows
                  /\ window.pressure <= window.frames /\ window.start <= window.last
                  /\ budget \in Nat /\ budget <= window.capacity
BY DEF AudioTypeOK, Schedules, Windows, Modes

\* The budget never exceeds the sources of the device.
LEMMA BudgetBounded ==
  ASSUME NEW mode, NEW capacity \in Nat
  PROVE  EffectiveVoiceBudget(mode, capacity) \in Nat /\ EffectiveVoiceBudget(mode, capacity) <= capacity
<1>1. ReducedVoiceBudget \in Nat
  OBVIOUS
<1>2. QED
  BY <1>1, SMT DEF EffectiveVoiceBudget

(* Before the first frame nothing is scheduled and the window is empty. *)
LEMMA AudioInitial == Init => AudioInv
<1> SUFFICES ASSUME Init PROVE AudioInv
  OBVIOUS
<1>1. schedule \in Schedules /\ schedule.initialized = FALSE
  BY DEF Init, Unscheduled, Schedules
<1>2. window \in Windows /\ window.pressure <= window.frames /\ window.start <= window.last
      /\ window.start = 0 /\ window.capacity = 0
  <2>1. window = [device |-> NoDevice, capacity |-> 0, mode |-> "full",
                  start |-> 0, last |-> 0, frames |-> 0, pressure |-> 0]
    BY DEF Init, FreshWindow
  <2>2. window \in Windows
    BY <2>1 DEF Windows, Modes
  <2>3. QED
    BY <2>1, <2>2, SMT
<1>3. AudioTypeOK
  BY <1>1, <1>2, AudioTypes, SMT DEF Init
<1>4. HistoryTypeOK
  BY DEF Init, HistoryTypeOK
<1>5. WindowInv
  BY SMT DEF Init, WindowInv, FreshWindow
<1>6. QED
  BY <1>1, <1>3, <1>4, <1>5 DEF AudioInv, ScheduleInv

\* A call of the update hook: the schedule.
LEMMA UpdateKeepsSchedule ==
  ASSUME AudioInv, NEW device \in Devices, NEW capacity, NEW realtime \in BOOLEAN, NEW now \in Nat,
         schedule' = ShouldRunUpdate(device, realtime, now),
         LET run == ~realtime \/ Due(device, now) IN
           runs' = IF run THEN [since |-> IF realtime /\ ~Restarts(device, now) THEN runs.since ELSE now,
                                last |-> now] ELSE runs
  PROVE  schedule' \in Schedules /\ runs' \in [since : Nat, last : Nat] /\ ScheduleInv'
<1>1. /\ schedule \in Schedules /\ runs.since \in Nat /\ runs.last \in Nat /\ runs \in [since : Nat, last : Nat]
      /\ schedule.next \in Nat /\ schedule.last \in Nat /\ schedule.initialized \in BOOLEAN
  BY AudioTypes DEF AudioInv, HistoryTypeOK, Schedules
<1>2. Interval \in Nat \ {0}
  BY IntervalIsPositive
<1>3. CASE ~realtime
  <2>1. schedule' = Unscheduled
    BY <1>1, <1>3, ScheduleUpdated
  <2>2. runs' = [since |-> now, last |-> now]
    BY <1>3
  <2>3. schedule' \in Schedules /\ schedule'.initialized = FALSE
    BY <2>1 DEF Unscheduled, Schedules
  <2>4. QED
    BY <2>2, <2>3 DEF ScheduleInv
<1>4. CASE realtime /\ Restarts(device, now)
  <2>1. schedule' = Started(device, now)
    BY <1>1, <1>4, ScheduleUpdated
  <2>2. runs' = [since |-> now, last |-> now]
    BY <1>4 DEF Due
  <2>3. /\ schedule' = [device |-> device, next |-> now + Interval, last |-> now, initialized |-> TRUE]
        /\ now + Interval \in Nat
    BY <1>2, <2>1, SMT DEF Started
  <2>4. schedule' \in Schedules /\ schedule'.next = now + Interval /\ schedule'.last = now
    BY <2>3 DEF Schedules
  <2>5. 0 * Interval = 0 /\ 0 \in Nat
    BY <1>2, SMT
  <2>6. runs'.since = now /\ runs'.last = now /\ runs' \in [since : Nat, last : Nat]
    BY <2>2
  <2>7. \E n \in Nat : now + n * Interval <= now /\ now + Interval = now + n * Interval + Interval
    <3>1. now + 0 * Interval <= now /\ now + Interval = now + 0 * Interval + Interval
      BY <1>2, <2>5, SMT
    <3>2. QED
      BY <2>5, <3>1
  <2>8. ScheduleInv'
    <3>1. now <= now /\ now < now + Interval
      BY <1>2, SMT
    <3> HIDE DEF Interval
    <3>2. Interval' = Interval
      BY DEF Interval
    <3>3. QED
      BY <2>4, <2>6, <2>7, <3>1, <3>2 DEF ScheduleInv
  <2>9. QED
    BY <2>4, <2>6, <2>8
<1>5. CASE realtime /\ ~Restarts(device, now)
  <2>1. schedule.initialized /\ ~(now < schedule.last)
    BY <1>1, <1>5 DEF Restarts
  <2>2. PICK n \in Nat : runs.since + n * Interval <= runs.last /\ schedule.next = runs.since + n * Interval + Interval
    BY <2>1 DEF AudioInv, ScheduleInv
  <2>3. runs.since <= runs.last /\ runs.last <= schedule.last /\ schedule.last < schedule.next
    BY <2>1 DEF AudioInv, ScheduleInv
  <2>4. Interval' = Interval
    BY DEF Interval
  <2>5. CASE now >= schedule.next
    <3>1. /\ NextDeadline(now) \in Nat /\ now < NextDeadline(now)
          /\ \E m \in Nat : /\ runs.since + m * Interval <= now
                            /\ NextDeadline(now) = runs.since + m * Interval + Interval
      <4> DEFINE I     == Interval
                 s     == runs.since
                 d     == schedule.next
                 after == NextDeadline(now)
      <4>1. d = s + n * I + I /\ I \in Nat \ {0} /\ s \in Nat /\ d \in Nat /\ now >= d
        BY <1>1, <1>2, <2>2, <2>5
      <4>2. after = d + ((now - d) \div I + 1) * I
        BY DEF NextDeadline
      <4> HIDE DEF I, s, d, after
      <4>3. after \in Nat /\ now < after /\ \E m \in Nat : s + m * I <= now /\ after = s + m * I + I
        BY <4>1, <4>2, DeadlineIsNext
      <4>4. QED
        BY <4>3 DEF I, s, after
    <3>2. schedule' = [device |-> device, next |-> NextDeadline(now), last |-> now, initialized |-> TRUE]
      BY <1>1, <1>5, <2>5, ScheduleUpdated
    <3>3. runs' = [since |-> runs.since, last |-> now]
      BY <1>5, <2>5 DEF Due
    <3> HIDE DEF Interval, NextDeadline
    <3>4. schedule' \in Schedules /\ schedule'.next = NextDeadline(now) /\ schedule'.last = now
      BY <3>1, <3>2 DEF Schedules
    <3>5. runs' \in [since : Nat, last : Nat] /\ runs'.since = runs.since /\ runs'.last = now
      BY <1>1, <3>3
    <3>6. runs.since <= now /\ now <= now
      BY <1>1, <2>1, <2>3, SMT
    <3>7. QED
      BY <2>4, <3>1, <3>4, <3>5, <3>6 DEF ScheduleInv
  <2>6. CASE ~(now >= schedule.next)
    <3>1. schedule' = [device |-> device, next |-> schedule.next, last |-> now, initialized |-> TRUE]
      BY <1>1, <1>5, <2>6, ScheduleUpdated
    <3>2. runs' = runs
      BY <1>5, <2>6 DEF Due
    <3> HIDE DEF Interval
    <3>3. schedule' \in Schedules /\ schedule'.next = schedule.next /\ schedule'.last = now
      BY <1>1, <3>1 DEF Schedules
    <3>4. runs.last <= now /\ now < schedule.next
      BY <1>1, <2>1, <2>3, <2>6, SMT
    <3>5. QED
      BY <1>1, <2>2, <2>3, <2>4, <3>2, <3>3, <3>4 DEF ScheduleInv
  <2>7. QED
    BY <2>5, <2>6
<1>6. QED
  BY <1>3, <1>4, <1>5

\* The window is always of the device that was updated last.
LEMMA WindowOfDevice ==
  ASSUME window \in Windows, NEW device \in Devices, NEW capacity \in Capacities, NEW active,
         NEW realtime \in BOOLEAN, NEW now \in Nat
  PROVE  UpdateVoiceBudget(device, capacity, active, realtime, now).device = device
<1> DEFINE w0 == IF WindowRestarts(device, capacity, realtime, now)
                   THEN FreshWindow(device, capacity, now) ELSE window
           w1 == Counted(w0, active, now)
<1>1. w0.device = device
  <2>1. FreshWindow(device, capacity, now).device = device
    BY DEF FreshWindow
  <2>2. WindowRestarts(device, capacity, realtime, now) \/ window.device = device
    BY DEF WindowRestarts
  <2>3. QED
    BY <2>1, <2>2
<1>2. w0 \in Windows
  BY DEF FreshWindow, Windows, Modes
<1> HIDE DEF w0
<1>3. w1.device = device
  BY <1>1, <1>2 DEF Counted, Windows
<1>4. DOMAIN w1 = DOMAIN w0
  BY DEF Counted
<1> HIDE DEF w1
<1>5. Close(w1, now).device = device
  BY <1>3 DEF Close
<1>6. UpdateVoiceBudget(device, capacity, active, realtime, now) \in {w1, Close(w1, now)}
  BY DEF UpdateVoiceBudget, w0, w1
<1>7. QED
  BY <1>3, <1>5, <1>6

\* What the window takes for a reason to start anew is what the frames tell.
LEMMA RestartsUnlessAlike ==
  ASSUME WindowInv, NEW device, NEW capacity, NEW realtime \in BOOLEAN, NEW now \in Nat,
         window.last \in Nat
  PROVE  Alike(device, capacity, realtime, now) <=> ~WindowRestarts(device, capacity, realtime, now)
<1> DEFINE limit == window.last + GapSeconds * Frequency
<1>1. limit \in Int
  <2>1. GapSeconds \in Nat /\ Frequency \in Nat
    OBVIOUS
  <2>2. GapSeconds * Frequency \in Int
    BY <2>1, SMT
  <2> DEFINE gap == GapSeconds * Frequency
  <2> HIDE DEF gap
  <2>3. window.last + gap \in Int
    BY <2>2, SMT DEF gap
  <2>4. QED
    BY <2>3 DEF gap
<1> HIDE DEF limit
<1>2. (now <= limit <=> ~(now > limit)) /\ (now >= window.last <=> ~(now < window.last))
  BY <1>1, SMT
<1>3. /\ Alike(device, capacity, realtime, now) <=>
           /\ realtime /\ device = window.device /\ capacity = window.capacity
           /\ now >= window.last /\ now <= limit
      /\ WindowRestarts(device, capacity, realtime, now) <=>
           \/ ~realtime \/ window.device # device \/ window.capacity # capacity
           \/ now < window.last \/ now > limit
  BY Zenon DEF Alike, WindowRestarts, WindowInv, limit
<1>4. QED
  BY <1>2, <1>3

\* A call of the update hook: the window and the budget.
LEMMA UpdateKeepsWindow ==
  ASSUME AudioInv, NEW device \in Devices, NEW capacity \in Capacities, NEW active,
         NEW realtime \in BOOLEAN, NEW now \in Nat,
         window' = UpdateVoiceBudget(device, capacity, active, realtime, now),
         budget' = EffectiveVoiceBudget(window'.mode, capacity),
         steady' = [device |-> device, capacity |-> capacity, last |-> now,
                    since |-> IF Alike(device, capacity, realtime, now) /\ window'.mode = window.mode
                                THEN steady.since ELSE now]
  PROVE  /\ window' \in Windows /\ window'.pressure <= window'.frames /\ window'.start <= window'.last
         /\ budget' \in Nat /\ budget' <= window'.capacity
         /\ steady' \in [device : Devices \cup {NoDevice}, capacity : Nat, last : Nat, since : Nat]
         /\ WindowInv'
         /\ window.mode = "full" /\ window'.mode = "reduced" =>
              /\ steady'.last >= steady.since + WindowSeconds * Frequency
              /\ Alike(device, capacity, realtime, now)
<1> DEFINE restarts == WindowRestarts(device, capacity, realtime, now)
           L == WindowSeconds * Frequency
<1>1. /\ window \in Windows /\ window.pressure <= window.frames /\ window.start <= window.last
      /\ steady.since \in Nat /\ steady.since <= window.start /\ window.start \in Nat
  BY AudioTypes, WindowFields DEF AudioInv, HistoryTypeOK, WindowInv
<1>2. /\ window' \in Windows /\ window'.pressure <= window'.frames /\ window'.start <= window'.last
      /\ window'.last = now /\ window'.capacity = capacity
      /\ restarts => window'.start = now /\ window'.mode = "full"
      /\ ~restarts => /\ window.start <= window'.start
                      /\ window'.mode # window.mode => window'.start = now /\ now >= window.start + L
  BY <1>1, WindowUpdated
<1>3. L \in Nat /\ capacity \in Nat /\ window'.start \in Nat
  <2>1. window'.start \in Nat
    BY <1>2 DEF Windows
  <2>2. capacity \in Nat
    OBVIOUS
  <2>3. QED
    BY <2>1, <2>2, WindowLasts
<1>4. budget' \in Nat /\ budget' <= window'.capacity
  BY <1>2, <1>3, BudgetBounded
<1>5. Alike(device, capacity, realtime, now) <=> ~restarts
  BY <1>1, RestartsUnlessAlike, WindowFields DEF AudioInv
<1> HIDE DEF restarts, L
<1> DEFINE since == IF ~restarts /\ window'.mode = window.mode THEN steady.since ELSE now
<1>6. /\ steady' = [device |-> device, capacity |-> capacity, last |-> now, since |-> since]
      /\ since \in Nat
  BY <1>1, <1>5
<1>7. since <= window'.start
  <2>1. CASE restarts \/ window'.mode # window.mode
    BY <1>2, <1>3, <2>1, SMT
  <2>2. CASE ~(restarts \/ window'.mode # window.mode)
    BY <1>1, <1>2, <1>3, <2>2, SMT
  <2>3. QED
    BY <2>1, <2>2
<1>8. ASSUME window.mode = "full", window'.mode = "reduced"
      PROVE  now >= steady.since + L /\ Alike(device, capacity, realtime, now)
  <2>1. ~restarts /\ window'.mode # window.mode
    BY <1>2, <1>8
  <2>2. QED
    BY <1>1, <1>2, <1>3, <1>5, <2>1, SMT
<1> HIDE DEF since
<1>9. /\ steady' \in [device : Devices \cup {NoDevice}, capacity : Nat, last : Nat, since : Nat]
      /\ steady'.device = device /\ steady'.capacity = capacity
      /\ steady'.last = now /\ steady'.since = since
  BY <1>3, <1>6
<1>10. window'.device = device
  BY <1>1, WindowOfDevice
<1>11. WindowInv'
  BY <1>2, <1>7, <1>9, <1>10 DEF WindowInv
<1>12. QED
  BY <1>2, <1>4, <1>8, <1>9, <1>11 DEF L

\* A call of the gathering hook changes the choice of voices only.
LEMMA GatherChoice ==
  ASSUME AudioInv, NEW candidates \in Nat, NEW engineFirst \in Nat,
         GatherWaveInstances(engineFirst, candidates)
  PROVE  /\ gathered'.selected <= gathered'.engine
         /\ gathered'.selected < gathered'.engine => gathered'.selected = budget
<1> DEFINE first == FirstSelectedVoice(engineFirst, candidates)
           picked == candidates - first
           engine == candidates - engineFirst
<1>1. gathered' = [selected |-> picked, engine |-> engine] /\ engineFirst <= candidates
  BY DEF GatherWaveInstances
<1>2. budget \in Nat
  BY DEF AudioInv, AudioTypeOK
<1>3. picked <= engine /\ (picked < engine => picked = budget)
  <2>1. CASE budget = 0
    BY <1>1, <2>1, SMT DEF FirstSelectedVoice
  <2>2. CASE budget # 0 /\ candidates > budget
    BY <1>1, <1>2, <2>2, SMT DEF FirstSelectedVoice, Larger
  <2>3. CASE budget # 0 /\ ~(candidates > budget)
    BY <1>1, <1>2, <2>3, SMT DEF FirstSelectedVoice, Larger
  <2>4. QED
    BY <2>1, <2>2, <2>3
<1> HIDE DEF picked, engine
<1>4. QED
  BY <1>1, <1>3

\* A tick of the run's clock and a number of voices are natural numbers.
LEMMA InputsAreNatural ==
  /\ \A now \in 0 .. MaxTick : now \in Nat
  /\ \A n \in 0 .. MaxCandidates : n \in Nat /\ \A m \in 0 .. n : m \in Nat
BY SMT

(* Every step keeps the invariant: the hook's pass, the gathering of voices and the clock. *)
LEMMA AudioStep == AudioInv /\ [Next]_vars => AudioInv'
<1> SUFFICES ASSUME AudioInv, [Next]_vars PROVE AudioInv'
  OBVIOUS
<1>1. ASSUME NEW device \in Devices, NEW capacity \in Capacities, NEW realtime \in BOOLEAN,
             NEW now \in 0 .. MaxTick, NEW free \in 0 .. capacity,
             AudioUpdate(device, capacity, free, realtime, now)
      PROVE  AudioInv'
  <2>1. now \in Nat
    BY InputsAreNatural
  <2>2. schedule' \in Schedules /\ runs' \in [since : Nat, last : Nat] /\ ScheduleInv'
    BY <1>1, <2>1, UpdateKeepsSchedule DEF AudioUpdate
  <2>3. /\ window' \in Windows /\ window'.pressure <= window'.frames /\ window'.start <= window'.last
        /\ budget' \in Nat /\ budget' <= window'.capacity /\ WindowInv'
        /\ steady' \in [device : Devices \cup {NoDevice}, capacity : Nat, last : Nat, since : Nat]
    BY <1>1, <2>1, UpdateKeepsWindow DEF AudioUpdate
  <2>4. AudioTypeOK'
    BY <2>2, <2>3 DEF AudioTypeOK, Schedules, Windows, Modes
  <2>5. QED
    BY <2>2, <2>3, <2>4 DEF AudioInv, HistoryTypeOK
<1>2. ASSUME UNCHANGED <<schedule, window, budget, runs, steady>> PROVE AudioInv'
  <2>1. AudioTypeOK' /\ HistoryTypeOK' /\ WindowInv'
    BY <1>2 DEF AudioInv, AudioTypeOK, HistoryTypeOK, WindowInv
  <2>2. ScheduleInv'
    BY <1>2 DEF AudioInv, ScheduleInv, Interval, Larger
  <2>3. QED
    BY <2>1, <2>2 DEF AudioInv
<1>3. ASSUME NEW candidates, NEW engineFirst, GatherWaveInstances(engineFirst, candidates) PROVE AudioInv'
  BY <1>2, <1>3 DEF GatherWaveInstances
<1>4. CASE UNCHANGED vars
  BY <1>2, <1>4 DEF vars
<1>5. QED
  BY <1>1, <1>3, <1>4 DEF Next

\* The invariant holds in every reachable state.
LEMMA AudioInvariant == Spec => []AudioInv
<1>1. QED
  BY AudioInitial, AudioStep, PTL DEF Spec

-----------------------------------------------------------------------------
(***************************************************************************)
(* The theorems.                                                           *)
(***************************************************************************)
\* The schedule, the voice window and the budget keep their types.
THEOREM AudioTypeCorrect == Spec => []AudioTypeOK
<1>1. AudioInv => AudioTypeOK
  BY DEF AudioInv
<1>2. QED
  BY <1>1, AudioInvariant, PTL

\* UAudioDevice::Update never falls behind: an interval after the engine's last
\* pass no frame is skipped any more.
THEOREM AudioNotStarved == Spec => []PassNotStarved
<1>1. AudioInv => PassNotStarved
  <2> SUFFICES ASSUME AudioInv, schedule.initialized PROVE schedule.last < runs.last + Interval
    BY DEF PassNotStarved
  <2>1. PICK n \in Nat : runs.since + n * Interval <= runs.last /\ schedule.next = runs.since + n * Interval + Interval
    BY DEF AudioInv, ScheduleInv
  <2>2. /\ schedule.last < schedule.next /\ Interval \in Nat /\ n * Interval \in Nat
        /\ schedule.last \in Nat /\ schedule.next \in Nat /\ runs.since \in Nat /\ runs.last \in Nat
    <3>1. Interval \in Nat
      BY IntervalIsPositive
    <3> HIDE DEF Interval
    <3>2. n * Interval \in Nat
      BY <3>1, SMT
    <3>3. QED
      BY <3>1, <3>2, AudioTypes DEF AudioInv, ScheduleInv, HistoryTypeOK, Schedules
  <2> DEFINE k == n * Interval
             i == Interval
  <2>3. /\ runs.since + k <= runs.last /\ schedule.next = runs.since + k + i /\ k \in Nat /\ i \in Nat
    BY <2>1, <2>2
  <2> HIDE DEF k, i
  <2>4. schedule.last < runs.last + i
    BY <2>2, <2>3, SMT
  <2>5. QED
    BY <2>4 DEF i
<1>2. QED
  BY <1>1, AudioInvariant, PTL

\* The hook runs the engine's pass at most once in each interval counted from
\* the start of the schedule, at the frame rates of any machine.
THEOREM AudioPaced == Spec => PassesPaced
<1> DEFINE A == (/\ pass = NoPass /\ pass' # NoPass
                 /\ schedule.initialized /\ schedule'.initialized
                 /\ schedule'.device = schedule.device /\ schedule'.last >= schedule.last)
                => Slot(schedule'.last) > Slot(runs.last)
<1>1. AudioInv /\ [Next]_vars => [A]_vars
  <2> SUFFICES ASSUME AudioInv, Next, pass = NoPass, pass' # NoPass,
                      schedule.initialized, schedule'.initialized,
                      schedule'.device = schedule.device, schedule'.last >= schedule.last
               PROVE  Slot(schedule'.last) > Slot(runs.last)
    OBVIOUS
  <2>1. PICK device \in Devices, capacity \in Capacities, realtime \in BOOLEAN, now \in 0 .. MaxTick :
          \E free : AudioUpdate(device, capacity, free, realtime, now)
    BY DEF Next, GatherWaveInstances
  <2>2. now \in Nat /\ schedule' = ShouldRunUpdate(device, realtime, now)
    BY <2>1, InputsAreNatural DEF AudioUpdate
  <2>3. /\ schedule \in Schedules /\ runs.since \in Nat /\ runs.last \in Nat
        /\ schedule.next \in Nat /\ schedule.last \in Nat /\ runs.since <= runs.last
    BY AudioTypes DEF AudioInv, HistoryTypeOK, Schedules, ScheduleInv
  <2>4. realtime
    <3>1. CASE ~realtime
      <4>1. schedule' = Unscheduled
        BY <2>2, <2>3, <3>1, ScheduleUpdated
      <4>2. QED
        BY <4>1 DEF Unscheduled
    <3>2. QED
      BY <3>1
  <2>5. schedule'.device = device /\ schedule'.last = now
    <3>1. CASE Restarts(device, now)
      <4>1. schedule' = Started(device, now)
        BY <2>2, <2>3, <2>4, <3>1, ScheduleUpdated
      <4>2. QED
        BY <4>1 DEF Started
    <3>2. CASE ~Restarts(device, now) /\ now >= schedule.next
      <4>1. schedule' = [device |-> device, next |-> NextDeadline(now), last |-> now, initialized |-> TRUE]
        BY <2>2, <2>3, <2>4, <3>2, ScheduleUpdated
      <4> HIDE DEF NextDeadline
      <4>2. QED
        BY <4>1
    <3>3. CASE ~Restarts(device, now) /\ ~(now >= schedule.next)
      <4>1. schedule' = [device |-> device, next |-> schedule.next, last |-> now, initialized |-> TRUE]
        BY <2>2, <2>3, <2>4, <3>3, ScheduleUpdated
      <4>2. QED
        BY <4>1
    <3>4. QED
      BY <3>1, <3>2, <3>3
  <2>6. ~Restarts(device, now)
    BY <2>2, <2>3, <2>5, SMT DEF Restarts
  <2>7. now >= schedule.next
    BY <2>1, <2>4, <2>6 DEF AudioUpdate, Due
  <2>8. PICK n \in Nat : runs.since + n * Interval <= runs.last /\ schedule.next = runs.since + n * Interval + Interval
    BY DEF AudioInv, ScheduleInv
  <2>9. runs.last < schedule.next
    BY <2>3, SMT DEF AudioInv, ScheduleInv
  <2> DEFINE I == Interval
             a == runs.last - runs.since
             b == now - runs.since
  <2>10. /\ I \in Nat \ {0} /\ n * I \in Nat /\ (n + 1) * I = n * I + I /\ n + 1 \in Nat
    <3>1. I \in Nat \ {0}
      BY IntervalIsPositive
    <3> HIDE DEF I
    <3>2. QED
      BY <3>1, SMT
  <2>11. /\ a \in Nat /\ b \in Nat /\ ~((n + 1) * I <= a) /\ (n + 1) * I <= b
    <3>1. schedule.next = runs.since + n * I + I
      BY <2>8
    <3> HIDE DEF I
    <3>2. QED
      BY <2>2, <2>3, <2>7, <2>9, <2>10, <3>1, SMT
  <2> HIDE DEF I, a, b
  <2>12. ~(n + 1 <= a \div I) /\ n + 1 <= b \div I
    BY <2>10, <2>11, QuotientOrder
  <2>13. b \div I > a \div I
    <3>1. a \div I \in Nat /\ b \div I \in Nat
      BY <2>10, <2>11, Quotient
    <3>2. QED
      BY <2>10, <2>12, <3>1, SMT
  <2>14. QED
    BY <2>5, <2>13 DEF Slot, a, b, I
<1>2. QED
  BY <1>1, AudioInvariant, PTL DEF Spec, PassesPaced

\* GatherWaveInstancesHook takes voices away and never adds one, and what it
\* leaves when it cuts is exactly the budget, which fits the device.
THEOREM AudioVoicesOnlyReduced == Spec => VoicesOnlyReduced
<1> DEFINE A == /\ budget' <= window'.capacity
                /\ gathered' # gathered =>
                     /\ gathered'.selected <= gathered'.engine
                     /\ gathered'.selected < gathered'.engine => gathered'.selected = budget
<1>1. AudioInv /\ [Next]_vars => [A]_vars
  <2> SUFFICES ASSUME AudioInv, Next PROVE A
    OBVIOUS
  <2>1. AudioInv'
    BY AudioStep
  <2>2. budget' <= window'.capacity
    BY <2>1 DEF AudioInv, AudioTypeOK
  <2>3. ASSUME NEW device \in Devices, NEW capacity \in Capacities, NEW realtime \in BOOLEAN,
               NEW now \in 0 .. MaxTick, NEW free \in 0 .. capacity,
               AudioUpdate(device, capacity, free, realtime, now)
        PROVE  gathered'.selected = 0 /\ gathered'.engine = 0
    BY <2>3 DEF AudioUpdate, NoVoices
  <2>4. ASSUME NEW candidates \in 0 .. MaxCandidates, NEW engineFirst \in 0 .. candidates,
               GatherWaveInstances(engineFirst, candidates)
        PROVE  /\ gathered'.selected <= gathered'.engine
               /\ gathered'.selected < gathered'.engine => gathered'.selected = budget
    BY <2>4, InputsAreNatural, GatherChoice
  <2>5. \/ gathered'.selected = 0 /\ gathered'.engine = 0
        \/ /\ gathered'.selected <= gathered'.engine
           /\ gathered'.selected < gathered'.engine => gathered'.selected = budget
    BY <2>3, <2>4 DEF Next
  <2>6. QED
    BY <2>2, <2>5, SMT
<1>2. QED
  BY <1>1, AudioInvariant, PTL DEF Spec, VoicesOnlyReduced

\* UpdateVoiceBudget cuts voices only after frames that were alike, without a
\* gap and without a change of the mode, for the whole length of a window.
THEOREM AudioModesLast == Spec => ModesLast
<1> DEFINE A == window.mode = "full" /\ window'.mode = "reduced" =>
                  /\ steady'.last >= steady.since + WindowSeconds * Frequency
                  /\ steady'.device = steady.device /\ steady'.capacity = steady.capacity
                  /\ steady'.last >= steady.last
                  /\ steady'.last <= steady.last + GapSeconds * Frequency
<1>1. AudioInv /\ [Next]_vars => [A]_vars
  <2> SUFFICES ASSUME AudioInv, Next PROVE A
    OBVIOUS
  <2>1. ASSUME NEW device \in Devices, NEW capacity \in Capacities, NEW realtime \in BOOLEAN,
               NEW now \in 0 .. MaxTick, NEW free \in 0 .. capacity,
               AudioUpdate(device, capacity, free, realtime, now)
        PROVE  A
    <3>1. /\ steady'.device = device /\ steady'.capacity = capacity /\ steady'.last = now
          /\ now \in Nat
      BY <2>1, InputsAreNatural DEF AudioUpdate
    <3>2. window.mode = "full" /\ window'.mode = "reduced" =>
            /\ steady'.last >= steady.since + WindowSeconds * Frequency
            /\ Alike(device, capacity, realtime, now)
      BY <2>1, <3>1, UpdateKeepsWindow DEF AudioUpdate
    <3>3. QED
      BY <3>1, <3>2, Zenon DEF Alike
  <2>2. ASSUME NEW candidates, NEW engineFirst, GatherWaveInstances(engineFirst, candidates)
        PROVE  A
    BY <2>2 DEF GatherWaveInstances
  <2>3. QED
    BY <2>1, <2>2 DEF Next
<1>2. QED
  BY <1>1, AudioInvariant, PTL DEF Spec, ModesLast

=============================================================================
