----------------------------- MODULE AudioUpdate -----------------------------
(***************************************************************************)
(* The audio pacing patch (AudioUpdatePerformancePatch.cpp,                *)
(* AudioUpdatePolicy.hpp): the hook of UAudioDevice::Update runs the       *)
(* engine's pass at most 60 times a second, and the hook of                *)
(* GatherWaveInstances limits the voices while the frame rate is low.      *)
(* Schedule and window are thread-local, and one thread updates audio.     *)
(***************************************************************************)
EXTENDS Naturals

CONSTANTS
  Devices,         \* audio devices
  NoDevice,        \* the null pointer
  Capacities,      \* source counts a device may have
  Frequency,       \* ticks of the performance counter per second
  UpdatesPerSecond, ReducedVoiceBudget, ReduceBelow, RestoreAbove,  \* AudioUpdatePolicy.hpp
  WindowSeconds, GapSeconds,                                        \* k...Seconds
  MaxTick,         \* bound: last reading of the counter in a run
  MaxFrames,       \* bound: frames in a window
  MaxCandidates    \* bound: voices that compete for sources

ASSUME AudioConstants ==
  /\ NoDevice \notin Devices
  /\ Capacities \subseteq Nat
  /\ {Frequency, UpdatesPerSecond, WindowSeconds} \subseteq Nat \ {0}
  /\ {ReducedVoiceBudget, ReduceBelow, RestoreAbove, GapSeconds, MaxTick, MaxFrames,
      MaxCandidates} \subseteq Nat

VARIABLES
  schedule,    \* g_updateSchedule
  window,      \* g_voiceWindow
  budget,      \* g_effectiveVoiceBudget
  pass,        \* the engine's pass in progress, or none
  gathered,    \* the voices the pass chose, and those the engine had chosen
  runs,        \* history: when the schedule started, and the last pass
  steady       \* history: the last frame, and since when frames were alike without a change of mode

vars == <<schedule, window, budget, pass, gathered, runs, steady>>

Unscheduled == [device |-> NoDevice, next |-> 0, last |-> 0, initialized |-> FALSE]

FreshWindow(device, capacity, now) ==
  [device |-> device, capacity |-> capacity, mode |-> "full",
   start |-> now, last |-> now, frames |-> 0, pressure |-> 0]

NoPass == [device |-> NoDevice, capacity |-> 0]
NoVoices == [selected |-> 0, engine |-> 0]

-----------------------------------------------------------------------------
(***************************************************************************)
(* The schedule.                                                           *)
(***************************************************************************)
Larger(a, b) == IF a > b THEN a ELSE b

Interval == Larger(1, Frequency \div UpdatesPerSecond)

\* The first call for a device, and every call after the counter went back.
Restarts(device, now) ==
  \/ ~schedule.initialized \/ schedule.device # device \/ now < schedule.last

Started(device, now) ==
  [device |-> device, next |-> now + Interval, last |-> now, initialized |-> TRUE]

Due(device, now) == Restarts(device, now) \/ now >= schedule.next

\* Deliberate fault, used by no specification: missed deadlines are caught up.
NextOneInterval(now) == schedule.next + Interval

\* Deliberate fault, used by no specification: one deadline too far.
SkipOneDeadline(now) == schedule.next + ((now - schedule.next) \div Interval + 2) * Interval

\* The first multiple of the interval after now, counted from the deadline.
NextDeadline(now) == schedule.next + ((now - schedule.next) \div Interval + 1) * Interval

ShouldRunUpdate(device, realtime, now) ==
  CASE ~realtime -> Unscheduled
    [] realtime /\ Restarts(device, now) -> Started(device, now)
    [] realtime /\ ~Restarts(device, now) /\ Due(device, now) ->
         [schedule EXCEPT !.last = now, !.next = NextDeadline(now)]
    [] realtime /\ ~Due(device, now) -> [schedule EXCEPT !.last = now]

-----------------------------------------------------------------------------
(***************************************************************************)
(* The voice budget.                                                       *)
(***************************************************************************)
HasSustainedVoicePressure(w) == w.frames # 0 /\ w.pressure * 2 >= w.frames

\* Frames per second below or above a limit, over the elapsed ticks.
Slower(w, elapsed) == w.frames * Frequency < ReduceBelow * elapsed
Faster(w, elapsed) == w.frames * Frequency > RestoreAbove * elapsed

SelectVoiceMode(w, elapsed) ==
  CASE w.mode = "full" /\ HasSustainedVoicePressure(w) /\ Slower(w, elapsed) -> "reduced"
    [] w.mode = "reduced" /\ Faster(w, elapsed) -> "full"
    [] OTHER -> w.mode

EffectiveVoiceBudget(mode, capacity) ==
  IF mode = "reduced" /\ capacity > ReducedVoiceBudget THEN ReducedVoiceBudget ELSE capacity

\* Deliberate fault, used by no specification: a device that gains or loses
\* sources goes unnoticed.
RestartsByDevice(device, capacity, realtime, now) ==
  \/ ~realtime \/ window.device # device
  \/ now < window.last \/ now > window.last + GapSeconds * Frequency

WindowRestarts(device, capacity, realtime, now) ==
  \/ ~realtime \/ window.device # device \/ window.capacity # capacity
  \/ now < window.last \/ now > window.last + GapSeconds * Frequency

Counted(w, active, now) ==
  [w EXCEPT !.last = now, !.frames = @ + 1,
            !.pressure = IF active > ReducedVoiceBudget THEN @ + 1 ELSE @]

Close(w, now) ==
  [w EXCEPT !.mode = SelectVoiceMode(w, now - w.start),
            !.start = now, !.frames = 0, !.pressure = 0]

\* Deliberate fault, used by no specification: the gap's length, not the window's.
UpdateAfterGap(device, capacity, active, realtime, now) ==
  LET w == Counted(IF WindowRestarts(device, capacity, realtime, now)
                     THEN FreshWindow(device, capacity, now) ELSE window, active, now)
  IN  IF now - w.start >= GapSeconds * Frequency THEN Close(w, now) ELSE w

UpdateVoiceBudget(device, capacity, active, realtime, now) ==
  LET w == Counted(IF WindowRestarts(device, capacity, realtime, now)
                     THEN FreshWindow(device, capacity, now) ELSE window, active, now)
  IN  IF now - w.start >= WindowSeconds * Frequency THEN Close(w, now) ELSE w

-----------------------------------------------------------------------------
(***************************************************************************)
(* The hooks.                                                              *)
(***************************************************************************)
\* History: a frame like the one before it, whatever the window says: of the
\* same device with as many sources, in realtime, not earlier and without a gap.
Alike(device, capacity, realtime, now) ==
  /\ realtime /\ device = steady.device /\ capacity = steady.capacity
  /\ now >= steady.last /\ now <= steady.last + GapSeconds * Frequency

\* CommonAudioUpdateHook: the engine's pass starts, or is skipped this frame.
AudioUpdate(device, capacity, free, realtime, now) ==
  LET run == ~realtime \/ Due(device, now)
      active == capacity - free
  IN
  /\ pass = NoPass
  /\ window' = UpdateVoiceBudget(device, capacity, active, realtime, now)
  /\ window'.frames <= MaxFrames
  /\ budget' = EffectiveVoiceBudget(window'.mode, capacity)
  /\ schedule' = ShouldRunUpdate(device, realtime, now)
  /\ pass' = IF run THEN [device |-> device, capacity |-> capacity] ELSE NoPass
  /\ runs' = IF run THEN [since |-> IF realtime /\ ~Restarts(device, now)
                                      THEN runs.since ELSE now,
                           last |-> now] ELSE runs
  /\ steady' = [device |-> device, capacity |-> capacity, last |-> now,
                 since |-> IF Alike(device, capacity, realtime, now) /\ window'.mode = window.mode
                             THEN steady.since ELSE now]
  /\ gathered' = NoVoices

\* Deliberate fault, used by no specification: the engine's choice is replaced.
BudgetOnly(engineFirst, candidates) ==
  IF budget <= 0 THEN candidates ELSE IF candidates > budget THEN candidates - budget ELSE 0

FirstSelectedVoice(engineFirst, candidates) ==
  IF budget = 0 THEN candidates
  ELSE Larger(IF candidates > budget THEN candidates - budget ELSE 0,
              IF engineFirst < candidates THEN engineFirst ELSE candidates)

\* GatherWaveInstancesHook, inside the pass: the engine's own result leaves no
\* more voices than the device has sources.
GatherWaveInstances(engineFirst, candidates) ==
  /\ pass # NoPass
  /\ engineFirst <= candidates /\ candidates - engineFirst <= pass.capacity
  /\ gathered' = [selected |-> candidates - FirstSelectedVoice(engineFirst, candidates),
                  engine |-> candidates - engineFirst]
  /\ pass' = NoPass
  /\ UNCHANGED <<schedule, window, budget, runs, steady>>

Init ==
  /\ schedule = Unscheduled
  /\ window = FreshWindow(NoDevice, 0, 0)
  /\ budget = 0
  /\ pass = NoPass
  /\ gathered = NoVoices
  /\ runs = [since |-> 0, last |-> 0]
  /\ steady = [device |-> NoDevice, capacity |-> 0, last |-> 0, since |-> 0]

\* The counter seldom goes back; the code is written for when it does.
Next ==
  \/ \E device \in Devices, capacity \in Capacities, realtime \in BOOLEAN,
        now \in 0 .. MaxTick :
       \E free \in 0 .. capacity : AudioUpdate(device, capacity, free, realtime, now)
  \/ \E candidates \in 0 .. MaxCandidates : \E engineFirst \in 0 .. candidates :
       GatherWaveInstances(engineFirst, candidates)

Spec == Init /\ [][Next]_vars

-----------------------------------------------------------------------------
(***************************************************************************)
(* Properties.                                                             *)
(***************************************************************************)
\* The schedule, the window and the budget have their types.
AudioTypeOK ==
  /\ schedule \in [device : Devices \cup {NoDevice}, next : Nat, last : Nat,
                   initialized : BOOLEAN]
  /\ window \in [device : Devices \cup {NoDevice}, capacity : Capacities \cup {0},
                 mode : {"full", "reduced"}, start : Nat, last : Nat,
                 frames : Nat, pressure : Nat]
  /\ window.pressure <= window.frames /\ window.start <= window.last
  /\ budget \in Nat /\ budget <= window.capacity

\* The engine's pass is paced: counted from the start of the schedule, two
\* passes never share an interval, however irregular the frames are, ...
Slot(tick) == (tick - runs.since) \div Interval

PassesPaced ==
  [][(/\ pass = NoPass /\ pass' # NoPass
      /\ schedule.initialized /\ schedule'.initialized
      /\ schedule'.device = schedule.device /\ schedule'.last >= schedule.last)
     => Slot(schedule'.last) > Slot(runs.last)]_vars

\* ... and it never falls behind: a frame that comes an interval or more after
\* the last pass is not skipped, even after a long stall.
PassNotStarved ==
  schedule.initialized => schedule.last < runs.last + Interval

\* The patch only takes voices away, and never more than the budget says: with
\* a full budget the engine's own choice stands.  The budget is that of the
\* device as it is now, also when the device has just lost sources.
VoicesOnlyReduced ==
  [][/\ budget' <= window'.capacity
     /\ gathered' # gathered =>
       /\ gathered'.selected <= gathered'.engine
       /\ gathered'.selected < gathered'.engine => gathered'.selected = budget]_vars

\* Voices are not cut on a moment's evidence: for the length of a window, the
\* mode has not changed and every frame was of the device and the capacity whose
\* voices are cut now, in realtime, in order and without a gap.  What the
\* window kept from before a change of any of these would show here.
ModesLast ==
  [][window.mode = "full" /\ window'.mode = "reduced" =>
       /\ steady'.last >= steady.since + WindowSeconds * Frequency
       /\ steady'.device = steady.device /\ steady'.capacity = steady.capacity
       /\ steady'.last >= steady.last /\ steady'.last <= steady.last + GapSeconds * Frequency]_vars
=============================================================================
