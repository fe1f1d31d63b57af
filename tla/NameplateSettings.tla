--------------------------- MODULE NameplateSettings ---------------------------
(***************************************************************************)
(* The nameplates' ini file, polled once a second while plates are drawn   *)
(* (SpectatorNameplateSettings.cpp).  The file's state is read first, then *)
(* its keys one by one, each by a call that opens the file again: an       *)
(* editor may save or delete the file between any two of them.             *)
(***************************************************************************)
EXTENDS Integers, Sequences

CONSTANTS
  Values,       \* integers a key may have
  Interval,     \* kReloadIntervalMs, in ticks
  TickModulus,  \* bound: GetTickCount wraps here
  MaxGap,       \* bound: ticks between two frames
  MaxEdits      \* bound: times the file is saved or deleted

\* The interval is one second, and the count wraps after 49 days.
ASSUME SettingsAssumption ==
  /\ Interval \in Nat /\ MaxGap \in Nat /\ TickModulus \in Nat /\ MaxEdits \in Nat
  /\ Interval + MaxGap < TickModulus

VARIABLES
  now,          \* GetTickCount()
  file,         \* [exists, stamp, keys]; stamp stands for write time and size
  edits,        \* edits so far
  lastLoad, initialised, loadedFile, loadedState, \* the function's statics
  current,      \* s_current
  reading,      \* the keys a load in progress has still to read
  elapsed,      \* ticks since the last poll, without wrapping
  unseen        \* the file changed since its state was last read

settingsVars == <<now, file, edits, lastLoad, initialised, loadedFile, loadedState,
                  current, reading, elapsed, unseen>>

NoKeys == [k \in {} |-> 0]

\* One key of each kind, in the order they are read: a scale, a channel and
\* an enumeration.
Keys == <<"ScalePercent", "ShadowAlpha", "Font">>
Defaults == [ScalePercent |-> 160, ShadowAlpha |-> 200, Font |-> 1]

\* GetPrivateProfileIntA, then the clamp of the key.
ReadInt(f, key) == IF f.exists /\ key \in DOMAIN f.keys THEN f.keys[key] ELSE Defaults[key]
Clamped(key, value) ==
  CASE key = "ScalePercent" -> IF value < 1 THEN Defaults[key] ELSE IF value > 400 THEN 400 ELSE value
    [] key = "ShadowAlpha" -> IF value < 0 THEN 0 ELSE IF value > 255 THEN 255 ELSE value
    [] key = "Font" -> IF value \in 0..2 THEN value ELSE Defaults[key]
Parsed(f) == [key \in DOMAIN Defaults |-> Clamped(key, ReadInt(f, key))]

Due == ~initialised \/ (now - lastLoad) % TickModulus >= Interval

\* Between its calls the function is not running.
Get ==
  /\ reading = <<>> /\ Due
  /\ lastLoad' = now /\ initialised' = TRUE /\ elapsed' = 0 /\ unseen' = FALSE
  /\ IF ~file.exists
       THEN /\ current' = IF loadedFile THEN Parsed(file) ELSE current
            /\ loadedFile' = FALSE
            /\ UNCHANGED <<loadedState, reading>>
     ELSE IF loadedFile /\ file.stamp = loadedState
       THEN UNCHANGED <<current, loadedFile, loadedState, reading>>
     ELSE /\ loadedState' = file.stamp /\ loadedFile' = TRUE
          /\ reading' = Keys
          /\ UNCHANGED current
  /\ UNCHANGED <<now, file, edits>>

\* Deliberate fault, used by no specification: the state recorded is the one
\* after the keys were read.
ReadKeyThenState ==
  /\ reading # <<>>
  /\ current' = [current EXCEPT ![Head(reading)] = Clamped(Head(reading), ReadInt(file, Head(reading)))]
  /\ reading' = Tail(reading)
  /\ loadedState' = IF Len(reading) = 1 THEN file.stamp ELSE loadedState
  /\ UNCHANGED <<now, file, edits, lastLoad, initialised, loadedFile, elapsed, unseen>>

ReadKey ==
  /\ reading # <<>>
  /\ current' = [current EXCEPT ![Head(reading)] = Clamped(Head(reading), ReadInt(file, Head(reading)))]
  /\ reading' = Tail(reading)
  /\ UNCHANGED <<now, file, edits, lastLoad, initialised, loadedFile, loadedState, elapsed, unseen>>

\* Somebody saves the file; no two states of the file have one stamp.
Save == /\ edits < MaxEdits
        /\ edits' = edits + 1
        /\ \E known \in SUBSET DOMAIN Defaults : \E keys \in [known -> Values] :
             file' = [exists |-> TRUE, stamp |-> edits + 1, keys |-> keys]
        /\ unseen' = TRUE
        /\ UNCHANGED <<now, lastLoad, initialised, loadedFile, loadedState, current, reading, elapsed>>

Delete == /\ edits < MaxEdits /\ file.exists
          /\ edits' = edits + 1
          /\ file' = [exists |-> FALSE, stamp |-> 0, keys |-> NoKeys]
          /\ unseen' = TRUE
          /\ UNCHANGED <<now, lastLoad, initialised, loadedFile, loadedState, current, reading, elapsed>>

\* Time passes; frames are never further apart than MaxGap.
Tick == /\ elapsed < Interval + MaxGap
        /\ now' = (now + 1) % TickModulus
        /\ elapsed' = elapsed + 1
        /\ UNCHANGED <<file, edits, lastLoad, initialised, loadedFile, loadedState, current, reading, unseen>>

SettingsInit ==
  /\ now \in 0..TickModulus - 1
  /\ file = [exists |-> FALSE, stamp |-> 0, keys |-> NoKeys]
  /\ edits = 0 /\ lastLoad = 0 /\ initialised = FALSE /\ loadedFile = FALSE /\ loadedState = 0
  /\ current = Defaults /\ reading = <<>> /\ elapsed = 0 /\ unseen = TRUE

SettingsNext == Get \/ ReadKey \/ Save \/ Delete \/ Tick

-----------------------------------------------------------------------------
\* However the file is saved and deleted while its keys are being read, the
\* settings are the file's once a poll found nothing new in it; a poll is
\* due a second after the last, also when the tick count wraps.
SettingsCatchUp ==
  /\ (reading = <<>> /\ ~unseen) => current = Parsed(file)
  /\ (initialised /\ elapsed >= Interval) => Due
=============================================================================
