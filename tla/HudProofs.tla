------------------------------- MODULE HudProofs -------------------------------
(***************************************************************************)
(* Proofs about what the patches draw on the HUD and about the settings    *)
(* file of the nameplates, for any fonts, texts, windows and settings, any *)
(* number of players and of edits of the file.                             *)
(***************************************************************************)
EXTENDS MCHud, FiniteSetTheorems, SequenceTheorems, TLAPS

-----------------------------------------------------------------------------
(***************************************************************************)
(* The settings file.                                                      *)
(***************************************************************************)
NoFile == [exists |-> FALSE, stamp |-> 0, keys |-> NoKeys]

\* The keys a load has still to read, from the first to none.
KeysLeft == {Keys, <<"ShadowAlpha", "Font">>, <<"Font">>, <<>>}
HasEveryKey(settings) == settings = [key \in DOMAIN Defaults |-> settings[key]]
IsLeft(key) == \E i \in 1 .. Len(reading) : reading[i] = key

SettingsTypeOK ==
  /\ now \in 0 .. TickModulus - 1 /\ lastLoad \in 0 .. TickModulus - 1
  /\ elapsed \in 0 .. Interval + MaxGap
  /\ edits \in Nat /\ file.stamp \in Nat /\ loadedState \in Nat
  /\ file.exists \in BOOLEAN /\ initialised \in BOOLEAN /\ loadedFile \in BOOLEAN
  /\ unseen \in BOOLEAN
  /\ HasEveryKey(current)
  /\ reading \in KeysLeft

\* No state of the file is taken for a later one.
StampsInv == file.stamp <= edits /\ loadedState <= edits

\* What has been read of the file as it is now is what it says.
LoadedInv ==
  /\ ~loadedFile => reading = <<>> /\ current = Parsed(NoFile)
  /\ loadedFile /\ file.exists /\ file.stamp = loadedState =>
       \A key \in DOMAIN Defaults : IsLeft(key) \/ current[key] = Parsed(file)[key]
  /\ ~unseen => IF file.exists THEN loadedFile /\ loadedState = file.stamp ELSE ~loadedFile

\* The time since the last poll, whether or not the count has wrapped.
PolledInv ==
  initialised => now = lastLoad + elapsed \/ now = lastLoad + elapsed - TickModulus

SettingsInv == SettingsTypeOK /\ StampsInv /\ LoadedInv /\ PolledInv

\* A remainder, within the modulus or one modulus below.
LEMMA Remainder ==
  ASSUME NEW m \in Nat, NEW x \in 0 .. m - 1
  PROVE  x % m = x /\ (x - m) % m = x /\ m % m = 0
  BY SMT

\* Reading keys ends with none.
LEMMA KeysRead ==
  ASSUME NEW left \in KeysLeft, left # <<>>
  PROVE  /\ Head(left) \in DOMAIN Defaults /\ Tail(left) \in KeysLeft
         /\ \A key : (\E i \in 1 .. Len(left) : left[i] = key) =>
               key = Head(left) \/ \E i \in 1 .. Len(Tail(left)) : Tail(left)[i] = key
<1>1. CASE left = Keys
  <2>1. Head(left) = "ScalePercent" /\ Tail(left) = <<"ShadowAlpha", "Font">>
    BY <1>1 DEF Keys
  <2>2. QED
    BY <1>1, <2>1 DEF KeysLeft, Keys, Defaults
<1>2. CASE left = <<"ShadowAlpha", "Font">>
  <2>1. Head(left) = "ShadowAlpha" /\ Tail(left) = <<"Font">>
    BY <1>2
  <2>2. QED
    BY <1>2, <2>1 DEF KeysLeft, Keys, Defaults
<1>3. CASE left = <<"Font">>
  <2>1. Head(left) = "Font" /\ Tail(left) = <<>>
    BY <1>3
  <2>2. QED
    BY <1>3, <2>1 DEF KeysLeft, Keys, Defaults
<1>4. QED
  BY <1>1, <1>2, <1>3 DEF KeysLeft

\* A file that is not there says what the defaults say.
LEMMA AbsentFile ==
  ASSUME NEW f, ~f.exists
  PROVE  Parsed(f) = Parsed(NoFile)
  BY DEF Parsed, ReadInt, NoFile

\* The defaults are within their own bounds.
LEMMA DefaultsKept == Parsed(NoFile) = Defaults
<1>1. DOMAIN Defaults = {"ScalePercent", "ShadowAlpha", "Font"}
  BY DEF Defaults
<1>2. ASSUME NEW key \in DOMAIN Defaults
      PROVE  Clamped(key, ReadInt(NoFile, key)) = Defaults[key]
  BY <1>1, <1>2 DEF Clamped, ReadInt, NoFile, Defaults
<1>3. Defaults = [key \in DOMAIN Defaults |-> Defaults[key]]
  BY DEF Defaults
<1>4. QED
  BY <1>2, <1>3 DEF Parsed

\* The first poll is due, and nothing has been read.
LEMMA SettingsInitial == SettingsInit => SettingsInv
<1> SUFFICES ASSUME SettingsInit PROVE SettingsInv
  OBVIOUS
<1>1. SettingsTypeOK
  <2>1. now \in 0 .. TickModulus - 1 /\ lastLoad \in 0 .. TickModulus - 1
        /\ elapsed \in 0 .. Interval + MaxGap
    BY SettingsAssumption DEF SettingsInit
  <2>2. HasEveryKey(current)
    BY DEF SettingsInit, HasEveryKey, Defaults
  <2>3. edits \in Nat /\ file.stamp \in Nat /\ loadedState \in Nat /\ file.exists \in BOOLEAN
        /\ initialised \in BOOLEAN /\ loadedFile \in BOOLEAN /\ unseen \in BOOLEAN
    BY DEF SettingsInit
  <2>4. reading \in KeysLeft
    BY DEF SettingsInit, KeysLeft
  <2>5. QED
    BY <2>1, <2>2, <2>3, <2>4 DEF SettingsTypeOK
<1>2. LoadedInv
  BY DefaultsKept DEF SettingsInit, LoadedInv, NoFile
<1>3. QED
  BY <1>1, <1>2 DEF SettingsInit, SettingsInv, StampsInv, PolledInv

\* A poll notes the state of the file it saw.
LEMMA GetKeeps == SettingsInv /\ Get => SettingsInv'
<1> SUFFICES ASSUME SettingsInv, Get PROVE SettingsInv'
  OBVIOUS
<1> USE DEF SettingsInv, SettingsTypeOK, StampsInv, LoadedInv, PolledInv
<1>1. PolledInv' /\ StampsInv'
  BY SettingsAssumption DEF Get
<1>0. /\ now' \in 0 .. TickModulus - 1 /\ lastLoad' \in 0 .. TickModulus - 1
      /\ elapsed' \in 0 .. Interval + MaxGap
      /\ edits' \in Nat /\ file' = file /\ initialised' \in BOOLEAN /\ unseen' \in BOOLEAN
  <2>1. /\ lastLoad' = now /\ initialised' = TRUE /\ elapsed' = 0 /\ unseen' = FALSE
        /\ UNCHANGED <<now, file, edits>>
    BY DEF Get
  <2>2. initialised' \in BOOLEAN /\ unseen' \in BOOLEAN
    BY <2>1, Zenon
  <2>3. /\ now' \in 0 .. TickModulus - 1 /\ lastLoad' \in 0 .. TickModulus - 1
        /\ elapsed' \in 0 .. Interval + MaxGap /\ edits' \in Nat
    BY <2>1, SettingsAssumption
  <2>4. QED
    BY <2>1, <2>2, <2>3
<1>2. CASE ~file.exists
  <2>1. current' = Parsed(file)
    BY <1>2, AbsentFile DEF Get
  <2>2. current' = Parsed(NoFile) /\ loadedFile' = FALSE /\ reading' = <<>> /\ loadedState' = loadedState
    BY <1>2, <2>1, AbsentFile DEF Get
  <2>3. SettingsTypeOK'
    <3>1. HasEveryKey(current)'
      BY <2>1 DEF Parsed, HasEveryKey
    <3>2. reading' \in KeysLeft
      BY <2>2 DEF KeysLeft
    <3>3. QED
      BY <1>0, <2>2, <3>1, <3>2
  <2>4. LoadedInv'
    BY <1>2, <2>2 DEF Get
  <2>5. QED
    BY <1>1, <2>3, <2>4
<1>3. CASE file.exists /\ loadedFile /\ file.stamp = loadedState
  <2>1. UNCHANGED <<file, current, loadedFile, loadedState, reading>>
    BY <1>3 DEF Get
  <2>2. SettingsTypeOK'
    <3>1. HasEveryKey(current)'
      BY <2>1 DEF HasEveryKey
    <3>2. QED
      BY <1>0, <2>1, <3>1
  <2>3. LoadedInv'
    BY <1>3, <2>1 DEF Parsed, ReadInt, IsLeft
  <2>4. QED
    BY <1>1, <2>2, <2>3
<1>4. CASE file.exists /\ ~(loadedFile /\ file.stamp = loadedState)
  <2>1. loadedState' = file.stamp /\ loadedFile' /\ reading' = Keys /\ current' = current
        /\ loadedFile' \in BOOLEAN /\ file' = file
    BY <1>4 DEF Get
  <2>2. SettingsTypeOK'
    <3>1. HasEveryKey(current)' /\ reading' \in KeysLeft
      BY <2>1 DEF HasEveryKey, KeysLeft
    <3>2. QED
      BY <1>0, <2>1, <3>1
  <2>3. ASSUME NEW key \in DOMAIN Defaults PROVE IsLeft(key)'
    BY <2>1, <2>3 DEF IsLeft, Keys, Defaults
  <2>4. LoadedInv'
    BY <1>4, <2>1, <2>3
  <2>5. QED
    BY <1>1, <2>2, <2>4
<1>5. QED
  BY <1>2, <1>3, <1>4

\* A key is read from the file as it is now.
LEMMA ReadKeyKeeps == SettingsInv /\ ReadKey => SettingsInv'
<1> SUFFICES ASSUME SettingsInv, ReadKey PROVE SettingsInv'
  OBVIOUS
<1> USE DEF SettingsInv, SettingsTypeOK, StampsInv, LoadedInv, PolledInv
<1>1. /\ current' = [current EXCEPT ![Head(reading)] = Clamped(Head(reading), ReadInt(file, Head(reading)))]
      /\ reading' = Tail(reading) /\ reading # <<>>
      /\ UNCHANGED <<now, file, edits, lastLoad, initialised, loadedFile, loadedState, elapsed, unseen>>
  BY DEF ReadKey
<1>2. Head(reading) \in DOMAIN Defaults /\ reading' \in KeysLeft
  BY <1>1, KeysRead
<1>3. ASSUME NEW key, IsLeft(key), key # Head(reading) PROVE IsLeft(key)'
  BY <1>1, <1>3, KeysRead DEF IsLeft
<1>4. current'[Head(reading)] = Parsed(file)[Head(reading)]
  BY <1>1, <1>2 DEF Parsed, HasEveryKey
<1>5. \A key \in DOMAIN Defaults : key # Head(reading) => current'[key] = current[key]
  BY <1>1
<1>6. SettingsTypeOK'
  <2>1. HasEveryKey(current)'
    BY <1>1 DEF HasEveryKey
  <2>2. QED
    BY <1>1, <1>2, <2>1
<1>7. LoadedInv'
  <2>1. loadedFile
    BY <1>1
  <2>2. ASSUME file.exists, file.stamp = loadedState, NEW key \in DOMAIN Defaults
        PROVE  IsLeft(key)' \/ current'[key] = Parsed(file)[key]
    BY <1>3, <1>4, <1>5, <2>1, <2>2
  <2>3. Parsed(file)' = Parsed(file)
    BY <1>1
  <2>4. QED
    BY <1>1, <2>1, <2>2, <2>3
<1>8. QED
  BY <1>1, <1>6, <1>7

\* A file that is saved has a state that was never loaded.
LEMMA SaveKeeps == SettingsInv /\ Save => SettingsInv'
<1> SUFFICES ASSUME SettingsInv, Save PROVE SettingsInv'
  OBVIOUS
<1> USE DEF SettingsInv, SettingsTypeOK, StampsInv, LoadedInv, PolledInv
<1>1. /\ edits' = edits + 1 /\ unseen' = TRUE /\ file'.stamp = edits + 1 /\ file'.exists = TRUE
      /\ UNCHANGED <<now, lastLoad, initialised, loadedFile, loadedState, current, reading, elapsed>>
  BY DEF Save
<1>2. HasEveryKey(current)'
  BY <1>1 DEF HasEveryKey
<1>3. SettingsTypeOK'
  <2>1. file'.exists \in BOOLEAN /\ unseen' \in BOOLEAN
    BY <1>1, Zenon
  <2>2. edits' \in Nat /\ file'.stamp \in Nat
    BY <1>1
  <2>3. QED
    BY <1>1, <1>2, <2>1, <2>2
<1>4. LoadedInv'
  <2>1. ~(file'.exists /\ file'.stamp = loadedState)
    BY <1>1
  <2>2. QED
    BY <1>1, <2>1
<1>5. StampsInv' /\ PolledInv'
  BY <1>1
<1>6. QED
  BY <1>3, <1>4, <1>5

\* A file that is deleted has no state.
LEMMA DeleteKeeps == SettingsInv /\ Delete => SettingsInv'
<1> SUFFICES ASSUME SettingsInv, Delete PROVE SettingsInv'
  OBVIOUS
<1> USE DEF SettingsInv, SettingsTypeOK, StampsInv, LoadedInv, PolledInv
<1>1. /\ edits' = edits + 1 /\ unseen' = TRUE /\ file'.stamp = 0 /\ file'.exists = FALSE
      /\ UNCHANGED <<now, lastLoad, initialised, loadedFile, loadedState, current, reading, elapsed>>
  BY DEF Delete
<1>2. HasEveryKey(current)'
  BY <1>1 DEF HasEveryKey
<1>3. SettingsTypeOK'
  <2>1. file'.exists \in BOOLEAN /\ unseen' \in BOOLEAN
    BY <1>1, Zenon
  <2>2. edits' \in Nat /\ file'.stamp \in Nat
    BY <1>1
  <2>3. QED
    BY <1>1, <1>2, <2>1, <2>2
<1>4. LoadedInv'
  <2>1. ~(file'.exists /\ file'.stamp = loadedState)
    BY <1>1
  <2>2. QED
    BY <1>1, <2>1
<1>5. StampsInv' /\ PolledInv'
  BY <1>1
<1>6. QED
  BY <1>3, <1>4, <1>5

\* The count wraps at most once between two polls.
LEMMA TickKeeps == SettingsInv /\ Tick => SettingsInv'
<1> SUFFICES ASSUME SettingsInv, Tick PROVE SettingsInv'
  OBVIOUS
<1> USE DEF SettingsInv, SettingsTypeOK, StampsInv, LoadedInv, PolledInv
<1>1. /\ elapsed < Interval + MaxGap /\ now' = (now + 1) % TickModulus /\ elapsed' = elapsed + 1
      /\ UNCHANGED <<file, edits, lastLoad, initialised, loadedFile, loadedState, current, reading, unseen>>
  BY DEF Tick
<1>2. now' = IF now + 1 = TickModulus THEN 0 ELSE now + 1
  <2>1. CASE now + 1 = TickModulus
    <3>1. TickModulus % TickModulus = 0
      BY SettingsAssumption, Remainder
    <3>2. now' = TickModulus % TickModulus
      BY <1>1, <2>1, Zenon
    <3>3. QED
      BY <2>1, <3>1, <3>2
  <2>2. CASE now + 1 # TickModulus
    <3>1. now + 1 \in 0 .. TickModulus - 1
      BY <2>2, SettingsAssumption
    <3>2. (now + 1) % TickModulus = now + 1
      BY <3>1, SettingsAssumption, Remainder
    <3>3. QED
      BY <1>1, <2>2, <3>2
  <2>3. QED
    BY <2>1, <2>2
<1>3. PolledInv'
  BY <1>1, <1>2, SettingsAssumption
<1>4. SettingsTypeOK'
  <2>1. HasEveryKey(current)'
    BY <1>1 DEF HasEveryKey
  <2>2. QED
    BY <1>1, <1>2, <2>1, SettingsAssumption
<1>5. LoadedInv'
  BY <1>1 DEF IsLeft, Parsed, ReadInt
<1>6. QED
  BY <1>1, <1>3, <1>4, <1>5

LEMMA SettingsStep == SettingsInv /\ [SettingsNext]_settingsVars => SettingsInv'
<1> SUFFICES ASSUME SettingsInv, [SettingsNext]_settingsVars PROVE SettingsInv'
  OBVIOUS
<1>1. CASE UNCHANGED settingsVars
  BY <1>1 DEF settingsVars, SettingsInv, SettingsTypeOK, StampsInv, LoadedInv, PolledInv,
     IsLeft, HasEveryKey, Parsed, ReadInt
<1>2. QED
  BY <1>1, GetKeeps, ReadKeyKeeps, SaveKeeps, DeleteKeeps, TickKeeps DEF SettingsNext

LEMMA SettingsConclusion == SettingsInv => SettingsCatchUp
<1> SUFFICES ASSUME SettingsInv PROVE SettingsCatchUp
  OBVIOUS
<1> USE DEF SettingsInv, SettingsTypeOK, StampsInv, LoadedInv, PolledInv
<1>1. ASSUME reading = <<>>, ~unseen PROVE current = Parsed(file)
  <2>1. CASE ~file.exists
    BY <1>1, <2>1, AbsentFile
  <2>2. CASE file.exists
    <3>1. \A key : ~IsLeft(key)
      BY <1>1 DEF IsLeft
    <3>2. \A key \in DOMAIN Defaults : current[key] = Parsed(file)[key]
      BY <1>1, <2>2, <3>1
    <3>3. QED
      BY <3>2 DEF Parsed, HasEveryKey
  <2>3. QED
    BY <2>1, <2>2
<1>2. ASSUME initialised, elapsed >= Interval PROVE Due
  <2>1. (now - lastLoad) % TickModulus = elapsed
    <3>1. elapsed \in 0 .. TickModulus - 1 /\ TickModulus \in Nat
      BY SettingsAssumption
    <3>2. now - lastLoad = elapsed \/ now - lastLoad = elapsed - TickModulus
      BY <1>2, <3>1
    <3>3. QED
      BY <3>1, <3>2, Remainder
  <2>2. QED
    BY <1>2, <2>1 DEF Due
<1>3. QED
  BY <1>1, <1>2 DEF SettingsCatchUp

-----------------------------------------------------------------------------
(***************************************************************************)
(* The canvas, as the combat text hooks hand it back.                      *)
(***************************************************************************)
IsCanvas(c) ==
  c = [x |-> c.x, y |-> c.y, line |-> c.line, font |-> c.font, centred |-> c.centred]

\* What is drawn is a sequence of draws.
IsSequence(s) == \E S : s \in Seq(S)

LEMMA RangeAppended ==
  ASSUME NEW s, IsSequence(s), NEW e
  PROVE  IsSequence(Append(s, e)) /\ \A d \in Range(Append(s, e)) : d \in Range(s) \/ d = e
<1>1. PICK S : s \in Seq(S)
  BY DEF IsSequence
<1>2. s \in Seq(S \cup {e}) /\ e \in S \cup {e}
  BY <1>1
<1>3. Append(s, e) \in Seq(S \cup {e})
  BY <1>2
<1>4. ASSUME NEW i \in DOMAIN Append(s, e) PROVE Append(s, e)[i] \in Range(s) \/ Append(s, e)[i] = e
  <2>1. i \in 1 .. Len(s) + 1 /\ Len(s) \in Nat
    BY <1>2
  <2>2. CASE i = Len(s) + 1
    BY <1>2, <2>1, <2>2
  <2>3. CASE i # Len(s) + 1
    <3>1. i \in DOMAIN s /\ Append(s, e)[i] = s[i]
      BY <1>2, <2>1, <2>3
    <3>2. QED
      BY <3>1 DEF Range
  <2>4. QED
    BY <2>2, <2>3
<1>5. QED
  BY <1>3, <1>4 DEF IsSequence, Range

LEMMA OneDrawn ==
  ASSUME NEW e
  PROVE  IsSequence(<<e>>) /\ \A d \in Range(<<e>>) : d = e
<1>1. <<e>> \in Seq({e})
  OBVIOUS
<1>2. DOMAIN <<e>> = {1} /\ <<e>>[1] = e
  OBVIOUS
<1>3. QED
  BY <1>1, <1>2 DEF IsSequence, Range

LEMMA NoneDrawn == IsSequence(<<>>) /\ \A d \in Range(<<>>) : FALSE
<1>1. <<>> \in Seq({})
  OBVIOUS
<1>2. DOMAIN <<>> = {}
  OBVIOUS
<1>3. QED
  BY <1>1, <1>2 DEF IsSequence, Range

LEMMA DrawingFields ==
  ASSUME NEW of, NEW retail, NEW box
  PROVE  /\ Drawing(of, retail, box).of = of /\ Drawing(of, retail, box).retail = retail
         /\ Drawing(of, retail, box).drawn = box
  BY DEF Drawing

\* The draws a damage number has still to make.
SitesLeft == {Sites, <<"secondShadow", "text">>, <<"text">>, <<>>}

DamageFrame ==
  /\ frame = [in |-> "damage", text |-> frame.text, x |-> frame.x, screenY |-> frame.screenY,
              rise |-> frame.rise, previous |-> NoContext, todo |-> frame.todo]
  /\ frame.todo \in SitesLeft
  /\ rawNameContext = NoContext

NameFrame == frame.in = "name" /\ frame.previous = NoContext /\ combatContext = NoContext

\* The canvas is as retail alone would have left it.
AsRetail == canvas = retailCanvas /\ \A d \in Range(drawn) : d.of # "label"

\* One label was drawn, and the cursor is behind it.
BehindLabel ==
  /\ \E d : drawn = <<d>> /\ d.of = "label" /\ CursorBehind(d.drawn)
  /\ canvas.font = retailCanvas.font /\ canvas.centred = retailCanvas.centred

\* The canvas is as retail would have left it, but behind a label, and each
\* context is gone once the frame that made it is.
CombatInv ==
  /\ IsCanvas(canvas) /\ canvas.line \in Int
  /\ AsRetail \/ BehindLabel
  /\ \/ frame = Idle /\ combatContext = NoContext /\ rawNameContext = NoContext
     \/ DamageFrame /\ AsRetail
     \/ NameFrame

\* One field of a canvas.
LEMMA OneField ==
  ASSUME NEW c, IsCanvas(c), NEW a
  PROVE  /\ [c EXCEPT !.x = a] = [x |-> a, y |-> c.y, line |-> c.line, font |-> c.font, centred |-> c.centred]
         /\ [c EXCEPT !.y = a] = [x |-> c.x, y |-> a, line |-> c.line, font |-> c.font, centred |-> c.centred]
         /\ [c EXCEPT !.line = a] = [x |-> c.x, y |-> c.y, line |-> a, font |-> c.font, centred |-> c.centred]
  BY DEF IsCanvas

\* The pen moved.
LEMMA PenMoved ==
  ASSUME NEW c, IsCanvas(c), NEW a, NEW b
  PROVE  [c EXCEPT !.x = a, !.y = b] =
           [x |-> a, y |-> b, line |-> c.line, font |-> c.font, centred |-> c.centred]
<1>1. PICK d : d = [c EXCEPT !.x = a]
  OBVIOUS
<1>2. d = [x |-> a, y |-> c.y, line |-> c.line, font |-> c.font, centred |-> c.centred]
  BY <1>1, OneField
<1>3. IsCanvas(d) /\ d.x = a /\ d.line = c.line /\ d.font = c.font /\ d.centred = c.centred
  BY <1>2 DEF IsCanvas
<1>4. [c EXCEPT !.x = a, !.y = b] = [d EXCEPT !.y = b]
  BY <1>1
<1>5. [d EXCEPT !.y = b] =
        [x |-> d.x, y |-> b, line |-> d.line, font |-> d.font, centred |-> d.centred]
  BY <1>3, OneField
<1>6. QED
  BY <1>3, <1>4, <1>5

LEMMA PenPlaced ==
  ASSUME NEW c, IsCanvas(c), NEW a, NEW b
  PROVE  PenAt(c, a, b) = [x |-> a, y |-> b, line |-> c.line, font |-> c.font, centred |-> c.centred]
  BY PenMoved DEF PenAt

\* The cursor put back.
LEMMA CursorRestored ==
  ASSUME NEW c, IsCanvas(c), NEW cursor
  PROVE  RestoreCursor(c, cursor) = [x |-> cursor.x, y |-> cursor.y, line |-> cursor.line,
                                     font |-> c.font, centred |-> c.centred]
<1>1. PICK d : d = [c EXCEPT !.x = cursor.x, !.y = cursor.y]
  OBVIOUS
<1>2. d = [x |-> cursor.x, y |-> cursor.y, line |-> c.line, font |-> c.font, centred |-> c.centred]
  BY <1>1, PenMoved
<1>3. /\ IsCanvas(d) /\ d.x = cursor.x /\ d.y = cursor.y
      /\ d.font = c.font /\ d.centred = c.centred
  BY <1>2 DEF IsCanvas
<1>4. RestoreCursor(c, cursor) = [d EXCEPT !.line = cursor.line]
  BY <1>1 DEF RestoreCursor
<1>5. [d EXCEPT !.line = cursor.line] =
        [x |-> d.x, y |-> d.y, line |-> cursor.line, font |-> d.font, centred |-> d.centred]
  BY <1>3, OneField
<1>6. QED
  BY <1>3, <1>4, <1>5

\* The pen behind a text.
LEMMA PenAdvanced ==
  ASSUME NEW c, IsCanvas(c), NEW width, NEW height
  PROVE  Advance(c, width, height) =
           [x |-> c.x + width, y |-> c.y, line |-> IF height > c.line THEN height ELSE c.line,
            font |-> c.font, centred |-> c.centred]
<1>1. PICK d : d = [c EXCEPT !.x = c.x + width]
  OBVIOUS
<1>2. d = [x |-> c.x + width, y |-> c.y, line |-> c.line, font |-> c.font, centred |-> c.centred]
  BY <1>1, OneField
<1>3. /\ IsCanvas(d) /\ d.x = c.x + width /\ d.y = c.y /\ d.line = c.line
      /\ d.font = c.font /\ d.centred = c.centred
  BY <1>2 DEF IsCanvas
<1>4. Advance(c, width, height) = [d EXCEPT !.line = IF height > d.line THEN height ELSE d.line]
  BY <1>1, <1>3 DEF Advance
<1>5. QED
  BY <1>3, <1>4, OneField

\* Keeping the cursor keeps the canvas, whatever was drawn in between.
LEMMA CursorKept ==
  ASSUME NEW c, IsCanvas(c), NEW d, IsCanvas(d), d.font = c.font, d.centred = c.centred
  PROVE  RestoreCursor(d, CaptureCursor(c)) = c
  BY CursorRestored DEF CaptureCursor, IsCanvas

\* Measuring a text leaves the canvas alone.
LEMMA MeasuringKeeps ==
  ASSUME NEW c, IsCanvas(c), NEW font, NEW text
  PROVE  MeasureText(c, font, text).canvas = c
<1>1. PICK start : start = RestoreCursor(c, [x |-> 0, y |-> 0, line |-> 0])
  OBVIOUS
<1>2. IsCanvas(start) /\ start.font = c.font /\ start.centred = c.centred
  BY <1>1, CursorRestored DEF IsCanvas
<1>3. PICK used : used = Advance(start, FontSize[font][text].width, FontSize[font][text].height)
  OBVIOUS
<1>4. IsCanvas(used) /\ used.font = c.font /\ used.centred = c.centred
  BY <1>2, <1>3, PenAdvanced DEF IsCanvas
<1>5. MeasureText(c, font, text).canvas = RestoreCursor(used, CaptureCursor(c))
  BY <1>1, <1>3 DEF MeasureText
<1>6. QED
  BY <1>4, <1>5, CursorKept

\* Retail leaves a canvas.
LEMMA RetailCanvas ==
  ASSUME NEW c, IsCanvas(c), NEW text
  PROVE  /\ IsCanvas(DrawRetail(c, text).canvas)
         /\ DrawRetail(c, text).canvas.font = c.font
         /\ DrawRetail(c, text).canvas.centred = c.centred
  BY PenAdvanced DEF DrawRetail, IsCanvas

\* Scaled combat text leaves the canvas as the retail text would have.
LEMMA ScaledTextHandsBack ==
  ASSUME NEW c, IsCanvas(c), NEW text, NEW site, NEW offered
  PROVE  DrawScaledCombatText(c, text, site, offered).canvas = DrawRetail(c, text).canvas
<1> DEFINE
      measured == MeasureText(c, c.font, text)
      size == measured.size
      retail == DrawRetail(measured.canvas, text).canvas
      height == Scaled(size.height, scalePercent)
      fit == Fitted(c.font, IF scalePercent > 100 THEN offered ELSE NoFont, text, height,
                    Scaled(size.width, scalePercent))
      baseline == combatContext.baselineY - BaselineOffset(site)
      shadow == ShadowAdjustment(site)
      px == c.x + shadow - IF c.centred THEN 0 ELSE (fit.width - size.width) \div 2
      py == baseline - Scaled(baseline - c.y, scalePercent) + shadow - (height - size.height) \div 2
      pen == [c EXCEPT !.x = px, !.y = py]
      passed == Advance(pen, fit.width, height)
<1>1. DrawScaledCombatText(c, text, site, offered).canvas = RestoreCursor(passed, CaptureCursor(retail))
  BY DEF DrawScaledCombatText
<1>2. retail = DrawRetail(c, text).canvas
  BY MeasuringKeeps
<1> HIDE DEF measured, size, height, fit, baseline, shadow, px, py
<1>3. IsCanvas(pen) /\ pen.font = c.font /\ pen.centred = c.centred
  BY PenMoved DEF IsCanvas
<1> HIDE DEF pen
<1>4. IsCanvas(passed) /\ passed.font = c.font /\ passed.centred = c.centred
  BY <1>3, PenAdvanced DEF IsCanvas
<1>5. IsCanvas(retail) /\ retail.font = c.font /\ retail.centred = c.centred
  BY <1>2, RetailCanvas
<1> HIDE DEF passed, retail
<1>6. RestoreCursor(passed, CaptureCursor(retail)) = retail
  BY <1>4, <1>5, CursorKept
<1>7. QED
  BY <1>1, <1>2, <1>6

\* The hook of DrawText leaves what retail leaves, but for a raw name.
LEMMA HookHandsBack ==
  ASSUME NEW c, IsCanvas(c), NEW text, NEW site, site # "rawName", NEW offered
  PROVE  DrawText(c, text, site, offered).canvas = DrawRetail(c, text).canvas
  BY ScaledTextHandsBack DEF DrawText

LEMMA CombatInitial == CombatInit => CombatInv
  BY NoneDrawn DEF CombatInit, CombatInv, IsCanvas, AsRetail

\* Drawing ends with the text itself, and none of it is a raw name.
LEMMA SitesDrawn ==
  ASSUME NEW left \in SitesLeft, left # <<>>
  PROVE  Head(left) # "rawName" /\ Tail(left) \in SitesLeft
<1>1. CASE left = Sites
  <2>1. Head(left) = "firstShadow" /\ Tail(left) = <<"secondShadow", "text">>
    BY <1>1 DEF Sites
  <2>2. QED
    BY <2>1 DEF SitesLeft
<1>2. CASE left = <<"secondShadow", "text">>
  <2>1. Head(left) = "secondShadow" /\ Tail(left) = <<"text">>
    BY <1>2
  <2>2. QED
    BY <2>1 DEF SitesLeft
<1>3. CASE left = <<"text">>
  <2>1. Head(left) = "text" /\ Tail(left) = <<>>
    BY <1>3
  <2>2. QED
    BY <2>1 DEF SitesLeft
<1>4. QED
  BY <1>1, <1>2, <1>3 DEF SitesLeft

\* A damage number's frame after one draw.
LEMMA FrameDrawn ==
  ASSUME DamageFrame, NEW left
  PROVE  [frame EXCEPT !.todo = left] =
           [in |-> "damage", text |-> frame.text, x |-> frame.x, screenY |-> frame.screenY,
            rise |-> frame.rise, previous |-> NoContext, todo |-> left]
  BY DEF DamageFrame

-----------------------------------------------------------------------------
(***************************************************************************)
(* The canvas, as the nameplates hand it back.                             *)
(***************************************************************************)
RunningCall ==
  \E next, options, scale :
    plate = [running |-> TRUE, next |-> next, saved |-> [pen |-> given.pen, colour |-> given.colour],
             options |-> options, scale |-> scale]

IsPlateCanvas(c) == c = [pen |-> c.pen, line |-> c.line, colour |-> c.colour]

\* The line height is what the game's own text and the plates so far have made it.
Heights == {given.line} \cup {plates[i].tallest : i \in 1 .. Len(plates)}

\* While plates are drawn, the call holds pen and colour as the game handed them over.
PlateInv ==
  /\ IsPlateCanvas(plateCanvas) /\ Heights \subseteq Int
  /\ plateCanvas.line \in Heights /\ \A height \in Heights : plateCanvas.line >= height
  /\ \/ plate = NoCall /\ plateCanvas.pen = given.pen /\ plateCanvas.colour = given.colour
     \/ RunningCall

LEMMA PlateInitial == PlateInit => PlateInv
<1> SUFFICES ASSUME PlateInit PROVE PlateInv
  OBVIOUS
<1>1. plateCanvas = [pen |-> [x |-> 0, y |-> 0], line |-> 0, colour |-> "game"]
      /\ plate = NoCall /\ given = plateCanvas /\ plates = <<>>
  BY DEF PlateInit
<1>2. Heights = {0}
  <2>1. Len(<<>>) = 0 /\ 1 .. 0 = {}
    OBVIOUS
  <2>2. QED
    BY <1>1, <2>1 DEF Heights
<1>3. QED
  BY <1>1, <1>2 DEF PlateInv, IsPlateCanvas

\* A drawn plate adds the height of its tallest text.
LEMMA HeightsAppended ==
  ASSUME NEW p, IsSequence(plates), plates' = Append(plates, p), given' = given
  PROVE  Heights' = Heights \cup {p.tallest}
<1>1. PICK S : plates \in Seq(S)
  BY DEF IsSequence
<1>2. PICK T : T = S \cup {p}
  OBVIOUS
<1>3. plates \in Seq(T) /\ p \in T
  BY <1>1, <1>2
<1>4. Len(plates) \in Nat /\ Len(plates') = Len(plates) + 1
      /\ (\A i \in 1 .. Len(plates) : plates'[i] = plates[i]) /\ plates'[Len(plates) + 1] = p
  BY <1>3, AppendProperties
<1>5. {plates'[i].tallest : i \in 1 .. Len(plates')} =
        {plates[i].tallest : i \in 1 .. Len(plates)} \cup {p.tallest}
  BY <1>4
<1>6. QED
  BY <1>5 DEF Heights

-----------------------------------------------------------------------------
(***************************************************************************)
(* The plates.                                                             *)
(***************************************************************************)
\* A rectangle on the canvas that its rows cover.
WholeRects ==
  {r \in [left : Int, right : Int, top : Int, bottom : Int, rows : Int] :
     /\ r.rows * Whole >= r.bottom - r.top
     /\ r.left >= 0 /\ r.right <= Clip.x /\ r.top >= 0 /\ r.bottom <= Clip.y}

\* A plate of such rectangles, with a stat line that was not cut off.
WholePlates ==
  {p \in [pen : [x : Int, y : Int], tallest : Int, rects : Seq(WholeRects), stats : Int, whole : Int] :
     p.stats = p.whole}

\* The call draws the players in their order, at a scale that is bounded.
PlatesInv ==
  /\ infos.list \in Seq(Infos) /\ infos.max \in Int
  /\ plates \in Seq(WholePlates)
  /\ plate.running =>
       plate.next \in Nat \ {0} /\ plate.options \in PlateOptions /\ plate.scale \in Nat

\* The lower and the upper of two integers are one of them.
LEMMA LowerUpper ==
  ASSUME NEW a \in Int, NEW b \in Int
  PROVE  /\ Lower(a, b) \in {a, b} /\ Lower(a, b) <= a /\ Lower(a, b) <= b
         /\ Upper(a, b) \in {a, b} /\ Upper(a, b) >= a /\ Upper(a, b) >= b
  BY DEF Lower, Upper

\* A percentage of a length is an integer, and not negative if they are not.
LEMMA Percentage ==
  /\ \A a, b \in Int : a * b \in Int /\ (a * b) \div 100 \in Int
  /\ \A a, b \in Nat : a * b \in Nat /\ (a * b) \div 100 \in Nat
<1>1. \A p \in Int : p \div 100 \in Int
  BY SMT
<1>2. \A p \in Nat : p \div 100 \in Nat
  BY SMT
<1>3. \A a, b \in Int : a * b \in Int
  BY SMT
<1>4. \A a, b \in Nat : a * b \in Nat
  BY SMT
<1>5. QED
  BY <1>1, <1>2, <1>3, <1>4

\* A rectangle no higher than its budget of rows is drawn whole, on the canvas.
LEMMA RectDrawn ==
  ASSUME NEW x \in Int, NEW y \in Int, NEW w \in Int, NEW h \in Int, h <= FillRectRowMax * Whole
  PROVE  FillRect(x, y, w, h) \in Seq(WholeRects)
<1> DEFINE left == Upper(x, 0)        right == Lower(x + w, Clip.x)
           top == Upper(y, 0)         bottom == Lower(y + h, Clip.y)
           count == Lower((bottom - top + Whole - 1) \div Whole, FillRectRowMax)
           rect == [left |-> left, right |-> right, top |-> top, bottom |-> bottom, rows |-> count]
<1>1. /\ left \in Int /\ left >= 0 /\ right \in Int /\ right <= Clip.x
      /\ top \in Int /\ top >= 0 /\ top >= y /\ bottom \in Int /\ bottom <= Clip.y /\ bottom <= y + h
  BY NameplatesAssumption, LowerUpper
<1> HIDE DEF left, right, top, bottom
<1>2. count \in Int /\ count * Whole >= bottom - top
  <2>1. bottom - top <= 6400
    BY <1>1 DEF FillRectRowMax, Whole
  <2>2. PICK q \in Int : q = (bottom - top + Whole - 1) \div Whole
    BY <1>1, SMT DEF Whole
  <2>3. q <= 64 /\ q * 100 >= bottom - top
    BY <1>1, <2>1, <2>2, SMT DEF Whole
  <2>4. QED
    BY <2>2, <2>3 DEF Lower, FillRectRowMax, Whole
<1> HIDE DEF count
<1>3. rect \in WholeRects
  BY <1>1, <1>2 DEF WholeRects
<1>4. <<rect>> \in Seq(WholeRects)
  BY <1>3
<1>5. <<>> \in Seq(WholeRects)
  OBVIOUS
<1>6. QED
  BY <1>4, <1>5 DEF FillRect, left, right, top, bottom, count

\* The filled part of a bar is a percentage.
LEMMA Fraction ==
  ASSUME NEW value \in Int, NEW maximum \in Int
  PROVE  BarFraction(value, maximum) \in 0 .. 100
<1>1. CASE maximum > 0 /\ value > 0 /\ value < maximum
  <2>1. PICK q \in Int : q = (100 * value) \div maximum /\ maximum * q <= 100 * value
                         /\ 100 * value < maximum * (q + 1)
    BY <1>1, SMT
  <2>2. q >= 0
    BY <1>1, <2>1, SMT
  <2>3. q <= 100
    BY <1>1, <2>1, SMT
  <2>4. BarFraction(value, maximum) = (100 * value) \div maximum
    BY <1>1 DEF BarFraction
  <2>5. BarFraction(value, maximum) = q
    BY <2>1, <2>4, Zenon
  <2>6. q \in 0 .. 100
    BY <2>2, <2>3
  <2>7. QED
    BY <2>5, <2>6, Zenon
<1>2. QED
  BY <1>1 DEF BarFraction

\* A bar and its backing.
LEMMA BarDrawn ==
  ASSUME NEW centre \in Int, NEW y \in Int, NEW width \in Nat,
         NEW height \in Int, height <= ScaledBarHeightMax * Whole, NEW fraction \in Int
  PROVE  Bar(centre, y, width, height, fraction) \in Seq(WholeRects)
<1> DEFINE x == centre - width \div 2
           filled == (width * fraction) \div 100
<1>1. x \in Int /\ filled \in Int
  BY Percentage, SMT
<1> HIDE DEF x, filled
<1>2. FillRect(x - Whole, y - Whole, width + 2 * Whole, height + 2 * Whole) \in Seq(WholeRects)
  BY <1>1, RectDrawn DEF Whole, ScaledBarHeightMax, FillRectRowMax
<1>3. FillRect(x, y, filled, height) \in Seq(WholeRects)
  BY <1>1, RectDrawn DEF Whole, ScaledBarHeightMax, FillRectRowMax
<1>4. QED
  BY <1>2, <1>3, ConcatProperties DEF Bar, x, filled

\* A 32-bit number has at most ten digits.
LEMMA DigitsCounted == ASSUME NEW value PROVE Digits(value) \in 1 .. 10
<1> DEFINE S == {n \in 1 .. 9 : value >= 10 ^ n}
<1>1. IsFiniteSet(1 .. 9) /\ Cardinality(1 .. 9) = 9
  <2>1. 1 \in Int /\ 9 \in Int
    OBVIOUS
  <2>2. IsFiniteSet(1 .. 9) /\ Cardinality(1 .. 9) = IF 1 > 9 THEN 0 ELSE 9 - 1 + 1
    BY <2>1, FS_Interval, Zenon
  <2>3. QED
    BY <2>2
<1>2. S \in SUBSET (1 .. 9)
  OBVIOUS
<1> HIDE DEF S
<1>3. IsFiniteSet(S) /\ Cardinality(S) <= 9
  BY <1>1, <1>2, FS_Subset
<1>4. Cardinality(S) \in Nat
  BY <1>3, FS_CardinalityType
<1>5. Digits(value) = 1 + Cardinality(S)
  BY DEF Digits, S
<1>6. QED
  BY <1>3, <1>4, <1>5

\* Characters that fit are appended.
LEMMA Fits ==
  ASSUME NEW at \in Nat, NEW characters \in Nat, at + characters <= StatsCapacity - 1
  PROVE  Appended(at, characters, StatsCapacity) = at + characters
<1>1. at + characters \in Nat /\ StatsCapacity - 1 \in Nat
  BY DEF StatsCapacity
<1>2. Lower(at + characters, StatsCapacity - 1) = at + characters
  BY <1>1 DEF Lower
<1>3. Upper(at, at + characters) = at + characters
  BY DEF Upper
<1>4. QED
  BY <1>2, <1>3 DEF Appended

\* The stat line is never cut off.
LEMMA StatsFit ==
  ASSUME NEW hp, NEW hpMax, NEW pw, NEW pwMax, NEW includePower \in BOOLEAN
  PROVE  FormatStats(hp, hpMax, pw, pwMax, includePower) =
           Digits(hp) + 1 + Digits(hpMax)
             + IF includePower THEN 3 + Digits(pw) + Digits(pwMax) ELSE 0
<1> DEFINE a == Digits(hp)
           b == Digits(hpMax)
           c == Digits(pw)
           d == Digits(pwMax)
           add(at, n) == Appended(at, n, StatsCapacity)
<1>1. a \in 1 .. 10 /\ b \in 1 .. 10 /\ c \in 1 .. 10 /\ d \in 1 .. 10
  BY DigitsCounted
<1>2. FormatStats(hp, hpMax, pw, pwMax, includePower) =
        IF includePower
          THEN add(add(add(add(add(add(add(add(0, a), 1), b), 1), 1), c), 1), d)
          ELSE add(add(add(0, a), 1), b)
  BY DEF FormatStats
<1> HIDE DEF a, b, c, d, add
<1>3. \A at, n \in Nat : at + n <= 63 => add(at, n) = at + n
  BY Fits DEF add, StatsCapacity
<1>4. add(0, a) = a /\ add(a, 1) = a + 1 /\ add(a + 1, b) = a + 1 + b
  BY <1>1, <1>3
<1>5. PICK health \in Nat : health = a + 1 + b /\ health <= 21
  BY <1>1
<1>8. add(health, 1) = health + 1 /\ add(health + 1, 1) = health + 2
  <2>1. /\ health + 1 \in Nat /\ health + 1 <= 63
        /\ (health + 1) + 1 <= 63 /\ (health + 1) + 1 = health + 2
    BY <1>5
  <2>2. QED
    BY <1>3, <2>1
<1>9. PICK power \in Nat : power = health + 2 /\ power <= 23
  BY <1>5
<1>10. add(power, c) = power + c
  <2>1. c \in Nat /\ power + c <= 63
    BY <1>1, <1>9
  <2>2. QED
    BY <1>3, <2>1
<1>11. PICK reserve \in Nat : reserve = power + c /\ reserve <= 33
  BY <1>1, <1>9
<1>12. add(reserve, 1) = reserve + 1 /\ add(reserve + 1, d) = reserve + 1 + d
  <2>1. d \in Nat /\ reserve + 1 \in Nat /\ reserve + 1 <= 63 /\ (reserve + 1) + d <= 63
    BY <1>1, <1>11
  <2>2. QED
    BY <1>3, <2>1
<1>6. FormatStats(hp, hpMax, pw, pwMax, includePower) =
        a + 1 + b + IF includePower THEN 3 + c + d ELSE 0
  <2>1. CASE includePower
    <3>1. FormatStats(hp, hpMax, pw, pwMax, includePower) = reserve + 1 + d
      BY <1>2, <1>4, <1>5, <1>8, <1>9, <1>10, <1>11, <1>12, <2>1
    <3>2. reserve + 1 + d = a + 1 + b + (3 + c + d)
      BY <1>1, <1>5, <1>9, <1>11
    <3>3. QED
      BY <2>1, <3>1, <3>2
  <2>2. CASE ~includePower
    <3>1. FormatStats(hp, hpMax, pw, pwMax, includePower) = a + 1 + b
      BY <1>2, <1>4, <2>2
    <3>2. QED
      BY <1>1, <2>2, <3>1
  <2>3. QED
    BY <2>1, <2>2
<1>7. QED
  BY <1>6 DEF a, b, c, d

\* A plate is drawn whole.
LEMMA PlateDrawn ==
  ASSUME NEW info \in Infos, NEW options \in PlateOptions, NEW scale \in Nat
  PROVE  DrawnPlate(info, options, scale) \in WholePlates
<1> DEFINE
      width == (Extent.x * scale) \div 100
      height == (Extent.y * scale) \div 100
      textY == info.y - height
      barHeight == ScaledBarHeight(options.barHeight, scale)
      barY == textY + height + 2 * Whole
      bar(y, fraction) == Bar(info.x, y, options.barWidth * scale, barHeight, fraction)
      statsWidth == (StatsExtent.x * scale) \div 100
      statsHeight == (StatsExtent.y * scale) \div 100
      pen == IF options.health = "text"
               THEN [x |-> info.x - statsWidth \div 2 + statsWidth, y |-> textY + height]
               ELSE [x |-> info.x - width \div 2 + width, y |-> textY]
      tallest == IF options.health = "text" THEN Upper(height, statsHeight) ELSE height
      rects == IF options.health # "bars" THEN <<>>
               ELSE bar(barY, BarFraction(info.hp, info.hpMax))
                      \o IF options.showPower
                           THEN bar(barY + barHeight + 3 * Whole, BarFraction(info.pw, info.pwMax))
                           ELSE <<>>
      line == IF options.health = "text"
                THEN FormatStats(info.hp, info.hpMax, info.pw, info.pwMax, options.showPower)
                ELSE 0
      whole == IF options.health = "text"
                 THEN Digits(info.hp) + 1 + Digits(info.hpMax)
                      + IF options.showPower THEN 3 + Digits(info.pw) + Digits(info.pwMax) ELSE 0
                 ELSE 0
<1>1. DrawnPlate(info, options, scale) = [pen |-> pen, tallest |-> tallest, rects |-> rects, stats |-> line, whole |-> whole]
  BY DEF DrawnPlate
<1>2. /\ info.x \in Int /\ info.y \in Int /\ info.hp \in Int /\ info.hpMax \in Int
      /\ info.pw \in Int /\ info.pwMax \in Int
      /\ options.barHeight \in Nat /\ options.barWidth \in Nat
      /\ Extent.x \in Nat /\ Extent.y \in Nat
      /\ StatsExtent.x \in Nat /\ StatsExtent.y \in Nat
  BY NameplatesAssumption
<1>3. width \in Nat /\ height \in Nat /\ statsWidth \in Nat /\ statsHeight \in Nat
  BY <1>2, Percentage
<1>4. barHeight \in Int /\ barHeight <= ScaledBarHeightMax * Whole
  <2>1. options.barHeight * scale \in Int /\ ScaledBarHeightMax * Whole \in Int
    BY <1>2, Percentage DEF ScaledBarHeightMax, Whole
  <2>2. QED
    BY <2>1, LowerUpper DEF ScaledBarHeight
<1> HIDE DEF width, height, statsWidth, statsHeight, barHeight
<1>5. pen \in [x : Int, y : Int] /\ tallest \in Int /\ barY \in Int
  <2>1. \A w \in Nat : info.x - w \div 2 + w \in Int
    BY <1>2, SMT
  <2>2. textY \in Int /\ textY + height \in Int /\ barY \in Int
    BY <1>2, <1>3 DEF Whole
  <2>3. tallest \in Int
    BY <1>3 DEF Upper
  <2>4. QED
    BY <1>3, <2>1, <2>2, <2>3
<1>6. line = whole
  BY StatsFit, NameplatesAssumption
<1>7. whole \in Int
  BY DigitsCounted
<1> HIDE DEF barY, pen, tallest, line, whole
<1>8. ASSUME NEW y \in Int, NEW fraction \in Int
      PROVE  bar(y, fraction) \in Seq(WholeRects)
  <2>1. options.barWidth * scale \in Nat
    BY <1>2, Percentage
  <2>2. QED
    BY <1>2, <1>4, <2>1, BarDrawn
<1>9. rects \in Seq(WholeRects)
  <2>1. bar(barY, BarFraction(info.hp, info.hpMax)) \in Seq(WholeRects)
    <3>1. BarFraction(info.hp, info.hpMax) \in Int
      <4>1. BarFraction(info.hp, info.hpMax) \in 0 .. 100
        BY <1>2, Fraction, Zenon
      <4>2. QED
        BY <4>1
    <3>2. QED
      BY <1>5, <1>8, <3>1
  <2>2. bar(barY + barHeight + 3 * Whole, BarFraction(info.pw, info.pwMax)) \in Seq(WholeRects)
    <3>1. BarFraction(info.pw, info.pwMax) \in Int
      <4>1. BarFraction(info.pw, info.pwMax) \in 0 .. 100
        BY <1>2, Fraction, Zenon
      <4>2. QED
        BY <4>1
    <3>2. barY + barHeight + 3 * Whole \in Int
      BY <1>4, <1>5 DEF Whole
    <3>3. QED
      BY <1>8, <3>1, <3>2
  <2>3. QED
    BY <2>1, <2>2, ConcatProperties
<1> HIDE DEF rects
<1>10. QED
  BY <1>1, <1>5, <1>6, <1>7, <1>9 DEF WholePlates

LEMMA PlatesInitial == PlateInit => PlatesInv
<1> SUFFICES ASSUME PlateInit PROVE PlatesInv
  OBVIOUS
<1>1. infos.list \in Seq(Infos) /\ infos.max \in Int
  <2>1. infos.list \in UNION {[1 .. n -> Infos] : n \in 0 .. 2} /\ infos.max \in 1 .. 2
    BY DEF PlateInit
  <2>2. PICK n \in 0 .. 2 : infos.list \in [1 .. n -> Infos]
    BY <2>1
  <2>3. QED
    BY <2>1, <2>2
<1>2. plates \in Seq(WholePlates) /\ ~plate.running
  BY DEF PlateInit, NoCall
<1>3. QED
  BY <1>1, <1>2 DEF PlatesInv

\* A call begins with the first player, at a scale that is bounded.
LEMMA DrawHudKeepsPlates ==
  ASSUME PlatesInv, NEW spectating, NEW ready, NEW options \in PlateOptions,
         NEW percent \in PlateScales, DrawHud(spectating, ready, options, percent)
  PROVE  PlatesInv'
<1>1. UNCHANGED <<infos, plates>>
  BY DEF DrawHud
<1>2. CASE plate' = plate
  BY <1>1, <1>2 DEF PlatesInv
<1>3. CASE plate' = [running |-> TRUE, next |-> 1,
                     saved |-> [pen |-> plateCanvas.pen, colour |-> plateCanvas.colour],
                     options |-> options, scale |-> MultiplyScale(options.scale, percent)]
  <2>1. (options.scale * percent) \div 100 \in Nat
    BY NameplatesAssumption, Percentage
  <2>2. MultiplyScale(options.scale, percent) \in Nat
    BY <2>1, LowerUpper DEF MultiplyScale, ScalePercentMax
  <2>3. plate'.next = 1 /\ plate'.options = options
        /\ plate'.scale = MultiplyScale(options.scale, percent)
    BY <1>3
  <2>4. QED
    BY <1>1, <2>2, <2>3 DEF PlatesInv
<1>4. QED
  BY <1>2, <1>3 DEF DrawHud

\* No more players are read than the list has.
LEMMA EntriesInList ==
  ASSUME NEW count \in Nat, NEW maximum \in Int
  PROVE  SafeArrayCount(count, maximum) <= count
  BY NameplatesAssumption DEF SafeArrayCount, ClampInt, Upper, Lower

\* Each player is skipped, or has a plate that is whole.
LEMMA DrawPlateKeepsPlates ==
  ASSUME PlateInv, PlatesInv, DrawPlate
  PROVE  PlatesInv'
<1> DEFINE info == infos.list[plate.next]
           made == DrawnPlate(info, plate.options, plate.scale)
<1>1. plate.running /\ Remaining /\ infos' = infos /\ plate' = [plate EXCEPT !.next = @ + 1]
  BY DEF DrawPlate
<1>2. RunningCall
  BY <1>1 DEF PlateInv, NoCall
<1>3. plate.next \in Nat \ {0} /\ plate.options \in PlateOptions /\ plate.scale \in Nat
  BY <1>1 DEF PlatesInv
<1>4. /\ plate'.next = plate.next + 1 /\ plate'.options = plate.options
      /\ plate'.scale = plate.scale
  <2>1. PICK next, options, scale, saved : plate =
          [running |-> TRUE, next |-> next, saved |-> saved, options |-> options, scale |-> scale]
    BY <1>2 DEF RunningCall
  <2>2. QED
    BY <1>1, <2>1
<1>5. info \in Infos
  <2>1. infos.list \in Seq(Infos) /\ infos.max \in Int /\ Len(infos.list) \in Nat
    BY DEF PlatesInv
  <2>2. SafeArrayCount(Len(infos.list), infos.max) \in Int
    BY <2>1, NameplatesAssumption DEF SafeArrayCount, ClampInt, Upper, Lower
  <2>3. plate.next \in 1 .. Len(infos.list)
    BY <1>1, <1>3, <2>1, <2>2, EntriesInList DEF Remaining
  <2>4. QED
    BY <2>1, <2>3
<1>6. plates' = plates \/ plates' = Append(plates, made)
  BY DEF DrawPlate
<1>7. plates' \in Seq(WholePlates)
  <2>1. made \in WholePlates
    BY <1>3, <1>5, PlateDrawn
  <2>2. plates \in Seq(WholePlates)
    BY DEF PlatesInv
  <2> HIDE DEF made
  <2>3. QED
    BY <1>6, <2>1, <2>2, AppendProperties
<1>8. QED
  BY <1>1, <1>3, <1>4, <1>7 DEF PlatesInv

LEMMA PlatesStep == PlateInv /\ PlatesInv /\ [PlateNext]_plateVars => PlatesInv'
<1> SUFFICES ASSUME PlateInv, PlatesInv, [PlateNext]_plateVars PROVE PlatesInv'
  OBVIOUS
<1>1. ASSUME NEW spectating \in BOOLEAN, NEW ready \in BOOLEAN, NEW options \in PlateOptions,
             NEW percent \in PlateScales, DrawHud(spectating, ready, options, percent)
      PROVE  PlatesInv'
  BY <1>1, DrawHudKeepsPlates
<1>2. CASE DrawPlate
  BY <1>2, DrawPlateKeepsPlates
<1>3. CASE RestoreCanvas
  <2>1. UNCHANGED <<infos, plates>> /\ plate' = NoCall
    BY <1>3 DEF RestoreCanvas
  <2>2. ~plate'.running
    BY <2>1 DEF NoCall
  <2>3. QED
    BY <2>1, <2>2 DEF PlatesInv
<1>4. CASE GameDraws
  <2>1. UNCHANGED <<infos, plate>> /\ plates' = <<>>
    BY <1>4 DEF GameDraws
  <2>2. plates' \in Seq(WholePlates)
    BY <2>1
  <2>3. QED
    BY <2>1, <2>2 DEF PlatesInv
<1>5. CASE UNCHANGED plateVars
  BY <1>5 DEF plateVars, PlatesInv
<1>6. QED
  BY <1>1, <1>2, <1>3, <1>4, <1>5 DEF PlateNext

LEMMA PlatesConclusion == PlatesInv => PlatesWhole
<1> SUFFICES ASSUME PlatesInv, NEW i \in 1 .. Len(plates)
             PROVE  /\ \A r \in 1 .. Len(plates[i].rects) :
                         plates[i].rects[r] \in WholeRects
                    /\ plates[i].stats = plates[i].whole
  BY DEF PlatesWhole, WholeRects
<1>1. plates[i] \in WholePlates
  BY DEF PlatesInv
<1>2. plates[i].rects \in Seq(WholeRects) /\ plates[i].stats = plates[i].whole
  BY <1>1 DEF WholePlates
<1>3. QED
  BY <1>2

\* Whatever is drawn, the call keeps what it saved, and each plate may raise
\* the line height.
LEMMA PlateStep == PlateInv /\ PlatesInv /\ [PlateNext]_plateVars => PlateInv'
<1> SUFFICES ASSUME PlateInv, PlatesInv, [PlateNext]_plateVars PROVE PlateInv'
  OBVIOUS
<1>0. plateCanvas.line \in Int
  BY DEF PlateInv
<1>1. ASSUME NEW spectating, NEW ready, NEW options, NEW percent,
             DrawHud(spectating, ready, options, percent)
      PROVE  PlateInv'
  <2>1. /\ given' = plateCanvas /\ plateCanvas' = plateCanvas /\ ~plate.running
        /\ plates = <<>> /\ plates' = <<>>
    BY <1>1 DEF DrawHud
  <2>2. Heights' = {plateCanvas.line}
    <3>1. Len(<<>>) = 0 /\ 1 .. 0 = {}
      OBVIOUS
    <3>2. QED
      BY <2>1, <3>1 DEF Heights
  <2>3. plate = NoCall
    BY <2>1 DEF PlateInv, RunningCall
  <2>4. plate' = NoCall \/ RunningCall'
    <3>1. CASE plate' = plate
      BY <2>3, <3>1
    <3>2. CASE plate' = [running |-> TRUE, next |-> 1,
                         saved |-> [pen |-> plateCanvas.pen, colour |-> plateCanvas.colour],
                         options |-> options, scale |-> MultiplyScale(options.scale, percent)]
      BY <2>1, <3>2 DEF RunningCall
    <3>3. QED
      BY <1>1, <3>1, <3>2 DEF DrawHud
  <2>5. QED
    BY <1>0, <2>1, <2>2, <2>4 DEF PlateInv, IsPlateCanvas
<1>2. CASE DrawPlate
  <2>1. plate' = [plate EXCEPT !.next = @ + 1] /\ given' = given /\ plate.running
    BY <1>2 DEF DrawPlate
  <2>2. RunningCall
    BY <2>1 DEF PlateInv, NoCall
  <2>3. PICK next, options, scale : plate =
          [running |-> TRUE, next |-> next, saved |-> [pen |-> given.pen, colour |-> given.colour],
           options |-> options, scale |-> scale]
    BY <2>2 DEF RunningCall
  <2>4. PICK n : plate' = [plate EXCEPT !.next = n]
    BY <2>1
  <2>5. plate' =
          [running |-> TRUE, next |-> n, saved |-> [pen |-> given.pen, colour |-> given.colour],
           options |-> options, scale |-> scale]
    BY <2>3, <2>4
  <2>6. RunningCall'
    BY <2>1, <2>5 DEF RunningCall
  <2>7. CASE UNCHANGED <<plateCanvas, plates>>
    BY <2>1, <2>6, <2>7 DEF PlateInv, Heights, IsPlateCanvas
  <2>8. ASSUME NEW p, NEW colour, plates' = Append(plates, p),
               plateCanvas' = [pen |-> p.pen, line |-> Upper(plateCanvas.line, p.tallest), colour |-> colour]
        PROVE  PlateInv'
    <3>1. plates \in Seq(WholePlates) /\ plates' \in Seq(WholePlates)
      BY <1>2, PlatesStep DEF PlatesInv, PlateNext
    <3>2. p \in WholePlates
      <4>1. PICK T : T = WholePlates \cup {p}
        OBVIOUS
      <4>2. plates \in Seq(T) /\ p \in T
        BY <3>1, <4>1
      <4>3. Len(plates) \in Nat /\ Len(plates') = Len(plates) + 1 /\ plates'[Len(plates) + 1] = p
        BY <2>8, <4>2, AppendProperties
      <4>4. Len(plates) + 1 \in 1 .. Len(plates')
        BY <4>3
      <4>5. QED
        BY <3>1, <4>3, <4>4
    <3>3. p.tallest \in Int
      BY <3>2 DEF WholePlates
    <3>4. Heights' = Heights \cup {p.tallest}
      BY <2>1, <2>8, <3>1, HeightsAppended DEF IsSequence
    <3>5. plateCanvas'.line = Upper(plateCanvas.line, p.tallest) /\ IsPlateCanvas(plateCanvas')
      BY <2>8 DEF IsPlateCanvas
    <3>6. /\ Heights \subseteq Int /\ plateCanvas.line \in Heights
          /\ \A height \in Heights : plateCanvas.line >= height
      BY DEF PlateInv
    <3>7. plateCanvas'.line \in Heights' /\ \A height \in Heights' : plateCanvas'.line >= height
      BY <1>0, <3>3, <3>4, <3>5, <3>6 DEF Upper
    <3>8. Heights' \subseteq Int
      BY <3>3, <3>4, <3>6
    <3>9. QED
      BY <2>6, <3>5, <3>7, <3>8 DEF PlateInv
  <2>9. QED
    BY <1>2, <2>7, <2>8 DEF DrawPlate
<1>3. CASE RestoreCanvas
  <2>1. RunningCall
    BY <1>3 DEF RestoreCanvas, PlateInv, NoCall
  <2>2. plate.saved = [pen |-> given.pen, colour |-> given.colour]
    BY <2>1 DEF RunningCall
  <2>3. /\ plateCanvas' = [plateCanvas EXCEPT !.pen = given.pen, !.colour = given.colour]
        /\ plate' = NoCall /\ UNCHANGED <<given, plates>>
    BY <1>3, <2>2 DEF RestoreCanvas
  <2>4. plateCanvas' = [pen |-> given.pen, line |-> plateCanvas.line, colour |-> given.colour]
    <3>1. plateCanvas = [pen |-> plateCanvas.pen, line |-> plateCanvas.line, colour |-> plateCanvas.colour]
      BY DEF PlateInv, IsPlateCanvas
    <3>2. PICK c : c = [plateCanvas EXCEPT !.pen = given.pen]
      OBVIOUS
    <3>3. c = [pen |-> given.pen, line |-> plateCanvas.line, colour |-> plateCanvas.colour]
      BY <3>1, <3>2
    <3>4. plateCanvas' = [c EXCEPT !.colour = given.colour]
      BY <2>3, <3>2
    <3>5. QED
      BY <3>3, <3>4
  <2>5. plateCanvas'.line = plateCanvas.line /\ IsPlateCanvas(plateCanvas')
        /\ plateCanvas'.pen = given.pen /\ plateCanvas'.colour = given.colour
    BY <2>4 DEF IsPlateCanvas
  <2>6. Heights' = Heights
    BY <2>3 DEF Heights
  <2>7. QED
    BY <2>3, <2>5, <2>6 DEF PlateInv
<1>4. CASE GameDraws
  <2>1. given' = plateCanvas' /\ plates' = <<>> /\ plate = NoCall /\ plate' = NoCall
    BY <1>4 DEF GameDraws, PlateInv, RunningCall
  <2>2. IsPlateCanvas(plateCanvas') /\ plateCanvas'.line \in Int
    BY <1>4 DEF GameDraws, IsPlateCanvas, Whole
  <2>3. Heights' = {plateCanvas'.line}
    <3>1. Len(<<>>) = 0 /\ 1 .. 0 = {}
      OBVIOUS
    <3>2. QED
      BY <2>1, <3>1 DEF Heights
  <2>4. QED
    BY <2>1, <2>2, <2>3 DEF PlateInv
<1>5. CASE UNCHANGED plateVars
  BY <1>5 DEF plateVars, PlateInv, RunningCall, Heights
<1>6. QED
  BY <1>1, <1>2, <1>3, <1>4, <1>5 DEF PlateNext

LEMMA PlateConclusion == PlateInv => PlateCanvasHandedBack
  BY DEF PlateInv, PlateCanvasHandedBack, RunningCall, Heights, NoCall

-----------------------------------------------------------------------------
(***************************************************************************)
(* The rows of the F2 statistics.                                          *)
(***************************************************************************)
Boxes == [x : Int, y : Int, width : Int, height : Int]
DrawnRows == [ofStats : BOOLEAN, retail : Boxes, drawn : Boxes]

F2Scales == {scale \in Nat : scale >= 50}

\* A place in the retail layout, and where it is at the call's scale.
At(y) == stats.base + Scaled(y - stats.base, stats.scale)

Own(i) == rows[i].ofStats /\ rows[i].retail.width > Pixel
Bottom(box) == box.y + box.height

\* Where retail puts the next row.
After(i) == rows[i].retail.y + RowHeight + 2 * Pixel

\* The text of other code is left alone; a row of the statistics ends where the
\* retail row does, begins where that row is at the scale, and ends above where
\* the next one is.
RowPlaced(i) ==
  /\ ~rows[i].ofStats => rows[i].drawn = rows[i].retail
  /\ Own(i) => /\ rows[i].drawn.x + rows[i].drawn.width = rows[i].retail.x + rows[i].retail.width
               /\ rows[i].drawn.y = At(rows[i].retail.y)
               /\ Bottom(rows[i].drawn) < At(After(i))
               /\ After(i) <= stats.y

RunningF2 ==
  /\ \E end \in Int : stats =
       [running |-> TRUE, right |-> stats.right, base |-> stats.base, y |-> stats.y,
        scale |-> stats.scale, previous |-> NoF2Context, end |-> end]
  /\ stats.right \in Int /\ stats.base \in Int /\ stats.y \in Int /\ stats.scale \in F2Scales
  /\ stats.base <= stats.y
  /\ f2Context = IF stats.scale = 100 THEN NoF2Context
                 ELSE [active |-> TRUE, scale |-> stats.scale, baseY |-> stats.base]
  /\ \A i \in DOMAIN rows : RowPlaced(i)
  /\ \A i, j \in DOMAIN rows : Own(i) /\ Own(j) /\ i < j => After(i) <= rows[j].retail.y

F2Inv ==
  /\ rows \in Seq(DrawnRows) /\ resolution \in Int
  /\ IF stats.running THEN RunningF2 ELSE F2RowsKeepLayout

\* Rounding down adds up to no more than rounding the sum, and keeps the order.
LEMMA ScaledSum ==
  ASSUME NEW a \in Int, NEW b \in Int, NEW scale \in F2Scales
  PROVE  /\ Scaled(a, scale) \in Int
         /\ Scaled(a, scale) + Scaled(b, scale) <= Scaled(a + b, scale)
         /\ b >= 0 => Scaled(b, scale) >= 0 /\ Scaled(a, scale) <= Scaled(a + b, scale)
         /\ b >= Pixel => Scaled(b, scale) >= 4 /\ Scaled(a, scale) + 4 <= Scaled(a + b, scale)
<1>1. PICK p \in Int : p = a * scale
  BY DEF F2Scales
<1>2. PICK q \in Int : q = b * scale
  BY DEF F2Scales
<1>3. (a + b) * scale = p + q
  BY <1>1, <1>2, SMT DEF F2Scales
<1>4. b >= 0 => q >= 0
  BY <1>2, SMT DEF F2Scales
<1>5. b >= Pixel => q >= 400
  BY <1>2, SMT DEF F2Scales, Pixel
<1>6. Scaled(a, scale) = p \div 100 /\ Scaled(b, scale) = q \div 100
      /\ Scaled(a + b, scale) = (p + q) \div 100
  BY <1>1, <1>2, <1>3 DEF Scaled
<1>7. /\ p \div 100 \in Int /\ p \div 100 + q \div 100 <= (p + q) \div 100
      /\ q >= 0 => q \div 100 >= 0
      /\ q >= 400 => q \div 100 >= 4
  BY SMT
<1>8. q \div 100 \in Int /\ (p + q) \div 100 \in Int
  BY SMT
<1>9. QED
  BY <1>4, <1>5, <1>6, <1>7, <1>8

\* At 100 percent everything is as it was.
LEMMA ScaledWhole == ASSUME NEW a \in Int PROVE Scaled(a, 100) = a
  BY SMT DEF Scaled

\* The scale of a window is at least half.
LEMMA ScaleOfWindow == ASSUME NEW v \in Int PROVE ScaleForVerticalResolution(v) \in F2Scales
<1>1. CASE v > 0
  <2>1. PICK q \in Int : q = (100 * (v - 1080)) \div 2160
    BY SMT
  <2>2. q >= -50
    BY <1>1, <2>1, SMT
  <2>3. ScaleForVerticalResolution(v) = 100 + q
    BY <1>1, <2>1 DEF ScaleForVerticalResolution, Reference
  <2>4. QED
    BY <2>2, <2>3 DEF F2Scales
<1>2. QED
  BY <1>1 DEF ScaleForVerticalResolution, F2Scales

\* The width a text has in the font it gets.
LEMMA FitKeepsWidth ==
  ASSUME NEW text \in Texts, NEW offered \in {F2Replacement, NoFont}, NEW scale \in F2Scales,
         NEW fit,
         fit = Fitted(F2Font, IF scale > 100 THEN offered ELSE NoFont, text,
                      Scaled(FontSize[F2Font][text].height, scale),
                      Scaled(FontSize[F2Font][text].width, scale))
  PROVE  fit.width \in Int /\ (FontSize[F2Font][text].width > 0 => fit.width > 0)
<1> DEFINE size == FontSize[F2Font][text]
           other == FontSize[F2Replacement][text]
           height == Scaled(size.height, scale)
<1>1. size.width \in Nat /\ size.height \in Nat /\ other.width \in Nat /\ other.height \in Nat
  BY F2FontAssumption
<1>2. /\ size.width > 0 => size.width >= Pixel
      /\ size.width > 0 /\ HasSize(other) => other.width * size.height >= other.height
  BY F2FontAssumption
<1>3. CASE scale > 100 /\ offered # NoFont /\ HasSize(other)
  <2>1. offered = F2Replacement
    BY <1>3
  <2>2. fit.width = (other.width * height) \div other.height
    BY <1>3, <2>1 DEF Fitted
  <2>3. height \in Int /\ height >= size.height
    <3>1. PICK p \in Int : p = size.height * scale
      BY <1>1 DEF F2Scales
    <3>2. p >= size.height * 100
      BY <1>1, <1>3, <3>1, SMT DEF F2Scales
    <3>3. height = p \div 100
      BY <3>1 DEF Scaled
    <3>4. QED
      BY <1>1, <3>2, <3>3, SMT
  <2> HIDE DEF height
  <2>4. PICK p \in Int : p = other.width * height
    BY <1>1, <2>3
  <2>5. size.width > 0 => p >= other.height
    <3>1. other.width * height >= other.width * size.height
      BY <1>1, <2>3, SMT
    <3>2. other.width * size.height \in Int /\ other.height \in Int
      BY <1>1
    <3>3. QED
      BY <1>2, <1>3, <2>4, <3>1, <3>2
  <2>6. other.height > 0
    BY <1>3 DEF HasSize
  <2>7. p \div other.height \in Int /\ (p >= other.height => p \div other.height > 0)
    BY <1>1, <2>6, SMT
  <2>8. fit.width = p \div other.height
    BY <2>2, <2>4
  <2>9. QED
    BY <2>5, <2>7, <2>8
<1>4. CASE ~(scale > 100 /\ offered # NoFont /\ HasSize(other))
  <2>1. fit.width = Scaled(size.width, scale)
    BY <1>4 DEF Fitted
  <2>2. 0 \in Int /\ size.width \in Int
    BY <1>1
  <2>3. Scaled(size.width, scale) \in Int /\ (size.width >= Pixel => Scaled(size.width, scale) >= 4)
    BY <2>2, ScaledSum
  <2>4. QED
    BY <1>2, <2>1, <2>3
<1>5. QED
  BY <1>3, <1>4

\* Places keep their order.
LEMMA PlacesKeepOrder ==
  ASSUME stats.base \in Int, stats.scale \in F2Scales, NEW a \in Int, NEW b \in Int, a <= b
  PROVE  At(a) \in Int /\ At(b) \in Int /\ At(a) <= At(b)
<1>1. a - stats.base \in Int /\ b - a \in Int /\ b - a >= 0
      /\ b - stats.base = (a - stats.base) + (b - a) /\ b - stats.base \in Int
  OBVIOUS
<1>2. Scaled(a - stats.base, stats.scale) <= Scaled((a - stats.base) + (b - a), stats.scale)
  BY <1>1, ScaledSum
<1>3. Scaled(a - stats.base, stats.scale) \in Int /\ Scaled(b - stats.base, stats.scale) \in Int
  BY <1>1, ScaledSum
<1>4. QED
  BY <1>1, <1>2, <1>3 DEF At

\* A scaled row, its shadow included, ends before the next one begins.
LEMMA RowBelow ==
  ASSUME stats.base \in Int, stats.scale \in F2Scales, NEW y \in Int, NEW height \in Nat,
         height <= RowHeight
  PROVE  /\ Scaled(height, stats.scale) \in Int /\ Scaled(Pixel, stats.scale) \in Int
         /\ At(y) + Scaled(height, stats.scale) + Scaled(Pixel, stats.scale)
              < At(y + RowHeight + 2 * Pixel)
<1> DEFINE s == stats.scale
           d == y - stats.base
           rest == RowHeight - height + Pixel
<1>1. RowHeight \in Nat /\ Pixel \in Int
  BY F2FontAssumption DEF Pixel
<1>2. d \in Int /\ height \in Int /\ d + height \in Int /\ d + height + Pixel \in Int
      /\ rest \in Int /\ rest >= Pixel
      /\ d + height + Pixel + rest = y + RowHeight + 2 * Pixel - stats.base
  BY <1>1 DEF Pixel
<1> HIDE DEF d, rest
<1>3. Scaled(d, s) \in Int /\ Scaled(height, s) \in Int /\ Scaled(Pixel, s) \in Int
      /\ Scaled(d + height, s) \in Int /\ Scaled(d + height + Pixel, s) \in Int
      /\ Scaled(d + height + Pixel + rest, s) \in Int
  BY <1>1, <1>2, ScaledSum
<1>4. Scaled(d, s) + Scaled(height, s) <= Scaled(d + height, s)
  BY <1>2, ScaledSum
<1>5. Scaled(d + height, s) + Scaled(Pixel, s) <= Scaled(d + height + Pixel, s)
  BY <1>1, <1>2, ScaledSum
<1>6. Scaled(d + height + Pixel, s) + 4 <= Scaled(d + height + Pixel + rest, s)
  BY <1>2, ScaledSum
<1>7. At(y) = stats.base + Scaled(d, s)
      /\ At(y + RowHeight + 2 * Pixel) = stats.base + Scaled(d + height + Pixel + rest, s)
  <2>1. At(y) = stats.base + Scaled(d, s)
    BY DEF At, d
  <2>2. PICK z \in Int : z = y + RowHeight + 2 * Pixel
    BY <1>1
  <2>3. z - stats.base = d + height + Pixel + rest
    BY <1>1, <1>2, <2>2
  <2>4. At(z) = stats.base + Scaled(d + height + Pixel + rest, s)
    BY <2>3 DEF At
  <2>5. QED
    BY <2>1, <2>2, <2>4
<1>8. QED
  BY <1>3, <1>4, <1>5, <1>6, <1>7

\* What a row is made of.
LEMMA RowTyped ==
  ASSUME rows \in Seq(DrawnRows), NEW i \in DOMAIN rows
  PROVE  Bottom(rows[i].drawn) \in Int /\ After(i) \in Int /\ rows[i].retail.y \in Int
<1>1. rows[i] \in DrawnRows
  OBVIOUS
<1>2. rows[i].drawn \in Boxes /\ rows[i].retail \in Boxes
  BY <1>1 DEF DrawnRows
<1> DEFINE ours == rows[i].drawn
           theirs == rows[i].retail
<1>3. \A box \in Boxes : box.y \in Int /\ box.height \in Int
  BY DEF Boxes
<1>4. ours.y \in Int /\ ours.height \in Int /\ theirs.y \in Int
  BY <1>2, <1>3, Zenon
<1> HIDE DEF ours, theirs
<1>5. RowHeight \in Nat
  BY F2FontAssumption
<1>6. ours.y + ours.height \in Int /\ theirs.y + RowHeight + 2 * Pixel \in Int
  BY <1>4, <1>5, SMT DEF Pixel
<1>7. QED
  BY <1>4, <1>6 DEF ours, theirs, Bottom, After

\* While a call runs its rows have the layout already.
LEMMA RunningLayout ==
  ASSUME RunningF2, rows \in Seq(DrawnRows)
  PROVE  /\ \A i \in DOMAIN rows : Own(i) =>
              rows[i].drawn.x + rows[i].drawn.width = rows[i].retail.x + rows[i].retail.width
         /\ \A i, j \in DOMAIN rows : Own(i) /\ Own(j) /\ i < j =>
              Bottom(rows[i].drawn) < rows[j].drawn.y
         /\ \A i \in DOMAIN rows : Own(i) => Bottom(rows[i].drawn) < At(stats.y)
         /\ \A i \in DOMAIN rows : ~rows[i].ofStats => rows[i].drawn = rows[i].retail
<1>1. \A i \in DOMAIN rows : RowPlaced(i)
  BY DEF RunningF2
<1>2. ASSUME NEW i \in DOMAIN rows
      PROVE  Bottom(rows[i].drawn) \in Int /\ After(i) \in Int /\ rows[i].retail.y \in Int
  BY RowTyped
<1>3. stats.base \in Int /\ stats.scale \in F2Scales /\ stats.y \in Int
  BY DEF RunningF2
<1>4. ASSUME NEW i \in DOMAIN rows, NEW j \in DOMAIN rows, Own(i), Own(j), i < j
      PROVE  Bottom(rows[i].drawn) < rows[j].drawn.y
  <2>1. After(i) <= rows[j].retail.y
    BY <1>4 DEF RunningF2
  <2>2. At(After(i)) <= At(rows[j].retail.y) /\ At(After(i)) \in Int /\ At(rows[j].retail.y) \in Int
    BY <1>2, <1>3, <2>1, PlacesKeepOrder
  <2>3. Bottom(rows[i].drawn) < At(After(i)) /\ rows[j].drawn.y = At(rows[j].retail.y)
    BY <1>1, <1>4 DEF RowPlaced
  <2>4. QED
    BY <1>2, <2>2, <2>3
<1>5. ASSUME NEW i \in DOMAIN rows, Own(i) PROVE Bottom(rows[i].drawn) < At(stats.y)
  <2>1. Bottom(rows[i].drawn) < At(After(i)) /\ After(i) <= stats.y
    BY <1>1, <1>5 DEF RowPlaced
  <2>2. At(After(i)) <= At(stats.y) /\ At(After(i)) \in Int /\ At(stats.y) \in Int
    BY <1>2, <1>3, <2>1, PlacesKeepOrder
  <2>3. QED
    BY <1>2, <2>1, <2>2
<1>6. QED
  BY <1>1, <1>4, <1>5 DEF RowPlaced

\* The invariant is at least the layout.
LEMMA F2Conclusion == F2Inv => F2RowsKeepLayout
  BY RunningLayout DEF F2Inv, F2RowsKeepLayout, Own, Bottom

LEMMA F2Initial == F2Init => F2Inv
<1> SUFFICES ASSUME F2Init PROVE F2Inv
  OBVIOUS
<1>1. ~stats.running /\ rows = <<>> /\ f2Context = NoF2Context /\ resolution \in Int
  BY F2FontAssumption DEF F2Init, NoStats
<1>2. rows \in Seq(DrawnRows) /\ DOMAIN rows = {}
  BY <1>1
<1>3. QED
  BY <1>1, <1>2 DEF F2Inv, F2RowsKeepLayout

\* A call begins without rows, at the scale of the window.
LEMMA BeginKeeps ==
  ASSUME F2Inv, NEW right \in Int, NEW y \in Int, BeginF2Stats(right, y)
  PROVE  F2Inv'
<1>1. ~stats.running /\ f2Context = NoF2Context
  BY DEF F2Inv, BeginF2Stats, F2RowsKeepLayout
<1>2. /\ stats' = [running |-> TRUE, right |-> right, base |-> y, y |-> y,
                   scale |-> F2Scale, previous |-> NoF2Context, end |-> y]
      /\ f2Context' = IF F2Scale = 100 THEN NoF2Context
                      ELSE [active |-> TRUE, scale |-> F2Scale, baseY |-> y]
      /\ rows' = <<>> /\ resolution' = resolution
  BY <1>1 DEF BeginF2Stats
<1>3. rows' \in Seq(DrawnRows) /\ DOMAIN rows' = {}
  BY <1>2
<1>4. F2Scale \in F2Scales
  BY ScaleOfWindow DEF F2Inv, F2Scale
<1> HIDE DEF F2Scale
<1>5. stats'.running /\ RunningF2'
  <2>1. /\ stats'.running /\ stats'.right = right /\ stats'.base = y /\ stats'.y = y
        /\ stats'.scale = F2Scale
    BY <1>2
  <2>2. \E end \in Int : stats' =
          [running |-> TRUE, right |-> stats'.right, base |-> stats'.base, y |-> stats'.y,
           scale |-> stats'.scale, previous |-> NoF2Context, end |-> end]
    BY <1>2, <2>1
  <2>3. f2Context' = IF stats'.scale = 100 THEN NoF2Context
                     ELSE [active |-> TRUE, scale |-> stats'.scale, baseY |-> stats'.base]
    BY <1>2, <2>1
  <2>4. stats'.right \in Int /\ stats'.base \in Int /\ stats'.y \in Int /\ stats'.scale \in F2Scales
        /\ stats'.base <= stats'.y
    BY <1>4, <2>1
  <2>5. (\A i \in DOMAIN rows : RowPlaced(i))'
        /\ (\A i, j \in DOMAIN rows : Own(i) /\ Own(j) /\ i < j => After(i) <= rows[j].retail.y)'
    BY <1>3
  <2>6. RunningF2'
    BY <2>2, <2>3, <2>4, <2>5 DEF RunningF2
  <2>7. QED
    BY <2>1, <2>6
<1>6. QED
  BY <1>2, <1>3, <1>5 DEF F2Inv

\* A call ends below its rows, and takes its context with it.
LEMMA EndKeeps ==
  ASSUME F2Inv, NEW failed \in BOOLEAN, EndF2Stats(failed)
  PROVE  F2Inv'
<1> DEFINE retailEnd == IF failed THEN stats.base - Pixel ELSE stats.y
           end == IF stats.scale = 100 \/ retailEnd < stats.base THEN retailEnd
                  ELSE stats.base + Scaled(retailEnd - stats.base, stats.scale)
<1>1. /\ RunningF2 /\ rows' = rows /\ resolution' = resolution /\ f2Context' = stats.previous
      /\ stats' = [stats EXCEPT !.running = FALSE, !.end = end] /\ (failed => rows = <<>>)
      /\ rows \in Seq(DrawnRows) /\ resolution \in Int
  BY DEF F2Inv, EndF2Stats
<1>2. ~failed => end = At(stats.y)
  <2>1. stats.base \in Int /\ stats.y \in Int /\ stats.base <= stats.y
    BY <1>1 DEF RunningF2
  <2>2. stats.scale = 100 => At(stats.y) = stats.y
    BY <2>1, ScaledWhole DEF At
  <2>3. QED
    BY <2>1, <2>2 DEF At
<1> HIDE DEF end
<1>3. stats'.running = FALSE /\ stats'.end = end /\ stats.previous = NoF2Context
  <2>1. PICK p \in Int : stats =
          [running |-> TRUE, right |-> stats.right, base |-> stats.base, y |-> stats.y,
           scale |-> stats.scale, previous |-> NoF2Context, end |-> p]
    BY <1>1 DEF RunningF2
  <2>2. QED
    BY <1>1, <2>1
<1>4. ASSUME NEW i \in DOMAIN rows, Own(i) PROVE Bottom(rows[i].drawn) <= end
  <2>1. rows # <<>>
    BY <1>4
  <2>2. Bottom(rows[i].drawn) < At(stats.y) /\ end = At(stats.y)
    BY <1>1, <1>2, <1>4, <2>1, RunningLayout
  <2>3. Bottom(rows[i].drawn) \in Int /\ At(stats.y) \in Int
    BY <1>1, <1>4, RowTyped, PlacesKeepOrder DEF RunningF2
  <2>4. QED
    BY <2>2, <2>3
<1>5. F2RowsKeepLayout'
  BY <1>1, <1>3, <1>4, RunningLayout DEF F2RowsKeepLayout, Own, Bottom
<1>6. QED
  BY <1>1, <1>3, <1>5 DEF F2Inv

\* The box of a new row: scaled about where the call began, or the retail one.
RowBox(text, fromStats, fit) ==
  LET size == FontSize[F2Font][text]
      x == stats.right - size.width
      scale == f2Context.scale
  IN  IF /\ f2Context.active /\ fromStats /\ scale # 100
         /\ size.width > 0 /\ fit.width > 0
        THEN Box(ScaledX(x, size.width, fit.width, scale),
                 f2Context.baseY + Scaled(stats.y - f2Context.baseY, scale),
                 fit.width + Scaled(Pixel, scale),
                 Scaled(size.height, scale) + Scaled(Pixel, scale))
        ELSE RetailRow(x, stats.y, size)

\* A row in the font it gets.
FitOf(text, offered) ==
  LET size == FontSize[F2Font][text]
  IN  Fitted(F2Font, IF f2Context.scale > 100 THEN offered ELSE NoFont, text,
             Scaled(size.height, f2Context.scale), Scaled(size.width, f2Context.scale))

\* The new row keeps the retail row's right edge, is where that row is at the
\* scale, and ends above where the next one will be.
LEMMA NewRow ==
  ASSUME RunningF2, NEW text \in Texts, NEW fromStats \in BOOLEAN,
         NEW offered \in {F2Replacement, NoFont},
         NEW retail, retail = RetailRow(stats.right - FontSize[F2Font][text].width, stats.y,
                                        FontSize[F2Font][text]),
         NEW box, box = RowBox(text, fromStats, FitOf(text, offered))
  PROVE  /\ retail \in Boxes /\ box \in Boxes /\ retail.y = stats.y
         /\ ~fromStats => box = retail
         /\ fromStats /\ retail.width > Pixel =>
              /\ box.x + box.width = retail.x + retail.width
              /\ box.y = At(stats.y)
              /\ Bottom(box) < At(stats.y + RowHeight + 2 * Pixel)
<1> DEFINE size == FontSize[F2Font][text]
           x == stats.right - size.width
           fit == FitOf(text, offered)
           s == stats.scale
<1>1. /\ stats.right \in Int /\ stats.base \in Int /\ stats.y \in Int /\ s \in F2Scales
      /\ f2Context = IF s = 100 THEN NoF2Context
                     ELSE [active |-> TRUE, scale |-> s, baseY |-> stats.base]
  BY DEF RunningF2
<1>2. size.width \in Nat /\ size.height \in Nat /\ size.height <= RowHeight /\ RowHeight \in Nat
  BY F2FontAssumption
<1>3. f2Context.scale = s
  BY <1>1 DEF NoF2Context
<1>4. fit.width \in Int /\ (size.width > 0 => fit.width > 0)
  BY <1>1, <1>3, FitKeepsWidth DEF FitOf
<1> HIDE DEF size, fit
<1>5. /\ retail = [x |-> x, y |-> stats.y, width |-> size.width + Pixel, height |-> size.height + Pixel]
      /\ retail \in Boxes /\ retail.y = stats.y
  BY <1>1, <1>2 DEF RetailRow, Box, Boxes, Pixel, size
<1>6. /\ Scaled(size.height, s) \in Int /\ Scaled(Pixel, s) \in Int
      /\ At(stats.y) + Scaled(size.height, s) + Scaled(Pixel, s) < At(stats.y + RowHeight + 2 * Pixel)
  BY <1>1, <1>2, RowBelow
<1>7. At(stats.y) \in Int /\ At(stats.y) = stats.base + Scaled(stats.y - stats.base, s)
  <2>1. stats.y <= stats.y
    BY <1>1
  <2>2. QED
    BY <1>1, <2>1, PlacesKeepOrder DEF At
<1>8. CASE f2Context.active /\ fromStats /\ s # 100 /\ size.width > 0 /\ fit.width > 0
  <2>1. f2Context.baseY = stats.base
    BY <1>1, <1>8
  <2>2. box = [x |-> x + size.width + Pixel - fit.width - Scaled(Pixel, s), y |-> At(stats.y),
               width |-> fit.width + Scaled(Pixel, s),
               height |-> Scaled(size.height, s) + Scaled(Pixel, s)]
    BY <1>3, <1>7, <1>8, <2>1 DEF RowBox, Box, ScaledX, size, fit
  <2>3. x \in Int /\ Pixel \in Int
    BY <1>1, <1>2 DEF Pixel
  <2> HIDE DEF x
  <2>4. box \in Boxes
    BY <1>2, <1>4, <1>6, <1>7, <2>2, <2>3 DEF Boxes
  <2>5. box.x + box.width = retail.x + retail.width
    BY <1>2, <1>4, <1>5, <1>6, <2>2, <2>3
  <2>6. Bottom(box) < At(stats.y + RowHeight + 2 * Pixel) /\ box.y = At(stats.y)
    <3>1. Bottom(box) = At(stats.y) + (Scaled(size.height, s) + Scaled(Pixel, s))
      BY <2>2 DEF Bottom
    <3>2. QED
      BY <1>6, <1>7, <2>2, <3>1
  <2>7. QED
    BY <1>5, <1>8, <2>4, <2>5, <2>6
<1>9. CASE ~(f2Context.active /\ fromStats /\ s # 100 /\ size.width > 0 /\ fit.width > 0)
  <2>1. box = retail
    BY <1>3, <1>9 DEF RowBox, size, fit
  <2>2. ASSUME fromStats, retail.width > Pixel
        PROVE  box.y = At(stats.y) /\ Bottom(box) < At(stats.y + RowHeight + 2 * Pixel)
    <3>1. size.width > 0
      BY <1>2, <1>5, <2>2 DEF Pixel
    <3>2. s = 100
      BY <1>1, <1>4, <1>9, <2>2, <3>1
    <3>3. At(stats.y) = stats.y
      <4>1. stats.y - stats.base \in Int
        BY <1>1
      <4>2. QED
        BY <1>1, <1>7, <3>2, <4>1, ScaledWhole
    <3>4. Scaled(size.height, s) = size.height /\ Scaled(Pixel, s) = Pixel
      BY <1>2, <3>2, ScaledWhole DEF Pixel
    <3>5. Bottom(box) = stats.y + (size.height + Pixel)
      BY <1>5, <2>1 DEF Bottom
    <3>6. QED
      BY <1>1, <1>2, <1>5, <1>6, <1>7, <2>1, <3>3, <3>4, <3>5
  <2>3. QED
    BY <1>5, <2>1, <2>2
<1>10. QED
  BY <1>8, <1>9

\* A row takes its place beneath the others.
LEMMA TextKeeps ==
  ASSUME F2Inv, NEW text \in Texts, NEW fromStats \in BOOLEAN,
         NEW offered \in {F2Replacement, NoFont}, F2Text(text, fromStats, offered)
  PROVE  F2Inv'
<1> DEFINE next == IF fromStats THEN stats.y + RowHeight + 2 * Pixel ELSE stats.y
<1>1. /\ stats.running /\ RunningF2 /\ rows \in Seq(DrawnRows) /\ resolution \in Int
  BY DEF F2Inv, F2Text
<1>0. PICK n \in Nat : n = Len(rows) /\ DOMAIN rows = 1 .. n
  BY <1>1
<1>2. PICK retail : retail = RetailRow(stats.right - FontSize[F2Font][text].width, stats.y,
                                       FontSize[F2Font][text])
  OBVIOUS
<1>3. PICK box : box = RowBox(text, fromStats, FitOf(text, offered))
  OBVIOUS
<1>4. /\ retail \in Boxes /\ box \in Boxes /\ retail.y = stats.y
      /\ ~fromStats => box = retail
      /\ fromStats /\ retail.width > Pixel =>
           /\ box.x + box.width = retail.x + retail.width
           /\ box.y = At(stats.y)
           /\ Bottom(box) < At(stats.y + RowHeight + 2 * Pixel)
  BY <1>1, <1>2, <1>3, NewRow
<1>5. PICK row : row = [ofStats |-> fromStats, retail |-> retail, drawn |-> box]
  OBVIOUS
<1>6. /\ rows' = Append(rows, row) /\ resolution' = resolution /\ f2Context' = f2Context
      /\ stats' = [stats EXCEPT !.y = next]
  BY <1>2, <1>3, <1>5 DEF F2Text, RowBox, FitOf
<1>7. row \in DrawnRows
  BY <1>4, <1>5 DEF DrawnRows
<1>8. /\ rows' \in Seq(DrawnRows) /\ DOMAIN rows' = 1 .. n + 1
      /\ \A i \in 1 .. n : rows'[i] = rows[i]
      /\ rows'[n + 1] = row
  BY <1>0, <1>1, <1>6, <1>7, AppendProperties
<1>9. /\ stats.base \in Int /\ stats.y \in Int /\ stats.right \in Int /\ stats.scale \in F2Scales
      /\ stats.base <= stats.y /\ RowHeight \in Nat
      /\ next \in Int /\ stats.y <= next
  BY <1>1, F2FontAssumption DEF RunningF2, Pixel
<1> HIDE DEF next
<1>10. \E end \in Int : stats' =
         [running |-> TRUE, right |-> stats.right, base |-> stats.base, y |-> next,
          scale |-> stats.scale, previous |-> NoF2Context, end |-> end]
  <2>1. PICK end \in Int : stats =
          [running |-> TRUE, right |-> stats.right, base |-> stats.base, y |-> stats.y,
           scale |-> stats.scale, previous |-> NoF2Context, end |-> end]
    BY <1>1 DEF RunningF2
  <2>2. PICK right, base, y0, scale : stats.right = right /\ stats.base = base /\ stats.y = y0
                                      /\ stats.scale = scale
    OBVIOUS
  <2>3. PICK y : y = next
    OBVIOUS
  <2>4. stats = [running |-> TRUE, right |-> right, base |-> base, y |-> y0,
                 scale |-> scale, previous |-> NoF2Context, end |-> end]
    BY <2>1, <2>2
  <2>5. stats' = [stats EXCEPT !.y = y]
    BY <1>6, <2>3
  <2>6. stats' = [running |-> TRUE, right |-> right, base |-> base, y |-> y,
                  scale |-> scale, previous |-> NoF2Context, end |-> end]
    BY <2>4, <2>5
  <2>7. QED
    BY <2>2, <2>3, <2>6
<1>11. /\ stats'.running /\ stats'.right = stats.right /\ stats'.base = stats.base
       /\ stats'.scale = stats.scale /\ stats'.y = next
  BY <1>10
<1>12. \A y : At(y)' = At(y)
  BY <1>11 DEF At
<1>13. ASSUME NEW i \in 1 .. n PROVE RowPlaced(i)' /\ (Own(i) <=> Own(i)') /\ After(i)' = After(i)
  <2>1. (Own(i) <=> Own(i)') /\ After(i)' = After(i) /\ rows'[i] = rows[i]
    BY <1>8 DEF Own, After
  <2>2. RowPlaced(i) /\ After(i) \in Int
    BY <1>0, <1>1, RowTyped DEF RunningF2
  <2>3. At(After(i))' = At(After(i)) /\ At(rows[i].retail.y)' = At(rows[i].retail.y)
    BY <2>1, <1>11 DEF At
  <2>4. QED
    BY <1>9, <1>11, <2>1, <2>2, <2>3 DEF RowPlaced
<1>14. (Own(n + 1)' <=> fromStats /\ retail.width > Pixel)
       /\ After(n + 1)' = stats.y + RowHeight + 2 * Pixel
  BY <1>4, <1>5, <1>8 DEF Own, After
<1>15. RowPlaced(n + 1)'
  <2>1. rows'[n + 1].ofStats = fromStats /\ rows'[n + 1].retail = retail /\ rows'[n + 1].drawn = box
    BY <1>5, <1>8
  <2>2. At(rows[n + 1].retail.y)' = At(stats.y)
    BY <1>4, <1>11, <2>1 DEF At
  <2>3. At(After(n + 1))' = At(stats.y + RowHeight + 2 * Pixel)
    BY <1>11, <1>14 DEF At
  <2>4. fromStats => stats'.y = stats.y + RowHeight + 2 * Pixel
    BY <1>11 DEF next
  <2>5. QED
    BY <1>4, <1>9, <1>11, <1>14, <2>1, <2>2, <2>3, <2>4 DEF RowPlaced
<1>16. ASSUME NEW i \in 1 .. n + 1, NEW j \in 1 .. n + 1, Own(i)', Own(j)', i < j
       PROVE  After(i)' <= rows'[j].retail.y
  <2>1. i \in 1 .. n
    BY <1>0, <1>16
  <2>2. After(i)' = After(i) /\ Own(i)
    BY <1>13, <1>16, <2>1
  <2>3. CASE j = n + 1
    <3>1. rows'[j].retail.y = stats.y
      BY <1>4, <1>5, <1>8, <2>3
    <3>2. RowPlaced(i)
      BY <1>0, <1>1, <2>1 DEF RunningF2
    <3>3. After(i) <= stats.y
      BY <2>2, <3>2 DEF RowPlaced
    <3>4. QED
      BY <2>2, <3>1, <3>3
  <2>4. CASE j # n + 1
    <3>1. j \in 1 .. n
      BY <1>0, <2>4
    <3>2. Own(j) /\ rows'[j] = rows[j]
      BY <1>8, <1>13, <1>16, <3>1
    <3>3. QED
      BY <1>0, <1>1, <1>16, <2>1, <2>2, <3>1, <3>2 DEF RunningF2
  <2>5. QED
    BY <2>3, <2>4
<1>17. RunningF2'
  <2>1. \A i \in DOMAIN rows' : RowPlaced(i)'
    BY <1>0, <1>8, <1>13, <1>15
  <2>2. \A i, j \in DOMAIN rows' : Own(i)' /\ Own(j)' /\ i < j => After(i)' <= rows'[j].retail.y
    BY <1>8, <1>16
  <2>3. f2Context' = IF stats'.scale = 100 THEN NoF2Context
                     ELSE [active |-> TRUE, scale |-> stats'.scale, baseY |-> stats'.base]
    BY <1>1, <1>6, <1>11 DEF RunningF2
  <2>4. \E end \in Int : stats' =
          [running |-> TRUE, right |-> stats'.right, base |-> stats'.base, y |-> stats'.y,
           scale |-> stats'.scale, previous |-> NoF2Context, end |-> end]
    <3>1. PICK end \in Int : stats' =
            [running |-> TRUE, right |-> stats.right, base |-> stats.base, y |-> next,
             scale |-> stats.scale, previous |-> NoF2Context, end |-> end]
      BY <1>10
    <3>2. QED
      BY <1>11, <3>1
  <2>5. stats'.right \in Int /\ stats'.base \in Int /\ stats'.y \in Int /\ stats'.scale \in F2Scales
        /\ stats'.base <= stats'.y
    BY <1>9, <1>11
  <2>6. QED
    BY <2>1, <2>2, <2>3, <2>4, <2>5 DEF RunningF2
<1>18. QED
  BY <1>1, <1>6, <1>8, <1>11, <1>17 DEF F2Inv

LEMMA F2Step == F2Inv /\ [F2Next]_f2Vars => F2Inv'
<1> SUFFICES ASSUME F2Inv, [F2Next]_f2Vars PROVE F2Inv'
  OBVIOUS
<1>1. ASSUME NEW right \in {100 * Pixel, 200 * Pixel}, NEW y \in {8 * Pixel, 24 * Pixel},
             BeginF2Stats(right, y)
      PROVE  F2Inv'
  <2>1. right \in Int /\ y \in Int
    BY DEF Pixel
  <2>2. QED
    BY <1>1, <2>1, BeginKeeps
<1>2. ASSUME NEW text \in Texts, NEW fromStats \in BOOLEAN,
             NEW offered \in {F2Replacement, NoFont}, F2Text(text, fromStats, offered)
      PROVE  F2Inv'
  BY <1>2, TextKeeps
<1>3. ASSUME NEW failed \in BOOLEAN, EndF2Stats(failed) PROVE F2Inv'
  BY <1>3, EndKeeps
<1>4. CASE WindowResized
  <2>1. ~stats.running /\ resolution' \in Int
        /\ f2Context' = f2Context /\ stats' = stats /\ rows' = rows
    BY <1>4, F2FontAssumption DEF WindowResized
  <2>2. QED
    BY <2>1 DEF F2Inv, F2RowsKeepLayout
<1>5. CASE UNCHANGED f2Vars
  <2>1. resolution' = resolution /\ f2Context' = f2Context /\ stats' = stats /\ rows' = rows
    BY <1>5 DEF f2Vars
  <2>2. QED
    BY <2>1 DEF F2Inv, F2RowsKeepLayout, RunningF2, RowPlaced, Own, After, At, Bottom
<1>6. QED
  BY <1>1, <1>2, <1>3, <1>4, <1>5 DEF F2Next

-----------------------------------------------------------------------------
(***************************************************************************)
(* Where the combat text hooks draw.                                       *)
(***************************************************************************)
\* What a scaled length and a half lose.
LEMMA ScaledBounds ==
  ASSUME NEW length \in Int, NEW percent \in Int
  PROVE  /\ length * percent \in Int /\ Scaled(length, percent) \in Int
         /\ 100 * Scaled(length, percent) <= length * percent
         /\ length * percent <= 100 * Scaled(length, percent) + 99
<1>1. PICK m : m = length * percent /\ m \in Int
  BY SMT
<1>2. m \div 100 \in Int /\ 100 * (m \div 100) <= m /\ m <= 100 * (m \div 100) + 99
  BY <1>1, SMT
<1>3. QED
  BY <1>1, <1>2 DEF Scaled

LEMMA HalfBounds ==
  ASSUME NEW a \in Int
  PROVE  a \div 2 \in Int /\ (a = 2 * (a \div 2) \/ a = 2 * (a \div 2) + 1)
  BY SMT

LEMMA FontLengths ==
  ASSUME NEW font \in Fonts, NEW text \in Texts
  PROVE  FontSize[font][text].width \in Nat /\ FontSize[font][text].height \in Nat
  BY SizesAssumption

\* A text that is fitted has a width.
LEMMA FittedWidth ==
  ASSUME NEW font, NEW offered \in Fonts \cup {NoFont}, NEW text \in Texts,
         NEW height \in Int, NEW fallback \in Int
  PROVE  Fitted(font, offered, text, height, fallback).width \in Int
<1>1. CASE offered # NoFont /\ HasSize(FontSize[offered][text])
  <2>1. offered \in Fonts
    BY <1>1
  <2>2. PICK w \in Nat, h \in Nat : /\ w = FontSize[offered][text].width
                                    /\ h = FontSize[offered][text].height
    BY <2>1, FontLengths
  <2>3. h > 0
    BY <1>1, <2>2 DEF HasSize
  <2>4. PICK m \in Int : m = w * height
    BY SMT
  <2>5. m \div h \in Int
    BY <2>3, SMT
  <2>6. Fitted(font, offered, text, height, fallback).width = (w * height) \div h
    BY <1>1, <2>2 DEF Fitted
  <2>7. QED
    BY <2>4, <2>5, <2>6
<1>2. CASE ~(offered # NoFont /\ HasSize(FontSize[offered][text]))
  BY <1>2 DEF Fitted
<1>3. QED
  BY <1>1, <1>2

\* The box that a scaled combat text fills.
ScaledHeight(c, text) == Scaled(FontSize[c.font][text].height, scalePercent)
ScaledWidth(c, text, offered) ==
  Fitted(c.font, IF scalePercent > 100 THEN offered ELSE NoFont, text, ScaledHeight(c, text),
         Scaled(FontSize[c.font][text].width, scalePercent)).width
PenX(c, text, site, offered) ==
  c.x + ShadowAdjustment(site)
    - IF c.centred THEN 0 ELSE (ScaledWidth(c, text, offered) - FontSize[c.font][text].width) \div 2
PenY(c, text, site) ==
  LET baseline == combatContext.baselineY - BaselineOffset(site)
  IN  baseline - Scaled(baseline - c.y, scalePercent) + ShadowAdjustment(site)
        - (ScaledHeight(c, text) - FontSize[c.font][text].height) \div 2

LEMMA ScaledTextBox ==
  ASSUME NEW c, IsCanvas(c), NEW text, NEW site, NEW offered
  PROVE  LET x == PenX(c, text, site, offered)
             width == ScaledWidth(c, text, offered)
         IN  DrawScaledCombatText(c, text, site, offered).drawn =
               Box(IF c.centred THEN x - width \div 2 ELSE x, PenY(c, text, site),
                   width, ScaledHeight(c, text))
<1> DEFINE x == PenX(c, text, site, offered)
           y == PenY(c, text, site)
           width == ScaledWidth(c, text, offered)
           height == ScaledHeight(c, text)
           pen == [c EXCEPT !.x = x, !.y = y]
<1>1. MeasureText(c, c.font, text).size = FontSize[c.font][text]
  BY DEF MeasureText
<1>2. DrawScaledCombatText(c, text, site, offered).drawn = AtPen(pen, width, height)
  BY <1>1 DEF DrawScaledCombatText, ScaledHeight, ScaledWidth, PenX, PenY
<1>3. pen.x = x /\ pen.y = y /\ pen.centred = c.centred
  BY PenMoved
<1> HIDE DEF pen
<1>4. AtPen(pen, width, height) = Box(IF c.centred THEN x - width \div 2 ELSE x, y, width, height)
  BY <1>3 DEF AtPen
<1>5. QED
  BY <1>2, <1>4

\* The retail box of a text.
LEMMA RetailBox ==
  ASSUME NEW c, IsCanvas(c), NEW text
  PROVE  LET size == FontSize[c.font][text]
         IN  DrawRetail(c, text).drawn =
               Box(IF c.centred THEN c.x - size.width \div 2 ELSE c.x, c.y, size.width, size.height)
  BY DEF DrawRetail, AtPen

Small(error) == error \in -500 .. 500

\* Across: how far a text and its scaled copy, side pixels from the anchor,
\* are from one scale, of centred texts and of others.
CentredError(x, side, percent, q, w, fitted) ==
  100 * (2 * (x + 8 * side + side * q - fitted \div 2) + fitted - 2 * x)
    - percent * (2 * (x + 8 * side - w \div 2) + w - 2 * x)
LeftError(x, side, percent, q, w, fitted) ==
  100 * (2 * (x + 8 * side + side * q - (fitted - w) \div 2) + fitted - (2 * x + w))
    - percent * (2 * (x + 8 * side) + w - (2 * x + w))

LEMMA ScaledAcross ==
  ASSUME NEW x \in Int, NEW side \in {-1, 0, 1}, NEW percent \in 50 .. 200, NEW q \in Int,
         100 * q <= 8 * (percent - 100), 8 * (percent - 100) <= 100 * q + 99,
         NEW w \in Int, NEW fitted \in Int
  PROVE  /\ Small(CentredError(x, side, percent, q, w, fitted))
         /\ Small(LeftError(x, side, percent, q, w, fitted))
<1>1. PICK a \in 0 .. 1 : fitted - 2 * (fitted \div 2) = a /\ fitted \div 2 \in Int
  BY HalfBounds
<1>2. PICK b \in 0 .. 1 : w - 2 * (w \div 2) = b /\ w \div 2 \in Int
  BY HalfBounds
<1>3. PICK e \in 0 .. 1 : (fitted - w) - 2 * ((fitted - w) \div 2) = e /\ (fitted - w) \div 2 \in Int
  BY HalfBounds
<1>4. PICK s \in Int : s = side * q /\ (s = q \/ s = 0 \/ s = -q) /\ (side = 1 <=> s = q /\ side = 1)
        /\ (side = 0 => s = 0) /\ (side = -1 => s = -q)
  BY SMT
<1>5. 2 * (x + 8 * side + side * q - fitted \div 2) + fitted - 2 * x = 16 * side + 2 * s + a
  BY <1>1, <1>4
<1>6. 2 * (x + 8 * side - w \div 2) + w - 2 * x = 16 * side + b
  BY <1>2
<1>7. 2 * (x + 8 * side + side * q - (fitted - w) \div 2) + fitted - (2 * x + w) = 16 * side + 2 * s + e
  BY <1>3, <1>4
<1>8. 2 * (x + 8 * side) + w - (2 * x + w) = 16 * side
  OBVIOUS
<1>9. 100 * (16 * side + 2 * s + a) - percent * (16 * side + b) \in -500 .. 500
  <2>1. b = 0 \/ b = 1
    OBVIOUS
  <2>2. QED
    BY <1>4, <2>1
<1>10. 100 * (16 * side + 2 * s + e) - percent * (16 * side) \in -500 .. 500
  BY <1>4
<1>11. QED
  BY <1>5, <1>6, <1>7, <1>8, <1>9, <1>10 DEF CentredError, LeftError, Small

\* Upwards: a text that has risen and its scaled copy.
UpError(y, side, percent, q, rise, up, h, height) ==
  100 * (2 * (y + 8 * side - up + side * q - (height - h) \div 2) + height - (2 * y + h))
    - percent * (2 * (y - rise + 8 * side) + h - (2 * y + h))

LEMMA ScaledUp ==
  ASSUME NEW y \in Int, NEW side \in {-1, 0, 1}, NEW percent \in 50 .. 200, NEW q \in Int,
         100 * q <= 8 * (percent - 100), 8 * (percent - 100) <= 100 * q + 99,
         NEW rise \in Int, NEW up \in Int, 100 * up <= rise * percent, rise * percent <= 100 * up + 99,
         NEW h \in Int, NEW height \in Int
  PROVE  Small(UpError(y, side, percent, q, rise, up, h, height))
<1>1. PICK a \in 0 .. 1 : (height - h) - 2 * ((height - h) \div 2) = a /\ (height - h) \div 2 \in Int
  BY HalfBounds
<1>2. PICK s \in Int : s = side * q /\ (side = 1 => s = q) /\ (side = 0 => s = 0) /\ (side = -1 => s = -q)
  BY SMT
<1>3. PICK m \in Int : m = rise * percent
  BY SMT
<1>4. 2 * (y + 8 * side - up + side * q - (height - h) \div 2) + height - (2 * y + h)
        = 16 * side - 2 * up + 2 * s + a
  BY <1>1, <1>2
<1>5. 2 * (y - rise + 8 * side) + h - (2 * y + h) = 16 * side - 2 * rise
  OBVIOUS
<1>6. percent * (16 * side - 2 * rise) = 16 * (side * percent) - 2 * m
  BY <1>3, SMT
<1>7. 100 * (16 * side - 2 * up + 2 * s + a) - (16 * (side * percent) - 2 * m) \in -500 .. 500
  BY <1>2, <1>3
<1>8. QED
  BY <1>4, <1>5, <1>6, <1>7 DEF UpError, Small

\* Both boxes of a draw of a damage number are where they should be.
NumberPlaced(d) ==
  HasSize(d.retail) =>
    /\ NearlyScaled(CentreX(d.drawn) - AnchorX, CentreX(d.retail) - AnchorX)
    /\ NearlyScaled(CentreY(d.drawn) - AnchorY, CentreY(d.retail) - AnchorY)

DrawPlaced(d) ==
  /\ d.of = "other" => d.drawn = d.retail
  /\ d.of \in {"label", "marker"} => SameCentre(d.drawn, d.retail)
  /\ d.of = "reticule" =>
       /\ d.drawn.y = d.retail.y
       /\ d.retail.width >= 2 * Pixel /\ d.drawn.width >= 2 * Pixel =>
            CentreX(d.drawn) - CentreX(d.retail) \in -2 * Pixel .. 2 * Pixel

NumberFrame ==
  /\ combatContext = [active |-> TRUE, baselineY |-> frame.screenY]
  /\ frame.text \in Texts /\ frame.x \in Int /\ frame.screenY \in Int /\ frame.rise \in Int

LabelFrame ==
  /\ frame.text \in Texts /\ frame.x \in Int /\ frame.y \in Int
  /\ frame.retailScale \in Int /\ frame.reference \in Fonts
  /\ rawNameContext = IF frame.friendly /\ FriendlyLabelScale # 100
                        THEN [active |-> TRUE, referenceFont |-> frame.reference,
                              retailScale |-> frame.retailScale,
                              targetScale |-> Scaled(frame.retailScale, FriendlyLabelScale)]
                        ELSE NoContext

\* What is drawn so far is in place, and what a frame was called with is known.
DrawnInv ==
  /\ scalePercent \in 50 .. 200 /\ viewport \in Nat /\ window.height \in Nat
  /\ canvas.font \in Fonts
  /\ IsSequence(drawn)
  /\ \A d \in Range(drawn) : DrawPlaced(d)
  /\ frame.in = "damage" => NumberFrame /\ \A d \in Range(drawn) : NumberPlaced(d)
  /\ frame.in = "name" => LabelFrame

\* The call of the text itself and of its shadows.
LEMMA SiteSides ==
  ASSUME NEW left \in SitesLeft, left # <<>>
  PROVE  LET site == Head(left)
         IN  /\ site \in Range(Sites) /\ site # "rawName"
             /\ ShadowSide(site) \in {-1, 0, 1}
             /\ BaselineOffset(site) = 8 * (22 - ShadowSide(site))
<1>1. Head(left) \in {"firstShadow", "secondShadow", "text"}
  BY DEF SitesLeft, Sites
<1>2. Range(Sites) = {"firstShadow", "secondShadow", "text"}
  <2>1. DOMAIN Sites = 1 .. 3 /\ Sites[1] = "firstShadow" /\ Sites[2] = "secondShadow" /\ Sites[3] = "text"
    BY DEF Sites
  <2>2. DOMAIN Sites = {1, 2, 3}
    BY <2>1
  <2>3. QED
    BY <2>1, <2>2 DEF Range
<1>3. \A site \in {"firstShadow", "secondShadow", "text"} :
        ShadowSide(site) \in {-1, 0, 1} /\ BaselineOffset(site) = 8 * (22 - ShadowSide(site))
  BY DEF ShadowSide, BaselineOffset, Pixel
<1>4. QED
  BY <1>1, <1>2, <1>3

\* A damage number is drawn where its scale puts it, in either font.
LEMMA NumberDrawn ==
  ASSUME CombatInv, DrawnInv, NEW offered \in {Replacement, NoFont}, DamageText(offered)
  PROVE  \E d : drawn' = Append(drawn, d) /\ d.of = "number" /\ NumberPlaced(d)
<1>1. DamageFrame /\ NumberFrame /\ frame.todo # <<>>
  BY DEF CombatInv, DamageText, NameFrame, Idle, DrawnInv
<1> DEFINE site == Head(frame.todo)
           shift == Pixel * ShadowSide(site)
           px == frame.x + shift
           py == frame.screenY - 22 * Pixel - frame.rise + shift
           placed == PenAt(canvas, px, py)
           text == frame.text
           d == Drawing("number", DrawRetail(placed, text).drawn, DrawText(placed, text, site, offered).drawn)
<1>2. drawn' = Append(drawn, d)
  <2>1. canvas = retailCanvas
    BY <1>1 DEF CombatInv, DamageFrame, NameFrame, Idle, AsRetail
  <2>2. QED
    BY <2>1 DEF DamageText
<1>3. PICK side \in {-1, 0, 1} : /\ side = ShadowSide(site) /\ shift = 8 * side
                                 /\ BaselineOffset(site) = 8 * (22 - side)
                                 /\ site \in Range(Sites) /\ site # "rawName"
  <2>1. frame.todo \in SitesLeft
    BY <1>1 DEF DamageFrame
  <2>2. QED
    BY <1>1, <2>1, SiteSides DEF Pixel
<1>0. PICK x \in Int, screenY \in Int, rise \in Int :
        x = frame.x /\ rise = frame.rise /\ screenY = frame.screenY
  BY <1>1 DEF NumberFrame
<1>4. PICK y \in Int :
        frame.screenY = y + 176 /\ px = x + 8 * side /\ py = y - rise + 8 * side
  <2>1. PICK y \in Int : y = screenY - 176
    OBVIOUS
  <2>2. frame.screenY = y + 176 /\ px = x + 8 * side /\ py = y - rise + 8 * side
    BY <1>0, <1>3, <2>1 DEF Pixel
  <2>3. QED
    BY <2>2
<1> HIDE DEF site, shift, px, py
<1>5. IsCanvas(placed) /\ placed.x = px /\ placed.y = py /\ placed.font = canvas.font
      /\ placed.centred = canvas.centred
  BY PenPlaced DEF CombatInv, IsCanvas
<1> HIDE DEF placed
<1>6. PICK w \in Nat, h \in Nat : w = FontSize[canvas.font][text].width /\ h = FontSize[canvas.font][text].height
  BY <1>1, FontLengths DEF DrawnInv, NumberFrame
<1>7. PICK retail : retail = DrawRetail(placed, text).drawn
  OBVIOUS
<1>8. retail = Box(IF canvas.centred THEN px - w \div 2 ELSE px, py, w, h)
  BY <1>5, <1>6, <1>7, RetailBox
<1>9. retail.width = w /\ retail.height = h
      /\ CentreX(retail) = 2 * (IF canvas.centred THEN px - w \div 2 ELSE px) + w
      /\ CentreY(retail) = 2 * py + h
  BY <1>8 DEF Box, CentreX, CentreY
<1>10. AnchorX = 2 * x + (IF canvas.centred THEN 0 ELSE w) /\ AnchorY = 2 * y + h
  BY <1>0, <1>4, <1>6 DEF AnchorX, AnchorY, Pixel
<1>11. PICK box : box = DrawText(placed, text, site, offered).drawn /\ d = Drawing("number", retail, box)
  BY <1>7
<1>12. d.of = "number" /\ d.retail = retail /\ d.drawn = box
  BY <1>11 DEF Drawing
<1> HIDE DEF d
<1>13. PICK percent \in 50 .. 200 : percent = scalePercent
  BY DEF DrawnInv
<1>14. CASE ~HasSize(retail)
  BY <1>2, <1>12, <1>14 DEF NumberPlaced
<1>15. CASE HasSize(retail) /\ scalePercent = 100
  <2>1. DrawText(placed, text, site, offered) = DrawRetail(placed, text)
    BY <1>3, <1>15 DEF DrawText
  <2>2. box = retail
    BY <1>7, <1>11, <2>1
  <2>3. w \div 2 \in Int
    BY HalfBounds
  <2>4. CentreX(retail) - AnchorX \in Int /\ CentreY(retail) - AnchorY \in Int
    BY <1>4, <1>9, <1>10, <2>3
  <2>5. \A r \in Int : NearlyScaled(r, r)
    BY <1>15 DEF NearlyScaled
  <2>6. QED
    BY <1>2, <1>12, <2>2, <2>4, <2>5 DEF NumberPlaced
<1>16. CASE HasSize(retail) /\ scalePercent # 100
  <2>1. HasSize(FontSize[placed.font][text])
    BY <1>5, <1>6, <1>9, <1>16 DEF HasSize
  <2>2. combatContext.active /\ combatContext.baselineY = y + 176
    BY <1>1, <1>4 DEF NumberFrame
  <2>3. DrawText(placed, text, site, offered) = DrawScaledCombatText(placed, text, site, offered)
    BY <1>3, <1>16, <2>1, <2>2 DEF DrawText
  <2>0. percent \in Int /\ w \in Int /\ h \in Int
    OBVIOUS
  <2>4. PICK height \in Int : height = Scaled(h, scalePercent)
    BY <1>13, <2>0, ScaledBounds
  <2>5. PICK fitted \in Int :
          fitted = Fitted(canvas.font, IF scalePercent > 100 THEN offered ELSE NoFont, text, height,
                          Scaled(w, scalePercent)).width
    <3>1. (IF scalePercent > 100 THEN offered ELSE NoFont) \in Fonts \cup {NoFont}
      BY CombatAssumption
    <3>2. Scaled(w, scalePercent) \in Int
      BY <1>13, <2>0, ScaledBounds
    <3>3. QED
      BY <1>1, <3>1, <3>2, FittedWidth DEF NumberFrame
  <2>6. PICK q \in Int : /\ q = Scaled(Pixel, percent - 100)
                         /\ 100 * q <= 8 * (percent - 100) /\ 8 * (percent - 100) <= 100 * q + 99
    <3>1. Pixel \in Int /\ percent - 100 \in Int
      BY DEF Pixel
    <3>2. QED
      BY <3>1, ScaledBounds DEF Pixel
  <2>7. side * q = ShadowAdjustment(site) /\ side * q \in Int
    BY <1>3, <1>13, <2>6 DEF ShadowAdjustment
  <2>8. PICK up \in Int : /\ up = Scaled(rise, percent)
                          /\ 100 * up <= rise * percent /\ rise * percent <= 100 * up + 99
    BY <2>0, ScaledBounds
  <2>9. y + 176 - 8 * (22 - side) = y + 8 * side /\ y + 8 * side - py = rise
    BY <1>4
  <2>10. PICK bx, by : /\ bx = PenX(placed, text, site, offered) /\ by = PenY(placed, text, site)
                       /\ box = Box(IF canvas.centred THEN bx - fitted \div 2 ELSE bx, by, fitted, height)
    <3>1. box = DrawScaledCombatText(placed, text, site, offered).drawn
      BY <1>11, <2>3
    <3>2. height = ScaledHeight(placed, text)
      BY <1>5, <1>6, <2>4 DEF ScaledHeight
    <3>3. fitted = ScaledWidth(placed, text, offered)
      BY <1>5, <1>6, <2>5, <3>2 DEF ScaledWidth
    <3>4. QED
      BY <1>5, <3>1, <3>2, <3>3, ScaledTextBox
  <2>11. bx = px + side * q - IF canvas.centred THEN 0 ELSE (fitted - w) \div 2
    <3>1. fitted = ScaledWidth(placed, text, offered)
      BY <1>5, <1>6, <2>4, <2>5 DEF ScaledWidth, ScaledHeight
    <3>2. QED
      BY <1>5, <1>6, <2>7, <2>10, <3>1 DEF PenX
  <2>12. by = y + 8 * side - up + side * q - (height - h) \div 2
    <3>1. PICK baseline : baseline = combatContext.baselineY - BaselineOffset(site)
      OBVIOUS
    <3>2. baseline = y + 8 * side
      BY <1>3, <2>2, <2>9, <3>1
    <3>3. baseline - placed.y = rise
      BY <1>4, <1>5, <3>2
    <3>4. PICK shadow \in Int : shadow = ShadowAdjustment(site) /\ shadow = side * q
      BY <2>7
    <3>5. by = baseline - Scaled(baseline - placed.y, scalePercent) + ShadowAdjustment(site)
                 - (ScaledHeight(placed, text) - FontSize[placed.font][text].height) \div 2
      BY <2>10, <3>1 DEF PenY
    <3>6. Scaled(baseline - placed.y, scalePercent) = up
      BY <1>13, <2>8, <3>3
    <3>7. ScaledHeight(placed, text) = height /\ FontSize[placed.font][text].height = h
      BY <1>5, <1>6, <2>4 DEF ScaledHeight
    <3>8. by = baseline - up + shadow - (height - h) \div 2
      BY <3>4, <3>5, <3>6, <3>7
    <3>9. QED
      BY <3>2, <3>4, <3>8
  <2>13. /\ CentreX(box) = 2 * (IF canvas.centred THEN bx - fitted \div 2 ELSE bx) + fitted
         /\ CentreY(box) = 2 * by + height
    BY <2>10 DEF Box, CentreX, CentreY
  <2>14. NearlyScaled(CentreY(box) - AnchorY, CentreY(retail) - AnchorY)
    <3>1. Small(UpError(y, side, percent, q, rise, up, h, height))
      BY <2>0, <2>6, <2>8, ScaledUp
    <3>2. CentreY(retail) - AnchorY = 2 * (y - rise + 8 * side) + h - (2 * y + h)
      BY <1>4, <1>9, <1>10
    <3>3. CentreY(box) - AnchorY
            = 2 * (y + 8 * side - up + side * q - (height - h) \div 2) + height - (2 * y + h)
      BY <1>10, <2>12, <2>13
    <3>4. QED
      BY <1>13, <3>1, <3>2, <3>3 DEF NearlyScaled, UpError, Small
  <2>15. NearlyScaled(CentreX(box) - AnchorX, CentreX(retail) - AnchorX)
    <3>1. fitted \div 2 \in Int /\ w \div 2 \in Int
      BY HalfBounds
    <3>2. /\ Small(CentredError(x, side, percent, q, w, fitted))
          /\ Small(LeftError(x, side, percent, q, w, fitted))
      BY <2>0, <2>6, ScaledAcross
    <3>3. CASE canvas.centred
      <4>1. CentreX(retail) - AnchorX = 2 * (x + 8 * side - w \div 2) + w - 2 * x
        BY <1>4, <1>9, <1>10, <3>1, <3>3
      <4>2. CentreX(box) - AnchorX = 2 * (x + 8 * side + side * q - fitted \div 2) + fitted - 2 * x
        BY <1>4, <1>10, <2>7, <2>11, <2>13, <3>1, <3>3
      <4>3. QED
        BY <1>13, <3>2, <4>1, <4>2 DEF NearlyScaled, CentredError, LeftError, Small
    <3>4. CASE ~canvas.centred
      <4>1. CentreX(retail) - AnchorX = 2 * (x + 8 * side) + w - (2 * x + w)
        BY <1>4, <1>9, <1>10, <3>4
      <4>2. CentreX(box) - AnchorX
              = 2 * (x + 8 * side + side * q - (fitted - w) \div 2) + fitted - (2 * x + w)
        BY <1>4, <1>10, <2>7, <2>11, <2>13, <3>4
      <4>3. QED
        BY <1>13, <3>2, <4>1, <4>2 DEF NearlyScaled, CentredError, LeftError, Small
    <3>5. QED
      BY <3>3, <3>4
  <2>16. QED
    BY <1>2, <1>12, <2>14, <2>15 DEF NumberPlaced
<1>17. QED
  BY <1>14, <1>15, <1>16

\* A box that grows, or shrinks, by the same on both sides keeps its centre.
Grown(x, y, w, h, sw, sh) == Box(x - (sw - w) \div 2, y - (sh - h) \div 2, sw, sh)
Shrunk(x, y, w, h, sw, sh) == Box(x + (w - sw) \div 2, y + (h - sh) \div 2, sw, sh)

LEMMA CentreKept ==
  ASSUME NEW x \in Int, NEW y \in Int, NEW w \in Int, NEW h \in Int, NEW sw \in Int, NEW sh \in Int
  PROVE  /\ SameCentre(Grown(x, y, w, h, sw, sh), Box(x, y, w, h))
         /\ SameCentre(Shrunk(x, y, w, h, sw, sh), Box(x, y, w, h))
<1>1. \A a \in Int : a \div 2 \in Int /\ (a = 2 * (a \div 2) \/ a = 2 * (a \div 2) + 1)
  BY HalfBounds
<1>2. PICK a \in Int, b \in Int, c \in Int, d \in Int :
        /\ a = (sw - w) \div 2 /\ b = (sh - h) \div 2 /\ c = (w - sw) \div 2 /\ d = (h - sh) \div 2
  BY <1>1
<1>3. /\ sw - w = 2 * a \/ sw - w = 2 * a + 1
      /\ sh - h = 2 * b \/ sh - h = 2 * b + 1
      /\ w - sw = 2 * c \/ w - sw = 2 * c + 1
      /\ h - sh = 2 * d \/ h - sh = 2 * d + 1
  BY <1>1, <1>2
<1>4. SameCentre(Box(x - a, y - b, sw, sh), Box(x, y, w, h))
  BY <1>3 DEF SameCentre, CentreX, CentreY, Box
<1>5. SameCentre(Box(x + c, y + d, sw, sh), Box(x, y, w, h))
  BY <1>3 DEF SameCentre, CentreX, CentreY, Box
<1>6. QED
  BY <1>2, <1>4, <1>5 DEF Grown, Shrunk

\* Labels are drawn smaller on viewports that are higher than the HUD's own.
LEMMA LabelScale ==
  ASSUME viewport \in Nat
  PROVE  FriendlyLabelScale \in Int /\ (FriendlyLabelScale # 100 <=> viewport > Reference)
<1>1. CASE viewport <= Reference
  BY <1>1 DEF FriendlyLabelScale, Reference
<1>2. CASE viewport > Reference
  <2>1. PICK v \in Nat : v = viewport /\ v > 1080
    BY <1>2 DEF Reference
  <2>2. PICK q \in Int : q = 108000 \div v
    BY <2>1, SMT
  <2>3. v * q <= 108000
    BY <2>1, <2>2, SMT
  <2>4. q # 100
    BY <2>1, <2>3
  <2>5. FriendlyLabelScale = q
    BY <1>2, <2>1, <2>2 DEF FriendlyLabelScale, Reference
  <2>6. QED
    BY <1>2, <2>4, <2>5
<1>3. QED
  BY <1>1, <1>2 DEF Reference

\* A single draw that is where it should be.
LEMMA OnePlaced ==
  ASSUME NEW d, DrawPlaced(d)
  PROVE  IsSequence(<<d>>) /\ \A e \in Range(<<d>>) : DrawPlaced(e)
  BY OneDrawn

\* What is left alone, and what keeps its centre, is where it should be.
LEMMA LeftAlone ==
  ASSUME NEW box
  PROVE  DrawPlaced(Drawing("other", box, box))
  BY DrawingFields DEF DrawPlaced

LEMMA CentredLabel ==
  ASSUME NEW of \in {"label", "marker"}, NEW retail, NEW box, SameCentre(box, retail)
  PROVE  DrawPlaced(Drawing(of, retail, box))
  BY DrawingFields DEF DrawPlaced

\* A label that is not moved at all.
LEMMA SameBox ==
  ASSUME NEW x \in Int, NEW y \in Int, NEW w \in Int, NEW h \in Int
  PROVE  SameCentre(Box(x, y, w, h), Box(x, y, w, h))
  BY DEF SameCentre, CentreX, CentreY, Box

\* The canvas behind what was drawn in a box.
LEMMA BehindBox ==
  ASSUME NEW c, IsCanvas(c), NEW box
  PROVE  DrawnIn(c, box) =
           [x |-> box.x + box.width, y |-> box.y,
            line |-> IF box.height > c.line THEN box.height ELSE c.line,
            font |-> c.font, centred |-> c.centred]
<1>1. PICK d : d = PenAt(c, box.x, box.y)
  OBVIOUS
<1>2. d = [x |-> box.x, y |-> box.y, line |-> c.line, font |-> c.font, centred |-> c.centred]
  BY <1>1, PenPlaced
<1>3. /\ IsCanvas(d) /\ d.x = box.x /\ d.y = box.y /\ d.line = c.line
      /\ d.font = c.font /\ d.centred = c.centred
  BY <1>2 DEF IsCanvas
<1>4. DrawnIn(c, box) = Advance(d, box.width, box.height)
  BY <1>1 DEF DrawnIn
<1>5. QED
  BY <1>3, <1>4, PenAdvanced

\* Before anything is drawn the canvas is retail's.
LEMMA NothingDrawn ==
  ASSUME CombatInv, drawn = <<>>
  PROVE  AsRetail /\ canvas = retailCanvas
<1>1. ~BehindLabel
  <2>1. \A d : <<d>> # <<>>
    OBVIOUS
  <2>2. QED
    BY <2>1 DEF BehindLabel
<1>2. QED
  BY <1>1 DEF CombatInv, AsRetail

\* A name was drawn: it is in place, with the cursor behind it.
NameDrawn(d) ==
  /\ drawn' = <<d>> /\ DrawPlaced(d)
  /\ canvas' = DrawnIn(canvas, d.drawn) /\ d.drawn.height \in Int
  /\ retailCanvas'.font = retailCanvas.font /\ retailCanvas'.centred = retailCanvas.centred
  /\ d.of = "label" \/ (d.of = "other" /\ canvas' = retailCanvas')

LEMMA BorderedPlaced ==
  ASSUME CombatInv, DrawnInv, NEW friendly \in BOOLEAN, NEW x \in Int, NEW y \in Int, NEW text \in Texts,
         NEW font \in Fonts, NEW retailScale \in Int,
         BorderedGlyphName(friendly, x, y, text, font, retailScale)
  PROVE  \E d : NameDrawn(d)
<1>1. PICK w \in Int, h \in Int : w = FontSize[font][text].width /\ h = FontSize[font][text].height
  BY FontLengths
<1>2. PICK rw \in Int, rh \in Int : rw = Scaled(w, retailScale) /\ rh = Scaled(h, retailScale)
  BY ScaledBounds
<1>3. FriendlyLabelScale \in Int
  BY LabelScale DEF DrawnInv
<1>4. PICK target \in Int : target = Scaled(retailScale, FriendlyLabelScale)
  BY <1>3, ScaledBounds
<1>5. PICK sw \in Int, sh \in Int : sw = Scaled(w, target) /\ sh = Scaled(h, target)
  BY ScaledBounds
<1>6. PICK retail : retail = Box(x, y, rw, rh) /\ retail = NameBox(x, y, font, text, retailScale)
  BY <1>1, <1>2 DEF NameBox
<1>7. PICK scaled : scaled = Box(x, y, sw, sh) /\ scaled = NameBox(x, y, font, text, target)
  BY <1>1, <1>5 DEF NameBox
<1>8. PICK a \in Int, b \in Int : /\ a = x - (scaled.width - retail.width) \div 2
                                   /\ b = y - (scaled.height - retail.height) \div 2
                                   /\ a = x - (sw - rw) \div 2 /\ b = y - (sh - rh) \div 2
  <2>1. retail.width = rw /\ retail.height = rh /\ scaled.width = sw /\ scaled.height = sh
    BY <1>6, <1>7 DEF Box
  <2>2. (sw - rw) \div 2 \in Int /\ (sh - rh) \div 2 \in Int
    BY SMT
  <2>3. QED
    BY <2>1, <2>2
<1>9. PICK moved : moved = [scaled EXCEPT !.x = a, !.y = b]
  OBVIOUS
<1>10. SameCentre(moved, retail)
  <2>1. PICK m : m = [scaled EXCEPT !.x = a]
    OBVIOUS
  <2>2. m = [x |-> a, y |-> y, width |-> sw, height |-> sh]
    BY <1>7, <2>1 DEF Box
  <2>3. moved = [m EXCEPT !.y = b]
    BY <1>9, <2>1
  <2>4. moved = Box(a, b, sw, sh)
    BY <2>2, <2>3 DEF Box
  <2>5. moved = Grown(x, y, rw, rh, sw, sh)
    BY <1>8, <2>4 DEF Grown
  <2>6. SameCentre(Grown(x, y, rw, rh, sw, sh), Box(x, y, rw, rh))
    BY CentreKept
  <2>7. QED
    BY <1>6, <2>5, <2>6
<1>11. SameCentre(retail, retail)
  BY <1>6, SameBox
<1>12. PICK moves \in BOOLEAN :
         moves <=> friendly /\ FriendlyLabelScale # 100 /\ HasSize(FontSize[font][text])
  OBVIOUS
<1>13. PICK box : box = IF moves THEN moved ELSE retail
  OBVIOUS
<1>14. PICK d : d = Drawing(IF moves THEN "label" ELSE "other", retail, box)
  OBVIOUS
<1>15. drawn' = <<d>> /\ canvas' = DrawnIn(canvas, box) /\ retailCanvas' = DrawnIn(retailCanvas, retail)
  BY <1>4, <1>6, <1>7, <1>8, <1>9, <1>12, <1>13, <1>14 DEF BorderedGlyphName
<1>16. d.of = (IF moves THEN "label" ELSE "other") /\ d.drawn = box
  BY <1>14, DrawingFields
<1>17. DrawPlaced(d)
  <2>1. CASE moves
    BY <1>10, <1>13, <1>14, <2>1, CentredLabel
  <2>2. CASE ~moves
    BY <1>13, <1>14, <2>2, LeftAlone
  <2>3. QED
    BY <2>1, <2>2
<1>18. box.height \in Int /\ retail.height \in Int
  <2>1. retail.height = rh /\ scaled.height = sh
    BY <1>6, <1>7 DEF Box
  <2>2. moved.height = scaled.height
    BY <1>9
  <2>3. QED
    BY <1>13, <2>1, <2>2
<1>19. canvas = retailCanvas
  <2>1. drawn = <<>>
    BY DEF BorderedGlyphName, Quiet
  <2>2. QED
    BY <2>1, NothingDrawn
<1>20. retailCanvas'.font = retailCanvas.font /\ retailCanvas'.centred = retailCanvas.centred
  <2>1. IsCanvas(retailCanvas) /\ retailCanvas.line \in Int
    BY <1>19 DEF CombatInv
  <2>2. QED
    BY <1>15, <1>18, <2>1, BehindBox
<1>21. d.of = "other" => canvas' = retailCanvas'
  BY <1>13, <1>15, <1>16, <1>19
<1>22. QED
  BY <1>15, <1>16, <1>17, <1>18, <1>20, <1>21 DEF NameDrawn

LEMMA TilePlaced ==
  ASSUME DrawnInv, NEW marker \in BOOLEAN, NEW x \in Int, NEW y \in Int, NEW width \in Int, NEW height \in Int,
         DrawMaterialTile(marker, x, y, width, height)
  PROVE  \E d : drawn' = <<d>> /\ DrawPlaced(d)
<1>1. PICK percent \in Int : percent = scalePercent
  BY DEF DrawnInv
<1>2. PICK sw \in Int, sh \in Int : sw = Scaled(width, scalePercent) /\ sh = Scaled(height, scalePercent)
  BY <1>1, ScaledBounds
<1>3. PICK retail : retail = Box(x, y, width, height)
  OBVIOUS
<1>4. PICK moved : moved = Grown(x, y, width, height, sw, sh)
  OBVIOUS
<1>5. SameCentre(moved, retail) /\ SameCentre(retail, retail)
  BY <1>3, <1>4, CentreKept, SameBox
<1>6. PICK box : /\ drawn' = <<Drawing(IF marker THEN "marker" ELSE "other", retail, box)>>
                 /\ box = IF marker /\ width > 0 /\ height > 0 THEN moved ELSE retail
  BY <1>2, <1>3, <1>4 DEF DrawMaterialTile, Grown
<1>7. CASE marker
  BY <1>5, <1>6, <1>7, CentredLabel
<1>8. CASE ~marker
  BY <1>6, <1>8, LeftAlone
<1>9. QED
  BY <1>7, <1>8

\* A canvas prepared by the retail helper of names.
LEMMA NamePen ==
  ASSUME NEW c, IsCanvas(c), NEW x, NEW y, NEW font
  PROVE  WithPlainFont(c, x, y, font) =
           [x |-> x, y |-> y, line |-> c.line, font |-> font, centred |-> FALSE]
<1>1. PICK d : d = PenAt(c, x, y)
  OBVIOUS
<1>2. d = [x |-> x, y |-> y, line |-> c.line, font |-> c.font, centred |-> c.centred]
  BY <1>1, PenPlaced
<1>3. PICK e : e = [d EXCEPT !.font = font]
  OBVIOUS
<1>4. e = [x |-> x, y |-> y, line |-> c.line, font |-> font, centred |-> c.centred]
  BY <1>2, <1>3
<1>5. [e EXCEPT !.centred = FALSE] =
        [x |-> x, y |-> y, line |-> c.line, font |-> font, centred |-> FALSE]
  <2>1. PICK no : no = FALSE
    OBVIOUS
  <2>2. [e EXCEPT !.centred = no] = [x |-> x, y |-> y, line |-> c.line, font |-> font, centred |-> no]
    BY <1>4
  <2>3. QED
    BY <2>1, <2>2, Zenon
<1>6. WithPlainFont(c, x, y, font) = [e EXCEPT !.centred = FALSE]
  BY <1>1, <1>3 DEF WithPlainFont
<1>7. QED
  BY <1>5, <1>6

\* A name that is drawn smaller keeps the centre of the retail one.
LEMMA RawNamePlaced ==
  ASSUME CombatInv, DrawnInv, NEW plain \in Fonts, RawNameText(plain)
  PROVE  \E d : NameDrawn(d)
<1>1. frame.in = "name" /\ LabelFrame /\ IsCanvas(canvas)
  BY DEF RawNameText, DrawnInv, CombatInv
<1>2. PICK text \in Texts, x \in Int, y \in Int, retailScale \in Int, reference \in Fonts :
        /\ text = frame.text /\ x = frame.x /\ y = frame.y
        /\ retailScale = frame.retailScale /\ reference = frame.reference
  BY <1>1 DEF LabelFrame
<1>0. canvas = retailCanvas
  <2>1. drawn = <<>>
    BY DEF RawNameText
  <2>2. QED
    BY <2>1, NothingDrawn
<1>3. PICK placed : placed = WithPlainFont(canvas, x, y, plain)
  OBVIOUS
<1>4. placed = [x |-> x, y |-> y, line |-> canvas.line, font |-> plain, centred |-> FALSE]
  BY <1>1, <1>3, NamePen
<1>5. IsCanvas(placed) /\ placed.x = x /\ placed.y = y /\ placed.font = plain /\ placed.centred = FALSE
  BY <1>4 DEF IsCanvas
<1>6. PICK moves \in BOOLEAN :
        moves <=> /\ frame.friendly /\ viewport > Reference
                  /\ HasSize(FontSize[reference][text]) /\ HasSize(FontSize[plain][text])
  OBVIOUS
<1>7. PICK d, after : /\ drawn' = <<d>> /\ after = DrawText(placed, text, "rawName", NoFont).canvas
               /\ canvas' = RestoreCursor(canvas, CaptureCursor(after))
               /\ retailCanvas' = RestoreCursor(canvas, CaptureCursor(DrawRetail(placed, text).canvas))
               /\ d = IF moves THEN Drawing("label", NameBox(x, y, reference, text, retailScale),
                                            DrawText(placed, text, "rawName", NoFont).drawn)
                      ELSE Drawing("other", DrawRetail(placed, text).drawn,
                                   DrawText(placed, text, "rawName", NoFont).drawn)
  BY <1>0, <1>2, <1>3, <1>6 DEF RawNameText
<1>8. frame.friendly /\ FriendlyLabelScale # 100 <=> frame.friendly /\ viewport > Reference
  BY LabelScale DEF DrawnInv
<1>9. FriendlyLabelScale \in Int
  BY LabelScale DEF DrawnInv
<1>13. retailCanvas'.font = retailCanvas.font /\ retailCanvas'.centred = retailCanvas.centred
  BY <1>0, <1>1, <1>7, CursorRestored
<1>10. CASE ~moves
  <2>1. ~(rawNameContext.active /\ HasSize(FontSize[rawNameContext.referenceFont][text])
          /\ HasSize(FontSize[placed.font][text]))
    <3>1. CASE frame.friendly /\ FriendlyLabelScale # 100
      BY <1>1, <1>2, <1>5, <1>6, <1>8, <1>10, <3>1 DEF LabelFrame
    <3>2. CASE ~(frame.friendly /\ FriendlyLabelScale # 100)
      BY <1>1, <3>2 DEF LabelFrame, NoContext
    <3>3. QED
      BY <3>1, <3>2
  <2>2. "rawName" \notin Range(Sites)
    <3>1. \A i \in DOMAIN Sites : Sites[i] # "rawName"
      <4>1. DOMAIN Sites = 1 .. 3 /\ Sites[1] = "firstShadow" /\ Sites[2] = "secondShadow" /\ Sites[3] = "text"
        BY DEF Sites
      <4>2. QED
        BY <4>1
    <3>2. QED
      BY <3>1 DEF Range
  <2>3. DrawText(placed, text, "rawName", NoFont) = DrawRetail(placed, text)
    BY <2>1, <2>2 DEF DrawText
  <2>4. PICK w \in Int, h \in Int : w = FontSize[plain][text].width /\ h = FontSize[plain][text].height
    BY FontLengths
  <2>5. DrawRetail(placed, text).drawn = Box(x, y, w, h) /\ after = Advance(placed, w, h)
    BY <1>5, <1>7, <2>3, <2>4 DEF DrawRetail, AtPen
  <2>6. d = Drawing("other", Box(x, y, w, h), Box(x, y, w, h))
    BY <1>7, <1>10, <2>3, <2>5
  <2>7. d.of = "other" /\ d.drawn = Box(x, y, w, h) /\ DrawPlaced(d)
    BY <2>6, DrawingFields, LeftAlone
  <2>8. canvas' = retailCanvas'
    BY <1>7, <2>3
  <2>9. after.x = x + w /\ after.y = y /\ after.line = IF h > canvas.line THEN h ELSE canvas.line
    BY <1>4, <1>5, <2>5, PenAdvanced
  <2>10. canvas' = DrawnIn(canvas, d.drawn)
    <3>1. d.drawn.x = x /\ d.drawn.y = y /\ d.drawn.width = w /\ d.drawn.height = h
      BY <2>7 DEF Box
    <3>2. PICK cursor : cursor = CaptureCursor(after)
      OBVIOUS
    <3>3. cursor.x = x + w /\ cursor.y = y /\ cursor.line = IF h > canvas.line THEN h ELSE canvas.line
      BY <2>9, <3>2 DEF CaptureCursor
    <3>4. canvas' = [x |-> x + w, y |-> y, line |-> IF h > canvas.line THEN h ELSE canvas.line,
                     font |-> canvas.font, centred |-> canvas.centred]
      BY <1>1, <1>7, <3>2, <3>3, CursorRestored
    <3>5. QED
      BY <1>1, <3>1, <3>4, BehindBox
  <2>11. d.drawn.height \in Int
    BY <2>7 DEF Box
  <2>12. QED
    BY <1>7, <1>13, <2>7, <2>8, <2>10, <2>11 DEF NameDrawn
<1>11. CASE moves
  <2>1. rawNameContext = [active |-> TRUE, referenceFont |-> reference, retailScale |-> retailScale,
                          targetScale |-> Scaled(retailScale, FriendlyLabelScale)]
    BY <1>1, <1>2, <1>6, <1>8, <1>11 DEF LabelFrame
  <2>2. PICK target \in Int : target = Scaled(retailScale, FriendlyLabelScale)
    BY <1>9, ScaledBounds
  <2>3. /\ rawNameContext.active /\ rawNameContext.referenceFont = reference
        /\ rawNameContext.retailScale = retailScale /\ rawNameContext.targetScale = target
    BY <2>1, <2>2
  <2>4. DrawText(placed, text, "rawName", NoFont) = DrawNormalizedRawName(placed, text)
    BY <1>5, <1>6, <1>11, <2>3 DEF DrawText
  <2>5. PICK w \in Int, h \in Int : w = FontSize[reference][text].width /\ h = FontSize[reference][text].height
    BY FontLengths
  <2>6. PICK pw \in Int, ph \in Int : pw = FontSize[plain][text].width /\ ph = FontSize[plain][text].height
    BY FontLengths
  <2>7. PICK rw \in Int, rh \in Int : rw = Scaled(w, retailScale) /\ rh = Scaled(h, retailScale)
    BY ScaledBounds
  <2>8. PICK height \in Int : height = Scaled(h, target)
    BY ScaledBounds
  <2>9. PICK width \in Int : width = (pw * height) \div ph
    <3>1. ph > 0
      BY <1>6, <1>11, <2>6 DEF HasSize
    <3>2. PICK m \in Int : m = pw * height
      BY SMT
    <3>3. m \div ph \in Int
      BY <3>1, SMT
    <3>4. QED
      BY <3>2, <3>3
  <2>10. PICK px, py : px = x + (rw - width) \div 2 /\ py = y + (rh - height) \div 2
    OBVIOUS
  <2>11. PICK pen : pen = [placed EXCEPT !.x = px, !.y = py]
    OBVIOUS
  <2>12. IsCanvas(pen) /\ pen.x = px /\ pen.y = py /\ pen.centred = FALSE /\ pen.line = canvas.line
    BY <1>4, <1>5, <2>11, PenMoved DEF IsCanvas
  <2>13. /\ DrawNormalizedRawName(placed, text).drawn = AtPen(pen, width, height)
         /\ DrawNormalizedRawName(placed, text).canvas = Advance(pen, width, height)
    BY <1>5, <2>3, <2>5, <2>6, <2>7, <2>8, <2>9, <2>10, <2>11 DEF DrawNormalizedRawName
  <2>14. AtPen(pen, width, height) = Shrunk(x, y, rw, rh, width, height)
    BY <2>10, <2>12 DEF AtPen, Shrunk
  <2>15. NameBox(x, y, reference, text, retailScale) = Box(x, y, rw, rh)
    BY <2>5, <2>7 DEF NameBox
  <2>16. SameCentre(Shrunk(x, y, rw, rh, width, height), Box(x, y, rw, rh))
    BY CentreKept
  <2>17. d = Drawing("label", Box(x, y, rw, rh), Box(px, py, width, height))
    BY <1>7, <1>11, <2>4, <2>10, <2>13, <2>14, <2>15 DEF Shrunk
  <2>18. d.of = "label" /\ d.drawn = Box(px, py, width, height) /\ DrawPlaced(d)
    BY <2>10, <2>16, <2>17, DrawingFields, CentredLabel DEF Shrunk
  <2>19. after.x = px + width /\ after.y = py
         /\ after.line = IF height > canvas.line THEN height ELSE canvas.line
    BY <1>7, <2>4, <2>12, <2>13, PenAdvanced
  <2>20. canvas' = DrawnIn(canvas, d.drawn)
    <3>1. /\ d.drawn.x = px /\ d.drawn.y = py
          /\ d.drawn.width = width /\ d.drawn.height = height
      BY <2>18 DEF Box
    <3>2. PICK cursor : cursor = CaptureCursor(after)
      OBVIOUS
    <3>3. cursor.x = px + width /\ cursor.y = py
          /\ cursor.line = IF height > canvas.line THEN height ELSE canvas.line
      BY <2>19, <3>2 DEF CaptureCursor
    <3>4. canvas' = [x |-> px + width, y |-> py,
                     line |-> IF height > canvas.line THEN height ELSE canvas.line,
                     font |-> canvas.font, centred |-> canvas.centred]
      BY <1>1, <1>7, <3>2, <3>3, CursorRestored
    <3>5. QED
      BY <1>1, <3>1, <3>4, BehindBox
  <2>21. d.drawn.height \in Int
    BY <2>8, <2>18 DEF Box
  <2>22. QED
    BY <1>7, <1>13, <2>18, <2>20, <2>21 DEF NameDrawn
<1>12. QED
  BY <1>10, <1>11

\* Whole pixels of a length.
LEMMA PixelBounds ==
  ASSUME NEW n \in Int
  PROVE  /\ WholePixels(n) \in Int /\ n - WholePixels(n) \in 0 .. 7
         /\ n >= 8 => WholePixels(n) > 0
<1>1. PICK q \in Int : q = n \div 8 /\ 8 * q <= n /\ n <= 8 * q + 7
  BY SMT
<1>2. WholePixels(n) = 8 * q
  BY <1>1 DEF WholePixels, Pixel
<1>3. QED
  BY <1>1, <1>2

LEMMA ReticuleScale ==
  ASSUME DrawnInv
  PROVE  ReticuleVisualScale(window.height) \in Int
<1>1. PICK h \in Nat, p \in Int : h = window.height /\ p = scalePercent
  BY DEF DrawnInv
<1>2. PICK a \in Int, b \in Int : a = Least(h - Reference, Reference) /\ b = Least(p - 100, 50)
  BY DEF Least, Reference
<1>3. PICK m \in Int : m = 20 * a * b
  BY SMT
<1>4. m \div (Reference * 50) \in Int
  BY DEF Reference
<1>5. QED
  BY <1>1, <1>2, <1>3, <1>4 DEF ReticuleVisualScale

\* A value or a warning of the reticule stays about its middle.
LEMMA ReticulePlaced ==
  ASSUME DrawnInv, NEW fromUiString, NEW x \in Int, NEW y \in Int, NEW text \in Texts,
         NEW font \in Fonts, NEW offered \in {Replacement, NoFont},
         LowLevelRawText(fromUiString, x, y, text, font, offered)
  PROVE  \E d : drawn' = <<d>> /\ DrawPlaced(d)
<1> DEFINE match == IF fromUiString THEN MatchReticuleText(x, y, text) ELSE "none"
           size == FontSize[font][text]
           there == Box(Pixel * x, Pixel * y, size.width, size.height)
           visual == ReticuleVisualScale(window.height)
           tall == Scaled(size.height, visual)
           choice == Fitted(font, IF scalePercent > 100 THEN offered ELSE NoFont, text, tall,
                            Scaled(size.width, visual))
           bold == IF match = "pool" /\ choice.font # font THEN Pixel ELSE 0
           aside == IF WholePixels(size.width) > 0 /\ WholePixels(choice.width) > 0
                      THEN (WholePixels(size.width) - WholePixels(choice.width) - bold) \div 2 ELSE 0
           result == IF match = "none" \/ scalePercent = 100 THEN Drawing("other", there, there)
                     ELSE Drawing("reticule", there,
                            Box(there.x + aside, there.y, choice.width + bold, tall))
<1>0. drawn' = <<result>>
  BY DEF LowLevelRawText
<1>1. PICK w \in Int, h \in Int : w = size.width /\ h = size.height
  BY FontLengths
<1> HIDE DEF match, size
<1>2. PICK retail : retail = Box(Pixel * x, Pixel * y, w, h) /\ retail = there
  BY <1>1
<1>3. PICK scale \in Int : scale = visual
  BY ReticuleScale
<1> HIDE DEF visual
<1>4. PICK height \in Int : height = Scaled(h, scale) /\ height = tall
  BY <1>1, <1>3, ScaledBounds
<1> HIDE DEF tall
<1>5. PICK fit : /\ fit = choice
                 /\ fit = Fitted(font, IF scalePercent > 100 THEN offered ELSE NoFont, text, height,
                                 Scaled(w, scale))
  BY <1>1, <1>3, <1>4
<1> HIDE DEF choice
<1>6. PICK fw \in Int : fw = fit.width
  <2>1. (IF scalePercent > 100 THEN offered ELSE NoFont) \in Fonts \cup {NoFont}
    BY CombatAssumption
  <2>2. Scaled(w, scale) \in Int
    BY ScaledBounds
  <2>3. QED
    BY <1>5, <2>1, <2>2, FittedWidth
<1>8. PICK weight \in {0, 8} : weight = bold
  BY DEF Pixel
<1> HIDE DEF bold, there
<1>9. PICK offset \in Int :
        /\ offset = aside
        /\ offset = IF WholePixels(w) > 0 /\ WholePixels(fw) > 0
                      THEN (WholePixels(w) - WholePixels(fw) - weight) \div 2 ELSE 0
  <2>1. WholePixels(w) \in Int /\ WholePixels(fw) \in Int
    BY PixelBounds
  <2>2. aside = IF WholePixels(w) > 0 /\ WholePixels(fw) > 0
                  THEN (WholePixels(w) - WholePixels(fw) - weight) \div 2 ELSE 0
    BY <1>1, <1>5, <1>6, <1>8
  <2>3. (WholePixels(w) - WholePixels(fw) - weight) \div 2 \in Int
    BY <2>1, HalfBounds
  <2>4. QED
    BY <2>2, <2>3
<1> HIDE DEF aside
<1>10. PICK box : box = Box(retail.x + offset, retail.y, fw + weight, height)
  OBVIOUS
<1>11. PICK d : /\ drawn' = <<d>>
                /\ d = IF match = "none" \/ scalePercent = 100 THEN Drawing("other", retail, retail)
                       ELSE Drawing("reticule", retail, box)
  BY <1>0, <1>2, <1>4, <1>5, <1>6, <1>8, <1>9, <1>10
<1> HIDE DEF result
<1>12. /\ retail.x = 8 * x /\ retail.y = 8 * y /\ retail.width = w /\ CentreX(retail) = 16 * x + w
  BY <1>2 DEF Box, CentreX, Pixel
<1>13. /\ box.y = retail.y /\ box.width = fw + weight
       /\ CentreX(box) = 2 * (8 * x + offset) + fw + weight
  BY <1>10, <1>12 DEF Box, CentreX
<1>14. ASSUME w >= 16, fw + weight >= 16 PROVE CentreX(box) - CentreX(retail) \in -16 .. 16
  <2>1. PICK a \in Int, b \in Int : /\ a = WholePixels(w) /\ b = WholePixels(fw)
                                    /\ w - a \in 0 .. 7 /\ fw - b \in 0 .. 7 /\ a > 0 /\ b > 0
    <3>1. PICK a \in Int : a = WholePixels(w) /\ w - a \in 0 .. 7 /\ a > 0
      BY <1>14, PixelBounds
    <3>2. PICK b \in Int : b = WholePixels(fw) /\ fw - b \in 0 .. 7 /\ b > 0
      <4>1. fw >= 8
        BY <1>14
      <4>2. QED
        BY <4>1, PixelBounds
    <3>3. QED
      BY <3>1, <3>2
  <2>2. offset = (a - b - weight) \div 2
    BY <1>9, <2>1
  <2>3. a - b - weight = 2 * offset \/ a - b - weight = 2 * offset + 1
    BY <2>2, HalfBounds
  <2>4. QED
    BY <1>12, <1>13, <2>1, <2>3
<1>15. CASE match = "none" \/ scalePercent = 100
  BY <1>11, <1>15, LeftAlone
<1>16. CASE ~(match = "none" \/ scalePercent = 100)
  <2>1. d.of = "reticule" /\ d.retail = retail /\ d.drawn = box
    BY <1>11, <1>16, DrawingFields
  <2>2. QED
    BY <1>11, <1>12, <1>13, <1>14, <2>1 DEF DrawPlaced, Pixel
<1>17. QED
  BY <1>15, <1>16

\* A draw of a damage number leaves its anchor where it is.
LEMMA AnchorKept ==
  ASSUME CombatInv, NEW offered, DamageText(offered)
  PROVE  /\ frame'.in = "damage" /\ frame'.text = frame.text /\ frame'.x = frame.x
         /\ frame'.screenY = frame.screenY /\ frame'.rise = frame.rise
         /\ canvas'.font = canvas.font /\ canvas'.centred = canvas.centred
<1>1. DamageFrame
  BY DEF CombatInv, DamageText, NameFrame, Idle
<1> DEFINE site == Head(frame.todo)
           shift == Pixel * ShadowSide(site)
           px == frame.x + shift
           py == frame.screenY - 22 * Pixel - frame.rise + shift
           placed == PenAt(canvas, px, py)
           retail == DrawRetail(placed, frame.text)
<1>2. /\ canvas' = DrawText(placed, frame.text, site, offered).canvas
      /\ frame' = [frame EXCEPT !.todo = Tail(@)]
      /\ frame.todo # <<>>
  BY DEF DamageText
<1>3. site # "rawName"
  BY <1>1, <1>2, SitesDrawn DEF DamageFrame
<1> HIDE DEF site, shift, px, py
<1>4. IsCanvas(placed) /\ placed.font = canvas.font /\ placed.centred = canvas.centred
  BY PenPlaced DEF CombatInv, IsCanvas
<1> HIDE DEF placed
<1>5. canvas' = retail.canvas /\ canvas'.font = canvas.font /\ canvas'.centred = canvas.centred
  BY <1>2, <1>3, <1>4, HookHandsBack, RetailCanvas
<1> HIDE DEF retail
<1>6. frame' = [in |-> "damage", text |-> frame.text, x |-> frame.x, screenY |-> frame.screenY,
                rise |-> frame.rise, previous |-> NoContext, todo |-> Tail(frame.todo)]
  BY <1>1, <1>2, <1>5, FrameDrawn
<1>7. QED
  BY <1>5, <1>6

LEMMA DamageTextPlaces ==
  ASSUME CombatInv, DrawnInv, NEW offered \in {Replacement, NoFont}, DamageText(offered)
  PROVE  DrawnInv'
<1>1. /\ frame'.in = "damage" /\ frame'.text = frame.text /\ frame'.x = frame.x
      /\ frame'.screenY = frame.screenY /\ frame'.rise = frame.rise
      /\ canvas'.font = canvas.font /\ canvas'.centred = canvas.centred
  BY AnchorKept
<1>2. frame.in = "damage"
      /\ UNCHANGED <<viewport, window, scalePercent, combatContext, rawNameContext>>
  BY DEF DamageText
<1>3. AnchorX' = AnchorX /\ AnchorY' = AnchorY
  BY <1>1 DEF AnchorX, AnchorY
<1>4. ASSUME NEW d, NumberPlaced(d) PROVE NumberPlaced(d)'
  BY <1>2, <1>3, <1>4 DEF NumberPlaced, NearlyScaled
<1>5. PICK d : drawn' = Append(drawn, d) /\ d.of = "number" /\ NumberPlaced(d)
  BY NumberDrawn
<1>6. IsSequence(drawn') /\ \A e \in Range(drawn') : e \in Range(drawn) \/ e = d
  BY <1>5, RangeAppended DEF DrawnInv
<1>7. DrawPlaced(d)
  BY <1>5 DEF DrawPlaced
<1>8. NumberFrame'
  BY <1>1, <1>2 DEF NumberFrame, DrawnInv
<1>9. \A e \in Range(drawn') : DrawPlaced(e) /\ NumberPlaced(e)'
  BY <1>2, <1>4, <1>5, <1>6, <1>7 DEF DrawnInv
<1>10. QED
  BY <1>1, <1>2, <1>6, <1>8, <1>9 DEF DrawnInv

\* Nothing is drawn, or one thing that is in place, and no frame is left open.
LEMMA ShownPlaced ==
  ASSUME DrawnInv, UNCHANGED <<viewport, window>>, scalePercent' \in 50 .. 200, canvas'.font \in Fonts,
         \/ drawn' = <<>> \/ drawn' = drawn \/ \E d : drawn' = <<d>> /\ DrawPlaced(d)
  PROVE  /\ frame'.in # "damage" /\ (frame'.in = "name" => LabelFrame') => DrawnInv'
         /\ frame'.in = "damage" /\ NumberFrame' /\ drawn' = <<>> => DrawnInv'
<1>1. IsSequence(drawn') /\ \A d \in Range(drawn') : DrawPlaced(d)
  BY OnePlaced, NoneDrawn DEF DrawnInv
<1>2. drawn' = <<>> => \A d \in Range(drawn') : NumberPlaced(d)'
  BY NoneDrawn
<1>3. QED
  BY <1>1, <1>2 DEF DrawnInv

LEMMA DrawnInitial == CombatInit => DrawnInv
<1> SUFFICES ASSUME CombatInit PROVE DrawnInv
  OBVIOUS
<1>1. drawn = <<>> /\ frame = Idle /\ scalePercent = 100
  BY DEF CombatInit
<1>2. canvas.font \in Fonts
  BY DEF CombatInit
<1>3. viewport \in Nat /\ window.height \in Nat
  BY CombatAssumption DEF CombatInit
<1>4. QED
  BY <1>1, <1>2, <1>3, NoneDrawn DEF DrawnInv, Idle

\* Places are whole numbers.
LEMMA PlacesInt ==
  ASSUME NEW place \in Places
  PROVE  place[1] \in Int /\ place[2] \in Int
<1>1. \A x \in Columns : Pixel * x \in Int
  BY CombatAssumption DEF Pixel
<1>2. \A y \in Rows : Pixel * y \in Int
  BY CombatAssumption DEF Pixel
<1>3. QED
  BY <1>1, <1>2 DEF Places

\* A text of other code is drawn as retail draws it.
LEMMA OtherTextDrawn ==
  ASSUME CombatInv, NEW text, NEW site, NEW x, NEW y, OtherText(text, site, x, y)
  PROVE  /\ canvas' = DrawRetail(PenAt(canvas, x, y), text).canvas /\ retailCanvas' = canvas'
         /\ canvas'.font = canvas.font /\ IsCanvas(canvas')
         /\ \E d : drawn' = <<d>> /\ DrawPlaced(d) /\ d.of = "other"
<1>1. frame = Idle /\ drawn = <<>>
  BY DEF OtherText, Quiet
<1>2. ~combatContext.active /\ ~rawNameContext.active
  BY <1>1 DEF CombatInv, Idle, DamageFrame, NameFrame, NoContext
<1>3. canvas = retailCanvas
  BY <1>1, NothingDrawn
<1>4. \A c : DrawText(c, text, site, Replacement) = DrawRetail(c, text)
  BY <1>2 DEF DrawText
<1>5. PICK placed : placed = PenAt(canvas, x, y)
  OBVIOUS
<1>6. /\ canvas' = DrawRetail(placed, text).canvas /\ retailCanvas' = canvas'
      /\ drawn' = <<Drawing("other", DrawRetail(placed, text).drawn, DrawRetail(placed, text).drawn)>>
  BY <1>3, <1>4, <1>5 DEF OtherText
<1>7. IsCanvas(placed) /\ placed.font = canvas.font
  BY <1>5, PenPlaced DEF CombatInv, IsCanvas
<1>8. canvas'.font = canvas.font /\ IsCanvas(canvas')
  BY <1>6, <1>7, RetailCanvas
<1>9. \E d : drawn' = <<d>> /\ DrawPlaced(d) /\ d.of = "other"
  BY <1>6, LeftAlone, DrawingFields
<1>10. QED
  BY <1>5, <1>6, <1>8, <1>9

\* Whatever is called, what it draws is in place.
LEMMA DrawnStep == CombatInv /\ DrawnInv /\ [CombatNext]_combatVars => DrawnInv'
<1> SUFFICES ASSUME CombatInv, DrawnInv, [CombatNext]_combatVars PROVE DrawnInv'
  OBVIOUS
<1>0. scalePercent \in 50 .. 200 /\ canvas.font \in Fonts
  BY DEF DrawnInv
<1>1. CASE GameContinues
  <2>1. IsCanvas(canvas) /\ frame' = Idle /\ drawn' = <<>> /\ UNCHANGED <<viewport, window, scalePercent>>
    BY <1>1 DEF GameContinues, CombatInv
  <2>2. canvas'.font = canvas.font
    BY <1>1, <2>1, CursorRestored DEF GameContinues
  <2>3. QED
    BY <1>0, <2>1, <2>2, ShownPlaced DEF Idle
<1>2. ASSUME NEW text \in Texts, NEW x \in Int, NEW screenY \in Int, NEW rise \in Int,
             DisplayDamageInfo(text, x, screenY, rise)
      PROVE  DrawnInv'
  <2>1. /\ UNCHANGED <<viewport, window, scalePercent, canvas>> /\ drawn' = <<>>
        /\ frame'.in = "damage" /\ NumberFrame'
    BY <1>2 DEF DisplayDamageInfo, NumberFrame
  <2>2. QED
    BY <1>0, <2>1, ShownPlaced
<1>3. ASSUME NEW offered \in {Replacement, NoFont}, DamageText(offered) PROVE DrawnInv'
  BY <1>3, DamageTextPlaces
<1>4. CASE DamageReturns \/ RawNameReturns
  <2>1. UNCHANGED <<viewport, window, scalePercent, canvas, drawn>> /\ frame' = Idle
    BY <1>4 DEF DamageReturns, RawNameReturns
  <2>2. QED
    BY <1>0, <2>1, ShownPlaced DEF Idle
<1>5. ASSUME NEW friendly \in BOOLEAN, NEW x \in Int, NEW y \in Int, NEW text \in Texts,
             NEW font \in Fonts, NEW retailScale \in Int,
             RawGlyphName(friendly, x, y, text, font, retailScale)
      PROVE  DrawnInv'
  <2>1. /\ UNCHANGED <<viewport, window, scalePercent, canvas>> /\ drawn' = <<>>
        /\ frame' = [in |-> "name", friendly |-> friendly, text |-> text, x |-> x, y |-> y,
                     retailScale |-> retailScale, reference |-> font, previous |-> rawNameContext]
        /\ rawNameContext' = NameContext(friendly, font, retailScale)
        /\ frame = Idle
    BY <1>5 DEF RawGlyphName, Quiet
  <2>2. rawNameContext = NoContext
    BY <2>1 DEF CombatInv, Idle, DamageFrame, NameFrame
  <2>3. FriendlyLabelScale' = FriendlyLabelScale
    BY <2>1 DEF FriendlyLabelScale
  <2>4. LabelFrame'
    BY <2>1, <2>2, <2>3 DEF LabelFrame, NameContext
  <2>5. frame'.in = "name"
    BY <2>1
  <2>6. QED
    BY <1>0, <2>1, <2>4, <2>5, ShownPlaced
<1>6. ASSUME canvas'.font = canvas.font,
             UNCHANGED <<viewport, window, scalePercent, combatContext, rawNameContext, frame>>,
             frame.in # "damage", \E d : drawn' = <<d>> /\ DrawPlaced(d)
      PROVE  DrawnInv'
  <2>1. frame.in = "name" => LabelFrame'
    <3>1. FriendlyLabelScale' = FriendlyLabelScale
      BY <1>6 DEF FriendlyLabelScale
    <3>2. QED
      BY <1>6, <3>1 DEF LabelFrame, DrawnInv
  <2>2. QED
    BY <1>0, <1>6, <2>1, ShownPlaced
<1>7. ASSUME NEW percent \in Int, ApplyScalePercent(percent) PROVE DrawnInv'
  <2>1. /\ UNCHANGED <<viewport, window, canvas, frame>> /\ drawn' = <<>> /\ frame = Idle
        /\ scalePercent' = Clamp(percent)
    BY <1>7 DEF ApplyScalePercent, Quiet
  <2>2. scalePercent' \in 50 .. 200
    BY <2>1 DEF Clamp
  <2>3. QED
    BY <1>0, <2>1, <2>2, ShownPlaced DEF Idle
<1>8. ASSUME NEW text, NEW site \in Range(Sites) \cup {"rawName", "another"}, NEW x, NEW y,
             OtherText(text, site, x, y)
      PROVE  DrawnInv'
  <2>1. frame = Idle /\ combatContext = NoContext /\ rawNameContext = NoContext
    BY <1>8 DEF OtherText, Quiet, CombatInv, Idle, DamageFrame, NameFrame
  <2>2. ~combatContext.active /\ ~rawNameContext.active
    BY <2>1 DEF NoContext
  <2>3. UNCHANGED <<viewport, window, scalePercent, combatContext, rawNameContext, frame>>
    BY <1>8 DEF OtherText
  <2>4. canvas'.font = canvas.font /\ \E d : drawn' = <<d>> /\ DrawPlaced(d)
    BY <1>8, OtherTextDrawn
  <2>5. QED
    BY <1>6, <2>1, <2>3, <2>4 DEF Idle
<1>9. ASSUME NEW friendly \in BOOLEAN, NEW x \in Int, NEW y \in Int, NEW text \in Texts,
             NEW font \in Fonts, NEW retailScale \in Int,
             BorderedGlyphName(friendly, x, y, text, font, retailScale)
      PROVE  DrawnInv'
  <2>1. /\ UNCHANGED <<viewport, window, scalePercent, combatContext, rawNameContext, frame>>
        /\ frame = Idle
    BY <1>9 DEF BorderedGlyphName, Quiet
  <2>2. PICK d : NameDrawn(d)
    BY <1>9, BorderedPlaced
  <2>3. canvas'.font = canvas.font /\ drawn' = <<d>> /\ DrawPlaced(d)
    BY <2>2, BehindBox DEF NameDrawn, CombatInv
  <2>4. QED
    BY <1>6, <2>1, <2>3 DEF Idle
<1>10. ASSUME NEW plain \in Fonts, RawNameText(plain) PROVE DrawnInv'
  <2>1. /\ UNCHANGED <<viewport, window, scalePercent, combatContext, rawNameContext, frame>>
        /\ frame.in = "name"
    BY <1>10 DEF RawNameText
  <2>2. PICK d : NameDrawn(d)
    BY <1>10, RawNamePlaced
  <2>3. canvas'.font = canvas.font /\ drawn' = <<d>> /\ DrawPlaced(d)
    BY <2>2, BehindBox DEF NameDrawn, CombatInv
  <2>4. QED
    BY <1>6, <2>1, <2>3
<1>11. ASSUME NEW marker \in BOOLEAN, NEW x \in Int, NEW y \in Int, NEW width \in Int, NEW height \in Int,
              DrawMaterialTile(marker, x, y, width, height)
       PROVE  DrawnInv'
  <2>1. /\ UNCHANGED <<canvas, viewport, window, scalePercent, combatContext, rawNameContext, frame>>
        /\ frame = Idle
    BY <1>11 DEF DrawMaterialTile, Quiet
  <2>2. QED
    BY <1>6, <1>11, <2>1, TilePlaced DEF Idle
<1>12. ASSUME NEW present, NEW health, NEW energy, ReticuleUpdate(present, health, energy)
       PROVE  DrawnInv'
  <2>1. /\ UNCHANGED <<canvas, viewport, window, scalePercent>> /\ frame' = Idle /\ drawn' = <<>>
    BY <1>12 DEF ReticuleUpdate, Quiet
  <2>2. QED
    BY <1>0, <2>1, ShownPlaced DEF Idle
<1>13. ASSUME NEW fromUiString, NEW x \in Int, NEW y \in Int, NEW text \in Texts,
              NEW font \in Fonts, NEW offered \in {Replacement, NoFont},
              LowLevelRawText(fromUiString, x, y, text, font, offered)
       PROVE  DrawnInv'
  <2>1. /\ UNCHANGED <<canvas, viewport, window, scalePercent, combatContext, rawNameContext, frame>>
        /\ frame = Idle
    BY <1>13 DEF LowLevelRawText, Quiet
  <2>2. QED
    BY <1>6, <1>13, <2>1, ReticulePlaced DEF Idle
<1>14. CASE UNCHANGED combatVars
  <2>1. UNCHANGED <<canvas, viewport, window, scalePercent, combatContext, rawNameContext, frame, drawn>>
    BY <1>14 DEF combatVars
  <2>2. NumberFrame' <=> NumberFrame
    BY <2>1 DEF NumberFrame
  <2>3. LabelFrame' <=> LabelFrame
    BY <2>1 DEF LabelFrame, FriendlyLabelScale
  <2>4. ASSUME NEW d, NumberPlaced(d) PROVE NumberPlaced(d)'
    BY <2>1, <2>4 DEF NumberPlaced, NearlyScaled, AnchorX, AnchorY
  <2>5. QED
    BY <2>1, <2>2, <2>3, <2>4 DEF DrawnInv
<1>15. ASSUME NEW place \in Places PROVE place[1] \in Int /\ place[2] \in Int
  BY <1>15, PlacesInt
<1>16. Columns \subseteq Int /\ Rows \subseteq Int /\ Percents \subseteq Int
       /\ {0, 3 * Pixel} \subseteq Int /\ {0, 32 * Pixel} \subseteq Int /\ 16 * Pixel \in Int
       /\ {50, 100} \subseteq Int
  BY CombatAssumption DEF Pixel
<1>17. CASE \E text \in Texts, place \in Places, rise \in {0, 3 * Pixel} :
              DisplayDamageInfo(text, place[1], place[2], rise)
  BY <1>2, <1>15, <1>16, <1>17
<1>18. CASE \E friendly \in BOOLEAN, text \in Texts, font \in Fonts, place \in Places, retailScale \in {50, 100} :
              \/ BorderedGlyphName(friendly, place[1], place[2], text, font, retailScale)
              \/ RawGlyphName(friendly, place[1], place[2], text, font, retailScale)
  BY <1>5, <1>9, <1>15, <1>16, <1>18
<1>19. CASE \E marker \in BOOLEAN, place \in Places, width \in {0, 32 * Pixel} :
              DrawMaterialTile(marker, place[1], place[2], width, 16 * Pixel)
  BY <1>11, <1>15, <1>16, <1>19
<1>20. CASE \E fromUiString \in BOOLEAN, x \in Columns, y \in Rows, text \in Texts,
              font \in Fonts \ {Replacement}, offered \in {Replacement, NoFont} :
              LowLevelRawText(fromUiString, x, y, text, font, offered)
  BY <1>13, <1>16, <1>20
<1>21. CASE \E text \in Texts, site \in Range(Sites) \cup {"rawName", "another"}, place \in Places :
              OtherText(text, site, place[1], place[2])
  BY <1>8, <1>21
<1>22. CASE \E percent \in Percents : ApplyScalePercent(percent)
  BY <1>7, <1>16, <1>22
<1>23. QED
  BY <1>1, <1>3, <1>4, <1>10, <1>12, <1>14, <1>17, <1>18, <1>19, <1>20, <1>21, <1>22 DEF CombatNext

LEMMA DrawnConclusion == DrawnInv => DamageTextScalesAsOne /\ LabelsKeepCentre
  BY DEF DrawnInv, DamageTextScalesAsOne, LabelsKeepCentre, NumberPlaced, DrawPlaced

-----------------------------------------------------------------------------
(***************************************************************************)
(* The canvas after each draw.                                             *)
(***************************************************************************)
\* The line height stays a number.
LEMMA RetailLine ==
  ASSUME NEW c, IsCanvas(c), c.line \in Int, c.font \in Fonts, NEW text \in Texts
  PROVE  DrawRetail(c, text).canvas.line \in Int
<1>1. PICK w \in Nat, h \in Nat : w = FontSize[c.font][text].width /\ h = FontSize[c.font][text].height
  BY FontLengths
<1>2. DrawRetail(c, text).canvas = Advance(c, w, h)
  BY <1>1 DEF DrawRetail
<1>3. QED
  BY <1>1, <1>2, PenAdvanced

\* A draw of a damage number is the retail draw, as far as the canvas goes.
LEMMA DamageTextKeeps ==
  ASSUME CombatInv, DrawnInv, NEW offered \in {Replacement, NoFont}, DamageText(offered)
  PROVE  CombatInv'
<1>1. DamageFrame /\ AsRetail /\ frame.text \in Texts
  BY DEF CombatInv, DamageText, NameFrame, Idle, DrawnInv, NumberFrame
<1> DEFINE site == Head(frame.todo)
           shift == Pixel * ShadowSide(site)
           px == frame.x + shift
           py == frame.screenY - 22 * Pixel - frame.rise + shift
           placed == PenAt(canvas, px, py)
           retail == DrawRetail(placed, frame.text)
<1>2. /\ canvas' = DrawText(placed, frame.text, site, offered).canvas
      /\ retailCanvas' = retail.canvas
      /\ frame' = [frame EXCEPT !.todo = Tail(@)]
      /\ UNCHANGED <<combatContext, rawNameContext>> /\ frame.todo # <<>>
  BY <1>1 DEF DamageText, AsRetail
<1>3. site # "rawName" /\ Tail(frame.todo) \in SitesLeft
  BY <1>1, <1>2, SitesDrawn DEF DamageFrame
<1> HIDE DEF site, shift, px, py
<1>4. IsCanvas(placed) /\ placed.line = canvas.line /\ placed.font = canvas.font
  BY PenPlaced DEF CombatInv, IsCanvas
<1> HIDE DEF placed
<1>5. canvas' = retail.canvas /\ IsCanvas(canvas') /\ canvas'.line \in Int
  BY <1>1, <1>2, <1>3, <1>4, HookHandsBack, RetailCanvas, RetailLine DEF CombatInv, DrawnInv
<1> HIDE DEF retail
<1>6. DamageFrame'
  <2>1. frame' = [in |-> "damage", text |-> frame.text, x |-> frame.x, screenY |-> frame.screenY,
                  rise |-> frame.rise, previous |-> NoContext, todo |-> Tail(frame.todo)]
    BY <1>1, <1>2, FrameDrawn
  <2>2. QED
    BY <1>1, <1>2, <1>3, <2>1 DEF DamageFrame
<1>7. AsRetail'
  <2>1. PICK d : drawn' = Append(drawn, d) /\ d.of = "number"
    BY NumberDrawn
  <2>2. \A e \in Range(drawn') : e.of # "label"
    BY <1>1, <2>1, RangeAppended DEF DrawnInv, AsRetail
  <2>3. QED
    BY <1>2, <1>5, <2>2 DEF AsRetail
<1>8. QED
  BY <1>5, <1>6, <1>7 DEF CombatInv

\* Behind a name the canvas is retail's, but for the cursor behind a label.
LEMMA NameKeeps ==
  ASSUME CombatInv, drawn = <<>>, NEW d, NameDrawn(d)
  PROVE  IsCanvas(canvas') /\ canvas'.line \in Int /\ (AsRetail' \/ BehindLabel')
<1>1. PICK box : box = d.drawn
  OBVIOUS
<1>2. canvas' = [x |-> box.x + box.width, y |-> box.y,
                 line |-> IF box.height > canvas.line THEN box.height ELSE canvas.line,
                 font |-> canvas.font, centred |-> canvas.centred]
  BY <1>1, BehindBox DEF NameDrawn, CombatInv
<1>3. box.height \in Int /\ canvas.line \in Int
  BY <1>1 DEF NameDrawn, CombatInv
<1>4. IsCanvas(canvas') /\ canvas'.line \in Int /\ CursorBehind(box)'
  BY <1>2, <1>3 DEF IsCanvas, CursorBehind
<1>5. canvas = retailCanvas
  BY NothingDrawn
<1>6. canvas'.font = retailCanvas'.font /\ canvas'.centred = retailCanvas'.centred
  BY <1>2, <1>5 DEF NameDrawn
<1>7. CASE d.of = "label"
  BY <1>1, <1>4, <1>6, <1>7 DEF NameDrawn, BehindLabel
<1>8. CASE d.of = "other" /\ canvas' = retailCanvas'
  <2>1. \A e \in Range(drawn') : e.of # "label"
    BY <1>8, OneDrawn DEF NameDrawn
  <2>2. QED
    BY <1>4, <1>8, <2>1 DEF AsRetail
<1>9. QED
  BY <1>4, <1>7, <1>8 DEF NameDrawn

\* What is drawn without the pen leaves the canvas as it was.
LEMMA UntouchedKeeps ==
  ASSUME CombatInv, drawn = <<>>, UNCHANGED <<canvas, retailCanvas>>,
         drawn' = <<>> \/ \E d : drawn' = <<d>> /\ d.of # "label"
  PROVE  IsCanvas(canvas') /\ canvas'.line \in Int /\ AsRetail'
<1>1. canvas = retailCanvas
  BY NothingDrawn
<1>2. \A e \in Range(drawn') : e.of # "label"
  BY NoneDrawn, OneDrawn
<1>3. QED
  BY <1>1, <1>2 DEF AsRetail, CombatInv

\* Every frame takes its context with it, what is drawn outside of one finds
\* and leaves none, and every draw leaves the canvas as it should.
LEMMA CombatStep == CombatInv /\ DrawnInv /\ [CombatNext]_combatVars => CombatInv'
<1> SUFFICES ASSUME CombatInv, DrawnInv, [CombatNext]_combatVars PROVE CombatInv'
  OBVIOUS
<1> DEFINE NoFrame == frame = Idle /\ combatContext = NoContext /\ rawNameContext = NoContext
           CanvasKept == IsCanvas(canvas') /\ canvas'.line \in Int /\ (AsRetail' \/ BehindLabel')
<1>a. frame = Idle => NoFrame
  BY DEF CombatInv, Idle, DamageFrame, NameFrame
<1>1. CASE GameContinues
  <2>1. NoFrame
    BY <1>1, <1>a DEF GameContinues
  <2>2. UNCHANGED <<frame, combatContext, rawNameContext>> /\ drawn' = <<>> /\ retailCanvas' = canvas'
    BY <1>1 DEF GameContinues
  <2>3. PICK start : start = [x |-> 0, y |-> 0, line |-> 0]
    OBVIOUS
  <2>4. canvas' = RestoreCursor(canvas, start)
    BY <1>1, <2>3 DEF GameContinues
  <2>5. canvas' = [x |-> 0, y |-> 0, line |-> 0, font |-> canvas.font, centred |-> canvas.centred]
    BY <2>3, <2>4, CursorRestored DEF CombatInv
  <2>6. IsCanvas(canvas') /\ canvas'.line \in Int /\ AsRetail'
    BY <2>2, <2>5, NoneDrawn DEF IsCanvas, AsRetail
  <2>7. QED
    BY <2>1, <2>2, <2>6 DEF CombatInv
<1>2. ASSUME NEW text, NEW x, NEW screenY, NEW rise, DisplayDamageInfo(text, x, screenY, rise)
      PROVE  CombatInv'
  <2>1. NoFrame /\ drawn = <<>>
    BY <1>2, <1>a DEF DisplayDamageInfo, Quiet
  <2>2. UNCHANGED <<canvas, retailCanvas, rawNameContext>> /\ drawn' = <<>>
        /\ frame' = [in |-> "damage", text |-> text, x |-> x, screenY |-> screenY, rise |-> rise,
                     previous |-> NoContext, todo |-> Sites]
    BY <1>2, <2>1 DEF DisplayDamageInfo
  <2>3. DamageFrame'
    BY <2>1, <2>2 DEF DamageFrame, SitesLeft
  <2>4. QED
    BY <2>1, <2>2, <2>3, UntouchedKeeps DEF CombatInv
<1>3. ASSUME NEW offered \in {Replacement, NoFont}, DamageText(offered) PROVE CombatInv'
  BY <1>3, DamageTextKeeps
<1>4. CASE DamageReturns
  <2>1. DamageFrame /\ AsRetail
    BY <1>4 DEF DamageReturns, CombatInv, Idle, NameFrame
  <2>2. /\ UNCHANGED <<canvas, retailCanvas, rawNameContext, drawn>>
        /\ frame' = Idle /\ combatContext' = frame.previous
    BY <1>4 DEF DamageReturns
  <2>3. combatContext' = NoContext /\ rawNameContext' = NoContext /\ AsRetail'
    BY <2>1, <2>2 DEF DamageFrame, AsRetail
  <2>4. QED
    BY <2>2, <2>3 DEF CombatInv
<1>5. ASSUME NEW friendly, NEW x, NEW y, NEW text, NEW font, NEW retailScale,
             RawGlyphName(friendly, x, y, text, font, retailScale)
      PROVE  CombatInv'
  <2>1. NoFrame /\ drawn = <<>>
    BY <1>5, <1>a DEF RawGlyphName, Quiet
  <2>2. UNCHANGED <<canvas, retailCanvas, combatContext>> /\ drawn' = <<>>
        /\ frame'.in = "name" /\ frame'.previous = NoContext
    BY <1>5, <2>1 DEF RawGlyphName
  <2>3. NameFrame'
    BY <2>1, <2>2 DEF NameFrame
  <2>4. QED
    BY <2>1, <2>2, <2>3, UntouchedKeeps DEF CombatInv
<1>6. CASE RawNameReturns
  <2>1. NameFrame
    BY <1>6 DEF RawNameReturns, CombatInv, Idle, DamageFrame
  <2>2. /\ UNCHANGED <<canvas, retailCanvas, combatContext, drawn>>
        /\ frame' = Idle /\ rawNameContext' = frame.previous
    BY <1>6 DEF RawNameReturns
  <2>3. combatContext' = NoContext /\ rawNameContext' = NoContext
    BY <2>1, <2>2 DEF NameFrame
  <2>4. AsRetail' \/ BehindLabel'
    BY <2>2 DEF CombatInv, AsRetail, BehindLabel, CursorBehind
  <2>5. QED
    BY <2>2, <2>3, <2>4 DEF CombatInv
<1>7. ASSUME UNCHANGED <<frame, combatContext, rawNameContext>>, NoFrame, CanvasKept PROVE CombatInv'
  BY <1>7 DEF CombatInv
<1>8. ASSUME NEW percent, ApplyScalePercent(percent) PROVE CombatInv'
  <2>1. /\ frame = Idle /\ drawn = <<>> /\ drawn' = <<>>
        /\ UNCHANGED <<canvas, retailCanvas, frame, combatContext, rawNameContext>>
    BY <1>8 DEF ApplyScalePercent, Quiet
  <2>2. QED
    BY <1>7, <1>a, <2>1, UntouchedKeeps
<1>9. ASSUME NEW text \in Texts, NEW site, NEW x, NEW y, OtherText(text, site, x, y) PROVE CombatInv'
  <2>1. frame = Idle /\ UNCHANGED <<frame, combatContext, rawNameContext>>
    BY <1>9 DEF OtherText, Quiet
  <2>2. PICK placed : placed = PenAt(canvas, x, y)
    OBVIOUS
  <2>3. IsCanvas(placed) /\ placed.line = canvas.line /\ placed.font = canvas.font
    BY <2>2, PenPlaced DEF CombatInv, IsCanvas
  <2>4. canvas' = DrawRetail(placed, text).canvas /\ retailCanvas' = canvas' /\ IsCanvas(canvas')
    BY <1>9, <2>2, OtherTextDrawn
  <2>5. canvas'.line \in Int
    BY <2>3, <2>4, RetailLine DEF CombatInv, DrawnInv
  <2>6. \A e \in Range(drawn') : e.of # "label"
    <3>1. PICK d : drawn' = <<d>> /\ d.of = "other"
      BY <1>9, OtherTextDrawn
    <3>2. QED
      BY <3>1, OneDrawn
  <2>7. AsRetail'
    BY <2>4, <2>6 DEF AsRetail
  <2>8. QED
    BY <1>7, <1>a, <2>1, <2>4, <2>5, <2>7
<1>10. ASSUME NEW friendly \in BOOLEAN, NEW x \in Int, NEW y \in Int, NEW text \in Texts,
              NEW font \in Fonts, NEW retailScale \in Int,
              BorderedGlyphName(friendly, x, y, text, font, retailScale)
       PROVE  CombatInv'
  <2>1. frame = Idle /\ drawn = <<>> /\ UNCHANGED <<frame, combatContext, rawNameContext>>
    BY <1>10 DEF BorderedGlyphName, Quiet
  <2>2. PICK d : NameDrawn(d)
    BY <1>10, BorderedPlaced
  <2>3. QED
    BY <1>7, <1>a, <2>1, <2>2, NameKeeps
<1>11. ASSUME NEW plain \in Fonts, RawNameText(plain) PROVE CombatInv'
  <2>1. /\ frame.in = "name" /\ drawn = <<>>
        /\ UNCHANGED <<frame, combatContext, rawNameContext>>
    BY <1>11 DEF RawNameText
  <2>2. PICK d : NameDrawn(d)
    BY <1>11, RawNamePlaced
  <2>3. CanvasKept
    BY <2>1, <2>2, NameKeeps
  <2>4. NameFrame
    BY <2>1 DEF CombatInv, Idle, DamageFrame
  <2>5. NameFrame'
    BY <2>1, <2>4 DEF NameFrame
  <2>6. QED
    BY <2>3, <2>5 DEF CombatInv
<1>12. ASSUME NEW marker, NEW x, NEW y, NEW width, NEW height,
              DrawMaterialTile(marker, x, y, width, height)
       PROVE  CombatInv'
  <2>1. /\ frame = Idle /\ drawn = <<>>
        /\ UNCHANGED <<canvas, retailCanvas, frame, combatContext, rawNameContext>>
    BY <1>12 DEF DrawMaterialTile, Quiet
  <2>2. PICK of, retail, box : of \in {"marker", "other"} /\ drawn' = <<Drawing(of, retail, box)>>
    BY <1>12 DEF DrawMaterialTile
  <2>3. \E d : drawn' = <<d>> /\ d.of # "label"
    BY <2>2, DrawingFields
  <2>4. QED
    BY <1>7, <1>a, <2>1, <2>3, UntouchedKeeps
<1>13. ASSUME NEW present, NEW health, NEW energy, ReticuleUpdate(present, health, energy)
       PROVE  CombatInv'
  <2>1. /\ frame = Idle /\ drawn = <<>> /\ drawn' = <<>>
        /\ UNCHANGED <<canvas, retailCanvas, frame, combatContext, rawNameContext>>
    BY <1>13 DEF ReticuleUpdate, Quiet
  <2>2. QED
    BY <1>7, <1>a, <2>1, UntouchedKeeps
<1>14. ASSUME NEW fromUiString, NEW x, NEW y, NEW text, NEW font, NEW offered,
              LowLevelRawText(fromUiString, x, y, text, font, offered)
       PROVE  CombatInv'
  <2>1. /\ frame = Idle /\ drawn = <<>>
        /\ UNCHANGED <<canvas, retailCanvas, frame, combatContext, rawNameContext>>
    BY <1>14 DEF LowLevelRawText, Quiet
  <2>2. PICK of, retail, box : of \in {"reticule", "other"} /\ drawn' = <<Drawing(of, retail, box)>>
    BY <1>14 DEF LowLevelRawText
  <2>3. \E d : drawn' = <<d>> /\ d.of # "label"
    BY <2>2, DrawingFields
  <2>4. QED
    BY <1>7, <1>a, <2>1, <2>3, UntouchedKeeps
<1>15. CASE UNCHANGED combatVars
  <2>1. UNCHANGED <<canvas, retailCanvas, frame, drawn, combatContext, rawNameContext>>
    BY <1>15 DEF combatVars
  <2>2. AsRetail' = AsRetail /\ BehindLabel' = BehindLabel
    BY <2>1 DEF AsRetail, BehindLabel, CursorBehind
  <2>3. QED
    BY <2>1, <2>2 DEF CombatInv, DamageFrame, NameFrame
<1>16. ASSUME NEW place \in Places PROVE place[1] \in Int /\ place[2] \in Int
  BY <1>16, PlacesInt
<1>17. CASE \E friendly \in BOOLEAN, text \in Texts, font \in Fonts, place \in Places, retailScale \in {50, 100} :
              \/ BorderedGlyphName(friendly, place[1], place[2], text, font, retailScale)
              \/ RawGlyphName(friendly, place[1], place[2], text, font, retailScale)
  BY <1>5, <1>10, <1>16, <1>17
<1>18. QED
  BY <1>1, <1>2, <1>3, <1>4, <1>6, <1>8, <1>9, <1>11, <1>12, <1>13, <1>14, <1>15, <1>17
  DEF CombatNext

LEMMA CombatConclusion == CombatInv => CombatCanvasHandedBack
<1> SUFFICES ASSUME CombatInv PROVE CombatCanvasHandedBack
  OBVIOUS
<1>1. frame = Idle => combatContext = NoContext /\ rawNameContext = NoContext
  BY DEF CombatInv, Idle, DamageFrame, NameFrame
<1>2. CASE AsRetail
  BY <1>1, <1>2 DEF AsRetail, CombatCanvasHandedBack
<1>3. CASE BehindLabel
  <2>1. PICK d : drawn = <<d>> /\ d.of = "label" /\ CursorBehind(d.drawn)
    BY <1>3 DEF BehindLabel
  <2>2. Range(drawn) = {d}
    <3>1. DOMAIN <<d>> = {1} /\ <<d>>[1] = d
      OBVIOUS
    <3>2. QED
      BY <2>1, <3>1 DEF Range
  <2>3. QED
    BY <1>1, <1>3, <2>1, <2>2 DEF BehindLabel, CombatCanvasHandedBack
<1>4. QED
  BY <1>2, <1>3 DEF CombatInv

-----------------------------------------------------------------------------
(***************************************************************************)
(* The parts together.                                                     *)
(***************************************************************************)
HudInv == SettingsInv /\ CombatInv /\ DrawnInv /\ PlateInv /\ PlatesInv /\ F2Inv

\* The inductive invariant of the HUD's parts holds, for any fonts, settings
\* and files, any number of plates and any number of rows of the statistics.
THEOREM HudInvariant == MCSpec => []HudInv
<1>1. MCInit => HudInv
  BY SettingsInitial, CombatInitial, DrawnInitial, PlateInitial, PlatesInitial, F2Initial DEF MCInit, HudInv
<1>2. HudInv /\ [MCNext]_hudVars => HudInv'
  <2> SUFFICES ASSUME HudInv, [MCNext]_hudVars PROVE HudInv'
    OBVIOUS
  <2>1. /\ [CombatNext]_combatVars /\ [F2Next]_f2Vars
        /\ [PlateNext]_plateVars /\ [SettingsNext]_settingsVars
    BY DEF MCNext, hudVars
  <2>2. QED
    BY <2>1, SettingsStep, CombatStep, DrawnStep, PlateStep, PlatesStep, F2Step DEF HudInv
<1>3. QED
  BY <1>1, <1>2, PTL DEF MCSpec

\* However the file is saved and deleted while its keys are read, settings that
\* a poll found up to date are the file's, and the next poll is due in time also
\* when the tick count wraps, for every interval shorter than a wrap.
THEOREM SettingsCaughtUp == MCSpec => []SettingsCatchUp
  BY HudInvariant, SettingsConclusion, PTL DEF HudInv

\* What is handed back, for every font, scale and text.  After every hook of the
\* combat texts the canvas is as retail drawing alone would have left it, font
\* and centring always, the cursor but for one case: behind a label drawn at its
\* own scale it stands where that label ends.  No context outlives its call.
\* After the plates the game has its own pen and colour again, with the line
\* height of the tallest text drawn where that is more than its own.
THEOREM CanvasReturned == MCSpec => []CanvasHandedBack
<1>1. HudInv => CanvasHandedBack
  BY CombatConclusion, PlateConclusion DEF HudInv, CanvasHandedBack
<1>2. QED
  BY <1>1, HudInvariant, PTL

\* No bar of a plate is cut off by the budget of rows, every rectangle lies on
\* the canvas and the stat line fits its buffer: for any size of the canvas, any
\* height and width of the bars, and whatever the players' values are.
THEOREM PlatesAreWhole == MCSpec => []PlatesWhole
  BY HudInvariant, PlatesConclusion, PTL DEF HudInv

\* The rows of the F2 statistics end where the retail rows do, follow one
\* another without touching, above the end that is returned, and the text of
\* other code is left alone: for every height of the window, any number of rows
\* and every font with rows of one height whose texts keep a width when halved.
THEOREM F2RowsKept == MCSpec => []F2RowsKeepLayout
  BY HudInvariant, F2Conclusion, PTL DEF HudInv

\* Text and plates are where and as large as they should be.  A damage number
\* and its shadows grow about one point in whichever font they are drawn, to
\* less than a third of a pixel; labels, markers and reticule texts keep their
\* centre; other text is left alone; rows and plates are as above: for every
\* font, text, viewport, window, place and setting.
THEOREM HudStaysInPlace == MCSpec => []HudInPlace
<1>1. HudInv => HudInPlace
  BY DrawnConclusion, F2Conclusion, PlatesConclusion DEF HudInv, HudInPlace
<1>2. QED
  BY <1>1, HudInvariant, PTL
=============================================================================
