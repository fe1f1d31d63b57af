# A TLA+ model of the Global Agenda client patch

The client patch is a proxy `dinput8.dll` that the retail game loads. A worker
thread starts logging and crash capture, verifies the executable, and hooks a
dozen functions of the game at fixed addresses. From then on the patch runs only
inside calls the game makes, on whatever thread makes them, and mostly without
locks. This directory models what the patch does there, and the part of the vendored
Detours library that installs it, model-checks the models with TLC, and proves with TLAPS what matters most of
them: the registry and the handshake detour, the installation of hooks, the three parts of the diagnostics, the font
cache, the audio pacing, the video sliders, what is drawn on the HUD and the file its settings come from, Detours' trampolines and the search for
their memory, the four small patches, and the release script.

- [Inventory](#inventory)
- [Modules](#modules)
- [What each run checks](#what-each-run-checks)
- [Bounds and assumptions](#bounds-and-assumptions)
- [Fairness](#fairness)
- [What is proved](#what-is-proved)
- [Disagreements between code and comments](#disagreements-between-code-and-comments)
- [What is not modelled, and the plan](#what-is-not-modelled-and-the-plan)

Paths below are relative to the repository.

## Inventory

| Part | State it keeps | Operations | What is hard | What makes it correct |
| --- | --- | --- | --- | --- |
| Feature registry (`src/Handshake/FeatureRegistry.cpp`, `FeatureMagic.hpp`) | a table of 32 entries: registration, state, last release, notice flag | `Register`, `HandleServerToken`, `Reset` | callbacks that fail; tokens share a signed 32-bit parameter with ordinary bandwidth | a feature is on only under an exact match advertised in this server instance |
| Handshake hook (`src/Handshake/FeatureHandshakePatch.cpp`) | pending notices, the debug join summary | the `ProcessEvent` detour | the chat helper re-enters the detour; other threads call it; the tick count wraps | notices are current, shown once, by the game thread |
| Hook installation (`src/EntryPoint/DllMain.cpp`, `src/Utils/HookBase.hpp`, Detours) | the transaction, the jumps, the trampoline pointers | `InstallHooks` | game threads run meanwhile; each stage may fail | all hooks or none; no body runs before what it needs |
| Log directory (`src/Utils/ClientLogDirectory`, `SetLogDirectory`) | published paths, the active one | `Initialize`, `BeginInstance`, `Log` | readers hold old pointers, also while crashing | a held path never changes |
| Crash rings (`FileLogger.cpp`) | 16 rings of 100 lines | append, create, dump | unlocked appends, creation race, wrap | one ring per channel, the dump shows the last lines in order |
| Crash handler (`src/Utils/CrashHandler`) | reporter flag, budget, last fault | vectored and unhandled handlers, CRT failures | faults inside the report, several threads, the same fault seen twice | the flag is always given back, the budget holds |
| Loaded-font cache (`src/ClientRuntime/EngineFont.cpp`, `EngineFontCachePolicy.hpp`) | slots of four atomics, the scan deadline | `ResolveSharperArial` | lock-free readers and writers; the engine reuses addresses | no stale font; scans keep their distance |
| Audio pacing (`src/ClientPatches/PerformanceOptimizations/Audio`) | schedule, voice window, budget, all thread-local | two hooks | stalls, device changes, a counter that goes back | paced, never starved; voices cut only on evidence |
| Video sliders (`src/ClientPatches/UI/FovSlider`, the setting of `CombatTextScale`, `EngineConfig`) | pointers into a UI scene, two preferences | five hooks | the scene dies and addresses come back; retail handlers run in the middle; saves fail | labels, sliders, preferences and game agree; no dead slider is touched |
| Combat text (`src/ClientPatches/UI/CombatTextScale`) | a scale, two contexts between hooks | seven hooks around the HUD's text routines | each text, shadow, offset and box is scaled in a hook of its own, in two fonts | everything grows about its own centre; the canvas is handed back, a label's cursor excepted |
| F2 statistics (`src/ClientPatches/UI/F2StatsScaling`) | the row in progress | two hooks | the retail function moves its own pen; it may fail in the middle | rows keep their layout |
| Nameplates (`src/ClientPatches/UI/SpectatorNameplates`) | settings and their file's stamp | one hook, polling | limits of rows and characters; the file is saved while it is read | whole plates; pen and colour are handed back; settings catch up |
| Morph rebuild, scoped weapon, jetpack aim, game window | none or one value | one hook or call each | compaction in place; many callers of one function; 16-bit angles; handles that are reused | each does its one thing and leaves the rest to the game |
| Detours (`lib/detours/detours.cpp`, `disasm.cpp`) | pending operations, regions, page protection | begin, attach, commit, abort | opcode tables, jumps that grow when moved, 2 GB bounds, shared pages | a trampoline does what the moved code did; nothing is left writable or lost |
| Release script (`tools/publish-client-patch-release.sh`) | GitHub's releases and tags | number, draft, verify, publish, verify | a call fails or its answer is lost; a draft stays from an earlier run | what is published is what was built |
| Executable guard, proxy, layouts | fixed after startup | parsing and lookups | pure computation or forwarding | only the guard's verdict is modelled |

How they meet: `InstallHooks` starts the log directory and the crash handler, asks the
guard, loads the settings, fills the registry, and attaches every hook in one
Detours transaction. The handshake hook calls the registry and, in debug builds,
`BeginInstance` at each join. Every part logs; the crash handler reads the active log
directory and dumps the rings. The text patches share the font cache.

`PROJECT.json` lists every component with its status, and under `hazards` the
places where the code could go wrong in a way a unit test would hardly reach,
with the property that watches each or the reason why none does.

## Modules

| Module | Models | Composition |
| --- | --- | --- |
| `FeatureMagic` | encoding of tokens, in integer arithmetic that equals the code's 32-bit shifts and masks | used by the registry |
| `FeatureGate` | the abstract promise: what a feature may rely on | refined by `FeatureRegistry` |
| `FeatureRegistry` | the table; one action per operation, one operator per branch | extends `FeatureMagic`, instantiates `FeatureGate` |
| `FeatureHandshake` | the detour, as stacks of frames per thread | extends `FeatureRegistry`: each RPC and travel is the registry's own action |
| `HookInstall` | the worker's stages against the game threads | extends `DetourTransaction`: attach, abort and each step of the commit are its actions |
| `DetourTransaction` | begin, attach, abort, commit; free list, page protection | |
| `X86Copy` | one instruction copied by the tables and handlers of `disasm.cpp` | |
| `X86Reference` | length and effect of an instruction, from the processor's opcode map | what `X86Copy` is compared with |
| `DetourAttach` | the loop of `DetourAttachEx` that fills a trampoline | extends both |
| `TrampolineRegion` | jumps in front of the code, bounds, the search of the address space | |
| `LogDirectory`, `CrashRings` | the two halves of the logger | |
| `CrashReporter` | the abstract promise: one report at a time, a budget, no fault filed twice in a row | refined by `CrashHandler` |
| `CrashHandler` | reporters, faults, process end | instantiates `CrashReporter` |
| `FontCache` | the lock-free cache against the engine's object table | |
| `AudioUpdate` | schedule and voice budget | |
| `VideoSliders` | the FOV and combat-text sliders, their settings, the engine's scenes | |
| `Canvas` | the engine's canvas and text renderer (external), and the steps two patches share | |
| `CombatText`, `F2Stats` | the text hooks | extend `Canvas` |
| `Nameplates`, `NameplateSettings` | drawing entry by entry; polling the file key by key | |
| `AimAlignment`, `MorphCompaction`, `ScopedWeapon`, `GameWindow` | one small patch each | |
| `SmallPatches` | any interleaving of these | extends the four |
| `ReleasePublisher` | the release script, one step per `gh` command | |
| `FeatureHandshakeProofs` | theorems about the registry and the detour | extends `FeatureHandshake`, which extends `FeatureRegistry` |
| `HudProofs` | theorems about combat texts, F2 rows, plates and settings | extends `MCHud`, as these share a run |
| `HookInstallProofs`, `FontCacheProofs`, `AudioUpdateProofs`, `VideoSlidersProofs` | theorems | extend the module they are named for |
| `AlgorithmsProofs` | theorems about the release script, the region search, the trampoline and the small patches | extends their modules, as these share a run |
| `DiagnosticsProofs` | theorems | extends `LogDirectory`, `CrashRings` and `CrashHandler`, as the run `diagnostics` does |
| `MC*` | constants for TLC | extend the module or modules they check |

Definitions keep the source's names. Operators commented "Deliberate fault, used by
no specification" sit beside the definition they vary (a dropped guard, a wrong
deadline, a missing reset). Each shows, when put in the place of the original,
that a property really depends on the code; `PROJECT.json` pairs them under `mutants`.

### FeatureRegistry

`entries` is the code's table. An entry records what the code's `Entry` records; `runtime` counts
what the activation callback controls: one up for each time it accepted to be switched on, one down for each time it was switched off, so that a
handler called twice shows as well as one left on.
`Register` is one action with the code's three outcomes: store in the first free
slot, accept an exact repeat, refuse. `HandleServerToken` follows the code's early returns:
not a reserved token, unknown feature, release mismatch (deactivates, asks for one notice),
already active, activation succeeds or fails. `Reset` deactivates every entry.
Registration ends before the hooks exist (`FinishRegistration`), as in `InstallHooks`.

### FeatureHandshake

Each thread has a stack of frames, since the chat helper may call `ProcessEvent`
again. A frame remembers which delivery comes next and which lines it
still has to send. Inside one frame the code between two chat calls is one step:
there are no locks, but also no calls out. The debug build adds the join summary with
its deadline, an addition modulo `TickWrap`, compared by the sign of a difference as in the code.
Notices and statuses are told in the order of the table, as the code's loops over slots do (`InTableOrder`).
A release build has no summary. `NestedRpc` says whether the helper may deliver
an RPC or a travel inside a chat call, or only other calls; `StatusToldIsCurrent`
is about the case without: with it, an update can be overtaken by
the older status line the outer frame is still sending.
The model shows a notice even when a later matching token arrived before the chat
manager existed, as the code does.

### HookInstall and DetourTransaction

A stage per step of `InstallHooks`, each with its failure. The patches' `Install` functions
stop at the first failure, so together they attach one sequence of hooks. Detours
puts operations at the head of a list and commits from the head, so hooks
go live in the reverse of the order of attachment; for each, the jump is written before the pointer to the
trampoline. A body that calls the original while the pointer is old
re-enters itself. The five bytes of a jump are one write, though the code does not write them atomically; `MaxDepth`
bounds the re-entry. The call of the original is a tail call in the model: what the
bodies do after it is not about installation.

Each attach takes a trampoline from the free list, which begins at the third slot (the code passes over slots 0 and 1;
its comment says "everything but the first"), records the protection of the pages it makes writable, and gives the trampoline
back when it fails. Begin and commit cannot fail on this path: the transaction is begun once,
and a pending error has been answered by an abort before. `PagesInOrder` is an assumption about the hooked
addresses, explained under Bounds. Detaching, `s_fRetainRegions`, and suspending
threads have no caller here.

### X86Copy, X86Reference, DetourAttach

`X86Copy` translates the tables and handlers of `disasm.cpp` as they are built for 32-bit x86: an entry of the table is
a record, a handler a function from the bytes to a result (bytes written, bytes used, growth, target). The handler of a prefix calls that of the
byte behind it, which the module writes as a loop: `PrefixCount` prefixes are copied, each leaves its mark (`CopyPrefixes`), then one handler copies the rest.
`X86Reference` says for the same bytes how long the instruction is and what it does (its bytes without address, or
the target of a branch), from the layout of the instruction set: opcode, ModR/M, SIB, displacement, immediate.
`DetourAttach` is the loop: copy instructions until five bytes are free, stop behind an instruction that ends the function,
eat filler, refuse what is too short, write the jump back. The code's result is compared with the reference instruction by
instruction, in place: same effect at the new address, no gap, no overlap, and a jump to the
first instruction that stayed. Two quirks are kept: `m_nSegmentOverride` is read uninitialised in `CopyFF` (a choice),
and `E0` after `FF` is taken for "jmp eax".

### TrampolineRegion

The address space is scaled down to 128 units with a region of two, the order and the alignment of the bounds kept. One action per region looked at; whether a free region can be allocated is the system's choice. Two limits of the
code are stated in `RegionFound` and not hidden: the 128 MB steps over the system's region also pass free regions beside it, and
both searches start at the region of the hooked code, which is not within the bounds when the code is itself a jump over two gigabytes or more.

### LogDirectory and CrashRings

`SetLogDirectory` is split where another thread can see the difference: the reservation by compare-exchange,
the copy of the path, the exchange of the active pointer. Readers keep
the pointer they loaded. Rings are created under the lock with a second look;
appends take an index and write their slot later. The dump is one step over a ring in whatever state its writers
are, and each offset of it is compared with the line that belongs there: `ReportShowsLastLines` excuses an offset only while the writer of just that line is
under way, and says what may be seen there meanwhile (`Leftover`). A writer is not overtaken by a whole ring of newer lines: the code accepts that one
(`NotOvertaken` is a guard of the model).

### CrashHandler

Each thread is at a point of one of the three paths (vectored, unhandled, runtime failure).
Counting, taking the flag, opening the file, writing, remembering, and giving the flag
back are steps of their own. A fault inside the report is one step that runs the nested handler to its
end: the nested report finds the flag taken, uses one of the budget, and the outer report is abandoned with
its flag. The previous unhandled filter may resume the thread. Codes outside the fatal list
reach only the unhandled handler.

`CrashReporter` is the same without threads: a report that is free, open, filed or lost. The refinement (`ReportPhase`) reads the phase off
the flag and the point of the thread that holds it, so a flag that is kept, or taken twice, shows as a step the reporter cannot make.

### FontCache

One action per atomic load, store or compare-exchange. x86 keeps loads and
stores in order, so no reordering is added. The engine loads and unloads objects only
while no call is in progress, since its collector runs on the thread
that draws; addresses and table indices are reused at once. The snapshot
from which a free slot is chosen is one step.

### AudioUpdate

The hook of `UAudioDevice::Update` is one action: voice window, budget, schedule. If the
pass runs, `GatherWaveInstances` follows inside it. The comparison of frames per second in `double` is an
exact comparison of integers; the performance frequency is a positive constant. One thread
updates audio. `steady` is a history of its own, kept beside the code's window and without reading it: since when frames have been in order, in realtime, without a gap,
and of one device and capacity (`Alike`). `ModesLast` judges the code's window by it. The debug build's timing statistics are left out.

### VideoSliders

One settings scene exists at a time and the patch's two sliders die with it; `ui` is `g_ui`. Each hook is one action.
The button's hook is two: what it reads before the retail handler (`Press`) and what it does afterwards
(`ButtonReturns`); between them the engine may close, collect and build scenes, tick them, and attach players.
Set-up may fail before the first clone or between the two, and a half-built slider stays hidden in the scene.
The two sliders go through the same code with other limits and so are one function over `Kinds`. A slider's
position is counted in halves, which is what rounding can tell apart. The text settings' value is
`preferred["text"]`; the console command is taken to exist. The model relies on the engine never
giving a new scene both addresses, its own and its brightness slider's, that the patch remembers (`SceneBuilt`).

### Canvas, CombatText, F2Stats

The retail HUD functions are external: `Canvas` knows of them what the hooks use, a pen, a font, a centring flag, and a renderer that scales a
text about a point. Every hook is an action between a retail function and the renderer; retail functions draw any
texts in any order. Lengths are in eighths of a pixel and scales in percent; the model rounds a scaled length down to an eighth, and where
the code rounds to pixels, the model does. For each text `drawn` keeps what the renderer was asked to draw
and what the unpatched game would have drawn, and the properties compare the two, within what this rounding can do: a third of a pixel for the distances of a damage
text (`NearlyScaled`), an eighth for centres, and a pixel for reticule texts, which the code places on whole pixels. A text for which a font has no size
(a missing glyph) keeps the retail font. The wrappers of F2 restore their context when the retail function fails.
`DrawNormalizedRawName` measures with the plain font at the centre of the bordered one, as the code does.

`retailCanvas` is the canvas as retail drawing alone would have left it: every action moves it by what the retail call does, as it moves
`canvas` by what the hook does, and `CombatCanvasHandedBack` compares the two after every hook. They differ in one case. A bordered label or a raw name drawn at a scale of its own
leaves the cursor behind its own text (`DrawNormalizedRawName` moves the pen and restores nothing, `BorderedGlyphName` passes other coordinates on);
the property says where the cursor is then, and that font and centring are retail's all the same.

### Nameplates and NameplateSettings

`DrawPlate` is one entry of the list: guards and clips, then bars, text and stat line, with the limits of `FillRect` and of the
format buffer. `plateCanvas` has the pen, the colour and the line height, which drawing text raises to the tallest text (`StatsExtent` is the size of a stat line).
`RestoreCanvas` gives back pen and colour, as the code does, and not the line height; `PlateCanvasHandedBack` says exactly that. The list's length and capacity come from the game and may disagree. The projection, the camera and the text
widths are inputs. The settings' poll reads the stamp, then one key per step; the
file may be saved or deleted between two. Every save has a new stamp.

### Small patches

`AimAlignment` wraps angles as the code's casts do. `MorphCompaction` is the loop over the array, one step per target.
`ScopedWeapon` runs the `SetHidden` hook for every caller, pawn and form, in any order, while scope and hand change at any moment. `ZoomKept` is about outcomes: `reattached`
collects what the body helper brought back into sight in the scope, and `last` is each mesh's last request by whomever since scope or hand changed. `GameWindow` caches a handle while windows appear, resize and go, and
handles come back.

### ReleasePublisher

Every `gh` command is a step: it may fail, take effect and lose its answer, or be the last one before the runner is stopped. GitHub is
external: drafts may share a tag, a published tag is taken, and which of several releases gh finds for a tag is one of two
orders, chosen once. The two looks for an existing release or tag
take any failure for "there is none", as the code does. Maintainers push tags at any time and publish or remove
releases between runs; the workflow's concurrency group keeps runs apart.

## What each run checks

Runs of parts that share no variable start by choosing the part, and so explore the sum of their state spaces.

| Run | Question | Properties |
| --- | --- | --- |
| `registry` | any order of registrations, tokens and travel | `OneSlotPerFeature`, `HandlerFollowsGate`, `StateMatchesAdvertisement`, `ImplementsGate` (refinement of `FeatureGate`), `RegTypeOK` |
| `handshake` | both builds: re-entrance, a second thread, the join summary; does a queued notice ever appear | `PendingIsCurrent`, `OneNoticePerInstance`, `OneSummaryPerJoin`, `SummaryNotEarly`, `StatusToldIsCurrent`, `NoticeReachesUser` (release build) |
| `font_race` | two threads, one slot | `SlotsAreWhole`, `ScansSpaced`, `ReturnedFontIsUsable` |
| `font_keys` | more keys than slots, one thread | `OneSlotPerKey` |
| `diagnostics` | log directories, crash rings, or the crash handler | `HeldPathsStay`, `ActiveIsCurrentInstance`; `OneRingPerChannel`, `ReportShowsLastLines`; `FlagHasOneOwner`, `NoBackToBackDuplicate`, `ImplementsReporter` (refinement of `CrashReporter`) |
| `hook_install` | failures at any stage against running threads, hooks that share pages | `AllOrNothing`, `BodiesRunPrepared`, `TransactionBalanced` |
| `hook_partial_set` | the comment about atomic attachment | `NoPartialPatchSet` is violated, see below |
| `audio_update` | irregular frames, stalls, counter going back | `PassNotStarved`, `PassesPaced`, `VoicesOnlyReduced`, `ModesLast` |
| `video_sliders` | scenes rebuilt, also inside the button handler, players, restarts | `LabelsMatchSliders`, `WidgetsTouchedAreLive`, `ConfirmedIsKept` |
| `hud` | combat text, F2 rows, plates, or the settings file | `HudInPlace`, `CanvasHandedBack`, `SettingsCatchUp` |
| `algorithms` | relocation of code, region search, the small patches, or the release script | `MovedCodeEquivalent`, `TrampolineHoldsAll`, `RegionFound`, `SmallPatchesRight`, `PublishedIsVerified` |
| `relocate_loop` | functions with LOOP or JECXZ near the front | `MovedCodeEquivalent` is violated, see below |

All of them hold except the two named. Each property's comment in its module says it in words.
The stateful modules also define a type invariant (`RingsTypeOK`, `CrashTypeOK`, ...). These hold in the same instances but are
not listed as questions of their own: they are conjuncts of the inductive invariants, and proved with them.

The longest runs are `handshake` (half a million states with a liveness check, about two minutes), `diagnostics` (2.4 million
states), `algorithms` (1.2 million) and the two patches with sliders and audio; each of these takes about a minute.

`CHECK_DEADLOCK FALSE` stands where the system stops or a bound ends the run: a logger
whose `Initialize` failed, a process that ended, rings whose bounded number of lines is used
up, a trampoline that is finished, an editor that saved often enough, and the registry and handshake runs, which end when
the bounds on instances, depth and clock are used up.

## Bounds and assumptions

- Registry and handshake: two slots, which two features fill, so "no free slot" and "every slot
  pending" happen; ids and releases at both ends of their ranges; negative values
  and an ordinary bandwidth. `MaxInstance` bounds travels: two in the release build, so a notice can outlive
  one, and one in the debug build, whose summaries start over at each join. `MaxDepth` is two, a call inside a chat call. The debug build's
  tick count wraps at 4 with a delay of 1, and `MaxClock` lets joins happen before and after the wrap.
  The debug build has `NestedRpc` off, which `StatusToldIsCurrent` needs; the release build has it on.
- Font cache: `font_race` has one slot, two addresses and three kinds of font, the
  smallest instance in which a slot is overwritten for another key, an address is reused by another kind, and two calls for one source want different weights;
  `font_keys` has two slots for more keys, and three addresses. The assumption
  `2 * CallTime < Retry` says that a call takes less than half the retry interval, which is five seconds in the code: without it two
  scans could be reserved in the same interval by a thread that read its tick long ago. Equality is not enough. With `Retry = 2`, `CallTime = 1`,
  two threads and two slots, TLC shows a call that starts at the very tick at which an earlier one is about to publish: it
  searches before the publication, finds the deadline just reached, and stores the same key in a second slot.
  `OneSlotPerKey` is checked for successive calls of one thread, and proved for any number of threads.
- Crash handler: four faults against a budget of three; codes and addresses that repeat.
- Log directory: three places for four instances. Crash rings: two rings of
  two lines for three channels and five lines, so rings fill, wrap, and run out.
- Hook installation: four hooks in three patches and the handshake hook, two game threads; one hook per
  patch and two in one is all the difference the order makes. Three pages, one shared by three functions, one of which
  lies across its start: an attach finds its page already writable, or one of two. `PagesInOrder` assumes that when an attach
  finds the first page of a function already writable, it finds its other page so too. `VirtualProtect` reports the former protection of
  the first page only, and the code gives that back to both: a function across two pages of which only the
  first had been made writable would leave the second writable for good. No hooked address of the patch lies so close to the end of a
  page. Eight trampolines: the code's region holds
  hundreds, and running out is the failure `AttachFindsNoMemory` has anyway.
- Audio: a performance counter of three ticks a second, one pass a second, a window of two
  seconds and a gap of one; `MaxTick` 12 covers two full windows. Every frame picks any reading, earlier ones too.
  Two devices, capacities below and above the reduced budget.
- Video sliders: three scenes over two addresses, so a scene comes back at an address used before, with another
  brightness slider; two controllers, so the captured one can be gone. Limits of two values each, with the default
  at either end, and stored values beyond both.
- Relocation: every opcode of both maps that X86 defines, each with nine ModR/M and two SIB bytes that choose every length of address, with and
  without an operand-size prefix, first or second in a function; two branches in a row with a long instruction behind, so that growth meets the
  limit of the trampoline; short functions with every kind of padding; a trampoline above and below. TLC evaluates the assumption of the proof
  on all of them (`FunctionsAreOrdinary`). Left out of the passing
  run: `LOOP`, `LOOPE`, `LOOPNE` and `JECXZ` (the finding); behind an operand-size prefix the branches `70`-`7F`, `EB`, `E8`, `E9` and `0F80`-`0F8F`; an address-size prefix before anything but
  `A1`; `MOV` to and from control and debug registers (`0F20`-`0F23`); `F1` and `0F78`; and the invalid or reserved `D6`, `0F04`, `0F0A`, `0F0C`, `0F24`-`0F27`, `0F36`, `0F39`,
  `0F3B`-`0F3F`, `0F7A`, `0F7B`, `0FA6`, `0FA7`, `0FB9` and `0FFF`. By samples only: the other prefixes, `0F38`, `0F3A`, `0FB8`, and the VEX, EVEX and XOP forms behind `C4`, `C5`, `62` and `8F`. Results of `obTarget` are three bits
  wide in the code, where 8 is stored as 0; nothing reads them unless threads are suspended.
- Region search: eight places in all sets of three, at both ends, around the system's region and next to the code, and one layout
  with every place free but two; code at the bottom, the middle and the top, with plain code, a short, a long or an indirect jump in front.
- HUD: scales of 0, 50, 150 and 300 percent, three window heights from 720 to 2160, three texts of which one has no
  glyphs in the sharper font and one in neither, and sizes that no scale divides; nameplates with seven players (dead, behind the camera, outside, at the edge, more health than
  the maximum, maximum zero, values of 31 bits), scales of 1, 160 and 400 percent and bars at both limits; a settings file of a few keys with values in and out of range,
  three edits, and a tick count that wraps.
- Small patches: angles at and beyond the ends of 16 bits, four morph targets of two names and weights below, at and above zero,
  two meshes and slots, two window handles.
- Release script: two numbers and two runs for two commits: a draft that stayed and a second of the same number, found first or last, is all
  the confusion there can be; a third run takes TLC to 3.3 million states and shows nothing new.

The shipping build registers no feature (`ClientFeatureRegistry.cpp` is empty) and then does not
install the handshake hook at all in release builds. The registry and handshake
models are about builds with features, as are the repository's own tests.

## Fairness

Only `NoticeReachesUser` needs fairness; it is stated for the release build. `WF` of the game thread's calls and of each step of its
frames: the engine calls `ProcessEvent` many times a frame, and the detour's code
has no wait. `WF` of `ChatManagerCreated`: the client creates its chat manager once, and keeps it.
`SF` of the chat helper's return: it may nest calls, but each nesting ends. Nothing
is assumed of the server, of travels or of other threads, which the property does not need.

## What is proved

Each proof holds for every value of the constants that satisfies the module's ASSUMEs: any number of threads, slots,
features, directories, and so on, where a run has two or three. Each follows one pattern: an inductive invariant (`...Inv`), that it holds
initially, that each action keeps it, and the properties as its consequences. The invariants
were first checked by TLC on the runs' instances.

**`FeatureHandshakeProofs`**, the registry:

- `TokenRoundTrip`: decoding what `MakeToken` builds gives back the id and the release, and the token is a reserved
  32-bit value; `OrdinaryValuesPass`: every other 32-bit value, negative ones
  included, is passed through to the game.
- `RegistrySafe`: the inductive invariant `RegInv`. It joins the four invariants of the run with three
  facts they lean on: every entry in use holds a valid registration (`SlotsAreValid`), an unused entry is blank, and
  no feature leaves `NotAdvertised` before the hooks are attached. The strengthening is needed: storing a
  registration must not inherit a state from what the slot held before, and a mismatch is judged against the
  release of a registration that is valid.
- `RegistryTyped`, `SlotsUnambiguous`, `HandlersFollowTheirGate`, `StatesExplained`: each
  conjunct of interest as an invariant of the specification, the ones the run `registry` checks.
- `RegistryImplementsGate`: every behaviour of the table is a behaviour of `FeatureGate`.
  The refinement maps a feature id to the entry that holds it; the proof
  needs `RegInv` for that entry to be unique, and one lemma for each branch of `HandleServerToken`.

An activation handler may succeed or fail on every call and does nothing else to the table.

**`FeatureHandshakeProofs`**, the detour:

- `DetourUsesRegistry`: every step of the detour, in whatever frame, is a step of the registry's specification or leaves it
  alone. So `RegInv` carries over, and `DetourImplementsGate` follows: what features rely on holds of the running detour.
- `DetourInvariant`: the invariant `DetourInv`. Its core is where a notice can be. `NoticeInv` says that a
  feature's notice of this instance is in the pending table, or in exactly one unsent line of one frame, or shown, and
  never two of these: a re-entered frame takes what is pending, and the outer frame's copy still has its own. The line whose chat
  call is running counts as shown (`Unsent`). `PendingInv` keeps the pending
  table a part of the present mismatches, so by counting slots there is always room for one more.
- `PendingNoticesCurrent`, `NoticesShownOnce`, `JoinSummarisedOnce` and `GracePeriodHolds` follow. The last needs
  that comparing 32-bit ticks by the sign of their difference decides which is later while they are less than half the range apart (`DeadlineDecides`),
  and that the deadline is the due time modulo the wrap.
- `StatusToldCurrent` has a second invariant (`ToldInv`) and holds without `NestedRpc`. With it the property is false, see above.
- `ChatStaysOnGameThread`: only the game thread's frames have lines to send.

**`HookInstallProofs`**: `InstallInvariant` follows one attach after another: the i-th hook of the order has the i-th trampoline
and the first operation on a page remembers that it was not writable (`OperationsInv`); a page that no pending operation touches is not
writable (`ProtectInv`); the free list holds the trampolines not given out, in order (`FreeInv`); jumps and pointers are written exactly for what the commit has taken off the
list, up to the one in progress (`InsertedInv`).
`TransactionsBalance`, `InstallsAllOrNothing` and `BodiesFindThingsPrepared` follow. A commit gives pages back in the reverse order of
attachment, so the operation that remembers "execute_read" is the last for its page. Assumed: `PagesInOrder`, and what
`PatchHooks` is, which TLC evaluates.

**`DiagnosticsProofs`** has three parts.

- Log directories, `DirectoriesSafe`: an entry is settled once no call in progress has reserved it. `DirectoryInv`
  says that a call works on the last entry, that what is published or held is settled, and that the published entry
  holds the path of the current instance. `HeldPathsStay` alone is not inductive: a copy would be free to
  hit the entry a reader holds. It is assumed that one thread at a time sets directories, which is how `SetLogDirectory` is called.
- Crash rings: `ChannelsHaveOneRing`, since the owner of the lock is the only thread between the second look and the count
  (`RingsInv`), and `ReportsShowLastLines`, for which `LinesInv` says that every
  recent line is in its slot unless its writer is under way (`RecentLinesHeld`). That covers quiet rings; for lines in flight it needs three more facts: slots no line has
  reached are empty (`EmptyAhead`), no two writers are at one slot (`WritersApart`), and the slot of an unwritten line holds what the turn before left or a torn line (`LeftoversHeld`).
- Crash handler: `OneThreadReports`, `ReportsWithinBudget`, `NoFaultReportedTwiceInARow`. The budget is not kept by the reports
  alone: `BudgetInv` counts the threads that passed the counter and have not reported as tickets, and says that reports and
  tickets together stay within what was counted and within the budget. `HandlersImplementReporter` joins the three: every step of any handler is a step of
  the one reporter or a stutter. A thread that takes the flag has a ticket, so the budget covers its report; and since only one thread is inside,
  its point in the code is the phase of the report (`PhaseInside`).

**`FontCacheProofs`** is about code without a lock, and its argument is one of time. A call is *fresh* if it began
late enough to find the next scan due before it must end. While a call writes, no other is fresh (`NoneFresh`), since the writer
has just moved the deadline and no call is slower than half the retry time; so at most one call writes (`OneWriter`), and what a
fresh call found when it searched the slots is still so when it writes. `ScansKeepDistance`, `SlotsWhole`, `KeysOnce` and
`ReturnedFontsUsable` follow. The tick count may wrap, and a deadline may be read again after it came back to
the same number: the compare-exchange then succeeds, and rightly so (`ScanDecides`).

**`AudioUpdateProofs`**: `AudioNotStarved`, `AudioPaced`, `AudioVoicesOnlyReduced`, `AudioModesLast`. The deadline is always a positive multiple of
the interval behind the start of the schedule, and the last pass lies in the interval before it (`ScheduleInv`); the
window is of the frame before, of its device and capacity, and began no earlier than the frames became alike (`WindowInv`), whatever made it restart.

**`VideoSlidersProofs`**: `g_ui` outlives the scene it describes, so the proof is about when its flag may be believed. `BoundInv`: a slider the player
can move is in the scene that `g_ui` describes, together with the other. `ReadyInv`: in a scene that can be used, `ready` is true
of its sliders, also when the scene is at an address used before. A scene that is being built is not the described one (`SceneInv`), by the assumption
in `SceneBuilt`, and is described or declared failed by the first hook that runs in it. `FrameInv` and `SavedInv` carry what the
labels said through the retail handler and over restarts. `LabelsTellValues`, `NoDeadWidgetTouched` and `ConfirmedStays` follow.

**`HudProofs`** proves the four parts of the run `hud` together (`HudInvariant`); its specification chooses one part and runs it.

- `SettingsCaughtUp`. The file may be written while its keys are read, so what a load has read need not be any one file's.
  `LoadedInv` says only that while the file still has the stamp the load began with, every key that is not left to read is as in the
  file. `PolledInv` keeps the time since the last poll as a difference of ticks, with or without one wrap: the interval and the largest gap
  between two frames are together shorter than the count's range (`SettingsAssumption`; one second against 49 days).
- `CanvasReturned`: the canvas is the retail one after every hook, a label's cursor and the line height after the plates excepted, for which it says what is left. A hook scales about a point by moving the pen, drawing, and moving back to where the retail routine would have left it,
  which is a matter of which value goes where and not of arithmetic: one lemma per step of a hook (`PenMoved`, `PenAdvanced`, `CursorRestored`),
  then each hook, then a damage text with its sites. A plate's call restores what it saved whatever the entries drew,
  and the line height only grows, to the tallest of what was drawn.
- `PlatesAreWhole`: a bar's height is bounded after it was scaled, so with its backing it stays within `FillRect`'s budget of rows (`RectDrawn`, `BarDrawn`),
  and clipping leaves rectangles on the canvas; four numbers of at most ten digits fit the buffer of the stat line (`DigitsCounted`, `StatsFit`).
- `F2RowsKept`: each length is rounded down by itself, and rounding can move neighbours against each other by a unit. Two facts suffice: rounded parts never add up to more than the
  rounded sum, and a pixel is still four eighths at the smallest scale of one half (`ScaledSum`), so the two pixels between
  retail rows outlast the rounding (`RowBelow`). The invariant `RunningF2` says where the next row will be and that each
  row ends above the place of its successor. `F2FontAssumption` says of the engine's font that its rows have one height, and that a text with a
  width has a pixel at least, and more than none after scaling in the sharper font; the code draws a row whose scaled width is zero as retail does.
- `HudStaysInPlace`, all of `HudInPlace`: the two above and the combat texts. A damage number is laid out by retail in one font, drawn by the hook in another, with an offset and shadows
  that are scaled by themselves; the sum of what the roundings can lose is bounded for every length, scale, viewport and place. `DrawnInv` says
  of each text drawn so far that it is where it should be, at the scale of the call it was drawn in. Assumed are only types: sizes of texts are not negative
  (`SizesAssumption`) and places are integers (`CombatAssumption`).

**`AlgorithmsProofs`**, the region search: `RegionsFound`. Free regions begin at whole regions, so `Done` can say of each
that it was refused, lies beside the system's, or is out of bounds; what the search has passed is done (`DownInv`, `TurnInv`, `UpInv`), whether it stepped over a
refused region, a range in use or the system's region (`MovesDown`, `MovesUp`). `BoundsReach` and `StartWithin` are the arithmetic of
the bounds: below and above two gigabytes, with and without a jump, upwards and downwards. The proof corrected the property: hooked code whose jump goes just as
far as the bounds may begin in a region that is not whole within them; the search up takes that region, and the sanity check refuses it. `RegionAssumption` says that
code does not lie within half a megabyte of either end of the address space.

**`AlgorithmsProofs`**, the trampoline: `TrampolineHolds`. `DetourAttachEx` checks the bytes it *took* from the function, and only after they were
copied, while the copies grow: a jump of two bytes becomes one of five or six. So that nothing is written outside
the 30 bytes of the trampoline is a fact about all opcode tables. It is proved handler by handler, each entry of both tables followed into the handler that copies it: an instruction yields at most three
bytes for each byte taken, and no more than 13 (`InstructionCopy`). The loop goes on only while at most four bytes are taken, so at most 12 are written when
the last instruction is copied; its 13 and the jump of five fill the trampoline to its last byte (`TrampolineInv`). The theorem assumes `OrdinaryCode`: the function is made of instructions of
at most 13 bytes with at most two prefixes, and of no `LOOP` or `JECXZ`. The code checks neither; longer instructions exist, but a compiler has no reason to begin a function
with one. `LOOP` and `JECXZ` are the finding below, and the functions of `relocate_loop` do not satisfy the assumption.

**`AlgorithmsProofs`**, small patches: `SmallPatchesAreRight` says that any interleaving of the four keeps what each promises, as they share no state.
`AimFollowsController` (the wrapped sum differs from the sum by whole turns, `SumWraps`), `OthersNotOverruled` and `WindowSizeIsOwn` are
invariants of one patch's own specification, and inductive with the types of its variables; that the scope hides a mesh is a fact of the moment, so the former
starts over with each change of scope or hand. `MorphsCompacted` needs a loop invariant: what was read so far
and contributes lies in front, in order, and what is still to be read is as it was sent, since the loop never writes ahead of where it reads.

**`AlgorithmsProofs`**, the release script: it never holds its release by a name of its own; each `gh` call finds one by its tag. `CheckedInv` says that
gh's answer stays the release that was checked until it is published, because nothing else changes GitHub's releases while a run goes on.
`PublishedWasVerified` follows; it leans on drafts being made with the run's own file (`OneDraftPerRun`).

Model-checked only:

- `NoticeReachesUser`: liveness, and with it fairness, is outside the prover's reach, as is ENABLED.
- `MovedCodeEquivalent`: it compares, byte by byte, two tables of opcodes, of which TLC goes through every entry.
- That a ring's writer is not overtaken by a whole ring of lines (`NotOvertaken`), and that no call of the font cache takes half the retry time,
  are assumptions of the models and not results.

## Disagreements between code and comments

`DllMain.cpp` says above the transaction: "Attach all hooks atomically. A single attach failure aborts the
transaction so the process never runs with an unintended partial patch set." `hook_install` confirms the
second half: the worker ends with all hooks or none. `hook_partial_set` refutes the first: only the worker
is enlisted with `DetourUpdateThread`, and Detours skips the calling thread, so no game thread
is suspended while the commit writes one jump after another. A game thread can be inside one hook's body
while the others are missing, and can re-enter a body whose pointer is not written yet.
The state is short-lived, and by `BodiesRunPrepared` what the bodies need is already there.

`disasm.cpp` says of copied instructions that "DetourCopyInstruction insures that any targets remain constant".
`relocate_loop` refutes it for `LOOP`, `LOOPE`, `LOOPNE` and `JECXZ`, which have no long form: the new offset is cut to a byte and the
copy is reported with a negative growth, by which `DetourAttachEx` moves its place in the trampoline
back, so that the next instruction overwrites the jump; the attach succeeds. No function that the patch hooks
is known to begin so.

## What is not modelled, and the plan

Not modelled, with the reason:

- The executable guard's PE parsing and hash, the path and text handling of `EngineConfig`, `Install` of the crash handler and the
  text of its report, the table of enabled log channels: pure computation, or state that is fixed before another thread exists. Their verdicts are inputs of the
  models.
- Font metrics, the projection of players, and the geometry of the video page: the engine's floating-point data, of which
  the models keep sizes and positions.
- In Detours: detaching, suspended threads, freeing regions, import and module enumeration, and the other architectures. No hook reaches them.
- Proxy, layouts, build files and tests: forwarding and declarations.

Known weaknesses of the code, which no property forbids: a mismatch notice is still shown when a matching token came before the chat
manager; a preference applied while the player has no pawn is sent only with the next attachment (both are under `hazards`
with a note); a nested travel while notices are being sent lets the rest of them follow; the three words of the last logged fault and the fields of a
font slot can be read from two writers, which at worst repeats a report or returns another loaded font; a process may end
in the middle of another thread's report; the nameplates never hand back the canvas's line height (`SpectatorNameplateDraw.cpp`, saved at 387, restored
at 559), and a label at its own scale leaves the pen behind its own text (`CombatTextScalePatch.cpp:527`), both of which `CanvasHandedBack` states as they are; and a failed set-up of a slider is not retried in the same scene.

Next: an abstract specification for the log directory (a register of paths), refined by `LogDirectory`, as the crash handler has.
