--------------------------- MODULE TrampolineRegion ---------------------------
(***************************************************************************)
(* Where Detours puts trampolines (detours.cpp): the code a hook's address *)
(* leads to, how far a trampoline may lie from it, and the search of the   *)
(* address space for a free region, first downwards and then upwards.      *)
(*                                                                         *)
(* The 32-bit address space is scaled down, keeping the order and the      *)
(* alignment of its bounds: a region of 64 KB is RegionSize units.         *)
(***************************************************************************)
EXTENDS Integers, FiniteSets

CONSTANTS
  Code,     \* addresses of code
  Layouts,  \* sets of free regions, given by their first addresses
  Half      \* 0x80000000 in units

RegionSize == 2
Margin == 4                   \* 0x00080000
Reach == Half - Margin        \* 0x7ff80000
SystemLower == Half - 8       \* 0x70000000
SystemUpper == Half           \* 0x80000000
SystemStep == 4               \* 0x08000000
Top == 2 * Half

\* Code lies within the margins, and the system hands out whole regions.
ASSUME RegionAssumption ==
  /\ Half \in Nat /\ Half % RegionSize = 0 /\ Half > Margin + RegionSize
  /\ Code \subseteq Margin + RegionSize .. Top - Margin
  /\ \A layout \in Layouts : layout \subseteq {at \in 0 .. Top : at % RegionSize = 0}

Kinds == {"plain", "short", "long", "import", "hpat"}

VARIABLES
  code,    \* [address -> [kind, to]]: the code that is looked at
  asked,   \* the address the hook names
  free,    \* the free regions of the address space
  search   \* the search: step, place tried, bounds, result

regionVars == <<code, asked, free, search>>

-----------------------------------------------------------------------------
(***************************************************************************)
(* Following jumps.                                                        *)
(***************************************************************************)
Through(kind, at) == IF code[at].kind = kind THEN code[at].to ELSE at

\* A long jump into a page of jumps that the system patched is not followed.
AfterLong(short) ==
  IF code[code[short].to].kind = "hpat" THEN short ELSE code[short].to

SkipJmp(at) ==
  LET first == Through("import", at)
      short == code[first].to
  IN  IF code[first].kind # "short" THEN first
      ELSE IF code[short].kind = "import" THEN code[short].to
      ELSE IF code[short].kind = "long" THEN AfterLong(short)
      ELSE short

-----------------------------------------------------------------------------
(***************************************************************************)
(* Bounds and search.                                                      *)
(***************************************************************************)
TwoGbBelow(at) == IF at > Reach THEN at - Reach ELSE Margin
TwoGbAbove(at) == IF at < Half THEN at + Reach ELSE Top - Margin

\* Deliberate fault, used by no specification: the target of a jump is forgotten.
BoundsOfCodeOnly(at) == [lo |-> TwoGbBelow(at), hi |-> TwoGbAbove(at)]

FindJmpBounds(at) ==
  LET to == code[at].to
  IN  IF code[at].kind # "long" THEN [lo |-> TwoGbBelow(at), hi |-> TwoGbAbove(at)]
      ELSE IF to < at THEN [lo |-> TwoGbBelow(at), hi |-> TwoGbAbove(to)]
      ELSE [lo |-> TwoGbBelow(to), hi |-> TwoGbAbove(at)]

RoundDown(at) == at - (at % RegionSize)
RoundUp(at) == RoundDown(at + RegionSize - 1)

InSystemRegion(at) == at >= SystemLower /\ at <= SystemUpper

\* VirtualQuery knows runs of pages in one state: below and above a place in
\* use, up to the nearest free regions, or one region only where allocations
\* follow each other.
InUse(at) == at \notin free

Begin ==
  /\ search.step = "idle"
  /\ LET target == SkipJmp(asked)
         bounds == FindJmpBounds(target)
     IN  /\ search' = [step |-> "down", target |-> target, lo |-> bounds.lo, hi |-> bounds.hi,
                       try |-> RoundDown(RoundDown(target) - RegionSize), result |-> -1, refused |-> {}]
         /\ code' = [at \in {target} |-> code[target]]
  /\ free' \in Layouts
  /\ UNCHANGED asked

Searching(step) ==
  /\ search.step = step
  /\ step = "down" => search.try > search.lo
  /\ step = "up" => search.try < search.hi

GoTo(try) == search' = [search EXCEPT !.try = try]

SkipSystemRegion ==
  \/ /\ Searching("down") /\ InSystemRegion(search.try)
     /\ GoTo(search.try - SystemStep)
     /\ UNCHANGED <<code, asked, free>>
  \/ /\ Searching("up") /\ InSystemRegion(search.try)
     /\ GoTo(search.try + SystemStep)
     /\ UNCHANGED <<code, asked, free>>

\* Deliberate fault, used by no specification: a refused region ends the search.
GiveUpWhenRefused ==
  /\ search.step \in {"down", "up"} /\ Searching(search.step)
  /\ ~InSystemRegion(search.try) /\ ~InUse(search.try)
  /\ search' = [search EXCEPT !.step = "ended"]
  /\ UNCHANGED <<code, asked, free>>

\* VirtualAlloc refuses a region that somebody else has taken since.
Refused ==
  /\ search.step \in {"down", "up"} /\ Searching(search.step)
  /\ ~InSystemRegion(search.try) /\ ~InUse(search.try)
  /\ search' = [search EXCEPT !.try = IF search.step = "down" THEN @ - RegionSize ELSE @ + RegionSize,
                              !.refused = @ \cup {search.try}]
  /\ UNCHANGED <<code, asked, free>>

\* Dynamic code is blocked: this direction ends, the other one is tried too.
Blocked ==
  /\ search.step \in {"down", "up"} /\ Searching(search.step)
  /\ ~InSystemRegion(search.try) /\ ~InUse(search.try)
  /\ search' = [search EXCEPT !.step = IF @ = "down" THEN "turn" ELSE "ended",
                              !.refused = free]
  /\ UNCHANGED <<code, asked, free>>

Allocated ==
  /\ search.step \in {"down", "up"} /\ Searching(search.step)
  /\ ~InSystemRegion(search.try) /\ ~InUse(search.try)
  /\ search' = [search EXCEPT !.step = "ended", !.result = search.try]
  /\ UNCHANGED <<code, asked, free>>

\* Places that end a range in use: nothing between is free.
PassRange ==
  /\ search.step \in {"down", "up"} /\ Searching(search.step)
  /\ ~InSystemRegion(search.try) /\ InUse(search.try)
  /\ IF search.step = "down"
       THEN \E base \in 0..search.try :
              /\ base \in {0, search.try} \/ base - RegionSize \in free
              /\ \A f \in free : f < base \/ f > search.try
              /\ GoTo(RoundDown(base - RegionSize))
       ELSE \E end \in search.try + 1..Top :
              /\ end \in {search.try + 1, Top} \/ end \in free
              /\ \A f \in free : f < search.try \/ f >= RoundUp(end)
              /\ GoTo(RoundUp(end))
  /\ UNCHANGED <<code, asked, free>>

\* Nothing below: anything above.
TurnUp ==
  /\ search.step = "turn" \/ (search.step = "down" /\ ~Searching("down"))
  /\ search' = [search EXCEPT !.step = "up", !.try = RoundUp(RoundDown(search.target))]
  /\ UNCHANGED <<code, asked, free>>

NothingAbove ==
  /\ search.step = "up" /\ ~Searching("up")
  /\ search' = [search EXCEPT !.step = "ended"]
  /\ UNCHANGED <<code, asked, free>>

RegionInit ==
  /\ code \in [Code -> [kind : Kinds, to : Code]]
  /\ asked \in Code
  /\ free = {} /\ search = [step |-> "idle"]

RegionNext ==
  \/ Begin \/ SkipSystemRegion \/ Refused \/ Blocked \/ Allocated \/ PassRange
  \/ TurnUp \/ NothingAbove

RegionSpec == RegionInit /\ [][RegionNext]_regionVars

-----------------------------------------------------------------------------
Distance(a, b) == IF a < b THEN b - a ELSE a - b

\* Where the processor gets to from an address, within three jumps.
Run(at) ==
  LET next(a) == IF code[a].kind = "plain" THEN a ELSE code[a].to
  IN  {at, next(at), next(next(at)), next(next(next(at)))}

\* The sanity check of detour_alloc_trampoline, on the region found.
Usable == search.result # -1 /\ search.result >= search.lo /\ search.result <= search.hi

Ends == {search.target} \cup
        (IF code[search.target].kind = "long" THEN {code[search.target].to} ELSE {})

\* The step over the system's region also passes free regions next to it.
PassedWithSystem(at) == at >= SystemLower - SystemStep /\ at <= SystemUpper + SystemStep

\* A region that is used was free and every byte of it is within two
\* gigabytes of the hooked code and of the code its jump leads to, so that no
\* jump between them can be out of range.  None is used only if every free
\* region within the bounds, those next to the system's own aside, was refused, or if the
\* jump itself goes so far that the region of the hooked code, at which both
\* searches start, is not within the bounds.  And what is hooked is code that a
\* call of the address asked for comes to.
RegionFound ==
  IF search.step = "idle" THEN SkipJmp(asked) \in Run(asked)
  ELSE
    /\ Usable =>
         /\ search.result \in free /\ ~InSystemRegion(search.result)
         /\ \A e \in Ends : /\ Distance(search.result, e) <= Half
                            /\ Distance(search.result + RegionSize, e) <= Half
    /\ (search.step = "ended" /\ ~Usable /\ \A e \in Ends : Distance(search.target, e) <= Reach - RegionSize) =>
         \A f \in free : (f > search.lo /\ f < search.hi /\ ~PassedWithSystem(f)) => f \in search.refused
=============================================================================
