----------------------------- MODULE DetourAttach -----------------------------
(***************************************************************************)
(* DetourAttachEx moving the first instructions of a hooked function into  *)
(* a trampoline (detours/detours.cpp, DETOURS_X86): instructions are       *)
(* copied until a jump fits over what they left, and the trampoline ends   *)
(* with a jump to the rest of the function.                                *)
(*                                                                         *)
(* Addresses count from pbTarget, the function's first byte.               *)
(***************************************************************************)
EXTENDS Integers, Sequences, SequencesExt, X86Copy, X86Reference

CONSTANTS
  Functions,  \* the functions hooked: their first bytes
  Distances   \* how far a trampoline can lie from its function

SIZE_OF_JMP == 5
CodeSize == 30     \* sizeof(_DETOUR_TRAMPOLINE::rbCode)
AlignEntries == 8  \* ARRAYSIZE(rAlign)

\* The trampoline's memory and some around it, by offset from rbCode.
Memory == -8 .. CodeSize + 8

VARIABLES
  target,    \* the function's first bytes
  distance,  \* rbCode - pbTarget
  step,      \* "copying", "filling" or "attached"
  rbCode,    \* the trampoline's bytes
  cbTarget,  \* bytes of the function taken
  cbCode,    \* offset of the next byte of the trampoline
  rAlign,    \* where each moved instruction ends, in bit fields of 3 and 5
  error      \* what DetourAttach returns

attachVars == <<target, distance, step, rbCode, cbTarget, cbCode, rAlign, error>>

Break == \hCC

-----------------------------------------------------------------------------
(***************************************************************************)
(* What the code at the head of src looks like.                            *)
(***************************************************************************)
StartsWith(src, bytes) == IsPrefix(bytes, src)

\* detour_does_code_end_function; E0 is taken for a jump.
EndsFunction(src) ==
  \/ src[1] \in {\hEB, \hE9, \hE0, \hC2, \hC3, \hCC}
  \/ StartsWith(src, <<\hF3, \hC3>>)
  \/ StartsWith(src, <<\hFF, \h25>>)
  \/ src[1] \in {\h26, \h2E, \h36, \h3E, \h64, \h65} /\ StartsWith(Tail(src), <<\hFF, \h25>>)

\* The NOPs of 1 to 11 bytes.
Nops ==
  LET zeros(n) == [i \in 1 .. n |-> 0]
  IN  <<<<\h90>>, <<\h66, \h90>>, <<\h0F, \h1F, 0>>, <<\h0F, \h1F, \h40, 0>>,
        <<\h0F, \h1F, \h44, 0, 0>>, <<\h66, \h0F, \h1F, \h44, 0, 0>>,
        <<\h0F, \h1F, \h80>> \o zeros(4), <<\h0F, \h1F, \h84>> \o zeros(5),
        <<\h66, \h0F, \h1F, \h84>> \o zeros(5), <<\h66, \h66, \h0F, \h1F, \h84>> \o zeros(5),
        <<\h66, \h66, \h66, \h0F, \h1F, \h84>> \o zeros(5)>>

\* detour_is_code_filler: the length of the padding, or 0.
CodeFiller(src) ==
  LET nops == {n \in DOMAIN Nops : StartsWith(src, Nops[n])}
  IN  IF nops # {} THEN CHOOSE n \in nops : TRUE ELSE IF src[1] = Break THEN 1 ELSE 0

\* detour_gen_jmp_immediate: a jump written at the address "from".
Jump(from, to) == <<\hE9>> \o OffsetBytes(to - (from + SIZE_OF_JMP), 4)

Write(code, offset, bytes) ==
  [i \in DOMAIN code |->
     IF i - offset + 1 \in DOMAIN bytes THEN bytes[i - offset + 1] ELSE code[i]]

Rest == SubSeq(target, cbTarget + 1, Len(target))

-----------------------------------------------------------------------------
\* detour_alloc_trampoline fills the trampoline with breakpoints.
AttachInit ==
  /\ target \in Functions /\ distance \in Distances
  /\ step = "copying" /\ error = "none"
  /\ rbCode = [i \in Memory |-> Break]
  /\ cbTarget = 0 /\ cbCode = 0 /\ rAlign = <<>>

CopyNext ==
  /\ step = "copying"
  /\ LET copy == CopyInstruction(Rest, cbTarget, distance + cbCode - cbTarget)
     IN  /\ rbCode' = Write(rbCode, cbCode, copy.out)
         /\ cbTarget' = cbTarget + copy.used
         /\ cbCode' = cbCode + copy.used + copy.extra
  /\ rAlign' = Append(rAlign, [obTarget |-> cbTarget' % 8, obTrampoline |-> cbCode' % 32])
  /\ step' = IF cbTarget' >= SIZE_OF_JMP \/ Len(rAlign') >= AlignEntries \/ EndsFunction(Rest)
               THEN "filling" ELSE "copying"
  /\ UNCHANGED <<target, distance, error>>

\* Padding behind the function's end is taken and not copied.
ConsumeFiller ==
  /\ step = "filling" /\ cbTarget < SIZE_OF_JMP /\ CodeFiller(Rest) > 0
  /\ cbTarget' = cbTarget + CodeFiller(Rest)
  /\ UNCHANGED <<target, distance, step, rbCode, cbCode, rAlign, error>>

TooFewInstructions ==
  /\ step = "filling" /\ cbTarget < SIZE_OF_JMP /\ CodeFiller(Rest) = 0
  /\ step' = "attached" /\ error' = "ERROR_INVALID_BLOCK"
  /\ UNCHANGED <<target, distance, rbCode, cbTarget, cbCode, rAlign>>

\* The limit is on the bytes taken, not on the bytes they became.
FinishTrampoline ==
  /\ step = "filling" /\ cbTarget >= SIZE_OF_JMP
  /\ step' = "attached"
  /\ IF cbTarget > CodeSize - SIZE_OF_JMP
       THEN error' = "ERROR_INVALID_HANDLE" /\ UNCHANGED rbCode
       ELSE /\ error' = "NO_ERROR"
            /\ rbCode' = [i \in Memory |->
                 IF i \in cbCode + SIZE_OF_JMP .. CodeSize - 1 THEN Break
                 ELSE Write(rbCode, cbCode, Jump(distance + cbCode, cbTarget))[i]]
  /\ UNCHANGED <<target, distance, cbTarget, cbCode, rAlign>>

AttachNext == CopyNext \/ ConsumeFiller \/ TooFewInstructions \/ FinishTrampoline

AttachSpec == AttachInit /\ [][AttachNext]_attachVars

-----------------------------------------------------------------------------
(***************************************************************************)
(* Properties.                                                             *)
(***************************************************************************)
RestoreSize == 22  \* sizeof(_DETOUR_TRAMPOLINE::rbRestore)

CodeAt(offset) == [i \in 1 .. CodeSize + 8 - offset |-> rbCode[offset + i - 1]]

FromTarget(k) == IF k = 1 THEN 0 ELSE rAlign[k - 1].obTarget
FromTrampoline(k) == IF k = 1 THEN 0 ELSE rAlign[k - 1].obTrampoline

\* Calling the trampoline is calling the function: the moved instructions
\* follow each other without gap or overlap, each does what the one it was
\* copied from does, branches to the same address included, and the jump
\* behind them leads to the first instruction that was not moved.
MovedCodeEquivalent ==
  error = "NO_ERROR" =>
    /\ \A k \in 1 .. Len(rAlign) :
         LET src == SubSeq(target, FromTarget(k) + 1, Len(target))
             copy == CodeAt(FromTrampoline(k))
         IN  /\ Effect(copy, distance + FromTrampoline(k)) = Effect(src, FromTarget(k))
             /\ rAlign[k].obTrampoline = FromTrampoline(k) + InstructionLength(copy)
             /\ k < Len(rAlign) =>
                  rAlign[k].obTarget = FromTarget(k) + InstructionLength(src)
    /\ Effect(CodeAt(cbCode), distance + cbCode) =
         [does |-> <<"jmp">>, prefixes |-> <<>>, to |-> cbTarget]

\* Nothing is written outside rbCode, and what is taken fits rbRestore: the
\* code checks the bytes taken after it copied them, against the size of
\* rbCode and not of rbRestore, and never the bytes written.
TrampolineHoldsAll ==
  /\ \A i \in Memory : i \notin 0 .. CodeSize - 1 => rbCode[i] = Break
  /\ cbTarget <= RestoreSize

\* What code has to be for the trampoline to hold it: instructions of at
\* most 13 bytes, two of them prefixes, and none of LOOP and JECXZ.  An
\* instruction starts where the one before it ends, and none is moved from
\* behind a function's end.
InstructionsAt(function, starts) ==
  /\ 0 \in starts
  /\ \A n \in starts :
       LET src == SubSeq(function, n + 1, Len(function))
           length == CopyInstruction(src, 0, 0).used
       IN  /\ length <= 13
           /\ PrefixCount(src) \in 0 .. 2 /\ src[PrefixCount(src) + 1] \notin \hE0 .. \hE3
           /\ n + length < SIZE_OF_JMP => EndsFunction(src) \/ n + length \in starts

OrdinaryCode ==
  /\ Distances \subseteq Int
  /\ \A function \in Functions :
       /\ function \in Seq(0 .. 255) /\ Len(function) >= SIZE_OF_JMP + 12
       /\ \E starts \in SUBSET (0 .. SIZE_OF_JMP - 1) : InstructionsAt(function, starts)
=============================================================================
