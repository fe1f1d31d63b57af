------------------------------- MODULE X86Copy -------------------------------
(***************************************************************************)
(* Copying one 32-bit instruction (detours/disasm.cpp, class CDetourDis,   *)
(* as DETOURS_X86 builds it).  DetourAttach calls it for every instruction *)
(* it moves from a hooked function into a trampoline.                      *)
(*                                                                         *)
(* Code is a sequence of bytes; an instruction stands at its head.  The    *)
(* result of a copy: the bytes written, the bytes of the source used, how  *)
(* much longer the copy is, and the targets it can report.                 *)
(***************************************************************************)
EXTENDS Integers, Sequences

-----------------------------------------------------------------------------
(***************************************************************************)
(* COPYENTRY.                                                              *)
(***************************************************************************)
CopyBytesEntry(size, size16, mod, rel, flags) ==
  [by |-> "CopyBytes", size |-> size, size16 |-> size16, mod |-> mod, rel |-> rel, flags |-> flags]

By(handler) == [by |-> handler]

CopyBytes1 == CopyBytesEntry(1, 1, 0, 0, {})
CopyBytes1Address == CopyBytesEntry(5, 3, 0, 0, {"ADDRESS"})
CopyBytes1Dynamic == CopyBytesEntry(1, 1, 0, 0, {"DYNAMIC"})
CopyBytes2 == CopyBytesEntry(2, 2, 0, 0, {})
CopyBytes2Jump == By("CopyBytesJump")
CopyBytes2CantJump == CopyBytesEntry(2, 2, 0, 1, {"NOENLARGE"})
CopyBytes2Dynamic == CopyBytesEntry(2, 2, 0, 0, {"DYNAMIC"})
CopyBytes3 == CopyBytesEntry(3, 3, 0, 0, {})
CopyBytes3Dynamic == CopyBytesEntry(3, 3, 0, 0, {"DYNAMIC"})
CopyBytes3Or5 == CopyBytesEntry(5, 3, 0, 0, {})
CopyBytes3Or5Dynamic == CopyBytesEntry(5, 3, 0, 0, {"DYNAMIC"})
CopyBytes3Or5Target == CopyBytesEntry(5, 3, 0, 1, {})
CopyBytes4 == CopyBytesEntry(4, 4, 0, 0, {})
CopyBytes5Or7Dynamic == CopyBytesEntry(7, 5, 0, 0, {"DYNAMIC"})
CopyBytes2Mod == CopyBytesEntry(2, 2, 1, 0, {})
CopyBytes2ModDynamic == CopyBytesEntry(2, 2, 1, 0, {"DYNAMIC"})
CopyBytes2Mod1 == CopyBytesEntry(3, 3, 1, 0, {})
CopyBytes2ModOperand == CopyBytesEntry(6, 4, 1, 0, {})
CopyBytes3Mod == CopyBytesEntry(3, 3, 2, 0, {})
CopyBytes3Mod1 == CopyBytesEntry(4, 4, 2, 0, {})
CopyBytesXop == CopyBytesEntry(5, 5, 4, 0, {})
CopyBytesXop1 == CopyBytesEntry(6, 6, 4, 0, {})
CopyBytesXop4 == CopyBytesEntry(9, 9, 4, 0, {})

\* s_rceCopyTable: the opcodes of one byte.
Arithmetic == [b \in \h00 .. \h3F |->
  CASE b = \h0F -> By("Copy0F")
    [] b \in {\h26, \h2E, \h36, \h3E} -> By("CopyBytesSegment")
    [] b % 8 \in 0 .. 3 -> CopyBytes2Mod
    [] b % 8 = 4 -> CopyBytes2
    [] b % 8 = 5 -> CopyBytes3Or5
    [] OTHER -> CopyBytes1]

StackAndMoves == [b \in \h40 .. \hBF |->
  CASE b = \h62 -> By("CopyEvex")
    [] b \in {\h64, \h65} -> By("CopyBytesSegment")
    [] b = \h66 -> By("Copy66")
    [] b = \h67 -> By("Copy67")
    [] b \in {\h68, \hA9} -> CopyBytes3Or5
    [] b \in {\h69, \h81} -> CopyBytes2ModOperand
    [] b \in {\h6A, \hA8} \cup \hB0 .. \hB7 -> CopyBytes2
    [] b \in {\h6B, \h80, \h82, \h83} -> CopyBytes2Mod1
    [] b \in \h70 .. \h7F -> CopyBytes2Jump
    [] b \in {\h63} \cup \h84 .. \h8E -> CopyBytes2Mod
    [] b = \h8F -> By("CopyXop")
    [] b = \h9A -> CopyBytes5Or7Dynamic
    [] b \in \hA0 .. \hA3 -> CopyBytes1Address
    [] b \in \hB8 .. \hBF -> CopyBytes3Or5
    [] OTHER -> CopyBytes1]

Control == [b \in \hC0 .. \hFF |->
  CASE b \in {\hC0, \hC1, \hC6} -> CopyBytes2Mod1
    [] b = \hC2 -> CopyBytes3
    [] b = \hC4 -> By("CopyVex3")
    [] b = \hC5 -> By("CopyVex2")
    [] b = \hC7 -> CopyBytes2ModOperand
    [] b = \hC8 -> CopyBytes4
    [] b = \hCA -> CopyBytes3Dynamic
    [] b \in {\hCB, \hCC, \hCE, \hCF, \hF1} -> CopyBytes1Dynamic
    [] b = \hCD -> CopyBytes2Dynamic
    [] b \in \hD0 .. \hD3 \cup \hD8 .. \hDF \cup {\hFE} -> CopyBytes2Mod
    [] b \in {\hD4, \hD5} \cup \hE4 .. \hE7 -> CopyBytes2
    [] b = \hD6 -> By("Invalid")
    [] b \in \hE0 .. \hE3 -> CopyBytes2CantJump
    [] b \in {\hE8, \hE9} -> CopyBytes3Or5Target
    [] b = \hEA -> CopyBytes5Or7Dynamic
    [] b = \hEB -> CopyBytes2Jump
    [] b = \hF0 -> By("CopyBytesPrefix")
    [] b = \hF2 -> By("CopyF2")
    [] b = \hF3 -> By("CopyF3")
    [] b = \hF6 -> By("CopyF6")
    [] b = \hF7 -> By("CopyF7")
    [] b = \hFF -> By("CopyFF")
    [] OTHER -> CopyBytes1]

OneByte == [b \in 0 .. 255 |->
  IF b < \h40 THEN Arithmetic[b] ELSE IF b < \hC0 THEN StackAndMoves[b] ELSE Control[b]]

\* s_rceCopyTable0F: the opcodes after 0F.
SystemAndMoves == [b \in \h00 .. \h7F |->
  CASE b = \h00 -> By("Copy0F00")
    [] b \in {\h04, \h0A, \h0C, \h25, \h27, \h36, \h39, \h7A, \h7B} \cup \h3B .. \h3F ->
         By("Invalid")
    [] b \in {\h0B, \h0E, \h37, \h77} \cup \h05 .. \h09 \cup \h30 .. \h35 -> CopyBytes1
    [] b \in {\h0F} \cup \h70 .. \h73 -> CopyBytes2Mod1
    [] b = \h38 -> CopyBytes3Mod
    [] b = \h3A -> CopyBytes3Mod1
    [] b = \h78 -> By("Copy0F78")
    [] OTHER -> CopyBytes2Mod]

JumpsAndVectors == [b \in \h80 .. \hFF |->
  CASE b \in \h80 .. \h8F -> CopyBytes3Or5Target
    [] b \in \hA0 .. \hA2 \cup \hA8 .. \hAA \cup \hC8 .. \hCF -> CopyBytes1
    [] b \in {\hA4, \hAC, \hBA, \hC2} \cup \hC4 .. \hC6 -> CopyBytes2Mod1
    [] b = \hB8 -> By("Copy0FB8")
    [] b \in {\hB9, \hFF} -> By("Invalid")
    [] OTHER -> CopyBytes2Mod]

After0F == [b \in 0 .. 255 |-> IF b < \h80 THEN SystemAndMoves[b] ELSE JumpsAndVectors[b]]

\* Deliberate fault, used by nothing else: a SIB byte without a base is
\* taken for an ordinary one.
ModRmBytesAnyBase(src, i) ==
  LET mod == src[i] \div 64
      rm == src[i] % 8
  IN  CASE mod = 0 -> IF rm = 4 THEN 1 ELSE IF rm = 5 THEN 4 ELSE 0
        [] mod = 1 -> IF rm = 4 THEN 2 ELSE 1
        [] mod = 2 -> IF rm = 4 THEN 5 ELSE 4
        [] OTHER -> 0

\* The bytes s_rbModRm and the SIB rule add for the operand at src[i]: only
\* a SIB byte without a base after mod 00 brings a displacement of its own.
ModRmBytes(src, i) ==
  LET mod == src[i] \div 64
      rm == src[i] % 8
  IN  CASE mod = 0 /\ rm = 4 -> IF src[i + 1] % 8 = 5 THEN 5 ELSE 1
        [] mod = 0 /\ rm = 5 -> 4
        [] mod = 1 -> IF rm = 4 THEN 2 ELSE 1
        [] mod = 2 -> IF rm = 4 THEN 5 ELSE 4
        [] OTHER -> 0

-----------------------------------------------------------------------------
(***************************************************************************)
(* Relative offsets: little-endian, two's complement, of 1, 2 or 4 bytes.  *)
(***************************************************************************)
SignedByte(b) == IF b < 128 THEN b ELSE b - 256

Offset(bytes) ==
  CASE Len(bytes) = 1 -> SignedByte(bytes[1])
    [] Len(bytes) = 2 -> bytes[1] + 256 * SignedByte(bytes[2])
    [] OTHER -> bytes[1] + 256 * bytes[2] + 65536 * bytes[3] + 16777216 * SignedByte(bytes[4])

OffsetBytes(n, size) ==
  SubSeq(<<n % 256, (n \div 256) % 256, (n \div 65536) % 256, (n \div 16777216) % 256>>, 1, size)

OffsetFits(n, size) ==
  CASE size = 1 -> n \in -128 .. 127
    [] size = 2 -> n \in -32768 .. 32767
    [] OTHER -> TRUE

NoTarget == [kind |-> "none", at |-> 0]
Dynamic == [kind |-> "dynamic", at |-> 0]
Pointee == [kind |-> "pointee", at |-> 0]  \* what the memory operand holds
At(address) == [kind |-> "code", at |-> address]

\* The decoder's members; "at" is the address of the next source byte and
\* "shift" pbDst - pbSrc, which stays the same behind prefixes.
Decoder(at, shift) ==
  [out |-> <<>>, at |-> at, shift |-> shift, operand |-> FALSE, address |-> FALSE,
   F2 |-> FALSE, F3 |-> FALSE, segment |-> {}]

Copied(d, bytes, used, extra, targets) ==
  [out |-> d.out \o bytes, used |-> Len(d.out) + used, extra |-> extra, targets |-> targets]

\* Copying the first n bytes as a prefix of what follows.
Past(d, src, n) == [d EXCEPT !.out = @ \o SubSeq(src, 1, n), !.at = @ + n]

After(src, n) == SubSeq(src, n + 1, Len(src))

-----------------------------------------------------------------------------
(***************************************************************************)
(* The handlers that do not go on to another.                              *)
(***************************************************************************)
CopyBytes(e, src, d) ==
  LET fixed == IF IF "ADDRESS" \in e.flags THEN d.address ELSE d.operand
                 THEN e.size16 ELSE e.size
      n == fixed + IF e.mod = 0 THEN 0 ELSE ModRmBytes(src, e.mod + 1)
      size == n - e.rel
      old == Offset(SubSeq(src, e.rel + 1, n))
      new == old - d.shift
      extra == IF OffsetFits(new, size) THEN 0 ELSE 4 - size
  IN  IF e.rel = 0
        THEN Copied(d, SubSeq(src, 1, n), n, 0,
                    {IF "DYNAMIC" \in e.flags THEN Dynamic ELSE NoTarget})
        ELSE Copied(d, SubSeq(src, 1, e.rel) \o OffsetBytes(new, size), n,
                    IF "NOENLARGE" \in e.flags THEN -extra ELSE extra, {At(d.at + n + old)})

\* Deliberate fault, used by nothing else: a short conditional jump becomes
\* its opposite over a long jump.
JumpAroundJump(src, d) ==
  LET old == SignedByte(src[2])
      target == {At(d.at + 2 + old)}
  IN  IF src[1] = \hEB
        THEN Copied(d, <<\hE9>> \o OffsetBytes(old - (d.shift + 3), 4), 2, 3, target)
        ELSE Copied(d, <<src[1] + 1 - 2 * (src[1] % 2), 5, \hE9>> \o
                         OffsetBytes(old - (d.shift + 5), 4), 2, 5, target)

\* A short jump is copied as its form with a 32-bit offset.
CopyBytesJump(src, d) ==
  LET old == SignedByte(src[2])
      target == {At(d.at + 2 + old)}
  IN  IF src[1] = \hEB
        THEN Copied(d, <<\hE9>> \o OffsetBytes(old - (d.shift + 3), 4), 2, 3, target)
        ELSE Copied(d, <<\h0F, \h80 + (src[1] % 16)>> \o OffsetBytes(old - (d.shift + 4), 4),
                    2, 4, target)

\* The byte of an unknown instruction is passed over and not copied.
Invalid(d) == Copied(d, <<>>, 1, 0, {NoTarget})

\* m_nSegmentOverride has no initial value: without a prefix, whether the
\* operand's memory is followed is up to what the stack held.
CopyFF(src, d) ==
  LET targets == CASE src[2] \in {\h15, \h25} ->
                        IF d.segment = {} THEN {Pointee, Dynamic}
                        ELSE IF d.segment = {\h2E} THEN {Pointee} ELSE {Dynamic}
                   [] (src[2] \div 16) % 4 \in {1, 2} -> {Dynamic}
                   [] OTHER -> {NoTarget}
  IN  [CopyBytes(CopyBytes2Mod, src, d) EXCEPT !.targets = targets]

ModReg(b) == (b \div 8) % 8

CopyXop(src, d) ==
  CopyBytes(CASE src[2] % 32 = 8 -> CopyBytesXop1
              [] src[2] % 32 = 9 -> CopyBytesXop
              [] src[2] % 32 = 10 -> CopyBytesXop4
              [] OTHER -> CopyBytes2Mod, src, d)

-----------------------------------------------------------------------------
(***************************************************************************)
(* The handler of a table entry.  A prefix's handler goes on to that of    *)
(* the byte behind it, so that the handlers that do are a loop over the    *)
(* prefixes; behind 0F, VEX and EVEX comes a handler that copies.          *)
(***************************************************************************)
LeadsOn(b) ==
  OneByte[b].by \in {"CopyBytesPrefix", "CopyBytesSegment", "Copy66", "Copy67", "CopyF2", "CopyF3"}

PrefixCount(src) ==
  CHOOSE n \in 0 .. Len(src) - 1 : ~LeadsOn(src[n + 1]) /\ \A i \in 1 .. n : LeadsOn(src[i])

\* The decoder when its n prefixes are copied; of several segments the last counts.
CopyPrefixes(n, src, at, shift) ==
  LET seen == {src[i] : i \in 1 .. n}
      segments == {i \in 1 .. n : OneByte[src[i]].by = "CopyBytesSegment"}
  IN  [Past(Decoder(at, shift), src, n) EXCEPT
         !.operand = \h66 \in seen, !.address = \h67 \in seen,
         !.F2 = \hF2 \in seen, !.F3 = \hF3 \in seen,
         !.segment = {src[i] : i \in {j \in segments : \A k \in segments : k <= j}}]

HandleLast(e, src, d) ==
  CASE e.by = "CopyBytes" -> CopyBytes(e, src, d)
    [] e.by = "CopyBytesJump" -> CopyBytesJump(src, d)
    [] e.by = "Copy0F00" ->
         CopyBytes(IF ModReg(src[2]) = 6 THEN CopyBytes2ModDynamic ELSE CopyBytes2Mod, src, d)
    [] e.by = "Copy0F78" ->
         CopyBytes(IF d.F2 \/ d.operand THEN CopyBytes4 ELSE CopyBytes2Mod, src, d)
    [] e.by = "Copy0FB8" ->
         CopyBytes(IF d.F3 THEN CopyBytes2Mod ELSE CopyBytes3Or5Dynamic, src, d)
    [] e.by = "CopyF6" ->
         CopyBytes(IF ModReg(src[2]) = 0 THEN CopyBytes2Mod1 ELSE CopyBytes2Mod, src, d)
    [] e.by = "CopyF7" ->
         CopyBytes(IF ModReg(src[2]) = 0 THEN CopyBytes2ModOperand ELSE CopyBytes2Mod, src, d)
    [] e.by = "CopyFF" -> CopyFF(src, d)
    [] e.by = "CopyXop" -> CopyXop(src, d)
    [] OTHER -> Invalid(d)

Copy0F(src, d) == HandleLast(After0F[src[2]], After(src, 1), Past(d, src, 1))

\* src starts at the opcode; p is the operand prefix the payload implies.
CopyVexEvexCommon(map, p, src, d) ==
  LET implied == [d EXCEPT !.operand = @ \/ p = 1, !.F3 = @ \/ p = 2, !.F2 = @ \/ p = 3]
  IN  CASE map = 1 -> HandleLast(After0F[src[1]], src, implied)
        [] map \in {2, 5, 6} -> CopyBytes(CopyBytes2Mod, src, implied)
        [] map = 3 -> CopyBytes(CopyBytes2Mod1, src, implied)
        [] OTHER -> Invalid(implied)

\* LES, LDS and BOUND take a memory operand; a register one marks a prefix.
CopyVex3(src, d) ==
  IF src[2] < \hC0 THEN CopyBytes(CopyBytes2Mod, src, d)
  ELSE CopyVexEvexCommon(src[2] % 32, src[3] % 4, After(src, 3), Past(d, src, 3))

CopyVex2(src, d) ==
  IF src[2] < \hC0 THEN CopyBytes(CopyBytes2Mod, src, d)
  ELSE CopyVexEvexCommon(1, src[2] % 4, After(src, 2), Past(d, src, 2))

CopyEvex(src, d) ==
  IF src[2] < \hC0 THEN CopyBytes(CopyBytes2Mod, src, d)
  ELSE IF (src[2] \div 8) % 2 = 1 \/ (src[3] \div 4) % 2 = 0 THEN Invalid(d)
  ELSE CopyVexEvexCommon(src[2] % 8, src[3] % 4, After(src, 4), Past(d, src, 4))

Handle(e, src, d) ==
  CASE e.by = "Copy0F" -> Copy0F(src, d)
    [] e.by = "CopyVex2" -> CopyVex2(src, d)
    [] e.by = "CopyVex3" -> CopyVex3(src, d)
    [] e.by = "CopyEvex" -> CopyEvex(src, d)
    [] OTHER -> HandleLast(e, src, d)

\* DetourCopyInstruction: the instruction at the head of src, which lies at
\* the address "at", is copied to at + shift.
CopyInstruction(src, at, shift) ==
  LET n == PrefixCount(src)
  IN  Handle(OneByte[src[n + 1]], After(src, n), CopyPrefixes(n, src, at, shift))
=============================================================================
