----------------------------- MODULE X86Reference -----------------------------
(***************************************************************************)
(* What a 32-bit x86 processor makes of the bytes at an address: how long  *)
(* the instruction is and, when it is a relative branch, where it goes.    *)
(* Written from the processor's opcode map (which operands an opcode has), *)
(* not from the tables of disasm.cpp, to compare X86Copy with.             *)
(***************************************************************************)
EXTENDS Integers, Sequences

PrefixBytes ==
  {\h26, \h2E, \h36, \h3E, \h64, \h65, \h66, \h67, \hF0, \hF2, \hF3}

\* How many bytes of prefixes stand at the head.
PrefixLength(src) ==
  LET from[i \in 1 .. Len(src)] ==
        IF src[i] \in PrefixBytes /\ i < Len(src) THEN 1 + from[i + 1] ELSE 0
  IN  from[1]

Has(src, prefix) == \E i \in 1 .. PrefixLength(src) : src[i] = prefix

-----------------------------------------------------------------------------
(***************************************************************************)
(* Operands of the opcodes of one byte.                                    *)
(***************************************************************************)
ModRmOpcodes ==
  {b \in 0 .. \h3F : b % 8 < 4} \cup {\h62, \h63, \h69, \h6B} \cup \h80 .. \h8F
    \cup {\hC0, \hC1, \hC4, \hC5, \hC6, \hC7} \cup \hD0 .. \hD3 \cup \hD8 .. \hDF
    \cup {\hF6, \hF7, \hFE, \hFF}

ByteImmediate ==
  {b \in 0 .. \h3F : b % 8 = 4} \cup {\h6A, \h6B, \h80, \h82, \h83, \hA8, \hC0, \hC1, \hC6}
    \cup {\hCD, \hD4, \hD5} \cup \h70 .. \h7F \cup \hB0 .. \hB7 \cup \hE0 .. \hE7 \cup {\hEB}

WordImmediate == {\hC2, \hCA}

\* An immediate of the operand's size: 4 bytes, or 2 behind 66.
FullImmediate ==
  {b \in 0 .. \h3F : b % 8 = 5} \cup {\h68, \h69, \h81, \hA9, \hC7, \hE8, \hE9} \cup \hB8 .. \hBF

FarPointer == {\h9A, \hEA}
MemoryOffset == \hA0 .. \hA3

\* Operands of the opcodes behind 0F.
NoModRm0F ==
  \h05 .. \h09 \cup {\h0B, \h0E, \h37, \h77} \cup \h30 .. \h35 \cup \h80 .. \h8F
    \cup \hA0 .. \hA2 \cup \hA8 .. \hAA \cup \hC8 .. \hCF

ByteImmediate0F ==
  {\h0F, \hA4, \hAC, \hBA, \hC2, \hC4, \hC5, \hC6} \cup \h70 .. \h73

\* The ModR/M byte at the head of src with its SIB byte and displacement.
AddressingLength(src) ==
  LET mod == src[1] \div 64
      sib == IF mod # 3 /\ src[1] % 8 = 4 THEN 1 ELSE 0
      base == IF sib = 1 THEN src[2] % 8 ELSE src[1] % 8
      displacement == CASE mod = 0 -> IF base = 5 THEN 4 ELSE 0
                        [] mod = 1 -> 1
                        [] mod = 2 -> 4
                        [] OTHER -> 0
  IN  1 + sib + displacement

TestHasImmediate(src) == (src[2] \div 8) % 8 \in {0, 1}

-----------------------------------------------------------------------------
(***************************************************************************)
(* The instruction at the head of src, without its prefixes.               *)
(***************************************************************************)
FullSize(src) == IF Has(src, \h66) THEN 2 ELSE 4

Tail0F(code) == SubSeq(code, 3, Len(code))

\* Where C4, C5 and 62 name a register they start a VEX or EVEX prefix.
IsVector(code) == code[1] \in {\hC4, \hC5, \h62} /\ code[2] >= \hC0

VectorLength(code) ==
  LET skip == CASE code[1] = \hC5 -> 2 [] code[1] = \hC4 -> 3 [] OTHER -> 4
      map == CASE code[1] = \hC5 -> 1 [] code[1] = \hC4 -> code[2] % 32 [] OTHER -> code[2] % 4
      op == code[skip + 1]
  IN  CASE map = 1 /\ op = \h77 -> skip + 1
        [] OTHER -> skip + 1 + AddressingLength(SubSeq(code, skip + 2, Len(code)))
                    + IF map = 3 \/ (map = 1 /\ op \in ByteImmediate0F) THEN 1 ELSE 0

OpcodeLength0F(src, code) ==
  CASE code[2] = \h38 -> 3 + AddressingLength(SubSeq(code, 4, Len(code)))
    [] code[2] = \h3A -> 4 + AddressingLength(SubSeq(code, 4, Len(code)))
    [] code[2] \in \h80 .. \h8F -> 2 + FullSize(src)
    [] code[2] \in NoModRm0F -> 2
    [] OTHER -> 2 + AddressingLength(Tail0F(code)) + IF code[2] \in ByteImmediate0F THEN 1 ELSE 0

OpcodeLength(src, code) ==
  LET op == code[1]
      immediate ==
        CASE op \in ByteImmediate -> 1
          [] op \in WordImmediate -> 2
          [] op \in FullImmediate -> FullSize(src)
          [] op \in FarPointer -> FullSize(src) + 2
          [] op \in MemoryOffset -> IF Has(src, \h67) THEN 2 ELSE 4
          [] op = \hC8 -> 3
          [] op = \hF6 /\ TestHasImmediate(code) -> 1
          [] op = \hF7 /\ TestHasImmediate(code) -> FullSize(src)
          [] OTHER -> 0
  IN  1 + immediate + IF op \in ModRmOpcodes THEN AddressingLength(Tail(code)) ELSE 0

InstructionLength(src) ==
  LET skip == PrefixLength(src)
      code == SubSeq(src, skip + 1, Len(src))
  IN  skip + CASE IsVector(code) -> VectorLength(code)
               [] code[1] = \h0F -> OpcodeLength0F(src, code)
               [] OTHER -> OpcodeLength(src, code)

-----------------------------------------------------------------------------
(***************************************************************************)
(* What the instruction does: a relative branch by its kind and target,    *)
(* anything else by its bytes.                                             *)
(***************************************************************************)
Displacement(src, size) ==
  LET n == InstructionLength(src)
      byte(i) == src[n - size + i]
      top == IF byte(size) < 128 THEN byte(size) ELSE byte(size) - 256
  IN  CASE size = 1 -> top
        [] size = 2 -> byte(1) + 256 * top
        [] OTHER -> byte(1) + 256 * byte(2) + 65536 * byte(3) + 16777216 * top

Branch(src, at, kind, size) ==
  [does |-> kind, prefixes |-> SubSeq(src, 1, PrefixLength(src)),
   to |-> at + InstructionLength(src) + Displacement(src, size)]

Effect(src, at) ==
  LET skip == PrefixLength(src)
      op == src[skip + 1]
  IN  CASE op = \hEB -> Branch(src, at, <<"jmp">>, 1)
        [] op = \hE9 -> Branch(src, at, <<"jmp">>, FullSize(src))
        [] op = \hE8 -> Branch(src, at, <<"call">>, FullSize(src))
        [] op \in \h70 .. \h7F -> Branch(src, at, <<"jcc", op % 16>>, 1)
        [] op \in \hE0 .. \hE3 -> Branch(src, at, <<"loop", op % 16>>, 1)
        [] op = \h0F /\ src[skip + 2] \in \h80 .. \h8F ->
             Branch(src, at, <<"jcc", src[skip + 2] % 16>>, FullSize(src))
        [] OTHER -> [does |-> <<"other", SubSeq(src, 1, InstructionLength(src))>>,
                     prefixes |-> <<>>, to |-> 0]
=============================================================================
