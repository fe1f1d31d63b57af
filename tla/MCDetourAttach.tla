--------------------------- MODULE MCDetourAttach ---------------------------
(***************************************************************************)
(* Functions to hook: every instruction of both opcode maps as the first   *)
(* or second of a function, with the operands that change its length, and  *)
(* short functions made of branches and padding.                           *)
(***************************************************************************)
EXTENDS DetourAttach

\* An opcode, its ModR/M and SIB bytes and enough bytes of operands.
Operands == <<\h05, \h12, \h00, \h00, \h01, \h02, \h03, \h04>>

ModRms == {\h01, \h04, \h05, \h44, \h45, \h84, \h86, \hC1, \hC3}
Sibs == {\h24, \h25}

\* Opcodes of one byte the reference describes.
Excluded ==
  PrefixBytes \cup {\h0F, \h62, \h8F, \hC4, \hC5, \hD6, \hF1}
    \cup \h70 .. \h7F \cup \hE0 .. \hE3 \cup {\hEB}

Excluded0F ==
  {\h04, \h0A, \h0C, \h24, \h25, \h26, \h27, \h36, \h39, \h78, \h7A, \h7B, \hA6, \hA7, \hB8, \hB9, \hFF}
    \cup \h3B .. \h3F \cup \h20 .. \h23 \cup \h38 .. \h3A \cup \h80 .. \h8F

Plain == {<<op>> : op \in 0 .. 255 \ Excluded} \cup {<<\h0F, op>> : op \in 0 .. 255 \ Excluded0F}

ModRmSib == {<<m, s>> : m \in ModRms, s \in Sibs}

OneInstruction ==
  {opcode \o operand \o Operands :
     opcode \in Plain \cup {<<\h0F, \h38, \h10>>, <<\h0F, \h3A, \h0F>>}, operand \in ModRmSib}

PrefixedOnce == {<<\h66>> \o i : i \in {i \in OneInstruction : i[1] \notin {\hE8, \hE9}}}

Other ==
  {<<\h67, \hA1>> \o Operands, <<\hF3, \h0F, \hB8, \hC1>>, <<\hF0, \h0F, \hB1, \h0D>> \o Operands,
   <<\h64, \hA1>> \o Operands, <<\h8F, \h45, \h08>>, <<\hC4, \h45, \h08>>, <<\hC5, \h45, \h08>>,
   <<\h62, \h45, \h08>>, <<\hC5, \hF8, \h77>>, <<\hC5, \hF8, \h58, \hC1>>,
   <<\hC5, \hF1, \hC6, \hC1, \h01>>, <<\hC4, \hE2, \h71, \h98, \h45, \h10>>,
   <<\hC4, \hE3, \h71, \h0F, \hC1, \h08>>, <<\h62, \hF1, \h74, \h48, \h58, \h84, \h24>> \o Operands,
   <<\h2E, \hFF, \h25>> \o Operands, <<\hFF, \h25>> \o Operands}

Branches ==
  {<<op, 7>> : op \in \h70 .. \h7F \cup {\hEB}} \cup {<<\h3E, \h74, \hF0>>, <<\hEB, \hFE>>}
    \cup {<<op>> \o OffsetBytes(n, 4) : op \in {\hE8, \hE9}, n \in {-70000, 5}}
    \cup {<<\h0F, op>> \o OffsetBytes(-300, 4) : op \in \h80 .. \h8F}

\* As much of a sequence as its first instruction needs.
First(bytes) == SubSeq(bytes, 1, InstructionLength(bytes))

Prologue == <<\h55, \h8B, \hEC>>  \* push ebp; mov ebp, esp
Body == <<\h8B, \h45, \h08, \h8B, \h4D, \h0C, \h8B, \h55, \h10, \h90, \h90, \h90, \h90, \h90, \h90, \h90>>

Instructions == {First(i) : i \in OneInstruction \cup PrefixedOnce \cup Other \cup Branches}

\* The longest instruction compilers write, behind a segment prefix.
LongMove == <<\h2E, \hC7, \h84, \h24>> \o Operands

Padding == {[i \in 1 .. 16 |-> Break]} \cup {Nops[n] \o Body : n \in 3 .. 11} \cup {Body}

ShortFunctions ==
  {f \o p : f \in {<<\hC3>>, <<\h33, \hC0, \hC3>>, <<\hF3, \hC3>>, <<\hC2, \h08, \h00>>, <<\hEB, \h07>>, <<\h74, \h02, \hC3>>},
            p \in Padding}

MCFunctions ==
  {i \o Body : i \in Instructions} \cup {Prologue \o i \o Body : i \in Instructions}
    \cup {b \o c \o i \o Body : b \in Branches, c \in Branches, i \in {<<>>, LongMove}}
    \cup ShortFunctions

MCDistances == {70000, -200000}

\* DetourCopyInstruction on LOOP, LOOPE, LOOPNE and JECXZ.
LoopFunctions == {Prologue \o <<op, \hF0>> \o Body : op \in \hE0 .. \hE3}
=============================================================================
