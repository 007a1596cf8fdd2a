-------------------------------- MODULE T3Isa ---------------------------------
(***************************************************************************)
(* The instruction words of the T3 machine (src/src/codegen_t3/isa.rs): an *)
(* opcode, then either three register fields and a signed immediate, or    *)
(* one register field and an immediate that takes the place of the rest.   *)
(* The fields are RegTrits and ImmTrits wide (5 and 3 in the source).      *)
(***************************************************************************)
EXTENDS IR

CONSTANTS RegTrits,
          StackBase    \* where the stack starts, growing down (60000 in the source)

P3  == Pow(3, ImmTrits)
P8  == Pow(3, ImmTrits + RegTrits)
P13 == Pow(3, ImmTrits + 2 * RegTrits)
P18 == Pow(3, ImmTrits + 3 * RegTrits)
WideMax == (P13 - 1) \div 2
SP == 26

\* The opcodes the compiler emits or the assembler makes, each with its number.
OpNumber ==
  [NOP |-> 0, TADD |-> 1, TSUB |-> 2, TMUL |-> 3, TDIV |-> 4, TMOD |-> 5, TNEG |-> 6, TSHI |-> 10, TSHR |-> 11,
   TMIN |-> 12, TMAX |-> 13, TCMP |-> 14, LOAD |-> 15, STORE |-> 16, TLIT |-> 17, MOV |-> 18, JUMP |-> 20,
   CALL |-> 21, RET |-> 22, HALT |-> 23, SYSCALL |-> 24, TBR_POS |-> 25, TBR_ZERO |-> 26,
   BAND |-> 29, BOR |-> 30, BXOR |-> 31, TANDW |-> 36, TORW |-> 37, TXORW |-> 38, TIMPW |-> 39, TCMPW |-> 40,
   TDIVN |-> 43, TMODN |-> 44]
OpName == [n \in Range(OpNumber) |-> CHOOSE op \in DOMAIN OpNumber : OpNumber[op] = n]

WideOps == {"TLIT", "JUMP", "CALL", "SYSCALL", "TBR_POS", "TBR_ZERO"}

Encode(op, r1, r2, r3, imm) == OpNumber[op] * P18 + r1 * P13 + r2 * P8 + r3 * P3 + (imm % P3)
EncodeWide(op, r1, wide)    == OpNumber[op] * P18 + r1 * P13 + (wide % P13)

\* Mutant: the top half of the field is not negative.
SignedNot(raw, max, width) == raw
\* A stored immediate above the largest stands for a negative one.
Signed(raw, max, width) == IF raw > max THEN raw - width ELSE raw
OpOf(w)   == OpName[w \div P18]
R1Of(w)   == (w % P18) \div P13
R2Of(w)   == (w % P13) \div P8
R3Of(w)   == (w % P8) \div P3
ImmOf(w)  == Signed(w % P3, ImmMax, P3)
LitOf(w)  == Signed(w % P13, P13 \div 2, P13)
AddrOf(w) == w % P13
=============================================================================
