----------------------------- MODULE RV32Decode -----------------------------
(***************************************************************************)
(* The instruction decoder (guest/rv32_decode.h, rv32_insn.h, rv32_ops.h): *)
(* which operation a 32 bit word is, and what its fields hold.  A word is  *)
(* a BitField container.                                                   *)
(***************************************************************************)
EXTENDS BitField

opcode(w) == Field(w, 0, 6)
rd(w) == Field(w, 7, 11)
funct3(w) == Field(w, 12, 14)
rs1(w) == Field(w, 15, 19)
rs2(w) == Field(w, 20, 24)
funct7(w) == Field(w, 25, 31)
funct12(w) == Field(w, 20, 31)

-----------------------------------------------------------------------------
(* The switch of Decoder::Decode, one definition per level *)

OpBranch(w) ==
  CASE funct3(w) = 0 -> "beq" [] funct3(w) = 1 -> "bne"
    [] funct3(w) = 4 -> "blt" [] funct3(w) = 5 -> "bge"
    [] funct3(w) = 6 -> "bltu" [] funct3(w) = 7 -> "bgeu" [] OTHER -> "illegal"

OpLoad(w) ==
  CASE funct3(w) = 0 -> "lb" [] funct3(w) = 1 -> "lh" [] funct3(w) = 2 -> "lw"
    [] funct3(w) = 4 -> "lbu" [] funct3(w) = 5 -> "lhu" [] OTHER -> "illegal"

OpStore(w) ==
  CASE funct3(w) = 0 -> "sb" [] funct3(w) = 1 -> "sh" [] funct3(w) = 2 -> "sw"
    [] OTHER -> "illegal"

\* funct7 is looked at only where two operations share a funct3.
ByFunct7(w, op0, op32) ==
  CASE funct7(w) = 0 -> op0 [] funct7(w) = 32 -> op32 [] OTHER -> "illegal"

OpImm(w) ==
  CASE funct3(w) = 0 -> "addi" [] funct3(w) = 1 -> "slli" [] funct3(w) = 2 -> "slti"
    [] funct3(w) = 3 -> "sltiu" [] funct3(w) = 4 -> "xori"
    [] funct3(w) = 5 -> ByFunct7(w, "srli", "srai")
    [] funct3(w) = 6 -> "ori" [] funct3(w) = 7 -> "andi" [] OTHER -> "illegal"

OpReg(w) ==
  CASE funct3(w) = 0 -> ByFunct7(w, "add", "sub") [] funct3(w) = 1 -> "sll"
    [] funct3(w) = 2 -> "slt" [] funct3(w) = 3 -> "sltu" [] funct3(w) = 4 -> "xor"
    [] funct3(w) = 5 -> ByFunct7(w, "srl", "sra")
    [] funct3(w) = 6 -> "or" [] funct3(w) = 7 -> "and" [] OTHER -> "illegal"

OpFence(w) ==
  CASE funct3(w) = 0 -> "fence" [] funct3(w) = 1 -> "fencei" [] OTHER -> "illegal"

\* funct3 | rd | rs1 has to be zero.
OpSystem(w) ==
  IF funct3(w) = 0 /\ rd(w) = 0 /\ rs1(w) = 0
  THEN CASE funct12(w) = 0 -> "ecall" [] funct12(w) = 1 -> "ebreak"
         [] OTHER -> "illegal"
  ELSE "illegal"

Decode(w) ==
  CASE opcode(w) = 55  -> "lui"
    [] opcode(w) = 23  -> "auipc"
    [] opcode(w) = 111 -> "jal"
    [] opcode(w) = 103 -> IF funct3(w) = 0 THEN "jalr" ELSE "illegal"
    [] opcode(w) = 99  -> OpBranch(w)
    [] opcode(w) = 3   -> OpLoad(w)
    [] opcode(w) = 35  -> OpStore(w)
    [] opcode(w) = 19  -> OpImm(w)
    [] opcode(w) = 51  -> OpReg(w)
    [] opcode(w) = 15  -> OpFence(w)
    [] opcode(w) = 115 -> OpSystem(w)
    [] OTHER           -> "illegal"

-----------------------------------------------------------------------------
(* Operations by format and flags *)

BranchOps == {"beq", "bne", "blt", "bge", "bltu", "bgeu"}
LoadOps == {"lb", "lh", "lw", "lbu", "lhu"}
StoreOps == {"sb", "sh", "sw"}
ShiftImmOps == {"slli", "srli", "srai"}
ImmOps == {"addi", "slti", "sltiu", "xori", "ori", "andi"}
RegOps == {"add", "sub", "sll", "slt", "sltu", "xor", "srl", "sra", "or", "and"}
HelperOps == {"fence", "fencei", "ecall", "ebreak"}

Format(op) ==
  CASE op \in {"lui", "auipc"} -> "U"
    [] op = "jal" -> "J"
    [] op \in BranchOps -> "B"
    [] op \in StoreOps -> "S"
    [] op \in LoadOps \cup ImmOps \cup {"jalr"} -> "I"
    [] op \in ShiftImmOps -> "IS"
    [] op \in RegOps -> "R"
    [] OTHER -> "Base"

FlagBranch(op) == op \in BranchOps \cup {"jal", "jalr"}
FlagMayTrap(op) == op \in LoadOps \cup StoreOps
FlagTrap(op) == op \in {"illegal", "ecall", "ebreak"}

\* The immediate of each format, scaled as INSN_FIELD_SC does: of the pieces
\* of a bf_seq only the top one is signed.
Imm(w, fmt) ==
  LET sign == FieldS(w, 31, 31)
  IN  CASE fmt = "I"  -> ShiftIn(sign, w, 20, 30)
        [] fmt = "IS" -> Field(w, 20, 24)
        [] fmt = "S"  -> ShiftIn(ShiftIn(sign, w, 25, 30), w, 7, 11)
        [] fmt = "B"  ->
             ShiftIn(ShiftIn(ShiftIn(sign, w, 7, 7), w, 25, 30), w, 8, 11) * 2
        [] fmt = "U"  -> FieldS(w, 12, 31) * 4096
        [] fmt = "J"  ->
             ShiftIn(ShiftIn(ShiftIn(sign, w, 12, 19), w, 20, 20), w, 21, 30) * 2
        [] OTHER -> 0

\* The fields of w as operation op of format fmt; one the format lacks is 0.
Fields(w, op, fmt) ==
  LET has(fmts, n) == IF fmt \in fmts THEN n ELSE 0
  IN  [op  |-> op,
       rd  |-> has({"R", "I", "IS", "U", "J"}, rd(w)),
       rs1 |-> has({"R", "I", "IS", "S", "B"}, rs1(w)),
       rs2 |-> has({"R", "S", "B"}, rs2(w)),
       imm |-> Imm(w, fmt)]

\* The decoded instruction.
Insn(w) == LET op == Decode(w) IN Fields(w, op, Format(op))
=============================================================================
