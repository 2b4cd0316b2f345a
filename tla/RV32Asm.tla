------------------------------ MODULE RV32Asm ------------------------------
(***************************************************************************)
(* The encoding of RV32I by the RISC-V manual: the reference the decoder   *)
(* is held against.  An instruction is [op, rd, rs1, rs2, imm] with 0 in   *)
(* the fields its format lacks; imm is what the assembler's operand means, *)
(* so a branch offset in bytes and the upper 20 bits of lui in place.      *)
(***************************************************************************)
EXTENDS BitField

Ops ==
  {"lui", "auipc", "jal", "jalr", "beq", "bne", "blt", "bge", "bltu", "bgeu",
   "lb", "lh", "lw", "lbu", "lhu", "sb", "sh", "sw",
   "addi", "slti", "sltiu", "xori", "ori", "andi", "slli", "srli", "srai",
   "add", "sub", "sll", "slt", "sltu", "xor", "srl", "sra", "or", "and",
   "fence", "fencei", "ecall", "ebreak"}

Major(op) ==
  CASE op = "lui" -> 55 [] op = "auipc" -> 23 [] op = "jal" -> 111 [] op = "jalr" -> 103
    [] op \in {"beq", "bne", "blt", "bge", "bltu", "bgeu"} -> 99
    [] op \in {"lb", "lh", "lw", "lbu", "lhu"} -> 3
    [] op \in {"sb", "sh", "sw"} -> 35
    [] op \in {"addi", "slti", "sltiu", "xori", "ori", "andi", "slli", "srli", "srai"} -> 19
    [] op \in {"add", "sub", "sll", "slt", "sltu", "xor", "srl", "sra", "or", "and"} -> 51
    [] op \in {"fence", "fencei"} -> 15
    [] op \in {"ecall", "ebreak"} -> 115

Funct3(op) ==
  CASE op \in {"bne", "lh", "sh", "slli", "sll", "fencei"} -> 1
    [] op \in {"lw", "sw", "slti", "slt"} -> 2
    [] op \in {"sltiu", "sltu"} -> 3
    [] op \in {"blt", "lbu", "xori", "xor"} -> 4
    [] op \in {"bge", "lhu", "srli", "srai", "srl", "sra"} -> 5
    [] op \in {"bltu", "ori", "or"} -> 6
    [] op \in {"bgeu", "andi", "and"} -> 7
    [] OTHER -> 0

Funct7(op) == IF op \in {"srai", "sub", "sra"} THEN 32 ELSE 0

\* The word position of immediate bit k, by major opcode.
ImmPos(major, k) ==
  CASE major \in {3, 19, 103} -> k + 20
    [] major = 35 -> IF k < 5 THEN k + 7 ELSE k + 20
    [] major = 99 -> IF k = 11 THEN 7 ELSE IF k = 12 THEN 31
                     ELSE IF k < 5 THEN k + 7 ELSE k + 20
    [] major \in {55, 23} -> k
    [] major = 111 -> IF k = 20 THEN 31 ELSE IF k = 11 THEN 20
                      ELSE IF k < 11 THEN k + 20 ELSE k

ShiftOps == {"slli", "srli", "srai"}

\* The immediate bits an instruction holds.
ImmBits(op) ==
  CASE op \in ShiftOps -> 0 .. 4
    [] op \notin ShiftOps /\ Major(op) \in {3, 19, 103, 35} -> 0 .. 11
    [] Major(op) = 99 -> 1 .. 12
    [] Major(op) \in {55, 23} -> 12 .. 31
    [] Major(op) = 111 -> 1 .. 20
    [] OTHER -> {}

\* The immediates an instruction can have.
ImmFits(op, n) ==
  CASE op \in ShiftOps -> 0 <= n /\ n < 32
    [] op \notin ShiftOps /\ Major(op) \in {3, 19, 103, 35} -> -2048 <= n /\ n < 2048
    [] Major(op) = 99 -> -4096 <= n /\ n < 4096 /\ n % 2 = 0
    [] Major(op) \in {55, 23} -> MinInt <= n /\ n <= MaxInt /\ n % 4096 = 0
    [] Major(op) = 111 -> -1048576 <= n /\ n < 1048576 /\ n % 2 = 0
    [] OTHER -> n = 0

\* The one bits of n, and of a number put at bit l.
Bits(n) == {k \in 0 .. 31 : BitOf(n, k)}
Put(n, l) == {l + k : k \in Bits(n)}

\* The word of an instruction; ebreak is ecall with bit 20 set.  A word that
\* is no instruction is [op |-> "illegal", word |-> ...].
Assemble(i) ==
  IF i.op = "illegal" THEN i.word
  ELSE Put(Major(i.op), 0) \cup Put(Funct3(i.op), 12) \cup Put(Funct7(i.op), 25)
         \cup Put(i.rd, 7) \cup Put(i.rs1, 15) \cup Put(i.rs2, 20)
         \cup {ImmPos(Major(i.op), k) : k \in Bits(i.imm) \cap ImmBits(i.op)}
         \cup IF i.op = "ebreak" THEN {20} ELSE {}

\* The fields by which the manual tells op from the other operations have
\* their values in w.  funct7 is one of them only where two operations share
\* a funct3: what it holds elsewhere is up to extensions.
Matches(w, op) ==
  /\ w \cap (0 .. 6) = Put(Major(op), 0)
  /\ Major(op) \notin {55, 23, 111} => w \cap (12 .. 14) = Put(Funct3(op), 12)
  /\ op \in {"srli", "srai", "add", "sub", "srl", "sra"} =>
       w \cap (25 .. 31) = Put(Funct7(op), 25)
  /\ Major(op) = 115 =>
       w \cap ((7 .. 11) \cup (15 .. 31)) = IF op = "ebreak" THEN {20} ELSE {}

\* What an assembler accepts: operands in range and 0 where there is none.
Wellformed(i) ==
  IF i.op = "illegal" THEN \A op \in Ops : ~Matches(i.word, op)
  ELSE /\ i \in [op : Ops, rd : 0 .. 31, rs1 : 0 .. 31, rs2 : 0 .. 31, imm : Int]
       /\ Major(i.op) \in {99, 35, 15, 115} => i.rd = 0
       /\ Major(i.op) \in {55, 23, 111, 15, 115} => i.rs1 = 0
       /\ Major(i.op) \notin {99, 35, 51} => i.rs2 = 0
       /\ ImmFits(i.op, i.imm)
=============================================================================
