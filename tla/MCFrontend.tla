----------------------------- MODULE MCFrontend -----------------------------
(***************************************************************************)
(* Guest code for Frontend: every operation alone, with the extremes of    *)
(* its fields, and programs with the shapes a region can have.             *)
(***************************************************************************)
EXTENDS Frontend

Asm(op, d, s1, s2, n) == [op |-> op, rd |-> d, rs1 |-> s1, rs2 |-> s2, imm |-> n]

\* Each immediate bit that has a place of its own, and both signs.
SmallImms == {-2048, -1, 0, 32, 1024, 2047}
BranchImms == {-4096, -2, 0, 8, 32, 2048, 4094}
JumpImms == {-1048576, -4, 0, 2, 2048, 4096, 1048574}
UpperImms == {-2147483647 - 1, -4096, 0, 4096, 2147479552}

\* Every operation with a negative immediate, and one of each format with
\* all of them: the fields depend on the format only.
Imms(op, all, rep) == IF op \in rep THEN all ELSE {n \in all : n \in {-2, -2048}}

Singles ==
  {Asm(op, d, 0, 0, n) : op \in {"lui", "auipc"}, d \in {0, 1, 31}, n \in UpperImms}
  \cup {Asm("jal", d, 0, 0, n) : d \in {0, 31}, n \in JumpImms}
  \cup UNION {{Asm(op, r[1], r[2], 0, n) : r \in {<<0, 1>>, <<31, 0>>, <<1, 31>>},
                 n \in Imms(op, SmallImms, {"lw", "addi", "jalr"})} :
                op \in LoadOps \cup ImmOps \cup {"jalr"}}
  \cup {Asm(op, r[1], r[2], 0, n) : op \in ShiftImmOps,
          r \in {<<0, 1>>, <<31, 0>>, <<1, 31>>}, n \in {0, 31}}
  \cup {Asm(op, r[1], r[2], r[3], 0) : op \in RegOps,
          r \in {<<0, 1, 2>>, <<31, 0, 1>>}}
  \cup UNION {{Asm(op, 0, r[1], r[2], n) : r \in {<<0, 31>>, <<31, 1>>},
                 n \in Imms(op, SmallImms, {"sw"})} : op \in StoreOps}
  \cup UNION {{Asm(op, 0, r[1], r[2], n) : r \in {<<0, 31>>, <<31, 0>>},
                 n \in Imms(op, BranchImms, {"blt"})} : op \in BranchOps}
  \cup {Asm(op, 0, 0, 0, 0) : op \in HelperOps}

\* Zero, all ones, mul, csrrw, a load of funct3 3 and sret.
Illegal == {[op |-> "illegal", word |-> w] :
              w \in {{}, 0 .. 31, {0, 1, 4, 5, 25}, {0, 1, 4, 5, 6, 12},
                     {0, 1, 12, 13}, {0, 1, 4, 5, 6, 21, 28}}}

add == Asm("addi", 1, 1, 0, 4)
const == Asm("addi", 2, 0, 0, 5)
quiet == Asm("addi", 0, 1, 0, 7)
load == Asm("lw", 3, 1, 0, 8)
fence == Asm("fence", 0, 0, 0, 0)

Shapes ==
  {<<add, quiet, load, Asm("jal", 1, 0, 0, -12)>>,  \* a loop back to the entry
   <<load, add, Asm("beq", 0, 1, 0, -8)>>,          \* and a conditional one
   <<const, Asm("bne", 0, 0, 2, 64)>>,              \* leaves both ways
   <<fence, load, Asm("ecall", 0, 0, 0, 0)>>,
   <<add, load, const, quiet, add>>,                \* cut off by TB_MAX_INSNS
   <<quiet, fence>>,                                \* cut off by the boundary
   <<load, [op |-> "illegal", word |-> {}]>>,
   <<Asm("jalr", 1, 1, 0, 4), add>>}                \* nothing behind a branch

MCPrograms == {<<a>> : a \in Singles \cup Illegal} \cup Shapes
=============================================================================
