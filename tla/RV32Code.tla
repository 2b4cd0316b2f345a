------------------------------ MODULE RV32Code ------------------------------
(***************************************************************************)
(* The guest program as the translator and the dispatcher see it: the      *)
(* 32-bit address space, the instruction classes that the control of the   *)
(* emulator tells apart, and the address arithmetic on pages.              *)
(*                                                                         *)
(* Addresses count instruction words (4 bytes), so "insn_ip += 4" is       *)
(* NextIp.  All address arithmetic is modulo ASpace, the width of u32.     *)
(***************************************************************************)
EXTENDS Integers, Sequences, FiniteSets

CONSTANTS
  PAGE_SIZE,      \* instruction words per page
  NPages,         \* pages of the guest address space
  MappedPages,    \* pages the loader mapped; a fetch elsewhere faults
  NVals,          \* values of the one guest register that is modelled
  JumpTab,        \* value of the register -> target of an indirect jump
  Entries,        \* entry points of the guest program
  Programs,       \* initial contents of guest memory
  Patches         \* stores into code: pairs <<address, new instruction>>

ASpace == PAGE_SIZE * NPages

Addr == 0 .. ASpace - 1

Val == 0 .. NVals - 1

\* Instruction classes.  "mem" is a load or a store (flag MayTrap); ecall,
\* ebreak and illegal have the flag Trap; jal, brcc and jalr the flag Branch.
Op == {"alu", "mem", "fence", "fencei", "jal", "brcc", "jalr",
       "ecall", "ebreak", "illegal"}

Insn == [op : Op, tgt : Addr]

\* Instructions after which TranslateIPRange leaves its loop.
ControlOps == {"jal", "brcc", "jalr", "ecall", "ebreak"}

\* A page holds more than one instruction (1024 of them, in the code).
ASSUME RV32CodeAssumption ==
  /\ PAGE_SIZE \in Nat \ {0, 1}
  /\ NPages \in Nat \ {0}
  /\ MappedPages \subseteq 0 .. NPages - 1
  /\ NVals \in Nat \ {0}
  /\ JumpTab \in [Val -> Addr]
  /\ Entries \subseteq Addr
  /\ Programs \subseteq [Addr -> Insn]
  /\ Patches \subseteq Addr \X Insn

NextIp(a) == (a + 1) % ASpace

\* Arithmetic of the one modelled register: any instruction that computes.
AluResult(v) == (v + 1) % NVals

rounddown(a) == a - (a % PAGE_SIZE)

\* roundup(ip, PAGE_SIZE) leaves an aligned address alone, and is stored in a
\* u32: on the last page it wraps to 0.
roundup(a) == (IF a % PAGE_SIZE = 0 THEN a ELSE rounddown(a) + PAGE_SIZE)
                % ASpace

InSegment(base, gip) == (gip - base) % ASpace < PAGE_SIZE

Mapped(a) == (a \div PAGE_SIZE) \in MappedPages
=============================================================================
