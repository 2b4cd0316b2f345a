------------------------------ MODULE HostFrame -----------------------------
(***************************************************************************)
(* The host stack under translated code: what the trampoline, the escape   *)
(* stubs (jitabi.cpp) and the frame code of a region (emit.cpp) do to it.  *)
(*                                                                         *)
(* The stack is counted in words of 8 bytes and grows down; the word       *)
(* FrameBase is the lowest one of the spill frame, so that                 *)
(*                                                                         *)
(*   ExecuteSp          rsp of dbt::Execute at its call of the trampoline  *)
(*   ExecuteSp - 1      return address into dbt::Execute                   *)
(*   ... - 2 .. - 7     rbp, rbx, r12, r13, r14, r15 of dbt::Execute       *)
(*   ... - 8            padding, the "+ 8" of the trampoline's sub         *)
(*   FrameBase + k      word k of the spill frame                          *)
(*   FrameBase - 1      return address of the trampoline's call, on which  *)
(*                      every region is entered; nobody returns to it      *)
(*   FrameBase - 2      padding of a region that calls, or the return      *)
(*                      address pushed by an unlinked branch slot          *)
(*                                                                         *)
(* A machine m is [sp, mem, regs, ret]: the stack pointer, the stack, the  *)
(* callee-saved registers and the last return address that was popped.     *)
(* x86-64 wants sp even (16-byte aligned) at every call of compiled code.  *)
(***************************************************************************)
EXTENDS Integers, Sequences

CONSTANT SpillWords   \* spillframe_size, in words

\* static_assert((spillframe_size & 15) == 0)
ASSUME HostFrameAssumption == SpillWords \in Nat /\ SpillWords % 2 = 0

FrameBase == 4
ExecuteSp == FrameBase + SpillWords + 8

\* The order in which the trampoline pushes the registers.
CalleeSaved == <<"rbp", "rbx", "r12", "r13", "r14", "r15">>
Reg == {"rbp", "rbx", "r12", "r13", "r14", "r15"}

\* Words of the stack: what dbt::Execute keeps in register r, what translated
\* code keeps there, a return address, a local of the region, padding.
Host(r) == <<"host", r>>
JitVal == <<"jit", "">>
Ret(to) == <<"ret", to>>
Local(k) == <<"local", k>>
Pad == <<"pad", "">>

HostRegs == [r \in Reg |-> Host(r)]
JitRegs == [r \in Reg |-> JitVal]

NoReturn == Ret("none")

Push(m, v) == [m EXCEPT !.sp = @ - 1, !.mem[m.sp - 1] = v]

Pop(m) == [m EXCEPT !.sp = @ + 1]

\* A call of compiled code: it may write anywhere below the stack pointer.
CCall(m) ==
  [m EXCEPT !.mem = [a \in DOMAIN m.mem |-> IF a < m.sp THEN Pad
                                            ELSE m.mem[a]]]

-----------------------------------------------------------------------------
(* trampoline_to_jit and the two escape stubs *)

\* The six pushes: the first of CalleeSaved ends up highest.
PushSaved(m) ==
  [m EXCEPT !.sp = @ - 6,
            !.mem = [a \in DOMAIN m.mem |->
                       IF a \in m.sp - 6 .. m.sp - 1
                       THEN m.regs[CalleeSaved[m.sp - a]]
                       ELSE m.mem[a]]]

\* The call, the pushes, sub rsp, spillframe_size + 8 and call *rdx.  r13 and
\* rbp are loaded with the CPU state and the memory base, the others are the
\* register allocator's.
Trampoline(m) ==
  LET saved == PushSaved(Push(m, Ret("execute")))
      frame == [saved EXCEPT !.sp = @ - (SpillWords + 1), !.regs = JitRegs]
  IN  Push(frame, Ret("trampoline"))

\* Mutant: r14 and r15 are popped in the order they were pushed.
EscapeSwapped(m) ==
  LET saved == m.sp + SpillWords + 2
      order == <<"rbp", "rbx", "r12", "r13", "r15", "r14">>
  IN  [m EXCEPT !.sp = saved + 7,
                !.regs = [r \in Reg |->
                  m.mem[saved + 6 - (CHOOSE i \in 1 .. 6 : order[i] = r)]],
                !.ret = m.mem[saved + 6]]

\* qcgstub_escape_link and qcgstub_escape_brind: add rsp, spillframe_size + 16,
\* six pops and ret.
Escape(m) ==
  LET saved == m.sp + SpillWords + 2
  IN  [m EXCEPT !.sp = saved + 7,
                !.regs = [r \in Reg |->
                  m.mem[saved + 6 -
                          (CHOOSE i \in 1 .. 6 : CalleeSaved[i] = r)]],
                !.ret = m.mem[saved + 6]]

\* siglongjmp to the sigsetjmp of dbt::Execute.
Longjmp(m) == [m EXCEPT !.sp = ExecuteSp, !.regs = HostRegs]

-----------------------------------------------------------------------------
(* The frame of a region; leaf is QEmit::is_leaf *)

FrameSetup(m, leaf) == IF leaf THEN m ELSE Push(m, Pad)

\* Mutant: a region that calls leaves its padding on the stack.
FrameDestroyLeaf(m, leaf) == m

FrameDestroy(m, leaf) == IF leaf THEN m ELSE Pop(m)

\* Mutant: the padding of a region that calls is forgotten.
LocalSlotLeaf(m, leaf, k) == m.sp + 1 + k

\* make_slot: word k of the spill frame, at rsp + spillframe_sp_offs.
LocalSlot(m, leaf, k) == m.sp + (IF leaf THEN 1 ELSE 2) + k
=============================================================================
