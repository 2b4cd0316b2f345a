----------------------------- MODULE ExecuteFrame ---------------------------
(***************************************************************************)
(* The run time of module Execute together with the host stack of module   *)
(* HostFrame: every step of the dispatcher, of translated code and of the  *)
(* stubs with what it does to the stack and to the callee-saved registers. *)
(* A region's frame is destroyed before it branches to the next one, so    *)
(* control goes from region to region for an unbounded time on one spill   *)
(* frame, and any word left behind on the way would accumulate.            *)
(***************************************************************************)
EXTENDS Execute, HostFrame

VARIABLES
  m,        \* the host machine
  leaf,     \* QEmit::is_leaf of the region that runs
  locals,   \* spill-frame words the region has stored its locals in
  ccall     \* history: sp at the latest call of compiled code

framevars == <<m, leaf, locals, ccall>>
allvars == <<vars, framevars>>

StackWord ==
  {Host(r) : r \in Reg} \cup {JitVal, Pad, NoReturn}
    \cup {Ret(to) : to \in {"execute", "trampoline", "slot"}}
    \cup {Local(k) : k \in 0 .. SpillWords - 1}

\* The stack pointer stays inside the stack and registers and words hold what
\* this code can put there.
FrameTypeOK ==
  /\ m.sp \in 0 .. ExecuteSp
  /\ m.mem \in [0 .. ExecuteSp - 1 -> StackWord]
  /\ m.regs \in [Reg -> StackWord]
  /\ m.ret \in StackWord
  /\ leaf \in BOOLEAN
  /\ locals \subseteq 0 .. SpillWords - 1
  /\ ccall \in 0 .. ExecuteSp

FrameInit ==
  /\ m = [sp |-> ExecuteSp, mem |-> [a \in 0 .. ExecuteSp - 1 |-> Pad],
          regs |-> HostRegs, ret |-> NoReturn]
  /\ leaf = TRUE
  /\ locals = {}
  /\ ccall = 0

\* Guest instructions translated into a call of a helper (TranslateHelper).
HelperOps == {"fence", "fencei", "ecall", "ebreak"}

\* Mutant: only the last instruction is looked at.
IsLeafLast(t) == LastInsn(t).op \notin HelperOps

\* MachineRegionInfo::has_calls, computed by QSel::Run.
IsLeaf(t) == \A i \in 1 .. Len(tbs[t].insns) : tbs[t].insns[i].op \notin HelperOps

\* Control reaches the entry of block t with machine n: Prologue runs.
EnterRegion(n, t) ==
  /\ m' = FrameSetup(n, IsLeaf(t))
  /\ leaf' = IsLeaf(t)
  /\ locals' = {}

\* Control returns to dbt::Execute.
LeaveRegions(n) ==
  /\ m' = n
  /\ leaf' = TRUE
  /\ locals' = {}

-----------------------------------------------------------------------------
FEnter ==
  /\ EnterLink \/ EnterBrind
  /\ EnterRegion(Trampoline(m), cur)
  /\ UNCHANGED ccall

\* Emit_hcall: the helper of fence and fence.i returns.
FHelper ==
  /\ JitFence \/ JitFenceI
  /\ ccall' = m.sp
  /\ m' = CCall(m)
  /\ UNCHANGED <<leaf, locals>>

\* The helper of ecall and ebreak does not: RaiseTrap.
FTrap ==
  /\ JitEcall \/ JitEbreak
  /\ ccall' = m.sp
  /\ LeaveRegions(Longjmp(CCall(m)))

\* Emit_br and Emit_gbr: the frame is destroyed on the way to a slot, not on
\* a jump to the region's own entry label, which comes after Prologue.
FLeave ==
  /\ JitJal \/ JitBrcc \/ JitFallThrough
  /\ m' = IF pc' = "slot" THEN FrameDestroy(m, leaf) ELSE m
  /\ UNCHANGED <<leaf, locals, ccall>>

FSlotLinked ==
  /\ SlotLinked
  /\ EnterRegion(m, cur')
  /\ UNCHANGED ccall

\* The slot's call, qcgstub_link_branch_jit's call and its pop.
LinkStub == Pop(CCall(Push(m, Ret("slot"))))

FSlotStubFound ==
  /\ SlotStubFound
  /\ ccall' = m.sp - 1
  /\ EnterRegion(LinkStub, cur')

FSlotStubEscape ==
  /\ SlotStubEscape
  /\ ccall' = m.sp - 1
  /\ LeaveRegions(Escape(LinkStub))

FBrindHit ==
  /\ BrindHit
  /\ EnterRegion(FrameDestroy(m, leaf), cur')
  /\ UNCHANGED ccall

\* Mutant: the slow path of a leaf calls on the region's own alignment.
FBrindMissUnaligned ==
  /\ BrindMiss
  /\ UNCHANGED framevars

\* The slow path: a leaf pushes padding for its call.
FBrindMiss ==
  /\ BrindMiss
  /\ m' = IF leaf THEN Push(m, Pad) ELSE m
  /\ UNCHANGED <<leaf, locals, ccall>>

FBrindStubFound ==
  /\ BrindStubFound
  /\ ccall' = m.sp
  /\ EnterRegion(Pop(CCall(m)), cur')

FBrindStubEscape ==
  /\ BrindStubEscape
  /\ ccall' = m.sp
  /\ LeaveRegions(Escape(Pop(CCall(m))))

\* The register allocator stores a local in its slot of the spill frame.
FSpill(k) ==
  /\ pc = "jit"
  /\ k \notin locals
  /\ m' = [m EXCEPT !.mem[LocalSlot(m, leaf, k)] = Local(k)]
  /\ locals' = locals \cup {k}
  /\ UNCHANGED <<vars, leaf, ccall>>

\* Steps of dbt::Execute, of the environment and of translated code that do
\* not touch the frame.
HostStep ==
  \/ LoopTrap \/ LoopHit \/ LoopMiss \/ LoopMissAssert
  \/ Translate \/ TranslateFault \/ TranslateIllegal
  \/ Emit \/ EmitPoolFull \/ BrindNull

JitStep ==
  \/ JitAlu \/ JitLoad \/ JitMemFault \/ JitJalr
  \/ \E p \in Patches : JitStoreCode(p)

FDispatch ==
  \/ HostStep /\ UNCHANGED framevars
  \/ FEnter \/ FSlotLinked \/ FSlotStubFound \/ FSlotStubEscape
  \/ FBrindHit \/ FBrindMiss \/ FBrindStubFound \/ FBrindStubEscape

FJit ==
  \/ JitStep /\ UNCHANGED framevars
  \/ FHelper \/ FTrap \/ FLeave

FNext ==
  \/ FDispatch
  \/ FJit
  \/ \E k \in 0 .. SpillWords - 1 : FSpill(k)
  \/ (Env \/ Stopped) /\ UNCHANGED framevars

FSpec == Init /\ FrameInit /\ [][FNext]_allvars

\* The host thread keeps running its own code; a system call may block.
FairFSpec == FSpec /\ WF_allvars(FDispatch) /\ WF_allvars(FJit)

-----------------------------------------------------------------------------
(* Properties *)

InJit == pc \in {"jit", "slot", "brind", "brindstub"}

\* However long the chain of regions, every branch slot and every region is
\* reached on the same stack pointer: nothing a region, a stub or a slow path
\* pushes is left behind, and dbt::Execute gets its own back.
FrameBalanced ==
  m.sp = CASE pc = "jit"       -> IF leaf THEN FrameBase - 1 ELSE FrameBase - 2
           [] pc = "brind"     -> IF leaf THEN FrameBase - 1 ELSE FrameBase - 2
           [] pc = "slot"      -> FrameBase - 1
           [] pc = "brindstub" -> FrameBase - 2
           [] pc = "aborted"   -> m.sp
           [] OTHER            -> ExecuteSp

\* Every call of compiled code (helpers, the linking stub, the slow path of
\* an indirect branch) is made with a 16-byte aligned stack.
CallsAligned == ccall % 2 = 0

\* The registers of dbt::Execute and its return address lie untouched above
\* the spill frame while translated code runs, and are back in place, each
\* in its own register, whichever way translated code was left.
HostContextKept ==
  /\ InJit =>
       /\ m.mem[ExecuteSp - 1] = Ret("execute")
       /\ \A i \in 1 .. 6 : m.mem[ExecuteSp - 1 - i] = Host(CalleeSaved[i])
  /\ ~InJit /\ pc # "aborted" =>
       m.regs = HostRegs /\ m.ret \in {NoReturn, Ret("execute")}

\* A local that was spilled is still in its slot when it is filled again: the
\* slot is inside the spill frame and no helper's frame reaches it.
LocalsSurvive ==
  pc = "jit" => \A k \in locals :
    /\ LocalSlot(m, leaf, k) \in FrameBase .. FrameBase + SpillWords - 1
    /\ m.mem[LocalSlot(m, leaf, k)] = Local(k)
=============================================================================
