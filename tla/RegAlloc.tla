------------------------------ MODULE RegAlloc ------------------------------
(***************************************************************************)
(* The register allocator (codegen/regalloc.cpp) with the operand          *)
(* constraints it obeys (codegen/arch_traits.cpp).  One pass over the      *)
(* instructions of a region replaces virtual registers by host registers   *)
(* and inserts the moves that spill and fill them.                         *)
(*                                                                         *)
(* The model runs the pass on an arbitrary instruction list and executes   *)
(* the emitted code symbolically next to it: reg[q] is the virtual         *)
(* register whose CURRENT value host register q holds (Junk for none) and  *)
(* home is the set of virtual registers whose memory slot holds their      *)
(* current value.  An inserted move takes effect when it is created, the   *)
(* instruction itself in Emit; both happen in program order.               *)
(***************************************************************************)
EXTENDS Integers, Sequences, FiniteSets

CONSTANTS
  PRegs,        \* numbers of the host registers, GPR_NUM of them
  Fixed,        \* GPR_FIXED: state pointer, memory base, stack pointer
  CallClobber,  \* GPR_CALL_CLOBBER
  RCX, RSI,     \* the registers that single-register constraints name
  Globals,      \* virtual registers that live in CPUState
  Locals,       \* temporaries of the region
  VSize,        \* VTypeToSize of each local
  FrameSize     \* ArchTraits::spillframe_size

VRegs == Globals \cup Locals

\* An instruction has up to three operands in registers of its own.
ASSUME RegAllocAssumption ==
  /\ PRegs \subseteq Nat
  /\ 0 \in PRegs
  /\ Fixed \subseteq PRegs
  /\ \E a, b, c \in PRegs \ Fixed : a # b /\ a # c /\ b # c
  /\ CallClobber \subseteq PRegs
  /\ RCX \in PRegs \ Fixed
  /\ RSI \in PRegs \ Fixed
  /\ Globals \cap Locals = {}
  /\ VSize \in [Locals -> Nat \ {0}]
  /\ FrameSize \in Nat

NoReg == "NoReg"     \* a null RTrack*, an operand that is not a register
Imm == "Imm"         \* a constant operand
Junk == "Junk"
NO_SPILL == -1
NoPReg == -1         \* an operand not rewritten to a host register

ASSUME NamesAssumption == {NoReg, Imm, Junk} \cap VRegs = {}

-----------------------------------------------------------------------------
(* Instructions, after operand selection *)

AliasOps == {"binop", "shift"}
DstOps == {"mov", "binop", "shift", "setcc", "vmload"}
SideeffOps == {"vmload", "vmstore"}
BlockEndOps == {"br", "brcc"}
RegionEndOps == {"gbr", "gbrind"}

VOrImm == VRegs \cup {Imm}
None == {NoReg}

\* Instructions with the operands the constraint tables (CT_INFO_*) allow
\* each opcode.  QSel has made the first source of a two-address operation
\* its destination.
Instr ==
  [op : {"mov", "vmload"}, dst : VRegs, s1 : VOrImm, s2 : None]
  \cup {i \in [op : AliasOps, dst : VRegs, s1 : VRegs, s2 : VOrImm] : i.s1 = i.dst}
  \cup [op : {"setcc"}, dst : VRegs, s1 : VRegs, s2 : VOrImm]
  \cup [op : {"vmstore"}, dst : None, s1 : VOrImm, s2 : VRegs]
  \cup [op : {"brcc"}, dst : None, s1 : VRegs, s2 : VOrImm]
  \cup [op : {"gbrind"}, dst : None, s1 : VRegs, s2 : None]
  \cup [op : {"br", "gbr", "hcall"}, dst : None, s1 : None, s2 : None]

NoInstr == [op |-> "br", dst |-> NoReg, s1 |-> NoReg, s2 |-> NoReg]

Src(i, k) == IF k = 1 THEN i.s1 ELSE i.s2

\* RAOpCt::cr of source k: shift counts need RCX, indirect branches RSI.
SrcCt(op, k) ==
  CASE op = "shift" /\ k = 2 -> {RCX}
    [] op = "gbrind" -> {RSI}
    [] OTHER -> PRegs

\* Mutant: sources in operand order.
RaOrderPlain(op) == <<1, 2>>

\* InstCt::order: sources with fewer candidate registers first.
RaOrder(op) == IF op = "shift" THEN <<2, 1>> ELSE <<1, 2>>

-----------------------------------------------------------------------------
VARIABLES
  loc,           \* VRegs -> Location
  p,             \* VRegs -> PRegs : valid if loc is REG
  spill_synced,  \* VRegs -> BOOLEAN : valid if loc is REG
  spill_offs,    \* Locals -> offset in the spill frame
  p2v,           \* PRegs -> VRegs or NoReg
  frame_cur,
  ins,           \* the instruction being allocated
  todo,          \* its sources not yet allocated, in ra_order
  avoid,         \* the local variable of AllocOp
  opr,           \* 0 .. 2 -> PRegs or NoPReg : operands rewritten to PGPR
  spilled,       \* register the pending AllocPReg has spilled to return it
  phase,         \* where the pass is in the visitor of ins
  reg,           \* PRegs -> VRegs or Junk
  home,          \* virtual registers whose slot is current
  life           \* Locals -> has it a value in this block?

ravars == <<loc, p, spill_synced, spill_offs, p2v, frame_cur>>
insvars == <<ins, todo, avoid, opr, phase>>
machine == <<reg, home, life>>
vars == <<ravars, insvars, spilled, machine>>

\* "spill" is CallOp's loop over the clobbered registers, "release" what
\* follows AllocOp or that loop.
Phases == {"next", "src", "sync", "dst", "spill", "release", "emit", "panic"}

\* The tables of the pass and the machine.
TablesTyped ==
  /\ loc \in [VRegs -> {"DEAD", "MEM", "REG"}]
  /\ p \in [VRegs -> PRegs]
  /\ spill_synced \in [VRegs -> BOOLEAN]
  /\ spill_offs \in [Locals -> Nat \cup {NO_SPILL}]
  /\ p2v \in [PRegs -> VRegs \cup {NoReg}]
  /\ frame_cur \in 0 .. FrameSize
  /\ ins \in Instr
  /\ todo \in {<<>>, <<1>>, <<2>>, <<1, 2>>, <<2, 1>>}
  /\ avoid \in SUBSET PRegs
  /\ opr \in [0 .. 2 -> PRegs \cup {NoPReg}]
  /\ phase \in Phases
  /\ reg \in [PRegs -> VRegs \cup {Junk}]
  /\ home \in SUBSET VRegs
  /\ life \in [Locals -> {"fresh", "live", "past"}]

\* The pass keeps its tables typed.
TypeOK == TablesTyped /\ spilled \in PRegs \cup {NoPReg}

\* The constructor and Prologue.  CPUState holds the globals.
Init ==
  /\ loc = [v \in VRegs |-> IF v \in Globals THEN "MEM" ELSE "DEAD"]
  /\ p = [v \in VRegs |-> 0]
  /\ spill_synced = [v \in VRegs |-> FALSE]
  /\ spill_offs = [v \in Locals |-> NO_SPILL]
  /\ p2v = [q \in PRegs |-> NoReg]
  /\ frame_cur = 0
  /\ ins = NoInstr
  /\ todo = <<>>
  /\ avoid = Fixed
  /\ opr = [k \in 0 .. 2 |-> NoPReg]
  /\ spilled = NoPReg
  /\ phase = "next"
  /\ reg = [q \in PRegs |-> Junk]
  /\ home = Globals
  /\ life = [v \in Locals |-> "fresh"]

Live == Globals \cup {v \in Locals : life[v] = "live"}

-----------------------------------------------------------------------------
(* Spilling *)

RoundUp(a, b) == ((a + b - 1) \div b) * b

\* Mutant: offsets are rounded down.
SlotOffsDown(v) == (frame_cur \div VSize[v]) * VSize[v]

\* The aligned offset AllocFrameSlot gives v.
SlotOffs(v) == RoundUp(frame_cur, VSize[v])

\* EmitSpill must give v a frame slot first.
NeedsSlot(v) ==
  /\ v \in Locals
  /\ loc[v] = "REG"
  /\ ~spill_synced[v]
  /\ spill_offs[v] = NO_SPILL

\* Mutant: only the start of the slot is compared.
FrameFullStart(v) == SlotOffs(v) > FrameSize

FrameFull(v) == SlotOffs(v) + VSize[v] > FrameSize

AllocFrameSlot(v) ==
  /\ spill_offs' = [spill_offs EXCEPT ![v] = SlotOffs(v)]
  /\ frame_cur' = SlotOffs(v) + VSize[v]

\* The slots of two locals share a byte.
Overlap(offs, u, v) ==
  /\ offs[u] # NO_SPILL
  /\ offs[v] # NO_SPILL
  /\ offs[u] < offs[v] + VSize[v]
  /\ offs[v] < offs[u] + VSize[u]

\* Virtual registers of S that SyncSpill writes to their slots.
Dirty(S) == {v \in S : ~spill_synced[v] /\ loc[v] = "REG"}

\* The slots of S are written from their registers; offs are the slots.
HomeAfterSpill(S, offs) ==
  (home \ (Dirty(S) \cup {u \in Locals : \E v \in Dirty(S) \cap Locals :
                                            u # v /\ Overlap(offs, u, v)}))
    \cup {v \in Dirty(S) : reg[p[v]] = v}

\* SyncSpill marks what it wrote.
SyncSpill(S) ==
  spill_synced' = [v \in VRegs |-> spill_synced[v] \/ v \in Dirty(S)]

\* Release<false> of every register of S.
Release(S) ==
  /\ loc' = [v \in VRegs |-> IF v \in S THEN "MEM" ELSE loc[v]]
  /\ p2v' = [q \in PRegs |-> IF \E v \in S : loc[v] = "REG" /\ p[v] = q
                             THEN NoReg ELSE p2v[q]]

\* Spill(p) of the register q: its virtual register goes to memory.
SpillReg(q) ==
  LET v == p2v[q]
  IN  /\ SyncSpill({v})
      /\ Release({v})
      /\ IF NeedsSlot(v) THEN AllocFrameSlot(v)
                         ELSE UNCHANGED <<spill_offs, frame_cur>>
      /\ home' = HomeAfterSpill({v}, spill_offs')
      /\ UNCHANGED <<p, reg, life>>

-----------------------------------------------------------------------------
(* AllocPReg *)

IsFirst(q, S) == q \in S /\ \A r \in S : q <= r

CurSrc == Src(ins, Head(todo))
CurCt == SrcCt(ins.op, Head(todo))

\* A source loop iteration that calls AllocPReg: to fill a register from
\* memory or to copy one that is outside the constraint.
SrcNeedsReg ==
  /\ phase = "src"
  /\ todo # <<>>
  /\ CurSrc \in VRegs
  /\ \/ loc[CurSrc] = "MEM"
     \/ loc[CurSrc] = "REG" /\ p[CurSrc] \notin CurCt

DstNeedsReg ==
  /\ phase = "dst"
  /\ ins.op \in DstOps \ AliasOps

\* Mutant: registers of earlier operands are not avoided.
TargetNoAvoid == (IF phase = "src" THEN CurCt ELSE PRegs) \ Fixed

\* desire & ~avoid of the pending AllocPReg call.
Target == (IF phase = "src" THEN CurCt ELSE PRegs) \ avoid

FreeRegs == {q \in Target : p2v[q] = NoReg}

\* What AllocPReg returns: the register it has spilled, or the first free one.
AllocPReg(q) == IF spilled # NoPReg THEN q = spilled ELSE IsFirst(q, FreeRegs)

\* It found no free register and spills the first candidate, once.
AllocSpill ==
  /\ SrcNeedsReg \/ DstNeedsReg
  /\ spilled = NoPReg
  /\ FreeRegs = {}
  /\ \E q \in PRegs : /\ IsFirst(q, Target)
                      /\ NeedsSlot(p2v[q]) => ~FrameFull(p2v[q])
                      /\ SpillReg(q)
                      /\ spilled' = q
  /\ UNCHANGED insvars

-----------------------------------------------------------------------------
(* The visitor starts on the next instruction of the list.  A local is     *)
(* defined before it is used and used only in the block that defines it.   *)

Begin(i) ==
  /\ phase = "next"
  /\ \A k \in 1 .. 2 : Src(i, k) \in Locals => life[Src(i, k)] = "live"
  /\ i.dst \in Locals => life[i.dst] # "past"
  /\ ins' = i
  /\ todo' = RaOrder(i.op)
  /\ phase' = CASE i.op = "hcall" -> "spill"
                [] i.op \in {"br", "gbr"} -> "release"
                [] OTHER -> "src"
  /\ UNCHANGED <<ravars, avoid, opr, machine, spilled>>

-----------------------------------------------------------------------------
(* AllocOp: the sources *)

SrcDone(q) ==
  /\ avoid' = avoid \cup {q}
  /\ opr' = [opr EXCEPT ![Head(todo)] = q]
  /\ todo' = Tail(todo)
  /\ UNCHANGED <<ins, phase>>

SrcNotReg ==
  /\ phase = "src"
  /\ todo # <<>>
  /\ CurSrc \notin VRegs
  /\ todo' = Tail(todo)
  /\ UNCHANGED <<ravars, ins, avoid, opr, phase, machine, spilled>>

SrcInReg ==
  /\ phase = "src"
  /\ todo # <<>>
  /\ CurSrc \in VRegs
  /\ loc[CurSrc] = "REG"
  /\ p[CurSrc] \in CurCt
  /\ SrcDone(p[CurSrc])
  /\ UNCHANGED <<ravars, machine, spilled>>

\* Fill: the assertion of EmitFill wants a slot.
SrcFill ==
  /\ SrcNeedsReg
  /\ loc[CurSrc] = "MEM"
  /\ CurSrc \in Locals => spill_offs[CurSrc] # NO_SPILL
  /\ \E q \in PRegs :
       /\ AllocPReg(q)
       /\ p' = [p EXCEPT ![CurSrc] = q]
       /\ loc' = [loc EXCEPT ![CurSrc] = "REG"]
       /\ p2v' = [p2v EXCEPT ![q] = CurSrc]
       /\ spill_synced' = [spill_synced EXCEPT ![CurSrc] = TRUE]
       /\ reg' = [reg EXCEPT ![q] = IF CurSrc \in home THEN CurSrc ELSE Junk]
       /\ SrcDone(q)
  /\ spilled' = NoPReg
  /\ UNCHANGED <<spill_offs, frame_cur, home, life>>

\* A copy into the constrained register; p2v does not record it.
SrcCopy ==
  /\ SrcNeedsReg
  /\ loc[CurSrc] = "REG"
  /\ \E q \in PRegs :
       /\ AllocPReg(q)
       /\ reg' = [reg EXCEPT ![q] = reg[p[CurSrc]]]
       /\ SrcDone(q)
  /\ spilled' = NoPReg
  /\ UNCHANGED <<ravars, home, life>>

\* Mutant: only loads are treated as side effects.
SrcsDoneLoads ==
  /\ phase = "src"
  /\ todo = <<>>
  /\ phase' = IF ins.op = "vmload" THEN "sync" ELSE "dst"
  /\ UNCHANGED <<ravars, ins, todo, avoid, opr, machine, spilled>>

SrcsDone ==
  /\ phase = "src"
  /\ todo = <<>>
  /\ phase' = IF ins.op \in SideeffOps THEN "sync" ELSE "dst"
  /\ UNCHANGED <<ravars, ins, todo, avoid, opr, machine, spilled>>

-----------------------------------------------------------------------------
(* AllocOp: side effects and the destination *)

\* Before a guest memory access, which may fault, CPUState is brought up to
\* date; registers stay allocated.
SyncGlobals ==
  /\ phase = "sync"
  /\ SyncSpill(Globals)
  /\ home' = HomeAfterSpill(Globals, spill_offs)
  /\ phase' = "dst"
  /\ UNCHANGED <<loc, p, spill_offs, p2v, frame_cur, ins, todo, avoid, opr, reg, life, spilled>>

DstNone ==
  /\ phase = "dst"
  /\ ins.op \notin DstOps
  /\ phase' = IF ins.op = "vmstore" THEN "emit" ELSE "release"
  /\ UNCHANGED <<ravars, ins, todo, avoid, opr, machine, spilled>>

DstDone(q) ==
  /\ spill_synced' = [spill_synced EXCEPT ![ins.dst] = FALSE]
  /\ avoid' = avoid \cup {q}
  /\ opr' = [opr EXCEPT ![0] = q]
  /\ phase' = "emit"
  /\ UNCHANGED <<ins, todo>>

\* Mutant: a result in its source's register is not marked dirty.
DstAliasSynced ==
  /\ phase = "dst"
  /\ ins.op \in AliasOps
  /\ avoid' = avoid \cup {p[ins.dst]}
  /\ opr' = [opr EXCEPT ![0] = p[ins.dst]]
  /\ phase' = "emit"
  /\ UNCHANGED <<ravars, ins, todo, machine, spilled>>

DstAlias ==
  /\ phase = "dst"
  /\ ins.op \in AliasOps
  /\ DstDone(p[ins.dst])
  /\ UNCHANGED <<loc, p, spill_offs, p2v, frame_cur, machine, spilled>>

\* The destination is renamed to a fresh register.
DstAlloc ==
  /\ DstNeedsReg
  /\ \E q \in PRegs :
       /\ AllocPReg(q)
       /\ p2v' = [r \in PRegs |->
                    IF r = q THEN ins.dst
                    ELSE IF loc[ins.dst] = "REG" /\ r = p[ins.dst] THEN NoReg
                    ELSE p2v[r]]
       /\ loc' = [loc EXCEPT ![ins.dst] = "REG"]
       /\ p' = [p EXCEPT ![ins.dst] = q]
       /\ DstDone(q)
  /\ spilled' = NoPReg
  /\ UNCHANGED <<spill_offs, frame_cur, machine>>

-----------------------------------------------------------------------------
(* CallOp and the boundaries *)

\* CallOp's loop: the first clobbered register that is taken.
Clobbered == {q \in CallClobber : p2v[q] # NoReg}

CallSpill ==
  /\ phase = "spill"
  /\ \E q \in PRegs : /\ IsFirst(q, Clobbered)
                      /\ NeedsSlot(p2v[q]) => ~FrameFull(p2v[q])
                      /\ SpillReg(q)
  /\ UNCHANGED <<insvars, spilled>>

CallSpilled ==
  /\ phase = "spill"
  /\ Clobbered = {}
  /\ phase' = "release"
  /\ UNCHANGED <<ravars, ins, todo, avoid, opr, machine, spilled>>

\* What BlockBoundary, RegionBoundary and the end of CallOp have in common:
\* every global is spilled; RegionBoundary also releases the locals.
ReleaseBoundary ==
  /\ phase = "release"
  /\ SyncSpill(Globals)
  /\ home' = HomeAfterSpill(Globals, spill_offs)
  /\ Release(IF ins.op \in RegionEndOps THEN VRegs ELSE Globals)
  /\ phase' = "emit"
  /\ UNCHANGED <<p, spill_offs, frame_cur, ins, todo, avoid, opr, reg, life, spilled>>

-----------------------------------------------------------------------------
(* The instruction executes.                                               *)

\* The visitor returns: the locals of AllocOp go out of scope.
VisitDone ==
  /\ ins' = NoInstr
  /\ todo' = <<>>
  /\ avoid' = Fixed
  /\ opr' = [k \in 0 .. 2 |-> NoPReg]
  /\ phase' = "next"

EmitDst ==
  /\ phase = "emit"
  /\ ins.op \in DstOps
  /\ reg' = [q \in PRegs |-> IF q = opr[0] THEN ins.dst
                             ELSE IF reg[q] = ins.dst THEN Junk ELSE reg[q]]
  /\ home' = home \ {ins.dst}
  /\ life' = [v \in Locals |-> IF v = ins.dst THEN "live" ELSE life[v]]
  /\ VisitDone
  /\ UNCHANGED <<ravars, spilled>>

EmitStore ==
  /\ phase = "emit"
  /\ ins.op = "vmstore"
  /\ VisitDone
  /\ UNCHANGED <<ravars, machine, spilled>>

\* A runtime helper reads and writes CPUState and clobbers what the calling
\* convention lets it clobber.
EmitCall ==
  /\ phase = "emit"
  /\ ins.op = "hcall"
  /\ reg' = [q \in PRegs |-> IF q \in CallClobber \/ reg[q] \in Globals
                             THEN Junk ELSE reg[q]]
  /\ VisitDone
  /\ UNCHANGED <<ravars, home, life, spilled>>

\* The next block of the list may be reached from another block than the one
\* before it: it can rely on CPUState alone.
EmitBlockEnd ==
  /\ phase = "emit"
  /\ ins.op \in BlockEndOps \cup RegionEndOps
  /\ reg' = [q \in PRegs |-> Junk]
  /\ home' = home \cap Globals
  /\ life' = [v \in Locals |-> IF life[v] = "live" THEN "past" ELSE life[v]]
  /\ VisitDone
  /\ UNCHANGED <<ravars, spilled>>

-----------------------------------------------------------------------------
(* Where the pass gives up *)

\* A register must be spilled to a frame that is full.
FrameOverflow ==
  \E q \in PRegs :
    /\ \/ /\ SrcNeedsReg \/ DstNeedsReg
          /\ spilled = NoPReg /\ FreeRegs = {} /\ IsFirst(q, Target)
       \/ phase = "spill" /\ IsFirst(q, Clobbered)
    /\ NeedsSlot(p2v[q])
    /\ FrameFull(p2v[q])

\* AllocPReg has no candidate.
NoCandidate == (SrcNeedsReg \/ DstNeedsReg) /\ Target = {}

\* Fill of a source that was never defined or has no slot to be filled from.
BadSource ==
  /\ phase = "src" /\ todo # <<>>
  /\ \/ CurSrc \in VRegs /\ loc[CurSrc] = "DEAD"
     \/ CurSrc \in Locals /\ loc[CurSrc] = "MEM" /\ spill_offs[CurSrc] = NO_SPILL

\* Panic and the assertion of EmitFill abort the process.
Panic ==
  /\ FrameOverflow \/ NoCandidate \/ BadSource
  /\ phase' = "panic"
  /\ UNCHANGED <<ravars, ins, todo, avoid, opr, machine, spilled>>

Panicked == phase = "panic" /\ UNCHANGED vars

AllocSrc == AllocSpill \/ SrcNotReg \/ SrcInReg \/ SrcFill \/ SrcCopy \/ SrcsDone
AllocDst == SyncGlobals \/ DstNone \/ DstAlias \/ DstAlloc
CallOp == CallSpill \/ CallSpilled
Emit == EmitDst \/ EmitStore \/ EmitCall \/ EmitBlockEnd

Visit == AllocSrc \/ AllocDst \/ CallOp \/ ReleaseBoundary \/ Emit \/ Panic

Next == (\E i \in Instr : Begin(i)) \/ Visit \/ Panicked

Spec == Init /\ [][Next]_vars
-----------------------------------------------------------------------------
(* Properties *)

\* The values the code after this point still reads.  When an instruction is
\* about to execute its destination has a register but not yet a value, and
\* at the end of a block the locals are done with.
Needed ==
  IF phase # "emit" THEN Live
  ELSE IF ins.op \in BlockEndOps \cup RegionEndOps THEN Globals
  ELSE Live \ {ins.dst}

\* RTrack and p2v mirror each other.
TrackingMatches ==
  \A v \in VRegs, q \in PRegs :
    (p2v[q] = v) <=> (loc[v] = "REG" /\ p[v] = q)

FixedUntouched == \A q \in Fixed : p2v[q] = NoReg

ValuesWhereTracked ==
  \A v \in Needed :
    /\ loc[v] # "DEAD"
    /\ loc[v] = "REG" => reg[p[v]] = v
    /\ loc[v] = "REG" /\ spill_synced[v] => v \in home
    /\ loc[v] = "MEM" => v \in home

\* At every point of the pass what RTrack and p2v say of a value that is still
\* needed is true of the machine the code runs on: a value tracked in a
\* register is in that register, one marked synced or released to memory is
\* in its slot, no two share a register and fixed registers are never used.
TrackingSound == TrackingMatches /\ FixedUntouched /\ ValuesWhereTracked

\* The emitted instruction reads the current value of each of its sources,
\* from a register its constraint allows, and a two-address instruction
\* writes the register of its first source (the assertions of QEmit).
OperandsCurrent ==
  phase = "emit" =>
    /\ \A k \in 1 .. 2 : Src(ins, k) \in VRegs =>
         opr[k] \in SrcCt(ins.op, k) /\ reg[opr[k]] = Src(ins, k)
    /\ ins.op \in AliasOps => opr[0] = opr[1]
    /\ ins.op \in DstOps => opr[0] \in PRegs \ Fixed

\* CPUState in memory is the guest's state whenever the emitted code can leave
\* for code that reads it: a faulting access, a helper, another block.
GuestStateInMemory ==
  phase = "emit" /\ ins.op \notin {"mov", "binop", "shift", "setcc"} =>
    Globals \subseteq home

\* Spill slots of locals do not overlap and lie inside the frame.
FrameSlotsDisjoint ==
  /\ \A u, v \in Locals : u # v => ~Overlap(spill_offs, u, v)
  /\ \A v \in Locals : spill_offs[v] # NO_SPILL =>
       spill_offs[v] + VSize[v] <= FrameSize

\* The allocator aborts for one reason only, a spill frame too small for the
\* region's temporaries: a source is never dead or without a slot, and a
\* constraint always has a register left.
PanicMeansFrameFull ==
  phase = "panic" => \E v \in Locals : NeedsSlot(v) /\ FrameFull(v)
=============================================================================
