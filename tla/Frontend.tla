------------------------------ MODULE Frontend ------------------------------
(***************************************************************************)
(* One compilation, from the words of guest code to the layout of host     *)
(* code: CompilerDoJob (ir/compile.cpp) with the decoder, the translator   *)
(* (guest/rv32_qir.cpp), the passes over the IR lists (codegen/select.cpp, *)
(* codegen/regalloc.cpp) and the emission of blocks (codegen/qcg.cpp,      *)
(* codegen/emit.cpp), and then a run of the emitted code.                  *)
(*                                                                         *)
(* What an operation computes, which operands selection lowers and which   *)
(* registers are allocated is in Lowering and RegAlloc: here a pass puts   *)
(* up to MaxMovs movs in front of the instructions it visits.              *)
(***************************************************************************)
EXTENDS RV32Decode, QIR, RV32Asm

CONSTANTS
  Programs,      \* sequences of RV32Asm instructions
  Entry,         \* address of the first instruction
  TB_MAX_INSNS,  \* 64 in the code
  MaxMovs        \* bound on the movs one pass inserts

\* An address is the u32 of BitField: the code is on one side of 2^31, as a
\* page is.  Each instruction may take a temporary, whose number is a u16.
ASSUME FrontendAssumption ==
  /\ Entry \in MinInt .. MaxInt /\ Entry % 4 = 0
  /\ TB_MAX_INSNS \in Nat \ {0} /\ TB_MAX_INSNS <= 65504 /\ MaxMovs \in Nat
  /\ \A p \in Programs :
       /\ p \in Seq(Range(p)) /\ Len(p) > 0 /\ Entry + 4 * Len(p) <= MaxInt
       /\ \A k \in DOMAIN p : Wellformed(p[k])

VARIABLES
  prog,      \* the guest code from Entry to the boundary
  phase,     \* "translate", "select", "regalloc", "emit", "run", "left", "panic"
  insn_ip,
  insn,      \* the instruction decoded last
  R,         \* the region
  bb, it,    \* block and instruction a pass is at
  has_calls, \* MachineRegionInfo
  plan,      \* ghost: what the pass has to visit
  visited,   \* ghost: what it has visited
  code,      \* emitted host code
  pc,        \* position of the run in code
  cur        \* ghost: the guest instruction being run, and whether it branches

vars == <<prog, phase, insn_ip, insn, R, bb, it, has_calls, plan, visited, code, pc, cur>>

AsmAt(ip) == prog[(ip - Entry) \div 4 + 1]
BoundaryIp == Entry + 4 * Len(prog)

\* The block of an address, 0 for none (ip2bb).
ip2bb(ip) == IF ip = Entry THEN 1 ELSE 0

-----------------------------------------------------------------------------
(* Operands of the translator *)

IPOffs == 128     \* offsetof(CPUState, ip)
NumGlobals == 32  \* GlobalRegId::END: gpr 1 .. 31 and ip

vgpr(id, type) == MakeVGPR(type, id - 1)
vconst(n) == MakeConst(I32, n)
vtemp(reg) == MakeVGPR(I32, NumGlobals + reg.locals)

gprop(id, type) == IF id = 0 THEN MakeConst(type, 0) ELSE vgpr(id, type)

\* Table of the TRANSLATOR_* invocations: IR operation or condition code,
\* and the width and sign of an access.
ArithOps == {"addi", "xori", "ori", "andi"} \cup ShiftImmOps \cup (RegOps \ {"slt", "sltu"})
SetccOps == {"slt", "sltu", "slti", "sltiu"}

IrOp(op) ==
  CASE op = "addi" -> "add" [] op = "xori" -> "xor" [] op = "ori" -> "or"
    [] op = "andi" -> "and" [] op = "slli" -> "sll" [] op = "srli" -> "srl"
    [] op = "srai" -> "sra" [] OTHER -> op

Cc(op) ==
  CASE op = "beq" -> "EQ" [] op = "bne" -> "NE" [] op = "bge" -> "GE" [] op = "bgeu" -> "GEU"
    [] op \in {"blt", "slt", "slti"} -> "LT" [] op \in {"bltu", "sltu", "sltiu"} -> "LTU"

Access(op) ==
  <<CASE op \in {"lb", "lbu", "sb"} -> I8 [] op \in {"lh", "lhu", "sh"} -> I16 [] OTHER -> I32,
    op \in {"lb", "lh", "lw"}>>

-----------------------------------------------------------------------------
(* The translators V_*: the instructions created for i at ip.  t is the    *)
(* temporary vtemp would make.                                             *)

Second(i) ==
  IF Format(i.op) = "R" THEN gprop(i.rs2, I32) ELSE vconst(i.imm)

V_arith(i, ip) ==
  IF i.rd = 0 THEN <<>>
  ELSE <<Inst(IrOp(i.op), "none", <<vgpr(i.rd, I32), gprop(i.rs1, I32), Second(i)>>, ip)>>

V_setcc(i, ip) ==
  IF i.rd = 0 THEN <<>>
  ELSE <<Inst("setcc", Cc(i.op), <<vgpr(i.rd, I32), gprop(i.rs1, I32), Second(i)>>, ip)>>

MovTo(i, n, ip) ==
  IF i.rd = 0 THEN <<>> ELSE <<Inst("mov", "none", <<vgpr(i.rd, I32), vconst(n)>>, ip)>>

\* Mutant: nothing to add for an absolute address, though t is still read.
V_addrNotX0(i, ip, t) ==
  IF i.imm = 0 \/ i.rs1 = 0 THEN <<>>
  ELSE <<Inst("add", "none", <<t, gprop(i.rs1, I32), vconst(i.imm)>>, ip)>>

V_addr(i, ip, t) ==
  IF i.imm = 0 THEN <<>>
  ELSE <<Inst("add", "none", <<t, gprop(i.rs1, I32), vconst(i.imm)>>, ip)>>

V_access(i, ip, t) ==
  LET addr == IF i.imm = 0 THEN gprop(i.rs1, I32) ELSE t
      type == Access(i.op)[1]
  IN  V_addr(i, ip, t)
        \o IF i.op \in StoreOps
           THEN <<Inst("vmstore", Access(i.op), <<addr, gprop(i.rs2, type)>>, ip)>>
           ELSE <<Inst("vmload", Access(i.op),
                       <<IF i.rd = 0 THEN addr ELSE vgpr(i.rd, I32), addr>>, ip)>>

V_jalr(i, ip, t) ==
  <<Inst("add", "none", <<t, gprop(i.rs1, I32), vconst(i.imm)>>, ip),
    Inst("and", "none", <<t, t, vconst(-2)>>, ip)>>
    \o MovTo(i, ip + 4, ip) \o <<Inst("gbrind", "none", <<t>>, ip)>>

V_helper(i, ip, raw) == <<Inst("hcall", i.op, <<vconst(raw)>>, ip)>>

\* PreSideeff, when the flags of the operation ask for it.
PreSideeff(i, ip) ==
  IF FlagTrap(i.op) \/ FlagMayTrap(i.op)
  THEN <<Inst("mov", "none", <<MakeSlot(TRUE, I32, IPOffs), vconst(ip)>>, ip)>> ELSE <<>>

\* Everything but branches inside the region.
V_code(i, ip, t, raw) ==
  CASE i.op \in ArithOps -> V_arith(i, ip)
    [] i.op \in SetccOps -> V_setcc(i, ip)
    [] i.op = "lui" -> MovTo(i, i.imm, ip)
    [] i.op = "auipc" -> MovTo(i, AddU32(i.imm, ip), ip)
    [] i.op \in LoadOps \cup StoreOps -> V_access(i, ip, t)
    [] i.op = "jal" -> MovTo(i, ip + 4, ip)
    [] i.op = "jalr" -> V_jalr(i, ip, t)
    [] i.op \in HelperOps -> V_helper(i, ip, raw)
    [] OTHER -> <<>>

Temps(i) ==
  IF i.op = "jalr" \/ (i.op \in LoadOps \cup StoreOps /\ i.imm # 0) THEN 1 ELSE 0

\* InstGBr keeps its target outside the operand list.
Gbr(to, ip) == Inst("gbr", vconst(to), <<>>, ip)

\* MakeGBr at the end of block b, for guest instruction ip.
MakeGBr(reg, b, to, ip) ==
  IF ip2bb(to) # 0
  THEN AddSucc(Create(reg, -b, Inst("br", "none", <<>>, ip)), b, ip2bb(to))
  ELSE Create(reg, -b, Gbr(to, ip))

\* make_target of TranslateBrcc: a block that leaves for `to`.
MakeTarget(reg, to, ip) ==
  IF ip2bb(to) # 0 THEN reg
  ELSE LET made == CreateBlock(reg) IN Create(made, -NumBlocks(made), Gbr(to, ip))
TargetBlock(made, to) == IF ip2bb(to) # 0 THEN ip2bb(to) ELSE NumBlocks(made)

TranslateBrcc(reg, b, i, ip) ==
  LET jump == AddU32(ip, i.imm)
      withF == MakeTarget(reg, ip + 4, ip)
      withT == MakeTarget(withF, jump, ip)
      src == Create(withT, -b, Inst("brcc", Cc(i.op),
                                    <<gprop(i.rs1, I32), gprop(i.rs2, I32)>>, ip))
  IN  AddSucc(AddSucc(src, b, TargetBlock(withT, jump)), b, TargetBlock(withF, ip + 4))

TranslateBranch(made, b, i, ip) ==
  CASE i.op = "jal" -> MakeGBr(made, b, AddU32(ip, i.imm), ip)
    [] i.op \in BranchOps -> TranslateBrcc(made, b, i, ip)
    [] OTHER -> made

\* TranslateInsn: run the translator of i on block b.
TranslateInsn(reg, b, i, ip, raw) ==
  LET body == PreSideeff(i, ip) \o V_code(i, ip, vtemp(reg), raw)
  IN  TranslateBranch([CreateAll(reg, -b, body) EXCEPT !.locals = @ + Temps(i)],
                      b, i, ip)

-----------------------------------------------------------------------------
(* The compilation *)

NoInsn == [op |-> "none"]
Start == [at |-> Entry - 4, taken |-> FALSE]

Init ==
  /\ prog \in Programs
  /\ phase = "translate"
  /\ insn_ip = Entry
  /\ insn = NoInsn
  /\ R = CreateBlock(EmptyRegion)
  /\ bb = 1 /\ it = -1
  /\ has_calls = FALSE
  /\ plan = <<>> /\ visited = <<>>
  /\ code = <<>> /\ pc = 0 /\ cur = Start

\* for (auto &bb : region->GetBlocks()) from the first instruction on.
BeginPass(reg) ==
  /\ bb' = reg.bring.next[0]
  /\ it' = reg.ring.next[-reg.bring.next[0]]
  /\ plan' = AllCode(reg) /\ visited' = <<>>

\* The end of the range, at the boundary or at TB_MAX_INSNS.
RangeEnds(ip) == (ip - Entry) \div 4 = TB_MAX_INSNS \/ ip >= BoundaryIp

\* The word TranslateInsn reads.
Word == Assemble(AsmAt(insn_ip))

Stops(i) == FlagBranch(i.op) \/ FlagTrap(i.op)
Overflows(i) == ~Stops(i) /\ RangeEnds(insn_ip + 4)

\* An iteration of TranslateIPRange.
Translate ==
  /\ phase = "translate"
  /\ insn' = Insn(Word)
  /\ insn'.op # "illegal"
  /\ LET made == TranslateInsn(R, bb, insn', insn_ip, FieldS(Word, 0, 31))
     IN  R' = IF Overflows(insn') THEN MakeGBr(made, bb, insn_ip + 4, insn_ip) ELSE made
  /\ insn_ip' = insn_ip + 4
  /\ IF Stops(insn') \/ Overflows(insn')
     THEN phase' = "select" /\ BeginPass(R')
     ELSE UNCHANGED <<phase, bb, it, plan, visited>>
  /\ UNCHANGED <<prog, has_calls, code, pc, cur>>

\* TRANSLATOR_Unimpl(illegal): Panic.
TranslateIllegal ==
  /\ phase = "translate"
  /\ insn' = Insn(Word)
  /\ insn'.op = "illegal"
  /\ phase' = "panic"
  /\ UNCHANGED <<prog, insn_ip, R, bb, it, has_calls, plan, visited, code, pc, cur>>

-----------------------------------------------------------------------------
(* Passes over the lists *)

Passes == {"select", "regalloc"}

\* A mov made by a pass; its operands are in Lowering and RegAlloc.
PassMov(n) == Inst("mov", "none", <<vtemp(R), vconst(0)>>, R.insts[n].at)

Inserted == Len(AllCode(R)) - Len(plan)

\* Selection leaves jumps and calls alone; the register allocator spills in
\* front of everything.
MovsFor(n) ==
  IF phase = "select" /\ R.insts[n].op \in {"br", "gbr", "hcall"} THEN {0}
  ELSE 0 .. MaxMovs - Inserted

\* Mutant: the movs go behind the instruction.
InsertPointAfter(n) == R.ring.next[n]

\* Builder(&bb, iit)
InsertPoint(n) == n

\* Mutant: the last instruction decides.
FindsCallsLast(n) == IF phase = "select" THEN R.insts[n].op = "hcall" ELSE has_calls

\* Selection notes the flag HAS_CALLS of what it visits.
FindsCalls(n) == has_calls \/ (phase = "select" /\ R.insts[n].op = "hcall")

\* One iteration of the loop over a block.
PassVisit ==
  /\ phase \in Passes /\ it > 0
  /\ \E k \in MovsFor(it) :
       LET made == CreateAll(R, InsertPoint(it), [j \in 1 .. k |-> PassMov(it)])
       IN  /\ R' = made
           /\ it' = made.ring.next[it]
  /\ has_calls' = FindsCalls(it)
  /\ visited' = Append(visited, it)
  /\ UNCHANGED <<prog, phase, insn_ip, insn, bb, plan, code, pc, cur>>

NextBlock == R.bring.next[bb]

PassNextBlock ==
  /\ phase \in Passes \cup {"emit"} /\ it < 0 /\ NextBlock # 0
  /\ bb' = NextBlock
  /\ it' = R.ring.next[-NextBlock]
  /\ code' = IF phase = "emit" THEN Append(code, [k |-> "label", b |-> NextBlock]) ELSE code
  /\ UNCHANGED <<prog, phase, insn_ip, insn, R, has_calls, plan, visited, pc, cur>>

PassEnd ==
  /\ phase \in Passes /\ it < 0 /\ NextBlock = 0
  /\ BeginPass(R)
  /\ phase' = IF phase = "select" THEN "regalloc" ELSE "emit"
  /\ code' = IF phase = "select" THEN code ELSE <<[k |-> "label", b |-> bb']>>
  /\ UNCHANGED <<prog, insn_ip, insn, R, has_calls, pc, cur>>

-----------------------------------------------------------------------------
(* Emission *)

Host(k, x) == [k |-> k, x |-> x, at |-> R.insts[it].at]

\* Mutant: the jump to the successor is always left out.
JumpUnlessNextNever(b) == <<>>

\* A jump is left out when its target is the next block of the list.
JumpUnlessNext(b) == IF b = NextBlock THEN <<>> ELSE <<Host("jmp", b)>>

\* QEmit::Emit_*, of which only control is kept.
HostCode(i) ==
  LET succ == R.succs[bb]
  IN  CASE i.op = "br" -> JumpUnlessNext(succ[1])
        [] i.op = "brcc" -> <<Host("jcc", succ[1])>> \o JumpUnlessNext(succ[2])
        [] i.op = "gbr" -> <<Host("slot", GetConst(i.x))>>
        [] i.op = "gbrind" -> <<Host("brind", 0)>>
        [] i.op = "hcall" -> <<Host("call", i.x)>>
        [] OTHER -> <<Host("op", it)>>

\* Emit_hcall asserts that the region is no leaf: a run where it is would be
\* stuck here.
EmitInst ==
  /\ phase = "emit" /\ it > 0
  /\ R.insts[it].op = "hcall" => has_calls
  /\ code' = code \o HostCode(R.insts[it])
  /\ visited' = Append(visited, it)
  /\ it' = R.ring.next[it]
  /\ UNCHANGED <<prog, phase, insn_ip, insn, R, bb, has_calls, plan, pc, cur>>

EmitEnd ==
  /\ phase = "emit" /\ it < 0 /\ NextBlock = 0
  /\ phase' = "run"
  /\ pc' = 1
  /\ UNCHANGED <<prog, insn_ip, insn, R, bb, it, has_calls, plan, visited, code, cur>>

-----------------------------------------------------------------------------
(* A run of the emitted code *)

AtHost(ks) == phase = "run" /\ pc \in DOMAIN code /\ code[pc].k \in ks

Label(b) == CHOOSE k \in DOMAIN code : code[k].k = "label" /\ code[k].b = b

\* Another instruction at the address of cur keeps the choice of its branch.
Reached(h) == IF h.at = cur.at THEN cur ELSE [at |-> h.at, taken |-> FALSE]

GoTo(p, c) ==
  /\ pc' = p /\ cur' = c
  /\ UNCHANGED <<prog, phase, insn_ip, insn, R, bb, it, has_calls, plan, visited, code>>

Raises == {"ecall", "ebreak"}

RunLabel == AtHost({"label"}) /\ GoTo(pc + 1, IF code[pc].b = 1 THEN Start ELSE cur)

RunOp ==
  /\ AtHost({"op", "call"})
  /\ code[pc].k = "call" => code[pc].x \notin Raises
  /\ GoTo(pc + 1, Reached(code[pc]))

RunJmp == AtHost({"jmp"}) /\ GoTo(Label(code[pc].x), Reached(code[pc]))

RunJccTaken ==
  AtHost({"jcc"}) /\ GoTo(Label(code[pc].x), [at |-> code[pc].at, taken |-> TRUE])

RunJccNot == AtHost({"jcc"}) /\ GoTo(pc + 1, [at |-> code[pc].at, taken |-> FALSE])

\* A branch slot, an indirect branch or a helper that raises a trap.
Leave ==
  /\ AtHost({"slot", "brind", "call"})
  /\ code[pc].k = "call" => code[pc].x \in Raises
  /\ phase' = "left" /\ cur' = Reached(code[pc])
  /\ UNCHANGED <<prog, insn_ip, insn, R, bb, it, has_calls, plan, visited, code, pc>>

Finished == phase \in {"left", "panic"} /\ UNCHANGED vars

Next ==
  \/ Translate \/ TranslateIllegal
  \/ PassVisit \/ PassNextBlock \/ PassEnd \/ EmitInst \/ EmitEnd
  \/ RunLabel \/ RunOp \/ RunJmp \/ RunJccTaken \/ RunJccNot \/ Leave \/ Finished

Spec == Init /\ [][Next]_vars

-----------------------------------------------------------------------------
(* Properties *)

\* The decoder reads back what the assembler wrote: operation, registers and
\* every bit of the immediate, sign included; other words are illegal.
DecodeMatchesAsm ==
  insn # NoInsn =>
    LET a == AsmAt(IF phase = "panic" THEN insn_ip ELSE insn_ip - 4)
    IN  IF a.op = "illegal" THEN insn.op = "illegal" ELSE insn = a

Live == Range(AllCode(R))

\* The two directions of a ring agree on its nodes.
RingSound(r, nodes) ==
  \A n \in nodes : /\ {r.next[n], r.prev[n]} \subseteq nodes
                   /\ r.next[r.prev[n]] = n /\ r.prev[r.next[n]] = n

BlockEnds(i) ==
  i.op \in {"br", "brcc", "gbr", "gbrind"} \/ (i.op = "hcall" /\ i.x \in Raises)

Succs(i) == CASE i.op = "br" -> 1 [] i.op = "brcc" -> 2 [] OTHER -> 0

\* Inserting and folding while iterating leaves the lists whole: every block
\* and every instruction that was not folded away is on its list exactly
\* once, in both directions, and a finished block ends in the one instruction
\* that leaves it, with as many successors as that instruction uses.
ListsWhole ==
  /\ RingSound(R.bring, 0 .. NumBlocks(R))
  /\ RingSound(R.ring, Live \cup {-b : b \in 1 .. NumBlocks(R)})
  /\ IsInjective(AllCode(R))
  /\ \A n \in DOMAIN R.insts \ Live : FoldsTo(R.insts[n]) # <<>>
  /\ phase \notin {"translate", "panic"} =>
       \A b \in 1 .. NumBlocks(R) :
         LET c == Code(R, b)
             last == R.insts[c[Len(c)]]
         IN  /\ c # <<>> /\ BlockEnds(last)
             /\ Len(R.succs[b]) = Succs(last)
             /\ \A k \in 1 .. Len(c) - 1 : ~BlockEnds(R.insts[c[k]])

\* t has the elements of s, and any two of them in the order of s.
InOrder(s, t) ==
  /\ Range(s) \subseteq Range(t)
  /\ \A j, k \in DOMAIN s : j < k =>
       \E l \in DOMAIN t : t[l] = s[k] /\ \E i \in 1 .. l - 1 : t[i] = s[j]

\* A pass visits each instruction that was there when it began once and in
\* order, and nothing it inserted itself, and what it inserts stands in front
\* of the instruction it was inserted for.
VisitedOnceInOrder ==
  phase \in Passes \cup {"emit", "run"} =>
    /\ IsPrefix(visited, plan)
    /\ phase = "run" \/ (it < 0 /\ NextBlock = 0) => visited = plan
    /\ LET all == AllCode(R)
       IN  /\ InOrder(plan, all)
           /\ \A k \in DOMAIN all : all[k] \notin Range(plan) =>
                k < Len(all) /\ R.insts[all[k + 1]].at = R.insts[all[k]].at

\* Emission, which lays out the stack frame by has_calls, gets what is true
\* of the code it emits, the movs of the register allocator included.
CallsKnown ==
  phase \in {"emit", "run"} => (has_calls <=> \E n \in Live : R.insts[n].op = "hcall")

\* o holds the guest register r.
Holds(o, r) ==
  IF r = 0 THEN IsConst(o) /\ GetConst(o) = 0 ELSE IsVGPR(o) /\ GetVGPR(o) = r - 1

IsTemp(o) == IsVGPR(o) /\ GetVGPR(o) >= NumGlobals

OperandOf(o, a, ip) ==
  \/ IsTemp(o) \/ Holds(o, a.rs1) \/ Holds(o, a.rs2)
  \/ IsConst(o) /\ GetConst(o) \in {a.imm, ip, ip + 4, AddU32(ip, a.imm), -2}
  \/ IsConst(o) /\ a.op \in HelperOps
       /\ \A k \in 0 .. 31 : k \in Assemble(a) <=> BitOf(GetConst(o), k)

Writes == {"mov", "setcc", "vmload"} \cup {IrOp(op) : op \in ArithOps}

\* The operands of i, unpacked, name registers and constants of a: nothing but
\* rd, a temporary or, with the instruction's own address, CPUState::ip is
\* written.
OperandsFit(i, a) ==
  LET o == i.opr
      x0load == a.op \in LoadOps /\ a.rd = 0
  IN  /\ i.op \in Writes =>
           \/ IsTemp(o[1]) \/ x0load
           \/ a.rd # 0 /\ Holds(o[1], a.rd)
           \/ IsGSlot(o[1]) /\ GetSlotOffs(o[1]) = IPOffs /\ GetConst(o[2]) = i.at
      /\ \A k \in DOMAIN o : (k = 1 /\ i.op \in Writes) \/ OperandOf(o[k], a, i.at)
      /\ i.op = "vmstore" => Holds(o[2], a.rs2) /\ (a.imm = 0 => Holds(o[1], a.rs1))
      /\ i.op = "brcc" => Holds(o[1], a.rs1) /\ Holds(o[2], a.rs2)

\* Every instruction of the IR, before the passes rewrite it, has operands of
\* the guest instruction it was made for.
OperandsMatchAsm ==
  phase = "select" /\ visited = <<>> =>
    \A n \in Live : OperandsFit(R.insts[n], AsmAt(R.insts[n].at))

Reads(i) == {i.opr[k] : k \in {k \in DOMAIN i.opr : k > 1 \/ i.op \notin Writes}}

\* The register allocator drops its locals at the end of a block and takes a
\* block to begin with none.  The IR it gets from the translator allows that:
\* a block reads a temporary only after an instruction of its own has written
\* it, and no other block writes it.
LocalsStayInBlock ==
  phase = "select" /\ visited = <<>> =>
    \A b \in 1 .. NumBlocks(R) :
      LET c == Code(R, b)
          Sets(k, o) == R.insts[c[k]].op \in Writes /\ R.insts[c[k]].opr[1] = o
      IN  \A k \in DOMAIN c : \A o \in {o \in Range(R.insts[c[k]].opr) : IsTemp(o)} :
            /\ o \in Reads(R.insts[c[k]]) => \E j \in 1 .. k - 1 : Sets(j, o)
            /\ \A n \in Live \ Range(c) : R.insts[n].op \in Writes => R.insts[n].opr[1] # o

\* Where the guest goes from the instruction at ip.
GuestNext(ip, taken) ==
  LET a == AsmAt(ip)
  IN  IF a.op = "jal" \/ (a.op \in BranchOps /\ taken) THEN AddU32(ip, a.imm) ELSE ip + 4

\* Host code follows the guest's control flow whatever a branch decides: it
\* runs guest instructions in order, never runs past its end, comes back to
\* its first block only when the guest branches to Entry, leaves through a
\* slot for the guest's successor, indirectly for jalr only and by a trap for
\* ecall and ebreak only.
HostFlowMatchesGuest ==
  /\ phase = "run" =>
       /\ pc \in DOMAIN code
       /\ code[pc].k = "label" /\ code[pc].b = 1 /\ cur # Start =>
            GuestNext(cur.at, cur.taken) = Entry
       /\ code[pc].k # "label" => code[pc].at >= cur.at
  /\ phase = "left" =>
       CASE code[pc].k = "slot" -> code[pc].x = GuestNext(cur.at, cur.taken)
         [] code[pc].k = "brind" -> AsmAt(cur.at).op = "jalr"
         [] code[pc].k = "call" -> AsmAt(cur.at).op \in Raises
=============================================================================
