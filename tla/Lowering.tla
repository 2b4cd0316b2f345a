------------------------------ MODULE Lowering ------------------------------
(***************************************************************************)
(* The compiler's path from one guest instruction to two-address host      *)
(* operations: the translators of guest/rv32_qir.cpp, the folder that      *)
(* every created IR instruction passes through (ir/qir_opt.cpp), operand   *)
(* selection (codegen/select.cpp) against the constraint tables of         *)
(* codegen/arch_traits.cpp, and what the selected operations compute when  *)
(* emitted (codegen/emit.cpp).  The reference is the interpreter of        *)
(* guest/rv32_interp.cpp, which gives the meaning of the same instruction. *)
(*                                                                         *)
(* Words have WordBits bits.  Guest register r > 0 is virtual register r,  *)
(* temporary t is virtual register -t.  Traps and helpers are in Execute.  *)
(***************************************************************************)
EXTENDS Integers, Sequences

CONSTANTS
  WordBits,   \* 32 in the code; a multiple of 4
  Regs,       \* guest registers, 0 among them
  Words,      \* values the guest registers start with
  Imms,       \* immediates, as words
  Ip,         \* address of the instruction
  MemWords,   \* values guest memory may hold at the address of a load
  MaxTemps    \* bound on the temporaries the model has room for: 3 are enough

Pow2[n \in Nat] == IF n = 0 THEN 1 ELSE 2 * Pow2[n - 1]

WordSize == Pow2[WordBits]
Word == 0 .. WordSize - 1

ASSUME LoweringAssumption ==
  /\ WordBits \in Nat \ {0} /\ WordBits % 4 = 0
  /\ 0 \in Regs /\ Regs \subseteq Nat
  /\ Words \cup Imms \cup MemWords \cup {Ip} \subseteq Word
  /\ MaxTemps \in Nat /\ MaxTemps >= 3

-----------------------------------------------------------------------------
(* Arithmetic of u32, i32 and their narrow types *)

\* Widths of VType I8, I16 and I32.
Widths == {WordBits \div 4, WordBits \div 2, WordBits}

SignedOf(w, bits) == IF w >= Pow2[bits - 1] THEN w - Pow2[bits] ELSE w

i32(w) == SignedOf(w, WordBits)

\* Truncation to a width and extension back to a word.
Extend(w, bits, signed) ==
  LET n == w % Pow2[bits]
  IN  IF signed THEN SignedOf(n, bits) % WordSize ELSE n

\* The bitwise operators of C: the bits of the result, from the lowest up.
Bit(w, k) == (w \div Pow2[k]) % 2

BitFn(fn, x, y) ==
  CASE fn = "and" -> x * y
    [] fn = "or"  -> x + y - x * y
    [] fn = "xor" -> (x + y) % 2

Bits(fn, a, b) ==
  LET low[k \in Nat] ==
        IF k = 0 THEN 0 ELSE low[k - 1] + Pow2[k - 1] * BitFn(fn, Bit(a, k - 1), Bit(b, k - 1))
  IN  low[WordBits]

\* Shift counts are masked, by the code in the interpreter and by the host
\* in translated code.
Arith(fn, a, b) ==
  LET n == b % WordBits
  IN  CASE fn = "add" -> (a + b) % WordSize
        [] fn = "sub" -> (a - b) % WordSize
        [] fn \in {"and", "or", "xor"} -> Bits(fn, a, b)
        [] fn = "sll" -> (a * Pow2[n]) % WordSize
        [] fn = "srl" -> a \div Pow2[n]
        [] fn = "sra" -> (i32(a) \div Pow2[n]) % WordSize

Holds(cc, a, b) ==
  CASE cc = "EQ"  -> a = b
    [] cc = "NE"  -> a # b
    [] cc = "LT"  -> i32(a) < i32(b)
    [] cc = "GE"  -> i32(a) >= i32(b)
    [] cc = "LTU" -> a < b
    [] cc = "GEU" -> a >= b

Flag(b) == IF b THEN 1 ELSE 0

-----------------------------------------------------------------------------
(* Guest instructions, decoded *)

ShiftFns == {"sll", "srl", "sra"}
BinFns == {"add", "sub", "and", "or", "xor"} \cup ShiftFns

Insns ==
  [kind : {"arithRR"}, fn : BinFns, rd : Regs, rs1 : Regs, rs2 : Regs]
  \cup {i \in [kind : {"arithRI"}, fn : BinFns \ {"sub"}, rd : Regs, rs1 : Regs, imm : Imms] :
          i.fn \in ShiftFns => i.imm < WordBits}
  \cup [kind : {"setRR"}, cc : {"LT", "LTU"}, rd : Regs, rs1 : Regs, rs2 : Regs]
  \cup [kind : {"setRI"}, cc : {"LT", "LTU"}, rd : Regs, rs1 : Regs, imm : Imms]
  \cup [kind : {"lui", "auipc", "jal"}, rd : Regs, imm : Imms]
  \cup [kind : {"jalr"}, rd : Regs, rs1 : Regs, imm : Imms]
  \cup [kind : {"brcc"}, cc : {"EQ", "NE", "LT", "GE", "LTU", "GEU"},
        rs1 : Regs, rs2 : Regs, imm : Imms]
  \cup [kind : {"load"}, width : Widths, signed : BOOLEAN, rd : Regs, rs1 : Regs, imm : Imms]
  \cup [kind : {"store"}, width : Widths, rs1 : Regs, rs2 : Regs, imm : Imms]

-----------------------------------------------------------------------------
(* The interpreter: registers, access to memory and address after i *)

NoAccess == <<>>

\* HANDLER clears gpr[0] after every handler that has an rd.
SetReg(g, rd, w) == IF rd = 0 THEN g ELSE [g EXCEPT ![rd] = w]

Interp(i, g, m) ==
  LET next == (Ip + 4) % WordSize
      jump == (Ip + i.imm) % WordSize
      addr == (g[i.rs1] + i.imm) % WordSize
      to(w) == [gpr |-> SetReg(g, i.rd, w), access |-> NoAccess, ip |-> next]
  IN  CASE i.kind = "arithRR" -> to(Arith(i.fn, g[i.rs1], g[i.rs2]))
        [] i.kind = "arithRI" -> to(Arith(i.fn, g[i.rs1], i.imm))
        [] i.kind = "setRR"   -> to(Flag(Holds(i.cc, g[i.rs1], g[i.rs2])))
        [] i.kind = "setRI"   -> to(Flag(Holds(i.cc, g[i.rs1], i.imm)))
        [] i.kind = "lui"     -> to(i.imm)
        [] i.kind = "auipc"   -> to(jump)
        [] i.kind = "jal"     -> [to(next) EXCEPT !.ip = jump]
        [] i.kind = "jalr"    -> [to(next) EXCEPT !.ip = addr - (addr % 2)]
        [] i.kind = "brcc"    ->
             [gpr |-> g, access |-> NoAccess,
              ip |-> IF Holds(i.cc, g[i.rs1], g[i.rs2]) THEN jump ELSE next]
        [] i.kind = "load"    ->
             [to(Extend(m, i.width, i.signed)) EXCEPT !.access = <<addr, i.width>>]
        [] i.kind = "store"   ->
             [gpr |-> g, ip |-> next,
              access |-> <<addr, i.width, g[i.rs2] % Pow2[i.width]>>]

-----------------------------------------------------------------------------
(* Operands and IR instructions *)

vconst(n) == [const |-> TRUE, n |-> n]
vreg(n) == [const |-> FALSE, n |-> n]
vtemp(t) == vreg(-t)
gprop(r) == IF r = 0 THEN vconst(0) ELSE vreg(r)
NoDst == vconst(0)

\* x is what the instruction carries beside its operands: a condition code,
\* a width and sign, branch targets.
Inst(op, x, dst, src) == [op |-> op, x |-> x, dst |-> dst, src |-> src]

Mov(dst, src) == Inst("mov", "none", dst, <<src>>)

\* PreSideeff stores the address of the instruction into CPUState::ip.
PreSideeff == Inst("saveip", "none", NoDst, <<>>)

\* The address of a load or store: rs1 itself, or a temporary for rs1 + imm.
AddrCode(i) ==
  IF i.imm = 0 THEN <<>>
  ELSE <<Inst("add", "none", vtemp(1), <<gprop(i.rs1), vconst(i.imm)>>)>>
AddrOpr(i) == IF i.imm = 0 THEN gprop(i.rs1) ELSE vtemp(1)
AddrTemps(i) == Flag(i.imm # 0)

\* Mutant: the destination of a load doubles as its address register.
TranslateLoadInPlace(i) ==
  <<PreSideeff>>
    \o (IF i.imm = 0 \/ i.rd = 0 THEN AddrCode(i)
        ELSE <<Inst("add", "none", vreg(i.rd), <<gprop(i.rs1), vconst(i.imm)>>)>>)
    \o <<Inst("vmload", <<i.width, i.signed>>,
              IF i.rd # 0 THEN vreg(i.rd) ELSE AddrOpr(i),
              <<IF i.rd # 0 /\ i.imm # 0 THEN vreg(i.rd) ELSE AddrOpr(i)>>)>>

\* A load to x0 still has to access memory; its result goes to the address.
TranslateLoad(i) ==
  <<PreSideeff>> \o AddrCode(i)
    \o <<Inst("vmload", <<i.width, i.signed>>,
              IF i.rd # 0 THEN vreg(i.rd) ELSE AddrOpr(i), <<AddrOpr(i)>>)>>

TranslateStore(i) ==
  <<PreSideeff>> \o AddrCode(i)
    \o <<Inst("vmstore", <<i.width>>, NoDst, <<AddrOpr(i), gprop(i.rs2)>>)>>

TranslateJalr(i) ==
  <<Inst("add", "none", vtemp(1), <<gprop(i.rs1), vconst(i.imm)>>),
    Inst("and", "none", vtemp(1), <<vtemp(1), vconst(WordSize - 2)>>)>>
    \o (IF i.rd = 0 THEN <<>> ELSE <<Mov(vreg(i.rd), vconst((Ip + 4) % WordSize))>>)
    \o <<Inst("gbrind", "none", NoDst, <<vtemp(1)>>)>>

\* The translators: the IR a guest instruction is turned into.
TranslateInsn(i) ==
  LET next == (Ip + 4) % WordSize
      jump == (Ip + i.imm) % WordSize
      to(ir) == IF i.rd = 0 THEN <<>> ELSE <<ir>>
  IN  CASE i.kind = "arithRR" ->
             to(Inst(i.fn, "none", vreg(i.rd), <<gprop(i.rs1), gprop(i.rs2)>>))
        [] i.kind = "arithRI" ->
             to(Inst(i.fn, "none", vreg(i.rd), <<gprop(i.rs1), vconst(i.imm)>>))
        [] i.kind = "setRR" ->
             to(Inst("setcc", i.cc, vreg(i.rd), <<gprop(i.rs1), gprop(i.rs2)>>))
        [] i.kind = "setRI" ->
             to(Inst("setcc", i.cc, vreg(i.rd), <<gprop(i.rs1), vconst(i.imm)>>))
        [] i.kind = "lui" -> to(Mov(vreg(i.rd), vconst(i.imm)))
        [] i.kind = "auipc" -> to(Mov(vreg(i.rd), vconst(jump)))
        [] i.kind = "jal" ->
             to(Mov(vreg(i.rd), vconst(next))) \o <<Inst("gbr", jump, NoDst, <<>>)>>
        [] i.kind = "jalr" -> TranslateJalr(i)
        [] i.kind = "brcc" ->
             <<Inst("brcc", <<i.cc, jump, next>>, NoDst, <<gprop(i.rs1), gprop(i.rs2)>>)>>
        [] i.kind = "load" -> TranslateLoad(i)
        [] i.kind = "store" -> TranslateStore(i)

\* Calls of vtemp in the translator.
TranslatorTemps(i) ==
  CASE i.kind = "jalr" -> 1
    [] i.kind \in {"load", "store"} -> AddrTemps(i)
    [] OTHER -> 0

\* FolderVisitor::visit_add, the only folding there is.
Fold(i) ==
  LET s == IF i.src[1].const THEN <<i.src[2], i.src[1]>> ELSE i.src
  IN  CASE i.op # "add" -> i
        [] i.op = "add" /\ i.src[1].const /\ i.src[2].const ->
             Mov(i.dst, vconst((i.src[1].n + i.src[2].n) % WordSize))
        [] i.op = "add" /\ ~s[1].const /\ s[2] = vconst(0) -> Mov(i.dst, s[1])
        [] OTHER -> [i EXCEPT !.src = s]

-----------------------------------------------------------------------------
(* Operand selection *)

\* RACtImm of source k: the immediates the host operation can encode.
ImmCt(op, k) ==
  CASE op \in {"mov"} -> "ANY"
    [] op = "vmload" -> "U32"
    [] op = "vmstore" -> IF k = 1 THEN "ANY" ELSE "NO"
    [] op = "and" -> IF k = 1 THEN "NO" ELSE "U32"
    [] op \in ShiftFns -> IF k = 1 THEN "NO" ELSE "ANY"
    [] op \in {"add", "sub", "or", "xor", "setcc", "brcc"} ->
         IF k = 1 THEN "NO" ELSE "S32"
    [] OTHER -> "NO"

\* Mutant: immediates are never folded into the operation.
EncodableNever(op, k, n) == FALSE

\* Mutant: every operation that takes an immediate takes any.
EncodableAny(op, k, n) == ImmCt(op, k) # "NO"

\* match_gp_const.  A constant is zero-extended to 64 bits, so one with the
\* top bit set is not an S32.
Encodable(op, k, n) ==
  \/ ImmCt(op, k) \in {"ANY", "U32"}
  \/ ImmCt(op, k) = "S32" /\ n < Pow2[WordBits - 1]

\* Mutant: a second source that is the destination is overwritten.
LiveInputNever(i) == FALSE

\* The destination is also read by the second source.
LiveInput(i) == i.src[2] = i.dst

\* Two-address form: the first source becomes the destination.
InForm(i) == i.op \notin BinFns \/ i.src[1] = i.dst

AliasCode(i, t) ==
  IF InForm(i) THEN <<>>
  ELSE (IF LiveInput(i) THEN <<Mov(vtemp(t + 1), i.dst)>> ELSE <<>>) \o <<Mov(i.dst, i.src[1])>>

Aliased(i, t) ==
  IF InForm(i) THEN i
  ELSE [i EXCEPT !.src = <<i.dst, IF LiveInput(i) THEN vtemp(t + 1) ELSE i.src[2]>>]

AliasTemps(i) == Flag(~InForm(i) /\ LiveInput(i))

\* Sources of i that must be put into a register.
Lowered(i) ==
  {k \in DOMAIN i.src : i.src[k].const /\ ~Encodable(i.op, k, i.src[k].n)}

LowerTemp(i, k, t) == vtemp(t + (IF k = 2 /\ 1 \in Lowered(i) THEN 2 ELSE 1))

ConstCode(i, t) ==
  LET mov(k) == IF k \in Lowered(i) THEN <<Mov(LowerTemp(i, k, t), i.src[k])>> ELSE <<>>
  IN  mov(1) \o mov(2)
        \o <<[i EXCEPT !.src = [k \in DOMAIN i.src |->
                IF k \in Lowered(i) THEN LowerTemp(i, k, t) ELSE i.src[k]]]>>

\* QSel::SelectOperands with t temporaries already made.
Selected(i, t) == AliasCode(i, t) \o ConstCode(Aliased(i, t), t + AliasTemps(i))

SelectedTemps(i, t) ==
  LET l == Lowered(Aliased(i, t)) IN AliasTemps(i) + Flag(1 \in l) + Flag(2 \in l)

-----------------------------------------------------------------------------
VARIABLES
  insn,     \* the guest instruction
  gpr0,     \* guest registers before it
  mem,      \* what guest memory holds at its address
  stage,    \* "translate", "select", "run", "done" or "bad"
  ir,       \* IR not yet selected
  host,     \* selected operations not yet executed
  ntemps,   \* temporaries created
  v,        \* values of the virtual registers
  state_ip, \* CPUState::ip, -1 until it is stored
  access,   \* the access made to guest memory
  next_ip   \* where control goes

vars == <<insn, gpr0, mem, stage, ir, host, ntemps, v, state_ip, access, next_ip>>

GRegs == Regs \ {0}
VRegs == GRegs \cup {-t : t \in 1 .. MaxTemps}
Undef == -1

\* Registers and immediates stay words of the guest's width through folding,
\* selection and execution, and the temporaries stay within their bound.
TypeOK ==
  /\ insn \in Insns
  /\ gpr0 \in [Regs -> Word]
  /\ mem \in Word
  /\ stage \in {"translate", "select", "run", "done", "bad"}
  /\ ntemps \in 0 .. MaxTemps
  /\ v \in [VRegs -> Word \cup {Undef}]
  /\ state_ip \in Word \cup {Undef}
  /\ next_ip \in Word

Init ==
  /\ insn \in Insns
  /\ gpr0 \in {g \in [Regs -> Words \cup {0}] : g[0] = 0}
  /\ mem \in IF insn.kind = "load" THEN MemWords ELSE {0}
  /\ stage = "translate"
  /\ ir = <<>>
  /\ host = <<>>
  /\ ntemps = 0
  /\ v = [r \in VRegs |-> IF r > 0 THEN gpr0[r] ELSE Undef]
  /\ state_ip = Undef
  /\ access = NoAccess
  /\ next_ip = (Ip + 4) % WordSize

Translate ==
  /\ stage = "translate"
  /\ LET code == TranslateInsn(insn)
     IN  ir' = [k \in DOMAIN code |-> Fold(code[k])]
  /\ ntemps' = TranslatorTemps(insn)
  /\ stage' = "select"
  /\ UNCHANGED <<insn, gpr0, mem, host, v, state_ip, access, next_ip>>

Select ==
  /\ stage = "select"
  /\ ir # <<>>
  /\ host' = host \o Selected(Head(ir), ntemps)
  /\ ntemps' = ntemps + SelectedTemps(Head(ir), ntemps)
  /\ ir' = Tail(ir)
  /\ UNCHANGED <<insn, gpr0, mem, stage, v, state_ip, access, next_ip>>

SelectEnd ==
  /\ stage = "select"
  /\ ir = <<>>
  /\ stage' = "run"
  /\ UNCHANGED <<insn, gpr0, mem, ir, host, ntemps, v, state_ip, access, next_ip>>

-----------------------------------------------------------------------------
(* Execution of the selected operations *)

At(ops) == stage = "run" /\ host # <<>> /\ Head(host).op \in ops

Op == Head(host)

ValueOf(o) == IF o.const THEN o.n ELSE v[o.n]

SrcVal(k) == ValueOf(Op.src[k])

Step == host' = Tail(host) /\ UNCHANGED <<insn, gpr0, mem, ir, ntemps>>

Result(w) ==
  /\ v' = [v EXCEPT ![Op.dst.n] = w]
  /\ Step
  /\ UNCHANGED <<stage, state_ip, next_ip>>

\* EmitInstBinop works on the destination in place.
RunArith ==
  /\ At(BinFns)
  /\ Result(Arith(Op.op, v[Op.dst.n], SrcVal(2)))
  /\ UNCHANGED access

RunMov == At({"mov"}) /\ Result(SrcVal(1)) /\ UNCHANGED access

RunSetcc ==
  /\ At({"setcc"})
  /\ Result(Flag(Holds(Op.x, SrcVal(1), SrcVal(2))))
  /\ UNCHANGED access

RunSaveIp ==
  /\ At({"saveip"})
  /\ state_ip' = Ip
  /\ Step
  /\ UNCHANGED <<stage, v, access, next_ip>>

RunLoad ==
  /\ At({"vmload"})
  /\ ~Op.dst.const
  /\ access' = <<SrcVal(1), Op.x[1]>>
  /\ Result(Extend(mem, Op.x[1], Op.x[2]))

\* A load whose destination is a constant: the register allocator leaves it
\* alone and the emitter asserts that it is a register.
RunLoadNoDst ==
  /\ At({"vmload"})
  /\ Op.dst.const
  /\ stage' = "bad"
  /\ Step
  /\ UNCHANGED <<v, state_ip, access, next_ip>>

RunStore ==
  /\ At({"vmstore"})
  /\ access' = <<SrcVal(1), Op.x[1], SrcVal(2) % Pow2[Op.x[1]]>>
  /\ Step
  /\ UNCHANGED <<stage, v, state_ip, next_ip>>

RunBranch ==
  /\ At({"gbr", "gbrind", "brcc"})
  /\ next_ip' = CASE Op.op = "gbr" -> Op.x
                  [] Op.op = "gbrind" -> SrcVal(1)
                  [] Op.op = "brcc" -> IF Holds(Op.x[1], SrcVal(1), SrcVal(2))
                                       THEN Op.x[2] ELSE Op.x[3]
  /\ Step
  /\ UNCHANGED <<stage, v, state_ip, access>>

RunEnd ==
  /\ stage = "run"
  /\ host = <<>>
  /\ stage' = "done"
  /\ UNCHANGED <<insn, gpr0, mem, ir, host, ntemps, v, state_ip, access, next_ip>>

Finished == stage \in {"done", "bad"} /\ UNCHANGED vars

Next ==
  \/ Translate \/ Select \/ SelectEnd
  \/ RunArith \/ RunMov \/ RunSetcc \/ RunSaveIp \/ RunLoad \/ RunLoadNoDst
  \/ RunStore \/ RunBranch \/ RunEnd \/ Finished

Spec == Init /\ [][Next]_vars

-----------------------------------------------------------------------------
(* Properties *)

\* The guest registers as translated code sees them.
Gpr == [r \in Regs |-> IF r = 0 THEN 0 ELSE v[r]]

LoadToX0 == insn.kind = "load" /\ insn.rd = 0 /\ insn.imm = 0

\* Targets the interpreter refuses with UNALIGNED_IP; the translator has a
\* TODO where it would.
Unaligned == Interp(insn, gpr0, mem).ip % 4 # 0

\* Translated code and interpreter agree on every instruction: registers,
\* the access to guest memory and the address of the next instruction,
\* whatever registers coincide and whatever constants are folded or lowered.
\* No other instruction runs into an assertion of the emitter.  Loads to x0
\* are the subject of X0LoadHarmless.
LoweringCorrect ==
  stage \in {"done", "bad"} /\ ~LoadToX0 /\ ~Unaligned =>
    /\ stage = "done"
    /\ [gpr |-> Gpr, access |-> access, ip |-> next_ip] = Interp(insn, gpr0, mem)

\* An access that faults leaves the guest as it was before the instruction:
\* nothing but temporaries is written before it, and CPUState::ip is stored.
FaultPrecise ==
  At({"vmload", "vmstore"}) => Gpr = gpr0 /\ state_ip = Ip

\* Selection leaves only operations the host has: two-address arithmetic,
\* encodable immediates, and no temporary is read before it is written.
SelectionLegal ==
  stage = "run" =>
    \A k \in DOMAIN host :
      LET o == host[k]
      IN  /\ o.op \in BinFns => o.src[1] = o.dst
          /\ \A j \in DOMAIN o.src : o.src[j].const =>
               /\ ImmCt(o.op, j) # "NO"
               /\ ImmCt(o.op, j) = "S32" => i32(o.src[j].n) >= 0
          /\ \A j \in DOMAIN o.src : ~o.src[j].const =>
               v[o.src[j].n] # Undef \/ \E m \in 1 .. k - 1 : host[m].dst = o.src[j]

\* A guest instruction needs at most three temporaries.  With TB_MAX_INSNS
\* = 64 that is 192 of the 4 byte slots of a region, which the 1024 byte spill
\* frame holds, and 224 virtual registers, which the u8 counter of CallOp and
\* MAX_VREGS can count.
TempsBounded == ntemps <= 3

\* RISC-V, and the interpreter, discard the result of a load to x0.
X0LoadHarmless ==
  stage \in {"done", "bad"} /\ LoadToX0 => stage = "done" /\ Gpr = gpr0
=============================================================================
