------------------------------- MODULE Execute ------------------------------
(***************************************************************************)
(* The emulator's run time: the dispatch loop (execute.cpp), the           *)
(* translator's loop over a block (rv32_qir.cpp), the translated code      *)
(* (emit.cpp), the stubs it calls to link direct branches and to resolve   *)
(* indirect ones (jitabi.cpp), and the environment that handles traps      *)
(* (env.cpp), over the translation cache of module TCache.                 *)
(*                                                                         *)
(* pc is where the one host thread is:                                     *)
(*   "loop"      head of the while loop of dbt::Execute                    *)
(*   "translate" TranslateIPRange, about to translate one instruction      *)
(*   "emit"      GenerateCode and AnnounceRegion                           *)
(*   "enter"     a block is found: link or cache it, then the trampoline   *)
(*   "jit"       translated code, at instruction pos of block cur          *)
(*   "slot"      executing the branch slot "slot" of a block               *)
(*   "brind"     the inlined indirect-branch lookup, target tgt            *)
(*   "brindstub" its slow path, qcgstub_brind                              *)
(*   "env"       env::Execute, handling trapno                             *)
(*   "done"      env::Execute returned                                     *)
(*   "aborted"   the process died in Panic, an assertion or a host fault   *)
(***************************************************************************)
EXTENDS TCache

VARIABLES
  pc,
  ip,           \* CPUState::ip, only precise where the code needs it
  trapno,       \* CPUState::trapno
  x,            \* the modelled guest register
  code,         \* guest memory, as instructions
  fetchable,    \* history: what RISC-V lets a fetch return (GuestMachine)
  job,          \* the region being translated
  cur, pos,     \* block being executed and position in it
  slot,         \* branch slot being executed
  branch_slot,  \* local of dbt::Execute: slot to link on entry
  tgt,          \* target of the indirect branch being resolved
  abort         \* why the process died

cpuvars == <<ip, trapno, x>>
guestvars == <<code, fetchable>>
ctlvars == <<job, cur, pos, slot, branch_slot, tgt, abort>>
vars == <<pc, cpuvars, guestvars, ctlvars, tcvars>>

NoSlot == <<0, 0>>
NoJob == [ip |-> 0, upper |-> 0, insns |-> <<>>]

PCs == {"loop", "translate", "emit", "enter", "jit", "slot", "brind",
        "brindstub", "env", "done", "aborted"}

TrapCodes == {"NONE", "ECALL", "EBREAK", "TERMINATED"}

AbortReasons == {"none", "boundary", "fetch", "illegal", "pool", "memory",
                 "nulljump", "syscall"}

\* The emulator's state is well typed: ip, the pending job, the current block
\* and slot, and the pools, which MemArena::Allocate bounds.
TypeOK ==
  /\ TCacheTypeOK
  /\ pc \in PCs
  /\ ip \in Addr
  /\ trapno \in TrapCodes
  /\ x \in Val
  /\ code \in [Addr -> Insn]
  /\ fetchable \in [Addr -> SUBSET Insn]
  /\ job \in [ip : Addr, upper : Addr, insns : Seq(Insn)]
  /\ cur \in TBPtr
  /\ pos \in Nat
  /\ slot \in Slot \cup {NoSlot}
  /\ branch_slot \in Slot \cup {NoSlot}
  /\ tgt \in Addr
  /\ abort \in AbortReasons

\* BootElf and InitThread: the entry point, an empty cache, no trap.
Init ==
  /\ tcache_Init
  /\ pc = "loop"
  /\ ip \in Entries
  /\ trapno = "NONE"
  /\ x = 0
  /\ code \in Programs
  /\ fetchable = [a \in Addr |-> {code[a]}]
  /\ job = NoJob
  /\ cur = nullptr
  /\ pos = 0
  /\ slot = NoSlot
  /\ branch_slot = NoSlot
  /\ tgt = 0
  /\ abort = "none"

Abort(why) ==
  /\ pc' = "aborted"
  /\ abort' = why
  /\ cur' = nullptr
  /\ pos' = 0
  /\ UNCHANGED <<cpuvars, guestvars, job, slot, branch_slot, tgt, tcvars>>

\* Control enters the translated code of block t.
RunBlock(t) ==
  /\ pc' = "jit"
  /\ cur' = t
  /\ pos' = 1

-----------------------------------------------------------------------------
(* The dispatch loop *)

\* HandleTrap: a pending trap ends dbt::Execute, the environment takes over.
LoopTrap ==
  /\ pc = "loop"
  /\ trapno # "NONE"
  /\ pc' = "env"
  /\ UNCHANGED <<cpuvars, guestvars, ctlvars, tcvars>>

LoopHit ==
  /\ pc = "loop"
  /\ trapno = "NONE"
  /\ LookupResult(ip) # nullptr
  /\ LookupFill(ip)
  /\ cur' = LookupResult(ip)
  /\ pc' = "enter"
  /\ UNCHANGED <<cpuvars, guestvars, job, pos, slot, branch_slot, tgt, abort,
                 tbs, tb_used, code_used, tcache_map, l1_brind_cache, link,
                 link_map, segment_entries, brind_targets>>

\* Mutant: blocks that are already there do not bound a region.
IsBoundaryPage(u, a) == u = roundup(a)

\* GetCompilationIPRange: the end of the page or the next block above a.
IsBoundary(u, a) ==
  IF HasUpperBound(a)
  THEN \E v \in Addr : /\ IsUpperBound(v, a)
                       /\ u = IF roundup(a) <= v THEN roundup(a) ELSE v
  ELSE u = roundup(a)

LoopMiss ==
  /\ pc = "loop"
  /\ trapno = "NONE"
  /\ LookupResult(ip) = nullptr
  /\ \E u \in Addr :
       /\ IsBoundary(u, ip)
       /\ u # 0
       /\ job' = [ip |-> ip, upper |-> u, insns |-> <<>>]
  /\ pc' = "translate"
  /\ UNCHANGED <<cpuvars, guestvars, cur, pos, slot, branch_slot, tgt, abort,
                 tcvars>>

\* assert(boundary_ip != 0) at the head of TranslateIPRange.
LoopMissAssert ==
  /\ pc = "loop"
  /\ trapno = "NONE"
  /\ LookupResult(ip) = nullptr
  /\ IsBoundary(0, ip)
  /\ Abort("boundary")

-----------------------------------------------------------------------------
(* Translation of one region *)

InsnIp(j) == (j.ip + Len(j.insns)) % ASpace

\* Mutant: the boundary is not looked at.
RegionEndsUnbounded(j) ==
  \/ j.insns[Len(j.insns)].op \in ControlOps
  \/ Len(j.insns) = TB_MAX_INSNS

\* TranslateIPRange leaves its loop with these instructions translated.
RegionEnds(j) ==
  \/ j.insns[Len(j.insns)].op \in ControlOps
  \/ Len(j.insns) = TB_MAX_INSNS
  \/ InsnIp(j) >= j.upper

Translate ==
  /\ pc = "translate"
  /\ Mapped(InsnIp(job))
  /\ code[InsnIp(job)].op # "illegal"
  /\ job' = [job EXCEPT !.insns = Append(@, code[InsnIp(job)])]
  /\ pc' = IF RegionEnds(job') THEN "emit" ELSE "translate"
  /\ UNCHANGED <<cpuvars, guestvars, cur, pos, slot, branch_slot, tgt, abort,
                 tcvars>>

\* The translator reads guest memory itself: an unmapped page is a SIGSEGV.
TranslateFault ==
  /\ pc = "translate"
  /\ ~Mapped(InsnIp(job))
  /\ Abort("fetch")

TranslateIllegal ==
  /\ pc = "translate"
  /\ Mapped(InsnIp(job))
  /\ code[InsnIp(job)].op = "illegal"
  /\ Abort("illegal")

Emit ==
  /\ pc = "emit"
  /\ PoolsFit(Len(job.insns))
  /\ AnnounceRegion(job.ip, job.insns)
  /\ cur' = tb_used + 1
  /\ job' = NoJob
  /\ pc' = "enter"
  /\ UNCHANGED <<cpuvars, guestvars, pos, slot, branch_slot, tgt, abort,
                 l1_brind_cache, link, link_map, segment_entries,
                 brind_targets>>

EmitPoolFull ==
  /\ pc = "emit"
  /\ ~PoolsFit(Len(job.insns))
  /\ Abort("pool")

\* The branch that missed is linked to the block that is now there.
EnterLink ==
  /\ pc = "enter"
  /\ branch_slot # NoSlot
  /\ LinkSlot(branch_slot, cur)
  /\ branch_slot' = NoSlot
  /\ RunBlock(cur)
  /\ UNCHANGED <<cpuvars, guestvars, job, slot, tgt, abort, tbs, tb_used,
                 code_used, tcache_map, l1_cache, l1_brind_cache,
                 brind_targets>>

EnterBrind ==
  /\ pc = "enter"
  /\ branch_slot = NoSlot
  /\ CacheBrind(cur)
  /\ RunBlock(cur)
  /\ UNCHANGED <<cpuvars, guestvars, job, slot, branch_slot, tgt, abort, tbs,
                 tb_used, code_used, tcache_map, l1_cache, link, link_map,
                 segment_entries>>

-----------------------------------------------------------------------------
(* Translated code.  Instruction pos of block cur is executed; the host    *)
(* code of a block holds no trace of guest memory, so what is executed is  *)
(* what was translated.                                                    *)

CurInsn == tbs[cur].insns[pos]

CurIp == (tbs[cur].ip + pos - 1) % ASpace

AtInsn(op) ==
  /\ pc = "jit"
  /\ pos <= Len(tbs[cur].insns)
  /\ CurInsn.op = op

Advance ==
  /\ pos' = pos + 1
  /\ UNCHANGED <<pc, job, cur, slot, branch_slot, tgt, abort, tcvars>>

\* MakeGBr and make_target: a branch to the region's own entry is a jump
\* inside the host code, any other one a branch slot.
LeaveBy(s) ==
  /\ IF SlotGip(s) = tbs[cur].ip
     THEN /\ pos' = 1
          /\ UNCHANGED <<pc, cur, slot>>
     ELSE /\ pc' = "slot"
          /\ slot' = s
          /\ cur' = nullptr
          /\ pos' = 0
  /\ UNCHANGED <<guestvars, job, branch_slot, tgt, abort, tcvars>>

JitAlu ==
  /\ AtInsn("alu")
  /\ x' = AluResult(x)
  /\ Advance
  /\ UNCHANGED <<ip, trapno, guestvars>>

\* PreSideeff saves the address of the instruction before every access.
JitLoad ==
  /\ AtInsn("mem")
  /\ ip' = CurIp
  /\ x' \in Val
  /\ Advance
  /\ UNCHANGED <<trapno, guestvars>>

\* A store into code changes memory; no block is invalidated.
JitStoreCode(p) ==
  /\ AtInsn("mem")
  /\ ip' = CurIp
  /\ code' = [code EXCEPT ![p[1]] = p[2]]
  /\ fetchable' = [fetchable EXCEPT ![p[1]] = @ \cup {p[2]}]
  /\ Advance
  /\ UNCHANGED <<x, trapno>>

\* An access outside the mapped pages: the signal handler panics.
JitMemFault ==
  /\ AtInsn("mem")
  /\ Abort("memory")

\* The helper of fence and fence.i adds 4 to a state->ip that no PreSideeff
\* has set; neither helper does anything else.
JitFence ==
  /\ AtInsn("fence")
  /\ ip' = NextIp(ip)
  /\ Advance
  /\ UNCHANGED <<x, trapno, guestvars>>

JitFenceI ==
  /\ AtInsn("fencei")
  /\ ip' = NextIp(ip)
  /\ fetchable' = [a \in Addr |-> {code[a]}]
  /\ Advance
  /\ UNCHANGED <<x, trapno, code>>

JitJal ==
  /\ AtInsn("jal")
  /\ LeaveBy(<<cur, 0>>)
  /\ UNCHANGED cpuvars

\* Mutant: taken and not-taken successors are swapped.
JitBrccSwapped ==
  /\ AtInsn("brcc")
  /\ LeaveBy(<<cur, IF x = 0 THEN 0 ELSE 1>>)
  /\ UNCHANGED cpuvars

JitBrcc ==
  /\ AtInsn("brcc")
  /\ LeaveBy(<<cur, IF x = 0 THEN 1 ELSE 0>>)
  /\ UNCHANGED cpuvars

\* The block ended at its boundary: MakeGBr(insn_ip).
JitFallThrough ==
  /\ pc = "jit"
  /\ pos > Len(tbs[cur].insns)
  /\ LeaveBy(<<cur, 0>>)
  /\ UNCHANGED cpuvars

JitJalr ==
  /\ AtInsn("jalr")
  /\ tgt' = JumpTab[x]
  /\ pc' = "brind"
  /\ cur' = nullptr
  /\ pos' = 0
  /\ UNCHANGED <<cpuvars, guestvars, job, slot, branch_slot, abort, tcvars>>

\* ecall and ebreak: the helper raises the trap with siglongjmp, which
\* restarts dbt::Execute with a null branch_slot.
RaiseTrap(op, code_no) ==
  /\ AtInsn(op)
  /\ ip' = CurIp
  /\ trapno' = code_no
  /\ pc' = "loop"
  /\ cur' = nullptr
  /\ pos' = 0
  /\ branch_slot' = NoSlot
  /\ UNCHANGED <<x, guestvars, job, slot, tgt, abort, tcvars>>

JitEcall == RaiseTrap("ecall", "ECALL")

JitEbreak == RaiseTrap("ebreak", "EBREAK")

-----------------------------------------------------------------------------
(* Branch slots and their stub *)

SlotLinked ==
  /\ pc = "slot"
  /\ link[slot] # nullptr
  /\ RunBlock(link[slot])
  /\ slot' = NoSlot
  /\ UNCHANGED <<cpuvars, guestvars, job, branch_slot, tgt, abort, tcvars>>

\* TryLinkBranch finds the target: the slot is patched and control goes on.
SlotStubFound ==
  /\ pc = "slot"
  /\ link[slot] = nullptr
  /\ LookupResult(SlotGip(slot)) # nullptr
  /\ LookupFill(SlotGip(slot))
  /\ LinkSlot(slot, LookupResult(SlotGip(slot)))
  /\ RunBlock(LookupResult(SlotGip(slot)))
  /\ slot' = NoSlot
  /\ UNCHANGED <<cpuvars, guestvars, job, branch_slot, tgt, abort, tbs,
                 tb_used, code_used, tcache_map, l1_brind_cache,
                 brind_targets>>

\* Mutant: state->ip is left as the helpers left it.
SlotStubEscapeNoIp ==
  /\ pc = "slot"
  /\ link[slot] = nullptr
  /\ LookupResult(SlotGip(slot)) = nullptr
  /\ branch_slot' = slot
  /\ slot' = NoSlot
  /\ pc' = "loop"
  /\ UNCHANGED <<cpuvars, guestvars, job, cur, pos, tgt, abort, tcvars>>

\* Mutant: the escape is that of an indirect branch, without a slot.
SlotStubEscapeNoSlot ==
  /\ pc = "slot"
  /\ link[slot] = nullptr
  /\ LookupResult(SlotGip(slot)) = nullptr
  /\ ip' = SlotGip(slot)
  /\ branch_slot' = NoSlot
  /\ slot' = NoSlot
  /\ pc' = "loop"
  /\ UNCHANGED <<trapno, x, guestvars, job, cur, pos, tgt, abort, tcvars>>

\* It does not: escape to the dispatch loop with the slot in hand.
SlotStubEscape ==
  /\ pc = "slot"
  /\ link[slot] = nullptr
  /\ LookupResult(SlotGip(slot)) = nullptr
  /\ ip' = SlotGip(slot)
  /\ branch_slot' = slot
  /\ slot' = NoSlot
  /\ pc' = "loop"
  /\ UNCHANGED <<trapno, x, guestvars, job, cur, pos, tgt, abort, tcvars>>

-----------------------------------------------------------------------------
(* Indirect branches *)

BrindEntry == l1_brind_cache[l1hash(tgt)]

\* The inlined lookup compares the address only: an empty entry {0, nullptr}
\* is a hit for target 0.
BrindHit ==
  /\ pc = "brind"
  /\ BrindEntry.gip = tgt
  /\ BrindEntry.code # nullptr
  /\ RunBlock(BrindEntry.code)
  /\ tgt' = 0
  /\ UNCHANGED <<cpuvars, guestvars, job, slot, branch_slot, abort, tcvars>>

BrindNull ==
  /\ pc = "brind"
  /\ BrindEntry.gip = tgt
  /\ BrindEntry.code = nullptr
  /\ Abort("nulljump")

BrindMiss ==
  /\ pc = "brind"
  /\ BrindEntry.gip # tgt
  /\ pc' = "brindstub"
  /\ UNCHANGED <<cpuvars, guestvars, ctlvars, tcvars>>

BrindStubFound ==
  /\ pc = "brindstub"
  /\ LookupResult(tgt) # nullptr
  /\ ip' = tgt
  /\ LookupFill(tgt)
  /\ CacheBrind(LookupResult(tgt))
  /\ RunBlock(LookupResult(tgt))
  /\ tgt' = 0
  /\ UNCHANGED <<trapno, x, guestvars, job, slot, branch_slot, abort, tbs,
                 tb_used, code_used, tcache_map, link, link_map,
                 segment_entries>>

BrindStubEscape ==
  /\ pc = "brindstub"
  /\ LookupResult(tgt) = nullptr
  /\ ip' = tgt
  /\ branch_slot' = NoSlot
  /\ tgt' = 0
  /\ pc' = "loop"
  /\ UNCHANGED <<trapno, x, guestvars, job, cur, pos, slot, abort, tcvars>>

-----------------------------------------------------------------------------
(* The environment *)

\* A system call that returns: ip is advanced first, the result is stored,
\* and dbt::Execute starts again.
EnvSyscall ==
  /\ pc = "env"
  /\ trapno = "ECALL"
  /\ ip' = NextIp(ip)
  /\ trapno' = "NONE"
  /\ x' \in Val
  /\ pc' = "loop"
  /\ UNCHANGED <<guestvars, ctlvars, tcvars>>

EnvExit ==
  /\ pc = "env"
  /\ trapno = "ECALL"
  /\ ip' = NextIp(ip)
  /\ trapno' = "TERMINATED"
  /\ pc' = "done"
  /\ UNCHANGED <<x, guestvars, ctlvars, tcvars>>

EnvUnhandled ==
  /\ pc = "env"
  /\ trapno = "ECALL"
  /\ Abort("syscall")

EnvBreak ==
  /\ pc = "env"
  /\ trapno = "EBREAK"
  /\ pc' = "done"
  /\ UNCHANGED <<cpuvars, guestvars, ctlvars, tcvars>>

\* The process is gone.
Stopped ==
  /\ pc \in {"done", "aborted"}
  /\ UNCHANGED vars

-----------------------------------------------------------------------------
Dispatch ==
  \/ LoopTrap \/ LoopHit \/ LoopMiss \/ LoopMissAssert
  \/ Translate \/ TranslateFault \/ TranslateIllegal
  \/ Emit \/ EmitPoolFull \/ EnterLink \/ EnterBrind
  \/ SlotLinked \/ SlotStubFound \/ SlotStubEscape
  \/ BrindHit \/ BrindNull \/ BrindMiss \/ BrindStubFound \/ BrindStubEscape

Jit ==
  \/ JitAlu \/ JitLoad \/ JitMemFault \/ JitFence \/ JitFenceI \/ JitJal
  \/ JitBrcc \/ JitFallThrough \/ JitJalr \/ JitEcall \/ JitEbreak
  \/ \E p \in Patches : JitStoreCode(p)

Env == EnvSyscall \/ EnvExit \/ EnvUnhandled \/ EnvBreak

Next == Dispatch \/ Jit \/ Env \/ Stopped

Spec == Init /\ [][Next]_vars

-----------------------------------------------------------------------------
(* Properties *)

\* Every way to find a block leads to the one translation of that address:
\* the map, both L1 caches and every patched branch slot agree.  A stale or
\* misfiled entry would run the code of another address.
CacheCoherent ==
  /\ \A a \in Addr : tcache_map[a] # nullptr =>
       tcache_map[a] \in Allocated /\ tbs[tcache_map[a]].ip = a
  /\ \A h \in Hash : l1_cache[h] # nullptr =>
       \E a \in Addr : l1hash(a) = h /\ tcache_map[a] = l1_cache[h]
  /\ \A h \in Hash : l1_brind_cache[h].code # nullptr =>
       /\ l1hash(l1_brind_cache[h].gip) = h
       /\ tcache_map[l1_brind_cache[h].gip] = l1_brind_cache[h].code
  /\ \A s \in Linked : tcache_map[SlotGip(s)] = link[s]

\* No address is translated twice: each allocated block is the map's block
\* for its address, so none is unreachable and no pool space is wasted.
OneTranslationPerIp ==
  \A t \in Allocated : tcache_map[tbs[t].ip] = t

\* A region stays on the page of its entry (the segment cross_segment is
\* computed from), does not pass TB_MAX_INSNS and leaves at its first
\* control instruction.
RegionInPage ==
  \A t \in Allocated :
    LET n == Len(tbs[t].insns)
    IN  /\ n \in 1 .. TB_MAX_INSNS
        /\ rounddown(tbs[t].ip) = rounddown(tbs[t].ip + n - 1)
        /\ \A i \in 1 .. n - 1 : tbs[t].insns[i].op \notin ControlOps

\* A region stops where an earlier region starts: it never repeats the entry
\* of a block that was in the map when it was translated.
StopsAtEarlierEntry ==
  \A t, u \in Allocated :
    u < t => ~ (/\ tbs[u].ip > tbs[t].ip
                /\ tbs[u].ip < tbs[t].ip + Len(tbs[t].insns))

\* link_map holds exactly the patched slots under the address of their
\* target, which is what InvalidatePage needs to undo them; a block entered
\* from another page is flagged.
LinksRecorded ==
  /\ link_map = {<<SlotGip(s), s>> : s \in Linked}
  /\ segment_entries = {link[s] : s \in {r \in Linked : CrossSegment(r)}}

\* The assertion at the head of the dispatch loop: a slot that is waiting to
\* be linked leads to state->ip, whatever the helpers left in ip before; and
\* the slot is not linked yet.
BranchSlotMatchesIp ==
  branch_slot # NoSlot =>
    /\ SlotGip(branch_slot) = ip
    /\ link[branch_slot] = nullptr
    /\ trapno = "NONE"

\* The translator's assertion on its boundary fires only for addresses that
\* could not be fetched anyway.
BoundaryAssertHolds == abort = "boundary" => ~Mapped(ip)

\* Host code that other code may already point to never changes its meaning:
\* blocks, map entries and patched slots are write-once.
TranslationStable ==
  [][/\ \A t \in Allocated : tbs'[t] = tbs[t]
     /\ \A a \in Addr : tcache_map[a] # nullptr =>
          tcache_map'[a] = tcache_map[a]
     /\ \A s \in Linked : link'[s] = link[s]]_vars

\* The instruction executed next is one the guest may fetch there.
FetchCoherent ==
  pc = "jit" /\ pos <= Len(tbs[cur].insns) => CurInsn \in fetchable[CurIp]

\* A direct branch that was executed once is linked: either its stub finds
\* the target, or the slot goes with the escape to the dispatch loop, through
\* lookup and translation, to BranchSlot::Link.  A slot that is lost on the
\* way costs a pass through the dispatcher and changes no result.
BranchesGetLinked ==
  \A s \in Slot :
    (pc = "slot" /\ slot = s) ~> (link[s] # nullptr \/ pc = "aborted")

-----------------------------------------------------------------------------
(* Refinement: the emulator is a hart *)

GuestIp ==
  CASE pc = "jit"                              -> CurIp
    [] pc = "slot"                             -> SlotGip(slot)
    [] pc \in {"brind", "brindstub"}           -> tgt
    [] pc = "enter"                            -> tbs[cur].ip
    [] pc \in {"loop", "translate", "emit", "env"} -> ip
    [] OTHER                                   -> 0

GuestStatus ==
  CASE pc = "done"    -> "exited"
    [] pc = "aborted" -> IF abort = "pool" THEN "exhausted" ELSE "failed"
    [] OTHER          -> "running"

G == INSTANCE GuestMachine WITH gip <- GuestIp, status <- GuestStatus

\* Every behaviour of the emulator executes the guest's instructions one by
\* one in program order, whatever mixture of cache hits, linked branches,
\* stubs and traps it takes to get from one to the next; it dies only for a
\* cause the guest has given or a full pool.
ImplementsGuest == G!Spec
=============================================================================
