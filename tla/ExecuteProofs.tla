---------------------------- MODULE ExecuteProofs ---------------------------
(***************************************************************************)
(* Invariance proofs for module Execute, for every program, address space, *)
(* cache size and pool size: types, the coherence of the translation cache *)
(* (whatever way control reaches a block, it is the translation of the     *)
(* address the guest went to), and what the translator's loop produces (a  *)
(* region stays on its page, holds at most TB_MAX_INSNS instructions,      *)
(* stops at its first control transfer and before the entry of every       *)
(* region that was there when it began, and nothing that translated code   *)
(* may already point to is ever rewritten), and that the emulator          *)
(* implements GuestMachine.                                                *)
(*                                                                         *)
(* Then, for ExecuteFrame: the host stack under translated code is         *)
(* balanced, aligned and keeps what dbt::Execute left on it, for every     *)
(* size of the spill frame that the code's static_assert allows.  There    *)
(* the steps of Execute enter the argument only by where they start and    *)
(* end: what counts is the machine that each path hands to the next one.   *)
(***************************************************************************)
EXTENDS ExecuteFrame, TLAPS

-----------------------------------------------------------------------------
(* Arithmetic of addresses *)

\* The size of the address space is positive.
LEMMA ASpacePos == ASpace \in Nat \ {0}
  BY RV32CodeAssumption, SMT DEF ASpace

\* The remainder by a positive number lies below it.
LEMMA ModRange ==
  ASSUME NEW n \in Nat \ {0}, NEW a \in Int
  PROVE  a % n \in 0 .. n - 1
  BY SMT

\* Address arithmetic stays inside the address space.
LEMMA AddrMod == ASSUME NEW a \in Int PROVE a % ASpace \in Addr
  BY ASpacePos, ModRange DEF Addr

\* The address after an instruction, NextIp, wraps at the end of the address
\* space and so is an address again.
LEMMA NextIpType == ASSUME NEW a \in Addr PROVE NextIp(a) \in Addr
  <1>1. a + 1 \in Int
    BY ASpacePos DEF Addr
  <1> QED
    BY <1>1, AddrMod DEF NextIp

\* The null address, which an empty cache entry holds, is an address.
LEMMA ZeroAddr == 0 \in Addr
  BY ASpacePos DEF Addr

\* tcache::l1hash indexes inside the L1 caches.
LEMMA HashType == ASSUME NEW a \in Addr PROVE l1hash(a) \in Hash
  <1>1. a \in Int
    BY ASpacePos DEF Addr
  <1> QED
    BY <1>1, ModRange, TCacheAssumption DEF l1hash, Hash

\* Arithmetic wraps at the width of a register.
LEMMA AluType == ASSUME NEW v \in Val PROVE AluResult(v) \in Val
  <1>1. v + 1 \in Int
    BY RV32CodeAssumption DEF Val
  <1> QED
    BY <1>1, ModRange, RV32CodeAssumption DEF AluResult, Val

-----------------------------------------------------------------------------
(* Typing.  TypeOK alone is not inductive: that ip stays an address needs  *)
(* the blocks a slot or a position refers to to exist and to be non-empty. *)

CacheTypeInv ==
  /\ TCacheTypeOK
  /\ \A t \in Allocated : Len(tbs[t].insns) >= 1
  /\ \A a \in Addr : tcache_map[a] # nullptr => tcache_map[a] \in Allocated
  /\ \A h \in Hash : l1_cache[h] # nullptr => l1_cache[h] \in Allocated
  /\ \A h \in Hash : l1_brind_cache[h].code # nullptr =>
                       l1_brind_cache[h].code \in Allocated
  /\ \A s \in Slot : link[s] # nullptr => link[s] \in Allocated
  /\ \A s \in Linked : s[1] \in Allocated

CpuTypeOK ==
  /\ ip \in Addr
  /\ trapno \in TrapCodes
  /\ x \in Val
  /\ code \in [Addr -> Insn]
  /\ fetchable \in [Addr -> SUBSET Insn]

ControlTypeInv ==
  /\ pc \in PCs
  /\ job \in [ip : Addr, upper : Addr, insns : Seq(Insn)]
  /\ cur \in Allocated \cup {nullptr}
  /\ pos \in Nat
  /\ slot \in Slot \cup {NoSlot}
  /\ branch_slot \in Slot \cup {NoSlot}
  /\ tgt \in Addr
  /\ abort \in AbortReasons
  /\ slot # NoSlot => slot[1] \in Allocated
  /\ branch_slot # NoSlot => branch_slot[1] \in Allocated
  /\ pc \in {"jit", "enter"} => cur # nullptr
  /\ pc = "jit" => pos >= 1
  /\ pc = "slot" => slot # NoSlot
  /\ pc = "emit" => Len(job.insns) >= 1

TypeInv == CacheTypeInv /\ CpuTypeOK /\ ControlTypeInv

\* Pointers to allocated blocks are pointers.
LEMMA AllocatedTBPtr ==
  ASSUME TCacheTypeOK
  PROVE  Allocated \subseteq TBId
  BY TCacheAssumption DEF TCacheTypeOK, Allocated, TBId

\* The typing invariant implies TypeOK, the invariant the runs check.
LEMMA TypeInvTypeOK == TypeInv => TypeOK
  BY AllocatedTBPtr
  DEF TypeInv, CacheTypeInv, CpuTypeOK, ControlTypeInv, TypeOK, TBPtr

\* A slot of an allocated block leads to an address.
LEMMA SlotGipType ==
  ASSUME CacheTypeInv, NEW s \in Slot, s[1] \in Allocated
  PROVE  SlotGip(s) \in Addr
  <1>1. s[1] \in TBId /\ tbs[s[1]] \in TBlock
    BY DEF CacheTypeInv, TCacheTypeOK, Slot
  <1>2. tbs[s[1]].insns \in Seq(Insn) /\ tbs[s[1]].ip \in Addr
    BY <1>1 DEF TBlock
  <1>3. Len(tbs[s[1]].insns) >= 1
    BY DEF CacheTypeInv
  <1>4. LastInsn(s[1]) \in Insn
    BY <1>2, <1>3 DEF LastInsn
  <1>5. EndIp(s[1]) \in Addr
    <2>1. tbs[s[1]].ip + Len(tbs[s[1]].insns) \in Int
      BY <1>2, ASpacePos DEF Addr
    <2> QED
      BY <2>1, AddrMod DEF EndIp
  <1> QED
    BY <1>4, <1>5 DEF SlotGip, Insn

\* Lookup returns nullptr or an allocated block.
LEMMA LookupType ==
  ASSUME CacheTypeInv, NEW a \in Addr
  PROVE  LookupResult(a) \in Allocated \cup {nullptr}
  <1>1. l1hash(a) \in Hash
    BY HashType
  <1> QED
    BY <1>1 DEF LookupResult, CacheTypeInv, TCacheTypeOK

\* Position pos of a block, one past the end included, has an address.
LEMMA CurIpType ==
  ASSUME TypeInv, pc = "jit"
  PROVE  CurIp \in Addr
  <1>1. cur \in TBId /\ tbs[cur] \in TBlock
    BY AllocatedTBPtr
    DEF TypeInv, CacheTypeInv, TCacheTypeOK, ControlTypeInv
  <1>2. tbs[cur].ip + pos - 1 \in Int
    BY <1>1, ASpacePos DEF TypeInv, ControlTypeInv, TBlock, Addr
  <1> QED
    BY <1>2, AddrMod DEF CurIp

\* tcache::Init and InitThread establish the typing invariant.
LEMMA TypeInvInit == Init => TypeInv
  <1> SUFFICES ASSUME Init PROVE TypeInv
    OBVIOUS
  <1> USE DEF Init, tcache_Init
  <1>1. CacheTypeInv
    BY ZeroAddr, TCacheAssumption
    DEF CacheTypeInv, TCacheTypeOK, TBlock, EmptyTBlock, TBPtr, Allocated,
        Linked
  <1>2. CpuTypeOK
    BY RV32CodeAssumption DEF CpuTypeOK, TrapCodes, Val
  <1>3. ControlTypeInv
    BY ZeroAddr DEF ControlTypeInv, NoJob, PCs, AbortReasons
  <1> QED
    BY <1>1, <1>2, <1>3 DEF TypeInv

-----------------------------------------------------------------------------
(* What the operations of the cache preserve *)

\* Nothing happens to the cache.
LEMMA CacheFrame ==
  ASSUME CacheTypeInv, UNCHANGED tcvars
  PROVE  CacheTypeInv' /\ Allocated' = Allocated
  BY DEF CacheTypeInv, TCacheTypeOK, tcvars, Allocated, Linked

\* Filling the L1 cache after a hit.
LEMMA FillType ==
  ASSUME CacheTypeInv, NEW a \in Addr, LookupFill(a)
  PROVE  /\ l1_cache' \in [Hash -> TBPtr]
         /\ \A h \in Hash : l1_cache'[h] # nullptr => l1_cache'[h] \in Allocated
  BY LookupType, HashType, AllocatedTBPtr
  DEF CacheTypeInv, TCacheTypeOK, LookupFill, TBPtr

\* tcache::CacheBrind keeps the indirect-branch cache typed, and its code
\* pointers lead to allocated blocks.
LEMMA CacheBrindType ==
  ASSUME CacheTypeInv, NEW t \in Allocated, CacheBrind(t)
  PROVE  /\ l1_brind_cache' \in [Hash -> [gip : Addr, code : TBPtr]]
         /\ \A h \in Hash : l1_brind_cache'[h].code # nullptr =>
                              l1_brind_cache'[h].code \in Allocated
         /\ brind_targets' \subseteq TBId
  <1>1. t \in TBId /\ tbs[t].ip \in Addr
    BY AllocatedTBPtr DEF CacheTypeInv, TCacheTypeOK, TBlock
  <1>2. l1hash(tbs[t].ip) \in Hash
    BY <1>1, HashType
  <1> QED
    BY <1>1, <1>2 DEF CacheTypeInv, TCacheTypeOK, CacheBrind, TBPtr

\* Linking a slot to an allocated block keeps the slots and link_map typed.
LEMMA LinkSlotType ==
  ASSUME CacheTypeInv, NEW s \in Slot, s[1] \in Allocated,
         NEW t \in Allocated, LinkSlot(s, t)
  PROVE  /\ link' \in [Slot -> TBPtr]
         /\ \A r \in Slot : link'[r] # nullptr =>
              link'[r] \in Allocated /\ r[1] \in Allocated
         /\ link_map' \subseteq Addr \X Slot
         /\ segment_entries' \subseteq TBId
  <1>1. t \in TBId /\ tbs[t].ip \in Addr
    BY AllocatedTBPtr DEF CacheTypeInv, TCacheTypeOK, TBlock
  <1> QED
    BY <1>1
    DEF CacheTypeInv, TCacheTypeOK, LinkSlot, RecordLink, TBPtr, Linked

-----------------------------------------------------------------------------
(* Every step preserves the typing invariant.  Most steps leave the cache  *)
(* alone; those that do not use the lemma of the operation they call.      *)

\* Every step of the emulator preserves the typing invariant.
LEMMA TypeInvStep == TypeInv /\ [Next]_vars => TypeInv'
  <1> SUFFICES ASSUME TypeInv, [Next]_vars PROVE TypeInv'
    OBVIOUS
  <1>c. CacheTypeInv /\ CpuTypeOK /\ ControlTypeInv
    BY DEF TypeInv
  <1>a. Allocated \subseteq TBId
    BY <1>c, AllocatedTBPtr DEF CacheTypeInv
  <1>frame. ASSUME UNCHANGED tcvars, CpuTypeOK', ControlTypeInv'
            PROVE  TypeInv'
    BY <1>c, <1>frame, CacheFrame DEF TypeInv
  <1>alloc. UNCHANGED tcvars => Allocated' = Allocated
    BY <1>c, CacheFrame
  <1>cpu. UNCHANGED <<cpuvars, guestvars>> => CpuTypeOK'
    BY <1>c DEF CpuTypeOK, cpuvars, guestvars
  <1>abort. ASSUME NEW why \in AbortReasons, Abort(why) PROVE TypeInv'
    <2>1. UNCHANGED tcvars /\ CpuTypeOK'
      BY <1>abort, <1>cpu DEF Abort
    <2>2. ControlTypeInv'
      BY <1>c, <1>abort, <2>1, <1>alloc DEF Abort, ControlTypeInv, PCs
    <2> QED
      BY <2>1, <2>2, <1>frame
  <1>LoopTrap. CASE LoopTrap
    <2>1. UNCHANGED tcvars
      BY <1>LoopTrap DEF LoopTrap
    <2>2. CpuTypeOK'
      BY <1>LoopTrap, <1>cpu DEF LoopTrap
    <2>3. ControlTypeInv'
      BY <1>c, <1>LoopTrap, <2>1, <1>alloc DEF LoopTrap, ctlvars,
         ControlTypeInv, PCs
    <2> QED
      BY <2>1, <2>2, <2>3, <1>frame
  <1>LoopMiss. CASE LoopMiss
    <2>1. UNCHANGED tcvars
      BY <1>LoopMiss DEF LoopMiss
    <2>2. CpuTypeOK'
      BY <1>LoopMiss, <1>cpu DEF LoopMiss
    <2>3. ControlTypeInv'
      BY <1>c, <1>LoopMiss, <2>1, <1>alloc DEF LoopMiss, ctlvars, CpuTypeOK,
         ControlTypeInv, PCs
    <2> QED
      BY <2>1, <2>2, <2>3, <1>frame
  <1>LoopMissAssert. CASE LoopMissAssert
    BY <1>LoopMissAssert, <1>abort DEF LoopMissAssert, AbortReasons
  <1>Translate. CASE Translate
    <2>1. UNCHANGED tcvars
      BY <1>Translate DEF Translate
    <2>2. CpuTypeOK'
      BY <1>Translate, <1>cpu DEF Translate
    <2>3. InsnIp(job) \in Addr
      <3>1. job.ip + Len(job.insns) \in Int
        BY <1>c, ASpacePos DEF ControlTypeInv, Addr
      <3> QED
        BY <3>1, AddrMod DEF InsnIp
    <2>4. code[InsnIp(job)] \in Insn
      BY <1>c, <2>3 DEF CpuTypeOK
    <2>5. /\ job' \in [ip : Addr, upper : Addr, insns : Seq(Insn)]
          /\ Len(job'.insns) >= 1
      BY SMTT(30), <1>c, <1>Translate, <2>4 DEF Translate, ControlTypeInv
    <2>6. ControlTypeInv'
      BY <1>c, <1>Translate, <2>1, <2>5, <1>alloc
      DEF Translate, ControlTypeInv, PCs
    <2> QED
      BY <2>1, <2>2, <2>6, <1>frame
  <1>TranslateFault. CASE TranslateFault
    BY <1>TranslateFault, <1>abort DEF TranslateFault, AbortReasons
  <1>TranslateIllegal. CASE TranslateIllegal
    BY <1>TranslateIllegal, <1>abort DEF TranslateIllegal, AbortReasons
  <1>EmitPoolFull. CASE EmitPoolFull
    BY <1>EmitPoolFull, <1>abort DEF EmitPoolFull, AbortReasons
  <1>BrindNull. CASE BrindNull
    BY <1>BrindNull, <1>abort DEF BrindNull, AbortReasons
  <1>JitMemFault. CASE JitMemFault
    BY <1>JitMemFault, <1>abort DEF JitMemFault, AbortReasons
  <1>EnvUnhandled. CASE EnvUnhandled
    BY <1>EnvUnhandled, <1>abort DEF EnvUnhandled, AbortReasons
  <1>SlotLinked. CASE SlotLinked
    <2>1. UNCHANGED tcvars
      BY <1>SlotLinked DEF SlotLinked
    <2>2. CpuTypeOK'
      BY <1>SlotLinked, <1>cpu DEF SlotLinked
    <2>3. ControlTypeInv'
      BY <1>c, <1>SlotLinked, <2>1, <1>alloc, <1>a DEF SlotLinked, RunBlock, CacheTypeInv,
         ControlTypeInv, PCs
    <2> QED
      BY <2>1, <2>2, <2>3, <1>frame
  <1>SlotStubEscape. CASE SlotStubEscape
    <2>1. UNCHANGED tcvars
      BY <1>SlotStubEscape DEF SlotStubEscape
    <2>2. CpuTypeOK'
      BY <1>c, <1>SlotStubEscape, SlotGipType DEF SlotStubEscape, CpuTypeOK, ControlTypeInv,
         guestvars
    <2>3. ControlTypeInv'
      BY <1>c, <1>SlotStubEscape, <2>1, <1>alloc DEF SlotStubEscape, ctlvars,
         ControlTypeInv, PCs
    <2> QED
      BY <2>1, <2>2, <2>3, <1>frame
  <1>BrindHit. CASE BrindHit
    <2>1. UNCHANGED tcvars
      BY <1>BrindHit DEF BrindHit
    <2>2. CpuTypeOK'
      BY <1>BrindHit, <1>cpu DEF BrindHit
    <2>3. ControlTypeInv'
      BY <1>c, <1>BrindHit, <2>1, <1>alloc, ZeroAddr, HashType DEF BrindHit, RunBlock, BrindEntry, CacheTypeInv,
         ControlTypeInv, PCs
    <2> QED
      BY <2>1, <2>2, <2>3, <1>frame
  <1>BrindMiss. CASE BrindMiss
    <2>1. UNCHANGED tcvars
      BY <1>BrindMiss DEF BrindMiss
    <2>2. CpuTypeOK'
      BY <1>BrindMiss, <1>cpu DEF BrindMiss
    <2>3. ControlTypeInv'
      BY <1>c, <1>BrindMiss, <2>1, <1>alloc DEF BrindMiss, ctlvars,
         ControlTypeInv, PCs
    <2> QED
      BY <2>1, <2>2, <2>3, <1>frame
  <1>BrindStubEscape. CASE BrindStubEscape
    <2>1. UNCHANGED tcvars
      BY <1>BrindStubEscape DEF BrindStubEscape
    <2>2. CpuTypeOK'
      BY <1>c, <1>BrindStubEscape DEF BrindStubEscape, CpuTypeOK, ControlTypeInv,
         guestvars
    <2>3. ControlTypeInv'
      BY <1>c, <1>BrindStubEscape, <2>1, <1>alloc, ZeroAddr DEF BrindStubEscape, ctlvars,
         ControlTypeInv, PCs
    <2> QED
      BY <2>1, <2>2, <2>3, <1>frame
  <1>JitAlu. CASE JitAlu
    <2>1. UNCHANGED tcvars
      BY <1>JitAlu DEF JitAlu, Advance
    <2>2. CpuTypeOK'
      BY <1>c, <1>JitAlu, AluType DEF JitAlu, Advance, CpuTypeOK, cpuvars, guestvars
    <2>3. ControlTypeInv'
      BY <1>c, <1>JitAlu, <2>1, <1>alloc DEF JitAlu, Advance, ctlvars,
         ControlTypeInv, PCs
    <2> QED
      BY <2>1, <2>2, <2>3, <1>frame
  <1>JitLoad. CASE JitLoad
    <2>1. UNCHANGED tcvars
      BY <1>JitLoad DEF JitLoad, Advance, AtInsn
    <2>2. CpuTypeOK'
      BY <1>c, <1>JitLoad, CurIpType DEF JitLoad, Advance, AtInsn, CpuTypeOK, cpuvars, guestvars
    <2>3. ControlTypeInv'
      BY <1>c, <1>JitLoad, <2>1, <1>alloc DEF JitLoad, Advance, AtInsn, ctlvars,
         ControlTypeInv, PCs
    <2> QED
      BY <2>1, <2>2, <2>3, <1>frame
  <1>JitStoreCode. ASSUME NEW p \in Patches, JitStoreCode(p) PROVE TypeInv'
    <2>1. UNCHANGED tcvars
      BY <1>JitStoreCode DEF JitStoreCode, Advance, AtInsn
    <2>2. CpuTypeOK'
      BY <1>c, <1>JitStoreCode, CurIpType, RV32CodeAssumption DEF JitStoreCode, Advance, AtInsn, CpuTypeOK, cpuvars, guestvars
    <2>3. ControlTypeInv'
      BY <1>c, <1>JitStoreCode, <2>1, <1>alloc DEF JitStoreCode, Advance, AtInsn, ctlvars,
         ControlTypeInv, PCs
    <2> QED
      BY <2>1, <2>2, <2>3, <1>frame
  <1>JitFence. CASE JitFence
    <2>1. UNCHANGED tcvars
      BY <1>JitFence DEF JitFence, Advance, AtInsn
    <2>2. CpuTypeOK'
      BY <1>c, <1>JitFence, NextIpType DEF JitFence, Advance, AtInsn, CpuTypeOK, cpuvars, guestvars
    <2>3. ControlTypeInv'
      BY <1>c, <1>JitFence, <2>1, <1>alloc DEF JitFence, Advance, AtInsn, ctlvars,
         ControlTypeInv, PCs
    <2> QED
      BY <2>1, <2>2, <2>3, <1>frame
  <1>JitFenceI. CASE JitFenceI
    <2>1. UNCHANGED tcvars
      BY <1>JitFenceI DEF JitFenceI, Advance, AtInsn
    <2>2. CpuTypeOK'
      BY <1>c, <1>JitFenceI, NextIpType DEF JitFenceI, Advance, AtInsn, CpuTypeOK, cpuvars, guestvars
    <2>3. ControlTypeInv'
      BY <1>c, <1>JitFenceI, <2>1, <1>alloc DEF JitFenceI, Advance, AtInsn, ctlvars,
         ControlTypeInv, PCs
    <2> QED
      BY <2>1, <2>2, <2>3, <1>frame
  <1>leave. ASSUME NEW k \in {0, 1}, pc = "jit", LeaveBy(<<cur, k>>),
                   UNCHANGED cpuvars
            PROVE  TypeInv'
    <2>1. UNCHANGED tcvars
      BY <1>leave DEF LeaveBy
    <2>2. CpuTypeOK'
      BY <1>leave, <1>cpu DEF LeaveBy
    <2>3. cur \in Allocated /\ cur \in TBId
      BY <1>a, <1>c, <1>leave DEF ControlTypeInv
    <2>4. <<cur, k>> \in Slot /\ <<cur, k>> # NoSlot
      BY <2>3, TCacheAssumption DEF Slot, NoSlot, TBId
    <2>5. ControlTypeInv'
      BY <1>c, <1>leave, <1>alloc, <2>1, <2>3, <2>4
      DEF LeaveBy, ControlTypeInv, PCs
    <2> QED
      BY <2>1, <2>2, <2>5, <1>frame
  <1>JitJal. CASE JitJal
    BY <1>JitJal, <1>leave DEF JitJal, AtInsn
  <1>JitBrcc. CASE JitBrcc
    BY <1>JitBrcc, <1>leave DEF JitBrcc, AtInsn
  <1>JitFallThrough. CASE JitFallThrough
    BY <1>JitFallThrough, <1>leave DEF JitFallThrough
  <1>JitJalr. CASE JitJalr
    <2>1. UNCHANGED tcvars
      BY <1>JitJalr DEF JitJalr
    <2>2. CpuTypeOK'
      BY <1>JitJalr, <1>cpu DEF JitJalr
    <2>3. ControlTypeInv'
      BY <1>c, <1>JitJalr, <2>1, <1>alloc, RV32CodeAssumption DEF JitJalr, CpuTypeOK,
         ControlTypeInv, PCs
    <2> QED
      BY <2>1, <2>2, <2>3, <1>frame
  <1>JitEcall. CASE JitEcall
    <2>1. UNCHANGED tcvars
      BY <1>JitEcall DEF JitEcall, RaiseTrap, AtInsn
    <2>2. CpuTypeOK'
      BY <1>c, <1>JitEcall, CurIpType DEF JitEcall, RaiseTrap, AtInsn, TrapCodes, CpuTypeOK, cpuvars, guestvars
    <2>3. ControlTypeInv'
      BY <1>c, <1>JitEcall, <2>1, <1>alloc DEF JitEcall, RaiseTrap, AtInsn, ctlvars,
         ControlTypeInv, PCs
    <2> QED
      BY <2>1, <2>2, <2>3, <1>frame
  <1>JitEbreak. CASE JitEbreak
    <2>1. UNCHANGED tcvars
      BY <1>JitEbreak DEF JitEbreak, RaiseTrap, AtInsn
    <2>2. CpuTypeOK'
      BY <1>c, <1>JitEbreak, CurIpType DEF JitEbreak, RaiseTrap, AtInsn, TrapCodes, CpuTypeOK, cpuvars, guestvars
    <2>3. ControlTypeInv'
      BY <1>c, <1>JitEbreak, <2>1, <1>alloc DEF JitEbreak, RaiseTrap, AtInsn, ctlvars,
         ControlTypeInv, PCs
    <2> QED
      BY <2>1, <2>2, <2>3, <1>frame
  <1>EnvSyscall. CASE EnvSyscall
    <2>1. UNCHANGED tcvars
      BY <1>EnvSyscall DEF EnvSyscall
    <2>2. CpuTypeOK'
      BY <1>c, <1>EnvSyscall, NextIpType DEF EnvSyscall, TrapCodes, CpuTypeOK, cpuvars, guestvars
    <2>3. ControlTypeInv'
      BY <1>c, <1>EnvSyscall, <2>1, <1>alloc DEF EnvSyscall, ctlvars,
         ControlTypeInv, PCs
    <2> QED
      BY <2>1, <2>2, <2>3, <1>frame
  <1>EnvExit. CASE EnvExit
    <2>1. UNCHANGED tcvars
      BY <1>EnvExit DEF EnvExit
    <2>2. CpuTypeOK'
      BY <1>c, <1>EnvExit, NextIpType DEF EnvExit, TrapCodes, CpuTypeOK, cpuvars, guestvars
    <2>3. ControlTypeInv'
      BY <1>c, <1>EnvExit, <2>1, <1>alloc DEF EnvExit, ctlvars,
         ControlTypeInv, PCs
    <2> QED
      BY <2>1, <2>2, <2>3, <1>frame
  <1>EnvBreak. CASE EnvBreak
    <2>1. UNCHANGED tcvars
      BY <1>EnvBreak DEF EnvBreak
    <2>2. CpuTypeOK'
      BY <1>EnvBreak, <1>cpu DEF EnvBreak
    <2>3. ControlTypeInv'
      BY <1>c, <1>EnvBreak, <2>1, <1>alloc DEF EnvBreak, ctlvars,
         ControlTypeInv, PCs
    <2> QED
      BY <2>1, <2>2, <2>3, <1>frame
  <1>Stopped. CASE Stopped
    <2>1. UNCHANGED tcvars
      BY <1>Stopped DEF Stopped, vars
    <2>2. CpuTypeOK'
      BY <1>Stopped, <1>cpu DEF Stopped, vars
    <2>3. ControlTypeInv'
      BY <1>c, <1>Stopped, <2>1, <1>alloc DEF Stopped, vars, ctlvars,
         ControlTypeInv, PCs
    <2> QED
      BY <2>1, <2>2, <2>3, <1>frame
  <1>Stutter. CASE UNCHANGED vars
    <2>1. UNCHANGED tcvars
      BY <1>Stutter DEF vars
    <2>2. CpuTypeOK'
      BY <1>Stutter, <1>cpu DEF vars
    <2>3. ControlTypeInv'
      BY <1>c, <1>Stutter, <2>1, <1>alloc DEF vars, ctlvars, ControlTypeInv
    <2> QED
      BY <2>1, <2>2, <2>3, <1>frame
  <1>LoopHit. CASE LoopHit
    <2>1. /\ ip \in Addr
          /\ LookupResult(ip) \in Allocated
      BY <1>c, <1>LoopHit, LookupType DEF LoopHit, CpuTypeOK
    <2>2. Allocated' = Allocated
      BY <1>LoopHit DEF LoopHit, Allocated
    <2>3. CacheTypeInv'
      BY <1>c, <1>LoopHit, <2>1, <2>2, FillType
      DEF LoopHit, CacheTypeInv, TCacheTypeOK, Linked
    <2>4. CpuTypeOK'
      BY <1>LoopHit, <1>cpu DEF LoopHit
    <2>5. ControlTypeInv'
      BY <1>c, <1>LoopHit, <2>1, <2>2, TCacheAssumption
      DEF LoopHit, ControlTypeInv, PCs, Allocated
    <2> QED
      BY <2>3, <2>4, <2>5 DEF TypeInv
  <1>EnterLink. CASE EnterLink
    <2>1. cur \in Allocated /\ branch_slot \in Slot /\ branch_slot[1] \in Allocated
      BY <1>c, <1>EnterLink DEF EnterLink, ControlTypeInv
    <2>2. Allocated' = Allocated
      BY <1>EnterLink DEF EnterLink, Allocated
    <2>3. CacheTypeInv'
      BY <1>c, <1>EnterLink, <2>1, <2>2, LinkSlotType
      DEF EnterLink, CacheTypeInv, TCacheTypeOK, Linked
    <2>4. CpuTypeOK'
      BY <1>EnterLink, <1>cpu DEF EnterLink
    <2>5. ControlTypeInv'
      BY <1>c, <1>EnterLink, <2>1, <2>2
      DEF EnterLink, RunBlock, ControlTypeInv, PCs
    <2> QED
      BY <2>3, <2>4, <2>5 DEF TypeInv
  <1>EnterBrind. CASE EnterBrind
    <2>1. cur \in Allocated
      BY <1>c, <1>EnterBrind DEF EnterBrind, ControlTypeInv
    <2>2. Allocated' = Allocated
      BY <1>EnterBrind DEF EnterBrind, Allocated
    <2>3. CacheTypeInv'
      BY <1>c, <1>EnterBrind, <2>1, <2>2, CacheBrindType
      DEF EnterBrind, CacheTypeInv, TCacheTypeOK, Linked
    <2>4. CpuTypeOK'
      BY <1>EnterBrind, <1>cpu DEF EnterBrind
    <2>5. ControlTypeInv'
      BY <1>c, <1>EnterBrind, <2>1, <2>2
      DEF EnterBrind, RunBlock, ControlTypeInv, PCs
    <2> QED
      BY <2>3, <2>4, <2>5 DEF TypeInv
  <1>SlotStubFound. CASE SlotStubFound
    <2>1. slot \in Slot /\ slot[1] \in Allocated /\ SlotGip(slot) \in Addr
      BY <1>c, <1>SlotStubFound, SlotGipType DEF SlotStubFound, ControlTypeInv
    <2>2. LookupResult(SlotGip(slot)) \in Allocated
      BY <1>c, <1>SlotStubFound, <2>1, LookupType DEF SlotStubFound
    <2>3. Allocated' = Allocated
      BY <1>SlotStubFound DEF SlotStubFound, Allocated
    <2>4. CacheTypeInv'
      BY <1>c, <1>SlotStubFound, <2>1, <2>2, <2>3, LinkSlotType, FillType
      DEF SlotStubFound, CacheTypeInv, TCacheTypeOK, Linked
    <2>5. CpuTypeOK'
      BY <1>SlotStubFound, <1>cpu DEF SlotStubFound
    <2>6. ControlTypeInv'
      BY <1>c, <1>SlotStubFound, <2>2, <2>3
      DEF SlotStubFound, RunBlock, ControlTypeInv, PCs, Allocated
    <2> QED
      BY <2>4, <2>5, <2>6 DEF TypeInv
  <1>BrindStubFound. CASE BrindStubFound
    <2>1. tgt \in Addr
      BY <1>c DEF ControlTypeInv
    <2>2. LookupResult(tgt) \in Allocated
      BY <1>c, <1>BrindStubFound, <2>1, LookupType DEF BrindStubFound
    <2>3. Allocated' = Allocated
      BY <1>BrindStubFound DEF BrindStubFound, Allocated
    <2>4. CacheTypeInv'
      BY <1>c, <1>BrindStubFound, <2>1, <2>2, <2>3, CacheBrindType, FillType
      DEF BrindStubFound, CacheTypeInv, TCacheTypeOK, Linked
    <2>5. CpuTypeOK'
      BY <1>c, <1>BrindStubFound, <2>1 DEF BrindStubFound, CpuTypeOK, guestvars
    <2>6. ControlTypeInv'
      BY <1>c, <1>BrindStubFound, <2>2, <2>3, ZeroAddr
      DEF BrindStubFound, RunBlock, ControlTypeInv, PCs, Allocated
    <2> QED
      BY <2>4, <2>5, <2>6 DEF TypeInv
  <1>Emit. CASE Emit
    <2> DEFINE t == tb_used + 1
    <2>1. /\ job.ip \in Addr
          /\ job.insns \in Seq(Insn)
          /\ Len(job.insns) \in Nat
          /\ Len(job.insns) >= 1
      BY <1>c, <1>Emit DEF Emit, ControlTypeInv
    <2>2. t \in TBId /\ code_used + Len(job.insns) \in 0 .. CodePoolSize
      BY <1>c, <1>Emit, <2>1, TCacheAssumption
      DEF Emit, PoolsFit, CacheTypeInv, TCacheTypeOK, TBId
    <2>3. Allocated' = Allocated \cup {t}
      BY <1>c, <1>Emit, <2>2
      DEF Emit, AnnounceRegion, Allocated, CacheTypeInv, TCacheTypeOK
    <2>4. /\ tbs' = [tbs EXCEPT ![t] = [ip |-> job.ip, insns |-> job.insns]]
          /\ l1_cache' = [l1_cache EXCEPT ![l1hash(job.ip)] = t]
          /\ tcache_map' = IF tcache_map[job.ip] = nullptr
                           THEN [tcache_map EXCEPT ![job.ip] = t]
                           ELSE tcache_map
          /\ tb_used' = t
          /\ code_used' = code_used + Len(job.insns)
      BY <1>Emit DEF Emit, AnnounceRegion, Insert
    <2>5. l1hash(job.ip) \in Hash
      BY <2>1, HashType
    <2>6. TCacheTypeOK'
      BY <1>c, <1>Emit, <2>1, <2>2, <2>4, <2>5, TCacheAssumption
      DEF Emit, CacheTypeInv, TCacheTypeOK, TBlock, TBPtr, TBId
    <2>7. \A u \in Allocated' : Len(tbs'[u].insns) >= 1
      BY <1>c, <1>a, <2>1, <2>2, <2>3, <2>4 DEF CacheTypeInv, TCacheTypeOK
    <2>8. CacheTypeInv'
      BY <1>c, <1>Emit, <2>1, <2>3, <2>4, <2>5, <2>6, <2>7
      DEF Emit, CacheTypeInv, TCacheTypeOK, Linked
    <2>9. CpuTypeOK'
      BY <1>Emit, <1>cpu DEF Emit
    <2>10. ControlTypeInv'
      BY <1>c, <1>Emit, <2>2, <2>3, ZeroAddr
      DEF Emit, ControlTypeInv, PCs, NoJob, TBId, nullptr
    <2> QED
      BY <2>8, <2>9, <2>10 DEF TypeInv
  <1> QED
    BY <1>LoopTrap, <1>LoopHit, <1>LoopMiss, <1>LoopMissAssert,
       <1>Translate, <1>TranslateFault, <1>TranslateIllegal, <1>Emit,
       <1>EmitPoolFull, <1>EnterLink, <1>EnterBrind, <1>SlotLinked,
       <1>SlotStubFound, <1>SlotStubEscape, <1>BrindHit, <1>BrindNull,
       <1>BrindMiss, <1>BrindStubFound, <1>BrindStubEscape, <1>JitAlu,
       <1>JitLoad, <1>JitMemFault, <1>JitFence, <1>JitFenceI, <1>JitJal,
       <1>JitBrcc, <1>JitFallThrough, <1>JitJalr, <1>JitEcall,
       <1>JitEbreak, <1>JitStoreCode, <1>EnvSyscall, <1>EnvExit,
       <1>EnvUnhandled, <1>EnvBreak, <1>Stopped, <1>Stutter
    DEF Next, Dispatch, Jit, Env

\* TypeOK, strengthened to TypeInv, holds in every reachable state.
THEOREM TypeInvariant == Spec => []TypeInv
  BY TypeInvInit, TypeInvStep, PTL DEF Spec

\* Type correctness: in every reachable state state->ip and the target of
\* every pending branch are addresses, and every block pointer points into
\* the pool.
THEOREM TypeCorrect == Spec => []TypeOK
  BY TypeInvariant, TypeInvTypeOK, PTL

-----------------------------------------------------------------------------
(* The inductive invariant.  CacheCoherent needs OneTranslationPerIp (a    *)
(* new block must not replace one that slots point to), and both need to   *)
(* know what the dispatcher is doing for which address.                    *)

DispatchInv ==
  /\ pc = "enter" => tcache_map[ip] = cur
  /\ pc \in {"translate", "emit"} => job.ip = ip /\ tcache_map[ip] = nullptr
  /\ BranchSlotMatchesIp
  /\ branch_slot # NoSlot =>
       pc \in {"loop", "translate", "emit", "enter", "aborted"}

CoherenceInv ==
  /\ CacheCoherent
  /\ OneTranslationPerIp
  /\ LinksRecorded
  /\ DispatchInv

\* Lookup is a function of the map alone: the L1 cache never changes what is
\* found, only how fast.
LEMMA LookupCorrect ==
  ASSUME CacheTypeInv, CacheCoherent, NEW a \in Addr
  PROVE  LookupResult(a) = tcache_map[a]
  <1>1. l1hash(a) \in Hash
    BY HashType
  <1>2. CASE l1_cache[l1hash(a)] # nullptr /\ tbs[l1_cache[l1hash(a)]].ip = a
    <2>1. PICK b \in Addr : tcache_map[b] = l1_cache[l1hash(a)]
      BY <1>1, <1>2 DEF CacheCoherent
    <2>2. tbs[tcache_map[b]].ip = b
      BY <1>2, <2>1 DEF CacheCoherent
    <2> QED
      BY <1>2, <2>1, <2>2 DEF LookupResult
  <1>3. CASE ~(l1_cache[l1hash(a)] # nullptr /\ tbs[l1_cache[l1hash(a)]].ip = a)
    BY <1>3 DEF LookupResult
  <1> QED
    BY <1>2, <1>3

\* The empty cache of tcache::Init is coherent.
LEMMA CoherenceInit == Init => CoherenceInv
  BY DEF Init, tcache_Init, CoherenceInv, CacheCoherent, OneTranslationPerIp,
     LinksRecorded, DispatchInv, BranchSlotMatchesIp, Linked, Allocated

\* Slots, and the pages they cross, are those of the block they belong to.
LEMMA SlotFrame ==
  ASSUME CacheTypeInv, NEW s \in Slot, tbs'[s[1]] = tbs[s[1]]
  PROVE  SlotGip(s)' = SlotGip(s) /\ CrossSegment(s)' = CrossSegment(s)
  BY SMTT(30) DEF SlotGip, CrossSegment, LastInsn, EndIp

\* A step that leaves the cache alone keeps it coherent.
LEMMA CoherenceFrame ==
  ASSUME CoherenceInv, UNCHANGED tcvars
  PROVE  CacheCoherent' /\ OneTranslationPerIp' /\ LinksRecorded'
  BY DEF CoherenceInv, CacheCoherent, OneTranslationPerIp, LinksRecorded,
     tcvars, Linked, Allocated, SlotGip, CrossSegment, LastInsn, EndIp

-----------------------------------------------------------------------------
(* What the operations of the cache preserve *)

\* Filling the L1 cache on a lookup keeps each of its entries a copy of one
\* in the map, in the line of its hash.
LEMMA FillCoherent ==
  ASSUME CacheTypeInv, CacheCoherent, NEW a \in Addr, LookupFill(a)
  PROVE  \A h \in Hash : l1_cache'[h] # nullptr =>
           \E b \in Addr : l1hash(b) = h /\ tcache_map[b] = l1_cache'[h]
  <1>1. LookupResult(a) = tcache_map[a] /\ l1hash(a) \in Hash
    BY LookupCorrect, HashType
  <1>2. CASE LookupResult(a) = nullptr
    BY <1>2 DEF LookupFill, CacheCoherent
  <1>3. CASE LookupResult(a) # nullptr
    <2>1. l1_cache' = [l1_cache EXCEPT ![l1hash(a)] = tcache_map[a]]
      BY <1>1, <1>3 DEF LookupFill
    <2> SUFFICES ASSUME NEW h \in Hash, l1_cache'[h] # nullptr
                 PROVE  \E b \in Addr : /\ l1hash(b) = h
                                        /\ tcache_map[b] = l1_cache'[h]
      OBVIOUS
    <2>2. CASE h = l1hash(a)
      BY <1>1, <2>1, <2>2 DEF CacheTypeInv, TCacheTypeOK
    <2>3. CASE h # l1hash(a)
      BY <1>1, <2>1, <2>3 DEF CacheTypeInv, TCacheTypeOK, CacheCoherent
    <2> QED
      BY <2>2, <2>3
  <1> QED
    BY <1>2, <1>3

\* tcache::CacheBrind of a block that the map holds keeps every entry of the
\* indirect-branch cache a copy of one in the map.
LEMMA CacheBrindCoherent ==
  ASSUME CacheTypeInv, CacheCoherent, NEW t \in Allocated,
         tcache_map[tbs[t].ip] = t, CacheBrind(t)
  PROVE  \A h \in Hash : l1_brind_cache'[h].code # nullptr =>
           /\ l1hash(l1_brind_cache'[h].gip) = h
           /\ tcache_map[l1_brind_cache'[h].gip] = l1_brind_cache'[h].code
  <1>1. tbs[t].ip \in Addr
    BY AllocatedTBPtr DEF CacheTypeInv, TCacheTypeOK, TBlock
  <1>2. l1hash(tbs[t].ip) \in Hash
    BY <1>1, HashType
  <1> QED
    BY <1>1, <1>2 DEF CacheTypeInv, TCacheTypeOK, CacheBrind, CacheCoherent

\* Linking a slot to the map's block for the slot's address.
LEMMA LinkCoherent ==
  ASSUME CacheTypeInv, CacheCoherent, LinksRecorded,
         NEW s \in Slot, s[1] \in Allocated, link[s] = nullptr,
         NEW t \in Allocated, tcache_map[SlotGip(s)] = t, tbs[t].ip = SlotGip(s),
         LinkSlot(s, t), tbs' = tbs, tb_used' = tb_used
  PROVE  /\ \A r \in Linked' : tcache_map[SlotGip(r)] = link'[r]
         /\ LinksRecorded'
  <1>1. t # nullptr
    BY AllocatedTBPtr, TCacheAssumption DEF CacheTypeInv, TBId, nullptr
  <1>2. link' = [link EXCEPT ![s] = t]
    BY DEF LinkSlot
  <1>3. Linked' = Linked \cup {s}
    BY <1>1, <1>2 DEF Linked, CacheTypeInv, TCacheTypeOK
  <1>4. \A r \in Linked : r # s /\ link'[r] = link[r]
    BY <1>2 DEF Linked, CacheTypeInv, TCacheTypeOK
  <1>5. link'[s] = t
    BY <1>2 DEF CacheTypeInv, TCacheTypeOK
  <1>6. \A r \in Linked' : tcache_map[SlotGip(r)] = link'[r]
    BY <1>3, <1>4, <1>5 DEF CacheCoherent
  <1>7. \A r \in Slot : SlotGip(r)' = SlotGip(r) /\ CrossSegment(r)' = CrossSegment(r)
    BY SlotFrame
  <1>8. link_map' = {<<SlotGip(r)', r>> : r \in Linked'}
    <2>1. link_map' = {<<SlotGip(r), r>> : r \in Linked} \cup {<<SlotGip(s), s>>}
      BY DEF LinkSlot, RecordLink, LinksRecorded
    <2>2. \A r \in Linked' : SlotGip(r)' = SlotGip(r)
      BY <1>7 DEF Linked
    <2> QED
      BY <1>3, <2>1, <2>2
  <1>9. segment_entries' = {link'[r] : r \in {q \in Linked' : CrossSegment(q)'}}
    <2>1. segment_entries = {link[r] : r \in {q \in Linked : CrossSegment(q)}}
      BY DEF LinksRecorded
    <2>2. \A r \in Linked' : CrossSegment(r)' = CrossSegment(r)
      BY <1>7 DEF Linked
    <2>3. CASE CrossSegment(s)
      <3>1. segment_entries' = segment_entries \cup {t}
        BY <2>3 DEF LinkSlot, RecordLink
      <3> QED
        BY <1>3, <1>4, <1>5, <2>1, <2>2, <2>3, <3>1
    <2>4. CASE ~CrossSegment(s)
      <3>1. segment_entries' = segment_entries
        BY <2>4 DEF LinkSlot, RecordLink
      <3> QED
        BY <1>3, <1>4, <1>5, <2>1, <2>2, <2>4, <3>1
    <2> QED
      BY <2>3, <2>4
  <1> QED
    BY <1>6, <1>8, <1>9 DEF LinksRecorded

\* Announcing a region for an address the map does not have.
LEMMA AnnounceCoherent ==
  ASSUME CacheTypeInv, CacheTypeInv', CacheCoherent, OneTranslationPerIp,
         LinksRecorded, NEW a \in Addr, tcache_map[a] = nullptr,
         NEW insns \in Seq(Insn), tb_used < TBPoolSize,
         AnnounceRegion(a, insns),
         UNCHANGED <<l1_brind_cache, link, link_map, segment_entries>>
  PROVE  /\ CacheCoherent'
         /\ OneTranslationPerIp'
         /\ LinksRecorded'
         /\ tcache_map'[a] = tb_used + 1
         /\ \A t \in Allocated : tbs'[t] = tbs[t]
         /\ Allocated \subseteq Allocated'
  <1> DEFINE n == tb_used + 1
  <1>1. /\ tbs' = [tbs EXCEPT ![n] = [ip |-> a, insns |-> insns]]
        /\ l1_cache' = [l1_cache EXCEPT ![l1hash(a)] = n]
        /\ tcache_map' = [tcache_map EXCEPT ![a] = n]
        /\ tb_used' = n
    BY DEF AnnounceRegion, Insert
  <1>2. tb_used \in Nat /\ n \in TBId
    BY TCacheAssumption DEF CacheTypeInv, TCacheTypeOK, TBId
  <1>3. Allocated' = Allocated \cup {n} /\ n \notin Allocated
    BY <1>1, <1>2 DEF Allocated
  <1>4. tbs'[n].ip = a /\ \A t \in Allocated : tbs'[t] = tbs[t]
    BY <1>1, <1>2, <1>3, AllocatedTBPtr DEF CacheTypeInv, TCacheTypeOK
  <1>5. tcache_map'[a] = n /\ \A b \in Addr : b # a => tcache_map'[b] = tcache_map[b]
    BY <1>1 DEF CacheTypeInv, TCacheTypeOK
  <1>6. l1hash(a) \in Hash
    BY HashType
  <1>7. \A b \in Addr : tcache_map'[b] # nullptr =>
          tcache_map'[b] \in Allocated' /\ tbs'[tcache_map'[b]].ip = b
    BY <1>3, <1>4, <1>5 DEF CacheCoherent
  <1>8. \A h \in Hash : l1_cache'[h] # nullptr =>
          \E b \in Addr : l1hash(b) = h /\ tcache_map'[b] = l1_cache'[h]
    <2> SUFFICES ASSUME NEW h \in Hash, l1_cache'[h] # nullptr
                 PROVE  \E b \in Addr : l1hash(b) = h /\ tcache_map'[b] = l1_cache'[h]
      OBVIOUS
    <2>1. CASE h = l1hash(a)
      BY <1>1, <1>5, <1>6, <2>1 DEF CacheTypeInv, TCacheTypeOK
    <2>2. CASE h # l1hash(a)
      <3>1. l1_cache'[h] = l1_cache[h]
        BY <1>1, <1>6, <2>2 DEF CacheTypeInv, TCacheTypeOK
      <3>2. PICK b \in Addr : l1hash(b) = h /\ tcache_map[b] = l1_cache[h]
        BY <3>1 DEF CacheCoherent
      <3> QED
        BY <1>5, <2>2, <3>1, <3>2
    <2> QED
      BY <2>1, <2>2
  <1>9. \A h \in Hash : l1_brind_cache'[h].code # nullptr =>
          /\ l1hash(l1_brind_cache'[h].gip) = h
          /\ tcache_map'[l1_brind_cache'[h].gip] = l1_brind_cache'[h].code
    BY <1>5 DEF CacheCoherent, CacheTypeInv, TCacheTypeOK
  <1>10. Linked' = Linked /\ \A s \in Linked : s \in Slot /\ s[1] \in Allocated
    BY DEF Linked, CacheTypeInv
  <1>11. \A s \in Linked : SlotGip(s)' = SlotGip(s) /\ CrossSegment(s)' = CrossSegment(s)
    BY <1>4, <1>10, SlotFrame
  <1>12. \A s \in Linked : tcache_map'[SlotGip(s)] = link[s]
    <2> SUFFICES ASSUME NEW s \in Linked PROVE tcache_map'[SlotGip(s)] = link[s]
      OBVIOUS
    <2>1. SlotGip(s) \in Addr /\ tcache_map[SlotGip(s)] = link[s] /\ link[s] # nullptr
      BY <1>10, SlotGipType DEF CacheCoherent, Linked
    <2> QED
      BY <1>5, <2>1
  <1>13. CacheCoherent'
    BY <1>7, <1>8, <1>9, <1>10, <1>11, <1>12 DEF CacheCoherent, l1hash
  <1>14. OneTranslationPerIp'
    <2> SUFFICES ASSUME NEW t \in Allocated' PROVE tcache_map'[tbs'[t].ip] = t
      BY DEF OneTranslationPerIp
    <2>1. CASE t = n
      BY <1>4, <1>5, <2>1
    <2>2. CASE t \in Allocated
      <3>1. tbs[t].ip \in Addr /\ tcache_map[tbs[t].ip] = t /\ t # nullptr
        BY <2>2, AllocatedTBPtr
        DEF OneTranslationPerIp, CacheTypeInv, TCacheTypeOK, TBlock, Allocated,
            nullptr
      <3> QED
        BY <1>4, <1>5, <2>2, <3>1
    <2> QED
      BY <1>3, <2>1, <2>2
  <1>15. LinksRecorded'
    BY <1>10, <1>11 DEF LinksRecorded
  <1> QED
    BY <1>3, <1>4, <1>5, <1>13, <1>14, <1>15

-----------------------------------------------------------------------------
(* Traps *)

\* A trap is pending only on the way from the helper to the environment.
TrapInv == trapno # "NONE" => pc \in {"loop", "env", "done", "aborted"}

\* No step leaves a trap pending elsewhere.
LEMMA TrapStep == TrapInv /\ [Next]_vars => TrapInv'
  <1> SUFFICES ASSUME TrapInv, [Next]_vars PROVE TrapInv'
    OBVIOUS
  <1> USE DEF TrapInv, cpuvars
  <1>1. ASSUME NEW why, Abort(why) PROVE TrapInv'
    BY <1>1 DEF Abort
  <1>2. CASE LoopTrap \/ LoopHit \/ LoopMiss \/ Translate \/ Emit
    BY <1>2 DEF LoopTrap, LoopHit, LoopMiss, Translate, Emit
  <1>3. CASE EnterLink \/ EnterBrind \/ SlotLinked \/ SlotStubFound \/ SlotStubEscape
    BY <1>3 DEF EnterLink, EnterBrind, SlotLinked, SlotStubFound,
       SlotStubEscape, RunBlock
  <1>4. CASE BrindHit \/ BrindMiss \/ BrindStubFound \/ BrindStubEscape
    BY <1>4 DEF BrindHit, BrindMiss, BrindStubFound, BrindStubEscape, RunBlock
  <1>5. CASE \/ JitAlu \/ JitLoad \/ JitFence \/ JitFenceI
             \/ \E p \in Patches : JitStoreCode(p)
    BY <1>5 DEF JitAlu, JitLoad, JitFence, JitFenceI, JitStoreCode, AtInsn,
       Advance
  <1>6. CASE JitJal \/ JitBrcc \/ JitFallThrough \/ JitJalr
    BY <1>6 DEF JitJal, JitBrcc, JitFallThrough, JitJalr, AtInsn, LeaveBy
  <1>7. CASE JitEcall \/ JitEbreak \/ EnvSyscall \/ EnvExit \/ EnvBreak
    BY <1>7 DEF JitEcall, JitEbreak, RaiseTrap, EnvSyscall, EnvExit, EnvBreak
  <1>8. CASE \/ LoopMissAssert \/ TranslateFault \/ TranslateIllegal
             \/ EmitPoolFull \/ BrindNull \/ JitMemFault \/ EnvUnhandled
    BY <1>1, <1>8 DEF LoopMissAssert, TranslateFault, TranslateIllegal,
       EmitPoolFull, BrindNull, JitMemFault, EnvUnhandled
  <1>9. CASE Stopped \/ UNCHANGED vars
    BY <1>9 DEF Stopped, vars
  <1> QED
    BY <1>2, <1>3, <1>4, <1>5, <1>6, <1>7, <1>8, <1>9
    DEF Next, Dispatch, Jit, Env

\* Translated code never runs with a trap pending: RaiseTrap jumps out of it
\* and env::Execute clears the trap before it returns to dbt::Execute.
THEOREM TrapInvariant == Spec => []TrapInv
  <1>1. Init => TrapInv
    BY DEF Init, TrapInv
  <1> QED
    BY <1>1, TrapStep, PTL DEF Spec

-----------------------------------------------------------------------------
\* Every step preserves the coherence invariant.
LEMMA CoherenceStep ==
  TypeInv /\ TypeInv' /\ TrapInv /\ CoherenceInv /\ [Next]_vars => CoherenceInv'
  <1> SUFFICES ASSUME TypeInv, TypeInv', TrapInv, CoherenceInv, [Next]_vars
               PROVE  CoherenceInv'
    OBVIOUS
  <1>t. /\ CacheTypeInv /\ CpuTypeOK /\ ControlTypeInv
        /\ CacheTypeInv' /\ CpuTypeOK' /\ ControlTypeInv'
    BY DEF TypeInv
  <1>c. CacheCoherent /\ OneTranslationPerIp /\ LinksRecorded /\ DispatchInv
    BY DEF CoherenceInv
  <1>lookup. \A a \in Addr : LookupResult(a) = tcache_map[a]
    BY <1>t, <1>c, LookupCorrect
  \* No slot waits while translated code, a stub or the environment runs.
  <1>noslot. pc \in {"jit", "slot", "brind", "brindstub", "env", "done"} =>
               branch_slot = NoSlot
    BY <1>c DEF DispatchInv
  \* Steps that touch neither the cache nor the dispatcher's state.
  <1>quiet. ASSUME UNCHANGED tcvars, branch_slot' = NoSlot,
                   pc' \notin {"enter", "translate", "emit"}
            PROVE  CoherenceInv'
    BY <1>quiet, CoherenceFrame
    DEF CoherenceInv, DispatchInv, BranchSlotMatchesIp
  \* Steps of the dispatcher that leave the waiting slot alone.
  <1>wait. ASSUME UNCHANGED <<ip, trapno, branch_slot, tbs, link>>
           PROVE  BranchSlotMatchesIp'
    <2>1. CASE branch_slot = NoSlot
      BY <1>wait, <2>1 DEF BranchSlotMatchesIp
    <2>2. CASE branch_slot # NoSlot
      <3>1. branch_slot \in Slot
        BY <1>t, <2>2 DEF ControlTypeInv
      <3>2. SlotGip(branch_slot)' = SlotGip(branch_slot)
        BY <1>wait DEF SlotGip, LastInsn, EndIp
      <3> QED
        BY <1>c, <1>wait, <2>2, <3>1, <3>2 DEF DispatchInv, BranchSlotMatchesIp
    <2> QED
      BY <2>1, <2>2
  <1>abort. ASSUME NEW why, Abort(why) PROVE CoherenceInv'
    <2>1. BranchSlotMatchesIp'
      BY <1>abort, <1>wait DEF Abort, cpuvars, tcvars
    <2>2. DispatchInv'
      BY <1>c, <1>abort, <2>1 DEF Abort, DispatchInv
    <2> QED
      BY <1>abort, <2>2, CoherenceFrame DEF Abort, CoherenceInv
  <1>LoopTrap. CASE LoopTrap
    BY <1>c, <1>LoopTrap, <1>quiet
    DEF LoopTrap, ctlvars, DispatchInv, BranchSlotMatchesIp
  <1>LoopHit. CASE LoopHit
    <2>1. ip \in Addr /\ LookupFill(ip) /\ cur' = tcache_map[ip]
      BY <1>t, <1>lookup, <1>LoopHit DEF LoopHit, CpuTypeOK
    <2>2. UNCHANGED <<ip, trapno, branch_slot, tbs, tb_used, tcache_map,
                      l1_brind_cache, link, link_map, segment_entries>>
      BY <1>LoopHit DEF LoopHit, cpuvars
    <2>3. CacheCoherent'
      <3>1. \A h \in Hash : l1_cache'[h] # nullptr =>
              \E b \in Addr : l1hash(b) = h /\ tcache_map[b] = l1_cache'[h]
        BY <1>t, <1>c, <2>1, FillCoherent
      <3> QED
        BY <1>c, <2>2, <3>1
        DEF CacheCoherent, Linked, Allocated, SlotGip, LastInsn, EndIp, l1hash
    <2>4. OneTranslationPerIp' /\ LinksRecorded'
      BY <1>c, <2>2 DEF OneTranslationPerIp, LinksRecorded, Linked, Allocated,
         SlotGip, CrossSegment, LastInsn, EndIp
    <2>5. BranchSlotMatchesIp'
      BY <2>2, <1>wait
    <2>6. DispatchInv'
      BY <1>LoopHit, <2>1, <2>2, <2>5 DEF LoopHit, DispatchInv
    <2> QED
      BY <2>3, <2>4, <2>6 DEF CoherenceInv
  <1>LoopMiss. CASE LoopMiss
    <2>1. ip \in Addr /\ tcache_map[ip] = nullptr
      BY <1>t, <1>lookup, <1>LoopMiss DEF LoopMiss, CpuTypeOK
    <2>2. BranchSlotMatchesIp'
      BY <1>LoopMiss, <1>wait DEF LoopMiss, cpuvars, tcvars
    <2>3. DispatchInv'
      BY <1>LoopMiss, <2>1, <2>2 DEF LoopMiss, DispatchInv, cpuvars, tcvars
    <2> QED
      BY <1>LoopMiss, <2>3, CoherenceFrame DEF LoopMiss, CoherenceInv
  <1>Translate. CASE Translate
    <2>1. BranchSlotMatchesIp'
      BY <1>Translate, <1>wait DEF Translate, cpuvars, tcvars
    <2>2. job'.ip = job.ip
      BY <1>t, <1>Translate DEF Translate, ControlTypeInv
    <2>3. DispatchInv'
      BY <1>c, <1>Translate, <2>1, <2>2
      DEF Translate, DispatchInv, cpuvars, tcvars
    <2> QED
      BY <1>Translate, <2>3, CoherenceFrame DEF Translate, CoherenceInv
  <1>Emit. CASE Emit
    <2>1. /\ job.ip = ip /\ ip \in Addr /\ job.insns \in Seq(Insn)
          /\ tcache_map[ip] = nullptr
      BY <1>t, <1>c, <1>Emit DEF Emit, ControlTypeInv, CpuTypeOK, DispatchInv
    <2>2. /\ tb_used < TBPoolSize
          /\ AnnounceRegion(ip, job.insns)
          /\ UNCHANGED <<l1_brind_cache, link, link_map, segment_entries>>
          /\ UNCHANGED <<ip, trapno, branch_slot>>
          /\ cur' = tb_used + 1
          /\ pc' = "enter"
      BY <1>Emit, <2>1 DEF Emit, PoolsFit, cpuvars
    <2>3. /\ CacheCoherent' /\ OneTranslationPerIp' /\ LinksRecorded'
          /\ tcache_map'[ip] = tb_used + 1
          /\ \A t \in Allocated : tbs'[t] = tbs[t]
      BY <1>t, <1>c, <2>1, <2>2, AnnounceCoherent
    <2>4. BranchSlotMatchesIp'
      <3>1. CASE branch_slot = NoSlot
        BY <2>2, <3>1 DEF BranchSlotMatchesIp
      <3>2. CASE branch_slot # NoSlot
        <4>1. branch_slot \in Slot /\ branch_slot[1] \in Allocated
          BY <1>t, <3>2 DEF ControlTypeInv
        <4>2. SlotGip(branch_slot)' = SlotGip(branch_slot)
          BY <2>2, <2>3, <4>1 DEF SlotGip, LastInsn, EndIp
        <4> QED
          BY <1>c, <2>2, <3>2, <4>2 DEF DispatchInv, BranchSlotMatchesIp
      <3> QED
        BY <3>1, <3>2
    <2>5. DispatchInv'
      BY <2>2, <2>3, <2>4 DEF DispatchInv
    <2> QED
      BY <2>3, <2>5 DEF CoherenceInv
  <1>EnterLink. CASE EnterLink
    <2>1. /\ branch_slot \in Slot /\ branch_slot[1] \in Allocated
          /\ link[branch_slot] = nullptr /\ SlotGip(branch_slot) = ip
          /\ ip \in Addr
          /\ cur \in Allocated /\ tcache_map[ip] = cur
      BY <1>t, <1>c, <1>EnterLink
      DEF EnterLink, ControlTypeInv, CpuTypeOK, DispatchInv, BranchSlotMatchesIp
    <2>2. tbs[cur].ip = ip
      BY <1>c, <1>t, <1>EnterLink, <2>1
      DEF EnterLink, CacheCoherent, ControlTypeInv
    <2>3. /\ LinkSlot(branch_slot, cur)
          /\ UNCHANGED <<tbs, tb_used, tcache_map, l1_cache, l1_brind_cache>>
          /\ branch_slot' = NoSlot /\ pc' = "jit"
      BY <1>EnterLink DEF EnterLink, RunBlock
    <2>4. /\ \A r \in Linked' : tcache_map[SlotGip(r)] = link'[r]
          /\ LinksRecorded'
      BY SMTT(30), <1>t, <1>c, <2>1, <2>2, <2>3, LinkCoherent
    <2>5. CacheCoherent' /\ OneTranslationPerIp'
      BY <1>c, <2>3, <2>4
      DEF CacheCoherent, OneTranslationPerIp, Allocated, SlotGip, LastInsn,
          EndIp, l1hash
    <2> QED
      BY <2>3, <2>4, <2>5 DEF CoherenceInv, DispatchInv, BranchSlotMatchesIp
  <1>EnterBrind. CASE EnterBrind
    <2>1. cur \in Allocated /\ tcache_map[tbs[cur].ip] = cur
      BY <1>t, <1>c, <1>EnterBrind
      DEF EnterBrind, ControlTypeInv, OneTranslationPerIp
    <2>2. /\ CacheBrind(cur)
          /\ UNCHANGED <<tbs, tb_used, tcache_map, l1_cache, link, link_map,
                         segment_entries, branch_slot>>
          /\ branch_slot = NoSlot /\ pc' = "jit"
      BY <1>EnterBrind DEF EnterBrind, RunBlock
    <2>3. \A h \in Hash : l1_brind_cache'[h].code # nullptr =>
            /\ l1hash(l1_brind_cache'[h].gip) = h
            /\ tcache_map[l1_brind_cache'[h].gip] = l1_brind_cache'[h].code
      BY <1>t, <1>c, <2>1, <2>2, CacheBrindCoherent
    <2>4. CacheCoherent'
      BY <1>c, <2>2, <2>3
      DEF CacheCoherent, Linked, Allocated, SlotGip, LastInsn, EndIp, l1hash
    <2>5. OneTranslationPerIp' /\ LinksRecorded'
      BY <1>c, <2>2 DEF OneTranslationPerIp, LinksRecorded, Linked, Allocated,
         SlotGip, CrossSegment, LastInsn, EndIp
    <2> QED
      BY <2>2, <2>4, <2>5 DEF CoherenceInv, DispatchInv, BranchSlotMatchesIp
  <1>SlotStubFound. CASE SlotStubFound
    <2> DEFINE a == SlotGip(slot)
               t == tcache_map[a]
    <2>1. slot \in Slot /\ slot[1] \in Allocated /\ a \in Addr
      BY <1>t, <1>SlotStubFound, SlotGipType DEF SlotStubFound, ControlTypeInv
    <2>2. /\ link[slot] = nullptr /\ t # nullptr
          /\ LookupFill(a) /\ LinkSlot(slot, t)
          /\ UNCHANGED <<tbs, tb_used, tcache_map, l1_brind_cache, branch_slot>>
          /\ branch_slot = NoSlot /\ pc' = "jit"
      BY <1>SlotStubFound, <1>lookup, <1>noslot, <2>1 DEF SlotStubFound, RunBlock
    <2>3. t \in Allocated /\ tbs[t].ip = a
      BY <1>c, <2>1, <2>2 DEF CacheCoherent
    <2>4. /\ \A r \in Linked' : tcache_map[SlotGip(r)] = link'[r]
          /\ LinksRecorded'
      BY <1>t, <1>c, <2>1, <2>2, <2>3, LinkCoherent
    <2>5. \A h \in Hash : l1_cache'[h] # nullptr =>
            \E b \in Addr : l1hash(b) = h /\ tcache_map[b] = l1_cache'[h]
      BY SMTT(30), <1>t, <1>c, <2>1, <2>2, FillCoherent
    <2>6. CacheCoherent' /\ OneTranslationPerIp'
      BY <1>c, <2>2, <2>4, <2>5
      DEF CacheCoherent, OneTranslationPerIp, Allocated, SlotGip, LastInsn,
          EndIp, l1hash
    <2> QED
      BY <2>2, <2>4, <2>6 DEF CoherenceInv, DispatchInv, BranchSlotMatchesIp
  <1>SlotStubEscape. CASE SlotStubEscape
    <2>1. slot \in Slot
      BY <1>t, <1>SlotStubEscape DEF SlotStubEscape, ControlTypeInv
    <2>3. UNCHANGED tcvars /\ branch_slot' = slot /\ ip' = SlotGip(slot) /\ pc' = "loop"
          /\ link[slot] = nullptr
      BY <1>SlotStubEscape DEF SlotStubEscape
    <2>4. SlotGip(branch_slot)' = SlotGip(slot)
      BY <2>3 DEF SlotGip, LastInsn, EndIp, tcvars
    <2>5. trapno' = "NONE"
      BY <1>SlotStubEscape DEF SlotStubEscape, TrapInv
    <2> QED
      BY <2>3, <2>4, <2>5, CoherenceFrame
      DEF CoherenceInv, DispatchInv, BranchSlotMatchesIp, tcvars
  <1>SlotLinked. CASE SlotLinked
    BY <1>SlotLinked, <1>noslot, <1>quiet DEF SlotLinked, RunBlock
  <1>BrindHit. CASE BrindHit
    BY <1>BrindHit, <1>noslot, <1>quiet DEF BrindHit, RunBlock
  <1>BrindMiss. CASE BrindMiss
    BY <1>BrindMiss, <1>noslot, <1>quiet DEF BrindMiss, ctlvars
  <1>BrindStubEscape. CASE BrindStubEscape
    BY <1>BrindStubEscape, <1>noslot, <1>quiet DEF BrindStubEscape
  <1>JitAlu. CASE JitAlu
    BY <1>JitAlu, <1>noslot, <1>quiet DEF JitAlu, AtInsn, Advance
  <1>JitLoad. CASE JitLoad
    BY <1>JitLoad, <1>noslot, <1>quiet DEF JitLoad, AtInsn, Advance
  <1>JitFence. CASE JitFence
    BY <1>JitFence, <1>noslot, <1>quiet DEF JitFence, AtInsn, Advance
  <1>JitFenceI. CASE JitFenceI
    BY <1>JitFenceI, <1>noslot, <1>quiet DEF JitFenceI, AtInsn, Advance
  <1>JitJal. CASE JitJal
    BY <1>JitJal, <1>noslot, <1>quiet DEF JitJal, AtInsn, LeaveBy
  <1>JitBrcc. CASE JitBrcc
    BY <1>JitBrcc, <1>noslot, <1>quiet DEF JitBrcc, AtInsn, LeaveBy
  <1>JitFallThrough. CASE JitFallThrough
    BY <1>JitFallThrough, <1>noslot, <1>quiet DEF JitFallThrough, LeaveBy
  <1>JitJalr. CASE JitJalr
    BY <1>JitJalr, <1>noslot, <1>quiet DEF JitJalr, AtInsn
  <1>JitEcall. CASE JitEcall
    BY <1>JitEcall, <1>noslot, <1>quiet DEF JitEcall, RaiseTrap
  <1>JitEbreak. CASE JitEbreak
    BY <1>JitEbreak, <1>noslot, <1>quiet DEF JitEbreak, RaiseTrap
  <1>EnvSyscall. CASE EnvSyscall
    BY <1>EnvSyscall, <1>noslot, <1>quiet DEF EnvSyscall, ctlvars
  <1>EnvExit. CASE EnvExit
    BY <1>EnvExit, <1>noslot, <1>quiet DEF EnvExit, ctlvars
  <1>EnvBreak. CASE EnvBreak
    BY <1>EnvBreak, <1>noslot, <1>quiet DEF EnvBreak, ctlvars
  <1>JitStoreCode. ASSUME NEW p \in Patches, JitStoreCode(p)
                   PROVE  CoherenceInv'
    BY <1>JitStoreCode, <1>noslot, <1>quiet DEF JitStoreCode, AtInsn, Advance
  <1>BrindStubFound. CASE BrindStubFound
    <2> DEFINE t == tcache_map[tgt]
    <2>1. tgt \in Addr
      BY <1>t DEF ControlTypeInv
    <2>2. /\ t # nullptr /\ LookupFill(tgt) /\ CacheBrind(t)
          /\ UNCHANGED <<tbs, tb_used, tcache_map, link, link_map,
                         segment_entries, branch_slot>>
          /\ branch_slot = NoSlot /\ pc' = "jit"
      BY <1>BrindStubFound, <1>lookup, <1>noslot, <2>1
      DEF BrindStubFound, RunBlock
    <2>3. t \in Allocated /\ tcache_map[tbs[t].ip] = t
      BY <1>c, <2>1, <2>2 DEF CacheCoherent
    <2>4. \A h \in Hash : l1_brind_cache'[h].code # nullptr =>
            /\ l1hash(l1_brind_cache'[h].gip) = h
            /\ tcache_map[l1_brind_cache'[h].gip] = l1_brind_cache'[h].code
      BY <1>t, <1>c, <2>2, <2>3, CacheBrindCoherent
    <2>5. \A h \in Hash : l1_cache'[h] # nullptr =>
            \E b \in Addr : l1hash(b) = h /\ tcache_map[b] = l1_cache'[h]
      BY <1>t, <1>c, <2>1, <2>2, FillCoherent
    <2>6. CacheCoherent'
      BY <1>c, <2>2, <2>4, <2>5
      DEF CacheCoherent, Linked, Allocated, SlotGip, LastInsn, EndIp, l1hash
    <2>7. OneTranslationPerIp' /\ LinksRecorded'
      BY <1>c, <2>2 DEF OneTranslationPerIp, LinksRecorded, Linked, Allocated,
         SlotGip, CrossSegment, LastInsn, EndIp
    <2> QED
      BY <2>2, <2>6, <2>7 DEF CoherenceInv, DispatchInv, BranchSlotMatchesIp
  <1>LoopMissAssert. CASE LoopMissAssert
    BY <1>LoopMissAssert, <1>abort DEF LoopMissAssert
  <1>TranslateFault. CASE TranslateFault
    BY <1>TranslateFault, <1>abort DEF TranslateFault
  <1>TranslateIllegal. CASE TranslateIllegal
    BY <1>TranslateIllegal, <1>abort DEF TranslateIllegal
  <1>EmitPoolFull. CASE EmitPoolFull
    BY <1>EmitPoolFull, <1>abort DEF EmitPoolFull
  <1>BrindNull. CASE BrindNull
    BY <1>BrindNull, <1>abort DEF BrindNull
  <1>JitMemFault. CASE JitMemFault
    BY <1>JitMemFault, <1>abort DEF JitMemFault
  <1>EnvUnhandled. CASE EnvUnhandled
    BY <1>EnvUnhandled, <1>abort DEF EnvUnhandled
  <1>Stutter. CASE UNCHANGED vars
    <2>1. BranchSlotMatchesIp'
      BY <1>Stutter, <1>wait DEF vars, cpuvars, ctlvars, tcvars
    <2>2. DispatchInv'
      BY <1>c, <1>Stutter, <2>1
      DEF vars, cpuvars, ctlvars, tcvars, DispatchInv
    <2> QED
      BY <1>Stutter, <2>2, CoherenceFrame DEF vars, CoherenceInv
  <1>Stopped. CASE Stopped
    BY <1>Stopped, <1>Stutter DEF Stopped
  <1> QED
    BY <1>LoopTrap, <1>LoopHit, <1>LoopMiss, <1>LoopMissAssert,
       <1>Translate, <1>TranslateFault, <1>TranslateIllegal, <1>Emit,
       <1>EmitPoolFull, <1>EnterLink, <1>EnterBrind, <1>SlotLinked,
       <1>SlotStubFound, <1>SlotStubEscape, <1>BrindHit, <1>BrindNull,
       <1>BrindMiss, <1>BrindStubFound, <1>BrindStubEscape, <1>JitAlu,
       <1>JitLoad, <1>JitMemFault, <1>JitFence, <1>JitFenceI, <1>JitJal,
       <1>JitBrcc, <1>JitFallThrough, <1>JitJalr, <1>JitEcall,
       <1>JitEbreak, <1>JitStoreCode, <1>EnvSyscall, <1>EnvExit,
       <1>EnvUnhandled, <1>EnvBreak, <1>Stopped, <1>Stutter
    DEF Next, Dispatch, Jit, Env

\* The inductive invariant holds in every reachable state.
THEOREM CoherenceInvariant == Spec => []CoherenceInv
  BY TypeInvariant, TrapInvariant, CoherenceInit, CoherenceStep, PTL DEF Spec

\* Every way to reach a block agrees with the map (see CacheCoherent).
THEOREM CacheIsCoherent == Spec => []CacheCoherent
  <1>1. CoherenceInv => CacheCoherent
    BY DEF CoherenceInv
  <1> QED
    BY <1>1, CoherenceInvariant, PTL

\* No address is ever translated twice.
THEOREM TranslatedOnce == Spec => []OneTranslationPerIp
  <1>1. CoherenceInv => OneTranslationPerIp
    BY DEF CoherenceInv
  <1> QED
    BY <1>1, CoherenceInvariant, PTL

\* link_map is exact, so undoing links through it would miss none.
THEOREM LinkMapExact == Spec => []LinksRecorded
  <1>1. CoherenceInv => LinksRecorded
    BY DEF CoherenceInv
  <1> QED
    BY <1>1, CoherenceInvariant, PTL

\* The assertion on branch_slot in the dispatch loop never fires.
THEOREM BranchSlotAssertion == Spec => []BranchSlotMatchesIp
  <1>1. CoherenceInv => BranchSlotMatchesIp
    BY DEF CoherenceInv, DispatchInv
  <1> QED
    BY <1>1, CoherenceInvariant, PTL

-----------------------------------------------------------------------------
(* Arithmetic of pages *)

\* Division with remainder.
LEMMA DivMod ==
  ASSUME NEW n \in Int, n > 0, NEW a \in Int
  PROVE  /\ a \div n \in Int
         /\ a = n * (a \div n) + (a % n)
         /\ a % n \in 0 .. n - 1
  <1>1. a \div n \in Int
    BY SMT
  <1>2. a = n * (a \div n) + (a % n)
    BY SMT
  <1>3. a % n \in 0 .. n - 1
    BY SMT
  <1> QED
    BY <1>1, <1>2, <1>3

\* The quotient is unique.
LEMMA DivUnique ==
  ASSUME NEW n \in Nat \ {0}, NEW q \in Int, NEW r \in 0 .. n - 1
  PROVE  (n * q + r) % n = r
  BY SMT

\* An address of the space is its own remainder.
LEMMA AddrSelf == ASSUME NEW a \in Addr PROVE a % ASpace = a
  BY ASpacePos, SMT DEF Addr

\* All addresses of a page round down to its base.
LEMMA SamePage ==
  ASSUME NEW a \in Addr, NEW b \in Nat,
         a <= b, b < rounddown(a) + PAGE_SIZE
  PROVE  rounddown(b) = rounddown(a)
  <1> DEFINE q == a \div PAGE_SIZE
             r == b - rounddown(a)
  <1>1. a \in Int /\ PAGE_SIZE \in Nat \ {0}
    BY ASpacePos, RV32CodeAssumption DEF Addr
  <1>2. q \in Int /\ a = PAGE_SIZE * q + (a % PAGE_SIZE) /\ a % PAGE_SIZE \in 0 .. PAGE_SIZE - 1
    BY <1>1, DivMod
  <1>3. rounddown(a) = PAGE_SIZE * q /\ PAGE_SIZE * q \in Int
    BY <1>1, <1>2 DEF rounddown
  <1>4. r \in 0 .. PAGE_SIZE - 1 /\ b = PAGE_SIZE * q + r
    BY <1>1, <1>2, <1>3
  <1>5. b % PAGE_SIZE = r
    BY <1>1, <1>2, <1>4, DivUnique
  <1> QED
    BY <1>3, <1>4, <1>5 DEF rounddown

\* Addresses of one page are mapped together.
LEMMA SamePageMapped ==
  ASSUME NEW a \in Addr, NEW b \in Addr, rounddown(a) = rounddown(b)
  PROVE  Mapped(a) = Mapped(b)
  <1>1. a \in Int /\ b \in Int /\ PAGE_SIZE \in Nat \ {0}
    BY ASpacePos, RV32CodeAssumption DEF Addr
  <1>2. /\ a \div PAGE_SIZE \in Int /\ rounddown(a) = PAGE_SIZE * (a \div PAGE_SIZE)
        /\ b \div PAGE_SIZE \in Int /\ rounddown(b) = PAGE_SIZE * (b \div PAGE_SIZE)
    BY <1>1, DivMod DEF rounddown
  <1>3. PAGE_SIZE * (a \div PAGE_SIZE) = PAGE_SIZE * (b \div PAGE_SIZE)
    BY <1>2
  <1>4. a \div PAGE_SIZE = b \div PAGE_SIZE
    <2>1. \A p, q \in Int : \A d \in Nat \ {0} : d * p = d * q => p = q
      BY SMT
    <2> QED
      BY <1>1, <1>2, <1>3, <2>1
  <1> QED
    BY <1>4 DEF Mapped

\* The page of an address ends inside the address space.
LEMMA PageEnd ==
  ASSUME NEW a \in Addr
  PROVE  /\ rounddown(a) \in Nat /\ rounddown(a) <= a
         /\ a < rounddown(a) + PAGE_SIZE
         /\ rounddown(a) + PAGE_SIZE <= ASpace
  <1> DEFINE q == a \div PAGE_SIZE
  <1>1. a \in Nat /\ a < PAGE_SIZE * NPages /\ PAGE_SIZE \in Nat \ {0} /\ NPages \in Nat
    BY ASpacePos, RV32CodeAssumption DEF Addr, ASpace
  <1>2. q \in Int /\ a = PAGE_SIZE * q + (a % PAGE_SIZE) /\ a % PAGE_SIZE \in 0 .. PAGE_SIZE - 1
    BY <1>1, DivMod
  <1>3. rounddown(a) = PAGE_SIZE * q /\ PAGE_SIZE * q \in Int
    BY <1>1, <1>2 DEF rounddown
  <1>4. q >= 0 /\ q < NPages
    BY <1>1, <1>2
  <1>5. PAGE_SIZE * q + PAGE_SIZE <= PAGE_SIZE * NPages /\ PAGE_SIZE * q >= 0
    <2>1. PAGE_SIZE * (q + 1) <= PAGE_SIZE * NPages
      BY <1>1, <1>2, <1>4
    <2> QED
      BY <1>1, <1>2, <1>4, <2>1
  <1> QED
    BY <1>1, <1>2, <1>3, <1>5 DEF ASpace

\* The boundary of a region that passes the assertion of TranslateIPRange:
\* it does not pass the page of a, no region starts between, and a is not
\* the last address, where insn_ip would wrap to 0 below the boundary.
LEMMA BoundaryBounds ==
  ASSUME NEW a \in Addr, NEW u \in Addr, IsBoundary(u, a), u # 0
  PROVE  /\ u <= rounddown(a) + PAGE_SIZE
         /\ a + 1 < ASpace
         /\ \A v \in Addr : a < v /\ v < u => tcache_map[v] = nullptr
  <1>1. /\ a \in Nat /\ u \in Nat /\ PAGE_SIZE \in Nat /\ PAGE_SIZE > 1
        /\ ASpace \in Nat /\ a < ASpace /\ a % PAGE_SIZE \in Nat
    BY ASpacePos, RV32CodeAssumption, ModRange DEF Addr
  <1>2. /\ rounddown(a) \in Nat /\ rounddown(a) <= a
        /\ a < rounddown(a) + PAGE_SIZE
        /\ rounddown(a) + PAGE_SIZE <= ASpace
    BY PageEnd
  <1>3. a % PAGE_SIZE = a - rounddown(a)
    BY <1>1 DEF rounddown
  <1>4. roundup(a) <= rounddown(a) + PAGE_SIZE /\ roundup(a) \in Nat
    <2>1. CASE a % PAGE_SIZE = 0
      BY <1>1, <1>2, <2>1, AddrSelf DEF roundup
    <2>2. CASE a % PAGE_SIZE # 0 /\ rounddown(a) + PAGE_SIZE < ASpace
      <3>1. rounddown(a) + PAGE_SIZE \in Addr
        BY <1>1, <1>2, <2>2 DEF Addr
      <3> QED
        BY <1>1, <1>2, <2>2, <3>1, AddrSelf DEF roundup
    <2>3. CASE a % PAGE_SIZE # 0 /\ rounddown(a) + PAGE_SIZE = ASpace
      BY <1>1, <1>2, <2>3 DEF roundup
    <2> QED
      BY <1>2, <1>1, <2>1, <2>2, <2>3
  <1>5. a + 1 = ASpace => roundup(a) = 0
    <2> SUFFICES ASSUME a + 1 = ASpace PROVE roundup(a) = 0
      OBVIOUS
    <2>1. rounddown(a) + PAGE_SIZE = ASpace
      BY <1>1, <1>2
    <2>2. a % PAGE_SIZE # 0
      BY <1>1, <1>2, <1>3, <2>1
    <2> QED
      BY <1>1, <2>1, <2>2 DEF roundup
  <1>6. CASE HasUpperBound(a)
    <2>1. PICK v \in Addr : /\ IsUpperBound(v, a)
                            /\ u = IF roundup(a) <= v THEN roundup(a) ELSE v
      BY <1>6 DEF IsBoundary
    <2>2. v \in Nat /\ v > a /\ u <= v /\ v < ASpace
      BY <1>1, <1>4, <2>1 DEF IsUpperBound, Addr
    <2>3. \A w \in Addr : a < w /\ w < u => tcache_map[w] = nullptr
      <3> SUFFICES ASSUME NEW w \in Addr, a < w, w < u, tcache_map[w] # nullptr
                   PROVE  FALSE
        OBVIOUS
      <3>1. v <= w /\ w \in Nat
        BY <1>1, <2>1 DEF IsUpperBound, Addr
      <3> QED
        BY <1>1, <2>2, <3>1
    <2>4. u <= rounddown(a) + PAGE_SIZE
      BY <1>1, <1>2, <1>4, <2>1, <2>2
    <2> QED
      BY <1>1, <1>5, <2>1, <2>2, <2>3, <2>4
  <1>7. CASE ~HasUpperBound(a)
    <2>1. u = roundup(a)
      BY <1>7 DEF IsBoundary
    <2>2. \A w \in Addr : a < w => tcache_map[w] = nullptr
      BY <1>1, <1>7 DEF HasUpperBound, Addr
    <2> QED
      BY <1>1, <1>4, <1>5, <2>1, <2>2
  <1> QED
    BY <1>6, <1>7

-----------------------------------------------------------------------------
(* The inductive invariant.  What is announced is what the loop of         *)
(* TranslateIPRange has gathered, so the properties of the regions need    *)
(* their counterparts for the region in progress.                          *)

\* The bounds GetCompilationIPRange gave the region in progress.
JobBounds ==
  /\ job.ip + 1 < ASpace
  /\ job.upper <= rounddown(job.ip) + PAGE_SIZE
  /\ \A v \in Addr : job.ip < v /\ v < job.upper => tcache_map[v] = nullptr

\* What the loop has gathered keeps to them: past the first instruction it
\* never reads at or above the boundary.
JobGathered ==
  LET n == Len(job.insns)
  IN  /\ n <= TB_MAX_INSNS
      /\ \A i \in 1 .. n - 1 : job.insns[i].op \notin ControlOps
      /\ n > 1 => job.ip + n - 1 < job.upper
      /\ pc = "translate" =>
           /\ n < TB_MAX_INSNS
           /\ n > 0 => job.insns[n].op \notin ControlOps
           /\ n > 0 => job.ip + n < job.upper

JobInv == pc \in {"translate", "emit"} => JobBounds /\ JobGathered

RegionInv == JobInv /\ RegionInPage /\ StopsAtEarlierEntry

\* There is no region at the start.
LEMMA RegionInit == Init => RegionInv
  BY DEF Init, tcache_Init, RegionInv, JobInv, RegionInPage,
     StopsAtEarlierEntry, Allocated

\* A step that announces no region and leaves the translator keeps it.
LEMMA RegionFrame ==
  ASSUME RegionInv, UNCHANGED <<tbs, tb_used>>
  PROVE  /\ RegionInPage' /\ StopsAtEarlierEntry'
         /\ pc' \notin {"translate", "emit"} => RegionInv'
  BY DEF RegionInv, JobInv, RegionInPage, StopsAtEarlierEntry, Allocated,
     rounddown

\* A lookup that misses starts a region inside its bounds.
LEMMA RegionLoopMiss ==
  ASSUME TypeInv, RegionInv, LoopMiss
  PROVE  RegionInv'
  <1>1. PICK u \in Addr : /\ IsBoundary(u, ip) /\ u # 0
                          /\ job' = [ip |-> ip, upper |-> u, insns |-> <<>>]
    BY DEF LoopMiss
  <1>2. ip \in Addr /\ UNCHANGED <<tbs, tb_used, tcache_map>> /\ pc' = "translate"
    BY DEF LoopMiss, TypeInv, CpuTypeOK, tcvars
  <1>3. /\ u <= rounddown(ip) + PAGE_SIZE
        /\ ip + 1 < ASpace
        /\ \A v \in Addr : ip < v /\ v < u => tcache_map[v] = nullptr
    BY <1>1, <1>2, BoundaryBounds
  <1>4. JobBounds'
    BY <1>1, <1>2, <1>3 DEF JobBounds, rounddown
  <1>5. Len(job'.insns) = 0
    BY <1>1
  <1>6. JobGathered'
    BY <1>5, TCacheAssumption DEF JobGathered
  <1> QED
    BY <1>2, <1>4, <1>6, RegionFrame DEF RegionInv, JobInv

\* One turn of the translator's loop keeps the region inside its bounds.
LEMMA RegionTranslate ==
  ASSUME TypeInv, RegionInv, Translate
  PROVE  RegionInv'
  <1> DEFINE n == Len(job.insns)
             i0 == code[InsnIp(job)]
  <1>1. /\ job.ip \in Nat /\ job.upper \in Nat /\ job.upper < ASpace
        /\ job.insns \in Seq(Insn) /\ n \in Nat /\ ASpace \in Nat \ {0}
        /\ job \in [ip : Addr, upper : Addr, insns : Seq(Insn)]
    BY ASpacePos DEF TypeInv, ControlTypeInv, Addr
  <1>2. JobBounds /\ JobGathered /\ pc = "translate"
    BY DEF Translate, RegionInv, JobInv
  <1>3. /\ job'.ip = job.ip /\ job'.upper = job.upper
        /\ job'.insns = Append(job.insns, i0)
        /\ UNCHANGED <<tbs, tb_used, tcache_map>>
        /\ pc' = IF RegionEnds(job') THEN "emit" ELSE "translate"
    BY <1>1 DEF Translate, tcvars
  <1>4. i0 \in Insn
    <2>1. job.ip + n \in Int
      BY <1>1
    <2> QED
      BY <2>1, AddrMod DEF InsnIp, TypeInv, CpuTypeOK
  <1>5. /\ Len(job'.insns) = n + 1
        /\ job'.insns[n + 1] = i0
        /\ \A i \in 1 .. n : job'.insns[i] = job.insns[i]
    BY <1>1, <1>3, <1>4
  <1>6. JobBounds'
    BY <1>2, <1>3 DEF JobBounds, rounddown
  <1>7. /\ n + 1 <= TB_MAX_INSNS
        /\ \A i \in 1 .. n : job'.insns[i].op \notin ControlOps
        /\ n + 1 > 1 => job.ip + n < job.upper
    <2>1. \A i \in 1 .. n : i = n \/ i \in 1 .. n - 1
      BY <1>1
    <2> QED
      BY <1>1, <1>2, <1>5, <2>1, TCacheAssumption DEF JobGathered
  <1>8. ASSUME pc' = "translate"
        PROVE  /\ n + 1 < TB_MAX_INSNS
               /\ job'.insns[n + 1].op \notin ControlOps
               /\ job.ip + n + 1 < job.upper
    <2>1. ~RegionEnds(job')
      BY <1>3, <1>8
    <2>2. /\ i0.op \notin ControlOps /\ n + 1 # TB_MAX_INSNS
          /\ ~(InsnIp(job') >= job.upper)
      BY <1>1, <1>3, <1>5, <2>1 DEF RegionEnds
    <2>3. job.ip + n + 1 < ASpace
      BY <1>1, <1>2, <1>7 DEF JobBounds
    <2>4. InsnIp(job') = job.ip + n + 1
      <3>1. job.ip + n + 1 \in Addr /\ job'.ip + Len(job'.insns) = job.ip + n + 1
        BY <1>1, <1>3, <1>5, <2>3 DEF Addr
      <3> QED
        BY <3>1, AddrSelf DEF InsnIp
    <2> QED
      BY <1>1, <1>5, <1>7, <2>2, <2>4, TCacheAssumption
  <1>9. JobGathered'
    BY <1>1, <1>3, <1>5, <1>7, <1>8 DEF JobGathered
  <1> QED
    BY <1>3, <1>6, <1>9, RegionFrame DEF RegionInv, JobInv

\* Announcing the region makes a block of it, and the bounds of the region
\* in progress become the properties of the block.
LEMMA RegionEmit ==
  ASSUME TypeInv, CoherenceInv, RegionInv, Emit
  PROVE  RegionInv'
  <1> DEFINE n == Len(job.insns)
             t0 == tb_used + 1
  <1>1. /\ job.ip \in Addr /\ job.ip \in Nat /\ job.upper \in Nat
        /\ job.insns \in Seq(Insn) /\ n \in Nat /\ n >= 1
        /\ PAGE_SIZE \in Nat /\ rounddown(job.ip) \in Nat
    BY ASpacePos, PageEnd, RV32CodeAssumption DEF Emit, TypeInv, ControlTypeInv, Addr
  <1>2. JobBounds /\ JobGathered
    BY DEF Emit, RegionInv, JobInv
  <1>3. /\ tbs' = [tbs EXCEPT ![t0] = [ip |-> job.ip, insns |-> job.insns]]
        /\ tb_used' = t0 /\ pc' = "enter"
        /\ tb_used \in Nat /\ t0 \in TBId
    BY TCacheAssumption
    DEF Emit, AnnounceRegion, PoolsFit, TypeInv, CacheTypeInv, TCacheTypeOK, TBId
  <1>4. Allocated' = Allocated \cup {t0} /\ \A u \in Allocated : u < t0
    BY <1>3 DEF Allocated
  <1>5. /\ tbs'[t0].ip = job.ip /\ tbs'[t0].insns = job.insns
        /\ \A u \in Allocated : tbs'[u] = tbs[u]
    BY <1>3, <1>4, AllocatedTBPtr DEF TypeInv, CacheTypeInv, TCacheTypeOK
  <1>6. RegionInPage'
    <2>1. ASSUME NEW t \in Allocated
          PROVE  /\ Len(tbs'[t].insns) \in 1 .. TB_MAX_INSNS
                 /\ rounddown(tbs'[t].ip) = rounddown(tbs'[t].ip + Len(tbs'[t].insns) - 1)
                 /\ \A i \in 1 .. Len(tbs'[t].insns) - 1 :
                      tbs'[t].insns[i].op \notin ControlOps
      BY <1>5, <2>1 DEF RegionInv, RegionInPage
    <2>2. /\ n \in 1 .. TB_MAX_INSNS
          /\ \A i \in 1 .. n - 1 : job.insns[i].op \notin ControlOps
      BY <1>1, <1>2, TCacheAssumption DEF JobGathered
    <2>3. rounddown(job.ip) = rounddown(job.ip + n - 1)
      <3>1. CASE n = 1
        <4>1. job.ip + n - 1 = job.ip
          BY <1>1, <3>1
        <4> QED
          BY <4>1
      <3>2. CASE n > 1
        <4>1. /\ job.ip + n - 1 \in Nat /\ job.ip <= job.ip + n - 1
              /\ job.ip + n - 1 < rounddown(job.ip) + PAGE_SIZE
          BY <1>1, <1>2, <3>2 DEF JobBounds, JobGathered
        <4> QED
          BY <1>1, <4>1, SamePage
      <3> QED
        BY <1>1, <3>1, <3>2
    <2>4. \A t \in Allocated' :
            /\ Len(tbs'[t].insns) \in 1 .. TB_MAX_INSNS
            /\ rounddown(tbs'[t].ip) = rounddown(tbs'[t].ip + Len(tbs'[t].insns) - 1)
            /\ \A i \in 1 .. Len(tbs'[t].insns) - 1 :
                 tbs'[t].insns[i].op \notin ControlOps
      BY <1>4, <1>5, <2>1, <2>2, <2>3
    <2> QED
      BY <2>4 DEF RegionInPage, rounddown
  <1>7. StopsAtEarlierEntry'
    <2> SUFFICES ASSUME NEW t \in Allocated', NEW u \in Allocated', u < t,
                        tbs'[u].ip > tbs'[t].ip,
                        tbs'[u].ip < tbs'[t].ip + Len(tbs'[t].insns)
                 PROVE  FALSE
      BY DEF StopsAtEarlierEntry
    <2>1. tb_used \in Nat /\ \A w \in Allocated : w \in Nat /\ w <= tb_used
      BY <1>3 DEF Allocated
    <2>2. u \in Allocated
      BY <1>4, <2>1
    <2>3. CASE t \in Allocated
      BY <1>5, <2>2, <2>3 DEF RegionInv, StopsAtEarlierEntry
    <2>4. CASE t = t0
      <3>1. /\ tbs[u].ip \in Addr /\ tcache_map[tbs[u].ip] = u /\ u # nullptr
        BY <2>2, AllocatedTBPtr
        DEF CoherenceInv, OneTranslationPerIp, TypeInv, CacheTypeInv,
            TCacheTypeOK, TBlock, Allocated, nullptr
      <3>2. tbs[u].ip > job.ip /\ tbs[u].ip < job.ip + n
        BY <1>5, <2>2, <2>4
      <3>3. tbs[u].ip \in Nat
        BY <3>1, ASpacePos DEF Addr
      <3>4. job.ip < tbs[u].ip /\ tbs[u].ip < job.upper
        BY SMTT(30), <1>1, <1>2, <3>2, <3>3 DEF JobGathered
      <3> QED
        BY <1>2, <3>1, <3>4 DEF JobBounds
    <2> QED
      BY <1>4, <2>3, <2>4
  <1> QED
    BY <1>3, <1>6, <1>7 DEF RegionInv, JobInv

\* Every step preserves the region invariant.
LEMMA RegionStep ==
  TypeInv /\ CoherenceInv /\ RegionInv /\ [Next]_vars => RegionInv'
  <1> SUFFICES ASSUME TypeInv, CoherenceInv, RegionInv, [Next]_vars
               PROVE  RegionInv'
    OBVIOUS
  <1>1. ASSUME NEW why, Abort(why) PROVE RegionInv'
    BY <1>1, RegionFrame DEF Abort, tcvars
  <1>2. CASE LoopMiss
    BY <1>2, RegionLoopMiss
  <1>3. CASE Translate
    BY <1>3, RegionTranslate
  <1>4. CASE Emit
    BY <1>4, RegionEmit
  <1>5. CASE LoopTrap \/ LoopHit \/ EnterLink \/ EnterBrind
    BY <1>5, RegionFrame
    DEF LoopTrap, LoopHit, EnterLink, EnterBrind, RunBlock, tcvars
  <1>6. CASE SlotLinked \/ SlotStubFound \/ SlotStubEscape
    BY <1>6, RegionFrame
    DEF SlotLinked, SlotStubFound, SlotStubEscape, RunBlock, tcvars
  <1>7. CASE BrindHit \/ BrindMiss \/ BrindStubFound \/ BrindStubEscape
    BY <1>7, RegionFrame
    DEF BrindHit, BrindMiss, BrindStubFound, BrindStubEscape, RunBlock, tcvars
  <1>8. CASE \/ JitAlu \/ JitLoad \/ JitFence \/ JitFenceI
             \/ \E p \in Patches : JitStoreCode(p)
    BY <1>8, RegionFrame
    DEF JitAlu, JitLoad, JitFence, JitFenceI, JitStoreCode, AtInsn, Advance, tcvars
  <1>9. CASE JitJal \/ JitBrcc \/ JitFallThrough \/ JitJalr
    BY <1>9, RegionFrame
    DEF JitJal, JitBrcc, JitFallThrough, JitJalr, AtInsn, LeaveBy, tcvars
  <1>10. CASE JitEcall \/ JitEbreak \/ EnvSyscall \/ EnvExit \/ EnvBreak
    BY <1>10, RegionFrame
    DEF JitEcall, JitEbreak, RaiseTrap, EnvSyscall, EnvExit, EnvBreak, tcvars
  <1>11. CASE \/ LoopMissAssert \/ TranslateFault \/ TranslateIllegal
              \/ EmitPoolFull \/ BrindNull \/ JitMemFault \/ EnvUnhandled
    BY <1>1, <1>11 DEF LoopMissAssert, TranslateFault, TranslateIllegal,
       EmitPoolFull, BrindNull, JitMemFault, EnvUnhandled
  <1>12. CASE Stopped \/ UNCHANGED vars
    <2>1. UNCHANGED <<pc, job, tbs, tb_used, tcache_map>>
      BY <1>12 DEF Stopped, vars, ctlvars, tcvars
    <2>2. JobInv'
      BY <2>1 DEF RegionInv, JobInv, JobBounds, JobGathered, rounddown
    <2> QED
      BY <2>1, <2>2, RegionFrame DEF RegionInv
  <1> QED
    BY <1>2, <1>3, <1>4, <1>5, <1>6, <1>7, <1>8, <1>9, <1>10, <1>11, <1>12
    DEF Next, Dispatch, Jit, Env

\* The region invariant holds in every reachable state.
THEOREM RegionInvariant == Spec => []RegionInv
  BY TypeInvariant, CoherenceInvariant, RegionInit, RegionStep, PTL DEF Spec

\* A region stays on the page of its entry, is no longer than TB_MAX_INSNS
\* and has no control transfer but its last instruction.
THEOREM RegionsInPage == Spec => []RegionInPage
  <1>1. RegionInv => RegionInPage
    BY DEF RegionInv
  <1> QED
    BY <1>1, RegionInvariant, PTL

\* A region stops before the entry of every region older than itself.
THEOREM RegionsStopAtEntries == Spec => []StopsAtEarlierEntry
  <1>1. RegionInv => StopsAtEarlierEntry
    BY DEF RegionInv
  <1> QED
    BY <1>1, RegionInvariant, PTL

-----------------------------------------------------------------------------
(* Write-once translations *)

\* What translated code may already point to is left as it is.
Kept ==
  /\ \A t \in Allocated : tbs'[t] = tbs[t]
  /\ \A a \in Addr : tcache_map[a] # nullptr => tcache_map'[a] = tcache_map[a]
  /\ \A s \in Linked : link'[s] = link[s]

\* Linking a slot that is not linked leaves the linked ones.
LEMMA LinkKept ==
  ASSUME CacheTypeInv, NEW s \in Slot, link[s] = nullptr, NEW t, LinkSlot(s, t)
  PROVE  \A r \in Linked : link'[r] = link[r]
  BY DEF CacheTypeInv, TCacheTypeOK, LinkSlot, Linked

\* No step rewrites a block, an entry of the map or a linked slot: a slot is
\* only linked while it is not, and a region only announced for an address
\* that has none.
LEMMA KeptStep == TypeInv /\ CoherenceInv /\ [Next]_vars => Kept
  <1> SUFFICES ASSUME TypeInv, CoherenceInv, [Next]_vars PROVE Kept
    OBVIOUS
  <1>1. ASSUME UNCHANGED <<tbs, tcache_map, link>> PROVE Kept
    BY <1>1 DEF Kept
  <1>2. ASSUME NEW why, Abort(why) PROVE Kept
    BY <1>1, <1>2 DEF Abort, tcvars
  <1>3. CASE Emit
    <2>1. /\ job.ip = ip /\ ip \in Addr /\ tcache_map[ip] = nullptr
      BY <1>3 DEF Emit, CoherenceInv, DispatchInv, TypeInv, CpuTypeOK
    <2>2. /\ tbs' = [tbs EXCEPT ![tb_used + 1] = [ip |-> ip, insns |-> job.insns]]
          /\ tcache_map' = [tcache_map EXCEPT ![ip] = tb_used + 1]
          /\ link' = link
      BY <1>3, <2>1 DEF Emit, AnnounceRegion, Insert
    <2>3. tb_used \in Nat /\ \A t \in Allocated : t \in TBId /\ t # tb_used + 1
      BY AllocatedTBPtr DEF TypeInv, CacheTypeInv, TCacheTypeOK, Allocated
    <2>4. \A t \in Allocated : tbs'[t] = tbs[t]
      BY <2>2, <2>3 DEF TypeInv, CacheTypeInv, TCacheTypeOK
    <2>5. \A a \in Addr : tcache_map[a] # nullptr => tcache_map'[a] = tcache_map[a]
      BY <2>1, <2>2 DEF TypeInv, CacheTypeInv, TCacheTypeOK
    <2> QED
      BY <2>2, <2>4, <2>5 DEF Kept
  <1>4. CASE EnterLink
    <2>1. branch_slot \in Slot /\ link[branch_slot] = nullptr
      BY <1>4 DEF EnterLink, TypeInv, ControlTypeInv, CoherenceInv, DispatchInv,
         BranchSlotMatchesIp
    <2>2. LinkSlot(branch_slot, cur) /\ UNCHANGED <<tbs, tcache_map>>
      BY <1>4 DEF EnterLink
    <2> QED
      BY <2>1, <2>2, LinkKept DEF Kept, TypeInv
  <1>5. CASE SlotStubFound
    <2>1. slot \in Slot /\ link[slot] = nullptr
      BY <1>5 DEF SlotStubFound, TypeInv, ControlTypeInv
    <2>2. /\ LinkSlot(slot, LookupResult(SlotGip(slot)))
          /\ UNCHANGED <<tbs, tcache_map>>
      BY <1>5 DEF SlotStubFound
    <2> QED
      BY <2>1, <2>2, LinkKept DEF Kept, TypeInv
  <1>6. CASE LoopTrap \/ LoopHit \/ LoopMiss \/ Translate \/ EnterBrind
    BY <1>1, <1>6 DEF LoopTrap, LoopHit, LoopMiss, Translate, EnterBrind, tcvars
  <1>7. CASE SlotLinked \/ SlotStubEscape
    BY <1>1, <1>7 DEF SlotLinked, SlotStubEscape, tcvars
  <1>8. CASE BrindHit \/ BrindMiss \/ BrindStubFound \/ BrindStubEscape
    BY <1>1, <1>8
    DEF BrindHit, BrindMiss, BrindStubFound, BrindStubEscape, tcvars
  <1>9. CASE \/ JitAlu \/ JitLoad \/ JitFence \/ JitFenceI
             \/ \E p \in Patches : JitStoreCode(p)
    BY <1>1, <1>9
    DEF JitAlu, JitLoad, JitFence, JitFenceI, JitStoreCode, Advance, tcvars
  <1>10. CASE JitJal \/ JitBrcc \/ JitFallThrough \/ JitJalr
    BY <1>1, <1>10 DEF JitJal, JitBrcc, JitFallThrough, JitJalr, LeaveBy, tcvars
  <1>11. CASE JitEcall \/ JitEbreak \/ EnvSyscall \/ EnvExit \/ EnvBreak
    BY <1>1, <1>11
    DEF JitEcall, JitEbreak, RaiseTrap, EnvSyscall, EnvExit, EnvBreak, tcvars
  <1>12. CASE \/ LoopMissAssert \/ TranslateFault \/ TranslateIllegal
              \/ EmitPoolFull \/ BrindNull \/ JitMemFault \/ EnvUnhandled
    BY <1>2, <1>12 DEF LoopMissAssert, TranslateFault, TranslateIllegal,
       EmitPoolFull, BrindNull, JitMemFault, EnvUnhandled
  <1>13. CASE Stopped \/ UNCHANGED vars
    BY <1>1, <1>13 DEF Stopped, vars, tcvars
  <1> QED
    BY <1>3, <1>4, <1>5, <1>6, <1>7, <1>8, <1>9, <1>10, <1>11, <1>12, <1>13
    DEF Next, Dispatch, Jit, Env

\* Blocks, entries of the map and linked slots are write-once: host code that
\* a slot, a cache line or a return address already points to keeps its
\* meaning.
THEOREM TranslationsStable == Spec => TranslationStable
  <1>1. TypeInv /\ CoherenceInv /\ [Next]_vars => [Kept]_vars
    BY KeptStep
  <1>2. Spec => [][Kept]_vars
    BY <1>1, TypeInvariant, CoherenceInvariant, PTL DEF Spec
  <1> QED
    BY <1>2 DEF TranslationStable, Kept

-----------------------------------------------------------------------------
(* The refinement.  The emulator is a hart: every step of Execute is a step *)
(* of GuestMachine under the refinement mapping, or leaves the guest's view *)
(* alone.                                                                   *)
(*                                                                          *)
(* No block is ever invalidated, so this cannot hold of a guest that        *)
(* changes its code, executes fence.i and expects the new code (see         *)
(* FetchCoherent).  The theorem is about every other guest.                 *)


\* No fence.i follows a store that changed code: when one is executed, each
\* fetch has only one possible result already.
NoFenceIAfterStore == [][JitFenceI => fetchable' = fetchable]_vars

-----------------------------------------------------------------------------
(* The inductive invariant *)

\* What was translated from an address may still be fetched there: blocks,
\* the region in progress, and memory itself.
FetchedInv ==
  /\ \A a \in Addr : code[a] \in fetchable[a]
  /\ \A t \in Allocated : \A i \in 1 .. Len(tbs[t].insns) :
       tbs[t].insns[i] \in fetchable[(tbs[t].ip + i - 1) % ASpace]
  /\ pc \in {"translate", "emit"} => \A i \in 1 .. Len(job.insns) :
       job.insns[i] \in fetchable[(job.ip + i - 1) % ASpace]

\* Translated code falls out of a block only past its last instruction, and
\* only if that one is no control transfer.
PosInv ==
  pc = "jit" =>
    /\ pos <= Len(tbs[cur].insns) + 1
    /\ pos > 1 => tbs[cur].insns[pos - 1].op \notin ControlOps

\* A pending trap was raised by the instruction at ip.
TrappedInv ==
  pc \in {"loop", "env"} =>
    /\ trapno = "ECALL" => \E i \in fetchable[ip] : i.op = "ecall"
    /\ trapno = "EBREAK" => \E i \in fetchable[ip] : i.op = "ebreak"

HartInv == FetchedInv /\ PosInv /\ TrappedInv

\* The two next-state facts every step below starts from.
HartStep == [Next]_vars /\ (JitFenceI => fetchable' = fetchable)

\* At the start a fetch returns what memory holds, and nothing is translated.
LEMMA HartInit == Init => HartInv
  <1> SUFFICES ASSUME Init PROVE HartInv
    OBVIOUS
  <1>1. \A a \in Addr : fetchable[a] = {code[a]}
    BY DEF Init
  <1> QED
    BY <1>1 DEF Init, tcache_Init, HartInv, FetchedInv, PosInv, TrappedInv, Allocated

\* Only a store into code and a fence.i change what the guest may fetch.
LEMMA GuestvarsFrame ==
  ASSUME [Next]_vars
  PROVE  UNCHANGED guestvars \/ JitFenceI \/ \E p \in Patches : JitStoreCode(p)
  <1>1. ASSUME NEW why, Abort(why) PROVE UNCHANGED guestvars
    BY <1>1 DEF Abort
  <1>2. CASE Dispatch
    BY <1>1, <1>2
    DEF Dispatch, LoopTrap, LoopHit, LoopMiss, LoopMissAssert, Translate,
        TranslateFault, TranslateIllegal, Emit, EmitPoolFull, EnterLink,
        EnterBrind, SlotLinked, SlotStubFound, SlotStubEscape, BrindHit,
        BrindNull, BrindMiss, BrindStubFound, BrindStubEscape
  <1>3. CASE Env \/ Stopped \/ UNCHANGED vars
    BY <1>1, <1>3
    DEF Env, EnvSyscall, EnvExit, EnvUnhandled, EnvBreak, Stopped, vars
  <1>4. CASE JitAlu \/ JitLoad \/ JitMemFault \/ JitFence \/ JitJal \/ JitBrcc
    BY <1>1, <1>4
    DEF JitAlu, JitLoad, JitMemFault, JitFence, JitJal, JitBrcc, LeaveBy
  <1>5. CASE JitFallThrough \/ JitJalr \/ JitEcall \/ JitEbreak
    BY <1>5
    DEF JitFallThrough, JitJalr, JitEcall, JitEbreak, RaiseTrap, LeaveBy
  <1> QED
    BY <1>2, <1>3, <1>4, <1>5 DEF Next, Jit

\* Without a fence.i after a store, what may be fetched only grows.
LEMMA FetchGrows ==
  ASSUME TypeInv, HartStep
  PROVE  \A a \in Addr : fetchable[a] \subseteq fetchable'[a]
  <1>1. ASSUME NEW p \in Patches, JitStoreCode(p)
        PROVE  \A a \in Addr : fetchable[a] \subseteq fetchable'[a]
    BY <1>1 DEF JitStoreCode, TypeInv, CpuTypeOK
  <1> QED
    BY <1>1, GuestvarsFrame DEF HartStep, guestvars

\* Memory always may be fetched: a store adds what it writes.
LEMMA CodeFetchable ==
  ASSUME TypeInv, HartInv, HartStep
  PROVE  \A a \in Addr : code'[a] \in fetchable'[a]
  <1>1. ASSUME code' = code
        PROVE  \A a \in Addr : code'[a] \in fetchable'[a]
    BY <1>1, FetchGrows DEF HartInv, FetchedInv
  <1>2. ASSUME NEW p \in Patches, JitStoreCode(p)
        PROVE  \A a \in Addr : code'[a] \in fetchable'[a]
    BY <1>2 DEF JitStoreCode, TypeInv, CpuTypeOK, HartInv, FetchedInv
  <1> QED
    BY <1>1, <1>2, GuestvarsFrame DEF HartStep, guestvars, JitFenceI

\* The address of each instruction of a region.
LEMMA InsnAddr ==
  ASSUME NEW a \in Addr, NEW i \in Int
  PROVE  (a + i - 1) % ASpace \in Addr
  <1>1. a + i - 1 \in Int
    BY ASpacePos DEF Addr
  <1> QED
    BY <1>1, AddrMod

\* Blocks that stay may still be fetched.
LEMMA BlocksFetched ==
  ASSUME TypeInv, HartInv, HartStep, NEW t \in Allocated, tbs'[t] = tbs[t],
         NEW i \in 1 .. Len(tbs[t].insns)
  PROVE  tbs'[t].insns[i] \in fetchable'[(tbs'[t].ip + i - 1) % ASpace]
  <1>1. tbs[t].ip \in Addr
    BY AllocatedTBPtr DEF TypeInv, CacheTypeInv, TCacheTypeOK, TBlock
  <1>2. (tbs[t].ip + i - 1) % ASpace \in Addr
    BY <1>1, InsnAddr
  <1> QED
    BY <1>2, FetchGrows DEF HartInv, FetchedInv

\* Every step keeps what was translated fetchable.
LEMMA FetchedStep ==
  ASSUME TypeInv, CoherenceInv, HartInv, HartStep
  PROVE  FetchedInv'
  <1>1. \A a \in Addr : code'[a] \in fetchable'[a]
    BY CodeFetchable
  <1>blocks. ASSUME UNCHANGED <<tbs, tb_used>>
             PROVE  \A t \in Allocated' : \A i \in 1 .. Len(tbs'[t].insns) :
                      tbs'[t].insns[i] \in fetchable'[(tbs'[t].ip + i - 1) % ASpace]
    <2>1. Allocated' = Allocated /\ tbs' = tbs
      BY <1>blocks DEF Allocated
    <2> QED
      BY <2>1, BlocksFetched
  <1>2. ASSUME UNCHANGED <<tbs, tb_used>>,
               pc' \in {"translate", "emit"} =>
                 pc \in {"translate", "emit"} /\ job' = job
        PROVE  FetchedInv'
    <2>1. \A t \in Allocated' : \A i \in 1 .. Len(tbs'[t].insns) :
            tbs'[t].insns[i] \in fetchable'[(tbs'[t].ip + i - 1) % ASpace]
      BY <1>blocks, <1>2
    <2>2. ASSUME pc' \in {"translate", "emit"}, NEW i \in 1 .. Len(job'.insns)
          PROVE  job'.insns[i] \in fetchable'[(job'.ip + i - 1) % ASpace]
      <3>1. job' = job /\ pc \in {"translate", "emit"} /\ job.ip \in Addr
        BY <1>2, <2>2 DEF TypeInv, ControlTypeInv
      <3>2. (job.ip + i - 1) % ASpace \in Addr
        BY <3>1, InsnAddr
      <3> QED
        BY <2>2, <3>1, <3>2, FetchGrows DEF HartInv, FetchedInv
    <2> QED
      BY <1>1, <2>1, <2>2 DEF FetchedInv, ASpace
  <1>3. ASSUME NEW why, Abort(why) PROVE FetchedInv'
    BY <1>2, <1>3 DEF Abort, tcvars
  <1>4. CASE LoopMiss
    <2>1. UNCHANGED <<tbs, tb_used>> /\ job'.insns = <<>>
      BY <1>4 DEF LoopMiss, tcvars
    <2>2. \A t \in Allocated' : \A i \in 1 .. Len(tbs'[t].insns) :
            tbs'[t].insns[i] \in fetchable'[(tbs'[t].ip + i - 1) % ASpace]
      BY <1>blocks, <2>1
    <2>3. \A i \in 1 .. Len(job'.insns) : FALSE
      BY <2>1
    <2> QED
      BY <1>1, <2>2, <2>3 DEF FetchedInv, ASpace
  <1>5. CASE Translate
    <2> DEFINE n == Len(job.insns)
               i0 == code[InsnIp(job)]
    <2>1. UNCHANGED <<tbs, tb_used>> /\ pc = "translate" /\ UNCHANGED guestvars
      BY <1>5 DEF Translate, tcvars
    <2>2. \A t \in Allocated' : \A i \in 1 .. Len(tbs'[t].insns) :
            tbs'[t].insns[i] \in fetchable'[(tbs'[t].ip + i - 1) % ASpace]
      BY <1>blocks, <2>1
    <2>3. /\ job.ip \in Addr /\ job.ip \in Nat /\ job.insns \in Seq(Insn) /\ n \in Nat
          /\ job' = [job EXCEPT !.insns = Append(job.insns, i0)]
          /\ job \in [ip : Addr, upper : Addr, insns : Seq(Insn)]
      BY <1>5, ASpacePos DEF Translate, TypeInv, ControlTypeInv, Addr
    <2>4. job'.ip = job.ip /\ job'.insns = Append(job.insns, i0)
      BY <2>3
    <2>5. InsnIp(job) \in Addr /\ i0 \in Insn
      <3>1. job.ip + n \in Int
        BY <2>3
      <3> QED
        BY <3>1, AddrMod DEF InsnIp, TypeInv, CpuTypeOK
    <2>6. /\ Len(job'.insns) = n + 1 /\ job'.insns[n + 1] = i0
          /\ \A i \in 1 .. n : job'.insns[i] = job.insns[i]
      BY <2>3, <2>4, <2>5
    <2>7. ASSUME NEW i \in 1 .. Len(job'.insns)
          PROVE  job'.insns[i] \in fetchable'[(job'.ip + i - 1) % ASpace]
      <3>1. CASE i = n + 1
        <4>1. job.ip + i - 1 = job.ip + n
          BY <2>3, <3>1
        <4> QED
          BY <2>1, <2>4, <2>5, <2>6, <3>1, <4>1
          DEF HartInv, FetchedInv, InsnIp, guestvars
      <3>2. CASE i \in 1 .. n
        BY <2>1, <2>4, <2>6, <3>2 DEF HartInv, FetchedInv, guestvars
      <3> QED
        BY <2>3, <2>6, <3>1, <3>2
    <2> QED
      BY <1>1, <2>2, <2>7 DEF FetchedInv, ASpace
  <1>6. CASE Emit
    <2> DEFINE t0 == tb_used + 1
    <2>1. /\ tbs' = [tbs EXCEPT ![t0] = [ip |-> job.ip, insns |-> job.insns]]
          /\ tb_used' = t0 /\ pc' = "enter" /\ pc = "emit" /\ UNCHANGED guestvars
          /\ tb_used \in Nat /\ t0 \in TBId
      BY <1>6, TCacheAssumption
      DEF Emit, AnnounceRegion, PoolsFit, TypeInv, CacheTypeInv, TCacheTypeOK, TBId
    <2>2. Allocated' = Allocated \cup {t0} /\ t0 \notin Allocated
      BY <2>1 DEF Allocated
    <2>3. /\ tbs'[t0].ip = job.ip /\ tbs'[t0].insns = job.insns
          /\ \A u \in Allocated : tbs'[u] = tbs[u]
      BY <2>1, <2>2, AllocatedTBPtr DEF TypeInv, CacheTypeInv, TCacheTypeOK
    <2>4. ASSUME NEW t \in Allocated', NEW i \in 1 .. Len(tbs'[t].insns)
          PROVE  tbs'[t].insns[i] \in fetchable'[(tbs'[t].ip + i - 1) % ASpace]
      <3>1. CASE t \in Allocated
        BY <2>3, <2>4, <3>1, BlocksFetched
      <3>2. CASE t = t0
        BY <2>1, <2>3, <2>4, <3>2 DEF HartInv, FetchedInv, guestvars
      <3> QED
        BY <2>2, <3>1, <3>2
    <2> QED
      BY <1>1, <2>1, <2>4 DEF FetchedInv, ASpace
  <1>7. CASE LoopTrap \/ LoopHit \/ EnterLink \/ EnterBrind
    BY <1>2, <1>7 DEF LoopTrap, LoopHit, EnterLink, EnterBrind, RunBlock, tcvars
  <1>8. CASE SlotLinked \/ SlotStubFound \/ SlotStubEscape
    BY <1>2, <1>8 DEF SlotLinked, SlotStubFound, SlotStubEscape, RunBlock, tcvars
  <1>9. CASE BrindHit \/ BrindMiss \/ BrindStubFound \/ BrindStubEscape
    BY <1>2, <1>9
    DEF BrindHit, BrindMiss, BrindStubFound, BrindStubEscape, RunBlock, tcvars
  <1>10. CASE \/ JitAlu \/ JitLoad \/ JitFence \/ JitFenceI
              \/ \E p \in Patches : JitStoreCode(p)
    BY <1>2, <1>10
    DEF JitAlu, JitLoad, JitFence, JitFenceI, JitStoreCode, AtInsn, Advance, tcvars
  <1>11. CASE JitJal \/ JitBrcc \/ JitFallThrough \/ JitJalr
    BY <1>2, <1>11
    DEF JitJal, JitBrcc, JitFallThrough, JitJalr, AtInsn, LeaveBy, tcvars
  <1>12. CASE JitEcall \/ JitEbreak \/ EnvSyscall \/ EnvExit \/ EnvBreak
    BY <1>2, <1>12
    DEF JitEcall, JitEbreak, RaiseTrap, EnvSyscall, EnvExit, EnvBreak, tcvars
  <1>13. CASE \/ LoopMissAssert \/ TranslateFault \/ TranslateIllegal
              \/ EmitPoolFull \/ BrindNull \/ JitMemFault \/ EnvUnhandled
    BY <1>3, <1>13 DEF LoopMissAssert, TranslateFault, TranslateIllegal,
       EmitPoolFull, BrindNull, JitMemFault, EnvUnhandled
  <1>14. CASE Stopped \/ UNCHANGED vars
    BY <1>2, <1>14 DEF Stopped, vars, ctlvars, tcvars
  <1> QED
    BY <1>4, <1>5, <1>6, <1>7, <1>8, <1>9, <1>10, <1>11, <1>12, <1>13, <1>14
    DEF HartStep, Next, Dispatch, Jit, Env

\* Translated code that has an instruction to execute has one that may be
\* fetched at the address it stands for.
LEMMA CurFetched ==
  ASSUME TypeInv, HartInv, NEW op, AtInsn(op)
  PROVE  /\ CurInsn \in fetchable[CurIp] /\ CurInsn.op = op
         /\ cur \in Allocated /\ pos \in 1 .. Len(tbs[cur].insns)
         /\ CurInsn \in Insn /\ tbs[cur].insns \in Seq(Insn)
  <1>1. cur \in Allocated /\ pos \in Nat /\ pos >= 1 /\ pos <= Len(tbs[cur].insns)
        /\ CurInsn.op = op
    BY DEF AtInsn, TypeInv, ControlTypeInv
  <1>2. tbs[cur].insns \in Seq(Insn) /\ Len(tbs[cur].insns) \in Nat
    BY <1>1, AllocatedTBPtr DEF TypeInv, CacheTypeInv, TCacheTypeOK, TBlock
  <1>3. pos \in 1 .. Len(tbs[cur].insns)
    BY <1>1, <1>2
  <1> QED
    BY <1>1, <1>2, <1>3 DEF HartInv, FetchedInv, CurInsn, CurIp

\* Only instructions that are no control transfer advance to the next one.
LEMMA PosStep ==
  ASSUME TypeInv, TypeInv', CoherenceInv, HartInv, [Next]_vars
  PROVE  PosInv'
  <1>1. ASSUME pc' # "jit" PROVE PosInv'
    BY <1>1 DEF PosInv
  <1>2. ASSUME pc' = "jit", pos' = 1 PROVE PosInv'
    <2>1. cur' \in Allocated'
      BY <1>2 DEF TypeInv, ControlTypeInv
    <2>2. Len(tbs'[cur'].insns) >= 1
      BY <2>1 DEF TypeInv, CacheTypeInv
    <2> QED
      BY <1>2, <2>2 DEF PosInv
  <1>3. ASSUME NEW op \in Op \ ControlOps, AtInsn(op), Advance PROVE PosInv'
    <2>1. pos \in 1 .. Len(tbs[cur].insns) /\ CurInsn.op = op
          /\ tbs[cur].insns \in Seq(Insn)
      BY <1>3, CurFetched
    <2>2. pos' = pos + 1 /\ cur' = cur /\ tbs' = tbs
      BY <1>3 DEF Advance, tcvars
    <2>3. pos' <= Len(tbs[cur].insns) + 1 /\ pos' - 1 = pos
      BY <2>1, <2>2
    <2>4. tbs'[cur'].insns[pos' - 1].op \notin ControlOps
      BY <1>3, <2>1, <2>2, <2>3 DEF CurInsn
    <2> QED
      BY <2>2, <2>3, <2>4 DEF PosInv
  <1>4. ASSUME NEW s, LeaveBy(s), pc = "jit" PROVE PosInv'
    BY <1>1, <1>2, <1>4 DEF LeaveBy
  <1>5. ASSUME NEW why, Abort(why) PROVE PosInv'
    BY <1>1, <1>5 DEF Abort
  <1>6. CASE LoopTrap \/ LoopHit \/ LoopMiss \/ Translate \/ Emit
    BY <1>1, <1>6 DEF LoopTrap, LoopHit, LoopMiss, Translate, Emit
  <1>7. CASE EnterLink \/ EnterBrind \/ SlotLinked \/ SlotStubFound \/ SlotStubEscape
    BY <1>1, <1>2, <1>7
    DEF EnterLink, EnterBrind, SlotLinked, SlotStubFound, SlotStubEscape, RunBlock
  <1>8. CASE BrindHit \/ BrindMiss \/ BrindStubFound \/ BrindStubEscape
    BY <1>1, <1>2, <1>8
    DEF BrindHit, BrindMiss, BrindStubFound, BrindStubEscape, RunBlock
  <1>9. CASE JitAlu
    BY <1>3, <1>9 DEF JitAlu, Op, ControlOps
  <1>10. CASE JitLoad
    BY <1>3, <1>10 DEF JitLoad, Op, ControlOps
  <1>11. CASE \E p \in Patches : JitStoreCode(p)
    BY <1>3, <1>11 DEF JitStoreCode, Op, ControlOps
  <1>12. CASE JitFence
    BY <1>3, <1>12 DEF JitFence, Op, ControlOps
  <1>13. CASE JitFenceI
    BY <1>3, <1>13 DEF JitFenceI, Op, ControlOps
  <1>14. CASE JitJal \/ JitBrcc \/ JitFallThrough
    BY <1>4, <1>14 DEF JitJal, JitBrcc, JitFallThrough, AtInsn
  <1>15. CASE JitJalr \/ JitEcall \/ JitEbreak \/ EnvSyscall \/ EnvExit \/ EnvBreak
    BY <1>1, <1>15
    DEF JitJalr, JitEcall, JitEbreak, RaiseTrap, EnvSyscall, EnvExit, EnvBreak
  <1>16. CASE \/ LoopMissAssert \/ TranslateFault \/ TranslateIllegal
              \/ EmitPoolFull \/ BrindNull \/ JitMemFault \/ EnvUnhandled
    BY <1>5, <1>16 DEF LoopMissAssert, TranslateFault, TranslateIllegal,
       EmitPoolFull, BrindNull, JitMemFault, EnvUnhandled
  <1>17. CASE Stopped \/ UNCHANGED vars
    BY <1>17 DEF Stopped, vars, ctlvars, tcvars, HartInv, PosInv
  <1> QED
    BY <1>6, <1>7, <1>8, <1>9, <1>10, <1>11, <1>12, <1>13, <1>14, <1>15, <1>16, <1>17
    DEF Next, Dispatch, Jit, Env

\* A trap stays pending at the instruction that raised it until env::Execute
\* has taken it.
LEMMA TrappedStep ==
  ASSUME TypeInv, TypeInv', TrapInv, HartInv, HartStep
  PROVE  TrappedInv'
  <1>1. ASSUME pc' \notin {"loop", "env"} \/ trapno' = "NONE" PROVE TrappedInv'
    BY <1>1 DEF TrappedInv
  <1>2. ASSUME pc \in {"loop", "env"}, UNCHANGED <<ip, trapno>> PROVE TrappedInv'
    <2>1. ip \in Addr /\ fetchable[ip] \subseteq fetchable'[ip]
      BY FetchGrows DEF TypeInv, CpuTypeOK
    <2> QED
      BY <1>2, <2>1 DEF HartInv, TrappedInv
  <1>3. ASSUME NEW op, NEW no, RaiseTrap(op, no),
               <<op, no>> \in {<<"ecall", "ECALL">>, <<"ebreak", "EBREAK">>}
        PROVE  TrappedInv'
    <2>1. /\ CurInsn \in fetchable[CurIp] /\ CurInsn.op = op
      BY <1>3, CurFetched DEF RaiseTrap
    <2>2. /\ trapno' = no /\ ip' = CurIp /\ fetchable' = fetchable
      BY <1>3 DEF RaiseTrap, guestvars
    <2> QED
      BY <1>3, <2>1, <2>2 DEF TrappedInv
  <1>5. ASSUME NEW why, Abort(why) PROVE TrappedInv'
    BY <1>1, <1>5 DEF Abort
  <1>6. CASE LoopHit \/ LoopMiss \/ Translate \/ Emit
    BY <1>1, <1>6 DEF LoopHit, LoopMiss, Translate, Emit
  <1>7. CASE LoopTrap
    BY <1>2, <1>7 DEF LoopTrap, cpuvars
  <1>8. CASE EnterLink \/ EnterBrind \/ SlotLinked \/ SlotStubFound \/ SlotStubEscape
    BY <1>1, <1>8
    DEF EnterLink, EnterBrind, SlotLinked, SlotStubFound, SlotStubEscape, RunBlock, TrapInv
  <1>9. CASE BrindHit \/ BrindMiss \/ BrindStubFound \/ BrindStubEscape
    BY <1>1, <1>9
    DEF BrindHit, BrindMiss, BrindStubFound, BrindStubEscape, RunBlock, TrapInv
  <1>10. CASE \/ JitAlu \/ JitLoad \/ JitFence \/ JitFenceI
              \/ \E p \in Patches : JitStoreCode(p)
    BY <1>1, <1>10
    DEF JitAlu, JitLoad, JitFence, JitFenceI, JitStoreCode, AtInsn, Advance
  <1>11. CASE JitJal \/ JitBrcc \/ JitFallThrough \/ JitJalr
    BY <1>1, <1>11
    DEF JitJal, JitBrcc, JitFallThrough, JitJalr, AtInsn, LeaveBy
  <1>12. CASE JitEcall \/ JitEbreak
    BY <1>3, <1>12 DEF JitEcall, JitEbreak
  <1>13. CASE EnvSyscall \/ EnvExit \/ EnvBreak
    BY <1>1, <1>13 DEF EnvSyscall, EnvExit, EnvBreak
  <1>16. CASE \/ LoopMissAssert \/ TranslateFault \/ TranslateIllegal
              \/ EmitPoolFull \/ BrindNull \/ JitMemFault \/ EnvUnhandled
    BY <1>5, <1>16 DEF LoopMissAssert, TranslateFault, TranslateIllegal,
       EmitPoolFull, BrindNull, JitMemFault, EnvUnhandled
  <1>17. CASE Stopped \/ UNCHANGED vars
    <2>1. UNCHANGED <<pc, ip, trapno>>
      BY <1>17 DEF Stopped, vars, cpuvars
    <2> QED
      BY <1>1, <1>2, <2>1
  <1> QED
    BY <1>6, <1>7, <1>8, <1>9, <1>10, <1>11, <1>12, <1>13, <1>16, <1>17
    DEF HartStep, Next, Dispatch, Jit, Env

\* Every step preserves the invariant the refinement needs.
LEMMA HartInvStep ==
  /\ TypeInv /\ TypeInv' /\ TrapInv /\ CoherenceInv /\ HartInv
  /\ HartStep
  => HartInv'
  BY FetchedStep, PosStep, TrappedStep DEF HartInv, HartStep

-----------------------------------------------------------------------------
(* The empty entries of the indirect-branch cache *)

\* An entry without code names address 0: that target alone can be taken
\* for a hit before its code is known.
EmptyInv ==
  \A h \in Hash : l1_brind_cache[h].code = nullptr => l1_brind_cache[h].gip = 0

\* An entry is only ever written with the code of a block.
LEMMA EmptyFrame ==
  ASSUME TypeInv, EmptyInv, NEW t \in TBId, CacheBrind(t)
  PROVE  EmptyInv'
  <1>1. t # nullptr
    BY TCacheAssumption DEF TBId, nullptr
  <1> QED
    BY <1>1 DEF EmptyInv, CacheBrind, TypeInv, CacheTypeInv, TCacheTypeOK

\* Every step keeps the empty entries as they are.
LEMMA EmptyStep == TypeInv /\ EmptyInv /\ [Next]_vars => EmptyInv'
  <1> SUFFICES ASSUME TypeInv, EmptyInv, [Next]_vars PROVE EmptyInv'
    OBVIOUS
  <1>1. ASSUME UNCHANGED l1_brind_cache PROVE EmptyInv'
    BY <1>1 DEF EmptyInv
  <1>2. ASSUME NEW why, Abort(why) PROVE EmptyInv'
    BY <1>1, <1>2 DEF Abort, tcvars
  <1>3. ASSUME NEW s, LeaveBy(s) PROVE EmptyInv'
    BY <1>1, <1>3 DEF LeaveBy, tcvars
  <1>4. CASE EnterBrind
    <2>1. cur \in Allocated
      BY <1>4 DEF EnterBrind, TypeInv, ControlTypeInv
    <2>2. cur \in TBId
      BY <2>1, AllocatedTBPtr DEF TypeInv, CacheTypeInv
    <2> QED
      BY <1>4, <2>2, EmptyFrame DEF EnterBrind
  <1>5. CASE BrindStubFound
    <2>1. LookupResult(tgt) \in Allocated
      BY <1>5, LookupType DEF BrindStubFound, TypeInv, ControlTypeInv
    <2>2. LookupResult(tgt) \in TBId
      BY <2>1, AllocatedTBPtr DEF TypeInv, CacheTypeInv
    <2> QED
      BY <1>5, <2>2, EmptyFrame DEF BrindStubFound
  <1>6. CASE LoopTrap \/ LoopHit \/ LoopMiss \/ Translate \/ Emit \/ EnterLink
    BY <1>1, <1>6 DEF LoopTrap, LoopHit, LoopMiss, Translate, Emit, EnterLink, tcvars
  <1>7. CASE \/ SlotLinked \/ SlotStubFound \/ SlotStubEscape
             \/ BrindHit \/ BrindMiss \/ BrindStubEscape
    BY <1>1, <1>7
    DEF SlotLinked, SlotStubFound, SlotStubEscape, BrindHit, BrindMiss,
        BrindStubEscape, tcvars
  <1>8. CASE \/ JitAlu \/ JitLoad \/ JitFence \/ JitFenceI \/ JitJalr
             \/ JitEcall \/ JitEbreak \/ \E p \in Patches : JitStoreCode(p)
    BY <1>1, <1>8
    DEF JitAlu, JitLoad, JitFence, JitFenceI, JitJalr, JitEcall, JitEbreak,
        JitStoreCode, RaiseTrap, Advance, tcvars
  <1>9. CASE JitJal \/ JitBrcc \/ JitFallThrough
    BY <1>3, <1>9 DEF JitJal, JitBrcc, JitFallThrough
  <1>10. CASE EnvSyscall \/ EnvExit \/ EnvBreak
    BY <1>1, <1>10 DEF EnvSyscall, EnvExit, EnvBreak, tcvars
  <1>11. CASE \/ LoopMissAssert \/ TranslateFault \/ TranslateIllegal
              \/ EmitPoolFull \/ BrindNull \/ JitMemFault \/ EnvUnhandled
    BY <1>2, <1>11 DEF LoopMissAssert, TranslateFault, TranslateIllegal,
       EmitPoolFull, BrindNull, JitMemFault, EnvUnhandled
  <1>12. CASE Stopped \/ UNCHANGED vars
    BY <1>1, <1>12 DEF Stopped, vars, tcvars
  <1> QED
    BY <1>4, <1>5, <1>6, <1>7, <1>8, <1>9, <1>10, <1>11, <1>12
    DEF Next, Dispatch, Jit, Env

\* An empty entry of the indirect-branch cache names address 0.
THEOREM EmptyInvariant == Spec => []EmptyInv
  <1>1. Init => EmptyInv
    BY DEF Init, tcache_Init, EmptyInv
  <1> QED
    BY <1>1, EmptyStep, TypeInvariant, PTL DEF Spec

-----------------------------------------------------------------------------
(* The refinement mapping *)

\* Where the guest is, for each place the host may be in.
LEMMA GuestAt ==
  /\ pc = "jit" => GuestIp = CurIp
  /\ pc = "slot" => GuestIp = SlotGip(slot)
  /\ pc \in {"brind", "brindstub"} => GuestIp = tgt
  /\ pc = "enter" => GuestIp = tbs[cur].ip
  /\ pc \in {"loop", "translate", "emit", "env"} => GuestIp = ip
  /\ pc \in {"done", "aborted"} => GuestIp = 0
  /\ pc = "done" => GuestStatus = "exited"
  /\ pc = "aborted" /\ abort = "pool" => GuestStatus = "exhausted"
  /\ pc = "aborted" /\ abort # "pool" => GuestStatus = "failed"
  /\ pc \notin {"done", "aborted"} => GuestStatus = "running"
  BY DEF GuestIp, GuestStatus

\* The same, after a step.
LEMMA GuestAtNext ==
  /\ pc' = "jit" => GuestIp' = CurIp'
  /\ pc' = "slot" => GuestIp' = SlotGip(slot)'
  /\ pc' \in {"brind", "brindstub"} => GuestIp' = tgt'
  /\ pc' = "enter" => GuestIp' = tbs'[cur'].ip
  /\ pc' \in {"loop", "translate", "emit", "env"} => GuestIp' = ip'
  /\ pc' \in {"done", "aborted"} => GuestIp' = 0
  /\ pc' = "done" => GuestStatus' = "exited"
  /\ pc' = "aborted" /\ abort' = "pool" => GuestStatus' = "exhausted"
  /\ pc' = "aborted" /\ abort' # "pool" => GuestStatus' = "failed"
  /\ pc' \notin {"done", "aborted"} => GuestStatus' = "running"
  BY DEF GuestIp, GuestStatus

\* The hart starts where the emulator does.
LEMMA GuestInit == Init => G!Init
  BY GuestAt DEF Init, G!Init, G!Addr, G!ASpace, Addr, ASpace

\* The address after an address.
LEMMA NextAddr ==
  ASSUME NEW a \in Int
  PROVE  NextIp(a % ASpace) = (a + 1) % ASpace
  <1> DEFINE n == ASpace
             q == a \div n
             r == a % n
  <1>1. n \in Int /\ n > 0
    BY ASpacePos
  <1>2. q \in Int /\ a = n * q + r /\ r \in 0 .. n - 1
    BY <1>1, DivMod
  <1>3. CASE r + 1 < n
    <2>1. a + 1 = n * q + (r + 1) /\ r + 1 \in 0 .. n - 1
      BY <1>1, <1>2, <1>3
    <2>2. (a + 1) % n = r + 1
      <3>1. n \in Nat \ {0}
        BY <1>1
      <3> HIDE DEF n, q, r
      <3> QED
        BY <1>2, <2>1, <3>1, DivUnique
    <2>3. (r + 1) % n = r + 1
      BY <1>1, <2>1, AddrSelf DEF Addr
    <2> QED
      BY <2>2, <2>3 DEF NextIp
  <1>4. CASE r + 1 = n
    <2>1. a + 1 = n * (q + 1) + 0
      BY <1>1, <1>2, <1>4
    <2>2. (a + 1) % n = 0
      <3>1. q + 1 \in Int /\ 0 \in 0 .. n - 1 /\ n \in Nat \ {0}
        BY <1>1, <1>2
      <3> QED
        BY <2>1, <3>1, DivUnique
    <2>3. (r + 1) % n = 0
      BY <1>1, <1>4
    <2> QED
      BY <2>2, <2>3 DEF NextIp
  <1> QED
    BY <1>1, <1>2, <1>3, <1>4

\* The hart computes with the same addresses and values.
LEMMA GuestSame ==
  /\ \A a : G!NextIp(a) = NextIp(a)
  /\ \A v : G!AluResult(v) = AluResult(v)
  /\ G!Addr = Addr /\ G!Val = Val
  BY DEF G!NextIp, G!AluResult, G!Addr, G!Val, G!ASpace, NextIp, AluResult,
     Addr, Val, ASpace

\* The causes for which the hart may fail.
LEMMA GuestMayFail ==
  ASSUME \/ ~Mapped(GuestIp)
         \/ \E i \in fetchable[GuestIp] : i.op \in {"mem", "ecall"}
         \/ roundup(GuestIp) = 0
         \/ \E b \in Addr :
              /\ GuestIp <= b
              /\ rounddown(b) = rounddown(GuestIp)
              /\ \E i \in fetchable[b] : i.op = "illegal"
              /\ \A a \in GuestIp .. b - 1 :
                   \E i \in fetchable[a] : i.op \notin ControlOps
  PROVE  G!MayFail
  BY GuestSame
  DEF G!MayFail, G!IllegalAhead, G!Mapped, Mapped, G!roundup, roundup,
      G!rounddown, rounddown, G!ASpace, ASpace, G!ControlOps, ControlOps

\* The process dies for such a cause: the hart fails.
LEMMA GuestFail ==
  ASSUME pc \notin {"done", "aborted"}, NEW why, why # "pool", Abort(why),
         G!MayFail
  PROVE  G!Next
  <1>1. /\ GuestStatus = "running" /\ GuestStatus' = "failed" /\ GuestIp' = 0
        /\ UNCHANGED <<x, code, fetchable>>
    BY GuestAt, GuestAtNext DEF Abort, cpuvars, guestvars
  <1> QED
    BY <1>1 DEF G!Next, G!Fail, G!Stop

\* The process dies of a full pool: the hart is exhausted.
LEMMA GuestExhausts ==
  ASSUME pc \notin {"done", "aborted"}, Abort("pool")
  PROVE  G!Next
  <1>1. /\ GuestStatus = "running" /\ GuestStatus' = "exhausted" /\ GuestIp' = 0
        /\ UNCHANGED <<x, code, fetchable>>
    BY GuestAt, GuestAtNext DEF Abort, cpuvars, guestvars
  <1> QED
    BY <1>1 DEF G!Next, G!Exhaust, G!Stop

\* Control enters a block: the guest is at its address.
LEMMA GuestEnters ==
  ASSUME TypeInv, NEW t \in Allocated, RunBlock(t), tbs' = tbs
  PROVE  GuestIp' = tbs[t].ip /\ GuestStatus' = "running"
  <1>1. tbs[t].ip \in Addr /\ tbs[t].ip \in Int
    BY AllocatedTBPtr, ASpacePos DEF TypeInv, CacheTypeInv, TCacheTypeOK, TBlock, Addr
  <1>2. CurIp' = (tbs[t].ip + 1 - 1) % ASpace
    BY DEF RunBlock, CurIp, ASpace
  <1>3. tbs[t].ip + 1 - 1 = tbs[t].ip
    BY <1>1
  <1>4. CurIp' = tbs[t].ip
    BY <1>1, <1>2, <1>3, AddrSelf
  <1> QED
    BY <1>4, GuestAtNext DEF RunBlock

\* Translated code goes on to the next instruction of its block.
LEMMA GuestAdvances ==
  ASSUME TypeInv, HartInv, NEW op, AtInsn(op), Advance
  PROVE  /\ GuestIp = CurIp /\ GuestIp' = NextIp(CurIp)
         /\ GuestStatus = "running" /\ GuestStatus' = "running"
  <1>1. cur \in Allocated /\ pos \in Nat
    BY CurFetched DEF TypeInv, ControlTypeInv
  <1>2. tbs[cur].ip \in Int
    BY <1>1, AllocatedTBPtr, ASpacePos
    DEF TypeInv, CacheTypeInv, TCacheTypeOK, TBlock, Addr
  <1>3. CurIp' = (tbs[cur].ip + (pos + 1) - 1) % ASpace /\ pc = "jit" /\ pc' = "jit"
    BY DEF Advance, AtInsn, CurIp, ASpace, tcvars
  <1>4. tbs[cur].ip + (pos + 1) - 1 = (tbs[cur].ip + pos - 1) + 1
    BY <1>1, <1>2
  <1>5. tbs[cur].ip + pos - 1 \in Int
    BY <1>1, <1>2
  <1>6. CurIp' = NextIp(CurIp)
    BY <1>3, <1>4, <1>5, NextAddr DEF CurIp
  <1> QED
    BY <1>3, <1>6, GuestAt, GuestAtNext

\* Translated code leaves its block, by a jump to its own start or by a slot.
LEMMA GuestLeaves ==
  ASSUME TypeInv, pc = "jit", NEW k \in {0, 1}, LeaveBy(<<cur, k>>)
  PROVE  /\ GuestIp' = SlotGip(<<cur, k>>) /\ GuestStatus' = "running"
         /\ UNCHANGED <<code, fetchable>>
  <1>1. cur \in Allocated /\ tbs' = tbs /\ UNCHANGED <<code, fetchable>>
    BY DEF LeaveBy, TypeInv, ControlTypeInv, tcvars, guestvars
  <1>2. CASE SlotGip(<<cur, k>>) = tbs[cur].ip
    <2>1. RunBlock(cur)
      BY <1>2 DEF LeaveBy, RunBlock
    <2> QED
      BY <1>1, <1>2, <2>1, GuestEnters
  <1>3. CASE SlotGip(<<cur, k>>) # tbs[cur].ip
    <2>1. pc' = "slot" /\ slot' = <<cur, k>>
      BY <1>3 DEF LeaveBy
    <2>2. SlotGip(slot)' = SlotGip(<<cur, k>>)
      BY <1>1, <2>1 DEF SlotGip, LastInsn, EndIp, ASpace
    <2> QED
      BY <1>1, <2>1, <2>2, GuestAtNext
  <1> QED
    BY <1>2, <1>3

\* A control transfer is the last instruction of its block, so the slots of
\* the block lead where the instruction does.
LEMMA ControlIsLast ==
  ASSUME TypeInv, RegionInv, HartInv, NEW op \in ControlOps, AtInsn(op)
  PROVE  /\ LastInsn(cur) = CurInsn
         /\ SlotGip(<<cur, 1>>) = CurInsn.tgt
         /\ op = "jal" => SlotGip(<<cur, 0>>) = CurInsn.tgt
         /\ op # "jal" => SlotGip(<<cur, 0>>) = NextIp(CurIp)
  <1> DEFINE n == Len(tbs[cur].insns)
  <1>1. /\ cur \in Allocated /\ pos \in 1 .. n /\ CurInsn.op = op
        /\ tbs[cur].insns \in Seq(Insn)
    BY CurFetched
  <1>2. pos = n
    <2>1. n \in Nat /\ (pos # n => pos \in 1 .. n - 1)
      BY <1>1
    <2>2. \A i \in 1 .. n - 1 : tbs[cur].insns[i].op \notin ControlOps
      BY <1>1 DEF RegionInv, RegionInPage
    <2> QED
      BY <1>1, <2>1, <2>2 DEF CurInsn
  <1>3. LastInsn(cur) = CurInsn
    BY <1>2 DEF LastInsn, CurInsn
  <1>4. EndIp(cur) = NextIp(CurIp)
    <2>1. tbs[cur].ip \in Int /\ n \in Int
      BY <1>1, AllocatedTBPtr, ASpacePos
      DEF TypeInv, CacheTypeInv, TCacheTypeOK, TBlock, Addr
    <2>2. tbs[cur].ip + n = (tbs[cur].ip + pos - 1) + 1 /\ tbs[cur].ip + pos - 1 \in Int
      BY <1>2, <2>1
    <2> QED
      BY <2>2, NextAddr DEF EndIp, CurIp
  <1> QED
    BY <1>1, <1>3, <1>4 DEF SlotGip

\* A block that ends at its boundary leaves to the address after it.
LEMMA FallsThrough ==
  ASSUME TypeInv, HartInv, pc = "jit", pos > Len(tbs[cur].insns)
  PROVE  SlotGip(<<cur, 0>>) = CurIp
  <1> DEFINE n == Len(tbs[cur].insns)
  <1>1. /\ cur \in Allocated /\ pos \in Nat /\ n >= 1
    BY DEF TypeInv, ControlTypeInv, CacheTypeInv
  <1>2. tbs[cur].ip \in Int /\ n \in Nat
    BY <1>1, AllocatedTBPtr, ASpacePos
    DEF TypeInv, CacheTypeInv, TCacheTypeOK, TBlock, Addr
  <1>3. pos = n + 1 /\ pos > 1 /\ pos - 1 = n /\ tbs[cur].ip + pos - 1 = tbs[cur].ip + n
    BY <1>1, <1>2 DEF HartInv, PosInv
  <1>4. LastInsn(cur).op # "jal"
    BY <1>3 DEF HartInv, PosInv, LastInsn, ControlOps
  <1> QED
    BY <1>3, <1>4 DEF SlotGip, EndIp, CurIp

-----------------------------------------------------------------------------
(* Every step is a step of the hart or none *)

\* The guest sees nothing of a step.
Unseen == UNCHANGED <<GuestIp, x, code, fetchable, GuestStatus>>

\* Translated code executes the instruction the hart does; falling through
\* and raising a trap are not yet steps of the hart.
LEMMA JitRefines ==
  ASSUME TypeInv, RegionInv, HartInv, Jit
  PROVE  G!Next \/ Unseen
  <1>run. ASSUME NEW op, AtInsn(op)
          PROVE  /\ GuestIp = CurIp /\ GuestStatus = "running" /\ pc = "jit"
                 /\ CurInsn \in fetchable[GuestIp] /\ CurInsn.op = op
    BY <1>run, CurFetched, GuestAt DEF AtInsn
  <1>JitAlu. CASE JitAlu
    <2>1. G!Alu(CurInsn)
      BY <1>JitAlu, <1>run, GuestAdvances, GuestSame
      DEF JitAlu, guestvars, G!Alu, G!Fetches
    <2> QED
      BY <1>JitAlu, <1>run, <2>1 DEF JitAlu, G!Next, G!Step
  <1>JitLoad. CASE JitLoad
    <2>1. G!Load(CurInsn)
      BY <1>JitLoad, <1>run, GuestAdvances, GuestSame
      DEF JitLoad, guestvars, G!Load, G!Fetches
    <2> QED
      BY <1>JitLoad, <1>run, <2>1 DEF JitLoad, G!Next, G!Step
  <1>JitStoreCode. ASSUME NEW p \in Patches, JitStoreCode(p)
                   PROVE  G!Next
    <2>1. G!StoreCode(CurInsn, p)
      BY <1>JitStoreCode, <1>run, GuestAdvances, GuestSame
      DEF JitStoreCode, G!StoreCode, G!Fetches
    <2> QED
      BY <1>JitStoreCode, <1>run, <2>1 DEF JitStoreCode, G!Next, G!Step
  <1>JitMemFault. CASE JitMemFault
    <2>1. AtInsn("mem") /\ Abort("memory")
      BY <1>JitMemFault DEF JitMemFault
    <2>2. G!MayFail
      BY <1>run, <2>1, GuestMayFail
    <2> QED
      BY <1>run, <2>1, <2>2, GuestFail
  <1>JitFence. CASE JitFence
    <2>1. G!Fence(CurInsn)
      BY <1>JitFence, <1>run, GuestAdvances, GuestSame
      DEF JitFence, guestvars, G!Fence, G!Fetches
    <2> QED
      BY <1>JitFence, <1>run, <2>1 DEF JitFence, G!Next, G!Step
  <1>JitFenceI. CASE JitFenceI
    <2>1. G!FenceI(CurInsn)
      BY <1>JitFenceI, <1>run, GuestAdvances, GuestSame
      DEF JitFenceI, G!FenceI, G!Fetches
    <2> QED
      BY <1>JitFenceI, <1>run, <2>1 DEF JitFenceI, G!Next, G!Step
  <1>JitJal. CASE JitJal
    <2>1. /\ AtInsn("jal") /\ x' = x /\ SlotGip(<<cur, 0>>) = CurInsn.tgt
          /\ LeaveBy(<<cur, 0>>)
      BY <1>JitJal, ControlIsLast DEF JitJal, ControlOps, cpuvars
    <2>2. G!Jal(CurInsn)
      BY <1>run, <2>1, GuestLeaves DEF G!Jal, G!Fetches
    <2> QED
      BY <1>run, <2>1, <2>2 DEF G!Next, G!Step
  <1>JitBrcc. CASE JitBrcc
    <2>1. /\ AtInsn("brcc") /\ x' = x
          /\ SlotGip(<<cur, 1>>) = CurInsn.tgt
          /\ SlotGip(<<cur, 0>>) = NextIp(CurIp)
          /\ LeaveBy(<<cur, IF x = 0 THEN 1 ELSE 0>>)
      BY <1>JitBrcc, ControlIsLast DEF JitBrcc, ControlOps, cpuvars
    <2>2. /\ GuestIp' = IF x = 0 THEN CurInsn.tgt ELSE NextIp(CurIp)
          /\ GuestStatus' = "running" /\ UNCHANGED <<code, fetchable>>
      <3>1. CASE x = 0
        BY <1>run, <2>1, <3>1, GuestLeaves
      <3>2. CASE x # 0
        BY <1>run, <2>1, <3>2, GuestLeaves
      <3> QED
        BY <3>1, <3>2
    <2>3. G!Brcc(CurInsn)
      BY <1>run, <2>1, <2>2, GuestSame DEF G!Brcc, G!Fetches
    <2> QED
      BY <1>run, <2>1, <2>3 DEF G!Next, G!Step
  <1>JitFallThrough. CASE JitFallThrough
    <2>1. /\ pc = "jit" /\ LeaveBy(<<cur, 0>>) /\ x' = x
          /\ SlotGip(<<cur, 0>>) = CurIp
      BY <1>JitFallThrough, FallsThrough DEF JitFallThrough, cpuvars
    <2> QED
      BY <2>1, GuestLeaves, GuestAt DEF Unseen
  <1>JitJalr. CASE JitJalr
    <2>1. /\ AtInsn("jalr") /\ GuestIp' = JumpTab[x] /\ GuestStatus' = "running"
          /\ UNCHANGED <<x, code, fetchable>>
      BY <1>JitJalr, GuestAtNext DEF JitJalr, cpuvars, guestvars
    <2>2. G!Jalr(CurInsn)
      BY <1>run, <2>1 DEF G!Jalr, G!Fetches
    <2> QED
      BY <1>run, <2>1, <2>2 DEF G!Next, G!Step
  <1>trap. CASE JitEcall \/ JitEbreak
    <2>1. /\ pc = "jit" /\ ip' = CurIp /\ pc' = "loop"
          /\ UNCHANGED <<x, code, fetchable>>
      BY <1>trap DEF JitEcall, JitEbreak, RaiseTrap, AtInsn, guestvars
    <2> QED
      BY <2>1, GuestAt, GuestAtNext DEF Unseen
  <1> QED
    BY <1>JitAlu, <1>JitLoad, <1>JitStoreCode, <1>JitMemFault, <1>JitFence,
       <1>JitFenceI, <1>JitJal, <1>JitBrcc, <1>JitFallThrough, <1>JitJalr,
       <1>trap
    DEF Jit

\* Address 0 rounds up to itself.
LEMMA RoundupZero == roundup(0) = 0
  <1>1. 0 % PAGE_SIZE = 0
    BY RV32CodeAssumption
  <1> QED
    BY <1>1, ZeroAddr, AddrSelf DEF roundup

\* The translator has no boundary only where roundup wraps.
LEMMA NoBoundary ==
  ASSUME NEW a \in Addr, IsBoundary(0, a)
  PROVE  roundup(a) = 0
  <1>1. a \in Nat
    BY ASpacePos DEF Addr
  <1>2. CASE HasUpperBound(a)
    <2>1. PICK v \in Addr : IsUpperBound(v, a) /\ 0 = IF roundup(a) <= v THEN roundup(a) ELSE v
      BY <1>2 DEF IsBoundary
    <2>2. v # 0
      BY <1>1, <2>1 DEF IsUpperBound
    <2> QED
      BY <2>1, <2>2
  <1>3. CASE ~HasUpperBound(a)
    BY <1>3 DEF IsBoundary
  <1> QED
    BY <1>2, <1>3

\* Translation dies of the guest's code: of the page it is on, or of an
\* illegal instruction that straight-line code leads to.
LEMMA TranslateFails ==
  ASSUME CpuTypeOK, ControlTypeInv, CoherenceInv, RegionInv, HartInv,
         TranslateFault \/ TranslateIllegal
  PROVE  G!Next
  <1> DEFINE n == Len(job.insns)
             b == InsnIp(job)
  <1>1. /\ pc = "translate" /\ GuestIp = ip /\ job.ip = ip
        /\ JobBounds /\ JobGathered /\ ip \in Addr /\ ip \in Nat
        /\ n \in Nat /\ job.insns \in Seq(Insn)
    BY GuestAt, ASpacePos
    DEF TranslateFault, TranslateIllegal, CoherenceInv, DispatchInv, RegionInv,
        JobInv, CpuTypeOK, ControlTypeInv, Addr
  \* The page of the entry ends inside the address space.
  <1>2. ip + n \in Addr /\ ip + n < rounddown(ip) + PAGE_SIZE
    <2>1. /\ rounddown(ip) + PAGE_SIZE \in Int
          /\ rounddown(ip) + PAGE_SIZE <= ASpace
          /\ ip < rounddown(ip) + PAGE_SIZE
      <3>1. PAGE_SIZE \in Int
        BY RV32CodeAssumption
      <3> HIDE DEF n, b
      <3> QED
        BY <1>1, <3>1, PageEnd
    <2>2. job.upper \in Int
      BY ASpacePos DEF ControlTypeInv, Addr
    <2>3. CASE n = 0
      BY <1>1, <2>1, <2>3
    <2>4. CASE n > 0
      <3>1. ip + n < job.upper /\ job.upper <= rounddown(ip) + PAGE_SIZE
        BY <1>1, <2>4 DEF JobGathered, JobBounds
      <3> QED
        BY <1>1, <2>1, <2>2, <3>1, ASpacePos DEF Addr
    <2> QED
      BY <1>1, <2>3, <2>4
  <1>3. b = ip + n
    BY <1>1, <1>2, AddrSelf DEF InsnIp
  <1>4. rounddown(b) = rounddown(ip) /\ b \in Addr /\ ip <= b
    BY <1>1, <1>2, <1>3, SamePage
  <1>5. CASE TranslateFault
    <2>1. ~Mapped(b) /\ Abort("fetch")
      BY <1>5 DEF TranslateFault
    <2>2. ~Mapped(ip)
      BY <1>1, <1>4, <2>1, SamePageMapped
    <2> QED
      BY <1>1, <2>1, <2>2, GuestMayFail, GuestFail
  <1>6. CASE TranslateIllegal
    <2>1. code[b].op = "illegal" /\ Abort("illegal")
      BY <1>6 DEF TranslateIllegal
    <2>2. \E i \in fetchable[b] : i.op = "illegal"
      BY <1>4, <2>1 DEF HartInv, FetchedInv
    <2>3. ASSUME NEW a \in ip .. b - 1
          PROVE  \E i \in fetchable[a] : i.op \notin ControlOps
      <3> DEFINE k == a - ip + 1
      <3>1. a \in Addr /\ k \in 1 .. n /\ k \in Int /\ ip + k - 1 = a
        BY <1>1, <1>2, <1>3, <2>3, ASpacePos DEF Addr
      <3>2. job.insns[k] \in fetchable[(ip + k - 1) % ASpace]
        BY <1>1, <3>1 DEF HartInv, FetchedInv
      <3>3. job.insns[k] \in fetchable[a]
        BY <3>1, <3>2, AddrSelf
      <3>4. job.insns[k].op \notin ControlOps
        <4>1. n \in Nat /\ k \in 1 .. n /\ n > 0
          BY <1>1, <3>1
        <4>2. /\ \A i \in 1 .. n - 1 : job.insns[i].op \notin ControlOps
              /\ job.insns[n].op \notin ControlOps
          BY <1>1, <4>1 DEF JobGathered
        <4> HIDE DEF k, n
        <4>3. k = n \/ k \in 1 .. n - 1
          BY <4>1
        <4> QED
          BY <4>2, <4>3
      <3> QED
        BY <3>3, <3>4
    <2> HIDE DEF b
    <2>4. \E c \in Addr :
            /\ GuestIp <= c
            /\ rounddown(c) = rounddown(GuestIp)
            /\ \E i \in fetchable[c] : i.op = "illegal"
            /\ \A a \in GuestIp .. c - 1 :
                 \E i \in fetchable[a] : i.op \notin ControlOps
      BY <1>1, <1>4, <2>2, <2>3
    <2> QED
      BY <1>1, <2>1, <2>4, GuestMayFail, GuestFail
  <1> QED
    BY <1>5, <1>6

\* The dispatcher, the stubs and the translator work unseen, or fail.
LEMMA DispatchRefines ==
  ASSUME TypeInv, CoherenceInv, RegionInv, HartInv, EmptyInv, Dispatch
  PROVE  G!Next \/ Unseen
  <1>t. CacheTypeInv /\ CpuTypeOK /\ ControlTypeInv
    BY DEF TypeInv
  <1>c. CacheCoherent /\ OneTranslationPerIp /\ DispatchInv
    BY DEF CoherenceInv
  <1>lookup. \A a \in Addr : LookupResult(a) = tcache_map[a]
    BY <1>t, <1>c, LookupCorrect
  \* A lookup that hits finds the block of the address.
  <1>found. ASSUME NEW a \in Addr, LookupResult(a) # nullptr
            PROVE  LookupResult(a) \in Allocated /\ tbs[LookupResult(a)].ip = a
    BY <1>found, <1>lookup, <1>c DEF CacheCoherent
  \* Entering the block of the address the guest is at.
  <1>enters. ASSUME NEW t \in Allocated, tbs[t].ip = GuestIp, RunBlock(t),
                    tbs' = tbs, UNCHANGED <<x, code, fetchable>>,
                    pc \notin {"done", "aborted"}
             PROVE  Unseen
    BY <1>enters, GuestEnters, GuestAt DEF Unseen
  <1>LoopMissAssert. CASE LoopMissAssert
    <2>1. pc = "loop" /\ IsBoundary(0, ip) /\ Abort("boundary") /\ GuestIp = ip
      BY <1>LoopMissAssert, GuestAt DEF LoopMissAssert
    <2>2. roundup(ip) = 0
      BY <1>t, <2>1, NoBoundary DEF CpuTypeOK
    <2> QED
      BY <2>1, <2>2, GuestMayFail, GuestFail
  <1>translate. CASE TranslateFault \/ TranslateIllegal
    BY <1>translate, TranslateFails DEF TypeInv
  <1>pool. CASE EmitPoolFull
    BY <1>pool, GuestExhausts DEF EmitPoolFull
  <1>BrindNull. CASE BrindNull
    <2>1. /\ pc = "brind" /\ BrindEntry.gip = tgt /\ BrindEntry.code = nullptr
          /\ Abort("nulljump") /\ GuestIp = tgt
      BY <1>BrindNull, GuestAt DEF BrindNull
    <2>2. l1hash(tgt) \in Hash
      BY <1>t, HashType DEF ControlTypeInv
    <2>3. tgt = 0
      BY <2>1, <2>2 DEF EmptyInv, BrindEntry
    <2>4. roundup(0) = 0
      BY RoundupZero
    <2> QED
      BY <2>1, <2>3, <2>4, GuestMayFail, GuestFail
  <1>stay. CASE LoopTrap \/ LoopMiss \/ Translate
    <2>1. /\ pc \in {"loop", "translate", "emit", "env"}
          /\ pc' \in {"loop", "translate", "emit", "env"}
          /\ UNCHANGED <<ip, x, code, fetchable>>
      BY <1>stay DEF LoopTrap, LoopMiss, Translate, cpuvars, guestvars
    <2> QED
      BY <2>1, GuestAt, GuestAtNext DEF Unseen
  <1>LoopHit. CASE LoopHit
    <2>1. /\ pc = "loop" /\ pc' = "enter" /\ cur' = LookupResult(ip) /\ tbs' = tbs
          /\ UNCHANGED <<x, code, fetchable>> /\ LookupResult(ip) # nullptr
          /\ ip \in Addr
      BY <1>LoopHit, <1>t DEF LoopHit, cpuvars, guestvars, CpuTypeOK
    <2>2. tbs'[cur'].ip = ip
      BY <1>found, <2>1
    <2> QED
      BY <2>1, <2>2, GuestAt, GuestAtNext DEF Unseen
  <1>Emit. CASE Emit
    <2>1. /\ pc = "emit" /\ pc' = "enter" /\ cur' = tb_used + 1 /\ job.ip = ip
          /\ UNCHANGED <<x, code, fetchable>>
          /\ tbs' = [tbs EXCEPT ![tb_used + 1] = [ip |-> job.ip, insns |-> job.insns]]
          /\ tb_used + 1 \in TBId
      BY <1>Emit, <1>t, <1>c, TCacheAssumption
      DEF Emit, AnnounceRegion, PoolsFit, cpuvars, guestvars, DispatchInv,
          CacheTypeInv, TCacheTypeOK, TBId
    <2>2. tbs'[cur'].ip = ip
      BY <1>t, <2>1 DEF CacheTypeInv, TCacheTypeOK
    <2> QED
      BY <2>1, <2>2, GuestAt, GuestAtNext DEF Unseen
  <1>Enter. CASE EnterLink \/ EnterBrind
    <2>1. /\ pc = "enter" /\ RunBlock(cur) /\ tbs' = tbs /\ cur \in Allocated
          /\ UNCHANGED <<x, code, fetchable>>
      BY <1>Enter, <1>t DEF EnterLink, EnterBrind, ControlTypeInv, cpuvars, guestvars
    <2> QED
      BY <1>enters, <2>1, GuestAt
  <1>SlotLinked. CASE SlotLinked
    <2>1. /\ pc = "slot" /\ slot \in Slot /\ slot[1] \in Allocated
          /\ slot \in Linked /\ RunBlock(link[slot]) /\ tbs' = tbs
          /\ UNCHANGED <<x, code, fetchable>>
      BY <1>SlotLinked, <1>t
      DEF SlotLinked, ControlTypeInv, Linked, cpuvars, guestvars, tcvars
    <2>2. SlotGip(slot) \in Addr
      BY <1>t, <2>1, SlotGipType
    <2>3. link[slot] \in Allocated /\ tbs[link[slot]].ip = SlotGip(slot)
      BY <1>c, <2>1, <2>2 DEF CacheCoherent, Linked
    <2> QED
      BY <1>enters, <2>1, <2>3, GuestAt
  <1>SlotStubFound. CASE SlotStubFound
    <2>1. /\ pc = "slot" /\ slot \in Slot /\ slot[1] \in Allocated
          /\ LookupResult(SlotGip(slot)) # nullptr
          /\ RunBlock(LookupResult(SlotGip(slot))) /\ tbs' = tbs
          /\ UNCHANGED <<x, code, fetchable>>
      BY <1>SlotStubFound, <1>t
      DEF SlotStubFound, ControlTypeInv, cpuvars, guestvars
    <2>2. SlotGip(slot) \in Addr
      BY <1>t, <2>1, SlotGipType
    <2> QED
      BY <1>enters, <1>found, <2>1, <2>2, GuestAt
  <1>SlotStubEscape. CASE SlotStubEscape
    <2>1. /\ pc = "slot" /\ pc' = "loop" /\ ip' = SlotGip(slot)
          /\ UNCHANGED <<x, code, fetchable>>
      BY <1>SlotStubEscape DEF SlotStubEscape, guestvars
    <2> QED
      BY <2>1, GuestAt, GuestAtNext DEF Unseen
  <1>BrindHit. CASE BrindHit
    <2>1. /\ pc = "brind" /\ BrindEntry.gip = tgt /\ BrindEntry.code # nullptr
          /\ RunBlock(BrindEntry.code) /\ tbs' = tbs
          /\ UNCHANGED <<x, code, fetchable>>
      BY <1>BrindHit DEF BrindHit, cpuvars, guestvars, tcvars
    <2>2. tgt \in Addr /\ l1hash(tgt) \in Hash
      BY <1>t, HashType DEF ControlTypeInv
    <2>3. BrindEntry.code \in Allocated /\ tbs[BrindEntry.code].ip = tgt
      BY <1>c, <2>1, <2>2 DEF CacheCoherent, BrindEntry
    <2> QED
      BY <1>enters, <2>1, <2>3, GuestAt
  <1>BrindMiss. CASE BrindMiss
    <2>1. /\ pc = "brind" /\ pc' = "brindstub" /\ tgt' = tgt
          /\ UNCHANGED <<x, code, fetchable>>
      BY <1>BrindMiss DEF BrindMiss, cpuvars, guestvars, ctlvars
    <2> QED
      BY <2>1, GuestAt, GuestAtNext DEF Unseen
  <1>BrindStubFound. CASE BrindStubFound
    <2>1. /\ pc = "brindstub" /\ LookupResult(tgt) # nullptr /\ tgt \in Addr
          /\ RunBlock(LookupResult(tgt)) /\ tbs' = tbs
          /\ UNCHANGED <<x, code, fetchable>>
      BY <1>BrindStubFound, <1>t DEF BrindStubFound, guestvars, ControlTypeInv
    <2> QED
      BY <1>enters, <1>found, <2>1, GuestAt
  <1>BrindStubEscape. CASE BrindStubEscape
    <2>1. /\ pc = "brindstub" /\ pc' = "loop" /\ ip' = tgt
          /\ UNCHANGED <<x, code, fetchable>>
      BY <1>BrindStubEscape DEF BrindStubEscape, guestvars
    <2> QED
      BY <2>1, GuestAt, GuestAtNext DEF Unseen
  <1> QED
    BY <1>LoopMissAssert, <1>translate, <1>pool, <1>BrindNull, <1>stay, <1>LoopHit, <1>Emit, <1>Enter, <1>SlotLinked,
       <1>SlotStubFound, <1>SlotStubEscape, <1>BrindHit, <1>BrindMiss,
       <1>BrindStubFound, <1>BrindStubEscape
    DEF Dispatch

\* The environment executes the ecall or the ebreak that trapped.
LEMMA EnvRefines ==
  ASSUME TypeInv, HartInv, Env
  PROVE  G!Next
  <1>1. pc = "env" /\ GuestIp = ip /\ GuestStatus = "running"
    BY GuestAt DEF Env, EnvSyscall, EnvExit, EnvUnhandled, EnvBreak
  <1>2. CASE EnvSyscall
    <2>1. PICK i \in fetchable[ip] : i.op = "ecall"
      BY <1>1, <1>2 DEF EnvSyscall, HartInv, TrappedInv
    <2>2. /\ GuestIp' = NextIp(ip) /\ GuestStatus' = "running" /\ x' \in Val
          /\ UNCHANGED <<code, fetchable>>
      BY <1>2, GuestAtNext DEF EnvSyscall, guestvars
    <2>3. G!Ecall(i)
      BY <1>1, <2>1, <2>2, GuestSame DEF G!Ecall, G!Fetches
    <2> QED
      BY <1>1, <2>1, <2>3 DEF G!Next, G!Step
  <1>3. CASE EnvExit \/ EnvBreak
    <2>1. PICK i \in fetchable[ip] : i.op \in {"ecall", "ebreak"}
      BY <1>1, <1>3 DEF EnvExit, EnvBreak, HartInv, TrappedInv
    <2>2. /\ GuestIp' = 0 /\ GuestStatus' = "exited"
          /\ UNCHANGED <<x, code, fetchable>>
      BY <1>3, GuestAtNext DEF EnvExit, EnvBreak, cpuvars, guestvars
    <2>3. G!Exit(i)
      BY <1>1, <2>1, <2>2 DEF G!Exit, G!Fetches
    <2> QED
      BY <1>1, <2>1, <2>3 DEF G!Next, G!Step
  <1>4. CASE EnvUnhandled
    <2>1. \E i \in fetchable[GuestIp] : i.op = "ecall"
      BY <1>1, <1>4 DEF EnvUnhandled, HartInv, TrappedInv
    <2>2. G!MayFail
      BY <2>1, GuestMayFail
    <2> QED
      BY <1>1, <1>4, <2>2, GuestFail DEF EnvUnhandled
  <1> QED
    BY <1>2, <1>3, <1>4 DEF Env

\* Every step of the emulator is a step of the hart or none.
LEMMA GuestStep ==
  /\ TypeInv /\ CoherenceInv /\ RegionInv /\ HartInv /\ EmptyInv
  /\ [Next]_vars
  => [G!Next]_(G!gvars)
  <1> SUFFICES ASSUME TypeInv, CoherenceInv, RegionInv, HartInv, EmptyInv,
                      [Next]_vars
               PROVE  G!Next \/ Unseen
    BY DEF Unseen, G!gvars
  <1>1. CASE Stopped \/ UNCHANGED vars
    <2>1. UNCHANGED <<pc, ip, x, code, fetchable, tgt, cur, pos, slot, tbs, abort>>
      BY <1>1 DEF Stopped, vars, cpuvars, guestvars, ctlvars, tcvars
    <2> QED
      BY <2>1 DEF Unseen, GuestIp, GuestStatus, CurIp, SlotGip, LastInsn, EndIp, ASpace
  <1> QED
    BY <1>1, JitRefines, DispatchRefines, EnvRefines DEF Next

-----------------------------------------------------------------------------
\* The invariant of the refinement, for a guest that executes no fence.i
\* after it has changed code.
THEOREM HartInvariant == Spec /\ NoFenceIAfterStore => []HartInv
  <1>1. [Next]_vars /\ [JitFenceI => fetchable' = fetchable]_vars => HartStep
    BY DEF HartStep, vars, guestvars
  <1> QED
    BY <1>1, HartInit, HartInvStep, TypeInvariant, TrapInvariant,
       CoherenceInvariant, PTL
    DEF Spec, NoFenceIAfterStore

\* Such a guest is only ever given instructions it may fetch: no block is
\* stale.  The run execute_fencei shows the hypothesis is needed.
THEOREM FetchesCoherent == Spec /\ NoFenceIAfterStore => []FetchCoherent
  <1>1. TypeInv /\ HartInv => FetchCoherent
    <2> SUFFICES ASSUME TypeInv, HartInv, pc = "jit", pos <= Len(tbs[cur].insns)
                 PROVE  CurInsn \in fetchable[CurIp]
      BY DEF FetchCoherent
    <2>1. AtInsn(CurInsn.op)
      BY DEF AtInsn
    <2> QED
      BY <2>1, CurFetched
  <1> QED
    BY <1>1, TypeInvariant, HartInvariant, PTL

\* The emulator implements the hart: whatever mixture of cache hits, linked
\* branches, stubs and traps the host goes through, the guest's instructions
\* are executed one by one in program order.
THEOREM EmulatorIsHart == Spec /\ NoFenceIAfterStore => ImplementsGuest
  BY GuestInit, GuestStep, TypeInvariant, CoherenceInvariant, RegionInvariant,
     HartInvariant, EmptyInvariant, PTL
  DEF Spec, ImplementsGuest, G!Spec

-----------------------------------------------------------------------------
(* Two kinds of guests that never execute a fence.i after changing code:   *)
(* those that do not store into code, and those that have no fence.i.      *)

\* Memory holds all that may be fetched.
SingleFetch == fetchable = [a \in Addr |-> {code[a]}]

\* A guest that does not store into code is executed as on a hart.
THEOREM UnmodifiedCodeIsHart == Patches = {} => (Spec => ImplementsGuest)
  <1> SUFFICES ASSUME Patches = {} PROVE Spec => ImplementsGuest
    OBVIOUS
  <1>1. Init => SingleFetch
    BY DEF Init, SingleFetch
  <1>2. SingleFetch /\ [Next]_vars => SingleFetch'
    BY GuestvarsFrame DEF SingleFetch, guestvars, JitFenceI
  <1>3. SingleFetch /\ [Next]_vars => [JitFenceI => fetchable' = fetchable]_vars
    BY DEF SingleFetch, JitFenceI
  <1>4. Spec => NoFenceIAfterStore
    BY <1>1, <1>2, <1>3, PTL DEF Spec, NoFenceIAfterStore
  <1> QED
    BY <1>4, EmulatorIsHart, PTL

\* Neither the program nor what it may store into code has a fence.i.
NoFenceI ==
  /\ \A p \in Programs : \A a \in Addr : p[a].op # "fencei"
  /\ \A p \in Patches : p[2].op # "fencei"

\* So none is in memory, in the region in progress or in a block.
NoFenceIInv ==
  /\ \A a \in Addr : code[a].op # "fencei"
  /\ \A i \in 1 .. Len(job.insns) : job.insns[i].op # "fencei"
  /\ \A t \in Allocated : \A i \in 1 .. Len(tbs[t].insns) :
       tbs[t].insns[i].op # "fencei"

\* Only three steps change the region in progress or the blocks.
LEMMA RegionsFrame ==
  ASSUME [Next]_vars
  PROVE  UNCHANGED <<job, tbs, tb_used>> \/ LoopMiss \/ Translate \/ Emit
  <1>1. ASSUME NEW why, Abort(why) PROVE UNCHANGED <<job, tbs, tb_used>>
    BY <1>1 DEF Abort, tcvars
  <1>2. CASE Dispatch
    BY <1>1, <1>2
    DEF Dispatch, LoopTrap, LoopHit, LoopMissAssert, TranslateFault,
        TranslateIllegal, EmitPoolFull, EnterLink, EnterBrind, SlotLinked,
        SlotStubFound, SlotStubEscape, BrindHit, BrindNull, BrindMiss,
        BrindStubFound, BrindStubEscape, ctlvars, tcvars
  <1>3. CASE Env \/ Stopped \/ UNCHANGED vars
    BY <1>1, <1>3
    DEF Env, EnvSyscall, EnvExit, EnvUnhandled, EnvBreak, Stopped, vars,
        ctlvars, tcvars
  <1>4. CASE \/ JitAlu \/ JitLoad \/ JitMemFault \/ JitFence \/ JitFenceI
             \/ \E p \in Patches : JitStoreCode(p)
    BY <1>1, <1>4
    DEF JitAlu, JitLoad, JitMemFault, JitFence, JitFenceI, JitStoreCode,
        Advance, tcvars
  <1>5. CASE JitJal \/ JitBrcc \/ JitFallThrough \/ JitJalr \/ JitEcall \/ JitEbreak
    BY <1>5
    DEF JitJal, JitBrcc, JitFallThrough, JitJalr, JitEcall, JitEbreak,
        RaiseTrap, LeaveBy, tcvars
  <1> QED
    BY <1>2, <1>3, <1>4, <1>5 DEF Next, Jit

\* The invariant is inductive.
LEMMA NoFenceIStep ==
  ASSUME NoFenceI, TypeInv, NoFenceIInv, [Next]_vars
  PROVE  NoFenceIInv'
  <1>1. \A a \in Addr : code'[a].op # "fencei"
    <2>1. ASSUME NEW p \in Patches, JitStoreCode(p)
          PROVE  \A a \in Addr : code'[a].op # "fencei"
      BY <2>1, RV32CodeAssumption
      DEF JitStoreCode, NoFenceI, NoFenceIInv, TypeInv, CpuTypeOK
    <2> QED
      BY <2>1, GuestvarsFrame DEF NoFenceIInv, guestvars, JitFenceI
  <1>2. CASE UNCHANGED <<job, tbs, tb_used>>
    BY <1>1, <1>2 DEF NoFenceIInv, Allocated
  <1>3. CASE LoopMiss
    <2>1. job'.insns = <<>> /\ UNCHANGED <<tbs, tb_used>>
      BY <1>3 DEF LoopMiss, tcvars
    <2>2. \A i \in 1 .. Len(job'.insns) : FALSE
      BY <2>1
    <2> QED
      BY <1>1, <2>1, <2>2 DEF NoFenceIInv, Allocated
  <1>4. CASE Translate
    <2> DEFINE n == Len(job.insns)
               i0 == code[InsnIp(job)]
    <2>1. /\ job \in [ip : Addr, upper : Addr, insns : Seq(Insn)] /\ n \in Nat
          /\ job.insns \in Seq(Insn) /\ job.ip \in Int
          /\ job' = [job EXCEPT !.insns = Append(job.insns, i0)]
          /\ UNCHANGED <<tbs, tb_used>>
      BY <1>4, ASpacePos DEF Translate, TypeInv, ControlTypeInv, Addr, tcvars
    <2>2. job.ip + n \in Int
      BY <2>1
    <2>3. i0 \in Insn /\ i0.op # "fencei"
      BY <2>2, AddrMod DEF InsnIp, TypeInv, CpuTypeOK, NoFenceIInv
    <2>4. job'.insns = Append(job.insns, i0)
      BY <2>1
    <2>5. \A i \in 1 .. Len(job'.insns) : job'.insns[i].op # "fencei"
      BY <2>1, <2>3, <2>4 DEF NoFenceIInv
    <2> QED
      BY <1>1, <2>1, <2>5 DEF NoFenceIInv, Allocated
  <1>5. CASE Emit
    <2> DEFINE t0 == tb_used + 1
    <2>1. /\ tbs' = [tbs EXCEPT ![t0] = [ip |-> job.ip, insns |-> job.insns]]
          /\ tb_used' = t0 /\ job' = NoJob /\ tb_used \in Nat /\ t0 \in TBId
      BY <1>5, TCacheAssumption
      DEF Emit, AnnounceRegion, PoolsFit, TypeInv, CacheTypeInv, TCacheTypeOK, TBId
    <2>2. Allocated' = Allocated \cup {t0} /\ t0 \notin Allocated
      BY <2>1 DEF Allocated
    <2>3. tbs'[t0].insns = job.insns /\ \A u \in Allocated : tbs'[u] = tbs[u]
      BY <2>1, <2>2, AllocatedTBPtr DEF TypeInv, CacheTypeInv, TCacheTypeOK
    <2>4. \A t \in Allocated' : \A i \in 1 .. Len(tbs'[t].insns) :
            tbs'[t].insns[i].op # "fencei"
      BY <2>2, <2>3 DEF NoFenceIInv
    <2>5. \A i \in 1 .. Len(job'.insns) : FALSE
      BY <2>1 DEF NoJob
    <2> QED
      BY <1>1, <2>4, <2>5 DEF NoFenceIInv
  <1> QED
    BY <1>2, <1>3, <1>4, <1>5, RegionsFrame

\* A guest without fence.i is executed as on a hart, even when it stores into
\* its own code: running the old translation is what RISC-V allows it.
THEOREM NoFenceIIsHart == NoFenceI => (Spec => ImplementsGuest)
  <1> SUFFICES ASSUME NoFenceI PROVE Spec => ImplementsGuest
    OBVIOUS
  <1>1. Init => NoFenceIInv
    BY DEF Init, tcache_Init, NoFenceI, NoFenceIInv, NoJob, Allocated
  <1>2. TypeInv /\ NoFenceIInv /\ [Next]_vars => NoFenceIInv'
    BY NoFenceIStep
  <1>3. TypeInv /\ NoFenceIInv => ~AtInsn("fencei")
    <2> SUFFICES ASSUME TypeInv, NoFenceIInv, AtInsn("fencei") PROVE FALSE
      OBVIOUS
    <2>1. cur \in Allocated /\ pos \in Nat /\ pos >= 1 /\ pos <= Len(tbs[cur].insns)
          /\ CurInsn.op = "fencei"
      BY DEF AtInsn, TypeInv, ControlTypeInv
    <2>2. Len(tbs[cur].insns) \in Nat
      BY <2>1, AllocatedTBPtr DEF TypeInv, CacheTypeInv, TCacheTypeOK, TBlock
    <2>3. pos \in 1 .. Len(tbs[cur].insns)
      BY <2>1, <2>2
    <2> QED
      BY <2>1, <2>3 DEF NoFenceIInv, CurInsn
  <1>4. TypeInv /\ NoFenceIInv => [JitFenceI => fetchable' = fetchable]_vars
    BY <1>3 DEF JitFenceI
  <1>5. Spec => NoFenceIAfterStore
    BY <1>1, <1>2, <1>4, TypeInvariant, PTL DEF Spec, NoFenceIAfterStore
  <1> QED
    BY <1>5, EmulatorIsHart, PTL

-----------------------------------------------------------------------------
(* The host stack *)

StackPtr == 0 .. ExecuteSp
Stack == [0 .. ExecuteSp - 1 -> StackWord]
RegFile == [Reg -> StackWord]
Returns == {NoReturn, Ret("execute")}

Machine == [sp : StackPtr, mem : Stack, regs : RegFile, ret : Returns]

\* The return address and the registers of dbt::Execute lie above the frame.
Saved(n) ==
  /\ n.mem[ExecuteSp - 1] = Ret("execute")
  /\ \A i \in 1 .. 6 : n.mem[ExecuteSp - 1 - i] = Host(CalleeSaved[i])

\* A machine on which a region may be entered.
Enterable(n) == n \in Machine /\ n.sp = FrameBase - 1 /\ Saved(n)

\* The machine dbt::Execute runs on.
InExecute(n) == n \in Machine /\ n.sp = ExecuteSp /\ n.regs = HostRegs

-----------------------------------------------------------------------------
(* The operations of the machine *)

\* The words this code puts on the stack.
LEMMA Words ==
  /\ \A r \in Reg : Host(r) \in StackWord
  /\ JitVal \in StackWord /\ Pad \in StackWord /\ NoReturn \in StackWord
  /\ \A to \in {"execute", "trampoline", "slot"} : Ret(to) \in StackWord
  /\ \A k \in 0 .. SpillWords - 1 : Local(k) \in StackWord
  BY DEF StackWord

\* The stack is large enough for what lies above the spill frame.
LEMMA Sizes ==
  /\ SpillWords \in Nat /\ SpillWords % 2 = 0
  /\ ExecuteSp = SpillWords + 12
  /\ FrameBase = 4
  BY HostFrameAssumption DEF ExecuteSp, FrameBase

\* Two words is a depth of the stack, and an aligned one.
LEMMA TwoAligned == 2 \in 0 .. ExecuteSp /\ 2 % 2 = 0
  <1>1. 2 \in 0 .. ExecuteSp
    BY Sizes
  <1>2. 2 % 2 = 0
    OBVIOUS
  <1> QED
    BY <1>1, <1>2

\* Each register has one place in the order of the pushes.
LEMMA SavedOrder ==
  /\ \A i \in 1 .. 6 : CalleeSaved[i] \in Reg
  /\ \A r \in Reg : \E i \in 1 .. 6 : CalleeSaved[i] = r
  <1>1. /\ CalleeSaved[1] = "rbp" /\ CalleeSaved[2] = "rbx"
        /\ CalleeSaved[3] = "r12" /\ CalleeSaved[4] = "r13"
        /\ CalleeSaved[5] = "r14" /\ CalleeSaved[6] = "r15"
    BY DEF CalleeSaved
  <1>2. \A i \in 1 .. 6 : i = 1 \/ i = 2 \/ i = 3 \/ i = 4 \/ i = 5 \/ i = 6
    OBVIOUS
  <1>3. /\ 1 \in 1 .. 6 /\ 2 \in 1 .. 6 /\ 3 \in 1 .. 6 /\ 4 \in 1 .. 6
        /\ 5 \in 1 .. 6 /\ 6 \in 1 .. 6
    OBVIOUS
  <1> QED
    BY <1>1, <1>2, <1>3 DEF Reg

\* A push writes the word below the stack pointer and nothing else.
LEMMA PushMachine ==
  ASSUME NEW n \in Machine, NEW v \in StackWord, n.sp >= 1
  PROVE  /\ Push(n, v) \in Machine
         /\ Push(n, v).sp = n.sp - 1
         /\ Push(n, v).regs = n.regs
         /\ \A a \in n.sp .. ExecuteSp - 1 : Push(n, v).mem[a] = n.mem[a]
         /\ Push(n, v).mem[n.sp - 1] = v
  <1> DEFINE mem == [n.mem EXCEPT ![n.sp - 1] = v]
  <1>1. n.sp \in StackPtr /\ n.mem \in Stack
    BY DEF Machine
  <1>2. n.sp - 1 \in StackPtr /\ n.sp - 1 \in 0 .. ExecuteSp - 1
    BY <1>1, Sizes DEF StackPtr
  <1>3. mem \in Stack
    BY <1>1, <1>2 DEF Stack
  <1>4. mem[n.sp - 1] = v /\ \A a \in n.sp .. ExecuteSp - 1 : mem[a] = n.mem[a]
    BY <1>1, <1>2, Sizes DEF StackPtr, Stack
  <1>5. Push(n, v) \in Machine /\ Push(n, v).sp = n.sp - 1 /\ Push(n, v).mem = mem
        /\ Push(n, v).regs = n.regs
    BY <1>2, <1>3 DEF Machine, Push
  <1> QED
    BY <1>4, <1>5

\* A pop writes nothing.
LEMMA PopMachine ==
  ASSUME NEW n \in Machine, n.sp < ExecuteSp
  PROVE  /\ Pop(n) \in Machine
         /\ Pop(n).sp = n.sp + 1
         /\ Pop(n).regs = n.regs
         /\ Pop(n).mem = n.mem
  <1>1. n.sp + 1 \in StackPtr
    BY Sizes DEF Machine, StackPtr
  <1> QED
    BY <1>1 DEF Machine, Pop

\* A call of compiled code returns with the stack from the stack pointer up
\* as it was.
LEMMA CCallMachine ==
  ASSUME NEW n \in Machine
  PROVE  /\ CCall(n) \in Machine
         /\ CCall(n).sp = n.sp
         /\ CCall(n).regs = n.regs
         /\ \A a \in n.sp .. ExecuteSp - 1 : CCall(n).mem[a] = n.mem[a]
  <1> DEFINE mem == [a \in DOMAIN n.mem |-> IF a < n.sp THEN Pad ELSE n.mem[a]]
  <1>1. n.sp \in StackPtr /\ n.mem \in Stack
    BY DEF Machine
  <1>2. DOMAIN n.mem = 0 .. ExecuteSp - 1
    BY <1>1 DEF Stack
  <1>3. mem \in Stack
    BY <1>1, <1>2, Words DEF Stack
  <1>4. \A a \in n.sp .. ExecuteSp - 1 : mem[a] = n.mem[a]
    BY <1>1, <1>2, Sizes DEF StackPtr
  <1>5. CCall(n) \in Machine /\ CCall(n).sp = n.sp /\ CCall(n).regs = n.regs
        /\ CCall(n).mem = mem
    BY <1>3 DEF Machine, CCall
  <1> QED
    BY <1>4, <1>5

\* Saved depends on the words from the spill frame up only.
LEMMA SavedKept ==
  ASSUME NEW n \in Machine, NEW o \in Machine, Saved(n),
         \A a \in FrameBase + SpillWords .. ExecuteSp - 1 : o.mem[a] = n.mem[a]
  PROVE  Saved(o)
  BY Sizes DEF Saved

\* The trampoline saves the registers of dbt::Execute and leaves the stack
\* pointer on which regions are entered.
LEMMA TrampolineMachine ==
  ASSUME NEW n, InExecute(n)
  PROVE  Enterable(Trampoline(n))
  <1> DEFINE called == Push(n, Ret("execute"))
             mem == [a \in 0 .. ExecuteSp - 1 |->
                       IF a \in ExecuteSp - 7 .. ExecuteSp - 2
                       THEN called.regs[CalleeSaved[ExecuteSp - 1 - a]]
                       ELSE called.mem[a]]
             saved == PushSaved(called)
             frame == [saved EXCEPT !.sp = @ - (SpillWords + 1), !.regs = JitRegs]
             top == Push(frame, Ret("trampoline"))
  <1>1. /\ called \in Machine /\ called.sp = ExecuteSp - 1
        /\ called.regs = HostRegs /\ called.mem[ExecuteSp - 1] = Ret("execute")
    BY Sizes, Words, PushMachine DEF InExecute
  <1> HIDE DEF called
  <1>2. called.mem \in Stack /\ called.regs \in RegFile /\ DOMAIN called.mem = 0 .. ExecuteSp - 1
    BY <1>1 DEF Machine, Stack
  <1>3. mem \in Stack
    <2> SUFFICES ASSUME NEW a \in 0 .. ExecuteSp - 1 PROVE mem[a] \in StackWord
      BY DEF Stack
    <2>1. CASE a \in ExecuteSp - 7 .. ExecuteSp - 2
      <3>1. ExecuteSp - 1 - a \in 1 .. 6
        BY <2>1, Sizes
      <3> QED
        BY <1>2, <2>1, <3>1, SavedOrder DEF RegFile
    <2>2. CASE a \notin ExecuteSp - 7 .. ExecuteSp - 2
      BY <1>2, <2>2 DEF Stack
    <2> QED
      BY <2>1, <2>2
  <1>4. saved = [called EXCEPT !.sp = @ - 6, !.mem = mem]
    <2>1. /\ called.sp - 6 .. called.sp - 1 = ExecuteSp - 7 .. ExecuteSp - 2
          /\ \A a : called.sp - a = ExecuteSp - 1 - a
      BY <1>1, Sizes
    <2> QED
      BY <1>2, <2>1 DEF PushSaved
  <1>5. /\ mem[ExecuteSp - 1] = Ret("execute")
        /\ \A i \in 1 .. 6 : mem[ExecuteSp - 1 - i] = Host(CalleeSaved[i])
    <2>1. mem[ExecuteSp - 1] = Ret("execute")
      BY <1>1, Sizes
    <2>2. ASSUME NEW i \in 1 .. 6
          PROVE  mem[ExecuteSp - 1 - i] = Host(CalleeSaved[i])
      <3>1. /\ ExecuteSp - 1 - i \in 0 .. ExecuteSp - 1
            /\ ExecuteSp - 1 - i \in ExecuteSp - 7 .. ExecuteSp - 2
            /\ ExecuteSp - 1 - (ExecuteSp - 1 - i) = i
        BY Sizes
      <3>2. mem[ExecuteSp - 1 - i] = called.regs[CalleeSaved[i]]
        BY <3>1
      <3> QED
        BY <1>1, <3>2, SavedOrder DEF HostRegs
    <2> QED
      BY <2>1, <2>2
  <1>6. called.sp - 6 \in StackPtr /\ called.sp - 6 = ExecuteSp - 7
    BY <1>1, Sizes DEF StackPtr
  <1> HIDE DEF mem, saved
  <1>7. saved \in Machine /\ saved.sp = ExecuteSp - 7 /\ saved.mem = mem
    BY <1>1, <1>3, <1>4, <1>6 DEF Machine
  <1>8. JitRegs \in RegFile
    BY Words DEF JitRegs, RegFile
  <1>9. /\ saved.sp - (SpillWords + 1) \in StackPtr
        /\ saved.sp - (SpillWords + 1) = FrameBase
    BY <1>7, Sizes DEF StackPtr
  <1>10. frame \in Machine /\ frame.sp = FrameBase /\ frame.mem = mem
    BY <1>7, <1>8, <1>9 DEF Machine
  <1>11. Saved(frame)
    BY <1>5, <1>10 DEF Saved
  <1>12. Trampoline(n) = top
    BY DEF Trampoline, saved, called
  <1> HIDE DEF frame
  <1>13. /\ top \in Machine /\ top.sp = FrameBase - 1
         /\ \A a \in FrameBase .. ExecuteSp - 1 : top.mem[a] = frame.mem[a]
    BY <1>10, PushMachine, Words, Sizes
  <1> HIDE DEF top
  <1>14. \A a \in FrameBase + SpillWords .. ExecuteSp - 1 : top.mem[a] = frame.mem[a]
    BY <1>13, Sizes
  <1>15. Saved(top)
    BY <1>10, <1>11, <1>13, <1>14, SavedKept
  <1> QED
    BY <1>12, <1>13, <1>15 DEF Enterable

\* An escape stub gives dbt::Execute its stack pointer, its registers, each
\* in its place, and its return address.
LEMMA EscapeMachine ==
  ASSUME NEW n, Enterable(n)
  PROVE  InExecute(Escape(n)) /\ Escape(n).ret = Ret("execute")
  <1> DEFINE saved == n.sp + SpillWords + 2
             place(r) == CHOOSE i \in 1 .. 6 : CalleeSaved[i] = r
             regs == [r \in Reg |-> n.mem[saved + 6 - place(r)]]
  <1>1. n \in Machine /\ Saved(n)
    BY DEF Enterable
  <1>2. \A r \in Reg : place(r) \in 1 .. 6 /\ CalleeSaved[place(r)] = r
    BY SavedOrder
  <1>3. /\ saved \in Int /\ ExecuteSp \in StackPtr
        /\ saved + 6 = ExecuteSp - 1 /\ saved + 7 = ExecuteSp
    BY Sizes DEF Enterable, StackPtr
  <1>4. Escape(n) = [n EXCEPT !.sp = saved + 7, !.regs = regs,
                              !.ret = n.mem[saved + 6]]
    BY DEF Escape
  <1> HIDE DEF place, saved
  <1>5. \A r \in Reg : n.mem[saved + 6 - place(r)] = Host(r)
    <2> SUFFICES ASSUME NEW r \in Reg
                 PROVE  n.mem[saved + 6 - place(r)] = Host(r)
      OBVIOUS
    <2>1. place(r) \in 1 .. 6 /\ CalleeSaved[place(r)] = r
      BY <1>2
    <2>2. saved + 6 - place(r) = ExecuteSp - 1 - place(r)
      BY <1>3, <2>1, Sizes
    <2> QED
      BY <1>1, <2>1, <2>2 DEF Saved
  <1>6. regs = HostRegs /\ HostRegs \in RegFile
    BY <1>5, Words DEF HostRegs, RegFile
  <1>7. n.mem[saved + 6] = Ret("execute") /\ Ret("execute") \in Returns
    BY <1>1, <1>3 DEF Saved, Returns
  <1> HIDE DEF regs
  <1> QED
    BY <1>1, <1>3, <1>4, <1>6, <1>7 DEF InExecute, Machine

\* siglongjmp gives dbt::Execute its stack pointer and its registers.
LEMMA LongjmpMachine ==
  ASSUME NEW n \in Machine
  PROVE  InExecute(Longjmp(n))
  <1>1. ExecuteSp \in StackPtr /\ HostRegs \in RegFile
    BY Sizes, Words DEF StackPtr, HostRegs, RegFile
  <1> QED
    BY <1>1 DEF Longjmp, InExecute, Machine

-----------------------------------------------------------------------------
(* The inductive invariant *)

\* The machine that a region runs on, above its own padding.
InRegion(n, lf) ==
  /\ n \in Machine
  /\ n.sp = IF lf THEN FrameBase - 1 ELSE FrameBase - 2
  /\ Saved(n)

\* What each place in the code may rely on.
MachineInv ==
  /\ m \in Machine
  /\ leaf \in BOOLEAN
  /\ locals \subseteq 0 .. SpillWords - 1
  /\ ccall \in 0 .. ExecuteSp /\ ccall % 2 = 0
  /\ pc \in PCs
  /\ pc \in {"jit", "brind"} => InRegion(m, leaf)
  /\ pc = "slot" => InRegion(m, TRUE)
  /\ pc = "brindstub" => InRegion(m, FALSE)
  /\ ~InJit /\ pc # "aborted" => InExecute(m)

\* The frame that was set up is the one for the region that runs.
LeafInv == pc = "jit" => leaf = IsLeaf(cur)

FrameInv == MachineInv /\ LeafInv /\ LocalsSurvive

\* The prologue of a region.
LEMMA SetupMachine ==
  ASSUME NEW n, Enterable(n), NEW lf \in BOOLEAN
  PROVE  InRegion(FrameSetup(n, lf), lf)
  <1>1. CASE lf
    BY <1>1 DEF Enterable, InRegion, FrameSetup
  <1>2. CASE ~lf
    <2> DEFINE o == Push(n, Pad)
    <2>1. n \in Machine /\ n.sp = 3 /\ Saved(n)
      BY Sizes DEF Enterable
    <2>2. /\ o \in Machine /\ o.sp = n.sp - 1
          /\ \A a \in n.sp .. ExecuteSp - 1 : o.mem[a] = n.mem[a]
      BY <2>1, PushMachine, Words
    <2> HIDE DEF o
    <2>3. \A a \in FrameBase + SpillWords .. ExecuteSp - 1 : o.mem[a] = n.mem[a]
      BY <2>1, <2>2, Sizes
    <2>4. Saved(o)
      BY <2>1, <2>2, <2>3, SavedKept
    <2> QED
      BY <1>2, <2>1, <2>2, <2>4, Sizes DEF InRegion, FrameSetup, o
  <1> QED
    BY <1>1, <1>2

\* The epilogue of a region gives back the machine it was entered on.
LEMMA DestroyMachine ==
  ASSUME NEW n, NEW lf \in BOOLEAN, InRegion(n, lf)
  PROVE  Enterable(FrameDestroy(n, lf))
  <1>1. CASE lf
    BY <1>1 DEF Enterable, InRegion, FrameDestroy
  <1>2. CASE ~lf
    <2>1. n \in Machine /\ n.sp = 2 /\ Saved(n) /\ n.sp < ExecuteSp
      BY <1>2, Sizes DEF InRegion
    <2>2. Pop(n) \in Machine /\ Pop(n).sp = 3 /\ Pop(n).mem = n.mem
      BY <2>1, PopMachine
    <2>3. Saved(Pop(n))
      BY <2>1, <2>2 DEF Saved
    <2> QED
      BY <1>2, <2>2, <2>3, Sizes DEF Enterable, FrameDestroy
  <1> QED
    BY <1>1, <1>2

\* A call of compiled code from a region, on its own alignment or not.
LEMMA CallMachine ==
  ASSUME NEW n, NEW lf \in BOOLEAN, InRegion(n, lf)
  PROVE  /\ InRegion(CCall(n), lf)
         /\ \A a \in FrameBase .. ExecuteSp - 1 : CCall(n).mem[a] = n.mem[a]
  <1> DEFINE o == CCall(n)
  <1>1. n \in Machine /\ Saved(n) /\ n.sp \in 2 .. 3
    BY Sizes DEF InRegion
  <1>2. /\ o \in Machine /\ o.sp = n.sp
        /\ \A a \in n.sp .. ExecuteSp - 1 : o.mem[a] = n.mem[a]
    BY <1>1, CCallMachine
  <1> HIDE DEF o
  <1>3. \A a \in FrameBase .. ExecuteSp - 1 : o.mem[a] = n.mem[a]
    BY <1>1, <1>2, Sizes
  <1>4. \A a \in FrameBase + SpillWords .. ExecuteSp - 1 : o.mem[a] = n.mem[a]
    BY <1>3, Sizes
  <1>5. Saved(o)
    BY <1>1, <1>2, <1>4, SavedKept
  <1> QED
    BY <1>1, <1>2, <1>3, <1>5 DEF InRegion, o

\* The linking stub of an unlinked slot: call, call, pop.
LEMMA LinkStubMachine ==
  ASSUME InRegion(m, TRUE)
  PROVE  Enterable(LinkStub)
  <1> DEFINE pushed == Push(m, Ret("slot"))
             called == CCall(pushed)
  <1>1. m \in Machine /\ Saved(m) /\ m.sp = 3
    BY Sizes DEF InRegion
  <1>2. /\ pushed \in Machine /\ pushed.sp = 2
        /\ \A a \in 3 .. ExecuteSp - 1 : pushed.mem[a] = m.mem[a]
    BY <1>1, PushMachine, Words
  <1> HIDE DEF pushed
  <1>3. \A a \in FrameBase + SpillWords .. ExecuteSp - 1 : pushed.mem[a] = m.mem[a]
    BY <1>2, Sizes
  <1>4. Saved(pushed)
    BY <1>1, <1>2, <1>3, SavedKept
  <1>5. InRegion(pushed, FALSE)
    BY <1>2, <1>4, Sizes DEF InRegion
  <1>6. InRegion(called, FALSE)
    BY <1>5, CallMachine
  <1> HIDE DEF called
  <1>7. Enterable(FrameDestroy(called, FALSE))
    BY <1>6, DestroyMachine
  <1> QED
    BY <1>7 DEF LinkStub, FrameDestroy, called, pushed

-----------------------------------------------------------------------------
(* Where the steps of Execute that do not touch the frame start and end *)

\* Dispatcher steps: dbt::Execute keeps running, or the process dies.
LEMMA HostStepPc ==
  HostStep => /\ pc' \in {"env", "enter", "translate", "emit", "aborted"}
              /\ pc' # "aborted" => pc \in {"loop", "translate", "emit"}
  BY DEF HostStep, LoopTrap, LoopHit, LoopMiss, LoopMissAssert, Translate,
     TranslateFault, TranslateIllegal, Emit, EmitPoolFull, BrindNull, Abort

\* Steps of translated code that neither call nor leave the region by a slot.
LEMMA JitStepPc ==
  JitStep => /\ pc = "jit" /\ pc' \in {"jit", "brind", "aborted"}
             /\ pc' = "jit" => cur' = cur /\ tbs' = tbs
  BY DEF JitStep, JitAlu, JitLoad, JitMemFault, JitJalr, JitStoreCode, AtInsn,
     Advance, Abort, tcvars

\* The environment and the end of the process.
LEMMA EnvPc ==
  Env \/ Stopped =>
    \/ pc = "env" /\ pc' \in {"loop", "done", "aborted"}
    \/ pc \in {"done", "aborted"} /\ pc' = pc
  BY DEF Env, EnvSyscall, EnvExit, EnvUnhandled, EnvBreak, Stopped, vars, Abort

\* IsLeaf is a truth value, whatever the block.
LEMMA LeafBoolean == \A t : IsLeaf(t) \in BOOLEAN
  BY DEF IsLeaf

-----------------------------------------------------------------------------
(* Steps *)

\* Entering a region establishes the invariant.
LEMMA EnterStep ==
  ASSUME NEW n, Enterable(n), EnterRegion(n, cur'), pc' = "jit", tbs' = tbs,
         ccall' \in 0 .. ExecuteSp, ccall' % 2 = 0
  PROVE  FrameInv'
  <1>1. IsLeaf(cur') \in BOOLEAN
    BY LeafBoolean
  <1>2. m' = FrameSetup(n, IsLeaf(cur')) /\ leaf' = IsLeaf(cur') /\ locals' = {}
    BY DEF EnterRegion
  <1>3. InRegion(m', leaf')
    BY <1>1, <1>2, SetupMachine
  <1>4. m' \in Machine
    BY <1>3 DEF InRegion
  <1>5. InRegion(m, leaf)'
    BY <1>3 DEF InRegion, Machine, Saved, StackPtr, Stack, RegFile, Returns
  <1>6. MachineInv'
    BY <1>1, <1>2, <1>4, <1>5 DEF MachineInv, PCs, InJit
  <1>7. LeafInv'
    BY <1>2 DEF LeafInv, IsLeaf
  <1> QED
    BY <1>2, <1>6, <1>7 DEF FrameInv, LocalsSurvive

\* So does going back to dbt::Execute.
LEMMA LeaveStep ==
  ASSUME NEW n, InExecute(n), LeaveRegions(n), pc' = "loop",
         ccall' \in 0 .. ExecuteSp, ccall' % 2 = 0
  PROVE  FrameInv'
  <1>1. m' = n /\ leaf' = TRUE /\ locals' = {}
    BY DEF LeaveRegions
  <1>2. m' \in Machine /\ InExecute(m')
    BY <1>1 DEF InExecute
  <1>3. MachineInv'
    BY <1>1, <1>2 DEF MachineInv, PCs, InJit, InExecute
  <1> QED
    BY <1>1, <1>3 DEF FrameInv, LeafInv, LocalsSurvive

\* The initial machine is that of dbt::Execute.
LEMMA FrameInvInit == Init /\ FrameInit => FrameInv
  <1> SUFFICES ASSUME Init, FrameInit PROVE FrameInv
    OBVIOUS
  <1>1. m = [sp |-> ExecuteSp, mem |-> [a \in 0 .. ExecuteSp - 1 |-> Pad],
             regs |-> HostRegs, ret |-> NoReturn]
    BY DEF FrameInit
  <1>2. /\ ExecuteSp \in StackPtr /\ HostRegs \in RegFile /\ NoReturn \in Returns
        /\ [a \in 0 .. ExecuteSp - 1 |-> Pad] \in Stack
    BY Sizes, Words DEF StackPtr, HostRegs, RegFile, Returns, Stack
  <1>3. InExecute(m)
    BY <1>1, <1>2 DEF InExecute, Machine
  <1>4. ccall \in 0 .. ExecuteSp /\ ccall % 2 = 0
    BY Sizes DEF FrameInit
  <1> QED
    BY <1>3, <1>4
    DEF Init, FrameInit, FrameInv, MachineInv, LeafInv, LocalsSurvive,
        InExecute, InJit, PCs

\* Every step of the run time preserves the invariant of the stack.
LEMMA FrameInvStep == TypeInv /\ FrameInv /\ [FNext]_allvars => FrameInv'
  <1> SUFFICES ASSUME TypeInv, FrameInv, [FNext]_allvars PROVE FrameInv'
    OBVIOUS
  <1>i. MachineInv /\ LeafInv /\ LocalsSurvive
    BY DEF FrameInv
  <1>t. m \in Machine /\ leaf \in BOOLEAN /\ ccall \in 0 .. ExecuteSp /\ ccall % 2 = 0
    BY <1>i DEF MachineInv
  <1>same. ASSUME UNCHANGED framevars, pc' \in PCs \ {"jit", "brind", "slot", "brindstub"},
                  pc' # "aborted" => ~InJit /\ pc # "aborted"
           PROVE  FrameInv'
    <2>1. m' = m /\ leaf' = leaf /\ locals' = locals /\ ccall' = ccall
      BY <1>same DEF framevars
    <2>2. pc' # "aborted" => InExecute(m)
      BY <1>i, <1>same DEF MachineInv
    <2>3. MachineInv'
      BY <1>i, <1>same, <2>1, <2>2 DEF MachineInv, InJit, InExecute
    <2> QED
      BY <1>same, <2>3 DEF FrameInv, LeafInv, LocalsSurvive
  <1>HostStep. CASE HostStep /\ UNCHANGED framevars
    BY <1>HostStep, <1>same, HostStepPc DEF PCs, InJit
  <1>Env. CASE (Env \/ Stopped) /\ UNCHANGED framevars
    <2>1. CASE pc = "env" /\ pc' \in {"loop", "done", "aborted"}
      BY <1>Env, <1>same, <2>1 DEF PCs, InJit
    <2>2. CASE pc \in {"done", "aborted"} /\ pc' = pc
      BY <1>Env, <1>same, <2>2 DEF PCs, InJit
    <2> QED
      BY <1>Env, <2>1, <2>2, EnvPc
  <1>JitStep. CASE JitStep /\ UNCHANGED framevars
    <2>1. m' = m /\ leaf' = leaf /\ locals' = locals /\ ccall' = ccall
      BY <1>JitStep DEF framevars
    <2>2. pc = "jit" /\ pc' \in {"jit", "brind", "aborted"} /\ InRegion(m, leaf)
      BY <1>i, <1>JitStep, JitStepPc DEF MachineInv
    <2>3. MachineInv'
      BY <1>i, <2>1, <2>2 DEF MachineInv, InJit, InRegion, Saved, PCs
    <2>4. LocalsSurvive'
      BY <1>i, <2>1, <2>2 DEF LocalsSurvive, LocalSlot
    <2>5. LeafInv'
      BY <1>i, <1>JitStep, <2>1, <2>2, JitStepPc DEF LeafInv, IsLeaf
    <2> QED
      BY <2>3, <2>4, <2>5 DEF FrameInv
  <1>FEnter. CASE FEnter
    <2>1. /\ pc = "enter" /\ pc' = "jit" /\ EnterRegion(Trampoline(m), cur')
          /\ ccall' = ccall /\ tbs' = tbs
      BY <1>FEnter DEF FEnter, EnterLink, EnterBrind, RunBlock
    <2>2. Enterable(Trampoline(m))
      BY <1>i, <2>1, TrampolineMachine DEF MachineInv, InJit
    <2> QED
      BY <1>t, <2>1, <2>2, EnterStep
  \* A region with a helper call is no leaf, so its frame is padded.
  <1>aligned. ASSUME pc = "jit", NEW op \in HelperOps, AtInsn(op)
              PROVE  leaf = FALSE /\ InRegion(m, FALSE) /\ m.sp = 2
                     /\ m.sp \in 0 .. ExecuteSp /\ m.sp % 2 = 0
    <2>1. /\ cur \in TBId /\ tbs[cur].insns \in Seq(Insn) /\ pos \in Nat /\ pos >= 1
      BY <1>aligned, AllocatedTBPtr
      DEF TypeInv, CacheTypeInv, TCacheTypeOK, ControlTypeInv, TBlock
    <2>2. pos \in 1 .. Len(tbs[cur].insns) /\ tbs[cur].insns[pos].op \in HelperOps
      BY <1>aligned, <2>1 DEF AtInsn, CurInsn
    <2>3. ~IsLeaf(cur)
      BY <2>2 DEF IsLeaf
    <2>4. leaf = FALSE /\ InRegion(m, FALSE)
      BY <1>i, <1>aligned, <2>3, LeafBoolean DEF LeafInv, MachineInv
    <2>5. m.sp = 2
      BY <2>4, Sizes DEF InRegion
    <2> QED
      BY <2>4, <2>5, TwoAligned
  <1>FHelper. CASE FHelper
    <2>1. /\ pc = "jit" /\ pc' = "jit" /\ leaf' = leaf /\ locals' = locals
          /\ m' = CCall(m) /\ ccall' = m.sp /\ cur' = cur /\ tbs' = tbs
          /\ AtInsn("fence") \/ AtInsn("fencei")
      BY <1>FHelper DEF FHelper, JitFence, JitFenceI, AtInsn, Advance, tcvars
    <2>2. leaf = FALSE /\ InRegion(m, FALSE) /\ ccall' \in 0 .. ExecuteSp /\ ccall' % 2 = 0
      BY <1>aligned, <2>1 DEF HelperOps
    <2>3. /\ InRegion(m', FALSE)
          /\ \A a \in FrameBase .. ExecuteSp - 1 : m'.mem[a] = m.mem[a]
      BY <2>1, <2>2, CallMachine
    <2>4. m' \in Machine /\ m'.sp = m.sp
      BY <2>2, <2>3 DEF InRegion
    <2>5. MachineInv'
      BY <1>i, <2>1, <2>2, <2>3, <2>4 DEF MachineInv, InJit, InRegion, Saved, PCs
    <2>6. LeafInv'
      BY <1>i, <2>1 DEF LeafInv, IsLeaf
    <2>7. LocalsSurvive'
      <3> SUFFICES ASSUME NEW k \in locals
                   PROVE  /\ LocalSlot(m', leaf', k) \in FrameBase .. FrameBase + SpillWords - 1
                          /\ m'.mem[LocalSlot(m', leaf', k)] = Local(k)
        BY <2>1 DEF LocalsSurvive, LocalSlot
      <3>1. LocalSlot(m', leaf', k) = LocalSlot(m, leaf, k)
        BY <2>1, <2>4 DEF LocalSlot
      <3>2. /\ LocalSlot(m, leaf, k) \in FrameBase .. FrameBase + SpillWords - 1
            /\ m.mem[LocalSlot(m, leaf, k)] = Local(k)
        BY <1>i, <2>1 DEF LocalsSurvive
      <3>3. LocalSlot(m, leaf, k) \in FrameBase .. ExecuteSp - 1
        BY <3>2, Sizes
      <3> QED
        BY <2>3, <3>1, <3>2, <3>3
    <2> QED
      BY <2>5, <2>6, <2>7 DEF FrameInv
  <1>FTrap. CASE FTrap
    <2>1. /\ pc = "jit" /\ pc' = "loop" /\ ccall' = m.sp
          /\ LeaveRegions(Longjmp(CCall(m)))
          /\ AtInsn("ecall") \/ AtInsn("ebreak")
      BY <1>FTrap DEF FTrap, JitEcall, JitEbreak, RaiseTrap, AtInsn
    <2>2. InRegion(m, FALSE) /\ ccall' \in 0 .. ExecuteSp /\ ccall' % 2 = 0
      BY <1>aligned, <2>1 DEF HelperOps
    <2>3. InExecute(Longjmp(CCall(m)))
      BY <1>t, CCallMachine, LongjmpMachine
    <2> QED
      BY <2>1, <2>2, <2>3, LeaveStep
  <1>FLeave. CASE FLeave
    <2>1. /\ pc = "jit" /\ leaf' = leaf /\ locals' = locals /\ ccall' = ccall
          /\ InRegion(m, leaf)
      BY <1>i, <1>FLeave
      DEF FLeave, JitJal, JitBrcc, JitFallThrough, AtInsn, MachineInv
    <2>2. \/ pc' = "slot"
          \/ pc' = "jit" /\ cur' = cur /\ tbs' = tbs
      BY <1>FLeave, <2>1 DEF FLeave, JitJal, JitBrcc, JitFallThrough, LeaveBy, tcvars
    <2>3. CASE pc' = "slot"
      <3>1. m' = FrameDestroy(m, leaf) /\ Enterable(FrameDestroy(m, leaf))
        BY <1>t, <1>FLeave, <2>1, <2>3, DestroyMachine DEF FLeave
      <3>2. m' \in Machine /\ InRegion(m', TRUE)
        BY <3>1 DEF Enterable, InRegion
      <3>3. MachineInv'
        BY <1>i, <2>1, <2>3, <3>2 DEF MachineInv, InJit, InRegion, Saved, PCs
      <3> QED
        BY <2>3, <3>3 DEF FrameInv, LeafInv, LocalsSurvive
    <2>4. CASE pc' = "jit" /\ cur' = cur /\ tbs' = tbs
      <3>1. m' = m
        BY <1>FLeave, <2>4 DEF FLeave
      <3>2. MachineInv'
        BY <1>i, <2>1, <2>4, <3>1 DEF MachineInv, InJit, InRegion, Saved, PCs
      <3>3. LeafInv' /\ LocalsSurvive'
        BY <1>i, <2>1, <2>4, <3>1 DEF LeafInv, IsLeaf, LocalsSurvive, LocalSlot
      <3> QED
        BY <3>2, <3>3 DEF FrameInv
    <2> QED
      BY <2>2, <2>3, <2>4
  <1>slot. ASSUME pc = "slot"
           PROVE  /\ InRegion(m, TRUE) /\ Enterable(m) /\ Enterable(LinkStub)
                  /\ m.sp - 1 \in 0 .. ExecuteSp /\ (m.sp - 1) % 2 = 0
    <2>1. InRegion(m, TRUE)
      BY <1>i, <1>slot DEF MachineInv
    <2>2. Enterable(m)
      BY <2>1 DEF InRegion, Enterable
    <2>3. m.sp - 1 = 2
      BY <2>1, Sizes DEF InRegion
    <2> QED
      BY <2>1, <2>2, <2>3, LinkStubMachine, TwoAligned
  <1>FSlotLinked. CASE FSlotLinked
    <2>1. /\ pc = "slot" /\ pc' = "jit" /\ tbs' = tbs /\ EnterRegion(m, cur')
          /\ ccall' = ccall
      BY <1>FSlotLinked DEF FSlotLinked, SlotLinked, RunBlock, tcvars
    <2> QED
      BY <1>t, <1>slot, <2>1, EnterStep
  <1>FSlotStubFound. CASE FSlotStubFound
    <2>1. /\ pc = "slot" /\ pc' = "jit" /\ tbs' = tbs
          /\ EnterRegion(LinkStub, cur') /\ ccall' = m.sp - 1
      BY <1>FSlotStubFound DEF FSlotStubFound, SlotStubFound, RunBlock
    <2> QED
      BY <1>slot, <2>1, EnterStep
  <1>FSlotStubEscape. CASE FSlotStubEscape
    <2>1. /\ pc = "slot" /\ pc' = "loop" /\ ccall' = m.sp - 1
          /\ LeaveRegions(Escape(LinkStub))
      BY <1>FSlotStubEscape DEF FSlotStubEscape, SlotStubEscape
    <2>2. InExecute(Escape(LinkStub))
      BY <1>slot, <2>1, EscapeMachine
    <2> QED
      BY <1>slot, <2>1, <2>2, LeaveStep
  <1>FBrindHit. CASE FBrindHit
    <2>1. /\ pc = "brind" /\ pc' = "jit" /\ tbs' = tbs /\ ccall' = ccall
          /\ EnterRegion(FrameDestroy(m, leaf), cur')
      BY <1>FBrindHit DEF FBrindHit, BrindHit, RunBlock, tcvars
    <2>2. Enterable(FrameDestroy(m, leaf))
      BY <1>i, <1>t, <2>1, DestroyMachine DEF MachineInv
    <2> QED
      BY <1>t, <2>1, <2>2, EnterStep
  <1>FBrindMiss. CASE FBrindMiss
    <2>1. /\ pc = "brind" /\ pc' = "brindstub" /\ InRegion(m, leaf)
          /\ m' = FrameSetup(m, ~leaf) /\ leaf' = leaf /\ locals' = locals
          /\ ccall' = ccall
      BY <1>i, <1>t, <1>FBrindMiss
      DEF FBrindMiss, BrindMiss, MachineInv, FrameSetup
    <2>2. InRegion(m', FALSE)
      <3>1. CASE leaf
        <4>1. Enterable(m)
          BY <2>1, <3>1 DEF InRegion, Enterable
        <4> QED
          BY <2>1, <3>1, <4>1, SetupMachine
      <3>2. CASE ~leaf
        BY <1>t, <2>1, <3>2 DEF FrameSetup
      <3> QED
        BY <3>1, <3>2
    <2>3. m' \in Machine
      BY <2>2 DEF InRegion
    <2>4. MachineInv'
      BY <1>i, <2>1, <2>2, <2>3 DEF MachineInv, InJit, InRegion, Saved, PCs
    <2> QED
      BY <2>1, <2>4 DEF FrameInv, LeafInv, LocalsSurvive
  <1>brindstub. ASSUME pc = "brindstub"
                PROVE  /\ Enterable(Pop(CCall(m)))
                       /\ m.sp \in 0 .. ExecuteSp /\ m.sp % 2 = 0
    <2>1. InRegion(m, FALSE)
      BY <1>i, <1>brindstub DEF MachineInv
    <2>2. InRegion(CCall(m), FALSE)
      BY <2>1, CallMachine
    <2>3. Enterable(FrameDestroy(CCall(m), FALSE))
      BY <2>2, DestroyMachine
    <2>4. m.sp = 2
      BY <2>1, Sizes DEF InRegion
    <2> QED
      BY <2>3, <2>4, Sizes DEF FrameDestroy
  <1>FBrindStubFound. CASE FBrindStubFound
    <2>1. /\ pc = "brindstub" /\ pc' = "jit" /\ tbs' = tbs /\ ccall' = m.sp
          /\ EnterRegion(Pop(CCall(m)), cur')
      BY <1>FBrindStubFound DEF FBrindStubFound, BrindStubFound, RunBlock
    <2> QED
      BY <1>brindstub, <2>1, EnterStep
  <1>FBrindStubEscape. CASE FBrindStubEscape
    <2>1. /\ pc = "brindstub" /\ pc' = "loop" /\ ccall' = m.sp
          /\ LeaveRegions(Escape(Pop(CCall(m))))
      BY <1>FBrindStubEscape DEF FBrindStubEscape, BrindStubEscape
    <2>2. InExecute(Escape(Pop(CCall(m))))
      BY <1>brindstub, <2>1, EscapeMachine
    <2> QED
      BY <1>brindstub, <2>1, <2>2, LeaveStep
  <1>FSpill. ASSUME NEW k \in 0 .. SpillWords - 1, FSpill(k) PROVE FrameInv'
    <2> DEFINE a == LocalSlot(m, leaf, k)
    <2>1. /\ pc = "jit" /\ pc' = pc /\ cur' = cur /\ tbs' = tbs
          /\ leaf' = leaf /\ ccall' = ccall /\ locals' = locals \cup {k}
          /\ m' = [m EXCEPT !.mem[a] = Local(k)] /\ k \notin locals
          /\ InRegion(m, leaf)
      BY <1>i, <1>FSpill DEF FSpill, vars, ctlvars, tcvars, MachineInv
    <2>2. \A j \in 0 .. SpillWords - 1 :
            LocalSlot(m, leaf, j) = FrameBase + j
      BY <1>t, <2>1, Sizes DEF InRegion, LocalSlot
    <2>3. a = FrameBase + k /\ a \in 0 .. ExecuteSp - 1
      BY <2>2, Sizes
    <2> HIDE DEF a
    <2>4. [m.mem EXCEPT ![a] = Local(k)] \in Stack
      BY <1>t, <2>3, Words DEF Machine, Stack
    <2>5. /\ m' \in Machine /\ m'.sp = m.sp
          /\ m'.mem = [m.mem EXCEPT ![a] = Local(k)]
      BY <1>t, <2>1, <2>4 DEF Machine
    <2>6. m'.mem[a] = Local(k) /\ \A b \in 0 .. ExecuteSp - 1 :
                                    b # a => m'.mem[b] = m.mem[b]
      BY <1>t, <2>3, <2>5 DEF Machine, Stack
    <2>7. Saved(m')
      <3>1. \A b \in FrameBase + SpillWords .. ExecuteSp - 1 : m'.mem[b] = m.mem[b]
        BY <2>3, <2>6, Sizes
      <3> QED
        BY <1>t, <2>1, <2>5, <3>1, SavedKept DEF InRegion
    <2>8. InRegion(m', leaf')
      BY <2>1, <2>5, <2>7 DEF InRegion
    <2>9. MachineInv'
      BY <1>i, <2>1, <2>5, <2>8 DEF MachineInv, InJit, InRegion, Saved, PCs
    <2>10. LeafInv'
      BY <1>i, <2>1 DEF LeafInv, IsLeaf
    <2>11. LocalsSurvive'
      <3> SUFFICES ASSUME NEW j \in locals \cup {k}
                   PROVE  /\ LocalSlot(m', leaf', j) \in FrameBase .. FrameBase + SpillWords - 1
                          /\ m'.mem[LocalSlot(m', leaf', j)] = Local(j)
        BY <2>1 DEF LocalsSurvive, LocalSlot
      <3>1. j \in 0 .. SpillWords - 1
        BY <1>i DEF MachineInv
      <3>2. LocalSlot(m', leaf', j) = FrameBase + j
        BY <2>1, <2>2, <2>5, <3>1 DEF LocalSlot
      <3>3. FrameBase + j \in FrameBase .. FrameBase + SpillWords - 1
            /\ FrameBase + j \in 0 .. ExecuteSp - 1
        BY <3>1, Sizes
      <3>4. CASE j = k
        BY <2>3, <2>6, <3>2, <3>3, <3>4
      <3>5. CASE j # k
        <4>1. FrameBase + j # a
          BY <2>3, <3>1, <3>5, Sizes
        <4>2. m.mem[FrameBase + j] = Local(j)
          BY <1>i, <2>1, <2>2, <3>1, <3>5 DEF LocalsSurvive
        <4> QED
          BY <2>6, <3>2, <3>3, <4>1, <4>2
      <3> QED
        BY <3>4, <3>5
    <2> QED
      BY <2>9, <2>10, <2>11 DEF FrameInv
  <1>Stutter. CASE UNCHANGED allvars
    <2>1. /\ m' = m /\ leaf' = leaf /\ locals' = locals /\ ccall' = ccall
          /\ pc' = pc /\ cur' = cur /\ tbs' = tbs
      BY <1>Stutter DEF allvars, framevars, vars, ctlvars, tcvars
    <2>2. MachineInv'
      BY <1>i, <2>1 DEF MachineInv, InJit, InRegion, InExecute, Saved
    <2> QED
      BY <1>i, <2>1, <2>2 DEF FrameInv, LeafInv, IsLeaf, LocalsSurvive, LocalSlot
  <1> QED
    BY <1>HostStep, <1>Env, <1>JitStep, <1>FEnter, <1>FHelper, <1>FTrap,
       <1>FLeave, <1>FSlotLinked, <1>FSlotStubFound, <1>FSlotStubEscape,
       <1>FBrindHit, <1>FBrindMiss, <1>FBrindStubFound, <1>FBrindStubEscape,
       <1>FSpill, <1>Stutter
    DEF FNext, FDispatch, FJit

-----------------------------------------------------------------------------
(* Theorems *)

\* A step with the host stack is a step of the run time, or stores a local.
LEMMA FStepNext == [FNext]_allvars => [Next]_vars
  BY DEF FNext, FDispatch, FJit, HostStep, JitStep, FEnter, FHelper, FTrap,
     FLeave, FSlotLinked, FSlotStubFound, FSlotStubEscape, FBrindHit,
     FBrindMiss, FBrindStubFound, FBrindStubEscape, FSpill, Next, Dispatch,
     Jit, allvars

\* The composition with the host stack restricts nothing but adds to the run
\* time: whatever is proved of Execute holds of it.
THEOREM FrameImplementsExecute == FSpec => Spec
  BY FStepNext, PTL DEF FSpec, Spec

\* The invariant of the stack holds in every reachable state.
THEOREM FrameInvariant == FSpec => []FrameInv
  <1>1. FSpec => []TypeInv
    BY FrameImplementsExecute, TypeInvariant, PTL
  <1> QED
    BY <1>1, FrameInvInit, FrameInvStep, PTL DEF FSpec

\* The stack pointer never leaves the stack, and registers and words hold
\* what this code can put there.
THEOREM FrameTyped == FSpec => []FrameTypeOK
  <1>1. FrameInv => FrameTypeOK
    BY Words
    DEF FrameInv, MachineInv, FrameTypeOK, Machine, StackPtr, Stack, RegFile,
        Returns
  <1> QED
    BY <1>1, FrameInvariant, PTL

\* However long control goes from region to region without returning to
\* dbt::Execute, every path comes back to the stack pointer it must: the
\* pushes and pops of prologues, epilogues, stubs and slow paths cancel.
THEOREM StackBalanced == FSpec => []FrameBalanced
  <1>1. FrameInv => FrameBalanced
    BY DEF FrameInv, MachineInv, FrameBalanced, InRegion, InExecute, InJit, PCs
  <1> QED
    BY <1>1, FrameInvariant, PTL

\* Helpers, the linking stub and the slow path of an indirect branch are
\* always called on a 16-byte aligned stack, whether the region is a leaf or
\* not.
THEOREM AlwaysAligned == FSpec => []CallsAligned
  <1>1. FrameInv => CallsAligned
    BY DEF FrameInv, MachineInv, CallsAligned
  <1> QED
    BY <1>1, FrameInvariant, PTL

\* dbt::Execute gets its callee-saved registers and its return address back,
\* by whichever of the stubs or siglongjmp it is returned to.
THEOREM HostContextSurvives == FSpec => []HostContextKept
  <1>1. FrameInv => HostContextKept
    BY DEF FrameInv, MachineInv, HostContextKept, InRegion, InExecute, InJit,
       Saved, PCs, Machine, Returns
  <1> QED
    BY <1>1, FrameInvariant, PTL

\* A spilled local is found again in its slot, which lies in the spill frame.
THEOREM LocalsKept == FSpec => []LocalsSurvive
  <1>1. FrameInv => LocalsSurvive
    BY DEF FrameInv
  <1> QED
    BY <1>1, FrameInvariant, PTL
=============================================================================
