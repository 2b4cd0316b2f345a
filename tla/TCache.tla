------------------------------- MODULE TCache -------------------------------
(***************************************************************************)
(* The translation cache (tcache.h, tcache.cpp): the pool of translated    *)
(* blocks, the ordered map from guest address to block, the two            *)
(* direct-mapped L1 caches in front of it, the branch slots inside the     *)
(* translated code and the map that records which slots are linked.        *)
(*                                                                         *)
(* A block is named by its place in the pool, 1 .. TBPoolSize; nullptr is  *)
(* 0.  Its host code starts at tcode.ptr, which no other block shares, so  *)
(* a code pointer is the block it starts and "jump to tcode.ptr" is "enter *)
(* the block".  Every block has at most two branch slots.                  *)
(***************************************************************************)
EXTENDS RV32Code

CONSTANTS
  TB_MAX_INSNS,   \* instructions of the longest block
  TBPoolSize,     \* blocks tb_pool can hold
  CodePoolSize,   \* instructions code_pool can hold
  L1Size          \* entries of each L1 cache

ASSUME TCacheAssumption ==
  /\ TB_MAX_INSNS \in Nat \ {0}
  /\ TBPoolSize \in Nat
  /\ CodePoolSize \in Nat
  /\ L1Size \in Nat \ {0}

nullptr == 0

TBId == 1 .. TBPoolSize

TBPtr == TBId \cup {nullptr}

Hash == 0 .. L1Size - 1

\* A block: its entry and the guest instructions it was translated from.
TBlock == [ip : Addr, insns : Seq(Insn)]

EmptyTBlock == [ip |-> 0, insns |-> <<>>]

\* Branch slot k of block t.  Slot 0 leaves by a jal, by a fall-through or by
\* the not-taken side of a conditional branch, slot 1 by its taken side.
Slot == TBId \X {0, 1}

VARIABLES
  tbs,             \* TBPtr -> TBlock : contents of tb_pool
  tb_used,         \* blocks allocated from tb_pool
  code_used,       \* instructions allocated from code_pool
  tcache_map,      \* Addr -> TBPtr : the std::map, nullptr for no entry
  l1_cache,        \* Hash -> TBPtr
  l1_brind_cache,  \* Hash -> [gip, code] : read by translated code
  link,            \* Slot -> TBPtr : where the slot jumps, nullptr for the
                   \*   call to the lazy linking stub
  link_map,        \* recorded links, pairs <<target address, slot>>
  segment_entries, \* blocks whose flag is_segment_entry is set
  brind_targets    \* blocks whose flag is_brind_target is set

tcvars == <<tbs, tb_used, code_used, tcache_map, l1_cache, l1_brind_cache,
            link, link_map, segment_entries, brind_targets>>

TCacheTypeOK ==
  /\ tbs \in [TBId -> TBlock]
  /\ tb_used \in 0 .. TBPoolSize
  /\ code_used \in 0 .. CodePoolSize
  /\ tcache_map \in [Addr -> TBPtr]
  /\ l1_cache \in [Hash -> TBPtr]
  /\ l1_brind_cache \in [Hash -> [gip : Addr, code : TBPtr]]
  /\ link \in [Slot -> TBPtr]
  /\ link_map \subseteq Addr \X Slot
  /\ segment_entries \subseteq TBId
  /\ brind_targets \subseteq TBId

tcache_Init ==
  /\ tbs = [t \in TBId |-> EmptyTBlock]
  /\ tb_used = 0
  /\ code_used = 0
  /\ tcache_map = [a \in Addr |-> nullptr]
  /\ l1_cache = [h \in Hash |-> nullptr]
  /\ l1_brind_cache = [h \in Hash |-> [gip |-> 0, code |-> nullptr]]
  /\ link = [s \in Slot |-> nullptr]
  /\ link_map = {}
  /\ segment_entries = {}
  /\ brind_targets = {}

Allocated == 1 .. tb_used

Linked == {s \in Slot : link[s] # nullptr}

l1hash(a) == a % L1Size

-----------------------------------------------------------------------------
(* Branch slots of a block *)

LastInsn(t) == tbs[t].insns[Len(tbs[t].insns)]

\* Address of the instruction after the last one of the block.
EndIp(t) == (tbs[t].ip + Len(tbs[t].insns)) % ASpace

\* BranchSlot::gip, the guest address the slot leads to.
SlotGip(s) ==
  IF \/ s[2] = 1
     \/ LastInsn(s[1]).op = "jal"
  THEN LastInsn(s[1]).tgt
  ELSE EndIp(s[1])

\* BranchSlot::flags.cross_segment
CrossSegment(s) == ~InSegment(rounddown(tbs[s[1]].ip), SlotGip(s))

-----------------------------------------------------------------------------
(* Operations.  Each gives the next value of the variables it changes; the *)
(* caller's action says what stays.                                        *)

\* Mutant: the L1 entry is taken without comparing its address.
LookupResultUntagged(a) ==
  LET tb == l1_cache[l1hash(a)]
  IN  IF tb # nullptr THEN tb ELSE tcache_map[a]

\* Mutant: a miss of the L1 cache is a miss.
LookupResultL1Only(a) ==
  LET tb == l1_cache[l1hash(a)]
  IN  IF tb # nullptr /\ tbs[tb].ip = a THEN tb ELSE nullptr

\* The block Lookup returns: the L1 entry when it is for a, else the map's.
LookupResult(a) ==
  LET tb == l1_cache[l1hash(a)]
  IN  IF tb # nullptr /\ tbs[tb].ip = a THEN tb ELSE tcache_map[a]

\* What Lookup leaves in the L1 cache: a hit of the map is filled in.
LookupFill(a) ==
  l1_cache' = IF LookupResult(a) = nullptr THEN l1_cache
              ELSE [l1_cache EXCEPT ![l1hash(a)] = LookupResult(a)]

\* u is the address LookupUpperBound(a)->ip bounds a block at a by: the least
\* mapped address above a.
IsUpperBound(u, a) ==
  /\ u > a
  /\ tcache_map[u] # nullptr
  /\ \A v \in Addr : v > a /\ tcache_map[v] # nullptr => u <= v

HasUpperBound(a) == \E v \in Addr : v > a /\ tcache_map[v] # nullptr

\* std::map::insert does not replace an entry; the L1 cache is overwritten.
Insert(t, a) ==
  /\ tcache_map' = IF tcache_map[a] = nullptr
                   THEN [tcache_map EXCEPT ![a] = t]
                   ELSE tcache_map
  /\ l1_cache' = [l1_cache EXCEPT ![l1hash(a)] = t]

CacheBrind(t) ==
  /\ l1_brind_cache' = [l1_brind_cache EXCEPT ![l1hash(tbs[t].ip)] =
                          [gip |-> tbs[t].ip, code |-> t]]
  /\ brind_targets' = brind_targets \cup {t}

\* Mutant: the flag of the target is not set.
RecordLinkUnflagged(s, t) ==
  /\ segment_entries' = segment_entries
  /\ link_map' = link_map \cup {<<tbs[t].ip, s>>}

RecordLink(s, t) ==
  /\ segment_entries' = IF CrossSegment(s) THEN segment_entries \cup {t}
                        ELSE segment_entries
  /\ link_map' = link_map \cup {<<tbs[t].ip, s>>}

\* Mutant: the patch is written to the first slot of the block.
LinkSlotFirst(s, t) ==
  /\ link' = [link EXCEPT ![<<s[1], 0>>] = t]
  /\ RecordLink(s, t)

\* BranchSlot::Link(tcode.ptr) followed by RecordLink, as both callers do.
LinkSlot(s, t) ==
  /\ link' = [link EXCEPT ![s] = t]
  /\ RecordLink(s, t)

\* Mutant: only the start of the allocation is compared with the pool's end.
PoolsFitStart(n) ==
  /\ tb_used < TBPoolSize
  /\ code_used <= CodePoolSize

\* MemArena::Allocate asserts when a pool is full.
PoolsFit(n) ==
  /\ tb_used < TBPoolSize
  /\ code_used + n <= CodePoolSize

\* EmitCode and AnnounceRegion: code, then a block, then Insert.
AnnounceRegion(a, insns) ==
  /\ code_used' = code_used + Len(insns)
  /\ tb_used' = tb_used + 1
  /\ tbs' = [tbs EXCEPT ![tb_used + 1] = [ip |-> a, insns |-> insns]]
  /\ Insert(tb_used + 1, a)
=============================================================================
