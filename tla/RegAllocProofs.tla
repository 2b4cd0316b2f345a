--------------------------- MODULE RegAllocProofs ---------------------------
(***************************************************************************)
(* Correctness of the register allocator for every instruction list, every *)
(* register file and every size of the spill frame: the tables mirror the  *)
(* machine, every operand is read from a register that holds its value,    *)
(* CPUState is current wherever the code can leave, spill slots never      *)
(* overlap and the pass gives up only when the frame is full.              *)
(***************************************************************************)
EXTENDS RegAlloc, TLAPS

-----------------------------------------------------------------------------
(* The inductive invariant *)

\* The sources still to be allocated.
Pending == {todo[j] : j \in 1 .. Len(todo)}

\* What is known of ins in each phase of its visit.
PhaseInv ==
  /\ phase = "spill" => ins.op = "hcall"
  /\ phase = "sync" => ins.op \in SideeffOps
  /\ phase \in {"src", "sync", "dst"} => ins.op \notin {"hcall", "br", "gbr"}
  /\ phase = "release" => ins.op \in {"hcall"} \cup BlockEndOps \cup RegionEndOps
  /\ phase \in {"sync", "dst"} => todo = <<>>
  /\ phase \in {"release", "emit"} /\ ins.op \notin {"hcall", "br", "gbr"} => todo = <<>>
  /\ phase = "src" => todo \in IF ins.op = "shift" THEN {<<2, 1>>, <<1>>, <<>>}
                               ELSE {<<1, 2>>, <<2>>, <<>>}

\* The sources of ins have a value.
LifeInv ==
  phase \notin {"next", "panic"} =>
    \A k \in 1 .. 2 : Src(ins, k) \in Locals => life[Src(ins, k)] = "live"

\* avoid is what is fixed and what holds a source.
AvoidInv ==
  /\ Fixed \subseteq avoid
  /\ phase = "next" => avoid = Fixed
  /\ phase \in {"next", "src", "sync", "dst"} =>
       avoid \subseteq Fixed \cup {opr[k] : k \in {1, 2} \ Pending}

\* A source that has been allocated is in its register, which nothing else
\* of this instruction takes; a two-address instruction writes that of its
\* first source.
SourceInv ==
  phase \in {"src", "sync", "dst", "release", "emit"} /\ ins.op \notin {"hcall", "br", "gbr"} =>
    /\ \A k \in {1, 2} \ Pending : Src(ins, k) \in VRegs =>
         /\ opr[k] \in SrcCt(ins.op, k)
         /\ opr[k] \in avoid
         /\ reg[opr[k]] = Src(ins, k)
    /\ ins.op \in AliasOps /\ 1 \notin Pending =>
         loc[ins.dst] = "REG" /\ p[ins.dst] = opr[1]

\* The destination has its register, which is not yet spilled.
DstInv ==
  phase = "emit" /\ ins.op \in DstOps =>
    /\ loc[ins.dst] = "REG"
    /\ p[ins.dst] = opr[0]
    /\ ~spill_synced[ins.dst]

\* What was synced or spilled for this instruction stays so.
BoundaryInv ==
  /\ phase \in {"dst", "emit"} /\ ins.op \in SideeffOps => Globals \subseteq home
  /\ phase = "emit" /\ ins.op \in {"hcall"} \cup BlockEndOps \cup RegionEndOps =>
       \A g \in Globals : loc[g] = "MEM"
  /\ phase \in {"release", "emit"} /\ ins.op = "hcall" => Clobbered = {}

\* Slots lie below frame_cur and apart.
SlotInv ==
  /\ \A v \in Locals : spill_offs[v] # NO_SPILL => spill_offs[v] + VSize[v] <= frame_cur
  /\ \A u, v \in Locals : u # v => ~Overlap(spill_offs, u, v)

\* A needed local that memory holds has a slot.
SlotsTaken ==
  \A v \in Needed \cap Locals :
    loc[v] = "MEM" \/ (loc[v] = "REG" /\ spill_synced[v]) => spill_offs[v] # NO_SPILL

Inv ==
  /\ TablesTyped
  /\ TrackingSound
  /\ PhaseInv /\ LifeInv /\ AvoidInv /\ SourceInv /\ DstInv
  /\ BoundaryInv /\ SlotInv /\ SlotsTaken
  /\ PanicMeansFrameFull

\* The register AllocPReg has spilled is free and is what the call, which is
\* still to return, was asked for.
SpilledInv ==
  spilled # NoPReg => spilled \in FreeRegs /\ (SrcNeedsReg \/ DstNeedsReg)

-----------------------------------------------------------------------------
(* Facts about the operators *)

\* The operands the constraint tables allow.
LEMMA InstrFacts ==
  ASSUME NEW i \in Instr
  PROVE  /\ i.s1 \in VRegs \cup {Imm, NoReg} /\ i.s2 \in VRegs \cup {Imm, NoReg}
         /\ i.op \in DstOps => i.dst \in VRegs
         /\ i.op \notin DstOps => i.dst = NoReg
         /\ i.op \in AliasOps => i.s1 = i.dst
         /\ i.op = "gbrind" => i.s2 = NoReg
         /\ i.op \in {"hcall", "br", "gbr"} => i.s1 = NoReg /\ i.s2 = NoReg
         /\ i.op \in DstOps \cup {"vmstore", "hcall"} \cup BlockEndOps \cup RegionEndOps
  BY DEF Instr, DstOps, AliasOps, VOrImm, None, BlockEndOps, RegionEndOps

\* NoInstr is an instruction without operands.
LEMMA NoInstrType == NoInstr \in Instr
  BY DEF NoInstr, Instr, None

\* Virtual registers are neither the null pointer nor a constant.
LEMMA Names == NoReg \notin VRegs /\ Imm \notin VRegs /\ Junk \notin VRegs
  BY NamesAssumption

\* Pending is the set of the elements of todo.
LEMMA TodoFacts ==
  ASSUME TablesTyped
  PROVE  /\ Pending \subseteq {1, 2}
         /\ todo = <<>> => Pending = {}
         /\ todo # <<>> => Head(todo) \in Pending
  <1>1. CASE todo = <<>>
    BY <1>1 DEF Pending
  <1>2. CASE todo = <<1>>
    BY <1>2 DEF Pending
  <1>3. CASE todo = <<2>>
    BY <1>3 DEF Pending
  <1>4. CASE todo = <<1, 2>>
    BY <1>4 DEF Pending
  <1>5. CASE todo = <<2, 1>>
    BY <1>5 DEF Pending
  <1> QED
    BY <1>1, <1>2, <1>3, <1>4, <1>5 DEF TablesTyped

\* A list of sources loses its head.
LEMMA TodoTail ==
  ASSUME TablesTyped, todo # <<>>, todo' = Tail(todo)
  PROVE  /\ Head(todo) \in {1, 2}
         /\ Pending = {Head(todo)} \cup Pending'
         /\ Head(todo) \notin Pending'
         /\ todo' \in {<<>>, <<1>>, <<2>>}
         /\ todo \in {<<2, 1>>, <<1>>} => todo' \in {<<1>>, <<>>}
         /\ todo \in {<<1, 2>>, <<2>>} => todo' \in {<<2>>, <<>>}
  <1>1. CASE todo = <<1>>
    <2>1. todo' = <<>>
      BY <1>1
    <2> QED
      BY <1>1, <2>1 DEF Pending
  <1>2. CASE todo = <<2>>
    <2>1. todo' = <<>>
      BY <1>2
    <2> QED
      BY <1>2, <2>1 DEF Pending
  <1>3. CASE todo = <<1, 2>>
    <2>1. todo' = <<2>>
      BY <1>3
    <2> QED
      BY <1>3, <2>1 DEF Pending
  <1>4. CASE todo = <<2, 1>>
    <2>1. todo' = <<1>>
      BY <1>4
    <2> QED
      BY <1>4, <2>1 DEF Pending
  <1> QED
    BY <1>1, <1>2, <1>3, <1>4 DEF TablesTyped

\* Outside the last phase everything live is needed.
LEMMA NeededLive ==
  /\ Needed \subseteq Live
  /\ phase # "emit" => Needed = Live
  /\ Live \subseteq VRegs /\ Globals \subseteq Live
  BY DEF Needed, Live, VRegs

\* Rounding an offset up to a multiple does not lower it.
LEMMA RoundUpBounds ==
  ASSUME NEW a \in Nat, NEW b \in Nat \ {0}
  PROVE  RoundUp(a, b) \in Nat /\ RoundUp(a, b) >= a
  <1> DEFINE q == (a + b - 1) \div b
             r == (a + b - 1) % b
  <1>1. b \in Int /\ b > 0 /\ a + b - 1 \in Int
    OBVIOUS
  <1>2. q \in Int /\ r \in 0 .. b - 1
    BY <1>1, SMT
  <1>3. a + b - 1 = b * q + r
    BY <1>1, SMT
  <1>4. RoundUp(a, b) = q * b
    BY DEF RoundUp
  <1> HIDE DEF q, r
  <1>5. q * b = b * q /\ b * q \in Int
    BY <1>1, <1>2
  <1>6. b * q >= a
    BY <1>1, <1>2, <1>3, <1>5
  <1> QED
    BY <1>4, <1>5, <1>6

\* Writing the slots of S loses no value: every live register of S that was
\* not synced is current in memory afterwards and every other one still is.
LEMMA SpillKeeps ==
  ASSUME TablesTyped, ValuesWhereTracked, phase # "emit",
         NEW S \in SUBSET VRegs, NEW offs,
         \A u, v \in Locals : u # v => ~Overlap(offs, u, v)
  PROVE  /\ HomeAfterSpill(S, offs) \subseteq VRegs
         /\ \A v \in Live : v \in home \/ v \in Dirty(S) => v \in HomeAfterSpill(S, offs)
  <1>1. HomeAfterSpill(S, offs) \subseteq VRegs
    BY DEF HomeAfterSpill, Dirty, TablesTyped
  <1>2. ASSUME NEW v \in Live, v \in Dirty(S)
        PROVE  v \in HomeAfterSpill(S, offs)
    <2>1. loc[v] = "REG"
      BY <1>2 DEF Dirty
    <2>2. reg[p[v]] = v
      BY <2>1, NeededLive DEF ValuesWhereTracked
    <2> QED
      BY <1>2, <2>2 DEF HomeAfterSpill
  <1>3. ASSUME NEW v \in Live, v \in home, v \notin Dirty(S)
        PROVE  v \in HomeAfterSpill(S, offs)
    BY <1>3 DEF HomeAfterSpill
  <1> QED
    BY <1>1, <1>2, <1>3

\* SyncSpill only marks registers that are written.
LEMMA SyncSpillFacts ==
  ASSUME TablesTyped, NEW S \in SUBSET VRegs, SyncSpill(S)
  PROVE  /\ spill_synced' \in [VRegs -> BOOLEAN]
         /\ \A v \in VRegs : spill_synced'[v] <=> (spill_synced[v] \/ v \in Dirty(S))
  <1>1. \A v \in VRegs : (spill_synced[v] \/ v \in Dirty(S)) \in BOOLEAN
    BY DEF TablesTyped
  <1> QED
    BY <1>1 DEF SyncSpill

\* Release keeps the tables each other's mirror image.
LEMMA ReleaseFacts ==
  ASSUME TablesTyped, TrackingMatches, FixedUntouched, NEW S \in SUBSET VRegs, Release(S), p' = p
  PROVE  /\ loc' \in [VRegs -> {"DEAD", "MEM", "REG"}]
         /\ p2v' \in [PRegs -> VRegs \cup {NoReg}]
         /\ TrackingMatches' /\ FixedUntouched'
         /\ \A v \in VRegs : loc'[v] = IF v \in S THEN "MEM" ELSE loc[v]
         /\ \A q \in PRegs : p2v'[q] \in {p2v[q], NoReg}
  <1>1. /\ loc' \in [VRegs -> {"DEAD", "MEM", "REG"}]
        /\ \A v \in VRegs : loc'[v] = IF v \in S THEN "MEM" ELSE loc[v]
    BY DEF TablesTyped, Release
  <1>2. /\ p2v' \in [PRegs -> VRegs \cup {NoReg}]
        /\ \A q \in PRegs : p2v'[q] = IF \E v \in S : loc[v] = "REG" /\ p[v] = q
                                      THEN NoReg ELSE p2v[q]
    BY DEF TablesTyped, Release
  <1>3. FixedUntouched'
    BY <1>2, RegAllocAssumption DEF FixedUntouched
  <1>4. ASSUME NEW v \in VRegs, NEW q \in PRegs
        PROVE  (p2v'[q] = v) <=> (loc'[v] = "REG" /\ p'[v] = q)
    <2>1. CASE v \in S
      <3>1. loc'[v] = "MEM"
        BY <1>1, <2>1
      <3>2. p2v'[q] # v
        <4>1. CASE p2v[q] = v
          BY <4>1, <2>1, <1>2, Names DEF TrackingMatches
        <4>2. CASE p2v[q] # v
          BY <4>2, <1>2, Names
        <4> QED
          BY <4>1, <4>2
      <3> QED
        BY <3>1, <3>2
    <2>2. CASE v \notin S
      <3>1. loc'[v] = loc[v]
        BY <1>1, <2>2
      <3>2. CASE p2v[q] = v
        <4>1. ~\E u \in S : loc[u] = "REG" /\ p[u] = q
          BY <3>2, <2>2 DEF TrackingMatches
        <4> QED
          BY <3>1, <3>2, <4>1, <1>2 DEF TrackingMatches
      <3>3. CASE p2v[q] # v
        BY <3>1, <3>3, <1>2, Names DEF TrackingMatches
      <3> QED
        BY <3>2, <3>3
    <2> QED
      BY <2>1, <2>2
  <1>5. \A q \in PRegs : p2v'[q] \in {p2v[q], NoReg}
    BY <1>2
  <1> QED
    BY <1>1, <1>2, <1>3, <1>4, <1>5 DEF TrackingMatches

\* Giving a local the next slot keeps slots inside the frame and apart.
LEMMA NewSlot ==
  ASSUME TablesTyped, SlotInv, NEW v \in Locals, ~FrameFull(v), AllocFrameSlot(v)
  PROVE  /\ spill_offs' \in [Locals -> Nat \cup {NO_SPILL}]
         /\ spill_offs'[v] # NO_SPILL
         /\ \A u \in Locals : u # v => spill_offs'[u] = spill_offs[u]
         /\ frame_cur' \in 0 .. FrameSize
         /\ SlotInv'
  <1> DEFINE o == SlotOffs(v)
  <1>1. frame_cur \in Nat /\ FrameSize \in Nat /\ VSize[v] \in Nat \ {0} /\ VSize \in [Locals -> Nat \ {0}]
    BY RegAllocAssumption DEF TablesTyped
  <1>2. o \in Nat /\ o >= frame_cur
    BY <1>1, RoundUpBounds DEF SlotOffs
  <1>3. spill_offs' = [spill_offs EXCEPT ![v] = o] /\ frame_cur' = o + VSize[v]
    BY DEF AllocFrameSlot
  <1>4. o + VSize[v] <= FrameSize
    BY <1>1, <1>2 DEF FrameFull
  <1> HIDE DEF o
  <1>5. spill_offs \in [Locals -> Nat \cup {NO_SPILL}]
    BY DEF TablesTyped
  <1>6. /\ spill_offs' \in [Locals -> Nat \cup {NO_SPILL}]
        /\ spill_offs'[v] = o
        /\ \A u \in Locals : u # v => spill_offs'[u] = spill_offs[u]
    BY <1>2, <1>3, <1>5
  <1>7. frame_cur' \in 0 .. FrameSize
    BY <1>1, <1>2, <1>3, <1>4
  <1>8. ASSUME NEW u \in Locals, spill_offs'[u] # NO_SPILL
        PROVE  spill_offs'[u] + VSize[u] <= frame_cur'
    <2>1. CASE u = v
      BY <2>1, <1>1, <1>2, <1>3, <1>6
    <2>2. CASE u # v
      <3>1. spill_offs[u] + VSize[u] <= frame_cur
        BY <2>2, <1>6, <1>8 DEF SlotInv
      <3>2. spill_offs[u] \in Nat /\ VSize[u] \in Nat
        BY <2>2, <1>1, <1>5, <1>6, <1>8
      <3> QED
        BY <2>2, <3>1, <3>2, <1>1, <1>2, <1>3, <1>6
    <2> QED
      BY <2>1, <2>2
  <1>9. ASSUME NEW u \in Locals, u # v
        PROVE  ~Overlap(spill_offs', u, v) /\ ~Overlap(spill_offs', v, u)
    <2>1. CASE spill_offs[u] = NO_SPILL
      BY <2>1, <1>9, <1>6 DEF Overlap
    <2>2. CASE spill_offs[u] # NO_SPILL
      <3>1. spill_offs[u] + VSize[u] <= frame_cur
        BY <2>2 DEF SlotInv
      <3>2. spill_offs[u] \in Nat /\ VSize[u] \in Nat
        BY <2>2, <1>1, <1>5
      <3>3. ~(spill_offs'[v] < spill_offs'[u] + VSize[u])
        BY <3>1, <3>2, <1>1, <1>2, <1>6, <1>9
      <3> QED
        BY <3>3 DEF Overlap
    <2> QED
      BY <2>1, <2>2
  <1>10. ASSUME NEW u \in Locals, NEW w \in Locals, u # w
         PROVE  ~Overlap(spill_offs', u, w)
    <2>1. CASE u # v /\ w # v
      BY <2>1, <1>6, <1>10 DEF Overlap, SlotInv
    <2> QED
      BY <2>1, <1>9, <1>10
  <1>11. NO_SPILL # o
    BY <1>2 DEF NO_SPILL
  <1> QED
    BY <1>6, <1>7, <1>8, <1>10, <1>11 DEF SlotInv

-----------------------------------------------------------------------------
(* What the parts of a step preserve *)

\* Tables and machine together, as each step must keep them.
CoreInv == TablesTyped /\ TrackingSound /\ SlotInv /\ SlotsTaken

\* Spill(q): the register is free afterwards, its value is in memory and all
\* others are where they were.
LEMMA SpillRegStep ==
  ASSUME CoreInv, phase # "emit", NEW q \in PRegs, p2v[q] # NoReg,
         NeedsSlot(p2v[q]) => ~FrameFull(p2v[q]),
         SpillReg(q), UNCHANGED insvars
  PROVE  /\ CoreInv'
         /\ \A v \in VRegs : p[v] # q => loc'[v] = loc[v]
         /\ \A r \in PRegs : p2v'[r] \in {p2v[r], NoReg}
         /\ Globals \subseteq home => Globals \subseteq home'
  <1> DEFINE w == p2v[q]
  <1> USE DEF CoreInv
  <1>1. TablesTyped /\ TrackingMatches /\ FixedUntouched /\ ValuesWhereTracked /\ SlotInv /\ SlotsTaken
    BY DEF TrackingSound
  <1>2. w \in VRegs
    BY <1>1 DEF TablesTyped
  <1>3. loc[w] = "REG" /\ p[w] = q
    BY <1>1, <1>2 DEF TrackingMatches
  <1>4. /\ SyncSpill({w}) /\ Release({w})
        /\ NeedsSlot(w) => AllocFrameSlot(w)
        /\ ~NeedsSlot(w) => UNCHANGED <<spill_offs, frame_cur>>
        /\ home' = HomeAfterSpill({w}, spill_offs')
        /\ UNCHANGED <<p, reg, life>>
    BY DEF SpillReg
  <1>5. {w} \in SUBSET VRegs
    BY <1>2
  <1> HIDE DEF w
  <1>6. /\ spill_synced' \in [VRegs -> BOOLEAN]
        /\ \A v \in VRegs : spill_synced'[v] <=> (spill_synced[v] \/ v \in Dirty({w}))
    BY <1>1, <1>4, <1>5, SyncSpillFacts
  <1>7. /\ loc' \in [VRegs -> {"DEAD", "MEM", "REG"}]
        /\ p2v' \in [PRegs -> VRegs \cup {NoReg}]
        /\ TrackingMatches' /\ FixedUntouched'
        /\ \A v \in VRegs : loc'[v] = IF v \in {w} THEN "MEM" ELSE loc[v]
        /\ \A r \in PRegs : p2v'[r] \in {p2v[r], NoReg}
    BY <1>1, <1>4, <1>5, ReleaseFacts
  <1>8. /\ spill_offs' \in [Locals -> Nat \cup {NO_SPILL}]
        /\ frame_cur' \in 0 .. FrameSize
        /\ SlotInv'
        /\ \A u \in Locals : u # w => spill_offs'[u] = spill_offs[u]
        /\ NeedsSlot(w) => w \in Locals /\ spill_offs'[w] # NO_SPILL
        /\ ~NeedsSlot(w) => spill_offs' = spill_offs
    <2>1. CASE NeedsSlot(w)
      <3>1. w \in Locals /\ ~FrameFull(w) /\ AllocFrameSlot(w)
        BY <2>1, <1>4 DEF NeedsSlot, w
      <3> QED
        BY <2>1, <3>1, <1>1, NewSlot
    <2>2. CASE ~NeedsSlot(w)
      <3>1. spill_offs' = spill_offs /\ frame_cur' = frame_cur
        BY <2>2, <1>4
      <3>2. spill_offs \in [Locals -> Nat \cup {NO_SPILL}] /\ frame_cur \in 0 .. FrameSize
        BY <1>1 DEF TablesTyped
      <3> QED
        BY <2>2, <3>1, <3>2, <1>1 DEF SlotInv, Overlap
    <2> QED
      BY <2>1, <2>2
  <1>9. \A u, v \in Locals : u # v => ~Overlap(spill_offs', u, v)
    BY <1>8 DEF SlotInv
  <1>10. /\ home' \subseteq VRegs
         /\ \A v \in Live : v \in home \/ v \in Dirty({w}) => v \in home'
    BY <1>1, <1>4, <1>5, <1>9, SpillKeeps
  <1>11. TablesTyped'
    BY <1>1, <1>4, <1>6, <1>7, <1>8, <1>10 DEF TablesTyped, insvars
  <1>12. Needed' = Live /\ Needed = Live /\ Live \subseteq VRegs
    BY <1>4, NeededLive DEF insvars, Needed, Live
  <1>13. w \in Live => w \in home'
    <2> SUFFICES ASSUME w \in Live PROVE w \in home'
      OBVIOUS
    <2>1. CASE spill_synced[w]
      BY <2>1, <1>1, <1>3, <1>10, <1>12 DEF ValuesWhereTracked
    <2>2. CASE ~spill_synced[w]
      BY <2>2, <1>3, <1>10 DEF Dirty
    <2> QED
      BY <2>1, <2>2
  <1>14. ASSUME NEW v \in Needed'
         PROVE  /\ loc'[v] # "DEAD"
                /\ loc'[v] = "REG" => reg'[p'[v]] = v
                /\ loc'[v] = "REG" /\ spill_synced'[v] => v \in home'
                /\ loc'[v] = "MEM" => v \in home'
    <2>1. v \in Live /\ v \in VRegs /\ v \in Needed
      BY <1>12
    <2>2. CASE v = w
      BY <2>1, <2>2, <1>7, <1>13
    <2>3. CASE v # w
      <3>1. loc'[v] = loc[v] /\ (spill_synced'[v] <=> spill_synced[v])
        BY <2>1, <2>3, <1>6, <1>7 DEF Dirty
      <3> QED
        BY <2>1, <3>1, <1>1, <1>4, <1>10 DEF ValuesWhereTracked
    <2> QED
      BY <2>2, <2>3
  <1>15. SlotsTaken'
    <2> SUFFICES ASSUME NEW v \in Live, v \in Locals,
                        loc'[v] = "MEM" \/ (loc'[v] = "REG" /\ spill_synced'[v])
                 PROVE  spill_offs'[v] # NO_SPILL
      BY <1>12 DEF SlotsTaken
    <2>1. v \in VRegs
      BY <1>12
    <2>2. CASE v = w
      <3>1. CASE NeedsSlot(w)
        BY <2>2, <3>1, <1>8
      <3>2. CASE ~NeedsSlot(w) /\ spill_synced[w]
        BY <2>2, <3>2, <1>1, <1>3, <1>8, <1>12 DEF SlotsTaken
      <3>3. CASE ~NeedsSlot(w) /\ ~spill_synced[w]
        BY <2>2, <3>3, <1>3, <1>8 DEF NeedsSlot
      <3> QED
        BY <3>1, <3>2, <3>3
    <2>3. CASE v # w
      <3>1. loc'[v] = loc[v] /\ (spill_synced'[v] <=> spill_synced[v])
        BY <2>1, <2>3, <1>6, <1>7 DEF Dirty
      <3> QED
        BY <2>3, <3>1, <1>1, <1>8, <1>12 DEF SlotsTaken
    <2> QED
      BY <2>2, <2>3
  <1>16. \A v \in VRegs : p[v] # q => loc'[v] = loc[v]
    BY <1>3, <1>7
  <1>17. Globals \subseteq home => Globals \subseteq home'
    BY <1>10, NeededLive
  <1> QED
    BY <1>7, <1>8, <1>11, <1>14, <1>15, <1>16, <1>17 DEF TrackingSound, ValuesWhereTracked

\* A step that leaves tables and machine alone and does not start to execute
\* the instruction.
LEMMA CoreFrame ==
  ASSUME CoreInv, UNCHANGED <<ravars, machine>>, TablesTyped', phase # "emit"
  PROVE  CoreInv'
  <1> USE DEF CoreInv
  <1>1. /\ UNCHANGED <<loc, p, spill_synced, spill_offs, p2v, frame_cur>>
        /\ UNCHANGED <<reg, home, life>>
    BY DEF ravars, machine
  <1>2. Needed' \subseteq Needed
    BY <1>1 DEF Needed, Live
  <1>3. TrackingMatches' /\ FixedUntouched'
    BY <1>1 DEF TrackingSound, TrackingMatches, FixedUntouched
  <1>4. ValuesWhereTracked'
    BY <1>1, <1>2 DEF TrackingSound, ValuesWhereTracked
  <1>5. SlotInv'
    BY <1>1 DEF SlotInv, Overlap
  <1>6. SlotsTaken'
    BY <1>1, <1>2 DEF SlotsTaken
  <1> QED
    BY <1>3, <1>4, <1>5, <1>6 DEF TrackingSound

\* The state of the visitor, as each step must keep it.
PassInv ==
  PhaseInv /\ LifeInv /\ AvoidInv /\ SourceInv /\ DstInv /\ BoundaryInv /\ PanicMeansFrameFull

\* A source about to be allocated has a value.
LEMMA CurSrcLive ==
  ASSUME Inv, phase = "src", todo # <<>>, CurSrc \in VRegs
  PROVE  /\ CurSrc \in Live /\ CurSrc \in Needed
         /\ Head(todo) \in {1, 2}
         /\ CurSrc = Src(ins, Head(todo))
         /\ ins.op \in AliasOps /\ Head(todo) = 1 => CurSrc = ins.dst
  <1>1. Head(todo) \in {1, 2}
    <2>1. TablesTyped
      BY DEF Inv
    <2> QED
      BY <2>1, TodoFacts
  <1>2. CurSrc = Src(ins, Head(todo))
    BY DEF CurSrc
  <1>3. CurSrc \in Locals => life[CurSrc] = "live"
    BY <1>1, <1>2 DEF Inv, LifeInv
  <1>4. ins \in Instr
    BY DEF Inv, TablesTyped
  <1>5. CurSrc \in Live
    BY <1>3 DEF Live, VRegs
  <1>6. ins.op \in AliasOps /\ Head(todo) = 1 => CurSrc = ins.dst
    BY <1>2, <1>4, InstrFacts DEF Src
  <1> QED
    BY <1>1, <1>2, <1>5, <1>6, NeededLive

\* A source has got the register q: what the visitor knows of the sources
\* before it stays true.
LEMMA SrcDoneStep ==
  ASSUME Inv, phase = "src", todo # <<>>, CurSrc \in VRegs,
         NEW q \in PRegs, SrcDone(q), q \in CurCt,
         reg'[q] = CurSrc, life' = life,
         \A r \in avoid : reg'[r] = reg[r],
         \A v \in VRegs : loc[v] = "REG" => loc'[v] = "REG" /\ p'[v] = p[v],
         ins.op \in AliasOps /\ Head(todo) = 1 => loc'[ins.dst] = "REG" /\ p'[ins.dst] = q
  PROVE  /\ PassInv'
         /\ ins' \in Instr
         /\ todo' \in {<<>>, <<1>>, <<2>>, <<1, 2>>, <<2, 1>>}
         /\ avoid' \in SUBSET PRegs
         /\ opr' \in [0 .. 2 -> PRegs \cup {NoPReg}]
         /\ phase' = "src"
         /\ ins' = ins
  <1> DEFINE h == Head(todo)
  <1>1. /\ avoid' = avoid \cup {q}
        /\ opr' = [opr EXCEPT ![h] = q]
        /\ todo' = Tail(todo)
        /\ ins' = ins /\ phase' = "src"
    BY DEF SrcDone
  <1>2. TablesTyped /\ PhaseInv /\ LifeInv /\ AvoidInv /\ SourceInv
    BY DEF Inv
  <1>3. /\ h \in {1, 2} /\ h \in Pending
        /\ Pending \subseteq {1, 2}
        /\ Pending = {h} \cup Pending' /\ h \notin Pending'
        /\ todo' \in {<<>>, <<1>>, <<2>>}
    BY <1>1, <1>2, TodoFacts, TodoTail
  <1>4. CurSrc = Src(ins, h) /\ CurCt = SrcCt(ins.op, h)
    BY DEF CurSrc, CurCt
  <1> HIDE DEF h
  <1>5. /\ opr' \in [0 .. 2 -> PRegs \cup {NoPReg}]
        /\ opr'[h] = q
        /\ \A k \in {1, 2} : k # h => opr'[k] = opr[k]
    BY <1>1, <1>2, <1>3 DEF TablesTyped
  <1>6. PhaseInv'
    <2>1. todo' \in IF ins.op = "shift" THEN {<<2, 1>>, <<1>>, <<>>}
                    ELSE {<<1, 2>>, <<2>>, <<>>}
      BY <1>1, <1>2, TodoTail DEF PhaseInv
    <2> QED
      BY <2>1, <1>1, <1>2 DEF PhaseInv
  <1>7. LifeInv'
    BY <1>1, <1>2 DEF LifeInv, Src
  <1>8. AvoidInv'
    BY <1>1, <1>2, <1>3, <1>5 DEF AvoidInv
  <1>9. SourceInv'
    <2>1. ins.op \notin {"hcall", "br", "gbr"}
      BY <1>2 DEF PhaseInv
    <2>2. ASSUME NEW k \in {1, 2} \ Pending', Src(ins, k) \in VRegs
          PROVE  /\ opr'[k] \in SrcCt(ins.op, k)
                 /\ opr'[k] \in avoid'
                 /\ reg'[opr'[k]] = Src(ins, k)
      <3>1. CASE k = h
        BY <3>1, <1>1, <1>4, <1>5
      <3>2. CASE k # h
        <4>1. k \in {1, 2} \ Pending
          BY <3>2, <1>3
        <4>2. /\ opr[k] \in SrcCt(ins.op, k)
              /\ opr[k] \in avoid
              /\ reg[opr[k]] = Src(ins, k)
          BY <2>1, <2>2, <4>1, <1>2 DEF SourceInv
        <4> QED
          BY <3>2, <4>2, <1>1, <1>5
      <3> QED
        BY <3>1, <3>2
    <2>3. ASSUME ins.op \in AliasOps, 1 \notin Pending'
          PROVE  loc'[ins.dst] = "REG" /\ p'[ins.dst] = opr'[1]
      <3>1. CASE h = 1
        BY <3>1, <2>3, <1>5 DEF h
      <3>2. CASE h # 1
        <4>1. loc[ins.dst] = "REG" /\ p[ins.dst] = opr[1]
          BY <3>2, <2>1, <2>3, <1>2, <1>3 DEF SourceInv
        <4>2. ins.dst \in VRegs
          BY <2>3, <1>2, InstrFacts DEF TablesTyped, AliasOps, DstOps
        <4> QED
          BY <3>2, <4>1, <4>2, <1>5
      <3> QED
        BY <3>1, <3>2
    <2> QED
      BY <2>2, <2>3, <1>1 DEF SourceInv, Src
  <1>10. DstInv' /\ BoundaryInv' /\ PanicMeansFrameFull'
    BY <1>1 DEF DstInv, BoundaryInv, PanicMeansFrameFull
  <1> QED
    BY <1>1, <1>2, <1>3, <1>5, <1>6, <1>7, <1>8, <1>9, <1>10 DEF PassInv, TablesTyped

-----------------------------------------------------------------------------
(* One lemma per action *)

\* What Inv is made of.
LEMMA InvParts ==
  /\ Inv <=> CoreInv /\ PassInv
  /\ Inv' <=> CoreInv' /\ PassInv'
  BY DEF Inv, CoreInv, PassInv

LEMMA InitInv ==
  Init => Inv
  <1> SUFFICES ASSUME Init PROVE Inv
    OBVIOUS
  <1> USE DEF Init
  <1>1. TablesTyped
    <2>1. 0 \in PRegs /\ Fixed \subseteq PRegs /\ FrameSize \in Nat
      BY RegAllocAssumption
    <2>2. Globals \subseteq VRegs
      BY DEF VRegs
    <2>3. todo \in {<<>>, <<1>>, <<2>>, <<1, 2>>, <<2, 1>>}
      OBVIOUS
    <2> QED
      BY <2>1, <2>2, <2>3, NoInstrType DEF TablesTyped, Phases
  <1>2. TrackingSound
    <2>1. Needed = Globals /\ Globals \subseteq VRegs
      BY DEF Needed, Live, VRegs
    <2>2. TrackingMatches
      BY Names DEF TrackingMatches
    <2>3. FixedUntouched
      BY RegAllocAssumption DEF FixedUntouched
    <2>4. ValuesWhereTracked
      BY <2>1 DEF ValuesWhereTracked
    <2> QED
      BY <2>2, <2>3, <2>4 DEF TrackingSound
  <1>3. PhaseInv /\ LifeInv /\ AvoidInv /\ SourceInv /\ DstInv /\ BoundaryInv /\ PanicMeansFrameFull
    BY DEF PhaseInv, LifeInv, AvoidInv, SourceInv, DstInv, BoundaryInv, PanicMeansFrameFull
  <1>4. SlotInv
    BY DEF SlotInv, Overlap
  <1>5. SlotsTaken
    BY RegAllocAssumption DEF SlotsTaken, Needed, Live
  <1> QED
    BY <1>1, <1>2, <1>3, <1>4, <1>5 DEF Inv

LEMMA BeginStep ==
  ASSUME Inv, NEW i \in Instr, Begin(i)
  PROVE  Inv'
  <1> USE DEF Begin
  <1>1. TablesTyped /\ CoreInv /\ AvoidInv
    BY InvParts DEF Inv
  <1>2. todo' = IF i.op = "shift" THEN <<2, 1>> ELSE <<1, 2>>
    BY DEF RaOrder
  <1>3. Pending' = {1, 2}
    <2>1. CASE todo' = <<2, 1>>
      BY <2>1 DEF Pending
    <2>2. CASE todo' = <<1, 2>>
      BY <2>2 DEF Pending
    <2> QED
      BY <1>2, <2>1, <2>2
  <1>4. /\ i.op = "hcall" => phase' = "spill"
        /\ i.op \in {"br", "gbr"} => phase' = "release"
        /\ i.op \notin {"hcall", "br", "gbr"} => phase' = "src"
    OBVIOUS
  <1>5. TablesTyped'
    <2>1. /\ UNCHANGED <<loc, p, spill_synced, spill_offs, p2v, frame_cur>>
          /\ UNCHANGED <<reg, home, life, avoid, opr>>
      BY DEF ravars, machine
    <2>2. todo' \in {<<>>, <<1>>, <<2>>, <<1, 2>>, <<2, 1>>}
      BY <1>2
    <2>3. phase' \in Phases
      BY <1>4 DEF Phases
    <2> QED
      BY <1>1, <2>1, <2>2, <2>3 DEF TablesTyped
  <1>6. CoreInv'
    BY <1>1, <1>5, CoreFrame
  <1>7. PhaseInv'
    BY <1>2, <1>4 DEF PhaseInv, BlockEndOps, RegionEndOps
  <1>8. LifeInv'
    BY DEF LifeInv, machine, Src
  <1>9. AvoidInv'
    BY <1>1, <1>3, <1>4 DEF AvoidInv
  <1>10. SourceInv'
    BY <1>3, <1>4 DEF SourceInv
  <1>11. DstInv' /\ BoundaryInv' /\ PanicMeansFrameFull'
    BY <1>4 DEF DstInv, BoundaryInv, PanicMeansFrameFull
  <1> QED
    BY <1>6, <1>7, <1>8, <1>9, <1>10, <1>11, InvParts DEF PassInv

\* Whoever spills a register for AllocPReg or CallOp spares the sources that
\* already have theirs.
LEMMA SpillStep ==
  ASSUME Inv, NEW q \in PRegs, p2v[q] # NoReg,
         NeedsSlot(p2v[q]) => ~FrameFull(p2v[q]),
         SpillReg(q), UNCHANGED insvars,
         phase \in {"src", "dst", "spill"}, phase # "spill" => q \notin avoid
  PROVE  Inv'
  <1>1. CoreInv /\ PassInv /\ TablesTyped
    BY InvParts DEF CoreInv
  <1>2. /\ CoreInv'
        /\ \A v \in VRegs : p[v] # q => loc'[v] = loc[v]
        /\ Globals \subseteq home => Globals \subseteq home'
    BY <1>1, SpillRegStep
  <1>3. UNCHANGED <<ins, todo, avoid, opr, phase, reg, p, life>>
    BY DEF SpillReg, insvars
  <1>4. PhaseInv' /\ LifeInv' /\ AvoidInv'
    BY <1>1, <1>3 DEF PassInv, PhaseInv, LifeInv, AvoidInv, Pending, Src
  <1>5. SourceInv'
    <2> SUFFICES ASSUME phase \in {"src", "dst"}, ins.op \notin {"hcall", "br", "gbr"}
                 PROVE  SourceInv'
      BY <1>1, <1>3 DEF SourceInv
    <2>1. Pending' = Pending
      BY <1>3 DEF Pending
    <2>2. ASSUME ins.op \in AliasOps, 1 \notin Pending
          PROVE  loc'[ins.dst] = "REG"
      <3>1. loc[ins.dst] = "REG" /\ p[ins.dst] = opr[1]
        BY <2>2, <1>1 DEF PassInv, SourceInv
      <3>2. ins.dst \in VRegs /\ Src(ins, 1) \in VRegs
        BY <2>2, <1>1, InstrFacts DEF TablesTyped, AliasOps, DstOps, Src
      <3>3. opr[1] \in avoid
        BY <2>2, <3>2, <1>1 DEF PassInv, SourceInv
      <3> QED
        BY <3>1, <3>2, <3>3, <1>2
    <2> QED
      BY <2>1, <2>2, <1>1, <1>3 DEF PassInv, SourceInv, Src
  <1>6. DstInv' /\ BoundaryInv' /\ PanicMeansFrameFull'
    BY <1>1, <1>2, <1>3 DEF PassInv, DstInv, BoundaryInv, PanicMeansFrameFull
  <1> QED
    BY <1>2, <1>4, <1>5, <1>6, InvParts DEF PassInv

LEMMA AllocSpillStep ==
  ASSUME Inv, AllocSpill
  PROVE  Inv'
  <1>1. PICK q \in PRegs : /\ IsFirst(q, Target)
                           /\ NeedsSlot(p2v[q]) => ~FrameFull(p2v[q])
                           /\ SpillReg(q)
    BY DEF AllocSpill
  <1>2. q \in Target /\ q \notin avoid
    BY <1>1 DEF IsFirst, Target
  <1>3. p2v[q] # NoReg
    BY <1>2 DEF AllocSpill, FreeRegs
  <1>4. UNCHANGED insvars /\ phase \in {"src", "dst"}
    BY DEF AllocSpill, SrcNeedsReg, DstNeedsReg
  <1> QED
    BY <1>1, <1>2, <1>3, <1>4, SpillStep

LEMMA CallSpillStep ==
  ASSUME Inv, CallSpill
  PROVE  Inv'
  <1>1. PICK q \in PRegs : /\ IsFirst(q, Clobbered)
                           /\ NeedsSlot(p2v[q]) => ~FrameFull(p2v[q])
                           /\ SpillReg(q)
    BY DEF CallSpill
  <1>2. p2v[q] # NoReg
    BY <1>1 DEF IsFirst, Clobbered
  <1>3. UNCHANGED insvars /\ phase = "spill"
    BY DEF CallSpill
  <1> QED
    BY <1>1, <1>2, <1>3, SpillStep

LEMMA SrcNotRegStep ==
  ASSUME Inv, SrcNotReg
  PROVE  Inv'
  <1> USE DEF SrcNotReg
  <1>1. CoreInv /\ PassInv /\ TablesTyped
    BY InvParts DEF CoreInv
  <1>2. /\ Head(todo) \in {1, 2}
        /\ Pending = {Head(todo)} \cup Pending'
        /\ todo' \in {<<>>, <<1>>, <<2>>}
        /\ todo \in {<<2, 1>>, <<1>>} => todo' \in {<<1>>, <<>>}
        /\ todo \in {<<1, 2>>, <<2>>} => todo' \in {<<2>>, <<>>}
    BY <1>1, TodoTail
  <1>3. /\ UNCHANGED <<loc, p, spill_synced, spill_offs, p2v, frame_cur>>
        /\ UNCHANGED <<reg, home, life, avoid, opr, ins, phase>>
    BY DEF ravars, machine
  <1>4. TablesTyped'
    BY <1>1, <1>2, <1>3 DEF TablesTyped
  <1>5. CoreInv'
    BY <1>1, <1>4, CoreFrame
  <1>6. PhaseInv'
    BY <1>1, <1>2, <1>3 DEF PassInv, PhaseInv
  <1>7. LifeInv' /\ AvoidInv'
    BY <1>1, <1>2, <1>3 DEF PassInv, LifeInv, AvoidInv, Src
  <1>8. SourceInv'
    <2>1. \A k \in {1, 2} \ Pending' : k \notin Pending \/ (k = Head(todo) /\ Src(ins, k) \notin VRegs)
      BY <1>2 DEF CurSrc
    <2>2. ins.op \in AliasOps /\ Head(todo) = 1 => FALSE
      BY <1>1, InstrFacts DEF CurSrc, Src, TablesTyped, AliasOps, DstOps
    <2>3. ins.op \in AliasOps /\ 1 \notin Pending' => 1 \notin Pending
      BY <2>1, <2>2
    <2>4. \A k \in 1 .. 2 : Src(ins, k)' = Src(ins, k)
      BY <1>3 DEF Src
    <2> QED
      BY <2>1, <2>3, <1>1, <1>3 DEF PassInv, SourceInv, Src
  <1>9. DstInv' /\ BoundaryInv' /\ PanicMeansFrameFull'
    BY <1>3 DEF DstInv, BoundaryInv, PanicMeansFrameFull
  <1> QED
    BY <1>5, <1>6, <1>7, <1>8, <1>9, InvParts DEF PassInv

LEMMA SrcInRegStep ==
  ASSUME Inv, SrcInReg
  PROVE  Inv'
  <1> USE DEF SrcInReg
  <1>1. CoreInv /\ TablesTyped /\ ValuesWhereTracked
    BY InvParts DEF CoreInv, TrackingSound
  <1>2. /\ CurSrc \in Needed
        /\ ins.op \in AliasOps /\ Head(todo) = 1 => CurSrc = ins.dst
    BY CurSrcLive
  <1>3. p[CurSrc] \in PRegs
    BY <1>1 DEF TablesTyped
  <1>4. reg[p[CurSrc]] = CurSrc
    BY <1>1, <1>2 DEF ValuesWhereTracked
  <1>5. /\ UNCHANGED <<loc, p, spill_synced, spill_offs, p2v, frame_cur>>
        /\ UNCHANGED <<reg, home, life>>
    BY DEF ravars, machine
  <1>6. /\ PassInv'
        /\ ins' \in Instr
        /\ todo' \in {<<>>, <<1>>, <<2>>, <<1, 2>>, <<2, 1>>}
        /\ avoid' \in SUBSET PRegs
        /\ opr' \in [0 .. 2 -> PRegs \cup {NoPReg}]
        /\ phase' = "src"
    BY <1>2, <1>3, <1>4, <1>5, SrcDoneStep
  <1>7. TablesTyped'
    BY <1>1, <1>5, <1>6 DEF TablesTyped, Phases
  <1>8. CoreInv'
    BY <1>1, <1>7, CoreFrame
  <1> QED
    BY <1>6, <1>8, InvParts

LEMMA SrcFillStep ==
  ASSUME Inv, SpilledInv, SrcFill
  PROVE  Inv'
  <1> DEFINE v == CurSrc
  <1>1. CoreInv /\ TablesTyped /\ TrackingMatches /\ FixedUntouched /\ ValuesWhereTracked /\ SlotInv /\ SlotsTaken /\ AvoidInv
    BY InvParts DEF CoreInv, TrackingSound, PassInv
  <1>2. /\ phase = "src" /\ todo # <<>> /\ v \in VRegs
        /\ loc[v] = "MEM"
        /\ v \in Locals => spill_offs[v] # NO_SPILL
        /\ UNCHANGED <<spill_offs, frame_cur, home, life>>
    BY DEF SrcFill, SrcNeedsReg
  <1>3. PICK q \in PRegs :
          /\ AllocPReg(q)
          /\ p' = [p EXCEPT ![v] = q]
          /\ loc' = [loc EXCEPT ![v] = "REG"]
          /\ p2v' = [p2v EXCEPT ![q] = v]
          /\ spill_synced' = [spill_synced EXCEPT ![v] = TRUE]
          /\ reg' = [reg EXCEPT ![q] = IF v \in home THEN v ELSE Junk]
          /\ SrcDone(q)
    BY DEF SrcFill
  <1>4. /\ v \in Live /\ v \in Needed
        /\ ins.op \in AliasOps /\ Head(todo) = 1 => v = ins.dst
    BY <1>2, CurSrcLive
  <1>5. q \in CurCt /\ q \notin avoid /\ p2v[q] = NoReg
    BY <1>2, <1>3 DEF AllocPReg, SpilledInv, IsFirst, FreeRegs, Target
  <1>6. v \in home
    BY <1>1, <1>2, <1>4 DEF ValuesWhereTracked
  <1> HIDE DEF v
  <1>7. /\ p' \in [VRegs -> PRegs] /\ p'[v] = q
        /\ \A u \in VRegs : u # v => p'[u] = p[u]
    BY <1>1, <1>2, <1>3 DEF TablesTyped
  <1>8. /\ loc' \in [VRegs -> {"DEAD", "MEM", "REG"}] /\ loc'[v] = "REG"
        /\ \A u \in VRegs : u # v => loc'[u] = loc[u]
    BY <1>1, <1>2, <1>3 DEF TablesTyped
  <1>9. /\ p2v' \in [PRegs -> VRegs \cup {NoReg}] /\ p2v'[q] = v
        /\ \A r \in PRegs : r # q => p2v'[r] = p2v[r]
    BY <1>1, <1>2, <1>3 DEF TablesTyped
  <1>10. /\ spill_synced' \in [VRegs -> BOOLEAN]
         /\ \A u \in VRegs : u # v => spill_synced'[u] = spill_synced[u]
    BY <1>1, <1>2, <1>3 DEF TablesTyped
  <1>11. /\ reg' \in [PRegs -> VRegs \cup {Junk}] /\ reg'[q] = v
         /\ \A r \in PRegs : r # q => reg'[r] = reg[r]
    BY <1>1, <1>2, <1>3, <1>6 DEF TablesTyped
  <1>12. /\ PassInv'
         /\ ins' \in Instr
         /\ todo' \in {<<>>, <<1>>, <<2>>, <<1, 2>>, <<2, 1>>}
         /\ avoid' \in SUBSET PRegs
         /\ opr' \in [0 .. 2 -> PRegs \cup {NoPReg}]
         /\ phase' = "src"
    <2>1. \A r \in avoid : reg'[r] = reg[r]
      BY <1>1, <1>5, <1>11 DEF TablesTyped
    <2>2. \A u \in VRegs : loc[u] = "REG" => loc'[u] = "REG" /\ p'[u] = p[u]
      BY <1>2, <1>7, <1>8
    <2>3. ins.op \in AliasOps /\ Head(todo) = 1 => loc'[ins.dst] = "REG" /\ p'[ins.dst] = q
      BY <1>4, <1>7, <1>8
    <2>4. reg'[q] = CurSrc /\ CurSrc \in VRegs
      BY <1>2, <1>11 DEF v
    <2> QED
      BY <2>1, <2>2, <2>3, <2>4, <1>2, <1>3, <1>5, SrcDoneStep
  <1>13. TablesTyped'
    BY <1>1, <1>2, <1>7, <1>8, <1>9, <1>10, <1>11, <1>12 DEF TablesTyped, Phases
  <1>14. Needed' = Live /\ Needed = Live /\ Live \subseteq VRegs
    BY <1>2, <1>12, NeededLive DEF Needed, Live
  <1>15. TrackingMatches'
    <2> SUFFICES ASSUME NEW u \in VRegs, NEW r \in PRegs
                 PROVE  (p2v'[r] = u) <=> (loc'[u] = "REG" /\ p'[u] = r)
      BY DEF TrackingMatches
    <2>1. CASE u = v
      BY <2>1, <1>1, <1>2, <1>7, <1>8, <1>9 DEF TrackingMatches
    <2>2. CASE u # v /\ r = q
      BY <2>2, <1>1, <1>5, <1>7, <1>8, <1>9, Names DEF TrackingMatches
    <2>3. CASE u # v /\ r # q
      BY <2>3, <1>1, <1>7, <1>8, <1>9 DEF TrackingMatches
    <2> QED
      BY <2>1, <2>2, <2>3
  <1>16. FixedUntouched'
    BY <1>1, <1>5, <1>9, RegAllocAssumption DEF FixedUntouched, AvoidInv
  <1>17. ValuesWhereTracked'
    <2> SUFFICES ASSUME NEW u \in Live
                 PROVE  /\ loc'[u] # "DEAD"
                        /\ loc'[u] = "REG" => reg'[p'[u]] = u
                        /\ loc'[u] = "REG" /\ spill_synced'[u] => u \in home'
                        /\ loc'[u] = "MEM" => u \in home'
      BY <1>14 DEF ValuesWhereTracked
    <2>1. u \in VRegs
      BY <1>14
    <2>2. CASE u = v
      BY <2>2, <1>2, <1>6, <1>7, <1>8, <1>11
    <2>3. CASE u # v
      <3>1. loc[u] = "REG" => p[u] \in PRegs /\ p[u] # q
        BY <2>1, <1>1, <1>5, Names DEF TrackingMatches, TablesTyped
      <3>2. loc'[u] = loc[u] /\ p'[u] = p[u] /\ spill_synced'[u] = spill_synced[u] /\ home' = home
        BY <2>1, <2>3, <1>2, <1>7, <1>8, <1>10
      <3> QED
        BY <3>1, <3>2, <1>1, <1>11, <1>14 DEF ValuesWhereTracked
    <2> QED
      BY <2>2, <2>3
  <1>18. SlotInv'
    BY <1>1, <1>2 DEF SlotInv, Overlap
  <1>19. SlotsTaken'
    BY <1>1, <1>2, <1>8, <1>10, <1>14 DEF SlotsTaken
  <1> QED
    BY <1>12, <1>13, <1>15, <1>16, <1>17, <1>18, <1>19, InvParts DEF CoreInv, TrackingSound

LEMMA SrcCopyStep ==
  ASSUME Inv, SpilledInv, SrcCopy
  PROVE  Inv'
  <1>1. CoreInv /\ TablesTyped /\ TrackingMatches /\ FixedUntouched /\ ValuesWhereTracked /\ SlotInv /\ SlotsTaken
    BY InvParts DEF CoreInv, TrackingSound
  <1>2. /\ phase = "src" /\ todo # <<>> /\ CurSrc \in VRegs
        /\ loc[CurSrc] = "REG" /\ p[CurSrc] \notin CurCt
        /\ UNCHANGED <<loc, p, spill_synced, spill_offs, p2v, frame_cur, home, life>>
    BY DEF SrcCopy, SrcNeedsReg, ravars
  <1>3. PICK q \in PRegs : /\ AllocPReg(q)
                           /\ reg' = [reg EXCEPT ![q] = reg[p[CurSrc]]]
                           /\ SrcDone(q)
    BY DEF SrcCopy
  <1>4. CurSrc \in Needed
    BY <1>2, CurSrcLive
  <1>5. q \in CurCt /\ q \notin avoid /\ p2v[q] = NoReg
    BY <1>2, <1>3 DEF AllocPReg, SpilledInv, IsFirst, FreeRegs, Target
  <1>6. reg[p[CurSrc]] = CurSrc
    BY <1>1, <1>2, <1>4 DEF ValuesWhereTracked
  <1>7. /\ reg' \in [PRegs -> VRegs \cup {Junk}] /\ reg'[q] = CurSrc
        /\ \A r \in PRegs : r # q => reg'[r] = reg[r]
    BY <1>1, <1>2, <1>3, <1>6 DEF TablesTyped
  <1>8. ~(ins.op \in AliasOps /\ Head(todo) = 1)
    BY <1>1, <1>2 DEF CurCt, SrcCt, AliasOps, TablesTyped
  <1>9. /\ PassInv'
        /\ ins' \in Instr
        /\ todo' \in {<<>>, <<1>>, <<2>>, <<1, 2>>, <<2, 1>>}
        /\ avoid' \in SUBSET PRegs
        /\ opr' \in [0 .. 2 -> PRegs \cup {NoPReg}]
        /\ phase' = "src"
    <2>1. \A r \in avoid : reg'[r] = reg[r]
      BY <1>1, <1>5, <1>7 DEF TablesTyped
    <2> QED
      BY <2>1, <1>2, <1>3, <1>5, <1>7, <1>8, SrcDoneStep
  <1>10. TablesTyped'
    BY <1>1, <1>2, <1>7, <1>9 DEF TablesTyped, Phases
  <1>11. Needed' = Live /\ Needed = Live /\ Live \subseteq VRegs
    BY <1>2, <1>9, NeededLive DEF Needed, Live
  <1>12. TrackingMatches' /\ FixedUntouched'
    BY <1>1, <1>2 DEF TrackingMatches, FixedUntouched
  <1>13. ValuesWhereTracked'
    <2>1. \A u \in Live : loc[u] = "REG" => p[u] \in PRegs /\ p[u] # q
      BY <1>1, <1>5, <1>11, Names DEF TrackingMatches, TablesTyped
    <2> QED
      BY <2>1, <1>1, <1>2, <1>7, <1>11 DEF ValuesWhereTracked
  <1>14. SlotInv' /\ SlotsTaken'
    BY <1>1, <1>2, <1>11 DEF SlotInv, Overlap, SlotsTaken
  <1> QED
    BY <1>9, <1>10, <1>12, <1>13, <1>14, InvParts DEF CoreInv, TrackingSound

LEMMA SrcsDoneStep ==
  ASSUME Inv, SrcsDone
  PROVE  Inv'
  <1> USE DEF SrcsDone
  <1>1. CoreInv /\ PassInv /\ TablesTyped
    BY InvParts DEF CoreInv
  <1>2. /\ UNCHANGED <<loc, p, spill_synced, spill_offs, p2v, frame_cur>>
        /\ UNCHANGED <<reg, home, life, avoid, opr, ins, todo>>
    BY DEF ravars, machine
  <1>3. Pending' = Pending
    BY <1>2 DEF Pending
  <1>4. /\ phase' \in {"sync", "dst"}
        /\ phase' = "sync" => ins.op \in SideeffOps
        /\ phase' = "dst" => ins.op \notin SideeffOps
    OBVIOUS
  <1>5. TablesTyped'
    BY <1>1, <1>2, <1>4 DEF TablesTyped, Phases
  <1>6. CoreInv'
    BY <1>1, <1>5, CoreFrame
  <1>7. PhaseInv'
    BY <1>1, <1>2, <1>4 DEF PassInv, PhaseInv
  <1>8. LifeInv' /\ AvoidInv'
    BY <1>1, <1>2, <1>3, <1>4 DEF PassInv, LifeInv, AvoidInv, Src
  <1>9. SourceInv'
    BY <1>1, <1>2, <1>3, <1>4 DEF PassInv, SourceInv, Src
  <1>10. DstInv' /\ BoundaryInv' /\ PanicMeansFrameFull'
    BY <1>2, <1>4 DEF DstInv, BoundaryInv, PanicMeansFrameFull
  <1> QED
    BY <1>6, <1>7, <1>8, <1>9, <1>10, InvParts DEF PassInv

\* Every global is in its slot once the globals are synced.
LEMMA GlobalsSpilled ==
  ASSUME Inv, phase # "emit", SyncSpill(Globals), home' = HomeAfterSpill(Globals, spill_offs)
  PROVE  /\ spill_synced' \in [VRegs -> BOOLEAN]
         /\ \A v \in Globals : loc[v] = "REG" => spill_synced'[v]
         /\ \A v \in Locals : spill_synced'[v] <=> spill_synced[v]
         /\ home' \subseteq VRegs
         /\ Globals \subseteq home'
         /\ \A v \in Live : v \in home => v \in home'
  <1>1. TablesTyped /\ ValuesWhereTracked /\ SlotInv
    BY DEF Inv, TrackingSound
  <1>2. Globals \in SUBSET VRegs /\ Locals \subseteq VRegs /\ Globals \cap Locals = {}
    BY RegAllocAssumption DEF VRegs
  <1>3. /\ spill_synced' \in [VRegs -> BOOLEAN]
        /\ \A v \in VRegs : spill_synced'[v] <=> (spill_synced[v] \/ v \in Dirty(Globals))
    BY <1>1, <1>2, SyncSpillFacts
  <1>4. /\ home' \subseteq VRegs
        /\ \A v \in Live : v \in home \/ v \in Dirty(Globals) => v \in home'
    BY <1>1, <1>2, SpillKeeps DEF SlotInv
  <1>5. ASSUME NEW v \in Globals
        PROVE  v \in home' /\ (loc[v] = "REG" => spill_synced'[v])
    <2>1. v \in Live /\ v \in Needed /\ v \in VRegs
      BY NeededLive
    <2>2. loc[v] \in {"MEM", "REG"}
      BY <2>1, <1>1 DEF ValuesWhereTracked, TablesTyped
    <2>3. loc[v] = "REG" => spill_synced[v] \/ v \in Dirty(Globals)
      BY <2>1 DEF Dirty
    <2> QED
      BY <2>1, <2>2, <2>3, <1>1, <1>3, <1>4 DEF ValuesWhereTracked
  <1>6. \A v \in Locals : spill_synced'[v] <=> spill_synced[v]
    BY <1>2, <1>3 DEF Dirty
  <1> QED
    BY <1>3, <1>4, <1>5, <1>6

LEMMA SyncGlobalsStep ==
  ASSUME Inv, SyncGlobals
  PROVE  Inv'
  <1> USE DEF SyncGlobals
  <1>1. CoreInv /\ PassInv /\ TablesTyped /\ TrackingSound /\ SlotInv /\ SlotsTaken
    BY InvParts DEF CoreInv
  <1>2. /\ spill_synced' \in [VRegs -> BOOLEAN]
        /\ \A v \in Locals : spill_synced'[v] <=> spill_synced[v]
        /\ home' \subseteq VRegs
        /\ Globals \subseteq home'
        /\ \A v \in Live : v \in home => v \in home'
    BY GlobalsSpilled
  <1>3. TablesTyped'
    BY <1>1, <1>2 DEF TablesTyped, Phases
  <1>4. Needed' = Live /\ Needed = Live /\ Live \subseteq VRegs /\ \A v \in Live : v \in Globals \/ v \in Locals
    BY NeededLive DEF Needed, Live
  <1>5. TrackingMatches' /\ FixedUntouched'
    BY <1>1 DEF TrackingSound, TrackingMatches, FixedUntouched
  <1>6. ValuesWhereTracked'
    BY <1>1, <1>2, <1>4 DEF TrackingSound, ValuesWhereTracked
  <1>7. SlotInv' /\ SlotsTaken'
    BY <1>1, <1>2, <1>4 DEF SlotInv, Overlap, SlotsTaken
  <1>8. PhaseInv'
    BY <1>1 DEF PassInv, PhaseInv, SideeffOps
  <1>9. LifeInv' /\ AvoidInv' /\ SourceInv'
    BY <1>1 DEF PassInv, LifeInv, AvoidInv, SourceInv, Pending, Src
  <1>10. DstInv' /\ BoundaryInv' /\ PanicMeansFrameFull'
    BY <1>2 DEF DstInv, BoundaryInv, PanicMeansFrameFull
  <1> QED
    BY <1>3, <1>5, <1>6, <1>7, <1>8, <1>9, <1>10, InvParts DEF CoreInv, PassInv, TrackingSound

LEMMA DstNoneStep ==
  ASSUME Inv, DstNone
  PROVE  Inv'
  <1> USE DEF DstNone
  <1>1. CoreInv /\ PassInv /\ TablesTyped
    BY InvParts DEF CoreInv
  <1>2. /\ UNCHANGED <<loc, p, spill_synced, spill_offs, p2v, frame_cur>>
        /\ UNCHANGED <<reg, home, life, avoid, opr, ins, todo>>
    BY DEF ravars, machine
  <1>3. Pending' = Pending
    BY <1>2 DEF Pending
  <1>4. /\ phase' \in {"emit", "release"}
        /\ phase' = "emit" <=> ins.op = "vmstore"
    OBVIOUS
  <1>5. TablesTyped'
    BY <1>1, <1>2, <1>4 DEF TablesTyped, Phases
  <1>6. CoreInv'
    BY <1>1, <1>5, CoreFrame
  <1>7. ins.op \in {"vmstore", "hcall"} \cup BlockEndOps \cup RegionEndOps /\ ins.op \notin {"hcall", "br", "gbr"}
    BY <1>1, InstrFacts DEF PassInv, PhaseInv, TablesTyped
  <1>8. PhaseInv'
    BY <1>1, <1>2, <1>4, <1>7 DEF PassInv, PhaseInv
  <1>9. LifeInv' /\ AvoidInv'
    BY <1>1, <1>2, <1>3, <1>4 DEF PassInv, LifeInv, AvoidInv, Src
  <1>10. SourceInv'
    BY <1>1, <1>2, <1>3, <1>4 DEF PassInv, SourceInv, Src
  <1>11. DstInv' /\ BoundaryInv' /\ PanicMeansFrameFull'
    BY <1>1, <1>2, <1>4, <1>7 DEF PassInv, DstInv, BoundaryInv, PanicMeansFrameFull, SideeffOps, BlockEndOps, RegionEndOps
  <1> QED
    BY <1>6, <1>8, <1>9, <1>10, <1>11, InvParts DEF PassInv

\* What choosing the register q of the destination leaves to the execution of
\* the instruction.
LEMMA DstDoneStep ==
  ASSUME Inv, phase = "dst", ins.op \in DstOps, NEW q \in PRegs, DstDone(q),
         UNCHANGED machine, loc'[ins.dst] = "REG", p'[ins.dst] = q,
         ins.op \in AliasOps => q = opr[1]
  PROVE  /\ PassInv'
         /\ ins' = ins /\ todo' = todo /\ phase' = "emit"
         /\ avoid' \in SUBSET PRegs
         /\ opr' \in [0 .. 2 -> PRegs \cup {NoPReg}]
         /\ spill_synced' \in [VRegs -> BOOLEAN]
         /\ \A v \in VRegs : v # ins.dst => spill_synced'[v] = spill_synced[v]
         /\ ins.dst \in VRegs
  <1>1. PassInv /\ TablesTyped
    BY InvParts DEF Inv
  <1>2. /\ spill_synced' = [spill_synced EXCEPT ![ins.dst] = FALSE]
        /\ avoid' = avoid \cup {q}
        /\ opr' = [opr EXCEPT ![0] = q]
        /\ phase' = "emit" /\ ins' = ins /\ todo' = todo
    BY DEF DstDone
  <1>3. ins.dst \in VRegs
    BY <1>1, InstrFacts DEF TablesTyped
  <1>4. reg' = reg /\ home' = home /\ life' = life
    BY DEF machine
  <1>5. /\ opr' \in [0 .. 2 -> PRegs \cup {NoPReg}]
        /\ opr'[0] = q /\ opr'[1] = opr[1] /\ opr'[2] = opr[2]
    BY <1>1, <1>2 DEF TablesTyped
  <1>6. /\ spill_synced' \in [VRegs -> BOOLEAN] /\ ~spill_synced'[ins.dst]
        /\ \A v \in VRegs : v # ins.dst => spill_synced'[v] = spill_synced[v]
    BY <1>1, <1>2, <1>3 DEF TablesTyped
  <1>7. PhaseInv'
    BY <1>1, <1>2 DEF PassInv, PhaseInv
  <1>8. LifeInv' /\ AvoidInv'
    BY <1>1, <1>2, <1>4 DEF PassInv, LifeInv, AvoidInv, Src
  <1>9. SourceInv'
    <2>1. Pending' = Pending
      BY <1>2 DEF Pending
    <2>2. \A k \in {1, 2} : opr'[k] = opr[k]
      BY <1>5
    <2> QED
      BY <2>1, <2>2, <1>1, <1>2, <1>4 DEF PassInv, SourceInv, Src
  <1>10. DstInv' /\ PanicMeansFrameFull'
    BY <1>2, <1>5, <1>6 DEF DstInv, PanicMeansFrameFull
  <1>11. BoundaryInv'
    BY <1>1, <1>2, <1>4 DEF PassInv, BoundaryInv, DstOps, BlockEndOps, RegionEndOps
  <1> QED
    BY <1>1, <1>2, <1>3, <1>5, <1>6, <1>7, <1>8, <1>9, <1>10, <1>11 DEF PassInv, TablesTyped

LEMMA DstAliasStep ==
  ASSUME Inv, DstAlias
  PROVE  Inv'
  <1> USE DEF DstAlias
  <1>1. CoreInv /\ PassInv /\ TablesTyped /\ TrackingSound /\ SlotInv /\ SlotsTaken
    BY InvParts DEF CoreInv
  <1>2. loc[ins.dst] = "REG" /\ p[ins.dst] = opr[1]
    <2>1. todo = <<>> /\ ins.op \notin {"hcall", "br", "gbr"}
      BY <1>1 DEF PassInv, PhaseInv
    <2>2. Pending = {}
      BY <2>1, <1>1, TodoFacts
    <2> QED
      BY <2>1, <2>2, <1>1 DEF PassInv, SourceInv
  <1>3. ins.dst \in VRegs /\ ins.op \in DstOps /\ p[ins.dst] \in PRegs
    BY <1>1, InstrFacts DEF TablesTyped, AliasOps, DstOps
  <1>4. UNCHANGED <<loc, p, spill_offs, p2v, frame_cur, reg, home, life>>
    BY DEF machine
  <1>5. /\ PassInv'
        /\ ins' = ins /\ todo' = todo /\ phase' = "emit"
        /\ avoid' \in SUBSET PRegs
        /\ opr' \in [0 .. 2 -> PRegs \cup {NoPReg}]
        /\ spill_synced' \in [VRegs -> BOOLEAN]
        /\ \A v \in VRegs : v # ins.dst => spill_synced'[v] = spill_synced[v]
    BY <1>2, <1>3, <1>4, DstDoneStep
  <1>6. TablesTyped'
    BY <1>1, <1>4, <1>5 DEF TablesTyped, Phases
  <1>7. TrackingMatches' /\ FixedUntouched'
    BY <1>1, <1>4 DEF TrackingSound, TrackingMatches, FixedUntouched
  <1>8. \A v \in Needed' : v \in Needed /\ v \in VRegs /\ v # ins.dst
    <2>1. ins.op \notin BlockEndOps \cup RegionEndOps
      BY DEF AliasOps, BlockEndOps, RegionEndOps
    <2> QED
      BY <2>1, <1>4, <1>5, NeededLive DEF Needed, Live
  <1>9. ValuesWhereTracked'
    BY <1>1, <1>4, <1>5, <1>8 DEF TrackingSound, ValuesWhereTracked
  <1>10. SlotInv' /\ SlotsTaken'
    BY <1>1, <1>4, <1>5, <1>8 DEF SlotInv, Overlap, SlotsTaken
  <1> QED
    BY <1>5, <1>6, <1>7, <1>9, <1>10, InvParts DEF CoreInv, TrackingSound

LEMMA DstAllocStep ==
  ASSUME Inv, SpilledInv, DstAlloc
  PROVE  Inv'
  <1> DEFINE d == ins.dst
  <1>1. CoreInv /\ PassInv /\ TablesTyped /\ TrackingMatches /\ FixedUntouched /\ ValuesWhereTracked /\ SlotInv /\ SlotsTaken /\ AvoidInv
    BY InvParts DEF CoreInv, TrackingSound, PassInv
  <1>2. /\ phase = "dst" /\ ins.op \in DstOps /\ ins.op \notin AliasOps
        /\ UNCHANGED <<spill_offs, frame_cur, reg, home, life>>
        /\ UNCHANGED machine
    BY DEF DstAlloc, DstNeedsReg, machine
  <1>3. PICK q \in PRegs :
          /\ AllocPReg(q)
          /\ p2v' = [r \in PRegs |-> IF r = q THEN d
                                     ELSE IF loc[d] = "REG" /\ r = p[d] THEN NoReg
                                     ELSE p2v[r]]
          /\ loc' = [loc EXCEPT ![d] = "REG"]
          /\ p' = [p EXCEPT ![d] = q]
          /\ DstDone(q)
    BY DEF DstAlloc
  <1>4. d \in VRegs
    BY <1>1, <1>2, InstrFacts DEF TablesTyped
  <1>5. q \notin avoid /\ p2v[q] = NoReg
    BY <1>2, <1>3 DEF AllocPReg, SpilledInv, IsFirst, FreeRegs, Target
  <1>6. /\ p' \in [VRegs -> PRegs] /\ p'[d] = q
        /\ \A u \in VRegs : u # d => p'[u] = p[u]
    BY <1>1, <1>3, <1>4 DEF TablesTyped
  <1>7. /\ loc' \in [VRegs -> {"DEAD", "MEM", "REG"}] /\ loc'[d] = "REG"
        /\ \A u \in VRegs : u # d => loc'[u] = loc[u]
    BY <1>1, <1>3, <1>4 DEF TablesTyped
  <1>8. /\ p2v' \in [PRegs -> VRegs \cup {NoReg}] /\ p2v'[q] = d
        /\ \A r \in PRegs : r # q => p2v'[r] = IF loc[d] = "REG" /\ r = p[d] THEN NoReg ELSE p2v[r]
    BY <1>1, <1>3, <1>4 DEF TablesTyped
  <1>9. /\ PassInv'
        /\ ins' = ins /\ todo' = todo /\ phase' = "emit"
        /\ avoid' \in SUBSET PRegs
        /\ opr' \in [0 .. 2 -> PRegs \cup {NoPReg}]
        /\ spill_synced' \in [VRegs -> BOOLEAN]
        /\ \A v \in VRegs : v # d => spill_synced'[v] = spill_synced[v]
    BY <1>2, <1>3, <1>6, <1>7, DstDoneStep
  <1> HIDE DEF d
  <1>10. TablesTyped'
    BY <1>1, <1>2, <1>6, <1>7, <1>8, <1>9 DEF TablesTyped, Phases
  <1>11. TrackingMatches'
    <2> SUFFICES ASSUME NEW u \in VRegs, NEW r \in PRegs
                 PROVE  (p2v'[r] = u) <=> (loc'[u] = "REG" /\ p'[u] = r)
      BY DEF TrackingMatches
    <2>1. CASE u = d
      <3>1. r # q => p2v'[r] # d
        BY <1>1, <1>4, <1>8, Names DEF TrackingMatches
      <3> QED
        BY <2>1, <3>1, <1>6, <1>7, <1>8
    <2>2. CASE u # d /\ r = q
      BY <2>2, <1>1, <1>5, <1>6, <1>7, <1>8, Names DEF TrackingMatches
    <2>3. CASE u # d /\ r # q
      <3>1. (p2v'[r] = u) <=> (p2v[r] = u)
        BY <2>3, <1>1, <1>4, <1>8, Names DEF TrackingMatches
      <3> QED
        BY <2>3, <3>1, <1>1, <1>6, <1>7 DEF TrackingMatches
    <2> QED
      BY <2>1, <2>2, <2>3
  <1>12. FixedUntouched'
    BY <1>1, <1>5, <1>8, RegAllocAssumption DEF FixedUntouched, AvoidInv
  <1>13. \A v \in Needed' : v \in Needed /\ v \in VRegs /\ v # d
    <2>1. ins.op \notin BlockEndOps \cup RegionEndOps
      BY <1>2 DEF DstOps, BlockEndOps, RegionEndOps
    <2> QED
      BY <2>1, <1>2, <1>9, NeededLive DEF Needed, Live, d
  <1>14. ValuesWhereTracked'
    BY <1>1, <1>2, <1>6, <1>7, <1>9, <1>13 DEF ValuesWhereTracked
  <1>15. SlotInv' /\ SlotsTaken'
    BY <1>1, <1>2, <1>7, <1>9, <1>13 DEF SlotInv, Overlap, SlotsTaken
  <1> QED
    BY <1>9, <1>10, <1>11, <1>12, <1>14, <1>15, InvParts DEF CoreInv, TrackingSound

LEMMA CallSpilledStep ==
  ASSUME Inv, CallSpilled
  PROVE  Inv'
  <1> USE DEF CallSpilled
  <1>1. CoreInv /\ PassInv /\ TablesTyped
    BY InvParts DEF CoreInv
  <1>2. /\ UNCHANGED <<loc, p, spill_synced, spill_offs, p2v, frame_cur>>
        /\ UNCHANGED <<reg, home, life, avoid, opr, ins, todo>>
    BY DEF ravars, machine
  <1>3. TablesTyped'
    BY <1>1, <1>2 DEF TablesTyped, Phases
  <1>4. CoreInv'
    BY <1>1, <1>3, CoreFrame
  <1>5. ins.op = "hcall"
    BY <1>1 DEF PassInv, PhaseInv
  <1>6. PhaseInv'
    BY <1>2, <1>5 DEF PhaseInv
  <1>7. LifeInv' /\ AvoidInv'
    BY <1>1, <1>2 DEF PassInv, LifeInv, AvoidInv, Src
  <1>8. SourceInv' /\ DstInv' /\ PanicMeansFrameFull'
    BY <1>2, <1>5 DEF SourceInv, DstInv, PanicMeansFrameFull
  <1>9. BoundaryInv'
    BY <1>2, <1>5 DEF BoundaryInv, Clobbered
  <1> QED
    BY <1>4, <1>6, <1>7, <1>8, <1>9, InvParts DEF PassInv

LEMMA ReleaseBoundaryStep ==
  ASSUME Inv, ReleaseBoundary
  PROVE  Inv'
  <1> DEFINE S == IF ins.op \in RegionEndOps THEN VRegs ELSE Globals
  <1>1. CoreInv /\ PassInv /\ TablesTyped /\ TrackingMatches /\ FixedUntouched /\ ValuesWhereTracked /\ SlotInv /\ SlotsTaken
    BY InvParts DEF CoreInv, TrackingSound
  <1>2. /\ phase = "release" /\ phase' = "emit"
        /\ SyncSpill(Globals) /\ home' = HomeAfterSpill(Globals, spill_offs)
        /\ Release(S)
        /\ UNCHANGED <<p, spill_offs, frame_cur, ins, todo, avoid, opr, reg, life>>
    BY DEF ReleaseBoundary
  <1>3. ins.op \in {"hcall"} \cup BlockEndOps \cup RegionEndOps
    BY <1>1, <1>2 DEF PassInv, PhaseInv
  <1>4. S \in SUBSET VRegs /\ Globals \subseteq S /\ (ins.op = "hcall" => S = Globals)
    BY DEF VRegs, RegionEndOps
  <1> HIDE DEF S
  <1>5. /\ spill_synced' \in [VRegs -> BOOLEAN]
        /\ \A v \in Locals : spill_synced'[v] <=> spill_synced[v]
        /\ home' \subseteq VRegs
        /\ Globals \subseteq home'
        /\ \A v \in Live : v \in home => v \in home'
    BY <1>2, GlobalsSpilled
  <1>6. /\ loc' \in [VRegs -> {"DEAD", "MEM", "REG"}]
        /\ p2v' \in [PRegs -> VRegs \cup {NoReg}]
        /\ TrackingMatches' /\ FixedUntouched'
        /\ \A v \in VRegs : loc'[v] = IF v \in S THEN "MEM" ELSE loc[v]
        /\ \A q \in PRegs : p2v'[q] \in {p2v[q], NoReg}
    BY <1>1, <1>2, <1>4, ReleaseFacts
  <1>7. TablesTyped'
    BY <1>1, <1>2, <1>5, <1>6 DEF TablesTyped, Phases
  <1>8. \A v \in Needed' : v \in Globals \/ (v \in Locals /\ v \in Live /\ v \in Needed /\ ins.op = "hcall")
    BY <1>2, <1>3 DEF Needed, Live
  <1>9. /\ \A v \in Globals : loc'[v] = "MEM"
        /\ ins.op = "hcall" => \A v \in Locals : loc'[v] = loc[v]
    BY <1>4, <1>6, RegAllocAssumption DEF VRegs
  <1>10. ValuesWhereTracked'
    BY <1>1, <1>2, <1>5, <1>8, <1>9 DEF ValuesWhereTracked
  <1>11. SlotInv'
    BY <1>1, <1>2 DEF SlotInv, Overlap
  <1>12. SlotsTaken'
    BY <1>1, <1>2, <1>5, <1>8, <1>9, RegAllocAssumption DEF SlotsTaken
  <1>13. PhaseInv' /\ LifeInv' /\ AvoidInv'
    BY <1>1, <1>2 DEF PassInv, PhaseInv, LifeInv, AvoidInv, Src
  <1>14. SourceInv'
    <2>1. ins.op \notin AliasOps
      BY <1>3 DEF AliasOps, BlockEndOps, RegionEndOps
    <2> QED
      BY <2>1, <1>1, <1>2 DEF PassInv, SourceInv, Pending, Src
  <1>15. DstInv' /\ PanicMeansFrameFull'
    BY <1>2, <1>3 DEF DstInv, DstOps, BlockEndOps, RegionEndOps, PanicMeansFrameFull
  <1>16. BoundaryInv'
    <2>1. ins.op \notin SideeffOps
      BY <1>3 DEF SideeffOps, BlockEndOps, RegionEndOps
    <2>2. ins.op = "hcall" => Clobbered' = {}
      BY <1>1, <1>2, <1>6, RegAllocAssumption DEF PassInv, BoundaryInv, Clobbered
    <2> QED
      BY <2>1, <2>2, <1>2, <1>9 DEF BoundaryInv
  <1> QED
    BY <1>6, <1>7, <1>10, <1>11, <1>12, <1>13, <1>14, <1>15, <1>16, InvParts
    DEF CoreInv, PassInv, TrackingSound

\* Between two instructions nothing is known but the tables.
LEMMA VisitDoneStep ==
  ASSUME TablesTyped, VisitDone
  PROVE  /\ PassInv'
         /\ ins' \in Instr
         /\ todo' \in {<<>>, <<1>>, <<2>>, <<1, 2>>, <<2, 1>>}
         /\ avoid' \in SUBSET PRegs
         /\ opr' \in [0 .. 2 -> PRegs \cup {NoPReg}]
         /\ phase' = "next"
         /\ Needed' = Live'
  <1> USE DEF VisitDone
  <1>1. PassInv'
    BY DEF PassInv, PhaseInv, LifeInv, AvoidInv, SourceInv, DstInv, BoundaryInv, PanicMeansFrameFull
  <1>2. avoid' \in SUBSET PRegs
    BY RegAllocAssumption
  <1>3. todo' \in {<<>>, <<1>>, <<2>>, <<1, 2>>, <<2, 1>>}
    OBVIOUS
  <1> QED
    BY <1>1, <1>2, <1>3, NoInstrType DEF Needed

LEMMA EmitDstStep ==
  ASSUME Inv, EmitDst
  PROVE  Inv'
  <1> DEFINE d == ins.dst
  <1>1. CoreInv /\ PassInv /\ TablesTyped /\ TrackingMatches /\ FixedUntouched /\ ValuesWhereTracked /\ SlotInv /\ SlotsTaken
    BY InvParts DEF CoreInv, TrackingSound
  <1>2. /\ phase = "emit" /\ ins.op \in DstOps
        /\ reg' = [q \in PRegs |-> IF q = opr[0] THEN d ELSE IF reg[q] = d THEN Junk ELSE reg[q]]
        /\ home' = home \ {d}
        /\ life' = [v \in Locals |-> IF v = d THEN "live" ELSE life[v]]
        /\ VisitDone
        /\ UNCHANGED <<loc, p, spill_synced, spill_offs, p2v, frame_cur>>
    BY DEF EmitDst, ravars
  <1>3. d \in VRegs
    BY <1>1, <1>2, InstrFacts DEF TablesTyped
  <1>4. loc[d] = "REG" /\ p[d] = opr[0] /\ ~spill_synced[d]
    BY <1>1, <1>2 DEF PassInv, DstInv
  <1>5. Needed = Live \ {d}
    BY <1>2 DEF Needed, DstOps, BlockEndOps, RegionEndOps
  <1> HIDE DEF d
  <1>6. /\ PassInv'
        /\ ins' \in Instr
        /\ todo' \in {<<>>, <<1>>, <<2>>, <<1, 2>>, <<2, 1>>}
        /\ avoid' \in SUBSET PRegs
        /\ opr' \in [0 .. 2 -> PRegs \cup {NoPReg}]
        /\ phase' = "next"
        /\ Needed' = Live'
    BY <1>1, <1>2, VisitDoneStep
  <1>7. reg' \in [PRegs -> VRegs \cup {Junk}]
    BY <1>1, <1>2, <1>3 DEF TablesTyped
  <1>8. TablesTyped'
    BY <1>1, <1>2, <1>6, <1>7 DEF TablesTyped, Phases
  <1>9. \A v \in Live' : v = d \/ (v # d /\ v \in Needed /\ v \in VRegs)
    BY <1>2, <1>5, NeededLive DEF Live
  <1>10. TrackingMatches' /\ FixedUntouched'
    BY <1>1, <1>2 DEF TrackingMatches, FixedUntouched
  <1>11. ValuesWhereTracked'
    <2> SUFFICES ASSUME NEW v \in Live'
                 PROVE  /\ loc[v] # "DEAD"
                        /\ loc[v] = "REG" => reg'[p[v]] = v
                        /\ loc[v] = "REG" /\ spill_synced[v] => v \in home'
                        /\ loc[v] = "MEM" => v \in home'
      BY <1>2, <1>6 DEF ValuesWhereTracked
    <2>1. CASE v = d
      BY <2>1, <1>1, <1>2, <1>3, <1>4 DEF TablesTyped
    <2>2. CASE v # d
      <3>1. v \in Needed /\ v \in VRegs
        BY <2>2, <1>9
      <3>2. loc[v] = "REG" => p[v] # opr[0] /\ p[v] \in PRegs
        BY <2>2, <3>1, <1>1, <1>3, <1>4 DEF TrackingMatches, TablesTyped
      <3> QED
        BY <2>2, <3>1, <3>2, <1>1, <1>2 DEF ValuesWhereTracked
    <2> QED
      BY <2>1, <2>2
  <1>12. SlotInv'
    BY <1>1, <1>2 DEF SlotInv, Overlap
  <1>13. SlotsTaken'
    BY <1>1, <1>2, <1>4, <1>6, <1>9 DEF SlotsTaken
  <1> QED
    BY <1>6, <1>8, <1>10, <1>11, <1>12, <1>13, InvParts DEF CoreInv, TrackingSound

LEMMA EmitStoreStep ==
  ASSUME Inv, EmitStore
  PROVE  Inv'
  <1>1. CoreInv /\ TablesTyped /\ TrackingSound /\ SlotInv /\ SlotsTaken
    BY InvParts DEF CoreInv
  <1>2. /\ phase = "emit" /\ ins.op = "vmstore"
        /\ VisitDone
        /\ UNCHANGED <<loc, p, spill_synced, spill_offs, p2v, frame_cur, reg, home, life>>
    BY DEF EmitStore, ravars, machine
  <1>3. /\ PassInv'
        /\ ins' \in Instr
        /\ todo' \in {<<>>, <<1>>, <<2>>, <<1, 2>>, <<2, 1>>}
        /\ avoid' \in SUBSET PRegs
        /\ opr' \in [0 .. 2 -> PRegs \cup {NoPReg}]
        /\ phase' = "next"
        /\ Needed' = Live'
    BY <1>1, <1>2, VisitDoneStep
  <1>4. TablesTyped'
    BY <1>1, <1>2, <1>3 DEF TablesTyped, Phases
  <1>5. Needed' = Needed
    <2>1. ins.dst = NoReg
      BY <1>1, <1>2, InstrFacts DEF TablesTyped, DstOps
    <2>2. Live' = Live
      BY <1>2 DEF Live
    <2> QED
      BY <2>1, <2>2, <1>2, <1>3, NeededLive, Names DEF Needed, BlockEndOps, RegionEndOps
  <1>6. TrackingSound'
    BY <1>1, <1>2, <1>5 DEF TrackingSound, TrackingMatches, FixedUntouched, ValuesWhereTracked
  <1>7. SlotInv' /\ SlotsTaken'
    BY <1>1, <1>2, <1>5 DEF SlotInv, Overlap, SlotsTaken
  <1> QED
    BY <1>3, <1>4, <1>6, <1>7, InvParts DEF CoreInv

LEMMA EmitCallStep ==
  ASSUME Inv, EmitCall
  PROVE  Inv'
  <1>1. CoreInv /\ PassInv /\ TablesTyped /\ TrackingMatches /\ FixedUntouched /\ ValuesWhereTracked /\ SlotInv /\ SlotsTaken
    BY InvParts DEF CoreInv, TrackingSound
  <1>2. /\ phase = "emit" /\ ins.op = "hcall"
        /\ reg' = [q \in PRegs |-> IF q \in CallClobber \/ reg[q] \in Globals THEN Junk ELSE reg[q]]
        /\ VisitDone
        /\ UNCHANGED <<loc, p, spill_synced, spill_offs, p2v, frame_cur, home, life>>
    BY DEF EmitCall, ravars
  <1>3. /\ PassInv'
        /\ ins' \in Instr
        /\ todo' \in {<<>>, <<1>>, <<2>>, <<1, 2>>, <<2, 1>>}
        /\ avoid' \in SUBSET PRegs
        /\ opr' \in [0 .. 2 -> PRegs \cup {NoPReg}]
        /\ phase' = "next"
        /\ Needed' = Live'
    BY <1>1, <1>2, VisitDoneStep
  <1>4. reg' \in [PRegs -> VRegs \cup {Junk}]
    BY <1>1, <1>2 DEF TablesTyped
  <1>5. TablesTyped'
    BY <1>1, <1>2, <1>3, <1>4 DEF TablesTyped, Phases
  <1>6. Needed' = Needed
    <2>1. ins.dst = NoReg
      BY <1>1, <1>2, InstrFacts DEF TablesTyped, DstOps
    <2>2. Live' = Live
      BY <1>2 DEF Live
    <2> QED
      BY <2>1, <2>2, <1>2, <1>3, NeededLive, Names DEF Needed, BlockEndOps, RegionEndOps
  <1>7. \A g \in Globals : loc[g] = "MEM"
    BY <1>1, <1>2 DEF PassInv, BoundaryInv
  <1>8. Clobbered = {}
    BY <1>1, <1>2 DEF PassInv, BoundaryInv
  <1>9. TrackingMatches' /\ FixedUntouched'
    BY <1>1, <1>2 DEF TrackingMatches, FixedUntouched
  <1>10. ASSUME NEW v \in Needed, loc[v] = "REG"
         PROVE  reg'[p[v]] = v
    <2>1. v \in VRegs /\ v \notin Globals
      BY <1>7, <1>10, NeededLive
    <2>2. p[v] \in PRegs /\ p2v[p[v]] = v
      BY <2>1, <1>1, <1>10 DEF TablesTyped, TrackingMatches
    <2>3. p[v] \notin CallClobber
      BY <2>1, <2>2, <1>8, Names DEF Clobbered
    <2>4. reg[p[v]] = v
      BY <1>1, <1>10 DEF ValuesWhereTracked
    <2> QED
      BY <2>1, <2>2, <2>3, <2>4, <1>2
  <1>11. ValuesWhereTracked'
    BY <1>1, <1>2, <1>6, <1>10 DEF ValuesWhereTracked
  <1>12. SlotInv' /\ SlotsTaken'
    BY <1>1, <1>2, <1>6 DEF SlotInv, Overlap, SlotsTaken
  <1> QED
    BY <1>3, <1>5, <1>9, <1>11, <1>12, InvParts DEF CoreInv, TrackingSound

LEMMA EmitBlockEndStep ==
  ASSUME Inv, EmitBlockEnd
  PROVE  Inv'
  <1>1. CoreInv /\ PassInv /\ TablesTyped /\ TrackingMatches /\ FixedUntouched /\ ValuesWhereTracked /\ SlotInv
    BY InvParts DEF CoreInv, TrackingSound
  <1>2. /\ phase = "emit" /\ ins.op \in BlockEndOps \cup RegionEndOps
        /\ reg' = [q \in PRegs |-> Junk]
        /\ home' = home \cap Globals
        /\ life' = [v \in Locals |-> IF life[v] = "live" THEN "past" ELSE life[v]]
        /\ VisitDone
        /\ UNCHANGED <<loc, p, spill_synced, spill_offs, p2v, frame_cur>>
    BY DEF EmitBlockEnd, ravars
  <1>3. /\ PassInv'
        /\ ins' \in Instr
        /\ todo' \in {<<>>, <<1>>, <<2>>, <<1, 2>>, <<2, 1>>}
        /\ avoid' \in SUBSET PRegs
        /\ opr' \in [0 .. 2 -> PRegs \cup {NoPReg}]
        /\ phase' = "next"
        /\ Needed' = Live'
    BY <1>1, <1>2, VisitDoneStep
  <1>4. TablesTyped'
    BY <1>1, <1>2, <1>3 DEF TablesTyped, Phases
  <1>5. Needed' = Globals /\ Needed = Globals
    BY <1>2, <1>3 DEF Needed, Live
  <1>6. \A g \in Globals : loc[g] = "MEM"
    BY <1>1, <1>2 DEF PassInv, BoundaryInv
  <1>7. TrackingMatches' /\ FixedUntouched'
    BY <1>1, <1>2 DEF TrackingMatches, FixedUntouched
  <1>8. ValuesWhereTracked'
    BY <1>1, <1>2, <1>5, <1>6 DEF ValuesWhereTracked
  <1>9. SlotInv'
    BY <1>1, <1>2 DEF SlotInv, Overlap
  <1>10. SlotsTaken'
    BY <1>5, RegAllocAssumption DEF SlotsTaken
  <1> QED
    BY <1>3, <1>4, <1>7, <1>8, <1>9, <1>10, InvParts DEF CoreInv, TrackingSound

\* A constraint always has a register left: the constrained source goes first,
\* and three registers outside Fixed serve the destination after two sources.
LEMMA CandidateLeft ==
  ASSUME Inv, SrcNeedsReg \/ DstNeedsReg
  PROVE  Target # {}
  <1>1. TablesTyped /\ PhaseInv /\ AvoidInv /\ Pending \subseteq {1, 2}
    <2>1. TablesTyped /\ PhaseInv /\ AvoidInv
      BY DEF Inv
    <2> QED
      BY <2>1, TodoFacts
  <1>2. PICK a, b, c \in PRegs \ Fixed : a # b /\ a # c /\ b # c
    BY RegAllocAssumption
  <1>3. \E r \in {a, b, c} : r \notin Fixed \cup {opr[1], opr[2]}
    BY <1>2
  <1>4. CASE DstNeedsReg
    <2>1. phase = "dst" /\ avoid \subseteq Fixed \cup {opr[1], opr[2]}
      BY <1>1, <1>4 DEF DstNeedsReg, AvoidInv
    <2> QED
      BY <2>1, <1>2, <1>3 DEF Target
  <1>5. CASE SrcNeedsReg
    <2>1. phase = "src" /\ todo # <<>> /\ CurSrc \in VRegs
      BY <1>5 DEF SrcNeedsReg
    <2>2. avoid \subseteq Fixed \cup {opr[k] : k \in {1, 2} \ Pending}
      BY <2>1, <1>1 DEF AvoidInv
    <2>3. CASE CurCt = PRegs
      <3>1. avoid \subseteq Fixed \cup {opr[1], opr[2]}
        BY <2>2
      <3> QED
        BY <2>1, <2>3, <3>1, <1>2, <1>3 DEF Target
    <2>4. CASE ins.op = "shift" /\ Head(todo) = 2
      <3>1. todo \in {<<2, 1>>, <<1>>}
        BY <2>1, <2>4, <1>1 DEF PhaseInv
      <3>2. todo = <<2, 1>>
        <4>1. todo = <<1>> => Head(todo) = 1
          OBVIOUS
        <4> QED
          BY <2>4, <3>1, <4>1
      <3>3. Pending = {1, 2}
        BY <3>2 DEF Pending
      <3>4. avoid \subseteq Fixed
        BY <2>2, <3>3
      <3>5. RCX \in CurCt
        BY <2>4 DEF CurCt, SrcCt
      <3> QED
        BY <2>1, <3>4, <3>5, RegAllocAssumption DEF Target
    <2>5. CASE ins.op = "gbrind"
      <3>1. todo \in {<<1, 2>>, <<2>>}
        BY <2>1, <2>5, <1>1 DEF PhaseInv
      <3>2. todo = <<1, 2>>
        <4>1. todo = <<2>> => Head(todo) = 2
          OBVIOUS
        <4>2. Src(ins, 2) \notin VRegs
          BY <2>5, <1>1, InstrFacts, Names DEF Src, TablesTyped
        <4> QED
          BY <2>1, <3>1, <4>1, <4>2 DEF CurSrc
      <3>3. Pending = {1, 2}
        BY <3>2 DEF Pending
      <3>4. avoid \subseteq Fixed
        BY <2>2, <3>3
      <3>5. RSI \in CurCt
        BY <2>5 DEF CurCt, SrcCt
      <3> QED
        BY <2>1, <3>4, <3>5, RegAllocAssumption DEF Target
    <2> QED
      BY <2>3, <2>4, <2>5 DEF CurCt, SrcCt
  <1> QED
    BY <1>4, <1>5

\* The pass gives up only over a frame slot.
LEMMA OnlyFrameOverflow ==
  ASSUME Inv, Panic
  PROVE  FrameOverflow
  <1>1. ~NoCandidate
    BY CandidateLeft DEF NoCandidate
  <1>2. ~BadSource
    <2> SUFFICES ASSUME BadSource PROVE FALSE
      OBVIOUS
    <2>1. phase = "src" /\ todo # <<>> /\ CurSrc \in VRegs
      BY DEF BadSource, VRegs
    <2>2. CurSrc \in Needed
      BY <2>1, CurSrcLive
    <2> QED
      BY <2>1, <2>2 DEF BadSource, Inv, TrackingSound, ValuesWhereTracked, SlotsTaken
  <1> QED
    BY <1>1, <1>2 DEF Panic

LEMMA PanicStep ==
  ASSUME Inv, Panic
  PROVE  Inv'
  <1>1. CoreInv /\ PassInv /\ TablesTyped /\ ValuesWhereTracked /\ SlotsTaken
    BY InvParts DEF CoreInv, TrackingSound
  <1>2. /\ phase' = "panic"
        /\ UNCHANGED <<ravars, machine>>
        /\ UNCHANGED <<ins, todo, avoid, opr>>
    BY DEF Panic
  <1>3. /\ UNCHANGED <<loc, p, spill_synced, spill_offs, p2v, frame_cur>>
        /\ UNCHANGED <<reg, home, life>>
    BY <1>2 DEF ravars, machine
  <1>4. phase \in {"src", "dst", "spill"}
    BY DEF Panic, FrameOverflow, NoCandidate, BadSource, SrcNeedsReg, DstNeedsReg
  <1>5. TablesTyped'
    BY <1>1, <1>2, <1>3 DEF TablesTyped, Phases
  <1>6. CoreInv'
    BY <1>1, <1>2, <1>4, <1>5, CoreFrame
  <1>7. PhaseInv' /\ LifeInv' /\ SourceInv' /\ DstInv' /\ BoundaryInv'
    BY <1>2 DEF PhaseInv, LifeInv, SourceInv, DstInv, BoundaryInv
  <1>8. AvoidInv'
    BY <1>1, <1>2 DEF PassInv, AvoidInv
  <1>9. FrameOverflow
    BY OnlyFrameOverflow
  <1>10. \E v \in Locals : NeedsSlot(v) /\ FrameFull(v)
    BY <1>9 DEF FrameOverflow, NeedsSlot
  <1>11. PanicMeansFrameFull'
    BY <1>2, <1>3, <1>10 DEF PanicMeansFrameFull, NeedsSlot, FrameFull, SlotOffs
  <1> QED
    BY <1>6, <1>7, <1>8, <1>11, InvParts DEF PassInv

LEMMA StutterStep ==
  ASSUME Inv, UNCHANGED vars
  PROVE  Inv'
  <1>1. /\ UNCHANGED <<loc, p, spill_synced, spill_offs, p2v, frame_cur>>
        /\ UNCHANGED <<ins, todo, avoid, opr, phase>>
        /\ UNCHANGED <<reg, home, life>>
    BY DEF vars, ravars, insvars, machine
  <1>2. TablesTyped'
    BY <1>1 DEF Inv, TablesTyped
  <1>3. Needed' = Needed /\ Pending' = Pending /\ Clobbered' = Clobbered
    BY <1>1 DEF Needed, Live, Pending, Clobbered
  <1>4. TrackingSound'
    BY <1>1, <1>3 DEF Inv, TrackingSound, TrackingMatches, FixedUntouched, ValuesWhereTracked
  <1>5. SlotInv' /\ SlotsTaken'
    BY <1>1, <1>3 DEF Inv, SlotInv, Overlap, SlotsTaken
  <1>6. PhaseInv' /\ LifeInv' /\ AvoidInv'
    BY <1>1, <1>3 DEF Inv, PhaseInv, LifeInv, AvoidInv, Src
  <1>7. SourceInv' /\ DstInv' /\ BoundaryInv'
    BY <1>1, <1>3 DEF Inv, SourceInv, DstInv, BoundaryInv, Src
  <1>8. PanicMeansFrameFull'
    BY <1>1 DEF Inv, PanicMeansFrameFull, NeedsSlot, FrameFull, SlotOffs
  <1> QED
    BY <1>2, <1>4, <1>5, <1>6, <1>7, <1>8 DEF Inv

\* What AllocPReg has spilled stays free until the call returns it.
LEMMA SpilledStep ==
  ASSUME Inv, SpilledInv, [Next]_vars
  PROVE  SpilledInv'
  <1>1. TablesTyped /\ TrackingMatches
    BY DEF Inv, TrackingSound
  <1>2. ASSUME spilled' = NoPReg PROVE SpilledInv'
    BY <1>2 DEF SpilledInv
  <1>3. ASSUME ~(SrcNeedsReg \/ DstNeedsReg), spilled' = spilled PROVE SpilledInv'
    BY <1>2, <1>3 DEF SpilledInv
  <1>4. CASE AllocSpill
    <2>1. PICK q \in PRegs : /\ IsFirst(q, Target)
                             /\ SpillReg(q)
                             /\ spilled' = q
      BY <1>4 DEF AllocSpill
    <2>2. q \in Target /\ p2v[q] # NoReg
      BY <1>4, <2>1 DEF AllocSpill, IsFirst, FreeRegs
    <2>3. UNCHANGED <<ins, todo, avoid, opr, phase, p>> /\ Release({p2v[q]})
      BY <1>4, <2>1 DEF AllocSpill, insvars, SpillReg
    <2>4. p2v[q] \in VRegs /\ loc[p2v[q]] = "REG" /\ p[p2v[q]] = q
      BY <1>1, <2>2 DEF TablesTyped, TrackingMatches
    <2>5. /\ p2v'[q] = NoReg
          /\ \A v \in VRegs : loc'[v] = IF v = p2v[q] THEN "MEM" ELSE loc[v]
      BY <2>3, <2>4 DEF Release
    <2>6. /\ Target' = Target
          /\ phase = "src" /\ todo # <<>> => CurSrc' = CurSrc /\ CurCt' = CurCt
      BY <2>3 DEF Target, CurSrc, CurCt, Src
    <2>7. (SrcNeedsReg \/ DstNeedsReg)'
      <3>1. CASE SrcNeedsReg
        <4>1. /\ phase = "src" /\ todo # <<>> /\ CurSrc \in VRegs
              /\ loc[CurSrc] = "MEM" \/ (loc[CurSrc] = "REG" /\ p[CurSrc] \notin CurCt)
          BY <3>1 DEF SrcNeedsReg
        <4>2. q \in CurCt
          BY <2>2, <4>1 DEF Target
        <4>3. CurSrc # p2v[q]
          BY <2>4, <4>1, <4>2
        <4> QED
          BY <2>3, <2>5, <2>6, <4>1, <4>3 DEF SrcNeedsReg
      <3>2. CASE DstNeedsReg
        BY <2>3, <3>2 DEF DstNeedsReg
      <3> QED
        BY <1>4, <3>1, <3>2 DEF AllocSpill
    <2> QED
      BY <2>1, <2>2, <2>5, <2>6, <2>7 DEF SpilledInv, FreeRegs
  <1>5. CASE SrcFill \/ SrcCopy \/ DstAlloc
    BY <1>2, <1>5 DEF SrcFill, SrcCopy, DstAlloc
  <1>6. CASE SrcNotReg \/ SrcInReg \/ SrcsDone
    BY <1>3, <1>6 DEF SrcNotReg, SrcInReg, SrcsDone, SrcNeedsReg, DstNeedsReg
  <1>7. CASE SyncGlobals \/ DstNone \/ DstAlias
    BY <1>3, <1>7
    DEF SyncGlobals, DstNone, DstAlias, SrcNeedsReg, DstNeedsReg
  <1>8. CASE CallSpill \/ CallSpilled \/ ReleaseBoundary
    BY <1>3, <1>8
    DEF CallSpill, CallSpilled, ReleaseBoundary, SrcNeedsReg, DstNeedsReg
  <1>9. CASE EmitDst \/ EmitStore \/ EmitCall \/ EmitBlockEnd
    BY <1>3, <1>9
    DEF EmitDst, EmitStore, EmitCall, EmitBlockEnd, SrcNeedsReg, DstNeedsReg
  <1>10. CASE \E i \in Instr : Begin(i)
    BY <1>3, <1>10 DEF Begin, SrcNeedsReg, DstNeedsReg
  <1>11. CASE Panic
    <2>1. FrameOverflow /\ spilled' = spilled
      BY <1>11, OnlyFrameOverflow DEF Panic
    <2>2. spilled # NoPReg => FALSE
      BY <2>1 DEF FrameOverflow, SpilledInv, SrcNeedsReg, DstNeedsReg
    <2> QED
      BY <1>2, <2>1, <2>2
  <1>12. CASE UNCHANGED vars
    <2>1. /\ UNCHANGED <<loc, p, p2v, ins, todo, avoid, phase, spilled>>
      BY <1>12 DEF vars, ravars, insvars
    <2> QED
      BY <2>1
      DEF SpilledInv, FreeRegs, Target, SrcNeedsReg, DstNeedsReg, CurSrc, CurCt, Src
  <1> QED
    BY <1>4, <1>5, <1>6, <1>7, <1>8, <1>9, <1>10, <1>11, <1>12
    DEF Next, Visit, AllocSrc, AllocDst, CallOp, Emit, Panicked

-----------------------------------------------------------------------------
(* Theorems *)

\* The strengthened invariant holds of every pass over every instruction list.
THEOREM AllocInvariant == Spec => [](Inv /\ SpilledInv)
  <1>1. ASSUME Inv, SpilledInv, [Next]_vars
        PROVE  Inv'
    <2>1. CASE \E i \in Instr : Begin(i)
      BY <1>1, <2>1, BeginStep
    <2>2. CASE AllocSrc
      BY <1>1, <2>2, AllocSpillStep, SrcNotRegStep, SrcInRegStep, SrcFillStep, SrcCopyStep, SrcsDoneStep
      DEF AllocSrc
    <2>3. CASE AllocDst
      BY <1>1, <2>3, SyncGlobalsStep, DstNoneStep, DstAliasStep, DstAllocStep DEF AllocDst
    <2>4. CASE CallOp
      BY <1>1, <2>4, CallSpillStep, CallSpilledStep DEF CallOp
    <2>5. CASE ReleaseBoundary
      BY <1>1, <2>5, ReleaseBoundaryStep
    <2>6. CASE Emit
      BY <1>1, <2>6, EmitDstStep, EmitStoreStep, EmitCallStep, EmitBlockEndStep DEF Emit
    <2>7. CASE Panic
      BY <1>1, <2>7, PanicStep
    <2>8. CASE UNCHANGED vars
      BY <1>1, <2>8, StutterStep
    <2> QED
      BY <1>1, <2>1, <2>2, <2>3, <2>4, <2>5, <2>6, <2>7, <2>8 DEF Next, Visit, Panicked
  <1>2. ASSUME Inv, SpilledInv, [Next]_vars
        PROVE  SpilledInv'
    BY <1>2, SpilledStep
  <1>3. Init => SpilledInv
    BY DEF Init, SpilledInv
  <1> QED
    BY <1>1, <1>2, <1>3, InitInv, PTL DEF Spec

\* The tables of the allocator keep their types.
THEOREM AllocTyped == Spec => []TypeOK
  <1>1. ASSUME Inv, SpilledInv PROVE TypeOK
    <2>1. TablesTyped
      BY <1>1 DEF Inv
    <2>2. Target \subseteq PRegs
      BY <1>1, RegAllocAssumption DEF SpilledInv, Target, CurCt, SrcCt
    <2>3. spilled \in PRegs \cup {NoPReg}
      BY <1>1, <2>2 DEF SpilledInv, FreeRegs
    <2> QED
      BY <2>1, <2>3 DEF TypeOK
  <1> QED
    BY <1>1, AllocInvariant, PTL

\* What RTrack and p2v say of a value that is still needed is true of the
\* machine, at every point of the pass.
THEOREM TrackingHolds == Spec => []TrackingSound
  <1>1. Inv => TrackingSound
    BY DEF Inv
  <1> QED
    BY <1>1, AllocInvariant, PTL

\* Every emitted instruction reads the current values of its sources from
\* registers its constraints allow, and writes a register it may write.
THEOREM OperandsRight == Spec => []OperandsCurrent
  <1>1. ASSUME Inv PROVE OperandsCurrent
    <2> SUFFICES ASSUME phase = "emit" PROVE OperandsCurrent
      BY DEF OperandsCurrent
    <2>1. TablesTyped /\ TrackingSound /\ PhaseInv /\ SourceInv /\ DstInv
      BY <1>1 DEF Inv
    <2>2. ins \in Instr
      BY <2>1 DEF TablesTyped
    <2>3. ASSUME NEW k \in 1 .. 2, Src(ins, k) \in VRegs
          PROVE  opr[k] \in SrcCt(ins.op, k) /\ reg[opr[k]] = Src(ins, k)
      <3>1. ins.op \notin {"hcall", "br", "gbr"}
        BY <2>2, <2>3, InstrFacts, Names DEF Src
      <3>2. Pending = {}
        BY <2>1, <3>1, TodoFacts DEF PhaseInv
      <3> QED
        BY <2>1, <2>3, <3>1, <3>2 DEF SourceInv
    <2>4. ASSUME ins.op \in DstOps
          PROVE  opr[0] \in PRegs \ Fixed /\ (ins.op \in AliasOps => opr[0] = opr[1])
      <3>1. ins.dst \in VRegs
        BY <2>2, <2>4, InstrFacts
      <3>2. loc[ins.dst] = "REG" /\ p[ins.dst] = opr[0] /\ opr[0] \in PRegs
        BY <2>1, <2>4, <3>1 DEF DstInv, TablesTyped
      <3>3. p2v[opr[0]] = ins.dst
        BY <2>1, <3>1, <3>2 DEF TrackingSound, TrackingMatches
      <3>4. opr[0] \notin Fixed
        BY <2>1, <3>1, <3>3, Names DEF TrackingSound, FixedUntouched
      <3>5. ins.op \notin {"hcall", "br", "gbr"}
        BY <2>4 DEF DstOps
      <3>6. Pending = {}
        BY <2>1, <3>5, TodoFacts DEF PhaseInv
      <3> QED
        BY <2>1, <3>2, <3>4, <3>5, <3>6 DEF SourceInv
    <2>5. AliasOps \subseteq DstOps
      BY DEF AliasOps, DstOps
    <2> QED
      BY <2>3, <2>4, <2>5 DEF OperandsCurrent
  <1> QED
    BY <1>1, AllocInvariant, PTL

\* CPUState is current wherever the emitted code can leave for code that
\* reads it: a guest access that may fault, a helper call, another block.
THEOREM GuestStateFlushed == Spec => []GuestStateInMemory
  <1>1. ASSUME Inv PROVE GuestStateInMemory
    <2> SUFFICES ASSUME phase = "emit", ins.op \notin {"mov", "binop", "shift", "setcc"}
                 PROVE  Globals \subseteq home
      BY DEF GuestStateInMemory
    <2>1. TablesTyped /\ ValuesWhereTracked /\ BoundaryInv
      BY <1>1 DEF Inv, TrackingSound
    <2>2. CASE ins.op \in SideeffOps
      BY <2>1, <2>2 DEF BoundaryInv
    <2>3. CASE ins.op \notin SideeffOps
      <3>1. ins.op \in {"hcall"} \cup BlockEndOps \cup RegionEndOps
        BY <2>1, <2>3, InstrFacts DEF TablesTyped, DstOps, SideeffOps
      <3>2. \A g \in Globals : loc[g] = "MEM"
        BY <2>1, <3>1 DEF BoundaryInv
      <3>3. ins.dst = NoReg
        BY <2>1, <3>1, InstrFacts DEF TablesTyped, DstOps, BlockEndOps, RegionEndOps
      <3>4. Globals \subseteq Needed
        BY <3>1, <3>3, NeededLive, Names DEF Needed
      <3> QED
        BY <2>1, <3>2, <3>4 DEF ValuesWhereTracked
    <2> QED
      BY <2>2, <2>3
  <1> QED
    BY <1>1, AllocInvariant, PTL

\* Spill slots of locals never overlap and lie inside the frame of the stub.
THEOREM SlotsDisjoint == Spec => []FrameSlotsDisjoint
  <1>1. ASSUME Inv PROVE FrameSlotsDisjoint
    <2>1. TablesTyped /\ SlotInv
      BY <1>1 DEF Inv
    <2>2. ASSUME NEW v \in Locals, spill_offs[v] # NO_SPILL
          PROVE  spill_offs[v] + VSize[v] <= FrameSize
      <3>1. frame_cur \in 0 .. FrameSize /\ spill_offs[v] \in Nat
        BY <2>1, <2>2 DEF TablesTyped
      <3>2. FrameSize \in Nat /\ VSize[v] \in Nat
        BY RegAllocAssumption
      <3>3. spill_offs[v] + VSize[v] <= frame_cur
        BY <2>1, <2>2 DEF SlotInv
      <3> QED
        BY <3>1, <3>2, <3>3
    <2> QED
      BY <2>1, <2>2 DEF FrameSlotsDisjoint, SlotInv
  <1> QED
    BY <1>1, AllocInvariant, PTL

\* The allocator aborts only when a local finds no room in the spill frame.
THEOREM OnlyFullFramePanics == Spec => []PanicMeansFrameFull
  <1>1. Inv => PanicMeansFrameFull
    BY DEF Inv
  <1> QED
    BY <1>1, AllocInvariant, PTL
=============================================================================
