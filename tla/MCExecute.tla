------------------------------ MODULE MCExecute -----------------------------
(***************************************************************************)
(* Instances of Execute for TLC: an address space of four pages of four    *)
(* words, page 0 unmapped as on the real system, programs on pages 1       *)
(* and 2 (words 4 .. 11).  A program is a choice of an instruction per     *)
(* word from a small menu, so that one run covers many shapes of code:     *)
(* loops to a region's own entry, branches into the middle of an earlier   *)
(* block, code that runs over the page boundary, calls through a register  *)
(* whose targets collide in the L1 caches.                                 *)
(***************************************************************************)
EXTENDS Execute

I(op) == [op |-> op, tgt |-> 0]
J(op, a) == [op |-> op, tgt |-> a]

\* The program with these words from address 4 on; ebreak elsewhere.
Prog(words) ==
  [a \in Addr |-> IF a \in 4 .. 3 + Len(words) THEN words[a - 3]
                  ELSE I("ebreak")]

\* The first two targets of an indirect jump share an L1 entry (they are
\* congruent modulo L1Size), and 10 lies in the middle of straight code;
\* the third, where there is one, is the null address.
MCJumpTab == [v \in Val |-> CASE v = 0 -> 7 [] v = 1 -> 10 [] OTHER -> 0]

\* One target is the null address, the gip of an empty cache entry.
NullJumpTab == [v \in Val |-> IF v = 0 THEN 0 ELSE 9]

MCPrograms == {
  Prog(<<w4, w5, w6, w7, w8, w9, I("alu"), w11>>) :
    w4 \in {I("alu"), J("brcc", 6), J("jal", 8)},
    w5 \in {I("mem"), I("fencei"), I("jalr")},
    w6 \in {I("alu"), J("brcc", 5), J("jal", 4), I("ecall")},
    w7 \in {I("fence"), J("brcc", 10), I("jalr")},
    w8 \in {I("alu"), J("brcc", 8), J("jal", 6)},
    w9 \in {I("mem"), I("jalr"), J("jal", 15)},
    w11 \in {J("jal", 4), I("illegal"), I("ebreak"), J("brcc", 9)} }

\* Programs that store into their own code.
SmcPrograms == {
  Prog(<<I("mem"), w5, J("brcc", 4), w7, I("alu"), J("jal", 5)>>) :
    w5 \in {I("alu"), J("brcc", 8), I("fence")},
    w7 \in {I("jalr"), I("ecall"), I("mem")} }

SmcPatches == {<<5, J("jal", 9)>>, <<8, J("brcc", 7)>>}

\* Store, fence.i, then execute the changed word again.
FencePrograms == {
  Prog(<<I("alu"), I("mem"), I("fencei"), J("jal", 4)>>) }

FencePatches == {<<4, I("ebreak")>>}

\* Code on the last page, entered at its second word.
LastPagePrograms == {[a \in Addr |-> w] : w \in {I("alu"), I("ecall")}}

\* Regions with and without helpers, left by jal, brcc, jalr, ecall, ebreak
\* and by running into the next block.
FramePrograms == {
  Prog(<<I("alu"), w5, w6, w7, w8, I("mem"), I("alu"), w11>>) :
    w5 \in {I("fence"), J("brcc", 9)},
    w6 \in {J("brcc", 4), J("jal", 10), I("ecall")},
    w7 \in {I("mem"), I("jalr")},
    w8 \in {I("alu"), J("jal", 8)},
    w11 \in {I("jalr"), I("illegal")} }

\* fence.i without stores: what it must do after a store is another run's.
FenceIPrograms == {
  Prog(<<I("alu"), I("fencei"), w6, I("fence"), I("jalr"), I("ebreak")>>) :
    w6 \in {J("brcc", 4), I("jalr"), I("ecall")} }

MCFramePrograms == FramePrograms \cup FenceIPrograms \cup SmcPrograms

NoPatches == {}
=============================================================================
