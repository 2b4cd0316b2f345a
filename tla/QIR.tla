-------------------------------- MODULE QIR --------------------------------
(***************************************************************************)
(* The IR containers: operands packed into one 64 bit word (VOperand),     *)
(* intrusive rings (util/ilist.h), blocks and regions (ir/qir.h), and the  *)
(* builder with its folder (ir/qir_builder.h, ir/qir_opt.cpp).             *)
(*                                                                         *)
(* A region is a record: insts holds every instruction ever created (its   *)
(* id is its index), ring links instructions and the sentinel -b of each   *)
(* block b, bring links blocks and the sentinel 0, succs gives each block's *)
(* successors and locals counts the temporaries.  Predecessors, which      *)
(* nothing reads, are left out.                                            *)
(***************************************************************************)
EXTENDS BitField, SequencesExt

-----------------------------------------------------------------------------
(* VOperand: kind, type and is_virtual, then the payload from bit 5 up *)

KConst == 0
KGpr == 1
KSlot == 2
I8 == 1
I16 == 2
I32 == 3

Make(kind, type) == Encode(Encode({}, 0, 1, kind), 2, 3, type)
MakeVGPR(type, reg) == Encode(Make(KGpr, type) \cup {4}, 5, 20, reg)

\* Mutant: a constant gets the 16 bits of a register number.
MakeConst16(type, n) == Encode(Make(KConst, type), 5, 20, n)

MakeConst(type, n) == Encode(Make(KConst, type), 5, 36, n)
MakeSlot(glob, type, offs) ==
  Encode(Make(KSlot, type), 5, 20, offs) \cup (IF glob THEN {21} ELSE {})

Kind(o) == Field(o, 0, 1)
IsConst(o) == Kind(o) = KConst
IsVGPR(o) == Kind(o) = KGpr /\ 4 \in o
IsGSlot(o) == Kind(o) = KSlot /\ 21 \in o
GetConst(o) == FieldS(o, 5, 36)
GetVGPR(o) == Field(o, 5, 20)
GetSlotOffs(o) == Field(o, 5, 20)

-----------------------------------------------------------------------------
(* Rings *)

\* f with x pointing to y.
Point(f, x, y) == [z \in DOMAIN f \cup {x} |-> IF z = x THEN y ELSE f[z]]

NewSentinel(r, s) == [next |-> Point(r.next, s, s), prev |-> Point(r.prev, s, s)]

\* IListBase::insertBefore
InsertBefore(r, nx, n) ==
  LET p == r.prev[nx]
  IN  [next |-> Point(Point(r.next, n, nx), p, n),
       prev |-> Point(Point(r.prev, n, p), nx, n)]

\* Mutant: the successor keeps its old predecessor.
UnlinkHalf(r, n) == [r EXCEPT !.next[r.prev[n]] = r.next[n]]

\* IListBase::remove: the node keeps its own links.
Unlink(r, n) ==
  [next |-> [r.next EXCEPT ![r.prev[n]] = r.next[n]],
   prev |-> [r.prev EXCEPT ![r.next[n]] = r.prev[n]]]

\* The nodes a loop from begin() to end() meets, s being the sentinel.
Walk(r, s) ==
  LET at[k \in Nat] == IF k = 0 THEN r.next[s] ELSE r.next[at[k - 1]]
      ends == {k \in 0 .. Cardinality(DOMAIN r.next) : at[k] = s}
  IN  IF ends = {} THEN <<>> ELSE [k \in 1 .. Min(ends) |-> at[k - 1]]

-----------------------------------------------------------------------------
(* Regions and blocks *)

\* A region with no block.
EmptyRegion ==
  [insts |-> <<>>, ring |-> [next |-> <<>>, prev |-> <<>>],
   bring |-> NewSentinel([next |-> <<>>, prev |-> <<>>], 0),
   succs |-> <<>>, locals |-> 0]

NumBlocks(R) == Len(R.succs)

\* Region::CreateBlock: the new block is NumBlocks + 1.
CreateBlock(R) ==
  LET b == NumBlocks(R) + 1
  IN  [R EXCEPT !.bring = InsertBefore(@, 0, b), !.ring = NewSentinel(@, -b),
                !.succs = Append(@, <<>>)]

AddSucc(R, b, s) == [R EXCEPT !.succs[b] = Append(@, s)]

\* x is what an instruction carries beside its operands; opr has the outputs
\* first.  at is the address of the guest instruction it was made for.
Inst(op, x, opr, at) == [op |-> op, x |-> x, opr |-> opr, at |-> at]

-----------------------------------------------------------------------------
(* Builder *)

\* Region::Create and ilist.insert.
Insert(R, it, i) ==
  [R EXCEPT !.insts = Append(@, i), !.ring = InsertBefore(@, it, Len(R.insts) + 1)]

\* FolderVisitor::visit_add swaps a constant into second place.
Canonical(i) ==
  IF i.op = "add" /\ IsConst(i.opr[2]) /\ ~IsConst(i.opr[3])
  THEN [i EXCEPT !.opr = <<@[1], @[3], @[2]>>] ELSE i

\* What visit_add replaces c by: <<>> when it keeps it.
MovOf(c) ==
  IF c.op # "add" \/ ~IsConst(c.opr[3]) THEN <<>>
  ELSE IF IsConst(c.opr[2])
       THEN <<c.opr[1], MakeConst(I32, AddU32(GetConst(c.opr[2]), GetConst(c.opr[3])))>>
  ELSE IF GetConst(c.opr[3]) = 0 THEN <<c.opr[1], c.opr[2]>>
  ELSE <<>>

FoldsTo(i) == MovOf(Canonical(i))

\* Builder::Create: insert in front of it, then fold, which puts a mov in
\* front of the instruction and erases the instruction.
Create(R, it, i) ==
  LET n == Len(R.insts) + 1
      f == FoldsTo(i)
      made == Insert(R, it, Canonical(i))
      moved == Insert(made, n, Inst("mov", "none", f, i.at))
  IN  IF f = <<>> THEN made ELSE [moved EXCEPT !.ring = Unlink(@, n)]

CreateAll(R, it, code) ==
  LET made[k \in 0 .. Len(code)] == IF k = 0 THEN R ELSE Create(made[k - 1], it, code[k])
  IN  made[Len(code)]

\* The instructions of block b in order.
Code(R, b) == Walk(R.ring, -b)

\* All instructions in the order of a pass over the region.
AllCode(R) == FlattenSeq([k \in 1 .. NumBlocks(R) |-> Code(R, Walk(R.bring, 0)[k])])
=============================================================================
