----------------------------- MODULE FlowProofs -----------------------------
(***************************************************************************)
(* Host code follows the guest's control flow, for every program, entry    *)
(* and number of movs.                                                     *)
(*                                                                         *)
(* The argument has three layers.  The first block of a region is in the   *)
(* order of guest addresses and ends where the guest leaves, and the other *)
(* blocks are exits of its branch: translation builds this and a pass, by  *)
(* inserting at the address it is at, keeps it.  The host code is the      *)
(* blocks one after the other, one instruction for each of theirs, every   *)
(* block behind its label: so what stands behind an instruction is known,  *)
(* and a jump left out is one to there.  A run is then at a place of a     *)
(* block, and the guest is where that place says.                          *)
(***************************************************************************)
EXTENDS FrontendProofs

-----------------------------------------------------------------------------
(* The guest's control flow in the lists *)

\* The list of block b and the instruction at place j of it.
Size(reg, b) == Len(Code(reg, b))
Nth(reg, b, j) == reg.insts[Code(reg, b)[j]]
Ender(reg, b) == Nth(reg, b, Size(reg, b))

\* Where the guest goes from ip when it does not branch and when it does, and
\* from where c says it is.
Onward(ip) == GuestNext(ip, FALSE)
Branched(ip) == GuestNext(ip, TRUE)
Toward(c) == GuestNext(c.at, c.taken)

\* Where an instruction of the first block leaves to, if it does, is where the
\* guest goes from its address.
Fine(i) ==
  /\ i.at \in Int /\ i.at >= Entry
  /\ i.op = "gbrind" => AsmAt(i.at).op = "jalr"
  /\ i.op = "hcall" /\ i.x \in Raises => AsmAt(i.at).op \in Raises
  /\ i.op = "gbr" => GetConst(i.x) = Onward(i.at)
  /\ i.op = "br" => Onward(i.at) = Entry

\* The first block is in the order of the guest's code, up to address h.
Ordered(reg, h) ==
  \A j \in 1 .. Size(reg, 1) :
    /\ Fine(Nth(reg, 1, j)) /\ Nth(reg, 1, j).at <= h
    /\ \A l \in 1 .. j : Nth(reg, 1, l).at <= Nth(reg, 1, j).at

\* Block b is part of the branch at ip and leaves for x.
Exit(reg, b, ip, x) ==
  /\ b \in 2 .. NumBlocks(reg) /\ Size(reg, b) > 0
  /\ \A j \in 1 .. Size(reg, b) : Nth(reg, b, j).at = ip
  /\ GetConst(Ender(reg, b).x) = x

\* The successors of the branch at ip.
Forks(reg, ip) ==
  LET t == reg.succs[1][1]
  IN  /\ reg.succs[1][2] = 2 /\ Exit(reg, 2, ip, Onward(ip))
      /\ IF t = 1 THEN Branched(ip) = Entry ELSE Exit(reg, t, ip, Branched(ip))

\* The blocks follow the guest.
Flow(reg) ==
  LET i == Ender(reg, 1)
  IN  /\ Ordered(reg, i.at)
      /\ i.op = "br" => reg.succs[1][1] = 1
      /\ i.op = "brcc" => Forks(reg, i.at)
      /\ \A b \in 2 .. NumBlocks(reg) : Ender(reg, b).op = "gbr"

\* The host code of place j of block b, its label at place 0.
HostAt(reg, b, j) ==
  LET i == Nth(reg, b, j)
      h(k, x) == [k |-> k, x |-> x, at |-> i.at]
  IN  IF j = 0 THEN [k |-> "label", b |-> b]
      ELSE CASE i.op = "br" -> h("jmp", reg.succs[b][1])
             [] i.op = "brcc" -> h("jcc", reg.succs[b][1])
             [] i.op = "gbr" -> h("slot", GetConst(i.x))
             [] i.op = "gbrind" -> h("brind", 0)
             [] i.op = "hcall" -> h("call", i.x)
             [] OTHER -> h("op", Code(reg, b)[j])

\* c is the code up to place j of block b, and P gives the place each of it is
\* for: places follow each other, and every block has its label.
Laid(P, c, reg, b, j) ==
  /\ IsSeq(c) /\ Len(c) > 0 /\ P[1] = <<1, 0>> /\ P[Len(c)] = <<b, j>>
  /\ \A p \in 1 .. Len(c) : \E e \in 1 .. b : \E i \in 0 .. Size(reg, e) :
       /\ P[p] = <<e, i>> /\ c[p] = HostAt(reg, e, i)
       /\ p < Len(c) => P[p + 1] = IF i < Size(reg, e) THEN <<e, i + 1>> ELSE <<e + 1, 0>>
  /\ \A e \in 1 .. b : \E p \in 1 .. Len(c) : P[p] = <<e, 0>>

\* Where the guest is when host code is at place j of block b.
Guided(reg, b, j, c) ==
  IF b # 1 THEN c.at \in Int /\ Exit(reg, b, c.at, Toward(c))
  ELSE IF j = 0 THEN c = Start \/ Toward(c) = Entry
  ELSE c.taken = FALSE /\ c.at \in Int /\ c.at <= Nth(reg, 1, j).at

LEMMA ListsAre ==
  ASSUME NEW reg, NEW B, Shape(reg, B)
  PROVE  /\ NumBlocks(reg) = Len(B) /\ Len(B) \in Nat
         /\ \A b \in 1 .. Len(B) :
              Code(reg, b) = B[b] /\ Size(reg, b) = Len(B[b]) /\ Size(reg, b) \in Nat
  <1>1. NumBlocks(reg) = Len(B) /\ Len(B) \in Nat
    BY DEF Shape, Listing, NumBlocks
  <1>2. \A b \in 1 .. Len(B) : Code(reg, b) = B[b] /\ Len(B[b]) \in Nat
    BY CodeIs, InList
  <1> QED
    BY <1>1, <1>2 DEF Size

\* q is reg with what Create makes of body in front of place k of block b.
Grafted(q, reg, b, k, body) ==
  /\ NumBlocks(q) = NumBlocks(reg) /\ q.succs = reg.succs
  /\ Size(q, b) = Size(reg, b) + Len(body)
  /\ \A j \in 1 .. k - 1 : Nth(q, b, j) = Nth(reg, b, j)
  /\ \A l \in 1 .. Len(body) : Nth(q, b, k + l - 1) = Kept(body[l])
  /\ \A j \in k .. Size(reg, b) : Nth(q, b, j + Len(body)) = Nth(reg, b, j)
  /\ \A e \in 1 .. NumBlocks(reg) : e # b =>
       Size(q, e) = Size(reg, e) /\ \A j \in 1 .. Size(reg, e) : Nth(q, e, j) = Nth(reg, e, j)

LEMMA GraftIs ==
  ASSUME NEW q, NEW reg, NEW B, NEW W, Shape(reg, B), NEW b \in 1 .. Len(B), NEW k, NEW body,
         k \in 1 .. Len(B[b]) + 1, Spliced(q, reg, B, W, b, k, body)
  PROVE  Grafted(q, reg, b, k, body)
  <1>1. Shape(q, W) /\ Len(W) = Len(B) /\ q.succs = reg.succs
    BY DEF Spliced
  <1>2. /\ NumBlocks(reg) = Len(B) /\ Len(B) \in Nat /\ NumBlocks(q) = Len(B)
        /\ \A e \in 1 .. Len(B) : /\ Code(reg, e) = B[e] /\ Size(reg, e) = Len(B[e])
                                  /\ Code(q, e) = W[e] /\ Size(q, e) = Len(W[e])
                                  /\ Len(B[e]) \in Nat
    BY <1>1, ListsAre
  <1>3. Size(q, b) = Size(reg, b) + Len(body)
    BY <1>2 DEF Spliced
  <1>4. \A j \in 1 .. k - 1 : Nth(q, b, j) = Nth(reg, b, j)
    BY <1>2 DEF Spliced, Nth
  <1>5. \A l \in 1 .. Len(body) : Nth(q, b, k + l - 1) = Kept(body[l])
    BY <1>2 DEF Spliced, Nth
  <1>6. \A j \in k .. Size(reg, b) : Nth(q, b, j + Len(body)) = Nth(reg, b, j)
    BY SMTT(30), <1>2 DEF Spliced, Nth
  <1>7. ASSUME NEW e \in 1 .. NumBlocks(reg), e # b
        PROVE  Size(q, e) = Size(reg, e) /\ \A j \in 1 .. Size(reg, e) : Nth(q, e, j) = Nth(reg, e, j)
    <2>1. W[e] = B[e] /\ \A j \in 1 .. Len(B[e]) : q.insts[W[e][j]] = reg.insts[B[e][j]]
      BY <1>2, <1>7 DEF Spliced
    <2> QED
      BY <1>2, <2>1 DEF Nth
  <1> QED
    BY <1>1, <1>2, <1>3, <1>4, <1>5, <1>6, <1>7 DEF Grafted

\* Each place of the block is an old one or one of body.
LEMMA GraftPlaces ==
  ASSUME NEW q, NEW reg, NEW b, NEW k \in Nat, NEW body, Grafted(q, reg, b, k, body),
         Size(reg, b) \in Nat, Len(body) \in Nat, k \in 1 .. Size(reg, b) + 1
  PROVE  \A m \in 1 .. Size(q, b) :
           \/ m < k /\ m \in 1 .. Size(reg, b) /\ Nth(q, b, m) = Nth(reg, b, m)
           \/ /\ m >= k /\ m < k + Len(body) /\ (m - k) + 1 \in 1 .. Len(body)
              /\ Nth(q, b, m) = Kept(body[(m - k) + 1])
           \/ /\ m >= k + Len(body) /\ m - Len(body) \in k .. Size(reg, b)
              /\ Nth(q, b, m) = Nth(reg, b, m - Len(body))
  <1> DEFINE n == Len(body)
             s == Size(reg, b)
             x(m) == Nth(q, b, m)
             y(m) == Nth(reg, b, m)
             z(l) == Kept(body[l])
  <1>1. /\ n \in Nat /\ s \in Nat /\ k \in 1 .. s + 1 /\ Size(q, b) = s + n
        /\ \A j \in 1 .. k - 1 : x(j) = y(j)
        /\ \A l \in 1 .. n : x(k + l - 1) = z(l)
        /\ \A j \in k .. s : x(j + n) = y(j)
    BY DEF Grafted
  <1> HIDE DEF n, s, x, y, z
  <1>2. ASSUME NEW m \in 1 .. s + n
        PROVE  \/ m < k /\ m \in 1 .. s /\ x(m) = y(m)
               \/ m >= k /\ m < k + n /\ (m - k) + 1 \in 1 .. n /\ x(m) = z((m - k) + 1)
               \/ m >= k + n /\ m - n \in k .. s /\ x(m) = y(m - n)
    <2>1. CASE m < k
      BY <1>1, <2>1
    <2>2. CASE m >= k /\ m < k + n
      <3>1. (m - k) + 1 \in 1 .. n /\ k + ((m - k) + 1) - 1 = m
        BY <1>1, <2>2
      <3> QED
        BY <1>1, <2>2, <3>1
    <2>3. CASE m >= k + n
      <3>1. m - n \in k .. s /\ (m - n) + n = m
        BY <1>1, <2>3
      <3> QED
        BY <1>1, <2>3, <3>1
    <2> QED
      BY <1>1, <2>1, <2>2, <2>3
  <1> QED
    BY <1>1, <1>2 DEF n, s, x, y, z

\* The order is kept when instructions of an address are put where that
\* address stands.
LEMMA OrderedGraft ==
  ASSUME NEW q, NEW reg, NEW k \in Nat, NEW body, Grafted(q, reg, 1, k, body),
         Size(reg, 1) \in Nat, Len(body) \in Nat, k \in 1 .. Size(reg, 1) + 1,
         NEW h \in Int, NEW p \in Int, p <= h, Ordered(reg, h),
         \A l \in 1 .. Len(body) : Fine(Kept(body[l])) /\ Kept(body[l]).at = p,
         \A j \in 1 .. k - 1 : Nth(reg, 1, j).at <= p,
         \A j \in k .. Size(reg, 1) : p <= Nth(reg, 1, j).at
  PROVE  Ordered(q, h)
  <1> DEFINE n == Len(body)
             s == Size(reg, 1)
             x(m) == Nth(q, 1, m)
             y(m) == Nth(reg, 1, m)
             z(l) == Kept(body[l])
             at(i) == i.at
  <1>1. /\ n \in Nat /\ s \in Nat /\ k \in 1 .. s + 1 /\ Size(q, 1) = s + n
        /\ \A j \in 1 .. k - 1 : at(y(j)) <= p
        /\ \A j \in k .. s : p <= at(y(j))
        /\ \A l \in 1 .. n : Fine(z(l)) /\ at(z(l)) = p
    BY DEF Grafted
  <1>2. \A j \in 1 .. s : /\ Fine(y(j)) /\ at(y(j)) <= h /\ at(y(j)) \in Int
                          /\ \A l \in 1 .. j : at(y(l)) <= at(y(j))
    BY DEF Ordered, Fine
  <1>3. \A m \in 1 .. s + n :
           \/ m < k /\ m \in 1 .. s /\ x(m) = y(m)
           \/ m >= k /\ m < k + n /\ (m - k) + 1 \in 1 .. n /\ x(m) = z((m - k) + 1)
           \/ m >= k + n /\ m - n \in k .. s /\ x(m) = y(m - n)
    BY <1>1, GraftPlaces
  <1> HIDE DEF n, s, x, y, z, at
  <1>4. ASSUME NEW j \in 1 .. s + n
        PROVE  /\ Fine(x(j)) /\ at(x(j)) <= h
               /\ \A l \in 1 .. j : at(x(l)) <= at(x(j))
    <2>1. Fine(x(j)) /\ at(x(j)) <= h
      <3>1. \A m \in k .. s : m \in 1 .. s
        BY <1>1
      <3> QED
        BY <1>1, <1>2, <1>3, <3>1
    <2>2. ASSUME NEW l \in 1 .. j PROVE at(x(l)) <= at(x(j))
      <3>1. l \in 1 .. s + n /\ l <= j /\ j \in Int /\ l \in Int
        BY <1>1
      <3>2. CASE j < k
        <4>1. j \in 1 .. s /\ x(j) = y(j) /\ x(l) = y(l)
          BY <1>1, <1>3, <3>1, <3>2
        <4> QED
          BY <1>2, <4>1
      <3>3. CASE j >= k /\ j < k + n
        <4>1. at(x(j)) = p
          BY <1>1, <1>3, <3>1, <3>3
        <4>2. at(x(l)) <= p
          <5>1. CASE l < k
            <6>1. x(l) = y(l) /\ l \in 1 .. k - 1
              BY <1>1, <1>3, <3>1, <5>1
            <6> QED
              BY <1>1, <6>1
          <5>2. CASE l >= k
            <6>1. at(x(l)) = p
              BY <1>1, <1>3, <3>1, <3>3, <5>2
            <6> QED
              BY <6>1
          <5> QED
            BY <1>1, <3>1, <5>1, <5>2
        <4> QED
          BY <4>1, <4>2
      <3>4. CASE j >= k + n
        <4>1. j - n \in k .. s /\ j - n \in 1 .. s /\ x(j) = y(j - n)
          BY <1>1, <1>3, <3>1, <3>4
        <4>2. p <= at(y(j - n)) /\ at(y(j - n)) \in Int
          BY <1>1, <1>2, <4>1
        <4>3. CASE l < k
          <5>1. x(l) = y(l) /\ l \in 1 .. k - 1 /\ l \in 1 .. (j - n)
            BY <1>1, <1>3, <3>1, <3>4, <4>1, <4>3
          <5> QED
            BY <1>2, <4>1, <5>1
        <4>4. CASE l >= k /\ l < k + n
          <5>1. at(x(l)) = p
            BY <1>1, <1>3, <3>1, <4>4
          <5> QED
            BY <4>1, <4>2, <5>1
        <4>5. CASE l >= k + n
          <5>1. x(l) = y(l - n) /\ l - n \in 1 .. (j - n)
            BY <1>1, <1>3, <3>1, <3>4, <4>5
          <5> QED
            BY <1>2, <4>1, <5>1
        <4> QED
          BY <1>1, <3>1, <4>3, <4>4, <4>5
      <3> QED
        BY <1>1, <3>1, <3>2, <3>3, <3>4
    <2> QED
      BY <2>1, <2>2
  <1>5. \A j \in 1 .. Size(q, 1) : /\ Fine(x(j)) /\ at(x(j)) <= h
                                   /\ \A l \in 1 .. j : at(x(l)) <= at(x(j))
    BY <1>1, <1>4
  <1> QED
    BY <1>5 DEF Ordered, x, at

\* Body behind the last place of block b.
LEMMA AppendGrafts ==
  ASSUME NEW reg, NEW B, Shape(reg, B), NEW b \in 1 .. Len(B),
         NEW body, IsSeq(body), \A l \in 1 .. Len(body) : IsInst(body[l])
  PROVE  Grafted(CreateAll(reg, -b, body), reg, b, Size(reg, b) + 1, body)
  <1> DEFINE k == Len(B[b]) + 1
             q == CreateAll(reg, -b, body)
  <1>1. Len(B[b]) \in Nat /\ Size(reg, b) = Len(B[b])
    BY ListsAre
  <1>2. k \in 1 .. Len(B[b]) + 1 /\ Node(-b, B[b], k) = -b
    BY <1>1 DEF Node
  <1>3. PICK W : Spliced(CreateAll(reg, Node(-b, B[b], k), body), reg, B, W, b, k, body)
    BY <1>2, GrowIs
  <1> HIDE DEF k
  <1>4. Grafted(q, reg, b, k, body)
    BY <1>2, <1>3, GraftIs
  <1> QED
    BY <1>1, <1>4 DEF k

\* Instructions of an address behind the first block, which was up to one
\* before it.
LEMMA AppendOrdered ==
  ASSUME NEW reg, NEW B, Shape(reg, B), Len(B) > 0, NEW h \in Int, NEW ip \in Int, h <= ip,
         Ordered(reg, h), NEW body, IsSeq(body),
         \A l \in 1 .. Len(body) :
           IsInst(body[l]) /\ Fine(Kept(body[l])) /\ Kept(body[l]).at = ip
  PROVE  LET q == CreateAll(reg, -1, body)
         IN  /\ Ordered(q, ip) /\ Grafted(q, reg, 1, Size(reg, 1) + 1, body)
             /\ Size(reg, 1) \in Nat
  <1> DEFINE q == CreateAll(reg, -1, body)
             b == 1
             s == Size(reg, 1)
             k == s + 1
  <1>1. b \in 1 .. Len(B) /\ s \in Nat /\ Len(body) \in Nat
    BY ListsAre, AppendSeq
  <1>2. Grafted(q, reg, 1, k, body)
    <2> HIDE DEF b
    <2>1. Grafted(CreateAll(reg, -b, body), reg, b, Size(reg, b) + 1, body)
      BY <1>1, AppendGrafts
    <2> QED
      BY <2>1 DEF b
  <1>3. \A j \in 1 .. s : Fine(Nth(reg, 1, j)) /\ Nth(reg, 1, j).at <= h /\ Nth(reg, 1, j).at \in Int
    BY DEF Ordered, Fine
  <1>4. Ordered(reg, ip)
    <2>1. \A j \in 1 .. s : Nth(reg, 1, j).at <= ip
      BY <1>3
    <2> QED
      BY <2>1 DEF Ordered
  <1> HIDE DEF q, s
  <1>5. /\ \A j \in 1 .. k - 1 : Nth(reg, 1, j).at <= ip
        /\ \A j \in k .. s : ip <= Nth(reg, 1, j).at
        /\ k \in Nat /\ k \in 1 .. s + 1
    BY <1>1, <1>3
  <1>6. Ordered(q, ip)
    <2> HIDE DEF k
    <2> QED
      BY <1>1, <1>2, <1>4, <1>5, OrderedGraft DEF s
  <1> QED
    BY <1>1, <1>2, <1>6 DEF q, s

\* A jump behind the first block.
LEMMA AppendOne ==
  ASSUME NEW reg, NEW B, Shape(reg, B), Len(B) > 0, NEW h \in Int, NEW ip \in Int, h <= ip,
         Ordered(reg, h), NEW i, IsInst(i), Fine(i), i.at = ip, i.op # "add"
  PROVE  LET q == Create(reg, -1, i)
         IN  /\ Ordered(q, ip) /\ Ender(q, 1) = i
             /\ NumBlocks(q) = NumBlocks(reg) /\ q.succs = reg.succs
             /\ \A e \in 2 .. NumBlocks(reg) :
                  Size(q, e) = Size(reg, e) /\ \A j \in 1 .. Size(reg, e) : Nth(q, e, j) = Nth(reg, e, j)
  <1> DEFINE body == <<i>>
             q == Create(reg, -1, i)
  <1>1. Kept(i) = i
    BY DEF Kept, FoldsTo, MovOf, Canonical
  <1>2. IsSeq(body) /\ Len(body) = 1 /\ body[1] = i
    BY PlainOne
  <1>3. CreateAll(reg, -1, body) = q
    BY CreateAllOne
  <1> HIDE DEF body, q
  <1>4. /\ Ordered(q, ip) /\ Grafted(q, reg, 1, Size(reg, 1) + 1, body) /\ Size(reg, 1) \in Nat
    <2>1. \A l \in 1 .. Len(body) :
            IsInst(body[l]) /\ Fine(Kept(body[l])) /\ Kept(body[l]).at = ip
      BY <1>1, <1>2
    <2> QED
      BY <1>2, <1>3, <2>1, AppendOrdered
  <1>5. Size(q, 1) = Size(reg, 1) + 1 /\ Nth(q, 1, (Size(reg, 1) + 1) + 1 - 1) = i
    BY <1>1, <1>2, <1>4 DEF Grafted
  <1>6. Ender(q, 1) = i
    BY <1>4, <1>5 DEF Ender
  <1>7. \A e \in 2 .. NumBlocks(reg) : e \in 1 .. NumBlocks(reg) /\ e # 1
    <2>1. NumBlocks(reg) \in Nat
      BY ListsAre
    <2> QED
      BY <2>1
  <1> QED
    BY <1>4, <1>6, <1>7 DEF Grafted, q

\* The fields of AddSucc.
LEMMA AddSuccKeeps ==
  ASSUME NEW reg, NEW B, Shape(reg, B), Len(B) > 0, NEW s
  PROVE  LET q == AddSucc(reg, 1, s)
         IN  /\ Shape(q, B) /\ NumBlocks(q) = NumBlocks(reg)
             /\ q.succs[1] = Append(reg.succs[1], s)
             /\ \A e : Size(q, e) = Size(reg, e) /\ \A j : Nth(q, e, j) = Nth(reg, e, j)
  <1> DEFINE q == AddSucc(reg, 1, s)
  <1>1. Len(B) \in Nat /\ 1 \in 1 .. Len(B) /\ Len(reg.succs) = Len(B) /\ Record(reg)
    BY DEF Shape, Listing
  <1>2. SuccAdded(q, reg, B, 1, s)
    <2> DEFINE b == 1
    <2>1. b \in 1 .. Len(B)
      BY <1>1
    <2> HIDE DEF b
    <2>2. SuccAdded(AddSucc(reg, b, s), reg, B, b, s)
      BY <2>1, AddSuccShape
    <2> QED
      BY <2>2 DEF b
  <1>3. q.ring = reg.ring
    BY <1>1 DEF AddSucc, Record
  <1>4. DOMAIN reg.succs = 1 .. Len(B)
    BY <1>1, AppendSeq DEF Record
  <1> HIDE DEF q
  <1>5. q.succs[1] = Append(reg.succs[1], s) /\ Len(q.succs) = Len(B)
    BY <1>1, <1>2, <1>4 DEF SuccAdded, Shape, Listing
  <1>6. \A e : Code(q, e) = Code(reg, e)
    BY <1>3 DEF Code
  <1> QED
    BY <1>1, <1>2, <1>5, <1>6 DEF SuccAdded, NumBlocks, Size, Nth, q

\* The region while it is translated: its first block alone, up to address h.
Track(reg, h) == (\E B : Translating(reg, B)) /\ NumBlocks(reg) = 1 /\ Ordered(reg, h)

LEMMA TrackIs ==
  ASSUME NEW reg, NEW B, Translating(reg, B)
  PROVE  Shape(reg, B) /\ Len(B) > 0 /\ reg.succs[1] = <<>> /\ Size(reg, 1) \in Nat
  <1>1. Shape(reg, B) /\ Len(B) > 0 /\ reg.succs[1] = <<>> /\ Len(B) \in Nat
    BY DEF Translating, Growing, Shape, Listing
  <1>2. 1 \in 1 .. Len(B)
    BY <1>1
  <1> QED
    BY <1>1, <1>2, ListsAre

\* MakeGBr to where the guest goes.
LEMMA MakeGBrFlow ==
  ASSUME NEW reg, NEW h \in Int, NEW ip \in Int, h <= ip, Track(reg, h), ip >= Entry,
         NEW to, U32(to), to = Onward(ip)
  PROVE  Flow(MakeGBr(reg, 1, to, ip))
  <1>1. PICK B : Translating(reg, B)
    BY DEF Track
  <1>2. Shape(reg, B) /\ Len(B) > 0 /\ reg.succs[1] = <<>> /\ NumBlocks(reg) = 1 /\ Ordered(reg, h)
    BY <1>1, TrackIs DEF Track
  <1>3. CASE to = Entry
    <2> DEFINE i == Inst("br", "none", <<>>, ip)
               q == Create(reg, -1, i)
               p == AddSucc(q, 1, 1)
    <2>1. i.op = "br" /\ i.at = ip /\ IsInst(i) /\ i.op # "add"
      BY DEF Inst, IsInst
    <2>2. MakeGBr(reg, 1, to, ip) = p
      <3>1. ip2bb(to) = 1
        BY <1>3 DEF ip2bb
      <3>2. MakeGBr(reg, 1, to, ip) = AddSucc(q, 1, ip2bb(to))
        BY <3>1 DEF MakeGBr
      <3> QED
        BY <3>1, <3>2
    <2>3. BlockEnds(i) /\ Fine(i)
      BY <1>3, <2>1 DEF Fine, BlockEnds
    <2> HIDE DEF i
    <2>4. PICK W : Jumping(q, W, Succs(i))
      BY <1>1, <2>1, <2>3, JumpAtEnd
    <2>5. Ordered(q, ip) /\ Ender(q, 1) = i /\ NumBlocks(q) = 1 /\ q.succs[1] = <<>>
      BY <1>2, <2>1, <2>3, AppendOne
    <2> HIDE DEF q
    <2>6. /\ NumBlocks(p) = 1 /\ p.succs[1] = Append(<<>>, 1)
          /\ \A e : Size(p, e) = Size(q, e) /\ \A j : Nth(p, e, j) = Nth(q, e, j)
      BY <2>4, <2>5, AddSuccKeeps DEF Jumping
    <2> HIDE DEF p
    <2>7. p.succs[1][1] = 1 /\ Ender(p, 1) = i /\ Ordered(p, ip)
      BY <2>5, <2>6 DEF Ender, Ordered
    <2>8. \A e \in 2 .. NumBlocks(p) : FALSE
      BY <2>6
    <2> QED
      BY <2>1, <2>2, <2>7, <2>8 DEF Flow
  <1>4. CASE to # Entry
    <2> DEFINE i == Gbr(to, ip)
               q == Create(reg, -1, i)
    <2>1. i.op = "gbr" /\ i.at = ip /\ IsInst(i) /\ i.op # "add" /\ i.x = vconst(to)
      BY DEF Gbr, Inst, IsInst
    <2>2. MakeGBr(reg, 1, to, ip) = q
      BY <1>4 DEF MakeGBr, ip2bb
    <2>3. Fine(i)
      BY <2>1, VconstIs DEF Fine
    <2> HIDE DEF i
    <2>4. Ordered(q, ip) /\ Ender(q, 1) = i /\ NumBlocks(q) = 1
      BY <1>2, <2>1, <2>3, AppendOne
    <2> HIDE DEF q
    <2>5. \A e \in 2 .. NumBlocks(q) : FALSE
      BY <2>4
    <2> QED
      BY <2>1, <2>2, <2>4, <2>5 DEF Flow
  <1> QED
    BY <1>3, <1>4

\* The first n blocks of q are those of reg.
Same(q, reg, n) ==
  \A e \in 1 .. n : Size(q, e) = Size(reg, e) /\ \A j \in 1 .. Size(reg, e) : Nth(q, e, j) = Nth(reg, e, j)

\* Block b of reg is the exit of the branch at ip to x.
Target(reg, b, ip, x) ==
  /\ b \in 2 .. NumBlocks(reg) /\ Size(reg, b) = 1
  /\ Nth(reg, b, 1).op = "gbr" /\ Nth(reg, b, 1).at = ip /\ GetConst(Nth(reg, b, 1).x) = x

\* make_target adds one block.
LEMMA MakeTargetFlow ==
  ASSUME NEW reg, NEW B, Translating(reg, B), NEW ip, NEW to, U32(to), to # Entry
  PROVE  LET q == MakeTarget(reg, to, ip)
         IN  /\ NumBlocks(q) = NumBlocks(reg) + 1 /\ Same(q, reg, NumBlocks(reg))
             /\ Target(q, NumBlocks(reg) + 1, ip, to)
  <1> DEFINE n == Len(B)
             b == n + 1
             D == Append(B, <<>>)
             made == CreateBlock(reg)
             i == Gbr(to, ip)
             body == <<i>>
             q == Create(made, -b, i)
  <1>1. /\ Shape(reg, B) /\ n > 0 /\ n \in Nat /\ 1 \in 1 .. n /\ B \in Seq(Seq(Pos))
        /\ NumBlocks(reg) = n /\ Chain(reg.ring, Nodes(reg), -1, B[1]) /\ IsSeq(reg.succs)
    <2>1. Shape(reg, B) /\ n > 0
      BY DEF Translating
    <2>2. NumBlocks(reg) = n /\ n \in Nat
      BY <2>1, ListsAre
    <2>3. 1 \in 1 .. n
      BY <2>1, <2>2
    <2>4. /\ B \in Seq(Seq(Pos)) /\ IsSeq(reg.succs)
          /\ \A e \in 1 .. n : Chain(reg.ring, Nodes(reg), -e, B[e])
      BY <2>1 DEF Shape, Listing, Record
    <2> QED
      BY <2>1, <2>2, <2>3, <2>4
  <1>2. Ring(reg.ring, Nodes(reg))
    BY <1>1 DEF Chain
  <1>3. Shape(made, D) /\ made.insts = reg.insts /\ made.succs = Append(reg.succs, <<>>)
    BY <1>1, <1>2, CreateBlockShape
  <1>4. NumBlocks(made) = b
    BY <1>1, <1>3, AppendSeq DEF NumBlocks
  <1>5. MakeTarget(reg, to, ip) = q
    BY <1>4 DEF MakeTarget, ip2bb
  <1>6. i.op = "gbr" /\ i.at = ip /\ i.x = vconst(to) /\ IsInst(i) /\ Kept(i) = i
    BY DEF Gbr, Inst, IsInst, Kept, FoldsTo, MovOf, Canonical
  <1>7. Len(D) = b /\ D[b] = <<>> /\ Len(D[b]) = 0 /\ \A e \in 1 .. n : D[e] = B[e]
    <2>1. <<>> \in Seq(Pos) /\ Len(<<>>) = 0
      OBVIOUS
    <2> QED
      BY <1>1, <2>1
  <1>8. IsSeq(body) /\ Len(body) = 1 /\ body[1] = i
    BY PlainOne
  <1>9. CreateAll(made, -b, body) = q
    BY CreateAllOne
  <1>10. GetConst(vconst(to)) = to
    BY VconstIs
  <1>11. b \in 1 .. Len(D) /\ b \in 2 .. b
    BY <1>1, <1>7
  <1> HIDE DEF made, D, i, body, q, b
  <1>12. Size(made, b) = 0 /\ \A e \in 1 .. n : e \in 1 .. Len(D) /\ e # b /\ Code(made, e) = Code(reg, e)
    <2>1. \A e \in 1 .. n : e \in 1 .. b /\ e # b
      BY <1>1 DEF b
    <2>2. /\ \A e \in 1 .. b : Code(made, e) = D[e] /\ Size(made, e) = Len(D[e])
          /\ \A e \in 1 .. n : Code(reg, e) = B[e]
      BY <1>1, <1>3, <1>7, ListsAre
    <2> QED
      BY <1>7, <1>11, <2>1, <2>2
  <1>13. Grafted(q, made, b, Size(made, b) + 1, body)
    BY <1>3, <1>6, <1>8, <1>9, <1>11, AppendGrafts
  <1>14. NumBlocks(q) = b /\ Size(q, b) = 1 /\ Nth(q, b, 1) = i
    <2>1. Size(q, b) = 0 + 1 /\ Nth(q, b, (0 + 1) + 1 - 1) = i
      BY <1>6, <1>8, <1>12, <1>13 DEF Grafted
    <2> QED
      BY <1>4, <1>13, <2>1 DEF Grafted
  <1>15. Same(q, reg, n)
    <2>1. Same(made, reg, n)
      BY <1>3, <1>12 DEF Same, Size, Nth
    <2>2. \A e \in 1 .. n : e \in 1 .. NumBlocks(made) /\ e # b
      BY <1>4, <1>7, <1>12
    <2> QED
      BY <1>13, <2>1, <2>2 DEF Grafted, Same
  <1> QED
    BY <1>1, <1>5, <1>6, <1>10, <1>11, <1>14, <1>15 DEF Target, b, q

\* TranslateBrcc: the fall-through block is the second, the taken one the
\* first or the third.
LEMMA TranslateBrccFlow ==
  ASSUME NEW reg, NEW h \in Int, NEW ip \in Int, h <= ip, Track(reg, h), ip >= Entry, Entry \in Int,
         NEW i, U32(ip + 4), U32(AddU32(ip, i.imm)),
         Onward(ip) = ip + 4, Branched(ip) = AddU32(ip, i.imm)
  PROVE  Flow(TranslateBrcc(reg, 1, i, ip))
  <1> DEFINE jump == AddU32(ip, i.imm)
             next == ip + 4
             withF == MakeTarget(reg, next, ip)
             withT == MakeTarget(withF, jump, ip)
             brcc == Inst("brcc", Cc(i.op), <<gprop(i.rs1, I32), gprop(i.rs2, I32)>>, ip)
             src == Create(withT, -1, brcc)
             t == TargetBlock(withT, jump)
             f == TargetBlock(withF, next)
             one == AddSucc(src, 1, t)
             q == AddSucc(one, 1, f)
  <1>0. TranslateBrcc(reg, 1, i, ip) = q
    BY DEF TranslateBrcc
  <1>1. brcc.op = "brcc" /\ brcc.at = ip /\ IsInst(brcc) /\ brcc.op # "add" /\ BlockEnds(brcc)
    BY DEF Inst, IsInst, BlockEnds
  <1>2. Fine(brcc)
    BY <1>1 DEF Fine
  <1>3. next \in Int /\ next # Entry
    OBVIOUS
  <1>4. NumBlocks(reg) = 1 /\ Ordered(reg, h) /\ \E B : Translating(reg, B)
    BY DEF Track
  <1>5. (ip2bb(jump) # 0 <=> jump = Entry) /\ (jump = Entry => ip2bb(jump) = 1) /\ ip2bb(next) = 0
    BY <1>3 DEF ip2bb
  <1>6. Onward(ip) = next /\ Branched(ip) = jump /\ U32(next) /\ U32(jump)
    OBVIOUS
  <1> HIDE DEF brcc, jump, next
  <1>7. NumBlocks(withF) = 2 /\ Same(withF, reg, 1) /\ Target(withF, 2, ip, next)
    <2>1. /\ NumBlocks(withF) = 1 + 1 /\ Same(withF, reg, 1) /\ Target(withF, 1 + 1, ip, next)
      BY <1>3, <1>4, <1>6, MakeTargetFlow
    <2> QED
      BY <2>1
  <1>8. f = 2
    BY <1>5, <1>7 DEF TargetBlock
  <1>9. PICK F : Translating(withF, F)
    BY <1>4, MakeTargetTranslating
  <1> HIDE DEF withF, f
  <1>10. /\ NumBlocks(withT) \in {2, 3} /\ Same(withT, withF, 2)
         /\ IF jump = Entry THEN NumBlocks(withT) = 2 /\ t = 1
            ELSE NumBlocks(withT) = 3 /\ t = 3 /\ Target(withT, 3, ip, jump)
    <2>1. CASE jump = Entry
      <3>1. withT = withF /\ t = 1
        BY <1>5, <2>1 DEF MakeTarget, TargetBlock
      <3>2. Same(withF, withF, 2)
        BY DEF Same
      <3> QED
        BY <1>7, <2>1, <3>1, <3>2
    <2>2. CASE jump # Entry
      <3>1. NumBlocks(withT) = 2 + 1 /\ Same(withT, withF, 2) /\ Target(withT, 2 + 1, ip, jump)
        BY <1>6, <1>7, <1>9, <2>2, MakeTargetFlow
      <3>2. t = NumBlocks(withT)
        BY <1>5, <2>2 DEF TargetBlock
      <3> QED
        BY <2>2, <3>1, <3>2
    <2> QED
      BY <2>1, <2>2
  <1>11. PICK T : Translating(withT, T)
    BY <1>9, MakeTargetTranslating
  <1> HIDE DEF withT, t
  <1>12. Shape(withT, T) /\ Len(T) > 0 /\ withT.succs[1] = <<>>
    BY <1>11, TrackIs
  <1>13. Ordered(withT, h) /\ Target(withT, 2, ip, next)
    <2>1. /\ Size(withF, 1) = Size(reg, 1) /\ Size(withT, 1) = Size(withF, 1)
          /\ \A j \in 1 .. Size(reg, 1) : Nth(withF, 1, j) = Nth(reg, 1, j)
          /\ \A j \in 1 .. Size(withF, 1) : Nth(withT, 1, j) = Nth(withF, 1, j)
          /\ Size(withT, 2) = Size(withF, 2)
          /\ \A j \in 1 .. Size(withF, 2) : Nth(withT, 2, j) = Nth(withF, 2, j)
      BY <1>7, <1>10 DEF Same
    <2>2. Size(reg, 1) \in Nat
      BY <1>4, TrackIs
    <2>3. \A j \in 1 .. Size(reg, 1) : \A l \in 1 .. j : l \in 1 .. Size(reg, 1)
      BY <2>2
    <2>4. Ordered(withT, h)
      BY <1>4, <2>1, <2>3 DEF Ordered
    <2>5. 2 \in 2 .. NumBlocks(withT) /\ Size(withT, 2) = 1 /\ Nth(withT, 2, 1) = Nth(withF, 2, 1)
      BY <1>7, <1>10, <2>1 DEF Target
    <2> QED
      BY <1>7, <2>4, <2>5 DEF Target
  <1>14. /\ Ordered(src, ip) /\ Ender(src, 1) = brcc /\ NumBlocks(src) = NumBlocks(withT)
         /\ src.succs[1] = <<>>
         /\ \A e \in 2 .. NumBlocks(withT) :
              Size(src, e) = Size(withT, e) /\ \A j \in 1 .. Size(withT, e) : Nth(src, e, j) = Nth(withT, e, j)
    BY <1>1, <1>2, <1>12, <1>13, AppendOne
  <1>15. PICK W : Jumping(src, W, Succs(brcc))
    BY <1>1, <1>11, JumpAtEnd
  <1> HIDE DEF src
  <1>16. /\ Shape(one, W) /\ NumBlocks(one) = NumBlocks(src) /\ one.succs[1] = Append(<<>>, t)
         /\ \A e : Size(one, e) = Size(src, e) /\ \A j : Nth(one, e, j) = Nth(src, e, j)
    BY <1>14, <1>15, AddSuccKeeps DEF Jumping
  <1>17. Shape(one, W) /\ Len(W) > 0
    BY <1>15, <1>16 DEF Jumping
  <1> HIDE DEF one
  <1>18. /\ NumBlocks(q) = NumBlocks(one) /\ q.succs[1] = Append(one.succs[1], f)
         /\ \A e : Size(q, e) = Size(one, e) /\ \A j : Nth(q, e, j) = Nth(one, e, j)
    BY <1>17, AddSuccKeeps
  <1> HIDE DEF q
  <1>19. q.succs[1][1] = t /\ q.succs[1][2] = 2
    BY <1>8, <1>16, <1>18
  <1>20. /\ Ordered(q, ip) /\ Ender(q, 1) = brcc /\ NumBlocks(q) = NumBlocks(withT)
         /\ \A e \in 2 .. NumBlocks(q) :
              Size(q, e) = Size(withT, e) /\ \A j \in 1 .. Size(withT, e) : Nth(q, e, j) = Nth(withT, e, j)
    BY <1>14, <1>16, <1>18 DEF Ordered, Ender
  <1>21. ASSUME NEW e \in 2 .. NumBlocks(q), NEW x, Target(withT, e, ip, x)
         PROVE  Exit(q, e, ip, x) /\ Ender(q, e).op = "gbr"
    <2>1. Size(q, e) = 1 /\ Nth(q, e, 1) = Nth(withT, e, 1) /\ 1 .. 1 = {1}
      BY <1>20, <1>21 DEF Target
    <2> QED
      BY <1>21, <2>1 DEF Target, Exit, Ender
  <1>22. Exit(q, 2, ip, next) /\ Ender(q, 2).op = "gbr"
    BY <1>10, <1>13, <1>20, <1>21
  <1>23. jump # Entry => Exit(q, 3, ip, jump) /\ Ender(q, 3).op = "gbr"
    BY <1>10, <1>20, <1>21
  <1>24. Forks(q, ip)
    BY <1>6, <1>10, <1>19, <1>22, <1>23 DEF Forks
  <1>25. \A e \in 2 .. NumBlocks(q) : Ender(q, e).op = "gbr"
    <2>1. ASSUME NEW e \in 2 .. NumBlocks(q) PROVE e = 2 \/ (e = 3 /\ jump # Entry)
      BY <1>10, <1>20
    <2> QED
      BY <1>22, <1>23, <2>1
  <1>26. Flow(q)
    BY <1>1, <1>20, <1>24, <1>25 DEF Flow
  <1> QED
    BY <1>0, <1>26

\* i ends a block only if a does.
Tells(i, a) ==
  BlockEnds(i) => \/ i.op = "gbrind" /\ a.op = "jalr"
                  \/ i.op = "hcall" /\ a.op \in Raises

LEMMA PairSeq ==
  ASSUME NEW x, NEW y
  PROVE  IsSeq(<<x, y>>)
  <1>1. <<x, y>> \in Seq({x, y}) /\ DOMAIN <<x, y>> = {1, 2} /\ <<x, y>>[1] = x /\ <<x, y>>[2] = y
    OBVIOUS
  <1>2. Range(<<x, y>>) = {x, y}
    BY <1>1 DEF Range
  <1> QED
    BY <1>1, <1>2 DEF IsSeq

LEMMA JoinLast ==
  ASSUME NEW x, NEW y, IsSeq(x), IsSeq(y), Len(y) > 0
  PROVE  IsSeq(x \o y) /\ Len(x \o y) > 0 /\ (x \o y)[Len(x \o y)] = y[Len(y)]
  <1> DEFINE m == Len(x)
             n == Len(y)
             z == x \o y
  <1>1. /\ IsSeq(z) /\ m \in Nat /\ n \in Nat /\ n > 0 /\ Len(z) = m + n
        /\ \A k \in m + 1 .. m + n : z[k] = y[k - m]
    BY JoinSeq
  <1> HIDE DEF m, n, z
  <1>2. m + n \in m + 1 .. m + n /\ (m + n) - m = n /\ m + n > 0
    BY <1>1
  <1>3. z[m + n] = y[n]
    BY <1>1, <1>2
  <1> QED
    BY <1>1, <1>2, <1>3 DEF m, n, z

\* The last instruction made for a that ends its block tells it.
LEMMA LastTells ==
  ASSUME NEW a, a.op \in {"jalr", "ecall", "ebreak"}, NEW ip, NEW t, NEW raw, IsSeq(PreSideeff(a, ip))
  PROVE  LET s == Body(a, ip, t, raw) IN Len(s) > 0 /\ Tells(s[Len(s)], a)
  <1> DEFINE pre == PreSideeff(a, ip)
             c == V_code(a, ip, t, raw)
             s == Body(a, ip, t, raw)
  <1>1. s = pre \o c
    BY DEF Body
  <1>2. IsSeq(c) /\ Len(c) > 0 /\ Tells(c[Len(c)], a)
    <2>1. CASE a.op = "jalr"
      <3> DEFINE sum == Inst("add", "none", <<t, gprop(a.rs1, I32), vconst(a.imm)>>, ip)
                 mask == Inst("and", "none", <<t, t, vconst(-2)>>, ip)
                 go == Inst("gbrind", "none", <<t>>, ip)
                 link == MovTo(a, ip + 4, ip)
      <3>1. c = V_jalr(a, ip, t)
        BY <2>1 DEF V_code, ArithOps, SetccOps, ShiftImmOps, RegOps, LoadOps, StoreOps, HelperOps
      <3>2. V_jalr(a, ip, t) = (<<sum, mask>> \o link) \o <<go>>
        BY DEF V_jalr
      <3>3. IsSeq(link) /\ go.op = "gbrind"
        BY MovToPlain DEF Plain, Inst
      <3> HIDE DEF sum, mask, go, link, c
      <3>4. IsSeq(<<sum, mask>>)
        BY PairSeq
      <3>5. IsSeq(<<sum, mask>> \o link)
        BY <3>3, <3>4, JoinSeq
      <3>6. IsSeq(<<go>>) /\ Len(<<go>>) = 1 /\ <<go>>[1] = go /\ 1 > 0
        BY PlainOne
      <3>7. IsSeq(c) /\ Len(c) > 0 /\ c[Len(c)] = go
        <4> DEFINE x == <<sum, mask>> \o link
                   y == <<go>>
        <4>1. c = x \o y /\ IsSeq(x) /\ IsSeq(y) /\ Len(y) > 0 /\ y[Len(y)] = go
          BY <3>1, <3>2, <3>5, <3>6
        <4> HIDE DEF x, y
        <4> QED
          BY <4>1, JoinLast
      <3>8. Tells(go, a)
        BY <2>1, <3>3 DEF Tells
      <3> QED
        BY <3>7, <3>8
    <2>2. CASE a.op \in {"ecall", "ebreak"}
      <3> DEFINE call == Inst("hcall", a.op, <<vconst(raw)>>, ip)
      <3>1. c = <<call>>
        BY <2>2 DEF V_code, V_helper, ArithOps, SetccOps, ShiftImmOps, RegOps, LoadOps, StoreOps, HelperOps
      <3>2. call.op = "hcall"
        BY DEF Inst
      <3> HIDE DEF call, c
      <3>3. IsSeq(c) /\ Len(c) = 1 /\ c[1] = call
        BY <3>1, PlainOne
      <3> QED
        BY <2>2, <3>2, <3>3 DEF Tells, Raises
    <2> QED
      BY <2>1, <2>2
  <1> HIDE DEF pre, c, s
  <1>3. Len(pre \o c) > 0 /\ (pre \o c)[Len(pre \o c)] = c[Len(c)]
    BY <1>2, JoinLast DEF pre
  <1> QED
    BY <1>1, <1>2, <1>3 DEF s

\* What the translators make for the instruction at ip goes where the guest
\* does.
LEMMA BodyFine ==
  ASSUME NEW ip, Guest(AsmAt(ip), ip), ip \in Int, ip >= Entry, NEW t, IsTemp(t)
  PROVE  LET s == Body(AsmAt(ip), ip, t, FieldS(Assemble(AsmAt(ip)), 0, 31))
         IN  IsSeq(s) /\ \A l \in 1 .. Len(s) :
                           IsInst(s[l]) /\ Fine(Kept(s[l])) /\ Kept(s[l]).at = ip
  <1> DEFINE a == AsmAt(ip)
             raw == FieldS(Assemble(a), 0, 31)
             s == Body(a, ip, t, raw)
  <1>1. IsSeq(s) /\ \A l \in 1 .. Len(s) : IsInst(s[l]) /\ Kept(s[l]).at = ip
    BY BodySound DEF SoundSeq, Sound
  <1>2. \A l \in 1 .. Len(s) : Tells(s[l], a)
    <2>1. CASE a.op \in {"jalr", "ecall", "ebreak"}
      <3>1. IsSeq(PreSideeff(a, ip))
        BY PreSideeffSound DEF SoundSeq
      <3>2. Len(s) > 0 /\ Tells(s[Len(s)], a)
        BY <2>1, <3>1, LastTells
      <3>3. Closing(s)
        BY <2>1, BodyIs
      <3> HIDE DEF s, a
      <3>4. ASSUME NEW l \in 1 .. Len(s), l # Len(s) PROVE Tells(s[l], a)
        <4>1. Len(s) \in Nat
          BY <1>1, AppendSeq
        <4>2. l \in 1 .. Len(s) - 1
          BY <3>4, <4>1
        <4> QED
          BY <3>3, <4>2 DEF Closing, Inner, Tells
      <3> QED
        BY <3>2, <3>4
    <2>2. CASE a.op \notin {"jalr", "ecall", "ebreak"}
      BY <2>2, BodyIs DEF Plain, Inner, Tells
    <2> QED
      BY <2>1, <2>2
  <1> HIDE DEF s
  <1>3. ASSUME NEW l \in 1 .. Len(s) PROVE Fine(Kept(s[l]))
    <2> DEFINE i == s[l]
               j == Kept(i)
    <2>1. IsInst(i) /\ j.at = ip /\ Tells(i, a) /\ (BlockEnds(j) <=> BlockEnds(i))
      BY <1>1, <1>2, KeptEnds
    <2>2. BlockEnds(i) => j = i
      BY DEF BlockEnds, Kept, FoldsTo, MovOf, Canonical
    <2>3. j.at \in Int /\ j.at >= Entry /\ AsmAt(j.at) = a
      BY <2>1
    <2> SUFFICES Fine(j)
      OBVIOUS
    <2> HIDE DEF i, j, a
    <2>4. CASE BlockEnds(j)
      BY <2>1, <2>2, <2>3, <2>4 DEF Tells, Fine
    <2>5. CASE ~BlockEnds(j)
      BY <2>3, <2>5 DEF BlockEnds, Fine
    <2> QED
      BY <2>4, <2>5
  <1> QED
    BY <1>1, <1>3 DEF s

\* What Flow and Track say of a region does not depend on its locals.
LEMMA LocalsKeep ==
  ASSUME NEW reg, Record(reg), NEW n
  PROVE  LET q == [reg EXCEPT !.locals = n]
         IN  /\ \A h : Track(reg, h) => Track(q, h)
             /\ Flow(reg) => Flow(q)
  <1> DEFINE q == [reg EXCEPT !.locals = n]
  <1>1. q.insts = reg.insts /\ q.ring = reg.ring /\ q.succs = reg.succs
    BY DEF Record
  <1>2. \A B : Translating(reg, B) => Translating(q, B)
    BY LocalsApart
  <1> HIDE DEF q
  <1>3. \A b : Code(q, b) = Code(reg, b)
    BY <1>1 DEF Code
  <1>4. /\ NumBlocks(q) = NumBlocks(reg)
        /\ \A b : Size(q, b) = Size(reg, b) /\ \A j : Nth(q, b, j) = Nth(reg, b, j)
    BY <1>1, <1>3 DEF NumBlocks, Size, Nth
  <1>5. \A b : Ender(q, b) = Ender(reg, b)
    BY <1>4 DEF Ender
  <1>6. \A h : Ordered(q, h) <=> Ordered(reg, h)
    BY <1>4 DEF Ordered
  <1>7. \A h : Forks(q, h) <=> Forks(reg, h)
    BY <1>1, <1>4, <1>5 DEF Forks, Exit
  <1> QED
    BY <1>1, <1>2, <1>4, <1>5, <1>6, <1>7 DEF Track, Flow, q

\* One iteration of TranslateIPRange, but for its overflow.
LEMMA TranslateInsnFlow ==
  ASSUME NEW reg, NEW h \in Int, NEW ip \in Int, h <= ip, Track(reg, h), ip >= Entry, Entry \in Int,
         Guest(AsmAt(ip), ip), reg.locals \in Nat, NumGlobals + reg.locals \in U16
  PROVE  LET a == AsmAt(ip)
             q == TranslateInsn(reg, 1, a, ip, FieldS(Assemble(a), 0, 31))
         IN  IF Stops(a) THEN Flow(q) ELSE Track(q, ip)
  <1> DEFINE a == AsmAt(ip)
             raw == FieldS(Assemble(a), 0, 31)
             t == vtemp(reg)
             body == Body(a, ip, t, raw)
             q == CreateAll(reg, -1, body)
             n == q.locals + Temps(a)
             made == [q EXCEPT !.locals = n]
  <1>1. TranslateInsn(reg, 1, a, ip, raw) = TranslateBranch(made, 1, a, ip)
    BY DEF TranslateInsn, Body
  <1>2. IsTemp(t)
    <2>1. NumGlobals + reg.locals >= NumGlobals
      BY DEF NumGlobals
    <2> QED
      BY <2>1, TempIs DEF vtemp
  <1>3. /\ IsSeq(body)
        /\ \A l \in 1 .. Len(body) :
             IsInst(body[l]) /\ Fine(Kept(body[l])) /\ Kept(body[l]).at = ip
    BY <1>2, BodyFine
  <1>4. PICK B : Translating(reg, B)
    BY DEF Track
  <1>5. Shape(reg, B) /\ Len(B) > 0 /\ NumBlocks(reg) = 1 /\ Ordered(reg, h)
    BY <1>4, TrackIs DEF Track
  <1>6. IF a.op \in {"jalr", "ecall", "ebreak"} THEN Closing(body) ELSE Plain(body)
    BY BodyIs
  <1>7. U32(ip + 4) /\ U32(AddU32(ip, a.imm)) /\ a.op # "illegal"
    BY GuestIs, AddIs DEF Guest
  <1>8. /\ Onward(ip) = IF a.op = "jal" THEN AddU32(ip, a.imm) ELSE ip + 4
        /\ a.op \in BranchOps => Branched(ip) = AddU32(ip, a.imm)
    BY DEF Onward, Branched, GuestNext
  <1> HIDE DEF a, body
  <1>9. /\ Ordered(q, ip) /\ Grafted(q, reg, 1, Size(reg, 1) + 1, body) /\ Size(reg, 1) \in Nat
    BY <1>3, <1>5, AppendOrdered
  <1>10. NumBlocks(q) = 1
    BY <1>5, <1>9 DEF Grafted
  <1>11. CASE a.op \in {"jalr", "ecall", "ebreak"}
    <2>1. Stops(a) /\ TranslateBranch(made, 1, a, ip) = made
      BY <1>11 DEF Stops, FlagBranch, FlagTrap, TranslateBranch, BranchOps
    <2>2. /\ Closing(body) /\ Len(body) > 0 /\ Len(body) \in Nat /\ Succs(body[Len(body)]) = 0
          /\ IsInst(body[Len(body)])
      BY <1>3, <1>6, <1>11, AppendSeq DEF Closing
    <2>3. Ender(q, 1) = Kept(body[Len(body)])
      <3> DEFINE s == Size(reg, 1)
                 m == Len(body)
                 x(l) == Nth(q, 1, l)
      <3>1. Size(q, 1) = s + m /\ \A l \in 1 .. m : x((s + 1) + l - 1) = Kept(body[l])
        BY <1>9 DEF Grafted
      <3>2. s \in Nat /\ m \in Nat /\ m > 0
        BY <1>9, <2>2
      <3> HIDE DEF s, m, x
      <3>3. m \in 1 .. m /\ (s + 1) + m - 1 = s + m
        BY <3>2
      <3>4. x(s + m) = Kept(body[m])
        BY <3>1, <3>3
      <3> QED
        BY <3>1, <3>4 DEF Ender, m, x
    <2>4. Succs(Ender(q, 1)) = 0 /\ Ender(q, 1).at = ip
      <3>1. Len(body) \in 1 .. Len(body)
        BY <2>2
      <3> QED
        BY <1>3, <2>2, <2>3, <3>1, KeptEnds
    <2>5. Ender(q, 1).op # "br" /\ Ender(q, 1).op # "brcc"
      BY <2>4 DEF Succs
    <2>6. \A e \in 2 .. NumBlocks(q) : FALSE
      BY <1>10
    <2>7. Flow(q)
      BY <1>9, <2>4, <2>5, <2>6 DEF Flow
    <2>8. Record(q)
      BY <1>4, <2>2, AppendClosing DEF Whole, Shape
    <2> HIDE DEF q, n
    <2>9. Flow(made)
      BY <2>7, <2>8, LocalsKeep
    <2> QED
      BY <1>1, <2>1, <2>9 DEF a
  <1>12. CASE a.op \notin {"jalr", "ecall", "ebreak"}
    <2>1. PICK W : Translating(q, W)
      BY <1>4, <1>6, <1>12, AppendPlain
    <2>2. Track(q, ip) /\ Record(q)
      BY <1>9, <1>10, <2>1 DEF Track, Translating, Shape
    <2> HIDE DEF q, n
    <2>3. Track(made, ip)
      BY <2>2, LocalsKeep
    <2> HIDE DEF made
    <2>4. CASE a.op = "jal"
      <3>1. Stops(a) /\ TranslateBranch(made, 1, a, ip) = MakeGBr(made, 1, AddU32(ip, a.imm), ip)
        BY <2>4 DEF Stops, FlagBranch, TranslateBranch, BranchOps
      <3>2. AddU32(ip, a.imm) = Onward(ip)
        BY <1>8, <2>4
      <3>3. ip <= ip
        OBVIOUS
      <3>4. Flow(MakeGBr(made, 1, AddU32(ip, a.imm), ip))
        BY <1>7, <2>3, <3>2, <3>3, MakeGBrFlow
      <3> QED
        BY <1>1, <3>1, <3>4 DEF a
    <2>5. CASE a.op \in BranchOps
      <3>1. Stops(a) /\ TranslateBranch(made, 1, a, ip) = TranslateBrcc(made, 1, a, ip)
        BY <2>5 DEF Stops, FlagBranch, TranslateBranch, BranchOps
      <3>2. a.op # "jal" /\ ip <= ip
        BY <2>5 DEF BranchOps
      <3>3. Onward(ip) = ip + 4 /\ Branched(ip) = AddU32(ip, a.imm)
        BY <1>8, <2>5, <3>2
      <3>4. Flow(TranslateBrcc(made, 1, a, ip))
        BY <1>7, <2>3, <3>2, <3>3, TranslateBrccFlow
      <3> QED
        BY <1>1, <3>1, <3>4 DEF a
    <2>6. CASE a.op # "jal" /\ a.op \notin BranchOps
      <3>1. ~Stops(a) /\ TranslateBranch(made, 1, a, ip) = made
        BY <1>7, <1>12, <2>6 DEF Stops, FlagBranch, FlagTrap, TranslateBranch
      <3> QED
        BY <1>1, <2>3, <3>1 DEF a
    <2> QED
      BY <2>4, <2>5, <2>6
  <1> QED
    BY <1>11, <1>12

\* Movs of the address of place k in front of it change no block's way.
LEMMA FlowGraft ==
  ASSUME NEW q, NEW reg, NumBlocks(reg) \in Nat, NEW b \in 1 .. NumBlocks(reg), NEW k,
         k \in 1 .. Size(reg, b), NEW body, Len(body) \in Nat, Grafted(q, reg, b, k, body), Flow(reg),
         \A e \in 1 .. NumBlocks(reg) : Size(reg, e) \in Nat /\ Size(reg, e) > 0,
         \A l \in 1 .. Len(body) : Kept(body[l]).op = "mov" /\ Kept(body[l]).at = Nth(reg, b, k).at
  PROVE  Flow(q)
  <1> DEFINE m == NumBlocks(reg)
             s == Size(reg, b)
             n == Len(body)
             p == Nth(reg, b, k).at
             h == Ender(reg, 1).at
  <1>1. /\ NumBlocks(q) = m /\ q.succs = reg.succs /\ Size(q, b) = s + n
        /\ \A j \in k .. s : Nth(q, b, j + n) = Nth(reg, b, j)
        /\ \A e \in 1 .. m : e # b =>
             Size(q, e) = Size(reg, e) /\ \A j \in 1 .. Size(reg, e) : Nth(q, e, j) = Nth(reg, e, j)
    BY DEF Grafted
  <1>2. s \in Nat /\ s > 0 /\ n \in Nat /\ m \in Nat /\ k \in 1 .. s /\ k \in 1 .. s + 1 /\ k \in Nat
        /\ 1 \in 1 .. m /\ \A e \in 2 .. m : e \in 1 .. m /\ e # 1
    OBVIOUS
  <1> HIDE DEF m, s, n, p, h
  <1>3. ASSUME NEW e \in 1 .. m PROVE Ender(q, e) = Ender(reg, e)
    <2>1. CASE e = b
      <3>1. s \in k .. s
        BY <1>2
      <3> QED
        BY <1>1, <2>1, <3>1 DEF Ender, s
    <2>2. CASE e # b
      <3>1. Size(reg, e) \in 1 .. Size(reg, e)
        BY DEF m
      <3> QED
        BY <1>1, <2>2, <3>1 DEF Ender
    <2> QED
      BY <2>1, <2>2
  <1>4. Ordered(reg, h)
    BY DEF Flow, h
  <1>5. Ordered(q, h)
    <2>1. CASE b = 1
      <3>1. \A j \in 1 .. s : /\ Nth(reg, 1, j).at \in Int /\ Nth(reg, 1, j).at >= Entry
                              /\ Nth(reg, 1, j).at <= h
                              /\ \A l \in 1 .. j : Nth(reg, 1, l).at <= Nth(reg, 1, j).at
        BY <1>4, <2>1 DEF Ordered, Fine, s
      <3>2. p = Nth(reg, 1, k).at /\ h = Nth(reg, 1, s).at /\ s \in 1 .. s
        BY <1>2, <2>1 DEF p, h, s, Ender
      <3>3. p \in Int /\ p >= Entry /\ h \in Int /\ p <= h
        BY <1>2, <3>1, <3>2
      <3>4. \A j \in 1 .. k - 1 : Nth(reg, 1, j).at <= p
        <4>1. \A j \in 1 .. k - 1 : j \in 1 .. k
          BY <1>2
        <4> QED
          BY <1>2, <3>1, <3>2, <4>1
      <3>5. \A j \in k .. s : p <= Nth(reg, 1, j).at
        <4>1. \A j \in k .. s : j \in 1 .. s /\ k \in 1 .. j
          BY <1>2
        <4> QED
          BY <3>1, <3>2, <4>1
      <3>6. \A l \in 1 .. n : Fine(Kept(body[l])) /\ Kept(body[l]).at = p
        <4>1. \A l \in 1 .. n : Kept(body[l]).op = "mov" /\ Kept(body[l]).at = p
          BY DEF n, p
        <4> QED
          BY <3>3, <4>1 DEF Fine
      <3> QED
        BY <1>2, <1>4, <2>1, <3>3, <3>4, <3>5, <3>6, OrderedGraft DEF s, n
    <2>2. CASE b # 1
      <3>1. /\ Size(q, 1) = Size(reg, 1) /\ Size(reg, 1) \in Nat
            /\ \A j \in 1 .. Size(reg, 1) : Nth(q, 1, j) = Nth(reg, 1, j)
        BY <1>1, <1>2, <2>2 DEF m
      <3>2. \A j \in 1 .. Size(reg, 1) : \A l \in 1 .. j : l \in 1 .. Size(reg, 1)
        BY <3>1
      <3> QED
        BY <1>4, <3>1, <3>2 DEF Ordered
    <2> QED
      BY <2>1, <2>2
  <1>6. ASSUME NEW e, NEW ip, NEW x, Exit(reg, e, ip, x) PROVE Exit(q, e, ip, x)
    <2>1. /\ e \in 2 .. m /\ Size(reg, e) > 0 /\ GetConst(Ender(reg, e).x) = x
          /\ \A j \in 1 .. Size(reg, e) : Nth(reg, e, j).at = ip
      BY <1>6 DEF Exit, m
    <2>2. e \in 1 .. m /\ GetConst(Ender(q, e).x) = x /\ e \in 2 .. NumBlocks(q)
      BY <1>1, <1>2, <1>3, <2>1
    <2>3. Size(q, e) > 0 /\ \A j \in 1 .. Size(q, e) : Nth(q, e, j).at = ip
      <3>1. CASE e # b
        BY <1>1, <2>1, <2>2, <3>1
      <3>2. CASE e = b
        <4>1. p = ip
          BY <1>2, <2>1, <3>2 DEF p, s
        <4>2. \A l \in 1 .. n : Kept(body[l]).at = ip
          BY <4>1 DEF n, p
        <4>3. \A j \in 1 .. Size(q, b) :
                \/ j \in 1 .. s /\ Nth(q, b, j) = Nth(reg, b, j)
                \/ (j - k) + 1 \in 1 .. n /\ Nth(q, b, j) = Kept(body[(j - k) + 1])
                \/ j - n \in k .. s /\ Nth(q, b, j) = Nth(reg, b, j - n)
          BY <1>2, GraftPlaces DEF s, n
        <4>4. \A j \in 1 .. s : Nth(reg, b, j).at = ip
          BY <2>1, <3>2 DEF s
        <4>5. \A j \in k .. s : j \in 1 .. s
          BY <1>2
        <4>6. ASSUME NEW j \in 1 .. Size(q, b) PROVE Nth(q, b, j).at = ip
          BY <4>2, <4>3, <4>4, <4>5
        <4>7. Size(q, b) > 0
          BY <1>1, <1>2
        <4> QED
          BY <3>2, <4>6, <4>7
      <3> QED
        BY <3>1, <3>2
    <2> QED
      BY <2>2, <2>3 DEF Exit
  <1>7. ASSUME NEW ip, Forks(reg, ip) PROVE Forks(q, ip)
    BY <1>1, <1>6, <1>7 DEF Forks
  <1>8. /\ Ender(q, 1) = Ender(reg, 1)
        /\ \A e \in 2 .. NumBlocks(q) : Ender(q, e) = Ender(reg, e)
    BY <1>1, <1>2, <1>3
  <1>9. /\ h = Ender(reg, 1).at
        /\ Ender(reg, 1).op = "br" => reg.succs[1][1] = 1
        /\ Ender(reg, 1).op = "brcc" => Forks(reg, h)
        /\ \A e \in 2 .. m : Ender(reg, e).op = "gbr"
    BY DEF Flow, h, m
  <1> QED
    BY <1>1, <1>5, <1>7, <1>8, <1>9 DEF Flow

\* The sizes of the blocks of a whole region.
LEMMA WholeIs ==
  ASSUME NEW reg, NEW B, Whole(reg, B)
  PROVE  /\ Shape(reg, B) /\ NumBlocks(reg) = Len(B) /\ Len(B) \in Nat /\ Len(B) > 0
         /\ \A e \in 1 .. Len(B) :
              /\ Code(reg, e) = B[e] /\ Size(reg, e) = Len(B[e])
              /\ Size(reg, e) \in Nat /\ Size(reg, e) > 0
              /\ BlockEnds(Ender(reg, e)) /\ Succs(Ender(reg, e)) = Len(reg.succs[e])
              /\ \A j \in 1 .. Size(reg, e) - 1 : ~BlockEnds(Nth(reg, e, j))
  <1>1. Shape(reg, B) /\ Len(B) > 0
    BY DEF Whole
  <1>2. /\ NumBlocks(reg) = Len(B) /\ Len(B) \in Nat
        /\ \A e \in 1 .. Len(B) : Code(reg, e) = B[e] /\ Size(reg, e) = Len(B[e]) /\ Size(reg, e) \in Nat
    BY <1>1, ListsAre
  <1>3. ASSUME NEW e \in 1 .. Len(B)
        PROVE  /\ Size(reg, e) > 0 /\ BlockEnds(Ender(reg, e)) /\ Succs(Ender(reg, e)) = Len(reg.succs[e])
               /\ \A j \in 1 .. Size(reg, e) - 1 : ~BlockEnds(Nth(reg, e, j))
    <2>1. Complete(reg, B, e) /\ Code(reg, e) = B[e] /\ Size(reg, e) = Len(B[e])
      BY <1>2 DEF Whole
    <2> QED
      BY <2>1 DEF Complete, Jumps, Ender, Nth
  <1> QED
    BY <1>1, <1>2, <1>3

\* One iteration of a pass.
LEMMA PassVisitFlow ==
  ASSUME ListInv, Flow(R), PassVisit
  PROVE  Flow(R')
  <1>1. it > 0 /\ phase \notin {"translate", "panic"}
    BY DEF PassVisit, Passes
  <1>2. PICK B : Whole(R, B) /\ At(B, bb, it)
    BY <1>1 DEF ListInv
  <1>3. PICK n \in Nat : R' = CreateAll(R, it, Movs(n))
    BY PassVisitIs
  <1> DEFINE body == Movs(n)
  <1>4. Plain(body) /\ Len(body) = n /\ \A l \in 1 .. n : body[l] = PassMov(it)
    BY MovsPlain
  <1>5. PassMov(it).op = "mov" /\ PassMov(it).at = R.insts[it].at /\ Kept(PassMov(it)) = PassMov(it)
    BY DEF PassMov, Inst, Kept, FoldsTo, MovOf, Canonical
  <1> HIDE DEF body
  <1>6. /\ Shape(R, B) /\ NumBlocks(R) = Len(B) /\ Len(B) \in Nat
        /\ \A e \in 1 .. Len(B) : /\ Code(R, e) = B[e] /\ Size(R, e) = Len(B[e])
                                  /\ Size(R, e) \in Nat /\ Size(R, e) > 0
    BY <1>2, WholeIs
  <1>7. bb \in 1 .. Len(B) /\ \E k \in 1 .. Len(B[bb]) : it = B[bb][k]
    BY <1>1, <1>2, <1>6, NextAt
  <1>8. PICK k \in 1 .. Len(B[bb]) : it = B[bb][k]
    BY <1>7
  <1>9. PICK W : Spliced(R', R, B, W, bb, k, body)
    BY <1>2, <1>3, <1>4, <1>7, <1>8, VisitSplices DEF Passed, body
  <1>10. k \in 1 .. Len(B[bb]) + 1
    BY <1>6, <1>7
  <1>11. Grafted(R', R, bb, k, body)
    BY <1>6, <1>7, <1>9, <1>10, GraftIs
  <1>12. Nth(R, bb, k) = R.insts[it] /\ k \in 1 .. Size(R, bb)
    BY <1>6, <1>7, <1>8 DEF Nth
  <1> QED
    BY <1>4, <1>5, <1>6, <1>7, <1>11, <1>12, FlowGraft

-----------------------------------------------------------------------------
(* Host code follows the blocks *)

LEMMA LaidMore ==
  ASSUME NEW P, NEW c, NEW reg, NEW b \in Nat \ {0}, NEW j \in Nat, Laid(P, c, reg, b, j),
         Size(reg, b) \in Nat, NEW e, NEW i, Size(reg, e) \in Nat,
         (j < Size(reg, b) /\ e = b /\ i = j + 1) \/ (j = Size(reg, b) /\ e = b + 1 /\ i = 0)
  PROVE  \E Q : Laid(Q, Append(c, HostAt(reg, e, i)), reg, e, i)
  <1> DEFINE n == Len(c)
             d == Append(c, HostAt(reg, e, i))
             Q == [p \in 1 .. n + 1 |-> IF p = n + 1 THEN <<e, i>> ELSE P[p]]
             G(f, x, p) == P[p] = <<f, x>> /\ c[p] = HostAt(reg, f, x)
             N(f, x) == IF x < Size(reg, f) THEN <<f, x + 1>> ELSE <<f + 1, 0>>
  <1>1. /\ IsSeq(c) /\ n > 0 /\ P[1] = <<1, 0>> /\ P[n] = <<b, j>>
        /\ \A p \in 1 .. n : \E f \in 1 .. b : \E x \in 0 .. Size(reg, f) :
             P[p] = <<f, x>> /\ c[p] = HostAt(reg, f, x) /\ (p < n => P[p + 1] = N(f, x))
        /\ \A f \in 1 .. b : \E p \in 1 .. n : P[p] = <<f, 0>>
    BY DEF Laid
  <1>2. /\ n \in Nat /\ IsSeq(d) /\ Len(d) = n + 1 /\ d[n + 1] = HostAt(reg, e, i)
        /\ \A p \in 1 .. n : d[p] = c[p]
    BY <1>1, AppendSeq
  <1>3. N(b, j) = <<e, i>>
    OBVIOUS
  <1>4. Q[n + 1] = <<e, i>> /\ \A p \in 1 .. n : Q[p] = P[p]
    BY <1>2
  <1>5. e \in Nat /\ i \in 0 .. Size(reg, e) /\ e \in 1 .. e /\ \A f \in 1 .. b : f \in 1 .. e
    OBVIOUS
  <1>6. \A f \in 1 .. e : f \in 1 .. b \/ (f = e /\ i = 0)
    OBVIOUS
  <1> HIDE DEF n, d, Q
  <1>7. ASSUME NEW p \in 1 .. n
        PROVE  \E f \in 1 .. e : \E x \in 0 .. Size(reg, f) :
                 Q[p] = <<f, x>> /\ d[p] = HostAt(reg, f, x) /\ (p < n + 1 => Q[p + 1] = N(f, x))
    <2>1. PICK f \in 1 .. b : \E x \in 0 .. Size(reg, f) :
             P[p] = <<f, x>> /\ c[p] = HostAt(reg, f, x) /\ (p < n => P[p + 1] = N(f, x))
      BY <1>1
    <2>2. PICK x \in 0 .. Size(reg, f) :
             P[p] = <<f, x>> /\ c[p] = HostAt(reg, f, x) /\ (p < n => P[p + 1] = N(f, x))
      BY <2>1
    <2> HIDE DEF N
    <2>3. Q[p + 1] = N(f, x)
      <3>1. CASE p < n
        <4>1. p + 1 \in 1 .. n
          BY <1>2, <3>1
        <4> QED
          BY <1>4, <2>2, <3>1, <4>1
      <3>2. CASE p = n
        <4>1. f = b /\ x = j
          BY <1>1, <2>2, <3>2
        <4> QED
          BY <1>3, <1>4, <3>2, <4>1
      <3> QED
        BY <1>2, <3>1, <3>2
    <2> QED
      BY <1>2, <1>4, <1>5, <2>2, <2>3
  <1>8. ASSUME NEW p \in 1 .. n + 1
        PROVE  \E f \in 1 .. e : \E x \in 0 .. Size(reg, f) :
                 Q[p] = <<f, x>> /\ d[p] = HostAt(reg, f, x) /\ (p < n + 1 => Q[p + 1] = N(f, x))
    <2>1. p \in 1 .. n \/ p = n + 1
      BY <1>2
    <2>2. ~(n + 1 < n + 1)
      BY <1>2
    <2> HIDE DEF N
    <2> QED
      BY <1>2, <1>4, <1>5, <1>7, <2>1, <2>2
  <1>9. ASSUME NEW f \in 1 .. e PROVE \E p \in 1 .. n + 1 : Q[p] = <<f, 0>>
    <2>1. \A p \in 1 .. n : p \in 1 .. n + 1
      BY <1>2
    <2>2. n + 1 \in 1 .. n + 1
      BY <1>2
    <2> QED
      BY <1>1, <1>4, <1>6, <2>1, <2>2
  <1>10. IsSeq(d) /\ Len(d) > 0 /\ Q[1] = <<1, 0>> /\ Q[Len(d)] = <<e, i>>
    BY <1>1, <1>2, <1>4
  <1>11. Laid(Q, d, reg, e, i)
    <2>1. \A p \in 1 .. Len(d) : \E f \in 1 .. e : \E x \in 0 .. Size(reg, f) :
            Q[p] = <<f, x>> /\ d[p] = HostAt(reg, f, x) /\ (p < Len(d) => Q[p + 1] = N(f, x))
      <3> HIDE DEF N
      <3> QED
        BY <1>2, <1>8
    <2>2. \A f \in 1 .. e : \E p \in 1 .. Len(d) : Q[p] = <<f, 0>>
      BY <1>2, <1>9
    <2> QED
      BY <1>10, <2>1, <2>2, Zenon DEF Laid
  <1> QED
    BY <1>11 DEF d

\* The code made so far when emission is at node n of block b.
Emits(c, reg, b, n) ==
  \E k \in 1 .. Size(reg, b) + 1 :
    n = Node(-b, Code(reg, b), k) /\ \E P : Laid(P, c, reg, b, k - 1)

\* Every instruction becomes one of the host, its jump to the next block being
\* left out.
LEMMA HostCodeIs ==
  ASSUME ListInv, Flow(R), phase = "emit", NEW k \in 1 .. Size(R, bb), it = Code(R, bb)[k]
  PROVE  HostCode(R.insts[it]) = <<HostAt(R, bb, k)>>
  <1> DEFINE i == R.insts[it]
             succ == R.succs[bb]
  <1>1. PICK B : Whole(R, B) /\ At(B, bb, it)
    BY DEF ListInv
  <1>2. bb \in 1 .. Len(B)
    BY <1>1 DEF At
  <1>3. /\ Shape(R, B) /\ NumBlocks(R) = Len(B) /\ Len(B) \in Nat /\ Len(B) > 0
        /\ Size(R, bb) \in Nat /\ \A j \in 1 .. Size(R, bb) - 1 : ~BlockEnds(Nth(R, bb, j))
    BY <1>1, <1>2, WholeIs
  <1>4. Nth(R, bb, k) = i /\ k # 0
    BY DEF Nth
  <1>5. NextBlock = IF bb = Len(B) THEN 0 ELSE bb + 1
    BY <1>2, <1>3, BlockNext DEF NextBlock
  <1>6. ASSUME i.op \in {"br", "brcc"}
        PROVE  bb = 1 /\ i = Ender(R, 1)
    <2>1. BlockEnds(Nth(R, bb, k))
      BY <1>4, <1>6 DEF BlockEnds
    <2>2. k = Size(R, bb)
      BY <1>3, <2>1
    <2>3. i = Ender(R, bb)
      BY <1>4, <2>2 DEF Ender
    <2>4. bb = 1
      <3>1. bb \in 2 .. NumBlocks(R) => i.op = "gbr"
        BY <2>3 DEF Flow
      <3> QED
        BY <1>2, <1>3, <1>6, <3>1
    <2> QED
      BY <2>3, <2>4
  <1> HIDE DEF i
  <1>7. CASE i.op = "br"
    <2>1. bb = 1 /\ succ[1] = 1
      BY <1>6, <1>7 DEF Flow
    <2>2. NextBlock # 1
      BY <1>5, <2>1
    <2> QED
      BY <1>4, <1>7, <2>1, <2>2 DEF HostCode, HostAt, JumpUnlessNext, Host, i
  <1>8. CASE i.op = "brcc"
    <2>1. bb = 1 /\ succ[2] = 2 /\ 2 \in 2 .. NumBlocks(R)
      BY <1>6, <1>8 DEF Flow, Forks, Exit
    <2>2. NextBlock = 2
      BY <1>3, <1>5, <2>1
    <2>3. JumpUnlessNext(succ[2]) = <<>>
      BY <2>1, <2>2 DEF JumpUnlessNext
    <2>4. HostCode(i) = <<Host("jcc", succ[1])>> \o <<>>
      BY <1>8, <2>3 DEF HostCode
    <2>5. Host("jcc", succ[1]) = HostAt(R, bb, k)
      BY <1>4, <1>8 DEF HostAt, Host, i
    <2> QED
      BY <2>4, <2>5 DEF i
  <1>9. CASE i.op \notin {"br", "brcc"}
    BY <1>4, <1>9 DEF HostCode, HostAt, Host, i
  <1> QED
    BY <1>7, <1>8, <1>9

LEMMA EmitInstFlow ==
  ASSUME ListInv, Flow(R), EmitInst, Emits(code, R, bb, it)
  PROVE  Emits(code', R, bb, it')
  <1>1. phase = "emit" /\ it > 0 /\ code' = code \o HostCode(R.insts[it]) /\ it' = R.ring.next[it]
    BY DEF EmitInst
  <1>2. PICK B : Whole(R, B) /\ At(B, bb, it)
    BY <1>1 DEF ListInv
  <1>3. bb \in 1 .. Len(B)
    BY <1>2 DEF At
  <1>4. /\ Shape(R, B) /\ Len(B) \in Nat /\ Code(R, bb) = B[bb] /\ Size(R, bb) = Len(B[bb])
        /\ Size(R, bb) \in Nat
    BY <1>2, <1>3, WholeIs
  <1>5. PICK k \in 1 .. Size(R, bb) + 1 :
          it = Node(-bb, Code(R, bb), k) /\ \E P : Laid(P, code, R, bb, k - 1)
    BY DEF Emits
  <1>6. PICK P : Laid(P, code, R, bb, k - 1)
    BY <1>5
  <1>7. k \in 1 .. Size(R, bb) /\ it = Code(R, bb)[k]
    <2>1. CASE k \in 1 .. Size(R, bb)
      BY <1>4, <1>5, <2>1 DEF Node
    <2>2. CASE k = Size(R, bb) + 1
      <3>1. it = -bb
        BY <1>4, <1>5, <2>2 DEF Node
      <3> QED
        BY <1>1, <1>3, <1>4, <3>1
    <2> QED
      BY <1>4, <2>1, <2>2
  <1>8. it' = Node(-bb, Code(R, bb), k + 1) /\ k + 1 \in 1 .. Size(R, bb) + 1
    <2>1. Chained(R.ring, -bb, B[bb])
      BY <1>3, <1>4 DEF Shape, Listing, Chain
    <2>2. k \in 0 .. Len(B[bb])
      BY <1>4, <1>7
    <2> QED
      BY <1>1, <1>4, <1>5, <1>7, <2>1, <2>2 DEF Chained
  <1>9. code' = Append(code, HostAt(R, bb, k))
    <2>1. code' = code \o <<HostAt(R, bb, k)>>
      BY <1>1, <1>7, HostCodeIs
    <2>2. IsSeq(code)
      BY <1>6 DEF Laid
    <2> QED
      BY <2>1, <2>2 DEF IsSeq
  <1>10. \E Q : Laid(Q, Append(code, HostAt(R, bb, k)), R, bb, k)
    <2>1. bb \in Nat \ {0} /\ k - 1 \in Nat /\ k - 1 < Size(R, bb) /\ k = (k - 1) + 1
      BY <1>3, <1>4, <1>7
    <2> QED
      BY <1>4, <1>6, <2>1, LaidMore
  <1>11. k = (k + 1) - 1
    BY <1>4, <1>7
  <1> QED
    BY <1>8, <1>9, <1>10, <1>11 DEF Emits

\* Emission at the end of a block.
LEMMA EmitsEnd ==
  ASSUME ListInv, phase = "emit", it < 0, Emits(code, R, bb, it)
  PROVE  /\ bb \in 1 .. NumBlocks(R) /\ \E P : Laid(P, code, R, bb, Size(R, bb))
         /\ NextBlock = IF bb = NumBlocks(R) THEN 0 ELSE bb + 1
  <1>1. PICK B : Whole(R, B) /\ At(B, bb, it)
    BY DEF ListInv
  <1>2. bb \in 1 .. Len(B)
    BY <1>1 DEF At
  <1>3. /\ Shape(R, B) /\ Len(B) > 0 /\ NumBlocks(R) = Len(B) /\ Code(R, bb) = B[bb]
        /\ Size(R, bb) = Len(B[bb]) /\ Size(R, bb) \in Nat
    BY <1>1, <1>2, WholeIs
  <1>4. PICK k \in 1 .. Size(R, bb) + 1 :
          it = Node(-bb, Code(R, bb), k) /\ \E P : Laid(P, code, R, bb, k - 1)
    BY DEF Emits
  <1>5. k = Size(R, bb) + 1
    <2>1. CASE k \in 1 .. Size(R, bb)
      <3>1. it = B[bb][k] /\ B[bb][k] \in Pos
        BY <1>2, <1>3, <1>4, <2>1, InList DEF Node
      <3> QED
        BY <3>1 DEF Pos
    <2> QED
      BY <1>3, <2>1
  <1>6. k - 1 = Size(R, bb)
    BY <1>3, <1>5
  <1>7. NextBlock = IF bb = Len(B) THEN 0 ELSE bb + 1
    BY <1>2, <1>3, BlockNext DEF NextBlock
  <1> QED
    BY <1>2, <1>3, <1>4, <1>6, <1>7

\* The first node of a block.
LEMMA FirstNode ==
  ASSUME NEW reg, NEW B, Shape(reg, B), NEW b \in 1 .. Len(B)
  PROVE  reg.ring.next[-b] = Node(-b, Code(reg, b), 1) /\ 1 \in 1 .. Size(reg, b) + 1
  <1>1. Code(reg, b) = B[b] /\ Size(reg, b) = Len(B[b]) /\ Len(B[b]) \in Nat
    BY ListsAre
  <1>2. Chained(reg.ring, -b, B[b]) /\ Node(-b, B[b], 0) = -b
    BY NodeFacts DEF Shape, Listing, Chain
  <1>3. 0 \in 0 .. Len(B[b]) /\ 0 + 1 = 1 /\ 1 \in 1 .. Len(B[b]) + 1
    BY <1>1
  <1>4. reg.ring.next[-b] = Node(-b, B[b], 0 + 1)
    BY <1>2, <1>3 DEF Chained
  <1> QED
    BY <1>1, <1>3, <1>4

LEMMA EmitBlockFlow ==
  ASSUME ListInv, phase = "emit", PassNextBlock, Emits(code, R, bb, it)
  PROVE  Emits(code', R, bb', it')
  <1> DEFINE e == bb + 1
  <1>1. /\ it < 0 /\ NextBlock # 0 /\ bb' = NextBlock /\ it' = R.ring.next[-NextBlock]
        /\ code' = Append(code, [k |-> "label", b |-> NextBlock])
    BY DEF PassNextBlock
  <1>2. PICK B : Whole(R, B)
    BY DEF ListInv
  <1>3. Shape(R, B) /\ NumBlocks(R) = Len(B) /\ Len(B) \in Nat
    BY <1>2, WholeIs
  <1>4. /\ bb \in 1 .. NumBlocks(R) /\ NextBlock = IF bb = NumBlocks(R) THEN 0 ELSE bb + 1
    BY <1>1, EmitsEnd
  <1>5. NextBlock = e /\ e \in 1 .. Len(B) /\ bb \in 1 .. Len(B) /\ bb \in Nat \ {0}
    BY <1>1, <1>3, <1>4
  <1>6. Size(R, bb) \in Nat /\ Size(R, e) \in Nat
    BY <1>3, <1>5, ListsAre
  <1>7. PICK P : Laid(P, code, R, bb, Size(R, bb))
    BY <1>1, EmitsEnd
  <1>8. \E Q : Laid(Q, Append(code, HostAt(R, e, 0)), R, e, 0)
    BY <1>5, <1>6, <1>7, LaidMore
  <1> HIDE DEF e
  <1>9. HostAt(R, e, 0) = [k |-> "label", b |-> e]
    BY DEF HostAt
  <1>10. it' = Node(-e, Code(R, e), 1) /\ 1 \in 1 .. Size(R, e) + 1 /\ 0 = 1 - 1
    BY <1>1, <1>3, <1>5, FirstNode
  <1> QED
    BY <1>1, <1>5, <1>8, <1>9, <1>10 DEF Emits

LEMMA EmitBegins ==
  ASSUME ListInv, phase = "regalloc", PassEnd
  PROVE  Emits(code', R, bb', it')
  <1> DEFINE c == <<HostAt(R, 1, 0)>>
             P == <<<<1, 0>>>>
  <1>1. PICK B : Whole(R, B)
    BY DEF ListInv
  <1>2. Shape(R, B) /\ Len(B) > 0 /\ Len(B) \in Nat
    BY <1>1, WholeIs
  <1>3. bb' = 1 /\ it' = R.ring.next[-1] /\ code' = <<[k |-> "label", b |-> 1]>>
    BY <1>2, BlockNext DEF PassEnd, BeginPass
  <1>4. HostAt(R, 1, 0) = [k |-> "label", b |-> 1]
    BY DEF HostAt
  <1>5. it' = Node(-1, Code(R, 1), 1) /\ 1 \in 1 .. Size(R, 1) + 1
    <2> DEFINE b == 1
    <2>1. b \in 1 .. Len(B)
      BY <1>2
    <2> HIDE DEF b
    <2>2. R.ring.next[-b] = Node(-b, Code(R, b), 1) /\ 1 \in 1 .. Size(R, b) + 1
      BY <1>2, <2>1, FirstNode
    <2> QED
      BY <1>3, <2>2 DEF b
  <1>6. Size(R, 1) \in Nat
    <2>1. 1 \in 1 .. Len(B)
      BY <1>2
    <2> QED
      BY <1>2, <2>1, ListsAre
  <1>7. Laid(P, c, R, 1, 0)
    <2>1. IsSeq(c) /\ Len(c) = 1 /\ c[1] = HostAt(R, 1, 0)
      BY PlainOne
    <2>2. P[1] = <<1, 0>> /\ 0 \in 0 .. Size(R, 1) /\ 1 \in 1 .. 1 /\ 1 .. 1 = {1} /\ 1 > 0 /\ ~(1 < 1)
      BY <1>6
    <2> HIDE DEF P, c
    <2> QED
      BY <2>1, <2>2 DEF Laid
  <1>8. code' = c /\ 0 = 1 - 1
    BY <1>3, <1>4
  <1> HIDE DEF c
  <1> QED
    BY <1>3, <1>5, <1>7, <1>8 DEF Emits

\* A place of the code.
LEMMA PlaceIs ==
  ASSUME NEW B, Whole(R, B), NEW P, Laid(P, code, R, Len(B), Size(R, Len(B))),
         NEW p \in 1 .. Len(code), NEW e, NEW j, P[p] = <<e, j>>
  PROVE  /\ e \in 1 .. Len(B) /\ j \in 0 .. Size(R, e) /\ Size(R, e) \in Nat /\ code[p] = HostAt(R, e, j)
         /\ j < Size(R, e) => p + 1 \in 1 .. Len(code) /\ P[p + 1] = <<e, j + 1>>
         /\ j = Size(R, e) /\ e < Len(B) => p + 1 \in 1 .. Len(code) /\ P[p + 1] = <<e + 1, 0>>
  <1>1. /\ IsSeq(code) /\ P[Len(code)] = <<Len(B), Size(R, Len(B))>>
        /\ \E f \in 1 .. Len(B) : \E x \in 0 .. Size(R, f) :
             /\ P[p] = <<f, x>> /\ code[p] = HostAt(R, f, x)
             /\ p < Len(code) => P[p + 1] = IF x < Size(R, f) THEN <<f, x + 1>> ELSE <<f + 1, 0>>
    BY DEF Laid
  <1>2. PICK f \in 1 .. Len(B) : \E x \in 0 .. Size(R, f) :
             /\ P[p] = <<f, x>> /\ code[p] = HostAt(R, f, x)
             /\ p < Len(code) => P[p + 1] = IF x < Size(R, f) THEN <<f, x + 1>> ELSE <<f + 1, 0>>
    BY <1>1
  <1>3. f = e /\ j \in 0 .. Size(R, e) /\ code[p] = HostAt(R, e, j)
        /\ (p < Len(code) => P[p + 1] = IF j < Size(R, e) THEN <<e, j + 1>> ELSE <<e + 1, 0>>)
    BY <1>2
  <1>4. Len(code) \in Nat /\ Len(B) \in Nat /\ Size(R, e) \in Nat /\ Size(R, Len(B)) \in Nat
    BY <1>1, <1>2, <1>3, WholeIs, AppendSeq
  <1>5. p = Len(code) => e = Len(B) /\ j = Size(R, e)
    BY <1>1
  <1>6. p < Len(code) => p + 1 \in 1 .. Len(code)
    BY <1>4
  <1>7. p < Len(code) \/ p = Len(code)
    BY <1>4
  <1>8. j < Size(R, e) => j # Size(R, e)
    BY <1>4
  <1>9. e < Len(B) => e # Len(B)
    BY <1>4
  <1> QED
    BY <1>2, <1>3, <1>4, <1>5, <1>6, <1>7, <1>8, <1>9

\* Label finds the label of a block.
LEMMA LabelIs ==
  ASSUME NEW B, Whole(R, B), NEW P, Laid(P, code, R, Len(B), Size(R, Len(B))), NEW e \in 1 .. Len(B)
  PROVE  Label(e) \in 1 .. Len(code) /\ P[Label(e)] = <<e, 0>>
  <1>1. IsSeq(code) /\ \E p \in 1 .. Len(code) : P[p] = <<e, 0>>
    BY DEF Laid
  <1>2. DOMAIN code = 1 .. Len(code)
    BY <1>1, AppendSeq
  <1>3. PICK p \in 1 .. Len(code) : P[p] = <<e, 0>>
    BY <1>1
  <1>4. code[p].k = "label" /\ code[p].b = e
    <2>1. code[p] = HostAt(R, e, 0)
      BY <1>3, PlaceIs
    <2> QED
      BY <2>1 DEF HostAt
  <1>5. Label(e) \in 1 .. Len(code) /\ code[Label(e)].k = "label" /\ code[Label(e)].b = e
    BY <1>2, <1>4 DEF Label
  <1> DEFINE l == Label(e)
  <1> HIDE DEF l
  <1>6. ASSUME NEW m \in 1 .. Len(code), code[m].k = "label", code[m].b = e
        PROVE  P[m] = <<e, 0>>
    <2>1. PICK f \in 1 .. Len(B) : \E x \in 0 .. Size(R, f) : P[m] = <<f, x>> /\ code[m] = HostAt(R, f, x)
      BY DEF Laid
    <2>2. PICK x \in 0 .. Size(R, f) : P[m] = <<f, x>> /\ code[m] = HostAt(R, f, x)
      BY <2>1
    <2>3. HostAt(R, f, x).k = "label" => x = 0
      BY DEF HostAt
    <2>4. HostAt(R, f, 0).b = f
      BY DEF HostAt
    <2> QED
      BY <1>6, <2>2, <2>3, <2>4
  <1> QED
    BY <1>5, <1>6

-----------------------------------------------------------------------------
(* The run *)

LEMMA TowardIs ==
  ASSUME NEW c, NEW ip
  PROVE  /\ c.taken = FALSE => Toward(c) = Onward(c.at)
         /\ Toward([at |-> ip, taken |-> FALSE]) = Onward(ip)
         /\ Toward([at |-> ip, taken |-> TRUE]) = Branched(ip)
  <1>1. c.taken = FALSE => Toward(c) = Onward(c.at)
    BY Zenon DEF Toward, Onward
  <1>2. Toward([at |-> ip, taken |-> FALSE]) = Onward(ip)
    BY Zenon DEF Toward, Onward
  <1>3. Toward([at |-> ip, taken |-> TRUE]) = Branched(ip)
    BY Zenon DEF Toward, Branched
  <1> QED
    BY <1>1, <1>2, <1>3, Zenon

\* What the host code of place j of block e does.
Kinds(reg, e, j, c) ==
  /\ c.at = Nth(reg, e, j).at /\ c.k # "label"
  /\ c.k = "jmp" => e = 1 /\ c.x = 1 /\ Onward(c.at) = Entry
  /\ c.k = "jcc" => e = 1 /\ j = Size(reg, 1) /\ c.x = reg.succs[1][1] /\ Forks(reg, c.at)
  /\ c.k = "slot" => /\ j = Size(reg, e) /\ c.x = GetConst(Ender(reg, e).x)
                     /\ e = 1 => c.x = Onward(c.at)
  /\ c.k = "brind" => e = 1 /\ AsmAt(c.at).op = "jalr"
  /\ c.k = "call" /\ c.x \in Raises => e = 1 /\ AsmAt(c.at).op \in Raises
  /\ c.k = "op" \/ (c.k = "call" /\ c.x \notin Raises) => j < Size(reg, e)

LEMMA HostKinds ==
  ASSUME NEW reg, NEW B, Whole(reg, B), Flow(reg), NEW e \in 1 .. Len(B), NEW j \in 1 .. Size(reg, e)
  PROVE  Kinds(reg, e, j, HostAt(reg, e, j))
  <1> DEFINE i == Nth(reg, e, j)
             s == Size(reg, e)
             c == HostAt(reg, e, j)
  <1>1. /\ NumBlocks(reg) = Len(B) /\ Len(B) \in Nat /\ s \in Nat
        /\ BlockEnds(Ender(reg, e)) /\ \A l \in 1 .. s - 1 : ~BlockEnds(Nth(reg, e, l))
    BY WholeIs
  <1>2. IF BlockEnds(i) THEN j = s /\ i = Ender(reg, e) ELSE j < s
    <2>1. CASE j = s
      BY <1>1, <2>1 DEF Ender
    <2>2. CASE j # s
      <3>1. j \in 1 .. s - 1 /\ j < s
        BY <1>1, <2>2
      <3> QED
        BY <1>1, <3>1
    <2> QED
      BY <2>1, <2>2
  <1>3. e = 1 => Fine(i)
    BY DEF Flow, Ordered
  <1>4. BlockEnds(i) /\ e # 1 => i.op = "gbr"
    <2>1. e # 1 => e \in 2 .. NumBlocks(reg)
      BY <1>1
    <2> QED
      BY <1>2, <2>1 DEF Flow
  <1>5. j # 0
    OBVIOUS
  <1>6. /\ c.at = i.at
        /\ i.op = "br" => c.k = "jmp" /\ c.x = reg.succs[e][1]
        /\ i.op = "brcc" => c.k = "jcc" /\ c.x = reg.succs[e][1]
        /\ i.op = "gbr" => c.k = "slot" /\ c.x = GetConst(i.x)
        /\ i.op = "gbrind" => c.k = "brind"
        /\ i.op = "hcall" => c.k = "call" /\ c.x = i.x
        /\ i.op \notin {"br", "brcc", "gbr", "gbrind", "hcall"} => c.k = "op"
    BY <1>5 DEF HostAt
  <1>7. /\ i.op = "br" => e = 1 /\ c.x = 1 /\ Onward(i.at) = Entry
        /\ i.op = "brcc" => e = 1 /\ j = s /\ c.x = reg.succs[1][1] /\ Forks(reg, i.at)
    <2>1. i.op \in {"br", "brcc"} => BlockEnds(i)
      BY DEF BlockEnds
    <2> HIDE DEF i, c
    <2>2. i.op \in {"br", "brcc"} => e = 1 /\ i = Ender(reg, 1) /\ j = s
      BY <1>2, <1>4, <2>1
    <2>3. i.op = "br" => reg.succs[1][1] = 1
      BY <2>2 DEF Flow
    <2>4. i.op = "brcc" => Forks(reg, i.at)
      BY <2>2 DEF Flow
    <2>5. i.op = "br" => Onward(i.at) = Entry
      BY <1>3, <2>2 DEF Fine
    <2> QED
      BY <1>6, <2>2, <2>3, <2>4, <2>5
  <1>8. i.op = "gbr" => j = s /\ c.x = GetConst(Ender(reg, e).x) /\ (e = 1 => c.x = Onward(i.at))
    <2>1. i.op = "gbr" => BlockEnds(i)
      BY DEF BlockEnds
    <2> HIDE DEF i, c
    <2> QED
      BY <1>2, <1>3, <1>6, <2>1 DEF Fine
  <1>9. /\ i.op = "gbrind" => e = 1 /\ AsmAt(i.at).op = "jalr"
        /\ i.op = "hcall" /\ i.x \in Raises => e = 1 /\ AsmAt(i.at).op \in Raises
    <2>1. i.op = "gbrind" \/ (i.op = "hcall" /\ i.x \in Raises) => BlockEnds(i)
      BY DEF BlockEnds
    <2> HIDE DEF i, c
    <2> QED
      BY <1>3, <1>4, <2>1 DEF Fine
  <1>10. i.op \notin {"br", "brcc", "gbr", "gbrind"} /\ ~(i.op = "hcall" /\ i.x \in Raises) => j < s
    BY <1>2 DEF BlockEnds
  <1>11. Kinds(reg, e, j, c)
    <2> HIDE DEF i, c, s
    <2>1. CASE i.op = "br"
      BY <1>6, <1>7, <2>1 DEF Kinds, i
    <2>2. CASE i.op = "brcc"
      BY <1>6, <1>7, <2>2 DEF Kinds, i, s
    <2>3. CASE i.op = "gbr"
      BY <1>6, <1>8, <2>3 DEF Kinds, i, s
    <2>4. CASE i.op = "gbrind"
      BY <1>6, <1>9, <2>4 DEF Kinds, i, s
    <2>5. CASE i.op = "hcall"
      BY <1>6, <1>9, <1>10, <2>5 DEF Kinds, i, s
    <2>6. CASE i.op \notin {"br", "brcc", "gbr", "gbrind", "hcall"}
      BY <1>6, <1>10, <2>6 DEF Kinds, i, s
    <2> QED
      BY <2>1, <2>2, <2>3, <2>4, <2>5, <2>6
  <1> QED
    BY <1>11

\* The run is at place p of code c, the guest where g says.
Running(c, reg, p, g) ==
  \E P, e, j :
    /\ Laid(P, c, reg, NumBlocks(reg), Size(reg, NumBlocks(reg)))
    /\ p \in 1 .. Len(c) /\ P[p] = <<e, j>> /\ Guided(reg, e, j, g)

\* The run left by h where the guest does.
Left(h, g) ==
  /\ h.k = "slot" => h.x = Toward(g)
  /\ h.k = "brind" => AsmAt(g.at).op = "jalr"
  /\ h.k = "call" => AsmAt(g.at).op \in Raises
  /\ h.k \in {"slot", "brind", "call"}

\* The place of a run.
Place(B, P, e, j) ==
  /\ Whole(R, B) /\ NumBlocks(R) = Len(B) /\ Len(B) \in Nat
  /\ Laid(P, code, R, Len(B), Size(R, Len(B))) /\ pc \in 1 .. Len(code) /\ pc \in DOMAIN code
  /\ P[pc] = <<e, j>> /\ Guided(R, e, j, cur)
  /\ e \in 1 .. Len(B) /\ j \in 0 .. Size(R, e) /\ Size(R, e) \in Nat /\ Size(R, e) > 0
  /\ code[pc] = HostAt(R, e, j)
  /\ j # 0 => Kinds(R, e, j, code[pc])
  /\ j = 0 => code[pc].k = "label" /\ code[pc].b = e

LEMMA RunPlace ==
  ASSUME ListInv, phase = "run", Flow(R), Running(code, R, pc, cur)
  PROVE  \E B, P, e, j : Place(B, P, e, j)
  <1>1. PICK B : Whole(R, B)
    BY DEF ListInv
  <1>2. NumBlocks(R) = Len(B) /\ Len(B) \in Nat
    BY <1>1, WholeIs
  <1>3. PICK P, e, j : /\ Laid(P, code, R, Len(B), Size(R, Len(B))) /\ pc \in 1 .. Len(code)
                       /\ P[pc] = <<e, j>> /\ Guided(R, e, j, cur)
    BY <1>2 DEF Running
  <1>4. e \in 1 .. Len(B) /\ j \in 0 .. Size(R, e) /\ Size(R, e) \in Nat /\ code[pc] = HostAt(R, e, j)
    BY <1>1, <1>3, PlaceIs
  <1>5. Size(R, e) > 0
    BY <1>1, <1>4, WholeIs
  <1>6. j # 0 => j \in 1 .. Size(R, e)
    BY <1>4
  <1>7. j # 0 => Kinds(R, e, j, code[pc])
    BY <1>1, <1>4, <1>6, HostKinds
  <1>8. j = 0 => code[pc].k = "label" /\ code[pc].b = e
    BY <1>4 DEF HostAt
  <1>9. pc \in DOMAIN code
    <2>1. IsSeq(code)
      BY <1>3 DEF Laid
    <2> QED
      BY <1>3, <2>1, AppendSeq
  <1>10. Place(B, P, e, j)
    BY <1>1, <1>2, <1>3, <1>4, <1>5, <1>7, <1>8, <1>9 DEF Place
  <1> QED
    BY <1>10

\* A step to place <<f, l>>.
LEMMA RunsTo ==
  ASSUME NEW B, NEW P, NEW e, NEW j, Place(B, P, e, j), NEW p \in 1 .. Len(code), NEW f, NEW l,
         P[p] = <<f, l>>, NEW g, Guided(R, f, l, g)
  PROVE  Running(code, R, p, g)
  BY DEF Running, Place

\* The place behind one that does not end its block.
LEMMA RunsOn ==
  ASSUME NEW B, NEW P, NEW e, NEW j, Place(B, P, e, j), j < Size(R, e), NEW g, Guided(R, e, j + 1, g)
  PROVE  Running(code, R, pc + 1, g)
  <1>1. pc + 1 \in 1 .. Len(code) /\ P[pc + 1] = <<e, j + 1>>
    <2>1. /\ Whole(R, B) /\ Laid(P, code, R, Len(B), Size(R, Len(B)))
          /\ pc \in 1 .. Len(code) /\ P[pc] = <<e, j>>
      BY DEF Place
    <2> QED
      BY <2>1, PlaceIs
  <1> QED
    BY <1>1, RunsTo

\* The order of the first block.
LEMMA InFirst ==
  ASSUME Flow(R), NEW j \in 1 .. Size(R, 1), NEW l \in 1 .. j
  PROVE  /\ Nth(R, 1, j).at \in Int /\ Nth(R, 1, j).at >= Entry
         /\ Nth(R, 1, l).at <= Nth(R, 1, j).at
  BY DEF Flow, Ordered, Fine

LEMMA RunLabelFlow ==
  ASSUME ListInv, phase = "run", Flow(R), Running(code, R, pc, cur), RunLabel
  PROVE  Running(code, R, pc', cur')
  <1>1. PICK B, P, e, j : Place(B, P, e, j)
    BY RunPlace
  <1>2. code[pc].k = "label" /\ pc' = pc + 1 /\ cur' = IF code[pc].b = 1 THEN Start ELSE cur
    BY DEF RunLabel, AtHost, GoTo
  <1>3. j = 0 /\ code[pc].b = e /\ j < Size(R, e) /\ j + 1 = 1 /\ Size(R, e) \in Nat
    BY <1>1, <1>2 DEF Place, Kinds
  <1>4. CASE e = 1
    <2>1. 1 \in 1 .. Size(R, 1) /\ 1 \in 1 .. 1
      BY <1>3, <1>4
    <2>2. Nth(R, 1, 1).at \in Int /\ Nth(R, 1, 1).at >= Entry
      BY <2>1, InFirst
    <2>3. Entry \in Int
      BY FrontendAssumption, SMT
    <2>4. Start.taken = FALSE /\ Start.at \in Int /\ Start.at <= Nth(R, 1, 1).at
      BY <2>2, <2>3 DEF Start
    <2>5. cur' = Start
      BY <1>2, <1>3, <1>4
    <2>6. Guided(R, e, j + 1, Start)
      BY <1>3, <1>4, <2>4 DEF Guided
    <2> QED
      BY <1>1, <1>2, <1>3, <2>5, <2>6, RunsOn
  <1>5. CASE e # 1
    <2>1. Guided(R, e, j + 1, cur)
      BY <1>1, <1>5 DEF Place, Guided
    <2> QED
      BY <1>1, <1>2, <1>3, <1>5, <2>1, RunsOn
  <1> QED
    BY <1>4, <1>5

\* What Reached makes of cur.
LEMMA ReachedIs ==
  ASSUME NEW B, NEW P, NEW e, NEW j, Place(B, P, e, j), Flow(R), j # 0
  PROVE  /\ e = 1 => /\ Reached(code[pc]).taken = FALSE /\ Reached(code[pc]).at = code[pc].at
                     /\ code[pc].at \in Int /\ code[pc].at >= cur.at
         /\ e # 1 => Reached(code[pc]) = cur /\ code[pc].at = cur.at
                     /\ code[pc].at >= cur.at
  <1>1. j \in 1 .. Size(R, e) /\ Guided(R, e, j, cur) /\ code[pc].at = Nth(R, e, j).at
    BY DEF Place, Kinds
  <1>2. CASE e = 1
    <2>1. cur.taken = FALSE /\ cur.at \in Int /\ cur.at <= code[pc].at
      BY <1>1, <1>2 DEF Guided
    <2>2. code[pc].at \in Int
      BY <1>1, <1>2, InFirst
    <2> QED
      BY <1>2, <2>1, <2>2 DEF Reached
  <1>3. CASE e # 1
    <2>1. cur.at \in Int /\ Exit(R, e, cur.at, Toward(cur))
      BY <1>1, <1>3 DEF Guided
    <2>2. code[pc].at = cur.at
      BY <1>1, <2>1 DEF Exit
    <2> QED
      BY <1>3, <2>1, <2>2 DEF Reached
  <1> QED
    BY <1>2, <1>3

LEMMA RunOpFlow ==
  ASSUME ListInv, phase = "run", Flow(R), Running(code, R, pc, cur), RunOp
  PROVE  Running(code, R, pc', cur')
  <1>1. PICK B, P, e, j : Place(B, P, e, j)
    BY RunPlace
  <1>2. /\ code[pc].k \in {"op", "call"} /\ (code[pc].k = "call" => code[pc].x \notin Raises)
        /\ pc' = pc + 1 /\ cur' = Reached(code[pc])
    BY DEF RunOp, AtHost, GoTo
  <1>3. j # 0 /\ j < Size(R, e) /\ j \in Nat /\ Size(R, e) \in Nat
    BY <1>1, <1>2 DEF Place, Kinds
  <1>4. Guided(R, e, j + 1, cur')
    <2>1. CASE e = 1
      <3>1. cur'.taken = FALSE /\ cur'.at = Nth(R, 1, j).at /\ cur'.at \in Int
        BY <1>1, <1>2, <1>3, <2>1, ReachedIs DEF Place, Kinds
      <3>2. j + 1 \in 1 .. Size(R, 1) /\ j \in 1 .. j + 1 /\ j + 1 # 0
        BY <1>3, <2>1
      <3>3. Nth(R, 1, j).at <= Nth(R, 1, j + 1).at
        BY <3>2, InFirst
      <3> QED
        BY <2>1, <3>1, <3>2, <3>3 DEF Guided
    <2>2. CASE e # 1
      <3>1. cur' = cur
        BY <1>1, <1>2, <1>3, <2>2, ReachedIs
      <3> QED
        BY <1>1, <2>2, <3>1 DEF Place, Guided
    <2> QED
      BY <2>1, <2>2
  <1> QED
    BY <1>1, <1>2, <1>3, <1>4, RunsOn

LEMMA RunJmpFlow ==
  ASSUME ListInv, phase = "run", Flow(R), Running(code, R, pc, cur), RunJmp
  PROVE  Running(code, R, pc', cur')
  <1>1. PICK B, P, e, j : Place(B, P, e, j)
    BY RunPlace
  <1>2. code[pc].k = "jmp" /\ pc' = Label(code[pc].x) /\ cur' = Reached(code[pc])
    BY DEF RunJmp, AtHost, GoTo
  <1>3. j # 0 /\ e = 1 /\ code[pc].x = 1 /\ Onward(code[pc].at) = Entry
    BY <1>1, <1>2 DEF Place, Kinds
  <1>4. cur'.taken = FALSE /\ cur'.at = code[pc].at
    BY <1>1, <1>2, <1>3, ReachedIs
  <1>5. Toward(cur') = Entry
    <2>1. Toward(cur') = Onward(cur'.at)
      BY <1>4, TowardIs, Zenon
    <2> QED
      BY <1>3, <1>4, <2>1
  <1>6. Guided(R, 1, 0, cur')
    BY <1>5 DEF Guided
  <1>7. Label(1) \in 1 .. Len(code) /\ P[Label(1)] = <<1, 0>>
    <2>1. 1 \in 1 .. Len(B)
      BY <1>1, <1>3 DEF Place
    <2> QED
      BY <1>1, <2>1, LabelIs DEF Place
  <1> QED
    BY <1>1, <1>2, <1>3, <1>6, <1>7, RunsTo

LEMMA RunJccTakenFlow ==
  ASSUME ListInv, phase = "run", Flow(R), Running(code, R, pc, cur), RunJccTaken
  PROVE  Running(code, R, pc', cur')
  <1> DEFINE t == R.succs[1][1]
             ip == code[pc].at
  <1>1. PICK B, P, e, j : Place(B, P, e, j)
    BY RunPlace
  <1>2. code[pc].k = "jcc" /\ pc' = Label(code[pc].x) /\ cur' = [at |-> ip, taken |-> TRUE]
    BY DEF RunJccTaken, AtHost, GoTo
  <1>3. j # 0 /\ e = 1 /\ code[pc].x = t /\ Forks(R, ip)
    BY <1>1, <1>2 DEF Place, Kinds
  <1>4. cur'.at = ip /\ Toward(cur') = Branched(ip)
    <2>1. cur'.at = ip
      BY <1>2
    <2>2. Toward(cur') = Branched(ip)
      BY <1>2, TowardIs, Zenon
    <2> QED
      BY <2>1, <2>2
  <1>5. ip \in Int
    BY <1>1, <1>3, ReachedIs
  <1> HIDE DEF ip
  <1>6. IF t = 1 THEN Branched(ip) = Entry ELSE Exit(R, t, ip, Branched(ip))
    BY <1>3 DEF Forks
  <1>7. t \in 1 .. Len(B) /\ Guided(R, t, 0, cur')
    <2>1. CASE t = 1
      BY <1>1, <1>3, <1>4, <1>6, <2>1 DEF Guided, Place
    <2>2. CASE t # 1
      <3>1. t \in 2 .. Len(B)
        BY <1>1, <1>6, <2>2 DEF Exit, Place
      <3>2. Len(B) \in Nat
        BY <1>1 DEF Place
      <3> QED
        BY <1>4, <1>5, <1>6, <2>2, <3>1, <3>2 DEF Guided
    <2> QED
      BY <2>1, <2>2
  <1> HIDE DEF t
  <1>8. Label(t) \in 1 .. Len(code) /\ P[Label(t)] = <<t, 0>>
    BY <1>1, <1>7, LabelIs DEF Place
  <1> QED
    BY <1>1, <1>2, <1>3, <1>7, <1>8, RunsTo

LEMMA RunJccNotFlow ==
  ASSUME ListInv, phase = "run", Flow(R), Running(code, R, pc, cur), RunJccNot
  PROVE  Running(code, R, pc', cur')
  <1> DEFINE ip == code[pc].at
  <1>1. PICK B, P, e, j : Place(B, P, e, j)
    BY RunPlace
  <1>2. code[pc].k = "jcc" /\ pc' = pc + 1 /\ cur' = [at |-> ip, taken |-> FALSE]
    BY DEF RunJccNot, AtHost, GoTo
  <1>3. j # 0 /\ e = 1 /\ j = Size(R, 1) /\ Forks(R, ip)
    BY <1>1, <1>2 DEF Place, Kinds
  <1>4. cur'.at = ip /\ Toward(cur') = Onward(ip)
    <2>1. cur'.at = ip
      BY <1>2
    <2>2. Toward(cur') = Onward(ip)
      BY <1>2, TowardIs, Zenon
    <2> QED
      BY <2>1, <2>2
  <1>5. ip \in Int
    BY <1>1, <1>3, ReachedIs
  <1> HIDE DEF ip
  <1>6. Exit(R, 2, ip, Onward(ip)) /\ 2 \in 2 .. Len(B) /\ Len(B) \in Nat
    BY <1>1, <1>3 DEF Forks, Exit, Place
  <1>7. Guided(R, 2, 0, cur')
    BY <1>4, <1>5, <1>6 DEF Guided
  <1>8. pc + 1 \in 1 .. Len(code) /\ P[pc + 1] = <<2, 0>>
    <2>1. e < Len(B) /\ e + 1 = 2
      BY <1>3, <1>6
    <2> QED
      BY <1>1, <1>3, <2>1, PlaceIs DEF Place
  <1> QED
    BY <1>1, <1>2, <1>7, <1>8, RunsTo

LEMMA LeaveFlow ==
  ASSUME ListInv, phase = "run", Flow(R), Running(code, R, pc, cur), Leave
  PROVE  Left(code[pc], cur')
  <1> DEFINE h == code[pc]
  <1>1. PICK B, P, e, j : Place(B, P, e, j)
    BY RunPlace
  <1>2. /\ h.k \in {"slot", "brind", "call"} /\ (h.k = "call" => h.x \in Raises)
        /\ cur' = Reached(h)
    BY DEF Leave, AtHost
  <1>3. j # 0 /\ Kinds(R, e, j, h)
    BY <1>1, <1>2 DEF Place
  <1>4. e = 1 => cur'.taken = FALSE /\ cur'.at = h.at
    BY <1>1, <1>2, <1>3, ReachedIs
  <1>5. e # 1 => cur' = cur
    BY <1>1, <1>2, <1>3, ReachedIs
  <1>6. Guided(R, e, j, cur)
    BY <1>1 DEF Place
  <1> HIDE DEF h
  <1>7. h.k = "slot" => h.x = Toward(cur')
    <2>1. CASE e = 1
      <3>1. Toward(cur') = Onward(h.at)
        <4>1. Toward(cur') = Onward(cur'.at)
          BY <1>4, <2>1, TowardIs, Zenon
        <4> QED
          BY <1>4, <2>1, <4>1
      <3> QED
        BY <1>3, <2>1, <3>1 DEF Kinds
    <2>2. CASE e # 1
      <3>1. Exit(R, e, cur.at, Toward(cur))
        BY <1>6, <2>2 DEF Guided
      <3> QED
        BY <1>3, <1>5, <2>2, <3>1 DEF Kinds, Exit
    <2> QED
      BY <2>1, <2>2
  <1>8. h.k # "slot" => e = 1 /\ cur'.at = h.at
    BY <1>2, <1>3, <1>4 DEF Kinds
  <1>9. Left(h, cur')
    BY <1>2, <1>3, <1>7, <1>8 DEF Left, Kinds
  <1> QED
    BY <1>9 DEF h

\* The inductive invariant: how far the blocks follow the guest in each phase,
\* and where the run is in them.
FlowInv ==
  /\ phase = "translate" => NumBlocks(R) = 1 /\ Ordered(R, insn_ip - 4)
  /\ phase \in {"select", "regalloc", "emit", "run"} => Flow(R)
  /\ phase \in {"translate", "select", "regalloc", "emit"} => cur = Start
  /\ phase = "emit" => Emits(code, R, bb, it)
  /\ phase = "run" => Running(code, R, pc, cur)
  /\ phase = "left" => Left(code[pc], cur)

\* What is said of the guest stays true: its code does not change.
LEMMA FlowLater ==
  ASSUME prog' = prog
  PROVE  /\ Flow(R') => Flow(R)'
         /\ Ordered(R', insn_ip' - 4) => Ordered(R, insn_ip - 4)'
         /\ Running(code', R', pc', cur') => Running(code, R, pc, cur)'
         /\ Left(code[pc]', cur') => Left(code[pc], cur)'
         /\ Emits(code', R', bb', it') => Emits(code, R, bb, it)'
  <1>1. \A ip : AsmAt(ip)' = AsmAt(ip)
    BY DEF AsmAt
  <1>2. \A ip : Onward(ip)' = Onward(ip)
    BY <1>1, Zenon DEF Onward, GuestNext
  <1>3. \A ip : Branched(ip)' = Branched(ip)
    BY <1>1, Zenon DEF Branched, GuestNext
  <1>4. \A c : Toward(c)' = Toward(c)
    BY <1>1, Zenon DEF Toward, GuestNext
  <1>5. \A i : Fine(i)' <=> Fine(i)
    BY <1>1, <1>2 DEF Fine
  <1>6. Ordered(R', insn_ip' - 4) => Ordered(R, insn_ip - 4)'
    BY <1>5 DEF Ordered
  <1>7. \A h : Ordered(R', h) => Ordered(R, h)'
    BY <1>5 DEF Ordered
  <1>8. \A ip : Forks(R', ip) => Forks(R, ip)'
    BY <1>2, <1>3 DEF Forks
  <1>9. Flow(R') => Flow(R)'
    BY <1>7, <1>8 DEF Flow
  <1>10. \A e, j : Guided(R', e, j, cur') => Guided(R, e, j, cur)'
    BY <1>4 DEF Guided
  <1>11. Running(code', R', pc', cur') => Running(code, R, pc, cur)'
    BY <1>10 DEF Running
  <1>12. Left(code[pc]', cur') => Left(code[pc], cur)'
    BY <1>1, <1>4 DEF Left
  <1>13. Emits(code', R', bb', it') => Emits(code, R, bb, it)'
    BY DEF Emits
  <1> QED
    BY <1>6, <1>9, <1>11, <1>12, <1>13

LEMMA FlowInvInit ==
  ASSUME Init
  PROVE  FlowInv
  <1>1. PICK B : Translating(R, B)
    BY FirstBlock DEF Init
  <1>2. R.insts = <<>> /\ R.succs = Append(<<>>, <<>>)
    BY DEF Init, CreateBlock, EmptyRegion, NumBlocks
  <1>3. NumBlocks(R) = 1
    BY <1>2 DEF NumBlocks
  <1>4. Shape(R, B) /\ Len(B) > 0 /\ Size(R, 1) \in Nat
    BY <1>1, TrackIs
  <1>5. Len(B) = 1 /\ 1 \in 1 .. Len(B) /\ Size(R, 1) = Len(B[1])
    <2>1. NumBlocks(R) = Len(B) /\ Len(B) \in Nat
      BY <1>4, ListsAre
    <2>2. 1 \in 1 .. Len(B)
      BY <1>3, <2>1
    <2> QED
      BY <1>3, <1>4, <2>1, <2>2, ListsAre
  <1>6. Size(R, 1) = 0
    <2> SUFFICES ASSUME Size(R, 1) # 0 PROVE FALSE
      OBVIOUS
    <2>1. 1 \in 1 .. Len(B[1])
      BY <1>4, <1>5
    <2>2. B[1][1] \in 1 .. Len(R.insts)
      BY <1>4, <1>5, <2>1, InList
    <2>3. Len(R.insts) = 0
      BY <1>2
    <2> QED
      BY <2>2, <2>3
  <1>7. Ordered(R, insn_ip - 4)
    BY <1>6 DEF Ordered
  <1>8. phase = "translate" /\ cur = Start
    BY DEF Init
  <1> QED
    BY <1>3, <1>7, <1>8 DEF FlowInv

LEMMA TranslateFlow ==
  ASSUME DInv, ListInv, OprInv, FlowInv, Translate
  PROVE  FlowInv'
  <1> DEFINE a == AsmAt(insn_ip)
             made == TranslateInsn(R, 1, a, insn_ip, FieldS(Assemble(a), 0, 31))
             h == insn_ip - 4
  <1>1. /\ phase = "translate" /\ insn' = Insn(Word) /\ insn'.op # "illegal" /\ prog' = prog
        /\ insn_ip' = insn_ip + 4 /\ cur' = cur
        /\ R' = LET m == TranslateInsn(R, bb, insn', insn_ip, FieldS(Word, 0, 31))
                IN  IF Overflows(insn') THEN MakeGBr(m, bb, insn_ip + 4, insn_ip) ELSE m
        /\ IF Stops(insn') \/ Overflows(insn') THEN phase' = "select" ELSE phase' = phase
    BY DEF Translate
  <1>2. insn' = a /\ a.op # "illegal"
    BY <1>1, DecodeNext
  <1>3. Guest(a, insn_ip)
    BY <1>1, <1>2, NextGuest
  <1>4. bb = 1 /\ \E B : Translating(R, B)
    BY <1>1 DEF ListInv
  <1>5. R' = IF Overflows(a) THEN MakeGBr(made, 1, insn_ip + 4, insn_ip) ELSE made
    BY <1>1, <1>2, <1>4 DEF Word
  <1>6. Track(R, h) /\ cur = Start
    BY <1>1, <1>4 DEF Track, FlowInv
  <1>7. /\ insn_ip \in Int /\ insn_ip >= Entry /\ Entry \in Int
    BY FrontendAssumption, SMT DEF DInv
  <1>8. h \in Int /\ h <= insn_ip /\ insn_ip' - 4 = insn_ip
    BY <1>1, <1>7
  <1>9. R.locals \in Nat /\ NumGlobals + R.locals \in U16
    <2> DEFINE n == R.locals
               d == (insn_ip - Entry) \div 4
    <2>1. n \in Nat /\ n <= d /\ d < TB_MAX_INSNS
      BY <1>1 DEF OprInv
    <2>2. TB_MAX_INSNS \in Nat /\ TB_MAX_INSNS <= 65504 /\ d \in Int
      BY <1>7, FrontendAssumption, SMT
    <2> HIDE DEF d, n
    <2>3. n \in Nat /\ n <= 65503
      BY <2>1, <2>2, SMT
    <2>4. NumGlobals + n \in U16
      BY <2>3, SMT DEF U16, NumGlobals
    <2> QED
      BY <2>1, <2>4 DEF n
  <1> HIDE DEF h
  <1>10. IF Stops(a) THEN Flow(made) ELSE Track(made, insn_ip)
    BY <1>3, <1>6, <1>7, <1>8, <1>9, TranslateInsnFlow
  <1>11. ~Stops(a) => Onward(insn_ip) = insn_ip + 4
    <2>1. ~Stops(a) => a.op # "jal" /\ a.op \notin BranchOps
      BY DEF Stops, FlagBranch
    <2> QED
      BY <2>1, Zenon DEF Onward, GuestNext
  <1> HIDE DEF made
  <1>12. CASE Stops(a) \/ Overflows(a)
    <2>1. Flow(R')
      <3>1. CASE Stops(a)
        <4>1. ~Overflows(a)
          BY <3>1 DEF Overflows
        <4> QED
          BY <1>5, <1>10, <3>1, <4>1
      <3>2. CASE Overflows(a)
        <4>1. ~Stops(a)
          BY <3>2 DEF Overflows
        <4>2. U32(insn_ip + 4)
          BY <1>3 DEF Guest
        <4>3. Track(made, insn_ip) /\ insn_ip + 4 = Onward(insn_ip) /\ insn_ip <= insn_ip
          BY <1>7, <1>10, <1>11, <4>1
        <4>4. Flow(MakeGBr(made, 1, insn_ip + 4, insn_ip))
          BY <1>7, <4>2, <4>3, MakeGBrFlow
        <4> QED
          BY <1>5, <3>2, <4>4
      <3> QED
        BY <1>12, <3>1, <3>2
    <2>2. Flow(R)'
      BY <1>1, <2>1, FlowLater
    <2>3. phase' = "select" /\ cur' = Start /\ Start' = Start
      BY <1>1, <1>2, <1>6, <1>12 DEF Start
    <2> QED
      BY <2>2, <2>3 DEF FlowInv
  <1>13. CASE ~(Stops(a) \/ Overflows(a))
    <2>1. R' = made /\ Track(made, insn_ip)
      BY <1>5, <1>10, <1>13
    <2>2. NumBlocks(R') = 1 /\ Ordered(R', insn_ip' - 4)
      BY <1>8, <2>1 DEF Track
    <2>3. Ordered(R, insn_ip - 4)'
      BY <1>1, <2>2, FlowLater
    <2>4. phase' = "translate" /\ cur' = Start /\ Start' = Start
      BY <1>1, <1>2, <1>6, <1>13 DEF Start
    <2> QED
      BY <2>2, <2>3, <2>4 DEF FlowInv, NumBlocks
  <1> QED
    BY <1>12, <1>13

\* EmitEnd, behind the last block: the run starts at the first.
LEMMA EmitEndFlow ==
  ASSUME ListInv, Flow(R), phase = "emit", Emits(code, R, bb, it), cur = Start, EmitEnd
  PROVE  Running(code, R, pc', cur)
  <1>1. it < 0 /\ NextBlock = 0 /\ pc' = 1
    BY DEF EmitEnd
  <1>2. /\ bb \in 1 .. NumBlocks(R) /\ NextBlock = IF bb = NumBlocks(R) THEN 0 ELSE bb + 1
    BY <1>1, EmitsEnd
  <1>3. PICK P : Laid(P, code, R, bb, Size(R, bb))
    BY <1>1, EmitsEnd
  <1>4. bb = NumBlocks(R)
    BY <1>1, <1>2
  <1>5. P[1] = <<1, 0>> /\ 1 \in 1 .. Len(code)
    <2>1. IsSeq(code) /\ Len(code) > 0 /\ P[1] = <<1, 0>>
      BY <1>3 DEF Laid
    <2>2. Len(code) \in Nat
      BY <2>1, AppendSeq
    <2> QED
      BY <2>1, <2>2
  <1>6. Guided(R, 1, 0, cur)
    BY DEF Guided
  <1> QED
    BY <1>1, <1>3, <1>4, <1>5, <1>6 DEF Running

LEMMA FlowInvNext ==
  ASSUME DInv, ListInv, OprInv, FlowInv, [Next]_vars
  PROVE  FlowInv'
  <1>0. Start' = Start
    BY DEF Start
  <1>1. CASE Translate
    BY <1>1, TranslateFlow
  <1>2. CASE TranslateIllegal
    BY <1>2 DEF TranslateIllegal, FlowInv
  <1>3. CASE PassVisit
    <2>1. phase' = phase /\ phase \in {"select", "regalloc"} /\ prog' = prog /\ cur' = cur
      BY <1>3 DEF PassVisit, Passes
    <2>2. Flow(R) /\ cur = Start
      BY <2>1 DEF FlowInv
    <2>3. Flow(R)'
      BY <1>3, <2>1, <2>2, PassVisitFlow, FlowLater
    <2> QED
      BY <1>0, <2>1, <2>2, <2>3 DEF FlowInv
  <1>4. CASE PassNextBlock
    <2>1. /\ phase' = phase /\ phase \in {"select", "regalloc", "emit"} /\ prog' = prog
          /\ cur' = cur /\ R' = R
      BY <1>4 DEF PassNextBlock, Passes
    <2>2. Flow(R) /\ cur = Start
      BY <2>1 DEF FlowInv
    <2>3. Flow(R)'
      BY <2>1, <2>2, FlowLater
    <2>4. phase = "emit" => Emits(code, R, bb, it)'
      <3> SUFFICES ASSUME phase = "emit" PROVE Emits(code, R, bb, it)'
        OBVIOUS
      <3>1. Emits(code', R, bb', it')
        BY <1>4, EmitBlockFlow DEF FlowInv
      <3> QED
        BY <2>1, <3>1, FlowLater
    <2> QED
      BY <1>0, <2>1, <2>2, <2>3, <2>4 DEF FlowInv
  <1>5. CASE PassEnd
    <2>1. /\ phase \in {"select", "regalloc"} /\ prog' = prog /\ cur' = cur /\ R' = R
          /\ phase' = IF phase = "select" THEN "regalloc" ELSE "emit"
      BY <1>5 DEF PassEnd, Passes
    <2>2. Flow(R) /\ cur = Start
      BY <2>1 DEF FlowInv
    <2>3. Flow(R)'
      BY <2>1, <2>2, FlowLater
    <2>4. phase = "regalloc" => Emits(code, R, bb, it)'
      <3> SUFFICES ASSUME phase = "regalloc" PROVE Emits(code, R, bb, it)'
        OBVIOUS
      <3>1. Emits(code', R, bb', it')
        BY <1>5, EmitBegins
      <3> QED
        BY <2>1, <3>1, FlowLater
    <2> QED
      BY <1>0, <2>1, <2>2, <2>3, <2>4 DEF FlowInv
  <1>6. CASE EmitInst
    <2>1. phase = "emit" /\ phase' = "emit" /\ UNCHANGED <<prog, cur, R, bb>>
      BY <1>6 DEF EmitInst
    <2>2. Flow(R) /\ cur = Start /\ Emits(code, R, bb, it)
      BY <2>1 DEF FlowInv
    <2>3. Flow(R)'
      BY <2>1, <2>2, FlowLater
    <2>4. Emits(code', R, bb, it')
      BY <1>6, <2>2, EmitInstFlow
    <2>5. Emits(code, R, bb, it)'
      BY <2>1, <2>4, FlowLater
    <2> QED
      BY <1>0, <2>1, <2>2, <2>3, <2>5 DEF FlowInv
  <1>7. CASE EmitEnd
    <2>1. phase = "emit" /\ phase' = "run" /\ UNCHANGED <<prog, cur, R, code>>
      BY <1>7 DEF EmitEnd
    <2>2. Flow(R) /\ cur = Start /\ Emits(code, R, bb, it)
      BY <2>1 DEF FlowInv
    <2>3. Flow(R)'
      BY <2>1, <2>2, FlowLater
    <2>4. Running(code, R, pc', cur)
      BY <1>7, <2>1, <2>2, EmitEndFlow
    <2>5. Running(code, R, pc, cur)'
      BY <2>1, <2>4, FlowLater
    <2> QED
      BY <2>1, <2>3, <2>5 DEF FlowInv
  <1>8. CASE RunLabel \/ RunOp \/ RunJmp \/ RunJccTaken \/ RunJccNot
    <2>1. phase = "run" /\ phase' = "run" /\ UNCHANGED <<prog, R, code>>
      BY <1>8 DEF RunLabel, RunOp, RunJmp, RunJccTaken, RunJccNot, AtHost, GoTo
    <2>2. Flow(R) /\ Running(code, R, pc, cur)
      BY <2>1 DEF FlowInv
    <2>3. Flow(R)'
      BY <2>1, <2>2, FlowLater
    <2>4. Running(code, R, pc', cur')
      BY <1>8, <2>1, <2>2, RunLabelFlow, RunOpFlow, RunJmpFlow, RunJccTakenFlow, RunJccNotFlow
    <2>5. Running(code, R, pc, cur)'
      BY <2>1, <2>4, FlowLater
    <2> QED
      BY <2>1, <2>3, <2>5 DEF FlowInv
  <1>9. CASE Leave
    <2>1. phase = "run" /\ phase' = "left" /\ UNCHANGED <<prog, R, code, pc>>
      BY <1>9 DEF Leave, AtHost
    <2>2. Flow(R) /\ Running(code, R, pc, cur)
      BY <2>1 DEF FlowInv
    <2>3. Left(code[pc], cur')
      BY <1>9, <2>1, <2>2, LeaveFlow
    <2>4. Left(code[pc], cur)'
      BY <2>1, <2>3, FlowLater
    <2> QED
      BY <2>1, <2>4 DEF FlowInv
  <1>10. CASE Finished \/ UNCHANGED vars
    <2>1. UNCHANGED <<prog, phase, insn_ip, R, bb, it, code, pc, cur>>
      BY <1>10 DEF Finished, vars
    <2>2. /\ Flow(R) => Flow(R)'
          /\ Ordered(R, insn_ip - 4) => Ordered(R, insn_ip - 4)'
          /\ Running(code, R, pc, cur) => Running(code, R, pc, cur)'
          /\ Left(code[pc], cur) => Left(code[pc], cur)'
          /\ Emits(code, R, bb, it) => Emits(code, R, bb, it)'
      BY <2>1, FlowLater
    <2> QED
      BY <1>0, <2>1, <2>2 DEF FlowInv
  <1> QED
    BY <1>1, <1>2, <1>3, <1>4, <1>5, <1>6, <1>7, <1>8, <1>9, <1>10 DEF Next

LEMMA FlowInvSound ==
  ASSUME ListInv, FlowInv
  PROVE  HostFlowMatchesGuest
  <1>1. ASSUME phase = "run"
        PROVE  /\ pc \in DOMAIN code
               /\ code[pc].k = "label" /\ code[pc].b = 1 /\ cur # Start => Toward(cur) = Entry
               /\ code[pc].k # "label" => code[pc].at >= cur.at
    <2>1. Flow(R) /\ Running(code, R, pc, cur)
      BY <1>1 DEF FlowInv
    <2>2. PICK B, P, e, j : Place(B, P, e, j)
      BY <1>1, <2>1, RunPlace
    <2>3. pc \in DOMAIN code
      BY <2>2 DEF Place
    <2>4. code[pc].k = "label" /\ code[pc].b = 1 /\ cur # Start => Toward(cur) = Entry
      BY <2>2 DEF Place, Kinds, Guided
    <2>5. code[pc].k # "label" => code[pc].at >= cur.at
      <3>1. code[pc].k # "label" => j # 0
        BY <2>2 DEF Place
      <3> QED
        BY <2>1, <2>2, <3>1, ReachedIs
    <2> QED
      BY <2>3, <2>4, <2>5
  <1>2. ASSUME phase = "left"
        PROVE  CASE code[pc].k = "slot" -> code[pc].x = Toward(cur)
                 [] code[pc].k = "brind" -> AsmAt(cur.at).op = "jalr"
                 [] code[pc].k = "call" -> AsmAt(cur.at).op \in Raises
    <2>1. Left(code[pc], cur)
      BY <1>2 DEF FlowInv
    <2> QED
      BY <2>1 DEF Left
  <1> QED
    BY <1>1, <1>2, Zenon DEF HostFlowMatchesGuest, Toward

\* Whatever the guest's code, its entry and the movs of the passes, the host
\* code emitted for it runs its instructions in order, leaves for the address
\* the guest goes to or by a trap or an indirect branch where the guest has
\* one, comes back to its start only when the guest branches there, and never
\* runs past its end, although emission leaves out the jump to the block that
\* follows.
THEOREM HostFollowsGuest == Spec => []HostFlowMatchesGuest
  <1> DEFINE I == DInv /\ ListInv /\ OprInv /\ FlowInv
  <1>1. Init => I
    BY DInvInit, ListInvInit, OprInvInit, FlowInvInit
  <1>2. I /\ [Next]_vars => I'
    BY DInvNext, ListInvNext, OprInvNext, FlowInvNext
  <1>3. I => HostFlowMatchesGuest
    BY FlowInvSound
  <1> QED
    BY <1>1, <1>2, <1>3, PTL DEF Spec
=============================================================================
