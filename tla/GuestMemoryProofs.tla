------------------------- MODULE GuestMemoryProofs --------------------------
(***************************************************************************)
(* The guest address space for every page size, every number of pages,     *)
(* every ELF image and every sequence of brk, mmap2, munmap and stores:    *)
(* the tables stay inside guest space, brk hands out mapped zeroed memory, *)
(* and mmap2 without MAP_FIXED never takes a page that is in use.  Last,   *)
(* that the loader is right about the images for which it can be.          *)
(***************************************************************************)
EXTENDS GuestMemory, TLAPS, WellFoundedInduction

\* TypeOK with the list the loader walks.
Inv == TypeOK /\ phdrs \in Seq(Phdr)

-----------------------------------------------------------------------------
(* Arithmetic of pages *)

\* The sizes are natural numbers.
LEMMA Sizes ==
  /\ PAGE_SIZE \in Nat /\ PAGE_SIZE > 0
  /\ NPages \in Nat /\ NPages > 1
  /\ MinPage \in Nat /\ MinPage > 0 /\ MinPage < NPages
  /\ StackPages \in Nat /\ StackPages > 0 /\ StackPages < NPages - 1
  /\ ASpace \in Nat /\ ASpace = PAGE_SIZE * NPages /\ ASpace > 0
  <1>1. /\ PAGE_SIZE \in Nat /\ PAGE_SIZE > 0
        /\ NPages \in Nat /\ NPages > 1
        /\ MinPage \in Nat /\ MinPage > 0 /\ MinPage < NPages
        /\ StackPages \in Nat /\ StackPages > 0 /\ StackPages < NPages - 1
    BY GuestMemoryAssumption
  <1>2. PAGE_SIZE * NPages \in Nat /\ PAGE_SIZE * NPages > 0
    BY <1>1
  <1> QED
    BY <1>1, <1>2 DEF ASpace

\* Division by the page size.
LEMMA DivPage ==
  ASSUME NEW a \in Nat
  PROVE  /\ a \div PAGE_SIZE \in Nat
         /\ (a \div PAGE_SIZE) * PAGE_SIZE \in Nat
         /\ (a \div PAGE_SIZE) * PAGE_SIZE <= a
         /\ a < (a \div PAGE_SIZE) * PAGE_SIZE + PAGE_SIZE
  <1> DEFINE q == a \div PAGE_SIZE
             r == a % PAGE_SIZE
  <1>1. PAGE_SIZE \in Int /\ PAGE_SIZE > 0 /\ a \in Int /\ a >= 0
    BY Sizes
  <1>2. q \in Int /\ r \in 0 .. PAGE_SIZE - 1 /\ a = PAGE_SIZE * q + r
    BY <1>1, SMT
  <1> HIDE DEF q, r
  <1>3. q * PAGE_SIZE = PAGE_SIZE * q /\ PAGE_SIZE * q \in Int
    BY <1>1, <1>2
  <1>4. q >= 0
    BY <1>1, <1>2, SMT
  <1>5. q * PAGE_SIZE \in Nat /\ q * PAGE_SIZE <= a /\ a < q * PAGE_SIZE + PAGE_SIZE
    BY <1>1, <1>2, <1>3, <1>4
  <1> QED
    BY <1>2, <1>4, <1>5 DEF q

\* Division by the page size is monotone.
LEMMA DivMonotone ==
  ASSUME NEW a \in Nat, NEW b \in Nat, a <= b
  PROVE  a \div PAGE_SIZE <= b \div PAGE_SIZE
  <1> DEFINE p == a \div PAGE_SIZE
             q == b \div PAGE_SIZE
  <1>1. /\ p \in Nat /\ p * PAGE_SIZE \in Nat /\ p * PAGE_SIZE <= a
        /\ q \in Nat /\ q * PAGE_SIZE \in Nat /\ b < q * PAGE_SIZE + PAGE_SIZE
    BY DivPage
  <1> HIDE DEF p, q
  <1>2. PAGE_SIZE \in Nat /\ PAGE_SIZE > 0
    BY Sizes
  <1>3. ASSUME p > q PROVE FALSE
    <2>1. (q + 1) * PAGE_SIZE <= p * PAGE_SIZE
      BY <1>1, <1>2, <1>3
    <2>2. (q + 1) * PAGE_SIZE = q * PAGE_SIZE + PAGE_SIZE
      BY <1>1, <1>2
    <2> QED
      BY <1>1, <1>2, <2>1, <2>2
  <1> QED
    BY <1>1, <1>3 DEF p, q

\* The page of a byte of guest space.
LEMMA PageOfByte ==
  ASSUME NEW b \in Byte
  PROVE  b \div PAGE_SIZE \in Page
  <1> DEFINE q == b \div PAGE_SIZE
  <1>1. b \in Nat /\ b < PAGE_SIZE * NPages
    BY Sizes DEF Byte
  <1>2. q \in Nat /\ q * PAGE_SIZE \in Nat /\ q * PAGE_SIZE <= b
    BY <1>1, DivPage
  <1> HIDE DEF q
  <1>3. PAGE_SIZE \in Nat /\ PAGE_SIZE > 0 /\ NPages \in Nat
    BY Sizes
  <1>4. ASSUME q >= NPages PROVE FALSE
    <2>1. NPages * PAGE_SIZE <= q * PAGE_SIZE
      BY <1>2, <1>3, <1>4
    <2>2. NPages * PAGE_SIZE = PAGE_SIZE * NPages
      BY <1>3
    <2> QED
      BY <1>1, <1>2, <1>3, <2>1, <2>2
  <1>5. q \in 0 .. NPages - 1
    BY <1>2, <1>3, <1>4
  <1> QED
    BY <1>5 DEF q, Page

\* A remainder modulo the size of guest space is an address.
LEMMA ModByte ==
  ASSUME NEW a \in Int
  PROVE  a % ASpace \in Byte
  <1>1. ASpace \in Int /\ ASpace > 0
    BY Sizes
  <1>2. a % ASpace \in 0 .. ASpace - 1
    BY <1>1, SMT
  <1> QED
    BY <1>2 DEF Byte

\* roundup of a u32 is a page address inside guest space.
LEMMA RoundupByte ==
  ASSUME NEW a \in Nat
  PROVE  roundup(a) \in Byte /\ roundup(a) \div PAGE_SIZE \in Page
  <1> DEFINE m == (a + PAGE_SIZE - 1) % ASpace
  <1>1. a + PAGE_SIZE - 1 \in Int
    BY Sizes
  <1>2. m \in Byte
    BY <1>1, ModByte
  <1> HIDE DEF m
  <1>3. m \in Nat /\ m < ASpace /\ ASpace \in Nat
    BY <1>2, Sizes DEF Byte
  <1>4. (m \div PAGE_SIZE) * PAGE_SIZE \in Nat /\ (m \div PAGE_SIZE) * PAGE_SIZE <= m
    BY <1>3, DivPage
  <1>5. (m \div PAGE_SIZE) * PAGE_SIZE \in Byte
    BY <1>3, <1>4 DEF Byte
  <1>6. roundup(a) \in Byte
    BY <1>5 DEF roundup, m
  <1> QED
    BY <1>6, PageOfByte

\* The bytes of a set of pages lie in guest space.
LEMMA BytesType ==
  ASSUME NEW pages
  PROVE  Bytes(pages) \subseteq Byte
  BY DEF Bytes

\* A nonempty set of natural numbers has a least element.
LEMMA MinNat ==
  ASSUME NEW S \in SUBSET Nat, S # {}
  PROVE  Min(S) \in S /\ \A y \in S : Min(S) <= y
  <1>1. \E x \in S : \A y \in S : ~(<<y, x>> \in OpToRel(<, Nat))
    BY WFMin, NatLessThanWellFounded, Zenon
  <1>2. PICK x \in S : \A y \in S : ~(<<y, x>> \in OpToRel(<, Nat))
    BY <1>1
  <1>3. \A y \in S : x <= y
    <2> TAKE y \in S
    <2>1. x \in Nat /\ y \in Nat
      OBVIOUS
    <2>2. <<y, x>> \in Nat \X Nat
      BY <2>1
    <2>3. ~(y < x)
      BY <1>2, <2>2 DEF OpToRel
    <2> QED
      BY <2>1, <2>3
  <1> QED
    BY <1>3 DEF Min

\* The larger of two addresses.
LEMMA MaxTwo ==
  ASSUME NEW a \in Byte, NEW b \in Byte
  PROVE  Max({a, b}) \in Byte
  <1>1. a \in Int /\ b \in Int
    BY DEF Byte
  <1>2. \E x \in {a, b} : \A y \in {a, b} : x >= y
    BY <1>1
  <1>3. Max({a, b}) \in {a, b}
    BY <1>2 DEF Max
  <1> QED
    BY <1>3

-----------------------------------------------------------------------------
(* What the steps preserve *)

\* The host maps or unmaps pages: every byte that may hold something is still
\* in a mapped page.
LEMMA MapKeeps ==
  ASSUME TypeOK, NEW pages, NEW who \in Owners, MapFixed(pages, who),
         nonzero' \subseteq nonzero \cup Bytes(pages),
         who = "none" => nonzero' \cap Bytes(pages) = {}
  PROVE  /\ owner' \in [Page -> Owners]
         /\ nonzero' \subseteq {b \in Byte : owner'[b \div PAGE_SIZE] # "none"}
  <1>1. owner' = [p \in Page |-> IF p \in pages THEN who ELSE owner[p]]
    BY DEF MapFixed
  <1>2. owner \in [Page -> Owners] /\ nonzero \subseteq {b \in Byte : owner[b \div PAGE_SIZE] # "none"}
    BY DEF TypeOK
  <1>3. owner' \in [Page -> Owners]
    BY <1>1, <1>2
  <1>4. ASSUME NEW b \in nonzero'
        PROVE  b \in Byte /\ owner'[b \div PAGE_SIZE] # "none"
    <2>1. b \in Byte
      BY <1>2, <1>4 DEF Bytes
    <2>2. b \div PAGE_SIZE \in Page
      BY <2>1, PageOfByte
    <2>3. CASE b \div PAGE_SIZE \in pages
      <3>1. b \in Bytes(pages)
        BY <2>1, <2>3 DEF Bytes
      <3> QED
        BY <2>1, <2>2, <2>3, <3>1, <1>1, <1>4
    <2>4. CASE b \div PAGE_SIZE \notin pages
      <3>1. b \in nonzero
        BY <2>4, <1>4 DEF Bytes
      <3> QED
        BY <2>1, <2>2, <2>4, <3>1, <1>1, <1>2
    <2> QED
      BY <2>3, <2>4
  <1> QED
    BY <1>3, <1>4

\* MarkUsedPages marks pages.
LEMMA MarkType ==
  ASSUME NEW used \in SUBSET Page, NEW a, NEW n
  PROVE  MarkUsedPages(used, a, n) \subseteq Page
  BY DEF MarkUsedPages

\* A window LookupFreeRange finds is a page number.
LEMMA FoundType ==
  ASSUME TypeOK
  PROVE  Found \in Nat
  <1> DEFINE S == {s \in paddr .. NPages - plen : \A q \in s .. s + plen - 2 : q \notin used_pages}
  <1>1. paddr \in Nat /\ plen \in Nat /\ NPages \in Nat
    BY Sizes DEF TypeOK
  <1>2. Found = IF plen = 0 \/ S = {} THEN 0 ELSE Min(S)
    BY DEF Found, LookupFreeRange
  <1>3. S \in SUBSET Nat
    BY <1>1
  <1> HIDE DEF S
  <1>4. S # {} => Min(S) \in Nat
    BY <1>3, MinNat
  <1> QED
    BY <1>2, <1>4

LEMMA InitInv ==
  Init => Inv
  <1> SUFFICES ASSUME Init PROVE Inv
    OBVIOUS
  <1> USE DEF Init
  <1>1. used_pages \subseteq Page
    BY DEF MarkUsedPages
  <1>2. mmap_hint_page \in 0 .. NPages /\ brk \in Byte /\ plen \in 0 .. NPages
    BY Sizes DEF Byte
  <1>3. phdrs \in Seq(Phdr)
    BY GuestMemoryAssumption
  <1> QED
    BY <1>1, <1>2, <1>3 DEF Inv, TypeOK, Owners

LEMMA LoadSegmentStep ==
  ASSUME Inv, LoadSegment
  PROVE  Inv'
  <1> DEFINE ph == Head(phdrs)
             file == Span(rounddown(ph.vaddr), FileLen(ph))
             anon == Span(AnonStart(ph), AnonLen(ph))
             marked == MarkUsedPages(used_pages, rounddown(ph.vaddr) \div PAGE_SIZE,
                                     FileLen(ph) \div PAGE_SIZE)
  <1>1. TypeOK /\ phdrs \in Seq(Phdr)
    BY DEF Inv
  <1>2. /\ phdrs # <<>>
        /\ MapFixed(file \cup anon, "elf")
        /\ nonzero' = (nonzero \cup Bytes(file)) \ (Bytes(anon) \cup BssTail(ph))
        /\ used_pages' = MarkUsedPages(marked, AnonStart(ph) \div PAGE_SIZE,
                                       AnonLen(ph) \div PAGE_SIZE)
        /\ brk' = Max({brk, (ph.vaddr + ph.memsz) % ASpace})
        /\ phdrs' = Tail(phdrs)
        /\ UNCHANGED <<pc, mmap_hint_page, paddr, plen, paddr_wrapped>>
    BY DEF LoadSegment, searchvars
  <1>3. ph \in Phdr /\ phdrs' \in Seq(Phdr)
    BY <1>1, <1>2
  <1>4. brk' \in Byte
    <2>1. ph.vaddr \in Int /\ ph.memsz \in Int
      BY <1>3 DEF Phdr, Byte
    <2>2. (ph.vaddr + ph.memsz) % ASpace \in Byte
      BY <2>1, ModByte
    <2> QED
      BY <2>2, <1>1, <1>2, MaxTwo DEF TypeOK
  <1> HIDE DEF ph, file, anon
  <1>5. nonzero' \subseteq nonzero \cup Bytes(file \cup anon)
    BY <1>2 DEF Bytes
  <1>6. /\ owner' \in [Page -> Owners]
        /\ nonzero' \subseteq {b \in Byte : owner'[b \div PAGE_SIZE] # "none"}
    BY <1>1, <1>2, <1>5, MapKeeps DEF Owners
  <1>7. marked \in SUBSET Page
    BY <1>1, MarkType DEF TypeOK
  <1> HIDE DEF marked
  <1>8. used_pages' \subseteq Page
    BY <1>2, <1>7, MarkType
  <1> QED
    BY <1>1, <1>2, <1>3, <1>4, <1>6, <1>8 DEF Inv, TypeOK

\* The argument vectors are on the stack.
LEMMA ArgsOnStack ==
  ASSUME NEW n \in 1 .. StackPages
  PROVE  ArgVectors(n) \subseteq Bytes(NPages - 1 - StackPages .. NPages - 2)
  <1>1. NPages - 1 - n .. NPages - 2 \subseteq NPages - 1 - StackPages .. NPages - 2
    BY Sizes
  <1> QED
    BY <1>1 DEF ArgVectors, Bytes

LEMMA BootStackStep ==
  ASSUME Inv, BootStack
  PROVE  Inv'
  <1> DEFINE stack == NPages - 1 - StackPages .. NPages - 2
  <1>1. TypeOK /\ phdrs \in Seq(Phdr)
    BY DEF Inv
  <1>2. /\ MapFixed(stack, "stack")
        /\ \E n \in 1 .. StackPages : nonzero' = (nonzero \ Bytes(stack)) \cup ArgVectors(n)
        /\ used_pages' = MarkUsedPages(used_pages, NPages - 1 - StackPages, StackPages)
        /\ pc' = "run"
        /\ UNCHANGED <<phdrs, mmap_hint_page, brk, paddr, plen, paddr_wrapped>>
    BY DEF BootStack, searchvars
  <1>3. \A n \in 1 .. StackPages : ArgVectors(n) \subseteq Bytes(stack)
    BY ArgsOnStack
  <1> HIDE DEF stack
  <1>4. nonzero' \subseteq nonzero \cup Bytes(stack)
    BY <1>2, <1>3
  <1>5. /\ owner' \in [Page -> Owners]
        /\ nonzero' \subseteq {b \in Byte : owner'[b \div PAGE_SIZE] # "none"}
    BY <1>1, <1>2, <1>4, MapKeeps DEF Owners
  <1>6. used_pages' \subseteq Page
    BY <1>1, <1>2, MarkType DEF TypeOK
  <1> QED
    BY <1>1, <1>2, <1>5, <1>6 DEF Inv, TypeOK

\* The pages brk maps, or MAP_FIXED or munmap are asked for.
LEMMA MapStep ==
  ASSUME Inv, NEW pages, NEW who \in Owners, MapFixed(pages, who),
         nonzero' \subseteq nonzero, who = "none" => nonzero' \cap Bytes(pages) = {},
         used_pages' \subseteq Page, brk' \in Byte,
         UNCHANGED <<pc, phdrs, mmap_hint_page, searchvars>>
  PROVE  Inv'
  <1>1. TypeOK /\ phdrs \in Seq(Phdr)
    BY DEF Inv
  <1>2. /\ owner' \in [Page -> Owners]
        /\ nonzero' \subseteq {b \in Byte : owner'[b \div PAGE_SIZE] # "none"}
    BY <1>1, MapKeeps
  <1> QED
    BY <1>1, <1>2 DEF Inv, TypeOK, searchvars

LEMMA BrkStep ==
  ASSUME Inv, Brk
  PROVE  Inv'
  <1>1. TypeOK /\ phdrs \in Seq(Phdr) /\ Brks \subseteq Byte
    BY GuestMemoryAssumption DEF Inv
  <1>2. PICK n \in Brks : BrkInPage(n) \/ BrkGrow(n) \/ BrkFault(n)
    BY DEF Brk
  <1>3. CASE BrkInPage(n)
    <2>1. /\ nonzero' \subseteq nonzero /\ brk' \in Byte
          /\ UNCHANGED <<pc, phdrs, owner, used_pages, mmap_hint_page, paddr, plen, paddr_wrapped>>
      BY <1>1, <1>3 DEF BrkInPage, mmuvars, searchvars
    <2> QED
      BY <1>1, <2>1 DEF Inv, TypeOK
  <1>4. CASE BrkGrow(n)
    <2> DEFINE pages == Span(BrkPage, n - BrkPage)
    <2>1. /\ MapFixed(pages, "heap")
          /\ nonzero' \subseteq nonzero /\ brk' \in Byte
          /\ used_pages' = MarkUsedPages(used_pages, BrkPage \div PAGE_SIZE, Cardinality(pages))
          /\ UNCHANGED <<pc, phdrs, mmap_hint_page, searchvars>>
      BY <1>1, <1>4 DEF BrkGrow
    <2> HIDE DEF pages
    <2>2. used_pages' \subseteq Page
      BY <1>1, <2>1, MarkType DEF TypeOK
    <2> QED
      BY <2>1, <2>2, MapStep DEF Owners
  <1>5. CASE BrkFault(n)
    <2>1. /\ pc' = "aborted"
          /\ UNCHANGED <<phdrs, owner, brk, nonzero, used_pages, mmap_hint_page, paddr, plen, paddr_wrapped>>
      BY <1>5 DEF BrkFault, mmuvars, searchvars
    <2> QED
      BY <1>1, <2>1 DEF Inv, TypeOK
  <1> QED
    BY <1>2, <1>3, <1>4, <1>5

LEMMA SearchStep ==
  ASSUME Inv, SearchFails \/ SearchWraps \/ SearchFinds \/ PlacedOutside \/ PlacePanics
  PROVE  Inv'
  <1>1. TypeOK /\ phdrs \in Seq(Phdr)
    BY DEF Inv
  <1>2. UNCHANGED <<phdrs, owner, brk, nonzero, used_pages, mmap_hint_page>>
    BY DEF SearchFails, SearchWraps, SearchFinds, PlacedOutside, PlacePanics, mmuvars
  <1>3. paddr' \in Nat /\ plen' \in 0 .. NPages /\ paddr_wrapped' \in BOOLEAN
    <2>1. CASE SearchFails
      <3>1. paddr' = 0 /\ plen' = 0 /\ paddr_wrapped' = FALSE
        BY <2>1 DEF SearchFails, Idle
      <3>2. 0 \in 0 .. NPages
        BY Sizes
      <3> QED
        BY <3>1, <3>2
    <2>2. CASE SearchWraps
      BY <2>2, <1>1, Sizes DEF SearchWraps, TypeOK
    <2>3. CASE SearchFinds
      BY <2>3, <1>1, FoundType DEF SearchFinds, TypeOK
    <2>4. CASE PlacedOutside
      BY <2>4, <1>1 DEF PlacedOutside, TypeOK
    <2>5. CASE PlacePanics
      BY <2>5, <1>1 DEF PlacePanics, TypeOK, searchvars
    <2> QED
      BY <2>1, <2>2, <2>3, <2>4, <2>5
  <1>4. pc' \in {"load", "run", "search", "place", "aborted"}
    BY <1>1 DEF SearchFails, SearchWraps, SearchFinds, PlacedOutside, PlacePanics, TypeOK
  <1> QED
    BY <1>1, <1>2, <1>3, <1>4 DEF Inv, TypeOK

\* What mmap2 is given was free: nothing in guest memory changes.
LEMMA PlacedFacts ==
  ASSUME Inv, NEW p \in Page, Placed(p)
  PROVE  /\ nonzero' = nonzero
         /\ p + plen \in 0 .. NPages
         /\ \A q \in Page : q \in p .. p + plen - 1 => owner[q] = "none" /\ q >= MinPage
  <1>1. TypeOK
    BY DEF Inv
  <1>2. /\ nonzero' = nonzero \ Bytes(p .. p + plen - 1)
        /\ Free(p, plen) /\ p >= MinPage
    BY DEF Placed, HostAnswers
  <1>3. p \in Nat /\ plen \in Nat /\ NPages \in Nat /\ p <= NPages - 1 /\ MinPage \in Nat
    BY <1>1, Sizes DEF TypeOK, Page
  <1>4. \A q \in p .. p + plen - 1 : q \in Page /\ owner[q] = "none"
    BY <1>2 DEF Free
  <1>5. nonzero \cap Bytes(p .. p + plen - 1) = {}
    BY <1>1, <1>4 DEF TypeOK, Bytes
  <1>6. p + plen \in 0 .. NPages
    <2>1. CASE plen = 0
      BY <2>1, <1>3
    <2>2. CASE plen > 0
      <3>1. p + plen - 1 \in p .. p + plen - 1
        BY <2>2, <1>3
      <3>2. p + plen - 1 <= NPages - 1
        BY <3>1, <1>3, <1>4 DEF Page
      <3> QED
        BY <3>2, <1>3
    <2> QED
      BY <2>1, <2>2, <1>3
  <1>7. \A q \in p .. p + plen - 1 : q >= MinPage
    BY <1>2, <1>3
  <1> QED
    BY <1>2, <1>4, <1>5, <1>6, <1>7

LEMMA PlacedStep ==
  ASSUME Inv, NEW p \in Page, Placed(p)
  PROVE  Inv'
  <1> DEFINE pages == p .. p + plen - 1
  <1>1. TypeOK /\ phdrs \in Seq(Phdr)
    BY DEF Inv
  <1>2. /\ MapFixed(pages, "map")
        /\ used_pages' = MarkUsedPages(used_pages, p, plen)
        /\ mmap_hint_page' = p + plen
        /\ pc' = "run"
        /\ paddr' = 0 /\ plen' = 0 /\ paddr_wrapped' = FALSE
        /\ UNCHANGED <<phdrs, brk>>
    BY DEF Placed, Idle
  <1>3. nonzero' = nonzero /\ mmap_hint_page' \in 0 .. NPages
    BY <1>2, PlacedFacts
  <1> HIDE DEF pages
  <1>4. /\ owner' \in [Page -> Owners]
        /\ nonzero' \subseteq {b \in Byte : owner'[b \div PAGE_SIZE] # "none"}
    BY <1>1, <1>2, <1>3, MapKeeps DEF Owners
  <1>5. used_pages' \subseteq Page
    BY <1>1, <1>2, MarkType DEF TypeOK
  <1>6. plen' \in 0 .. NPages
    BY <1>2, Sizes
  <1> QED
    BY <1>1, <1>2, <1>3, <1>4, <1>5, <1>6 DEF Inv, TypeOK

LEMMA GuestStep ==
  ASSUME Inv, Guest
  PROVE  Inv'
  <1>1. TypeOK /\ phdrs \in Seq(Phdr)
    BY DEF Inv
  <1>2. ASSUME NEW len \in Lens, NEW p \in FixedPages \cup {0}, MmapAssert(p, len)
        PROVE  Inv'
    BY <1>1, <1>2 DEF Inv, TypeOK, MmapAssert, mmuvars, searchvars
  <1>3. ASSUME NEW len \in Lens, MmapStart(len)
        PROVE  Inv'
    <2>1. len \in Nat
      BY GuestMemoryAssumption DEF Byte
    <2>2. roundup(len) \div PAGE_SIZE \in 0 .. NPages - 1
      BY <2>1, RoundupByte DEF Page
    <2>3. /\ paddr' = mmap_hint_page /\ plen' = roundup(len) \div PAGE_SIZE
          /\ paddr_wrapped' = FALSE /\ pc' = "search"
          /\ UNCHANGED <<phdrs, owner, brk, nonzero, used_pages, mmap_hint_page>>
      BY <1>3 DEF MmapStart, mmuvars
    <2>4. plen' \in 0 .. NPages /\ paddr' \in Nat
      BY <1>1, <2>2, <2>3, Sizes DEF TypeOK
    <2> QED
      BY <1>1, <2>3, <2>4 DEF Inv, TypeOK
  <1>4. ASSUME NEW len \in Lens, NEW p \in FixedPages, MmapFixed(p, len)
        PROVE  Inv'
    <2> DEFINE pages == Span(p * PAGE_SIZE, len)
    <2>1. /\ MapFixed(pages, "map") /\ nonzero' \subseteq nonzero
          /\ used_pages' = MarkUsedPages(used_pages, p, roundup(len) \div PAGE_SIZE)
          /\ UNCHANGED <<pc, phdrs, mmap_hint_page, brk, searchvars>>
      BY <1>4 DEF MmapFixed
    <2> HIDE DEF pages
    <2>2. used_pages' \subseteq Page
      BY <1>1, <2>1, MarkType DEF TypeOK
    <2>3. brk' \in Byte
      BY <1>1, <2>1 DEF TypeOK
    <2> QED
      BY <2>1, <2>2, <2>3, MapStep DEF Owners
  <1>5. ASSUME NEW len \in Lens, NEW p \in FixedPages, Munmap(p, len)
        PROVE  Inv'
    <2> DEFINE pages == Span(p * PAGE_SIZE, len)
    <2>1. /\ MapFixed(pages, "none") /\ nonzero' = nonzero \ Bytes(pages)
          /\ UNCHANGED <<pc, phdrs, mmap_hint_page, used_pages, brk, searchvars>>
      BY <1>5 DEF Munmap, mmuvars
    <2> HIDE DEF pages
    <2>2. brk' \in Byte /\ used_pages' \subseteq Page
      BY <1>1, <2>1 DEF TypeOK
    <2> QED
      BY <2>1, <2>2, MapStep DEF Owners
  <1>6. ASSUME NEW p \in WritePages, GuestWrites(p)
        PROVE  Inv'
    <2>1. /\ owner[p] # "none" /\ nonzero' = nonzero \cup Bytes({p})
          /\ UNCHANGED <<pc, phdrs, owner, brk, used_pages, mmap_hint_page, paddr, plen, paddr_wrapped>>
      BY <1>6 DEF GuestWrites, mmuvars, searchvars
    <2>2. nonzero' \subseteq {b \in Byte : owner[b \div PAGE_SIZE] # "none"}
      BY <1>1, <2>1 DEF TypeOK, Bytes
    <2> QED
      BY <1>1, <2>1, <2>2 DEF Inv, TypeOK
  <1> QED
    BY <1>2, <1>3, <1>4, <1>5, <1>6 DEF Guest

-----------------------------------------------------------------------------
(* Theorems *)

\* Inv holds of every guest.
THEOREM MemoryInvariant == Spec => []Inv
  <1>1. ASSUME Inv, [Next]_vars
        PROVE  Inv'
    <2>1. CASE LoadAssert
      BY <1>1, <2>1 DEF LoadAssert, Inv, TypeOK, mmuvars, searchvars
    <2>2. CASE UNCHANGED vars
      BY <1>1, <2>2 DEF vars, Inv, TypeOK, mmuvars, searchvars
    <2> QED
      BY <1>1, <2>1, <2>2, LoadSegmentStep, BootStackStep, BrkStep, SearchStep, PlacedStep, GuestStep
      DEF Next, Mmu, Aborted
  <1> QED
    BY <1>1, InitInv, PTL DEF Spec

\* The tables of mmu, the break and the search stay inside guest space, and
\* only mapped bytes can hold something.
THEOREM MemoryTyped == Spec => []TypeOK
  <1>1. Inv => TypeOK
    BY DEF Inv
  <1> QED
    BY <1>1, MemoryInvariant, PTL

\* mmap2 without MAP_FIXED takes only free pages, though used_pages does not
\* know which are free: the answer of the host decides.
THEOREM MmapSafe == Spec => MmapTakesFreePages
  <1> DEFINE A == pc = "place" =>
                    /\ \A p \in Page : owner[p] # "none" => owner'[p] = owner[p]
                    /\ nonzero' = nonzero
                    /\ \A p \in 0 .. MinPage - 1 : owner'[p] = owner[p]
  <1>1. ASSUME Inv, [Next]_vars, pc = "place"
        PROVE  /\ \A p \in Page : owner[p] # "none" => owner'[p] = owner[p]
               /\ nonzero' = nonzero
               /\ \A p \in 0 .. MinPage - 1 : owner'[p] = owner[p]
    <2>1. CASE \E p \in Page : Placed(p)
      <3>1. PICK p \in Page : Placed(p)
        BY <2>1
      <3>2. /\ nonzero' = nonzero
            /\ \A q \in Page : q \in p .. p + plen - 1 => owner[q] = "none" /\ q >= MinPage
        BY <1>1, <3>1, PlacedFacts
      <3>3. owner' = [q \in Page |-> IF q \in p .. p + plen - 1 THEN "map" ELSE owner[q]]
        BY <3>1 DEF Placed, MapFixed
      <3>4. \A q \in 0 .. MinPage - 1 : q \in Page /\ ~(q >= MinPage)
        BY Sizes DEF Page
      <3> QED
        BY <3>2, <3>3, <3>4
    <2>2. CASE UNCHANGED <<owner, nonzero>>
      BY <2>2
    <2> QED
      BY <1>1, <2>1, <2>2
      DEF Next, LoadSegment, LoadAssert, BootStack, Brk, BrkInPage, BrkGrow, BrkFault, Mmu, SearchFails,
          SearchWraps, SearchFinds, PlacedOutside, PlacePanics, Guest, MmapAssert, MmapStart,
          MmapFixed, Munmap, GuestWrites, Aborted, vars
  <1>2. Inv /\ [Next]_vars => [A]_vars
    BY <1>1
  <1> QED
    BY <1>2, MemoryInvariant, PTL DEF Spec, MmapTakesFreePages

\* What brk hands out is mapped and zero.
LEMMA BrkFresh ==
  ASSUME Inv, NEW n \in Brks, BrkInPage(n) \/ BrkGrow(n), brk' # BrkPage, NEW b \in brk .. brk' - 1
  PROVE  owner'[b \div PAGE_SIZE] # "none" /\ b \notin nonzero'
  <1>1. TypeOK /\ n \in Byte /\ brk' = n
    BY GuestMemoryAssumption DEF Inv, BrkInPage, BrkGrow
  <1>2. brk \in Nat /\ n \in Nat /\ b \in Nat /\ b < n /\ brk <= b /\ b \in Byte /\ ASpace \in Nat
    BY <1>1, Sizes DEF TypeOK, Byte
  <1>3. b \div PAGE_SIZE \in Page
    BY <1>2, PageOfByte
  <1>4. CASE BrkInPage(n)
    <2>1. Mapped(brk .. n - 1) /\ nonzero' = nonzero \ (brk .. n - 1) /\ owner' = owner
      BY <1>1, <1>4 DEF BrkInPage
    <2> QED
      BY <2>1, <1>1 DEF Mapped
  <1>5. CASE BrkGrow(n)
    <2> DEFINE pages == Span(BrkPage, n - BrkPage)
    <2>1. /\ Mapped(brk .. BrkPage - 1)
          /\ owner' = [p \in Page |-> IF p \in pages THEN "heap" ELSE owner[p]]
          /\ nonzero' = nonzero \ (Bytes(pages) \cup (brk .. BrkPage - 1))
      BY <1>5 DEF BrkGrow, MapFixed
    <2>2. BrkPage \in Nat
      BY <1>2, RoundupByte DEF BrkPage, Byte
    <2>3. CASE b < BrkPage
      <3>1. b \in brk .. BrkPage - 1
        BY <2>2, <2>3, <1>2
      <3> HIDE DEF pages
      <3> QED
        BY <2>1, <3>1, <1>3 DEF Mapped
    <2>4. CASE b >= BrkPage
      <3>1. BrkPage \div PAGE_SIZE <= b \div PAGE_SIZE
        BY <2>2, <2>4, <1>2, DivMonotone
      <3>2. (b \div PAGE_SIZE) * PAGE_SIZE \in Nat /\ (b \div PAGE_SIZE) * PAGE_SIZE <= b
        BY <1>2, DivPage
      <3>3. (b \div PAGE_SIZE) * PAGE_SIZE < BrkPage + (n - BrkPage)
        BY <3>2, <2>2, <1>2
      <3>4. b \div PAGE_SIZE \in pages
        BY <3>1, <3>3, <1>3 DEF Span
      <3> HIDE DEF pages
      <3>5. b \in Bytes(pages)
        BY <3>4, <1>2 DEF Bytes
      <3> QED
        BY <3>4, <3>5, <2>1, <1>3
    <2> QED
      BY <2>2, <2>3, <2>4, <1>2
  <1> QED
    BY <1>4, <1>5

\* The heap brk hands out is mapped and reads as zero, but for the break that
\* lands on the end of its page.
THEOREM BrkSafe == Spec => HeapFresh
  <1> DEFINE A == pc = "run" /\ brk' # brk /\ brk' # BrkPage =>
                    \A b \in brk .. brk' - 1 :
                      owner'[b \div PAGE_SIZE] # "none" /\ b \notin nonzero'
  <1>1. ASSUME Inv, [Next]_vars, pc = "run", brk' # brk, brk' # BrkPage,
               NEW b \in brk .. brk' - 1
        PROVE  owner'[b \div PAGE_SIZE] # "none" /\ b \notin nonzero'
    <2>1. \E n \in Brks : BrkInPage(n) \/ BrkGrow(n)
      BY <1>1
      DEF Next, LoadSegment, LoadAssert, BootStack, Brk, BrkFault, Mmu, SearchFails,
          SearchWraps, SearchFinds, Placed, PlacedOutside, PlacePanics, Guest, MmapAssert, MmapStart,
          MmapFixed, Munmap, GuestWrites, Aborted, vars
    <2> QED
      BY <1>1, <2>1, BrkFresh
  <1>2. Inv /\ [Next]_vars => [A]_vars
    BY <1>1
  <1> QED
    BY <1>2, MemoryInvariant, PTL DEF Spec, HeapFresh

-----------------------------------------------------------------------------
(* The loader *)

\* The first byte of the stack.
StackStart == (NPages - 1 - StackPages) * PAGE_SIZE

\* A segment as the ELF specification has it, no larger in the file than in
\* memory, that lies below the stack, and for which the end of bss, which the
\* loader computes from the segment's page, comes out no lower than it is.
Suits(ph) ==
  /\ ph.filesz <= ph.memsz /\ ph.vaddr + ph.memsz <= StackStart
  /\ HasBss(ph) => ph.vaddr + ph.memsz <= AnonStart(ph) + AnonLen(ph)

\* An image of such segments, which ascend and share no page.
Proper(im) ==
  /\ \A k \in 1 .. Len(im) : Suits(im[k])
  /\ \A k \in 1 .. Len(im) : \A j \in 1 .. k - 1 :
       \A b \in im[j].vaddr .. im[j].vaddr + im[j].memsz - 1 :
         b \div PAGE_SIZE < im[k].vaddr \div PAGE_SIZE

\* Multiples of the page size.
LEMMA MulPage ==
  ASSUME NEW t \in Nat, NEW u \in Nat
  PROVE  /\ t * PAGE_SIZE \in Nat /\ u * PAGE_SIZE \in Nat
         /\ t * PAGE_SIZE + u * PAGE_SIZE = (t + u) * PAGE_SIZE
         /\ t < u => t * PAGE_SIZE + PAGE_SIZE <= u * PAGE_SIZE
         /\ t * PAGE_SIZE < u * PAGE_SIZE => t < u
  <1>1. PAGE_SIZE \in Nat /\ PAGE_SIZE > 0
    BY Sizes
  <1>2. t * PAGE_SIZE \in Nat /\ u * PAGE_SIZE \in Nat
    BY <1>1
  <1>3. t * PAGE_SIZE + u * PAGE_SIZE = (t + u) * PAGE_SIZE
    BY <1>1
  <1>4. ASSUME t < u PROVE t * PAGE_SIZE + PAGE_SIZE <= u * PAGE_SIZE
    <2>1. (t + 1) * PAGE_SIZE <= u * PAGE_SIZE
      BY <1>1, <1>4
    <2>2. (t + 1) * PAGE_SIZE = t * PAGE_SIZE + PAGE_SIZE
      BY <1>1
    <2> QED
      BY <2>1, <2>2
  <1>5. ASSUME t * PAGE_SIZE < u * PAGE_SIZE, t >= u PROVE FALSE
    <2>1. t * PAGE_SIZE >= u * PAGE_SIZE
      BY <1>1, <1>5
    <2> QED
      BY <1>2, <1>5, <2>1
  <1> QED
    BY <1>2, <1>3, <1>4, <1>5

\* Two pages at least lie above what is below the stack, and it is on no page
\* of the stack.
LEMMA BelowStack ==
  /\ StackStart \in Nat /\ StackStart + PAGE_SIZE + PAGE_SIZE <= ASpace
  /\ \A b \in Nat : b < StackStart => b \in Byte /\ b \div PAGE_SIZE \notin NPages - 1 - StackPages .. NPages - 2
  <1> DEFINE n == NPages - 1 - StackPages
             m == NPages - 2
  <1>1. n \in Nat /\ m \in Nat /\ n <= m /\ PAGE_SIZE \in Nat /\ NPages \in Nat /\ StackStart = n * PAGE_SIZE
    BY Sizes DEF StackStart
  <1>2. ASpace = m * PAGE_SIZE + 2 * PAGE_SIZE
    <2>1. ASpace = PAGE_SIZE * NPages
      BY Sizes
    <2>2. NPages = m + 2
      BY <1>1
    <2> HIDE DEF m
    <2>3. PAGE_SIZE * (m + 2) = m * PAGE_SIZE + 2 * PAGE_SIZE
      BY <1>1
    <2> QED
      BY <2>1, <2>2, <2>3
  <1> HIDE DEF n, m
  <1>3. n * PAGE_SIZE \in Nat /\ m * PAGE_SIZE \in Nat /\ n * PAGE_SIZE <= m * PAGE_SIZE
    BY <1>1, MulPage
  <1>4. StackStart \in Nat /\ StackStart + PAGE_SIZE + PAGE_SIZE <= ASpace /\ ASpace \in Nat
    BY <1>1, <1>2, <1>3, Sizes
  <1>5. ASSUME NEW b \in Nat, b < StackStart
        PROVE  b \in Byte /\ b \div PAGE_SIZE \notin n .. m
    <2> DEFINE q == b \div PAGE_SIZE
    <2>1. q \in Nat /\ q * PAGE_SIZE \in Nat /\ q * PAGE_SIZE <= b
      BY DivPage
    <2> HIDE DEF q
    <2>2. q * PAGE_SIZE < n * PAGE_SIZE
      BY <1>1, <1>3, <1>5, <2>1
    <2>3. q < n
      BY <1>1, <2>1, <2>2, MulPage
    <2>4. b \in Byte
      BY <1>1, <1>4, <1>5 DEF Byte
    <2> QED
      BY <1>1, <2>1, <2>3, <2>4 DEF q
  <1> QED
    BY <1>4, <1>5 DEF n, m

\* roundup where it does not wrap.
LEMMA RoundupIs ==
  ASSUME NEW a \in Nat, a + PAGE_SIZE <= ASpace
  PROVE  \E t \in Nat : roundup(a) = t * PAGE_SIZE /\ t * PAGE_SIZE \in Nat
                        /\ a <= t * PAGE_SIZE /\ t * PAGE_SIZE < a + PAGE_SIZE
  <1> DEFINE m == a + PAGE_SIZE - 1
             t == m \div PAGE_SIZE
  <1>1. PAGE_SIZE \in Nat /\ PAGE_SIZE > 0 /\ ASpace \in Nat /\ ASpace > 0
    BY Sizes
  <1>2. m \in Nat /\ m < ASpace
    BY <1>1
  <1>3. m % ASpace = m
    BY <1>1, <1>2, SMT
  <1>4. roundup(a) = t * PAGE_SIZE
    BY <1>3 DEF roundup
  <1>5. t \in Nat /\ t * PAGE_SIZE \in Nat /\ t * PAGE_SIZE <= m /\ m < t * PAGE_SIZE + PAGE_SIZE
    BY <1>2, DivPage
  <1> HIDE DEF t
  <1>6. a <= t * PAGE_SIZE /\ t * PAGE_SIZE < a + PAGE_SIZE
    BY <1>1, <1>5
  <1> QED
    BY <1>4, <1>5, <1>6

\* rounddown.
LEMMA RounddownIs ==
  ASSUME NEW a \in Nat
  PROVE  /\ rounddown(a) = (a \div PAGE_SIZE) * PAGE_SIZE /\ rounddown(a) \in Nat /\ rounddown(a) <= a
         /\ a % PAGE_SIZE = a - rounddown(a)
         /\ a \div PAGE_SIZE <= rounddown(a) \div PAGE_SIZE
  <1> DEFINE q == a \div PAGE_SIZE
             c == q * PAGE_SIZE
             r == c \div PAGE_SIZE
  <1>1. PAGE_SIZE \in Nat /\ PAGE_SIZE > 0
    BY Sizes
  <1>2. q \in Nat /\ c \in Nat /\ c <= a
    BY DivPage
  <1>3. PAGE_SIZE \in Int /\ a \in Int /\ a >= 0
    BY <1>1
  <1>4. rounddown(a) = c /\ a % PAGE_SIZE = a - c
    <2> DEFINE e == a % PAGE_SIZE
    <2>1. q \in Int /\ e \in 0 .. PAGE_SIZE - 1 /\ a = PAGE_SIZE * q + e
      BY <1>1, <1>3, SMT
    <2>2. rounddown(a) = a - e
      BY Zenon DEF rounddown
    <2> HIDE DEF e, q
    <2>3. PAGE_SIZE * q = q * PAGE_SIZE
      BY <1>1, <1>2
    <2>4. rounddown(a) = c /\ e = a - c
      BY <1>1, <1>2, <2>1, <2>2, <2>3
    <2> QED
      BY <2>4 DEF e
  <1>5. r \in Nat /\ r * PAGE_SIZE \in Nat /\ c < r * PAGE_SIZE + PAGE_SIZE
    BY <1>2, DivPage
  <1>6. q <= r
    <2> HIDE DEF r, q
    <2> SUFFICES ASSUME r < q PROVE FALSE
      BY <1>2, <1>5
    <2>1. r * PAGE_SIZE + PAGE_SIZE <= q * PAGE_SIZE
      BY <1>2, <1>5, MulPage
    <2> QED
      BY <1>1, <1>2, <1>5, <2>1
  <1> QED
    BY <1>2, <1>4, <1>6

FilePages(ph) == Span(rounddown(ph.vaddr), FileLen(ph))
AnonPages(ph) == Span(AnonStart(ph), AnonLen(ph))

\* A byte lies in the span that reaches it.
LEMMA InSpan ==
  ASSUME NEW b \in Byte, NEW a \in Nat, NEW n \in Nat, a <= b, b < a + n
  PROVE  b \div PAGE_SIZE \in Span(a, n)
  <1> DEFINE q == b \div PAGE_SIZE
  <1>1. b \in Nat /\ q \in Page
    BY Sizes, PageOfByte DEF Byte
  <1>2. q \in Nat /\ q * PAGE_SIZE \in Nat /\ q * PAGE_SIZE <= b
    BY <1>1, DivPage
  <1>3. a \div PAGE_SIZE <= q
    BY <1>1, DivMonotone
  <1> HIDE DEF q
  <1>4. q * PAGE_SIZE < a + n
    BY <1>1, <1>2
  <1>5. q \in Span(a, n)
    BY <1>1, <1>3, <1>4 DEF Span
  <1> QED
    BY <1>5 DEF q

\* What loading a segment maps and clears.
Covers(ph) ==
  /\ BssStart(ph) = ph.vaddr + ph.filesz
  /\ \A b \in ph.vaddr .. ph.vaddr + ph.memsz - 1 :
       b \in Byte /\ b \div PAGE_SIZE \in FilePages(ph) \cup AnonPages(ph)
  /\ \A b \in ph.vaddr + ph.filesz .. ph.vaddr + ph.memsz - 1 : b \in Bytes(AnonPages(ph)) \cup BssTail(ph)
  /\ \A p \in FilePages(ph) : ph.vaddr \div PAGE_SIZE <= p

LEMMA SegmentCovers ==
  ASSUME NEW ph \in Phdr, Suits(ph)
  PROVE  Covers(ph)
  <1> DEFINE v == ph.vaddr
             f == ph.filesz
             m == ph.memsz
             d == rounddown(v)
             o == PageOffs(ph)
  <1>1. /\ v \in Nat /\ f \in Nat /\ m \in Nat /\ f <= m /\ v + m <= StackStart
        /\ HasBss(ph) => v + m <= AnonStart(ph) + AnonLen(ph)
    BY Sizes DEF Phdr, Byte, Suits
  <1>2. /\ StackStart \in Nat /\ StackStart + PAGE_SIZE + PAGE_SIZE <= ASpace /\ ASpace \in Nat
        /\ PAGE_SIZE \in Nat /\ PAGE_SIZE > 0
        /\ \A b \in Nat : b < StackStart => b \in Byte
    BY BelowStack, Sizes
  <1>3. d \in Nat /\ d <= v /\ o = v - d /\ d = (v \div PAGE_SIZE) * PAGE_SIZE /\ v \div PAGE_SIZE \in Nat
        /\ v \div PAGE_SIZE <= d \div PAGE_SIZE
    BY <1>1, RounddownIs, DivPage DEF PageOffs
  <1>a. (HasBss(ph) <=> f # 0 /\ m > f) /\ FileLen(ph) = (IF f = 0 THEN 0 ELSE roundup(f + o))
    BY DEF HasBss, FileLen
  <1>b. f = 0 /\ m # 0 => AnonStart(ph) = d /\ AnonLen(ph) = roundup(m + o)
    BY DEF HasBss, AnonStart, AnonLen
  <1>c. \A p \in FilePages(ph) : p \in Nat /\ d \div PAGE_SIZE <= p
    BY Sizes DEF FilePages, Span, Page
  <1>d. (v + f) % ASpace = v + f
    <2> DEFINE x == v + f
    <2>1. x \in Nat /\ x < ASpace
      BY <1>1, <1>2
    <2> HIDE DEF x
    <2>2. x % ASpace = x
      BY <1>2, <2>1, SMT
    <2> QED
      BY <2>2 DEF x
  <1>4. BssStart(ph) = v + f
    BY <1>d DEF BssStart
  <1>5. \A b \in v .. v + m - 1 : b \in Byte /\ b \in Nat /\ d <= b
    BY <1>1, <1>2, <1>3
  <1>6. f # 0 => FileLen(ph) \in Nat /\ v + f <= d + FileLen(ph)
    <2> SUFFICES ASSUME f # 0 PROVE FileLen(ph) \in Nat /\ v + f <= d + FileLen(ph)
      OBVIOUS
    <2>1. f + o \in Nat /\ (f + o) + PAGE_SIZE <= ASpace
      BY <1>1, <1>2, <1>3
    <2>2. roundup(f + o) \in Nat /\ f + o <= roundup(f + o)
      BY <2>1, RoundupIs
    <2> QED
      BY <1>1, <1>3, <1>a, <2>2
  <1>7. ASSUME HasBss(ph)
        PROVE  /\ AnonStart(ph) \in Nat /\ v + f <= AnonStart(ph) /\ AnonStart(ph) <= d + FileLen(ph)
               /\ AnonStart(ph) < ASpace
    <2>1. v + f \in Nat /\ (v + f) + PAGE_SIZE <= ASpace
      BY <1>1, <1>2
    <2>2. PICK t \in Nat : /\ roundup(v + f) = t * PAGE_SIZE /\ t * PAGE_SIZE \in Nat
                           /\ v + f <= t * PAGE_SIZE /\ t * PAGE_SIZE < v + f + PAGE_SIZE
      BY <2>1, RoundupIs
    <2>3. AnonStart(ph) = t * PAGE_SIZE
      BY <1>4, <1>7, <2>2 DEF AnonStart
    <2>4. f + o \in Nat /\ (f + o) + PAGE_SIZE <= ASpace
      BY <1>1, <1>2, <1>3
    <2>5. PICK s \in Nat : /\ roundup(f + o) = s * PAGE_SIZE /\ s * PAGE_SIZE \in Nat /\ f + o <= s * PAGE_SIZE
      BY <2>4, RoundupIs
    <2>6. FileLen(ph) = s * PAGE_SIZE
      BY <1>7, <1>a, <2>5
    <2> DEFINE q == v \div PAGE_SIZE
    <2>a. q \in Nat /\ d = q * PAGE_SIZE
      BY <1>3
    <2> HIDE DEF q, d
    <2>7. d + FileLen(ph) = (q + s) * PAGE_SIZE /\ q + s \in Nat /\ (q + s) * PAGE_SIZE \in Nat
      BY <2>6, <2>a, MulPage
    <2>8. v + f <= (q + s) * PAGE_SIZE
      BY <1>1, <1>3, <2>5, <2>6, <2>7
    <2>9. t <= q + s
      <3> SUFFICES ASSUME q + s < t PROVE FALSE
        BY <2>2, <2>7
      <3>1. (q + s) * PAGE_SIZE + PAGE_SIZE <= t * PAGE_SIZE
        BY <2>2, <2>7, MulPage
      <3> QED
        BY <1>1, <1>2, <2>2, <2>7, <2>8, <3>1
    <2>10. t * PAGE_SIZE <= (q + s) * PAGE_SIZE
      <3>1. CASE t = q + s
        BY <2>2, <3>1
      <3>2. CASE t < q + s
        <4>1. t * PAGE_SIZE + PAGE_SIZE <= (q + s) * PAGE_SIZE
          BY <2>2, <2>7, <3>2, MulPage
        <4> QED
          BY <1>2, <2>2, <2>7, <4>1
      <3> QED
        BY <2>2, <2>7, <2>9, <3>1, <3>2
    <2> QED
      BY <1>1, <1>2, <2>1, <2>2, <2>3, <2>7, <2>10
  <1>8. AnonLen(ph) \in Nat
    <2>1. CASE HasBss(ph)
      <3> DEFINE x == (rounddown(v) + m - BssStart(ph)) % ASpace
      <3>1. rounddown(v) + m - BssStart(ph) \in Int
        BY <1>1, <1>3, <1>4
      <3>2. x \in Nat
        BY <3>1, ModByte, Sizes DEF Byte
      <3>3. AnonLen(ph) = roundup(x)
        BY <2>1 DEF AnonLen, HasBss
      <3> HIDE DEF x
      <3> QED
        BY <3>2, <3>3, RoundupByte, Sizes DEF Byte
    <2>2. CASE f = 0 /\ m # 0
      <3>1. m + o \in Nat
        BY <1>1, <1>3
      <3> QED
        BY <1>b, <2>2, <3>1, RoundupByte, Sizes DEF Byte
    <2>3. CASE ~HasBss(ph) /\ ~(f = 0 /\ m # 0)
      BY <2>3 DEF AnonLen
    <2> QED
      BY <2>1, <2>2, <2>3
  <1> HIDE DEF v, f, m, d, o
  <1>9. ASSUME NEW b \in v .. v + m - 1, f = 0
        PROVE  b \div PAGE_SIZE \in AnonPages(ph)
    <2>1. m # 0 /\ m + o \in Nat /\ (m + o) + PAGE_SIZE <= ASpace
      BY <1>1, <1>2, <1>3, <1>9
    <2>2. AnonStart(ph) = d /\ AnonLen(ph) \in Nat /\ m + o <= AnonLen(ph)
      BY <1>8, <1>9, <1>b, <2>1, RoundupIs
    <2>3. b \in Byte /\ d <= b /\ b < d + AnonLen(ph)
      BY <1>1, <1>3, <1>5, <2>2
    <2> QED
      BY <1>3, <2>2, <2>3, InSpan DEF AnonPages
  <1>10. ASSUME NEW b \in v .. v + m - 1, f # 0, b < d + FileLen(ph)
         PROVE  b \div PAGE_SIZE \in FilePages(ph)
    <2>1. b \in Byte /\ d <= b
      BY <1>5
    <2> QED
      BY <1>3, <1>6, <1>10, <2>1, InSpan DEF FilePages, d, v
  <1>11. ASSUME NEW b \in v .. v + m - 1, HasBss(ph), b >= AnonStart(ph)
         PROVE  b \div PAGE_SIZE \in AnonPages(ph)
    <2>1. b \in Byte /\ b < AnonStart(ph) + AnonLen(ph) /\ AnonStart(ph) \in Nat
      BY <1>1, <1>5, <1>7, <1>8, <1>11
    <2> QED
      BY <1>8, <1>11, <2>1, InSpan DEF AnonPages
  <1>12. ASSUME NEW b \in v .. v + m - 1
         PROVE  b \in Byte /\ b \div PAGE_SIZE \in FilePages(ph) \cup AnonPages(ph)
    <2>1. CASE f = 0
      BY <1>5, <1>9, <2>1
    <2>2. CASE f # 0 /\ b < d + FileLen(ph)
      BY <1>5, <1>10, <2>2
    <2>3. CASE f # 0 /\ b >= d + FileLen(ph)
      <3>1. m > f
        BY <1>1, <1>3, <1>5, <1>6, <2>3
      <3>2. HasBss(ph)
        BY <1>a, <2>3, <3>1
      <3>3. b >= AnonStart(ph)
        BY <1>3, <1>5, <1>6, <1>7, <2>3, <3>2
      <3> QED
        BY <1>5, <1>11, <3>2, <3>3
    <2>4. b \in Nat /\ (f # 0 => d + FileLen(ph) \in Nat)
      BY <1>3, <1>5, <1>6
    <2> QED
      BY <2>1, <2>2, <2>3, <2>4
  <1>13. ASSUME NEW b \in v + f .. v + m - 1
         PROVE  b \in Bytes(AnonPages(ph)) \cup BssTail(ph)
    <2>1. b \in v .. v + m - 1 /\ m > f /\ b \in Nat
      BY <1>1
    <2>2. b \in Byte
      BY <1>5, <2>1
    <2>3. CASE f = 0
      BY <1>9, <2>1, <2>2, <2>3 DEF Bytes
    <2>4. CASE f # 0
      <3>1. HasBss(ph)
        BY <1>a, <2>1, <2>4
      <3>2. CASE b >= AnonStart(ph)
        BY <1>11, <2>1, <2>2, <3>1, <3>2 DEF Bytes
      <3>3. CASE b < AnonStart(ph)
        <4> DEFINE x == AnonStart(ph) - BssStart(ph)
        <4>1. x \in Nat /\ x < ASpace /\ BssStart(ph) + x = AnonStart(ph)
          BY <1>1, <1>2, <1>4, <1>7, <3>1
        <4>2. BssTail(ph) = BssStart(ph) .. BssStart(ph) + (x % ASpace) - 1
          BY <3>1 DEF BssTail
        <4> HIDE DEF x
        <4>3. x % ASpace = x
          BY <1>2, <4>1, SMT
        <4>4. BssTail(ph) = BssStart(ph) .. BssStart(ph) + x - 1
          BY <4>2, <4>3
        <4>5. BssTail(ph) = v + f .. AnonStart(ph) - 1
          <5>1. BssStart(ph) \in Int /\ AnonStart(ph) \in Int
            BY <1>1, <1>4, <1>7, <3>1
          <5>2. BssStart(ph) + x - 1 = AnonStart(ph) - 1
            BY <4>1, <5>1
          <5> QED
            BY <1>4, <4>4, <5>2
        <4> QED
          BY <1>7, <2>1, <3>1, <3>3, <4>5
      <3> QED
        BY <1>7, <2>1, <3>1, <3>2, <3>3
    <2> QED
      BY <2>3, <2>4
  <1>14. \A p \in FilePages(ph) : v \div PAGE_SIZE <= p
    <2>1. d \div PAGE_SIZE \in Nat /\ v \div PAGE_SIZE \in Nat /\ v \div PAGE_SIZE <= d \div PAGE_SIZE
      BY <1>3, DivPage
    <2> DEFINE x == d \div PAGE_SIZE
               y == v \div PAGE_SIZE
    <2>2. \A p \in FilePages(ph) : p \in Nat /\ x <= p
      BY <1>c
    <2> HIDE DEF x, y
    <2>3. \A p \in FilePages(ph) : y <= p
      BY <2>1, <2>2 DEF x, y
    <2> QED
      BY <2>3 DEF y
  <1> QED
    BY <1>4, <1>12, <1>13, <1>14 DEF Covers, v, f, m

-----------------------------------------------------------------------------
(* The image *)

\* phdrs is the rest of a proper image, and what is before it is loaded.
LoadInv ==
  LET n == Len(image) - Len(phdrs)
  IN  /\ image \in Seq(Phdr) /\ Proper(image)
      /\ pc = "load" =>
           /\ phdrs \in Seq(Phdr) /\ Len(phdrs) <= Len(image)
           /\ \A i \in 1 .. Len(phdrs) : phdrs[i] = image[n + i]
           /\ \A k \in 1 .. n : Loaded(image[k])

LEMMA LoadInit ==
  ASSUME Init, Proper(image)
  PROVE  LoadInv
  <1>1. image \in Seq(Phdr) /\ phdrs = image
    BY GuestMemoryAssumption DEF Init
  <1> DEFINE m == Len(image)
  <1>2. m \in Nat
    BY <1>1
  <1> HIDE DEF m
  <1>3. m - m = 0 /\ 1 .. 0 = {} /\ m <= m /\ \A i \in 1 .. m : 0 + i = i
    BY <1>2
  <1> QED
    BY <1>1, <1>3 DEF LoadInv, m

\* Every segment of a proper image is one the loader covers.
LEMMA ProperCovers ==
  ASSUME NEW im \in Seq(Phdr), Proper(im), NEW k \in 1 .. Len(im)
  PROVE  im[k] \in Phdr /\ Suits(im[k]) /\ Covers(im[k])
  <1>1. im[k] \in Phdr
    OBVIOUS
  <1>2. Suits(im[k])
    BY DEF Proper
  <1> QED
    BY <1>1, <1>2, SegmentCovers

\* Loaded of a segment x, with what is mapped and what is not zero.
LoadedIn(x, o, z) ==
  /\ \A b \in x.vaddr .. x.vaddr + x.memsz - 1 : o[b \div PAGE_SIZE] # "none"
  /\ z \cap (BssStart(x) .. x.vaddr + x.memsz - 1) = {}

LEMMA LoadStep ==
  ASSUME LoadInv, LoadSegment
  PROVE  LoadInv'
  <1> DEFINE m == Len(image)
             l == Len(phdrs)
             ph == Head(phdrs)
             file == FilePages(ph)
             anon == AnonPages(ph)
  <1>1. /\ pc = "load" /\ phdrs # <<>> /\ pc' = pc /\ image' = image /\ phdrs' = Tail(phdrs)
        /\ MapFixed(file \cup anon, "elf")
        /\ nonzero' = (nonzero \cup Bytes(file)) \ (Bytes(anon) \cup BssTail(ph))
    BY DEF LoadSegment, FilePages, AnonPages
  <1>2. /\ image \in Seq(Phdr) /\ Proper(image) /\ phdrs \in Seq(Phdr) /\ l <= m
        /\ \A i \in 1 .. l : phdrs[i] = image[(m - l) + i]
        /\ \A k \in 1 .. m - l : Loaded(image[k])
    BY <1>1 DEF LoadInv
  <1>3. /\ m \in Nat /\ l \in Nat /\ l > 0 /\ ph = phdrs[1]
        /\ phdrs' \in Seq(Phdr) /\ Len(phdrs') = l - 1
        /\ \A i \in 1 .. l - 1 : phdrs'[i] = phdrs[i + 1]
    BY <1>1, <1>2
  <1> DEFINE n == m - l
             c == n + 1
  <1>4. n \in Nat /\ c \in 1 .. m /\ ph = image[c] /\ m - (l - 1) = c
    <2>1. 1 \in 1 .. l
      BY <1>3
    <2>2. phdrs[1] = image[(m - l) + 1]
      BY <1>2, <2>1
    <2> HIDE DEF m, l
    <2> QED
      BY <1>2, <1>3, <2>2
  <1>5. \A p \in Page : owner'[p] = IF p \in file \cup anon THEN "elf" ELSE owner[p]
    BY <1>1 DEF MapFixed
  <1>6. Covers(ph) /\ ph \in Phdr /\ \A k \in 1 .. n : Covers(image[k]) /\ image[k] \in Phdr
    <2>1. \A k \in 1 .. n : k \in 1 .. m
      BY <1>2, <1>3, <1>4
    <2> QED
      BY <1>2, <1>4, <2>1, ProperCovers
  <1> DEFINE z == nonzero'
             o == owner'
  <1>7. \A b \in z : b \in nonzero \/ b \in Bytes(file)
    BY <1>1
  <1>8. \A b \in z : b \notin Bytes(anon) /\ b \notin BssTail(ph)
    BY <1>1
  <1>9. \A k \in 1 .. n : LoadedIn(image[k], owner, nonzero)
    BY <1>2 DEF Loaded, Mapped, LoadedIn
  <1>10. \A k \in 1 .. n : \A b \in image[k].vaddr .. image[k].vaddr + image[k].memsz - 1 :
            b \div PAGE_SIZE < ph.vaddr \div PAGE_SIZE
    <2>1. \A k \in 1 .. n : k \in 1 .. c - 1
      BY <1>4
    <2> QED
      BY <1>2, <1>4, <2>1 DEF Proper
  <1>11. n + 1 = c /\ \A k \in 1 .. c : k \in 1 .. n \/ k = c
    BY <1>4
  <1> HIDE DEF ph, file, anon, m, l, n, c, z, o
  <1>12. LoadedIn(ph, o, z)
    <2>1. ASSUME NEW b \in ph.vaddr .. ph.vaddr + ph.memsz - 1
          PROVE  o[b \div PAGE_SIZE] # "none"
      <3>1. b \in Byte /\ b \div PAGE_SIZE \in file \cup anon
        BY <1>6 DEF Covers, file, anon
      <3>2. b \div PAGE_SIZE \in Page
        BY <3>1, PageOfByte
      <3> QED
        BY <1>5, <3>1, <3>2 DEF o
    <2>2. BssStart(ph) = ph.vaddr + ph.filesz
      BY <1>6 DEF Covers
    <2>3. \A b \in ph.vaddr + ph.filesz .. ph.vaddr + ph.memsz - 1 : b \in Bytes(anon) \cup BssTail(ph)
      BY <1>6 DEF Covers, anon
    <2>4. z \cap (BssStart(ph) .. ph.vaddr + ph.memsz - 1) = {}
      BY <1>8, <2>2, <2>3
    <2> QED
      BY <2>1, <2>4 DEF LoadedIn
  <1>13. ASSUME NEW k \in 1 .. n
         PROVE  LoadedIn(image[k], o, z)
    <2> DEFINE x == image[k]
    <2>1. Covers(x) /\ x \in Phdr /\ LoadedIn(x, owner, nonzero)
      BY <1>6, <1>9
    <2>2. /\ x.vaddr \in Nat /\ x.filesz \in Nat /\ x.memsz \in Nat
      BY <2>1, Sizes DEF Phdr, Byte
    <2>3. \A b \in x.vaddr .. x.vaddr + x.memsz - 1 : b \div PAGE_SIZE < ph.vaddr \div PAGE_SIZE
      BY <1>10
    <2> HIDE DEF x
    <2>4. ASSUME NEW b \in x.vaddr .. x.vaddr + x.memsz - 1
          PROVE  o[b \div PAGE_SIZE] # "none" /\ b \notin Bytes(file)
      <3> DEFINE q == b \div PAGE_SIZE
                 y == ph.vaddr \div PAGE_SIZE
      <3>1. b \in Byte /\ owner[q] # "none"
        BY <2>1 DEF Covers, LoadedIn
      <3>2. q \in Page
        BY <3>1, PageOfByte
      <3>3. q < y
        BY <2>3
      <3>4. \A p \in file : y <= p
        BY <1>6 DEF Covers, file
      <3>5. y \in Nat /\ q \in Nat
        <4>1. ph.vaddr \in Nat /\ b \in Nat
          BY <1>6, <3>1, Sizes DEF Phdr, Byte
        <4> QED
          BY <4>1, DivPage
      <3>6. b \in Bytes(file) => q \in file
        BY DEF Bytes
      <3> HIDE DEF q, y
      <3>7. o[q] # "none"
        BY <1>5, <3>1, <3>2 DEF o
      <3>8. q \notin file
        BY <3>3, <3>4, <3>5
      <3> QED
        BY <3>6, <3>7, <3>8 DEF q
    <2>5. BssStart(x) = x.vaddr + x.filesz
      BY <2>1 DEF Covers
    <2>6. \A b \in BssStart(x) .. x.vaddr + x.memsz - 1 : b \in x.vaddr .. x.vaddr + x.memsz - 1
      BY <2>2, <2>5
    <2>7. nonzero \cap (BssStart(x) .. x.vaddr + x.memsz - 1) = {}
      BY <2>1 DEF LoadedIn
    <2>8. z \cap (BssStart(x) .. x.vaddr + x.memsz - 1) = {}
      BY <1>7, <2>4, <2>6, <2>7
    <2>9. LoadedIn(x, o, z)
      BY <2>4, <2>8 DEF LoadedIn
    <2> QED
      BY <2>9 DEF x
  <1>14. \A k \in 1 .. c : LoadedIn(image[k], o, z)
    BY <1>4, <1>11, <1>12, <1>13
  <1>15. \A k \in 1 .. c : Loaded(image[k])'
    BY <1>1, <1>14 DEF Loaded, Mapped, LoadedIn, o, z
  <1>16. \A i \in 1 .. l - 1 : phdrs'[i] = image[c + i]
    <2>1. \A i \in 1 .. l - 1 : i + 1 \in 1 .. l /\ n + (i + 1) = c + i
      BY <1>3, <1>4, <1>11
    <2>2. \A i \in 1 .. l : phdrs[i] = image[n + i]
      BY <1>2 DEF n
    <2> QED
      BY <1>3, <2>1, <2>2
  <1>17. l - 1 <= m
    BY <1>2, <1>3
  <1>18. Proper(image') /\ image' \in Seq(Phdr) /\ Len(image') = m
    BY <1>1, <1>2 DEF m
  <1> QED
    BY <1>1, <1>3, <1>4, <1>15, <1>16, <1>17, <1>18 DEF LoadInv

\* The stack is mapped above the segments.
LEMMA BootLoads ==
  ASSUME LoadInv, BootStack
  PROVE  \A k \in 1 .. Len(image) : Loaded(image[k])'
  <1> DEFINE m == Len(image)
             stack == NPages - 1 - StackPages .. NPages - 2
             o == owner'
             z == nonzero'
  <1>1. /\ pc = "load" /\ phdrs = <<>> /\ image' = image /\ MapFixed(stack, "stack")
        /\ nonzero' \subseteq nonzero \cup Bytes(stack)
    BY ArgsOnStack DEF BootStack
  <1>2. image \in Seq(Phdr) /\ Proper(image) /\ Len(phdrs) = 0 /\ m \in Nat /\ m - 0 = m
    BY <1>1 DEF LoadInv
  <1>3. \A k \in 1 .. m : LoadedIn(image[k], owner, nonzero)
    BY <1>1, <1>2 DEF LoadInv, Loaded, Mapped, LoadedIn
  <1>4. \A p \in Page : o[p] = IF p \in stack THEN "stack" ELSE owner[p]
    BY <1>1 DEF MapFixed
  <1>5. \A b \in z : b \in nonzero \/ b \in Bytes(stack)
    BY <1>1
  <1> HIDE DEF m, stack, o, z
  <1>6. ASSUME NEW k \in 1 .. m
        PROVE  LoadedIn(image[k], o, z)
    <2> DEFINE x == image[k]
    <2>1. Covers(x) /\ x \in Phdr /\ Suits(x) /\ LoadedIn(x, owner, nonzero)
      BY <1>2, <1>3, ProperCovers DEF m
    <2> HIDE DEF x
    <2>2. x.vaddr \in Nat /\ x.filesz \in Nat /\ x.memsz \in Nat /\ x.vaddr + x.memsz <= StackStart
      BY <2>1, Sizes DEF Phdr, Byte, Suits
    <2>3. ASSUME NEW b \in x.vaddr .. x.vaddr + x.memsz - 1
          PROVE  o[b \div PAGE_SIZE] # "none" /\ b \notin Bytes(stack)
      <3>1. b \in Byte /\ owner[b \div PAGE_SIZE] # "none"
        BY <2>1 DEF Covers, LoadedIn
      <3>2. b \div PAGE_SIZE \in Page
        BY <3>1, PageOfByte
      <3>3. b \in Nat /\ b < StackStart
        BY <2>2, BelowStack
      <3>4. b \div PAGE_SIZE \notin stack
        BY <3>3, BelowStack DEF stack
      <3> QED
        BY <1>4, <3>1, <3>2, <3>4 DEF Bytes
    <2>4. BssStart(x) = x.vaddr + x.filesz
      BY <2>1 DEF Covers
    <2>5. \A b \in BssStart(x) .. x.vaddr + x.memsz - 1 : b \in x.vaddr .. x.vaddr + x.memsz - 1
      BY <2>2, <2>4
    <2>6. nonzero \cap (BssStart(x) .. x.vaddr + x.memsz - 1) = {}
      BY <2>1 DEF LoadedIn
    <2>7. z \cap (BssStart(x) .. x.vaddr + x.memsz - 1) = {}
      BY <1>5, <2>3, <2>5, <2>6
    <2>8. LoadedIn(x, o, z)
      BY <2>3, <2>7 DEF LoadedIn
    <2> QED
      BY <2>8 DEF x
  <1> QED
    BY <1>1, <1>6 DEF Loaded, Mapped, LoadedIn, m, o, z

LEMMA LoadInvNext ==
  ASSUME LoadInv, [Next]_vars
  PROVE  LoadInv'
  <1>1. CASE LoadSegment
    BY <1>1, LoadStep
  <1>2. CASE UNCHANGED vars
    BY <1>2 DEF vars, LoadInv, Loaded, Mapped
  <1>3. CASE LoadAssert \/ BootStack \/ Brk \/ Mmu \/ Guest
    <2>1. image' = image /\ pc' # "load"
      BY <1>3
      DEF LoadAssert, BootStack, Brk, BrkInPage, BrkGrow, BrkFault, Mmu, SearchFails, SearchWraps,
          SearchFinds, Placed, PlacedOutside, PlacePanics, Guest, MmapAssert, MmapStart, MmapFixed,
          Munmap, GuestWrites
    <2> QED
      BY <2>1 DEF LoadInv
  <1> QED
    BY <1>1, <1>2, <1>3 DEF Next, Aborted

\* A segment that starts a page suits the loader: only for one that does not
\* can the end of bss come out too low.
LEMMA AlignedSuits ==
  ASSUME NEW ph \in Phdr, ph.vaddr % PAGE_SIZE = 0, ph.filesz <= ph.memsz,
         ph.vaddr + ph.memsz <= StackStart
  PROVE  Suits(ph)
  <1> DEFINE v == ph.vaddr
             f == ph.filesz
             n == ph.memsz - ph.filesz
  <1>1. v \in Nat /\ f \in Nat /\ n \in Nat /\ ph.memsz = f + n /\ (v + f) + n <= StackStart
    BY Sizes DEF Phdr, Byte
  <1>2. /\ StackStart \in Nat /\ StackStart + PAGE_SIZE + PAGE_SIZE <= ASpace /\ ASpace \in Nat
        /\ PAGE_SIZE \in Nat /\ PAGE_SIZE > 0
    BY BelowStack, Sizes
  <1>3. rounddown(v) = v
    BY <1>1 DEF rounddown
  <1> SUFFICES ASSUME HasBss(ph) PROVE ph.vaddr + ph.memsz <= AnonStart(ph) + AnonLen(ph)
    BY DEF Suits
  <1> HIDE DEF n
  <1>4. BssStart(ph) = v + f
    <2> DEFINE x == v + f
    <2>1. x \in Nat /\ x < ASpace
      BY <1>1, <1>2
    <2> HIDE DEF x
    <2>2. x % ASpace = x
      BY <1>2, <2>1, SMT
    <2> QED
      BY <2>2 DEF x, BssStart
  <1>5. AnonLen(ph) = roundup(n)
    <2>1. rounddown(ph.vaddr) + ph.memsz - BssStart(ph) = n
      BY <1>1, <1>3, <1>4
    <2>2. n % ASpace = n
      BY <1>1, <1>2, SMT
    <2> QED
      BY <2>1, <2>2 DEF AnonLen, HasBss
  <1>6. AnonStart(ph) = roundup(v + f)
    BY <1>4 DEF AnonStart
  <1>7. n + PAGE_SIZE <= ASpace /\ (v + f) + PAGE_SIZE <= ASpace /\ v + f \in Nat
    BY <1>1, <1>2
  <1>8. roundup(n) \in Nat /\ n <= roundup(n)
    BY <1>1, <1>7, RoundupIs
  <1>9. roundup(v + f) \in Nat /\ v + f <= roundup(v + f)
    BY <1>7, RoundupIs
  <1> QED
    BY <1>1, <1>5, <1>6, <1>8, <1>9

\* Whatever the sizes, an ELF image with ascending segments below the stack is
\* loaded by LoadElf as it should be if the loader's end of bss is right for
\* it: every byte is mapped and bss is zero when the guest starts, although a
\* mapping may reach past its segment and the stack is mapped last.
THEOREM LoaderRight == Spec /\ Proper(image) => ImageLoaded
  <1> DEFINE A == pc = "load" /\ pc' = "run" => \A k \in DOMAIN image : Loaded(image[k])'
  <1>1. ASSUME LoadInv, [Next]_vars, pc = "load", pc' = "run"
        PROVE  \A k \in DOMAIN image : Loaded(image[k])'
    <2>1. BootStack
      BY <1>1
      DEF Next, LoadSegment, LoadAssert, Brk, BrkInPage, BrkGrow, BrkFault, Mmu, SearchFails,
          SearchWraps, SearchFinds, Placed, PlacedOutside, PlacePanics, Guest, MmapAssert, MmapStart,
          MmapFixed, Munmap, GuestWrites, Aborted, vars
    <2>2. DOMAIN image = 1 .. Len(image)
      BY <1>1 DEF LoadInv
    <2> QED
      BY <1>1, <2>1, <2>2, BootLoads
  <1>2. LoadInv /\ [Next]_vars => [A]_vars
    BY <1>1
  <1>3. Init /\ Proper(image) => LoadInv
    BY LoadInit
  <1>4. LoadInv /\ [Next]_vars => LoadInv'
    BY LoadInvNext
  <1> QED
    BY <1>2, <1>3, <1>4, PTL DEF Spec, ImageLoaded
=============================================================================
