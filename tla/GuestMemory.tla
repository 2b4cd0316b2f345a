----------------------------- MODULE GuestMemory ----------------------------
(***************************************************************************)
(* The guest address space: loading the ELF image and the initial stack    *)
(* (env.cpp), the heap that brk moves, mmap2 and munmap, and the search    *)
(* for free pages of mmu.cpp with the host kernel's answers to it.         *)
(*                                                                         *)
(* owner is what the host kernel has mapped at each guest page; nonzero is *)
(* the set of guest bytes that may hold something else than zero.          *)
(* Protection bits and file descriptors are left out.                      *)
(***************************************************************************)
EXTENDS Integers, Sequences, FiniteSets, FiniteSetsExt

CONSTANTS
  PAGE_SIZE,      \* bytes per page
  NPages,         \* pages of the guest address space
  MinPage,        \* MIN_MMAP_ADDR >> PAGE_BITS, also the host's mmap_min_addr
  StackPages,     \* pages of the initial stack
  Images,         \* ELF files: sequences of PT_LOAD headers
  Brks,           \* arguments of brk
  Lens,           \* lengths of mmap2, in bytes
  FixedPages,     \* pages the guest asks MAP_FIXED and munmap for
  WritePages      \* pages the guest writes to

ASpace == PAGE_SIZE * NPages
Page == 0 .. NPages - 1
Byte == 0 .. ASpace - 1

\* A PT_LOAD header; its fields are u32.
Phdr == [vaddr : Byte, filesz : Byte, memsz : Byte]

ASSUME GuestMemoryAssumption ==
  /\ PAGE_SIZE \in Nat \ {0}
  /\ MinPage \in Nat \ {0}
  /\ StackPages \in Nat \ {0}
  /\ NPages \in Nat /\ MinPage + StackPages < NPages
  /\ Images \subseteq Seq(Phdr)
  /\ Brks \subseteq Byte
  /\ Lens \subseteq Byte
  /\ FixedPages \subseteq Page
  /\ WritePages \subseteq Page

VARIABLES
  pc,              \* "load", "run", "search", "place" or "aborted"
  phdrs,           \* program headers not yet loaded
  image,           \* the ELF file
  owner,           \* Page -> what is mapped there
  used_pages,
  mmap_hint_page,
  brk,             \* Process::brk
  nonzero,
  paddr, plen, paddr_wrapped   \* locals of mmu::mmap

mmuvars == <<used_pages, mmap_hint_page>>
searchvars == <<paddr, plen, paddr_wrapped>>
vars == <<pc, phdrs, image, owner, brk, nonzero, mmuvars, searchvars>>

Owners == {"none", "elf", "stack", "heap", "map"}

\* The tables stay inside the guest address space.
TypeOK ==
  /\ pc \in {"load", "run", "search", "place", "aborted"}
  /\ owner \in [Page -> Owners]
  /\ used_pages \subseteq Page
  /\ mmap_hint_page \in 0 .. NPages
  /\ brk \in Byte
  /\ nonzero \subseteq {b \in Byte : owner[b \div PAGE_SIZE] # "none"}
  /\ paddr \in Nat
  /\ plen \in 0 .. NPages
  /\ paddr_wrapped \in BOOLEAN

-----------------------------------------------------------------------------
rounddown(a) == a - (a % PAGE_SIZE)

\* roundup of a u32.
roundup(a) == (((a + PAGE_SIZE - 1) % ASpace) \div PAGE_SIZE) * PAGE_SIZE

\* The pages of a mapping of len bytes at a page address.
Span(addr, len) ==
  {p \in Page : addr \div PAGE_SIZE <= p /\ p * PAGE_SIZE < addr + len}

Bytes(pages) == {b \in Byte : b \div PAGE_SIZE \in pages}

Mapped(S) == \A b \in S : owner[b \div PAGE_SIZE] # "none"

\* MarkUsedPages counts p from pvaddr while p < plen: its second argument is
\* an end, though every caller passes a length.
MarkUsedPages(used, pvaddr, n) == used \cup {p \in Page : pvaddr <= p /\ p < n}

\* A window of n pages at or above pvaddr.  Every page of it but the last is
\* tested.
LookupFreeRange(pvaddr, n) ==
  LET S == {s \in pvaddr .. NPages - n : \A q \in s .. s + n - 2 : q \notin used_pages}
  IN  IF n = 0 \/ S = {} THEN 0 ELSE Min(S)

\* The host kernel maps pages for who, replacing what was there.
MapFixed(pages, who) ==
  owner' = [p \in Page |-> IF p \in pages THEN who ELSE owner[p]]

\* mmu::Init marks MIN_MMAP_ADDR pages, a number of bytes.
Init ==
  /\ pc = "load"
  /\ image \in Images
  /\ phdrs = image
  /\ owner = [p \in Page |-> "none"]
  /\ used_pages = MarkUsedPages({}, 0, MinPage * PAGE_SIZE)
  /\ mmap_hint_page = MinPage
  /\ brk = 0
  /\ nonzero = {}
  /\ paddr = 0
  /\ plen = 0
  /\ paddr_wrapped = FALSE

-----------------------------------------------------------------------------
(* The loader *)

PageOffs(ph) == ph.vaddr % PAGE_SIZE
FileLen(ph) == IF ph.filesz = 0 THEN 0 ELSE roundup(ph.filesz + PageOffs(ph))

HasBss(ph) == ph.filesz # 0 /\ ph.memsz > ph.filesz
BssStart(ph) == (ph.vaddr + ph.filesz) % ASpace

\* The length of the anonymous mapping that follows the file's pages, or that
\* is the segment.  The end of bss is computed from the segment's page.
AnonLen(ph) ==
  CASE HasBss(ph) ->
         roundup((rounddown(ph.vaddr) + ph.memsz - BssStart(ph)) % ASpace)
    [] ph.filesz = 0 /\ ph.memsz # 0 -> roundup(ph.memsz + PageOffs(ph))
    [] OTHER -> 0

AnonStart(ph) == IF HasBss(ph) THEN roundup(BssStart(ph)) ELSE rounddown(ph.vaddr)

\* Mutant: the tail of the last file page is not cleared.
BssTailNone(ph) == {}

\* The bytes of bss that share a page with the end of the file's contents.
\* In the last page of guest space AnonStart is 0, and their number wraps to
\* what is left of the page.
BssTail(ph) ==
  IF HasBss(ph) THEN BssStart(ph) .. BssStart(ph) + ((AnonStart(ph) - BssStart(ph)) % ASpace) - 1
  ELSE {}

\* The assertion of mmu::mmap holds of the mappings of a segment.
LoadFits(ph) ==
  /\ ph.filesz # 0 => rounddown(ph.vaddr) + FileLen(ph) - 1 \in Byte
  /\ HasBss(ph) \/ (ph.filesz = 0 /\ ph.memsz # 0) =>
       AnonStart(ph) + AnonLen(ph) - 1 \in Byte

LoadAssert ==
  /\ pc = "load"
  /\ phdrs # <<>>
  /\ ~LoadFits(Head(phdrs))
  /\ pc' = "aborted"
  /\ UNCHANGED <<phdrs, image, owner, brk, nonzero, mmuvars, searchvars>>

\* One PT_LOAD header of LoadElf.  A mapping of length 0 fails and the loader
\* does not look at the result.
LoadSegment ==
  /\ pc = "load"
  /\ phdrs # <<>>
  /\ LoadFits(Head(phdrs))
  /\ LET ph == Head(phdrs)
         file == Span(rounddown(ph.vaddr), FileLen(ph))
         anon == Span(AnonStart(ph), AnonLen(ph))
         marked == MarkUsedPages(used_pages, rounddown(ph.vaddr) \div PAGE_SIZE,
                                 FileLen(ph) \div PAGE_SIZE)
     IN  /\ MapFixed(file \cup anon, "elf")
         /\ nonzero' = (nonzero \cup Bytes(file)) \ (Bytes(anon) \cup BssTail(ph))
         /\ used_pages' = MarkUsedPages(marked, AnonStart(ph) \div PAGE_SIZE,
                                        AnonLen(ph) \div PAGE_SIZE)
         /\ brk' = Max({brk, (ph.vaddr + ph.memsz) % ASpace})
  /\ phdrs' = Tail(phdrs)
  /\ UNCHANGED <<pc, image, mmap_hint_page, searchvars>>

\* InitArgVectors writes the argument strings and vectors from the top of the
\* stack down, into n pages.  They fit: the host, which handed them to main,
\* allows 6 MB of them, and the stack has 8.
ArgVectors(n) == Bytes(NPages - 1 - n .. NPages - 2)

\* The end of BootElf, and InitArgVectors.
BootStack ==
  /\ pc = "load"
  /\ phdrs = <<>>
  /\ LET first == NPages - 1 - StackPages
         stack == first .. NPages - 2
     IN  /\ MapFixed(stack, "stack")
         /\ \E n \in 1 .. StackPages :
              nonzero' = (nonzero \ Bytes(stack)) \cup ArgVectors(n)
         /\ used_pages' = MarkUsedPages(used_pages, first, StackPages)
  /\ pc' = "run"
  /\ UNCHANGED <<phdrs, image, mmap_hint_page, brk, searchvars>>

-----------------------------------------------------------------------------
(* brk.  A smaller argument, or a mapping the host refuses, changes        *)
(* nothing.                                                                *)

BrkPage == roundup(brk)

\* linux_brk inside the heap's last page clears what it hands out, unless the
\* break lands on the end of the page.
BrkInPage(newbrk) ==
  /\ pc = "run"
  /\ newbrk > brk
  /\ newbrk <= BrkPage
  /\ newbrk = BrkPage \/ Mapped(brk .. newbrk - 1)
  /\ nonzero' = IF newbrk = BrkPage THEN nonzero ELSE nonzero \ (brk .. newbrk - 1)
  /\ brk' = newbrk
  /\ UNCHANGED <<pc, phdrs, image, owner, mmuvars, searchvars>>

\* Mutant: the rest of the old last page is not cleared.
BrkGrowDirty(newbrk) ==
  /\ pc = "run"
  /\ newbrk > brk
  /\ newbrk > BrkPage
  /\ roundup(newbrk - BrkPage) # 0
  /\ Mapped(brk .. BrkPage - 1)
  /\ MapFixed(Span(BrkPage, newbrk - BrkPage), "heap")
  /\ nonzero' = nonzero \ Bytes(Span(BrkPage, newbrk - BrkPage))
  /\ used_pages' = used_pages
  /\ brk' = newbrk
  /\ UNCHANGED <<pc, phdrs, image, mmap_hint_page, searchvars>>

\* linux_brk past it maps the new pages with MAP_FIXED.  In the last page of
\* guest space BrkPage is 0 and the length rounds to 0, which the host refuses.
BrkGrow(newbrk) ==
  /\ pc = "run"
  /\ newbrk > brk
  /\ newbrk > BrkPage
  /\ roundup(newbrk - BrkPage) # 0
  /\ Mapped(brk .. BrkPage - 1)
  /\ LET pages == Span(BrkPage, newbrk - BrkPage)
     IN  /\ MapFixed(pages, "heap")
         /\ nonzero' = nonzero \ (Bytes(pages) \cup (brk .. BrkPage - 1))
         /\ used_pages' = MarkUsedPages(used_pages, BrkPage \div PAGE_SIZE, Cardinality(pages))
  /\ brk' = newbrk
  /\ UNCHANGED <<pc, phdrs, image, mmap_hint_page, searchvars>>

\* The memset of either meets a page the guest has unmapped.
BrkFault(newbrk) ==
  /\ pc = "run"
  /\ newbrk > brk
  /\ newbrk # BrkPage
  /\ ~Mapped(brk .. Min({newbrk, BrkPage}) - 1)
  /\ pc' = "aborted"
  /\ UNCHANGED <<phdrs, image, owner, brk, nonzero, mmuvars, searchvars>>

-----------------------------------------------------------------------------
(* mmap2 and munmap *)

\* mmap2 with MAP_FIXED replaces what is mapped there, as the guest asked.
MmapFixed(p, len) ==
  /\ pc = "run"
  /\ roundup(len) # 0
  /\ p * PAGE_SIZE + len <= ASpace
  /\ MapFixed(Span(p * PAGE_SIZE, len), "map")
  /\ nonzero' = nonzero \ Bytes(Span(p * PAGE_SIZE, len))
  /\ used_pages' = MarkUsedPages(used_pages, p, roundup(len) \div PAGE_SIZE)
  /\ UNCHANGED <<pc, phdrs, image, mmap_hint_page, brk, searchvars>>

\* The assertion of mmu::mmap, with or without MAP_FIXED.  The last byte is
\* computed in 64 bits: a range past the end fails it, and so does an empty
\* one at address 0.
MmapAssert(p, len) ==
  /\ pc = "run"
  /\ p * PAGE_SIZE + len - 1 \notin Byte
  /\ pc' = "aborted"
  /\ UNCHANGED <<phdrs, image, owner, brk, nonzero, mmuvars, searchvars>>

\* mmap2 without MAP_FIXED: the guest's address is not looked at.
MmapStart(len) ==
  /\ pc = "run"
  /\ len # 0
  /\ paddr' = mmap_hint_page
  /\ plen' = roundup(len) \div PAGE_SIZE
  /\ paddr_wrapped' = FALSE
  /\ pc' = "search"
  /\ UNCHANGED <<phdrs, image, owner, brk, nonzero, mmuvars>>

Found == LookupFreeRange(paddr, plen)

GivesUp == paddr_wrapped /\ (Found = 0 \/ Found > mmap_hint_page)

Idle == paddr' = 0 /\ plen' = 0 /\ paddr_wrapped' = FALSE

\* MAP_FAILED
SearchFails ==
  /\ pc = "search"
  /\ GivesUp
  /\ pc' = "run"
  /\ Idle
  /\ UNCHANGED <<phdrs, image, owner, brk, nonzero, mmuvars>>

SearchWraps ==
  /\ pc = "search"
  /\ ~GivesUp
  /\ Found = 0
  /\ paddr_wrapped' = TRUE
  /\ paddr' = MinPage
  /\ UNCHANGED <<pc, phdrs, image, owner, brk, nonzero, mmuvars, plen>>

SearchFinds ==
  /\ pc = "search"
  /\ ~GivesUp
  /\ Found # 0
  /\ paddr' = Found
  /\ pc' = "place"
  /\ UNCHANGED <<phdrs, image, owner, brk, nonzero, mmuvars, plen, paddr_wrapped>>

Free(p, n) == \A q \in p .. p + n - 1 : q \in Page /\ owner[q] = "none"

\* Mutant: the reservation is made with MAP_FIXED.
HostAnswersFixed(p) == p = paddr

\* Where the host kernel may put a mapping asked for at paddr: there if that
\* is free, else anywhere above mmap_min_addr.
HostAnswers(p) ==
  /\ Free(p, plen)
  /\ p >= MinPage
  /\ Free(paddr, plen) => p = paddr

\* Mutant: the hint is advanced by bytes.
PlacedHintBytes(p) ==
  /\ pc = "place"
  /\ HostAnswers(p)
  /\ MapFixed(p .. p + plen - 1, "map")
  /\ nonzero' = nonzero \ Bytes(p .. p + plen - 1)
  /\ mmap_hint_page' = p + plen * PAGE_SIZE
  /\ pc' = "run"
  /\ Idle
  /\ UNCHANGED <<phdrs, image, brk, used_pages>>

\* An address in guest space: the reservation is mapped for real.
Placed(p) ==
  /\ pc = "place"
  /\ HostAnswers(p)
  /\ MapFixed(p .. p + plen - 1, "map")
  /\ nonzero' = nonzero \ Bytes(p .. p + plen - 1)
  /\ used_pages' = MarkUsedPages(used_pages, p, plen)
  /\ mmap_hint_page' = p + plen
  /\ pc' = "run"
  /\ Idle
  /\ UNCHANGED <<phdrs, image, brk>>

\* Mutant: the search goes on where it was.
PlacedOutsideStays ==
  /\ pc = "place"
  /\ ~Free(paddr, plen)
  /\ pc' = "search"
  /\ UNCHANGED <<phdrs, image, owner, brk, nonzero, mmuvars, searchvars>>

\* The kernel chose an address outside the guest's: the reservation is given
\* back and the next window is tried.
PlacedOutside ==
  /\ pc = "place"
  /\ ~Free(paddr, plen)
  /\ paddr' = paddr + plen
  /\ pc' = "search"
  /\ UNCHANGED <<phdrs, image, owner, brk, nonzero, mmuvars, plen, paddr_wrapped>>

\* The host is out of memory, or refuses the final mapping: Panic.
PlacePanics ==
  /\ pc = "place"
  /\ pc' = "aborted"
  /\ UNCHANGED <<phdrs, image, owner, brk, nonzero, mmuvars, searchvars>>

\* linux_munmap tells mmu nothing: used_pages and the hint stay.  A range past
\* the end of guest space, which would reach the host's own memory, is left out.
Munmap(p, len) ==
  /\ pc = "run"
  /\ len # 0
  /\ p * PAGE_SIZE + len <= ASpace
  /\ MapFixed(Span(p * PAGE_SIZE, len), "none")
  /\ nonzero' = nonzero \ Bytes(Span(p * PAGE_SIZE, len))
  /\ UNCHANGED <<pc, phdrs, image, brk, mmuvars, searchvars>>

\* The guest fills a page it can write.
GuestWrites(p) ==
  /\ pc = "run"
  /\ owner[p] # "none"
  /\ nonzero' = nonzero \cup Bytes({p})
  /\ UNCHANGED <<pc, phdrs, image, owner, brk, mmuvars, searchvars>>

Aborted == pc = "aborted" /\ UNCHANGED vars

-----------------------------------------------------------------------------
Brk == \E newbrk \in Brks : BrkInPage(newbrk) \/ BrkGrow(newbrk) \/ BrkFault(newbrk)

Mmu == SearchFails \/ SearchWraps \/ SearchFinds \/ (\E p \in Page : Placed(p))
         \/ PlacedOutside \/ PlacePanics

Guest ==
  \/ \E len \in Lens, p \in FixedPages \cup {0} : MmapAssert(p, len)
  \/ \E len \in Lens : MmapStart(len)
  \/ \E len \in Lens, p \in FixedPages : MmapFixed(p, len) \/ Munmap(p, len)
  \/ \E p \in WritePages : GuestWrites(p)

Next == LoadSegment \/ LoadAssert \/ BootStack \/ Brk \/ Mmu \/ Guest \/ Aborted

Spec == Init /\ [][Next]_vars

\* mmu::mmap is a loop of one host thread.
FairSpec == Spec /\ WF_vars(Mmu)

-----------------------------------------------------------------------------
(* Properties *)

\* Every byte of the segment is mapped and its bss reads as zero.
Loaded(ph) ==
  /\ Mapped(ph.vaddr .. ph.vaddr + ph.memsz - 1)
  /\ nonzero \cap (BssStart(ph) .. ph.vaddr + ph.memsz - 1) = {}

\* When the guest starts, every byte of each segment is mapped and its bss
\* reads as zero, whatever the file holds after the segment's contents.
ImageLoaded ==
  [][pc = "load" /\ pc' = "run" => \A k \in DOMAIN image : Loaded(image[k])']_vars

\* The heap brk hands out is mapped and reads as zero, whatever the guest or
\* the ELF file left behind in its last page.  A break that lands on the end
\* of that page is left out: linux_brk skips its memset then.
HeapFresh ==
  [][pc = "run" /\ brk' # brk /\ brk' # BrkPage =>
       \A b \in brk .. brk' - 1 :
         owner'[b \div PAGE_SIZE] # "none" /\ b \notin nonzero']_vars

\* mmap2 without MAP_FIXED takes only pages that nothing was mapped at, though
\* used_pages does not know them: neither image, stack, heap nor another
\* mapping is lost, and the null page stays unmapped.
MmapTakesFreePages ==
  [][pc = "place" =>
       /\ \A p \in Page : owner[p] # "none" => owner'[p] = owner[p]
       /\ nonzero' = nonzero
       /\ \A p \in 0 .. MinPage - 1 : owner'[p] = owner[p]]_vars

\* brk never takes a page that mmap2 or the stack holds: linux_brk means to
\* fail when it does not get its pages.
BrkKeepsMappings ==
  [][brk' # brk =>
       \A p \in Page : owner[p] \in {"map", "stack"} => owner'[p] = owner[p]]_vars

\* The search of mmu::mmap ends, even when the host keeps answering outside
\* the guest's addresses.
SearchEnds == (pc \in {"search", "place"}) ~> (pc \in {"run", "aborted"})
=============================================================================
