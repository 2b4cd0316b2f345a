# A verification project for rv32jit

rv32jit runs a statically linked RV32I Linux program on an x86-64 host. It
translates guest code, one region of straight code at a time, to host code,
keeps the translations in a cache, links them to each other while they run, and
emulates the Linux system calls. This directory holds TLA+ models of it, TLC
configurations for small instances, and TLAPS proofs for all instances.

## 1. The system

| Component | State | Operations |
| --- | --- | --- |
| dispatch loop (`execute.cpp`) | locals `branch_slot`, the job; `CPUState` `ip`, `trapno` | look up `ip`; on a miss compile a region; enter it; handle a trap |
| translation cache (`tcache.*`) | `tcache_map`, `l1_cache`, `l1_brind_cache`, `link_map`, block and code pools | `Lookup`, `LookupUpperBound`, `Insert`, `CacheBrind`, `RecordLink`, allocation |
| JIT ABI (`codegen/jitabi.*`) | the branch slots inside host code, patched at run time; the host stack and saved registers | link a slot, escape to the dispatcher, resolve an indirect branch |
| guest translator (`guest/rv32_qir.*`) | the region being translated | one translator per opcode, the loop over a region |
| interpreter, helpers (`guest/rv32_interp.cpp`) | `CPUState` | one handler per opcode; four of them are called from translated code |
| IR builder and folder (`ir/`) | the instruction list | create an instruction, fold constants |
| operand selection (`codegen/select.cpp`) | the instruction list | two-address form, lowering of constants the host cannot encode |
| register allocator (`codegen/regalloc.cpp`) | `RTrack` per virtual register, `p2v`, the spill frame | allocate, spill, fill, release at blocks, calls and side effects |
| emission (`codegen/emit.cpp`, `codegen/qcg.cpp`) | the code buffer, labels | host code per IR operation, frame of a region, layout of blocks |
| decoder (`guest/rv32_decode.h`, `guest/rv32_insn.h`, `util/bitfield.h`) | none | word to operation and fields |
| IR containers (`ir/qir.h`, `util/ilist.h`) | intrusive lists of blocks and instructions, packed operands, successors | insert, remove, iterate, create, pack and unpack |
| environment (`env.cpp`) | `Process::brk`, `fsroot`, `exe_fd`, `CPUState`, the host's descriptors and `errno` | trap loop, system calls, ELF loader, initial stack |
| guest address space (`mmu.*`) | `used_pages`, `mmap_hint_page`, the host's mappings | `mmap` with its search, `MarkUsedPages`, `LookupFreeRange` |
| arenas, utilities | bump pointers | allocation, `roundup`, `Panic` |

How they interact. `env::Execute` calls `dbt::Execute`, which looks up or
compiles the block at `CPUState::ip` and jumps into it through a trampoline.
Translated code runs until it needs somebody: an unlinked branch slot calls a
stub that looks the target up and patches the slot, or escapes to the dispatcher
with the slot in hand; an indirect branch does an inlined lookup in
`l1_brind_cache` and calls a stub on a miss; `ecall`, `ebreak` and the fences
call helpers, and the first two leave by `siglongjmp` with a trap set. All of
this happens in one host thread. What is hard is therefore not parallelism but
the many ways the same address can be reached (map, two L1 caches, patched
slots), state that is only precise at some points (`CPUState::ip`), values that
sit in host registers when somebody reads memory, numbers that wrap at 32 bits,
and fixed pools and frames. The hazards are listed, each at its line, in
`PROJECT.json`.

What makes each part correct:

- cache and dispatcher: every way to find a block leads to the one translation
  of that address; a branch that was executed gets linked; the whole is a hart;
- translator, folder, selection: an instruction computes what the interpreter
  computes, and a faulting access leaves the guest state as it was before;
- allocator: each emitted operand is the current value, `CPUState` is current
  when others read it, spill slots never overlap, and no temporary is expected to
  survive the end of its block;
- decoder, containers, emission: every word means what the assembler wrote, a
  pass over a list visits everything once although it inserts as it goes, and
  host code follows the guest's control flow;
- stubs and frames: however regions are chained, the host stack is balanced and
  aligned and the dispatcher gets its registers back;
- system calls: an answer is what the host said in this call, and a path that is
  resolved leads to nothing outside the root. The code keeps the first but for
  `llseek` and the second while the guest leaves the executable's descriptor open;
  `openat` resolves nothing, and the guest shares descriptors and limits with the
  translator (section 5);
- address space: image and heap are mapped and zero where they should be, no
  mapping is silently replaced, the search for free pages ends.

## 2. The modules

| Module | Models |
| --- | --- |
| `RV32Code` | addresses, pages, `roundup`, instruction classes: what all of the run time agrees on |
| `GuestMachine` | the abstract specification: a hart that fetches and executes one instruction after another |
| `TCache` | the translation cache and its operations, and the branch slots |
| `Execute` | dispatcher, translator loop, translated code, stubs, trap loop; extends `TCache` and refines `GuestMachine` |
| `HostFrame` | the host stack under translated code: trampoline, escape stubs, frame of a region, spill slots |
| `ExecuteFrame` | composes `Execute` and `HostFrame`: each step with what it does to the stack |
| `BitField`, `RV32Decode` | bit fields; the decoder and the instruction formats |
| `RV32Asm` | the encodings of the RISC-V manual, the reference for the decoder (external) |
| `QIR` | packed operands, intrusive rings, blocks, builder and folder |
| `Frontend` | a compilation from guest words to the layout of host code, and a run of that code; composes `RV32Decode` and `QIR` |
| `RegAlloc` | the register allocator, run on an arbitrary instruction list, next to a symbolic execution of the code it emits |
| `Lowering` | one guest instruction through translation, folding, selection and execution, next to the interpreter |
| `GuestMemory` | ELF mapping, stack, `brk`, `mmap2`, `munmap`, `mmu::mmap` and the host kernel's answers |
| `Syscalls` | the other system calls, path resolution, the host's descriptors, limits and `errno` |
| `MC*` | instances for TLC |
| `ExecuteProofs` | TLAPS proofs about `Execute`: types, coherence and regions; the refinement of `GuestMachine`; then about `ExecuteFrame` |
| `RegAllocProofs`, `LoweringProofs`, `GuestMemoryProofs`, `SyscallsProofs` | proofs about those modules |
| `FrontendProofs` | proofs about `Frontend`: the decoder is the inverse of the assembler, the lists stay whole, passes visit in order, operands are the instruction's |
| `FlowProofs` | proof that the host code of `Frontend` follows the guest's control flow |
| `Recursion` | induction over the naturals and primitive recursion, in a form the provers can instantiate |

Definitions keep the names of the source where TLA+ allows it; `PROJECT.json`
maps each one to its lines. Definitions commented `Mutant:` are plausible wrong
versions of the definition after them; they are not used by any
specification and only show that a property can fail.

### Execute, TCache, GuestMachine

`pc` says where the host thread is; the comment at the head of `Execute` lists
its values. Each action is one stretch of code between two points at which
control passes from one component to another. `JitX` actions execute one
translated instruction of class X, `Slot...` and `Brind...` the two kinds of
exit of a block and their stubs, `Loop...`, `Translate`, `Emit` and `Enter...`
the dispatcher, `Env...` the trap loop. Assertions, `Panic` and host faults are
actions that lead to `aborted`; the Makefile does not define `NDEBUG`, so
assertions are in the program.

Abstractions. Instructions are classes (`alu`, `mem`, `brcc`, `jal`, `jalr`,
`fence`, `fencei`, `ecall`, `ebreak`, `illegal`) and an address is the number
of a 4-byte word. One guest register `x` stands for the values that conditions
and indirect targets depend on; what each instruction computes is the subject of
`Lowering`. A code pointer is identified with its block. `CPUState::ip` is kept
apart from the guest's position: it is written only where the code writes it, and
the fence helpers read and advance a value that means nothing there, as in the
code. The refinement mapping `GuestIp` recovers the position from `pc`, the
block, the slot or the indirect target. `fetchable` is a history variable: the
instructions RISC-V lets a fetch return since the last `fence.i`.

### HostFrame, ExecuteFrame

`m` is the host machine: stack pointer, stack words of 8 bytes, callee-saved
registers and the last return address. The operators of `HostFrame` are the
instruction sequences of `jitabi.cpp` and of `FrameSetup`, `FrameDestroy` and
`make_slot`; a call of compiled code may overwrite everything below the stack
pointer. Each action `FX` of `ExecuteFrame` is action `X` of `Execute` with
those sequences, so that control decides what the stack sees: a linked slot
enters the next region on the frame of the last one, an unlinked slot's call
leaves a word that the linking stub pops, the slow path of an indirect branch
pushes padding in a leaf only, a trap throws the stack away. `FSpill` stores a
local in its slot at any time. `ccall` keeps the stack pointer of the latest
call.

### BitField, RV32Decode, RV32Asm, QIR, Frontend

A word is the set of its one bits, and a `u32` is the integer of
-2^31 .. 2^31 - 1 congruent to it, which is TLC's range. `Decode` has one
definition for each `switch` inside another, and looks at `funct7` only where the
code does. A `bf_seq` is `ShiftIn` once for each of its parts, as the code shifts
them in one after another.
`Frontend` starts from assembled words (`RV32Asm`, written from the manual and
not from the code) and does what `CompilerDoJob` does: `Translate` is one
iteration of `TranslateIPRange` with the whole `V_` translator of the operation,
`PassVisit` one iteration of a pass over the lists, during which up to `MaxMovs`
movs are inserted in front of the current instruction, `EmitInst` one `Emit_`
function. Which movs a pass needs is the subject of `Lowering` and `RegAlloc`.
`R.ring` has the `next` and `prev` pointers of the intrusive lists, with the
sentinel of block b as node -b, and `Unlink` leaves the removed node's own
pointers alone, as the code does. The last phase runs the emitted jumps with
every outcome of each condition.

### Syscalls

Host calls answer nondeterministically within what they are asked for. Text is
a sequence of tokens, and `realpath` and symbolic links work on a small tree that
has links and `..` leading out of the root. `PathResolution` is kept to the
letter: the double slash in front of an absolute path, the missing slash between
directory and relative name, the missing terminator after `readlink`, the
comparison of a prefix, the return to the original text for a relative path.
`openat` hands its name to the host as it is. Contents of buffers are left out
but for whether the call wrote them.

### RegAlloc

The pass takes any instruction allowed by the constraint tables, so a run covers
all instruction lists over the chosen registers. `reg` and `home` record
symbolically which host register and which memory slot hold the current value
of which virtual register; each inserted move updates them. A block is entered
relying on `CPUState` only, because any block may be reached from several others.
`phase` follows the pass through `AllocOp`: sources, destination, calls, side
effects, block ends. A call of `AllocPReg` that must spill takes two steps, and
`spilled` is the register the second one returns; `CallOp` spills one register a
step.

### Lowering

All RV32I computational, memory, branch and jump instructions in IR terms, with
every coincidence of registers. Words have 4 bits in the runs and the narrow
widths are 1, 2 and 4 bits; immediate classes of the host are modelled by what
they distinguish (none, any, sign-extended). `Interp` is the reference, taken
from the handlers of the interpreter. `Bits` computes the bitwise operators from
the bits of their arguments, so that the same definition is run by TLC and used
in the proofs. `AliasCode` and `Aliased` are the two halves of the alias loop of
`SelectOperands`: the movs it creates, and the instruction it leaves.

### GuestMemory

`owner` is what the host has mapped at each guest page, `nonzero` the bytes
that may not be zero. `mmu::mmap` is split at its host calls, since their answers
are a choice: the kernel honours the address it is asked for when that is free, and
otherwise answers anywhere, in or out of guest space, or fails. Program headers
and breaks are `u32` (`Byte` in the model), and sums of them wrap: a segment that
runs past the end trips the assertion of `mmu::mmap` (`LoadAssert`), and for a
break in the last page the rounded break is 0 and the length `brk` asks for
rounds to 0, which the host refuses. Protections and file descriptors are left
out, as is `munmap` past the end of guest space.

## 3. The runs

| Run | Question | Result |
| --- | --- | --- |
| `execute_safety` | does any mixture of translating, linking, faulting and trapping break the cache? | coherent; 3888 programs, pools small enough to overflow |
| `execute_frame` | with the host stack: is it balanced and aligned, do registers and locals survive, does every direct branch that is executed get linked, and is the emulator a hart? null indirect targets and stores into code included | yes; it fails only for a cause the guest gave |
| `execute_fencei` | is the new code seen after `fence.i`? | **violated**: `fence.i` does nothing |
| `execute_lastpage` | does the translator's assertion on its boundary hold for mapped code? | **violated** on the last page of the address space |
| `frontend` | does a compilation keep instructions, operands and control flow, and its temporaries inside their blocks? | yes |
| `regalloc` | tables true of the machine, operands and `CPUState` current, slots disjoint, only a full frame panics | holds |
| `lowering` | translated code against the interpreter | agree, apart from the two named exceptions |
| `lowering_x0load` | a load to `x0` changes nothing | **violated** with a zero offset |
| `memory` | image, heap, `mmap2` and its search | holds |
| `memory_brk` | does `brk` leave other mappings alone? | **violated** |
| `memory_bss` | is all of bss mapped? | **violated** for a segment that starts inside a page |
| `syscalls` | is an answer always that of this call, and does a path that was accepted stay in the root? | yes for every call but `llseek`, and for the absolute paths of `statx` and `readlinkat` until the guest closes the executable |

Bounds, and why they are enough to meet the interesting cases:

- `Execute`: 4 pages of 4 words, of which 2 or 3 mapped, so regions end at a page,
  at `TB_MAX_INSNS = 3`, at an earlier entry and at a control instruction, and
  branches cross pages. In `execute_safety` three L1 entries make the addresses
  4, 7 and 10 collide, while the null address finds its entry empty, and the
  code pool of 8 instructions overflows in many programs; in the other runs the pools are large enough for everything. Programs are all
  choices from a menu of one to four instructions per word.
- `ExecuteFrame`: the same address space with three L1 entries, two spill
  words (`SpillWords` is even, as the code's `static_assert` wants), and
  programs in which leaf and calling regions are chained through every kind of
  exit. Because a frame is destroyed before the next region, a stack that drifts
  does so within two regions.
- `Frontend`: regions of up to four instructions (`TB_MAX_INSNS = 4`) at address
  4096, and two movs per pass (`MaxMovs = 2`), so that two land in front of one
  instruction or one in front of each of two. Every operation occurs with
  register 0 as a source and as a destination, with other registers and, for
  one operation of each format, with immediates that set each separately placed
  piece and both signs; programs of several instructions have the loops, exits and cut-offs a region can have.
- `Syscalls`: descriptors 0 to 4 (`MaxFd`), so that the table fills up; an int
  whose largest value is 1 and positions to 3, so that a position wraps to a
  negative int; a tree with a file and a directory inside the root, one outside,
  and a link in each direction.
- `RegAlloc`: four host registers, one fixed, so that an instruction with two
  sources and a destination takes all of them and evictions happen all the
  time; locals of 1 and 4 bytes, for the alignment of slots; a frame that holds some
  but not all of them in one order.
- `Lowering`: three registers (with `x0`) give all coincidences of `rd`, `rs1`
  and `rs2`; values and immediates are the boundaries of the signed and unsigned
  orders.
- `GuestMemory`: 8 pages of 4 bytes; the stack takes one page and the top page
  stays unmapped as in `BootElf`; six images, with bss in the page of the data, on
  the next one, alone, in a segment that does not start on a page, past the end
  of guest space and in its last page; breaks inside the last heap page, on its
  end, beyond, and in the last page of guest space; lengths of zero, one and two
  pages.

Fairness. `ExecuteFrame!FairFSpec` assumes that the host thread keeps executing
dispatcher and translated code (weak fairness of `FDispatch` and of `FJit`): it
is one thread and nothing in that code blocks. System calls may block for ever, so
`Env` has no fairness. `GuestMemory!FairSpec` assumes that a sequential loop, the
search of `mmu::mmap`, is not abandoned; the guest's choices have no fairness.

Cases excluded by name in a passing property. `LoweringCorrect` leaves
out jump targets that are not divisible by 4 (`Unaligned`: the translator has a
TODO where the interpreter raises a trap) and loads to `x0` (`LoadToX0`, the
subject of its own run). `HeapFresh` leaves out a break that lands exactly on
the end of its page, for which `linux_brk` skips its `memset`. `PathsInRoot` is
about the absolute paths that `PathResolution` accepts, which only `statx` and
`readlinkat` ask, and leaves out a guest that has closed the executable.
`AnswersHonest` asks of `llseek` only that a position an `int` holds is reported
and that nothing is after a failure. `OperandsMatchAsm` leaves out the destination of a load to `x0`.

## 4. The proofs

Each theorem holds for every value of the constants that the named assumptions
allow. Those assumptions are the weakest the argument needs and the code
guarantees:

- `RV32CodeAssumption`, `TCacheAssumption`: sizes are positive, programs and
  entries consist of instructions and addresses, and a page has more than one
  instruction (1024 in the code), which is used where the end of the last page
  wraps to 0;
- `HostFrameAssumption`: the number of spill words is even, the `static_assert`
  of `jitabi.cpp`;
- `RegAllocAssumption`: three registers are neither fixed nor equal, for two
  sources and a destination;
- `GuestMemoryAssumption`: headers and breaks are `u32`, the address space has
  the pages `BootElf` uses;
- `SyscallsAssumption`, `NoPathAssumption`: the descriptors the translator starts
  with are in the table; the file tree is one: every directory on the way to a file
  exists, names of files have no `..`, a link is not a file and leads to one, and
  the value that stands for no path is not a path;
- `FrontendAssumption`: `Entry` is aligned, programs are not empty and consist of
  instructions whose operands their format can hold, or of words that match the
  encoding of no instruction; the code is on one side of 2^31, where the integer
  that stands for a `u32` address changes its sign, as every guest page is; and
  `TB_MAX_INSNS` is at most 65504 (64 in the code), since a temporary's number,
  which starts behind the 32 global registers, is a `u16`;
- `LoweringAssumption`: a word has a positive number of bits divisible by 4,
  registers are natural numbers with 0 among them, register values, immediates
  and addresses are words, and the model has room for three temporaries.

| Theorem | Statement |
| --- | --- |
| `TypeCorrect` | `Spec => []TypeOK` |
| `CacheIsCoherent` | `Spec => []CacheCoherent` |
| `TranslatedOnce` | `Spec => []OneTranslationPerIp` |
| `LinkMapExact` | `Spec => []LinksRecorded` |
| `BranchSlotAssertion` | `Spec => []BranchSlotMatchesIp`, the assertion in `execute.cpp` |
| `RegionsInPage` | `Spec => []RegionInPage` |
| `RegionsStopAtEntries` | `Spec => []StopsAtEarlierEntry` |
| `TranslationsStable` | `Spec => TranslationStable`, an action property |
| `FetchesCoherent` | `Spec /\ NoFenceIAfterStore => []FetchCoherent` |
| `EmulatorIsHart` | `Spec /\ NoFenceIAfterStore => ImplementsGuest` |
| `UnmodifiedCodeIsHart` | `Patches = {} => (Spec => ImplementsGuest)` |
| `NoFenceIIsHart` | `NoFenceI => (Spec => ImplementsGuest)` |
| `FrameImplementsExecute` | `FSpec => Spec` |
| `FrameTyped`, `StackBalanced`, `AlwaysAligned`, `HostContextSurvives`, `LocalsKept` | `FSpec => []P` for `FrameTypeOK`, `FrameBalanced`, `CallsAligned`, `HostContextKept`, `LocalsSurvive` |
| `AllocTyped`, `TrackingHolds`, `OperandsRight`, `GuestStateFlushed`, `SlotsDisjoint`, `OnlyFullFramePanics` | `Spec => []P` for `TypeOK`, `TrackingSound`, `OperandsCurrent`, `GuestStateInMemory`, `FrameSlotsDisjoint`, `PanicMeansFrameFull` of `RegAlloc` |
| `MemoryTyped`, `MmapSafe`, `BrkSafe`, `LoaderRight` | `Spec => []TypeOK`, `Spec => MmapTakesFreePages`, `Spec => HeapFresh`, `Spec /\ Proper(image) => ImageLoaded` of `GuestMemory` |
| `AnswersRight`, `PathsStayInRoot` | `Spec => []P` for `AnswersHonest`, `PathsInRoot` of `Syscalls` |
| `LoweringTyped`, `TranslationCorrect`, `FaultsPrecise`, `OnlyHostOperations`, `ThreeTemps` | `Spec => []P` for `TypeOK`, `LoweringCorrect`, `FaultPrecise`, `SelectionLegal`, `TempsBounded` of `Lowering` |
| `DecoderCorrect`, `ListsAreWhole`, `PassesVisitInOrder`, `CallsAreKnown`, `OperandsAreRight`, `HostFollowsGuest` | `Spec => []P` for `DecodeMatchesAsm`, `ListsWhole`, `VisitedOnceInOrder`, `CallsKnown`, `OperandsMatchAsm`, `HostFlowMatchesGuest` of `Frontend` |

### Cache and dispatcher

`TypeOK` is not inductive: that `ip` remains an address needs the
blocks that slots and cache entries refer to to exist and to be non-empty, which
`TypeInv` (`CacheTypeInv`, `CpuTypeOK`, `ControlTypeInv`) adds. `TrapInv` says
that a trap is pending only between the helper that raises it and the
environment that clears it. `CoherenceInv` joins four mutually dependent facts:
coherence of map, L1 caches and slots; one translation per address; exactness of
`link_map`; and `DispatchInv`, which says for each `pc` what the dispatcher
relies on: on the way to translating, the map has no entry for `ip`; on the way
to entering, `cur` is the map's block; a slot waiting to be linked is unlinked and
leads to `ip`. The key
lemma is `LookupCorrect`: a lookup that goes through the L1 cache finds what the
map holds. With it a block is only created on a true miss, so that the map is
never overwritten, and everything that refers to the map stays right. Each lemma
on an operation (`FillCoherent`, `CacheBrindCoherent`, `LinkCoherent` and so on)
is cited by the actions that perform it, and `CoherenceStep` has one step per
action.

### Regions and the refinement

`RegionInv` adds `JobInv` to the two properties of finished regions: what the
region under construction has, so that `Emit` can hand it on. The bound
`LookupUpperBound` computes is shown to lie in the page of `ip` and not beyond
any entry.

The refinement is by step simulation. `HartInv` says what ties the emulator to
the hart: `FetchedInv`, every instruction of every block is one the hart may still
fetch; `PosInv`, where the mapped position `GuestIp` is for each `pc`;
`TrappedInv`, a pending trap was raised by the instruction at `ip`. Each action
is then a step of `GuestMachine` or leaves its mapped variables alone. The hart
of `GuestMachine` may stop with a failure only for a cause that lies in the guest
(`MayFail`: a fetch from an unmapped page, an illegal instruction ahead on the
page, a memory access or a system call, or an address from which this host cannot
translate, which are 0 and those whose page end wraps to 0) or when the fixed
pools are full (`Exhaust`). Each abort of the emulator must be one of these. For the jump through
the null entry of `l1_brind_cache` that takes `EmptyInv`, which says that a cache
entry without a block has address 0.
`FetchedInv` is what `fence.i` breaks, so it is assumed that the guest executes
none after it has stored into code: the hypothesis `NoFenceIAfterStore`, a
condition on the guest's behaviour and not on the emulator. The run
`execute_fencei` shows that it cannot be dropped. Two corollaries need no
condition on behaviours: guests that do not store into code, and programs
without `fence.i`, for which running a stale translation is what RISC-V allows.

### The host stack

`FrameImplementsExecute` shows that `ExecuteFrame` only adds to `Execute`, so that
the theorems above hold of it. `FrameInv` then needs from `Execute` little more
than `pc`: `MachineInv` says for each `pc` where the stack pointer is and that the
words from the end of the spill frame up hold the dispatcher's saved registers,
the padding and the return address; `LeafInv` says that the frame set up is the one
for the region that runs, which the epilogues and the slow path of an indirect branch rely on
(a leaf pushes padding before its call). `FrameBalanced` alone is not inductive,
since a balanced stack may hold the wrong words.

### Register allocator

`TrackingSound` is not inductive by itself. `Inv` adds what each phase of
`AllocOp` has established so far: `PhaseInv` (which operations get there, and what
is still to be allocated), `LifeInv` (the sources have a value), `AvoidInv` (the
registers taken for this instruction), `SourceInv` and `DstInv` (its operands sit where the pass put them
and are not evicted by later allocations for the same instruction), `BoundaryInv`
(what was synced or spilled for a call, an access or the end of a block stays
so until the instruction is emitted), `SlotInv` and `SlotsTaken` (slots lie below
`frame_cur`, apart from each other, and every local in memory has one). That a
register is always found uses the assumption of three registers.

### Address space and system calls

`GuestMemory!Inv` is `TypeOK` with the type of the headers still to be loaded.
`MmapTakesFreePages` does not follow from `used_pages`, which is wrong, but from
asking the host without `MAP_FIXED` and using its answer. `BrkSafe` is by cases on `linux_brk`, with
the arithmetic of `roundup` modulo the address space. For sizes other than
those of the runs this needs the wrapping at 32 bits of every sum the code
computes, which is why the model has it.

`LoaderRight` is about proper images (`Proper`): no segment is larger in the file
than in memory, all lie below the stack, they ascend and share no page, and the
end of bss that `LoadElf` computes is not too low. The last condition is the one
the code does not meet by itself; `AlignedSuits` shows that a segment that starts
a page meets it. `Covers` says what loading one segment maps and clears, with the
wrapping sums of `roundup`; the inductive invariant `LoadInv` says that `phdrs`
holds the rest of the image and that what comes before it is loaded. Loading a
segment touches only pages from its own first one on, and the stack lies above
them all, so nothing loaded is disturbed before the guest starts.

`Syscalls!Inv` joins the two properties with the type of the descriptor table and
`ExeKept`, that the executable is behind its descriptor until the guest closes it.
That `openat` does not replace it before rests on the host handing out a closed
descriptor; that an answer is honest, on `errno` being read only after a failing
call of the same system call.

`PathsStayInRoot` is about any file tree and any path. `RealPathCanon` shows that
`realpath` answers a canonical path or none, and `RealPathFixed` that it leaves a
canonical path alone: both by induction along the names of the path. So the
file that `PathResolution` compared with the root is the file the host reaches
when it is given the resolved text, however many links and `..` the guest's path
had (`AbsResolution`, `AbsReaches`).

### Lowering

`TranslationCorrect` compares two computations, and its proof has one lemma for
each stage of the compiler. `Exec` is what one operation does to a machine
(registers, `CPUState::ip`, memory access, next address), `Ok` says that an
operation is well formed in a state: its sources are constants or defined
registers, its destination is a register, and before a load or store the guest's
registers are those the instruction started with and `CPUState::ip` is stored.
`Reach` says that a sequence of operations, each well formed where it is
executed, leads from one state to another, and counts the temporaries that
selecting it may take.

- `TranslateCorrect`: the IR of each instruction reaches what `Interp` computes,
  one lemma for each kind of instruction (`TranslatedArithRR`,
  `TranslatedJalr`, `TranslatedLoad` and so on).
- `ReachFold`: the folder changes neither what an IR instruction does nor that
  it is well formed. This includes that the sum of two constants is the word
  the host would compute.
- `SegmentOk`: the operations `SelectOperands` makes of one IR instruction are legal
  for the host and reach what that instruction does, but for temporaries
  above those in use (`Agree`). This is where the order of the alias movs,
  the copy of a live input and the immediates the host cannot encode matter.
- `AgreeExec`: an IR instruction does not see those temporaries.

The inductive invariant `IInv` puts them together. While code is selected
(`Selects`), what is selected leads to a state that agrees with the state from
which the remaining IR leads to the outcome; while it runs (`Runs`), what is
left leads to the outcome. `LoweringCorrect`, `FaultPrecise` and `TempsBounded`
are read off it. `SelectionLegal` needs one more induction along the code
(`WrittenBefore`): what an operation reads was defined at the start or is the
destination of an earlier one. `IInv` quantifies over intermediate states, so
TLC cannot evaluate it; its consequences are what the run `lowering` checks
(that the state is well typed, `TypeOK`, is only proved).
A load to `x0` from the address in a register is the exception that runs through
all of it (`X0Load`): it alone has a destination that may be a constant.

### Decoder

`DecoderCorrect` holds for every register and every immediate, where the run
takes the immediates at the edges of each format. `Rejoin` says that the bits of
a value, shifted in one after another, give the value back; `FieldIs` that a
field of a word is the value whose bits the word has there. The position of each
immediate bit in each format is a lemma of its own (`ImmAtI` to `ImmAtJ`), and so
is what the format's `bf_seq` makes of it, sign included (`ImmIsI` to `ImmIsJ`).
`DecodeIs` goes through the operations, `DecodeTells` backwards through the
switches: a word that decodes to an operation matches it, so that a word that
matches none is refused (`IllegalIs`). The inductive invariant `DInv` adds to
`DecodeMatchesAsm` that `insn_ip` is an address of the program while it is
translated.

### Lists of the IR

`ListsAreWhole` describes a ring by the sequence of its elements: `Chain(r, N, s, c)`
says that from sentinel `s` the links of `r` go through `c` and back, in both
directions. `InsertChain` and `UnlinkChain` say that the pointer assignments of
`insertBefore` and `remove` insert an element into `c` and take one out, and
`InsertOther` and `UnlinkOther` that they leave a ring with no node in common alone.
A region is then a sequence of sequences (`Shape`): its blocks are in order, no
instruction is on two lists, and what is on none folds. `CreateIs` is
`Builder::Create` with its folding, where the new instruction may already be
replaced by a mov and unlinked; `CreateAllIs` repeats it, by induction; `WalkIs`
says that a loop over a ring meets exactly its sequence. The inductive invariant
`ListInv` adds where the translation stands: until the jump of the first block is
made that block has no jump and every other block is complete (`Translating`);
afterwards all are (`Whole`), and `it` is an element or the sentinel of block `bb`,
which is what a pass needs to insert in front of it. `BodyIs` shows for each
operation that the translator makes a jump last or not at all. `ListInv`
quantifies over sequences, so TLC checks its consequence `ListsWhole` instead.

`PassesVisitInOrder` needs to know where the loop is in the code as a whole, which
is the concatenation of the blocks (`AllCodeFlat`). `FlatAt` gives the position of
an element of a block in it, and `FlatSplice` says that movs put in front of an
element of a block stand in front of that element of the whole. The
inductive invariant `VisitInv` is `Sweep(x, insts, plan, visited, p)`: from position
`p` on the code is what is left of the plan, before it are the visited instructions
in order, and what is neither has the guest address of its successor. A visit
inserts at `p` and moves `p` behind the visited instruction (`SweepStep`); going to
the next block leaves `p` where it is; at the end of the last block nothing is ahead,
so the plan is done. `CallsAreKnown` adds `CallInv`: a call that `has_calls` does not
cover is one that selection has still to visit, and the passes add only movs.

### Operands of the IR

`OperandsAreRight` starts from the packing of a `VOperand`: `KindIs`, `ConstIs`,
`VGPRIs`, `SlotIs` and `RawIs` read back what `MakeConst`, `MakeVGPR` and `MakeSlot`
put into the word, all 32 bits of a constant with its sign and the 16 of a
register number or an offset. `OperandsOf` lists what an instruction may
name; `BodySound` goes through the translators and shows that each instruction
they create names only that, both as created and as `Builder::Create` leaves it
after the swap of a constant into second place and the folding to a mov
(`Sound`): a folded sum is the immediate, the base register or 0, never another
constant. The inductive invariant `OprInv` says it of every instruction of the region
(`Fit`) until selection begins to rewrite them. It also counts the temporaries, one
at most for each instruction translated, so that their numbers fit into the 16 bits.

### Control flow of the host code

`HostFollowsGuest` joins what the three stages establish. `Flow` is about the
blocks: the first one holds instructions in the order of their guest addresses and
ends where the guest leaves (`Ordered`, `Fine`), and if it ends in a conditional
branch its successors are exits to the two addresses the guest may go to, or the
first block itself (`Forks`). `TranslateInsnFlow` shows that translation builds
this, `PassVisitFlow` that the movs of a pass, which have the address of the
instruction they stand in front of, keep it. `Laid` is about the code: it is the
blocks one after the other, each behind its label, one host instruction for each of
theirs. That emission leaves out a jump to the next block is where this could fail:
`HostCodeIs` needs that the block not branched to was created first and so comes
next, and that a jump back to the first block is never one to the next.
`Guided` is about the run: at a place of the first block the guest is at or before
the address of that place and takes no branch, at a place of an exit it is on its
way to where that exit leaves. The inductive invariant `FlowInv` says which of
these hold in each phase. That the run does not go past the end of the code, and
finds the label it jumps to, follows from the place it is at (`PlaceIs`, `LabelIs`).

### Induction over data

The library's induction theorems take an operator, which the
provers cannot instantiate. `Recursion!NatInd` states induction with a set
and `NatRec` the existence of a recursively defined function with a function
for its step; both are proved from the well-foundedness of the naturals, and they
are how `Pow2`, `Bits`, `RealPath` and sequences of operations are reasoned about.

### Only model-checked

- Liveness: `BranchesGetLinked`, `SearchEnds`. This prover has no rule for fairness
  that would reach them.
- `LocalsStayInBlock`: where temporaries are written and read, in the IR of every
  region of the run.
- `ImageLoaded` for images that are not proper. It is false of some: `memory_bss`
  has one. The run `memory` has two that are not: for the segment that runs past the
  end of guest space the loader aborts; the one in the last page is loaded right,
  though `roundup` wraps and its anonymous mapping lands on page 0.

## 5. What the code does otherwise than it should

`PROJECT.json` quotes the lines. In short: `fence.i` does not drop stale
translations; the end of the last page wraps to 0 and trips an assertion; a load
to `x0` with a zero offset writes its base register; `brk` replaces mappings
above the heap; the end of bss is computed from the wrong address. More is visible in the models and not the subject of a run.

`MarkUsedPages` takes a length for an end address, so that `used_pages` is nearly
always wrong, which is harmless because the host kernel is asked in the end
(`MmapTakesFreePages`); and `roundup` of a page-aligned `ip` makes the region at
the start of a page one instruction long, which is correct though slow.

In the system calls (`Syscalls`): a relative path is joined to its directory
without a slash, so that `PathResolution` checks another file than the one that
is used, and almost always ends in `Panic("Malformed fsroot")`; `openat` does not
resolve its path at all; `readlinkat` resolves links before asking for one, so
that only `/proc/self/exe` is still a link; `fstat64` passes an empty path
without `AT_EMPTY_PATH` and always answers `ENOENT`; `sysinfo` fills the buffer
only for a positive result, which never comes; `set_tid_address` stores an
uninitialized variable; `llseek` answers 0 after a failed `lseek` and loses
positions above 2^31 - 1; `mmap2` may answer an `errno` that no call set.

Guest and translator share one descriptor table and one set of limits. `close`
spares only the descriptors below 3, so the guest can close `exe_fd`; an `openat`
that gets its number then decides what `/proc/self/exe` is, even a file outside
the root. `prlimit64` keeps the guest from setting the limits on address space,
stack and data, but not the one on descriptors.

In the decoder (`RV32Decode`): `funct7` of most register operations and of `slli`
is not checked, nor the fields of the fences, so that a word of another
extension, `mulh` for example, is translated as a base operation.

## 6. Not modelled

- `tcache::InvalidatePage` is never called, and `tcache::Invalidate` only after an
  assertion that aborts first. A model would describe code that does not run. The
  same goes for `InverseCC`, predecessors of blocks, `StateFill`, `StateSpill`,
  `LocFill`, `LocSpill`, the second half of `TranslateBrcc` (`#if 1`) and
  `MarkFreePages`.
- Host encodings, which are asmjit's; the trace ring of `jitabi.cpp`, which is for
  a debugger; `marker.h`; the visitors that macros generate.
- The numbers of `syscalls.h`. Protections and file mappings of the address space.
- Object construction in arenas: `MemArena::Allocate` is modelled by its bound.
- ELF header checks, contents of the argument vectors (`ArgVectors` has the pages
  they take, from the top of the stack down), logging, `main`.

## 7. Plan

Done: the models of all parts with their runs; the type, coherence, linking and
region theorems of `Execute` and its refinement of `GuestMachine`; the
theorems of `ExecuteFrame`, `RegAlloc`, `Lowering`, `GuestMemory` and `Syscalls`;
the decoder, the lists of the IR, the passes over them, its operands and the
control flow of the code emitted; the loader, for images whose end of bss is
computed right.
