---------------------------- MODULE MCGuestMemory ---------------------------
EXTENDS GuestMemory

\* Headers of one text segment and one data segment.
Text == [vaddr |-> 4, filesz |-> 3, memsz |-> 3]

\* Data with bss in its own page, data with bss on the next, bss only, a
\* segment that does not start on a page, one that runs past the end, and one
\* whose bss ends in the last page.
MCImages ==
  {<<Text, [vaddr |-> 8, filesz |-> 2, memsz |-> 3]>>,
   <<Text, [vaddr |-> 8, filesz |-> 2, memsz |-> 6]>>,
   <<Text, [vaddr |-> 8, filesz |-> 0, memsz |-> 2]>>,
   <<[vaddr |-> 5, filesz |-> 1, memsz |-> 5]>>,
   <<[vaddr |-> 28, filesz |-> 5, memsz |-> 5]>>,
   <<[vaddr |-> 28, filesz |-> 1, memsz |-> 2]>>}

\* A data segment that starts in the middle of a page and whose bss reaches
\* the next one.
BssImages == {<<[vaddr |-> 6, filesz |-> 1, memsz |-> 3]>>}
=============================================================================
