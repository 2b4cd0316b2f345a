---------------------------- MODULE GuestMachine ----------------------------
(***************************************************************************)
(* What the emulator promises: an RV32 hart that executes one instruction  *)
(* after another, as the handlers of the reference interpreter do.  There  *)
(* is no translation, no cache and no dispatcher here.                     *)
(*                                                                         *)
(* fetchable[a] is the set of instructions a fetch from a may return.  A   *)
(* store into code adds to it, and only fence.i makes the newest contents  *)
(* the only ones: the rule of the RISC-V Zifencei extension.               *)
(***************************************************************************)
EXTENDS RV32Code

VARIABLES
  gip,        \* address of the next instruction to execute; 0 once stopped
  x,          \* the modelled guest register
  code,       \* guest memory, as instructions
  fetchable,  \* what an instruction fetch may return
  status      \* "running", "exited" (by the guest), "failed" (what it asks
              \*   for cannot be done), "exhausted" (the host's pools are full)

gvars == <<gip, x, code, fetchable, status>>

Init ==
  /\ gip \in Entries
  /\ x = 0
  /\ code \in Programs
  /\ fetchable = [a \in Addr |-> {code[a]}]
  /\ status = "running"

\* The instruction at gip may be fetched and is of class op.
Fetches(i, op) ==
  /\ status = "running"
  /\ i \in fetchable[gip]
  /\ i.op = op

Alu(i) ==
  /\ Fetches(i, "alu")
  /\ x' = AluResult(x)
  /\ gip' = NextIp(gip)
  /\ UNCHANGED <<code, fetchable, status>>

Load(i) ==
  /\ Fetches(i, "mem")
  /\ x' \in Val
  /\ gip' = NextIp(gip)
  /\ UNCHANGED <<code, fetchable, status>>

StoreCode(i, p) ==
  /\ Fetches(i, "mem")
  /\ code' = [code EXCEPT ![p[1]] = p[2]]
  /\ fetchable' = [fetchable EXCEPT ![p[1]] = @ \cup {p[2]}]
  /\ gip' = NextIp(gip)
  /\ UNCHANGED <<x, status>>

Fence(i) ==
  /\ Fetches(i, "fence")
  /\ gip' = NextIp(gip)
  /\ UNCHANGED <<x, code, fetchable, status>>

FenceI(i) ==
  /\ Fetches(i, "fencei")
  /\ fetchable' = [a \in Addr |-> {code[a]}]
  /\ gip' = NextIp(gip)
  /\ UNCHANGED <<x, code, status>>

Jal(i) ==
  /\ Fetches(i, "jal")
  /\ gip' = i.tgt
  /\ UNCHANGED <<x, code, fetchable, status>>

Brcc(i) ==
  /\ Fetches(i, "brcc")
  /\ gip' = IF x = 0 THEN i.tgt ELSE NextIp(gip)
  /\ UNCHANGED <<x, code, fetchable, status>>

Jalr(i) ==
  /\ Fetches(i, "jalr")
  /\ gip' = JumpTab[x]
  /\ UNCHANGED <<x, code, fetchable, status>>

\* A system call that returns resumes after the ecall with a result in a0.
Ecall(i) ==
  /\ Fetches(i, "ecall")
  /\ x' \in Val
  /\ gip' = NextIp(gip)
  /\ UNCHANGED <<code, fetchable, status>>

\* Only an exit system call or an ebreak ends the guest.
Exit(i) ==
  /\ Fetches(i, "ecall") \/ Fetches(i, "ebreak")
  /\ status' = "exited"
  /\ gip' = 0
  /\ UNCHANGED <<x, code, fetchable>>

\* Straight-line code of the page leads from gip to an illegal instruction.
IllegalAhead ==
  \E b \in Addr :
    /\ gip <= b
    /\ rounddown(b) = rounddown(gip)
    /\ \E i \in fetchable[b] : i.op = "illegal"
    /\ \A a \in gip .. b - 1 : \E i \in fetchable[a] : i.op \notin ControlOps

\* What the guest does wrong or asks in vain: a fetch from an unmapped page,
\* an illegal instruction, an access that faults, an unimplemented system
\* call.  Address 0 and the last page, where roundup wraps to 0, are places
\* this host cannot translate from.  There is no other cause to fail.
MayFail ==
  \/ ~Mapped(gip)
  \/ IllegalAhead
  \/ \E i \in fetchable[gip] : i.op \in {"mem", "ecall"}
  \/ roundup(gip) = 0

Stop(why) ==
  /\ status = "running"
  /\ status' = why
  /\ gip' = 0
  /\ UNCHANGED <<x, code, fetchable>>

Fail == MayFail /\ Stop("failed")

\* The pools of the translator are of fixed size and never emptied.
Exhaust == Stop("exhausted")

Step(i) ==
  \/ Alu(i) \/ Load(i) \/ Fence(i) \/ FenceI(i) \/ Jal(i) \/ Brcc(i)
  \/ Jalr(i) \/ Ecall(i) \/ Exit(i)
  \/ \E p \in Patches : StoreCode(i, p)

Next == (\E i \in fetchable[gip] : Step(i)) \/ Fail \/ Exhaust

Spec == Init /\ [][Next]_gvars
=============================================================================
