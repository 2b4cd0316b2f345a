------------------------------ MODULE Syscalls ------------------------------
(***************************************************************************)
(* The Linux system calls env.cpp emulates, but for brk, mmap2 and munmap, *)
(* which are in GuestMemory.  The host kernel answers nondeterministically *)
(* within what the calls it is given allow.                                *)
(*                                                                         *)
(* Text is a sequence of tokens: "/" and names.  The token "cwd" stands    *)
(* for the absolute path of the working directory, "exe" for the path      *)
(* /proc/self/exe.  A canonical path is a sequence of names, each name a   *)
(* sequence of tokens, so that <<"sub", "x">> is one file name, subx.      *)
(***************************************************************************)
EXTENDS Integers, Sequences, SequencesExt, FiniteSetsExt

CONSTANTS
  Exists,     \* canonical paths of files and directories
  Links,      \* symbolic links: canonical path -> canonical path
  Paths,      \* path arguments of the guest, as text
  MaxFd,      \* bound on descriptors
  IntMax,     \* 2^31 - 1 in the code
  MaxPos      \* bound on file positions

ASSUME SyscallsAssumption ==
  /\ MaxFd \in Nat /\ MaxFd > 3
  /\ IntMax \in Nat /\ MaxPos \in Nat /\ MaxPos > 2 * IntMax
  /\ \A p \in Paths : p \in Seq(Range(p)) /\ p # <<>>
  /\ \A p \in Exists :
       /\ p \in Seq(Range(p)) /\ p # <<>>
       /\ \A k \in 1 .. Len(p) : p[k] # <<"..">> /\ SubSeq(p, 1, k) \in Exists
  /\ DOMAIN Links \cap Exists = {}
  /\ \A l \in DOMAIN Links : Links[l] \in Exists

EBADF == 9
ENOENT == 2
EMFILE == 24
EINVAL == 22
ESPIPE == 29
ENOSYS == 38
AT_FDCWD == -100

Closed == <<<<"closed">>>>
Tty == <<<<"tty">>>>
Exe == <<<<"cwd">>, <<"prog">>>>   \* BootElf changes to its directory
NoPath == <<<<"none">>>>           \* realpath finds nothing
Fd == 0 .. MaxFd
exe_fd == 3

ASSUME NoPathAssumption == NoPath \notin Exists

VARIABLES
  pc,        \* "guest", "panic" or "exited"
  fds,       \* the host's descriptor table: canonical paths, Closed, Tty, Exe
  errno,
  nofile,    \* host limit on descriptors
  as_limit,  \* host limit on address space: "host" or "guest"
  a0,        \* gpr[10]
  trapno,
  call,      \* ghost: the last call, the errors it met, whether its path was
             \* absolute, the file it reached, and what it wrote to the
             \* guest's buffer
  exe_closed \* ghost: the guest has closed exe_fd

NoCall ==
  [name |-> "none", failed |-> {}, abs |-> FALSE, reached |-> <<>>,
   at |-> 0, wrote |-> <<>>]

vars == <<pc, fds, errno, nofile, as_limit, a0, trapno, call, exe_closed>>

Init ==
  /\ pc = "guest"
  /\ fds = [n \in Fd |-> IF n < 3 THEN Tty ELSE IF n = exe_fd THEN Exe ELSE Closed]
  /\ errno = 0
  /\ nofile = MaxFd + 1 /\ as_limit = "host"
  /\ a0 = 0 /\ trapno = "NONE"
  /\ call = NoCall
  /\ exe_closed = FALSE

-----------------------------------------------------------------------------
(* Paths *)

fsroot == <<"cwd", "/">>

\* The names between the slashes of a text, empty ones dropped.
Names(text) ==
  LET upto[k \in 0 .. Len(text)] ==
        CASE k = 0 -> <<>>
          [] k > 0 /\ text[k] = "/" -> upto[k - 1]
          [] k = 1 /\ text[k] # "/" -> <<<<text[k]>>>>
          [] k > 1 /\ text[k] # "/" /\ text[k - 1] = "/" -> Append(upto[k - 1], <<text[k]>>)
          [] OTHER -> [upto[k - 1] EXCEPT ![Len(upto[k - 1])] = Append(@, text[k])]
  IN  upto[Len(text)]

\* One name of realpath, NoPath if something is missing.
PathStep(p, n) ==
  CASE p = NoPath -> NoPath
    [] p # NoPath /\ n = <<"..">> -> IF p = <<>> THEN p ELSE Front(p)
    [] p # NoPath /\ n # <<"..">> /\ Append(p, n) \in DOMAIN Links -> Links[Append(p, n)]
    [] p # NoPath /\ n # <<"..">> /\ Append(p, n) \in Exists -> Append(p, n)
    [] OTHER -> NoPath

\* realpath of names below a canonical path.
RealPath(from, names) ==
  LET at[k \in Nat] == IF k = 0 THEN from ELSE PathStep(at[k - 1], names[k])
  IN  at[Len(names)]

\* strncmp(resolved, fsroot): the root itself lacks the final slash.
UnderRoot(p) == Len(p) >= 2 /\ p[1] = <<"cwd">>

\* The text of a canonical path.
TextOf(p) ==
  FlattenSeq([k \in 1 .. 2 * Len(p) - 1 |-> IF k % 2 = 1 THEN p[(k + 1) \div 2] ELSE <<"/">>])

IsAbs(path) == path[1] = "/"

\* rp_buf.  readlink does not terminate the text, so what is on the stack may
\* follow it.
RpBufs(dfd, path) ==
  CASE IsAbs(path) -> {fsroot \o <<"/">> \o path}
    [] ~IsAbs(path) /\ dfd = AT_FDCWD -> {<<"cwd">> \o path}
    [] OTHER -> {TextOf(fds[dfd]) \o junk \o path : junk \in {<<>>, <<"junk">>}}

\* What PathResolution may answer: an error, a panic, or the path to use.
Panics == [k |-> "panic", p |-> <<>>, e |-> 0]
Fails(e) == [k |-> "error", p |-> <<>>, e |-> e]
Path(p) == [k |-> "path", p |-> p, e |-> 0]
ExePath == <<<<"/proc/self/fd">>>>

\* Mutant: what realpath found is not compared with fsroot.
ResolvedUnchecked(path, real) == Path(IF IsAbs(path) THEN real ELSE Names(path))

\* The second comparison with fsroot, and the path handed to the host.
Resolved(path, real) ==
  IF ~UnderRoot(real) THEN Panics
  ELSE Path(IF IsAbs(path) THEN real ELSE Names(path))

ResolveText(path, rp) ==
  LET real == RealPath(<<>>, Names(rp))
  IN  IF ~IsPrefix(fsroot, rp) THEN Panics
      ELSE IF rp = fsroot \o <<"/">> \o <<"/", "exe">> THEN Path(ExePath)
      ELSE IF real = NoPath THEN Fails(ENOENT)
      ELSE Resolved(path, real)

\* Outcomes of PathResolution; the text of a terminal is outside fsroot.
PathResolution(dfd, path) ==
  IF ~IsAbs(path) /\ dfd # AT_FDCWD /\ fds[dfd] = Closed THEN {Fails(ENOENT)}
  ELSE IF ~IsAbs(path) /\ dfd # AT_FDCWD /\ fds[dfd] = Tty THEN {Panics}
  ELSE {ResolveText(path, rp) : rp \in RpBufs(dfd, path)}

\* Where the host starts from, the file it reaches by path p, and whether p
\* itself is a symbolic link.
Base(dfd, abs) == IF abs THEN <<>> ELSE IF dfd = AT_FDCWD THEN <<<<"cwd">>>> ELSE fds[dfd]

HostFile(dfd, abs, p) ==
  IF p = ExePath THEN fds[exe_fd] ELSE RealPath(Base(dfd, abs), p)

IsLink(dfd, abs, p) == p = ExePath \/ Base(dfd, abs) \o p \in DOMAIN Links

-----------------------------------------------------------------------------
(* Answers *)

HostOk == errno' = errno
HostFail(e) == errno' = e

\* Mutant: errno is taken for an error without a look at the result.
rcerrnoStale(rc) == IF errno' # 0 THEN -errno' ELSE rc

rcerrno(rc) == IF rc < 0 THEN -errno' ELSE rc

\* SyscallLinux stores the result; failed and reached are ghosts.
Answer(name, rc, failed) ==
  /\ a0' = rc
  /\ trapno' = "NONE"
  /\ call' = [NoCall EXCEPT !.name = name, !.failed = failed]
  /\ UNCHANGED pc

\* The same for a successful call that wrote w to a buffer of the guest.
AnswerBuf(name, rc, w) ==
  /\ a0' = rc
  /\ trapno' = "NONE"
  /\ call' = [NoCall EXCEPT !.name = name, !.wrote = <<w>>]
  /\ UNCHANGED pc

\* A host call that may succeed with one of rcs or fail with one of errs.
HostCall(name, rcs, errs) ==
  \/ \E rc \in rcs : HostOk /\ Answer(name, rcerrno(rc), {})
  \/ \E e \in errs : HostFail(e) /\ Answer(name, rcerrno(-1), {e})

kept == <<nofile, as_limit, exe_closed>>

Free == {n \in Fd : fds[n] = Closed /\ n < nofile}

\* The file name goes to the host as it is.
linux_openat ==
  /\ pc = "guest"
  /\ \/ /\ Free # {}
        /\ HostOk
        /\ \E f \in Exists : fds' = [fds EXCEPT ![Min(Free)] = f]
        /\ Answer("openat", rcerrno(Min(Free)), {})
     \/ \E e \in {ENOENT} \cup (IF Free = {} THEN {EMFILE} ELSE {}) :
          HostFail(e) /\ Answer("openat", rcerrno(-1), {e}) /\ UNCHANGED fds
  /\ UNCHANGED kept

CloseIgnored(fd) == fd < 3

linux_close(fd) ==
  /\ pc = "guest"
  /\ \/ /\ CloseIgnored(fd)
        /\ HostOk /\ Answer("close", 0, {})
        /\ UNCHANGED <<fds, exe_closed>>
     \/ /\ ~CloseIgnored(fd) /\ fds[fd] # Closed
        /\ HostOk /\ Answer("close", rcerrno(0), {})
        /\ fds' = [fds EXCEPT ![fd] = Closed]
        /\ exe_closed' = (exe_closed \/ fd = exe_fd)
     \/ /\ ~CloseIgnored(fd) /\ fds[fd] = Closed
        /\ HostFail(EBADF) /\ Answer("close", rcerrno(-1), {EBADF})
        /\ UNCHANGED <<fds, exe_closed>>
  /\ UNCHANGED <<nofile, as_limit>>

\* A position as an int.
AsInt(n) ==
  LET w == n % (2 * IntMax + 2) IN IF w > IntMax THEN w - (2 * IntMax + 2) ELSE w

\* A failed lseek, and a position that is negative as an int, answer 0 and
\* leave the guest's result as it was.
linux_llseek(fd, off) ==
  /\ pc = "guest"
  /\ a0' = 0 /\ trapno' = "NONE"
  /\ \/ /\ fds[fd] \notin {Closed, Tty}
        /\ HostOk
        /\ call' = [NoCall EXCEPT !.name = "llseek", !.at = off,
                      !.wrote = IF AsInt(off) >= 0 THEN <<AsInt(off)>> ELSE <<>>]
     \/ /\ fds[fd] \in {Closed, Tty}
        /\ LET e == IF fds[fd] = Tty THEN ESPIPE ELSE EBADF
           IN  HostFail(e) /\ call' = [NoCall EXCEPT !.name = "llseek", !.failed = {e}]
  /\ UNCHANGED <<pc, fds, kept>>

linux_read_write(fd) ==
  /\ pc = "guest"
  /\ HostCall("rw", IF fds[fd] = Closed THEN {} ELSE {0, 1},
              IF fds[fd] = Closed THEN {EBADF} ELSE {EINVAL})
  /\ UNCHANGED <<fds, kept>>

\* The host's fstatat refuses an empty path without AT_EMPTY_PATH.
linux_fstat64 ==
  pc = "guest" /\ HostCall("fstat64", {}, {ENOENT}) /\ UNCHANGED <<fds, kept>>

\* These two only pass on the host's answer.
linux_mprotect ==
  pc = "guest" /\ HostCall("pass", {0}, {EINVAL}) /\ UNCHANGED <<fds, kept>>

linux_getrandom ==
  pc = "guest" /\ HostCall("pass", {0, 1}, {EINVAL}) /\ UNCHANGED <<fds, kept>>

\* The error the host has for path p, 0 for none; link asks for a symbolic link.
Refusal(dfd, abs, p, link) ==
  IF HostFile(dfd, abs, p) \in {NoPath, Closed} THEN ENOENT
  ELSE IF link /\ ~IsLink(dfd, abs, p) THEN EINVAL ELSE 0

\* A call on the path that PathResolution gives.
PathCall(dfd, path, link) ==
  /\ pc = "guest"
  /\ \E r \in PathResolution(dfd, path) :
       LET refused == Refusal(dfd, IsAbs(path), r.p, link)
       IN  \/ r.k = "panic" /\ pc' = "panic" /\ UNCHANGED <<errno, a0, trapno, call>>
           \/ r.k = "error" /\ HostFail(r.e) /\ Answer("path", -errno', {r.e})
           \/ /\ r.k = "path" /\ refused # 0
              /\ HostFail(refused) /\ Answer("path", rcerrno(-1), {refused})
           \/ /\ r.k = "path" /\ refused = 0
              /\ HostOk /\ a0' = rcerrno(0)
              /\ call' = [NoCall EXCEPT !.name = "path", !.abs = IsAbs(path),
                            !.reached = HostFile(dfd, IsAbs(path), r.p)]
              /\ trapno' = "NONE" /\ UNCHANGED pc
  /\ UNCHANGED <<fds, kept>>

linux_statx(dfd, path) == PathCall(dfd, path, FALSE)

\* realpath has followed the links of an absolute path, so that only the
\* executable is still one.
linux_readlinkat(dfd, path) == PathCall(dfd, path, TRUE)

\* Either call with an empty path, which the host gets together with dfd.
linux_path_empty(fd) ==
  /\ pc = "guest"
  /\ HostCall("path", IF fds[fd] = Closed THEN {} ELSE {0},
              IF fds[fd] = Closed THEN {EBADF} ELSE {ENOENT})
  /\ UNCHANGED <<fds, kept>>

\* *tidptr gets a variable that nothing has written.
linux_set_tid_address ==
  /\ pc = "guest"
  /\ HostOk /\ AnswerBuf("set_tid_address", 1, "junk")
  /\ UNCHANGED <<fds, kept>>

linux_uname ==
  /\ pc = "guest"
  /\ HostOk /\ AnswerBuf("uname", rcerrno(0), "riscv32")
  /\ UNCHANGED <<fds, kept>>

\* The buffer is filled when sysinfo answers more than 0, and it answers 0.
linux_sysinfo ==
  pc = "guest" /\ HostOk /\ Answer("sysinfo", rcerrno(0), {}) /\ UNCHANGED <<fds, kept>>

\* rt_sigaction, which does nothing, and the user and group ids.
linux_ids ==
  /\ pc = "guest"
  /\ HostOk /\ \E id \in {0, 1} : Answer("ids", id, {})
  /\ UNCHANGED <<fds, kept>>

linux_clock_gettime64 ==
  /\ pc = "guest"
  /\ HostOk /\ AnswerBuf("clock_gettime64", 0, "time")
  /\ UNCHANGED <<fds, kept>>

linux_set_robust_list ==
  /\ pc = "guest"
  /\ HostOk /\ Answer("set_robust_list", -ENOSYS, {ENOSYS})
  /\ UNCHANGED <<fds, kept>>

\* Limits on address space, stack and data are read but not set.
Passed(resource) == resource \notin {"AS", "STACK", "DATA"}

linux_prlimit64(resource, n) ==
  /\ pc = "guest"
  /\ \/ /\ HostOk /\ AnswerBuf("prlimit64", 0, resource)
        /\ nofile' = IF Passed(resource) /\ resource = "NOFILE" THEN n ELSE nofile
        /\ as_limit' = IF Passed(resource) /\ resource = "AS" THEN "guest" ELSE as_limit
     \/ /\ HostFail(EINVAL) /\ Answer("prlimit64", -errno', {EINVAL})
        /\ UNCHANGED <<nofile, as_limit>>
  /\ UNCHANGED <<fds, exe_closed>>

linux_exit(error_code) ==
  /\ pc = "guest"
  /\ trapno' = "TERMINATED" /\ a0' = error_code
  /\ pc' = "exited"
  /\ call' = [NoCall EXCEPT !.name = "exit"]
  /\ UNCHANGED <<fds, errno, kept>>

SyscallUnhandled ==
  /\ pc = "guest" /\ pc' = "panic"
  /\ UNCHANGED <<fds, errno, kept, a0, trapno, call>>

Stopped == pc \in {"exited", "panic"} /\ UNCHANGED vars

Next ==
  \/ linux_openat \/ linux_fstat64 \/ linux_mprotect \/ linux_getrandom
  \/ linux_set_tid_address \/ linux_uname \/ linux_sysinfo \/ linux_ids
  \/ linux_clock_gettime64
  \/ linux_set_robust_list \/ SyscallUnhandled \/ Stopped
  \/ \E fd \in Fd :
       \/ linux_close(fd) \/ linux_read_write(fd) \/ linux_path_empty(fd)
       \/ \E off \in 0 .. MaxPos : linux_llseek(fd, off)
  \/ \E path \in Paths : \E dfd \in Fd \cup {AT_FDCWD} :
       linux_statx(dfd, path) \/ linux_readlinkat(dfd, path)
  \/ \E resource \in {"AS", "NOFILE"}, n \in {4, MaxFd + 1} : linux_prlimit64(resource, n)
  \/ \E error_code \in {0, 1} : linux_exit(error_code)

Spec == Init /\ [][Next]_vars

-----------------------------------------------------------------------------
(* Properties *)

\* Of every call but llseek: a negative answer is an error that this very call
\* met, not one errno kept from an earlier call, and an error it met is never
\* answered with success.  llseek answers 0 whatever happens; of it only this
\* much is asked, that a position an int holds is reported as it is and that
\* nothing is reported when lseek failed.
AnswersHonest ==
  pc = "guest" =>
    CASE call.name = "none" -> TRUE
      [] call.name = "llseek" ->
           /\ call.failed # {} => call.wrote = <<>>
           /\ call.failed = {} /\ call.at <= IntMax => call.wrote = <<call.at>>
      [] OTHER -> IF call.failed = {} THEN a0 >= 0 ELSE \E e \in call.failed : a0 = -e

\* An absolute path, or /proc/self/exe, that PathResolution accepts, which is
\* asked for the paths of statx and readlinkat only, reaches nothing outside the
\* directory of the executable, whatever symbolic links and ".." it has, unless
\* the guest closed the descriptor that stands for the executable.  openat
\* hands its path to the host as it is and reaches every file.
PathsInRoot ==
  call.name = "path" /\ call.abs =>
    UnderRoot(call.reached) \/ exe_closed
=============================================================================
