--------------------------- MODULE SyscallsProofs ---------------------------
(***************************************************************************)
(* The system calls of env.cpp for every file tree, every set of paths,    *)
(* every size of the descriptor table and every sequence of calls: every   *)
(* answer but llseek's is about the call that was made, and the paths that *)
(* PathResolution accepts stay in the directory of the executable.         *)
(***************************************************************************)
EXTENDS Syscalls, Recursion

\* What a descriptor may stand for.
Files == Exists \cup {Closed, Tty, Exe}

\* Unless the guest closes exe_fd it is the executable.
ExeKept == ~exe_closed => fds[exe_fd] = Exe

Inv ==
  /\ fds \in [Fd -> Files]
  /\ ExeKept
  /\ AnswersHonest

-----------------------------------------------------------------------------
(* Facts *)

\* A closed descriptor is not the executable, and exe_fd is in the table.
LEMMA Specials ==
  /\ Closed # Exe
  /\ exe_fd \in Fd
  /\ Fd \subseteq Nat
  <1>1. Closed # Exe
    BY DEF Closed, Exe
  <1> QED
    BY <1>1, SyscallsAssumption DEF Fd, exe_fd

\* A nonempty set of natural numbers has a least element.
LEMMA MinNat ==
  ASSUME NEW S \in SUBSET Nat, S # {}
  PROVE  Min(S) \in S
  <1>1. \E x \in S : \A y \in S : ~(<<y, x>> \in OpToRel(<, Nat))
    BY WFMin, NatLessThanWellFounded, Zenon
  <1>2. PICK x \in S : \A y \in S : ~(<<y, x>> \in OpToRel(<, Nat))
    BY <1>1
  <1>3. \A y \in S : x <= y
    <2> TAKE y \in S
    <2>1. x \in Nat /\ y \in Nat
      OBVIOUS
    <2>2. <<y, x>> \in Nat \X Nat
      BY <2>1
    <2>3. ~(y < x)
      BY <1>2, <2>2 DEF OpToRel
    <2> QED
      BY <2>1, <2>3
  <1> QED
    BY <1>3 DEF Min

\* The descriptor open is given was closed, so it is not that of the executable
\* unless the guest closed that.
LEMMA FreeFd ==
  ASSUME Free # {}
  PROVE  Min(Free) \in Fd /\ fds[Min(Free)] = Closed
  <1>1. Free \in SUBSET Nat
    BY Specials DEF Free
  <1>2. Min(Free) \in Free
    BY <1>1, MinNat
  <1> QED
    BY <1>2 DEF Free

\* The ghost of a call without a path or a buffer.
LEMMA AnswerFacts ==
  ASSUME NEW name, NEW rc, NEW failed, Answer(name, rc, failed)
  PROVE  /\ a0' = rc /\ pc' = pc
         /\ call'.name = name /\ call'.failed = failed
  BY DEF Answer, NoCall

\* A nonnegative result of a call that made no failing host call is honest.
LEMMA GoodAnswer ==
  ASSUME NEW name, name # "llseek", NEW rc \in Int, rc >= 0, Answer(name, rc, {})
  PROVE  AnswersHonest'
  <1>1. a0' = rc /\ call'.name = name /\ call'.failed = {}
    BY AnswerFacts
  <1> QED
    BY <1>1 DEF AnswersHonest

\* So is the error of the host call that failed.
LEMMA BadAnswer ==
  ASSUME NEW name, name # "llseek", NEW e, Answer(name, -e, {e})
  PROVE  AnswersHonest'
  <1>1. a0' = -e /\ call'.name = name /\ call'.failed = {e}
    BY AnswerFacts
  <1> QED
    BY <1>1 DEF AnswersHonest

\* So is the answer of a call that wrote a buffer.
LEMMA BufAnswer ==
  ASSUME NEW name, name # "llseek", NEW rc \in Int, rc >= 0, NEW w, AnswerBuf(name, rc, w)
  PROVE  AnswersHonest'
  <1>1. a0' = rc /\ call'.name = name /\ call'.failed = {}
    BY DEF AnswerBuf, NoCall
  <1> QED
    BY <1>1 DEF AnswersHonest

\* So are the answers of a host call.
LEMMA HostCallAnswer ==
  ASSUME NEW name, name # "llseek", NEW rcs \in SUBSET Nat, NEW errs, HostCall(name, rcs, errs)
  PROVE  AnswersHonest'
  <1>1. ASSUME NEW rc \in rcs, Answer(name, rcerrno(rc), {})
        PROVE  AnswersHonest'
    <2>1. rcerrno(rc) = rc /\ rc \in Int /\ rc >= 0
      BY DEF rcerrno
    <2> QED
      BY <1>1, <2>1, GoodAnswer
  <1>2. ASSUME NEW e \in errs, HostFail(e), Answer(name, rcerrno(-1), {e})
        PROVE  AnswersHonest'
    <2>1. rcerrno(-1) = -e
      BY <1>2 DEF rcerrno, HostFail
    <2> QED
      BY <1>2, <2>1, BadAnswer
  <1> QED
    BY <1>1, <1>2 DEF HostCall

\* Zero is passed on as it is.
LEMMA RcZero == rcerrno(0) = 0
  BY DEF rcerrno

-----------------------------------------------------------------------------
(* realpath *)

\* What realpath answers for an absolute path.
Canon == Exists \cup {<<>>, NoPath}

LEMMA ExistsFacts ==
  ASSUME NEW p \in Exists
  PROVE  /\ p \in Seq(Range(p)) /\ p # <<>> /\ p # NoPath
         /\ \A k \in 1 .. Len(p) : p[k] # <<"..">> /\ SubSeq(p, 1, k) \in Exists
  BY SyscallsAssumption, NoPathAssumption

\* The parent of a canonical path is one.
LEMMA FrontCanon ==
  ASSUME NEW p \in Exists
  PROVE  Front(p) \in Canon
  <1> DEFINE A == Range(p)
  <1>1. p \in Seq(A) /\ p # <<>>
    BY ExistsFacts
  <1> HIDE DEF A
  <1> DEFINE n == Len(p)
  <1>2. n \in Nat /\ n > 0
    BY <1>1
  <1>3. CASE n = 1
    BY <1>1, <1>3 DEF Front, Canon
  <1>4. CASE n > 1
    <2>1. n - 1 \in 1 .. n
      <3> HIDE DEF n
      <3> QED
        BY <1>2, <1>4
    <2> QED
      BY <2>1, ExistsFacts DEF Front, Canon
  <1> HIDE DEF n
  <1> QED
    BY <1>2, <1>3, <1>4

LEMMA PathStepCanon ==
  ASSUME NEW p \in Canon, NEW n
  PROVE  PathStep(p, n) \in Canon
  <1>1. \A l \in DOMAIN Links : Links[l] \in Exists
    BY SyscallsAssumption
  <1> QED
    BY <1>1, FrontCanon DEF PathStep, Canon

\* The recursion of realpath from the root.
LEMMA RealPathDef ==
  ASSUME NEW names
  PROVE  \E g \in [Nat -> Canon] :
           /\ g[0] = <<>>
           /\ \A k \in Nat : g[k + 1] = PathStep(g[k], names[k + 1])
           /\ Len(names) \in Nat => RealPath(<<>>, names) = g[Len(names)]
  <1> DEFINE step == [k \in Nat |-> [p \in Canon |-> PathStep(p, names[k + 1])]]
             F(g) == [k \in Nat |-> IF k = 0 THEN <<>> ELSE PathStep(g[k - 1], names[k])]
             r == CHOOSE g : g = F(g)
  <1>1. step \in [Nat -> [Canon -> Canon]]
    BY PathStepCanon
  <1> DEFINE root == <<>>
  <1>2. root \in Canon
    BY DEF Canon
  <1>3. PICK g \in [Nat -> Canon] : g[0] = root /\ \A k \in Nat : g[k + 1] = step[k][g[k]]
    <2> HIDE DEF step, root
    <2>1. \E g : Recursive(g, Canon, root, step)
      BY <1>1, <1>2, NatRec
    <2> QED
      BY <2>1 DEF Recursive
  <1>4. \A k \in Nat : g[k + 1] = PathStep(g[k], names[k + 1])
    BY <1>3
  <1>5. g = F(g)
    <2>1. \A k \in Nat : g[k] = IF k = 0 THEN <<>> ELSE PathStep(g[k - 1], names[k])
      <3> TAKE k \in Nat
      <3>1. CASE k = 0
        BY <1>3, <3>1
      <3>2. CASE k # 0
        <4>1. k - 1 \in Nat /\ (k - 1) + 1 = k
          BY <3>2
        <4> QED
          BY <1>4, <3>2, <4>1
      <3> QED
        BY <3>1, <3>2
    <2> QED
      BY <1>3, <2>1
  <1>6. r = F(r)
    <2> HIDE DEF F
    <2> QED
      BY <1>5
  <1>7. \A k \in Nat : r[k] = g[k]
    <2> DEFINE S == {k \in Nat : r[k] = g[k]}
    <2> HIDE DEF r
    <2>1. \A k \in Nat : r[k] = IF k = 0 THEN <<>> ELSE PathStep(r[k - 1], names[k])
      BY <1>6
    <2>2. 0 \in S
      BY <2>1, <1>3
    <2>3. ASSUME NEW k \in Nat, k \in S
          PROVE  k + 1 \in S
      <3>1. r[k + 1] = PathStep(r[(k + 1) - 1], names[k + 1]) /\ (k + 1) - 1 = k
        BY <2>1
      <3> QED
        BY <3>1, <2>3, <1>4
    <2>4. Nat \subseteq S
      <3> HIDE DEF S
      <3> QED
        BY <2>2, <2>3, NatInd
    <2> QED
      BY <2>4
  <1>8. RealPath(<<>>, names) = r[Len(names)]
    BY DEF RealPath
  <1> HIDE DEF r, F, step
  <1> QED
    BY <1>3, <1>4, <1>7, <1>8

\* realpath of a text is canonical.
LEMMA RealPathCanon ==
  ASSUME NEW names, Len(names) \in Nat
  PROVE  RealPath(<<>>, names) \in Canon
  BY RealPathDef

\* realpath leaves a canonical path alone, so the host reaches the very file
\* that was compared with fsroot.
LEMMA RealPathFixed ==
  ASSUME NEW p \in Exists
  PROVE  RealPath(<<>>, p) = p
  <1> DEFINE A == Range(p)
  <1>1. p \in Seq(A) /\ p # <<>>
    BY ExistsFacts
  <1> HIDE DEF A
  <1>2. Len(p) \in Nat
    BY <1>1
  <1>3. PICK g \in [Nat -> Canon] :
          /\ g[0] = <<>>
          /\ \A k \in Nat : g[k + 1] = PathStep(g[k], p[k + 1])
          /\ RealPath(<<>>, p) = g[Len(p)]
    BY <1>2, RealPathDef
  <1> DEFINE S == {k \in Nat : k <= Len(p) => g[k] = SubSeq(p, 1, k)}
  <1>4. 0 \in S
    <2>1. SubSeq(p, 1, 0) = <<>>
      BY <1>1
    <2> QED
      BY <1>3, <2>1
  <1>5. ASSUME NEW k \in Nat, k \in S
        PROVE  k + 1 \in S
    <2> SUFFICES ASSUME k + 1 <= Len(p) PROVE g[k + 1] = SubSeq(p, 1, k + 1)
      OBVIOUS
    <2> DEFINE q == SubSeq(p, 1, k)
    <2>1. g[k] = q
      BY <1>2, <1>5
    <2>2. k + 1 \in 1 .. Len(p)
      BY <1>2
    <2>3. Append(q, p[k + 1]) = SubSeq(p, 1, k + 1)
      BY <1>1, <1>2, <2>2
    <2>4. p[k + 1] # <<"..">> /\ SubSeq(p, 1, k + 1) \in Exists
      BY <2>2, ExistsFacts
    <2>5. q # NoPath
      <3>1. CASE k = 0
        BY <1>1, <3>1 DEF NoPath
      <3>2. CASE k # 0
        <4>1. k \in 1 .. Len(p)
          BY <1>2, <3>2
        <4> QED
          BY <4>1, ExistsFacts
      <3> QED
        BY <3>1, <3>2
    <2>6. SubSeq(p, 1, k + 1) \notin DOMAIN Links
      BY <2>4, SyscallsAssumption
    <2> HIDE DEF q
    <2>7. PathStep(q, p[k + 1]) = SubSeq(p, 1, k + 1)
      BY <2>3, <2>4, <2>5, <2>6 DEF PathStep
    <2> QED
      BY <1>3, <2>1, <2>7
  <1>6. Nat \subseteq S
    <2> HIDE DEF S
    <2> QED
      BY <1>4, <1>5, NatInd
  <1>7. SubSeq(p, 1, Len(p)) = p
    BY <1>1
  <1> QED
    <2>1. Len(p) \in S
      <3> HIDE DEF S
      <3> QED
        BY <1>2, <1>6
    <2>2. g[Len(p)] = SubSeq(p, 1, Len(p))
      BY <1>2, <2>1
    <2> QED
      BY <1>3, <1>7, <2>2

\* The names of a text are a sequence, so that realpath ends.
LEMMA NamesLen ==
  ASSUME NEW A, NEW text \in Seq(A)
  PROVE  Len(Names(text)) \in Nat
  <1> DEFINE N == Seq(Seq(A))
             Name(s, k) == CASE text[k] = "/" -> s
                             [] k = 1 /\ text[k] # "/" -> <<<<text[k]>>>>
                             [] k > 1 /\ text[k] # "/" /\ text[k - 1] = "/" -> Append(s, <<text[k]>>)
                             [] OTHER -> [s EXCEPT ![Len(s)] = Append(@, text[k])]
             n == Len(text)
             step == [k \in Nat |-> [s \in N |-> IF k + 1 <= n THEN Name(s, k + 1) ELSE s]]
             F(g) == [k \in 0 .. n |->
                        CASE k = 0 -> <<>>
                          [] k > 0 /\ text[k] = "/" -> g[k - 1]
                          [] k = 1 /\ text[k] # "/" -> <<<<text[k]>>>>
                          [] k > 1 /\ text[k] # "/" /\ text[k - 1] = "/" -> Append(g[k - 1], <<text[k]>>)
                          [] OTHER -> [g[k - 1] EXCEPT ![Len(g[k - 1])] = Append(@, text[k])]]
             r == CHOOSE g : g = F(g)
             none == <<>>
  <1>1. n \in Nat
    OBVIOUS
  <1>2. step \in [Nat -> [N -> N]]
    <2> SUFFICES ASSUME NEW k \in Nat, NEW s \in N, k + 1 <= n PROVE Name(s, k + 1) \in N
      <3> HIDE DEF N, Name, n
      <3> QED
        OBVIOUS
    <2> DEFINE t == text[k + 1]
    <2>1. t \in A
      BY <1>1
    <2> HIDE DEF t
    <2>2. <<t>> \in Seq(A)
      BY <2>1
    <2>3. <<<<t>>>> \in N /\ Append(s, <<t>>) \in N
      BY <2>2
    <2>4. [s EXCEPT ![Len(s)] = Append(@, t)] \in N
      <3> DEFINE l == Len(s)
                 B == Seq(A)
                 u == [s EXCEPT ![l] = Append(@, t)]
      <3>1. l \in Nat /\ \A i \in 1 .. l : s[i] \in B
        OBVIOUS
      <3>2. \A i \in 1 .. l : Append(s[i], t) \in B
        BY <3>1, <2>1
      <3>3. DOMAIN s = 1 .. l
        OBVIOUS
      <3>4. u = [i \in 1 .. l |-> IF i = l THEN Append(s[i], t) ELSE s[i]]
        BY <3>3
      <3> HIDE DEF l, B, u
      <3>5. u \in [1 .. l -> B]
        BY <3>1, <3>2, <3>4
      <3>6. u \in Seq(B)
        BY <3>1, <3>5
      <3> QED
        BY <3>6 DEF l, B, u
    <2> QED
      <3> DEFINE u == [s EXCEPT ![Len(s)] = Append(@, t)]
                 v == Append(s, <<t>>)
                 w == <<<<t>>>>
      <3>1. Name(s, k + 1) \in {s, w, v, u}
        <4> USE DEF t
        <4> QED
          OBVIOUS
      <3>2. {s, w, v, u} \subseteq N
        BY <2>3, <2>4
      <3> HIDE DEF Name, u, v, w, N
      <3> QED
        BY <3>1, <3>2
  <1>3. none \in N
    OBVIOUS
  <1>4. PICK h : Recursive(h, N, none, step)
    <2> HIDE DEF N, none, step
    <2> QED
      BY <1>2, <1>3, NatRec
  <1> DEFINE g == [k \in 0 .. n |-> h[k]]
  <1>5. h[0] = <<>> /\ \A k \in 1 .. n : h[k] = Name(h[k - 1], k)
    <2>1. h \in [Nat -> N] /\ h[0] = none /\ \A k \in Nat : h[k + 1] = step[k][h[k]]
      <3> HIDE DEF N, none, step
      <3> QED
        BY <1>4 DEF Recursive
    <2>2. ASSUME NEW k \in 1 .. n
          PROVE  h[k] = Name(h[k - 1], k)
      <3> HIDE DEF N, Name, n
      <3>1. k - 1 \in Nat /\ (k - 1) + 1 = k /\ (k - 1) + 1 <= n
        BY <1>1
      <3>2. h[k - 1] \in N /\ h[k] = step[k - 1][h[k - 1]]
        <4> HIDE DEF step
        <4> QED
          BY <2>1, <3>1
      <3> QED
        BY <3>1, <3>2
    <2> HIDE DEF N, Name, n, step
    <2> QED
      BY <2>1, <2>2
  <1>6. g = F(g)
    <2>1. ASSUME NEW k \in 0 .. n
          PROVE  g[k] = F(g)[k]
      <3>1. CASE k = 0
        BY <3>1, <1>1, <1>5
      <3>2. CASE k # 0
        <4>1. k \in 1 .. n /\ k - 1 \in 0 .. n /\ k > 0
          <5> HIDE DEF n
          <5> QED
            BY <3>2, <1>1
        <4>2. g[k] = Name(g[k - 1], k)
          <5> HIDE DEF n, Name
          <5> QED
            BY <4>1, <1>5
        <4> HIDE DEF g, n
        <4> QED
          BY <4>1, <4>2, <3>2
      <3> QED
        BY <3>1, <3>2
    <2> HIDE DEF n
    <2> QED
      BY <2>1
  <1>7. r = F(r)
    <2> HIDE DEF F, g
    <2> QED
      BY <1>6
  <1> HIDE DEF r
  <1> DEFINE S == {k \in Nat : k <= n => r[k] \in N}
  <1>8. 0 \in S
    BY <1>1, <1>7
  <1>9. ASSUME NEW k \in Nat, k \in S
        PROVE  k + 1 \in S
    <2> SUFFICES ASSUME k + 1 <= n PROVE r[k + 1] \in N
      <3> HIDE DEF n, N
      <3> QED
        OBVIOUS
    <2>1. r[k] \in N
      <3> HIDE DEF n, N
      <3> QED
        BY <1>1, <1>9
    <2>2. k + 1 \in 0 .. n /\ k + 1 > 0 /\ (k + 1) - 1 = k
      <3> HIDE DEF n, N
      <3> QED
        BY <1>1
    <2>3. r[k + 1] = Name(r[k], k + 1)
      <3> DEFINE m == k + 1
      <3>1. m \in 0 .. n /\ m > 0 /\ m - 1 = k /\ m # 0
        <4> HIDE DEF n
        <4> QED
          BY <1>1, <2>2
      <3> HIDE DEF m, n
      <3>2. r[m] = F(r)[m]
        <4> HIDE DEF F
        <4> QED
          BY <1>7
      <3>3. F(r)[m] = Name(r[m - 1], m)
        <4>1. CASE text[m] = "/"
          BY <3>1, <4>1
        <4>2. CASE m = 1 /\ text[m] # "/"
          BY <3>1, <4>2
        <4>3. CASE m > 1 /\ text[m] # "/" /\ text[m - 1] = "/"
          BY <3>1, <4>3
        <4>4. CASE m > 1 /\ text[m] # "/" /\ text[m - 1] # "/"
          BY <3>1, <4>4
        <4> QED
          BY <1>1, <3>1, <4>1, <4>2, <4>3, <4>4
      <3> QED
        BY <3>1, <3>2, <3>3 DEF m
    <2>4. Name(r[k], k + 1) = step[k][r[k]]
      <3> HIDE DEF n, N, Name
      <3> QED
        BY <2>1
    <2> HIDE DEF n, N, Name, step
    <2> QED
      BY <1>2, <2>1, <2>3, <2>4
  <1>10. Nat \subseteq S
    <2> HIDE DEF S
    <2> QED
      BY <1>8, <1>9, NatInd
  <1>11. r[n] \in N
    <2> HIDE DEF r, N, n
    <2> QED
      BY <1>1, <1>10
  <1>12. Names(text) = r[n]
    BY DEF Names, r
  <1> HIDE DEF r, n
  <1> QED
    BY <1>11, <1>12

-----------------------------------------------------------------------------
(* One lemma per kind of call *)

\* Calls that leave the descriptors alone.
LEMMA ProcessFrame ==
  ASSUME Inv, UNCHANGED <<fds, kept>>
  PROVE  fds' \in [Fd -> Files] /\ ExeKept'
  BY DEF Inv, ExeKept, kept

LEMMA OpenatStep ==
  ASSUME Inv, linux_openat
  PROVE  Inv'
  <1>1. CASE /\ Free # {}
             /\ \E f \in Exists : fds' = [fds EXCEPT ![Min(Free)] = f]
             /\ Answer("openat", rcerrno(Min(Free)), {})
    <2> DEFINE m == Min(Free)
    <2>1. m \in Fd /\ fds[m] = Closed
      BY <1>1, FreeFd
    <2>2. PICK f \in Exists : fds' = [fds EXCEPT ![m] = f]
      BY <1>1
    <2>3. Answer("openat", rcerrno(m), {})
      BY <1>1
    <2> HIDE DEF m
    <2>4. m \in Int /\ m >= 0 /\ rcerrno(m) = m
      BY <2>1, Specials DEF rcerrno
    <2>5. AnswersHonest'
      BY <2>3, <2>4, GoodAnswer
    <2>6. fds \in [Fd -> Files]
      BY DEF Inv
    <2>7. fds' \in [Fd -> Files] /\ \A n \in Fd : n # m => fds'[n] = fds[n]
      BY <2>1, <2>2, <2>6 DEF Files
    <2>8. UNCHANGED exe_closed
      BY DEF linux_openat, kept
    <2>9. ExeKept'
      BY <2>1, <2>7, <2>8, Specials DEF Inv, ExeKept
    <2> QED
      BY <2>5, <2>7, <2>9 DEF Inv
  <1>2. CASE UNCHANGED fds /\ \E e \in {ENOENT, EMFILE} : HostFail(e) /\ Answer("openat", rcerrno(-1), {e})
    <2>1. PICK e \in {ENOENT, EMFILE} : HostFail(e) /\ Answer("openat", rcerrno(-1), {e})
      BY <1>2
    <2>2. rcerrno(-1) = -e
      BY <2>1 DEF rcerrno, HostFail
    <2>3. AnswersHonest'
      BY <2>1, <2>2, BadAnswer
    <2>4. UNCHANGED <<fds, kept>>
      BY <1>2 DEF linux_openat
    <2> QED
      BY <2>3, <2>4, ProcessFrame DEF Inv
  <1> QED
    BY <1>1, <1>2 DEF linux_openat

LEMMA CloseStep ==
  ASSUME Inv, NEW fd \in Fd, linux_close(fd)
  PROVE  Inv'
  <1>1. fds \in [Fd -> Files] /\ ExeKept
    BY DEF Inv
  <1>2. CASE CloseIgnored(fd)
    <2>1. Answer("close", 0, {}) /\ UNCHANGED <<fds, exe_closed>>
      BY <1>2 DEF linux_close
    <2>2. AnswersHonest'
      BY <2>1, GoodAnswer
    <2> QED
      BY <1>1, <2>1, <2>2 DEF Inv, ExeKept
  <1>3. CASE ~CloseIgnored(fd) /\ fds[fd] # Closed
    <2>1. /\ Answer("close", rcerrno(0), {})
          /\ fds' = [fds EXCEPT ![fd] = Closed]
          /\ exe_closed' = (exe_closed \/ fd = exe_fd)
      BY <1>3 DEF linux_close
    <2>2. AnswersHonest'
      BY <2>1, RcZero, GoodAnswer
    <2>3. fds' \in [Fd -> Files] /\ \A n \in Fd : n # fd => fds'[n] = fds[n]
      BY <1>1, <2>1 DEF Files
    <2>4. ExeKept'
      BY <2>1, <2>3, <1>1, Specials DEF ExeKept
    <2> QED
      BY <2>2, <2>3, <2>4 DEF Inv
  <1>4. CASE ~CloseIgnored(fd) /\ fds[fd] = Closed
    <2>1. HostFail(EBADF) /\ Answer("close", rcerrno(-1), {EBADF}) /\ UNCHANGED <<fds, exe_closed>>
      BY <1>4 DEF linux_close
    <2>2. rcerrno(-1) = -EBADF
      BY <2>1 DEF rcerrno, HostFail
    <2>3. AnswersHonest'
      BY <2>1, <2>2, BadAnswer
    <2> QED
      BY <1>1, <2>1, <2>3 DEF Inv, ExeKept
  <1> QED
    BY <1>2, <1>3, <1>4

\* A position that an int holds is that int.
LEMMA AsIntSmall ==
  ASSUME NEW n \in Nat, n <= IntMax
  PROVE  AsInt(n) = n
  <1>1. IntMax \in Nat
    BY SyscallsAssumption
  <1>2. n % (2 * IntMax + 2) = n
    BY <1>1, SMT
  <1> QED
    BY <1>1, <1>2 DEF AsInt

LEMMA LlseekStep ==
  ASSUME Inv, NEW fd \in Fd, NEW off \in 0 .. MaxPos, linux_llseek(fd, off)
  PROVE  Inv'
  <1>1. UNCHANGED <<fds, kept>>
    BY DEF linux_llseek
  <1>2. AnswersHonest'
    <2>1. CASE call' = [NoCall EXCEPT !.name = "llseek", !.at = off,
                          !.wrote = IF AsInt(off) >= 0 THEN <<AsInt(off)>> ELSE <<>>]
      <3>1. /\ call'.name = "llseek" /\ call'.failed = {} /\ call'.at = off
            /\ call'.wrote = IF AsInt(off) >= 0 THEN <<AsInt(off)>> ELSE <<>>
        BY <2>1 DEF NoCall
      <3>2. off <= IntMax => AsInt(off) = off /\ off >= 0
        BY AsIntSmall, SyscallsAssumption
      <3>3. call'.at <= IntMax => call'.wrote = <<call'.at>>
        BY <3>1, <3>2
      <3> QED
        BY <3>1, <3>3 DEF AnswersHonest
    <2>2. CASE \E e \in {ESPIPE, EBADF} : call' = [NoCall EXCEPT !.name = "llseek", !.failed = {e}]
      <3>1. call'.name = "llseek" /\ call'.failed # {} /\ call'.wrote = <<>>
        BY <2>2 DEF NoCall
      <3> QED
        BY <3>1 DEF AnswersHonest
    <2> QED
      BY <2>1, <2>2 DEF linux_llseek
  <1> QED
    BY <1>1, <1>2, ProcessFrame DEF Inv

\* A panicking call leaves the guest, so it answers nothing.
LEMMA PathCallStep ==
  ASSUME Inv, NEW dfd, NEW path, NEW link, PathCall(dfd, path, link)
  PROVE  Inv'
  <1>1. UNCHANGED <<fds, kept>>
    BY DEF PathCall
  <1>2. PICK r \in PathResolution(dfd, path) :
          LET refused == Refusal(dfd, IsAbs(path), r.p, link)
          IN  \/ r.k = "panic" /\ pc' = "panic" /\ UNCHANGED <<errno, a0, trapno, call>>
              \/ r.k = "error" /\ HostFail(r.e) /\ Answer("path", -errno', {r.e})
              \/ /\ r.k = "path" /\ refused # 0
                 /\ HostFail(refused) /\ Answer("path", rcerrno(-1), {refused})
              \/ /\ r.k = "path" /\ refused = 0
                 /\ HostOk /\ a0' = rcerrno(0)
                 /\ call' = [NoCall EXCEPT !.name = "path", !.abs = IsAbs(path),
                               !.reached = HostFile(dfd, IsAbs(path), r.p)]
                 /\ trapno' = "NONE" /\ UNCHANGED pc
    BY DEF PathCall
  <1>3. CASE pc' = "panic"
    BY <1>1, <1>3, ProcessFrame DEF Inv, AnswersHonest
  <1>4. CASE HostFail(r.e) /\ Answer("path", -errno', {r.e})
    <2>1. Answer("path", -r.e, {r.e})
      BY <1>4 DEF HostFail
    <2>2. AnswersHonest'
      BY <2>1, BadAnswer
    <2> QED
      BY <1>1, <2>2, ProcessFrame DEF Inv
  <1>5. ASSUME NEW e, HostFail(e), Answer("path", rcerrno(-1), {e})
        PROVE  Inv'
    <2>1. rcerrno(-1) = -e
      BY <1>5 DEF rcerrno, HostFail
    <2>2. AnswersHonest'
      BY <1>5, <2>1, BadAnswer
    <2> QED
      BY <1>1, <2>2, ProcessFrame DEF Inv
  <1>6. CASE /\ a0' = rcerrno(0)
             /\ call' = [NoCall EXCEPT !.name = "path", !.abs = IsAbs(path),
                           !.reached = HostFile(dfd, IsAbs(path), r.p)]
    <2>1. a0' = 0 /\ call'.name = "path" /\ call'.failed = {}
      BY <1>6, RcZero DEF NoCall
    <2>2. AnswersHonest'
      BY <2>1 DEF AnswersHonest
    <2> QED
      BY <1>1, <2>2, ProcessFrame DEF Inv
  <1> QED
    BY <1>2, <1>3, <1>4, <1>5, <1>6

LEMMA PrlimitStep ==
  ASSUME Inv, NEW resource, NEW n, linux_prlimit64(resource, n)
  PROVE  Inv'
  <1>1. UNCHANGED <<fds, exe_closed>>
    BY DEF linux_prlimit64
  <1>2. AnswersHonest'
    <2>1. CASE AnswerBuf("prlimit64", 0, resource)
      BY <2>1, BufAnswer
    <2>2. CASE HostFail(EINVAL) /\ Answer("prlimit64", -errno', {EINVAL})
      <3>1. Answer("prlimit64", -EINVAL, {EINVAL})
        BY <2>2 DEF HostFail
      <3> QED
        BY <3>1, BadAnswer
    <2> QED
      BY <2>1, <2>2 DEF linux_prlimit64
  <1> QED
    BY <1>1, <1>2 DEF Inv, ExeKept

\* The calls that pass on one answer of the host, or none.
LEMMA SimpleStep ==
  ASSUME Inv,
         \/ linux_fstat64 \/ linux_mprotect \/ linux_getrandom
         \/ linux_set_tid_address \/ linux_uname \/ linux_sysinfo \/ linux_ids
         \/ linux_clock_gettime64 \/ linux_set_robust_list \/ SyscallUnhandled
         \/ \E fd \in Fd : linux_read_write(fd) \/ linux_path_empty(fd)
         \/ \E c \in {0, 1} : linux_exit(c)
  PROVE  Inv'
  <1>1. UNCHANGED <<fds, kept>>
    BY DEF linux_fstat64, linux_mprotect, linux_getrandom, linux_set_tid_address, linux_uname,
           linux_sysinfo, linux_ids, linux_clock_gettime64, linux_set_robust_list, SyscallUnhandled,
           linux_read_write, linux_path_empty, linux_exit
  <1>2. AnswersHonest'
    <2>1. CASE linux_fstat64
      BY <2>1, HostCallAnswer DEF linux_fstat64
    <2>2. CASE linux_mprotect
      BY <2>2, HostCallAnswer DEF linux_mprotect
    <2>3. CASE linux_getrandom
      BY <2>3, HostCallAnswer DEF linux_getrandom
    <2>4. CASE linux_set_tid_address
      BY <2>4, BufAnswer DEF linux_set_tid_address
    <2>5. CASE linux_uname
      BY <2>5, RcZero, BufAnswer DEF linux_uname
    <2>6. CASE linux_sysinfo
      BY <2>6, RcZero, GoodAnswer DEF linux_sysinfo
    <2>7. CASE linux_ids
      BY <2>7, GoodAnswer DEF linux_ids
    <2>8. CASE linux_clock_gettime64
      BY <2>8, BufAnswer DEF linux_clock_gettime64
    <2>9. CASE linux_set_robust_list
      BY <2>9, BadAnswer DEF linux_set_robust_list
    <2>10. CASE SyscallUnhandled
      BY <2>10 DEF SyscallUnhandled, AnswersHonest
    <2>11. ASSUME NEW fd \in Fd, linux_read_write(fd) PROVE AnswersHonest'
      <3>1. (IF fds[fd] = Closed THEN {} ELSE {0, 1}) \in SUBSET Nat
        OBVIOUS
      <3> QED
        BY <2>11, <3>1, HostCallAnswer DEF linux_read_write
    <2>12. ASSUME NEW fd \in Fd, linux_path_empty(fd) PROVE AnswersHonest'
      <3>1. (IF fds[fd] = Closed THEN {} ELSE {0}) \in SUBSET Nat
        OBVIOUS
      <3> QED
        BY <2>12, <3>1, HostCallAnswer DEF linux_path_empty
    <2>13. CASE \E c \in {0, 1} : linux_exit(c)
      BY <2>13 DEF linux_exit, AnswersHonest
    <2> QED
      BY <2>1, <2>2, <2>3, <2>4, <2>5, <2>6, <2>7, <2>8, <2>9, <2>10, <2>11, <2>12, <2>13
  <1> QED
    BY <1>1, <1>2, ProcessFrame DEF Inv

-----------------------------------------------------------------------------
(* Theorems *)

\* The strengthened invariant holds of every guest: with the table's type and
\* what exe_fd stands for, answers are honest.
THEOREM SyscallsInvariant == Spec => []Inv
  <1>1. Init => Inv
    <2> SUFFICES ASSUME Init PROVE Inv
      OBVIOUS
    <2>1. fds \in [Fd -> Files]
      BY DEF Init, Files
    <2>2. ExeKept
      BY Specials DEF Init, ExeKept, exe_fd
    <2>3. AnswersHonest
      BY DEF Init, AnswersHonest, NoCall
    <2> QED
      BY <2>1, <2>2, <2>3 DEF Inv
  <1>2. ASSUME Inv, [Next]_vars
        PROVE  Inv'
    <2>1. CASE UNCHANGED vars
      BY <1>2, <2>1 DEF vars, Inv, ExeKept, AnswersHonest
    <2>2. ASSUME NEW path \in Paths, NEW dfd \in Fd \cup {AT_FDCWD},
                 linux_statx(dfd, path) \/ linux_readlinkat(dfd, path)
          PROVE  Inv'
      BY <1>2, <2>2, PathCallStep DEF linux_statx, linux_readlinkat
    <2> QED
      BY <1>2, <2>1, <2>2, OpenatStep, CloseStep, LlseekStep, PrlimitStep, SimpleStep DEF Next, Stopped
  <1> QED
    BY <1>1, <1>2, PTL DEF Spec

\* Of every call but llseek a negative answer is an error that this very call
\* met, and an error it met is never answered with success; llseek reports a
\* position an int holds as it is, and nothing when lseek failed.
THEOREM AnswersRight == Spec => []AnswersHonest
  <1>1. Inv => AnswersHonest
    BY DEF Inv
  <1> QED
    BY <1>1, SyscallsInvariant, PTL

-----------------------------------------------------------------------------
(* Paths *)

\* PathResolution hands an absolute path to the host only as the descriptor of
\* the executable, or as a canonical path below fsroot.
LEMMA AbsResolution ==
  ASSUME NEW path \in Paths, IsAbs(path), NEW dfd, NEW r \in PathResolution(dfd, path), r.k = "path"
  PROVE  r.p = ExePath \/ (r.p \in Exists /\ UnderRoot(r.p))
  <1> DEFINE rp == fsroot \o <<"/">> \o path
             real == RealPath(<<>>, Names(rp))
  <1>1. r = ResolveText(path, rp)
    BY DEF PathResolution, RpBufs
  <1> DEFINE R == Range(path)
             T == R \cup {"/", "cwd"}
             slash == "/"
             cwd == "cwd"
  <1>2. rp \in Seq(T)
    <2>1. path \in Seq(T)
      <3>1. path \in Seq(R)
        BY SyscallsAssumption
      <3>2. R \subseteq T
        OBVIOUS
      <3> HIDE DEF R, T
      <3> QED
        BY <3>1, <3>2
    <2>2. slash \in T /\ cwd \in T
      OBVIOUS
    <2>3. fsroot = <<cwd, slash>> /\ <<"/">> = <<slash>>
      BY DEF fsroot
    <2> HIDE DEF T, slash, cwd
    <2>4. fsroot \in Seq(T) /\ <<slash>> \in Seq(T)
      BY <2>2, <2>3
    <2> QED
      BY <2>1, <2>3, <2>4
  <1> HIDE DEF T, slash, cwd
  <1> HIDE DEF rp
  <1>3. real \in Canon
    BY <1>2, NamesLen, RealPathCanon
  <1> HIDE DEF real
  <1>4. CASE r = Path(ExePath)
    BY <1>4 DEF Path
  <1>5. CASE r = Resolved(path, real) /\ real # NoPath
    <2>1. UnderRoot(real) /\ r.p = real
      BY <1>5 DEF Resolved, Panics, Path
    <2>2. real # <<>>
      BY <2>1 DEF UnderRoot
    <2> QED
      BY <1>3, <1>5, <2>1, <2>2 DEF Canon
  <1>6. r.k # "path" \/ r = Path(ExePath) \/ (r = Resolved(path, real) /\ real # NoPath)
    BY <1>1 DEF ResolveText, Panics, Fails, real
  <1> QED
    BY <1>4, <1>5, <1>6

\* A canonical path is not the name of the descriptor.
LEMMA ExePathShort ==
  ASSUME NEW p, UnderRoot(p)
  PROVE  p # ExePath
  BY DEF UnderRoot, ExePath

\* The file an absolute path reaches.
LEMMA AbsReaches ==
  ASSUME Inv, NEW path \in Paths, IsAbs(path), NEW dfd, NEW r \in PathResolution(dfd, path), r.k = "path"
  PROVE  UnderRoot(HostFile(dfd, TRUE, r.p)) \/ exe_closed
  <1>1. CASE r.p = ExePath
    <2>1. HostFile(dfd, TRUE, r.p) = fds[exe_fd]
      BY <1>1 DEF HostFile
    <2>2. UnderRoot(Exe)
      BY DEF UnderRoot, Exe
    <2> QED
      BY <2>1, <2>2 DEF Inv, ExeKept
  <1>2. CASE r.p \in Exists /\ UnderRoot(r.p)
    <2>1. HostFile(dfd, TRUE, r.p) = RealPath(<<>>, r.p)
      BY <1>2, ExePathShort DEF HostFile, Base
    <2> QED
      BY <1>2, <2>1, RealPathFixed
  <1> QED
    BY <1>1, <1>2, AbsResolution

\* The other calls name no absolute path.
LEMMA OtherCalls ==
  ASSUME [Next]_vars
  PROVE  \/ ~call'.abs
         \/ UNCHANGED <<call, exe_closed>>
         \/ \E path \in Paths, dfd \in Fd \cup {AT_FDCWD}, link \in BOOLEAN : PathCall(dfd, path, link)
  <1>1. ~NoCall.abs /\ \A n, f : ~[NoCall EXCEPT !.name = n, !.failed = f].abs
    BY DEF NoCall
  <1>2. \A n, rc, f : Answer(n, rc, f) => ~call'.abs
    BY DEF Answer, NoCall
  <1>3. \A n, rc, w : AnswerBuf(n, rc, w) => ~call'.abs
    BY DEF AnswerBuf, NoCall
  <1>4. \A n, rcs, errs : HostCall(n, rcs, errs) => ~call'.abs
    BY <1>2 DEF HostCall
  <1>5. CASE \/ linux_openat \/ linux_fstat64 \/ linux_mprotect \/ linux_getrandom
             \/ linux_set_tid_address \/ linux_uname \/ linux_sysinfo \/ linux_ids
             \/ linux_clock_gettime64 \/ linux_set_robust_list
             \/ \E fd \in Fd : linux_close(fd) \/ linux_read_write(fd) \/ linux_path_empty(fd)
             \/ \E resource, n : linux_prlimit64(resource, n)
    BY <1>2, <1>3, <1>4, <1>5
    DEF linux_openat, linux_fstat64, linux_mprotect, linux_getrandom, linux_set_tid_address, linux_uname,
        linux_sysinfo, linux_ids, linux_clock_gettime64, linux_set_robust_list, linux_close,
        linux_read_write, linux_path_empty, linux_prlimit64
  <1>6. ASSUME NEW fd \in Fd, NEW off \in 0 .. MaxPos, linux_llseek(fd, off)
        PROVE  ~call'.abs
    BY <1>6 DEF linux_llseek, NoCall
  <1>7. ASSUME NEW c, linux_exit(c)
        PROVE  ~call'.abs
    BY <1>7 DEF linux_exit, NoCall
  <1>8. CASE SyscallUnhandled \/ Stopped \/ UNCHANGED vars
    BY <1>8 DEF SyscallUnhandled, Stopped, vars, kept
  <1>9. ASSUME NEW path \in Paths, NEW dfd \in Fd \cup {AT_FDCWD},
               linux_statx(dfd, path) \/ linux_readlinkat(dfd, path)
        PROVE  \E link \in BOOLEAN : PathCall(dfd, path, link)
    BY <1>9 DEF linux_statx, linux_readlinkat
  <1> QED
    BY <1>5, <1>6, <1>7, <1>8, <1>9 DEF Next

LEMMA PathsStep ==
  ASSUME Inv, PathsInRoot, [Next]_vars
  PROVE  PathsInRoot'
  <1>1. ASSUME NEW path \in Paths, NEW dfd, NEW link, PathCall(dfd, path, link)
        PROVE  PathsInRoot'
    <2>1. PICK r \in PathResolution(dfd, path) :
            \/ UNCHANGED call
            \/ \E rc, f : Answer("path", rc, f)
            \/ /\ r.k = "path"
               /\ call' = [NoCall EXCEPT !.name = "path", !.abs = IsAbs(path),
                             !.reached = HostFile(dfd, IsAbs(path), r.p)]
      BY <1>1 DEF PathCall
    <2>2. UNCHANGED exe_closed
      BY <1>1 DEF PathCall, kept
    <2>3. CASE UNCHANGED call
      BY <2>2, <2>3 DEF PathsInRoot
    <2>4. CASE \E rc, f : Answer("path", rc, f)
      <3>1. ~call'.abs
        BY <2>4 DEF Answer, NoCall
      <3> QED
        BY <3>1 DEF PathsInRoot
    <2>5. CASE /\ r.k = "path"
               /\ call' = [NoCall EXCEPT !.name = "path", !.abs = IsAbs(path),
                             !.reached = HostFile(dfd, IsAbs(path), r.p)]
      <3>1. CASE ~IsAbs(path)
        <4>1. ~call'.abs
          BY <2>5, <3>1 DEF NoCall
        <4> QED
          BY <4>1 DEF PathsInRoot
      <3>2. CASE IsAbs(path)
        <4>1. IsAbs(path) = TRUE
          BY <3>2 DEF IsAbs
        <4>2. call'.reached = HostFile(dfd, TRUE, r.p)
          BY <2>5, <4>1 DEF NoCall
        <4>3. UnderRoot(call'.reached) \/ exe_closed
          BY <2>5, <3>2, <4>2, AbsReaches
        <4> QED
          BY <2>2, <4>3 DEF PathsInRoot
      <3> QED
        BY <3>1, <3>2
    <2> QED
      BY <2>1, <2>3, <2>4, <2>5
  <1>2. CASE ~call'.abs
    BY <1>2 DEF PathsInRoot
  <1>3. CASE UNCHANGED <<call, exe_closed>>
    BY <1>3 DEF PathsInRoot
  <1> QED
    BY <1>1, <1>2, <1>3, OtherCalls

\* An absolute path, or /proc/self/exe, that PathResolution accepts for statx or
\* readlinkat reaches nothing outside the directory of the executable, for every
\* file tree, whatever links and ".." the path has, as long as the guest has not
\* closed the descriptor of the executable.
THEOREM PathsStayInRoot == Spec => []PathsInRoot
  <1>1. Init => PathsInRoot
    BY DEF Init, NoCall, PathsInRoot
  <1> QED
    BY <1>1, PathsStep, SyscallsInvariant, PTL DEF Spec
=============================================================================
