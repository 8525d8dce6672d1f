-------------------------- MODULE SplitterProofs --------------------------
(***************************************************************************)
(* Proofs about Splitter: the counters of the PATs it writes have no gap    *)
(* (PatContinuous), while it splits it passes the chosen services and       *)
(* nothing else and its PAT says so (NothingForeign), and of the services   *)
(* whose PMT it has read no stream is missing (NoneMissing).                *)
(*                                                                         *)
(* The splitter works in loops over the packets of a block and over the     *)
(* cells of a packet.  The first part of the module has what such loops     *)
(* keep; the next parts have the cells of a section, the analysis of a PMT, *)
(* the selection, the rescan and the counters; then comes the invariant.    *)
(* The parts after the first theorem are for the other two.                 *)
(*                                                                         *)
(* The argument: pmt_counter counts the chosen PMTs that were read, so a    *)
(* selection that is complete has read every one of them, and each is       *)
(* marked 2.  A rescan starts from these marks and lowers every mark by one *)
(* at its end: the PMTs' own PIDs stay marked, and the rest of what is      *)
(* marked was listed by a version seen since the rescan began.              *)
(*                                                                         *)
(* That no CRC or stuffing is taken for a stream, and that nothing is       *)
(* missing, needs more: a packet that goes on with a section must be the    *)
(* next of the same section, and AnalyzePmt has only the continuity counter *)
(* to tell.  The invariant (Known) has a numbering of the packets by their  *)
(* counters and says that the section being read has its first parts among  *)
(* the marks, up to the last counter read.                                  *)
(***************************************************************************)
EXTENDS Splitter, SequenceTheorems, FiniteSetTheorems, WellFoundedInduction, TLAPS

-----------------------------------------------------------------------------
(* Induction and recursive functions.  The induction theorems of the library  *)
(* take a predicate; these take a set.                                        *)

\* A set of natural numbers has a least element.
LEMMA Least ==
  ASSUME NEW T \in SUBSET Nat, T # {}
  PROVE  \E x \in T : \A y \in T : x <= y
<1> DEFINE R == OpToRel(<, Nat)
<1>1. IsWellFoundedOn(R, Nat)
  BY NatLessThanWellFounded
<1>2. \A x, y \in Nat : <<y, x>> \in R <=> y < x
  BY DEF OpToRel
<1> HIDE DEF R
<1>3. PICK x \in T : \A y \in T : ~(<<y, x>> \in R)
  BY <1>1, WFMin
<1>4. \A y \in T : x \in Nat /\ y \in Nat /\ ~(y < x)
  BY <1>2, <1>3
<1> QED
  BY <1>4

\* What holds of the first number and goes from each to the next holds of all up to n.
LEMMA Induct ==
  ASSUME NEW m \in Nat, NEW n \in Nat, NEW T, m \in T,
         \A i \in m + 1 .. n : i - 1 \in T => i \in T
  PROVE  \A i \in m .. n : i \in T
<1> SUFFICES ASSUME NEW k \in m .. n, k \notin T PROVE FALSE
  OBVIOUS
<1> DEFINE U == {i \in m .. n : i \notin T}
<1>1. U \in SUBSET Nat /\ U # {}
  OBVIOUS
<1>2. PICK x \in U : \A y \in U : x <= y
  BY <1>1, Least
<1>3. x \in m .. n /\ x \notin T /\ x # m
  BY <1>2
<1>4. x - 1 \in m .. n /\ x \in m + 1 .. n
  BY <1>3
<1>5. x - 1 \notin U
  BY <1>2, <1>4
<1> QED
  BY <1>3, <1>4, <1>5

\* A function whose values follow from the one before exists, and its values stay in what
\* each step keeps: D[i] has the values after step i, G[i] is step i.
Follows(f, m, n, base, G) ==
  /\ f = [i \in m .. n |-> f[i]] /\ f[m] = base
  /\ \A i \in m .. n : i # m => f[i] = G[i][f[i-1]]
Within(f, m, n, D) == \A i \in m .. n : f[i] \in D[i]

\* Such a function exists.
LEMMA Steps ==
  ASSUME NEW m \in Nat, NEW n \in Nat, m <= n, NEW D, NEW G, NEW base, base \in D[m],
         \A i \in m .. n : i # m => \A x \in D[i-1] : G[i][x] \in D[i]
  PROVE  \E f : Follows(f, m, n, base, G) /\ Within(f, m, n, D)
<1> DEFINE Is(f, k) == Follows(f, m, k, base, G) /\ Within(f, m, k, D)
           T == {k \in m .. n : \E f : Is(f, k)}
<1>1. m \in T
  <2> DEFINE f == [i \in m .. m |-> base]
  <2>1. f[m] = base /\ \A i \in m .. m : i = m
    OBVIOUS
  <2>2. Is(f, m)
    BY <2>1 DEF Follows, Within
  <2>3. m \in m .. n
    OBVIOUS
  <2> HIDE DEF Is, f
  <2> QED  BY <2>2, <2>3
<1>2. ASSUME NEW k \in m + 1 .. n, k - 1 \in T PROVE k \in T
  <2>1. PICK g : Is(g, k - 1)
    BY <1>2
  <2> DEFINE f == [i \in m .. k |-> IF i = k THEN G[k][g[k-1]] ELSE g[i]]
  <2>2. k - 1 \in m .. k - 1 /\ k \in m .. n /\ k # m /\ k \in Int /\ k \in m .. k
    OBVIOUS
  <2>3. \A i \in m .. k : i # k => i \in m .. k - 1 /\ f[i] = g[i]
    OBVIOUS
  <2>4. \A i \in m .. k - 1 : f[i] = g[i] /\ i \in m .. k
    OBVIOUS
  <2>5. f[k] = G[k][f[k-1]] /\ f[k] \in D[k]
    BY <2>1, <2>2, <2>4 DEF Within
  <2>6. \A i \in m .. k : i # m => i - 1 \in m .. k - 1
    OBVIOUS
  <2>7. g[m] = base /\ \A i \in m .. k - 1 : i # m => g[i] = G[i][g[i-1]]
    BY <2>1 DEF Follows
  <2>8. f[m] = base /\ \A i \in m .. k : i # m => f[i] = G[i][f[i-1]]
    <3>1. m \in m .. k - 1
      OBVIOUS
    <3> HIDE DEF f
    <3> QED  BY <2>2, <2>3, <2>4, <2>5, <2>6, <2>7, <3>1
  <2>9. f = [i \in m .. k |-> f[i]]
    OBVIOUS
  <2>10. \A i \in m .. k : f[i] \in D[i]
    <3> HIDE DEF f
    <3> QED  BY <2>1, <2>3, <2>5 DEF Within
  <2>11. Is(f, k)
    <3> HIDE DEF f
    <3> QED  BY <2>8, <2>9, <2>10 DEF Follows, Within
  <2> HIDE DEF Is, f
  <2> QED  BY <2>2, <2>11
<1> HIDE DEF T
<1>3. \A k \in m .. n : k \in T
  BY <1>1, <1>2, Induct
<1>4. n \in m .. n
  OBVIOUS
<1> QED  BY <1>3, <1>4 DEF T

-----------------------------------------------------------------------------
(* The three loops of the splitter over a block, and FlattenSeq: what each turn  *)
(* keeps, the loop keeps.                                                     *)

\* What every packet that split_ts filters takes from one set to the next holds of its result.
LEMMA SplitTsAt ==
  ASSUME NEW s, NEW P, NEW blk \in Seq(P), NEW D, [sp |-> s, out |-> <<>>] \in D[0],
         \A i \in 1 .. Len(blk) : \A st \in D[i-1] : Filter(st, blk[i]) \in D[i]
  PROVE  split_ts(s, blk) \in D[Len(blk)]
<1> DEFINE n == Len(blk)
           base == [sp |-> s, out |-> <<>>]
           G == [i \in 1 .. n |-> [st \in D[i-1] |-> Filter(st, blk[i])]]
           Eq(f) == f = [i \in 0 .. n |-> IF i = 0 THEN base ELSE Filter(f[i-1], blk[i])]
<1>1. n \in Nat /\ 0 \in Nat /\ 0 <= n /\ 0 \in 0 .. n /\ n \in 0 .. n /\ base \in D[0]
  OBVIOUS
<1>3. \A i \in 0 .. n : i # 0 => i \in 1 .. n /\ i - 1 \in 0 .. n
  OBVIOUS
<1>4. \A i \in 0 .. n : i # 0 => \A x \in D[i-1] : G[i][x] \in D[i]
  BY <1>3
<1>5. \E f : Follows(f, 0, n, base, G) /\ Within(f, 0, n, D)
  <2> HIDE DEF n, G, base
  <2> QED  BY ONLY <1>1, <1>4, Steps
<1>6. \E f : Eq(f)
  <2>1. PICK f : Follows(f, 0, n, base, G) /\ Within(f, 0, n, D)
    BY <1>5
  <2>2. \A i \in 0 .. n : f[i] \in D[i]
    BY <2>1 DEF Within
  <2>3. \A i \in 0 .. n : i # 0 => f[i] = Filter(f[i-1], blk[i])
    BY <1>3, <2>1, <2>2 DEF Follows
  <2>4. Eq(f)
    BY <2>1, <2>3 DEF Follows
  <2> HIDE DEF Eq
  <2> QED  BY <2>4
<1> DEFINE f == CHOOSE f : Eq(f)
           T == {i \in 0 .. n : f[i] \in D[i]}
<1>7. Eq(f)
  <2> HIDE DEF Eq
  <2> QED  BY <1>6
<1> HIDE DEF f
<1>8. \A i \in 0 .. n : f[i] = IF i = 0 THEN base ELSE Filter(f[i-1], blk[i])
  BY <1>7
<1>9. 0 \in T
  BY <1>1, <1>8
<1>10. \A i \in 0 + 1 .. n : i - 1 \in T => i \in T
  <2>1. \A i \in 0 + 1 .. n : i \in 0 .. n /\ i # 0 /\ i \in 1 .. n
    OBVIOUS
  <2> QED  BY <1>8, <2>1
<1> HIDE DEF T
<1>11. n \in T
  BY <1>1, <1>9, <1>10, Induct
<1>12. f[n] \in D[n]
  BY <1>11 DEF T
<1> QED  BY <1>12 DEF split_ts, f

\* What every packet that split_ts filters keeps holds of its result.
LEMMA SplitTs ==
  ASSUME NEW s, NEW P, NEW blk \in Seq(P), NEW D, [sp |-> s, out |-> <<>>] \in D,
         \A st \in D : \A pk \in P : Filter(st, pk) \in D
  PROVE  split_ts(s, blk) \in D
<1> DEFINE n == Len(blk)
           DD == [i \in 0 .. n |-> D]
<1>1. n \in Nat /\ 0 \in 0 .. n /\ n \in 0 .. n
  OBVIOUS
<1>2. [sp |-> s, out |-> <<>>] \in DD[0] /\ DD[n] = D
  BY <1>1
<1>3. \A i \in 1 .. n : \A st \in DD[i-1] : Filter(st, blk[i]) \in DD[i]
  <2>1. \A i \in 1 .. n : blk[i] \in P /\ i - 1 \in 0 .. n /\ i \in 0 .. n
    OBVIOUS
  <2> QED  BY <2>1
<1> HIDE DEF DD
<1>4. split_ts(s, blk) \in DD[n]
  BY <1>2, <1>3, SplitTsAt
<1> QED  BY <1>2, <1>4

\* What every packet that split_select examines takes from one set to the next holds of its
\* result; a packet after the one that completes the selection must do so too.
LEMMA SplitSelectAt ==
  ASSUME NEW s, NEW P, NEW blk \in Seq(P), blk # <<>>, NEW stack,
         NEW D, [sp |-> s, blk |-> blk] \in D[1],
         \A i \in 1 .. Len(blk) : i # 1 => \A st \in D[i-1] :
           (IF Complete(st.sp) THEN st ELSE Examine(st, i - 1, stack)) \in D[i]
  PROVE  ReadTs(s, blk, stack) \in D[Len(blk)]
<1> DEFINE n == Len(blk)
           base == [sp |-> s, blk |-> blk]
           Turn(st, i) == IF Complete(st.sp) THEN st ELSE Examine(st, i - 1, stack)
           G == [i \in 1 .. n |-> [st \in D[i-1] |-> Turn(st, i)]]
           Eq(f) == f = [i \in 1 .. n |->
                           IF i = 1 THEN base
                           ELSE IF Complete(f[i-1].sp) THEN f[i-1] ELSE Examine(f[i-1], i - 1, stack)]
<1>1. n \in Nat /\ 1 \in Nat /\ 1 <= n /\ 1 \in 1 .. n /\ n \in 1 .. n /\ base \in D[1]
  OBVIOUS
<1>2. \A i \in 1 .. n : i # 1 => \A st \in D[i-1] : Turn(st, i) \in D[i]
  OBVIOUS
<1>3. \A i \in 1 .. n : i # 1 => i - 1 \in 1 .. n
  BY <1>1
<1>4. \A i \in 1 .. n : i # 1 => \A x \in D[i-1] : G[i][x] \in D[i]
  <2> HIDE DEF Turn, n
  <2> QED  BY <1>2, <1>3
<1>5. \E f : Follows(f, 1, n, base, G) /\ Within(f, 1, n, D)
  <2> HIDE DEF n, G, base
  <2> QED  BY ONLY <1>1, <1>4, Steps
<1>6. \E f : Eq(f)
  <2>1. PICK f : Follows(f, 1, n, base, G) /\ Within(f, 1, n, D)
    BY <1>5
  <2>2. \A i \in 1 .. n : f[i] \in D[i]
    BY <2>1 DEF Within
  <2>3. \A i \in 1 .. n : i # 1 => f[i] = Turn(f[i-1], i)
    <3> HIDE DEF Turn, n
    <3> QED  BY <1>3, <2>1, <2>2 DEF Follows
  <2>4. Eq(f)
    <3> HIDE DEF base, n
    <3> QED  BY <2>1, <2>3 DEF Follows
  <2> HIDE DEF Eq
  <2> QED  BY <2>4
<1> DEFINE f == CHOOSE f : Eq(f)
           T == {i \in 1 .. n : f[i] \in D[i]}
<1>7. Eq(f)
  <2> HIDE DEF Eq
  <2> QED  BY <1>6
<1> HIDE DEF f
<1>8. \A i \in 1 .. n : f[i] = IF i = 1 THEN base ELSE Turn(f[i-1], i)
  <2> HIDE DEF base, n
  <2> QED  BY <1>7
<1>9. 1 \in T
  BY <1>1, <1>8
<1>10. \A i \in 1 + 1 .. n : i - 1 \in T => i \in T
  <2>1. \A i \in 1 + 1 .. n : i \in 1 .. n /\ i # 1
    OBVIOUS
  <2> HIDE DEF Turn, n
  <2> QED  BY <1>2, <1>8, <2>1
<1> HIDE DEF T
<1>11. n \in T
  BY <1>1, <1>9, <1>10, Induct
<1>12. f[n] \in D[n]
  BY <1>11 DEF T
<1> QED  BY <1>12 DEF ReadTs, f

\* What every packet that split_select examines keeps holds of its result.
LEMMA SplitSelect ==
  ASSUME NEW s, NEW P, NEW blk \in Seq(P), blk # <<>>, NEW stack,
         NEW D, [sp |-> s, blk |-> blk] \in D,
         \A st \in D : \A i \in 1 .. Len(blk) - 1 :
           ~Complete(st.sp) => Examine(st, i, stack) \in D
  PROVE  ReadTs(s, blk, stack) \in D
<1> DEFINE n == Len(blk)
           DD == [i \in 1 .. n |-> D]
<1>1. n \in Nat /\ 1 \in 1 .. n /\ n \in 1 .. n
  OBVIOUS
<1>2. [sp |-> s, blk |-> blk] \in DD[1] /\ DD[n] = D
  BY <1>1
<1>3. \A i \in 1 .. n : i # 1 => \A st \in DD[i-1] :
        (IF Complete(st.sp) THEN st ELSE Examine(st, i - 1, stack)) \in DD[i]
  <2>1. \A i \in 1 .. n : i # 1 => i - 1 \in 1 .. n /\ i - 1 \in 1 .. Len(blk) - 1
    BY <1>1
  <2> QED  BY <2>1
<1> HIDE DEF DD
<1>4. ReadTs(s, blk, stack) \in DD[n]
  BY <1>2, <1>3, SplitSelectAt
<1> QED  BY <1>2, <1>4

\* What a concatenation keeps, sequence by sequence, holds of the flattened sequence.
LEMMA Flatten ==
  ASSUME NEW S, NEW ss \in Seq(Seq(S)), ss # <<>>, NEW D, ss[1] \in D[1],
         \A i \in 2 .. Len(ss) : \A x \in D[i-1] : x \o ss[i] \in D[i]
  PROVE  FlattenSeq(ss) \in D[Len(ss)]
<1> DEFINE n == Len(ss)
           G == [i \in 1 .. n |-> [x \in D[i-1] |-> x \o ss[i]]]
           Eq(f) == f = [i \in 1 .. n |-> IF i = 1 THEN ss[i] ELSE f[i-1] \o ss[i]]
<1>1. n \in Nat /\ 1 \in Nat /\ 1 <= n /\ 1 \in 1 .. n /\ n \in 1 .. n
  OBVIOUS
<1>2. \A i \in 1 .. n : i # 1 => i \in 2 .. n /\ i - 1 \in 1 .. n
  BY <1>1
<1>3. \A i \in 1 .. n : i # 1 => \A x \in D[i-1] : x \o ss[i] \in D[i]
  BY <1>2
<1>4. \A i \in 1 .. n : i # 1 => \A x \in D[i-1] : G[i][x] \in D[i]
  <2> HIDE DEF n
  <2> QED  BY <1>3
<1>5. \E f : Follows(f, 1, n, ss[1], G) /\ Within(f, 1, n, D)
  <2> HIDE DEF n, G
  <2> QED  BY ONLY <1>1, <1>4, Steps, ss[1] \in D[1]
<1>6. \E f : Eq(f)
  <2>1. PICK f : Follows(f, 1, n, ss[1], G) /\ Within(f, 1, n, D)
    BY <1>5
  <2>2. \A i \in 1 .. n : i # 1 => f[i] = f[i-1] \o ss[i]
    <3> HIDE DEF n
    <3> QED  BY <1>2, <2>1 DEF Follows, Within
  <2>3. Eq(f)
    <3> HIDE DEF n
    <3> QED  BY <2>1, <2>2 DEF Follows
  <2> HIDE DEF Eq
  <2> QED  BY <2>3
<1> DEFINE f == CHOOSE f : Eq(f)
           T == {i \in 1 .. n : f[i] \in D[i]}
<1>7. Eq(f)
  <2> HIDE DEF Eq
  <2> QED  BY <1>6
<1> HIDE DEF f
<1>8. \A i \in 1 .. n : f[i] = IF i = 1 THEN ss[1] ELSE f[i-1] \o ss[i]
  <2> HIDE DEF n
  <2> QED  BY <1>7
<1>9. 1 \in T
  BY <1>1, <1>8
<1>10. \A i \in 1 + 1 .. n : i - 1 \in T => i \in T
  <2>1. \A i \in 1 + 1 .. n : i \in 1 .. n /\ i # 1
    BY <1>1
  <2> HIDE DEF n
  <2> QED  BY <1>3, <1>8, <2>1
<1> HIDE DEF T
<1>11. n \in T
  BY <1>1, <1>9, <1>10, Induct
<1>12. f[n] \in D[n]
  BY <1>11 DEF T
<1> QED  BY <1>12, <1>1 DEF FlattenSeq, f

\* The loop over the entries of a packet.  When it starts at a header, and each entry
\* leads to a header or out of the packet, it finds what headers say.
Words == STRING \cup {"other", "descriptor", "crc", "stuffing", NullPid}
Cells == [type : Words, pid : Words, len : Nat \ {0}]

\* The loop as a function from the cells it stands at.
LEMMA EsLoops ==
  ASSUME NEW cells \in Seq(Cells)
  PROVE  \E f : /\ EsLoop(cells) = f[1]
                /\ \A k \in Nat \ {0} : f[k] =
                     IF k >= Len(cells) THEN {}
                     ELSE (IF cells[k].type = "data" THEN {} ELSE {cells[k].pid})
                          \cup f[k + cells[k].len]
<1> DEFINE L == Len(cells)
           Pos == Nat \ {0}
           Found(k) == IF cells[k].type = "data" THEN {} ELSE {cells[k].pid}
           Body(F, k) == IF k >= L THEN {} ELSE Found(k) \cup F[k + cells[k].len]
           Eq(F) == F = [k \in Pos |-> Body(F, k)]
           Fs == [Pos -> SUBSET Words]
           D == [i \in 0 .. L |-> {F \in Fs : \A k \in Pos : k > L - i => F[k] = Body(F, k)}]
           G == [i \in 1 .. L |-> [F \in Fs |-> [k \in Pos |->
                  IF k = L + 1 - i THEN Body(F, k) ELSE F[k]]]]
           base == [k \in Pos |-> {}]
<1>1. L \in Nat /\ 0 \in Nat /\ 0 <= L /\ 0 \in 0 .. L /\ L \in 0 .. L
  OBVIOUS
<1>2. \A k \in Pos : k <= L => /\ k \in 1 .. L /\ cells[k] \in Cells
                               /\ cells[k].len \in Pos /\ cells[k].pid \in Words
                               /\ k + cells[k].len \in Pos /\ k + cells[k].len > k
  <2> SUFFICES ASSUME NEW k \in Pos, k <= L
               PROVE  /\ k \in 1 .. L /\ cells[k] \in Cells
                      /\ cells[k].len \in Pos /\ cells[k].pid \in Words
                      /\ k + cells[k].len \in Pos /\ k + cells[k].len > k
    OBVIOUS
  <2>1. k \in 1 .. L
    BY <1>1
  <2>2. cells[k] \in Cells
    BY <2>1
  <2>3. cells[k].len \in Pos /\ cells[k].pid \in Words
    BY <2>2 DEF Cells
  <2> QED  BY <2>1, <2>2, <2>3
<1>3. base \in D[0]
  <2>1. base \in Fs /\ \A k \in Pos : k > L - 0 => base[k] = Body(base, k)
    BY <1>1
  <2> HIDE DEF base, Body
  <2> QED  BY <1>1, <2>1
<1>4. \A F \in Fs : \A k \in Pos : Body(F, k) \in SUBSET Words
  <2> SUFFICES ASSUME NEW F \in Fs, NEW k \in Pos, k <= L
               PROVE  Found(k) \cup F[k + cells[k].len] \in SUBSET Words
    <3> HIDE DEF Found, L, Pos
    <3> QED  BY <1>1
  <2>1. cells[k].pid \in Words /\ k + cells[k].len \in Pos
    <3> HIDE DEF L, Pos
    <3> QED  BY <1>2
  <2>2. F[k + cells[k].len] \in SUBSET Words
    <3> HIDE DEF L, Pos
    <3> QED  BY <2>1
  <2> QED  BY <2>1, <2>2
<1>5. \A i \in 0 .. L : i # 0 => \A F \in D[i-1] : G[i][F] \in D[i]
  <2> SUFFICES ASSUME NEW i \in 0 .. L, i # 0, NEW F \in D[i-1] PROVE G[i][F] \in D[i]
    OBVIOUS
  <2>1. i \in 1 .. L /\ i - 1 \in 0 .. L
    BY <1>1
  <2>2. F \in Fs /\ \A k \in Pos : k > L - (i - 1) => F[k] = Body(F, k)
    <3> HIDE DEF Fs, Pos, Body, L
    <3> QED  BY <2>1
  <2> DEFINE E == [k \in Pos |-> IF k = L + 1 - i THEN Body(F, k) ELSE F[k]]
  <2>3. G[i][F] = E
    <3> HIDE DEF Fs, Pos, Body, L
    <3> QED  BY <2>1, <2>2
  <2>4. E \in Fs
    <3> HIDE DEF Body, L
    <3> QED  BY <1>4, <2>2
  <2>5. ASSUME NEW k \in Pos, k > L - i PROVE E[k] = Body(E, k)
    <3>1. E[k] = Body(F, k)
      <4>1. CASE k = L + 1 - i
        BY <4>1
      <4>2. CASE k # L + 1 - i
        <5>1. k > L - (i - 1)
          BY <2>1, <2>5, <4>2, <1>1
        <5> HIDE DEF Body, L, Pos
        <5> QED  BY <2>2, <4>2, <5>1
      <4> QED  BY <4>1, <4>2
    <3>2. CASE k > L
      <4>1. k >= L
        BY <1>1, <3>2
      <4> HIDE DEF E, L
      <4> QED  BY <3>1, <4>1
    <3>3. CASE k <= L
      <4>1. k + cells[k].len \in Pos /\ k + cells[k].len > k /\ k + cells[k].len # L + 1 - i
        BY <1>1, <1>2, <2>1, <2>5, <3>3
      <4>2. E[k + cells[k].len] = F[k + cells[k].len]
        <5> HIDE DEF Body, L, Pos
        <5> QED  BY <4>1
      <4> HIDE DEF E, L, Found
      <4> QED  BY <3>1, <4>2
    <3> QED  BY <1>1, <3>2, <3>3
  <2> HIDE DEF E, Body, Fs, Pos, L
  <2> QED  BY <2>1, <2>3, <2>4, <2>5
<1>6. \E F : Follows(F, 0, L, base, G) /\ Within(F, 0, L, D)
  <2> HIDE DEF L, G, D, base
  <2> QED  BY ONLY <1>1, <1>3, <1>5, Steps
<1>7. \E F : Eq(F)
  <2>1. PICK R : Within(R, 0, L, D)
    BY <1>6
  <2> DEFINE F == R[L]
  <2>2. F \in D[L]
    BY <1>1, <2>1 DEF Within
  <2> HIDE DEF F
  <2>3. F \in Fs /\ \A k \in Pos : k > L - L => F[k] = Body(F, k)
    <3> HIDE DEF Fs, Pos, Body, L
    <3> QED  BY <1>1, <2>2
  <2>4. \A k \in Pos : k > L - L
    BY <1>1
  <2>5. Eq(F)
    <3> HIDE DEF Body, L, Pos
    <3> QED  BY <2>3, <2>4
  <2> HIDE DEF Eq
  <2> QED  BY <2>5
<1> DEFINE from == CHOOSE F : Eq(F)
<1>8. Eq(from)
  <2> HIDE DEF Eq
  <2> QED  BY <1>7
<1> HIDE DEF from
<1>9. \A k \in Pos : from[k] = Body(from, k)
  <2> HIDE DEF Body, Pos
  <2> QED  BY <1>8
<1>10. EsLoop(cells) = from[1]
  BY DEF EsLoop, from
<1> QED  BY <1>9, <1>10

\* H are the cells where the loop may stand: a header, or the end.  Then it finds PIDs of X.
\* The last cell it does not look at.
LEMMA EsLoopIn ==
  ASSUME NEW cells \in Seq(Cells), NEW H, NEW X, Len(cells) >= 1 => 1 \in H,
         \A k \in 1 .. Len(cells) : k \in H /\ k # Len(cells) =>
           /\ cells[k].type = "data" \/ cells[k].pid \in X
           /\ k + cells[k].len \in H \/ k + cells[k].len > Len(cells)
  PROVE  EsLoop(cells) \subseteq X
<1> DEFINE L == Len(cells)
           Pos == Nat \ {0}
           Found(k) == IF cells[k].type = "data" THEN {} ELSE {cells[k].pid}
<1>1. L \in Nat /\ 0 \in Nat /\ 0 <= L /\ 0 \in 0 .. L /\ L \in 0 .. L
  OBVIOUS
<1>2. \A k \in Pos : k <= L => k + cells[k].len \in Pos /\ k + cells[k].len > k
  <2> SUFFICES ASSUME NEW k \in Pos, k <= L
               PROVE  k + cells[k].len \in Pos /\ k + cells[k].len > k
    OBVIOUS
  <2>1. k \in 1 .. L /\ cells[k] \in Cells
    BY <1>1
  <2>2. cells[k].len \in Pos
    BY <2>1 DEF Cells
  <2> QED  BY <2>1, <2>2
<1>3. PICK from : /\ EsLoop(cells) = from[1]
                  /\ \A k \in Pos : from[k] =
                       IF k >= L THEN {} ELSE Found(k) \cup from[k + cells[k].len]
  BY EsLoops
<1> DEFINE Ok(k) == k > L \/ k \in H => from[k] \subseteq X
           T == {i \in 0 .. L : \A k \in Pos : k > L - i => Ok(k)}
<1>10. 0 \in T
  <2>1. \A k \in Pos : k > L - 0 => from[k] = {}
    <3>1. \A k \in Pos : k > L - 0 => k >= L
      BY <1>1
    <3> HIDE DEF L, Pos, Found
    <3> QED  BY <1>3, <3>1
  <2> QED  BY <1>1, <2>1
<1>11. \A i \in 0 + 1 .. L : i - 1 \in T => i \in T
  <2> SUFFICES ASSUME NEW i \in 0 + 1 .. L, i - 1 \in T, NEW k \in Pos, k > L - i PROVE Ok(k)
    BY <1>1
  <2>1. \A j \in Pos : j > L - (i - 1) => Ok(j)
    <3> HIDE DEF Ok
    <3> QED  OBVIOUS
  <2>2. CASE k > L - (i - 1)
    <3> HIDE DEF Ok, Pos
    <3> QED  BY <2>1, <2>2
  <2>3. CASE ~(k > L - (i - 1))
    <3>0. CASE k = L
      <4>1. from[k] = {}
        <5>1. k >= L
          BY <1>1, <3>0
        <5> HIDE DEF Found, L, Pos
        <5> QED  BY <1>3, <5>1
      <4> QED  BY <4>1
    <3> SUFFICES ASSUME k # L PROVE Ok(k)
      BY <3>0
    <3>1. k <= L /\ i \in 1 .. L
      BY <1>1, <2>3
    <3>2. k + cells[k].len \in Pos /\ k + cells[k].len > L - (i - 1)
      BY <1>1, <1>2, <3>1
    <3>3. from[k] = Found(k) \cup from[k + cells[k].len]
      <4>1. ~(k >= L)
        BY <1>1, <3>1
      <4> HIDE DEF Found, L, Pos
      <4> QED  BY <1>3, <4>1
    <3>4. k \in 1 .. Len(cells)
      BY <3>1, <1>1
    <3> SUFFICES ASSUME k \in H PROVE from[k] \subseteq X
      BY <3>1, <1>1
    <3>5. Found(k) \subseteq X
      BY <3>4
    <3>6. from[k + cells[k].len] \subseteq X
      <4>1. k + cells[k].len \in H \/ k + cells[k].len > L
        BY <3>4
      <4> HIDE DEF Pos
      <4> QED  BY <2>1, <3>2, <4>1
    <3> QED  BY <3>3, <3>5, <3>6
  <2> HIDE DEF Ok
  <2> QED  BY <2>2, <2>3
<1> HIDE DEF T
<1>12. L \in T
  BY <1>1, <1>10, <1>11, Induct
<1>13. from[1] \subseteq X
  <2>1. 1 \in Pos /\ 1 > L - L /\ (1 > L \/ 1 \in H)
    BY <1>1
  <2> HIDE DEF Pos
  <2> QED  BY <1>12, <2>1 DEF T
<1> QED  BY <1>3, <1>13

-----------------------------------------------------------------------------
(* Sections.  X are the PIDs of the streams to pass, Y all that the section has.  *)

Header(c, k) == c[k].type # "other"
Formed(c, X, Y) ==
  /\ c \in Seq(Cells) /\ c # <<>> /\ Header(c, 1)
  /\ \A k \in 1 .. Len(c) : c[k].pid \in Y /\ c[k].type # "stuffing" /\ c[k].type # "crc"
  /\ \A k \in 1 .. Len(c) : Header(c, k) =>
       /\ c[k].type = "data" \/ c[k].pid \in X
       /\ c[k].len >= 2
       /\ \/ k + c[k].len = Len(c) + 1
          \/ k + c[k].len <= Len(c) /\ Header(c, k + c[k].len)

\* A whole section: the headers of its list lead to the CRC, its last cell.
Laid(c, X, Y) ==
  /\ c \in Seq(Cells) /\ Len(c) > 1 /\ Header(c, 1) /\ c[Len(c)].type = "crc"
  /\ \A k \in 1 .. Len(c) : c[k].pid \in Y /\ c[k].type # "stuffing"
  /\ \A k \in 1 .. Len(c) : Header(c, k) /\ k # Len(c) =>
       /\ c[k].type = "data" \/ c[k].pid \in X
       /\ c[k].len >= 2
       /\ k + c[k].len <= Len(c) /\ Header(c, k + c[k].len)

\* The PIDs that a section lists, and what a reader among descriptors, at the CRC or in the
\* stuffing takes for one
Listed(p, v) ==
  {"descriptor", "crc", NullPid} \cup {e.pid : e \in ToSet(Pmt[p][v].es)}

\* The cells of one entry are a header and what it skips.
LEMMA EntryFormed ==
  ASSUME NEW e \in Entries, NEW X, NEW Y, e.type = "data" \/ e.pid \in X,
         e.pid \in Y, "descriptor" \in Y
  PROVE  Formed(EntryCells(e), X, Y)
<1> DEFINE c == EntryCells(e)
           d == [type |-> "other", pid |-> "descriptor", len |-> 2]
<1>1. /\ e.type \in STRING \ {"other", "crc", "stuffing"} /\ e.pid \in STRING
      /\ e.len \in Nat \ {0, 1} /\ e \in Cells /\ d \in Cells
  <2>1. e.type \in STRING \ {"other", "crc", "stuffing"} /\ e.pid \in STRING
        /\ e.len \in Nat \ {0, 1}
    BY DEF Entries
  <2>2. e \in Cells
    BY DEF Entries, Cells, Words
  <2>4. d \in Cells
    BY DEF Cells, Words
  <2> QED  BY <2>1, <2>2, <2>4
<1>2. c = [i \in 1 .. e.len |-> IF i = 1 THEN e ELSE d]
  BY DEF EntryCells
<1>6. d.type = "other" /\ d.pid = "descriptor"
  OBVIOUS
<1> HIDE DEF c, d
<1>3. c \in Seq(Cells) /\ Len(c) = e.len
  <2>1. c \in [1 .. e.len -> Cells]
    BY <1>1, <1>2
  <2> QED  BY <1>1, <2>1
<1>4. \A k \in 1 .. e.len : c[k] = IF k = 1 THEN e ELSE d
  BY <1>2
<1>5. 1 \in 1 .. e.len /\ c[1] = e
  BY <1>1, <1>4
<1>7. c # <<>>
  BY <1>1, <1>3
<1>8. \A k \in 1 .. Len(c) : Header(c, k) => k = 1
  BY <1>3, <1>4, <1>6 DEF Header
<1>9. 1 + c[1].len = Len(c) + 1 /\ c[1].len >= 2
  BY <1>1, <1>3, <1>5
<1> QED
  <2>1. Header(c, 1)
    BY <1>1, <1>5 DEF Header
  <2>2. \A k \in 1 .. Len(c) : c[k].pid \in Y /\ c[k].type # "stuffing" /\ c[k].type # "crc"
    BY <1>1, <1>3, <1>4, <1>6
  <2> QED  BY <1>3, <1>5, <1>7, <1>8, <1>9, <2>1, <2>2 DEF Formed, c

\* Entry after entry, whoever goes from header to header goes on doing so.
LEMMA FormedConcat ==
  ASSUME NEW X, NEW Y, NEW c, NEW d, Formed(c, X, Y), Formed(d, X, Y)
  PROVE  Formed(c \o d, X, Y)
<1> DEFINE m == Len(c)
           n == Len(d)
           b == c \o d
<1>1. c \in Seq(Cells) /\ d \in Seq(Cells) /\ m \in Nat /\ n \in Nat /\ m >= 1 /\ n >= 1
  BY DEF Formed
<1>2. /\ b \in Seq(Cells) /\ Len(b) = m + n
      /\ \A k \in 1 .. m + n : b[k] = IF k <= m THEN c[k] ELSE d[k - m]
  BY <1>1, ConcatProperties
<1> HIDE DEF b
<1>3. \A k \in 1 .. m : k \in 1 .. m + n /\ b[k] = c[k]
  BY <1>1, <1>2
<1>4. \A k \in 1 .. n : k + m \in 1 .. m + n /\ b[k + m] = d[k]
  <2> SUFFICES ASSUME NEW k \in 1 .. n PROVE k + m \in 1 .. m + n /\ b[k + m] = d[k]
    OBVIOUS
  <2>1. k + m \in 1 .. m + n /\ ~(k + m <= m) /\ (k + m) - m = k
    BY <1>1
  <2> QED  BY <1>2, <2>1
<1>5. \A k \in 1 .. m + n : k \in 1 .. m \/ (k - m \in 1 .. n /\ b[k] = d[k - m] /\ k = (k - m) + m)
  <2> SUFFICES ASSUME NEW k \in 1 .. m + n, ~(k <= m)
               PROVE  k - m \in 1 .. n /\ b[k] = d[k - m] /\ k = (k - m) + m
    BY <1>1
  <2>1. k - m \in 1 .. n /\ k = (k - m) + m
    BY <1>1
  <2>2. b[k] = d[k - m]
    BY <1>2
  <2> QED  BY <2>1, <2>2
<1>6. \A k \in 1 .. m : c[k].len \in Nat \ {0}
  <2>1. \A k \in 1 .. m : c[k] \in Cells
    BY <1>1
  <2> QED  BY <2>1 DEF Cells
<1>7. \A k \in 1 .. n : d[k].len \in Nat \ {0}
  <2>1. \A k \in 1 .. n : d[k] \in Cells
    BY <1>1
  <2> QED  BY <2>1 DEF Cells
<1>8. b # <<>> /\ Header(b, 1)
  BY <1>1, <1>2, <1>3 DEF Formed, Header
<1>9. \A k \in 1 .. Len(b) : b[k].pid \in Y /\ b[k].type # "stuffing" /\ b[k].type # "crc"
  BY <1>2, <1>3, <1>5 DEF Formed
<1>10. ASSUME NEW k \in 1 .. Len(b), Header(b, k)
       PROVE  /\ b[k].type = "data" \/ b[k].pid \in X
              /\ b[k].len >= 2
              /\ \/ k + b[k].len = Len(b) + 1
                 \/ k + b[k].len <= Len(b) /\ Header(b, k + b[k].len)
  <2>1. CASE k \in 1 .. m
    <3>1. /\ c[k].type = "data" \/ c[k].pid \in X
          /\ c[k].len >= 2
          /\ \/ k + c[k].len = m + 1
             \/ k + c[k].len <= m /\ Header(c, k + c[k].len)
      BY <1>3, <1>10, <2>1 DEF Formed, Header
    <3>2. Header(b, m + 1)
      <4>1. 1 + m \in 1 .. m + n /\ b[1 + m] = d[1]
        BY <1>1, <1>4
      <4> QED  BY <1>1, <4>1 DEF Formed, Header
    <3>3. k + c[k].len <= m => k + c[k].len \in 1 .. m
      BY <1>1, <1>6, <2>1
    <3>4. k + c[k].len <= m /\ Header(c, k + c[k].len) => Header(b, k + c[k].len)
      BY <1>3, <3>3 DEF Header
    <3>5. b[k] = c[k] /\ c[k].len \in Nat /\ k \in Nat
      BY <1>3, <1>6, <2>1
    <3> QED  BY <1>1, <1>2, <3>1, <3>2, <3>4, <3>5
  <2>2. CASE k \notin 1 .. m
    <3> DEFINE j == k - m
    <3>1. j \in 1 .. n /\ b[k] = d[j] /\ k = j + m
      BY <1>2, <1>5, <2>2
    <3> HIDE DEF j
    <3>2. /\ d[j].type = "data" \/ d[j].pid \in X
          /\ d[j].len >= 2
          /\ \/ j + d[j].len = n + 1
             \/ j + d[j].len <= n /\ Header(d, j + d[j].len)
      BY <1>10, <3>1 DEF Formed, Header
    <3>3. d[j].len \in Nat /\ j \in Nat
      BY <1>7, <3>1
    <3>4. j + d[j].len <= n => j + d[j].len \in 1 .. n
      BY <1>1, <1>7, <3>1
    <3>5. j + d[j].len <= n /\ Header(d, j + d[j].len) => Header(b, (j + d[j].len) + m)
      BY <1>4, <3>4 DEF Header
    <3>6. (j + d[j].len) + m = k + b[k].len
      BY ONLY <1>1, <3>1, <3>3
    <3>7. /\ j + d[j].len = n + 1 => k + b[k].len = Len(b) + 1
          /\ j + d[j].len <= n => k + b[k].len <= Len(b)
      <4> DEFINE u == j + d[j].len
      <4>1. u \in Nat
        BY <3>3
      <4> HIDE DEF u
      <4>2. k + b[k].len = u + m
        BY <3>6 DEF u
      <4>3. /\ u = n + 1 => k + b[k].len = Len(b) + 1
            /\ u <= n => k + b[k].len <= Len(b)
        <5>1. Len(b) = m + n /\ m \in Nat /\ n \in Nat
          BY <1>1, <1>2
        <5> DEFINE w == k + b[k].len
        <5> HIDE DEF m, n, w
        <5>2. w = u + m
          BY <4>2 DEF w
        <5>3. (u = n + 1 => w = Len(b) + 1) /\ (u <= n => w <= Len(b))
          BY ONLY <4>1, <5>1, <5>2
        <5> QED  BY <5>3 DEF w
      <4> QED  BY <4>3 DEF u
    <3>8. (b[k].type = "data" \/ b[k].pid \in X) /\ b[k].len >= 2
      BY <3>1, <3>2
    <3> QED  BY <3>2, <3>5, <3>6, <3>7, <3>8
  <2> QED  BY <2>1, <2>2
<1> QED  BY <1>2, <1>8, <1>9, <1>10 DEF Formed, b

\* The list of a section
EsList(p, v) == FlattenSeq([i \in DOMAIN Pmt[p][v].es |-> EntryCells(Pmt[p][v].es[i])])

\* So a whole list is well formed: its headers lead from one to the next.
LEMMA ListFormed ==
  ASSUME NEW p \in PmtPids, NEW v \in DOMAIN Pmt[p]
  PROVE  Formed(EsList(p, v), Streams(p, v), Listed(p, v))
<1> DEFINE es == Pmt[p][v].es
           X == Streams(p, v)
           Y == Listed(p, v)
           ss == [i \in DOMAIN es |-> EntryCells(es[i])]
           n == Len(es)
           D == [i \in 1 .. n |-> {c \in Seq(Cells) : Formed(c, X, Y)}]
<1>1. es \in Seq(Entries) /\ es # <<>> /\ n \in Nat /\ n >= 1 /\ DOMAIN es = 1 .. n
  <2>1. Pmt[p] \in Seq(Versions)
    BY SplitterAssumption
  <2>2. Pmt[p][v] \in Versions
    BY <2>1
  <2>3. es \in Seq(Entries) \ {<<>>}
    BY <2>2 DEF Versions
  <2> QED  BY <2>3
<1>2. \A i \in 1 .. n : es[i] \in Entries /\ Formed(ss[i], X, Y)
  <2> SUFFICES ASSUME NEW i \in 1 .. n PROVE es[i] \in Entries /\ Formed(ss[i], X, Y)
    OBVIOUS
  <2>1. es[i] \in Entries /\ es[i] \in ToSet(es)
    BY <1>1 DEF ToSet
  <2>2. es[i].type = "data" \/ es[i].pid \in X
    BY <2>1 DEF Streams
  <2>3. es[i].pid \in Y /\ "descriptor" \in Y
    BY <2>1 DEF Listed
  <2>4. Formed(EntryCells(es[i]), X, Y)
    <3> HIDE DEF X, Y, es
    <3> QED  BY <2>1, <2>2, <2>3, EntryFormed
  <2> HIDE DEF X, Y, es
  <2> QED  BY <1>1, <2>1, <2>4
<1>3. EsList(p, v) = FlattenSeq(ss)
  BY DEF EsList
<1> HIDE DEF es, X, Y
<1>4. \A i \in 1 .. n : ss[i] \in Seq(Cells)
  BY <1>2 DEF Formed
<1>5. ss \in Seq(Seq(Cells)) /\ Len(ss) = n /\ ss # <<>>
  <2>1. ss \in [1 .. n -> Seq(Cells)]
    BY <1>1, <1>4
  <2> QED  BY <1>1, <2>1
<1>6. ss[1] \in D[1]
  BY <1>1, <1>2, <1>4
<1> HIDE DEF ss
<1>7. \A i \in 2 .. Len(ss) : \A x \in D[i-1] : x \o ss[i] \in D[i]
  <2> SUFFICES ASSUME NEW i \in 2 .. n, NEW x \in D[i-1] PROVE x \o ss[i] \in D[i]
    BY <1>5
  <2>1. i \in 1 .. n /\ i - 1 \in 1 .. n
    BY <1>1
  <2>2. x \in Seq(Cells) /\ Formed(x, X, Y)
    BY <2>1
  <2>3. Formed(x \o ss[i], X, Y)
    BY <1>2, <2>1, <2>2, FormedConcat
  <2>4. x \o ss[i] \in Seq(Cells)
    BY <2>3 DEF Formed
  <2> QED  BY <2>1, <2>3, <2>4
<1>8. FlattenSeq(ss) \in D[n]
  <2> HIDE DEF D
  <2> QED  BY <1>5, <1>6, <1>7, Flatten
<1>9. n \in 1 .. n
  BY <1>1
<1> QED  BY <1>3, <1>8, <1>9 DEF X, Y

\* The section is the list and the CRC.
LEMMA SectionIs ==
  ASSUME NEW p \in PmtPids, NEW v \in DOMAIN Pmt[p]
  PROVE  LET c == EsList(p, v)
             b == Section[p][v] IN
         /\ b \in Seq(Cells) /\ Len(b) = Len(c) + 1 /\ Len(c) \in Nat /\ Len(c) >= 1
         /\ \A k \in 1 .. Len(c) : k \in 1 .. Len(b) /\ b[k] = c[k]
         /\ b[Len(b)] = Crc
<1> DEFINE c == EsList(p, v)
           b == Section[p][v]
<1>1. b = Append(c, Crc)
  BY DEF Section, EsList
<1>2. Formed(c, Streams(p, v), Listed(p, v))
  BY ListFormed
<1>3. Crc \in Cells
  BY SplitterAssumption DEF Crc, Cells, Words
<1> HIDE DEF c, b
<1>4. c \in Seq(Cells) /\ c # <<>>
  BY <1>2 DEF Formed
<1>5. Len(c) \in Nat /\ Len(c) >= 1
  BY <1>4
<1>6. /\ b \in Seq(Cells) /\ Len(b) = Len(c) + 1 /\ b[Len(c) + 1] = Crc
      /\ \A k \in 1 .. Len(c) : b[k] = c[k]
  BY <1>1, <1>3, <1>4, AppendProperties
<1>7. \A k \in 1 .. Len(c) : k \in 1 .. Len(b)
  BY <1>5, <1>6
<1> QED  BY <1>5, <1>6, <1>7 DEF c, b

\* So a section's headers lead from one to the next, up to the CRC.
LEMMA SectionLaid ==
  ASSUME NEW p \in PmtPids, NEW v \in DOMAIN Pmt[p]
  PROVE  Laid(Section[p][v], Streams(p, v), Listed(p, v))
<1> DEFINE c == EsList(p, v)
           b == Section[p][v]
           X == Streams(p, v)
           Y == Listed(p, v)
           m == Len(c)
<1>1. Formed(c, X, Y)
  BY ListFormed
<1>2. /\ b \in Seq(Cells) /\ Len(b) = m + 1 /\ m \in Nat /\ m >= 1
      /\ \A k \in 1 .. m : k \in 1 .. Len(b) /\ b[k] = c[k]
      /\ b[Len(b)] = Crc
  BY SectionIs
<1>3. Crc.type = "crc" /\ Crc.pid = "crc" /\ "crc" \in Y
  BY DEF Crc, Listed
<1> HIDE DEF b, X, Y
<1>4. \A k \in 1 .. Len(b) : k \in 1 .. m \/ k = Len(b)
  BY <1>2
<1> HIDE DEF c
<1>5. Header(b, 1)
  <2>1. 1 \in 1 .. m
    BY <1>2
  <2> QED  BY <1>1, <1>2, <2>1 DEF Formed, Header
<1>6. \A k \in 1 .. Len(b) : b[k].pid \in Y /\ b[k].type # "stuffing"
  BY <1>1, <1>2, <1>3, <1>4 DEF Formed
<1>7. ASSUME NEW k \in 1 .. Len(b), Header(b, k), k # Len(b)
      PROVE  /\ b[k].type = "data" \/ b[k].pid \in X
             /\ b[k].len >= 2
             /\ k + b[k].len <= Len(b) /\ Header(b, k + b[k].len)
  <2>1. k \in 1 .. m /\ b[k] = c[k] /\ Header(c, k)
    BY <1>2, <1>4, <1>7 DEF Header
  <2>2. /\ c[k].type = "data" \/ c[k].pid \in X
        /\ c[k].len >= 2
        /\ \/ k + c[k].len = m + 1
           \/ k + c[k].len <= m /\ Header(c, k + c[k].len)
    BY <1>1, <2>1 DEF Formed
  <2>3. c[k].len \in Nat
    <3>1. c[k] \in Cells
      BY <1>1, <2>1 DEF Formed
    <3> QED  BY <3>1 DEF Cells
  <2>4. CASE k + c[k].len = m + 1
    <3>1. Header(b, m + 1)
      BY <1>2, <1>3 DEF Header
    <3>2. b[k].len >= 2 /\ (b[k].type = "data" \/ b[k].pid \in X) /\ k + b[k].len = m + 1
      BY <2>1, <2>2, <2>4
    <3>3. m + 1 <= Len(b)
      BY <1>2
    <3> QED  BY <3>1, <3>2, <3>3
  <2>5. CASE k + c[k].len <= m /\ Header(c, k + c[k].len)
    <3> DEFINE u == k + c[k].len
    <3>1. u \in 1 .. m
      BY <1>2, <2>1, <2>3, <2>5
    <3> HIDE DEF u
    <3>2. Header(b, u) /\ u <= Len(b)
      BY <1>2, <2>5, <3>1 DEF Header, u
    <3>3. b[k].len >= 2 /\ (b[k].type = "data" \/ b[k].pid \in X) /\ k + b[k].len = u
      BY <2>1, <2>2 DEF u
    <3> QED  BY <3>2, <3>3
  <2> QED  BY <2>2, <2>4, <2>5
<1>8. Len(b) > 1
  BY <1>2
<1>9. b[Len(b)].type = "crc"
  BY <1>2, <1>3
<1>10. Laid(b, X, Y)
  BY <1>2, <1>5, <1>6, <1>7, <1>8, <1>9 DEF Laid
<1> QED  BY <1>10 DEF b, X, Y

-----------------------------------------------------------------------------
(* Packets *)

\* A section has at least one packet.
LEMMA PartsPositive ==
  ASSUME NEW p \in PmtPids, NEW v \in DOMAIN Pmt[p]
  PROVE  Parts(p, v) \in Nat /\ 1 \in 1 .. Parts(p, v)
<1>1. Len(Section[p][v]) - 1 \in Nat /\ Room \in Nat \ {0}
  BY SectionLaid, SplitterAssumption DEF Laid
<1>2. \A a \in Nat : \A b \in Nat \ {0} : a \div b \in Nat
  OBVIOUS
<1>3. (Len(Section[p][v]) - 1) \div Room \in Nat
  BY <1>1, <1>2
<1> QED  BY <1>3 DEF Parts

\* The cells of part k of a section
PartOf(p, v, k) ==
  LET cells == Section[p][v]
  IN  SubSeq(cells, ((k - 1) * Room) + 1,
             IF k * Room < Len(cells) THEN k * Room ELSE Len(cells))

\* The first cells of a sequence
LEMMA Prefix ==
  ASSUME NEW c \in Seq(Cells), NEW n \in 0 .. Len(c)
  PROVE  /\ SubSeq(c, 1, n) \in Seq(Cells) /\ Len(SubSeq(c, 1, n)) = n
         /\ \A j \in 1 .. n : SubSeq(c, 1, n)[j] = c[j]
<1>1. n \in Nat /\ Len(c) \in Nat
  OBVIOUS
<1>2. \A i \in 1 .. n : c[i] \in Cells
  OBVIOUS
<1>3. /\ SubSeq(c, 1, n) \in Seq(Cells)
      /\ Len(SubSeq(c, 1, n)) = IF 1 <= n THEN n - 1 + 1 ELSE 0
      /\ \A j \in 1 .. n - 1 + 1 : SubSeq(c, 1, n)[j] = c[1 + j - 1]
  BY <1>1, <1>2, SubSeqProperties
<1>4. \A j \in 1 .. n : j \in 1 .. n - 1 + 1 /\ 1 + j - 1 = j
  BY <1>1
<1>5. (IF 1 <= n THEN n - 1 + 1 ELSE 0) = n
  BY <1>1
<1> QED  BY <1>3, <1>4, <1>5

\* The cells of a packet, and which they are
LEMMA PayloadCells ==
  ASSUME NEW p \in PmtPids, NEW v \in DOMAIN Pmt[p], NEW k \in 1 .. Parts(p, v)
  PROVE  LET c == Payload(p, v, k)
             L == Len(Section[p][v])
             o == (k - 1) * Room IN
         /\ c \in Seq(Cells) /\ Len(c) = Room /\ o \in Nat /\ L \in Nat
         /\ \A j \in 1 .. Room :
              /\ o + j <= L => o + j \in 1 .. L
              /\ c[j] = IF o + j <= L THEN Section[p][v][o + j] ELSE Stuffing
<1> DEFINE s == Section[p][v]
           L == Len(s)
           o == (k - 1) * Room
           c == [i \in 1 .. Room |-> IF o + i <= L THEN s[o + i] ELSE Stuffing]
<1>1. s \in Seq(Cells) /\ L \in Nat
  BY SectionLaid DEF Laid
<1>2. k \in Nat \ {0} /\ Room \in Nat \ {0} /\ o \in Nat
  <2>1. k \in Nat \ {0} /\ Room \in Nat \ {0}
    BY PartsPositive, SplitterAssumption
  <2>2. k - 1 \in Nat
    BY <2>1
  <2>3. \A a, b \in Nat : a * b \in Nat
    OBVIOUS
  <2> QED  BY <2>1, <2>2, <2>3
<1>3. c = Payload(p, v, k)
  BY DEF Payload
<1>4. Stuffing \in Cells
  BY SplitterAssumption DEF Stuffing, Cells, Words
<1> HIDE DEF s, o
<1>5. \A j \in 1 .. Room : o + j <= L => o + j \in 1 .. L
  BY <1>1, <1>2
<1>6. \A j \in 1 .. Room : c[j] = IF o + j <= L THEN s[o + j] ELSE Stuffing
  OBVIOUS
<1>7. \A j \in 1 .. Room : (IF o + j <= L THEN s[o + j] ELSE Stuffing) \in Cells
  BY <1>1, <1>4, <1>5
<1>8. c \in [1 .. Room -> Cells]
  BY <1>7
<1> HIDE DEF c
<1>9. c \in Seq(Cells) /\ Len(c) = Room
  BY <1>2, <1>8
<1> QED  BY <1>1, <1>2, <1>3, <1>5, <1>6, <1>9 DEF s, o

\* However far the ES loop goes in a packet, it finds only what the section lists and,
\* when every packet starts with a header and it stays out of the stuffing, only streams
\* to pass.
LEMMA PartFound ==
  ASSUME NEW p \in PmtPids, NEW v \in DOMAIN Pmt[p], NEW k \in 1 .. Parts(p, v),
         NEW n \in 0 .. Len(Payload(p, v, k))
  PROVE  LET c == SubSeq(Payload(p, v, k), 1, n) IN
         /\ EsLoop(c) \subseteq Listed(p, v)
         /\ Aligned(p, v) /\ ~Into(Payload(p, v, k), n) => EsLoop(c) \subseteq Streams(p, v)
<1> DEFINE s == Section[p][v]
           L == Len(s)
           o == (k - 1) * Room
           d == Payload(p, v, k)
           c == SubSeq(d, 1, n)
<1>1. Laid(s, Streams(p, v), Listed(p, v))
  BY SectionLaid
<1>2. /\ d \in Seq(Cells) /\ Len(d) = Room /\ o \in Nat /\ L \in Nat
      /\ \A j \in 1 .. Room :
           /\ o + j <= L => o + j \in 1 .. L
           /\ d[j] = IF o + j <= L THEN s[o + j] ELSE Stuffing
  BY PayloadCells
<1>3. n \in Nat /\ n <= Room /\ Room \in Nat \ {0}
  BY <1>2, SplitterAssumption
<1> HIDE DEF s, d
<1>4. k \in Nat \ {0}
  BY PartsPositive
<1>5. c \in Seq(Cells) /\ Len(c) = n /\ \A j \in 1 .. n : c[j] = d[j]
  BY <1>2, Prefix DEF d
<1> HIDE DEF c
<1>6. \A j \in 1 .. n : c[j] = IF o + j <= L THEN s[o + j] ELSE Stuffing
  BY <1>2, <1>3, <1>5
<1>7. \A j \in 1 .. n : c[j].len \in Nat \ {0} /\ c[j] \in Cells
  <2>1. \A j \in 1 .. n : c[j] \in Cells
    BY <1>5
  <2> QED  BY <2>1 DEF Cells
<1>8. EsLoop(c) \subseteq Listed(p, v)
  <2>1. \A j \in 1 .. n : c[j].pid \in Listed(p, v)
    <3>1. Stuffing.pid \in Listed(p, v)
      BY DEF Stuffing, Listed
    <3>2. \A j \in 1 .. n : o + j <= L => o + j \in 1 .. L
      BY <1>2, <1>3
    <3>3. \A j \in 1 .. L : s[j].pid \in Listed(p, v)
      BY <1>1 DEF Laid
    <3> QED  BY <1>6, <3>1, <3>2, <3>3
  <2>2. \A j \in 1 .. n : j + c[j].len \in 1 .. n \/ j + c[j].len > n
    BY <1>3, <1>7
  <2>3. n >= 1 => 1 \in 1 .. n
    BY <1>3
  <2> DEFINE Y == Listed(p, v)
             H == 1 .. n
  <2>4. \A j \in 1 .. Len(c) : j \in H /\ j # Len(c) =>
          /\ c[j].type = "data" \/ c[j].pid \in Y
          /\ j + c[j].len \in H \/ j + c[j].len > Len(c)
    BY <1>5, <2>1, <2>2
  <2>5. Len(c) >= 1 => 1 \in H
    BY <1>5, <2>3
  <2> HIDE DEF Y, H
  <2>6. EsLoop(c) \subseteq Y
    BY <1>5, <2>4, <2>5, EsLoopIn
  <2> QED  BY <2>6 DEF Y
<1>9. ASSUME Aligned(p, v), ~Into(d, n) PROVE EsLoop(c) \subseteq Streams(p, v)
  <2> DEFINE H == {j \in Nat : Header(s, o + j)}
  <2>0. n >= 1 => o + n <= L
    <3> SUFFICES ASSUME n >= 1, ~(o + n <= L) PROVE FALSE
      OBVIOUS
    <3>1. n \in 1 .. n /\ n \in 1 .. Room
      BY <1>3
    <3>2. d[n] = Stuffing
      BY <1>2, <3>1
    <3>3. Stuffing.type = "stuffing"
      BY DEF Stuffing
    <3> QED  BY <1>9, <3>1, <3>2, <3>3 DEF Into
  <2>1. n >= 1 => Header(s, o + 1)
    <3>1. CASE k = 1
      <4>1. o = 0
        BY <1>3, <3>1 DEF o
      <4> QED  BY <1>1, <4>1 DEF Laid
    <3>2. CASE k # 1
      <4>1. k - 1 \in 1 .. Parts(p, v) - 1
        BY <1>4, <3>2, PartsPositive
      <4> QED  BY <1>9, <4>1 DEF Aligned, Header, o, s
    <3> QED  BY <3>1, <3>2
  <2> HIDE DEF o
  <2>2. ASSUME NEW j \in 1 .. n, j # n, j \in H
        PROVE  /\ c[j].type = "data" \/ c[j].pid \in Streams(p, v)
               /\ j + c[j].len \in H \/ j + c[j].len > n
    <3>0. o + j <= L /\ o + j # L
      BY <1>2, <1>3, <2>0, <2>2
    <3>1. Header(s, o + j) /\ o + j \in 1 .. L /\ c[j] = s[o + j]
      BY <1>2, <1>3, <1>6, <2>2, <3>0
    <3>2. /\ c[j].type = "data" \/ c[j].pid \in Streams(p, v)
          /\ Header(s, (o + j) + c[j].len)
      BY <1>1, <3>0, <3>1 DEF Laid
    <3>3. c[j].len \in Nat /\ j + c[j].len \in Nat
      BY <1>7
    <3>4. (o + j) + c[j].len = o + (j + c[j].len)
      BY <1>2, <3>3
    <3> QED  BY <3>2, <3>3, <3>4
  <2>3. n >= 1 => 1 \in H
    BY <2>1
  <2> DEFINE X == Streams(p, v)
  <2>4. \A j \in 1 .. Len(c) : j \in H /\ j # Len(c) =>
          /\ c[j].type = "data" \/ c[j].pid \in X
          /\ j + c[j].len \in H \/ j + c[j].len > Len(c)
    BY <1>5, <2>2
  <2>5. Len(c) >= 1 => 1 \in H
    BY <1>5, <2>3
  <2> HIDE DEF X, H
  <2>6. EsLoop(c) \subseteq X
    BY <1>5, <2>4, <2>5, EsLoopIn
  <2> QED  BY <2>6 DEF X
<1> QED  BY <1>8, <1>9 DEF c, d

\* What there is to know of a packet of a PMT, however far it is read
Finds(pk, n) ==
  LET found == EsLoop(SubSeq(pk.cells, 1, n)) IN
  /\ found \subseteq Listed(pk.pid, pk.version)
  /\ Aligned(pk.pid, pk.version) /\ ~Into(pk.cells, n) =>
       found \subseteq Streams(pk.pid, pk.version)
PmtPackets ==
  {pk \in [pid : PmtPids, start : BOOLEAN, cc : Nat, version : Nat, cells : Seq(Cells)] :
     /\ pk.version \in DOMAIN Pmt[pk.pid]
     /\ \A n \in 0 .. Len(pk.cells) : Finds(pk, n)}
Packets == PmtPackets \cup [pid : {"0x00"}, count : PatCounts] \cup [pid : Probes \cup {NullPid}]

\* The air: every PMT is at a packet of a version it has.
Air ==
  /\ ver \in [PmtPids -> Nat] /\ part \in [PmtPids -> Nat] /\ cc \in [PmtPids -> Nat]
  /\ \A p \in PmtPids : ver[p] \in DOMAIN Pmt[p] /\ part[p] \in 1 .. Parts(p, ver[p])

\* Every PMT has a version.
LEMMA Versioned ==
  ASSUME NEW p \in PmtPids
  PROVE  /\ Len(Pmt[p]) \in Nat \ {0} /\ DOMAIN Pmt[p] = 1 .. Len(Pmt[p])
<1>1. Pmt[p] \in Seq(Versions) \ {<<>>}
  BY SplitterAssumption
<1> QED  BY <1>1

\* What SendPmt puts on the air is a packet of a PMT.
LEMMA PacketType ==
  ASSUME NEW p \in PmtPids, Air
  PROVE  PmtPacket(p) \in PmtPackets
<1> DEFINE pk == PmtPacket(p)
           v == ver[p]
           k == part[p]
<1>1. v \in Nat /\ v \in DOMAIN Pmt[p] /\ k \in 1 .. Parts(p, v) /\ cc[p] \in Nat
  BY DEF Air
<1>2. pk = [pid |-> p, start |-> k = 1, cc |-> cc[p], version |-> v, cells |-> Payload(p, v, k)]
  BY DEF PmtPacket
<1> HIDE DEF pk, v, k
<1>3. Payload(p, v, k) \in Seq(Cells)
  BY <1>1, PayloadCells
<1>4. pk \in [pid : PmtPids, start : BOOLEAN, cc : Nat, version : Nat, cells : Seq(Cells)]
  BY <1>1, <1>2, <1>3
<1>5. pk.pid = p /\ pk.version = v /\ pk.cells = Payload(p, v, k)
  BY <1>2
<1>6. \A n \in 0 .. Len(pk.cells) : Finds(pk, n)
  BY <1>1, <1>5, PartFound DEF Finds
<1>7. pk \in PmtPackets
  BY <1>1, <1>4, <1>5, <1>6 DEF PmtPackets
<1> QED  BY <1>7 DEF pk

\* The air stays well typed from packet to packet.
LEMMA AdvanceKeeps ==
  ASSUME NEW p \in PmtPids, Air, Advance(p)
  PROVE  Air'
<1>1. Parts(p, ver[p]) \in Nat /\ part[p] \in 1 .. Parts(p, ver[p]) /\ cc[p] \in Nat
  BY PartsPositive DEF Air
<1>2. IF part[p] = Parts(p, ver[p]) THEN part'[p] = 1 ELSE part'[p] = part[p] + 1
  BY DEF Air, Advance
<1>3. part'[p] \in 1 .. Parts(p, ver[p]) /\ part'[p] \in Nat
  BY <1>1, <1>2
<1>4. part' \in [PmtPids -> Nat] /\ \A q \in PmtPids : q # p => part'[q] = part[q]
  BY <1>3 DEF Air, Advance
<1>5. cc' \in [PmtPids -> Nat]
  <2>1. Cc \in Nat \ {0}
    BY SplitterAssumption
  <2>2. (cc[p] + 1) % Cc \in Nat
    BY <1>1, <2>1
  <2> QED  BY <2>2 DEF Air, Advance
<1>6. ver' = ver
  BY DEF Advance
<1> QED  BY <1>3, <1>4, <1>5, <1>6 DEF Air, Parts, Section, Streams

-----------------------------------------------------------------------------
(* struct splitter: its types, and what the analysis of a PMT changes *)

Lists == {AnalyzeSid(words) : words \in SidTexts}
Splitters ==
  [pids : [AllPids -> 0 .. 2], pmt_pids : [PmtPids -> 0 .. 2],
   pat : [cc : Int, pids : SUBSET PmtPids], pat_count : Int, sid_list : Lists,
   pmt_retain : Int, pmt_counter : Nat, pmt_version : Seq([pid : PmtPids, version : Nat]),
   section_remain : [PmtPids -> Nat], packet_seq : [PmtPids -> Nat],
   whole : [PmtPids -> Nat], seen : [PmtPids -> SUBSET Nat], over : [PmtPids -> BOOLEAN]]

\* What the analysis of a PMT leaves alone
Same(s, t) ==
  /\ t.pmt_pids = s.pmt_pids /\ t.pat = s.pat /\ t.pat_count = s.pat_count
  /\ t.sid_list = s.sid_list /\ t.pmt_retain = s.pmt_retain /\ t.pmt_counter = s.pmt_counter

\* Marked marks S and leaves the rest.
LEMMA MarkedType ==
  ASSUME NEW pids \in [AllPids -> 0 .. 2], NEW S, NEW mark \in 1 .. 2
  PROVE  /\ Marked(pids, S, mark) \in [AllPids -> 0 .. 2]
         /\ \A x \in AllPids : Marked(pids, S, mark)[x] = IF x \in S THEN mark ELSE pids[x]
  BY DEF Marked

\* The ES loop reads no cell that the packet does not have.
LEMMA NallType ==
  ASSUME NEW s \in Splitters, NEW pk \in PmtPackets
  PROVE  /\ Nall(s, pk) \in 0 .. Len(pk.cells) /\ Nall(s, pk) <= s.section_remain[pk.pid]
         /\ s.section_remain[pk.pid] - Nall(s, pk) \in Nat
<1>1. s.section_remain[pk.pid] \in Nat
  BY DEF Splitters, PmtPackets
<1>2. Len(pk.cells) \in Nat
  <2>1. pk.cells \in Seq(Cells)
    BY DEF PmtPackets
  <2> QED  BY <2>1
<1> DEFINE r == s.section_remain[pk.pid]
           l == Len(pk.cells)
<1>3. Nall(s, pk) = IF r > l THEN l ELSE r
  BY DEF Nall
<1>4. r \in Nat /\ l \in Nat
  BY <1>1, <1>2
<1> HIDE DEF r, l
<1>5. Nall(s, pk) \in 0 .. l /\ Nall(s, pk) <= r /\ r - Nall(s, pk) \in Nat
  BY <1>3, <1>4
<1> QED  BY <1>5 DEF r, l

\* What the ES loop does to the marks and the account of the section
Searched(s, t, pk, mark) ==
  LET n == Nall(s, pk) IN
  /\ t.pids = Marked(s.pids, EsLoop(SubSeq(pk.cells, 1, n)), mark)
  /\ t.section_remain = [s.section_remain EXCEPT ![pk.pid] = @ - n]
  /\ t.packet_seq = [s.packet_seq EXCEPT ![pk.pid] = pk.cc]
  /\ t.whole = [s.whole EXCEPT
       ![pk.pid] = IF s.section_remain[pk.pid] - n = 0 THEN pk.version ELSE @]
  /\ t.seen = [s.seen EXCEPT ![pk.pid] = @ \cup {pk.version}]
  /\ t.over = [s.over EXCEPT ![pk.pid] = @ \/ Into(pk.cells, n)]

\* The ES loop marks what it finds in the cells it reads, counts the version as seen, and
\* leaves the selection.
LEMMA EsKeeps ==
  ASSUME NEW s \in Splitters, NEW pk \in PmtPackets, NEW mark \in 1 .. 2
  PROVE  LET a == AnalyzeEs(s, pk, mark) IN
         /\ a.sp \in Splitters /\ Same(s, a.sp) /\ Searched(s, a.sp, pk, mark)
         /\ a.result \in {"continue", "success"}
<1> DEFINE n == Nall(s, pk)
           rest == s.section_remain[pk.pid] - n
           found == Marked(s.pids, EsLoop(SubSeq(pk.cells, 1, n)), mark)
           into == s.over[pk.pid] \/ Into(pk.cells, n)
           last == IF rest = 0 THEN pk.version ELSE s.whole[pk.pid]
           t == [s EXCEPT !.packet_seq[pk.pid] = pk.cc,
                          !.pids = found,
                          !.section_remain[pk.pid] = rest,
                          !.seen[pk.pid] = @ \cup {pk.version},
                          !.over[pk.pid] = into,
                          !.whole[pk.pid] = last]
           a == AnalyzeEs(s, pk, mark)
<1>1. pk.pid \in PmtPids /\ pk.cc \in Nat /\ pk.version \in Nat /\ pk.cells \in Seq(Cells)
  BY DEF PmtPackets
<1>2. /\ s.section_remain \in [PmtPids -> Nat] /\ s.packet_seq \in [PmtPids -> Nat]
      /\ s.whole \in [PmtPids -> Nat] /\ s.seen \in [PmtPids -> SUBSET Nat]
      /\ s.pids \in [AllPids -> 0 .. 2] /\ s.over \in [PmtPids -> BOOLEAN]
  BY DEF Splitters
<1>3. a = [sp |-> t, result |-> IF rest > 0 THEN "continue" ELSE "success"]
  BY DEF AnalyzeEs
<1>4. rest \in Nat /\ found \in [AllPids -> 0 .. 2] /\ into \in BOOLEAN /\ last \in Nat
  <2>2. rest \in Nat
    BY NallType
  <2>3. found \in [AllPids -> 0 .. 2]
    BY <1>2, MarkedType
  <2>4. last \in Nat
    BY <1>1, <1>2
  <2>5. into \in BOOLEAN
    BY Zenon
  <2> QED  BY <2>2, <2>3, <2>4, <2>5
<1> DEFINE remain == [s.section_remain EXCEPT ![pk.pid] = @ - n]
           wholes == [s.whole EXCEPT ![pk.pid] = IF rest = 0 THEN pk.version ELSE @]
           overs == [s.over EXCEPT ![pk.pid] = @ \/ Into(pk.cells, n)]
<1>7. /\ remain = [s.section_remain EXCEPT ![pk.pid] = rest]
      /\ wholes = [s.whole EXCEPT ![pk.pid] = last]
      /\ overs = [s.over EXCEPT ![pk.pid] = into]
  BY <1>1, <1>2
<1> HIDE DEF rest, found, into, last, a, remain, wholes, overs
<1>5. t \in Splitters
  <2>1. /\ [s.packet_seq EXCEPT ![pk.pid] = pk.cc] \in [PmtPids -> Nat]
        /\ [s.section_remain EXCEPT ![pk.pid] = rest] \in [PmtPids -> Nat]
        /\ [s.whole EXCEPT ![pk.pid] = last] \in [PmtPids -> Nat]
    BY <1>1, <1>2, <1>4
  <2>2. /\ [s.seen EXCEPT ![pk.pid] = @ \cup {pk.version}] \in [PmtPids -> SUBSET Nat]
        /\ [s.over EXCEPT ![pk.pid] = into] \in [PmtPids -> BOOLEAN]
    BY <1>1, <1>2, <1>4
  <2> QED  BY <1>4, <2>1, <2>2 DEF Splitters
<1>6. /\ Same(s, t) /\ t.pids = found /\ t.seen = [s.seen EXCEPT ![pk.pid] = @ \cup {pk.version}]
      /\ t.section_remain = remain /\ t.packet_seq = [s.packet_seq EXCEPT ![pk.pid] = pk.cc]
      /\ t.whole = wholes /\ t.over = overs
  BY <1>7 DEF Splitters, Same
<1> HIDE DEF t
<1>8. Searched(s, t, pk, mark)
  BY <1>6 DEF Searched, found, remain, wholes, overs, rest
<1> QED  BY <1>3, <1>5, <1>6, <1>8 DEF a

\* What passes, and what may pass
Passed(s) == {x \in AllPids : s.pids[x] # 0}
Kept(s) == {p \in PmtPids : s.pmt_pids[p] # 0}
Justified(s) ==
  Kept(s) \cup EpgOf(ToSet(s.sid_list))
  \cup UNION {UNION {Streams(p, v) : v \in s.seen[p]} : p \in Kept(s)}
Tidy(s) == \A p \in Kept(s) : ~s.over[p] /\ \A v \in s.seen[p] : Aligned(p, v)
Clean(s) == Tidy(s) => Passed(s) \subseteq Justified(s)

\* No stream has the PID of a PMT.
LEMMA Disjoint ==
  ASSUME NEW p \in PmtPids, NEW v \in DOMAIN Pmt[p]
  PROVE  PmtPids \cap (Streams(p, v) \cup Listed(p, v)) = {}
<1>1. "descriptor" \notin PmtPids /\ "crc" \notin PmtPids /\ NullPid \notin PmtPids
  BY SplitterAssumption
<1>2. PmtPids \cap ({Pmt[p][v].pcr} \cup Pmt[p][v].ca \cup {e.pid : e \in ToSet(Pmt[p][v].es)}) = {}
  BY SplitterAssumption
<1>3. {e.pid : e \in {x \in ToSet(Pmt[p][v].es) : x.type # "data"}}
        \subseteq {e.pid : e \in ToSet(Pmt[p][v].es)}
  OBVIOUS
<1> QED  BY <1>1, <1>2, <1>3 DEF Streams, Listed

\* Marks that a version justifies, with the version among those seen, keep it clean.
LEMMA MarksKeep ==
  ASSUME NEW s \in Splitters, NEW t \in Splitters, NEW p \in Kept(s), NEW v \in DOMAIN Pmt[p],
         NEW S, NEW into, Aligned(p, v) /\ ~into => S \subseteq Streams(p, v),
         Clean(s), Same(s, t), \A x \in AllPids : x \in S \/ t.pids[x] = s.pids[x],
         t.seen = [s.seen EXCEPT ![p] = @ \cup {v}],
         t.over = [s.over EXCEPT ![p] = @ \/ into]
  PROVE  Clean(t)
<1>1. Kept(t) = Kept(s) /\ t.sid_list = s.sid_list /\ p \in PmtPids
  BY DEF Kept, Same
<1>2. s.seen \in [PmtPids -> SUBSET Nat] /\ s.over \in [PmtPids -> BOOLEAN]
  BY DEF Splitters
<1>3. /\ v \in t.seen[p] /\ \A q \in PmtPids : s.seen[q] \subseteq t.seen[q]
  BY <1>1, <1>2
<1>10. t.over[p] = (s.over[p] \/ into) /\ \A q \in PmtPids : q # p => t.over[q] = s.over[q]
  BY <1>1, <1>2
<1> SUFFICES ASSUME Tidy(t)
             PROVE  Passed(t) \subseteq Justified(t)
  BY DEF Clean
<1>4. Tidy(s)
  <2>1. \A q \in Kept(s) : q \in PmtPids
    BY DEF Kept
  <2>2. \A q \in Kept(s) : ~s.over[q]
    BY <1>1, <1>10, <2>1 DEF Tidy
  <2>3. \A q \in Kept(s) : \A w \in s.seen[q] : Aligned(q, w)
    BY <1>1, <1>3, <2>1 DEF Tidy
  <2> QED  BY <2>2, <2>3 DEF Tidy
<1>5. Passed(s) \subseteq Justified(s)
  BY <1>4 DEF Clean
<1>6. Aligned(p, v) /\ ~into
  BY <1>1, <1>3, <1>10 DEF Tidy
<1>7. Justified(s) \subseteq Justified(t)
  BY <1>1, <1>3 DEF Justified, Kept
<1>8. Streams(p, v) \subseteq Justified(t)
  BY <1>1, <1>3 DEF Justified
<1>9. \A x \in Passed(t) : x \in Passed(s) \/ x \in S
  BY DEF Passed
<1> QED  BY <1>5, <1>6, <1>7, <1>8, <1>9

\* What AnalyzePmt sets at the first packet of a section
Begun(s, p, v, mark) ==
  [s EXCEPT
     !.section_remain[p] = Len(Section[p][v]),
     !.pmt_version = [i \in DOMAIN @ |->
        IF @[i].pid = p THEN [@[i] EXCEPT !.version = v] ELSE @[i]],
     !.pids = Marked(@, {Pmt[p][v].pcr} \cup Pmt[p][v].ca, mark)]
Opened(s, t, p, v, mark) ==
  /\ t \in Splitters
  /\ t.section_remain = [s.section_remain EXCEPT ![p] = Len(Section[p][v])]
  /\ t.pids = Marked(s.pids, {Pmt[p][v].pcr} \cup Pmt[p][v].ca, mark)
  /\ t.whole = s.whole /\ t.packet_seq = s.packet_seq /\ t.seen = s.seen
  /\ t.over = s.over /\ Same(s, t)

\* The splitter stays well formed by it.
LEMMA BeginOpens ==
  ASSUME NEW s \in Splitters, NEW p \in PmtPids, NEW v \in DOMAIN Pmt[p], v \in Nat,
         NEW mark \in 1 .. 2
  PROVE  Opened(s, Begun(s, p, v, mark), p, v, mark)
<1> DEFINE own == {Pmt[p][v].pcr} \cup Pmt[p][v].ca
           old == s.pmt_version
           new == [i \in DOMAIN old |->
                    IF old[i].pid = p THEN [old[i] EXCEPT !.version = v] ELSE old[i]]
           marks == Marked(s.pids, own, mark)
           L == Len(Section[p][v])
           t == [s EXCEPT !.section_remain[p] = L, !.pmt_version = new, !.pids = marks]
<1>1. L \in Nat
  BY SectionLaid DEF Laid
<1>2. old \in Seq([pid : PmtPids, version : Nat])
  BY DEF Splitters
<1>3. Begun(s, p, v, mark) = t
  BY DEF Begun
<1>4. marks \in [AllPids -> 0 .. 2]
  <2>1. s.pids \in [AllPids -> 0 .. 2]
    BY DEF Splitters
  <2> HIDE DEF own
  <2> QED  BY <2>1, MarkedType
<1> HIDE DEF old
<1>5. \A i \in DOMAIN old : new[i] \in [pid : PmtPids, version : Nat]
  <2>1. \A i \in DOMAIN old : old[i] \in [pid : PmtPids, version : Nat]
    BY <1>2, ElementOfSeq, LenProperties
  <2>2. \A r \in [pid : PmtPids, version : Nat] :
          [r EXCEPT !.version = v] \in [pid : PmtPids, version : Nat]
    OBVIOUS
  <2>3. \A i \in DOMAIN old : new[i] = old[i] \/ new[i] = [old[i] EXCEPT !.version = v]
    OBVIOUS
  <2> HIDE DEF new
  <2> QED  BY ONLY <2>1, <2>2, <2>3
<1>6. new \in Seq([pid : PmtPids, version : Nat])
  <2>1. Len(old) \in Nat /\ DOMAIN old = 1 .. Len(old)
    BY <1>2
  <2>2. new \in [1 .. Len(old) -> [pid : PmtPids, version : Nat]]
    BY <1>5, <2>1
  <2> DEFINE R == [pid : PmtPids, version : Nat]
             m == Len(old)
  <2>3. m \in Nat /\ new \in [1 .. m -> R]
    BY <2>1, <2>2
  <2> HIDE DEF new, R, m
  <2>4. new \in Seq(R)
    BY ONLY <2>3
  <2> QED  BY <2>4 DEF R
<1> HIDE DEF new, marks, L
<1>7. t \in Splitters
  BY <1>1, <1>4, <1>6 DEF Splitters
<1>8. /\ t.section_remain = [s.section_remain EXCEPT ![p] = L] /\ t.pids = marks
      /\ t.whole = s.whole /\ t.packet_seq = s.packet_seq /\ t.seen = s.seen
      /\ t.over = s.over /\ Same(s, t)
  BY DEF Splitters, Same
<1> HIDE DEF t
<1>9. Opened(s, t, p, v, mark)
  BY <1>7, <1>8 DEF Opened, L, marks, own
<1> QED  BY <1>3, <1>9

\* AnalyzePmt keeps the selection and the marks of the PMTs, and the splitter clean.
LEMMA PmtKeeps ==
  ASSUME NEW s \in Splitters, NEW pk \in PmtPackets, NEW mark \in 1 .. 2
  PROVE  LET a == AnalyzePmt(s, pk, mark) IN
         /\ a.sp \in Splitters /\ Same(s, a.sp)
         /\ \A p \in PmtPids : a.sp.pids[p] = s.pids[p]
         /\ s.pmt_pids[pk.pid] # 0 /\ Clean(s) => Clean(a.sp)
         /\ a.result \in {"error", "continue", "success"}
<1> DEFINE p == pk.pid
           v == pk.version
           own == {Pmt[p][v].pcr} \cup Pmt[p][v].ca
           t == Begun(s, p, v, mark)
           a == AnalyzePmt(s, pk, mark)
           Keeps(b) == /\ b.sp \in Splitters /\ Same(s, b.sp)
                       /\ \A q \in PmtPids : b.sp.pids[q] = s.pids[q]
                       /\ s.pmt_pids[p] # 0 /\ Clean(s) => Clean(b.sp)
                       /\ b.result \in {"error", "continue", "success"}
<1>1. /\ p \in PmtPids /\ v \in Nat /\ v \in DOMAIN Pmt[p]
      /\ \A n \in 0 .. Len(pk.cells) : Finds(pk, n)
  BY DEF PmtPackets
<1>2. PmtPids \cap (Streams(p, v) \cup Listed(p, v)) = {} /\ own \subseteq Streams(p, v)
  BY <1>1, Disjoint DEF Streams
<1>3. PmtPids \subseteq AllPids
  BY DEF AllPids
<1>4. /\ s.pids \in [AllPids -> 0 .. 2] /\ s.seen \in [PmtPids -> SUBSET Nat]
  BY DEF Splitters
\* The analysis of the cells, from a state in which only the PMT's own PIDs are marked
<1>5. ASSUME NEW u \in Splitters, Same(s, u), u.seen = s.seen, u.over = s.over,
             u.pids = s.pids \/ u.pids = Marked(s.pids, own, mark)
      PROVE  Keeps(AnalyzeEs(u, pk, mark))
  <2> DEFINE b == AnalyzeEs(u, pk, mark)
             n == Nall(u, pk)
             found == EsLoop(SubSeq(pk.cells, 1, n))
             into == Into(pk.cells, n)
             S == own \cup found
  <2>1. /\ b.sp \in Splitters /\ Same(u, b.sp)
        /\ b.sp.pids = Marked(u.pids, found, mark)
        /\ b.sp.seen = [u.seen EXCEPT ![p] = @ \cup {v}]
        /\ b.sp.over = [u.over EXCEPT ![p] = @ \/ into]
        /\ b.result \in {"continue", "success"}
    <3> HIDE DEF b
    <3>1. /\ b.sp \in Splitters /\ Same(u, b.sp) /\ Searched(u, b.sp, pk, mark)
          /\ b.result \in {"continue", "success"}
      BY EsKeeps DEF b
    <3> QED  BY <3>1 DEF Searched
  <2> HIDE DEF b
  <2>12. n \in 0 .. Len(pk.cells)
    BY NallType
  <2>13. /\ found \subseteq Listed(p, v)
         /\ Aligned(p, v) /\ ~into => found \subseteq Streams(p, v)
    <3> HIDE DEF n
    <3> QED  BY <1>1, <2>12 DEF Finds
  <2> HIDE DEF n, found, into
  <2>2. Same(s, b.sp)
    BY <1>5, <2>1 DEF Same
  <2>3. u.pids \in [AllPids -> 0 .. 2]
    BY <1>5 DEF Splitters
  <2>4. \A x \in AllPids : x \in S \/ b.sp.pids[x] = s.pids[x]
    <3>1. \A x \in AllPids : x \in found \/ b.sp.pids[x] = u.pids[x]
      BY <2>1, <2>3, MarkedType
    <3>2. \A x \in AllPids : x \in own \/ u.pids[x] = s.pids[x]
      BY <1>4, <1>5, MarkedType
    <3> QED  BY <3>1, <3>2
  <2>5. S \cap PmtPids = {}
    BY <1>2, <2>13
  <2>6. \A q \in PmtPids : b.sp.pids[q] = s.pids[q]
    BY <1>3, <2>4, <2>5
  <2>7. Aligned(p, v) /\ ~into => S \subseteq Streams(p, v)
    BY <1>2, <2>13
  <2>8. s.pmt_pids[p] # 0 => p \in Kept(s)
    BY <1>1 DEF Kept
  <2>9. /\ b.sp.seen = [s.seen EXCEPT ![p] = @ \cup {v}]
        /\ b.sp.over = [s.over EXCEPT ![p] = @ \/ into]
    BY <1>5, <2>1
  <2> HIDE DEF S, own, p, v
  <2>10. s.pmt_pids[p] # 0 /\ Clean(s) => Clean(b.sp)
    BY <1>1, <2>1, <2>2, <2>4, <2>7, <2>8, <2>9, MarksKeep
  <2>11. Keeps(b)
    BY <2>1, <2>2, <2>6, <2>10
  <2> QED  BY <2>11 DEF b
<1>6. CASE pk.start
  <2>1. /\ t \in Splitters /\ Same(s, t) /\ t.seen = s.seen /\ t.over = s.over
        /\ t.pids = Marked(s.pids, own, mark)
    <3> HIDE DEF p, v
    <3>1. Opened(s, t, p, v, mark)
      BY <1>1, BeginOpens
    <3> HIDE DEF t, own
    <3> QED  BY <3>1 DEF Opened, own
  <2>2. a = AnalyzeEs(t, pk, mark)
    BY <1>6 DEF AnalyzePmt, Begun
  <2> HIDE DEF t, a, Keeps
  <2>3. Keeps(a)
    BY <1>5, <2>1, <2>2
  <2> QED  BY <2>3 DEF Keeps, a
<1>7. CASE ~pk.start /\ a # AnalyzeEs(s, pk, mark)
  <2>1. a = [sp |-> s, result |-> "error"]
    BY <1>7 DEF AnalyzePmt
  <2> HIDE DEF a
  <2>2. Keeps(a)
    BY <2>1 DEF Same
  <2> QED  BY <2>2 DEF a
<1>8. CASE a = AnalyzeEs(s, pk, mark)
  <2>1. Same(s, s)
    BY DEF Same
  <2> HIDE DEF a, Keeps
  <2>2. Keeps(a)
    BY <1>5, <1>8, <2>1
  <2> QED  BY <2>2 DEF Keeps, a
<1> QED  BY <1>6, <1>7, <1>8

-----------------------------------------------------------------------------
(* Selection *)

\* The list of words is a sequence.
LEMMA ListType ==
  ASSUME NEW list \in Lists
  PROVE  list \in Seq(STRING)
<1>1. PICK words \in SidTexts : list = AnalyzeSid(words)
  BY DEF Lists
<1>2. words \in Seq(STRING) /\ words # <<>>
  BY SplitterAssumption
<1>3. list = words \/ list = Front(words)
  BY Zenon, <1>1 DEF AnalyzeSid
<1>4. Front(words) \in Seq(STRING)
  <2>1. Len(words) \in Nat /\ \A i \in 1 .. Len(words) - 1 : words[i] \in STRING
    BY <1>2
  <2>2. SubSeq(words, 1, Len(words) - 1) \in Seq(STRING)
    BY <2>1, SubSeqProperties
  <2> QED  BY <2>2 DEF Front
<1> QED  BY <1>2, <1>3, <1>4

\* The PAT names PMTs.
LEMMA PatType ==
  /\ Len(Pat) \in Nat /\ DOMAIN Pat = 1 .. Len(Pat)
  /\ \A k \in DOMAIN Pat : Pat[k].pid \in PmtPids
<1> DEFINE R == [sid : STRING, pid : PmtPids]
<1>1. Pat \in Seq(R)
  BY SplitterAssumption
<1>2. \A r \in R : r.pid \in PmtPids
  OBVIOUS
<1> HIDE DEF R
<1>3. Len(Pat) \in Nat /\ DOMAIN Pat = 1 .. Len(Pat)
  BY <1>1
<1> QED  BY <1>1, <1>2, <1>3

\* So the choice is a sequence of PMTs.
LEMMA ChosenType ==
  ASSUME NEW list \in Lists, NEW stack
  PROVE  Chosen(list, stack) \in Seq(PmtPids)
<1> DEFINE ss == [k \in DOMAIN Pat |->
                    [j \in 1 .. Cardinality(Hits(list, Pat[k], stack)) |-> Pat[k].pid]]
           n == Len(Pat)
           D == [i \in 1 .. n |-> Seq(PmtPids)]
<1>1. n \in Nat /\ DOMAIN Pat = 1 .. n
  BY PatType
<1>2. \A k \in 1 .. n : Pat[k].pid \in PmtPids
  BY PatType
<1>3. \A k \in 1 .. n : Cardinality(Hits(list, Pat[k], stack)) \in Nat
  <2>1. list \in Seq(STRING)
    BY ListType
  <2>2. DOMAIN list = 1 .. Len(list) /\ Len(list) \in Nat
    BY <2>1
  <2>3. IsFiniteSet(DOMAIN list)
    BY <2>2, FS_Interval
  <2>4. \A k \in 1 .. n : Hits(list, Pat[k], stack) \subseteq DOMAIN list
    BY DEF Hits, Turns
  <2> QED  BY <2>3, <2>4, FS_Subset, FS_CardinalityType
<1>4. \A k \in 1 .. n : ss[k] \in Seq(PmtPids)
  BY <1>1, <1>2, <1>3
<1>5. ss \in Seq(Seq(PmtPids)) /\ Len(ss) = n
  <2>1. ss \in [1 .. n -> Seq(PmtPids)]
    BY <1>1, <1>4
  <2> HIDE DEF ss
  <2> QED  BY <1>1, <2>1
<1>6. ByWords(list, stack) = FlattenSeq(ss)
  BY DEF ByWords
<1> HIDE DEF ss
<1>7. FlattenSeq(ss) \in Seq(PmtPids)
  <2>1. CASE n = 0
    <3>1. ss = <<>>
      BY <1>5, <2>1
    <3>2. FlattenSeq(ss) = ss
      BY <1>5, <2>1 DEF FlattenSeq
    <3>3. <<>> \in Seq(PmtPids)
      OBVIOUS
    <3> QED  BY ONLY <3>1, <3>2, <3>3
  <2>2. CASE n # 0
    <3>1. ss # <<>> /\ 1 \in 1 .. n /\ n \in 1 .. n
      BY <1>1, <1>5, <2>2
    <3>2. ss[1] \in D[1]
      BY <1>4, <3>1
    <3>3. \A i \in 2 .. Len(ss) : \A x \in D[i-1] : x \o ss[i] \in D[i]
      <4> SUFFICES ASSUME NEW i \in 2 .. n, NEW x \in D[i-1] PROVE x \o ss[i] \in D[i]
        BY <1>5
      <4>1. i \in 1 .. n /\ i - 1 \in 1 .. n
        BY <1>1
      <4>2. x \in Seq(PmtPids) /\ ss[i] \in Seq(PmtPids)
        BY <1>4, <4>1
      <4>3. x \o ss[i] \in Seq(PmtPids)
        BY <4>2, ConcatProperties
      <4> QED  BY <4>1, <4>3
    <3>4. FlattenSeq(ss) \in D[n]
      <4> HIDE DEF D
      <4> QED  BY <1>5, <3>1, <3>2, <3>3, Flatten
    <3> QED  BY <3>1, <3>4
  <2> QED  BY <2>1, <2>2
<1>8. Everything \in Seq(PmtPids)
  <2>1. Everything \in [1 .. n -> PmtPids]
    BY <1>1, <1>2 DEF Everything
  <2> QED  BY <1>1, <2>1
<1> QED  BY <1>6, <1>7, <1>8 DEF Chosen

\* While it selects: a PMT is marked 1 when its service is chosen, and 2 when it was read;
\* pmt_retain counts the choices, of which there may be two of one PMT.
Read(s) == {p \in PmtPids : s.pmt_pids[p] = 2}
SameMarks(s) == \A p \in PmtPids : s.pids[p] # 0 <=> s.pmt_pids[p] # 0
PatKnown(s) ==
  s.pat # NoPat => s.pat.pids = Kept(s) /\ s.pat.cc \in Cc .. (2 * Cc) - 1
Selecting(s) ==
  /\ s \in Splitters /\ s.pat_count = -1 /\ Clean(s) /\ SameMarks(s) /\ PatKnown(s)
  /\ s.pat = NoPat =>
       (\A p \in PmtPids : s.pmt_pids[p] = 0) /\ s.pmt_counter = 0 /\ s.pmt_retain = -1
  /\ s.pat # NoPat =>
       Cardinality(Kept(s)) <= s.pmt_retain /\ s.pmt_counter = Cardinality(Read(s))

\* The elements of a sequence are no more than its length.
LEMMA Elements ==
  ASSUME NEW S, NEW q \in Seq(S)
  PROVE  /\ IsFiniteSet(ToSet(q)) /\ Cardinality(ToSet(q)) <= Len(q)
         /\ ToSet(q) \subseteq S
<1>1. Len(q) \in Nat /\ DOMAIN q = 1 .. Len(q) /\ q \in [1 .. Len(q) -> S]
  OBVIOUS
<1>2. ToSet(q) \subseteq S
  BY <1>1 DEF ToSet
<1>3. q \in Surjection(1 .. Len(q), ToSet(q))
  BY <1>1 DEF ToSet, Surjection
<1>4. Cardinality(ToSet(q)) <= Len(q)
  BY <1>1, <1>3, FS_SurjCardinalityBound DEF ExistsSurjection
<1>5. IsFiniteSet(1 .. Len(q))
  BY <1>1, FS_Interval
<1>6. IsFiniteSet(ToSet(q))
  BY <1>3, <1>5, FS_Surjection
<1> QED  BY <1>2, <1>4, <1>6

\* No PMT has a PID of the EPG.
LEMMA PmtSets ==
  /\ PmtPids \subseteq AllPids
  /\ PmtPids \cap EpgPids = {} /\ PmtPids \cap EpgOneSegPids = {}
  /\ \A list : PmtPids \cap EpgOf(list) = {}
<1>1. PmtPids \subseteq AllPids
  BY DEF AllPids
<1>2. PmtPids \cap EpgPids = {} /\ PmtPids \cap EpgOneSegPids = {}
  BY SplitterAssumption
<1>3. \A list : EpgOf(list) \subseteq EpgPids \cup EpgOneSegPids
  BY DEF EpgOf
<1> QED  BY <1>1, <1>2, <1>3

\* AnalyzePat begins the count: as many to read as words chose, none of them read.
LEMMA PatKeeps ==
  ASSUME NEW s, Selecting(s), NEW count \in PatCounts, NEW stack
  PROVE  Selecting(AnalyzePat(s, count, stack))
<1>1. CASE s.pat # NoPat
  BY <1>1 DEF AnalyzePat
<1>2. CASE s.pat = NoPat
  <2> DEFINE chosen == Chosen(s.sid_list, stack)
             set == ToSet(chosen)
             version == [i \in DOMAIN chosen |-> [pid |-> chosen[i], version |-> 0]]
             pmts == [p \in PmtPids |-> IF p \in set THEN 1 ELSE s.pmt_pids[p]]
             marks == Marked(s.pids, set \cup EpgOf(Tried(s.sid_list)), 1)
             pat == [cc |-> Cc + count, pids |-> set]
             t == [s EXCEPT !.pmt_retain = Len(chosen), !.pmt_version = version,
                            !.pmt_pids = pmts, !.pids = marks, !.pat = pat]
  <2>1. /\ s.sid_list \in Lists /\ s.pids \in [AllPids -> 0 .. 2]
        /\ s.pmt_pids \in [PmtPids -> 0 .. 2] /\ s.seen \in [PmtPids -> SUBSET Nat]
    BY DEF Selecting, Splitters
  <2>2. chosen \in Seq(PmtPids)
    BY <2>1, ChosenType
  <2>3. t = AnalyzePat(s, count, stack)
    BY <1>2 DEF AnalyzePat
  <2> HIDE DEF chosen
  <2>4. IsFiniteSet(set) /\ Cardinality(set) <= Len(chosen) /\ set \subseteq PmtPids
    BY <2>2, Elements
  <2>5. version \in Seq([pid : PmtPids, version : Nat])
    <3>1. Len(chosen) \in Nat /\ DOMAIN chosen = 1 .. Len(chosen)
          /\ \A i \in DOMAIN chosen : chosen[i] \in PmtPids
      BY <2>2
    <3>2. version \in [1 .. Len(chosen) -> [pid : PmtPids, version : Nat]]
      BY <3>1
    <3> QED  BY <3>1, <3>2
  <2>6. pmts \in [PmtPids -> 0 .. 2] /\ \A p \in PmtPids : pmts[p] = IF p \in set THEN 1 ELSE 0
    BY <1>2, <2>1 DEF Selecting
  <2>7. /\ marks \in [AllPids -> 0 .. 2]
        /\ \A x \in AllPids : marks[x] = IF x \in set \cup EpgOf(Tried(s.sid_list)) THEN 1
                                         ELSE s.pids[x]
    <3> HIDE DEF set
    <3> QED  BY <2>1, MarkedType
  <2>8. pat \in [cc : Int, pids : SUBSET PmtPids] /\ pat.cc \in Cc .. (2 * Cc) - 1 /\ pat # NoPat
    <3>1. Cc \in Nat \ {0} /\ count \in 0 .. Cc - 1
      BY SplitterAssumption
    <3>2. Cc + count \in Cc .. (2 * Cc) - 1 /\ Cc + count \in Int /\ Cc + count # -1
      BY <3>1
    <3>3. pat.cc = Cc + count /\ pat.pids = set
      OBVIOUS
    <3>4. NoPat.cc = -1
      BY DEF NoPat
    <3>5. pat \in [cc : Int, pids : SUBSET PmtPids]
      BY <2>4, <3>2
    <3> QED  BY <3>2, <3>3, <3>4, <3>5
  <2>9. Len(chosen) \in Int
    BY <2>2
  <2>10. pat.pids = set
    OBVIOUS
  <2> HIDE DEF pat, marks, pmts, version, set
  <2>11. /\ t \in Splitters /\ t.pat_count = -1 /\ t.pat = pat /\ t.pids = marks
         /\ t.pmt_pids = pmts /\ t.pmt_retain = Len(chosen) /\ t.pmt_counter = 0
         /\ t.sid_list = s.sid_list /\ t.seen = s.seen /\ t.over = s.over
    <3>1. t \in Splitters
      BY <2>5, <2>6, <2>7, <2>8, <2>9 DEF Selecting, Splitters
    <3> QED  BY <1>2, <3>1 DEF Selecting, Splitters
  <2> HIDE DEF t
  <2>12. Kept(t) = set /\ Read(t) = {}
    BY <2>4, <2>6, <2>11 DEF Kept, Read
  <2>13. SameMarks(t)
    <3>1. \A p \in PmtPids : s.pids[p] = 0
      BY <1>2, <2>1 DEF Selecting, SameMarks
    <3> QED  BY <2>4, <2>6, <2>7, <2>11, <3>1, PmtSets DEF SameMarks
  <2>14. Clean(t)
    <3>1. Kept(s) = {}
      BY <1>2 DEF Selecting, Kept
    <3>2. Passed(s) \subseteq EpgOf(ToSet(s.sid_list))
      BY <3>1 DEF Selecting, Clean, Tidy, Justified
    <3>3. Passed(t) \subseteq Passed(s) \cup set \cup EpgOf(Tried(s.sid_list))
      BY <2>7, <2>11 DEF Passed
    <3>4. Tried(s.sid_list) \subseteq ToSet(s.sid_list)
      BY DEF Tried, Turns, ToSet
    <3>5. EpgOf(Tried(s.sid_list)) \subseteq EpgOf(ToSet(s.sid_list))
      BY <3>4 DEF EpgOf
    <3>6. set \subseteq Justified(t) /\ EpgOf(ToSet(s.sid_list)) \subseteq Justified(t)
      BY <2>11, <2>12 DEF Justified
    <3> QED  BY <3>2, <3>3, <3>5, <3>6 DEF Clean
  <2>15. PatKnown(t)
    BY <2>8, <2>10, <2>11, <2>12 DEF PatKnown
  <2>16. Selecting(t)
    BY <2>4, <2>8, <2>11, <2>12, <2>13, <2>14, <2>15, FS_EmptySet DEF Selecting
  <2> QED  BY <2>3, <2>16
<1> QED  BY <1>1, <1>2

\* Marks and sets that only depend on what the analysis of a PMT leaves alone
LEMMA SameSets ==
  ASSUME NEW s, NEW t, Same(s, t)
  PROVE  Kept(t) = Kept(s) /\ Read(t) = Read(s) /\ (PatKnown(s) => PatKnown(t))
BY DEF Same, Kept, Read, PatKnown

\* The PMT that has been read is marked and counted.
LEMMA CountKeeps ==
  ASSUME NEW s, Selecting(s), NEW p \in PmtPids, s.pmt_pids[p] = 1
  PROVE  Selecting([s EXCEPT !.pmt_pids[p] = @ + 1, !.pmt_counter = @ + 1])
<1> DEFINE t == [s EXCEPT !.pmt_pids[p] = @ + 1, !.pmt_counter = @ + 1]
<1>1. s \in Splitters /\ s.pmt_pids \in [PmtPids -> 0 .. 2] /\ s.pmt_counter \in Nat
  BY DEF Selecting, Splitters
<1>2. /\ t.pmt_pids = [s.pmt_pids EXCEPT ![p] = 2] /\ t.pmt_counter = s.pmt_counter + 1
      /\ t.pids = s.pids /\ t.pat = s.pat /\ t.pat_count = s.pat_count
      /\ t.pmt_retain = s.pmt_retain /\ t.sid_list = s.sid_list /\ t.seen = s.seen
      /\ t.over = s.over
  BY <1>1 DEF Splitters
<1>3. t \in Splitters
  <2>1. [s.pmt_pids EXCEPT ![p] = @ + 1] \in [PmtPids -> 0 .. 2] /\ s.pmt_counter + 1 \in Nat
    BY <1>1
  <2> QED  BY <1>1, <2>1 DEF Splitters
<1> HIDE DEF t
<1>4. Kept(t) = Kept(s) /\ Read(t) = Read(s) \cup {p} /\ p \notin Read(s)
  BY <1>1, <1>2 DEF Kept, Read
<1>5. IsFiniteSet(Read(s))
  BY SplitterAssumption, FS_Subset DEF Read
<1>6. Cardinality(Read(t)) = Cardinality(Read(s)) + 1
  BY <1>4, <1>5, FS_AddElement
<1>7. SameMarks(t) /\ Clean(t) /\ PatKnown(t)
  <2>1. SameMarks(t)
    BY <1>1, <1>2 DEF SameMarks, Selecting
  <2>2. Passed(t) = Passed(s) /\ Justified(t) = Justified(s)
    BY <1>2, <1>4 DEF Passed, Justified
  <2>3. Clean(t)
    BY <1>2, <1>4, <2>2 DEF Clean, Tidy, Selecting
  <2>4. PatKnown(t)
    BY <1>2, <1>4 DEF PatKnown, Selecting
  <2> QED  BY <2>1, <2>3, <2>4
<1>8. s.pat # NoPat
  BY DEF Selecting
<1>9. Selecting(t)
  BY <1>2, <1>3, <1>4, <1>6, <1>7, <1>8 DEF Selecting
<1> QED  BY <1>9 DEF t

\* A PMT analysed while selecting changes nothing of the count.
LEMMA SelectAnalyzes ==
  ASSUME NEW s, Selecting(s), NEW pk \in PmtPackets, s.pmt_pids[pk.pid] # 0
  PROVE  Selecting(AnalyzePmt(s, pk, 1).sp) /\ Same(s, AnalyzePmt(s, pk, 1).sp)
<1> DEFINE t == AnalyzePmt(s, pk, 1).sp
<1>1. /\ t \in Splitters /\ Same(s, t) /\ \A p \in PmtPids : t.pids[p] = s.pids[p]
      /\ Clean(t)
  BY PmtKeeps DEF Selecting
<1> HIDE DEF t
<1>2. SameMarks(t)
  BY <1>1 DEF Selecting, SameMarks, Same
<1>3. Selecting(t)
  BY <1>1, <1>2, SameSets DEF Selecting, Same
<1> QED  BY <1>1, <1>3 DEF t

Scans(n) == {st \in [sp : Splitters, blk : Seq(Packets)] : Selecting(st.sp) /\ Len(st.blk) = n}

\* Packets by their PID
LEMMA PacketKinds ==
  ASSUME NEW pk \in Packets
  PROVE  /\ pk.pid \in PmtPids => pk \in PmtPackets
         /\ pk.pid = "0x00" => pk.count \in PatCounts
         /\ pk.pid \in AllPids
<1>1. /\ "0x00" \notin PmtPids /\ NullPid \notin PmtPids /\ Probes \cap PmtPids = {}
      /\ "0x00" \notin Probes
  BY SplitterAssumption
<1>2. pk \in PmtPackets \/ pk \in [pid : {"0x00"}, count : PatCounts] \/ pk \in [pid : Probes \cup {NullPid}]
  BY DEF Packets
<1>3. pk \in PmtPackets => pk.pid \in PmtPids
  BY DEF PmtPackets
<1>4. pk \in [pid : {"0x00"}, count : PatCounts] => pk.pid = "0x00" /\ pk.count \in PatCounts
  OBVIOUS
<1>5. pk \in [pid : Probes \cup {NullPid}] => pk.pid \in Probes \cup {NullPid}
  OBVIOUS
<1>6. NullPid # "0x00"
  BY DEF NullPid
<1> QED  BY <1>1, <1>2, <1>3, <1>4, <1>5, <1>6 DEF AllPids

\* So every packet examined keeps the selection consistent, and the block's length.
LEMMA ExamineKeeps ==
  ASSUME NEW n \in Nat, NEW st \in Scans(n), NEW i \in 1 .. n, NEW stack
  PROVE  Examine(st, i, stack) \in Scans(n)
<1>1. \A u \in Scans(n) :
        /\ u = [sp |-> u.sp, blk |-> u.blk] /\ u.sp \in Splitters /\ Selecting(u.sp)
        /\ u.blk \in Seq(Packets) /\ Len(u.blk) = n /\ i \in 1 .. Len(u.blk)
        /\ u.blk[i] \in Packets
  <2> SUFFICES ASSUME NEW u \in Scans(n)
               PROVE  /\ u = [sp |-> u.sp, blk |-> u.blk] /\ u.sp \in Splitters /\ Selecting(u.sp)
                      /\ u.blk \in Seq(Packets) /\ Len(u.blk) = n /\ i \in 1 .. Len(u.blk)
                      /\ u.blk[i] \in Packets
    OBVIOUS
  <2>1. /\ u = [sp |-> u.sp, blk |-> u.blk] /\ u.sp \in Splitters /\ Selecting(u.sp)
        /\ u.blk \in Seq(Packets) /\ Len(u.blk) = n
    BY DEF Scans
  <2> QED  BY <2>1, ElementOfSeq
<1>2. \A s, blk : Selecting(s) /\ blk \in Seq(Packets) /\ Len(blk) = n =>
        [sp |-> s, blk |-> blk] \in Scans(n)
  BY DEF Scans, Selecting
<1> DEFINE u == ExaminePat(st, i, stack)
<1>3. u \in Scans(n)
  <2>1. CASE st.blk[i].pid = "0x00"
    <3>1. st.blk[i].count \in PatCounts
      BY <1>1, <2>1, PacketKinds
    <3>2. u = [sp |-> AnalyzePat(st.sp, st.blk[i].count, stack), blk |-> st.blk]
      BY <1>1, <2>1 DEF ExaminePat
    <3>3. Selecting(AnalyzePat(st.sp, st.blk[i].count, stack))
      BY <1>1, <3>1, PatKeeps
    <3> QED  BY <1>1, <1>2, <3>2, <3>3
  <2>2. CASE st.blk[i].pid # "0x00"
    BY <2>2 DEF ExaminePat
  <2> QED  BY <2>1, <2>2
<1> HIDE DEF u
<1>4. ExaminePmt(u, i) \in Scans(n)
  <2> DEFINE pk == u.blk[i]
             a == AnalyzePmt(u.sp, pk, 1)
  <2>1. CASE ~(pk.pid \in PmtPids /\ u.sp.pmt_pids[pk.pid] = 1)
    BY <1>3, <2>1 DEF ExaminePmt
  <2>2. CASE pk.pid \in PmtPids /\ u.sp.pmt_pids[pk.pid] = 1
    <3>1. pk \in PmtPackets
      BY <1>1, <1>3, <2>2, PacketKinds
    <3>2. Selecting(a.sp) /\ Same(u.sp, a.sp)
      BY <1>1, <1>3, <2>2, <3>1, SelectAnalyzes
    <3>3. ExaminePmt(u, i) = TakeOut(u, i, a)
      BY <2>2 DEF ExaminePmt
    <3> HIDE DEF a
    <3>4. CASE a.result # "success"
      <4>1. TakeOut(u, i, a) = [sp |-> a.sp, blk |-> u.blk]
        BY <1>1, <1>3, <3>4 DEF TakeOut
      <4> QED  BY <1>1, <1>2, <1>3, <3>2, <3>3, <4>1
    <3>5. CASE a.result = "success"
      <4> DEFINE t == [a.sp EXCEPT !.pmt_pids[pk.pid] = @ + 1, !.pmt_counter = @ + 1]
                 blk == [u.blk EXCEPT ![i] = [pid |-> NullPid]]
      <4>1. TakeOut(u, i, a) = [sp |-> t, blk |-> blk]
        <5>1. TakeOut(u, i, a) = [u EXCEPT !.sp = t, !.blk[i] = [pid |-> NullPid]]
          BY <3>5 DEF TakeOut
        <5> HIDE DEF t
        <5>2. u = [sp |-> u.sp, blk |-> u.blk]
          BY <1>1, <1>3
        <5> QED  BY <5>1, <5>2
      <4>2. Selecting(t)
        BY <2>2, <3>2, CountKeeps DEF Same
      <4>3. [pid |-> NullPid] \in Packets
        BY DEF Packets
      <4>4. blk \in Seq(Packets) /\ Len(blk) = n
        BY <1>1, <1>3, <4>3, ExceptSeq
      <4> HIDE DEF t, blk
      <4> QED  BY <1>2, <3>3, <4>1, <4>2, <4>4
    <3> QED  BY <3>4, <3>5
  <2> QED  BY <2>1, <2>2
<1> QED  BY <1>4 DEF Examine, u

\* split_select keeps the selection consistent.
LEMMA SelectKeeps ==
  ASSUME NEW s, Selecting(s), NEW blk \in Seq(Packets), blk # <<>>, NEW stack
  PROVE  LET r == ReadTs(s, blk, stack) IN
         Selecting(r.sp) /\ r.blk \in Seq(Packets)
<1> DEFINE n == Len(blk)
<1>1. n \in Nat
  OBVIOUS
<1>2. [sp |-> s, blk |-> blk] \in Scans(n)
  BY DEF Scans, Selecting
<1>3. \A st \in Scans(n) : \A i \in 1 .. Len(blk) - 1 :
        ~Complete(st.sp) => Examine(st, i, stack) \in Scans(n)
  <2>1. \A i \in 1 .. Len(blk) - 1 : i \in 1 .. n
    BY <1>1
  <2> QED  BY <1>1, <2>1, ExamineKeeps
<1> HIDE DEF n
<1>4. ReadTs(s, blk, stack) \in Scans(n)
  BY <1>2, <1>3, SplitSelect
<1> QED  BY <1>4 DEF Scans

-----------------------------------------------------------------------------
(* Splitting *)

\* The PAT's flag bits and counter
PatNumbers == Cc .. (2 * Cc) - 1
Counted(s) ==
  /\ s \in Splitters /\ s.pat_count \in {-1} \cup PatNumbers
  /\ s.pat # NoPat => s.pat.cc \in PatNumbers
\* Every chosen PMT is marked 2, so that the end of a rescan leaves its PID marked.
Splitting(s) ==
  /\ Counted(s) /\ Clean(s) /\ SameMarks(s)
  /\ s.pat # NoPat /\ s.pat.pids = Kept(s) /\ Read(s) = Kept(s)
  /\ ~Complete(s) => \A p \in PmtPids : s.pids[p] = s.pmt_pids[p]

\* A complete selection has read every chosen PMT.
LEMMA CompleteSplits ==
  ASSUME NEW s, Selecting(s), Complete(s)
  PROVE  Splitting(s)
<1>1. s.pat # NoPat
  <2>1. s.pat = NoPat => s.pmt_counter = 0 /\ s.pmt_retain = -1
    BY DEF Selecting
  <2> QED  BY <2>1 DEF Complete
<1>2. Cardinality(Kept(s)) <= Cardinality(Read(s))
  BY <1>1 DEF Selecting, Complete
<1>3. IsFiniteSet(Kept(s)) /\ IsFiniteSet(Read(s))
  BY SplitterAssumption, FS_Subset DEF Kept, Read
<1>4. Read(s) \subseteq Kept(s)
  BY DEF Read, Kept
<1>5. Read(s) = Kept(s)
  <2>1. Cardinality(Read(s)) <= Cardinality(Kept(s))
    BY <1>3, <1>4, FS_Subset
  <2>2. Cardinality(Read(s)) \in Nat /\ Cardinality(Kept(s)) \in Nat
    BY <1>3, FS_CardinalityType
  <2>3. Cardinality(Read(s)) = Cardinality(Kept(s))
    BY <1>2, <2>1, <2>2
  <2> QED  BY <1>3, <1>4, <2>3, FS_Subset
<1>6. Counted(s)
  BY DEF Selecting, Counted, PatKnown, PatNumbers
<1> QED  BY <1>1, <1>5, <1>6 DEF Selecting, Splitting, PatKnown

\* While it selects, pat_count has not begun.
LEMMA SelectCounts ==
  ASSUME NEW s, Selecting(s)
  PROVE  Counted(s)
BY DEF Selecting, Counted, PatKnown, PatNumbers

\* The four parts of a rescan
Still(s, t) ==
  /\ t.pmt_pids = s.pmt_pids /\ t.pat = s.pat /\ t.pat_count = s.pat_count
  /\ t.sid_list = s.sid_list /\ t.pmt_retain = s.pmt_retain
Twos(s) == \A p \in PmtPids : s.pids[p] = s.pmt_pids[p]

\* A clear leaves the marks of the PMTs alone.
LEMMA ClearKeeps ==
  ASSUME NEW s \in Splitters
  PROVE  Clear(s) \in Splitters /\ Still(s, Clear(s)) /\ Clean(Clear(s)) /\ Twos(Clear(s))
<1> DEFINE none == [p \in PmtPids |-> 0]
           empty == [p \in PmtPids |-> {}]
           never == [p \in PmtPids |-> FALSE]
           t == [s EXCEPT !.pids = OnlyPmts(s), !.pmt_counter = 0, !.section_remain = none,
                          !.packet_seq = none, !.whole = none, !.seen = empty, !.over = never]
<1>1. Clear(s) = t
  BY DEF Clear, ClearTo
<1>2. s.pmt_pids \in [PmtPids -> 0 .. 2]
  BY DEF Splitters
<1>3. /\ OnlyPmts(s) \in [AllPids -> 0 .. 2]
      /\ \A x \in AllPids : OnlyPmts(s)[x] = IF x \in PmtPids THEN s.pmt_pids[x] ELSE 0
  BY <1>2 DEF OnlyPmts
<1>4. /\ none \in [PmtPids -> Nat] /\ empty \in [PmtPids -> SUBSET Nat]
      /\ never \in [PmtPids -> BOOLEAN]
  OBVIOUS
<1> HIDE DEF none, empty, never
<1>5. t \in Splitters /\ Still(s, t) /\ t.pids = OnlyPmts(s)
  BY <1>3, <1>4 DEF Splitters, Still
<1> HIDE DEF t
<1>6. Twos(t)
  BY <1>3, <1>5, PmtSets DEF Twos, Still
<1>7. Clean(t)
  <2>1. Passed(t) \subseteq Kept(t)
    BY <1>3, <1>5 DEF Passed, Kept, Still
  <2> QED  BY <2>1 DEF Clean, Justified
<1> QED  BY <1>1, <1>5, <1>6, <1>7

\* The end of a pass lowers every mark: a PMT marked 2 stays marked, and only the EPG is added.
LEMMA FinishKeeps ==
  ASSUME NEW s \in Splitters
  PROVE  LET t == Finish(s) IN
         /\ t \in Splitters /\ Still(s, t)
         /\ Clean(s) => Clean(t)
         /\ Twos(s) => /\ ~Complete(t) => Twos(t)
                       /\ Read(s) = Kept(s) => SameMarks(t)
<1> DEFINE t == Finish(s)
           less == [x \in AllPids |-> IF s.pids[x] > 0 THEN s.pids[x] - 1 ELSE 0]
           epg == IF "epg" \in ToSet(s.sid_list) THEN EpgPids ELSE {}
           marks == Marked(less, epg, 1)
<1>1. s.pids \in [AllPids -> 0 .. 2] /\ s.pmt_pids \in [PmtPids -> 0 .. 2]
  BY DEF Splitters
<1>2. CASE ~Complete(s)
  <2>1. t = s
    BY <1>2 DEF Finish
  <2>2. Twos(s) => SameMarks(s)
    BY DEF SameMarks, Twos
  <2> HIDE DEF t
  <2>3. /\ t \in Splitters /\ Still(s, t)
        /\ Clean(s) => Clean(t)
        /\ Twos(s) => /\ ~Complete(t) => Twos(t)
                      /\ Read(s) = Kept(s) => SameMarks(t)
    BY <2>1, <2>2 DEF Still
  <2> QED  BY <2>3 DEF t
<1>3. CASE Complete(s)
  <2>1. /\ less \in [AllPids -> 0 .. 2]
        /\ \A x \in AllPids : less[x] # 0 <=> s.pids[x] = 2
    <3>1. \A x \in AllPids : s.pids[x] \in 0 .. 2
      BY <1>1
    <3>2. \A x \in AllPids : less[x] = IF s.pids[x] > 0 THEN s.pids[x] - 1 ELSE 0
      OBVIOUS
    <3>3. \A x \in AllPids : less[x] \in 0 .. 2
      BY <3>1
    <3>4. less \in [AllPids -> 0 .. 2]
      BY <3>3
    <3> HIDE DEF less
    <3> QED  BY <3>1, <3>2, <3>4
  <2>2. epg \subseteq EpgOf(ToSet(s.sid_list)) /\ epg \cap PmtPids = {}
    BY PmtSets DEF EpgOf
  <2> HIDE DEF less, epg
  <2>3. /\ marks \in [AllPids -> 0 .. 2]
        /\ \A x \in AllPids : marks[x] = IF x \in epg THEN 1 ELSE less[x]
    BY <2>1, MarkedType
  <2>4. t = [s EXCEPT !.pids = marks]
    <3> DEFINE u == [s EXCEPT !.pids = [x \in AllPids |-> IF @[x] > 0 THEN @[x] - 1 ELSE 0]]
    <3>1. u.pids = less /\ u.sid_list = s.sid_list
      BY DEF less, Splitters
    <3>2. u = [s EXCEPT !.pids = less]
      BY DEF less
    <3>3. t = addEpgPids(u)
      BY <1>3 DEF Finish
    <3> HIDE DEF u, t
    <3>4. t = [u EXCEPT !.pids = marks]
      BY <3>1, <3>3 DEF addEpgPids, epg, Splitters
    <3> HIDE DEF marks
    <3> QED  BY <3>2, <3>4 DEF Splitters
  <2> HIDE DEF marks, t
  <2>5. t \in Splitters /\ Still(s, t) /\ t.pids = marks /\ t.seen = s.seen
        /\ t.over = s.over /\ t.pmt_counter = s.pmt_counter
    BY <2>3, <2>4 DEF Splitters, Still
  <2>6. Complete(t)
    BY <1>3, <2>5 DEF Complete, Still
  <2>7. Kept(t) = Kept(s)
    BY <2>5 DEF Kept, Still
  <2>8. Clean(s) => Clean(t)
    <3>1. Passed(t) \subseteq Passed(s) \cup EpgOf(ToSet(s.sid_list))
      BY <2>1, <2>2, <2>3, <2>5 DEF Passed
    <3>2. Justified(t) = Justified(s) /\ EpgOf(ToSet(s.sid_list)) \subseteq Justified(s)
      BY <2>5, <2>7 DEF Justified, Still
    <3> QED  BY <2>5, <2>7, <3>1, <3>2 DEF Clean, Tidy
  <2>9. Twos(s) /\ Read(s) = Kept(s) => SameMarks(t)
    <3> SUFFICES ASSUME Twos(s), Read(s) = Kept(s), NEW p \in PmtPids
                 PROVE  t.pids[p] # 0 <=> t.pmt_pids[p] # 0
      BY DEF SameMarks
    <3>1. p \in AllPids /\ p \notin epg
      BY <2>2, PmtSets
    <3>2. t.pids[p] # 0 <=> s.pids[p] = 2
      BY <2>1, <2>3, <2>5, <3>1
    <3>3. s.pmt_pids[p] # 0 <=> s.pmt_pids[p] = 2
      BY DEF Read, Kept
    <3> QED  BY <2>5, <3>2, <3>3 DEF Twos, Still
  <2>10. /\ t \in Splitters /\ Still(s, t)
         /\ Clean(s) => Clean(t)
         /\ Twos(s) => /\ ~Complete(t) => Twos(t)
                       /\ Read(s) = Kept(s) => SameMarks(t)
    BY <2>5, <2>6, <2>8, <2>9
  <2> QED  BY <2>10 DEF t
<1> QED  BY <1>2, <1>3

\* So a rescan keeps the splitter splitting.
LEMMA RescanKeeps ==
  ASSUME NEW s \in Splitters, NEW pk \in PmtPackets
  PROVE  LET t == RescanPID(s, pk) IN
         /\ t \in Splitters /\ Still(s, t)
         /\ (s.pmt_pids[pk.pid] # 0 /\ Splitting(s)) => Splitting(t)
<1> DEFINE r == IF Complete(s) THEN Clear(s) ELSE s
           a == AnalyzePmt(r, pk, 2)
           c == Count(a)
           t == Finish(c)
<1>1. r \in Splitters /\ Still(s, r)
  BY ClearKeeps DEF Still
<1>2. Splitting(s) => Twos(r) /\ Clean(r)
  BY ClearKeeps DEF Splitting, Twos
<1>3. t = RescanPID(s, pk)
  BY DEF RescanPID, Rescan
<1> HIDE DEF r
<1>4. /\ a.sp \in Splitters /\ Same(r, a.sp) /\ \A p \in PmtPids : a.sp.pids[p] = r.pids[p]
      /\ r.pmt_pids[pk.pid] # 0 /\ Clean(r) => Clean(a.sp)
  BY <1>1, PmtKeeps
<1> HIDE DEF a
<1>5. /\ c \in Splitters /\ Still(a.sp, c) /\ c.pids = a.sp.pids /\ c.seen = a.sp.seen
      /\ c.over = a.sp.over
  <2>1. c = a.sp \/ c = [a.sp EXCEPT !.pmt_counter = @ + 1]
    BY DEF Count
  <2>2. a.sp.pmt_counter + 1 \in Nat
    BY <1>4 DEF Splitters
  <2> HIDE DEF c
  <2> QED  BY <1>4, <2>1, <2>2 DEF Splitters, Still
<1> HIDE DEF c
<1>6. Still(s, c)
  BY <1>1, <1>4, <1>5 DEF Still, Same
<1>7. Twos(r) => Twos(c)
  BY <1>4, <1>5 DEF Twos, Still, Same
<1>8. s.pmt_pids[pk.pid] # 0 /\ Clean(r) => Clean(c)
  <2>1. Passed(c) = Passed(a.sp) /\ Kept(c) = Kept(a.sp) /\ Justified(c) = Justified(a.sp)
    BY <1>5 DEF Passed, Kept, Justified, Still
  <2> QED  BY <1>1, <1>4, <1>5, <2>1 DEF Clean, Tidy, Still
<1>9. t \in Splitters /\ Still(c, t)
  BY <1>5, FinishKeeps
<1>10. ASSUME s.pmt_pids[pk.pid] # 0, Splitting(s) PROVE Splitting(t)
  <2>1. Twos(c) /\ Clean(c)
    BY <1>2, <1>7, <1>8, <1>10
  <2>2. Kept(c) = Kept(s) /\ Read(c) = Kept(c)
    BY <1>6, <1>10 DEF Kept, Read, Still, Splitting
  <2>3. (~Complete(t) => Twos(t)) /\ Clean(t) /\ SameMarks(t)
    BY <1>5, <2>1, <2>2, FinishKeeps
  <2> HIDE DEF t
  <2>4. Still(s, t)
    BY <1>6, <1>9 DEF Still
  <2>5. Kept(t) = Kept(s) /\ Read(t) = Read(s)
    BY <2>4 DEF Kept, Read, Still
  <2>6. Splitting(t)
    BY <1>9, <1>10, <2>3, <2>4, <2>5 DEF Splitting, Counted, Still, Twos
  <2> QED  BY <2>6 DEF t
<1> HIDE DEF t
<1>11. t \in Splitters /\ Still(s, t) /\ (s.pmt_pids[pk.pid] # 0 /\ Splitting(s) => Splitting(t))
  BY <1>6, <1>9, <1>10 DEF Still
<1> QED  BY <1>3, <1>11

\* With or without a rescan.
LEMMA FilterPmtKeeps ==
  ASSUME NEW s \in Splitters, NEW pk \in PmtPackets
  PROVE  LET t == FilterPmt(s, pk) IN
         /\ t \in Splitters /\ Still(s, t)
         /\ Splitting(s) => Splitting(t)
<1>1. CASE FilterPmt(s, pk) = s
  BY <1>1 DEF Still
<1>2. CASE FilterPmt(s, pk) # s
  <2>1. FilterPmt(s, pk) = RescanPID(s, pk) /\ s.pmt_pids[pk.pid] # 0
    BY <1>2 DEF FilterPmt
  <2> QED  BY <2>1, RescanKeeps
<1> QED  BY <1>1, <1>2

\* The counter of a PAT: it follows the one before, and the flag bits stay.
LEMMA NextFollows ==
  ASSUME NEW s, Counted(s), s.pat # NoPat
  PROVE  /\ NextCount(s) \in PatNumbers
         /\ s.pat_count # -1 => (NextCount(s) - s.pat_count) % Cc = 1
<1>1. Cc \in Nat \ {0, 1}
  BY SplitterAssumption
<1> DEFINE c == s.pat_count
<1>2. c \in {-1} \cup PatNumbers /\ s.pat.cc \in PatNumbers
  BY DEF Counted
<1>3. CASE c = -1
  BY <1>2, <1>3 DEF NextCount
<1>4. CASE c # -1
  <2>1. c \in Cc .. (2 * Cc) - 1
    BY <1>2, <1>4 DEF PatNumbers
  <2>2. NextCount(s) = IF (c + 1) % Cc = 0 THEN c + 1 - Cc ELSE c + 1
    BY <1>4 DEF NextCount
  <2> HIDE DEF c
  <2>3. (c + 1) % Cc = 0 <=> c + 1 = 2 * Cc
    <3>1. CASE c + 1 = 2 * Cc
      <4>1. (2 * Cc) % Cc = 0
        BY <1>1
      <4> QED  BY <3>1, <4>1
    <3>2. CASE c + 1 # 2 * Cc
      <4> DEFINE d == c + 1 - Cc
      <4>1. d \in 1 .. Cc - 1 /\ c + 1 = Cc + d
        BY <1>1, <2>1, <3>2
      <4> HIDE DEF d
      <4>2. (Cc + d) % Cc = d
        BY <1>1, <4>1
      <4> QED  BY <3>2, <4>1, <4>2
    <3> QED  BY <3>1, <3>2
  <2>4. 1 % Cc = 1
    BY <1>1
  <2>5. (1 - Cc) % Cc = 1
    BY <1>1
  <2>6. CASE c + 1 = 2 * Cc
    <3>1. NextCount(s) = Cc
      <4>1. NextCount(s) = c + 1 - Cc
        BY <2>2, <2>3, <2>6
      <4>2. c + 1 - Cc = Cc
        BY <1>1, <2>1, <2>6
      <4> QED  BY <4>1, <4>2
    <3>2. NextCount(s) - c = 1 - Cc
      BY <1>1, <2>1, <2>6, <3>1
    <3> QED  BY <1>1, <2>5, <3>1, <3>2 DEF c, PatNumbers
  <2>7. CASE c + 1 # 2 * Cc
    <3>1. NextCount(s) = c + 1
      BY <2>2, <2>3, <2>7
    <3>2. NextCount(s) - c = 1 /\ NextCount(s) \in PatNumbers
      BY <1>1, <2>1, <2>7, <3>1 DEF PatNumbers
    <3> QED  BY <2>4, <3>2 DEF c
  <2> QED  BY <2>6, <2>7
<1> QED  BY <1>3, <1>4

\* What split_ts writes
Outs == Packets \cup [pid : {"0x00"}, count : PatNumbers, pids : SUBSET PmtPids]
Results == [sp : Splitters, out : Seq(Outs)]

\* A PAT changes the counters only.
LEMMA PatFilters ==
  ASSUME NEW s, Counted(s), s.pat # NoPat
  PROVE  LET n == NextCount(s)
             t == [s EXCEPT !.pat_count = n, !.pat.cc = n] IN
         /\ Counted(t) /\ t.pat # NoPat /\ t.pat_count = n
         /\ Splitting(s) => Splitting(t)
<1> DEFINE n == NextCount(s)
           t == [s EXCEPT !.pat_count = n, !.pat.cc = n]
<1>1. n \in PatNumbers
  BY NextFollows
<1>2. n \in Int /\ n # -1
  BY <1>1, SplitterAssumption DEF PatNumbers
<1> HIDE DEF n
<1>3. s \in Splitters /\ s.pat \in [cc : Int, pids : SUBSET PmtPids]
  BY DEF Counted, Splitters
<1> DEFINE pat == [s.pat EXCEPT !.cc = n]
<1>4. pat \in [cc : Int, pids : SUBSET PmtPids] /\ pat.cc = n /\ pat.pids = s.pat.pids
  BY <1>2, <1>3
<1>5. t = [s EXCEPT !.pat_count = n, !.pat = pat]
  OBVIOUS
<1> HIDE DEF pat, t
<1>6. /\ t \in Splitters /\ t.pat = pat /\ t.pat_count = n
      /\ t.pids = s.pids /\ t.pmt_pids = s.pmt_pids /\ t.sid_list = s.sid_list
      /\ t.seen = s.seen /\ t.over = s.over
      /\ t.pmt_counter = s.pmt_counter /\ t.pmt_retain = s.pmt_retain
  BY <1>2, <1>3, <1>4, <1>5 DEF Splitters
<1>7. t.pat # NoPat
  BY <1>2, <1>4, <1>6 DEF NoPat
<1>8. Counted(t)
  BY <1>1, <1>4, <1>6 DEF Counted
<1>9. Splitting(s) => Splitting(t)
  BY <1>4, <1>6, <1>7, <1>8
     DEF Splitting, Clean, Tidy, Passed, Justified, Kept, Read, SameMarks, Complete
<1> QED  BY <1>6, <1>7, <1>8, <1>9 DEF t, n

\* A packet goes as it came or is left out, and only a PAT is written for a PAT.
LEMMA FilterKeeps ==
  ASSUME NEW st \in Results, NEW pk \in Packets, Counted(st.sp),
         pk.pid = "0x00" => st.sp.pat # NoPat
  PROVE  LET f == Filter(st, pk) IN
         /\ f \in Results /\ Counted(f.sp) /\ (f.sp.pat = NoPat <=> st.sp.pat = NoPat)
         /\ Splitting(st.sp) => Splitting(f.sp)
         /\ IF pk.pid = "0x00"
            THEN /\ f.sp.pat_count = NextCount(st.sp)
                 /\ \E q \in Outs : /\ f.out = Append(st.out, q)
                                    /\ q.pid = "0x00" /\ q.count = NextCount(st.sp)
            ELSE /\ f.sp.pat_count = st.sp.pat_count
                 /\ f.out = st.out \/ \E q \in Outs : f.out = Append(st.out, q) /\ q.pid # "0x00"
<1> DEFINE f == Filter(st, pk)
           s == st.sp
           Keeps(r) ==
             /\ r \in Results /\ Counted(r.sp) /\ (r.sp.pat = NoPat <=> s.pat = NoPat)
             /\ Splitting(s) => Splitting(r.sp)
             /\ IF pk.pid = "0x00"
                THEN /\ r.sp.pat_count = NextCount(s)
                     /\ \E q \in Outs : /\ r.out = Append(st.out, q)
                                        /\ q.pid = "0x00" /\ q.count = NextCount(s)
                ELSE /\ r.sp.pat_count = s.pat_count
                     /\ r.out = st.out \/ \E q \in Outs : r.out = Append(st.out, q) /\ q.pid # "0x00"
<1>1. st = [sp |-> s, out |-> st.out] /\ s \in Splitters /\ st.out \in Seq(Outs)
  BY DEF Results
<1>2. \A t \in Splitters : \A o \in Seq(Outs) : [sp |-> t, out |-> o] \in Results
  BY DEF Results
<1> HIDE DEF s
<1>3. CASE pk.pid = "0x00"
  <2> DEFINE n == NextCount(s)
             t == [s EXCEPT !.pat_count = n, !.pat.cc = n]
             q == [pid |-> "0x00", count |-> n, pids |-> s.pat.pids]
  <2>1. s.pat # NoPat /\ Counted(s)
    BY <1>3 DEF s
  <2>2. Counted(t) /\ t.pat # NoPat /\ t.pat_count = n /\ (Splitting(s) => Splitting(t))
    BY <2>1, PatFilters
  <2>3. n \in PatNumbers
    BY <2>1, NextFollows
  <2>4. s.pat.pids \in SUBSET PmtPids
    BY <1>1 DEF Splitters
  <2>5. f = [sp |-> t, out |-> Append(st.out, q)]
    <3>1. f = [st EXCEPT !.sp.pat_count = n, !.sp.pat.cc = n, !.out = Append(@, q)]
      BY <1>3 DEF Filter, FilterPat, s
    <3> HIDE DEF q, n, f
    <3>2. f = [[sp |-> s, out |-> st.out] EXCEPT !.sp.pat_count = n, !.sp.pat.cc = n, !.out = Append(@, q)]
      BY <1>1, <3>1
    <3> QED  BY <3>2
  <2> HIDE DEF n, t, f
  <2>6. q \in Outs /\ q.pid = "0x00" /\ q.count = n
    BY <2>3, <2>4 DEF Outs
  <2> HIDE DEF q
  <2>7. Append(st.out, q) \in Seq(Outs)
    BY <1>1, <2>6, AppendProperties
  <2>8. t \in Splitters
    BY <2>2 DEF Counted
  <2>9. Keeps(f)
    BY <1>2, <1>3, <2>1, <2>2, <2>5, <2>6, <2>7, <2>8 DEF n
  <2> QED  BY <2>9 DEF f, s
<1>4. CASE pk.pid # "0x00"
  <2> DEFINE t == IF pk.pid \in PmtPids THEN FilterPmt(s, pk) ELSE s
             o == IF t.pids[pk.pid] # 0 THEN Append(st.out, pk) ELSE st.out
  <2>1. f = [sp |-> t, out |-> o]
    BY <1>4 DEF Filter, Pass, s
  <2>2. t \in Splitters /\ Still(s, t) /\ (Splitting(s) => Splitting(t))
    <3>1. CASE pk.pid \in PmtPids
      <4>1. pk \in PmtPackets
        BY <3>1, PacketKinds
      <4> QED  BY <1>1, <3>1, <4>1, FilterPmtKeeps
    <3>2. CASE pk.pid \notin PmtPids
      BY <1>1, <3>2 DEF Still
    <3> QED  BY <3>1, <3>2
  <2> HIDE DEF t, f
  <2>3. pk \in Outs
    BY DEF Outs
  <2>4. o = st.out \/ o = Append(st.out, pk)
    OBVIOUS
  <2> HIDE DEF o
  <2>5. o \in Seq(Outs)
    BY <1>1, <2>3, <2>4, AppendProperties
  <2>6. Counted(t)
    BY <2>2 DEF Counted, Still, s
  <2>7. Keeps(f)
    BY <1>2, <1>4, <2>1, <2>2, <2>3, <2>4, <2>5, <2>6 DEF Still
  <2> QED  BY <2>7 DEF f, s
<1> QED  BY <1>3, <1>4

\* The state of a splitter that splits, block after block
LEMMA SplitKeeps ==
  ASSUME NEW s, Splitting(s), NEW blk \in Seq(Packets)
  PROVE  Splitting(split_ts(s, blk).sp)
<1> DEFINE D == {st \in Results : Splitting(st.sp)}
<1>1. [sp |-> s, out |-> <<>>] \in D
  BY DEF Splitting, Counted, Results
<1>2. \A st \in D : \A pk \in Packets : Filter(st, pk) \in D
  <2> SUFFICES ASSUME NEW st \in D, NEW pk \in Packets PROVE Filter(st, pk) \in D
    OBVIOUS
  <2>1. st \in Results /\ Splitting(st.sp) /\ Counted(st.sp) /\ st.sp.pat # NoPat
    BY DEF Splitting
  <2> QED  BY <2>1, FilterKeeps
<1> HIDE DEF D
<1>3. split_ts(s, blk) \in D
  BY <1>1, <1>2, SplitTs
<1> QED  BY <1>3 DEF D

-----------------------------------------------------------------------------
(* The counters of the PATs *)

\* The last PAT written: its place, if any
IsLast(packets, j) ==
  j \in PatsBefore(packets, Len(packets) + 1)
  /\ PatsBefore(packets, Len(packets) + 1) = PatsBefore(packets, j) \cup {j}
\* pat_count is the count of the last PAT written.
InStep(before, st) ==
  /\ PatsBefore(st.out, Len(st.out) + 1) = {} => st.sp.pat_count = before
  /\ \A j \in DOMAIN st.out : IsLast(st.out, j) => st.sp.pat_count = st.out[j].count

\* One more packet leaves the PATs before each place.
LEMMA PatsAppend ==
  ASSUME NEW o \in Seq(Outs), NEW q \in Outs
  PROVE  LET o2 == Append(o, q)
             n == Len(o) IN
         /\ o2 \in Seq(Outs) /\ n \in Nat /\ Len(o2) = n + 1
         /\ DOMAIN o = 1 .. n /\ DOMAIN o2 = 1 .. n + 1
         /\ o2[n + 1] = q /\ \A i \in 1 .. n : o2[i] = o[i]
         /\ \A i \in 1 .. n + 1 : PatsBefore(o2, i) = PatsBefore(o, i)
         /\ PatsBefore(o2, n + 2) =
              PatsBefore(o, n + 1) \cup (IF q.pid = "0x00" THEN {n + 1} ELSE {})
<1> DEFINE o2 == Append(o, q)
           n == Len(o)
<1>1. /\ o2 \in Seq(Outs) /\ n \in Nat /\ Len(o2) = n + 1
      /\ DOMAIN o = 1 .. n /\ DOMAIN o2 = 1 .. n + 1
      /\ o2[n + 1] = q /\ \A i \in 1 .. n : o2[i] = o[i]
  BY AppendProperties
<1> HIDE DEF o2, n
<1>2. \A i \in 1 .. n + 1 : PatsBefore(o2, i) = PatsBefore(o, i)
  <2> SUFFICES ASSUME NEW i \in 1 .. n + 1 PROVE PatsBefore(o2, i) = PatsBefore(o, i)
    OBVIOUS
  <2>1. \A j \in 1 .. i - 1 : j \in 1 .. n /\ o2[j] = o[j]
    BY <1>1
  <2> QED  BY <2>1 DEF PatsBefore
<1>3. PatsBefore(o2, n + 2) = PatsBefore(o, n + 1) \cup (IF q.pid = "0x00" THEN {n + 1} ELSE {})
  <2>1. \A j : j \in 1 .. (n + 2) - 1 <=> j \in 1 .. (n + 1) - 1 \/ j = n + 1
    BY <1>1
  <2>2. \A j \in 1 .. (n + 1) - 1 : o2[j] = o[j]
    BY <1>1
  <2> QED  BY <1>1, <2>1, <2>2 DEF PatsBefore
<1> QED  BY <1>1, <1>2, <1>3 DEF o2, n

\* A packet that is not a PAT leaves the counters in step.
LEMMA OtherInStep ==
  ASSUME NEW before, NEW st \in Results, NEW sp2 \in Splitters, NEW q \in Outs, q.pid # "0x00",
         Follow(before, st.out), InStep(before, st), sp2.pat_count = st.sp.pat_count
  PROVE  LET r == [sp |-> sp2, out |-> Append(st.out, q)] IN
         Follow(before, r.out) /\ InStep(before, r)
<1> DEFINE o == st.out
           o2 == Append(o, q)
           n == Len(o)
           r == [sp |-> sp2, out |-> o2]
<1>1. o \in Seq(Outs)
  BY DEF Results
<1>2. /\ n \in Nat /\ Len(o2) = n + 1
      /\ DOMAIN o = 1 .. n /\ DOMAIN o2 = 1 .. n + 1
      /\ o2[n + 1] = q /\ \A i \in 1 .. n : o2[i] = o[i]
      /\ \A i \in 1 .. n + 1 : PatsBefore(o2, i) = PatsBefore(o, i)
      /\ PatsBefore(o2, n + 2) = PatsBefore(o, n + 1)
  <2>1. /\ n \in Nat /\ Len(o2) = n + 1
        /\ DOMAIN o = 1 .. n /\ DOMAIN o2 = 1 .. n + 1
        /\ o2[n + 1] = q /\ \A i \in 1 .. n : o2[i] = o[i]
        /\ \A i \in 1 .. n + 1 : PatsBefore(o2, i) = PatsBefore(o, i)
    BY <1>1, PatsAppend
  <2>2. PatsBefore(o2, n + 2) = PatsBefore(o, n + 1) \cup (IF q.pid = "0x00" THEN {n + 1} ELSE {})
    BY <1>1, PatsAppend
  <2> HIDE DEF o2, n
  <2>3. PatsBefore(o2, n + 2) = PatsBefore(o, n + 1)
    BY <2>2
  <2> QED  BY <2>1, <2>3
<1>3. r.out = o2 /\ r.sp = sp2
  OBVIOUS
<1> HIDE DEF o2, r
<1>4. \A i \in DOMAIN o2 : o2[i].pid = "0x00" => i \in DOMAIN o
  BY <1>2
<1>5. Follow(before, o2)
  <2> SUFFICES ASSUME NEW i \in DOMAIN o2, o2[i].pid = "0x00"
               PROVE  /\ o2[i].count \in Cc .. (2 * Cc) - 1
                      /\ PatsBefore(o2, i) = {} /\ before # -1 => (o2[i].count - before) % Cc = 1
                      /\ \A j \in PatsBefore(o2, i) :
                           PatsBefore(o2, i) = PatsBefore(o2, j) \cup {j} =>
                             (o2[i].count - o2[j].count) % Cc = 1
    BY DEF Follow
  <2>1. i \in DOMAIN o /\ o2[i] = o[i] /\ PatsBefore(o2, i) = PatsBefore(o, i)
    BY <1>2, <1>4
  <2>2. \A j \in PatsBefore(o, i) : o2[j] = o[j] /\ PatsBefore(o2, j) = PatsBefore(o, j)
    <3>1. \A j \in PatsBefore(o, i) : j \in 1 .. n
      BY <1>2, <2>1 DEF PatsBefore
    <3> QED  BY <1>2, <3>1
  <2> QED  BY <2>1, <2>2 DEF Follow
<1>6. InStep(before, r)
  <2>1. PatsBefore(o2, Len(o2) + 1) = PatsBefore(o, Len(o) + 1)
    <3>1. Len(o2) + 1 = n + 2
      BY <1>2
    <3> QED  BY <1>2, <3>1
  <2>2. \A j \in DOMAIN o2 : IsLast(o2, j) =>
          j \in DOMAIN o /\ IsLast(o, j) /\ o2[j] = o[j]
    <3> SUFFICES ASSUME NEW j \in DOMAIN o2, IsLast(o2, j)
                 PROVE  j \in DOMAIN o /\ IsLast(o, j) /\ o2[j] = o[j]
      OBVIOUS
    <3>1. j \in 1 .. n
      BY <1>2, <2>1 DEF IsLast, PatsBefore
    <3> QED  BY <1>2, <2>1, <3>1 DEF IsLast
  <2> QED  BY <1>3, <2>1, <2>2 DEF InStep
<1> QED  BY <1>3, <1>5, <1>6 DEF r, o2

\* Nor does a PAT: its count follows pat_count, which is that of the last one.
LEMMA PatInStep ==
  ASSUME NEW before, NEW st \in Results, NEW sp2 \in Splitters, NEW q \in Outs, q.pid = "0x00",
         Counted(st.sp), st.sp.pat # NoPat, q.count = NextCount(st.sp), sp2.pat_count = q.count,
         Follow(before, st.out), InStep(before, st)
  PROVE  LET r == [sp |-> sp2, out |-> Append(st.out, q)] IN
         Follow(before, r.out) /\ InStep(before, r)
<1> DEFINE o == st.out
           o2 == Append(o, q)
           n == Len(o)
           r == [sp |-> sp2, out |-> o2]
           c == st.sp.pat_count
<1>1. o \in Seq(Outs)
  BY DEF Results
<1>2. /\ n \in Nat /\ Len(o2) = n + 1
      /\ DOMAIN o = 1 .. n /\ DOMAIN o2 = 1 .. n + 1
      /\ o2[n + 1] = q /\ \A i \in 1 .. n : o2[i] = o[i]
      /\ \A i \in 1 .. n + 1 : PatsBefore(o2, i) = PatsBefore(o, i)
      /\ PatsBefore(o2, n + 2) = PatsBefore(o, n + 1) \cup {n + 1}
  BY <1>1, PatsAppend
<1>3. r.out = o2 /\ r.sp = sp2
  OBVIOUS
<1>4. q.count \in Cc .. (2 * Cc) - 1 /\ (c # -1 => (q.count - c) % Cc = 1)
  BY NextFollows DEF PatNumbers
<1>5. Cc \in Nat
  BY SplitterAssumption
<1>6. /\ PatsBefore(o, n + 1) = {} => c = before
      /\ \A j \in DOMAIN o : IsLast(o, j) => c = o[j].count
  BY DEF InStep
<1> HIDE DEF o2, r, c
<1>7. Follow(before, o2)
  <2> SUFFICES ASSUME NEW i \in DOMAIN o2, o2[i].pid = "0x00"
               PROVE  /\ o2[i].count \in Cc .. (2 * Cc) - 1
                      /\ PatsBefore(o2, i) = {} /\ before # -1 => (o2[i].count - before) % Cc = 1
                      /\ \A j \in PatsBefore(o2, i) :
                           PatsBefore(o2, i) = PatsBefore(o2, j) \cup {j} =>
                             (o2[i].count - o2[j].count) % Cc = 1
    BY DEF Follow
  <2>1. PatsBefore(o2, i) = PatsBefore(o, i)
    BY <1>2
  <2>2. \A j \in PatsBefore(o, i) :
          j \in DOMAIN o /\ o2[j] = o[j] /\ PatsBefore(o2, j) = PatsBefore(o, j)
    <3>1. \A j \in PatsBefore(o, i) : j \in 1 .. n
      BY <1>2 DEF PatsBefore
    <3> QED  BY <1>2, <3>1
  <2>3. CASE i \in 1 .. n
    <3>1. i \in DOMAIN o /\ o2[i] = o[i]
      BY <1>2, <2>3
    <3> QED  BY <2>1, <2>2, <3>1 DEF Follow
  <2>4. CASE i = n + 1
    <3>1. o2[i] = q
      BY <1>2, <2>4
    <3>2. PatsBefore(o2, i) = {} /\ before # -1 => (q.count - before) % Cc = 1
      BY <1>4, <1>6, <2>1, <2>4
    <3>3. ASSUME NEW j \in PatsBefore(o2, i), PatsBefore(o2, i) = PatsBefore(o2, j) \cup {j}
          PROVE  (q.count - o2[j].count) % Cc = 1
      <4>1. j \in PatsBefore(o, n + 1) /\ j \in DOMAIN o /\ o2[j] = o[j]
            /\ PatsBefore(o, n + 1) = PatsBefore(o, j) \cup {j}
        BY <2>1, <2>2, <2>4, <3>3
      <4>2. IsLast(o, j)
        BY <4>1 DEF IsLast
      <4>3. c = o[j].count
        BY <1>6, <4>1, <4>2
      <4>4. o[j].count \in Cc .. (2 * Cc) - 1
        BY <4>1 DEF Follow, PatsBefore
      <4>5. c # -1
        BY <1>5, <4>3, <4>4
      <4> QED  BY <1>4, <4>1, <4>3, <4>5
    <3> QED  BY <1>4, <3>1, <3>2, <3>3
  <2> QED  BY <1>2, <2>3, <2>4
<1>8. InStep(before, r)
  <2>1. PatsBefore(o2, Len(o2) + 1) = PatsBefore(o, n + 1) \cup {n + 1}
    <3>1. Len(o2) + 1 = n + 2
      BY <1>2
    <3> QED  BY <1>2, <3>1
  <2>2. \A j \in DOMAIN o2 : IsLast(o2, j) => j = n + 1
    <3> SUFFICES ASSUME NEW j \in DOMAIN o2, IsLast(o2, j) PROVE j = n + 1
      OBVIOUS
    <3>1. n + 1 \in PatsBefore(o2, j) \cup {j}
      BY <2>1 DEF IsLast
    <3>2. n + 1 \in PatsBefore(o2, j) => n + 1 \in 1 .. j - 1
      BY DEF PatsBefore
    <3> QED  BY <1>2, <3>1, <3>2
  <2> QED  BY <1>2, <1>3, <2>1, <2>2 DEF InStep
<1> QED  BY <1>3, <1>7, <1>8 DEF r, o2

\* The PATs that split_ts writes for one block follow pat_count and each other.
LEMMA SplitCounts ==
  ASSUME NEW s, Counted(s), NEW blk \in Seq(Packets),
         s.pat = NoPat => \A i \in DOMAIN blk : blk[i].pid # "0x00"
  PROVE  Follow(s.pat_count, split_ts(s, blk).out)
<1> DEFINE before == s.pat_count
           P == {pk \in Packets : pk.pid = "0x00" => s.pat # NoPat}
           D == {st \in Results : /\ Counted(st.sp) /\ (st.sp.pat = NoPat <=> s.pat = NoPat)
                                  /\ Follow(before, st.out) /\ InStep(before, st)}
<1>1. blk \in Seq(P)
  <2>1. Len(blk) \in Nat /\ DOMAIN blk = 1 .. Len(blk) /\ blk \in [1 .. Len(blk) -> Packets]
    OBVIOUS
  <2>2. \A i \in 1 .. Len(blk) : blk[i] \in P
    BY <2>1
  <2>3. blk \in [1 .. Len(blk) -> P]
    BY <2>1, <2>2
  <2> HIDE DEF P
  <2> QED  BY <2>1, <2>3
<1>2. [sp |-> s, out |-> <<>>] \in D
  <2> DEFINE st == [sp |-> s, out |-> <<>>]
  <2>1. st.sp = s /\ st.out = <<>> /\ st \in Results /\ DOMAIN st.out = {}
    BY DEF Counted, Results
  <2> HIDE DEF st
  <2>2. Follow(before, st.out)
    BY <2>1 DEF Follow
  <2>3. InStep(before, st)
    BY <2>1 DEF InStep
  <2>4. st \in D
    BY <2>1, <2>2, <2>3
  <2> QED  BY <2>4 DEF st
<1>3. \A st \in D : \A pk \in P : Filter(st, pk) \in D
  <2> SUFFICES ASSUME NEW st \in D, NEW pk \in P PROVE Filter(st, pk) \in D
    OBVIOUS
  <2> DEFINE f == Filter(st, pk)
  <2>1. /\ st \in Results /\ Counted(st.sp) /\ (st.sp.pat = NoPat <=> s.pat = NoPat)
        /\ Follow(before, st.out) /\ InStep(before, st)
        /\ pk \in Packets /\ (pk.pid = "0x00" => st.sp.pat # NoPat)
    OBVIOUS
  <2>2. /\ f \in Results /\ Counted(f.sp) /\ (f.sp.pat = NoPat <=> st.sp.pat = NoPat)
        /\ IF pk.pid = "0x00"
           THEN /\ f.sp.pat_count = NextCount(st.sp)
                /\ \E q \in Outs : /\ f.out = Append(st.out, q)
                                   /\ q.pid = "0x00" /\ q.count = NextCount(st.sp)
           ELSE /\ f.sp.pat_count = st.sp.pat_count
                /\ f.out = st.out \/ \E q \in Outs : f.out = Append(st.out, q) /\ q.pid # "0x00"
    BY <2>1, FilterKeeps
  <2> HIDE DEF f, before, P
  <2>3. f = [sp |-> f.sp, out |-> f.out] /\ f.sp \in Splitters
    BY <2>2 DEF Results
  <2>4. Follow(before, f.out) /\ InStep(before, f)
    <3>1. CASE pk.pid = "0x00"
      <4>1. PICK q \in Outs : f.out = Append(st.out, q) /\ q.pid = "0x00" /\ q.count = NextCount(st.sp)
        BY <2>2, <3>1
      <4>2. f.sp.pat_count = q.count
        BY <2>2, <3>1, <4>1
      <4>3. LET r == [sp |-> f.sp, out |-> Append(st.out, q)] IN
            Follow(before, r.out) /\ InStep(before, r)
        BY ONLY <2>1, <2>3, <3>1, <4>1, <4>2, PatInStep
      <4> QED  BY <2>3, <4>1, <4>3
    <3>2. CASE pk.pid # "0x00" /\ f.out = st.out
      <4>1. f.sp.pat_count = st.sp.pat_count
        BY <2>2, <3>2
      <4> QED  BY <2>1, <3>2, <4>1 DEF InStep
    <3>3. CASE pk.pid # "0x00" /\ f.out # st.out
      <4>1. PICK q \in Outs : f.out = Append(st.out, q) /\ q.pid # "0x00"
        BY <2>2, <3>3
      <4>2. f.sp.pat_count = st.sp.pat_count
        BY <2>2, <3>3
      <4>3. LET r == [sp |-> f.sp, out |-> Append(st.out, q)] IN
            Follow(before, r.out) /\ InStep(before, r)
        BY ONLY <2>1, <2>3, <4>1, <4>2, OtherInStep
      <4> QED  BY <2>3, <4>1, <4>3
    <3> QED  BY <3>1, <3>2, <3>3
  <2>5. f \in D
    BY <2>1, <2>2, <2>4
  <2> QED  BY <2>5 DEF f
<1> HIDE DEF D, P
<1>4. split_ts(s, blk) \in D
  BY <1>1, <1>2, <1>3, SplitTs
<1> QED  BY <1>4 DEF D

-----------------------------------------------------------------------------
(* The invariant *)

IInv ==
  /\ Air /\ block \in Seq(Packets)
  /\ mode = "select" => Selecting(sp)
  /\ mode = "on" => Splitting(sp)

\* split_startup establishes the invariant.
LEMMA Starts ==
  ASSUME Init
  PROVE  IInv
<1>1. PICK words \in SidTexts : sp = split_startup(words)
  BY DEF Init
<1>2. Air
  <2>1. \A p \in PmtPids : 1 \in DOMAIN Pmt[p] /\ 1 \in 1 .. Parts(p, 1)
    <3> SUFFICES ASSUME NEW p \in PmtPids PROVE 1 \in DOMAIN Pmt[p] /\ 1 \in 1 .. Parts(p, 1)
      OBVIOUS
    <3>1. 1 \in DOMAIN Pmt[p]
      BY Versioned
    <3> QED  BY <3>1, PartsPositive
  <2> QED  BY <2>1 DEF Init, Air
<1>3. block \in Seq(Packets) /\ mode = "select"
  BY DEF Init
<1> DEFINE none == [x \in AllPids |-> 0]
           zero == [p \in PmtPids |-> 0]
           empty == [p \in PmtPids |-> {}]
           never == [p \in PmtPids |-> FALSE]
<1>4. /\ none \in [AllPids -> 0 .. 2] /\ zero \in [PmtPids -> 0 .. 2] /\ zero \in [PmtPids -> Nat]
      /\ empty \in [PmtPids -> SUBSET Nat] /\ never \in [PmtPids -> BOOLEAN]
      /\ (\A x \in AllPids : none[x] = 0) /\ \A p \in PmtPids : zero[p] = 0
  OBVIOUS
<1>5. sp = [pids |-> none, pmt_pids |-> zero, pat |-> NoPat, pat_count |-> -1,
            sid_list |-> AnalyzeSid(words), pmt_retain |-> -1, pmt_counter |-> 0,
            pmt_version |-> <<>>, section_remain |-> zero, packet_seq |-> zero,
            whole |-> zero, seen |-> empty, over |-> never]
  BY <1>1 DEF split_startup, Started
<1> HIDE DEF none, zero, empty, never
<1>6. AnalyzeSid(words) \in Lists
  BY DEF Lists
<1>7. NoPat \in [cc : Int, pids : SUBSET PmtPids]
  BY DEF NoPat
<1>8. <<>> \in Seq([pid : PmtPids, version : Nat])
  OBVIOUS
<1>9. sp \in Splitters
  BY <1>4, <1>5, <1>6, <1>7, <1>8 DEF Splitters
<1>10. /\ sp.pids = none /\ sp.pmt_pids = zero /\ sp.pat = NoPat /\ sp.pat_count = -1
       /\ sp.pmt_retain = -1 /\ sp.pmt_counter = 0
  BY <1>5
<1>11. Passed(sp) = {}
  BY <1>4, <1>10 DEF Passed
<1>12. Selecting(sp)
  BY <1>4, <1>9, <1>10, <1>11, PmtSets DEF Selecting, Clean, SameMarks, PatKnown
<1> QED  BY <1>2, <1>3, <1>12 DEF IInv

\* A packet that arrives changes the block only.
LEMMA BlockAppend ==
  ASSUME NEW pk \in Packets, block \in Seq(Packets), Arrives(pk)
  PROVE  block' \in Seq(Packets) /\ sp' = sp /\ mode' = mode
BY AppendProperties DEF Arrives

\* A crash or not, the splitter is as split_ts leaves it, or as it was.
LEMMA SplitSteps ==
  ASSUME NEW s, NEW blk, Split(s, blk)
  PROVE  \/ sp' = s /\ out' = <<>>
         \/ /\ sp' = split_ts(s, blk).sp /\ out' = split_ts(s, blk).out
            /\ s.pat = NoPat => \A i \in DOMAIN blk : blk[i].pid # "0x00"
BY DEF Split

\* Every step keeps the invariant.
LEMMA Continues ==
  ASSUME IInv, [Next]_vars
  PROVE  IInv'
<1>1. Air /\ block \in Seq(Packets) /\ <<>> \in Seq(Packets)
      /\ (mode = "select" => Selecting(sp)) /\ (mode = "on" => Splitting(sp))
  BY DEF IInv
<1>2. UNCHANGED airVars => Air'
  BY <1>1 DEF Air, airVars, Parts, Section
<1>3. ASSUME Air', block' \in Seq(Packets), sp' = sp, mode' = mode
      PROVE  IInv'
  BY <1>1, <1>3 DEF IInv
<1>4. CASE ReaderSelect
  <2>1. mode = "select" /\ block # <<>> /\ block' = <<>> /\ UNCHANGED airVars
    BY <1>4 DEF ReaderSelect
  <2>2. PICK stack \in {NoSid} \cup {Pat[i].sid : i \in DOMAIN Pat} :
          LET r == ReadTs(sp, block, stack) IN
          IF Complete(r.sp) THEN mode' = "on" /\ Split(r.sp, r.blk)
          ELSE /\ mode' \in {"select", "off"}
               /\ sp' = r.sp /\ out' = <<>> /\ UNCHANGED crashed
    BY <1>4 DEF ReaderSelect
  <2> DEFINE r == ReadTs(sp, block, stack)
  <2>3. Selecting(r.sp) /\ r.blk \in Seq(Packets)
    BY <1>1, <2>1, SelectKeeps
  <2>4. CASE Complete(r.sp)
    <3>1. Splitting(r.sp) /\ mode' = "on" /\ Split(r.sp, r.blk)
      BY <2>2, <2>3, <2>4, CompleteSplits
    <3> HIDE DEF r
    <3>2. Splitting(sp')
      BY <2>3, <3>1, SplitSteps, SplitKeeps
    <3> QED  BY <1>1, <1>2, <2>1, <3>1, <3>2 DEF IInv
  <2>5. CASE ~Complete(r.sp)
    <3>1. sp' = r.sp /\ mode' \in {"select", "off"}
      BY <2>2, <2>5
    <3> HIDE DEF r
    <3> QED  BY <1>1, <1>2, <2>1, <2>3, <3>1 DEF IInv
  <2> QED  BY <2>4, <2>5
<1>5. CASE ReaderSplit
  <2>1. mode = "on" /\ mode' = "on" /\ block' = <<>> /\ UNCHANGED airVars /\ Split(sp, block)
    BY <1>5 DEF ReaderSplit
  <2>2. Splitting(sp')
    BY <1>1, <2>1, SplitSteps, SplitKeeps
  <2> QED  BY <1>1, <1>2, <2>1, <2>2 DEF IInv
<1>6. CASE ReaderFinish
  BY <1>1, <1>2, <1>6 DEF ReaderFinish, IInv
<1>7. ASSUME NEW p \in PmtPids, SendPmt(p)
      PROVE  IInv'
  <2>1. Arrives(PmtPacket(p)) /\ Advance(p)
    BY <1>7 DEF SendPmt
  <2>2. PmtPacket(p) \in Packets
    BY <1>1, PacketType DEF Packets
  <2>3. block' \in Seq(Packets) /\ sp' = sp /\ mode' = mode
    BY <1>1, <2>1, <2>2, BlockAppend
  <2>4. Air'
    BY <1>1, <2>1, AdvanceKeeps
  <2> QED  BY <1>3, <2>3, <2>4
<1>8. ASSUME NEW p \in PmtPids, LosePmt(p)
      PROVE  IInv'
  <2>1. Advance(p) /\ sp' = sp /\ mode' = mode /\ block' = block
    BY <1>8 DEF LosePmt
  <2>2. Air'
    BY <1>1, <2>1, AdvanceKeeps
  <2> QED  BY <1>1, <1>3, <2>1, <2>2
<1>9. ASSUME NEW p \in PmtPids, NewVersion(p)
      PROVE  IInv'
  <2>1. /\ part[p] = 1 /\ ver[p] < Len(Pmt[p]) /\ ver' = [ver EXCEPT ![p] = @ + 1]
        /\ part' = part /\ cc' = cc /\ sp' = sp /\ mode' = mode /\ block' = block
    BY <1>9 DEF NewVersion
  <2>2. Len(Pmt[p]) \in Nat \ {0} /\ DOMAIN Pmt[p] = 1 .. Len(Pmt[p])
    BY Versioned
  <2>3. ver[p] \in DOMAIN Pmt[p] /\ ver \in [PmtPids -> Nat]
    BY <1>1 DEF Air
  <2>4. ver'[p] = ver[p] + 1 /\ ver' \in [PmtPids -> Nat]
        /\ \A q \in PmtPids : q # p => ver'[q] = ver[q]
    BY <2>1, <2>2, <2>3
  <2>5. ver'[p] \in DOMAIN Pmt[p]
    BY <2>1, <2>2, <2>3, <2>4
  <2>6. 1 \in 1 .. Parts(p, ver'[p])
    BY <2>5, PartsPositive
  <2>7. Air'
    BY <1>1, <2>1, <2>4, <2>5, <2>6 DEF Air, Parts, Section
  <2> QED  BY <1>1, <1>3, <2>1, <2>7
<1>10. ASSUME NEW count \in PatCounts, SendPat(count)
       PROVE  IInv'
  <2>1. Arrives([pid |-> "0x00", count |-> count]) /\ UNCHANGED airVars
    BY <1>10 DEF SendPat
  <2>2. [pid |-> "0x00", count |-> count] \in Packets
    BY DEF Packets
  <2>3. block' \in Seq(Packets) /\ sp' = sp /\ mode' = mode
    BY <1>1, <2>1, <2>2, BlockAppend
  <2> QED  BY <1>2, <1>3, <2>1, <2>3
<1>11. ASSUME NEW x \in Probes, SendStream(x)
       PROVE  IInv'
  <2>1. Arrives([pid |-> x]) /\ UNCHANGED airVars
    BY <1>11 DEF SendStream
  <2>2. [pid |-> x] \in Packets
    BY DEF Packets
  <2>3. block' \in Seq(Packets) /\ sp' = sp /\ mode' = mode
    BY <1>1, <2>1, <2>2, BlockAppend
  <2> QED  BY <1>2, <1>3, <2>1, <2>3
<1>12. CASE UNCHANGED vars
  BY <1>1, <1>2, <1>3, <1>12 DEF vars, airVars
<1> QED
  BY <1>4, <1>5, <1>6, <1>7, <1>8, <1>9, <1>10, <1>11, <1>12 DEF Next

\* The invariant holds in every state.
LEMMA Invariance == Spec => []IInv
<1>1. Init => IInv
  BY Starts
<1>2. IInv /\ [Next]_vars => IInv'
  BY Continues
<1> QED  BY <1>1, <1>2, PTL DEF Spec

\* The continuity counter of every PAT written follows that of the one before, within a
\* block, from block to block and past the wrap, for every modulus (PatContinuous).
THEOREM CountsOn == Spec => PatContinuous
<1>1. ASSUME IInv, [Next]_vars
      PROVE  [Reader => Follow(sp.pat_count, out')]_vars
  <2>1. CASE UNCHANGED vars
    BY <2>1
  <2>2. ASSUME Next, Reader
        PROVE  Follow(sp.pat_count, out')
    <3>1. block \in Seq(Packets) /\ block # <<>> /\ block' = <<>>
          /\ (mode = "select" => Selecting(sp)) /\ (mode = "on" => Splitting(sp))
      BY <1>1, <2>2 DEF IInv, Reader
    <3>2. Follow(sp.pat_count, <<>>)
      BY DEF Follow
    <3>3. ASSUME NEW s, Counted(s), s.pat_count = sp.pat_count, NEW blk \in Seq(Packets),
                 Split(s, blk)
          PROVE  Follow(sp.pat_count, out')
      BY <3>2, <3>3, SplitSteps, SplitCounts
    <3>4. CASE ReaderSelect
      <4>1. mode = "select"
        BY <3>4 DEF ReaderSelect
      <4>2. PICK stack \in {NoSid} \cup {Pat[i].sid : i \in DOMAIN Pat} :
              LET r == ReadTs(sp, block, stack) IN
              IF Complete(r.sp) THEN mode' = "on" /\ Split(r.sp, r.blk)
              ELSE /\ mode' \in {"select", "off"}
                   /\ sp' = r.sp /\ out' = <<>> /\ UNCHANGED crashed
        BY <3>4 DEF ReaderSelect
      <4> DEFINE r == ReadTs(sp, block, stack)
      <4>3. Selecting(r.sp) /\ r.blk \in Seq(Packets)
        BY <3>1, <4>1, SelectKeeps
      <4>4. out' = <<>> \/ Split(r.sp, r.blk)
        BY <4>2
      <4> HIDE DEF r
      <4>5. Counted(r.sp) /\ r.sp.pat_count = sp.pat_count
        BY <3>1, <4>1, <4>3, SelectCounts DEF Selecting
      <4> QED  BY <3>2, <3>3, <4>3, <4>4, <4>5
    <3>5. CASE ReaderSplit \/ ReaderFinish
      <4>1. mode \in {"select", "on"} /\ Split(sp, block)
        BY <3>5 DEF ReaderSplit, ReaderFinish
      <4>2. Counted(sp)
        BY <3>1, <4>1, SelectCounts DEF Splitting
      <4> QED  BY <3>1, <3>3, <4>1, <4>2
    <3>6. ASSUME NEW pk, Arrives(pk)
          PROVE  block' # <<>>
      BY <3>1, <3>6 DEF Arrives
    <3>7. CASE \/ \E p \in PmtPids : SendPmt(p) \/ LosePmt(p) \/ NewVersion(p)
               \/ \E count \in PatCounts : SendPat(count)
               \/ \E x \in Probes : SendStream(x)
      BY <3>1, <3>6, <3>7 DEF SendPmt, LosePmt, NewVersion, SendPat, SendStream
    <3> QED  BY <2>2, <3>4, <3>5, <3>7 DEF Next
  <2> QED  BY <1>1, <2>1, <2>2
<1>2. IInv /\ [Next]_vars => [Reader => Follow(sp.pat_count, out')]_vars
  BY <1>1
<1> QED  BY <1>2, Invariance, PTL DEF Spec, PatContinuous

-----------------------------------------------------------------------------
(* What the ES loop finds in the packets of a whole section *)

\* No header lies within what another one skips.
Skips(c) ==
  \A i, j \in 1 .. Len(c) : Header(c, i) /\ Header(c, j) /\ i < j => i + c[i].len <= j

\* From header to header the ES loop comes by all of them.
LEMMA EsLoopAll ==
  ASSUME NEW c \in Seq(Cells), NEW H \in SUBSET Nat, NEW m \in 1 .. Len(c), m \in H, 1 \in H,
         m # Len(c), c[m].type # "data",
         \A i \in 1 .. Len(c) : i \in H => i + c[i].len \in H \/ i + c[i].len > Len(c),
         \A i, j \in 1 .. Len(c) : i \in H /\ j \in H /\ i < j => i + c[i].len <= j
  PROVE  c[m].pid \in EsLoop(c)
<1> DEFINE L == Len(c)
           Pos == Nat \ {0}
           Found(k) == IF c[k].type = "data" THEN {} ELSE {c[k].pid}
<1>1. L \in Nat /\ 0 \in Nat /\ m \in Pos /\ m < L
  OBVIOUS
<1>2. PICK f : EsLoop(c) = f[1] /\ \A k \in Pos : f[k] =
                 IF k >= L THEN {} ELSE Found(k) \cup f[k + c[k].len]
  BY EsLoops
<1>3. \A k \in 1 .. L : c[k].len \in Pos
  <2>1. \A k \in 1 .. L : c[k] \in Cells
    OBVIOUS
  <2> QED  BY <2>1 DEF Cells
<1> DEFINE T == {n \in 0 .. m - 1 : \A k \in 1 .. m : k \in H /\ k >= m - n => c[m].pid \in f[k]}
<1>4. 0 \in T
  <2> SUFFICES ASSUME NEW k \in 1 .. m, k >= m - 0 PROVE c[m].pid \in f[k]
    BY <1>1
  <2>1. k = m /\ ~(m >= L)
    BY <1>1
  <2>2. f[m] = Found(m) \cup f[m + c[m].len]
    BY <1>1, <1>2, <2>1
  <2> QED  BY <2>1, <2>2
<1>5. \A n \in 0 + 1 .. m - 1 : n - 1 \in T => n \in T
  <2> SUFFICES ASSUME NEW n \in 0 + 1 .. m - 1, n - 1 \in T PROVE n \in T
    OBVIOUS
  <2>0. n \in 0 .. m - 1
    BY <1>1
  <2> SUFFICES ASSUME NEW k \in 1 .. m, k \in H, k >= m - n PROVE c[m].pid \in f[k]
    BY <2>0
  <2>1. \A j \in 1 .. m : j \in H /\ j >= m - (n - 1) => c[m].pid \in f[j]
    OBVIOUS
  <2>2. CASE k >= m - (n - 1)
    BY <2>1, <2>2
  <2>3. CASE ~(k >= m - (n - 1))
    <3>1. k < m /\ k \in 1 .. L /\ k \in Pos /\ ~(k >= L)
      BY <1>1, <2>3
    <3>2. k + c[k].len <= m /\ k + c[k].len \in 1 .. m /\ k + c[k].len > k
      BY <1>1, <1>3, <3>1
    <3>3. k + c[k].len \in H
      BY <1>1, <3>1, <3>2
    <3>4. k + c[k].len >= m - (n - 1)
      BY <1>1, <3>2
    <3>5. c[m].pid \in f[k + c[k].len]
      BY <2>1, <3>2, <3>3, <3>4
    <3>6. f[k] = Found(k) \cup f[k + c[k].len]
      BY <1>2, <3>1
    <3> QED  BY <3>5, <3>6
  <2> QED  BY <2>2, <2>3
<1> HIDE DEF T
<1>6. m - 1 \in T
  <2>1. m - 1 \in Nat /\ m - 1 \in 0 .. m - 1
    BY <1>1
  <2> QED  BY <1>1, <1>4, <1>5, <2>1, Induct
<1>7. 1 \in 1 .. m /\ 1 >= m - (m - 1)
  BY <1>1
<1> QED  BY <1>2, <1>6, <1>7 DEF T

\* One entry skips its own descriptors, and entry after entry likewise.
LEMMA EntrySkips ==
  ASSUME NEW e \in Entries
  PROVE  Skips(EntryCells(e)) /\ \E k \in 1 .. Len(EntryCells(e)) : EntryCells(e)[k] = e
<1> DEFINE c == EntryCells(e)
           d == [type |-> "other", pid |-> "descriptor", len |-> 2]
<1>1. c = [i \in 1 .. e.len |-> IF i = 1 THEN e ELSE d] /\ e.len \in Nat \ {0}
  BY DEF EntryCells, Entries
<1>2. d.type = "other"
  OBVIOUS
<1> HIDE DEF c, d
<1>3. Len(c) = e.len /\ \A k \in 1 .. e.len : c[k] = IF k = 1 THEN e ELSE d
  BY <1>1
<1>4. \A k \in 1 .. Len(c) : Header(c, k) => k = 1
  BY <1>2, <1>3 DEF Header
<1>5. Skips(c)
  BY <1>1, <1>3, <1>4 DEF Skips
<1>6. 1 \in 1 .. Len(c) /\ c[1] = e
  BY <1>1, <1>3
<1> QED  BY <1>5, <1>6 DEF c

\* One after the other they still skip nothing else's header, and keep all their cells.
LEMMA SkipsConcat ==
  ASSUME NEW X, NEW Y, NEW c, NEW d, Formed(c, X, Y), Formed(d, X, Y), Skips(c), Skips(d)
  PROVE  /\ Skips(c \o d) /\ Len(c \o d) = Len(c) + Len(d)
         /\ \A k \in 1 .. Len(c) : k \in 1 .. Len(c \o d) /\ (c \o d)[k] = c[k]
         /\ \A k \in 1 .. Len(d) : k + Len(c) \in 1 .. Len(c \o d) /\ (c \o d)[k + Len(c)] = d[k]
<1> DEFINE m == Len(c)
           n == Len(d)
           b == c \o d
<1>1. c \in Seq(Cells) /\ d \in Seq(Cells) /\ m \in Nat /\ n \in Nat /\ m >= 1 /\ n >= 1
  BY DEF Formed
<1>2. /\ b \in Seq(Cells) /\ Len(b) = m + n
      /\ \A k \in 1 .. m + n : b[k] = IF k <= m THEN c[k] ELSE d[k - m]
  BY <1>1, ConcatProperties
<1> HIDE DEF b
<1>3. \A k \in 1 .. m : k \in 1 .. m + n /\ b[k] = c[k]
  BY <1>1, <1>2
<1>4. \A k \in 1 .. n : k + m \in 1 .. m + n /\ b[k + m] = d[k]
  <2> SUFFICES ASSUME NEW k \in 1 .. n PROVE k + m \in 1 .. m + n /\ b[k + m] = d[k]
    OBVIOUS
  <2>1. k + m \in 1 .. m + n /\ ~(k + m <= m) /\ (k + m) - m = k
    BY <1>1
  <2> QED  BY <1>2, <2>1
<1>5. \A k \in 1 .. m + n : ~(k <= m) => k - m \in 1 .. n /\ b[k] = d[k - m]
  <2> SUFFICES ASSUME NEW k \in 1 .. m + n, ~(k <= m)
               PROVE  k - m \in 1 .. n /\ b[k] = d[k - m]
    OBVIOUS
  <2>1. k - m \in 1 .. n
    BY <1>1
  <2> QED  BY <1>2, <2>1
<1>6. \A k \in 1 .. m : c[k].len \in Nat \ {0}
  <2>1. \A k \in 1 .. m : c[k] \in Cells
    BY <1>1
  <2> QED  BY <2>1 DEF Cells
<1>7. \A k \in 1 .. n : d[k].len \in Nat \ {0}
  <2>1. \A k \in 1 .. n : d[k] \in Cells
    BY <1>1
  <2> QED  BY <2>1 DEF Cells
<1>8. ASSUME NEW i \in 1 .. m + n, NEW j \in 1 .. m + n, Header(b, i), Header(b, j), i < j
      PROVE  i + b[i].len <= j
  <2>1. CASE j <= m
    <3>1. i \in 1 .. m /\ j \in 1 .. m
      BY <1>1, <1>8, <2>1
    <3>2. Header(c, i) /\ Header(c, j) /\ b[i] = c[i]
      BY <1>3, <1>8, <3>1 DEF Header
    <3> QED  BY <1>8, <3>1, <3>2 DEF Skips
  <2>2. CASE i <= m /\ ~(j <= m)
    <3>1. i \in 1 .. m /\ j >= m + 1
      BY <1>1, <2>2
    <3>2. Header(c, i) /\ b[i] = c[i] /\ c[i].len \in Nat
      BY <1>3, <1>6, <1>8, <3>1 DEF Header
    <3>3. i + c[i].len = m + 1 \/ i + c[i].len <= m
      BY <3>1, <3>2 DEF Formed
    <3>4. i + c[i].len <= m + 1 /\ i + c[i].len \in Nat
      BY <1>1, <3>1, <3>2, <3>3
    <3> QED  BY <1>1, <3>1, <3>2, <3>4
  <2>3. CASE ~(i <= m)
    <3>1. i - m \in 1 .. n /\ j - m \in 1 .. n /\ b[i] = d[i - m] /\ b[j] = d[j - m]
      BY <1>1, <1>5, <1>8, <2>3
    <3>2. Header(d, i - m) /\ Header(d, j - m) /\ i - m < j - m
      BY <1>1, <1>8, <3>1 DEF Header
    <3>3. (i - m) + d[i - m].len <= j - m
      BY <3>1, <3>2 DEF Skips
    <3>4. d[i - m].len \in Nat
      BY <1>7, <3>1
    <3> QED  BY <1>1, <3>1, <3>3, <3>4
  <2> QED  BY <2>1, <2>2, <2>3
<1>9. Skips(b)
  BY <1>2, <1>8 DEF Skips
<1> QED  BY <1>2, <1>3, <1>4, <1>9 DEF b

\* So in a whole list no header lies within what another skips, and every entry is there.
LEMMA ListSkips ==
  ASSUME NEW p \in PmtPids, NEW v \in DOMAIN Pmt[p]
  PROVE  /\ Skips(EsList(p, v))
         /\ \A e \in ToSet(Pmt[p][v].es) : \E k \in 1 .. Len(EsList(p, v)) : EsList(p, v)[k] = e
<1> DEFINE es == Pmt[p][v].es
           X == Streams(p, v)
           Y == Listed(p, v)
           ss == [i \in DOMAIN es |-> EntryCells(es[i])]
           n == Len(es)
           In(c, i) == \A j \in 1 .. i : \E k \in 1 .. Len(c) : c[k] = es[j]
           D == [i \in 1 .. n |->
                  {c \in Seq(Cells) : Formed(c, X, Y) /\ Skips(c) /\ In(c, i)}]
<1>1. es \in Seq(Entries) /\ es # <<>> /\ n \in Nat /\ n >= 1 /\ DOMAIN es = 1 .. n
  <2>1. Pmt[p] \in Seq(Versions)
    BY SplitterAssumption
  <2>2. Pmt[p][v] \in Versions
    BY <2>1
  <2>3. es \in Seq(Entries) \ {<<>>}
    BY <2>2 DEF Versions
  <2> QED  BY <2>3
<1>2. \A i \in 1 .. n : /\ es[i] \in Entries /\ Formed(ss[i], X, Y) /\ Skips(ss[i])
                        /\ \E k \in 1 .. Len(ss[i]) : ss[i][k] = es[i]
  <2> SUFFICES ASSUME NEW i \in 1 .. n
               PROVE  /\ es[i] \in Entries /\ Formed(ss[i], X, Y) /\ Skips(ss[i])
                      /\ \E k \in 1 .. Len(ss[i]) : ss[i][k] = es[i]
    OBVIOUS
  <2>1. es[i] \in Entries /\ es[i] \in ToSet(es)
    BY <1>1 DEF ToSet
  <2>2. es[i].type = "data" \/ es[i].pid \in X
    BY <2>1 DEF Streams
  <2>3. es[i].pid \in Y /\ "descriptor" \in Y
    BY <2>1 DEF Listed
  <2>4. ss[i] = EntryCells(es[i])
    BY <1>1
  <2> HIDE DEF X, Y, es, ss
  <2>5. Formed(EntryCells(es[i]), X, Y)
    BY <2>1, <2>2, <2>3, EntryFormed
  <2> QED  BY <2>1, <2>4, <2>5, EntrySkips
<1>3. EsList(p, v) = FlattenSeq(ss)
  BY DEF EsList
<1>4. \A e \in ToSet(es) : \E j \in 1 .. n : e = es[j]
  BY <1>1 DEF ToSet
<1> HIDE DEF es, X, Y
<1>5. \A i \in 1 .. n : ss[i] \in Seq(Cells)
  BY <1>2 DEF Formed
<1>6. ss \in Seq(Seq(Cells)) /\ Len(ss) = n /\ ss # <<>>
  <2>1. ss \in [1 .. n -> Seq(Cells)]
    BY <1>1, <1>5
  <2> QED  BY <1>1, <2>1
<1>7. ss[1] \in D[1]
  <2>1. 1 \in 1 .. n /\ \A j \in 1 .. 1 : j = 1
    BY <1>1
  <2>2. /\ ss[1] \in Seq(Cells) /\ Formed(ss[1], X, Y) /\ Skips(ss[1])
        /\ \E k \in 1 .. Len(ss[1]) : ss[1][k] = es[1]
    <3> HIDE DEF ss
    <3> QED  BY <1>2, <1>5, <2>1
  <2> HIDE DEF ss
  <2>3. In(ss[1], 1)
    BY <2>1, <2>2
  <2> QED  BY <2>1, <2>2, <2>3
<1> HIDE DEF ss
<1>8. \A i \in 2 .. Len(ss) : \A x \in D[i-1] : x \o ss[i] \in D[i]
  <2> SUFFICES ASSUME NEW i \in 2 .. n, NEW x \in D[i-1] PROVE x \o ss[i] \in D[i]
    BY <1>6
  <2>1. i \in 1 .. n /\ i - 1 \in 1 .. n /\ \A j \in 1 .. i : j = i \/ j \in 1 .. i - 1
    BY <1>1
  <2>2. x \in Seq(Cells) /\ Formed(x, X, Y) /\ Skips(x) /\ In(x, i - 1)
    BY <2>1
  <2>3. Formed(ss[i], X, Y) /\ Skips(ss[i]) /\ \E k \in 1 .. Len(ss[i]) : ss[i][k] = es[i]
    BY <1>2, <2>1
  <2> DEFINE b == x \o ss[i]
  <2>4. /\ Skips(b)
        /\ \A k \in 1 .. Len(x) : k \in 1 .. Len(b) /\ b[k] = x[k]
        /\ \A k \in 1 .. Len(ss[i]) : k + Len(x) \in 1 .. Len(b) /\ b[k + Len(x)] = ss[i][k]
    <3> DEFINE d == ss[i]
    <3>1. Formed(x, X, Y) /\ Skips(x) /\ Formed(d, X, Y) /\ Skips(d)
      BY <2>2, <2>3
    <3> HIDE DEF d
    <3>2. /\ Skips(x \o d)
          /\ \A k \in 1 .. Len(x) : k \in 1 .. Len(x \o d) /\ (x \o d)[k] = x[k]
          /\ \A k \in 1 .. Len(d) :
               k + Len(x) \in 1 .. Len(x \o d) /\ (x \o d)[k + Len(x)] = d[k]
      BY ONLY <3>1, SkipsConcat
    <3> QED  BY ONLY <3>2 DEF d
  <2>5. Formed(b, X, Y)
    BY <2>2, <2>3, FormedConcat
  <2> HIDE DEF b
  <2>6. In(b, i)
    <3>1. \E k \in 1 .. Len(b) : b[k] = es[i]
      BY <2>3, <2>4
    <3>2. \A j \in 1 .. i - 1 : \E k \in 1 .. Len(b) : b[k] = es[j]
      BY <2>2, <2>4
    <3> QED  BY <2>1, <3>1, <3>2
  <2>7. b \in Seq(Cells)
    BY <2>5 DEF Formed
  <2>8. b \in D[i]
    <3> HIDE DEF In
    <3> QED  BY <2>1, <2>4, <2>5, <2>6, <2>7
  <2> QED  BY <2>8 DEF b
<1>9. FlattenSeq(ss) \in D[n]
  <2> HIDE DEF D
  <2> QED  BY <1>6, <1>7, <1>8, Flatten
<1>10. n \in 1 .. n
  BY <1>1
<1>11. Skips(FlattenSeq(ss)) /\ In(FlattenSeq(ss), n)
  <2> HIDE DEF In
  <2> QED  BY <1>9, <1>10
<1> QED  BY <1>3, <1>4, <1>11 DEF es

\* Nor in a whole section, up to the CRC.
LEMMA SectionSkips ==
  ASSUME NEW p \in PmtPids, NEW v \in DOMAIN Pmt[p]
  PROVE  /\ Skips(Section[p][v])
         /\ \A e \in ToSet(Pmt[p][v].es) :
              \E k \in 1 .. Len(Section[p][v]) : k # Len(Section[p][v]) /\ Section[p][v][k] = e
<1> DEFINE c == EsList(p, v)
           b == Section[p][v]
           m == Len(c)
<1>1. /\ b \in Seq(Cells) /\ Len(b) = m + 1 /\ m \in Nat /\ m >= 1
      /\ \A k \in 1 .. m : k \in 1 .. Len(b) /\ b[k] = c[k]
  BY SectionIs
<1>2. /\ Skips(c)
      /\ \A e \in ToSet(Pmt[p][v].es) : \E k \in 1 .. m : c[k] = e
  BY ListSkips
<1>3. Laid(b, Streams(p, v), Listed(p, v))
  BY SectionLaid
<1> HIDE DEF b, c
<1>4. ASSUME NEW i \in 1 .. Len(b), NEW j \in 1 .. Len(b), Header(b, i), Header(b, j), i < j
      PROVE  i + b[i].len <= j
  <2>1. i \in 1 .. m /\ i # Len(b) /\ (j \in 1 .. m \/ j = Len(b))
    BY <1>1, <1>4
  <2>2. CASE j = Len(b)
    BY <1>3, <1>4, <2>1, <2>2 DEF Laid
  <2>3. CASE j \in 1 .. m
    <3>1. Header(c, i) /\ Header(c, j) /\ b[i] = c[i]
      BY <1>1, <1>4, <2>1, <2>3 DEF Header
    <3> QED  BY <1>2, <1>4, <2>1, <2>3, <3>1 DEF Skips
  <2> QED  BY <2>1, <2>2, <2>3
<1>5. \A k \in 1 .. m : k \in 1 .. Len(b) /\ k # Len(b) /\ b[k] = c[k]
  BY <1>1
<1>6. Skips(b)
  BY <1>4 DEF Skips
<1>7. \A e \in ToSet(Pmt[p][v].es) : \E k \in 1 .. Len(b) : k # Len(b) /\ b[k] = e
  BY <1>2, <1>5
<1> QED  BY <1>6, <1>7 DEF b

\* The cells of one packet, and which they are
LEMMA PartCells ==
  ASSUME NEW p \in PmtPids, NEW v \in DOMAIN Pmt[p], NEW k \in 1 .. Parts(p, v)
  PROVE  LET c == PartOf(p, v, k)
             L == Len(Section[p][v])
             o == (k - 1) * Room IN
         /\ c \in Seq(Cells) /\ o \in Nat /\ o + Len(c) <= L /\ L \in Nat
         /\ \A i \in 1 .. Len(c) : o + i \in 1 .. L /\ c[i] = Section[p][v][o + i]
         /\ IF k = Parts(p, v) THEN o + Len(c) = L ELSE Len(c) = Room /\ o + Room < L
<1> DEFINE s == Section[p][v]
           L == Len(s)
           o == (k - 1) * Room
           to == IF k * Room < L THEN k * Room ELSE L
           c == SubSeq(s, o + 1, to)
           n == Len(c)
           q == (L - 1) \div Room
<1>1. s \in Seq(Cells) /\ L \in Nat /\ L >= 1
  BY SectionLaid DEF Laid
<1>2. k \in Nat \ {0} /\ Room \in Nat \ {0} /\ Parts(p, v) \in Nat /\ k <= Parts(p, v)
  BY SplitterAssumption, PartsPositive
<1>3. Parts(p, v) = q + 1
  BY DEF Parts
<1> HIDE DEF s
<1>4. q \in Nat /\ Room * q <= L - 1 /\ L - 1 < Room * q + Room
  <2>1. \A a \in Nat : \A b \in Nat \ {0} :
          a \div b \in Nat /\ b * (a \div b) <= a /\ a < b * (a \div b) + b
    OBVIOUS
  <2>2. L - 1 \in Nat
    BY <1>1
  <2> HIDE DEF L
  <2> QED  BY <1>2, <2>1, <2>2
<1> HIDE DEF q, L
<1>5. o \in Nat /\ k * Room = o + Room /\ k * Room \in Nat
  <2>1. \A a, b \in Nat : a * b \in Nat
    OBVIOUS
  <2>2. \A a \in Nat \ {0} : \A b \in Nat : a * b = ((a - 1) * b) + b /\ a - 1 \in Nat
    OBVIOUS
  <2> QED  BY <1>2, <2>1, <2>2
<1>6. o <= Room * q
  <2>1. \A a, b, d \in Nat : a <= b => a * d <= d * b
    OBVIOUS
  <2>2. k - 1 \in Nat /\ k - 1 <= q
    BY <1>2, <1>3, <1>4
  <2> QED  BY <1>2, <1>4, <2>1, <2>2
<1>7. k # Parts(p, v) => k * Room <= Room * q
  <2>1. \A a, b, d \in Nat : a <= b => a * d <= d * b
    OBVIOUS
  <2>2. k # Parts(p, v) => k <= q
    BY <1>2, <1>3, <1>4
  <2> QED  BY <1>2, <1>4, <2>1, <2>2
<1>8. k = Parts(p, v) => o = Room * q
  <2>1. \A a, b \in Nat : a * b = b * a
    OBVIOUS
  <2>2. k = Parts(p, v) => k - 1 = q
    BY <1>2, <1>3, <1>4
  <2> QED  BY <1>2, <1>4, <2>1, <2>2
<1> DEFINE r == Room * q
           m == k * Room
<1>9. r \in Nat /\ m \in Nat
  <2>1. \A a, b \in Nat : a * b \in Nat
    OBVIOUS
  <2> QED  BY <1>2, <1>4, <1>5, <2>1
<1>10. to = IF m < L THEN m ELSE L
  OBVIOUS
<1>11. r <= L - 1 /\ L - 1 < r + Room /\ m = o + Room /\ o <= r
       /\ (k # Parts(p, v) => m <= r) /\ (k = Parts(p, v) => o = r)
  BY <1>4, <1>5, <1>6, <1>7, <1>8
<1> HIDE DEF o, r, m, to
<1>12. to \in Nat /\ to <= L /\ o + 1 <= to
       /\ (k # Parts(p, v) => to = o + Room /\ o + Room < L)
       /\ (k = Parts(p, v) => to = L)
  BY <1>1, <1>2, <1>5, <1>9, <1>10, <1>11
<1>13. c \in Seq(Cells) /\ n = to - o /\ n \in Nat /\ \A i \in 1 .. n : c[i] = s[o + i]
  <2>1. o + 1 \in Int /\ to \in Int /\ \A i \in o + 1 .. to : s[i] \in Cells
    BY <1>1, <1>5, <1>12 DEF L
  <2>2. /\ c \in Seq(Cells) /\ n = IF o + 1 <= to THEN to - (o + 1) + 1 ELSE 0
        /\ \A j \in 1 .. to - (o + 1) + 1 : c[j] = s[(o + 1) + j - 1]
    BY <2>1, SubSeqProperties
  <2> HIDE DEF c
  <2>3. n = to - o /\ n \in Nat
    BY <1>5, <1>12, <2>2
  <2>4. \A j \in 1 .. n : j \in 1 .. to - (o + 1) + 1 /\ (o + 1) + j - 1 = o + j
    BY <1>5, <1>12, <2>3
  <2> QED  BY <2>2, <2>3, <2>4
<1> HIDE DEF c
<1>14. \A i \in 1 .. n : o + i \in 1 .. L
  BY <1>1, <1>5, <1>12, <1>13
<1>15. c = PartOf(p, v, k)
  BY DEF c, to, o, L, s, PartOf
<1>16. o + n <= L /\ IF k = Parts(p, v) THEN o + n = L ELSE n = Room /\ o + Room < L
  BY <1>1, <1>2, <1>5, <1>12, <1>13
<1> QED  BY <1>1, <1>5, <1>13, <1>14, <1>15, <1>16 DEF L, s, o

\* When every packet starts with a header, the packets' loops come by all of them.
LEMMA PartFinds ==
  ASSUME NEW p \in PmtPids, NEW v \in DOMAIN Pmt[p], Aligned(p, v),
         NEW i \in 1 .. Len(Section[p][v]), Header(Section[p][v], i),
         i # Len(Section[p][v]), Section[p][v][i].type # "data"
  PROVE  \E k \in 1 .. Parts(p, v) : Section[p][v][i].pid \in EsLoop(PartOf(p, v, k))
<1> DEFINE s == Section[p][v]
           L == Len(s)
           q == (i - 1) \div Room
           k == q + 1
           o == (k - 1) * Room
           c == PartOf(p, v, k)
           j == i - o
           H == {h \in Nat : o + h \in 1 .. L /\ Header(s, o + h)}
<1>1. /\ s \in Seq(Cells) /\ L \in Nat /\ L >= 1 /\ Room \in Nat \ {0} /\ Header(s, 1)
      /\ Laid(s, Streams(p, v), Listed(p, v))
  <2>1. Laid(s, Streams(p, v), Listed(p, v))
    BY SectionLaid
  <2> HIDE DEF s
  <2>2. s \in Seq(Cells) /\ Len(s) >= 1 /\ Header(s, 1)
    BY ONLY <2>1 DEF Laid
  <2>3. Len(s) \in Nat
    BY ONLY <2>2
  <2>4. Room \in Nat \ {0}
    BY SplitterAssumption
  <2> QED  BY ONLY <2>1, <2>2, <2>3, <2>4
<1>2. Skips(s)
  BY SectionSkips
<1>3. q \in Nat /\ Room * q <= i - 1 /\ i - 1 < Room * q + Room /\ q <= (L - 1) \div Room
  <2>1. \A a \in Nat : \A b \in Nat \ {0} :
          a \div b \in Nat /\ b * (a \div b) <= a /\ a < b * (a \div b) + b
    OBVIOUS
  <2>2. \A a, d \in Nat : \A b \in Nat \ {0} : a <= d => a \div b <= d \div b
    <3> SUFFICES ASSUME NEW a \in Nat, NEW d \in Nat, NEW b \in Nat \ {0}, a <= d
                 PROVE  a \div b <= d \div b
      OBVIOUS
    <3> DEFINE x == a \div b
               y == d \div b
    <3>1. x \in Nat /\ y \in Nat /\ b * x <= a /\ d < b * y + b
      BY <2>1
    <3> HIDE DEF x, y
    <3>2. \A u, w \in Nat : u >= w + 1 => b * u >= b * w + b
      OBVIOUS
    <3>3. ~(x >= y + 1)
      <4> DEFINE bx == b * x
                 bb == b * y
      <4>1. bx \in Nat /\ bb \in Nat /\ bx <= a /\ d < bb + b
        BY <3>1
      <4>2. x >= y + 1 => bx >= bb + b
        BY <3>1, <3>2
      <4> HIDE DEF bx, bb
      <4> QED  BY <4>1, <4>2
    <3> QED  BY <3>1, <3>3 DEF x, y
  <2>3. i - 1 \in Nat /\ L - 1 \in Nat /\ i - 1 <= L - 1
    BY <1>1
  <2> HIDE DEF L
  <2> QED  BY <1>1, <2>1, <2>2, <2>3
<1>4. Parts(p, v) = ((L - 1) \div Room) + 1
  BY DEF Parts
<1>5. k \in 1 .. Parts(p, v)
  <2>1. (L - 1) \div Room \in Nat
    <3>1. \A a \in Nat : \A b \in Nat \ {0} : a \div b \in Nat
      OBVIOUS
    <3>2. L - 1 \in Nat
      BY <1>1
    <3> HIDE DEF L
    <3> QED  BY <1>1, <3>1, <3>2
  <2> DEFINE d == (L - 1) \div Room
  <2>2. d \in Nat /\ q <= d /\ Parts(p, v) = d + 1 /\ q \in Nat
    BY <1>3, <1>4, <2>1
  <2> HIDE DEF q, d
  <2> QED  BY <2>2
<1>6. /\ c \in Seq(Cells) /\ o \in Nat /\ o + Len(c) <= L
      /\ \A h \in 1 .. Len(c) : o + h \in 1 .. L /\ c[h] = s[o + h]
      /\ IF k = Parts(p, v) THEN o + Len(c) = L ELSE Len(c) = Room /\ o + Room < L
  <2> HIDE DEF k
  <2> QED  BY <1>5, PartCells
<1>7. o <= i - 1 /\ i - 1 < o + Room
  <2>1. \A a, b \in Nat : ((a + 1) - 1) * b = b * a
    OBVIOUS
  <2>2. o = Room * q
    <3> HIDE DEF q
    <3> QED  BY <1>1, <1>3, <2>1
  <2> QED  BY <1>3, <2>2
<1> HIDE DEF q, k, o, c
<1>8. j \in 1 .. Len(c) /\ o + j = i
  <2>1. Len(c) \in Nat /\ i \in Nat /\ i <= L
    BY <1>1, <1>6
  <2> HIDE DEF L
  <2> QED  BY <1>1, <1>6, <1>7, <2>1
<1>9. c[j] = s[i]
  BY <1>6, <1>8
<1> HIDE DEF s, j
<1>10. \A h \in 1 .. Len(c) : c[h].len \in Nat \ {0} /\ h \in Nat
  <2>1. \A h \in 1 .. Len(c) : c[h] \in Cells
    BY <1>6
  <2> QED  BY <2>1 DEF Cells
<1>11. Header(s, o + 1) /\ o + 1 \in 1 .. L
  <2>0. 1 \in 1 .. Len(c)
    BY <1>6, <1>8
  <2>1. CASE k = 1
    <3>1. o = 0
      BY <1>1, <2>1 DEF o
    <3> QED  BY <1>1, <3>1
  <2>2. CASE k # 1
    <3>1. k - 1 \in 1 .. Parts(p, v) - 1
      BY <1>5, <2>2, PartsPositive
    <3> QED  BY <1>6, <2>0, <3>1 DEF Aligned, Header, o, s
  <2> QED  BY <2>1, <2>2
<1>17. Len(c) \in Nat
  BY <1>6
\* A header in the last cell of a packet has nothing but the CRC behind it.
<1>18. j # Len(c)
  <2> SUFFICES ASSUME j = Len(c) PROVE FALSE
    OBVIOUS
  <2>1. k # Parts(p, v) /\ Len(c) = Room /\ o + Room < L /\ i = o + Room
    BY <1>6, <1>8, <1>17 DEF s
  <2>2. k * Room = o + Room
    <3>1. \A a \in Nat \ {0} : \A b \in Nat : a * b = ((a - 1) * b) + b
      OBVIOUS
    <3>2. k \in Nat \ {0}
      BY <1>5, PartsPositive
    <3> QED  BY <1>1, <3>1, <3>2 DEF o
  <2>3. Header(s, (o + Room) + 1)
    <3>1. k \in 1 .. Parts(p, v) - 1
      BY <1>5, <2>1, PartsPositive
    <3>2. Header(s, (k * Room) + 1)
      BY <3>1 DEF Aligned, Header, s
    <3> QED  BY <2>2, <3>2
  <2>4. (o + Room) + 1 \in 1 .. L /\ i + 1 = (o + Room) + 1 /\ i < i + 1 /\ i \in 1 .. L
    BY <1>1, <1>6, <2>1 DEF s
  <2>5. Header(s, i) /\ s[i].len >= 2 /\ s[i] \in Cells
    <3>1. Header(s, i) /\ i # L
      BY DEF s
    <3> QED  BY <1>1, <2>4, <3>1 DEF Laid
  <2>6. i + s[i].len <= i + 1
    BY <1>2, <2>3, <2>4, <2>5 DEF Skips
  <2>7. s[i].len \in Nat /\ i \in Nat
    BY <2>4, <2>5 DEF Cells
  <2> QED  BY <2>5, <2>6, <2>7
<1>12. ASSUME NEW h \in 1 .. Len(c), h \in H
       PROVE  h + c[h].len \in H \/ h + c[h].len > Len(c)
  <2> DEFINE u == h + c[h].len
  <2>1. u \in Nat /\ (o + h) + c[h].len = o + u
    BY <1>6, <1>10
  <2>2. o + h \in 1 .. L /\ Header(s, o + h) /\ c[h] = s[o + h]
    BY <1>6, <1>12
  <2>3. o + h = L \/ (o + u <= L /\ Header(s, o + u))
    BY <1>1, <2>1, <2>2 DEF Laid
  <2>4. o + h = L => u > Len(c)
    <3>1. c[h].len \in Nat \ {0}
      BY <1>10
    <3>2. o \in Nat /\ o + Len(c) <= L /\ h \in Nat
      BY <1>6, <1>10
    <3> QED  BY <1>1, <1>17, <3>1, <3>2
  <2> HIDE DEF u
  <2>5. o + u <= L /\ ~(u > Len(c)) => o + u \in 1 .. L
    <3>1. c[h].len >= 1 /\ h >= 1 /\ u >= 1
      BY <1>10 DEF u
    <3> QED  BY <1>1, <1>6, <2>1, <3>1
  <2>6. u \in H \/ u > Len(c)
    BY <2>1, <2>3, <2>4, <2>5
  <2> QED  BY <2>6 DEF u
<1>13. ASSUME NEW g \in 1 .. Len(c), NEW h \in 1 .. Len(c), g \in H, h \in H, g < h
       PROVE  g + c[g].len <= h
  <2>1. o + g \in 1 .. L /\ o + h \in 1 .. L /\ Header(s, o + g) /\ Header(s, o + h)
        /\ o + g < o + h /\ c[g] = s[o + g]
    BY <1>6, <1>13
  <2>2. (o + g) + c[g].len <= o + h
    BY <1>2, <2>1 DEF Skips
  <2> QED  BY <1>6, <1>10, <2>2
<1>14. j \in H /\ 1 \in H /\ H \in SUBSET Nat
  BY <1>8, <1>10, <1>11 DEF s
<1>15. c[j].type # "data"
  BY <1>9 DEF s
<1> HIDE DEF H, L
<1>16. c[j].pid \in EsLoop(c)
  BY <1>6, <1>8, <1>12, <1>13, <1>14, <1>15, <1>18, EsLoopAll
<1> QED  BY <1>5, <1>9, <1>16 DEF c, s

\* The PIDs a section names outside its list of streams
Own(p, v) == {Pmt[p][v].pcr} \cup Pmt[p][v].ca

\* So a section read packet by packet gives all its streams.
LEMMA StreamsFound ==
  ASSUME NEW p \in PmtPids, NEW v \in DOMAIN Pmt[p], Aligned(p, v), NEW x \in Streams(p, v)
  PROVE  x \in Own(p, v) \/ \E k \in 1 .. Parts(p, v) : x \in EsLoop(PartOf(p, v, k))
<1>1. CASE x \in Own(p, v)
  BY <1>1
<1>2. CASE x \notin Own(p, v)
  <2>1. PICK e \in ToSet(Pmt[p][v].es) : e.type # "data" /\ x = e.pid
    BY <1>2 DEF Streams, Own
  <2>2. PICK i \in 1 .. Len(Section[p][v]) : i # Len(Section[p][v]) /\ Section[p][v][i] = e
    BY SectionSkips
  <2>3. e.type # "other"
    <3>1. Pmt[p][v] \in Versions
      BY SplitterAssumption
    <3>2. Pmt[p][v].es \in Seq(Entries)
      BY <3>1 DEF Versions
    <3>3. e \in Entries
      BY <3>2, Elements
    <3> QED  BY <3>3 DEF Entries
  <2>4. Header(Section[p][v], i)
    BY <2>2, <2>3 DEF Header
  <2> QED  BY <2>1, <2>2, <2>4, PartFinds
<1> QED  BY <1>1, <1>2

\* What a section names is marked.
LEMMA SectionPids ==
  ASSUME NEW p \in PmtPids, NEW v \in DOMAIN Pmt[p]
  PROVE  Own(p, v) \subseteq AllPids /\ Listed(p, v) \subseteq AllPids
BY DEF Own, Listed, AllPids

-----------------------------------------------------------------------------
(* The counter of a PMT's packets.  Where their number divides the modulus,   *)
(* the counter tells which packet of its section it is: f does.               *)

Counters == 0 .. Cc - 1
Rounds(f, n) ==
  \A c \in Counters : f[(c + 1) % Cc] = IF f[c] = n THEN 1 ELSE f[c] + 1

\* A remainder is the only one.
LEMMA ModIs ==
  ASSUME NEW n \in Nat \ {0}, NEW q \in Nat, NEW r \in 0 .. n - 1
  PROVE  ((n * q) + r) % n = r
<1> DEFINE a == (n * q) + r
           u == a \div n
           s == a % n
<1>1. n * q \in Nat
  <2>1. \A x, y \in Nat : x * y \in Nat
    OBVIOUS
  <2> QED  BY <2>1
<1>2. a \in Nat
  BY <1>1
<1>3. \A x \in Nat : \A y \in Nat \ {0} :
        x \div y \in Nat /\ x % y \in 0 .. y - 1 /\ x = (y * (x \div y)) + (x % y)
  OBVIOUS
<1>4. u \in Nat /\ s \in 0 .. n - 1 /\ a = (n * u) + s
  <2> HIDE DEF a
  <2> QED  BY <1>2, <1>3
<1> HIDE DEF u, s
<1>5. \A x, y \in Nat : x >= y + 1 => n * x >= (n * y) + n
  OBVIOUS
<1> DEFINE nq == n * q
           nu == n * u
<1>6. nq \in Nat /\ nu \in Nat /\ nq + r = nu + s
  <2>1. \A x, y \in Nat : x * y \in Nat
    OBVIOUS
  <2> QED  BY <1>1, <1>4, <2>1
<1>7. (u >= q + 1 => nu >= nq + n) /\ (q >= u + 1 => nq >= nu + n) /\ (u = q => nu = nq)
  BY <1>4, <1>5
<1> HIDE DEF nq, nu
<1>8. u = q
  BY <1>4, <1>6, <1>7
<1>9. s = r
  BY <1>4, <1>6, <1>7, <1>8
<1> QED  BY <1>9 DEF s

\* The next number, and the same number once around
LEMMA ModNext ==
  ASSUME NEW n \in Nat \ {0}, NEW x \in Nat
  PROVE  /\ x % n \in 0 .. n - 1
         /\ (x + 1) % n = IF x % n = n - 1 THEN 0 ELSE (x % n) + 1
<1> DEFINE q == x \div n
           r == x % n
<1>1. q \in Nat /\ r \in 0 .. n - 1 /\ x = (n * q) + r
  OBVIOUS
<1> HIDE DEF q, r
<1>2. CASE r # n - 1
  <2>1. r + 1 \in 0 .. n - 1 /\ x + 1 = (n * q) + (r + 1)
    <3>1. n * q \in Nat
      <4>1. \A a, b \in Nat : a * b \in Nat
        OBVIOUS
      <4> QED  BY <1>1, <4>1
    <3> QED  BY <1>1, <1>2, <3>1
  <2>2. (x + 1) % n = r + 1
    BY <1>1, <2>1, ModIs
  <2> QED  BY <1>1, <1>2, <2>2 DEF r
<1>3. CASE r = n - 1
  <2>1. x + 1 = (n * (q + 1)) + 0
    <3>1. \A a, b \in Nat : a * (b + 1) = (a * b) + a /\ a * b \in Nat
      OBVIOUS
    <3> QED  BY <1>1, <1>3, <3>1
  <2>2. (x + 1) % n = 0
    <3>1. q + 1 \in Nat /\ 0 \in 0 .. n - 1
      BY <1>1
    <3> QED  BY <2>1, <3>1, ModIs
  <2> QED  BY <1>1, <1>3, <2>2 DEF r
<1> QED  BY <1>2, <1>3

\* Remainders by a number that divides the modulus come round with it.
LEMMA ModAround ==
  ASSUME NEW n \in Nat \ {0}, NEW x \in Nat, Cc % n = 0
  PROVE  (x + Cc) % n = x % n
<1> DEFINE q == x \div n
           r == x % n
           m == Cc \div n
<1>1. Cc \in Nat
  BY SplitterAssumption
<1>2. q \in Nat /\ r \in 0 .. n - 1 /\ x = (n * q) + r /\ m \in Nat /\ Cc = n * m
  <2>1. \A a \in Nat : \A b \in Nat \ {0} :
          a \div b \in Nat /\ a % b \in 0 .. b - 1 /\ a = (b * (a \div b)) + (a % b)
    OBVIOUS
  <2>2. Cc = (n * m) + 0 /\ m \in Nat
    BY <1>1, <2>1
  <2>3. n * m \in Nat
    <3>1. \A a, b \in Nat : a * b \in Nat
      OBVIOUS
    <3> HIDE DEF m
    <3> QED  BY <2>2, <3>1
  <2> HIDE DEF m
  <2>4. Cc = n * m
    BY <2>2, <2>3
  <2>5. q \in Nat /\ r \in 0 .. n - 1 /\ x = (n * q) + r
    BY <2>1
  <2> QED  BY <2>2, <2>4, <2>5
<1> HIDE DEF q, r, m
<1>3. x + Cc = (n * (q + m)) + r
  <2>1. \A a, b, c \in Nat : a * (b + c) = (a * b) + (a * c) /\ a * b \in Nat
    OBVIOUS
  <2> QED  BY <1>2, <2>1
<1>4. (x + Cc) % n = r
  <2>1. q + m \in Nat
    BY <1>2
  <2> QED  BY <1>2, <1>3, <2>1, ModIs
<1> QED  BY <1>4 DEF r

\* The packets may be numbered from any counter on.
LEMMA Numbering ==
  ASSUME NEW n \in Nat \ {0}, Cc % n = 0, NEW c0 \in Counters
  PROVE  \E f \in [Counters -> Nat] : f[c0] = 1 /\ Rounds(f, n)
<1> DEFINE f == [c \in Counters |-> (((c + Cc) - c0) % n) + 1]
<1>1. Cc \in Nat \ {0} /\ c0 \in Nat /\ c0 < Cc
  BY SplitterAssumption DEF Counters
<1>2. \A c \in Counters : (c + Cc) - c0 \in Nat /\ c \in Nat /\ c < Cc
  BY <1>1 DEF Counters
<1>3. \A x \in Nat : x % n \in 0 .. n - 1
  BY ModNext
<1>4. f \in [Counters -> Nat]
  <2>1. \A c \in Counters : (((c + Cc) - c0) % n) + 1 \in Nat
    <3> SUFFICES ASSUME NEW c \in Counters PROVE (((c + Cc) - c0) % n) + 1 \in Nat
      OBVIOUS
    <3> DEFINE y == (c + Cc) - c0
    <3>1. y \in Nat
      BY <1>2
    <3> HIDE DEF y
    <3>2. (y % n) + 1 \in Nat
      BY <1>3, <3>1
    <3> QED  BY <3>2 DEF y
  <2> QED  BY <2>1
<1>5. f[c0] = 1
  <2>1. (c0 + Cc) - c0 = Cc
    BY <1>1
  <2>2. f[c0] = (Cc % n) + 1
    BY <2>1
  <2> QED  BY <2>2
<1>6. ASSUME NEW c \in Counters
      PROVE  f[(c + 1) % Cc] = IF f[c] = n THEN 1 ELSE f[c] + 1
  <2> DEFINE x == (c + Cc) - c0
  <2>1. x \in Nat /\ f[c] = (x % n) + 1
    BY <1>2
  <2>2. (c + 1) % Cc \in Counters /\ f[(c + 1) % Cc] = ((x + 1) % n) + 1
    <3>1. CASE c + 1 < Cc
      <4>1. (c + 1) % Cc = c + 1
        <5>1. c + 1 = (Cc * 0) + (c + 1) /\ c + 1 \in 0 .. Cc - 1 /\ 0 \in Nat
          BY <1>1, <1>2, <3>1
        <5> QED  BY <1>1, <5>1, ModIs
      <4>2. c + 1 \in Counters
        BY <1>1, <1>2, <3>1 DEF Counters
      <4>3. ((c + 1) + Cc) - c0 = x + 1
        BY <1>1, <1>2
      <4> QED  BY <4>1, <4>2, <4>3
    <3>2. CASE ~(c + 1 < Cc)
      <4>1. c + 1 = Cc
        BY <1>1, <1>2, <3>2
      <4>2. (c + 1) % Cc = 0
        <5>1. Cc = (Cc * 1) + 0 /\ 0 \in 0 .. Cc - 1 /\ 1 \in Nat
          BY <1>1
        <5>2. Cc % Cc = 0
          BY <1>1, <5>1, ModIs
        <5> QED  BY <4>1, <5>2
      <4>3. 0 \in Counters
        BY <1>1 DEF Counters
      <4> DEFINE y == (0 + Cc) - c0
      <4>4. y \in Nat /\ x + 1 = y + Cc
        BY <1>1, <1>2, <4>1
      <4>5. f[0] = (y % n) + 1
        BY <4>3
      <4> HIDE DEF y, x
      <4>6. (x + 1) % n = y % n
        BY <4>4, ModAround
      <4> HIDE DEF f
      <4> QED  BY <4>2, <4>3, <4>5, <4>6
    <3> QED  BY <3>1, <3>2
  <2> HIDE DEF x, f
  <2>3. x % n \in 0 .. n - 1 /\ (x + 1) % n = IF x % n = n - 1 THEN 0 ELSE (x % n) + 1
    BY <2>1, ModNext
  <2> DEFINE r == x % n
             t == (x + 1) % n
  <2>4. r \in 0 .. n - 1 /\ t = IF r = n - 1 THEN 0 ELSE r + 1
    BY <2>3
  <2>5. f[c] = r + 1 /\ f[(c + 1) % Cc] = t + 1
    BY <2>1, <2>2
  <2> HIDE DEF r, t
  <2> QED  BY <2>4, <2>5
<1> HIDE DEF f
<1> QED  BY <1>4, <1>5, <1>6 DEF Rounds

\* Of the packets of each PMT, beat tells by the counter which one it is.
Beats(beat) ==
  /\ beat \in [PmtPids -> [Counters -> Nat]]
  /\ \A p \in PmtPids : \A v \in DOMAIN Pmt[p] : Long(p, v) => Rounds(beat[p], Parts(p, v))

\* Only one of the versions is long.
LEMMA OneLong ==
  ASSUME CounterTells, NEW p \in PmtPids, NEW v \in DOMAIN Pmt[p], Long(p, v),
         NEW w \in DOMAIN Pmt[p], Parts(p, w) > 1, w <= v \/ Long(p, w)
  PROVE  w = v
<1>1. v \in Nat /\ w \in Nat
  BY Versioned
<1>2. ~(w < v)
  BY DEF CounterTells
<1>3. Long(p, w) => ~(v < w)
  BY DEF CounterTells, Long
<1> QED  BY <1>1, <1>2, <1>3

\* So a PMT may come to be at its first packet at any counter.
LEMMA BeatFrom ==
  ASSUME CounterTells, NEW p \in PmtPids, NEW c0 \in Counters
  PROVE  \E f \in [Counters -> Nat] :
           f[c0] = 1 /\ \A v \in DOMAIN Pmt[p] : Long(p, v) => Rounds(f, Parts(p, v))
<1>1. CASE \E v \in DOMAIN Pmt[p] : Long(p, v)
  <2>1. PICK v \in DOMAIN Pmt[p] : Long(p, v)
    BY <1>1
  <2>2. Parts(p, v) \in Nat \ {0} /\ Cc % Parts(p, v) = 0
    BY <2>1, PartsPositive DEF CounterTells
  <2>3. PICK f \in [Counters -> Nat] : f[c0] = 1 /\ Rounds(f, Parts(p, v))
    BY <2>2, Numbering
  <2>4. \A w \in DOMAIN Pmt[p] : Long(p, w) => w = v
    BY <2>1, OneLong DEF Long
  <2> QED  BY <2>3, <2>4
<1>2. CASE ~ \E v \in DOMAIN Pmt[p] : Long(p, v)
  <2> DEFINE f == [c \in Counters |-> 1]
  <2>1. f \in [Counters -> Nat] /\ f[c0] = 1
    OBVIOUS
  <2> HIDE DEF f
  <2> QED  BY <1>2, <2>1
<1> QED  BY <1>1, <1>2

-----------------------------------------------------------------------------
(* What the PMTs that were read have marked.  n is the mark of the pass: 1 in *)
(* the selection and after a rescan, 2 within a rescan.  low has, per PMT, a  *)
(* version that no packet read so far is above, and none to come below.       *)

\* The packet is part k of its section.
IsPart(pk, k, beat) ==
  /\ pk.start <=> k = 1
  /\ pk.cells = Payload(pk.pid, pk.version, k)
  /\ Long(pk.pid, pk.version) => beat[pk.pid][pk.cc] = k
Numbered(beat) ==
  {pk \in Packets : pk.pid \in PmtPids =>
     pk.cc \in Counters /\ \E k \in 1 .. Parts(pk.pid, pk.version) : IsPart(pk, k, beat)}

Lows == [PmtPids -> Nat]
Below(low, high) == \A p \in PmtPids : low[p] <= high[p]
Rises(low, high, pk) ==
  /\ low \in Lows /\ high \in Lows /\ Below(low, high)
  /\ pk.pid \in PmtPids => low[pk.pid] <= pk.version /\ pk.version <= high[pk.pid]

\* The first k parts of a section have their PIDs in S.
PartsIn(p, v, k, S) ==
  Own(p, v) \subseteq S /\ \A j \in 1 .. k : EsLoop(PartOf(p, v, j)) \subseteq S

Has(s, n) == {x \in AllPids : s.pids[x] >= n}
\* A long section that is open is known as far as it was read, and one that was read is
\* known whole.
ReadTo(s, p, v, beat, n) ==
  \E k \in 1 .. Parts(p, v) - 1 :
    /\ s.section_remain[p] = Len(Section[p][v]) - (k * Room)
    /\ s.packet_seq[p] \in Counters /\ beat[p][s.packet_seq[p]] = k
    /\ PartsIn(p, v, k, Has(s, n))
OpenAt(s, p, beat, low, n) ==
  s.section_remain[p] # 0 =>
    \E v \in DOMAIN Pmt[p] :
      v <= low[p] /\ Parts(p, v) > 1 /\ (Aligned(p, v) => ReadTo(s, p, v, beat, n))
WholeAt(s, p, n) ==
  s.whole[p] # 0 =>
    /\ s.whole[p] \in DOMAIN Pmt[p]
    /\ Aligned(p, s.whole[p]) =>
         PartsIn(p, s.whole[p], Parts(p, s.whole[p]), Has(s, n))
\* What is read among sections that are cut at entries is not stuffing.
StaysIn(s, p) == (\A v \in s.seen[p] : Aligned(p, v)) => ~s.over[p]
Whole(s, n) == \A p \in PmtPids : WholeAt(s, p, n) /\ StaysIn(s, p)
\* t has read what s has.
SameRead(s, t) == t.whole = s.whole /\ t.seen = s.seen /\ t.over = s.over
Covers(s, beat, low, n) == Whole(s, n) /\ \A p \in PmtPids : OpenAt(s, p, beat, low, n)

\* Marks that are only added take nothing away, and packets to come may be newer.
LEMMA Wider ==
  ASSUME NEW s, NEW t, NEW n, NEW m, Has(s, n) \subseteq Has(t, m), NEW p
  PROVE  /\ \A v, k : PartsIn(p, v, k, Has(s, n)) => PartsIn(p, v, k, Has(t, m))
         /\ t.whole[p] = s.whole[p] /\ WholeAt(s, p, n) => WholeAt(t, p, m)
         /\ \A beat, low :
              /\ t.section_remain[p] = s.section_remain[p] /\ t.packet_seq[p] = s.packet_seq[p]
              /\ OpenAt(s, p, beat, low, n)
              => OpenAt(t, p, beat, low, m)
<1>1. \A v, k : PartsIn(p, v, k, Has(s, n)) => PartsIn(p, v, k, Has(t, m))
  BY DEF PartsIn
<1> QED  BY <1>1 DEF WholeAt, OpenAt, ReadTo

\* So what was read whole stays known whole,
LEMMA WholeOn ==
  ASSUME NEW s, NEW t, NEW n, NEW m, Whole(s, n),
         Has(s, n) \subseteq Has(t, m), SameRead(s, t)
  PROVE  Whole(t, m)
<1> SUFFICES ASSUME NEW p \in PmtPids PROVE WholeAt(t, p, m) /\ StaysIn(t, p)
  BY DEF Whole
<1>1. WholeAt(s, p, n) /\ StaysIn(s, p) /\ t.whole[p] = s.whole[p]
  BY DEF Whole, SameRead
<1>2. WholeAt(t, p, m)
  BY <1>1, Wider
<1>3. StaysIn(t, p)
  BY <1>1 DEF StaysIn, SameRead
<1> QED  BY <1>2, <1>3

\* and what is open stays known as far as it was read.
LEMMA CoversOn ==
  ASSUME NEW s, NEW t, NEW beat, NEW low, NEW n, NEW m, Covers(s, beat, low, n),
         Has(s, n) \subseteq Has(t, m), t.section_remain = s.section_remain,
         t.packet_seq = s.packet_seq, SameRead(s, t)
  PROVE  Covers(t, beat, low, m)
<1>1. Whole(t, m)
  BY WholeOn DEF Covers
<1> SUFFICES ASSUME NEW p \in PmtPids PROVE OpenAt(t, p, beat, low, m)
  BY <1>1 DEF Covers
<1>2. OpenAt(s, p, beat, low, n)
  BY DEF Covers
<1> QED  BY <1>2, Wider

\* A version may count as the newest for longer than it is,
LEMMA Later ==
  ASSUME NEW s, NEW beat, NEW n, NEW low \in Lows, NEW high \in Lows, NEW p \in PmtPids,
         low[p] <= high[p], OpenAt(s, p, beat, low, n)
  PROVE  OpenAt(s, p, beat, high, n)
<1>1. low[p] \in Nat /\ high[p] \in Nat /\ DOMAIN Pmt[p] \subseteq Nat
  BY Versioned DEF Lows
<1>2. \A v \in DOMAIN Pmt[p] : v <= low[p] => v <= high[p]
  BY <1>1
<1> QED  BY <1>2 DEF OpenAt

\* so that all that is known stays known as versions come.
LEMMA CoversLater ==
  ASSUME NEW s, NEW beat, NEW n, NEW low \in Lows, NEW high \in Lows, Below(low, high),
         Covers(s, beat, low, n)
  PROVE  Covers(s, beat, high, n)
<1>1. \A p \in PmtPids : OpenAt(s, p, beat, low, n) /\ low[p] <= high[p]
  BY DEF Covers, Below
<1>2. \A p \in PmtPids : OpenAt(s, p, beat, high, n)
  BY <1>1, Later
<1> QED  BY <1>2 DEF Covers

\* Marked adds S to the marks.
LEMMA MarkedHas ==
  ASSUME NEW s \in Splitters, NEW t, NEW S, NEW n \in 1 .. 2, t.pids = Marked(s.pids, S, n)
  PROVE  Has(s, n) \subseteq Has(t, n) /\ S \cap AllPids \subseteq Has(t, n)
<1>1. s.pids \in [AllPids -> 0 .. 2]
  BY DEF Splitters
<1>2. \A x \in AllPids : t.pids[x] = IF x \in S THEN n ELSE s.pids[x]
  BY <1>1, MarkedType
<1> QED  BY <1>2 DEF Has

\* The ES loop over a packet goes on where the packet before it ended.
LEMMA EsCovers ==
  ASSUME NEW s \in Splitters, NEW beat, NEW low, NEW n \in 1 .. 2, NEW pk \in PmtPackets,
         pk.cc \in Counters, pk.version <= low[pk.pid],
         NEW k \in 1 .. Parts(pk.pid, pk.version), IsPart(pk, k, beat),
         Aligned(pk.pid, pk.version) =>
           /\ s.section_remain[pk.pid] = Len(Section[pk.pid][pk.version]) - ((k - 1) * Room)
           /\ PartsIn(pk.pid, pk.version, k - 1, Has(s, n)),
         Whole(s, n),
         \A q \in PmtPids : q # pk.pid => OpenAt(s, q, beat, low, n)
  PROVE  Covers(AnalyzeEs(s, pk, n).sp, beat, low, n)
<1> DEFINE p == pk.pid
           v == pk.version
           N == Nall(s, pk)
           rest == s.section_remain[p] - N
           t == AnalyzeEs(s, pk, n).sp
           L == Len(Section[p][v])
           found == EsLoop(SubSeq(pk.cells, 1, N))
           into == Into(pk.cells, N)
<1>1. p \in PmtPids /\ v \in DOMAIN Pmt[p] /\ v \in Nat /\ pk.cc \in Nat
      /\ found \subseteq Listed(p, v)
  <2>1. N \in 0 .. Len(pk.cells)
    BY NallType
  <2> HIDE DEF N
  <2> QED  BY <2>1 DEF PmtPackets, Finds
<1>2. /\ s.section_remain \in [PmtPids -> Nat] /\ s.packet_seq \in [PmtPids -> Nat]
      /\ s.whole \in [PmtPids -> Nat] /\ s.pids \in [AllPids -> 0 .. 2]
      /\ s.seen \in [PmtPids -> SUBSET Nat] /\ s.over \in [PmtPids -> BOOLEAN]
  BY DEF Splitters
<1>3. /\ t.pids = Marked(s.pids, found, n)
      /\ t.section_remain = [s.section_remain EXCEPT ![p] = rest]
      /\ t.packet_seq = [s.packet_seq EXCEPT ![p] = pk.cc]
      /\ t.whole = [s.whole EXCEPT ![p] = IF rest = 0 THEN v ELSE @]
      /\ t.seen = [s.seen EXCEPT ![p] = @ \cup {v}]
      /\ t.over = [s.over EXCEPT ![p] = @ \/ into]
  <2> HIDE DEF t
  <2>1. Searched(s, t, pk, n)
    BY EsKeeps DEF t
  <2> QED  BY <2>1 DEF Searched
<1>4. pk.cells = Payload(p, v, k)
  BY DEF IsPart
\* What is left is what is left of the section: the loop reads the packet's part of it.
<1>5. ASSUME Aligned(p, v)
      PROVE  /\ IF k = Parts(p, v) THEN rest = 0 ELSE rest = L - (k * Room) /\ rest > 0
             /\ SubSeq(pk.cells, 1, N) = PartOf(p, v, k) /\ ~into
  <2> DEFINE o == (k - 1) * Room
             c == PartOf(p, v, k)
             d == Payload(p, v, k)
  <2>0. p \in PmtPids /\ v \in DOMAIN Pmt[p] /\ k \in 1 .. Parts(p, v)
    BY <1>1
  <2>1. o \in Nat /\ L \in Nat /\ Len(c) \in Nat /\ o + Len(c) <= L
        /\ c \in Seq(Cells)
        /\ (\A i \in 1 .. Len(c) : o + i \in 1 .. L /\ c[i] = Section[p][v][o + i])
        /\ IF k = Parts(p, v) THEN o + Len(c) = L ELSE Len(c) = Room /\ o + Room < L
    <3> HIDE DEF p, v
    <3>2. /\ c \in Seq(Cells) /\ o \in Nat /\ L \in Nat /\ o + Len(c) <= L
          /\ \A i \in 1 .. Len(c) : o + i \in 1 .. L /\ c[i] = Section[p][v][o + i]
          /\ IF k = Parts(p, v) THEN o + Len(c) = L ELSE Len(c) = Room /\ o + Room < L
      BY ONLY <2>0, PartCells
    <3>3. Len(c) \in Nat
      <4> HIDE DEF c
      <4> QED  BY <3>2
    <3> QED  BY <3>2, <3>3
  <2>2. k * Room = o + Room /\ Room \in Nat
    <3>1. \A a \in Nat \ {0} : \A b \in Nat : a * b = ((a - 1) * b) + b
      OBVIOUS
    <3>2. k \in Nat \ {0} /\ Room \in Nat
      BY <1>1, PartsPositive, SplitterAssumption
    <3> QED  BY <3>1, <3>2
  <2>3. /\ d \in Seq(Cells) /\ Len(d) = Room
        /\ \A j \in 1 .. Room : d[j] = IF o + j <= L THEN Section[p][v][o + j] ELSE Stuffing
    <3> HIDE DEF p, v
    <3> QED  BY ONLY <2>0, PayloadCells
  <2>4. Len(c) <= Room
    <3> HIDE DEF p, v
    <3>1. Len(c) <= Room
      <4>1. k = Parts(p, v) => L <= o + Room
        <5>1. \A a \in Nat : \A b \in Nat \ {0} :
                a \div b \in Nat /\ a < ((a \div b) * b) + b
          OBVIOUS
        <5> DEFINE q == (L - 1) \div Room
        <5>2. Laid(Section[p][v], Streams(p, v), Listed(p, v))
          BY <2>0, SectionLaid
        <5>3. L - 1 \in Nat /\ Room \in Nat \ {0}
          BY <2>1, <5>2, SplitterAssumption DEF Laid
        <5>4. q \in Nat /\ L - 1 < (q * Room) + Room
          <6> HIDE DEF L
          <6> QED  BY <5>1, <5>3
        <5>5. Parts(p, v) = q + 1
          BY DEF Parts
        <5> HIDE DEF q, L
        <5>6. k = Parts(p, v) => k - 1 = q
          BY <5>4, <5>5
        <5>7. k = Parts(p, v) => o = q * Room
          BY <5>6
        <5> DEFINE r == q * Room
        <5>8. r \in Nat
          <6>1. \A a, b \in Nat : a * b \in Nat
            OBVIOUS
          <6> QED  BY <5>3, <5>4, <6>1
        <5> HIDE DEF r
        <5>9. k = Parts(p, v) => o = r
          BY <5>7 DEF r
        <5>10. L - 1 < r + Room
          BY <5>4 DEF r
        <5> HIDE DEF o
        <5> QED  BY <2>1, <2>2, <5>8, <5>9, <5>10 DEF L
      <4> HIDE DEF o, c, L
      <4> QED  BY <2>1, <2>2, <4>1
    <3> QED  BY <3>1
  <2> DEFINE m == k * Room
             remain == s.section_remain[p]
  <2>5. m = o + Room
    BY <2>2
  <2>6. remain = L - o
    BY <1>5
  <2>7. N = IF remain > Len(d) THEN Len(d) ELSE remain
    BY <1>4 DEF Nall
  <2> HIDE DEF o, c, L, m, d, N, remain
  <2>8. N = Len(c)
    BY <2>1, <2>2, <2>3, <2>4, <2>6, <2>7
  <2>9. rest = remain - N
    BY DEF remain
  <2> HIDE DEF rest
  <2>10. IF k = Parts(p, v) THEN rest = 0 ELSE rest = L - m /\ rest > 0
    <3>1. CASE k = Parts(p, v)
      <4>1. o + Len(c) = L
        BY <2>1, <3>1
      <4>2. rest = 0
        BY <2>1, <2>6, <2>8, <2>9, <4>1
      <4> QED  BY <3>1, <4>2
    <3>2. CASE k # Parts(p, v)
      <4>1. Len(c) = Room /\ o + Room < L
        BY <2>1, <3>2
      <4>2. rest = (L - o) - Room
        BY <2>6, <2>8, <2>9, <4>1
      <4>3. rest = L - m /\ rest > 0
        BY <2>1, <2>2, <2>5, <4>1, <4>2
      <4> QED  BY <3>2, <4>3
    <3> QED  BY <3>1, <3>2
  <2>11. N \in 0 .. Len(d) /\ N \in Nat
    BY <2>1, <2>2, <2>3, <2>4, <2>8
  <2>12. \A i \in 1 .. N : d[i] = c[i] /\ o + i \in 1 .. L /\ d[i] = Section[p][v][o + i]
    BY <2>1, <2>3, <2>4, <2>8
  <2>13. SubSeq(d, 1, N) = c
    <3> DEFINE b == SubSeq(d, 1, N)
    <3>1. b \in Seq(Cells) /\ Len(b) = N /\ \A i \in 1 .. N : b[i] = d[i]
      BY <2>3, <2>11, Prefix
    <3> HIDE DEF b
    <3>2. \A i \in 1 .. N : b[i] = c[i]
      BY <2>12, <3>1
    <3>3. b = c
      BY <2>1, <2>8, <3>1, <3>2
    <3> QED  BY <3>3 DEF b
  <2>14. ~into
    <3>1. Laid(Section[p][v], Streams(p, v), Listed(p, v))
      BY <2>0, SectionLaid
    <3>2. \A i \in 1 .. N : d[i].type # "stuffing"
      BY <2>12, <3>1 DEF Laid, L
    <3>3. into = \E i \in 1 .. N : d[i].type = "stuffing"
      BY <1>4 DEF Into, d
    <3> HIDE DEF into
    <3> QED  BY <3>2, <3>3
  <2> QED  BY <1>4, <2>10, <2>13, <2>14 DEF m, c, d
<1>6. found \subseteq AllPids
  BY <1>1, SectionPids
<1> HIDE DEF N
<1>14. Aligned(p, v) => found = EsLoop(PartOf(p, v, k)) /\ ~into
  BY <1>5
<1> HIDE DEF rest, t, found, into
<1>7. Has(s, n) \subseteq Has(t, n) /\ found \subseteq Has(t, n)
  BY <1>3, <1>6, MarkedHas
<1>8. Aligned(p, v) => PartsIn(p, v, k, Has(t, n))
  <2>1. \A j \in 1 .. k : j = k \/ j \in 1 .. k - 1
    BY <1>1, PartsPositive
  <2>2. Aligned(p, v) => EsLoop(PartOf(p, v, k)) \subseteq Has(t, n)
    BY <1>7, <1>14
  <2> QED  BY <1>7, <2>1, <2>2 DEF PartsIn
<1>9. ASSUME NEW q \in PmtPids, q # p
      PROVE  OpenAt(t, q, beat, low, n) /\ WholeAt(t, q, n) /\ StaysIn(t, q)
  <2>1. /\ t.section_remain[q] = s.section_remain[q] /\ t.packet_seq[q] = s.packet_seq[q]
        /\ t.whole[q] = s.whole[q] /\ t.seen[q] = s.seen[q] /\ t.over[q] = s.over[q]
    BY <1>2, <1>3, <1>9
  <2>2. WholeAt(s, q, n) /\ OpenAt(s, q, beat, low, n) /\ StaysIn(s, q)
    BY <1>9 DEF Whole
  <2>3. StaysIn(t, q)
    BY <2>1, <2>2 DEF StaysIn
  <2> QED  BY <1>7, <2>1, <2>2, <2>3, Wider
<1>10. t.section_remain[p] = rest /\ t.packet_seq[p] = pk.cc
       /\ t.whole[p] = (IF rest = 0 THEN v ELSE s.whole[p])
       /\ t.seen[p] = s.seen[p] \cup {v} /\ t.over[p] = (s.over[p] \/ into)
  BY <1>1, <1>2, <1>3
<1>15. StaysIn(t, p)
  <2>1. StaysIn(s, p)
    BY <1>1 DEF Whole
  <2> SUFFICES ASSUME \A w \in t.seen[p] : Aligned(p, w) PROVE ~t.over[p]
    BY DEF StaysIn
  <2>2. Aligned(p, v) /\ ~s.over[p]
    BY <1>10, <2>1 DEF StaysIn
  <2> QED  BY <1>10, <1>14, <2>2
<1>11. WholeAt(t, p, n)
  <2>1. CASE rest = 0
    <3>1. Aligned(p, v) => k = Parts(p, v)
      BY <1>5, <2>1
    <3> QED  BY <1>1, <1>8, <1>10, <2>1, <3>1 DEF WholeAt
  <2>2. CASE rest # 0
    <3>1. t.whole[p] = s.whole[p] /\ WholeAt(s, p, n)
      BY <1>1, <1>10, <2>2 DEF Whole
    <3> QED  BY <1>7, <3>1, Wider
  <2> QED  BY <2>1, <2>2
<1>12. OpenAt(t, p, beat, low, n)
  <2>1. CASE rest = 0
    BY <1>10, <2>1 DEF OpenAt
  <2>2. CASE rest # 0 /\ Aligned(p, v)
    <3>1. k \in 1 .. Parts(p, v) - 1 /\ Parts(p, v) > 1
      BY <1>1, <1>5, <2>2, PartsPositive
    <3>2. beat[p][pk.cc] = k
      BY <2>2, <3>1 DEF IsPart, Long
    <3>3. rest = Len(Section[p][v]) - (k * Room)
      BY <1>5, <2>2, <3>1
    <3>4. ReadTo(t, p, v, beat, n)
      <4> HIDE DEF p, v, L
      <4> QED  BY <1>8, <1>10, <2>2, <3>1, <3>2, <3>3 DEF ReadTo, p, v
    <3> HIDE DEF p, v
    <3> QED  BY <1>1, <3>1, <3>4 DEF OpenAt, p, v
  <2>3. CASE ~Aligned(p, v)
    <3>1. Parts(p, v) > 1
      <4>1. Parts(p, v) \in Nat \ {0}
        BY <1>1, PartsPositive
      <4>2. Parts(p, v) = 1 => \A i \in 1 .. Parts(p, v) - 1 : FALSE
        OBVIOUS
      <4> QED  BY <2>3, <4>1, <4>2 DEF Aligned
    <3> HIDE DEF p, v
    <3> QED  BY <1>1, <2>3, <3>1 DEF OpenAt, p, v
  <2> QED  BY <2>1, <2>2, <2>3
<1>13. Covers(t, beat, low, n)
  BY <1>9, <1>11, <1>12, <1>15 DEF Covers, Whole
<1> QED  BY <1>13 DEF t

\* So does AnalyzePmt: a packet whose counter follows is the next of the open section, or
\* it is not to be read anyway.
LEMMA PmtCovers ==
  ASSUME CounterTells, NEW s \in Splitters, NEW beat, Beats(beat), NEW low, NEW high,
         NEW n \in 1 .. 2, NEW pk \in Numbered(beat), pk.pid \in PmtPids,
         Rises(low, high, pk), Covers(s, beat, low, n)
  PROVE  Covers(AnalyzePmt(s, pk, n).sp, beat, high, n)
<1> DEFINE p == pk.pid
           v == pk.version
           a == AnalyzePmt(s, pk, n)
<1>1. pk \in PmtPackets /\ pk.cc \in Counters /\ p \in PmtPids
  BY PacketKinds DEF Numbered
<1>2. PICK k \in 1 .. Parts(p, v) : IsPart(pk, k, beat)
  BY DEF Numbered
<1>3. v \in DOMAIN Pmt[p] /\ v \in Nat /\ k \in Nat \ {0} /\ Parts(p, v) \in Nat
  BY <1>1, <1>2, PartsPositive DEF PmtPackets
<1>4. /\ low \in Lows /\ high \in Lows /\ low[p] <= v /\ v <= high[p]
      /\ Whole(s, n) /\ \A q \in PmtPids : OpenAt(s, q, beat, low, n)
      /\ Covers(s, beat, high, n)
  BY CoversLater DEF Rises, Covers
<1>5. \A q \in PmtPids : OpenAt(s, q, beat, high, n)
  BY <1>4 DEF Covers
<1>6. CASE pk.start
  <2> DEFINE t == Begun(s, p, v, n)
  <2>1. a = AnalyzeEs(t, pk, n)
    BY <1>6 DEF AnalyzePmt, Begun
  <2>2. s.section_remain \in [PmtPids -> Nat]
    BY DEF Splitters
  <2>3. /\ t.pids = Marked(s.pids, Own(p, v), n) /\ SameRead(s, t)
        /\ t.packet_seq = s.packet_seq
        /\ t.section_remain = [s.section_remain EXCEPT ![p] = Len(Section[p][v])]
        /\ t \in Splitters
    <3>1. p \in PmtPids /\ v \in DOMAIN Pmt[p] /\ v \in Nat /\ n \in 1 .. 2 /\ s \in Splitters
      BY <1>1, <1>3
    <3> HIDE DEF p, v
    <3>2. Opened(s, t, p, v, n)
      BY ONLY <3>1, BeginOpens
    <3> HIDE DEF t
    <3> QED  BY <3>2 DEF Opened, Own, SameRead
  <2>4. Own(p, v) \subseteq AllPids
    BY <1>1, <1>3, SectionPids
  <2> HIDE DEF t, a
  <2>5. Has(s, n) \subseteq Has(t, n) /\ Own(p, v) \subseteq Has(t, n)
    <3> DEFINE own == Own(p, v)
    <3>1. s \in Splitters /\ n \in 1 .. 2 /\ t.pids = Marked(s.pids, own, n)
      BY <2>3
    <3> HIDE DEF own
    <3>2. Has(s, n) \subseteq Has(t, n) /\ own \cap AllPids \subseteq Has(t, n)
      BY ONLY <3>1, MarkedHas
    <3> QED  BY <2>4, <3>2 DEF own
  <2>6. k = 1
    BY <1>2, <1>6 DEF IsPart
  <2>7. t.section_remain[p] = Len(Section[p][v]) - ((k - 1) * Room)
    <3>1. (k - 1) * Room = 0
      <4>1. \A b \in Nat : (1 - 1) * b = 0
        OBVIOUS
      <4> QED  BY <2>6, <4>1, SplitterAssumption
    <3>2. Len(Section[p][v]) \in Nat
      BY <1>1, <1>3, SectionLaid DEF Laid
    <3>3. t.section_remain[p] = Len(Section[p][v])
      BY <1>1, <2>2, <2>3
    <3> QED  BY <3>1, <3>2, <3>3
  <2>8. PartsIn(p, v, k - 1, Has(t, n))
    <3>1. \A j \in 1 .. k - 1 : FALSE
      BY <2>6
    <3> QED  BY <2>5, <3>1 DEF PartsIn
  <2>9. Whole(t, n)
    BY <1>4, <2>3, <2>5, WholeOn
  <2>10. \A q \in PmtPids : q # p => OpenAt(t, q, beat, high, n)
    <3> SUFFICES ASSUME NEW q \in PmtPids, q # p PROVE OpenAt(t, q, beat, high, n)
      OBVIOUS
    <3>1. OpenAt(s, q, beat, high, n)
      BY <1>5
    <3>2. t.section_remain[q] = s.section_remain[q]
      BY <1>1, <2>2, <2>3
    <3> QED  BY <2>3, <2>5, <3>1, <3>2, Wider
  <2>11. Covers(AnalyzeEs(t, pk, n).sp, beat, high, n)
    BY <1>1, <1>2, <1>4, <2>3, <2>7, <2>8, <2>9, <2>10, EsCovers
  <2> QED  BY <2>1, <2>11 DEF a
<1>7. CASE ~pk.start /\ (s.section_remain[p] = 0 \/ pk.cc # (s.packet_seq[p] + 1) % Cc)
  BY <1>4, <1>7 DEF AnalyzePmt
<1>8. CASE ~pk.start /\ ~(s.section_remain[p] = 0 \/ pk.cc # (s.packet_seq[p] + 1) % Cc)
  <2>1. a = AnalyzeEs(s, pk, n)
    BY <1>8 DEF AnalyzePmt
  <2>2. PICK w \in DOMAIN Pmt[p] :
          w <= low[p] /\ Parts(p, w) > 1 /\ (Aligned(p, w) => ReadTo(s, p, w, beat, n))
    BY <1>1, <1>4, <1>8 DEF OpenAt
  <2>3. k # 1 /\ Parts(p, v) > 1
    BY <1>2, <1>3, <1>8 DEF IsPart
  <2>4. w <= v
    <3>1. w \in Nat /\ low[p] \in Nat
      BY <1>1, <1>4, Versioned DEF Lows
    <3> QED  BY <1>3, <1>4, <2>2, <3>1
  <2>5. ASSUME Aligned(p, v)
        PROVE  s.section_remain[p] = Len(Section[p][v]) - ((k - 1) * Room)
               /\ PartsIn(p, v, k - 1, Has(s, n))
    <3>1. Long(p, v)
      BY <2>3, <2>5 DEF Long
    <3>2. w = v
      BY <1>1, <1>3, <2>2, <2>4, <3>1, OneLong
    <3>3. ReadTo(s, p, v, beat, n)
      BY <2>2, <2>5, <3>2
    <3>4. PICK j \in 1 .. Parts(p, v) - 1 :
            /\ s.section_remain[p] = Len(Section[p][v]) - (j * Room)
            /\ s.packet_seq[p] \in Counters /\ beat[p][s.packet_seq[p]] = j
            /\ PartsIn(p, v, j, Has(s, n))
      BY <3>3 DEF ReadTo
    <3>5. Rounds(beat[p], Parts(p, v))
      BY <1>1, <1>3, <3>1 DEF Beats
    <3>6. beat[p][pk.cc] = j + 1
      <4>1. beat[p][(s.packet_seq[p] + 1) % Cc] =
              IF beat[p][s.packet_seq[p]] = Parts(p, v) THEN 1 ELSE beat[p][s.packet_seq[p]] + 1
        BY <3>4, <3>5 DEF Rounds
      <4>2. j # Parts(p, v)
        BY <1>3, <3>4
      <4> QED  BY <1>8, <3>4, <4>1, <4>2
    <3>7. beat[p][pk.cc] = k
      BY <1>2, <3>1 DEF IsPart
    <3>8. k - 1 = j
      BY <1>3, <3>4, <3>6, <3>7
    <3> QED  BY <3>4, <3>8
  <2> HIDE DEF a
  <2>6. Covers(AnalyzeEs(s, pk, n).sp, beat, high, n)
    BY <1>1, <1>2, <1>4, <1>5, <2>5, EsCovers
  <2> QED  BY <2>1, <2>6 DEF a
<1> QED  BY <1>6, <1>7, <1>8

-----------------------------------------------------------------------------
(* Selection: what was read is marked *)

\* Who tried "epg" has the EPG.
EpgIn(s) == "epg" \in Tried(s.sid_list) => EpgPids \subseteq Has(s, 1)
SelectCovers(s, beat, low) ==
  Covers(s, beat, low, 1) /\ (s.pat # NoPat => EpgIn(s))

\* The analysis of a PMT only adds marks.
LEMMA PmtAdds ==
  ASSUME NEW s \in Splitters, NEW pk \in PmtPackets, NEW n \in 1 .. 2
  PROVE  Has(s, n) \subseteq Has(AnalyzePmt(s, pk, n).sp, n)
<1> DEFINE p == pk.pid
           v == pk.version
           t == Begun(s, p, v, n)
           a == AnalyzePmt(s, pk, n)
<1>1. p \in PmtPids /\ v \in DOMAIN Pmt[p] /\ v \in Nat
  BY DEF PmtPackets
<1>2. ASSUME NEW u \in Splitters
      PROVE  Has(u, n) \subseteq Has(AnalyzeEs(u, pk, n).sp, n)
  <2> DEFINE w == AnalyzeEs(u, pk, n).sp
             found == EsLoop(SubSeq(pk.cells, 1, Nall(u, pk)))
  <2> HIDE DEF w
  <2>1. Searched(u, w, pk, n)
    BY EsKeeps DEF w
  <2>2. w.pids = Marked(u.pids, found, n)
    BY <2>1 DEF Searched
  <2> HIDE DEF found
  <2>3. Has(u, n) \subseteq Has(w, n)
    BY <2>2, MarkedHas
  <2> QED  BY <2>3 DEF w
<1>3. CASE pk.start
  <2>1. a = AnalyzeEs(t, pk, n)
    BY <1>3 DEF AnalyzePmt, Begun
  <2>2. Opened(s, t, p, v, n)
    <3>1. p \in PmtPids /\ v \in DOMAIN Pmt[p] /\ v \in Nat /\ n \in 1 .. 2 /\ s \in Splitters
      BY <1>1
    <3> HIDE DEF p, v
    <3> QED  BY ONLY <3>1, BeginOpens
  <2> HIDE DEF t, a
  <2>3. t \in Splitters /\ t.pids = Marked(s.pids, Own(p, v), n)
    BY <2>2 DEF Opened, Own
  <2>4. Has(s, n) \subseteq Has(t, n)
    <3> HIDE DEF p, v
    <3> QED  BY <2>3, MarkedHas
  <2>5. Has(t, n) \subseteq Has(AnalyzeEs(t, pk, n).sp, n)
    BY <1>2, <2>3
  <2>6. Has(s, n) \subseteq Has(a.sp, n)
    BY <2>1, <2>4, <2>5
  <2> QED  BY <2>6 DEF a
<1>4. CASE ~pk.start /\ (s.section_remain[p] = 0 \/ pk.cc # (s.packet_seq[p] + 1) % Cc)
  BY <1>4 DEF AnalyzePmt
<1>5. CASE ~pk.start /\ ~(s.section_remain[p] = 0 \/ pk.cc # (s.packet_seq[p] + 1) % Cc)
  <2>1. a = AnalyzeEs(s, pk, n)
    BY <1>5 DEF AnalyzePmt
  <2> QED  BY <1>2, <2>1
<1> QED  BY <1>3, <1>4, <1>5

\* AnalyzePat marks what was chosen, the EPG with it, and reads no PMT.
LEMMA PatCovers ==
  ASSUME NEW s, Selecting(s), NEW beat, NEW low, SelectCovers(s, beat, low),
         NEW count \in PatCounts, NEW stack
  PROVE  SelectCovers(AnalyzePat(s, count, stack), beat, low)
<1>1. CASE s.pat # NoPat
  BY <1>1 DEF AnalyzePat
<1>2. CASE s.pat = NoPat
  <2> DEFINE chosen == Chosen(s.sid_list, stack)
             set == ToSet(chosen)
             S == set \cup EpgOf(Tried(s.sid_list))
             t == AnalyzePat(s, count, stack)
  <2>1. s \in Splitters
    BY DEF Selecting
  <2>2. /\ t.pids = Marked(s.pids, S, 1) /\ t.section_remain = s.section_remain
        /\ t.packet_seq = s.packet_seq /\ SameRead(s, t) /\ t.sid_list = s.sid_list
    <3> DEFINE version == [i \in DOMAIN chosen |-> [pid |-> chosen[i], version |-> 0]]
               pmts == [p \in PmtPids |-> IF p \in set THEN 1 ELSE s.pmt_pids[p]]
               pat == [cc |-> Cc + count, pids |-> set]
               marks == Marked(s.pids, S, 1)
               length == Len(chosen)
    <3>1. t = [s EXCEPT !.pmt_retain = length, !.pmt_version = version,
                        !.pmt_pids = pmts, !.pids = marks, !.pat = pat]
      BY <1>2 DEF AnalyzePat
    <3> HIDE DEF version, pmts, pat, marks, t, length
    <3>2. /\ t.pids = marks /\ t.section_remain = s.section_remain
          /\ t.packet_seq = s.packet_seq /\ SameRead(s, t) /\ t.sid_list = s.sid_list
      BY <2>1, <3>1 DEF Splitters, SameRead
    <3> QED  BY <3>2 DEF marks
  <2>3. "epg" \in Tried(s.sid_list) => EpgPids \subseteq S
    BY DEF EpgOf
  <2>4. EpgPids \subseteq AllPids
    BY DEF AllPids
  <2> HIDE DEF S, t
  <2>5. Has(s, 1) \subseteq Has(t, 1) /\ S \cap AllPids \subseteq Has(t, 1)
    <3>1. 1 \in 1 .. 2 /\ t.pids = Marked(s.pids, S, 1)
      BY <2>2
    <3> QED  BY ONLY <2>1, <3>1, MarkedHas
  <2>6. Covers(t, beat, low, 1)
    BY <2>2, <2>5, CoversOn DEF SelectCovers
  <2>7. EpgIn(t)
    BY <2>2, <2>3, <2>4, <2>5 DEF EpgIn
  <2>8. SelectCovers(t, beat, low)
    BY <2>6, <2>7 DEF SelectCovers
  <2> QED  BY <2>8 DEF t
<1> QED  BY <1>1, <1>2

\* A packet examined while selecting
LEMMA SelectReads ==
  ASSUME CounterTells, NEW s, Selecting(s), NEW beat, Beats(beat), NEW low, NEW high,
         SelectCovers(s, beat, low), NEW pk \in Numbered(beat), pk.pid \in PmtPids,
         Rises(low, high, pk)
  PROVE  SelectCovers(AnalyzePmt(s, pk, 1).sp, beat, high)
<1> DEFINE t == AnalyzePmt(s, pk, 1).sp
<1>1. pk \in PmtPackets /\ s \in Splitters /\ 1 \in 1 .. 2
  BY PacketKinds DEF Numbered, Selecting
<1>2. Covers(t, beat, high, 1)
  BY <1>1, PmtCovers DEF SelectCovers
<1>3. Has(s, 1) \subseteq Has(t, 1)
  BY <1>1, PmtAdds
<1>4. Same(s, t)
  BY <1>1, PmtKeeps
<1> HIDE DEF t
<1>5. SelectCovers(t, beat, high)
  BY <1>2, <1>3, <1>4 DEF SelectCovers, EpgIn, Same
<1> QED  BY <1>5 DEF t

\* The packets of a block come version after version.
Fits(blk, lows) ==
  /\ lows \in [1 .. Len(blk) + 1 -> Lows]
  /\ \A i \in 1 .. Len(blk) : Rises(lows[i], lows[i + 1], blk[i])
Covered(n, beat, lows, low) ==
  {st \in Scans(n) : /\ st.blk \in Seq(Numbered(beat)) /\ Fits(st.blk, lows)
                     /\ SelectCovers(st.sp, beat, low)}

\* So split_select leaves marked what it has read, packet by packet.
LEMMA ExamineCovers ==
  ASSUME CounterTells, NEW beat, Beats(beat), NEW lows, NEW n \in Nat,
         NEW i \in 1 .. n, NEW st \in Covered(n, beat, lows, lows[i]), NEW stack
  PROVE  Examine(st, i, stack) \in Covered(n, beat, lows, lows[i + 1])
<1> DEFINE N == Numbered(beat)
           low == lows[i]
           high == lows[i + 1]
           In(s, blk) == [sp |-> s, blk |-> blk]
<1>0. st \in Covered(n, beat, lows, low)
  OBVIOUS
<1>1. ASSUME NEW u \in Covered(n, beat, lows, low)
      PROVE  /\ u = In(u.sp, u.blk) /\ Selecting(u.sp) /\ u.blk \in Seq(Packets)
             /\ Len(u.blk) = n /\ SelectCovers(u.sp, beat, low)
             /\ u.blk \in Seq(N) /\ u.blk[i] \in N
             /\ Fits(u.blk, lows) /\ Rises(low, high, u.blk[i])
  <2>1. /\ u = In(u.sp, u.blk) /\ Selecting(u.sp) /\ u.blk \in Seq(Packets)
        /\ Len(u.blk) = n /\ SelectCovers(u.sp, beat, low) /\ u.blk \in Seq(N)
        /\ Fits(u.blk, lows)
    BY DEF Scans, Covered
  <2>2. i \in 1 .. Len(u.blk)
    BY <2>1
  <2>3. Rises(low, high, u.blk[i])
    BY <2>1, <2>2 DEF Fits
  <2> HIDE DEF N
  <2>4. u.blk[i] \in N
    BY <2>1, <2>2, ElementOfSeq
  <2> QED  BY <2>1, <2>3, <2>4
<1>2. \A s, blk, c : /\ Selecting(s) /\ blk \in Seq(Packets) /\ Len(blk) = n
                     /\ blk \in Seq(N) /\ Fits(blk, lows) /\ SelectCovers(s, beat, c)
                     => In(s, blk) \in Covered(n, beat, lows, c)
  BY DEF Covered, Scans, Selecting
<1>3. low \in Lows /\ high \in Lows /\ Below(low, high)
  BY <1>0, <1>1 DEF Rises
<1> HIDE DEF low, high, N
<1>4. \A s : SelectCovers(s, beat, low) => SelectCovers(s, beat, high)
  BY <1>3, CoversLater DEF SelectCovers
<1> DEFINE u == ExaminePat(st, i, stack)
<1>5. u \in Covered(n, beat, lows, low)
  <2>1. CASE st.blk[i].pid = "0x00"
    <3>1. st.blk[i] \in Packets
      BY <1>0, <1>1 DEF Numbered, N
    <3>2. st.blk[i].count \in PatCounts
      BY <2>1, <3>1, PacketKinds
    <3> DEFINE t == AnalyzePat(st.sp, st.blk[i].count, stack)
    <3>3. u = In(t, st.blk)
      <4>1. st = In(st.sp, st.blk)
        BY <1>0, <1>1
      <4> QED  BY <2>1, <4>1 DEF ExaminePat
    <3>4. Selecting(t) /\ SelectCovers(t, beat, low)
      <4>1. Selecting(st.sp) /\ SelectCovers(st.sp, beat, low)
        BY <1>0, <1>1
      <4> QED  BY <3>2, <4>1, PatKeeps, PatCovers
    <3> HIDE DEF t, u, In
    <3> QED  BY <1>0, <1>1, <1>2, <3>3, <3>4
  <2>2. CASE st.blk[i].pid # "0x00"
    BY <1>0, <2>2 DEF ExaminePat
  <2> QED  BY <2>1, <2>2
<1> HIDE DEF u
<1>6. ExaminePmt(u, i) \in Covered(n, beat, lows, high)
  <2> DEFINE pk == u.blk[i]
             a == AnalyzePmt(u.sp, pk, 1)
  <2>0. /\ u = In(u.sp, u.blk) /\ Selecting(u.sp) /\ u.blk \in Seq(Packets)
        /\ Len(u.blk) = n /\ SelectCovers(u.sp, beat, low)
        /\ u.blk \in Seq(N) /\ pk \in N
        /\ Fits(u.blk, lows) /\ Rises(low, high, pk)
    BY <1>1, <1>5
  <2>1. CASE ~(pk.pid \in PmtPids /\ u.sp.pmt_pids[pk.pid] = 1)
    <3>1. ExaminePmt(u, i) = u
      BY <2>1 DEF ExaminePmt
    <3>2. In(u.sp, u.blk) \in Covered(n, beat, lows, high)
      <4> HIDE DEF In, pk
      <4> QED  BY <1>2, <1>4, <2>0
    <3> HIDE DEF In
    <3> QED  BY <2>0, <3>1, <3>2
  <2>2. CASE pk.pid \in PmtPids /\ u.sp.pmt_pids[pk.pid] = 1
    <3>0. pk \in PmtPackets /\ u.sp.pmt_pids[pk.pid] # 0 /\ pk \in Numbered(beat)
      <4>1. pk \in Packets /\ pk \in Numbered(beat)
        BY <2>0 DEF Numbered, N
      <4> QED  BY <2>2, <4>1, PacketKinds
    <3>1. SelectCovers(a.sp, beat, high)
      <4> HIDE DEF pk, In
      <4> QED  BY <2>0, <2>2, <3>0, SelectReads
    <3>2. Selecting(a.sp) /\ Same(u.sp, a.sp)
      <4> HIDE DEF pk, In
      <4> QED  BY <2>0, <3>0, SelectAnalyzes
    <3>3. ExaminePmt(u, i) = TakeOut(u, i, a)
      BY <2>2 DEF ExaminePmt
    <3> HIDE DEF a
    <3>4. CASE a.result # "success"
      <4>1. TakeOut(u, i, a) = In(a.sp, u.blk)
        BY <2>0, <3>4 DEF TakeOut
      <4>2. In(a.sp, u.blk) \in Covered(n, beat, lows, high)
        <5> HIDE DEF In, pk
        <5> QED  BY <1>2, <2>0, <3>1, <3>2
      <4> QED  BY <3>3, <4>1, <4>2
    <3>5. CASE a.result = "success"
      <4> DEFINE t == [a.sp EXCEPT !.pmt_pids[pk.pid] = @ + 1, !.pmt_counter = @ + 1]
                 null == [pid |-> NullPid]
                 blk == [u.blk EXCEPT ![i] = null]
                 w == TakeOut(u, i, a)
      <4>1. w = In(t, blk)
        <5>1. w = [u EXCEPT !.sp = t, !.blk[i] = null]
          BY <3>5 DEF TakeOut
        <5> HIDE DEF t, w, null
        <5> QED  BY <2>0, <5>1
      <4>2. Selecting(t)
        <5>1. a.sp.pmt_pids[pk.pid] = 1 /\ pk.pid \in PmtPids
          BY <2>2, <3>2 DEF Same
        <5> HIDE DEF pk
        <5> QED  BY <3>2, <5>1, CountKeeps
      <4>3. null \in Packets /\ null \in N /\ null.pid \notin PmtPids
        <5>1. null \in Packets
          BY DEF Packets
        <5>2. null.pid \notin PmtPids
          BY SplitterAssumption
        <5> QED  BY <5>1, <5>2 DEF Numbered, N
      <4>4. blk \in Seq(Packets) /\ Len(blk) = n /\ blk \in Seq(N)
        <5>1. i \in 1 .. Len(u.blk)
          BY <2>0
        <5> HIDE DEF null
        <5> QED  BY <2>0, <4>3, <5>1, ExceptSeq
      <4>5. Fits(blk, lows)
        <5>1. Rises(low, high, null)
          <6> HIDE DEF null
          <6> QED  BY <1>3, <4>3 DEF Rises
        <5>2. \A j \in 1 .. n : blk[j] = IF j = i THEN null ELSE u.blk[j]
          <6>1. DOMAIN u.blk = 1 .. n
            BY <2>0
          <6> HIDE DEF null
          <6> QED  BY <6>1
        <5>3. lows \in [1 .. n + 1 -> Lows]
              /\ \A j \in 1 .. n : Rises(lows[j], lows[j + 1], u.blk[j])
          BY <2>0 DEF Fits
        <5> HIDE DEF blk, null, pk, In
        <5>4. \A j \in 1 .. n : Rises(lows[j], lows[j + 1], blk[j])
          BY <5>1, <5>2, <5>3 DEF low, high
        <5> QED  BY <4>4, <5>3, <5>4 DEF Fits
      <4>6. a.sp \in Splitters
        BY <3>2 DEF Selecting
      <4>7. /\ t.pids = a.sp.pids /\ t.section_remain = a.sp.section_remain
            /\ t.packet_seq = a.sp.packet_seq /\ SameRead(a.sp, t)
            /\ t.sid_list = a.sp.sid_list /\ t.pat = a.sp.pat
        <5> HIDE DEF pk
        <5> QED  BY <4>6 DEF Splitters, SameRead
      <4> HIDE DEF t, blk, w
      <4>8. Has(t, 1) = Has(a.sp, 1)
        BY <4>7 DEF Has
      <4>9. SelectCovers(t, beat, high)
        <5>1. Covers(a.sp, beat, high, 1) /\ Has(a.sp, 1) \subseteq Has(t, 1)
          BY <3>1, <4>8 DEF SelectCovers
        <5>2. Covers(t, beat, high, 1)
          BY <4>7, <5>1, CoversOn
        <5> QED  BY <3>1, <4>7, <4>8, <5>2 DEF SelectCovers, EpgIn
      <4>10. In(t, blk) \in Covered(n, beat, lows, high)
        <5> HIDE DEF In, pk
        <5> QED  BY <1>2, <4>2, <4>4, <4>5, <4>9
      <4> QED  BY <3>3, <4>1, <4>10 DEF w
    <3> QED  BY <3>4, <3>5
  <2> QED  BY <2>1, <2>2
<1> QED  BY <1>6 DEF Examine, u, high

\* A sequence over a set is one over a larger set.
LEMMA SeqWider ==
  ASSUME NEW A, NEW B, A \subseteq B, NEW q \in Seq(A)
  PROVE  q \in Seq(B)
<1>1. Len(q) \in Nat /\ \A i \in 1 .. Len(q) : q[i] \in B
  BY ElementOfSeq
<1>2. q \in [1 .. Len(q) -> B]
  BY <1>1
<1> QED  BY <1>1, <1>2

\* So a selection leaves marked what it has read of a block, whose last packet it leaves.
LEMMA SelectionCovers ==
  ASSUME CounterTells, NEW beat, Beats(beat), NEW lows, NEW s, Selecting(s),
         NEW blk \in Seq(Numbered(beat)), blk # <<>>, Fits(blk, lows),
         SelectCovers(s, beat, lows[1]), NEW stack
  PROVE  ReadTs(s, blk, stack) \in Covered(Len(blk), beat, lows, lows[Len(blk)])
<1> DEFINE n == Len(blk)
           D == [i \in 1 .. n |-> Covered(n, beat, lows, lows[i])]
<1>1. n \in Nat \ {0}
  OBVIOUS
<1>2. blk \in Seq(Packets)
  <2>1. Numbered(beat) \subseteq Packets
    BY DEF Numbered
  <2>2. blk \in Seq(Numbered(beat))
    OBVIOUS
  <2> QED  BY ONLY <2>1, <2>2, SeqWider
<1>3. [sp |-> s, blk |-> blk] \in D[1]
  <2>1. s \in Splitters
    BY DEF Selecting
  <2>2. [sp |-> s, blk |-> blk] \in Covered(n, beat, lows, lows[1])
    BY <1>2, <2>1 DEF Covered, Scans
  <2> QED  BY <1>1, <2>2
<1>4. \A i \in 1 .. n : i # 1 => \A st \in D[i-1] :
        (IF Complete(st.sp) THEN st ELSE Examine(st, i - 1, stack)) \in D[i]
  <2> SUFFICES ASSUME NEW i \in 1 .. n, i # 1, NEW st \in D[i-1]
               PROVE  (IF Complete(st.sp) THEN st ELSE Examine(st, i - 1, stack)) \in D[i]
    OBVIOUS
  <2> DEFINE j == i - 1
  <2>1. j \in 1 .. n /\ j + 1 = i /\ n \in Nat
    BY <1>1
  <2>2. st \in Covered(n, beat, lows, lows[j]) /\ D[i] = Covered(n, beat, lows, lows[j + 1])
    BY <2>1
  <2> HIDE DEF D, n, j
  <2>3. Examine(st, j, stack) \in Covered(n, beat, lows, lows[j + 1])
    BY <2>1, <2>2, ExamineCovers
  <2>4. st \in Covered(n, beat, lows, lows[j + 1])
    <3>1. st \in Scans(n) /\ Fits(st.blk, lows) /\ SelectCovers(st.sp, beat, lows[j])
          /\ Len(st.blk) = n /\ st.blk \in Seq(Numbered(beat))
      BY <2>2 DEF Covered, Scans
    <3>2. Rises(lows[j], lows[j + 1], st.blk[j])
      BY <2>1, <3>1 DEF Fits
    <3>3. SelectCovers(st.sp, beat, lows[j + 1])
      BY <3>1, <3>2, CoversLater DEF SelectCovers, Rises
    <3> QED  BY <3>1, <3>3 DEF Covered
  <2> QED  BY <2>2, <2>3, <2>4 DEF j
<1>5. D[n] = Covered(n, beat, lows, lows[n])
  BY <1>1
<1> HIDE DEF D
<1>6. ReadTs(s, blk, stack) \in D[n]
  BY <1>3, <1>4, SplitSelectAt
<1> QED  BY <1>5, <1>6

-----------------------------------------------------------------------------
(* Splitting: the marks of a rescan are twos, and ones at its end, when no    *)
(* section that is open is read on.                                           *)

SplitCovers(s, beat, low) ==
  IF Complete(s) THEN Whole(s, 1) /\ EpgIn(s) ELSE Covers(s, beat, low, 2)

\* Packets to come may be newer.
LEMMA SplitLater ==
  ASSUME NEW s, NEW beat, NEW low \in Lows, NEW high \in Lows, Below(low, high),
         SplitCovers(s, beat, low)
  PROVE  SplitCovers(s, beat, high)
BY CoversLater DEF SplitCovers

\* A selection that is complete has the marks that splitting starts from.
LEMMA CompleteCovers ==
  ASSUME NEW s, Selecting(s), Complete(s), NEW beat, NEW low, SelectCovers(s, beat, low),
         NEW high
  PROVE  SplitCovers(s, beat, high)
<1>1. s.pat # NoPat
  BY CompleteSplits DEF Splitting
<1> QED  BY <1>1 DEF SelectCovers, SplitCovers, Covers

\* Nothing is open or read after a clear.
LEMMA ClearCovers ==
  ASSUME NEW s \in Splitters, NEW beat, NEW low, NEW n
  PROVE  Covers(Clear(s), beat, low, n)
<1> DEFINE none == [p \in PmtPids |-> 0]
           empty == [p \in PmtPids |-> {}]
           never == [p \in PmtPids |-> FALSE]
           pids == OnlyPmts(s)
           t == [s EXCEPT !.pids = pids, !.pmt_counter = 0, !.section_remain = none,
                          !.packet_seq = none, !.whole = none, !.seen = empty, !.over = never]
<1>1. Clear(s) = t
  BY DEF Clear, ClearTo
<1>2. \A p \in PmtPids : none[p] = 0 /\ never[p] = FALSE
  OBVIOUS
<1> HIDE DEF none, empty, never, pids
<1>3. t.section_remain = none /\ t.whole = none /\ t.over = never
  BY DEF Splitters
<1> HIDE DEF t
<1>4. Covers(t, beat, low, n)
  BY <1>2, <1>3 DEF Covers, Whole, OpenAt, WholeAt, StaysIn
<1> QED  BY <1>1, <1>4

\* What was marked 2 is marked at the end, and the EPG with it.
LEMMA FinishCovers ==
  ASSUME NEW s \in Splitters, NEW beat, NEW low, Covers(s, beat, low, 2)
  PROVE  SplitCovers(Finish(s), beat, low)
<1>1. CASE ~Complete(s)
  BY <1>1 DEF Finish, SplitCovers
<1>2. CASE Complete(s)
  <2> DEFINE less == [x \in AllPids |-> IF s.pids[x] > 0 THEN s.pids[x] - 1 ELSE 0]
             epg == IF "epg" \in ToSet(s.sid_list) THEN EpgPids ELSE {}
             marks == Marked(less, epg, 1)
             t == Finish(s)
  <2>1. s.pids \in [AllPids -> 0 .. 2]
    BY DEF Splitters
  <2>2. /\ less \in [AllPids -> 0 .. 2]
        /\ \A x \in AllPids : s.pids[x] >= 2 => less[x] >= 1
    <3>1. \A x \in AllPids : s.pids[x] \in 0 .. 2
      BY <2>1
    <3>2. \A x \in AllPids : less[x] = IF s.pids[x] > 0 THEN s.pids[x] - 1 ELSE 0
      OBVIOUS
    <3>3. \A x \in AllPids : less[x] \in 0 .. 2
      BY <3>1
    <3>4. less \in [AllPids -> 0 .. 2]
      BY <3>3
    <3> HIDE DEF less
    <3> QED  BY <3>1, <3>2, <3>4
  <2> HIDE DEF less, epg
  <2>3. \A x \in AllPids : marks[x] = IF x \in epg THEN 1 ELSE less[x]
    BY <2>2, MarkedType
  <2>4. t = [s EXCEPT !.pids = marks]
    <3> DEFINE u == [s EXCEPT !.pids = [x \in AllPids |-> IF @[x] > 0 THEN @[x] - 1 ELSE 0]]
    <3>1. u.pids = less /\ u.sid_list = s.sid_list
      BY DEF less, Splitters
    <3>2. u = [s EXCEPT !.pids = less]
      BY DEF less
    <3>3. t = addEpgPids(u)
      BY <1>2 DEF Finish
    <3> HIDE DEF u, t
    <3>4. t = [u EXCEPT !.pids = marks]
      BY <3>1, <3>3 DEF addEpgPids, epg, Splitters
    <3> HIDE DEF marks
    <3> QED  BY <3>2, <3>4 DEF Splitters
  <2> HIDE DEF marks, t
  <2>5. /\ t.pids = marks /\ t.section_remain = s.section_remain
        /\ t.packet_seq = s.packet_seq /\ SameRead(s, t) /\ t.sid_list = s.sid_list
        /\ t.pmt_counter = s.pmt_counter /\ t.pmt_retain = s.pmt_retain
    BY <2>4 DEF Splitters, SameRead
  <2>6. Has(s, 2) \subseteq Has(t, 1)
    BY <2>2, <2>3, <2>5 DEF Has
  <2>7. Whole(t, 1)
    BY <2>5, <2>6, WholeOn DEF Covers
  <2>8. Complete(t)
    BY <1>2, <2>5 DEF Complete
  <2>9. EpgIn(t)
    <3>1. Tried(s.sid_list) \subseteq ToSet(s.sid_list)
      BY DEF Tried, Turns, ToSet
    <3>2. EpgPids \subseteq AllPids
      BY DEF AllPids
    <3>3. "epg" \in Tried(s.sid_list) => EpgPids \subseteq epg
      BY <3>1 DEF epg
    <3>4. epg \cap AllPids \subseteq Has(t, 1)
      BY <2>3, <2>5 DEF Has
    <3> QED  BY <2>5, <3>2, <3>3, <3>4 DEF EpgIn
  <2>10. SplitCovers(t, beat, low)
    BY <2>7, <2>8, <2>9 DEF SplitCovers
  <2> QED  BY <2>10 DEF t
<1> QED  BY <1>1, <1>2

\* So a rescan, from its clear on, covers what it has read.
LEMMA RescanCovers ==
  ASSUME CounterTells, NEW s \in Splitters, NEW beat, Beats(beat), NEW low, NEW high,
         NEW pk \in Numbered(beat), pk.pid \in PmtPids, Rises(low, high, pk),
         SplitCovers(s, beat, low)
  PROVE  SplitCovers(RescanPID(s, pk), beat, high)
<1> DEFINE r == IF Complete(s) THEN Clear(s) ELSE s
           a == AnalyzePmt(r, pk, 2)
           c == Count(a)
<1>1. r \in Splitters
  BY ClearKeeps
<1>2. Covers(r, beat, low, 2)
  BY ClearCovers DEF SplitCovers
<1>3. pk \in PmtPackets /\ 2 \in 1 .. 2
  BY PacketKinds DEF Numbered
<1>4. Finish(c) = RescanPID(s, pk)
  BY DEF RescanPID, Rescan
<1> HIDE DEF r
<1>5. Covers(a.sp, beat, high, 2)
  BY <1>1, <1>2, <1>3, PmtCovers
<1>6. a.sp \in Splitters
  BY <1>1, <1>3, PmtKeeps
<1> HIDE DEF a
<1>7. /\ c \in Splitters /\ c.pids = a.sp.pids /\ c.section_remain = a.sp.section_remain
      /\ c.packet_seq = a.sp.packet_seq /\ SameRead(a.sp, c)
  <2>1. c = a.sp \/ c = [a.sp EXCEPT !.pmt_counter = @ + 1]
    BY DEF Count
  <2>2. a.sp.pmt_counter + 1 \in Nat
    BY <1>6 DEF Splitters
  <2> HIDE DEF c
  <2>3. CASE c = a.sp
    BY <1>6, <2>3 DEF SameRead
  <2>4. CASE c = [a.sp EXCEPT !.pmt_counter = @ + 1]
    <3>1. c \in Splitters
      BY <1>6, <2>2, <2>4 DEF Splitters
    <3>2. /\ c.pids = a.sp.pids /\ c.section_remain = a.sp.section_remain
          /\ c.packet_seq = a.sp.packet_seq /\ SameRead(a.sp, c)
      BY <1>6, <2>4 DEF Splitters, SameRead
    <3> QED  BY <3>1, <3>2
  <2> QED  BY <2>1, <2>3, <2>4
<1> HIDE DEF c
<1>8. Has(a.sp, 2) \subseteq Has(c, 2)
  BY <1>7 DEF Has
<1>9. Covers(c, beat, high, 2)
  BY <1>5, <1>7, <1>8, CoversOn
<1>10. SplitCovers(Finish(c), beat, high)
  BY <1>7, <1>9, FinishCovers
<1> QED  BY <1>4, <1>10

\* A PAT changes its counter only.
LEMMA PatSplitCovers ==
  ASSUME NEW s, Splitting(s), NEW beat, NEW low, SplitCovers(s, beat, low), NEW n
  PROVE  SplitCovers([s EXCEPT !.pat_count = n, !.pat.cc = n], beat, low)
<1> DEFINE t == [s EXCEPT !.pat_count = n, !.pat.cc = n]
<1>1. /\ t.pids = s.pids /\ t.section_remain = s.section_remain
      /\ t.packet_seq = s.packet_seq /\ SameRead(s, t) /\ t.sid_list = s.sid_list
      /\ t.pmt_counter = s.pmt_counter /\ t.pmt_retain = s.pmt_retain
  BY DEF Splitting, Counted, Splitters, SameRead
<1> HIDE DEF t
<1>2. \A m : Has(s, m) \subseteq Has(t, m)
  BY <1>1 DEF Has
<1>3. Complete(t) <=> Complete(s)
  BY <1>1 DEF Complete
<1>4. Complete(t) => Whole(t, 1) /\ EpgIn(t)
  <2> SUFFICES ASSUME Complete(t) PROVE Whole(t, 1) /\ EpgIn(t)
    OBVIOUS
  <2>1. Whole(s, 1) /\ EpgIn(s) /\ Has(s, 1) \subseteq Has(t, 1)
    BY <1>2, <1>3 DEF SplitCovers
  <2>2. Whole(t, 1)
    BY <1>1, <2>1, WholeOn
  <2> QED  BY <1>1, <2>1, <2>2 DEF EpgIn
<1>5. ~Complete(t) => Covers(t, beat, low, 2)
  <2> SUFFICES ASSUME ~Complete(t) PROVE Covers(t, beat, low, 2)
    OBVIOUS
  <2>1. Covers(s, beat, low, 2) /\ Has(s, 2) \subseteq Has(t, 2)
    BY <1>2, <1>3 DEF SplitCovers
  <2> QED  BY <1>1, <2>1, CoversOn
<1>6. SplitCovers(t, beat, low)
  BY <1>4, <1>5 DEF SplitCovers
<1> QED  BY <1>6 DEF t

\* So split_ts covers what it has read, packet by packet.
LEMMA TsCovers ==
  ASSUME CounterTells, NEW beat, Beats(beat), NEW lows, NEW s, Splitting(s),
         NEW blk \in Seq(Numbered(beat)), Fits(blk, lows), SplitCovers(s, beat, lows[1])
  PROVE  SplitCovers(split_ts(s, blk).sp, beat, lows[Len(blk) + 1])
<1> DEFINE n == Len(blk)
           C(low) == {st \in Results : Splitting(st.sp) /\ SplitCovers(st.sp, beat, low)}
           D == [i \in 0 .. n |-> C(lows[i + 1])]
<1>1. n \in Nat /\ 0 \in 0 .. n /\ n \in 0 .. n
  OBVIOUS
<1>2. [sp |-> s, out |-> <<>>] \in D[0]
  <2>1. [sp |-> s, out |-> <<>>] \in C(lows[1])
    BY DEF Splitting, Counted, Results
  <2> HIDE DEF C
  <2> QED  BY <1>1, <2>1
<1>3. ASSUME NEW low, NEW high, NEW st \in C(low), NEW pk \in Numbered(beat), Rises(low, high, pk)
      PROVE  Filter(st, pk) \in C(high)
  <2> DEFINE f == Filter(st, pk)
  <2>1. /\ st \in Results /\ Splitting(st.sp) /\ Counted(st.sp) /\ st.sp.pat # NoPat
        /\ pk \in Packets /\ SplitCovers(st.sp, beat, low)
    BY <1>3 DEF Splitting, Numbered
  <2>2. f \in Results /\ Splitting(f.sp)
    BY <2>1, FilterKeeps
  <2>3. low \in Lows /\ high \in Lows /\ Below(low, high) /\ Rises(low, high, pk)
    BY <1>3 DEF Rises
  <2>4. SplitCovers(f.sp, beat, high)
    <3>1. CASE pk.pid = "0x00"
      <4> DEFINE m == NextCount(st.sp)
                 s2 == st.sp
                 t == [s2 EXCEPT !.pat_count = m, !.pat.cc = m]
                 q == [pid |-> "0x00", count |-> m, pids |-> s2.pat.pids]
      <4>1. f = [st EXCEPT !.sp.pat_count = m, !.sp.pat.cc = m, !.out = Append(@, q)]
        BY <3>1 DEF Filter, FilterPat
      <4>2. st = [sp |-> s2, out |-> st.out]
        BY <2>1 DEF Results
      <4>3. SplitCovers(t, beat, high)
        <5>1. SplitCovers(s2, beat, high) /\ Splitting(s2)
          BY <2>1, <2>3, SplitLater
        <5> HIDE DEF m, s2
        <5> QED  BY <5>1, PatSplitCovers
      <4> HIDE DEF q, m, f, s2
      <4>4. f = [[sp |-> s2, out |-> st.out] EXCEPT !.sp.pat_count = m, !.sp.pat.cc = m, !.out = Append(@, q)]
        BY <4>1, <4>2
      <4>5. f.sp = t
        BY <4>4
      <4> QED  BY <4>3, <4>5
    <3>2. CASE pk.pid # "0x00"
      <4> DEFINE t == IF pk.pid \in PmtPids THEN FilterPmt(st.sp, pk) ELSE st.sp
      <4>1. f.sp = t
        BY <3>2 DEF Filter, Pass
      <4>2. t = st.sp \/ (t = RescanPID(st.sp, pk) /\ pk.pid \in PmtPids)
        BY DEF FilterPmt
      <4>3. st.sp \in Splitters
        BY <2>1 DEF Results
      <4>4. SplitCovers(st.sp, beat, high)
        BY <2>1, <2>3, SplitLater
      <4>5. pk.pid \in PmtPids => SplitCovers(RescanPID(st.sp, pk), beat, high)
        BY <2>1, <2>3, <4>3, RescanCovers
      <4> HIDE DEF t, f
      <4> QED  BY <4>1, <4>2, <4>4, <4>5
    <3> QED  BY <3>1, <3>2
  <2> HIDE DEF f
  <2>5. f \in C(high)
    BY <2>2, <2>4
  <2> QED  BY <2>5 DEF f
<1> HIDE DEF C
<1>4. \A i \in 1 .. n : \A st \in D[i-1] : Filter(st, blk[i]) \in D[i]
  <2> SUFFICES ASSUME NEW i \in 1 .. n, NEW st \in D[i-1] PROVE Filter(st, blk[i]) \in D[i]
    OBVIOUS
  <2>1. i - 1 \in 0 .. n /\ i \in 0 .. n /\ (i - 1) + 1 = i
    BY <1>1
  <2>2. st \in C(lows[i]) /\ D[i] = C(lows[i + 1])
    BY <2>1
  <2>3. blk[i] \in Numbered(beat)
    BY ElementOfSeq
  <2>4. Rises(lows[i], lows[i + 1], blk[i])
    BY DEF Fits
  <2> HIDE DEF D
  <2> QED  BY <1>3, <2>2, <2>3, <2>4
<1>5. D[n] = C(lows[n + 1])
  BY <1>1
<1> HIDE DEF D
<1>6. split_ts(s, blk) \in D[n]
  BY <1>2, <1>4, SplitTsAt
<1> QED  BY <1>5, <1>6 DEF C

-----------------------------------------------------------------------------
(* The invariant: nothing that was read is missing *)

\* The air is in time: the next packet of each PMT is the one its counter tells.
Timed(beat) ==
  /\ Beats(beat)
  /\ \A p \in PmtPids : cc[p] \in Counters /\ (Long(p, ver[p]) => beat[p][cc[p]] = part[p])
Known(beat, lows) ==
  /\ Timed(beat) /\ block \in Seq(Numbered(beat)) /\ Fits(block, lows)
  /\ \A i \in 1 .. Len(block) + 1 : Below(lows[i], ver)
  /\ mode = "select" => SelectCovers(sp, beat, lows[1])
  /\ mode = "on" => SplitCovers(sp, beat, lows[1])
CInv == IInv /\ \E beat, lows : Known(beat, lows)

\* b numbers the packets of the versions up to c as beat does.
Agrees(beat, b, c) ==
  \A p \in PmtPids : \A v \in DOMAIN Pmt[p] : v <= c[p] /\ Long(p, v) => b[p] = beat[p]

\* Other numbers for packets that were never sent change nothing.
LEMMA Moves ==
  ASSUME NEW beat, NEW b, NEW c \in Lows, Agrees(beat, b, c)
  PROVE  /\ \A pk \in Numbered(beat) :
              (pk.pid \in PmtPids => pk.version <= c[pk.pid]) => pk \in Numbered(b)
         /\ \A low \in Lows : \A s, n :
              Below(low, c) /\ Covers(s, beat, low, n) => Covers(s, b, low, n)
<1>1. ASSUME NEW pk \in Numbered(beat), pk.pid \in PmtPids => pk.version <= c[pk.pid]
      PROVE  pk \in Numbered(b)
  <2>1. pk \in Packets
    BY DEF Numbered
  <2>2. CASE pk.pid \notin PmtPids
    BY <2>1, <2>2 DEF Numbered
  <2>3. CASE pk.pid \in PmtPids
    <3>1. /\ pk.cc \in Counters
          /\ \E k \in 1 .. Parts(pk.pid, pk.version) : IsPart(pk, k, beat)
      BY <2>3 DEF Numbered
    <3>2. pk.version \in DOMAIN Pmt[pk.pid]
      BY <2>1, <2>3, PacketKinds DEF PmtPackets
    <3>3. Long(pk.pid, pk.version) => b[pk.pid] = beat[pk.pid]
      BY <1>1, <2>3, <3>2 DEF Agrees
    <3>4. \E k \in 1 .. Parts(pk.pid, pk.version) : IsPart(pk, k, b)
      BY <3>1, <3>3 DEF IsPart
    <3> QED  BY <2>1, <3>1, <3>4 DEF Numbered
  <2> QED  BY <2>2, <2>3
<1>2. ASSUME NEW low \in Lows, Below(low, c), NEW s, NEW n, NEW p \in PmtPids,
             OpenAt(s, p, beat, low, n)
      PROVE  OpenAt(s, p, b, low, n)
  <2> SUFFICES ASSUME s.section_remain[p] # 0
               PROVE  \E v \in DOMAIN Pmt[p] :
                        /\ v <= low[p] /\ Parts(p, v) > 1
                        /\ Aligned(p, v) => ReadTo(s, p, v, b, n)
    BY DEF OpenAt
  <2>1. PICK v \in DOMAIN Pmt[p] :
          /\ v <= low[p] /\ Parts(p, v) > 1
          /\ Aligned(p, v) => ReadTo(s, p, v, beat, n)
    BY <1>2 DEF OpenAt
  <2>2. v <= c[p]
    <3>1. v \in Nat /\ low[p] \in Nat /\ c[p] \in Nat /\ low[p] <= c[p]
      BY <1>2, Versioned DEF Lows, Below
    <3> QED  BY <2>1, <3>1
  <2>3. Aligned(p, v) => b[p] = beat[p]
    BY <2>1, <2>2 DEF Agrees, Long
  <2>4. Aligned(p, v) => ReadTo(s, p, v, b, n)
    BY <2>1, <2>3 DEF ReadTo
  <2> QED  BY <2>1, <2>4
<1>3. \A low \in Lows : \A s, n :
        Below(low, c) /\ Covers(s, beat, low, n) => Covers(s, b, low, n)
  BY <1>2 DEF Covers
<1> QED  BY <1>1, <1>3

\* An empty block fits wherever the air is.
LEMMA Blank ==
  ASSUME NEW low \in Lows
  PROVE  \E lows : /\ Fits(<<>>, lows) /\ lows[1] = low
                   /\ \A i \in 1 .. Len(<<>>) + 1 : Below(lows[i], low)
<1> DEFINE lows == [i \in 1 .. Len(<<>>) + 1 |-> low]
<1>1. Len(<<>>) = 0 /\ 1 \in 1 .. Len(<<>>) + 1
  OBVIOUS
<1>2. lows \in [1 .. Len(<<>>) + 1 -> Lows] /\ \A i \in 1 .. Len(<<>>) + 1 : lows[i] = low
  OBVIOUS
<1>3. Below(low, low)
  <2>1. \A p \in PmtPids : low[p] \in Nat
    BY DEF Lows
  <2>2. \A a \in Nat : a <= a
    OBVIOUS
  <2> QED  BY <2>1, <2>2 DEF Below
<1>4. \A i \in 1 .. Len(<<>>) : FALSE
  BY <1>1
<1> HIDE DEF lows
<1>5. Fits(<<>>, lows)
  BY <1>2, <1>4 DEF Fits
<1>6. \A i \in 1 .. Len(<<>>) + 1 : Below(lows[i], low)
  BY <1>2, <1>3
<1> QED  BY <1>1, <1>2, <1>5, <1>6

\* A packet that comes is the newest.
LEMMA Grows ==
  ASSUME NEW P, NEW blk \in Seq(P), NEW lows, Fits(blk, lows), NEW c \in Lows,
         \A i \in 1 .. Len(blk) + 1 : Below(lows[i], c),
         NEW pk \in P, pk.pid \in PmtPids => pk.version = c[pk.pid]
  PROVE  \E more : /\ Fits(Append(blk, pk), more) /\ more[1] = lows[1]
                   /\ \A i \in 1 .. Len(Append(blk, pk)) + 1 : Below(more[i], c)
<1> DEFINE n == Len(blk)
           b == Append(blk, pk)
           more == [i \in 1 .. (n + 1) + 1 |-> IF i = n + 2 THEN c ELSE lows[i]]
<1>1. n \in Nat /\ Len(b) = n + 1 /\ \A i \in 1 .. n + 1 : b[i] = IF i = n + 1 THEN pk ELSE blk[i]
  <2>1. Len(b) = n + 1 /\ \A i \in 1 .. n : b[i] = blk[i]
    BY AppendProperties
  <2>2. b[n + 1] = pk
    BY AppendProperties
  <2>3. \A i \in 1 .. n + 1 : i # n + 1 => i \in 1 .. n
    OBVIOUS
  <2> HIDE DEF b
  <2> QED  BY <2>1, <2>2, <2>3
<1> HIDE DEF b
<1>2. /\ lows \in [1 .. n + 1 -> Lows]
      /\ \A i \in 1 .. n : Rises(lows[i], lows[i + 1], blk[i])
  BY DEF Fits
<1> HIDE DEF n
<1>3. \A i \in 1 .. (n + 1) + 1 : i # n + 2 => i \in 1 .. n + 1
  BY <1>1
<1>4. more \in [1 .. (n + 1) + 1 -> Lows]
  BY <1>2, <1>3
<1>5. \A i \in 1 .. (n + 1) + 1 : more[i] = IF i = n + 2 THEN c ELSE lows[i]
  OBVIOUS
<1> HIDE DEF more
<1>6. Below(c, c)
  <2>1. \A p \in PmtPids : c[p] \in Nat
    BY DEF Lows
  <2>2. \A a \in Nat : a <= a
    OBVIOUS
  <2> QED  BY <2>1, <2>2 DEF Below
<1>7. \A i \in 1 .. (n + 1) + 1 : Below(more[i], c)
  BY <1>3, <1>5, <1>6 DEF n
<1>8. ASSUME NEW i \in 1 .. n + 1 PROVE Rises(more[i], more[i + 1], b[i])
  <2>1. CASE i = n + 1
    <3>1. more[i] = lows[n + 1] /\ more[i + 1] = c /\ b[i] = pk /\ n + 1 \in 1 .. n + 1
      <4>1. i \in 1 .. (n + 1) + 1 /\ i # n + 2 /\ i + 1 = n + 2 /\ i + 1 \in 1 .. (n + 1) + 1
        BY <1>1, <2>1
      <4> QED  BY <1>1, <1>5, <2>1, <4>1
    <3>2. lows[n + 1] \in Lows /\ Below(lows[n + 1], c)
      BY <1>2, <3>1 DEF n
    <3>3. pk.pid \in PmtPids => lows[n + 1][pk.pid] <= pk.version /\ pk.version <= c[pk.pid]
      BY <1>6, <3>2 DEF Below
    <3> QED  BY <3>1, <3>2, <3>3 DEF Rises
  <2>2. CASE i # n + 1
    <3>1. i \in 1 .. n /\ i \in 1 .. (n + 1) + 1 /\ i # n + 2
          /\ i + 1 \in 1 .. (n + 1) + 1 /\ i + 1 # n + 2
      BY <1>1, <2>2
    <3>2. more[i] = lows[i] /\ more[i + 1] = lows[i + 1] /\ b[i] = blk[i]
      BY <1>1, <1>5, <2>2, <3>1
    <3> QED  BY <1>2, <3>1, <3>2
  <2> QED  BY <2>1, <2>2
<1>9. Fits(b, more)
  BY <1>1, <1>4, <1>8 DEF Fits
<1>10. more[1] = lows[1]
  <2>1. 1 \in 1 .. (n + 1) + 1 /\ 1 # n + 2
    BY <1>1
  <2> QED  BY <1>5, <2>1
<1> QED  BY <1>1, <1>7, <1>9, <1>10 DEF b

\* The reader starts with nothing open and nothing read, and every PMT at its first packet.
LEMMA StartKnown ==
  ASSUME CounterTells, Init
  PROVE  \E beat, lows : Known(beat, lows)
<1>0. 0 \in Counters
  BY SplitterAssumption DEF Counters
<1> DEFINE Begins(p, f) ==
             /\ f[0] = 1
             /\ \A v \in DOMAIN Pmt[p] : Long(p, v) => Rounds(f, Parts(p, v))
           beat == [p \in PmtPids |-> CHOOSE f \in [Counters -> Nat] : Begins(p, f)]
<1>1. \A p \in PmtPids : \E f \in [Counters -> Nat] : Begins(p, f)
  BY <1>0, BeatFrom
<1>2. \A p \in PmtPids : beat[p] \in [Counters -> Nat] /\ Begins(p, beat[p])
  <2> HIDE DEF Begins
  <2> QED  BY <1>1
<1>3. beat \in [PmtPids -> [Counters -> Nat]]
  <2> HIDE DEF Begins
  <2> QED  BY <1>1
<1> HIDE DEF beat
<1>4. Beats(beat)
  BY <1>2, <1>3 DEF Beats
<1>5. Timed(beat)
  BY <1>0, <1>2, <1>4 DEF Timed, Init
<1>6. block = <<>> /\ block \in Seq(Numbered(beat)) /\ mode = "select"
  BY DEF Init
<1>7. PICK words \in SidTexts : sp = split_startup(words)
  BY DEF Init
<1>8. /\ \A p \in PmtPids : sp.section_remain[p] = 0 /\ sp.whole[p] = 0 /\ ~sp.over[p]
      /\ sp.pat = NoPat
  BY <1>7 DEF split_startup, Started
<1>9. ver \in Lows
  BY DEF Init, Lows
<1>10. PICK lows : /\ Fits(<<>>, lows) /\ lows[1] = ver
                   /\ \A i \in 1 .. Len(<<>>) + 1 : Below(lows[i], ver)
  BY <1>9, Blank
<1>11. SelectCovers(sp, beat, lows[1])
  BY <1>8 DEF SelectCovers, Covers, Whole, OpenAt, WholeAt, StaysIn
<1>12. Fits(block, lows) /\ \A i \in 1 .. Len(block) + 1 : Below(lows[i], ver)
  BY <1>6, <1>10
<1> QED  BY <1>5, <1>6, <1>11, <1>12 DEF Known

\* From packet to packet the counters tell which one comes.
LEMMA AdvanceTimed ==
  ASSUME Air, NEW p \in PmtPids, NEW beat, Timed(beat), Advance(p)
  PROVE  Timed(beat)'
<1>1. ver' = ver /\ Cc \in Nat \ {0} /\ cc \in [PmtPids -> Nat] /\ part \in [PmtPids -> Nat]
  BY SplitterAssumption DEF Advance, Air
<1>2. ASSUME NEW q \in PmtPids
      PROVE  cc'[q] \in Counters /\ (Long(q, ver[q]) => beat[q][cc'[q]] = part'[q])
  <2>1. CASE q # p
    <3>1. cc'[q] = cc[q] /\ part'[q] = part[q]
      BY <1>1, <2>1 DEF Advance
    <3> QED  BY <3>1 DEF Timed
  <2>2. CASE q = p
    <3>1. /\ cc'[p] = (cc[p] + 1) % Cc
          /\ part'[p] = IF part[p] = Parts(p, ver[p]) THEN 1 ELSE part[p] + 1
      BY <1>1 DEF Advance
    <3>2. cc[p] \in Counters /\ (Long(p, ver[p]) => beat[p][cc[p]] = part[p])
      BY DEF Timed
    <3>3. cc'[p] \in Counters
      <4>1. cc[p] + 1 \in Nat
        BY <1>1
      <4>2. \A a \in Nat : a % Cc \in 0 .. Cc - 1
        BY <1>1
      <4> QED  BY <3>1, <4>1, <4>2 DEF Counters
    <3>4. Long(p, ver[p]) => beat[p][cc'[p]] = part'[p]
      <4> SUFFICES ASSUME Long(p, ver[p]) PROVE beat[p][cc'[p]] = part'[p]
        OBVIOUS
      <4>1. ver[p] \in DOMAIN Pmt[p]
        BY DEF Air
      <4>2. Rounds(beat[p], Parts(p, ver[p]))
        BY <4>1 DEF Timed, Beats
      <4>3. beat[p][(cc[p] + 1) % Cc] =
              IF beat[p][cc[p]] = Parts(p, ver[p]) THEN 1 ELSE beat[p][cc[p]] + 1
        BY <3>2, <4>2 DEF Rounds
      <4> QED  BY <3>1, <3>2, <4>3
    <3> QED  BY <2>2, <3>3, <3>4
  <2> QED  BY <2>1, <2>2
<1>3. Beats(beat) /\ \A q \in PmtPids :
        cc'[q] \in Counters /\ (Long(q, ver'[q]) => beat[q][cc'[q]] = part'[q])
  BY <1>1, <1>2 DEF Timed
<1> QED  BY <1>3 DEF Timed

\* The packet sent is the one its counter tells.
LEMMA PacketNumbered ==
  ASSUME Air, NEW p \in PmtPids, NEW beat, Timed(beat)
  PROVE  PmtPacket(p) \in Numbered(beat)
<1> DEFINE pk == PmtPacket(p)
           v == ver[p]
           k == part[p]
<1>1. v \in Nat /\ k \in 1 .. Parts(p, v)
  BY DEF Air
<1>2. pk = [pid |-> p, start |-> k = 1, cc |-> cc[p], version |-> v, cells |-> Payload(p, v, k)]
  BY DEF PmtPacket
<1>3. pk \in Packets
  BY PacketType DEF Packets
<1>4. cc[p] \in Counters /\ (Long(p, v) => beat[p][cc[p]] = k)
  BY DEF Timed
<1> HIDE DEF pk, v, k
<1>5. /\ pk.pid = p /\ (pk.start <=> k = 1) /\ pk.cc = cc[p] /\ pk.version = v
      /\ pk.cells = Payload(p, v, k)
  BY <1>2
<1>6. IsPart(pk, k, beat)
  BY <1>4, <1>5 DEF IsPart
<1>7. pk \in Numbered(beat)
  BY <1>1, <1>3, <1>4, <1>5, <1>6 DEF Numbered, v
<1> QED  BY <1>7 DEF pk

\* Before a new long version none of the PMT's took more than a packet, so none is on its
\* way and none is open: the numbers may begin at its first packet.
LEMMA NewKnown ==
  ASSUME CounterTells, Air, NEW p \in PmtPids, NEW beat, NEW lows, Known(beat, lows),
         NewVersion(p)
  PROVE  \E b, more : Known(b, more)'
<1>1. /\ part[p] = 1 /\ ver' = [ver EXCEPT ![p] = @ + 1]
      /\ part' = part /\ cc' = cc /\ sp' = sp /\ mode' = mode /\ block' = block
  BY DEF NewVersion
<1>2. /\ ver \in Lows /\ ver'[p] = ver[p] + 1
      /\ \A q \in PmtPids : q # p => ver'[q] = ver[q]
  BY <1>1 DEF Air, Lows
<1>3. ver'[p] \in DOMAIN Pmt[p]
  <2>1. Len(Pmt[p]) \in Nat \ {0} /\ DOMAIN Pmt[p] = 1 .. Len(Pmt[p])
    BY Versioned
  <2>2. ver[p] < Len(Pmt[p]) /\ ver[p] \in DOMAIN Pmt[p]
    BY DEF NewVersion, Air
  <2> QED  BY <1>2, <2>1, <2>2
<1>4. Timed(beat) /\ block \in Seq(Numbered(beat)) /\ Fits(block, lows)
      /\ (\A i \in 1 .. Len(block) + 1 : Below(lows[i], ver))
      /\ (mode = "select" => SelectCovers(sp, beat, lows[1]))
      /\ (mode = "on" => SplitCovers(sp, beat, lows[1]))
  BY DEF Known
<1>5. Len(block) \in Nat /\ lows[1] \in Lows /\ Below(lows[1], ver)
  <2>1. Len(block) \in Nat
    BY <1>4
  <2>2. 1 \in 1 .. Len(block) + 1
    BY <2>1
  <2> QED  BY <1>4, <2>1, <2>2 DEF Fits
<1>6. ASSUME NEW b, Agrees(beat, b, ver), Timed(b)'
      PROVE  Known(b, lows)'
  <2>1. /\ \A pk \in Numbered(beat) :
             (pk.pid \in PmtPids => pk.version <= ver[pk.pid]) => pk \in Numbered(b)
        /\ \A s, n : Covers(s, beat, lows[1], n) => Covers(s, b, lows[1], n)
    BY <1>2, <1>5, <1>6, Moves
  <2>2. block \in Seq(Numbered(b))
    <3>1. ASSUME NEW i \in 1 .. Len(block)
          PROVE  block[i] \in Numbered(b)
      <4>1. block[i] \in Numbered(beat) /\ i + 1 \in 1 .. Len(block) + 1
        BY <1>4, <1>5, ElementOfSeq
      <4>2. Rises(lows[i], lows[i + 1], block[i]) /\ Below(lows[i + 1], ver)
        BY <1>4, <4>1 DEF Fits
      <4>3. ASSUME block[i].pid \in PmtPids
            PROVE  block[i].version <= ver[block[i].pid]
        <5> DEFINE q == block[i].pid
                   v == block[i].version
        <5>1. v \in Nat
          <6>1. block[i] \in PmtPackets
            BY <4>1, <4>3, PacketKinds DEF Numbered
          <6> QED  BY <6>1 DEF PmtPackets
        <5>2. v <= lows[i + 1][q] /\ lows[i + 1][q] <= ver[q]
          BY <4>2, <4>3 DEF Rises, Below
        <5>3. lows[i + 1][q] \in Nat /\ ver[q] \in Nat
          BY <1>2, <4>2, <4>3 DEF Rises, Lows
        <5> HIDE DEF q, v
        <5>4. v <= ver[q]
          BY <5>1, <5>2, <5>3
        <5> QED  BY <5>4 DEF q, v
      <4> QED  BY <2>1, <4>1, <4>3
    <3>2. block \in [1 .. Len(block) -> Numbered(b)]
      BY <1>4, <3>1
    <3> QED  BY <1>5, <3>2
  <2>3. /\ mode = "select" => SelectCovers(sp, b, lows[1])
        /\ mode = "on" => SplitCovers(sp, b, lows[1])
    BY <1>4, <2>1 DEF SelectCovers, SplitCovers
  <2>4. ASSUME NEW i \in 1 .. Len(block) + 1
        PROVE  Below(lows[i], ver')
    <3>1. lows[i] \in Lows /\ Below(lows[i], ver)
      BY <1>4 DEF Fits
    <3>2. \A q \in PmtPids : lows[i][q] \in Nat /\ ver[q] \in Nat /\ lows[i][q] <= ver[q]
                             /\ (ver'[q] = ver[q] \/ ver'[q] = ver[q] + 1)
      BY <1>2, <3>1 DEF Lows, Below
    <3>3. \A q \in PmtPids : lows[i][q] <= ver'[q]
      BY <3>2
    <3> QED  BY <3>3 DEF Below
  <2>5. /\ block' \in Seq(Numbered(b)) /\ Fits(block', lows)
        /\ \A i \in 1 .. Len(block') + 1 : Below(lows[i], ver')
        /\ mode' = "select" => SelectCovers(sp', b, lows[1])
        /\ mode' = "on" => SplitCovers(sp', b, lows[1])
    BY <1>1, <1>4, <2>2, <2>3, <2>4
  <2> QED
    BY <1>6, <2>5 DEF Known
<1>7. CASE \E v \in DOMAIN Pmt[p] : v <= ver[p] /\ Long(p, v)
  <2>1. PICK v \in DOMAIN Pmt[p] : v <= ver[p] /\ Long(p, v)
    BY <1>7
  <2>2. v < ver'[p]
    <3>1. v \in Nat /\ ver[p] \in Nat
      BY <1>2, Versioned DEF Lows
    <3> QED  BY <1>2, <2>1, <3>1
  <2>3. ~Long(p, ver'[p])
    <3>1. Parts(p, v) # 1
      BY <2>1 DEF Long
    <3> QED  BY <1>3, <2>2, <3>1 DEF CounterTells
  <2>4. Agrees(beat, beat, ver)
    BY DEF Agrees
  <2>5. \A q \in PmtPids :
          cc'[q] \in Counters /\ (Long(q, ver'[q]) => beat[q][cc'[q]] = part'[q])
    BY <1>1, <1>2, <1>4, <2>3 DEF Timed
  <2>6. Timed(beat)'
    BY <1>4, <2>5 DEF Timed, Beats, Long, Aligned, Parts, Section, Rounds, Counters
  <2> QED  BY <1>6, <2>4, <2>6
<1>8. CASE ~ \E v \in DOMAIN Pmt[p] : v <= ver[p] /\ Long(p, v)
  <2>1. cc[p] \in Counters
    BY <1>4 DEF Timed
  <2>2. PICK f \in [Counters -> Nat] :
          f[cc[p]] = 1 /\ \A v \in DOMAIN Pmt[p] : Long(p, v) => Rounds(f, Parts(p, v))
    BY <2>1, BeatFrom
  <2> DEFINE b == [beat EXCEPT ![p] = f]
  <2>3. beat \in [PmtPids -> [Counters -> Nat]] /\ Beats(beat)
    BY <1>4 DEF Timed, Beats
  <2>4. b \in [PmtPids -> [Counters -> Nat]] /\ b[p] = f
        /\ \A q \in PmtPids : q # p => b[q] = beat[q]
    BY <2>3
  <2> HIDE DEF b
  <2>5. Beats(b)
    BY <2>2, <2>3, <2>4 DEF Beats
  <2>6. Agrees(beat, b, ver)
    BY <1>8, <2>4 DEF Agrees
  <2>7. \A q \in PmtPids :
          cc'[q] \in Counters /\ (Long(q, ver'[q]) => b[q][cc'[q]] = part'[q])
    BY <1>1, <1>2, <1>4, <2>2, <2>4 DEF Timed
  <2>8. Timed(b)'
    BY <2>5, <2>7 DEF Timed, Beats, Long, Aligned, Parts, Section, Rounds, Counters
  <2> QED  BY <1>6, <2>6, <2>8
<1> QED  BY <1>7, <1>8

\* Every step leaves marked what was read.
LEMMA StaysKnown ==
  ASSUME CounterTells, IInv, NEW beat, NEW lows, Known(beat, lows), [Next]_vars
  PROVE  \E b, more : Known(b, more)'
<1> DEFINE N == Numbered(beat)
           K == Len(block)
           Low(ls, blk) == Fits(blk, ls) /\ \A i \in 1 .. Len(blk) + 1 : Below(ls[i], ver)
<1>1. /\ Air /\ (mode = "select" => Selecting(sp)) /\ (mode = "on" => Splitting(sp))
      /\ Timed(beat) /\ Beats(beat) /\ block \in Seq(N) /\ Low(lows, block)
      /\ (mode = "select" => SelectCovers(sp, beat, lows[1]))
      /\ (mode = "on" => SplitCovers(sp, beat, lows[1]))
      /\ ver \in Lows
  BY DEF IInv, Known, Timed, Air, Lows
<1>2. UNCHANGED airVars => Timed(beat)'
  BY <1>1 DEF Timed, airVars, Beats, Long, Aligned, Parts, Section, Rounds, Counters
<1>3. \A i \in 1 .. K + 1 : lows[i] \in Lows /\ Below(lows[i], ver)
  BY <1>1 DEF Fits
<1>4. K \in Nat /\ (block # <<>> => K \in 1 .. K + 1) /\ 1 \in 1 .. K + 1 /\ K + 1 \in 1 .. K + 1
  BY <1>1
<1>5. \A i \in 1 .. K + 1 : \A s :
        /\ SelectCovers(s, beat, lows[i]) => SelectCovers(s, beat, ver)
        /\ SplitCovers(s, beat, lows[i]) => SplitCovers(s, beat, ver)
  BY <1>1, <1>3, CoversLater, SplitLater DEF SelectCovers
<1> HIDE DEF N, K
<1>6. ASSUME ver' = ver, Timed(beat)', block' \in Seq(N), NEW more, Low(more, block'),
             mode' = "select" => SelectCovers(sp', beat, more[1]),
             mode' = "on" => SplitCovers(sp', beat, more[1])
      PROVE  \E b, ls : Known(b, ls)'
  <2>1. Fits(block', more) /\ \A i \in 1 .. Len(block') + 1 : Below(more[i], ver')
    BY <1>6
  <2>2. Known(beat, more)'
    BY <1>6, <2>1 DEF Known, N
  <2> QED  BY <2>2
<1> HIDE DEF Low
<1>7. ASSUME ver' = ver, Timed(beat)', block' = <<>>,
             mode' = "select" => SelectCovers(sp', beat, ver),
             mode' = "on" => SplitCovers(sp', beat, ver)
      PROVE  \E b, ls : Known(b, ls)'
  <2>1. PICK more : /\ Fits(<<>>, more) /\ more[1] = ver
                    /\ \A i \in 1 .. Len(<<>>) + 1 : Below(more[i], ver)
    BY <1>1, Blank
  <2>2. Low(more, block') /\ block' \in Seq(N)
    BY <1>7, <2>1 DEF Low
  <2> QED  BY <1>6, <1>7, <2>1, <2>2
<1>8. ASSUME NEW pk \in N, pk.pid \in PmtPids => pk.version = ver[pk.pid], Arrives(pk),
             ver' = ver, Timed(beat)'
      PROVE  \E b, ls : Known(b, ls)'
  <2>1. /\ mode' = mode /\ sp' = sp /\ block' = Append(block, pk) /\ block' \in Seq(N)
    BY <1>1, <1>8, AppendProperties DEF Arrives
  <2>2. PICK more : /\ Fits(Append(block, pk), more) /\ more[1] = lows[1]
                    /\ \A i \in 1 .. Len(Append(block, pk)) + 1 : Below(more[i], ver)
    <3>1. Fits(block, lows) /\ \A i \in 1 .. Len(block) + 1 : Below(lows[i], ver)
      BY <1>1 DEF Low
    <3> QED  BY <1>1, <1>8, <3>1, Grows
  <2>3. Low(more, block')
    BY <2>1, <2>2 DEF Low
  <2> QED  BY <1>1, <1>6, <1>8, <2>1, <2>2, <2>3
<1>9. ASSUME NEW s, Splitting(s), NEW blk \in Seq(N), Len(blk) = K, Fits(blk, lows),
             SplitCovers(s, beat, lows[1]), Split(s, blk)
      PROVE  SplitCovers(sp', beat, ver)
  <2>1. SplitCovers(split_ts(s, blk).sp, beat, lows[Len(blk) + 1])
    BY <1>1, <1>9, TsCovers DEF N
  <2>2. SplitCovers(split_ts(s, blk).sp, beat, ver) /\ SplitCovers(s, beat, ver)
    BY <1>4, <1>5, <1>9, <2>1
  <2>3. sp' = s \/ sp' = split_ts(s, blk).sp
    BY <1>9, SplitSteps
  <2> QED  BY <2>2, <2>3
<1>10. Fits(block, lows)
  BY <1>1 DEF Low
<1>11. CASE ReaderSelect
  <2>1. mode = "select" /\ block # <<>> /\ block' = <<>> /\ UNCHANGED airVars
    BY <1>11 DEF ReaderSelect
  <2>2. PICK stack \in {NoSid} \cup {Pat[i].sid : i \in DOMAIN Pat} :
          LET r == ReadTs(sp, block, stack) IN
          IF Complete(r.sp) THEN mode' = "on" /\ Split(r.sp, r.blk)
          ELSE /\ mode' \in {"select", "off"}
               /\ sp' = r.sp /\ out' = <<>> /\ UNCHANGED crashed
    BY <1>11 DEF ReaderSelect
  <2> DEFINE r == ReadTs(sp, block, stack)
  <2>3. r \in Covered(K, beat, lows, lows[K])
    <3>1. Selecting(sp) /\ SelectCovers(sp, beat, lows[1])
      BY <1>1, <2>1
    <3> QED  BY <1>1, <1>10, <2>1, <3>1, SelectionCovers DEF N, K
  <2> HIDE DEF r
  <2>4. /\ Selecting(r.sp) /\ SelectCovers(r.sp, beat, lows[K]) /\ r.blk \in Seq(N)
        /\ Len(r.blk) = K /\ Fits(r.blk, lows)
    BY <2>3 DEF Covered, Scans, N
  <2>5. ver' = ver /\ Timed(beat)'
    BY <1>2, <2>1 DEF airVars
  <2>6. CASE Complete(r.sp)
    <3>1. Splitting(r.sp) /\ SplitCovers(r.sp, beat, lows[1]) /\ mode' = "on"
          /\ Split(r.sp, r.blk)
      BY <2>2, <2>4, <2>6, CompleteSplits, CompleteCovers DEF r
    <3>2. SplitCovers(sp', beat, ver)
      BY <1>9, <2>4, <3>1
    <3> QED  BY <1>7, <2>1, <2>5, <3>1, <3>2
  <2>7. CASE ~Complete(r.sp)
    <3>1. sp' = r.sp /\ mode' \in {"select", "off"}
      BY <2>2, <2>7 DEF r
    <3>2. SelectCovers(sp', beat, ver)
      BY <1>4, <1>5, <2>1, <2>4, <3>1
    <3> QED  BY <1>7, <2>1, <2>5, <3>1, <3>2
  <2> QED  BY <2>6, <2>7
<1>12. CASE ReaderSplit
  <2>1. /\ mode = "on" /\ mode' = "on" /\ block' = <<>> /\ UNCHANGED airVars
        /\ Split(sp, block) /\ ver' = ver
    BY <1>12 DEF ReaderSplit, airVars
  <2>2. SplitCovers(sp', beat, ver)
    BY <1>1, <1>9, <1>10, <2>1 DEF K
  <2> QED  BY <1>2, <1>7, <2>1, <2>2
<1>13. CASE ReaderFinish
  <2>1. mode' = "done" /\ block' = <<>> /\ UNCHANGED airVars /\ ver' = ver
    BY <1>13 DEF ReaderFinish, airVars
  <2> QED  BY <1>2, <1>7, <2>1
<1>14. ASSUME NEW p \in PmtPids, SendPmt(p)
       PROVE  \E b, ls : Known(b, ls)'
  <2>1. Arrives(PmtPacket(p)) /\ Advance(p) /\ ver' = ver
    BY <1>14 DEF SendPmt, Advance
  <2>2. PmtPacket(p) \in N
    BY <1>1, PacketNumbered DEF N
  <2>3. PmtPacket(p).pid = p /\ PmtPacket(p).version = ver[p]
    BY DEF PmtPacket
  <2>4. Timed(beat)'
    BY <1>1, <2>1, AdvanceTimed
  <2> QED  BY <1>8, <2>1, <2>2, <2>3, <2>4
<1>15. ASSUME NEW p \in PmtPids, LosePmt(p)
       PROVE  \E b, ls : Known(b, ls)'
  <2>1. Advance(p) /\ sp' = sp /\ mode' = mode /\ block' = block /\ ver' = ver
    BY <1>15 DEF LosePmt, Advance
  <2>2. Timed(beat)'
    BY <1>1, <2>1, AdvanceTimed
  <2>3. Low(lows, block') /\ block' \in Seq(N)
    BY <1>1, <2>1
  <2> QED  BY <1>1, <1>6, <2>1, <2>2, <2>3
<1>16. ASSUME NEW p \in PmtPids, NewVersion(p)
       PROVE  \E b, ls : Known(b, ls)'
  BY <1>1, <1>16, NewKnown
<1>17. ASSUME NEW count \in PatCounts, SendPat(count)
       PROVE  \E b, ls : Known(b, ls)'
  <2> DEFINE pk == [pid |-> "0x00", count |-> count]
  <2>1. Arrives(pk) /\ UNCHANGED airVars /\ ver' = ver
    BY <1>17 DEF SendPat, airVars
  <2>2. pk \in N /\ pk.pid \notin PmtPids
    <3>1. pk \in Packets
      BY DEF Packets
    <3>2. pk.pid \notin PmtPids
      BY SplitterAssumption
    <3> QED  BY <3>1, <3>2 DEF Numbered, N
  <2> HIDE DEF pk
  <2> QED  BY <1>2, <1>8, <2>1, <2>2
<1>18. ASSUME NEW x \in Probes, SendStream(x)
       PROVE  \E b, ls : Known(b, ls)'
  <2> DEFINE pk == [pid |-> x]
  <2>1. Arrives(pk) /\ UNCHANGED airVars /\ ver' = ver
    BY <1>18 DEF SendStream, airVars
  <2>2. pk \in N /\ pk.pid \notin PmtPids
    <3>1. pk \in Packets
      BY DEF Packets
    <3>2. pk.pid \notin PmtPids
      BY SplitterAssumption
    <3> QED  BY <3>1, <3>2 DEF Numbered, N
  <2> HIDE DEF pk
  <2> QED  BY <1>2, <1>8, <2>1, <2>2
<1>19. CASE UNCHANGED vars
  <2>1. sp' = sp /\ mode' = mode /\ block' = block /\ ver' = ver /\ UNCHANGED airVars
    BY <1>19 DEF vars, airVars
  <2>2. Low(lows, block') /\ block' \in Seq(N)
    BY <1>1, <2>1
  <2> QED  BY <1>1, <1>2, <1>6, <2>1, <2>2
<1> QED
  BY <1>11, <1>12, <1>13, <1>14, <1>15, <1>16, <1>17, <1>18, <1>19 DEF Next

\* With the counter to tell the packets of a section, the invariant holds in every state.
LEMMA KnownAlways ==
  ASSUME CounterTells
  PROVE  Spec => []CInv
<1>1. Init => CInv
  BY Starts, StartKnown DEF CInv
<1>2. CInv /\ [Next]_vars => CInv'
  <2> SUFFICES ASSUME CInv, [Next]_vars PROVE CInv'
    OBVIOUS
  <2>1. IInv /\ IInv'
    BY Continues DEF CInv
  <2>2. PICK beat, lows : Known(beat, lows)
    BY DEF CInv
  <2>3. \E b, more : Known(b, more)'
    BY <2>1, <2>2, StaysKnown
  <2> QED  BY <2>1, <2>3 DEF CInv
<1> QED  BY <1>1, <1>2, PTL DEF Spec

\* The splitter passes what was chosen and nothing else, and the PAT it writes names
\* exactly the PMTs that pass (NothingForeign), for every PAT, every list of words, any
\* block length and any packets lost, when the counter tells the packets
\* of a section of several (CounterTells).  Without that a packet may be taken for one of a
\* longer section: then its CRC and stuffing are read for streams.
THEOREM OnlyChosen ==
  ASSUME CounterTells
  PROVE  Spec => []NothingForeign
<1>1. CInv => NothingForeign
  <2> SUFFICES ASSUME CInv, mode = "on" PROVE
        /\ sp.pat.pids = Passes \cap PmtPids
        /\ (\A p \in ChosenPmts : \A v \in sp.seen[p] : Aligned(p, v)) =>
             Passes \subseteq ChosenPmts \cup EpgOf(ToSet(sp.sid_list))
                              \cup UNION {UNION {Streams(p, v) : v \in sp.seen[p]} : p \in ChosenPmts}
    BY DEF NothingForeign
  <2>1. Splitting(sp)
    BY DEF CInv, IInv
  <2>2. Passes = Passed(sp) /\ ChosenPmts = Kept(sp)
    BY DEF Passes, Passed, ChosenPmts, Kept
  <2>3. sp.pat.pids = Passes \cap PmtPids
    BY <2>1, <2>2, PmtSets DEF Splitting, SameMarks, Passed, Kept
  <2>4. \A p \in PmtPids : StaysIn(sp, p)
    <3>1. PICK beat, lows : Known(beat, lows)
      BY DEF CInv
    <3>2. SplitCovers(sp, beat, lows[1])
      BY <3>1 DEF Known
    <3> QED  BY <3>2 DEF SplitCovers, Covers, Whole
  <2>5. (\A p \in ChosenPmts : \A v \in sp.seen[p] : Aligned(p, v)) => Tidy(sp)
    BY <2>2, <2>4 DEF Tidy, StaysIn, Kept
  <2> QED  BY <2>1, <2>2, <2>3, <2>5 DEF Splitting, Clean, Justified
<1> QED  BY <1>1, KnownAlways, PTL

\* While it splits, the splitter passes every stream of a chosen service whose PMT it has
\* read to the end, and the EPG to who asked for it with "epg" (NoneMissing), for every PAT,
\* block length and any packets lost, when the counter tells the
\* packets of a section of several (CounterTells).  Without that the counter, which comes
\* round after Cc packets, may take a packet of one version for the next one of another.
THEOREM NothingMissing ==
  ASSUME CounterTells
  PROVE  Spec => []NoneMissing
<1>1. CInv => NoneMissing
  <2> SUFFICES ASSUME CInv, mode = "on"
               PROVE  /\ \A p \in ChosenPmts :
                           sp.whole[p] # 0 /\ Aligned(p, sp.whole[p]) =>
                             Streams(p, sp.whole[p]) \subseteq Passes
                      /\ Complete(sp) /\ "epg" \in Tried(sp.sid_list) => EpgPids \subseteq Passes
    BY DEF NoneMissing
  <2>1. PICK beat, lows : Known(beat, lows)
    BY DEF CInv
  <2>2. SplitCovers(sp, beat, lows[1]) /\ sp \in Splitters
    BY <2>1 DEF Known, CInv, IInv, Splitting, Counted
  <2>3. \A n \in 1 .. 2 : Has(sp, n) \subseteq Passes
    <3>1. sp.pids \in [AllPids -> 0 .. 2]
      BY <2>2 DEF Splitters
    <3>2. \A n \in 1 .. 2 : \A x \in AllPids : sp.pids[x] >= n => sp.pids[x] # 0
      BY <3>1
    <3> QED  BY <3>2 DEF Has, Passes
  <2>4. Complete(sp) /\ "epg" \in Tried(sp.sid_list) => EpgPids \subseteq Passes
    <3>1. 1 \in 1 .. 2
      OBVIOUS
    <3> QED  BY <2>2, <2>3, <3>1 DEF SplitCovers, EpgIn
  <2>5. ASSUME NEW p \in ChosenPmts, sp.whole[p] # 0, Aligned(p, sp.whole[p]),
               NEW x \in Streams(p, sp.whole[p])
        PROVE  x \in Passes
    <3> DEFINE v == sp.whole[p]
               n == IF Complete(sp) THEN 1 ELSE 2
    <3>1. p \in PmtPids /\ n \in 1 .. 2
      BY DEF ChosenPmts
    <3>2. WholeAt(sp, p, n)
      BY <2>2, <3>1 DEF SplitCovers, Covers, Whole
    <3>3. v \in DOMAIN Pmt[p] /\ PartsIn(p, v, Parts(p, v), Has(sp, n))
      BY <2>5, <3>2 DEF WholeAt
    <3>4. x \in Own(p, v) \/ \E k \in 1 .. Parts(p, v) : x \in EsLoop(PartOf(p, v, k))
      <4>1. Aligned(p, v) /\ x \in Streams(p, v)
        BY <2>5
      <4> HIDE DEF v
      <4> QED  BY <3>1, <3>3, <4>1, StreamsFound
    <3> HIDE DEF v, n
    <3>5. x \in Has(sp, n)
      BY <3>3, <3>4 DEF PartsIn
    <3> QED  BY <2>3, <3>1, <3>5
  <2> QED  BY <2>4, <2>5
<1> QED  BY <1>1, KnownAlways, PTL
=============================================================================
