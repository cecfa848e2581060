--------------------------- MODULE SequenceLemmas ---------------------------
(***************************************************************************)
(* Induction along sequences, and folds.                                   *)
(*                                                                         *)
(* What is shown by induction is given as a set, the numbers or sequences  *)
(* it holds for, and the step of a recursive definition as a function.     *)
(* The fold of a step along a sequence is the end of its run, the states   *)
(* it passes through.                                                      *)
(***************************************************************************)
EXTENDS Naturals, SequencesExt, SequenceTheorems, WellFoundedInduction, TLAPS

\* Every set of natural numbers has a least one.
LEMMA LeastNatural ==
    ASSUME NEW T, T \subseteq Nat, T # {}
    PROVE  \E x \in T : \A y \in T : x <= y
<1>1. PICK x \in T : \A y \in T : <<y, x>> \notin OpToRel(<, Nat)
  BY NatLessThanWellFounded, WFMin
<1>2. ASSUME NEW y \in T PROVE x <= y
  <2>1. x \in Nat /\ y \in Nat
    OBVIOUS
  <2>2. ~(y < x)
    BY <1>1, <2>1 DEF OpToRel
  <2> QED BY <2>1, <2>2
<1> QED BY <1>2

\* What holds of 0, and of k + 1 if of k, holds up to n.
LEMMA InductionUpTo ==
    ASSUME NEW n \in Nat, NEW T, 0 \in T, \A k \in 0..n : k \in T /\ k < n => k + 1 \in T
    PROVE  \A k \in 0..n : k \in T
<1> SUFFICES ASSUME NEW k \in 0..n, k \notin T PROVE FALSE
  OBVIOUS
<1> DEFINE U == {i \in 0..n : i \notin T}
<1>1. PICK x \in U : \A y \in U : x <= y
  <2>1. U \subseteq Nat /\ U # {}
    OBVIOUS
  <2> HIDE DEF U
  <2> QED BY <2>1, LeastNatural
<1>2. x \in Nat /\ x # 0 /\ x <= n
  OBVIOUS
<1>3. x - 1 \in 0..n /\ x - 1 < n /\ ~(x <= x - 1) /\ (x - 1) + 1 = x
  BY <1>2
<1>4. x - 1 \in T
  BY <1>1, <1>3
<1> QED BY <1>3, <1>4

\* What holds of the empty sequence, and of a sequence with one more element if
\* of the sequence, holds of every sequence.
LEMMA InductionOnSequences ==
    ASSUME NEW M, NEW T, <<>> \in T,
           \A r \in Seq(M) : r \in T => \A m \in M : Append(r, m) \in T
    PROVE  Seq(M) \subseteq T
<1> SUFFICES ASSUME NEW q \in Seq(M) PROVE q \in T
  OBVIOUS
<1> DEFINE n == Len(q)
           U == {k \in 0..n : SubSeq(q, 1, k) \in T}
<1>1. n \in Nat
  BY LenProperties
<1>2. 0 \in U
  <2>1. SubSeq(q, 1, 0) = <<>>
    BY SubSeqEmpty
  <2>2. 0 \in 0..n
    BY <1>1
  <2>3. SubSeq(q, 1, 0) \in T
    BY <2>1
  <2> QED BY <2>2, <2>3
<1>3. ASSUME NEW k \in 0..n, k \in U, k < n
      PROVE  k + 1 \in U
  <2>1. k + 1 \in 1..n /\ k + 1 \in 0..n /\ (k + 1) - 1 = k
    BY <1>1, <1>3
  <2>2. q[k + 1] \in M
    BY <2>1, ElementOfSeq
  <2>3. \A i \in 1..k : q[i] \in M
    <3>1. \A i \in 1..k : i \in 1..n
      BY <1>1
    <3> QED BY <3>1, ElementOfSeq
  <2>4. SubSeq(q, 1, k) \in Seq(M)
    <3>1. k \in Int /\ 1 \in Int
      BY <1>1
    <3> QED BY <2>3, <3>1, SubSeqProperties
  <2>5. SubSeq(q, 1, k + 1) = Append(SubSeq(q, 1, k), q[k + 1])
    <3>1. 1 \in 1..n /\ 1 <= k + 1
      BY <2>1
    <3> QED BY <1>1, <2>1, <3>1, SubSeqRecursiveSecond, AppendIsConcat
  <2> QED BY <1>3, <2>1, <2>2, <2>4, <2>5
<1>4. n \in U
  <2>1. \A k \in 0..n : k \in U
    <3> HIDE DEF U, n
    <3> QED BY <1>1, <1>2, <1>3, InductionUpTo
  <2> QED BY <1>1, <2>1
<1>5. SubSeq(q, 1, n) = q
  BY SubSeqFull
<1> QED BY <1>4, <1>5

\* What RemoveAt keeps: the elements before the position, and those after it
\* one place earlier (Vec::remove).
LEMMA RemoveAtProperties ==
    ASSUME NEW S, NEW s \in Seq(S), NEW i \in 1..Len(s)
    PROVE  /\ RemoveAt(s, i) \in Seq(S)
           /\ Len(RemoveAt(s, i)) = Len(s) - 1
           /\ \A k \in 1..(Len(s) - 1) :
                 RemoveAt(s, i)[k] = IF k < i THEN s[k] ELSE s[k + 1]
<1> DEFINE a == SubSeq(s, 1, i - 1)
           b == SubSeq(s, i + 1, Len(s))
<1>1. Len(s) \in Nat /\ i \in Int /\ i - 1 \in Int /\ i + 1 \in Int
      /\ \A k \in 1..Len(s) : s[k] \in S
  BY LenProperties, ElementOfSeq
<1>2. a \in Seq(S) /\ Len(a) = i - 1 /\ \A k \in 1..(i - 1) : a[k] = s[k]
  BY <1>1, SubSeqProperties
<1>3. b \in Seq(S) /\ Len(b) = Len(s) - i /\ \A k \in 1..(Len(s) - i) : b[k] = s[k + i]
  <2>1. \A k \in (i + 1)..Len(s) : s[k] \in S
    BY <1>1
  <2>2. b \in Seq(S) /\ Len(b) = (IF i + 1 <= Len(s) THEN Len(s) - (i + 1) + 1 ELSE 0)
        /\ \A k \in 1..(Len(s) - (i + 1) + 1) : b[k] = s[(i + 1) + k - 1]
    BY <1>1, <2>1, SubSeqProperties
  <2> QED BY <1>1, <2>2
<1>4. /\ a \o b \in Seq(S)
      /\ Len(a \o b) = Len(a) + Len(b)
      /\ \A k \in 1..(Len(a) + Len(b)) :
            (a \o b)[k] = IF k <= Len(a) THEN a[k] ELSE b[k - Len(a)]
  BY <1>2, <1>3, ConcatProperties
<1>5. RemoveAt(s, i) = a \o b
  BY DEF RemoveAt
<1> HIDE DEF a, b
<1>6. ASSUME NEW k \in 1..(Len(s) - 1)
      PROVE  RemoveAt(s, i)[k] = IF k < i THEN s[k] ELSE s[k + 1]
  <2>1. CASE k < i
    <3>1. k \in 1..(i - 1) /\ k \in 1..(Len(a) + Len(b)) /\ k <= Len(a)
      BY <1>1, <1>2, <1>3, <2>1
    <3> QED BY <1>2, <1>4, <1>5, <2>1, <3>1
  <2>2. CASE ~(k < i)
    <3>1. /\ k \in 1..(Len(a) + Len(b))
          /\ ~(k <= Len(a))
          /\ k - Len(a) \in 1..(Len(s) - i)
          /\ (k - Len(a)) + i = k + 1
      BY <1>1, <1>2, <1>3, <2>2
    <3> QED BY <1>3, <1>4, <1>5, <2>2, <3>1
  <2> QED BY <2>1, <2>2
<1>7. Len(a \o b) = Len(s) - 1
  BY <1>1, <1>2, <1>3, <1>4
<1> QED
  BY <1>4, <1>5, <1>6, <1>7

-----------------------------------------------------------------------------
(* Folds.                                                                  *)

\* f is the run of the step F along q from e, one element at a time.
Run(f, q, F, e) ==
    /\ f[0] = e
    /\ \A i \in 1..Len(q) : f[i] = F[<<q[i], f[i - 1]>>]

\* A run of F from e along q ends in v.
EndsIn(q, F, e, v) == \E f : Run(f, q, F, e) /\ v = f[Len(q)]

\* What F makes of e along q.
Fold(q, F, e) == CHOOSE x : \E f : Run(f, q, F, e) /\ x = f[Len(q)]

\* There is one run at most, and its end is the fold.
LEMMA FoldIsEnd ==
    ASSUME NEW M, NEW q \in Seq(M), NEW F, NEW e, NEW f, Run(f, q, F, e)
    PROVE  Fold(q, F, e) = f[Len(q)]
<1> DEFINE n == Len(q)
<1>1. n \in Nat
  BY LenProperties
<1>2. ASSUME NEW g, Run(g, q, F, e) PROVE g[n] = f[n]
  <2> DEFINE T == {k \in 0..n : g[k] = f[k]}
  <2>1. 0 \in T
    <3>1. 0 \in 0..n /\ g[0] = f[0]
      BY <1>1, <1>2 DEF Run
    <3> QED BY <3>1
  <2>2. ASSUME NEW k \in 0..n, k \in T, k < n PROVE k + 1 \in T
    <3>1. k + 1 \in 1..n /\ k + 1 \in 0..n /\ (k + 1) - 1 = k
      BY <1>1, <2>2
    <3>2. g[k + 1] = F[<<q[k + 1], g[k]>>] /\ f[k + 1] = F[<<q[k + 1], f[k]>>]
      BY <1>2, <3>1 DEF Run
    <3> QED BY <2>2, <3>1, <3>2
  <2>3. \A k \in 0..n : k \in T
    <3> HIDE DEF T, n
    <3> QED BY <1>1, <2>1, <2>2, InductionUpTo
  <2>4. n \in 0..n
    BY <1>1
  <2> QED BY <2>3, <2>4
<1> QED BY <1>2 DEF Fold

LEMMA EndIsFold ==
    ASSUME NEW M, NEW q \in Seq(M), NEW F, NEW e, NEW v, EndsIn(q, F, e, v)
    PROVE  Fold(q, F, e) = v
BY FoldIsEnd DEF EndsIn

LEMMA FoldEmpty ==
    ASSUME NEW F, NEW e
    PROVE  Fold(<<>>, F, e) = e
<1> DEFINE f == [i \in {0} |-> e]
<1>1. <<>> \in Seq({}) /\ Len(<<>>) = 0
  BY EmptySeq
<1>2. f[0] = e
  OBVIOUS
<1> HIDE DEF f
<1>3. Run(f, <<>>, F, e)
  <2>1. 1..Len(<<>>) = {}
    BY <1>1
  <2> QED BY <1>2, <2>1 DEF Run
<1>4. Fold(<<>>, F, e) = f[Len(<<>>)]
  BY <1>1, <1>3, FoldIsEnd
<1> QED BY <1>1, <1>2, <1>4

\* One element more is one step more of the run.
LEMMA RunAppend ==
    ASSUME NEW M, NEW q \in Seq(M), NEW m \in M, NEW F, NEW e, NEW f, Run(f, q, F, e),
           NEW r, r = Append(q, m)
    PROVE  EndsIn(r, F, e, F[<<m, f[Len(q)]>>])
<1> DEFINE n == Len(q)
           g == [i \in 0..(n + 1) |-> IF i = n + 1 THEN F[<<m, f[n]>>] ELSE f[i]]
<1>1. n \in Nat
  BY LenProperties
<1>2. /\ Len(Append(q, m)) = n + 1
      /\ \A i \in 1..n : Append(q, m)[i] = q[i]
      /\ Append(q, m)[n + 1] = m
  BY AppendProperties
<1>3. g[n + 1] = F[<<m, f[n]>>]
  BY <1>1
<1>4. \A i \in 0..n : g[i] = f[i]
  BY <1>1
<1> HIDE DEF g, n
<1>5. Run(g, Append(q, m), F, e)
  <2>1. g[0] = e
    <3>1. 0 \in 0..n
      BY <1>1
    <3> QED BY <1>4, <3>1 DEF Run
  <2>2. ASSUME NEW i \in 1..(n + 1)
        PROVE  g[i] = F[<<Append(q, m)[i], g[i - 1]>>]
    <3>1. CASE i = n + 1
      <4>1. n \in 0..n /\ i - 1 = n
        BY <1>1, <3>1
      <4> QED BY <1>2, <1>3, <1>4, <3>1, <4>1
    <3>2. CASE i # n + 1
      <4>1. i \in 1..n /\ i \in 0..n /\ i - 1 \in 0..n
        BY <1>1, <3>2
      <4>2. f[i] = F[<<q[i], f[i - 1]>>]
        BY <4>1 DEF Run, n
      <4> QED BY <1>2, <1>4, <4>1, <4>2
    <3> QED BY <3>1, <3>2
  <2> QED BY <1>2, <2>1, <2>2 DEF Run
<1>6. g[Len(Append(q, m))] = F[<<m, f[Len(q)]>>]
  BY <1>2, <1>3 DEF n
<1> QED BY <1>5, <1>6 DEF EndsIn

LEMMA RunExists ==
    ASSUME NEW M, NEW F, NEW e, NEW q \in Seq(M)
    PROVE  \E f : Run(f, q, F, e)
<1> DEFINE T == {r \in Seq(M) : \E f : Run(f, r, F, e)}
<1>1. <<>> \in T
  <2> DEFINE f == [i \in {0} |-> e]
  <2>1. <<>> \in Seq(M) /\ Len(<<>>) = 0
    BY EmptySeq
  <2>2. f[0] = e
    OBVIOUS
  <2> HIDE DEF f
  <2>3. Run(f, <<>>, F, e)
    <3>1. 1..Len(<<>>) = {}
      BY <2>1
    <3> QED BY <2>2, <3>1 DEF Run
  <2> QED BY <2>1, <2>3
<1>2. ASSUME NEW r \in Seq(M), r \in T, NEW m \in M PROVE Append(r, m) \in T
  <2>1. PICK f : Run(f, r, F, e)
    BY <1>2
  <2>2. EndsIn(Append(r, m), F, e, F[<<m, f[Len(r)]>>])
    BY <2>1, RunAppend
  <2>3. \E g : Run(g, Append(r, m), F, e)
    BY <2>2 DEF EndsIn
  <2>4. Append(r, m) \in Seq(M)
    BY AppendProperties
  <2> QED BY <2>3, <2>4
<1>3. Seq(M) \subseteq T
  <2> HIDE DEF T
  <2> QED BY <1>1, <1>2, InductionOnSequences
<1> QED BY <1>3

LEMMA FoldAppend ==
    ASSUME NEW M, NEW q \in Seq(M), NEW m \in M, NEW F, NEW e
    PROVE  Fold(Append(q, m), F, e) = F[<<m, Fold(q, F, e)>>]
<1>1. PICK f : Run(f, q, F, e)
  BY RunExists
<1>2. Fold(q, F, e) = f[Len(q)]
  BY <1>1, FoldIsEnd
<1>3. EndsIn(Append(q, m), F, e, F[<<m, f[Len(q)]>>])
  BY <1>1, RunAppend
<1>4. Append(q, m) \in Seq(M)
  BY AppendProperties
<1>5. Fold(Append(q, m), F, e) = F[<<m, f[Len(q)]>>]
  BY <1>3, <1>4, EndIsFold
<1> QED BY <1>2, <1>5

LEMMA FoldConcat ==
    ASSUME NEW M, NEW p \in Seq(M), NEW q \in Seq(M), NEW F, NEW e
    PROVE  Fold(p \o q, F, e) = Fold(q, F, Fold(p, F, e))
<1> DEFINE T == {r \in Seq(M) : Fold(p \o r, F, e) = Fold(r, F, Fold(p, F, e))}
<1>1. <<>> \in T
  <2>1. p \o <<>> = p /\ <<>> \in Seq(M)
    BY ConcatEmptySeq
  <2>2. Fold(<<>>, F, Fold(p, F, e)) = Fold(p, F, e)
    BY FoldEmpty
  <2> QED BY <2>1, <2>2
<1>2. ASSUME NEW r \in Seq(M), r \in T, NEW m \in M PROVE Append(r, m) \in T
  <2>1. p \o r \in Seq(M)
    BY ConcatProperties
  <2>2. p \o Append(r, m) = Append(p \o r, m)
    <3>1. <<m>> \in Seq(M)
      OBVIOUS
    <3>2. Append(r, m) = r \o <<m>> /\ Append(p \o r, m) = (p \o r) \o <<m>>
      BY <2>1, AppendIsConcat
    <3>3. p \o (r \o <<m>>) = (p \o r) \o <<m>>
      BY <3>1, ConcatAssociative
    <3> QED BY <3>2, <3>3
  <2>3. \A x : \A s \in Seq(M) : Fold(Append(s, m), F, x) = F[<<m, Fold(s, F, x)>>]
    <3>1. \A x, v : \A s \in Seq(M) :
            v = F[<<m, Fold(s, F, x)>>] => Fold(Append(s, m), F, x) = v
      BY FoldAppend
    <3> QED BY <3>1
  <2>4. /\ Fold(Append(p \o r, m), F, e) = F[<<m, Fold(p \o r, F, e)>>]
        /\ Fold(Append(r, m), F, Fold(p, F, e)) = F[<<m, Fold(r, F, Fold(p, F, e))>>]
    BY <2>1, <2>3
  <2>5. Append(r, m) \in Seq(M)
    BY AppendProperties
  <2> QED BY <1>2, <2>2, <2>3, <2>4, <2>5
<1>3. Seq(M) \subseteq T
  <2> HIDE DEF T
  <2> QED BY <1>1, <1>2, InductionOnSequences
<1> QED BY <1>3

LEMMA FoldHead ==
    ASSUME NEW M, NEW q \in Seq(M), q # <<>>, NEW F, NEW e
    PROVE  Fold(q, F, e) = Fold(Tail(q), F, F[<<Head(q), e>>])
<1>1. Head(q) \in M /\ Tail(q) \in Seq(M)
  BY HeadTailProperties
<1>2. q = <<Head(q)>> \o Tail(q)
  <2>1. Len(q) \in Nat \ {0}
    BY EmptySeq
  <2>2. 1 \in 1..Len(q) /\ Len(q) \in 1..Len(q)
    BY <2>1
  <2>3. SubSeq(q, 1, Len(q)) = <<q[1]>> \o SubSeq(q, 1 + 1, Len(q))
    BY <2>2, SubSeqRecursiveFirst
  <2>4. SubSeq(q, 1, Len(q)) = q /\ Tail(q) = SubSeq(q, 2, Len(q)) /\ Head(q) = q[1]
    BY SubSeqFull, TailIsSubSeq
  <2> QED BY <2>3, <2>4
<1>3. <<Head(q)>> \in Seq(M)
  BY <1>1
<1>4. Fold(<<Head(q)>>, F, e) = F[<<Head(q), e>>]
  <2>1. <<>> \in Seq(M)
    BY EmptySeq
  <2>2. <<Head(q)>> = Append(<<>>, Head(q))
    OBVIOUS
  <2>3. Fold(Append(<<>>, Head(q)), F, e) = F[<<Head(q), Fold(<<>>, F, e)>>]
    <3>1. \A s \in Seq(M), m \in M : Fold(Append(s, m), F, e) = F[<<m, Fold(s, F, e)>>]
      BY FoldAppend
    <3> QED BY <1>1, <2>1, <3>1
  <2> QED BY <2>2, <2>3, FoldEmpty
<1>5. Fold(<<Head(q)>> \o Tail(q), F, e) = Fold(Tail(q), F, Fold(<<Head(q)>>, F, e))
  <2> DEFINE h == <<Head(q)>>
             t == Tail(q)
  <2>1. h \in Seq(M) /\ t \in Seq(M)
    BY <1>1, <1>3
  <2> HIDE DEF h, t
  <2>2. Fold(h \o t, F, e) = Fold(t, F, Fold(h, F, e))
    BY <2>1, FoldConcat
  <2> QED BY <2>2 DEF h, t
<1> QED BY <1>2, <1>4, <1>5

\* A step that stays in a set leads to a fold in it.
LEMMA RunType ==
    ASSUME NEW M, NEW S, NEW q \in Seq(M), NEW F \in [M \X S -> S], NEW e \in S,
           NEW f, Run(f, q, F, e)
    PROVE  \A i \in 0..Len(q) : f[i] \in S
<1> DEFINE n == Len(q)
           T == {k \in 0..n : f[k] \in S}
<1>1. n \in Nat
  BY LenProperties
<1>2. 0 \in T
  <2>1. 0 \in 0..n /\ f[0] \in S
    BY <1>1 DEF Run
  <2> QED BY <2>1
<1>3. ASSUME NEW k \in 0..n, k \in T, k < n PROVE k + 1 \in T
  <2>1. k + 1 \in 1..n /\ k + 1 \in 0..n /\ (k + 1) - 1 = k
    BY <1>1, <1>3
  <2>2. q[k + 1] \in M
    BY <2>1, ElementOfSeq
  <2>3. f[k + 1] = F[<<q[k + 1], f[k]>>]
    BY <2>1 DEF Run
  <2>4. <<q[k + 1], f[k]>> \in M \X S
    BY <1>3, <2>2
  <2> QED BY <2>1, <2>3, <2>4
<1>4. \A k \in 0..n : k \in T
  <2> HIDE DEF T, n
  <2> QED BY <1>1, <1>2, <1>3, InductionUpTo
<1> QED BY <1>4

LEMMA FoldType ==
    ASSUME NEW M, NEW S, NEW q \in Seq(M), NEW F \in [M \X S -> S], NEW e \in S
    PROVE  Fold(q, F, e) \in S
<1>1. PICK f : Run(f, q, F, e)
  BY RunExists
<1>2. Len(q) \in 0..Len(q)
  BY LenProperties
<1>3. f[Len(q)] \in S
  BY <1>1, <1>2, RunType
<1>4. Fold(q, F, e) = f[Len(q)]
  BY <1>1, FoldIsEnd
<1> QED BY <1>3, <1>4

\* There is a run that is a function of the places up to the end.
LEMMA RunOnPlaces ==
    ASSUME NEW M, NEW S, NEW q \in Seq(M), NEW F \in [M \X S -> S], NEW e \in S
    PROVE  \E f : f = [k \in 0..Len(q) |-> f[k]] /\ Run(f, q, F, e)
<1>1. PICK g : Run(g, q, F, e)
  BY RunExists
<1> DEFINE f == [k \in 0..Len(q) |-> g[k]]
<1>2. f = [k \in 0..Len(q) |-> f[k]] /\ \A k \in 0..Len(q) : f[k] = g[k]
  OBVIOUS
<1> HIDE DEF f
<1>3. Len(q) \in Nat
  BY LenProperties
<1>4. ASSUME NEW i \in 1..Len(q) PROVE f[i] = F[<<q[i], f[i - 1]>>]
  <2>1. i \in 0..Len(q) /\ i - 1 \in 0..Len(q)
    BY <1>3
  <2>2. g[i] = F[<<q[i], g[i - 1]>>]
    BY <1>1 DEF Run
  <2> QED BY <1>2, <2>1, <2>2
<1>5. f[0] = e
  <2>1. 0 \in 0..Len(q)
    BY <1>3
  <2> QED BY <1>1, <1>2, <2>1 DEF Run
<1> QED BY <1>2, <1>4, <1>5 DEF Run

\* What a recursive definition gives is a run of its step, if the step is the one
\* of the definition wherever it stays in S.
LEMMA RecursionRuns ==
    ASSUME NEW M, NEW S, NEW q \in Seq(M), NEW F \in [M \X S -> S], NEW e \in S,
           NEW f, f[0] = e,
           \A i \in 1..Len(q) : f[i - 1] \in S => f[i] = F[<<q[i], f[i - 1]>>]
    PROVE  Run(f, q, F, e)
<1> DEFINE n == Len(q)
           T == {k \in 0..n : f[k] \in S}
<1>1. n \in Nat /\ \A k \in 1..n : q[k] \in M
  BY LenProperties, ElementOfSeq
<1>2. 0 \in T
  <2>1. 0 \in 0..n
    BY <1>1
  <2> QED BY <2>1
<1>3. ASSUME NEW k \in 0..n, k \in T, k < n PROVE k + 1 \in T
  <2>1. k + 1 \in 1..n /\ k + 1 \in 0..n /\ (k + 1) - 1 = k
    BY <1>1, <1>3
  <2>2. f[k + 1] = F[<<q[k + 1], f[k]>>]
    BY <1>3, <2>1
  <2>3. <<q[k + 1], f[k]>> \in M \X S
    BY <1>1, <1>3, <2>1
  <2> QED BY <2>1, <2>2, <2>3
<1>4. \A k \in 0..n : k \in T
  <2> HIDE DEF T, n
  <2> QED BY <1>1, <1>2, <1>3, InductionUpTo
<1>5. ASSUME NEW i \in 1..n PROVE f[i] = F[<<q[i], f[i - 1]>>]
  <2>1. i - 1 \in 0..n
    BY <1>1
  <2>2. f[i - 1] \in S
    BY <1>4, <2>1
  <2> QED BY <2>2
<1> QED BY <1>5 DEF Run

\* Elements the step passes over leave the fold where it starts.
LEMMA FoldPasses ==
    ASSUME NEW M, NEW q \in Seq(M), NEW F, NEW e, \A i \in 1..Len(q) : F[<<q[i], e>>] = e
    PROVE  Fold(q, F, e) = e
<1> DEFINE f == [i \in 0..Len(q) |-> e]
<1>1. Len(q) \in Nat
  BY LenProperties
<1>2. \A i \in 0..Len(q) : f[i] = e
  OBVIOUS
<1> HIDE DEF f
<1>3. Run(f, q, F, e)
  <2>1. f[0] = e
    BY <1>1, <1>2
  <2>2. ASSUME NEW i \in 1..Len(q) PROVE f[i] = F[<<q[i], f[i - 1]>>]
    <3>1. i \in 0..Len(q) /\ i - 1 \in 0..Len(q)
      BY <1>1
    <3> QED BY <1>2, <3>1
  <2> QED BY <2>1, <2>2 DEF Run
<1>4. Fold(q, F, e) = f[Len(q)]
  BY <1>3, FoldIsEnd
<1>5. Len(q) \in 0..Len(q)
  BY <1>1
<1> QED BY <1>2, <1>4, <1>5

\* Sequences whose elements do the same lead to the same.
Agree(p, q, F, M, S) ==
    /\ p \in Seq(M) /\ q \in Seq(M) /\ F \in [M \X S -> S]
    /\ Len(p) = Len(q)
    /\ \A i \in 1..Len(p) : \A x \in S : F[<<p[i], x>>] = F[<<q[i], x>>]

LEMMA FoldAgrees ==
    ASSUME NEW M, NEW S, NEW p, NEW q, NEW F, NEW e \in S, Agree(p, q, F, M, S)
    PROVE  Fold(p, F, e) = Fold(q, F, e)
<1>0. p \in Seq(M) /\ q \in Seq(M) /\ F \in [M \X S -> S]
  BY DEF Agree
<1>1. PICK f : Run(f, p, F, e)
  BY <1>0, RunExists
<1>2. \A i \in 0..Len(p) : f[i] \in S
  BY <1>0, <1>1, RunType
<1>3. Len(p) \in Nat
  BY <1>0, LenProperties
<1>4. Run(f, q, F, e)
  <2>1. ASSUME NEW i \in 1..Len(q) PROVE f[i] = F[<<q[i], f[i - 1]>>]
    <3>1. i \in 1..Len(p) /\ i - 1 \in 0..Len(p)
      BY <1>3 DEF Agree
    <3>2. f[i] = F[<<p[i], f[i - 1]>>]
      BY <1>1, <3>1 DEF Run
    <3> QED BY <1>2, <3>1, <3>2 DEF Agree
  <2> QED BY <1>1, <2>1 DEF Run
<1>5. Len(p) = Len(q)
  BY DEF Agree
<1> QED BY <1>0, <1>1, <1>4, <1>5, FoldIsEnd

\* A step that one element decides, and that no later one but its like undoes:
\* with an element that leads to x whatever is before it, and the others passed
\* over or leading to x as well, the fold is x.
Decides(i, q, F, M, S, x) ==
    /\ q \in Seq(M) /\ F \in [M \X S -> S]
    /\ i \in 1..Len(q)
    /\ \A y \in S : F[<<q[i], y>>] = x
    /\ \A j \in 1..Len(q) : F[<<q[j], x>>] = x

LEMMA FoldDecided ==
    ASSUME NEW M, NEW S, NEW q, NEW F, NEW e \in S, NEW x, NEW i, Decides(i, q, F, M, S, x)
    PROVE  Fold(q, F, e) = x
<1> DEFINE n == Len(q)
<1>0. /\ q \in Seq(M) /\ F \in [M \X S -> S]
      /\ i \in 1..n
      /\ \A y \in S : F[<<q[i], y>>] = x
      /\ \A j \in 1..n : F[<<q[j], x>>] = x
  BY DEF Decides
<1>1. PICK f : Run(f, q, F, e)
  BY <1>0, RunExists
<1>2. n \in Nat
  BY <1>0, LenProperties
<1>3. \A k \in 0..n : f[k] \in S
  BY <1>0, <1>1, RunType
<1> DEFINE T == {k \in 0..n : i <= k => f[k] = x}
<1>4. 0 \in T
  BY <1>0, <1>2
<1>5. ASSUME NEW k \in 0..n, k \in T, k < n PROVE k + 1 \in T
  <2>1. k + 1 \in 1..n /\ k + 1 \in 0..n /\ (k + 1) - 1 = k
    BY <1>2, <1>5
  <2>2. f[k + 1] = F[<<q[k + 1], f[k]>>]
    BY <1>1, <2>1 DEF Run
  <2>3. ASSUME i <= k + 1 PROVE f[k + 1] = x
    <3>1. i = k + 1 \/ i <= k
      BY <1>0, <1>2, <2>3
    <3>2. CASE i = k + 1
      BY <1>0, <1>3, <2>2, <3>2
    <3>3. CASE i <= k
      <4>1. f[k] = x
        BY <1>5, <3>3
      <4> QED BY <1>0, <2>1, <2>2, <4>1
    <3> QED BY <3>1, <3>2, <3>3
  <2> QED BY <2>1, <2>3
<1>6. \A k \in 0..n : k \in T
  <2> HIDE DEF T, n
  <2> QED BY <1>2, <1>4, <1>5, InductionUpTo
<1>7. n \in 0..n /\ i <= n
  BY <1>0, <1>2
<1>8. f[n] = x
  BY <1>6, <1>7
<1>9. Fold(q, F, e) = f[n]
  BY <1>0, <1>1, FoldIsEnd
<1> QED BY <1>8, <1>9
=============================================================================
