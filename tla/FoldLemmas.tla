----------------------------- MODULE FoldLemmas -----------------------------
(***************************************************************************)
(* What FoldLeft and FlattenSeq of the community modules compute, for      *)
(* every sequence.  Step is what is folded; whoever proves about a fold of *)
(* his own instantiates this module with it, which is how one lemma serves *)
(* them all: a prover cannot be given an operator for a bound variable.    *)
(* The first argument of Step stands for what is the same in all steps.    *)
(***************************************************************************)
EXTENDS SequencesExt, NaturalsInduction, WellFoundedInduction, TLAPS

CONSTANT Step(_, _, _)

Value(x, b, seq) == FoldLeft(LAMBDA s, a : Step(x, s, a), b, seq)

\* Some sequence, whatever it holds.
IsSeq(s) == s \in Seq(Range(s))

-----------------------------------------------------------------------------
(* Induction, over the naturals and as a statement about sets *)

\* Induction over the naturals, for a set of them.
LEMMA NatSetInduction ==
    ASSUME NEW S, 0 \in S, \A n \in Nat : n \in S => n + 1 \in S
    PROVE  Nat \subseteq S
<1>. DEFINE R == OpToRel(<, Nat)
            T == Nat \ S
<1>1. SUFFICES ASSUME T # {} PROVE FALSE
  OBVIOUS
<1>2. \E x \in T : \A y \in T : ~(<<y, x>> \in R)
  <2>. HIDE DEF R, T
  <2>1. IsWellFoundedOn(R, Nat)
    BY NatLessThanWellFounded DEF R
  <2>2. T \subseteq Nat
    BY DEF T
  <2>. QED
    BY <1>1, <2>1, <2>2, WFMin
<1>3. PICK x \in T : \A y \in T : ~(<<y, x>> \in R)
  BY <1>2
<1>4. x # 0 /\ x \in Nat
  OBVIOUS
<1>5. x - 1 \in Nat /\ x - 1 < x /\ (x - 1) + 1 = x
  BY <1>4
<1>6. <<x - 1, x>> \in R
  BY <1>4, <1>5 DEF OpToRel
<1>7. x - 1 \notin T
  BY <1>3, <1>6
<1>. QED
  BY <1>4, <1>5, <1>7

\* A set of numbers up to n has a greatest.
LEMMA MaxIsThere ==
    ASSUME NEW n \in Nat, NEW s \in SUBSET (1 .. n), s # {}
    PROVE  Max(s) \in s /\ \A y \in s : Max(s) >= y
<1>. DEFINE HasMax(t) == \E m \in t : \A y \in t : m >= y
            Good == {k \in Nat : \A t \in SUBSET (1 .. k) : t # {} => HasMax(t)}
<1>1. 0 \in Good
  <2>1. 1 .. 0 = {}
    OBVIOUS
  <2>. QED
    BY <2>1
<1>2. ASSUME NEW k \in Nat, k \in Good PROVE k + 1 \in Good
  <2>. SUFFICES ASSUME NEW t \in SUBSET (1 .. k + 1), t # {} PROVE HasMax(t)
    OBVIOUS
  <2>1. CASE k + 1 \in t
    BY <2>1
  <2>2. CASE k + 1 \notin t
    <3>1. t \in SUBSET (1 .. k)
      BY <2>2
    <3>. QED
      BY <1>2, <3>1
  <2>. QED
    BY <2>1, <2>2
<1>. HIDE DEF Good
<1>3. n \in Good
  BY <1>1, <1>2, NatSetInduction
<1>4. HasMax(s)
  BY <1>3 DEF Good
<1>. QED
  BY <1>4 DEF Max

-----------------------------------------------------------------------------
(* FoldLeft *)

\* The function that FoldLeft recurs with is there.
IsIter(f, x, b, seq, n) ==
    f = [s \in SUBSET (1 .. n) |->
            IF s = {} THEN b ELSE Step(x, f[s \ {Max(s)}], seq[Max(s)])]

\* There is such a function, for every sequence.
LEMMA IterExists ==
    ASSUME NEW x, NEW b, NEW seq, NEW n \in Nat
    PROVE  \E iter : IsIter(iter, x, b, seq, n)
<1>. DEFINE Iter(f, k) == IsIter(f, x, b, seq, k)
            Good == {k \in Nat : \E f : Iter(f, k)}
<1>1. 0 \in Good
  <2>. DEFINE f == [s \in {{}} |-> b]
  <2>1. SUBSET (1 .. 0) = {{}}
    OBVIOUS
  <2>2. Iter(f, 0)
    BY <2>1 DEF IsIter
  <2>. QED
    BY <2>2
<1>2. ASSUME NEW k \in Nat, k \in Good PROVE k + 1 \in Good
  <2>1. PICK f : Iter(f, k)
    BY <1>2
  <2>. USE DEF IsIter
  <2>. DEFINE g == [s \in SUBSET (1 .. k + 1) |->
                      IF k + 1 \in s THEN Step(x, f[s \ {k + 1}], seq[k + 1]) ELSE f[s]]
  <2>2. ASSUME NEW s \in SUBSET (1 .. k + 1)
        PROVE  g[s] = IF s = {} THEN b ELSE Step(x, g[s \ {Max(s)}], seq[Max(s)])
    <3>1. CASE s = {}
      BY <2>1, <3>1
    <3>2. CASE k + 1 \in s
      <4>. HIDE DEF g, Iter, Good
      <4>1. k + 1 \in Nat /\ s # {}
        BY <3>2
      <4>2. Max(s) \in s /\ \A y \in s : Max(s) >= y
        BY <4>1, MaxIsThere, Zenon
      <4>3. Max(s) >= k + 1 /\ Max(s) \in 1 .. k + 1
        BY <3>2, <4>2
      <4>4. Max(s) = k + 1
        BY <4>3
      <4>. USE DEF g
      <4>5. s \ {k + 1} \in SUBSET (1 .. k)
        OBVIOUS
      <4>6. g[s \ {k + 1}] = f[s \ {k + 1}]
        BY <4>5
      <4>. QED
        BY <3>2, <4>4, <4>6
    <3>3. CASE s # {} /\ k + 1 \notin s
      <4>1. s \in SUBSET (1 .. k)
        BY <3>3
      <4>2. Max(s) \in s
        BY <3>3, MaxIsThere
      <4>3. s \ {Max(s)} \in SUBSET (1 .. k) /\ k + 1 \notin s \ {Max(s)}
        BY <3>3, <4>1
      <4>4. g[s] = f[s] /\ g[s \ {Max(s)}] = f[s \ {Max(s)}]
        BY <3>3, <4>3
      <4>5. f[s] = Step(x, f[s \ {Max(s)}], seq[Max(s)])
        BY <2>1, <3>3, <4>1
      <4>. QED
        BY <3>3, <4>4, <4>5
    <3>. QED
      BY <3>1, <3>2, <3>3
  <2>3. Iter(g, k + 1)
    <3>. HIDE DEF g
    <3>1. g = [s \in SUBSET (1 .. k + 1) |-> g[s]]
      BY DEF g
    <3>. QED
      BY <2>2, <3>1
  <2>. HIDE DEF g, IsIter
  <2>4. \E h : Iter(h, k + 1)
    BY <2>3
  <2>. QED
    BY <2>4
<1>. HIDE DEF Good
<1>3. n \in Good
  BY <1>1, <1>2, NatSetInduction
<1>. QED
  BY <1>3 DEF Good

\* A fold is the last of the values that its steps go through.
IsRun(R, x, b, seq, n) ==
    R[0] = b /\ \A k \in 1 .. n : R[k] = Step(x, R[k - 1], seq[k])

\* A fold goes through a run of states, one after each element.
LEMMA FoldRun ==
    ASSUME NEW x, NEW b, NEW seq, NEW n \in Nat, DOMAIN seq = 1 .. n
    PROVE  \E R : IsRun(R, x, b, seq, n) /\ Value(x, b, seq) = R[n]
<1>. DEFINE iter == CHOOSE f : IsIter(f, x, b, seq, n)
            R == [k \in 0 .. n |-> iter[1 .. k]]
<1>1. IsIter(iter, x, b, seq, n)
  BY IterExists
<1>2. Value(x, b, seq) = iter[1 .. n]
  BY DEF Value, FoldLeft, MapThenFoldSet, IsIter
<1>. USE DEF IsIter
<1>. HIDE DEF iter
<1>3. R[0] = b
  <2>1. 1 .. 0 = {} /\ {} \in SUBSET (1 .. n)
    OBVIOUS
  <2>2. iter[{}] = b
    BY <1>1
  <2>. QED
    BY <2>1, <2>2
<1>4. ASSUME NEW k \in 1 .. n PROVE R[k] = Step(x, R[k - 1], seq[k])
  <2>1. 1 .. k \in SUBSET (1 .. n) /\ 1 .. k # {} /\ k \in 1 .. k /\ k \in Nat
    OBVIOUS
  <2>2. Max(1 .. k) \in 1 .. k /\ Max(1 .. k) >= k
    BY <2>1, MaxIsThere
  <2>3. Max(1 .. k) = k
    BY <2>2
  <2>4. (1 .. k) \ {k} = 1 .. (k - 1) /\ k - 1 \in 0 .. n
    OBVIOUS
  <2>5. iter[1 .. k] = Step(x, iter[1 .. (k - 1)], seq[k])
    BY <1>1, <2>1, <2>3, <2>4
  <2>. QED
    BY <2>4, <2>5
<1>. HIDE DEF R
<1>5. IsRun(R, x, b, seq, n)
  BY <1>3, <1>4 DEF IsRun
<1>6. R[n] = iter[1 .. n]
  BY DEF R
<1>. QED
  BY <1>2, <1>5, <1>6

-----------------------------------------------------------------------------
(* Sequences *)

\* A sequence is the function that its elements make.
LEMMA SeqFacts ==
    ASSUME NEW s, IsSeq(s)
    PROVE  Len(s) \in Nat /\ DOMAIN s = 1 .. Len(s) /\ s = [i \in 1 .. Len(s) |-> s[i]]
BY DEF IsSeq

\* A function of 1 .. n is a sequence of n.
LEMMA FunctionIsSeq ==
    ASSUME NEW n \in Nat, NEW s, s = [i \in 1 .. n |-> s[i]]
    PROVE  IsSeq(s) /\ Len(s) = n
<1>1. s \in Seq(Range(s))
  BY DEF Range
<1>. QED
  BY <1>1 DEF IsSeq

\* A sequence over any set is one over what it holds.
LEMMA AnySeqIsSeq == \A S : \A s \in Seq(S) : IsSeq(s)
<1>. SUFFICES ASSUME NEW S, NEW s \in Seq(S) PROVE IsSeq(s)
  OBVIOUS
<1>1. Len(s) \in Nat /\ s = [i \in 1 .. Len(s) |-> s[i]]
  OBVIOUS
<1>. QED
  BY <1>1, FunctionIsSeq

\* What stands where in a concatenation.
LEMMA ConcatFacts ==
    ASSUME NEW s, NEW t, IsSeq(s), IsSeq(t)
    PROVE  /\ IsSeq(s \o t) /\ Len(s \o t) = Len(s) + Len(t)
           /\ \A i \in 1 .. Len(s) : (s \o t)[i] = s[i]
           /\ \A i \in 1 .. Len(t) : (s \o t)[Len(s) + i] = t[i]
<1>. DEFINE S == Range(s) \cup Range(t)
<1>1. s \in Seq(S) /\ t \in Seq(S)
  <2>1. \A i \in 1 .. Len(s) : s[i] \in S
    BY SeqFacts DEF Range
  <2>2. \A i \in 1 .. Len(t) : t[i] \in S
    BY SeqFacts DEF Range
  <2>. HIDE DEF S
  <2>. QED
    BY <2>1, <2>2, SeqFacts
<1>. HIDE DEF S
<1>2. IsSeq(s \o t)
  <2>1. s \o t \in Seq(S)
    BY <1>1
  <2>. QED
    BY <2>1, AnySeqIsSeq
<1>3. Len(s \o t) = Len(s) + Len(t)
  BY <1>1
<1>4. \A i \in 1 .. Len(s) : (s \o t)[i] = s[i]
  BY <1>1
<1>5. \A i \in 1 .. Len(t) : (s \o t)[Len(s) + i] = t[i]
  BY <1>1
<1>. QED
  BY <1>2, <1>3, <1>4, <1>5

\* Sequences with the same elements are the same.
LEMMA SameSeq ==
    ASSUME NEW s, NEW t, IsSeq(s), IsSeq(t), Len(s) = Len(t),
           \A i \in 1 .. Len(s) : s[i] = t[i]
    PROVE  s = t
<1>1. s \in Seq(Range(s) \cup Range(t)) /\ t \in Seq(Range(s) \cup Range(t))
  BY SeqFacts DEF Range
<1>. QED
  BY <1>1

-----------------------------------------------------------------------------
(* A fold over the parts of a sequence *)

\* Nothing folds to what it began with.
LEMMA FoldEmpty ==
    ASSUME NEW x, NEW b
    PROVE  Value(x, b, <<>>) = b
<1>1. DOMAIN <<>> = 1 .. 0 /\ 0 \in Nat
  OBVIOUS
<1>2. PICK R : IsRun(R, x, b, <<>>, 0) /\ Value(x, b, <<>>) = R[0]
  BY <1>1, FoldRun, Zenon
<1>. QED
  BY <1>2 DEF IsRun

\* One element is one step.
LEMMA FoldOne ==
    ASSUME NEW x, NEW b, NEW a
    PROVE  Value(x, b, <<a>>) = Step(x, b, a)
<1>. DEFINE s == <<a>>
<1>1. DOMAIN s = 1 .. 1 /\ s[1] = a /\ 1 \in Nat
  OBVIOUS
<1>. HIDE DEF s
<1>2. PICK R : IsRun(R, x, b, s, 1) /\ Value(x, b, s) = R[1]
  BY <1>1, FoldRun, Zenon
<1>3. R[0] = b /\ R[1] = Step(x, R[0], s[1])
  BY <1>2 DEF IsRun
<1>. QED
  BY <1>1, <1>2, <1>3 DEF s

\* A fold goes on from where it left off.
LEMMA FoldConcat ==
    ASSUME NEW x, NEW b, NEW s, NEW t, IsSeq(s), IsSeq(t)
    PROVE  Value(x, b, s \o t) = Value(x, Value(x, b, s), t)
<1>. DEFINE m == Len(s)
            n == Len(t)
            u == s \o t
            c == Value(x, b, s)
<1>1. /\ m \in Nat /\ n \in Nat /\ m + n \in Nat
      /\ DOMAIN s = 1 .. m /\ DOMAIN t = 1 .. n /\ DOMAIN u = 1 .. m + n
      /\ \A i \in 1 .. m : u[i] = s[i]
      /\ \A i \in 1 .. n : u[m + i] = t[i]
  <2>1. IsSeq(u) /\ Len(u) = m + n
    BY ConcatFacts
  <2>. QED
    BY <2>1, SeqFacts, ConcatFacts
<1>. HIDE DEF m, n, u
<1>2. PICK R : IsRun(R, x, b, s, m) /\ c = R[m]
  BY <1>1, FoldRun
<1>. HIDE DEF c
<1>3. PICK Q : IsRun(Q, x, c, t, n) /\ Value(x, c, t) = Q[n]
  BY <1>1, FoldRun
<1>4. PICK U : IsRun(U, x, b, u, m + n) /\ Value(x, b, u) = U[m + n]
  <2>1. m + n \in Nat /\ DOMAIN u = 1 .. m + n
    BY <1>1
  <2>. QED
    BY <2>1, FoldRun, Zenon
<1>. DEFINE First == {k \in Nat : k <= m => U[k] = R[k]}
            Second == {k \in Nat : k <= n => U[m + k] = Q[k]}
<1>5. 0 \in First
  BY <1>2, <1>4 DEF IsRun
<1>6. ASSUME NEW k \in Nat, k \in First PROVE k + 1 \in First
  <2>. SUFFICES ASSUME k + 1 <= m PROVE U[k + 1] = R[k + 1]
    OBVIOUS
  <2>1. k + 1 \in 1 .. m /\ k + 1 \in 1 .. m + n /\ (k + 1) - 1 = k /\ k <= m
    BY <1>1
  <2>2. U[k + 1] = Step(x, U[k], u[k + 1]) /\ R[k + 1] = Step(x, R[k], s[k + 1])
    BY <1>2, <1>4, <2>1 DEF IsRun
  <2>. QED
    BY <1>1, <1>6, <2>1, <2>2
<1>. HIDE DEF First
<1>7. m \in First
  BY <1>1, <1>5, <1>6, NatSetInduction
<1>8. U[m] = c
  BY <1>1, <1>2, <1>7 DEF First
<1>9. 0 \in Second
  BY <1>1, <1>3, <1>8 DEF IsRun
<1>10. ASSUME NEW k \in Nat, k \in Second PROVE k + 1 \in Second
  <2>. SUFFICES ASSUME k + 1 <= n PROVE U[m + (k + 1)] = Q[k + 1]
    OBVIOUS
  <2>1. k + 1 \in 1 .. n /\ (k + 1) - 1 = k /\ k <= n
    BY <1>1
  <2>2. m + (k + 1) \in 1 .. m + n /\ (m + (k + 1)) - 1 = m + k
    BY <1>1, <2>1
  <2>3. U[m + (k + 1)] = Step(x, U[m + k], u[m + (k + 1)]) /\ Q[k + 1] = Step(x, Q[k], t[k + 1])
    BY <1>3, <1>4, <2>1, <2>2 DEF IsRun
  <2>. QED
    BY <1>1, <1>10, <2>1, <2>3
<1>. HIDE DEF Second
<1>11. n \in Second
  BY <1>1, <1>9, <1>10, NatSetInduction
<1>12. U[m + n] = Q[n]
  BY <1>1, <1>11 DEF Second
<1>. QED
  BY <1>3, <1>4, <1>12 DEF u, c

-----------------------------------------------------------------------------
(* FlattenSeq *)

\* The steps of FlattenSeq, each of which appends one more piece.
IsFlatRun(R, pieces) ==
    R[0] = <<>> /\ \A k \in 1 .. Len(pieces) : R[k] = R[k - 1] \o pieces[k]

\* FlattenSeq joins the pieces one after the other.
LEMMA FlattenRun ==
    ASSUME NEW pieces, IsSeq(pieces), \A k \in 1 .. Len(pieces) : IsSeq(pieces[k])
    PROVE  \E R : IsFlatRun(R, pieces) /\ FlattenSeq(pieces) = R[Len(pieces)]
<1>. DEFINE n == Len(pieces)
            IsFlat(f, m) == f = [i \in 1 .. m |-> IF i = 1 THEN pieces[i] ELSE f[i - 1] \o pieces[i]]
            flat == CHOOSE f : IsFlat(f, n)
            R == [k \in 0 .. n |-> IF k = 0 THEN <<>> ELSE flat[k]]
            Good == {k \in Nat : \E f : IsFlat(f, k)}
<1>1. n \in Nat
  BY SeqFacts
<1>2. FlattenSeq(pieces) = IF n = 0 THEN pieces ELSE flat[n]
  BY DEF FlattenSeq
<1>3. 0 \in Good
  <2>1. IsFlat([i \in 1 .. 0 |-> 0], 0)
    OBVIOUS
  <2>. QED
    BY <2>1
<1>4. ASSUME NEW k \in Nat, k \in Good PROVE k + 1 \in Good
  <2>1. PICK f : IsFlat(f, k)
    BY <1>4
  <2>. DEFINE g == [i \in 1 .. k + 1 |-> IF i = k + 1 THEN (IF k = 0 THEN pieces[1] ELSE f[k] \o pieces[k + 1])
                                                    ELSE f[i]]
  <2>2. ASSUME NEW i \in 1 .. k + 1
        PROVE  g[i] = IF i = 1 THEN pieces[i] ELSE g[i - 1] \o pieces[i]
    <3>1. CASE i = k + 1
      <4>1. g[i] = IF k = 0 THEN pieces[1] ELSE f[k] \o pieces[i]
        BY <3>1
      <4>2. k # 0 => g[k] = f[k]
        OBVIOUS
      <4>3. i - 1 = k /\ (i = 1 <=> k = 0)
        BY <3>1
      <4>. HIDE DEF g
      <4>. QED
        BY <4>1, <4>2, <4>3
    <3>2. CASE i # k + 1
      <4>1. i \in 1 .. k
        BY <3>2
      <4>2. g[i] = f[i] /\ (i # 1 => g[i - 1] = f[i - 1])
        BY <3>2, <4>1
      <4>3. f[i] = IF i = 1 THEN pieces[i] ELSE f[i - 1] \o pieces[i]
        BY <2>1, <4>1
      <4>. HIDE DEF g
      <4>. QED
        BY <4>2, <4>3
    <3>. QED
      BY <3>1, <3>2
  <2>3. g = [i \in 1 .. k + 1 |-> g[i]]
    OBVIOUS
  <2>. HIDE DEF g
  <2>4. IsFlat(g, k + 1)
    BY <2>2, <2>3
  <2>. HIDE DEF IsFlat
  <2>5. \E h : IsFlat(h, k + 1)
    BY <2>4
  <2>. QED
    BY <2>5
<1>5. IsFlat(flat, n)
  <2>. HIDE DEF Good, n
  <2>1. n \in Good
    BY <1>1, <1>3, <1>4, NatSetInduction
  <2>2. \E f : IsFlat(f, n)
    BY <2>1 DEF Good
  <2>. HIDE DEF IsFlat
  <2>. QED
    BY <2>2
<1>. HIDE DEF flat
<1>6. n = 0 => pieces = <<>>
  BY SeqFacts
<1>7. FlattenSeq(pieces) = R[n]
  BY <1>1, <1>2, <1>6
<1>8. ASSUME NEW k \in 1 .. n PROVE R[k] = R[k - 1] \o pieces[k]
  <2>1. CASE k = 1
    <3>1. R[k] = pieces[1] /\ R[k - 1] = <<>> /\ IsSeq(pieces[1])
      BY <1>5, <2>1
    <3>2. <<>> \o pieces[1] = pieces[1]
      BY <3>1 DEF IsSeq
    <3>. QED
      BY <2>1, <3>1, <3>2
  <2>2. CASE k # 1
    BY <1>5, <2>2
  <2>. QED
    BY <2>1, <2>2
<1>9. R[0] = <<>>
  BY <1>1
<1>. HIDE DEF R
<1>. QED
  BY <1>7, <1>8, <1>9 DEF IsFlatRun
=============================================================================
