---------------------------- MODULE RunArgsProofs -----------------------------
(****************************************************************************)
(* What an engine reads in the arguments that build_run_args and             *)
(* build_allowlist_args make, for every request: the parser, the loop that   *)
(* takes --network out and the environment are folds, so each is followed    *)
(* argument by argument with the lemmas of FoldLemmas.  BuildContainer and   *)
(* AllowlistContainer, the last of each kind, are what the rest needs.       *)
(****************************************************************************)
EXTENDS RunArgs, FiniteSetTheorems, SequenceTheorems, TLAPS

-----------------------------------------------------------------------------
(* Sequences and folds: what FoldLemmas has of every fold, for those of the *)
(* engine's parser, of the loop that cleans, and of the environment.        *)

Parse(x, s, a) == ParseStep(s, a)
Parsing == INSTANCE FoldLemmas WITH Step <- Parse

Clean(x, s, a) == CleanStep(s, a)
Cleaning == INSTANCE FoldLemmas WITH Step <- Clean

Set(x, m, e) == Put(m, e[2], e[3])
Setting == INSTANCE FoldLemmas WITH Step <- Set

IsSeq(s) == s \in Seq(Range(s))

\* A sequence is the function that its elements make.
LEMMA SeqFacts ==
    ASSUME NEW s, IsSeq(s)
    PROVE  Len(s) \in Nat /\ DOMAIN s = 1 .. Len(s) /\ s = [i \in 1 .. Len(s) |-> s[i]]
BY Parsing!SeqFacts DEF IsSeq, Parsing!IsSeq, Range, Parsing!Range

\* Induction over the naturals, for a set of them.
LEMMA NatSetInduction ==
    ASSUME NEW S, 0 \in S, \A n \in Nat : n \in S => n + 1 \in S
    PROVE  Nat \subseteq S
BY Parsing!NatSetInduction

\* A function of 1 .. n is a sequence of n.
LEMMA FunctionIsSeq ==
    ASSUME NEW n \in Nat, NEW s, s = [i \in 1 .. n |-> s[i]]
    PROVE  IsSeq(s) /\ Len(s) = n
BY Parsing!FunctionIsSeq DEF IsSeq, Parsing!IsSeq, Range, Parsing!Range

\* A sequence over any set is one over what it holds.
LEMMA AnySeqIsSeq == \A S : \A s \in Seq(S) : IsSeq(s)
BY Parsing!AnySeqIsSeq DEF IsSeq, Parsing!IsSeq, Range, Parsing!Range

\* Concatenation, of which the provers are to know the lemmas and no more.
Cat(s, t) == s \o t

\* What stands where in a concatenation.
LEMMA ConcatFacts ==
    ASSUME NEW s, NEW t, IsSeq(s), IsSeq(t)
    PROVE  /\ IsSeq(Cat(s, t)) /\ Len(Cat(s, t)) = Len(s) + Len(t)
           /\ \A i \in 1 .. Len(s) : Cat(s, t)[i] = s[i]
           /\ \A i \in 1 .. Len(t) : Cat(s, t)[Len(s) + i] = t[i]
<1>. DEFINE S == Range(s) \cup Range(t)
<1>1. s \in Seq(S) /\ t \in Seq(S)
  <2>1. (\A i \in 1 .. Len(s) : s[i] \in S) /\ (\A i \in 1 .. Len(t) : t[i] \in S)
    BY SeqFacts DEF Range
  <2>. HIDE DEF S
  <2>. QED
    BY <2>1, SeqFacts
<1>. HIDE DEF S
<1>2. Cat(s, t) \in Seq(S)
  BY <1>1 DEF Cat
<1>3. IsSeq(Cat(s, t))
  BY <1>2, AnySeqIsSeq
<1>4. Len(Cat(s, t)) = Len(s) + Len(t)
  BY <1>1 DEF Cat
<1>5. \A i \in 1 .. Len(s) : Cat(s, t)[i] = s[i]
  BY <1>1 DEF Cat
<1>6. \A i \in 1 .. Len(t) : Cat(s, t)[Len(s) + i] = t[i]
  BY <1>1 DEF Cat
<1>. QED
  BY <1>3, <1>4, <1>5, <1>6

\* Sequences with the same elements are the same.
LEMMA SameSeq ==
    ASSUME NEW s, NEW t, IsSeq(s), IsSeq(t), Len(s) = Len(t),
           \A i \in 1 .. Len(s) : s[i] = t[i]
    PROVE  s = t
BY Parsing!SameSeq DEF IsSeq, Parsing!IsSeq, Range, Parsing!Range

\* SetToSeq names every element of a finite set.
LEMMA SetToSeqFacts ==
    ASSUME NEW S, IsFiniteSet(S)
    PROVE  IsSeq(SetToSeq(S)) /\ Range(SetToSeq(S)) = S
<1>. DEFINE n == Cardinality(S)
            s == SetToSeq(S)
<1>1. n \in Nat /\ ExistsBijection(1 .. n, S)
  BY FS_CardinalityType
<1>2. \E f \in [1 .. n -> S] : IsInjective(f)
  BY <1>1 DEF ExistsBijection, Bijection, Injection
<1>3. s \in [1 .. n -> S] /\ IsInjective(s)
  BY <1>2 DEF SetToSeq
<1>. HIDE DEF s
<1>4. s \in Injection(1 .. n, S)
  BY <1>3 DEF Injection
<1>5. Cardinality(1 .. n) = Cardinality(S)
  BY <1>1, FS_Interval
<1>6. s \in Surjection(1 .. n, S)
  BY <1>4, <1>5, FS_Injection
<1>7. IsSeq(s) /\ Len(s) = n
  BY <1>1, <1>3, FunctionIsSeq
<1>8. Range(s) = S
  BY <1>3, <1>6 DEF Surjection, Range
<1>. QED
  BY <1>7, <1>8 DEF s

IsFlatRun(R, pieces) ==
    R[0] = <<>> /\ \A k \in 1 .. Len(pieces) : R[k] = Cat(R[k - 1], pieces[k])

\* FlattenSeq joins the pieces one after the other.
LEMMA FlattenRun ==
    ASSUME NEW pieces, IsSeq(pieces), \A k \in 1 .. Len(pieces) : IsSeq(pieces[k])
    PROVE  \E R : IsFlatRun(R, pieces) /\ FlattenSeq(pieces) = R[Len(pieces)]
<1>1. Parsing!FlattenSeq(pieces) = FlattenSeq(pieces)
  BY DEF FlattenSeq, Parsing!FlattenSeq
<1>. QED
  BY <1>1, Parsing!FlattenRun DEF IsSeq, Parsing!IsSeq, Range, Parsing!Range,
     IsFlatRun, Parsing!IsFlatRun, Cat

\* Tuples are sequences.
LEMMA TupleIsSeq ==
    /\ IsSeq(<<>>) /\ Len(<<>>) = 0
    /\ \A a : IsSeq(<<a>>) /\ Len(<<a>>) = 1
    /\ \A a, b : IsSeq(<<a, b>>) /\ Len(<<a, b>>) = 2
<1>1. IsSeq(<<>>) /\ Len(<<>>) = 0
  <2>1. <<>> \in Seq({})
    OBVIOUS
  <2>. QED
    BY <2>1, AnySeqIsSeq
<1>2. ASSUME NEW a PROVE IsSeq(<<a>>) /\ Len(<<a>>) = 1
  <2>1. <<a>> \in Seq({a})
    OBVIOUS
  <2>. QED
    BY <2>1, AnySeqIsSeq
<1>3. ASSUME NEW a, NEW b PROVE IsSeq(<<a, b>>) /\ Len(<<a, b>>) = 2
  <2>1. <<a, b>> \in Seq({a, b})
    OBVIOUS
  <2>. QED
    BY <2>1, AnySeqIsSeq
<1>. QED
  BY <1>1, <1>2, <1>3

\* The empty sequence adds nothing.
LEMMA ConcatEmpty ==
    ASSUME NEW s, IsSeq(s)
    PROVE  Cat(s, <<>>) = s /\ Cat(<<>>, s) = s
BY DEF IsSeq, Cat

\* Concatenation is associative.
LEMMA ConcatAssoc ==
    ASSUME NEW s, NEW t, NEW u, IsSeq(s), IsSeq(t), IsSeq(u)
    PROVE  Cat(Cat(s, t), u) = Cat(s, Cat(t, u))
<1>. DEFINE S == Range(s) \cup Range(t) \cup Range(u)
<1>1. s \in Seq(S) /\ t \in Seq(S) /\ u \in Seq(S)
  <2>1. ASSUME NEW v, IsSeq(v), Range(v) \subseteq S PROVE v \in Seq(S)
    BY <2>1, SeqMonotonic DEF IsSeq
  <2>. QED
    BY <2>1
<1>. HIDE DEF S
<1>. QED
  BY <1>1 DEF Cat

\* What a concatenation holds.
LEMMA ConcatRange ==
    ASSUME NEW s, NEW t, IsSeq(s), IsSeq(t)
    PROVE  Range(Cat(s, t)) = Range(s) \cup Range(t)
<1>1. DOMAIN Cat(s, t) = 1 .. Len(s) + Len(t) /\ Len(s) \in Nat /\ Len(t) \in Nat
      /\ DOMAIN s = 1 .. Len(s) /\ DOMAIN t = 1 .. Len(t)
  BY SeqFacts, ConcatFacts
<1>2. \A i \in 1 .. Len(s) : i \in DOMAIN Cat(s, t) /\ Cat(s, t)[i] = s[i]
  BY <1>1, ConcatFacts
<1>3. \A i \in 1 .. Len(t) : Len(s) + i \in DOMAIN Cat(s, t) /\ Cat(s, t)[Len(s) + i] = t[i]
  BY <1>1, ConcatFacts
<1>4. \A i \in DOMAIN Cat(s, t) : i \in 1 .. Len(s) \/ (i - Len(s) \in 1 .. Len(t) /\ i = Len(s) + (i - Len(s)))
  BY <1>1
<1>5. Range(Cat(s, t)) \subseteq Range(s) \cup Range(t)
  <2>. SUFFICES ASSUME NEW i \in DOMAIN Cat(s, t) PROVE Cat(s, t)[i] \in Range(s) \cup Range(t)
    BY DEF Range
  <2>1. CASE i \in 1 .. Len(s)
    BY <1>1, <1>2, <2>1 DEF Range
  <2>2. CASE i - Len(s) \in 1 .. Len(t) /\ i = Len(s) + (i - Len(s))
    BY <1>1, <1>3, <2>2 DEF Range
  <2>. QED
    BY <1>4, <2>1, <2>2
<1>6. Range(s) \cup Range(t) \subseteq Range(Cat(s, t))
  BY <1>1, <1>2, <1>3 DEF Range
<1>. QED
  BY <1>5, <1>6

\* What a tuple holds.
LEMMA TupleRange ==
    /\ Range(<<>>) = {}
    /\ \A a : Range(<<a>>) = {a}
    /\ \A a, b : Range(<<a, b>>) = {a, b}
<1>1. DOMAIN <<>> = {}
  OBVIOUS
<1>2. ASSUME NEW a PROVE DOMAIN <<a>> = {1} /\ <<a>>[1] = a
  OBVIOUS
<1>3. ASSUME NEW a, NEW b PROVE DOMAIN <<a, b>> = {1, 2} /\ <<a, b>>[1] = a /\ <<a, b>>[2] = b
  OBVIOUS
<1>. QED
  BY <1>1, <1>2, <1>3 DEF Range

\* Append is a concatenation, over a set that holds the new element.
LEMMA AppendInSeq == \A S : \A s \in Seq(S), x \in S : Append(s, x) = Cat(s, <<x>>)
BY DEF Cat

\* A sequence is one over every set that holds its elements.
LEMMA InSeq == \A s, S : IsSeq(s) /\ Range(s) \subseteq S => s \in Seq(S)
BY SeqMonotonic DEF IsSeq

\* Append is a concatenation.
LEMMA AppendAsCat == \A s, x : IsSeq(s) => Append(s, x) = Cat(s, <<x>>)
<1>1. SUFFICES ASSUME NEW s, NEW x, IsSeq(s) PROVE Append(s, x) = Cat(s, <<x>>)
  OBVIOUS
<1>2. s \in Seq(Range(s) \cup {x}) /\ x \in Range(s) \cup {x}
  BY <1>1, InSeq
<1>. QED
  BY <1>2, AppendInSeq

IsCat(u, s, t) ==
    /\ IsSeq(u) /\ Len(u) = Len(s) + Len(t)
    /\ \A i \in 1 .. Len(s) : u[i] = s[i]
    /\ \A i \in 1 .. Len(t) : u[Len(s) + i] = t[i]

\* ConcatFacts, as one formula about the result.
LEMMA CatIsCat == \A s, t : IsSeq(s) /\ IsSeq(t) => IsCat(Cat(s, t), s, t)
BY ConcatFacts DEF IsCat

\* A pair is its first followed by its second.
LEMMA TwoIsConcat ==
    ASSUME NEW a, NEW b
    PROVE  <<a, b>> = Cat(<<a>>, <<b>>)
<1>. DEFINE s == <<a>>
            t == <<b>>
            u == <<a, b>>
<1>1. /\ IsSeq(s) /\ Len(s) = 1 /\ s[1] = a
      /\ IsSeq(t) /\ Len(t) = 1 /\ t[1] = b
      /\ IsSeq(u) /\ Len(u) = 2 /\ u[1] = a /\ u[2] = b
  BY TupleIsSeq
<1>. HIDE DEF s, t, u
<1>2. IsCat(Cat(s, t), s, t)
  BY <1>1, CatIsCat
<1>3. Len(Cat(s, t)) = 2 /\ Cat(s, t)[1] = a /\ Cat(s, t)[2] = b
  BY <1>1, <1>2 DEF IsCat
<1>4. u = Cat(s, t)
  BY <1>1, <1>2, <1>3, SameSeq DEF IsCat
<1>. QED
  BY <1>4 DEF s, t, u

-----------------------------------------------------------------------------
(* FlattenSeq *)

\* What is flattened holds what the pieces hold.
LEMMA FlattenIsSeq ==
    ASSUME NEW pieces, IsSeq(pieces), \A k \in 1 .. Len(pieces) : IsSeq(pieces[k])
    PROVE  /\ IsSeq(FlattenSeq(pieces))
           /\ Range(FlattenSeq(pieces)) = UNION {Range(pieces[k]) : k \in 1 .. Len(pieces)}
<1>. DEFINE n == Len(pieces)
            Parts(k) == UNION {Range(pieces[i]) : i \in 1 .. k}
<1>1. PICK R : IsFlatRun(R, pieces) /\ FlattenSeq(pieces) = R[n]
  BY FlattenRun
<1>. DEFINE Good == {k \in Nat : k <= n => IsSeq(R[k]) /\ Range(R[k]) = Parts(k)}
<1>2. 0 \in Good
  BY <1>1, TupleIsSeq, TupleRange DEF IsFlatRun
<1>3. ASSUME NEW k \in Nat, k \in Good PROVE k + 1 \in Good
  <2>. SUFFICES ASSUME k + 1 <= n PROVE IsSeq(R[k + 1]) /\ Range(R[k + 1]) = Parts(k + 1)
    OBVIOUS
  <2>1. n \in Nat /\ k <= n /\ k + 1 \in 1 .. n /\ (k + 1) - 1 = k
    BY SeqFacts
  <2>2. IsSeq(R[k]) /\ Range(R[k]) = Parts(k) /\ IsSeq(pieces[k + 1])
    BY <1>3, <2>1
  <2>3. R[k + 1] = Cat(R[k], pieces[k + 1])
    BY <1>1, <2>1 DEF IsFlatRun
  <2>4. IsSeq(R[k + 1]) /\ Range(R[k + 1]) = Parts(k) \cup Range(pieces[k + 1])
    BY <2>2, <2>3, ConcatFacts, ConcatRange
  <2>5. 1 .. k + 1 = 1 .. k \cup {k + 1}
    OBVIOUS
  <2>6. Parts(k + 1) = Parts(k) \cup Range(pieces[k + 1])
    BY <2>5
  <2>. QED
    BY <2>4, <2>6
<1>. HIDE DEF Good
<1>4. n \in Good
  BY <1>2, <1>3, NatSetInduction, SeqFacts
<1>5. IsSeq(R[n]) /\ Range(R[n]) = Parts(n)
  BY <1>4, SeqFacts DEF Good
<1>. QED
  BY <1>1, <1>5

\* One element more.
LEMMA ConcatOne ==
    ASSUME NEW s, NEW x, IsSeq(s)
    PROVE  /\ IsSeq(Cat(s, <<x>>)) /\ Len(Cat(s, <<x>>)) = Len(s) + 1
           /\ \A i \in 1 .. Len(s) : Cat(s, <<x>>)[i] = s[i]
           /\ Cat(s, <<x>>)[Len(s) + 1] = x
<1>. DEFINE t == <<x>>
<1>1. IsSeq(t) /\ Len(t) = 1 /\ t[1] = x
  BY TupleIsSeq
<1>. HIDE DEF t
<1>2. 1 \in 1 .. Len(t)
  BY <1>1
<1>3. IsSeq(Cat(s, t)) /\ Len(Cat(s, t)) = Len(s) + Len(t)
  BY <1>1, ConcatFacts, Zenon
<1>4. \A i \in 1 .. Len(s) : Cat(s, t)[i] = s[i]
  BY <1>1, ConcatFacts, Zenon
<1>5. \A i \in 1 .. Len(t) : Cat(s, t)[Len(s) + i] = t[i]
  BY <1>1, ConcatFacts
<1>6. Cat(s, t)[Len(s) + 1] = t[1]
  BY <1>2, <1>5
<1>. QED
  BY <1>1, <1>3, <1>4, <1>6 DEF t

\* Pieces of one element each.
LEMMA FlattenOnes ==
    ASSUME NEW s, IsSeq(s)
    PROVE  FlattenSeq([i \in DOMAIN s |-> <<s[i]>>]) = s
<1>. DEFINE n == Len(s)
            pieces == [i \in DOMAIN s |-> <<s[i]>>]
<1>1. n \in Nat /\ DOMAIN s = 1 .. n
  BY SeqFacts
<1>2. \A k \in 1 .. n : pieces[k] = <<s[k]>>
  BY <1>1
<1>3. IsSeq(pieces) /\ Len(pieces) = n
  <2>1. pieces = [i \in 1 .. n |-> pieces[i]]
    BY <1>1
  <2>. HIDE DEF pieces, n
  <2>. QED
    BY <1>1, <2>1, FunctionIsSeq
<1>. HIDE DEF pieces, n
<1>4. PICK R : IsFlatRun(R, pieces) /\ FlattenSeq(pieces) = R[n]
  BY <1>2, <1>3, FlattenRun, TupleIsSeq
<1>. DEFINE Good == {k \in Nat : k <= n =>
                        IsSeq(R[k]) /\ Len(R[k]) = k /\ \A i \in 1 .. k : R[k][i] = s[i]}
<1>5. 0 \in Good
  BY <1>4, TupleIsSeq DEF IsFlatRun
<1>6. ASSUME NEW k \in Nat, k \in Good PROVE k + 1 \in Good
  <2>. SUFFICES ASSUME k + 1 <= n
                PROVE  IsSeq(R[k + 1]) /\ Len(R[k + 1]) = k + 1 /\ \A i \in 1 .. k + 1 : R[k + 1][i] = s[i]
    OBVIOUS
  <2>1. k <= n /\ k + 1 \in 1 .. n /\ (k + 1) - 1 = k
    BY <1>1
  <2>2. IsSeq(R[k]) /\ Len(R[k]) = k /\ \A i \in 1 .. k : R[k][i] = s[i]
    BY <1>6, <2>1
  <2>3. R[k + 1] = Cat(R[k], <<s[k + 1]>>)
    BY <1>2, <1>3, <1>4, <2>1 DEF IsFlatRun
  <2>4. IsSeq(R[k]) /\ Len(R[k]) = k
    BY <2>2
  <2>5. IsSeq(R[k + 1])
    BY <2>3, <2>4, ConcatOne
  <2>6. Len(R[k + 1]) = Len(R[k]) + 1
    BY <2>3, <2>4, ConcatOne
  <2>7. \A i \in 1 .. Len(R[k]) : R[k + 1][i] = R[k][i]
    BY <2>3, <2>4, ConcatOne
  <2>8. R[k + 1][Len(R[k]) + 1] = s[k + 1]
    BY <2>3, <2>4, ConcatOne
  <2>9. \A i \in 1 .. k + 1 : i \in 1 .. k \/ i = k + 1
    OBVIOUS
  <2>. QED
    BY <2>2, <2>4, <2>5, <2>6, <2>7, <2>8, <2>9
<1>. HIDE DEF Good
<1>7. n \in Good
  BY <1>1, <1>5, <1>6, NatSetInduction
<1>8. IsSeq(R[n]) /\ Len(R[n]) = n /\ \A i \in 1 .. n : R[n][i] = s[i]
  BY <1>1, <1>7 DEF Good
<1>. QED
  BY <1>1, <1>4, <1>8, SameSeq DEF pieces, n

\* Two lists of pieces.
Joins(u, a, q) == IsSeq(q) /\ u = Cat(a, q)

\* Two lists of pieces flatten to what each flattens to.
LEMMA FlattenConcat ==
    ASSUME NEW s, NEW t, IsSeq(s), IsSeq(t),
           \A k \in 1 .. Len(s) : IsSeq(s[k]), \A k \in 1 .. Len(t) : IsSeq(t[k])
    PROVE  FlattenSeq(Cat(s, t)) = Cat(FlattenSeq(s), FlattenSeq(t))
<1>. DEFINE m == Len(s)
            n == Len(t)
            u == Cat(s, t)
<1>1. /\ m \in Nat /\ n \in Nat /\ m + n \in Nat
      /\ IsSeq(u) /\ Len(u) = m + n
      /\ \A i \in 1 .. m : u[i] = s[i]
      /\ \A i \in 1 .. n : u[m + i] = t[i]
  BY SeqFacts, ConcatFacts
<1>2. \A k \in 1 .. m + n : IsSeq(u[k])
  <2>. SUFFICES ASSUME NEW k \in 1 .. m + n PROVE IsSeq(u[k])
    OBVIOUS
  <2>1. CASE k \in 1 .. m
    BY <1>1, <2>1
  <2>2. CASE k \notin 1 .. m
    <3>1. k - m \in 1 .. n /\ k = m + (k - m)
      BY <1>1, <2>2
    <3>2. u[k] = t[k - m]
      BY <1>1, <3>1
    <3>. QED
      BY <3>1, <3>2
  <2>. QED
    BY <2>1, <2>2
<1>. HIDE DEF m, n, u
<1>3. PICK R : IsFlatRun(R, s) /\ FlattenSeq(s) = R[m]
  BY FlattenRun DEF m
<1>4. PICK Q : IsFlatRun(Q, t) /\ FlattenSeq(t) = Q[n]
  BY FlattenRun DEF n
<1>5. PICK U : IsFlatRun(U, u) /\ FlattenSeq(u) = U[m + n]
  BY <1>1, <1>2, FlattenRun
<1>6. IsSeq(R[m])
  BY <1>3, FlattenIsSeq
<1>. DEFINE First == {k \in Nat : k <= m => U[k] = R[k]}
            Second == {k \in Nat : k <= n => Joins(U[m + k], R[m], Q[k])}
<1>7. 0 \in First
  BY <1>3, <1>5 DEF IsFlatRun
<1>8. ASSUME NEW k \in Nat, k \in First PROVE k + 1 \in First
  <2>. SUFFICES ASSUME k + 1 <= m PROVE U[k + 1] = R[k + 1]
    OBVIOUS
  <2>1. k + 1 \in 1 .. m /\ k + 1 \in 1 .. m + n /\ (k + 1) - 1 = k /\ k <= m
    BY <1>1
  <2>2. U[k + 1] = Cat(U[k], u[k + 1]) /\ R[k + 1] = Cat(R[k], s[k + 1])
    BY <1>1, <1>3, <1>5, <2>1 DEF IsFlatRun, m
  <2>. QED
    BY <1>1, <1>8, <2>1, <2>2
<1>. HIDE DEF First
<1>9. m \in First
  BY <1>1, <1>7, <1>8, NatSetInduction
<1>10. U[m] = R[m]
  BY <1>1, <1>9 DEF First
<1>11. 0 \in Second
  <2>1. U[m + 0] = R[m] /\ Q[0] = <<>>
    BY <1>1, <1>4, <1>10 DEF IsFlatRun
  <2>2. Joins(U[m + 0], R[m], Q[0])
    BY <1>6, <2>1, ConcatEmpty, TupleIsSeq, Zenon DEF Joins
  <2>. QED
    BY <2>2
<1>12. ASSUME NEW k \in Nat, k \in Second PROVE k + 1 \in Second
  <2>. SUFFICES ASSUME k + 1 <= n
                PROVE  Joins(U[m + (k + 1)], R[m], Q[k + 1])
    OBVIOUS
  <2>1. k + 1 \in 1 .. n /\ (k + 1) - 1 = k /\ k <= n
    BY <1>1
  <2>2. m + (k + 1) \in 1 .. m + n /\ (m + (k + 1)) - 1 = m + k
    BY <1>1, <2>1
  <2>3. U[m + (k + 1)] = Cat(U[m + k], u[m + (k + 1)])
    BY <1>1, <1>5, <2>2 DEF IsFlatRun
  <2>4. Q[k + 1] = Cat(Q[k], t[k + 1])
    BY <1>4, <2>1 DEF IsFlatRun, n
  <2>5. IsSeq(Q[k]) /\ U[m + k] = Cat(R[m], Q[k]) /\ IsSeq(t[k + 1]) /\ u[m + (k + 1)] = t[k + 1]
    BY <1>1, <1>12, <2>1 DEF n, Joins
  <2>6. Cat(Cat(R[m], Q[k]), t[k + 1]) = Cat(R[m], Cat(Q[k], t[k + 1]))
    BY <1>6, <2>5, ConcatAssoc
  <2>7. IsSeq(Q[k + 1])
    BY <2>4, <2>5, ConcatFacts
  <2>. QED
    BY <2>3, <2>4, <2>5, <2>6, <2>7, Zenon DEF Joins
<1>. HIDE DEF Second
<1>13. n \in Second
  BY <1>1, <1>11, <1>12, NatSetInduction
<1>14. U[m + n] = Cat(R[m], Q[n])
  <2>1. Joins(U[m + n], R[m], Q[n])
    BY <1>1, <1>13 DEF Second
  <2>. QED
    BY <2>1, Zenon DEF Joins
<1>. QED
  BY <1>3, <1>4, <1>5, <1>14 DEF u

-----------------------------------------------------------------------------
(* The parser of the engine *)

ParseFrom(s, args) == FoldLeft(ParseStep, s, args)

\* The parser of the engine is a fold.
LEMMA ParseFold ==
    \A s, args : ParseFrom(s, args) = Parsing!Value(0, s, args)
BY DEF ParseFrom, Parsing!Value, Parse, FoldLeft, Parsing!FoldLeft,
   MapThenFoldSet, Parsing!MapThenFoldSet, Max, Parsing!Max

\* Arguments are read on from where those before them left off.
LEMMA ParseConcat ==
    ASSUME NEW b, NEW s, NEW t, IsSeq(s), IsSeq(t)
    PROVE  ParseFrom(b, Cat(s, t)) = ParseFrom(ParseFrom(b, s), t)
<1>1. Parsing!Value(0, b, s \o t) = Parsing!Value(0, Parsing!Value(0, b, s), t)
  <2>1. Parsing!IsSeq(s) /\ Parsing!IsSeq(t)
    BY DEF IsSeq, Parsing!IsSeq, Range, Parsing!Range
  <2>. QED
    BY <2>1, Parsing!FoldConcat
<1>. QED
  BY <1>1, ParseFold DEF Cat

\* No arguments change nothing.
LEMMA ParseEmpty == \A s : ParseFrom(s, <<>>) = s
BY ParseFold, Parsing!FoldEmpty

\* One argument is one step.
LEMMA ParseOne == \A s, a : ParseFrom(s, <<a>>) = ParseStep(s, a)
BY ParseFold, Parsing!FoldOne DEF Parse

\* Ready for an option, the image or the value of one that was read.
Ready(o) == [options |-> o, option |-> <<>>, image |-> FALSE, command |-> <<>>]

\* The arguments are whole options.
Opts(args, os) ==
    /\ IsSeq(args) /\ IsSeq(os)
    /\ \A o : IsSeq(o) => ParseFrom(Ready(o), args) = Ready(Cat(o, os))

\* No arguments are no options.
LEMMA OptsNone == Opts(<<>>, <<>>)
BY ParseEmpty, ConcatEmpty, TupleIsSeq DEF Opts

\* Options follow one another.
LEMMA OptsConcat ==
    ASSUME NEW a, NEW b, NEW x, NEW y, Opts(a, x), Opts(b, y)
    PROVE  Opts(Cat(a, b), Cat(x, y))
<1>1. IsSeq(a) /\ IsSeq(b) /\ IsSeq(x) /\ IsSeq(y)
  BY DEF Opts
<1>2. IsSeq(Cat(a, b)) /\ IsSeq(Cat(x, y))
  BY <1>1, ConcatFacts, Zenon
<1>3. ASSUME NEW o, IsSeq(o) PROVE ParseFrom(Ready(o), Cat(a, b)) = Ready(Cat(o, Cat(x, y)))
  <2>1. ParseFrom(Ready(o), Cat(a, b)) = ParseFrom(ParseFrom(Ready(o), a), b)
    BY <1>1, ParseConcat
  <2>2. ParseFrom(Ready(o), a) = Ready(Cat(o, x))
    BY <1>3 DEF Opts
  <2>3. IsSeq(Cat(o, x))
    BY <1>1, <1>3, ConcatFacts, Zenon
  <2>4. ParseFrom(Ready(Cat(o, x)), b) = Ready(Cat(Cat(o, x), y))
    BY <2>3 DEF Opts
  <2>5. Cat(Cat(o, x), y) = Cat(o, Cat(x, y))
    BY <1>1, <1>3, ConcatAssoc
  <2>. QED
    BY <2>1, <2>2, <2>4, <2>5
<1>. QED
  BY <1>2, <1>3 DEF Opts

\* Words, volumes, pairs and limits are told apart.
LEMMA KindsDiffer ==
    /\ \A w, v : Word(w) = Word(v) <=> w = v
    /\ \A w, h, g, m : Word(w) # Volume(h, g, m)
    /\ \A w, v, x : Word(w) # Pair(v, x)
    /\ \A w, r, n : Word(w) # Limit(r, n)
    /\ \A w : Word(w) # <<>>
BY DEF Word, Volume, Pair, Limit

\* A flag, or a limit, is an option by itself.
LEMMA OptsOne ==
    ASSUME NEW a, a \in Flags \/ (a[1] = "limit" /\ \A w : a # Word(w))
    PROVE  Opts(<<a>>, <<<<a, a>>>>)
<1>1. a \notin TakesValue
  BY KindsDiffer DEF TakesValue, Flags, Word
<1>2. ASSUME NEW o, IsSeq(o) PROVE ParseFrom(Ready(o), <<a>>) = Ready(Cat(o, <<<<a, a>>>>))
  <2>1. ParseFrom(Ready(o), <<a>>) = ParseStep(Ready(o), a)
    BY ParseOne
  <2>2. ParseStep(Ready(o), a) = Ready(Append(o, <<a, a>>))
    BY <1>1 DEF ParseStep, Ready
  <2>3. Append(o, <<a, a>>) = Cat(o, <<<<a, a>>>>)
    BY <1>2, AppendAsCat
  <2>. QED
    BY <2>1, <2>2, <2>3, Zenon
<1>3. IsSeq(<<a>>) /\ IsSeq(<<<<a, a>>>>)
  BY TupleIsSeq, Zenon
<1>. QED
  BY <1>2, <1>3, Zenon DEF Opts

\* An option that takes a value is read with the argument after it.
LEMMA OptsTwo ==
    ASSUME NEW t \in TakesValue, NEW a
    PROVE  Opts(<<t, a>>, <<<<t, a>>>>)
<1>1. \E o : t = Word(o)
  BY DEF TakesValue
<1>2. t # <<>>
  BY <1>1, KindsDiffer
<1>3. IsSeq(<<t>>) /\ IsSeq(<<a>>) /\ IsSeq(<<t, a>>) /\ IsSeq(<<<<t, a>>>>)
  BY TupleIsSeq, Zenon
<1>4. <<t, a>> = Cat(<<t>>, <<a>>)
  BY TwoIsConcat
<1>5. ASSUME NEW o, IsSeq(o) PROVE ParseFrom(Ready(o), <<t, a>>) = Ready(Cat(o, <<<<t, a>>>>))
  <2>. DEFINE s == [Ready(o) EXCEPT !.option = t]
  <2>1. ParseFrom(Ready(o), <<t, a>>) = ParseFrom(ParseFrom(Ready(o), <<t>>), <<a>>)
    BY <1>3, <1>4, ParseConcat
  <2>2. ParseFrom(Ready(o), <<t>>) = s
    <3>1. ParseFrom(Ready(o), <<t>>) = ParseStep(Ready(o), t)
      BY ParseOne
    <3>. QED
      BY <3>1 DEF ParseStep, Ready
  <2>3. ParseFrom(s, <<a>>) = ParseStep(s, a)
    BY ParseOne
  <2>4. ParseStep(s, a) = Ready(Append(o, <<t, a>>))
    BY <1>2 DEF ParseStep, Ready
  <2>. HIDE DEF s
  <2>5. Append(o, <<t, a>>) = Cat(o, <<<<t, a>>>>)
    BY <1>5, AppendAsCat
  <2>. QED
    BY <2>1, <2>2, <2>3, <2>4, <2>5, Zenon
<1>. QED
  BY <1>3, <1>5, Zenon DEF Opts

\* Pieces that are options with their value, or nothing.
OptionPieces(pieces) ==
    /\ IsSeq(pieces)
    /\ \A k \in 1 .. Len(pieces) : pieces[k] = <<>> \/ \E t \in TakesValue : \E a : pieces[k] = <<t, a>>

OptionOf(piece) == IF piece = <<>> THEN <<>> ELSE <<piece>>
OptionsOf(pieces) == FlattenSeq([k \in DOMAIN pieces |-> OptionOf(pieces[k])])

\* Pieces that are options are read as those options, in whatever order.
LEMMA OptsPieces ==
    ASSUME NEW pieces, OptionPieces(pieces)
    PROVE  /\ Opts(FlattenSeq(pieces), OptionsOf(pieces))
           /\ Range(OptionsOf(pieces)) = {pieces[k] : k \in 1 .. Len(pieces)} \ {<<>>}
<1>. DEFINE n == Len(pieces)
            options == [k \in DOMAIN pieces |-> OptionOf(pieces[k])]
<1>1. n \in Nat /\ DOMAIN pieces = 1 .. n /\ IsSeq(pieces)
  BY SeqFacts DEF OptionPieces
<1>2. IsSeq(options) /\ Len(options) = n /\ \A k \in 1 .. n : options[k] = OptionOf(pieces[k])
  <2>1. options = [k \in 1 .. n |-> options[k]]
    BY <1>1
  <2>2. \A k \in 1 .. n : options[k] = OptionOf(pieces[k])
    BY <1>1
  <2>. HIDE DEF options, n
  <2>. QED
    BY <1>1, <2>1, <2>2, FunctionIsSeq
<1>. HIDE DEF options, n
<1>3. \A k \in 1 .. n : Opts(pieces[k], options[k]) /\ Range(options[k]) = {pieces[k]} \ {<<>>}
  <2>. SUFFICES ASSUME NEW k \in 1 .. n
                PROVE  Opts(pieces[k], options[k]) /\ Range(options[k]) = {pieces[k]} \ {<<>>}
    OBVIOUS
  <2>1. CASE pieces[k] = <<>>
    <3>1. options[k] = <<>>
      BY <1>2, <2>1 DEF OptionOf
    <3>. QED
      BY <2>1, <3>1, OptsNone, TupleRange
  <2>2. CASE pieces[k] # <<>>
    <3>1. PICK t, a : t \in TakesValue /\ pieces[k] = <<t, a>>
      BY <2>2 DEF OptionPieces, n
    <3>2. options[k] = <<pieces[k]>>
      BY <1>2, <2>2 DEF OptionOf
    <3>3. Opts(<<t, a>>, <<<<t, a>>>>)
      BY <3>1, OptsTwo
    <3>. QED
      BY <2>2, <3>1, <3>2, <3>3, TupleRange
  <2>. QED
    BY <2>1, <2>2
<1>4. \A k \in 1 .. n : IsSeq(pieces[k]) /\ IsSeq(options[k])
  BY <1>3 DEF Opts
<1>5. PICK R : IsFlatRun(R, pieces) /\ FlattenSeq(pieces) = R[n]
  BY <1>1, <1>4, FlattenRun DEF n
<1>6. PICK O : IsFlatRun(O, options) /\ FlattenSeq(options) = O[n]
  BY <1>2, <1>4, FlattenRun
<1>. DEFINE Good == {k \in Nat : k <= n => Opts(R[k], O[k])}
<1>7. 0 \in Good
  BY <1>5, <1>6, OptsNone DEF IsFlatRun
<1>8. ASSUME NEW k \in Nat, k \in Good PROVE k + 1 \in Good
  <2>. SUFFICES ASSUME k + 1 <= n PROVE Opts(R[k + 1], O[k + 1])
    OBVIOUS
  <2>1. k <= n /\ k + 1 \in 1 .. n /\ (k + 1) - 1 = k
    BY <1>1
  <2>2. R[k + 1] = Cat(R[k], pieces[k + 1]) /\ O[k + 1] = Cat(O[k], options[k + 1])
    BY <1>2, <1>5, <1>6, <2>1 DEF IsFlatRun, n
  <2>3. Opts(R[k], O[k]) /\ Opts(pieces[k + 1], options[k + 1])
    BY <1>3, <1>8, <2>1
  <2>. QED
    BY <2>2, <2>3, OptsConcat
<1>. HIDE DEF Good
<1>9. n \in Good
  BY <1>1, <1>7, <1>8, NatSetInduction
<1>10. Opts(FlattenSeq(pieces), FlattenSeq(options))
  BY <1>1, <1>5, <1>6, <1>9 DEF Good
<1>11. Range(FlattenSeq(options)) = UNION {Range(options[k]) : k \in 1 .. n}
  BY <1>2, <1>4, FlattenIsSeq
<1>12. Range(FlattenSeq(options)) = {pieces[k] : k \in 1 .. n} \ {<<>>}
  <2>1. ASSUME NEW a \in Range(FlattenSeq(options)) PROVE a \in {pieces[k] : k \in 1 .. n} \ {<<>>}
    <3>1. PICK k \in 1 .. n : a \in Range(options[k])
      BY <1>11
    <3>2. a \in {pieces[k]} \ {<<>>}
      BY <1>3, <3>1
    <3>. QED
      BY <3>2
  <2>2. ASSUME NEW k \in 1 .. n, pieces[k] # <<>> PROVE pieces[k] \in Range(FlattenSeq(options))
    <3>1. pieces[k] \in Range(options[k])
      BY <1>3, <2>2
    <3>. QED
      BY <1>11, <3>1
  <2>. QED
    BY <2>1, <2>2
<1>. QED
  BY <1>10, <1>12 DEF options, n, OptionsOf

\* What is read after the image.
Read(os, c) == [options |-> os, option |-> <<>>, image |-> TRUE, command |-> c]

\* The image is neither an option nor a limit.
LEMMA ImageIsNoOption == Image \notin TakesValue \cup Flags /\ Image[1] # "limit"
BY KindsDiffer DEF Image, TakesValue, Flags, Word

\* After the image every argument is a word of the command.
LEMMA ReadStep == \A os, c, a : ParseStep(Read(os, c), a) = Read(os, Append(c, a[2]))
BY Zenon DEF ParseStep, Read

\* And all of them together are the command.
LEMMA CommandIsRead ==
    ASSUME NEW os, NEW w, IsSeq(w)
    PROVE  ParseFrom(Read(os, <<>>), w) = Read(os, [i \in DOMAIN w |-> w[i][2]])
<1>. DEFINE n == Len(w)
            b == Read(os, <<>>)
            words == [i \in DOMAIN w |-> w[i][2]]
<1>1. n \in Nat /\ DOMAIN w = 1 .. n
  BY SeqFacts
<1>2. PICK R : Parsing!IsRun(R, 0, b, w, n) /\ ParseFrom(b, w) = R[n]
  BY <1>1, Parsing!FoldRun, ParseFold
<1>3. IsSeq(words) /\ Len(words) = n /\ \A i \in 1 .. n : words[i] = w[i][2]
  <2>1. words = [i \in 1 .. n |-> words[i]] /\ \A i \in 1 .. n : words[i] = w[i][2]
    BY <1>1
  <2>. HIDE DEF words, n
  <2>. QED
    BY <1>1, <2>1, FunctionIsSeq
<1>. DEFINE Good == {k \in Nat : k <= n =>
                        \E c : /\ R[k] = Read(os, c) /\ IsSeq(c) /\ Len(c) = k
                               /\ \A i \in 1 .. k : c[i] = w[i][2]}
<1>. HIDE DEF n
<1>4. 0 \in Good
  <2>1. R[0] = Read(os, <<>>)
    BY <1>2 DEF Parsing!IsRun
  <2>. QED
    BY <2>1, TupleIsSeq
<1>5. ASSUME NEW k \in Nat, k \in Good PROVE k + 1 \in Good
  <2>. SUFFICES ASSUME k + 1 <= n
                PROVE  \E c : /\ R[k + 1] = Read(os, c) /\ IsSeq(c) /\ Len(c) = k + 1
                              /\ \A i \in 1 .. k + 1 : c[i] = w[i][2]
    OBVIOUS
  <2>1. k <= n /\ k + 1 \in 1 .. n /\ (k + 1) - 1 = k
    BY <1>1
  <2>2. PICK c : /\ R[k] = Read(os, c) /\ IsSeq(c) /\ Len(c) = k
                 /\ \A i \in 1 .. k : c[i] = w[i][2]
    BY <1>5, <2>1
  <2>. DEFINE d == Append(c, w[k + 1][2])
  <2>3. R[k + 1] = ParseStep(R[k], w[k + 1])
    BY <1>2, <2>1 DEF Parsing!IsRun, Parse
  <2>4. R[k + 1] = Read(os, d)
    BY <2>2, <2>3, ReadStep
  <2>5. d = Cat(c, <<w[k + 1][2]>>)
    BY <2>2, AppendAsCat
  <2>. HIDE DEF d
  <2>6. IsSeq(d) /\ Len(d) = Len(c) + 1
    BY <2>2, <2>5, ConcatOne
  <2>7. \A i \in 1 .. Len(c) : d[i] = c[i]
    BY <2>2, <2>5, ConcatOne
  <2>8. d[Len(c) + 1] = w[k + 1][2]
    BY <2>2, <2>5, ConcatOne
  <2>9. \A i \in 1 .. k + 1 : i \in 1 .. k \/ i = k + 1
    OBVIOUS
  <2>10. \A i \in 1 .. k + 1 : d[i] = w[i][2]
    BY <2>2, <2>7, <2>8, <2>9
  <2>. QED
    BY <2>2, <2>4, <2>6, <2>10
<1>. HIDE DEF Good
<1>6. n \in Good
  BY <1>1, <1>4, <1>5, NatSetInduction
<1>7. PICK c : /\ R[n] = Read(os, c) /\ IsSeq(c) /\ Len(c) = n
               /\ \A i \in 1 .. n : c[i] = w[i][2]
  BY <1>1, <1>6 DEF Good
<1>. HIDE DEF words
<1>8. c = words
  BY <1>3, <1>7, SameSeq
<1>. QED
  BY <1>2, <1>7, <1>8 DEF words, b

\* Options, the image, and a command.
LEMMA ParsedWhole ==
    ASSUME NEW h, NEW os, NEW w, Opts(h, os), IsSeq(w)
    PROVE  Parsed(Cat(h, Cat(<<Image>>, w))) = Read(os, [i \in DOMAIN w |-> w[i][2]])
<1>. DEFINE t == Cat(<<Image>>, w)
<1>1. IsSeq(h) /\ IsSeq(<<Image>>) /\ IsSeq(t) /\ IsSeq(os)
  <2>1. IsSeq(<<Image>>)
    BY TupleIsSeq, Zenon
  <2>2. IsSeq(t)
    BY <2>1, ConcatFacts
  <2>. QED
    BY <2>1, <2>2 DEF Opts
<1>2. Parsed(Cat(h, t)) = ParseFrom(Ready(<<>>), Cat(h, t))
  BY DEF Parsed, ParseFrom, Ready
<1>3. ParseFrom(Ready(<<>>), Cat(h, t)) = ParseFrom(ParseFrom(Ready(<<>>), h), t)
  BY <1>1, ParseConcat
<1>4. ParseFrom(Ready(<<>>), h) = Ready(os)
  <2>1. ParseFrom(Ready(<<>>), h) = Ready(Cat(<<>>, os))
    BY TupleIsSeq DEF Opts
  <2>. QED
    BY <1>1, <2>1, ConcatEmpty
<1>5. ParseFrom(Ready(os), t) = ParseFrom(ParseFrom(Ready(os), <<Image>>), w)
  BY <1>1, ParseConcat
<1>6. ParseFrom(Ready(os), <<Image>>) = Read(os, <<>>)
  <2>1. ParseFrom(Ready(os), <<Image>>) = ParseStep(Ready(os), Image)
    BY ParseOne
  <2>. QED
    BY <2>1, ImageIsNoOption DEF ParseStep, Ready, Read
<1>. QED
  BY <1>2, <1>3, <1>4, <1>5, <1>6, CommandIsRead

-----------------------------------------------------------------------------
(* The loop that cleans *)

CleanFrom(s, args) == FoldLeft(CleanStep, s, args)

\* The loop of build_allowlist_args over `clean` is a fold.
LEMMA CleanFold ==
    \A s, args : CleanFrom(s, args) = Cleaning!Value(0, s, args)
BY DEF CleanFrom, Cleaning!Value, Clean, FoldLeft, Cleaning!FoldLeft,
   MapThenFoldSet, Cleaning!MapThenFoldSet, Max, Cleaning!Max

\* Arguments are cleaned on from where those before them left off.
LEMMA CleanConcat ==
    ASSUME NEW b, NEW s, NEW t, IsSeq(s), IsSeq(t)
    PROVE  CleanFrom(b, Cat(s, t)) = CleanFrom(CleanFrom(b, s), t)
<1>1. Cleaning!Value(0, b, s \o t) = Cleaning!Value(0, Cleaning!Value(0, b, s), t)
  <2>1. Cleaning!IsSeq(s) /\ Cleaning!IsSeq(t)
    BY DEF IsSeq, Cleaning!IsSeq, Range, Cleaning!Range
  <2>. QED
    BY <2>1, Cleaning!FoldConcat
<1>. QED
  BY <1>1, CleanFold DEF Cat

\* The states of the loop, one after each argument.
LEMMA CleanRun ==
    ASSUME NEW b, NEW args, IsSeq(args)
    PROVE  \E R : Cleaning!IsRun(R, 0, b, args, Len(args)) /\ CleanFrom(b, args) = R[Len(args)]
<1>1. Len(args) \in Nat /\ DOMAIN args = 1 .. Len(args)
  BY SeqFacts
<1>2. \E R : Cleaning!IsRun(R, 0, b, args, Len(args)) /\ Cleaning!Value(0, b, args) = R[Len(args)]
  BY <1>1, Cleaning!FoldRun
<1>. QED
  BY <1>2, CleanFold

\* What is kept so far, and whether the next goes.
State(o, b) == [out |-> o, skip |-> b]

\* What one turn of the loop does: skip a value, find --network, or keep.
LEMMA CleanSteps ==
    \A o, a : /\ CleanStep(State(o, TRUE), a) = State(o, FALSE)
              /\ a = Word("--network") => CleanStep(State(o, FALSE), a) = State(o, TRUE)
              /\ a # Word("--network") => CleanStep(State(o, FALSE), a) = State(Append(o, a), FALSE)
BY DEF CleanStep, State

\* The first n of them kept.
KeptFirst(r, all, n) ==
    \E c : /\ r = State(c, FALSE) /\ IsSeq(c) /\ Len(c) = n
           /\ \A i \in 1 .. n : c[i] = all[i]

\* Arguments without the option stay.
LEMMA CleanKeeps ==
    ASSUME NEW o, NEW args, IsSeq(o), IsSeq(args), Word("--network") \notin Range(args)
    PROVE  CleanFrom(State(o, FALSE), args) = State(Cat(o, args), FALSE)
<1>. DEFINE n == Len(args)
            m == Len(o)
            b == State(o, FALSE)
            all == Cat(o, args)
<1>1. n \in Nat /\ m \in Nat /\ DOMAIN args = 1 .. n /\ \A i \in 1 .. n : args[i] # Word("--network")
  BY SeqFacts DEF Range
<1>2. PICK R : Cleaning!IsRun(R, 0, b, args, n) /\ CleanFrom(b, args) = R[n]
  BY CleanRun
<1>3. IsCat(all, o, args)
  BY CatIsCat
<1>. DEFINE Good == {k \in Nat : k <= n => KeptFirst(R[k], all, m + k)}
<1>. HIDE DEF n, m, all
<1>4. 0 \in Good
  <2>1. R[0] = State(o, FALSE)
    BY <1>2 DEF Cleaning!IsRun
  <2>2. IsSeq(o) /\ Len(o) = m + 0 /\ \A i \in 1 .. m + 0 : o[i] = all[i]
    BY <1>1, <1>3 DEF IsCat, m
  <2>3. KeptFirst(R[0], all, m + 0)
    BY <2>1, <2>2 DEF KeptFirst
  <2>. QED
    BY <2>3
<1>5. ASSUME NEW k \in Nat, k \in Good PROVE k + 1 \in Good
  <2>. SUFFICES ASSUME k + 1 <= n
                PROVE  KeptFirst(R[k + 1], all, m + (k + 1))
    OBVIOUS
  <2>1. k <= n /\ k + 1 \in 1 .. n /\ (k + 1) - 1 = k /\ m + k \in Nat /\ m + (k + 1) = (m + k) + 1
    BY <1>1
  <2>2. PICK c : /\ R[k] = State(c, FALSE) /\ IsSeq(c) /\ Len(c) = m + k
                 /\ \A i \in 1 .. m + k : c[i] = all[i]
    BY <1>5, <2>1 DEF KeptFirst
  <2>. DEFINE a == args[k + 1]
              d == Cat(c, <<a>>)
  <2>3. a # Word("--network") /\ a = all[(m + k) + 1]
    BY <1>1, <1>3, <2>1 DEF IsCat, n, m
  <2>4. R[k + 1] = CleanStep(R[k], a)
    BY <1>2, <2>1 DEF Cleaning!IsRun, Clean
  <2>5. R[k + 1] = State(d, FALSE)
    <3>1. CleanStep(R[k], a) = State(Append(c, a), FALSE)
      BY <2>2, <2>3, CleanSteps
    <3>2. Append(c, a) = d
      BY <2>2, AppendAsCat
    <3>. QED
      BY <2>4, <3>1, <3>2
  <2>6. IsSeq(d) /\ Len(d) = Len(c) + 1
    BY <2>2, ConcatOne
  <2>7. \A i \in 1 .. Len(c) : d[i] = c[i]
    BY <2>2, ConcatOne
  <2>8. d[Len(c) + 1] = a
    BY <2>2, ConcatOne
  <2>. HIDE DEF d, a
  <2>9. \A i \in 1 .. (m + k) + 1 : i \in 1 .. m + k \/ i = (m + k) + 1
    BY <2>1
  <2>10. \A i \in 1 .. (m + k) + 1 : d[i] = all[i]
    BY <2>2, <2>3, <2>7, <2>8, <2>9
  <2>. QED
    BY <2>1, <2>2, <2>5, <2>6, <2>10 DEF KeptFirst
<1>. HIDE DEF Good
<1>6. n \in Good
  BY <1>1, <1>4, <1>5, NatSetInduction
<1>7. PICK c : /\ R[n] = State(c, FALSE) /\ IsSeq(c) /\ Len(c) = m + n
               /\ \A i \in 1 .. m + n : c[i] = all[i]
  <2>1. KeptFirst(R[n], all, m + n)
    BY <1>1, <1>6 DEF Good
  <2>. QED
    BY <2>1 DEF KeptFirst
<1>8. c = all
  BY <1>3, <1>7, SameSeq DEF IsCat, n, m
<1>. QED
  BY <1>2, <1>7, <1>8 DEF all, b

\* What is kept of arguments does not depend on what came before them.
LEMMA CleanTail ==
    ASSUME NEW o, NEW w, IsSeq(o), IsSeq(w)
    PROVE  /\ CleanFrom(State(o, FALSE), w).out = Cat(o, Cleaned(w))
           /\ IsSeq(Cleaned(w)) /\ Range(Cleaned(w)) \subseteq Range(w)
<1>. DEFINE n == Len(w)
            b == State(o, FALSE)
            e == State(<<>>, FALSE)
<1>1. n \in Nat /\ DOMAIN w = 1 .. n /\ \A i \in 1 .. n : w[i] \in Range(w)
  BY SeqFacts DEF Range
<1>2. PICK R : Cleaning!IsRun(R, 0, b, w, n) /\ CleanFrom(b, w) = R[n]
  BY CleanRun
<1>3. PICK U : Cleaning!IsRun(U, 0, e, w, n) /\ CleanFrom(e, w) = U[n]
  BY CleanRun
<1>. DEFINE Good == {k \in Nat : k <= n =>
                        \E c, s : /\ s \in BOOLEAN /\ IsSeq(c) /\ Range(c) \subseteq Range(w)
                                  /\ R[k] = State(Cat(o, c), s) /\ U[k] = State(c, s)}
<1>. HIDE DEF n
<1>4. 0 \in Good
  <2>1. R[0] = State(Cat(o, <<>>), FALSE) /\ U[0] = State(<<>>, FALSE)
    BY <1>2, <1>3, ConcatEmpty DEF Cleaning!IsRun
  <2>. QED
    BY <2>1, TupleIsSeq, TupleRange
<1>5. ASSUME NEW k \in Nat, k \in Good PROVE k + 1 \in Good
  <2>. SUFFICES ASSUME k + 1 <= n
                PROVE  \E c, s : /\ s \in BOOLEAN /\ IsSeq(c) /\ Range(c) \subseteq Range(w)
                                 /\ R[k + 1] = State(Cat(o, c), s) /\ U[k + 1] = State(c, s)
    OBVIOUS
  <2>1. k <= n /\ k + 1 \in 1 .. n /\ (k + 1) - 1 = k
    BY <1>1
  <2>2. PICK c, s : /\ s \in BOOLEAN /\ IsSeq(c) /\ Range(c) \subseteq Range(w)
                    /\ R[k] = State(Cat(o, c), s) /\ U[k] = State(c, s)
    BY <1>5, <2>1
  <2>. DEFINE a == w[k + 1]
              d == Cat(c, <<a>>)
  <2>3. R[k + 1] = CleanStep(R[k], a) /\ U[k + 1] = CleanStep(U[k], a)
    BY <1>2, <1>3, <2>1 DEF Cleaning!IsRun, Clean
  <2>4. a \in Range(w)
    BY <1>1, <2>1
  <2>. HIDE DEF a
  <2>5. CASE s = TRUE
    <3>1. R[k + 1] = State(Cat(o, c), FALSE) /\ U[k + 1] = State(c, FALSE)
      BY <2>2, <2>3, <2>5, CleanSteps
    <3>. QED
      BY <2>2, <3>1
  <2>6. CASE s = FALSE /\ a = Word("--network")
    <3>1. R[k + 1] = State(Cat(o, c), TRUE) /\ U[k + 1] = State(c, TRUE)
      BY <2>2, <2>3, <2>6, CleanSteps
    <3>. QED
      BY <2>2, <3>1
  <2>7. CASE s = FALSE /\ a # Word("--network")
    <3>1. R[k + 1] = State(Append(Cat(o, c), a), FALSE) /\ U[k + 1] = State(Append(c, a), FALSE)
      BY <2>2, <2>3, <2>7, CleanSteps
    <3>2. IsSeq(Cat(o, c)) /\ IsSeq(<<a>>)
      BY <2>2, ConcatFacts, TupleIsSeq, Zenon
    <3>3. Append(c, a) = d /\ Append(Cat(o, c), a) = Cat(Cat(o, c), <<a>>)
      BY <2>2, <3>2, AppendAsCat
    <3>4. Cat(Cat(o, c), <<a>>) = Cat(o, d)
      BY <2>2, <3>2, ConcatAssoc
    <3>5. IsSeq(d) /\ Range(d) = Range(c) \cup {a}
      BY <2>2, <3>2, ConcatFacts, ConcatRange, TupleRange
    <3>. HIDE DEF d
    <3>6. IsSeq(d) /\ Range(d) \subseteq Range(w) /\ R[k + 1] = State(Cat(o, d), FALSE) /\ U[k + 1] = State(d, FALSE)
      BY <2>2, <2>4, <3>1, <3>3, <3>4, <3>5
    <3>. QED
      BY <3>6
  <2>. QED
    BY <2>2, <2>5, <2>6, <2>7
<1>. HIDE DEF Good
<1>6. n \in Good
  BY <1>1, <1>4, <1>5, NatSetInduction
<1>7. PICK c, s : /\ IsSeq(c) /\ Range(c) \subseteq Range(w)
                  /\ R[n] = State(Cat(o, c), s) /\ U[n] = State(c, s)
  BY <1>1, <1>6 DEF Good
<1>8. Cleaned(w) = c
  <2>1. Cleaned(w) = CleanFrom(e, w).out
    BY DEF Cleaned, CleanFrom, State
  <2>. QED
    BY <1>3, <1>7, <2>1 DEF State
<1>9. CleanFrom(b, w).out = Cat(o, c)
  BY <1>2, <1>7 DEF State
<1>. QED
  BY <1>7, <1>8, <1>9

\* Without --network before the image, only the command is cleaned.
LEMMA CleanedWhole ==
    ASSUME NEW h, NEW w, IsSeq(h), IsSeq(w), Word("--network") \notin Range(h)
    PROVE  Cleaned(Cat(h, Cat(<<Image>>, w))) = Cat(h, Cat(<<Image>>, Cleaned(w)))
<1>. DEFINE u == Cat(h, <<Image>>)
            e == State(<<>>, FALSE)
<1>1. IsSeq(<<Image>>) /\ IsSeq(u) /\ IsSeq(<<>>) /\ IsSeq(Cleaned(w))
  <2>1. IsSeq(<<Image>>) /\ IsSeq(<<>>)
    BY TupleIsSeq, Zenon
  <2>. QED
    BY <2>1, ConcatFacts, CleanTail
<1>2. Cat(h, Cat(<<Image>>, w)) = Cat(u, w) /\ Cat(h, Cat(<<Image>>, Cleaned(w))) = Cat(u, Cleaned(w))
  BY <1>1, ConcatAssoc
<1>3. Word("--network") \notin Range(u)
  <2>1. Range(u) = Range(h) \cup {Image}
    BY <1>1, ConcatRange, TupleRange
  <2>. QED
    BY <2>1, KindsDiffer DEF Image
<1>. HIDE DEF u
<1>4. CleanFrom(e, u) = State(u, FALSE)
  <2>1. CleanFrom(State(<<>>, FALSE), u) = State(Cat(<<>>, u), FALSE)
    BY <1>1, <1>3, CleanKeeps
  <2>. QED
    BY <1>1, <2>1, ConcatEmpty
<1>5. CleanFrom(e, Cat(u, w)) = CleanFrom(State(u, FALSE), w)
  <2>1. CleanFrom(e, Cat(u, w)) = CleanFrom(CleanFrom(e, u), w)
    <3>. HIDE DEF e
    <3>. QED
      BY <1>1, CleanConcat
  <2>. QED
    BY <1>4, <2>1
<1>6. Cleaned(Cat(u, w)) = CleanFrom(e, Cat(u, w)).out
  BY DEF Cleaned, CleanFrom, State
<1>. QED
  BY <1>1, <1>2, <1>5, <1>6, CleanTail

-----------------------------------------------------------------------------
(* Sequences taken apart *)

\* The first element and the rest.
LEMMA HeadTail ==
    ASSUME NEW a, NEW s, IsSeq(s)
    PROVE  Head(Cat(<<a>>, s)) = a /\ Tail(Cat(<<a>>, s)) = s
<1>. DEFINE u == Cat(<<a>>, s)
            one == <<a>>
<1>1. IsSeq(one) /\ Len(one) = 1 /\ one[1] = a
  BY TupleIsSeq
<1>. HIDE DEF one
<1>2. IsCat(Cat(one, s), one, s)
  BY <1>1, CatIsCat
<1>. DEFINE v == Cat(one, s)
<1>. HIDE DEF v
<1>3. Len(s) \in Nat /\ IsSeq(v) /\ Len(v) = 1 + Len(s) /\ v[1] = a
      /\ \A i \in 1 .. Len(s) : v[1 + i] = s[i]
  BY <1>1, <1>2, SeqFacts DEF IsCat, v
<1>4. v \in Seq(Range(v)) /\ v # <<>>
  BY <1>3, TupleIsSeq DEF IsSeq
<1>5. Head(v) = a
  BY <1>3, <1>4
<1>6. Tail(v) \in Seq(Range(v)) /\ Len(Tail(v)) = Len(v) - 1
      /\ \A i \in 1 .. Len(Tail(v)) : Tail(v)[i] = v[i + 1]
  BY <1>4, HeadTailProperties
<1>7. IsSeq(Tail(v)) /\ Len(Tail(v)) = Len(s) /\ \A i \in 1 .. Len(s) : Tail(v)[i] = s[i]
  <2>1. IsSeq(Tail(v))
    BY <1>6, AnySeqIsSeq, Zenon
  <2>. QED
    BY <1>3, <1>6, <2>1
<1>8. Tail(v) = s
  BY <1>7, SameSeq
<1>. QED
  BY <1>5, <1>8 DEF v, one

\* The two parts of a concatenation, cut out of it.
LEMMA SubSeqOfConcat ==
    ASSUME NEW s, NEW t, IsSeq(s), IsSeq(t)
    PROVE  /\ SubSeq(Cat(s, t), 1, Len(s)) = s
           /\ SubSeq(Cat(s, t), Len(s) + 1, Len(Cat(s, t))) = t
<1>. DEFINE u == Cat(s, t)
            m == Len(s)
            n == Len(t)
            S == Range(u)
<1>1. /\ IsSeq(u) /\ m \in Nat /\ n \in Nat /\ Len(u) = m + n
      /\ \A i \in 1 .. m : u[i] = s[i]
      /\ \A i \in 1 .. n : u[m + i] = t[i]
  BY SeqFacts, CatIsCat DEF IsCat
<1>2. \A i \in 1 .. m + n : u[i] \in S
  BY <1>1, SeqFacts DEF Range
<1>. HIDE DEF u, m, n, S
<1>3. SubSeq(u, 1, m) = s
  <2>1. 1 \in Int /\ m \in Int /\ \A i \in 1 .. m : u[i] \in S
    BY <1>1, <1>2
  <2>2. SubSeq(u, 1, m) \in Seq(S) /\ Len(SubSeq(u, 1, m)) = (IF 1 <= m THEN m - 1 + 1 ELSE 0)
        /\ \A i \in 1 .. m - 1 + 1 : SubSeq(u, 1, m)[i] = u[1 + i - 1]
    BY <2>1, SubSeqProperties
  <2>3. IsSeq(SubSeq(u, 1, m)) /\ Len(SubSeq(u, 1, m)) = m /\ \A i \in 1 .. m : SubSeq(u, 1, m)[i] = s[i]
    <3>1. IsSeq(SubSeq(u, 1, m))
      BY <2>2, AnySeqIsSeq, Zenon
    <3>. QED
      BY <1>1, <2>2, <3>1
  <2>. QED
    BY <2>3, SameSeq DEF m
<1>4. SubSeq(u, m + 1, m + n) = t
  <2>. DEFINE k == m + 1
              l == m + n
  <2>1. k \in Int /\ l \in Int /\ \A i \in k .. l : u[i] \in S
    BY <1>1, <1>2
  <2>2. k = m + 1 /\ l = m + n
    OBVIOUS
  <2>. HIDE DEF k, l
  <2>3. SubSeq(u, k, l) \in Seq(S) /\ Len(SubSeq(u, k, l)) = (IF k <= l THEN l - k + 1 ELSE 0)
        /\ \A i \in 1 .. l - k + 1 : SubSeq(u, k, l)[i] = u[k + i - 1]
    BY <2>1, SubSeqProperties
  <2>4. IsSeq(SubSeq(u, k, l)) /\ Len(SubSeq(u, k, l)) = n
    <3>1. IsSeq(SubSeq(u, k, l))
      BY <2>3, AnySeqIsSeq, Zenon
    <3>. QED
      BY <1>1, <2>2, <2>3, <3>1
  <2>5. ASSUME NEW i \in 1 .. n PROVE SubSeq(u, k, l)[i] = t[i]
    <3>1. i \in 1 .. l - k + 1 /\ k + i - 1 = m + i
      BY <1>1, <2>2
    <3>. QED
      BY <1>1, <2>3, <3>1
  <2>6. SubSeq(u, k, l) = t
    BY <2>4, <2>5, SameSeq DEF n
  <2>. QED
    BY <2>2, <2>6
<1>. QED
  BY <1>1, <1>3, <1>4 DEF u, m

\* Where the image is named first.
LEMMA FirstImage ==
    ASSUME NEW h, NEW w, IsSeq(h), IsSeq(w), Image \notin Range(h)
    PROVE  SelectInSeq(Cat(h, Cat(<<Image>>, w)), LAMBDA a : a = Image) = Len(h) + 1
<1>. DEFINE one == <<Image>>
            t == Cat(one, w)
            u == Cat(h, t)
            m == Len(h)
            I == {i \in 1 .. Len(u) : u[i] = Image}
<1>1. IsSeq(one) /\ Len(one) = 1 /\ one[1] = Image
  BY TupleIsSeq
<1>. HIDE DEF one
<1>2. IsSeq(t) /\ Len(t) = 1 + Len(w) /\ t[1] = Image /\ Len(w) \in Nat
  <2>1. IsCat(t, one, w) /\ Len(w) \in Nat
    BY <1>1, CatIsCat, SeqFacts
  <2>2. 1 \in 1 .. Len(one)
    BY <1>1
  <2>. HIDE DEF t
  <2>. QED
    BY <1>1, <2>1, <2>2 DEF IsCat
<1>. HIDE DEF t
<1>3. /\ m \in Nat /\ Len(u) = m + (1 + Len(w)) /\ u[m + 1] = Image
      /\ \A i \in 1 .. m : u[i] = h[i]
  <2>1. IsCat(u, h, t)
    BY <1>2, CatIsCat
  <2>. HIDE DEF u
  <2>2. 1 \in 1 .. Len(t)
    BY <1>2
  <2>. QED
    BY <1>2, <2>1, <2>2, SeqFacts DEF IsCat
<1>4. \A i \in 1 .. m : h[i] # Image
  BY SeqFacts DEF Range
<1>. HIDE DEF u, m
<1>5. m + 1 \in I /\ \A i \in I : m + 1 <= i
  BY <1>2, <1>3, <1>4
<1>6. I \subseteq Nat
  BY <1>2, <1>3
<1>. HIDE DEF I
<1>7. Min(I) = m + 1
  <2>1. \E x \in I : \A y \in I : x =< y
    BY <1>5
  <2>2. Min(I) \in I /\ \A y \in I : Min(I) =< y
    BY <2>1 DEF Min
  <2>3. Min(I) =< m + 1 /\ m + 1 <= Min(I) /\ Min(I) \in Nat
    BY <1>5, <1>6, <2>2
  <2>. QED
    BY <1>3, <2>3
<1>8. SelectInSeq(u, LAMBDA a : a = Image) = m + 1
  BY <1>5, <1>7 DEF SelectInSeq, I
<1>. QED
  BY <1>8 DEF u, m, t, one

\* A triple is its first followed by a pair.
LEMMA OneMore3 ==
    ASSUME NEW a, NEW b, NEW c
    PROVE  <<a, b, c>> = Cat(<<a>>, <<b, c>>)
<1>. DEFINE s == <<a>>
            t == <<b, c>>
            u == <<a, b, c>>
<1>1. /\ IsSeq(s) /\ Len(s) = 1 /\ s[1] = a
      /\ IsSeq(t) /\ Len(t) = 2 /\ t[1] = b /\ t[2] = c
  BY TupleIsSeq
<1>2. IsSeq(u) /\ Len(u) = 3 /\ u[1] = a /\ u[2] = b /\ u[3] = c
  <2>1. u \in Seq({a, b, c})
    OBVIOUS
  <2>. QED
    BY <2>1, AnySeqIsSeq
<1>. HIDE DEF s, t, u
<1>3. IsCat(Cat(s, t), s, t)
  BY <1>1, CatIsCat
<1>4. Len(Cat(s, t)) = 3 /\ Cat(s, t)[1] = a /\ Cat(s, t)[2] = b /\ Cat(s, t)[3] = c
  BY <1>1, <1>3 DEF IsCat
<1>5. u = Cat(s, t)
  BY <1>1, <1>2, <1>3, <1>4, SameSeq DEF IsCat
<1>. QED
  BY <1>5 DEF s, t, u

\* A quadruple is two pairs.
LEMMA TwoMore4 ==
    ASSUME NEW a, NEW b, NEW c, NEW d
    PROVE  <<a, b, c, d>> = Cat(<<a, b>>, <<c, d>>)
<1>. DEFINE s == <<a, b>>
            t == <<c, d>>
            u == <<a, b, c, d>>
<1>1. /\ IsSeq(s) /\ Len(s) = 2 /\ s[1] = a /\ s[2] = b
      /\ IsSeq(t) /\ Len(t) = 2 /\ t[1] = c /\ t[2] = d
  BY TupleIsSeq
<1>2. IsSeq(u) /\ Len(u) = 4 /\ u[1] = a /\ u[2] = b /\ u[3] = c /\ u[4] = d
  <2>1. u \in Seq({a, b, c, d})
    OBVIOUS
  <2>. QED
    BY <2>1, AnySeqIsSeq
<1>. HIDE DEF s, t, u
<1>3. IsCat(Cat(s, t), s, t)
  BY <1>1, CatIsCat
<1>4. Len(Cat(s, t)) = 4 /\ Cat(s, t)[1] = a /\ Cat(s, t)[2] = b
      /\ Cat(s, t)[3] = c /\ Cat(s, t)[4] = d
  BY <1>1, <1>3 DEF IsCat
<1>5. u = Cat(s, t)
  BY <1>1, <1>2, <1>3, <1>4, SameSeq DEF IsCat
<1>. QED
  BY <1>5 DEF s, t, u

\* A sextuple is a pair and a quadruple.
LEMMA TwoMore6 ==
    ASSUME NEW a, NEW b, NEW c, NEW d, NEW e, NEW f
    PROVE  <<a, b, c, d, e, f>> = Cat(<<a, b>>, <<c, d, e, f>>)
<1>. DEFINE s == <<a, b>>
            t == <<c, d, e, f>>
            u == <<a, b, c, d, e, f>>
<1>1. IsSeq(s) /\ Len(s) = 2 /\ s[1] = a /\ s[2] = b
  BY TupleIsSeq
<1>2. IsSeq(t) /\ Len(t) = 4 /\ t[1] = c /\ t[2] = d /\ t[3] = e /\ t[4] = f
  <2>1. t \in Seq({c, d, e, f})
    OBVIOUS
  <2>. QED
    BY <2>1, AnySeqIsSeq
<1>3. IsSeq(u) /\ Len(u) = 6 /\ u[1] = a /\ u[2] = b /\ u[3] = c /\ u[4] = d /\ u[5] = e /\ u[6] = f
  <2>1. u \in Seq({a, b, c, d, e, f})
    OBVIOUS
  <2>. QED
    BY <2>1, AnySeqIsSeq
<1>. HIDE DEF s, t, u
<1>4. IsCat(Cat(s, t), s, t)
  BY <1>1, <1>2, CatIsCat
<1>5. Len(Cat(s, t)) = 6 /\ Cat(s, t)[1] = a /\ Cat(s, t)[2] = b /\ Cat(s, t)[3] = c
      /\ Cat(s, t)[4] = d /\ Cat(s, t)[5] = e /\ Cat(s, t)[6] = f
  BY <1>1, <1>2, <1>4 DEF IsCat
<1>6. IsSeq(Cat(s, t)) /\ \A i \in 1 .. 6 : u[i] = Cat(s, t)[i]
  BY <1>3, <1>4, <1>5 DEF IsCat
<1>7. u = Cat(s, t)
  BY <1>3, <1>5, <1>6, SameSeq
<1>. QED
  BY <1>7 DEF s, t, u

-----------------------------------------------------------------------------
(* The parts of the arguments *)

Starts(req) == Word(IF req.ephemeral THEN "--rm" ELSE "-d")

\* What follows `run`.
Five(req) ==
    Cat(<<Starts(req)>>,
        Cat(<<Word("--name"), Word("name")>>,
            Cat(<<Limit("cpus", req.policy.millicores)>>, <<Limit("memory", req.policy.memory)>>)))

NetPart(req) ==
    IF req.policy.network # "unrestricted" THEN <<Word("--network"), Word("none")>> ELSE <<>>

WorkPart(req) ==
    IF req.policy.workdir
    THEN Cat(<<Word("-v"), Volume(req.workdir, Workspace.path, "rw")>>, <<Word("-w"), Word("/workspace")>>)
    ELSE <<>>

RoPart(req) == MountSpecs(req.policy.read_only, {}, req.workdir, "ro")
RwPart(req) == MountSpecs(req.policy.read_write, {Workspace, Temp}, req.workdir, "rw")
TmpPart == <<Word("--tmpfs"), Word("/tmp")>>

\* What stands before the image, after what it begins with.
Lead(first, req) ==
    Cat(Cat(Cat(Cat(Cat(Cat(first, NetPart(req)), WorkPart(req)), RoPart(req)), RwPart(req)), TmpPart),
        EnvArgs(req.env))

CommandOf(req) == IF req.command = <<>> THEN <<"sleep", "infinity">> ELSE req.command

\* build_run_args gives options, the image and the command, in that order.
LEMMA BuildShape ==
    ASSUME NEW req, IsSeq(Lead(Cat(<<Word("run")>>, Five(req)), req)), IsSeq(Words(CommandOf(req)))
    PROVE  BuildRunArgs(req) = Cat(Lead(Cat(<<Word("run")>>, Five(req)), req),
                                   Cat(<<Image>>, Words(CommandOf(req))))
<1>. DEFINE r == Word("run")
            s == Starts(req)
            n == Word("--name")
            m == Word("name")
            c == Limit("cpus", req.policy.millicores)
            l == Limit("memory", req.policy.memory)
            six == <<r, s, n, m, c, l>>
            front == Lead(six, req)
            w == Words(CommandOf(req))
<1>1. BuildRunArgs(req) = Cat(Cat(front, <<Image>>), w)
  <2>1. WorkPart(req) = (IF req.policy.workdir
                         THEN <<Word("-v"), Volume(req.workdir, Workspace.path, "rw"),
                                Word("-w"), Word("/workspace")>> ELSE <<>>)
    <3>1. Cat(<<Word("-v"), Volume(req.workdir, Workspace.path, "rw")>>, <<Word("-w"), Word("/workspace")>>)
          = <<Word("-v"), Volume(req.workdir, Workspace.path, "rw"), Word("-w"), Word("/workspace")>>
      BY TwoMore4
    <3>. QED
      BY <3>1, Zenon DEF WorkPart
  <2>. QED
    BY <2>1, Zenon DEF BuildRunArgs, Lead, Cat, Starts, NetPart, RoPart, RwPart, TmpPart, CommandOf
<1>2. six = Cat(<<r>>, Five(req))
  <2>. HIDE DEF r, s, n, m, c, l
  <2>1. IsSeq(<<r>>) /\ IsSeq(<<s>>) /\ IsSeq(<<n, m>>) /\ IsSeq(<<c>>) /\ IsSeq(<<l>>)
    BY TupleIsSeq, Zenon
  <2>2. six = Cat(<<r, s>>, <<n, m, c, l>>)
    BY TwoMore6
  <2>3. <<r, s>> = Cat(<<r>>, <<s>>) /\ <<c, l>> = Cat(<<c>>, <<l>>)
    BY TwoIsConcat
  <2>4. <<n, m, c, l>> = Cat(<<n, m>>, <<c, l>>)
    BY TwoMore4
  <2>. DEFINE x == <<r>>
              y == <<s>>
              z == Cat(<<n, m>>, Cat(<<c>>, <<l>>))
  <2>5. IsSeq(z)
    BY <2>1, ConcatFacts
  <2>6. six = Cat(Cat(x, y), z)
    BY <2>2, <2>3, <2>4, Zenon
  <2>7. Five(req) = Cat(y, z)
    BY DEF Five, s, n, m, c, l
  <2>8. Cat(Cat(x, y), z) = Cat(x, Cat(y, z))
    <3>. HIDE DEF z, x, y
    <3>1. IsSeq(x) /\ IsSeq(y) /\ IsSeq(z)
      BY <2>1, <2>5 DEF x, y
    <3>. QED
      BY <3>1, ConcatAssoc
  <2>. QED
    BY <2>6, <2>7, <2>8, Zenon
<1>3. IsSeq(front) /\ IsSeq(<<Image>>) /\ IsSeq(w)
  BY <1>2, TupleIsSeq, Zenon
<1>. HIDE DEF front, six, w
<1>4. Cat(Cat(front, <<Image>>), w) = Cat(front, Cat(<<Image>>, w))
  BY <1>3, ConcatAssoc
<1>. QED
  BY <1>1, <1>2, <1>4, Zenon DEF front, w

\* What it begins with can be taken off.
LEMMA FrontOfConcat ==
    ASSUME NEW req, NEW a, NEW b, IsSeq(a), IsSeq(b),
           IsSeq(NetPart(req)), IsSeq(WorkPart(req)), IsSeq(RoPart(req)), IsSeq(RwPart(req)),
           IsSeq(EnvArgs(req.env))
    PROVE  Lead(Cat(a, b), req) = Cat(a, Lead(b, req)) /\ IsSeq(Lead(b, req))
<1>. DEFINE c == NetPart(req)
            d == WorkPart(req)
            e == RoPart(req)
            f == RwPart(req)
            g == TmpPart
            h == EnvArgs(req.env)
<1>0. IsSeq(g)
  BY TupleIsSeq, Zenon DEF TmpPart
<1>. HIDE DEF c, d, e, f, g, h
<1>1. IsSeq(c) /\ IsSeq(d) /\ IsSeq(e) /\ IsSeq(f) /\ IsSeq(h)
  BY DEF c, d, e, f, h
<1>. DEFINE b1 == Cat(b, c)
            b2 == Cat(b1, d)
            b3 == Cat(b2, e)
            b4 == Cat(b3, f)
            b5 == Cat(b4, g)
            b6 == Cat(b5, h)
<1>2. IsSeq(b1)
  BY <1>1, ConcatFacts
<1>3. IsSeq(b2)
  BY <1>1, <1>2, ConcatFacts
<1>4. IsSeq(b3)
  BY <1>1, <1>3, ConcatFacts
<1>5. IsSeq(b4)
  BY <1>1, <1>4, ConcatFacts
<1>6. IsSeq(b5)
  BY <1>0, <1>5, ConcatFacts
<1>7. IsSeq(b6)
  BY <1>1, <1>6, ConcatFacts
<1>8. /\ Cat(Cat(a, b), c) = Cat(a, b1) /\ Cat(Cat(a, b1), d) = Cat(a, b2)
      /\ Cat(Cat(a, b2), e) = Cat(a, b3) /\ Cat(Cat(a, b3), f) = Cat(a, b4)
      /\ Cat(Cat(a, b4), g) = Cat(a, b5) /\ Cat(Cat(a, b5), h) = Cat(a, b6)
  BY <1>0, <1>1, <1>2, <1>3, <1>4, <1>5, <1>6, ConcatAssoc
<1>9. Lead(Cat(a, b), req) = Cat(Cat(Cat(Cat(Cat(Cat(Cat(a, b), c), d), e), f), g), h)
  BY DEF Lead, c, d, e, f, g, h
<1>10. Lead(b, req) = b6
  BY DEF Lead, c, d, e, f, g, h
<1>. HIDE DEF b1, b2, b3, b4, b5, b6
<1>. QED
  BY <1>7, <1>8, <1>9, <1>10

-----------------------------------------------------------------------------
(* The values of an option *)

ValueOf(p, o) == IF p[1] = Word(o) THEN <<p[2]>> ELSE <<>>

\* Values collects the values of the pairs, one piece for each.
LEMMA ValuesPieces ==
    ASSUME NEW os, NEW o, IsSeq(os)
    PROVE  LET pieces == [i \in DOMAIN os |-> ValueOf(os[i], o)]
           IN  /\ Values(os, o) = FlattenSeq(pieces)
               /\ IsSeq(pieces) /\ Len(pieces) = Len(os)
               /\ \A i \in 1 .. Len(os) : pieces[i] = ValueOf(os[i], o) /\ IsSeq(pieces[i])
<1>. DEFINE pieces == [i \in DOMAIN os |-> ValueOf(os[i], o)]
            n == Len(os)
<1>1. n \in Nat /\ DOMAIN os = 1 .. n
  BY SeqFacts
<1>2. pieces = [i \in 1 .. n |-> pieces[i]] /\ \A i \in 1 .. n : pieces[i] = ValueOf(os[i], o)
  BY <1>1
<1>3. Values(os, o) = FlattenSeq(pieces)
  BY DEF Values, ValueOf
<1>4. \A i : IsSeq(ValueOf(os[i], o))
  BY TupleIsSeq DEF ValueOf
<1>. HIDE DEF pieces, n
<1>5. IsSeq(pieces) /\ Len(pieces) = n
  BY <1>1, <1>2, FunctionIsSeq
<1>. QED
  BY <1>2, <1>3, <1>4, <1>5 DEF pieces, n

\* What the values of an option are.
LEMMA ValuesFacts ==
    ASSUME NEW os, NEW o, IsSeq(os)
    PROVE  /\ IsSeq(Values(os, o))
           /\ Range(Values(os, o)) = {p[2] : p \in {q \in Range(os) : q[1] = Word(o)}}
<1>. DEFINE pieces == [i \in DOMAIN os |-> ValueOf(os[i], o)]
            n == Len(os)
            those == {p[2] : p \in {q \in Range(os) : q[1] = Word(o)}}
<1>1. /\ Values(os, o) = FlattenSeq(pieces)
      /\ IsSeq(pieces) /\ Len(pieces) = n
      /\ \A i \in 1 .. n : pieces[i] = ValueOf(os[i], o) /\ IsSeq(pieces[i])
  BY ValuesPieces
<1>2. Range(os) = {os[i] : i \in 1 .. n}
  BY SeqFacts DEF Range
<1>. HIDE DEF pieces, n
<1>3. IsSeq(FlattenSeq(pieces)) /\ Range(FlattenSeq(pieces)) = UNION {Range(pieces[i]) : i \in 1 .. n}
  BY <1>1, FlattenIsSeq
<1>4. ASSUME NEW i \in 1 .. n PROVE Range(pieces[i]) \subseteq those
  <2>1. CASE os[i][1] = Word(o)
    <3>1. Range(pieces[i]) = {os[i][2]}
      BY <1>1, <2>1, TupleRange DEF ValueOf
    <3>. QED
      BY <1>2, <2>1, <3>1
  <2>2. CASE os[i][1] # Word(o)
    <3>1. Range(pieces[i]) = {}
      BY <1>1, <2>2, TupleRange DEF ValueOf
    <3>. QED
      BY <3>1
  <2>. QED
    BY <2>1, <2>2
<1>5. ASSUME NEW i \in 1 .. n, os[i][1] = Word(o) PROVE os[i][2] \in Range(FlattenSeq(pieces))
  <2>1. Range(pieces[i]) = {os[i][2]}
    BY <1>1, <1>5, TupleRange DEF ValueOf
  <2>. QED
    BY <1>3, <2>1
<1>6. Range(FlattenSeq(pieces)) \subseteq those
  <2>. HIDE DEF those
  <2>. QED
    BY <1>3, <1>4
<1>7. those \subseteq Range(FlattenSeq(pieces))
  BY <1>2, <1>5
<1>. QED
  BY <1>1, <1>3, <1>6, <1>7

\* A sequence that holds nothing is empty.
LEMMA NoneIsEmpty ==
    ASSUME NEW s, IsSeq(s), Range(s) = {}
    PROVE  s = <<>>
<1>1. Len(s) \in Nat /\ DOMAIN s = 1 .. Len(s)
  BY SeqFacts
<1>2. DOMAIN s = {}
  BY DEF Range
<1>3. Len(s) = 0
  BY <1>1, <1>2
<1>. QED
  BY <1>3, TupleIsSeq, SameSeq

\* An option that is not there has no values.
LEMMA ValuesNone ==
    ASSUME NEW os, NEW o, IsSeq(os), \A q \in Range(os) : q[1] # Word(o)
    PROVE  Values(os, o) = <<>>
<1>1. IsSeq(Values(os, o)) /\ Range(Values(os, o)) = {p[2] : p \in {q \in Range(os) : q[1] = Word(o)}}
  BY ValuesFacts
<1>2. Range(Values(os, o)) = {}
  BY <1>1
<1>. QED
  BY <1>1, <1>2, NoneIsEmpty

\* Where only one option is, its values are those of all.
LEMMA ValuesAll ==
    ASSUME NEW os, NEW o, IsSeq(os), \A i \in 1 .. Len(os) : os[i][1] = Word(o)
    PROVE  Values(os, o) = [i \in DOMAIN os |-> os[i][2]]
<1>. DEFINE s == [i \in DOMAIN os |-> os[i][2]]
            n == Len(os)
<1>1. n \in Nat /\ DOMAIN os = 1 .. n
  BY SeqFacts
<1>2. IsSeq(s) /\ DOMAIN s = DOMAIN os /\ \A i \in DOMAIN os : s[i] = os[i][2]
  <2>1. s = [i \in 1 .. n |-> s[i]] /\ DOMAIN s = DOMAIN os /\ \A i \in DOMAIN os : s[i] = os[i][2]
    BY <1>1
  <2>. HIDE DEF s, n
  <2>. QED
    BY <1>1, <2>1, FunctionIsSeq
<1>. HIDE DEF s
<1>3. [i \in DOMAIN os |-> ValueOf(os[i], o)] = [i \in DOMAIN s |-> <<s[i]>>]
  BY <1>1, <1>2 DEF ValueOf
<1>4. Values(os, o) = FlattenSeq([i \in DOMAIN os |-> ValueOf(os[i], o)])
  BY ValuesPieces
<1>5. FlattenSeq([i \in DOMAIN s |-> <<s[i]>>]) = s
  BY <1>2, FlattenOnes
<1>. QED
  BY <1>3, <1>4, <1>5 DEF s

\* Values stand in the order of the options.
LEMMA ValuesConcat ==
    ASSUME NEW a, NEW b, NEW o, IsSeq(a), IsSeq(b)
    PROVE  Values(Cat(a, b), o) = Cat(Values(a, o), Values(b, o))
<1>. DEFINE ab == Cat(a, b)
            p == [i \in DOMAIN a |-> ValueOf(a[i], o)]
            q == [i \in DOMAIN b |-> ValueOf(b[i], o)]
            r == [i \in DOMAIN ab |-> ValueOf(ab[i], o)]
            m == Len(a)
            n == Len(b)
<1>1. IsCat(ab, a, b)
  BY CatIsCat
<1>2. /\ Values(a, o) = FlattenSeq(p) /\ IsSeq(p) /\ Len(p) = m
      /\ \A i \in 1 .. m : p[i] = ValueOf(a[i], o) /\ IsSeq(p[i])
  BY ValuesPieces
<1>3. /\ Values(b, o) = FlattenSeq(q) /\ IsSeq(q) /\ Len(q) = n
      /\ \A i \in 1 .. n : q[i] = ValueOf(b[i], o) /\ IsSeq(q[i])
  BY ValuesPieces
<1>4. /\ Values(ab, o) = FlattenSeq(r) /\ IsSeq(r) /\ Len(r) = m + n
      /\ \A i \in 1 .. m + n : r[i] = ValueOf(ab[i], o)
  <2>1. IsSeq(ab) /\ Len(ab) = m + n
    BY <1>1 DEF IsCat
  <2>. HIDE DEF ab, m, n
  <2>. QED
    BY <2>1, ValuesPieces
<1>5. m \in Nat /\ n \in Nat
  BY SeqFacts
<1>. HIDE DEF ab, p, q, r
<1>6. IsCat(Cat(p, q), p, q)
  BY <1>2, <1>3, CatIsCat
<1>7. IsSeq(Cat(p, q)) /\ Len(Cat(p, q)) = m + n
  BY <1>2, <1>3, <1>6 DEF IsCat
<1>8. ASSUME NEW i \in 1 .. m + n PROVE r[i] = Cat(p, q)[i]
  <2>1. CASE i \in 1 .. m
    BY <1>1, <1>2, <1>4, <1>6, <2>1 DEF IsCat
  <2>2. CASE i \notin 1 .. m
    <3>1. i - m \in 1 .. n /\ i = m + (i - m)
      BY <1>5, <2>2
    <3>2. ab[i] = b[i - m] /\ Cat(p, q)[i] = q[i - m]
      BY <1>1, <1>2, <1>3, <1>6, <3>1 DEF IsCat
    <3>. QED
      BY <1>3, <1>4, <3>1, <3>2
  <2>. QED
    BY <2>1, <2>2
<1>9. r = Cat(p, q)
  <2>. HIDE DEF m, n
  <2>. QED
    BY <1>4, <1>7, <1>8, SameSeq
<1>10. FlattenSeq(Cat(p, q)) = Cat(FlattenSeq(p), FlattenSeq(q))
  BY <1>2, <1>3, FlattenConcat
<1>. QED
  BY <1>2, <1>3, <1>4, <1>9, <1>10 DEF ab

-----------------------------------------------------------------------------
(* The environment that pairs make *)

EnvFrom(m, pairs) == FoldLeft(LAMBDA s, e : Put(s, e[2], e[3]), m, pairs)

\* The environment of -e options is a fold.
LEMMA EnvFold ==
    \A m, pairs : EnvFrom(m, pairs) = Setting!Value(0, m, pairs)
BY DEF EnvFrom, Setting!Value, Set, FoldLeft, Setting!FoldLeft,
   MapThenFoldSet, Setting!MapThenFoldSet, Max, Setting!Max

\* Pairs are set on top of those before them.
LEMMA EnvConcat ==
    ASSUME NEW b, NEW s, NEW t, IsSeq(s), IsSeq(t)
    PROVE  EnvFrom(b, Cat(s, t)) = EnvFrom(EnvFrom(b, s), t)
<1>1. Setting!Value(0, b, s \o t) = Setting!Value(0, Setting!Value(0, b, s), t)
  <2>1. Setting!IsSeq(s) /\ Setting!IsSeq(t)
    BY DEF IsSeq, Setting!IsSeq, Range, Setting!Range
  <2>. QED
    BY <2>1, Setting!FoldConcat
<1>. QED
  BY <1>1, EnvFold DEF Cat

\* One pair sets one variable.
LEMMA EnvOne == \A m, v, x : EnvFrom(m, <<Pair(v, x)>>) = Put(m, v, x)
<1>. SUFFICES ASSUME NEW m, NEW v, NEW x PROVE EnvFrom(m, <<Pair(v, x)>>) = Put(m, v, x)
  OBVIOUS
<1>. DEFINE e == Pair(v, x)
<1>1. e[2] = v /\ e[3] = x
  BY DEF Pair
<1>. HIDE DEF e
<1>2. EnvFrom(m, <<e>>) = Set(0, m, e)
  BY EnvFold, Setting!FoldOne
<1>. QED
  BY <1>1, <1>2 DEF Set, e

\* An environment, one pair for each variable of it.
PairsOf(env) ==
    LET vars == SetToSeq(DOMAIN env) IN [i \in DOMAIN vars |-> Pair(vars[i], env[vars[i]])]

\* The first k of the variables are set.
SetFirst(r, m, env, vars, k) ==
    r = [v \in DOMAIN m \cup {vars[i] : i \in 1 .. k} |->
            IF v \in {vars[i] : i \in 1 .. k} THEN env[v] ELSE m[v]]

\* The pairs of an environment set all of it, over whatever was set.
LEMMA PairsSetAll ==
    ASSUME NEW m, NEW env, IsFiniteSet(DOMAIN env), m = [v \in DOMAIN m |-> m[v]]
    PROVE  EnvFrom(m, PairsOf(env)) = Over(env, m)
<1>. DEFINE vars == SetToSeq(DOMAIN env)
            pairs == PairsOf(env)
            n == Len(vars)
            First(k) == {vars[i] : i \in 1 .. k}
<1>1. IsSeq(vars) /\ Range(vars) = DOMAIN env
  BY SetToSeqFacts
<1>2. n \in Nat /\ DOMAIN vars = 1 .. n /\ First(n) = DOMAIN env
  BY <1>1, SeqFacts DEF Range
<1>3. /\ DOMAIN pairs = 1 .. n
      /\ \A i \in 1 .. n : pairs[i][2] = vars[i] /\ pairs[i][3] = env[vars[i]]
  BY <1>2 DEF PairsOf, Pair
<1>. HIDE DEF vars, pairs, n
<1>4. PICK R : Setting!IsRun(R, 0, m, pairs, n) /\ EnvFrom(m, pairs) = R[n]
  BY <1>2, <1>3, Setting!FoldRun, EnvFold
<1>. DEFINE Good == {k \in Nat : k <= n => SetFirst(R[k], m, env, vars, k)}
<1>5. 0 \in Good
  <2>1. R[0] = m
    BY <1>4 DEF Setting!IsRun
  <2>2. 1 .. 0 = {}
    OBVIOUS
  <2>. QED
    BY <2>1, <2>2 DEF SetFirst
<1>6. ASSUME NEW k \in Nat, k \in Good PROVE k + 1 \in Good
  <2>. SUFFICES ASSUME k + 1 <= n PROVE SetFirst(R[k + 1], m, env, vars, k + 1)
    OBVIOUS
  <2>1. k <= n /\ k + 1 \in 1 .. n /\ (k + 1) - 1 = k
    BY <1>2
  <2>. DEFINE x == vars[k + 1]
  <2>2. R[k + 1] = Put(R[k], x, env[x])
    <3>1. R[k + 1] = Set(0, R[k], pairs[k + 1])
      BY <1>4, <2>1 DEF Setting!IsRun
    <3>. QED
      BY <1>3, <2>1, <3>1 DEF Set
  <2>3. First(k + 1) = First(k) \cup {x}
    <3>1. 1 .. k + 1 = 1 .. k \cup {k + 1}
      OBVIOUS
    <3>. QED
      BY <3>1
  <2>4. R[k] = [v \in DOMAIN m \cup First(k) |-> IF v \in First(k) THEN env[v] ELSE m[v]]
    BY <1>6, <2>1 DEF SetFirst
  <2>. DEFINE F == First(k)
              G == First(k + 1)
  <2>. HIDE DEF x, F, G, First
  <2>5. R[k + 1] = [v \in DOMAIN m \cup G |-> IF v \in G THEN env[v] ELSE m[v]]
    <3>1. R[k] = [v \in DOMAIN m \cup F |-> IF v \in F THEN env[v] ELSE m[v]] /\ G = F \cup {x}
      BY <2>3, <2>4 DEF F, G
    <3>. HIDE DEF Good
    <3>. QED
      BY <2>2, <3>1 DEF Put
  <2>. QED
    BY <2>5 DEF SetFirst, G, First
<1>. HIDE DEF Good
<1>7. n \in Good
  BY <1>2, <1>5, <1>6, NatSetInduction
<1>8. SetFirst(R[n], m, env, vars, n)
  BY <1>2, <1>7 DEF Good
<1>. QED
  BY <1>2, <1>4, <1>8 DEF SetFirst, Over, pairs

-----------------------------------------------------------------------------
(* Part of the arguments: the options in it, the pairs among them, and that *)
(* neither the image nor --network is named in it                           *)

Part(args, options, pairs) ==
    \E os : Opts(args, os) /\ Range(os) = options /\ Values(os, "-e") = pairs

Plain(args) == IsSeq(args) /\ Image \notin Range(args) /\ Word("--network") \notin Range(args)

\* A part is a sequence, and so are its pairs.
LEMMA PartIsSeq ==
    ASSUME NEW args, NEW R, NEW E, Part(args, R, E)
    PROVE  IsSeq(args) /\ IsSeq(E)
<1>1. PICK os : Opts(args, os) /\ Range(os) = R /\ Values(os, "-e") = E
  BY DEF Part
<1>2. IsSeq(args) /\ IsSeq(os)
  BY <1>1 DEF Opts
<1>. QED
  BY <1>1, <1>2, ValuesFacts

\* Parts follow one another.
LEMMA PartConcat ==
    ASSUME NEW a, NEW b, NEW R, NEW S, NEW E, NEW F, Part(a, R, E), Part(b, S, F)
    PROVE  Part(Cat(a, b), R \cup S, Cat(E, F))
<1>1. PICK x : Opts(a, x) /\ Range(x) = R /\ Values(x, "-e") = E
  BY DEF Part
<1>2. PICK y : Opts(b, y) /\ Range(y) = S /\ Values(y, "-e") = F
  BY DEF Part
<1>3. IsSeq(x) /\ IsSeq(y)
  BY <1>1, <1>2 DEF Opts
<1>4. Opts(Cat(a, b), Cat(x, y)) /\ Range(Cat(x, y)) = R \cup S /\ Values(Cat(x, y), "-e") = Cat(E, F)
  BY <1>1, <1>2, <1>3, OptsConcat, ConcatRange, ValuesConcat
<1>. QED
  BY <1>4 DEF Part

\* Plain arguments follow one another.
LEMMA PlainConcat ==
    ASSUME NEW a, NEW b, Plain(a), Plain(b)
    PROVE  Plain(Cat(a, b))
BY ConcatFacts, ConcatRange DEF Plain

\* An argument is a word, and not one of those two, or no word at all.
LEMMA PlainWords ==
    /\ \A w : w \notin {"image", "--network"} => Word(w) # Image /\ Word(w) # Word("--network")
    /\ \A h, g, m : Volume(h, g, m) # Image /\ Volume(h, g, m) # Word("--network")
    /\ \A v, x : Pair(v, x) # Image /\ Pair(v, x) # Word("--network")
    /\ \A r, n : Limit(r, n) # Image /\ Limit(r, n) # Word("--network")
BY KindsDiffer DEF Image

\* Tuples of plain arguments are plain.
LEMMA PlainTuples ==
    /\ Plain(<<>>)
    /\ \A a : a # Image /\ a # Word("--network") => Plain(<<a>>)
    /\ \A a, b : a # Image /\ a # Word("--network") /\ b # Image /\ b # Word("--network")
                 => Plain(<<a, b>>)
BY TupleIsSeq, TupleRange DEF Plain

\* Nothing is a part without options.
LEMMA PartNone == Part(<<>>, {}, <<>>)
<1>1. Values(<<>>, "-e") = <<>>
  BY ValuesNone, TupleIsSeq, TupleRange
<1>. QED
  BY <1>1, OptsNone, TupleRange DEF Part

\* A flag or a limit is a part.
LEMMA PartOne ==
    ASSUME NEW a, a \in Flags \/ (a[1] = "limit" /\ \A w : a # Word(w))
    PROVE  Part(<<a>>, {<<a, a>>}, <<>>)
<1>. DEFINE os == <<<<a, a>>>>
<1>1. Opts(<<a>>, os)
  BY OptsOne
<1>2. IsSeq(os) /\ Range(os) = {<<a, a>>}
  BY TupleIsSeq, TupleRange, Zenon
<1>3. a # Word("-e")
  BY KindsDiffer DEF Flags
<1>. HIDE DEF os
<1>4. Values(os, "-e") = <<>>
  <2>1. \A q \in Range(os) : q[1] # Word("-e")
    BY <1>2, <1>3
  <2>. QED
    BY <1>2, <2>1, ValuesNone
<1>. QED
  BY <1>1, <1>2, <1>4 DEF Part

\* An option with its value is a part, and a pair if the option is -e.
LEMMA PartTwo ==
    ASSUME NEW t \in TakesValue, NEW x
    PROVE  Part(<<t, x>>, {<<t, x>>}, IF t = Word("-e") THEN <<x>> ELSE <<>>)
<1>. DEFINE os == <<<<t, x>>>>
<1>1. Opts(<<t, x>>, os)
  BY OptsTwo
<1>2. IsSeq(os) /\ Range(os) = {<<t, x>>} /\ Len(os) = 1
  BY TupleIsSeq, TupleRange, Zenon
<1>3. os[1] = <<t, x>> /\ DOMAIN os = {1}
  OBVIOUS
<1>. HIDE DEF os
<1>4. t # Word("-e") => Values(os, "-e") = <<>>
  BY <1>2, ValuesNone
<1>5. t = Word("-e") => Values(os, "-e") = <<x>>
  <2>. SUFFICES ASSUME t = Word("-e") PROVE Values(os, "-e") = <<x>>
    OBVIOUS
  <2>1. Values(os, "-e") = [i \in DOMAIN os |-> os[i][2]]
    BY <1>2, <1>3, ValuesAll
  <2>2. [i \in {1} |-> os[i][2]] = <<x>>
    BY <1>3
  <2>. QED
    BY <1>2, <2>1, <2>2
<1>. QED
  BY <1>1, <1>2, <1>4, <1>5 DEF Part

\* Options that are not -e are a part without pairs.
LEMMA PartPieces ==
    ASSUME NEW pieces, OptionPieces(pieces),
           \A k \in 1 .. Len(pieces) : pieces[k] # <<>> => pieces[k][1] # Word("-e")
    PROVE  Part(FlattenSeq(pieces), {pieces[k] : k \in 1 .. Len(pieces)} \ {<<>>}, <<>>)
<1>. DEFINE os == OptionsOf(pieces)
<1>1. Opts(FlattenSeq(pieces), os) /\ Range(os) = {pieces[k] : k \in 1 .. Len(pieces)} \ {<<>>}
  BY OptsPieces
<1>2. IsSeq(os)
  BY <1>1 DEF Opts
<1>. HIDE DEF os
<1>3. Values(os, "-e") = <<>>
  BY <1>1, <1>2, ValuesNone
<1>. QED
  BY <1>1, <1>3 DEF Part

\* Plain pieces flatten to plain arguments.
LEMMA PlainPieces ==
    ASSUME NEW pieces, IsSeq(pieces), \A k \in 1 .. Len(pieces) : Plain(pieces[k])
    PROVE  Plain(FlattenSeq(pieces))
BY FlattenIsSeq DEF Plain

-----------------------------------------------------------------------------
(* Mounts *)

Mounted(ps, skipped, workdir, mode) ==
    {MountSpec(ps[i], workdir, mode) : i \in {j \in DOMAIN ps : ps[j] \notin skipped}} \ {<<>>}

\* mount_spec gives a volume or nothing.
LEMMA AMount ==
    \A p, w, mode : \/ MountSpec(p, w, mode) = <<>>
                    \/ \E v : MountSpec(p, w, mode) = <<Word("-v"), v>> /\ Plain(<<Word("-v"), v>>)
<1>. SUFFICES ASSUME NEW p, NEW w, NEW mode, MountSpec(p, w, mode) # <<>>
              PROVE  \E v : MountSpec(p, w, mode) = <<Word("-v"), v>> /\ Plain(<<Word("-v"), v>>)
  OBVIOUS
<1>1. PICK h, g : MountSpec(p, w, mode) = <<Word("-v"), Volume(h, g, mode)>>
  BY DEF MountSpec
<1>2. Plain(<<Word("-v"), Volume(h, g, mode)>>)
  BY PlainTuples, PlainWords
<1>. QED
  BY <1>1, <1>2

\* The mounts of a list are the volumes of its paths.
LEMMA MountPart ==
    ASSUME NEW ps, NEW skipped, NEW w, NEW mode, IsSeq(ps)
    PROVE  /\ Part(MountSpecs(ps, skipped, w, mode), Mounted(ps, skipped, w, mode), <<>>)
           /\ Plain(MountSpecs(ps, skipped, w, mode))
<1>. DEFINE pieces == [i \in DOMAIN ps |-> IF ps[i] \in skipped THEN <<>> ELSE MountSpec(ps[i], w, mode)]
            n == Len(ps)
<1>1. n \in Nat /\ DOMAIN ps = 1 .. n
  BY SeqFacts
<1>2. pieces = [i \in 1 .. n |-> pieces[i]]
      /\ \A i \in 1 .. n : pieces[i] = IF ps[i] \in skipped THEN <<>> ELSE MountSpec(ps[i], w, mode)
  BY <1>1
<1>3. MountSpecs(ps, skipped, w, mode) = FlattenSeq(pieces)
  BY DEF MountSpecs
<1>. HIDE DEF pieces, n
<1>4. IsSeq(pieces) /\ Len(pieces) = n
  BY <1>1, <1>2, FunctionIsSeq
<1>5. \A k \in 1 .. n : pieces[k] = <<>> \/ \E v : pieces[k] = <<Word("-v"), v>> /\ Plain(pieces[k])
  <2>. SUFFICES ASSUME NEW k \in 1 .. n, pieces[k] # <<>>
                PROVE  \E v : pieces[k] = <<Word("-v"), v>> /\ Plain(pieces[k])
    OBVIOUS
  <2>1. pieces[k] = MountSpec(ps[k], w, mode)
    BY <1>2
  <2>2. PICK v : MountSpec(ps[k], w, mode) = <<Word("-v"), v>> /\ Plain(<<Word("-v"), v>>)
    BY <2>1, AMount
  <2>. QED
    BY <2>1, <2>2
<1>6. Word("-v") \in TakesValue /\ Word("-v") # Word("-e")
  BY KindsDiffer DEF TakesValue
<1>7. OptionPieces(pieces) /\ \A k \in 1 .. n : pieces[k] # <<>> => pieces[k][1] # Word("-e")
  BY <1>4, <1>5, <1>6 DEF OptionPieces
<1>8. Plain(FlattenSeq(pieces))
  BY <1>4, <1>5, PlainPieces, PlainTuples
<1>9. Part(FlattenSeq(pieces), {pieces[k] : k \in 1 .. n} \ {<<>>}, <<>>)
  BY <1>4, <1>7, PartPieces
<1>10. {pieces[k] : k \in 1 .. n} \ {<<>>} = Mounted(ps, skipped, w, mode)
  BY <1>1, <1>2 DEF Mounted
<1>. QED
  BY <1>3, <1>8, <1>9, <1>10

-----------------------------------------------------------------------------
(* Environment *)

EnvOptions(env) == {<<Word("-e"), Pair(v, env[v])>> : v \in DOMAIN env}

\* build_run_args passes each variable of the request by one -e.
LEMMA EnvPart ==
    ASSUME NEW env, IsFiniteSet(DOMAIN env)
    PROVE  Part(EnvArgs(env), EnvOptions(env), PairsOf(env)) /\ Plain(EnvArgs(env))
<1>. DEFINE vars == SetToSeq(DOMAIN env)
            pieces == [i \in DOMAIN vars |-> <<Word("-e"), Pair(vars[i], env[vars[i]])>>]
            n == Len(vars)
<1>1. IsSeq(vars) /\ Range(vars) = DOMAIN env
  BY SetToSeqFacts
<1>2. n \in Nat /\ DOMAIN vars = 1 .. n
  BY <1>1, SeqFacts
<1>3. pieces = [i \in 1 .. n |-> pieces[i]]
      /\ \A i \in 1 .. n : pieces[i] = <<Word("-e"), Pair(vars[i], env[vars[i]])>>
  BY <1>2
<1>4. EnvArgs(env) = FlattenSeq(pieces)
  BY DEF EnvArgs
<1>5. PairsOf(env) = [i \in DOMAIN vars |-> Pair(vars[i], env[vars[i]])]
  BY DEF PairsOf
<1>6. Word("-e") \in TakesValue
  BY DEF TakesValue
<1>. HIDE DEF pieces, n, vars
<1>7. IsSeq(pieces) /\ Len(pieces) = n
  BY <1>2, <1>3, FunctionIsSeq
<1>8. \A k \in 1 .. n : Plain(pieces[k])
  <2>1. Word("-e") # Image /\ Word("-e") # Word("--network")
    BY PlainWords
  <2>2. \A v, x : Pair(v, x) # Image /\ Pair(v, x) # Word("--network")
    BY PlainWords
  <2>3. \A v, x : Plain(<<Word("-e"), Pair(v, x)>>)
    BY <2>1, <2>2, PlainTuples
  <2>. QED
    BY <1>3, <2>3
<1>9. OptionPieces(pieces)
  BY <1>3, <1>6, <1>7 DEF OptionPieces
<1>10. Opts(FlattenSeq(pieces), OptionsOf(pieces))
       /\ Range(OptionsOf(pieces)) = {pieces[k] : k \in 1 .. n} \ {<<>>}
  BY <1>7, <1>9, OptsPieces
<1>11. OptionsOf(pieces) = pieces
  <2>1. \A k \in DOMAIN pieces : OptionOf(pieces[k]) = <<pieces[k]>>
    BY <1>2, <1>3 DEF OptionOf
  <2>2. [k \in DOMAIN pieces |-> OptionOf(pieces[k])] = [k \in DOMAIN pieces |-> <<pieces[k]>>]
    BY <2>1
  <2>. QED
    BY <1>7, <2>2, FlattenOnes DEF OptionsOf
<1>12. {pieces[k] : k \in 1 .. n} \ {<<>>} = EnvOptions(env)
  <2>1. DOMAIN env = {vars[i] : i \in 1 .. n}
    BY <1>1, <1>2 DEF Range
  <2>2. \A k \in 1 .. n : pieces[k] # <<>>
    BY <1>3
  <2>. QED
    <3>1. EnvOptions(env) = {<<Word("-e"), Pair(vars[i], env[vars[i]])>> : i \in 1 .. n}
      BY <2>1 DEF EnvOptions
    <3>2. {<<Word("-e"), Pair(vars[i], env[vars[i]])>> : i \in 1 .. n} = {pieces[i] : i \in 1 .. n}
      BY <1>3
    <3>. QED
      BY <2>2, <3>1, <3>2
<1>13. Values(pieces, "-e") = PairsOf(env)
  <2>1. \A i \in 1 .. n : pieces[i][1] = Word("-e") /\ pieces[i][2] = Pair(vars[i], env[vars[i]])
    BY <1>3
  <2>2. Values(pieces, "-e") = [i \in DOMAIN pieces |-> pieces[i][2]]
    BY <1>7, <2>1, ValuesAll
  <2>3. DOMAIN pieces = 1 .. n
    BY <1>7, SeqFacts
  <2>. QED
    BY <1>2, <1>5, <2>1, <2>2, <2>3
<1>. QED
  BY <1>4, <1>7, <1>8, <1>10, <1>11, <1>12, <1>13, PlainPieces DEF Part

-----------------------------------------------------------------------------
(* The arguments as a whole *)

\* What a request is made of, as far as the arguments depend on it.
IsRequest(req) ==
    /\ {"policy", "workdir", "ephemeral", "command", "env"} \subseteq DOMAIN req
    /\ {"workdir", "read_only", "read_write", "network", "millicores", "memory"} \subseteq DOMAIN req.policy
    /\ IsSeq(req.policy.read_only) /\ IsSeq(req.policy.read_write) /\ IsSeq(req.command)
    /\ IsFiniteSet(DOMAIN req.env) /\ req.env = [v \in DOMAIN req.env |-> req.env[v]]

Both(a) == <<a, a>>

NetOptions(req) ==
    IF req.policy.network # "unrestricted" THEN {<<Word("--network"), Word("none")>>} ELSE {}
WorkOptions(req) ==
    IF req.policy.workdir
    THEN {<<Word("-v"), Volume(req.workdir, Workspace.path, "rw")>>, <<Word("-w"), Word("/workspace")>>}
    ELSE {}
RoOptions(req) == Mounted(req.policy.read_only, {}, req.workdir, "ro")
RwOptions(req) == Mounted(req.policy.read_write, {Workspace, Temp}, req.workdir, "rw")
FiveOptions(req) ==
    {Both(Starts(req)), <<Word("--name"), Word("name")>>,
     Both(Limit("cpus", req.policy.millicores)), Both(Limit("memory", req.policy.memory))}

FrontOptions(req) ==
    NetOptions(req) \cup WorkOptions(req) \cup RoOptions(req) \cup RwOptions(req)
    \cup {<<Word("--tmpfs"), Word("/tmp")>>} \cup EnvOptions(req.env)

\* The network, the working directory and /tmp of build_run_args.
LEMMA NetWorkTmpPart ==
    ASSUME NEW req
    PROVE  /\ Part(NetPart(req), NetOptions(req), <<>>)
           /\ Part(WorkPart(req), WorkOptions(req), <<>>) /\ Plain(WorkPart(req))
           /\ Part(TmpPart, {<<Word("--tmpfs"), Word("/tmp")>>}, <<>>) /\ Plain(TmpPart)
           /\ req.policy.network = "unrestricted" => Plain(NetPart(req))
<1>. DEFINE v == Volume(req.workdir, Workspace.path, "rw")
<1>1. /\ Word("--network") \in TakesValue /\ Word("--network") # Word("-e")
      /\ Word("-v") \in TakesValue /\ Word("-v") # Word("-e")
      /\ Word("-w") \in TakesValue /\ Word("-w") # Word("-e")
      /\ Word("--tmpfs") \in TakesValue /\ Word("--tmpfs") # Word("-e")
  BY KindsDiffer DEF TakesValue
<1>2. \A t \in TakesValue : \A x : t # Word("-e") => Part(<<t, x>>, {<<t, x>>}, <<>>)
  BY PartTwo
<1>3. Part(NetPart(req), NetOptions(req), <<>>)
  BY <1>1, <1>2, PartNone DEF NetPart, NetOptions
<1>4. Part(TmpPart, {<<Word("--tmpfs"), Word("/tmp")>>}, <<>>)
  BY <1>1, <1>2 DEF TmpPart
<1>5. /\ Word("-v") # Image /\ Word("-v") # Word("--network")
      /\ Word("-w") # Image /\ Word("-w") # Word("--network")
      /\ Word("/workspace") # Image /\ Word("/workspace") # Word("--network")
      /\ Word("--tmpfs") # Image /\ Word("--tmpfs") # Word("--network")
      /\ Word("/tmp") # Image /\ Word("/tmp") # Word("--network")
      /\ v # Image /\ v # Word("--network")
  BY PlainWords
<1>6. Plain(TmpPart)
  BY <1>5, PlainTuples DEF TmpPart
<1>7. Part(WorkPart(req), WorkOptions(req), <<>>) /\ Plain(WorkPart(req))
  <2>1. CASE ~req.policy.workdir
    BY <2>1, PartNone, PlainTuples DEF WorkPart, WorkOptions
  <2>2. CASE req.policy.workdir
    <3>. DEFINE a == <<Word("-v"), v>>
                b == <<Word("-w"), Word("/workspace")>>
    <3>1. Part(a, {a}, <<>>) /\ Part(b, {b}, <<>>) /\ Plain(a) /\ Plain(b)
      BY <1>1, <1>2, <1>5, PlainTuples
    <3>2. WorkPart(req) = Cat(a, b) /\ WorkOptions(req) = {a, b}
      BY <2>2 DEF WorkPart, WorkOptions
    <3>. HIDE DEF a, b
    <3>3. Part(Cat(a, b), {a} \cup {b}, Cat(<<>>, <<>>)) /\ Plain(Cat(a, b))
      BY <3>1, PartConcat, PlainConcat
    <3>4. Cat(<<>>, <<>>) = <<>> /\ {a} \cup {b} = {a, b}
      BY ConcatEmpty, TupleIsSeq
    <3>. QED
      BY <3>2, <3>3, <3>4
  <2>. QED
    BY <2>1, <2>2
<1>8. req.policy.network = "unrestricted" => Plain(NetPart(req))
  BY PlainTuples DEF NetPart
<1>. QED
  BY <1>3, <1>4, <1>6, <1>7, <1>8

\* --rm or -d, the name and the limits of build_run_args.
LEMMA FivePart ==
    ASSUME NEW req
    PROVE  Part(Five(req), FiveOptions(req), <<>>) /\ Plain(Five(req))
<1>. DEFINE s == Starts(req)
            c == Limit("cpus", req.policy.millicores)
            l == Limit("memory", req.policy.memory)
            n == <<Word("--name"), Word("name")>>
<1>1. s \in Flags /\ Plain(<<s>>)
  <2>1. s = Word("--rm") \/ s = Word("-d")
    BY DEF Starts
  <2>2. s \in Flags
    BY <2>1 DEF Flags
  <2>3. s # Image /\ s # Word("--network")
    BY <2>1, PlainWords
  <2>. QED
    BY <2>2, <2>3, PlainTuples
<1>2. c[1] = "limit" /\ l[1] = "limit" /\ (\A w : c # Word(w)) /\ (\A w : l # Word(w))
  BY KindsDiffer DEF Limit
<1>3. Plain(<<c>>) /\ Plain(<<l>>)
  <2>1. c # Image /\ c # Word("--network") /\ l # Image /\ l # Word("--network")
    BY PlainWords
  <2>. QED
    BY <2>1, PlainTuples
<1>4. Part(n, {n}, <<>>) /\ Plain(n)
  <2>1. Word("--name") \in TakesValue /\ Word("--name") # Word("-e")
    BY KindsDiffer DEF TakesValue
  <2>2. Word("--name") # Image /\ Word("--name") # Word("--network")
        /\ Word("name") # Image /\ Word("name") # Word("--network")
    BY PlainWords
  <2>. QED
    BY <2>1, <2>2, PartTwo, PlainTuples
<1>. HIDE DEF s, c, l, n
<1>5. Part(<<s>>, {Both(s)}, <<>>) /\ Part(<<c>>, {Both(c)}, <<>>) /\ Part(<<l>>, {Both(l)}, <<>>)
  BY <1>1, <1>2, PartOne DEF Both
<1>6. Cat(<<>>, <<>>) = <<>>
  BY ConcatEmpty, TupleIsSeq
<1>7. Part(Cat(<<c>>, <<l>>), {Both(c)} \cup {Both(l)}, <<>>) /\ Plain(Cat(<<c>>, <<l>>))
  <2>1. Part(Cat(<<c>>, <<l>>), {Both(c)} \cup {Both(l)}, Cat(<<>>, <<>>))
    BY <1>5, PartConcat, Zenon
  <2>. QED
    BY <1>3, <1>6, <2>1, PlainConcat
<1>. DEFINE cl == Cat(<<c>>, <<l>>)
            ncl == Cat(n, cl)
<1>8. Part(ncl, {n} \cup ({Both(c)} \cup {Both(l)}), <<>>) /\ Plain(ncl)
  <2>. HIDE DEF cl
  <2>1. Part(cl, {Both(c)} \cup {Both(l)}, <<>>) /\ Plain(cl)
    BY <1>7 DEF cl
  <2>2. Part(ncl, {n} \cup ({Both(c)} \cup {Both(l)}), Cat(<<>>, <<>>))
    BY <1>4, <2>1, PartConcat, Zenon
  <2>. QED
    BY <1>4, <1>6, <2>1, <2>2, PlainConcat
<1>9. Part(Cat(<<s>>, ncl), {Both(s)} \cup ({n} \cup ({Both(c)} \cup {Both(l)})), <<>>)
      /\ Plain(Cat(<<s>>, ncl))
  <2>. HIDE DEF ncl
  <2>1. Part(Cat(<<s>>, ncl), {Both(s)} \cup ({n} \cup ({Both(c)} \cup {Both(l)})), Cat(<<>>, <<>>))
    BY <1>5, <1>8, PartConcat, Zenon
  <2>. QED
    BY <1>1, <1>6, <1>8, <2>1, PlainConcat
<1>10. {Both(s)} \cup ({n} \cup ({Both(c)} \cup {Both(l)})) = {Both(s), n, Both(c), Both(l)}
  OBVIOUS
<1>. QED
  BY <1>9, <1>10 DEF Five, FiveOptions, s, c, l, n

\* All that stands before the image, whatever it begins with.
LEMMA FrontPart ==
    ASSUME NEW req, IsRequest(req), NEW first, NEW R, NEW E, Part(first, R, E)
    PROVE  Part(Lead(first, req), R \cup FrontOptions(req), Cat(E, PairsOf(req.env)))
<1>. DEFINE c == NetPart(req)
            d == WorkPart(req)
            e == RoPart(req)
            f == RwPart(req)
            g == TmpPart
            h == EnvArgs(req.env)
            C == NetOptions(req)
            D == WorkOptions(req)
            F == RoOptions(req)
            G == RwOptions(req)
            H == {<<Word("--tmpfs"), Word("/tmp")>>}
            I == EnvOptions(req.env)
            P == PairsOf(req.env)
<1>1. Part(c, C, <<>>) /\ Part(d, D, <<>>) /\ Part(g, H, <<>>)
  BY NetWorkTmpPart
<1>2. Part(e, F, <<>>) /\ Part(f, G, <<>>)
  BY MountPart DEF IsRequest, RoPart, RwPart, RoOptions, RwOptions
<1>3. Part(h, I, P)
  BY EnvPart DEF IsRequest
<1>4. Lead(first, req) = Cat(Cat(Cat(Cat(Cat(Cat(first, c), d), e), f), g), h)
  BY DEF Lead
<1>5. R \cup FrontOptions(req) = ((((((R \cup C) \cup D) \cup F) \cup G) \cup H) \cup I)
  BY DEF FrontOptions
<1>. HIDE DEF c, d, e, f, g, h, C, D, F, G, H, I, P
<1>6. IsSeq(E)
  BY PartIsSeq
<1>7. Cat(E, <<>>) = E
  BY <1>6, ConcatEmpty
<1>8. ASSUME NEW a, NEW b, NEW S, NEW T, Part(a, S, E), Part(b, T, <<>>)
      PROVE  Part(Cat(a, b), S \cup T, E)
  BY <1>7, <1>8, PartConcat, Zenon
<1>9. Part(Cat(first, c), R \cup C, E)
  BY <1>1, <1>8
<1>10. Part(Cat(Cat(first, c), d), (R \cup C) \cup D, E)
  BY <1>1, <1>8, <1>9
<1>11. Part(Cat(Cat(Cat(first, c), d), e), ((R \cup C) \cup D) \cup F, E)
  BY <1>2, <1>8, <1>10
<1>12. Part(Cat(Cat(Cat(Cat(first, c), d), e), f), (((R \cup C) \cup D) \cup F) \cup G, E)
  BY <1>2, <1>8, <1>11
<1>13. Part(Cat(Cat(Cat(Cat(Cat(first, c), d), e), f), g),
            ((((R \cup C) \cup D) \cup F) \cup G) \cup H, E)
  BY <1>1, <1>8, <1>12
<1>14. Part(Cat(Cat(Cat(Cat(Cat(Cat(first, c), d), e), f), g), h),
            (((((R \cup C) \cup D) \cup F) \cup G) \cup H) \cup I, Cat(E, P))
  BY <1>3, <1>13, PartConcat, Zenon
<1>. QED
  BY <1>4, <1>5, <1>14 DEF P

\* With an unrestricted network no --network stands before the image.
LEMMA FrontPlain ==
    ASSUME NEW req, IsRequest(req), NEW first, Plain(first), req.policy.network = "unrestricted"
    PROVE  Plain(Lead(first, req))
<1>1. Plain(NetPart(req)) /\ Plain(WorkPart(req)) /\ Plain(TmpPart)
  BY NetWorkTmpPart
<1>2. Plain(RoPart(req)) /\ Plain(RwPart(req))
  BY MountPart DEF IsRequest, RoPart, RwPart
<1>3. Plain(EnvArgs(req.env))
  BY EnvPart DEF IsRequest
<1>. QED
  BY <1>1, <1>2, <1>3, PlainConcat DEF Lead

RunOption == Both(Word("run"))
HostOption == <<Word("--add-host"), Word("gateway")>>
NoProxy == Pair("NO_PROXY", <<"text", "localhost">>)
ProxyEnv(port) == [v \in ProxyVars |-> Url("gateway", port)]

\* The words of a command give the command back.
LEMMA WordsFacts ==
    ASSUME NEW c, IsSeq(c)
    PROVE  /\ IsSeq(Words(c)) /\ DOMAIN Words(c) = DOMAIN c
           /\ [i \in DOMAIN Words(c) |-> Words(c)[i][2]] = c
           /\ \A a \in Range(Words(c)) : a = Word(a[2])
<1>. DEFINE w == Words(c)
            n == Len(c)
<1>1. n \in Nat /\ DOMAIN c = 1 .. n /\ c = [i \in 1 .. n |-> c[i]]
  BY SeqFacts
<1>2. w = [i \in 1 .. n |-> w[i]] /\ \A i \in 1 .. n : w[i] = Word(c[i])
  BY <1>1 DEF Words
<1>. HIDE DEF w, n
<1>3. IsSeq(w) /\ DOMAIN w = 1 .. n
  BY <1>1, <1>2, FunctionIsSeq
<1>4. \A i \in 1 .. n : w[i][2] = c[i]
  BY <1>2 DEF Word
<1>5. [i \in DOMAIN w |-> w[i][2]] = c
  BY <1>1, <1>3, <1>4
<1>6. \A a \in Range(w) : a = Word(a[2])
  BY <1>2, <1>3, <1>4 DEF Range
<1>. QED
  BY <1>1, <1>3, <1>5, <1>6 DEF w

\* A command, or the default one, is a sequence.
LEMMA CommandIsSeq == \A req : IsSeq(req.command) => IsSeq(CommandOf(req))
BY TupleIsSeq DEF CommandOf

\* Options and the image make a container's options and command.
ParsesTo(args, options, pairs, command) ==
    \E os : /\ IsSeq(os) /\ Range(os) = options /\ Values(os, "-e") = pairs
            /\ Parsed(args) = Read(os, command)

\* Options, the image and words parse to a container's options and command.
LEMMA PartIsParsed ==
    ASSUME NEW h, NEW R, NEW E, NEW w, Part(h, R, E), IsSeq(w)
    PROVE  ParsesTo(Cat(h, Cat(<<Image>>, w)), R, E, [i \in DOMAIN w |-> w[i][2]])
<1>1. PICK os : Opts(h, os) /\ Range(os) = R /\ Values(os, "-e") = E
  BY DEF Part
<1>2. IsSeq(os)
  BY <1>1 DEF Opts
<1>3. Parsed(Cat(h, Cat(<<Image>>, w))) = Read(os, [i \in DOMAIN w |-> w[i][2]])
  BY <1>1, ParsedWhole
<1>. QED
  BY <1>1, <1>2, <1>3 DEF ParsesTo

\* How the engine reads what build_run_args gives it.
LEMMA BuildParsed ==
    ASSUME NEW req, IsRequest(req)
    PROVE  ParsesTo(BuildRunArgs(req), {RunOption} \cup FiveOptions(req) \cup FrontOptions(req),
                    PairsOf(req.env), CommandOf(req))
<1>. DEFINE r == Word("run")
            first == Cat(<<r>>, Five(req))
            w == Words(CommandOf(req))
<1>1. Part(first, {RunOption} \cup FiveOptions(req), <<>>)
  <2>1. Part(<<r>>, {RunOption}, <<>>)
    BY PartOne DEF Flags, RunOption, Both
  <2>2. Part(first, {RunOption} \cup FiveOptions(req), Cat(<<>>, <<>>))
    BY <2>1, FivePart, PartConcat, Zenon
  <2>. QED
    BY <2>2, ConcatEmpty, TupleIsSeq
<1>2. IsSeq(w) /\ [i \in DOMAIN w |-> w[i][2]] = CommandOf(req)
  BY CommandIsSeq, WordsFacts DEF IsRequest
<1>. HIDE DEF first
<1>3. IsSeq(PairsOf(req.env))
  <2>1. Part(EnvArgs(req.env), EnvOptions(req.env), PairsOf(req.env))
    BY EnvPart DEF IsRequest
  <2>. QED
    BY <2>1, PartIsSeq
<1>4. Part(Lead(first, req), {RunOption} \cup FiveOptions(req) \cup FrontOptions(req), PairsOf(req.env))
  <2>1. Part(Lead(first, req), ({RunOption} \cup FiveOptions(req)) \cup FrontOptions(req),
             Cat(<<>>, PairsOf(req.env)))
    BY <1>1, FrontPart
  <2>. QED
    BY <1>3, <2>1, ConcatEmpty
<1>. HIDE DEF w
<1>5. BuildRunArgs(req) = Cat(Lead(first, req), Cat(<<Image>>, w))
  <2>1. IsSeq(Lead(first, req))
    BY <1>4, PartIsSeq
  <2>. QED
    BY <1>2, <2>1, BuildShape DEF first, w
<1>. QED
  BY <1>2, <1>4, <1>5, PartIsParsed

\* The request as build_allowlist_args passes it on.
Opened(req) == [req EXCEPT !.policy.network = "unrestricted"]

\* Only the network of a request is changed.
LEMMA OpenedFields ==
    ASSUME NEW req, IsRequest(req)
    PROVE  /\ IsRequest(Opened(req)) /\ Opened(req).policy.network = "unrestricted"
           /\ Opened(req).workdir = req.workdir /\ Opened(req).env = req.env
           /\ Opened(req).command = req.command /\ Opened(req).ephemeral = req.ephemeral
           /\ Opened(req).policy.workdir = req.policy.workdir
           /\ Opened(req).policy.read_only = req.policy.read_only
           /\ Opened(req).policy.read_write = req.policy.read_write
           /\ Opened(req).policy.millicores = req.policy.millicores
           /\ Opened(req).policy.memory = req.policy.memory
BY DEF IsRequest, Opened

\* The variables that build_allowlist_args adds: the proxy's, and NO_PROXY.
LEMMA ProxyPart ==
    ASSUME NEW port
    PROVE  /\ Part(ProxyArgs(port), EnvOptions(ProxyEnv(port)) \cup {<<Word("-e"), NoProxy>>},
                   Cat(PairsOf(ProxyEnv(port)), <<NoProxy>>))
           /\ IsFiniteSet(DOMAIN ProxyEnv(port))
<1>1. IsFiniteSet(DOMAIN ProxyEnv(port))
  <2>1. DOMAIN ProxyEnv(port) = ProxyVars
    BY DEF ProxyEnv
  <2>2. \A a : IsFiniteSet({a})
    BY FS_Singleton
  <2>3. \A S, T : IsFiniteSet(S) /\ IsFiniteSet(T) => IsFiniteSet(S \cup T)
    BY FS_Union
  <2>4. ProxyVars = (({"HTTP_PROXY"} \cup {"HTTPS_PROXY"}) \cup {"http_proxy"}) \cup {"https_proxy"}
    BY DEF ProxyVars
  <2>5. IsFiniteSet((({"HTTP_PROXY"} \cup {"HTTPS_PROXY"}) \cup {"http_proxy"}) \cup {"https_proxy"})
    BY <2>2, <2>3, Zenon
  <2>. QED
    BY <2>1, <2>4, <2>5
<1>2. Part(EnvArgs(ProxyEnv(port)), EnvOptions(ProxyEnv(port)), PairsOf(ProxyEnv(port)))
  BY <1>1, EnvPart
<1>3. Part(<<Word("-e"), NoProxy>>, {<<Word("-e"), NoProxy>>}, <<NoProxy>>)
  <2>1. Word("-e") \in TakesValue
    BY DEF TakesValue
  <2>. QED
    BY <2>1, PartTwo
<1>4. ProxyArgs(port) = Cat(EnvArgs(ProxyEnv(port)), <<Word("-e"), NoProxy>>)
  BY Zenon DEF ProxyArgs, ProxyEnv, NoProxy, Cat
<1>. QED
  BY <1>1, <1>2, <1>3, <1>4, PartConcat

\* How the engine reads what build_allowlist_args gives it: the request's options
\* and the proxy's, put in before the image, and the command without --network.
LEMMA AllowlistParsed ==
    ASSUME NEW req, IsRequest(req), NEW port, port # 0
    PROVE  LET q == Opened(req)
               w == Cleaned(Words(CommandOf(req)))
           IN  ParsesTo(BuildAllowlistArgs(req, port),
                        {RunOption, HostOption} \cup (FiveOptions(q) \cup FrontOptions(q))
                            \cup (EnvOptions(ProxyEnv(port)) \cup {<<Word("-e"), NoProxy>>}),
                        Cat(PairsOf(req.env), Cat(PairsOf(ProxyEnv(port)), <<NoProxy>>)),
                        [i \in DOMAIN w |-> w[i][2]])
<1>. DEFINE q == Opened(req)
            r == Word("run")
            host == <<Word("--add-host"), Word("gateway")>>
            v == Words(CommandOf(req))
            w == Cleaned(v)
            i == Cat(<<Image>>, w)
            f == Lead(Five(q), q)
            three == Cat(<<r>>, host)
            h == Cat(three, f)
            p == ProxyArgs(port)
<1>1. IsRequest(q) /\ q.policy.network = "unrestricted" /\ q.env = req.env /\ CommandOf(q) = CommandOf(req)
  BY OpenedFields DEF CommandOf
<1>2. IsSeq(v) /\ IsSeq(w) /\ IsSeq(<<Image>>) /\ IsSeq(i)
  <2>1. IsSeq(v)
    BY CommandIsSeq, WordsFacts DEF IsRequest
  <2>2. IsSeq(w)
    BY <2>1, CleanTail, TupleIsSeq
  <2>3. IsSeq(<<Image>>)
    BY TupleIsSeq, Zenon
  <2>. QED
    BY <2>1, <2>2, <2>3, ConcatFacts
<1>3. /\ r # Image /\ r # Word("--network")
      /\ Word("--add-host") # Image /\ Word("--add-host") # Word("--network")
      /\ Word("gateway") # Image /\ Word("gateway") # Word("--network")
  BY PlainWords
<1>4. Plain(<<r>>) /\ Plain(host) /\ Plain(three)
  BY <1>3, PlainTuples, PlainConcat
<1>5. Part(three, {RunOption, HostOption}, <<>>)
  <2>1. Part(<<r>>, {RunOption}, <<>>)
    BY PartOne DEF Flags, RunOption, Both
  <2>2. Word("--add-host") \in TakesValue /\ Word("--add-host") # Word("-e")
    BY KindsDiffer DEF TakesValue
  <2>3. Part(host, {HostOption}, <<>>)
    BY <2>2, PartTwo DEF HostOption
  <2>. HIDE DEF host
  <2>4. Part(three, {RunOption} \cup {HostOption}, Cat(<<>>, <<>>))
    BY <2>1, <2>3, PartConcat, Zenon
  <2>5. {RunOption} \cup {HostOption} = {RunOption, HostOption}
    OBVIOUS
  <2>. QED
    BY <2>4, <2>5, ConcatEmpty, TupleIsSeq
<1>6. Part(f, FiveOptions(q) \cup FrontOptions(q), PairsOf(req.env)) /\ Plain(f)
  <2>1. Part(f, FiveOptions(q) \cup FrontOptions(q), Cat(<<>>, PairsOf(q.env)))
    BY <1>1, FivePart, FrontPart
  <2>2. IsSeq(PairsOf(q.env))
    <3>1. Part(EnvArgs(q.env), EnvOptions(q.env), PairsOf(q.env))
      BY <1>1, EnvPart DEF IsRequest
    <3>. QED
      BY <3>1, PartIsSeq
  <2>3. Plain(f)
    BY <1>1, FivePart, FrontPlain
  <2>. QED
    BY <1>1, <2>1, <2>2, <2>3, ConcatEmpty
<1>7. Part(p, EnvOptions(ProxyEnv(port)) \cup {<<Word("-e"), NoProxy>>},
           Cat(PairsOf(ProxyEnv(port)), <<NoProxy>>))
  BY ProxyPart
\* What is cleaned.
<1>8. BuildRunArgs(q) = Cat(Cat(<<r>>, f), Cat(<<Image>>, v))
  <2>1. Part(Five(q), FiveOptions(q), <<>>)
    BY FivePart
  <2>2. IsSeq(<<r>>) /\ IsSeq(Five(q))
    BY <1>4, <2>1, PartIsSeq DEF Plain
  <2>3. Lead(Cat(<<r>>, Five(q)), q) = Cat(<<r>>, f)
    <3>1. IsSeq(NetPart(q)) /\ IsSeq(WorkPart(q))
      BY NetWorkTmpPart, PartIsSeq
    <3>2. IsSeq(RoPart(q)) /\ IsSeq(RwPart(q)) /\ IsSeq(EnvArgs(q.env))
      BY <1>1, MountPart, EnvPart DEF IsRequest, RoPart, RwPart, Plain
    <3>. QED
      BY <2>2, <3>1, <3>2, FrontOfConcat
  <2>4. IsSeq(Cat(<<r>>, f))
    BY <1>4, <1>6, ConcatFacts DEF Plain
  <2>. QED
    BY <1>1, <1>2, <2>3, <2>4, BuildShape
<1>9. Cleaned(BuildRunArgs(q)) = Cat(Cat(<<r>>, f), i)
  <2>1. Plain(Cat(<<r>>, f))
    BY <1>4, <1>6, PlainConcat
  <2>. QED
    BY <1>2, <1>8, <2>1, CleanedWhole DEF Plain
\* What is put in after its first word.
<1>10. IsSeq(<<r>>) /\ IsSeq(host) /\ IsSeq(three) /\ IsSeq(f) /\ IsSeq(h) /\ IsSeq(Cat(f, i))
  <2>1. IsSeq(<<r>>) /\ IsSeq(host) /\ IsSeq(three) /\ IsSeq(f)
    BY <1>4, <1>6 DEF Plain
  <2>. HIDE DEF f, three, i
  <2>. QED
    BY <1>2, <2>1, ConcatFacts
<1>. HIDE DEF f, i, w, v, p, q
<1>11. Cat(Cat(<<r>>, f), i) = Cat(<<r>>, Cat(f, i))
  BY <1>2, <1>10, ConcatAssoc
<1>. DEFINE args == Cleaned(BuildRunArgs(q))
<1>12. Head(args) = r /\ Tail(args) = Cat(f, i)
  BY <1>9, <1>10, <1>11, HeadTail
<1>13. <<r, Word("--add-host"), Word("gateway")>> = three
  BY OneMore3
<1>. DEFINE open == <<Head(args), Word("--add-host"), Word("gateway")>> \o Tail(args)
<1>. HIDE DEF args, three
<1>14. open = Cat(h, i)
  <2>1. open = Cat(three, Cat(f, i))
    BY <1>12, <1>13, Zenon DEF Cat
  <2>. QED
    BY <1>2, <1>10, <2>1, ConcatAssoc
<1>15. Image \notin Range(h)
  <2>1. Plain(h)
    BY <1>4, <1>6, PlainConcat
  <2>. QED
    BY <2>1 DEF Plain
<1>. HIDE DEF open, h
<1>. DEFINE at == SelectInSeq(open, LAMBDA a : a = Image)
<1>16. at = Len(h) + 1 /\ Len(h) \in Nat
  BY <1>2, <1>10, <1>14, <1>15, FirstImage, SeqFacts DEF i
<1>17. SubSeq(open, 1, Len(h)) = h /\ SubSeq(open, Len(h) + 1, Len(open)) = i
  BY <1>2, <1>10, <1>14, SubSeqOfConcat
<1>18. BuildAllowlistArgs(req, port) = SubSeq(open, 1, at - 1) \o p \o SubSeq(open, at, Len(open))
  BY DEF BuildAllowlistArgs, open, args, q, p, Opened
<1>. HIDE DEF at
<1>19. at - 1 = Len(h)
  BY <1>16
<1>20. BuildAllowlistArgs(req, port) = Cat(Cat(h, p), i)
  BY <1>16, <1>17, <1>18, <1>19, Zenon DEF Cat
<1>21. Part(h, {RunOption, HostOption} \cup (FiveOptions(q) \cup FrontOptions(q)), PairsOf(req.env))
  <2>1. Part(h, {RunOption, HostOption} \cup (FiveOptions(q) \cup FrontOptions(q)),
             Cat(<<>>, PairsOf(req.env)))
    BY <1>5, <1>6, PartConcat, Zenon DEF h
  <2>2. IsSeq(PairsOf(req.env))
    BY <1>6, PartIsSeq
  <2>. QED
    BY <2>1, <2>2, ConcatEmpty
<1>22. Part(Cat(h, p), ({RunOption, HostOption} \cup (FiveOptions(q) \cup FrontOptions(q)))
                         \cup (EnvOptions(ProxyEnv(port)) \cup {<<Word("-e"), NoProxy>>}),
            Cat(PairsOf(req.env), Cat(PairsOf(ProxyEnv(port)), <<NoProxy>>)))
  BY <1>7, <1>21, PartConcat, Zenon
<1>. QED
  BY <1>2, <1>20, <1>22, PartIsParsed DEF i, w, v, q

-----------------------------------------------------------------------------
(* The container *)

\* The values that options give to one of them.
Given(options, o) == {p[2] : p \in {q \in options : q[1] = Word(o)}}

LimitIn(options, r) == (CHOOSE pair \in options : pair[1][1] = "limit" /\ pair[1][2] = r)[1][3]

\* The container that options and a command make.
LEMMA ContainerOfParsed ==
    ASSUME NEW args, NEW R, NEW E, NEW command, ParsesTo(args, R, E, command)
    PROVE  LET c == ContainerOf(args)
           IN  /\ c.read = Below(Real({v[2] : v \in Given(R, "-v")}))
               /\ c.write = Below(Real({v[2] : v \in {w \in Given(R, "-v") : w[4] = "rw"}}))
               /\ c.net = IF Word("none") \in Given(R, "--network") THEN {} ELSE {"host", "outside"}
               /\ c.env = EnvFrom(<<>>, E)
               /\ c.cwd = IF Given(R, "-w") = {} THEN "image" ELSE "workspace"
               /\ c.cpus = LimitIn(R, "cpus") /\ c.memory = LimitIn(R, "memory")
               /\ c.command = command
               /\ DOMAIN c = {"read", "write", "net", "env", "cwd", "cpus", "memory", "command"}
<1>1. PICK os : /\ IsSeq(os) /\ Range(os) = R /\ Values(os, "-e") = E
                /\ Parsed(args) = Read(os, command)
  BY DEF ParsesTo
<1>2. Parsed(args).options = os /\ Parsed(args).command = command
  BY <1>1 DEF Read
<1>3. \A o : Range(Values(os, o)) = Given(R, o) /\ IsSeq(Values(os, o))
  BY <1>1, ValuesFacts DEF Given
<1>4. Values(os, "-w") = <<>> <=> Given(R, "-w") = {}
  BY <1>3, NoneIsEmpty, TupleRange
<1>5. ContainerOf(args) =
        [read  |-> Below(Real({v[2] : v \in Given(R, "-v")})),
         write |-> Below(Real({v[2] : v \in {w \in Given(R, "-v") : w[4] = "rw"}})),
         net   |-> IF Word("none") \in Given(R, "--network") THEN {} ELSE {"host", "outside"},
         env   |-> EnvFrom(<<>>, E),
         cwd   |-> IF Values(os, "-w") = <<>> THEN "image" ELSE "workspace",
         cpus  |-> LimitIn(R, "cpus"), memory |-> LimitIn(R, "memory"),
         command |-> command]
  BY <1>1, <1>2, <1>3 DEF ContainerOf, EnvFrom, LimitIn
<1>. QED
  BY <1>4, <1>5

\* The values that a set of options gives.
LEMMA GivenFacts ==
    /\ \A A, B, o : Given(A \cup B, o) = Given(A, o) \cup Given(B, o)
    /\ \A A, o : (\A p \in A : p[1] # Word(o)) => Given(A, o) = {}
    /\ \A A, o : (\A p \in A : p[1] = Word(o)) => Given(A, o) = {p[2] : p \in A}
    /\ \A o : Given({}, o) = {}
    /\ \A a, b, o : Given({<<a, b>>}, o) = IF a = Word(o) THEN {b} ELSE {}
<1>1. \A A, B, o : Given(A \cup B, o) = Given(A, o) \cup Given(B, o)
  BY DEF Given
<1>2. \A A, o : (\A p \in A : p[1] # Word(o)) => Given(A, o) = {}
  BY DEF Given
<1>3. \A A, o : (\A p \in A : p[1] = Word(o)) => Given(A, o) = {p[2] : p \in A}
  BY DEF Given
<1>4. ASSUME NEW a, NEW b, NEW o PROVE Given({<<a, b>>}, o) = IF a = Word(o) THEN {b} ELSE {}
  <2>. DEFINE p == <<a, b>>
  <2>1. p[1] = a /\ p[2] = b
    OBVIOUS
  <2>. HIDE DEF p
  <2>2. Given({p}, o) = IF a = Word(o) THEN {b} ELSE {}
    BY <2>1 DEF Given
  <2>. QED
    BY <2>2 DEF p
<1>5. \A o : Given({}, o) = {}
  BY DEF Given
<1>. QED
  BY <1>1, <1>2, <1>3, <1>4, <1>5

\* Options that say nothing of volumes, network, directory and limits.
Other(options) ==
    \A p \in options : \E w : p[1] = Word(w) /\ w \notin {"-v", "-w", "--network"}

\* Mounts give volumes of one mode.
LEMMA MountedGiven ==
    ASSUME NEW ps, NEW skipped, NEW w, NEW mode
    PROVE  LET M == Mounted(ps, skipped, w, mode)
           IN  /\ \A p \in M : p[1] = Word("-v")
               /\ \A v \in Given(M, "-v") : v[4] = mode
<1>1. ASSUME NEW p \in Mounted(ps, skipped, w, mode) PROVE p[1] = Word("-v") /\ p[2][4] = mode
  BY <1>1 DEF Mounted, MountSpec, Volume
<1>. QED
  BY <1>1 DEF Given

\* The directories that mount_spec mounts.
Dirs(ps, skipped, w) ==
    {Resolve(ps[i], w) : i \in {j \in DOMAIN ps :
        /\ ps[j] \notin skipped /\ ~StartsWithWorkspace(ps[j])
        /\ Exists(Resolve(ps[j], w)) /\ HasFileName(Resolve(ps[j], w))}}

\* And the volumes are of the directories that mount_spec mounts.
LEMMA MountedDirs ==
    ASSUME NEW ps, NEW skipped, NEW w, NEW mode
    PROVE  {v[2] : v \in Given(Mounted(ps, skipped, w, mode), "-v")} = Dirs(ps, skipped, w)
<1>. DEFINE M == Mounted(ps, skipped, w, mode)
            D == Dirs(ps, skipped, w)
            J == {j \in DOMAIN ps :
                    /\ ps[j] \notin skipped /\ ~StartsWithWorkspace(ps[j])
                    /\ Exists(Resolve(ps[j], w)) /\ HasFileName(Resolve(ps[j], w))}
<1>1. Given(M, "-v") = {p[2] : p \in M}
  BY MountedGiven, GivenFacts
<1>2. ASSUME NEW p \in M PROVE p[2][2] \in D
  <2>1. PICK i \in DOMAIN ps : ps[i] \notin skipped /\ p = MountSpec(ps[i], w, mode) /\ p # <<>>
    BY <1>2 DEF Mounted
  <2>2. /\ ~StartsWithWorkspace(ps[i]) /\ p[2][2] = Resolve(ps[i], w)
        /\ Exists(Resolve(ps[i], w)) /\ HasFileName(Resolve(ps[i], w))
    BY <2>1 DEF MountSpec, Volume
  <2>. QED
    BY <2>1, <2>2 DEF Dirs
<1>3. ASSUME NEW i \in J PROVE \E p \in M : p[2][2] = Resolve(ps[i], w)
  <2>. DEFINE p == MountSpec(ps[i], w, mode)
  <2>1. p # <<>> /\ p[2][2] = Resolve(ps[i], w)
    BY <1>3 DEF MountSpec, Volume
  <2>2. p \in M
    BY <1>3, <2>1 DEF Mounted
  <2>. QED
    BY <2>1, <2>2
<1>. HIDE DEF M
<1>4. {v[2] : v \in Given(M, "-v")} \subseteq D
  BY <1>1, <1>2
<1>5. D \subseteq {v[2] : v \in Given(M, "-v")}
  BY <1>1, <1>3 DEF Dirs
<1>. QED
  BY <1>4, <1>5 DEF M

WorkDirs(req) == IF req.policy.workdir THEN {req.workdir} ELSE {}
RoDirs(req) == Dirs(req.policy.read_only, {}, req.workdir)
RwDirs(req) == Dirs(req.policy.read_write, {Workspace, Temp}, req.workdir)

\* What the options of a request come to, whatever the others are beside them.
LEMMA OptionsGive ==
    ASSUME NEW req, NEW X, Other(X)
    PROVE  LET R == X \cup (FiveOptions(req) \cup FrontOptions(req))
           IN  /\ {v[2] : v \in Given(R, "-v")} = WorkDirs(req) \cup RoDirs(req) \cup RwDirs(req)
               /\ {v[2] : v \in {w \in Given(R, "-v") : w[4] = "rw"}} = WorkDirs(req) \cup RwDirs(req)
               /\ Word("none") \in Given(R, "--network") <=> req.policy.network # "unrestricted"
               /\ Given(R, "-w") = {} <=> ~req.policy.workdir
               /\ LimitIn(R, "cpus") = req.policy.millicores
               /\ LimitIn(R, "memory") = req.policy.memory
<1>. DEFINE A == FiveOptions(req)
            N == NetOptions(req)
            W == WorkOptions(req)
            Ro == RoOptions(req)
            Rw == RwOptions(req)
            T == {<<Word("--tmpfs"), Word("/tmp")>>}
            E == EnvOptions(req.env)
            cpus == Limit("cpus", req.policy.millicores)
            memory == Limit("memory", req.policy.memory)
            work == Volume(req.workdir, Workspace.path, "rw")
            R == X \cup (A \cup FrontOptions(req))
<1>1. R = X \cup A \cup N \cup W \cup Ro \cup Rw \cup T \cup E
  BY DEF FrontOptions
<1>2. \A p \in A : \/ p \in {Both(cpus), Both(memory)}
                   \/ \E w : p[1] = Word(w) /\ w \notin {"-v", "-w", "--network"}
  BY DEF FiveOptions, Both, Starts
<1>3. \A p \in N : p[1] = Word("--network")
  BY DEF NetOptions
<1>4. \A p \in Ro \cup Rw : p[1] = Word("-v")
  BY MountedGiven DEF RoOptions, RwOptions
<1>5. \A p \in T : p[1] = Word("--tmpfs")
  OBVIOUS
<1>6. \A p \in E : p[1] = Word("-e")
  BY DEF EnvOptions
<1>7. \A p \in {Both(cpus), Both(memory)} : \A w : p[1] # Word(w)
  BY KindsDiffer DEF Both
<1>8. \A p \in X : \E w : p[1] = Word(w) /\ w \notin {"-v", "-w", "--network"}
  BY DEF Other
<1>9. /\ Word("-v") # Word("-w") /\ Word("-v") # Word("--network") /\ Word("-v") # Word("--tmpfs")
      /\ Word("-v") # Word("-e") /\ Word("-w") # Word("--network") /\ Word("-w") # Word("--tmpfs")
      /\ Word("-w") # Word("-e") /\ Word("--network") # Word("--tmpfs") /\ Word("--network") # Word("-e")
      /\ \A w : w \notin {"-v", "-w", "--network"} =>
            Word(w) # Word("-v") /\ Word(w) # Word("-w") /\ Word(w) # Word("--network")
  BY KindsDiffer
<1>. HIDE DEF A, N, W, Ro, Rw, T, E, cpus, memory, work, R
<1>10. \A o \in {"-v", "-w", "--network"} :
          Given(X, o) = {} /\ Given(A, o) = {} /\ Given(T, o) = {} /\ Given(E, o) = {}
  <2>1. \A o \in {"-v", "-w", "--network"} : \A p \in X \cup A \cup T \cup E : p[1] # Word(o)
    BY <1>2, <1>5, <1>6, <1>7, <1>8, <1>9
  <2>. QED
    BY <2>1, GivenFacts
<1>11. \A o \in {"-v", "-w", "--network"} :
          Given(R, o) = Given(N, o) \cup Given(W, o) \cup Given(Ro, o) \cup Given(Rw, o)
  <2>. SUFFICES ASSUME NEW o \in {"-v", "-w", "--network"}
                PROVE  Given(R, o) = Given(N, o) \cup Given(W, o) \cup Given(Ro, o) \cup Given(Rw, o)
    OBVIOUS
  <2>1. Given(R, o) = Given(X, o) \cup Given(A, o) \cup Given(N, o) \cup Given(W, o)
                        \cup Given(Ro, o) \cup Given(Rw, o) \cup Given(T, o) \cup Given(E, o)
    BY <1>1 DEF Given
  <2>2. Given(X, o) = {} /\ Given(A, o) = {} /\ Given(T, o) = {} /\ Given(E, o) = {}
    BY <1>10
  <2>. QED
    BY <2>1, <2>2
<1>12. Given(N, "-v") = {} /\ Given(N, "-w") = {}
  BY <1>3, <1>9, GivenFacts
<1>13. Given(Ro, "-w") = {} /\ Given(Rw, "-w") = {} /\ Given(Ro, "--network") = {} /\ Given(Rw, "--network") = {}
  BY <1>4, <1>9, GivenFacts
<1>14. /\ Given(W, "--network") = {}
       /\ Given(W, "-v") = (IF req.policy.workdir THEN {work} ELSE {})
       /\ Given(W, "-w") = (IF req.policy.workdir THEN {Word("/workspace")} ELSE {})
  <2>1. CASE ~req.policy.workdir
    BY <2>1, GivenFacts DEF W, WorkOptions
  <2>2. CASE req.policy.workdir
    <3>. DEFINE a == <<Word("-v"), work>>
                b == <<Word("-w"), Word("/workspace")>>
    <3>1. W = {a} \cup {b}
      BY <2>2 DEF W, WorkOptions, work
    <3>2. \A o : Given(W, o) = Given({a}, o) \cup Given({b}, o)
      BY <3>1, GivenFacts
    <3>3. /\ \A o : Given({a}, o) = IF Word("-v") = Word(o) THEN {work} ELSE {}
          /\ \A o : Given({b}, o) = IF Word("-w") = Word(o) THEN {Word("/workspace")} ELSE {}
      BY GivenFacts
    <3>. QED
      BY <1>9, <2>2, <3>2, <3>3
  <2>. QED
    BY <2>1, <2>2
<1>15. Given(N, "--network") = (IF req.policy.network # "unrestricted" THEN {Word("none")} ELSE {})
  <2>. DEFINE a == Word("--network")
              b == Word("none")
  <2>1. Given({<<a, b>>}, "--network") = {b}
    <3>1. a = Word("--network")
      OBVIOUS
    <3>. HIDE DEF a, b
    <3>. QED
      BY <3>1, GivenFacts
  <2>2. Given({}, "--network") = {}
    BY GivenFacts
  <2>. QED
    BY <2>1, <2>2 DEF N, NetOptions
<1>16. work[2] = req.workdir /\ work[4] = "rw"
  BY DEF work, Volume
<1>17. /\ {v[2] : v \in Given(Ro, "-v")} = RoDirs(req) /\ \A v \in Given(Ro, "-v") : v[4] = "ro"
       /\ {v[2] : v \in Given(Rw, "-v")} = RwDirs(req) /\ \A v \in Given(Rw, "-v") : v[4] = "rw"
  BY MountedDirs, MountedGiven DEF Ro, Rw, RoOptions, RwOptions, RoDirs, RwDirs
<1>18. Given(R, "-v") = Given(W, "-v") \cup Given(Ro, "-v") \cup Given(Rw, "-v")
  BY <1>11, <1>12
<1>19. {v[2] : v \in Given(W, "-v")} = WorkDirs(req) /\ \A v \in Given(W, "-v") : v[4] = "rw"
  BY <1>14, <1>16 DEF WorkDirs
<1>20. {v[2] : v \in Given(R, "-v")} = WorkDirs(req) \cup RoDirs(req) \cup RwDirs(req)
  BY <1>17, <1>18, <1>19
<1>21. {v[2] : v \in {w \in Given(R, "-v") : w[4] = "rw"}} = WorkDirs(req) \cup RwDirs(req)
  <2>1. {w \in Given(R, "-v") : w[4] = "rw"} = Given(W, "-v") \cup Given(Rw, "-v")
    BY <1>17, <1>18, <1>19
  <2>. QED
    BY <1>17, <1>19, <2>1
<1>22. Word("none") \in Given(R, "--network") <=> req.policy.network # "unrestricted"
  BY <1>11, <1>13, <1>14, <1>15
<1>23. Given(R, "-w") = {} <=> ~req.policy.workdir
  BY <1>11, <1>12, <1>13, <1>14
<1>24. Both(cpus) \in R /\ Both(memory) \in R
  BY <1>1 DEF A, FiveOptions, cpus, memory
<1>25. \A p \in R : p[1][1] = "limit" => p \in {Both(cpus), Both(memory)}
  <2>1. \A w : Word(w)[1] # "limit"
    BY DEF Word
  <2>2. \A p \in W : p[1] = Word("-v") \/ p[1] = Word("-w")
    BY DEF W, WorkOptions
  <2>. QED
    BY <1>1, <1>2, <1>3, <1>4, <1>5, <1>6, <1>8, <2>1, <2>2
<1>26. /\ Both(cpus)[1][1] = "limit" /\ Both(cpus)[1][2] = "cpus"
       /\ Both(cpus)[1][3] = req.policy.millicores
       /\ Both(memory)[1][1] = "limit" /\ Both(memory)[1][2] = "memory"
       /\ Both(memory)[1][3] = req.policy.memory
  BY DEF Both, cpus, memory, Limit
<1>27. LimitIn(R, "cpus") = req.policy.millicores /\ LimitIn(R, "memory") = req.policy.memory
  BY <1>24, <1>25, <1>26 DEF LimitIn
<1>. QED
  BY <1>20, <1>21, <1>22, <1>23, <1>27 DEF R, A

\* A container with what a request comes to.
IsBox(c, req) ==
    /\ c.read = Below(Real(WorkDirs(req) \cup RoDirs(req) \cup RwDirs(req)))
    /\ c.write = Below(Real(WorkDirs(req) \cup RwDirs(req)))
    /\ c.net = IF req.policy.network = "none" THEN {} ELSE {"host", "outside"}
    /\ c.cwd = IF req.policy.workdir THEN "workspace" ELSE "image"
    /\ c.cpus = req.policy.millicores /\ c.memory = req.policy.memory
    /\ DOMAIN c = {"read", "write", "net", "env", "cwd", "cpus", "memory", "command"}

IsParsedBox(c, req, E, command) ==
    /\ c.read = Below(Real(WorkDirs(req) \cup RoDirs(req) \cup RwDirs(req)))
    /\ c.write = Below(Real(WorkDirs(req) \cup RwDirs(req)))
    /\ c.net = IF req.policy.network # "unrestricted" THEN {} ELSE {"host", "outside"}
    /\ c.cwd = IF req.policy.workdir THEN "workspace" ELSE "image"
    /\ c.cpus = req.policy.millicores /\ c.memory = req.policy.memory
    /\ DOMAIN c = {"read", "write", "net", "env", "cwd", "cpus", "memory", "command"}
    /\ c.env = EnvFrom(<<>>, E) /\ c.command = command

\* The container that the options of a request make.
LEMMA BoxOfParsed ==
    ASSUME NEW args, NEW req, NEW X, Other(X), NEW E, NEW command,
           ParsesTo(args, X \cup (FiveOptions(req) \cup FrontOptions(req)), E, command)
    PROVE  IsParsedBox(ContainerOf(args), req, E, command)
<1>. DEFINE R == X \cup (FiveOptions(req) \cup FrontOptions(req))
            c == ContainerOf(args)
<1>1. /\ {v[2] : v \in Given(R, "-v")} = WorkDirs(req) \cup RoDirs(req) \cup RwDirs(req)
      /\ {v[2] : v \in {w \in Given(R, "-v") : w[4] = "rw"}} = WorkDirs(req) \cup RwDirs(req)
      /\ Word("none") \in Given(R, "--network") <=> req.policy.network # "unrestricted"
      /\ Given(R, "-w") = {} <=> ~req.policy.workdir
      /\ LimitIn(R, "cpus") = req.policy.millicores
      /\ LimitIn(R, "memory") = req.policy.memory
  BY OptionsGive
<1>. HIDE DEF R
<1>2. /\ c.read = Below(Real({v[2] : v \in Given(R, "-v")}))
      /\ c.write = Below(Real({v[2] : v \in {w \in Given(R, "-v") : w[4] = "rw"}}))
      /\ c.net = IF Word("none") \in Given(R, "--network") THEN {} ELSE {"host", "outside"}
      /\ c.env = EnvFrom(<<>>, E)
      /\ c.cwd = IF Given(R, "-w") = {} THEN "image" ELSE "workspace"
      /\ c.cpus = LimitIn(R, "cpus") /\ c.memory = LimitIn(R, "memory")
      /\ c.command = command
      /\ DOMAIN c = {"read", "write", "net", "env", "cwd", "cpus", "memory", "command"}
  <2>1. ParsesTo(args, R, E, command)
    BY DEF R
  <2>. QED
    BY <2>1, ContainerOfParsed
<1>. HIDE DEF c
<1>3. c.net = IF req.policy.network # "unrestricted" THEN {} ELSE {"host", "outside"}
  BY <1>1, <1>2
<1>4. c.cwd = IF req.policy.workdir THEN "workspace" ELSE "image"
  BY <1>1, <1>2
<1>5. /\ c.read = Below(Real(WorkDirs(req) \cup RoDirs(req) \cup RwDirs(req)))
      /\ c.write = Below(Real(WorkDirs(req) \cup RwDirs(req)))
  BY <1>1, <1>2
<1>. QED
  BY <1>1, <1>2, <1>3, <1>4, <1>5 DEF c, IsParsedBox

\* An environment over none is itself.
LEMMA EmptyEnv ==
    /\ \A e : e = [v \in DOMAIN e |-> e[v]] => Over(e, <<>>) = e
    /\ <<>> = [v \in DOMAIN <<>> |-> <<>>[v]]
<1>1. DOMAIN <<>> = {}
  OBVIOUS
<1>2. ASSUME NEW e, e = [v \in DOMAIN e |-> e[v]] PROVE Over(e, <<>>) = e
  <2>1. Over(e, <<>>) = [v \in DOMAIN e |-> e[v]]
    BY <1>1 DEF Over
  <2>. QED
    BY <1>2, <2>1
<1>3. <<>> = [v \in DOMAIN <<>> |-> <<>>[v]]
  BY <1>1
<1>. QED
  BY <1>2, <1>3

\* build_run_args makes the container of its request.
LEMMA BuildContainer ==
    ASSUME NEW req, IsRequest(req), req.policy.network \in {"none", "unrestricted"}
    PROVE  LET c == ContainerOf(BuildRunArgs(req))
           IN  IsBox(c, req) /\ c.env = req.env /\ c.command = CommandOf(req)
<1>. DEFINE X == {RunOption}
            c == ContainerOf(BuildRunArgs(req))
<1>1. ParsesTo(BuildRunArgs(req), X \cup (FiveOptions(req) \cup FrontOptions(req)),
               PairsOf(req.env), CommandOf(req))
  <2>1. (X \cup FiveOptions(req)) \cup FrontOptions(req) = X \cup (FiveOptions(req) \cup FrontOptions(req))
    OBVIOUS
  <2>. QED
    BY <2>1, BuildParsed
<1>2. Other(X)
  BY DEF Other, RunOption, Both
<1>. HIDE DEF X
<1>3. IsParsedBox(c, req, PairsOf(req.env), CommandOf(req))
  BY <1>1, <1>2, BoxOfParsed
<1>4. EnvFrom(<<>>, PairsOf(req.env)) = req.env
  <2>1. IsFiniteSet(DOMAIN req.env) /\ req.env = [v \in DOMAIN req.env |-> req.env[v]]
    BY DEF IsRequest
  <2>2. EnvFrom(<<>>, PairsOf(req.env)) = Over(req.env, <<>>)
    BY <2>1, EmptyEnv, PairsSetAll
  <2>. QED
    BY <2>1, <2>2, EmptyEnv
<1>. HIDE DEF c
<1>5. IsBox(c, req)
  BY <1>3 DEF IsBox, IsParsedBox
<1>. QED
  BY <1>3, <1>4, <1>5 DEF c, IsParsedBox

ProxiedEnv(port, env) == Put(Over(ProxyEnv(port), env), "NO_PROXY", <<"text", "localhost">>)

\* The pairs of an allowlist container make the request's environment with the
\* proxy's on top.
LEMMA ProxiedPairs ==
    ASSUME NEW env, IsFiniteSet(DOMAIN env), env = [v \in DOMAIN env |-> env[v]], NEW port
    PROVE  EnvFrom(<<>>, Cat(PairsOf(env), Cat(PairsOf(ProxyEnv(port)), <<NoProxy>>)))
             = ProxiedEnv(port, env)
<1>. DEFINE P == PairsOf(env)
            Q == PairsOf(ProxyEnv(port))
            N == <<NoProxy>>
<1>1. IsFiniteSet(DOMAIN ProxyEnv(port))
  BY ProxyPart
<1>2. IsSeq(P) /\ IsSeq(Q) /\ IsSeq(N)
  <2>1. Part(EnvArgs(env), EnvOptions(env), P)
    BY EnvPart
  <2>2. Part(EnvArgs(ProxyEnv(port)), EnvOptions(ProxyEnv(port)), Q)
    BY <1>1, EnvPart
  <2>3. IsSeq(N)
    BY TupleIsSeq
  <2>. QED
    BY <2>1, <2>2, <2>3, PartIsSeq
<1>3. EnvFrom(<<>>, P) = env
  <2>1. EnvFrom(<<>>, P) = Over(env, <<>>)
    BY EmptyEnv, PairsSetAll
  <2>. QED
    BY <2>1, EmptyEnv
<1>4. EnvFrom(env, Q) = Over(ProxyEnv(port), env)
  BY <1>1, PairsSetAll
<1>5. \A m : EnvFrom(m, N) = Put(m, "NO_PROXY", <<"text", "localhost">>)
  BY EnvOne DEF NoProxy
<1>. HIDE DEF P, Q, N
<1>6. IsSeq(Cat(Q, N))
  BY <1>2, ConcatFacts
<1>7. EnvFrom(<<>>, Cat(P, Cat(Q, N))) = EnvFrom(EnvFrom(<<>>, P), Cat(Q, N))
  BY <1>2, <1>6, EnvConcat
<1>8. EnvFrom(env, Cat(Q, N)) = EnvFrom(EnvFrom(env, Q), N)
  BY <1>2, EnvConcat
<1>. QED
  BY <1>3, <1>4, <1>5, <1>7, <1>8 DEF P, Q, N, ProxiedEnv

\* build_allowlist_args makes the same container, with the proxy's variables on
\* top of the request's.
LEMMA AllowlistContainer ==
    ASSUME NEW req, IsRequest(req), req.policy.network = "allowlist", NEW port, port # 0
    PROVE  LET c == ContainerOf(BuildAllowlistArgs(req, port))
           IN  /\ IsBox(c, req) /\ c.env = ProxiedEnv(port, req.env)
               /\ Words(c.command) = Cleaned(Words(CommandOf(req)))
<1>. DEFINE q == Opened(req)
            X == {RunOption, HostOption} \cup (EnvOptions(ProxyEnv(port)) \cup {<<Word("-e"), NoProxy>>})
            F == FiveOptions(q) \cup FrontOptions(q)
            E == Cat(PairsOf(req.env), Cat(PairsOf(ProxyEnv(port)), <<NoProxy>>))
            w == Cleaned(Words(CommandOf(req)))
            command == [i \in DOMAIN w |-> w[i][2]]
            args == BuildAllowlistArgs(req, port)
            c == ContainerOf(args)
<1>1. ParsesTo(args, X \cup F, E, command)
  <2>1. ({RunOption, HostOption} \cup F) \cup (EnvOptions(ProxyEnv(port)) \cup {<<Word("-e"), NoProxy>>})
          = X \cup F
    OBVIOUS
  <2>. HIDE DEF X
  <2>. QED
    BY <2>1, AllowlistParsed
<1>2. Other(X)
  BY DEF Other, RunOption, Both, HostOption, EnvOptions
<1>3. /\ q.policy.network = "unrestricted"
      /\ WorkDirs(q) = WorkDirs(req) /\ RoDirs(q) = RoDirs(req) /\ RwDirs(q) = RwDirs(req)
      /\ q.policy.workdir = req.policy.workdir
      /\ q.policy.millicores = req.policy.millicores /\ q.policy.memory = req.policy.memory
  BY OpenedFields DEF WorkDirs, RoDirs, RwDirs
<1>4. Words(command) = w
  <2>1. IsSeq(w) /\ \A a \in Range(w) : a = Word(a[2])
    <3>1. IsSeq(CommandOf(req))
      BY CommandIsSeq DEF IsRequest
    <3>2. IsSeq(Words(CommandOf(req))) /\ \A a \in Range(Words(CommandOf(req))) : a = Word(a[2])
      BY <3>1, WordsFacts
    <3>3. IsSeq(w) /\ Range(w) \subseteq Range(Words(CommandOf(req)))
      BY <3>2, CleanTail, TupleIsSeq
    <3>. QED
      BY <3>2, <3>3
  <2>2. w = [i \in 1 .. Len(w) |-> w[i]] /\ DOMAIN w = 1 .. Len(w)
    BY <2>1, SeqFacts
  <2>. HIDE DEF w
  <2>3. \A i \in DOMAIN w : w[i] = Word(w[i][2])
    BY <2>1 DEF Range
  <2>4. Words(command) = [i \in DOMAIN w |-> Word(w[i][2])]
    BY DEF Words
  <2>5. [i \in DOMAIN w |-> Word(w[i][2])] = [i \in DOMAIN w |-> w[i]]
    BY <2>3
  <2>. QED
    BY <2>2, <2>4, <2>5
<1>. HIDE DEF X, q, command, args
<1>5. IsParsedBox(c, q, E, command)
  <2>. HIDE DEF E
  <2>. QED
    BY <1>1, <1>2, BoxOfParsed
<1>6. EnvFrom(<<>>, E) = ProxiedEnv(port, req.env)
  BY ProxiedPairs DEF IsRequest
<1>. HIDE DEF c, E, w
<1>7. IsBox(c, req)
  BY <1>3, <1>5 DEF IsBox, IsParsedBox
<1>. QED
  BY <1>4, <1>5, <1>6, <1>7 DEF c, args, w, IsParsedBox
=============================================================================
