--------------------------- MODULE SequenceFacts ----------------------------
(***************************************************************************)
(* Lemmas about sequences that the proofs about the wire format need:      *)
(* induction over numbers, sequences of anything, parts of sequences, and  *)
(* what the FlattenSeq of the community modules computes.                  *)
(***************************************************************************)
EXTENDS Naturals, SequencesExt, FiniteSetTheorems, SequenceTheorems, TLAPS

\* Every set of numbers that is not empty has a least one.
LEMMA LeastNumber ==
    ASSUME NEW T \in SUBSET Nat, T # {}
    PROVE  \E n \in T : \A m \in T : n <= m
<1> DEFINE U == {1 .. m : m \in T}
<1>1. U \subseteq FiniteSubsetsOf(Nat) /\ U # {}
  <2>1. ASSUME NEW m \in T PROVE 1 .. m \in SUBSET Nat /\ IsFiniteSet(1 .. m)
    BY FS_Interval
  <2> QED BY <2>1 DEF FiniteSubsetsOf
<1>2. PICK x \in U : \A y \in U : ~(<<y, x>> \in StrictSubsetOrdering(Nat))
  <2> HIDE DEF U
  <2> QED BY <1>1, FS_StrictSubsetOrderingWellFounded, WFMin, Zenon
<1>3. PICK n \in T : x = 1 .. n  OBVIOUS
<1>4. ASSUME NEW m \in T, m < n PROVE FALSE
  <2>1. 1 .. m \subseteq x /\ 1 .. m # x  BY <1>3, <1>4
  <2>2. 1 .. m \in SUBSET Nat /\ x \in SUBSET Nat /\ 1 .. m \in U  BY <1>3
  <2> QED BY <1>2, <2>1, <2>2 DEF StrictSubsetOrdering
<1> QED BY <1>4

\* Induction, over a set of numbers instead of a predicate: it needs no
\* operator as a parameter, so the provers can use it.
LEMMA Induction ==
    ASSUME NEW S \in SUBSET Nat, 0 \in S, \A n \in S : n + 1 \in S
    PROVE  S = Nat
<1> SUFFICES ASSUME S # Nat PROVE FALSE OBVIOUS
<1>0. Nat \ S \in SUBSET Nat /\ Nat \ S # {} OBVIOUS
<1>1. PICK n \in Nat \ S : \A m \in Nat \ S : n <= m BY <1>0, LeastNumber
<1>2. n - 1 \in Nat /\ n - 1 \notin Nat \ S BY <1>1
<1> QED BY <1>2, <1>1

\* The lists c[1], c[2], ... that joining the first lists of s gives.
Sums(s, n, c) == 
    \A i \in 1 .. n : c[i] = IF i = 1 THEN s[i] ELSE c[i - 1] \o s[i]

\* The joined lists exist, by induction on their number.
LEMMA SumsExist ==
    ASSUME NEW S, NEW s \in Seq(Seq(S)), NEW n \in 0 .. Len(s)
    PROVE  \E c \in [1 .. n -> Seq(S)] : Sums(s, n, c)
<1> DEFINE H == {k \in Nat : k <= Len(s) => \E c \in [1 .. k -> Seq(S)] : Sums(s, k, c)}
<1>1. 0 \in H
  <2>1. [i \in 1 .. 0 |-> <<>>] \in [1 .. 0 -> Seq(S)] /\ Sums(s, 0, [i \in 1 .. 0 |-> <<>>])
    BY DEF Sums
  <2> QED BY <2>1
<1>2. ASSUME NEW k \in H PROVE k + 1 \in H
  <2> SUFFICES ASSUME k + 1 <= Len(s)
               PROVE  \E c \in [1 .. k + 1 -> Seq(S)] : Sums(s, k + 1, c)
    OBVIOUS
  <2>1. PICK c \in [1 .. k -> Seq(S)] : Sums(s, k, c) OBVIOUS
  <2>2. s[k + 1] \in Seq(S) BY LenProperties
  <2> DEFINE last == IF k = 0 THEN s[1] ELSE c[k] \o s[k + 1]
             d == [i \in 1 .. k + 1 |-> IF i = k + 1 THEN last ELSE c[i]]
  <2>3. last \in Seq(S) BY <2>2, ConcatProperties
  <2>4. d \in [1 .. k + 1 -> Seq(S)] BY <2>3
  <2>5. ASSUME NEW i \in 1 .. k + 1
        PROVE  d[i] = IF i = 1 THEN s[i] ELSE d[i - 1] \o s[i]
    <3>1. CASE i = k + 1 BY <3>1
    <3>2. CASE i # k + 1
      <4>1. i \in 1 .. k /\ d[i] = c[i] BY <3>2
      <4>2. i # 1 => d[i - 1] = c[i - 1] BY <4>1
      <4> QED BY <2>1, <4>1, <4>2 DEF Sums
    <3> QED BY <3>1, <3>2
  <2> QED BY <2>4, <2>5 DEF Sums
<1>3. H = Nat BY <1>1, <1>2, Induction
<1>4. Len(s) \in Nat BY LenProperties
<1>5. n \in H /\ n <= Len(s) BY <1>3, <1>4
<1> QED BY <1>5

\* There is only one way to join the first lists.
LEMMA SumsUnique ==
    ASSUME NEW s, NEW n \in Nat, NEW c, NEW d, Sums(s, n, c), Sums(s, n, d), NEW i \in 1 .. n
    PROVE  c[i] = d[i]
<1> DEFINE H == {k \in Nat : k \in 1 .. n => c[k] = d[k]}
<1>1. 0 \in H OBVIOUS
<1>2. ASSUME NEW k \in H PROVE k + 1 \in H BY DEF Sums
<1>3. H = Nat BY <1>1, <1>2, Induction
<1> QED BY <1>3

\* FlattenSeq is the last of the joined lists.
LEMMA FlattenSeqSums ==
    ASSUME NEW S, NEW s \in Seq(Seq(S)), NEW c, Sums(s, Len(s), c)
    PROVE  FlattenSeq(s) = IF Len(s) = 0 THEN <<>> ELSE c[Len(s)]
<1> DEFINE F(f) == [i \in 1 .. Len(s) |-> IF i = 1 THEN s[i] ELSE f[i - 1] \o s[i]]
           b == CHOOSE f : f = F(f)
<1>1. FlattenSeq(s) = IF Len(s) = 0 THEN s ELSE b[Len(s)]
  BY DEF FlattenSeq
<1>2. PICK d \in [1 .. Len(s) -> Seq(S)] : Sums(s, Len(s), d) BY SumsExist, LenProperties
<1>3. d = F(d) BY <1>2 DEF Sums
<1>4. b = F(b) BY <1>3
<1>5. Sums(s, Len(s), b) BY <1>4 DEF Sums
<1>6. Len(s) \in Nat BY LenProperties
<1>7. \A i \in 1 .. Len(s) : b[i] = c[i] BY <1>5, <1>6, SumsUnique
<1>8. Len(s) = 0 => s = <<>> BY EmptySeq
<1> HIDE DEF b
<1> QED BY <1>1, <1>6, <1>7, <1>8

\* Flattening no lists gives the empty one.
LEMMA FlattenSeqEmpty == FlattenSeq(<<>>) = <<>>
BY DEF FlattenSeq

\* Flattening lists of elements gives a list of elements.
LEMMA FlattenSeqType ==
    ASSUME NEW S, NEW s \in Seq(Seq(S))
    PROVE  FlattenSeq(s) \in Seq(S)
<1>1. PICK c \in [1 .. Len(s) -> Seq(S)] : Sums(s, Len(s), c) BY SumsExist, LenProperties
<1>2. FlattenSeq(s) = IF Len(s) = 0 THEN <<>> ELSE c[Len(s)] BY <1>1, FlattenSeqSums
<1> QED BY <1>2, LenProperties

\* Flattening one more list joins it to the others.
LEMMA FlattenSeqAppend ==
    ASSUME NEW S, NEW s \in Seq(Seq(S)), NEW x \in Seq(S)
    PROVE  FlattenSeq(Append(s, x)) = FlattenSeq(s) \o x
<1> DEFINE t == Append(s, x)
<1>0. t \in Seq(Seq(S)) /\ Len(t) = Len(s) + 1 /\ t[Len(s) + 1] = x
      /\ Len(s) \in Nat /\ \A i \in 1 .. Len(s) : t[i] = s[i]
  BY AppendProperties, LenProperties
<1>a. Len(t) \in 0 .. Len(t) BY <1>0, LenProperties
<1> HIDE DEF t
<1>1. PICK c \in [1 .. Len(t) -> Seq(S)] : Sums(t, Len(t), c) BY <1>0, <1>a, SumsExist

<1>b. \A i \in 1 .. Len(t) : c[i] = IF i = 1 THEN t[i] ELSE c[i - 1] \o t[i]
  BY <1>1 DEF Sums
<1>2. Sums(s, Len(s), c)
  <2> SUFFICES ASSUME NEW i \in 1 .. Len(s)
               PROVE  c[i] = IF i = 1 THEN s[i] ELSE c[i - 1] \o s[i]
    BY DEF Sums
  <2>1. i \in 1 .. Len(t) /\ t[i] = s[i] BY <1>0
  <2> QED BY <1>b, <2>1
<1>3. FlattenSeq(s) = IF Len(s) = 0 THEN <<>> ELSE c[Len(s)] BY <1>2, FlattenSeqSums
<1>4. FlattenSeq(t) = c[Len(t)] BY <1>0, <1>1, FlattenSeqSums, LenProperties
<1>5. c[Len(t)] = IF Len(s) = 0 THEN x ELSE c[Len(s)] \o x
  <2>1. Len(t) \in 1 .. Len(t) /\ Len(t) - 1 = Len(s) /\ (Len(t) = 1 <=> Len(s) = 0)
    BY <1>0
  <2>2. c[Len(t)] = IF Len(t) = 1 THEN t[Len(t)] ELSE c[Len(t) - 1] \o t[Len(t)]
    BY <1>b, <2>1
  <2> QED BY <2>1, <2>2, <1>0
<1> QED BY <1>0, <1>3, <1>4, <1>5, ConcatEmptySeq DEF t

\* A sequence of anything: of elements that need not be of one set.
Sequence(s) == \E S : s \in Seq(S)

\* A sequence of sequences.
Lists(s) == Sequence(s) /\ \A k \in 1 .. Len(s) : Sequence(s[k])

\* A sequence is a function on the numbers up to its length.
LEMMA SequenceLen ==
    ASSUME NEW s, Sequence(s)
    PROVE  Len(s) \in Nat /\ DOMAIN s = 1 .. Len(s) /\ s = [k \in 1 .. Len(s) |-> s[k]]
<1>1. PICK S : s \in Seq(S) BY DEF Sequence
<1> QED BY <1>1, LenProperties

\* A function on the numbers up to n is a sequence of length n.
LEMMA FunctionIsSequence ==
    ASSUME NEW n \in Nat, NEW f, f = [k \in 1 .. n |-> f[k]]
    PROVE  Sequence(f) /\ Len(f) = n
<1> DEFINE S == {f[k] : k \in 1 .. n}
<1>1. f \in [1 .. n -> S] OBVIOUS
<1>2. f \in Seq(S) BY <1>1, SeqDef
<1> QED BY <1>2, LenProperties DEF Sequence

\* The empty sequence is one, and a sequence of sequences.
LEMMA SequenceEmpty == Sequence(<<>>) /\ Lists(<<>>) /\ Len(<<>>) = 0
<1>1. <<>> \in Seq({}) OBVIOUS
<1> QED BY <1>1 DEF Sequence, Lists

\* A sequence of one element.
LEMMA SequenceOne ==
    ASSUME NEW x
    PROVE  Sequence(<<x>>) /\ Len(<<x>>) = 1 /\ <<x>>[1] = x
<1>1. <<x>> \in Seq({x}) OBVIOUS
<1> QED BY <1>1 DEF Sequence

\* What joining two sequences gives, element by element.
LEMMA SequenceJoin ==
    ASSUME NEW s, NEW t, Sequence(s), Sequence(t)
    PROVE  /\ Sequence(s \o t)
           /\ Len(s \o t) = Len(s) + Len(t)
           /\ \A k \in 1 .. Len(s) : (s \o t)[k] = s[k]
           /\ \A k \in 1 .. Len(t) : (s \o t)[Len(s) + k] = t[k]
<1>1. PICK S : s \in Seq(S) BY DEF Sequence
<1>2. PICK T : t \in Seq(T) BY DEF Sequence
<1>3. s \in Seq(S \cup T) BY <1>1, SeqMonotonic
<1>4. t \in Seq(S \cup T) BY <1>2, SeqMonotonic
<1>5. Len(s) \in Nat /\ Len(t) \in Nat BY <1>1, <1>2, LenProperties
<1>6. /\ s \o t \in Seq(S \cup T)
      /\ Len(s \o t) = Len(s) + Len(t)
      /\ \A i \in 1 .. Len(s) + Len(t) : (s \o t)[i] = IF i <= Len(s) THEN s[i] ELSE t[i - Len(s)]
  BY <1>3, <1>4, ConcatProperties
<1> QED BY <1>5, <1>6 DEF Sequence

\* Sequences with the same elements are the same.
LEMMA SequenceEqual ==
    ASSUME NEW s, NEW t, Sequence(s), Sequence(t), Len(s) = Len(t),
           \A k \in 1 .. Len(s) : s[k] = t[k]
    PROVE  s = t
BY SequenceLen

\* The empty sequence joined to another changes nothing.
LEMMA JoinEmpty ==
    ASSUME NEW s, Sequence(s)
    PROVE  s \o <<>> = s /\ <<>> \o s = s
BY ConcatEmptySeq DEF Sequence

\* It does not matter which sequences are joined first.
LEMMA JoinAssociative ==
    ASSUME NEW s, NEW t, NEW u, Sequence(s), Sequence(t), Sequence(u)
    PROVE  (s \o t) \o u = s \o (t \o u)
<1>1. PICK S : s \in Seq(S) BY DEF Sequence
<1>2. PICK T : t \in Seq(T) BY DEF Sequence
<1>3. PICK U : u \in Seq(U) BY DEF Sequence
<1>4. s \in Seq(S \cup T \cup U) BY <1>1, SeqMonotonic
<1>5. t \in Seq(S \cup T \cup U) BY <1>2, SeqMonotonic
<1>6. u \in Seq(S \cup T \cup U) BY <1>3, SeqMonotonic
<1> QED BY <1>4, <1>5, <1>6, ConcatAssociative

\* Appending an element joins a sequence of one.
LEMMA AppendIsJoin ==
    ASSUME NEW s, NEW x, Sequence(s)
    PROVE  Append(s, x) = s \o <<x>>
<1>1. PICK S : s \in Seq(S) BY DEF Sequence
<1>2. s \in Seq(S \cup {x}) /\ x \in S \cup {x} BY <1>1, SeqMonotonic
<1> QED BY <1>2, AppendIsConcat

\* A sequence of sequences has all its elements in some set.
LEMMA ListsInSet ==
    ASSUME NEW s, Lists(s)
    PROVE  \E S : s \in Seq(Seq(S))
<1> DEFINE S == UNION {{s[k][j] : j \in 1 .. Len(s[k])} : k \in 1 .. Len(s)}
<1>1. ASSUME NEW k \in 1 .. Len(s) PROVE s[k] \in Seq(S)
  <2>1. Len(s[k]) \in Nat /\ s[k] = [j \in 1 .. Len(s[k]) |-> s[k][j]]
    BY SequenceLen DEF Lists
  <2>2. s[k] \in [1 .. Len(s[k]) -> S] BY <2>1
  <2> HIDE DEF S
  <2> QED BY <2>1, <2>2, SeqDef
<1> HIDE DEF S
<1>2. Len(s) \in Nat /\ s = [k \in 1 .. Len(s) |-> s[k]] BY SequenceLen DEF Lists
<1>3. s \in [1 .. Len(s) -> Seq(S)] BY <1>1, <1>2
<1>4. s \in Seq(Seq(S)) BY <1>2, <1>3, SeqDef
<1> QED BY <1>4

\* Flattening gives a sequence.
LEMMA ListsFlatten ==
    ASSUME NEW s, Lists(s)
    PROVE  Sequence(FlattenSeq(s))
<1>1. PICK S : s \in Seq(Seq(S)) BY ListsInSet
<1> QED BY <1>1, FlattenSeqType DEF Sequence

\* Flattening one more list joins it, whatever the elements are.
LEMMA ListsAppend ==
    ASSUME NEW s, NEW x, Lists(s), Sequence(x)
    PROVE  /\ Lists(Append(s, x)) /\ Lists(s \o <<x>>)
           /\ FlattenSeq(Append(s, x)) = FlattenSeq(s) \o x
           /\ FlattenSeq(s \o <<x>>) = FlattenSeq(s) \o x
<1>1. PICK S : s \in Seq(Seq(S)) BY ListsInSet
<1>2. PICK X : x \in Seq(X) BY DEF Sequence
<1> DEFINE SX == S \cup X
<1>3. x \in Seq(SX) BY <1>2, SeqMonotonic
<1>4. ASSUME NEW k \in 1 .. Len(s) PROVE s[k] \in Seq(SX)
  <2>1. s[k] \in Seq(S) BY <1>1, ElementOfSeq
  <2> QED BY <2>1, SeqMonotonic
<1>5. s \in Seq(Seq(SX))
  <2>1. Len(s) \in Nat /\ s = [k \in 1 .. Len(s) |-> s[k]] BY SequenceLen DEF Lists
  <2> HIDE DEF SX
  <2>2. s \in [1 .. Len(s) -> Seq(SX)] BY <1>4, <2>1
  <2> QED BY <2>1, <2>2, SeqDef
<1> HIDE DEF SX
<1>6. FlattenSeq(Append(s, x)) = FlattenSeq(s) \o x BY <1>3, <1>5, FlattenSeqAppend
<1>7. Append(s, x) = s \o <<x>> BY AppendIsJoin DEF Lists
<1>8. Lists(s \o <<x>>)
  <2>1. Sequence(s) /\ Sequence(<<x>>) /\ Len(<<x>>) = 1 /\ <<x>>[1] = x
    BY SequenceOne DEF Lists
  <2>2. Len(s) \in Nat BY <2>1, SequenceLen
  <2>3. /\ Sequence(s \o <<x>>) /\ Len(s \o <<x>>) = Len(s) + 1
        /\ \A k \in 1 .. Len(s) : (s \o <<x>>)[k] = s[k]
        /\ (s \o <<x>>)[Len(s) + 1] = x
    BY <2>1, SequenceJoin
  <2> QED BY <2>2, <2>3 DEF Lists
<1> QED BY <1>6, <1>7, <1>8

\* The first n + 1 elements are the first n and one more.
LEMMA PrefixStep ==
    ASSUME NEW s, Sequence(s), NEW n \in Nat, n + 1 <= Len(s)
    PROVE  /\ SubSeq(s, 1, n + 1) = SubSeq(s, 1, n) \o <<s[n + 1]>>
           /\ s[n + 1] = s[n + 1]
<1>1. PICK S : s \in Seq(S) BY DEF Sequence
<1>2. Len(s) \in Nat BY <1>1, LenProperties
<1>3. 1 \in 1 .. Len(s) /\ n + 1 \in 1 .. Len(s) /\ (n + 1) - 1 = n BY <1>2
<1> QED BY <1>1, <1>3, SubSeqRecursiveSecond

\* What a part of a sequence is, element by element.
LEMMA Slice ==
    ASSUME NEW s, Sequence(s), NEW m \in 1 .. Len(s) + 1, NEW n \in 0 .. Len(s)
    PROVE  /\ Sequence(SubSeq(s, m, n))
           /\ Len(SubSeq(s, m, n)) = IF m <= n THEN n - m + 1 ELSE 0
           /\ \A i \in 1 .. n - m + 1 : SubSeq(s, m, n)[i] = s[m + i - 1]
           /\ Lists(s) => Lists(SubSeq(s, m, n))
<1>1. PICK S : s \in Seq(S) BY DEF Sequence
<1>2. Len(s) \in Nat BY <1>1, LenProperties
<1>3. \A i \in m .. n : s[i] \in S BY <1>1, <1>2, ElementOfSeq
<1>4. /\ SubSeq(s, m, n) \in Seq(S)
      /\ Len(SubSeq(s, m, n)) = IF m <= n THEN n - m + 1 ELSE 0
      /\ \A i \in 1 .. n - m + 1 : SubSeq(s, m, n)[i] = s[m + i - 1]
  BY <1>2, <1>3, SubSeqProperties
<1>5. Lists(s) => Lists(SubSeq(s, m, n))
  <2> SUFFICES ASSUME Lists(s), NEW i \in 1 .. Len(SubSeq(s, m, n))
               PROVE  Sequence(SubSeq(s, m, n)[i])
    BY <1>4 DEF Lists, Sequence
  <2>1. i \in 1 .. n - m + 1 /\ m + i - 1 \in 1 .. Len(s) BY <1>2, <1>4
  <2> QED BY <1>4, <2>1 DEF Lists
<1> QED BY <1>4, <1>5 DEF Sequence

\* All of a sequence, and nothing of it.
LEMMA WholeSlice ==
    ASSUME NEW s, Sequence(s)
    PROVE  SubSeq(s, 1, Len(s)) = s /\ SubSeq(s, 1, 0) = <<>>
<1>1. PICK S : s \in Seq(S) BY DEF Sequence
<1> QED BY <1>1, SubSeqFull, SubSeqEmpty

\* A sequence is its first k elements and the rest.
LEMMA SplitAt ==
    ASSUME NEW s, Sequence(s), NEW k \in 0 .. Len(s)
    PROVE  SubSeq(s, 1, k) \o SubSeq(s, k + 1, Len(s)) = s
<1>1. PICK S : s \in Seq(S) BY DEF Sequence
<1>2. Len(s) \in Nat BY <1>1, LenProperties
<1>3. 1 \in 1 .. Len(s) + 1 /\ k \in 1 - 1 .. Len(s) /\ Len(s) \in k .. Len(s) BY <1>2
<1> QED BY <1>1, <1>3, ConcatAdjacentSubSeq, SubSeqFull

\* Flattening joined lists joins what flattening each of them gives.
LEMMA FlattenJoin ==
    ASSUME NEW s, NEW t, Lists(s), Lists(t)
    PROVE  Lists(s \o t) /\ FlattenSeq(s \o t) = FlattenSeq(s) \o FlattenSeq(t)
<1> DEFINE first(n) == SubSeq(t, 1, n)
           H == {n \in Nat : n <= Len(t) =>
                    /\ Lists(s \o first(n))
                    /\ FlattenSeq(s \o first(n)) = FlattenSeq(s) \o FlattenSeq(first(n))}
<1>0. Sequence(s) /\ Sequence(t) /\ Len(t) \in Nat /\ Sequence(FlattenSeq(s))
  BY SequenceLen, ListsFlatten DEF Lists
<1>1. 0 \in H
  <2>1. first(0) = <<>> BY <1>0, WholeSlice
  <2>2. FlattenSeq(s) \o <<>> = FlattenSeq(s) /\ s \o <<>> = s BY <1>0, JoinEmpty
  <2> HIDE DEF first
  <2> QED BY <2>1, <2>2, FlattenSeqEmpty
<1>2. ASSUME NEW n \in H PROVE n + 1 \in H
  <2> SUFFICES ASSUME n + 1 <= Len(t)
               PROVE  /\ Lists(s \o first(n + 1))
                      /\ FlattenSeq(s \o first(n + 1)) = FlattenSeq(s) \o FlattenSeq(first(n + 1))
    OBVIOUS
  <2> DEFINE x == t[n + 1]
  <2>1. n <= Len(t) /\ n \in 0 .. Len(t) /\ 1 \in 1 .. Len(t) + 1 /\ n + 1 \in 1 .. Len(t)
    BY <1>0
  <2>2. Lists(s \o first(n)) /\ FlattenSeq(s \o first(n)) = FlattenSeq(s) \o FlattenSeq(first(n))
    BY <2>1
  <2>3. first(n + 1) = first(n) \o <<x>> BY <1>0, PrefixStep
  <2>4. Sequence(first(n)) /\ Lists(first(n)) BY <1>0, <2>1, Slice
  <2>5. Sequence(x) BY <2>1 DEF Lists
  <2> HIDE DEF first, x, H
  <2>a. Sequence(<<x>>) BY SequenceOne
  <2>c. Sequence(s) BY <1>0
  <2>d. Sequence(first(n)) BY <2>4
  <2>e. Sequence(FlattenSeq(s)) BY <1>0
  <2>b. Sequence(FlattenSeq(first(n))) BY <2>4, ListsFlatten
  <2>6. s \o first(n + 1) = (s \o first(n)) \o <<x>>
    <3>1. (s \o first(n)) \o <<x>> = s \o (first(n) \o <<x>>)
      BY <2>c, <2>d, <2>a, JoinAssociative
    <3> QED BY <2>3, <3>1
  <2>7. /\ Lists((s \o first(n)) \o <<x>>)
        /\ FlattenSeq((s \o first(n)) \o <<x>>) = FlattenSeq(s \o first(n)) \o x
    BY <2>2, <2>5, ListsAppend
  <2>8. FlattenSeq(first(n) \o <<x>>) = FlattenSeq(first(n)) \o x BY <2>4, <2>5, ListsAppend
  <2>9. (FlattenSeq(s) \o FlattenSeq(first(n))) \o x = FlattenSeq(s) \o (FlattenSeq(first(n)) \o x)
    BY <2>e, <2>b, <2>5, JoinAssociative
  <2> QED BY <2>2, <2>3, <2>6, <2>7, <2>8, <2>9
<1>3. H \in SUBSET Nat OBVIOUS
<1>4. H = Nat
  <2> HIDE DEF H
  <2> QED BY <1>1, <1>2, <1>3, Induction
<1>5. Len(t) \in H BY <1>0, <1>4
<1>6. first(Len(t)) = t BY <1>0, WholeSlice
<1> HIDE DEF first
<1> QED BY <1>0, <1>5, <1>6

\* Flattening one list gives that list.
LEMMA FlattenOne ==
    ASSUME NEW x, Sequence(x)
    PROVE  Lists(<<x>>) /\ FlattenSeq(<<x>>) = x
<1>1. <<>> \o <<x>> = <<x>> BY SequenceOne, JoinEmpty
<1>2. Lists(<<>> \o <<x>>) /\ FlattenSeq(<<>> \o <<x>>) = FlattenSeq(<<>>) \o x
  BY SequenceEmpty, ListsAppend
<1> QED BY <1>1, <1>2, FlattenSeqEmpty, JoinEmpty

\* Flattening lists of which all but one are empty gives that one.
LEMMA FlattenOnly ==
    ASSUME NEW s, Lists(s), NEW i, \A k \in 1 .. Len(s) : k # i => s[k] = <<>>
    PROVE  FlattenSeq(s) = IF i \in 1 .. Len(s) THEN s[i] ELSE <<>>
<1> DEFINE first(n) == SubSeq(s, 1, n)
           H == {n \in Nat : n <= Len(s) =>
                    FlattenSeq(first(n)) = IF i \in 1 .. n THEN s[i] ELSE <<>>}
<1>0. Sequence(s) /\ Len(s) \in Nat BY SequenceLen DEF Lists
<1>1. 0 \in H
  <2>1. first(0) = <<>> BY <1>0, WholeSlice
  <2>2. i \notin 1 .. 0 OBVIOUS
  <2> HIDE DEF first
  <2> QED BY <2>1, <2>2, FlattenSeqEmpty
<1>2. ASSUME NEW n \in H PROVE n + 1 \in H
  <2> SUFFICES ASSUME n + 1 <= Len(s)
               PROVE  FlattenSeq(first(n + 1)) = IF i \in 1 .. n + 1 THEN s[i] ELSE <<>>
    OBVIOUS
  <2>1. n <= Len(s) /\ n \in 0 .. Len(s) /\ 1 \in 1 .. Len(s) + 1 /\ n + 1 \in 1 .. Len(s)
    BY <1>0
  <2>2. FlattenSeq(first(n)) = IF i \in 1 .. n THEN s[i] ELSE <<>> BY <2>1
  <2>3. first(n + 1) = first(n) \o <<s[n + 1]>> BY <1>0, PrefixStep
  <2>4. Lists(first(n)) BY <1>0, <2>1, Slice
  <2>5. Sequence(s[n + 1]) BY <2>1 DEF Lists
  <2> HIDE DEF first, H
  <2>6. FlattenSeq(first(n + 1)) = FlattenSeq(first(n)) \o s[n + 1]
    BY <2>3, <2>4, <2>5, ListsAppend
  <2>7. CASE i = n + 1
    <3>1. i \notin 1 .. n /\ i \in 1 .. n + 1 BY <2>1, <2>7
    <3>2. FlattenSeq(first(n)) = <<>> BY <2>2, <3>1
    <3> QED BY <2>5, <2>6, <2>7, <3>1, <3>2, JoinEmpty
  <2>8. CASE i # n + 1
    <3>1. s[n + 1] = <<>> BY <2>1, <2>8
    <3>2. FlattenSeq(first(n + 1)) = FlattenSeq(first(n))
      BY <2>4, <2>6, <3>1, ListsFlatten, JoinEmpty
    <3>3. i \in 1 .. n <=> i \in 1 .. n + 1 BY <2>1, <2>8
    <3> QED BY <2>2, <3>2, <3>3
  <2> QED BY <2>7, <2>8
<1>3. H \in SUBSET Nat OBVIOUS
<1>4. H = Nat
  <2> HIDE DEF H
  <2> QED BY <1>1, <1>2, <1>3, Induction
<1>5. Len(s) \in H BY <1>0, <1>4
<1>6. first(Len(s)) = s BY <1>0, WholeSlice
<1> HIDE DEF first
<1> QED BY <1>0, <1>5, <1>6

\* Flattening lists of one element each gives these elements.
LEMMA FlattenSingles ==
    ASSUME NEW s, NEW t, Lists(s), Sequence(t), Len(s) = Len(t),
           \A k \in 1 .. Len(t) : s[k] = <<t[k]>>
    PROVE  FlattenSeq(s) = t
<1> DEFINE first(n) == SubSeq(s, 1, n)
           second(n) == SubSeq(t, 1, n)
           H == {n \in Nat : n <= Len(t) => FlattenSeq(first(n)) = second(n)}
<1>0. Sequence(s) /\ Len(t) \in Nat BY SequenceLen DEF Lists
<1>1. 0 \in H
  <2>1. first(0) = <<>> /\ second(0) = <<>> BY <1>0, WholeSlice
  <2> HIDE DEF first, second
  <2> QED BY <2>1, FlattenSeqEmpty
<1>2. ASSUME NEW n \in H PROVE n + 1 \in H
  <2> SUFFICES ASSUME n + 1 <= Len(t)
               PROVE  FlattenSeq(first(n + 1)) = second(n + 1)
    OBVIOUS
  <2>1. n <= Len(t) /\ n \in 0 .. Len(t) /\ 1 \in 1 .. Len(t) + 1 /\ n + 1 \in 1 .. Len(t)
    BY <1>0
  <2>2. FlattenSeq(first(n)) = second(n) BY <2>1
  <2>3. first(n + 1) = first(n) \o <<s[n + 1]>> BY <1>0, PrefixStep
  <2>4. second(n + 1) = second(n) \o <<t[n + 1]>> BY <1>0, PrefixStep
  <2>5. Lists(first(n)) BY <1>0, <2>1, Slice
  <2>6. s[n + 1] = <<t[n + 1]>> /\ Sequence(s[n + 1]) BY <2>1, SequenceOne
  <2> HIDE DEF first, second, H
  <2>7. FlattenSeq(first(n) \o <<s[n + 1]>>) = FlattenSeq(first(n)) \o s[n + 1]
    BY <2>5, <2>6, ListsAppend, Zenon
  <2> QED BY <2>2, <2>3, <2>4, <2>6, <2>7
<1>3. H \in SUBSET Nat OBVIOUS
<1>4. H = Nat
  <2> HIDE DEF H
  <2> QED BY <1>1, <1>2, <1>3, Induction
<1>5. Len(t) \in H BY <1>0, <1>4
<1>6. first(Len(t)) = s /\ second(Len(t)) = t BY <1>0, WholeSlice
<1> HIDE DEF first, second
<1> QED BY <1>0, <1>5, <1>6

\* A scan that adds one list after the other.
ScanOf(s, c) == c = [k \in 0 .. Len(s) |-> IF k = 0 THEN <<>> ELSE c[k - 1] \o s[k]]

\* The scan exists: it is the joined lists.
LEMMA ScanExists ==
    ASSUME NEW s, Lists(s)
    PROVE  \E c : ScanOf(s, c)
<1>1. PICK S : s \in Seq(Seq(S)) BY ListsInSet
<1>2. Len(s) \in Nat /\ Len(s) \in 0 .. Len(s) BY SequenceLen DEF Lists
<1>3. PICK d \in [1 .. Len(s) -> Seq(S)] : Sums(s, Len(s), d) BY <1>1, <1>2, SumsExist
<1> DEFINE c == [k \in 0 .. Len(s) |-> IF k = 0 THEN <<>> ELSE d[k]]
<1>4. ASSUME NEW k \in 0 .. Len(s), k # 0 PROVE c[k] = c[k - 1] \o s[k]
  <2>1. k \in 1 .. Len(s) /\ c[k] = d[k] BY <1>2, <1>4
  <2>2. CASE k = 1
    <3>1. d[k] = s[k] BY <1>3, <2>1, <2>2 DEF Sums
    <3>2. c[k - 1] = <<>> BY <1>2, <2>2
    <3>3. Sequence(s[k]) BY <2>1 DEF Lists
    <3> QED BY <2>1, <3>1, <3>2, <3>3, JoinEmpty
  <2>3. CASE k # 1
    <3>1. d[k] = d[k - 1] \o s[k] BY <1>3, <2>1, <2>3 DEF Sums
    <3>2. c[k - 1] = d[k - 1] BY <1>2, <2>1, <2>3
    <3> QED BY <2>1, <3>1, <3>2
  <2> QED BY <2>2, <2>3
<1>5. c[0] = <<>> BY <1>2
<1>6. ScanOf(s, c)
  <2> SUFFICES ASSUME NEW k \in 0 .. Len(s)
               PROVE  c[k] = IF k = 0 THEN <<>> ELSE c[k - 1] \o s[k]
    BY DEF ScanOf
  <2> HIDE DEF c
  <2> QED BY <1>4, <1>5
<1> QED BY <1>6

\* The scan ends with the flattened lists.
LEMMA ScanFlattens ==
    ASSUME NEW s, Lists(s), NEW c, ScanOf(s, c)
    PROVE  c[Len(s)] = FlattenSeq(s)
<1>1. PICK S : s \in Seq(Seq(S)) BY ListsInSet
<1>2. Len(s) \in Nat BY SequenceLen DEF Lists
<1>3. /\ c[0] = <<>>
      /\ \A k \in 1 .. Len(s) : c[k] = c[k - 1] \o s[k]
  <2>1. ASSUME NEW k \in 0 .. Len(s) PROVE c[k] = IF k = 0 THEN <<>> ELSE c[k - 1] \o s[k]
    <3> DEFINE g == [j \in 0 .. Len(s) |-> IF j = 0 THEN <<>> ELSE c[j - 1] \o s[j]]
    <3>1. c = g BY DEF ScanOf
    <3>2. g[k] = IF k = 0 THEN <<>> ELSE c[k - 1] \o s[k] OBVIOUS
    <3> HIDE DEF g
    <3> QED BY <3>1, <3>2
  <2>2. c[0] = <<>> BY <1>2, <2>1
  <2>3. ASSUME NEW k \in 1 .. Len(s) PROVE c[k] = c[k - 1] \o s[k]
    <3>1. k \in 0 .. Len(s) /\ k # 0 BY <1>2
    <3> QED BY <2>1, <3>1
  <2> QED BY <2>2, <2>3
<1>4. Sums(s, Len(s), c)
  <2> SUFFICES ASSUME NEW i \in 1 .. Len(s)
               PROVE  c[i] = IF i = 1 THEN s[i] ELSE c[i - 1] \o s[i]
    BY DEF Sums
  <2>1. Sequence(s[i]) BY DEF Lists
  <2>2. c[i] = c[i - 1] \o s[i] BY <1>3
  <2>3. i = 1 => i - 1 = 0 OBVIOUS
  <2> QED BY <1>3, <2>1, <2>2, <2>3, JoinEmpty
<1> QED BY <1>1, <1>2, <1>3, <1>4, FlattenSeqSums
=============================================================================
