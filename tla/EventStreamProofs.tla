-------------------------- MODULE EventStreamProofs --------------------------
(* Machine-checked proofs about EventStream, for any readers and clients, any *)
(* capacity and any number of events.  Fairness is not used.                  *)
EXTENDS EventStream, SequenceTheorems, WellFoundedInduction, TLAPS

-----------------------------------------------------------------------------
(* Induction *)

\* Every non-empty set of natural numbers has a least element: with it a fact
\* about all numbers, or about sequences of every length, is proved from its
\* smallest counterexample.
LEMMA Least ==
  ASSUME NEW S \in SUBSET Nat, S # {}
  PROVE  \E m \in S : \A k \in S : m <= k
<1> DEFINE R == OpToRel(<, Nat)
<1>1. \A x, y \in Nat : x < y => <<x, y>> \in R
  BY DEF OpToRel
<1>2. \A T : T \subseteq Nat /\ T # {} => \E m \in T : \A k \in T : ~(<<k, m>> \in R)
  BY WFMin, NatLessThanWellFounded
<1> HIDE DEF R
<1>3. PICK m \in S : \A k \in S : ~(<<k, m>> \in R)
  BY <1>2
<1>4. \A k \in S : ~(k < m)
  BY <1>1, <1>3
<1> QED
  BY <1>4

-----------------------------------------------------------------------------
(* The filter of subscribe *)

\* f is the function that After computes, up to index N.
Filters(f, s, a, N) ==
  f = [i \in 0..N |-> IF i = 0 THEN <<>> ELSE IF s[i] > a THEN Append(f[i - 1], s[i]) ELSE f[i - 1]]

\* What a filter is at its indices.
LEMMA FilterAt ==
  ASSUME NEW f, NEW s, NEW a, NEW N \in Nat, Filters(f, s, a, N)
  PROVE  /\ f[0] = <<>>
         /\ \A i \in 1..N : f[i] = IF s[i] > a THEN Append(f[i - 1], s[i]) ELSE f[i - 1]
<1>1. \A i \in 0..N : f[i] = IF i = 0 THEN <<>> ELSE IF s[i] > a THEN Append(f[i - 1], s[i]) ELSE f[i - 1]
  BY DEF Filters
<1> QED
  BY <1>1

\* There is one for every length.
LEMMA FilterExists ==
  ASSUME NEW s, NEW a, NEW N \in Nat
  PROVE  \E f : Filters(f, s, a, N)
<1> SUFFICES ASSUME ~\E f : Filters(f, s, a, N) PROVE FALSE
  OBVIOUS
<1> DEFINE S == {n \in Nat : ~\E f : Filters(f, s, a, n)}
<1>1. S \in SUBSET Nat /\ S # {}
  OBVIOUS
<1>2. PICK m \in S : \A k \in S : m <= k
  BY <1>1, Least
<1>3. m # 0
  <2> DEFINE f == [i \in 0..0 |-> <<>>]
  <2>1. Filters(f, s, a, 0)
    BY DEF Filters
  <2> QED
    BY <2>1
<1>4. m - 1 \in Nat /\ m - 1 \notin S /\ m \in Nat
  BY <1>2, <1>3
<1>5. PICK f : Filters(f, s, a, m - 1)
  BY <1>4
<1> DEFINE g == [i \in 0..m |-> IF i < m THEN f[i]
                                ELSE IF s[m] > a THEN Append(f[m - 1], s[m]) ELSE f[m - 1]]
<1>6. f[0] = <<>> /\ \A i \in 1..(m - 1) : f[i] = IF s[i] > a THEN Append(f[i - 1], s[i]) ELSE f[i - 1]
  BY <1>4, <1>5, FilterAt
<1>7. \A i \in 0..m : g[i] = IF i = 0 THEN <<>> ELSE IF s[i] > a THEN Append(g[i - 1], s[i]) ELSE g[i - 1]
  <2> TAKE i \in 0..m
  <2>1. CASE i = 0
    BY <1>3, <1>4, <1>6, <2>1
  <2>2. CASE i = m
    <3>1. g[m - 1] = f[m - 1]
      BY <1>4
    <3> QED
      BY <1>3, <1>4, <2>2, <3>1
  <2>3. CASE i # 0 /\ i # m
    <3>1. i \in 1..(m - 1) /\ g[i] = f[i] /\ g[i - 1] = f[i - 1]
      BY <1>4, <2>3
    <3> QED
      BY <1>6, <2>3, <3>1
  <2> QED
    BY <2>1, <2>2, <2>3
<1>8. Filters(g, s, a, m)
  BY <1>7 DEF Filters
<1> QED
  BY <1>2, <1>8

\* After is such a function at the length of its sequence.
LEMMA AfterIsFilter ==
  ASSUME NEW s, NEW a, Len(s) \in Nat
  PROVE  \E f : Filters(f, s, a, Len(s)) /\ After(s, a) = f[Len(s)]
<1> DEFINE F == CHOOSE f : Filters(f, s, a, Len(s))
<1>1. After(s, a) = F[Len(s)]
  BY DEF After, Filters
<1>2. Filters(F, s, a, Len(s))
  BY FilterExists
<1> QED
  BY <1>1, <1>2

\* Of nothing nothing is kept.
LEMMA AfterEmpty == ASSUME NEW a PROVE After(<<>>, a) = <<>>
<1>1. PICK f : Filters(f, <<>>, a, 0) /\ After(<<>>, a) = f[0]
  BY AfterIsFilter
<1> QED
  BY <1>1, FilterAt

\* One more event is kept if its number is after a.
LEMMA AfterAppend ==
  ASSUME NEW s \in Seq(Nat), NEW a \in Int, NEW n \in Nat
  PROVE  After(Append(s, n), a) = IF n > a THEN Append(After(s, a), n) ELSE After(s, a)
<1> DEFINE t == Append(s, n)
           L == Len(s)
<1>1. L \in Nat /\ Len(t) = L + 1 /\ t[L + 1] = n /\ \A i \in 1..L : t[i] = s[i]
  OBVIOUS
<1> HIDE DEF t, L
<1>2. PICK f : Filters(f, s, a, L) /\ After(s, a) = f[L]
  BY <1>1, AfterIsFilter DEF L
<1>3. PICK g : Filters(g, t, a, L + 1) /\ After(t, a) = g[L + 1]
  <2>1. Len(t) \in Nat
    BY <1>1
  <2>2. \E g : Filters(g, t, a, Len(t)) /\ After(t, a) = g[Len(t)]
    BY <2>1, AfterIsFilter
  <2> QED
    BY <1>1, <2>2
<1>4. /\ f[0] = <<>> /\ g[0] = <<>>
      /\ \A i \in 1..L : f[i] = IF s[i] > a THEN Append(f[i - 1], s[i]) ELSE f[i - 1]
      /\ \A i \in 1..(L + 1) : g[i] = IF t[i] > a THEN Append(g[i - 1], t[i]) ELSE g[i - 1]
  BY <1>1, <1>2, <1>3, FilterAt
<1>5. \A i \in 0..L : f[i] = g[i]
  <2> DEFINE S == {i \in 0..L : f[i] # g[i]}
  <2>1. CASE S # {}
    <3>0. S \in SUBSET Nat
      BY <1>1
    <3>1. PICK m \in S : \A k \in S : m <= k
      BY <2>1, <3>0, Least
    <3>2. m \in 1..L /\ m - 1 \in 0..L /\ m - 1 \notin S
      BY <1>1, <1>4, <3>1
    <3>3. f[m - 1] = g[m - 1] /\ t[m] = s[m] /\ m \in 1..(L + 1)
      BY <1>1, <3>2
    <3> QED
      BY <1>4, <3>1, <3>2, <3>3
  <2> QED
    BY <2>1
<1>6. g[L + 1] = IF n > a THEN Append(g[L], n) ELSE g[L]
  BY <1>1, <1>4
<1> QED
  BY <1>1, <1>2, <1>3, <1>5, <1>6 DEF t

\* One more element: what is in the sequence, and whether one is in it twice.
LEMMA AppendElements ==
  ASSUME NEW s \in Seq(Nat), NEW n \in Nat
  PROVE  /\ ToSet(Append(s, n)) = ToSet(s) \cup {n}
         /\ IsInjective(Append(s, n)) <=> IsInjective(s) /\ n \notin ToSet(s)
<1> DEFINE t == Append(s, n)
           L == Len(s)
<1>1. /\ L \in Nat /\ DOMAIN s = 1..L /\ DOMAIN t = 1..(L + 1)
      /\ t[L + 1] = n /\ \A i \in 1..L : t[i] = s[i]
  OBVIOUS
<1> HIDE DEF t, L
<1>2. ToSet(t) = ToSet(s) \cup {n}
  <2>1. \A i \in 1..(L + 1) : i \in 1..L \/ i = L + 1
    BY <1>1
  <2>2. \A i \in 1..L : i \in 1..(L + 1)
    BY <1>1
  <2>3. L + 1 \in 1..(L + 1)
    BY <1>1
  <2> QED
    BY <1>1, <2>1, <2>2, <2>3 DEF ToSet
<1>3. ASSUME IsInjective(t) PROVE IsInjective(s) /\ n \notin ToSet(s)
  BY <1>1, <1>3 DEF IsInjective, ToSet
<1>4. ASSUME IsInjective(s), n \notin ToSet(s) PROVE IsInjective(t)
  <2> SUFFICES ASSUME NEW i \in 1..(L + 1), NEW j \in 1..(L + 1), t[i] = t[j] PROVE i = j
    BY <1>1 DEF IsInjective
  <2>1. CASE i \in 1..L /\ j \in 1..L
    BY <1>1, <1>4, <2>1 DEF IsInjective
  <2>2. CASE i = L + 1 /\ j \in 1..L
    BY <1>1, <1>4, <2>2 DEF ToSet
  <2>3. CASE i \in 1..L /\ j = L + 1
    BY <1>1, <1>4, <2>3 DEF ToSet
  <2> QED
    BY <1>1, <2>1, <2>2, <2>3
<1> QED
  BY <1>2, <1>3, <1>4 DEF t

\* What After returns: no more elements, those after a, none twice if there was
\* none twice, and itself when it is applied again.
AfterFacts(s, a) ==
  /\ After(s, a) \in Seq(Nat) /\ Len(After(s, a)) <= Len(s)
  /\ ToSet(After(s, a)) = {n \in ToSet(s) : n > a}
  /\ IsInjective(s) => IsInjective(After(s, a))
  /\ After(After(s, a), a) = After(s, a)

\* One more event keeps these facts.
LEMMA AfterFactsAppend ==
  ASSUME NEW s \in Seq(Nat), NEW a \in Int, NEW n \in Nat, AfterFacts(s, a)
  PROVE  AfterFacts(Append(s, n), a)
<1> DEFINE t == Append(s, n)
           A == After(s, a)
           B == After(t, a)
<1>1. B = IF n > a THEN Append(A, n) ELSE A
  BY AfterAppend
<1>2. A \in Seq(Nat) /\ Len(A) \in Nat /\ Len(s) \in Nat /\ Len(A) <= Len(s) /\ Len(t) = Len(s) + 1
  BY DEF AfterFacts
<1>3. ToSet(t) = ToSet(s) \cup {n} /\ (IsInjective(t) <=> IsInjective(s) /\ n \notin ToSet(s))
  BY AppendElements
<1>4. /\ ToSet(A) = {m \in ToSet(s) : m > a} /\ (IsInjective(s) => IsInjective(A))
      /\ After(A, a) = A
  BY DEF AfterFacts
<1>5. CASE n > a
  <2>1. B = Append(A, n)
    BY <1>1, <1>5
  <2>2. ToSet(Append(A, n)) = ToSet(A) \cup {n} /\ (IsInjective(Append(A, n)) <=> IsInjective(A) /\ n \notin ToSet(A))
    BY <1>2, AppendElements
  <2>3. After(Append(A, n), a) = Append(A, n)
    BY <1>2, <1>4, <1>5, AfterAppend
  <2>4. Append(A, n) \in Seq(Nat) /\ Len(Append(A, n)) = Len(A) + 1
    BY <1>2
  <2> HIDE DEF A, B, t
  <2>5. ToSet(B) = {m \in ToSet(t) : m > a}
    BY <1>3, <1>4, <1>5, <2>1, <2>2
  <2>6. IsInjective(t) => IsInjective(B)
    BY <1>3, <1>4, <2>1, <2>2
  <2>7. Len(B) <= Len(t) /\ B \in Seq(Nat) /\ After(B, a) = B
    BY <1>2, <2>1, <2>3, <2>4
  <2> QED
    BY <2>5, <2>6, <2>7 DEF AfterFacts, t, B
<1>6. CASE ~(n > a)
  <2>1. B = A
    BY <1>1, <1>6
  <2> HIDE DEF A, B, t
  <2>2. ToSet(B) = {m \in ToSet(t) : m > a}
    BY <1>3, <1>4, <1>6, <2>1
  <2>3. Len(B) <= Len(t)
    BY <1>2, <2>1
  <2> QED
    BY <1>2, <1>3, <1>4, <2>1, <2>2, <2>3 DEF AfterFacts, t, B
<1> QED
  BY <1>5, <1>6

\* The facts hold of every sequence.
LEMMA AfterAll ==
  ASSUME NEW a \in Int, NEW s \in Seq(Nat)
  PROVE  AfterFacts(s, a)
<1> SUFFICES ASSUME ~AfterFacts(s, a) PROVE FALSE
  OBVIOUS
<1> DEFINE Bad(r) == ~AfterFacts(r, a)
           S == {n \in Nat : \E r \in Seq(Nat) : Len(r) = n /\ Bad(r)}
<1>1. S \in SUBSET Nat /\ S # {}
  <2>1. Len(s) \in Nat
    OBVIOUS
  <2> HIDE DEF Bad
  <2>2. Bad(s)
    BY DEF Bad
  <2> QED
    BY <2>1, <2>2
<1>2. PICK m \in S : \A k \in S : m <= k
  BY <1>1, Least
<1>3. PICK r \in Seq(Nat) : Len(r) = m /\ Bad(r)
  BY <1>2
<1>4. r # <<>>
  <2>1. ToSet(<<>>) = {} /\ IsInjective(<<>>) /\ Len(<<>>) = 0 /\ <<>> \in Seq(Nat)
    BY DEF ToSet, IsInjective
  <2>2. After(<<>>, a) = <<>>
    BY AfterEmpty
  <2>3. {n \in {} : n > a} = {}
    OBVIOUS
  <2>4. Len(After(<<>>, a)) <= Len(<<>>)
    BY <2>1, <2>2
  <2>5. ToSet(After(<<>>, a)) = {n \in ToSet(<<>>) : n > a}
    BY <2>1, <2>2, <2>3
  <2>6. AfterFacts(<<>>, a)
    BY <2>1, <2>2, <2>4, <2>5, Zenon DEF AfterFacts
  <2> QED
    BY <1>3, <2>6
<1>5. PICK u \in Seq(Nat), n \in Nat : r = Append(u, n)
  BY <1>4, SequenceEmptyOrAppend
<1>6. Len(u) \in Nat /\ m = Len(u) + 1
  BY <1>3, <1>5
<1>7. AfterFacts(u, a)
  <2> HIDE DEF Bad
  <2>1. Bad(u) => Len(u) \in S
    BY <1>6
  <2>2. ~(m <= Len(u))
    BY <1>6
  <2>3. Len(u) \notin S
    BY <1>2, <2>2, Zenon
  <2> QED
    BY <2>1, <2>3 DEF Bad
<1> QED
  BY <1>3, <1>5, <1>7, AfterFactsAppend

-----------------------------------------------------------------------------
(* What the client got, is replayed and receives *)

\* The elements of two sequences in a row.
LEMMA ConcatElements ==
  ASSUME NEW s \in Seq(Nat), NEW t \in Seq(Nat)
  PROVE  s \o t \in Seq(Nat) /\ ToSet(s \o t) = ToSet(s) \cup ToSet(t)
<1>1. Range(s \o t) = Range(s) \cup Range(t)
  BY RangeConcatenation
<1>2. \A u : Range(u) = ToSet(u)
  BY DEF Range, ToSet
<1> QED
  BY <1>1, <1>2

\* Concatenation is associative.
LEMMA Concat3 ==
  \A s, t, u \in Seq(Nat) : (s \o t) \o u = s \o (t \o u)
OBVIOUS

\* An event that arrives at the end of t arrives at the end of all.
LEMMA ConcatAppend ==
  ASSUME NEW s \in Seq(Nat), NEW t \in Seq(Nat), NEW n \in Nat
  PROVE  s \o Append(t, n) = Append(s \o t, n)
<1>1. <<n>> \in Seq(Nat) /\ s \o t \in Seq(Nat)
  OBVIOUS
<1>2. Append(t, n) = t \o <<n>> /\ Append(s \o t, n) = (s \o t) \o <<n>>
  BY <1>1, AppendIsConcat
<1> QED
  BY <1>1, <1>2, ConcatAssociative

\* The first event of t moves to the end of s, and the whole is the same.
LEMMA MoveHead ==
  ASSUME NEW s \in Seq(Nat), NEW t \in Seq(Nat), t # <<>>
  PROVE  /\ Head(t) \in Nat /\ Tail(t) \in Seq(Nat) /\ Len(Tail(t)) <= Len(t)
         /\ ToSet(t) = {Head(t)} \cup ToSet(Tail(t))
         /\ Append(s, Head(t)) \in Seq(Nat) /\ Append(s, Head(t)) \o Tail(t) = s \o t
<1> DEFINE h == Head(t)
           u == Tail(t)
<1>1. h \in Nat /\ u \in Seq(Nat) /\ <<h>> \in Seq(Nat) /\ Len(u) <= Len(t)
  OBVIOUS
<1>2. t = <<h>> \o u
  OBVIOUS
<1> HIDE DEF h, u
<1>3. Append(s, h) = s \o <<h>> /\ Append(s, h) \in Seq(Nat)
  BY <1>1, AppendIsConcat
<1>4. (s \o <<h>>) \o u = s \o (<<h>> \o u)
  <2> DEFINE v == <<h>>
  <2>1. s \in Seq(Nat) /\ v \in Seq(Nat) /\ u \in Seq(Nat)
    BY <1>1
  <2> HIDE DEF v
  <2>2. (s \o v) \o u = s \o (v \o u)
    BY <2>1, Concat3, Zenon
  <2> QED
    BY <2>2 DEF v
<1>5. ToSet(<<h>> \o u) = ToSet(<<h>>) \cup ToSet(u)
  BY <1>1, ConcatElements
<1>6. ToSet(<<h>>) = {h}
  BY DEF ToSet
<1> QED
  BY <1>1, <1>2, <1>3, <1>4, <1>5, <1>6 DEF h, u

\* Newest keeps at most Cap elements, and all of a sequence that is not longer.
LEMMA NewestFacts ==
  ASSUME NEW s \in Seq(Nat)
  PROVE  /\ Newest(s) \in Seq(Nat) /\ Len(Newest(s)) <= Cap /\ ToSet(Newest(s)) \subseteq ToSet(s)
         /\ Len(s) <= Cap => Newest(s) = s
         /\ Len(s) <= Len(Newest(s)) => Newest(s) = s
         /\ Len(s) >= Cap => Len(Newest(s)) = Cap /\ \A i \in 1..Cap : Newest(s)[i] = s[Len(s) - Cap + i]
<1>1. Cap \in Nat /\ Cap > 0 /\ Len(s) \in Nat
  BY StreamAssumption
<1>2. CASE Len(s) > Cap
  <2> DEFINE m == Len(s) - Cap + 1
             u == SubSeq(s, m, Len(s))
  <2>1. m \in Int /\ Len(s) - m + 1 = Cap /\ m <= Len(s) /\ m > 0
    BY <1>1, <1>2
  <2>2. \A i \in m..Len(s) : s[i] \in Nat
    BY <1>1, <2>1
  <2>3. u \in Seq(Nat) /\ Len(u) = Cap /\ \A i \in 1..Cap : u[i] = s[m + i - 1]
    <3> HIDE DEF m
    <3> QED
      BY <1>1, <2>1, <2>2, SubSeqProperties
  <2>4. Newest(s) = u
    BY <1>2 DEF Newest
  <2>5. \A i \in 1..Cap : m + i - 1 \in 1..Len(s) /\ m + i - 1 = Len(s) - Cap + i
    BY <1>1, <1>2
  <2> HIDE DEF m, u
  <2>6. ToSet(u) \subseteq ToSet(s)
    <3>1. DOMAIN u = 1..Cap /\ DOMAIN s = 1..Len(s)
      BY <2>3
    <3> QED
      BY <2>3, <2>5, <3>1 DEF ToSet
  <2> QED
    BY <1>1, <1>2, <2>3, <2>4, <2>5, <2>6
<1>3. CASE ~(Len(s) > Cap)
  <2>1. Newest(s) = s
    BY <1>3 DEF Newest
  <2> QED
    BY <1>1, <1>3, <2>1
<1> QED
  BY <1>2, <1>3

\* The history stays the newest of what was pushed.
LEMMA NewestAppend ==
  ASSUME NEW s \in Seq(Nat), NEW n \in Nat
  PROVE  Newest(Append(Newest(s), n)) = Newest(Append(s, n))
<1>1. Cap \in Nat /\ Cap > 0 /\ Len(s) \in Nat
  BY StreamAssumption
<1>2. CASE Len(s) <= Cap
  BY <1>2, NewestFacts
<1>3. CASE Len(s) > Cap
  <2> DEFINE w == Newest(s)
             x == Append(w, n)
             y == Append(s, n)
  <2>1. w \in Seq(Nat) /\ Len(w) = Cap /\ \A i \in 1..Cap : w[i] = s[Len(s) - Cap + i]
    BY <1>1, <1>3, NewestFacts
  <2> HIDE DEF w
  <2>2. x \in Seq(Nat) /\ Len(x) = Cap + 1 /\ x[Cap + 1] = n /\ \A i \in 1..Cap : x[i] = w[i]
    BY <1>1, <2>1
  <2>3. y \in Seq(Nat) /\ Len(y) = Len(s) + 1 /\ y[Len(s) + 1] = n /\ \A i \in 1..Len(s) : y[i] = s[i]
    BY <1>1
  <2> HIDE DEF x, y
  <2>4. Newest(x) \in Seq(Nat) /\ Len(Newest(x)) = Cap /\ \A i \in 1..Cap : Newest(x)[i] = x[Len(x) - Cap + i]
    <3>1. Len(x) >= Cap
      BY <1>1, <2>2
    <3> QED
      BY <2>2, <3>1, NewestFacts
  <2>5. Newest(y) \in Seq(Nat) /\ Len(Newest(y)) = Cap /\ \A i \in 1..Cap : Newest(y)[i] = y[Len(y) - Cap + i]
    <3>1. Len(y) >= Cap
      BY <1>1, <1>3, <2>3
    <3> QED
      BY <2>3, <3>1, NewestFacts
  <2>6. \A i \in 1..Cap : Newest(x)[i] = Newest(y)[i]
    <3> TAKE i \in 1..Cap
    <3>1. Newest(x)[i] = x[i + 1] /\ Newest(y)[i] = y[Len(s) + 1 - Cap + i]
      BY <1>1, <2>2, <2>3, <2>4, <2>5
    <3>2. CASE i = Cap
      BY <1>1, <2>2, <2>3, <3>1, <3>2
    <3>3. CASE i # Cap
      <4>1. i + 1 \in 1..Cap /\ Len(s) + 1 - Cap + i \in 1..Len(s) /\ Len(s) - Cap + (i + 1) = Len(s) + 1 - Cap + i
        BY <1>1, <1>3, <3>3
      <4>2. Newest(x)[i] = w[i + 1]
        BY <2>2, <3>1, <4>1, Zenon
      <4>3. w[i + 1] = s[Len(s) + 1 - Cap + i]
        BY <2>1, <4>1
      <4>4. Newest(y)[i] = s[Len(s) + 1 - Cap + i]
        BY <2>3, <3>1, <4>1, Zenon
      <4> QED
        BY <4>2, <4>3, <4>4
    <3> QED
      BY <3>2, <3>3
  <2>7. Newest(x) = Newest(y)
    BY <2>4, <2>5, <2>6, SeqEqual
  <2> QED
    BY <2>7 DEF w, x, y
<1> QED
  BY <1>1, <1>2, <1>3

-----------------------------------------------------------------------------
(* One connection *)

\* EventStream's predicates on one client, of its connection k, the numbers S
\* that were pushed, what it has seen s, the number d of `done`, whether the
\* channel is open and what it was sent.
Fits(k, S, s, d, open) ==
  /\ Len(k.replay) <= Cap /\ Len(k.q) <= Cap
  /\ ToSet(k.replay) \cup ToSet(k.q) \cup s \subseteq S /\ ToSet(k.got) \subseteq s
  /\ {k.last, k.after} \subseteq S \cup {None}
  /\ k.st = "live" => k.replay = <<>>
  /\ k.st \in Active /\ ~k.closed => open
  /\ k.st \in Active /\ k.after = None /\ ~k.partial =>
       /\ k.ends => d \in ToSet(k.got) \cup ToSet(k.replay)
       /\ k.closed => d \in ToSet(k.got) \cup ToSet(k.replay) \cup ToSet(k.q)

All(k) == k.got \o k.replay \o k.q

Meets(k, sent) ==
  k.st \in Active /\ ~k.closed /\ ~k.partial =>
    IsInjective(All(k)) /\ k.after \notin ToSet(All(k)) /\ After(All(k), k.after) = After(sent, k.after)

Ends(k, d) ==
  k.st = "ended" /\ k.after = None /\ ~k.partial => d # None /\ d \in ToSet(k.got)

Good(k, S, s, d, open, sent) ==
  k \in Connection /\ Fits(k, S, s, d, open) /\ Meets(k, sent) /\ Ends(k, d)

\* The events of a connection, and that they are its three parts.
LEMMA AllParts ==
  ASSUME NEW k \in Connection
  PROVE  All(k) \in Seq(Nat) /\ ToSet(All(k)) = ToSet(k.got) \cup ToSet(k.replay) \cup ToSet(k.q)
<1>1. k.got \in Seq(Nat) /\ k.replay \in Seq(Nat) /\ k.q \in Seq(Nat)
  BY DEF Connection
<1>2. k.got \o k.replay \in Seq(Nat) /\ ToSet(k.got \o k.replay) = ToSet(k.got) \cup ToSet(k.replay)
  BY <1>1, ConcatElements
<1> QED
  BY <1>1, <1>2, ConcatElements DEF All

\* A new event reaches the receiver, once, and in the order of the bus.
LEMMA GoodPush ==
  ASSUME NEW k, NEW S \in SUBSET Nat, NEW s, NEW d \in Int, NEW open \in BOOLEAN, NEW sent \in Seq(Nat),
         NEW n \in Nat, n \notin S, Good(k, S, s, d, open, sent)
  PROVE  Good(Received(k, n), S \cup {n}, s, d, TRUE, Append(IF open THEN sent ELSE <<>>, n))
<1>1. k \in Connection /\ Fits(k, S, s, d, open) /\ Meets(k, sent) /\ Ends(k, d)
  BY DEF Good
<1>2. CASE ~(k.st \in Active /\ ~k.closed)
  <2>1. Received(k, n) = k
    BY <1>2 DEF Received
  <2>2. Meets(k, Append(IF open THEN sent ELSE <<>>, n))
    BY <1>2 DEF Meets
  <2>3. Fits(k, S \cup {n}, s, d, TRUE)
    BY <1>1 DEF Fits
  <2> QED
    BY <1>1, <2>1, <2>2, <2>3 DEF Good
<1>3. CASE k.st \in Active /\ ~k.closed
  <2> DEFINE j == Received(k, n)
             a == Append(k.q, n)
  <2>0. Cap \in Nat /\ Len(k.q) \in Nat
    BY <1>1, StreamAssumption DEF Connection
  <2>1. a \in Seq(Nat) /\ Len(a) = Len(k.q) + 1 /\ ToSet(a) = ToSet(k.q) \cup {n}
    BY <1>1, AppendElements DEF Connection
  <2>2. /\ Newest(a) \in Seq(Nat) /\ Len(Newest(a)) <= Cap /\ ToSet(Newest(a)) \subseteq ToSet(a)
        /\ Len(a) <= Cap => Newest(a) = a
    BY <2>1, NewestFacts
  <2>3. j = [k EXCEPT !.q = Newest(a), !.partial = @ \/ Len(k.q) = Cap]
    BY <1>3 DEF Received
  <2>4. /\ j \in Connection /\ j.st = k.st /\ j.replay = k.replay /\ j.closed = k.closed /\ j.ends = k.ends
        /\ j.after = k.after /\ j.last = k.last /\ j.got = k.got
        /\ j.q = Newest(a) /\ (j.partial <=> k.partial \/ Len(k.q) = Cap)
    BY <1>1, <2>2, <2>3 DEF Connection
  <2>5. open /\ Len(k.q) <= Cap
    BY <1>1, <1>3 DEF Fits
  <2> HIDE DEF j, a
  <2>6. Fits(j, S \cup {n}, s, d, TRUE)
    <3>1. ToSet(j.replay) \cup ToSet(j.q) \cup s \subseteq S \cup {n}
      BY <1>1, <2>1, <2>2, <2>4 DEF Fits
    <3> QED
      BY <1>1, <1>3, <2>2, <2>4, <3>1 DEF Fits
  <2>7. Ends(j, d)
    BY <1>3, <2>4 DEF Ends, Active
  <2>8. Meets(j, Append(sent, n))
    <3> SUFFICES ASSUME ~j.partial
                 PROVE  IsInjective(All(j)) /\ j.after \notin ToSet(All(j)) /\ After(All(j), j.after) = After(Append(sent, n), j.after)
      BY DEF Meets
    <3>0. ~k.partial /\ Len(k.q) # Cap
      BY <2>4
    <3>1. ~k.partial /\ Len(a) <= Cap
      BY <2>0, <2>1, <2>5, <3>0
    <3>2. j.q = Append(k.q, n)
      BY <2>2, <2>4, <3>1 DEF a
    <3>3. All(j) = Append(All(k), n)
      <4>1. k.got \o k.replay \in Seq(Nat) /\ k.q \in Seq(Nat)
        BY <1>1, ConcatElements DEF Connection
      <4>2. (k.got \o k.replay) \o Append(k.q, n) = Append((k.got \o k.replay) \o k.q, n)
        BY <4>1, ConcatAppend, Zenon
      <4> QED
        BY <2>4, <3>2, <4>2, Zenon DEF All
    <3>4. All(k) \in Seq(Nat) /\ ToSet(All(k)) \subseteq S
      BY <1>1, AllParts DEF Fits
    <3>5. IsInjective(All(k)) /\ k.after \notin ToSet(All(k)) /\ After(All(k), k.after) = After(sent, k.after)
      BY <1>1, <1>3, <3>1 DEF Meets
    <3>6. k.after # n /\ k.after \in Int
      BY <1>1 DEF Fits, None, Connection
    <3>7. IsInjective(All(j)) /\ ToSet(All(j)) = ToSet(All(k)) \cup {n}
      BY <3>3, <3>4, <3>5, AppendElements
    <3>8. After(All(j), k.after) = After(Append(sent, n), k.after)
      <4>1. After(Append(All(k), n), k.after) = IF n > k.after THEN Append(After(All(k), k.after), n) ELSE After(All(k), k.after)
        BY <3>4, <3>6, AfterAppend
      <4>2. After(Append(sent, n), k.after) = IF n > k.after THEN Append(After(sent, k.after), n) ELSE After(sent, k.after)
        BY <3>6, AfterAppend
      <4> QED
        BY <3>3, <3>5, <4>1, <4>2
    <3> QED
      BY <2>4, <3>5, <3>6, <3>7, <3>8
  <2> QED
    BY <2>4, <2>5, <2>6, <2>7, <2>8 DEF Good, j
<1> QED
  BY <1>2, <1>3

\* When `done` takes its number, no connection waits for it or has ended on it.
LEMMA GoodTakeDone ==
  ASSUME NEW k, NEW S \in SUBSET Nat, NEW s, NEW d \in Nat, NEW open, NEW sent, Good(k, S, s, None, open, sent)
  PROVE  Good(k, S, s, d, open, sent)
<1>1. k \in Connection /\ Fits(k, S, s, None, open) /\ Meets(k, sent) /\ Ends(k, None)
  BY DEF Good
<1>2. None \notin ToSet(k.got) \cup ToSet(k.replay) \cup ToSet(k.q)
  <2>1. ToSet(k.got) \cup ToSet(k.replay) \cup ToSet(k.q) \subseteq S
    BY <1>1 DEF Fits
  <2>2. None \notin Nat
    BY DEF None
  <2> QED
    BY <2>1, <2>2
<1>3. Fits(k, S, s, d, open)
  BY <1>1, <1>2 DEF Fits
<1>4. Ends(k, d)
  BY <1>1 DEF Ends
<1> QED
  BY <1>1, <1>3, <1>4 DEF Good

\* The collector closes the receiver of a connection that has had, or still
\* comes to, `done`.
LEMMA GoodClose ==
  ASSUME NEW k, NEW S \in SUBSET Nat, NEW s, NEW d \in Nat, NEW sent \in Seq(Nat), d \in ToSet(sent),
         Good(k, S, s, d, TRUE, sent)
  PROVE  Good(IF k.st \in Active THEN [k EXCEPT !.closed = TRUE] ELSE k, S, s, d, FALSE, sent)
<1>1. k \in Connection /\ Fits(k, S, s, d, TRUE) /\ Meets(k, sent) /\ Ends(k, d)
  BY DEF Good
<1>2. CASE k.st \notin Active
  <2>1. Fits(k, S, s, d, FALSE)
    BY <1>1, <1>2 DEF Fits
  <2> QED
    BY <1>1, <1>2, <2>1 DEF Good
<1>3. CASE k.st \in Active
  <2> DEFINE j == [k EXCEPT !.closed = TRUE]
  <2>1. /\ j \in Connection /\ j.st = k.st /\ j.replay = k.replay /\ j.closed /\ j.ends = k.ends
        /\ j.after = k.after /\ j.last = k.last /\ j.got = k.got /\ j.q = k.q /\ j.partial = k.partial
    BY <1>1 DEF Connection
  <2> HIDE DEF j
  <2>2. ASSUME k.after = None, ~k.partial
        PROVE  d \in ToSet(k.got) \cup ToSet(k.replay) \cup ToSet(k.q)
    <3>1. CASE k.closed
      BY <1>1, <1>3, <2>2, <3>1 DEF Fits
    <3>2. CASE ~k.closed
      <4>1. After(All(k), None) = After(sent, None)
        BY <1>1, <1>3, <2>2, <3>2 DEF Meets
      <4>2. All(k) \in Seq(Nat) /\ ToSet(All(k)) = ToSet(k.got) \cup ToSet(k.replay) \cup ToSet(k.q)
        BY <1>1, AllParts
      <4>3. AfterFacts(All(k), None) /\ AfterFacts(sent, None)
        BY <4>2, AfterAll DEF None
      <4>4. d > None
        BY DEF None
      <4>5. d \in ToSet(After(sent, None))
        BY <4>3, <4>4 DEF AfterFacts
      <4> QED
        BY <4>1, <4>2, <4>3, <4>5 DEF AfterFacts
    <3> QED
      BY <3>1, <3>2
  <2>3. Fits(j, S, s, d, FALSE)
    BY <1>1, <1>3, <2>1, <2>2 DEF Fits
  <2>4. Meets(j, sent) /\ Ends(j, d)
    BY <1>3, <2>1 DEF Meets, Ends, Active
  <2> QED
    BY <1>3, <2>1, <2>3, <2>4 DEF Good, j
<1> QED
  BY <1>2, <1>3

\* A new connection holds the snapshot, which is the whole of what was sent if
\* nothing was trimmed.
LEMMA GoodSubscribe ==
  ASSUME NEW k, NEW S \in SUBSET Nat, NEW s, NEW d \in Int, NEW sent \in Seq(Nat), NEW done \in BOOLEAN,
         IsInjective(sent), ToSet(sent) \subseteq S, done => d \in ToSet(sent), d = None \/ d \in Nat,
         Good(k, S, s, d, TRUE, sent)
  PROVE  Good([NoConnection EXCEPT !.st = "replay", !.replay = After(Newest(sent), k.last),
                                   !.ends = done, !.after = k.last, !.last = k.last,
                                   !.partial = Len(sent) > Len(Newest(sent))], S, s, d, TRUE, sent)
<1> DEFINE h == Newest(sent)
           r == After(h, k.last)
           p == Len(sent) > Len(h)
           j == [NoConnection EXCEPT !.st = "replay", !.replay = r, !.ends = done, !.after = k.last,
                                     !.last = k.last, !.partial = p]
<1>1. k.last \in Int /\ k.last \in S \cup {None} /\ s \subseteq S
  BY DEF Good, Fits, Connection
<1>2. /\ h \in Seq(Nat) /\ Len(h) <= Cap /\ ToSet(h) \subseteq ToSet(sent)
      /\ Len(sent) <= Len(h) => h = sent
  BY NewestFacts
<1>3. Len(sent) \in Nat /\ Len(h) \in Nat /\ Cap \in Nat
  BY <1>2, StreamAssumption
<1> HIDE DEF h
<1>4. ~p => h = sent
  BY <1>2, <1>3
<1>5. AfterFacts(h, k.last)
  BY <1>1, <1>2, AfterAll
<1>6. /\ r \in Seq(Nat) /\ Len(r) <= Cap /\ ToSet(r) = {n \in ToSet(h) : n > k.last}
      /\ IsInjective(h) => IsInjective(r)
      /\ After(r, k.last) = r
  <2>1. r \in Seq(Nat) /\ Len(r) <= Len(h)
    BY <1>5 DEF AfterFacts
  <2>2. Len(r) <= Cap
    BY <1>2, <1>3, <2>1
  <2> QED
    BY <1>5, <2>1, <2>2 DEF AfterFacts
<1> HIDE DEF r
<1>7. p \in BOOLEAN
  OBVIOUS
<1> HIDE DEF p
<1>8. /\ j \in Connection /\ j.st = "replay" /\ j.replay = r /\ j.q = <<>> /\ ~j.closed /\ (j.ends <=> done)
      /\ j.after = k.last /\ j.last = k.last /\ j.got = <<>> /\ (j.partial <=> p)
  <2>1. NoConnection \in Connection /\ NoConnection.q = <<>> /\ NoConnection.got = <<>> /\ ~NoConnection.closed
    BY DEF NoConnection, Connection, None
  <2>2. "replay" \in Active \cup {"off", "ended"}
    BY DEF Active
  <2> QED
    BY <1>1, <1>6, <1>7, <2>1, <2>2 DEF Connection
<1> HIDE DEF j
<1>9. ToSet(<<>>) = {} /\ Len(<<>>) = 0
  BY DEF ToSet
<1>10. Fits(j, S, s, d, TRUE)
  <2>1. ToSet(r) \subseteq S
    BY <1>2, <1>6
  <2>2. Len(j.replay) <= Cap /\ Len(j.q) <= Cap
    BY <1>3, <1>6, <1>8, <1>9
  <2>3. ToSet(j.replay) \cup ToSet(j.q) \cup s \subseteq S /\ ToSet(j.got) \subseteq s
    BY <1>1, <1>8, <1>9, <2>1
  <2>4. ASSUME j.after = None, ~j.partial, j.ends PROVE d \in ToSet(j.replay)
    <3>1. d \in ToSet(h)
      BY <1>4, <1>8, <2>4
    <3>2. d \in Nat
      BY <1>8, <2>4
    <3>3. d > k.last
      BY <1>8, <2>4, <3>2 DEF None
    <3> QED
      BY <1>6, <1>8, <3>1, <3>3
  <2> QED
    BY <1>1, <1>8, <2>2, <2>3, <2>4 DEF Fits
<1>11. Meets(j, sent)
  <2> SUFFICES ASSUME ~p PROVE IsInjective(All(j)) /\ j.after \notin ToSet(All(j)) /\ After(All(j), j.after) = After(sent, j.after)
    BY <1>8 DEF Meets
  <2>1. All(j) = r
    BY <1>6, <1>8, ConcatEmptySeq DEF All
  <2>2. h = sent
    BY <1>4
  <2>3. k.last \notin ToSet(r)
    BY <1>1, <1>6
  <2> QED
    BY <1>6, <1>8, <2>1, <2>2, <2>3 DEF r
<1>12. Ends(j, d)
  BY <1>8 DEF Ends
<1>13. Good(j, S, s, d, TRUE, sent)
  BY <1>8, <1>10, <1>11, <1>12 DEF Good
<1> QED
  BY <1>13 DEF j, p, r, h

\* What yielding an event does to a connection.
YieldOf(j, k, n) ==
  /\ j \in Connection /\ j.st = k.st /\ j.replay = k.replay /\ j.closed = k.closed /\ j.ends = k.ends
  /\ j.after = k.after /\ j.last = n /\ j.got = Append(k.got, n) /\ j.q = k.q /\ j.partial = k.partial

LEMMA Yielded ==
  ASSUME NEW k \in Connection, NEW n \in Nat
  PROVE  YieldOf([k EXCEPT !.got = Append(@, n), !.last = n], k, n)
<1> DEFINE g == Append(k.got, n)
           j == [k EXCEPT !.got = g, !.last = n]
<1>1. k.got \in Seq(Nat) /\ n \in Int
  BY DEF Connection
<1>2. g \in Seq(Nat)
  BY <1>1
<1> HIDE DEF g
<1>3. /\ j \in Connection /\ j.st = k.st /\ j.replay = k.replay /\ j.closed = k.closed /\ j.ends = k.ends
      /\ j.after = k.after /\ j.last = n /\ j.got = g /\ j.q = k.q /\ j.partial = k.partial
  BY <1>1, <1>2 DEF Connection
<1> QED
  BY <1>3 DEF g, YieldOf

\* An event moves from the snapshot to the client.
LEMMA GoodReplay ==
  ASSUME NEW k, NEW S \in SUBSET Nat, NEW s, NEW d, NEW open, NEW sent, Good(k, S, s, d, open, sent),
         k.st = "replay", k.replay # <<>>
  PROVE  /\ Good([[k EXCEPT !.replay = Tail(@)] EXCEPT !.got = Append(@, Head(k.replay)), !.last = Head(k.replay)],
                 S, s \cup {Head(k.replay)}, d, open, sent)
         /\ Head(k.replay) \in Nat
<1> DEFINE n == Head(k.replay)
           j == [[k EXCEPT !.replay = Tail(@)] EXCEPT !.got = Append(@, n), !.last = n]
           g == Append(k.got, n)
           u == Tail(k.replay)
           i == [k EXCEPT !.replay = u]
<1>1. k \in Connection /\ Fits(k, S, s, d, open) /\ Meets(k, sent) /\ Ends(k, d)
  BY DEF Good
<1>2. k.got \in Seq(Nat) /\ k.replay \in Seq(Nat) /\ k.q \in Seq(Nat)
  BY <1>1 DEF Connection
<1>3. /\ n \in Nat /\ u \in Seq(Nat) /\ Len(u) <= Len(k.replay) /\ ToSet(k.replay) = {n} \cup ToSet(u)
      /\ g \in Seq(Nat) /\ g \o u = k.got \o k.replay
  BY <1>2, MoveHead
<1>4. ToSet(g) = ToSet(k.got) \cup {n}
  BY <1>2, <1>3, AppendElements
<1>5. /\ j \in Connection /\ j.st = k.st /\ j.replay = u /\ j.closed = k.closed /\ j.ends = k.ends
      /\ j.after = k.after /\ j.last = n /\ j.got = g /\ j.q = k.q /\ j.partial = k.partial
  <2>1. j = [i EXCEPT !.got = Append(@, n), !.last = n]
    OBVIOUS
  <2> HIDE DEF j, u
  <2>2. /\ i \in Connection /\ i.st = k.st /\ i.replay = u /\ i.closed = k.closed /\ i.ends = k.ends
        /\ i.after = k.after /\ i.got = k.got /\ i.q = k.q /\ i.partial = k.partial
    BY <1>1, <1>3 DEF Connection
  <2> HIDE DEF i, n
  <2>3. YieldOf([i EXCEPT !.got = Append(@, n), !.last = n], i, n)
    BY <1>3, <2>2, Yielded
  <2> QED
    BY <2>1, <2>2, <2>3 DEF YieldOf
<1>6. Len(u) <= Cap
  BY <1>1, <1>2, <1>3, StreamAssumption DEF Fits
<1> HIDE DEF j, g, u, n
<1>7. Fits(j, S, s \cup {n}, d, open)
  <2>1. ToSet(j.got) \cup ToSet(j.replay) = ToSet(k.got) \cup ToSet(k.replay)
    BY <1>3, <1>4, <1>5
  <2>2. n \in S
    BY <1>1, <1>3 DEF Fits
  <2>3. ToSet(j.replay) \cup ToSet(j.q) \cup (s \cup {n}) \subseteq S /\ ToSet(j.got) \subseteq s \cup {n}
    BY <1>1, <1>3, <1>4, <1>5, <2>2 DEF Fits
  <2> QED
    BY <1>1, <1>5, <1>6, <2>1, <2>2, <2>3 DEF Fits
<1>8. All(j) = All(k)
  BY <1>3, <1>5 DEF All
<1>9. Meets(j, sent)
  BY <1>1, <1>5, <1>8 DEF Meets
<1>10. Ends(j, d)
  BY <1>5 DEF Ends
<1>11. Good(j, S, s \cup {n}, d, open, sent)
  BY <1>5, <1>7, <1>9, <1>10 DEF Good
<1> QED
  BY <1>3, <1>11 DEF j, n

\* An event moves from the receiver to the client; after `done` the stream ends.
LEMMA GoodRecv ==
  ASSUME NEW k, NEW S \in SUBSET Nat, NEW s, NEW d, NEW open, NEW sent, Good(k, S, s, d, open, sent),
         k.st = "live", k.q # <<>>
  PROVE  /\ Good([[k EXCEPT !.q = Tail(@), !.st = IF Head(k.q) = d THEN "ended" ELSE @]
                   EXCEPT !.got = Append(@, Head(k.q)), !.last = Head(k.q)],
                 S, s \cup {Head(k.q)}, d, open, sent)
         /\ Head(k.q) \in Nat
<1> DEFINE n == Head(k.q)
           t == IF n = d THEN "ended" ELSE k.st
           j == [[k EXCEPT !.q = Tail(@), !.st = IF n = d THEN "ended" ELSE @]
                  EXCEPT !.got = Append(@, n), !.last = n]
           g == Append(k.got, n)
           u == Tail(k.q)
           i == [k EXCEPT !.q = u, !.st = t]
<1>1. k \in Connection /\ Fits(k, S, s, d, open) /\ Meets(k, sent) /\ Ends(k, d)
  BY DEF Good
<1>2. k.got \in Seq(Nat) /\ k.replay \in Seq(Nat) /\ k.q \in Seq(Nat)
  BY <1>1 DEF Connection
<1>3. /\ n \in Nat /\ u \in Seq(Nat) /\ Len(u) <= Len(k.q) /\ ToSet(k.q) = {n} \cup ToSet(u)
      /\ g \in Seq(Nat) /\ g \o u = k.got \o k.q
  BY <1>2, MoveHead
<1>4. ToSet(g) = ToSet(k.got) \cup {n}
  BY <1>2, <1>3, AppendElements
<1>5. /\ j \in Connection /\ j.st = t /\ j.replay = k.replay /\ j.closed = k.closed /\ j.ends = k.ends
      /\ j.after = k.after /\ j.last = n /\ j.got = g /\ j.q = u /\ j.partial = k.partial
  <2>1. j = [i EXCEPT !.got = Append(@, n), !.last = n]
    OBVIOUS
  <2>2. t \in Active \cup {"off", "ended"}
    BY DEF Active
  <2> HIDE DEF j, u, t
  <2>3. /\ i \in Connection /\ i.st = t /\ i.replay = k.replay /\ i.closed = k.closed /\ i.ends = k.ends
        /\ i.after = k.after /\ i.got = k.got /\ i.q = u /\ i.partial = k.partial
    BY <1>1, <1>3, <2>2 DEF Connection
  <2> HIDE DEF i, n
  <2>4. YieldOf([i EXCEPT !.got = Append(@, n), !.last = n], i, n)
    BY <1>3, <2>3, Yielded
  <2> QED
    BY <2>1, <2>3, <2>4 DEF YieldOf
<1>6. Len(u) <= Cap /\ k.replay = <<>>
  BY <1>1, <1>2, <1>3, StreamAssumption DEF Fits
<1>7. t \in {"live", "ended"} /\ (t = "ended" => n = d)
  OBVIOUS
<1> HIDE DEF j, g, u, n, t
<1>8. Fits(j, S, s \cup {n}, d, open)
  <2>1. ToSet(j.got) \cup ToSet(j.replay) \cup ToSet(j.q) = ToSet(k.got) \cup ToSet(k.replay) \cup ToSet(k.q)
    BY <1>3, <1>4, <1>5
  <2>2. n \in S
    BY <1>1, <1>3 DEF Fits
  <2>3. ToSet(j.replay) \cup ToSet(j.q) \cup (s \cup {n}) \subseteq S /\ ToSet(j.got) \subseteq s \cup {n}
    BY <1>1, <1>3, <1>4, <1>5, <2>2 DEF Fits
  <2>4. j.st \in Active => k.st \in Active
    BY DEF Active
  <2>5. ToSet(k.got) \cup ToSet(k.replay) \subseteq ToSet(j.got) \cup ToSet(j.replay)
    BY <1>4, <1>5
  <2>6. Len(j.replay) <= Cap /\ Len(j.q) <= Cap /\ {j.last, j.after} \subseteq S \cup {None}
    BY <1>1, <1>5, <1>6, <2>2 DEF Fits
  <2>7. (j.st = "live" => j.replay = <<>>) /\ (j.st \in Active /\ ~j.closed => open)
    BY <1>1, <1>5, <1>6, <2>4 DEF Fits
  <2>8. ASSUME j.st \in Active, j.after = None, ~j.partial
        PROVE  /\ j.ends => d \in ToSet(j.got) \cup ToSet(j.replay)
               /\ j.closed => d \in ToSet(j.got) \cup ToSet(j.replay) \cup ToSet(j.q)
    BY <1>1, <1>5, <2>1, <2>4, <2>5, <2>8 DEF Fits
  <2> QED
    BY <2>3, <2>6, <2>7, <2>8 DEF Fits
<1>9. All(j) = All(k)
  <2>1. k.got \o <<>> = k.got /\ g \o <<>> = g
    BY <1>2, <1>3, ConcatEmptySeq
  <2> QED
    BY <1>3, <1>5, <1>6, <2>1 DEF All
<1>10. Meets(j, sent)
  BY <1>1, <1>5, <1>9 DEF Meets, Active
<1>11. Ends(j, d)
  <2> SUFFICES ASSUME j.st = "ended" PROVE d # None /\ d \in ToSet(j.got)
    BY DEF Ends
  <2> QED
    BY <1>3, <1>4, <1>5, <1>7 DEF None
<1>12. Good(j, S, s \cup {n}, d, open, sent)
  BY <1>5, <1>8, <1>10, <1>11 DEF Good
<1> QED
  BY <1>3, <1>12 DEF j, n

\* The handler or the client leaves: a stream ends only with `done` received.
LEMMA GoodLeave ==
  ASSUME NEW k, NEW S \in SUBSET Nat, NEW s, NEW d, NEW open, NEW sent, Good(k, S, s, d, open, sent),
         NEW t \in {"off", "ended", "live"}, k.st \in Active,
         t = "live" => k.replay = <<>>,
         t = "ended" => k.replay = <<>> /\ (k.ends \/ (k.closed /\ k.q = <<>>))
  PROVE  Good([k EXCEPT !.st = t], S, s, d, open, sent)
<1> DEFINE j == [k EXCEPT !.st = t]
<1>1. k \in Connection /\ Fits(k, S, s, d, open) /\ Meets(k, sent) /\ Ends(k, d)
  BY DEF Good
<1>2. /\ j \in Connection /\ j.st = t /\ j.replay = k.replay /\ j.closed = k.closed /\ j.ends = k.ends
      /\ j.after = k.after /\ j.last = k.last /\ j.got = k.got /\ j.q = k.q /\ j.partial = k.partial
  BY <1>1 DEF Connection, Active
<1> HIDE DEF j
<1>3. All(j) = All(k)
  BY <1>2 DEF All
<1>4. Meets(j, sent)
  BY <1>1, <1>2, <1>3 DEF Meets
<1>5. Fits(j, S, s, d, open)
  BY <1>1, <1>2 DEF Fits
<1>6. Ends(j, d)
  <2> SUFFICES ASSUME t = "ended", k.after = None, ~k.partial PROVE d # None /\ d \in ToSet(k.got)
    BY <1>2 DEF Ends
  <2>1. ToSet(<<>>) = {}
    BY DEF ToSet
  <2>2. d \in ToSet(k.got)
    BY <1>1, <2>1 DEF Fits
  <2>3. ToSet(k.got) \subseteq Nat
    BY <1>1 DEF Fits
  <2> QED
    BY <2>2, <2>3 DEF None
<1> QED
  BY <1>2, <1>4, <1>5, <1>6 DEF Good, j

-----------------------------------------------------------------------------
(* The task's numbers *)

TaskTypeOK ==
  /\ seq \in 0..MaxSeq /\ held \in [Emitters -> Numbers] /\ doneSeq \in Numbers
  /\ stage \in {"prepare", "agent", "drain", "after", "finishing", "done", "dead"}
  /\ reading \subseteq Readers
  /\ canceller \in {"idle", "checked", "end"}
  /\ gced \in BOOLEAN
  /\ seen \in [Clients -> SUBSET Nat]

\* The steps of the task that take and push nothing.
Quiet ==
  \/ AgentStarts \/ AgentExits \/ OutputEnds \/ AgentKilled \/ Panics \/ FinishTask \/ CheckCancel
  \/ \E r \in Readers : ReaderEnds(r)

LEMMA Basics ==
  /\ MaxSeq \in Nat /\ Cap \in Nat /\ {"main", "cancel"} \subseteq Emitters
  /\ \A r \in Readers : r \in Emitters /\ r # "main"
  /\ None \in Numbers /\ None \in Int /\ None < 0 /\ None \notin Nat /\ Numbers \subseteq Int
  /\ \A n \in Numbers : n # None => n \in Nat
BY StreamAssumption DEF Emitters, Numbers, None

\* What the quiet steps leave alone.
LEMMA QuietFrame ==
  ASSUME Quiet
  PROVE  UNCHANGED <<seq, held, doneSeq, gced, chan, cl, seen, pushed>>
BY DEF Quiet, AgentStarts, AgentExits, OutputEnds, AgentKilled, Panics, FinishTask, CheckCancel, ReaderEnds

LEMMA QuietNumbers ==
  ASSUME TaskTypeOK, NumbersInv, Quiet
  PROVE  TaskTypeOK' /\ NumbersInv' /\ (stage' = "done" <=> stage = "done")
<1>1. UNCHANGED <<seq, held, doneSeq, gced, chan, cl, seen, pushed>>
  BY QuietFrame
<1>2. /\ stage' \in {"prepare", "agent", "drain", "after", "finishing", "done", "dead"} /\ reading' \subseteq Readers
      /\ canceller' \in {"idle", "checked", "end"} /\ (stage' = "done" <=> stage = "done")
      /\ stage' = "finishing" => stage = "finishing" \/ held["main"] = None
  BY DEF TaskTypeOK, Quiet, AgentStarts, AgentExits, OutputEnds, AgentKilled, Panics, FinishTask, CheckCancel, ReaderEnds
<1>3. TaskTypeOK'
  BY <1>1, <1>2 DEF TaskTypeOK
<1>4. NumbersInv'
  BY <1>1, <1>2 DEF NumbersInv
<1> QED
  BY <1>2, <1>3, <1>4

\* A number that is taken is not spent yet.
LEMMA TakenNumber ==
  ASSUME TaskTypeOK, NumbersInv, NEW e \in Emitters, held[e] = None,
         held' = [held EXCEPT ![e] = seq], seq' = seq + 1
  PROVE  /\ Spent' = Spent
         /\ \A f \in Emitters : held'[f] = IF f = e THEN seq ELSE held[f]
         /\ \A f \in Emitters : held'[f] < seq'
         /\ \A f, g \in Emitters : held'[f] = held'[g] /\ held'[f] # None => f = g
<1>1. seq \in Nat /\ held \in [Emitters -> Numbers]
  BY DEF TaskTypeOK
<1>2. \A f \in Emitters : held'[f] = IF f = e THEN seq ELSE held[f]
  BY <1>1
<1>3. \A f \in Emitters : held[f] < seq /\ held[f] \in Int
  BY <1>1, Basics DEF NumbersInv
<1>4. Spent' = Spent
  <2>1. \A n \in 0..seq : (\A f \in Emitters : held'[f] # n) <=> n # seq /\ \A f \in Emitters : held[f] # n
    <3> TAKE n \in 0..seq
    <3>1. n \in Nat /\ held[e] # n /\ held'[e] = seq
      BY <1>1, <1>2, Basics
    <3> QED
      BY <1>2, <3>1
  <2>2. \A n : n \in 0..(seq - 1) <=> n \in 0..seq /\ n # seq
    BY <1>1
  <2>3. seq' - 1 = seq
    BY <1>1
  <2> QED
    BY <2>1, <2>2, <2>3 DEF Spent
<1>5. \A f \in Emitters : held'[f] < seq'
  BY <1>1, <1>2, <1>3
<1>6. \A f, g \in Emitters : held'[f] = held'[g] /\ held'[f] # None => f = g
  BY <1>1, <1>2, <1>3 DEF NumbersInv
<1> QED
  BY <1>2, <1>4, <1>5, <1>6

LEMMA TakeDoneNumbers ==
  ASSUME TaskTypeOK, NumbersInv, TakeDone
  PROVE  TaskTypeOK' /\ NumbersInv' /\ Spent' = Spent /\ doneSeq = None /\ doneSeq' \in Nat /\ held'["main"] # None
<1>1. /\ stage = "finishing" /\ seq < MaxSeq /\ stage' = "done" /\ doneSeq' = seq
      /\ held' = [held EXCEPT !["main"] = seq] /\ seq' = seq + 1
      /\ UNCHANGED <<reading, canceller, gced, chan, cl, seen, pushed>>
  BY DEF TakeDone
<1>2. seq \in Nat /\ MaxSeq \in Nat /\ held \in [Emitters -> Numbers] /\ "main" \in Emitters
  BY Basics DEF TaskTypeOK
<1>3. held["main"] = None /\ doneSeq = None /\ ~gced
  BY <1>1 DEF NumbersInv
<1>4. /\ Spent' = Spent
      /\ \A f \in Emitters : held'[f] = IF f = "main" THEN seq ELSE held[f]
      /\ \A f \in Emitters : held'[f] < seq'
      /\ \A f, g \in Emitters : held'[f] = held'[g] /\ held'[f] # None => f = g
  BY <1>1, <1>2, <1>3, TakenNumber
<1>5. seq \in Numbers /\ seq' \in 0..MaxSeq /\ seq < seq' /\ seq # None
  BY <1>1, <1>2 DEF Numbers, None
<1>6. TaskTypeOK'
  <2>1. held' \in [Emitters -> Numbers]
    BY <1>1, <1>2, <1>5
  <2> QED
    BY <1>1, <1>5, <2>1 DEF TaskTypeOK
<1>7. NumbersInv'
  <2>1. held'["main"] = seq
    BY <1>2, <1>4
  <2>2. \A f \in Emitters : held'[f] = doneSeq' /\ doneSeq' # None => f = "main"
    BY <1>1, <1>2, <1>4, <2>1
  <2> QED
    BY <1>1, <1>3, <1>4, <1>5, <2>1, <2>2 DEF NumbersInv
<1> QED
  BY <1>1, <1>2, <1>3, <1>4, <1>5, <1>6, <1>7

LEMMA TakeSeqNumbers ==
  ASSUME TaskTypeOK, NumbersInv, NEW e \in Emitters, TakeSeq(e)
  PROVE  TaskTypeOK' /\ NumbersInv' /\ Spent' = Spent /\ (stage = "done" => held'["main"] = held["main"])
<1>1. /\ held[e] = None /\ held' = [held EXCEPT ![e] = seq] /\ seq' = seq + 1
      /\ seq < IF doneSeq = None THEN MaxSeq - 1 ELSE MaxSeq
      /\ UNCHANGED <<doneSeq, stage, reading, gced, chan, cl, seen, pushed>>
  BY DEF TakeSeq
<1>2. seq \in Nat /\ MaxSeq \in Nat /\ held \in [Emitters -> Numbers] /\ "main" \in Emitters /\ doneSeq \in Int
  BY Basics DEF TaskTypeOK
<1>3. canceller' \in {"idle", "checked", "end"}
  BY DEF TaskTypeOK, TakeSeq
<1>4. e = "main" => stage \in {"prepare", "after"}
  BY Basics DEF TaskTypeOK, TakeSeq
<1>5. /\ Spent' = Spent
      /\ \A f \in Emitters : held'[f] = IF f = e THEN seq ELSE held[f]
      /\ \A f \in Emitters : held'[f] < seq'
      /\ \A f, g \in Emitters : held'[f] = held'[g] /\ held'[f] # None => f = g
  BY <1>1, TakenNumber
<1>6. seq < MaxSeq
  BY <1>1, <1>2
<1>7. seq \in Numbers /\ seq' \in 0..MaxSeq /\ seq < seq'
  BY <1>1, <1>2, <1>6 DEF Numbers, None
<1>8. TaskTypeOK'
  <2>1. held' \in [Emitters -> Numbers]
    BY <1>1, <1>2, <1>7
  <2> QED
    BY <1>1, <1>3, <1>7, <2>1 DEF TaskTypeOK
<1>9. stage \in {"finishing", "done"} => held'["main"] = held["main"]
  BY <1>2, <1>4, <1>5
<1>10. NumbersInv'
  <2>1. doneSeq < seq /\ doneSeq < seq'
    BY <1>2, <1>7 DEF NumbersInv
  <2>2. \A f \in Emitters : held'[f] = doneSeq /\ doneSeq # None => f = "main"
    BY <1>2, <1>5, <2>1 DEF NumbersInv
  <2>3. stage = "done" => held'["main"] \in {None, doneSeq}
    BY <1>9 DEF NumbersInv
  <2>4. stage = "finishing" => held'["main"] = None
    BY <1>9 DEF NumbersInv
  <2>5. gced => stage = "done" /\ held'["main"] = None
    BY <1>9 DEF NumbersInv
  <2>6. doneSeq = None <=> stage # "done"
    BY DEF NumbersInv
  <2> QED
    BY <1>1, <1>5, <2>1, <2>2, <2>3, <2>4, <2>5, <2>6 DEF NumbersInv
<1> QED
  BY <1>5, <1>8, <1>9, <1>10

\* A number that is pushed was not spent before, and is then.
LEMMA PushNumbers ==
  ASSUME TaskTypeOK, NumbersInv, NEW e \in Emitters, Push(e)
  PROVE  /\ TaskTypeOK' /\ NumbersInv' /\ held[e] \in Nat /\ held[e] \notin Spent /\ Spent' = Spent \cup {held[e]}
         /\ stage' = "done" /\ held'["main"] = None => held["main"] = None \/ held[e] = doneSeq
<1>1. /\ held[e] # None /\ held' = [held EXCEPT ![e] = None]
      /\ UNCHANGED <<seq, doneSeq, stage, reading, canceller, gced, seen>>
  BY DEF Push
<1>2. seq \in Nat /\ held \in [Emitters -> Numbers] /\ "main" \in Emitters
  BY Basics DEF TaskTypeOK
<1>3. held[e] \in Nat
  BY <1>1, <1>2, Basics
<1>4. \A f \in Emitters : held'[f] = IF f = e THEN None ELSE held[f]
  BY <1>1, <1>2
<1>5. held[e] \notin Spent /\ Spent' = Spent \cup {held[e]}
  <2>1. held[e] \in 0..(seq - 1)
    BY <1>2, <1>3 DEF NumbersInv
  <2>2. \A n \in 0..(seq - 1) : (\A f \in Emitters : held'[f] # n) <=> n = held[e] \/ \A f \in Emitters : held[f] # n
    <3> TAKE n \in 0..(seq - 1)
    <3>1. n # None
      BY <1>2, Basics
    <3>2. n = held[e] => \A f \in Emitters : f # e => held[f] # n
      BY <1>1 DEF NumbersInv
    <3> QED
      BY <1>4, <3>1, <3>2
  <2>3. 0..(seq' - 1) = 0..(seq - 1)
    BY <1>1
  <2> QED
    BY <2>1, <2>2, <2>3 DEF Spent
<1>6. TaskTypeOK'
  <2>1. held' \in [Emitters -> Numbers]
    BY <1>1, <1>2, Basics
  <2> QED
    BY <1>1, <2>1 DEF TaskTypeOK
<1>7. held["main"] = None => held'["main"] = None
  BY <1>2, <1>4
<1>8. NumbersInv'
  <2>1. \A f \in Emitters : held'[f] < seq
    BY <1>2, <1>4, Basics DEF NumbersInv
  <2>2. \A f, g \in Emitters : held'[f] = held'[g] /\ held'[f] # None => f = g
    BY <1>4 DEF NumbersInv
  <2>3. \A f \in Emitters : held'[f] = doneSeq /\ doneSeq # None => f = "main"
    BY <1>4 DEF NumbersInv
  <2>4. stage = "done" => held'["main"] \in {None, doneSeq}
    BY <1>2, <1>4 DEF NumbersInv
  <2>5. doneSeq < seq /\ (doneSeq = None <=> stage # "done")
    BY DEF NumbersInv
  <2>6. (stage = "finishing" => held'["main"] = None) /\ (gced => stage = "done" /\ held'["main"] = None)
    BY <1>7 DEF NumbersInv
  <2> QED
    BY <1>1, <2>1, <2>2, <2>3, <2>4, <2>5, <2>6 DEF NumbersInv
<1>9. stage' = "done" /\ held'["main"] = None => held["main"] = None \/ held[e] = doneSeq
  BY <1>1, <1>2, <1>4 DEF NumbersInv
<1> QED
  BY <1>3, <1>5, <1>6, <1>8, <1>9

-----------------------------------------------------------------------------
(* The inductive invariant *)

AllGood ==
  /\ cl \in [Clients -> Connection]
  /\ \A c \in Clients : Good(cl[c], Spent, seen[c], doneSeq, chan.open, pushed)

StreamInv == TaskTypeOK /\ NumbersInv /\ ChannelInv /\ AllGood

\* What every step below needs of the invariant.
LEMMA Facts ==
  ASSUME StreamInv
  PROVE  /\ TaskTypeOK /\ NumbersInv /\ ChannelInv /\ AllGood
         /\ Spent \in SUBSET Nat /\ doneSeq \in Int /\ (doneSeq = None \/ doneSeq \in Nat)
         /\ chan.open \in BOOLEAN /\ chan.done \in BOOLEAN /\ pushed \in Seq(Nat)
         /\ \A c \in Clients : Good(cl[c], Spent, seen[c], doneSeq, chan.open, pushed) /\ seen[c] \in SUBSET Nat
<1>1. TaskTypeOK /\ NumbersInv /\ ChannelInv /\ AllGood
  BY DEF StreamInv
<1>2. Spent \in SUBSET Nat
  BY <1>1 DEF Spent, TaskTypeOK
<1>3. doneSeq \in Int /\ (doneSeq = None \/ doneSeq \in Nat) /\ \A c \in Clients : seen[c] \in SUBSET Nat
  BY <1>1, Basics DEF TaskTypeOK
<1>4. chan.open \in BOOLEAN /\ chan.done \in BOOLEAN /\ pushed \in Seq(Nat)
  BY <1>1 DEF ChannelInv
<1> QED
  BY <1>1, <1>2, <1>3, <1>4 DEF AllGood

LEMMA InitStreamInv == StreamInit => StreamInv
<1> SUFFICES ASSUME StreamInit PROVE StreamInv
  OBVIOUS
<1>1. MaxSeq \in Nat /\ Cap \in Nat /\ None \in Numbers /\ None \in Int /\ None < 0 /\ "main" \in Emitters
  BY Basics
<1>2. TaskTypeOK
  <2>1. seq \in 0..MaxSeq /\ held \in [Emitters -> Numbers] /\ doneSeq \in Numbers /\ reading \subseteq Readers
    BY <1>1 DEF StreamInit
  <2>2. seen \in [Clients -> SUBSET Nat]
    BY DEF StreamInit
  <2>3. /\ stage \in {"prepare", "agent", "drain", "after", "finishing", "done", "dead"}
        /\ canceller \in {"idle", "checked", "end"} /\ gced \in BOOLEAN
    BY DEF StreamInit
  <2> QED
    BY <2>1, <2>2, <2>3 DEF TaskTypeOK
<1>3. NumbersInv
  BY <1>1 DEF StreamInit, NumbersInv
<1>4. ToSet(<<>>) = {} /\ <<>> \in Seq(Nat) /\ Len(<<>>) = 0
  BY DEF ToSet
<1>5. ChannelInv
  <2>1. NoChannel \in [open : BOOLEAN, history : Seq(Nat), seqs : SUBSET Nat, done : BOOLEAN]
    BY DEF NoChannel
  <2>2. ~NoChannel.open /\ NoChannel.seqs = {} /\ ~NoChannel.done
    BY DEF NoChannel
  <2> QED
    BY <1>4, <2>1, <2>2 DEF StreamInit, ChannelInv
<1>6. AllGood
  <2>1. NoConnection \in Connection
    BY <1>1, <1>4 DEF NoConnection, Connection
  <2>2. /\ NoConnection.st = "off" /\ NoConnection.replay = <<>> /\ NoConnection.q = <<>> /\ NoConnection.got = <<>>
        /\ NoConnection.after = None /\ NoConnection.last = None
    BY DEF NoConnection
  <2>3. \A S : Fits(NoConnection, S, {}, None, FALSE)
    BY <1>1, <1>4, <2>2 DEF Fits, Active
  <2>4. Meets(NoConnection, <<>>) /\ Ends(NoConnection, None)
    BY <2>2 DEF Meets, Ends, Active
  <2>5. \A S : Good(NoConnection, S, {}, None, FALSE, <<>>)
    BY <2>1, <2>3, <2>4 DEF Good
  <2>6. \A c \in Clients : cl[c] = NoConnection /\ seen[c] = {}
    BY DEF StreamInit
  <2>7. cl \in [Clients -> Connection]
    BY <2>1 DEF StreamInit
  <2>8. doneSeq = None /\ chan.open = FALSE /\ pushed = <<>>
    BY DEF StreamInit, NoChannel
  <2> QED
    BY <2>5, <2>6, <2>7, <2>8 DEF AllGood
<1> QED
  BY <1>2, <1>3, <1>5, <1>6 DEF StreamInv

\* Steps that leave the bus and the clients alone, and push nothing.
LEMMA FrameStep ==
  ASSUME StreamInv, TaskTypeOK', NumbersInv', Spent' = Spent, UNCHANGED <<gced, chan, cl, seen, pushed>>,
         doneSeq' = doneSeq \/ (doneSeq = None /\ doneSeq' \in Nat),
         stage' = "done" /\ held'["main"] = None => stage = "done" /\ held["main"] = None /\ doneSeq' = doneSeq
  PROVE  StreamInv'
<1>1. /\ TaskTypeOK /\ NumbersInv /\ ChannelInv /\ AllGood /\ Spent \in SUBSET Nat
      /\ \A c \in Clients : Good(cl[c], Spent, seen[c], doneSeq, chan.open, pushed)
  BY Facts
<1>2. chan.done => doneSeq' = doneSeq
  <2>1. chan.seqs \subseteq Nat /\ (chan.done => doneSeq \in chan.seqs)
    BY <1>1 DEF ChannelInv
  <2> QED
    BY <2>1, Basics
<1>3. ChannelInv'
  <2>1. /\ chan \in [open : BOOLEAN, history : Seq(Nat), seqs : SUBSET Nat, done : BOOLEAN] /\ pushed \in Seq(Nat)
        /\ (~chan.open => chan = NoChannel) /\ chan.seqs \subseteq Spent
        /\ chan.open => IsInjective(pushed) /\ ToSet(pushed) = chan.seqs /\ chan.history = Newest(pushed)
    BY <1>1 DEF ChannelInv
  <2>2. chan.done => doneSeq' \in chan.seqs
    BY <1>1, <1>2 DEF ChannelInv
  <2>3. stage' = "done" /\ held'["main"] = None /\ ~gced' => chan.open /\ doneSeq' \in chan.seqs
    BY <1>1 DEF ChannelInv
  <2> QED
    BY <2>1, <2>2, <2>3 DEF ChannelInv
<1>4. AllGood'
  <2>1. \A c \in Clients : Good(cl[c], Spent, seen[c], doneSeq', chan.open, pushed)
    <3>1. CASE doneSeq' = doneSeq
      BY <1>1, <3>1
    <3>2. CASE doneSeq = None /\ doneSeq' \in Nat
      BY <1>1, <3>2, GoodTakeDone
    <3> QED
      BY <3>1, <3>2
  <2> QED
    BY <1>1, <2>1 DEF AllGood
<1> QED
  BY <1>3, <1>4 DEF StreamInv

\* The step that pushes: the number is new to the channel and to every client.
LEMMA PushStep ==
  ASSUME StreamInv, NEW e \in Emitters, Push(e)
  PROVE  StreamInv'
<1> DEFINE n == held[e]
           ch == IF chan.open THEN chan ELSE [NoChannel EXCEPT !.open = TRUE]
           sent == IF chan.open THEN pushed ELSE <<>>
<1>1. /\ TaskTypeOK /\ NumbersInv /\ ChannelInv /\ AllGood /\ Spent \in SUBSET Nat /\ doneSeq \in Int
      /\ chan.open \in BOOLEAN /\ pushed \in Seq(Nat)
      /\ \A c \in Clients : Good(cl[c], Spent, seen[c], doneSeq, chan.open, pushed)
  BY Facts
<1>2. /\ TaskTypeOK' /\ NumbersInv' /\ n \in Nat /\ n \notin Spent /\ Spent' = Spent \cup {n}
      /\ stage' = "done" /\ held'["main"] = None => held["main"] = None \/ n = doneSeq
  BY <1>1, PushNumbers
<1>3. /\ ch \in [open : BOOLEAN, history : Seq(Nat), seqs : SUBSET Nat, done : BOOLEAN]
      /\ ch.open /\ ch.seqs \subseteq Spent /\ (ch.done => doneSeq \in ch.seqs)
      /\ sent \in Seq(Nat) /\ IsInjective(sent) /\ ToSet(sent) = ch.seqs /\ ch.history = Newest(sent)
      /\ chan.open => ch = chan
  <2>1. CASE chan.open
    BY <1>1, <2>1 DEF ChannelInv
  <2>2. CASE ~chan.open
    <3>1. ch \in [open : BOOLEAN, history : Seq(Nat), seqs : SUBSET Nat, done : BOOLEAN]
      <4>1. NoChannel \in [open : BOOLEAN, history : Seq(Nat), seqs : SUBSET Nat, done : BOOLEAN]
        BY DEF NoChannel
      <4> QED
        BY <2>2, <4>1
    <3>2. ch.open /\ ch.seqs = {} /\ ~ch.done /\ ch.history = <<>> /\ sent = <<>>
      BY <2>2 DEF NoChannel
    <3>3. ToSet(<<>>) = {} /\ <<>> \in Seq(Nat) /\ Len(<<>>) = 0 /\ IsInjective(<<>>)
      BY DEF ToSet, IsInjective
    <3>4. Newest(<<>>) = <<>>
      BY <3>3, Basics DEF Newest
    <3> QED
      BY <2>2, <3>1, <3>2, <3>3, <3>4
  <2> QED
    BY <2>1, <2>2
<1>4. n \notin ch.seqs
  BY <1>2, <1>3
<1>5. /\ chan' = [ch EXCEPT !.seqs = @ \cup {n}, !.history = Newest(Append(@, n)), !.done = @ \/ n = doneSeq]
      /\ cl' = [c \in Clients |-> Received(cl[c], n)]
      /\ pushed' = Append(sent, n)
      /\ UNCHANGED <<seq, doneSeq, stage, reading, canceller, gced, seen>>
  BY <1>4 DEF Push
<1> DEFINE hist == Newest(Append(ch.history, n))
<1>6. hist \in Seq(Nat) /\ hist = Newest(Append(sent, n))
  <2>1. Append(sent, n) \in Seq(Nat)
    BY <1>2, <1>3
  <2> QED
    <3> HIDE DEF sent, ch, n
    <3>1. Newest(Append(Newest(sent), n)) = Newest(Append(sent, n))
      BY <1>2, <1>3, NewestAppend
    <3>2. Newest(Append(sent, n)) \in Seq(Nat)
      BY <2>1, NewestFacts
    <3> QED
      BY <1>3, <3>1, <3>2
<1> HIDE DEF n, ch, sent, hist
<1>7. /\ chan' \in [open : BOOLEAN, history : Seq(Nat), seqs : SUBSET Nat, done : BOOLEAN]
      /\ chan'.open /\ chan'.seqs = ch.seqs \cup {n} /\ chan'.history = hist
      /\ chan'.done <=> ch.done \/ n = doneSeq
  <2>1. chan' = [ch EXCEPT !.seqs = ch.seqs \cup {n}, !.history = hist, !.done = ch.done \/ n = doneSeq]
    BY <1>5 DEF hist
  <2>2. ch.seqs \cup {n} \in SUBSET Nat /\ (ch.done \/ n = doneSeq) \in BOOLEAN
    BY <1>2, <1>3
  <2> QED
    BY <1>3, <1>6, <2>1, <2>2
<1>8. ChannelInv'
  <2>1. /\ Append(sent, n) \in Seq(Nat) /\ ToSet(Append(sent, n)) = ch.seqs \cup {n}
        /\ IsInjective(Append(sent, n))
    BY <1>2, <1>3, <1>4, AppendElements
  <2>2. /\ pushed' \in Seq(Nat) /\ IsInjective(pushed') /\ ToSet(pushed') = chan'.seqs
        /\ chan'.history = Newest(pushed') /\ chan'.seqs \subseteq Spent'
    BY <1>2, <1>3, <1>5, <1>6, <1>7, <2>1
  <2>3. chan'.done => doneSeq' \in chan'.seqs
    BY <1>3, <1>5, <1>7
  <2>4. ASSUME stage' = "done", held'["main"] = None, ~gced' PROVE doneSeq' \in chan'.seqs
    <3>1. CASE held["main"] = None
      <4>1. chan.open /\ doneSeq \in chan.seqs
        BY <1>1, <1>5, <2>4, <3>1 DEF ChannelInv
      <4> QED
        BY <1>3, <1>5, <1>7, <4>1
    <3>2. CASE n = doneSeq
      BY <1>5, <1>7, <3>2
    <3> QED
      BY <1>2, <2>4, <3>1, <3>2
  <2> QED
    BY <1>7, <2>2, <2>3, <2>4 DEF ChannelInv
<1>9. AllGood'
  <2>1. \A c \in Clients : Good(Received(cl[c], n), Spent \cup {n}, seen[c], doneSeq, TRUE, Append(sent, n))
    BY <1>1, <1>2, GoodPush DEF sent
  <2>2. \A c \in Clients : cl'[c] = Received(cl[c], n) /\ seen'[c] = seen[c]
    BY <1>5
  <2>3. \A c \in Clients : Good(cl'[c], Spent', seen'[c], doneSeq', chan'.open, pushed')
    <3>1. chan'.open = TRUE /\ doneSeq' = doneSeq
      BY <1>5, <1>7
    <3> QED
      BY <1>2, <1>5, <2>1, <2>2, <3>1
  <2>4. cl' \in [Clients -> Connection]
    <3>1. \A c \in Clients : Received(cl[c], n) \in Connection
      BY <2>1 DEF Good
    <3> QED
      BY <1>5, <3>1
  <2> QED
    BY <2>3, <2>4 DEF AllGood
<1> QED
  BY <1>2, <1>8, <1>9 DEF StreamInv

\* The collector drops the channel, which has `done` by then.
LEMMA GcStep ==
  ASSUME StreamInv, GcTask
  PROVE  StreamInv'
<1> DEFINE K(c) == IF cl[c].st \in Active THEN [cl[c] EXCEPT !.closed = TRUE] ELSE cl[c]
<1>1. /\ TaskTypeOK /\ NumbersInv /\ ChannelInv /\ AllGood /\ Spent \in SUBSET Nat
      /\ doneSeq = None \/ doneSeq \in Nat
      /\ pushed \in Seq(Nat)
      /\ \A c \in Clients : Good(cl[c], Spent, seen[c], doneSeq, chan.open, pushed)
  BY Facts
<1>2. /\ stage = "done" /\ held["main"] = None /\ ~gced /\ gced' = TRUE /\ chan' = NoChannel
      /\ cl' = [c \in Clients |-> K(c)]
      /\ UNCHANGED <<seq, held, doneSeq, stage, reading, canceller, seen, pushed>>
  BY DEF GcTask, task
<1>3. chan.open /\ doneSeq \in Nat /\ doneSeq \in ToSet(pushed)
  BY <1>1, <1>2 DEF ChannelInv, NumbersInv
<1>4. TaskTypeOK'
  BY <1>1, <1>2 DEF TaskTypeOK
<1>5. NumbersInv'
  BY <1>1, <1>2 DEF NumbersInv
<1>6. Spent' = Spent
  BY <1>2 DEF Spent
<1>7. ChannelInv'
  <2>1. NoChannel \in [open : BOOLEAN, history : Seq(Nat), seqs : SUBSET Nat, done : BOOLEAN]
    BY DEF NoChannel
  <2>2. ~NoChannel.open /\ NoChannel.seqs = {} /\ ~NoChannel.done
    BY DEF NoChannel
  <2> QED
    BY <1>1, <1>2, <2>1, <2>2 DEF ChannelInv
<1>8. AllGood'
  <2>1. \A c \in Clients : Good(K(c), Spent, seen[c], doneSeq, FALSE, pushed)
    <3> TAKE c \in Clients
    <3>1. Good(cl[c], Spent, seen[c], doneSeq, TRUE, pushed)
      BY <1>1, <1>3
    <3> QED
      BY <1>1, <1>3, <3>1, GoodClose
  <2> HIDE DEF K
  <2>2. \A c \in Clients : cl'[c] = K(c) /\ K(c) \in Connection
    BY <1>2, <2>1 DEF Good
  <2>3. chan'.open = FALSE
    BY <1>2 DEF NoChannel
  <2>4. \A c \in Clients : Good(cl'[c], Spent', seen'[c], doneSeq', chan'.open, pushed')
    BY <1>2, <1>6, <2>1, <2>2, <2>3
  <2>5. cl' \in [Clients -> Connection]
    BY <1>2, <2>2
  <2> QED
    BY <2>4, <2>5 DEF AllGood
<1> QED
  BY <1>4, <1>5, <1>7, <1>8 DEF StreamInv

\* A step of one client that leaves its connection good keeps the invariant.
LEMMA ClientStep ==
  ASSUME StreamInv, NEW c \in Clients, NEW k, NEW S \in SUBSET Nat, UNCHANGED <<task, gced, chan, pushed>>,
         cl' = [cl EXCEPT ![c] = k], seen' = [seen EXCEPT ![c] = S],
         Good(k, Spent, S, doneSeq, chan.open, pushed)
  PROVE  StreamInv'
<1>1. /\ TaskTypeOK /\ NumbersInv /\ ChannelInv /\ AllGood
      /\ \A d \in Clients : Good(cl[d], Spent, seen[d], doneSeq, chan.open, pushed)
  BY Facts
<1>2. UNCHANGED <<seq, held, doneSeq, stage, reading, canceller, gced, chan, pushed>>
  BY DEF task
<1>3. TaskTypeOK'
  <2>1. seen' \in [Clients -> SUBSET Nat]
    BY <1>1 DEF TaskTypeOK
  <2> QED
    BY <1>1, <1>2, <2>1 DEF TaskTypeOK
<1>4. NumbersInv'
  BY <1>1, <1>2 DEF NumbersInv
<1>5. Spent' = Spent
  BY <1>2 DEF Spent
<1>6. ChannelInv'
  BY <1>1, <1>2, <1>5 DEF ChannelInv
<1>7. AllGood'
  <2>1. cl \in [Clients -> Connection] /\ k \in Connection
    BY <1>1 DEF AllGood, Good
  <2>2. \A d \in Clients : cl'[d] = (IF d = c THEN k ELSE cl[d]) /\ seen'[d] = (IF d = c THEN S ELSE seen[d])
    BY <1>1, <2>1 DEF TaskTypeOK
  <2>3. \A d \in Clients : Good(cl'[d], Spent, seen'[d], doneSeq, chan.open, pushed)
    BY <1>1, <2>2
  <2>4. cl' \in [Clients -> Connection]
    BY <2>1
  <2> QED
    BY <1>2, <1>5, <2>3, <2>4 DEF AllGood
<1> QED
  BY <1>3, <1>4, <1>6, <1>7 DEF StreamInv

LEMMA SubscribeStep ==
  ASSUME StreamInv, NEW c \in Clients, Subscribe(c)
  PROVE  StreamInv'
<1> DEFINE k == [NoConnection EXCEPT !.st = "replay", !.replay = After(chan.history, cl[c].last),
                                     !.ends = chan.done, !.after = cl[c].last, !.last = cl[c].last,
                                     !.partial = Len(pushed) > Len(chan.history)]
<1>1. /\ ChannelInv /\ Spent \in SUBSET Nat /\ doneSeq \in Int /\ (doneSeq = None \/ doneSeq \in Nat)
      /\ chan.done \in BOOLEAN /\ pushed \in Seq(Nat) /\ chan.open \in BOOLEAN
      /\ Good(cl[c], Spent, seen[c], doneSeq, chan.open, pushed) /\ seen[c] \in SUBSET Nat
      /\ seen \in [Clients -> SUBSET Nat]
  BY Facts DEF TaskTypeOK
<1>2. chan.open /\ cl' = [cl EXCEPT ![c] = k] /\ UNCHANGED <<task, gced, chan, pushed>> /\ seen' = seen
  BY DEF Subscribe
<1>3. /\ IsInjective(pushed) /\ ToSet(pushed) \subseteq Spent /\ chan.history = Newest(pushed)
      /\ chan.done => doneSeq \in ToSet(pushed)
  BY <1>1, <1>2 DEF ChannelInv
<1>4. Good(cl[c], Spent, seen[c], doneSeq, TRUE, pushed)
  BY <1>1, <1>2
<1>5. Good(k, Spent, seen[c], doneSeq, TRUE, pushed)
  BY <1>1, <1>3, <1>4, GoodSubscribe
<1> HIDE DEF k
<1>6. Good(k, Spent, seen[c], doneSeq, chan.open, pushed)
  BY <1>1, <1>2, <1>5
<1>7. seen' = [seen EXCEPT ![c] = seen[c]]
  BY <1>1, <1>2
<1> QED
  BY <1>1, <1>2, <1>6, <1>7, ClientStep

LEMMA StreamStep ==
  ASSUME StreamInv, NEW c \in Clients, Stream(c) \/ Disconnect(c)
  PROVE  StreamInv'
<1>1. /\ Spent \in SUBSET Nat /\ seen[c] \in SUBSET Nat /\ seen \in [Clients -> SUBSET Nat]
      /\ Good(cl[c], Spent, seen[c], doneSeq, chan.open, pushed)
  BY Facts DEF TaskTypeOK
<1>2. ASSUME NEW t \in {"off", "ended", "live"}, cl[c].st \in Active, cl' = [cl EXCEPT ![c].st = t],
             t = "live" => cl[c].replay = <<>>,
             t = "ended" => cl[c].replay = <<>> /\ (cl[c].ends \/ (cl[c].closed /\ cl[c].q = <<>>)),
             UNCHANGED <<task, gced, chan, seen, pushed>>
      PROVE  StreamInv'
  <2> DEFINE k == [cl[c] EXCEPT !.st = t]
  <2>1. Good(k, Spent, seen[c], doneSeq, chan.open, pushed)
    BY <1>1, <1>2, GoodLeave
  <2>2. cl' = [cl EXCEPT ![c] = k]
    BY <1>2
  <2>3. seen' = [seen EXCEPT ![c] = seen[c]] /\ UNCHANGED <<task, gced, chan, pushed>>
    BY <1>1, <1>2
  <2> HIDE DEF k
  <2> QED
    BY <1>1, <2>1, <2>2, <2>3, ClientStep
<1>3. CASE Replay(c)
  <2> DEFINE n == Head(cl[c].replay)
             k == [[cl[c] EXCEPT !.replay = Tail(@)] EXCEPT !.got = Append(@, n), !.last = n]
  <2>1. /\ cl[c].st = "replay" /\ cl[c].replay # <<>> /\ cl' = [cl EXCEPT ![c] = k]
        /\ seen' = [seen EXCEPT ![c] = seen[c] \cup {n}] /\ UNCHANGED <<task, gced, chan, pushed>>
    BY <1>3 DEF Replay, Yield
  <2>2. Good(k, Spent, seen[c] \cup {n}, doneSeq, chan.open, pushed) /\ n \in Nat
    BY <1>1, <2>1, GoodReplay
  <2>3. seen[c] \cup {n} \in SUBSET Nat
    BY <1>1, <2>2
  <2> HIDE DEF k, n
  <2> QED
    BY <2>1, <2>2, <2>3, ClientStep
<1>4. CASE Recv(c)
  <2> DEFINE n == Head(cl[c].q)
             k == [[cl[c] EXCEPT !.q = Tail(@), !.st = IF n = doneSeq THEN "ended" ELSE @]
                    EXCEPT !.got = Append(@, n), !.last = n]
  <2>1. /\ cl[c].st = "live" /\ cl[c].q # <<>> /\ cl' = [cl EXCEPT ![c] = k]
        /\ seen' = [seen EXCEPT ![c] = seen[c] \cup {n}] /\ UNCHANGED <<task, gced, chan, pushed>>
    BY <1>4 DEF Recv, Yield
  <2>2. Good(k, Spent, seen[c] \cup {n}, doneSeq, chan.open, pushed) /\ n \in Nat
    BY <1>1, <2>1, GoodRecv
  <2>3. seen[c] \cup {n} \in SUBSET Nat
    BY <1>1, <2>2
  <2> HIDE DEF k, n
  <2> QED
    BY <2>1, <2>2, <2>3, ClientStep
<1>5. CASE ReplayEnds(c)
  <2>1. CASE cl[c].ends
    <3>1. /\ cl[c].replay = <<>> /\ cl[c].st \in Active /\ cl' = [cl EXCEPT ![c].st = "ended"]
          /\ UNCHANGED <<task, gced, chan, seen, pushed>>
      BY <1>5, <2>1 DEF ReplayEnds, Active
    <3> QED
      BY <1>2, <2>1, <3>1
  <2>2. CASE ~cl[c].ends
    <3>1. /\ cl[c].replay = <<>> /\ cl[c].st \in Active /\ cl' = [cl EXCEPT ![c].st = "live"]
          /\ UNCHANGED <<task, gced, chan, seen, pushed>>
      BY <1>5, <2>2 DEF ReplayEnds, Active
    <3> QED
      BY <1>2, <2>2, <3>1
  <2> QED
    BY <2>1, <2>2
<1>6. CASE RecvClosed(c)
  <2>1. cl[c].replay = <<>>
    BY <1>1, <1>6 DEF RecvClosed, Good, Fits
  <2> QED
    <3>1. /\ cl[c].closed /\ cl[c].q = <<>> /\ cl[c].st \in Active /\ cl' = [cl EXCEPT ![c].st = "ended"]
          /\ UNCHANGED <<task, gced, chan, seen, pushed>>
      BY <1>6 DEF RecvClosed, Active
    <3> QED
      BY <1>2, <2>1, <3>1
<1>7. CASE Disconnect(c)
  BY <1>2, <1>7 DEF Disconnect
<1> QED
  BY <1>3, <1>4, <1>5, <1>6, <1>7 DEF Stream

LEMMA NextStreamInv == StreamInv /\ [StreamNext]_svars => StreamInv'
<1> SUFFICES ASSUME StreamInv, [StreamNext]_svars PROVE StreamInv'
  OBVIOUS
<1>0. TaskTypeOK /\ NumbersInv
  BY Facts
<1>1. CASE Quiet
  <2>1. UNCHANGED <<seq, held, doneSeq, gced, chan, cl, seen, pushed>>
    BY <1>1, QuietFrame
  <2>2. TaskTypeOK' /\ NumbersInv' /\ (stage' = "done" <=> stage = "done")
    BY <1>0, <1>1, QuietNumbers
  <2>3. Spent' = Spent
    BY <2>1 DEF Spent
  <2>4. /\ doneSeq' = doneSeq \/ (doneSeq = None /\ doneSeq' \in Nat)
        /\ stage' = "done" /\ held'["main"] = None => stage = "done" /\ held["main"] = None /\ doneSeq' = doneSeq
        /\ UNCHANGED <<gced, chan, cl, seen, pushed>>
    BY <2>1, <2>2
  <2> QED
    BY <2>2, <2>3, <2>4, FrameStep
<1>2. CASE TakeDone
  <2>1. TaskTypeOK' /\ NumbersInv' /\ Spent' = Spent /\ doneSeq = None /\ doneSeq' \in Nat /\ held'["main"] # None
    BY <1>0, <1>2, TakeDoneNumbers
  <2>2. UNCHANGED <<gced, chan, cl, seen, pushed>>
    BY <1>2 DEF TakeDone
  <2> QED
    BY <2>1, <2>2, FrameStep
<1>3. ASSUME NEW e \in Emitters, TakeSeq(e) PROVE StreamInv'
  <2>1. TaskTypeOK' /\ NumbersInv' /\ Spent' = Spent /\ (stage = "done" => held'["main"] = held["main"])
    BY <1>0, <1>3, TakeSeqNumbers
  <2>2. UNCHANGED <<doneSeq, stage, gced, chan, cl, seen, pushed>>
    BY <1>3 DEF TakeSeq
  <2>3. /\ doneSeq' = doneSeq \/ (doneSeq = None /\ doneSeq' \in Nat)
        /\ stage' = "done" /\ held'["main"] = None => stage = "done" /\ held["main"] = None /\ doneSeq' = doneSeq
        /\ UNCHANGED <<gced, chan, cl, seen, pushed>>
    BY <2>1, <2>2
  <2> QED
    BY <2>1, <2>3, FrameStep
<1>4. CASE UNCHANGED svars
  <2>1. UNCHANGED <<seq, held, doneSeq, stage, reading, canceller, gced, chan, cl, seen, pushed>>
    BY <1>4 DEF svars, task
  <2>2. TaskTypeOK' /\ NumbersInv' /\ Spent' = Spent
    BY <1>0, <2>1 DEF TaskTypeOK, NumbersInv, Spent
  <2>3. /\ doneSeq' = doneSeq \/ (doneSeq = None /\ doneSeq' \in Nat)
        /\ stage' = "done" /\ held'["main"] = None => stage = "done" /\ held["main"] = None /\ doneSeq' = doneSeq
        /\ UNCHANGED <<gced, chan, cl, seen, pushed>>
    BY <2>1
  <2> QED
    BY <2>2, <2>3, FrameStep
<1> QED
  BY <1>1, <1>2, <1>3, <1>4, GcStep, PushStep, SubscribeStep, StreamStep DEF StreamNext, RunTask, Quiet

-----------------------------------------------------------------------------
(* The theorems *)

\* The invariant of the bus and of its clients, in EventStream's words.
LEMMA StreamInvMeans ==
  StreamInv => NumbersInv /\ ChannelInv /\ ConnectionsInv /\ StreamTypeOK /\ SnapshotMeetsLive /\ EndedStreamSawDone
<1> SUFFICES ASSUME StreamInv
             PROVE  NumbersInv /\ ChannelInv /\ ConnectionsInv /\ StreamTypeOK /\ SnapshotMeetsLive /\ EndedStreamSawDone
  OBVIOUS
<1>1. /\ TaskTypeOK /\ NumbersInv /\ ChannelInv /\ AllGood /\ chan.open \in BOOLEAN /\ chan.done \in BOOLEAN
      /\ pushed \in Seq(Nat)
      /\ \A c \in Clients : Good(cl[c], Spent, seen[c], doneSeq, chan.open, pushed)
  BY Facts
<1>2. ConnectionsInv
  <2>1. \A c \in Clients : ConnectionOf(c)
    BY <1>1 DEF Good, Fits, ConnectionOf
  <2> QED
    BY <1>1, <2>1 DEF AllGood, ConnectionsInv
<1>3. SnapshotMeetsLive
  BY <1>1 DEF Good, Meets, All, SnapshotMeetsLive
<1>4. EndedStreamSawDone
  BY <1>1 DEF Good, Ends, EndedStreamSawDone
<1>5. StreamTypeOK
  <2>1. Spent \subseteq 0..MaxSeq
    BY <1>1, Basics DEF Spent, TaskTypeOK
  <2>2. chan.seqs \subseteq 0..MaxSeq
    BY <1>1, <2>1 DEF ChannelInv
  <2>3. Len(chan.history) <= Cap /\ ToSet(chan.history) \subseteq chan.seqs
    <3>1. CASE chan.open
      <4>1. chan.history = Newest(pushed) /\ ToSet(pushed) = chan.seqs
        BY <1>1, <3>1 DEF ChannelInv
      <4>2. Len(Newest(pushed)) <= Cap /\ ToSet(Newest(pushed)) \subseteq ToSet(pushed)
        BY <1>1, NewestFacts
      <4> QED
        BY <4>1, <4>2
    <3>2. CASE ~chan.open
      <4>1. chan.history = <<>>
        BY <1>1, <3>2 DEF ChannelInv, NoChannel
      <4>2. ToSet(<<>>) = {} /\ Len(<<>>) = 0 /\ Cap \in Nat
        BY Basics DEF ToSet
      <4> QED
        BY <4>1, <4>2
    <3> QED
      BY <3>1, <3>2
  <2>4. \A c \in Clients : /\ cl[c].st \in Active \cup {"off", "ended"}
                           /\ Len(cl[c].replay) <= Cap /\ Len(cl[c].q) <= Cap
                           /\ ToSet(cl[c].got) \subseteq seen[c] /\ seen[c] \subseteq Spent
    BY <1>1 DEF Good, Fits, Connection
  <2>5. seen \in [Clients -> SUBSET (0..MaxSeq)]
    BY <1>1, <2>1, <2>4 DEF TaskTypeOK
  <2> QED
    BY <1>1, <2>2, <2>3, <2>4, <2>5 DEF StreamTypeOK, TaskTypeOK
<1> QED
  BY <1>1, <1>2, <1>3, <1>4, <1>5

\* The types: the history and every receiver stay within the capacity, and what
\* a client was sent is what it has seen.
THEOREM StreamTyping == StreamSpec => []StreamTypeOK
BY InitStreamInv, NextStreamInv, StreamInvMeans, PTL DEF StreamSpec

\* Each number is pushed once; an open channel holds the newest of what it was
\* sent, and every connection of every client comes to what its end promises.
THEOREM StreamInvariant == StreamSpec => [](NumbersInv /\ ChannelInv /\ ConnectionsInv)
BY InitStreamInv, NextStreamInv, StreamInvMeans, PTL DEF StreamSpec

\* subscribe: whatever is emitted between the snapshot and the live receiver, no
\* event is lost, repeated or reordered over a connection that was not trimmed
\* and has not lagged.
THEOREM SnapshotAndLiveMeet == StreamSpec => []SnapshotMeetsLive
BY InitStreamInv, NextStreamInv, StreamInvMeans, PTL DEF StreamSpec

\* stream: when the handler ends a stream by itself, its client has `done`.
THEOREM EndMeansDone == StreamSpec => []EndedStreamSawDone
BY InitStreamInv, NextStreamInv, StreamInvMeans, PTL DEF StreamSpec
=============================================================================
