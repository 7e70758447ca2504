----------------------------- MODULE Basics_proofs -----------------------------
(***************************************************************************)
(* Lemmas that the theorems about several components rest on: least and    *)
(* greatest numbers, parts of sequences, and recursive functions, whose    *)
(* values are found without an induction over an operator.                 *)
(***************************************************************************)
EXTENDS Integers, SequencesExt, FiniteSetTheorems, SequenceTheorems, FunctionTheorems,
        WellFoundedInduction, TLAPS

-----------------------------------------------------------------------------
(* Numbers and sequences.                                                  *)

\* A set of numbers up to n has a least one.
LEMMA Least ==
  ASSUME NEW n \in Nat, NEW S \in SUBSET (0..n), S # {}
  PROVE  \E m \in S : \A k \in S : m <= k
<1> DEFINE I == {0..k : k \in S}
<1>1. I \subseteq FiniteSubsetsOf(0..n) /\ I # {}
  <2>1. \A k \in S : 0..k \in SUBSET (0..n) /\ IsFiniteSet(0..k)
    BY FS_Interval
  <2>2. QED BY <2>1 DEF FiniteSubsetsOf
<1>2. PICK X \in I : \A Y \in I : <<Y, X>> \notin StrictSubsetOrdering(0..n)
  <2> HIDE DEF I
  <2>1. IsWellFoundedOn(StrictSubsetOrdering(0..n), FiniteSubsetsOf(0..n))
    BY FS_StrictSubsetOrderingWellFounded
  <2>2. \E X \in I : \A Y \in I : ~ (<<Y, X>> \in StrictSubsetOrdering(0..n))
    BY <1>1, <2>1, WFMin, Zenon
  <2>3. QED BY <2>2
<1>3. PICK m \in S : X = 0..m
  OBVIOUS
<1>4. ASSUME NEW k \in S, ~(m <= k) PROVE FALSE
  <2>1. 0..k \subseteq 0..m /\ 0..k # 0..m /\ 0..k \in I
    BY <1>4
  <2>2. /\ <<0..k, X>> \in (SUBSET (0..n)) \X (SUBSET (0..n))
        /\ <<0..k, X>>[1] = 0..k /\ <<0..k, X>>[2] = X
    BY <1>3
  <2> HIDE DEF I
  <2>3. <<0..k, X>> \in StrictSubsetOrdering(0..n)
    BY <1>3, <2>1, <2>2 DEF StrictSubsetOrdering
  <2>4. QED BY <1>2, <2>1, <2>3
<1>5. QED BY <1>4

\* So Min is its least and Max its greatest.
LEMMA MinMax ==
  ASSUME NEW n \in Nat, NEW S \in SUBSET (0..n), S # {}
  PROVE  /\ Min(S) \in S /\ \A k \in S : Min(S) <= k
         /\ Max(S) \in S /\ \A k \in S : Max(S) >= k
<1>1. \E m \in S : \A k \in S : m <= k
  BY Least
<1>2. Min(S) \in S /\ \A k \in S : Min(S) <= k
  BY <1>1 DEF Min
<1>3. \E m \in S : \A k \in S : m >= k
  <2> DEFINE T == {x \in 0..n : n - x \in S}
  <2>1. T \in SUBSET (0..n) /\ T # {}
    <3>1. PICK k \in S : TRUE
      OBVIOUS
    <3>2. n - k \in 0..n /\ n - (n - k) = k
      OBVIOUS
    <3>3. QED BY <3>1, <3>2
  <2> HIDE DEF T
  <2>2. PICK m \in T : \A k \in T : m <= k
    BY <2>1, Least
  <2>3. m \in 0..n /\ n - m \in S
    BY DEF T
  <2>4. ASSUME NEW k \in S PROVE n - m >= k
    <3>1. k \in 0..n /\ n - k \in 0..n /\ n - (n - k) = k
      OBVIOUS
    <3>2. n - k \in T
      BY <3>1 DEF T
    <3>3. QED BY <2>2, <2>3, <3>1, <3>2
  <2>5. QED BY <2>3, <2>4
<1>4. Max(S) \in S /\ \A k \in S : Max(S) >= k
  BY <1>3 DEF Max
<1>5. QED BY <1>2, <1>4

\* The items a to b of a sequence.
LEMMA CutOut ==
  ASSUME NEW S, NEW s \in Seq(S), NEW a \in 1 .. Len(s) + 1, NEW b \in a - 1 .. Len(s)
  PROVE  /\ SubSeq(s, a, b) \in Seq(S) /\ Len(SubSeq(s, a, b)) = b - a + 1
         /\ \A i \in 1 .. b - a + 1 : SubSeq(s, a, b)[i] = s[a + i - 1]
<1>1. Len(s) \in Nat /\ a \in Int /\ b \in Int /\ \A i \in a..b : s[i] \in S
  BY LenProperties, ElementOfSeq
<1> DEFINE t == SubSeq(s, a, b)
<1>2. /\ t \in Seq(S) /\ Len(t) = IF a <= b THEN b - a + 1 ELSE 0
      /\ \A i \in 1 .. b - a + 1 : t[i] = s[a + i - 1]
  BY <1>1, SubSeqProperties
<1> HIDE DEF t
<1>3. /\ t \in Seq(S) /\ Len(t) = b - a + 1
      /\ \A i \in 1 .. b - a + 1 : t[i] = s[a + i - 1]
  BY <1>1, <1>2
<1>4. QED BY <1>3 DEF t

-----------------------------------------------------------------------------
(* Recursive functions.                                                    *)

\* f and g follow the same recursion over 0..n.
Alike(f, g, n) == f[0] = g[0] /\ \A i \in 1..n : f[i - 1] = g[i - 1] => f[i] = g[i]

\* Then they are the same.
LEMMA SameRecursion ==
  ASSUME NEW n \in Nat, NEW f, NEW g, Alike(f, g, n)
  PROVE  \A i \in 0..n : f[i] = g[i]
<1> USE DEF Alike
<1> DEFINE S == {i \in 0..n : f[i] # g[i]}
<1>1. SUFFICES ASSUME S # {} PROVE FALSE
  OBVIOUS
<1>2. PICK m \in S : \A k \in S : m <= k
  <2>1. S \in SUBSET (0..n)
    OBVIOUS
  <2> HIDE DEF S
  <2>2. QED BY <1>1, <2>1, Least
<1>3. m \in 0..n /\ f[m] # g[m]
  OBVIOUS
<1>4. m # 0
  BY <1>3
<1>5. m \in 1..n /\ m - 1 \in 0..n /\ m - 1 < m
  BY <1>3, <1>4
<1>6. m - 1 \notin S
  <2> HIDE DEF S
  <2>1. QED BY <1>2, <1>5
<1>7. QED BY <1>3, <1>5, <1>6

\* f follows, from v on, the recursion over 0..n whose steps these are.
Follows(f, v, step, n) == f[0] = v /\ \A i \in 1..n : f[i] = step[i][f[i - 1]]

\* Every recursion has such a function.
LEMMA SomeRecursion ==
  ASSUME NEW V, NEW v \in V, NEW n \in Nat, NEW step \in [1..n -> [V -> V]]
  PROVE  \E f \in [0..n -> V] : Follows(f, v, step, n)
<1> USE DEF Follows
<1> DEFINE Is(f, m) == /\ f \in [0..m -> V] /\ f[0] = v
                       /\ \A i \in 1..m : f[i] = step[i][f[i - 1]]
           S == {m \in 0..n : ~ \E f : Is(f, m)}
<1>1. SUFFICES ASSUME S # {} PROVE FALSE
  <2>1. n \in 0..n
    OBVIOUS
  <2>2. QED BY <2>1
<1>2. PICK m \in S : \A k \in S : m <= k
  <2>1. S \in SUBSET (0..n)
    OBVIOUS
  <2> HIDE DEF S
  <2>2. QED BY <1>1, <2>1, Least
<1>3. m \in 0..n /\ ~ \E f : Is(f, m)
  OBVIOUS
<1>4. CASE m = 0
  <2> DEFINE f == [i \in 0..0 |-> v]
  <2>1. f \in [0..0 -> V] /\ f[0] = v /\ \A i \in 1..0 : f[i] = step[i][f[i - 1]]
    OBVIOUS
  <2>2. QED BY <1>3, <1>4, <2>1
<1>5. CASE m # 0
  <2>1. m - 1 \in 0..n /\ m - 1 < m /\ m \in 1..n /\ m - 1 \in 0 .. m - 1
    BY <1>3, <1>5
  <2>2. m - 1 \notin S
    <3> HIDE DEF S
    <3>1. QED BY <1>2, <2>1
  <2>3. PICK f : Is(f, m - 1)
    BY <2>1, <2>2
  <2> DEFINE x == step[m][f[m - 1]]
             g == [i \in 0..m |-> IF i = m THEN x ELSE f[i]]
  <2>4. /\ f \in [0 .. m - 1 -> V] /\ f[0] = v
        /\ \A i \in 1 .. m - 1 : f[i] = step[i][f[i - 1]]
    BY <2>3
  <2>5. x \in V
    <3>1. f[m - 1] \in V /\ step[m] \in [V -> V]
      BY <2>1, <2>4
    <3>2. QED BY <3>1
  <2>6. g \in [0..m -> V]
    <3>1. \A i \in 0..m : i # m => i \in 0 .. m - 1
      BY <2>1
    <3> HIDE DEF x
    <3>2. QED BY <2>4, <2>5, <3>1
  <2>7. g[0] = v
    BY <2>1, <2>4
  <2>8. \A i \in 1..m : g[i] = step[i][g[i - 1]]
    <3> SUFFICES ASSUME NEW i \in 1..m PROVE g[i] = step[i][g[i - 1]]
      OBVIOUS
    <3>1. g[i - 1] = f[i - 1]
      BY <2>1
    <3>2. CASE i = m
      BY <2>1, <3>1, <3>2
    <3>3. CASE i # m
      <4>1. i \in 1 .. m - 1 /\ g[i] = f[i]
        BY <2>1, <3>3
      <4>2. QED BY <2>4, <3>1, <4>1
    <3>4. QED BY <3>2, <3>3
  <2> HIDE DEF g
  <2>9. Is(g, m)
    BY <2>6, <2>7, <2>8
  <2>10. QED BY <1>3, <2>9
<1>6. QED BY <1>4, <1>5

-----------------------------------------------------------------------------
(* Sequences one after the other.                                          *)

\* Two of them.
LEMMA Joined2 ==
  ASSUME NEW T, NEW x \in Seq(T), NEW y \in Seq(T)
  PROVE  /\ x \o y \in Seq(T) /\ Len(x \o y) = Len(x) + Len(y)
         /\ Len(x) \in Nat /\ Len(y) \in Nat
         /\ \A i \in 1..Len(x) : (x \o y)[i] = x[i]
         /\ \A i \in 1..Len(y) : (x \o y)[Len(x) + i] = y[i]
<1>1. Len(x) \in Nat /\ Len(y) \in Nat
  BY LenProperties
<1>2. QED BY <1>1, ConcatProperties

\* Sequences with the same items are the same.
LEMMA SameItems ==
  ASSUME NEW T, NEW x \in Seq(T), NEW y \in Seq(T), Len(x) = Len(y),
         \A i \in 1..Len(x) : x[i] = y[i]
  PROVE  x = y
BY SeqEqual

\* Two stretches with the same items are the same.
LEMMA SameCut ==
  ASSUME NEW T, NEW s \in Seq(T), NEW t \in Seq(T), NEW a \in Int, NEW b \in Int,
         NEW c \in Int, NEW d \in Int, 1 <= a, a - 1 <= b, b <= Len(s),
         1 <= c, d <= Len(t), d - c = b - a, \A i \in a..b : t[c + (i - a)] = s[i]
  PROVE  SubSeq(t, c, d) = SubSeq(s, a, b)
<1>1. Len(s) \in Nat /\ Len(t) \in Nat
  BY LenProperties
<1>2. /\ a \in 1 .. Len(s) + 1 /\ b \in a - 1 .. Len(s)
      /\ c \in 1 .. Len(t) + 1 /\ d \in c - 1 .. Len(t)
  BY <1>1
<1> DEFINE x == SubSeq(s, a, b)
           y == SubSeq(t, c, d)
<1>3. x \in Seq(T) /\ Len(x) = b - a + 1 /\ \A i \in 1 .. b - a + 1 : x[i] = s[a + i - 1]
  BY <1>2, CutOut
<1>4. y \in Seq(T) /\ Len(y) = d - c + 1 /\ \A i \in 1 .. d - c + 1 : y[i] = t[c + i - 1]
  BY <1>2, CutOut
<1> HIDE DEF x, y
<1>5. ASSUME NEW i \in 1 .. b - a + 1 PROVE y[i] = x[i]
  <2>1. a + i - 1 \in a..b /\ c + ((a + i - 1) - a) = c + i - 1 /\ i \in 1 .. d - c + 1
    BY <1>2
  <2>2. QED BY <1>3, <1>4, <2>1
<1>6. y = x
  BY <1>3, <1>4, <1>5, SameItems
<1>7. QED BY <1>6 DEF x, y

\* All of a sequence of them: what the first ones give is a recursion.
LEMMA Flattened ==
  ASSUME NEW T, NEW V, V = Seq(T), NEW ss \in Seq(V)
  PROVE  \E f \in [0..Len(ss) -> V] :
             /\ f[0] = <<>> /\ \A i \in 1..Len(ss) : f[i] = f[i - 1] \o ss[i]
             /\ FlattenSeq(ss) = f[Len(ss)]
<1> DEFINE n == Len(ss)
           step == [i \in 1..n |-> [x \in V |-> x \o ss[i]]]
<1>1. n \in Nat /\ <<>> \in V /\ \A i \in 1..n : ss[i] \in V
  BY LenProperties, ElementOfSeq
<1>a. step \in [1..n -> [V -> V]]
  BY <1>1, ConcatProperties
<1>b. \A i \in 1..n : \A x \in V : step[i][x] = x \o ss[i]
  OBVIOUS
<1>c. FlattenSeq(ss) = IF n = 0 THEN ss ELSE
        (CHOOSE h : h = [i \in 1..n |-> IF i = 1 THEN ss[i] ELSE h[i - 1] \o ss[i]])[n]
  BY DEF FlattenSeq
<1>d. n = 0 => ss = <<>>
  BY EmptySeq
<1> HIDE DEF n, step
<1>2. PICK f \in [0..n -> V] : Follows(f, <<>>, step, n)
  BY <1>1, <1>a, SomeRecursion
<1>3. f[0] = <<>> /\ \A i \in 1..n : f[i] = f[i - 1] \o ss[i]
  <2>1. \A i \in 1..n : f[i - 1] \in V
    BY <1>1, <1>2
  <2>2. QED BY <1>2, <1>b, <2>1 DEF Follows
<1>4. CASE n = 0
  BY <1>2, <1>3, <1>4, <1>d, <1>c DEF n
<1>5. CASE n # 0
  <2> DEFINE F(h) == [i \in 1..n |-> IF i = 1 THEN ss[i] ELSE h[i - 1] \o ss[i]]
             G == CHOOSE h : h = F(h)
             g == [i \in 1..n |-> f[i]]
  <2>1. FlattenSeq(ss) = G[n]
    BY <1>5, <1>c
  <2>2. g = F(g)
    <3>1. \A i \in 1..n : g[i] = IF i = 1 THEN ss[i] ELSE g[i - 1] \o ss[i]
      <4> TAKE i \in 1..n
      <4>1. CASE i = 1
        <5>1. f[1] = f[1 - 1] \o ss[1] /\ ss[1] \in V
          BY <1>1, <1>3, <4>1, Zenon
        <5>a. 1 - 1 = 0
          OBVIOUS
        <5>2. QED BY <1>3, <4>1, <5>1, <5>a, ConcatEmptySeq
      <4>2. CASE i # 1
        <5>1. i - 1 \in 1..n
          BY <1>1, <4>2
        <5>2. f[i] = f[i - 1] \o ss[i]
          BY <1>3, Zenon
        <5>3. QED BY <4>2, <5>1, <5>2
      <4>3. QED BY <4>1, <4>2
    <3>2. QED BY <3>1
  <2>3. G = F(G)
    <3> HIDE DEF g, F
    <3>1. QED BY <2>2
  <2>4. \A i \in 1..n : G[i] = IF i = 1 THEN ss[i] ELSE G[i - 1] \o ss[i]
    <3> HIDE DEF G
    <3>1. QED BY <2>3
  <2> HIDE DEF G
  <2> DEFINE h == [i \in 0..n |-> IF i = 0 THEN <<>> ELSE G[i]]
  <2>5. Alike(f, h, n)
    <3>1. f[0] = h[0]
      BY <1>1, <1>3
    <3>2. ASSUME NEW i \in 1..n, f[i - 1] = h[i - 1] PROVE f[i] = h[i]
      <4>1. CASE i = 1
        <5>1. f[1] = f[1 - 1] \o ss[1] /\ ss[1] \in V
          BY <1>1, <1>3, <4>1, Zenon
        <5>a. 1 - 1 = 0
          OBVIOUS
        <5>2. h[1] = ss[1]
          BY <1>1, <2>4, <4>1
        <5>3. QED BY <1>3, <4>1, <5>1, <5>2, <5>a, ConcatEmptySeq
      <4>2. CASE i # 1
        <5>1. i - 1 \in 1..n /\ h[i - 1] = G[i - 1] /\ h[i] = G[i]
          BY <1>1, <4>2
        <5>2. f[i] = f[i - 1] \o ss[i]
          BY <1>3
        <5>3. G[i] = G[i - 1] \o ss[i]
          BY <2>4, <4>2
        <5>4. QED BY <3>2, <5>1, <5>2, <5>3
      <4>3. QED BY <4>1, <4>2
    <3>3. QED BY <3>1, <3>2 DEF Alike
  <2>6. f[n] = h[n] /\ h[n] = G[n]
    <3>1. \A i \in 0..n : f[i] = h[i]
      <4> HIDE DEF h, n
      <4>1. QED BY <1>1, <2>5, SameRecursion
    <3>2. QED BY <1>1, <1>5, <3>1, SMTT(30)
  <2>7. QED BY <1>2, <1>3, <2>1, <2>6 DEF n
<1>6. QED BY <1>4, <1>5

\* A set that is closed under concatenation holds what its members give.
LEMMA FlattenIn ==
  ASSUME NEW T, NEW X \in SUBSET Seq(T), <<>> \in X,
         \A x, y \in X : x \o y \in X, NEW ss \in Seq(X)
  PROVE  FlattenSeq(ss) \in X
<1>1. ss \in Seq(Seq(T)) /\ Len(ss) \in Nat /\ \A i \in 1..Len(ss) : ss[i] \in X
  BY SeqMonotonic, LenProperties, ElementOfSeq
<1>2. PICK f \in [0..Len(ss) -> Seq(T)] :
          /\ f[0] = <<>> /\ \A i \in 1..Len(ss) : f[i] = f[i - 1] \o ss[i]
          /\ FlattenSeq(ss) = f[Len(ss)]
  BY <1>1, Flattened
<1> DEFINE S == {i \in 0..Len(ss) : f[i] \notin X}
<1>3. S = {}
  <2> SUFFICES ASSUME S # {} PROVE FALSE
    OBVIOUS
  <2>1. PICK m \in S : \A k \in S : m <= k
    <3>1. S \in SUBSET (0..Len(ss))
      OBVIOUS
    <3> HIDE DEF S
    <3>2. QED BY <1>1, <3>1, Least
  <2>2. m \in 1..Len(ss) /\ m - 1 \in 0..Len(ss) /\ m - 1 < m
    BY <1>1, <1>2
  <2>3. f[m - 1] \in X
    BY <2>1, <2>2
  <2>4. QED BY <1>1, <1>2, <2>2, <2>3
<1>4. QED BY <1>1, <1>2, <1>3, SMTT(30)
================================================================================
