---------------------------- MODULE Delivery_proofs ----------------------------
(***************************************************************************)
(* Theorems about how Cli types a command into the target's input field,   *)
(* for any command lines and texts, any size of the chunks and of the      *)
(* longest burst, and whichever code points are invisible.                 *)
(***************************************************************************)
EXTENDS Cli, Basics_proofs

-----------------------------------------------------------------------------
(* Leaving characters out.                                                 *)

\* f[i] is what is left of the first i characters.
Sieves(f, s, S) ==
    /\ f[0] = <<>>
    /\ \A i \in 1..Len(s) : f[i] = IF s[i] \in S THEN f[i - 1] ELSE Append(f[i - 1], s[i])

\* Some function does, and Without is its last value.
LEMMA WithoutSieves ==
  ASSUME NEW T, NEW s \in Seq(T), NEW S
  PROVE  \E f \in [0..Len(s) -> Seq(T \ S)] : Sieves(f, s, S) /\ Without(s, S) = f[Len(s)]
<1> DEFINE n == Len(s)
           V == Seq(T \ S)
           step == [i \in 1..n |-> [r \in V |-> IF s[i] \in S THEN r ELSE Append(r, s[i])]]
           F(g) == [i \in 0..n |-> IF i = 0 THEN <<>>
                                   ELSE IF s[i] \in S THEN g[i - 1] ELSE Append(g[i - 1], s[i])]
           Upto == CHOOSE g : g = F(g)
<1>1. n \in Nat /\ \A i \in 1..n : s[i] \in T
  BY LenProperties, ElementOfSeq
<1>2. Without(s, S) = Upto[n]
  BY DEF Without
<1> HIDE DEF n
<1>3. <<>> \in V /\ \A i \in 1..n, r \in V : s[i] \notin S => Append(r, s[i]) \in V
  BY <1>1, AppendProperties
<1> HIDE DEF V
<1>4. step \in [1..n -> [V -> V]]
  BY <1>3
<1> HIDE DEF step
<1>5. PICK f \in [0..n -> V] : Follows(f, <<>>, step, n)
  <2>1. <<>> \in V
    BY <1>3
  <2>2. n \in Nat
    BY <1>1
  <2>3. QED BY ONLY <1>4, <2>1, <2>2, SomeRecursion
<1>6. \A i \in 1..n : f[i] = IF s[i] \in S THEN f[i - 1] ELSE Append(f[i - 1], s[i])
  <2> SUFFICES ASSUME NEW i \in 1..n
               PROVE  f[i] = IF s[i] \in S THEN f[i - 1] ELSE Append(f[i - 1], s[i])
    OBVIOUS
  <2>1. i - 1 \in 0..n
    BY <1>1
  <2>2. f[i - 1] \in V
    BY <2>1
  <2>3. QED BY <1>5, <2>2 DEF step, Follows
<1>7. f = F(f)
  <2>1. \A i \in 0..n : i = 0 \/ i \in 1..n
    BY <1>1
  <2>2. \A i \in 0..n : f[i] = IF i = 0 THEN <<>>
                               ELSE IF s[i] \in S THEN f[i - 1] ELSE Append(f[i - 1], s[i])
    BY <1>5, <1>6, <2>1 DEF Follows
  <2>3. f = [i \in 0..n |-> f[i]]
    OBVIOUS
  <2>4. QED BY <2>2, <2>3
<1>8. Upto = F(Upto)
  <2> HIDE DEF F
  <2>1. QED BY <1>7
<1> HIDE DEF Upto
<1>9. /\ Upto[0] = <<>>
      /\ \A i \in 1..n : Upto[i] = IF s[i] \in S THEN Upto[i - 1] ELSE Append(Upto[i - 1], s[i])
  <2>1. 0 \in 0..n /\ \A i \in 1..n : i \in 0..n /\ i # 0
    BY <1>1
  <2>2. \A i \in 0..n : Upto[i] = IF i = 0 THEN <<>>
                        ELSE IF s[i] \in S THEN Upto[i - 1] ELSE Append(Upto[i - 1], s[i])
    BY <1>8
  <2>3. QED BY <2>1, <2>2
<1>10. \A i \in 0..n : f[i] = Upto[i]
  <2>1. Alike(f, Upto, n)
    BY <1>5, <1>6, <1>9 DEF Alike, Follows
  <2>2. QED BY <1>1, <2>1, SameRecursion
<1>11. f[n] = Upto[n]
  BY <1>1, <1>10
<1>12. QED BY <1>2, <1>5, <1>6, <1>11 DEF Sieves, Follows, n, V

\* What is left has none of what is left out.
LEMMA WithoutType ==
  ASSUME NEW T, NEW s \in Seq(T), NEW S
  PROVE  Without(s, S) \in Seq(T \ S)
<1>1. PICK f \in [0..Len(s) -> Seq(T \ S)] : Without(s, S) = f[Len(s)]
  BY WithoutSieves
<1>2. Len(s) \in 0..Len(s)
  BY LenProperties
<1>3. QED BY <1>1, <1>2

\* Two texts, one after the other.
LEMMA WithoutConcat ==
  ASSUME NEW T, NEW a \in Seq(T), NEW b \in Seq(T), NEW S
  PROVE  Without(a \o b, S) = Without(a, S) \o Without(b, S)
<1> DEFINE c == a \o b
           m == Len(a)
           n == Len(b)
           V == Seq(T \ S)
<1>1. /\ m \in Nat /\ n \in Nat
      /\ \A i \in 1..m : a[i] \in T
      /\ \A i \in 1..n : b[i] \in T
  BY LenProperties, ElementOfSeq
<1>2. /\ c \in Seq(T) /\ Len(c) = m + n
      /\ \A i \in 1 .. m + n : c[i] = IF i <= m THEN a[i] ELSE b[i - m]
  BY ConcatProperties
<1>3. PICK f \in [0..m -> V] : Sieves(f, a, S) /\ Without(a, S) = f[m]
  BY WithoutSieves
<1>4. PICK g \in [0..n -> V] : Sieves(g, b, S) /\ Without(b, S) = g[n]
  BY WithoutSieves
<1> HIDE DEF c
<1>5. PICK h \in [0 .. m + n -> V] : Sieves(h, c, S) /\ Without(c, S) = h[m + n]
  <2>1. \E h \in [0..Len(c) -> V] : Sieves(h, c, S) /\ Without(c, S) = h[Len(c)]
    BY <1>2, WithoutSieves
  <2> HIDE DEF m, n, V
  <2>2. QED BY <1>2, <2>1
<1>6. /\ f[0] = <<>>
      /\ \A i \in 1..m : f[i] = IF a[i] \in S THEN f[i - 1] ELSE Append(f[i - 1], a[i])
      /\ g[0] = <<>>
      /\ \A i \in 1..n : g[i] = IF b[i] \in S THEN g[i - 1] ELSE Append(g[i - 1], b[i])
      /\ h[0] = <<>>
      /\ \A i \in 1..m + n : h[i] = IF c[i] \in S THEN h[i - 1] ELSE Append(h[i - 1], c[i])
  BY <1>2, <1>3, <1>4, <1>5 DEF Sieves
<1> HIDE DEF m, n, V
<1>7. h[m] = f[m]
  <2>1. \A i \in 1..m : i \in 1 .. m + n /\ c[i] = a[i]
    BY <1>1, <1>2
  <2>2. \A i \in 1..m : f[i - 1] = h[i - 1] => f[i] = h[i]
    BY <1>6, <2>1
  <2>3. f[0] = h[0]
    BY <1>6
  <2>4. \A i \in 0..m : f[i] = h[i]
    <3>1. Alike(f, h, m)
      BY <2>2, <2>3 DEF Alike
    <3>2. QED BY <1>1, <3>1, SameRecursion
  <2>5. m \in 0..m
    BY <1>1
  <2>6. QED BY <2>4, <2>5
<1>8. h[m + n] = f[m] \o g[n]
  <2> DEFINE p == [i \in 0..n |-> h[m + i]]
             q == [i \in 0..n |-> f[m] \o g[i]]
  <2>0. m \in 0..m /\ n \in 0..n /\ 0 \in 0..n /\ \A i \in 1..n : i - 1 \in 0..n /\ i \in 0..n
    BY <1>1
  <2>1. f[m] \in V /\ \A i \in 0..n : g[i] \in V
    BY <2>0
  <2>2. p[0] = q[0]
    <3>1. p[0] = h[m]
      BY <1>1, <2>0
    <3>2. q[0] = f[m] \o <<>>
      BY <1>6, <2>0
    <3>3. f[m] \o <<>> = f[m]
      BY <2>1, ConcatEmptySeq DEF V
    <3>4. QED BY <1>7, <3>1, <3>2, <3>3
  <2>3. ASSUME NEW i \in 1..n, p[i - 1] = q[i - 1] PROVE p[i] = q[i]
    <3>1. /\ m + i \in 1 .. m + n /\ m + i - 1 = m + (i - 1)
          /\ c[m + i] = b[i]
      BY <1>1, <1>2
    <3>2. h[m + (i - 1)] = f[m] \o g[i - 1]
      BY <2>0, <2>3
    <3>3. p[i] = IF b[i] \in S THEN f[m] \o g[i - 1] ELSE Append(f[m] \o g[i - 1], b[i])
      <4> DEFINE j == m + i
      <4>1. j \in 1 .. m + n /\ c[j] = b[i] /\ j - 1 = m + (i - 1)
        BY <1>1, <1>2
      <4>2. p[i] = h[j]
        BY <2>0
      <4> HIDE DEF j, p, q
      <4>3. h[j] = IF c[j] \in S THEN h[j - 1] ELSE Append(h[j - 1], c[j])
        BY <1>6, <4>1
      <4>4. h[j - 1] = f[m] \o g[i - 1]
        BY <3>2, <4>1
      <4>5. QED BY <4>1, <4>2, <4>3, <4>4
    <3>4. q[i] = f[m] \o (IF b[i] \in S THEN g[i - 1] ELSE Append(g[i - 1], b[i]))
      BY <1>6, <2>0
    <3>5. CASE b[i] \in S
      BY <3>3, <3>4, <3>5
    <3>6. CASE b[i] \notin S
      <4> DEFINE r == g[i - 1]
                 x == b[i]
                 u == f[m]
      <4>1. u \in V /\ r \in V /\ x \in T \ S
        BY <1>1, <2>0, <2>1, <3>6
      <4> HIDE DEF r, x, u
      <4>2. <<x>> \in V
        BY <4>1 DEF V
      <4>3. Append(u \o r, x) = (u \o r) \o <<x>> /\ Append(r, x) = r \o <<x>>
        BY <4>1, AppendIsConcat, ConcatProperties DEF V
      <4>4. (u \o r) \o <<x>> = u \o (r \o <<x>>)
        BY <4>1, <4>2, ConcatAssociative, SMTT(30) DEF V
      <4>5. QED BY <3>3, <3>4, <3>6, <4>3, <4>4 DEF r, x, u
    <3>7. QED BY <3>5, <3>6
  <2> HIDE DEF p, q
  <2>4. \A i \in 0..n : p[i] = q[i]
    <3>1. Alike(p, q, n)
      BY <2>2, <2>3 DEF Alike
    <3>2. QED BY <1>1, <3>1, SameRecursion
  <2>5. p[n] = q[n]
    BY <2>0, <2>4
  <2>6. QED BY <2>0, <2>5 DEF p, q
<1>9. QED BY <1>3, <1>4, <1>5, <1>8 DEF c

\* One character.
LEMMA WithoutOne ==
  ASSUME NEW x, NEW S
  PROVE  Without(<<x>>, S) = IF x \in S THEN <<>> ELSE <<x>>
<1> DEFINE s == <<x>>
<1>1. s \in Seq({x}) /\ Len(s) = 1 /\ s[1] = x
  OBVIOUS
<1> HIDE DEF s
<1>2. PICK f \in [0..Len(s) -> Seq({x} \ S)] : Sieves(f, s, S) /\ Without(s, S) = f[Len(s)]
  BY <1>1, WithoutSieves
<1>3. f[0] = <<>> /\ f[1] = IF x \in S THEN f[0] ELSE Append(f[0], x)
  BY <1>1, <1>2 DEF Sieves
<1>4. QED BY <1>1, <1>2, <1>3 DEF s

-----------------------------------------------------------------------------
(* Folding.                                                                *)

\* Where a line ends.
LEMMA LineEndIs ==
  ASSUME NEW T, NEW s \in Seq(T), NEW k \in 0..Len(s)
  PROVE  /\ LineEnd(s, k) \in k..Len(s)
         /\ LineEnd(s, k) < Len(s) => s[LineEnd(s, k) + 1] = LF
         /\ \A i \in k + 1..LineEnd(s, k) : s[i] # LF
<1> DEFINE n == Len(s)
           S == {n} \cup {i \in k .. n - 1 : s[i + 1] = LF}
           m == LineEnd(s, k)
<1>1. n \in Nat
  BY LenProperties
<1>2. m = Min(S)
  BY DEF LineEnd
<1>3. S \in SUBSET (0..n) /\ S # {} /\ \A i \in S : i \in k..n
  BY <1>1
<1>4. \A i \in S : i = n \/ s[i + 1] = LF
  OBVIOUS
<1>5. \A i \in k + 1 .. n : s[i] = LF => i - 1 \in S
  <2> SUFFICES ASSUME NEW i \in k + 1 .. n, s[i] = LF PROVE i - 1 \in S
    OBVIOUS
  <2>1. i - 1 \in k .. n - 1 /\ (i - 1) + 1 = i
    BY <1>1
  <2>2. QED BY <2>1
<1> HIDE DEF S
<1>6. m \in S /\ \A i \in S : m <= i
  <2>1. S \in SUBSET (0..n) /\ S # {}
    BY <1>3
  <2>2. Min(S) \in S /\ \A i \in S : Min(S) <= i
    BY <1>1, <2>1, MinMax
  <2> HIDE DEF m
  <2>3. QED BY <1>2, <2>2
<1> HIDE DEF m, n
<1>7. m \in k..n /\ (m < n => s[m + 1] = LF)
  BY <1>1, <1>3, <1>4, <1>6
<1>8. \A i \in k + 1 .. m : s[i] # LF
  <2> SUFFICES ASSUME NEW i \in k + 1 .. m, s[i] = LF PROVE FALSE
    OBVIOUS
  <2>1. i \in k + 1 .. n /\ ~(m <= i - 1)
    BY <1>1, <1>7
  <2>2. QED BY <1>5, <1>6, <2>1
<1>9. QED BY <1>7, <1>8 DEF m, n

\* Where a line that is too long is cut.
LEMMA CutAfterIs ==
  ASSUME NEW T, NEW s \in Seq(T), NEW k \in 0..Len(s), NEW w \in Nat, w > 0, k + w < Len(s)
  PROVE  LET c == CutAfter(s, k, w)
         IN  /\ c \in k + 1 .. k + w
             /\ \/ s[c] = Blank
                \/ c = k + w /\ \A i \in k + 2 .. k + w : s[i] # Blank
<1> DEFINE n == Len(s)
           S == {i \in k + 2 .. k + w : s[i] = Blank}
<1>1. n \in Nat
  BY LenProperties
<1>2. CutAfter(s, k, w) = IF S = {} THEN k + w ELSE Max(S)
  BY DEF CutAfter
<1>3. S \in SUBSET (0..n) /\ \A i \in S : i \in k + 2 .. k + w /\ s[i] = Blank
  BY <1>1
<1>4. S = {} => \A i \in k + 2 .. k + w : s[i] # Blank
  OBVIOUS
<1>5. S # {} => Max(S) \in S
  <2> HIDE DEF S
  <2>1. QED BY <1>1, <1>3, MinMax
<1> HIDE DEF S
<1>6. CASE S = {}
  BY <1>2, <1>4, <1>6
<1>7. CASE S # {}
  <2>1. Max(S) \in k + 2 .. k + w /\ s[Max(S)] = Blank
    BY <1>3, <1>5, <1>7
  <2>2. QED BY <1>2, <1>7, <2>1
<1>8. QED BY <1>6, <1>7

\* The segment that starts behind position k, r being the segments after it.
Segment(s, w, k, r) ==
    LET end == LineEnd(s, k)
    IN  IF end - k > w THEN SubSeq(s, k + 1, CutAfter(s, k, w)) \o <<LF>> \o r
        ELSE SubSeq(s, k + 1, end) \o (IF end = Len(s) THEN <<>> ELSE <<LF>> \o r)

\* Where the next one starts.
NextStart(s, w, k) ==
    IF LineEnd(s, k) - k > w THEN CutAfter(s, k, w) ELSE LineEnd(s, k) + 1

\* f[k] are the segments behind position k.
Folds(f, s, w, m) ==
    /\ f = [k \in m..Len(s) |-> f[k]]
    /\ \A k \in m..Len(s) : f[k] = Segment(s, w, k, f[NextStart(s, w, k)])

\* It is behind this one, and at most the end.
LEMMA NextStartIs ==
  ASSUME NEW T, NEW s \in Seq(T), NEW w \in Nat, w > 0, NEW k \in 0..Len(s)
  PROVE  NextStart(s, w, k) \in k + 1 .. Len(s) + 1
<1>1. Len(s) \in Nat /\ LineEnd(s, k) \in k..Len(s)
  BY LenProperties, LineEndIs
<1>2. CASE LineEnd(s, k) - k > w
  <2>1. k + w < Len(s)
    BY <1>1, <1>2
  <2>2. CutAfter(s, k, w) \in k + 1 .. k + w
    BY <2>1, CutAfterIs
  <2>3. QED BY <1>1, <1>2, <2>1, <2>2 DEF NextStart
<1>3. CASE ~(LineEnd(s, k) - k > w)
  BY <1>1, <1>3 DEF NextStart
<1>4. QED BY <1>2, <1>3

\* The last start needs no other.
LEMMA SegmentAlone ==
  ASSUME NEW T, NEW s \in Seq(T), NEW w \in Nat, w > 0, NEW k \in 0..Len(s),
         NEW q, NEW r, NextStart(s, w, k) > Len(s)
  PROVE  Segment(s, w, k, q) = Segment(s, w, k, r)
<1>1. Len(s) \in Nat /\ LineEnd(s, k) \in k..Len(s)
  BY LenProperties, LineEndIs
<1>2. ~(LineEnd(s, k) - k > w)
  <2>1. ASSUME LineEnd(s, k) - k > w PROVE FALSE
    <3>1. k + w < Len(s)
      BY <1>1, <2>1
    <3>2. CutAfter(s, k, w) \in k + 1 .. k + w
      BY <3>1, CutAfterIs
    <3>3. QED BY <1>1, <2>1, <3>1, <3>2 DEF NextStart
  <2>2. QED BY <2>1
<1>3. LineEnd(s, k) = Len(s)
  BY <1>1, <1>2 DEF NextStart
<1>4. QED BY <1>2, <1>3 DEF Segment

\* Some function folds.
LEMMA SomeFold ==
  ASSUME NEW T, NEW s \in Seq(T), NEW w \in Nat, w > 0
  PROVE  \E f : Folds(f, s, w, 0)
<1> DEFINE n == Len(s)
           S == {m \in 0..n : ~ \E f : Folds(f, s, w, n - m)}
<1>1. n \in Nat
  BY LenProperties
<1>2. SUFFICES ASSUME S # {} PROVE FALSE
  <2>1. n \in 0..n /\ n - n = 0
    BY <1>1
  <2>2. QED BY <2>1
<1>3. PICK m \in S : \A k \in S : m <= k
  <2>1. S \in SUBSET (0..n)
    OBVIOUS
  <2> HIDE DEF S
  <2>2. QED BY <1>1, <1>2, <2>1, Least
<1>4. m \in 0..n /\ ~ \E f : Folds(f, s, w, n - m)
  OBVIOUS
<1> DEFINE a == n - m
<1>5. a \in 0..n
  BY <1>1, <1>4
<1>6. \A k \in 0..n : NextStart(s, w, k) \in k + 1 .. n + 1
  BY NextStartIs
<1>7. \E f : f = [k \in a + 1 .. n |-> f[k]]
             /\ \A k \in a + 1 .. n : f[k] = Segment(s, w, k, f[NextStart(s, w, k)])
  <2>1. CASE m = 0
    <3>1. a + 1 .. n = {}
      BY <1>1, <2>1
    <3> DEFINE f == [k \in a + 1 .. n |-> 0]
    <3>2. f = [k \in a + 1 .. n |-> f[k]]
      OBVIOUS
    <3> HIDE DEF f
    <3>3. QED BY <3>1, <3>2
  <2>2. CASE m # 0
    <3>1. m - 1 \in 0..n /\ ~(m <= m - 1) /\ n - (m - 1) = a + 1
      BY <1>1, <1>4, <2>2
    <3>2. m - 1 \notin S
      <4> HIDE DEF S
      <4>1. QED BY <1>3, <3>1
    <3>3. \E f : Folds(f, s, w, n - (m - 1))
      BY <3>1, <3>2
    <3> HIDE DEF a
    <3>4. QED BY <3>1, <3>3 DEF Folds
  <2>3. QED BY <2>1, <2>2
<1>8. PICK f : f = [k \in a + 1 .. n |-> f[k]]
               /\ \A k \in a + 1 .. n : f[k] = Segment(s, w, k, f[NextStart(s, w, k)])
  BY <1>7
<1> DEFINE x == Segment(s, w, a, f[NextStart(s, w, a)])
           g == [k \in a..n |-> IF k = a THEN x ELSE f[k]]
<1> HIDE DEF a, n, S
<1>9. \A k \in a + 1 .. n : k \in a..n /\ k # a
  BY <1>1, <1>5
<1>10. \A k \in a..n : Segment(s, w, k, g[NextStart(s, w, k)])
                         = Segment(s, w, k, f[NextStart(s, w, k)])
  <2> SUFFICES ASSUME NEW k \in a..n
               PROVE  Segment(s, w, k, g[NextStart(s, w, k)])
                        = Segment(s, w, k, f[NextStart(s, w, k)])
    OBVIOUS
  <2>1. k \in 0..n /\ k \in 0..Len(s)
    BY <1>1, <1>5 DEF n
  <2> DEFINE h == NextStart(s, w, k)
  <2>2. h \in k + 1 .. n + 1
    BY <1>6, <2>1
  <2> HIDE DEF h
  <2>3. CASE h > n
    <3>1. NextStart(s, w, k) > Len(s)
      BY <2>3 DEF h, n
    <3>2. QED BY <2>1, <3>1, SegmentAlone DEF h
  <2>4. CASE ~(h > n)
    <3>1. h \in a + 1 .. n
      BY <1>1, <1>5, <2>1, <2>2, <2>4
    <3>2. g[h] = f[h]
      BY <1>9, <3>1
    <3>3. QED BY <3>2 DEF h
  <2>5. QED BY <2>3, <2>4
<1>11. \A k \in a..n : g[k] = Segment(s, w, k, f[NextStart(s, w, k)])
  <2> SUFFICES ASSUME NEW k \in a..n PROVE g[k] = Segment(s, w, k, f[NextStart(s, w, k)])
    OBVIOUS
  <2>1. CASE k = a
    BY <2>1
  <2>2. CASE k # a
    <3>1. k \in a + 1 .. n
      BY <1>1, <1>5, <2>2
    <3>2. g[k] = f[k]
      BY <2>2
    <3>3. QED BY <1>8, <3>1, <3>2
  <2>3. QED BY <2>1, <2>2
<1>12. g = [k \in a..n |-> g[k]]
  OBVIOUS
<1> HIDE DEF g, x
<1>13. Folds(g, s, w, a)
  BY <1>10, <1>11, <1>12 DEF Folds, n
<1>14. QED BY <1>4, <1>13 DEF a

\* FoldText is its first start's fold.
LEMMA FoldTextIs ==
  ASSUME NEW T, NEW s \in Seq(T), NEW w \in Nat, w > 0
  PROVE  \E f : Folds(f, s, w, 0) /\ FoldText(s, w) = f[0]
<1> DEFINE n == Len(s)
           F(g) == [start \in 0..n |->
                      LET end == LineEnd(s, start)
                          cut == CutAfter(s, start, w)
                      IN  IF end - start > w
                            THEN SubSeq(s, start + 1, cut) \o <<LF>> \o g[cut]
                            ELSE SubSeq(s, start + 1, end)
                                   \o (IF end = n THEN <<>> ELSE <<LF>> \o g[end + 1])]
           From == CHOOSE g : g = F(g)
<1>1. FoldText(s, w) = From[0]
  <2>1. w # 0
    OBVIOUS
  <2>2. QED BY <2>1 DEF FoldText
<1>2. ASSUME NEW g, NEW k \in 0..n PROVE F(g)[k] = Segment(s, w, k, g[NextStart(s, w, k)])
  <2>1. CASE LineEnd(s, k) - k > w
    BY <2>1 DEF Segment, NextStart
  <2>2. CASE ~(LineEnd(s, k) - k > w)
    BY <2>2 DEF Segment, NextStart
  <2>3. QED BY <2>1, <2>2
<1>3. PICK f : Folds(f, s, w, 0)
  BY SomeFold
<1>4. \A g : DOMAIN F(g) = 0..n
  OBVIOUS
<1>5. f = F(f)
  <2>1. f = [k \in 0..n |-> f[k]] /\ \A k \in 0..n : f[k] = Segment(s, w, k, f[NextStart(s, w, k)])
    BY <1>3 DEF Folds
  <2>2. F(f) = [k \in 0..n |-> F(f)[k]]
    BY <1>4
  <2>3. \A k \in 0..n : F(f)[k] = f[k]
    <3> HIDE DEF F
    <3>1. QED BY <1>2, <2>1
  <2> HIDE DEF F
  <2>4. F(f) = [k \in 0..n |-> f[k]]
    BY <2>2, <2>3
  <2>5. QED BY <2>1, <2>4
<1>6. From = F(From)
  <2> HIDE DEF F
  <2>1. QED BY <1>5
<1> HIDE DEF F, From
<1>7. Folds(From, s, w, 0)
  <2>1. From = [k \in 0..n |-> From[k]]
    BY <1>6 DEF F
  <2>2. \A k \in 0..n : From[k] = Segment(s, w, k, From[NextStart(s, w, k)])
    BY <1>2, <1>6
  <2>3. QED BY <2>1, <2>2 DEF Folds
<1>8. QED BY <1>1, <1>7

\* Newlines apart, two texts say what they say one after the other.
LEMMA FlatConcat ==
  ASSUME NEW T, NEW x \in Seq(T), NEW y \in Seq(T)
  PROVE  Flat(x \o y) = Flat(x) \o Flat(y)
BY WithoutConcat DEF Flat

\* What is left without the newlines is made of what the text is made of.
LEMMA FlatType ==
  ASSUME NEW T, NEW x \in Seq(T)
  PROVE  Flat(x) \in Seq(T)
<1>1. Without(x, {LF}) \in Seq(T \ {LF}) /\ T \ {LF} \subseteq T
  BY WithoutType
<1>2. QED BY <1>1, SeqMonotonic DEF Flat

\* A newline says nothing, nor does nothing.
LEMMA FlatNothing ==
  ASSUME NEW T, LF \in T
  PROVE  /\ <<LF>> \in Seq(T) /\ <<>> \in Seq(T)
         /\ Flat(<<LF>>) = <<>> /\ Flat(<<>>) = <<>>
<1>1. <<LF>> \in Seq(T) /\ <<>> \in Seq(T)
  OBVIOUS
<1>2. Without(<<LF>>, {LF}) = <<>>
  BY WithoutOne
<1>3. Without(<<>>, {LF}) = <<>>
  <2> DEFINE s == <<>>
  <2>1. s \in Seq(T) /\ Len(s) = 0
    OBVIOUS
  <2> HIDE DEF s
  <2>2. PICK f \in [0..Len(s) -> Seq(T \ {LF})] :
            Sieves(f, s, {LF}) /\ Without(s, {LF}) = f[Len(s)]
    BY <2>1, WithoutSieves
  <2>3. Without(s, {LF}) = <<>>
    BY <2>1, <2>2 DEF Sieves
  <2>4. QED BY <2>3 DEF s
<1>4. QED BY <1>1, <1>2, <1>3 DEF Flat

\* A text may be cut anywhere.
LEMMA CutInTwo ==
  ASSUME NEW T, NEW s \in Seq(T), NEW k \in 0..Len(s), NEW c \in k..Len(s)
  PROVE  /\ SubSeq(s, k + 1, c) \in Seq(T) /\ SubSeq(s, c + 1, Len(s)) \in Seq(T)
         /\ SubSeq(s, k + 1, c) \o SubSeq(s, c + 1, Len(s)) = SubSeq(s, k + 1, Len(s))
<1> DEFINE n == Len(s)
<1>1. n \in Nat
  BY LenProperties
<1>2. SubSeq(s, k + 1, c) \in Seq(T)
  <2>1. k + 1 \in 1 .. n + 1 /\ c \in k + 1 - 1 .. n
    BY <1>1
  <2>2. QED BY <2>1, CutOut
<1>3. SubSeq(s, c + 1, n) \in Seq(T)
  <2>1. c + 1 \in 1 .. n + 1 /\ n \in c + 1 - 1 .. n
    BY <1>1
  <2>2. QED BY <2>1, CutOut
<1>4. SubSeq(s, k + 1, c) \o SubSeq(s, c + 1, n) = SubSeq(s, k + 1, n)
  <2> DEFINE m == k + 1
  <2>1. m \in 1 .. Len(s) + 1 /\ c \in m - 1 .. Len(s) /\ n \in c .. Len(s)
    BY <1>1
  <2> HIDE DEF m, n
  <2>2. SubSeq(s, m, c) \o SubSeq(s, c + 1, n) = SubSeq(s, m, n)
    BY <2>1, ConcatAdjacentSubSeq
  <2>3. QED BY <2>2 DEF m
<1>5. QED BY <1>2, <1>3, <1>4

\* Q holds every start whose next start it holds.
Inherits(Q, s, w) ==
    \A k \in 0..Len(s) : (NextStart(s, w, k) <= Len(s) => NextStart(s, w, k) \in Q) => k \in Q

\* Then it holds them all.
LEMMA FoldInduction ==
  ASSUME NEW T, NEW s \in Seq(T), NEW w \in Nat, w > 0, NEW Q, Inherits(Q, s, w)
  PROVE  0 \in Q
<1> DEFINE n == Len(s)
           S == {m \in 0..n : n - m \notin Q}
<1>1. n \in Nat
  BY LenProperties
<1>2. SUFFICES ASSUME S # {} PROVE FALSE
  <2>1. n \in 0..n /\ n - n = 0
    BY <1>1
  <2>2. QED BY <2>1
<1>3. PICK m \in S : \A j \in S : m <= j
  <2>1. S \in SUBSET (0..n)
    OBVIOUS
  <2> HIDE DEF S
  <2>2. QED BY <1>1, <1>2, <2>1, Least
<1> DEFINE k == n - m
           h == NextStart(s, w, k)
<1>4. m \in 0..n /\ k \in 0..n /\ k \notin Q
  BY <1>1
<1>5. h \in k + 1 .. n + 1
  BY <1>4, NextStartIs
<1> HIDE DEF h
<1>6. h <= n => h \in Q
  <2> SUFFICES ASSUME h <= n, h \notin Q PROVE FALSE
    OBVIOUS
  <2>1. n - h \in 0..n /\ ~(m <= n - h) /\ n - (n - h) = h
    BY <1>1, <1>4, <1>5
  <2>2. n - h \in S
    BY <2>1
  <2> HIDE DEF S
  <2>3. QED BY <1>3, <2>1, <2>2
<1> HIDE DEF k
<1>7. k \in Q
  BY <1>4, <1>6 DEF Inherits, h
<1>8. QED BY <1>4, <1>7

\* A text, a newline and another text.
LEMMA TwoLines ==
  ASSUME NEW T, LF \in T, NEW x \in Seq(T), NEW r \in Seq(T)
  PROVE  LET t == x \o <<LF>> \o r
         IN  /\ t \in Seq(T) /\ Len(t) = Len(x) + 1 + Len(r)
             /\ \A i \in 1..Len(x) : t[i] = x[i]
             /\ t[Len(x) + 1] = LF
             /\ \A i \in 1..Len(r) : t[Len(x) + 1 + i] = r[i]
             /\ t = x \o (<<LF>> \o r)
<1> DEFINE m == Len(x)
           n == Len(r)
           l == <<LF>>
           y == x \o l
           t == y \o r
<1>1. m \in Nat /\ n \in Nat /\ l \in Seq(T) /\ Len(l) = 1 /\ l[1] = LF
  BY LenProperties
<1>2. t = x \o (l \o r)
  <2> HIDE DEF l
  <2>1. QED BY <1>1, ConcatAssociative, SMTT(30)
<1> HIDE DEF l
<1>3. /\ y \in Seq(T) /\ Len(y) = m + 1
      /\ \A i \in 1 .. m + 1 : y[i] = IF i <= m THEN x[i] ELSE l[i - m]
  <2>1. /\ y \in Seq(T) /\ Len(y) = m + Len(l)
        /\ \A i \in 1 .. m + Len(l) : y[i] = IF i <= m THEN x[i] ELSE l[i - m]
    BY <1>1, ConcatProperties
  <2> HIDE DEF y, m, n
  <2>2. QED BY <1>1, <2>1
<1> HIDE DEF y
<1>4. /\ t \in Seq(T) /\ Len(t) = m + 1 + n
      /\ \A i \in 1 .. m + 1 + n : t[i] = IF i <= m + 1 THEN y[i] ELSE r[i - (m + 1)]
  <2>1. /\ t \in Seq(T) /\ Len(t) = Len(y) + n
        /\ \A i \in 1 .. Len(y) + n : t[i] = IF i <= Len(y) THEN y[i] ELSE r[i - Len(y)]
    BY <1>3, ConcatProperties, ZenonT(30)
  <2> HIDE DEF t, n, m
  <2>2. QED BY <1>3, <2>1
<1> HIDE DEF t, m, n
<1>5. \A i \in 1..m : t[i] = x[i]
  <2> SUFFICES ASSUME NEW i \in 1..m PROVE t[i] = x[i]
    OBVIOUS
  <2>1. i \in 1 .. m + 1 /\ i \in 1 .. m + 1 + n /\ i <= m + 1 /\ i <= m
    BY <1>1
  <2>2. QED BY <1>3, <1>4, <2>1
<1>6. t[m + 1] = LF
  <2> DEFINE i == m + 1
  <2>1. i \in 1 .. m + 1 /\ i \in 1 .. m + 1 + n /\ i <= m + 1 /\ ~(i <= m) /\ i - m = 1
    BY <1>1
  <2> HIDE DEF i
  <2>2. t[i] = LF
    BY <1>1, <1>3, <1>4, <2>1
  <2>3. QED BY <2>2 DEF i
<1>7. \A i \in 1..n : t[m + 1 + i] = r[i]
  <2> SUFFICES ASSUME NEW i \in 1..n PROVE t[m + 1 + i] = r[i]
    OBVIOUS
  <2> DEFINE j == m + 1 + i
  <2>1. j \in 1 .. m + 1 + n /\ ~(j <= m + 1) /\ j - (m + 1) = i
    BY <1>1
  <2> HIDE DEF j
  <2>2. t[j] = r[i]
    BY <1>4, <2>1
  <2>3. QED BY <2>2 DEF j
<1>8. QED BY <1>2, <1>4, <1>5, <1>6, <1>7 DEF t, y, l, m, n

\* A segment is the last line, or a line that is cut at m or that ends there.
LastLine(s, w, k, r) ==
    /\ Segment(s, w, k, r) = SubSeq(s, k + 1, Len(s))
    /\ Len(s) - k <= w
    /\ \A i \in k + 1 .. Len(s) : s[i] # LF

LineTo(s, w, k, r, m) ==
    /\ Segment(s, w, k, r) = SubSeq(s, k + 1, m) \o <<LF>> \o r
    /\ m - k <= w
    /\ \A i \in k + 1 .. m : s[i] # LF
    /\ \/ /\ NextStart(s, w, k) = m /\ m # k
          /\ s[m] = Blank \/ (m = k + w /\ \A i \in k + 2 .. m : s[i] # Blank)
       \/ NextStart(s, w, k) = m + 1 /\ s[m + 1] = LF

\* There is no other.
LEMMA SegmentIs ==
  ASSUME NEW T, LF \in T, NEW s \in Seq(T), NEW w \in Nat, w > 0, NEW k \in 0..Len(s),
         NEW r \in Seq(T)
  PROVE  LastLine(s, w, k, r) \/ \E m \in k .. Len(s) - 1 : LineTo(s, w, k, r, m)
<1> DEFINE n == Len(s)
           e == LineEnd(s, k)
           c == CutAfter(s, k, w)
<1>1. /\ n \in Nat /\ e \in k..n /\ (e < n => s[e + 1] = LF)
      /\ \A i \in k + 1 .. e : s[i] # LF
  BY LenProperties, LineEndIs
<1>2. CASE e - k > w
  <2>1. k + w < Len(s)
    BY <1>1, <1>2
  <2>2. /\ c \in k + 1 .. k + w
        /\ s[c] = Blank \/ (c = k + w /\ \A i \in k + 2 .. k + w : s[i] # Blank)
    BY <2>1, CutAfterIs
  <2>3. /\ Segment(s, w, k, r) = SubSeq(s, k + 1, c) \o <<LF>> \o r
        /\ NextStart(s, w, k) = c
    BY <1>2 DEF Segment, NextStart
  <2> HIDE DEF c
  <2>4. /\ c \in k .. n - 1 /\ c - k <= w /\ c # k
        /\ \A i \in k + 1 .. c : s[i] # LF
    BY <1>1, <1>2, <2>1, <2>2
  <2>5. QED BY <2>2, <2>3, <2>4 DEF LineTo
<1>3. CASE ~(e - k > w) /\ e = n
  <2>1. Segment(s, w, k, r) = SubSeq(s, k + 1, n) \o <<>>
    BY <1>3 DEF Segment
  <2>2. SubSeq(s, k + 1, n) \in Seq(T)
    <3>1. k \in 0..Len(s) /\ n \in k..Len(s)
      BY <1>1
    <3>2. QED BY <3>1, CutInTwo
  <2>3. SubSeq(s, k + 1, n) \o <<>> = SubSeq(s, k + 1, n)
    <3> DEFINE y == SubSeq(s, k + 1, n)
    <3>1. y \in Seq(T)
      BY <2>2
    <3> HIDE DEF y
    <3>2. y \o <<>> = y
      BY <3>1, ConcatEmptySeq
    <3>3. QED BY <3>2 DEF y
  <2>4. QED BY <1>1, <1>3, <2>1, <2>3 DEF LastLine
<1>4. CASE ~(e - k > w) /\ e # n
  <2>1. Segment(s, w, k, r) = SubSeq(s, k + 1, e) \o (<<LF>> \o r)
    BY <1>4 DEF Segment
  <2>2. NextStart(s, w, k) = e + 1
    BY <1>4 DEF NextStart
  <2>3. e \in k .. n - 1 /\ e - k <= w /\ s[e + 1] = LF
    BY <1>1, <1>4
  <2> DEFINE y == SubSeq(s, k + 1, e)
  <2>4. y \in Seq(T)
    <3>1. k \in 0..Len(s) /\ e \in k..Len(s)
      BY <1>1
    <3> HIDE DEF e
    <3>2. QED BY <3>1, CutInTwo
  <2> HIDE DEF y, e
  <2>5. y \o <<LF>> \o r = y \o (<<LF>> \o r)
    BY <2>4, TwoLines
  <2>6. Segment(s, w, k, r) = SubSeq(s, k + 1, e) \o <<LF>> \o r
    BY <2>1, <2>5 DEF y
  <2>7. LineTo(s, w, k, r, e)
    BY <1>1, <2>2, <2>3, <2>6 DEF e, LineTo
  <2>8. QED BY <2>3, <2>7
<1>5. QED BY <1>2, <1>3, <1>4
\* A function that folds, at one start.
LEMMA FoldStep ==
  ASSUME NEW T, NEW s \in Seq(T), NEW w \in Nat, w > 0, NEW f, Folds(f, s, w, 0),
         NEW k \in 0..Len(s)
  PROVE  LET h == NextStart(s, w, k)
         IN  /\ h \in k + 1 .. Len(s) + 1
             /\ f[k] = Segment(s, w, k, IF h <= Len(s) THEN f[h] ELSE <<>>)
<1> DEFINE h == NextStart(s, w, k)
           r == IF h <= Len(s) THEN f[h] ELSE <<>>
<1>1. h \in k + 1 .. Len(s) + 1
  BY NextStartIs
<1>2. f[k] = Segment(s, w, k, f[h])
  BY DEF Folds
<1>3. CASE h <= Len(s)
  BY <1>1, <1>2, <1>3
<1>4. CASE ~(h <= Len(s))
  <2>1. h > Len(s)
    BY <1>1, <1>4, LenProperties
  <2> HIDE DEF r
  <2>2. Segment(s, w, k, f[h]) = Segment(s, w, k, r)
    BY <2>1, SegmentAlone
  <2>3. QED BY <1>1, <1>2, <2>2 DEF r
<1>5. QED BY <1>3, <1>4

\* The items behind position k up to m.
LEMMA Stretch ==
  ASSUME NEW T, NEW s \in Seq(T), NEW k \in 0..Len(s), NEW m \in k..Len(s)
  PROVE  LET y == SubSeq(s, k + 1, m)
         IN  /\ y \in Seq(T) /\ Len(y) = m - k
             /\ \A i \in 1 .. m - k : y[i] = s[k + i]
<1> DEFINE a == k + 1
           y == SubSeq(s, a, m)
<1>1. /\ Len(s) \in Nat /\ a \in 1 .. Len(s) + 1 /\ m \in a - 1 .. Len(s)
      /\ m - a + 1 = m - k /\ \A i \in 1 .. m - k : a + i - 1 = k + i
  BY LenProperties
<1> HIDE DEF a
<1>2. /\ y \in Seq(T) /\ Len(y) = m - a + 1
      /\ \A i \in 1 .. m - a + 1 : y[i] = s[a + i - 1]
  BY <1>1, CutOut
<1> HIDE DEF y
<1>3. /\ y \in Seq(T) /\ Len(y) = m - k
      /\ \A i \in 1 .. m - k : y[i] = s[k + i]
  BY <1>1, <1>2
<1>4. QED BY <1>3 DEF y, a

\* A newline between two texts says nothing.
LEMMA FlatLines ==
  ASSUME NEW T, LF \in T, NEW x \in Seq(T), NEW r \in Seq(T)
  PROVE  Flat(x \o <<LF>> \o r) = Flat(x) \o Flat(r) /\ Flat(<<LF>> \o r) = Flat(r)
<1> DEFINE l == <<LF>>
           y == x \o l
<1>1. l \in Seq(T) /\ Flat(l) = <<>>
  BY FlatNothing
<1> HIDE DEF l
<1>2. y \in Seq(T) /\ Flat(y) = Flat(x) \o Flat(l)
  BY <1>1, FlatConcat, ConcatProperties
<1>3. Flat(x) \o <<>> = Flat(x) /\ <<>> \o Flat(r) = Flat(r)
  BY FlatType, ConcatEmptySeq
<1> HIDE DEF y
<1>4. Flat(y \o r) = Flat(y) \o Flat(r)
  BY <1>2, FlatConcat
<1>5. Flat(l \o r) = Flat(l) \o Flat(r)
  BY <1>1, FlatConcat
<1>6. QED BY <1>1, <1>2, <1>3, <1>4, <1>5 DEF y, l

\* Folding keeps what the text says, and takes nothing but the text and newlines.
LEMMA FoldKeeps ==
  ASSUME NEW T, LF \in T, NEW s \in Seq(T), NEW w \in Nat
  PROVE  FoldText(s, w) \in Seq(T) /\ Flat(FoldText(s, w)) = Flat(s)
<1>1. CASE w = 0
  BY <1>1 DEF FoldText
<1>2. CASE w # 0
  <2> DEFINE n == Len(s)
             Rest(k) == SubSeq(s, k + 1, n)
  <2>1. w > 0 /\ n \in Nat
    BY <1>2, LenProperties
  <2>2. PICK f : Folds(f, s, w, 0) /\ FoldText(s, w) = f[0]
    BY <2>1, FoldTextIs
  <2> DEFINE Q == {k \in 0..n : f[k] \in Seq(T) /\ Flat(f[k]) = Flat(Rest(k))}
  <2>3. ASSUME NEW k \in 0..n, NextStart(s, w, k) <= n => NextStart(s, w, k) \in Q
        PROVE  k \in Q
    <3> DEFINE h == NextStart(s, w, k)
               r == IF h <= n THEN f[h] ELSE <<>>
    <3>1. f[k] = Segment(s, w, k, r)
      BY <2>1, <2>2, FoldStep
    <3>2. r \in Seq(T) /\ (h <= n => Flat(r) = Flat(Rest(h)))
      BY <2>3
    <3> HIDE DEF r
    <3>3. CASE LastLine(s, w, k, r)
      <4>1. f[k] = Rest(k)
        BY <3>1, <3>3 DEF LastLine
      <4>2. Rest(k) \in Seq(T)
        BY <2>1, Stretch
      <4> HIDE DEF Rest
      <4>3. QED BY <4>1, <4>2
    <3>4. CASE \E m \in k .. n - 1 : LineTo(s, w, k, r, m)
      <4>1. PICK m \in k .. n - 1 : LineTo(s, w, k, r, m)
        BY <3>4
      <4> DEFINE y == SubSeq(s, k + 1, m)
                 t == y \o <<LF>> \o r
      <4>2. f[k] = t /\ (h = m \/ (h = m + 1 /\ s[m + 1] = LF))
        BY <3>1, <4>1 DEF LineTo
      <4>3. m \in k..n /\ m \in 0..n /\ m + 1 \in 1..n /\ m + 1 <= n
        BY <2>1
      <4>4. y \in Seq(T) /\ Rest(m) \in Seq(T) /\ y \o Rest(m) = Rest(k)
        BY <4>3, CutInTwo
      <4> HIDE DEF y
      <4>5. t \in Seq(T) /\ Flat(t) = Flat(y) \o Flat(r)
        <5>1. r \in Seq(T) /\ y \in Seq(T) /\ LF \in T
          BY <3>2, <4>4
        <5>2. t \in Seq(T)
          BY ONLY <5>1, TwoLines
        <5>3. Flat(t) = Flat(y) \o Flat(r)
          BY ONLY <5>1, FlatLines
        <5>4. QED BY <5>2, <5>3
      <4> HIDE DEF t
      <4>6. Flat(r) = Flat(Rest(m))
        <5>1. CASE h = m
          BY <3>2, <4>3, <5>1
        <5>2. CASE h = m + 1 /\ s[m + 1] = LF
          <6> DEFINE i == m + 1
          <6>1. i \in 1..n /\ n \in i..n /\ i \in 0..n /\ n \in Nat
            BY <2>1, <4>3
          <6> HIDE DEF i
          <6>2. SubSeq(s, i, n) = <<s[i]>> \o SubSeq(s, i + 1, n)
            BY <6>1, SubSeqRecursiveFirst
          <6>3. SubSeq(s, i + 1, n) \in Seq(T)
            BY <6>1, Stretch
          <6>4. Flat(<<LF>> \o SubSeq(s, i + 1, n)) = Flat(SubSeq(s, i + 1, n))
            BY <6>3, FlatLines
          <6>5. Flat(r) = Flat(SubSeq(s, i + 1, n))
            BY <3>2, <4>3, <5>2 DEF i
          <6>6. QED BY <5>2, <6>2, <6>4, <6>5 DEF i
        <5>3. QED BY <4>2, <5>1, <5>2
      <4> HIDE DEF Rest
      <4>7. Flat(Rest(k)) = Flat(y) \o Flat(Rest(m))
        <5>1. Flat(y \o Rest(m)) = Flat(y) \o Flat(Rest(m))
          BY <4>4, FlatConcat
        <5>2. QED BY <4>4, <5>1
      <4>8. QED BY <4>2, <4>5, <4>6, <4>7
    <3>5. QED BY <2>1, <3>2, <3>3, <3>4, SegmentIs
  <2> HIDE DEF Q
  <2>4. 0 \in Q
    <3>1. Inherits(Q, s, w)
      BY <2>3 DEF Inherits
    <3>2. QED BY <2>1, <3>1, FoldInduction
  <2>5. Rest(0) = s
    BY SubSeqFull
  <2>6. QED BY <2>2, <2>4, <2>5 DEF Q
<1>3. QED BY <1>1, <1>2

-----------------------------------------------------------------------------
(* What the editor makes of a write.                                       *)

\* What a command may be made of, and what can be seen of it. (The provers do not
\* know that a string is one of STRING.)
Chars   == (STRING \cup {LF, Blank, "F", "W"}) \ {CR, PasteBegin, PasteEnd}
Visible == Chars \ Invisible

\* Where no key submits, the Enter in a burst breaks the line.
Plain(s) == [i \in 1..Len(s) |-> IF s[i] = CR THEN LF ELSE s[i]]

\* Which characters are not others.
LEMMA CharFacts ==
  /\ LF \in Visible /\ Blank \in Chars
  /\ LF # CR /\ LF # PasteBegin /\ LF # PasteEnd
  /\ CR # PasteBegin /\ CR # PasteEnd /\ PasteBegin # PasteEnd
  /\ Blank # LF /\ "F" \in Chars /\ "W" \in Chars /\ Visible \subseteq Chars
<1>1. /\ LF # CR /\ LF # PasteBegin /\ LF # PasteEnd
      /\ CR # PasteBegin /\ CR # PasteEnd /\ PasteBegin # PasteEnd
      /\ Blank # LF /\ Blank # CR /\ Blank # PasteBegin /\ Blank # PasteEnd
      /\ "F" # CR /\ "F" # PasteBegin /\ "F" # PasteEnd
      /\ "W" # CR /\ "W" # PasteBegin /\ "W" # PasteEnd
  BY DEF LF, CR, Blank, PasteBegin, PasteEnd
<1>2. LF \notin Invisible
  BY DeliveryAssumption
<1>3. QED BY <1>1, <1>2 DEF Chars, Visible

\* The editor as it is, and e[i] as it is after the first i characters of a write.
Now == [field |-> field, pasting |-> pasting, submissions |-> submissions]
Reads(e, chars, deliberate) ==
    /\ e[0] = Now
    /\ \A i \in 1..Len(chars) : e[i] = Key(e[i - 1], chars[i], deliberate)

\* Receive leaves the editor as it is after the last of them.
LEMMA ReceiveIs ==
  ASSUME NEW chars, NEW paused, NEW e, Len(chars) \in Nat,
         Reads(e, chars, paused /\ Len(chars) = 1), Receive(chars, paused)
  PROVE  /\ field' = e[Len(chars)].field
         /\ pasting' = e[Len(chars)].pasting
         /\ submissions' = e[Len(chars)].submissions
         /\ softBreak' = softBreak
<1> DEFINE n == Len(chars)
           d == paused /\ Len(chars) = 1
           F(g) == [i \in 0..n |-> IF i = 0 THEN Now ELSE Key(g[i - 1], chars[i], d)]
           After == CHOOSE g : g = F(g)
           h == [i \in 0..n |-> e[i]]
<1>1. /\ field' = After[n].field /\ pasting' = After[n].pasting
      /\ submissions' = After[n].submissions /\ softBreak' = softBreak
  BY DEF Receive, Now
<1>2. e[0] = Now /\ \A i \in 1..n : e[i] = Key(e[i - 1], chars[i], d)
  BY DEF Reads
<1> HIDE DEF d
<1>3. \A i \in 0..n : i = 0 \/ (i \in 1..n /\ i - 1 \in 0..n)
  OBVIOUS
<1>4. h = F(h)
  <2>1. \A i \in 0..n : e[i] = IF i = 0 THEN Now ELSE Key(h[i - 1], chars[i], d)
    <3> SUFFICES ASSUME NEW i \in 0..n
                 PROVE  e[i] = IF i = 0 THEN Now ELSE Key(h[i - 1], chars[i], d)
      OBVIOUS
    <3>1. CASE i = 0
      BY <1>2, <3>1
    <3>2. CASE i # 0
      <4>1. i \in 1..n /\ h[i - 1] = e[i - 1]
        BY <1>3, <3>2
      <4>2. QED BY <1>2, <3>2, <4>1
    <3>3. QED BY <3>1, <3>2
  <2> HIDE DEF n
  <2>2. QED BY <2>1
<1>5. After = F(After)
  <2> HIDE DEF F
  <2>1. QED BY <1>4
<1> HIDE DEF After
<1>6. After[0] = Now /\ \A i \in 1..n : After[i] = Key(After[i - 1], chars[i], d)
  <2>1. 0 \in 0..n /\ \A i \in 1..n : i \in 0..n /\ i # 0
    OBVIOUS
  <2>2. \A i \in 0..n : After[i] = IF i = 0 THEN Now ELSE Key(After[i - 1], chars[i], d)
    BY <1>5
  <2>3. QED BY <2>1, <2>2
<1>7. Alike(e, After, n)
  <2> HIDE DEF n
  <2>1. QED BY <1>2, <1>6 DEF Alike
<1>8. e[n] = After[n]
  <2>1. \A i \in 0..n : e[i] = After[i]
    BY <1>7, SameRecursion
  <2>2. QED BY <2>1
<1>9. QED BY <1>1, <1>8

\* What a key does that submits nothing.
LEMMA PlainKey ==
  ASSUME NEW e, NEW c, NEW d \in BOOLEAN, ~e.pasting, c \notin {PasteBegin, PasteEnd},
         c = CR => ~d, c = LF => softBreak
  PROVE  Key(e, c, d) = [e EXCEPT !.field = Append(@, IF c = CR THEN LF ELSE c)]
<1>1. CASE c = CR
  <2>1. c # PasteBegin /\ c # PasteEnd /\ ~(c = LF) /\ ~d
    BY <1>1, CharFacts
  <2>2. QED BY <1>1, <2>1 DEF Key
<1>2. CASE c # CR
  <2>1. /\ c # PasteBegin /\ c # PasteEnd /\ ~(c = CR /\ ~e.pasting)
        /\ ~(c = LF /\ ~e.pasting /\ ~softBreak)
    BY <1>2
  <2>2. QED BY <1>2, <2>1 DEF Key
<1>3. QED BY <1>1, <1>2

\* In a paste every key but the ones around it is taken literally.
LEMMA PastedKey ==
  ASSUME NEW x, NEW subs, NEW c, NEW d, c \notin {PasteBegin, PasteEnd}
  PROVE  Key([field |-> x, pasting |-> TRUE, submissions |-> subs], c, d)
           = [field |-> Append(x, c), pasting |-> TRUE, submissions |-> subs]
<1> DEFINE e == [field |-> x, pasting |-> TRUE, submissions |-> subs]
<1>1. e.pasting = TRUE /\ e.field = x
  OBVIOUS
<1>2. /\ c # PasteBegin /\ c # PasteEnd /\ ~(c = CR /\ ~e.pasting)
      /\ ~(c = LF /\ ~e.pasting /\ ~softBreak)
  BY <1>1
<1>3. Key(e, c, d) = [e EXCEPT !.field = Append(@, c)]
  <2> HIDE DEF e
  <2>1. QED BY <1>2 DEF Key
<1>4. [e EXCEPT !.field = Append(@, c)]
        = [field |-> Append(x, c), pasting |-> TRUE, submissions |-> subs]
  <2> DEFINE yes == TRUE
             f == [field |-> x, pasting |-> yes, submissions |-> subs]
  <2> HIDE DEF yes
  <2>1. [f EXCEPT !.field = Append(@, c)]
          = [field |-> Append(x, c), pasting |-> yes, submissions |-> subs]
    OBVIOUS
  <2>2. QED BY <2>1 DEF yes
<1>5. QED BY <1>3, <1>4

\* A break is a break, whatever stands around it.
LEMMA PlainConcat ==
  ASSUME NEW S, NEW a \in Seq(S), NEW b \in Seq(S)
  PROVE  Plain(a \o b) = Plain(a) \o Plain(b)
<1> DEFINE m == Len(a)
           n == Len(b)
           c == a \o b
           x == Plain(a)
           y == Plain(b)
<1>1. m \in Nat /\ n \in Nat /\ c \in Seq(S) /\ Len(c) = m + n
      /\ \A i \in 1 .. m + n : c[i] = IF i <= m THEN a[i] ELSE b[i - m]
  BY LenProperties, ConcatProperties
<1>2. /\ x \in Seq(S \cup {LF}) /\ Len(x) = m /\ \A i \in 1..m : x[i] = IF a[i] = CR THEN LF ELSE a[i]
  <2>1. \A i \in 1..m : a[i] \in S
    BY ElementOfSeq
  <2>2. QED BY <1>1, <2>1 DEF Plain
<1>3. /\ y \in Seq(S \cup {LF}) /\ Len(y) = n /\ \A i \in 1..n : y[i] = IF b[i] = CR THEN LF ELSE b[i]
  <2>1. \A i \in 1..n : b[i] \in S
    BY ElementOfSeq
  <2>2. QED BY <1>1, <2>1 DEF Plain
<1>4. /\ x \o y = [i \in 1 .. m + n |-> IF i <= m THEN x[i] ELSE y[i - m]]
  <2> HIDE DEF x, y, m, n
  <2>1. /\ x \o y \in Seq(S \cup {LF}) /\ Len(x \o y) = m + n
        /\ \A i \in 1 .. m + n : (x \o y)[i] = IF i <= m THEN x[i] ELSE y[i - m]
    BY <1>2, <1>3, ConcatProperties, ZenonT(30)
  <2> DEFINE z == x \o y
  <2>2. /\ z \in Seq(S \cup {LF}) /\ Len(z) = m + n
        /\ \A i \in 1 .. m + n : z[i] = IF i <= m THEN x[i] ELSE y[i - m]
    BY <2>1
  <2> HIDE DEF z
  <2>3. z = [i \in 1 .. m + n |-> z[i]]
    BY <2>2
  <2>4. QED BY <2>2, <2>3 DEF z
<1> HIDE DEF x, y, c, m, n
<1>5. \A i \in 1 .. m + n : (IF c[i] = CR THEN LF ELSE c[i]) = IF i <= m THEN x[i] ELSE y[i - m]
  <2> SUFFICES ASSUME NEW i \in 1 .. m + n
               PROVE  (IF c[i] = CR THEN LF ELSE c[i]) = IF i <= m THEN x[i] ELSE y[i - m]
    OBVIOUS
  <2>1. CASE i <= m
    <3>1. i \in 1..m /\ c[i] = a[i]
      BY <1>1, <2>1
    <3>2. QED BY <1>2, <2>1, <3>1
  <2>2. CASE ~(i <= m)
    <3> DEFINE j == i - m
    <3>1. j \in 1..n /\ c[i] = b[j]
      BY <1>1, <2>2
    <3> HIDE DEF j
    <3>2. y[j] = IF b[j] = CR THEN LF ELSE b[j]
      BY <1>3, <3>1
    <3>3. QED BY <2>2, <3>1, <3>2 DEF j
  <2>3. QED BY <2>1, <2>2
<1>6. Plain(c) = [i \in 1 .. m + n |-> IF c[i] = CR THEN LF ELSE c[i]]
  BY <1>1 DEF Plain
<1>7. QED BY <1>4, <1>5, <1>6 DEF x, y, c

\* What keys show is what they are, or a newline.
LEMMA PlainType ==
  ASSUME NEW S, NEW a \in Seq(S)
  PROVE  Plain(a) \in Seq(S \cup {LF})
<1>1. Len(a) \in Nat /\ \A i \in 1..Len(a) : a[i] \in S
  BY LenProperties, ElementOfSeq
<1>2. QED BY <1>1 DEF Plain

\* One key.
LEMMA PlainOne ==
  ASSUME NEW c
  PROVE  Plain(<<c>>) = <<IF c = CR THEN LF ELSE c>>
<1> DEFINE s == <<c>>
<1>1. Len(s) = 1 /\ s[1] = c
  OBVIOUS
<1> HIDE DEF s
<1>2. Plain(s) = [i \in 1..1 |-> IF s[i] = CR THEN LF ELSE s[i]]
  BY <1>1 DEF Plain
<1>3. \A i \in 1..1 : s[i] = c
  BY <1>1
<1>4. Plain(s) = [i \in 1..1 |-> IF c = CR THEN LF ELSE c]
  BY <1>2, <1>3
<1>5. QED BY <1>4 DEF s

\* The first i characters are the first i - 1 and one more.
LEMMA OneMore ==
  ASSUME NEW S, NEW s \in Seq(S)
  PROVE  /\ SubSeq(s, 1, 0) = <<>>
         /\ \A i \in 0..Len(s) : SubSeq(s, 1, i) \in Seq(S)
         /\ \A i \in 1..Len(s) : /\ SubSeq(s, 1, i) = Append(SubSeq(s, 1, i - 1), s[i])
                                 /\ s[i] \in S
<1>1. Len(s) \in Nat
  BY LenProperties
<1>2. SubSeq(s, 1, 0) = <<>>
  BY SubSeqEmpty
<1>3. ASSUME NEW i \in 0..Len(s) PROVE SubSeq(s, 1, i) \in Seq(S)
  <2>1. 1 \in 1 .. Len(s) + 1 /\ i \in 1 - 1 .. Len(s)
    BY <1>1
  <2>2. QED BY <2>1, CutOut
<1>4. ASSUME NEW i \in 1..Len(s)
      PROVE  SubSeq(s, 1, i) = Append(SubSeq(s, 1, i - 1), s[i]) /\ s[i] \in S
  <2>1. 1 \in 1 .. Len(s) /\ i \in 1 .. Len(s)
    BY <1>1
  <2>2. SubSeq(s, 1, i) = SubSeq(s, 1, i - 1) \o <<s[i]>>
    BY <2>1, SubSeqRecursiveSecond
  <2>3. i - 1 \in 0..Len(s)
    BY <1>1
  <2>4. SubSeq(s, 1, i - 1) \in Seq(S) /\ s[i] \in S
    BY <1>3, <2>3, ElementOfSeq
  <2>5. QED BY <2>2, <2>4, AppendIsConcat
<1>5. QED BY <1>2, <1>3, <1>4

\* What a write types that holds no paste and no key that submits.
LEMMA PlainWrite ==
  ASSUME NEW S, NEW U, NEW chars \in Seq(S), NEW paused \in BOOLEAN,
         PasteBegin \notin S, PasteEnd \notin S,
         CR \in S => ~paused, LF \in S => softBreak,
         field \in Seq(U), pasting = FALSE, Receive(chars, paused)
  PROVE  /\ field' = field \o Plain(chars)
         /\ pasting' = FALSE /\ submissions' = submissions /\ softBreak' = softBreak
<1> DEFINE n == Len(chars)
           d == paused /\ Len(chars) = 1
           W == U \cup (S \cup {LF})
           shown(i) == field \o Plain(SubSeq(chars, 1, i))
           e == [i \in 0..n |-> [field |-> shown(i), pasting |-> FALSE,
                                 submissions |-> submissions]]
<1>1. n \in Nat
  BY LenProperties
<1>2. field \in Seq(W) /\ \A x \in Seq(S) : Plain(x) \in Seq(W)
  <2>1. U \subseteq W /\ S \cup {LF} \subseteq W
    OBVIOUS
  <2> HIDE DEF W
  <2>2. QED BY <2>1, PlainType, SeqMonotonic
<1> HIDE DEF W
<1>3. /\ SubSeq(chars, 1, 0) = <<>>
      /\ \A i \in 0..n : SubSeq(chars, 1, i) \in Seq(S)
      /\ \A i \in 1..n : /\ SubSeq(chars, 1, i) = Append(SubSeq(chars, 1, i - 1), chars[i])
                         /\ chars[i] \in S
  BY OneMore
<1>4. shown(0) = field
  <2>1. Plain(<<>>) = <<>>
    BY DEF Plain
  <2>2. field \o <<>> = field
    BY ConcatEmptySeq
  <2>3. QED BY <1>3, <2>1, <2>2
<1>5. ASSUME NEW i \in 1..n
      PROVE  shown(i) = Append(shown(i - 1), IF chars[i] = CR THEN LF ELSE chars[i])
  <2> DEFINE x == SubSeq(chars, 1, i - 1)
             c == chars[i]
             b == IF c = CR THEN LF ELSE c
             p == Plain(x)
  <2>1. i - 1 \in 0..n
    BY <1>1
  <2>2. x \in Seq(S) /\ c \in S /\ SubSeq(chars, 1, i) = Append(x, c)
    BY <1>3, <2>1
  <2> HIDE DEF x, c, n
  <2>3. Append(x, c) = x \o <<c>> /\ <<c>> \in Seq(S)
    BY <2>2, AppendIsConcat
  <2>4. Plain(x \o <<c>>) = p \o Plain(<<c>>)
    BY <2>2, <2>3, PlainConcat
  <2>5. Plain(<<c>>) = <<b>>
    BY PlainOne
  <2>6. p \in Seq(W) /\ <<b>> \in Seq(W) /\ b \in W
    <3>1. p \in Seq(W) /\ Plain(<<c>>) \in Seq(W)
      BY <1>2, <2>2, <2>3
    <3>2. b \in W
      BY <2>2 DEF W
    <3>3. QED BY <2>5, <3>1, <3>2
  <2> HIDE DEF b, p
  <2>7. field \o (p \o <<b>>) = (field \o p) \o <<b>>
    BY <1>2, <2>6, ConcatAssociative
  <2>8. field \o p \in Seq(W)
    BY <1>2, <2>6, ConcatProperties
  <2>9. Append(field \o p, b) = (field \o p) \o <<b>>
    <3> DEFINE q == field \o p
    <3>1. q \in Seq(W)
      BY <2>8
    <3> HIDE DEF q
    <3>2. Append(q, b) = q \o <<b>>
      BY <2>6, <3>1, AppendIsConcat
    <3>3. QED BY <3>2 DEF q
  <2>10. shown(i) = field \o (p \o <<b>>)
    BY <2>2, <2>3, <2>4, <2>5 DEF p
  <2>11. shown(i - 1) = field \o p
    BY DEF p, x
  <2> HIDE DEF shown
  <2>12. QED BY <2>7, <2>9, <2>10, <2>11 DEF b, c
<1> HIDE DEF shown
<1>6. Reads(e, chars, d)
  <2>1. e[0] = Now
    <3>1. 0 \in 0..n
      BY <1>1
    <3>2. e[0] = [field |-> shown(0), pasting |-> FALSE, submissions |-> submissions]
      BY <3>1
    <3> HIDE DEF e
    <3>3. QED BY <1>4, <3>2 DEF Now
  <2>2. ASSUME NEW i \in 1..n PROVE e[i] = Key(e[i - 1], chars[i], d)
    <3>1. i \in 0..n /\ i - 1 \in 0..n
      BY <1>1
    <3> DEFINE f == e[i - 1]
               c == chars[i]
    <3>2. f = [field |-> shown(i - 1), pasting |-> FALSE, submissions |-> submissions]
      BY <3>1
    <3>3. /\ c \notin {PasteBegin, PasteEnd} /\ d \in BOOLEAN
          /\ (c = CR => ~d) /\ (c = LF => softBreak)
      BY <1>3
    <3>4. e[i] = [field |-> Append(shown(i - 1), IF c = CR THEN LF ELSE c),
                  pasting |-> FALSE, submissions |-> submissions]
      BY <1>5, <3>1
    <3> HIDE DEF f, c, e, d
    <3>5. Key(f, c, d) = [f EXCEPT !.field = Append(@, IF c = CR THEN LF ELSE c)]
      <4>1. ~f.pasting
        BY <3>2
      <4>2. d \in BOOLEAN /\ c \notin {PasteBegin, PasteEnd} /\ (c = CR => ~d)
            /\ (c = LF => softBreak)
        BY <3>3
      <4>3. QED BY ONLY <4>1, <4>2, PlainKey
    <3>6. Key(f, c, d) = e[i]
      BY <3>2, <3>4, <3>5
    <3>7. QED BY <3>6 DEF f, c
  <2> HIDE DEF e, d
  <2>3. QED BY <2>1, <2>2 DEF Reads
<1>7. e[n] = [field |-> shown(n), pasting |-> FALSE, submissions |-> submissions]
  BY <1>1
<1> HIDE DEF e
<1>8. /\ field' = e[n].field /\ pasting' = e[n].pasting
      /\ submissions' = e[n].submissions /\ softBreak' = softBreak
  BY <1>1, <1>6, ReceiveIs
<1>9. SubSeq(chars, 1, n) = chars
  BY SubSeqFull
<1>10. shown(n) = field \o Plain(chars)
  BY <1>9 DEF shown
<1>11. QED BY <1>7, <1>8, <1>10

\* A paste is taken literally.
LEMMA PasteWrite ==
  ASSUME NEW v \in Seq(Visible), NEW paused,
         field = <<>>, pasting = FALSE, Receive(BracketedPaste(v), paused)
  PROVE  /\ field' = v
         /\ pasting' = FALSE /\ submissions' = submissions /\ softBreak' = softBreak
<1> DEFINE n == Len(v)
           chars == BracketedPaste(v)
           d == paused /\ Len(chars) = 1
           during(i) == [field |-> SubSeq(v, 1, i), pasting |-> TRUE,
                         submissions |-> submissions]
           after == [field |-> v, pasting |-> FALSE, submissions |-> submissions]
           e == [i \in 0 .. n + 2 |-> IF i = 0 THEN Now
                                      ELSE IF i = n + 2 THEN after ELSE during(i - 1)]
<1>1. n \in Nat
  BY LenProperties
<1>2. /\ Len(chars) = n + 2 /\ chars[1] = PasteBegin /\ chars[n + 2] = PasteEnd
      /\ \A i \in 1..n : chars[i + 1] = v[i]
  <2> DEFINE W == Visible \cup {PasteBegin, PasteEnd}
             pb == <<PasteBegin>>
             pe == <<PasteEnd>>
  <2>1. /\ pb \in Seq(W) /\ Len(pb) = 1 /\ pb[1] = PasteBegin
        /\ pe \in Seq(W) /\ Len(pe) = 1 /\ pe[1] = PasteEnd
    OBVIOUS
  <2>2. v \in Seq(W)
    BY SeqMonotonic
  <2> HIDE DEF W, pb, pe
  <2> DEFINE a == pb \o v
  <2>3. /\ a \in Seq(W) /\ Len(a) = 1 + n
        /\ \A i \in 1 .. 1 + n : a[i] = IF i <= 1 THEN pb[i] ELSE v[i - 1]
    BY <2>1, <2>2, ConcatProperties, SMTT(30)
  <2> HIDE DEF a
  <2> DEFINE z == a \o pe
  <2>4. /\ z \in Seq(W) /\ Len(z) = 1 + n + 1
        /\ \A i \in 1 .. 1 + n + 1 : z[i] = IF i <= 1 + n THEN a[i] ELSE pe[i - (1 + n)]
    <3>1. /\ z \in Seq(W) /\ Len(z) = Len(a) + Len(pe)
          /\ \A i \in 1 .. Len(a) + Len(pe) : z[i] = IF i <= Len(a) THEN a[i] ELSE pe[i - Len(a)]
      BY <2>1, <2>3, ConcatProperties
    <3> HIDE DEF z
    <3>2. QED BY <2>1, <2>3, <3>1
  <2>5. chars = z
    BY DEF BracketedPaste, z, a, pb, pe
  <2> HIDE DEF z, n, chars
  <2>6. z[1] = PasteBegin
    BY <1>1, <2>1, <2>3, <2>4
  <2>7. z[n + 2] = PasteEnd
    <3> DEFINE j == n + 2
    <3>1. j \in 1 .. 1 + n + 1 /\ ~(j <= 1 + n) /\ j - (1 + n) = 1
      BY <1>1
    <3> HIDE DEF j
    <3>2. z[j] = pe[j - (1 + n)]
      BY <2>4, <3>1
    <3>3. QED BY <2>1, <3>1, <3>2 DEF j
  <2>8. ASSUME NEW i \in 1..n PROVE z[i + 1] = v[i]
    <3> DEFINE j == i + 1
    <3>1. j \in 1 .. 1 + n + 1 /\ j <= 1 + n /\ j \in 1 .. 1 + n /\ ~(j <= 1) /\ j - 1 = i
      BY <1>1
    <3> HIDE DEF j
    <3>2. z[j] = v[i]
      BY <2>3, <2>4, <3>1
    <3>3. QED BY <3>2 DEF j
  <2>9. QED BY <1>1, <2>4, <2>5, <2>6, <2>7, <2>8
<1>3. /\ SubSeq(v, 1, 0) = <<>> /\ SubSeq(v, 1, n) = v
      /\ \A i \in 1..n : /\ SubSeq(v, 1, i) = Append(SubSeq(v, 1, i - 1), v[i])
                         /\ v[i] \in Visible
  BY OneMore, SubSeqFull
<1> HIDE DEF chars, n
<1>4. /\ e[0] = Now /\ e[1] = during(0) /\ e[n + 2] = after
      /\ \A i \in 1 .. n : e[i + 1] = during(i) /\ e[i] = during(i - 1)
      /\ e[n + 1] = during(n)
  <2>1. \A i \in 0..n : i + 1 \in 0 .. n + 2 /\ i + 1 # 0 /\ i + 1 # n + 2 /\ i + 1 - 1 = i
    BY <1>1
  <2>2. \A i \in 0..n : e[i + 1] = during(i)
    <3> SUFFICES ASSUME NEW i \in 0..n PROVE e[i + 1] = during(i)
      OBVIOUS
    <3> DEFINE j == i + 1
    <3>1. j \in 0 .. n + 2 /\ j # 0 /\ j # n + 2 /\ j - 1 = i
      BY <2>1
    <3> HIDE DEF j
    <3>2. e[j] = during(j - 1)
      BY <3>1
    <3> HIDE DEF e, during
    <3>3. QED BY <3>1, <3>2 DEF j
  <2>3. e[0] = Now /\ e[n + 2] = after
    BY <1>1
  <2> HIDE DEF e, during, after
  <2>4. \A i \in 1..n : i \in 0..n /\ i - 1 \in 0..n /\ i - 1 + 1 = i
    BY <1>1
  <2>5. 0 \in 0..n /\ n \in 0..n /\ 0 + 1 = 1
    BY <1>1
  <2>6. \A i \in 1..n : e[i - 1 + 1] = during(i - 1)
    BY <2>2, <2>4
  <2>7. \A i \in 1..n : e[i] = during(i - 1)
    BY <2>4, <2>6
  <2>8. e[0 + 1] = during(0)
    BY <2>2, <2>5
  <2>9. QED BY <2>2, <2>3, <2>4, <2>5, <2>7, <2>8
<1> HIDE DEF e
<1>5. /\ PasteBegin # PasteEnd /\ PasteBegin \notin Visible /\ PasteEnd \notin Visible
  BY CharFacts DEF Visible, Chars
<1> HIDE DEF d
<1>6. e[1] = Key(e[0], chars[1], d)
  <2>1. Key(Now, PasteBegin, d) = [Now EXCEPT !.pasting = TRUE]
    BY CharFacts DEF Key
  <2>2. [Now EXCEPT !.pasting = TRUE] = during(0)
    <3> DEFINE x == SubSeq(v, 1, 0)
    <3>1. x = field
      BY <1>3
    <3>2. during(0) = [field |-> x, pasting |-> TRUE, submissions |-> submissions]
      OBVIOUS
    <3> HIDE DEF x, during
    <3>3. QED BY <3>1, <3>2 DEF Now
  <2> HIDE DEF during
  <2>3. QED BY <1>2, <1>4, <2>1, <2>2
<1>7. e[n + 2] = Key(e[n + 1], chars[n + 2], d)
  <2>1. Key(during(n), PasteEnd, d) = after
    BY <1>3, <1>5 DEF Key
  <2> HIDE DEF during, after
  <2>2. QED BY <1>2, <1>4, <2>1
<1>8. ASSUME NEW i \in 1..n PROVE e[i + 1] = Key(e[i], chars[i + 1], d)
  <2> DEFINE x == SubSeq(v, 1, i - 1)
             y == SubSeq(v, 1, i)
             c == v[i]
  <2>1. c \notin {PasteBegin, PasteEnd} /\ y = Append(x, c)
    BY <1>3, <1>5
  <2>2. /\ e[i + 1] = [field |-> y, pasting |-> TRUE, submissions |-> submissions]
        /\ e[i] = [field |-> x, pasting |-> TRUE, submissions |-> submissions]
        /\ chars[i + 1] = c
    BY <1>2, <1>4
  <2> HIDE DEF x, y, c
  <2>3. Key([field |-> x, pasting |-> TRUE, submissions |-> submissions], c, d)
          = [field |-> Append(x, c), pasting |-> TRUE, submissions |-> submissions]
    BY <2>1, PastedKey
  <2>4. QED BY <2>1, <2>2, <2>3
<1>9. Reads(e, chars, d)
  <2>1. ASSUME NEW i \in 1 .. n + 2 PROVE e[i] = Key(e[i - 1], chars[i], d)
    <3>1. CASE i = 1
      BY <1>6, <3>1
    <3>2. CASE i = n + 2
      <4>1. i - 1 = n + 1
        BY <1>1, <3>2
      <4>2. QED BY <1>7, <3>2, <4>1
    <3>3. CASE i # 1 /\ i # n + 2
      <4> DEFINE j == i - 1
      <4>1. j \in 1..n /\ j + 1 = i
        BY <1>1, <3>3
      <4> HIDE DEF j
      <4>2. e[j + 1] = Key(e[j], chars[j + 1], d)
        BY <1>8, <4>1
      <4>3. QED BY <4>1, <4>2 DEF j
    <3>4. QED BY <3>1, <3>2, <3>3
  <2>2. QED BY <1>2, <1>4, <2>1 DEF Reads
<1>10. Len(chars) \in Nat /\ Reads(e, chars, paused /\ Len(chars) = 1) /\ Receive(chars, paused)
  BY <1>1, <1>2, <1>9 DEF d, chars
<1>11. /\ field' = e[Len(chars)].field /\ pasting' = e[Len(chars)].pasting
       /\ submissions' = e[Len(chars)].submissions /\ softBreak' = softBreak
  BY <1>10, ReceiveIs
<1>12. e[Len(chars)] = after
  BY <1>2, <1>4
<1> HIDE DEF chars
<1>13. QED BY <1>11, <1>12

\* An Enter that stands alone submits a field that holds no invisible character.
LEMMA EnterSubmits ==
  ASSUME field \in Seq(Visible), pasting = FALSE, Receive(<<CR>>, TRUE)
  PROVE  submissions' = Append(submissions, field)
<1> DEFINE chars == <<CR>>
           after == [field |-> <<>>, pasting |-> FALSE,
                     submissions |-> Append(submissions, field)]
           e == [i \in 0..1 |-> IF i = 0 THEN Now ELSE after]
<1>1. Len(chars) = 1 /\ chars[1] = CR
  OBVIOUS
<1>2. e[0] = Now /\ e[1] = after
  OBVIOUS
<1>3. Key(Now, CR, TRUE) = after
  <2>1. CR # PasteBegin /\ CR # PasteEnd /\ CR # LF
    BY CharFacts
  <2>2. Key(Now, CR, TRUE) = Submit(Now)
    BY <2>1 DEF Key, Now
  <2>3. \A i \in DOMAIN field : field[i] \notin Invisible
    BY ElementOfSeq, LenProperties DEF Visible
  <2>4. QED BY <2>2, <2>3 DEF Submit, Now
<1> HIDE DEF chars, e, after
<1>4. Reads(e, chars, TRUE /\ Len(chars) = 1)
  <2> DEFINE d == TRUE /\ Len(chars) = 1
  <2>1. d = TRUE
    BY <1>1
  <2> HIDE DEF d
  <2>2. ASSUME NEW i \in 1..1 PROVE e[i] = Key(e[i - 1], chars[i], d)
    <3>1. i = 1 /\ i - 1 = 0
      OBVIOUS
    <3>2. QED BY <1>1, <1>2, <1>3, <2>1, <3>1
  <2>3. Reads(e, chars, d)
    BY <1>1, <1>2, <2>2 DEF Reads
  <2>4. QED BY <2>3 DEF d
<1>5. Receive(chars, TRUE)
  BY DEF chars
<1>6. submissions' = e[Len(chars)].submissions
  <2>1. Len(chars) \in Nat
    BY <1>1
  <2>2. QED BY ONLY <1>4, <1>5, <2>1, ReceiveIs
<1>7. QED BY <1>1, <1>2, <1>6 DEF after

-----------------------------------------------------------------------------
(* A command on its way.                                                   *)

\* What is to be submitted.
Whole == IF style = "burst" THEN FoldText(StripInvisible(text), width) ELSE StripInvisible(text)

\* What CommandArrives asks for.
Typeable == style # "jitter" \/ softBreak \/ Flat(text) = text

\* What the keys that type it may be: none of them submits it.
Keys == IF style = "burst" THEN (Visible \ {LF}) \cup {CR}
        ELSE IF softBreak THEN Visible ELSE Visible \ {LF}

\* What has been typed and what is left to type make up the whole.
HalfTyped ==
    /\ pasting = FALSE
    /\ IF style = "paste" /\ typing = "body"
         THEN field = <<>> /\ body = BracketedPaste(Whole)
         ELSE /\ body \in Seq(Keys) /\ field \in Seq(Visible)
              /\ field \o Plain(body) = Whole
    /\ typing = "submit" => body = <<>>

TypingInv ==
    /\ typing \in {"none", "body", "submit", "sent", "failed"}
    /\ style \in {"paste", "burst", "jitter"}
    /\ IF typing = "none" THEN submissions = <<>> /\ field = <<>> /\ pasting = FALSE
       ELSE text \in Seq(Chars) /\ width \in Nat
    /\ Typeable => /\ typing # "sent" => submissions = <<>>
                   /\ typing = "sent" => submissions = <<Whole>>
                   /\ typing \in {"body", "submit"} => HalfTyped

\* An option's number is one.
ArgsInv == "wrap" \in DOMAIN args /\ args.wrap \in Nat

\* What is to be submitted can be seen, and says what the command says.
LEMMA TheWhole ==
  ASSUME NEW s \in Seq(Chars), NEW w \in Nat
  PROVE  /\ StripInvisible(s) \in Seq(Visible)
         /\ FoldText(StripInvisible(s), w) \in Seq(Visible)
         /\ Flat(FoldText(StripInvisible(s), w)) = Flat(StripInvisible(s))
<1>1. StripInvisible(s) \in Seq(Visible)
  BY WithoutType DEF StripInvisible, Visible
<1>2. LF \in Visible
  BY CharFacts
<1> HIDE DEF Visible
<1> DEFINE v == StripInvisible(s)
<1>3. v \in Seq(Visible)
  BY <1>1
<1> HIDE DEF v
<1>4. FoldText(v, w) \in Seq(Visible) /\ Flat(FoldText(v, w)) = Flat(v)
  BY <1>2, <1>3, FoldKeeps
<1>5. QED BY <1>3, <1>4 DEF v

\* Keys show what can be seen.
LEMMA PlainVisible ==
  ASSUME NEW a \in Seq(Visible \cup {CR})
  PROVE  Plain(a) \in Seq(Visible)
<1>1. Len(a) \in Nat /\ \A i \in 1..Len(a) : a[i] \in Visible \cup {CR}
  BY LenProperties, ElementOfSeq
<1>2. \A i \in 1..Len(a) : (IF a[i] = CR THEN LF ELSE a[i]) \in Visible
  BY <1>1, CharFacts
<1>3. QED BY <1>1, <1>2 DEF Plain

\* Newlines go out as Enters and come to be newlines again.
LEMMA ThereAndBack ==
  ASSUME NEW s \in Seq(Visible)
  PROVE  /\ NewlinesAsEnters(s) \in Seq((Visible \ {LF}) \cup {CR})
         /\ Plain(NewlinesAsEnters(s)) = s
         /\ Plain(s) = s
<1> DEFINE n == Len(s)
           t == NewlinesAsEnters(s)
           p == Plain(t)
<1>1. n \in Nat /\ DOMAIN s = 1..n /\ s = [i \in 1..n |-> s[i]] /\ \A i \in 1..n : s[i] \in Visible
  BY LenProperties, ElementOfSeq
<1>2. t = [i \in 1..n |-> IF s[i] = LF THEN CR ELSE s[i]]
  BY <1>1 DEF NewlinesAsEnters
<1>3. t \in Seq((Visible \ {LF}) \cup {CR}) /\ Len(t) = n
  BY <1>1, <1>2
<1> HIDE DEF t
<1>4. CR \notin Visible
  BY DEF Visible, Chars
<1>5. \A i \in 1..n : (IF t[i] = CR THEN LF ELSE t[i]) = s[i]
  BY <1>1, <1>2, <1>4
<1>6. p = [i \in 1..n |-> IF t[i] = CR THEN LF ELSE t[i]]
  BY <1>3 DEF Plain
<1>7. p = s
  <2> HIDE DEF p, n
  <2>1. QED BY <1>1, <1>5, <1>6
<1>8. Plain(s) = s
  <2>1. \A i \in 1..n : (IF s[i] = CR THEN LF ELSE s[i]) = s[i]
    BY <1>1, <1>4
  <2>2. Plain(s) = [i \in 1..n |-> IF s[i] = CR THEN LF ELSE s[i]]
    BY DEF Plain
  <2> HIDE DEF n
  <2>3. QED BY <1>1, <2>1, <2>2
<1>9. QED BY <1>3, <1>7, <1>8 DEF t, p

\* A paste has something to write, even of nothing.
LEMMA PasteIsNot ==
  ASSUME NEW s \in Seq(Visible)
  PROVE  /\ BracketedPaste(s) # <<>>
         /\ BracketedPaste(s) \in Seq(Visible \cup {PasteBegin, PasteEnd})
<1> DEFINE W == Visible \cup {PasteBegin, PasteEnd}
           a == <<PasteBegin>>
           b == <<PasteEnd>>
<1>1. a \in Seq(W) /\ b \in Seq(W) /\ Len(a) = 1 /\ Len(b) = 1
  OBVIOUS
<1>2. s \in Seq(W) /\ Len(s) \in Nat
  BY SeqMonotonic, LenProperties
<1> HIDE DEF W, a, b
<1> DEFINE c == a \o s
<1>3. c \in Seq(W) /\ Len(c) = 1 + Len(s)
  BY <1>1, <1>2, ConcatProperties
<1> HIDE DEF c
<1> DEFINE d == c \o b
<1>4. d \in Seq(W) /\ Len(d) = 1 + Len(s) + 1
  <2>1. d \in Seq(W) /\ Len(d) = Len(c) + Len(b)
    BY <1>1, <1>3, ConcatProperties
  <2> HIDE DEF d
  <2>2. QED BY <1>1, <1>3, <2>1
<1>5. BracketedPaste(s) = d
  BY DEF BracketedPaste, d, c, a, b
<1> HIDE DEF d
<1>6. d # <<>>
  BY <1>2, <1>4
<1>7. QED BY <1>4, <1>5, <1>6 DEF W

\* A command is sent.
LEMMA SendStep ==
  ASSUME TypingInv, NEW s \in Seq(Chars), NEW how \in {"paste", "burst", "jitter"},
         NEW w \in Nat, Send(s, how, w)
  PROVE  TypingInv'
<1> DEFINE v == StripInvisible(s)
           F == FoldText(v, w)
           E == NewlinesAsEnters(F)
<1>1. /\ typing = "none" /\ text' = s /\ style' = how /\ width' = w
      /\ softBreak' \in BOOLEAN /\ field' = field /\ pasting' = pasting
      /\ submissions' = submissions
      /\ body' = CASE how = "paste" -> BracketedPaste(v) [] how = "burst" -> E [] OTHER -> v
      /\ typing' = CASE how = "burst" /\ Len(body') > BurstMax -> "failed"
                     [] body' = <<>> -> "submit"
                     [] OTHER        -> "body"
  BY DEF Send
<1>2. submissions' = <<>> /\ field' = <<>> /\ pasting' = FALSE
  BY <1>1 DEF TypingInv
<1>3. v \in Seq(Visible) /\ F \in Seq(Visible)
  BY TheWhole
<1>4. Whole' = IF how = "burst" THEN F ELSE v
  BY <1>1 DEF Whole
<1>5. typing' \in {"failed", "submit", "body"} /\ (typing' = "submit" => body' = <<>>)
  <2>1. body' = <<>> => ~(Len(body') > BurstMax)
    BY DeliveryAssumption
  <2>2. QED BY <1>1, <2>1
<1> HIDE DEF v, F, E
<1>6. ASSUME Typeable', typing' \in {"body", "submit"} PROVE HalfTyped'
  <2>1. <<>> \o Plain(v) = v /\ <<>> \o Plain(E) = F /\ E \in Seq((Visible \ {LF}) \cup {CR})
    <3>1. Plain(v) = v /\ Plain(E) = F /\ E \in Seq((Visible \ {LF}) \cup {CR})
      BY <1>3, ThereAndBack DEF E
    <3>2. <<>> \o v = v /\ <<>> \o F = F
      BY <1>3, ConcatEmptySeq
    <3>3. QED BY <3>1, <3>2
  <2>2. CASE how = "paste"
    <3>1. body' = BracketedPaste(v)
      BY <1>1, <2>2
    <3>2. body' # <<>>
      BY <1>3, <3>1, PasteIsNot
    <3>3. typing' = "body" /\ style' = "paste"
      BY <1>1, <1>5, <1>6, <2>2, <3>2
    <3>4. Whole' = v
      BY <1>4, <2>2
    <3>5. QED BY <1>2, <3>1, <3>3, <3>4 DEF HalfTyped
  <2>3. CASE how = "burst"
    <3>1. body' = E /\ Whole' = F /\ style' = "burst"
      BY <1>1, <1>4, <2>3
    <3>2. Keys' = (Visible \ {LF}) \cup {CR}
      BY <3>1 DEF Keys, Visible
    <3>3. field' \in Seq(Visible)
      BY <1>2
    <3>4. field' \o Plain(body') = Whole'
      BY <1>2, <2>1, <3>1
    <3>5. Visible' = Visible
      BY DEF Visible
    <3>6. Plain(body)' = Plain(body')
      BY DEF Plain
    <3>7. QED BY <1>2, <1>5, <2>1, <3>1, <3>2, <3>3, <3>4, <3>5, <3>6 DEF HalfTyped
  <2>4. CASE how = "jitter"
    <3>1. body' = v /\ Whole' = v /\ style' = "jitter"
      BY <1>1, <1>4, <2>4
    <3>2. v \in Seq(Keys')
      <4>1. CASE softBreak'
        BY <1>3, <3>1, <4>1 DEF Keys, Visible
      <4>2. CASE ~softBreak'
        <5>1. Flat(s) = s
          BY <1>1, <1>6, <3>1, <4>2 DEF Typeable, Flat
        <5>2. s \in Seq(Chars \ {LF})
          BY <5>1, WithoutType DEF Flat
        <5>3. v \in Seq((Chars \ {LF}) \ Invisible)
          BY <5>2, WithoutType DEF v, StripInvisible
        <5>4. (Chars \ {LF}) \ Invisible = Visible \ {LF}
          BY DEF Visible
        <5>5. Keys' = Visible \ {LF}
          BY <3>1, <4>2 DEF Keys, Visible
        <5>6. QED BY <5>3, <5>4, <5>5
      <4>3. QED BY <4>1, <4>2
    <3>3. field' \in Seq(Visible)
      BY <1>2
    <3>4. field' \o Plain(body') = Whole'
      BY <1>2, <2>1, <3>1
    <3>5. Visible' = Visible
      BY DEF Visible
    <3>6. Plain(body)' = Plain(body')
      BY DEF Plain
    <3>7. QED BY <1>2, <1>5, <3>1, <3>2, <3>3, <3>4, <3>5, <3>6 DEF HalfTyped
  <2>5. QED BY <2>2, <2>3, <2>4
<1>7. QED BY <1>1, <1>2, <1>5, <1>6 DEF TypingInv

\* Nothing of what is to be submitted changes while it is typed.
LEMMA SameWhole ==
  ASSUME UNCHANGED <<text, style, width, softBreak>>
  PROVE  Whole' = Whole /\ Keys' = Keys /\ (Typeable' => Typeable)
<1>1. Whole' = Whole
  BY DEF Whole
<1>2. Keys' = Keys
  BY DEF Keys, Visible
<1>3. Typeable' => Typeable
  BY DEF Typeable, Flat
<1>4. QED BY <1>1, <1>2, <1>3

\* It is made of what can be seen.
LEMMA WholeIs ==
  ASSUME TypingInv, typing # "none"
  PROVE  Whole \in Seq(Visible)
<1>1. text \in Seq(Chars) /\ width \in Nat
  BY DEF TypingInv
<1>2. StripInvisible(text) \in Seq(Visible)
      /\ FoldText(StripInvisible(text), width) \in Seq(Visible)
  BY <1>1, TheWhole
<1>3. QED BY <1>2 DEF Whole

\* A paste goes out in one write.
LEMMA PasteStep ==
  ASSUME TypingInv, TypeBody, Typeable, HalfTyped, style = "paste"
  PROVE  HalfTyped' /\ submissions' = submissions
<1> DEFINE n == Len(body)
           W == Visible \cup {PasteBegin, PasteEnd}
<1>1. /\ typing = "body" /\ Receive(SubSeq(body, 1, Piece), style = "jitter")
      /\ body' = SubSeq(body, Piece + 1, Len(body))
      /\ typing' = IF body' = <<>> THEN "submit" ELSE "body"
      /\ UNCHANGED <<text, style, width>>
  BY DEF TypeBody
<1>2. Whole \in Seq(Visible)
  BY <1>1, WholeIs
<1>3. pasting = FALSE /\ field = <<>> /\ body = BracketedPaste(Whole)
  BY <1>1 DEF HalfTyped
<1>4. body \in Seq(W)
  BY <1>2, <1>3, PasteIsNot
<1>5. n \in Nat /\ Piece = n
  <2>1. n \in Nat
    BY <1>4, LenProperties
  <2>2. QED BY <2>1 DEF Piece
<1>6. SubSeq(body, 1, n) = body
  BY <1>4, SubSeqFull
<1>7. Receive(BracketedPaste(Whole), style = "jitter")
  BY <1>1, <1>3, <1>5, <1>6
<1>8. field' = Whole /\ pasting' = FALSE /\ submissions' = submissions /\ softBreak' = softBreak
  BY <1>2, <1>3, <1>7, PasteWrite
<1>9. Whole' = Whole
  BY <1>1, <1>8, SameWhole
<1>10. body' = <<>>
  <2>1. n + 1 \in Int /\ n \in Int /\ n < n + 1
    BY <1>5
  <2> HIDE DEF n
  <2>2. SubSeq(body, n + 1, n) = <<>>
    BY <2>1, SubSeqEmpty
  <2>3. QED BY <1>1, <1>5, <2>2 DEF n
<1>11. typing' = "submit"
  BY <1>1, <1>10
<1>12. field' \o Plain(body') = Whole'
  <2>1. Plain(<<>>) = <<>>
    BY DEF Plain
  <2>2. Whole \o <<>> = Whole
    BY <1>2, ConcatEmptySeq
  <2>3. QED BY <1>8, <1>9, <1>10, <2>1, <2>2
<1>13. /\ Visible' = Visible /\ Plain(body)' = Plain(body')
       /\ body' \in Seq(Keys') /\ field' \in Seq(Visible)
  BY <1>2, <1>8, <1>10 DEF Visible, Plain
<1>14. QED BY <1>8, <1>10, <1>11, <1>12, <1>13 DEF HalfTyped

\* The next keystroke or chunk.
LEMMA KeysStep ==
  ASSUME TypingInv, TypeBody, Typeable, HalfTyped, style # "paste"
  PROVE  HalfTyped' /\ submissions' = submissions
<1> DEFINE n == Len(body)
           p == Piece
           a == SubSeq(body, 1, p)
           b == SubSeq(body, p + 1, n)
           paused == style = "jitter"
<1>1. /\ typing = "body" /\ Receive(a, paused) /\ body' = b
      /\ typing' = IF body' = <<>> THEN "submit" ELSE "body"
      /\ UNCHANGED <<text, style, width>>
  BY DEF TypeBody
<1>2. /\ pasting = FALSE /\ body \in Seq(Keys) /\ field \in Seq(Visible)
      /\ field \o Plain(body) = Whole
  BY DEF HalfTyped
<1>3. /\ paused \in BOOLEAN /\ Keys \subseteq Visible \cup {CR}
      /\ PasteBegin \notin Keys /\ PasteEnd \notin Keys
      /\ (CR \in Keys => ~paused) /\ (LF \in Keys => softBreak)
  <2>1. /\ PasteBegin \notin Visible /\ PasteEnd \notin Visible /\ CR \notin Visible
        /\ PasteBegin # CR /\ PasteEnd # CR /\ LF # CR
    BY CharFacts DEF Visible, Chars
  <2> HIDE DEF Visible
  <2>2. QED BY <2>1 DEF Keys
<1>4. n \in Nat /\ p \in 0..n
  <2>1. n \in Nat
    BY <1>2, LenProperties
  <2>2. QED BY <2>1, DeliveryAssumption DEF Piece
<1> HIDE DEF paused
<1>5. a \in Seq(Keys) /\ b \in Seq(Keys) /\ a \o b = body
  <2>1. 0 \in 0..Len(body) /\ p \in 0..Len(body) /\ 0 + 1 = 1
    BY <1>4
  <2> HIDE DEF p, n
  <2>2. /\ SubSeq(body, 0 + 1, p) \in Seq(Keys) /\ SubSeq(body, p + 1, Len(body)) \in Seq(Keys)
        /\ SubSeq(body, 0 + 1, p) \o SubSeq(body, p + 1, Len(body)) = SubSeq(body, 0 + 1, Len(body))
    BY <1>2, <2>1, CutInTwo
  <2>3. SubSeq(body, 1, Len(body)) = body
    BY <1>2, SubSeqFull
  <2>4. QED BY <2>1, <2>2, <2>3 DEF n
<1> HIDE DEF a, b
<1>6. /\ field' = field \o Plain(a) /\ pasting' = FALSE
      /\ submissions' = submissions /\ softBreak' = softBreak
  <2> DEFINE S == Keys
             U == Visible
  <2>1. /\ a \in Seq(S) /\ paused \in BOOLEAN /\ PasteBegin \notin S /\ PasteEnd \notin S
        /\ (CR \in S => ~paused) /\ (LF \in S => softBreak)
        /\ field \in Seq(U) /\ pasting = FALSE /\ Receive(a, paused)
    BY <1>1, <1>2, <1>3, <1>5
  <2> HIDE DEF S, U
  <2>2. QED BY ONLY <2>1, PlainWrite
<1>7. Whole' = Whole /\ Keys' = Keys
  BY <1>1, <1>6, SameWhole
<1>8. Plain(a) \in Seq(Visible) /\ Plain(b) \in Seq(Visible)
  <2>1. a \in Seq(Visible \cup {CR}) /\ b \in Seq(Visible \cup {CR})
    BY <1>3, <1>5, SeqMonotonic
  <2>2. QED BY <2>1, PlainVisible
<1>9. Plain(body) = Plain(a) \o Plain(b)
  BY <1>5, PlainConcat
<1>10. (field \o Plain(a)) \o Plain(b) = field \o (Plain(a) \o Plain(b))
  BY <1>2, <1>8, ConcatAssociative
<1>11. field' \in Seq(Visible) /\ field' \o Plain(body') = Whole'
  <2>1. field' \in Seq(Visible)
    BY <1>2, <1>6, <1>8, ConcatProperties
  <2>2. QED BY <1>1, <1>2, <1>6, <1>7, <1>9, <1>10, <2>1
<1>12. body' \in Seq(Keys') /\ Visible' = Visible /\ Plain(body)' = Plain(body')
  BY <1>1, <1>5, <1>7 DEF Visible, Plain
<1>13. style' # "paste" /\ (typing' = "submit" => body' = <<>>)
  BY <1>1
<1>14. QED BY <1>6, <1>11, <1>12, <1>13 DEF HalfTyped

\* Either of them keeps what is known.
LEMMA TypeBodyStep == ASSUME TypingInv, TypeBody PROVE TypingInv'
<1>1. /\ typing = "body" /\ softBreak' = softBreak
      /\ typing' \in {"submit", "body"} /\ UNCHANGED <<text, style, width>>
  BY DEF TypeBody, Receive
<1>2. Typeable' => Typeable
  BY <1>1, SameWhole
<1>3. ASSUME Typeable' PROVE HalfTyped' /\ submissions' = submissions
  <2>1. HalfTyped /\ Typeable
    BY <1>1, <1>2, <1>3 DEF TypingInv
  <2>2. QED BY <2>1, PasteStep, KeysStep
<1>4. text' \in Seq(Chars)' /\ width' \in Nat
  BY <1>1 DEF TypingInv, Chars
<1> HIDE DEF HalfTyped
<1>5. QED BY <1>1, <1>2, <1>3, <1>4 DEF TypingInv

\* The Enter behind the body submits the whole.
LEMMA PressEnterStep == ASSUME TypingInv, PressEnter PROVE TypingInv'
<1>1. /\ typing = "submit" /\ Receive(<<CR>>, TRUE) /\ typing' = "sent"
      /\ UNCHANGED <<text, style, width, body>>
  BY DEF PressEnter
<1>2. softBreak' = softBreak
  BY <1>1 DEF Receive
<1>3. Whole' = Whole /\ (Typeable' => Typeable)
  BY <1>1, <1>2, SameWhole
<1>4. ASSUME Typeable' PROVE submissions' = <<Whole'>>
  <2>1. HalfTyped /\ submissions = <<>>
    BY <1>1, <1>3, <1>4 DEF TypingInv
  <2>2. pasting = FALSE /\ body = <<>> /\ field \in Seq(Visible) /\ field \o Plain(body) = Whole
    BY <1>1, <2>1 DEF HalfTyped
  <2>3. field = Whole
    <3>1. Plain(<<>>) = <<>>
      BY DEF Plain
    <3>2. field \o <<>> = field
      BY <2>2, ConcatEmptySeq
    <3>3. QED BY <2>2, <3>1, <3>2
  <2>4. submissions' = Append(submissions, field)
    BY <1>1, <2>2, EnterSubmits
  <2>5. QED BY <1>3, <2>1, <2>3, <2>4
<1>5. text' \in Seq(Chars)' /\ width' \in Nat
  BY <1>1 DEF TypingInv, Chars
<1>6. QED BY <1>1, <1>4, <1>5 DEF TypingInv

\* A write that fails submits nothing, and no other one follows it.
LEMMA WriteFailsStep == ASSUME TypingInv, WriteFails PROVE TypingInv'
<1>1. /\ typing \in {"body", "submit"} /\ typing' = "failed"
      /\ UNCHANGED <<text, style, width, softBreak, submissions>>
  BY DEF WriteFails, editorVars
<1>2. Typeable' => Typeable
  BY <1>1, SameWhole
<1>3. text' \in Seq(Chars)' /\ width' \in Nat
  BY <1>1 DEF TypingInv, Chars
<1>4. QED BY <1>1, <1>2, <1>3 DEF TypingInv

\* The other steps of the process do not type.
LEMMA QuietTyping == ASSUME TypingInv, UNCHANGED deliveryVars PROVE TypingInv'
<1>1. UNCHANGED <<text, style, width, typing, body, softBreak, field, pasting, submissions>>
  BY DEF deliveryVars, typingVars, editorVars
<1>2. Whole' = Whole /\ Keys' = Keys /\ (Typeable' => Typeable)
  BY <1>1, SameWhole
<1>3. /\ Visible' = Visible /\ Chars' = Chars /\ Plain(body)' = Plain(body)
      /\ BracketedPaste(Whole)' = BracketedPaste(Whole)
  BY <1>1, <1>2 DEF Visible, Chars, Plain, BracketedPaste
<1>4. HalfTyped => HalfTyped'
  BY <1>1, <1>2, <1>3 DEF HalfTyped
<1> HIDE DEF HalfTyped
<1>5. QED BY <1>1, <1>2, <1>3, <1>4 DEF TypingInv

-----------------------------------------------------------------------------
(* From the command line to the command.                                   *)

\* The parser makes wrap a number only.
LEMMA ArgsStep == ASSUME ArgsInv, ParseStep PROVE ArgsInv'
<1> USE DEF ArgsInv
<1>1. CASE ParseHead
  <2>1. "wrap" \in DOMAIN FromEnv /\ FromEnv.wrap = 0
    BY DEF FromEnv, NoArgs
  <2> HIDE DEF FromEnv
  <2>2. QED BY <1>1, <2>1 DEF ParseHead
<1>2. CASE TakeFlag
  <2>1. args' = SetFlag(argv[at]) /\ argv[at] \in Flags
    BY <1>2 DEF TakeFlag
  <2> DEFINE opt == argv[at]
  <2> HIDE DEF opt
  <2>2. "wrap" \in DOMAIN SetFlag(opt) /\ SetFlag(opt).wrap = args.wrap
    BY <2>1 DEF SetFlag, Flags, opt
  <2>3. QED BY <2>1, <2>2 DEF opt
<1>3. CASE TakeValue
  <2> DEFINE opt == argv[at]
             v == argv[at + 1]
  <2>1. /\ opt \in ValueOptions /\ Fits(opt, v)
        /\ args' = IF opt \in NumberOptions THEN SetNumber(opt, Numbers[v]) ELSE SetText(opt, v)
    BY <1>3 DEF TakeValue
  <2> HIDE DEF opt, v
  <2>2. CASE opt \in NumberOptions
    <3>1. Numbers[v] \in Nat
      BY <2>1, <2>2, CommandLineAssumption DEF Fits, IsNumber
    <3> DEFINE k == Numbers[v]
    <3> HIDE DEF k
    <3>2. k \in Nat /\ args' = SetNumber(opt, k)
      BY <2>1, <2>2, <3>1 DEF k
    <3>3. QED BY <2>2, <3>2 DEF SetNumber, NumberOptions
  <2>3. CASE opt \notin NumberOptions
    <3>1. args' = SetText(opt, v)
          /\ opt \in {"--cmd", "--cmd-file", "--prompt", "--cwd", "--transcript-dir", "--result-file"}
      BY <2>1, <2>3 DEF ValueOptions
    <3>2. QED BY <3>1 DEF SetText
  <2>4. QED BY <2>2, <2>3
<1>4. CASE RejectOption
  BY <1>4 DEF RejectOption
<1>5. CASE FinishParsing
  <2>1. \/ args' = args
        \/ args' = [args EXCEPT !.hard = HardTimeoutOf(args), !.transcriptDir = TranscriptDirOf(args)]
    BY <1>5 DEF FinishParsing
  <2> DEFINE h == HardTimeoutOf(args)
             t == TranscriptDirOf(args)
  <2> HIDE DEF h, t
  <2>2. args' = args \/ args' = [args EXCEPT !.hard = h, !.transcriptDir = t]
    BY <2>1 DEF h, t
  <2>3. QED BY <2>2
<1>6. QED BY <1>1, <1>2, <1>3, <1>4, <1>5 DEF ParseStep

\* What is sent is made of what the texts are made of.
LEMMA TextsAre ==
  ASSUME NEW s \in Texts, NEW file
  PROVE  /\ s \in Seq(Chars) /\ TrimEnd(s) \in Seq(Chars)
         /\ WrapCommand(s, file) \in Seq(Chars) /\ WrapCommand(TrimEnd(s), file) \in Seq(Chars)
<1>1. s \in Seq(Chars)
  <2>1. s \in Seq(STRING \ {CR, PasteBegin, PasteEnd})
        /\ STRING \ {CR, PasteBegin, PasteEnd} \subseteq Chars
    BY CliAssumption DEF Chars
  <2> HIDE DEF Chars
  <2>2. QED BY <2>1, SeqMonotonic
<1>2. Blank \in Chars /\ "F" \in Chars /\ "W" \in Chars
  BY CharFacts
<1> HIDE DEF Chars
<1>3. TrimEnd(s) \in Seq(Chars)
  <2> DEFINE n == Len(s)
             S == {0} \cup {i \in DOMAIN s : s[i] \notin {Blank, LF}}
             m == Max(S)
  <2>1. n \in Nat /\ DOMAIN s = 1..n
    BY <1>1, LenProperties
  <2>2. S \in SUBSET (0..n) /\ S # {}
    BY <2>1
  <2>3. TrimEnd(s) = SubSeq(s, 1, m)
    BY DEF TrimEnd
  <2> HIDE DEF S
  <2>4. m \in 0..n
    BY <2>1, <2>2, MinMax
  <2> HIDE DEF m
  <2>5. 1 \in 1 .. Len(s) + 1 /\ m \in 1 - 1 .. Len(s)
    BY <2>1, <2>4
  <2>6. QED BY <1>1, <2>3, <2>5, CutOut
<1>4. ASSUME NEW c \in Seq(Chars) PROVE WrapCommand(c, file) \in Seq(Chars)
  <2> DEFINE f == <<Blank, "F">>
             g == IF file = Absent THEN <<>> ELSE <<Blank, "W">>
  <2>1. f \in Seq(Chars) /\ g \in Seq(Chars)
    BY <1>2
  <2>2. WrapCommand(c, file) = c \o f \o g
    BY DEF WrapCommand
  <2> HIDE DEF f, g
  <2>3. c \o f \in Seq(Chars)
    BY <2>1, ConcatProperties
  <2> DEFINE d == c \o f
  <2>4. d \in Seq(Chars)
    BY <2>3
  <2> HIDE DEF d
  <2>5. d \o g \in Seq(Chars)
    BY <2>1, <2>4, ConcatProperties
  <2>6. QED BY <2>2, <2>5 DEF d
<1>5. QED BY <1>1, <1>3, <1>4

\* At first nothing is typed, and wrap is 0.
LEMMA TypingInit == Init => TypingInv /\ ArgsInv
<1>1. ASSUME DeliveryInit PROVE TypingInv
  BY <1>1 DEF DeliveryInit, TypingInv
<1>2. ASSUME ParseInit PROVE ArgsInv
  BY <1>2 DEF ParseInit, NoArgs, ArgsInv
<1>3. QED BY <1>1, <1>2 DEF Init

\* Every step of the process keeps what is known of the typing.
LEMMA TypingNext == ASSUME TypingInv, ArgsInv, [Next]_cliVars PROVE TypingInv' /\ ArgsInv'
<1>1. CASE UNCHANGED <<parseVars, deliveryVars>>
  <2>1. TypingInv'
    BY <1>1, QuietTyping
  <2>2. QED BY <1>1, <2>1 DEF parseVars, ArgsInv
<1>2. CASE DispatchUpdate
  <2>1. args' = NoArgs /\ UNCHANGED deliveryVars
    BY <1>2 DEF DispatchUpdate, ForgetCommandLine
  <2>2. ArgsInv'
    BY <2>1 DEF ArgsInv, NoArgs
  <2>3. QED BY <2>1, <2>2, QuietTyping
<1>3. CASE Parses
  BY <1>3, QuietTyping, ArgsStep DEF Parses
<1>4. CASE SendsCommand
  <2>1. args' = NoArgs
    BY <1>4 DEF SendsCommand, ForgetCommandLine
  <2>2. ArgsInv'
    BY <2>1 DEF ArgsInv, NoArgs
  <2>3. PICK s \in Texts :
          LET cmd == IF args.hasCmdFile THEN TrimEnd(s) ELSE s
          IN  Send(IF args.extract THEN WrapCommand(cmd, args.resultFile) ELSE cmd,
                   InputStyle, args.wrap)
    BY <1>4 DEF SendsCommand
  <2> DEFINE cmd == IF args.hasCmdFile THEN TrimEnd(s) ELSE s
             t == IF args.extract THEN WrapCommand(cmd, args.resultFile) ELSE cmd
  <2>4. Send(t, InputStyle, args.wrap)
    BY <2>3
  <2>5. t \in Seq(Chars)
    BY TextsAre
  <2>6. InputStyle \in {"paste", "burst", "jitter"} /\ args.wrap \in Nat
    BY DEF InputStyle, ArgsInv
  <2> HIDE DEF t
  <2>7. TypingInv'
    BY <2>4, <2>5, <2>6, SendStep
  <2>8. QED BY <2>2, <2>7
<1>5. CASE Types
  <2>1. TypeCommand /\ UNCHANGED parseVars
    BY <1>5 DEF Types
  <2>2. TypingInv'
    BY <2>1, TypeBodyStep, PressEnterStep, WriteFailsStep DEF TypeCommand
  <2>3. QED BY <2>1, <2>2 DEF parseVars, ArgsInv
<1>6. QED BY <1>1, <1>2, <1>3, <1>4, <1>5 DEF Next, cliVars, DispatchParse, Updates

\* What is known of a command on its way holds throughout: of each state between two
\* writes of send_paste, send_burst or type_command, and after one of them has failed.
THEOREM TypingInvHolds == Spec => [](TypingInv /\ ArgsInv)
<1>1. Init => TypingInv /\ ArgsInv
  BY TypingInit
<1>2. TypingInv /\ ArgsInv /\ [Next]_cliVars => (TypingInv /\ ArgsInv)'
  BY TypingNext
<1>3. QED BY <1>1, <1>2, PTL DEF Spec

\* A command arrives as one submission, whole and with nothing else in it, or not at
\* all, in whatever style it is typed, at whatever write the typing fails, however the
\* chunks fall and however wide the input is folded.
THEOREM CommandsArrive == Spec => []CommandArrives
<1>1. TypingInv => CommandArrives
  <2> SUFFICES ASSUME TypingInv, Typeable PROVE
        /\ typing = "sent" => Len(submissions) = 1
        /\ typing # "sent" => submissions = <<>>
        /\ \A i \in DOMAIN submissions : IsCommand(submissions[i])
    BY DEF CommandArrives, Typeable
  <2>1. CASE typing # "sent"
    BY <2>1 DEF TypingInv
  <2>2. CASE typing = "sent"
    <3>1. submissions = <<Whole>> /\ text \in Seq(Chars) /\ width \in Nat
      BY <2>2 DEF TypingInv
    <3>2. Flat(FoldText(StripInvisible(text), width)) = Flat(StripInvisible(text))
      BY <3>1, TheWhole
    <3>3. width = 0 => FoldText(StripInvisible(text), width) = StripInvisible(text)
      BY DEF FoldText
    <3>4. IsCommand(Whole)
      BY <3>1, <3>2, <3>3 DEF IsCommand, Whole
    <3>5. Len(submissions) = 1 /\ DOMAIN submissions = {1} /\ submissions[1] = Whole
      BY <3>1
    <3>6. QED BY <2>2, <3>4, <3>5
  <2>3. QED BY <2>1, <2>2
<1>2. QED BY <1>1, TypingInvHolds, PTL

-----------------------------------------------------------------------------
(* How wide the lines are, and where they are cut.                         *)

\* Of w + 1 columns that follow each other one is a newline.
NoWider(t, w) == \A a \in 1 .. Len(t) - w : \E j \in a .. a + w : t[j] = LF

\* A line that fits before lines that fit.
LEMMA NoWiderJoin ==
  ASSUME NEW T, LF \in T, NEW x \in Seq(T), NEW r \in Seq(T), NEW w \in Nat,
         Len(x) <= w, NoWider(r, w)
  PROVE  NoWider(x \o <<LF>> \o r, w)
<1> DEFINE t == x \o <<LF>> \o r
           m == Len(x)
           n == Len(r)
<1>1. /\ Len(t) = m + 1 + n /\ t[m + 1] = LF
      /\ \A i \in 1..n : t[m + 1 + i] = r[i]
  BY TwoLines
<1>2. m \in Nat /\ n \in Nat /\ m <= w
  BY LenProperties
<1>3. \A a \in 1 .. n - w : \E j \in a .. a + w : r[j] = LF
  BY DEF NoWider
<1> HIDE DEF t, m, n
<1>4. SUFFICES \A a \in 1 .. m + 1 + n - w : \E j \in a .. a + w : t[j] = LF
  <2>1. ASSUME \A a \in 1 .. m + 1 + n - w : \E j \in a .. a + w : t[j] = LF
        PROVE  NoWider(t, w)
    <3>1. 1 .. Len(t) - w = 1 .. m + 1 + n - w
      BY <1>1, <1>2
    <3>2. QED BY <2>1, <3>1 DEF NoWider
  <2>2. QED BY <2>1 DEF t
<1> TAKE a \in 1 .. m + 1 + n - w
<1>5. CASE a <= m + 1
  <2>1. m + 1 \in a .. a + w
    BY <1>2, <1>5
  <2>2. QED BY <1>1, <2>1
<1>6. CASE ~(a <= m + 1)
  <2> DEFINE b == a - (m + 1)
  <2>1. b \in 1 .. n - w
    BY <1>2, <1>6
  <2>2. PICK j \in b .. b + w : r[j] = LF
    BY <1>3, <2>1
  <2>3. j \in 1..n /\ m + 1 + j \in a .. a + w
    BY <1>2, <2>1, <2>2
  <2> HIDE DEF b
  <2>4. t[m + 1 + j] = LF
    BY <1>1, <2>2, <2>3
  <2>5. QED BY <2>3, <2>4
<1>7. QED BY <1>5, <1>6

\* No line of a folded text is wider than asked for.
LEMMA FoldIsNarrow ==
  ASSUME NEW T, LF \in T, NEW s \in Seq(T), NEW w \in Nat, w > 0
  PROVE  NoWider(FoldText(s, w), w)
<1> DEFINE n == Len(s)
<1>1. PICK f : Folds(f, s, w, 0) /\ FoldText(s, w) = f[0]
  BY FoldTextIs
<1> DEFINE Q == {k \in 0..n : f[k] \in Seq(T) /\ NoWider(f[k], w)}
<1>2. n \in Nat
  BY LenProperties
<1>3. ASSUME NEW k \in 0..n, NextStart(s, w, k) <= n => NextStart(s, w, k) \in Q
      PROVE  k \in Q
  <2> DEFINE h == NextStart(s, w, k)
             r == IF h <= n THEN f[h] ELSE <<>>
  <2>1. f[k] = Segment(s, w, k, r)
    BY <1>1, FoldStep
  <2>2. r \in Seq(T) /\ NoWider(r, w)
    <3>1. CASE h <= n
      BY <1>3, <3>1
    <3>2. CASE ~(h <= n)
      <4>1. Len(<<>>) = 0 /\ 1 .. 0 - w = {}
        OBVIOUS
      <4>2. QED BY <3>2, <4>1 DEF NoWider
    <3>3. QED BY <3>1, <3>2
  <2> HIDE DEF r
  <2>3. CASE LastLine(s, w, k, r)
    <3> DEFINE y == SubSeq(s, k + 1, n)
    <3>1. y \in Seq(T) /\ Len(y) = n - k
      BY <1>2, Stretch
    <3> HIDE DEF y
    <3>2. n - k <= w /\ f[k] = y
      BY <2>1, <2>3 DEF y, LastLine
    <3>3. NoWider(y, w)
      <4>1. 1 .. Len(y) - w = {}
        BY <1>2, <3>1, <3>2
      <4>2. QED BY <4>1 DEF NoWider
    <3>4. QED BY <3>1, <3>2, <3>3
  <2>4. CASE \E m \in k .. n - 1 : LineTo(s, w, k, r, m)
    <3>1. PICK m \in k .. n - 1 : LineTo(s, w, k, r, m)
      BY <2>4
    <3> DEFINE y == SubSeq(s, k + 1, m)
    <3>2. y \in Seq(T) /\ Len(y) = m - k
      BY <1>2, Stretch
    <3> HIDE DEF y
    <3>3. Len(y) <= w /\ f[k] = y \o <<LF>> \o r
      BY <2>1, <3>1, <3>2 DEF y, LineTo
    <3>4. NoWider(y \o <<LF>> \o r, w)
      BY <2>2, <3>2, <3>3, NoWiderJoin
    <3>5. y \o <<LF>> \o r \in Seq(T)
      BY <2>2, <3>2, TwoLines
    <3>6. QED BY <3>3, <3>4, <3>5
  <2>5. QED BY <2>2, <2>3, <2>4, SegmentIs
<1> HIDE DEF Q
<1>4. 0 \in Q
  <2>1. Inherits(Q, s, w)
    BY <1>3 DEF Inherits
  <2>2. QED BY <2>1, FoldInduction
<1>5. QED BY <1>1, <1>4 DEF Q

\* Every newline stands beside a blank, or behind w - 1 characters of a word that
\* goes on behind it.
CutsFit(t, w) ==
    \A i \in 1..Len(t) : t[i] = LF =>
        /\ i \in 2 .. Len(t) - 1
        /\ \/ t[i - 1] = Blank
           \/ t[i + 1] = Blank
           \/ /\ w < i
              /\ t[i - 1] # LF /\ t[i + 1] # LF
              /\ \A j \in i - w + 1 .. i - 1 : t[j] \notin {Blank, LF}

\* A line that is cut as it should be before lines that are.
LEMMA CutsFitJoin ==
  ASSUME NEW T, LF \in T, NEW x \in Seq(T), NEW r \in Seq(T), NEW w \in Nat, w > 0,
         Len(x) > 0, Len(r) > 0, r[1] # LF, CutsFit(r, w),
         \A i \in 1..Len(x) : x[i] # LF,
         x[Len(x)] = Blank \/ (Len(x) = w /\ \A i \in 2..w : x[i] # Blank)
  PROVE  CutsFit(x \o <<LF>> \o r, w)
<1> DEFINE t == x \o <<LF>> \o r
           m == Len(x)
           n == Len(r)
<1>1. /\ Len(t) = m + 1 + n
      /\ \A i \in 1..m : t[i] = x[i]
      /\ \A i \in 1..n : t[m + 1 + i] = r[i]
  BY TwoLines
<1>2. m \in Nat /\ n \in Nat /\ m > 0 /\ n > 0
  BY LenProperties
<1>3. /\ r[1] # LF /\ (\A i \in 1..m : x[i] # LF)
      /\ x[m] = Blank \/ (m = w /\ \A i \in 2..w : x[i] # Blank)
  OBVIOUS
<1>4. \A i \in 1..n : r[i] = LF =>
        /\ i \in 2 .. n - 1
        /\ \/ r[i - 1] = Blank
           \/ r[i + 1] = Blank
           \/ /\ w < i
              /\ r[i - 1] # LF /\ r[i + 1] # LF
              /\ \A j \in i - w + 1 .. i - 1 : r[j] \notin {Blank, LF}
  BY DEF CutsFit
<1> HIDE DEF t, m, n
<1> DEFINE Fit(i) == /\ i \in 2 .. m + 1 + n - 1
                     /\ \/ t[i - 1] = Blank
                        \/ t[i + 1] = Blank
                        \/ /\ w < i
                           /\ t[i - 1] # LF /\ t[i + 1] # LF
                           /\ \A j \in i - w + 1 .. i - 1 : t[j] \notin {Blank, LF}
<1>5. SUFFICES ASSUME NEW i \in 1 .. m + 1 + n, t[i] = LF PROVE Fit(i)
  <2>1. ASSUME \A i \in 1 .. m + 1 + n : t[i] = LF => Fit(i) PROVE CutsFit(t, w)
    <3>1. \A i \in 1..Len(t) : t[i] = LF => Fit(i)
      <4> HIDE DEF Fit
      <4>1. QED BY <1>1, <2>1
    <3>2. m + 1 + n - 1 = Len(t) - 1
      BY <1>1, <1>2
    <3>3. QED BY <3>1, <3>2 DEF CutsFit
  <2> HIDE DEF Fit
  <2>2. QED BY <2>1 DEF t
<1>6. CASE i <= m
  <2>1. i \in 1..m
    BY <1>6
  <2>2. QED BY <1>1, <1>3, <1>5, <2>1
<1>7. CASE i = m + 1
  <2>1. i - 1 = m /\ m \in 1..m /\ i \in 2 .. m + 1 + n - 1
    BY <1>2, <1>7
  <2>0. t[m] = x[m]
    BY <1>1, <2>1
  <2>2. t[i + 1] = r[1]
    <3>1. 1 \in 1..n /\ i + 1 = m + 1 + 1
      BY <1>2, <1>7
    <3>2. QED BY <1>1, <3>1
  <2>3. CASE x[m] = Blank
    BY <2>0, <2>1, <2>3
  <2>4. CASE m = w /\ \A q \in 2..w : x[q] # Blank
    <3>1. \A j \in i - w + 1 .. i - 1 : j \in 1..m /\ j \in 2..w
      BY <1>2, <1>7, <2>4
    <3>2. w < i /\ t[i - 1] # LF /\ t[i + 1] # LF
      BY <1>2, <1>3, <1>7, <2>0, <2>1, <2>2, <2>4
    <3>3. \A j \in i - w + 1 .. i - 1 : t[j] \notin {Blank, LF}
      BY <1>1, <1>3, <2>4, <3>1
    <3>4. QED BY <2>1, <3>2, <3>3
  <2>5. QED BY <1>3, <2>3, <2>4
<1>8. CASE i > m + 1
  <2> DEFINE q == i - (m + 1)
  <2>1. q \in 1..n /\ i = m + 1 + q
    BY <1>2, <1>8
  <2> HIDE DEF q
  <2>2. r[q] = LF
    BY <1>1, <1>5, <2>1
  <2>3. /\ q \in 2 .. n - 1
        /\ \/ r[q - 1] = Blank
           \/ r[q + 1] = Blank
           \/ /\ w < q
              /\ r[q - 1] # LF /\ r[q + 1] # LF
              /\ \A j \in q - w + 1 .. q - 1 : r[j] \notin {Blank, LF}
    BY <1>4, <2>1, <2>2
  <2>4. t[i - 1] = r[q - 1] /\ t[i + 1] = r[q + 1] /\ i \in 2 .. m + 1 + n - 1
    <3>1. /\ q - 1 \in 1..n /\ q + 1 \in 1..n
          /\ i - 1 = m + 1 + (q - 1) /\ i + 1 = m + 1 + (q + 1)
          /\ i \in 2 .. m + 1 + n - 1
      BY <1>2, <2>1, <2>3
    <3>2. QED BY <1>1, <3>1
  <2>5. CASE /\ w < q /\ r[q - 1] # LF /\ r[q + 1] # LF
             /\ \A j \in q - w + 1 .. q - 1 : r[j] \notin {Blank, LF}
    <3>1. ASSUME NEW j \in i - w + 1 .. i - 1 PROVE t[j] \notin {Blank, LF}
      <4> DEFINE p == j - (m + 1)
      <4>1. p \in q - w + 1 .. q - 1 /\ p \in 1..n /\ j = m + 1 + p
        BY <1>2, <2>1, <2>5
      <4> HIDE DEF p
      <4>2. QED BY <1>1, <2>5, <4>1
    <3>2. w < i
      BY <1>2, <2>1, <2>5
    <3>3. QED BY <2>4, <2>5, <3>1, <3>2
  <2>6. CASE r[q - 1] = Blank \/ r[q + 1] = Blank
    BY <2>4, <2>6
  <2>7. QED BY <2>3, <2>5, <2>6
<1>9. QED BY <1>2, <1>6, <1>7, <1>8

\* The newlines that folding adds to a text of one line.
LEMMA FoldCutsFit ==
  ASSUME NEW T, LF \in T, NEW s \in Seq(T), NEW w \in Nat, w > 0,
         \A i \in 1..Len(s) : s[i] # LF
  PROVE  CutsFit(FoldText(s, w), w)
<1> DEFINE n == Len(s)
<1>1. PICK f : Folds(f, s, w, 0) /\ FoldText(s, w) = f[0]
  BY FoldTextIs
<1> DEFINE Starts(t, k) == k < n => Len(t) > 0 /\ t[1] = s[k + 1]
           Q == {k \in 0..n : f[k] \in Seq(T) /\ CutsFit(f[k], w) /\ Starts(f[k], k)}
<1>2. n \in Nat
  BY LenProperties
<1>3. ASSUME NEW k \in 0..n, NextStart(s, w, k) <= n => NextStart(s, w, k) \in Q
      PROVE  k \in Q
  <2> DEFINE h == NextStart(s, w, k)
             r == IF h <= n THEN f[h] ELSE <<>>
  <2>1. f[k] = Segment(s, w, k, r)
    BY <1>1, FoldStep
  <2>2. r \in Seq(T) /\ (h <= n => CutsFit(r, w) /\ Starts(r, h))
    BY <1>3
  <2> HIDE DEF r
  <2>3. CASE LastLine(s, w, k, r)
    <3> DEFINE y == SubSeq(s, k + 1, n)
    <3>1. /\ y \in Seq(T) /\ Len(y) = n - k
          /\ \A i \in 1 .. n - k : y[i] = s[k + i]
      BY <1>2, Stretch
    <3> HIDE DEF y
    <3>2. f[k] = y
      BY <2>1, <2>3 DEF y, LastLine
    <3>3. CutsFit(y, w)
      <4>1. \A i \in 1 .. n - k : k + i \in 1..n
        BY <1>2
      <4>2. \A i \in 1..Len(y) : y[i] # LF
        BY <3>1, <4>1
      <4>3. QED BY <4>2 DEF CutsFit
    <3>4. Starts(y, k)
      <4> SUFFICES ASSUME k < n PROVE Len(y) > 0 /\ y[1] = s[k + 1]
        OBVIOUS
      <4>1. 1 \in 1 .. n - k /\ n - k > 0
        BY <1>2
      <4>2. QED BY <3>1, <4>1
    <3> HIDE DEF Starts
    <3>5. QED BY <3>1, <3>2, <3>3, <3>4
  <2>4. CASE \E m \in k .. n - 1 : LineTo(s, w, k, r, m)
    <3>1. PICK m \in k .. n - 1 : LineTo(s, w, k, r, m)
      BY <2>4
    <3> DEFINE y == SubSeq(s, k + 1, m)
               t == y \o <<LF>> \o r
    <3>2. m \in 0..n /\ m + 1 \in 1..n /\ m \in k..n /\ k < n
      BY <1>2
    <3>3. s[m + 1] # LF
      BY <3>2
    <3>4. /\ h = m /\ m # k /\ m - k <= w
          /\ s[m] = Blank \/ (m = k + w /\ \A i \in k + 2 .. m : s[i] # Blank)
          /\ f[k] = t
      BY <2>1, <3>1, <3>3 DEF LineTo
    <3>5. /\ CutsFit(r, w) /\ Len(r) > 0 /\ r[1] = s[m + 1]
      BY <1>2, <2>2, <3>2, <3>4
    <3>6. /\ y \in Seq(T) /\ Len(y) = m - k
          /\ \A i \in 1 .. m - k : y[i] = s[k + i]
      BY <3>2, Stretch
    <3> HIDE DEF y, h
    <3>7. Len(y) > 0 /\ Len(y) \in Nat
      BY <1>2, <3>2, <3>4, <3>6
    <3>8. \A i \in 1..Len(y) : y[i] # LF
      <4>1. \A i \in 1 .. m - k : k + i \in 1..n
        BY <1>2, <3>2
      <4>2. QED BY <3>6, <4>1
    <3>9. y[Len(y)] = Blank \/ (Len(y) = w /\ \A i \in 2..w : y[i] # Blank)
      <4>1. CASE s[m] = Blank
        <5>1. m - k \in 1 .. m - k /\ k + (m - k) = m
          BY <1>2, <3>2, <3>4
        <5>2. y[m - k] = s[m]
          BY <3>6, <5>1
        <5>3. QED BY <3>6, <4>1, <5>2
      <4>2. CASE m = k + w /\ \A i \in k + 2 .. m : s[i] # Blank
        <5>1. m - k = w /\ \A i \in 2..w : i \in 1 .. m - k /\ k + i \in k + 2 .. m
          BY <1>2, <3>2, <4>2
        <5>2. QED BY <3>6, <4>2, <5>1
      <4>3. QED BY <3>4, <4>1, <4>2
    <3>10. CutsFit(t, w)
      <4>1. r[1] # LF
        BY <3>3, <3>5
      <4>2. QED BY <2>2, <3>5, <3>6, <3>7, <3>8, <3>9, <4>1, CutsFitJoin
    <3>11. t \in Seq(T) /\ Starts(t, k)
      <4>1. /\ t \in Seq(T) /\ Len(t) = Len(y) + 1 + Len(r)
            /\ \A i \in 1..Len(y) : t[i] = y[i]
        <5>1. r \in Seq(T) /\ y \in Seq(T) /\ LF \in T
          BY <2>2, <3>6
        <5>2. QED BY ONLY <5>1, TwoLines
      <4> HIDE DEF t
      <4>2. Len(r) \in Nat /\ 1 \in 1..Len(y) /\ 1 \in 1 .. m - k
        BY <2>2, <3>6, <3>7, LenProperties
      <4>3. t[1] = s[k + 1]
        BY <3>6, <4>1, <4>2
      <4>4. QED BY <3>7, <4>1, <4>2, <4>3
    <3> HIDE DEF Starts, t
    <3>12. QED BY <3>4, <3>10, <3>11
  <2>5. QED BY <2>2, <2>3, <2>4, SegmentIs
<1> HIDE DEF Q
<1>4. 0 \in Q
  <2>1. Inherits(Q, s, w)
    BY <1>3 DEF Inherits
  <2>2. QED BY <2>1, FoldInduction
<1>5. QED BY <1>1, <1>4 DEF Q

\* Leaving characters out makes a text no longer.
LEMMA WithoutLength ==
  ASSUME NEW T, NEW s \in Seq(T), NEW S
  PROVE  Len(Without(s, S)) \in 0..Len(s)
<1> DEFINE n == Len(s)
<1>1. PICK f \in [0..n -> Seq(T \ S)] : Sieves(f, s, S) /\ Without(s, S) = f[n]
  BY WithoutSieves
<1>2. n \in Nat /\ \A i \in 1..n : s[i] \in T
  BY LenProperties, ElementOfSeq
<1> DEFINE B == {i \in 0..n : ~(Len(f[i]) <= i)}
<1>3. \A i \in 0..n : f[i] \in Seq(T \ S) /\ Len(f[i]) \in Nat
  BY LenProperties
<1>4. B = {}
  <2> SUFFICES ASSUME B # {} PROVE FALSE
    OBVIOUS
  <2>1. PICK m \in B : \A k \in B : m <= k
    <3>1. B \in SUBSET (0..n)
      OBVIOUS
    <3> HIDE DEF B
    <3>2. QED BY <1>2, <3>1, Least
  <2>2. m \in 0..n /\ ~(Len(f[m]) <= m)
    OBVIOUS
  <2>3. m # 0
    BY <1>1, <2>2 DEF Sieves
  <2>4. m \in 1..n /\ m - 1 \in 0..n /\ ~(m <= m - 1)
    BY <1>2, <2>2, <2>3
  <2>5. m - 1 \notin B
    <3> HIDE DEF B
    <3>1. QED BY <2>1, <2>4
  <2>6. Len(f[m - 1]) <= m - 1
    BY <2>4, <2>5
  <2>7. f[m] = IF s[m] \in S THEN f[m - 1] ELSE Append(f[m - 1], s[m])
    BY <1>1, <2>4 DEF Sieves
  <2>8. CASE s[m] \in S
    BY <1>3, <2>2, <2>4, <2>6, <2>7, <2>8
  <2>9. CASE s[m] \notin S
    <3> DEFINE g == f[m - 1]
               c == s[m]
    <3>1. g \in Seq(T \ S) /\ c \in T \ S
      BY <1>2, <1>3, <2>4, <2>9
    <3> HIDE DEF g, c
    <3>2. Len(Append(g, c)) = Len(g) + 1
      BY <3>1, AppendProperties
    <3>3. Len(f[m]) = Len(f[m - 1]) + 1
      BY <2>7, <2>9, <3>2 DEF g, c
    <3>4. QED BY <1>3, <2>2, <2>4, <2>6, <3>3
  <2>10. QED BY <2>8, <2>9
<1>5. n \in 0..n /\ n \notin B
  BY <1>2, <1>4
<1>6. QED BY <1>1, <1>3, <1>5

\* A text without any of them is left as it is.
LEMMA WithoutNone ==
  ASSUME NEW T, NEW s \in Seq(T), NEW S, \A i \in 1..Len(s) : s[i] \notin S
  PROVE  Without(s, S) = s
<1> DEFINE n == Len(s)
           p == [i \in 0..n |-> SubSeq(s, 1, i)]
<1>1. PICK f : Sieves(f, s, S) /\ Without(s, S) = f[n]
  BY WithoutSieves
<1>2. n \in Nat
  BY LenProperties
<1>3. /\ SubSeq(s, 1, 0) = <<>> /\ SubSeq(s, 1, n) = s
      /\ \A i \in 1..n : SubSeq(s, 1, i) = Append(SubSeq(s, 1, i - 1), s[i])
  BY OneMore, SubSeqFull
<1>4. /\ p[0] = <<>> /\ p[n] = s /\ \A i \in 1..n : p[i] = Append(p[i - 1], s[i])
  <2>1. 0 \in 0..n /\ n \in 0..n /\ \A i \in 1..n : i \in 0..n /\ i - 1 \in 0..n
    BY <1>2
  <2> HIDE DEF n
  <2>2. QED BY <1>3, <2>1 DEF n
<1> HIDE DEF p
<1>5. Alike(f, p, n)
  BY <1>1, <1>4 DEF Sieves, Alike
<1>6. \A i \in 0..n : f[i] = p[i]
  BY <1>2, <1>5, SameRecursion
<1>7. f[n] = p[n]
  BY <1>2, <1>6
<1>8. QED BY <1>1, <1>4, <1>7

\* The newlines of t, what is solid around the one at i, and how long it is.
Newlines(t)  == {i \in DOMAIN t : t[i] = LF}
Solid(t, i)  == {r \in (1 .. i - 1) \X (i + 1 .. Len(t)) : \A j \in r[1] .. r[2] : t[j] # Blank}
Lengths(t, i) == {0} \cup {Len(Flat(SubSeq(t, r[1], r[2]))) : r \in Solid(t, i)}

\* A word is cut by such a newline only when it has w columns.
LEMMA WordsFit ==
  ASSUME NEW T, LF \in T, NEW t \in Seq(T), NEW w \in Nat, w > 0, CutsFit(t, w),
         NEW i \in Newlines(t)
  PROVE  Max(Lengths(t, i)) = 0 \/ Max(Lengths(t, i)) >= w
<1> DEFINE n == Len(t)
           R == Solid(t, i)
           L == Lengths(t, i)
<1>1. n \in Nat /\ i \in 1..n /\ t[i] = LF
  BY LenProperties DEF Newlines
<1>2. /\ i \in 2 .. n - 1
      /\ \/ t[i - 1] = Blank
         \/ t[i + 1] = Blank
         \/ /\ w < i
            /\ t[i - 1] # LF /\ t[i + 1] # LF
            /\ \A j \in i - w + 1 .. i - 1 : t[j] \notin {Blank, LF}
  BY <1>1 DEF CutsFit
<1>3. \A a \in 1 .. i - 1, b \in i + 1 .. n :
         (\A j \in a..b : t[j] # Blank) <=> <<a, b>> \in R
  BY DEF Solid
<1>4. \A r \in R : /\ r[1] \in 1 .. i - 1 /\ r[2] \in i + 1 .. n
                   /\ \A j \in r[1] .. r[2] : t[j] # Blank
  BY DEF Solid
<1>5. L = {0} \cup {Len(Flat(SubSeq(t, r[1], r[2]))) : r \in R}
  BY DEF Lengths
<1> HIDE DEF n, R, L
<1>6. L \in SUBSET (0..n)
  <2> SUFFICES ASSUME NEW r \in R PROVE Len(Flat(SubSeq(t, r[1], r[2]))) \in 0..n
    BY <1>1, <1>5
  <2> DEFINE a == r[1]
             b == r[2]
             y == SubSeq(t, a, b)
  <2>1. a \in 1 .. i - 1 /\ b \in i + 1 .. n
    BY <1>4
  <2> HIDE DEF a, b
  <2>2. a \in 1 .. Len(t) + 1 /\ b \in a - 1 .. Len(t) /\ b - a + 1 <= n
    BY <1>1, <1>2, <2>1 DEF n
  <2>3. y \in Seq(T) /\ Len(y) = b - a + 1
    BY <2>2, CutOut
  <2> HIDE DEF y
  <2>4. Len(Flat(y)) \in 0..Len(y)
    BY <2>3, WithoutLength DEF Flat
  <2>5. Len(Flat(y)) \in 0..n
    BY <1>1, <2>1, <2>2, <2>3, <2>4
  <2>6. QED BY <2>5 DEF y, a, b
<1>7. L # {}
  BY <1>5
<1>8. Max(L) \in L /\ \A k \in L : Max(L) >= k
  BY <1>1, <1>6, <1>7, MinMax
<1>9. CASE t[i - 1] = Blank \/ t[i + 1] = Blank
  <2>1. R = {}
    <3> SUFFICES ASSUME NEW r \in R PROVE FALSE
      OBVIOUS
    <3>1. i - 1 \in r[1] .. r[2] /\ i + 1 \in r[1] .. r[2]
      BY <1>1, <1>2, <1>4
    <3>2. QED BY <1>4, <1>9, <3>1
  <2>2. L = {0}
    BY <1>5, <2>1
  <2>3. Max(L) = 0
    BY <1>8, <2>2
  <2>4. QED BY <2>3 DEF L
<1>10. CASE /\ t[i - 1] # Blank /\ t[i + 1] # Blank
            /\ w < i
            /\ t[i - 1] # LF /\ t[i + 1] # LF
            /\ \A j \in i - w + 1 .. i - 1 : t[j] \notin {Blank, LF}
  <2> DEFINE a == IF w = 1 THEN i - 1 ELSE i - w + 1
             b == i + 1
  <2>1. /\ a \in 1 .. i - 1 /\ b \in i + 1 .. n
        /\ i - a + 1 >= w
        /\ \A j \in a .. i - 1 : j = i - 1 \/ j \in i - w + 1 .. i - 1
    BY <1>1, <1>2, <1>10
  <2> HIDE DEF a
  <2>2. \A j \in a .. i - 1 : t[j] # Blank /\ t[j] # LF
    BY <1>10, <2>1
  <2>3. <<a, b>> \in R
    <3>1. \A j \in a..b : j \in a .. i - 1 \/ j = i \/ j = b
      BY <1>1, <2>1
    <3>2. \A j \in a..b : t[j] # Blank
      BY <1>1, <1>10, <2>2, <3>1, CharFacts
    <3>3. QED BY <1>3, <2>1, <3>2
  <2> DEFINE y == SubSeq(t, a, b)
             x == SubSeq(t, a, i - 1)
             z == SubSeq(t, i + 1, i + 1)
  <2>4. Len(Flat(y)) \in L
    <3> DEFINE r == <<a, b>>
    <3>1. r \in R /\ r[1] = a /\ r[2] = b
      BY <2>3
    <3> HIDE DEF r
    <3>2. Len(Flat(SubSeq(t, r[1], r[2]))) \in L
      BY <1>5, <3>1
    <3>3. QED BY <3>1, <3>2
  <2>5. /\ x \in Seq(T) /\ Len(x) = i - a /\ \A j \in 1..Len(x) : x[j] # LF
    <3> DEFINE c == i - 1
    <3>1. a \in 1 .. Len(t) + 1 /\ c \in a - 1 .. Len(t) /\ c - a + 1 = i - a
          /\ \A j \in 1 .. c - a + 1 : a + j - 1 \in a..c
      BY <1>1, <2>1 DEF n
    <3> HIDE DEF c
    <3>2. /\ SubSeq(t, a, c) \in Seq(T) /\ Len(SubSeq(t, a, c)) = c - a + 1
          /\ \A j \in 1 .. c - a + 1 : SubSeq(t, a, c)[j] = t[a + j - 1]
      BY <3>1, CutOut
    <3>3. \A j \in a..c : t[j] # LF
      BY <2>2 DEF c
    <3> DEFINE v == SubSeq(t, a, c)
    <3> HIDE DEF v
    <3>4. v \in Seq(T) /\ Len(v) = i - a /\ \A j \in 1..Len(v) : v[j] # LF
      BY <3>1, <3>2, <3>3 DEF v
    <3>5. QED BY <3>4 DEF v, c
  <2>6. z \in Seq(T) /\ Len(z) = 1 /\ \A j \in 1..Len(z) : z[j] # LF
    <3>1. b \in 1 .. Len(t) + 1 /\ b \in b - 1 .. Len(t) /\ b - b + 1 = 1 /\ b + 1 - 1 = b
      BY <1>1, <2>1 DEF n
    <3>2. t[b] # LF
      BY <1>10
    <3> HIDE DEF b
    <3> DEFINE v == SubSeq(t, b, b)
    <3>3. /\ v \in Seq(T) /\ Len(v) = b - b + 1
          /\ \A j \in 1 .. b - b + 1 : v[j] = t[b + j - 1]
      BY <3>1, CutOut
    <3> HIDE DEF v
    <3>4. v \in Seq(T) /\ Len(v) = 1 /\ \A j \in 1..Len(v) : v[j] # LF
      BY <3>1, <3>2, <3>3
    <3>5. QED BY <3>4 DEF v, b
  <2>7. y = x \o (<<LF>> \o z)
    <3> DEFINE c == i - 1
               l == SubSeq(t, i, i)
               g == SubSeq(t, i, b)
    <3>1. /\ a \in 1 .. Len(t) + 1 /\ c \in a - 1 .. Len(t) /\ b \in c .. Len(t) /\ c + 1 = i
          /\ i \in 1 .. Len(t) + 1 /\ i \in i - 1 .. Len(t) /\ b \in i .. Len(t)
          /\ i - i + 1 = 1 /\ i + 1 - 1 = i
      BY <1>1, <2>1 DEF n
    <3> HIDE DEF c, b
    <3>2. SubSeq(t, a, c) \o SubSeq(t, c + 1, b) = SubSeq(t, a, b)
      BY <3>1, ConcatAdjacentSubSeq
    <3>3. SubSeq(t, i, i) \o SubSeq(t, i + 1, b) = SubSeq(t, i, b)
      BY <3>1, ConcatAdjacentSubSeq
    <3>4. l = <<LF>>
      <4>1. /\ l \in Seq(T) /\ Len(l) = i - i + 1
            /\ \A j \in 1 .. i - i + 1 : l[j] = t[i + j - 1]
        BY <3>1, CutOut
      <4> HIDE DEF l
      <4>2. l \in Seq(T) /\ Len(l) = 1 /\ l[1] = LF
        <5>1. i \in Nat /\ 1 \in 1 .. i - i + 1 /\ i - i + 1 = 1 /\ i + 1 - 1 = i
          BY <1>1
        <5>2. l[1] = t[i + 1 - 1]
          BY <4>1, <5>1
        <5>3. QED BY <1>1, <4>1, <5>1, <5>2
      <4>3. l = <<l[1]>>
        BY <4>2
      <4>4. QED BY <4>2, <4>3
    <3>5. z = SubSeq(t, i + 1, b) /\ x = SubSeq(t, a, c)
      BY DEF b, c
    <3> HIDE DEF x, z
    <3>6. QED BY <3>1, <3>2, <3>3, <3>4, <3>5
  <2> HIDE DEF x, y, z
  <2>8. Flat(y) = x \o z
    <3> DEFINE l == <<LF>>
               g == l \o z
    <3>1. l \in Seq(T) /\ Flat(l) = <<>>
      BY FlatNothing
    <3> HIDE DEF l
    <3>2. g \in Seq(T) /\ Flat(g) = Flat(l) \o Flat(z)
      BY <2>6, <3>1, FlatConcat, ConcatProperties
    <3> HIDE DEF g
    <3>3. Flat(x \o g) = Flat(x) \o Flat(g)
      BY <2>5, <3>2, FlatConcat
    <3>4. Flat(x) = x /\ Flat(z) = z
      BY <2>5, <2>6, WithoutNone DEF Flat
    <3>5. <<>> \o z = z
      BY <2>6, ConcatEmptySeq
    <3>6. y = x \o g
      BY <2>7 DEF g, l
    <3>7. QED BY <3>1, <3>2, <3>3, <3>4, <3>5, <3>6
  <2>9. Len(x \o z) = i - a + 1
    <3>1. Len(x \o z) = Len(x) + Len(z)
      BY <2>5, <2>6, ConcatProperties
    <3>2. QED BY <2>5, <2>6, <3>1
  <2>10. i - a + 1 \in L
    BY <2>4, <2>8, <2>9
  <2>11. Max(L) >= i - a + 1 /\ Max(L) \in 0..n
    BY <1>6, <1>8, <2>10
  <2>12. Max(L) >= w
    BY <1>1, <2>1, <2>11
  <2>13. QED BY <2>12 DEF L
<1>11. QED BY <1>2, <1>9, <1>10

\* The lines of such a text.
LEMMA LinesFit ==
  ASSUME NEW T, NEW t \in Seq(T), NEW w \in Nat, NoWider(t, w),
         NEW i \in {0, Len(t) + 1} \cup Newlines(t), NEW j \in {0, Len(t) + 1} \cup Newlines(t),
         i < j, Newlines(t) \cap (i + 1 .. j - 1) = {}
  PROVE  j - i - 1 <= w
<1> DEFINE n == Len(t)
<1>1. n \in Nat /\ i \in 0 .. n + 1 /\ j \in 0 .. n + 1
  BY LenProperties DEF Newlines
<1>2. SUFFICES ASSUME j - i - 1 > w PROVE FALSE
  BY <1>1
<1>3. i + 1 \in 1 .. n - w
  BY <1>1, <1>2
<1>4. PICK k \in i + 1 .. i + 1 + w : t[k] = LF
  BY <1>3 DEF NoWider
<1>5. k \in 1..n /\ k \in i + 1 .. j - 1
  BY <1>1, <1>2, <1>4
<1>6. k \in Newlines(t)
  BY <1>4, <1>5 DEF Newlines
<1>7. QED BY <1>5, <1>6

\* Folding an input adds newlines only, leaves no line wider than --wrap-input asks for,
\* and cuts no word of less than that many columns, for every text and every width.
THEOREM FoldingFits == Spec => []FoldFits
<1>1. TypingInv => FoldFits
  <2> SUFFICES ASSUME TypingInv, typing # "none", width > 0 PROVE FoldFits
    BY DEF FoldFits
  <2> DEFINE s == StripInvisible(text)
             t == FoldText(s, width)
  <2>1. text \in Seq(Chars) /\ width \in Nat
    BY DEF TypingInv
  <2>2. s \in Seq(Visible) /\ t \in Seq(Visible) /\ Flat(t) = Flat(s) /\ LF \in Visible
    BY <2>1, TheWhole, CharFacts
  <2> HIDE DEF s
  <2>3. NoWider(t, width)
    BY <2>1, <2>2, FoldIsNarrow
  <2>4. Flat(s) = s => CutsFit(t, width)
    <3> SUFFICES ASSUME Flat(s) = s PROVE CutsFit(t, width)
      OBVIOUS
    <3>1. s \in Seq(Visible \ {LF})
      <4>1. Without(s, {LF}) \in Seq(Visible \ {LF})
        BY <2>2, WithoutType
      <4>2. QED BY <4>1 DEF Flat
    <3>2. \A i \in 1..Len(s) : s[i] # LF
      BY <3>1, ElementOfSeq
    <3>3. QED BY <2>1, <2>2, <3>2, FoldCutsFit
  <2> HIDE DEF t
  <2>5. \A i, j \in {0, Len(t) + 1} \cup Newlines(t) :
            i < j /\ Newlines(t) \cap (i + 1 .. j - 1) = {} => j - i - 1 <= width
    BY <2>1, <2>2, <2>3, LinesFit
  <2>6. Flat(s) = s => \A i \in Newlines(t) :
                          Max(Lengths(t, i)) = 0 \/ Max(Lengths(t, i)) >= width
    BY <2>1, <2>2, <2>4, WordsFit
  <2>7. QED BY <2>2, <2>5, <2>6 DEF FoldFits, Newlines, Lengths, Solid, s, t
<1>2. QED BY <1>1, TypingInvHolds, PTL
=============================================================================
